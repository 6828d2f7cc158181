--------------------------- MODULE MCProviderStart ---------------------------
(* Small instances of ProviderStart for TLC. *)
EXTENDS ProviderStart
=============================================================================
