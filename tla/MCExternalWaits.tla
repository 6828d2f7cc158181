--------------------------- MODULE MCExternalWaits ---------------------------
(* Small instances of ExternalWaits for TLC. *)
EXTENDS ExternalWaits
=============================================================================
