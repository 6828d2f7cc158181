------------------------------ MODULE MCReplan ------------------------------
(***************************************************************************)
(* Teams for the replan runs: a lead with two children, which in the       *)
(* larger Team have a child of their own each.                             *)
(***************************************************************************)
EXTENDS Replan

ThreeMembers == {"lead", "a", "b"}
ThreeParent == [m \in {"a", "b"} |-> "lead"]

FiveMembers == {"lead", "a", "b", "c", "d"}
FiveParent ==
    [m \in {"a", "b", "c", "d"} |->
        CASE m = "c" -> "a" [] m = "d" -> "b" [] OTHER -> "lead"]

NoSpare == {}
OneSpare == {"x"}
=============================================================================
