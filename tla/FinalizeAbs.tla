----------------------------- MODULE FinalizeAbs ------------------------------
(***************************************************************************)
(* What finalizing a tape promises, whatever fails on the way: a plan that *)
(* was accepted stays accepted, its components are recorded one after the  *)
(* other, the tape is sealed behind the last, and data the log knows       *)
(* nothing of is discarded only while no plan is accepted.                 *)
(***************************************************************************)
EXTENDS Naturals

CONSTANT Components

VARIABLES
    phase,      \* of the plan: "open", "accepted" or "sealed"
    recorded,   \* terminal components the log records
    foreign     \* unknown data lies behind the log's end

vars == <<phase, recorded, foreign>>

Init == phase = "open" /\ recorded = 0 /\ foreign \in BOOLEAN

Accept ==
    /\ phase = "open" /\ phase' = "accepted"
    /\ UNCHANGED <<recorded, foreign>>
Discard ==
    /\ phase = "open" /\ foreign /\ foreign' = FALSE
    /\ UNCHANGED <<phase, recorded>>
Record ==
    /\ phase = "accepted" /\ ~foreign /\ recorded < Components
    /\ recorded' = recorded + 1
    /\ UNCHANGED <<phase, foreign>>
Seal ==
    /\ phase = "accepted" /\ recorded = Components
    /\ phase' = "sealed"
    /\ UNCHANGED <<recorded, foreign>>

Next == Accept \/ Discard \/ Record \/ Seal
Spec == Init /\ [][Next]_vars
================================================================================
