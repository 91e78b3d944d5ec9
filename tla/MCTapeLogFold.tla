---- MODULE MCTapeLogFold ----
(* Small instances of TapeLogFold for TLC. *)
EXTENDS TapeLogFoldInv, TLC

(* A closeout sidecar grows with the range it covers. *)
MCSidecarExtent == [n \in 1..EpochBlocks |-> IF n <= 2 THEN 1 ELSE 2]

(* Sessions are interchangeable, and so are editions of a plan. *)
Symmetry == Permutations(Sessions) \cup Permutations(Editions)
====
