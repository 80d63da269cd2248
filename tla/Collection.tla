----------------------------- MODULE Collection -----------------------------
(***************************************************************************)
(* What utils/array.c promises: the items that were added since the last    *)
(* reset, in the order in which they were added.                            *)
(***************************************************************************)
EXTENDS Sequences

CONSTANT Data

VARIABLE contents

Init == contents = << >>

Add(d) == contents' = Append(contents, d)
Reset == contents' = << >>

Next == Reset \/ \E d \in Data : Add(d)

Spec == Init /\ [][Next]_contents

=============================================================================
