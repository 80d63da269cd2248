--------------------------- MODULE MCEchoServer ---------------------------
(* The echo server on small instances: who is there at the start, and by    *)
(* how much the pools grow and shrink.                                      *)
EXTENDS EchoServer

CONSTANTS r1, r2, r3, r4, t1, t2, t3, w1, w2, w3, w4, w5

OneRx == <<r1>>
OneTx == <<t1>>
OneWorker == <<w1>>

ThreeRx == <<r1, r2, r3>>
TwoTx == <<t1, t2>>
ThreeWorkers == <<w1, w2, w3>>
FiveWorkers == <<w1, w2, w3, w4, w5>>

(* Nothing tells one peer from another. *)
ClientSymmetry == Permutations(Client)

CapDeltaOne == [k \in Kinds |-> 1]

(* Two workers are created or deleted at a time. *)
CapDeltaTwoWorkers == [CapDeltaOne EXCEPT !["worker"] = 2]

===========================================================================
