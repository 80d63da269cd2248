--------------------------- MODULE BlockAllocator ---------------------------
(***************************************************************************)
(* What an allocator of blocks promises its callers: a block that is handed *)
(* out is one that nobody holds, and it is theirs until they put it back.   *)
(***************************************************************************)
CONSTANTS Null

VARIABLES
  inUse,  \* the blocks that callers hold
  got     \* what the last get delivered, Null if it failed

vars == <<inUse, got>>

Init == inUse = {} /\ got = Null

Get(b) ==
  /\ b # Null /\ b \notin inUse
  /\ inUse' = inUse \cup {b}
  /\ got' = b

GetFails ==
  /\ got' = Null
  /\ UNCHANGED inUse

Put(b) ==
  /\ b \in inUse
  /\ inUse' = inUse \ {b}
  /\ UNCHANGED got

(* Exactly one block changes hands in a step, and a get tells which. *)
Next ==
  \/ Get(got')
  \/ GetFails
  \/ \E b \in inUse : Put(b)

Spec == Init /\ [][Next]_vars

=============================================================================
