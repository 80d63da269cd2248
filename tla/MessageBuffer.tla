---------------------------- MODULE MessageBuffer ----------------------------
(***************************************************************************)
(* The expandable circular message buffer of the engine,                   *)
(* engine/message-buffer.c: one global ring, written by mb_put (every      *)
(* edsm->msg() of a machine and every event epoll reports) and read by     *)
(* mb_get (the dispatch loop).  A put into a full ring doubles it first.   *)
(*                                                                         *)
(* Indexes.  The code masks them with index_mask = capacity - 1 and needs  *)
(* a capacity that is a power of two (message-buffer.h:26); for an index   *)
(* that is at most capacity the mask only turns capacity into 0, which is  *)
(* what Masked says.  wr_index starts as 0xFFFFFFFF, so that its first     *)
(* increment wraps to 0: here it starts as -1.                             *)
(***************************************************************************)
EXTENDS Integers, Sequences

CONSTANTS
  Message,       \* the messages that machines and event capture put
  Junk,          \* the contents of a slot that was allocated and never written
  Nothing,       \* the outcome of mb_get on an empty buffer (it returns 1)
  InitCapacity,  \* MB_INIT_CAPACITY
  MaxCapacity    \* BOUND: the ring is not expanded beyond this capacity

ASSUME CapacityAssumption ==
  /\ InitCapacity \in Nat \ {0}
  /\ MaxCapacity \in Nat

ASSUME MarkerAssumption ==
  /\ Junk \notin Message
  /\ Nothing \notin Message

VARIABLES
  msg,       \* the slots
  capacity,
  number,    \* messages pending
  wr_index,  \* the slot written last
  rd_index,  \* the slot to read next
  got,       \* what the last mb_get delivered
  exited     \* a failed realloc() made mb_put call exit(1)

vars == <<msg, capacity, number, wr_index, rd_index, got, exited>>

-----------------------------------------------------------------------------

(* A fault: the index is not masked. *)
Masked_not(i) == i

Masked(i) == IF i = capacity THEN 0 ELSE i

(* __new_mb: slots come from malloc() and hold whatever was there. *)
Init ==
  /\ capacity = InitCapacity
  /\ msg = [i \in 0 .. InitCapacity - 1 |-> Junk]
  /\ number = 0
  /\ wr_index = -1
  /\ rd_index = 0
  /\ got = Nothing
  /\ exited = FALSE

mb_empty == number = 0
(* A fault: the ring is found full one message too late. *)
mb_full_late == number > capacity

mb_full == number = capacity

(* A fault: the test for a wrapped ring is the wrong way round. *)
Wrapped_inverted == wr_index = capacity - 1

(* The ring has wrapped: __expand_mb "needs move". *)
Wrapped == wr_index # capacity - 1

(* A fault: one slot too few is kept. *)
ExpandedSlots_short ==
  [i \in 0 .. 2 * capacity - 1 |-> IF i < capacity - 1 THEN msg[i] ELSE Junk]

(* The slots after __expand_mb: the old ones stay, the unread messages from *)
(* rd_index to the old end are copied to just behind the old end, and the   *)
(* rest of the new half is as realloc() left it.                            *)
ExpandedSlots ==
  LET nm == capacity - rd_index IN
  [i \in 0 .. 2 * capacity - 1 |->
     IF i < capacity THEN msg[i]
     ELSE IF Wrapped /\ i < capacity + nm THEN msg[i - nm]
     ELSE Junk]

ExpandedRdIndex == IF Wrapped THEN capacity ELSE rd_index

-----------------------------------------------------------------------------

(* mb_put with room in the ring. *)
PutRoom(m) ==
  /\ ~ exited
  /\ ~ mb_full
  /\ number' = number + 1
  /\ wr_index' = Masked(wr_index + 1)
  /\ msg' = [msg EXCEPT ![Masked(wr_index + 1)] = m]
  /\ UNCHANGED <<capacity, rd_index, got, exited>>

(* mb_put into a full ring: __expand_mb, then the put.  A full ring has been *)
(* written, so wr_index + 1 is below the new capacity and the mask is idle.  *)
PutExpand(m) ==
  /\ ~ exited
  /\ mb_full
  /\ 2 * capacity <= MaxCapacity
  /\ capacity' = 2 * capacity
  /\ rd_index' = ExpandedRdIndex
  /\ number' = number + 1
  /\ wr_index' = wr_index + 1
  /\ msg' = [ExpandedSlots EXCEPT ![wr_index + 1] = m]
  /\ UNCHANGED <<got, exited>>

(* mb_put into a full ring when realloc() fails: "giving up". *)
PutFails ==
  /\ ~ exited
  /\ mb_full
  /\ exited' = TRUE
  /\ UNCHANGED <<msg, capacity, number, wr_index, rd_index, got>>

mb_get ==
  /\ ~ exited
  /\ IF mb_empty
     THEN /\ got' = Nothing
          /\ UNCHANGED <<number, rd_index>>
     ELSE /\ got' = msg[rd_index]
          /\ number' = number - 1
          /\ rd_index' = Masked(rd_index + 1)
  /\ UNCHANGED <<msg, capacity, wr_index, exited>>

Next ==
  \/ \E m \in Message : PutRoom(m) \/ PutExpand(m)
  \/ PutFails
  \/ mb_get

Spec == Init /\ [][Next]_vars

(***************************************************************************)
(* The callers' discipline under which the ring is a FIFO: it is never     *)
(* full with its contents wrapped around the end when one more message is  *)
(* put.  The echo server keeps it: it fills the ring before the first get, *)
(* and afterwards never holds as many messages (EchoServer!QueueBound).    *)
(***************************************************************************)
Unwrapped == ~ (mb_full /\ Wrapped)

DisciplinedNext ==
  \/ \E m \in Message : PutRoom(m) \/ (Unwrapped /\ PutExpand(m))
  \/ PutFails
  \/ mb_get

DisciplinedSpec == Init /\ [][DisciplinedNext]_vars

-----------------------------------------------------------------------------

Slot(k) == IF rd_index + k < capacity THEN rd_index + k ELSE rd_index + k - capacity

(* The pending messages in the order in which they will be got. *)
Contents == [k \in 1 .. number |-> msg[Slot(k - 1)]]

(* Every index stays inside the ring and every slot holds a message or junk. *)
TypeOK ==
  /\ capacity \in Nat \ {0}
  /\ msg \in [0 .. capacity - 1 -> Message \cup {Junk}]
  /\ number \in 0 .. capacity
  /\ wr_index \in -1 .. capacity - 1
  /\ rd_index \in 0 .. capacity - 1
  /\ got \in Message \cup {Junk, Nothing}
  /\ exited \in BOOLEAN

(* The write index is number slots behind the read index around the ring: *)
(* the two indexes and the counter, updated by different calls, agree.    *)
IndexesAgree == Masked(wr_index + 1) = Slot(number)

(* No slot the reader is going to deliver was left unwritten by mb_put and *)
(* by the move of __expand_mb.                                             *)
PendingWereWritten == \A k \in 1 .. number : Contents[k] \in Message

(* The ring, seen through Contents, is the FIFO queue. *)
Queue == INSTANCE MessageQueue WITH queue <- Contents

(* What is got is what was put, once and in the order it was put, across any *)
(* number of wrap-arounds and expansions.                                    *)
ImplementsQueue == Queue!Spec

=============================================================================
