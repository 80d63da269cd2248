------------------------ MODULE MessageBufferProofs ------------------------
(***************************************************************************)
(* The message buffer, for every set of messages, every initial capacity   *)
(* and every bound on its growth: under the discipline of its callers the  *)
(* ring is type correct, its two indexes and its counter agree, no junk is *)
(* delivered, and it implements the FIFO queue of MessageQueue.            *)
(***************************************************************************)
EXTENDS MessageBuffer, SequenceTheorems, TLAPS

(* The inductive invariant.  IndexesAgree is what makes it inductive: it    *)
(* says that the slot mb_put is about to write is the first one behind the  *)
(* pending messages, so that a put overwrites none of them.                 *)
IInv == TypeOK /\ IndexesAgree /\ PendingWereWritten

-----------------------------------------------------------------------------

(* The slots of the pending messages, and the one behind them, lie inside   *)
(* the ring.                                                                *)
LEMMA SlotInRing ==
  ASSUME TypeOK, NEW k \in 0 .. capacity
  PROVE  Slot(k) \in 0 .. capacity - 1
BY DEF TypeOK, Slot

(* Two positions less than a round apart never share a slot.                *)
LEMMA SlotsDiffer ==
  ASSUME TypeOK, NEW j \in 0 .. capacity - 1, NEW k \in 0 .. capacity - 1, j # k
  PROVE  Slot(j) # Slot(k)
BY DEF TypeOK, Slot

(* The slot after a slot, around the end of the ring.                       *)
LEMMA NextSlot ==
  ASSUME TypeOK, NEW k \in 0 .. capacity - 1
  PROVE  Masked(Slot(k) + 1) = Slot(k + 1)
BY DEF TypeOK, Slot, Masked

(* Contents is a sequence of number messages.                               *)
LEMMA ContentsIsSeq ==
  ASSUME IInv
  PROVE  /\ Contents \in Seq(Message)
         /\ Len(Contents) = number
         /\ DOMAIN Contents = 1 .. number
<1>1. number \in Nat
  BY DEF IInv, TypeOK
<1>2. Contents \in [1 .. number -> Message]
  BY DEF IInv, PendingWereWritten, Contents
<1>3. Contents \in Seq(Message)
  BY <1>1, <1>2
<1>. QED
  BY <1>1, <1>2, <1>3

(* A sequence one longer that agrees with s and ends in e is s with e       *)
(* appended.                                                                *)
LEMMA AppendByElements ==
  ASSUME NEW S, NEW s \in Seq(S), NEW e \in S, NEW n, Len(s) = n
  PROVE  [k \in 1 .. n + 1 |-> IF k = n + 1 THEN e ELSE s[k]] = Append(s, e)
<1>. DEFINE t == [k \in 1 .. n + 1 |-> IF k = n + 1 THEN e ELSE s[k]]
<1>1. n \in Nat /\ s \in [1 .. n -> S]
  BY LenProperties
<1>2. t \in [1 .. n + 1 -> S] /\ n + 1 \in Nat
  <2>1. ASSUME NEW k \in 1 .. n + 1
        PROVE  (IF k = n + 1 THEN e ELSE s[k]) \in S
    BY <1>1
  <2>. QED
    BY <1>1, <2>1
<1>3. t \in Seq(S) /\ Len(t) = n + 1
  BY <1>2
<1>4. ASSUME NEW i \in 1 .. Len(t)
      PROVE  t[i] = Append(s, e)[i]
  BY <1>1, <1>3, <1>4, AppendProperties
<1>5. Append(s, e) \in Seq(S) /\ Len(Append(s, e)) = n + 1
  BY AppendProperties
<1>6. t = Append(s, e)
  <2>. HIDE DEF t
  <2>. QED
    BY <1>3, <1>4, <1>5, SeqEqual
<1>. QED
  BY <1>6

(* The tail of a sequence, element by element.                              *)
LEMMA TailByElements ==
  ASSUME NEW S, NEW s \in Seq(S), s # << >>, NEW n, Len(s) = n
  PROVE  [k \in 1 .. n - 1 |-> s[k + 1]] = Tail(s)
<1>. DEFINE t == [k \in 1 .. n - 1 |-> s[k + 1]]
<1>1. n \in Nat \ {0} /\ s \in [1 .. n -> S]
  BY LenProperties, EmptySeq
<1>2. t \in [1 .. n - 1 -> S] /\ n - 1 \in Nat
  BY <1>1
<1>3. t \in Seq(S) /\ Len(t) = n - 1
  BY <1>2
<1>4. ASSUME NEW i \in 1 .. Len(t)
      PROVE  t[i] = Tail(s)[i]
  BY <1>1, <1>3, <1>4, HeadTailProperties
<1>. QED
  BY <1>3, <1>4, HeadTailProperties, SeqEqual

-----------------------------------------------------------------------------

(* mb_put with room writes the slot behind the pending messages.            *)
LEMMA PutRoomStep ==
  ASSUME IInv, NEW m \in Message, PutRoom(m)
  PROVE  /\ IInv'
         /\ Contents' = Append(Contents, m)
<1>. USE DEF IInv
<1>1. number \in 0 .. capacity - 1 /\ capacity \in Nat \ {0}
  BY DEF PutRoom, mb_full, TypeOK
<1>2. Masked(wr_index + 1) = Slot(number) /\ Slot(number) \in 0 .. capacity - 1
  BY <1>1, SlotInRing DEF IndexesAgree
<1>3. /\ wr_index' = Slot(number)
      /\ msg' = [msg EXCEPT ![Slot(number)] = m]
      /\ number' = number + 1
      /\ UNCHANGED <<capacity, rd_index, got, exited>>
  BY <1>2 DEF PutRoom
<1>4. TypeOK'
  BY <1>1, <1>2, <1>3 DEF TypeOK
<1>5. IndexesAgree'
  <2>1. Masked(wr_index' + 1) = Slot(number + 1)
    BY <1>1, <1>3, NextSlot
  <2>. QED
    BY <2>1, <1>3 DEF IndexesAgree, Masked, Slot
<1>6. Contents' = [k \in 1 .. number + 1 |-> IF k = number + 1 THEN m ELSE Contents[k]]
  <2>1. Contents' = [k \in 1 .. number + 1 |-> msg'[Slot(k - 1)]]
    BY <1>3 DEF Contents, Slot
  <2>2. ASSUME NEW k \in 1 .. number + 1
        PROVE  msg'[Slot(k - 1)] = IF k = number + 1 THEN m ELSE Contents[k]
    <3>1. k - 1 \in 0 .. capacity - 1 /\ Slot(k - 1) \in 0 .. capacity - 1
      BY <1>1, SlotInRing
    <3>2. CASE k = number + 1
      BY <3>2, <1>1, <1>2, <1>3 DEF TypeOK
    <3>3. CASE k # number + 1
      <4>1. Slot(k - 1) # Slot(number)
        BY <3>1, <3>3, <1>1, SlotsDiffer
      <4>2. k \in 1 .. number
        BY <3>3, <1>1
      <4>. QED
        BY <4>1, <4>2, <3>1, <3>3, <1>3 DEF TypeOK, Contents
    <3>. QED
      BY <3>2, <3>3
  <2>. QED
    BY <2>1, <2>2
<1>7. PendingWereWritten'
  BY <1>1, <1>3, <1>6 DEF PendingWereWritten
<1>8. Contents' = Append(Contents, m)
  <2>1. Contents \in Seq(Message) /\ Len(Contents) = number
    BY ContentsIsSeq
  <2>. QED
    BY <2>1, <1>6, AppendByElements
<1>. QED
  BY <1>4, <1>5, <1>7, <1>8

(* The doubling of a ring that is not wrapped leaves the messages where     *)
(* they are, from slot 0, and the put goes to the first new slot.           *)
LEMMA PutExpandStep ==
  ASSUME IInv, NEW m \in Message, Unwrapped, PutExpand(m)
  PROVE  /\ IInv'
         /\ Contents' = Append(Contents, m)
<1>. USE DEF IInv
<1>1. /\ number = capacity
      /\ capacity \in Nat \ {0}
      /\ wr_index = capacity - 1
      /\ ~ Wrapped
  BY DEF PutExpand, mb_full, Unwrapped, Wrapped, TypeOK
<1>2. rd_index = 0
  <2>1. Slot(capacity) = 0
    BY <1>1 DEF IndexesAgree, Masked
  <2>. QED
    BY <2>1, <1>1 DEF Slot, TypeOK
<1>3. /\ capacity' = 2 * capacity
      /\ rd_index' = 0
      /\ number' = capacity + 1
      /\ wr_index' = capacity
      /\ UNCHANGED <<got, exited>>
  BY <1>1, <1>2 DEF PutExpand, ExpandedRdIndex
<1>4. msg' = [i \in 0 .. 2 * capacity - 1 |->
                IF i < capacity THEN msg[i] ELSE IF i = capacity THEN m ELSE Junk]
  <2>1. ExpandedSlots = [i \in 0 .. 2 * capacity - 1 |-> IF i < capacity THEN msg[i] ELSE Junk]
    BY <1>1 DEF ExpandedSlots
  <2>2. msg' = [ExpandedSlots EXCEPT ![capacity] = m]
    BY <1>1 DEF PutExpand
  <2>. QED
    BY <2>1, <2>2, <1>1
<1>5. TypeOK'
  <2>1. ASSUME NEW i \in 0 .. 2 * capacity - 1, i < capacity
        PROVE  msg[i] \in Message \cup {Junk}
    BY <2>1, <1>1 DEF TypeOK
  <2>2. msg' \in [0 .. 2 * capacity - 1 -> Message \cup {Junk}]
    BY <2>1, <1>4
  <2>. QED
    BY <2>2, <1>1, <1>3 DEF TypeOK
<1>6. IndexesAgree'
  BY <1>1, <1>3 DEF IndexesAgree, Masked, Slot
<1>7. Contents' = [k \in 1 .. capacity + 1 |-> IF k = capacity + 1 THEN m ELSE Contents[k]]
  <2>1. Contents' = [k \in 1 .. capacity + 1 |-> msg'[k - 1]]
    BY <1>1, <1>3 DEF Contents, Slot
  <2>2. Contents = [k \in 1 .. capacity |-> msg[k - 1]]
    BY <1>1, <1>2 DEF Contents, Slot
  <2>3. ASSUME NEW k \in 1 .. capacity + 1
        PROVE  msg'[k - 1] = IF k = capacity + 1 THEN m ELSE Contents[k]
    BY <2>2, <1>1, <1>4
  <2>. QED
    BY <2>1, <2>3
<1>8. PendingWereWritten'
  BY <1>1, <1>3, <1>7 DEF PendingWereWritten
<1>9. Contents' = Append(Contents, m)
  <2>1. Contents \in Seq(Message) /\ Len(Contents) = capacity
    BY <1>1, ContentsIsSeq
  <2>. QED
    BY <2>1, <1>7, AppendByElements
<1>. QED
  BY <1>5, <1>6, <1>8, <1>9

(* mb_get of a nonempty ring delivers and removes the oldest message.       *)
LEMMA GetStep ==
  ASSUME IInv, mb_get, ~ mb_empty
  PROVE  /\ IInv'
         /\ got' = Head(Contents)
         /\ Contents' = Tail(Contents)
<1>. USE DEF IInv
<1>1. /\ number \in 1 .. capacity
      /\ capacity \in Nat \ {0}
      /\ rd_index \in 0 .. capacity - 1
  BY DEF mb_empty, TypeOK
<1>2. /\ got' = msg[rd_index]
      /\ number' = number - 1
      /\ rd_index' = Masked(rd_index + 1)
      /\ UNCHANGED <<msg, capacity, wr_index, exited>>
  BY DEF mb_get
<1>. DEFINE NewSlot(k) ==
       IF rd_index' + k < capacity THEN rd_index' + k ELSE rd_index' + k - capacity
<1>3. ASSUME NEW k \in 0 .. capacity - 1
      PROVE  NewSlot(k) = Slot(k + 1)
  BY <1>1, <1>2 DEF Slot, Masked
<1>4. msg[rd_index] = Contents[1] /\ Contents[1] \in Message
  BY <1>1 DEF Contents, Slot, PendingWereWritten
<1>5. TypeOK'
  BY <1>1, <1>2, <1>4 DEF TypeOK, Masked
<1>6. IndexesAgree'
  <2>1. NewSlot(number - 1) = Slot(number)
    BY <1>1, <1>3
  <2>. QED
    BY <2>1, <1>2 DEF IndexesAgree, Masked, Slot
<1>7. Contents' = [k \in 1 .. number - 1 |-> Contents[k + 1]]
  <2>1. Contents' = [k \in 1 .. number - 1 |-> msg[NewSlot(k - 1)]]
    BY <1>2 DEF Contents, Slot
  <2>2. ASSUME NEW k \in 1 .. number - 1
        PROVE  msg[NewSlot(k - 1)] = Contents[k + 1]
    <3>1. NewSlot(k - 1) = Slot(k)
      BY <1>1, <1>3
    <3>. QED
      BY <3>1, <1>1 DEF Contents
  <2>. QED
    BY <2>1, <2>2
<1>8. PendingWereWritten'
  BY <1>1, <1>2, <1>7 DEF PendingWereWritten
<1>9. Contents \in Seq(Message) /\ Len(Contents) = number
  BY ContentsIsSeq
<1>10. Contents' = Tail(Contents)
  <2>1. Contents # << >>
    BY <1>1, <1>9, EmptySeq
  <2>. QED
    BY <2>1, <1>7, <1>9, TailByElements
<1>11. got' = Head(Contents)
  BY <1>1, <1>2, <1>4, <1>9
<1>. QED
  BY <1>5, <1>6, <1>8, <1>10, <1>11

(* mb_get of an empty ring changes nothing but its outcome.                 *)
LEMMA GetEmptyStep ==
  ASSUME IInv, mb_get, mb_empty
  PROVE  /\ IInv'
         /\ got' = Nothing
         /\ Contents' = Contents
         /\ Contents = << >>
<1>1. got' = Nothing /\ UNCHANGED <<msg, capacity, number, wr_index, rd_index, exited>>
  BY DEF mb_get
<1>2. IInv'
  BY <1>1 DEF IInv, TypeOK, IndexesAgree, PendingWereWritten, Contents, Masked, Slot
<1>3. Contents' = Contents
  BY <1>1 DEF Contents, Slot
<1>4. Contents = << >>
  BY ContentsIsSeq, EmptySeq DEF mb_empty
<1>. QED
  BY <1>1, <1>2, <1>3, <1>4

(* Steps that leave the ring alone.                                         *)
LEMMA IdleStep ==
  ASSUME IInv, UNCHANGED <<msg, capacity, number, wr_index, rd_index, got>>,
         exited' \in BOOLEAN
  PROVE  IInv' /\ UNCHANGED <<Contents, got>>
BY DEF IInv, TypeOK, IndexesAgree, PendingWereWritten, Contents, Masked, Slot

-----------------------------------------------------------------------------

(* A new buffer satisfies the invariant and is the empty queue.             *)
LEMMA InitHolds ==
  ASSUME Init
  PROVE  IInv /\ Queue!Init
<1>1. TypeOK /\ number = 0 /\ rd_index = 0 /\ wr_index = -1
  <2>1. capacity \in Nat \ {0} /\ number = 0 /\ rd_index = 0 /\ wr_index = -1
    BY CapacityAssumption DEF Init
  <2>2. msg \in [0 .. capacity - 1 -> Message \cup {Junk}]
    BY DEF Init
  <2>3. got \in Message \cup {Junk, Nothing} /\ exited \in BOOLEAN
    BY DEF Init
  <2>. QED
    BY <2>1, <2>2, <2>3 DEF TypeOK
<1>2. IndexesAgree /\ PendingWereWritten
  BY <1>1 DEF IndexesAgree, PendingWereWritten, Masked, Slot, TypeOK
<1>3. Contents = << >>
  BY <1>1, <1>2, ContentsIsSeq, EmptySeq DEF IInv
<1>. QED
  BY <1>1, <1>2, <1>3 DEF IInv, Queue!Init, Init

(* A step of the disciplined buffer keeps the invariant and is a step of    *)
(* the queue or leaves the queue unchanged.                                 *)
LEMMA StepHolds ==
  ASSUME IInv, [DisciplinedNext]_vars
  PROVE  IInv' /\ [Queue!Next]_Queue!vars
<1>1. ASSUME NEW m \in Message, PutRoom(m)
      PROVE  IInv' /\ Queue!Put(m)
  BY <1>1, PutRoomStep DEF Queue!Put, PutRoom
<1>2. ASSUME NEW m \in Message, Unwrapped, PutExpand(m)
      PROVE  IInv' /\ Queue!Put(m)
  BY <1>2, PutExpandStep DEF Queue!Put, PutExpand
<1>3. CASE PutFails
  BY <1>3, IdleStep DEF PutFails, Queue!vars
<1>4. CASE mb_get /\ ~ mb_empty
  <2>1. Contents # << >>
    BY <1>4, ContentsIsSeq DEF mb_empty
  <2>. QED
    BY <1>4, <2>1, GetStep DEF Queue!Get, Queue!Next
<1>5. CASE mb_get /\ mb_empty
  BY <1>5, GetEmptyStep DEF Queue!GetEmpty, Queue!Next
<1>6. CASE UNCHANGED vars
  BY <1>6, IdleStep DEF vars, Queue!vars, IInv, TypeOK
<1>. QED
  BY <1>1, <1>2, <1>3, <1>4, <1>5, <1>6 DEF DisciplinedNext, Queue!Next

(* Every reachable state of the disciplined buffer satisfies the invariant. *)
THEOREM Invariance == DisciplinedSpec => []IInv
<1>1. Init => IInv
  BY InitHolds
<1>2. IInv /\ [DisciplinedNext]_vars => IInv'
  BY StepHolds
<1>. QED
  BY <1>1, <1>2, PTL DEF DisciplinedSpec

(* The indexes stay inside the ring whatever the sequence of puts, gets and *)
(* expansions.                                                              *)
THEOREM TypeCorrect == DisciplinedSpec => []TypeOK
<1>1. IInv => TypeOK
  BY DEF IInv
<1>. QED
  BY <1>1, Invariance, PTL

(* The write index, the read index and the counter always describe the same *)
(* pending messages.                                                        *)
THEOREM IndexesAlwaysAgree == DisciplinedSpec => []IndexesAgree
<1>1. IInv => IndexesAgree
  BY DEF IInv
<1>. QED
  BY <1>1, Invariance, PTL

(* The dispatcher is never handed a slot that no mb_put wrote.              *)
THEOREM NoJunkPending == DisciplinedSpec => []PendingWereWritten
<1>1. IInv => PendingWereWritten
  BY DEF IInv
<1>. QED
  BY <1>1, Invariance, PTL

(* mb_put and mb_get are the two ends of a FIFO queue: nothing is lost,     *)
(* repeated or reordered, across wrap-arounds and expansions.               *)
THEOREM Refinement == DisciplinedSpec => ImplementsQueue
<1>1. Init => Queue!Init
  BY InitHolds
<1>2. IInv /\ [DisciplinedNext]_vars => [Queue!Next]_Queue!vars
  BY StepHolds
<1>. QED
  BY <1>1, <1>2, Invariance, PTL DEF DisciplinedSpec, ImplementsQueue, Queue!Spec

=============================================================================
