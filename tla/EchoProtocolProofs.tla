------------------------- MODULE EchoProtocolProofs -------------------------
(***************************************************************************)
(* The pools of the echo server stay sound.  What its machines and clients *)
(* may expect (EchoProtocol) stays true: for what each kind of machine may *)
(* do with a message, for the world, and for the order of the messages.    *)
(* The handlers are in EchoInStepProofs.                                   *)
(***************************************************************************)
EXTENDS EchoProtocol, SequenceTheorems, FiniteSetTheorems, TLAPS

(* The values of struct object_pool. *)
PoolType == [capacity : Nat, capdelta : Nat, items : Seq(Machine), avail_min : Nat]

(* One pool: its items fit, and so does its low water mark, from which the  *)
(* pool manager concludes how many slots can be given up.                   *)
SoundPool(p, delta) ==
  /\ p \in PoolType
  /\ p.capdelta = delta
  /\ p.capacity > 0
  /\ Len(p.items) <= p.capacity
  /\ p.avail_min <= p.capacity

(* The inductive invariant.  That a pool fits after a shrink depends on the *)
(* low water mark being within the capacity, which PoolFits does not say.   *)
PoolInv ==
  /\ DOMAIN pool = Kinds
  /\ pool = [k \in Kinds |-> pool[k]]
  /\ \A k \in Kinds : SoundPool(pool[k], CapDelta[k])

-----------------------------------------------------------------------------
(* Assignments to one member of the struct. *)

LEMMA WithItems ==
  ASSUME NEW p \in PoolType, NEW s \in Seq(Machine), NEW q, q = [p EXCEPT !.items = s]
  PROVE  /\ q \in PoolType
         /\ q.items = s
         /\ q.capacity = p.capacity /\ q.capdelta = p.capdelta /\ q.avail_min = p.avail_min
BY DEF PoolType

LEMMA WithCapacity ==
  ASSUME NEW p \in PoolType, NEW n \in Nat, NEW q, q = [p EXCEPT !.capacity = n]
  PROVE  /\ q \in PoolType
         /\ q.capacity = n
         /\ q.items = p.items /\ q.capdelta = p.capdelta /\ q.avail_min = p.avail_min
BY DEF PoolType

LEMMA WithMark ==
  ASSUME NEW p \in PoolType, NEW n \in Nat, NEW q, q = [p EXCEPT !.avail_min = n]
  PROVE  /\ q \in PoolType
         /\ q.avail_min = n
         /\ q.items = p.items /\ q.capdelta = p.capdelta /\ q.capacity = p.capacity
BY DEF PoolType

(* The first n items of a pool. *)
LEMMA Bottom ==
  ASSUME NEW p \in PoolType, NEW n \in 0 .. Len(p.items)
  PROVE  SubSeq(p.items, 1, n) \in Seq(Machine) /\ Len(SubSeq(p.items, 1, n)) = n
BY SubSeqProperties DEF PoolType

-----------------------------------------------------------------------------

(* A put, with or without expansion, keeps a pool sound.                    *)
LEMMA PutSound ==
  ASSUME NEW p, NEW delta \in Nat \ {0}, SoundPool(p, delta), NEW m \in Machine
  PROVE  SoundPool(object_pool_put(p, m), delta)
<1>. DEFINE roomy == IF pool_is_full(p) THEN object_pool_expand(p) ELSE p
            s == Append(roomy.items, m)
<1>1. p \in PoolType /\ p.capdelta = delta /\ p.capacity \in Nat /\ p.items \in Seq(Machine)
  BY DEF SoundPool, PoolType
<1>2. /\ roomy \in PoolType
      /\ roomy.items = p.items /\ roomy.avail_min = p.avail_min /\ roomy.capdelta = delta
      /\ roomy.capacity >= p.capacity
      /\ Len(p.items) < roomy.capacity
  <2>1. CASE pool_is_full(p)
    <3>1. roomy = [p EXCEPT !.capacity = p.capacity + p.capdelta]
      BY <2>1 DEF object_pool_expand
    <3>2. p.capacity + p.capdelta \in Nat
      BY <1>1
    <3>3. /\ roomy \in PoolType
          /\ roomy.capacity = p.capacity + p.capdelta
          /\ roomy.items = p.items /\ roomy.capdelta = p.capdelta
          /\ roomy.avail_min = p.avail_min
      <4>. HIDE DEF roomy
      <4>. QED
        BY <1>1, <3>1, <3>2, WithCapacity
    <3>. QED
      BY <1>1, <2>1, <3>3 DEF pool_is_full, avail
  <2>2. CASE ~ pool_is_full(p)
    BY <1>1, <2>2, LenProperties DEF pool_is_full, avail, SoundPool
  <2>. QED
    BY <2>1, <2>2
<1>. HIDE DEF roomy
<1>3. s \in Seq(Machine) /\ Len(s) = Len(p.items) + 1
  BY <1>1, <1>2, AppendProperties
<1>4. object_pool_put(p, m) = [roomy EXCEPT !.items = s]
  BY DEF object_pool_put, roomy
<1>. HIDE DEF s
<1>5. SoundPool(object_pool_put(p, m), delta)
  <2>. DEFINE q == object_pool_put(p, m)
  <2>1. /\ q \in PoolType /\ q.items = s /\ q.capacity = roomy.capacity
        /\ q.capdelta = delta /\ q.avail_min = p.avail_min
    <3>. HIDE DEF q
    <3>. QED
      BY <1>2, <1>3, <1>4, WithItems DEF q
  <2>2. roomy.capacity \in Nat /\ p.avail_min \in Nat /\ Len(p.items) \in Nat
    BY <1>1, <1>2, LenProperties DEF PoolType
  <2>. HIDE DEF q
  <2>3. SoundPool(q, delta)
    BY <1>1, <1>2, <1>3, <2>1, <2>2 DEF SoundPool
  <2>. QED
    BY <2>3 DEF q
<1>. QED
  BY <1>5

(* So does a get from a pool that is not empty.                             *)
LEMMA GetSound ==
  ASSUME NEW p, NEW delta \in Nat \ {0}, SoundPool(p, delta), ~ pool_is_empty(p)
  PROVE  SoundPool(object_pool_get(p), delta)
<1>. DEFINE left == Len(p.items) - 1
            mark == IF left < p.avail_min THEN left ELSE p.avail_min
            rest == SubSeq(p.items, 1, left)
            q == [p EXCEPT !.items = rest]
            r == [q EXCEPT !.avail_min = mark]
<1>1. /\ p \in PoolType /\ p.capacity \in Nat /\ p.avail_min \in Nat /\ p.capdelta = delta
      /\ p.capacity > 0 /\ Len(p.items) <= p.capacity /\ p.avail_min <= p.capacity
      /\ left \in Nat /\ left \in 0 .. Len(p.items)
  BY LenProperties DEF SoundPool, PoolType, pool_is_empty, avail
<1>2. mark \in Nat /\ mark <= p.capacity
  BY <1>1
<1>3. rest \in Seq(Machine) /\ Len(rest) = left
  BY <1>1, Bottom
<1>. HIDE DEF left, mark, rest, q, r
<1>4. /\ q \in PoolType
      /\ q.items = rest
      /\ q.capacity = p.capacity /\ q.capdelta = p.capdelta
  BY <1>1, <1>3, WithItems DEF q
<1>5. /\ r \in PoolType /\ r.avail_min = mark /\ Len(r.items) = left
      /\ r.capacity = p.capacity /\ r.capdelta = delta
  BY <1>1, <1>2, <1>3, <1>4, WithMark DEF r
<1>6. SoundPool(r, delta)
  BY <1>1, <1>2, <1>5 DEF SoundPool, left
<1>7. object_pool_get(p) = r
  BY DEF object_pool_get, avail, left, mark, rest, q, r
<1>. QED
  BY <1>6, <1>7

(* So does a shrink that does not find the pool empty.                      *)
LEMMA ShrinkSound ==
  ASSUME NEW p, NEW delta \in Nat \ {0}, SoundPool(p, delta), ~ RunsDry(p)
  PROVE  SoundPool(Shrunk(p), delta)
<1>1. CASE ~ Shrinks(p)
  BY <1>1 DEF Shrunk
<1>2. CASE Shrinks(p)
  <2>. DEFINE left == Len(p.items) - p.capdelta
              room == p.capacity - p.capdelta
              rest == SubSeq(p.items, 1, left)
              q == [p EXCEPT !.items = rest]
              r == [q EXCEPT !.capacity = q.capacity - q.capdelta]
              s == [r EXCEPT !.avail_min = r.capacity]
  <2>1. /\ p \in PoolType /\ p.capacity \in Nat /\ p.capdelta = delta
        /\ Len(p.items) \in Nat /\ Len(p.items) <= p.capacity
        /\ p.avail_min \in Nat /\ p.avail_min <= p.capacity /\ p.avail_min > delta
    BY <1>2, LenProperties DEF SoundPool, PoolType, Shrinks
  <2>2. Len(p.items) >= delta
    BY <1>2, <2>1 DEF RunsDry, avail
  <2>3. left \in 0 .. Len(p.items) /\ room \in Nat /\ room > 0 /\ left <= room
    BY <2>1, <2>2
  <2>4. rest \in Seq(Machine) /\ Len(rest) = left
    BY <2>1, <2>3, Bottom
  <2>. HIDE DEF left, room, rest, q, r, s
  <2>5. /\ q \in PoolType /\ Len(q.items) = left
        /\ q.capacity = p.capacity /\ q.capdelta = p.capdelta
    BY <2>1, <2>4, WithItems DEF q
  <2>6. /\ r \in PoolType /\ Len(r.items) = left /\ r.capacity = room /\ r.capdelta = delta
    BY <2>1, <2>3, <2>5, WithCapacity DEF r, room
  <2>7. /\ s \in PoolType /\ Len(s.items) = left /\ s.capacity = room /\ s.capdelta = delta
        /\ s.avail_min = room
    BY <2>3, <2>6, WithMark DEF s
  <2>8. SoundPool(s, delta)
    BY <2>3, <2>7 DEF SoundPool
  <2>9. Shrunk(p) = s
    BY <1>2 DEF Shrunk, object_pool_shrink, avail, left, rest, q, r, s
  <2>. QED
    BY <2>8, <2>9
<1>. QED
  BY <1>1, <1>2

-----------------------------------------------------------------------------

(* The pools a machine is taken from or returns to. *)
LEMMA TakeKeeps ==
  ASSUME PoolInv, NEW k \in Kinds, ~ pool_is_empty(pool[k]), pool' = PoolAfterGet(k)
  PROVE  PoolInv'
<1>1. pool' = [pool EXCEPT ![k] = object_pool_get(pool[k])]
  BY DEF PoolAfterGet
<1>2. \A j \in Kinds : pool'[j] = IF j = k THEN object_pool_get(pool[k]) ELSE pool[j]
  BY <1>1 DEF PoolInv
<1>3. ASSUME NEW j \in Kinds
      PROVE  SoundPool(pool'[j], CapDelta[j])
  BY <1>2, GetSound, PopulationAssumption DEF PoolInv
<1>. QED
  BY <1>1, <1>3 DEF PoolInv

LEMMA RestKeeps ==
  ASSUME PoolInv, NEW m \in Machine, Rest(m)
  PROVE  PoolInv'
<1>. DEFINE k == Kind(m)
<1>1. pool' = [pool EXCEPT ![k] = object_pool_put(pool[k], m)]
  BY DEF Rest
<1>. HIDE DEF k
<1>2. \A j \in Kinds : pool'[j] = IF j = k THEN object_pool_put(pool[j], m) ELSE pool[j]
  BY <1>1 DEF PoolInv
<1>3. ASSUME NEW j \in Kinds
      PROVE  SoundPool(pool'[j], CapDelta[j])
  BY <1>2, PutSound, PopulationAssumption DEF PoolInv
<1>. QED
  BY <1>1, <1>3 DEF PoolInv

LEMMA SameKeeps ==
  ASSUME PoolInv, UNCHANGED pool
  PROVE  PoolInv'
BY DEF PoolInv

(* The pools are created with room for the machines main() runs. *)
LEMMA InitSound == Init => PoolInv
<1>. SUFFICES ASSUME Init PROVE PoolInv
  OBVIOUS
<1>1. pool = [k \in Kinds |-> object_pool_init(Len(Start[k]), CapDelta[k])]
  BY DEF Init
<1>2. ASSUME NEW k \in Kinds
      PROVE  SoundPool(pool[k], CapDelta[k])
  <2>1. Start[k] \in Seq(Members[k]) /\ Start[k] # << >> /\ CapDelta[k] \in Nat \ {0}
    BY PopulationAssumption
  <2>2. Len(Start[k]) \in Nat \ {0}
    <3>. HIDE DEF Start, Members
    <3>. QED
      BY <2>1, LenProperties, EmptySeq
  <2>3. << >> \in Seq(Machine) /\ Len(<< >>) = 0
    OBVIOUS
  <2>4. pool[k] = object_pool_init(Len(Start[k]), CapDelta[k])
    BY <1>1
  <2>. QED
    BY <2>1, <2>2, <2>3, <2>4 DEF SoundPool, PoolType, object_pool_init
<1>. QED
  BY <1>1, <1>2 DEF PoolInv

-----------------------------------------------------------------------------
(* The steps, machine by machine. *)

LEMMA RxStep ==
  ASSUME PoolInv, RxExec
  PROVE  PoolInv'
<1>. PICK m \in Rx :
       \/ rx_init_M0(m) \/ rx_idle_M1(m) \/ rx_idle_M0(m)
       \/ rx_work_D0(m) \/ rx_work_D0_fails(m)
       \/ rx_work_D2(m) \/ rx_work_T0(m) \/ rx_work_M0(m)
  BY DEF RxExec
<1>1. CASE rx_init_M0(m) \/ rx_work_M0(m)
  BY <1>1, RestKeeps DEF rx_init_M0, rx_work_M0, Machine
<1>2. CASE rx_idle_M1(m) \/ rx_idle_M0(m)
  BY <1>2, SameKeeps DEF rx_idle_M1, rx_idle_M0, Exit, machineVars
<1>3. CASE rx_work_D0(m) \/ rx_work_D0_fails(m)
  BY <1>3, SameKeeps DEF rx_work_D0, rx_work_D0_fails
<1>4. CASE rx_work_D2(m) \/ rx_work_T0(m)
  BY <1>4, SameKeeps DEF rx_work_D2, rx_work_T0, Exit, machineVars
<1>. QED
  BY <1>1, <1>2, <1>3, <1>4

LEMMA TxStep ==
  ASSUME PoolInv, TxExec
  PROVE  PoolInv'
<1>. PICK m \in Tx :
       \/ tx_init_M0(m) \/ tx_idle_M1(m) \/ tx_idle_M0(m)
       \/ tx_work_D1(m) \/ tx_work_D1_fails(m) \/ tx_work_D1_breaks(m)
       \/ tx_work_D2(m) \/ tx_work_M0(m)
  BY DEF TxExec
<1>1. CASE tx_init_M0(m) \/ tx_work_M0(m)
  BY <1>1, RestKeeps DEF tx_init_M0, tx_work_M0, Machine
<1>2. CASE tx_idle_M1(m) \/ tx_idle_M0(m) \/ tx_work_D1_breaks(m)
  BY <1>2, SameKeeps, ZenonT(40) DEF tx_idle_M1, tx_idle_M0, tx_work_D1_breaks, Exit, machineVars
<1>3. CASE tx_work_D1(m) \/ tx_work_D1_fails(m) \/ tx_work_D2(m)
  BY <1>3, SameKeeps DEF tx_work_D1, tx_work_D1_fails, tx_work_D2
<1>. QED
  BY <1>1, <1>2, <1>3

LEMMA WorkerStep ==
  ASSUME PoolInv, WorkerExec
  PROVE  PoolInv'
<1>. PICK w \in Worker :
       \/ worker_init_M0(w) \/ worker_idle_M1(w) \/ worker_M0_getp(w)
       \/ worker_M0_ackp(w) \/ worker_M1(w) \/ worker_M2(w) \/ worker_M3(w)
  BY DEF WorkerExec
<1>1. CASE worker_init_M0(w) \/ worker_M3(w)
  BY <1>1, RestKeeps DEF worker_init_M0, worker_M3, worker_idle_enter, Machine
<1>2. CASE worker_idle_M1(w) \/ worker_M1(w) \/ worker_M2(w)
  BY <1>2, SameKeeps DEF worker_idle_M1, worker_M1, worker_M2, Exit, machineVars
<1>3. CASE worker_M0_getp(w)
  BY <1>3, SameKeeps, TakeKeeps DEF worker_M0_getp, worker_getp_enter, Kinds
<1>4. CASE worker_M0_ackp(w)
  BY <1>4, SameKeeps, TakeKeeps DEF worker_M0_ackp, worker_ackp_enter, Kinds
<1>. QED
  BY <1>1, <1>2, <1>3, <1>4

LEMMA ManagerStep ==
  ASSUME PoolInv, ManagerExec
  PROVE  PoolInv'
<1>1. CASE manager_work_M0
  BY <1>1, SameKeeps, TakeKeeps DEF manager_work_M0, Kinds
<1>2. CASE manager_init_M0 \/ manager_work_M1 \/ \E s \in Signals : manager_work_S(s)
  BY <1>2, SameKeeps DEF manager_init_M0, manager_work_M1, manager_work_S, machineVars
<1>. QED
  BY <1>1, <1>2 DEF ManagerExec

LEMMA ListenerStep ==
  ASSUME PoolInv, ListenerExec
  PROVE  PoolInv'
BY SameKeeps
   DEF ListenerExec, listener_init_M0, listener_work_D0, listener_work_D0_fails,
       listener_work_M0, Exit, machineVars

LEMMA PoolmanStep ==
  ASSUME PoolInv, PoolmanExec
  PROVE  PoolInv'
<1>1. CASE poolman_init_M0
  BY <1>1, SameKeeps DEF poolman_init_M0
<1>2. CASE poolman_work_T0 /\ \E k \in Kinds : RunsDry(pool[k])
  BY <1>2, SameKeeps DEF poolman_work_T0, Exit, machineVars
<1>3. CASE poolman_work_T0 /\ ~ \E k \in Kinds : RunsDry(pool[k])
  <2>1. pool' = [k \in Kinds |-> Shrunk(pool[k])]
    BY <1>3 DEF poolman_work_T0
  <2>2. ASSUME NEW k \in Kinds
        PROVE  SoundPool(pool'[k], CapDelta[k])
    BY <1>3, <2>1, ShrinkSound, PopulationAssumption DEF PoolInv
  <2>. QED
    BY <2>1, <2>2 DEF PoolInv
<1>. QED
  BY <1>1, <1>2, <1>3 DEF PoolmanExec

LEMMA WorldStep ==
  ASSUME PoolInv, Wait \/ World \/ Ended
  PROVE  PoolInv'
<1>1. CASE Wait \/ Ended
  BY <1>1, SameKeeps DEF Wait, Ended, vars
<1>2. CASE World
  BY <1>2, SameKeeps
     DEF World, Connect, PeerSends, PeerLeaves, PeerReads, TimerExpires, SignalComes, machineVars
<1>. QED
  BY <1>1, <1>2

(* In every reachable state of the server, the pools are sound.             *)
THEOREM PoolsSound == Spec => []PoolInv
<1>1. PoolInv /\ [Next]_vars => PoolInv'
  <2>. SUFFICES ASSUME PoolInv, [Next]_vars PROVE PoolInv'
    OBVIOUS
  <2>1. CASE Exec
    BY <2>1, RxStep, TxStep, WorkerStep, ManagerStep, ListenerStep, PoolmanStep DEF Exec
  <2>2. CASE Wait \/ World \/ Ended
    BY <2>2, WorldStep
  <2>3. CASE UNCHANGED vars
    BY <2>3, SameKeeps DEF vars
  <2>. QED
    BY <2>1, <2>2, <2>3 DEF Next
<1>. QED
  BY <1>1, InitSound, PTL DEF Spec

-----------------------------------------------------------------------------

(* What the machines are told apart by. *)
LEMMA Kinships ==
  /\ Helper \subseteq Machine /\ Worker \subseteq Machine /\ Rx \subseteq Helper /\ Tx \subseteq Helper
  /\ Rx \cap Tx = {} /\ Helper \cap Worker = {} /\ NULL \notin Machine /\ NULL \notin Client
  /\ Client \cap Machine = {}
  /\ {poolman, manager, listener} \subseteq Machine
  /\ {poolman, manager, listener} \cap (Helper \cup Worker) = {}
  /\ poolman # manager /\ poolman # listener /\ manager # listener
  /\ Channel = Helper \cup {listener} /\ Timed = Rx \cup {poolman}
BY NamesAssumption DEF Helper, Machine, Channel, Timed

LEMMA MsgFields ==
  ASSUME NEW a, NEW b, NEW p, NEW c
  PROVE  /\ Msg(a, b, p, c).src = a /\ Msg(a, b, p, c).dst = b
         /\ Msg(a, b, p, c).ptr = p /\ Msg(a, b, p, c).code = c
BY DEF Msg

LEMMA MsgType ==
  ASSUME NEW a \in Machine \cup {NULL}, NEW b \in Machine,
         NEW p \in Machine \cup Client \cup {NULL}, NEW c \in Code0
  PROVE  Msg(a, b, p, c) \in Message
BY DEF Msg, Message

LEMMA MsgEq ==
  ASSUME NEW x \in Message
  PROVE  x = Msg(x.src, x.dst, x.ptr, x.code)
BY DEF Msg, Message

-----------------------------------------------------------------------------
(* The queue: one message is dispatched, its handler puts others. *)

LEMMA Basics ==
  ASSUME NEW q \in Seq(Message)
  PROVE  /\ Len(q) \in Nat /\ DOMAIN q = 1 .. Len(q)
         /\ \A x : x \in ToSet(q) <=> \E i \in 1 .. Len(q) : q[i] = x
         /\ q # << >> => /\ Len(q) \in Nat \ {0} /\ Head(q) = q[1] /\ Head(q) \in ToSet(q)
                         /\ Head(q) \in Message
         /\ ToSet(q) \subseteq Message
<1>1. Len(q) \in Nat /\ DOMAIN q = 1 .. Len(q)
  BY LenProperties
<1>2. \A x : x \in ToSet(q) <=> \E i \in 1 .. Len(q) : q[i] = x
  BY <1>1 DEF ToSet
<1>3. ASSUME q # << >>
      PROVE  Len(q) \in Nat \ {0} /\ Head(q) = q[1] /\ Head(q) \in Message
  BY <1>3, EmptySeq, LenProperties, HeadTailProperties
<1>4. ASSUME NEW i \in 1 .. Len(q)
      PROVE  q[i] \in Message
  BY <1>1
<1>. QED
  BY <1>1, <1>2, <1>3, <1>4

LEMMA Positions ==
  ASSUME NEW q \in Seq(Message), q # << >>, NEW t \in Seq(Message), NEW s, s = Tail(q) \o t,
         NEW n, n = Len(q) - 1
  PROVE  /\ n \in Nat /\ s \in Seq(Message) /\ Len(s) = n + Len(t)
         /\ \A i \in 1 .. n : s[i] = q[i + 1]
         /\ \A i \in 1 .. Len(t) : s[i + n] = t[i]
<1>. DEFINE r == Tail(q)
<1>1. /\ Len(q) \in Nat \ {0} /\ r \in Seq(Message) /\ Len(r) = n /\ n \in Nat
      /\ \A i \in 1 .. n : r[i] = q[i + 1]
  BY LenProperties, EmptySeq, HeadTailProperties
<1>2. s = r \o t
  OBVIOUS
<1>. HIDE DEF r
<1>3. /\ r \o t \in Seq(Message) /\ Len(r \o t) = Len(r) + Len(t)
      /\ \A i \in 1 .. Len(r) + Len(t) :
             (r \o t)[i] = IF i <= Len(r) THEN r[i] ELSE t[i - Len(r)]
  BY <1>1, ConcatProperties, Zenon
<1>4. /\ s \in Seq(Message) /\ Len(s) = n + Len(t)
      /\ \A i \in 1 .. n + Len(t) : s[i] = IF i <= n THEN r[i] ELSE t[i - n]
  BY <1>1, <1>2, <1>3
<1>5. Len(t) \in Nat
  BY LenProperties
<1>6. ASSUME NEW i \in 1 .. n
      PROVE  s[i] = q[i + 1]
  <2>1. i \in 1 .. n + Len(t) /\ i <= n
    BY <1>1, <1>5
  <2>. QED
    BY <1>1, <1>4, <2>1
<1>7. ASSUME NEW i \in 1 .. Len(t)
      PROVE  s[i + n] = t[i]
  <2>1. i + n \in 1 .. n + Len(t) /\ ~ (i + n <= n) /\ i + n - n = i
    BY <1>1, <1>5
  <2>. QED
    BY <1>4, <2>1
<1>. QED
  BY <1>1, <1>4, <1>6, <1>7

(* A message of the next queue was in the queue, one place further back, or *)
(* has been put.                                                            *)
LEMMA FromWhere ==
  ASSUME NEW n \in Nat, NEW l \in Nat, NEW i \in 1 .. n + l
  PROVE  i \in 1 .. n \/ \E j \in 1 .. l : i = j + n
<1>1. CASE i <= n
  BY <1>1
<1>2. CASE i > n
  <2>1. i - n \in 1 .. l /\ i = (i - n) + n
    BY <1>2
  <2>. QED
    BY <2>1
<1>. QED
  BY <1>1, <1>2

LEMMA Dispatched ==
  ASSUME NEW q \in Seq(Message), q # << >>, IsInjective(q),
         NEW t \in Seq(Message), IsInjective(t),
         \A x \in ToSet(t) : x \notin ToSet(q) \/ x = Head(q)
  PROVE  /\ Tail(q) \o t \in Seq(Message)
         /\ IsInjective(Tail(q) \o t)
         /\ ToSet(Tail(q) \o t) = (ToSet(q) \ {Head(q)}) \cup ToSet(t)
<1>. DEFINE s == Tail(q) \o t
            n == Len(q) - 1
<1>1. /\ n \in Nat /\ s \in Seq(Message) /\ Len(s) = n + Len(t)
      /\ \A i \in 1 .. n : s[i] = q[i + 1]
      /\ \A i \in 1 .. Len(t) : s[i + n] = t[i]
  BY Positions
<1>2. Len(q) = n + 1 /\ Len(q) \in Nat /\ Len(t) \in Nat
  BY Basics
<1>. HIDE DEF s, n
<1>3. DOMAIN q = 1 .. n + 1 /\ DOMAIN t = 1 .. Len(t) /\ DOMAIN s = 1 .. n + Len(t)
  BY <1>1, <1>2, Basics
<1>4. /\ \A x : x \in ToSet(q) <=> \E i \in 1 .. n + 1 : q[i] = x
      /\ \A x : x \in ToSet(t) <=> \E i \in 1 .. Len(t) : t[i] = x
      /\ \A x : x \in ToSet(s) <=> \E i \in 1 .. n + Len(t) : s[i] = x
      /\ Head(q) = q[1]
  <2>1. \A x : x \in ToSet(q) <=> \E i \in 1 .. Len(q) : q[i] = x
    BY Basics, Zenon
  <2>2. \A x : x \in ToSet(t) <=> \E i \in 1 .. Len(t) : t[i] = x
    BY Basics, Zenon
  <2>3. \A x : x \in ToSet(s) <=> \E i \in 1 .. Len(s) : s[i] = x
    BY <1>1, Basics, Zenon
  <2>4. Head(q) = q[1]
    BY Basics, Zenon
  <2>. QED
    BY <1>1, <1>2, <2>1, <2>2, <2>3, <2>4, Zenon
<1>5. ASSUME NEW i \in 1 .. n
      PROVE  i + 1 \in 1 .. n + 1 /\ s[i] = q[i + 1] /\ s[i] \in ToSet(q) \ {Head(q)}
  <2>1. i + 1 \in 1 .. n + 1 /\ 1 \in 1 .. n + 1 /\ i + 1 # 1
    BY <1>1
  <2>2. q[i + 1] # q[1]
    BY <1>3, <2>1 DEF IsInjective
  <2>. QED
    BY <1>1, <1>4, <2>1, <2>2
<1>6. ASSUME NEW i \in 1 .. Len(t)
      PROVE  i + n \in 1 .. n + Len(t) /\ s[i + n] = t[i] /\ t[i] \in ToSet(t)
  BY <1>1, <1>2, <1>4
<1>7. ToSet(s) = (ToSet(q) \ {Head(q)}) \cup ToSet(t)
  <2>1. ASSUME NEW x \in ToSet(s)
        PROVE  x \in (ToSet(q) \ {Head(q)}) \cup ToSet(t)
    <3>1. PICK i \in 1 .. n + Len(t) : x = s[i]
      BY <1>4
    <3>2. i \in 1 .. n \/ \E j \in 1 .. Len(t) : i = j + n
      BY <1>1, <1>2, FromWhere
    <3>. QED
      BY <1>5, <1>6, <3>1, <3>2
  <2>2. ASSUME NEW x \in ToSet(q), x # Head(q)
        PROVE  x \in ToSet(s)
    <3>1. PICK i \in 1 .. n + 1 : x = q[i]
      BY <1>4
    <3>2. i # 1
      BY <1>4, <2>2, <3>1
    <3>3. i - 1 \in 1 .. n /\ (i - 1) + 1 = i /\ i - 1 \in 1 .. n + Len(t)
      BY <1>1, <1>2, <3>2
    <3>4. s[i - 1] = x
      BY <1>1, <3>1, <3>3
    <3>. QED
      BY <1>4, <3>3, <3>4
  <2>3. ASSUME NEW x \in ToSet(t)
        PROVE  x \in ToSet(s)
    BY <1>4, <1>6
  <2>. QED
    BY <2>1, <2>2, <2>3
<1>8. ASSUME NEW i \in 1 .. n + Len(t), NEW j \in 1 .. n + Len(t), s[i] = s[j]
      PROVE  i = j
  <2>1. CASE i \in 1 .. n /\ j \in 1 .. n
    <3>1. i + 1 = j + 1
      BY <1>3, <1>5, <1>8, <2>1 DEF IsInjective
    <3>. QED
      BY <3>1
  <2>2. ASSUME NEW k \in 1 .. Len(t), NEW l \in 1 .. Len(t), i = k + n, j = l + n
        PROVE  i = j
    BY <1>3, <1>6, <1>8, <2>2 DEF IsInjective
  <2>3. /\ i \in 1 .. n \/ \E k \in 1 .. Len(t) : i = k + n
        /\ j \in 1 .. n \/ \E k \in 1 .. Len(t) : j = k + n
    BY <1>1, <1>2, FromWhere
  <2>. QED
    BY <1>5, <1>6, <1>8, <2>1, <2>2, <2>3
<1>. QED
  BY <1>1, <1>3, <1>7, <1>8 DEF IsInjective, s

(* Events stay first when a handler puts none. *)
LEMMA EventsStayFirst ==
  ASSUME NEW q \in Seq(Message), q # << >>, EventsFirst(q),
         NEW t \in Seq(Message), \A x \in ToSet(t) : ~ IsEvent(x)
  PROVE  EventsFirst(Tail(q) \o t)
<1>. DEFINE s == Tail(q) \o t
            n == Len(q) - 1
<1>1. /\ n \in Nat /\ s \in Seq(Message) /\ Len(s) = n + Len(t)
      /\ \A i \in 1 .. n : s[i] = q[i + 1]
      /\ \A i \in 1 .. Len(t) : s[i + n] = t[i]
  BY Positions
<1>2. Len(q) = n + 1 /\ Len(q) \in Nat /\ Len(t) \in Nat
  BY Basics
<1>. HIDE DEF s, n
<1>3. DOMAIN q = 1 .. n + 1 /\ DOMAIN s = 1 .. n + Len(t)
  BY <1>1, <1>2, Basics
<1>4. ASSUME NEW j \in 1 .. n + Len(t), NEW k \in 1 .. n + Len(t), j < k, IsEvent(s[k])
      PROVE  IsEvent(s[j])
  <2>1. \A l \in 1 .. Len(t) : t[l] \in ToSet(t)
    BY <1>2, Basics
  <2>2. k \in 1 .. n
    <3>1. ASSUME NEW l \in 1 .. Len(t), k = l + n
          PROVE  FALSE
      BY <1>1, <1>4, <2>1, <3>1
    <3>2. k \in 1 .. n \/ \E l \in 1 .. Len(t) : k = l + n
      BY <1>1, <1>2, FromWhere, Zenon
    <3>. QED
      BY <3>1, <3>2
  <2>3. j \in 1 .. n /\ j + 1 \in 1 .. n + 1 /\ k + 1 \in 1 .. n + 1 /\ j + 1 < k + 1
    BY <1>1, <1>4, <2>2
  <2>. QED
    BY <1>1, <1>3, <1>4, <2>2, <2>3 DEF EventsFirst
<1>. QED
  BY <1>3, <1>4 DEF EventsFirst, s

(* A call at the head: no event is left. *)
LEMMA CallAtHead ==
  ASSUME NEW q \in Seq(Message), q # << >>, EventsFirst(q), ~ IsEvent(Head(q))
  PROVE  \A x \in ToSet(q) : ~ IsEvent(x)
<1>1. Len(q) \in Nat \ {0} /\ DOMAIN q = 1 .. Len(q) /\ Head(q) = q[1]
  BY Basics
<1>. SUFFICES ASSUME NEW i \in 1 .. Len(q), IsEvent(q[i])
              PROVE  FALSE
  BY Basics
<1>2. i # 1 /\ 1 \in DOMAIN q /\ 1 < i
  BY <1>1
<1>. QED
  BY <1>1, <1>2 DEF EventsFirst

-----------------------------------------------------------------------------
(* What a step leaves alone stays in step.  S is the set of the pending     *)
(* messages before the step, T after it.                                    *)

To(m, S) == {x \in S : x.dst = m}
From(w, S) == {x \in S : x.src = w /\ x.dst \in Helper}
About(c, S) == {x \in S : x.ptr = c}

(* h has been handled, N have been put. *)
After(S, h, N) == (S \ {h}) \cup N

LEMMA SameTo ==
  ASSUME NEW S, NEW h, NEW N, NEW T, T = After(S, h, N),
         NEW m, h.dst # m, \A y \in N : y.dst # m
  PROVE  To(m, T) = To(m, S)
BY DEF To, After

LEMMA SameFrom ==
  ASSUME NEW S, NEW h, NEW N, NEW T, T = After(S, h, N),
         NEW w, h.src # w \/ h.dst \notin Helper, \A y \in N : y.src # w \/ y.dst \notin Helper
  PROVE  From(w, T) = From(w, S)
BY DEF From, After

LEMMA SameAbout ==
  ASSUME NEW S, NEW h, NEW N, NEW T, T = After(S, h, N),
         NEW c, h.ptr # c, \A y \in N : y.ptr # c
  PROVE  About(c, T) = About(c, S)
BY DEF About, After

LEMMA HelperFrame ==
  ASSUME NEW S, NEW T, NEW n \in Helper, HelperView(n, S),
         To(n, T) = To(n, S),
         state'[n] = state[n], io'[n] = io[n], Resting(n)' <=> Resting(n)
  PROVE  HelperView(n, T)'
<1>1. \A x : x.dst = n => (x \in S <=> x \in T)
  BY DEF To
<1>2. NoCall(n, S) => NoCall(n, T)
  BY <1>1 DEF NoCall
<1>3. ASSUME NEW y, y.dst = n, OnlyCall(n, y, S)
      PROVE  OnlyCall(n, y, T)
  BY <1>1, <1>3 DEF OnlyCall
<1>4. Self(n, "M0").dst = n /\ \A w : Msg(w, n, w, "M1").dst = n
  BY DEF Self, Msg
<1>. QED
  BY <1>1, <1>2, <1>3, <1>4 DEF HelperView, IsIoEvent, IsEvent, NoCall, OnlyCall, What

LEMMA LinkFrame ==
  ASSUME NEW n \in Helper, LinkView(n),
         job'[n] = job[n], state'[n] = state[n], io'[n].fd = io[n].fd,
         job[n] # NULL => state'[job[n]] = state[job[n]] /\ wi'[job[n]].ci = wi[job[n]].ci
  PROVE  LinkView(n)'
BY DEF LinkView, Task

LEMMA RxFrame ==
  ASSUME NEW S, NEW T, NEW n \in Rx, RxView(n, S),
         To(n, T) = To(n, S),
         state'[n] = state[n], io'[n] = io[n], flags'[n] = flags[n], timer'[n] = timer[n]
  PROVE  RxView(n, T)'
<1>1. \A x : x.dst = n => (x \in S <=> x \in T)
  BY DEF To
<1>. QED
  BY <1>1 DEF RxView, IsIoEvent

LEMMA TxFrame ==
  ASSUME NEW S, NEW T, NEW n \in Tx, TxView(n, S), To(n, T) = To(n, S), io'[n] = io[n]
  PROVE  TxView(n, T)'
<1>1. \A x : x.dst = n => (x \in S <=> x \in T)
  BY DEF To
<1>. QED
  BY <1>1 DEF TxView, IsEvent

(* Helper n does as much for worker w as before. *)
HelpsAsBefore(n, w) ==
  /\ job'[n] = w /\ io'[n].fd # NULL <=> job[n] = w /\ io[n].fd # NULL
  /\ job[n] = w /\ io[n].fd # NULL => io'[n].fd = io[n].fd

LEMMA WorkerFrame ==
  ASSUME NEW S, NEW T, NEW w \in Worker, WorkerView(w, S),
         To(w, T) = To(w, S), From(w, T) = From(w, S),
         state'[w] = state[w], wi'[w].ci = wi[w].ci, wi'[w].fd = wi[w].fd,
         Resting(w)' <=> Resting(w),
         \A n \in Helper : HelpsAsBefore(n, w)
  PROVE  WorkerView(w, T)'
<1>1. /\ \A x : x.dst = w => (x \in S <=> x \in T)
      /\ \A x : x.src = w /\ x.dst \in Helper => (x \in S <=> x \in T)
  BY DEF To, From
<1>2. (NoCall(w, S) => NoCall(w, T)) /\ (NoAsk(w, S) => NoAsk(w, T))
  BY <1>1 DEF NoCall, NoAsk
<1>3. ASSUME NEW y, y.dst = w, OnlyCall(w, y, S)
      PROVE  OnlyCall(w, y, T)
  BY <1>1, <1>3 DEF OnlyCall
<1>4. ASSUME NEW y, y.src = w, y.dst \in Helper, OnlyAsk(w, y, S)
      PROVE  OnlyAsk(w, y, T)
  BY <1>1, <1>4 DEF OnlyAsk
<1>5. NoHelp(w) => NoHelp(w)'
  BY DEF NoHelp, HelpsAsBefore
<1>6. ASSUME NEW n \in Helper, OnlyHelp(w, n), wi[w].ci \in Client
      PROVE  OnlyHelp(w, n)'
  BY <1>6, Kinships DEF OnlyHelp, HelpsAsBefore
<1>7. /\ \A a : Self(w, a).dst = w
      /\ \A n, a : Msg(n, w, NULL, a).dst = w
      /\ \A n : Msg(w, n, w, "M1").src = w /\ Msg(w, n, w, "M1").dst = n
      /\ \A c : Msg(manager, w, c, "M1").dst = w
  BY DEF Self, Msg
<1>8. Asking(w, S) => Asking(w, T)'
  BY <1>2, <1>4, <1>5, <1>7 DEF Asking, Task, NoCall, OnlyAsk
<1>9. Helped(w, S) /\ wi[w].ci \in Client => Helped(w, T)'
  BY <1>2, <1>6 DEF Helped, Task, NoCall, NoAsk
<1>10. Answered(w, S) => Answered(w, T)'
  BY <1>2, <1>3, <1>5, <1>7 DEF Answered, Task, NoAsk, OnlyCall
<1>11. GoingOn(w, S) => GoingOn(w, T)'
  BY <1>2, <1>3, <1>5, <1>7 DEF GoingOn, NoAsk, OnlyCall
<1>. QED
  BY <1>2, <1>3, <1>7, <1>8, <1>9, <1>10, <1>11 DEF WorkerView, NoCall, NoAsk, OnlyCall

(* Worker w serves client c as before, or not. *)
HoldsAsBefore(w, c, S, T) ==
  /\ wi'[w].ci = c <=> wi[w].ci = c
  /\ wi[w].ci = c => (Self(w, "M3") \in T <=> Self(w, "M3") \in S)

LEMMA ClientFrame ==
  ASSUME NEW S, NEW T, NEW c \in Client, ClientView(c, S),
         About(c, T) = About(c, S), net'[c].conn = net[c].conn,
         \A w \in Worker : HoldsAsBefore(w, c, S, T)
  PROVE  ClientView(c, T)'
<1>1. \A x : x.ptr = c => (x \in S <=> x \in T)
  BY DEF About
<1>2. \A w \in Worker : Serves(w, c, T)' <=> Serves(w, c, S)
  BY DEF Serves, HoldsAsBefore
<1>3. /\ \A x, y \in T : x.ptr = c /\ y.ptr = c => x = y
      /\ \A v, w \in Worker : wi'[v].ci = c /\ wi'[w].ci = c => v = w
      /\ \A w \in Worker : wi'[w].ci = c => net'[c].conn \in {"open", "closed"}
  BY <1>1 DEF ClientView, HoldsAsBefore
<1>4. /\ \A w \in Worker : Serves(w, c, T)' => net'[c].conn = "open"
      /\ net'[c].conn = "open" =>
           (\E x \in T : x.ptr = c) \/ (\E w \in Worker : Serves(w, c, T)')
  BY <1>1, <1>2 DEF ClientView, HoldsAsBefore
<1>5. \A x \in T : x.ptr = c =>
        /\ net'[c].conn = "open"
        /\ \A w \in Worker : wi'[w].ci = c =>
             Self(w, "M3") \in T /\ x.src # listener /\ x.dst \notin Worker
  BY <1>1 DEF ClientView, HoldsAsBefore
<1>. QED
  BY <1>3, <1>4, <1>5 DEF ClientView

LEMMA SingleFrame ==
  ASSUME NEW S, NEW T, SingleView(S), Started,
         \A m \in {poolman, manager, listener} :
           state'[m] = state[m] /\ (Self(m, "M0") \in T <=> Self(m, "M0") \in S),
         io'[listener] = io[listener]
  PROVE  SingleView(T)' /\ Started'
BY DEF SingleView, Started

LEMMA IoFrame ==
  ASSUME NEW S, NEW h, NEW N, IoOnce(S), \A y \in N : ~ IsIoEvent(y)
  PROVE  IoOnce(After(S, h, N))
BY DEF IoOnce, After

(* After a call there are no events; after an event, what the handler puts  *)
(* is early too.                                                            *)
LEMMA EarlyFrame ==
  ASSUME NEW S, NEW h, NEW N, \A y \in N : ~ IsEvent(y),
         \/ \A x \in S : ~ IsEvent(x)
         \/ /\ h \in S /\ IsEvent(h) /\ EarlyOnly(S)
            /\ \A n \in Helper : state[n] = "work" => state'[n] = "work"
            /\ \A y \in N : Early(y) /\ (y.src \in Helper => state'[y.src] = "work")
  PROVE  EarlyOnly(After(S, h, N))'
<1>1. CASE \A x \in S : ~ IsEvent(x)
  BY <1>1 DEF EarlyOnly, IsEvent, After
<1>2. CASE /\ h \in S /\ IsEvent(h) /\ EarlyOnly(S)
           /\ \A n \in Helper : state[n] = "work" => state'[n] = "work"
           /\ \A y \in N : Early(y) /\ (y.src \in Helper => state'[y.src] = "work")
  BY <1>2 DEF EarlyOnly, IsEvent, Early, After
<1>. QED
  BY <1>1, <1>2

LEMMA HasStarted ==
  ASSUME NEW S, SingleView(S), NEW h \in S,
         \A m \in Machine : h = Self(m, "M0") => state[m] # "init"
  PROVE  Started
BY DEF SingleView

-----------------------------------------------------------------------------
(* The pools: who rests. *)

(* A machine rests once, in the pool of its kind. *)
PoolShape ==
  \A k \in Kinds : IsInjective(pool[k].items) /\ ToSet(pool[k].items) \subseteq Members[k]

LEMMA AppendOne ==
  ASSUME NEW A, NEW s \in Seq(A), NEW x \in A
  PROVE  /\ ToSet(Append(s, x)) = ToSet(s) \cup {x}
         /\ IsInjective(s) /\ x \notin ToSet(s) => IsInjective(Append(s, x))
<1>. DEFINE r == Append(s, x)
            n == Len(s)
<1>1. /\ n \in Nat /\ DOMAIN s = 1 .. n /\ DOMAIN r = 1 .. n + 1
      /\ \A i \in 1 .. n : r[i] = s[i]
      /\ r[n + 1] = x
  BY LenProperties, AppendProperties
<1>. HIDE DEF r, n
<1>2. \A i \in 1 .. n + 1 : i \in 1 .. n \/ i = n + 1
  BY <1>1
<1>3. 1 .. n \subseteq 1 .. n + 1 /\ n + 1 \in 1 .. n + 1 /\ n + 1 \notin 1 .. n
  BY <1>1
<1>4. ToSet(r) = ToSet(s) \cup {x}
  <2>1. ASSUME NEW y \in ToSet(r) PROVE y \in ToSet(s) \cup {x}
    BY <1>1, <1>2 DEF ToSet
  <2>2. ASSUME NEW y \in ToSet(s) PROVE y \in ToSet(r)
    BY <1>1, <1>3 DEF ToSet
  <2>3. x \in ToSet(r)
    BY <1>1, <1>3 DEF ToSet
  <2>. QED
    BY <2>1, <2>2, <2>3
<1>5. ASSUME IsInjective(s), x \notin ToSet(s)
      PROVE  IsInjective(r)
  <2>1. \A i \in 1 .. n : s[i] # x
    BY <1>1, <1>5 DEF ToSet
  <2>2. ASSUME NEW i \in 1 .. n, NEW j \in 1 .. n, r[i] = r[j]
        PROVE  i = j
    <3>1. s[i] = s[j] /\ i \in DOMAIN s /\ j \in DOMAIN s
      BY <1>1, <2>2
    <3>. QED
      BY <1>5, <3>1 DEF IsInjective
  <2>3. \A i \in 1 .. n : r[i] # r[n + 1]
    BY <1>1, <2>1
  <2>. QED
    BY <1>1, <1>2, <2>2, <2>3 DEF IsInjective
<1>. QED
  BY <1>4, <1>5 DEF r

(* A sequence without repetition, cut in two. *)
LEMMA CutInTwo ==
  ASSUME NEW A, NEW s \in Seq(A), IsInjective(s), NEW n \in 0 .. Len(s)
  PROVE  /\ IsInjective(SubSeq(s, 1, n))
         /\ ToSet(SubSeq(s, 1, n)) = ToSet(s) \ ToSet(SubSeq(s, n + 1, Len(s)))
         /\ ToSet(SubSeq(s, n + 1, Len(s))) \subseteq ToSet(s)
<1>. DEFINE a == SubSeq(s, 1, n)
            l == Len(s) - n
            b == SubSeq(s, n + 1, Len(s))
<1>1. /\ n \in Nat /\ l \in Nat /\ Len(s) = n + l /\ DOMAIN s = 1 .. n + l
  BY LenProperties
<1>2. DOMAIN a = 1 .. n /\ \A i \in 1 .. n : a[i] = s[i]
  BY SubSeqProperties
<1>3. DOMAIN b = 1 .. l /\ \A i \in 1 .. l : b[i] = s[n + i]
  <2>. DEFINE u == n + 1
              v == Len(s)
  <2>4. u \in Int /\ v \in Int /\ (\A i \in u .. v : s[i] \in A) /\ v - u + 1 = l
    BY <1>1
  <2>. HIDE DEF u, v
  <2>5. /\ SubSeq(s, u, v) \in Seq(A)
        /\ Len(SubSeq(s, u, v)) = IF u <= v THEN v - u + 1 ELSE 0
        /\ \A i \in 1 .. v - u + 1 : SubSeq(s, u, v)[i] = s[u + i - 1]
    BY <2>4, SubSeqProperties
  <2>6. b = SubSeq(s, u, v)
    BY DEF u, v
  <2>7. (u <= v <=> l > 0) /\ l \in Nat
    BY <1>1 DEF u, v
  <2>. HIDE DEF b, l
  <2>1. Len(b) = l /\ b \in Seq(A)
    BY <2>4, <2>5, <2>6, <2>7
  <2>2. ASSUME NEW i \in 1 .. l
        PROVE  b[i] = s[n + 1 + i - 1]
    <3>1. b[i] = s[u + i - 1]
      BY <2>4, <2>5, <2>6
    <3>. QED
      BY <3>1 DEF u
  <2>3. \A i \in 1 .. l : n + 1 + i - 1 = n + i
    BY <1>1
  <2>. QED
    BY <2>1, <2>2, <2>3, LenProperties
<1>. HIDE DEF a, b, l
<1>4. 1 .. n \subseteq 1 .. n + l /\ \A i \in 1 .. l : n + i \in 1 .. n + l /\ n + i \notin 1 .. n
  BY <1>1
<1>5. ASSUME NEW i \in 1 .. n + l
      PROVE  i \in 1 .. n \/ \E j \in 1 .. l : i = n + j
  <2>1. CASE i > n
    <3>1. i - n \in 1 .. l /\ i = n + (i - n)
      BY <1>1, <2>1
    <3>. QED
      BY <3>1
  <2>. QED
    BY <1>1, <2>1
<1>6. IsInjective(a)
  BY <1>1, <1>2, <1>4 DEF IsInjective
<1>7. ToSet(b) \subseteq ToSet(s)
  BY <1>1, <1>3, <1>4 DEF ToSet
<1>8. ToSet(a) \subseteq ToSet(s) \ ToSet(b)
  <2>1. ASSUME NEW i \in 1 .. n, NEW j \in 1 .. l
        PROVE  s[i] # s[n + j]
    BY <1>1, <1>4 DEF IsInjective
  <2>2. ASSUME NEW i \in 1 .. n
        PROVE  a[i] \in ToSet(s) /\ a[i] \notin ToSet(b)
    <3>1. a[i] = s[i] /\ i \in DOMAIN s
      BY <1>1, <1>2, <1>4
    <3>2. \A j \in 1 .. l : b[j] # s[i]
      BY <1>3, <2>1
    <3>. QED
      BY <1>3, <3>1, <3>2 DEF ToSet
  <2>. QED
    BY <1>2, <2>2 DEF ToSet
<1>9. ToSet(s) \ ToSet(b) \subseteq ToSet(a)
  <2>1. ASSUME NEW i \in 1 .. n + l, s[i] \notin ToSet(b)
        PROVE  s[i] \in ToSet(a)
    <3>1. i \in 1 .. n
      BY <1>3, <1>5, <2>1 DEF ToSet
    <3>. QED
      BY <1>2, <3>1 DEF ToSet
  <2>. QED
    BY <1>1, <2>1 DEF ToSet
<1>. QED
  BY <1>6, <1>7, <1>8, <1>9 DEF a, b

LEMMA KindOf ==
  ASSUME NEW m, NEW k \in Kinds, m \in Members[k]
  PROVE  Kind(m) = k /\ m \in Machine /\ m \in Helper \cup Worker
         /\ \A j \in Kinds : m \in Members[j] => j = k
BY NamesAssumption DEF Kind, Kinds, Members, Machine, Helper

(* Who rests is a matter of the pool of one kind. *)
LEMMA OnePool ==
  ASSUME PoolShape, NEW k \in Kinds, NEW m \in Members[k]
  PROVE  Resting(m) <=> m \in ToSet(pool[k].items)
BY KindOf DEF PoolShape, Resting

LEMMA SingleNeverRests ==
  ASSUME PoolShape, NEW m \in Machine, m \notin Helper \cup Worker
  PROVE  ~ Resting(m)
BY NamesAssumption DEF PoolShape, Resting, Kinds, Members, Helper

(* When the pool of kind k gets the items s. *)
LEMMA PoolChange ==
  ASSUME PoolShape, NEW k \in Kinds, NEW s,
         IsInjective(s), ToSet(s) \subseteq Members[k],
         \A j \in Kinds : pool'[j].items = IF j = k THEN s ELSE pool[j].items
  PROVE  /\ PoolShape'
         /\ \A x : Resting(x)' <=> IF x \in Members[k] THEN x \in ToSet(s) ELSE Resting(x)
<1>1. PoolShape'
  BY DEF PoolShape
<1>2. ASSUME NEW x \in Members[k]
      PROVE  Resting(x)' <=> x \in ToSet(s)
  BY <1>1, KindOf DEF PoolShape, Resting
<1>3. ASSUME NEW x, x \notin Members[k]
      PROVE  Resting(x)' <=> Resting(x)
  BY <1>3 DEF PoolShape, Resting
<1>. QED
  BY <1>1, <1>2, <1>3

LEMMA PoolPut ==
  ASSUME PoolInv, PoolShape, NEW k \in Kinds, NEW m \in Members[k], ~ Resting(m), Rest(m)
  PROVE  PoolShape' /\ \A x : Resting(x)' <=> Resting(x) \/ x = m
<1>. DEFINE s == Append(pool[k].items, m)
<1>1. Kind(m) = k /\ m \in Machine /\ m \notin ToSet(pool[k].items)
  BY KindOf DEF Resting
<1>2. pool[k].items \in Seq(Machine) /\ pool[k] \in PoolType
  BY DEF PoolInv, SoundPool, PoolType
<1>3. ToSet(s) = ToSet(pool[k].items) \cup {m} /\ IsInjective(s)
  BY <1>1, <1>2, AppendOne DEF PoolShape
<1>4. pool' = [pool EXCEPT ![k] = object_pool_put(pool[k], m)]
  BY <1>1 DEF Rest
<1>5. object_pool_put(pool[k], m).items = s
  <2>. DEFINE p == pool[k]
              roomy == IF pool_is_full(p) THEN object_pool_expand(p) ELSE p
  <2>1. roomy \in PoolType /\ roomy.items = p.items
    BY <1>2 DEF object_pool_expand, PoolType
  <2>2. object_pool_put(p, m) = [roomy EXCEPT !.items = Append(roomy.items, m)]
    BY DEF object_pool_put
  <2>. HIDE DEF roomy
  <2>. QED
    BY <2>1, <2>2 DEF PoolType
<1>6. \A j \in Kinds : pool'[j].items = IF j = k THEN s ELSE pool[j].items
  BY <1>4, <1>5 DEF PoolInv
<1>7. ToSet(s) \subseteq Members[k]
  BY <1>3 DEF PoolShape
<1>. HIDE DEF s
<1>. QED
  BY <1>3, <1>6, <1>7, PoolChange, OnePool

LEMMA PoolGet ==
  ASSUME PoolInv, PoolShape, NEW k \in Kinds, ~ pool_is_empty(pool[k]), pool' = PoolAfterGet(k)
  PROVE  /\ PoolShape'
         /\ Taken(pool[k]) \in Members[k] /\ Resting(Taken(pool[k]))
         /\ \A x : Resting(x)' <=> Resting(x) /\ x # Taken(pool[k])
<1>. DEFINE z == pool[k].items
            n == Len(z) - 1
            s == SubSeq(z, 1, n)
            last == SubSeq(z, n + 1, Len(z))
<1>1. z \in Seq(Machine) /\ pool[k] \in PoolType /\ IsInjective(z) /\ ToSet(z) \subseteq Members[k]
  BY DEF PoolInv, SoundPool, PoolType, PoolShape
<1>2. n \in 0 .. Len(z) /\ Len(z) = n + 1 /\ Len(z) \in Nat
  BY <1>1, LenProperties DEF pool_is_empty, avail
<1>3. Taken(pool[k]) = z[n + 1] /\ z[n + 1] \in ToSet(z)
  BY <1>1, <1>2, LenProperties DEF Taken, avail, ToSet
<1>4. ToSet(last) = {z[n + 1]}
  <2>. DEFINE u == n + 1
  <2>1. u \in Int /\ last = SubSeq(z, u, u) /\ \A i \in u .. u : z[i] \in Machine
    BY <1>1, <1>2, LenProperties
  <2>. HIDE DEF u
  <2>2. last \in Seq(Machine) /\ Len(last) = 1 /\ last[1] = z[u]
    <3>1. /\ SubSeq(z, u, u) \in Seq(Machine)
          /\ Len(SubSeq(z, u, u)) = IF u <= u THEN u - u + 1 ELSE 0
          /\ \A i \in 1 .. u - u + 1 : SubSeq(z, u, u)[i] = z[u + i - 1]
      BY <2>1, SubSeqProperties
    <3>2. u <= u /\ u - u + 1 = 1 /\ u + 1 - 1 = u
      BY <2>1
    <3>. QED
      BY <2>1, <3>1, <3>2
  <2>. HIDE DEF last, z
  <2>. QED
    BY <2>2, LenProperties DEF ToSet, u
<1>5. IsInjective(s) /\ ToSet(s) = ToSet(z) \ {z[n + 1]}
  BY <1>1, <1>2, <1>4, CutInTwo
<1>6. pool' = [pool EXCEPT ![k] = object_pool_get(pool[k])]
  BY DEF PoolAfterGet
<1>7. object_pool_get(pool[k]).items = s
  BY <1>1 DEF object_pool_get, PoolType, avail
<1>8. \A j \in Kinds : pool'[j].items = IF j = k THEN s ELSE pool[j].items
  BY <1>6, <1>7 DEF PoolInv
<1>9. ToSet(s) \subseteq Members[k]
  BY <1>1, <1>5
<1>. HIDE DEF s, n
<1>10. /\ PoolShape'
       /\ \A x : Resting(x)' <=> IF x \in Members[k] THEN x \in ToSet(s) ELSE Resting(x)
  BY <1>5, <1>8, <1>9, PoolChange
<1>11. Taken(pool[k]) \in Members[k] /\ \A x \in Members[k] : Resting(x) <=> x \in ToSet(z)
  BY <1>1, <1>3, OnePool
<1>. HIDE DEF z
<1>. QED
  BY <1>3, <1>5, <1>10, <1>11

LEMMA PoolDelete ==
  ASSUME PoolInv, PoolShape, \A k \in Kinds : ~ RunsDry(pool[k]),
         pool' = [k \in Kinds |-> Shrunk(pool[k])],
         NEW G, G = UNION {Deleted(pool[k]) : k \in Kinds}
  PROVE  /\ PoolShape'
         /\ \A x : Resting(x)' <=> Resting(x) /\ x \notin G
         /\ \A x \in G : Resting(x)
<1>. DEFINE z(k) == pool[k].items
            d(k) == Deleted(pool[k])
<1>1. ASSUME NEW k \in Kinds
      PROVE  /\ IsInjective(pool'[k].items)
             /\ ToSet(pool'[k].items) = ToSet(z(k)) \ d(k)
             /\ d(k) \subseteq ToSet(z(k))
  <2>1. /\ z(k) \in Seq(Machine) /\ pool[k] \in PoolType /\ IsInjective(z(k))
        /\ pool[k].capdelta \in Nat \ {0}
    BY PopulationAssumption DEF PoolInv, SoundPool, PoolType, PoolShape
  <2>2. pool'[k] = Shrunk(pool[k])
    OBVIOUS
  <2>3. CASE ~ Shrinks(pool[k])
    BY <2>1, <2>2, <2>3 DEF Shrunk, Deleted
  <2>4. CASE Shrinks(pool[k])
    <3>. DEFINE p == pool[k]
                n == Len(p.items) - p.capdelta
    <3>1. n \in 0 .. Len(z(k)) /\ Len(p.items) \in Nat /\ p.capdelta \in Nat
      BY <2>1, <2>4, LenProperties DEF RunsDry, avail
    <3>2. d(k) = ToSet(SubSeq(z(k), n + 1, Len(z(k))))
      BY <2>4 DEF Deleted, avail
    <3>3. Shrunk(p).items = SubSeq(z(k), 1, n)
      BY <2>1, <2>4 DEF Shrunk, object_pool_shrink, PoolType, avail
    <3>. HIDE DEF n, d, z
    <3>4. /\ IsInjective(SubSeq(z(k), 1, n))
          /\ ToSet(SubSeq(z(k), 1, n)) = ToSet(z(k)) \ ToSet(SubSeq(z(k), n + 1, Len(z(k))))
          /\ ToSet(SubSeq(z(k), n + 1, Len(z(k)))) \subseteq ToSet(z(k))
      BY <2>1, <3>1, CutInTwo
    <3>. QED
      BY <2>2, <3>2, <3>3, <3>4
  <2>. QED
    BY <2>3, <2>4
<1>2. \A x : x \in G <=> \E k \in Kinds : x \in d(k)
  OBVIOUS
<1>. HIDE DEF d
<1>3. PoolShape'
  BY <1>1 DEF PoolShape
<1>4. \A x \in G : Resting(x)
  BY <1>1, <1>2 DEF Resting
<1>5. ASSUME NEW x
      PROVE  Resting(x)' <=> Resting(x) /\ x \notin G
  <2>1. ASSUME NEW k \in Kinds, x \in ToSet(pool'[k].items)
        PROVE  Resting(x) /\ x \notin G
    <3>1. x \in ToSet(z(k)) /\ x \notin d(k) /\ x \in Members[k]
      BY <1>1, <2>1 DEF PoolShape
    <3>2. ASSUME NEW j \in Kinds, x \in d(j)
          PROVE  FALSE
      BY <1>1, <3>1, <3>2, KindOf DEF PoolShape
    <3>. QED
      BY <1>2, <3>1, <3>2 DEF Resting
  <2>2. ASSUME Resting(x), x \notin G
        PROVE  Resting(x)'
    BY <1>1, <1>2, <2>2 DEF Resting
  <2>. QED
    BY <2>1, <2>2 DEF Resting
<1>. QED
  BY <1>3, <1>4, <1>5

LEMMA PoolSame ==
  ASSUME UNCHANGED pool
  PROVE  (PoolShape => PoolShape') /\ \A x : Resting(x)' <=> Resting(x)
BY DEF PoolShape, Resting

-----------------------------------------------------------------------------
(* The variables have their types. *)

Chunk == [peer : Client, seqn : Nat]
Info == [ci : Client \cup {NULL}, fd : Client \cup {NULL}, buf : {"ibuf", "obuf"},
         ibuf : Seq(Chunk), obuf : Seq(Chunk), unsent : Seq(Chunk)]
Connection == [conn : {"new", "backlog", "open", "closed"}, peer : {"up", "fin", "rst"},
               sent : Seq(BOOLEAN), nread : Nat, echoed : Seq(Chunk), full : BOOLEAN]
IoChannel == [fd : Client \cup {NULL, ListenSocket},
              watch : {"none", "POLLIN", "POLLOUT", "POLLHUP"}]

Typed ==
  /\ queue \in Seq(Message)
  /\ state \in [Machine -> {"none", "init", "idle", "work", "getp", "ackp"}]
  /\ io \in [Channel -> IoChannel]
  /\ timer \in [Timed -> {"off", "armed", "expired"}]
  /\ sig \subseteq Signals
  /\ job \in [Helper -> Worker \cup {NULL}]
  /\ flags \in [Rx -> SUBSET {HAVE_T0, HAVE_D2}]
  /\ wi \in [Worker -> Info]
  /\ net \in [Client -> Connection]
  /\ \A c \in Client : net[c].nread <= Len(net[c].sent)

-----------------------------------------------------------------------------
(* How a step is looked at: h is handled, the messages N are put. *)

(* New messages are calls, and are not pending yet. *)
Puttable(S, h, N) == \A x \in N : Shape(x) /\ ~ IsEvent(x) /\ (x \notin S \/ x = h)

(* A machine, a client, the machines there is one of stay as they were. *)
HelperKept(n) ==
  /\ state'[n] = state[n] /\ io'[n] = io[n] /\ job'[n] = job[n]
  /\ n \in Rx => flags'[n] = flags[n] /\ timer'[n] = timer[n]
  /\ Resting(n)' <=> Resting(n)

WorkerKept(w) ==
  /\ state'[w] = state[w] /\ wi'[w].ci = wi[w].ci /\ wi'[w].fd = wi[w].fd
  /\ Resting(w)' <=> Resting(w)

ClientKept(c) == net'[c].conn = net[c].conn

SinglesKept ==
  /\ \A m \in {poolman, manager, listener} : state'[m] = state[m]
  /\ io'[listener] = io[listener]

(* No worker goes on before a machine that gave its socket back is idle. *)
StillFirst(S, N) ==
  \A n \in Helper : state'[n] = "work" /\ io'[n].fd = NULL =>
    \/ /\ state[n] = "work" /\ io[n].fd = NULL /\ job'[n] = job[n]
       /\ Self(n, "M0") \notin N
    \/ \A x \in S \cup N : x.dst = job'[n] => x.src # job'[n]

HelperInStep(n, S) ==
  /\ HelperView(n, S) /\ LinkView(n)
  /\ n \in Rx => RxView(n, S)
  /\ n \in Tx => TxView(n, S)

LEMMA ViewsMean ==
  ASSUME NEW S, Views(S)
  PROVE  /\ \A x \in S : Shape(x)
         /\ IoOnce(S) /\ EarlyOnly(S)
         /\ \A n \in Helper : HelperInStep(n, S)
         /\ \A w \in Worker : WorkerView(w, S)
         /\ \A c \in Client : ClientView(c, S)
         /\ SingleView(S)
BY DEF Views, HelperInStep

LEMMA CallsAreCalls ==
  ASSUME NEW x, Shape(x), ~ IsEvent(x)
  PROVE  ~ IsIoEvent(x) /\ x.code \in {"M0", "M1", "M2", "M3"} /\ x.src \in Machine
         /\ x.dst \in Machine /\ x.ptr \in Machine \cup Client \cup {NULL} /\ x \in Message
<1>1. CallShape(x)
  BY DEF Shape
<1>2. x.code \in {"M0", "M1", "M2", "M3"} /\ x.src \in Machine /\ x.dst \in Machine
      /\ x.ptr \in Machine \cup Client \cup {NULL}
  BY <1>1, MsgFields, Kinships DEF CallShape, Self
<1>3. x \in Message
  BY <1>1, <1>2, MsgFields, Kinships DEF CallShape, Self, Msg, Message, Code0
<1>. QED
  BY <1>2, <1>3 DEF IsIoEvent

LEMMA AllViews ==
  ASSUME NEW S, NEW h, NEW N, NEW T, T = After(S, h, N), Views(S), Puttable(S, h, N),
         EarlyOnly(T)',
         \A n \in Helper : HelperInStep(n, T)',
         \A w \in Worker : WorkerView(w, T)',
         \A c \in Client : ClientView(c, T)',
         SingleView(T)'
  PROVE  Views(T)'
<1>1. \A x \in T : Shape(x)
  BY ViewsMean DEF Puttable, After
<1>2. IoOnce(T)
  BY ViewsMean, IoFrame, CallsAreCalls DEF Puttable
<1>3. (\A x \in T : Shape(x)') /\ IoOnce(T)'
  BY <1>1, <1>2 DEF Shape, EventShape, CallShape, IsEvent, IoOnce, IsIoEvent
<1>. QED
  BY <1>3 DEF Views, HelperInStep, Helper

(* A helper nobody touches. *)
LEMMA HelperStays ==
  ASSUME NEW S, NEW T, Views(S), NEW n \in Helper, HelperKept(n), To(n, T) = To(n, S),
         job[n] # NULL => state'[job[n]] = state[job[n]] /\ wi'[job[n]].ci = wi[job[n]].ci
  PROVE  HelperInStep(n, T)'
<1>1. HelperInStep(n, S)
  BY ViewsMean
<1>2. HelperView(n, T)' /\ LinkView(n)'
  BY <1>1, HelperFrame, LinkFrame DEF HelperInStep, HelperKept
<1>3. CASE n \in Rx
  BY <1>1, <1>2, <1>3, RxFrame, Kinships DEF HelperInStep, HelperKept
<1>4. CASE n \in Tx
  BY <1>1, <1>2, <1>4, TxFrame, Kinships DEF HelperInStep, HelperKept
<1>. QED
  BY <1>3, <1>4 DEF Helper

(* A worker nobody touches. *)
LEMMA WorkerStays ==
  ASSUME NEW S, NEW T, Views(S), NEW w \in Worker, WorkerKept(w),
         To(w, T) = To(w, S), From(w, T) = From(w, S),
         \A n \in Helper : HelpsAsBefore(n, w)
  PROVE  WorkerView(w, T)'
BY ViewsMean, WorkerFrame DEF WorkerKept

(* A client nobody touches. *)
LEMMA ClientStays ==
  ASSUME NEW S, NEW T, Views(S), NEW c \in Client, ClientKept(c), About(c, T) = About(c, S),
         \A w \in Worker : HoldsAsBefore(w, c, S, T)
  PROVE  ClientView(c, T)'
BY ViewsMean, ClientFrame DEF ClientKept

(* A machine with a socket: for whom it works, and who waits for it. *)
LEMMA AtWork ==
  ASSUME NEW S, Views(S), Typed, NEW n \in Helper, io[n].fd # NULL
  PROVE  /\ job[n] \in Worker /\ state[job[n]] = Task(n)
         /\ Helped(job[n], S) /\ OnlyHelp(job[n], n)
         /\ wi[job[n]].ci \in Client /\ io[n].fd = wi[job[n]].ci /\ ~ Resting(job[n])
<1>. DEFINE w == job[n]
<1>1. HelperInStep(n, S)
  BY ViewsMean
<1>2. w \in Worker /\ state[w] = Task(n) /\ io[n].fd = wi[w].ci
  BY <1>1 DEF HelperInStep, LinkView, Typed
<1>3. WorkerView(w, S) /\ state[w] \in {"getp", "ackp"}
  BY <1>2, ViewsMean DEF Task
<1>4. ~ NoHelp(w)
  BY DEF NoHelp
<1>5. Helped(w, S) /\ wi[w].ci \in Client /\ ~ Resting(w)
  BY <1>3, <1>4 DEF WorkerView, Asking, Answered, GoingOn
<1>6. OnlyHelp(w, n)
  BY <1>2, <1>5 DEF Helped, OnlyHelp
<1>. QED
  BY <1>2, <1>5, <1>6

(* Machines and clients a message and those put for it are not about. *)
LEMMA HelperAside ==
  ASSUME NEW S, NEW h, NEW N, NEW T, T = After(S, h, N), Views(S),
         NEW n \in Helper, HelperKept(n), h.dst # n, \A y \in N : y.dst # n,
         job[n] # NULL => state'[job[n]] = state[job[n]] /\ wi'[job[n]].ci = wi[job[n]].ci
  PROVE  HelperInStep(n, T)'
<1>1. To(n, T) = To(n, S)
  BY SameTo
<1>. QED
  BY <1>1, HelperStays

LEMMA WorkerAside ==
  ASSUME NEW S, NEW h, NEW N, NEW T, T = After(S, h, N), Views(S),
         NEW w \in Worker, WorkerKept(w), \A n \in Helper : HelpsAsBefore(n, w),
         h.dst # w, h.src # w \/ h.dst \notin Helper,
         \A y \in N : y.dst # w /\ (y.src # w \/ y.dst \notin Helper)
  PROVE  WorkerView(w, T)'
<1>1. To(w, T) = To(w, S)
  BY SameTo
<1>2. From(w, T) = From(w, S)
  BY SameFrom
<1>. QED
  BY <1>1, <1>2, WorkerStays

LEMMA ClientAside ==
  ASSUME NEW S, NEW h, NEW N, NEW T, T = After(S, h, N), Views(S),
         NEW c \in Client, ClientKept(c), h.ptr # c, \A y \in N : y.ptr # c,
         \A w \in Worker : wi'[w].ci = c <=> wi[w].ci = c,
         \A w \in Worker : wi[w].ci = c => h # Self(w, "M3") /\ Self(w, "M3") \notin N
  PROVE  ClientView(c, T)'
<1>1. About(c, T) = About(c, S)
  BY SameAbout
<1>2. \A w \in Worker : HoldsAsBefore(w, c, S, T)
  BY DEF HoldsAsBefore, After
<1>. QED
  BY <1>1, <1>2, ClientStays

LEMMA SinglesAside ==
  ASSUME NEW S, NEW h \in S, NEW N, NEW T, T = After(S, h, N), Views(S), SinglesKept,
         \A m \in Machine : h = Self(m, "M0") => state[m] # "init",
         \A x \in N \cup {h} : x.src = x.dst => x.src \notin {poolman, manager, listener}
  PROVE  SingleView(T)' /\ Started
<1>1. SingleView(S)
  BY ViewsMean
<1>2. Started
  BY <1>1, HasStarted
<1>3. ASSUME NEW m \in {poolman, manager, listener}
      PROVE  Self(m, "M0") \in T <=> Self(m, "M0") \in S
  <2>1. Self(m, "M0").src = m /\ Self(m, "M0").dst = m
    BY DEF Self, Msg
  <2>. QED
    BY <2>1 DEF After
<1>. QED
  BY <1>1, <1>2, <1>3, SingleFrame DEF SinglesKept

LEMMA SelfFields ==
  ASSUME NEW m, NEW a
  PROVE  /\ Self(m, a).src = m /\ Self(m, a).dst = m
         /\ Self(m, a).ptr = NULL /\ Self(m, a).code = a
BY DEF Self, Msg

LEMMA EventsMean ==
  ASSUME NEW x, Shape(x), IsEvent(x)
  PROVE  EventShape(x) /\ x.src = NULL /\ x.ptr = NULL
BY DEF Shape, EventShape, IsEvent

(* All is done: an event ends the work of a helper.  It gives the socket    *)
(* back, answers its worker, and is on its way to its pool.                 *)
LEMMA HelperDone ==
  ASSUME NEW S, S \subseteq Message, Views(S), Typed,
         NEW h \in S, NEW n \in Helper, h.dst = n, IsEvent(h), io[n].fd # NULL,
         NEW w, w = job[n],
         NEW a \in {"M1", "M2"}, NEW N, N = {Msg(n, w, NULL, a), Self(n, "M0")},
         NEW T, T = After(S, h, N),
         state' = state, job' = job,
         \A p \in Helper \ {n} : HelperKept(p), \A v \in Worker : WorkerKept(v),
         \A c \in Client : ClientKept(c), SinglesKept,
         Resting(n)' <=> Resting(n), io'[n].fd = NULL, io'[n].watch = "none",
         n \in Rx => /\ timer'[n] = timer[n] \/ h.code = "T0"
                     /\ h.code = "T0" => HAVE_T0 \in flags'[n]
  PROVE  Views(T)' /\ Puttable(S, h, N) /\ StillFirst(S, N)
<1>. DEFINE answer == Msg(n, w, NULL, a)
            done == Self(n, "M0")
<1>1. /\ w \in Worker /\ state[w] = Task(n) /\ Helped(w, S) /\ OnlyHelp(w, n)
      /\ wi[w].ci \in Client /\ ~ Resting(w)
  BY AtWork
<1>2. /\ HelperInStep(n, S) /\ state[n] = "work" /\ Shape(h) /\ EventShape(h)
      /\ h.src = NULL /\ h.ptr = NULL /\ SingleView(S) /\ IoOnce(S) /\ EarlyOnly(S)
  BY ViewsMean, EventsMean DEF HelperInStep, HelperView
<1>3. ~ Resting(n) /\ NoCall(n, S) /\ NoCall(w, S) /\ NoAsk(w, S)
  <2>1. ~ Resting(n) /\ NoCall(n, S)
    BY <1>2 DEF HelperInStep, HelperView
  <2>. QED
    BY <1>1, <2>1 DEF Helped
<1>4. /\ answer.src = n /\ answer.dst = w /\ answer.ptr = NULL /\ answer.code = a
      /\ done.src = n /\ done.dst = n /\ done.ptr = NULL /\ done.code = "M0"
      /\ n # w /\ n # NULL /\ w # NULL /\ n \in Machine /\ w \in Machine /\ w \notin Helper
  BY <1>1, MsgFields, SelfFields, Kinships
<1>. HIDE DEF answer, done
<1>5. N = {answer, done} /\ \A x : x \in T <=> (x \in S /\ x # h) \/ x = answer \/ x = done
  BY DEF answer, done, After
<1>6. Puttable(S, h, N)
  <2>1. Shape(answer) /\ Shape(done)
    BY <1>1, <1>4 DEF Shape, CallShape, IsEvent, answer, done
  <2>. QED
    BY <1>3, <1>4, <1>5, <2>1 DEF Puttable, IsEvent, NoCall
<1>7. StillFirst(S, N)
  <2>1. ASSUME NEW p \in Helper, p # n, state'[p] = "work" /\ io'[p].fd = NULL
        PROVE  state[p] = "work" /\ io[p].fd = NULL /\ job'[p] = job[p] /\ Self(p, "M0") \notin N
    BY <1>4, <1>5, <2>1, SelfFields DEF HelperKept
  <2>2. \A x \in S \cup N : x.dst = w => x.src # w
    BY <1>3, <1>4, <1>5 DEF NoCall, IsEvent
  <2>. QED
    BY <2>1, <2>2 DEF StillFirst
<1>8. ASSUME NEW p \in Helper, p # n
      PROVE  HelperInStep(p, T)'
  <2>1. To(p, T) = To(p, S)
    BY <1>4, <1>5, <1>8, SameTo
  <2>2. job[p] # NULL => job[p] \in Worker
    BY DEF Typed
  <2>. QED
    BY <1>8, <2>1, <2>2, HelperStays DEF WorkerKept
<1>9. HelperInStep(n, T)'
  <2>1. OnlyCall(n, done, T)
    BY <1>3, <1>4, <1>5 DEF OnlyCall, NoCall
  <2>2. HelperView(n, T)'
    <3>1. \A x \in T : x.dst = n /\ IsEvent(x) => state'[n] = "work"
      BY <1>2
    <3>. QED
      BY <1>2, <1>3, <2>1, <3>1 DEF HelperView, OnlyCall, IsEvent, done, What
  <2>3. LinkView(n)'
    BY <1>1, <1>2 DEF HelperInStep, LinkView, Task
  <2>4. ASSUME NEW x \in T, x.dst = n, IsEvent(x)
        PROVE  x \in S /\ x # h /\ EventShape(x)
    BY <1>4, <1>5, <2>4, ViewsMean, EventsMean DEF IsEvent
  <2>5. CASE n \in Rx
    <3>1. RxView(n, S) /\ (IsIoEvent(h) \/ h.code = "T0")
      BY <1>2, <2>5, Kinships DEF HelperInStep, EventShape, IsIoEvent
    <3>2. ASSUME NEW x \in T, x.dst = n, x.code = "T0"
          PROVE  timer'[n] = "expired"
      <4>1. IsEvent(x) /\ x \in S
        BY <1>4, <1>5, <3>2, ViewsMean, CallsAreCalls
      <4>2. x # h
        BY <2>4, <3>2, <4>1
      <4>3. x = Msg(NULL, n, NULL, "T0")
        BY <3>2, <4>1, MsgEq, ViewsMean, EventsMean
      <4>4. h.code # "T0"
        BY <1>2, <4>2, <4>3, MsgEq
      <4>. QED
        BY <2>5, <3>1, <3>2, <4>1, <4>4 DEF RxView
    <3>3. ASSUME NEW x \in T, x.dst = n, IsIoEvent(x)
          PROVE  HAVE_T0 \in flags'[n]
      <4>1. IsEvent(x) /\ x \in S
        BY <1>4, <1>5, <3>3, ViewsMean, CallsAreCalls DEF IsIoEvent
      <4>2. x # h
        BY <2>4, <3>3, <4>1
      <4>3. ~ IsIoEvent(h)
        BY <1>2, <3>3, <4>1, <4>2 DEF IoOnce
      <4>. QED
        BY <2>5, <3>1, <4>3
    <3>4. RxView(n, T)'
      BY <1>2, <3>2, <3>3 DEF RxView, IsIoEvent
    <3>. QED
      BY <2>2, <2>3, <2>5, <3>4, Kinships DEF HelperInStep
  <2>6. CASE n \in Tx
    <3>1. IsIoEvent(h)
      BY <1>2, <2>6, Kinships DEF EventShape, IsIoEvent
    <3>2. ASSUME NEW x \in T, x.dst = n, IsEvent(x)
          PROVE  FALSE
      BY <1>2, <2>4, <2>6, <3>1, <3>2, Kinships, ZenonT(40) DEF EventShape, IsIoEvent, IoOnce
    <3>3. TxView(n, T)'
      BY <3>2 DEF TxView, IsEvent
    <3>. QED
      BY <2>2, <2>3, <2>6, <3>3, Kinships DEF HelperInStep
  <2>. QED
    BY <2>5, <2>6 DEF Helper
<1>10. ASSUME NEW v \in Worker, v # w
       PROVE  WorkerView(v, T)'
  <2>1. v # n /\ v # NULL
    BY Kinships
  <2>2. To(v, T) = To(v, S)
    BY <1>4, <1>5, <1>10, <2>1, SameTo
  <2>3. From(v, T) = From(v, S)
    BY <1>2, <1>4, <1>5, <2>1, SameFrom
  <2>4. \A p \in Helper : HelpsAsBefore(p, v)
    BY <1>10 DEF HelperKept, HelpsAsBefore
  <2>. QED
    BY <2>2, <2>3, <2>4, WorkerStays
<1>11. WorkerView(w, T)'
  <2>1. OnlyCall(w, answer, T)
    BY <1>3, <1>4, <1>5 DEF OnlyCall, NoCall
  <2>2. NoAsk(w, T)
    BY <1>3, <1>4, <1>5 DEF NoAsk
  <2>3. NoHelp(w)'
    BY <1>1 DEF NoHelp, OnlyHelp, HelperKept
  <2>4. Answered(w, T)'
    BY <1>1, <2>1, <2>2, <2>3, ZenonT(40) DEF Answered, Task, OnlyCall, NoAsk, IsEvent, answer
  <2>5. state'[w] \in {"getp", "ackp"} /\ ~ Resting(w)' /\ wi'[w].ci \in Client
    BY <1>1 DEF Task, WorkerKept
  <2>. QED
    BY <2>4, <2>5 DEF WorkerView
<1>12. ASSUME NEW c \in Client
       PROVE  ClientView(c, T)'
  <2>1. About(c, T) = About(c, S)
    BY <1>2, <1>4, <1>5, SameAbout, Kinships
  <2>2. ASSUME NEW v \in Worker
        PROVE  Self(v, "M3") \in T <=> Self(v, "M3") \in S
    <3>1. Self(v, "M3").src = v /\ v # NULL /\ v # n
      BY SelfFields, Kinships
    <3>. QED
      BY <1>2, <1>4, <1>5, <3>1
  <2>3. \A v \in Worker : HoldsAsBefore(v, c, S, T)
    BY <2>2 DEF WorkerKept, HoldsAsBefore
  <2>. QED
    BY <2>1, <2>3, ClientStays
<1>13. SingleView(T)'
  <2>1. Started
    <3>1. \A m \in Machine : h # Self(m, "M0")
      BY <1>2, SelfFields, Kinships
    <3>. QED
      BY <1>2, <3>1, HasStarted
  <2>2. ASSUME NEW m \in {poolman, manager, listener}
        PROVE  Self(m, "M0") \in T <=> Self(m, "M0") \in S
    <3>1. Self(m, "M0").src = m /\ m # NULL /\ m # n
      BY SelfFields, Kinships
    <3>. QED
      BY <1>2, <1>4, <1>5, <3>1
  <2>. QED
    BY <1>2, <2>1, <2>2, SingleFrame DEF SinglesKept
<1>14. EarlyOnly(T)'
  BY <1>2, <1>4, <1>5, EarlyFrame DEF Early, IsEvent
<1>. QED
  BY <1>6, <1>7, <1>8, <1>9, <1>10, <1>11, <1>12, <1>13, <1>14, AllViews

(* A worker asks a helper of its own kind of work: it gets the socket, and  *)
(* will be at work next.                                                    *)
LEMMA AskedBy ==
  ASSUME NEW S, Views(S), NEW h \in S, NEW n \in Helper,
         h.dst = n, ~ IsEvent(h), h.code = "M1", state[n] = "idle"
  PROVE  /\ h.src \in Worker /\ h = Msg(h.src, n, h.src, "M1") /\ OnlyCall(n, h, S)
         /\ ~ Resting(n) /\ io[n].fd = NULL /\ job[n] = NULL
         /\ Asking(h.src, S) /\ OnlyAsk(h.src, h, S) /\ Task(n) = state[h.src]
         /\ wi[h.src].ci \in Client /\ ~ Resting(h.src)
<1>1. HelperInStep(n, S) /\ h # Self(n, "M0")
  BY ViewsMean, SelfFields
<1>2. /\ ~ Resting(n) /\ io[n].fd = NULL /\ job[n] = NULL
      /\ \E w \in Worker : OnlyCall(n, Msg(w, n, w, "M1"), S)
  BY <1>1 DEF HelperInStep, HelperView, LinkView, NoCall, OnlyCall
<1>3. PICK w \in Worker : OnlyCall(n, Msg(w, n, w, "M1"), S)
  BY <1>2
<1>4. h = Msg(w, n, w, "M1") /\ h.src = w
  BY <1>3, MsgFields DEF OnlyCall
<1>5. WorkerView(w, S) /\ ~ NoAsk(w, S)
  BY <1>4, ViewsMean DEF NoAsk
<1>6. wi[w].ci \in Client /\ ~ Resting(w) /\ Asking(w, S)
  BY <1>5 DEF WorkerView, Helped, Answered, GoingOn
<1>7. PICK p \in Helper : Task(p) = state[w] /\ OnlyAsk(w, Msg(w, p, w, "M1"), S)
  BY <1>6 DEF Asking
<1>8. h = Msg(w, p, w, "M1") /\ p = n
  BY <1>4, <1>7, MsgFields DEF OnlyAsk
<1>. QED
  BY <1>2, <1>3, <1>4, <1>6, <1>7, <1>8

LEMMA HelperStarts ==
  ASSUME NEW S, S \subseteq Message, Views(S), Typed, \A x \in S : ~ IsEvent(x),
         NEW h \in S, NEW n \in Helper, h.dst = n, h.code = "M1", state[n] = "idle",
         NEW w, w = h.src, NEW N, N = {Self(n, "M0")}, NEW T, T = After(S, h, N),
         state' = state, job'[n] = w, io'[n].fd = wi[w].fd, io'[n].watch = "POLLHUP",
         \A p \in Helper \ {n} : HelperKept(p), \A v \in Worker : WorkerKept(v),
         \A c \in Client : ClientKept(c), SinglesKept,
         Resting(n)' <=> Resting(n),
         n \in Rx => flags'[n] = flags[n] /\ timer'[n] = timer[n]
  PROVE  Views(T)' /\ Puttable(S, h, N) /\ StillFirst(S, N)
<1>. DEFINE next == Self(n, "M0")
<1>1. /\ w \in Worker /\ h = Msg(w, n, w, "M1") /\ OnlyCall(n, h, S)
      /\ ~ Resting(n) /\ io[n].fd = NULL /\ job[n] = NULL
      /\ Asking(w, S) /\ OnlyAsk(w, h, S) /\ Task(n) = state[w]
      /\ wi[w].ci \in Client /\ ~ Resting(w) /\ wi[w].fd = wi[w].ci
      /\ NoCall(w, S) /\ NoHelp(w)
  BY AskedBy DEF Asking
<1>2. /\ h.src = w /\ h.dst = n /\ h.ptr = w /\ h.code = "M1"
      /\ next.src = n /\ next.dst = n /\ next.ptr = NULL /\ next.code = "M0"
      /\ n # w /\ n # NULL /\ w # NULL /\ n \in Machine /\ w \in Machine /\ w \notin Helper
      /\ n \notin Worker
  BY <1>1, MsgFields, SelfFields, Kinships
<1>3. HelperInStep(n, S)
  BY ViewsMean
<1>4. Shape(next) /\ Shape(h)
  BY <1>1, <1>2 DEF Shape, CallShape, IsEvent
<1>. HIDE DEF next
<1>5. N = {next} /\ \A x : x \in T <=> (x \in S /\ x # h) \/ x = next
  BY DEF next, After
<1>6. Puttable(S, h, N)
  BY <1>1, <1>2, <1>4, <1>5 DEF Puttable, IsEvent, OnlyCall
<1>7. StillFirst(S, N)
  <2>1. ASSUME NEW p \in Helper, p # n, state'[p] = "work" /\ io'[p].fd = NULL
        PROVE  state[p] = "work" /\ io[p].fd = NULL /\ job'[p] = job[p] /\ Self(p, "M0") \notin N
    BY <1>2, <1>5, <2>1, SelfFields DEF HelperKept
  <2>. QED
    BY <2>1 DEF StillFirst
<1>8. ASSUME NEW p \in Helper, p # n
      PROVE  HelperInStep(p, T)'
  <2>1. job[p] # NULL => job[p] \in Worker
    BY DEF Typed
  <2>2. h.dst # p /\ \A y \in N : y.dst # p
    BY <1>2, <1>5, <1>8
  <2>. QED
    BY <1>8, <2>1, <2>2, HelperAside DEF WorkerKept
<1>9. HelperInStep(n, T)'
  <2>1. OnlyCall(n, next, T)
    BY <1>1, <1>2, <1>5 DEF OnlyCall
  <2>2. HelperView(n, T)'
    BY <1>1, <1>2, <1>5, <2>1, Kinships DEF HelperView, OnlyCall, IsEvent, IsIoEvent, What, next
  <2>3. LinkView(n)'
    BY <1>1, <1>2, Kinships DEF LinkView, Task, WorkerKept
  <2>4. ASSUME NEW x \in T, x.dst = n
        PROVE  x.code = "M0"
    BY <1>1, <1>2, <1>5, <2>4 DEF OnlyCall
  <2>5. CASE n \in Rx
    <3>1. RxView(n, T)'
      BY <1>3, <2>4, <2>5 DEF HelperInStep, RxView, IsIoEvent
    <3>. QED
      BY <2>2, <2>3, <2>5, <3>1, Kinships DEF HelperInStep
  <2>6. CASE n \in Tx
    <3>1. TxView(n, T)'
      BY <1>1, <1>2, <1>5 DEF TxView, IsEvent
    <3>. QED
      BY <2>2, <2>3, <2>6, <3>1, Kinships DEF HelperInStep
  <2>. QED
    BY <2>5, <2>6 DEF Helper
<1>10. ASSUME NEW v \in Worker, v # w
       PROVE  WorkerView(v, T)'
  <2>1. v # n
    BY Kinships
  <2>2. \A p \in Helper : HelpsAsBefore(p, v)
    BY <1>1, <1>10, Kinships DEF HelperKept, HelpsAsBefore
  <2>3. /\ h.dst # v /\ h.src # v
        /\ \A y \in N : y.dst # v /\ (y.src # v \/ y.dst \notin Helper)
    BY <1>2, <1>5, <1>10, <2>1
  <2>. QED
    BY <2>2, <2>3, WorkerAside
<1>11. WorkerView(w, T)'
  <2>1. NoCall(w, T) /\ NoAsk(w, T)
    BY <1>1, <1>2, <1>5 DEF NoCall, NoAsk, OnlyAsk
  <2>2. OnlyHelp(w, n)'
    BY <1>1, <1>2 DEF NoHelp, OnlyHelp, HelperKept, WorkerKept
  <2>3. Helped(w, T)'
    BY <1>1, <2>1, <2>2 DEF Helped, Task, NoCall, NoAsk, IsEvent
  <2>4. state'[w] \in {"getp", "ackp"} /\ ~ Resting(w)' /\ wi'[w].ci \in Client
    BY <1>1 DEF Task, WorkerKept
  <2>. QED
    BY <2>3, <2>4 DEF WorkerView
<1>12. ASSUME NEW c \in Client
       PROVE  ClientView(c, T)'
  <2>1. h.ptr # c /\ \A y \in N : y.ptr # c
    BY <1>2, <1>5, Kinships
  <2>2. \A v \in Worker : h # Self(v, "M3") /\ Self(v, "M3") \notin N
    BY <1>2, <1>5, SelfFields
  <2>3. \A v \in Worker : wi'[v].ci = c <=> wi[v].ci = c
    BY DEF WorkerKept
  <2>. QED
    BY <2>1, <2>2, <2>3, ClientAside
<1>13. SingleView(T)'
  <2>1. \A m \in Machine : h # Self(m, "M0")
    BY <1>2, SelfFields
  <2>2. \A x \in N \cup {h} : x.src = x.dst => x.src \notin {poolman, manager, listener}
    BY <1>2, <1>5, Kinships
  <2>. QED
    BY <2>1, <2>2, SinglesAside
<1>14. EarlyOnly(T)'
  BY <1>6, EarlyFrame DEF Puttable
<1>. QED
  BY <1>6, <1>7, <1>8, <1>9, <1>10, <1>11, <1>12, <1>13, <1>14, AllViews

(* A helper that was just created goes to its pool. *)
LEMMA HelperInit ==
  ASSUME NEW S, S \subseteq Message, Views(S), Typed, \A x \in S : ~ IsEvent(x),
         NEW n \in Helper, state[n] = "init", NEW h \in S, h.dst = n,
         NEW N, N = {}, NEW T, T = After(S, h, N),
         state' = [state EXCEPT ![n] = "idle"], io' = io, job' = job, wi' = wi, net' = net,
         \A x : Resting(x)' <=> Resting(x) \/ x = n,
         \A p \in Rx \ {n} : flags'[p] = flags[p], \A p \in Rx : timer'[p] = timer[p],
         n \in Rx => flags'[n] = {}
  PROVE  Views(T)' /\ Puttable(S, h, N) /\ StillFirst(S, N)
<1>1. /\ HelperInStep(n, S) /\ io[n].fd = NULL /\ OnlyCall(n, Self(n, "M0"), S)
      /\ job[n] = NULL /\ io[n].watch = "none"
  BY ViewsMean DEF HelperInStep, HelperView, LinkView
<1>2. h = Self(n, "M0") /\ n \in Machine /\ n \notin Worker /\ n # NULL
  BY <1>1, Kinships DEF OnlyCall
<1>3. /\ h.src = n /\ h.dst = n /\ h.ptr = NULL /\ h.code = "M0"
      /\ \A x : x \in T <=> x \in S /\ x # h
  BY <1>2, SelfFields DEF After
<1>4. Puttable(S, h, N)
  BY DEF Puttable
<1>5. /\ \A p \in Machine \ {n} : state'[p] = state[p]
      /\ state'[n] = "idle"
  BY <1>2 DEF Typed
<1>6. StillFirst(S, N)
  <2>1. ASSUME NEW p \in Helper, state'[p] = "work" /\ io'[p].fd = NULL
        PROVE  state[p] = "work" /\ io[p].fd = NULL /\ job'[p] = job[p] /\ Self(p, "M0") \notin N
    BY <1>5, <2>1, Kinships
  <2>. QED
    BY <2>1 DEF StillFirst
<1>7. ASSUME NEW p \in Helper, p # n
      PROVE  HelperInStep(p, T)'
  <2>1. HelperKept(p)
    BY <1>5, <1>7, Kinships DEF HelperKept
  <2>2. job[p] # NULL => state'[job[p]] = state[job[p]]
    BY <1>2, <1>5, Kinships DEF Typed
  <2>. QED
    BY <1>3, <1>7, <2>1, <2>2, HelperAside
<1>8. HelperInStep(n, T)'
  <2>1. \A x \in T : x.dst # n
    BY <1>1, <1>2, <1>3 DEF OnlyCall
  <2>2. HelperView(n, T)'
    BY <1>1, <1>5, <2>1 DEF HelperView, NoCall, What
  <2>3. LinkView(n)'
    BY <1>1, <1>5 DEF LinkView
  <2>4. n \in Rx => RxView(n, T)'
    BY <1>1, <1>5, <2>1 DEF HelperInStep, RxView, IsIoEvent
  <2>5. n \in Tx => TxView(n, T)'
    BY <2>1 DEF TxView
  <2>. QED
    BY <2>2, <2>3, <2>4, <2>5, Kinships DEF HelperInStep
<1>9. ASSUME NEW v \in Worker
      PROVE  WorkerView(v, T)'
  <2>1. v # n /\ v \in Machine
    BY Kinships
  <2>2. WorkerKept(v) /\ \A p \in Helper : HelpsAsBefore(p, v)
    BY <1>5, <2>1 DEF WorkerKept, HelpsAsBefore
  <2>. QED
    BY <1>3, <2>1, <2>2, WorkerAside
<1>10. ASSUME NEW c \in Client
       PROVE  ClientView(c, T)'
  <2>1. h.ptr # c /\ (\A v \in Worker : h # Self(v, "M3")) /\ ClientKept(c)
    BY <1>3, SelfFields, Kinships DEF ClientKept
  <2>. QED
    BY <2>1, ClientAside
<1>11. SingleView(T)'
  <2>1. SingleView(S) /\ \A m \in {poolman, manager, listener} : m # n /\ m \in Machine
    BY ViewsMean, Kinships
  <2>2. ASSUME NEW m \in {poolman, manager, listener}
        PROVE  state'[m] = state[m] /\ (Self(m, "M0") \in T <=> Self(m, "M0") \in S)
    <3>1. Self(m, "M0").dst = m
      BY SelfFields
    <3>. QED
      BY <1>3, <1>5, <2>1, <3>1
  <2>3. Started' <=> Started
    BY <2>2 DEF Started
  <2>4. ASSUME ~ Started, NEW x \in T
        PROVE  \E m \in Machine : x = Self(m, "M0") /\ state'[m] = "init"
    <3>1. PICK m \in Machine : x = Self(m, "M0") /\ state[m] = "init"
      BY <1>3, <2>1, <2>4 DEF SingleView
    <3>2. m # n
      BY <1>2, <1>3, <3>1
    <3>. QED
      BY <1>5, <3>1, <3>2
  <2>. QED
    BY <2>1, <2>2, <2>3, <2>4 DEF SingleView, Started
<1>12. EarlyOnly(T)'
  BY <1>4, EarlyFrame DEF Puttable
<1>. QED
  BY <1>4, <1>6, <1>7, <1>8, <1>9, <1>10, <1>11, <1>12, AllViews

(* A helper that is done goes to its pool. *)
LEMMA HelperFinishes ==
  ASSUME NEW S, S \subseteq Message, Views(S), Typed, \A x \in S : ~ IsEvent(x),
         NEW n \in Helper, state[n] = "work", NEW h \in S, h.dst = n,
         NEW N, N = {}, NEW T, T = After(S, h, N),
         state' = [state EXCEPT ![n] = "idle"], io' = io, wi' = wi, net' = net,
         \A p \in Helper \ {n} : job'[p] = job[p], job'[n] = NULL,
         \A x : Resting(x)' <=> Resting(x) \/ x = n,
         \A p \in Rx \ {n} : flags'[p] = flags[p] /\ timer'[p] = timer[p],
         n \in Rx => flags'[n] = {} /\ timer'[n] = "off"
  PROVE  Views(T)' /\ Puttable(S, h, N) /\ StillFirst(S, N)
<1>1. HelperInStep(n, S) /\ ~ NoCall(n, S)
  BY ViewsMean DEF NoCall
<1>2. io[n].fd = NULL /\ OnlyCall(n, Self(n, "M0"), S) /\ io[n].watch = "none" /\ ~ Resting(n)
  BY <1>1 DEF HelperInStep, HelperView
<1>3. h = Self(n, "M0") /\ n \in Machine /\ n \notin Worker /\ n # NULL
  BY <1>2, Kinships DEF OnlyCall
<1>4. /\ h.src = n /\ h.dst = n /\ h.ptr = NULL /\ h.code = "M0"
      /\ \A x : x \in T <=> x \in S /\ x # h
  BY <1>3, SelfFields DEF After
<1>5. Puttable(S, h, N)
  BY DEF Puttable
<1>6. /\ \A p \in Machine \ {n} : state'[p] = state[p]
      /\ state'[n] = "idle"
  BY <1>3 DEF Typed
<1>7. StillFirst(S, N)
  <2>1. ASSUME NEW p \in Helper, state'[p] = "work" /\ io'[p].fd = NULL
        PROVE  state[p] = "work" /\ io[p].fd = NULL /\ job'[p] = job[p] /\ Self(p, "M0") \notin N
    BY <1>6, <2>1, Kinships
  <2>. QED
    BY <2>1 DEF StillFirst
<1>8. ASSUME NEW p \in Helper, p # n
      PROVE  HelperInStep(p, T)'
  <2>1. HelperKept(p)
    BY <1>6, <1>8, Kinships DEF HelperKept
  <2>2. job[p] # NULL => state'[job[p]] = state[job[p]]
    BY <1>3, <1>6, Kinships DEF Typed
  <2>. QED
    BY <1>4, <1>8, <2>1, <2>2, HelperAside
<1>9. HelperInStep(n, T)'
  <2>1. \A x \in T : x.dst # n
    BY <1>2, <1>3, <1>4 DEF OnlyCall
  <2>2. HelperView(n, T)'
    BY <1>2, <1>6, <2>1 DEF HelperView, NoCall, What
  <2>3. LinkView(n)'
    BY <1>2, <1>6 DEF LinkView
  <2>4. n \in Rx => RxView(n, T)'
    BY <1>2, <1>6, <2>1 DEF RxView, IsIoEvent
  <2>5. n \in Tx => TxView(n, T)'
    BY <2>1 DEF TxView
  <2>. QED
    BY <2>2, <2>3, <2>4, <2>5, Kinships DEF HelperInStep
<1>10. ASSUME NEW v \in Worker
      PROVE  WorkerView(v, T)'
  <2>1. v # n /\ v \in Machine
    BY Kinships
  <2>2. WorkerKept(v) /\ \A p \in Helper : HelpsAsBefore(p, v)
    BY <1>2, <1>6, <2>1 DEF WorkerKept, HelpsAsBefore
  <2>. QED
    BY <1>4, <2>1, <2>2, WorkerAside
<1>11. ASSUME NEW c \in Client
       PROVE  ClientView(c, T)'
  <2>1. h.ptr # c /\ (\A v \in Worker : h # Self(v, "M3")) /\ ClientKept(c)
    BY <1>4, SelfFields, Kinships DEF ClientKept
  <2>. QED
    BY <2>1, ClientAside
<1>12. SingleView(T)'
  <2>1. \A m \in Machine : h = Self(m, "M0") => state[m] # "init"
    BY <1>4, SelfFields
  <2>2. SinglesKept
    BY <1>6, Kinships DEF SinglesKept
  <2>3. \A x \in N \cup {h} : x.src = x.dst => x.src \notin {poolman, manager, listener}
    BY <1>4, Kinships
  <2>. QED
    BY <2>1, <2>2, <2>3, SinglesAside
<1>13. EarlyOnly(T)'
  BY <1>5, EarlyFrame DEF Puttable
<1>. QED
  BY <1>5, <1>7, <1>8, <1>9, <1>10, <1>11, <1>12, <1>13, AllViews

(* A helper that has the socket waits for it. *)
LEMMA HelperWorks ==
  ASSUME NEW S, S \subseteq Message, Views(S), Typed, \A x \in S : ~ IsEvent(x),
         NEW n \in Helper, state[n] = "idle", io[n].fd # NULL, NEW h \in S, h.dst = n,
         NEW N, N = {}, NEW T, T = After(S, h, N),
         state' = [state EXCEPT ![n] = "work"],
         \A p \in Channel \ {n} : io'[p] = io[p], io'[n].fd = io[n].fd, io'[n].watch = What(n),
         job' = job, net' = net,
         \A v \in Worker : wi'[v].ci = wi[v].ci /\ wi'[v].fd = wi[v].fd,
         \A x : Resting(x)' <=> Resting(x),
         flags' = flags, \A p \in Rx \ {n} : timer'[p] = timer[p]
  PROVE  Views(T)' /\ Puttable(S, h, N) /\ StillFirst(S, N)
<1>1. HelperInStep(n, S)
  BY ViewsMean
<1>2. ~ Resting(n) /\ OnlyCall(n, Self(n, "M0"), S)
  BY <1>1 DEF HelperInStep, HelperView
<1>3. h = Self(n, "M0") /\ n \in Machine /\ n \notin Worker /\ n # NULL
  BY <1>2, Kinships DEF OnlyCall
<1>4. /\ h.src = n /\ h.dst = n /\ h.ptr = NULL /\ h.code = "M0"
      /\ \A x : x \in T <=> x \in S /\ x # h
  BY <1>3, SelfFields DEF After
<1>5. Puttable(S, h, N)
  BY DEF Puttable
<1>6. /\ \A p \in Machine \ {n} : state'[p] = state[p]
      /\ state'[n] = "work"
  BY <1>3 DEF Typed
<1>7. StillFirst(S, N)
  <2>1. ASSUME NEW p \in Helper, state'[p] = "work" /\ io'[p].fd = NULL
        PROVE  state[p] = "work" /\ io[p].fd = NULL /\ job'[p] = job[p] /\ Self(p, "M0") \notin N
    BY <1>6, <2>1, Kinships
  <2>. QED
    BY <2>1 DEF StillFirst
<1>8. ASSUME NEW p \in Helper, p # n
      PROVE  HelperInStep(p, T)'
  <2>1. HelperKept(p)
    BY <1>6, <1>8, Kinships DEF HelperKept
  <2>2. job[p] # NULL => state'[job[p]] = state[job[p]] /\ wi'[job[p]].ci = wi[job[p]].ci
    BY <1>3, <1>6, Kinships DEF Typed
  <2>. QED
    BY <1>4, <1>8, <2>1, <2>2, HelperAside
<1>9. HelperInStep(n, T)'
  <2>1. \A x \in T : x.dst # n
    BY <1>2, <1>3, <1>4 DEF OnlyCall
  <2>2. HelperView(n, T)'
    BY <1>2, <1>6, <2>1 DEF HelperView, NoCall, What
  <2>3. LinkView(n)'
    <3>1. job[n] # NULL /\ job[n] \in Worker /\ state[job[n]] = Task(n) /\ io[n].fd = wi[job[n]].ci
      BY <1>1 DEF HelperInStep, LinkView, Typed
    <3>2. state'[job[n]] = state[job[n]]
      BY <1>3, <1>6, <3>1, Kinships
    <3>. QED
      BY <1>6, <3>1, <3>2 DEF LinkView, Task
  <2>4. n \in Rx => RxView(n, T)'
    BY <1>1, <1>6, <2>1 DEF HelperInStep, RxView, IsIoEvent
  <2>5. n \in Tx => TxView(n, T)'
    BY <2>1 DEF TxView
  <2>. QED
    BY <2>2, <2>3, <2>4, <2>5, Kinships DEF HelperInStep
<1>10. ASSUME NEW v \in Worker
      PROVE  WorkerView(v, T)'
  <2>1. v # n /\ v \in Machine
    BY Kinships
  <2>2. WorkerKept(v) /\ \A p \in Helper : HelpsAsBefore(p, v)
    BY <1>6, <2>1, Kinships DEF WorkerKept, HelpsAsBefore
  <2>. QED
    BY <1>4, <2>1, <2>2, WorkerAside
<1>11. ASSUME NEW c \in Client
       PROVE  ClientView(c, T)'
  <2>1. h.ptr # c /\ (\A v \in Worker : h # Self(v, "M3")) /\ ClientKept(c)
    BY <1>4, SelfFields, Kinships DEF ClientKept
  <2>. QED
    BY <2>1, ClientAside
<1>12. SingleView(T)'
  <2>1. \A m \in Machine : h = Self(m, "M0") => state[m] # "init"
    BY <1>4, SelfFields
  <2>2. SinglesKept
    BY <1>6, Kinships DEF SinglesKept
  <2>3. \A x \in N \cup {h} : x.src = x.dst => x.src \notin {poolman, manager, listener}
    BY <1>4, Kinships
  <2>. QED
    BY <2>1, <2>2, <2>3, SinglesAside
<1>13. EarlyOnly(T)'
  BY <1>5, EarlyFrame DEF Puttable
<1>. QED
  BY <1>5, <1>7, <1>8, <1>9, <1>10, <1>11, <1>12, <1>13, AllViews

(* An event after which the helper waits on, or which comes too late.       *)
LEMMA HelperGoesOn ==
  ASSUME NEW S, S \subseteq Message, Views(S), Typed,
         NEW h \in S, NEW n \in Helper, h.dst = n, IsEvent(h),
         NEW N, N = {}, NEW T, T = After(S, h, N),
         state' = state, job' = job,
         \A p \in Helper \ {n} : HelperKept(p), \A w \in Worker : WorkerKept(w),
         \A c \in Client : ClientKept(c), SinglesKept, Resting(n)' <=> Resting(n),
         io[n].fd = NULL => io'[n] = io[n],
         io[n].fd # NULL => io'[n].fd = io[n].fd /\ io'[n].watch = What(n),
         n \in Rx => /\ \/ timer'[n] = timer[n]
                        \/ timer'[n] = "off" /\ h.code = "T0"
                     /\ flags[n] \subseteq flags'[n]
                     /\ io[n].fd # NULL => flags'[n] = flags[n]
  PROVE  Views(T)' /\ Puttable(S, h, N) /\ StillFirst(S, N)
<1>1. /\ HelperInStep(n, S) /\ state[n] = "work" /\ Shape(h) /\ EventShape(h)
      /\ h.src = NULL /\ h.ptr = NULL /\ IoOnce(S) /\ EarlyOnly(S)
      /\ n \in Machine /\ n \notin Worker /\ n # NULL
  BY ViewsMean, EventsMean, Kinships DEF HelperInStep, HelperView
<1>2. \A x : x \in T <=> x \in S /\ x # h
  BY DEF After
<1>3. Puttable(S, h, N)
  BY DEF Puttable
<1>4. StillFirst(S, N)
  <2>1. ASSUME NEW p \in Helper, state'[p] = "work" /\ io'[p].fd = NULL
        PROVE  state[p] = "work" /\ io[p].fd = NULL /\ job'[p] = job[p] /\ Self(p, "M0") \notin N
    BY <2>1 DEF HelperKept
  <2>. QED
    BY <2>1 DEF StillFirst
<1>5. ASSUME NEW p \in Helper, p # n
      PROVE  HelperInStep(p, T)'
  <2>1. job[p] # NULL => state'[job[p]] = state[job[p]] /\ wi'[job[p]].ci = wi[job[p]].ci
    BY DEF Typed, WorkerKept
  <2>. QED
    BY <1>5, <2>1, HelperAside
<1>6. HelperInStep(n, T)'
  <2>1. HelperView(n, T)'
    <3>1. \A x \in T : x.dst = n /\ IsEvent(x) => state'[n] = "work"
      BY <1>1
    <3>2. ~ Resting(n)' /\ io'[n].watch \in {"none", "POLLHUP", What(n)}
      BY <1>1 DEF HelperInStep, HelperView
    <3>3. CASE io[n].fd # NULL
      <4>1. NoCall(n, T)
        BY <1>1, <1>2, <3>3 DEF HelperInStep, HelperView, NoCall, OnlyCall
      <4>. QED
        BY <1>1, <3>1, <3>2, <3>3, <4>1 DEF HelperView, NoCall, IsEvent, What
    <3>4. CASE io[n].fd = NULL
      <4>1. OnlyCall(n, Self(n, "M0"), S) /\ io[n].watch = "none"
        BY <1>1, <3>4 DEF HelperInStep, HelperView
      <4>2. OnlyCall(n, Self(n, "M0"), T)
        BY <1>1, <1>2, <4>1, SelfFields DEF OnlyCall
      <4>. QED
        BY <1>1, <3>1, <3>2, <3>4, <4>1, <4>2 DEF HelperView, OnlyCall, IsEvent, What
    <3>. QED
      BY <3>3, <3>4
  <2>2. LinkView(n)'
    <3>1. job[n] # NULL => job[n] \in Worker
      BY DEF Typed
    <3>. QED
      BY <1>1, <3>1, LinkFrame DEF HelperInStep, WorkerKept
  <2>3. CASE n \in Rx
    <3>1. RxView(n, S)
      BY <1>1, <2>3 DEF HelperInStep
    <3>2. ASSUME NEW x \in T, x.dst = n, x.code = "T0"
          PROVE  timer'[n] = "expired"
      <4>1. IsEvent(x) /\ x \in S /\ x # h
        BY <1>2, <3>2, ViewsMean, CallsAreCalls
      <4>2. x = Msg(NULL, n, NULL, "T0")
        BY <3>2, <4>1, MsgEq, ViewsMean, EventsMean
      <4>3. h.code # "T0"
        BY <1>1, <4>1, <4>2, MsgEq
      <4>. QED
        BY <2>3, <3>1, <3>2, <4>1, <4>3 DEF RxView
    <3>3. RxView(n, T)'
      BY <1>1, <1>2, <2>3, <3>1, <3>2 DEF RxView, IsIoEvent
    <3>. QED
      BY <2>1, <2>2, <2>3, <3>3, Kinships DEF HelperInStep
  <2>4. CASE n \in Tx
    <3>1. TxView(n, T)'
      BY <1>1, <1>2, <2>4 DEF HelperInStep, TxView, IsEvent
    <3>. QED
      BY <2>1, <2>2, <2>4, <3>1, Kinships DEF HelperInStep
  <2>. QED
    BY <2>3, <2>4 DEF Helper
<1>7. ASSUME NEW v \in Worker
      PROVE  WorkerView(v, T)'
  <2>1. v # n /\ v # NULL
    BY Kinships
  <2>2. \A p \in Helper : HelpsAsBefore(p, v)
    BY DEF HelperKept, HelpsAsBefore
  <2>. QED
    BY <1>1, <2>1, <2>2, WorkerAside
<1>8. ASSUME NEW c \in Client
      PROVE  ClientView(c, T)'
  <2>1. h.ptr # c /\ \A v \in Worker : h # Self(v, "M3")
    BY <1>1, SelfFields, Kinships
  <2>2. \A v \in Worker : wi'[v].ci = c <=> wi[v].ci = c
    BY DEF WorkerKept
  <2>. QED
    BY <2>1, <2>2, ClientAside
<1>9. SingleView(T)'
  <2>1. \A m \in Machine : h # Self(m, "M0")
    BY <1>1, SelfFields, Kinships
  <2>2. \A x \in N \cup {h} : x.src = x.dst => x.src \notin {poolman, manager, listener}
    BY <1>1, Kinships
  <2>. QED
    BY <2>1, <2>2, SinglesAside
<1>10. EarlyOnly(T)'
  BY <1>1, EarlyFrame
<1>. QED
  BY <1>3, <1>4, <1>5, <1>6, <1>7, <1>8, <1>9, <1>10, AllViews


-----------------------------------------------------------------------------
(* The workers. *)

(* A worker is told by the helper that worked for it. *)
LEMMA ToldBy ==
  ASSUME NEW S, Views(S), NEW h \in S, NEW w \in Worker, h.dst = w, ~ IsEvent(h),
         state[w] \in {"getp", "ackp"}, h.code \in {"M1", "M2"}
  PROVE  /\ Answered(w, S) /\ NoAsk(w, S) /\ NoHelp(w) /\ OnlyCall(w, h, S)
         /\ wi[w].ci \in Client /\ ~ Resting(w)
         /\ h.src \in Helper /\ h.ptr = NULL
<1>1. WorkerView(w, S) /\ ~ NoCall(w, S)
  BY ViewsMean DEF NoCall
<1>2. wi[w].ci \in Client /\ ~ Resting(w) /\ (Answered(w, S) \/ GoingOn(w, S))
  BY <1>1 DEF WorkerView, Asking, Helped
<1>3. ~ GoingOn(w, S)
  BY SelfFields DEF GoingOn, OnlyCall
<1>4. PICK n \in Helper, a \in {"M1", "M2"} : OnlyCall(w, Msg(n, w, NULL, a), S)
  BY <1>2, <1>3 DEF Answered
<1>5. h = Msg(n, w, NULL, a)
  BY <1>4 DEF OnlyCall
<1>. QED
  BY <1>2, <1>3, <1>4, <1>5, MsgFields DEF Answered

(* A worker goes on: no machine has a socket or a job of it any more. *)
LEMMA GoesOn ==
  ASSUME NEW q \in Seq(Message), q # << >>, NEW S, S = ToSet(q), Views(S), FinishFirst(q),
         NEW h, h = Head(q), NEW w \in Worker, h.dst = w, ~ IsEvent(h),
         state[w] \in {"getp", "ackp"}, h.code \in {"M0", "M3"}
  PROVE  /\ h = Self(w, h.code) /\ NoAsk(w, S) /\ NoHelp(w) /\ OnlyCall(w, h, S)
         /\ wi[w].ci \in Client /\ ~ Resting(w)
         /\ \A p \in Helper : job[p] # w
<1>1. h \in S /\ h = q[1] /\ Len(q) \in Nat \ {0} /\ DOMAIN q = 1 .. Len(q)
  BY Basics
<1>2. WorkerView(w, S) /\ ~ NoCall(w, S)
  BY <1>1, ViewsMean DEF NoCall
<1>3. wi[w].ci \in Client /\ ~ Resting(w) /\ (Answered(w, S) \/ GoingOn(w, S))
  BY <1>2 DEF WorkerView, Asking, Helped
<1>4. ~ Answered(w, S)
  BY <1>1, MsgFields DEF Answered, OnlyCall
<1>5. PICK a \in {"M0", "M3"} : OnlyCall(w, Self(w, a), S)
  BY <1>3, <1>4 DEF GoingOn
<1>6. h = Self(w, a) /\ h = Self(w, h.code) /\ h.src = w
  BY <1>1, <1>5, SelfFields DEF OnlyCall
<1>7. NoAsk(w, S) /\ NoHelp(w)
  BY <1>3, <1>4 DEF GoingOn
<1>8. ASSUME NEW p \in Helper, job[p] = w
      PROVE  FALSE
  <2>1. io[p].fd = NULL /\ w # NULL /\ HelperInStep(p, S)
    BY <1>7, <1>8, ViewsMean, Kinships DEF NoHelp
  <2>2. state[p] = "work" /\ Self(p, "M0") \in S
    BY <1>8, <2>1 DEF HelperInStep, LinkView, HelperView, OnlyCall
  <2>3. PICK j \in 1 .. Len(q) : q[j] = Self(p, "M0")
    BY <2>2, Basics
  <2>4. 1 \in 1 .. Len(q) /\ q[1].dst = job[p] /\ q[1].src = job[p]
    BY <1>1, <1>6, <1>8
  <2>5. j < 1
    BY <1>1, <2>1, <2>2, <2>3, <2>4 DEF FinishFirst
  <2>. QED
    BY <1>1, <2>5
<1>. QED
  BY <1>3, <1>5, <1>6, <1>7, <1>8

(* An idle worker with a client starts. *)
LEMMA IdleStarts ==
  ASSUME NEW S, Views(S), NEW h \in S, NEW w \in Worker, h.dst = w, ~ IsEvent(h),
         state[w] = "idle", h.code = "M0"
  PROVE  /\ h = Self(w, "M0") /\ NoAsk(w, S) /\ NoHelp(w) /\ OnlyCall(w, h, S)
         /\ wi[w].ci \in Client /\ ~ Resting(w)
         /\ \A p \in Helper : job[p] # w
<1>1. WorkerView(w, S) /\ ~ NoCall(w, S) /\ w # NULL
  BY ViewsMean, Kinships DEF NoCall
<1>2. NoAsk(w, S) /\ ~ \E c \in Client : OnlyCall(w, Msg(manager, w, c, "M1"), S)
  BY <1>1, MsgFields DEF WorkerView, OnlyCall
<1>3. ~ Resting(w) /\ wi[w].ci \in Client /\ OnlyCall(w, Self(w, "M0"), S)
  BY <1>1, <1>2 DEF WorkerView
<1>4. h = Self(w, "M0")
  BY <1>3 DEF OnlyCall
<1>5. \A p \in Helper : job[p] # w
  BY <1>1, ViewsMean DEF HelperInStep, LinkView, Task
<1>. QED
  BY <1>2, <1>3, <1>4, <1>5 DEF NoHelp

(* The line has been read, or written. *)
LEMMA WorkerTold ==
  ASSUME NEW S, S \subseteq Message, Views(S), Typed, \A x \in S : ~ IsEvent(x),
         NEW w \in Worker, state[w] \in {"getp", "ackp"},
         NEW h \in S, h.dst = w, h.code = "M1",
         NEW N, N = {Self(w, "M0")}, NEW T, T = After(S, h, N),
         UNCHANGED <<machineVars, worldVars>>
  PROVE  Views(T)' /\ Puttable(S, h, N) /\ StillFirst(S, N)
<1>. DEFINE next == Self(w, "M0")
<1>1. /\ NoAsk(w, S) /\ NoHelp(w) /\ OnlyCall(w, h, S)
      /\ wi[w].ci \in Client /\ ~ Resting(w) /\ h.src \in Helper /\ h.ptr = NULL
  BY ToldBy
<1>2. /\ next.src = w /\ next.dst = w /\ next.ptr = NULL /\ next.code = "M0"
      /\ w \in Machine /\ w \notin Helper /\ w # NULL /\ Shape(next)
  BY SelfFields, Kinships DEF Shape, CallShape, IsEvent
<1>. HIDE DEF next
<1>3. N = {next} /\ \A x : x \in T <=> (x \in S /\ x # h) \/ x = next
  BY DEF next, After
<1>4. Puttable(S, h, N)
  BY <1>1, <1>2, <1>3 DEF Puttable, IsEvent, OnlyCall
<1>5. /\ state' = state /\ io' = io /\ job' = job /\ wi' = wi /\ net' = net
      /\ flags' = flags /\ timer' = timer /\ \A x : Resting(x)' <=> Resting(x)
  BY PoolSame DEF machineVars, worldVars
<1>6. StillFirst(S, N)
  <2>1. ASSUME NEW p \in Helper
        PROVE  Self(p, "M0") \notin N
    BY <1>2, <1>3, SelfFields
  <2>. QED
    BY <1>5, <2>1 DEF StillFirst
<1>7. ASSUME NEW p \in Helper
      PROVE  HelperInStep(p, T)'
  <2>1. HelperKept(p)
    BY <1>5 DEF HelperKept
  <2>2. h.dst # p /\ \A y \in N : y.dst # p
    BY <1>2, <1>3
  <2>. QED
    BY <1>5, <2>1, <2>2, HelperAside
<1>8. ASSUME NEW v \in Worker, v # w
      PROVE  WorkerView(v, T)'
  <2>1. WorkerKept(v) /\ \A p \in Helper : HelpsAsBefore(p, v)
    BY <1>5 DEF WorkerKept, HelpsAsBefore
  <2>2. h.dst # v /\ h.dst \notin Helper /\ \A y \in N : y.dst # v /\ y.dst \notin Helper
    BY <1>2, <1>3, <1>8
  <2>. QED
    BY <2>1, <2>2, WorkerAside
<1>9. WorkerView(w, T)'
  <2>1. OnlyCall(w, next, T) /\ NoAsk(w, T)
    BY <1>1, <1>2, <1>3 DEF OnlyCall, NoAsk
  <2>2. NoHelp(w)'
    BY <1>1, <1>5 DEF NoHelp
  <2>3. GoingOn(w, T)'
    BY <2>1, <2>2 DEF GoingOn, next, OnlyCall, NoAsk, IsEvent
  <2>. QED
    BY <1>1, <1>5, <2>3 DEF WorkerView
<1>10. ASSUME NEW c \in Client
       PROVE  ClientView(c, T)'
  <2>1. h.ptr # c /\ \A y \in N : y.ptr # c
    BY <1>1, <1>2, <1>3, Kinships
  <2>2. \A v \in Worker : h # Self(v, "M3") /\ Self(v, "M3") \notin N
    BY <1>2, <1>3, SelfFields
  <2>3. ClientKept(c)
    BY <1>5 DEF ClientKept
  <2>. QED
    BY <1>5, <2>1, <2>2, <2>3, ClientAside
<1>11. SingleView(T)'
  <2>1. \A m \in Machine : h # Self(m, "M0")
    BY SelfFields
  <2>2. \A x \in N \cup {h} : x.src = x.dst => x.src \notin {poolman, manager, listener}
    BY <1>1, <1>2, <1>3, Kinships
  <2>3. SinglesKept
    BY <1>5 DEF SinglesKept
  <2>. QED
    BY <2>1, <2>2, <2>3, SinglesAside
<1>12. EarlyOnly(T)'
  BY <1>4, EarlyFrame DEF Puttable
<1>. QED
  BY <1>4, <1>6, <1>7, <1>8, <1>9, <1>10, <1>11, <1>12, AllViews

(* A worker gives its client up: it sends the client to the manager, and    *)
(* M3 to itself.                                                            *)
LEMMA WorkerGivesUp ==
  ASSUME NEW S, S \subseteq Message, Views(S), Typed, \A x \in S : ~ IsEvent(x),
         NEW w \in Worker, NEW h \in S, h.dst = w, OnlyCall(w, h, S),
         NoAsk(w, S), NoHelp(w), ~ Resting(w),
         NEW c \in Client, c = wi[w].ci, h.ptr = NULL, h.code \in {"M0", "M2"},
         state[w] # "init",
         NEW b \in {"getp", "ackp"}, b = state[w] \/ \A p \in Helper : job[p] # w,
         NEW N, N = {Msg(w, manager, c, "M1"), Self(w, "M3")}, NEW T, T = After(S, h, N),
         state' = [state EXCEPT ![w] = b],
         UNCHANGED <<io, timer, pool, job, flags, wi, net>>
  PROVE  Views(T)' /\ Puttable(S, h, N) /\ StillFirst(S, N)
<1>. DEFINE gone == Msg(w, manager, c, "M1")
            free == Self(w, "M3")
<1>1. /\ gone.src = w /\ gone.dst = manager /\ gone.ptr = c /\ gone.code = "M1"
      /\ free.src = w /\ free.dst = w /\ free.ptr = NULL /\ free.code = "M3"
      /\ w \in Machine /\ w \notin Helper /\ w # NULL /\ manager \in Machine
      /\ manager \notin Helper \cup Worker /\ c # NULL /\ w # listener
      /\ Shape(gone) /\ Shape(free)
  BY SelfFields, MsgFields, Kinships DEF Shape, CallShape, IsEvent
<1>. HIDE DEF gone, free
<1>2. N = {gone, free} /\ \A x : x \in T <=> (x \in S /\ x # h) \/ x = gone \/ x = free
  BY DEF gone, free, After
<1>3. h # free /\ free \notin S
  BY <1>1 DEF OnlyCall, IsEvent
<1>4. ClientView(c, S) /\ Serves(w, c, S) /\ \A x \in S : x.ptr # c
  BY <1>3, ViewsMean DEF ClientView, Serves, free
<1>5. net[c].conn = "open" /\ \A v \in Worker : wi[v].ci = c => v = w
  BY <1>4 DEF ClientView
<1>6. Puttable(S, h, N)
  BY <1>1, <1>2, <1>3, <1>4 DEF Puttable, IsEvent
<1>7. /\ \A m \in Machine \ {w} : state'[m] = state[m]
      /\ state'[w] = b
      /\ \A x : Resting(x)' <=> Resting(x)
  BY <1>1, PoolSame DEF Typed
<1>8. StillFirst(S, N)
  <2>1. ASSUME NEW p \in Helper
        PROVE  Self(p, "M0") \notin N /\ state'[p] = state[p]
    BY <1>1, <1>2, <1>7, SelfFields, Kinships
  <2>. QED
    BY <2>1 DEF StillFirst
<1>9. ASSUME NEW p \in Helper
      PROVE  HelperInStep(p, T)'
  <2>1. HelperKept(p)
    BY <1>1, <1>7, Kinships DEF HelperKept
  <2>2. h.dst # p /\ \A y \in N : y.dst # p
    BY <1>1, <1>2
  <2>3. job[p] # NULL => state'[job[p]] = state[job[p]]
    BY <1>7, Kinships DEF Typed
  <2>. QED
    BY <2>1, <2>2, <2>3, HelperAside
<1>10. ASSUME NEW v \in Worker, v # w
       PROVE  WorkerView(v, T)'
  <2>1. WorkerKept(v) /\ \A p \in Helper : HelpsAsBefore(p, v)
    BY <1>7, <1>10, Kinships DEF WorkerKept, HelpsAsBefore
  <2>2. h.dst # v /\ h.dst \notin Helper /\ \A y \in N : y.dst # v /\ y.dst \notin Helper
    BY <1>1, <1>2, <1>10
  <2>. QED
    BY <2>1, <2>2, WorkerAside
<1>11. WorkerView(w, T)'
  <2>1. OnlyCall(w, free, T) /\ NoAsk(w, T)
    BY <1>1, <1>2 DEF OnlyCall, NoAsk
  <2>2. NoHelp(w)'
    BY DEF NoHelp
  <2>3. GoingOn(w, T)'
    BY <2>1, <2>2 DEF GoingOn, free, OnlyCall, NoAsk, IsEvent
  <2>. QED
    BY <1>7, <2>3 DEF WorkerView
<1>12. ASSUME NEW d \in Client, d # c
       PROVE  ClientView(d, T)'
  <2>1. h.ptr # d /\ \A y \in N : y.ptr # d
    BY <1>1, <1>2, <1>12, Kinships
  <2>2. \A v \in Worker : wi[v].ci = d => h # Self(v, "M3") /\ Self(v, "M3") \notin N
    BY <1>1, <1>2, <1>12, SelfFields
  <2>3. ClientKept(d)
    BY DEF ClientKept
  <2>. QED
    BY <2>1, <2>2, <2>3, ClientAside
<1>13. ClientView(c, T)'
  <2>1. \A x \in T : x.ptr = c => x = gone
    BY <1>1, <1>2, <1>4, Kinships
  <2>2. gone \in T /\ Self(w, "M3") \in T
    BY <1>2 DEF free
  <2>3. \A v \in Worker : ~ Serves(v, c, T)'
    BY <1>5, <2>2 DEF Serves
  <2>. QED
    BY <1>1, <1>5, <2>1, <2>2, <2>3 DEF ClientView
<1>14. SingleView(T)'
  <2>1. \A m \in Machine : h = Self(m, "M0") => state[m] # "init"
    BY SelfFields
  <2>2. \A x \in N \cup {h} : x.src = x.dst => x.src \notin {poolman, manager, listener}
    BY <1>1, <1>2, Kinships
  <2>3. SinglesKept
    BY <1>1, <1>7, Kinships DEF SinglesKept
  <2>. QED
    BY <2>1, <2>2, <2>3, SinglesAside
<1>15. EarlyOnly(T)'
  BY <1>6, EarlyFrame DEF Puttable
<1>. QED
  BY <1>6, <1>8, <1>9, <1>10, <1>11, <1>12, <1>13, <1>14, <1>15, AllViews

(* A machine that rests in a pool, and one that does not exist. *)
LEMMA RestsQuietly ==
  ASSUME NEW S, Views(S), NEW m \in Helper \cup Worker, Resting(m)
  PROVE  state[m] = "idle" /\ NoCall(m, S)
BY ViewsMean DEF HelperInStep, HelperView, WorkerView

LEMMA NotThere ==
  ASSUME NEW S, Views(S), NEW m \in Helper \cup Worker, state[m] = "none"
  PROVE  ~ Resting(m) /\ NoCall(m, S)
BY ViewsMean DEF HelperInStep, HelperView, WorkerView

(* The machine add_sm() created, and told to go to its pool. *)
LEMMA HelperCreated ==
  ASSUME NEW S, Views(S), NEW n \in Helper, state[n] = "none", NEW T,
         \A x : x.dst = n => (x \in T <=> x \in S \/ x = Self(n, "M0")),
         state'[n] = "init", io'[n] = io[n], job'[n] = job[n],
         n \in Rx => flags'[n] = flags[n] /\ timer'[n] = timer[n],
         Resting(n)' => Resting(n)
  PROVE  HelperInStep(n, T)'
<1>. DEFINE first == Self(n, "M0")
<1>1. /\ HelperInStep(n, S) /\ ~ Resting(n) /\ NoCall(n, S) /\ io[n].fd = NULL
      /\ io[n].watch = "none" /\ job[n] = NULL
      /\ first.dst = n /\ first.src = n /\ first.code = "M0" /\ n # NULL
  BY ViewsMean, NotThere, SelfFields, Kinships DEF HelperInStep, HelperView, LinkView
<1>. HIDE DEF first
<1>2. \A x \in T : x.dst = n => x = first
  BY <1>1 DEF NoCall, first, HelperInStep, HelperView
<1>3. OnlyCall(n, first, T)
  BY <1>1, <1>2 DEF OnlyCall, first
<1>4. HelperView(n, T)'
  BY <1>1, <1>2, <1>3 DEF HelperView, OnlyCall, IsEvent, What, first
<1>5. LinkView(n)'
  BY <1>1 DEF LinkView
<1>6. n \in Rx => RxView(n, T)'
  BY <1>1, <1>2 DEF HelperInStep, RxView, IsIoEvent
<1>7. n \in Tx => TxView(n, T)'
  BY <1>1, <1>2 DEF TxView, IsEvent
<1>. QED
  BY <1>4, <1>5, <1>6, <1>7, Kinships DEF HelperInStep

LEMMA WorkerCreated ==
  ASSUME NEW S, Views(S), NEW w \in Worker, state[w] = "none", NEW T,
         \A x : x.dst = w => (x \in T <=> x \in S \/ x = Self(w, "M0")),
         \A x : x.src = w /\ x.dst \in Helper => (x \in T <=> x \in S),
         state'[w] = "init", wi'[w].ci = wi[w].ci,
         Resting(w)' => Resting(w)
  PROVE  WorkerView(w, T)'
<1>. DEFINE first == Self(w, "M0")
<1>1. /\ WorkerView(w, S) /\ ~ Resting(w) /\ NoCall(w, S) /\ NoAsk(w, S) /\ wi[w].ci = NULL
      /\ first.dst = w
  BY ViewsMean, NotThere, SelfFields DEF WorkerView
<1>. HIDE DEF first
<1>2. OnlyCall(w, first, T)
  BY <1>1 DEF OnlyCall, NoCall, first
<1>3. NoAsk(w, T)
  BY <1>1 DEF NoAsk
<1>. QED
  BY <1>1, <1>2, <1>3 DEF WorkerView, NoAsk, OnlyCall, IsEvent, first


(* The message y, and those add_sm() sends to the machines it creates.      *)
Adding(y, Z) == {y} \cup {Self(z, "M0") : z \in Z}


(* A worker asks a helper from its pool; another may be created for that.   *)
LEMMA WorkerAsks ==
  ASSUME NEW S, S \subseteq Message, Views(S), Typed, \A x \in S : ~ IsEvent(x),
         NEW w \in Worker, state[w] # "init", NEW h \in S, h = Self(w, "M0"),
         OnlyCall(w, h, S), NoAsk(w, S), ~ Resting(w), wi[w].ci \in Client,
         \A p \in Helper : job[p] # w,
         NEW n \in Helper, Resting(n),
         NEW Z, Z \subseteq Helper, \A z \in Z : state[z] = "none",
         NEW ask, ask = Msg(w, n, w, "M1"),
         NEW N, N = Adding(ask, Z),
         NEW T, T = After(S, h, N),
         \A m \in Machine : state'[m] = IF m = w THEN Task(n)
                                        ELSE IF m \in Z THEN "init" ELSE state[m],
         UNCHANGED <<io, timer, job, flags, net>>,
         \A x : Resting(x)' <=> Resting(x) /\ x # n,
         \A v \in Worker \ {w} : wi'[v] = wi[v],
         wi'[w].ci = wi[w].ci, wi'[w].fd = wi[w].ci
  PROVE  Views(T)' /\ Puttable(S, h, N) /\ StillFirst(S, N)
<1>0. \A x : x \in N <=> x = ask \/ \E z \in Z : x = Self(z, "M0")
  BY DEF Adding
<1>1. /\ ask.src = w /\ ask.dst = n /\ ask.ptr = w /\ ask.code = "M1"
      /\ h.src = w /\ h.dst = w /\ h.ptr = NULL /\ h.code = "M0"
      /\ w \in Machine /\ w \notin Helper /\ w # NULL /\ n \in Machine /\ n \notin Worker
      /\ n # w /\ n # NULL /\ w \notin Client /\ Z \subseteq Machine /\ w \notin Z /\ NULL \notin Z
  BY SelfFields, MsgFields, Kinships
<1>2. Shape(ask) /\ \A z \in Z : Shape(Self(z, "M0"))
  BY <1>1, SelfFields, Kinships DEF Shape, CallShape, IsEvent
<1>3. \A x : x \in T <=> (x \in S /\ x # h) \/ x = ask \/ \E z \in Z : x = Self(z, "M0")
  BY <1>0 DEF After
<1>4. \A z \in Z : /\ Self(z, "M0").src = z /\ Self(z, "M0").dst = z
                   /\ Self(z, "M0").ptr = NULL /\ Self(z, "M0").code = "M0"
  BY SelfFields
<1>5. state[n] = "idle" /\ NoCall(n, S) /\ n \notin Z
  BY RestsQuietly
<1>6. Puttable(S, h, N)
  <2>1. ask \notin S
    BY <1>1, <1>5 DEF NoCall, IsEvent
  <2>2. ASSUME NEW z \in Z
        PROVE  Self(z, "M0") \notin S
    BY <1>1, <1>4, NotThere DEF NoCall, IsEvent
  <2>. QED
    BY <1>0, <1>1, <1>2, <1>4, <2>1, <2>2 DEF Puttable, IsEvent
<1>7. ASSUME NEW m \in Machine, m # w, m \notin Z
      PROVE  state'[m] = state[m]
  BY <1>7
<1>8. state'[w] = Task(n) /\ \A z \in Z : state'[z] = "init"
  BY <1>1
<1>9. StillFirst(S, N)
  <2>1. ASSUME NEW p \in Helper, state'[p] = "work" /\ io'[p].fd = NULL
        PROVE  state[p] = "work" /\ io[p].fd = NULL /\ job'[p] = job[p] /\ Self(p, "M0") \notin N
    <3>1. p \notin Z /\ p # w /\ p \in Machine
      BY <1>1, <1>8, <2>1, Kinships
    <3>2. Self(p, "M0") # ask /\ \A z \in Z : Self(p, "M0") # Self(z, "M0")
      BY <1>1, <1>4, <3>1, SelfFields
    <3>. QED
      BY <1>0, <1>7, <2>1, <3>1, <3>2
  <2>. QED
    BY <1>0, <2>1 DEF StillFirst
<1>10. ASSUME NEW p \in Helper, p # n, p \notin Z
       PROVE  HelperInStep(p, T)'
  <2>1. p # w /\ p \in Machine
    BY <1>1, Kinships
  <2>2. HelperKept(p)
    BY <1>7, <1>10, <2>1, Kinships DEF HelperKept
  <2>3. h.dst # p /\ \A y \in N : y.dst # p
    BY <1>0, <1>1, <1>4, <1>10, <2>1
  <2>4. job[p] # NULL => state'[job[p]] = state[job[p]] /\ wi'[job[p]].ci = wi[job[p]].ci
    BY <1>7, Kinships DEF Typed
  <2>. QED
    BY <2>2, <2>3, <2>4, HelperAside
<1>11. ASSUME NEW z \in Z
       PROVE  HelperInStep(z, T)'
  <2>1. \A x : x.dst = z => (x \in T <=> x \in S \/ x = Self(z, "M0"))
    BY <1>1, <1>3, <1>4, <1>5
  <2>2. z \in Helper /\ state'[z] = "init" /\ state[z] = "none" /\ (Resting(z)' => Resting(z))
    BY <1>8
  <2>. QED
    BY <2>1, <2>2, HelperCreated
<1>12. HelperInStep(n, T)'
  <2>1. HelperInStep(n, S)
    BY ViewsMean
  <2>2. /\ state'[n] = "idle" /\ io[n].fd = NULL /\ io[n].watch = "none" /\ job[n] = NULL
        /\ \A x \in S : x.dst # n
    BY <1>1, <1>5, <1>7, <2>1 DEF HelperInStep, HelperView, LinkView, NoCall
  <2>3. \A x \in T : x.dst = n => x = ask
    BY <1>3, <1>4, <1>5, <2>2
  <2>4. OnlyCall(n, ask, T)
    BY <1>3, <2>3 DEF OnlyCall
  <2>5. HelperView(n, T)'
    BY <1>1, <2>2, <2>3, <2>4 DEF HelperView, OnlyCall, IsEvent, What
  <2>6. LinkView(n)'
    BY <2>2 DEF LinkView
  <2>7. n \in Rx => RxView(n, T)'
    BY <1>1, <2>1, <2>2, <2>3 DEF HelperInStep, RxView, IsIoEvent
  <2>8. n \in Tx => TxView(n, T)'
    BY <1>1, <2>3 DEF TxView, IsEvent
  <2>. QED
    BY <2>5, <2>6, <2>7, <2>8, Kinships DEF HelperInStep
<1>13. ASSUME NEW v \in Worker, v # w
       PROVE  WorkerView(v, T)'
  <2>1. v \in Machine /\ v \notin Helper /\ v # n /\ v \notin Z
    BY Kinships
  <2>2. WorkerKept(v) /\ \A p \in Helper : HelpsAsBefore(p, v)
    BY <1>7, <1>13, <2>1 DEF WorkerKept, HelpsAsBefore
  <2>3. h.dst # v /\ h.src # v /\ \A y \in N : y.dst # v /\ y.src # v
    BY <1>0, <1>1, <1>4, <1>13, <2>1
  <2>. QED
    BY <2>2, <2>3, WorkerAside
<1>14. WorkerView(w, T)'
  <2>1. NoCall(w, T)
    BY <1>1, <1>3, <1>4 DEF NoCall, OnlyCall
  <2>2. OnlyAsk(w, ask, T)
    BY <1>1, <1>3, <1>4 DEF OnlyAsk, NoAsk
  <2>3. NoHelp(w)'
    BY DEF NoHelp
  <2>4. Asking(w, T)'
    BY <1>8, <2>1, <2>2, <2>3 DEF Asking, Task, NoCall, OnlyAsk, IsEvent
  <2>5. state'[w] \in {"getp", "ackp"} /\ ~ Resting(w)' /\ wi'[w].ci \in Client
    BY <1>8 DEF Task
  <2>. QED
    BY <2>4, <2>5 DEF WorkerView
<1>15. ASSUME NEW c \in Client
       PROVE  ClientView(c, T)'
  <2>1. h.ptr # c /\ \A y \in N : y.ptr # c
    BY <1>0, <1>1, <1>4, Kinships
  <2>2. \A v \in Worker : h # Self(v, "M3") /\ Self(v, "M3") \notin N
    BY <1>0, <1>1, <1>4, SelfFields
  <2>3. ClientKept(c) /\ \A v \in Worker : wi'[v].ci = c <=> wi[v].ci = c
    BY DEF ClientKept
  <2>. QED
    BY <2>1, <2>2, <2>3, ClientAside
<1>16. SingleView(T)'
  <2>1. \A m \in Machine : h = Self(m, "M0") => state[m] # "init"
    BY <1>1, SelfFields
  <2>2. \A x \in N \cup {h} : x.src = x.dst => x.src \notin {poolman, manager, listener}
    BY <1>0, <1>1, <1>4, Kinships
  <2>3. SinglesKept
    BY <1>1, <1>7, Kinships DEF SinglesKept
  <2>. QED
    BY <2>1, <2>2, <2>3, SinglesAside
<1>17. EarlyOnly(T)'
  BY <1>6, <1>0, EarlyFrame DEF Puttable
<1>. QED
  BY <1>6, <1>9, <1>10, <1>11, <1>12, <1>13, <1>14, <1>15, <1>16, <1>17, AllViews

(* An idle worker is told of a client by the manager. *)
LEMMA IdleTold ==
  ASSUME NEW S, Views(S), NEW h \in S, NEW w \in Worker, h.dst = w, ~ IsEvent(h),
         state[w] = "idle", h.code = "M1"
  PROVE  /\ h.ptr \in Client /\ h = Msg(manager, w, h.ptr, "M1")
         /\ OnlyCall(w, h, S) /\ NoAsk(w, S) /\ ~ Resting(w) /\ wi[w].ci = NULL
         /\ \A p \in Helper : job[p] # w
<1>1. WorkerView(w, S) /\ ~ NoCall(w, S) /\ w # NULL /\ h # Self(w, "M0")
  BY ViewsMean, SelfFields, Kinships DEF NoCall
<1>2. /\ NoAsk(w, S) /\ ~ Resting(w) /\ wi[w].ci = NULL
      /\ \E c \in Client : OnlyCall(w, Msg(manager, w, c, "M1"), S)
  BY <1>1 DEF WorkerView, OnlyCall
<1>3. PICK c \in Client : OnlyCall(w, Msg(manager, w, c, "M1"), S)
  BY <1>2
<1>4. h = Msg(manager, w, c, "M1") /\ h.ptr = c
  BY <1>3, MsgFields DEF OnlyCall
<1>5. \A p \in Helper : job[p] # w
  BY <1>1, ViewsMean DEF HelperInStep, LinkView, Task
<1>. QED
  BY <1>2, <1>3, <1>4, <1>5

LEMMA WorkerAccepts ==
  ASSUME NEW S, S \subseteq Message, Views(S), Typed, \A x \in S : ~ IsEvent(x),
         NEW w \in Worker, state[w] = "idle", NEW h \in S, h.dst = w, h.code = "M1",
         NEW c, c = h.ptr,
         NEW N, N = {Self(w, "M0")}, NEW T, T = After(S, h, N),
         UNCHANGED <<state, io, timer, pool, job, flags, net>>,
         \A v \in Worker \ {w} : wi'[v] = wi[v], wi'[w].ci = c
  PROVE  Views(T)' /\ Puttable(S, h, N) /\ StillFirst(S, N)
<1>. DEFINE next == Self(w, "M0")
<1>1. /\ c \in Client /\ h = Msg(manager, w, c, "M1") /\ OnlyCall(w, h, S) /\ NoAsk(w, S)
      /\ ~ Resting(w) /\ wi[w].ci = NULL /\ \A p \in Helper : job[p] # w
  BY IdleTold
<1>2. /\ next.src = w /\ next.dst = w /\ next.ptr = NULL /\ next.code = "M0"
      /\ h.src = manager /\ h.dst = w /\ h.ptr = c /\ h.code = "M1"
      /\ w \in Machine /\ w \notin Helper /\ w # NULL /\ c # NULL /\ Shape(next) /\ manager # w
  BY <1>1, SelfFields, MsgFields, Kinships DEF Shape, CallShape, IsEvent
<1>. HIDE DEF next
<1>3. N = {next} /\ \A x : x \in T <=> (x \in S /\ x # h) \/ x = next
  BY DEF next, After
<1>4. Puttable(S, h, N)
  BY <1>1, <1>2, <1>3 DEF Puttable, IsEvent, OnlyCall
<1>5. \A x : Resting(x)' <=> Resting(x)
  BY PoolSame
<1>6. StillFirst(S, N)
  <2>1. ASSUME NEW p \in Helper
        PROVE  Self(p, "M0") \notin N
    BY <1>2, <1>3, SelfFields
  <2>. QED
    BY <2>1 DEF StillFirst
<1>7. ASSUME NEW p \in Helper
      PROVE  HelperInStep(p, T)'
  <2>1. HelperKept(p)
    BY <1>5 DEF HelperKept
  <2>2. h.dst # p /\ \A y \in N : y.dst # p
    BY <1>2, <1>3
  <2>3. job[p] # NULL => state'[job[p]] = state[job[p]] /\ wi'[job[p]].ci = wi[job[p]].ci
    BY <1>1 DEF Typed
  <2>. QED
    BY <2>1, <2>2, <2>3, HelperAside
<1>8. ASSUME NEW v \in Worker, v # w
      PROVE  WorkerView(v, T)'
  <2>1. WorkerKept(v) /\ \A p \in Helper : HelpsAsBefore(p, v)
    BY <1>5, <1>8 DEF WorkerKept, HelpsAsBefore
  <2>2. h.dst # v /\ h.dst \notin Helper /\ \A y \in N : y.dst # v /\ y.dst \notin Helper
    BY <1>2, <1>3, <1>8
  <2>. QED
    BY <2>1, <2>2, WorkerAside
<1>9. WorkerView(w, T)'
  <2>1. OnlyCall(w, next, T) /\ NoAsk(w, T)
    BY <1>1, <1>2, <1>3 DEF OnlyCall, NoAsk
  <2>. QED
    BY <1>1, <1>5, <2>1 DEF WorkerView, next, OnlyCall, NoAsk, IsEvent
<1>10. ASSUME NEW d \in Client, d # c
       PROVE  ClientView(d, T)'
  <2>1. h.ptr # d /\ \A y \in N : y.ptr # d
    BY <1>2, <1>3, <1>10, Kinships
  <2>2. \A v \in Worker : h # Self(v, "M3") /\ Self(v, "M3") \notin N
    BY <1>2, <1>3, SelfFields
  <2>3. ClientKept(d) /\ \A v \in Worker : wi'[v].ci = d <=> wi[v].ci = d
    BY <1>1, <1>10, Kinships DEF ClientKept
  <2>. QED
    BY <2>1, <2>2, <2>3, ClientAside
<1>11. ClientView(c, T)'
  <2>1. /\ \A x \in S : x.ptr = c => x = h
        /\ net[c].conn = "open" /\ \A v \in Worker : wi[v].ci # c
    BY <1>1, <1>2, ViewsMean DEF ClientView
  <2>2. \A x \in T : x.ptr # c
    BY <1>1, <1>2, <1>3, <2>1, Kinships
  <2>3. \A v \in Worker : wi'[v].ci = c <=> v = w
    BY <2>1
  <2>4. Self(w, "M3") \notin T
    <3>1. Self(w, "M3").src = w /\ Self(w, "M3").dst = w /\ Self(w, "M3").code = "M3"
      BY SelfFields
    <3>. QED
      BY <1>1, <1>2, <1>3, <3>1 DEF OnlyCall, IsEvent
  <2>5. Serves(w, c, T)'
    BY <2>4 DEF Serves
  <2>. QED
    BY <2>1, <2>2, <2>3, <2>5 DEF ClientView
<1>12. SingleView(T)'
  <2>1. \A m \in Machine : h # Self(m, "M0")
    BY SelfFields
  <2>2. \A x \in N \cup {h} : x.src = x.dst => x.src \notin {poolman, manager, listener}
    BY <1>1, <1>2, <1>3, Kinships
  <2>3. SinglesKept
    BY DEF SinglesKept
  <2>. QED
    BY <2>1, <2>2, <2>3, SinglesAside
<1>13. EarlyOnly(T)'
  BY <1>4, EarlyFrame DEF Puttable
<1>. QED
  BY <1>4, <1>6, <1>7, <1>8, <1>9, <1>10, <1>11, <1>12, <1>13, AllViews

(* A worker that was created, or that gave its client up, goes to its pool. *)
LEMMA WorkerRests ==
  ASSUME NEW S, S \subseteq Message, Views(S), Typed, \A x \in S : ~ IsEvent(x),
         NEW w \in Worker, NEW h \in S, NEW a \in {"M0", "M3"}, h = Self(w, a),
         OnlyCall(w, h, S), NoAsk(w, S), a = "M3" \/ wi[w].ci = NULL,
         \A p \in Helper : job[p] # w,
         NEW N, N = {}, NEW T, T = After(S, h, N),
         state' = [state EXCEPT ![w] = "idle"], UNCHANGED <<io, timer, job, flags, net>>,
         \A v \in Worker \ {w} : wi'[v] = wi[v], wi'[w].ci = NULL,
         \A x : Resting(x)' <=> Resting(x) \/ x = w
  PROVE  Views(T)' /\ Puttable(S, h, N) /\ StillFirst(S, N)
<1>1. /\ h.src = w /\ h.dst = w /\ h.ptr = NULL /\ h.code = a
      /\ w \in Machine /\ w \notin Helper /\ w # NULL
      /\ \A x : x \in T <=> x \in S /\ x # h
  BY SelfFields, Kinships DEF After
<1>2. Puttable(S, h, N)
  BY DEF Puttable
<1>3. /\ \A m \in Machine \ {w} : state'[m] = state[m]
      /\ state'[w] = "idle"
  BY <1>1 DEF Typed
<1>4. StillFirst(S, N)
  <2>1. ASSUME NEW p \in Helper, state'[p] = "work" /\ io'[p].fd = NULL
        PROVE  state[p] = "work" /\ io[p].fd = NULL /\ job'[p] = job[p] /\ Self(p, "M0") \notin N
    BY <1>1, <1>3, <2>1, Kinships
  <2>. QED
    BY <2>1 DEF StillFirst
<1>5. ASSUME NEW p \in Helper
      PROVE  HelperInStep(p, T)'
  <2>1. HelperKept(p)
    BY <1>1, <1>3, Kinships DEF HelperKept
  <2>2. job[p] # NULL => state'[job[p]] = state[job[p]] /\ wi'[job[p]].ci = wi[job[p]].ci
    BY <1>3, Kinships DEF Typed
  <2>. QED
    BY <1>1, <2>1, <2>2, HelperAside
<1>6. ASSUME NEW v \in Worker, v # w
      PROVE  WorkerView(v, T)'
  <2>1. WorkerKept(v) /\ \A p \in Helper : HelpsAsBefore(p, v)
    BY <1>3, <1>6, Kinships DEF WorkerKept, HelpsAsBefore
  <2>. QED
    BY <1>1, <1>6, <2>1, WorkerAside
<1>7. WorkerView(w, T)'
  <2>1. NoCall(w, T) /\ NoAsk(w, T)
    BY <1>1 DEF OnlyCall, NoCall, NoAsk
  <2>. QED
    BY <1>3, <2>1 DEF WorkerView, NoCall, NoAsk, IsEvent
<1>8. ASSUME NEW c \in Client
      PROVE  ClientView(c, T)'
  <2>1. ClientView(c, S) /\ h.ptr # c /\ c # NULL
    BY <1>1, ViewsMean, Kinships
  <2>2. \A v \in Worker : wi'[v].ci = c <=> wi[v].ci = c /\ v # w
    BY <2>1
  <2>3. ASSUME NEW v \in Worker, v # w
        PROVE  Self(v, "M3") \in T <=> Self(v, "M3") \in S
    BY <1>1, <2>3, SelfFields
  <2>4. wi[w].ci = c => Self(w, "M3") \in S
    BY <2>1
  <2>5. \A x \in T : x \in S
    BY <1>1
  <2>6. \A v \in Worker : Serves(v, c, T)' <=> Serves(v, c, S)
    BY <2>2, <2>3, <2>4 DEF Serves
  <2>7. \A x : x.ptr = c => (x \in T <=> x \in S)
    BY <1>1, <2>1
  <2>8. /\ \A x, y \in T : x.ptr = c /\ y.ptr = c => x = y
        /\ \A u, v \in Worker : wi'[u].ci = c /\ wi'[v].ci = c => u = v
        /\ \A v \in Worker : wi'[v].ci = c => net'[c].conn \in {"open", "closed"}
    BY <2>1, <2>2, <2>5 DEF ClientView
  <2>9. /\ \A v \in Worker : Serves(v, c, T)' => net'[c].conn = "open"
        /\ net'[c].conn = "open" => (\E x \in T : x.ptr = c) \/ (\E v \in Worker : Serves(v, c, T)')
    BY <2>1, <2>6, <2>7 DEF ClientView
  <2>10. \A x \in T : x.ptr = c =>
            /\ net'[c].conn = "open"
            /\ \A v \in Worker : wi'[v].ci = c =>
                 Self(v, "M3") \in T /\ x.src # listener /\ x.dst \notin Worker
    BY <2>1, <2>2, <2>3, <2>5 DEF ClientView
  <2>. QED
    BY <2>8, <2>9, <2>10 DEF ClientView
<1>9. SingleView(T)'
  <2>1. SingleView(S) /\ \A m \in {poolman, manager, listener} : m # w /\ m \in Machine
    BY ViewsMean, Kinships
  <2>2. ASSUME NEW m \in {poolman, manager, listener}
        PROVE  state'[m] = state[m] /\ (Self(m, "M0") \in T <=> Self(m, "M0") \in S)
    <3>1. Self(m, "M0").dst = m
      BY SelfFields
    <3>. QED
      BY <1>1, <1>3, <2>1, <3>1
  <2>3. Started' <=> Started
    BY <2>2 DEF Started
  <2>4. ASSUME ~ Started, NEW x \in T
        PROVE  \E m \in Machine : x = Self(m, "M0") /\ state'[m] = "init"
    <3>1. PICK m \in Machine : x = Self(m, "M0") /\ state[m] = "init"
      BY <1>1, <2>1, <2>4 DEF SingleView
    <3>2. m # w
      BY <1>1, <3>1, SelfFields DEF OnlyCall, IsEvent
    <3>. QED
      BY <1>3, <3>1, <3>2
  <2>. QED
    BY <2>1, <2>2, <2>3, <2>4 DEF SingleView, Started
<1>10. EarlyOnly(T)'
  BY <1>2, EarlyFrame DEF Puttable
<1>. QED
  BY <1>2, <1>4, <1>5, <1>6, <1>7, <1>8, <1>9, <1>10, AllViews

-----------------------------------------------------------------------------
(* The manager, the listener, the pool manager. *)

(* What the manager is told: of a new client, or of one that is gone.       *)
LEMMA ManagerTold ==
  ASSUME NEW S, Views(S), NEW h \in S, h.dst = manager, ~ IsEvent(h), state[manager] = "work"
  PROVE  /\ h.ptr \in Client /\ h.src # manager
         /\ h.code = "M0" => h.src = listener
<1>1. CallShape(h) /\ h # Self(manager, "M0")
  BY ViewsMean, Kinships DEF Shape, SingleView
<1>2. ~ (\E m \in Machine : h = Self(m, "M0")) /\ ~ (\E w \in Worker : h = Self(w, "M3"))
  BY <1>1, SelfFields, Kinships
<1>3. \/ \E w \in Worker, c \in Client : h = Msg(w, manager, c, "M1")
      \/ \E c \in Client : h = Msg(listener, manager, c, "M0")
  BY <1>1, <1>2, MsgFields, Kinships DEF CallShape
<1>. QED
  BY <1>3, MsgFields, Kinships

(* What the listener is told: that a client is gone. *)
LEMMA ListenerTold ==
  ASSUME NEW S, Views(S), NEW h \in S, h.dst = listener, ~ IsEvent(h), Started
  PROVE  h.ptr \in Client /\ h.src = manager /\ h.code = "M0" /\ net[h.ptr].conn = "open"
<1>1. CallShape(h) /\ h # Self(listener, "M0")
  BY ViewsMean, Kinships DEF Shape, SingleView, Started
<1>2. ~ (\E m \in Machine : h = Self(m, "M0")) /\ ~ (\E w \in Worker : h = Self(w, "M3"))
  BY <1>1, SelfFields, Kinships
<1>3. \E c \in Client : h = Msg(manager, listener, c, "M0")
  BY <1>1, <1>2, MsgFields, Kinships DEF CallShape
<1>4. h.ptr \in Client /\ h.src = manager /\ h.code = "M0"
  BY <1>3, MsgFields
<1>. QED
  BY <1>4, ViewsMean DEF ClientView

(* The manager gives a new client to a worker; another may be created.      *)
LEMMA ClientGiven ==
  ASSUME NEW S, S \subseteq Message, Views(S), Typed, \A x \in S : ~ IsEvent(x),
         state[manager] = "work", NEW h \in S, h.dst = manager, h.code = "M0", NEW c, c = h.ptr,
         NEW w \in Worker, Resting(w),
         NEW Z, Z \subseteq Worker, \A z \in Z : state[z] = "none",
         NEW give, give = Msg(manager, w, c, "M1"),
         NEW N, N = Adding(give, Z),
         NEW T, T = After(S, h, N),
         \A m \in Machine : state'[m] = IF m \in Z THEN "init" ELSE state[m],
         UNCHANGED <<io, timer, job, flags, wi, net>>,
         \A x : Resting(x)' <=> Resting(x) /\ x # w
  PROVE  Views(T)' /\ Puttable(S, h, N) /\ StillFirst(S, N)
<1>0. \A x : x \in N <=> x = give \/ \E z \in Z : x = Self(z, "M0")
  BY DEF Adding
<1>1. /\ c \in Client /\ h.src = listener /\ h.dst = manager /\ h.ptr = c
      /\ give.src = manager /\ give.dst = w /\ give.ptr = c /\ give.code = "M1"
      /\ manager \in Machine /\ manager \notin Helper \cup Worker /\ manager # listener
      /\ manager # NULL /\ w \in Machine /\ w \notin Helper /\ c # NULL
      /\ Z \subseteq Machine /\ Z \cap Helper = {} /\ manager \notin Z /\ NULL \notin Z
  BY ManagerTold, MsgFields, Kinships
<1>2. Shape(give) /\ \A z \in Z : Shape(Self(z, "M0"))
  BY <1>1, SelfFields, Kinships DEF Shape, CallShape, IsEvent
<1>3. \A x : x \in T <=> (x \in S /\ x # h) \/ x = give \/ \E z \in Z : x = Self(z, "M0")
  BY <1>0 DEF After
<1>4. \A z \in Z : /\ Self(z, "M0").src = z /\ Self(z, "M0").dst = z
                   /\ Self(z, "M0").ptr = NULL /\ Self(z, "M0").code = "M0"
  BY SelfFields
<1>5. state[w] = "idle" /\ NoCall(w, S) /\ w \notin Z
  BY RestsQuietly
<1>6. Puttable(S, h, N)
  <2>1. give \notin S
    BY <1>1, <1>5 DEF NoCall, IsEvent
  <2>2. ASSUME NEW z \in Z
        PROVE  Self(z, "M0") \notin S
    BY <1>1, <1>4, NotThere DEF NoCall, IsEvent
  <2>. QED
    BY <1>0, <1>1, <1>2, <1>4, <2>1, <2>2 DEF Puttable, IsEvent
<1>7. ASSUME NEW m \in Machine, m \notin Z
      PROVE  state'[m] = state[m]
  BY <1>7
<1>8. \A z \in Z : state'[z] = "init"
  BY <1>1
<1>9. StillFirst(S, N)
  <2>1. ASSUME NEW p \in Helper
        PROVE  Self(p, "M0") \notin N /\ state'[p] = state[p]
    <3>1. p \in Machine /\ p \notin Z /\ p # manager
      BY <1>1, Kinships
    <3>2. Self(p, "M0") # give /\ \A z \in Z : Self(p, "M0") # Self(z, "M0")
      BY <1>1, <1>4, <3>1, SelfFields
    <3>. QED
      BY <1>0, <1>7, <3>1, <3>2
  <2>. QED
    BY <1>0, <2>1 DEF StillFirst
<1>10. ASSUME NEW p \in Helper
       PROVE  HelperInStep(p, T)'
  <2>1. p \in Machine /\ p # manager /\ p \notin Z /\ p # w
    BY <1>1, Kinships
  <2>2. HelperKept(p)
    BY <1>7, <2>1 DEF HelperKept
  <2>3. h.dst # p /\ \A y \in N : y.dst # p
    BY <1>0, <1>1, <1>4, <2>1
  <2>4. job[p] # NULL => state'[job[p]] = state[job[p]] /\ wi'[job[p]].ci = wi[job[p]].ci
    <3>1. HelperInStep(p, S)
      BY ViewsMean
    <3>2. job[p] # NULL => job[p] \in Machine /\ job[p] \notin Z
      BY <3>1, Kinships DEF Typed, HelperInStep, LinkView, Task
    <3>. QED
      BY <1>7, <3>2
  <2>. QED
    BY <2>2, <2>3, <2>4, HelperAside
<1>11. ASSUME NEW v \in Worker, v # w, v \notin Z
       PROVE  WorkerView(v, T)'
  <2>1. v \in Machine /\ v # manager
    BY <1>1, Kinships
  <2>2. WorkerKept(v) /\ \A p \in Helper : HelpsAsBefore(p, v)
    BY <1>7, <1>11, <2>1 DEF WorkerKept, HelpsAsBefore
  <2>3. h.dst # v /\ h.dst \notin Helper /\ \A y \in N : y.dst # v /\ y.dst \notin Helper
    BY <1>0, <1>1, <1>4, <1>11, <2>1
  <2>. QED
    BY <2>2, <2>3, WorkerAside
<1>12. ASSUME NEW z \in Z
       PROVE  WorkerView(z, T)'
  <2>1. z # w /\ z # manager /\ z \notin Helper /\ z \in Worker /\ z \in Machine
    BY <1>1, <1>5
  <2>2. \A x : x.dst = z => (x \in T <=> x \in S \/ x = Self(z, "M0"))
    BY <1>1, <1>3, <1>4, <2>1
  <2>3. \A x : x.src = z /\ x.dst \in Helper => (x \in T <=> x \in S)
    BY <1>1, <1>3, <1>4, <2>1
  <2>4. state'[z] = "init" /\ state[z] = "none" /\ (Resting(z)' => Resting(z))
    BY <1>8
  <2>. QED
    BY <2>1, <2>2, <2>3, <2>4, WorkerCreated
<1>13. WorkerView(w, T)'
  <2>1. WorkerView(w, S)
    BY ViewsMean
  <2>2. state'[w] = "idle" /\ ~ Resting(w)' /\ wi[w].ci = NULL /\ NoAsk(w, S)
        /\ \A x \in S : x.dst = w => IsEvent(x)
    BY <1>1, <1>5, <1>7, <2>1, Kinships DEF WorkerView, NoCall
  <2>3. OnlyCall(w, give, T)
    BY <1>1, <1>3, <1>4, <1>5, <2>2 DEF OnlyCall
  <2>4. NoAsk(w, T)
    BY <1>1, <1>3, <1>4, <1>5, <2>2 DEF NoAsk
  <2>. QED
    BY <1>1, <2>2, <2>3, <2>4 DEF WorkerView, NoAsk, OnlyCall, IsEvent
<1>14. ASSUME NEW d \in Client, d # c
       PROVE  ClientView(d, T)'
  <2>1. h.ptr # d /\ \A y \in N : y.ptr # d
    BY <1>0, <1>1, <1>4, <1>14, Kinships
  <2>2. \A v \in Worker : h # Self(v, "M3") /\ Self(v, "M3") \notin N
    BY <1>0, <1>1, <1>4, SelfFields, Kinships
  <2>3. ClientKept(d) /\ \A v \in Worker : wi'[v].ci = d <=> wi[v].ci = d
    BY DEF ClientKept
  <2>. QED
    BY <2>1, <2>2, <2>3, ClientAside
<1>15. ClientView(c, T)'
  <2>1. /\ \A x \in S : x.ptr = c => x = h
        /\ net[c].conn = "open" /\ \A v \in Worker : wi[v].ci # c
    BY <1>1, ViewsMean DEF ClientView
  <2>2. \A x \in T : x.ptr = c => x = give
    BY <1>1, <1>3, <1>4, <2>1, Kinships
  <2>3. give \in T
    BY <1>3
  <2>. QED
    BY <1>1, <2>1, <2>2, <2>3 DEF ClientView, Serves
<1>16. SingleView(T)'
  <2>1. \A m \in Machine : h # Self(m, "M0")
    BY <1>1, SelfFields
  <2>2. \A x \in N \cup {h} : x.src = x.dst => x.src \notin {poolman, manager, listener}
    BY <1>0, <1>1, <1>4, Kinships
  <2>3. SinglesKept
    BY <1>1, <1>7, Kinships DEF SinglesKept
  <2>. QED
    BY <2>1, <2>2, <2>3, SinglesAside
<1>17. EarlyOnly(T)'
  BY <1>6, <1>0, EarlyFrame DEF Puttable
<1>. QED
  BY <1>6, <1>9, <1>10, <1>11, <1>12, <1>13, <1>14, <1>15, <1>16, <1>17, AllViews

(* No machine changes. *)
LEMMA MachinesAside ==
  ASSUME NEW S, S \subseteq Message, Views(S), Typed, NEW h \in S,
         h.dst \notin Helper \cup Worker,
         NEW N, \A y \in N : y.dst \notin Helper \cup Worker, NEW T, T = After(S, h, N),
         UNCHANGED <<state, io, timer, pool, job, flags, wi>>
  PROVE  /\ \A p \in Helper : HelperInStep(p, T)'
         /\ \A v \in Worker : WorkerView(v, T)'
<1>1. \A x : Resting(x)' <=> Resting(x)
  BY PoolSame
<1>2. ASSUME NEW p \in Helper
      PROVE  HelperInStep(p, T)'
  <2>1. HelperKept(p)
    BY <1>1 DEF HelperKept
  <2>. QED
    BY <2>1, HelperAside
<1>3. ASSUME NEW v \in Worker
      PROVE  WorkerView(v, T)'
  <2>1. WorkerKept(v) /\ \A p \in Helper : HelpsAsBefore(p, v)
    BY <1>1 DEF WorkerKept, HelpsAsBefore
  <2>. QED
    BY <2>1, WorkerAside
<1>. QED
  BY <1>2, <1>3

(* A client without a worker, or given up by one, is sent to the listener.  *)
LEMMA ClientSentOff ==
  ASSUME NEW S, S \subseteq Message, Views(S), Typed, \A x \in S : ~ IsEvent(x),
         state[manager] = "work", NEW h \in S, h.dst = manager, NEW c, c = h.ptr,
         NEW N, N = {SeeOff(c)}, NEW T, T = After(S, h, N),
         UNCHANGED <<machineVars, net>>
  PROVE  Views(T)' /\ Puttable(S, h, N) /\ StillFirst(S, N)
<1>. DEFINE off == SeeOff(c)
<1>1. /\ c \in Client /\ h.src # manager
      /\ off.src = manager /\ off.dst = listener /\ off.ptr = c /\ off.code = "M0"
      /\ manager \in Machine /\ listener \in Machine /\ manager \notin Helper \cup Worker
      /\ listener \notin Helper \cup Worker /\ manager # listener /\ manager # NULL /\ c # NULL
  BY ManagerTold, MsgFields, Kinships DEF SeeOff
<1>2. Shape(off)
  BY <1>1 DEF Shape, CallShape, IsEvent, SeeOff
<1>. HIDE DEF off
<1>3. N = {off} /\ \A x : x \in T <=> (x \in S /\ x # h) \/ x = off
  BY DEF off, After
<1>4. UNCHANGED <<state, io, timer, pool, job, flags, wi>> /\ net' = net
  BY DEF machineVars
<1>5. /\ \A x \in S : x.ptr = c => x = h
      /\ net[c].conn = "open" /\ \A v \in Worker : wi[v].ci = c => Self(v, "M3") \in S
  BY <1>1, ViewsMean DEF ClientView
<1>6. Puttable(S, h, N)
  BY <1>1, <1>2, <1>3, <1>5 DEF Puttable, IsEvent
<1>7. StillFirst(S, N)
  <2>1. ASSUME NEW p \in Helper
        PROVE  Self(p, "M0") \notin N
    BY <1>1, <1>3, SelfFields
  <2>. QED
    BY <1>4, <2>1 DEF StillFirst
<1>8. /\ \A p \in Helper : HelperInStep(p, T)'
      /\ \A v \in Worker : WorkerView(v, T)'
  BY <1>1, <1>3, <1>4, MachinesAside
<1>9. ASSUME NEW d \in Client, d # c
      PROVE  ClientView(d, T)'
  <2>1. h.ptr # d /\ \A y \in N : y.ptr # d
    BY <1>1, <1>3, <1>9
  <2>2. \A v \in Worker : h # Self(v, "M3") /\ Self(v, "M3") \notin N
    BY <1>1, <1>3, SelfFields, Kinships
  <2>3. ClientKept(d) /\ \A v \in Worker : wi'[v].ci = d <=> wi[v].ci = d
    BY <1>4 DEF ClientKept
  <2>. QED
    BY <2>1, <2>2, <2>3, ClientAside
<1>10. ClientView(c, T)'
  <2>1. \A x \in T : x.ptr = c => x = off
    BY <1>3, <1>5
  <2>2. ASSUME NEW v \in Worker, wi[v].ci = c
        PROVE  Self(v, "M3") \in T
    <3>1. Self(v, "M3").dst = v /\ v # manager
      BY SelfFields, Kinships
    <3>. QED
      BY <1>3, <1>5, <2>2, <3>1
  <2>3. off \in T /\ ClientView(c, S)
    BY <1>1, <1>3, ViewsMean
  <2>. QED
    BY <1>1, <1>4, <1>5, <2>1, <2>2, <2>3 DEF ClientView, Serves
<1>11. SingleView(T)'
  <2>1. \A m \in Machine : h # Self(m, "M0")
    BY <1>1, SelfFields
  <2>2. \A x \in N \cup {h} : x.src = x.dst => x.src \notin {poolman, manager, listener}
    BY <1>1, <1>3
  <2>3. SinglesKept
    BY <1>4 DEF SinglesKept
  <2>. QED
    BY <2>1, <2>2, <2>3, SinglesAside
<1>12. EarlyOnly(T)'
  BY <1>6, EarlyFrame DEF Puttable
<1>. QED
  BY <1>6, <1>7, <1>8, <1>9, <1>10, <1>11, <1>12, AllViews

(* A connection is accepted: the manager is told. *)
LEMMA ClientAccepted ==
  ASSUME NEW S, S \subseteq Message, Views(S), Typed, NEW h \in S, h.dst = listener, IsEvent(h),
         NEW c \in Client, net[c].conn = "backlog",
         NEW N, N = {Msg(listener, manager, c, "M0")}, NEW T, T = After(S, h, N),
         UNCHANGED machineVars,
         \A d \in Client \ {c} : net'[d].conn = net[d].conn, net'[c].conn = "open"
  PROVE  Views(T)' /\ Puttable(S, h, N) /\ StillFirst(S, N)
<1>. DEFINE new == Msg(listener, manager, c, "M0")
<1>1. /\ new.src = listener /\ new.dst = manager /\ new.ptr = c /\ new.code = "M0"
      /\ manager \in Machine /\ listener \in Machine /\ manager \notin Helper \cup Worker
      /\ listener \notin Helper \cup Worker /\ manager # listener /\ listener # NULL /\ c # NULL
  BY MsgFields, Kinships
<1>2. Shape(new)
  BY <1>1 DEF Shape, CallShape, IsEvent
<1>. HIDE DEF new
<1>3. N = {new} /\ \A x : x \in T <=> (x \in S /\ x # h) \/ x = new
  BY DEF new, After
<1>4. UNCHANGED <<state, io, timer, pool, job, flags, wi>>
  BY DEF machineVars
<1>5. (\A x \in S : x.ptr # c) /\ \A v \in Worker : wi[v].ci # c
  BY ViewsMean DEF ClientView
<1>6. h.src = NULL /\ h.ptr = NULL
  BY ViewsMean, EventsMean
<1>7. Puttable(S, h, N)
  BY <1>1, <1>2, <1>3, <1>5 DEF Puttable, IsEvent
<1>8. StillFirst(S, N)
  <2>1. ASSUME NEW p \in Helper
        PROVE  Self(p, "M0") \notin N
    BY <1>1, <1>3, SelfFields
  <2>. QED
    BY <1>4, <2>1 DEF StillFirst
<1>9. /\ \A p \in Helper : HelperInStep(p, T)'
      /\ \A v \in Worker : WorkerView(v, T)'
  BY <1>1, <1>3, <1>4, MachinesAside
<1>10. ASSUME NEW d \in Client, d # c
       PROVE  ClientView(d, T)'
  <2>1. h.ptr # d /\ \A y \in N : y.ptr # d
    BY <1>1, <1>3, <1>6, <1>10, Kinships
  <2>2. \A v \in Worker : h # Self(v, "M3") /\ Self(v, "M3") \notin N
    BY <1>1, <1>3, <1>6, SelfFields, Kinships
  <2>3. ClientKept(d) /\ \A v \in Worker : wi'[v].ci = d <=> wi[v].ci = d
    BY <1>4, <1>10 DEF ClientKept
  <2>. QED
    BY <2>1, <2>2, <2>3, ClientAside
<1>11. ClientView(c, T)'
  BY <1>1, <1>3, <1>4, <1>5 DEF ClientView, Serves
<1>12. SingleView(T)'
  <2>1. \A m \in Machine : h # Self(m, "M0")
    BY <1>6, SelfFields, Kinships
  <2>2. \A x \in N \cup {h} : x.src = x.dst => x.src \notin {poolman, manager, listener}
    BY <1>1, <1>3, <1>6
  <2>3. SinglesKept
    BY <1>4 DEF SinglesKept
  <2>. QED
    BY <2>1, <2>2, <2>3, SinglesAside
<1>13. EarlyOnly(T)'
  BY <1>1, <1>3, <1>4, <1>7, ViewsMean, EarlyFrame DEF Puttable, Early
<1>. QED
  BY <1>7, <1>8, <1>9, <1>10, <1>11, <1>12, <1>13, AllViews

(* An event no machine follows up: accept() failed, or the program stops.   *)
LEMMA EventSpent ==
  ASSUME NEW S, S \subseteq Message, Views(S), Typed, NEW h \in S,
         h.dst \notin Helper \cup Worker, IsEvent(h),
         NEW N, N = {}, NEW T, T = After(S, h, N),
         UNCHANGED <<machineVars, net>>
  PROVE  Views(T)' /\ Puttable(S, h, N) /\ StillFirst(S, N)
<1>1. h.src = NULL /\ h.ptr = NULL /\ NULL \notin Machine
  BY ViewsMean, EventsMean, Kinships
<1>2. UNCHANGED <<state, io, timer, pool, job, flags, wi>> /\ net' = net
  BY DEF machineVars
<1>3. Puttable(S, h, N)
  BY DEF Puttable
<1>4. StillFirst(S, N)
  BY <1>2 DEF StillFirst
<1>5. /\ \A p \in Helper : HelperInStep(p, T)'
      /\ \A v \in Worker : WorkerView(v, T)'
  BY <1>2, MachinesAside
<1>6. ASSUME NEW d \in Client
      PROVE  ClientView(d, T)'
  <2>1. h.ptr # d /\ \A v \in Worker : h # Self(v, "M3")
    BY <1>1, SelfFields, Kinships
  <2>2. ClientKept(d) /\ \A v \in Worker : wi'[v].ci = d <=> wi[v].ci = d
    BY <1>2 DEF ClientKept
  <2>. QED
    BY <2>1, <2>2, ClientAside
<1>7. SingleView(T)'
  <2>1. \A m \in Machine : h # Self(m, "M0")
    BY <1>1, SelfFields
  <2>2. \A x \in N \cup {h} : x.src = x.dst => x.src \notin {poolman, manager, listener}
    BY <1>1, Kinships
  <2>3. SinglesKept
    BY <1>2 DEF SinglesKept
  <2>. QED
    BY <2>1, <2>2, <2>3, SinglesAside
<1>8. EarlyOnly(T)'
  BY <1>2, ViewsMean, EarlyFrame
<1>. QED
  BY <1>3, <1>4, <1>5, <1>6, <1>7, <1>8, AllViews

(* The listener closes the connection of a client that is gone. *)
LEMMA ClientClosed ==
  ASSUME NEW S, S \subseteq Message, Views(S), Typed, \A x \in S : ~ IsEvent(x),
         Started, NEW h \in S, h.dst = listener, NEW c, c = h.ptr,
         NEW N, N = {}, NEW T, T = After(S, h, N),
         UNCHANGED machineVars,
         \A d \in Client \ {c} : net'[d].conn = net[d].conn, net'[c].conn = "closed"
  PROVE  Views(T)' /\ Puttable(S, h, N) /\ StillFirst(S, N)
<1>1. /\ c \in Client /\ h.src = manager /\ manager # listener /\ manager \notin Worker
      /\ listener \notin Helper \cup Worker
  BY ListenerTold, Kinships
<1>2. UNCHANGED <<state, io, timer, pool, job, flags, wi>>
  BY DEF machineVars
<1>3. Puttable(S, h, N)
  BY DEF Puttable
<1>4. StillFirst(S, N)
  BY <1>2 DEF StillFirst
<1>5. /\ \A p \in Helper : HelperInStep(p, T)'
      /\ \A v \in Worker : WorkerView(v, T)'
  BY <1>1, <1>2, MachinesAside
<1>6. \A v \in Worker : h # Self(v, "M3")
  BY <1>1, SelfFields
<1>7. ASSUME NEW d \in Client, d # c
      PROVE  ClientView(d, T)'
  <2>1. ClientKept(d) /\ \A v \in Worker : wi'[v].ci = d <=> wi[v].ci = d
    BY <1>2, <1>7 DEF ClientKept
  <2>. QED
    BY <1>6, <1>7, <2>1, ClientAside
<1>8. ClientView(c, T)'
  <2>1. /\ \A x \in S : x.ptr = c => x = h
        /\ \A v \in Worker : wi[v].ci = c => Self(v, "M3") \in S
        /\ \A u, v \in Worker : wi[u].ci = c /\ wi[v].ci = c => u = v
    BY <1>1, ViewsMean DEF ClientView
  <2>2. \A x \in T : x.ptr # c
    BY <2>1 DEF After
  <2>3. \A v \in Worker : wi[v].ci = c => Self(v, "M3") \in T
    BY <1>6, <2>1 DEF After
  <2>. QED
    BY <1>2, <2>1, <2>2, <2>3 DEF ClientView, Serves
<1>9. SingleView(T)'
  <2>1. \A m \in Machine : h # Self(m, "M0")
    BY <1>1, SelfFields
  <2>2. \A x \in N \cup {h} : x.src = x.dst => x.src \notin {poolman, manager, listener}
    BY <1>1
  <2>3. SinglesKept
    BY <1>2 DEF SinglesKept
  <2>. QED
    BY <2>1, <2>2, <2>3, SinglesAside
<1>10. EarlyOnly(T)'
  BY <1>3, EarlyFrame DEF Puttable
<1>. QED
  BY <1>3, <1>4, <1>5, <1>7, <1>8, <1>9, <1>10, AllViews

(* A machine there is one of starts; the listener is the last to do so.     *)
LEMMA SingleStarts ==
  ASSUME NEW S, S \subseteq Message, Views(S), Typed, \A x \in S : ~ IsEvent(x),
         NEW m \in {poolman, manager, listener}, state[m] = "init",
         NEW h \in S, h.dst = m, h.code = "M0", m = listener => \A x \in S : x = h,
         NEW N, N = {}, NEW T, T = After(S, h, N),
         state' = [state EXCEPT ![m] = "work"],
         UNCHANGED <<timer, pool, job, flags, wi, net>>,
         \A p \in Helper : io'[p] = io[p],
         io'[listener] = IF m = listener THEN [fd |-> ListenSocket, watch |-> "POLLIN"]
                                         ELSE io[listener]
  PROVE  Views(T)' /\ Puttable(S, h, N) /\ StillFirst(S, N)
<1>1. /\ m \in Machine /\ m \notin Helper \cup Worker /\ manager \in Machine
      /\ poolman \in Machine /\ listener \in Machine /\ manager # listener
      /\ poolman # listener /\ poolman # manager
  BY Kinships
<1>2. SingleView(S) /\ ~ Started
  BY ViewsMean DEF SingleView, Started
<1>3. h = Self(m, "M0") /\ h.src = m /\ h.ptr = NULL
  BY <1>2, SelfFields DEF SingleView
<1>4. /\ \A p \in Machine \ {m} : state'[p] = state[p]
      /\ state'[m] = "work"
  BY <1>1 DEF Typed
<1>5. \A x : Resting(x)' <=> Resting(x)
  BY PoolSame
<1>6. Puttable(S, h, N)
  BY DEF Puttable
<1>7. StillFirst(S, N)
  <2>1. \A p \in Helper : state'[p] = state[p]
    BY <1>1, <1>4, Kinships
  <2>. QED
    BY <2>1 DEF StillFirst
<1>8. ASSUME NEW p \in Helper
      PROVE  HelperInStep(p, T)'
  <2>1. HelperKept(p)
    BY <1>1, <1>4, <1>5, Kinships DEF HelperKept
  <2>2. job[p] # NULL => state'[job[p]] = state[job[p]]
    BY <1>1, <1>4, Kinships DEF Typed
  <2>. QED
    BY <1>1, <2>1, <2>2, HelperAside
<1>9. ASSUME NEW v \in Worker
      PROVE  WorkerView(v, T)'
  <2>1. WorkerKept(v) /\ \A p \in Helper : HelpsAsBefore(p, v)
    BY <1>1, <1>4, <1>5, Kinships DEF WorkerKept, HelpsAsBefore
  <2>. QED
    BY <1>1, <2>1, WorkerAside
<1>10. ASSUME NEW c \in Client
       PROVE  ClientView(c, T)'
  <2>1. h.ptr # c /\ \A v \in Worker : h # Self(v, "M3")
    BY <1>1, <1>3, SelfFields, Kinships
  <2>2. ClientKept(c) /\ \A v \in Worker : wi'[v].ci = c <=> wi[v].ci = c
    BY DEF ClientKept
  <2>. QED
    BY <2>1, <2>2, ClientAside
<1>11. SingleView(T)'
  <2>1. ASSUME NEW p \in {poolman, manager, listener}, p # m
        PROVE  state'[p] = state[p] /\ (Self(p, "M0") \in T <=> Self(p, "M0") \in S)
    <3>1. Self(p, "M0").src = p
      BY SelfFields
    <3>. QED
      BY <1>1, <1>3, <1>4, <2>1, <3>1 DEF After
  <2>2. Self(m, "M0") \notin T
    BY <1>3 DEF After
  <2>3. \A p \in {poolman, manager, listener} :
           \/ state'[p] = "init" /\ Self(p, "M0") \in T
           \/ state'[p] = "work" /\ Self(p, "M0") \notin T
    BY <1>2, <1>4, <2>1, <2>2 DEF SingleView
  <2>4. Started' <=> m = listener
    BY <1>1, <1>2, <1>4 DEF Started
  <2>5. ASSUME m = listener
        PROVE  state'[manager] = "work" /\ state'[poolman] = "work"
    <3>1. \A p : Self(p, "M0") \in S => p = m
      BY <1>3, <2>5, SelfFields
    <3>2. \A p \in {poolman, manager, listener} : p # m => state[p] = "work"
      BY <1>2, <3>1 DEF SingleView
    <3>. QED
      BY <1>1, <1>4, <2>5, <3>2
  <2>6. ASSUME ~ Started', NEW x \in T
        PROVE  \E p \in Machine : x = Self(p, "M0") /\ state'[p] = "init"
    <3>1. x \in S /\ x # h
      BY DEF After
    <3>2. PICK p \in Machine : x = Self(p, "M0") /\ state[p] = "init"
      BY <1>2, <3>1 DEF SingleView
    <3>3. p # m
      BY <1>3, <3>1, <3>2
    <3>. QED
      BY <1>4, <3>2, <3>3
  <2>7. io'[listener] = IF Started' THEN [fd |-> ListenSocket, watch |-> "POLLIN"]
                                    ELSE [fd |-> NULL, watch |-> "none"]
    BY <1>2, <2>4 DEF SingleView
  <2>. QED
    BY <2>3, <2>4, <2>5, <2>6, <2>7 DEF SingleView
<1>12. EarlyOnly(T)'
  BY <1>6, EarlyFrame DEF Puttable
<1>. QED
  BY <1>6, <1>7, <1>8, <1>9, <1>10, <1>11, <1>12, AllViews

(* Machines that rest are deleted: nobody notices. *)
LEMMA MachinesDeleted ==
  ASSUME NEW S, S \subseteq Message, Views(S), Typed,
         NEW h \in S, h.dst = poolman, IsEvent(h),
         NEW G, \A x \in G : Resting(x) /\ x \in Helper \cup Worker,
         NEW N, N = {}, NEW T, T = After(S, h, N),
         state' = StateAfterDel(G), UNCHANGED <<io, job, flags, wi, net>>,
         \A p \in Rx : timer'[p] = timer[p],
         \A x : Resting(x)' <=> Resting(x) /\ x \notin G
  PROVE  Views(T)' /\ Puttable(S, h, N) /\ StillFirst(S, N)
<1>1. /\ h.src = NULL /\ h.ptr = NULL /\ NULL \notin Machine /\ NULL \notin Client
      /\ poolman \notin Helper \cup Worker /\ manager \notin Helper \cup Worker
      /\ listener \notin Helper \cup Worker
      /\ {poolman, manager, listener} \subseteq Machine
  BY ViewsMean, EventsMean, Kinships
<1>2. \A m \in Machine : state'[m] = IF m \in G THEN "none" ELSE state[m]
  BY DEF StateAfterDel
<1>3. \A m \in G : state[m] = "idle" /\ NoCall(m, S)
  BY RestsQuietly
<1>4. \A x : x \in T <=> x \in S /\ x # h
  BY DEF After
<1>5. Puttable(S, h, N)
  BY DEF Puttable
<1>6. StillFirst(S, N)
  <2>1. ASSUME NEW p \in Helper, state'[p] = "work"
        PROVE  state[p] = "work"
    BY <1>2, <2>1, Kinships
  <2>. QED
    BY <2>1 DEF StillFirst
<1>7. ASSUME NEW p \in Helper, p \notin G
      PROVE  HelperInStep(p, T)'
  <2>1. HelperKept(p)
    BY <1>2, <1>7, Kinships DEF HelperKept
  <2>2. HelperInStep(p, S)
    BY ViewsMean
  <2>3. job[p] # NULL => state'[job[p]] = state[job[p]]
    <3>1. ASSUME job[p] # NULL
          PROVE  job[p] \in Machine /\ state[job[p]] # "idle"
      BY <2>2, <3>1, Kinships DEF Typed, HelperInStep, LinkView, Task
    <3>. QED
      BY <1>2, <1>3, <3>1
  <2>. QED
    BY <1>1, <2>1, <2>3, HelperAside
<1>8. ASSUME NEW p \in Helper, p \in G
      PROVE  HelperInStep(p, T)'
  <2>1. HelperInStep(p, S) /\ p \in Machine
    BY ViewsMean, Kinships
  <2>2. /\ state'[p] = "none" /\ state[p] = "idle" /\ ~ Resting(p)'
        /\ io[p].fd = NULL /\ io[p].watch = "none" /\ job[p] = NULL
        /\ \A x \in T : x.dst # p
    BY <1>2, <1>3, <1>4, <1>8, <2>1 DEF HelperInStep, HelperView, LinkView, NoCall
  <2>3. HelperView(p, T)'
    BY <2>2 DEF HelperView, NoCall, What
  <2>4. LinkView(p)'
    BY <2>2 DEF LinkView
  <2>5. p \in Rx => RxView(p, T)'
    BY <2>1, <2>2 DEF HelperInStep, RxView, IsIoEvent
  <2>6. p \in Tx => TxView(p, T)'
    BY <2>2 DEF TxView
  <2>. QED
    BY <2>3, <2>4, <2>5, <2>6, Kinships DEF HelperInStep
<1>9. ASSUME NEW v \in Worker, v \notin G
      PROVE  WorkerView(v, T)'
  <2>1. WorkerKept(v) /\ \A p \in Helper : HelpsAsBefore(p, v)
    BY <1>2, <1>9, Kinships DEF WorkerKept, HelpsAsBefore
  <2>. QED
    BY <1>1, <2>1, WorkerAside
<1>10. ASSUME NEW v \in Worker, v \in G
       PROVE  WorkerView(v, T)'
  <2>1. WorkerView(v, S) /\ v \in Machine
    BY ViewsMean, Kinships
  <2>2. /\ state'[v] = "none" /\ state[v] = "idle" /\ ~ Resting(v)' /\ wi[v].ci = NULL
        /\ NoCall(v, S) /\ NoAsk(v, S)
    BY <1>2, <1>3, <1>10, <2>1, Kinships DEF WorkerView
  <2>3. NoCall(v, T) /\ NoAsk(v, T)
    BY <1>4, <2>2 DEF NoCall, NoAsk
  <2>. QED
    BY <2>2, <2>3 DEF WorkerView, NoCall, NoAsk, IsEvent
<1>11. ASSUME NEW c \in Client
       PROVE  ClientView(c, T)'
  <2>1. h.ptr # c /\ \A v \in Worker : h # Self(v, "M3")
    BY <1>1, SelfFields, Kinships
  <2>2. ClientKept(c) /\ \A v \in Worker : wi'[v].ci = c <=> wi[v].ci = c
    BY DEF ClientKept
  <2>. QED
    BY <2>1, <2>2, ClientAside
<1>12. SingleView(T)'
  <2>1. \A m \in Machine : h # Self(m, "M0")
    BY <1>1, SelfFields
  <2>2. \A x \in N \cup {h} : x.src = x.dst => x.src \notin {poolman, manager, listener}
    BY <1>1
  <2>3. SinglesKept
    BY <1>1, <1>2 DEF SinglesKept
  <2>. QED
    BY <2>1, <2>2, <2>3, SinglesAside
<1>13. EarlyOnly(T)'
  <2>1. ASSUME NEW p \in Helper, state[p] = "work"
        PROVE  state'[p] = "work"
    BY <1>2, <1>3, <2>1, Kinships
  <2>. QED
    BY <1>5, <2>1, ViewsMean, EarlyFrame DEF Puttable
<1>. QED
  BY <1>5, <1>6, <1>7, <1>8, <1>9, <1>10, <1>11, <1>12, <1>13, AllViews

-----------------------------------------------------------------------------
(* The world moves; the program waits for it. *)

LEMMA WorldKeeps ==
  ASSUME NEW S, Views(S), UNCHANGED <<state, io, pool, job, flags, wi>>,
         \A p \in Rx : \/ timer'[p] = timer[p]
                       \/ timer[p] = "armed" /\ timer'[p] = "expired",
         \A c \in Client : \/ net'[c].conn = net[c].conn
                           \/ net[c].conn = "new" /\ net'[c].conn = "backlog"
  PROVE  Views(S)'
<1>1. \A x : Resting(x)' <=> Resting(x)
  BY PoolSame
<1>2. /\ \A x \in S : Shape(x)'
      /\ IoOnce(S)' /\ EarlyOnly(S)' /\ SingleView(S)'
  BY ViewsMean
     DEF Shape, EventShape, CallShape, IsEvent, IoOnce, IsIoEvent, EarlyOnly, Early, SingleView, Started
<1>3. ASSUME NEW n \in Helper
      PROVE  HelperView(n, S)' /\ LinkView(n)'
  BY <1>1, ViewsMean, HelperFrame, LinkFrame DEF HelperInStep
<1>4. ASSUME NEW n \in Rx
      PROVE  RxView(n, S)'
  <2>1. RxView(n, S)
    BY ViewsMean, Kinships DEF HelperInStep
  <2>. QED
    BY <2>1 DEF RxView, IsIoEvent
<1>5. ASSUME NEW n \in Tx
      PROVE  TxView(n, S)'
  <2>1. TxView(n, S)
    BY ViewsMean, Kinships DEF HelperInStep
  <2>. QED
    BY <2>1 DEF TxView, IsEvent
<1>6. ASSUME NEW w \in Worker
      PROVE  WorkerView(w, S)'
  <2>1. \A n \in Helper : HelpsAsBefore(n, w)
    BY DEF HelpsAsBefore
  <2>. QED
    BY <1>1, <2>1, ViewsMean, WorkerFrame
<1>7. ASSUME NEW c \in Client
      PROVE  ClientView(c, S)'
  <2>1. ClientView(c, S)
    BY ViewsMean
  <2>. QED
    BY <2>1 DEF ClientView, Serves
<1>. QED
  BY <1>2, <1>3, <1>4, <1>5, <1>6, <1>7 DEF Views, Helper

LEMMA WorldInStep ==
  ASSUME NEW q, InStep(q), UNCHANGED <<state, io, pool, job, flags, wi>>,
         \A p \in Rx : \/ timer'[p] = timer[p]
                       \/ timer[p] = "armed" /\ timer'[p] = "expired",
         \A c \in Client : \/ net'[c].conn = net[c].conn
                           \/ net[c].conn = "new" /\ net'[c].conn = "backlog"
  PROVE  InStep(q)'
<1>1. Views(ToSet(q))'
  <2>. DEFINE S == ToSet(q)
  <2>1. Views(S)
    BY DEF InStep
  <2>. HIDE DEF S
  <2>2. Views(S)'
    BY <2>1, WorldKeeps
  <2>. QED
    BY <2>2 DEF S
<1>2. FinishFirst(q)' /\ ListenerLast(q)' /\ EventsFirst(q)' /\ IsInjective(q)'
  BY DEF InStep, FinishFirst, ListenerLast, EventsFirst, IsEvent, IsInjective, Started
<1>. QED
  BY <1>1, <1>2 DEF InStep

LEMMA ChannelTells ==
  ASSUME NEW m, NEW x \in ChannelEvents(m)
  PROVE  /\ x.src = NULL /\ x.dst = m /\ x.ptr = NULL /\ io[m].watch # "none"
         /\ x.code \in {"POLLIN", "POLLOUT", "POLLHUP"}
         /\ io[m].fd = ListenSocket => x.code = "POLLIN"
         /\ io[m].fd # ListenSocket => x.code \in {"POLLHUP", io[m].watch}
         /\ \A y \in ChannelEvents(m) : x = y
<1>. DEFINE fd == io[m].fd
            watch == io[m].watch
            codes ==
              IF watch = "none" THEN {}
              ELSE IF fd = ListenSocket
              THEN {"POLLIN" : c \in {d \in Client : net[d].conn = "backlog"}}
              ELSE IF net[fd].peer = "rst" THEN {"POLLHUP"}
              ELSE IF watch = "POLLIN" /\ (Unread(fd) > 0 \/ net[fd].peer = "fin") THEN {"POLLIN"}
              ELSE IF watch = "POLLOUT" /\ ~ net[fd].full THEN {"POLLOUT"}
              ELSE {}
<1>1. ChannelEvents(m) = {Msg(NULL, m, NULL, code) : code \in codes}
  BY DEF ChannelEvents
<1>2. PICK a \in codes : x = Msg(NULL, m, NULL, a)
  BY <1>1
<1>3. \A b \in codes : b = a
  OBVIOUS
<1>4. /\ io[m].watch # "none" /\ a \in {"POLLIN", "POLLOUT", "POLLHUP"}
      /\ io[m].fd = ListenSocket => a = "POLLIN"
      /\ io[m].fd # ListenSocket => a \in {"POLLHUP", io[m].watch}
  OBVIOUS
<1>. HIDE DEF codes, fd, watch
<1>5. \A y \in ChannelEvents(m) : x = y
  BY <1>1, <1>2, <1>3
<1>. QED
  BY <1>2, <1>4, <1>5, MsgFields

LEMMA ReadyMeans ==
  ASSUME NEW x \in Ready
  PROVE  \/ \E m \in Channel : x \in ChannelEvents(m)
         \/ \E m \in Timed : timer[m] = "expired" /\ x = Msg(NULL, m, NULL, "T0")
         \/ \E s \in sig : x = Msg(NULL, manager, NULL, s)
<1>. DEFINE C == UNION {ChannelEvents(m) : m \in Channel}
            M == {n \in Timed : timer[n] = "expired"}
            E == {Msg(NULL, m, NULL, "T0") : m \in M}
            G == {Msg(NULL, manager, NULL, s) : s \in sig}
<1>1. x \in C \/ x \in E \/ x \in G
  <2>1. Ready = C \cup E \cup G
    BY Zenon DEF Ready
  <2>. HIDE DEF C, M, E, G
  <2>. QED
    BY <2>1
<1>2. x \in C => \E m \in Channel : x \in ChannelEvents(m)
  OBVIOUS
<1>3. x \in E => \E m \in M : x = Msg(NULL, m, NULL, "T0")
  OBVIOUS
<1>4. x \in G => \E s \in sig : x = Msg(NULL, manager, NULL, s)
  OBVIOUS
<1>5. \A m \in M : m \in Timed /\ timer[m] = "expired"
  OBVIOUS
<1>. HIDE DEF C, M, E, G
<1>. QED
  BY <1>1, <1>2, <1>3, <1>4, <1>5

(* Nothing is pending: every machine rests, or waits for events. *)
LEMMA Calm ==
  ASSUME Views({}), Typed
  PROVE  /\ Started
         /\ \A m \in {poolman, manager, listener} : state[m] = "work"
         /\ io[listener] = [fd |-> ListenSocket, watch |-> "POLLIN"]
         /\ \A n \in Helper :
              /\ state[n] \in {"none", "idle", "work"}
              /\ state[n] # "work" => io[n].fd = NULL /\ io[n].watch = "none"
              /\ state[n] = "work" => /\ io[n].fd \in Client /\ io[n].watch = What(n)
                                      /\ ~ Resting(n)
         /\ \A n \in Rx : timer[n] # "off" => state[n] = "work"
<1>1. /\ Started
      /\ \A m \in {poolman, manager, listener} : state[m] = "work"
      /\ io[listener] = [fd |-> ListenSocket, watch |-> "POLLIN"]
  BY ViewsMean DEF SingleView, Started
<1>2. ASSUME NEW n \in Helper
      PROVE  /\ state[n] \in {"none", "idle", "work"}
             /\ state[n] # "work" => io[n].fd = NULL /\ io[n].watch = "none"
             /\ state[n] = "work" => /\ io[n].fd \in Client /\ io[n].watch = What(n)
                                     /\ ~ Resting(n)
  <2>1. HelperInStep(n, {})
    BY ViewsMean
  <2>2. ASSUME state[n] = "work"
        PROVE  io[n].fd # NULL /\ io[n].watch = What(n) /\ ~ Resting(n)
    BY <2>1, <2>2 DEF HelperInStep, HelperView, OnlyCall
  <2>3. io[n].fd # NULL => io[n].fd \in Client
    BY AtWork
  <2>4. /\ state[n] \in {"none", "idle", "work"}
        /\ state[n] # "work" => io[n].fd = NULL /\ io[n].watch = "none"
    BY <2>1 DEF HelperInStep, HelperView, OnlyCall
  <2>. QED
    BY <2>2, <2>3, <2>4
<1>3. \A n \in Rx : timer[n] # "off" => state[n] = "work"
  BY ViewsMean, Kinships DEF HelperInStep, RxView
<1>. QED
  BY <1>1, <1>2, <1>3

(* What an event is, when nothing else was pending. *)
LEMMA CalmEvents ==
  ASSUME Views({}), Typed, NEW x \in Ready
  PROVE  /\ x \in Message /\ x.src = NULL /\ EventShape(x)
         /\ x.dst \in Helper => state[x.dst] = "work"
         /\ x.code = "T0" => timer[x.dst] = "expired"
         /\ IsIoEvent(x) => x.dst \in Channel /\ x \in ChannelEvents(x.dst)
<1>1. CASE \E m \in Channel : x \in ChannelEvents(m)
  <2>1. PICK m \in Channel : x \in ChannelEvents(m)
    BY <1>1
  <2>2. /\ x.src = NULL /\ x.dst = m /\ x.ptr = NULL /\ io[m].watch # "none"
        /\ x.code \in {"POLLIN", "POLLOUT", "POLLHUP"}
        /\ io[m].fd = ListenSocket => x.code = "POLLIN"
        /\ io[m].fd # ListenSocket => x.code \in {"POLLHUP", io[m].watch}
    BY <2>1, ChannelTells
  <2>3. m = listener \/ m \in Helper
    BY Kinships
  <2>4. EventShape(x) /\ (m \in Helper => state[m] = "work")
    <3>1. CASE m = listener
      <4>1. io[m].fd = ListenSocket
        BY <3>1, Calm
      <4>. QED
        BY <2>2, <3>1, <4>1, Kinships DEF EventShape
    <3>2. CASE m \in Helper
      <4>1. state[m] = "work" /\ io[m].fd \in Client /\ io[m].watch = What(m)
        BY <2>2, <3>2, Calm
      <4>2. io[m].fd # ListenSocket
        BY <4>1, Kinships DEF ListenSocket
      <4>3. x.code \in {"POLLHUP", What(m)}
        BY <2>2, <4>1, <4>2
      <4>. QED
        BY <2>2, <3>2, <4>1, <4>3, Kinships DEF EventShape, What, Helper
    <3>. QED
      BY <2>3, <3>1, <3>2
  <2>5. x \in Message
    <3>1. PICK a : x = Msg(NULL, m, NULL, a)
      BY <2>1 DEF ChannelEvents
    <3>2. x.code = a /\ a \in Code0 /\ m \in Machine
      BY <2>2, <2>3, <3>1, MsgFields, Kinships DEF Code0
    <3>. QED
      BY <3>1, <3>2, MsgType
  <2>. QED
    BY <2>1, <2>2, <2>4, <2>5
<1>2. CASE \E m \in Timed : timer[m] = "expired" /\ x = Msg(NULL, m, NULL, "T0")
  <2>1. PICK m \in Timed : timer[m] = "expired" /\ x = Msg(NULL, m, NULL, "T0")
    BY <1>2
  <2>2. x.src = NULL /\ x.dst = m /\ x.ptr = NULL /\ x.code = "T0"
    BY <2>1, MsgFields
  <2>3. m \in Machine /\ (m \in Helper => m \in Rx) /\ (m \in Rx \/ m = poolman)
    BY Kinships
  <2>4. m \in Helper => state[m] = "work"
    BY <2>1, <2>3, Calm
  <2>5. x \in Message
    BY <2>1, <2>3, MsgType DEF Code0
  <2>. QED
    BY <2>1, <2>2, <2>3, <2>4, <2>5 DEF EventShape, IsIoEvent
<1>3. CASE \E s \in sig : x = Msg(NULL, manager, NULL, s)
  <2>1. PICK s \in sig : x = Msg(NULL, manager, NULL, s)
    BY <1>3
  <2>2. s \in Signals /\ s \in {"S0", "S1"}
    BY NamesAssumption DEF Typed
  <2>3. x.src = NULL /\ x.dst = manager /\ x.ptr = NULL /\ x.code = s
    BY <2>1, MsgFields
  <2>4. x \in Message
    BY <2>1, <2>2, MsgType, Kinships DEF Code0
  <2>. QED
    BY <2>2, <2>3, <2>4, Kinships DEF EventShape, IsIoEvent
<1>. QED
  BY <1>1, <1>2, <1>3, ReadyMeans

LEMMA EventsCome ==
  ASSUME Views({}), Typed, NEW T, \A x \in T : x \in Ready,
         UNCHANGED <<state, timer, pool, job, flags, wi, net>>,
         \A n \in Helper : /\ io'[n].fd = io[n].fd
                           /\ \/ io'[n].watch = io[n].watch
                              \/ /\ io'[n].watch = "none"
                                 /\ \E x \in T : x.dst = n /\ IsIoEvent(x),
         io'[listener] = io[listener]
  PROVE  Views(T)'
<1>1. \A x : Resting(x)' <=> Resting(x)
  BY PoolSame
<1>2. \A x \in T : /\ x \in Message /\ IsEvent(x) /\ EventShape(x) /\ x.src = NULL /\ x.ptr = NULL
                   /\ x.dst \in Helper => state[x.dst] = "work"
                   /\ x.code = "T0" => timer[x.dst] = "expired"
                   /\ IsIoEvent(x) => x.dst \in Channel /\ x \in ChannelEvents(x.dst)
  BY CalmEvents DEF IsEvent, EventShape
<1>3. (\A x \in T : Shape(x)') /\ IoOnce(T)'
  <2>1. \A x \in T : Shape(x)
    BY <1>2 DEF Shape
  <2>2. IoOnce(T)
    BY <1>2, ChannelTells DEF IoOnce
  <2>. QED
    BY <2>1, <2>2 DEF Shape, EventShape, CallShape, IsEvent, IoOnce, IsIoEvent
<1>4. EarlyOnly(T)'
  BY <1>2, Kinships DEF EarlyOnly, Early
<1>5. ASSUME NEW n \in Helper
      PROVE  HelperInStep(n, T)'
  <2>1. HelperInStep(n, {})
    BY ViewsMean
  <2>2. NoCall(n, T)
    BY <1>2 DEF NoCall
  <2>3. \A x \in T : x.dst = n => state[n] = "work"
    BY <1>2
  <2>4. io'[n].fd = io[n].fd /\ state'[n] = state[n]
    OBVIOUS
  <2>5. /\ state[n] \in {"none", "idle", "work"}
        /\ state[n] # "work" => /\ io[n].fd = NULL /\ io[n].watch = "none" /\ io'[n].watch = "none"
        /\ state[n] = "work" => /\ io[n].fd # NULL /\ io[n].watch = What(n) /\ ~ Resting(n)
                                /\ \/ io'[n].watch = What(n)
                                   \/ /\ io'[n].watch = "none"
                                      /\ \E x \in T : x.dst = n /\ IsIoEvent(x)
    <3>1. NULL \notin Client
      BY Kinships
    <3>. QED
      BY <2>3, <3>1, Calm
  <2>6. /\ state[n] = "idle" => Resting(n)
        /\ state[n] = "none" => ~ Resting(n)
    BY <2>1 DEF HelperInStep, HelperView, OnlyCall
  <2>7. HelperView(n, T)'
    BY <1>1, <2>2, <2>3, <2>4, <2>5, <2>6 DEF HelperView, NoCall, IsEvent, IsIoEvent, What
  <2>8. LinkView(n)'
    BY <2>1 DEF HelperInStep, LinkView, Task
  <2>9. n \in Rx => RxView(n, T)'
    BY <1>2, <2>1, <2>3, <2>4, <2>5 DEF HelperInStep, RxView, IsIoEvent
  <2>10. n \in Tx => TxView(n, T)'
    BY <1>2, <2>3, <2>4, <2>5 DEF TxView, IsEvent
  <2>. QED
    BY <2>7, <2>8, <2>9, <2>10 DEF HelperInStep
<1>6. ASSUME NEW w \in Worker
      PROVE  WorkerView(w, T)'
  <2>1. WorkerView(w, {})
    BY ViewsMean
  <2>2. NoCall(w, T) /\ NoAsk(w, T)
    BY <1>2, Kinships DEF NoCall, NoAsk
  <2>3. \A y : ~ OnlyCall(w, y, {}) /\ ~ OnlyAsk(w, y, {})
    BY DEF OnlyCall, OnlyAsk
  <2>4. /\ state[w] \in {"none", "idle", "getp", "ackp"}
        /\ state[w] = "none" => ~ Resting(w) /\ wi[w].ci = NULL
        /\ state[w] = "idle" => Resting(w) /\ wi[w].ci = NULL
        /\ state[w] \in {"getp", "ackp"} => ~ Resting(w) /\ wi[w].ci \in Client /\ Helped(w, {})
    BY <2>1, <2>3 DEF WorkerView, Asking, Answered, GoingOn
  <2>5. ASSUME state[w] \in {"getp", "ackp"}
        PROVE  Helped(w, T)'
    <3>1. PICK n \in Helper : Task(n) = state[w] /\ OnlyHelp(w, n)
      BY <2>4, <2>5 DEF Helped
    <3>2. OnlyHelp(w, n)'
      BY <3>1 DEF OnlyHelp
    <3>. QED
      BY <2>2, <3>1, <3>2 DEF Helped, Task, NoCall, NoAsk, IsEvent
  <2>. QED
    BY <1>1, <2>2, <2>4, <2>5 DEF WorkerView, NoCall, NoAsk, IsEvent
<1>7. ASSUME NEW c \in Client
      PROVE  ClientView(c, T)'
  <2>1. \A x \in T : x.ptr # c
    BY <1>2, Kinships
  <2>2. \A v \in Worker : Self(v, "M3") \notin T
    <3>1. \A v \in Worker : Self(v, "M3").src # NULL
      BY SelfFields, Kinships
    <3>. QED
      BY <1>2, <3>1
  <2>3. ClientView(c, {})
    BY ViewsMean
  <2>. QED
    BY <2>1, <2>2, <2>3 DEF ClientView, Serves
<1>8. SingleView(T)'
  <2>1. \A m \in {poolman, manager, listener} : Self(m, "M0") \notin T
    <3>1. \A m \in {poolman, manager, listener} : Self(m, "M0").src # NULL
      BY SelfFields, Kinships
    <3>. QED
      BY <1>2, <3>1
  <2>. QED
    BY <2>1, Calm DEF SingleView, Started
<1>. QED
  BY <1>3, <1>4, <1>5, <1>6, <1>7, <1>8 DEF Views, HelperInStep, Helper

-----------------------------------------------------------------------------
(* The order of the messages, and all of a step. *)

LEMMA FinishStaysFirst ==
  ASSUME NEW q \in Seq(Message), q # << >>, FinishFirst(q),
         NEW t \in Seq(Message), StillFirst(ToSet(q), ToSet(t)), NEW s, s = Tail(q) \o t
  PROVE  FinishFirst(s)'
<1>. DEFINE n == Len(q) - 1
<1>1. /\ n \in Nat /\ s \in Seq(Message) /\ Len(s) = n + Len(t)
      /\ \A i \in 1 .. n : s[i] = q[i + 1]
      /\ \A i \in 1 .. Len(t) : s[i + n] = t[i]
  BY Positions
<1>2. Len(q) = n + 1 /\ Len(q) \in Nat /\ Len(t) \in Nat
  BY Basics
<1>. HIDE DEF n
<1>3. DOMAIN q = 1 .. n + 1 /\ DOMAIN s = 1 .. n + Len(t)
  BY <1>1, <1>2, Basics
<1>4. /\ \A i \in 1 .. n + 1 : q[i] \in ToSet(q)
      /\ \A i \in 1 .. Len(t) : t[i] \in ToSet(t)
  BY <1>2, Basics
<1>5. ASSUME NEW i \in 1 .. n + Len(t)
      PROVE  \/ i \in 1 .. n /\ i + 1 \in 1 .. n + 1 /\ s[i] = q[i + 1] /\ s[i] \in ToSet(q)
             \/ i > n /\ s[i] \in ToSet(t)
  <2>1. CASE i \in 1 .. n
    <3>1. i + 1 \in 1 .. n + 1
      BY <1>1, <2>1
    <3>. QED
      BY <1>1, <1>4, <2>1, <3>1
  <2>2. ASSUME NEW j \in 1 .. Len(t), i = j + n
        PROVE  i > n /\ s[i] \in ToSet(t)
    <3>1. i > n
      BY <1>1, <1>2, <2>2
    <3>. QED
      BY <1>1, <1>4, <2>2, <3>1
  <2>3. i \in 1 .. n \/ \E j \in 1 .. Len(t) : i = j + n
    BY <1>1, <1>2, FromWhere, Zenon
  <2>. QED
    BY <2>1, <2>2, <2>3
<1>6. ASSUME NEW p \in Helper, state'[p] = "work", io'[p].fd = NULL,
             NEW j \in 1 .. n + Len(t), NEW k \in 1 .. n + Len(t),
             s[j] = Self(p, "M0"), s[k].dst = job'[p], s[k].src = job'[p]
      PROVE  j < k
  <2>1. s[k] \in ToSet(q) \cup ToSet(t)
    BY <1>5
  <2>2. state[p] = "work" /\ io[p].fd = NULL /\ job'[p] = job[p] /\ Self(p, "M0") \notin ToSet(t)
    BY <1>6, <2>1 DEF StillFirst
  <2>3. j \in 1 .. n /\ j + 1 \in 1 .. n + 1 /\ s[j] = q[j + 1]
    BY <1>5, <1>6, <2>2
  <2>4. CASE k > n
    BY <1>1, <2>3, <2>4
  <2>5. CASE k \in 1 .. n /\ k + 1 \in 1 .. n + 1 /\ s[k] = q[k + 1]
    <3>1. j + 1 < k + 1
      BY <1>3, <1>6, <2>2, <2>3, <2>5 DEF FinishFirst
    <3>. QED
      BY <2>3, <2>5, <3>1
  <2>. QED
    BY <1>5, <2>4, <2>5
<1>. QED
  BY <1>3, <1>6 DEF FinishFirst

LEMMA ListenerStaysLast ==
  ASSUME NEW q \in Seq(Message), q # << >>, IsInjective(q), ListenerLast(q),
         NEW t \in Seq(Message), NEW s, s = Tail(q) \o t,
         Started' \/ (~ Started /\ t = << >> /\ Head(q) # Self(listener, "M0"))
  PROVE  ListenerLast(s)'
<1>. SUFFICES ASSUME ~ Started'
              PROVE  s # << >> /\ s[Len(s)] = Self(listener, "M0")
  BY DEF ListenerLast
<1>. DEFINE n == Len(q) - 1
<1>1. /\ n \in Nat /\ s \in Seq(Message) /\ Len(s) = n + Len(t)
      /\ \A i \in 1 .. n : s[i] = q[i + 1]
  BY Positions
<1>2. Len(q) = n + 1 /\ Len(t) = 0 /\ Head(q) = q[1]
  BY Basics
<1>3. q[n + 1] = Self(listener, "M0")
  BY <1>2 DEF ListenerLast
<1>. HIDE DEF n
<1>4. n # 0
  BY <1>1, <1>2, <1>3
<1>5. n \in 1 .. n /\ Len(s) = n /\ s[n] = q[n + 1]
  BY <1>1, <1>2, <1>4
<1>6. s # << >>
  BY <1>1, <1>5, <1>4, EmptySeq
<1>. QED
  BY <1>3, <1>5, <1>6

(* A handler that keeps the views keeps the order. *)
LEMMA NextInStep ==
  ASSUME NEW q \in Seq(Message), q # << >>, InStep(q), NEW h, h = Head(q), NEW S, S = ToSet(q),
         NEW t \in Seq(Message), IsInjective(t), NEW N, N = ToSet(t),
         Views(After(S, h, N))' /\ Puttable(S, h, N) /\ StillFirst(S, N),
         t = << >> \/ state[h.dst] # "init",
         state'[listener] = state[listener] \/ Started',
         NEW s, s = Tail(q) \o t
  PROVE  s \in Seq(Message) /\ InStep(s)' /\ ToSet(s) = After(S, h, N)
<1>1. /\ IsInjective(q) /\ EventsFirst(q) /\ FinishFirst(q) /\ ListenerLast(q) /\ Views(S)
  BY DEF InStep
<1>2. h \in S
  BY Basics
<1>3. \A x \in ToSet(t) : ~ IsEvent(x) /\ (x \notin ToSet(q) \/ x = Head(q))
  BY DEF Puttable
<1>4. s \in Seq(Message) /\ IsInjective(s) /\ ToSet(s) = After(S, h, N)
  <2>1. /\ Tail(q) \o t \in Seq(Message) /\ IsInjective(Tail(q) \o t)
        /\ ToSet(Tail(q) \o t) = (ToSet(q) \ {Head(q)}) \cup ToSet(t)
    BY <1>1, <1>3, Dispatched
  <2>. QED
    BY <2>1 DEF After
<1>5. EventsFirst(s)
  BY <1>1, <1>3, EventsStayFirst
<1>6. FinishFirst(s)'
  BY <1>1, FinishStaysFirst
<1>7. ListenerLast(s)'
  <2>1. CASE ~ Started'
    <3>1. SingleView(After(S, h, N))'
      <4>. DEFINE T == After(S, h, N)
      <4>1. Views(T)'
        OBVIOUS
      <4>. HIDE DEF T
      <4>2. SingleView(T)'
        BY <4>1 DEF Views
      <4>. QED
        BY <4>2 DEF T
    <3>2. Self(listener, "M0") \in After(S, h, N)
      BY <2>1, <3>1 DEF SingleView, Started
    <3>3. ~ Started
      BY <2>1 DEF Started
    <3>4. \A m \in Machine : h = Self(m, "M0") => h.dst = m
      BY SelfFields
    <3>5. t = << >>
      <4>1. SingleView(S)
        BY <1>1, ViewsMean
      <4>2. \E m \in Machine : h = Self(m, "M0") /\ state[m] = "init"
        BY <1>2, <3>3, <4>1 DEF SingleView
      <4>. QED
        BY <3>4, <4>2
    <3>6. N = {}
      BY <3>5 DEF ToSet
    <3>7. Head(q) # Self(listener, "M0")
      BY <3>2, <3>6 DEF After
    <3>. QED
      BY <1>1, <3>3, <3>5, <3>7, ListenerStaysLast
  <2>2. CASE Started'
    BY <2>2 DEF ListenerLast
  <2>. QED
    BY <2>1, <2>2
<1>8. IsInjective(s)' /\ EventsFirst(s)'
  BY <1>4, <1>5 DEF IsInjective, EventsFirst, IsEvent
<1>9. Views(ToSet(s))'
  BY <1>4
<1>. QED
  BY <1>4, <1>6, <1>7, <1>8, <1>9 DEF InStep
=============================================================================
