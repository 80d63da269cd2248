-------------------------- MODULE EchoServerProofs --------------------------
(***************************************************************************)
(* The safety properties of the echo server, for any number of machines    *)
(* and clients, any pool sizes and any limits: what follows from its pools *)
(* being sound (PoolsSound) and its machines being in step                 *)
(* (MachinesStayInStep).                                                   *)
(***************************************************************************)
EXTENDS EchoInStepProofs

(* No pool ever holds more machines than its array has slots, and no shrink *)
(* takes the last slot: whatever the machines, the clients and the limits.  *)
THEOREM PoolsFit == Spec => []PoolFits
<1>1. PoolInv => PoolFits
  BY DEF PoolInv, SoundPool, PoolFits, avail
<1>. QED
  BY <1>1, PoolsSound, PTL

-----------------------------------------------------------------------------
(* What follows from the machines being in step: the types of the variables *)
(* and of what messages point to.                                           *)

LEMMA PointsRightly ==
  ASSUME NEW x, Shape(x)
  PROVE  x.ptr \in Pointees(x.src, x.dst)
<1>1. CASE IsEvent(x)
  BY <1>1, EventsMean DEF Pointees
<1>2. CASE CallShape(x)
  <2>1. ASSUME NEW m, NEW a, x = Self(m, a)
        PROVE  x.ptr \in Pointees(x.src, x.dst)
    BY <2>1, SelfFields DEF Pointees
  <2>2. ASSUME NEW w \in Worker, NEW n \in Helper, NEW a,
               x = Msg(w, n, w, a) \/ x = Msg(n, w, NULL, a)
        PROVE  x.ptr \in Pointees(x.src, x.dst)
    BY <2>2, MsgFields, Kinships DEF Pointees, Helper
  <2>3. ASSUME NEW c \in Client, NEW y \in Machine, NEW z \in Machine, NEW a,
               y # z, y \notin Helper, z \notin Helper, x = Msg(y, z, c, a)
        PROVE  x.ptr \in Pointees(x.src, x.dst)
    BY <2>3, MsgFields, Kinships DEF Pointees, Helper
  <2>4. \/ \E m \in Machine, a \in {"M0", "M3"} : x = Self(m, a)
        \/ \E w \in Worker, n \in Helper, a \in {"M1", "M2"} :
             x = Msg(w, n, w, a) \/ x = Msg(n, w, NULL, a)
        \/ \E c \in Client, y, z \in Machine, a \in {"M0", "M1"} :
             y # z /\ y \notin Helper /\ z \notin Helper /\ x = Msg(y, z, c, a)
    BY <1>2, Kinships DEF CallShape
  <2>. QED
    BY <2>1, <2>2, <2>3, <2>4
<1>. QED
  BY <1>1, <1>2 DEF Shape

LEMMA BuffersOfChunks ==
  ASSUME NEW s \in Seq(Chunk)
  PROVE  Buffers(s)
<1>1. ASSUME NEW k \in DOMAIN s
      PROVE  \E c \in Client : s[k] \in ChunkOf(c)
  <2>1. s[k] \in Chunk
    BY LenProperties
  <2>2. s[k].peer \in Client /\ s[k] \in ChunkOf(s[k].peer)
    BY <2>1 DEF Chunk, ChunkOf
  <2>. QED
    BY <2>2
<1>. QED
  BY <1>1 DEF Buffers

LEMMA ServerTypes ==
  ASSUME ServerInv
  PROVE  TypeOK
<1>1. PICK o : o = queue
  OBVIOUS
<1>2. o \in Seq(Message) /\ \A x \in ToSet(o) : Shape(x)
  BY <1>1 DEF ServerInv, Typed, StaysInStep
<1>3. ASSUME NEW k \in DOMAIN o
      PROVE  /\ o[k].src \in Machine \cup {NULL} /\ o[k].dst \in Machine
             /\ o[k].ptr \in Pointees(o[k].src, o[k].dst)
  <2>1. o[k] \in Message
    BY <1>2, LenProperties
  <2>2. Shape(o[k])
    BY <1>2 DEF ToSet
  <2>. QED
    BY <2>1, <2>2, PointsRightly DEF Message
<1>4. ASSUME NEW w \in Worker
      PROVE  /\ wi[w].ci \in Client \cup {NULL} /\ wi[w].fd \in Client \cup {NULL}
             /\ wi[w].buf \in {"ibuf", "obuf"}
             /\ Buffers(wi[w].ibuf) /\ Buffers(wi[w].obuf) /\ Buffers(wi[w].unsent)
  <2>1. wi[w] \in Info
    BY DEF ServerInv, Typed
  <2>. QED
    BY <2>1, BuffersOfChunks DEF Info
<1>5. ASSUME NEW c \in Client
      PROVE  /\ net[c].conn \in {"new", "backlog", "open", "closed"}
             /\ net[c].peer \in {"up", "fin", "rst"} /\ net[c].sent \in Seq(BOOLEAN)
             /\ net[c].nread \in 0 .. Len(net[c].sent) /\ Buffers(net[c].echoed)
  <2>1. net[c] \in Connection /\ net[c].nread <= Len(net[c].sent)
    BY DEF ServerInv, Typed
  <2>2. /\ net[c].conn \in {"new", "backlog", "open", "closed"}
        /\ net[c].peer \in {"up", "fin", "rst"} /\ net[c].sent \in Seq(BOOLEAN)
        /\ net[c].nread \in Nat /\ net[c].echoed \in Seq(Chunk)
    BY <2>1 DEF Connection
  <2>3. Len(net[c].sent) \in Nat
    BY <2>2, LenProperties
  <2>. QED
    BY <2>1, <2>2, <2>3, BuffersOfChunks
<1>. QED
  BY <1>1, <1>3, <1>4, <1>5 DEF TypeOK, ServerInv, Typed, Helper, IoChannel

LEMMA NothingDangles ==
  ASSUME ServerInv
  PROVE  NoDanglingMessage
BY DEF ServerInv, StaysInStep, Alive, NoDanglingMessage, ToSet

(* A machine that has a socket has it alone, and from a worker with a       *)
(* client that is there.                                                    *)
LEMMA SocketsInStep ==
  ASSUME NEW S, Views(S), Typed
  PROVE  FdExclusive
<1>1. ASSUME NEW m \in Helper, io[m].fd # NULL, NEW c, c = io[m].fd, NEW w, w = job[m]
      PROVE  /\ net[c].conn = "open" /\ w # NULL /\ wi[w].ci = c
             /\ state[w] = IF m \in Rx THEN "getp" ELSE "ackp"
             /\ \A n \in Helper \ {m} : io[n].fd # c
  <2>1. w \in Worker /\ state[w] = Task(m) /\ Helped(w, S) /\ OnlyHelp(w, m)
        /\ c \in Client /\ wi[w].ci = c
    BY <1>1, AtWork
  <2>2. Self(w, "M3") \notin S
    BY <2>1, SelfFields, Kinships DEF Helped, NoCall, IsEvent
  <2>3. net[c].conn = "open"
    BY <2>1, <2>2, ViewsMean DEF ClientView, Serves
  <2>4. ASSUME NEW n \in Helper, io[n].fd = c
        PROVE  n = m
    <3>1. io[n].fd # NULL
      BY <1>1, <2>4
    <3>2. job[n] \in Worker /\ wi[job[n]].ci = c
      BY <2>4, <3>1, AtWork
    <3>3. job[n] = w
      BY <2>1, <3>2, ViewsMean DEF ClientView
    <3>. QED
      BY <2>1, <3>1, <3>3 DEF OnlyHelp
  <2>. QED
    BY <2>1, <2>3, <2>4, Kinships DEF Task
<1>. QED
  BY <1>1 DEF FdExclusive, Helper

-----------------------------------------------------------------------------
(* Where no rx machine has been done twice: the pending messages themselves *)
(* are in step.                                                             *)

LEMMA TwiceAtTheEnd ==
  ASSUME queue \in Seq(Message), NEW m \in Rx, AtTheEnd(m)
  PROVE  DoneTwice
<1>1. PICK o : o = queue
  OBVIOUS
<1>2. Len(o) \in Nat \ {0} /\ DOMAIN o = 1 .. Len(o) /\ o[1] = Self(m, "M0")
  BY <1>1, Basics DEF AtTheEnd
<1>3. 1 \in DOMAIN o /\ o[1].dst = m
  BY <1>2, SelfFields
<1>4. 1 \in Pending(m)
  BY <1>1, <1>3 DEF Pending
<1>. QED
  BY <1>1, <1>2, <1>4 DEF DoneTwice, AtTheEnd

LEMMA TwiceAnswered ==
  ASSUME NEW q, NEW m \in Rx, AnsweredAgain(m, q)
  PROVE  DoneTwice
<1>1. PICK w \in Worker, live \in Seq(Message), after \in Seq(Message), more \in Seq(Message) :
        /\ queue = live \o more /\ AnswerBehind(m, w, live) /\ AnswerIn(m, w, more)
  BY AnswerKnown
<1>2. PICK o : o = queue
  OBVIOUS
<1>3. Len(more) >= 2 /\ more[2] = Self(m, "M0") /\ o = live \o more
  BY <1>1, <1>2 DEF AnswerIn
<1>4. /\ o \in Seq(Message) /\ Len(o) = Len(live) + Len(more)
      /\ Len(live) \in Nat /\ Len(more) \in Nat
      /\ \A i \in 1 .. Len(live) : i \in 1 .. Len(o) /\ o[i] = live[i]
      /\ \A i \in 1 .. Len(more) : i + Len(live) \in 1 .. Len(o) /\ o[i + Len(live)] = more[i]
  BY <1>3, JoinedAt
<1>10. PICK l \in Nat : l = Len(live)
  BY <1>4
<1>11. PICK k \in Nat : k = 2 + l
  BY <1>10
<1>5. k \in 1 .. Len(o) /\ o[k] = Self(m, "M0")
  <2>1. 2 \in 1 .. Len(more)
    BY <1>3, <1>4
  <2>. QED
    BY <1>3, <1>4, <1>10, <1>11, <2>1
<1>6. DOMAIN o = 1 .. Len(o)
  BY <1>5, LenProperties
<1>7. \A i \in 1 .. Len(o) : o[i] = Self(m, "M0") => i \in Pending(m)
  BY <1>2, <1>6, SelfFields DEF Pending
<1>8. CASE state[m] = "idle" /\ io[m].fd = NULL
  BY <1>2, <1>5, <1>7, <1>8 DEF DoneTwice
<1>9. CASE state[m] = "work" /\ Self(m, "M0") \in ToSet(live)
  <2>1. PICK j \in 1 .. l : live[j] = Self(m, "M0")
    BY <1>9, <1>10, Basics
  <2>4. j \in 1 .. Len(o) /\ o[j] = Self(m, "M0")
    BY <1>4, <1>10, <2>1
  <2>3. j # k
    BY <1>11
  <2>2. k \in Pending(m) /\ j \in Pending(m) /\ queue[k] = Self(m, "M0") /\ queue[j] = queue[k]
    BY <1>2, <1>5, <1>7, <2>4
  <2>. QED
    BY <1>9, <2>2, <2>3, Zenon DEF DoneTwice
<1>. QED
  BY <1>1, <1>8, <1>9 DEF AnswerBehind

LEMMA UsuallyInStep ==
  ASSUME ServerInv, ~ DoneTwice
  PROVE  InStep(queue)
<1>1. PICK q \in Seq(Message) : InStep(q) /\ (q = queue \/ Ruined(q))
  BY DEF ServerInv, StaysInStep
<1>2. ~ Ruined(q)
  BY TwiceAtTheEnd, TwiceAnswered DEF Ruined, ServerInv, Typed
<1>. QED
  BY <1>1, <1>2

(* Something is coming for m, in terms of the set of pending messages. *)
AwaitedIn(m, S) ==
  \/ \E x \in S : x.dst = m \/ x.ptr = m
  \/ m \in Channel /\ io[m].watch \in {"POLLIN", "POLLOUT"}
  \/ \E n \in Helper : job[n] = m

LEMMA AwaitedMeans ==
  ASSUME NEW m, NEW S, S = ToSet(queue)
  PROVE  IsAwaited(m) <=> AwaitedIn(m, S)
<1>1. PICK o : o = queue
  OBVIOUS
<1>2. \A x : x \in S <=> \E k \in DOMAIN o : o[k] = x
  BY <1>1 DEF ToSet
<1>3. (\E x \in S : x.dst = m) <=> Pending(m) # {}
  BY <1>1, <1>2 DEF Pending
<1>4. (\E x \in S : x.ptr = m) <=> \E k \in DOMAIN o : o[k].ptr = m
  BY <1>2
<1>. QED
  BY <1>1, <1>3, <1>4 DEF IsAwaited, AwaitedIn, Helper

(* A machine that points to a machine is a worker that asks. *)
LEMMA PointsToWorker ==
  ASSUME NEW x, Shape(x), x.ptr \in Machine
  PROVE  x.ptr \in Worker /\ x.src = x.ptr /\ x.dst \in Helper
<1>1. CallShape(x) /\ x.ptr # NULL
  BY EventsMean, Kinships DEF Shape
<1>2. /\ \A m : x # Self(m, "M0") /\ x # Self(m, "M3")
      /\ \A w, n, a : x # Msg(n, w, NULL, a)
      /\ \A y, z, c, a : c \in Client => x # Msg(y, z, c, a)
  BY <1>1, SelfFields, MsgFields, Kinships
<1>3. \E w \in Worker, n \in Helper : x = Msg(w, n, w, "M1")
  BY <1>1, <1>2 DEF CallShape
<1>. QED
  BY <1>3, MsgFields

LEMMA HelperQuiet ==
  ASSUME NEW S, Views(S), Typed, NEW n \in Helper, state[n] # "none"
  PROVE  /\ Resting(n) <=> ~ AwaitedIn(n, S)
         /\ Resting(n) => state[n] = "idle"
<1>1. HelperView(n, S) /\ n \in Channel /\ n \in Machine /\ n \notin Worker
  BY ViewsMean, Kinships DEF HelperInStep
<1>2. ASSUME Resting(n)
      PROVE  ~ AwaitedIn(n, S) /\ state[n] = "idle"
  <2>1. state[n] = "idle" /\ io[n].fd = NULL /\ io[n].watch = "none" /\ NoCall(n, S)
    BY <1>1, <1>2 DEF HelperView
  <2>2. \A x \in S : x.dst # n
    BY <1>1, <2>1 DEF HelperView, NoCall
  <2>3. \A x \in S : x.ptr # n
    BY <1>1, PointsToWorker, ViewsMean
  <2>4. \A p \in Helper : job[p] # n
    BY <1>1, Kinships DEF Typed
  <2>. QED
    BY <2>1, <2>2, <2>3, <2>4 DEF AwaitedIn
<1>3. ASSUME ~ Resting(n)
      PROVE  AwaitedIn(n, S)
  <2>1. CASE \E x \in S : x.dst = n
    BY <2>1 DEF AwaitedIn
  <2>2. CASE state[n] = "work" /\ io[n].fd # NULL /\ io[n].watch = What(n)
    BY <1>1, <2>2 DEF AwaitedIn, What
  <2>3. ASSUME NEW y, OnlyCall(n, y, S), y.dst = n
        PROVE  \E x \in S : x.dst = n
    BY <2>3 DEF OnlyCall
  <2>4. CASE state[n] = "init"
    BY <1>1, <2>1, <2>3, <2>4, SelfFields DEF HelperView
  <2>5. CASE state[n] = "idle"
    BY <1>1, <1>3, <2>1, <2>3, <2>5, SelfFields, MsgFields DEF HelperView
  <2>6. CASE state[n] = "work"
    BY <1>1, <2>1, <2>2, <2>3, <2>6, SelfFields DEF HelperView
  <2>. QED
    BY <1>1, <2>4, <2>5, <2>6 DEF HelperView
<1>. QED
  BY <1>2, <1>3

LEMMA WorkerQuiet ==
  ASSUME NEW S, Views(S), Typed, NEW w \in Worker, state[w] # "none"
  PROVE  /\ Resting(w) <=> ~ AwaitedIn(w, S)
         /\ Resting(w) => state[w] = "idle"
<1>1. WorkerView(w, S) /\ w \in Machine /\ w \notin Channel /\ w \notin Helper /\ w # NULL
  BY ViewsMean, Kinships
<1>2. ASSUME Resting(w)
      PROVE  ~ AwaitedIn(w, S) /\ state[w] = "idle"
  <2>1. state[w] = "idle" /\ NoCall(w, S) /\ NoAsk(w, S)
    BY <1>1, <1>2 DEF WorkerView
  <2>2. ASSUME NEW x \in S, x.dst = w
        PROVE  FALSE
    <3>1. Shape(x) /\ IsEvent(x)
      BY <2>1, <2>2, ViewsMean DEF NoCall
    <3>2. EventShape(x)
      BY <3>1, EventsMean
    <3>. QED
      BY <1>1, <2>2, <3>2, Kinships DEF EventShape
  <2>3. \A x \in S : x.ptr # w
    BY <1>1, <2>1, PointsToWorker, ViewsMean DEF NoAsk
  <2>4. ASSUME NEW p \in Helper, job[p] = w
        PROVE  FALSE
    <3>1. LinkView(p)
      BY ViewsMean DEF HelperInStep
    <3>. QED
      BY <1>1, <2>1, <2>4, <3>1 DEF LinkView, Task
  <2>. QED
    BY <1>1, <2>1, <2>2, <2>3, <2>4 DEF AwaitedIn
<1>3. ASSUME ~ Resting(w)
      PROVE  AwaitedIn(w, S)
  <2>1. CASE \E x \in S : x.dst = w \/ x.ptr = w
    BY <2>1 DEF AwaitedIn
  <2>2. CASE \E p \in Helper : job[p] = w
    BY <2>2 DEF AwaitedIn
  <2>3. ASSUME NEW y, OnlyCall(w, y, S), y.dst = w
        PROVE  \E x \in S : x.dst = w
    BY <2>3 DEF OnlyCall
  <2>4. CASE state[w] = "init"
    BY <1>1, <2>1, <2>3, <2>4, SelfFields DEF WorkerView
  <2>5. CASE state[w] = "idle"
    BY <1>1, <1>3, <2>1, <2>3, <2>5, SelfFields, MsgFields DEF WorkerView
  <2>6. CASE state[w] \in {"getp", "ackp"}
    <3>1. CASE Asking(w, S)
      BY <2>1, <3>1, MsgFields DEF Asking, OnlyAsk
    <3>2. CASE Helped(w, S)
      BY <2>2, <3>2 DEF Helped, OnlyHelp
    <3>3. CASE Answered(w, S)
      BY <2>1, <2>3, <3>3, MsgFields DEF Answered
    <3>4. CASE GoingOn(w, S)
      BY <2>1, <2>3, <3>4, SelfFields DEF GoingOn
    <3>. QED
      BY <1>1, <2>6, <3>1, <3>2, <3>3, <3>4 DEF WorkerView
  <2>. QED
    BY <1>1, <2>4, <2>5, <2>6 DEF WorkerView
<1>. QED
  BY <1>2, <1>3

LEMMA RestersAreThere ==
  ASSUME NEW S, Views(S), NEW m \in Helper \cup Worker, Resting(m)
  PROVE  state[m] # "none"
<1>1. CASE m \in Helper
  BY <1>1, ViewsMean DEF HelperInStep, HelperView
<1>2. CASE m \in Worker
  BY <1>2, ViewsMean DEF WorkerView
<1>. QED
  BY <1>1, <1>2

LEMMA PoolsInStep ==
  ASSUME ServerInv
  PROVE  PooledIffQuiet
<1>. SUFFICES ASSUME ~ DoneTwice, NEW k \in Kinds
     PROVE  /\ IsInjective(pool[k].items)
            /\ \A m \in Members[k] :
                 state[m] # "none" => ((m \in ToSet(pool[k].items)) # IsAwaited(m))
            /\ \A m \in ToSet(pool[k].items) : state[m] = "idle"
  BY DEF PooledIffQuiet
<1>1. PICK S : S = ToSet(queue)
  OBVIOUS
<1>2. Views(S) /\ Typed /\ PoolShape
  BY <1>1, UsuallyInStep DEF InStep, ServerInv
<1>3. IsInjective(pool[k].items) /\ ToSet(pool[k].items) \subseteq Members[k]
  BY <1>2 DEF PoolShape
<1>4. ASSUME NEW m \in Members[k], state[m] # "none"
      PROVE  /\ Resting(m) <=> ~ AwaitedIn(m, S)
             /\ Resting(m) => state[m] = "idle"
  <2>1. m \in Helper \cup Worker
    BY KindOf
  <2>. QED
    BY <1>2, <1>4, <2>1, HelperQuiet, WorkerQuiet
<1>5. ASSUME NEW m \in Members[k], state[m] # "none"
      PROVE  (m \in ToSet(pool[k].items)) # IsAwaited(m)
  <2>1. IsAwaited(m) <=> AwaitedIn(m, S)
    BY <1>1, AwaitedMeans
  <2>2. Resting(m) <=> m \in ToSet(pool[k].items)
    BY <1>2, OnePool
  <2>3. (m \in ToSet(pool[k].items)) <=> ~ IsAwaited(m)
    BY <1>4, <1>5, <2>1, <2>2
  <2>4. IsAwaited(m) \in BOOLEAN
    BY DEF IsAwaited
  <2>. QED
    BY <2>3, <2>4
<1>6. ASSUME NEW m \in ToSet(pool[k].items)
      PROVE  state[m] = "idle"
  <2>1. m \in Members[k] /\ Resting(m)
    BY <1>3 DEF Resting
  <2>2. m \in Helper \cup Worker
    BY <2>1, KindOf
  <2>3. state[m] # "none"
    BY <1>2, <2>1, <2>2, RestersAreThere
  <2>. QED
    BY <1>4, <2>1, <2>3
<1>. QED
  BY <1>3, <1>5, <1>6

(* A connection has the one holder it has exactly while it is open. *)
LEMMA ClientsInStep ==
  ASSUME ServerInv
  PROVE  ClientHasOneHolder
<1>. SUFFICES ASSUME ~ DoneTwice, NEW c \in Client
     PROVE  Cardinality(Holders(c)) = IF net[c].conn = "open" THEN 1 ELSE 0
  BY DEF ClientHasOneHolder
<1>1. PICK o : o = queue
  OBVIOUS
<1>2. PICK S : S = ToSet(o)
  OBVIOUS
<1>3. IsInjective(o) /\ ClientView(c, S)
  BY <1>1, <1>2, UsuallyInStep, ViewsMean DEF InStep
<1>4. \A x : x \in S <=> \E k \in DOMAIN o : o[k] = x
  BY <1>2 DEF ToSet
<1>5. \A y : y \in Holders(c) <=> \/ y \in DOMAIN o /\ o[y].ptr = c
                                  \/ y \in Worker /\ Serves(y, c, S)
  BY <1>1, <1>2 DEF Holders, Serves
<1>6. CASE net[c].conn # "open"
  <2>1. Holders(c) = {}
    BY <1>3, <1>4, <1>5, <1>6 DEF ClientView
  <2>. QED
    BY <1>6, <2>1, FS_EmptySet
<1>7. ASSUME net[c].conn = "open", NEW x \in S, x.ptr = c
      PROVE  Cardinality(Holders(c)) = 1
  <2>1. PICK k \in DOMAIN o : o[k] = x
    BY <1>4, <1>7
  <2>2. \A j \in DOMAIN o : o[j].ptr = c => j = k
    BY <1>3, <1>4, <1>7, <2>1 DEF ClientView, IsInjective
  <2>3. \A w \in Worker : ~ Serves(w, c, S)
    BY <1>3, <1>7 DEF ClientView, Serves
  <2>4. Holders(c) = {k}
    BY <1>5, <1>7, <2>1, <2>2, <2>3
  <2>. QED
    BY <2>4, FS_Singleton
<1>8. ASSUME net[c].conn = "open", \A x \in S : x.ptr # c
      PROVE  Cardinality(Holders(c)) = 1
  <2>1. PICK w \in Worker : Serves(w, c, S)
    BY <1>3, <1>8 DEF ClientView
  <2>2. \A v \in Worker : Serves(v, c, S) => v = w
    BY <1>3, <2>1 DEF ClientView, Serves
  <2>3. Holders(c) = {w}
    BY <1>4, <1>5, <1>8, <2>1, <2>2
  <2>. QED
    BY <2>3, FS_Singleton
<1>. QED
  BY <1>6, <1>7, <1>8

-----------------------------------------------------------------------------
(* Every message that is handled meets a reflex of its machine.             *)

Meets(h) == <<state[h.dst], Code(h)>> \in Reflexes[Kind(h.dst)]

LEMMA KindsAre ==
  /\ \A m \in Rx : Kind(m) = "rx"
  /\ \A m \in Tx : Kind(m) = "tx"
  /\ \A m \in Worker : Kind(m) = "worker"
  /\ Kind(poolman) = "poolman" /\ Kind(manager) = "manager" /\ Kind(listener) = "listener"
<1>1. /\ \A m \in Rx : Kind(m) = "rx"
      /\ \A m \in Tx : Kind(m) = "tx"
      /\ \A m \in Worker : Kind(m) = "worker"
  <2>1. Members["rx"] = Rx /\ Members["tx"] = Tx /\ Members["worker"] = Worker
    BY DEF Members
  <2>. QED
    BY <2>1, KindOf DEF Kinds
<1>2. Kind(poolman) = "poolman"
  BY NamesAssumption DEF Kind
<1>3. Kind(manager) = "manager"
  BY NamesAssumption DEF Kind
<1>4. Kind(listener) = "listener"
  BY NamesAssumption DEF Kind
<1>. QED
  BY <1>1, <1>2, <1>3, <1>4

LEMMA ReflexesAre ==
  /\ Reflexes["rx"] = rx_smd /\ Reflexes["tx"] = tx_smd /\ Reflexes["worker"] = worker_smd
  /\ Reflexes["poolman"] = poolman_smd /\ Reflexes["manager"] = manager_smd
  /\ Reflexes["listener"] = listener_smd
BY DEF Reflexes

(* What a message says when it is handled. *)
LEMMA EventSays ==
  ASSUME NEW x, Shape(x), IsEvent(x)
  PROVE  /\ x.dst \in Rx => Code(x) \in {"D0", "D2", "T0"}
         /\ x.dst \in Tx => Code(x) \in {"D1", "D2"}
         /\ x.dst \notin Worker
         /\ x.dst = poolman => Code(x) = "T0"
         /\ x.dst = manager => Code(x) \in {"S0", "S1"}
         /\ x.dst = listener => Code(x) = "D0"
<1>1. EventShape(x)
  BY EventsMean
<1>2. x.code = "POLLHUP" => Code(x) = "D2"
  BY DEF Code
<1>3. x.code = "POLLOUT" => Code(x) = "D1"
  BY DEF Code
<1>4. x.code = "POLLIN" => Code(x) \in {"D0", "D2"} /\ (x.dst = listener => Code(x) = "D0")
  BY DEF Code
<1>5. x.code \in {"T0", "S0", "S1"} => Code(x) = x.code
  BY DEF Code
<1>. QED
  BY <1>1, <1>2, <1>3, <1>4, <1>5, Kinships, NamesAssumption DEF EventShape

LEMMA HelperMeets ==
  ASSUME NEW S, Views(S), NEW h \in S, h.dst \in Helper
  PROVE  Meets(h)
<1>. DEFINE m == h.dst
<1>1. HelperView(m, S) /\ Shape(h)
  BY ViewsMean DEF HelperInStep
<1>2. m \in Rx => Kind(m) = "rx" /\ {<<"init", "M0">>, <<"idle", "M1">>, <<"idle", "M0">>,
                  <<"work", "D0">>, <<"work", "D2">>, <<"work", "T0">>, <<"work", "M0">>}
                  \subseteq Reflexes["rx"]
  BY KindsAre, ReflexesAre DEF rx_smd
<1>3. m \in Tx => Kind(m) = "tx" /\ {<<"init", "M0">>, <<"idle", "M1">>, <<"idle", "M0">>,
                  <<"work", "D1">>, <<"work", "D2">>, <<"work", "M0">>}
                  \subseteq Reflexes["tx"]
  BY KindsAre, ReflexesAre DEF tx_smd
<1>4. CASE IsEvent(h)
  <2>1. state[m] = "work"
    BY <1>1, <1>4 DEF HelperView
  <2>2. m \in Rx => Code(h) \in {"D0", "D2", "T0"}
    BY <1>1, <1>4, EventSays
  <2>3. m \in Tx => Code(h) \in {"D1", "D2"}
    BY <1>1, <1>4, EventSays
  <2>. QED
    BY <1>2, <1>3, <2>1, <2>2, <2>3 DEF Meets, Helper
<1>5. CASE ~ IsEvent(h)
  <2>1. ~ NoCall(m, S)
    BY <1>5 DEF NoCall
  <2>2. ASSUME NEW y, OnlyCall(m, y, S)
        PROVE  h = y
    BY <1>5, <2>2 DEF OnlyCall
  <2>3. \/ state[m] \in {"init", "work", "idle"} /\ h = Self(m, "M0")
        \/ state[m] = "idle" /\ \E w \in Worker : h = Msg(w, m, w, "M1")
    BY <1>1, <2>1, <2>2 DEF HelperView
  <2>4. \/ state[m] \in {"init", "work", "idle"} /\ Code(h) = "M0"
        \/ state[m] = "idle" /\ Code(h) = "M1"
    BY <2>3, SelfFields, MsgFields DEF Code
  <2>. QED
    BY <1>2, <1>3, <2>4 DEF Meets, Helper
<1>. QED
  BY <1>4, <1>5

LEMMA WorkerMeets ==
  ASSUME NEW S, Views(S), NEW h \in S, h.dst \in Worker
  PROVE  Meets(h)
<1>. DEFINE w == h.dst
<1>1. WorkerView(w, S) /\ Shape(h)
  BY ViewsMean
<1>2. Kind(w) = "worker" /\ {<<"init", "M0">>, <<"idle", "M1">>, <<"idle", "M0">>}
                              \cup ({"getp", "ackp"} \X {"M0", "M1", "M2", "M3"})
                              \subseteq Reflexes["worker"]
  BY KindsAre, ReflexesAre DEF worker_smd
<1>3. ~ IsEvent(h)
  BY <1>1, EventSays
<1>4. ~ NoCall(w, S)
  BY <1>3 DEF NoCall
<1>5. ASSUME NEW y, OnlyCall(w, y, S)
      PROVE  h = y
  BY <1>3, <1>5 DEF OnlyCall
<1>6. CASE state[w] \in {"getp", "ackp"}
  <2>1. Answered(w, S) \/ GoingOn(w, S)
    BY <1>1, <1>4, <1>6 DEF WorkerView, Asking, Helped
  <2>2. CASE Answered(w, S)
    <3>1. PICK n \in Helper, a \in {"M1", "M2"} : h = Msg(n, w, NULL, a)
      BY <1>5, <2>2 DEF Answered
    <3>2. Code(h) \in {"M1", "M2"}
      BY <3>1, MsgFields DEF Code
    <3>. QED
      BY <1>2, <1>6, <3>2 DEF Meets
  <2>3. CASE GoingOn(w, S)
    <3>1. PICK a \in {"M0", "M3"} : h = Self(w, a)
      BY <1>5, <2>3 DEF GoingOn
    <3>2. Code(h) \in {"M0", "M3"}
      BY <3>1, SelfFields DEF Code
    <3>. QED
      BY <1>2, <1>6, <3>2 DEF Meets
  <2>. QED
    BY <2>1, <2>2, <2>3
<1>7. CASE state[w] \notin {"getp", "ackp"}
  <2>1. \/ state[w] \in {"init", "idle"} /\ h = Self(w, "M0")
        \/ state[w] = "idle" /\ \E c \in Client : h = Msg(manager, w, c, "M1")
    BY <1>1, <1>4, <1>5, <1>7 DEF WorkerView
  <2>2. \/ state[w] \in {"init", "idle"} /\ Code(h) = "M0"
        \/ state[w] = "idle" /\ Code(h) = "M1"
    BY <2>1, SelfFields, MsgFields DEF Code
  <2>. QED
    BY <1>2, <2>2 DEF Meets
<1>. QED
  BY <1>6, <1>7

LEMMA SingleMeets ==
  ASSUME NEW S, Views(S), NEW h \in S, h.dst \in {poolman, manager, listener}
  PROVE  Meets(h)
<1>. DEFINE d == h.dst
<1>1. SingleView(S) /\ Shape(h)
  BY ViewsMean
<1>2. \/ state[d] = "init" /\ Self(d, "M0") \in S
      \/ state[d] = "work" /\ h # Self(d, "M0")
  BY <1>1 DEF SingleView
<1>3. state[d] = "init" => h = Self(d, "M0")
  <2>1. state[d] = "init" => ~ Started
    BY <1>1 DEF SingleView, Started
  <2>2. ~ Started => \E m \in Machine : h = Self(m, "M0")
    BY <1>1 DEF SingleView
  <2>. QED
    BY <2>1, <2>2, SelfFields
<1>4. h = Self(d, "M0") => Code(h) = "M0"
  BY SelfFields DEF Code
<1>5. Kind(poolman) = "poolman" /\ <<"init", "M0">> \in Reflexes["poolman"]
      /\ <<"work", "T0">> \in Reflexes["poolman"]
  BY KindsAre, ReflexesAre DEF poolman_smd
<1>6. Kind(manager) = "manager" /\ <<"init", "M0">> \in Reflexes["manager"]
      /\ \A a \in {"M0", "M1", "S0", "S1"} : <<"work", a>> \in Reflexes["manager"]
  BY KindsAre, ReflexesAre DEF manager_smd
<1>7. Kind(listener) = "listener" /\ <<"init", "M0">> \in Reflexes["listener"]
      /\ \A a \in {"D0", "M0"} : <<"work", a>> \in Reflexes["listener"]
  BY KindsAre, ReflexesAre DEF listener_smd
<1>8. CASE state[d] = "init"
  BY <1>3, <1>4, <1>5, <1>6, <1>7, <1>8 DEF Meets
<1>9. CASE state[d] = "work"
  <2>1. h # Self(d, "M0")
    BY <1>2, <1>9
  <2>2. CASE IsEvent(h)
    <3>1. /\ d = poolman => Code(h) = "T0"
          /\ d = manager => Code(h) \in {"S0", "S1"}
          /\ d = listener => Code(h) = "D0"
      BY <1>1, <2>2, EventSays
    <3>. QED
      BY <1>5, <1>6, <1>7, <1>9, <3>1 DEF Meets
  <2>3. CASE CallShape(h)
    <3>1. /\ \A m : h # Self(m, "M0")
          /\ \A w \in Worker : h # Self(w, "M3")
          /\ \A p, a : \A w \in Worker, n \in Helper : h # Msg(w, n, p, a) /\ h # Msg(n, w, p, a)
          /\ \A c : \A w \in Worker : h # Msg(manager, w, c, "M1")
      BY <2>1, SelfFields, MsgFields, Kinships
    <3>2. \/ \E w \in Worker, c \in Client : h = Msg(w, manager, c, "M1")
          \/ \E c \in Client : h = Msg(manager, listener, c, "M0")
          \/ \E c \in Client : h = Msg(listener, manager, c, "M0")
      BY <2>3, <3>1 DEF CallShape
    <3>3. \/ d = manager /\ h.code \in {"M0", "M1"}
          \/ d = listener /\ h.code = "M0"
      BY <3>2, MsgFields
    <3>4. Code(h) = h.code
      BY <3>3 DEF Code
    <3>. QED
      BY <1>6, <1>7, <1>9, <3>3, <3>4 DEF Meets
  <2>. QED
    BY <1>1, <2>2, <2>3 DEF Shape
<1>. QED
  BY <1>2, <1>8, <1>9

LEMMA HeadMeets ==
  ASSUME NEW q \in Seq(Message), InStep(q), q # << >>, NEW h, h = Head(q)
  PROVE  Meets(h)
<1>1. PICK S : S = ToSet(q)
  OBVIOUS
<1>2. Views(S) /\ h \in S /\ h.dst \in Machine
  BY <1>1, Basics DEF InStep, Message
<1>3. h.dst \in Helper \cup Worker \cup {poolman, manager, listener}
  BY <1>2 DEF Machine, Helper
<1>. QED
  BY <1>2, <1>3, HelperMeets, WorkerMeets, SingleMeets

LEMMA AnswerMeets ==
  ASSUME NEW q \in Seq(Message), InStep(q), NEW o \in Seq(Message), o = queue, o # << >>,
         NEW m \in Rx, AnsweredAgain(m, q)
  PROVE  Meets(Head(o))
<1>1. PICK w \in Worker, live \in Seq(Message), after \in Seq(Message), more \in Seq(Message) :
        /\ q = live \o after /\ queue = live \o more
        /\ AnswerBehind(m, w, live) /\ AnswerIn(m, w, more)
  BY ONLY AnsweredAgain(m, q), AnswerKnown
<1>2. CASE live # << >>
  <2>1. Head(q) = Head(live) /\ q # << >> /\ Head(o) = Head(live)
    BY <1>1, <1>2, JoinedTail
  <2>. QED
    BY <2>1, HeadMeets
<1>3. CASE live = << >>
  <2>1. o = more
    BY <1>1, <1>3, ConcatEmptySeq
  <2>2. Head(o) = Msg(m, w, NULL, "M2") /\ state[w] = "getp"
    BY <1>1, <2>1, Basics DEF AnswerIn, AnswerBehind
  <2>3. Head(o).dst = w /\ Code(Head(o)) = "M2"
    BY <2>2, MsgFields DEF Code
  <2>4. Kind(w) = "worker" /\ <<"getp", "M2">> \in Reflexes["worker"]
    BY KindsAre, ReflexesAre DEF worker_smd
  <2>. QED
    BY <2>2, <2>3, <2>4 DEF Meets
<1>. QED
  BY <1>2, <1>3

LEMMA NothingIsDropped ==
  ASSUME ServerInv
  PROVE  NoMessageDropped
<1>. SUFFICES ASSUME queue # << >> PROVE Meets(Head(queue))
  BY DEF NoMessageDropped, Meets
<1>1. PICK o : o = queue
  OBVIOUS
<1>2. PICK q \in Seq(Message) : InStep(q) /\ (q = queue \/ Ruined(q))
  BY DEF ServerInv, StaysInStep
<1>3. o \in Seq(Message) /\ o # << >>
  BY <1>1 DEF ServerInv, Typed
<1>4. CASE q = queue
  BY <1>1, <1>2, <1>3, <1>4, HeadMeets
<1>5. ASSUME NEW m \in Rx, AtTheEnd(m)
      PROVE  Meets(Head(queue))
  <2>1. Head(queue) = Self(m, "M0") /\ state[m] = "idle"
    BY <1>5 DEF AtTheEnd
  <2>2. Head(queue).dst = m /\ Code(Head(queue)) = "M0"
    BY <2>1, SelfFields DEF Code
  <2>3. Kind(m) = "rx" /\ <<"idle", "M0">> \in Reflexes["rx"]
    BY KindsAre, ReflexesAre DEF rx_smd
  <2>. QED
    BY <2>1, <2>2, <2>3 DEF Meets
<1>6. ASSUME NEW m \in Rx, AnsweredAgain(m, q)
      PROVE  Meets(Head(queue))
  BY <1>1, <1>2, <1>3, <1>6, AnswerMeets
<1>. QED
  BY <1>2, <1>4, <1>5, <1>6 DEF Ruined

-----------------------------------------------------------------------------
(* How long the queue gets.  A message weighs as much as the messages that  *)
(* its handler may put, together, and at least 1: an event weighs 3.  So    *)
(* what is pending never weighs more than the events of the last wait did.  *)
(* A weight is paid for with tokens, three for each event of a wait, which  *)
(* are handed on from a message to those put by its handler.                *)

(* s has at least n members, for n up to 3. *)
AtLeast(s, n) == \E a, b, c \in s : (n > 1 => a # b) /\ (n > 2 => a # c /\ b # c)

Token == (1 .. MaxEvents) \X (1 .. 3)

(* There are tokens for a sequence of these weights. *)
Affordable(u) ==
  \E g \in [1 .. Len(u) -> SUBSET Token] :
    /\ \A j, k \in 1 .. Len(u) : j # k => g[j] \cap g[k] = {}
    /\ \A k \in 1 .. Len(u) : AtLeast(g[k], u[k])

LEMMA Divide ==
  ASSUME NEW s, NEW n \in 1 .. 3, AtLeast(s, n), NEW i \in 1 .. 3, NEW j \in 1 .. 3, i + j <= n
  PROVE  \E a, b \in SUBSET s : a \cap b = {} /\ AtLeast(a, i) /\ AtLeast(b, j)
<1>1. PICK x \in s, y \in s, z \in s : (n > 1 => x # y) /\ (n > 2 => x # z /\ y # z)
  BY DEF AtLeast
<1>2. AtLeast({x}, 1) /\ AtLeast({y}, 1)
  BY DEF AtLeast
<1>3. y # z => AtLeast({y, z}, 2)
  BY DEF AtLeast
<1>4. CASE i = 1 /\ j = 1
  BY <1>1, <1>2, <1>4
<1>5. CASE i = 1 /\ j = 2
  <2>1. x # y /\ x # z /\ y # z
    BY <1>1, <1>5
  <2>. QED
    BY <1>2, <1>3, <1>5, <2>1
<1>6. CASE i = 2 /\ j = 1
  <2>1. x # y /\ x # z /\ y # z
    BY <1>1, <1>6
  <2>2. {y, z} \in SUBSET s /\ {x} \in SUBSET s /\ {y, z} \cap {x} = {}
    BY <2>1
  <2>. QED
    BY <1>2, <1>3, <1>6, <2>1, <2>2
<1>. QED
  BY <1>4, <1>5, <1>6

LEMMA Fewer ==
  ASSUME NEW s, NEW n \in 1 .. 3, AtLeast(s, n), NEW i \in 1 .. n
  PROVE  AtLeast(s, i)
BY DEF AtLeast

(* The first message is handled: its tokens go to what its handler puts. *)
LEMMA Spend ==
  ASSUME NEW u \in Seq(1 .. 3), NEW n \in Nat, Len(u) = n + 1, Affordable(u),
         NEW v \in Seq(1 .. 3), NEW l \in 0 .. 2, Len(v) = n + l,
         \A i \in 1 .. n : v[i] <= u[i + 1],
         l = 1 => v[n + 1] <= u[1],
         l = 2 => v[n + 1] + v[n + 2] <= u[1]
  PROVE  Affordable(v)
<1>1. PICK g \in [1 .. n + 1 -> SUBSET Token] :
        /\ \A j, k \in 1 .. n + 1 : j # k => g[j] \cap g[k] = {}
        /\ \A k \in 1 .. n + 1 : AtLeast(g[k], u[k])
  BY DEF Affordable
<1>2. /\ \A k \in 1 .. n + 1 : u[k] \in 1 .. 3
      /\ \A k \in 1 .. n + l : v[k] \in 1 .. 3
  BY LenProperties
<1>3. PICK t : t = g[1]
  OBVIOUS
<1>10. PICK x, y, z : x = v[n + 1] /\ y = v[n + 2] /\ z = u[1]
  OBVIOUS
<1>11. \E a, b \in SUBSET t : /\ a \cap b = {}
                              /\ l >= 1 => AtLeast(a, x)
                              /\ l = 2 => AtLeast(b, y)
  <2>1. AtLeast(t, z) /\ z \in 1 .. 3
    BY <1>1, <1>2, <1>3, <1>10
  <2>2. CASE l = 0
    <3>1. {} \in SUBSET t
      OBVIOUS
    <3>. WITNESS {} \in SUBSET t, {} \in SUBSET t
    <3>. QED
      BY <2>2
  <2>3. CASE l = 1
    <3>1. x \in 1 .. z
      BY <1>2, <1>10, <2>1, <2>3
    <3>2. AtLeast(t, x)
      BY <2>1, <3>1, Fewer
    <3>3. t \in SUBSET t /\ {} \in SUBSET t /\ t \cap {} = {}
      OBVIOUS
    <3>. WITNESS t \in SUBSET t, {} \in SUBSET t
    <3>. QED
      BY <2>3, <3>2, <3>3
  <2>4. CASE l = 2
    <3>1. x \in 1 .. 3 /\ y \in 1 .. 3 /\ x + y <= z
      BY <1>2, <1>10, <2>4
    <3>2. \E a, b \in SUBSET t : a \cap b = {} /\ AtLeast(a, x) /\ AtLeast(b, y)
      BY <2>1, <3>1, Divide
    <3>. QED
      BY <3>2
  <2>5. l = 0 \/ l = 1 \/ l = 2
    OBVIOUS
  <2>. QED
    BY ONLY <2>2, <2>3, <2>4, <2>5
<1>4. PICK a \in SUBSET g[1], b \in SUBSET g[1] :
        /\ a \cap b = {}
        /\ l >= 1 => AtLeast(a, v[n + 1])
        /\ l = 2 => AtLeast(b, v[n + 2])
  BY <1>3, <1>10, <1>11
<1>. DEFINE h == [k \in 1 .. n + l |-> IF k <= n THEN g[k + 1] ELSE IF k = n + 1 THEN a ELSE b]
<1>5. /\ \A k \in 1 .. n : h[k] = g[k + 1]
      /\ l >= 1 => h[n + 1] = a
      /\ l = 2 => h[n + 2] = b
  OBVIOUS
<1>6. h \in [1 .. n + l -> SUBSET Token]
  BY <1>1, <1>4
<1>. HIDE DEF h
<1>7. \A k \in 1 .. n + l : k \in 1 .. n \/ (k = n + 1 /\ l >= 1) \/ (k = n + 2 /\ l = 2)
  OBVIOUS
<1>8. ASSUME NEW k \in 1 .. n + l
      PROVE  AtLeast(h[k], v[k])
  <2>1. CASE k \in 1 .. n
    <3>1. AtLeast(g[k + 1], u[k + 1]) /\ u[k + 1] \in 1 .. 3 /\ v[k] \in 1 .. 3 /\ v[k] <= u[k + 1]
      BY <1>1, <1>2, <2>1
    <3>. QED
      BY <1>5, <2>1, <3>1, Fewer
  <2>. QED
    BY <1>4, <1>5, <1>7, <2>1
<1>9. ASSUME NEW j \in 1 .. n + l, NEW k \in 1 .. n + l, j # k
      PROVE  h[j] \cap h[k] = {}
  <2>1. ASSUME NEW i \in 1 .. n
        PROVE  h[i] \cap g[1] = {}
    BY <1>1, <1>5, <2>1, SMTT(30)
  <2>2. CASE j \in 1 .. n /\ k \in 1 .. n
    BY <1>1, <1>5, <1>9, <2>2
  <2>3. CASE j \in 1 .. n /\ k \notin 1 .. n
    <3>1. h[k] \subseteq g[1]
      BY <1>4, <1>5, <1>7, <2>3
    <3>. QED
      BY <2>1, <2>3, <3>1
  <2>4. CASE j \notin 1 .. n /\ k \in 1 .. n
    <3>1. h[j] \subseteq g[1]
      BY <1>4, <1>5, <1>7, <2>4
    <3>. QED
      BY <2>1, <2>4, <3>1
  <2>5. CASE j \notin 1 .. n /\ k \notin 1 .. n
    BY <1>4, <1>5, <1>7, <1>9, <2>5
  <2>. QED
    BY <2>2, <2>3, <2>4, <2>5
<1>. QED
  BY <1>6, <1>8, <1>9 DEF Affordable

(* As many messages as there are tokens, at most. *)
LEMMA AsManyAsTokens ==
  ASSUME NEW u \in Seq(1 .. 3), Affordable(u)
  PROVE  Len(u) <= 3 * MaxEvents
<1>1. PICK n \in Nat : n = Len(u)
  BY LenProperties
<1>2. PICK g \in [1 .. n -> SUBSET Token] :
        /\ \A j, k \in 1 .. n : j # k => g[j] \cap g[k] = {}
        /\ \A k \in 1 .. n : AtLeast(g[k], u[k])
  BY <1>1 DEF Affordable
<1>3. \A k \in 1 .. n : \E x : x \in g[k]
  BY <1>2 DEF AtLeast
<1>. DEFINE f == [k \in 1 .. n |-> CHOOSE x : x \in g[k]]
<1>4. \A k \in 1 .. n : f[k] \in g[k]
  BY <1>3
<1>5. f \in [1 .. n -> Token] /\ DOMAIN f = 1 .. n
  BY <1>2, <1>4
<1>. HIDE DEF f
<1>6. \A j, k \in 1 .. n : f[j] = f[k] => j = k
  BY <1>2, <1>4
<1>7. f \in Injection(1 .. n, Token)
  BY <1>5, <1>6 DEF Injection, IsInjective
<1>8. ASSUME NEW m \in Nat
      PROVE  IsFiniteSet(1 .. m) /\ Cardinality(1 .. m) = m
  <2>1. IsFiniteSet(1 .. m) /\ Cardinality(1 .. m) = IF 1 > m THEN 0 ELSE m - 1 + 1
    BY FS_Interval
  <2>. QED
    BY <2>1
<1>9. IsFiniteSet(Token) /\ Cardinality(Token) = MaxEvents * 3
  <2>1. PICK A, B : A = 1 .. MaxEvents /\ B = 1 .. 3
    OBVIOUS
  <2>2. IsFiniteSet(A) /\ Cardinality(A) = MaxEvents /\ IsFiniteSet(B) /\ Cardinality(B) = 3
    BY <1>8, <2>1, BoundsAssumption
  <2>3. IsFiniteSet(A \X B) /\ Cardinality(A \X B) = Cardinality(A) * Cardinality(B)
    BY <2>2, FS_Product
  <2>. QED
    BY <2>1, <2>2, <2>3 DEF Token
<1>10. n <= MaxEvents * 3
  BY <1>7, <1>8, <1>9, FS_Injection
<1>. QED
  BY <1>1, <1>10, BoundsAssumption

(* Three tokens for each event of a wait. *)
LEMMA EventsPaid ==
  ASSUME NEW u \in Seq(1 .. 3), Len(u) <= MaxEvents
  PROVE  Affordable(u)
<1>1. PICK n \in Nat : n = Len(u)
  BY LenProperties
<1>. DEFINE g == [k \in 1 .. n |-> {k} \X (1 .. 3)]
<1>2. \A k \in 1 .. n : u[k] \in 1 .. 3 /\ k \in 1 .. MaxEvents
  BY <1>1, LenProperties, BoundsAssumption
<1>3. g \in [1 .. n -> SUBSET Token]
  BY <1>2 DEF Token
<1>4. ASSUME NEW k \in 1 .. n
      PROVE  AtLeast(g[k], u[k])
  <2>1. /\ <<k, 1>> \in g[k] /\ <<k, 2>> \in g[k] /\ <<k, 3>> \in g[k]
        /\ <<k, 1>> # <<k, 2>> /\ <<k, 1>> # <<k, 3>> /\ <<k, 2>> # <<k, 3>>
    OBVIOUS
  <2>. QED
    BY <2>1 DEF AtLeast
<1>5. \A j, k \in 1 .. n : j # k => g[j] \cap g[k] = {}
  OBVIOUS
<1>. QED
  BY <1>1, <1>3, <1>4, <1>5 DEF Affordable

-----------------------------------------------------------------------------
(* A new client costs a worker its start and its call; a worker that goes   *)
(* on or gives up puts two messages, one that starts puts none.             *)
Weight(x) ==
  IF x.src = NULL \/ (x.src = listener /\ x.dst = manager) THEN 3
  ELSE IF x.dst \in Worker /\ x.code # "M3" /\ (x.code = "M0" => state[x.dst] # "init") THEN 2
  ELSE 1

Paid ==
  \E g \in [DOMAIN queue -> SUBSET Token] :
    /\ \A j, k \in DOMAIN queue : j # k => g[j] \cap g[k] = {}
    /\ \A k \in DOMAIN queue : AtLeast(g[k], Weight(queue[k]))

(* A worker gets heavier when it starts: it is told to once. *)
StartsOnce ==
  \A w \in Worker : state[w] = "init" =>
    \A j, k \in DOMAIN queue : queue[j] = Self(w, "M0") /\ queue[k] = Self(w, "M0") => j = k

(* Until the listener starts, the messages of main() are worked off. *)
Starting ==
  /\ Len(queue) \in 1 .. Len(StartOrder)
  /\ IsInjective(queue)
  /\ \A k \in DOMAIN queue :
       queue[k] = Self(queue[k].dst, "M0") /\ state[queue[k].dst] = "init"
  /\ queue[Len(queue)] = Self(listener, "M0")

(* The inductive invariant, on top of ServerInv. *)
QueueInv == StartsOnce /\ IF Started THEN Paid ELSE Starting

LEMMA WeightType ==
  ASSUME NEW x
  PROVE  Weight(x) \in 1 .. 3
BY DEF Weight

(* What a message weighs, and at most weighs in the next state. *)
LEMMA Weights ==
  ASSUME NEW x
  PROVE  /\ IsEvent(x) => Weight(x) = 3
         /\ x.src = listener /\ x.dst = manager => Weight(x) = 3
         /\ x.dst \in Worker /\ (x.code \in {"M1", "M2"} \/ (x.code = "M0" /\ state[x.dst] # "init"))
              => Weight(x) >= 2
         /\ Weight(x)' \in 1 .. 3
         /\ x.src \notin {NULL, listener} => Weight(x)' \in 1 .. 2
         /\ x.src \notin {NULL, listener} /\ (x.dst \notin Worker \/ x.code = "M3") => Weight(x)' = 1
         /\ x.src \notin {NULL, listener} /\ x.code = "M0" /\ state'[x.dst] = "init" => Weight(x)' = 1
BY DEF Weight, IsEvent

LEMMA PaidFor ==
  ASSUME NEW o \in Seq(Message), o = queue, NEW u, u = [k \in 1 .. Len(o) |-> Weight(o[k])]
  PROVE  /\ u \in Seq(1 .. 3) /\ Len(u) = Len(o) /\ \A k \in 1 .. Len(o) : u[k] = Weight(o[k])
         /\ Paid <=> Affordable(u)
<1>1. PICK n \in Nat : n = Len(o)
  BY LenProperties
<1>2. DOMAIN o = 1 .. n
  BY <1>1, LenProperties
<1>3. u \in Seq(1 .. 3) /\ Len(u) = n /\ \A k \in 1 .. n : u[k] = Weight(o[k])
  BY <1>1, WeightType
<1>4. Paid <=> \E g \in [1 .. n -> SUBSET Token] :
                 /\ \A j, k \in 1 .. n : j # k => g[j] \cap g[k] = {}
                 /\ \A k \in 1 .. n : AtLeast(g[k], Weight(o[k]))
  BY <1>2 DEF Paid
<1>5. Affordable(u) <=> \E g \in [1 .. n -> SUBSET Token] :
                 /\ \A j, k \in 1 .. n : j # k => g[j] \cap g[k] = {}
                 /\ \A k \in 1 .. n : AtLeast(g[k], u[k])
  BY ONLY <1>3 DEF Affordable
<1>. QED
  BY <1>1, <1>3, <1>4, <1>5

LEMMA PaidAfter ==
  ASSUME NEW o \in Seq(Message), o = queue', NEW v \in Seq(1 .. 3), Len(v) = Len(o),
         \A k \in 1 .. Len(o) : v[k] = Weight(o[k])', Affordable(v)
  PROVE  Paid'
<1>1. PICK n \in Nat : n = Len(o)
  BY LenProperties
<1>2. DOMAIN o = 1 .. n
  BY <1>1, LenProperties
<1>3. PICK g \in [1 .. n -> SUBSET Token] :
        /\ \A j, k \in 1 .. n : j # k => g[j] \cap g[k] = {}
        /\ \A k \in 1 .. n : AtLeast(g[k], v[k])
  BY <1>1 DEF Affordable
<1>4. \A k \in 1 .. n : AtLeast(g[k], Weight(o[k])')
  BY <1>1, <1>3
<1>5. \A k \in DOMAIN o : AtLeast(g[k], Weight(o[k])')
  BY <1>2, <1>4
<1>. QED
  BY <1>2, <1>3, <1>5 DEF Paid, Weight

(* The queue is never longer than it can pay. *)
LEMMA QueueFits ==
  ASSUME ServerInv, QueueInv
  PROVE  QueueBound
<1>1. PICK o \in Seq(Message) : o = queue
  BY DEF ServerInv, Typed
<1>2. ASSUME Started
      PROVE  Len(o) <= 3 * MaxEvents
  <2>1. PICK u : u = [k \in 1 .. Len(o) |-> Weight(o[k])]
    OBVIOUS
  <2>2. u \in Seq(1 .. 3) /\ Len(u) = Len(o) /\ Affordable(u)
    BY <1>1, <1>2, <2>1, PaidFor DEF QueueInv
  <2>. QED
    BY <2>2, AsManyAsTokens
<1>3. ASSUME ~ Started
      PROVE  Len(o) <= Len(StartOrder)
  <2>1. Len(o) \in 1 .. Len(StartOrder)
    BY <1>1, <1>3 DEF QueueInv, Starting
  <2>. QED
    BY <2>1, StartsInOrder
<1>. QED
  BY <1>1, <1>2, <1>3 DEF QueueBound

-----------------------------------------------------------------------------
(* One message is handled, t is put. *)

LEMMA MeantToStart ==
  ASSUME NEW x, Shape(x), x.dst \in Worker, x.code = "M0"
  PROVE  x = Self(x.dst, "M0")
<1>1. CallShape(x)
  BY EventsMean, Kinships DEF Shape, EventShape
<1>2. /\ \A w, n, a : n \in Helper => x # Msg(w, n, w, a)
      /\ \A w, n : \A a \in {"M1", "M2"} : x # Msg(n, w, NULL, a)
      /\ \A c, w : x # Msg(w, manager, c, "M1") /\ x # Msg(manager, w, c, "M1")
      /\ \A c : x # Msg(manager, listener, c, "M0") /\ x # Msg(listener, manager, c, "M0")
      /\ \A w : x # Self(w, "M3")
  BY MsgFields, SelfFields, Kinships
<1>3. PICK m \in Machine : x = Self(m, "M0")
  BY <1>1, <1>2 DEF CallShape
<1>. QED
  BY <1>3, SelfFields

LEMMA OnceBehind ==
  ASSUME NEW n \in Nat, NEW l \in Nat, NEW q, NEW t, NEW o,
         \A i \in 1 .. n : o[i] = q[i + 1], \A i \in 1 .. l : o[i + n] = t[i],
         NEW x, NEW j \in 1 .. n + l, NEW k \in 1 .. n + l, o[j] = x, o[k] = x,
         \A i \in 1 .. n + 1 : q[i] # x,
         \A a, b \in 1 .. l : t[a] = x /\ t[b] = x => a = b
  PROVE  j = k
<1>1. \A i \in 1 .. n + l : i \in 1 .. n \/ i - n \in 1 .. l
  OBVIOUS
<1>2. \A i \in 1 .. n + l : i - n \in 1 .. l => o[i] = t[i - n]
  OBVIOUS
<1>3. \A i \in 1 .. n + l : i \in 1 .. n => o[i] = q[i + 1] /\ i + 1 \in 1 .. n + 1
  OBVIOUS
<1>4. j - n \in 1 .. l /\ k - n \in 1 .. l
  BY <1>1, <1>3
<1>5. j - n = k - n
  BY <1>2, <1>4
<1>. QED
  BY <1>5

(* h pays for t. *)
Pays(h, t) ==
  /\ Len(t) = 1 => Weight(t[1])' <= Weight(h)
  /\ Len(t) = 2 => Weight(t[1])' + Weight(t[2])' <= Weight(h)

(* A worker starts with its M0; a new one gets its M0 now, and has no other. *)
StartsWell(q, h, t) ==
  /\ \A w \in Worker : state[w] = "init" /\ state'[w] # "init" => h = Self(w, "M0")
  /\ \A w \in Worker : state'[w] = "init" =>
       \/ state[w] = "init" /\ Self(w, "M0") \notin ToSet(t)
       \/ /\ Self(w, "M0") \notin ToSet(q)
          /\ \A i, j \in DOMAIN t : t[i] = Self(w, "M0") /\ t[j] = Self(w, "M0") => i = j

LEMMA QueueStep ==
  ASSUME ServerInv, QueueInv, Started, Started',
         NEW q \in Seq(Message), q = queue, q # << >>, NEW h, h = Head(q),
         NEW t \in Seq(Message), Len(t) <= 2, queue' = Tail(q) \o t,
         Pays(h, t), StartsWell(q, h, t)
  PROVE  QueueInv'
<1>1. PICK o : o = Tail(q) \o t
  OBVIOUS
<1>2. PICK n : n = Len(q) - 1
  OBVIOUS
<1>3. PICK l : l = Len(t)
  OBVIOUS
<1>4. /\ n \in Nat /\ o \in Seq(Message) /\ Len(o) = n + l /\ Len(q) = n + 1
      /\ \A i \in 1 .. n : o[i] = q[i + 1]
      /\ \A i \in 1 .. l : o[i + n] = t[i]
      /\ l \in 0 .. 2 /\ DOMAIN t = 1 .. l
      /\ DOMAIN o = 1 .. n + l /\ DOMAIN q = 1 .. n + 1
      /\ h = q[1]
  BY <1>1, <1>2, <1>3, Positions, Basics, LenProperties
<1>5. StartsOnce /\ Paid
  BY DEF QueueInv
<1>6. ASSUME NEW k \in 1 .. n
      PROVE  Weight(q[k + 1])' <= Weight(q[k + 1])
  <2>1. PICK x : x = q[k + 1]
    OBVIOUS
  <2>2. x \in ToSet(q) /\ Shape(x)
    <3>0. n \in Nat /\ Len(q) = n + 1
      BY <1>4
    <3>1. k + 1 \in 1 .. Len(q)
      BY ONLY <1>6, <3>0
    <3>2. x \in ToSet(q)
      BY ONLY <2>1, <3>1, q \in Seq(Message), Basics
    <3>. QED
      BY <3>2 DEF ServerInv, StaysInStep
  <2>3. CASE x.dst \in Worker /\ x.code = "M0" /\ state[x.dst] = "init" /\ state'[x.dst] # "init"
    <3>1. PICK w \in Worker : w = x.dst
      BY <2>3
    <3>2. x = Self(w, "M0") /\ h = Self(w, "M0") /\ state[w] = "init"
      BY <2>2, <2>3, <3>1, MeantToStart DEF StartsWell
    <3>3. 1 \in DOMAIN q /\ k + 1 \in DOMAIN q /\ k + 1 # 1
      BY <1>4
    <3>. QED
      BY <1>4, <1>5, <2>1, <3>2, <3>3 DEF StartsOnce
  <2>4. CASE ~ (x.dst \in Worker /\ x.code = "M0" /\ state[x.dst] = "init" /\ state'[x.dst] # "init")
    BY <2>4, <2>1 DEF Weight
  <2>. QED
    BY <2>3, <2>4
<1>7. Paid'
  <2>1. PICK u : u = [k \in 1 .. Len(q) |-> Weight(q[k])]
    OBVIOUS
  <2>2. u \in Seq(1 .. 3) /\ Len(u) = n + 1 /\ Affordable(u) /\ \A k \in 1 .. n + 1 : u[k] = Weight(q[k])
    BY <1>4, <1>5, <2>1, PaidFor
  <2>3. PICK v : v = [k \in 1 .. n + l |-> Weight(o[k])']
    OBVIOUS
  <2>4. \A k \in 1 .. n + l : Weight(o[k])' \in 1 .. 3
    BY Weights
  <2>5. v \in Seq(1 .. 3) /\ Len(v) = n + l /\ \A k \in 1 .. n + l : v[k] = Weight(o[k])'
    <3>1. PICK N \in Nat : N = n + l
      BY <1>4
    <3>. QED
      BY ONLY <2>3, <2>4, <3>1
  <2>6. \A i \in 1 .. n : v[i] <= u[i + 1]
    <3>1. ASSUME NEW i \in 1 .. n
          PROVE  v[i] <= u[i + 1]
      <4>1. i \in 1 .. n + l /\ i + 1 \in 1 .. n + 1 /\ o[i] = q[i + 1]
        BY <1>4
      <4>2. v[i] = Weight(o[i])' /\ u[i + 1] = Weight(q[i + 1])
        BY <2>2, <2>5, <4>1
      <4>3. Weight(q[i + 1])' <= Weight(q[i + 1])
        BY <1>6
      <4>. QED
        BY ONLY <4>1, <4>2, <4>3
    <3>. QED
      BY <3>1
  <2>7. l = 1 => v[n + 1] <= u[1]
    <3>1. l = 1 => o[n + 1] = t[1] /\ v[n + 1] = Weight(t[1])' /\ u[1] = Weight(h)
      BY <1>4, <2>2, <2>5
    <3>. QED
      BY <1>3, <3>1 DEF Pays
  <2>8. l = 2 => v[n + 1] + v[n + 2] <= u[1]
    <3>1. l = 2 => /\ o[n + 1] = t[1] /\ o[n + 2] = t[2]
                   /\ v[n + 1] = Weight(t[1])' /\ v[n + 2] = Weight(t[2])' /\ u[1] = Weight(h)
      BY <1>4, <2>2, <2>5
    <3>. QED
      BY <1>3, <3>1 DEF Pays
  <2>9. Affordable(v)
    BY <1>4, <2>2, <2>5, <2>6, <2>7, <2>8, Spend
  <2>. QED
    BY <1>1, <1>4, <2>5, <2>9, PaidAfter
<1>8. ASSUME NEW w \in Worker, state'[w] = "init",
             NEW j \in DOMAIN o, NEW k \in DOMAIN o, o[j] = Self(w, "M0"), o[k] = Self(w, "M0")
      PROVE  j = k
  <2>1. PICK x : x = Self(w, "M0")
    OBVIOUS
  <2>4. j \in 1 .. n + l /\ k \in 1 .. n + l /\ n \in Nat /\ l \in Nat /\ o[j] = x /\ o[k] = x
    BY <1>4, <1>8, <2>1
  <2>2. CASE state[w] = "init" /\ x \notin ToSet(t)
    <3>1. \A i \in 1 .. l : t[i] # x
      BY <1>3, <2>2, Basics
    <3>2. \A a, b \in 1 .. n + 1 : q[a] = x /\ q[b] = x => a = b
      BY <1>4, <1>5, <2>1, <2>2 DEF StartsOnce
    <3>3. /\ \A i \in 1 .. n : o[i] = q[i + 1]
          /\ \A i \in 1 .. l : o[i + n] = t[i]
      BY <1>4
    <3>4. \A i \in 1 .. n + l : \/ i \in 1 .. n /\ o[i] = q[i + 1] /\ i + 1 \in 1 .. n + 1
                                \/ i - n \in 1 .. l /\ o[i] = t[i - n]
      <4>1. ASSUME NEW i \in 1 .. n + l
            PROVE  \/ i \in 1 .. n /\ o[i] = q[i + 1] /\ i + 1 \in 1 .. n + 1
                   \/ i - n \in 1 .. l /\ o[i] = t[i - n]
        <5>1. CASE i \in 1 .. n
          <6>1. i + 1 \in 1 .. n + 1
            BY ONLY <2>4, <5>1
          <6>. QED
            BY ONLY <3>3, <5>1, <6>1
        <5>2. CASE i \notin 1 .. n
          <6>1. i - n \in 1 .. l /\ (i - n) + n = i
            BY ONLY <2>4, <4>1, <5>2
          <6>. QED
            BY ONLY <3>3, <6>1
        <5>. QED
          BY ONLY <5>1, <5>2
      <4>. QED
        BY ONLY <4>1
    <3>5. /\ j \in 1 .. n /\ q[j + 1] = x /\ j + 1 \in 1 .. n + 1
          /\ k \in 1 .. n /\ q[k + 1] = x /\ k + 1 \in 1 .. n + 1
      BY ONLY <2>4, <3>1, <3>4
    <3>6. j + 1 = k + 1
      BY ONLY <3>2, <3>5
    <3>. QED
      BY ONLY <2>4, <3>5, <3>6
  <2>3. CASE /\ x \notin ToSet(q)
             /\ \A a, b \in DOMAIN t : t[a] = x /\ t[b] = x => a = b
    <3>1. \A i \in 1 .. n + 1 : q[i] # x
      BY <1>4, <2>3, Basics
    <3>2. \A a, b \in 1 .. l : t[a] = x /\ t[b] = x => a = b
      BY <1>4, <2>3
    <3>. QED
      BY ONLY <1>4, <2>4, <3>1, <3>2, OnceBehind
  <2>. QED
    BY <1>8, <2>1, <2>2, <2>3 DEF StartsWell
<1>9. StartsOnce'
  BY <1>1, <1>8 DEF StartsOnce, Self, Msg
<1>. QED
  BY <1>7, <1>9 DEF QueueInv

LEMMA PutNone ==
  ASSUME ServerInv, QueueInv, Started, Started', queue # << >>, Puts(<< >>),
         \A w \in Worker : state'[w] = "init" => state[w] = "init",
         \A w \in Worker : state[w] = "init" /\ state'[w] # "init" => Head(queue) = Self(w, "M0")
  PROVE  QueueInv'
<1>1. PICK q \in Seq(Message) : q = queue
  BY DEF ServerInv, Typed
<1>2. PICK t : t = << >>
  OBVIOUS
<1>3. t \in Seq(Message) /\ Len(t) = 0 /\ Len(t) <= 2 /\ ToSet(t) = {} /\ queue' = Tail(q) \o t
  BY <1>1, <1>2 DEF Puts, ToSet
<1>4. PICK h : h = Head(q)
  OBVIOUS
<1>5. StartsWell(q, h, t)
  BY <1>1, <1>3, <1>4 DEF StartsWell
<1>6. Pays(h, t)
  BY <1>3 DEF Pays
<1>7. q # << >>
  BY <1>1
<1>. QED
  BY ONLY ServerInv, QueueInv, Started, Started', <1>1, <1>3, <1>4, <1>5, <1>6, <1>7, QueueStep

LEMMA PutOne ==
  ASSUME ServerInv, QueueInv, Started, Started', queue # << >>, NEW x \in Message, Puts(<<x>>),
         Weight(x)' <= Weight(Head(queue)),
         \A w \in Worker : state'[w] = "init" <=> state[w] = "init",
         \A w \in Worker : state[w] = "init" => x # Self(w, "M0")
  PROVE  QueueInv'
<1>1. PICK q \in Seq(Message) : q = queue
  BY DEF ServerInv, Typed
<1>2. PICK t : t = <<x>>
  OBVIOUS
<1>3. t \in Seq(Message) /\ Len(t) = 1 /\ t[1] = x /\ ToSet(t) = {x} /\ queue' = Tail(q) \o t
  <2>1. t \in Seq(Message) /\ DOMAIN t = {1} /\ Len(t) = 1 /\ t[1] = x
    BY <1>2
  <2>. QED
    BY <1>1, <1>2, <2>1 DEF Puts, ToSet
<1>4. PICK h : h = Head(q)
  OBVIOUS
<1>5. StartsWell(q, h, t)
  BY <1>3 DEF StartsWell
<1>6. Pays(h, t)
  BY <1>1, <1>3, <1>4 DEF Pays
<1>7. q # << >> /\ Len(t) <= 2
  BY <1>1, <1>3
<1>. QED
  BY ONLY ServerInv, QueueInv, Started, Started', <1>1, <1>3, <1>4, <1>5, <1>6, <1>7, QueueStep

LEMMA PutTwo ==
  ASSUME ServerInv, QueueInv, Started, Started', queue # << >>,
         NEW x \in Message, NEW y \in Message, Puts(<<x, y>>),
         Weight(x)' + Weight(y)' <= Weight(Head(queue)),
         \A w \in Worker : state[w] = "init" /\ state'[w] # "init" => Head(queue) = Self(w, "M0"),
         \A w \in Worker : state'[w] = "init" =>
           \/ state[w] = "init" /\ x # Self(w, "M0") /\ y # Self(w, "M0")
           \/ Self(w, "M0") \notin ToSet(queue) /\ y # Self(w, "M0")
  PROVE  QueueInv'
<1>1. PICK q \in Seq(Message) : q = queue
  BY DEF ServerInv, Typed
<1>2. PICK t : t = <<x, y>>
  OBVIOUS
<1>3. /\ t \in Seq(Message) /\ Len(t) = 2 /\ t[1] = x /\ t[2] = y /\ DOMAIN t = {1, 2}
      /\ ToSet(t) = {x, y} /\ queue' = Tail(q) \o t
  <2>1. t \in Seq(Message) /\ DOMAIN t = {1, 2} /\ Len(t) = 2 /\ t[1] = x /\ t[2] = y
    BY <1>2
  <2>. QED
    BY <1>1, <1>2, <2>1 DEF Puts, ToSet
<1>4. PICK h : h = Head(q)
  OBVIOUS
<1>5. StartsWell(q, h, t)
  <2>1. ASSUME NEW w \in Worker, state'[w] = "init"
        PROVE  \/ state[w] = "init" /\ Self(w, "M0") \notin ToSet(t)
               \/ /\ Self(w, "M0") \notin ToSet(q)
                  /\ \A i, j \in DOMAIN t : t[i] = Self(w, "M0") /\ t[j] = Self(w, "M0") => i = j
    <3>1. CASE state[w] = "init" /\ x # Self(w, "M0") /\ y # Self(w, "M0")
      BY <1>3, <3>1
    <3>2. CASE Self(w, "M0") \notin ToSet(queue) /\ y # Self(w, "M0")
      BY <1>1, <1>3, <3>2
    <3>. QED
      BY <2>1, <3>1, <3>2
  <2>2. \A w \in Worker : state[w] = "init" /\ state'[w] # "init" => h = Self(w, "M0")
    BY <1>1, <1>4
  <2>. QED
    BY <2>1, <2>2 DEF StartsWell
<1>6. Pays(h, t)
  BY <1>1, <1>3, <1>4 DEF Pays
<1>7. q # << >> /\ Len(t) <= 2
  BY <1>1, <1>3
<1>. QED
  BY ONLY ServerInv, QueueInv, Started, Started', <1>1, <1>3, <1>4, <1>5, <1>6, <1>7, QueueStep

LEMMA QueueSame ==
  ASSUME QueueInv, UNCHANGED <<queue, state>>
  PROVE  QueueInv'
BY DEF QueueInv, StartsOnce, Starting, Paid, Weight, Started, Self, Msg

LEMMA HeadSays ==
  ASSUME ServerInv, NEW m, NEW s, NEW c, Receive(m, s, c), NEW h, h = Head(queue)
  PROVE  /\ queue # << >> /\ h \in Message /\ Shape(h) /\ h.dst = m /\ state[m] = s
         /\ c \in {"M0", "M1", "M2", "M3"} => h.code = c /\ ~ IsEvent(h)
         /\ c \notin {"M0", "M1", "M2", "M3"} => IsEvent(h)
<1>1. PICK q \in Seq(Message) : q = queue
  BY DEF ServerInv, Typed
<1>2. q # << >> /\ h = Head(q) /\ h.dst = m /\ state[m] = s /\ Code(h) = c
  BY <1>1 DEF Receive
<1>3. h \in Message /\ h \in ToSet(q)
  BY <1>2, Basics
<1>4. Shape(h)
  BY <1>1, <1>3 DEF ServerInv, StaysInStep
<1>5. c \in {"M0", "M1", "M2", "M3"} => h.code = c
  BY <1>2, <1>3, CodeMeans
<1>6. IsEvent(h) => h.code \notin {"M0", "M1", "M2", "M3"}
  BY <1>4, NamesAssumption DEF Shape, EventShape
<1>7. ~ IsEvent(h) => h.code \in {"M0", "M1", "M2", "M3"}
  BY <1>4, CallsAreCalls
<1>8. h.code \in {"M0", "M1", "M2", "M3"} => Code(h) = h.code
  BY DEF Code
<1>. QED
  BY <1>1, <1>2, <1>3, <1>4, <1>5, <1>6, <1>7, <1>8

(* A helper at work has a worker to answer. *)
LEMMA HasWorker ==
  ASSUME ServerInv, NEW m \in Helper, state[m] = "work"
  PROVE  job[m] \in Worker
<1>1. PICK q \in Seq(Message) : InStep(q)
  BY DEF ServerInv, StaysInStep
<1>2. LinkView(m)
  BY <1>1 DEF InStep, Views
<1>. QED
  BY <1>2 DEF LinkView, ServerInv, Typed
-----------------------------------------------------------------------------
(* Before the listener has started, machines start and nothing else.        *)

LEMMA NotYet ==
  ASSUME ServerInv, QueueInv, ~ Started, NEW m, NEW s, NEW c, Receive(m, s, c)
  PROVE  s = "init" /\ Head(queue) = Self(m, "M0")
<1>1. PICK q \in Seq(Message) : q = queue
  BY DEF ServerInv, Typed
<1>2. q # << >> /\ Head(q) = q[1] /\ 1 \in DOMAIN q /\ Head(q).dst = m /\ state[m] = s
  BY <1>1, Basics DEF Receive
<1>3. q[1] = Self(q[1].dst, "M0") /\ state[q[1].dst] = "init"
  BY <1>1, <1>2 DEF QueueInv, Starting
<1>. QED
  BY <1>1, <1>2, <1>3

LEMMA StartStep ==
  ASSUME ServerInv, QueueInv, ~ Started, NEW d, Receive(d, "init", "M0"), Puts(<< >>),
         state'[d] # "init", d = listener => Started',
         \A x \in Machine : x # d => state'[x] = state[x]
  PROVE  QueueInv'
<1>1. PICK q \in Seq(Message) : q = queue
  BY DEF ServerInv, Typed
<1>2. PICK o : o = Tail(q)
  OBVIOUS
<1>3. PICK N \in Nat : N = Len(StartOrder)
  BY StartsInOrder
<1>4. PICK n : n = Len(q) - 1
  OBVIOUS
<1>5. /\ n \in Nat /\ Len(q) = n + 1 /\ n + 1 <= N /\ IsInjective(q)
      /\ \A k \in 1 .. n + 1 : q[k] = Self(q[k].dst, "M0") /\ state[q[k].dst] = "init"
      /\ q[n + 1] = Self(listener, "M0") /\ DOMAIN q = 1 .. n + 1
  <2>1. Starting
    BY DEF QueueInv
  <2>2. Len(q) \in 1 .. N /\ DOMAIN q = 1 .. Len(q)
    BY <1>1, <1>3, <2>1, LenProperties DEF Starting
  <2>3. n \in Nat /\ Len(q) = n + 1
    BY <1>4, <2>2
  <2>. QED
    BY <1>1, <1>3, <2>1, <2>2, <2>3 DEF Starting
<1>6. q # << >> /\ q[1] = Self(d, "M0") /\ Head(q) = q[1]
  BY <1>1, Basics, NotYet DEF Receive
<1>7. /\ o \in Seq(Message) /\ Len(o) = n /\ DOMAIN o = 1 .. n
      /\ \A k \in 1 .. n : o[k] = q[k + 1] /\ k + 1 \in 1 .. n + 1
  BY <1>2, <1>4, <1>5, <1>6, HeadTailProperties, LenProperties
<1>8. queue' = o
  <2>1. Tail(q) \o << >> = Tail(q)
    BY <1>2, <1>7, ConcatEmptySeq
  <2>. QED
    BY <1>1, <1>2, <2>1 DEF Puts
<1>9. \A j, k \in 1 .. n : o[j] = o[k] => j = k
  <2>1. ASSUME NEW j \in 1 .. n, NEW k \in 1 .. n, o[j] = o[k]
        PROVE  j = k
    <3>1. q[j + 1] = q[k + 1] /\ j + 1 \in DOMAIN q /\ k + 1 \in DOMAIN q
      BY <1>5, <1>7, <2>1
    <3>2. j + 1 = k + 1
      BY <1>5, <3>1 DEF IsInjective
    <3>. QED
      BY <3>2
  <2>. QED
    BY <2>1
<1>10. StartsOnce'
  BY <1>7, <1>8, <1>9 DEF StartsOnce, Self, Msg
<1>11. CASE d = listener
  <2>1. n = 0
    <3>1. q[1] = q[n + 1] /\ 1 \in DOMAIN q /\ n + 1 \in DOMAIN q
      BY <1>5, <1>6, <1>11
    <3>2. 1 = n + 1
      BY <1>5, <3>1 DEF IsInjective
    <3>. QED
      BY <1>5, <3>2
  <2>2. DOMAIN o = {}
    BY <1>7, <2>1
  <2>3. PICK g : g = [k \in {} |-> {}]
    OBVIOUS
  <2>4. g \in [DOMAIN o -> SUBSET Token]
    BY <2>2, <2>3
  <2>5. Paid'
    BY <1>8, <2>2, <2>4 DEF Paid, Token
  <2>. QED
    BY <1>10, <1>11, <2>5 DEF QueueInv
<1>12. CASE d # listener
  <2>1. ~ Started'
    BY <1>12, Kinships DEF Started
  <2>2. n >= 1
    <3>1. Self(d, "M0") # Self(listener, "M0")
      BY <1>12, SelfFields
    <3>2. n # 0
      BY <1>5, <1>6, <3>1
    <3>. QED
      BY <1>5, <3>2
  <2>3. n \in 1 .. N
    BY <1>5, <2>2
  <2>4. \A k \in 1 .. n : o[k] = Self(o[k].dst, "M0") /\ state'[o[k].dst] = "init"
    <3>1. ASSUME NEW k \in 1 .. n
          PROVE  o[k] = Self(o[k].dst, "M0") /\ state'[o[k].dst] = "init"
      <4>1. PICK e : e = o[k].dst
        OBVIOUS
      <4>2. o[k] = Self(e, "M0") /\ state[e] = "init" /\ o[k] \in Message
        BY <1>5, <1>7, <4>1
      <4>3. e \in Machine
        BY <4>1, <4>2 DEF Message
      <4>4. e # d
        <5>1. k + 1 # 1 /\ k + 1 \in DOMAIN q /\ 1 \in DOMAIN q
          BY <1>5
        <5>2. q[k + 1] # q[1]
          BY <1>5, <5>1 DEF IsInjective
        <5>. QED
          BY <1>6, <1>7, <4>2, <5>2
      <4>. QED
        BY <4>1, <4>2, <4>3, <4>4
    <3>. QED
      BY <3>1
  <2>5. o[n] = Self(listener, "M0")
    BY <1>5, <1>7, <2>3
  <2>6. IsInjective(o)
    BY <1>7, <1>9 DEF IsInjective
  <2>7. Starting'
    BY <1>3, <1>7, <1>8, <2>3, <2>4, <2>5, <2>6 DEF Starting, Self, Msg, IsInjective
  <2>. QED
    BY <1>10, <2>1, <2>7 DEF QueueInv
<1>. QED
  BY <1>11, <1>12

-----------------------------------------------------------------------------
(* The handlers pay for what they put. *)

(* Nobody but m moves, and m does not start. *)
OnlyMoves(m) ==
  /\ \A x \in Machine : x # m => state'[x] = state[x]
  /\ state'[m] # "init"

LEMMA StaysStarted ==
  ASSUME Started, NEW m \in Machine, OnlyMoves(m), m # listener \/ state'[m] = state[m]
  PROVE  Started'
BY Kinships DEF OnlyMoves, Started

(* What weighs little. *)
LEMMA Light ==
  ASSUME NEW a \in Machine, a # listener, NEW b \in Machine, NEW p \in Machine \cup Client \cup {NULL},
         NEW c \in Code0, NEW x, x = Msg(a, b, p, c)
  PROVE  /\ x \in Message /\ x.src = a /\ x.dst = b /\ x.code = c
         /\ Weight(x)' \in 1 .. 2
         /\ b \notin Worker \/ c = "M3" => Weight(x)' = 1
         /\ c = "M0" /\ state'[b] = "init" => Weight(x)' = 1
<1>1. x \in Message /\ x.src = a /\ x.dst = b /\ x.code = c
  BY MsgType, MsgFields
<1>2. x.src \notin {NULL, listener}
  BY <1>1, Kinships
<1>. QED
  BY <1>1, <1>2, Weights

(* A helper that handles a message. *)
LEMMA HelperPays ==
  ASSUME ServerInv, QueueInv, NEW m \in Helper, NEW s, NEW c, Receive(m, s, c), OnlyMoves(m),
         \/ Puts(<< >>)
         \/ s # "init" /\ Puts(<<Self(m, "M0")>>)
         \/ /\ s = "work" /\ c \notin {"M0", "M1", "M2", "M3"}
            /\ \E a \in {"M1", "M2"} : Puts(<<Msg(m, job[m], NULL, a), Self(m, "M0")>>)
         \/ /\ s = "work" /\ c \notin {"M0", "M1", "M2", "M3"}
            /\ \E a \in {"M1", "M2"} : Puts(<<Self(m, "M0"), Msg(m, job[m], NULL, a)>>)
  PROVE  QueueInv'
<1>1. m \in Machine /\ m \notin Worker /\ m # listener /\ m # NULL /\ Worker \subseteq Machine
  BY Kinships
<1>2. PICK h : h = Head(queue)
  OBVIOUS
<1>3. /\ queue # << >> /\ h \in Message /\ h.dst = m /\ state[m] = s
      /\ c \notin {"M0", "M1", "M2", "M3"} => IsEvent(h)
  BY <1>2, HeadSays
<1>4. /\ \A w \in Worker : state'[w] = "init" <=> state[w] = "init"
      /\ \A w \in Worker : Self(w, "M0") # Self(m, "M0")
  BY <1>1, SelfFields DEF OnlyMoves
<1>5. CASE ~ Started
  <2>1. s = "init"
    BY <1>5, NotYet
  <2>2. Receive(m, "init", "M0")
    <3>1. Head(queue) = Self(m, "M0")
      BY <1>5, NotYet
    <3>2. Code(Head(queue)) = "M0"
      BY <3>1, SelfFields DEF Code
    <3>. QED
      BY <2>1, <3>2 DEF Receive
  <2>3. Puts(<< >>)
    BY <2>1
  <2>. QED
    BY <1>1, <1>5, <2>2, <2>3, StartStep DEF OnlyMoves
<1>6. CASE Started
  <2>1. Started'
    BY <1>1, <1>6, StaysStarted
  <2>2. CASE Puts(<< >>)
    BY <1>3, <1>4, <1>6, <2>1, <2>2, PutNone
  <2>3. PICK y : y = Self(m, "M0")
    OBVIOUS
  <2>4. y \in Message /\ Weight(y)' = 1
    BY <1>1, <2>3, Light DEF Self, Code0
  <2>5. CASE Puts(<<y>>)
    <3>1. Weight(y)' <= Weight(Head(queue))
      BY <2>4, WeightType
    <3>. QED
      BY <1>3, <1>4, <1>6, <2>1, <2>3, <2>4, <2>5, <3>1, PutOne
  <2>6. ASSUME s = "work", IsEvent(h), NEW a \in {"M1", "M2"}
        PROVE  \E x \in Message : /\ x = Msg(m, job[m], NULL, a) /\ x.code # "M0"
                                  /\ Weight(x)' + Weight(y)' <= Weight(Head(queue))
                                  /\ Weight(y)' + Weight(x)' <= Weight(Head(queue))
    <3>1. PICK w \in Worker : w = job[m]
      BY <1>3, <2>6, HasWorker
    <3>2. PICK x : x = Msg(m, w, NULL, a)
      OBVIOUS
    <3>3. x \in Message /\ x.code = a /\ Weight(x)' \in 1 .. 2
      BY <1>1, <3>2, Light DEF Code0
    <3>4. Weight(Head(queue)) = 3
      BY <1>2, <2>6, Weights
    <3>. QED
      BY <2>4, <3>1, <3>2, <3>3, <3>4
  <2>7. \A x : \A w \in Worker : x.code # "M0" => x # Self(w, "M0")
    BY SelfFields
  <2>8. ASSUME s = "work", IsEvent(h), NEW a \in {"M1", "M2"}, Puts(<<Msg(m, job[m], NULL, a), y>>)
        PROVE  QueueInv'
    <3>1. PICK x \in Message : /\ x = Msg(m, job[m], NULL, a) /\ x.code # "M0"
                               /\ Weight(x)' + Weight(y)' <= Weight(Head(queue))
      BY <2>6, <2>8
    <3>2. Puts(<<x, y>>)
      BY <2>8, <3>1
    <3>3. \A w \in Worker : state'[w] = "init" =>
            state[w] = "init" /\ x # Self(w, "M0") /\ y # Self(w, "M0")
      BY <1>4, <2>3, <2>7, <3>1
    <3>. QED
      BY <1>3, <1>4, <1>6, <2>1, <2>4, <3>1, <3>2, <3>3, PutTwo
  <2>9. ASSUME s = "work", IsEvent(h), NEW a \in {"M1", "M2"}, Puts(<<y, Msg(m, job[m], NULL, a)>>)
        PROVE  QueueInv'
    <3>1. PICK x \in Message : /\ x = Msg(m, job[m], NULL, a) /\ x.code # "M0"
                               /\ Weight(y)' + Weight(x)' <= Weight(Head(queue))
      BY <2>6, <2>9
    <3>2. Puts(<<y, x>>)
      BY <2>9, <3>1
    <3>3. \A w \in Worker : state'[w] = "init" =>
            state[w] = "init" /\ y # Self(w, "M0") /\ x # Self(w, "M0")
      BY <1>4, <2>3, <2>7, <3>1
    <3>. QED
      BY <1>3, <1>4, <1>6, <2>1, <2>4, <3>1, <3>2, <3>3, PutTwo
  <2>. QED
    BY <1>3, <2>2, <2>3, <2>5, <2>8, <2>9
<1>. QED
  BY <1>5, <1>6

LEMMA ExitPays ==
  ASSUME QueueInv, NEW why, Exit(why)
  PROVE  QueueInv'
BY QueueSame DEF Exit, machineVars

LEMMA RxPays ==
  ASSUME ServerInv, QueueInv, RxExec
  PROVE  QueueInv'
<1>1. PICK m \in Rx : \/ rx_init_M0(m) \/ rx_idle_M1(m) \/ rx_idle_M0(m)
                      \/ rx_work_D0(m) \/ rx_work_D0_fails(m)
                      \/ rx_work_D2(m) \/ rx_work_T0(m) \/ rx_work_M0(m)
  BY DEF RxExec
<1>2. m \in Helper /\ m \in Machine /\ state \in [Machine -> {"none", "init", "idle", "work", "getp", "ackp"}]
  BY Kinships DEF ServerInv, Typed
<1>3. \A s, c : Receive(m, s, c) /\ s # "init" /\ UNCHANGED state => OnlyMoves(m)
  BY DEF Receive, OnlyMoves
<1>4. ASSUME NEW s \in {"idle", "work"}, state' = [state EXCEPT ![m] = s]
      PROVE  OnlyMoves(m)
  BY <1>2, <1>4 DEF OnlyMoves
<1>5. CASE rx_init_M0(m)
  BY <1>2, <1>4, <1>5, HelperPays DEF rx_init_M0
<1>6. CASE rx_idle_M1(m)
  <2>1. CASE \E why : Exit(why)
    BY <2>1, ExitPays
  <2>2. CASE Puts(<<Self(m, "M0")>>) /\ UNCHANGED state
    <3>1. Receive(m, "idle", "M1")
      BY <1>6 DEF rx_idle_M1
    <3>2. OnlyMoves(m)
      BY <1>3, <2>2, <3>1
    <3>. QED
      BY <1>2, <2>2, <3>1, <3>2, HelperPays
  <2>. QED
    BY <1>6, <2>1, <2>2 DEF rx_idle_M1
<1>7. CASE rx_idle_M0(m)
  <2>1. CASE \E why : Exit(why)
    BY <2>1, ExitPays
  <2>2. CASE Puts(<< >>) /\ state' = [state EXCEPT ![m] = "work"]
    BY <1>2, <1>4, <1>7, <2>2, HelperPays DEF rx_idle_M0
  <2>. QED
    BY <1>7, <2>1, <2>2 DEF rx_idle_M0
<1>8. ASSUME NEW c \in {"D0", "D2", "T0"}, Receive(m, "work", c), UNCHANGED state,
             Puts(<< >>) \/ Puts(DoneMsgs(m, "M1")) \/ Puts(DoneMsgs(m, "M2"))
      PROVE  QueueInv'
  <2>1. OnlyMoves(m)
    BY <1>3, <1>8
  <2>2. c \notin {"M0", "M1", "M2", "M3"}
    OBVIOUS
  <2>. QED
    BY <1>2, <1>8, <2>1, <2>2, HelperPays DEF DoneMsgs
<1>9. CASE rx_work_D0(m)
  <2>1. Puts(<< >>) \/ Puts(DoneMsgs(m, "M1"))
    BY <1>9 DEF rx_work_D0, ReadChunks
  <2>. QED
    BY <1>8, <1>9, <2>1 DEF rx_work_D0
<1>10. CASE rx_work_D0_fails(m)
  BY <1>8, <1>10 DEF rx_work_D0_fails
<1>11. CASE rx_work_D2(m)
  BY <1>8, <1>11 DEF rx_work_D2
<1>12. CASE rx_work_T0(m)
  <2>1. CASE \E why : Exit(why)
    BY <2>1, ExitPays
  <2>2. CASE UNCHANGED state /\ (Puts(<< >>) \/ Puts(DoneMsgs(m, "M2")))
    BY <1>8, <1>12, <2>2 DEF rx_work_T0
  <2>. QED
    BY <1>12, <2>1, <2>2 DEF rx_work_T0
<1>13. CASE rx_work_M0(m)
  BY <1>2, <1>4, <1>13, HelperPays DEF rx_work_M0
<1>. QED
  BY <1>1, <1>5, <1>6, <1>7, <1>9, <1>10, <1>11, <1>12, <1>13

LEMMA TxPays ==
  ASSUME ServerInv, QueueInv, TxExec
  PROVE  QueueInv'
<1>1. PICK m \in Tx : \/ tx_init_M0(m) \/ tx_idle_M1(m) \/ tx_idle_M0(m)
                      \/ tx_work_D1(m) \/ tx_work_D1_fails(m) \/ tx_work_D1_breaks(m)
                      \/ tx_work_D2(m) \/ tx_work_M0(m)
  BY DEF TxExec
<1>2. m \in Helper /\ m \in Machine /\ state \in [Machine -> {"none", "init", "idle", "work", "getp", "ackp"}]
  BY Kinships DEF ServerInv, Typed
<1>3. \A s, c : Receive(m, s, c) /\ s # "init" /\ UNCHANGED state => OnlyMoves(m)
  BY DEF Receive, OnlyMoves
<1>4. ASSUME NEW s \in {"idle", "work"}, state' = [state EXCEPT ![m] = s]
      PROVE  OnlyMoves(m)
  BY <1>2, <1>4 DEF OnlyMoves
<1>5. CASE tx_init_M0(m)
  BY <1>2, <1>4, <1>5, HelperPays DEF tx_init_M0
<1>6. CASE tx_idle_M1(m)
  <2>1. CASE \E why : Exit(why)
    BY <2>1, ExitPays
  <2>2. CASE Puts(<<Self(m, "M0")>>) /\ UNCHANGED state
    <3>1. Receive(m, "idle", "M1")
      BY <1>6 DEF tx_idle_M1
    <3>2. OnlyMoves(m)
      BY <1>3, <2>2, <3>1
    <3>. QED
      BY <1>2, <2>2, <3>1, <3>2, HelperPays
  <2>. QED
    BY <1>6, <2>1, <2>2 DEF tx_idle_M1
<1>7. CASE tx_idle_M0(m)
  <2>1. CASE \E why : Exit(why)
    BY <2>1, ExitPays
  <2>2. CASE Puts(<< >>) /\ state' = [state EXCEPT ![m] = "work"]
    BY <1>2, <1>4, <1>7, <2>2, HelperPays DEF tx_idle_M0
  <2>. QED
    BY <1>7, <2>1, <2>2 DEF tx_idle_M0
<1>8. ASSUME NEW c \in {"D1", "D2"}, Receive(m, "work", c), UNCHANGED state,
             Puts(<< >>) \/ Puts(TxDoneMsgs(m, "M1")) \/ Puts(TxDoneMsgs(m, "M2"))
      PROVE  QueueInv'
  <2>1. OnlyMoves(m)
    BY <1>3, <1>8
  <2>2. c \notin {"M0", "M1", "M2", "M3"}
    OBVIOUS
  <2>. QED
    BY <1>2, <1>8, <2>1, <2>2, HelperPays DEF TxDoneMsgs
<1>9. CASE tx_work_D1(m)
  <2>1. Puts(<< >>) \/ Puts(TxDoneMsgs(m, "M1"))
    BY <1>9 DEF tx_work_D1
  <2>. QED
    BY <1>8, <1>9, <2>1 DEF tx_work_D1
<1>10. CASE tx_work_D1_fails(m)
  BY <1>8, <1>10 DEF tx_work_D1_fails
<1>11. CASE tx_work_D2(m)
  BY <1>8, <1>11 DEF tx_work_D2
<1>12. CASE tx_work_M0(m)
  BY <1>2, <1>4, <1>12, HelperPays DEF tx_work_M0
<1>13. CASE tx_work_D1_breaks(m)
  BY <1>13, ExitPays DEF tx_work_D1_breaks
<1>. QED
  BY <1>1, <1>5, <1>6, <1>7, <1>9, <1>10, <1>11, <1>12, <1>13

(* A machine is taken from its pool and told; another may be created.       *)
LEMMA AskPays ==
  ASSUME ServerInv, QueueInv, Started, queue # << >>,
         NEW k \in Kinds, AnyFresh(k), NEW ask \in Message, ask.code = "M1",
         Puts(AddSmMsgs(k) \o <<ask>>), Weight(ask)' + 1 <= Weight(Head(queue)),
         NEW d \in Machine, d # listener, state[d] \notin {"none", "init"}, state'[d] # "init",
         \A x \in Machine : x # d => state'[x] = StateAfterAddSm(k)[x]
  PROVE  QueueInv'
<1>1. Typed /\ Alive /\ listener \in Machine /\ Worker \subseteq Machine
  BY Kinships DEF ServerInv, StaysInStep
<1>2. /\ Created(k) \subseteq Members[k] /\ \A z \in Created(k) : state[z] = "none"
      /\ LastTaken(k) => Fresh(k) \in Machine
      /\ \A x \in Machine : x # d => state'[x] = IF x \in Created(k) THEN "init" ELSE state[x]
  BY <1>1, Freshly
<1>3. Started'
  <2>1. listener \notin Created(k)
    BY <1>2 DEF Started
  <2>. QED
    BY <1>1, <1>2, <2>1 DEF Started
<1>4. \A w \in Worker : state[w] = "init" => state'[w] = "init"
  BY <1>1, <1>2
<1>5. \A w \in Worker : ask # Self(w, "M0")
  BY SelfFields
<1>6. CASE ~ LastTaken(k)
  <2>1. AddSmMsgs(k) \o <<ask>> = <<ask>>
    BY <1>6 DEF AddSmMsgs
  <2>2. Puts(<<ask>>)
    BY <2>1
  <2>3. \A w \in Worker : state'[w] = "init" <=> state[w] = "init"
    BY <1>1, <1>2, <1>6 DEF Created
  <2>4. Weight(ask)' <= Weight(Head(queue))
    BY Weights, WeightType
  <2>. QED
    BY <1>5, <1>3, <2>2, <2>3, <2>4, PutOne
<1>7. CASE LastTaken(k)
  <2>1. PICK f \in Machine : f = Fresh(k)
    BY <1>2, <1>7
  <2>2. PICK y : y = Self(f, "M0")
    OBVIOUS
  <2>3. Created(k) = {f} /\ state[f] = "none" /\ f # d /\ f # listener
    BY <1>2, <1>7, <2>1 DEF Created, Started
  <2>4. state'[f] = "init"
    BY <1>2, <2>3
  <2>5. y \in Message /\ y.dst = f /\ Weight(y)' = 1
    BY <2>2, <2>3, <2>4, Light DEF Self, Code0
  <2>6. AddSmMsgs(k) \o <<ask>> = <<y, ask>>
    <3>1. AddSmMsgs(k) = <<y>>
      BY <1>7, <2>1, <2>2 DEF AddSmMsgs
    <3>. QED
      BY <2>5, <3>1, OneThenOne
  <2>7. Puts(<<y, ask>>)
    BY <2>6
  <2>8. y \notin ToSet(queue)
    BY <1>1, <2>3, <2>5 DEF Alive
  <2>9. ASSUME NEW w \in Worker, state'[w] = "init"
        PROVE  \/ state[w] = "init" /\ y # Self(w, "M0") /\ ask # Self(w, "M0")
               \/ Self(w, "M0") \notin ToSet(queue) /\ ask # Self(w, "M0")
    <3>1. CASE w = f
      BY <1>5, <2>2, <2>8, <3>1
    <3>2. CASE w # f
      <4>1. state[w] = "init"
        BY <1>1, <1>2, <2>3, <2>9, <3>2
      <4>2. y # Self(w, "M0")
        BY <2>5, <3>2, SelfFields
      <4>. QED
        BY <1>5, <4>1, <4>2
    <3>. QED
      BY <3>1, <3>2
  <2>10. Weight(y)' + Weight(ask)' <= Weight(Head(queue))
    BY <2>5, Weights, WeightType
  <2>. QED
    BY <1>3, <1>4, <2>5, <2>7, <2>9, <2>10, PutTwo
<1>. QED
  BY <1>6, <1>7

LEMMA WorkerPays ==
  ASSUME ServerInv, PoolInv, QueueInv, WorkerExec
  PROVE  QueueInv'
<1>1. PICK w \in Worker : \/ worker_init_M0(w) \/ worker_idle_M1(w) \/ worker_M0_getp(w)
                          \/ worker_M0_ackp(w) \/ worker_M1(w) \/ worker_M2(w) \/ worker_M3(w)
  BY DEF WorkerExec
<1>2. /\ w \in Machine /\ w # listener /\ w # manager /\ w # NULL /\ Worker \subseteq Machine
      /\ manager \in Machine /\ manager \notin Worker
      /\ state \in [Machine -> {"none", "init", "idle", "work", "getp", "ackp"}]
      /\ wi[w].ci \in Client \cup {NULL}
  BY Kinships, ZenonT(40) DEF ServerInv, Typed, Info
<1>3. PICK h : h = Head(queue)
  OBVIOUS
<1>4. ASSUME NEW s, NEW c \in {"M0", "M1", "M2", "M3"}, Receive(w, s, c)
      PROVE  /\ queue # << >> /\ h.dst = w /\ h.code = c /\ Shape(h) /\ state[w] = s
             /\ c = "M0" => h = Self(w, "M0")
             /\ c \in {"M1", "M2"} \/ (c = "M0" /\ s # "init") => Weight(h) >= 2
  <2>1. queue # << >> /\ h.dst = w /\ h.code = c /\ Shape(h) /\ state[w] = s
    BY <1>3, <1>4, HeadSays
  <2>2. c = "M0" => h = Self(w, "M0")
    BY <2>1, MeantToStart
  <2>3. c \in {"M1", "M2"} \/ (c = "M0" /\ s # "init") => Weight(h) >= 2
    BY <2>1, Weights
  <2>. QED
    BY <2>1, <2>2, <2>3
<1>5. ASSUME NEW s, NEW c, Receive(w, s, c), s # "init"
      PROVE  Started
  BY <1>5, NotYet
<1>6. ASSUME NEW s \in {"idle", "getp", "ackp"}, state' = [state EXCEPT ![w] = s]
      PROVE  OnlyMoves(w)
  BY <1>2, <1>6 DEF OnlyMoves
<1>7. ASSUME OnlyMoves(w), state[w] # "init"
      PROVE  \A v \in Worker : state'[v] = "init" <=> state[v] = "init"
  BY <1>2, <1>7 DEF OnlyMoves
(* Giving up. *)
<1>8. ASSUME NEW s \in {"idle", "getp", "ackp"}, NEW c \in {"M0", "M2"}, Receive(w, s, c), OnlyMoves(w),
             Puts(GiveUpMsgs(w))
      PROVE  QueueInv'
  <2>1. Started /\ Started'
    BY <1>2, <1>5, <1>8, StaysStarted
  <2>2. queue # << >> /\ state[w] # "init" /\ Weight(Head(queue)) >= 2
    BY <1>3, <1>4, <1>8
  <2>3. PICK x, y : x = Msg(w, manager, wi[w].ci, "M1") /\ y = Self(w, "M3")
    OBVIOUS
  <2>4. x \in Message /\ x.code = "M1" /\ Weight(x)' = 1
    BY <1>2, <2>3, Light DEF Code0
  <2>5. y \in Message /\ y.code = "M3" /\ Weight(y)' = 1
    BY <1>2, <2>3, Light DEF Self, Code0
  <2>6. Puts(<<x, y>>)
    BY <1>8, <2>3 DEF GiveUpMsgs
  <2>7. \A v \in Worker : x # Self(v, "M0") /\ y # Self(v, "M0")
    BY <2>4, <2>5, SelfFields
  <2>8. Weight(x)' + Weight(y)' <= Weight(Head(queue))
    BY <2>2, <2>4, <2>5, WeightType
  <2>9. \A v \in Worker : state'[v] = "init" <=> state[v] = "init"
    BY <1>7, <1>8, <2>2
  <2>. QED
    BY <2>1, <2>2, <2>4, <2>5, <2>6, <2>7, <2>8, <2>9, PutTwo
(* Going on. *)
<1>9. ASSUME NEW s \in {"idle", "getp", "ackp"}, Receive(w, s, "M1"), UNCHANGED state,
             Puts(<<Self(w, "M0")>>)
      PROVE  QueueInv'
  <2>1. OnlyMoves(w) /\ queue # << >> /\ state[w] = s /\ Weight(Head(queue)) >= 2
    BY <1>3, <1>4, <1>9 DEF OnlyMoves
  <2>2. Started /\ Started'
    BY <1>2, <1>5, <1>9, <2>1, StaysStarted
  <2>3. PICK y : y = Self(w, "M0")
    OBVIOUS
  <2>4. y \in Message /\ Weight(y)' \in 1 .. 2 /\ y.dst = w
    BY <1>2, <2>3, Light DEF Self, Code0
  <2>5. Weight(y)' <= Weight(Head(queue))
    BY <2>1, <2>4, WeightType
  <2>6. \A v \in Worker : state[v] = "init" => y # Self(v, "M0")
    BY <2>1, <2>4, SelfFields
  <2>7. Puts(<<y>>)
    BY <1>9, <2>3
  <2>8. \A v \in Worker : state'[v] = "init" <=> state[v] = "init"
    BY <1>9
  <2>. QED
    BY <2>1, <2>2, <2>4, <2>5, <2>6, <2>7, <2>8, PutOne
(* Asking a helper. *)
<1>10. ASSUME NEW k \in {"rx", "tx"}, NEW s \in {"idle", "getp", "ackp"}, Receive(w, s, "M0"),
              NEW t \in {"getp", "ackp"}, ~ pool_is_empty(pool[k]), AnyFresh(k),
              pool' = PoolAfterGet(k),
              Puts(AddSmMsgs(k) \o <<Msg(w, Taken(pool[k]), w, "M1")>>),
              state' = [StateAfterAddSm(k) EXCEPT ![w] = t]
       PROVE  QueueInv'
  <2>1. Typed /\ PoolShape /\ k \in Kinds
    BY DEF ServerInv, Kinds
  <2>2. Started /\ queue # << >> /\ state[w] = s /\ Weight(Head(queue)) >= 2
    BY <1>3, <1>4, <1>5, <1>10
  <2>3. PICK n : n = Taken(pool[k])
    OBVIOUS
  <2>4. n \in Machine /\ n \notin Worker
    <3>1. n \in Members[k]
      BY <1>10, <2>1, <2>3, PoolGet
    <3>2. Members[k] \subseteq Helper
      BY DEF Members, Helper
    <3>. QED
      BY <3>1, <3>2, Kinships
  <2>5. PICK ask : ask = Msg(w, n, w, "M1")
    OBVIOUS
  <2>6. ask \in Message /\ ask.code = "M1" /\ Weight(ask)' = 1
    BY <1>2, <2>4, <2>5, Light DEF Code0
  <2>7. StateAfterAddSm(k) \in [Machine -> {"none", "init", "idle", "work", "getp", "ackp"}]
    BY <1>10, <2>1, Freshly
  <2>8. state'[w] # "init" /\ \A x \in Machine : x # w => state'[x] = StateAfterAddSm(k)[x]
    BY <1>2, <1>10, <2>7
  <2>9. Puts(AddSmMsgs(k) \o <<ask>>) /\ Weight(ask)' + 1 <= Weight(Head(queue))
    BY <1>10, <2>2, <2>3, <2>5, <2>6, WeightType
  <2>10. w \in Machine /\ w # listener /\ state[w] \notin {"none", "init"}
    BY <1>2, <2>2
  <2>. QED
    BY <1>10, <2>1, <2>2, <2>6, <2>8, <2>9, <2>10, AskPays
<1>11. CASE worker_init_M0(w)
  <2>1. OnlyMoves(w) /\ Puts(<< >>) /\ Receive(w, "init", "M0")
    BY <1>6, <1>11 DEF worker_init_M0, worker_idle_enter
  <2>2. CASE Started
    <3>1. Started'
      BY <1>2, <2>1, <2>2, StaysStarted
    <3>2. queue # << >> /\ Head(queue) = Self(w, "M0")
      BY <1>3, <1>4, <2>1
    <3>3. \A v \in Worker : state'[v] = "init" => state[v] = "init"
      BY <1>2, <2>1 DEF OnlyMoves
    <3>4. \A v \in Worker : state[v] = "init" /\ state'[v] # "init" => v = w
      BY <1>2, <2>1 DEF OnlyMoves
    <3>. QED
      BY <2>1, <2>2, <3>1, <3>2, <3>3, <3>4, PutNone
  <2>3. CASE ~ Started
    BY <1>2, <2>1, <2>3, StartStep DEF OnlyMoves
  <2>. QED
    BY <2>2, <2>3
<1>12. CASE worker_idle_M1(w)
  <2>1. CASE \E why : Exit(why)
    BY <2>1, ExitPays
  <2>2. CASE Puts(<<Self(w, "M0")>>) /\ UNCHANGED state
    BY <1>9, <1>12, <2>2 DEF worker_idle_M1
  <2>. QED
    BY <1>12, <2>1, <2>2 DEF worker_idle_M1
<1>13. CASE worker_M0_getp(w)
  <2>1. PICK s \in {"idle", "ackp"} : Receive(w, s, "M0")
    BY <1>13 DEF worker_M0_getp
  <2>2. CASE pool_is_empty(pool["rx"])
    <3>1. OnlyMoves(w) /\ Puts(GiveUpMsgs(w))
      BY <1>6, <1>13, <2>2 DEF worker_M0_getp, worker_getp_enter
    <3>. QED
      BY <1>8, <2>1, <3>1
  <2>3. CASE ~ pool_is_empty(pool["rx"])
    BY <1>10, <1>13, <2>1, <2>3 DEF worker_M0_getp, worker_getp_enter
  <2>. QED
    BY <2>2, <2>3
<1>14. CASE worker_M0_ackp(w)
  <2>1. Receive(w, "getp", "M0")
    BY <1>14 DEF worker_M0_ackp
  <2>2. CASE pool_is_empty(pool["tx"])
    <3>1. OnlyMoves(w) /\ Puts(GiveUpMsgs(w))
      BY <1>6, <1>14, <2>2 DEF worker_M0_ackp, worker_ackp_enter
    <3>. QED
      BY <1>8, <2>1, <3>1
  <2>3. CASE ~ pool_is_empty(pool["tx"])
    BY <1>10, <1>14, <2>1, <2>3 DEF worker_M0_ackp, worker_ackp_enter
  <2>. QED
    BY <2>2, <2>3
<1>15. CASE worker_M1(w)
  <2>1. UNCHANGED state /\ Puts(<<Self(w, "M0")>>)
    BY <1>15 DEF worker_M1, machineVars
  <2>. QED
    BY <1>9, <1>15, <2>1 DEF worker_M1
<1>16. CASE worker_M2(w)
  <2>1. UNCHANGED state /\ Puts(GiveUpMsgs(w))
    BY <1>16 DEF worker_M2, machineVars
  <2>2. PICK s \in {"getp", "ackp"} : Receive(w, s, "M2")
    BY <1>16 DEF worker_M2
  <2>3. OnlyMoves(w)
    BY <2>1, <2>2 DEF OnlyMoves, Receive
  <2>. QED
    BY <1>8, <2>1, <2>2, <2>3
<1>17. CASE worker_M3(w)
  <2>1. PICK s \in {"getp", "ackp"} : Receive(w, s, "M3")
    BY <1>17 DEF worker_M3
  <2>2. OnlyMoves(w) /\ Puts(<< >>)
    BY <1>6, <1>17 DEF worker_M3, worker_idle_enter
  <2>3. queue # << >> /\ state[w] # "init"
    BY <2>1 DEF Receive
  <2>4. Started /\ Started'
    BY <1>2, <1>5, <2>1, <2>2, StaysStarted
  <2>5. \A v \in Worker : state'[v] = "init" <=> state[v] = "init"
    BY <1>7, <2>2, <2>3
  <2>. QED
    BY <2>2, <2>3, <2>4, <2>5, PutNone
<1>. QED
  BY <1>1, <1>11, <1>12, <1>13, <1>14, <1>15, <1>16, <1>17

(* The manager takes its M0 from the listener for a new client. *)
LEMMA NewClientFromListener ==
  ASSUME ServerInv, Receive(manager, "work", "M0")
  PROVE  Head(queue).src = listener
<1>1. PICK o \in Seq(Message) : o = queue
  BY DEF ServerInv, Typed
<1>2. PICK h : h = Head(o)
  OBVIOUS
<1>3. h.dst = manager /\ h.code = "M0" /\ ~ IsEvent(h) /\ state[manager] = "work" /\ o # << >>
  BY <1>1, <1>2, HeadSays
<1>4. ASSUME NEW S, Views(S), h \in S
      PROVE  h.src = listener
  BY <1>3, <1>4, ManagerTold
<1>5. PICK q \in Seq(Message) : InStep(q) /\ (q = queue \/ Ruined(q))
  BY DEF ServerInv, StaysInStep
<1>6. Views(ToSet(q))
  BY <1>5 DEF InStep
<1>7. CASE q = queue
  <2>1. h \in ToSet(q)
    BY <1>1, <1>2, <1>3, <1>7, Basics
  <2>. QED
    BY <1>1, <1>2, <1>4, <1>6, <2>1
<1>8. ASSUME NEW m \in Rx, AtTheEnd(m)
      PROVE  FALSE
  BY <1>1, <1>2, <1>3, <1>8, SelfFields, Kinships DEF AtTheEnd
<1>9. ASSUME NEW m \in Rx, AnsweredAgain(m, q)
      PROVE  h.src = listener
  <2>1. PICK w \in Worker, live \in Seq(Message), after \in Seq(Message), more \in Seq(Message) :
          /\ q = live \o after /\ queue = live \o more
          /\ AnswerBehind(m, w, live) /\ AnswerIn(m, w, more)
    BY ONLY <1>9, AnswerKnown
  <2>2. CASE live = << >>
    <3>1. o = more
      BY <1>1, <2>1, <2>2, ConcatEmptySeq
    <3>2. h = Msg(m, w, NULL, "M2")
      BY <1>2, <1>3, <2>1, <3>1, Basics DEF AnswerIn
    <3>. QED
      BY <1>3, <3>2, MsgFields, Kinships
  <2>3. CASE live # << >>
    <3>1. Head(q) = Head(live) /\ q # << >> /\ Head(o) = Head(live)
      BY <1>1, <2>1, <2>3, JoinedTail
    <3>2. h \in ToSet(q)
      BY <1>2, <3>1, Basics
    <3>. QED
      BY <1>4, <1>6, <3>2
  <2>. QED
    BY <2>2, <2>3
<1>. QED
  BY <1>1, <1>2, <1>4, <1>5, <1>7, <1>8, <1>9 DEF Ruined

(* The manager, the listener, the pool manager. *)
LEMMA SinglePays ==
  ASSUME ServerInv, QueueInv, NEW m \in {poolman, manager, listener},
         NEW s \in {"init", "work"}, NEW c, Receive(m, s, c), state' = [state EXCEPT ![m] = "work"],
         \/ Puts(<< >>)
         \/ /\ s = "work"
            /\ \E x \in Message : /\ Puts(<<x>>) /\ x.src # x.dst
                                  /\ Weight(x)' <= Weight(Head(queue))
  PROVE  QueueInv'
<1>1. m \in Machine /\ m \notin Worker /\ Worker \subseteq Machine
      /\ state \in [Machine -> {"none", "init", "idle", "work", "getp", "ackp"}]
  BY Kinships DEF ServerInv, Typed
<1>2. /\ state'[m] = "work" /\ \A x \in Machine : x # m => state'[x] = state[x]
      /\ \A w \in Worker : state'[w] = "init" <=> state[w] = "init"
      /\ queue # << >>
  BY <1>1 DEF Receive
<1>3. CASE ~ Started
  <2>1. s = "init" /\ Head(queue) = Self(m, "M0")
    BY <1>3, NotYet
  <2>2. Receive(m, "init", "M0")
    <3>1. Code(Head(queue)) = "M0"
      BY <2>1, SelfFields DEF Code
    <3>. QED
      BY <2>1, <3>1 DEF Receive
  <2>3. m = listener => Started'
    BY <1>2 DEF Started
  <2>. QED
    BY <1>2, <1>3, <2>1, <2>2, <2>3, StartStep
<1>4. CASE Started
  <2>1. Started'
    BY <1>2, <1>4, Kinships DEF Started
  <2>2. CASE Puts(<< >>)
    BY <1>2, <1>4, <2>1, <2>2, PutNone
  <2>3. ASSUME NEW x \in Message, Puts(<<x>>), x.src # x.dst, Weight(x)' <= Weight(Head(queue))
        PROVE  QueueInv'
    <3>1. \A w \in Worker : x # Self(w, "M0")
      BY <2>3, SelfFields
    <3>. QED
      BY <1>2, <1>4, <2>1, <2>3, <3>1, PutOne
  <2>. QED
    BY <2>2, <2>3
<1>. QED
  BY <1>3, <1>4

LEMMA ManagerPays ==
  ASSUME ServerInv, PoolInv, QueueInv, ManagerExec
  PROVE  QueueInv'
<1>1. /\ manager \in Machine /\ listener \in Machine /\ manager # listener
      /\ manager \notin Worker /\ listener \notin Worker /\ manager # NULL
      /\ state \in [Machine -> {"none", "init", "idle", "work", "getp", "ackp"}]
  BY Kinships DEF ServerInv, Typed
<1>2. PICK h : h = Head(queue)
  OBVIOUS
<1>3. state[manager] = "work" /\ UNCHANGED state => state' = [state EXCEPT ![manager] = "work"]
  BY <1>1
<1>4. ASSUME NEW c, Receive(manager, "work", c), UNCHANGED state, Puts(<<SeeOff(h.ptr)>>)
      PROVE  QueueInv'
  <2>1. h \in Message /\ state[manager] = "work"
    BY <1>2, <1>4, HeadSays
  <2>2. PICK x : x = SeeOff(h.ptr)
    OBVIOUS
  <2>3. x \in Message /\ Weight(x)' = 1 /\ x.src # x.dst
    <3>1. h.ptr \in Machine \cup Client \cup {NULL}
      BY <2>1 DEF Message
    <3>. QED
      BY <1>1, <2>2, <3>1, Light DEF SeeOff, Code0
  <2>4. Weight(x)' <= Weight(Head(queue))
    BY <2>3, WeightType
  <2>5. Puts(<<x>>)
    BY <1>4, <2>2
  <2>. QED
    BY <1>3, <1>4, <2>1, <2>3, <2>4, <2>5, SinglePays
<1>5. CASE manager_init_M0
  BY <1>5, SinglePays DEF manager_init_M0
<1>6. CASE manager_work_M0
  <2>1. Receive(manager, "work", "M0")
    BY <1>6 DEF manager_work_M0
  <2>2. CASE pool_is_empty(pool["worker"])
    BY <1>2, <1>4, <1>6, <2>1, <2>2 DEF manager_work_M0
  <2>3. CASE ~ pool_is_empty(pool["worker"])
    <3>1. PICK n, c : n = Taken(pool["worker"]) /\ c = h.ptr
      OBVIOUS
    <3>2. PICK ask : ask = Msg(manager, n, c, "M1")
      OBVIOUS
    <3>3. /\ AnyFresh("worker") /\ Puts(AddSmMsgs("worker") \o <<ask>>)
          /\ state' = StateAfterAddSm("worker") /\ pool' = PoolAfterGet("worker")
      BY <1>2, <1>6, <2>3, <3>1, <3>2 DEF manager_work_M0
    <3>4. Typed /\ PoolShape /\ "worker" \in Kinds
      BY DEF ServerInv, Kinds
    <3>5. n \in Worker
      <4>1. n \in Members["worker"]
        BY <2>3, <3>1, <3>3, <3>4, PoolGet
      <4>. QED
        BY <4>1 DEF Members
    <3>6. queue # << >> /\ h \in Message /\ h.dst = manager /\ state[manager] = "work"
      BY <1>2, <2>1, HeadSays
    <3>7. Started /\ Weight(Head(queue)) = 3
      <4>1. Started
        BY <2>1, NotYet
      <4>2. Weight(h) = 3
        BY <1>2, <2>1, <3>6, NewClientFromListener, Weights
      <4>. QED
        BY <1>2, <4>1, <4>2
    <3>8. ask \in Message /\ ask.code = "M1" /\ Weight(ask)' \in 1 .. 2
      <4>1. c \in Machine \cup Client \cup {NULL} /\ n \in Machine
        BY <3>1, <3>5, <3>6, Kinships DEF Message
      <4>. QED
        BY <1>1, <3>2, <4>1, Light DEF Code0
    <3>9. Weight(ask)' + 1 <= Weight(Head(queue))
      BY <3>7, <3>8
    <3>10. state'[manager] # "init"
      <4>1. manager \notin Created("worker")
        BY <3>3, <3>4, <3>6, Freshly
      <4>. QED
        BY <1>1, <3>3, <3>4, <3>6, <4>1, Freshly
    <3>. QED
      BY <1>1, <3>3, <3>4, <3>6, <3>7, <3>8, <3>9, <3>10, AskPays
  <2>. QED
    BY <2>2, <2>3
<1>7. CASE manager_work_M1
  BY <1>2, <1>4, <1>7 DEF manager_work_M1, machineVars
<1>8. ASSUME NEW s \in Signals, manager_work_S(s)
      PROVE  QueueInv'
  <2>1. Receive(manager, "work", s) /\ Puts(<< >>) /\ UNCHANGED state
    BY <1>8 DEF manager_work_S, machineVars
  <2>2. state[manager] = "work"
    BY <2>1 DEF Receive
  <2>. QED
    BY <1>3, <2>1, <2>2, SinglePays
<1>. QED
  BY <1>5, <1>6, <1>7, <1>8 DEF ManagerExec

LEMMA ListenerPays ==
  ASSUME ServerInv, QueueInv, ListenerExec
  PROVE  QueueInv'
<1>1. /\ listener \in Machine /\ manager \in Machine /\ listener # manager
      /\ state \in [Machine -> {"none", "init", "idle", "work", "getp", "ackp"}]
  BY Kinships DEF ServerInv, Typed
<1>2. state[listener] = "work" /\ UNCHANGED state => state' = [state EXCEPT ![listener] = "work"]
  BY <1>1
<1>3. CASE listener_init_M0
  BY <1>3, SinglePays DEF listener_init_M0
<1>4. ASSUME NEW c, Receive(listener, "work", c), UNCHANGED state, Puts(<< >>)
      PROVE  QueueInv'
  <2>1. state[listener] = "work"
    BY <1>4 DEF Receive
  <2>. QED
    BY <1>2, <1>4, <2>1, SinglePays
<1>5. ASSUME NEW c \in Client, listener_work_D0(c)
      PROVE  QueueInv'
  <2>1. /\ Receive(listener, "work", "D0") /\ UNCHANGED state
        /\ Puts(<<Msg(listener, manager, c, "M0")>>)
    BY <1>5 DEF listener_work_D0, machineVars
  <2>2. PICK x : x = Msg(listener, manager, c, "M0")
    OBVIOUS
  <2>3. x \in Message /\ x.src # x.dst
    BY <1>1, <2>2, MsgType, MsgFields DEF Code0
  <2>4. state[listener] = "work" /\ Weight(Head(queue)) = 3
    BY <2>1, HeadSays, Weights
  <2>5. Weight(x)' <= Weight(Head(queue))
    BY <2>4, Weights
  <2>. QED
    BY <1>2, <2>1, <2>2, <2>3, <2>4, <2>5, SinglePays
<1>6. CASE listener_work_D0_fails
  BY <1>4, <1>6 DEF listener_work_D0_fails, machineVars
<1>7. CASE listener_work_M0
  <2>1. CASE \E why : Exit(why)
    BY <2>1, ExitPays
  <2>2. CASE UNCHANGED state /\ Puts(<< >>)
    BY <1>4, <1>7, <2>2 DEF listener_work_M0
  <2>. QED
    BY <1>7, <2>1, <2>2 DEF listener_work_M0, machineVars
<1>. QED
  BY <1>3, <1>5, <1>6, <1>7 DEF ListenerExec

LEMMA PoolmanPays ==
  ASSUME ServerInv, PoolInv, QueueInv, PoolmanExec
  PROVE  QueueInv'
<1>1. CASE poolman_init_M0
  BY <1>1, SinglePays DEF poolman_init_M0
<1>2. CASE poolman_work_T0
  <2>1. CASE \E why : Exit(why)
    BY <2>1, ExitPays
  <2>2. CASE /\ \A k \in Kinds : ~ RunsDry(pool[k])
             /\ Puts(<< >>) /\ pool' = [k \in Kinds |-> Shrunk(pool[k])]
             /\ state' = StateAfterDel(UNION {Deleted(pool[k]) : k \in Kinds})
    <3>1. PICK G : G = UNION {Deleted(pool[k]) : k \in Kinds}
      OBVIOUS
    <3>2. PoolShape
      BY DEF ServerInv
    <3>3. \A x \in G : Resting(x)
      BY <2>2, <3>1, <3>2, PoolDelete
    <3>4. \A x \in Machine : state'[x] = IF x \in G THEN "none" ELSE state[x]
      BY <2>2, <3>1 DEF StateAfterDel
    <3>5. PICK q \in Seq(Message) : InStep(q)
      BY DEF ServerInv, StaysInStep
    <3>6. \A w \in Worker : w \in G => state[w] = "idle"
      BY <3>3, <3>5, RestsQuietly DEF InStep
    <3>7. Worker \subseteq Machine /\ listener \in Machine /\ listener \notin G
      BY <3>2, <3>3, SingleNeverRests, Kinships
    <3>8. Started
      <4>1. Receive(poolman, "work", "T0")
        BY <1>2 DEF poolman_work_T0
      <4>2. "work" # "init"
        OBVIOUS
      <4>. QED
        BY <4>1, <4>2, NotYet
    <3>9. Started'
      BY <3>4, <3>7, <3>8 DEF Started
    <3>10. \A w \in Worker : state'[w] = "init" <=> state[w] = "init"
      BY <3>4, <3>6, <3>7
    <3>11. queue # << >>
      BY <1>2 DEF poolman_work_T0, Receive
    <3>. QED
      BY <2>2, <3>8, <3>9, <3>10, <3>11, PutNone
  <2>. QED
    BY <1>2, <2>1, <2>2 DEF poolman_work_T0
<1>. QED
  BY <1>1, <1>2 DEF PoolmanExec

-----------------------------------------------------------------------------
(* The events of a wait are paid for.                                       *)
LEMMA WaitPays ==
  ASSUME ServerInv, Wait
  PROVE  QueueInv'
<1>1. Views({}) /\ Typed /\ PoolShape /\ UNCHANGED <<state, timer, pool>>
  BY EmptyInStep DEF ServerInv, Wait
<1>2. Started
  BY <1>1, Calm
<1>3. PICK R \in SUBSET Message, n \in Nat : R = Ready /\ n = BatchSize(Ready)
  BY <1>1, ReadyIsFinite
<1>4. n <= MaxEvents
  <2>1. PICK c : c = Cardinality(R)
    OBVIOUS
  <2>2. c \in Nat
    <3>1. IsFiniteSet(R)
      BY <1>1, <1>3, ReadyIsFinite
    <3>. QED
      BY <2>1, <3>1, FS_CardinalityType
  <2>3. \E x \in {MaxEvents, c} : \A y \in {MaxEvents, c} : x =< y
    BY <2>2, BoundsAssumption
  <2>4. Min({MaxEvents, c}) =< MaxEvents
    BY <2>3 DEF Min
  <2>. QED
    BY <1>3, <2>1, <2>4 DEF BatchSize
<1>5. PICK s : s = queue'
  OBVIOUS
<1>6. s \in [1 .. n -> R]
  BY <1>3, <1>5 DEF Wait
<1>7. s \in Seq(Message) /\ Len(s) = n /\ DOMAIN s = 1 .. n
  BY <1>3, <1>6
<1>8. \A k \in DOMAIN s : s[k].src = NULL
  BY <1>1, <1>3, <1>6, CalmEvents
<1>9. StartsOnce'
  <2>1. \A w \in Worker : Self(w, "M0").src # NULL
    BY SelfFields, Kinships
  <2>2. \A w \in Worker, k \in DOMAIN s : s[k] # Self(w, "M0")
    BY <1>8, <2>1
  <2>. QED
    BY <1>5, <2>2 DEF StartsOnce, Self, Msg
<1>10. Paid'
  <2>1. PICK v : v = [k \in 1 .. n |-> Weight(s[k])']
    OBVIOUS
  <2>2. \A k \in 1 .. n : Weight(s[k])' \in 1 .. 3
    BY Weights
  <2>3. v \in Seq(1 .. 3) /\ Len(v) = n /\ \A k \in 1 .. n : v[k] = Weight(s[k])'
    BY ONLY <1>3, <2>1, <2>2
  <2>4. Affordable(v)
    BY <1>4, <2>3, EventsPaid
  <2>. QED
    BY <1>5, <1>7, <2>3, <2>4, PaidAfter
<1>11. Started'
  BY <1>1, <1>2 DEF Started
<1>. QED
  BY <1>9, <1>10, <1>11 DEF QueueInv

LEMMA InitPays ==
  ASSUME Init
  PROVE  QueueInv
<1>1. PICK q, s : q = queue /\ s = StartOrder
  OBVIOUS
<1>2. PICK N \in Nat \ {0} : N = Len(s)
  BY <1>1, StartsInOrder
<1>3. s \in Seq(Machine) /\ s[N] = listener /\ DOMAIN s = 1 .. N
  BY <1>1, <1>2, StartsInOrder, LenProperties
<1>4. q \in Seq(Message) /\ IsInjective(q) /\ q[Len(q)] = Self(listener, "M0")
  BY <1>1, FirstMessages
<1>5. q = [k \in 1 .. N |-> Self(s[k], "M0")]
  BY <1>1, <1>3 DEF Init
<1>6. DOMAIN q = 1 .. N /\ Len(q) = N
  BY <1>2, <1>4, <1>5, LenProperties
<1>7. \A m \in ToSet(s) : m \in Machine /\ state[m] = "init"
  BY <1>1, StartsInOrder DEF Init
<1>8. ASSUME NEW k \in 1 .. N
      PROVE  q[k] = Self(q[k].dst, "M0") /\ state[q[k].dst] = "init"
  <2>1. s[k] \in ToSet(s)
    BY <1>3 DEF ToSet
  <2>2. q[k] = Self(s[k], "M0") /\ q[k].dst = s[k]
    BY <1>5, SelfFields
  <2>. QED
    BY <1>7, <2>1, <2>2
<1>9. ~ Started
  <2>1. listener \in ToSet(s)
    BY <1>2, <1>3 DEF ToSet
  <2>. QED
    BY <1>7, <2>1 DEF Started
<1>10. Starting
  BY <1>1, <1>2, <1>4, <1>6, <1>8 DEF Starting
<1>11. StartsOnce
  BY <1>1, <1>4 DEF StartsOnce, IsInjective
<1>. QED
  BY <1>9, <1>10, <1>11 DEF QueueInv

LEMMA NextPays ==
  ASSUME ServerInv, PoolInv, QueueInv, [Next]_vars
  PROVE  QueueInv'
<1>1. CASE Exec
  BY <1>1, RxPays, TxPays, WorkerPays, ManagerPays, ListenerPays, PoolmanPays DEF Exec
<1>2. CASE Wait
  BY <1>2, WaitPays
<1>3. CASE World
  <2>1. UNCHANGED <<queue, state>>
    BY <1>3 DEF World, Connect, PeerSends, PeerLeaves, PeerReads, TimerExpires, SignalComes,
                Running, machineVars
  <2>. QED
    BY <2>1, QueueSame
<1>4. CASE UNCHANGED vars
  BY <1>4, QueueSame DEF vars
<1>. QED
  BY <1>1, <1>2, <1>3, <1>4 DEF Next, Ended

-----------------------------------------------------------------------------
(* What the runs check on a few machines, for any number of them.           *)

(* Every variable keeps its type, and a pending message points to what the  *)
(* handler of its receiver casts its void *ptr to: the io_context of a      *)
(* worker, a client_info, or nothing.                                       *)
THEOREM TypesHold == Spec => []TypeOK
BY MachinesStayInStep, ServerTypes, PTL

(* The program never ends in an assertion other than the two the runs       *)
(* echo_race and echo_run_dry show: no fd is attached twice (io_attach), no *)
(* worker starts without client_info, no socket is closed twice (close in   *)
(* listener.c), and no expiration is read that was taken back               *)
(* (__read_tick_data).                                                      *)
THEOREM NoOtherAssertionFails == Spec => []AssertionsHold
<1>1. ServerInv => AssertionsHold
  BY DEF ServerInv, AssertionsHold
<1>. QED
  BY <1>1, MachinesStayInStep, PTL

(* The dispatcher never meets a message its machine has no reflex for in    *)
(* the state it is in, so __edsm_dispatch_message drops none: not even the  *)
(* second answer of an rx machine.                                          *)
THEOREM NoMessageIsDropped == Spec => []NoMessageDropped
BY MachinesStayInStep, NothingIsDropped, PTL

(* The pool manager never deletes (edsm__delete frees) a machine that a     *)
(* pending message comes from or goes to.                                   *)
THEOREM NoMessageDangles == Spec => []NoDanglingMessage
BY MachinesStayInStep, NothingDangles, PTL

(* A machine is in its pool, once, exactly when nothing is coming for it:   *)
(* object_pool_get never hands out a machine that is at work, and none that *)
(* is done is forgotten, as long as no rx machine has been done twice.      *)
THEOREM PoolsHoldTheIdle == Spec => []PooledIffQuiet
BY MachinesStayInStep, PoolsInStep, PTL

(* At any time at most one rx or tx machine has the socket of a client      *)
(* attached, it works for the worker that serves this client, which waits   *)
(* for it, and the socket is open.                                          *)
THEOREM SocketsAreExclusive == Spec => []FdExclusive
<1>1. ServerInv => FdExclusive
  BY SocketsInStep DEF ServerInv, StaysInStep, InStep
<1>. QED
  BY <1>1, MachinesStayInStep, PTL

(* The client_info of an open connection is always in one place: in a       *)
(* message on its way from the listener to a worker or back, or with the    *)
(* worker that serves the client; and nobody has that of a closed one.      *)
THEOREM ClientsAreHeldOnce == Spec => []ClientHasOneHolder
BY MachinesStayInStep, ClientsInStep, PTL

(* The ring of the engine's queue never has to hold more than the M0 of     *)
(* every machine main() starts, and from then on no more than three times   *)
(* the events of one epoll_wait(): a handler puts no more messages than     *)
(* the one it handles is worth, whatever add_sm() creates on the way, and   *)
(* events come when the queue is empty.                                     *)
THEOREM QueueStaysBounded == Spec => []QueueBound
<1>1. Init => QueueInv
  BY InitPays
<1>2. ServerInv /\ PoolInv /\ QueueInv /\ [Next]_vars => QueueInv'
  BY NextPays
<1>3. ServerInv /\ QueueInv => QueueBound
  BY QueueFits
<1>. QED
  BY <1>1, <1>2, <1>3, PoolsSound, MachinesStayInStep, PTL DEF Spec
=============================================================================
