-------------------------- MODULE EchoInStepProofs --------------------------
(***************************************************************************)
(* The machines of the echo server stay in step, for any number of them    *)
(* and of clients, and whatever the world does: every handler, the wait    *)
(* for events and the world keep the inductive invariant ServerInv, from   *)
(* which the safety properties of EchoServer follow.                       *)
(***************************************************************************)
EXTENDS EchoProtocolProofs

-----------------------------------------------------------------------------
(* Assignments to one member of struct worker_info. *)

LEMMA WithBuffer ==
  ASSUME wi \in [Worker -> Info], NEW w \in Worker, NEW z \in Seq(Chunk),
         wi' = [wi EXCEPT ![w][wi[w].buf] = z]
  PROVE  /\ wi' \in [Worker -> Info]
         /\ \A v \in Worker : wi'[v].ci = wi[v].ci /\ wi'[v].fd = wi[v].fd
<1>. DEFINE r == [wi[w] EXCEPT ![wi[w].buf] = z]
<1>1. wi[w] \in Info /\ wi[w].buf \in {"ibuf", "obuf"}
  BY DEF Info
<1>2. r \in Info /\ r.ci = wi[w].ci /\ r.fd = wi[w].fd
  <2>1. CASE wi[w].buf = "ibuf"
    BY <1>1, <2>1 DEF Info
  <2>2. CASE wi[w].buf = "obuf"
    BY <1>1, <2>2 DEF Info
  <2>. QED
    BY <1>1, <2>1, <2>2
<1>3. wi' = [wi EXCEPT ![w] = r]
  OBVIOUS
<1>. HIDE DEF r
<1>. QED
  BY <1>2, <1>3

LEMMA WithUnsent ==
  ASSUME wi \in [Worker -> Info], NEW w \in Worker, NEW z \in Seq(Chunk),
         wi' = [wi EXCEPT ![w].unsent = z]
  PROVE  /\ wi' \in [Worker -> Info]
         /\ \A v \in Worker : wi'[v].ci = wi[v].ci /\ wi'[v].fd = wi[v].fd
<1>. DEFINE r == [wi[w] EXCEPT !.unsent = z]
<1>1. wi[w] \in Info
  OBVIOUS
<1>2. r \in Info /\ r.ci = wi[w].ci /\ r.fd = wi[w].fd
  BY <1>1 DEF Info
<1>3. wi' = [wi EXCEPT ![w] = r]
  OBVIOUS
<1>. HIDE DEF r
<1>. QED
  BY <1>2, <1>3

LEMMA WithClient ==
  ASSUME wi \in [Worker -> Info], NEW w \in Worker, NEW c \in Client \cup {NULL},
         wi' = [wi EXCEPT ![w].ci = c]
  PROVE  wi' \in [Worker -> Info] /\ wi'[w].ci = c /\ \A v \in Worker \ {w} : wi'[v] = wi[v]
<1>. DEFINE r == [wi[w] EXCEPT !.ci = c]
<1>1. wi[w] \in Info
  OBVIOUS
<1>2. r \in Info /\ r.ci = c
  BY <1>1 DEF Info
<1>3. wi' = [wi EXCEPT ![w] = r]
  OBVIOUS
<1>. HIDE DEF r
<1>. QED
  BY <1>2, <1>3

(* The struct a worker hands to the helper it asks. *)
LEMMA WithContext ==
  ASSUME wi \in [Worker -> Info], NEW w \in Worker,
         \/ wi' = [wi EXCEPT ![w].fd = wi[w].ci, ![w].buf = "ibuf"]
         \/ wi' = [wi EXCEPT ![w].fd = wi[w].ci, ![w].buf = "obuf", ![w].obuf = wi[w].ibuf]
  PROVE  /\ wi' \in [Worker -> Info]
         /\ wi'[w].ci = wi[w].ci /\ wi'[w].fd = wi[w].ci
         /\ \A v \in Worker \ {w} : wi'[v] = wi[v]
<1>. DEFINE r == [[wi[w] EXCEPT !.fd = wi[w].ci] EXCEPT !.buf = "ibuf"]
            s == [[[wi[w] EXCEPT !.fd = wi[w].ci] EXCEPT !.buf = "obuf"] EXCEPT !.obuf = wi[w].ibuf]
<1>1. wi[w] \in Info
  OBVIOUS
<1>2. r \in Info /\ r.ci = wi[w].ci /\ r.fd = wi[w].ci
  BY <1>1 DEF Info
<1>3. s \in Info /\ s.ci = wi[w].ci /\ s.fd = wi[w].ci
  BY <1>1 DEF Info
<1>4. wi' = [wi EXCEPT ![w] = r] \/ wi' = [wi EXCEPT ![w] = s]
  OBVIOUS
<1>. HIDE DEF r, s
<1>. QED
  BY <1>2, <1>3, <1>4

LEMMA IdleInfoType == IdleInfo \in Info /\ IdleInfo.ci = NULL
BY DEF IdleInfo, Info

(* Assignments to members of a connection. *)
LEMMA WithConn ==
  ASSUME net \in [Client -> Connection], NEW c \in Client,
         \/ net' = [net EXCEPT ![c].conn = "backlog"]
         \/ net' = [net EXCEPT ![c].conn = "open"]
         \/ net' = [net EXCEPT ![c].conn = "closed", ![c].full = FALSE]
  PROVE  /\ net' \in [Client -> Connection]
         /\ \A d \in Client \ {c} : net'[d] = net[d]
         /\ \A d \in Client : net'[d].sent = net[d].sent /\ net'[d].nread = net[d].nread
<1>. DEFINE r(a) == [net[c] EXCEPT !.conn = a]
            s == [r("closed") EXCEPT !.full = FALSE]
<1>1. net[c] \in Connection
  OBVIOUS
<1>2. ASSUME NEW a \in {"backlog", "open", "closed"}
      PROVE  r(a) \in Connection /\ r(a).sent = net[c].sent /\ r(a).nread = net[c].nread
  BY <1>1 DEF Connection
<1>3. s \in Connection /\ s.sent = net[c].sent /\ s.nread = net[c].nread
  <2>1. r("closed") \in Connection /\ r("closed").sent = net[c].sent /\ r("closed").nread = net[c].nread
    BY <1>2
  <2>. HIDE DEF r
  <2>. QED
    BY <2>1 DEF Connection
<1>4. \/ net' = [net EXCEPT ![c] = r("backlog")]
      \/ net' = [net EXCEPT ![c] = r("open")]
      \/ net' = [net EXCEPT ![c] = s]
  OBVIOUS
<1>. HIDE DEF r, s
<1>. QED
  BY <1>2, <1>3, <1>4


-----------------------------------------------------------------------------
(* What is put: nothing, one message, two. *)

LEMMA Put0 == << >> \in Seq(Message) /\ IsInjective(<< >>) /\ ToSet(<< >>) = {}
BY DEF IsInjective, ToSet

LEMMA Put1 ==
  ASSUME NEW a \in Message
  PROVE  <<a>> \in Seq(Message) /\ IsInjective(<<a>>) /\ ToSet(<<a>>) = {a}
<1>1. <<a>> \in Seq(Message) /\ IsInjective(<<a>>)
  BY DEF IsInjective
<1>2. DOMAIN <<a>> = {1} /\ <<a>>[1] = a
  OBVIOUS
<1>. QED
  BY <1>1, <1>2 DEF ToSet

LEMMA Put2 ==
  ASSUME NEW a \in Message, NEW b \in Message, a # b
  PROVE  <<a, b>> \in Seq(Message) /\ IsInjective(<<a, b>>) /\ ToSet(<<a, b>>) = {a, b}
<1>1. <<a, b>> \in Seq(Message)
  OBVIOUS
<1>2. DOMAIN <<a, b>> = {1, 2} /\ <<a, b>>[1] = a /\ <<a, b>>[2] = b
  OBVIOUS
<1>3. IsInjective(<<a, b>>)
  BY <1>2 DEF IsInjective
<1>4. ToSet(<<a, b>>) = {a, b}
  BY <1>2 DEF ToSet
<1>. QED
  BY <1>1, <1>3, <1>4

LEMMA OneThenOne ==
  ASSUME NEW a \in Message, NEW b \in Message
  PROVE  <<a>> \o <<b>> = <<a, b>>
<1>. DEFINE s == Append(<<a>>, b)
            t == <<a, b>>
<1>1. <<a>> \in Seq(Message) /\ Len(<<a>>) = 1 /\ <<a>>[1] = a
  OBVIOUS
<1>2. t \in Seq(Message) /\ Len(t) = 2 /\ t[1] = a /\ t[2] = b
  OBVIOUS
<1>3. s \in Seq(Message) /\ Len(s) = 2 /\ s[1] = a /\ s[2] = b
  BY <1>1, AppendProperties
<1>4. s = <<a>> \o <<b>>
  BY <1>1, AppendIsConcat
<1>. HIDE DEF s, t
<1>5. \A i \in 1 .. 2 : s[i] = t[i]
  BY <1>2, <1>3
<1>6. s = t
  BY <1>2, <1>3, <1>5, SeqEqual
<1>. QED
  BY <1>4, <1>6 DEF t

(* The machine add_sm() creates, if the last one was taken from the pool.   *)
Created(k) == IF LastTaken(k) THEN {Fresh(k)} ELSE {}

(* The message to it goes first. *)
LEMMA PutAsk ==
  ASSUME NEW k \in Kinds, NEW ask \in Message, LastTaken(k) => Fresh(k) \in Machine,
         ask.code # "M0",
         NEW t, t = AddSmMsgs(k) \o <<ask>>
  PROVE  /\ t \in Seq(Message) /\ IsInjective(t)
         /\ ToSet(t) = Adding(ask, Created(k))
<1>1. CASE LastTaken(k)
  <2>. DEFINE new == Self(Fresh(k), "M0")
  <2>1. new \in Message /\ new.code = "M0"
    BY <1>1, MsgType, SelfFields DEF Self, Code0
  <2>2. t = <<new, ask>>
    <3>1. t = <<new>> \o <<ask>>
      BY <1>1 DEF AddSmMsgs
    <3>. HIDE DEF new
    <3>. QED
      BY <2>1, <3>1, OneThenOne
  <2>3. t \in Seq(Message) /\ IsInjective(t) /\ ToSet(t) = {new, ask}
    <3>. HIDE DEF new
    <3>. QED
      BY <2>1, <2>2, Put2
  <2>. QED
    BY <1>1, <2>3 DEF Created, Adding
<1>2. CASE ~ LastTaken(k)
  <2>1. t = <<ask>>
    BY <1>2 DEF AddSmMsgs
  <2>. QED
    BY <1>2, <2>1, Put1 DEF Created, Adding
<1>. QED
  BY <1>1, <1>2

-----------------------------------------------------------------------------
(* The message at the head of the queue, and of the shadow q of the queue   *)
(* that is in step.                                                         *)
Dispatches(q) ==
  /\ Typed /\ PoolInv /\ PoolShape
  /\ q \in Seq(Message) /\ q # << >> /\ InStep(q)
  /\ queue # << >> /\ Head(q) = Head(queue)

LEMMA CodeMeans ==
  ASSUME NEW h \in Message, NEW c, Code(h) = c
  PROVE  /\ c \in {"M0", "M1", "M2", "M3", "T0", "S0", "S1"} => h.code = c
         /\ c = "D0" => /\ h.code = "POLLIN"
                        /\ h.dst # listener =>
                             io[h.dst].fd # NULL /\ Unread(io[h.dst].fd) # 0
         /\ c = "D1" => h.code = "POLLOUT"
         /\ c = "D2" => h.code \in {"POLLHUP", "POLLIN"}
         /\ c \in {"M0", "M1", "M2", "M3", "T0", "S0", "S1", "D0", "D1", "D2"}
<1>1. h.code \in Code0
  BY DEF Message
<1>. QED
  BY <1>1 DEF Code, Code0

LEMMA Received ==
  ASSUME NEW q, Dispatches(q), NEW m, NEW s, NEW c, Receive(m, s, c),
         NEW h, h = Head(q), NEW S, S = ToSet(q)
  PROVE  /\ S \subseteq Message /\ Views(S) /\ h \in S /\ h \in Message /\ Shape(h)
         /\ h = Head(queue) /\ h.dst = m /\ state[m] = s /\ Code(h) = c
         /\ c \in {"M0", "M1", "M2", "M3"} =>
              h.code = c /\ ~ IsEvent(h) /\ \A x \in S : ~ IsEvent(x)
         /\ c \notin {"M0", "M1", "M2", "M3"} => IsEvent(h)
<1>1. /\ S \subseteq Message /\ Views(S) /\ h \in S /\ h \in Message
      /\ h = Head(queue) /\ h.dst = m /\ state[m] = s /\ Code(h) = c
  BY Basics DEF Dispatches, InStep, Receive
<1>2. Shape(h)
  BY <1>1, ViewsMean
<1>3. c \in {"M0", "M1", "M2", "M3"} => h.code = c
  BY <1>1, CodeMeans
<1>4. IsEvent(h) => h.code \notin {"M0", "M1", "M2", "M3"}
  BY <1>1, <1>2, NamesAssumption DEF Shape, EventShape
<1>5. ~ IsEvent(h) => h.code \in {"M0", "M1", "M2", "M3"}
  BY <1>2, CallsAreCalls
<1>6. h.code \in {"M0", "M1", "M2", "M3"} => Code(h) = h.code
  BY DEF Code
<1>7. ~ IsEvent(h) => \A x \in S : ~ IsEvent(x)
  BY CallAtHead DEF Dispatches, InStep
<1>. QED
  BY <1>1, <1>2, <1>3, <1>4, <1>5, <1>6, <1>7

-----------------------------------------------------------------------------
(* A handler took the message at the head of q. *)

(* What it put, t, keeps the machines in step. *)
Handled(q, t) ==
  /\ t \in Seq(Message) /\ IsInjective(t)
  /\ Views(After(ToSet(q), Head(q), ToSet(t)))'
  /\ Puttable(ToSet(q), Head(q), ToSet(t)) /\ StillFirst(ToSet(q), ToSet(t))
  /\ t = << >> \/ state[Head(q).dst] # "init"
  /\ state'[listener] = state[listener] \/ Started'

(* Only the machine that was called moves; but machines are created, and    *)
(* resting ones deleted.                                                    *)
Moves(h) ==
  /\ \A x \in Machine : \/ state'[x] = state[x] \/ x = h.dst \/ state[x] = "none"
                        \/ IsEvent(h) /\ Resting(x)
  /\ \A x \in Helper : io'[x] = io[x] \/ x = h.dst
  /\ state'[h.dst] # "none"
  /\ IsEvent(h) => state'[h.dst] = state[h.dst] /\ \A x : Resting(x)' => Resting(x)
  /\ h.dst \in Worker /\ h.src # h.dst => state'[h.dst] = state[h.dst]
  /\ h.dst \in Rx /\ ~ IsEvent(h) /\ state[h.dst] = "work" =>
       state'[h.dst] = "idle" /\ io'[h.dst] = io[h.dst]

(* An rx machine that was done already answers again: two messages too many.*)
Again(q, u) ==
  LET m == Head(q).dst IN
  /\ m \in Rx /\ IsEvent(Head(q)) /\ state[m] = "work" /\ Self(m, "M0") \in ToSet(q)
  /\ \E w \in Worker : /\ state[w] = "getp"
                       /\ u = <<Msg(m, w, NULL, "M2"), Self(m, "M0")>>

Sender(q, u) == \A y \in ToSet(u) : y.src \in {Head(q).dst, y.dst}

Advance(q) ==
  /\ fate' \in {"running", "stopped"}
  /\ Moves(Head(q))
  /\ \E t, u : /\ Handled(q, t)
               /\ queue' = Tail(queue) \o u
               /\ \/ u = t /\ Sender(q, u)
                  \/ t = << >> /\ Again(q, u)

LEMMA Advanced ==
  ASSUME NEW q, Dispatches(q), NEW h, h = Head(q), NEW S, S = ToSet(q),
         NEW t \in Seq(Message), IsInjective(t), NEW N, N = ToSet(t),
         Views(After(S, h, N))' /\ Puttable(S, h, N) /\ StillFirst(S, N),
         t = << >> \/ state[h.dst] # "init", state'[listener] = state[listener] \/ Started',
         Puts(t), \A y \in N : y.src \in {h.dst, y.dst},
         fate' \in {"running", "stopped"}, Moves(h)
  PROVE  Advance(q) /\ queue' \in Seq(Message)
<1>1. Handled(q, t) /\ Sender(q, t)
  BY DEF Handled, Sender
<1>2. queue' = Tail(queue) \o t
  BY DEF Puts
<1>3. queue' \in Seq(Message)
  BY <1>2, Positions DEF Dispatches, Typed
<1>. QED
  BY <1>1, <1>2, <1>3 DEF Advance

(* A handler that puts nothing. *)
LEMMA AdvancedQuietly ==
  ASSUME NEW q, Dispatches(q), NEW h, h = Head(q), NEW S, S = ToSet(q),
         Views(After(S, h, {}))' /\ Puttable(S, h, {}) /\ StillFirst(S, {}),
         state'[listener] = state[listener] \/ Started',
         Puts(<< >>), fate' \in {"running", "stopped"}, Moves(h)
  PROVE  Advance(q) /\ queue' \in Seq(Message)
BY Put0, Advanced

-----------------------------------------------------------------------------
(* The handlers of the rx machines. *)

LEMMA RxInit ==
  ASSUME NEW q, Dispatches(q), NEW m \in Rx, rx_init_M0(m)
  PROVE  Typed' /\ PoolShape' /\ Advance(q)
<1>. DEFINE h == Head(q)
            S == ToSet(q)
<1>1. /\ S \subseteq Message /\ Views(S) /\ h \in S /\ h.dst = m /\ state[m] = "init"
      /\ h.code = "M0" /\ ~ IsEvent(h) /\ \A x \in S : ~ IsEvent(x)
  BY Received DEF rx_init_M0
<1>2. /\ Puts(<< >>) /\ state' = [state EXCEPT ![m] = "idle"]
      /\ flags' = [flags EXCEPT ![m] = {}] /\ Rest(m)
      /\ UNCHANGED <<fate, io, timer, job, wi, sig, net>> /\ fate = "running"
  BY DEF rx_init_M0, worldVars, Receive
<1>3. Typed /\ PoolInv /\ PoolShape /\ m \in Helper /\ m \in Machine /\ m # listener
      /\ listener \in Machine
  BY Kinships DEF Dispatches
<1>. HIDE DEF h, S
<1>4. ~ Resting(m)
  BY <1>1, <1>3, ViewsMean DEF HelperInStep, HelperView
<1>5. PoolShape' /\ \A x : Resting(x)' <=> Resting(x) \/ x = m
  BY <1>2, <1>3, <1>4, PoolPut DEF Kinds, Members
<1>6. Views(After(S, h, {}))' /\ Puttable(S, h, {}) /\ StillFirst(S, {})
  <2>1. /\ (\A p \in Rx \ {m} : flags'[p] = flags[p]) /\ \A p \in Rx : timer'[p] = timer[p]
        /\ flags'[m] = {}
    BY <1>2, <1>3 DEF Typed
  <2>. QED
    BY <1>1, <1>2, <1>3, <1>5, <2>1, HelperInit
<1>7. state' \in [Machine -> {"none", "init", "idle", "work", "getp", "ackp"}]
      /\ state'[m] = "idle" /\ \A x \in Machine \ {m} : state'[x] = state[x]
  BY <1>2, <1>3 DEF Typed
<1>8. Moves(h)
  BY <1>1, <1>2, <1>3, <1>7, Kinships DEF Moves
<1>9. Advance(q) /\ queue' \in Seq(Message)
  BY <1>2, <1>3, <1>6, <1>7, <1>8, AdvancedQuietly DEF h, S
<1>10. flags' \in [Rx -> SUBSET {HAVE_T0, HAVE_D2}]
  BY <1>2, <1>3 DEF Typed
<1>11. Typed'
  BY <1>2, <1>3, <1>7, <1>9, <1>10 DEF Typed
<1>. QED
  BY <1>5, <1>9, <1>11

(* The channel of a machine is attached, detached, or watched again. *)
LEMMA ChannelSet ==
  ASSUME io \in [Channel -> IoChannel], NEW m \in Helper, NEW f \in Client \cup {NULL},
         NEW c \in {"none", "POLLHUP"}, io' = [io EXCEPT ![m] = [fd |-> f, watch |-> c]]
  PROVE  /\ io' \in [Channel -> IoChannel]
         /\ io'[m].fd = f /\ io'[m].watch = c /\ \A p \in Channel \ {m} : io'[p] = io[p]
BY Kinships DEF IoChannel

LEMMA ChannelEnabled ==
  ASSUME io \in [Channel -> IoChannel], NEW m \in Helper, NEW c \in {"POLLIN", "POLLOUT"},
         io' = io_enable(m, c)
  PROVE  /\ io' \in [Channel -> IoChannel]
         /\ io'[m].fd = io[m].fd /\ io'[m].watch = c /\ \A p \in Channel \ {m} : io'[p] = io[p]
<1>1. m \in Channel /\ io[m] \in IoChannel
  BY Kinships
<1>2. io' = [io EXCEPT ![m] = [io[m] EXCEPT !.watch = c]]
  BY DEF io_enable
<1>3. [io[m] EXCEPT !.watch = c] \in IoChannel
  BY <1>1 DEF IoChannel
<1>4. [io[m] EXCEPT !.watch = c].fd = io[m].fd /\ [io[m] EXCEPT !.watch = c].watch = c
  BY <1>1 DEF IoChannel
<1>. QED
  BY <1>1, <1>2, <1>3, <1>4

(* Helper n is called, no machine changes its state. *)
LEMMA OthersKept ==
  ASSUME NEW n \in Helper, UNCHANGED <<state, pool>>,
         \A p \in Channel \ {n} : io'[p] = io[p],
         \A p \in Helper \ {n} : job'[p] = job[p],
         \A p \in Rx \ {n} : flags'[p] = flags[p] /\ timer'[p] = timer[p],
         \A v \in Worker : wi'[v].ci = wi[v].ci /\ wi'[v].fd = wi[v].fd,
         \A c \in Client : net'[c].conn = net[c].conn
  PROVE  /\ \A p \in Helper \ {n} : HelperKept(p)
         /\ \A w \in Worker : WorkerKept(w)
         /\ \A c \in Client : ClientKept(c)
         /\ SinglesKept /\ (Resting(n)' <=> Resting(n))
<1>1. \A x : Resting(x)' <=> Resting(x)
  BY PoolSame
<1>2. \A p \in Helper \ {n} : HelperKept(p)
  BY <1>1, Kinships DEF HelperKept
<1>3. \A w \in Worker : WorkerKept(w)
  BY <1>1 DEF WorkerKept
<1>4. \A c \in Client : ClientKept(c)
  BY DEF ClientKept
<1>5. SinglesKept
  BY Kinships DEF SinglesKept
<1>. QED
  BY <1>1, <1>2, <1>3, <1>4, <1>5

LEMMA MovesIo ==
  ASSUME NEW n \in Helper, NEW h, h.dst = n, UNCHANGED <<state, pool>>,
         \A p \in Channel \ {n} : io'[p] = io[p],
         state[n] # "none", IsEvent(h) \/ state[n] # "work"
  PROVE  Moves(h)
<1>1. \A x : Resting(x)' <=> Resting(x)
  BY PoolSame
<1>. QED
  BY <1>1, Kinships DEF Moves

(* The socket of a worker that asks is attached nowhere. *)
LEMMA NotAttached ==
  ASSUME NEW S, Views(S), Typed, NEW w \in Worker, NoHelp(w), wi[w].ci \in Client,
         wi[w].fd = wi[w].ci
  PROVE  ~ Attached(wi[w].fd)
<1>. SUFFICES ASSUME NEW m \in Channel, io[m].fd = wi[w].ci PROVE FALSE
  BY DEF Attached
<1>1. wi[w].ci # NULL /\ wi[w].ci \notin Machine
  BY Kinships
<1>2. CASE m = listener
  <2>1. io[listener] = IF Started THEN [fd |-> ListenSocket, watch |-> "POLLIN"]
                               ELSE [fd |-> NULL, watch |-> "none"]
    BY ViewsMean DEF SingleView
  <2>2. io[listener].fd \in {listener, NULL}
    BY <2>1 DEF ListenSocket
  <2>. QED
    BY <1>1, <1>2, <2>2, Kinships
<1>3. CASE m \in Helper
  <2>1. /\ job[m] \in Worker /\ io[m].fd = wi[job[m]].ci
    BY <1>1, <1>3, AtWork
  <2>2. ClientView(wi[w].ci, S)
    BY ViewsMean
  <2>3. job[m] = w
    BY <2>1, <2>2 DEF ClientView
  <2>. QED
    BY <1>1, <1>3, <2>3 DEF NoHelp
<1>. QED
  BY <1>2, <1>3, Kinships

LEMMA RxIdleM1 ==
  ASSUME NEW q, Dispatches(q), NEW m \in Rx, rx_idle_M1(m)
  PROVE  Typed' /\ PoolShape' /\ Advance(q)
<1>. DEFINE h == Head(q)
            S == ToSet(q)
            w == h.src
<1>1. /\ S \subseteq Message /\ Views(S) /\ h \in S /\ h.dst = m /\ state[m] = "idle"
      /\ h.code = "M1" /\ ~ IsEvent(h) /\ (\A x \in S : ~ IsEvent(x)) /\ h = Head(queue)
  <2>1. Receive(m, "idle", "M1")
    BY DEF rx_idle_M1
  <2>. QED
    BY <2>1, Received
<1>2. Typed /\ PoolShape /\ m \in Helper /\ m \in Machine /\ m # listener
  BY Kinships DEF Dispatches
<1>3. /\ IF Attached(wi[w].fd)
         THEN Exit("fd attached twice")
         ELSE /\ Puts(<<Self(m, "M0")>>)
              /\ job' = [job EXCEPT ![m] = w]
              /\ wi' = [wi EXCEPT ![w][wi[w].buf] = << >>]
              /\ io' = io_attach(m, wi[w].fd)
              /\ UNCHANGED <<fate, state, timer, pool, flags, worldVars>>
      /\ fate = "running"
  <2>1. Head(queue).src = w
    BY <1>1
  <2>2. fate = "running"
    BY DEF rx_idle_M1, Receive
  <2>. HIDE DEF h, S, w
  <2>. QED
    BY <2>1, <2>2, Zenon DEF rx_idle_M1
<1>. HIDE DEF h, S, w
<1>4. /\ w \in Worker /\ Asking(w, S) /\ wi[w].ci \in Client
  BY <1>1, <1>2, AskedBy DEF w
<1>5. NoHelp(w) /\ wi[w].fd = wi[w].ci
  BY <1>4 DEF Asking
<1>6. /\ Puts(<<Self(m, "M0")>>) /\ job' = [job EXCEPT ![m] = w]
      /\ wi' = [wi EXCEPT ![w][wi[w].buf] = << >>] /\ io' = io_attach(m, wi[w].fd)
      /\ UNCHANGED <<fate, state, timer, pool, flags, sig, net>>
  BY <1>1, <1>2, <1>3, <1>4, <1>5, NotAttached DEF worldVars
<1>7. /\ io' \in [Channel -> IoChannel] /\ io'[m].fd = wi[w].fd /\ io'[m].watch = "POLLHUP"
      /\ \A p \in Channel \ {m} : io'[p] = io[p]
  BY <1>2, <1>4, <1>5, <1>6, ChannelSet DEF Typed, io_attach
<1>8. /\ wi' \in [Worker -> Info]
      /\ \A v \in Worker : wi'[v].ci = wi[v].ci /\ wi'[v].fd = wi[v].fd
  <2>1. << >> \in Seq(Chunk)
    OBVIOUS
  <2>. QED
    BY <1>2, <1>4, <1>6, <2>1, WithBuffer DEF Typed
<1>9. job' \in [Helper -> Worker \cup {NULL}] /\ job'[m] = w
      /\ \A p \in Helper \ {m} : job'[p] = job[p]
  BY <1>2, <1>4, <1>6 DEF Typed
<1>10. /\ \A p \in Helper \ {m} : HelperKept(p)
       /\ \A v \in Worker : WorkerKept(v)
       /\ \A c \in Client : ClientKept(c)
       /\ SinglesKept /\ (Resting(m)' <=> Resting(m))
  BY <1>2, <1>6, <1>7, <1>8, <1>9, OthersKept
<1>11. /\ <<Self(m, "M0")>> \in Seq(Message) /\ IsInjective(<<Self(m, "M0")>>)
       /\ ToSet(<<Self(m, "M0")>>) = {Self(m, "M0")}
  <2>1. Self(m, "M0") \in Message
    BY <1>2, MsgType DEF Self, Code0
  <2>. QED
    BY <2>1, Put1
<1>. DEFINE N == {Self(m, "M0")}
<1>12. Views(After(S, h, N))' /\ Puttable(S, h, N) /\ StillFirst(S, N)
  <2>1. w = h.src /\ N = {Self(m, "M0")} /\ state' = state
        /\ flags'[m] = flags[m] /\ timer'[m] = timer[m]
    BY <1>6 DEF w
  <2>. HIDE DEF N
  <2>. QED
    BY <1>1, <1>2, <1>7, <1>9, <1>10, <2>1, HelperStarts
<1>13. Moves(h)
  BY <1>1, <1>2, <1>6, <1>7, MovesIo
<1>14. Advance(q) /\ queue' \in Seq(Message)
  <2>1. Self(m, "M0").src = h.dst
    BY <1>1, SelfFields
  <2>. QED
    BY <1>1, <1>3, <1>6, <1>11, <1>12, <1>13, <2>1, Advanced, ZenonT(40) DEF h, S
<1>15. Typed'
  BY <1>2, <1>6, <1>7, <1>8, <1>9, <1>14 DEF Typed
<1>. QED
  BY <1>2, <1>6, <1>14, <1>15, PoolSame

(* A machine that changes its own state when it is called. *)
LEMMA MovesItself ==
  ASSUME Typed, NEW n \in Machine, NEW h, h.dst = n, ~ IsEvent(h),
         NEW b \in {"idle", "work", "getp", "ackp"}, state' = [state EXCEPT ![n] = b],
         \A p \in Helper \ {n} : io'[p] = io[p],
         n \in Worker => h.src = n,
         n \in Rx /\ state[n] = "work" => b = "idle" /\ io'[n] = io[n]
  PROVE  Moves(h)
<1>1. \A x \in Machine : state'[x] = IF x = n THEN b ELSE state[x]
  BY DEF Typed
<1>. QED
  BY <1>1, Kinships DEF Moves

(* A helper that may start has the socket. *)
LEMMA HasSocket ==
  ASSUME NEW S, Views(S), Typed, NEW h \in S, NEW n \in Helper, h.dst = n, ~ IsEvent(h),
         state[n] = "idle", h.code = "M0"
  PROVE  io[n].fd # NULL /\ ~ Resting(n) /\ job[n] \in Worker
<1>1. HelperView(n, S)
  BY ViewsMean DEF HelperInStep
<1>2. ~ NoCall(n, S)
  BY DEF NoCall
<1>3. \A w \in Worker : ~ OnlyCall(n, Msg(w, n, w, "M1"), S)
  BY MsgFields DEF OnlyCall
<1>4. io[n].fd # NULL /\ ~ Resting(n)
  BY <1>1, <1>2, <1>3 DEF HelperView
<1>. QED
  BY <1>4, AtWork

LEMMA RxIdleM0 ==
  ASSUME NEW q, Dispatches(q), NEW m \in Rx, rx_idle_M0(m)
  PROVE  Typed' /\ PoolShape' /\ Advance(q)
<1>. DEFINE h == Head(q)
            S == ToSet(q)
<1>1. /\ S \subseteq Message /\ Views(S) /\ h \in S /\ h.dst = m /\ state[m] = "idle"
      /\ h.code = "M0" /\ ~ IsEvent(h) /\ (\A x \in S : ~ IsEvent(x))
  <2>1. Receive(m, "idle", "M0")
    BY DEF rx_idle_M0
  <2>. QED
    BY <2>1, Received
<1>. HIDE DEF h, S
<1>2. Typed /\ PoolShape /\ m \in Helper /\ m \in Machine /\ m # listener /\ m \in Timed
      /\ m \notin Worker /\ listener \in Machine
  BY Kinships DEF Dispatches
<1>3. io[m].fd # NULL
  BY <1>1, <1>2, HasSocket
<1>4. /\ Puts(<< >>) /\ state' = [state EXCEPT ![m] = "work"]
      /\ io' = io_enable(m, "POLLIN") /\ timer' = tm_start(m)
      /\ UNCHANGED <<fate, pool, job, flags, wi, sig, net>> /\ fate = "running"
  BY <1>3 DEF rx_idle_M0, worldVars, Receive
<1>5. /\ io' \in [Channel -> IoChannel] /\ io'[m].fd = io[m].fd /\ io'[m].watch = "POLLIN"
      /\ \A p \in Channel \ {m} : io'[p] = io[p]
  BY <1>2, <1>4, ChannelEnabled DEF Typed
<1>6. timer' \in [Timed -> {"off", "armed", "expired"}] /\ \A p \in Rx \ {m} : timer'[p] = timer[p]
  BY <1>2, <1>4, Kinships DEF Typed, tm_start
<1>7. PoolShape' /\ \A x : Resting(x)' <=> Resting(x)
  BY <1>2, <1>4, PoolSame
<1>8. Views(After(S, h, {}))' /\ Puttable(S, h, {}) /\ StillFirst(S, {})
  <2>1. io'[m].watch = What(m)
    BY <1>5 DEF What
  <2>2. job' = job /\ net' = net /\ flags' = flags /\ state' = [state EXCEPT ![m] = "work"]
    BY <1>4
  <2>3. \A v \in Worker : wi'[v].ci = wi[v].ci /\ wi'[v].fd = wi[v].fd
    BY <1>4
  <2>. QED
    BY <1>1, <1>2, <1>3, <1>5, <1>6, <1>7, <2>1, <2>2, <2>3, HelperWorks
<1>9. state' \in [Machine -> {"none", "init", "idle", "work", "getp", "ackp"}]
      /\ state'[listener] = state[listener]
  BY <1>2, <1>4 DEF Typed
<1>10. Moves(h)
  <2>1. \A p \in Helper \ {m} : io'[p] = io[p]
    BY <1>5, Kinships
  <2>. QED
    BY <1>1, <1>2, <1>4, <2>1, MovesItself
<1>11. Advance(q) /\ queue' \in Seq(Message)
  BY <1>4, <1>8, <1>9, <1>10, AdvancedQuietly DEF h, S
<1>12. Typed'
  BY <1>2, <1>4, <1>5, <1>6, <1>9, <1>11 DEF Typed
<1>. QED
  BY <1>7, <1>11, <1>12

LEMMA ChannelDetached ==
  ASSUME Typed, NEW n \in Helper, io' = io_detach(n)
  PROVE  /\ io' \in [Channel -> IoChannel] /\ io'[n].fd = NULL /\ io'[n].watch = "none"
         /\ \A p \in Channel \ {n} : io'[p] = io[p]
BY ChannelSet DEF Typed, io_detach

(* A helper is done with an event, and tells its worker. *)
LEMMA HelperAnswers ==
  ASSUME NEW q, Dispatches(q), NEW n \in Helper, NEW h, h = Head(q), h.dst = n, IsEvent(h),
         state[n] = "work", io[n].fd # NULL, fate = "running",
         NEW a \in {"M1", "M2"}, NEW t, t \in {DoneMsgs(n, a), TxDoneMsgs(n, a)}, Puts(t),
         io' = io_detach(n), UNCHANGED <<fate, state, pool, job>>,
         \A p \in Rx \ {n} : flags'[p] = flags[p] /\ timer'[p] = timer[p],
         \A v \in Worker : wi'[v].ci = wi[v].ci /\ wi'[v].fd = wi[v].fd,
         \A c \in Client : net'[c].conn = net[c].conn,
         n \in Rx => /\ timer'[n] = timer[n] \/ h.code = "T0"
                     /\ h.code = "T0" => HAVE_T0 \in flags'[n]
  PROVE  Advance(q) /\ queue' \in Seq(Message) /\ io' \in [Channel -> IoChannel] /\ PoolShape'
<1>1. PICK w : w = job[n]
  OBVIOUS
<1>. DEFINE S == ToSet(q)
            N == {Msg(n, w, NULL, a), Self(n, "M0")}
<1>2. S \subseteq Message /\ Views(S) /\ h \in S /\ Typed /\ PoolShape
  BY Basics DEF Dispatches, InStep
<1>. HIDE DEF S
<1>3. w \in Worker /\ w # n /\ n \in Machine /\ w \in Machine
  BY <1>1, <1>2, AtWork, Kinships
<1>4. t \in Seq(Message) /\ IsInjective(t) /\ ToSet(t) = N
  <2>. DEFINE x == Msg(n, w, NULL, a)
              y == Self(n, "M0")
  <2>1. x \in Message /\ y \in Message /\ x # y
    BY <1>3, MsgType, MsgFields, SelfFields DEF Self, Code0
  <2>2. t = <<x, y>> \/ t = <<y, x>>
    BY <1>1 DEF DoneMsgs, TxDoneMsgs
  <2>. HIDE DEF x, y
  <2>3. t \in Seq(Message) /\ IsInjective(t) /\ ToSet(t) = {x, y}
    BY <2>1, <2>2, Put2
  <2>. QED
    BY <2>3 DEF x, y
<1>5. /\ io' \in [Channel -> IoChannel] /\ io'[n].fd = NULL /\ io'[n].watch = "none"
      /\ \A p \in Channel \ {n} : io'[p] = io[p]
  BY <1>2, ChannelDetached
<1>6. /\ \A p \in Helper \ {n} : HelperKept(p)
      /\ \A v \in Worker : WorkerKept(v)
      /\ \A c \in Client : ClientKept(c)
      /\ SinglesKept /\ (Resting(n)' <=> Resting(n))
  BY <1>5, OthersKept
<1>7. Views(After(S, h, N))' /\ Puttable(S, h, N) /\ StillFirst(S, N)
  <2>1. N = {Msg(n, w, NULL, a), Self(n, "M0")} /\ state' = state /\ job' = job
    OBVIOUS
  <2>. HIDE DEF N
  <2>. QED
    BY <1>1, <1>2, <1>5, <1>6, <2>1, HelperDone
<1>8. Moves(h)
  BY <1>5, MovesIo
<1>9. \A y \in N : y.src = h.dst
  BY MsgFields, SelfFields
<1>. HIDE DEF N
<1>10. Advance(q) /\ queue' \in Seq(Message)
  BY <1>4, <1>7, <1>8, <1>9, Advanced DEF S
<1>. QED
  BY <1>2, <1>5, <1>10, PoolSame

(* A helper waits on, or the event comes too late. *)
LEMMA HelperWaits ==
  ASSUME NEW q, Dispatches(q), NEW n \in Helper, NEW h, h = Head(q), h.dst = n, IsEvent(h),
         state[n] = "work", fate = "running",
         Puts(<< >>), UNCHANGED <<fate, state, pool, job>>,
         \/ io' = io /\ io[n].fd = NULL
         \/ io' = io_enable(n, What(n)) /\ io[n].fd # NULL,
         \A p \in Rx \ {n} : flags'[p] = flags[p] /\ timer'[p] = timer[p],
         \A v \in Worker : wi'[v].ci = wi[v].ci /\ wi'[v].fd = wi[v].fd,
         \A c \in Client : net'[c].conn = net[c].conn,
         n \in Rx => /\ \/ timer'[n] = timer[n]
                        \/ timer'[n] = "off" /\ h.code = "T0"
                     /\ flags[n] \subseteq flags'[n]
                     /\ io[n].fd # NULL => flags'[n] = flags[n]
  PROVE  Advance(q) /\ queue' \in Seq(Message) /\ io' \in [Channel -> IoChannel] /\ PoolShape'
<1>. DEFINE S == ToSet(q)
<1>2. S \subseteq Message /\ Views(S) /\ h \in S /\ Typed /\ PoolShape
  BY Basics DEF Dispatches, InStep
<1>. HIDE DEF S
<1>5. /\ io' \in [Channel -> IoChannel]
      /\ io[n].fd = NULL => io'[n] = io[n]
      /\ io[n].fd # NULL => io'[n].fd = io[n].fd /\ io'[n].watch = What(n)
      /\ \A p \in Channel \ {n} : io'[p] = io[p]
  <2>1. io \in [Channel -> IoChannel]
    BY <1>2 DEF Typed
  <2>2. CASE io' = io /\ io[n].fd = NULL
    BY <2>1, <2>2
  <2>3. CASE io' = io_enable(n, What(n)) /\ io[n].fd # NULL
    <3>1. What(n) \in {"POLLIN", "POLLOUT"}
      BY DEF What
    <3>. QED
      BY <2>1, <2>3, <3>1, ChannelEnabled
  <2>. QED
    BY <2>2, <2>3
<1>6. /\ \A p \in Helper \ {n} : HelperKept(p)
      /\ \A v \in Worker : WorkerKept(v)
      /\ \A c \in Client : ClientKept(c)
      /\ SinglesKept /\ (Resting(n)' <=> Resting(n))
  BY <1>5, OthersKept
<1>7. Views(After(S, h, {}))' /\ Puttable(S, h, {}) /\ StillFirst(S, {})
  <2>1. state' = state /\ job' = job
    OBVIOUS
  <2>. QED
    BY <1>2, <1>5, <1>6, <2>1, HelperGoesOn
<1>8. Moves(h)
  BY <1>5, MovesIo
<1>10. Advance(q) /\ queue' \in Seq(Message)
  BY <1>7, <1>8, AdvancedQuietly DEF S
<1>. QED
  BY <1>2, <1>5, <1>10, PoolSame

(* What a read leaves. *)
LEMMA Read ==
  ASSUME Typed, NEW c \in Client, NEW w \in Worker, NEW n \in 1 .. Unread(c),
         net' = [net EXCEPT ![c].nread = @ + n], NEW m, job[m] = w
  PROVE  /\ net' \in [Client -> Connection]
         /\ \A d \in Client : net'[d].nread <= Len(net'[d].sent) /\ net'[d].conn = net[d].conn
         /\ BufferWith(m, NextChunks(c, n)) \in Seq(Chunk)
<1>1. /\ net \in [Client -> Connection] /\ net[c] \in Connection /\ net[c].nread \in Nat
      /\ net[c].sent \in Seq(BOOLEAN) /\ Len(net[c].sent) \in Nat
      /\ net[c].nread <= Len(net[c].sent) /\ wi[w] \in Info
      /\ \A d \in Client : net[d].nread <= Len(net[d].sent)
  BY LenProperties DEF Typed, Connection
<1>2. n \in Nat /\ net[c].nread + n \in Nat /\ net[c].nread + n <= Len(net[c].sent)
  BY <1>1 DEF Unread
<1>. DEFINE d == [net[c] EXCEPT !.nread = net[c].nread + n]
<1>3. net' = [net EXCEPT ![c] = d]
  OBVIOUS
<1>4. /\ d \in Connection /\ d.nread = net[c].nread + n /\ d.sent = net[c].sent
      /\ d.conn = net[c].conn
  BY <1>1, <1>2 DEF Connection
<1>. HIDE DEF d
<1>5. /\ net' \in [Client -> Connection]
      /\ \A e \in Client : net'[e] = IF e = c THEN d ELSE net[e]
  BY <1>1, <1>3, <1>4
<1>6. \A e \in Client : net'[e].nread <= Len(net'[e].sent) /\ net'[e].conn = net[e].conn
  BY <1>1, <1>2, <1>4, <1>5
<1>. DEFINE z == NextChunks(c, n)
<1>7. z \in Seq(Chunk)
  <2>1. z = [k \in 1 .. n |-> [peer |-> c, seqn |-> net[c].nread + k]]
    BY DEF NextChunks
  <2>2. \A k \in 1 .. n : [peer |-> c, seqn |-> net[c].nread + k] \in Chunk
    BY <1>1, <1>2 DEF Chunk
  <2>. QED
    BY <1>2, <2>1, <2>2
<1>. HIDE DEF z
<1>8. wi[w].ibuf \in Seq(Chunk) /\ wi[w].obuf \in Seq(Chunk)
  BY <1>1 DEF Info
<1>9. wi[w].ibuf \o z \in Seq(Chunk) /\ wi[w].obuf \o z \in Seq(Chunk)
  BY <1>7, <1>8, ConcatProperties
<1>10. BufferWith(m, z) \in Seq(Chunk)
  BY <1>9 DEF BufferWith
<1>. QED
  BY <1>5, <1>6, <1>10 DEF z

LEMMA RxWorkD0 ==
  ASSUME NEW q, Dispatches(q), NEW m \in Rx, rx_work_D0(m)
  PROVE  Typed' /\ PoolShape' /\ Advance(q)
<1>. DEFINE h == Head(q)
            S == ToSet(q)
<1>1. /\ S \subseteq Message /\ Views(S) /\ h \in S /\ h.dst = m /\ state[m] = "work"
      /\ h.code = "POLLIN" /\ IsEvent(h) /\ io[m].fd # NULL
  <2>1. Receive(m, "work", "D0")
    BY DEF rx_work_D0
  <2>2. m # listener
    BY Kinships
  <2>. QED
    BY <2>1, <2>2, Received, CodeMeans
<1>2. Typed /\ PoolShape /\ m \in Helper
  BY Kinships DEF Dispatches
<1>. HIDE DEF h, S
<1>3. flags[m] = {}
  BY <1>1, <1>2, ViewsMean DEF HelperInStep, RxView
<1>4. ReadChunks(m) /\ UNCHANGED <<fate, state, timer, pool, job, flags, sig>> /\ fate = "running"
  BY <1>3 DEF rx_work_D0, Receive
<1>5. PICK c, w : c = io[m].fd /\ w = job[m]
  OBVIOUS
<1>6. c \in Client /\ w \in Worker
  BY <1>1, <1>2, <1>5, AtWork
<1>. DEFINE R(n, buffer) ==
              /\ net' = [net EXCEPT ![c].nread = @ + n]
              /\ wi' = [wi EXCEPT ![w][wi[w].buf] = buffer]
              /\ \/ Puts(<< >>) /\ io' = io_enable(m, "POLLIN")
                 \/ Puts(DoneMsgs(m, "M1")) /\ io' = io_detach(m)
<1>7. PICK n \in 1 .. Unread(c) : R(n, BufferWith(m, NextChunks(c, n)))
  BY <1>4, <1>5, Zenon DEF ReadChunks
<1>8. PICK z : z = BufferWith(m, NextChunks(c, n))
  OBVIOUS
<1>9. /\ net' \in [Client -> Connection]
      /\ \A d \in Client : net'[d].nread <= Len(net'[d].sent)
      /\ \A d \in Client : net'[d].conn = net[d].conn
      /\ z \in Seq(Chunk)
  BY <1>2, <1>5, <1>6, <1>7, <1>8, Read
<1>10. wi' = [wi EXCEPT ![w][wi[w].buf] = z]
  BY <1>7, <1>8
<1>11. \/ Puts(<< >>) /\ io' = io_enable(m, "POLLIN")
       \/ Puts(DoneMsgs(m, "M1")) /\ io' = io_detach(m)
  BY <1>7
<1>. HIDE DEF R
<1>12. /\ wi' \in [Worker -> Info]
       /\ \A v \in Worker : wi'[v].ci = wi[v].ci /\ wi'[v].fd = wi[v].fd
  BY <1>2, <1>6, <1>9, <1>10, WithBuffer DEF Typed
<1>13. Advance(q) /\ queue' \in Seq(Message) /\ io' \in [Channel -> IoChannel] /\ PoolShape'
  <2>1. flags' = flags /\ timer' = timer
    BY <1>4
  <2>2. CASE Puts(<< >>) /\ io' = io_enable(m, "POLLIN")
    <3>1. io' = io_enable(m, What(m))
      BY <2>2 DEF What
    <3>2. flags[m] \subseteq flags'[m] /\ h = Head(q)
      BY <2>1 DEF h
    <3>. QED
      BY <1>1, <1>2, <1>4, <1>9, <1>12, <2>1, <2>2, <3>1, <3>2, HelperWaits
  <2>3. CASE Puts(DoneMsgs(m, "M1")) /\ io' = io_detach(m)
    BY <1>1, <1>2, <1>4, <1>9, <1>12, <2>1, <2>3, HelperAnswers DEF h
  <2>. QED
    BY <1>11, <2>2, <2>3
<1>14. Typed'
  BY <1>2, <1>4, <1>9, <1>12, <1>13 DEF Typed
<1>. QED
  BY <1>13, <1>14

LEMMA RxWorkD0Fails ==
  ASSUME NEW q, Dispatches(q), NEW m \in Rx, rx_work_D0_fails(m)
  PROVE  Typed' /\ PoolShape' /\ Advance(q)
<1>. DEFINE h == Head(q)
<1>1. h.dst = m /\ state[m] = "work" /\ h.code = "POLLIN" /\ IsEvent(h) /\ io[m].fd # NULL
  <2>1. Receive(m, "work", "D0")
    BY DEF rx_work_D0_fails
  <2>2. m # listener
    BY Kinships
  <2>. QED
    BY <2>1, <2>2, Received, CodeMeans
<1>2. Typed /\ m \in Helper
  BY Kinships DEF Dispatches
<1>3. /\ Puts(DoneMsgs(m, "M2")) /\ io' = io_detach(m) /\ fate = "running"
      /\ UNCHANGED <<fate, state, timer, pool, job, flags, wi, sig, net>>
  BY DEF rx_work_D0_fails, worldVars, Receive
<1>4. Advance(q) /\ queue' \in Seq(Message) /\ io' \in [Channel -> IoChannel] /\ PoolShape'
  <2>1. h = Head(q) /\ flags' = flags /\ timer' = timer
    BY <1>3
  <2>2. /\ \A v \in Worker : wi'[v].ci = wi[v].ci /\ wi'[v].fd = wi[v].fd
        /\ \A c \in Client : net'[c].conn = net[c].conn
    BY <1>3
  <2>. HIDE DEF h
  <2>. QED
    BY <1>1, <1>2, <1>3, <2>1, <2>2, HelperAnswers
<1>5. Typed'
  BY <1>2, <1>3, <1>4 DEF Typed
<1>. QED
  BY <1>4, <1>5

(* A hang-up that comes after the timeout is noted, and otherwise ignored.  *)
LEMMA RxWorkD2 ==
  ASSUME NEW q, Dispatches(q), NEW m \in Rx, rx_work_D2(m)
  PROVE  Typed' /\ PoolShape' /\ Advance(q)
<1>. DEFINE h == Head(q)
            S == ToSet(q)
<1>1. /\ S \subseteq Message /\ Views(S) /\ h \in S /\ h.dst = m /\ state[m] = "work"
      /\ h.code \in {"POLLHUP", "POLLIN"} /\ IsEvent(h)
  <2>1. Receive(m, "work", "D2")
    BY DEF rx_work_D2
  <2>. QED
    BY <2>1, Received, CodeMeans
<1>2. Typed /\ m \in Helper
  BY Kinships DEF Dispatches
<1>3. /\ IF flags[m] \subseteq {HAVE_D2}
         THEN Puts(DoneMsgs(m, "M2")) /\ io' = io_detach(m)
         ELSE Puts(<< >>) /\ UNCHANGED io
      /\ flags' = [flags EXCEPT ![m] = flags[m] \cup {HAVE_D2}] /\ fate = "running"
      /\ UNCHANGED <<fate, state, timer, pool, job, wi, sig, net>>
  BY DEF rx_work_D2, worldVars, Receive
<1>4. /\ flags' \in [Rx -> SUBSET {HAVE_T0, HAVE_D2}] /\ flags[m] \subseteq {HAVE_T0, HAVE_D2}
      /\ \A p \in Rx \ {m} : flags'[p] = flags[p] /\ timer'[p] = timer[p]
      /\ timer'[m] = timer[m] /\ flags[m] \subseteq flags'[m]
  BY <1>2, <1>3 DEF Typed
<1>5. RxView(m, S) /\ h = Head(q) /\ h.code # "T0" /\ IsIoEvent(h)
  BY <1>1, <1>2, ViewsMean DEF HelperInStep, IsIoEvent
<1>6. /\ \A v \in Worker : wi'[v].ci = wi[v].ci /\ wi'[v].fd = wi[v].fd
      /\ \A c \in Client : net'[c].conn = net[c].conn
  BY <1>3
<1>. HIDE DEF h, S
<1>7. Advance(q) /\ queue' \in Seq(Message) /\ io' \in [Channel -> IoChannel] /\ PoolShape'
  <2>1. CASE flags[m] \subseteq {HAVE_D2}
    <3>1. io[m].fd # NULL
      BY <1>1, <1>5, <2>1 DEF RxView, HAVE_T0, HAVE_D2
    <3>2. Puts(DoneMsgs(m, "M2")) /\ io' = io_detach(m)
      BY <1>3, <2>1
    <3>3. fate = "running" /\ UNCHANGED <<fate, state, pool, job>>
      BY <1>3
    <3>. QED
      BY <1>1, <1>2, <1>4, <1>5, <1>6, <3>1, <3>2, <3>3, HelperAnswers
  <2>2. CASE ~ flags[m] \subseteq {HAVE_D2}
    <3>1. io[m].fd = NULL
      BY <1>1, <1>5, <2>2 DEF RxView
    <3>2. Puts(<< >>) /\ io' = io
      BY <1>3, <2>2
    <3>3. fate = "running" /\ UNCHANGED <<fate, state, pool, job>>
      BY <1>3
    <3>. QED
      BY <1>1, <1>2, <1>4, <1>5, <1>6, <3>1, <3>2, <3>3, HelperWaits
  <2>. QED
    BY <2>1, <2>2
<1>8. Typed'
  BY <1>2, <1>3, <1>4, <1>7 DEF Typed
<1>. QED
  BY <1>7, <1>8

(* The timeout.  When the machine has read a whole line before, in the same *)
(* batch of events, no flag says so, and it answers again.                  *)
LEMMA RxWorkT0 ==
  ASSUME NEW q, Dispatches(q), NEW m \in Rx, rx_work_T0(m)
  PROVE  Typed' /\ PoolShape' /\ Advance(q)
<1>. DEFINE h == Head(q)
            S == ToSet(q)
<1>1. /\ S \subseteq Message /\ Views(S) /\ h \in S /\ h.dst = m /\ state[m] = "work"
      /\ h.code = "T0" /\ IsEvent(h)
  <2>1. Receive(m, "work", "T0")
    BY DEF rx_work_T0
  <2>. QED
    BY <2>1, Received, CodeMeans
<1>2. Typed /\ m \in Helper /\ PoolShape /\ m # poolman /\ m \in Timed /\ queue \in Seq(Message)
      /\ queue # << >>
  BY Kinships DEF Dispatches, Typed
<1>3. RxView(m, S) /\ LinkView(m) /\ HelperView(m, S) /\ h = Head(q)
  BY <1>1, <1>2, ViewsMean DEF HelperInStep
<1>. HIDE DEF h, S
<1>4. timer[m] = "expired"
  BY <1>1, <1>3 DEF RxView
<1>5. /\ timer' = TickRead(m)
      /\ IF flags[m] = {}
         THEN Puts(DoneMsgs(m, "M2")) /\ io' = io_detach(m)
         ELSE Puts(<< >>) /\ UNCHANGED io
      /\ flags' = [flags EXCEPT ![m] = flags[m] \cup {HAVE_T0}]
      /\ UNCHANGED <<fate, state, pool, job, wi, sig, net>> /\ fate = "running"
  BY <1>4 DEF rx_work_T0, worldVars, Receive
<1>6. /\ flags' \in [Rx -> SUBSET {HAVE_T0, HAVE_D2}]
      /\ timer' \in [Timed -> {"off", "armed", "expired"}]
      /\ \A p \in Rx \ {m} : flags'[p] = flags[p] /\ timer'[p] = timer[p]
      /\ timer'[m] = "off" /\ flags[m] \subseteq flags'[m] /\ HAVE_T0 \in flags'[m]
  BY <1>2, <1>5, Kinships DEF Typed, TickRead
<1>7. /\ \A v \in Worker : wi'[v].ci = wi[v].ci /\ wi'[v].fd = wi[v].fd
      /\ \A c \in Client : net'[c].conn = net[c].conn
      /\ UNCHANGED <<fate, state, pool, job>> /\ fate = "running"
  BY <1>5
<1>8. Advance(q) /\ queue' \in Seq(Message) /\ io' \in [Channel -> IoChannel] /\ PoolShape'
  <2>1. CASE flags[m] = {} /\ io[m].fd # NULL
    <3>1. Puts(DoneMsgs(m, "M2")) /\ io' = io_detach(m)
      BY <1>5, <2>1
    <3>. QED
      BY <1>1, <1>2, <1>3, <1>6, <1>7, <2>1, <3>1, HelperAnswers
  <2>2. CASE flags[m] # {}
    <3>1. io[m].fd = NULL
      BY <1>3, <2>2 DEF RxView
    <3>2. Puts(<< >>) /\ io' = io
      BY <1>5, <2>2
    <3>. QED
      BY <1>1, <1>2, <1>3, <1>6, <1>7, <3>1, <3>2, HelperWaits
  <2>3. CASE flags[m] = {} /\ io[m].fd = NULL
    <3>1. queue' = Tail(queue) \o DoneMsgs(m, "M2") /\ io' = io_detach(m)
      BY <1>5, <2>3 DEF Puts
    <3>2. OnlyCall(m, Self(m, "M0"), S) /\ io[m].watch = "none"
      BY <1>1, <1>3, <2>3 DEF HelperView
    <3>3. io[m] = [fd |-> NULL, watch |-> "none"]
      <4>1. io[m] \in IoChannel
        BY <1>2, Kinships DEF Typed
      <4>. QED
        BY <2>3, <3>2, <4>1 DEF IoChannel
    <3>4. io' = io
      <4>1. io' = [io EXCEPT ![m] = io[m]]
        BY <3>1, <3>3 DEF io_detach
      <4>. QED
        BY <1>2, <4>1 DEF Typed
    <3>5. PICK w \in Worker : w = job[m] /\ state[w] = "getp"
      <4>1. job[m] # NULL /\ job[m] \in Worker \cup {NULL}
        BY <1>1, <1>2, <1>3 DEF LinkView, Typed
      <4>. QED
        BY <1>3, <4>1 DEF LinkView, Task
    <3>6. DoneMsgs(m, "M2") = <<Msg(m, w, NULL, "M2"), Self(m, "M0")>>
      BY <3>5 DEF DoneMsgs
    <3>7. DoneMsgs(m, "M2") \in Seq(Message)
      <4>. DEFINE x == Msg(m, w, NULL, "M2")
                  y == Self(m, "M0")
      <4>1. x \in Message /\ y \in Message
        BY <1>2, Kinships, MsgType DEF Self, Code0
      <4>. HIDE DEF x, y
      <4>2. <<x, y>> \in Seq(Message)
        BY <4>1
      <4>. QED
        BY <3>6, <4>2 DEF x, y
    <3>8. Again(q, DoneMsgs(m, "M2"))
      <4>1. Self(m, "M0") \in S
        BY <3>2 DEF OnlyCall
      <4>. QED
        BY <1>1, <3>5, <3>6, <4>1 DEF Again, h, S
    <3>9. /\ \A p \in Helper \ {m} : HelperKept(p)
          /\ \A v \in Worker : WorkerKept(v)
          /\ \A c \in Client : ClientKept(c)
          /\ SinglesKept /\ (Resting(m)' <=> Resting(m))
      <4>1. /\ \A p \in Channel \ {m} : io'[p] = io[p]
            /\ \A p \in Helper \ {m} : job'[p] = job[p]
        BY <1>7, <3>4
      <4>. QED
        BY <1>2, <1>6, <1>7, <4>1, OthersKept
    <3>10. Views(After(S, h, {}))' /\ Puttable(S, h, {}) /\ StillFirst(S, {})
      <4>1. state' = state /\ job' = job /\ io'[m] = io[m]
        BY <1>7, <3>4
      <4>. QED
        BY <1>1, <1>2, <1>6, <2>3, <3>9, <4>1, HelperGoesOn
    <3>11. Moves(h)
      BY <1>1, <1>2, <1>7, <3>4, MovesIo
    <3>12. Handled(q, << >>)
      BY <1>7, <3>10, Put0 DEF Handled, h, S
    <3>13. Advance(q)
      BY <1>7, <3>1, <3>8, <3>11, <3>12 DEF Advance, h
    <3>14. queue' \in Seq(Message)
      BY <1>2, <3>1, <3>7, Positions
    <3>. QED
      BY <1>2, <1>7, <3>4, <3>13, <3>14, PoolSame DEF Typed
  <2>. QED
    BY <2>1, <2>2, <2>3
<1>9. Typed'
  BY <1>2, <1>5, <1>6, <1>8 DEF Typed
<1>. QED
  BY <1>8, <1>9

(* Helper n has done its work, and returns to its pool. *)
LEMMA RxWorkM0 ==
  ASSUME NEW q, Dispatches(q), NEW m \in Rx, rx_work_M0(m)
  PROVE  Typed' /\ PoolShape' /\ Advance(q)
<1>. DEFINE h == Head(q)
            S == ToSet(q)
<1>1. /\ S \subseteq Message /\ Views(S) /\ h \in S /\ h.dst = m /\ state[m] = "work"
      /\ h.code = "M0" /\ ~ IsEvent(h) /\ \A x \in S : ~ IsEvent(x)
  <2>1. Receive(m, "work", "M0")
    BY DEF rx_work_M0
  <2>. QED
    BY <2>1, Received
<1>2. Typed /\ PoolInv /\ PoolShape /\ m \in Helper /\ m \in Machine /\ m # listener
      /\ listener \in Machine /\ m \in Timed /\ m \notin Worker
  BY Kinships DEF Dispatches
<1>. HIDE DEF h, S
<1>3. /\ Puts(<< >>) /\ state' = [state EXCEPT ![m] = "idle"] /\ timer' = tm_stop(m)
      /\ flags' = [flags EXCEPT ![m] = {}] /\ job' = [job EXCEPT ![m] = NULL] /\ Rest(m)
      /\ UNCHANGED <<fate, io, wi, sig, net>> /\ fate = "running"
  BY DEF rx_work_M0, worldVars, Receive
<1>4. ~ Resting(m)
  BY <1>1, <1>2, ViewsMean DEF HelperInStep, HelperView
<1>5. PoolShape' /\ \A x : Resting(x)' <=> Resting(x) \/ x = m
  BY <1>2, <1>3, <1>4, PoolPut DEF Kinds, Members
<1>6. /\ flags' \in [Rx -> SUBSET {HAVE_T0, HAVE_D2}]
      /\ timer' \in [Timed -> {"off", "armed", "expired"}]
      /\ \A p \in Rx \ {m} : flags'[p] = flags[p] /\ timer'[p] = timer[p]
      /\ flags'[m] = {} /\ timer'[m] = "off"
  BY <1>2, <1>3, Kinships DEF Typed, tm_stop
<1>7. job' \in [Helper -> Worker \cup {NULL}] /\ job'[m] = NULL
      /\ \A p \in Helper \ {m} : job'[p] = job[p]
  BY <1>2, <1>3 DEF Typed
<1>8. Views(After(S, h, {}))' /\ Puttable(S, h, {}) /\ StillFirst(S, {})
  <2>1. state' = [state EXCEPT ![m] = "idle"] /\ io' = io /\ wi' = wi /\ net' = net
    BY <1>3
  <2>. QED
    BY <1>1, <1>2, <1>5, <1>6, <1>7, <2>1, HelperFinishes
<1>9. state' \in [Machine -> {"none", "init", "idle", "work", "getp", "ackp"}]
      /\ state'[listener] = state[listener]
  BY <1>2, <1>3 DEF Typed
<1>10. Moves(h)
  BY <1>1, <1>2, <1>3, MovesItself
<1>11. Advance(q) /\ queue' \in Seq(Message)
  BY <1>3, <1>8, <1>9, <1>10, AdvancedQuietly DEF h, S
<1>12. Typed'
  BY <1>2, <1>3, <1>6, <1>7, <1>9, <1>11 DEF Typed
<1>. QED
  BY <1>5, <1>11, <1>12

-----------------------------------------------------------------------------
(* The handlers of the tx machines. *)

LEMMA TxInit ==
  ASSUME NEW q, Dispatches(q), NEW m \in Tx, tx_init_M0(m)
  PROVE  Typed' /\ PoolShape' /\ Advance(q)
<1>. DEFINE h == Head(q)
            S == ToSet(q)
<1>1. /\ S \subseteq Message /\ Views(S) /\ h \in S /\ h.dst = m /\ state[m] = "init"
      /\ h.code = "M0" /\ ~ IsEvent(h) /\ \A x \in S : ~ IsEvent(x)
  BY Received DEF tx_init_M0
<1>2. /\ Puts(<< >>) /\ state' = [state EXCEPT ![m] = "idle"] /\ Rest(m)
      /\ UNCHANGED <<fate, io, timer, job, flags, wi, sig, net>> /\ fate = "running"
  BY DEF tx_init_M0, worldVars, Receive
<1>3. Typed /\ PoolInv /\ PoolShape /\ m \in Helper /\ m \in Machine /\ m # listener
      /\ listener \in Machine /\ m \notin Rx /\ m \notin Worker
  BY Kinships DEF Dispatches
<1>. HIDE DEF h, S
<1>4. ~ Resting(m)
  BY <1>1, <1>3, ViewsMean DEF HelperInStep, HelperView
<1>5. PoolShape' /\ \A x : Resting(x)' <=> Resting(x) \/ x = m
  BY <1>2, <1>3, <1>4, PoolPut DEF Kinds, Members
<1>6. Views(After(S, h, {}))' /\ Puttable(S, h, {}) /\ StillFirst(S, {})
  <2>1. (\A p \in Rx \ {m} : flags'[p] = flags[p]) /\ \A p \in Rx : timer'[p] = timer[p]
    BY <1>2
  <2>. QED
    BY <1>1, <1>2, <1>3, <1>5, <2>1, HelperInit
<1>7. state' \in [Machine -> {"none", "init", "idle", "work", "getp", "ackp"}]
      /\ state'[listener] = state[listener]
  BY <1>2, <1>3 DEF Typed
<1>8. Moves(h)
  BY <1>1, <1>2, <1>3, MovesItself
<1>9. Advance(q) /\ queue' \in Seq(Message)
  BY <1>2, <1>3, <1>6, <1>7, <1>8, AdvancedQuietly DEF h, S
<1>10. Typed'
  BY <1>2, <1>3, <1>7, <1>9 DEF Typed
<1>. QED
  BY <1>5, <1>9, <1>10

LEMMA TxIdleM1 ==
  ASSUME NEW q, Dispatches(q), NEW m \in Tx, tx_idle_M1(m)
  PROVE  Typed' /\ PoolShape' /\ Advance(q)
<1>. DEFINE h == Head(q)
            S == ToSet(q)
            w == h.src
<1>1. /\ S \subseteq Message /\ Views(S) /\ h \in S /\ h.dst = m /\ state[m] = "idle"
      /\ h.code = "M1" /\ ~ IsEvent(h) /\ (\A x \in S : ~ IsEvent(x)) /\ h = Head(queue)
  <2>1. Receive(m, "idle", "M1")
    BY DEF tx_idle_M1
  <2>. QED
    BY <2>1, Received
<1>2. Typed /\ PoolShape /\ m \in Helper /\ m \in Machine /\ m # listener /\ m \notin Rx
  BY Kinships DEF Dispatches
<1>3. /\ IF Attached(wi[w].fd)
         THEN Exit("fd attached twice")
         ELSE /\ Puts(<<Self(m, "M0")>>)
              /\ job' = [job EXCEPT ![m] = w]
              /\ io' = io_attach(m, wi[w].fd)
              /\ UNCHANGED <<fate, state, timer, pool, flags, wi, worldVars>>
      /\ fate = "running"
  <2>1. Head(queue).src = w
    BY <1>1
  <2>2. fate = "running"
    BY DEF tx_idle_M1, Receive
  <2>. HIDE DEF h, S, w
  <2>. QED
    BY <2>1, <2>2, Zenon DEF tx_idle_M1
<1>. HIDE DEF h, S, w
<1>4. /\ w \in Worker /\ Asking(w, S) /\ wi[w].ci \in Client
  BY <1>1, <1>2, AskedBy DEF w
<1>5. NoHelp(w) /\ wi[w].fd = wi[w].ci
  BY <1>4 DEF Asking
<1>6. /\ Puts(<<Self(m, "M0")>>) /\ job' = [job EXCEPT ![m] = w]
      /\ io' = io_attach(m, wi[w].fd)
      /\ UNCHANGED <<fate, state, timer, pool, flags, wi, sig, net>>
  BY <1>1, <1>2, <1>3, <1>4, <1>5, NotAttached DEF worldVars
<1>7. /\ io' \in [Channel -> IoChannel] /\ io'[m].fd = wi[w].fd /\ io'[m].watch = "POLLHUP"
      /\ \A p \in Channel \ {m} : io'[p] = io[p]
  BY <1>2, <1>4, <1>5, <1>6, ChannelSet DEF Typed, io_attach
<1>9. job' \in [Helper -> Worker \cup {NULL}] /\ job'[m] = w
      /\ \A p \in Helper \ {m} : job'[p] = job[p]
  BY <1>2, <1>4, <1>6 DEF Typed
<1>10. /\ \A p \in Helper \ {m} : HelperKept(p)
       /\ \A v \in Worker : WorkerKept(v)
       /\ \A c \in Client : ClientKept(c)
       /\ SinglesKept /\ (Resting(m)' <=> Resting(m))
  BY <1>2, <1>6, <1>7, <1>9, OthersKept
<1>11. /\ <<Self(m, "M0")>> \in Seq(Message) /\ IsInjective(<<Self(m, "M0")>>)
       /\ ToSet(<<Self(m, "M0")>>) = {Self(m, "M0")}
  <2>1. Self(m, "M0") \in Message
    BY <1>2, MsgType DEF Self, Code0
  <2>. QED
    BY <2>1, Put1
<1>. DEFINE N == {Self(m, "M0")}
<1>12. Views(After(S, h, N))' /\ Puttable(S, h, N) /\ StillFirst(S, N)
  <2>1. w = h.src /\ N = {Self(m, "M0")} /\ state' = state
    BY <1>6 DEF w
  <2>. HIDE DEF N
  <2>. QED
    BY <1>1, <1>2, <1>7, <1>9, <1>10, <2>1, HelperStarts
<1>13. Moves(h)
  BY <1>1, <1>2, <1>6, <1>7, MovesIo
<1>14. Advance(q) /\ queue' \in Seq(Message)
  <2>1. Self(m, "M0").src = h.dst
    BY <1>1, SelfFields
  <2>. QED
    BY <1>1, <1>3, <1>6, <1>11, <1>12, <1>13, <2>1, Advanced, ZenonT(40) DEF h, S
<1>15. Typed'
  BY <1>2, <1>6, <1>7, <1>9, <1>14 DEF Typed
<1>. QED
  BY <1>2, <1>6, <1>14, <1>15, PoolSame

LEMMA TxIdleM0 ==
  ASSUME NEW q, Dispatches(q), NEW m \in Tx, tx_idle_M0(m)
  PROVE  Typed' /\ PoolShape' /\ Advance(q)
<1>. DEFINE h == Head(q)
            S == ToSet(q)
<1>1. /\ S \subseteq Message /\ Views(S) /\ h \in S /\ h.dst = m /\ state[m] = "idle"
      /\ h.code = "M0" /\ ~ IsEvent(h) /\ (\A x \in S : ~ IsEvent(x))
  <2>1. Receive(m, "idle", "M0")
    BY DEF tx_idle_M0
  <2>. QED
    BY <2>1, Received
<1>. HIDE DEF h, S
<1>2. Typed /\ PoolShape /\ m \in Helper /\ m \in Machine /\ m # listener
      /\ m \notin Worker /\ m \notin Rx /\ listener \in Machine
  BY Kinships DEF Dispatches
<1>3. io[m].fd # NULL /\ job[m] \in Worker
  BY <1>1, <1>2, HasSocket
<1>4. /\ Puts(<< >>) /\ state' = [state EXCEPT ![m] = "work"]
      /\ wi' = [wi EXCEPT ![job[m]].unsent = wi[job[m]][wi[job[m]].buf]]
      /\ io' = io_enable(m, "POLLOUT")
      /\ UNCHANGED <<fate, timer, pool, job, flags, sig, net>> /\ fate = "running"
  BY <1>3 DEF tx_idle_M0, worldVars, Receive
<1>5. /\ io' \in [Channel -> IoChannel] /\ io'[m].fd = io[m].fd /\ io'[m].watch = "POLLOUT"
      /\ \A p \in Channel \ {m} : io'[p] = io[p]
  BY <1>2, <1>4, ChannelEnabled DEF Typed
<1>6. /\ wi' \in [Worker -> Info]
      /\ \A v \in Worker : wi'[v].ci = wi[v].ci /\ wi'[v].fd = wi[v].fd
  <2>1. PICK w \in Worker : w = job[m]
    BY <1>3
  <2>2. wi \in [Worker -> Info] /\ wi[w] \in Info
    BY <1>2 DEF Typed
  <2>3. wi[w][wi[w].buf] \in Seq(Chunk)
    BY <2>2 DEF Info
  <2>4. wi' = [wi EXCEPT ![w].unsent = wi[w][wi[w].buf]]
    BY <1>4, <2>1
  <2>. QED
    BY <2>2, <2>3, <2>4, WithUnsent
<1>7. PoolShape' /\ \A x : Resting(x)' <=> Resting(x)
  BY <1>2, <1>4, PoolSame
<1>8. Views(After(S, h, {}))' /\ Puttable(S, h, {}) /\ StillFirst(S, {})
  <2>1. io'[m].watch = What(m)
    BY <1>2, <1>5 DEF What
  <2>2. job' = job /\ net' = net /\ flags' = flags /\ state' = [state EXCEPT ![m] = "work"]
        /\ \A p \in Rx \ {m} : timer'[p] = timer[p]
    BY <1>4
  <2>. QED
    BY <1>1, <1>2, <1>3, <1>5, <1>6, <1>7, <2>1, <2>2, HelperWorks
<1>9. state' \in [Machine -> {"none", "init", "idle", "work", "getp", "ackp"}]
      /\ state'[listener] = state[listener]
  BY <1>2, <1>4 DEF Typed
<1>10. Moves(h)
  <2>1. \A p \in Helper \ {m} : io'[p] = io[p]
    BY <1>5, Kinships
  <2>. QED
    BY <1>1, <1>2, <1>4, <2>1, MovesItself
<1>11. Advance(q) /\ queue' \in Seq(Message)
  BY <1>4, <1>8, <1>9, <1>10, AdvancedQuietly DEF h, S
<1>12. Typed'
  BY <1>2, <1>4, <1>5, <1>6, <1>9, <1>11 DEF Typed
<1>. QED
  BY <1>7, <1>11, <1>12

(* What a write leaves. *)
LEMMA Written ==
  ASSUME Typed, NEW c \in Client, NEW w \in Worker, NEW left, left = wi[w].unsent,
         NEW n \in 1 .. Len(left),
         net' = [net EXCEPT ![c].echoed = @ \o SubSeq(left, 1, n), ![c].full = n < Len(left)]
  PROVE  /\ net' \in [Client -> Connection]
         /\ \A d \in Client : net'[d].nread <= Len(net'[d].sent) /\ net'[d].conn = net[d].conn
         /\ AfterWrite(left, n) \in Seq(Chunk)
<1>1. /\ net \in [Client -> Connection] /\ net[c] \in Connection /\ wi[w] \in Info
      /\ \A d \in Client : net[d].nread <= Len(net[d].sent)
  BY DEF Typed
<1>2. left \in Seq(Chunk) /\ Len(left) \in Nat /\ n \in Nat /\ net[c].echoed \in Seq(Chunk)
  BY <1>1, LenProperties DEF Info, Connection
<1>3. SubSeq(left, 1, n) \in Seq(Chunk) /\ SubSeq(left, n + 1, Len(left)) \in Seq(Chunk)
  BY <1>2, SubSeqProperties
<1>. DEFINE z == net[c].echoed \o SubSeq(left, 1, n)
            d == [net[c] EXCEPT !.echoed = z, !.full = n < Len(left)]
<1>4. z \in Seq(Chunk) /\ (n < Len(left)) \in BOOLEAN
  BY <1>2, <1>3, ConcatProperties
<1>5. net' = [net EXCEPT ![c] = d]
  OBVIOUS
<1>. HIDE DEF z
<1>6. d \in Connection /\ d.sent = net[c].sent /\ d.nread = net[c].nread /\ d.conn = net[c].conn
  BY <1>1, <1>4 DEF Connection
<1>. HIDE DEF d
<1>7. /\ net' \in [Client -> Connection]
      /\ \A e \in Client : net'[e] = IF e = c THEN d ELSE net[e]
  BY <1>1, <1>5, <1>6, ZenonT(40)
<1>8. \A e \in Client : net'[e].nread <= Len(net'[e].sent) /\ net'[e].conn = net[e].conn
  BY <1>1, <1>6, <1>7
<1>. QED
  BY <1>3, <1>7, <1>8 DEF AfterWrite

LEMMA TxWorkD1 ==
  ASSUME NEW q, Dispatches(q), NEW m \in Tx, tx_work_D1(m)
  PROVE  Typed' /\ PoolShape' /\ Advance(q)
<1>. DEFINE h == Head(q)
            S == ToSet(q)
<1>1. /\ S \subseteq Message /\ Views(S) /\ h \in S /\ h.dst = m /\ state[m] = "work"
      /\ h.code = "POLLOUT" /\ IsEvent(h)
  <2>1. Receive(m, "work", "D1")
    BY DEF tx_work_D1
  <2>. QED
    BY <2>1, Received, CodeMeans
<1>2. Typed /\ PoolShape /\ m \in Helper /\ m \notin Rx
  BY Kinships DEF Dispatches
<1>. HIDE DEF h, S
<1>3. io[m].fd # NULL
  BY <1>1, <1>2, ViewsMean DEF HelperInStep, TxView
<1>5. PICK c, w : c = io[m].fd /\ w = job[m]
  OBVIOUS
<1>6. c \in Client /\ w \in Worker
  BY <1>1, <1>2, <1>3, <1>5, AtWork
<1>. DEFINE R(n, left) ==
              /\ net' = [net EXCEPT ![c].echoed = @ \o SubSeq(left, 1, n),
                                    ![c].full = n < Len(left)]
              /\ wi' = [wi EXCEPT ![w].unsent = AfterWrite(left, n)]
              /\ IF n < Len(left)
                 THEN Puts(<< >>) /\ io' = io_enable(m, "POLLOUT")
                 ELSE Puts(TxDoneMsgs(m, "M1")) /\ io' = io_detach(m)
<1>4. /\ \E n \in 1 .. Len(wi[w].unsent) : R(n, wi[w].unsent)
      /\ UNCHANGED <<fate, state, timer, pool, job, flags, sig>> /\ fate = "running"
  <2>1. /\ \E n \in 1 .. Len(wi[job[m]].unsent) :
             /\ net' = [net EXCEPT ![io[m].fd].echoed = @ \o SubSeq(wi[job[m]].unsent, 1, n),
                                   ![io[m].fd].full = n < Len(wi[job[m]].unsent)]
             /\ wi' = [wi EXCEPT ![job[m]].unsent = AfterWrite(wi[job[m]].unsent, n)]
             /\ IF n < Len(wi[job[m]].unsent)
                THEN Puts(<< >>) /\ io' = io_enable(m, "POLLOUT")
                ELSE Puts(TxDoneMsgs(m, "M1")) /\ io' = io_detach(m)
        /\ UNCHANGED <<fate, state, timer, pool, job, flags, sig>>
    BY Zenon DEF tx_work_D1, unsent
  <2>2. fate = "running"
    BY DEF tx_work_D1, Receive
  <2>. QED
    BY <1>5, <2>1, <2>2, Zenon
<1>7. PICK left : left = wi[w].unsent
  OBVIOUS
<1>8. PICK n \in 1 .. Len(left) : R(n, left)
  BY <1>4, <1>7, Zenon
<1>9. /\ net' \in [Client -> Connection]
      /\ \A d \in Client : net'[d].nread <= Len(net'[d].sent)
      /\ \A d \in Client : net'[d].conn = net[d].conn
      /\ AfterWrite(left, n) \in Seq(Chunk)
  BY <1>2, <1>6, <1>7, <1>8, Written
<1>10. wi' = [wi EXCEPT ![w].unsent = AfterWrite(left, n)]
  BY <1>8
<1>11. \/ Puts(<< >>) /\ io' = io_enable(m, "POLLOUT")
       \/ Puts(TxDoneMsgs(m, "M1")) /\ io' = io_detach(m)
  BY <1>8
<1>. HIDE DEF R
<1>12. /\ wi' \in [Worker -> Info]
       /\ \A v \in Worker : wi'[v].ci = wi[v].ci /\ wi'[v].fd = wi[v].fd
  BY <1>2, <1>6, <1>9, <1>10, WithUnsent DEF Typed
<1>13. Advance(q) /\ queue' \in Seq(Message) /\ io' \in [Channel -> IoChannel] /\ PoolShape'
  <2>1. /\ \A p \in Rx \ {m} : flags'[p] = flags[p] /\ timer'[p] = timer[p]
        /\ h = Head(q) /\ fate = "running" /\ UNCHANGED <<fate, state, pool, job>>
    BY <1>4 DEF h
  <2>2. CASE Puts(<< >>) /\ io' = io_enable(m, "POLLOUT")
    <3>1. io' = io_enable(m, What(m))
      BY <1>2, <2>2 DEF What
    <3>. QED
      BY <1>1, <1>2, <1>3, <1>9, <1>12, <2>1, <2>2, <3>1, HelperWaits
  <2>3. CASE Puts(TxDoneMsgs(m, "M1")) /\ io' = io_detach(m)
    BY <1>1, <1>2, <1>3, <1>9, <1>12, <2>1, <2>3, HelperAnswers
  <2>. QED
    BY <1>11, <2>2, <2>3
<1>14. Typed'
  BY <1>2, <1>4, <1>9, <1>12, <1>13 DEF Typed
<1>. QED
  BY <1>13, <1>14

(* The connection has failed. *)
LEMMA TxWorkFails ==
  ASSUME NEW q, Dispatches(q), NEW m \in Tx, tx_work_D1_fails(m) \/ tx_work_D2(m)
  PROVE  Typed' /\ PoolShape' /\ Advance(q)
<1>. DEFINE h == Head(q)
            S == ToSet(q)
<1>1. /\ S \subseteq Message /\ Views(S) /\ h \in S /\ h.dst = m /\ state[m] = "work"
      /\ h.code # "T0" /\ IsEvent(h)
  <2>1. Receive(m, "work", "D1") \/ Receive(m, "work", "D2")
    BY DEF tx_work_D1_fails, tx_work_D2
  <2>2. h.code \in {"POLLOUT", "POLLHUP", "POLLIN"}
    BY <2>1, Received, CodeMeans
  <2>. QED
    BY <2>1, <2>2, Received
<1>2. Typed /\ m \in Helper /\ m \notin Rx
  BY Kinships DEF Dispatches
<1>3. /\ Puts(TxDoneMsgs(m, "M2")) /\ io' = io_detach(m) /\ fate = "running"
      /\ UNCHANGED <<fate, state, timer, pool, job, flags, wi, sig, net>>
  BY DEF tx_work_D1_fails, tx_work_D2, worldVars, Receive
<1>4. io[m].fd # NULL
  <2>. HIDE DEF h, S
  <2>. QED
    BY <1>1, <1>2, ViewsMean DEF HelperInStep, TxView
<1>5. Advance(q) /\ queue' \in Seq(Message) /\ io' \in [Channel -> IoChannel] /\ PoolShape'
  <2>1. h = Head(q) /\ flags' = flags /\ timer' = timer
    BY <1>3
  <2>2. /\ \A v \in Worker : wi'[v].ci = wi[v].ci /\ wi'[v].fd = wi[v].fd
        /\ \A c \in Client : net'[c].conn = net[c].conn
    BY <1>3
  <2>. HIDE DEF h, S
  <2>. QED
    BY <1>1, <1>2, <1>3, <1>4, <2>1, <2>2, HelperAnswers
<1>6. Typed'
  BY <1>2, <1>3, <1>5 DEF Typed
<1>. QED
  BY <1>5, <1>6

LEMMA TxWorkM0 ==
  ASSUME NEW q, Dispatches(q), NEW m \in Tx, tx_work_M0(m)
  PROVE  Typed' /\ PoolShape' /\ Advance(q)
<1>. DEFINE h == Head(q)
            S == ToSet(q)
<1>1. /\ S \subseteq Message /\ Views(S) /\ h \in S /\ h.dst = m /\ state[m] = "work"
      /\ h.code = "M0" /\ ~ IsEvent(h) /\ \A x \in S : ~ IsEvent(x)
  <2>1. Receive(m, "work", "M0")
    BY DEF tx_work_M0
  <2>. QED
    BY <2>1, Received
<1>2. Typed /\ PoolInv /\ PoolShape /\ m \in Helper /\ m \in Machine /\ m # listener
      /\ listener \in Machine /\ m \notin Worker /\ m \notin Rx
  BY Kinships DEF Dispatches
<1>. HIDE DEF h, S
<1>3. /\ Puts(<< >>) /\ state' = [state EXCEPT ![m] = "idle"]
      /\ job' = [job EXCEPT ![m] = NULL] /\ Rest(m)
      /\ UNCHANGED <<fate, io, timer, flags, wi, sig, net>> /\ fate = "running"
  BY DEF tx_work_M0, worldVars, Receive
<1>4. ~ Resting(m)
  BY <1>1, <1>2, ViewsMean DEF HelperInStep, HelperView
<1>5. PoolShape' /\ \A x : Resting(x)' <=> Resting(x) \/ x = m
  BY <1>2, <1>3, <1>4, PoolPut DEF Kinds, Members
<1>6. job' \in [Helper -> Worker \cup {NULL}] /\ job'[m] = NULL
      /\ \A p \in Helper \ {m} : job'[p] = job[p]
  BY <1>2, <1>3 DEF Typed
<1>7. Views(After(S, h, {}))' /\ Puttable(S, h, {}) /\ StillFirst(S, {})
  <2>1. state' = [state EXCEPT ![m] = "idle"] /\ io' = io /\ wi' = wi /\ net' = net
        /\ \A p \in Rx \ {m} : flags'[p] = flags[p] /\ timer'[p] = timer[p]
    BY <1>3
  <2>. QED
    BY <1>1, <1>2, <1>5, <1>6, <2>1, HelperFinishes
<1>8. state' \in [Machine -> {"none", "init", "idle", "work", "getp", "ackp"}]
      /\ state'[listener] = state[listener]
  BY <1>2, <1>3 DEF Typed
<1>9. Moves(h)
  BY <1>1, <1>2, <1>3, MovesItself
<1>10. Advance(q) /\ queue' \in Seq(Message)
  BY <1>3, <1>7, <1>8, <1>9, AdvancedQuietly DEF h, S
<1>11. Typed'
  BY <1>2, <1>3, <1>6, <1>8, <1>10 DEF Typed
<1>. QED
  BY <1>5, <1>10, <1>11

-----------------------------------------------------------------------------
(* The handlers of the workers. *)

(* No machine moves. *)
LEMMA MovesNot ==
  ASSUME NEW h, UNCHANGED <<state, io, pool>>, state[h.dst] # "none", h.dst \notin Rx
  PROVE  Moves(h)
<1>1. \A x : Resting(x)' <=> Resting(x)
  BY PoolSame
<1>. QED
  BY <1>1 DEF Moves

LEMMA WorkerInit ==
  ASSUME NEW q, Dispatches(q), NEW w \in Worker, worker_init_M0(w) \/ worker_M3(w)
  PROVE  Typed' /\ PoolShape' /\ Advance(q)
<1>. DEFINE h == Head(q)
            S == ToSet(q)
<1>1. PICK a \in {"M0", "M3"} :
        /\ S \subseteq Message /\ Views(S) /\ h \in S /\ h.dst = w /\ h.code = a
        /\ ~ IsEvent(h) /\ (\A x \in S : ~ IsEvent(x))
        /\ IF a = "M0" THEN state[w] = "init" ELSE state[w] \in {"getp", "ackp"}
  <2>1. CASE Receive(w, "init", "M0")
    BY <2>1, Received
  <2>2. CASE Receive(w, "getp", "M3") \/ Receive(w, "ackp", "M3")
    BY <2>2, Received
  <2>. QED
    BY <2>1, <2>2 DEF worker_init_M0, worker_M3
<1>2. Typed /\ PoolInv /\ PoolShape /\ w \in Machine /\ w # listener
      /\ listener \in Machine /\ w \notin Rx /\ w \notin Helper
  BY Kinships DEF Dispatches
<1>3. /\ Puts(<< >>) /\ state' = [state EXCEPT ![w] = "idle"]
      /\ wi' = [wi EXCEPT ![w] = IdleInfo] /\ Rest(w)
      /\ UNCHANGED <<fate, io, timer, job, flags, sig, net>> /\ fate = "running"
  BY DEF worker_init_M0, worker_M3, worker_idle_enter, worldVars, Receive
<1>4. /\ h = Self(w, a) /\ OnlyCall(w, h, S) /\ NoAsk(w, S) /\ ~ Resting(w)
      /\ a = "M3" \/ wi[w].ci = NULL
      /\ \A p \in Helper : job[p] # w
  <2>1. CASE a = "M0"
    <3>. HIDE DEF h, S
    <3>1. WorkerView(w, S) /\ \A p \in Helper : LinkView(p)
      BY <1>1, ViewsMean DEF HelperInStep
    <3>2. ~ Resting(w) /\ wi[w].ci = NULL /\ NoAsk(w, S) /\ OnlyCall(w, Self(w, "M0"), S)
      BY <1>1, <2>1, <3>1 DEF WorkerView
    <3>3. h = Self(w, "M0")
      BY <1>1, <3>2 DEF OnlyCall
    <3>4. \A p \in Helper : job[p] # w
      <4>1. w # NULL
        BY Kinships
      <4>. QED
        BY <1>1, <2>1, <3>1, <4>1 DEF LinkView, Task
    <3>. QED
      BY <2>1, <3>2, <3>3, <3>4
  <2>2. CASE a = "M3"
    BY <1>1, <2>2, GoesOn DEF Dispatches, InStep
  <2>. QED
    BY <2>1, <2>2
<1>. HIDE DEF h, S
<1>5. PoolShape' /\ \A x : Resting(x)' <=> Resting(x) \/ x = w
  BY <1>2, <1>3, <1>4, PoolPut DEF Kinds, Members
<1>6. wi' \in [Worker -> Info] /\ wi'[w].ci = NULL /\ \A v \in Worker \ {w} : wi'[v] = wi[v]
  BY <1>2, <1>3, IdleInfoType DEF Typed
<1>7. Views(After(S, h, {}))' /\ Puttable(S, h, {}) /\ StillFirst(S, {})
  <2>1. state' = [state EXCEPT ![w] = "idle"] /\ UNCHANGED <<io, timer, job, flags, net>>
    BY <1>3
  <2>. QED
    BY <1>1, <1>2, <1>4, <1>5, <1>6, <2>1, WorkerRests
<1>8. state' \in [Machine -> {"none", "init", "idle", "work", "getp", "ackp"}]
      /\ state'[listener] = state[listener]
  BY <1>2, <1>3 DEF Typed
<1>9. Moves(h)
  <2>1. h.src = w
    BY <1>4, SelfFields
  <2>2. \A p \in Helper \ {w} : io'[p] = io[p]
    BY <1>3
  <2>. QED
    BY <1>1, <1>2, <1>3, <2>1, <2>2, MovesItself
<1>10. Advance(q) /\ queue' \in Seq(Message)
  BY <1>3, <1>7, <1>8, <1>9, AdvancedQuietly DEF h, S
<1>11. Typed'
  BY <1>2, <1>3, <1>6, <1>8, <1>10 DEF Typed
<1>. QED
  BY <1>5, <1>10, <1>11

LEMMA WorkerIdleM1 ==
  ASSUME NEW q, Dispatches(q), NEW w \in Worker, worker_idle_M1(w)
  PROVE  Typed' /\ PoolShape' /\ Advance(q)
<1>. DEFINE h == Head(q)
            S == ToSet(q)
            c == h.ptr
<1>1. /\ S \subseteq Message /\ Views(S) /\ h \in S /\ h.dst = w /\ h.code = "M1"
      /\ ~ IsEvent(h) /\ (\A x \in S : ~ IsEvent(x)) /\ state[w] = "idle" /\ h = Head(queue)
  <2>1. Receive(w, "idle", "M1")
    BY DEF worker_idle_M1
  <2>. QED
    BY <2>1, Received
<1>2. Typed /\ PoolShape /\ w \in Machine /\ w \notin Helper /\ w \notin Rx
  BY Kinships DEF Dispatches
<1>3. c \in Client /\ c # NULL
  <2>. HIDE DEF h, S
  <2>. QED
    BY <1>1, IdleTold, Kinships
<1>4. /\ Puts(<<Self(w, "M0")>>) /\ wi' = [wi EXCEPT ![w].ci = c]
      /\ UNCHANGED <<fate, state, io, timer, pool, job, flags, sig, net>> /\ fate = "running"
  <2>1. Head(queue).ptr = c
    BY <1>1
  <2>2. fate = "running"
    BY DEF worker_idle_M1, Receive
  <2>3. /\ Puts(<<Self(w, "M0")>>) /\ wi' = [wi EXCEPT ![w].ci = c]
        /\ UNCHANGED <<fate, state, io, timer, pool, job, flags, worldVars>>
    <3>. HIDE DEF h, S, c
    <3>. QED
      BY <1>3, <2>1, Zenon DEF worker_idle_M1
  <2>. QED
    BY <2>2, <2>3 DEF worldVars
<1>. HIDE DEF h, S, c
<1>5. wi' \in [Worker -> Info] /\ wi'[w].ci = c /\ \A v \in Worker \ {w} : wi'[v] = wi[v]
  BY <1>2, <1>3, <1>4, WithClient DEF Typed
<1>6. /\ <<Self(w, "M0")>> \in Seq(Message) /\ IsInjective(<<Self(w, "M0")>>)
      /\ ToSet(<<Self(w, "M0")>>) = {Self(w, "M0")}
  <2>1. Self(w, "M0") \in Message
    BY <1>2, MsgType DEF Self, Code0
  <2>. QED
    BY <2>1, Put1
<1>. DEFINE N == {Self(w, "M0")}
<1>7. Views(After(S, h, N))' /\ Puttable(S, h, N) /\ StillFirst(S, N)
  <2>1. c = h.ptr /\ N = {Self(w, "M0")} /\ UNCHANGED <<state, io, timer, pool, job, flags, net>>
    BY <1>4 DEF c
  <2>. HIDE DEF N
  <2>. QED
    BY <1>1, <1>2, <1>5, <2>1, WorkerAccepts
<1>8. Moves(h)
  BY <1>1, <1>2, <1>4, MovesNot
<1>9. Advance(q) /\ queue' \in Seq(Message)
  <2>1. Self(w, "M0").src = h.dst
    BY <1>1, SelfFields
  <2>. QED
    BY <1>1, <1>4, <1>6, <1>7, <1>8, <2>1, Advanced DEF h, S
<1>10. Typed'
  BY <1>2, <1>4, <1>5, <1>9 DEF Typed
<1>. QED
  BY <1>2, <1>4, <1>9, <1>10, PoolSame

(* A worker gives its client up. *)
LEMMA WorkerLeaves ==
  ASSUME NEW q, Dispatches(q), NEW w \in Worker, NEW h, h = Head(q), NEW S, S = ToSet(q),
         h \in S, h.dst = w, OnlyCall(w, h, S), NoAsk(w, S), NoHelp(w), ~ Resting(w),
         \A x \in S : ~ IsEvent(x), wi[w].ci \in Client,
         h.ptr = NULL, h.code \in {"M0", "M2"}, state[w] \notin {"none", "init"},
         NEW b \in {"getp", "ackp"},
         \/ b = state[w]
         \/ h.src = w /\ \A p \in Helper : job[p] # w,
         Puts(GiveUpMsgs(w)), state' = [state EXCEPT ![w] = b], fate = "running",
         UNCHANGED <<fate, io, timer, pool, job, flags, wi, sig, net>>
  PROVE  Typed' /\ PoolShape' /\ Advance(q)
<1>1. PICK c : c = wi[w].ci
  OBVIOUS
<1>. DEFINE x == Msg(w, manager, c, "M1")
            y == Self(w, "M3")
            N == {x, y}
            t == <<x, y>>
<1>2. /\ Typed /\ PoolShape /\ w \in Machine /\ w \notin Helper /\ w \notin Rx /\ w # listener
      /\ listener \in Machine /\ S \subseteq Message /\ Views(S)
  BY Basics, Kinships DEF Dispatches, InStep
<1>3. t \in Seq(Message) /\ IsInjective(t) /\ ToSet(t) = N
  <2>1. c \in Client /\ manager \in Machine /\ manager # w /\ "M1" \in Code0 /\ "M3" \in Code0
    BY <1>1, Kinships DEF Code0
  <2>2. x \in Message
    BY <1>2, <2>1, MsgType
  <2>3. y \in Message
    BY <1>2, <2>1, MsgType DEF Self
  <2>4. x.dst = manager /\ y.dst = w
    BY MsgFields, SelfFields
  <2>. HIDE DEF x, y
  <2>. QED
    BY <2>1, <2>2, <2>3, <2>4, Put2
<1>4. Puts(t)
  BY <1>1 DEF GiveUpMsgs
<1>5. Views(After(S, h, N))' /\ Puttable(S, h, N) /\ StillFirst(S, N)
  <2>1. N = {Msg(w, manager, c, "M1"), Self(w, "M3")}
        /\ UNCHANGED <<io, timer, pool, job, flags, wi, net>>
    OBVIOUS
  <2>2. b = state[w] \/ \A p \in Helper : job[p] # w
    OBVIOUS
  <2>. HIDE DEF N
  <2>. QED
    BY <1>1, <1>2, <2>1, <2>2, WorkerGivesUp
<1>6. state' \in [Machine -> {"none", "init", "idle", "work", "getp", "ackp"}]
      /\ state'[listener] = state[listener]
      /\ \A m \in Machine : state'[m] = IF m = w THEN b ELSE state[m]
  BY <1>2 DEF Typed
<1>7. Moves(h)
  <2>1. \A m : Resting(m)' <=> Resting(m)
    BY PoolSame
  <2>2. ~ IsEvent(h)
    OBVIOUS
  <2>3. h.src # w => b = state[w]
    OBVIOUS
  <2>. QED
    BY <1>2, <1>6, <2>1, <2>2, <2>3 DEF Moves
<1>8. Advance(q) /\ queue' \in Seq(Message)
  <2>1. \A z \in N : z.src = h.dst
    BY MsgFields, SelfFields
  <2>. HIDE DEF N, t
  <2>. QED
    BY <1>3, <1>4, <1>5, <1>6, <1>7, <2>1, Advanced
<1>9. Typed'
  BY <1>2, <1>6, <1>8 DEF Typed
<1>. QED
  BY <1>2, <1>8, <1>9, PoolSame

(* It was not there before. *)
LEMMA Freshly ==
  ASSUME NEW k \in Kinds, AnyFresh(k), Typed
  PROVE  /\ Created(k) \subseteq Members[k] /\ \A z \in Created(k) : state[z] = "none"
         /\ LastTaken(k) => Fresh(k) \in Machine
         /\ StateAfterAddSm(k) \in [Machine -> {"none", "init", "idle", "work", "getp", "ackp"}]
         /\ \A m \in Machine :
              StateAfterAddSm(k)[m] = IF m \in Created(k) THEN "init" ELSE state[m]
<1>1. LastTaken(k) => Fresh(k) \in Members[k] /\ state[Fresh(k)] = "none"
  BY DEF AnyFresh, Fresh
<1>2. Members[k] \subseteq Machine
  BY DEF Members, Kinds, Machine
<1>3. CASE LastTaken(k)
  <2>1. StateAfterAddSm(k) = [state EXCEPT ![Fresh(k)] = "init"] /\ Created(k) = {Fresh(k)}
    BY <1>3 DEF StateAfterAddSm, Created
  <2>2. PICK f \in Machine : f = Fresh(k) /\ f \in Members[k] /\ state[f] = "none"
    BY <1>1, <1>2, <1>3
  <2>3. StateAfterAddSm(k) = [state EXCEPT ![f] = "init"] /\ Created(k) = {f}
    BY <2>1, <2>2
  <2>. QED
    BY <2>2, <2>3 DEF Typed
<1>4. CASE ~ LastTaken(k)
  BY <1>4 DEF StateAfterAddSm, Typed, Created
<1>. QED
  BY <1>3, <1>4

(* Machine n is taken from pool k, and another may be created. *)
Takes(k, n) ==
  /\ k \in Kinds /\ ~ pool_is_empty(pool[k]) /\ AnyFresh(k)
  /\ n = Taken(pool[k])
  /\ pool' = PoolAfterGet(k)

LEMMA Taking ==
  ASSUME NEW q, Dispatches(q), NEW k, NEW n, Takes(k, n),
         NEW ask \in Message, ask.code # "M0", NEW t, t = AddSmMsgs(k) \o <<ask>>
  PROVE  /\ PoolShape' /\ n \in Members[k] /\ Resting(n)
         /\ \A x : Resting(x)' <=> Resting(x) /\ x # n
         /\ t \in Seq(Message) /\ IsInjective(t)
         /\ StateAfterAddSm(k) \in [Machine -> {"none", "init", "idle", "work", "getp", "ackp"}]
         /\ Created(k) \subseteq Members[k] /\ \A z \in Created(k) : state[z] = "none"
         /\ \A m \in Machine :
              StateAfterAddSm(k)[m] = IF m \in Created(k) THEN "init" ELSE state[m]
         /\ ToSet(t) = Adding(ask, Created(k))
<1>1. k \in Kinds /\ ~ pool_is_empty(pool[k]) /\ AnyFresh(k)
  BY DEF Takes
<1>3. Typed /\ PoolInv /\ PoolShape
  BY DEF Dispatches
<1>4. /\ PoolShape' /\ n \in Members[k] /\ Resting(n)
      /\ \A x : Resting(x)' <=> Resting(x) /\ x # n
  BY <1>1, <1>3, PoolGet DEF Takes
<1>5. /\ Created(k) \subseteq Members[k] /\ \A z \in Created(k) : state[z] = "none"
      /\ LastTaken(k) => Fresh(k) \in Machine
      /\ StateAfterAddSm(k) \in [Machine -> {"none", "init", "idle", "work", "getp", "ackp"}]
      /\ \A m \in Machine :
           StateAfterAddSm(k)[m] = IF m \in Created(k) THEN "init" ELSE state[m]
  BY <1>1, <1>3, Freshly
<1>6. /\ t \in Seq(Message) /\ IsInjective(t)
      /\ ToSet(t) = Adding(ask, Created(k))
  <2>1. LastTaken(k) => Fresh(k) \in Machine
    BY <1>5
  <2>. QED
    BY <1>1, <2>1, PutAsk
<1>. QED
  BY <1>4, <1>5, <1>6

(* A worker takes a helper from its pool, and asks it. *)
Asks(w, k, n) ==
  /\ Takes(k, n) /\ k \in {"rx", "tx"}
  /\ Puts(AddSmMsgs(k) \o <<Msg(w, n, w, "M1")>>)
  /\ state' = [StateAfterAddSm(k) EXCEPT ![w] = IF k = "rx" THEN "getp" ELSE "ackp"]
  /\ wi' \in [Worker -> Info] /\ wi'[w].ci = wi[w].ci /\ wi'[w].fd = wi[w].ci
  /\ \A v \in Worker \ {w} : wi'[v] = wi[v]
  /\ UNCHANGED <<fate, io, timer, job, flags, sig, net>> /\ fate = "running"

(* What that means. *)
LEMMA Asked ==
  ASSUME NEW q, Dispatches(q), NEW w \in Worker, NEW k, NEW n, Asks(w, k, n)
  PROVE  \E Z, t, ask :
           /\ PoolShape' /\ n \in Helper /\ Resting(n) /\ ask = Msg(w, n, w, "M1") /\ ask \in Message
           /\ \A x : Resting(x)' <=> Resting(x) /\ x # n
           /\ t \in Seq(Message) /\ IsInjective(t) /\ Puts(t)
           /\ Z \subseteq Helper /\ \A z \in Z : state[z] = "none"
           /\ ToSet(t) = Adding(ask, Z)
           /\ state' \in [Machine -> {"none", "init", "idle", "work", "getp", "ackp"}]
           /\ \A m \in Machine : state'[m] = IF m = w THEN Task(n)
                                             ELSE IF m \in Z THEN "init" ELSE state[m]
<1>1. /\ Takes(k, n) /\ k \in {"rx", "tx"}
      /\ Puts(AddSmMsgs(k) \o <<Msg(w, n, w, "M1")>>)
      /\ state' = [StateAfterAddSm(k) EXCEPT ![w] = IF k = "rx" THEN "getp" ELSE "ackp"]
  BY DEF Asks
<1>2. PICK ask, t, b : /\ ask = Msg(w, n, w, "M1") /\ t = AddSmMsgs(k) \o <<ask>>
                       /\ b = IF k = "rx" THEN "getp" ELSE "ackp"
  OBVIOUS
<1>3. Members[k] \subseteq Helper /\ Helper \subseteq Machine /\ w \in Machine
  BY <1>1, Kinships DEF Members, Helper
<1>4. Takes(k, n)
  BY <1>1
<1>5. n \in Helper
  <2>1. n \in Members[k]
    BY <1>4, PoolGet DEF Takes, Dispatches
  <2>. QED
    BY <1>3, <2>1
<1>6. ask \in Message /\ ask.code # "M0"
  BY <1>2, <1>3, <1>5, MsgType, MsgFields DEF Code0
<1>7. /\ PoolShape' /\ n \in Members[k] /\ Resting(n)
      /\ \A x : Resting(x)' <=> Resting(x) /\ x # n
      /\ t \in Seq(Message) /\ IsInjective(t)
      /\ StateAfterAddSm(k) \in [Machine -> {"none", "init", "idle", "work", "getp", "ackp"}]
      /\ Created(k) \subseteq Members[k] /\ \A z \in Created(k) : state[z] = "none"
      /\ \A m \in Machine :
           StateAfterAddSm(k)[m] = IF m \in Created(k) THEN "init" ELSE state[m]
      /\ ToSet(t) = Adding(ask, Created(k))
  <2>1. t = AddSmMsgs(k) \o <<ask>>
    BY <1>2
  <2>2. /\ PoolShape' /\ n \in Members[k] /\ Resting(n)
        /\ \A x : Resting(x)' <=> Resting(x) /\ x # n
        /\ t \in Seq(Message) /\ IsInjective(t)
    BY <1>4, <1>6, <2>1, Taking
  <2>3. /\ StateAfterAddSm(k) \in [Machine -> {"none", "init", "idle", "work", "getp", "ackp"}]
        /\ \A m \in Machine :
             StateAfterAddSm(k)[m] = IF m \in Created(k) THEN "init" ELSE state[m]
    BY <1>4, <1>6, <2>1, Taking
  <2>4. /\ Created(k) \subseteq Members[k] /\ \A z \in Created(k) : state[z] = "none"
        /\ ToSet(t) = Adding(ask, Created(k))
    BY <1>4, <1>6, <2>1, Taking
  <2>. QED
    BY <2>2, <2>3, <2>4
<1>8. PICK Z : Z = Created(k)
  OBVIOUS
<1>9. Task(n) = b
  BY <1>1, <1>2, <1>7, NamesAssumption DEF Task, Members
<1>10. /\ state' \in [Machine -> {"none", "init", "idle", "work", "getp", "ackp"}]
       /\ \A m \in Machine : state'[m] = IF m = w THEN Task(n)
                                         ELSE IF m \in Z THEN "init" ELSE state[m]
  <2>1. b \in {"none", "init", "idle", "work", "getp", "ackp"} /\ w \in Machine
    BY <1>2, <1>3
  <2>2. \A f \in [Machine -> {"none", "init", "idle", "work", "getp", "ackp"}] :
          /\ [f EXCEPT ![w] = b] \in [Machine -> {"none", "init", "idle", "work", "getp", "ackp"}]
          /\ \A m \in Machine : [f EXCEPT ![w] = b][m] = IF m = w THEN b ELSE f[m]
    BY <2>1
  <2>3. state' = [StateAfterAddSm(k) EXCEPT ![w] = b]
    BY <1>1, <1>2
  <2>. QED
    BY <1>7, <1>8, <1>9, <2>2, <2>3
<1>11. Puts(t)
  BY <1>1, <1>2
<1>12. Z \subseteq Helper /\ \A z \in Z : state[z] = "none"
  BY <1>3, <1>7, <1>8
<1>13. ToSet(t) = Adding(ask, Z)
  BY <1>7, <1>8
<1>14. ask = Msg(w, n, w, "M1")
  BY <1>2
<1>15. /\ PoolShape' /\ Resting(n) /\ (\A x : Resting(x)' <=> Resting(x) /\ x # n)
       /\ t \in Seq(Message) /\ IsInjective(t)
  BY <1>7
<1>. QED
  BY <1>5, <1>6, <1>10, <1>11, <1>12, <1>13, <1>14, <1>15

LEMMA WorkerTakes ==
  ASSUME NEW q, Dispatches(q), NEW w \in Worker, NEW h, h = Head(q), NEW S, S = ToSet(q),
         h \in S, h = Self(w, "M0"), OnlyCall(w, h, S), NoAsk(w, S), ~ Resting(w),
         \A x \in S : ~ IsEvent(x), wi[w].ci \in Client, \A p \in Helper : job[p] # w,
         state[w] \notin {"none", "init"}, NEW k, NEW n, Asks(w, k, n)
  PROVE  Typed' /\ PoolShape' /\ Advance(q)
<1>1. PICK Z, t, ask :
           /\ PoolShape' /\ n \in Helper /\ Resting(n) /\ ask = Msg(w, n, w, "M1") /\ ask \in Message
           /\ \A x : Resting(x)' <=> Resting(x) /\ x # n
           /\ t \in Seq(Message) /\ IsInjective(t) /\ Puts(t)
           /\ Z \subseteq Helper /\ \A z \in Z : state[z] = "none"
           /\ ToSet(t) = Adding(ask, Z)
           /\ state' \in [Machine -> {"none", "init", "idle", "work", "getp", "ackp"}]
           /\ \A m \in Machine : state'[m] = IF m = w THEN Task(n)
                                             ELSE IF m \in Z THEN "init" ELSE state[m]
  BY Asked
<1>2. PICK N : N = ToSet(t)
  OBVIOUS
<1>3. /\ Typed /\ w \in Machine /\ w \notin Helper /\ w \notin Rx
      /\ w # listener /\ listener \in Machine /\ S \subseteq Message /\ Views(S)
      /\ listener \notin Helper
  BY Basics, Kinships DEF Dispatches, InStep
<1>4. /\ wi' \in [Worker -> Info] /\ wi'[w].ci = wi[w].ci /\ wi'[w].fd = wi[w].ci
      /\ \A v \in Worker \ {w} : wi'[v] = wi[v]
      /\ UNCHANGED <<io, timer, job, flags, net>> /\ sig' = sig
      /\ fate = "running" /\ fate' = fate
  BY DEF Asks
<1>9. Views(After(S, h, N))' /\ Puttable(S, h, N) /\ StillFirst(S, N)
  <2>1. state[w] # "init" /\ UNCHANGED <<io, timer, job, flags, net>>
    BY <1>4
  <2>2. \A x : Resting(x)' <=> Resting(x) /\ x # n
    BY <1>1
  <2>3. Z \subseteq Helper /\ \A z \in Z : state[z] = "none"
    BY <1>1
  <2>4. PICK T : T = After(S, h, N)
    OBVIOUS
  <2>6. N = Adding(ask, Z)
    BY <1>1, <1>2
  <2>7. /\ wi'[w].ci = wi[w].ci /\ wi'[w].fd = wi[w].ci
        /\ \A v \in Worker \ {w} : wi'[v] = wi[v]
    BY <1>4
  <2>8. \A m \in Machine : state'[m] = IF m = w THEN Task(n)
                                      ELSE IF m \in Z THEN "init" ELSE state[m]
    BY <1>1
  <2>9. n \in Helper /\ Resting(n) /\ ask = Msg(w, n, w, "M1")
    BY <1>1
  <2>5. Views(T)' /\ Puttable(S, h, N) /\ StillFirst(S, N)
    BY <1>3, <2>1, <2>2, <2>3, <2>4, <2>6, <2>7, <2>8, <2>9, WorkerAsks
  <2>. QED
    BY <2>4, <2>5
<1>10. h.src = w /\ h.dst = w /\ ~ IsEvent(h)
  BY SelfFields
<1>11. Moves(h)
  <2>1. \A x \in Machine : state'[x] = state[x] \/ x = w \/ state[x] = "none"
    BY <1>1
  <2>2. state'[w] # "none"
    BY <1>1, <1>3 DEF Task
  <2>3. \A x \in Helper : io'[x] = io[x]
    BY <1>4
  <2>. QED
    BY <1>3, <1>10, <2>1, <2>2, <2>3 DEF Moves
<1>12. state'[listener] = state[listener]
  BY <1>1, <1>3
<1>13. \A y \in N : y.src \in {h.dst, y.dst}
  <2>1. ask.src = w
    BY <1>1, MsgFields
  <2>. QED
    BY <1>1, <1>2, <1>10, <2>1, SelfFields DEF Adding
<1>14. Advance(q) /\ queue' \in Seq(Message)
  <2>1. t \in Seq(Message) /\ IsInjective(t) /\ Puts(t)
    BY <1>1
  <2>2. state[h.dst] # "init" /\ fate' \in {"running", "stopped"}
    BY <1>4, <1>10
  <2>. QED
    BY <1>2, <1>9, <1>11, <1>12, <1>13, <2>1, <2>2, Advanced
<1>15. Typed'
  <2>1. state' \in [Machine -> {"none", "init", "idle", "work", "getp", "ackp"}]
    BY <1>1
  <2>. QED
    BY <1>3, <1>4, <1>14, <2>1 DEF Typed
<1>. QED
  BY <1>1, <1>14, <1>15

(* A worker that starts, or goes on. *)
LEMMA WorkerM0 ==
  ASSUME NEW q, Dispatches(q), NEW w \in Worker, worker_M0_getp(w) \/ worker_M0_ackp(w)
  PROVE  Typed' /\ PoolShape' /\ Advance(q)
<1>. DEFINE h == Head(q)
            S == ToSet(q)
<1>1. /\ S \subseteq Message /\ Views(S) /\ h \in S /\ h.dst = w /\ h.code = "M0"
      /\ ~ IsEvent(h) /\ (\A x \in S : ~ IsEvent(x)) /\ state[w] \in {"idle", "getp", "ackp"}
  <2>1. Receive(w, "idle", "M0") \/ Receive(w, "ackp", "M0") \/ Receive(w, "getp", "M0")
    BY DEF worker_M0_getp, worker_M0_ackp
  <2>. QED
    BY <2>1, Received
<1>2. /\ h = Self(w, "M0") /\ OnlyCall(w, h, S) /\ NoAsk(w, S) /\ NoHelp(w) /\ ~ Resting(w)
      /\ wi[w].ci \in Client
      /\ \A p \in Helper : job[p] # w
  <2>1. CASE state[w] = "idle"
    <3>. HIDE DEF h, S
    <3>. QED
      BY <1>1, <2>1, IdleStarts
  <2>2. CASE state[w] \in {"getp", "ackp"}
    BY <1>1, <2>2, GoesOn DEF Dispatches, InStep
  <2>. QED
    BY <1>1, <2>1, <2>2
<1>3. UNCHANGED <<fate, io, timer, job, flags, sig, net>> /\ fate = "running"
  BY DEF worker_M0_getp, worker_M0_ackp, worldVars, Receive
<1>4. h = Head(q) /\ S = ToSet(q) /\ h.ptr = NULL /\ h.src = w
  BY <1>2, SelfFields
<1>. HIDE DEF h, S
<1>5. CASE worker_getp_enter(w)
  <2>1. CASE pool_is_empty(pool["rx"])
    <3>1. /\ Puts(GiveUpMsgs(w)) /\ state' = [state EXCEPT ![w] = "getp"]
          /\ UNCHANGED <<fate, io, timer, pool, job, flags, wi, sig, net>>
      BY <1>3, <1>5, <2>1 DEF worker_getp_enter
    <3>. QED
      BY <1>1, <1>2, <1>3, <1>4, <3>1, WorkerLeaves
  <2>2. CASE ~ pool_is_empty(pool["rx"])
    <3>1. /\ AnyFresh("rx")
          /\ Puts(AddSmMsgs("rx") \o <<Msg(w, Taken(pool["rx"]), w, "M1")>>)
          /\ state' = [StateAfterAddSm("rx") EXCEPT ![w] = "getp"]
          /\ pool' = PoolAfterGet("rx")
          /\ wi' = [wi EXCEPT ![w].fd = wi[w].ci, ![w].buf = "ibuf"]
      BY <1>5, <2>2 DEF worker_getp_enter
    <3>3. /\ wi' \in [Worker -> Info] /\ wi'[w].ci = wi[w].ci /\ wi'[w].fd = wi[w].ci
          /\ \A v \in Worker \ {w} : wi'[v] = wi[v]
      <4>1. wi \in [Worker -> Info]
        BY DEF Typed, Dispatches
      <4>. QED
        BY <3>1, <4>1, WithContext
    <3>4. Takes("rx", Taken(pool["rx"]))
      BY <2>2, <3>1 DEF Takes, Kinds
    <3>5. Asks(w, "rx", Taken(pool["rx"]))
      BY <1>3, <3>1, <3>3, <3>4 DEF Asks
    <3>. QED
      BY <1>1, <1>2, <1>3, <1>4, <3>5, WorkerTakes
  <2>. QED
    BY <2>1, <2>2
<1>6. CASE worker_ackp_enter(w)
  <2>1. CASE pool_is_empty(pool["tx"])
    <3>1. /\ Puts(GiveUpMsgs(w)) /\ state' = [state EXCEPT ![w] = "ackp"]
          /\ UNCHANGED <<fate, io, timer, pool, job, flags, wi, sig, net>>
      BY <1>3, <1>6, <2>1 DEF worker_ackp_enter
    <3>. QED
      BY <1>1, <1>2, <1>3, <1>4, <3>1, WorkerLeaves
  <2>2. CASE ~ pool_is_empty(pool["tx"])
    <3>1. /\ AnyFresh("tx")
          /\ Puts(AddSmMsgs("tx") \o <<Msg(w, Taken(pool["tx"]), w, "M1")>>)
          /\ state' = [StateAfterAddSm("tx") EXCEPT ![w] = "ackp"]
          /\ pool' = PoolAfterGet("tx")
          /\ wi' = [wi EXCEPT ![w].fd = wi[w].ci, ![w].buf = "obuf", ![w].obuf = wi[w].ibuf]
      BY <1>6, <2>2 DEF worker_ackp_enter
    <3>3. /\ wi' \in [Worker -> Info] /\ wi'[w].ci = wi[w].ci /\ wi'[w].fd = wi[w].ci
          /\ \A v \in Worker \ {w} : wi'[v] = wi[v]
      <4>1. wi \in [Worker -> Info]
        BY DEF Typed, Dispatches
      <4>. QED
        BY <3>1, <4>1, WithContext
    <3>4. Takes("tx", Taken(pool["tx"]))
      BY <2>2, <3>1 DEF Takes, Kinds
    <3>5. Asks(w, "tx", Taken(pool["tx"]))
      BY <1>3, <3>1, <3>3, <3>4 DEF Asks
    <3>. QED
      BY <1>1, <1>2, <1>3, <1>4, <3>5, WorkerTakes
  <2>. QED
    BY <2>1, <2>2
<1>. QED
  BY <1>5, <1>6 DEF worker_M0_getp, worker_M0_ackp

(* The helper is done. *)
LEMMA WorkerM1 ==
  ASSUME NEW q, Dispatches(q), NEW w \in Worker, worker_M1(w)
  PROVE  Typed' /\ PoolShape' /\ Advance(q)
<1>. DEFINE h == Head(q)
            S == ToSet(q)
<1>1. /\ S \subseteq Message /\ Views(S) /\ h \in S /\ h.dst = w /\ h.code = "M1"
      /\ ~ IsEvent(h) /\ (\A x \in S : ~ IsEvent(x)) /\ state[w] \in {"getp", "ackp"}
  <2>1. Receive(w, "ackp", "M1") \/ Receive(w, "getp", "M1")
    BY DEF worker_M1
  <2>. QED
    BY <2>1, Received
<1>2. Typed /\ PoolShape /\ w \in Machine /\ w \notin Helper /\ w \notin Rx
  BY Kinships DEF Dispatches
<1>3. /\ Puts(<<Self(w, "M0")>>) /\ fate = "running" /\ fate' = fate
      /\ UNCHANGED <<machineVars, worldVars>>
  BY DEF worker_M1, Receive
<1>. HIDE DEF h, S
<1>6. /\ <<Self(w, "M0")>> \in Seq(Message) /\ IsInjective(<<Self(w, "M0")>>)
      /\ ToSet(<<Self(w, "M0")>>) = {Self(w, "M0")}
  <2>1. Self(w, "M0") \in Message
    BY <1>2, MsgType DEF Self, Code0
  <2>. QED
    BY <2>1, Put1
<1>. DEFINE N == {Self(w, "M0")}
<1>7. Views(After(S, h, N))' /\ Puttable(S, h, N) /\ StillFirst(S, N)
  <2>1. N = {Self(w, "M0")}
    OBVIOUS
  <2>. HIDE DEF N
  <2>. QED
    BY <1>1, <1>2, <1>3, <2>1, WorkerTold
<1>8. UNCHANGED <<state, io, timer, sig, pool, job, flags, wi, net>>
  BY <1>3 DEF machineVars, worldVars
<1>9. Moves(h)
  BY <1>1, <1>2, <1>8, MovesNot
<1>10. Advance(q) /\ queue' \in Seq(Message)
  <2>1. Self(w, "M0").src = h.dst
    BY <1>1, SelfFields
  <2>. QED
    BY <1>1, <1>3, <1>6, <1>7, <1>8, <1>9, <2>1, Advanced DEF h, S
<1>11. Typed'
  BY <1>2, <1>8, <1>10 DEF Typed
<1>. QED
  BY <1>2, <1>8, <1>10, <1>11, PoolSame

(* The helper has failed. *)
LEMMA WorkerM2 ==
  ASSUME NEW q, Dispatches(q), NEW w \in Worker, worker_M2(w)
  PROVE  Typed' /\ PoolShape' /\ Advance(q)
<1>. DEFINE h == Head(q)
            S == ToSet(q)
<1>1. /\ S \subseteq Message /\ Views(S) /\ h \in S /\ h.dst = w /\ h.code = "M2"
      /\ ~ IsEvent(h) /\ (\A x \in S : ~ IsEvent(x)) /\ state[w] \in {"getp", "ackp"}
  <2>1. Receive(w, "ackp", "M2") \/ Receive(w, "getp", "M2")
    BY DEF worker_M2
  <2>. QED
    BY <2>1, Received
<1>2. Typed /\ w \in Machine /\ h = Head(q) /\ S = ToSet(q)
  BY Kinships DEF Dispatches
<1>3. /\ Puts(GiveUpMsgs(w)) /\ fate = "running"
      /\ UNCHANGED <<fate, state, io, timer, pool, job, flags, wi, sig, net>>
  BY DEF worker_M2, Receive, machineVars, worldVars
<1>. HIDE DEF h, S
<1>4. /\ OnlyCall(w, h, S) /\ NoAsk(w, S) /\ NoHelp(w) /\ ~ Resting(w) /\ wi[w].ci \in Client
      /\ h.ptr = NULL
  BY <1>1, ToldBy
<1>5. PICK b \in {"getp", "ackp"} : b = state[w]
  BY <1>1
<1>6. state' = [state EXCEPT ![w] = b]
  BY <1>2, <1>3, <1>5 DEF Typed
<1>. QED
  BY <1>1, <1>2, <1>3, <1>4, <1>5, <1>6, WorkerLeaves

-----------------------------------------------------------------------------
(* The handlers of the manager, the listener, the pool manager. *)

(* A machine starts that there is one of.  The listener is the last.        *)
LEMMA SingleInit ==
  ASSUME NEW q, Dispatches(q), NEW m \in {poolman, manager, listener},
         Receive(m, "init", "M0"), Puts(<< >>), state' = [state EXCEPT ![m] = "work"],
         UNCHANGED <<fate, timer, pool, job, flags, wi, sig, net>>,
         NEW to, to = [fd |-> ListenSocket, watch |-> "POLLIN"],
         io' = IF m = listener THEN [io EXCEPT ![listener] = to] ELSE io
  PROVE  Typed' /\ PoolShape' /\ Advance(q)
<1>. DEFINE h == Head(q)
            S == ToSet(q)
<1>1. /\ S \subseteq Message /\ Views(S) /\ h \in S /\ h.dst = m /\ h.code = "M0"
      /\ ~ IsEvent(h) /\ (\A x \in S : ~ IsEvent(x)) /\ state[m] = "init" /\ fate = "running"
  BY Received DEF Receive
<1>2. /\ Typed /\ PoolShape /\ m \in Machine /\ m \notin Helper /\ m \notin Worker /\ m \notin Rx
      /\ listener \in Machine /\ listener \in Channel /\ Channel = Helper \cup {listener}
      /\ listener \notin Helper
  BY Kinships DEF Dispatches, Channel, Helper
<1>3. m = listener => \A x \in S : x = h
  <2>. SUFFICES ASSUME m = listener, NEW x \in S
                PROVE  x = h
    OBVIOUS
  <2>1. h = Self(listener, "M0") /\ ~ Started
    <3>1. SingleView(S)
      BY <1>1, ViewsMean
    <3>. QED
      BY <1>1, <3>1, SelfFields DEF SingleView, Started
  <2>2. q \in Seq(Message) /\ q # << >> /\ IsInjective(q) /\ q[Len(q)] = Self(listener, "M0")
    BY <2>1 DEF Dispatches, InStep, ListenerLast
  <2>3. Len(q) \in Nat \ {0} /\ h = q[1] /\ DOMAIN q = 1 .. Len(q)
    BY <2>2, Basics
  <2>4. Len(q) = 1
    BY <2>1, <2>2, <2>3 DEF IsInjective
  <2>5. \E i \in 1 .. Len(q) : q[i] = x
    BY <2>2, Basics
  <2>. QED
    BY <2>3, <2>4, <2>5
<1>4. /\ io' \in [Channel -> IoChannel] /\ \A p \in Helper : io'[p] = io[p]
      /\ io'[listener] = IF m = listener THEN to ELSE io[listener]
  <2>1. to \in IoChannel
    BY DEF IoChannel
  <2>2. io \in [Channel -> IoChannel]
    BY <1>2 DEF Typed
  <2>3. CASE m = listener
    BY <1>2, <2>1, <2>2, <2>3
  <2>4. CASE m # listener
    BY <2>2, <2>4
  <2>. QED
    BY <2>3, <2>4
<1>5. h = Head(q) /\ S = ToSet(q)
  OBVIOUS
<1>. HIDE DEF h, S
<1>6. Views(After(S, h, {}))' /\ Puttable(S, h, {}) /\ StillFirst(S, {})
  <2>1. UNCHANGED <<timer, pool, job, flags, wi, net>>
    OBVIOUS
  <2>2. io'[listener] = IF m = listener THEN [fd |-> ListenSocket, watch |-> "POLLIN"]
                                        ELSE io[listener]
    BY <1>4
  <2>3. PICK T : T = After(S, h, {})
    OBVIOUS
  <2>4. Views(T)' /\ Puttable(S, h, {}) /\ StillFirst(S, {})
    BY <1>1, <1>2, <1>3, <1>4, <2>1, <2>2, <2>3, SingleStarts
  <2>. QED
    BY <2>3, <2>4
<1>7. /\ state' \in [Machine -> {"none", "init", "idle", "work", "getp", "ackp"}]
      /\ state'[listener] = state[listener] \/ Started'
  BY <1>2 DEF Typed, Started
<1>8. Moves(h)
  <2>1. \A p \in Helper \ {m} : io'[p] = io[p]
    BY <1>4
  <2>. QED
    BY <1>1, <1>2, <2>1, MovesItself
<1>9. Advance(q) /\ queue' \in Seq(Message)
  <2>1. fate' \in {"running", "stopped"}
    BY <1>1
  <2>. QED
    BY <1>5, <1>6, <1>7, <1>8, <2>1, AdvancedQuietly
<1>10. Typed'
  BY <1>2, <1>4, <1>7, <1>9 DEF Typed
<1>. QED
  BY <1>2, <1>9, <1>10, PoolSame

(* The manager gives the new client to a worker. *)
LEMMA ManagerGives ==
  ASSUME NEW q, Dispatches(q), NEW h, h = Head(q), NEW S, S = ToSet(q),
         h \in S, h.dst = manager, h.code = "M0", ~ IsEvent(h), \A x \in S : ~ IsEvent(x),
         state[manager] = "work", NEW c, c = h.ptr,
         NEW w, Takes("worker", w), NEW give, give = Msg(manager, w, c, "M1"),
         Puts(AddSmMsgs("worker") \o <<give>>), state' = StateAfterAddSm("worker"),
         UNCHANGED <<fate, io, timer, job, flags, wi, sig, net>>, fate = "running"
  PROVE  Typed' /\ PoolShape' /\ Advance(q)
<1>1. /\ Typed /\ PoolInv /\ PoolShape /\ S \subseteq Message /\ Views(S) /\ manager \in Machine
      /\ manager \notin Helper \cup Worker /\ listener \in Machine /\ listener \notin Worker
      /\ Worker \subseteq Machine /\ manager \notin Worker
      /\ "worker" \in Kinds /\ Members["worker"] = Worker
  BY Basics, Kinships DEF Dispatches, InStep, Kinds, Members
<1>2. c \in Client
  BY <1>1, ManagerTold
<1>3. w \in Worker
  <2>1. w \in Members["worker"]
    BY PoolGet DEF Takes, Dispatches
  <2>. QED
    BY <1>1, <2>1
<1>4. give \in Message /\ give.code # "M0" /\ give.src = manager
  <2>1. give.code = "M1" /\ give.src = manager
    BY ONLY give = Msg(manager, w, c, "M1"), MsgFields
  <2>2. manager \in Machine /\ w \in Machine
    BY <1>1, <1>3
  <2>3. give \in Message
    BY ONLY <1>2, <2>2, give = Msg(manager, w, c, "M1"), MsgType DEF Code0
  <2>. QED
    BY <2>1, <2>3
<1>5. PICK t, Z, N : t = AddSmMsgs("worker") \o <<give>> /\ Z = Created("worker") /\ N = ToSet(t)
  OBVIOUS
<1>6. /\ PoolShape' /\ Resting(w)
      /\ \A x : Resting(x)' <=> Resting(x) /\ x # w
      /\ t \in Seq(Message) /\ IsInjective(t)
  BY <1>4, <1>5, Taking, ZenonT(40)
<1>7. /\ StateAfterAddSm("worker") \in [Machine -> {"none", "init", "idle", "work", "getp", "ackp"}]
      /\ \A m \in Machine :
           StateAfterAddSm("worker")[m] = IF m \in Created("worker") THEN "init" ELSE state[m]
  BY <1>4, <1>5, Taking
<1>8. /\ Created("worker") \subseteq Members["worker"]
      /\ \A z \in Created("worker") : state[z] = "none"
      /\ ToSet(t) = Adding(give, Created("worker"))
  BY <1>4, <1>5, Taking
<1>9. /\ state' \in [Machine -> {"none", "init", "idle", "work", "getp", "ackp"}]
      /\ \A m \in Machine : state'[m] = IF m \in Z THEN "init" ELSE state[m]
      /\ Z \subseteq Worker /\ \A z \in Z : state[z] = "none"
      /\ N = Adding(give, Z)
      /\ Puts(t)
  BY <1>1, <1>5, <1>7, <1>8
<1>10. Views(After(S, h, N))' /\ Puttable(S, h, N) /\ StillFirst(S, N)
  <2>1. UNCHANGED <<io, timer, job, flags, wi, net>>
    OBVIOUS
  <2>2. PICK T : T = After(S, h, N)
    OBVIOUS
  <2>3. /\ Typed /\ S \subseteq Message /\ Views(S) /\ w \in Worker /\ Resting(w)
        /\ \A x : Resting(x)' <=> Resting(x) /\ x # w
    BY <1>1, <1>3, <1>6
  <2>4. /\ \A m \in Machine : state'[m] = IF m \in Z THEN "init" ELSE state[m]
        /\ Z \subseteq Worker /\ \A z \in Z : state[z] = "none"
        /\ N = Adding(give, Z)
    BY <1>9
  <2>6. /\ h \in S /\ h.dst = manager /\ h.code = "M0" /\ \A x \in S : ~ IsEvent(x)
        /\ state[manager] = "work" /\ c = h.ptr /\ give = Msg(manager, w, c, "M1")
    OBVIOUS
  <2>5. Views(T)' /\ Puttable(S, h, N) /\ StillFirst(S, N)
    BY ONLY <2>1, <2>2, <2>3, <2>4, <2>6, ClientGiven
  <2>. QED
    BY <2>2, <2>5
<1>11. Moves(h)
  <2>1. \A x \in Machine : state'[x] = state[x] \/ state[x] = "none"
    BY <1>9
  <2>2. state'[manager] = "work"
    BY <1>1, <1>9
  <2>. QED
    BY <1>1, <2>1, <2>2, Kinships DEF Moves
<1>12. Advance(q) /\ queue' \in Seq(Message)
  <2>1. \A y \in N : y.src \in {h.dst, y.dst}
    BY <1>4, <1>9, SelfFields DEF Adding
  <2>2. state'[listener] = state[listener]
    BY <1>1, <1>9
  <2>3. fate' \in {"running", "stopped"} /\ state[h.dst] # "init"
    OBVIOUS
  <2>4. t \in Seq(Message) /\ IsInjective(t) /\ N = ToSet(t) /\ Puts(t)
    BY <1>5, <1>6, <1>9
  <2>. QED
    BY <1>10, <1>11, <2>1, <2>2, <2>3, <2>4, Advanced
<1>13. Typed'
  BY <1>1, <1>9, <1>12 DEF Typed
<1>. QED
  BY <1>6, <1>12, <1>13

(* The manager sees a client off. *)
LEMMA ManagerSeesOff ==
  ASSUME NEW q, Dispatches(q), NEW h, h = Head(q), NEW S, S = ToSet(q),
         h \in S, h.dst = manager, ~ IsEvent(h), \A x \in S : ~ IsEvent(x),
         state[manager] = "work", NEW c, c = h.ptr,
         Puts(<<SeeOff(c)>>), UNCHANGED <<fate, machineVars, worldVars>>, fate = "running"
  PROVE  Typed' /\ PoolShape' /\ Advance(q)
<1>1. /\ Typed /\ PoolShape /\ S \subseteq Message /\ Views(S) /\ manager \in Machine
      /\ manager \notin Helper \cup Worker /\ listener \in Machine /\ manager \notin Rx
  BY Basics, Kinships DEF Dispatches, InStep
<1>2. c \in Client
  BY <1>1, ManagerTold
<1>3. PICK off, N : off = SeeOff(c) /\ N = {off}
  OBVIOUS
<1>4. off \in Message /\ off.src = manager
  BY <1>1, <1>2, <1>3, MsgType, MsgFields DEF SeeOff, Code0
<1>5. <<off>> \in Seq(Message) /\ IsInjective(<<off>>) /\ ToSet(<<off>>) = N
  BY <1>3, <1>4, Put1
<1>6. UNCHANGED <<state, io, timer, sig, pool, job, flags, wi, net>>
  BY DEF machineVars, worldVars
<1>7. Views(After(S, h, N))' /\ Puttable(S, h, N) /\ StillFirst(S, N)
  <2>1. UNCHANGED <<machineVars, net>> /\ N = {SeeOff(c)}
    BY <1>3, <1>6
  <2>2. PICK T : T = After(S, h, N)
    OBVIOUS
  <2>3. Views(T)' /\ Puttable(S, h, N) /\ StillFirst(S, N)
    BY <1>1, <2>1, <2>2, ClientSentOff
  <2>. QED
    BY <2>2, <2>3
<1>8. Moves(h)
  BY <1>1, <1>6, MovesNot
<1>9. Advance(q) /\ queue' \in Seq(Message)
  <2>1. fate' \in {"running", "stopped"} /\ Puts(<<off>>) /\ state[h.dst] # "init"
    BY <1>3
  <2>2. \A y \in N : y.src \in {h.dst, y.dst}
    BY <1>3, <1>4
  <2>. QED
    BY <1>5, <1>6, <1>7, <1>8, <2>1, <2>2, Advanced
<1>10. Typed'
  BY <1>1, <1>6, <1>9 DEF Typed
<1>. QED
  BY <1>1, <1>6, <1>9, <1>10, PoolSame

LEMMA ManagerHandles ==
  ASSUME NEW q, Dispatches(q), ManagerExec
  PROVE  Typed' /\ PoolShape' /\ Advance(q)
<1>. DEFINE h == Head(q)
            S == ToSet(q)
<1>1. CASE manager_init_M0
  <2>1. /\ Receive(manager, "init", "M0") /\ Puts(<< >>) /\ state' = [state EXCEPT ![manager] = "work"]
        /\ UNCHANGED <<fate, timer, pool, job, flags, wi, sig, net>>
        /\ io' = IF manager = listener
                 THEN [io EXCEPT ![listener] = [fd |-> ListenSocket, watch |-> "POLLIN"]] ELSE io
    BY <1>1, Kinships DEF manager_init_M0, worldVars
  <2>. QED
    BY <2>1, SingleInit
<1>2. CASE manager_work_M0
  <2>1. Receive(manager, "work", "M0")
    BY <1>2 DEF manager_work_M0
  <2>2. /\ h \in S /\ h.dst = manager /\ h.code = "M0" /\ ~ IsEvent(h) /\ \A x \in S : ~ IsEvent(x)
        /\ state[manager] = "work" /\ h = Head(queue) /\ fate = "running"
    BY <2>1, Received DEF Receive
  <2>3. h = Head(q) /\ S = ToSet(q)
    OBVIOUS
  <2>. HIDE DEF h, S
  <2>4. PICK c, w, give : c = h.ptr /\ w = Taken(pool["worker"]) /\ give = Msg(manager, w, c, "M1")
    OBVIOUS
  <2>5. CASE pool_is_empty(pool["worker"])
    <3>1. Puts(<<SeeOff(c)>>) /\ UNCHANGED <<fate, machineVars, worldVars>>
      BY <1>2, <2>2, <2>4, <2>5 DEF manager_work_M0, machineVars
    <3>. QED
      BY <2>2, <2>3, <2>4, <3>1, ManagerSeesOff
  <2>6. CASE ~ pool_is_empty(pool["worker"])
    <3>1. /\ AnyFresh("worker") /\ Puts(AddSmMsgs("worker") \o <<give>>)
          /\ state' = StateAfterAddSm("worker") /\ pool' = PoolAfterGet("worker")
          /\ UNCHANGED <<fate, io, timer, job, flags, wi, sig, net>>
      BY <1>2, <2>2, <2>4, <2>6 DEF manager_work_M0, worldVars
    <3>2. Takes("worker", w)
      BY <2>4, <2>6, <3>1 DEF Takes, Kinds
    <3>. QED
      BY <2>2, <2>3, <2>4, <3>1, <3>2, ManagerGives
  <2>. QED
    BY <2>5, <2>6
<1>3. CASE manager_work_M1
  <2>1. Receive(manager, "work", "M1")
    BY <1>3 DEF manager_work_M1
  <2>2. /\ h \in S /\ h.dst = manager /\ ~ IsEvent(h) /\ \A x \in S : ~ IsEvent(x)
        /\ state[manager] = "work" /\ h = Head(queue) /\ fate = "running"
    BY <2>1, Received DEF Receive
  <2>3. h = Head(q) /\ S = ToSet(q)
    OBVIOUS
  <2>. HIDE DEF h, S
  <2>4. PICK c : c = h.ptr
    OBVIOUS
  <2>5. Puts(<<SeeOff(c)>>) /\ UNCHANGED <<fate, machineVars, worldVars>>
    BY <1>3, <2>2, <2>4 DEF manager_work_M1
  <2>. QED
    BY <2>2, <2>3, <2>4, <2>5, ManagerSeesOff
<1>4. ASSUME NEW s \in Signals, manager_work_S(s)
      PROVE  Typed' /\ PoolShape' /\ Advance(q)
  <2>1. Receive(manager, "work", s) /\ s \notin {"M0", "M1", "M2", "M3"}
    BY <1>4, NamesAssumption DEF manager_work_S
  <2>2. /\ S \subseteq Message /\ Views(S) /\ h \in S /\ h.dst = manager /\ IsEvent(h)
        /\ state[manager] = "work"
    BY <2>1, Received
  <2>3. h = Head(q) /\ S = ToSet(q) /\ Typed /\ PoolShape
    BY DEF Dispatches
  <2>. HIDE DEF h, S
  <2>4. /\ Puts(<< >>) /\ fate' = "stopped" /\ sig' = sig \ {s}
        /\ UNCHANGED <<state, io, timer, pool, job, flags, wi, net>>
    BY <1>4 DEF manager_work_S, machineVars
  <2>5. Views(After(S, h, {}))' /\ Puttable(S, h, {}) /\ StillFirst(S, {})
    <3>1. UNCHANGED <<machineVars, net>> /\ h.dst \notin Helper \cup Worker
      BY <2>2, <2>4, Kinships DEF machineVars
    <3>2. PICK T : T = After(S, h, {})
      OBVIOUS
    <3>3. Views(T)' /\ Puttable(S, h, {}) /\ StillFirst(S, {})
      BY <2>2, <2>3, <3>1, <3>2, EventSpent
    <3>. QED
      BY <3>2, <3>3
  <2>6. Moves(h)
    BY <2>2, <2>4, MovesNot, Kinships
  <2>7. Advance(q) /\ queue' \in Seq(Message)
    BY <2>3, <2>4, <2>5, <2>6, AdvancedQuietly
  <2>8. Typed'
    BY <2>3, <2>4, <2>7 DEF Typed
  <2>. QED
    BY <2>3, <2>4, <2>7, <2>8, PoolSame
<1>. QED
  BY <1>1, <1>2, <1>3, <1>4 DEF ManagerExec

LEMMA ListenerHandles ==
  ASSUME NEW q, Dispatches(q), ListenerExec
  PROVE  Typed' /\ PoolShape' /\ Advance(q)
<1>. DEFINE h == Head(q)
            S == ToSet(q)
<1>1. CASE listener_init_M0
  <2>1. /\ Receive(listener, "init", "M0") /\ Puts(<< >>) /\ state' = [state EXCEPT ![listener] = "work"]
        /\ UNCHANGED <<fate, timer, pool, job, flags, wi, sig, net>>
        /\ io' = [io EXCEPT ![listener] = [fd |-> ListenSocket, watch |-> "POLLIN"]]
    BY <1>1 DEF listener_init_M0, worldVars
  <2>. QED
    BY <2>1, SingleInit
<1>2. ASSUME NEW c \in Client, listener_work_D0(c)
      PROVE  Typed' /\ PoolShape' /\ Advance(q)
  <2>1. Receive(listener, "work", "D0")
    BY <1>2 DEF listener_work_D0
  <2>2. /\ S \subseteq Message /\ Views(S) /\ h \in S /\ h.dst = listener /\ IsEvent(h)
        /\ state[listener] = "work" /\ fate = "running"
    BY <2>1, Received DEF Receive
  <2>3. /\ h = Head(q) /\ S = ToSet(q) /\ Typed /\ PoolShape
        /\ listener \in Machine /\ manager \in Machine /\ listener \notin Rx
        /\ listener \notin Worker
    BY Kinships DEF Dispatches
  <2>. HIDE DEF h, S
  <2>4. PICK new, N : new = Msg(listener, manager, c, "M0") /\ N = {new}
    OBVIOUS
  <2>5. new \in Message /\ new.src = listener
    BY <2>3, <2>4, MsgType, MsgFields DEF Code0
  <2>6. <<new>> \in Seq(Message) /\ IsInjective(<<new>>) /\ ToSet(<<new>>) = N
    BY <2>4, <2>5, Put1
  <2>7. /\ Puts(<<new>>) /\ net[c].conn = "backlog" /\ net' = [net EXCEPT ![c].conn = "open"]
        /\ UNCHANGED <<fate, state, io, timer, pool, job, flags, wi, sig>>
    BY <1>2, <2>4 DEF listener_work_D0, machineVars
  <2>8. /\ net' \in [Client -> Connection] /\ \A d \in Client \ {c} : net'[d] = net[d]
        /\ \A d \in Client : net'[d].sent = net[d].sent /\ net'[d].nread = net[d].nread
        /\ net'[c].conn = "open"
    <3>1. net \in [Client -> Connection]
      BY <2>3 DEF Typed
    <3>2. net'[c].conn = "open"
      BY <2>7, <3>1 DEF Connection
    <3>. QED
      BY <2>7, <3>1, <3>2, WithConn
  <2>9. Views(After(S, h, N))' /\ Puttable(S, h, N) /\ StillFirst(S, N)
    <3>1. UNCHANGED machineVars /\ N = {Msg(listener, manager, c, "M0")}
      BY <2>4, <2>7 DEF machineVars
    <3>2. PICK T : T = After(S, h, N)
      OBVIOUS
    <3>3. Views(T)' /\ Puttable(S, h, N) /\ StillFirst(S, N)
      BY <2>2, <2>3, <2>7, <2>8, <3>1, <3>2, ClientAccepted
    <3>. QED
      BY <3>2, <3>3
  <2>10. Moves(h)
    BY <2>2, <2>3, <2>7, MovesNot
  <2>11. Advance(q) /\ queue' \in Seq(Message)
    <3>1. fate' \in {"running", "stopped"} /\ state[h.dst] # "init" /\ state'[listener] = state[listener]
      BY <2>2, <2>7
    <3>2. \A y \in N : y.src \in {h.dst, y.dst}
      BY <2>2, <2>4, <2>5
    <3>. QED
      BY <2>3, <2>6, <2>7, <2>9, <2>10, <3>1, <3>2, Advanced
  <2>12. Typed'
    BY <2>3, <2>7, <2>8, <2>11 DEF Typed
  <2>. QED
    BY <2>3, <2>7, <2>11, <2>12, PoolSame
<1>3. CASE listener_work_D0_fails
  <2>1. Receive(listener, "work", "D0")
    BY <1>3 DEF listener_work_D0_fails
  <2>2. /\ S \subseteq Message /\ Views(S) /\ h \in S /\ h.dst = listener /\ IsEvent(h)
        /\ state[listener] = "work" /\ fate = "running"
    BY <2>1, Received DEF Receive
  <2>3. h = Head(q) /\ S = ToSet(q) /\ Typed /\ PoolShape
    BY DEF Dispatches
  <2>. HIDE DEF h, S
  <2>4. Puts(<< >>) /\ UNCHANGED <<fate, state, io, timer, pool, job, flags, wi, sig, net>>
    BY <1>3 DEF listener_work_D0_fails, machineVars, worldVars
  <2>5. Views(After(S, h, {}))' /\ Puttable(S, h, {}) /\ StillFirst(S, {})
    <3>1. UNCHANGED <<machineVars, net>> /\ h.dst \notin Helper \cup Worker
      BY <2>2, <2>4, Kinships DEF machineVars
    <3>2. PICK T : T = After(S, h, {})
      OBVIOUS
    <3>3. Views(T)' /\ Puttable(S, h, {}) /\ StillFirst(S, {})
      BY <2>2, <2>3, <3>1, <3>2, EventSpent
    <3>. QED
      BY <3>2, <3>3
  <2>6. Moves(h)
    BY <2>2, <2>4, MovesNot, Kinships
  <2>7. Advance(q) /\ queue' \in Seq(Message)
    BY <2>2, <2>3, <2>4, <2>5, <2>6, AdvancedQuietly
  <2>8. Typed'
    BY <2>3, <2>4, <2>7 DEF Typed
  <2>. QED
    BY <2>3, <2>4, <2>7, <2>8, PoolSame
<1>4. CASE listener_work_M0
  <2>1. Receive(listener, "work", "M0")
    BY <1>4 DEF listener_work_M0
  <2>2. /\ S \subseteq Message /\ Views(S) /\ h \in S /\ h.dst = listener /\ ~ IsEvent(h)
        /\ \A x \in S : ~ IsEvent(x)
        /\ state[listener] = "work" /\ fate = "running" /\ h = Head(queue)
    BY <2>1, Received DEF Receive
  <2>3. /\ h = Head(q) /\ S = ToSet(q) /\ Typed /\ PoolShape
        /\ listener \notin Rx /\ listener \notin Worker
    BY Kinships DEF Dispatches
  <2>. HIDE DEF h, S
  <2>4. PICK c : c = h.ptr
    OBVIOUS
  <2>5. c \in Client /\ net[c].conn = "open" /\ Started
    BY <2>2, <2>4, ListenerTold DEF Started
  <2>6. /\ Puts(<< >>) /\ net' = [net EXCEPT ![c].conn = "closed", ![c].full = FALSE]
        /\ UNCHANGED <<fate, state, io, timer, pool, job, flags, wi, sig>>
    BY <1>4, <2>2, <2>4, <2>5 DEF listener_work_M0, machineVars
  <2>7. /\ net' \in [Client -> Connection] /\ \A d \in Client \ {c} : net'[d] = net[d]
        /\ \A d \in Client : net'[d].sent = net[d].sent /\ net'[d].nread = net[d].nread
        /\ net'[c].conn = "closed"
    <3>1. net \in [Client -> Connection]
      BY <2>3 DEF Typed
    <3>2. net'[c].conn = "closed"
      BY <2>5, <2>6, <3>1 DEF Connection
    <3>. QED
      BY <2>5, <2>6, <3>1, <3>2, WithConn
  <2>8. Views(After(S, h, {}))' /\ Puttable(S, h, {}) /\ StillFirst(S, {})
    <3>1. UNCHANGED machineVars
      BY <2>6 DEF machineVars
    <3>2. PICK T : T = After(S, h, {})
      OBVIOUS
    <3>3. Views(T)' /\ Puttable(S, h, {}) /\ StillFirst(S, {})
      BY <2>2, <2>3, <2>4, <2>5, <2>7, <3>1, <3>2, ClientClosed
    <3>. QED
      BY <3>2, <3>3
  <2>9. Moves(h)
    BY <2>2, <2>3, <2>6, MovesNot
  <2>10. Advance(q) /\ queue' \in Seq(Message)
    BY <2>2, <2>3, <2>6, <2>8, <2>9, AdvancedQuietly
  <2>11. Typed'
    BY <2>3, <2>6, <2>7, <2>10 DEF Typed
  <2>. QED
    BY <2>3, <2>6, <2>10, <2>11, PoolSame
<1>. QED
  BY <1>1, <1>2, <1>3, <1>4 DEF ListenerExec

(* The pool manager deletes machines, or there are too few in a pool.       *)
LEMMA PoolmanHandles ==
  ASSUME NEW q, Dispatches(q), PoolmanExec
  PROVE  Exit("no machine to delete") \/ (Typed' /\ PoolShape' /\ Advance(q))
<1>. DEFINE h == Head(q)
            S == ToSet(q)
<1>1. CASE poolman_init_M0
  <2>1. /\ Receive(poolman, "init", "M0") /\ Puts(<< >>) /\ state' = [state EXCEPT ![poolman] = "work"]
        /\ UNCHANGED <<fate, timer, pool, job, flags, wi, sig, net>>
        /\ io' = IF poolman = listener
                 THEN [io EXCEPT ![listener] = [fd |-> ListenSocket, watch |-> "POLLIN"]] ELSE io
    BY <1>1, Kinships DEF poolman_init_M0, worldVars
  <2>. QED
    BY <2>1, SingleInit
<1>2. CASE poolman_work_T0 /\ ~ \E k \in Kinds : RunsDry(pool[k])
  <2>1. Receive(poolman, "work", "T0")
    BY <1>2 DEF poolman_work_T0
  <2>2. /\ S \subseteq Message /\ Views(S) /\ h \in S /\ h.dst = poolman /\ IsEvent(h)
        /\ state[poolman] = "work" /\ fate = "running"
    BY <2>1, Received DEF Receive
  <2>3. /\ h = Head(q) /\ S = ToSet(q) /\ Typed /\ PoolInv /\ PoolShape
        /\ poolman \in Machine /\ listener \in Machine /\ poolman \notin Rx
        /\ poolman \notin Worker /\ poolman \notin Helper /\ poolman \in Timed
    BY Kinships DEF Dispatches, Timed
  <2>. HIDE DEF h, S
  <2>4. PICK G : G = UNION {Deleted(pool[k]) : k \in Kinds}
    OBVIOUS
  <2>5. /\ Puts(<< >>) /\ pool' = [k \in Kinds |-> Shrunk(pool[k])]
        /\ state' = StateAfterDel(G) /\ timer' = TickRead(poolman)
        /\ UNCHANGED <<fate, io, job, flags, wi, sig, net>>
    BY <1>2, <2>4 DEF poolman_work_T0, worldVars
  <2>6. PoolShape' /\ (\A x : Resting(x)' <=> Resting(x) /\ x \notin G) /\ \A x \in G : Resting(x)
    <3>1. \A k \in Kinds : ~ RunsDry(pool[k])
      BY <1>2
    <3>2. pool' = [k \in Kinds |-> Shrunk(pool[k])]
      BY <2>5
    <3>. QED
      BY <2>3, <2>4, <3>1, <3>2, PoolDelete
  <2>7. \A x : Resting(x) => x \in Helper \cup Worker
    BY <2>3 DEF Resting, PoolShape, Kinds, Members, Helper
  <2>8. /\ timer' \in [Timed -> {"off", "armed", "expired"}] /\ \A p \in Rx : timer'[p] = timer[p]
    BY <2>3, <2>5, Kinships DEF Typed, TickRead
  <2>9. /\ state' \in [Machine -> {"none", "init", "idle", "work", "getp", "ackp"}]
        /\ \A x \in Machine : state'[x] = IF x \in G THEN "none" ELSE state[x]
        /\ poolman \notin G /\ listener \notin G
    <3>1. poolman \notin G /\ listener \notin G
      BY <2>6, <2>7, Kinships
    <3>. QED
      BY <2>3, <2>5, <3>1 DEF StateAfterDel, Typed
  <2>10. Views(After(S, h, {}))' /\ Puttable(S, h, {}) /\ StillFirst(S, {})
    <3>1. /\ \A x \in G : Resting(x) /\ x \in Helper \cup Worker
          /\ \A x : Resting(x)' <=> Resting(x) /\ x \notin G
      BY <2>6, <2>7
    <3>2. PICK T : T = After(S, h, {})
      OBVIOUS
    <3>3. state' = StateAfterDel(G) /\ UNCHANGED <<io, job, flags, wi, net>>
      BY <2>5
    <3>4. \A p \in Rx : timer'[p] = timer[p]
      BY <2>8
    <3>5. /\ S \subseteq Message /\ Views(S) /\ Typed /\ h \in S /\ h.dst = poolman /\ IsEvent(h)
      BY <2>2, <2>3
    <3>6. Views(T)' /\ Puttable(S, h, {}) /\ StillFirst(S, {})
      BY ONLY <3>1, <3>2, <3>3, <3>4, <3>5, MachinesDeleted
    <3>. QED
      BY <3>2, <3>6
  <2>11. Moves(h)
    <3>1. \A x \in Machine : state'[x] = state[x] \/ Resting(x)
      BY <2>6, <2>9
    <3>2. \A x : Resting(x)' => Resting(x)
      BY <2>6
    <3>3. state'[poolman] = state[poolman] /\ \A x \in Helper : io'[x] = io[x]
      BY <2>3, <2>5, <2>9
    <3>. QED
      BY <2>2, <2>3, <3>1, <3>2, <3>3 DEF Moves
  <2>12. Advance(q) /\ queue' \in Seq(Message)
    <3>1. fate' \in {"running", "stopped"} /\ state'[listener] = state[listener]
      BY <2>2, <2>3, <2>5, <2>9
    <3>2. Puts(<< >>)
      BY <2>5
    <3>. QED
      BY <2>3, <2>10, <2>11, <3>1, <3>2, AdvancedQuietly
  <2>13. Typed'
    BY <2>3, <2>5, <2>8, <2>9, <2>12 DEF Typed
  <2>. QED
    BY <2>6, <2>12, <2>13
<1>3. CASE poolman_work_T0 /\ \E k \in Kinds : RunsDry(pool[k])
  BY <1>3 DEF poolman_work_T0
<1>. QED
  BY <1>1, <1>2, <1>3 DEF PoolmanExec

-----------------------------------------------------------------------------
(* Queues that are put together. *)

LEMMA JoinedAt ==
  ASSUME NEW a \in Seq(Message), NEW b \in Seq(Message), NEW s, s = a \o b
  PROVE  /\ s \in Seq(Message) /\ Len(s) = Len(a) + Len(b)
         /\ Len(a) \in Nat /\ Len(b) \in Nat
         /\ \A i \in 1 .. Len(a) : i \in 1 .. Len(s) /\ s[i] = a[i]
         /\ \A i \in 1 .. Len(b) : i + Len(a) \in 1 .. Len(s) /\ s[i + Len(a)] = b[i]
<1>1. Len(a) \in Nat /\ Len(b) \in Nat
  BY LenProperties
<1>2. /\ a \o b \in Seq(Message) /\ Len(a \o b) = Len(a) + Len(b)
      /\ \A i \in 1 .. Len(a) + Len(b) :
           (a \o b)[i] = IF i <= Len(a) THEN a[i] ELSE b[i - Len(a)]
  BY ConcatProperties
<1>3. /\ s \in Seq(Message) /\ Len(s) = Len(a) + Len(b)
      /\ \A i \in 1 .. Len(a) + Len(b) : s[i] = IF i <= Len(a) THEN a[i] ELSE b[i - Len(a)]
  BY <1>2
<1>4. ASSUME NEW i \in 1 .. Len(a)
      PROVE  i \in 1 .. Len(s) /\ s[i] = a[i]
  BY <1>1, <1>3
<1>5. ASSUME NEW i \in 1 .. Len(b)
      PROVE  i + Len(a) \in 1 .. Len(s) /\ s[i + Len(a)] = b[i]
  <2>1. i + Len(a) \in 1 .. Len(a) + Len(b) /\ ~ (i + Len(a) <= Len(a)) /\ (i + Len(a)) - Len(a) = i
    BY <1>1
  <2>. QED
    BY <1>3, <2>1
<1>. QED
  BY <1>1, <1>3, <1>4, <1>5

LEMMA JoinedSet ==
  ASSUME NEW a \in Seq(Message), NEW b \in Seq(Message), NEW s, s = a \o b
  PROVE  s \in Seq(Message) /\ ToSet(s) = ToSet(a) \cup ToSet(b)
<1>1. /\ s \in Seq(Message) /\ Len(s) = Len(a) + Len(b)
      /\ Len(a) \in Nat /\ Len(b) \in Nat
      /\ \A i \in 1 .. Len(a) : i \in 1 .. Len(s) /\ s[i] = a[i]
      /\ \A i \in 1 .. Len(b) : i + Len(a) \in 1 .. Len(s) /\ s[i + Len(a)] = b[i]
  BY JoinedAt
<1>2. /\ \A x : x \in ToSet(a) <=> \E i \in 1 .. Len(a) : a[i] = x
      /\ \A x : x \in ToSet(b) <=> \E i \in 1 .. Len(b) : b[i] = x
      /\ \A x : x \in ToSet(s) <=> \E i \in 1 .. Len(s) : s[i] = x
  <2>1. \A x : x \in ToSet(a) <=> \E i \in 1 .. Len(a) : a[i] = x
    BY Basics, Zenon
  <2>2. \A x : x \in ToSet(b) <=> \E i \in 1 .. Len(b) : b[i] = x
    BY Basics, Zenon
  <2>3. \A x : x \in ToSet(s) <=> \E i \in 1 .. Len(s) : s[i] = x
    BY <1>1, Basics, Zenon
  <2>. QED
    BY <2>1, <2>2, <2>3
<1>3. ASSUME NEW x \in ToSet(s)
      PROVE  x \in ToSet(a) \cup ToSet(b)
  <2>1. PICK i \in 1 .. Len(s) : s[i] = x
    BY <1>2
  <2>2. i \in 1 .. Len(a) \/ \E j \in 1 .. Len(b) : i = j + Len(a)
    <3>1. i \in 1 .. Len(a) + Len(b)
      BY <1>1
    <3>. QED
      BY <1>1, <3>1, FromWhere, Zenon
  <2>. QED
    BY <1>1, <1>2, <2>1, <2>2
<1>4. ASSUME NEW x \in ToSet(a) \cup ToSet(b)
      PROVE  x \in ToSet(s)
  <2>1. CASE x \in ToSet(a)
    BY <1>1, <1>2, <2>1
  <2>2. CASE x \in ToSet(b)
    <3>1. PICK i \in 1 .. Len(b) : b[i] = x
      BY <1>2, <2>2
    <3>. QED
      BY <1>1, <1>2, <3>1
  <2>. QED
    BY <1>4, <2>1, <2>2
<1>. QED
  BY <1>1, <1>3, <1>4

LEMMA JoinedTail ==
  ASSUME NEW a \in Seq(Message), a # << >>, NEW b \in Seq(Message), NEW s, s = a \o b
  PROVE  /\ s \in Seq(Message) /\ s # << >> /\ Head(s) = Head(a)
         /\ Tail(a) \in Seq(Message) /\ Tail(s) = Tail(a) \o b
<1>1. /\ s \in Seq(Message) /\ Len(s) = Len(a) + Len(b)
      /\ Len(a) \in Nat /\ Len(b) \in Nat
      /\ \A i \in 1 .. Len(a) : i \in 1 .. Len(s) /\ s[i] = a[i]
      /\ \A i \in 1 .. Len(b) : i + Len(a) \in 1 .. Len(s) /\ s[i + Len(a)] = b[i]
  BY JoinedAt
<1>2. Len(a) # 0
  BY EmptySeq
<1>3. s # << >>
  BY <1>1, <1>2, EmptySeq
<1>4. Head(s) = s[1] /\ Head(a) = a[1] /\ 1 \in 1 .. Len(a)
  BY <1>1, <1>2, <1>3, Basics
<1>. DEFINE n == Len(a) - 1
            t == Tail(s)
<1>5. /\ n \in Nat /\ Tail(a) \in Seq(Message) /\ Tail(a) \o b \in Seq(Message)
      /\ Len(Tail(a) \o b) = n + Len(b)
      /\ \A i \in 1 .. n : (Tail(a) \o b)[i] = a[i + 1]
      /\ \A i \in 1 .. Len(b) : (Tail(a) \o b)[i + n] = b[i]
  BY Positions, HeadTailProperties
<1>6. /\ t \in Seq(Message) /\ Len(t) = n + Len(b)
      /\ \A i \in 1 .. Len(t) : t[i] = s[i + 1]
  BY <1>1, <1>3, HeadTailProperties
<1>. HIDE DEF t
<1>7. t = Tail(a) \o b
  <2>. DEFINE r == Tail(a) \o b
  <2>1. ASSUME NEW i \in 1 .. Len(t)
        PROVE  t[i] = r[i]
    <3>1. i \in 1 .. n \/ \E j \in 1 .. Len(b) : i = j + n
      <4>1. i \in 1 .. n + Len(b)
        BY <1>6
      <4>. HIDE DEF n
      <4>. QED
        BY <1>1, <1>5, <4>1, FromWhere, Zenon
    <3>2. CASE i \in 1 .. n
      <4>1. i + 1 \in 1 .. Len(a)
        BY <1>1, <3>2
      <4>. QED
        BY <1>1, <1>5, <1>6, <3>2, <4>1
    <3>3. ASSUME NEW j \in 1 .. Len(b), i = j + n
          PROVE  t[i] = r[i]
      <4>1. i + 1 = j + Len(a)
        BY <1>1, <3>3
      <4>2. r[i] = b[j]
        BY <1>5, <3>3
      <4>3. t[i] = s[j + Len(a)]
        BY <1>6, <4>1
      <4>. QED
        BY <1>1, <4>2, <4>3
    <3>. QED
      BY <3>1, <3>2, <3>3
  <2>2. r \in Seq(Message) /\ Len(r) = Len(t)
    BY <1>5, <1>6
  <2>. HIDE DEF r
  <2>3. t = r
    BY <1>6, <2>1, <2>2, SeqEqual
  <2>. QED
    BY <2>3 DEF r
<1>8. Head(s) = Head(a)
  BY <1>1, <1>4
<1>9. Tail(s) = Tail(a) \o b
  BY <1>7 DEF t
<1>. QED
  BY <1>1, <1>3, <1>5, <1>8, <1>9

(* What comes first in a queue stays first when more is put. *)
LEMMA JoinedFirst ==
  ASSUME NEW a \in Seq(Message), Len(a) >= 2, NEW b \in Seq(Message), NEW s, s = a \o b
  PROVE  s \in Seq(Message) /\ Len(s) >= 2 /\ s[1] = a[1] /\ s[2] = a[2]
<1>1. /\ s \in Seq(Message) /\ Len(s) = Len(a) + Len(b)
      /\ Len(a) \in Nat /\ Len(b) \in Nat
      /\ \A i \in 1 .. Len(a) : i \in 1 .. Len(s) /\ s[i] = a[i]
  BY JoinedAt
<1>2. 1 \in 1 .. Len(a) /\ 2 \in 1 .. Len(a)
  BY <1>1
<1>. QED
  BY <1>1, <1>2

LEMMA HeadAndTail ==
  ASSUME NEW a \in Seq(Message), a # << >>
  PROVE  /\ Tail(a) \in Seq(Message) /\ Head(a) \in ToSet(a)
         /\ ToSet(a) = {Head(a)} \cup ToSet(Tail(a))
<1>1. Tail(a) \in Seq(Message) /\ Len(Tail(a)) = Len(a) - 1
      /\ \A i \in 1 .. Len(Tail(a)) : Tail(a)[i] = a[i + 1]
  BY HeadTailProperties
<1>2. /\ Len(a) \in Nat \ {0} /\ Head(a) = a[1] /\ Head(a) \in ToSet(a)
      /\ \A x : x \in ToSet(a) <=> \E i \in 1 .. Len(a) : a[i] = x
      /\ \A x : x \in ToSet(Tail(a)) <=> \E i \in 1 .. Len(Tail(a)) : Tail(a)[i] = x
  <2>1. Len(a) \in Nat \ {0} /\ Head(a) = a[1] /\ Head(a) \in ToSet(a)
    BY Basics
  <2>2. \A x : x \in ToSet(a) <=> \E i \in 1 .. Len(a) : a[i] = x
    BY Basics, Zenon
  <2>3. \A x : x \in ToSet(Tail(a)) <=> \E i \in 1 .. Len(Tail(a)) : Tail(a)[i] = x
    BY <1>1, Basics, Zenon
  <2>. QED
    BY <2>1, <2>2, <2>3
<1>3. ASSUME NEW x \in ToSet(a), x # Head(a)
      PROVE  x \in ToSet(Tail(a))
  <2>1. PICK i \in 1 .. Len(a) : a[i] = x
    BY <1>2
  <2>2. i # 1
    BY <1>2, <1>3, <2>1
  <2>3. i - 1 \in 1 .. Len(Tail(a)) /\ (i - 1) + 1 = i
    BY <1>1, <1>2, <2>2
  <2>4. Tail(a)[i - 1] = x
    BY <1>1, <2>1, <2>3
  <2>. QED
    BY <1>2, <2>3, <2>4
<1>4. ASSUME NEW x \in ToSet(Tail(a))
      PROVE  x \in ToSet(a)
  <2>1. PICK i \in 1 .. Len(Tail(a)) : Tail(a)[i] = x
    BY <1>2
  <2>2. i + 1 \in 1 .. Len(a)
    BY <1>1, <1>2
  <2>. QED
    BY <1>1, <1>2, <2>1, <2>2
<1>. QED
  BY <1>1, <1>2, <1>3, <1>4

-----------------------------------------------------------------------------
(* One message is handled: the queue after it. *)

(* The two messages too many. *)
LEMMA SecondAnswer ==
  ASSUME NEW m \in Rx, NEW w \in Worker, NEW u, u = <<Msg(m, w, NULL, "M2"), Self(m, "M0")>>
  PROVE  /\ u \in Seq(Message) /\ Len(u) >= 2
         /\ u[1] = Msg(m, w, NULL, "M2") /\ u[2] = Self(m, "M0")
         /\ ToSet(u) = {Msg(m, w, NULL, "M2"), Self(m, "M0")}
         /\ \A x \in ToSet(u) : /\ Shape(x) /\ ~ IsEvent(x) /\ x.src = m
                                /\ x.dst \in {m, w}
<1>. DEFINE a == Msg(m, w, NULL, "M2")
            b == Self(m, "M0")
<1>1. m \in Machine /\ w \in Machine /\ m \in Helper /\ m # NULL
  BY Kinships
<1>2. /\ a.src = m /\ a.dst = w /\ b.src = m /\ b.dst = m /\ b.code = "M0" /\ a.code = "M2"
      /\ a \in Message /\ b \in Message
  BY <1>1, MsgFields, MsgType DEF Self, Code0
<1>3. Shape(a) /\ Shape(b) /\ ~ IsEvent(a) /\ ~ IsEvent(b)
  <2>1. CallShape(a)
    BY <1>1 DEF CallShape
  <2>2. CallShape(b)
    BY <1>1 DEF CallShape
  <2>. HIDE DEF a, b
  <2>. QED
    BY <1>1, <1>2, <2>1, <2>2 DEF Shape, IsEvent
<1>4. a # b
  BY <1>2
<1>. HIDE DEF a, b
<1>5. /\ <<a, b>> \in Seq(Message) /\ ToSet(<<a, b>>) = {a, b}
      /\ Len(<<a, b>>) = 2 /\ <<a, b>>[1] = a /\ <<a, b>>[2] = b
  BY <1>2, <1>4, Put2
<1>6. u = <<a, b>>
  BY DEF a, b
<1>7. u \in Seq(Message) /\ Len(u) >= 2 /\ u[1] = a /\ u[2] = b /\ ToSet(u) = {a, b}
  BY <1>5, <1>6
<1>8. \A x \in ToSet(u) : Shape(x) /\ ~ IsEvent(x) /\ x.src = m /\ x.dst \in {m, w}
  BY <1>2, <1>3, <1>7
<1>. QED
  BY <1>7, <1>8 DEF a, b

(* What was put, and where it is. *)
Put(q, t, u) ==
  /\ Handled(q, t)
  /\ queue' = Tail(queue) \o u
  /\ \/ u = t /\ Sender(q, u)
     \/ t = << >> /\ Again(q, u)

LEMMA PutMeans ==
  ASSUME NEW q, Dispatches(q), NEW t, NEW u, Put(q, t, u)
  PROVE  /\ t \in Seq(Message) /\ u \in Seq(Message)
         /\ \A x \in ToSet(u) : Shape(x) /\ ~ IsEvent(x)
<1>1. t \in Seq(Message) /\ \A x \in ToSet(t) : Shape(x) /\ ~ IsEvent(x)
  BY DEF Put, Handled, Puttable
<1>2. CASE u = t
  BY <1>1, <1>2
<1>3. CASE Again(q, u)
  <2>1. PICK m \in Rx, w \in Worker : u = <<Msg(m, w, NULL, "M2"), Self(m, "M0")>>
    BY <1>3 DEF Again
  <2>. QED
    BY <1>1, <2>1, SecondAnswer
<1>. QED
  BY <1>1, <1>2, <1>3 DEF Put

LEMMA QueueNext ==
  ASSUME NEW q, Dispatches(q), NEW t, NEW u, Put(q, t, u), NEW s, s = queue',
         \A x \in ToSet(queue) : Shape(x), EventsFirst(queue)
  PROVE  /\ s \in Seq(Message) /\ EventsFirst(s) /\ \A x \in ToSet(s) : Shape(x)
         /\ ToSet(s) \subseteq ToSet(queue) \cup ToSet(u)
         /\ ~ IsEvent(Head(q)) => \A x \in ToSet(s) \cup ToSet(queue) : ~ IsEvent(x)
         /\ (\E x \in ToSet(s) : IsEvent(x)) =>
              IsEvent(Head(q)) /\ \E x \in ToSet(queue) : IsEvent(x)
<1>1. queue \in Seq(Message) /\ queue # << >> /\ Head(q) = Head(queue)
  BY DEF Dispatches, Typed
<1>2. PICK o : o = queue
  OBVIOUS
<1>3. /\ o \in Seq(Message) /\ o # << >> /\ Tail(o) \in Seq(Message)
      /\ ToSet(o) = {Head(o)} \cup ToSet(Tail(o)) /\ Head(o) = Head(q)
  BY <1>1, <1>2, HeadAndTail
<1>4. u \in Seq(Message) /\ \A x \in ToSet(u) : Shape(x) /\ ~ IsEvent(x)
  BY PutMeans
<1>5. s = Tail(o) \o u
  BY <1>2 DEF Put
<1>6. s \in Seq(Message) /\ ToSet(s) = ToSet(Tail(o)) \cup ToSet(u)
  BY <1>3, <1>4, <1>5, JoinedSet
<1>7. EventsFirst(s)
  BY <1>2, <1>3, <1>4, <1>5, EventsStayFirst
<1>8. ~ IsEvent(Head(o)) => \A x \in ToSet(o) : ~ IsEvent(x)
  BY <1>2, <1>3, CallAtHead
<1>9. ToSet(queue) = ToSet(o) /\ \A x \in ToSet(o) : Shape(x)
  BY <1>2
<1>. QED
  BY <1>3, <1>4, <1>6, <1>7, <1>8, <1>9

(* A call goes to a machine that is there, and does not rest. *)
LEMMA CalledIsThere ==
  ASSUME PoolShape', NEW T, Views(T)', NEW y \in T, y.dst \in Machine, ~ IsEvent(y)
  PROVE  state'[y.dst] # "none" /\ ~ Resting(y.dst)'
<1>. DEFINE d == y.dst
<1>1. CASE d \in Helper
  <2>1. HelperView(d, T)'
    BY <1>1 DEF Views
  <2>2. ~ NoCall(d, T)
    BY DEF NoCall
  <2>3. ~ NoCall(d, T)'
    BY <2>2 DEF NoCall, IsEvent
  <2>. QED
    BY <2>1, <2>3 DEF HelperView
<1>2. CASE d \in Worker
  <2>1. WorkerView(d, T)'
    BY <1>2 DEF Views
  <2>2. ~ NoCall(d, T)
    BY DEF NoCall
  <2>3. ~ NoCall(d, T)'
    BY <2>2 DEF NoCall, IsEvent
  <2>. QED
    BY <2>1, <2>3 DEF WorkerView
<1>3. CASE d \in {poolman, manager, listener}
  <2>1. SingleView(T)'
    BY DEF Views
  <2>2. state'[d] \in {"init", "work"}
    BY <1>3, <2>1 DEF SingleView
  <2>3. ~ Resting(d)'
    BY <1>3, NamesAssumption DEF PoolShape, Resting, Kinds, Members
  <2>. QED
    BY <2>2, <2>3
<1>. QED
  BY <1>1, <1>2, <1>3 DEF Machine, Helper

(* The machine of an event is there, and does not rest. *)
LEMMA EventIsFor ==
  ASSUME PoolShape, NEW S, Views(S), NEW h \in S, IsEvent(h)
  PROVE  /\ h.dst \in Machine /\ ~ Resting(h.dst) /\ state[h.dst] # "none"
         /\ h.dst \in Helper => state[h.dst] = "work"
         /\ h.dst \notin Worker
<1>1. EventShape(h)
  BY ViewsMean, EventsMean
<1>2. CASE h.dst \in Helper
  <2>1. HelperView(h.dst, S)
    BY <1>2, ViewsMean DEF HelperInStep
  <2>. QED
    BY <1>2, <2>1, Kinships DEF HelperView
<1>3. CASE h.dst \in {poolman, manager, listener}
  <2>1. SingleView(S)
    BY ViewsMean
  <2>2. state[h.dst] \in {"init", "work"}
    BY <1>3, <2>1 DEF SingleView
  <2>. QED
    BY <1>3, <2>2, SingleNeverRests, Kinships
<1>. QED
  BY <1>1, <1>2, <1>3, Kinships DEF EventShape

LEMMA AliveNext ==
  ASSUME NEW q, Dispatches(q), NEW t, NEW u, Put(q, t, u), Moves(Head(q)), PoolShape',
         \A x \in ToSet(queue) : Shape(x), EventsFirst(queue), Alive
  PROVE  Alive'
<1>. DEFINE h == Head(q)
            S == ToSet(q)
<1>1. PICK s : s = queue'
  OBVIOUS
<1>2. /\ ToSet(s) \subseteq ToSet(queue) \cup ToSet(u)
      /\ (\E x \in ToSet(s) : IsEvent(x)) => IsEvent(h) /\ \E x \in ToSet(queue) : IsEvent(x)
  BY <1>1, QueueNext
<1>3. h \in ToSet(queue) /\ ToSet(queue) \subseteq Message /\ h \in S /\ Views(S) /\ PoolShape
  BY Basics DEF Dispatches, Typed, InStep
<1>. HIDE DEF h, S
<1>4. /\ \A x \in Machine : \/ state'[x] = state[x] \/ x = h.dst \/ state[x] = "none"
                            \/ IsEvent(h) /\ Resting(x)
      /\ state'[h.dst] # "none"
      /\ IsEvent(h) => state'[h.dst] = state[h.dst] /\ \A x : Resting(x)' => Resting(x)
  BY DEF Moves, h
<1>5. ASSUME NEW x \in ToSet(queue)
      PROVE  /\ state'[x.dst] # "none" /\ (x.src # NULL => state'[x.src] # "none")
             /\ IsEvent(h) => ~ Resting(x.dst)' /\ ~ Resting(x.src)'
  <2>1. /\ state[x.dst] # "none" /\ (x.src # NULL => state[x.src] # "none")
        /\ IsEvent(h) => ~ Resting(x.dst) /\ ~ Resting(x.src)
    BY <1>3 DEF Alive
  <2>2. x.dst \in Machine /\ x.src \in Machine \cup {NULL}
    BY <1>3 DEF Message
  <2>. QED
    BY <1>4, <2>1, <2>2
<1>6. ASSUME NEW y \in ToSet(u)
      PROVE  /\ state'[y.dst] # "none" /\ (y.src # NULL => state'[y.src] # "none")
             /\ IsEvent(h) => ~ Resting(y.dst)' /\ ~ Resting(y.src)'
  <2>1. IsEvent(h) => ~ Resting(h.dst)'
    BY <1>3, <1>4, EventIsFor
  <2>2. Shape(y) /\ ~ IsEvent(y) /\ y.dst \in Machine
    BY PutMeans, CallsAreCalls
  <2>3. CASE u = t /\ Sender(q, u)
    <3>1. PICK T : T = After(S, h, ToSet(t))
      OBVIOUS
    <3>2. y \in T
      BY <2>3, <3>1 DEF After
    <3>3. Views(T)'
      BY <3>1 DEF Put, Handled, h, S
    <3>4. state'[y.dst] # "none" /\ ~ Resting(y.dst)'
      BY <2>2, <3>2, <3>3, CalledIsThere
    <3>5. y.src = h.dst \/ y.src = y.dst
      BY <2>3 DEF Sender, h
    <3>. QED
      BY <1>4, <2>1, <3>4, <3>5
  <2>4. CASE Again(q, u)
    <3>. DEFINE m == h.dst
    <3>1. PICK w \in Worker : state[w] = "getp" /\ u = <<Msg(m, w, NULL, "M2"), Self(m, "M0")>>
      BY <2>4 DEF Again, h
    <3>2. m \in Rx /\ IsEvent(h) /\ state[m] = "work"
      BY <2>4 DEF Again, h
    <3>3. y.src = m /\ y.dst \in {m, w}
      BY <3>1, <3>2, SecondAnswer
    <3>4. ~ Resting(w)
      BY <1>3, <3>1, ViewsMean DEF WorkerView
    <3>5. state'[w] # "none" /\ ~ Resting(w)'
      BY <1>4, <3>1, <3>2, <3>4, Kinships
    <3>. QED
      BY <1>4, <2>1, <3>2, <3>3, <3>5
  <2>. QED
    BY <2>3, <2>4 DEF Put
<1>7. ASSUME NEW x \in ToSet(s)
      PROVE  /\ state'[x.dst] # "none" /\ (x.src # NULL => state'[x.src] # "none")
             /\ (\E e \in ToSet(s) : IsEvent(e)) => ~ Resting(x.dst)' /\ ~ Resting(x.src)'
  BY <1>2, <1>5, <1>6 DEF h
<1>8. ASSUME NEW x \in ToSet(queue')
      PROVE  /\ state'[x.dst] # "none" /\ (x.src # NULL => state'[x.src] # "none")
             /\ (\E e \in ToSet(queue') : IsEvent(e)) => ~ Resting(x.dst)' /\ ~ Resting(x.src)'
  BY <1>1, <1>7
<1>. QED
  BY <1>8 DEF Alive, IsEvent

-----------------------------------------------------------------------------
(* After a second answer. *)

(* Where the second answer of m to w is: behind the messages live. *)
AnswerBehind(m, w, live) ==
  /\ \A x \in ToSet(live) : Early(x)
  /\ state[w] = "getp"
  /\ \/ state[m] = "work" /\ Self(m, "M0") \in ToSet(live)
     \/ state[m] = "idle" /\ io[m].fd = NULL /\ \A x \in ToSet(queue) : ~ IsEvent(x)

AnswerIn(m, w, more) ==
  more \in Seq(Message) /\ Len(more) >= 2 /\ more[1] = Msg(m, w, NULL, "M2") /\ more[2] = Self(m, "M0")

LEMMA AnswerKnown ==
  ASSUME NEW m, NEW q, AnsweredAgain(m, q)
  PROVE  \E w \in Worker, live, after, more \in Seq(Message) :
           q = live \o after /\ queue = live \o more /\ AnswerBehind(m, w, live) /\ AnswerIn(m, w, more)
BY DEF AnsweredAgain, AnswerBehind, AnswerIn

LEMMA AnswerFound ==
  ASSUME NEW m, NEW q, NEW w \in Worker,
         NEW live \in Seq(Message), NEW after \in Seq(Message), NEW more \in Seq(Message),
         q = live \o after /\ queue' = live \o more,
         AnswerBehind(m, w, live)', AnswerIn(m, w, more)
  PROVE  AnsweredAgain(m, q)'
BY DEF AnsweredAgain, AnswerBehind, AnswerIn

(* A worker that waits does so while messages are handled that events       *)
(* caused.                                                                  *)
LEMMA WaitsOn ==
  ASSUME NEW q, Dispatches(q), NEW h, h = Head(q), Moves(h), Early(h),
         NEW w \in Worker, state[w] = "getp"
  PROVE  state'[w] = "getp"
<1>1. Views(ToSet(q)) /\ w \in Machine
  BY Kinships DEF Dispatches, InStep
<1>2. ~ Resting(w)
  BY <1>1, ViewsMean DEF WorkerView
<1>3. h.dst = w => h.src # h.dst
  BY Kinships DEF Early
<1>. QED
  BY <1>1, <1>2, <1>3 DEF Moves

(* So does the machine that has answered, until its own M0. *)
LEMMA AnswererGoesOn ==
  ASSUME NEW q, Dispatches(q), NEW h, h = Head(q), Moves(h),
         NEW m \in Rx, state[m] = "work", Self(m, "M0") \in ToSet(q)
  PROVE  \/ h # Self(m, "M0") /\ state'[m] = "work"
         \/ h = Self(m, "M0") /\ state'[m] = "idle" /\ io'[m].fd = NULL
<1>. DEFINE S == ToSet(q)
            y == Self(m, "M0")
<1>1. Views(S) /\ h \in S /\ m \in Helper /\ m \in Machine /\ y \in S /\ \A x \in S : Shape(x)
  BY Basics, Kinships, ViewsMean DEF Dispatches, InStep
<1>2. y.src = m /\ y.dst = m /\ ~ IsEvent(y)
  BY <1>1, SelfFields, Kinships DEF IsEvent
<1>. HIDE DEF S, y
<1>3. ~ NoCall(m, S)
  BY <1>1, <1>2 DEF NoCall
<1>4. ~ Resting(m) /\ io[m].fd = NULL /\ OnlyCall(m, Self(m, "M0"), S)
  BY <1>1, <1>3, ViewsMean DEF HelperInStep, HelperView
<1>5. CASE h = y
  BY <1>2, <1>4, <1>5 DEF Moves, y
<1>6. CASE h # y
  <2>1. h.dst = m => IsEvent(h)
    BY <1>1, <1>4, <1>6 DEF OnlyCall, y
  <2>2. state'[m] = "work"
    BY <1>1, <1>4, <2>1 DEF Moves
  <2>. QED
    BY <1>6, <2>2 DEF y
<1>. QED
  BY <1>5, <1>6

(* The machine that has answered and rests is called by nobody. *)
LEMMA AnswererRests ==
  ASSUME NEW q, Dispatches(q), NEW h, h = Head(q), Moves(h), Early(h), ~ IsEvent(h),
         NEW m \in Rx, state[m] = "idle", io[m].fd = NULL
  PROVE  state'[m] = "idle" /\ io'[m].fd = NULL
<1>. DEFINE S == ToSet(q)
<1>1. Views(S) /\ h \in S /\ m \in Helper /\ m \in Machine
  BY Basics, Kinships DEF Dispatches, InStep
<1>. HIDE DEF S
<1>2. HelperView(m, S)
  BY <1>1, ViewsMean DEF HelperInStep
<1>3. h.dst # m
  <2>. SUFFICES ASSUME h.dst = m PROVE FALSE
    OBVIOUS
  <2>1. ~ NoCall(m, S)
    BY <1>1 DEF NoCall
  <2>2. PICK w \in Worker : OnlyCall(m, Msg(w, m, w, "M1"), S)
    BY <1>2, <2>1 DEF HelperView
  <2>3. h = Msg(w, m, w, "M1")
    BY <1>1, <2>2 DEF OnlyCall
  <2>4. h.src = w
    BY <2>3, MsgFields
  <2>. QED
    BY <2>4, Kinships DEF Early
<1>. QED
  BY <1>1, <1>3 DEF Moves

LEMMA AnswerStaysBehind ==
  ASSUME NEW q, Dispatches(q), NEW t, NEW u, Put(q, t, u), Moves(Head(q)),
         \A x \in ToSet(queue) : Shape(x), EventsFirst(queue),
         NEW m \in Rx, NEW w \in Worker,
         NEW live \in Seq(Message), live # << >>,
         NEW after \in Seq(Message), NEW more \in Seq(Message), q = live \o after,
         AnswerBehind(m, w, live)
  PROVE  AnswerBehind(m, w, Tail(live))'
<1>. DEFINE h == Head(q)
<1>1. h = Head(live) /\ ToSet(q) = ToSet(live) \cup ToSet(after)
  BY JoinedTail, JoinedSet
<1>2. h \in ToSet(live) /\ ToSet(live) = {h} \cup ToSet(Tail(live))
  BY <1>1, HeadAndTail
<1>. HIDE DEF h
<1>3. Moves(h) /\ Early(h)
  BY <1>2 DEF AnswerBehind, h
<1>4. \A x \in ToSet(Tail(live)) : Early(x)'
  BY <1>2 DEF AnswerBehind, Early
<1>5. state'[w] = "getp"
  BY <1>3, WaitsOn DEF AnswerBehind, h
<1>6. ~ IsEvent(h) => \A x \in ToSet(queue') : ~ IsEvent(x)
  <2>1. PICK s : s = queue'
    OBVIOUS
  <2>2. ~ IsEvent(h) => \A x \in ToSet(s) \cup ToSet(queue) : ~ IsEvent(x)
    BY <2>1, QueueNext DEF h
  <2>. QED
    BY <2>1, <2>2
<1>7. \/ state'[m] = "work" /\ Self(m, "M0") \in ToSet(Tail(live))
      \/ /\ state'[m] = "idle" /\ io'[m].fd = NULL
         /\ \A x \in ToSet(queue') : ~ IsEvent(x)
  <2>1. CASE state[m] = "work" /\ Self(m, "M0") \in ToSet(live)
    <3>1. Self(m, "M0") \in ToSet(q)
      BY <1>1, <2>1
    <3>2. \/ h # Self(m, "M0") /\ state'[m] = "work"
          \/ h = Self(m, "M0") /\ state'[m] = "idle" /\ io'[m].fd = NULL
      BY <1>3, <2>1, <3>1, AnswererGoesOn DEF h
    <3>3. ~ IsEvent(Self(m, "M0"))
      BY SelfFields, Kinships DEF IsEvent
    <3>. QED
      BY <1>2, <1>6, <2>1, <3>2, <3>3
  <2>2. CASE state[m] = "idle" /\ io[m].fd = NULL /\ \A x \in ToSet(queue) : ~ IsEvent(x)
    <3>1. h \in ToSet(queue)
      BY Basics DEF Dispatches, Typed, h
    <3>2. state'[m] = "idle" /\ io'[m].fd = NULL
      BY <1>3, <2>2, <3>1, AnswererRests DEF h
    <3>. QED
      BY <1>6, <2>2, <3>1, <3>2
  <2>. QED
    BY <2>1, <2>2 DEF AnswerBehind
<1>. QED
  BY <1>4, <1>5, <1>7 DEF AnswerBehind, IsEvent

(* The shadow of the queue after the message at its head was handled. *)
LEMMA ShadowNext ==
  ASSUME NEW q, Dispatches(q), NEW t, NEW u, Put(q, t, u)
  PROVE  Tail(q) \o t \in Seq(Message) /\ InStep(Tail(q) \o t)'
<1>. DEFINE h == Head(q)
            S == ToSet(q)
            N == ToSet(t)
            r == Tail(q) \o t
<1>1. /\ t \in Seq(Message) /\ IsInjective(t)
      /\ Views(After(S, h, N))' /\ Puttable(S, h, N) /\ StillFirst(S, N)
      /\ t = << >> \/ state[h.dst] # "init"
      /\ state'[listener] = state[listener] \/ Started'
  BY Zenon DEF Put, Handled
<1>2. q \in Seq(Message) /\ q # << >> /\ InStep(q)
  BY DEF Dispatches
<1>3. h = Head(q) /\ S = ToSet(q) /\ N = ToSet(t) /\ r = Tail(q) \o t
  OBVIOUS
<1>. HIDE DEF h, S, N, r
<1>4. r \in Seq(Message) /\ InStep(r)'
  BY ONLY <1>1, <1>2, <1>3, NextInStep
<1>. QED
  BY <1>4 DEF r

(* A second answer. *)
LEMMA AnswersAgain ==
  ASSUME NEW q, Dispatches(q), NEW u, Put(q, << >>, u), Again(q, u), q = queue, Moves(Head(q)),
         \A x \in ToSet(queue) : Shape(x), EventsFirst(queue)
  PROVE  \E m \in Rx : AnsweredAgain(m, Tail(q) \o << >>)'
<1>. DEFINE m == Head(q).dst
<1>1. PICK w \in Worker : state[w] = "getp" /\ u = <<Msg(m, w, NULL, "M2"), Self(m, "M0")>>
  BY DEF Again
<1>2. m \in Rx /\ IsEvent(Head(q)) /\ state[m] = "work" /\ Self(m, "M0") \in ToSet(q)
  BY DEF Again
<1>3. q \in Seq(Message) /\ q # << >> /\ Head(q) \in ToSet(q) /\ EarlyOnly(ToSet(q))
  BY Basics, ViewsMean DEF Dispatches, InStep
<1>. HIDE DEF m
<1>4. AnswerBehind(m, w, q)
  BY <1>1, <1>2, <1>3 DEF AnswerBehind, EarlyOnly
<1>5. AnswerIn(m, w, u)
  BY <1>1, <1>2, SecondAnswer DEF AnswerIn
<1>6. /\ << >> \in Seq(Message) /\ q \o << >> = q /\ Tail(q) \in Seq(Message)
  BY <1>3, ConcatEmptySeq, HeadAndTail, EmptySeq
<1>7. AnswerBehind(m, w, Tail(q))'
  BY <1>2, <1>3, <1>4, <1>6, AnswerStaysBehind
<1>8. queue' = Tail(q) \o u /\ u \in Seq(Message)
  BY <1>5 DEF Put, AnswerIn
<1>9. AnsweredAgain(m, Tail(q) \o << >>)'
  BY <1>5, <1>6, <1>7, <1>8, AnswerFound
<1>. QED
  BY <1>2, <1>9

LEMMA JoinedThrice ==
  ASSUME NEW a \in Seq(Message), NEW b \in Seq(Message), NEW c \in Seq(Message)
  PROVE  (a \o b) \o c = a \o (b \o c)
OBVIOUS

(* In front of a second answer. *)
LEMMA AnswerComes ==
  ASSUME NEW q, Dispatches(q), NEW t, NEW u, Put(q, t, u), Moves(Head(q)),
         \A x \in ToSet(queue) : Shape(x), EventsFirst(queue),
         NEW m \in Rx, NEW w \in Worker,
         NEW live \in Seq(Message), live # << >>,
         NEW after \in Seq(Message), NEW more \in Seq(Message),
         q = live \o after, queue = live \o more, AnswerBehind(m, w, live), AnswerIn(m, w, more)
  PROVE  AnsweredAgain(m, Tail(q) \o t)'
<1>1. AnswerBehind(m, w, Tail(live))'
  BY AnswerStaysBehind
<1>2. t \in Seq(Message) /\ u \in Seq(Message)
  BY PutMeans
<1>3. Tail(live) \in Seq(Message) /\ Tail(q) = Tail(live) \o after
  BY JoinedTail
<1>4. after \o t \in Seq(Message) /\ Tail(q) \o t = Tail(live) \o (after \o t)
  <2>1. (Tail(live) \o after) \o t = Tail(live) \o (after \o t)
    BY <1>2, <1>3, JoinedThrice, Zenon
  <2>. QED
    BY <1>2, <1>3, <2>1, JoinedSet
<1>5. more \o u \in Seq(Message) /\ queue' = Tail(live) \o (more \o u)
  <2>1. PICK o : o = queue
    OBVIOUS
  <2>2. Tail(o) = Tail(live) \o more
    BY <2>1, JoinedTail
  <2>3. (Tail(live) \o more) \o u = Tail(live) \o (more \o u)
    BY <1>2, <1>3, JoinedThrice, Zenon
  <2>4. queue' = Tail(o) \o u
    BY <2>1 DEF Put
  <2>. QED
    BY <1>2, <2>2, <2>3, <2>4, JoinedSet
<1>6. AnswerIn(m, w, more \o u)
  BY <1>2, JoinedFirst DEF AnswerIn
<1>. QED
  BY <1>1, <1>3, <1>4, <1>5, <1>6, AnswerFound

(* A handler took a message that the machines in step expect. *)
LEMMA HandledInStep ==
  ASSUME NEW q, Dispatches(q), Advance(q), PoolShape',
         \A x \in ToSet(queue) : Shape(x), EventsFirst(queue), Alive,
         \/ q = queue
         \/ \E m \in Rx, w \in Worker, live, after, more \in Seq(Message) :
              /\ live # << >> /\ q = live \o after /\ queue = live \o more
              /\ AnswerBehind(m, w, live) /\ AnswerIn(m, w, more)
  PROVE  StaysInStep'
<1>1. PICK t, u : Put(q, t, u)
  BY DEF Advance, Put
<1>2. Moves(Head(q))
  BY DEF Advance
<1>3. PICK s : s = queue'
  OBVIOUS
<1>4. EventsFirst(s) /\ \A x \in ToSet(s) : Shape(x)
  BY <1>1, <1>3, QueueNext
<1>5. Alive'
  BY <1>1, <1>2, AliveNext
<1>6. Tail(q) \o t \in Seq(Message) /\ InStep(Tail(q) \o t)'
  BY <1>1, ShadowNext
<1>7. Tail(q) \o t = queue' \/ Ruined(Tail(q) \o t)'
  <2>1. CASE q = queue /\ u = t
    BY <1>1, <2>1 DEF Put
  <2>2. CASE q = queue /\ t = << >> /\ Again(q, u)
    <3>1. \E m \in Rx : AnsweredAgain(m, Tail(q) \o t)'
      BY <1>1, <1>2, <2>2, AnswersAgain
    <3>. QED
      BY <3>1 DEF Ruined
  <2>3. CASE q # queue
    <3>1. PICK m \in Rx, w \in Worker, live \in Seq(Message), after \in Seq(Message), more \in Seq(Message) :
            /\ live # << >> /\ q = live \o after /\ queue = live \o more
            /\ AnswerBehind(m, w, live) /\ AnswerIn(m, w, more)
      BY <2>3
    <3>2. AnsweredAgain(m, Tail(q) \o t)'
      BY <1>1, <1>2, <3>1, AnswerComes
    <3>. QED
      BY <3>2 DEF Ruined
  <2>4. u = t \/ (t = << >> /\ Again(q, u))
    BY <1>1 DEF Put
  <2>. QED
    BY <2>1, <2>2, <2>3, <2>4
<1>8. EventsFirst(queue)' /\ \A x \in ToSet(queue') : Shape(x)'
  BY <1>3, <1>4 DEF EventsFirst, IsEvent, Shape, EventShape, CallShape
<1>. QED
  BY <1>5, <1>6, <1>7, <1>8 DEF StaysInStep

(* Nothing of the program moves. *)
LEMMA StaysPut ==
  ASSUME StaysInStep, UNCHANGED <<queue, state, io, pool, job, flags, wi>>,
         \A p \in Rx : \/ timer'[p] = timer[p]
                       \/ timer[p] = "armed" /\ timer'[p] = "expired",
         \A c \in Client : \/ net'[c].conn = net[c].conn
                           \/ net[c].conn = "new" /\ net'[c].conn = "backlog"
  PROVE  StaysInStep'
<1>1. PICK q \in Seq(Message) : InStep(q) /\ (q = queue \/ Ruined(q))
  BY DEF StaysInStep
<1>2. InStep(q)'
  BY <1>1, WorldInStep
<1>3. Ruined(q) => Ruined(q)'
  <2>1. queue' = queue /\ state' = state /\ io' = io
    OBVIOUS
  <2>2. ASSUME NEW m \in Rx
        PROVE  AtTheEnd(m) => AtTheEnd(m)'
    BY <2>1 DEF AtTheEnd
  <2>3. ASSUME NEW m \in Rx, AnsweredAgain(m, q)
        PROVE  AnsweredAgain(m, q)'
    <3>1. PICK w \in Worker, live \in Seq(Message), after \in Seq(Message), more \in Seq(Message) :
            /\ q = live \o after /\ queue = live \o more
            /\ AnswerBehind(m, w, live) /\ AnswerIn(m, w, more)
      BY ONLY <2>3, AnswerKnown
    <3>2. AnswerBehind(m, w, live)'
      BY <2>1, <3>1 DEF AnswerBehind, Early, IsEvent
    <3>. QED
      BY <2>1, <3>1, <3>2, AnswerFound
  <2>. QED
    BY <2>2, <2>3 DEF Ruined
<1>4. /\ \A x \in ToSet(queue') : Shape(x)'
      /\ EventsFirst(queue)'
  BY DEF StaysInStep, EventsFirst, IsEvent, Shape, EventShape, CallShape
<1>5. Alive'
  <2>1. \A x : Resting(x)' <=> Resting(x)
    BY PoolSame
  <2>. QED
    BY <2>1 DEF StaysInStep, Alive, IsEvent
<1>. QED
  BY <1>1, <1>2, <1>3, <1>4, <1>5 DEF StaysInStep

(* Whose message is at the head. *)
LEMMA WhoHandles ==
  ASSUME Exec, NEW d, d = Head(queue).dst
  PROVE  /\ queue # << >> /\ fate = "running"
         /\ d \in Worker => \/ worker_init_M0(d) \/ worker_idle_M1(d) \/ worker_M0_getp(d)
                            \/ worker_M0_ackp(d) \/ worker_M1(d) \/ worker_M2(d) \/ worker_M3(d)
         /\ d \in Rx => \/ rx_init_M0(d) \/ rx_idle_M1(d) \/ rx_idle_M0(d)
                        \/ rx_work_D0(d) \/ rx_work_D0_fails(d)
                        \/ rx_work_D2(d) \/ rx_work_T0(d) \/ rx_work_M0(d)
<1>1. CASE RxExec
  <2>1. PICK m \in Rx : \/ rx_init_M0(m) \/ rx_idle_M1(m) \/ rx_idle_M0(m)
                        \/ rx_work_D0(m) \/ rx_work_D0_fails(m)
                        \/ rx_work_D2(m) \/ rx_work_T0(m) \/ rx_work_M0(m)
    BY <1>1 DEF RxExec
  <2>2. Head(queue).dst = m /\ queue # << >> /\ fate = "running"
    BY <2>1 DEF rx_init_M0, rx_idle_M1, rx_idle_M0, rx_work_D0, rx_work_D0_fails,
                rx_work_D2, rx_work_T0, rx_work_M0, Receive
  <2>. QED
    BY <2>1, <2>2, Kinships
<1>2. CASE TxExec
  <2>1. PICK m \in Tx : \/ tx_init_M0(m) \/ tx_idle_M1(m) \/ tx_idle_M0(m)
                        \/ tx_work_D1(m) \/ tx_work_D1_fails(m) \/ tx_work_D1_breaks(m)
                        \/ tx_work_D2(m) \/ tx_work_M0(m)
    BY <1>2, SMTT(30) DEF TxExec
  <2>2. Head(queue).dst = m /\ queue # << >> /\ fate = "running"
    BY <2>1 DEF tx_init_M0, tx_idle_M1, tx_idle_M0, tx_work_D1, tx_work_D1_fails,
                tx_work_D1_breaks, tx_work_D2, tx_work_M0, Receive
  <2>. QED
    BY <2>2, Kinships
<1>3. CASE WorkerExec
  <2>1. PICK w \in Worker : \/ worker_init_M0(w) \/ worker_idle_M1(w) \/ worker_M0_getp(w)
                            \/ worker_M0_ackp(w) \/ worker_M1(w) \/ worker_M2(w) \/ worker_M3(w)
    BY <1>3 DEF WorkerExec
  <2>2. Head(queue).dst = w /\ queue # << >> /\ fate = "running"
    BY <2>1 DEF worker_init_M0, worker_idle_M1, worker_M0_getp, worker_M0_ackp,
                worker_M1, worker_M2, worker_M3, Receive
  <2>. QED
    BY <2>1, <2>2, Kinships
<1>4. CASE ManagerExec
  <2>1. Head(queue).dst = manager /\ queue # << >> /\ fate = "running"
    BY <1>4 DEF ManagerExec, manager_init_M0, manager_work_M0, manager_work_M1, manager_work_S, Receive
  <2>. QED
    BY <2>1, Kinships
<1>5. CASE ListenerExec
  <2>1. Head(queue).dst = listener /\ queue # << >> /\ fate = "running"
    BY <1>5 DEF ListenerExec, listener_init_M0, listener_work_D0, listener_work_D0_fails,
                listener_work_M0, Receive
  <2>. QED
    BY <2>1, Kinships
<1>6. CASE PoolmanExec
  <2>1. Head(queue).dst = poolman /\ queue # << >> /\ fate = "running"
    BY <1>6 DEF PoolmanExec, poolman_init_M0, poolman_work_T0, Receive
  <2>. QED
    BY <2>1, Kinships
<1>. QED
  BY <1>1, <1>2, <1>3, <1>4, <1>5, <1>6 DEF Exec

(* The second answer is taken for a failure. *)
LEMMA AnswerIsTaken ==
  ASSUME Exec, Typed, NEW m \in Rx, NEW w \in Worker, AnswerBehind(m, w, << >>), AnswerIn(m, w, queue)
  PROVE  worker_M2(w)
<1>1. queue \in Seq(Message) /\ Len(queue) >= 2
  BY DEF AnswerIn
<1>2. Head(queue) = Msg(m, w, NULL, "M2")
  BY <1>1, Basics DEF AnswerIn
<1>3. Head(queue).dst = w /\ Head(queue).code = "M2" /\ state[w] = "getp"
  BY <1>2, MsgFields DEF AnswerBehind
<1>4. Code(Head(queue)) = "M2"
  BY <1>3 DEF Code
<1>5. \/ worker_init_M0(w) \/ worker_idle_M1(w) \/ worker_M0_getp(w)
      \/ worker_M0_ackp(w) \/ worker_M1(w) \/ worker_M2(w) \/ worker_M3(w)
  BY <1>3, WhoHandles
<1>6. ~ worker_init_M0(w) /\ ~ worker_idle_M1(w)
  BY <1>4 DEF worker_init_M0, worker_idle_M1, Receive
<1>7. ~ worker_M0_getp(w) /\ ~ worker_M0_ackp(w)
  BY <1>4 DEF worker_M0_getp, worker_M0_ackp, Receive
<1>8. ~ worker_M1(w) /\ ~ worker_M3(w)
  BY <1>4 DEF worker_M1, worker_M3, Receive
<1>. QED
  BY <1>5, <1>6, <1>7, <1>8

(* What a worker says that gives up. *)
LEMMA GiveUpMeans ==
  ASSUME NEW w \in Worker, wi[w].ci \in Client, NEW u, u = GiveUpMsgs(w)
  PROVE  /\ u \in Seq(Message)
         /\ \A x \in ToSet(u) : Shape(x) /\ ~ IsEvent(x) /\ x.src = w /\ x.dst \in {manager, w}
<1>. DEFINE c == wi[w].ci
            a == Msg(w, manager, c, "M1")
            b == Self(w, "M3")
<1>1. w \in Machine /\ manager \in Machine /\ w # NULL /\ c \in Client
  BY Kinships
<1>2. /\ a.src = w /\ a.dst = manager /\ a.code = "M1" /\ a \in Message
      /\ b.src = w /\ b.dst = w /\ b.code = "M3" /\ b \in Message
  BY <1>1, MsgFields, MsgType DEF Self, Code0
<1>3. CallShape(a) /\ CallShape(b)
  BY <1>1 DEF CallShape
<1>4. u = <<a, b>>
  BY DEF GiveUpMsgs
<1>. HIDE DEF a, b, c
<1>5. Shape(a) /\ Shape(b) /\ ~ IsEvent(a) /\ ~ IsEvent(b)
  BY <1>1, <1>2, <1>3 DEF Shape, IsEvent
<1>6. a # b
  BY <1>2
<1>7. <<a, b>> \in Seq(Message) /\ ToSet(<<a, b>>) = {a, b}
  BY <1>2, <1>6, Put2
<1>. QED
  BY <1>2, <1>4, <1>5, <1>7

(* ... and the machine that answered twice is next. *)
LEMMA AnswerTakenInStep ==
  ASSUME Exec, Typed, PoolShape, StaysInStep, NEW q \in Seq(Message), InStep(q),
         NEW m \in Rx, NEW w \in Worker, AnswerBehind(m, w, << >>), AnswerIn(m, w, queue)
  PROVE  Typed' /\ PoolShape' /\ StaysInStep' /\ fate' = fate
<1>1. worker_M2(w)
  BY AnswerIsTaken
<1>2. PICK u : u = GiveUpMsgs(w)
  OBVIOUS
<1>3. PICK o : o = queue
  OBVIOUS
<1>4. PICK s : s = queue'
  OBVIOUS
<1>5. s = Tail(o) \o u /\ UNCHANGED <<fate, machineVars, worldVars>>
  BY <1>1, <1>2, <1>3, <1>4 DEF worker_M2, Puts
<1>6. UNCHANGED <<fate, state, io, timer, pool, job, flags, wi, sig, net>>
  BY <1>5 DEF machineVars, worldVars
<1>7. Views(ToSet(q))
  BY DEF InStep
<1>8. state[w] = "getp" /\ state[m] = "idle" /\ io[m].fd = NULL /\ \A x \in ToSet(o) : ~ IsEvent(x)
  <2>1. ToSet(<< >>) = {}
    BY Put0
  <2>. QED
    BY <1>3, <2>1 DEF AnswerBehind
<1>9. wi[w].ci \in Client /\ state[manager] # "none"
  <2>1. WorkerView(w, ToSet(q)) /\ SingleView(ToSet(q))
    BY <1>7, ViewsMean
  <2>. QED
    BY <1>8, <2>1 DEF WorkerView, SingleView
<1>10. /\ u \in Seq(Message)
       /\ \A x \in ToSet(u) : Shape(x) /\ ~ IsEvent(x) /\ x.src = w /\ x.dst \in {manager, w}
  BY <1>2, <1>9, GiveUpMeans
<1>11. /\ o \in Seq(Message) /\ Len(o) >= 2 /\ o[2] = Self(m, "M0") /\ o # << >>
       /\ Tail(o) \in Seq(Message) /\ ToSet(Tail(o)) \subseteq ToSet(o)
  <2>1. o \in Seq(Message) /\ Len(o) >= 2 /\ o[2] = Self(m, "M0")
    BY <1>3 DEF AnswerIn
  <2>2. o # << >>
    BY <2>1, EmptySeq
  <2>. QED
    BY <2>1, <2>2, HeadAndTail
<1>12. s \in Seq(Message) /\ ToSet(s) = ToSet(Tail(o)) \cup ToSet(u)
  BY <1>5, <1>10, <1>11, JoinedSet
<1>13. s # << >> /\ Head(s) = Self(m, "M0")
  <2>. DEFINE n == Len(o) - 1
  <2>1. /\ n \in Nat /\ Len(s) = n + Len(u)
        /\ \A i \in 1 .. n : s[i] = o[i + 1]
    BY <1>5, <1>10, <1>11, Positions
  <2>2. Len(o) \in Nat /\ Len(u) \in Nat
    BY <1>10, <1>11, Basics
  <2>3. 1 \in 1 .. n /\ Len(s) # 0
    BY <1>11, <2>1, <2>2
  <2>4. s[1] = o[2]
    BY <2>1, <2>3
  <2>5. s # << >>
    BY <2>3, EmptySeq
  <2>6. Head(s) = s[1]
    BY <1>12, <2>5, Basics
  <2>. QED
    BY <1>11, <2>4, <2>5, <2>6
<1>14. AtTheEnd(m)'
  BY <1>4, <1>6, <1>8, <1>13 DEF AtTheEnd
<1>15. InStep(q)'
  BY <1>6, WorldInStep
<1>16. \A x \in ToSet(s) : Shape(x) /\ ~ IsEvent(x)
  <2>1. \A x \in ToSet(o) : Shape(x)
    BY <1>3 DEF StaysInStep
  <2>. QED
    BY <1>8, <1>10, <1>11, <1>12, <2>1
<1>17. EventsFirst(s)
  <2>1. \A k \in DOMAIN s : s[k] \in ToSet(s)
    BY DEF ToSet
  <2>. QED
    BY <1>16, <2>1 DEF EventsFirst
<1>18. ASSUME NEW x \in ToSet(s)
       PROVE  state[x.dst] # "none" /\ (x.src # NULL => state[x.src] # "none")
  <2>1. CASE x \in ToSet(o)
    BY <1>3, <2>1 DEF StaysInStep, Alive
  <2>2. CASE x \in ToSet(u)
    BY <1>8, <1>9, <1>10, <2>2
  <2>. QED
    BY <1>11, <1>12, <2>1, <2>2
<1>19. Alive'
  BY <1>4, <1>6, <1>16, <1>18 DEF Alive, IsEvent
<1>20. EventsFirst(queue)' /\ \A x \in ToSet(queue') : Shape(x)'
  BY <1>4, <1>16, <1>17 DEF EventsFirst, IsEvent, Shape, EventShape, CallShape
<1>21. StaysInStep'
  BY <1>14, <1>15, <1>19, <1>20 DEF StaysInStep, Ruined
<1>22. Typed'
  BY <1>4, <1>6, <1>12 DEF Typed
<1>23. PoolShape'
  BY <1>6, PoolSame
<1>. QED
  BY <1>6, <1>21, <1>22, <1>23

(* ... and ends the program. *)
LEMMA EndsHere ==
  ASSUME Exec, NEW m \in Rx, AtTheEnd(m)
  PROVE  Exit("no fd attached")
<1>1. Head(queue) = Self(m, "M0") /\ state[m] = "idle" /\ io[m].fd = NULL
  BY DEF AtTheEnd
<1>2. Head(queue).dst = m /\ Head(queue).code = "M0"
  BY <1>1, SelfFields
<1>3. \/ rx_init_M0(m) \/ rx_idle_M1(m) \/ rx_idle_M0(m)
      \/ rx_work_D0(m) \/ rx_work_D0_fails(m)
      \/ rx_work_D2(m) \/ rx_work_T0(m) \/ rx_work_M0(m)
  BY <1>2, WhoHandles
<1>4. Code(Head(queue)) = "M0"
  BY <1>2 DEF Code
<1>5. ~ rx_init_M0(m) /\ ~ rx_idle_M1(m) /\ ~ rx_work_M0(m)
  BY <1>1, <1>4 DEF rx_init_M0, rx_idle_M1, rx_work_M0, Receive
<1>6. ~ rx_work_D0(m) /\ ~ rx_work_D0_fails(m) /\ ~ rx_work_D2(m) /\ ~ rx_work_T0(m)
  BY <1>1 DEF rx_work_D0, rx_work_D0_fails, rx_work_D2, rx_work_T0, Receive
<1>7. rx_idle_M0(m)
  BY <1>3, <1>5, <1>6
<1>. QED
  BY <1>1, <1>7 DEF rx_idle_M0

(* Whatever is handled. *)
LEMMA ExecAdvances ==
  ASSUME NEW q, Dispatches(q), Exec
  PROVE  \/ Exit("no machine to delete") \/ Exit("broken pipe")
         \/ Typed' /\ PoolShape' /\ Advance(q)
<1>1. CASE RxExec
  <2>1. PICK m \in Rx : \/ rx_init_M0(m) \/ rx_idle_M1(m) \/ rx_idle_M0(m)
                        \/ rx_work_D0(m) \/ rx_work_D0_fails(m)
                        \/ rx_work_D2(m) \/ rx_work_T0(m) \/ rx_work_M0(m)
    BY <1>1 DEF RxExec
  <2>. QED
    BY <2>1, RxInit, RxIdleM1, RxIdleM0, RxWorkD0, RxWorkD0Fails, RxWorkD2, RxWorkT0, RxWorkM0
<1>2. CASE TxExec
  <2>1. PICK m \in Tx : \/ tx_init_M0(m) \/ tx_idle_M1(m) \/ tx_idle_M0(m)
                        \/ tx_work_D1(m) \/ tx_work_D1_fails(m) \/ tx_work_D1_breaks(m)
                        \/ tx_work_D2(m) \/ tx_work_M0(m)
    BY <1>2 DEF TxExec
  <2>. QED
    BY <2>1, TxInit, TxIdleM1, TxIdleM0, TxWorkD1, TxWorkFails, TxWorkM0 DEF tx_work_D1_breaks
<1>3. CASE WorkerExec
  <2>1. PICK w \in Worker : \/ worker_init_M0(w) \/ worker_idle_M1(w) \/ worker_M0_getp(w)
                            \/ worker_M0_ackp(w) \/ worker_M1(w) \/ worker_M2(w) \/ worker_M3(w)
    BY <1>3 DEF WorkerExec
  <2>. QED
    BY <2>1, WorkerInit, WorkerIdleM1, WorkerM0, WorkerM1, WorkerM2
<1>. QED
  BY <1>1, <1>2, <1>3, ManagerHandles, ListenerHandles, PoolmanHandles DEF Exec

-----------------------------------------------------------------------------
(* The inductive invariant: variables have their types, every pool holds    *)
(* machines of its kind, each once, and the machines are in step.           *)
ServerInv ==
  /\ Typed
  /\ PoolShape
  /\ StaysInStep
  /\ fate \in {"running", "stopped", "broken pipe", "no fd attached", "no machine to delete"}

LEMMA ExitKeeps ==
  ASSUME ServerInv, NEW why \in {"broken pipe", "no fd attached", "no machine to delete"},
         Exit(why)
  PROVE  ServerInv'
<1>1. UNCHANGED <<queue, state, io, timer, pool, job, flags, wi, sig, net>> /\ fate' = why
  BY DEF Exit, machineVars, worldVars
<1>2. StaysInStep'
  BY <1>1, StaysPut DEF ServerInv
<1>3. Typed' /\ PoolShape'
  BY <1>1, PoolSame DEF ServerInv, Typed
<1>. QED
  BY <1>1, <1>2, <1>3 DEF ServerInv

LEMMA DispatchKeeps ==
  ASSUME ServerInv, Exec, NEW q, Dispatches(q),
         \/ q = queue
         \/ \E m \in Rx, w \in Worker, live, after, more \in Seq(Message) :
              /\ live # << >> /\ q = live \o after /\ queue = live \o more
              /\ AnswerBehind(m, w, live) /\ AnswerIn(m, w, more)
  PROVE  ServerInv'
<1>1. CASE Exit("no machine to delete") \/ Exit("broken pipe")
  BY <1>1, ExitKeeps
<1>2. CASE Typed' /\ PoolShape' /\ Advance(q)
  <2>1. (\A x \in ToSet(queue) : Shape(x)) /\ EventsFirst(queue) /\ Alive
    BY DEF ServerInv, StaysInStep
  <2>2. StaysInStep'
    BY <1>2, <2>1, HandledInStep
  <2>3. fate' \in {"running", "stopped"}
    BY <1>2 DEF Advance
  <2>. QED
    BY <1>2, <2>2, <2>3 DEF ServerInv
<1>. QED
  BY <1>1, <1>2, ExecAdvances

LEMMA ExecKeeps ==
  ASSUME ServerInv, PoolInv, Exec
  PROVE  ServerInv'
<1>1. Typed /\ PoolShape /\ StaysInStep /\ queue \in Seq(Message)
  BY DEF ServerInv, Typed
<1>2. queue # << >> /\ fate = "running"
  BY WhoHandles
<1>3. PICK q \in Seq(Message) : InStep(q) /\ (q = queue \/ Ruined(q))
  BY <1>1 DEF StaysInStep
<1>4. CASE q = queue
  <2>1. Dispatches(q)
    BY <1>1, <1>2, <1>3, <1>4 DEF Dispatches
  <2>. QED
    BY <1>4, <2>1, DispatchKeeps
<1>5. ASSUME NEW m \in Rx, AtTheEnd(m)
      PROVE  ServerInv'
  <2>1. Exit("no fd attached")
    BY <1>5, EndsHere
  <2>. QED
    BY <2>1, ExitKeeps
<1>6. ASSUME NEW m \in Rx, AnsweredAgain(m, q)
      PROVE  ServerInv'
  <2>1. PICK w \in Worker, live \in Seq(Message), after \in Seq(Message), more \in Seq(Message) :
          /\ q = live \o after /\ queue = live \o more
          /\ AnswerBehind(m, w, live) /\ AnswerIn(m, w, more)
    BY ONLY <1>6, AnswerKnown
  <2>2. CASE live = << >>
    <3>1. queue = more
      BY <2>1, <2>2, ConcatEmptySeq
    <3>2. AnswerBehind(m, w, << >>) /\ AnswerIn(m, w, queue)
      BY <2>1, <2>2, <3>1
    <3>3. Typed' /\ PoolShape' /\ StaysInStep' /\ fate' = fate
      BY <1>1, <1>3, <3>2, AnswerTakenInStep
    <3>. QED
      BY <3>3 DEF ServerInv
  <2>3. CASE live # << >>
    <3>1. PICK o : o = queue
      OBVIOUS
    <3>2. Head(q) = Head(live) /\ q # << >> /\ Head(o) = Head(live)
      BY <2>1, <2>3, <3>1, JoinedTail
    <3>3. Dispatches(q)
      BY <1>1, <1>2, <1>3, <3>1, <3>2 DEF ServerInv, Dispatches
    <3>. QED
      BY <2>1, <2>3, <3>3, DispatchKeeps
  <2>. QED
    BY <2>2, <2>3
<1>. QED
  BY <1>3, <1>4, <1>5, <1>6 DEF Ruined

-----------------------------------------------------------------------------
(* The world moves. *)

LEMMA WithRecord ==
  ASSUME net \in [Client -> Connection], \A c \in Client : net[c].nread <= Len(net[c].sent),
         NEW d \in Client, NEW r \in Connection, r.nread <= Len(r.sent),
         net' = [net EXCEPT ![d] = r]
  PROVE  /\ net' \in [Client -> Connection] /\ \A c \in Client : net'[c].nread <= Len(net'[c].sent)
         /\ \A c \in Client : net'[c].conn = IF c = d THEN r.conn ELSE net[c].conn
OBVIOUS

LEMMA WorldTyped ==
  ASSUME Typed, World
  PROVE  /\ Typed' /\ UNCHANGED <<fate, queue, state, io, pool, job, flags, wi>>
         /\ \A p \in Rx : \/ timer'[p] = timer[p]
                          \/ timer[p] = "armed" /\ timer'[p] = "expired"
         /\ \A c \in Client : \/ net'[c].conn = net[c].conn
                              \/ net[c].conn = "new" /\ net'[c].conn = "backlog"
<1>1. ASSUME NEW d \in Client, NEW r \in Connection, r.nread <= Len(r.sent),
             r.conn = net[d].conn \/ (net[d].conn = "new" /\ r.conn = "backlog"),
             net' = [net EXCEPT ![d] = r], UNCHANGED <<fate, queue, machineVars, sig>>
      PROVE  /\ Typed' /\ UNCHANGED <<fate, queue, state, io, timer, pool, job, flags, wi>>
             /\ \A c \in Client : \/ net'[c].conn = net[c].conn
                                  \/ net[c].conn = "new" /\ net'[c].conn = "backlog"
  <2>1. /\ net' \in [Client -> Connection] /\ \A c \in Client : net'[c].nread <= Len(net'[c].sent)
        /\ \A c \in Client : net'[c].conn = IF c = d THEN r.conn ELSE net[c].conn
    BY <1>1, WithRecord DEF Typed
  <2>2. UNCHANGED <<fate, queue, state, io, timer, pool, job, flags, wi, sig>>
    BY <1>1 DEF machineVars
  <2>. QED
    BY <1>1, <2>1, <2>2 DEF Typed
<1>2. ASSUME NEW c \in Client, Connect(c)
      PROVE  \E r \in Connection : /\ net' = [net EXCEPT ![c] = r] /\ r.nread <= Len(r.sent)
                                   /\ net[c].conn = "new" /\ r.conn = "backlog"
  <2>1. PICK r : r = [net[c] EXCEPT !.conn = "backlog"]
    OBVIOUS
  <2>2. net[c] \in Connection /\ net[c].nread <= Len(net[c].sent)
    BY DEF Typed
  <2>3. r \in Connection /\ r.conn = "backlog" /\ r.nread <= Len(r.sent)
    BY <2>1, <2>2 DEF Connection
  <2>4. net' = [net EXCEPT ![c] = r]
    BY <1>2, <2>1 DEF Connect
  <2>. QED
    BY <1>2, <2>3, <2>4 DEF Connect
<1>3. ASSUME NEW c \in Client, NEW eol \in BOOLEAN, PeerSends(c, eol)
      PROVE  \E r \in Connection : /\ net' = [net EXCEPT ![c] = r] /\ r.nread <= Len(r.sent)
                                   /\ r.conn = net[c].conn
  <2>1. PICK r : r = [net[c] EXCEPT !.sent = Append(net[c].sent, eol)]
    OBVIOUS
  <2>2. net[c] \in Connection /\ net[c].nread <= Len(net[c].sent)
    BY DEF Typed
  <2>3. net[c].sent \in Seq(BOOLEAN) /\ net[c].nread \in Nat
    BY <2>2 DEF Connection
  <2>4. PICK z : z = Append(net[c].sent, eol)
    OBVIOUS
  <2>5. z \in Seq(BOOLEAN) /\ Len(z) = Len(net[c].sent) + 1
    BY <2>3, <2>4, AppendProperties
  <2>6. Len(net[c].sent) \in Nat
    BY <2>3, LenProperties
  <2>7. r \in Connection /\ r.conn = net[c].conn /\ r.nread = net[c].nread /\ r.sent = z
    BY <2>1, <2>2, <2>4, <2>5 DEF Connection
  <2>8. r.nread <= Len(r.sent)
    BY <2>2, <2>3, <2>5, <2>6, <2>7
  <2>9. net' = [net EXCEPT ![c] = r]
    BY <1>3, <2>1 DEF PeerSends
  <2>. QED
    BY <2>7, <2>8, <2>9
<1>4. ASSUME NEW c \in Client, NEW how \in {"fin", "rst"}, PeerLeaves(c, how)
      PROVE  \E r \in Connection : /\ net' = [net EXCEPT ![c] = r] /\ r.nread <= Len(r.sent)
                                   /\ r.conn = net[c].conn
  <2>1. PICK r : r = [net[c] EXCEPT !.peer = how]
    OBVIOUS
  <2>2. net[c] \in Connection /\ net[c].nread <= Len(net[c].sent)
    BY DEF Typed
  <2>3. r \in Connection /\ r.conn = net[c].conn /\ r.nread <= Len(r.sent)
    BY <2>1, <2>2 DEF Connection
  <2>4. net' = [net EXCEPT ![c] = r]
    BY <1>4, <2>1 DEF PeerLeaves
  <2>. QED
    BY <2>3, <2>4
<1>5. ASSUME NEW c \in Client, PeerReads(c)
      PROVE  \E r \in Connection : /\ net' = [net EXCEPT ![c] = r] /\ r.nread <= Len(r.sent)
                                   /\ r.conn = net[c].conn
  <2>1. PICK r : r = [net[c] EXCEPT !.full = FALSE]
    OBVIOUS
  <2>2. net[c] \in Connection /\ net[c].nread <= Len(net[c].sent)
    BY DEF Typed
  <2>3. r \in Connection /\ r.conn = net[c].conn /\ r.nread <= Len(r.sent)
    BY <2>1, <2>2 DEF Connection
  <2>4. net' = [net EXCEPT ![c] = r]
    BY <1>5, <2>1 DEF PeerReads
  <2>. QED
    BY <2>3, <2>4
<1>6. CASE \E c \in Client : \/ Connect(c)
                             \/ \E eol \in BOOLEAN : PeerSends(c, eol)
                             \/ \E how \in {"fin", "rst"} : PeerLeaves(c, how)
                             \/ PeerReads(c)
  <2>1. PICK c \in Client : \/ Connect(c)
                            \/ \E eol \in BOOLEAN : PeerSends(c, eol)
                            \/ \E how \in {"fin", "rst"} : PeerLeaves(c, how)
                            \/ PeerReads(c)
    BY <1>6
  <2>2. UNCHANGED <<fate, queue, machineVars, sig>>
    <3>1. CASE Connect(c) \/ PeerReads(c)
      BY <3>1 DEF Connect, PeerReads, Running
    <3>2. CASE \E eol \in BOOLEAN : PeerSends(c, eol)
      BY <3>2 DEF PeerSends, Running
    <3>3. CASE \E how \in {"fin", "rst"} : PeerLeaves(c, how)
      BY <3>3 DEF PeerLeaves, Running
    <3>. QED
      BY <2>1, <3>1, <3>2, <3>3
  <2>3. PICK r \in Connection :
          /\ net' = [net EXCEPT ![c] = r] /\ r.nread <= Len(r.sent)
          /\ r.conn = net[c].conn \/ (net[c].conn = "new" /\ r.conn = "backlog")
    BY <1>2, <1>3, <1>4, <1>5, <2>1
  <2>. QED
    BY <1>1, <2>2, <2>3
<1>7. CASE \E m \in Timed : TimerExpires(m)
  <2>1. PICK m \in Timed : TimerExpires(m)
    BY <1>7
  <2>2. /\ timer' = [timer EXCEPT ![m] = "expired"] /\ timer[m] = "armed"
        /\ UNCHANGED <<fate, queue, state, io, pool, job, flags, wi, sig, net>>
    BY <2>1 DEF TimerExpires, Running, worldVars
  <2>. QED
    BY <2>2, Kinships DEF Typed
<1>8. CASE \E s \in Signals : SignalComes(s)
  <2>1. PICK s \in Signals : SignalComes(s)
    BY <1>8
  <2>2. /\ sig' = sig \cup {s}
        /\ UNCHANGED <<fate, queue, state, io, timer, pool, job, flags, wi, net>>
    BY <2>1 DEF SignalComes, Running, machineVars
  <2>. QED
    BY <2>2 DEF Typed
<1>. QED
  BY <1>6, <1>7, <1>8 DEF World

LEMMA WorldServer ==
  ASSUME ServerInv, World
  PROVE  ServerInv'
<1>1. /\ Typed' /\ UNCHANGED <<fate, queue, state, io, pool, job, flags, wi>>
      /\ \A p \in Rx : \/ timer'[p] = timer[p]
                       \/ timer[p] = "armed" /\ timer'[p] = "expired"
      /\ \A c \in Client : \/ net'[c].conn = net[c].conn
                           \/ net[c].conn = "new" /\ net'[c].conn = "backlog"
  BY WorldTyped DEF ServerInv
<1>2. StaysInStep'
  BY <1>1, StaysPut DEF ServerInv
<1>3. PoolShape'
  BY <1>1, PoolSame DEF ServerInv
<1>. QED
  BY <1>1, <1>2, <1>3 DEF ServerInv

-----------------------------------------------------------------------------
(* Events come. *)

LEMMA TwoMore ==
  ASSUME NEW S, IsFiniteSet(S), NEW a, NEW b
  PROVE  IsFiniteSet(S \cup {a, b})
<1>1. IsFiniteSet(S \cup {a}) /\ IsFiniteSet((S \cup {a}) \cup {b})
  BY FS_AddElement
<1>2. (S \cup {a}) \cup {b} = S \cup {a, b}
  OBVIOUS
<1>. QED
  BY <1>1, <1>2

LEMMA CodesAreFinite == IsFiniteSet(Code0)
<1>1. IsFiniteSet({"POLLIN", "POLLOUT"})
  <2>1. IsFiniteSet({} \cup {"POLLIN", "POLLOUT"})
    BY FS_EmptySet, TwoMore
  <2>2. {} \cup {"POLLIN", "POLLOUT"} = {"POLLIN", "POLLOUT"}
    OBVIOUS
  <2>. QED
    BY <2>1, <2>2
<1>2. PICK C1, C2, C3, C4 :
        /\ C1 = {"POLLIN", "POLLOUT"} \cup {"POLLHUP", "T0"}
        /\ C2 = C1 \cup {"M0", "M1"}
        /\ C3 = C2 \cup {"M2", "M3"}
        /\ C4 = C3 \cup {"S0", "S1"}
  OBVIOUS
<1>3. IsFiniteSet(C1)
  BY <1>1, <1>2, TwoMore
<1>4. IsFiniteSet(C2)
  BY <1>2, <1>3, TwoMore
<1>5. IsFiniteSet(C3)
  BY <1>2, <1>4, TwoMore
<1>6. IsFiniteSet(C4)
  BY <1>2, <1>5, TwoMore
<1>7. Code0 = C4
  BY <1>2 DEF Code0
<1>. QED
  BY <1>6, <1>7

LEMMA ReadyIsFinite ==
  ASSUME Views({}), Typed
  PROVE  Ready \subseteq Message /\ IsFiniteSet(Ready) /\ BatchSize(Ready) \in Nat
<1>1. PICK R : R = Ready
  OBVIOUS
<1>2. \A x \in R : x \in Message /\ x.src = NULL /\ x.ptr = NULL
  BY <1>1, CalmEvents DEF EventShape
<1>3. IsFiniteSet(Machine \X Code0)
  BY FS_Product, CodesAreFinite, NamesAssumption
<1>. DEFINE f == [x \in R |-> <<x.dst, x.code>>]
<1>4. f \in [R -> Machine \X Code0]
  BY <1>2 DEF Message
<1>5. ASSUME NEW x \in R, NEW y \in R, f[x] = f[y]
      PROVE  x = y
  <2>1. x.dst = y.dst /\ x.code = y.code
    BY <1>5
  <2>2. x = Msg(x.src, x.dst, x.ptr, x.code) /\ y = Msg(y.src, y.dst, y.ptr, y.code)
    BY <1>2, MsgEq
  <2>. QED
    BY <1>2, <2>1, <2>2
<1>6. DOMAIN f = R
  OBVIOUS
<1>. HIDE DEF f
<1>7. f \in Injection(R, Machine \X Code0)
  BY <1>4, <1>5, <1>6 DEF Injection, IsInjective
<1>8. IsFiniteSet(R)
  BY <1>3, <1>7, FS_Injection
<1>9. Cardinality(R) \in Nat
  BY <1>8, FS_CardinalityType
<1>10. BatchSize(R) \in Nat
  <2>1. ASSUME NEW a \in Nat, NEW b \in Nat
        PROVE  Min({a, b}) \in Nat
    <3>1. \E x \in {a, b} : \A y \in {a, b} : x =< y
      OBVIOUS
    <3>2. Min({a, b}) \in {a, b}
      BY <3>1 DEF Min
    <3>. QED
      BY <3>2
  <2>. QED
    BY <1>9, <2>1, BoundsAssumption DEF BatchSize
<1>. QED
  BY <1>1, <1>2, <1>8, <1>10

(* An empty queue is in step as it is. *)
LEMMA EmptyInStep ==
  ASSUME StaysInStep, queue = << >>
  PROVE  Views({})
<1>1. PICK q \in Seq(Message) : InStep(q) /\ (q = queue \/ Ruined(q))
  BY DEF StaysInStep
<1>2. ~ Ruined(q)
  <2>1. ASSUME NEW m \in Rx, AnsweredAgain(m, q)
        PROVE  FALSE
    <3>1. PICK w \in Worker, live \in Seq(Message), after \in Seq(Message), more \in Seq(Message) :
            queue = live \o more /\ AnswerIn(m, w, more)
      BY <2>1, AnswerKnown
    <3>2. Len(more) >= 2 /\ Len(more) \in Nat /\ Len(live) \in Nat
      BY <3>1, LenProperties DEF AnswerIn
    <3>3. PICK o : o = queue
      OBVIOUS
    <3>4. Len(o) = Len(live) + Len(more)
      BY <3>1, <3>3, JoinedAt DEF AnswerIn
    <3>5. Len(o) = 0
      BY <3>3, EmptySeq
    <3>6. PICK a, b : a = Len(live) /\ b = Len(more)
      OBVIOUS
    <3>7. a \in Nat /\ b \in Nat /\ b >= 2 /\ a + b = 0
      BY <3>2, <3>4, <3>5, <3>6
    <3>. QED
      BY ONLY <3>7
  <2>. QED
    BY <2>1 DEF Ruined, AtTheEnd
<1>3. q = << >>
  BY <1>1, <1>2
<1>. QED
  BY <1>1, <1>3, Put0 DEF InStep

LEMMA WaitServer ==
  ASSUME ServerInv, PoolInv, Wait
  PROVE  ServerInv'
<1>1. /\ Views({}) /\ Typed /\ PoolShape
      /\ UNCHANGED <<fate, state, timer, pool, job, flags, wi, sig, net>>
  BY EmptyInStep DEF ServerInv, Wait, worldVars
<1>2. Ready \subseteq Message /\ BatchSize(Ready) \in Nat
  BY <1>1, ReadyIsFinite
<1>3. PICK s : s = queue'
  OBVIOUS
<1>4. s \in [1 .. BatchSize(Ready) -> Ready] /\ IsInjective(s)
  BY <1>3 DEF Wait
<1>5. s \in Seq(Message) /\ \A x \in ToSet(s) : x \in Ready
  <2>1. PICK n \in Nat : n = BatchSize(Ready)
    BY <1>2
  <2>2. PICK R : R = Ready
    OBVIOUS
  <2>3. s \in [1 .. n -> R] /\ R \subseteq Message
    BY <1>2, <1>4, <2>1, <2>2
  <2>4. s \in Seq(Message) /\ DOMAIN s = 1 .. n
    BY <2>3
  <2>5. \A x \in ToSet(s) : x \in R
    BY <2>3, <2>4 DEF ToSet
  <2>. QED
    BY <2>2, <2>4, <2>5
<1>6. PICK T : T = ToSet(s)
  OBVIOUS
<1>7. \A x \in T : /\ x \in Message /\ x.src = NULL /\ EventShape(x)
                   /\ x.dst \in Helper => state[x.dst] = "work"
  BY <1>1, <1>5, <1>6, CalmEvents
<1>8. /\ io' \in [Channel -> IoChannel]
      /\ \A n \in Helper : /\ io'[n].fd = io[n].fd
                           /\ \/ io'[n].watch = io[n].watch
                              \/ /\ io'[n].watch = "none"
                                 /\ \E x \in T : x.dst = n /\ IsIoEvent(x)
      /\ io'[listener] = io[listener]
  <2>1. PICK D : D = {msg.dst : msg \in {e \in T : IsIoEvent(e)}}
    OBVIOUS
  <2>2. io' = [m \in Channel |-> IF m \in D \ {listener}
                                 THEN [io[m] EXCEPT !.watch = "none"] ELSE io[m]]
    BY <1>3, <1>6, <2>1 DEF Wait
  <2>3. \A n \in D : \E x \in T : x.dst = n /\ IsIoEvent(x)
    BY <2>1
  <2>4. io \in [Channel -> IoChannel]
    BY <1>1 DEF Typed
  <2>5. ASSUME NEW n \in Channel
        PROVE  /\ [io[n] EXCEPT !.watch = "none"] \in IoChannel
               /\ [io[n] EXCEPT !.watch = "none"].fd = io[n].fd
               /\ [io[n] EXCEPT !.watch = "none"].watch = "none"
    BY <2>4 DEF IoChannel
  <2>6. listener \in Channel /\ Helper \subseteq Channel
    BY Kinships
  <2>7. io' \in [Channel -> IoChannel]
    BY <2>2, <2>4, <2>5
  <2>. QED
    BY <2>2, <2>3, <2>5, <2>6, <2>7
<1>9. Views(T)'
  BY <1>1, <1>5, <1>6, <1>8, EventsCome
<1>10. \A i \in DOMAIN s : s[i] \in T /\ IsEvent(s[i])
  BY <1>6, <1>7 DEF ToSet, IsEvent
<1>11. Started /\ \A m \in {poolman, manager, listener} : state[m] = "work"
  BY <1>1, Calm
<1>12. InStep(s)'
  <2>1. EventsFirst(s)'
    BY <1>10 DEF EventsFirst, IsEvent
  <2>2. FinishFirst(s)'
    <3>1. \A n \in Helper : Self(n, "M0").src # NULL
      BY SelfFields, Kinships
    <3>. QED
      BY <1>10, <3>1 DEF FinishFirst, IsEvent
  <2>3. ListenerLast(s)'
    BY <1>1, <1>11 DEF ListenerLast, Started
  <2>4. IsInjective(s)'
    BY <1>4 DEF IsInjective
  <2>. QED
    BY <1>6, <1>9, <2>1, <2>2, <2>3, <2>4 DEF InStep
<1>13. \A x : Resting(x)' <=> Resting(x)
  BY <1>1, PoolSame
<1>14. ASSUME NEW x \in T
       PROVE  state[x.dst] # "none" /\ ~ Resting(x.dst) /\ ~ Resting(x.src) /\ x.src = NULL
  <2>1. x.src = NULL /\ EventShape(x) /\ (x.dst \in Helper => state[x.dst] = "work")
    BY <1>7
  <2>2. ~ Resting(NULL)
    BY <1>1, Kinships DEF PoolShape, Resting, Kinds, Members
  <2>3. CASE x.dst \in Helper
    <3>1. ~ Resting(x.dst)
      BY <1>1, <2>1, <2>3, Calm
    <3>. QED
      BY <2>1, <2>2, <2>3, <3>1
  <2>4. CASE x.dst \in {poolman, manager, listener}
    <3>1. ~ Resting(x.dst)
      BY <1>1, <2>4, SingleNeverRests, Kinships
    <3>. QED
      BY <1>11, <2>1, <2>2, <2>4, <3>1
  <2>. QED
    BY <2>1, <2>3, <2>4, Kinships DEF EventShape
<1>15. Alive'
  BY <1>1, <1>3, <1>6, <1>13, <1>14 DEF Alive
<1>16. EventsFirst(queue)' /\ \A x \in ToSet(queue') : Shape(x)'
  <2>1. \A x \in T : Shape(x)'
    BY <1>9 DEF Views
  <2>. QED
    BY <1>3, <1>6, <1>12, <2>1 DEF InStep
<1>17. StaysInStep'
  BY <1>3, <1>5, <1>12, <1>15, <1>16 DEF StaysInStep
<1>18. Typed' /\ PoolShape'
  BY <1>1, <1>3, <1>5, <1>8, PoolSame DEF Typed
<1>. QED
  BY <1>1, <1>17, <1>18 DEF ServerInv

-----------------------------------------------------------------------------
(* main() has started the machines. *)

LEMMA InOrder ==
  ASSUME NEW a \in Seq(Machine), NEW b \in Seq(Machine), IsInjective(a), IsInjective(b),
         ToSet(a) \cap ToSet(b) = {}, NEW s, s = a \o b
  PROVE  s \in Seq(Machine) /\ IsInjective(s) /\ ToSet(s) = ToSet(a) \cup ToSet(b)
<1>. DEFINE n == Len(a)
            l == Len(b)
<1>1. n \in Nat /\ l \in Nat /\ DOMAIN a = 1 .. n /\ DOMAIN b = 1 .. l
  BY LenProperties
<1>2. /\ a \o b \in Seq(Machine) /\ Len(a \o b) = Len(a) + Len(b)
      /\ \A i \in 1 .. Len(a) + Len(b) :
           (a \o b)[i] = IF i <= Len(a) THEN a[i] ELSE b[i - Len(a)]
  BY ConcatProperties
<1>3. /\ s \in Seq(Machine) /\ Len(s) = n + l
      /\ \A i \in 1 .. n + l : s[i] = IF i <= n THEN a[i] ELSE b[i - n]
  BY <1>2
<1>4. DOMAIN s = 1 .. n + l
  BY <1>3, LenProperties
<1>. HIDE DEF n, l
<1>5. /\ \A i \in 1 .. n : a[i] \in ToSet(a)
      /\ \A i \in 1 .. l : b[i] \in ToSet(b)
      /\ \A i \in 1 .. n + l : s[i] \in ToSet(s)
  BY <1>1, <1>4 DEF ToSet
<1>6. ASSUME NEW i \in 1 .. n
      PROVE  i \in 1 .. n + l /\ s[i] = a[i] /\ s[i] \in ToSet(a)
  BY <1>1, <1>3, <1>5
<1>7. ASSUME NEW i \in 1 .. l
      PROVE  i + n \in 1 .. n + l /\ s[i + n] = b[i] /\ s[i + n] \in ToSet(b)
  <2>1. i + n \in 1 .. n + l /\ ~ (i + n <= n) /\ (i + n) - n = i
    BY <1>1
  <2>. QED
    BY <1>3, <1>5, <2>1
<1>8. \A i \in 1 .. n + l : i \in 1 .. n \/ \E j \in 1 .. l : i = j + n
  BY <1>1, FromWhere
<1>9. ASSUME NEW i \in 1 .. n + l, NEW j \in 1 .. n + l, s[i] = s[j]
      PROVE  i = j
  <2>1. CASE i \in 1 .. n /\ j \in 1 .. n
    BY <1>1, <1>6, <1>9, <2>1 DEF IsInjective
  <2>2. ASSUME NEW k \in 1 .. l, NEW p \in 1 .. l, i = k + n, j = p + n
        PROVE  i = j
    BY <1>1, <1>7, <1>9, <2>2 DEF IsInjective
  <2>3. ~ (i \in 1 .. n /\ \E k \in 1 .. l : j = k + n)
    BY <1>6, <1>7, <1>9
  <2>4. ~ (j \in 1 .. n /\ \E k \in 1 .. l : i = k + n)
    BY <1>6, <1>7, <1>9
  <2>5. /\ i \in 1 .. n \/ \E k \in 1 .. l : i = k + n
        /\ j \in 1 .. n \/ \E k \in 1 .. l : j = k + n
    BY <1>8
  <2>. QED
    BY <2>1, <2>2, <2>3, <2>4, <2>5
<1>10. ASSUME NEW x \in ToSet(s)
       PROVE  x \in ToSet(a) \cup ToSet(b)
  <2>1. PICK i \in 1 .. n + l : s[i] = x
    BY <1>4 DEF ToSet
  <2>. QED
    BY <1>6, <1>7, <1>8, <2>1
<1>11. ASSUME NEW x \in ToSet(a) \cup ToSet(b)
       PROVE  x \in ToSet(s)
  <2>1. CASE x \in ToSet(a)
    <3>1. PICK i \in 1 .. n : a[i] = x
      BY <1>1, <2>1 DEF ToSet
    <3>. QED
      BY <1>5, <1>6, <3>1
  <2>2. CASE x \in ToSet(b)
    <3>1. PICK i \in 1 .. l : b[i] = x
      BY <1>1, <2>2 DEF ToSet
    <3>. QED
      BY <1>5, <1>7, <3>1
  <2>. QED
    BY <1>11, <2>1, <2>2
<1>. QED
  BY <1>3, <1>4, <1>9, <1>10, <1>11 DEF IsInjective

LEMMA OneInOrder ==
  ASSUME NEW m \in Machine
  PROVE  <<m>> \in Seq(Machine) /\ IsInjective(<<m>>) /\ ToSet(<<m>>) = {m}
<1>1. <<m>> \in Seq(Machine) /\ IsInjective(<<m>>)
  BY DEF IsInjective
<1>2. DOMAIN <<m>> = {1} /\ <<m>>[1] = m
  OBVIOUS
<1>. QED
  BY <1>1, <1>2 DEF ToSet

(* Every machine is started once, the listener last. *)
LEMMA StartsInOrder ==
  /\ StartOrder \in Seq(Machine) /\ IsInjective(StartOrder)
  /\ {poolman, manager, listener} \subseteq ToSet(StartOrder)
  /\ ToSet(StartOrder) \subseteq Machine
  /\ Len(StartOrder) \in Nat \ {0} /\ StartOrder[Len(StartOrder)] = listener
<1>1. /\ StartRx \in Seq(Machine) /\ IsInjective(StartRx) /\ ToSet(StartRx) \subseteq Rx
      /\ StartTx \in Seq(Machine) /\ IsInjective(StartTx) /\ ToSet(StartTx) \subseteq Tx
      /\ StartWorker \in Seq(Machine) /\ IsInjective(StartWorker) /\ ToSet(StartWorker) \subseteq Worker
  <2>1. ASSUME NEW k \in Kinds
        PROVE  Start[k] \in Seq(Machine) /\ IsInjective(Start[k]) /\ ToSet(Start[k]) \subseteq Members[k]
    <3>1. Start[k] \in Seq(Members[k]) /\ IsInjective(Start[k])
      BY PopulationAssumption
    <3>2. Members[k] \subseteq Machine
      BY DEF Kinds, Members, Machine
    <3>3. PICK s, M : s = Start[k] /\ M = Members[k]
      OBVIOUS
    <3>4. s \in Seq(M) /\ M \subseteq Machine
      BY <3>1, <3>2, <3>3
    <3>5. s \in Seq(Machine) /\ ToSet(s) \subseteq M
      <4>1. s \in Seq(Machine)
        BY <3>4, SeqMonotonic
      <4>2. \A i \in DOMAIN s : s[i] \in M
        BY <3>4, LenProperties
      <4>. QED
        BY <4>1, <4>2 DEF ToSet
    <3>. QED
      BY <3>1, <3>3, <3>5
  <2>2. /\ "rx" \in Kinds /\ "tx" \in Kinds /\ "worker" \in Kinds
        /\ Start["rx"] = StartRx /\ Start["tx"] = StartTx /\ Start["worker"] = StartWorker
        /\ Members["rx"] = Rx /\ Members["tx"] = Tx /\ Members["worker"] = Worker
    BY DEF Kinds, Start, Members
  <2>3. StartRx \in Seq(Machine) /\ IsInjective(StartRx) /\ ToSet(StartRx) \subseteq Rx
    BY <2>1, <2>2
  <2>4. StartTx \in Seq(Machine) /\ IsInjective(StartTx) /\ ToSet(StartTx) \subseteq Tx
    BY <2>1, <2>2
  <2>5. StartWorker \in Seq(Machine) /\ IsInjective(StartWorker) /\ ToSet(StartWorker) \subseteq Worker
    BY <2>1, <2>2
  <2>. QED
    BY <2>3, <2>4, <2>5
<1>2. /\ poolman \in Machine /\ manager \in Machine /\ listener \in Machine
      /\ Rx \cap Tx = {} /\ (Rx \cup Tx) \cap Worker = {}
      /\ {poolman, manager, listener} \cap (Rx \cup Tx \cup Worker) = {}
      /\ poolman # manager /\ poolman # listener /\ manager # listener
  BY Kinships, NamesAssumption
<1>17. PICK p, g, l : p = <<poolman>> /\ g = <<manager>> /\ l = <<listener>>
  OBVIOUS
<1>3. /\ p \in Seq(Machine) /\ IsInjective(p) /\ ToSet(p) = {poolman}
      /\ g \in Seq(Machine) /\ IsInjective(g) /\ ToSet(g) = {manager}
      /\ l \in Seq(Machine) /\ IsInjective(l) /\ ToSet(l) = {listener}
  BY <1>2, <1>17, OneInOrder
<1>4. PICK s1 : s1 = p \o StartRx
  OBVIOUS
<1>5. PICK s2 : s2 = s1 \o StartTx
  OBVIOUS
<1>6. PICK s3 : s3 = s2 \o g
  OBVIOUS
<1>7. PICK s4 : s4 = s3 \o StartWorker
  OBVIOUS
<1>8. PICK s5 : s5 = s4 \o l
  OBVIOUS
<1>9. s1 \in Seq(Machine) /\ IsInjective(s1) /\ ToSet(s1) = {poolman} \cup ToSet(StartRx)
  <2>1. ToSet(p) \cap ToSet(StartRx) = {}
    BY <1>1, <1>2, <1>3
  <2>2. s1 \in Seq(Machine) /\ IsInjective(s1) /\ ToSet(s1) = ToSet(p) \cup ToSet(StartRx)
    BY <1>1, <1>3, <1>4, <2>1, InOrder
  <2>. QED
    BY <1>3, <2>2
<1>10. s2 \in Seq(Machine) /\ IsInjective(s2) /\ ToSet(s2) = {poolman} \cup ToSet(StartRx) \cup ToSet(StartTx)
  <2>1. ToSet(s1) \cap ToSet(StartTx) = {}
    BY <1>1, <1>2, <1>9
  <2>2. s2 \in Seq(Machine) /\ IsInjective(s2) /\ ToSet(s2) = ToSet(s1) \cup ToSet(StartTx)
    BY <1>1, <1>5, <1>9, <2>1, InOrder
  <2>. QED
    BY <1>9, <2>2
<1>11. /\ s3 \in Seq(Machine) /\ IsInjective(s3)
       /\ ToSet(s3) = {poolman, manager} \cup ToSet(StartRx) \cup ToSet(StartTx)
  <2>1. ToSet(s2) \cap ToSet(g) = {}
    BY <1>1, <1>2, <1>3, <1>10
  <2>2. s3 \in Seq(Machine) /\ IsInjective(s3) /\ ToSet(s3) = ToSet(s2) \cup ToSet(g)
    BY <1>3, <1>6, <1>10, <2>1, InOrder
  <2>. QED
    BY <1>3, <1>10, <2>2
<1>12. /\ s4 \in Seq(Machine) /\ IsInjective(s4)
       /\ ToSet(s4) = {poolman, manager} \cup ToSet(StartRx) \cup ToSet(StartTx) \cup ToSet(StartWorker)
  <2>1. ToSet(s3) \cap ToSet(StartWorker) = {}
    BY <1>1, <1>2, <1>11
  <2>2. s4 \in Seq(Machine) /\ IsInjective(s4) /\ ToSet(s4) = ToSet(s3) \cup ToSet(StartWorker)
    BY <1>1, <1>7, <1>11, <2>1, InOrder
  <2>. QED
    BY <1>11, <2>2
<1>13. /\ s5 \in Seq(Machine) /\ IsInjective(s5)
       /\ ToSet(s5) = ToSet(s4) \cup {listener}
  <2>1. ToSet(s4) \cap ToSet(l) = {}
    BY <1>1, <1>2, <1>3, <1>12
  <2>2. s5 \in Seq(Machine) /\ IsInjective(s5) /\ ToSet(s5) = ToSet(s4) \cup ToSet(l)
    BY <1>3, <1>8, <1>12, <2>1, InOrder, ZenonT(40)
  <2>. QED
    BY <1>3, <2>2
<1>14. StartOrder = s5
  BY <1>4, <1>5, <1>6, <1>7, <1>8, <1>17, Zenon DEF StartOrder
<1>15. {poolman, manager, listener} \subseteq ToSet(s5) /\ ToSet(s5) \subseteq Machine
  <2>1. Rx \subseteq Machine /\ Tx \subseteq Machine /\ Worker \subseteq Machine
    BY DEF Machine
  <2>. QED
    BY <1>1, <1>2, <1>12, <1>13, <2>1
<1>16. Len(s5) \in Nat \ {0} /\ s5[Len(s5)] = listener
  <2>1. /\ s4 \o l \in Seq(Machine)
        /\ Len(s4 \o l) = Len(s4) + Len(l)
        /\ \A i \in 1 .. Len(s4) + Len(l) : (s4 \o l)[i] = IF i <= Len(s4) THEN s4[i] ELSE l[i - Len(s4)]
    BY <1>3, <1>12, ConcatProperties
  <2>2. PICK n : n = Len(s4)
    OBVIOUS
  <2>3. n \in Nat
    BY <1>12, <2>2, LenProperties
  <2>4. Len(l) = 1 /\ l[1] = listener
    BY <1>17
  <2>5. /\ Len(s5) = n + 1
        /\ \A i \in 1 .. n + 1 : s5[i] = IF i <= n THEN s4[i] ELSE l[i - n]
    BY <1>8, <2>1, <2>2, <2>4
  <2>6. n + 1 \in 1 .. n + 1 /\ ~ (n + 1 <= n) /\ (n + 1) - n = 1
    BY <2>3
  <2>7. s5[n + 1] = l[1]
    BY <2>5, <2>6
  <2>. QED
    BY <2>3, <2>4, <2>5, <2>7
<1>. QED
  BY <1>13, <1>14, <1>15, <1>16

(* The first messages: M0 of every machine that was started. *)
LEMMA FirstMessages ==
  ASSUME Init, NEW q, q = queue, NEW O, O = ToSet(StartOrder)
  PROVE  /\ q \in Seq(Message) /\ IsInjective(q) /\ q # << >> /\ q[Len(q)] = Self(listener, "M0")
         /\ \A x \in ToSet(q) : \E m \in O : x = Self(m, "M0")
         /\ \A m \in O : Self(m, "M0") \in ToSet(q)
<1>1. PICK s : s = StartOrder
  OBVIOUS
<1>2. /\ s \in Seq(Machine) /\ IsInjective(s)
      /\ Len(s) \in Nat \ {0} /\ s[Len(s)] = listener
  BY <1>1, StartsInOrder
<1>3. DOMAIN s = 1 .. Len(s) /\ \A k \in 1 .. Len(s) : s[k] \in Machine
  BY <1>2, LenProperties
<1>4. q = [k \in 1 .. Len(s) |-> Self(s[k], "M0")]
  BY <1>1, <1>3 DEF Init
<1>5. PICK n \in Nat \ {0} : n = Len(s)
  BY <1>2
<1>6. \A k \in 1 .. n : Self(s[k], "M0") \in Message
  BY <1>3, <1>5, MsgType DEF Self, Code0
<1>7. /\ q \in [1 .. n -> Message] /\ DOMAIN q = 1 .. n
      /\ \A k \in 1 .. n : q[k] = Self(s[k], "M0")
  BY <1>4, <1>5, <1>6
<1>8. q \in Seq(Message) /\ Len(q) = n
  <2>1. q \in Seq(Message)
    BY <1>7
  <2>2. DOMAIN q = 1 .. Len(q) /\ Len(q) \in Nat
    BY <2>1, LenProperties
  <2>. QED
    BY <1>7, <2>1, <2>2
<1>9. IsInjective(q)
  <2>1. ASSUME NEW j \in 1 .. n, NEW k \in 1 .. n, q[j] = q[k]
        PROVE  j = k
    <3>1. Self(s[j], "M0").src = s[j] /\ Self(s[k], "M0").src = s[k]
      BY SelfFields
    <3>2. s[j] = s[k]
      BY <1>7, <2>1, <3>1
    <3>. QED
      BY <1>2, <1>3, <1>5, <3>2 DEF IsInjective
  <2>. QED
    BY <1>7, <2>1 DEF IsInjective
<1>10. q # << >> /\ q[Len(q)] = Self(listener, "M0")
  <2>1. n \in 1 .. n
    OBVIOUS
  <2>2. q # << >>
    BY <1>8, EmptySeq
  <2>. QED
    BY <1>2, <1>5, <1>7, <1>8, <2>1, <2>2
<1>11. \A k \in 1 .. n : s[k] \in O
  BY <1>1, <1>3, <1>5 DEF ToSet
<1>12. \A x \in ToSet(q) : \E m \in O : x = Self(m, "M0")
  BY <1>7, <1>11 DEF ToSet
<1>13. \A m \in O : Self(m, "M0") \in ToSet(q)
  <2>1. \A m \in O : \E k \in 1 .. n : m = s[k]
    BY <1>1, <1>3, <1>5 DEF ToSet
  <2>2. \A k \in 1 .. n : q[k] \in ToSet(q)
    BY <1>7 DEF ToSet
  <2>. QED
    BY <1>7, <2>1, <2>2
<1>. QED
  BY <1>8, <1>9, <1>10, <1>12, <1>13

(* Nothing rests before the first M0 is handled. *)
LEMMA PoolsStartEmpty ==
  ASSUME Init
  PROVE  PoolShape /\ \A x : ~ Resting(x)
<1>1. pool = [k \in Kinds |-> object_pool_init(Len(Start[k]), CapDelta[k])]
  BY DEF Init
<1>2. ASSUME NEW k \in Kinds
      PROVE  pool[k].items = << >>
  BY <1>1 DEF object_pool_init
<1>. QED
  BY <1>2, Put0 DEF PoolShape, Resting

LEMMA InitViews ==
  ASSUME Init, NEW S, NEW O \in SUBSET Machine,
         {poolman, manager, listener} \subseteq O, O = ToSet(StartOrder),
         \A x \in S : \E m \in O : x = Self(m, "M0"),
         \A m \in O : Self(m, "M0") \in S
  PROVE  Views(S)
<1>1. /\ \A m \in Machine : state[m] = IF m \in O THEN "init" ELSE "none"
      /\ \A m \in Channel : io[m] = [fd |-> NULL, watch |-> "none"]
      /\ \A m \in Timed : timer[m] = IF m = poolman THEN "armed" ELSE "off"
      /\ \A m \in Helper : job[m] = NULL
      /\ \A m \in Rx : flags[m] = {}
      /\ \A w \in Worker : wi[w] = IdleInfo
      /\ \A c \in Client : net[c].conn = "new"
  BY DEF Init, Helper
<1>2. \A x : ~ Resting(x)
  BY PoolsStartEmpty
<1>3. \A x \in S : /\ x.src \in O /\ x.src = x.dst /\ x = Self(x.dst, "M0") /\ x.code = "M0"
                   /\ x.ptr = NULL /\ x.src # NULL
  BY SelfFields, Kinships
<1>4. \A x \in S : Shape(x) /\ ~ IsEvent(x) /\ ~ IsIoEvent(x)
  BY <1>3 DEF Shape, CallShape, IsEvent, IsIoEvent
<1>5. IoOnce(S) /\ EarlyOnly(S)
  BY <1>4 DEF IoOnce, EarlyOnly
<1>6. ASSUME NEW n \in Helper
      PROVE  HelperView(n, S) /\ LinkView(n)
  <2>1. n \in Machine /\ n \in Channel
    BY Kinships
  <2>2. io[n].fd = NULL /\ io[n].watch = "none" /\ job[n] = NULL
    BY <1>1, <2>1
  <2>3. \A x \in S : ~ IsEvent(x)
    BY <1>4
  <2>4. CASE n \in O
    <3>1. state[n] = "init"
      BY <1>1, <2>1, <2>4
    <3>2. OnlyCall(n, Self(n, "M0"), S)
      BY <1>3, <2>4 DEF OnlyCall
    <3>. QED
      BY <1>2, <2>2, <2>3, <3>1, <3>2 DEF HelperView, LinkView
  <2>5. CASE n \notin O
    <3>1. state[n] = "none"
      BY <1>1, <2>1, <2>5
    <3>2. NoCall(n, S)
      BY <1>3, <2>5 DEF NoCall
    <3>. QED
      BY <1>2, <2>2, <2>3, <3>1, <3>2 DEF HelperView, LinkView
  <2>. QED
    BY <2>4, <2>5
<1>7. ASSUME NEW n \in Rx
      PROVE  RxView(n, S)
  <2>1. flags[n] = {} /\ timer[n] = "off"
    BY <1>1, Kinships
  <2>. QED
    BY <1>3, <1>4, <2>1 DEF RxView
<1>8. \A n \in Tx : TxView(n, S)
  BY <1>4 DEF TxView
<1>9. ASSUME NEW w \in Worker
      PROVE  WorkerView(w, S)
  <2>1. w \in Machine /\ w \notin Helper /\ wi[w].ci = NULL
    BY <1>1, IdleInfoType, Kinships
  <2>2. NoAsk(w, S)
    BY <1>3, <2>1 DEF NoAsk
  <2>3. CASE w \in O
    <3>1. state[w] = "init"
      BY <1>1, <2>1, <2>3
    <3>2. OnlyCall(w, Self(w, "M0"), S)
      BY <1>3, <2>3 DEF OnlyCall
    <3>. QED
      BY <1>2, <2>1, <2>2, <3>1, <3>2 DEF WorkerView
  <2>4. CASE w \notin O
    <3>1. state[w] = "none"
      BY <1>1, <2>1, <2>4
    <3>2. NoCall(w, S)
      BY <1>3, <2>4 DEF NoCall
    <3>. QED
      BY <1>2, <2>1, <2>2, <3>1, <3>2 DEF WorkerView
  <2>. QED
    BY <2>3, <2>4
<1>10. ASSUME NEW c \in Client
       PROVE  ClientView(c, S)
  <2>1. c # NULL /\ \A w \in Worker : wi[w].ci # c
    BY <1>1, IdleInfoType, Kinships
  <2>2. \A x \in S : x.ptr # c
    BY <1>3, <2>1
  <2>3. net[c].conn = "new"
    BY <1>1
  <2>. QED
    BY <2>1, <2>2, <2>3 DEF ClientView, Serves
<1>11. SingleView(S)
  <2>1. \A m \in {poolman, manager, listener} : state[m] = "init" /\ Self(m, "M0") \in S
    BY <1>1, Kinships
  <2>2. ~ Started
    BY <2>1 DEF Started
  <2>3. io[listener] = [fd |-> NULL, watch |-> "none"]
    BY <1>1, Kinships
  <2>4. \A x \in S : \E m \in Machine : x = Self(m, "M0") /\ state[m] = "init"
    BY <1>1
  <2>. QED
    BY <2>1, <2>2, <2>3, <2>4 DEF SingleView
<1>. QED
  BY <1>4, <1>5, <1>6, <1>7, <1>8, <1>9, <1>10, <1>11 DEF Views

LEMMA InitServer ==
  ASSUME Init
  PROVE  ServerInv
<1>1. PICK q : q = queue
  OBVIOUS
<1>2. PICK O : O = ToSet(StartOrder)
  OBVIOUS
<1>3. O \in SUBSET Machine /\ {poolman, manager, listener} \subseteq O
  BY <1>2, StartsInOrder
<1>4. /\ q \in Seq(Message) /\ IsInjective(q) /\ q # << >> /\ q[Len(q)] = Self(listener, "M0")
      /\ \A x \in ToSet(q) : \E m \in O : x = Self(m, "M0")
      /\ \A m \in O : Self(m, "M0") \in ToSet(q)
  BY <1>1, <1>2, FirstMessages
<1>5. PICK S : S = ToSet(q)
  OBVIOUS
<1>6. Views(S)
  BY <1>2, <1>3, <1>4, <1>5, InitViews
<1>7. \A x \in S : x.src \in O /\ x.src = x.dst /\ ~ IsEvent(x)
  BY <1>3, <1>4, <1>5, SelfFields, Kinships DEF IsEvent
<1>8. state = [m \in Machine |-> IF m \in O THEN "init" ELSE "none"]
  BY <1>2 DEF Init
<1>9. InStep(q)
  <2>1. \A k \in DOMAIN q : q[k] \in S
    BY <1>5 DEF ToSet
  <2>2. EventsFirst(q)
    BY <1>7, <2>1 DEF EventsFirst
  <2>3. FinishFirst(q)
    BY <1>8, Kinships DEF FinishFirst
  <2>4. ListenerLast(q)
    BY <1>4 DEF ListenerLast
  <2>. QED
    BY <1>4, <1>5, <1>6, <2>2, <2>3, <2>4 DEF InStep
<1>10. Alive
  BY <1>1, <1>3, <1>5, <1>7, <1>8, PoolsStartEmpty DEF Alive
<1>11. StaysInStep
  <2>1. \A x \in S : Shape(x)
    BY <1>6, ViewsMean
  <2>. QED
    BY <1>1, <1>4, <1>5, <1>9, <1>10, <2>1 DEF StaysInStep, InStep
<1>12. Typed
  <2>1. queue \in Seq(Message)
    BY <1>1, <1>4
  <2>2. state \in [Machine -> {"none", "init", "idle", "work", "getp", "ackp"}]
    BY <1>8
  <2>3. io \in [Channel -> IoChannel]
    BY DEF Init, IoChannel
  <2>4. timer \in [Timed -> {"off", "armed", "expired"}] /\ sig \subseteq Signals
    BY DEF Init
  <2>5. job \in [Helper -> Worker \cup {NULL}] /\ flags \in [Rx -> SUBSET {HAVE_T0, HAVE_D2}]
    BY DEF Init, Helper
  <2>6. wi \in [Worker -> Info]
    BY IdleInfoType DEF Init
  <2>7. net \in [Client -> Connection] /\ \A c \in Client : net[c].nread <= Len(net[c].sent)
    <3>1. PICK r : r = [conn |-> "new", peer |-> "up", sent |-> << >>,
                        nread |-> 0, echoed |-> << >>, full |-> FALSE]
      OBVIOUS
    <3>2. r \in Connection /\ r.nread <= Len(r.sent)
      BY <3>1 DEF Connection
    <3>3. net = [c \in Client |-> r]
      BY <3>1, Zenon DEF Init
    <3>. QED
      BY <3>2, <3>3
  <2>. QED
    BY <2>1, <2>2, <2>3, <2>4, <2>5, <2>6, <2>7 DEF Typed
<1>13. fate = "running"
  BY DEF Init
<1>. QED
  BY <1>11, <1>12, <1>13, PoolsStartEmpty DEF ServerInv

-----------------------------------------------------------------------------
(* In every reachable state, every message that is queued, and every event  *)
(* the kernel holds ready, is one its machine awaits in its state, and what *)
(* a machine awaits is on its way: the handlers, the order in which the     *)
(* dispatcher runs them, the wait for events and the world see to it.       *)
THEOREM MachinesStayInStep == Spec => []ServerInv
<1>1. Init => ServerInv
  BY InitServer
<1>2. ServerInv /\ PoolInv /\ [Next]_vars => ServerInv'
  <2>. SUFFICES ASSUME ServerInv, PoolInv, [Next]_vars PROVE ServerInv'
    OBVIOUS
  <2>1. CASE Exec
    BY <2>1, ExecKeeps
  <2>2. CASE Wait
    BY <2>2, WaitServer
  <2>3. CASE World
    BY <2>3, WorldServer
  <2>4. CASE UNCHANGED vars
    <3>1. UNCHANGED <<fate, queue, state, io, timer, sig, pool, job, flags, wi, net>>
      BY <2>4 DEF vars
    <3>2. StaysInStep'
      BY <3>1, StaysPut DEF ServerInv
    <3>3. Typed' /\ PoolShape'
      BY <3>1, PoolSame DEF ServerInv, Typed
    <3>. QED
      BY <3>1, <3>2, <3>3 DEF ServerInv
  <2>. QED
    BY <2>1, <2>2, <2>3, <2>4 DEF Next, Ended
<1>. QED
  BY <1>1, <1>2, PoolsSound, PTL DEF Spec
=============================================================================
