---------------------------- MODULE EchoProtocol ----------------------------
(***************************************************************************)
(* Why the machines of the echo server stay in step: what each of them and *)
(* each client may expect of the pending messages, given its state.  The   *)
(* inductive invariant of the server, proved in EchoProtocolProofs.        *)
(*                                                                         *)
(* A clause that speaks of messages takes their set S as a parameter, or   *)
(* their sequence q where the order matters: when an rx machine has been   *)
(* done twice, the invariant holds of the queue without the second answer  *)
(* (see Ruined).                                                           *)
(***************************************************************************)
EXTENDS EchoServer

(* The machines that work for a worker, what state it waits for them in,    *)
(* and what they wait for.                                                  *)
Helper == Rx \cup Tx
Task(n) == IF n \in Rx THEN "getp" ELSE "ackp"
What(n) == IF n \in Rx THEN "POLLIN" ELSE "POLLOUT"

Code0 == {"POLLIN", "POLLOUT", "POLLHUP", "T0", "M0", "M1", "M2", "M3", "S0", "S1"}
Message == [src : Machine \cup {NULL}, dst : Machine,
            ptr : Machine \cup Client \cup {NULL}, code : Code0]

(* Events come from outside. *)
IsEvent(x) == x.src = NULL

(* m rests in a pool. *)
Resting(m) == \E k \in Kinds : m \in ToSet(pool[k].items)

-----------------------------------------------------------------------------
(* What messages there are. *)

EventShape(x) ==
  /\ x.ptr = NULL
  /\ \/ x.dst \in Rx /\ x.code \in {"POLLIN", "POLLHUP", "T0"}
     \/ x.dst \in Tx /\ x.code \in {"POLLOUT", "POLLHUP"}
     \/ x.dst = listener /\ x.code = "POLLIN"
     \/ x.dst = poolman /\ x.code = "T0"
     \/ x.dst = manager /\ x.code \in Signals

CallShape(x) ==
  \/ \E m \in Machine : x = Self(m, "M0")
  \/ \E w \in Worker : x = Self(w, "M3")
  \/ \E w \in Worker, n \in Helper : x = Msg(w, n, w, "M1")
  \/ \E w \in Worker, n \in Helper, a \in {"M1", "M2"} : x = Msg(n, w, NULL, a)
  \/ \E w \in Worker, c \in Client : x = Msg(w, manager, c, "M1")
  \/ \E w \in Worker, c \in Client : x = Msg(manager, w, c, "M1")
  \/ \E c \in Client : x = Msg(manager, listener, c, "M0")
  \/ \E c \in Client : x = Msg(listener, manager, c, "M0")

Shape(x) == IF IsEvent(x) THEN EventShape(x) ELSE CallShape(x)

(* epoll reports a channel once. *)
IoOnce(S) ==
  \A x, y \in S : IsIoEvent(x) /\ IsIoEvent(y) /\ x.dst = y.dst => x = y

(* Messages events cause at once.  While events are pending there are no    *)
(* others.                                                                  *)
Early(x) == x.src \in {NULL, listener} \cup Helper

EarlyOnly(S) ==
  (\E e \in S : IsEvent(e)) =>
     \A x \in S : Early(x) /\ (x.src \in Helper => state[x.src] = "work")

(* Machine m is called by nobody, or by y alone. *)
NoCall(m, S) == \A x \in S : x.dst = m => IsEvent(x)
OnlyCall(m, y, S) == y \in S /\ \A x \in S : x.dst = m => IsEvent(x) \/ x = y

(* Worker w asks no helper, or with y alone. *)
NoAsk(w, S) == \A x \in S : x.src = w => x.dst \notin Helper
OnlyAsk(w, y, S) == y \in S /\ \A x \in S : x.src = w /\ x.dst \in Helper => x = y

(* No helper has the socket for w, or n alone. *)
NoHelp(w) == \A n \in Helper : job[n] = w => io[n].fd = NULL
OnlyHelp(w, n) ==
  /\ job[n] = w /\ io[n].fd = wi[w].ci
  /\ \A p \in Helper : job[p] = w /\ io[p].fd # NULL => p = n

-----------------------------------------------------------------------------
(* What a helper, a worker, a client may count on. *)

HelperView(n, S) ==
  /\ state[n] \in {"none", "init", "idle", "work"}
  /\ state[n] = "none" => ~ Resting(n) /\ io[n].fd = NULL /\ NoCall(n, S)
  /\ state[n] = "init" => ~ Resting(n) /\ io[n].fd = NULL /\ OnlyCall(n, Self(n, "M0"), S)
  /\ state[n] = "idle" =>
       \/ Resting(n) /\ io[n].fd = NULL /\ NoCall(n, S)
       \/ /\ ~ Resting(n) /\ io[n].fd = NULL
          /\ \E w \in Worker : OnlyCall(n, Msg(w, n, w, "M1"), S)
       \/ ~ Resting(n) /\ io[n].fd # NULL /\ OnlyCall(n, Self(n, "M0"), S)
  /\ state[n] = "work" =>
       /\ ~ Resting(n)
       /\ \/ /\ io[n].fd # NULL /\ NoCall(n, S)
             /\ io[n].watch = What(n) \/ \E x \in S : x.dst = n /\ IsIoEvent(x)
          \/ io[n].fd = NULL /\ OnlyCall(n, Self(n, "M0"), S)
  /\ io[n].fd = NULL => io[n].watch = "none"
  /\ io[n].watch \in {"none", "POLLHUP", What(n)}
  /\ \A x \in S : x.dst = n /\ IsEvent(x) => state[n] = "work"

(* A helper has a job from its M1 to its M0, and its worker waits. *)
LinkView(n) ==
  /\ job[n] # NULL <=> state[n] = "work" \/ io[n].fd # NULL
  /\ job[n] # NULL => state[job[n]] = Task(n)
  /\ io[n].fd # NULL => io[n].fd = wi[job[n]].ci

(* A pending timeout is there to be read.  A hang-up that is found out      *)
(* about after the socket was given back follows a timeout.                 *)
RxView(n, S) ==
  /\ flags[n] # {} => state[n] = "work" /\ io[n].fd = NULL
  /\ timer[n] # "off" => state[n] = "work"
  /\ \A x \in S : x.dst = n /\ x.code = "T0" => timer[n] = "expired"
  /\ \A x \in S : x.dst = n /\ IsIoEvent(x) /\ io[n].fd = NULL => HAVE_T0 \in flags[n]

TxView(n, S) == \A x \in S : x.dst = n /\ IsEvent(x) => io[n].fd # NULL

(* A worker at work waits for one thing. *)
Asking(w, S) ==
  /\ NoCall(w, S) /\ NoHelp(w)
  /\ wi[w].fd = wi[w].ci
  /\ \E n \in Helper : Task(n) = state[w] /\ OnlyAsk(w, Msg(w, n, w, "M1"), S)

Helped(w, S) ==
  /\ NoCall(w, S) /\ NoAsk(w, S)
  /\ \E n \in Helper : Task(n) = state[w] /\ OnlyHelp(w, n)

Answered(w, S) ==
  /\ NoAsk(w, S) /\ NoHelp(w)
  /\ \E n \in Helper, a \in {"M1", "M2"} :
       Task(n) = state[w] /\ OnlyCall(w, Msg(n, w, NULL, a), S)

GoingOn(w, S) ==
  /\ NoAsk(w, S) /\ NoHelp(w)
  /\ \E a \in {"M0", "M3"} : OnlyCall(w, Self(w, a), S)

WorkerView(w, S) ==
  /\ state[w] \in {"none", "init", "idle", "getp", "ackp"}
  /\ state[w] = "none" => ~ Resting(w) /\ wi[w].ci = NULL /\ NoAsk(w, S) /\ NoCall(w, S)
  /\ state[w] = "init" =>
       ~ Resting(w) /\ wi[w].ci = NULL /\ NoAsk(w, S) /\ OnlyCall(w, Self(w, "M0"), S)
  /\ state[w] = "idle" =>
       /\ NoAsk(w, S)
       /\ \/ Resting(w) /\ wi[w].ci = NULL /\ NoCall(w, S)
          \/ /\ ~ Resting(w) /\ wi[w].ci = NULL
             /\ \E c \in Client : OnlyCall(w, Msg(manager, w, c, "M1"), S)
          \/ ~ Resting(w) /\ wi[w].ci \in Client /\ OnlyCall(w, Self(w, "M0"), S)
  /\ state[w] \in {"getp", "ackp"} =>
       /\ ~ Resting(w) /\ wi[w].ci \in Client
       /\ Asking(w, S) \/ Helped(w, S) \/ Answered(w, S) \/ GoingOn(w, S)

(* Worker w serves client c, and has not given it up. *)
Serves(w, c, S) == wi[w].ci = c /\ Self(w, "M3") \notin S

ClientView(c, S) ==
  /\ \A x, y \in S : x.ptr = c /\ y.ptr = c => x = y
  /\ \A v, w \in Worker : wi[v].ci = c /\ wi[w].ci = c => v = w
  /\ \A w \in Worker : wi[w].ci = c => net[c].conn \in {"open", "closed"}
  /\ \A w \in Worker : Serves(w, c, S) => net[c].conn = "open"
  /\ \A x \in S : x.ptr = c =>
       /\ net[c].conn = "open"
       /\ \A w \in Worker : wi[w].ci = c =>
            Self(w, "M3") \in S /\ x.src # listener /\ x.dst \notin Worker
  /\ net[c].conn = "open" =>
       (\E x \in S : x.ptr = c) \/ (\E w \in Worker : Serves(w, c, S))

(* The machines there is one of run when the listener does. *)
SingleView(S) ==
  /\ \A m \in {poolman, manager, listener} :
       \/ state[m] = "init" /\ Self(m, "M0") \in S
       \/ state[m] = "work" /\ Self(m, "M0") \notin S
  /\ Started => state[manager] = "work" /\ state[poolman] = "work"
  /\ ~ Started => \A x \in S : \E m \in Machine : x = Self(m, "M0") /\ state[m] = "init"
  /\ io[listener] = IF Started THEN [fd |-> ListenSocket, watch |-> "POLLIN"]
                               ELSE [fd |-> NULL, watch |-> "none"]

Views(S) ==
  /\ \A x \in S : Shape(x)
  /\ IoOnce(S)
  /\ EarlyOnly(S)
  /\ \A n \in Helper : HelperView(n, S) /\ LinkView(n)
  /\ \A n \in Rx : RxView(n, S)
  /\ \A n \in Tx : TxView(n, S)
  /\ \A w \in Worker : WorkerView(w, S)
  /\ \A c \in Client : ClientView(c, S)
  /\ SingleView(S)

-----------------------------------------------------------------------------
(* In what order messages are. *)

(* Events are put when the queue is empty. *)
EventsFirst(q) ==
  \A j, k \in DOMAIN q : j < k /\ IsEvent(q[k]) => IsEvent(q[j])

(* A helper that gave its socket back is idle before its worker goes on. *)
FinishFirst(q) ==
  \A n \in Helper : state[n] = "work" /\ io[n].fd = NULL =>
    \A j, k \in DOMAIN q :
      q[j] = Self(n, "M0") /\ q[k].dst = job[n] /\ q[k].src = job[n] => j < k

(* The listener starts last. *)
ListenerLast(q) == ~ Started => q # << >> /\ q[Len(q)] = Self(listener, "M0")

InStep(q) ==
  /\ IsInjective(q)
  /\ EventsFirst(q) /\ FinishFirst(q) /\ ListenerLast(q)
  /\ Views(ToSet(q))

-----------------------------------------------------------------------------
(* An rx machine that has read a line and then takes its timeout, of the    *)
(* same batch of events, for one without a line, answers twice.  The queue  *)
(* without the second answer is still in step; of what comes after that     *)
(* answer nothing is dispatched before the program ends.                    *)

(* The messages q are in step.  What is pending: those in front of the      *)
(* second answer of m to w, and whatever is behind it.                      *)
AnsweredAgain(m, q) ==
  \E w \in Worker, live, after, more \in Seq(Message) :
    /\ q = live \o after /\ queue = live \o more
    /\ Len(more) >= 2 /\ more[1] = Msg(m, w, NULL, "M2") /\ more[2] = Self(m, "M0")
    /\ \A x \in ToSet(live) : Early(x)
    /\ state[w] = "getp"
    /\ \/ state[m] = "work" /\ Self(m, "M0") \in ToSet(live)
       \/ state[m] = "idle" /\ io[m].fd = NULL /\ \A x \in ToSet(queue) : ~ IsEvent(x)

(* m goes on, with no socket attached. *)
AtTheEnd(m) ==
  queue # << >> /\ Head(queue) = Self(m, "M0") /\ state[m] = "idle" /\ io[m].fd = NULL

Ruined(q) == \E m \in Rx : AnsweredAgain(m, q) \/ AtTheEnd(m)

(* Who sent a message, and who will get it, is there.                       *)
Alive ==
  \A x \in ToSet(queue) :
    /\ state[x.dst] # "none" /\ (x.src # NULL => state[x.src] # "none")
    /\ (\E e \in ToSet(queue) : IsEvent(e)) => ~ Resting(x.dst) /\ ~ Resting(x.src)

StaysInStep ==
  /\ \A x \in ToSet(queue) : Shape(x)
  /\ EventsFirst(queue)
  /\ Alive
  /\ \E q \in Seq(Message) : InStep(q) /\ (q = queue \/ Ruined(q))

-----------------------------------------------------------------------------
(* Where the chunks are that were read and are not echoed yet.              *)

Chunks(c, after, n) == [k \in 1 .. n |-> [peer |-> c, seqn |-> after + k]]

Owed(c) == Chunks(c, Len(net[c].echoed), net[c].nread - Len(net[c].echoed))
Settled(c) == net[c].nread = Len(net[c].echoed)

(* The buffer holds what is owed, and c has sent a line. *)
SaidLine(c) == \E k \in DOMAIN net[c].sent : net[c].sent[k]
Line(c, buffer) == buffer = Owed(c) /\ SaidLine(c)

(* What worker w and those that help it have in their hands: a message that *)
(* asks for, or tells of, data means them, and so does an attached socket.  *)
Carries(w, S) ==
  LET c == wi[w].ci IN
  /\ \A n \in Rx :
       Msg(w, n, w, "M1") \in S => wi[w].buf = "ibuf" /\ Settled(c)
  /\ \A n \in Rx :
       job[n] = w /\ io[n].fd # NULL => wi[w].buf = "ibuf" /\ wi[w].ibuf = Owed(c)
  /\ (\E n \in Rx : Msg(n, w, NULL, "M1") \in S) => Line(c, wi[w].ibuf)
  /\ state[w] = "getp" /\ Self(w, "M0") \in S => Line(c, wi[w].ibuf)
  /\ \A n \in Tx :
       Msg(w, n, w, "M1") \in S => wi[w].buf = "obuf" /\ Line(c, wi[w].obuf)
  /\ \A n \in Tx :
       job[n] = w /\ io[n].fd # NULL =>
         IF state[n] = "work" THEN Line(c, wi[w].unsent)
                              ELSE wi[w].buf = "obuf" /\ Line(c, wi[w].obuf)
  /\ (\E n \in Tx : Msg(n, w, NULL, "M1") \in S) => Settled(c)
  /\ state[w] \in {"idle", "ackp"} /\ Self(w, "M0") \in S => Settled(c)

(* From a client on its way to a worker nothing was read. *)
Unheard(x) == x.ptr \in Client /\ (x.src = listener \/ x.dst \in Worker)
NothingRead(S) == \A x \in S : Unheard(x) => net[x.ptr].nread = 0

EchoedInOrder ==
  \A c \in Client :
    /\ net[c].echoed = Chunks(c, 0, Len(net[c].echoed))
    /\ Len(net[c].echoed) <= net[c].nread
    /\ net[c].conn \in {"new", "backlog"} => net[c].nread = 0

InHands(S) ==
  /\ \A w \in Worker : wi[w].ci # NULL => Carries(w, S)
  /\ NothingRead(S)

(* After a second answer messages are not to be trusted. *)
DataInv == EchoedInOrder /\ InHands(IF DoneTwice THEN {} ELSE ToSet(queue))

=============================================================================
