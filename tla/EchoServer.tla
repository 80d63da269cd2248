----------------------------- MODULE EchoServer -----------------------------
(***************************************************************************)
(* The echo server: the machines of echo-server/state-machines on one      *)
(* engine, from the return of start_machines() on.                         *)
(***************************************************************************)
EXTENDS Rx, Tx, WorkerMachine, Manager, Listener, Poolman

(* The machines in the order in which start_machines() runs them; the       *)
(* init_enter of each puts M0 to itself.                                    *)
StartOrder ==
  <<poolman>> \o StartRx \o StartTx \o <<manager>> \o StartWorker \o <<listener>>

Init ==
  /\ queue = [k \in DOMAIN StartOrder |-> Self(StartOrder[k], "M0")]
  /\ fate = "running"
  /\ state = [m \in Machine |-> IF m \in ToSet(StartOrder) THEN "init" ELSE "none"]
  /\ io = [m \in Channel |-> [fd |-> NULL, watch |-> "none"]]
  /\ timer = [m \in Timed |-> IF m = poolman THEN "armed" ELSE "off"]
  /\ sig = {}
  /\ pool = [k \in Kinds |-> object_pool_init(Len(Start[k]), CapDelta[k])]
  /\ job = [m \in Rx \cup Tx |-> NULL]
  /\ flags = [m \in Rx |-> {}]
  /\ wi = [w \in Worker |-> IdleInfo]
  /\ net = [c \in Client |-> [conn |-> "new", peer |-> "up", sent |-> << >>,
                              nread |-> 0, echoed |-> << >>, full |-> FALSE]]

(* edsm__process_messages: the message at the head of the queue is handled. *)
Exec == RxExec \/ TxExec \/ WorkerExec \/ ManagerExec \/ ListenerExec \/ PoolmanExec

(* The process has ended. *)
Ended == fate # "running" /\ UNCHANGED vars

Next == Exec \/ Wait \/ World \/ Ended

Spec == Init /\ [][Next]_vars

-----------------------------------------------------------------------------

ChunkOf(c) == [peer : {c}, seqn : Nat]
Buffers(S) == \A k \in DOMAIN S : \E c \in Client : S[k] \in ChunkOf(c)

(* What the void *ptr of a message points to, by who sends it to whom: the  *)
(* handlers cast it without a check.                                        *)
Pointees(src, dst) ==
  IF src = NULL \/ src = dst THEN {NULL}
  ELSE IF src \in Rx \cup Tx THEN {NULL}            \* an answer to a worker
  ELSE IF dst \in Rx \cup Tx THEN {src}             \* io_context of a worker
  ELSE Client                                       \* client_info

(* Every variable has its type; the pointers in messages are what their     *)
(* receivers take them for.                                                 *)
TypeOK ==
  /\ \A k \in DOMAIN queue :
       /\ queue[k].src \in Machine \cup {NULL}
       /\ queue[k].dst \in Machine
       /\ queue[k].ptr \in Pointees(queue[k].src, queue[k].dst)
  /\ state \in [Machine -> {"none", "init", "idle", "work", "getp", "ackp"}]
  /\ io \in [Channel -> [fd : Client \cup {NULL, ListenSocket},
                         watch : {"none", "POLLIN", "POLLOUT", "POLLHUP"}]]
  /\ timer \in [Timed -> {"off", "armed", "expired"}]
  /\ sig \subseteq Signals
  /\ job \in [Rx \cup Tx -> Worker \cup {NULL}]
  /\ flags \in [Rx -> SUBSET {HAVE_T0, HAVE_D2}]
  /\ \A w \in Worker :
       /\ wi[w].ci \in Client \cup {NULL}
       /\ wi[w].fd \in Client \cup {NULL}
       /\ wi[w].buf \in {"ibuf", "obuf"}
       /\ Buffers(wi[w].ibuf) /\ Buffers(wi[w].obuf) /\ Buffers(wi[w].unsent)
  /\ \A c \in Client :
       /\ net[c].conn \in {"new", "backlog", "open", "closed"}
       /\ net[c].peer \in {"up", "fin", "rst"}
       /\ net[c].sent \in Seq(BOOLEAN)
       /\ net[c].nread \in 0 .. Len(net[c].sent)
       /\ Buffers(net[c].echoed)

(* All machines have been started, the pools have been filled. *)
Started == state[listener] = "work"

Pending(m) == {k \in DOMAIN queue : queue[k].dst = m}

(* The reflexes of the .smd files: which machine takes what in which state. *)
Reflexes ==
  [rx |-> rx_smd, tx |-> tx_smd, worker |-> worker_smd,
   manager |-> manager_smd, listener |-> listener_smd, poolman |-> poolman_smd]

(* No message meets its machine in a state without a reflex for it, where   *)
(* __edsm_dispatch_message would drop it: whatever the order of events, the *)
(* machines never get out of step.  (Hence dropping is no action.)          *)
NoMessageDropped ==
  fate = "running" /\ queue # << >> =>
    LET msg == Head(queue) IN <<state[msg.dst], Code(msg)>> \in Reflexes[Kind(msg.dst)]

(* No pending message comes from or goes to a machine the poolman deleted:  *)
(* its memory is free.                                                      *)
NoDanglingMessage ==
  \A k \in DOMAIN queue :
    /\ state[queue[k].dst] # "none"
    /\ queue[k].src # NULL => state[queue[k].src] # "none"

(* An rx machine that answered its worker twice: a second M0 is coming, in  *)
(* idle, and will end the program (see the run echo_race).                  *)
DoneTwice ==
  \E m \in Rx : \E k \in Pending(m) :
    /\ queue[k] = Self(m, "M0")
    /\ \/ state[m] = "idle" /\ io[m].fd = NULL
       \/ state[m] = "work" /\ \E j \in Pending(m) : j # k /\ queue[j] = queue[k]

(* Something is coming for machine m: a message, an event of its channel,   *)
(* or the answer of the machine that works, or was asked to work, for it.   *)
IsAwaited(m) ==
  \/ Pending(m) # {}
  \/ m \in Channel /\ io[m].watch \in {"POLLIN", "POLLOUT"}
  \/ \E n \in Rx \cup Tx : job[n] = m
  \/ \E k \in DOMAIN queue : queue[k].ptr = m

(* The machines of a pool and the machines at work are told apart rightly:  *)
(* a machine rests in its pool, once, exactly when nothing is coming for it.*)
(* So none is lost, none is handed out twice, and none is deleted at work.  *)
PooledIffQuiet ==
  fate = "running" /\ ~ DoneTwice =>
    \A k \in Kinds :
      /\ IsInjective(pool[k].items)
      /\ \A m \in Members[k] :
           state[m] # "none" => ((m \in ToSet(pool[k].items)) # IsAwaited(m))
      /\ \A m \in ToSet(pool[k].items) : state[m] = "idle"

(* The pool never holds more than its array has room for, and a shrink      *)
(* leaves room for one machine at least.                                    *)
PoolFits == \A k \in Kinds : avail(pool[k]) <= pool[k].capacity /\ pool[k].capacity > 0

(* A socket is in the hands of one rx or tx machine at a time, which works  *)
(* for the worker that serves this client, and only as long as it is open:  *)
(* the fd is given back before the next machine takes it, and before the    *)
(* listener closes it and the number is used again.                         *)
FdExclusive ==
  \A m \in Rx \cup Tx : io[m].fd # NULL =>
    LET c == io[m].fd
        w == job[m]
    IN  /\ net[c].conn = "open"
        /\ w # NULL /\ wi[w].ci = c
        /\ state[w] = IF m \in Rx THEN "getp" ELSE "ackp"
        /\ \A n \in (Rx \cup Tx) \ {m} : io[n].fd # c

(* Who has the client_info of c: a message that carries it, or the worker   *)
(* that serves c and has not given it up.                                   *)
Holders(c) ==
  {k \in DOMAIN queue : queue[k].ptr = c}
  \cup {w \in Worker : wi[w].ci = c /\ Self(w, "M3") \notin ToSet(queue)}

(* Every open connection has exactly one holder, and no other has any: no   *)
(* socket leaks and none is closed twice (see DoneTwice).                   *)
ClientHasOneHolder ==
  fate = "running" /\ ~ DoneTwice =>
    \A c \in Client : Cardinality(Holders(c)) = IF net[c].conn = "open" THEN 1 ELSE 0

(* Of the assertions of the engine and the machines, those that never fail: *)
(* attach of an attached fd, a client without info, close of a closed       *)
(* socket, reading a tick that was taken back.  (A broken pipe is none.)    *)
AssertionsHold ==
  fate \in {"running", "stopped", "broken pipe", "no fd attached", "no machine to delete"}

(* The queue never holds more messages than were put before the first was   *)
(* got, or three times the events of one wait.  With the numbers of the     *)
(* program, 163 and 96: the ring of 128 slots is doubled once, at the start,*)
(* when it is not wrapped, and is never full again, which is the discipline *)
(* of MessageBuffer.                                                        *)
QueueBound ==
  Len(queue) <= IF Started THEN 3 * MaxEvents ELSE Len(StartOrder)

(* Every client is served as EchoService promises. *)
Service ==
  INSTANCE EchoService WITH
    conn <- [c \in Client |-> net[c].conn],
    sent <- [c \in Client |-> net[c].sent],
    echoed <- [c \in Client |-> net[c].echoed]

ImplementsEchoService == Service!Spec

-----------------------------------------------------------------------------
(* Claims of the code that do not hold *)

(* io_enable() is only called with an fd attached, as edsm__io_enable       *)
(* asserts.                                                                 *)
FdAttachedWhenEnabled == fate # "no fd attached"

(* A pool whose low water mark is above capdelta has capdelta machines to   *)
(* delete.                                                                  *)
EnoughMachinesToDelete == fate # "no machine to delete"

-----------------------------------------------------------------------------
(* The loop goes on, expired timeouts come, and peers read their echo: the  *)
(* tx machines have no timeout and wait for that.                           *)
Fairness ==
  /\ WF_vars(Exec)
  /\ WF_vars(Wait)
  /\ \A m \in Rx : WF_vars(TimerExpires(m))
  /\ \A c \in Client : WF_vars(PeerReads(c))

FairSpec == Spec /\ Fairness

(* A client that was accepted is seen off in the end (it sends no more than *)
(* MaxSends chunks): it is never forgotten while its socket is open.        *)
EveryClientIsSeenOff ==
  \A c \in Client : net[c].conn = "open" ~> (net[c].conn = "closed" \/ fate # "running")

=============================================================================
