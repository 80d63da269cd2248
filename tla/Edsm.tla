-------------------------------- MODULE Edsm --------------------------------
(***************************************************************************)
(* The ground the state machines of the echo server stand on: the engine's *)
(* one message queue, its dispatcher, the i/o channels, timers and signals *)
(* epoll watches, the pools the machines rest in, and the sockets.         *)
(*                                                                         *)
(* The program is one thread.  main_loop() runs exec(), which dispatches   *)
(* messages until the queue is empty, then wait(), which blocks in         *)
(* epoll_wait() and puts a message for every event reported.  A step of    *)
(* the model dispatches one message (one action per handler, in the        *)
(* modules that extend this one), waits once, or lets the world move.      *)
(*                                                                         *)
(* malloc() and realloc() are taken to succeed.                            *)
(***************************************************************************)
EXTENDS SequencesExt, ObjectPool

CONSTANTS
  Rx, Tx, Worker,                 \* machines of the three pooled kinds
  StartRx, StartTx, StartWorker,  \* those main() creates, in order
  CapDelta,                       \* capdelta of the three pools
  poolman, manager, listener,     \* the machines there is one of
  Client,                         \* the peers; also names a peer's socket
  NULL,
  MaxEvents,                      \* MAX_EVENTS of one epoll_wait()
  Signals,                        \* the signals the manager may get
  MaxSends                        \* BOUND: chunks a peer sends

ASSUME BoundsAssumption == MaxEvents \in Nat \ {0} /\ MaxSends \in Nat

Kinds == {"rx", "tx", "worker"}
Start == [rx |-> StartRx, tx |-> StartTx, worker |-> StartWorker]
Members == [rx |-> Rx, tx |-> Tx, worker |-> Worker]

ASSUME PopulationAssumption ==
  \A k \in Kinds :
    /\ Start[k] \in Seq(Members[k]) \ {<< >>}
    /\ IsInjective(Start[k])
    /\ CapDelta[k] \in Nat \ {0}

Machine == Rx \cup Tx \cup Worker \cup {poolman, manager, listener}

(* Objects of different kinds are different, and there are finitely many.   *)
(* The manager may have SIGINT and SIGTERM.                                 *)
ASSUME NamesAssumption ==
  /\ Rx \cap Tx = {} /\ (Rx \cup Tx) \cap Worker = {}
  /\ {poolman, manager, listener} \cap (Rx \cup Tx \cup Worker) = {}
  /\ poolman # manager /\ poolman # listener /\ manager # listener
  /\ Client \cap Machine = {} /\ NULL \notin Machine \cup Client
  /\ IsFiniteSet(Machine)
  /\ Signals \subseteq {"S0", "S1"}

Channel == Rx \cup Tx \cup {listener}   \* machines with an i/o channel
Timed == Rx \cup {poolman}              \* machines with a timer 0

(* The template a machine is created from; also names its pool. *)
Kind(m) ==
  CASE m \in Rx -> "rx" [] m \in Tx -> "tx" [] m \in Worker -> "worker"
    [] m = poolman -> "poolman" [] m = manager -> "manager" [] m = listener -> "listener"

ListenSocket == listener   \* the name of the listening socket

VARIABLES
  queue,   \* the pending messages (MessageBuffer, seen as MessageQueue)
  fate,    \* "running", or how the process ended
  state,   \* state[m]: the state of machine m, "none" if it does not exist
  io,      \* io[m]: the i/o channel: attached fd and what epoll watches
  timer,   \* timer[m]: timer 0 of m
  sig,     \* signals pending in the signalfds
  pool,    \* pool[k]: where idle machines of kind k rest
  job,     \* job[m]: requester of rx or tx machine m
  flags,   \* flags[m]: me->flags of rx machine m
  wi,      \* wi[w]: struct worker_info
  net      \* net[c]: the connection of peer c

machineVars == <<state, io, timer, pool, job, flags, wi>>
worldVars == <<sig, net>>
vars == <<queue, fate, state, io, timer, sig, pool, job, flags, wi, net>>

-----------------------------------------------------------------------------
(* Messages *)

(* edsm->msg(src, dst, ptr, code) and the external messages of ecap__wait. *)
Msg(src, dst, ptr, code) == [src |-> src, dst |-> dst, ptr |-> ptr, code |-> code]

Self(m, code) == Msg(m, m, NULL, code)

Unread(c) == Len(net[c].sent) - net[c].nread

(* __get_os_event_seqn: what a message says is found out when it is         *)
(* dispatched.  POLLIN on a socket with nothing to read is a hang-up, and   *)
(* so is POLLIN on a channel that was detached since, where ioctl() fails.  *)
Code(msg) ==
  CASE msg.code = "POLLHUP" -> "D2"
    [] msg.code = "POLLOUT" -> "D1"
    [] msg.code = "POLLIN" ->
         IF msg.dst = listener THEN "D0"
         ELSE IF io[msg.dst].fd = NULL THEN "D2"
         ELSE IF Unread(io[msg.dst].fd) = 0 THEN "D2"
         ELSE "D0"
    [] OTHER -> msg.code

(* Machine m, in state s, is dispatched the message code. *)
Receive(m, s, code) ==
  /\ fate = "running"
  /\ queue # << >>
  /\ Head(queue).dst = m
  /\ state[m] = s
  /\ Code(Head(queue)) = code

(* The message is consumed and the handler put these. *)
Puts(msgs) == queue' = Tail(queue) \o msgs

(* The handler ended in exit(1), in a crash or by a signal. *)
Exit(why) ==
  /\ fate' = why
  /\ UNCHANGED <<queue, machineVars, worldVars>>

-----------------------------------------------------------------------------
(* Channels, timers *)

(* A fault: the channel goes quiet but keeps the fd. *)
io_detach_half(m) == [io EXCEPT ![m].watch = "none"]

(* epoll knows an fd once: EPOLL_CTL_ADD of an attached one fails. *)
Attached(fd) == \E m \in Channel : io[m].fd = fd

(* io_attach adds the fd with an empty mask (a hang-up is still reported),  *)
(* io_enable says what to wait for, io_detach removes the fd.               *)
io_attach(m, fd) == [io EXCEPT ![m] = [fd |-> fd, watch |-> "POLLHUP"]]
io_enable(m, what) == [io EXCEPT ![m].watch = what]
io_detach(m) == [io EXCEPT ![m] = [fd |-> NULL, watch |-> "none"]]

(* Faults: a timer that is not started, or not stopped. *)
tm_start_not(m) == timer
tm_stop_not(m) == timer

(* tm_start arms the timerfd, tm_stop disarms it and forgets an expiration. *)
tm_start(m) == [timer EXCEPT ![m] = "armed"]
tm_stop(m) == [timer EXCEPT ![m] = "off"]

(* __read_tick_data: the expiration is consumed; a periodic timer runs on. *)
TickRead(m) == [timer EXCEPT ![m] = IF m = poolman THEN "armed" ELSE "off"]

-----------------------------------------------------------------------------
(* Pools *)

(* A handler takes a machine of kind k from its pool; when that was the     *)
(* last one, add_sm() creates and runs another, whose init_enter sends it   *)
(* M0.  BOUND: the sets of machines; a deleted machine's name is used again.*)
LastTaken(k) == avail(pool[k]) = 1
AnyFresh(k) == LastTaken(k) => \E m \in Members[k] : state[m] = "none"
Fresh(k) == CHOOSE m \in Members[k] : state[m] = "none"
PoolAfterGet(k) == [pool EXCEPT ![k] = object_pool_get(@)]
StateAfterAddSm(k) == IF LastTaken(k) THEN [state EXCEPT ![Fresh(k)] = "init"] ELSE state
AddSmMsgs(k) == IF LastTaken(k) THEN <<Self(Fresh(k), "M0")>> ELSE << >>

(* edsm__delete: the machine is gone, with its channels. *)
StateAfterDel(gone) == [m \in Machine |-> IF m \in gone THEN "none" ELSE state[m]]

(* The idle_enter of a pooled machine: it goes to its pool. *)
Rest(m) == pool' = [pool EXCEPT ![Kind(m)] = object_pool_put(@, m)]

-----------------------------------------------------------------------------
(* Events *)

(* What epoll_wait() could report for machine m.  A hang-up of the socket   *)
(* overrides what else is reported with it.                                 *)
ChannelEvents(m) ==
  LET fd == io[m].fd
      watch == io[m].watch
      codes ==
        IF watch = "none" THEN {}
        ELSE IF fd = ListenSocket
        THEN {"POLLIN" : c \in {d \in Client : net[d].conn = "backlog"}}
        ELSE IF net[fd].peer = "rst" THEN {"POLLHUP"}
        ELSE IF watch = "POLLIN" /\ (Unread(fd) > 0 \/ net[fd].peer = "fin") THEN {"POLLIN"}
        ELSE IF watch = "POLLOUT" /\ ~ net[fd].full THEN {"POLLOUT"}
        ELSE {}
  IN  {Msg(NULL, m, NULL, code) : code \in codes}

Ready ==
  (UNION {ChannelEvents(m) : m \in Channel})
  \cup {Msg(NULL, m, NULL, "T0") : m \in {n \in Timed : timer[n] = "expired"}}
  \cup {Msg(NULL, manager, NULL, s) : s \in sig}

IsIoEvent(msg) == msg.code \in {"POLLIN", "POLLOUT", "POLLHUP"}

(* A fault: no limit. *)
BatchSize_all(ready) == Cardinality(ready)

(* How many events one epoll_wait() reports. *)
BatchSize(ready) == Min({MaxEvents, Cardinality(ready)})

(* ecap__wait: up to MaxEvents of the ready events, in any order, are put.  *)
(* The channels of rx and tx are one-shot, the listener's is not.           *)
Wait ==
  /\ fate = "running"
  /\ queue = << >>
  /\ Ready # {}
  /\ queue' \in {batch \in [1 .. BatchSize(Ready) -> Ready] : IsInjective(batch)}
  /\ LET reported == {msg.dst : msg \in {e \in ToSet(queue') : IsIoEvent(e)}}
     IN  io' = [m \in Channel |-> IF m \in reported \ {listener}
                                  THEN [io[m] EXCEPT !.watch = "none"] ELSE io[m]]
  /\ UNCHANGED <<fate, state, timer, pool, job, flags, wi, worldVars>>

-----------------------------------------------------------------------------
(* The world *)

Running == fate = "running" /\ UNCHANGED <<queue, fate>>

Connect(c) ==
  /\ Running
  /\ net[c].conn = "new"
  /\ net' = [net EXCEPT ![c].conn = "backlog"]
  /\ UNCHANGED <<machineVars, sig>>

(* The peer sends a chunk of text, with a newline in it (eol) or without. *)
PeerSends(c, eol) ==
  /\ Running
  /\ net[c].conn \in {"backlog", "open"}
  /\ net[c].peer = "up"
  /\ Len(net[c].sent) < MaxSends
  /\ net' = [net EXCEPT ![c].sent = Append(@, eol)]
  /\ UNCHANGED <<machineVars, sig>>

(* The peer shuts its sending side down, or the connection is reset. *)
PeerLeaves(c, how) ==
  /\ Running
  /\ net[c].conn \in {"backlog", "open"}
  /\ net[c].peer # "rst"
  /\ net[c].peer # how
  /\ net' = [net EXCEPT ![c].peer = how]
  /\ UNCHANGED <<machineVars, sig>>

(* The peer reads its echo: there is room in the send buffer again. *)
PeerReads(c) ==
  /\ Running
  /\ net[c].full
  /\ net' = [net EXCEPT ![c].full = FALSE]
  /\ UNCHANGED <<machineVars, sig>>

TimerExpires(m) ==
  /\ Running
  /\ timer[m] = "armed"
  /\ timer' = [timer EXCEPT ![m] = "expired"]
  /\ UNCHANGED <<state, io, pool, job, flags, wi, worldVars>>

SignalComes(s) ==
  /\ Running
  /\ sig' = sig \cup {s}
  /\ s \notin sig
  /\ UNCHANGED <<machineVars, net>>

World ==
  \/ \E c \in Client :
       \/ Connect(c)
       \/ \E eol \in BOOLEAN : PeerSends(c, eol)
       \/ \E how \in {"fin", "rst"} : PeerLeaves(c, how)
       \/ PeerReads(c)
  \/ \E m \in Timed : TimerExpires(m)
  \/ \E s \in Signals : SignalComes(s)

=============================================================================
