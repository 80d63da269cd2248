------------------------------ MODULE Channels ------------------------------
(***************************************************************************)
(* The life of machines' channels and of the descriptors behind them: what   *)
(* creating and deleting a machine does with its timers, interrupts, i/o and  *)
(* file system channels (engine/edsm-api.c, engine/channel.c), what an         *)
(* application does with the sockets it attaches, and what epoll keeps of all  *)
(* that (engine/event-capture.c).                                           *)
(*                                                                         *)
(* What machines do: attach a socket of theirs to a channel that has none,    *)
(* and close it when it is not attached.  A machine is deleted when no       *)
(* message for its channels is pending.                                     *)
(***************************************************************************)
EXTENDS Integers, FiniteSets

CONSTANTS
  Machine,
  Timers, Intrs,  \* numbers of T and S lines of each machine's description
  HasData,        \* machines with a D line, i.e. an i/o channel
  HasFsys,        \* machines with an F line
  MaxFd           \* descriptors a process may have

ASSUME ChannelsAssumption ==
  /\ Timers \in [Machine -> Nat] /\ Intrs \in [Machine -> Nat]
  /\ HasData \subseteq Machine /\ HasFsys \subseteq Machine
  /\ MaxFd \in Nat

VARIABLES
  fate,      \* "running" or "exit"
  alive,     \* the machines there are
  fd,        \* channel.fd of each channel of these, -1 for none
  open,      \* kernel: what each open descriptor is
  nonblock,  \* kernel: those of them with O_NONBLOCK
  interest   \* kernel: the pointer epoll has for each descriptor it watches

channelVars == <<alive, fd>>
kernelVars == <<open, nonblock, interest>>
allVars == <<fate, channelVars, kernelVars>>

-----------------------------------------------------------------------------

Fd == 0 .. MaxFd - 1

(* What channels of each type open for themselves, and what is attached. *)
KindOf == [tick |-> "timerfd", intr |-> "signalfd", fsys |-> "inotify", data |-> "socket"]

Channel(m, type, seqn) == [owner |-> m, type |-> type, seqn |-> seqn]

(* The channels of machine m that have a descriptor from the start, ... *)
OwnChannels(m) ==
  {Channel(m, "tick", k) : k \in 1 .. Timers[m]}
    \cup {Channel(m, "intr", k) : k \in 1 .. Intrs[m]}
    \cup (IF m \in HasFsys THEN {Channel(m, "fsys", 0)} ELSE {})

(* ... and the one that gets them from the application. *)
Io(m) == Channel(m, "data", 0)

AllChannels(m) == OwnChannels(m) \cup (IF m \in HasData THEN {Io(m)} ELSE {})

(* In this order they are created. *)
Rank(c) == CASE c.type = "tick" -> c.seqn
             [] c.type = "intr" -> Timers[c.owner] + c.seqn
             [] OTHER -> Timers[c.owner] + Intrs[c.owner] + 1

IsOpen(f) == f \in DOMAIN open
Free == Fd \ DOMAIN open

With(fun, g) == [x \in DOMAIN fun \cup DOMAIN g |-> IF x \in DOMAIN g THEN g[x] ELSE fun[x]]
Less(fun, S) == [x \in DOMAIN fun \ S |-> fun[x]]

ChannelsInit ==
  /\ fate = "running"
  /\ alive = {}
  /\ fd = << >>
  /\ open = << >>
  /\ nonblock = {}
  /\ interest = << >>

Exit == fate' = "exit" /\ UNCHANGED <<channelVars, kernelVars>>

(* The kernel gives the lowest descriptors there are, one after the other. *)
LowestFirst(new, m) ==
  /\ \A c, d \in OwnChannels(m) : Rank(c) < Rank(d) => new[c] < new[d]
  /\ \A f \in Free, c \in OwnChannels(m) : f < new[c] => \E d \in OwnChannels(m) : new[d] = f

IsOneToOne(new) == \A c, d \in DOMAIN new : new[c] = new[d] => c = d

(* ecap__add for the descriptors of new channels. *)
Watched(new) ==
  [f \in {new[c] : c \in DOMAIN new} |-> CHOOSE c \in DOMAIN new : new[c] = f]

(* edsm__create: __edsm_new_timer, __edsm_new_interrupt, __edsm_new_iochan,   *)
(* __edsm_new_fschan.  When one of them fails, the process exits.           *)
create(m) ==
  /\ m \notin alive
  /\ \/ /\ \E new \in [OwnChannels(m) -> Free] :
             /\ IsOneToOne(new)
             /\ LowestFirst(new, m)
             /\ fd' = With(fd, [c \in AllChannels(m) |-> IF c \in DOMAIN new THEN new[c] ELSE -1])
             /\ open' = With(open, [f \in DOMAIN Watched(new) |-> KindOf[Watched(new)[f].type]])
             /\ interest' = With(interest, Watched(new))
             /\ nonblock' = nonblock \cup DOMAIN Watched(new)
        /\ alive' = alive \cup {m}
        /\ UNCHANGED fate
     \/ Exit

(* The descriptors of a machine: those it has, its socket included. *)
FdsOf(m) == {fd[c] : c \in AllChannels(m)} \ {-1}

(* __edsm_del_channel closes them, ... *)
Closed(m) == FdsOf(m)

Left(m) == Less(fd, AllChannels(m))

(* ... and edsm__delete does so for all channels. *)
delete(m) ==
  /\ m \in alive
  /\ alive' = alive \ {m}
  /\ fd' = Left(m)
  /\ open' = Less(open, Closed(m))
  /\ interest' = Less(interest, Closed(m))
  /\ nonblock' = nonblock \ Closed(m)
  /\ UNCHANGED fate

(* The application opens a socket, or accepts one. *)
OpenSocket ==
  /\ \E f \in Free :
       /\ \A g \in Free : f <= g
       /\ open' = With(open, [x \in {f} |-> "socket"])
  /\ UNCHANGED <<fate, channelVars, nonblock, interest>>

(* close() of a socket that is attached to no channel. *)
CloseSocket(f) ==
  /\ IsOpen(f) /\ open[f] = "socket"
  /\ \A c \in DOMAIN fd : fd[c] # f
  /\ open' = Less(open, {f})
  /\ nonblock' = nonblock \ {f}
  /\ interest' = Less(interest, {f})
  /\ UNCHANGED <<fate, channelVars>>

NonblockingWith(f) == nonblock \cup {f}

(* A fault: epoll takes a descriptor twice. *)
Refused_never(f) == FALSE

Refused(f) == f \in DOMAIN interest

WatchedWith(m, f) == With(interest, [x \in {f} |-> Io(m)])

(* edsm__attach_iofd.  epoll takes no descriptor twice. *)
io_attach(m, f) ==
  /\ m \in alive
  /\ m \in HasData => fd[Io(m)] = -1
  /\ IsOpen(f) /\ open[f] = "socket"
  /\ IF m \notin HasData \/ Refused(f) THEN Exit
     ELSE /\ fd' = [fd EXCEPT ![Io(m)] = f]
          /\ interest' = WatchedWith(m, f)
          /\ nonblock' = NonblockingWith(f)
          /\ UNCHANGED <<fate, alive, open>>

Unwatched(f) == Less(interest, {f})

(* edsm__detach_iofd *)
io_detach(m) ==
  /\ m \in alive
  /\ IF m \notin HasData THEN Exit
     ELSE LET f == fd[Io(m)] IN
          IF f = -1 THEN UNCHANGED allVars
          ELSE IF f \notin DOMAIN interest THEN Exit
          ELSE /\ fd' = [fd EXCEPT ![Io(m)] = -1]
               /\ interest' = Unwatched(f)
               /\ UNCHANGED <<fate, alive, open, nonblock>>

(* edsm__io_enable and edsm__io_disable: ecap__conf gives epoll the pointer   *)
(* anew, and fails if it does not watch the descriptor.                     *)
io_conf(m) ==
  /\ m \in alive
  /\ IF m \notin HasData \/ fd[Io(m)] \notin DOMAIN interest THEN Exit
     ELSE /\ interest' = [interest EXCEPT ![fd[Io(m)]] = Io(m)]
          /\ UNCHANGED <<fate, channelVars, open, nonblock>>

ChannelsNext ==
  /\ fate = "running"
  /\ \/ \E m \in Machine : create(m) \/ delete(m) \/ io_detach(m) \/ io_conf(m)
     \/ OpenSocket
     \/ \E f \in DOMAIN open : CloseSocket(f)
     \/ \E m \in alive, f \in DOMAIN open : io_attach(m, f)

ChannelsSpec == ChannelsInit /\ [][ChannelsNext]_allVars

-----------------------------------------------------------------------------

(* Channels have a descriptor or -1; what the kernel keeps is about descriptors. *)
ChannelsTypeOK ==
  /\ fate \in {"running", "exit"}
  /\ alive \subseteq Machine
  /\ fd \in [UNION {AllChannels(m) : m \in alive} -> Fd \cup {-1}]
  /\ open \in [DOMAIN open -> {KindOf[t] : t \in DOMAIN KindOf}] /\ DOMAIN open \subseteq Fd
  /\ nonblock \subseteq Fd

(* A descriptor belongs to one channel, and is what the channel's type says:  *)
(* no number is used again for something else while a channel has it.       *)
DescriptorsAreExclusive ==
  \A c \in DOMAIN fd : fd[c] # -1 =>
    /\ IsOpen(fd[c]) /\ open[fd[c]] = KindOf[c.type]
    /\ \A d \in DOMAIN fd : fd[d] = fd[c] => d = c

(* What epoll watches are the descriptors of the channels there are, each     *)
(* with the pointer to its channel: it reports no deleted channel.           *)
EpollKnowsChannels ==
  /\ DOMAIN interest = {fd[c] : c \in DOMAIN fd} \ {-1}
  /\ \A f \in DOMAIN interest : interest[f] \in DOMAIN fd /\ fd[interest[f]] = f

(* Reading what epoll reported never stops the main loop.                   *)
NothingBlocks == DOMAIN interest \subseteq nonblock

(* Of what the engine has opened nothing stays open when its machine is gone, *)
(* and no channel but an i/o channel is ever without its descriptor.         *)
NothingLeaks ==
  /\ \A f \in DOMAIN open : open[f] # "socket" => \E c \in DOMAIN fd : fd[c] = f
  /\ \A c \in DOMAIN fd : fd[c] = -1 => c.type = "data"

(* The machines' channels, the descriptors the process has open and what       *)
(* epoll watches agree, however machines come and go and sockets change hands. *)
KernelAgrees ==
  DescriptorsAreExclusive /\ EpollKnowsChannels /\ NothingBlocks /\ NothingLeaks

(* Enabling, disabling and detaching fail for no machine with a socket.      *)
AttachedMayBeSet ==
  [][\A m \in HasData \cap alive :
       (io_conf(m) \/ io_detach(m)) /\ fd[Io(m)] # -1 => fate' = "running"]_allVars

=============================================================================
