--------------------------------- MODULE Rx ---------------------------------
(***************************************************************************)
(* The receiving machines, echo-server/state-machines/rx.c and rx.smd: an  *)
(* rx machine takes the socket and the input buffer a worker hands it,     *)
(* reads until the worker needs no more, the peer hangs up or the timeout  *)
(* expires, tells the worker, and returns to its pool.                     *)
(***************************************************************************)
EXTENDS Edsm

HAVE_T0 == "T0"
HAVE_D2 == "D2"

(* The buffer of the requester's io_context, a sequence of chunks. *)
BufferWith(m, chunks) ==
  LET w == job[m]
  IN  IF wi[w].buf = "ibuf" THEN wi[w].ibuf \o chunks ELSE wi[w].obuf \o chunks

(* A fault: the result of strchr() is taken the wrong way round. *)
need_more_inverted(buffer) == \E k \in DOMAIN buffer : net[buffer[k].peer].sent[buffer[k].seqn]

(* __es_need_more: no newline in the buffer yet. *)
need_more(buffer) == ~ \E k \in DOMAIN buffer : net[buffer[k].peer].sent[buffer[k].seqn]

(* The next n unread chunks of the socket. *)
NextChunks(c, n) == [k \in 1 .. n |-> [peer |-> c, seqn |-> net[c].nread + k]]

(* __on_rx_done: the fd is given back before anybody hears of it. *)
DoneMsgs(m, mcode) == <<Msg(m, job[m], NULL, mcode), Self(m, "M0")>>

-----------------------------------------------------------------------------

(* +init M0 idle *)
rx_init_M0(m) ==
  /\ Receive(m, "init", "M0")
  /\ Puts(<< >>)
  /\ state' = [state EXCEPT ![m] = "idle"]
  /\ flags' = [flags EXCEPT ![m] = {}]
  /\ Rest(m)
  /\ UNCHANGED <<fate, io, timer, job, wi, worldVars>>

(* @idle M1: a worker wants data.  The buffer is reset. *)
rx_idle_M1(m) ==
  /\ Receive(m, "idle", "M1")
  /\ LET w == Head(queue).src IN
     IF Attached(wi[w].fd)
     THEN Exit("fd attached twice")
     ELSE /\ Puts(<<Self(m, "M0")>>)
          /\ job' = [job EXCEPT ![m] = w]
          /\ wi' = [wi EXCEPT ![w][wi[w].buf] = << >>]
          /\ io' = io_attach(m, wi[w].fd)
          /\ UNCHANGED <<fate, state, timer, pool, flags, worldVars>>

(* +idle M0 work: io_enable() insists on an attached fd. *)
rx_idle_M0(m) ==
  /\ Receive(m, "idle", "M0")
  /\ IF io[m].fd = NULL
     THEN Exit("no fd attached")
     ELSE /\ Puts(<< >>)
          /\ state' = [state EXCEPT ![m] = "work"]
          /\ io' = io_enable(m, "POLLIN")
          /\ timer' = tm_start(m)
          /\ UNCHANGED <<fate, pool, job, flags, wi, worldVars>>

(* What is there is read, as much as there is room for (n is at least 1: a  *)
(* full buffer is grown).  No flag says that the machine is done.           *)
ReadChunks(m) ==
  LET c == io[m].fd
      w == job[m]
  IN  \E n \in 1 .. Unread(c) :
        LET buffer == BufferWith(m, NextChunks(c, n)) IN
        /\ net' = [net EXCEPT ![c].nread = @ + n]
        /\ wi' = [wi EXCEPT ![w][wi[w].buf] = buffer]
        /\ IF need_more(buffer)
           THEN Puts(<< >>) /\ io' = io_enable(m, "POLLIN")
           ELSE Puts(DoneMsgs(m, "M1")) /\ io' = io_detach(m)

(* @work D0: ignored when a hang-up or the timeout was handled before.      *)
rx_work_D0(m) ==
  /\ Receive(m, "work", "D0")
  /\ IF flags[m] # {}
     THEN Puts(<< >>) /\ UNCHANGED <<io, wi, net>>
     ELSE ReadChunks(m)
  /\ UNCHANGED <<fate, state, timer, pool, job, flags, sig>>

(* @work D0 when read() fails: the connection was reset meanwhile. *)
rx_work_D0_fails(m) ==
  /\ Receive(m, "work", "D0")
  /\ flags[m] = {}
  /\ net[io[m].fd].peer = "rst"
  /\ Puts(DoneMsgs(m, "M2"))
  /\ io' = io_detach(m)
  /\ UNCHANGED <<fate, state, timer, pool, job, flags, wi, worldVars>>

(* @work D2: the peer hung up, or there is nothing to read any more. *)
rx_work_D2(m) ==
  /\ Receive(m, "work", "D2")
  /\ IF flags[m] \subseteq {HAVE_D2}
     THEN Puts(DoneMsgs(m, "M2")) /\ io' = io_detach(m)
     ELSE Puts(<< >>) /\ UNCHANGED io
  /\ flags' = [flags EXCEPT ![m] = @ \cup {HAVE_D2}]
  /\ UNCHANGED <<fate, state, timer, pool, job, wi, worldVars>>

(* @work T0: the timeout.  Reading an expiration that tm_stop() has taken   *)
(* back fails, and ends the program.                                        *)
rx_work_T0(m) ==
  /\ Receive(m, "work", "T0")
  /\ IF timer[m] # "expired"
     THEN Exit("no tick to read")
     ELSE /\ timer' = TickRead(m)
          /\ IF flags[m] = {}
             THEN Puts(DoneMsgs(m, "M2")) /\ io' = io_detach(m)
             ELSE Puts(<< >>) /\ UNCHANGED io
          /\ flags' = [flags EXCEPT ![m] = @ \cup {HAVE_T0}]
          /\ UNCHANGED <<fate, state, pool, job, wi, worldVars>>

(* +work M0 idle.  The requester is not looked at in idle: it is dropped.   *)
rx_work_M0(m) ==
  /\ Receive(m, "work", "M0")
  /\ Puts(<< >>)
  /\ state' = [state EXCEPT ![m] = "idle"]
  /\ timer' = tm_stop(m)
  /\ flags' = [flags EXCEPT ![m] = {}]
  /\ job' = [job EXCEPT ![m] = NULL]
  /\ Rest(m)
  /\ UNCHANGED <<fate, io, wi, worldVars>>

(* The reflexes of rx.smd. *)
rx_smd ==
  {<<"init", "M0">>, <<"idle", "M1">>, <<"idle", "M0">>}
  \cup ({"work"} \X {"D0", "D2", "T0", "M0"})

RxExec ==
  \E m \in Rx :
    \/ rx_init_M0(m) \/ rx_idle_M1(m) \/ rx_idle_M0(m)
    \/ rx_work_D0(m) \/ rx_work_D0_fails(m)
    \/ rx_work_D2(m) \/ rx_work_T0(m) \/ rx_work_M0(m)

=============================================================================
