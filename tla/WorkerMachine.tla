--------------------------- MODULE WorkerMachine ---------------------------
(***************************************************************************)
(* The workers, echo-server/state-machines/worker.c and worker.smd: a      *)
(* worker serves one client, alternating between getp (an rx machine reads *)
(* a line) and ackp (a tx machine writes it back) until either fails.      *)
(***************************************************************************)
EXTENDS Edsm

(* Faults: the manager is told nothing, or the wrong pointer. *)
GiveUpMsgs_silent(w) == <<Self(w, "M3")>>
GiveUpMsgs_pointer(w) == <<Msg(w, manager, w, "M1"), Self(w, "M3")>>

(* Giving the client up: first the manager, then back to idle. *)
GiveUpMsgs(w) == <<Msg(w, manager, wi[w].ci, "M1"), Self(w, "M3")>>

(* worker_getp_enter: an rx machine gets the context of the input buffer.   *)
worker_getp_enter(w) ==
  IF pool_is_empty(pool["rx"])
  THEN /\ Puts(GiveUpMsgs(w))
       /\ state' = [state EXCEPT ![w] = "getp"]
       /\ UNCHANGED <<pool, wi>>
  ELSE /\ AnyFresh("rx")
       /\ Puts(AddSmMsgs("rx") \o <<Msg(w, Taken(pool["rx"]), w, "M1")>>)
       /\ state' = [StateAfterAddSm("rx") EXCEPT ![w] = "getp"]
       /\ pool' = PoolAfterGet("rx")
       /\ wi' = [wi EXCEPT ![w].fd = wi[w].ci, ![w].buf = "ibuf"]

(* worker_ackp_enter: the line is copied, a tx machine gets the context of  *)
(* the output buffer.                                                       *)
worker_ackp_enter(w) ==
  IF pool_is_empty(pool["tx"])
  THEN /\ Puts(GiveUpMsgs(w))
       /\ state' = [state EXCEPT ![w] = "ackp"]
       /\ UNCHANGED <<pool, wi>>
  ELSE /\ AnyFresh("tx")
       /\ Puts(AddSmMsgs("tx") \o <<Msg(w, Taken(pool["tx"]), w, "M1")>>)
       /\ state' = [StateAfterAddSm("tx") EXCEPT ![w] = "ackp"]
       /\ pool' = PoolAfterGet("tx")
       /\ wi' = [wi EXCEPT ![w].fd = wi[w].ci, ![w].buf = "obuf", ![w].obuf = wi[w].ibuf]

(* No client, and buffers whose contents nobody reads before they are reset. *)
IdleInfo == [ci |-> NULL, fd |-> NULL, buf |-> "ibuf",
             ibuf |-> << >>, obuf |-> << >>, unsent |-> << >>]

worker_idle_enter(w) ==
  /\ state' = [state EXCEPT ![w] = "idle"]
  /\ wi' = [wi EXCEPT ![w] = IdleInfo]
  /\ Rest(w)

-----------------------------------------------------------------------------

(* +init M0 idle *)
worker_init_M0(w) ==
  /\ Receive(w, "init", "M0")
  /\ Puts(<< >>)
  /\ worker_idle_enter(w)
  /\ UNCHANGED <<fate, io, timer, job, flags, worldVars>>

(* @idle M1: a new client from the manager. *)
worker_idle_M1(w) ==
  /\ Receive(w, "idle", "M1")
  /\ IF Head(queue).ptr = NULL
     THEN Exit("no client info")
     ELSE /\ Puts(<<Self(w, "M0")>>)
          /\ wi' = [wi EXCEPT ![w].ci = Head(queue).ptr]
          /\ UNCHANGED <<fate, state, io, timer, pool, job, flags, worldVars>>

(* +idle M0 getp and +ackp M0 getp *)
worker_M0_getp(w) ==
  /\ Receive(w, "idle", "M0") \/ Receive(w, "ackp", "M0")
  /\ worker_getp_enter(w)
  /\ UNCHANGED <<fate, io, timer, job, flags, worldVars>>

(* +getp M0 ackp *)
worker_M0_ackp(w) ==
  /\ Receive(w, "getp", "M0")
  /\ worker_ackp_enter(w)
  /\ UNCHANGED <<fate, io, timer, job, flags, worldVars>>

(* @getp M1, @ackp M1: the rx or tx machine is done. *)
worker_M1(w) ==
  /\ Receive(w, "getp", "M1") \/ Receive(w, "ackp", "M1")
  /\ Puts(<<Self(w, "M0")>>)
  /\ UNCHANGED <<fate, machineVars, worldVars>>

(* @getp M2, @ackp M2: the rx or tx machine failed. *)
worker_M2(w) ==
  /\ Receive(w, "getp", "M2") \/ Receive(w, "ackp", "M2")
  /\ Puts(GiveUpMsgs(w))
  /\ UNCHANGED <<fate, machineVars, worldVars>>

(* +getp M3 idle, +ackp M3 idle *)
worker_M3(w) ==
  /\ Receive(w, "getp", "M3") \/ Receive(w, "ackp", "M3")
  /\ Puts(<< >>)
  /\ worker_idle_enter(w)
  /\ UNCHANGED <<fate, io, timer, job, flags, worldVars>>

(* The reflexes of worker.smd. *)
worker_smd ==
  {<<"init", "M0">>, <<"idle", "M1">>, <<"idle", "M0">>}
  \cup ({"getp", "ackp"} \X {"M0", "M1", "M2", "M3"})

WorkerExec ==
  \E w \in Worker :
    \/ worker_init_M0(w) \/ worker_idle_M1(w) \/ worker_M0_getp(w)
    \/ worker_M0_ackp(w) \/ worker_M1(w) \/ worker_M2(w) \/ worker_M3(w)

=============================================================================
