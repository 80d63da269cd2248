------------------------------ MODULE Manager ------------------------------
(***************************************************************************)
(* The manager, echo-server/state-machines/manager.c and manager.smd: it   *)
(* finds a worker for every client the listener accepted and sends the     *)
(* clients that are gone to the listener.  SIGINT and SIGTERM stop the     *)
(* program.                                                                *)
(***************************************************************************)
EXTENDS Edsm

SeeOff(c) == Msg(manager, listener, c, "M0")

(* +init M0 work *)
manager_init_M0 ==
  /\ Receive(manager, "init", "M0")
  /\ Puts(<< >>)
  /\ state' = [state EXCEPT ![manager] = "work"]
  /\ UNCHANGED <<fate, io, timer, pool, job, flags, wi, worldVars>>

(* @work M0: a new client.  Without a worker it is seen off at once. *)
manager_work_M0 ==
  /\ Receive(manager, "work", "M0")
  /\ LET c == Head(queue).ptr IN
     IF pool_is_empty(pool["worker"])
     THEN Puts(<<SeeOff(c)>>) /\ UNCHANGED <<state, pool>>
     ELSE /\ AnyFresh("worker")
          /\ Puts(AddSmMsgs("worker") \o <<Msg(manager, Taken(pool["worker"]), c, "M1")>>)
          /\ state' = StateAfterAddSm("worker")
          /\ pool' = PoolAfterGet("worker")
  /\ UNCHANGED <<fate, io, timer, job, flags, wi, worldVars>>

(* @work M1: a worker gave its client up. *)
manager_work_M1 ==
  /\ Receive(manager, "work", "M1")
  /\ Puts(<<SeeOff(Head(queue).ptr)>>)
  /\ UNCHANGED <<fate, machineVars, worldVars>>

(* @work S0, @work S1: the handler returns 1, main_loop() ends; the rest of *)
(* the queue is not looked at.                                              *)
manager_work_S(s) ==
  /\ Receive(manager, "work", s)
  /\ Puts(<< >>)
  /\ fate' = "stopped"
  /\ sig' = sig \ {s}
  /\ UNCHANGED <<machineVars, net>>

(* The reflexes of manager.smd. *)
manager_smd == {<<"init", "M0">>} \cup ({"work"} \X {"M0", "M1", "S0", "S1"})

ManagerExec ==
  \/ manager_init_M0 \/ manager_work_M0 \/ manager_work_M1
  \/ \E s \in Signals : manager_work_S(s)

=============================================================================
