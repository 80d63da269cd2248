------------------------------ MODULE Listener ------------------------------
(***************************************************************************)
(* The listener, echo-server/state-machines/listener.c and listener.smd:   *)
(* it accepts clients and closes the connections of those that are gone.   *)
(* Its M1 (stop accepting) is sent by nobody.                              *)
(***************************************************************************)
EXTENDS Edsm

(* +init M0 work: the listening socket is watched, for good. *)
listener_init_M0 ==
  /\ Receive(listener, "init", "M0")
  /\ Puts(<< >>)
  /\ state' = [state EXCEPT ![listener] = "work"]
  /\ io' = [io EXCEPT ![listener] = [fd |-> ListenSocket, watch |-> "POLLIN"]]
  /\ UNCHANGED <<fate, timer, pool, job, flags, wi, worldVars>>

(* @work D0: a connection is accepted and introduced to the manager. *)
listener_work_D0(c) ==
  /\ Receive(listener, "work", "D0")
  /\ net[c].conn = "backlog"
  /\ net' = [net EXCEPT ![c].conn = "open"]
  /\ Puts(<<Msg(listener, manager, c, "M0")>>)
  /\ UNCHANGED <<fate, machineVars, sig>>

(* @work D0 when accept() fails: epoll will report the connection again. *)
listener_work_D0_fails ==
  /\ Receive(listener, "work", "D0")
  /\ Puts(<< >>)
  /\ UNCHANGED <<fate, machineVars, worldVars>>

(* @work M0: a client is gone, its socket is closed, its info freed.  Both  *)
(* are done once: close() of a closed socket ends the program.              *)
listener_work_M0 ==
  /\ Receive(listener, "work", "M0")
  /\ LET c == Head(queue).ptr IN
     IF net[c].conn # "open"
     THEN Exit("closed twice")
     ELSE /\ net' = [net EXCEPT ![c].conn = "closed", ![c].full = FALSE]
          /\ Puts(<< >>)
          /\ UNCHANGED <<fate, machineVars, sig>>

(* The reflexes of listener.smd. *)
listener_smd == {<<"init", "M0">>} \cup ({"work"} \X {"D0", "M0", "M1"})

ListenerExec ==
  \/ listener_init_M0
  \/ \E c \in Client : listener_work_D0(c)
  \/ listener_work_D0_fails
  \/ listener_work_M0

=============================================================================
