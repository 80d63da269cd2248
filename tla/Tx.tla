--------------------------------- MODULE Tx ---------------------------------
(***************************************************************************)
(* The sending machines, echo-server/state-machines/tx.c and tx.smd: a tx  *)
(* machine takes the socket and the output buffer a worker hands it,       *)
(* writes until nothing is left or the peer hangs up, tells the worker,    *)
(* and returns to its pool.  It has no timeout.                            *)
(***************************************************************************)
EXTENDS Edsm

(* txb->pos and txb->cnt: what is left of the buffer. *)
unsent(m) == wi[job[m]].unsent

(* A fault: after a short write the same data is written again. *)
AfterWrite_again(left, n) == IF n < Len(left) THEN left ELSE << >>

(* txb->pos and txb->cnt after write() took n chunks. *)
AfterWrite(left, n) == SubSeq(left, n + 1, Len(left))

(* __on_tx_done: the machine is free before the worker hears of it. *)
TxDoneMsgs(m, mcode) == <<Self(m, "M0"), Msg(m, job[m], NULL, mcode)>>

-----------------------------------------------------------------------------

(* +init M0 idle *)
tx_init_M0(m) ==
  /\ Receive(m, "init", "M0")
  /\ Puts(<< >>)
  /\ state' = [state EXCEPT ![m] = "idle"]
  /\ Rest(m)
  /\ UNCHANGED <<fate, io, timer, job, flags, wi, worldVars>>

(* @idle M1: a worker has data to send. *)
tx_idle_M1(m) ==
  /\ Receive(m, "idle", "M1")
  /\ LET w == Head(queue).src IN
     IF Attached(wi[w].fd)
     THEN Exit("fd attached twice")
     ELSE /\ Puts(<<Self(m, "M0")>>)
          /\ job' = [job EXCEPT ![m] = w]
          /\ io' = io_attach(m, wi[w].fd)
          /\ UNCHANGED <<fate, state, timer, pool, flags, wi, worldVars>>

(* +idle M0 work: all of the buffer is to be sent. *)
tx_idle_M0(m) ==
  /\ Receive(m, "idle", "M0")
  /\ IF io[m].fd = NULL
     THEN Exit("no fd attached")
     ELSE /\ Puts(<< >>)
          /\ state' = [state EXCEPT ![m] = "work"]
          /\ wi' = [wi EXCEPT ![job[m]].unsent = wi[job[m]][wi[job[m]].buf]]
          /\ io' = io_enable(m, "POLLOUT")
          /\ UNCHANGED <<fate, timer, pool, job, flags, worldVars>>

(* @work D1: write() takes the first n chunks; a short write leaves the     *)
(* send buffer full and waits for POLLOUT again.                            *)
tx_work_D1(m) ==
  /\ Receive(m, "work", "D1")
  /\ LET c == io[m].fd
         left == unsent(m)
     IN  \E n \in 1 .. Len(left) :
           /\ net' = [net EXCEPT ![c].echoed = @ \o SubSeq(left, 1, n),
                                 ![c].full = n < Len(left)]
           /\ wi' = [wi EXCEPT ![job[m]].unsent = AfterWrite(left, n)]
           /\ IF n < Len(left)
              THEN Puts(<< >>) /\ io' = io_enable(m, "POLLOUT")
              ELSE Puts(TxDoneMsgs(m, "M1")) /\ io' = io_detach(m)
  /\ UNCHANGED <<fate, state, timer, pool, job, flags, sig>>

(* @work D1 when write() fails: the connection was reset meanwhile. *)
tx_work_D1_fails(m) ==
  /\ Receive(m, "work", "D1")
  /\ net[io[m].fd].peer = "rst"
  /\ Puts(TxDoneMsgs(m, "M2"))
  /\ io' = io_detach(m)
  /\ UNCHANGED <<fate, state, timer, pool, job, flags, wi, worldVars>>

(* @work D1 when write() raises SIGPIPE, which the program neither ignores   *)
(* nor takes: it ends.  A reset that follows the peer's own shutdown is     *)
(* told so, any other by ECONNRESET; which of the two this one was, the     *)
(* model does not remember.                                                 *)
tx_work_D1_breaks(m) ==
  /\ Receive(m, "work", "D1")
  /\ net[io[m].fd].peer = "rst"
  /\ Exit("broken pipe")

(* @work D2: the peer hung up. *)
tx_work_D2(m) ==
  /\ Receive(m, "work", "D2")
  /\ Puts(TxDoneMsgs(m, "M2"))
  /\ io' = io_detach(m)
  /\ UNCHANGED <<fate, state, timer, pool, job, flags, wi, worldVars>>

(* +work M0 idle.  The requester is not looked at in idle: it is dropped.   *)
tx_work_M0(m) ==
  /\ Receive(m, "work", "M0")
  /\ Puts(<< >>)
  /\ state' = [state EXCEPT ![m] = "idle"]
  /\ job' = [job EXCEPT ![m] = NULL]
  /\ Rest(m)
  /\ UNCHANGED <<fate, io, timer, flags, wi, worldVars>>

(* The reflexes of tx.smd. *)
tx_smd ==
  {<<"init", "M0">>, <<"idle", "M1">>, <<"idle", "M0">>}
  \cup ({"work"} \X {"D1", "D2", "M0"})

TxExec ==
  \E m \in Tx :
    \/ tx_init_M0(m) \/ tx_idle_M1(m) \/ tx_idle_M0(m)
    \/ tx_work_D1(m) \/ tx_work_D1_fails(m) \/ tx_work_D1_breaks(m)
    \/ tx_work_D2(m) \/ tx_work_M0(m)

=============================================================================
