------------------------------ MODULE Poolman ------------------------------
(***************************************************************************)
(* The pool manager, echo-server/state-machines/poolman.c and poolman.smd: *)
(* at every tick it deletes capdelta machines of each kind of which more   *)
(* than that many were never taken from the pool since the last time.  Its *)
(* other timer only kicks the systemd watchdog.                            *)
(***************************************************************************)
EXTENDS Edsm

(* A fault: as many as were never taken are deleted, not fewer. *)
Shrinks_eager(p) == p.avail_min >= p.capdelta

(* __pm__shrink_pool: does a pool shrink, which machines are deleted, and   *)
(* what is left.  Getting a machine from a pool that has become empty       *)
(* delivers NULL, and edsm->del(NULL) crashes.                              *)
Shrinks(p) == p.avail_min > p.capdelta

RunsDry(p) == Shrinks(p) /\ avail(p) < p.capdelta

Deleted(p) ==
  IF Shrinks(p) THEN ToSet(SubSeq(p.items, avail(p) - p.capdelta + 1, avail(p))) ELSE {}

Shrunk(p) ==
  IF Shrinks(p)
  THEN LET q == object_pool_shrink([p EXCEPT !.items = SubSeq(@, 1, avail(p) - p.capdelta)])
       IN  [q EXCEPT !.avail_min = q.capacity]
  ELSE p

-----------------------------------------------------------------------------

(* +init M0 work *)
poolman_init_M0 ==
  /\ Receive(poolman, "init", "M0")
  /\ Puts(<< >>)
  /\ state' = [state EXCEPT ![poolman] = "work"]
  /\ UNCHANGED <<fate, io, timer, pool, job, flags, wi, worldVars>>

(* @work T0.  A deleted machine is idle: its channel has no fd, its timer   *)
(* is off.                                                                  *)
poolman_work_T0 ==
  /\ Receive(poolman, "work", "T0")
  /\ IF \E k \in Kinds : RunsDry(pool[k])
     THEN Exit("no machine to delete")
     ELSE /\ Puts(<< >>)
          /\ pool' = [k \in Kinds |-> Shrunk(pool[k])]
          /\ state' = StateAfterDel(UNION {Deleted(pool[k]) : k \in Kinds})
          /\ timer' = TickRead(poolman)
          /\ UNCHANGED <<fate, io, job, flags, wi, worldVars>>

(* The reflexes of poolman.smd. *)
poolman_smd == {<<"init", "M0">>} \cup ({"work"} \X {"T0", "T1"})

PoolmanExec == poolman_init_M0 \/ poolman_work_T0

=============================================================================
