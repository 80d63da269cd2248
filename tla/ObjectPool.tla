----------------------------- MODULE ObjectPool -----------------------------
(***************************************************************************)
(* The object pool of utils/object-pool.c as operators on a record: a stack *)
(* of items in an array of capacity slots that grows and shrinks by         *)
(* capdelta, with a low water mark.  The struct's avail is Len(items).      *)
(* realloc() is taken to succeed.                                           *)
(***************************************************************************)
EXTENDS Integers, Sequences

avail(p) == Len(p.items)

pool_is_empty(p) == avail(p) = 0
pool_is_full(p) == avail(p) = p.capacity

(* The pool starts with no item; avail_min starts as the capacity. *)
object_pool_init(capacity, capdelta) ==
  [capacity |-> capacity, capdelta |-> capdelta, items |-> << >>, avail_min |-> capacity]

object_pool_expand(p) == [p EXCEPT !.capacity = @ + p.capdelta]
object_pool_shrink(p) == [p EXCEPT !.capacity = @ - p.capdelta]

(* A put into a full pool expands it first. *)
object_pool_put(p, item) ==
  LET roomy == IF pool_is_full(p) THEN object_pool_expand(p) ELSE p
  IN  [roomy EXCEPT !.items = Append(@, item)]

(* What object_pool_get delivers from a pool that is not empty, ... *)
Taken(p) == p.items[avail(p)]

(* A fault: the item stays in the pool. *)
object_pool_get_stuck(p) == [p EXCEPT !.avail_min = IF avail(p) - 1 < @ THEN avail(p) - 1 ELSE @]

(* ... and what it leaves. *)
object_pool_get(p) ==
  LET left == avail(p) - 1
  IN  [p EXCEPT !.items = SubSeq(@, 1, left),
                !.avail_min = IF left < @ THEN left ELSE @]

=============================================================================
