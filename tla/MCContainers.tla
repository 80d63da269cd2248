---------------------------- MODULE MCContainers ----------------------------
(***************************************************************************)
(* The containers of utils/ and the buffers of a worker, each on its own: a   *)
(* behaviour exercises the one that part names, the others stay as they were  *)
(* made.  The lists come with the memory pool below them; the callers of the *)
(* tree are tidy in part "tree", and do as they like in "any tree".          *)
(***************************************************************************)
EXTENDS List, Pool, DynArray, DataBuffer, PrefixTree

CONSTANTS
  Part,      \* the containers this run exercises
  MaxItems   \* BOUND: the items of one array

VARIABLE part

-----------------------------------------------------------------------------

(* Of the initial states of a container that is left alone one is enough. *)
Init ==
  /\ part \in Part
  /\ ListInit
  /\ PoolInit
  /\ part # "pool" => cap_max = 1 /\ addr = [k \in {0} |-> Junk] /\ \A o \in Object : first[o] = 0
  /\ ArrayInit /\ MayAsk(capacity)
  /\ part # "array" => capacity = Default
  /\ BuffersInit
  /\ TreeInit

ListsNext == part = "lists" /\ ListNext /\ UNCHANGED <<poolVars, arrayVars, bufferVars, treeVars, part>>
ObjectsNext == part = "pool" /\ PoolNext /\ UNCHANGED <<memVars, listVars, arrayVars, bufferVars, treeVars, part>>
ItemsNext ==
  /\ part = "array"
  /\ CarefulNext
  /\ nitems' <= MaxItems
  /\ UNCHANGED <<memVars, listVars, poolVars, bufferVars, treeVars, part>>
LinesNext ==
  part = "buffers" /\ BuffersNext /\ UNCHANGED <<memVars, listVars, poolVars, arrayVars, treeVars, part>>
WordsNext ==
  /\ part \in {"tree", "any tree"}
  /\ IF part = "tree" THEN TidyNext ELSE TreeNext
  /\ UNCHANGED <<memVars, listVars, poolVars, arrayVars, bufferVars, part>>

Next == ListsNext \/ ObjectsNext \/ ItemsNext \/ LinesNext \/ WordsNext

vars == <<part, memVars, listVars, poolVars, arrayVars, bufferVars, treeVars>>

Spec == Init /\ [][Next]_vars

-----------------------------------------------------------------------------

(* The containers' own type invariants. *)
TypeOK == MemTypeOK /\ ListTypeOK /\ PoolTypeOK /\ ArrayTypeOK /\ BuffersTypeOK /\ TreeTypeOK

(* Words that are prefixes of each other, that part below a letter, one of   *)
(* which goes over a node of no word, and one that shares nothing.          *)
Words == {<<1>>, <<1, 1>>, <<1, 2, 1>>, <<2>>}

Capacities == {0, 1, 2, 3, 9, 15}  \* of the pool of objects; the last two are no int and wrap
FirstWords == {0, 1, 7}         \* no number, the one of another object, or the own
Requests == {0, 1, 2, 3, 5, 9}  \* capacities of the array

(* Queues are alike, so are data, and the objects that memory does not hold. *)
Alike == Permutations(Queue) \cup Permutations(Data) \cup Permutations(Object \ Left)

=============================================================================
