-------------------------------- MODULE List --------------------------------
(***************************************************************************)
(* The singly linked lists of utils/list.c, the queue (utils/queue.c) and   *)
(* the stack (utils/stack.c) made of them.  All lists of a program take     *)
(* their nodes from one memory pool: the word in which a node points to the *)
(* next one is the word in which a free block points to the next free one.  *)
(*                                                                         *)
(* next and data are the two words of the blocks that are nodes; the pool    *)
(* has the first words of the others (link).                                *)
(***************************************************************************)
EXTENDS MemPool, SequencesExt

CONSTANTS
  Queue,  \* the list heads of the program
  Data    \* what callers keep in lists

VARIABLES
  list,  \* the list heads
  next,  \* list_node.next
  data,  \* list_node.data
  item   \* what the last list__get_head returned

listVars == <<list, next, data, item>>

-----------------------------------------------------------------------------

ListInit ==
  /\ MemInit
  /\ list = [q \in Queue |-> Null]
  /\ next = << >>
  /\ data = << >>
  /\ item = Null

(* The nodes from h on, in order, as list__walk visits them: as many as     *)
(* there are blocks, should the links run in a circle.                      *)
Nodes(h, links) ==
  LET max == Cardinality(DOMAIN links)
      at[k \in 1 .. max + 1] ==
        IF k = 1 THEN h ELSE IF at[k - 1] \in DOMAIN links THEN links[at[k - 1]] ELSE Null
      len == Cardinality({k \in 1 .. max + 1 : at[k] # Null})
  IN  [k \in 1 .. len |-> at[k]]

(* __list_new_node: the node is what the pool has got. *)
NewNode == GetFree \/ GetFromNewPage

(* One of the words of the nodes, with word w in the new node n. *)
InNew(n, w, words) == [b \in DOMAIN words \cup {n} |-> IF b = n THEN w ELSE words[b]]

(* A fault: the first node, not the last one, is linked to the new node. *)
AddTailLinks_first(q, n) ==
  InNew(n, Null, IF list[q] = Null THEN next ELSE [next EXCEPT ![list[q]] = n])

(* The links after list__add_tail: the last node is linked to the new one. *)
AddTailLinks(q, n) ==
  InNew(n, Null, IF list[q] = Null THEN next ELSE [next EXCEPT ![Last(Nodes(list[q], next))] = n])

(* enqueue: list__add_tail, then the data is stored in the new node. *)
enqueue(q, d) ==
  /\ NewNode
  /\ next' = AddTailLinks(q, got')
  /\ data' = InNew(got', d, data)
  /\ list' = IF list[q] = Null THEN [list EXCEPT ![q] = got'] ELSE list
  /\ UNCHANGED item

(* push: list__add_head, then the data is stored in the new node. *)
push(q, d) ==
  /\ NewNode
  /\ next' = InNew(got', list[q], next)
  /\ data' = InNew(got', d, data)
  /\ list' = [list EXCEPT ![q] = got']
  /\ UNCHANGED item

(* enqueue and push when the pool needs a page and cannot get it: they     *)
(* return 1 and leave the lists alone.                                     *)
AddFails == GetFails /\ UNCHANGED listVars

(* A fault: the link is read after the node was put back. *)
After_put(p) == link'[p]

After(p) == next[p]

(* dequeue and pop: list__get_head, which puts the node back into the pool. *)
list__get_head(q) ==
  IF list[q] = Null
  THEN item' = Null /\ UNCHANGED <<list, next, data, memVars>>
  ELSE LET p == list[q] IN
       /\ mempool_put_block(p)
       /\ item' = data[p]
       /\ list' = [list EXCEPT ![q] = After(p)]
       /\ next' = Restrict(next, DOMAIN next \ {p})
       /\ data' = Restrict(data, DOMAIN data \ {p})

ListNext ==
  \/ \E q \in Queue, d \in Data : enqueue(q, d) \/ push(q, d)
  \/ AddFails
  \/ \E q \in Queue : list__get_head(q)

ListSpec == ListInit /\ [][ListNext]_<<memVars, listVars>>

-----------------------------------------------------------------------------

(* Heads and links lead to nodes, which are the blocks taken from the pool. *)
ListTypeOK ==
  /\ list \in [Queue -> taken \cup {Null}]
  /\ next \in [taken -> taken \cup {Null}]
  /\ data \in [taken -> Data]
  /\ item \in Data \cup {Null}

(* The nodes on a list. *)
OnList(q) == ToSet(Nodes(list[q], next))

(* Every node is on exactly one list, and there once: no operation on one    *)
(* list reaches a node of another, no list runs in a circle, and no block    *)
(* that was taken from the pool is lost.                                    *)
EveryNodeHasOnePlace ==
  /\ \A q \in Queue : IsInjective(Nodes(list[q], next))
  /\ \A p, q \in Queue : p # q => OnList(p) \cap OnList(q) = {}
  /\ UNION {OnList(q) : q \in Queue} = taken

(* Every block of the pool is free and listed, or a node in its place: none   *)
(* is lost, none is both, whatever lists take and put back, in whatever order. *)
NoBlockIsLost == FreeNotTaken /\ EveryFreeBlockIsListed /\ EveryNodeHasOnePlace

(* The data on a list, in order. *)
Contents(q) == LET ns == Nodes(list[q], next) IN [k \in DOMAIN ns |-> data[ns[k]]]

Service == INSTANCE ListService WITH
  List <- Queue,
  contents <- [q \in Queue |-> Contents(q)],
  got <- item

(* Queues and stacks that share their memory are sequences of their own. *)
ImplementsLists == Service!Spec

=============================================================================
