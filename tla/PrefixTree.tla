----------------------------- MODULE PrefixTree -----------------------------
(***************************************************************************)
(* The prefix tree of utils/prefix-tree.c.  A node is a number, the address *)
(* of its block; an edge array is a sequence.  A caller holds at most one    *)
(* reference to the data of a node (pt_get, pt_add), through which pt_set    *)
(* stores.  edges_dist and bytes_total of the statistics are left out.       *)
(*                                                                         *)
(* A datum is an address: when a destructor has freed it, malloc() may give it *)
(* again.  The tree never looks at what is there.                            *)
(***************************************************************************)
EXTENDS Memory, Integers, FiniteSets, SequencesExt

CONSTANTS
  Word,      \* the keys, not empty; letters are numbers
  Datum,     \* what callers store
  Malloced   \* what malloc() may leave in the counters of pt_info

ASSUME TreeAssumption ==
  /\ Word \subseteq Seq(Nat) \ {<< >>}
  /\ Null \notin Nat \cup Word \cup Datum
  /\ Malloced \subseteq Int

VARIABLES
  trie,   \* the nodes and the statistics; no nodes: the root pointer is NULL
  ref,    \* the node to whose data the caller holds a pointer
  freed,  \* the data that the caller's destructor has freed
  exited  \* the process has ended

treeVars == <<trie, ref, freed, exited>>

-----------------------------------------------------------------------------

Root == 1

(* No root, and no pt_info. *)
NoTrie == [node |-> << >>, total |-> 0, empty |-> 0]

Node(t) == DOMAIN t.node

NewTreeNode(parent) == [parent |-> parent, edge |-> << >>, data |-> Null]

(* The tree a lookup finds or creates: the counters are not initialised. *)
Rooted ==
  IF trie = NoTrie
  THEN {[node |-> [n \in {Root} |-> NewTreeNode(Null)], total |-> a, empty |-> b] : a, b \in Malloced}
  ELSE {trie}

(* __pt_get_edge_index: the positions, at most one, of the edge for s. *)
EdgeIndex(t, n, s) == {i \in DOMAIN t.node[n].edge : t.node[n].edge[i].s = s}

Kid(t, n, s) ==
  IF EdgeIndex(t, n, s) = {} THEN Null
  ELSE t.node[n].edge[CHOOSE i \in EdgeIndex(t, n, s) : TRUE].kid

(* The node the letters of key lead to from the root. *)
search_node(t, key) ==
  LET way[k \in 0 .. Len(key)] ==
        IF k = 0 THEN Root
        ELSE IF way[k - 1] = Null THEN Null ELSE Kid(t, way[k - 1], key[k])
  IN  way[Len(key)]

FreshNode(t) == CHOOSE k \in 1 .. Cardinality(Node(t)) + 1 : k \notin Node(t)

(* A fault: the new edge stays behind the others. *)
Place_last(edges, s) == Len(edges) + 1

(* Edges are kept sorted: a new one goes behind those that are not greater. *)
Place(edges, s) == 1 + Cardinality({i \in DOMAIN edges : edges[i].s <= s})

add_kid(t, n, s) ==
  LET kid   == FreshNode(t)
      edges == t.node[n].edge
      grown == InsertAt(edges, Place(edges, s), [s |-> s, kid |-> kid])
  IN  [node  |-> [k \in Node(t) \cup {kid} |->
                    IF k = kid THEN NewTreeNode(n)
                    ELSE IF k = n THEN [t.node[n] EXCEPT !.edge = grown] ELSE t.node[k]],
       total |-> t.total + 1,
       empty |-> t.empty + 1]

(* The node for letter s behind those for the letters of key is there or made. *)
Extended(t, key, s) ==
  LET n == search_node(t, key)
  IN  IF EdgeIndex(t, n, s) = {} THEN add_kid(t, n, s) ELSE t

insert_node(t, key) ==
  LET grown[k \in 0 .. Len(key)] ==
        IF k = 0 THEN t ELSE Extended(grown[k - 1], SubSeq(key, 1, k - 1), key[k])
  IN  grown[Len(key)]

(* The edges that do not lead to a node that is gone; gaps are closed. *)
EdgesKept(edges, gone) ==
  LET kept[i \in 0 .. Len(edges)] ==
        IF i = 0 THEN << >>
        ELSE IF edges[i].kid \in gone THEN kept[i - 1] ELSE Append(kept[i - 1], edges[i])
  IN  kept[Len(edges)]

(* del_node for each of the nodes in gone: they leave their parents' edges. *)
del_nodes(t, gone) ==
  [node  |-> [k \in Node(t) \ gone |->
                [t.node[k] EXCEPT !.edge = EdgesKept(t.node[k].edge, gone)]],
   total |-> t.total - Cardinality(gone),
   empty |-> t.empty - Cardinality({k \in gone : t.node[k].data = Null})]

(* A loop over a tree t as rounds: what is in the set after as many of them   *)
(* as there are nodes, if step gives what is in it after one more.            *)
Rounds(t, step) ==
  LET round[k \in 0 .. Cardinality(Node(t))] == IF k = 0 THEN {} ELSE step[round[k - 1]]
  IN  round[Cardinality(Node(t))]

(* A fault: a branch is cut although words continue there. *)
Dead_leafless(t, n, gone) == t.node[n].data = Null

(* A fault: a word that goes on in no other is cut. *)
Dead_full(t, n, gone) == \A i \in DOMAIN t.node[n].edge : t.node[n].edge[i].kid \in gone

(* Nothing is stored at a dead node, and when gone are gone no word goes on there. *)
Dead(t, n, gone) ==
  /\ t.node[n].data = Null
  /\ \A i \in DOMAIN t.node[n].edge : t.node[n].edge[i].kid \in gone

(* The nodes that fall from n on towards the root: n if it is dead, and the   *)
(* parent of one that has fallen if it is dead then.                         *)
Falls(t, n) ==
  Rounds(t, [gone \in SUBSET Node(t) |->
    {m \in Node(t) \ {Root} :
       Dead(t, m, gone) /\ (m = n \/ \E k \in gone : t.node[k].parent = m)}])

cut_branch(t, n) == del_nodes(t, Falls(t, n))

(* The nodes below those of tops. *)
Below(t, tops) ==
  Rounds(t, [low \in SUBSET Node(t) |-> {k \in Node(t) : t.node[k].parent \in tops \cup low}])

(* __pt_trim of each node of tops deletes everything below it. *)
trim_below(t, tops) == del_nodes(t, Below(t, tops))

(* A fault: the stem is not followed. *)
StemEnd_first(t, n) == n

(* Where the words that begin with one edge of the root branch or end. *)
StemEnd(t, n) ==
  LET stem[k \in 0 .. Cardinality(Node(t))] ==
        IF k = 0 THEN n
        ELSE IF Len(t.node[stem[k - 1]].edge) = 1 THEN t.node[stem[k - 1]].edge[1].kid
        ELSE stem[k - 1]
  IN  stem[Cardinality(Node(t))]

DataOf(t) == {t.node[n].data : n \in Node(t) \ {Root}} \ {Null}

-----------------------------------------------------------------------------

TreeInit ==
  /\ trie = NoTrie
  /\ ref = Null
  /\ freed = {}
  /\ exited = FALSE

(* pt_get, which creates the root when there is none. *)
pt_get(key) ==
  /\ trie' \in Rooted
  /\ ref' = search_node(trie', key)
  /\ UNCHANGED freed

pt_add(key) ==
  /\ \E t \in Rooted : trie' = insert_node(t, key)
  /\ ref' = search_node(trie', key)
  /\ UNCHANGED freed

(* Memory runs out on the way: the nodes made so far stay. *)
pt_add_fails(key) ==
  /\ ref' = Null
  /\ UNCHANGED freed
  /\ \/ trie = NoTrie /\ UNCHANGED trie
     \/ \E t \in Rooted, k \in 0 .. Len(key) - 1 :
          /\ search_node(t, SubSeq(key, 1, k + 1)) = Null
          /\ trie' = insert_node(t, SubSeq(key, 1, k))

(* ... or the process ends: __pt_add_kid tidies up after a node it did not get  *)
(* by a pointer e that was never set; if e happens not to be NULL, it asks      *)
(* realloc() for what the edges have, which changes nothing or gives NULL.      *)
pt_add_exits(key) ==
  /\ trie # NoTrie => search_node(trie, key) = Null
  /\ exited' = TRUE
  /\ ref' = Null
  /\ UNCHANGED <<trie, freed>>

EmptyAfterSet(old, new) ==
  trie.empty - (IF old = Null /\ new # Null THEN 1 ELSE 0)
             + (IF old # Null /\ new = Null THEN 1 ELSE 0)

(* A caller stores what it has just allocated, or NULL: an address that is free. *)
pt_set(d) ==
  LET old == trie.node[ref].data IN
  /\ ref # Null
  /\ d \notin DataOf(trie) \ freed
  /\ trie' = [trie EXCEPT !.node[ref].data = d, !.empty = EmptyAfterSet(old, d)]
  /\ freed' = freed \ {d}
  /\ UNCHANGED ref

(* A caller forgets a reference to a node that is gone. *)
KeptRef == IF ref \in Node(trie') THEN ref ELSE Null

(* pt_del destroys the data and cuts the branch if the node is dead, which it *)
(* is not as long as it has data: a node with data stays, and so do its data, *)
(* which are destroyed.                                                     *)
pt_del(key) ==
  LET n == search_node(trie, key) IN
  /\ trie # NoTrie
  /\ n # Null
  /\ trie' = cut_branch(trie, n)
  /\ freed' = freed \cup ({trie.node[n].data} \ {Null})
  /\ ref' = KeptRef

(* The tree after pt_trim: what is below the first branching of each stem *)
(* is deleted; a stem that does not branch stays ("keep the whip").       *)
Trimmed(t) ==
  LET stems == {t.node[Root].edge[i].kid : i \in DOMAIN t.node[Root].edge}
  IN  trim_below(t, {StemEnd(t, n) : n \in stems})

(* A fault: the data of the nodes that stay are destroyed as well. *)
Destroyed_all(t) == DataOf(t)

(* The destructor gets the data of each node that goes when rest stays of t. *)
DataGone(t, rest) == {t.node[n].data : n \in Node(t) \ Node(rest)} \ {Null}

Destroyed(t) == DataGone(t, Trimmed(t))

pt_trim ==
  /\ trie # NoTrie
  /\ trie' = Trimmed(trie)
  /\ freed' = freed \cup Destroyed(trie)
  /\ ref' = KeptRef

pt_nuke ==
  /\ trie # NoTrie
  /\ trie' = NoTrie
  /\ freed' = freed \cup DataGone(trie, trim_below(trie, {Root}))
  /\ ref' = Null

Others ==
  \/ \E key \in Word : pt_get(key) \/ pt_add(key) \/ pt_add_fails(key)
  \/ \E d \in Datum \cup {Null} : pt_set(d)
  \/ pt_trim
  \/ pt_nuke

Exits == \E key \in Word : pt_add_exits(key)

TreeNext ==
  /\ ~ exited
  /\ \/ (Others \/ \E key \in Word : pt_del(key)) /\ UNCHANGED exited
     \/ Exits

TreeSpec == TreeInit /\ [][TreeNext]_treeVars

StoredAt(key) ==
  LET n == IF trie = NoTrie THEN Null ELSE search_node(trie, key)
  IN  IF n = Null THEN Null ELSE trie.node[n].data

Dangling == DataOf(trie) \cap freed # {}

(* What callers have to do, as pt_del leaves the data it destroys in the node: *)
(* who deletes a word that has data holds a reference to them, and stores NULL *)
(* through it before anything else is done with the tree.                    *)
MayDelete(key) == StoredAt(key) # Null => ref = search_node(trie, key)

TidyNext ==
  /\ ~ exited
  /\ \/ /\ Dangling /\ pt_set(Null)
        /\ UNCHANGED exited
     \/ /\ ~ Dangling
        /\ Others \/ \E key \in Word : MayDelete(key) /\ pt_del(key)
        /\ UNCHANGED exited
     \/ ~ Dangling /\ Exits

TidySpec == TreeInit /\ [][TidyNext]_treeVars

-----------------------------------------------------------------------------

(* Parents and edges say the same, no edge leads to a freed node, and each *)
(* node's edges are sorted by distinct letters.                            *)
TreeTypeOK ==
  /\ ref \in Node(trie) \cup {Null}
  /\ freed \subseteq Datum
  /\ trie # NoTrie => Root \in Node(trie) /\ trie.node[Root].data = Null
  /\ \A n \in Node(trie) :
       LET e == trie.node[n].edge IN
       /\ trie.node[n].data \in Datum \cup {Null}
       /\ \A i \in DOMAIN e : e[i].kid \in Node(trie) /\ trie.node[e[i].kid].parent = n
       /\ \A i, j \in DOMAIN e : i < j => e[i].s < e[j].s
       /\ n # Root => /\ trie.node[n].parent \in Node(trie)
                      /\ \E i \in DOMAIN trie.node[trie.node[n].parent].edge :
                           trie.node[trie.node[n].parent].edge[i].kid = n

(* What a word stands for: not what was destroyed. *)
KeptAt(key) == LET d == StoredAt(key) IN IF d \in freed THEN Null ELSE d

(* No word is deleted together with another, a trim cuts each stem at its   *)
(* first branching, whatever is removed is destroyed once: the trie is a    *)
(* dictionary for callers that clear what they delete at once.              *)
Dict == INSTANCE Dictionary WITH
  Data <- Datum,
  contents <- [w \in Word |-> KeptAt(w)],
  at <- IF ref = Null THEN Null ELSE CHOOSE w \in Word : search_node(trie, w) = ref

ImplementsDictionary == Dict!Spec

(* A trim removes a word exactly if the words that share some proper prefix *)
(* of it go different ways; a stem that ends in one word is kept whole.      *)
TrimKeepsWhips ==
  [][pt_trim => \A w \in Word : StoredAt(w) # Null =>
       (StoredAt(w)' = Null <=> \E k \in 1 .. Len(w) - 1 :
          Len(trie.node[search_node(trie, SubSeq(w, 1, k))].edge) > 1)]_treeVars

(* The data that pt_walk visits, in its order: a node, then its kids with all   *)
(* that is below them; no node is deeper than there are nodes.               *)
walk(t) ==
  LET from[depth \in 0 .. Cardinality(Node(t))] == [n \in Node(t) |->
        (IF t.node[n].data = Null THEN << >> ELSE << t.node[n].data >>)
          \o IF depth = 0 THEN << >>
             ELSE FoldLeft(LAMBDA seen, e : seen \o from[depth - 1][e.kid], << >>, t.node[n].edge)]
  IN  from[Cardinality(Node(t))][Root]

Before(v, w) ==
  \/ IsStrictPrefix(v, w)
  \/ \E k \in DOMAIN v \cap DOMAIN w :
       v[k] < w[k] /\ SubSeq(v, 1, k - 1) = SubSeq(w, 1, k - 1)

(* pt_walk visits every datum that is stored once, in the order of a lexicon, *)
(* whatever the order of insertions and deletions.                            *)
WalkIsSorted ==
  trie # NoTrie =>
    LET full == {w \in Word : StoredAt(w) # Null}
    IN  walk(trie) = [k \in 1 .. Cardinality(full) |->
          StoredAt(CHOOSE w \in full : Cardinality({v \in full : Before(v, w)}) = k - 1)]

(* What was destroyed is nowhere in the tree but where the caller that has   *)
(* deleted a word is about to clear it, and the destructor gets no datum twice. *)
DanglesAtHandOnly == \A n \in Node(trie) : trie.node[n].data \in freed => n = ref

(* A destructor need not mind the node of its data, as that node is deleted   *)
(* (utils-tests/prefix-tree/trie-test.c:31-33): nothing destroyed is stored.  *)
NoDanglingData == ~ Dangling

=============================================================================
