------------------------------- MODULE MemPool -------------------------------
(***************************************************************************)
(* The pool of memory blocks of utils/mempool.c, from which list nodes and *)
(* trie nodes come.  The free blocks are a list that is threaded through   *)
(* the blocks themselves: the first word of a free block points to the     *)
(* next one.  A pool that runs out of free blocks gets a page of them; a    *)
(* page is never given back.                                               *)
(*                                                                         *)
(* The first word of a block that is in use belongs to its holder: link is *)
(* a function on the free blocks only.  A block is <<page, number>>, pages *)
(* being numbered by their place in the array mp->pages.                   *)
(***************************************************************************)
EXTENDS Memory, Integers, FiniteSets

CONSTANTS
  BlocksPerPage,  \* MEMPOOL_BLOCKS_PER_PAGE
  MaxPages        \* BOUND: the array of pages does not grow beyond this

ASSUME PageAssumption ==
  /\ BlocksPerPage \in Nat \ {0}
  /\ MaxPages \in Nat

ASSUME NullAssumption == Null \notin Nat \X Nat

VARIABLES
  head,    \* mp->head, the first free block
  link,    \* the first words of the free blocks
  npages,  \* the length of mp->pages
  taken,   \* the blocks that callers hold
  got      \* what the last mempool_get_block returned

memVars == <<head, link, npages, taken, got>>

-----------------------------------------------------------------------------

Page(k) == {k} \X (1 .. BlocksPerPage)

First(k) == <<k, 1>>

(* __mp__init_blocks chains the blocks of a new page. *)
Chained(b) == IF b[2] < BlocksPerPage THEN <<b[1], b[2] + 1>> ELSE Null

(* new_mempool: a pool starts with one page. *)
MemInit ==
  /\ npages = 1
  /\ head = First(1)
  /\ link = [b \in Page(1) |-> Chained(b)]
  /\ taken = {}
  /\ got = Null

(* mempool_get_block takes the head of the free list ... *)
GetFree ==
  /\ head # Null
  /\ got' = head
  /\ head' = link[head]
  /\ link' = [b \in DOMAIN link \ {head} |-> link[b]]
  /\ taken' = taken \cup {head}
  /\ UNCHANGED npages

(* ... or the first block of a new page. *)
GetFromNewPage ==
  LET k == npages + 1 IN
  /\ head = Null
  /\ k <= MaxPages
  /\ npages' = k
  /\ got' = First(k)
  /\ head' = Chained(First(k))
  /\ link' = [b \in (DOMAIN link \cup Page(k)) \ {First(k)} |->
                IF b \in Page(k) THEN Chained(b) ELSE link[b]]
  /\ taken' = taken \cup {First(k)}

(* A fault: the failure goes unnoticed, a block of the last page is given. *)
GetFails_unnoticed ==
  /\ head = Null
  /\ got' = First(npages)
  /\ \/ UNCHANGED npages
     \/ npages < MaxPages /\ npages' = npages + 1
  /\ UNCHANGED <<head, link, taken>>

(* __mp__new_page fails: realloc() of the array of pages is undone, malloc() *)
(* of the page itself leaves the array one longer.                           *)
GetFails ==
  /\ head = Null
  /\ got' = Null
  /\ \/ UNCHANGED npages
     \/ npages < MaxPages /\ npages' = npages + 1
  /\ UNCHANGED <<head, link, taken>>

mempool_put_block(b) ==
  /\ head' = b
  /\ link' = [c \in DOMAIN link \cup {b} |-> IF c = b THEN head ELSE link[c]]
  /\ taken' = taken \ {b}
  /\ UNCHANGED <<npages, got>>

(* The callers' discipline: they put only what they hold.  The pool cannot *)
(* tell.                                                                    *)
MemNext ==
  \/ GetFree
  \/ GetFromNewPage
  \/ GetFails
  \/ \E b \in taken : mempool_put_block(b)

MemSpec == MemInit /\ [][MemNext]_memVars

-----------------------------------------------------------------------------

Block == (1 .. npages) \X (1 .. BlocksPerPage)

(* The free list links free blocks of the pool's pages. *)
MemTypeOK ==
  /\ npages \in Nat \ {0}
  /\ taken \subseteq Block
  /\ DOMAIN link \subseteq Block
  /\ link = [b \in DOMAIN link |-> link[b]]
  /\ \A b \in DOMAIN link : link[b] \in DOMAIN link \cup {Null}
  /\ head \in DOMAIN link \cup {Null}

(* No block is on the free list and in use: the first word of a block is *)
(* never written by the pool and by its holder both.                     *)
FreeNotTaken == DOMAIN link \cap taken = {}

(* No two links lead to the same block and none leads to the head: the    *)
(* block that is taken off the list is referred to by nothing that is left. *)
LinksAreSeparate ==
  /\ \A b \in DOMAIN link : link[b] # Null => link[b] # head
  /\ \A b, c \in DOMAIN link : link[b] = link[c] /\ link[b] # Null => b = c

(* The first n blocks of the free list. *)
FreeList(n) ==
  LET after(b) == IF b = Null THEN Null ELSE link[b]
      nth[k \in Nat] == IF k = 0 THEN head ELSE after(nth[k - 1])
  IN  {nth[k] : k \in 0 .. n - 1} \ {Null}

(* No block is ever lost: whatever was put back can be got again before the *)
(* pool asks for another page.                                              *)
EveryFreeBlockIsListed == FreeList(Cardinality(DOMAIN link)) = DOMAIN link

Allocator == INSTANCE BlockAllocator WITH inUse <- taken

(* A get never delivers a block that somebody holds. *)
ImplementsAllocator == Allocator!Spec

=============================================================================
