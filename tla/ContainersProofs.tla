--------------------------- MODULE ContainersProofs ---------------------------
(***************************************************************************)
(* The containers of utils/, each for all its constants: the memory pool,    *)
(* the lists, the pool of objects, the dynamic array, the buffers of a worker *)
(* and the prefix tree.                                                     *)
(***************************************************************************)
EXTENDS List, Pool, DynArray, DataBuffer, PrefixTree, FiniteSetTheorems,
  WellFoundedInduction, TLAPS

(***************************************************************************)
(* The memory pool, for every size and number of pages: a block is never    *)
(* handed out while somebody holds it, whatever the order of gets and puts, *)
(* and across failures of malloc() and realloc().                           *)
(***************************************************************************)

(* The inductive invariant.  LinksAreSeparate is what makes it inductive: it *)
(* says that the free list, once its head is taken, leads to other blocks.   *)
MemInv == MemTypeOK /\ FreeNotTaken /\ LinksAreSeparate

(* NULL is no block. *)
LEMMA NullIsNoBlock ==
  ASSUME MemTypeOK
  PROVE  Null \notin Block
BY NullAssumption, PageAssumption DEF MemTypeOK, Block

(* The chain of a new page: within the page, ending in NULL, never leading  *)
(* to the first block, and never two links to one block.                    *)
LEMMA PageChain ==
  ASSUME NEW k \in Nat \ {0}
  PROVE  /\ First(k) \in Page(k)
         /\ Null \notin Page(k)
         /\ \A b \in Page(k) : Chained(b) \in (Page(k) \ {First(k)}) \cup {Null}
         /\ \A b, c \in Page(k) : Chained(b) = Chained(c) /\ Chained(b) # Null => b = c
<1>1. First(k) \in Page(k)
  BY PageAssumption DEF First, Page
<1>2. Null \notin Page(k)
  BY NullAssumption, PageAssumption DEF Page
<1>3. ASSUME NEW b \in Page(k), Chained(b) # Null
      PROVE  /\ Chained(b) = <<k, b[2] + 1>>
             /\ b = <<k, b[2]>>
             /\ b[2] \in 1 .. BlocksPerPage - 1
  BY <1>3, PageAssumption DEF Chained, Page
<1>4. ASSUME NEW b \in Page(k)
      PROVE  Chained(b) \in (Page(k) \ {First(k)}) \cup {Null}
  BY <1>3, PageAssumption DEF Page, First
<1>5. ASSUME NEW b \in Page(k), NEW c \in Page(k),
             Chained(b) = Chained(c), Chained(b) # Null
      PROVE  b = c
  <2>1. b[2] + 1 = c[2] + 1
    BY <1>3, <1>5
  <2>. QED
    BY <2>1, <1>3, <1>5, PageAssumption
<1>. QED
  BY <1>1, <1>2, <1>4, <1>5

(* A page that is added is disjoint from the pages there are.               *)
LEMMA NewPageIsNew ==
  ASSUME MemTypeOK
  PROVE  /\ Page(npages + 1) \cap Block = {}
         /\ \A n \in Nat : n = npages + 1 =>
              (1 .. n) \X (1 .. BlocksPerPage) = Block \cup Page(npages + 1)
BY PageAssumption DEF MemTypeOK, Block, Page

(* A new pool satisfies the invariant.                                      *)
LEMMA MemInitHolds ==
  ASSUME MemInit
  PROVE  MemInv /\ Allocator!Init
<1>1. Block = Page(1)
  BY DEF MemInit, Block, Page
<1>2. MemTypeOK
  BY <1>1, PageChain DEF MemInit, MemTypeOK
<1>3. FreeNotTaken
  BY DEF MemInit, FreeNotTaken
<1>4. LinksAreSeparate
  BY PageChain DEF MemInit, LinksAreSeparate
<1>. QED
  BY <1>2, <1>3, <1>4 DEF MemInv, Allocator!Init, MemInit

(* Taking the head of the free list.                                        *)
LEMMA GetFreeStep ==
  ASSUME MemInv, GetFree
  PROVE  MemInv' /\ Allocator!Get(got')
<1>. USE DEF MemInv
<1>1. /\ head \in DOMAIN link
      /\ head \in Block
      /\ head \notin taken
      /\ head # Null
  BY DEF GetFree, MemTypeOK, FreeNotTaken
<1>2. /\ DOMAIN link' = DOMAIN link \ {head}
      /\ \A b \in DOMAIN link' : link'[b] = link[b]
      /\ head' = link[head]
      /\ taken' = taken \cup {head}
      /\ got' = head
      /\ npages' = npages
  BY DEF GetFree
<1>3. MemTypeOK'
  <2>1. ASSUME NEW b \in DOMAIN link'
        PROVE  link'[b] \in DOMAIN link' \cup {Null}
    BY <1>1, <1>2 DEF MemTypeOK, LinksAreSeparate
  <2>2. head' \in DOMAIN link' \cup {Null}
    BY <1>1, <1>2 DEF MemTypeOK, LinksAreSeparate
  <2>3. taken' \subseteq Block' /\ DOMAIN link' \subseteq Block'
    BY <1>1, <1>2 DEF MemTypeOK, Block
  <2>4. link' = [b \in DOMAIN link' |-> link'[b]]
    BY DEF GetFree
  <2>. QED
    BY <1>2, <2>1, <2>2, <2>3, <2>4 DEF MemTypeOK
<1>4. FreeNotTaken'
  BY <1>2 DEF FreeNotTaken
<1>5. LinksAreSeparate'
  BY <1>1, <1>2 DEF LinksAreSeparate
<1>. QED
  BY <1>1, <1>2, <1>3, <1>4, <1>5 DEF Allocator!Get

(* Taking the first block of a new page.                                    *)
LEMMA GetFromNewPageStep ==
  ASSUME MemInv, GetFromNewPage
  PROVE  MemInv' /\ Allocator!Get(got')
<1>. USE DEF MemInv
<1>. DEFINE k == npages + 1
<1>1. k \in Nat \ {0} /\ head = Null
  BY DEF MemTypeOK, GetFromNewPage
<1>2. /\ First(k) \in Page(k)
      /\ Null \notin Page(k)
      /\ \A b \in Page(k) : Chained(b) \in (Page(k) \ {First(k)}) \cup {Null}
      /\ \A b, c \in Page(k) : Chained(b) = Chained(c) /\ Chained(b) # Null => b = c
  BY <1>1, PageChain
<1>3. /\ DOMAIN link \cap Page(k) = {}
      /\ taken \cap Page(k) = {}
      /\ Null \notin DOMAIN link
  BY NewPageIsNew, NullIsNoBlock DEF MemTypeOK
<1>4. /\ npages' = k
      /\ got' = First(k)
      /\ head' = Chained(First(k))
      /\ taken' = taken \cup {First(k)}
      /\ DOMAIN link' = (DOMAIN link \cup Page(k)) \ {First(k)}
      /\ \A b \in DOMAIN link' : link'[b] = IF b \in Page(k) THEN Chained(b) ELSE link[b]
      /\ link' = [b \in DOMAIN link' |-> link'[b]]
  BY DEF GetFromNewPage
<1>5. Block' = Block \cup Page(k)
  BY <1>1, <1>4, NewPageIsNew DEF Block
<1>. HIDE DEF k
<1>6. MemTypeOK'
  <2>1. ASSUME NEW b \in DOMAIN link'
        PROVE  link'[b] \in DOMAIN link' \cup {Null}
    BY <1>2, <1>3, <1>4 DEF MemTypeOK
  <2>2. head' \in DOMAIN link' \cup {Null}
    BY <1>2, <1>4
  <2>3. taken' \subseteq Block' /\ DOMAIN link' \subseteq Block'
    BY <1>2, <1>4, <1>5 DEF MemTypeOK
  <2>. QED
    BY <1>1, <1>4, <2>1, <2>2, <2>3 DEF MemTypeOK
<1>7. FreeNotTaken'
  BY <1>3, <1>4 DEF FreeNotTaken
<1>8. LinksAreSeparate'
  <2>1. ASSUME NEW b \in DOMAIN link', link'[b] # Null
        PROVE  link'[b] # head'
    <3>1. CASE b \in Page(k)
      BY <2>1, <3>1, <1>2, <1>4
    <3>2. CASE b \notin Page(k)
      <4>1. link'[b] \in DOMAIN link
        BY <2>1, <3>2, <1>4 DEF MemTypeOK
      <4>. QED
        BY <2>1, <4>1, <1>2, <1>3, <1>4
    <3>. QED
      BY <3>1, <3>2
  <2>2. ASSUME NEW b \in DOMAIN link', NEW c \in DOMAIN link',
               link'[b] = link'[c], link'[b] # Null
        PROVE  b = c
    <3>1. CASE b \in Page(k) /\ c \in Page(k)
      BY <2>2, <3>1, <1>2, <1>4
    <3>2. CASE b \notin Page(k) /\ c \notin Page(k)
      BY <2>2, <3>2, <1>4 DEF LinksAreSeparate
    <3>3. CASE b \in Page(k) /\ c \notin Page(k)
      BY <2>2, <3>3, <1>2, <1>3, <1>4 DEF MemTypeOK
    <3>4. CASE b \notin Page(k) /\ c \in Page(k)
      BY <2>2, <3>4, <1>2, <1>3, <1>4 DEF MemTypeOK
    <3>. QED
      BY <3>1, <3>2, <3>3, <3>4
  <2>. QED
    BY <2>1, <2>2 DEF LinksAreSeparate
<1>. QED
  BY <1>2, <1>3, <1>4, <1>6, <1>7, <1>8 DEF Allocator!Get

(* A get that fails.                                                        *)
LEMMA GetFailsStep ==
  ASSUME MemInv, GetFails
  PROVE  MemInv' /\ Allocator!GetFails
<1>1. /\ npages' \in Nat \ {0}
      /\ Block \subseteq Block'
      /\ UNCHANGED <<head, link, taken>>
      /\ got' = Null
  BY PageAssumption DEF MemInv, MemTypeOK, GetFails, Block
<1>. QED
  BY <1>1 DEF MemInv, MemTypeOK, FreeNotTaken, LinksAreSeparate, Allocator!GetFails

(* Putting a block back.                                                    *)
LEMMA PutBlockStep ==
  ASSUME MemInv, NEW b \in taken, mempool_put_block(b)
  PROVE  MemInv' /\ Allocator!Put(b)
<1>. USE DEF MemInv
<1>1. b \in Block /\ b \notin DOMAIN link /\ b # Null
  BY NullIsNoBlock DEF MemTypeOK, FreeNotTaken
<1>2. /\ head' = b
      /\ DOMAIN link' = DOMAIN link \cup {b}
      /\ link'[b] = head
      /\ \A c \in DOMAIN link : link'[c] = link[c]
      /\ taken' = taken \ {b}
      /\ npages' = npages /\ got' = got
      /\ link' = [c \in DOMAIN link' |-> link'[c]]
  BY <1>1 DEF mempool_put_block
<1>3. MemTypeOK'
  BY <1>1, <1>2 DEF MemTypeOK, Block
<1>4. FreeNotTaken'
  BY <1>2 DEF FreeNotTaken
<1>5. LinksAreSeparate'
  BY <1>1, <1>2 DEF LinksAreSeparate, MemTypeOK
<1>. QED
  BY <1>2, <1>3, <1>4, <1>5 DEF Allocator!Put

(* Every step keeps the invariant and is a step of the allocator.           *)
LEMMA MemStepHolds ==
  ASSUME MemInv, [MemNext]_memVars
  PROVE  MemInv' /\ [Allocator!Next]_Allocator!vars
<1>1. CASE GetFree
  BY <1>1, GetFreeStep DEF Allocator!Next
<1>2. CASE GetFromNewPage
  BY <1>2, GetFromNewPageStep DEF Allocator!Next
<1>3. CASE GetFails
  BY <1>3, GetFailsStep DEF Allocator!Next
<1>4. ASSUME NEW b \in taken, mempool_put_block(b)
      PROVE  MemInv' /\ Allocator!Next
  BY <1>4, PutBlockStep DEF Allocator!Next
<1>5. CASE UNCHANGED memVars
  BY <1>5 DEF memVars, MemInv, MemTypeOK, Block, FreeNotTaken, LinksAreSeparate, Allocator!vars
<1>. QED
  BY <1>1, <1>2, <1>3, <1>4, <1>5 DEF MemNext

(* Every reachable state of the pool satisfies the invariant: in particular *)
(* no link leads out of the pool's pages, no block is free and in use, and  *)
(* no block is referred to twice.                                           *)
THEOREM MemPoolInvariance == MemSpec => [](MemTypeOK /\ FreeNotTaken /\ LinksAreSeparate)
<1>1. MemInit => MemInv
  BY MemInitHolds
<1>2. MemInv /\ [MemNext]_memVars => MemInv'
  BY MemStepHolds
<1>. QED
  BY <1>1, <1>2, PTL DEF MemSpec, MemInv

(* mempool_get_block never delivers a block that somebody holds.            *)
THEOREM AllocatorRefinement == MemSpec => ImplementsAllocator
<1>1. MemInit => Allocator!Init
  BY MemInitHolds
<1>2. MemInv /\ [MemNext]_memVars => [Allocator!Next]_Allocator!vars
  BY MemStepHolds
<1>3. MemSpec => []MemInv
  BY MemPoolInvariance, PTL DEF MemInv
<1>. QED
  BY <1>1, <1>2, <1>3, PTL DEF MemSpec, ImplementsAllocator, Allocator!Spec

-----------------------------------------------------------------------------

(***************************************************************************)
(* The lists of utils/list.c and the pool of their nodes, for any number of  *)
(* lists, blocks and pages: no block is lost, none has two places, and each    *)
(* list is a sequence of its own.                                           *)
(*                                                                         *)
(* The nodes of a list and the free blocks are what one comes by along links, *)
(* computed by recursive functions (Nodes, FreeList).  The proofs go by the   *)
(* sequence that is found (Leads), of which each operation makes another; that *)
(* the recursive functions find this sequence is shown once, by the least     *)
(* number for which they do not.                                             *)
(***************************************************************************)

(* The least-number principle, for sets: what is shown of the values of a     *)
(* recursive function, or of a CHOOSE, rests on it.                          *)
LEMMA LeastNumber ==
  ASSUME NEW S, S \subseteq Nat, S # {}
  PROVE  \E m \in S : \A k \in S : m <= k
<1>. DEFINE R == {ss \in Nat \X Nat : ss[1] < ss[2]}
<1>1. IsWellFoundedOn(R, Nat)
  BY NatLessThanWellFounded DEF OpToRel
<1>2. PICK m \in S : \A k \in S : ~ (<<k, m>> \in R)
  <2>. HIDE DEF R
  <2>. QED
    BY <1>1, WFMin
<1>3. ASSUME NEW k \in S PROVE m <= k
  <2>1. m \in Nat /\ k \in Nat
    OBVIOUS
  <2>2. k < m => <<k, m>> \in R
    BY <2>1
  <2>. QED
    BY <1>2, <2>1, <2>2
<1>. QED
  BY <1>3

(* Two functions that agree on a number whenever they agree on all smaller    *)
(* ones agree.                                                              *)
StepByStep(S, f, g) ==
  S \subseteq Nat /\ \A k \in S : (\A j \in S : j < k => f[j] = g[j]) => f[k] = g[k]

LEMMA FunctionsAgree ==
  ASSUME NEW S, NEW f, NEW g, StepByStep(S, f, g)
  PROVE  \A k \in S : f[k] = g[k]
<1>. USE DEF StepByStep
<1>. DEFINE Differ == {k \in S : f[k] # g[k]}
<1>1. SUFFICES ASSUME Differ # {} PROVE FALSE
  OBVIOUS
<1>2. Differ \subseteq Nat
  OBVIOUS
<1>3. PICK m \in Differ : \A k \in Differ : m <= k
  <2>. HIDE DEF Differ
  <2>. QED
    BY <1>1, <1>2, LeastNumber
<1>4. \A j \in S : j < m => f[j] = g[j]
  <2>1. ASSUME NEW j \in S, j < m, f[j] # g[j] PROVE FALSE
    <3>1. j \in Differ /\ j \in Nat /\ m \in Nat
      BY <2>1
    <3>. QED
      BY <3>1, <2>1, <1>3
  <2>. QED
    BY <2>1
<1>. QED
  BY <1>4

(* There are n numbers up to n.                                             *)
LEMMA UpTo ==
  ASSUME NEW n \in Nat
  PROVE  IsFiniteSet(1 .. n) /\ Cardinality(1 .. n) = n
<1>1. 1 \in Int /\ n \in Int
  OBVIOUS
<1>2. 1 > n <=> n = 0
  OBVIOUS
<1>3. n - 1 + 1 = n
  OBVIOUS
<1>. QED
  BY <1>1, <1>2, <1>3, FS_Interval

(* The nodes of s are what one comes by from h on: distinct, each linked to   *)
(* the next one and the last one to nothing.                                *)
Leads(h, links, s) ==
  /\ s \in Seq(DOMAIN links)
  /\ IsInjective(s)
  /\ h = IF s = << >> THEN Null ELSE s[1]
  /\ \A k \in 1 .. Len(s) : links[s[k]] = IF k = Len(s) THEN Null ELSE s[k + 1]

(* There are no more nodes on the way than there are.                       *)
LEMMA WayIsShort ==
  ASSUME NEW h, NEW links, NEW s, IsFiniteSet(DOMAIN links), Leads(h, links, s)
  PROVE  /\ Cardinality(DOMAIN links) \in Nat
         /\ Len(s) <= Cardinality(DOMAIN links)
         /\ ToSet(s) = DOMAIN links => Len(s) = Cardinality(DOMAIN links)
<1>. DEFINE D == DOMAIN links
<1>1. Len(s) \in Nat /\ s \in [1 .. Len(s) -> D] /\ IsInjective(s)
  BY DEF Leads
<1>2. IsFiniteSet(1 .. Len(s)) /\ Cardinality(1 .. Len(s)) = Len(s)
  BY <1>1, UpTo
<1>3. s \in Injection(1 .. Len(s), D)
  BY <1>1 DEF Injection
<1>. HIDE DEF D
<1>4. Cardinality(D) \in Nat /\ Cardinality(1 .. Len(s)) <= Cardinality(D)
  BY <1>3, FS_Injection, FS_CardinalityType DEF D
<1>5. ASSUME ToSet(s) = D PROVE s \in Surjection(1 .. Len(s), D)
  <2>1. \A t \in D : \E k \in 1 .. Len(s) : s[k] = t
    BY <1>1, <1>5 DEF ToSet
  <2>. QED
    BY <1>1, <2>1 DEF Surjection
<1>6. ASSUME ToSet(s) = D PROVE Len(s) = Cardinality(D)
  BY <1>2, <1>3, <1>5, <1>6, FS_Injection DEF D
<1>. QED
  BY <1>2, <1>4, <1>6 DEF D

(* Nodes() finds them, in their order.                                      *)
LEMMA NodesAreThese ==
  ASSUME NEW h, NEW links, NEW s, IsFiniteSet(DOMAIN links), Null \notin DOMAIN links,
         Leads(h, links, s)
  PROVE  Nodes(h, links) = s
<1>. DEFINE max == Cardinality(DOMAIN links)
            F(g) == [k \in 1 .. max + 1 |->
                      IF k = 1 THEN h ELSE IF g[k - 1] \in DOMAIN links THEN links[g[k - 1]] ELSE Null]
            at == CHOOSE g : g = F(g)
            w == [k \in 1 .. max + 1 |-> IF k <= Len(s) THEN s[k] ELSE Null]
<1>1. max \in Nat /\ Len(s) <= max /\ Len(s) \in Nat
  BY WayIsShort DEF Leads
<1>2. \A k \in 1 .. Len(s) : s[k] \in DOMAIN links
  BY DEF Leads
<1>3. w = F(w)
  <2>1. ASSUME NEW k \in 1 .. max + 1
        PROVE  w[k] = IF k = 1 THEN h ELSE IF w[k - 1] \in DOMAIN links THEN links[w[k - 1]] ELSE Null
    <3>. HIDE DEF max
    <3>1. CASE k = 1
      <4>1. 1 \in 1 .. max + 1
        BY <1>1
      <4>2. h = IF 1 <= Len(s) THEN s[1] ELSE Null
        BY <1>1 DEF Leads
      <4>. QED
        BY <3>1, <4>1, <4>2
    <3>2. CASE k # 1
      <4>1. k - 1 \in 1 .. max + 1 /\ k - 1 \in Nat
        BY <3>2, <1>1
      <4>2. CASE k - 1 <= Len(s)
        <5>1. k - 1 \in 1 .. Len(s)
          BY <4>1, <4>2, <1>1, <3>2
        <5>2. w[k - 1] = s[k - 1] /\ s[k - 1] \in DOMAIN links
          BY <4>1, <4>2, <5>1, <1>2
        <5>3. links[s[k - 1]] = IF k - 1 = Len(s) THEN Null ELSE s[k - 1 + 1]
          BY <5>1 DEF Leads
        <5>. QED
          BY <5>1, <5>2, <5>3, <3>2, <1>1
      <4>3. CASE ~ (k - 1 <= Len(s))
        <5>1. w[k - 1] = Null /\ w[k] = Null
          BY <4>1, <4>3, <1>1
        <5>. QED
          BY <5>1, <3>2
      <4>. QED
        BY <4>2, <4>3
    <3>. QED
      BY <3>1, <3>2
  <2>2. DOMAIN w = 1 .. max + 1
    OBVIOUS
  <2>. QED
    BY <2>1, <2>2
<1>4. at = F(at)
  <2>. HIDE DEF F, w
  <2>. QED
    BY <1>3
<1>5. \A k \in 1 .. max + 1 :
        at[k] = IF k = 1 THEN h ELSE IF at[k - 1] \in DOMAIN links THEN links[at[k - 1]] ELSE Null
  <2>. HIDE DEF at, max
  <2>. QED
    BY <1>4
<1>6. \A k \in 1 .. max + 1 :
        w[k] = IF k = 1 THEN h ELSE IF w[k - 1] \in DOMAIN links THEN links[w[k - 1]] ELSE Null
  <2>. HIDE DEF w, max
  <2>. QED
    BY <1>3
<1>7. \A k \in 1 .. max + 1 : at[k] = w[k]
  <2>1. PICK S : S = 1 .. max + 1
    OBVIOUS
  <2>2. S \subseteq Nat
    BY <2>1, <1>1
  <2>3. ASSUME NEW k \in S, \A j \in S : j < k => at[j] = w[j]
        PROVE  at[k] = w[k]
    <3>. HIDE DEF at, w, max
    <3>1. k = 1 \/ (k - 1 \in S /\ k - 1 < k)
      BY <2>1, <1>1
    <3>. QED
      BY <3>1, <2>1, <2>3, <1>5, <1>6
  <2>. HIDE DEF at, w, max
  <2>4. StepByStep(S, at, w)
    BY <2>2, <2>3 DEF StepByStep
  <2>5. \A k \in S : at[k] = w[k]
    BY ONLY <2>4, FunctionsAgree
  <2>. QED
    BY <2>1, <2>5
<1>8. {k \in 1 .. max + 1 : at[k] # Null} = 1 .. Len(s)
  <2>1. \A k \in 1 .. max + 1 : at[k] # Null <=> k <= Len(s)
    <3>. HIDE DEF at, max
    <3>. QED
      BY <1>1, <1>2, <1>7
  <2>. HIDE DEF at, max
  <2>. QED
    BY <1>1, <2>1
<1>9. Cardinality({k \in 1 .. max + 1 : at[k] # Null}) = Len(s)
  <2>. HIDE DEF at, max
  <2>1. Cardinality(1 .. Len(s)) = Len(s)
    BY <1>1, UpTo
  <2>. QED
    BY <1>8, <2>1
<1>10. Nodes(h, links) = [k \in 1 .. Cardinality({k \in 1 .. max + 1 : at[k] # Null}) |-> at[k]]
  BY DEF Nodes
<1>11. \A k \in 1 .. Len(s) : at[k] = s[k]
  <2>. HIDE DEF at, max
  <2>. QED
    BY <1>1, <1>7
<1>. HIDE DEF at, max
<1>12. s = [k \in 1 .. Len(s) |-> s[k]]
  BY DEF Leads
<1>. QED
  BY <1>9, <1>10, <1>11, <1>12

(* What mempool_get_block will deliver, one block after another, is every     *)
(* free block.                                                              *)
LEMMA FreeBlocksAreListed ==
  ASSUME NEW s, IsFiniteSet(DOMAIN link), Null \notin DOMAIN link,
         Leads(head, link, s), ToSet(s) = DOMAIN link
  PROVE  EveryFreeBlockIsListed
<1>. DEFINE max == Cardinality(DOMAIN link)
            F(g) == [k \in Nat |->
                      IF k = 0 THEN head ELSE IF g[k - 1] = Null THEN Null ELSE link[g[k - 1]]]
            nth == CHOOSE g : g = F(g)
            w == [k \in Nat |-> IF k < Len(s) THEN s[k + 1] ELSE Null]
<1>1. max \in Nat /\ Len(s) = max /\ Len(s) \in Nat
  BY WayIsShort DEF Leads
<1>2. \A k \in 1 .. Len(s) : s[k] \in DOMAIN link /\ s[k] # Null
  BY DEF Leads
<1>3. w = F(w)
  <2>1. ASSUME NEW k \in Nat
        PROVE  w[k] = IF k = 0 THEN head ELSE IF w[k - 1] = Null THEN Null ELSE link[w[k - 1]]
    <3>1. CASE k = 0
      <4>1. head = IF 0 < Len(s) THEN s[1] ELSE Null
        BY <1>1 DEF Leads
      <4>. QED
        BY <3>1, <4>1
    <3>2. CASE k # 0
      <4>1. k - 1 \in Nat
        BY <3>2
      <4>2. CASE k - 1 < Len(s)
        <5>1. k \in 1 .. Len(s)
          BY <4>2, <1>1, <3>2
        <5>2. w[k - 1] = s[k] /\ s[k] # Null
          BY <4>1, <4>2, <5>1, <1>2
        <5>3. link[s[k]] = IF k = Len(s) THEN Null ELSE s[k + 1]
          BY <5>1 DEF Leads
        <5>. QED
          BY <5>1, <5>2, <5>3, <3>2, <1>1
      <4>3. CASE ~ (k - 1 < Len(s))
        <5>1. w[k - 1] = Null /\ w[k] = Null
          BY <4>1, <4>3, <1>1
        <5>. QED
          BY <5>1, <3>2
      <4>. QED
        BY <4>2, <4>3
    <3>. QED
      BY <3>1, <3>2
  <2>2. DOMAIN w = Nat
    OBVIOUS
  <2>. QED
    BY <2>1, <2>2
<1>4. nth = F(nth)
  <2>. HIDE DEF F, w
  <2>. QED
    BY <1>3
<1>5. \A k \in Nat : nth[k] = IF k = 0 THEN head ELSE IF nth[k - 1] = Null THEN Null ELSE link[nth[k - 1]]
  <2>. HIDE DEF nth
  <2>. QED
    BY <1>4
<1>6. \A k \in Nat : w[k] = IF k = 0 THEN head ELSE IF w[k - 1] = Null THEN Null ELSE link[w[k - 1]]
  <2>. HIDE DEF w
  <2>. QED
    BY <1>3
<1>7. \A k \in Nat : nth[k] = w[k]
  <2>1. ASSUME NEW k \in Nat, \A j \in Nat : j < k => nth[j] = w[j]
        PROVE  nth[k] = w[k]
    <3>. HIDE DEF nth, w
    <3>1. k = 0 \/ (k - 1 \in Nat /\ k - 1 < k)
      OBVIOUS
    <3>. QED
      BY <3>1, <2>1, <1>5, <1>6
  <2>. HIDE DEF nth, w
  <2>2. StepByStep(Nat, nth, w)
    BY <2>1 DEF StepByStep
  <2>. QED
    BY ONLY <2>2, FunctionsAgree
<1>8. {nth[k] : k \in 0 .. max - 1} = ToSet(s)
  <2>1. \A k \in 0 .. max - 1 : k + 1 \in 1 .. Len(s) /\ nth[k] = s[k + 1]
    <3>. HIDE DEF nth, max
    <3>. QED
      BY <1>1, <1>7
  <2>2. \A j \in 1 .. Len(s) : j - 1 \in 0 .. max - 1 /\ nth[j - 1] = s[j]
    <3>. HIDE DEF nth, max
    <3>1. \A j \in 1 .. Len(s) : j - 1 \in 0 .. max - 1 /\ j - 1 + 1 = j
      BY <1>1
    <3>. QED
      BY <2>1, <3>1
  <2>3. DOMAIN s = 1 .. Len(s)
    BY DEF Leads
  <2>. HIDE DEF nth, max
  <2>. QED
    BY <2>1, <2>2, <2>3 DEF ToSet
<1>9. FreeList(max) = {nth[k] : k \in 0 .. max - 1} \ {Null}
  BY DEF FreeList
<1>. HIDE DEF nth
<1>. QED
  BY <1>8, <1>9 DEF EveryFreeBlockIsListed

(* Blocks of a pool are finitely many.                                      *)
LEMMA BlocksAreFinite ==
  ASSUME NEW n \in Nat, NEW S, S \subseteq (1 .. n) \X (1 .. BlocksPerPage)
  PROVE  IsFiniteSet(S)
<1>1. IsFiniteSet(1 .. n) /\ IsFiniteSet(1 .. BlocksPerPage)
  BY UpTo, PageAssumption
<1>2. IsFiniteSet((1 .. n) \X (1 .. BlocksPerPage))
  BY <1>1, FS_Product
<1>. QED
  BY <1>2, FS_Subset

(* Other links do not matter.                                               *)
LEMMA StillLeads ==
  ASSUME NEW h, NEW links, NEW s, NEW other, Leads(h, links, s),
         \A k \in 1 .. Len(s) : s[k] \in DOMAIN other /\ other[s[k]] = links[s[k]]
  PROVE  Leads(h, other, s)
<1>1. s \in Seq(DOMAIN other)
  BY DEF Leads
<1>. QED
  BY <1>1 DEF Leads

(* A node that is linked to the first one.                                  *)
LEMMA LeadsFromNew ==
  ASSUME NEW h, NEW links, NEW s, NEW n, NEW other, Leads(h, links, s),
         \A k \in 1 .. Len(s) : s[k] # n /\ s[k] \in DOMAIN other /\ other[s[k]] = links[s[k]],
         n \in DOMAIN other, other[n] = h
  PROVE  /\ Leads(n, other, <<n>> \o s)
         /\ ToSet(<<n>> \o s) = ToSet(s) \cup {n}
<1>. DEFINE t == <<n>> \o s
<1>1. Len(s) \in Nat /\ s \in Seq(DOMAIN other)
  BY DEF Leads
<1>2. /\ t \in Seq(DOMAIN other) /\ Len(t) = Len(s) + 1 /\ t[1] = n
      /\ \A k \in 1 .. Len(s) : t[k + 1] = s[k]
  BY <1>1
<1>3. \A k \in 1 .. Len(t) : k = 1 \/ (k - 1 \in 1 .. Len(s) /\ t[k] = s[k - 1])
  <2>1. ASSUME NEW k \in 1 .. Len(t), k # 1 PROVE k - 1 \in 1 .. Len(s) /\ k - 1 + 1 = k
    BY <1>1, <1>2, <2>1
  <2>. QED
    BY <2>1, <1>2
<1>. HIDE DEF t
<1>4. IsInjective(t)
  <2>1. ASSUME NEW j \in 1 .. Len(t), NEW k \in 1 .. Len(t), t[j] = t[k] PROVE j = k
    <3>1. CASE j = 1 /\ k = 1
      BY <3>1
    <3>2. CASE j = 1 /\ k # 1
      BY <3>2, <1>2, <1>3, <2>1
    <3>3. CASE j # 1 /\ k = 1
      BY <3>3, <1>2, <1>3, <2>1
    <3>4. CASE j # 1 /\ k # 1
      <4>1. j - 1 \in DOMAIN s /\ k - 1 \in DOMAIN s /\ s[j - 1] = s[k - 1]
        BY <3>4, <1>1, <1>3, <2>1
      <4>2. j - 1 = k - 1
        BY <4>1 DEF Leads, IsInjective
      <4>. QED
        BY <4>2
    <3>. QED
      BY <3>1, <3>2, <3>3, <3>4
  <2>. QED
    BY <2>1, <1>2 DEF IsInjective
<1>5. ASSUME NEW k \in 1 .. Len(t)
      PROVE  other[t[k]] = IF k = Len(t) THEN Null ELSE t[k + 1]
  <2>1. CASE k = 1
    <3>1. CASE s = << >>
      BY <3>1, <2>1, <1>2 DEF Leads
    <3>2. CASE s # << >>
      <4>1. Len(s) # 0 /\ 1 \in 1 .. Len(s)
        BY <3>2, <1>1
      <4>2. t[1 + 1] = s[1] /\ h = s[1]
        BY <4>1, <1>2, <3>2 DEF Leads
      <4>. QED
        BY <4>1, <4>2, <1>1, <1>2, <2>1
    <3>. QED
      BY <3>1, <3>2
  <2>2. CASE k # 1
    <3>1. k - 1 \in 1 .. Len(s) /\ t[k] = s[k - 1]
      BY <2>2, <1>3
    <3>2. other[t[k]] = IF k - 1 = Len(s) THEN Null ELSE s[k - 1 + 1]
      BY <3>1 DEF Leads
    <3>3. k - 1 = Len(s) <=> k = Len(t)
      BY <1>1, <1>2
    <3>4. k # Len(t) => k \in 1 .. Len(s) /\ t[k + 1] = s[k]
      BY <1>1, <1>2
    <3>. QED
      BY <3>2, <3>3, <3>4
  <2>. QED
    BY <2>1, <2>2
<1>6. t # << >>
  BY <1>1, <1>2
<1>7. ToSet(t) = ToSet(s) \cup {n}
  <2>1. DOMAIN t = 1 .. Len(t) /\ DOMAIN s = 1 .. Len(s)
    BY <1>1, <1>2
  <2>2. \A k \in 1 .. Len(s) : k + 1 \in 1 .. Len(t)
    BY <1>1, <1>2
  <2>3. ASSUME NEW x \in ToSet(t) PROVE x \in ToSet(s) \cup {n}
    <3>1. PICK k \in 1 .. Len(t) : x = t[k]
      BY <2>1 DEF ToSet
    <3>2. k = 1 \/ (k - 1 \in DOMAIN s /\ t[k] = s[k - 1])
      BY <2>1, <1>3
    <3>. QED
      BY <3>1, <3>2, <1>2 DEF ToSet
  <2>4. ASSUME NEW x \in ToSet(s) PROVE x \in ToSet(t)
    <3>1. PICK k \in 1 .. Len(s) : x = s[k]
      BY <2>1 DEF ToSet
    <3>2. k + 1 \in DOMAIN t /\ t[k + 1] = x
      BY <3>1, <2>1, <2>2, <1>2
    <3>. QED
      BY <3>2 DEF ToSet
  <2>5. n \in ToSet(t)
    <3>1. 1 \in DOMAIN t
      BY <2>1, <1>1, <1>2
    <3>. QED
      BY <3>1, <1>2 DEF ToSet
  <2>. QED
    BY <2>3, <2>4, <2>5
<1>. QED
  BY <1>2, <1>4, <1>5, <1>6, <1>7 DEF Leads, t

(* A node that the last one is linked to.                                   *)
LinkedLast(links, s, n, other, t) ==
  /\ s # << >> /\ t = Append(s, n)
  /\ \A k \in 1 .. Len(s) : s[k] # n /\ s[k] \in DOMAIN other
  /\ \A k \in 1 .. Len(s) : other[s[k]] = IF k = Len(s) THEN n ELSE links[s[k]]
  /\ n \in DOMAIN other /\ other[n] = Null

LEMMA LeadsToNew ==
  ASSUME NEW h, NEW links, NEW s, NEW n, NEW other, Leads(h, links, s), NEW t,
         LinkedLast(links, s, n, other, t)
  PROVE  Leads(h, other, t) /\ ToSet(t) = ToSet(s) \cup {n}
<1>. USE DEF LinkedLast
<1>1. Len(s) \in Nat /\ s \in Seq(DOMAIN other) /\ Len(s) # 0
  BY DEF Leads
<1>2. /\ t \in Seq(DOMAIN other) /\ Len(t) = Len(s) + 1 /\ t[Len(s) + 1] = n
      /\ \A k \in 1 .. Len(s) : t[k] = s[k]
  BY <1>1
<1>3. \A k \in 1 .. Len(t) : k = Len(s) + 1 \/ (k \in 1 .. Len(s) /\ t[k] = s[k])
  BY <1>1, <1>2
<1>4. IsInjective(t)
  <2>1. ASSUME NEW j \in 1 .. Len(t), NEW k \in 1 .. Len(t), t[j] = t[k] PROVE j = k
    <3>1. CASE j = Len(s) + 1 /\ k = Len(s) + 1
      BY <3>1
    <3>2. CASE j = Len(s) + 1 /\ k # Len(s) + 1
      BY <3>2, <1>2, <1>3, <2>1
    <3>3. CASE j # Len(s) + 1 /\ k = Len(s) + 1
      BY <3>3, <1>2, <1>3, <2>1
    <3>4. CASE j # Len(s) + 1 /\ k # Len(s) + 1
      <4>1. j \in DOMAIN s /\ k \in DOMAIN s /\ s[j] = s[k]
        BY <3>4, <1>1, <1>3, <2>1
      <4>. QED
        BY <4>1 DEF Leads, IsInjective
    <3>. QED
      BY <3>1, <3>2, <3>3, <3>4
  <2>. QED
    BY <2>1, <1>2 DEF IsInjective
<1>5. ASSUME NEW k \in 1 .. Len(t)
      PROVE  other[t[k]] = IF k = Len(t) THEN Null ELSE t[k + 1]
  <2>1. CASE k = Len(s) + 1
    BY <2>1, <1>2
  <2>2. CASE k = Len(s)
    <3>1. k \in 1 .. Len(s) /\ k # Len(t) /\ k + 1 = Len(s) + 1
      BY <2>2, <1>1, <1>2
    <3>. QED
      BY <3>1, <2>2, <1>2
  <2>3. CASE k # Len(s) + 1 /\ k # Len(s)
    <3>1. k \in 1 .. Len(s) /\ k # Len(t) /\ k + 1 \in 1 .. Len(s)
      BY <2>3, <1>1, <1>2
    <3>2. links[s[k]] = s[k + 1]
      BY <3>1, <2>3 DEF Leads
    <3>. QED
      BY <3>1, <3>2, <2>3, <1>2
  <2>. QED
    BY <2>1, <2>2, <2>3
<1>6. t # << >> /\ t[1] = s[1] /\ h = s[1]
  <2>1. 1 \in 1 .. Len(s)
    BY <1>1
  <2>. QED
    BY <1>1, <1>2, <2>1 DEF Leads
<1>7. ToSet(t) = ToSet(s) \cup {n}
  <2>1. DOMAIN t = 1 .. Len(t) /\ DOMAIN s = 1 .. Len(s)
    BY <1>1, <1>2
  <2>2. ASSUME NEW x \in ToSet(t) PROVE x \in ToSet(s) \cup {n}
    <3>1. PICK k \in 1 .. Len(t) : x = t[k]
      BY <2>1, ZenonT(40) DEF ToSet
    <3>2. k = Len(s) + 1 \/ (k \in DOMAIN s /\ t[k] = s[k])
      BY <2>1, <1>3
    <3>. QED
      BY <3>1, <3>2, <1>2, SMTT(30) DEF ToSet
  <2>3. ASSUME NEW x \in ToSet(s) PROVE x \in ToSet(t)
    <3>1. PICK k \in 1 .. Len(s) : x = s[k]
      BY <2>1, ZenonT(40) DEF ToSet
    <3>2. k \in 1 .. Len(t)
      BY <3>1, <1>1, <1>2
    <3>3. k \in DOMAIN t /\ t[k] = x
      BY <3>1, <3>2, <2>1, <1>2
    <3>. QED
      BY <3>3, SMTT(30) DEF ToSet
  <2>4. n \in ToSet(t)
    <3>1. Len(s) + 1 \in 1 .. Len(t)
      BY <1>1, <1>2, SMTT(30)
    <3>2. Len(s) + 1 \in DOMAIN t
      BY <3>1, <2>1
    <3>. QED
      BY <3>2, <1>2 DEF ToSet
  <2>. QED
    BY <2>2, <2>3, <2>4
<1>. QED
  BY <1>2, <1>4, <1>5, <1>6, <1>7 DEF Leads

(* The nodes behind the first one.                                          *)
LinkedFirst(h, links, s, other, t) ==
  /\ s # << >> /\ t = Tail(s)
  /\ \A k \in 1 .. Len(s) : s[k] # h => s[k] \in DOMAIN other /\ other[s[k]] = links[s[k]]

LEMMA LeadsFromSecond ==
  ASSUME NEW h, NEW links, NEW s, NEW other, Leads(h, links, s), NEW t,
         LinkedFirst(h, links, s, other, t)
  PROVE  /\ Leads(links[h], other, t)
         /\ ToSet(t) = ToSet(s) \ {h}
         /\ h \in ToSet(s)
<1>1. Len(s) \in Nat \ {0} /\ s \in Seq(DOMAIN links) /\ h = s[1] /\ 1 \in DOMAIN s
  BY DEF Leads, LinkedFirst
<1>2. /\ t \in Seq(DOMAIN links) /\ Len(t) = Len(s) - 1
      /\ \A k \in 1 .. Len(t) : t[k] = s[k + 1]
  BY <1>1 DEF LinkedFirst
<1>3. \A k \in 1 .. Len(t) : k + 1 \in 1 .. Len(s) /\ k + 1 # 1
  BY <1>1, <1>2
<1>4. \A k \in 1 .. Len(s) : k # 1 => s[k] # h
  BY <1>1 DEF Leads, IsInjective
<1>5. ASSUME NEW k \in 1 .. Len(t)
      PROVE  /\ t[k] \in DOMAIN other
             /\ other[t[k]] = IF k = Len(t) THEN Null ELSE t[k + 1]
  <2>1. k + 1 \in 1 .. Len(s) /\ t[k] = s[k + 1] /\ s[k + 1] # h
    BY <1>2, <1>3, <1>4
  <2>2. other[t[k]] = links[s[k + 1]] /\ t[k] \in DOMAIN other
    BY <2>1 DEF LinkedFirst
  <2>3. links[s[k + 1]] = IF k + 1 = Len(s) THEN Null ELSE s[k + 1 + 1]
    BY <2>1 DEF Leads
  <2>4. k + 1 = Len(s) <=> k = Len(t)
    BY <1>1, <1>2
  <2>5. k # Len(t) => k + 1 \in 1 .. Len(t)
    BY <1>1, <1>2
  <2>6. k # Len(t) => t[k + 1] = s[k + 1 + 1]
    BY <2>5, <1>2
  <2>. QED
    BY <2>2, <2>3, <2>4, <2>6
<1>6. t \in Seq(DOMAIN other)
  BY <1>2, <1>5
<1>7. IsInjective(t)
  <2>1. ASSUME NEW j \in 1 .. Len(t), NEW k \in 1 .. Len(t), t[j] = t[k] PROVE j = k
    <3>1. j + 1 \in DOMAIN s /\ k + 1 \in DOMAIN s /\ s[j + 1] = s[k + 1]
      BY <1>1, <1>2, <1>3, <2>1
    <3>2. j + 1 = k + 1
      BY <3>1 DEF Leads, IsInjective
    <3>. QED
      BY <3>2
  <2>. QED
    BY <2>1, <1>2 DEF IsInjective
<1>8. links[h] = IF t = << >> THEN Null ELSE t[1]
  <2>0. 1 \in 1 .. Len(s)
    BY <1>1
  <2>1. links[s[1]] = IF 1 = Len(s) THEN Null ELSE s[1 + 1]
    BY <2>0 DEF Leads
  <2>2. t = << >> <=> 1 = Len(s)
    BY <1>1, <1>2
  <2>3. 1 # Len(s) => t[1] = s[1 + 1]
    BY <1>1, <1>2
  <2>. QED
    BY <2>1, <2>2, <2>3, <1>1
<1>9. ToSet(t) = ToSet(s) \ {h} /\ h \in ToSet(s)
  <2>1. DOMAIN t = 1 .. Len(t) /\ DOMAIN s = 1 .. Len(s)
    BY <1>1, <1>2
  <2>2. ASSUME NEW x \in ToSet(t) PROVE x \in ToSet(s) /\ x # h
    <3>1. PICK k \in 1 .. Len(t) : x = t[k]
      BY <2>1 DEF ToSet
    <3>2. k + 1 \in DOMAIN s /\ x = s[k + 1] /\ s[k + 1] # h
      BY <3>1, <2>1, <1>2, <1>3, <1>4
    <3>. QED
      BY <3>2 DEF ToSet
  <2>3. ASSUME NEW x \in ToSet(s), x # h PROVE x \in ToSet(t)
    <3>1. PICK k \in 1 .. Len(s) : x = s[k]
      BY <2>1 DEF ToSet
    <3>2. k # 1
      BY <3>1, <2>3, <1>1
    <3>3. k - 1 \in 1 .. Len(t) /\ k - 1 + 1 = k
      BY <3>1, <3>2, <1>1, <1>2
    <3>4. k - 1 \in DOMAIN t /\ t[k - 1] = x
      BY <3>1, <3>3, <2>1, <1>2
    <3>. QED
      BY <3>4 DEF ToSet
  <2>. QED
    BY <2>2, <2>3, <1>1 DEF ToSet
<1>. QED
  BY <1>5, <1>6, <1>7, <1>8, <1>9 DEF Leads

(* The free list, as a sequence: it leads to all free blocks.               *)
FreeIsWhole ==
  /\ Leads(head, link, Nodes(head, link))
  /\ ToSet(Nodes(head, link)) = DOMAIN link

(* The nodes of every list, in order ...                                    *)
NodesOf(heads, links) == [q \in Queue |-> Nodes(heads[q], links)]

(* ... are these: each list leads to its own, and all of them to every node.  *)
Whole(heads, links, nodes, c) ==
  /\ c = [q \in Queue |-> c[q]]
  /\ DOMAIN links = nodes
  /\ \A q \in Queue : Leads(heads[q], links, c[q])
  /\ \A p, q \in Queue : p # q => ToSet(c[p]) \cap ToSet(c[q]) = {}
  /\ UNION {ToSet(c[q]) : q \in Queue} = nodes

(* The inductive invariant of the lists.                                    *)
ListInv ==
  /\ MemInv /\ ListTypeOK
  /\ FreeIsWhole
  /\ Whole(list, next, taken, NodesOf(list, next))

LEMMA FreeNow ==
  ASSUME NEW h, NEW links, NEW s, IsFiniteSet(DOMAIN links), Null \notin DOMAIN links,
         Leads(h, links, s), ToSet(s) = DOMAIN links
  PROVE  Leads(h, links, Nodes(h, links)) /\ ToSet(Nodes(h, links)) = DOMAIN links
BY NodesAreThese

LEMMA WholeNow ==
  ASSUME NEW heads, NEW links, NEW nodes, NEW c, IsFiniteSet(nodes), Null \notin nodes,
         Whole(heads, links, nodes, c)
  PROVE  NodesOf(heads, links) = c
<1>1. \A q \in Queue : Nodes(heads[q], links) = c[q]
  BY NodesAreThese DEF Whole
<1>. QED
  BY <1>1 DEF NodesOf, Whole

(* What the blocks of a pool are not.                                       *)
LEMMA SomeBlocks ==
  ASSUME NEW n \in Nat, NEW S, S \subseteq (1 .. n) \X (1 .. BlocksPerPage)
  PROVE  IsFiniteSet(S) /\ Null \notin S
<1>1. (1 .. n) \X (1 .. BlocksPerPage) \subseteq Nat \X Nat
  BY PageAssumption
<1>. QED
  BY <1>1, BlocksAreFinite, NullAssumption

LEMMA PoolBlocks ==
  ASSUME MemTypeOK
  PROVE  /\ IsFiniteSet(DOMAIN link) /\ Null \notin DOMAIN link
         /\ IsFiniteSet(taken) /\ Null \notin taken
<1>1. npages \in Nat /\ taken \subseteq Block /\ DOMAIN link \subseteq Block
  BY DEF MemTypeOK
<1>. QED
  BY <1>1, SomeBlocks DEF Block

LEMMA PoolBlocksNext ==
  ASSUME MemTypeOK'
  PROVE  /\ IsFiniteSet(DOMAIN link') /\ Null \notin DOMAIN link'
         /\ IsFiniteSet(taken') /\ Null \notin taken'
<1>1. npages' \in Nat /\ taken' \subseteq Block' /\ DOMAIN link' \subseteq Block'
  BY DEF MemTypeOK
<1>2. Block' = (1 .. npages') \X (1 .. BlocksPerPage)
  BY DEF Block
<1>. QED
  BY <1>1, <1>2, SomeBlocks

(* The chain of a new page.                                                 *)
LEMMA PageIsWhole ==
  ASSUME NEW k \in Nat \ {0}, NEW links,
         links = [b \in Page(k) \ {First(k)} |-> Chained(b)]
  PROVE  \E s : Leads(Chained(First(k)), links, s) /\ ToSet(s) = DOMAIN links
<1>. DEFINE s == [j \in 1 .. BlocksPerPage - 1 |-> <<k, j + 1>>]
<1>1. BlocksPerPage \in Nat \ {0}
  BY PageAssumption
<1>2. \A j \in 1 .. BlocksPerPage - 1 : <<k, j + 1>> \in Page(k) \ {First(k)}
  BY <1>1 DEF Page, First
<1>3. DOMAIN links = Page(k) \ {First(k)}
  OBVIOUS
<1>4. s \in Seq(DOMAIN links) /\ Len(s) = BlocksPerPage - 1
  BY <1>1, <1>2, <1>3
<1>5. IsInjective(s)
  <2>1. ASSUME NEW i \in 1 .. BlocksPerPage - 1, NEW j \in 1 .. BlocksPerPage - 1, s[i] = s[j]
        PROVE  i = j
    <3>1. i + 1 = j + 1
      BY <2>1
    <3>. QED
      BY <3>1, <1>1
  <2>. QED
    BY <2>1 DEF IsInjective
<1>6. Chained(First(k)) = IF s = << >> THEN Null ELSE s[1]
  <2>1. CASE BlocksPerPage = 1
    <3>1. s = << >>
      BY <2>1
    <3>. QED
      BY <2>1, <3>1 DEF Chained, First
  <2>2. CASE BlocksPerPage # 1
    <3>1. 1 \in 1 .. BlocksPerPage - 1 /\ 1 < BlocksPerPage
      BY <2>2, <1>1
    <3>2. s # << >> /\ s[1] = <<k, 1 + 1>>
      BY <3>1, <1>4
    <3>. QED
      BY <3>1, <3>2 DEF Chained, First
  <2>. QED
    BY <2>1, <2>2
<1>7. ASSUME NEW j \in 1 .. Len(s)
      PROVE  links[s[j]] = IF j = Len(s) THEN Null ELSE s[j + 1]
  <2>1. j \in 1 .. BlocksPerPage - 1 /\ s[j] = <<k, j + 1>> /\ s[j] \in DOMAIN links
    BY <1>2, <1>3, <1>4
  <2>2. links[s[j]] = Chained(<<k, j + 1>>)
    BY <2>1, <1>3
  <2>3. CASE j = Len(s)
    BY <2>2, <2>3, <1>1, <1>4 DEF Chained
  <2>4. CASE j # Len(s)
    <3>1. j + 1 \in 1 .. BlocksPerPage - 1 /\ j + 1 < BlocksPerPage
      BY <2>1, <2>4, <1>1, <1>4
    <3>2. Chained(<<k, j + 1>>) = <<k, j + 1 + 1>>
      BY <3>1 DEF Chained
    <3>. QED
      BY <2>2, <2>4, <3>1, <3>2
  <2>. QED
    BY <2>3, <2>4
<1>8. ToSet(s) = DOMAIN links
  <2>1. ASSUME NEW b \in Page(k) \ {First(k)} PROVE \E j \in 1 .. BlocksPerPage - 1 : s[j] = b
    <3>1. b = <<k, b[2]>> /\ b[2] \in 1 .. BlocksPerPage /\ b[2] # 1
      BY <2>1 DEF Page, First
    <3>2. b[2] - 1 \in 1 .. BlocksPerPage - 1 /\ b[2] - 1 + 1 = b[2]
      BY <3>1, <1>1
    <3>3. s[b[2] - 1] = b
      BY <3>1, <3>2
    <3>. QED
      BY <3>2, <3>3
  <2>2. DOMAIN s = 1 .. BlocksPerPage - 1
    OBVIOUS
  <2>3. \A j \in 1 .. BlocksPerPage - 1 : s[j] \in DOMAIN links
    BY <1>2, <1>3
  <2>. QED
    BY <2>1, <2>2, <2>3, <1>3 DEF ToSet
<1>. QED
  BY <1>4, <1>5, <1>6, <1>7, <1>8 DEF Leads

(* A node is a block that was free, or of a new page; the others stay listed. *)
LEMMA NewNodeStep ==
  ASSUME MemInv, FreeIsWhole, NewNode
  PROVE  /\ MemInv' /\ FreeIsWhole'
         /\ got' \notin taken /\ got' # Null /\ taken' = taken \cup {got'}
<1>1. MemInv' /\ Allocator!Get(got')
  BY GetFreeStep, GetFromNewPageStep DEF NewNode
<1>2. /\ IsFiniteSet(DOMAIN link) /\ Null \notin DOMAIN link
      /\ IsFiniteSet(DOMAIN link') /\ Null \notin DOMAIN link' /\ Null \notin taken'
  BY <1>1, PoolBlocks, PoolBlocksNext DEF MemInv
<1>3. got' \notin taken /\ taken' = taken \cup {got'} /\ got' # Null
  BY <1>1, <1>2 DEF Allocator!Get
<1>4. PICK s : Leads(head, link, s) /\ ToSet(s) = DOMAIN link
  BY DEF FreeIsWhole
<1>5. \E t : Leads(head', link', t) /\ ToSet(t) = DOMAIN link'
  <2>1. CASE GetFree
    <3>1. head # Null /\ s # << >>
      BY <2>1, <1>4 DEF GetFree, Leads
    <3>2. /\ head' = link[head]
          /\ DOMAIN link' = DOMAIN link \ {head}
          /\ \A b \in DOMAIN link' : link'[b] = link[b]
      BY <2>1 DEF GetFree
    <3>3. \A k \in 1 .. Len(s) : s[k] # head => s[k] \in DOMAIN link' /\ link'[s[k]] = link[s[k]]
      BY <1>4, <3>2 DEF Leads
    <3>4. PICK h, links, other, t : h = head /\ links = link /\ other = link' /\ t = Tail(s)
      OBVIOUS
    <3>5. LinkedFirst(h, links, s, other, t)
      BY <3>1, <3>3, <3>4 DEF LinkedFirst
    <3>6. Leads(h, links, s)
      BY <1>4, <3>4
    <3>7. Leads(links[h], other, t) /\ ToSet(t) = ToSet(s) \ {h}
      BY ONLY <3>5, <3>6, LeadsFromSecond
    <3>. QED
      BY <1>4, <3>2, <3>4, <3>7
  <2>2. CASE GetFromNewPage
    <3>1. PICK k \in Nat \ {0} : k = npages + 1
      BY DEF MemInv, MemTypeOK
    <3>2. s = << >> /\ DOMAIN link = {}
      <4>1. s = << >>
        <5>1. s # << >> => 1 \in DOMAIN s /\ head = s[1]
          BY <1>4 DEF Leads
        <5>. QED
          BY <5>1, <2>2, <1>2, <1>4 DEF GetFromNewPage, ToSet
      <4>2. DOMAIN s = {}
        BY <4>1
      <4>. QED
        BY <4>1, <4>2, <1>4 DEF ToSet
    <3>3. /\ head' = Chained(First(k))
          /\ link' = [b \in Page(k) \ {First(k)} |-> Chained(b)]
      BY <2>2, <3>1, <3>2 DEF GetFromNewPage
    <3>. QED
      BY <3>3, PageIsWhole
  <2>. QED
    BY <2>1, <2>2 DEF NewNode
<1>6. FreeIsWhole'
  BY <1>2, <1>5, FreeNow DEF FreeIsWhole
<1>. QED
  BY <1>1, <1>3, <1>6

(* A node that is put back is the next one to be got.                       *)
LEMMA NodeFreed ==
  ASSUME MemInv, FreeIsWhole, NEW b \in taken, mempool_put_block(b)
  PROVE  MemInv' /\ FreeIsWhole' /\ taken' = taken \ {b}
<1>1. MemInv'
  BY PutBlockStep
<1>2. /\ IsFiniteSet(DOMAIN link') /\ Null \notin DOMAIN link'
  BY <1>1, PoolBlocksNext DEF MemInv
<1>3. PICK s : Leads(head, link, s) /\ ToSet(s) = DOMAIN link
  BY DEF FreeIsWhole
<1>4. /\ head' = b /\ DOMAIN link' = DOMAIN link \cup {b} /\ link'[b] = head
      /\ b \notin DOMAIN link
      /\ \A c \in DOMAIN link : link'[c] = link[c]
      /\ taken' = taken \ {b}
  BY DEF mempool_put_block, MemInv, FreeNotTaken
<1>5. \A k \in 1 .. Len(s) : s[k] # b /\ s[k] \in DOMAIN link' /\ link'[s[k]] = link[s[k]]
  BY <1>3, <1>4 DEF Leads
<1>6. Leads(b, link', <<b>> \o s) /\ ToSet(<<b>> \o s) = ToSet(s) \cup {b}
  BY <1>3, <1>4, <1>5, LeadsFromNew
<1>7. FreeIsWhole'
  BY <1>2, <1>3, <1>4, <1>6, FreeNow DEF FreeIsWhole
<1>. QED
  BY <1>1, <1>4, <1>7

(* What changes one list leaves the others as they are.                     *)
LEMMA OneListChanges ==
  ASSUME NEW heads, NEW links, NEW nodes, NEW c, Whole(heads, links, nodes, c),
         NEW q \in Queue, NEW s, NEW heads2, NEW links2, NEW nodes2,
         Leads(heads2[q], links2, s),
         \A p \in Queue : p # q => heads2[p] = heads[p],
         DOMAIN links2 = nodes2,
         nodes2 = (nodes \ ToSet(c[q])) \cup ToSet(s),
         ToSet(s) \cap (nodes \ ToSet(c[q])) = {},
         \A x \in nodes \ ToSet(c[q]) : links2[x] = links[x]
  PROVE  Whole(heads2, links2, nodes2, [c EXCEPT ![q] = s])
<1>. DEFINE c2 == [c EXCEPT ![q] = s]
<1>1. /\ DOMAIN c = Queue /\ c2 = [p \in Queue |-> c2[p]]
      /\ c2[q] = s
      /\ \A p \in Queue : p # q => c2[p] = c[p]
  BY DEF Whole
<1>. HIDE DEF c2
<1>2. \A p \in Queue : p # q => ToSet(c[p]) \subseteq nodes \ ToSet(c[q])
  BY DEF Whole
<1>3. ASSUME NEW p \in Queue PROVE Leads(heads2[p], links2, c2[p])
  <2>1. CASE p = q
    BY <2>1, <1>1
  <2>2. CASE p # q
    <3>1. Leads(heads[p], links, c[p]) /\ heads2[p] = heads[p] /\ c2[p] = c[p]
      BY <2>2, <1>1 DEF Whole
    <3>2. \A k \in 1 .. Len(c[p]) : c[p][k] \in nodes \ ToSet(c[q])
      <4>1. DOMAIN c[p] = 1 .. Len(c[p])
        BY <3>1 DEF Leads
      <4>. QED
        BY <4>1, <1>2, <2>2 DEF ToSet
    <3>3. \A k \in 1 .. Len(c[p]) : c[p][k] \in DOMAIN links2 /\ links2[c[p][k]] = links[c[p][k]]
      BY <3>2
    <3>4. Leads(heads[p], links2, c[p])
      BY <3>1, <3>3, StillLeads
    <3>. QED
      BY <3>1, <3>4
  <2>. QED
    BY <2>1, <2>2
<1>4. ASSUME NEW o \in Queue, NEW p \in Queue, o # p
      PROVE  ToSet(c2[o]) \cap ToSet(c2[p]) = {}
  <2>1. CASE o = q
    <3>1. c2[o] = s /\ c2[p] = c[p] /\ ToSet(c[p]) \subseteq nodes \ ToSet(c[q])
      BY <2>1, <1>1, <1>2, <1>4
    <3>. QED
      BY <3>1
  <2>2. CASE p = q
    <3>1. c2[p] = s /\ c2[o] = c[o] /\ ToSet(c[o]) \subseteq nodes \ ToSet(c[q])
      BY <2>2, <1>1, <1>2, <1>4
    <3>. QED
      BY <3>1
  <2>3. CASE o # q /\ p # q
    <3>1. c2[o] = c[o] /\ c2[p] = c[p]
      BY <2>3, <1>1
    <3>. QED
      BY <3>1, <1>4 DEF Whole
  <2>. QED
    BY <2>1, <2>2, <2>3
<1>5. UNION {ToSet(c2[p]) : p \in Queue} = nodes2
  <2>1. ASSUME NEW p \in Queue PROVE ToSet(c2[p]) \subseteq nodes2
    BY <1>1, <1>2
  <2>2. ASSUME NEW x \in nodes2 PROVE \E p \in Queue : x \in ToSet(c2[p])
    <3>1. CASE x \in ToSet(s)
      BY <3>1, <1>1
    <3>2. CASE x \in nodes \ ToSet(c[q])
      <4>1. PICK p \in Queue : x \in ToSet(c[p])
        BY <3>2 DEF Whole
      <4>. QED
        BY <4>1, <3>2, <1>1
    <3>. QED
      BY <3>1, <3>2
  <2>. QED
    BY <2>1, <2>2
<1>. QED
  BY <1>1, <1>3, <1>4, <1>5 DEF Whole, c2

(* The data on the lists.                                                   *)
Told(c, d) == [q \in Queue |-> [k \in DOMAIN c[q] |-> d[c[q][k]]]]

LEMMA OneListTold ==
  ASSUME NEW heads, NEW links, NEW nodes, NEW c, Whole(heads, links, nodes, c),
         NEW q \in Queue, NEW s, NEW d, NEW d2,
         \A x \in nodes \ ToSet(c[q]) : d2[x] = d[x]
  PROVE  Told([c EXCEPT ![q] = s], d2)
           = [Told(c, d) EXCEPT ![q] = [k \in DOMAIN s |-> d2[s[k]]]]
<1>. DEFINE c2 == [c EXCEPT ![q] = s]
<1>1. /\ DOMAIN c = Queue
      /\ c2[q] = s
      /\ \A p \in Queue : p # q => c2[p] = c[p]
  BY DEF Whole
<1>. HIDE DEF c2
<1>2. ASSUME NEW p \in Queue, p # q
      PROVE  [k \in DOMAIN c2[p] |-> d2[c2[p][k]]] = [k \in DOMAIN c[p] |-> d[c[p][k]]]
  <2>1. \A k \in DOMAIN c[p] : c[p][k] \in nodes \ ToSet(c[q])
    BY <1>2 DEF Whole, ToSet
  <2>. QED
    BY <2>1, <1>1, <1>2
<1>3. PICK t : t = [k \in DOMAIN s |-> d2[s[k]]]
  OBVIOUS
<1>4. Told(c2, d2)[q] = t
  BY <1>1, <1>3 DEF Told
<1>5. \A p \in Queue : p # q => Told(c2, d2)[p] = Told(c, d)[p]
  BY <1>2 DEF Told
<1>6. /\ Told(c2, d2) = [p \in Queue |-> Told(c2, d2)[p]]
      /\ Told(c, d) = [p \in Queue |-> Told(c, d)[p]]
  BY DEF Told
<1>7. Told(c2, d2) = [Told(c, d) EXCEPT ![q] = t]
  BY <1>4, <1>5, <1>6
<1>. QED
  BY <1>3, <1>7 DEF c2

(* Where lists lead to nodes only, so do their heads and links.             *)
LEMMA WholeTyped ==
  ASSUME NEW heads, NEW links, NEW nodes, NEW c, Whole(heads, links, nodes, c)
  PROVE  /\ \A q \in Queue : heads[q] \in nodes \cup {Null}
         /\ \A x \in nodes : links[x] \in nodes \cup {Null}
<1>1. ASSUME NEW q \in Queue
      PROVE  /\ Len(c[q]) \in Nat /\ DOMAIN c[q] = 1 .. Len(c[q])
             /\ \A k \in 1 .. Len(c[q]) : c[q][k] \in nodes
             /\ heads[q] = IF c[q] = << >> THEN Null ELSE c[q][1]
             /\ c[q] # << >> => 1 \in 1 .. Len(c[q])
  BY DEF Whole, Leads
<1>2. ASSUME NEW q \in Queue, NEW k \in 1 .. Len(c[q])
      PROVE  links[c[q][k]] \in nodes \cup {Null}
  <2>1. links[c[q][k]] = IF k = Len(c[q]) THEN Null ELSE c[q][k + 1]
    BY DEF Whole, Leads
  <2>2. k # Len(c[q]) => k + 1 \in 1 .. Len(c[q])
    BY <1>1
  <2>. QED
    BY <2>1, <2>2, <1>1
<1>3. ASSUME NEW x \in nodes PROVE links[x] \in nodes \cup {Null}
  <2>1. PICK q \in Queue : x \in ToSet(c[q])
    BY DEF Whole
  <2>2. PICK k \in 1 .. Len(c[q]) : x = c[q][k]
    BY <2>1, <1>1 DEF ToSet
  <2>. QED
    BY <2>2, <1>2
<1>. QED
  BY <1>1, <1>3

(* What queues and stacks see is the data of the nodes, in order.           *)
LEMMA ContentsAre ==
  [q \in Queue |-> Contents(q)] = Told(NodesOf(list, next), data)
<1>1. \A q \in Queue : Contents(q) = [k \in DOMAIN Nodes(list[q], next) |-> data[Nodes(list[q], next)[k]]]
  BY DEF Contents
<1>2. \A q \in Queue : NodesOf(list, next)[q] = Nodes(list[q], next)
  BY DEF NodesOf
<1>. QED
  BY <1>1, <1>2 DEF Told

(* A new node in its place on one list, with its data: the nodes are c, the   *)
(* nodes of the list become s.                                              *)
AddsNode(q, d, c, s, n, f) ==
  /\ NewNode
  /\ c = NodesOf(list, next) /\ n = got' /\ f = data'
  /\ Leads(list'[q], next', s) /\ ToSet(s) = ToSet(c[q]) \cup {n}
  /\ list' = [p \in Queue |-> list'[p]]
  /\ \A p \in Queue : p # q => list'[p] = list[p]
  /\ next' = [x \in taken \cup {n} |-> next'[x]]
  /\ \A x \in taken \ ToSet(c[q]) : next'[x] = next[x]
  /\ data' = InNew(n, d, data) /\ item' = item

LEMMA Added ==
  ASSUME ListInv, NEW q \in Queue, NEW d \in Data, NEW c, NEW s, NEW n, NEW f,
         AddsNode(q, d, c, s, n, f)
  PROVE  /\ ListInv'
         /\ NodesOf(list', next') = [c EXCEPT ![q] = s]
         /\ Told(NodesOf(list', next'), f) = [Told(c, data) EXCEPT ![q] = [k \in DOMAIN s |-> f[s[k]]]]
<1>. USE DEF AddsNode
<1>1. /\ MemInv' /\ FreeIsWhole'
      /\ n \notin taken /\ n # Null /\ taken' = taken \cup {n}
  BY NewNodeStep DEF ListInv
<1>2. Whole(list, next, taken, c) /\ DOMAIN data = taken /\ data \in [taken -> Data]
  BY DEF ListInv, ListTypeOK
<1>3. PICK list2, next2, taken2 : list2 = list' /\ next2 = next' /\ taken2 = taken'
  OBVIOUS
<1>4. ToSet(c[q]) \subseteq taken
  BY <1>2 DEF Whole
<1>5. taken2 = (taken \ ToSet(c[q])) \cup ToSet(s) /\ ToSet(s) \cap (taken \ ToSet(c[q])) = {}
  BY <1>1, <1>3, <1>4
<1>6. Whole(list2, next2, taken2, [c EXCEPT ![q] = s])
  <2>1. /\ Leads(list2[q], next2, s) /\ \A p \in Queue : p # q => list2[p] = list[p]
        /\ DOMAIN next2 = taken2
        /\ \A x \in taken \ ToSet(c[q]) : next2[x] = next[x]
    BY <1>1, <1>3
  <2>. QED
    BY ONLY <2>1, <1>2, <1>5, OneListChanges, q \in Queue
<1>7. NodesOf(list2, next2) = [c EXCEPT ![q] = s]
  <2>1. IsFiniteSet(taken2) /\ Null \notin taken2
    BY <1>1, <1>3, PoolBlocksNext DEF MemInv
  <2>. QED
    BY <2>1, <1>6, WholeNow
<1>8. f = [x \in taken2 |-> IF x = n THEN d ELSE data[x]]
  BY <1>1, <1>2, <1>3 DEF InNew
<1>9. ListTypeOK'
  <2>1. /\ \A p \in Queue : list2[p] \in taken2 \cup {Null}
        /\ \A x \in taken2 : next2[x] \in taken2 \cup {Null}
    BY <1>6, WholeTyped
  <2>2. list2 \in [Queue -> taken2 \cup {Null}] /\ next2 \in [taken2 -> taken2 \cup {Null}]
    BY <2>1, <1>1, <1>3
  <2>3. f \in [taken2 -> Data]
    BY <1>1, <1>2, <1>3, <1>8
  <2>. QED
    BY <2>2, <2>3, <1>3 DEF ListInv, ListTypeOK
<1>10. Told([c EXCEPT ![q] = s], f) = [Told(c, data) EXCEPT ![q] = [k \in DOMAIN s |-> f[s[k]]]]
  <2>1. \A x \in taken \ ToSet(c[q]) : f[x] = data[x]
    BY <1>1, <1>3, <1>8
  <2>. QED
    BY <2>1, <1>2, OneListTold
<1>11. Whole(list2, next2, taken2, NodesOf(list2, next2))
  BY <1>6, <1>7
<1>. QED
  BY <1>1, <1>3, <1>7, <1>9, <1>10, <1>11 DEF ListInv

(* enqueue adds the data behind the others.                                 *)
LEMMA EnqueueStep ==
  ASSUME ListInv, NEW q \in Queue, NEW d \in Data, enqueue(q, d)
  PROVE  ListInv' /\ Service!AddTail(q, d)
<1>1. PICK c, n, f, s : c = NodesOf(list, next) /\ n = got' /\ f = data' /\ s = Append(c[q], n)
  OBVIOUS
<1>2. /\ NewNode /\ n \notin taken /\ n # Null
      /\ next' = AddTailLinks(q, n)
      /\ data' = InNew(n, d, data)
      /\ list' = (IF list[q] = Null THEN [list EXCEPT ![q] = n] ELSE list)
      /\ item' = item
  BY <1>1, NewNodeStep DEF enqueue, ListInv
<1>3. /\ Whole(list, next, taken, c) /\ Nodes(list[q], next) = c[q]
      /\ list \in [Queue -> taken \cup {Null}] /\ next \in [taken -> taken \cup {Null}]
      /\ data \in [taken -> Data] /\ Null \notin taken
  BY <1>1, PoolBlocks DEF ListInv, MemInv, ListTypeOK, NodesOf
<1>4. /\ Leads(list[q], next, c[q]) /\ DOMAIN c[q] = 1 .. Len(c[q]) /\ Len(c[q]) \in Nat
      /\ \A k \in 1 .. Len(c[q]) : c[q][k] \in taken
      /\ c[q] \in Seq(taken)
  BY <1>3 DEF Whole, Leads
<1>5. /\ Leads(list'[q], next', s) /\ ToSet(s) = ToSet(c[q]) \cup {n}
      /\ list' = [p \in Queue |-> list'[p]]
      /\ \A p \in Queue : p # q => list'[p] = list[p]
      /\ next' = [x \in taken \cup {n} |-> next'[x]]
      /\ \A x \in taken \ ToSet(c[q]) : next'[x] = next[x]
  <2>1. CASE list[q] = Null
    <3>1. c[q] = << >>
      <4>1. c[q] # << >> => 1 \in 1 .. Len(c[q]) /\ list[q] = c[q][1]
        BY <1>4 DEF Leads
      <4>. QED
        BY <4>1, <1>3, <1>4, <2>1
    <3>2. next' = InNew(n, Null, next) /\ list' = [list EXCEPT ![q] = n]
      BY <2>1, <1>2 DEF AddTailLinks
    <3>3. /\ next' = [x \in taken \cup {n} |-> IF x = n THEN Null ELSE next[x]]
      BY <3>2, <1>3 DEF InNew
    <3>4. list'[q] = n /\ next'[n] = list[q] /\ n \in DOMAIN next'
      BY <3>2, <3>3, <1>3, <2>1
    <3>5. \A k \in 1 .. Len(c[q]) : c[q][k] # n /\ c[q][k] \in DOMAIN next' /\ next'[c[q][k]] = next[c[q][k]]
      BY <3>1
    <3>6. Leads(n, next', <<n>> \o c[q]) /\ ToSet(<<n>> \o c[q]) = ToSet(c[q]) \cup {n}
      BY <3>4, <3>5, <1>4, LeadsFromNew
    <3>7. <<n>> \o c[q] = s
      BY <3>1, <1>1
    <3>8. \A x \in taken : next'[x] = next[x]
      BY <3>3, <1>2
    <3>. QED
      BY <3>2, <3>3, <3>4, <3>6, <3>7, <3>8, <1>3
  <2>2. CASE list[q] # Null
    <3>1. c[q] # << >> /\ Len(c[q]) \in 1 .. Len(c[q])
      BY <2>2, <1>4 DEF Leads
    <3>2. PICK l : l = c[q][Len(c[q])] /\ l \in taken
      BY <3>1, <1>4
    <3>3. next' = InNew(n, Null, [next EXCEPT ![l] = n]) /\ list' = list
      BY <2>2, <3>2, <1>2, <1>3 DEF AddTailLinks, Last
    <3>4. next' = [x \in taken \cup {n} |-> IF x = n THEN Null ELSE IF x = l THEN n ELSE next[x]]
      BY <3>2, <3>3, <1>3 DEF InNew
    <3>5. \A k \in 1 .. Len(c[q]) : c[q][k] = l <=> k = Len(c[q])
      BY <3>1, <3>2, <1>4 DEF Leads, IsInjective
    <3>6. /\ \A k \in 1 .. Len(c[q]) : c[q][k] # n /\ c[q][k] \in DOMAIN next'
          /\ \A k \in 1 .. Len(c[q]) : next'[c[q][k]] = IF k = Len(c[q]) THEN n ELSE next[c[q][k]]
          /\ n \in DOMAIN next' /\ next'[n] = Null
      BY <3>4, <3>5, <1>2, <1>4
    <3>7. Leads(list[q], next', Append(c[q], n)) /\ ToSet(Append(c[q], n)) = ToSet(c[q]) \cup {n}
      <4>1. PICK h, links, other, t : h = list[q] /\ links = next /\ other = next' /\ t = c[q]
        OBVIOUS
      <4>2. PICK u : u = Append(t, n)
        OBVIOUS
      <4>3. Leads(h, links, t)
        BY ONLY <4>1, <1>4
      <4>4. LinkedLast(links, t, n, other, u)
        BY ONLY <4>1, <4>2, <3>1, <3>6 DEF LinkedLast
      <4>5. Leads(h, other, u) /\ ToSet(u) = ToSet(t) \cup {n}
        BY ONLY <4>3, <4>4, LeadsToNew
      <4>. QED
        BY ONLY <4>1, <4>2, <4>5
    <3>8. l \in ToSet(c[q])
      BY <3>1, <3>2, <1>4 DEF ToSet
    <3>9. \A x \in taken \ ToSet(c[q]) : next'[x] = next[x]
      BY <3>4, <3>8, <1>2
    <3>. QED
      BY <3>3, <3>4, <3>7, <3>9, <1>1, <1>3
  <2>. QED
    BY <2>1, <2>2
<1>6. /\ ListInv'
      /\ Told(NodesOf(list', next'), f) = [Told(c, data) EXCEPT ![q] = [k \in DOMAIN s |-> f[s[k]]]]
  <2>1. AddsNode(q, d, c, s, n, f)
    BY <1>1, <1>2, <1>5 DEF AddsNode
  <2>. QED
    BY <2>1, Added
<1>7. Told(c, data)[q] = [k \in DOMAIN c[q] |-> data[c[q][k]]]
  BY DEF Told
<1>8. [k \in DOMAIN s |-> f[s[k]]] = Append(Told(c, data)[q], d)
  <2>1. f = [x \in taken \cup {n} |-> IF x = n THEN d ELSE data[x]]
    BY <1>1, <1>2, <1>3 DEF InNew
  <2>2. /\ DOMAIN s = 1 .. Len(c[q]) + 1 /\ s[Len(c[q]) + 1] = n
        /\ \A k \in 1 .. Len(c[q]) : s[k] = c[q][k]
    BY <1>1, <1>4
  <2>3. PICK t : t = Told(c, data)[q]
    OBVIOUS
  <2>4. t \in Seq(Data) /\ Len(t) = Len(c[q]) /\ \A k \in 1 .. Len(c[q]) : t[k] = data[c[q][k]]
    BY <2>3, <1>3, <1>4, <1>7
  <2>5. /\ DOMAIN Append(t, d) = 1 .. Len(c[q]) + 1 /\ Append(t, d)[Len(c[q]) + 1] = d
        /\ \A k \in 1 .. Len(c[q]) : Append(t, d)[k] = t[k]
        /\ Append(t, d) \in Seq(Data)
    BY <2>4, <1>4
  <2>6. ASSUME NEW k \in 1 .. Len(c[q]) + 1 PROVE f[s[k]] = Append(t, d)[k]
    <3>1. CASE k = Len(c[q]) + 1
      BY <3>1, <2>1, <2>2, <2>5
    <3>2. CASE k # Len(c[q]) + 1
      <4>1. k \in 1 .. Len(c[q])
        BY <3>2, <1>4
      <4>. QED
        BY <4>1, <2>1, <2>2, <2>4, <2>5, <1>2, <1>4
    <3>. QED
      BY <3>1, <3>2
  <2>7. Append(t, d) = [k \in 1 .. Len(c[q]) + 1 |-> Append(t, d)[k]]
    <3>1. PICK u : u = Append(t, d)
      OBVIOUS
    <3>2. u \in Seq(Data) /\ DOMAIN u = 1 .. Len(c[q]) + 1
      BY <3>1, <2>5
    <3>3. u = [k \in DOMAIN u |-> u[k]]
      BY ONLY <3>2
    <3>. QED
      BY ONLY <3>1, <3>2, <3>3
  <2>. QED
    BY <2>2, <2>3, <2>6, <2>7
<1>9. Service!AddTail(q, d)
  <2>1. [p \in Queue |-> Contents(p)] = Told(c, data)
    BY <1>1, ContentsAre
  <2>2. [p \in Queue |-> Contents(p)]' = Told(NodesOf(list', next'), f)
    BY <1>1 DEF Contents, Told, NodesOf
  <2>3. [p \in Queue |-> Contents(p)]' = [[p \in Queue |-> Contents(p)] EXCEPT ![q] = Append(@, d)]
    BY <2>1, <2>2, <1>6, <1>8
  <2>. QED
    BY <2>3, <1>2 DEF Service!AddTail
<1>. QED
  BY <1>6, <1>9

(* A sequence with one item more in front.                                   *)
InFront(x, t, u) ==
  /\ DOMAIN u = 1 .. Len(t) + 1 /\ u[1] = x
  /\ \A k \in 1 .. Len(t) : u[k + 1] = t[k]
  /\ u \in Seq(Data)

LEMMA PutInFront ==
  ASSUME NEW x \in Data, NEW t \in Seq(Data), NEW u, u = <<x>> \o t
  PROVE  InFront(x, t, u)
<1>1. PICK m : m = Len(t)
  OBVIOUS
<1>2. m \in Nat /\ u \in Seq(Data) /\ Len(u) = m + 1
  BY <1>1
<1>3. u[1] = x
  OBVIOUS
<1>4. ASSUME NEW k \in 1 .. m PROVE u[k + 1] = t[k]
  BY <1>1
<1>5. DOMAIN u = 1 .. m + 1
  BY <1>2
<1>. QED
  BY <1>1, <1>2, <1>3, <1>4, <1>5 DEF InFront

(* push adds the data before the others.                                    *)
LEMMA PushStep ==
  ASSUME ListInv, NEW q \in Queue, NEW d \in Data, push(q, d)
  PROVE  ListInv' /\ Service!AddHead(q, d)
<1>1. PICK c, n, f, s : c = NodesOf(list, next) /\ n = got' /\ f = data' /\ s = <<n>> \o c[q]
  OBVIOUS
<1>2. /\ NewNode /\ n \notin taken /\ n # Null
      /\ next' = InNew(n, list[q], next)
      /\ data' = InNew(n, d, data)
      /\ list' = [list EXCEPT ![q] = n]
      /\ item' = item
  BY <1>1, NewNodeStep DEF push, ListInv
<1>3. /\ Whole(list, next, taken, c)
      /\ list \in [Queue -> taken \cup {Null}] /\ next \in [taken -> taken \cup {Null}]
      /\ data \in [taken -> Data]
  BY <1>1 DEF ListInv, ListTypeOK
<1>4. /\ Leads(list[q], next, c[q]) /\ DOMAIN c[q] = 1 .. Len(c[q]) /\ Len(c[q]) \in Nat
      /\ \A k \in 1 .. Len(c[q]) : c[q][k] \in taken
      /\ c[q] \in Seq(taken)
  BY <1>3 DEF Whole, Leads
<1>5. /\ Leads(list'[q], next', s) /\ ToSet(s) = ToSet(c[q]) \cup {n}
      /\ list' = [p \in Queue |-> list'[p]]
      /\ \A p \in Queue : p # q => list'[p] = list[p]
      /\ next' = [x \in taken \cup {n} |-> next'[x]]
      /\ \A x \in taken \ ToSet(c[q]) : next'[x] = next[x]
  <2>1. next' = [x \in taken \cup {n} |-> IF x = n THEN list[q] ELSE next[x]]
    BY <1>2, <1>3 DEF InNew
  <2>2. list'[q] = n /\ next'[n] = list[q] /\ n \in DOMAIN next'
    BY <2>1, <1>2, <1>3
  <2>3. \A k \in 1 .. Len(c[q]) : c[q][k] # n /\ c[q][k] \in DOMAIN next' /\ next'[c[q][k]] = next[c[q][k]]
    BY <2>1, <1>2, <1>4
  <2>4. Leads(n, next', <<n>> \o c[q]) /\ ToSet(<<n>> \o c[q]) = ToSet(c[q]) \cup {n}
    BY <2>2, <2>3, <1>4, LeadsFromNew
  <2>5. \A x \in taken : next'[x] = next[x]
    BY <2>1, <1>2
  <2>. QED
    BY <2>1, <2>2, <2>4, <2>5, <1>1, <1>2, <1>3
<1>6. /\ ListInv'
      /\ Told(NodesOf(list', next'), f) = [Told(c, data) EXCEPT ![q] = [k \in DOMAIN s |-> f[s[k]]]]
  <2>1. AddsNode(q, d, c, s, n, f)
    BY <1>1, <1>2, <1>5 DEF AddsNode
  <2>. QED
    BY <2>1, Added
<1>7. Told(c, data)[q] = [k \in DOMAIN c[q] |-> data[c[q][k]]]
  BY DEF Told
<1>8. [k \in DOMAIN s |-> f[s[k]]] = <<d>> \o Told(c, data)[q]
  <2>1. f = [x \in taken \cup {n} |-> IF x = n THEN d ELSE data[x]]
    BY <1>1, <1>2, <1>3 DEF InNew
  <2>2. /\ DOMAIN s = 1 .. Len(c[q]) + 1 /\ s[1] = n
        /\ \A k \in 1 .. Len(c[q]) : s[k + 1] = c[q][k]
    BY <1>1, <1>4
  <2>3. PICK t, u : t = Told(c, data)[q] /\ u = <<d>> \o t
    OBVIOUS
  <2>4. t \in Seq(Data) /\ Len(t) = Len(c[q]) /\ \A k \in 1 .. Len(c[q]) : t[k] = data[c[q][k]]
    BY <2>3, <1>3, <1>4, <1>7
  <2>5. /\ DOMAIN u = 1 .. Len(c[q]) + 1 /\ u[1] = d
        /\ \A k \in 1 .. Len(c[q]) : u[k + 1] = t[k]
        /\ u \in Seq(Data)
    <3>1. PICK m : m = Len(t)
      OBVIOUS
    <3>2. m = Len(c[q]) /\ t \in Seq(Data) /\ d \in Data
      BY <2>4, <3>1
    <3>3. InFront(d, t, u)
      BY <2>3, <3>2, PutInFront
    <3>. QED
      BY <3>1, <3>2, <3>3 DEF InFront
  <2>6. ASSUME NEW k \in 1 .. Len(c[q]) + 1 PROVE f[s[k]] = u[k]
    <3>1. CASE k = 1
      BY <3>1, <2>1, <2>2, <2>5
    <3>2. CASE k # 1
      <4>1. k - 1 \in 1 .. Len(c[q]) /\ k - 1 + 1 = k
        BY <3>2, <1>4
      <4>2. s[k] = c[q][k - 1] /\ u[k] = data[c[q][k - 1]] /\ c[q][k - 1] \in taken
        BY <4>1, <2>2, <2>4, <2>5, <1>4
      <4>. QED
        BY <4>2, <2>1, <1>2
    <3>. QED
      BY <3>1, <3>2
  <2>7. u = [k \in 1 .. Len(c[q]) + 1 |-> u[k]]
    <3>1. u = [k \in DOMAIN u |-> u[k]]
      BY ONLY <2>5
    <3>. QED
      BY ONLY <2>5, <3>1
  <2>8. [k \in DOMAIN s |-> f[s[k]]] = u
    BY <2>2, <2>6, <2>7
  <2>. QED
    BY <2>3, <2>8
<1>9. Service!AddHead(q, d)
  <2>1. [p \in Queue |-> Contents(p)] = Told(c, data)
    BY <1>1, ContentsAre
  <2>2. [p \in Queue |-> Contents(p)]' = Told(NodesOf(list', next'), f)
    BY <1>1 DEF Contents, Told, NodesOf
  <2>3. [p \in Queue |-> Contents(p)]' = [[p \in Queue |-> Contents(p)] EXCEPT ![q] = <<d>> \o @]
    BY <2>1, <2>2, <1>6, <1>8
  <2>. QED
    BY <2>3, <1>2 DEF Service!AddHead
<1>. QED
  BY <1>6, <1>9

(* What does not touch the lists leaves what they contain.                  *)
LEMMA ListsAlone ==
  ASSUME ListInv, MemInv', FreeIsWhole', taken' = taken, UNCHANGED <<list, next, data>>,
         item' \in Data \cup {Null}
  PROVE  ListInv' /\ UNCHANGED [q \in Queue |-> Contents(q)]
<1>1. NodesOf(list', next') = NodesOf(list, next)
  OBVIOUS
<1>2. Whole(list', next', taken', NodesOf(list', next'))
  BY <1>1 DEF ListInv
<1>3. UNCHANGED [q \in Queue |-> Contents(q)]
  BY DEF Contents
<1>. QED
  BY <1>2, <1>3 DEF ListInv, ListTypeOK

(* dequeue and pop: the first datum is delivered, its node put back.        *)
LEMMA GetHeadStep ==
  ASSUME ListInv, NEW q \in Queue, list__get_head(q)
  PROVE  ListInv' /\ Service!GetHead(q)
<1>1. PICK c, f, s : c = NodesOf(list, next) /\ f = data' /\ s = Tail(c[q])
  OBVIOUS
<1>2. /\ Whole(list, next, taken, c)
      /\ list \in [Queue -> taken \cup {Null}] /\ next \in [taken -> taken \cup {Null}]
      /\ data \in [taken -> Data] /\ Null \notin taken
  BY <1>1, PoolBlocks DEF ListInv, ListTypeOK, MemInv
<1>3. /\ Leads(list[q], next, c[q]) /\ DOMAIN c[q] = 1 .. Len(c[q]) /\ Len(c[q]) \in Nat
      /\ \A k \in 1 .. Len(c[q]) : c[q][k] \in taken
      /\ c[q] \in Seq(taken)
  BY <1>2 DEF Whole, Leads
<1>4. Told(c, data)[q] = [k \in DOMAIN c[q] |-> data[c[q][k]]]
  BY DEF Told
<1>5. [p \in Queue |-> Contents(p)] = Told(c, data)
  BY <1>1, ContentsAre
<1>6. [p \in Queue |-> Contents(p)][q] = Told(c, data)[q]
  BY <1>5
<1>7. CASE list[q] = Null
  <2>1. c[q] = << >>
    <3>1. c[q] # << >> => 1 \in 1 .. Len(c[q]) /\ list[q] = c[q][1]
      BY <1>3 DEF Leads
    <3>. QED
      BY <3>1, <1>2, <1>3, <1>7
  <2>2. item' = Null /\ UNCHANGED <<list, next, data, memVars>>
    BY <1>7 DEF list__get_head
  <2>3. MemInv' /\ FreeIsWhole' /\ taken' = taken
    <3>1. UNCHANGED memVars
      BY <2>2
    <3>. QED
      BY <3>1, MemStepHolds DEF ListInv, FreeIsWhole, memVars
  <2>4. ListInv' /\ UNCHANGED [p \in Queue |-> Contents(p)]
    BY <2>2, <2>3, ListsAlone
  <2>5. Told(c, data)[q] = << >>
    BY <2>1, <1>4
  <2>. QED
    BY <2>2, <2>4, <2>5, <1>6 DEF Service!GetHead
<1>8. CASE list[q] # Null
  <2>1. PICK p : p = list[q]
    OBVIOUS
  <2>2. /\ p \in taken /\ mempool_put_block(p) /\ item' = data[p]
        /\ list' = [list EXCEPT ![q] = next[p]]
        /\ next' = [x \in taken \ {p} |-> next[x]]
        /\ data' = [x \in taken \ {p} |-> data[x]]
    BY <2>1, <1>2, <1>8 DEF list__get_head, After, Restrict
  <2>3. MemInv' /\ FreeIsWhole' /\ taken' = taken \ {p}
    BY <2>2, NodeFreed DEF ListInv
  <2>4. c[q] # << >> /\ p = c[q][1] /\ 1 \in 1 .. Len(c[q])
    BY <2>1, <1>3, <1>8 DEF Leads
  <2>5. PICK list2, next2, taken2 : list2 = list' /\ next2 = next' /\ taken2 = taken'
    OBVIOUS
  <2>6. /\ Leads(next[p], next2, s) /\ ToSet(s) = ToSet(c[q]) \ {p}
        /\ p \in ToSet(c[q])
    <3>1. \A k \in 1 .. Len(c[q]) : c[q][k] # p => c[q][k] \in DOMAIN next2 /\ next2[c[q][k]] = next[c[q][k]]
      BY <2>2, <2>5, <1>3
    <3>2. PICK links : links = next
      OBVIOUS
    <3>3. LinkedFirst(p, links, c[q], next2, s)
      BY <3>1, <3>2, <2>4, <1>1 DEF LinkedFirst
    <3>4. Leads(p, links, c[q])
      BY <3>2, <2>1, <1>3
    <3>5. Leads(links[p], next2, s) /\ ToSet(s) = ToSet(c[q]) \ {p} /\ p \in ToSet(c[q])
      BY ONLY <3>3, <3>4, LeadsFromSecond
    <3>. QED
      BY <3>2, <3>5
  <2>7. Whole(list2, next2, taken2, [c EXCEPT ![q] = s])
    <3>1. /\ Leads(list2[q], next2, s) /\ \A o \in Queue : o # q => list2[o] = list[o]
          /\ DOMAIN next2 = taken2
          /\ \A x \in taken \ ToSet(c[q]) : next2[x] = next[x]
      BY <2>2, <2>3, <2>5, <2>6, <1>2
    <3>2. ToSet(c[q]) \subseteq taken
      BY <1>2 DEF Whole
    <3>3. \A x : x \in taken2 <=> x \in taken /\ x # p
      BY <2>3, <2>5
    <3>4. taken2 = (taken \ ToSet(c[q])) \cup ToSet(s) /\ ToSet(s) \cap (taken \ ToSet(c[q])) = {}
      BY <3>2, <3>3, <2>6
    <3>. QED
      BY ONLY <3>1, <3>4, <1>2, OneListChanges, q \in Queue
  <2>8. NodesOf(list2, next2) = [c EXCEPT ![q] = s]
    <3>1. IsFiniteSet(taken2) /\ Null \notin taken2
      BY <2>3, <2>5, PoolBlocksNext DEF MemInv
    <3>. QED
      BY <3>1, <2>7, WholeNow
  <2>9. ListTypeOK'
    <3>1. /\ \A o \in Queue : list2[o] \in taken2 \cup {Null}
          /\ \A x \in taken2 : next2[x] \in taken2 \cup {Null}
      BY <2>7, WholeTyped
    <3>2. list2 \in [Queue -> taken2 \cup {Null}] /\ next2 \in [taken2 -> taken2 \cup {Null}]
      BY <3>1, <2>2, <2>3, <2>5, <1>2
    <3>3. data' \in [taken' -> Data] /\ item' \in Data \cup {Null}
      BY <2>2, <2>3, <1>2
    <3>. QED
      BY <3>2, <3>3, <2>5 DEF ListTypeOK
  <2>10. ListInv'
    <3>1. Whole(list2, next2, taken2, NodesOf(list2, next2))
      BY <2>7, <2>8
    <3>. QED
      BY <3>1, <2>3, <2>5, <2>9 DEF ListInv
  <2>11. PICK t : t = Told(c, data)[q]
    OBVIOUS
  <2>12. /\ t \in Seq(Data) /\ Len(t) = Len(c[q]) /\ t # << >>
         /\ \A k \in 1 .. Len(c[q]) : t[k] = data[c[q][k]]
    BY <2>4, <2>11, <1>2, <1>3, <1>4
  <2>13. Head(t) = item'
    BY <2>2, <2>4, <2>12
  <2>14. [k \in DOMAIN s |-> f[s[k]]] = Tail(t)
    <3>1. /\ Len(s) = Len(c[q]) - 1 /\ DOMAIN s = 1 .. Len(c[q]) - 1
          /\ \A k \in 1 .. Len(c[q]) - 1 : s[k] = c[q][k + 1]
      BY <2>4, <1>1, <1>3
    <3>2. PICK u : u = Tail(t)
      OBVIOUS
    <3>3. /\ DOMAIN u = 1 .. Len(c[q]) - 1 /\ u \in Seq(Data)
          /\ \A k \in 1 .. Len(c[q]) - 1 : u[k] = t[k + 1]
      BY <3>2, <2>12
    <3>4. ASSUME NEW k \in 1 .. Len(c[q]) - 1 PROVE f[s[k]] = u[k]
      <4>1. k + 1 \in 1 .. Len(c[q])
        BY <1>3
      <4>2. s[k] = c[q][k + 1] /\ u[k] = data[c[q][k + 1]]
        BY <4>1, <3>1, <3>3, <2>12
      <4>3. s[k] \in ToSet(s)
        BY <3>1 DEF ToSet
      <4>4. s[k] \in taken \ {p}
        BY <4>1, <4>2, <4>3, <2>6, <1>3
      <4>. QED
        BY <4>2, <4>4, <2>2, <1>1
    <3>5. u = [k \in DOMAIN u |-> u[k]]
      BY ONLY <3>3
    <3>6. [k \in DOMAIN s |-> f[s[k]]] = u
      BY <3>1, <3>3, <3>4, <3>5
    <3>. QED
      BY <3>2, <3>6
  <2>15. Told(NodesOf(list2, next2), f) = [Told(c, data) EXCEPT ![q] = Tail(t)]
    <3>1. \A x \in taken \ ToSet(c[q]) : f[x] = data[x]
      BY <2>2, <2>6, <1>1
    <3>2. Told([c EXCEPT ![q] = s], f) = [Told(c, data) EXCEPT ![q] = [k \in DOMAIN s |-> f[s[k]]]]
      BY <3>1, <1>2, OneListTold
    <3>. QED
      BY <3>2, <2>8, <2>14
  <2>16. [o \in Queue |-> Contents(o)]' = Told(NodesOf(list2, next2), f)
    BY <2>5, <1>1 DEF Contents, Told, NodesOf
  <2>17. Service!GetHead(q)
    <3>1. [o \in Queue |-> Contents(o)]' = [[o \in Queue |-> Contents(o)] EXCEPT ![q] = Tail(@)]
      BY <2>11, <2>15, <2>16, <1>5
    <3>2. [o \in Queue |-> Contents(o)][q] # << >> /\ Head([o \in Queue |-> Contents(o)][q]) = item'
      BY <2>11, <2>12, <2>13, <1>6
    <3>. QED
      BY <3>1, <3>2 DEF Service!GetHead
  <2>. QED
    BY <2>10, <2>17
<1>. QED
  BY <1>7, <1>8

(* A failure to get a node leaves the lists alone.                          *)
LEMMA AddFailsStep ==
  ASSUME ListInv, AddFails
  PROVE  ListInv' /\ UNCHANGED Service!vars
<1>1. UNCHANGED <<head, link, taken>> /\ UNCHANGED <<list, next, data, item>> /\ GetFails
  BY DEF AddFails, GetFails, listVars
<1>2. MemInv'
  BY <1>1, GetFailsStep DEF ListInv
<1>3. FreeIsWhole'
  BY <1>1 DEF ListInv, FreeIsWhole
<1>4. item \in Data \cup {Null}
  BY DEF ListInv, ListTypeOK
<1>5. ListInv' /\ UNCHANGED [q \in Queue |-> Contents(q)]
  BY <1>1, <1>2, <1>3, <1>4, ListsAlone
<1>. QED
  BY <1>1, <1>5 DEF Service!vars

(* At first all blocks of the first page are listed and every list is empty.  *)
LEMMA ListInitHolds ==
  ASSUME ListInit
  PROVE  ListInv /\ Service!Init
<1>1. MemInv /\ MemInit
  BY MemInitHolds DEF ListInit
<1>2. /\ list = [q \in Queue |-> Null] /\ next = << >> /\ data = << >>
      /\ item = Null /\ taken = {}
  BY DEF ListInit, MemInit
<1>3. /\ IsFiniteSet(DOMAIN link) /\ Null \notin DOMAIN link
  BY <1>1, PoolBlocks DEF MemInv
<1>4. FreeIsWhole
  <2>1. PICK links : links = [b \in Page(1) \ {First(1)} |-> Chained(b)]
    OBVIOUS
  <2>2. PICK s : Leads(Chained(First(1)), links, s) /\ ToSet(s) = DOMAIN links
    BY <2>1, PageIsWhole
  <2>3. First(1) \in Page(1)
    BY PageChain
  <2>4. /\ link = [b \in Page(1) |-> Chained(b)] /\ head = First(1)
        /\ DOMAIN links = Page(1) \ {First(1)}
    BY <1>1, <2>1 DEF MemInit
  <2>5. DOMAIN s = 1 .. Len(s) /\ \A k \in 1 .. Len(s) : s[k] \in DOMAIN links
    BY <2>2 DEF Leads
  <2>6. \A k \in 1 .. Len(s) : s[k] # First(1) /\ s[k] \in DOMAIN link /\ link[s[k]] = links[s[k]]
    BY <2>1, <2>4, <2>5
  <2>7. First(1) \in DOMAIN link /\ link[First(1)] = Chained(First(1))
    BY <2>3, <2>4
  <2>8. /\ Leads(First(1), link, <<First(1)>> \o s)
        /\ ToSet(<<First(1)>> \o s) = ToSet(s) \cup {First(1)}
    BY <2>2, <2>6, <2>7, LeadsFromNew
  <2>9. ToSet(s) \cup {First(1)} = DOMAIN link
    BY <2>2, <2>3, <2>4
  <2>. QED
    BY <1>3, <2>4, <2>8, <2>9, FreeNow DEF FreeIsWhole
<1>5. PICK c : c = [q \in Queue |-> << >>]
  OBVIOUS
<1>6. Whole(list, next, taken, c)
  <2>1. ToSet(<< >>) = {}
    BY DEF ToSet
  <2>2. DOMAIN next = {}
    BY <1>2
  <2>3. Leads(Null, next, << >>)
    BY DEF Leads, IsInjective
  <2>. QED
    BY <2>1, <2>2, <2>3, <1>2, <1>5 DEF Whole
<1>7. NodesOf(list, next) = c
  <2>1. IsFiniteSet(taken) /\ Null \notin taken
    BY <1>1, PoolBlocks DEF MemInv
  <2>. QED
    BY <2>1, <1>6, WholeNow
<1>8. ListTypeOK
  BY <1>2 DEF ListTypeOK
<1>9. [q \in Queue |-> Contents(q)] = [q \in Queue |-> << >>]
  <2>1. Told(c, data) = [q \in Queue |-> << >>]
    <3>1. \A q \in Queue : [k \in DOMAIN c[q] |-> data[c[q][k]]] = << >>
      BY <1>5
    <3>. QED
      BY <3>1 DEF Told
  <2>. QED
    BY <2>1, <1>7, ContentsAre
<1>. QED
  BY <1>1, <1>2, <1>4, <1>6, <1>7, <1>8, <1>9 DEF ListInv, Service!Init

LEMMA ListStepHolds ==
  ASSUME ListInv, [ListNext]_<<memVars, listVars>>
  PROVE  ListInv' /\ [Service!Next]_Service!vars
<1>1. CASE \E q \in Queue, d \in Data : enqueue(q, d)
  BY <1>1, EnqueueStep DEF Service!Next
<1>2. CASE \E q \in Queue, d \in Data : push(q, d)
  BY <1>2, PushStep DEF Service!Next
<1>3. CASE AddFails
  BY <1>3, AddFailsStep
<1>4. CASE \E q \in Queue : list__get_head(q)
  BY <1>4, GetHeadStep DEF Service!Next
<1>5. CASE UNCHANGED <<memVars, listVars>>
  <2>1. UNCHANGED <<head, link, npages, taken, got>> /\ UNCHANGED <<list, next, data, item>>
    BY <1>5 DEF memVars, listVars
  <2>2. MemInv'
    BY <1>5, MemStepHolds DEF ListInv
  <2>3. FreeIsWhole' /\ item \in Data \cup {Null}
    BY <2>1 DEF ListInv, FreeIsWhole, ListTypeOK
  <2>4. ListInv' /\ UNCHANGED [q \in Queue |-> Contents(q)]
    BY <2>1, <2>2, <2>3, ListsAlone
  <2>. QED
    BY <2>1, <2>4 DEF Service!vars
<1>. QED
  BY <1>1, <1>2, <1>3, <1>4, <1>5 DEF ListNext

(* The invariant of the lists is NoBlockIsLost, and more.                    *)
LEMMA InvIsEnough == ListInv => ListTypeOK /\ NoBlockIsLost
<1>. SUFFICES ASSUME ListInv PROVE ListTypeOK /\ NoBlockIsLost
  OBVIOUS
<1>1. EveryFreeBlockIsListed
  <2>1. IsFiniteSet(DOMAIN link) /\ Null \notin DOMAIN link
    BY PoolBlocks DEF ListInv, MemInv
  <2>. QED
    BY <2>1, FreeBlocksAreListed DEF ListInv, FreeIsWhole
<1>2. EveryNodeHasOnePlace
  <2>1. \A q \in Queue : Nodes(list[q], next) = NodesOf(list, next)[q]
    BY DEF NodesOf
  <2>2. \A q \in Queue : IsInjective(Nodes(list[q], next))
    BY <2>1 DEF ListInv, Whole, Leads
  <2>3. \A p, q \in Queue : p # q => OnList(p) \cap OnList(q) = {}
    BY <2>1 DEF ListInv, Whole, OnList
  <2>4. UNION {OnList(q) : q \in Queue} = taken
    BY <2>1 DEF ListInv, Whole, OnList
  <2>. QED
    BY <2>2, <2>3, <2>4 DEF EveryNodeHasOnePlace
<1>. QED
  BY <1>1, <1>2 DEF ListInv, MemInv, NoBlockIsLost

LEMMA ListInvStays == ListSpec => []ListInv
<1>1. ListInit => ListInv
  BY ListInitHolds
<1>2. ListInv /\ [ListNext]_<<memVars, listVars>> => ListInv'
  BY ListStepHolds
<1>. QED
  BY <1>1, <1>2, PTL DEF ListSpec

(* Whatever queues and stacks do, in whatever order and whether or not the    *)
(* pool can grow, no block is lost, none is on two lists or twice on one, and  *)
(* none is free and in use.                                                  *)
THEOREM ListsLoseNothing == ListSpec => [](ListTypeOK /\ NoBlockIsLost)
BY ListInvStays, InvIsEnough, PTL

(* Each list head is a sequence of its own: enqueue adds at the end, push at  *)
(* the beginning, dequeue and pop take from the beginning, and no operation    *)
(* on one list, or on the pool, is seen in another.                          *)
THEOREM ListRefinement == ListSpec => ImplementsLists
<1>1. ListInit => Service!Init
  BY ListInitHolds
<1>2. ListInv /\ [ListNext]_<<memVars, listVars>> => [Service!Next]_Service!vars
  BY ListStepHolds
<1>. QED
  BY <1>1, <1>2, ListInvStays, PTL DEF ListSpec, ImplementsLists, Service!Spec

-----------------------------------------------------------------------------

(***************************************************************************)
(* The pool, for all capacities and objects, and whatever is left in memory:  *)
(* what it holds is its own, and what a put lets in.                         *)
(***************************************************************************)

(* The inductive invariant is what the run checks. *)
ObjectsInv == PoolTypeOK /\ NumbersAreExact /\ PoolHoldsItsOwn

(* A new pool satisfies the invariant. *)
LEMMA ObjectsInitHold == ASSUME PoolInit PROVE ObjectsInv
<1>1. PICK min_cap \in Capacity, max_cap \in Capacity : new_pool(min_cap, max_cap)
  BY DEF PoolInit
<1>2. min_cap \in Nat /\ max_cap \in Nat /\ Limit \in Nat /\ min_cap <= Limit
  BY <1>1, PoolAssumption DEF new_pool
<1>3. PoolTypeOK
  <2>1. cap_max = max_cap /\ cap_now = min_cap /\ nobj = 0 /\ avail = 0 /\ avail_max = 0 /\ avail_min = Limit
    BY <1>1 DEF new_pool
  <2>2. addr \in [0 .. cap_now - 1 -> Object \cup {Junk}] /\ items \in [0 .. cap_now - 1 -> Object \cup {Junk}]
    BY <1>1, PoolAssumption DEF new_pool
  <2>3. first \in [Object -> Nat] /\ held \subseteq Object
    BY PoolAssumption DEF PoolInit
  <2>. QED
    BY <1>2, <2>1, <2>2, <2>3 DEF PoolTypeOK
<1>4. NumbersAreExact
  BY <1>1, <1>2 DEF new_pool, NumbersAreExact
<1>5. PoolHoldsItsOwn
  BY <1>1, <1>2 DEF new_pool, PoolHoldsItsOwn
<1>. QED
  BY <1>3, <1>4, <1>5 DEF ObjectsInv

(* A longer array begins with what the array holds, and goes on with more. *)
LEMMA LongerKeeps ==
  ASSUME NEW n \in Nat, NEW m \in Nat, n <= m,
         NEW array \in [0 .. n - 1 -> Object \cup {Junk}],
         NEW more \in [n .. m - 1 -> Object \cup {Junk}]
  PROVE  /\ Longer(array, more) \in [0 .. m - 1 -> Object \cup {Junk}]
         /\ \A k \in 0 .. n - 1 : Longer(array, more)[k] = array[k]
<1>1. (0 .. n - 1) \cup (n .. m - 1) = 0 .. m - 1
  OBVIOUS
<1>. QED
  BY <1>1 DEF Longer

(* A sum that does not wrap is a capacity that is not smaller, or none. *)
LEMMA NewCapGrows ==
  ASSUME NEW incr \in Nat, NoWrap(incr), cap_now \in 0 .. Limit, NewCap(incr) >= 0
  PROVE  NewCap(incr) \in cap_now .. Limit
<1>1. cap_now \in Nat /\ Limit \in Nat /\ Wrap \in Nat \ {0}
  BY PoolAssumption
<1>2. (cap_now + incr) % Wrap = cap_now + incr
  BY <1>1 DEF NoWrap
<1>. QED
  BY <1>1, <1>2 DEF NewCap, NoWrap

(* Expanding keeps what the pool holds. *)
LEMMA ExpandStep ==
  ASSUME ObjectsInv, NEW incr \in Capacity, NoWrap(incr), expand_pool(incr)
  PROVE  ObjectsInv'
<1>. USE DEF ObjectsInv
<1>. DEFINE none == incr = 0 \/ cap_now = cap_max \/ NewCap(incr) < 0
<1>1. CASE none
  BY <1>1 DEF expand_pool, PoolTypeOK, NumbersAreExact, PoolHoldsItsOwn
<1>2. CASE ~ none
  <2>0. cap_now \in Nat /\ incr \in Nat /\ NewCap(incr) \in Int
    BY PoolAssumption DEF PoolTypeOK, NewCap
  <2>1. PICK m : m = NewCap(incr)
    OBVIOUS
  <2>2. m \in 0 .. Limit /\ m \in Nat /\ cap_now <= m
    BY <1>2, <2>0, <2>1, NewCapGrows, PoolAssumption DEF PoolTypeOK
  <2>3. PICK left \in [cap_now .. m - 1 -> Left] :
          /\ cap_now' = m
          /\ items' = Longer(items, [k \in cap_now .. m - 1 |-> Junk])
          /\ addr' = Longer(addr, left)
          /\ UNCHANGED <<cap_max, nobj, avail, avail_min, avail_max, first, held>>
    BY <1>2, <2>1 DEF expand_pool
  <2>4. /\ items' \in [0 .. m - 1 -> Object \cup {Junk}]
        /\ \A k \in 0 .. cap_now - 1 : items'[k] = items[k]
    <3>1. PICK more \in [cap_now .. m - 1 -> Object \cup {Junk}] :
            more = [k \in cap_now .. m - 1 |-> Junk]
      OBVIOUS
    <3>2. items \in [0 .. cap_now - 1 -> Object \cup {Junk}] /\ items' = Longer(items, more)
      BY <2>3, <3>1 DEF PoolTypeOK
    <3>. QED
      BY <2>0, <2>2, <3>2, LongerKeeps
  <2>5. /\ addr' \in [0 .. m - 1 -> Object \cup {Junk}]
        /\ \A k \in 0 .. cap_now - 1 : addr'[k] = addr[k]
    <3>1. left \in [cap_now .. m - 1 -> Object \cup {Junk}]
      BY PoolAssumption
    <3>2. addr \in [0 .. cap_now - 1 -> Object \cup {Junk}] /\ addr' = Longer(addr, left)
      BY <2>3 DEF PoolTypeOK
    <3>. QED
      BY <2>0, <2>2, <3>1, <3>2, LongerKeeps
  <2>6. PoolTypeOK'
    BY <2>2, <2>3, <2>4, <2>5 DEF PoolTypeOK
  <2>7. NumbersAreExact'
    BY <2>2, <2>3, <2>5 DEF NumbersAreExact, PoolTypeOK
  <2>8. \A k \in 0 .. avail - 1 : items'[k] = items[k]
    BY <2>0, <2>4 DEF PoolTypeOK
  <2>9. PoolHoldsItsOwn'
    <3>1. avail' = avail /\ held' = held
      BY <2>3
    <3>2. \A j \in 0 .. avail - 1 : items'[j] \in Object \ held
      BY <2>8 DEF PoolHoldsItsOwn
    <3>3. \A j, k \in 0 .. avail - 1 : items'[j] = items'[k] => j = k
      BY <2>8 DEF PoolHoldsItsOwn
    <3>. QED
      BY <3>1, <3>2, <3>3 DEF PoolHoldsItsOwn
  <2>. QED
    BY <2>6, <2>7, <2>9
<1>. QED
  BY <1>1, <1>2

(* Registering an object gives it the next number. *)
LEMMA NewObjectStep ==
  ASSUME ObjectsInv, NEW obj \in Object, pool_new_obj(obj)
  PROVE  ObjectsInv'
<1>. USE DEF ObjectsInv
<1>1. CASE nobj = cap_now
  BY <1>1 DEF pool_new_obj, sizeVars, stackVars, PoolTypeOK, NumbersAreExact, PoolHoldsItsOwn
<1>2. CASE nobj # cap_now
  <2>1. /\ obj \in held \ Registered
        /\ addr' = [addr EXCEPT ![nobj] = obj]
        /\ first' = [first EXCEPT ![obj] = nobj]
        /\ nobj' = nobj + 1
        /\ UNCHANGED <<cap_max, cap_now, items, avail, avail_min, avail_max, held>>
    BY <1>2 DEF pool_new_obj, Number, sizeVars, stackVars
  <2>2. nobj \in 0 .. cap_now - 1 /\ cap_now \in Nat /\ nobj \in Nat
    BY <1>2, PoolAssumption DEF PoolTypeOK
  <2>3. PoolTypeOK'
    BY <2>1, <2>2 DEF PoolTypeOK
  <2>4. \A k \in 0 .. nobj - 1 : addr'[k] = addr[k] /\ addr[k] # obj
    BY <2>1, <2>2 DEF PoolTypeOK, Registered
  <2>5. addr'[nobj] = obj /\ first'[obj] = nobj
    BY <2>1, <2>2 DEF PoolTypeOK
  <2>6. NumbersAreExact'
    <3>1. ASSUME NEW k \in 0 .. nobj' - 1 PROVE addr'[k] \in Object /\ first'[addr'[k]] = k
      <4>1. CASE k = nobj
        BY <2>5, <4>1
      <4>2. CASE k # nobj
        <5>1. k \in 0 .. nobj - 1
          BY <2>1, <2>2, <4>2
        <5>. QED
          BY <5>1, <2>1, <2>4 DEF NumbersAreExact, PoolTypeOK
      <4>. QED
        BY <4>1, <4>2
    <3>. QED
      BY <3>1 DEF NumbersAreExact
  <2>8. PoolHoldsItsOwn'
    BY <2>1 DEF PoolHoldsItsOwn
  <2>. QED
    BY <2>3, <2>6, <2>8
<1>. QED
  BY <1>1, <1>2

(* The top of the stack goes to the application. *)
LEMMA GetObjectStep ==
  ASSUME ObjectsInv, pool_get
  PROVE  ObjectsInv'
<1>. USE DEF ObjectsInv
<1>1. /\ avail \in Nat \ {0} /\ avail <= cap_now /\ cap_now \in Nat
      /\ avail' = avail - 1
      /\ avail_min' \in Nat
      /\ held' = held \cup {items[avail - 1]}
      /\ UNCHANGED <<cap_max, cap_now, nobj, addr, items, avail_max, first>>
  BY PoolAssumption DEF pool_get, PoolTypeOK, Top, sizeVars
<1>2. items[avail - 1] \in Object
  BY <1>1 DEF PoolHoldsItsOwn
<1>3. PoolTypeOK'
  BY <1>1, <1>2 DEF PoolTypeOK
<1>4. NumbersAreExact'
  BY <1>1 DEF NumbersAreExact
<1>5. PoolHoldsItsOwn'
  BY <1>1 DEF PoolHoldsItsOwn
<1>. QED
  BY <1>3, <1>4, <1>5

(* A registered object passes the test of its number, and no other does whose *)
(* number was given out.                                                     *)
LEMMA RegisteredIsKnown ==
  ASSUME ObjectsInv, NEW obj \in Object
  PROVE  /\ obj \in Registered => Known(obj)
         /\ Known(obj) /\ obj \notin Registered => first[obj] \in nobj .. cap_now - 1
<1>. USE DEF ObjectsInv
<1>0. nobj \in Nat /\ nobj <= cap_now /\ cap_now \in Nat /\ first[obj] \in Nat
  BY PoolAssumption DEF PoolTypeOK
<1>1. ASSUME Known(obj), first[obj] \in 0 .. nobj - 1 PROVE obj \in Registered
  BY <1>1 DEF Known, Registered
<1>2. ASSUME obj \in Registered PROVE Known(obj)
  <2>1. PICK k \in 0 .. nobj - 1 : obj = addr[k]
    BY <1>2 DEF Registered
  <2>2. first[obj] = k
    BY <2>1 DEF NumbersAreExact
  <2>. QED
    BY <1>0, <2>1, <2>2 DEF Known
<1>3. ASSUME Known(obj) PROVE first[obj] < cap_now
  BY <1>3 DEF Known
<1>. QED
  BY <1>0, <1>1, <1>2, <1>3

(* Without strangers in it the pool is not full for a registered object that  *)
(* somebody holds: the numbers of the items are distinct, and differ from the *)
(* number of that one.                                                      *)
LEMMA RoomForHeld ==
  ASSUME ObjectsInv, Strangers = {}, NEW obj \in held \cap Registered
  PROVE  avail < cap_now
<1>. USE DEF ObjectsInv
<1>. DEFINE number == [j \in 0 .. avail - 1 |-> first[items[j]]]
            others == (0 .. nobj - 1) \ {first[obj]}
<1>1. nobj \in Nat /\ avail \in Nat /\ nobj <= cap_now /\ cap_now \in Nat
  BY PoolAssumption DEF PoolTypeOK
<1>2. ASSUME NEW o \in Registered
      PROVE  first[o] \in 0 .. nobj - 1 /\ addr[first[o]] = o
  <2>1. PICK k \in 0 .. nobj - 1 : o = addr[k]
    BY DEF Registered
  <2>. QED
    BY <2>1 DEF NumbersAreExact
<1>3. \A j \in 0 .. avail - 1 : items[j] \in Registered /\ items[j] # obj
  BY DEF PoolHoldsItsOwn, Strangers
<1>4. number \in [0 .. avail - 1 -> others]
  BY <1>2, <1>3
<1>5. \A i, j \in 0 .. avail - 1 : number[i] = number[j] => i = j
  BY <1>2, <1>3 DEF PoolHoldsItsOwn
<1>6. number \in Injection(0 .. avail - 1, others)
  BY <1>4, <1>5 DEF Injection, IsInjective
<1>7. /\ IsFiniteSet(0 .. nobj - 1) /\ Cardinality(0 .. nobj - 1) = nobj
      /\ IsFiniteSet(0 .. avail - 1) /\ Cardinality(0 .. avail - 1) = avail
  <2>1. 0 \in Int /\ nobj - 1 \in Int /\ avail - 1 \in Int
    BY <1>1
  <2>. QED
    BY <1>1, <2>1, FS_Interval
<1>8. IsFiniteSet(others) /\ Cardinality(others) = nobj - 1
  <2>1. first[obj] \in 0 .. nobj - 1
    BY <1>2
  <2>. QED
    BY <2>1, <1>7, FS_RemoveElement, ZenonT(40)
<1>. HIDE DEF number, others
<1>9. Cardinality(0 .. avail - 1) <= Cardinality(others)
  BY <1>6, <1>8, FS_Injection
<1>. QED
  BY <1>1, <1>7, <1>8, <1>9

(* What a put says of the object it gets. *)
PutChecks(obj) ==
  /\ obj \in Registered /\ Strangers = {} => ret' = 0
  /\ obj \notin Registered /\ ret' = 0 => first[obj] \in nobj .. cap_now - 1

(* What is put was held, and is in the pool or not. *)
LEMMA PutObjectStep ==
  ASSUME ObjectsInv, NEW obj \in Object, pool_put(obj)
  PROVE  ObjectsInv' /\ PutChecks(obj)
<1>. USE DEF ObjectsInv
<1>0. avail \in Nat /\ avail <= cap_now /\ cap_now \in Nat /\ obj \in held
  BY PoolAssumption DEF pool_put, PoolTypeOK
<1>1. CASE ~ Known(obj) \/ avail = cap_now
  <2>1. ret' = 1 /\ UNCHANGED <<sizeVars, nobj, addr, stackVars, first, held>>
    BY <1>1 DEF pool_put
  <2>2. ~ (obj \in Registered /\ Strangers = {})
    BY <1>0, <1>1, RegisteredIsKnown, RoomForHeld
  <2>3. ObjectsInv'
    BY <2>1 DEF PoolTypeOK, NumbersAreExact, PoolHoldsItsOwn, sizeVars, stackVars
  <2>. QED
    BY <2>1, <2>2, <2>3 DEF PutChecks
<1>2. CASE Known(obj) /\ avail # cap_now
  <2>1. avail < cap_now
    BY <1>0, <1>2
  <2>2. /\ items' = [items EXCEPT ![avail] = obj]
        /\ avail' = avail + 1
        /\ avail_max' = IF avail_max < avail + 1 THEN avail + 1 ELSE avail_max
        /\ held' = held \ {obj}
        /\ ret' = 0
        /\ UNCHANGED <<avail_min, cap_max, cap_now, nobj, addr, first>>
    BY <1>2 DEF pool_put, sizeVars
  <2>3. PoolTypeOK'
    BY <1>0, <2>1, <2>2 DEF PoolTypeOK
  <2>4. NumbersAreExact'
    BY <2>2 DEF NumbersAreExact
  <2>5. /\ items'[avail] = obj
        /\ \A j \in 0 .. avail - 1 : items'[j] = items[j] /\ items[j] # obj
    BY <1>0, <2>1, <2>2 DEF PoolTypeOK, PoolHoldsItsOwn
  <2>6. PoolHoldsItsOwn'
    BY <1>0, <2>1, <2>2, <2>5 DEF PoolHoldsItsOwn
  <2>7. PutChecks(obj)
    BY <1>2, <2>2, RegisteredIsKnown DEF PutChecks
  <2>. QED
    BY <2>3, <2>4, <2>6, <2>7
<1>. QED
  BY <1>1, <1>2

(* Every step keeps the invariant. *)
LEMMA ObjectsInductive ==
  ASSUME ObjectsInv, [PoolNext]_poolVars
  PROVE  ObjectsInv'
<1>1. CASE UNCHANGED poolVars
  BY <1>1 DEF poolVars, sizeVars, stackVars, ObjectsInv, PoolTypeOK, NumbersAreExact, PoolHoldsItsOwn
<1>2. CASE expand_fails
  BY <1>2 DEF expand_fails, sizeVars, stackVars, ObjectsInv, PoolTypeOK, NumbersAreExact, PoolHoldsItsOwn
<1>3. CASE \E incr \in Capacity : NoWrap(incr) /\ expand_pool(incr)
  BY <1>3, ExpandStep
<1>4. CASE pool_get
  BY <1>4, GetObjectStep
<1>5. CASE \E obj \in Object : pool_new_obj(obj) \/ pool_put(obj)
  BY <1>5, NewObjectStep, PutObjectStep
<1>. QED
  BY <1>1, <1>2, <1>3, <1>4, <1>5 DEF PoolNext

(* An object in the pool is there once and nobody holds it, and the numbers    *)
(* given out are exact, however often the pool has been expanded (by what    *)
(* does not wrap) and whatever was left in the memory it was given.          *)
THEOREM PoolInvariance == PoolSpec => [](PoolTypeOK /\ NumbersAreExact /\ PoolHoldsItsOwn)
<1>1. PoolInit => ObjectsInv
  BY ObjectsInitHold
<1>2. ObjectsInv /\ [PoolNext]_poolVars => ObjectsInv'
  BY ObjectsInductive
<1>. QED
  BY <1>1, <1>2, PTL DEF PoolSpec, ObjectsInv

(* What the code comments as "should never happen" never happens as long as   *)
(* the pool took registered objects only: a put of one finds it full.  What    *)
(* was not registered is taken only by a number that was not given out.       *)
THEOREM PutsAreChecked == PoolSpec => PutIsChecked
<1>. DEFINE Checks == \A obj \in Object : pool_put(obj) => PutChecks(obj)
<1>1. PoolInit => ObjectsInv
  BY ObjectsInitHold
<1>2. ObjectsInv /\ [PoolNext]_poolVars => ObjectsInv'
  BY ObjectsInductive
<1>3. ObjectsInv => Checks
  BY PutObjectStep
<1>4. PutIsChecked <=> [][Checks]_poolVars
  BY DEF PutIsChecked, PutChecks
<1>. HIDE DEF Checks
<1>. QED
  BY <1>1, <1>2, <1>3, <1>4, PTL DEF PoolSpec

-----------------------------------------------------------------------------

(***************************************************************************)
(* The dynamic array, for items of every size, all capacities and every      *)
(* width of sizes: for a user who is careful it is the collection it          *)
(* promises to be, and uses no memory but its own.                          *)
(***************************************************************************)

(* The inductive invariant: the array's memory has room for its capacity     *)
(* because the number of its bytes has not wrapped.                         *)
ArrayInv ==
  /\ ArrayTypeOK /\ ItemsAreThere /\ RoomForCapacity /\ NoOverrun
  /\ MayAsk(capacity)

(* The memory for c items has exactly c places, unless its size wraps.      *)
LEMMA PlacesFit ==
  ASSUME NEW c \in Nat, c * ItemSize < Wrap
  PROVE  Places(c) = 0 .. c - 1
<1>1. ItemSize \in Nat \ {0} /\ Wrap \in Nat \ {0} /\ c * ItemSize \in Nat
  BY ArrayAssumption
<1>. DEFINE bytes == c * ItemSize
<1>2. bytes % Wrap = bytes
  <2>. HIDE DEF bytes
  <2>1. bytes \in Nat /\ bytes < Wrap
    BY <1>1 DEF bytes
  <2>. QED
    BY <2>1, <1>1
<1>3. ASSUME NEW k \in 0 .. c - 1
      PROVE  (k + 1) * ItemSize <= bytes
  <2>1. PICK d \in Nat : c = k + 1 + d
    <3>. WITNESS c - (k + 1) \in Nat
    <3>. QED
      OBVIOUS
  <2>2. bytes = (k + 1) * ItemSize + d * ItemSize
    BY <1>1, <2>1
  <2>3. (k + 1) * ItemSize \in Nat /\ d * ItemSize \in Nat
    BY <1>1
  <2>. QED
    BY <2>2, <2>3
<1>. QED
  BY <1>2, <1>3 DEF Places

(* ... and is not empty.                                                    *)
LEMMA NotFreed ==
  ASSUME NEW c \in Nat \ {0}, c * ItemSize < Wrap
  PROVE  ~ Freed(c)
<1>. DEFINE bytes == c * ItemSize
<1>1. ItemSize \in Nat \ {0} /\ Wrap \in Nat \ {0}
  BY ArrayAssumption
<1>2. bytes \in Nat /\ bytes # 0
  BY <1>1
<1>. HIDE DEF bytes
<1>3. bytes < Wrap
  BY DEF bytes
<1>4. bytes % Wrap = bytes
  BY <1>1, <1>2, <1>3
<1>. QED
  BY <1>2, <1>4 DEF Freed, bytes

(* A new array is empty.                                                    *)
LEMMA ArrayInitHolds ==
  ASSUME ArrayInit, MayAsk(capacity)
  PROVE  ArrayInv /\ A!Init
<1>1. capacity \in 1 .. Wrap - 1
  <2>1. capacity \in Nat \ {0} /\ capacity * ItemSize < Wrap /\ Wrap \in Nat
    BY ArrayAssumption DEF ArrayInit, MayAsk, FirstCapacity
  <2>2. capacity <= capacity * ItemSize
    BY <2>1, ArrayAssumption
  <2>3. capacity * ItemSize \in Nat
    BY <2>1, ArrayAssumption
  <2>. QED
    BY <2>1, <2>2, <2>3
<1>2. Places(capacity) = 0 .. capacity - 1
  BY <1>1, PlacesFit DEF MayAsk
<1>3. ArrayTypeOK /\ ItemsAreThere /\ RoomForCapacity /\ NoOverrun
  BY <1>1, <1>2 DEF ArrayInit, ArrayTypeOK, ItemsAreThere, RoomForCapacity, NoOverrun
<1>4. A!Init
  BY DEF A!Init, ArrayInit, ArrayContents
<1>. QED
  BY <1>3, <1>4 DEF ArrayInv

(* Memory for c items, of which there are not more, keeps all of them.      *)
LEMMA ReallocatedKeeps ==
  ASSUME ArrayInv, NEW c \in Nat, nitems <= c, c * ItemSize < Wrap
  PROVE  /\ Reallocated(c) \in [0 .. c - 1 -> Item \cup {Junk}]
         /\ \A k \in 0 .. nitems - 1 : Reallocated(c)[k] = mem[k]
BY PlacesFit DEF ArrayInv, ArrayTypeOK, ItemsAreThere, Reallocated

(* Another capacity does not change what the array contains.                *)
LEMMA SetcapStep ==
  ASSUME ArrayInv, NEW c \in Request, MayAsk(c), setcap(c)
  PROVE  ArrayInv' /\ UNCHANGED ArrayContents
<1>1. c \in 0 .. Wrap - 1 /\ Wrap \in Nat
  BY ArrayAssumption
<1>2. CASE c = 0
  <2>1. UNCHANGED <<fate, mem, nitems, capacity>>
    BY <1>2 DEF setcap
  <2>. QED
    BY <2>1 DEF ArrayInv, ArrayTypeOK, ItemsAreThere, RoomForCapacity, NoOverrun, MayAsk, ArrayContents
<1>3. CASE c # 0
  <2>1. c \in Nat \ {0} /\ nitems <= c /\ c * ItemSize < Wrap /\ nitems \in Nat
    BY <1>1, <1>3 DEF MayAsk, ArrayInv, ArrayTypeOK
  <2>2. /\ mem' = Reallocated(c)
        /\ capacity' = c
        /\ UNCHANGED <<fate, nitems>>
    BY <1>3, <2>1, NotFreed DEF setcap
  <2>3. /\ mem' \in [0 .. c - 1 -> Item \cup {Junk}]
        /\ \A k \in 0 .. nitems - 1 : mem'[k] = mem[k]
    BY <2>1, <2>2, ReallocatedKeeps
  <2>4. ArrayTypeOK'
    BY <1>1, <1>3, <2>2, <2>3 DEF ArrayInv, ArrayTypeOK
  <2>5. ItemsAreThere' /\ RoomForCapacity' /\ NoOverrun'
    BY <2>1, <2>2, <2>3 DEF ArrayInv, ItemsAreThere, RoomForCapacity, NoOverrun
  <2>6. MayAsk(capacity)'
    BY <2>1, <2>2 DEF MayAsk
  <2>7. \A k \in 1 .. nitems : mem'[k - 1] = mem[k - 1]
    BY <2>1, <2>3
  <2>. QED
    BY <2>2, <2>4, <2>5, <2>6, <2>7 DEF ArrayInv, ArrayContents
<1>. QED
  BY <1>2, <1>3

(* Writing item nitems into memory m that has room for it and holds the      *)
(* items there are adds the item to the collection.                         *)
LEMMA WriteAdds ==
  ASSUME ArrayInv, NEW c \in Nat, NEW m \in [0 .. c - 1 -> Item \cup {Junk}], NEW d \in Item,
         nitems < c, c < Wrap, c * ItemSize < Wrap,
         \A k \in 0 .. nitems - 1 : m[k] = mem[k],
         Written(m, d), nitems' = nitems + 1, capacity' = c
  PROVE  ArrayInv' /\ A!Add(d)
<1>1. nitems \in Nat /\ nitems \in DOMAIN m
  BY DEF ArrayInv, ArrayTypeOK
<1>2. /\ mem' = [m EXCEPT ![nitems] = d]
      /\ fate' = fate
  BY <1>1 DEF Written
<1>3. /\ mem' \in [0 .. c - 1 -> Item \cup {Junk}]
      /\ mem'[nitems] = d
      /\ \A k \in 0 .. nitems - 1 : mem'[k] = mem[k]
  BY <1>1, <1>2
<1>4. ArrayTypeOK'
  <2>1. c \in 1 .. Wrap - 1 /\ DOMAIN mem' \subseteq Nat
    BY <1>1, <1>3, ArrayAssumption
  <2>. QED
    BY <1>1, <1>2, <1>3, <2>1 DEF ArrayInv, ArrayTypeOK
<1>5. ItemsAreThere'
  <2>1. ASSUME NEW k \in 0 .. nitems' - 1 PROVE k \in DOMAIN mem' /\ mem'[k] \in Item
    BY <1>1, <1>3, <2>1 DEF ArrayInv, ItemsAreThere
  <2>. QED
    BY <2>1 DEF ItemsAreThere
<1>6. RoomForCapacity' /\ NoOverrun' /\ MayAsk(capacity)'
  BY <1>1, <1>2, <1>3 DEF ArrayInv, RoomForCapacity, NoOverrun, MayAsk
<1>7. A!Add(d)
  <2>. DEFINE old == [k \in 1 .. nitems |-> mem[k - 1]]
              new == [k \in 1 .. nitems + 1 |-> mem'[k - 1]]
  <2>1. \A k \in 1 .. nitems : mem[k - 1] \in Item
    BY <1>1 DEF ArrayInv, ItemsAreThere
  <2>2. old \in Seq(Item) /\ Len(old) = nitems
    BY <1>1, <2>1
  <2>3. \A k \in 1 .. nitems : old[k] = mem'[k - 1]
    BY <1>1, <1>3
  <2>4. Append(old, d) = [k \in 1 .. nitems + 1 |-> IF k = nitems + 1 THEN d ELSE old[k]]
    BY <1>1, <2>2
  <2>5. \A k \in 1 .. nitems + 1 : (IF k = nitems + 1 THEN d ELSE old[k]) = mem'[k - 1]
    BY <1>1, <1>3, <2>3
  <2>. HIDE DEF old
  <2>6. new = Append(old, d)
    BY <2>4, <2>5
  <2>. QED
    BY <1>1, <2>6 DEF A!Add, ArrayContents, old
<1>. QED
  BY <1>4, <1>5, <1>6, <1>7 DEF ArrayInv

(* An item is added, to memory that is doubled first if it is full.         *)
LEMMA AddStep ==
  ASSUME ArrayInv, NEW d \in Item, add(d), nitems = capacity => MayAsk(2 * capacity)
  PROVE  ArrayInv' /\ A!Add(d)
<1>1. /\ nitems \in Nat /\ capacity \in Nat \ {0} /\ Wrap \in Nat \ {0} /\ capacity < Wrap
      /\ nitems <= capacity /\ capacity * ItemSize < Wrap
  BY ArrayAssumption DEF ArrayInv, ArrayTypeOK, MayAsk
<1>2. CASE nitems # capacity
  <2>1. nitems < capacity /\ (nitems + 1) % Wrap = nitems + 1
    BY <1>1, <1>2
  <2>2. Written(mem, d) /\ nitems' = nitems + 1 /\ capacity' = capacity
    BY <1>2, <2>1 DEF add, MustGrow
  <2>3. mem \in [0 .. capacity - 1 -> Item \cup {Junk}]
    BY DEF ArrayInv, ArrayTypeOK, RoomForCapacity
  <2>. QED
    BY <1>1, <2>1, <2>2, <2>3, WriteAdds
<1>3. CASE nitems = capacity
  <2>1. 2 * capacity * ItemSize < Wrap
    BY <1>3 DEF MayAsk
  <2>2. 2 * capacity \in Nat \ {0} /\ 2 * capacity < Wrap
    <3>1. 2 * capacity <= 2 * capacity * ItemSize /\ 2 * capacity * ItemSize \in Nat
      BY <1>1, ArrayAssumption
    <3>. QED
      BY <1>1, <2>1, <3>1
  <2>3. Doubled = 2 * capacity /\ ~ Freed(Doubled)
    BY <1>1, <2>1, <2>2, NotFreed DEF Doubled
  <2>4. Written(Reallocated(2 * capacity), d) /\ nitems' = nitems + 1 /\ capacity' = 2 * capacity
    BY <1>3, <2>2, <2>3 DEF add, MustGrow
  <2>5. /\ Reallocated(2 * capacity) \in [0 .. 2 * capacity - 1 -> Item \cup {Junk}]
        /\ \A k \in 0 .. nitems - 1 : Reallocated(2 * capacity)[k] = mem[k]
    BY <1>1, <1>3, <2>1, <2>2, ReallocatedKeeps
  <2>. QED
    BY <1>1, <1>3, <2>1, <2>2, <2>4, <2>5, WriteAdds
<1>. QED
  BY <1>2, <1>3

(* Every step of a careful user keeps the invariant, and is a step of the    *)
(* collection or changes nothing of it.                                     *)
LEMMA ArrayStepHolds ==
  ASSUME ArrayInv, [CarefulNext]_arrayVars
  PROVE  ArrayInv' /\ [A!Next]_ArrayContents
<1>1. CASE UNCHANGED <<fate, mem, nitems, capacity>>
  BY <1>1 DEF ArrayInv, ArrayTypeOK, ItemsAreThere, RoomForCapacity, NoOverrun, MayAsk, ArrayContents
<1>2. CASE \E c \in Request : MayAsk(c) /\ setcap(c)
  BY <1>2, SetcapStep
<1>3. CASE array__reset
  <2>1. nitems' = 0 /\ UNCHANGED <<fate, mem, capacity>>
    BY <1>3 DEF array__reset, AfterReset
  <2>2. ArrayTypeOK' /\ ItemsAreThere' /\ RoomForCapacity' /\ NoOverrun'
    BY <2>1 DEF ArrayInv, ArrayTypeOK, ItemsAreThere, RoomForCapacity, NoOverrun
  <2>3. MayAsk(capacity)'
    BY <2>1 DEF ArrayInv, ArrayTypeOK, MayAsk
  <2>4. A!Reset
    BY <2>1 DEF A!Reset, ArrayContents
  <2>. QED
    BY <2>2, <2>3, <2>4 DEF A!Next, ArrayInv
<1>4. CASE array__walk
  <2>1. 0 .. nitems - 1 \subseteq DOMAIN mem
    BY DEF ArrayInv, ItemsAreThere
  <2>2. UNCHANGED <<fate, mem, nitems, capacity>>
    BY <1>4, <2>1 DEF array__walk, ArrayInv, NoOverrun
  <2>. QED
    BY <1>1, <2>2
<1>5. CASE (nitems = capacity => MayAsk(2 * capacity)) /\ \E d \in Item : add(d)
  BY <1>5, AddStep DEF A!Next
<1>6. CASE setcap_fails \/ UNCHANGED arrayVars
  BY <1>1, <1>6 DEF setcap_fails, arrayVars
<1>. QED
  BY <1>2, <1>3, <1>4, <1>5, <1>6 DEF CarefulNext

(* Memory of a careful user's array is never overrun: every item has its     *)
(* place, and the memory as many places as the capacity says.               *)
THEOREM ArrayInvariance == CarefulSpec => [](ArrayTypeOK /\ ItemsAreThere /\ RoomForCapacity /\ NoOverrun)
<1>1. ArrayInit /\ MayAsk(capacity) => ArrayInv
  BY ArrayInitHolds
<1>2. ArrayInv /\ [CarefulNext]_arrayVars => ArrayInv'
  BY ArrayStepHolds
<1>. QED
  BY <1>1, <1>2, PTL DEF CarefulSpec, ArrayInv

(* The items that were added since the last reset are all there and in       *)
(* order, however the array was expanded, shrunk or could not be.           *)
THEOREM CollectionRefinement == CarefulSpec => ImplementsCollection
<1>1. ArrayInit /\ MayAsk(capacity) => ArrayInv /\ A!Init
  BY ArrayInitHolds
<1>2. ArrayInv /\ [CarefulNext]_arrayVars => ArrayInv' /\ [A!Next]_ArrayContents
  BY ArrayStepHolds
<1>. QED
  BY <1>1, <1>2, PTL DEF CarefulSpec, ImplementsCollection, A!Spec

(***************************************************************************)
(* The buffers of a worker, for every length they start with: what is echoed *)
(* is the string that was read.                                             *)
(***************************************************************************)

(* s is the string at m: bytes up to the first zero, or to the end of m.     *)
IsString(m, s) ==
  /\ s \in Seq(Byte) /\ Len(s) <= Len(m)
  /\ \A k \in 1 .. Len(s) : s[k] = m[k] /\ s[k] # "zero"
  /\ Len(s) < Len(m) => m[Len(s) + 1] = "zero"

(* StringOf() finds it.                                                     *)
LEMMA StringIsFound ==
  ASSUME NEW m \in Seq(Byte)
  PROVE  IsString(m, StringOf(m)) /\ (Ends(m) = {} <=> Len(StringOf(m)) = Len(m))
<1>1. Len(m) \in Nat /\ DOMAIN m = 1 .. Len(m) /\ \A k \in 1 .. Len(m) : m[k] \in Byte
  OBVIOUS
<1>2. CASE Ends(m) = {}
  <2>1. StringOf(m) = m
    BY <1>2 DEF StringOf
  <2>2. \A k \in 1 .. Len(m) : m[k] # "zero"
    BY <1>1, <1>2 DEF Ends
  <2>. QED
    BY <1>1, <1>2, <2>1, <2>2 DEF IsString
<1>3. CASE Ends(m) # {}
  <2>1. Ends(m) \subseteq Nat
    BY <1>1 DEF Ends
  <2>2. \E k \in Ends(m) : \A j \in Ends(m) : k <= j
    BY <1>3, <2>1, LeastNumber
  <2>3. PICK end : end = CHOOSE k \in Ends(m) : \A j \in Ends(m) : k <= j
    OBVIOUS
  <2>4. end \in Ends(m) /\ \A j \in Ends(m) : end <= j
    BY <2>2, <2>3
  <2>5. end \in 1 .. Len(m) /\ m[end] = "zero" /\ \A k \in 1 .. Len(m) : k < end => m[k] # "zero"
    BY <1>1, <2>4 DEF Ends
  <2>6. PICK s : s = SubSeq(m, 1, end - 1)
    OBVIOUS
  <2>7. StringOf(m) = s
    BY <1>3, <2>3, <2>6 DEF StringOf
  <2>8. s \in Seq(Byte) /\ Len(s) = end - 1 /\ \A k \in 1 .. end - 1 : s[k] = m[k]
    BY <1>1, <2>5, <2>6
  <2>9. \A k \in 1 .. end - 1 : m[k] # "zero"
    BY <1>1, <2>5
  <2>10. IsString(m, s)
    BY <1>1, <2>5, <2>8, <2>9 DEF IsString
  <2>11. Len(s) # Len(m)
    BY <1>1, <2>5, <2>8
  <2>. QED
    BY <1>3, <2>7, <2>10, <2>11
<1>. QED
  BY <1>2, <1>3

LEMMA OneString ==
  ASSUME NEW m \in Seq(Byte), NEW s, NEW t, IsString(m, s), IsString(m, t)
  PROVE  s = t
<1>1. /\ Len(m) \in Nat /\ Len(s) \in Nat /\ Len(t) \in Nat
      /\ Len(s) <= Len(m) /\ Len(t) <= Len(m)
      /\ s \in Seq(Byte) /\ t \in Seq(Byte)
  BY DEF IsString
<1>2. ~ Len(s) < Len(t)
  <2>1. SUFFICES ASSUME Len(s) < Len(t) PROVE FALSE
    OBVIOUS
  <2>2. Len(s) + 1 \in 1 .. Len(t) /\ Len(s) < Len(m)
    BY <1>1, <2>1
  <2>. QED
    BY <2>2 DEF IsString
<1>3. ~ Len(t) < Len(s)
  <2>1. SUFFICES ASSUME Len(t) < Len(s) PROVE FALSE
    OBVIOUS
  <2>2. Len(t) + 1 \in 1 .. Len(s) /\ Len(t) < Len(m)
    BY <1>1, <2>1
  <2>. QED
    BY <2>2 DEF IsString
<1>4. Len(s) = Len(t)
  BY <1>1, <1>2, <1>3
<1>5. \A k \in 1 .. Len(s) : s[k] = t[k]
  BY <1>4 DEF IsString
<1>6. s = [k \in 1 .. Len(s) |-> s[k]] /\ t = [k \in 1 .. Len(t) |-> t[k]]
  BY <1>1
<1>. QED
  BY <1>4, <1>5, <1>6

(* The buffer m holds what was read, and then zeros or a single byte.        *)
Holds(m, i) ==
  /\ Len(i) < Len(m)
  /\ \A k \in 1 .. Len(i) : m[k] = i[k]
  /\ \/ \A k \in Len(i) + 1 .. Len(m) : m[k] = "zero"
     \/ Len(m) = Len(i) + 1

(* It is the string that was read, if it ends in the buffer ...             *)
LEMMA SameString ==
  ASSUME NEW m \in Seq(Byte), NEW i \in Seq(Byte), Holds(m, i), Ends(m) # {}
  PROVE  StringOf(m) = StringOf(i)
<1>1. PICK s : s = StringOf(m)
  OBVIOUS
<1>2. IsString(m, s) /\ Len(s) < Len(m)
  BY <1>1, StringIsFound DEF IsString
<1>3. /\ Len(m) \in Nat /\ Len(i) \in Nat /\ Len(s) \in Nat /\ Len(i) < Len(m)
      /\ s \in Seq(Byte)
  BY <1>2 DEF Holds, IsString
<1>4. Len(s) <= Len(i)
  <2>1. SUFFICES ASSUME Len(s) > Len(i) PROVE FALSE
    BY <1>3
  <2>2. Len(i) + 1 \in 1 .. Len(s) /\ Len(i) + 1 \in Len(i) + 1 .. Len(m) /\ Len(m) # Len(i) + 1
    BY <1>2, <1>3, <2>1
  <2>3. m[Len(i) + 1] # "zero"
    BY <1>2, <2>2 DEF IsString
  <2>. QED
    BY <2>2, <2>3 DEF Holds
<1>5. \A k \in 1 .. Len(s) : s[k] = i[k] /\ s[k] # "zero"
  <2>1. \A k \in 1 .. Len(s) : k \in 1 .. Len(i)
    BY <1>3, <1>4
  <2>. QED
    BY <1>2, <2>1 DEF IsString, Holds
<1>6. Len(s) < Len(i) => i[Len(s) + 1] = "zero"
  <2>1. Len(s) < Len(i) => Len(s) + 1 \in 1 .. Len(i)
    BY <1>3
  <2>. QED
    BY <1>2, <2>1 DEF IsString, Holds
<1>7. IsString(i, s)
  BY <1>3, <1>4, <1>5, <1>6 DEF IsString
<1>8. IsString(i, StringOf(i))
  BY StringIsFound
<1>. QED
  BY <1>1, <1>7, <1>8, OneString

(* ... and if it does not, the buffer has just grown by a byte.              *)
LEMMA NoEnd ==
  ASSUME NEW m \in Seq(Byte), NEW i \in Seq(Byte), Holds(m, i), Ends(m) = {}
  PROVE  Len(m) = Len(i) + 1 /\ m[Len(m)] # "zero"
<1>1. /\ Len(m) \in Nat /\ Len(i) \in Nat /\ Len(i) < Len(m) /\ DOMAIN m = 1 .. Len(m)
  BY DEF Holds
<1>2. Len(m) \in 1 .. Len(m) /\ Len(m) \in Len(i) + 1 .. Len(m)
  BY <1>1
<1>3. m[Len(m)] # "zero"
  BY <1>1, <1>2 DEF Ends
<1>. QED
  BY <1>2, <1>3 DEF Holds

(* Sequences end to end.                                                    *)
Join(a, b, t) == t = a \o b

Joins(a, b, t) ==
  /\ Len(t) = Len(a) + Len(b)
  /\ \A j \in 1 .. Len(a) : t[j] = a[j]
  /\ \A j \in 1 .. Len(b) : t[Len(a) + j] = b[j]

LEMMA Joined ==
  ASSUME NEW a \in Seq(Byte), NEW b \in Seq(Byte), NEW t, Join(a, b, t)
  PROVE  t \in Seq(Byte) /\ Joins(a, b, t)
BY DEF Join, Joins

LEMMA OneMore ==
  ASSUME NEW S, NEW a \in Seq(S), NEW x \in S, NEW t, t = Append(a, x)
  PROVE  /\ t \in Seq(S) /\ Len(t) = Len(a) + 1 /\ t[Len(a) + 1] = x
         /\ \A j \in 1 .. Len(a) : t[j] = a[j]
OBVIOUS

(* What is where after memory was written to.                               *)
StoredIn(m, k, bytes, t) ==
  /\ t \in Seq(Byte) /\ Len(t) = Len(m)
  /\ \A j \in 1 .. k : t[j] = m[j]
  /\ \A j \in 1 .. Len(bytes) : t[k + j] = bytes[j]
  /\ \A j \in k + Len(bytes) + 1 .. Len(m) : t[j] = m[j]

LEMMA StoredIs ==
  ASSUME NEW m \in Seq(Byte), NEW k \in Nat, NEW bytes \in Seq(Byte), k + Len(bytes) <= Len(m)
  PROVE  StoredIn(m, k, bytes, Stored(m, k, bytes))
<1>1. PICK a, z, n : a = SubSeq(m, 1, k) /\ n = Len(bytes) /\ z = SubSeq(m, k + n + 1, Len(m))
  OBVIOUS
<1>2. n \in Nat /\ Len(m) \in Nat /\ k + n <= Len(m)
  BY <1>1
<1>3. a \in Seq(Byte) /\ Len(a) = k /\ \A j \in 1 .. k : a[j] = m[j]
  BY <1>1, <1>2
<1>4. z \in Seq(Byte) /\ Len(z) = Len(m) - (k + n)
  BY <1>1, <1>2
<1>5. \A j \in 1 .. Len(z) : z[j] = m[k + n + j]
  <2>1. PICK p, q : p = k + n + 1 /\ q = Len(m)
    OBVIOUS
  <2>2. p \in Nat \ {0} /\ q \in Nat /\ q = Len(m) /\ z = SubSeq(m, p, q)
    BY <1>1, <1>2, <2>1
  <2>3. \A j \in 1 .. Len(z) : z[j] = m[p + j - 1]
    BY ONLY m \in Seq(Byte), <2>2
  <2>4. \A j \in Int : p + j - 1 = k + n + j
    BY <1>2, <2>1
  <2>5. \A j \in 1 .. Len(z) : j \in Int
    BY <1>4
  <2>. QED
    BY <2>3, <2>4, <2>5
<1>6. PICK b : Join(a, bytes, b)
  BY DEF Join
<1>7. /\ b \in Seq(Byte) /\ Len(b) = k + n
      /\ \A j \in 1 .. k : b[j] = m[j]
      /\ \A j \in 1 .. n : b[k + j] = bytes[j]
  <2>1. b \in Seq(Byte) /\ Joins(a, bytes, b)
    BY <1>3, <1>6, Joined
  <2>. QED
    BY <2>1, <1>1, <1>3 DEF Joins
<1>8. PICK t : Join(b, z, t)
  BY DEF Join
<1>9. t = Stored(m, k, bytes)
  BY <1>1, <1>6, <1>8 DEF Stored, Join
<1>10. t \in Seq(Byte) /\ Joins(b, z, t)
  BY <1>4, <1>7, <1>8, Joined
<1>11. \A j \in 1 .. k + n : t[j] = b[j]
  BY <1>7, <1>10 DEF Joins
<1>12. \A j \in 1 .. Len(z) : t[k + n + j] = z[j]
  BY <1>7, <1>10 DEF Joins
<1>13. \A j \in 1 .. k : t[j] = m[j]
  <2>1. \A j \in 1 .. k : j \in 1 .. k + n
    BY <1>2
  <2>. QED
    BY <2>1, <1>7, <1>11
<1>14. \A j \in 1 .. n : t[k + j] = bytes[j]
  <2>1. \A j \in 1 .. n : k + j \in 1 .. k + n
    BY <1>2
  <2>. QED
    BY <2>1, <1>7, <1>11
<1>15. \A j \in k + n + 1 .. Len(m) : t[j] = m[j]
  <2>1. ASSUME NEW j \in k + n + 1 .. Len(m) PROVE t[j] = m[j]
    <3>1. j - (k + n) \in 1 .. Len(z) /\ k + n + (j - (k + n)) = j
      BY <1>2, <1>4
    <3>. QED
      BY <3>1, <1>5, <1>12
  <2>. QED
    BY <2>1
<1>16. Len(t) = Len(m)
  BY <1>2, <1>4, <1>7, <1>10 DEF Joins
<1>. QED
  BY <1>1, <1>9, <1>10, <1>16, <1>13, <1>14, <1>15 DEF StoredIn

(* The inductive invariant of the buffers.                                  *)
BuffersInv ==
  /\ BuffersTypeOK /\ cnt \in Nat /\ pos \in Nat /\ Len(ibuf) > 0
  /\ phase = "reading" => cnt = Len(input) /\ Holds(ibuf, input)
  /\ phase = "complete" => Holds(ibuf, input) /\ HasNewline(StringOf(ibuf))
  /\ phase \in {"reading", "complete"} => echo = << >>
  /\ phase = "writing" =>
       /\ HasNewline(StringOf(input))
       /\ IsString(obuf, StringOf(input)) /\ Len(StringOf(input)) < Len(obuf)
       /\ cnt > 0 /\ pos + cnt = Len(StringOf(input))
       /\ echo = SubSeq(StringOf(input), 1, pos)
  /\ phase = "echoed" => echo = StringOf(input) /\ HasNewline(echo)
  /\ OverrunExplained

LEMMA BuffersInitHold == ASSUME BuffersInit PROVE BuffersInv
<1>1. FirstLen \in Nat \ {0}
  BY BufferAssumption
<1>2. Holes(FirstLen) \in Seq(Byte) /\ Len(Holes(FirstLen)) = FirstLen
  BY <1>1 DEF Holes, Byte
<1>. QED
  BY <1>1, <1>2 DEF BuffersInit, BuffersInv, BuffersTypeOK, OverrunExplained

LEMMA AskForLineStep == ASSUME BuffersInv, AskForLine PROVE BuffersInv'
<1>1. ibuf \in Seq(Byte) /\ Len(ibuf) \in Nat /\ Len(ibuf) > 0
  BY DEF BuffersInv, BuffersTypeOK
<1>2. PICK m : m = Holes(Len(ibuf))
  OBVIOUS
<1>3. m \in Seq(Byte) /\ Len(m) = Len(ibuf) /\ \A k \in 1 .. Len(m) : m[k] = "zero"
  BY <1>1, <1>2 DEF Holes, Byte
<1>4. ibuf' = m /\ input' = << >> /\ echo' = << >> /\ cnt' = 0 /\ phase' = "reading"
      /\ obuf' = obuf /\ pos' = pos
  BY <1>2 DEF AskForLine, Cleared
<1>5. Holds(m, << >>)
  BY <1>1, <1>3 DEF Holds
<1>6. BuffersTypeOK'
  BY <1>1, <1>3, <1>4 DEF BuffersInv, BuffersTypeOK
<1>. QED
  BY <1>1, <1>3, <1>4, <1>5, <1>6 DEF BuffersInv, OverrunExplained

(* Bytes that arrive go behind those that are there; a byte the buffer grows   *)
(* by is the only one behind them.                                          *)
Arrives(m, i, n, bytes, m2, u) ==
  /\ m \in Seq(Byte) /\ i \in Seq(Byte) /\ Holds(m, i)
  /\ bytes \in Seq(Byte) /\ n = Len(bytes) /\ n \in 1 .. Len(m) - Len(i)
  /\ m2 \in Grown(Stored(m, Len(i), bytes), Len(i) + n)
  /\ Join(i, bytes, u)

LEMMA HoldsMore ==
  ASSUME NEW m, NEW i, NEW n, NEW bytes, NEW m2, NEW u, Arrives(m, i, n, bytes, m2, u)
  PROVE  /\ m2 \in Seq(Byte) /\ u \in Seq(Byte)
         /\ Len(u) = Len(i) + n
         /\ Holds(m2, u)
         /\ Len(m2) >= Len(m)
<1>1. /\ bytes \in Seq(Byte) /\ Len(bytes) = n /\ n \in Nat
      /\ m \in Seq(Byte) /\ i \in Seq(Byte) /\ Holds(m, i)
  BY DEF Arrives
<1>2. /\ Len(m) \in Nat /\ Len(i) \in Nat /\ Len(i) + n <= Len(m) /\ Len(i) < Len(m)
  BY <1>1 DEF Holds, Arrives
<1>3. PICK t, l : t = Stored(m, Len(i), bytes) /\ l = Len(i)
  OBVIOUS
<1>4. /\ t \in Seq(Byte) /\ Len(t) = Len(m)
      /\ \A j \in 1 .. l : t[j] = m[j]
      /\ \A j \in 1 .. n : t[l + j] = bytes[j]
      /\ \A j \in l + n + 1 .. Len(m) : t[j] = m[j]
  <2>1. StoredIn(m, l, bytes, t)
    BY <1>1, <1>2, <1>3, StoredIs
  <2>. QED
    BY <2>1, <1>1 DEF StoredIn
<1>6. /\ u \in Seq(Byte) /\ Len(u) = l + n
      /\ \A j \in 1 .. l : u[j] = i[j]
      /\ \A j \in 1 .. n : u[l + j] = bytes[j]
  <2>1. Join(i, bytes, u)
    BY DEF Arrives
  <2>2. u \in Seq(Byte) /\ Joins(i, bytes, u)
    BY <2>1, <1>1, Joined
  <2>. QED
    BY <2>2, <1>1, <1>3 DEF Joins
<1>7. \A j \in 1 .. l + n : t[j] = u[j]
  <2>1. ASSUME NEW j \in 1 .. l + n PROVE t[j] = u[j]
    <3>1. CASE j <= l
      <4>1. j \in 1 .. l
        BY <3>1, <1>2, <1>3
      <4>. QED
        BY <4>1, <1>1, <1>3, <1>4, <1>6 DEF Holds
    <3>2. CASE ~ j <= l
      <4>1. j - l \in 1 .. n /\ l + (j - l) = j
        BY <3>2, <1>1, <1>2, <1>3
      <4>2. t[l + (j - l)] = bytes[j - l] /\ u[l + (j - l)] = bytes[j - l]
        BY <4>1, <1>4, <1>6
      <4>. QED
        BY <4>1, <4>2
    <3>. QED
      BY <3>1, <3>2
  <2>. QED
    BY <2>1
<1>8. CASE l + n = Len(m)
  <2>1. PICK b \in Byte : m2 = Append(t, b)
    BY <1>3, <1>4, <1>8 DEF Grown, Arrives
  <2>2. m2 \in Seq(Byte) /\ Len(m2) = Len(m) + 1 /\ \A j \in 1 .. Len(m) : m2[j] = t[j]
    BY <2>1, <1>4, OneMore
  <2>3. Len(u) < Len(m2) /\ Len(m2) = Len(u) + 1 /\ \A j \in 1 .. Len(u) : m2[j] = u[j]
    <3>1. Len(m2) = Len(u) + 1 /\ Len(u) = Len(m) /\ Len(u) \in Nat
      BY <2>2, <1>2, <1>6, <1>8
    <3>. QED
      BY <3>1, <2>2, <1>6, <1>7
  <2>4. Holds(m2, u)
    BY <2>3 DEF Holds
  <2>5. Len(m2) >= Len(m)
    BY <2>2, <1>2
  <2>. QED
    BY <2>2, <2>4, <2>5, <1>3, <1>6
<1>9. CASE l + n # Len(m)
  <2>1. m2 = t
    BY <1>3, <1>4, <1>9 DEF Grown, Arrives
  <2>2. Len(m) # Len(i) + 1
    <3>1. Len(m) = Len(i) + 1 => n = 1 /\ l + n = Len(m)
      <4>1. n \in 1 .. Len(m) - Len(i)
        BY DEF Arrives
      <4>. QED
        BY ONLY <4>1, <1>2, <1>3
    <3>. QED
      BY <3>1, <1>9
  <2>3. \A k \in l + 1 .. Len(m) : m[k] = "zero"
    BY <2>2, <1>1, <1>3 DEF Holds
  <2>4. \A k \in l + n + 1 .. Len(m) : k \in l + 1 .. Len(m)
    BY <1>1, <1>2, <1>3
  <2>5. \A k \in l + n + 1 .. Len(m) : t[k] = "zero"
    BY <2>3, <2>4, <1>4
  <2>6. Len(u) < Len(t)
    BY <1>1, <1>2, <1>3, <1>4, <1>6, <1>9
  <2>7. Holds(t, u)
    BY <2>5, <2>6, <1>4, <1>6, <1>7 DEF Holds
  <2>8. Len(t) >= Len(m)
    BY <1>2, <1>4
  <2>. QED
    BY <2>1, <2>7, <2>8, <1>3, <1>4, <1>6
<1>. QED
  BY <1>8, <1>9

LEMMA ReadStep == ASSUME BuffersInv, rx_work_D0 PROVE BuffersInv'
<1>1. PICK n \in 1 .. Len(ibuf) - cnt : \E bytes \in [1 .. n -> Byte] :
        /\ phase = "reading"
        /\ ibuf' \in Grown(Stored(ibuf, cnt, bytes), cnt + n)
        /\ phase' = PhaseAfterRead(ibuf')
        /\ cnt' = cnt + n
        /\ input' = input \o bytes
        /\ UNCHANGED <<obuf, pos, echo>>
  BY DEF rx_work_D0
<1>2. PICK bytes \in [1 .. n -> Byte] :
        /\ phase = "reading"
        /\ ibuf' \in Grown(Stored(ibuf, cnt, bytes), cnt + n)
        /\ phase' = PhaseAfterRead(ibuf')
        /\ cnt' = cnt + n
        /\ input' = input \o bytes
        /\ UNCHANGED <<obuf, pos, echo>>
  BY <1>1
<1>3. PICK m, i, m2, i2 : m = ibuf /\ i = input /\ m2 = ibuf' /\ i2 = input'
  OBVIOUS
<1>4. /\ m \in Seq(Byte) /\ i \in Seq(Byte) /\ Holds(m, i) /\ cnt = Len(i)
      /\ obuf \in Seq(Byte) /\ echo \in Seq(Byte) /\ pos \in Nat /\ Len(m) > 0
      /\ echo = << >> /\ echo' = echo
  BY <1>2, <1>3 DEF BuffersInv, BuffersTypeOK
<1>5. n \in 1 .. Len(m) - Len(i) /\ m2 \in Grown(Stored(m, Len(i), bytes), Len(i) + n)
      /\ i2 = i \o bytes
  BY <1>2, <1>3, <1>4
<1>6. /\ m2 \in Seq(Byte) /\ i2 \in Seq(Byte) /\ Len(i2) = Len(i) + n
      /\ Holds(m2, i2) /\ Len(m2) >= Len(m)
  <2>1. bytes \in Seq(Byte) /\ Len(bytes) = n
    OBVIOUS
  <2>2. Arrives(m, i, n, bytes, m2, i2)
    BY <2>1, <1>4, <1>5 DEF Arrives, Join
  <2>. QED
    BY ONLY <2>2, HoldsMore
<1>7. n \in Nat /\ Len(m) \in Nat /\ Len(m2) \in Nat /\ Len(i2) \in Nat /\ Len(i) \in Nat
  BY <1>4, <1>6
<1>8. phase' \in {"reading", "complete", "overrun"} /\ cnt' = Len(i2)
  BY <1>2, <1>4, <1>6 DEF PhaseAfterRead
<1>9. BuffersTypeOK' /\ cnt' \in Nat /\ pos' \in Nat /\ Len(ibuf') > 0
  <2>1. Len(i2) \in 0 .. Len(m2) - 1
    BY <1>6, <1>7 DEF Holds
  <2>2. Len(m2) > 0
    BY <1>4, <1>6, <1>7
  <2>. QED
    BY <2>1, <2>2, <1>2, <1>3, <1>4, <1>6, <1>7, <1>8 DEF BuffersTypeOK
<1>10. phase' = "complete" => HasNewline(StringOf(m2))
  BY <1>2, <1>3 DEF PhaseAfterRead
<1>11. phase' = "overrun" => Len(m2) = Len(i2) + 1 /\ m2[Len(m2)] # "zero"
  <2>1. phase' = "overrun" => Ends(m2) = {}
    BY <1>2, <1>3 DEF PhaseAfterRead
  <2>. QED
    BY <2>1, <1>6, NoEnd
<1>. QED
  BY <1>3, <1>4, <1>6, <1>8, <1>9, <1>10, <1>11 DEF BuffersInv, OverrunExplained

(* What was read is copied up to its end, if the buffer has one.             *)
LEMMA CopyStep == ASSUME BuffersInv, worker_ackp_enter PROVE BuffersInv'
<1>1. /\ phase = "complete" /\ UNCHANGED <<ibuf, input, echo>>
      /\ ibuf \in Seq(Byte) /\ input \in Seq(Byte) /\ obuf \in Seq(Byte) /\ echo \in Seq(Byte)
      /\ Holds(ibuf, input) /\ HasNewline(StringOf(ibuf))
      /\ cnt \in Nat /\ pos \in Nat /\ Len(ibuf) > 0 /\ echo = << >>
  BY DEF worker_ackp_enter, BuffersInv, BuffersTypeOK
<1>2. CASE Ends(ibuf) = {}
  <2>1. phase' = "overrun" /\ UNCHANGED <<obuf, cnt, pos>>
    BY <1>2 DEF worker_ackp_enter
  <2>2. Len(ibuf) = Len(input) + 1 /\ ibuf[Len(ibuf)] # "zero"
    BY <1>1, <1>2, NoEnd
  <2>3. BuffersTypeOK'
    BY <1>1, <2>1 DEF BuffersTypeOK
  <2>. QED
    BY <1>1, <2>1, <2>2, <2>3 DEF BuffersInv, OverrunExplained
<1>3. CASE Ends(ibuf) # {}
  <2>1. PICK s, m : s = StringOf(ibuf) /\ m = [k \in 1 .. Room |-> IF k \in DOMAIN obuf THEN obuf[k] ELSE "letter"]
    OBVIOUS
  <2>2. PICK o : o = Stored(m, 0, Append(s, "zero"))
    OBVIOUS
  <2>3. phase' = "writing" /\ obuf' = o /\ cnt' = Len(s) /\ pos' = 0
    BY <1>3, <2>1, <2>2 DEF worker_ackp_enter
  <2>4. s = StringOf(input) /\ IsString(ibuf, s) /\ Len(s) < Len(ibuf) /\ HasNewline(s)
    <3>1. PICK i, j : i = ibuf /\ j = input
      OBVIOUS
    <3>2. i \in Seq(Byte) /\ j \in Seq(Byte) /\ Holds(i, j) /\ Ends(i) # {}
      BY <3>1, <1>1, <1>3
    <3>3. StringOf(i) = StringOf(j)
      BY ONLY <3>2, SameString
    <3>4. IsString(i, StringOf(i)) /\ Len(StringOf(i)) # Len(i)
      BY ONLY <3>2, StringIsFound
    <3>5. IsString(i, s) /\ Len(s) # Len(i) /\ s = StringOf(j) /\ HasNewline(s)
      BY <3>1, <3>3, <3>4, <1>1, <2>1
    <3>6. Len(s) < Len(i)
      BY <3>2, <3>5 DEF IsString
    <3>. QED
      BY <3>1, <3>5, <3>6
  <2>5. Room \in Nat /\ Room >= Len(ibuf)
    BY <1>1 DEF Room
  <2>6. m \in Seq(Byte) /\ Len(m) = Room
    <3>1. \A k \in 1 .. Room : m[k] \in Byte
      BY <1>1, <2>1 DEF Byte
    <3>. QED
      BY <3>1, <2>1, <2>5
  <2>7. PICK z : z = Append(s, "zero")
    OBVIOUS
  <2>8. s \in Seq(Byte) /\ Len(s) \in Nat /\ \A k \in 1 .. Len(s) : s[k] # "zero"
    BY <2>4 DEF IsString
  <2>9. /\ z \in Seq(Byte) /\ Len(z) = Len(s) + 1
        /\ z[Len(s) + 1] = "zero" /\ \A k \in 1 .. Len(s) : z[k] = s[k]
    BY <2>7, <2>8, OneMore DEF Byte
  <2>10. 0 + Len(z) <= Len(m)
    BY <1>1, <2>4, <2>5, <2>6, <2>8, <2>9
  <2>11. o \in Seq(Byte) /\ Len(o) = Len(m) /\ \A j \in 1 .. Len(z) : o[0 + j] = z[j]
    <3>1. o = Stored(m, 0, z)
      BY <2>2, <2>7
    <3>2. StoredIn(m, 0, z, o)
      BY ONLY <3>1, <2>6, <2>9, <2>10, StoredIs, 0 \in Nat
    <3>. QED
      BY <3>2 DEF StoredIn
  <2>12. \A j \in 1 .. Len(z) : o[j] = z[j]
    BY <2>8, <2>9, <2>11
  <2>13. Len(s) < Len(o)
    BY <2>6, <2>5, <2>8, <2>9, <2>10, <2>11
  <2>14. IsString(o, s)
    <3>1. Len(s) + 1 \in 1 .. Len(z) /\ \A k \in 1 .. Len(s) : k \in 1 .. Len(z)
      BY <2>8, <2>9
    <3>2. Len(s) <= Len(o)
      BY <2>8, <2>11, <2>13
    <3>. QED
      BY <3>1, <3>2, <2>8, <2>9, <2>12 DEF IsString
  <2>15. Len(s) > 0
    BY <2>4, <2>8 DEF HasNewline
  <2>16. BuffersTypeOK' /\ cnt' \in Nat /\ pos' \in Nat /\ Len(ibuf') > 0
    <3>1. 0 + Len(s) < Len(o)
      BY <2>8, <2>13
    <3>. QED
      BY <3>1, <1>1, <2>3, <2>8, <2>11 DEF BuffersTypeOK
  <2>17. echo' = SubSeq(s, 1, 0)
    BY <1>1, <2>8
  <2>. QED
    BY <1>1, <2>3, <2>4, <2>8, <2>13, <2>14, <2>15, <2>16, <2>17 DEF BuffersInv, OverrunExplained
<1>. QED
  BY <1>2, <1>3

(* A part of the string goes out.                                           *)
LEMMA WriteStep == ASSUME BuffersInv, tx_work_D1 PROVE BuffersInv'
<1>1. PICK n \in 1 .. cnt :
        /\ phase = "writing"
        /\ echo' = echo \o SubSeq(obuf, pos + 1, pos + n)
        /\ pos' = pos + n
        /\ cnt' = cnt - n
        /\ phase' = IF cnt = n THEN "echoed" ELSE "writing"
        /\ UNCHANGED <<ibuf, obuf, input>>
  BY DEF tx_work_D1
<1>2. PICK s, o, a, p, c : s = StringOf(input) /\ o = obuf /\ a = echo /\ p = pos /\ c = cnt
  OBVIOUS
<1>3. /\ HasNewline(s) /\ IsString(o, s) /\ Len(s) < Len(o) /\ c > 0 /\ p + c = Len(s) /\ a = SubSeq(s, 1, p)
      /\ o \in Seq(Byte) /\ p \in Nat /\ c \in Nat /\ n \in 1 .. c
      /\ ibuf \in Seq(Byte) /\ input \in Seq(Byte) /\ Len(ibuf) > 0
  BY <1>1, <1>2 DEF BuffersInv, BuffersTypeOK
<1>4. /\ s \in Seq(Byte) /\ Len(s) \in Nat /\ Len(o) \in Nat /\ Len(s) <= Len(o)
      /\ \A k \in 1 .. Len(s) : s[k] = o[k]
  BY <1>3 DEF IsString
<1>5. PICK b : b = SubSeq(o, p + 1, p + n)
  OBVIOUS
<1>6. p + n \in Nat /\ p + n <= Len(s) /\ p + n <= Len(o) /\ n \in Nat
  BY <1>3, <1>4
<1>7. b \in Seq(Byte) /\ Len(b) = n /\ \A j \in 1 .. n : b[j] = o[p + j]
  <2>1. b \in Seq(Byte) /\ Len(b) = n
    BY <1>3, <1>4, <1>5, <1>6
  <2>2. \A j \in 1 .. n : b[j] = o[p + 1 + j - 1] /\ p + 1 + j - 1 = p + j
    BY <1>3, <1>4, <1>5, <1>6
  <2>. QED
    BY <2>1, <2>2
<1>8. a \in Seq(Byte) /\ Len(a) = p /\ \A j \in 1 .. p : a[j] = s[j]
  BY <1>3, <1>4
<1>9. PICK t : Join(a, b, t)
  BY DEF Join
<1>10. /\ t \in Seq(Byte) /\ Len(t) = p + n
       /\ \A j \in 1 .. p : t[j] = a[j]
       /\ \A j \in 1 .. n : t[p + j] = b[j]
  <2>1. t \in Seq(Byte) /\ Joins(a, b, t)
    BY <1>7, <1>8, <1>9, Joined
  <2>. QED
    BY <2>1, <1>7, <1>8 DEF Joins
<1>11. ASSUME NEW j \in 1 .. p + n PROVE t[j] = s[j]
  <2>1. CASE j <= p
    <3>1. j \in 1 .. p
      BY <2>1, <1>3
    <3>. QED
      BY <3>1, <1>8, <1>10
  <2>2. CASE ~ j <= p
    <3>1. j - p \in 1 .. n /\ p + (j - p) = j
      BY <2>2, <1>3, <1>6
    <3>2. t[p + (j - p)] = b[j - p] /\ b[j - p] = o[p + (j - p)]
      BY <3>1, <1>7, <1>10
    <3>3. j \in 1 .. Len(s)
      BY <1>4, <1>6
    <3>. QED
      BY <3>1, <3>2, <3>3, <1>4
  <2>. QED
    BY <2>1, <2>2
<1>12. t = SubSeq(s, 1, p + n)
  <2>1. PICK u : u = SubSeq(s, 1, p + n)
    OBVIOUS
  <2>2. u \in Seq(Byte) /\ Len(u) = p + n /\ \A j \in 1 .. p + n : u[j] = s[j]
    BY <2>1, <1>4, <1>6
  <2>3. u = [j \in 1 .. Len(u) |-> u[j]]
    BY ONLY <2>2
  <2>4. t = [j \in 1 .. Len(t) |-> t[j]]
    BY ONLY <1>10
  <2>5. u = t
    BY <2>2, <2>3, <2>4, <1>10, <1>11
  <2>. QED
    BY <2>1, <2>5
<1>13. echo' = t /\ pos' = p + n /\ cnt' = c - n /\ obuf' = o /\ StringOf(input') = s
  BY <1>1, <1>2, <1>5, <1>9 DEF Join
<1>14. cnt' \in Nat /\ pos' \in Nat /\ pos' + cnt' = Len(s)
  <2>1. c - n \in Nat /\ p + n + (c - n) = Len(s)
    <3>1. n \in 1 .. c /\ c \in Nat /\ p \in Nat
      BY <1>3
    <3>2. c - n \in Nat /\ p + n + (c - n) = p + c
      BY ONLY <3>1
    <3>. QED
      BY <3>2, <1>3
  <2>. QED
    BY <2>1, <1>6, <1>13
<1>15. ibuf' = ibuf /\ input' = input
  BY <1>1
<1>16. CASE c = n
  <2>1. phase' = "echoed" /\ t = s
    <3>1. p + n = Len(s)
      BY <1>3, <1>16
    <3>2. SubSeq(s, 1, Len(s)) = s
      BY <1>4
    <3>. QED
      BY <3>1, <3>2, <1>1, <1>2, <1>12, <1>16
  <2>2. BuffersTypeOK'
    BY <2>1, <1>3, <1>10, <1>13, <1>15 DEF BuffersTypeOK
  <2>. QED
    BY <2>1, <2>2, <1>3, <1>13, <1>14, <1>15 DEF BuffersInv, OverrunExplained
<1>17. CASE c # n
  <2>1. phase' = "writing" /\ cnt' > 0
    BY <1>1, <1>2, <1>3, <1>13, <1>17
  <2>3. BuffersTypeOK'
    BY <2>1, <1>3, <1>4, <1>10, <1>13, <1>14, <1>15 DEF BuffersTypeOK
  <2>. QED
    BY <2>1, <2>3, <1>3, <1>12, <1>13, <1>14, <1>15 DEF BuffersInv, OverrunExplained
<1>. QED
  BY <1>16, <1>17

LEMMA BuffersInductive == ASSUME BuffersInv, [BuffersNext]_bufferVars PROVE BuffersInv'
<1>1. CASE GiveUp
  BY <1>1 DEF GiveUp, BuffersInv, BuffersTypeOK, OverrunExplained
<1>2. CASE ackp_fails
  BY <1>2 DEF ackp_fails, BuffersInv, BuffersTypeOK, OverrunExplained
<1>3. CASE UNCHANGED bufferVars
  <2>1. UNCHANGED <<phase, ibuf, obuf, cnt, pos, input, echo>>
    BY <1>3 DEF bufferVars
  <2>. QED
    BY <2>1 DEF BuffersInv, BuffersTypeOK, OverrunExplained
<1>. QED
  BY <1>1, <1>2, <1>3, AskForLineStep, ReadStep, CopyStep, WriteStep DEF BuffersNext

LEMMA BuffersAreSound == BuffersInv => BuffersTypeOK /\ LinesAreExact
<1>. SUFFICES ASSUME BuffersInv PROVE BuffersTypeOK /\ LinesAreExact
  OBVIOUS
<1>1. phase = "writing" => echo = SubSeq(StringOf(input), 1, Len(echo))
  <2>1. SUFFICES ASSUME phase = "writing" PROVE echo = SubSeq(StringOf(input), 1, Len(echo))
    OBVIOUS
  <2>2. PICK s : s = StringOf(input)
    OBVIOUS
  <2>3. s \in Seq(Byte) /\ cnt \in Nat /\ pos \in Nat /\ pos + cnt = Len(s) /\ echo = SubSeq(s, 1, pos)
    BY <2>1, <2>2 DEF BuffersInv, IsString
  <2>4. Len(SubSeq(s, 1, pos)) = pos
    BY <2>3
  <2>. QED
    BY <2>2, <2>3, <2>4
<1>. QED
  BY <1>1 DEF BuffersInv, LinesAreExact, EchoIsExact

(* A client gets back the string it has sent, whatever the pieces it came and  *)
(* went in and whatever was in the buffers before, and string functions leave  *)
(* a buffer only if this very line has made it longer.                      *)
THEOREM BuffersInvariance == BuffersSpec => [](BuffersTypeOK /\ LinesAreExact)
<1>1. BuffersInit => BuffersInv
  BY BuffersInitHold
<1>2. BuffersInv /\ [BuffersNext]_bufferVars => BuffersInv'
  BY BuffersInductive
<1>. QED
  BY <1>1, <1>2, BuffersAreSound, PTL DEF BuffersSpec

-----------------------------------------------------------------------------
(***************************************************************************)
(* The prefix tree, for any words and data.                                 *)
(***************************************************************************)

(* Induction up to n, for sets of numbers.                                  *)
LEMMA CountUp ==
  ASSUME NEW n \in Nat, NEW P, 0 \in P, \A k \in 1 .. n : k - 1 \in P => k \in P
  PROVE  \A k \in 0 .. n : k \in P
<1>. DEFINE Out == {k \in 0 .. n : k \notin P}
<1>1. SUFFICES ASSUME Out # {} PROVE FALSE
  OBVIOUS
<1>2. Out \subseteq Nat
  OBVIOUS
<1>3. PICK m \in Out : \A k \in Out : m <= k
  <2>. HIDE DEF Out
  <2>. QED
    BY <1>1, <1>2, LeastNumber
<1>4. m \in 1 .. n /\ m - 1 \in 0 .. n /\ ~ m <= m - 1
  BY <1>3
<1>5. m - 1 \in P
  BY <1>3, <1>4
<1>. QED
  BY <1>3, <1>4, <1>5

(* What is given by a first value and a step from each to the next exists.    *)
Iterated(S, a, n, F, f) ==
  f \in [0 .. n -> S] /\ f[0] = a /\ \A k \in 1 .. n : f[k] = F[<<k, f[k - 1]>>]

Steps(S, n, F) == F \in [(1 .. n) \X S -> S]

LEMMA Iterates ==
  ASSUME NEW S, NEW a \in S, NEW n \in Nat, NEW F, Steps(S, n, F)
  PROVE  \E f : Iterated(S, a, n, F, f)
<1>. USE DEF Iterated, Steps
<1>. DEFINE Good(m, f) == f \in [0 .. m -> S] /\ f[0] = a /\ \A k \in 1 .. m : f[k] = F[<<k, f[k - 1]>>]
            P == {m \in 0 .. n : \E f : Good(m, f)}
<1>1. 0 \in P
  <2>1. Good(0, [k \in 0 .. 0 |-> a])
    OBVIOUS
  <2>. HIDE DEF Good
  <2>2. \E f : Good(0, f)
    BY <2>1
  <2>. QED
    BY <2>2
<1>2. ASSUME NEW m \in 1 .. n, m - 1 \in P PROVE m \in P
  <2>1. PICK f : Good(m - 1, f)
    BY <1>2
  <2>2. m - 1 \in 0 .. m - 1 /\ m \in Nat /\ m \in 1 .. n
    OBVIOUS
  <2>3. f[m - 1] \in S
    BY <2>1, <2>2
  <2>4. PICK y \in S : y = F[<<m, f[m - 1]>>]
    BY <2>2, <2>3
  <2>5. PICK g : g = [k \in 0 .. m |-> IF k = m THEN y ELSE f[k]]
    OBVIOUS
  <2>6. \A k \in 0 .. m : k # m => k \in 0 .. m - 1
    BY <2>2
  <2>7. g \in [0 .. m -> S] /\ g[0] = a
    BY <2>1, <2>2, <2>4, <2>5, <2>6
  <2>8. ASSUME NEW k \in 1 .. m PROVE g[k] = F[<<k, g[k - 1]>>]
    <3>1. k \in 0 .. m /\ k - 1 \in 0 .. m - 1 /\ k - 1 \in 0 .. m /\ k - 1 # m
      BY <2>2
    <3>2. g[k - 1] = f[k - 1]
      BY <2>5, <3>1
    <3>3. CASE k = m
      BY <2>4, <2>5, <3>1, <3>2, <3>3
    <3>4. CASE k # m
      <4>1. k \in 1 .. m - 1
        BY <2>2, <3>4
      <4>2. f[k] = F[<<k, f[k - 1]>>]
        BY <2>1, <4>1
      <4>. QED
        BY <2>5, <3>1, <3>2, <3>4, <4>2
    <3>. QED
      BY <3>3, <3>4
  <2>9. Good(m, g)
    BY <2>7, <2>8
  <2>. QED
    BY <2>2, <2>9
<1>3. \A k \in 0 .. n : k \in P
  <2>. HIDE DEF P
  <2>. QED
    BY <1>1, <1>2, CountUp
<1>4. n \in P
  <2>1. n \in 0 .. n
    OBVIOUS
  <2>. HIDE DEF P
  <2>. QED
    BY <1>3, <2>1
<1>. QED
  BY <1>4

(* The types of nodes and edges.                                            *)
EdgeRec == [s : Nat, kid : Nat]
NodeRec == [parent : Nat \cup {Null}, edge : Seq(EdgeRec), data : Datum \cup {Null}]

(* Edges are sorted by distinct letters and lead to distinct nodes.          *)
InOrder(e) ==
  /\ \A i, j \in DOMAIN e : i < j => e[i].s < e[j].s
  /\ \A i, j \in DOMAIN e : i # j => e[i].kid # e[j].kid

Parent(t, n) == t.node[n].parent

(* The edge for s leads from n to k.                                        *)
EdgeTo(t, n, s, k) == \E i \in DOMAIN t.node[n].edge : t.node[n].edge[i].s = s /\ t.node[n].edge[i].kid = k

(* t is a tree in which parents and edges say the same.                     *)
TreeOK(t) ==
  /\ t.node = [n \in Node(t) |-> t.node[n]] /\ t.total \in Int /\ t.empty \in Int
  /\ t = [node |-> t.node, total |-> t.total, empty |-> t.empty]
  /\ Node(t) \subseteq Nat /\ IsFiniteSet(Node(t)) /\ Root \in Node(t)
  /\ \A n \in Node(t) : t.node[n] \in NodeRec /\ InOrder(t.node[n].edge)
  /\ t.node[Root].parent = Null /\ t.node[Root].data = Null
  /\ \A n \in Node(t) : \A s, k : EdgeTo(t, n, s, k) => k \in Node(t) /\ Parent(t, k) = n
  /\ \A n \in Node(t) \ {Root} : Parent(t, n) \in Node(t) /\ \E s \in Nat : EdgeTo(t, Parent(t, n), s, n)

LEMMA NullIsNoNumber == Null \notin Nat
BY TreeAssumption

(* Letters tell edges apart, and so do nodes; no edge leads to the root.      *)
LEMMA EdgesDiffer ==
  ASSUME NEW t, TreeOK(t), NEW n \in Node(t), NEW s, NEW k, EdgeTo(t, n, s, k)
  PROVE  /\ s \in Nat /\ k \in Node(t) /\ k # Root /\ k # Null /\ Parent(t, k) = n
         /\ \A l : EdgeTo(t, n, s, l) => l = k
         /\ \A u : EdgeTo(t, n, u, k) => u = s
<1>1. PICK e : e = t.node[n].edge
  OBVIOUS
<1>2. e \in Seq(EdgeRec) /\ InOrder(e)
  BY <1>1 DEF TreeOK, NodeRec
<1>3. DOMAIN e = 1 .. Len(e) /\ Len(e) \in Nat
  BY <1>2
<1>4. PICK i \in DOMAIN e : e[i].s = s /\ e[i].kid = k
  BY <1>1 DEF EdgeTo
<1>5. \A j \in DOMAIN e : e[j] \in EdgeRec
  BY <1>2, <1>3
<1>6. \A j \in DOMAIN e : e[j].s \in Nat
  BY <1>5 DEF EdgeRec
<1>7. \A j \in DOMAIN e : e[j].s = s => j = i
  BY <1>2, <1>3, <1>4, <1>6 DEF InOrder
<1>8. \A j \in DOMAIN e : e[j].kid = k => j = i
  BY <1>2, <1>4 DEF InOrder
<1>9. k \in Node(t) /\ Parent(t, k) = n
  BY DEF TreeOK
<1>10. k # Root /\ k # Null /\ n # Null
  BY <1>9, NullIsNoNumber DEF TreeOK, Parent
<1>. QED
  BY <1>1, <1>4, <1>6, <1>7, <1>8, <1>9, <1>10 DEF EdgeTo

(* Kid() follows the edge there is.                                         *)
LEMMA KidFollows ==
  ASSUME NEW t, TreeOK(t), NEW n \in Node(t), NEW s
  PROVE  /\ Kid(t, n, s) \in Node(t) \cup {Null}
         /\ \A k \in Node(t) : Kid(t, n, s) = k <=> EdgeTo(t, n, s, k)
         /\ Kid(t, n, s) = Null <=> EdgeIndex(t, n, s) = {}
<1>1. CASE EdgeIndex(t, n, s) = {}
  <2>1. Kid(t, n, s) = Null
    BY <1>1 DEF Kid
  <2>2. \A k : ~ EdgeTo(t, n, s, k)
    BY <1>1 DEF EdgeTo, EdgeIndex
  <2>3. Null \notin Node(t)
    BY NullIsNoNumber DEF TreeOK
  <2>. QED
    BY <1>1, <2>1, <2>2, <2>3
<1>2. CASE EdgeIndex(t, n, s) # {}
  <2>1. PICK i : i = CHOOSE j \in EdgeIndex(t, n, s) : TRUE
    OBVIOUS
  <2>2. i \in EdgeIndex(t, n, s)
    BY <1>2, <2>1
  <2>3. Kid(t, n, s) = t.node[n].edge[i].kid
    BY <1>2, <2>1 DEF Kid
  <2>4. EdgeTo(t, n, s, Kid(t, n, s))
    BY <2>2, <2>3 DEF EdgeTo, EdgeIndex
  <2>. QED
    BY <1>2, <2>4, EdgesDiffer
<1>. QED
  BY <1>1, <1>2

-----------------------------------------------------------------------------

(* The way along the letters of key.                                        *)
Way(t, key, f) ==
  /\ f \in [0 .. Len(key) -> Node(t) \cup {Null}]
  /\ f[0] = Root
  /\ \A k \in 1 .. Len(key) : f[k] = IF f[k - 1] = Null THEN Null ELSE Kid(t, f[k - 1], key[k])

LEMMA WayFound ==
  ASSUME NEW t, TreeOK(t), NEW key \in Seq(Nat)
  PROVE  \E w : Way(t, key, w) /\ search_node(t, key) = w[Len(key)]
<1>. DEFINE S == Node(t) \cup {Null}
            n == Len(key)
            F == [x \in (1 .. n) \X S |-> IF x[2] = Null THEN Null ELSE Kid(t, x[2], key[x[1]])]
            W(g) == [k \in 0 .. n |-> IF k = 0 THEN Root
                       ELSE IF g[k - 1] = Null THEN Null ELSE Kid(t, g[k - 1], key[k])]
<1>1. n \in Nat /\ Root \in S
  BY DEF TreeOK
<1>2. Steps(S, n, F)
  <2>1. ASSUME NEW x \in (1 .. n) \X S
        PROVE  (IF x[2] = Null THEN Null ELSE Kid(t, x[2], key[x[1]])) \in S
    BY KidFollows
  <2>. QED
    BY <2>1 DEF Steps
<1>3a. PICK f : Iterated(S, Root, n, F, f)
  <2>. HIDE DEF S, F, n
  <2>. QED
    BY <1>1, <1>2, Iterates
<1>3. f \in [0 .. n -> S] /\ f[0] = Root /\ \A k \in 1 .. n : f[k] = F[<<k, f[k - 1]>>]
  BY <1>3a DEF Iterated
<1>4. \A k \in 0 .. n : k # 0 => k \in 1 .. n /\ k - 1 \in 0 .. n
  BY <1>1
<1>5. ASSUME NEW k \in 1 .. n
      PROVE  f[k] = IF f[k - 1] = Null THEN Null ELSE Kid(t, f[k - 1], key[k])
  <2>1. k - 1 \in 0 .. n
    BY <1>1
  <2>2. f[k - 1] \in S
    BY <1>3, <2>1
  <2>3. <<k, f[k - 1]>> \in (1 .. n) \X S
    BY <2>2
  <2>4. f[k] = F[<<k, f[k - 1]>>]
    BY <1>3
  <2>. QED
    BY <2>3, <2>4
<1>6. f = W(f)
  <2>1. \A k \in 0 .. n : f[k] = W(f)[k]
    BY <1>3, <1>4, <1>5
  <2>2. f = [k \in 0 .. n |-> f[k]]
    BY <1>3
  <2>. QED
    BY <2>1, <2>2
<1>7. PICK w : w = CHOOSE g : g = W(g)
  OBVIOUS
<1>8. w = W(w)
  BY <1>6, <1>7
<1>9. search_node(t, key) = w[n]
  BY <1>7 DEF search_node
<1>10. /\ w = [k \in 0 .. n |-> w[k]] /\ w[0] = Root
       /\ \A k \in 1 .. n : w[k] = IF w[k - 1] = Null THEN Null ELSE Kid(t, w[k - 1], key[k])
  <2>1. 0 \in 0 .. n /\ \A k \in 1 .. n : k \in 0 .. n /\ k # 0
    BY <1>1
  <2>. HIDE DEF n
  <2>. QED
    BY <1>8, <2>1
<1>11. \A k \in 0 .. n : k \in {i \in 0 .. n : w[i] \in S}
  <2>. DEFINE P == {i \in 0 .. n : w[i] \in S}
  <2>1. 0 \in P
    BY <1>1, <1>10
  <2>2. ASSUME NEW k \in 1 .. n, k - 1 \in P PROVE k \in P
    <3>1. w[k - 1] \in S /\ k \in 0 .. n
      BY <1>1, <2>2
    <3>2. w[k] = IF w[k - 1] = Null THEN Null ELSE Kid(t, w[k - 1], key[k])
      BY <1>10
    <3>3. w[k - 1] # Null => Kid(t, w[k - 1], key[k]) \in S
      BY <3>1, KidFollows
    <3>. QED
      BY <3>1, <3>2, <3>3
  <2>. HIDE DEF P, n
  <2>3. \A k \in 0 .. n : k \in P
    BY <1>1, <2>1, <2>2, CountUp
  <2>. QED
    BY <2>3 DEF P
<1>. QED
  BY <1>9, <1>10, <1>11 DEF Way

(* A step on the way follows an edge.                                       *)
LEMMA WayStep ==
  ASSUME NEW t, TreeOK(t), NEW key \in Seq(Nat), NEW f, Way(t, key, f), NEW k \in 1 .. Len(key)
  PROVE  /\ f[k - 1] \in Node(t) \cup {Null} /\ f[k] \in Node(t) \cup {Null}
         /\ f[k] = IF f[k - 1] = Null THEN Null ELSE Kid(t, f[k - 1], key[k])
         /\ f[k] # Null =>
              /\ f[k - 1] \in Node(t) /\ f[k - 1] # Null /\ f[k] \in Node(t)
              /\ EdgeTo(t, f[k - 1], key[k], f[k])
              /\ f[k] # Root /\ Parent(t, f[k]) = f[k - 1]
<1>1. Len(key) \in Nat
  OBVIOUS
<1>2. k \in 0 .. Len(key) /\ k - 1 \in 0 .. Len(key)
  BY <1>1
<1>3. f[k - 1] \in Node(t) \cup {Null} /\ f[k] \in Node(t) \cup {Null}
  BY <1>2 DEF Way
<1>4. f[k] = IF f[k - 1] = Null THEN Null ELSE Kid(t, f[k - 1], key[k])
  BY DEF Way
<1>5. ASSUME f[k] # Null
      PROVE  /\ f[k - 1] \in Node(t) /\ f[k - 1] # Null /\ f[k] \in Node(t)
             /\ EdgeTo(t, f[k - 1], key[k], f[k])
             /\ f[k] # Root /\ Parent(t, f[k]) = f[k - 1]
  <2>1. f[k - 1] \in Node(t) /\ f[k - 1] # Null /\ f[k] \in Node(t) /\ f[k] = Kid(t, f[k - 1], key[k])
    BY <1>3, <1>4, <1>5
  <2>2. EdgeTo(t, f[k - 1], key[k], f[k])
    BY <2>1, KidFollows
  <2>. QED
    BY <2>1, <2>2, EdgesDiffer
<1>. QED
  BY <1>3, <1>4, <1>5

(* The words have the same first m letters.                                 *)
Shared(v, w, m) == m \in Nat /\ m <= Len(v) /\ m <= Len(w) /\ \A k \in 1 .. m : v[k] = w[k]

(* There is one way only, and the way of a prefix is the beginning of it.      *)
LEMMA WaysAgree ==
  ASSUME NEW t, NEW v \in Seq(Nat), NEW w \in Seq(Nat), NEW f, NEW g, Way(t, v, f), Way(t, w, g),
         NEW m, Shared(v, w, m)
  PROVE  \A k \in 0 .. m : f[k] = g[k]
<1>. USE DEF Shared
<1>. DEFINE P == {k \in 0 .. m : f[k] = g[k]}
<1>1. 0 \in P
  BY DEF Way
<1>2. ASSUME NEW k \in 1 .. m, k - 1 \in P PROVE k \in P
  <2>1. k \in 1 .. Len(v) /\ k \in 1 .. Len(w) /\ v[k] = w[k] /\ f[k - 1] = g[k - 1] /\ k \in 0 .. m
    BY <1>2
  <2>. QED
    BY <2>1 DEF Way
<1>3. \A k \in 0 .. m : k \in P
  <2>. HIDE DEF P
  <2>. QED
    BY <1>1, <1>2, CountUp
<1>. QED
  BY <1>3

(* What search_node() finds for a prefix lies on the way.                    *)
LEMMA PrefixOnWay ==
  ASSUME NEW t, TreeOK(t), NEW key \in Seq(Nat), NEW f, Way(t, key, f), NEW m \in 0 .. Len(key)
  PROVE  SubSeq(key, 1, m) \in Seq(Nat) /\ search_node(t, SubSeq(key, 1, m)) = f[m]
<1>1. PICK p : p = SubSeq(key, 1, m)
  OBVIOUS
<1>2. p \in Seq(Nat) /\ Len(p) = m /\ m \in Nat /\ m <= Len(key) /\ \A k \in 1 .. m : p[k] = key[k]
  BY <1>1
<1>3. PICK g : Way(t, p, g) /\ search_node(t, p) = g[Len(p)]
  BY <1>2, WayFound
<1>4. Shared(p, key, m)
  BY <1>2 DEF Shared
<1>5. \A k \in 0 .. m : g[k] = f[k]
  BY <1>2, <1>3, <1>4, WaysAgree
<1>. QED
  BY <1>1, <1>2, <1>3, <1>5

LEMMA WholeIsPrefix ==
  ASSUME NEW key \in Seq(Nat)
  PROVE  SubSeq(key, 1, Len(key)) = key /\ Len(key) \in 0 .. Len(key)
OBVIOUS

LEMMA SearchOnWay ==
  ASSUME NEW t, TreeOK(t), NEW key \in Seq(Nat), NEW f, Way(t, key, f)
  PROVE  search_node(t, key) = f[Len(key)]
<1>1. PICK m : m = Len(key)
  OBVIOUS
<1>2. m \in 0 .. Len(key)
  BY <1>1
<1>3. search_node(t, SubSeq(key, 1, m)) = f[m]
  BY <1>2, PrefixOnWay
<1>4. SubSeq(key, 1, m) = key
  BY <1>1, WholeIsPrefix
<1>. QED
  BY <1>1, <1>3, <1>4

LEMMA SharedGrows ==
  ASSUME NEW v \in Seq(Nat), NEW w \in Seq(Nat), NEW a \in 1 .. Len(v), a \in 1 .. Len(w),
         Shared(v, w, a - 1), v[a] = w[a]
  PROVE  Shared(v, w, a)
<1>1. a \in Nat /\ a <= Len(v) /\ a <= Len(w)
  OBVIOUS
<1>2. \A i \in 1 .. a : i \in 1 .. a - 1 \/ i = a
  BY <1>1
<1>3. \A i \in 1 .. a : v[i] = w[i]
  BY <1>2 DEF Shared
<1>. QED
  BY <1>1, <1>3 DEF Shared

(* Words that lead to one node are the same.                                *)
LEMMA WaysDiffer ==
  ASSUME NEW t, TreeOK(t), NEW v \in Seq(Nat), NEW w \in Seq(Nat), NEW f, NEW g,
         Way(t, v, f), Way(t, w, g), NEW j \in 0 .. Len(v), NEW k \in 0 .. Len(w),
         f[j] = g[k], f[j] # Null
  PROVE  j = k /\ Shared(v, w, j)
<1>. DEFINE Good(a, b) == f[a] = g[b] /\ f[a] # Null => a = b /\ Shared(v, w, a)
            P == {a \in 0 .. Len(v) : \A b \in 0 .. Len(w) : Good(a, b)}
<1>1. Len(v) \in Nat /\ Len(w) \in Nat
  OBVIOUS
<1>2. ASSUME NEW b \in 1 .. Len(w), g[b] # Null
      PROVE  /\ g[b - 1] \in Node(t) /\ g[b - 1] # Null
             /\ EdgeTo(t, g[b - 1], w[b], g[b]) /\ g[b] # Root /\ Parent(t, g[b]) = g[b - 1]
  BY <1>2, WayStep
<1>3. ASSUME NEW a \in 1 .. Len(v), f[a] # Null
      PROVE  /\ f[a - 1] \in Node(t) /\ f[a - 1] # Null
             /\ EdgeTo(t, f[a - 1], v[a], f[a]) /\ f[a] # Root /\ Parent(t, f[a]) = f[a - 1]
  BY <1>3, WayStep
<1>4. f[0] = Root /\ g[0] = Root
  BY DEF Way
<1>5. 0 \in P
  <2>1. ASSUME NEW b \in 0 .. Len(w), f[0] = g[b], f[0] # Null PROVE 0 = b
    <3>1. b # 0 => b \in 1 .. Len(w)
      BY <1>1
    <3>. QED
      BY <1>2, <1>4, <2>1, <3>1
  <2>2. Shared(v, w, 0)
    BY <1>1 DEF Shared
  <2>. QED
    BY <1>1, <2>1, <2>2
<1>6. ASSUME NEW a \in 1 .. Len(v), a - 1 \in P PROVE a \in P
  <2>1. a \in 0 .. Len(v) /\ a \in Nat
    BY <1>1
  <2>2. ASSUME NEW b \in 0 .. Len(w), f[a] = g[b], f[a] # Null PROVE a = b /\ Shared(v, w, a)
    <3>1. b \in 1 .. Len(w) /\ b - 1 \in 0 .. Len(w)
      <4>1. b # 0
        BY <1>3, <1>4, <2>2
      <4>. QED
        BY <1>1, <4>1
    <3>2. f[a - 1] = g[b - 1] /\ f[a - 1] # Null
      BY <1>2, <1>3, <2>2, <3>1
    <3>3. Good(a - 1, b - 1)
      BY <1>6, <3>1
    <3>4. a - 1 = b - 1 /\ Shared(v, w, a - 1)
      BY <3>2, <3>3
    <3>5. v[a] = w[b]
      <4>1. EdgeTo(t, f[a - 1], v[a], f[a]) /\ EdgeTo(t, f[a - 1], w[b], f[a]) /\ f[a - 1] \in Node(t)
        BY <1>2, <1>3, <2>2, <3>1, <3>2
      <4>. QED
        BY <4>1, EdgesDiffer
    <3>6. a = b
      BY <2>1, <3>1, <3>4
    <3>7. Shared(v, w, a)
      BY <3>1, <3>4, <3>5, <3>6, SharedGrows
    <3>. QED
      BY <3>6, <3>7
  <2>. QED
    BY <2>1, <2>2
<1>7. \A a \in 0 .. Len(v) : a \in P
  <2>. HIDE DEF P
  <2>. QED
    BY <1>1, <1>5, <1>6, CountUp
<1>8. Good(j, k)
  BY <1>7
<1>. QED
  BY <1>8

LEMMA SearchDiffers ==
  ASSUME NEW t, TreeOK(t), NEW v \in Seq(Nat), NEW w \in Seq(Nat),
         search_node(t, v) = search_node(t, w), search_node(t, v) # Null
  PROVE  v = w
<1>1. PICK f : Way(t, v, f) /\ search_node(t, v) = f[Len(v)]
  BY WayFound
<1>2. PICK g : Way(t, w, g) /\ search_node(t, w) = g[Len(w)]
  BY WayFound
<1>3. PICK j, k : j = Len(v) /\ k = Len(w)
  OBVIOUS
<1>4. j \in 0 .. Len(v) /\ k \in 0 .. Len(w)
  BY <1>3
<1>5. f[j] = g[k] /\ f[j] # Null
  BY <1>1, <1>2, <1>3
<1>6. j = k /\ Shared(v, w, j)
  BY <1>1, <1>2, <1>4, <1>5, WaysDiffer
<1>7. v = [i \in 1 .. Len(v) |-> v[i]] /\ w = [i \in 1 .. Len(w) |-> w[i]]
  OBVIOUS
<1>. QED
  BY <1>3, <1>6, <1>7 DEF Shared

LEMMA SearchTyped ==
  ASSUME NEW t, TreeOK(t), NEW key \in Seq(Nat)
  PROVE  /\ search_node(t, key) \in Node(t) \cup {Null}
         /\ search_node(t, << >>) = Root
         /\ key # << >> => search_node(t, key) # Root
<1>1. PICK f : Way(t, key, f) /\ search_node(t, key) = f[Len(key)]
  BY WayFound
<1>2. Len(key) \in 0 .. Len(key) /\ Len(key) \in Nat
  OBVIOUS
<1>3. << >> \in Seq(Nat) /\ Len(<< >>) = 0
  OBVIOUS
<1>4. PICK g : Way(t, << >>, g) /\ search_node(t, << >>) = g[0]
  BY <1>3, WayFound
<1>5. search_node(t, << >>) = Root
  BY <1>4 DEF Way
<1>6. Root # Null
  BY NullIsNoNumber DEF Root
<1>. QED
  BY <1>1, <1>2, <1>3, <1>5, <1>6, SearchDiffers DEF Way

(* One letter more leads along one edge more.                               *)
LEMMA SearchStep ==
  ASSUME NEW t, TreeOK(t), NEW key \in Seq(Nat), NEW k \in 1 .. Len(key)
  PROVE  LET m == search_node(t, SubSeq(key, 1, k - 1))
         IN  search_node(t, SubSeq(key, 1, k)) = IF m = Null THEN Null ELSE Kid(t, m, key[k])
<1>1. PICK f : Way(t, key, f)
  BY WayFound
<1>2. k \in 0 .. Len(key) /\ k - 1 \in 0 .. Len(key)
  OBVIOUS
<1>3. search_node(t, SubSeq(key, 1, k)) = f[k]
  BY <1>1, <1>2, PrefixOnWay
<1>4. PICK j : j = k - 1
  OBVIOUS
<1>5. search_node(t, SubSeq(key, 1, j)) = f[j]
  BY <1>1, <1>2, <1>4, PrefixOnWay
<1>6. f[k] = IF f[k - 1] = Null THEN Null ELSE Kid(t, f[k - 1], key[k])
  BY <1>1, WayStep
<1>. QED
  BY <1>3, <1>4, <1>5, <1>6

(* u is a part of t: nodes of t with the edges between them.                 *)
Part(u, t) ==
  /\ Node(u) \subseteq Node(t)
  /\ \A n, k \in Node(u) : \A s : EdgeTo(u, n, s, k) <=> EdgeTo(t, n, s, k)

(* A part has the words of the tree that end in it.                          *)
LEMMA SearchInPart ==
  ASSUME NEW u, NEW t, TreeOK(u), TreeOK(t), Part(u, t), NEW key \in Seq(Nat)
  PROVE  search_node(u, key) = IF search_node(t, key) \in Node(u) THEN search_node(t, key) ELSE Null
<1>1. PICK f : Way(t, key, f) /\ search_node(t, key) = f[Len(key)]
  BY WayFound
<1>2. PICK g : Way(u, key, g) /\ search_node(u, key) = g[Len(key)]
  BY WayFound
<1>. DEFINE Same(k) == g[k] = IF f[k] \in Node(u) THEN f[k] ELSE Null
            P == {k \in 0 .. Len(key) : Same(k)}
<1>3. Len(key) \in Nat
  OBVIOUS
<1>4. 0 \in P
  BY <1>1, <1>2, <1>3 DEF Way, TreeOK
<1>5. ASSUME NEW k \in 1 .. Len(key), k - 1 \in P PROVE k \in P
  <2>0. k \in 0 .. Len(key)
    BY <1>3
  <2>1. PICK m, n, l, s, x : m = f[k - 1] /\ n = f[k] /\ l = g[k] /\ s = key[k] /\ x = g[k - 1]
    OBVIOUS
  <2>2. m \in Node(t) \cup {Null} /\ n = IF m = Null THEN Null ELSE Kid(t, m, s)
    <3>1. /\ f[k - 1] \in Node(t) \cup {Null}
          /\ f[k] = IF f[k - 1] = Null THEN Null ELSE Kid(t, f[k - 1], key[k])
      BY <1>1, WayStep
    <3>. QED
      BY <2>1, <3>1
  <2>3. l = IF x = Null THEN Null ELSE Kid(u, x, s)
    <3>1. g[k] = IF g[k - 1] = Null THEN Null ELSE Kid(u, g[k - 1], key[k])
      BY <1>2, WayStep
    <3>. QED
      BY <2>1, <3>1
  <2>4. x = IF m \in Node(u) THEN m ELSE Null
    BY <1>5, <2>1
  <2>5. Null \notin Node(u) /\ Null \notin Node(t) /\ Node(u) \subseteq Node(t)
    BY NullIsNoNumber DEF TreeOK, Part
  <2>6. l = IF n \in Node(u) THEN n ELSE Null
    <3>1. CASE m = Null
      BY <2>2, <2>3, <2>4, <2>5, <3>1
    <3>2. CASE m # Null /\ m \notin Node(u)
      <4>1. n = Kid(t, m, s) /\ m \in Node(t) /\ l = Null
        BY <2>2, <2>3, <2>4, <3>2
      <4>2. ASSUME n \in Node(u) PROVE FALSE
        <5>1. EdgeTo(t, m, s, n)
          BY <2>5, <4>1, <4>2, KidFollows
        <5>2. n # Root /\ Parent(t, n) = m
          BY <4>1, <5>1, EdgesDiffer
        <5>3. PICK p, r : p \in Node(u) /\ EdgeTo(u, p, r, n)
          BY <4>2, <5>2 DEF TreeOK
        <5>4. EdgeTo(t, p, r, n) /\ p \in Node(t)
          BY <2>5, <4>2, <5>3 DEF Part
        <5>5. Parent(t, n) = p
          BY <5>4, EdgesDiffer
        <5>. QED
          BY <3>2, <5>2, <5>3, <5>5
      <4>. QED
        BY <4>1, <4>2
    <3>3. CASE m \in Node(u)
      <4>1. m \in Node(t) /\ m # Null /\ n = Kid(t, m, s) /\ l = Kid(u, m, s)
        BY <2>2, <2>3, <2>4, <2>5, <3>3
      <4>2. l \in Node(u) \cup {Null}
        BY <3>3, <4>1, KidFollows
      <4>3. \A k2 \in Node(u) : l = k2 <=> EdgeTo(u, m, s, k2)
        BY <3>3, <4>1, KidFollows
      <4>4. \A k2 \in Node(t) : n = k2 <=> EdgeTo(t, m, s, k2)
        BY <4>1, KidFollows
      <4>5. \A k2 \in Node(u) : EdgeTo(u, m, s, k2) <=> EdgeTo(t, m, s, k2)
        BY <3>3 DEF Part
      <4>6. \A k2 \in Node(u) : l = k2 <=> n = k2
        BY <2>5, <4>3, <4>4, <4>5
      <4>. QED
        BY <2>5, <4>2, <4>6
    <3>. QED
      BY <2>2, <3>1, <3>2, <3>3
  <2>7. Same(k)
    BY <2>1, <2>6
  <2>. HIDE DEF Same
  <2>. QED
    BY <2>0, <2>7
<1>6. \A k \in 0 .. Len(key) : k \in P
  <2>. HIDE DEF P
  <2>. QED
    BY <1>3, <1>4, <1>5, CountUp
<1>7. Len(key) \in P
  <2>. HIDE DEF P
  <2>. QED
    BY <1>3, <1>6
<1>8. Same(Len(key))
  BY <1>7
<1>. QED
  BY <1>1, <1>2, <1>8

-----------------------------------------------------------------------------

(* A loop as rounds: a step that never takes away comes to an end in as many   *)
(* rounds as there are nodes.                                               *)
Growing(t, step) ==
  /\ step \in [SUBSET Node(t) -> SUBSET Node(t)]
  /\ \A X, Y \in SUBSET Node(t) : X \subseteq Y => step[X] \subseteq step[Y]

LEMMA RoundsFound ==
  ASSUME NEW t, IsFiniteSet(Node(t)), NEW step, Growing(t, step)
  PROVE  \E r : /\ r \in [0 .. Cardinality(Node(t)) -> SUBSET Node(t)]
                /\ r[0] = {}
                /\ \A k \in 1 .. Cardinality(Node(t)) : r[k] = step[r[k - 1]]
                /\ Rounds(t, step) = r[Cardinality(Node(t))]
<1>. DEFINE S == SUBSET Node(t)
            n == Cardinality(Node(t))
            F == [x \in (1 .. n) \X S |-> step[x[2]]]
            W(g) == [k \in 0 .. n |-> IF k = 0 THEN {} ELSE step[g[k - 1]]]
<1>1. n \in Nat /\ {} \in S
  BY FS_CardinalityType
<1>2. Steps(S, n, F)
  BY DEF Growing, Steps
<1>3. PICK f : Iterated(S, {}, n, F, f)
  <2>. HIDE DEF S, F, n
  <2>. QED
    BY <1>1, <1>2, Iterates
<1>4. f \in [0 .. n -> S] /\ f[0] = {} /\ \A k \in 1 .. n : f[k] = F[<<k, f[k - 1]>>]
  BY <1>3 DEF Iterated
<1>5. \A k \in 0 .. n : k # 0 => k \in 1 .. n /\ k - 1 \in 0 .. n
  BY <1>1
<1>6. \A k \in 1 .. n : k \in 0 .. n /\ k # 0
  BY <1>1
<1>7. ASSUME NEW k \in 1 .. n PROVE f[k] = step[f[k - 1]]
  <2>1. f[k - 1] \in S
    BY <1>4, <1>5, <1>6
  <2>2. <<k, f[k - 1]>> \in (1 .. n) \X S
    BY <2>1
  <2>3. f[k] = F[<<k, f[k - 1]>>]
    BY <1>4
  <2>. QED
    BY <2>2, <2>3
<1>8. f = W(f)
  <2>1. \A k \in 0 .. n : f[k] = W(f)[k]
    BY <1>4, <1>5, <1>7
  <2>2. f = [k \in 0 .. n |-> f[k]]
    BY <1>4
  <2>. QED
    BY <2>1, <2>2
<1>9. PICK r : r = CHOOSE g : g = W(g)
  OBVIOUS
<1>10. r = W(r)
  BY <1>8, <1>9
<1>11. Rounds(t, step) = r[n]
  BY <1>9 DEF Rounds
<1>12. r = [k \in 0 .. n |-> r[k]] /\ r[0] = {} /\ \A k \in 1 .. n : r[k] = step[r[k - 1]]
  <2>1. 0 \in 0 .. n
    BY <1>1
  <2>. HIDE DEF n
  <2>. QED
    BY <1>6, <1>10, <2>1
<1>13. \A k \in 0 .. n : k \in {i \in 0 .. n : r[i] \in S}
  <2>. DEFINE P == {i \in 0 .. n : r[i] \in S}
  <2>1. 0 \in P
    BY <1>1, <1>12
  <2>2. ASSUME NEW k \in 1 .. n, k - 1 \in P PROVE k \in P
    BY <1>6, <1>12, <2>2 DEF Growing
  <2>. HIDE DEF P, n
  <2>3. \A k \in 0 .. n : k \in P
    BY <1>1, <2>1, <2>2, CountUp
  <2>. QED
    BY <2>3 DEF P
<1>14. r \in [0 .. n -> S]
  BY <1>12, <1>13
<1>. QED
  BY <1>11, <1>12, <1>14

LEMMA RoundsStable ==
  ASSUME NEW t, IsFiniteSet(Node(t)), NEW step, Growing(t, step)
  PROVE  Rounds(t, step) \in SUBSET Node(t) /\ step[Rounds(t, step)] = Rounds(t, step)
<1>1. PICK c : c = Cardinality(Node(t))
  OBVIOUS
<1>2. c \in Nat
  BY <1>1, FS_CardinalityType
<1>3. PICK r : /\ r \in [0 .. c -> SUBSET Node(t)] /\ r[0] = {}
               /\ \A k \in 1 .. c : r[k] = step[r[k - 1]]
               /\ Rounds(t, step) = r[c]
  BY <1>1, RoundsFound
<1>4. \A k \in 1 .. c : k \in 0 .. c /\ k - 1 \in 0 .. c
  BY <1>2
<1>5. \A k \in 0 .. c : r[k] \in SUBSET Node(t) /\ step[r[k]] \in SUBSET Node(t)
  BY <1>3 DEF Growing
<1>. DEFINE P == {k \in 0 .. c : r[k] \subseteq step[r[k]]}
<1>6. \A k \in 0 .. c : k \in P
  <2>1. 0 \in P
    BY <1>2, <1>3
  <2>2. ASSUME NEW k \in 1 .. c, k - 1 \in P PROVE k \in P
    <3>1. r[k - 1] \subseteq r[k] /\ k \in 0 .. c /\ k - 1 \in 0 .. c
      BY <1>3, <1>4, <2>2
    <3>2. step[r[k - 1]] \subseteq step[r[k]]
      BY <1>5, <3>1 DEF Growing
    <3>. QED
      BY <1>3, <3>1, <3>2
  <2>. HIDE DEF P
  <2>. QED
    BY <1>2, <2>1, <2>2, CountUp
<1>7. \A k \in 0 .. c : IsFiniteSet(r[k]) /\ Cardinality(r[k]) \in Nat
  BY <1>5, FS_Subset, FS_CardinalityType
<1>. DEFINE Q == {k \in 0 .. c : step[r[k]] = r[k] \/ k <= Cardinality(r[k])}
<1>8. \A k \in 0 .. c : k \in Q
  <2>1. 0 \in Q
    BY <1>2, <1>7
  <2>2. ASSUME NEW k \in 1 .. c, k - 1 \in Q PROVE k \in Q
    <3>1. k \in 0 .. c /\ k - 1 \in 0 .. c /\ k - 1 \in P /\ r[k] = step[r[k - 1]]
      BY <1>3, <1>4, <1>6
    <3>2. CASE step[r[k - 1]] = r[k - 1]
      BY <3>1, <3>2
    <3>3. CASE step[r[k - 1]] # r[k - 1] /\ k - 1 <= Cardinality(r[k - 1])
      <4>1. r[k - 1] \subseteq r[k] /\ r[k - 1] # r[k]
        BY <3>1, <3>3
      <4>2. Cardinality(r[k - 1]) < Cardinality(r[k])
        BY <1>7, <3>1, <4>1, FS_Subset
      <4>. QED
        BY <1>7, <3>1, <3>3, <4>2
    <3>. QED
      BY <2>2, <3>2, <3>3
  <2>. HIDE DEF Q
  <2>. QED
    BY <1>2, <2>1, <2>2, CountUp
<1>9. c \in P /\ c \in Q /\ c \in 0 .. c
  <2>. HIDE DEF P, Q
  <2>. QED
    BY <1>2, <1>6, <1>8
<1>10. CASE c <= Cardinality(r[c])
  <2>1. r[c] = Node(t)
    BY <1>1, <1>2, <1>5, <1>7, <1>9, <1>10, FS_Subset
  <2>. QED
    BY <1>3, <1>5, <1>9, <2>1
<1>. QED
  BY <1>3, <1>5, <1>9, <1>10

-----------------------------------------------------------------------------

(* The edges that are kept.                                                *)
Among(x, e) == \E i \in DOMAIN e : e[i] = x

Kept(r, e, i, gone) ==
  /\ r \in Seq(EdgeRec) /\ InOrder(r)
  /\ \A x : Among(x, r) <=> \E j \in 1 .. i : e[j] = x /\ x.kid \notin gone

LEMMA AppendKept ==
  ASSUME NEW e \in Seq(EdgeRec), InOrder(e), NEW gone, NEW i \in 1 .. Len(e), NEW r,
         Kept(r, e, i - 1, gone), e[i].kid \notin gone
  PROVE  Kept(Append(r, e[i]), e, i, gone)
<1>1. PICK y, n, q : y = e[i] /\ n = Len(r) /\ q = Append(r, y)
  OBVIOUS
<1>2. r \in Seq(EdgeRec) /\ InOrder(r) /\ n \in Nat /\ DOMAIN r = 1 .. n /\ y \in EdgeRec /\ DOMAIN e = 1 .. Len(e)
  BY <1>1 DEF Kept
<1>3. q \in Seq(EdgeRec) /\ DOMAIN q = 1 .. n + 1 /\ q[n + 1] = y /\ \A j \in 1 .. n : q[j] = r[j]
  BY <1>1, <1>2
<1>4. \A j \in 1 .. n + 1 : j \in 1 .. n \/ j = n + 1
  BY <1>2
<1>5. \A j \in 1 .. n : j \in 1 .. n + 1
  BY <1>2
<1>6. n + 1 \in 1 .. n + 1
  BY <1>2
<1>7. ASSUME NEW x PROVE Among(x, q) <=> Among(x, r) \/ x = y
  BY <1>2, <1>3, <1>4, <1>5, <1>6 DEF Among
<1>8. \A j \in 1 .. i : j \in 1 .. i - 1 \/ j = i
  OBVIOUS
<1>9. \A j \in 1 .. i - 1 : j \in 1 .. i /\ j \in DOMAIN e /\ j < i
  BY <1>2
<1>10. i \in 1 .. i /\ i \in DOMAIN e
  BY <1>2
<1>11. ASSUME NEW x PROVE Among(x, q) <=> \E j \in 1 .. i : e[j] = x /\ x.kid \notin gone
  BY <1>1, <1>7, <1>8, <1>9, <1>10 DEF Kept
<1>12. ASSUME NEW j \in 1 .. n PROVE r[j].s < y.s /\ r[j].kid # y.kid
  <2>1. Among(r[j], r)
    BY <1>2 DEF Among
  <2>2. PICK l \in 1 .. i - 1 : e[l] = r[j]
    BY <2>1 DEF Kept
  <2>. QED
    BY <1>1, <1>9, <1>10, <2>2 DEF InOrder
<1>13. \A j \in 1 .. n : j < n + 1 /\ ~ n + 1 < j
  BY <1>2
<1>14. ~ n + 1 < n + 1
  BY <1>2
<1>15. InOrder(q)
  <2>1. ASSUME NEW a \in DOMAIN q, NEW b \in DOMAIN q, a < b PROVE q[a].s < q[b].s
    BY <1>2, <1>3, <1>4, <1>12, <1>13, <1>14, <2>1 DEF InOrder
  <2>2. ASSUME NEW a \in DOMAIN q, NEW b \in DOMAIN q, a # b PROVE q[a].kid # q[b].kid
    BY <1>2, <1>3, <1>4, <1>12, <2>2 DEF InOrder
  <2>. QED
    BY <2>1, <2>2 DEF InOrder
<1>. QED
  BY <1>1, <1>3, <1>11, <1>15 DEF Kept

LEMMA EdgesKeptAre ==
  ASSUME NEW e \in Seq(EdgeRec), InOrder(e), NEW gone
  PROVE  Kept(EdgesKept(e, gone), e, Len(e), gone)
<1>. DEFINE S == Seq(EdgeRec)
            n == Len(e)
            F == [x \in (1 .. n) \X S |-> IF e[x[1]].kid \in gone THEN x[2] ELSE Append(x[2], e[x[1]])]
            W(g) == [i \in 0 .. n |->
                       IF i = 0 THEN << >>
                       ELSE IF e[i].kid \in gone THEN g[i - 1] ELSE Append(g[i - 1], e[i])]
<1>1. n \in Nat /\ << >> \in S
  OBVIOUS
<1>2. Steps(S, n, F)
  <2>1. ASSUME NEW x \in (1 .. n) \X S
        PROVE  (IF e[x[1]].kid \in gone THEN x[2] ELSE Append(x[2], e[x[1]])) \in S
    OBVIOUS
  <2>. QED
    BY <2>1 DEF Steps
<1>3. PICK f : Iterated(S, << >>, n, F, f)
  <2>. HIDE DEF S, F, n
  <2>. QED
    BY <1>1, <1>2, Iterates
<1>4. f \in [0 .. n -> S] /\ f[0] = << >> /\ \A k \in 1 .. n : f[k] = F[<<k, f[k - 1]>>]
  BY <1>3 DEF Iterated
<1>5. \A k \in 0 .. n : k # 0 => k \in 1 .. n /\ k - 1 \in 0 .. n
  BY <1>1
<1>6. \A k \in 1 .. n : k \in 0 .. n /\ k # 0
  BY <1>1
<1>7. ASSUME NEW k \in 1 .. n
      PROVE  f[k] = IF e[k].kid \in gone THEN f[k - 1] ELSE Append(f[k - 1], e[k])
  <2>1. f[k - 1] \in S
    BY <1>4, <1>5, <1>6
  <2>2. <<k, f[k - 1]>> \in (1 .. n) \X S
    BY <2>1
  <2>3. f[k] = F[<<k, f[k - 1]>>]
    BY <1>4
  <2>. QED
    BY <2>2, <2>3
<1>8. f = W(f)
  <2>1. \A k \in 0 .. n : f[k] = W(f)[k]
    BY <1>4, <1>5, <1>7
  <2>2. f = [k \in 0 .. n |-> f[k]]
    BY <1>4
  <2>. QED
    BY <2>1, <2>2
<1>9. PICK r : r = CHOOSE g : g = W(g)
  OBVIOUS
<1>10. r = W(r)
  BY <1>8, <1>9
<1>11. EdgesKept(e, gone) = r[n]
  BY <1>9 DEF EdgesKept
<1>12. /\ r[0] = << >>
       /\ \A k \in 1 .. n : r[k] = IF e[k].kid \in gone THEN r[k - 1] ELSE Append(r[k - 1], e[k])
  <2>1. 0 \in 0 .. n
    BY <1>1
  <2>. HIDE DEF n
  <2>. QED
    BY <1>6, <1>10, <2>1
<1>. DEFINE P == {k \in 0 .. n : Kept(r[k], e, k, gone)}
<1>13. 0 \in P
  <2>1. 1 .. 0 = {} /\ DOMAIN << >> = {} /\ << >> \in Seq(EdgeRec)
    OBVIOUS
  <2>2. InOrder(<< >>)
    BY <2>1 DEF InOrder
  <2>3. \A x : ~ Among(x, << >>)
    BY <2>1 DEF Among
  <2>4. Kept(<< >>, e, 0, gone)
    BY <2>1, <2>2, <2>3 DEF Kept
  <2>. QED
    BY <1>1, <1>12, <2>4
<1>14. ASSUME NEW k \in 1 .. n, k - 1 \in P PROVE k \in P
  <2>1. Kept(r[k - 1], e, k - 1, gone) /\ k \in 0 .. n
    BY <1>6, <1>14
  <2>2. CASE e[k].kid \in gone
    <3>1. r[k] = r[k - 1]
      BY <1>12, <2>2
    <3>2. \A j \in 1 .. k : j \in 1 .. k - 1 \/ j = k
      OBVIOUS
    <3>3. \A j \in 1 .. k - 1 : j \in 1 .. k
      OBVIOUS
    <3>4. Kept(r[k - 1], e, k, gone)
      BY <2>1, <2>2, <3>2, <3>3 DEF Kept
    <3>. QED
      BY <2>1, <3>1, <3>4
  <2>3. CASE e[k].kid \notin gone
    <3>1. r[k] = Append(r[k - 1], e[k])
      BY <1>12, <2>3
    <3>2. Kept(Append(r[k - 1], e[k]), e, k, gone)
      BY <2>1, <2>3, AppendKept
    <3>. QED
      BY <2>1, <3>1, <3>2
  <2>. QED
    BY <2>2, <2>3
<1>15. \A k \in 0 .. n : k \in P
  <2>. HIDE DEF P, n
  <2>. QED
    BY <1>1, <1>13, <1>14, CountUp
<1>16. n \in P
  <2>. HIDE DEF P, n
  <2>. QED
    BY <1>1, <1>15
<1>. QED
  BY <1>11, <1>16

-----------------------------------------------------------------------------

(* With a node all that is below it goes.                                   *)
Closed(t, gone) ==
  /\ gone \in SUBSET Node(t) /\ Root \notin gone
  /\ \A k \in Node(t) \ {Root} : Parent(t, k) \in gone => k \in gone

(* u is t without the nodes that are gone.                                  *)
Shrunk(u, t, gone) ==
  /\ TreeOK(u) /\ Part(u, t) /\ Node(u) = Node(t) \ gone
  /\ \A n \in Node(u) : u.node[n].data = t.node[n].data

LEMMA EdgesAmong ==
  ASSUME NEW t, NEW n, t.node[n].edge \in Seq(EdgeRec), NEW s, NEW k
  PROVE  EdgeTo(t, n, s, k) <=> Among([s |-> s, kid |-> k], t.node[n].edge)
<1>1. PICK e : e = t.node[n].edge
  OBVIOUS
<1>2. \A i \in DOMAIN e : e[i] \in EdgeRec
  BY <1>1
<1>3. \A i \in DOMAIN e : e[i] = [s |-> s, kid |-> k] <=> e[i].s = s /\ e[i].kid = k
  BY <1>2 DEF EdgeRec
<1>. QED
  BY <1>1, <1>3 DEF EdgeTo, Among

LEMMA DeletionShrinks ==
  ASSUME NEW t, TreeOK(t), NEW gone, Closed(t, gone)
  PROVE  Shrunk(del_nodes(t, gone), t, gone)
<1>1. PICK u : u = del_nodes(t, gone)
  OBVIOUS
<1>2. /\ u = [node |-> u.node, total |-> u.total, empty |-> u.empty]
      /\ u.node = [k \in Node(t) \ gone |->
                     [t.node[k] EXCEPT !.edge = EdgesKept(t.node[k].edge, gone)]]
  BY <1>1 DEF del_nodes
<1>3. Node(u) = Node(t) \ gone
  BY <1>2 DEF Node
<1>4. u.total \in Int /\ u.empty \in Int
  <2>1. IsFiniteSet(Node(t)) /\ t.total \in Int /\ t.empty \in Int /\ gone \subseteq Node(t)
    BY DEF TreeOK, Closed
  <2>2. PICK e : e = {k \in gone : t.node[k].data = Null}
    OBVIOUS
  <2>3. e \subseteq gone
    BY <2>2
  <2>4. IsFiniteSet(gone)
    BY <2>1, FS_Subset
  <2>5. Cardinality(gone) \in Nat /\ Cardinality(e) \in Nat
    BY <2>3, <2>4, FS_Subset, FS_CardinalityType
  <2>6. u.total = t.total - Cardinality(gone) /\ u.empty = t.empty - Cardinality(e)
    BY <1>1, <2>2 DEF del_nodes
  <2>. QED
    BY <2>1, <2>5, <2>6
<1>5. ASSUME NEW n \in Node(u)
      PROVE  /\ n \in Node(t) /\ n \notin gone
             /\ u.node[n] \in NodeRec /\ InOrder(u.node[n].edge)
             /\ u.node[n].data = t.node[n].data /\ u.node[n].parent = t.node[n].parent
             /\ \A s, k : EdgeTo(u, n, s, k) <=> EdgeTo(t, n, s, k) /\ k \notin gone
  <2>1. PICK r, e, q : r = t.node[n] /\ e = r.edge /\ q = EdgesKept(e, gone)
    OBVIOUS
  <2>2. n \in Node(t) /\ n \notin gone
    BY <1>3
  <2>3. r \in NodeRec /\ InOrder(e)
    BY <2>1, <2>2 DEF TreeOK
  <2>4. e \in Seq(EdgeRec) /\ DOMAIN e = 1 .. Len(e)
    BY <2>1, <2>3 DEF NodeRec
  <2>5. Kept(q, e, Len(e), gone)
    BY <2>1, <2>3, <2>4, EdgesKeptAre
  <2>6. u.node[n] = [r EXCEPT !.edge = q]
    BY <1>2, <1>3, <2>1
  <2>7. q \in Seq(EdgeRec) /\ InOrder(q)
    BY <2>5 DEF Kept
  <2>8. u.node[n] \in NodeRec /\ u.node[n].edge = q
        /\ u.node[n].data = t.node[n].data /\ u.node[n].parent = t.node[n].parent
    BY <2>1, <2>3, <2>6, <2>7 DEF NodeRec
  <2>9. ASSUME NEW s, NEW k PROVE EdgeTo(u, n, s, k) <=> EdgeTo(t, n, s, k) /\ k \notin gone
    <3>1. EdgeTo(u, n, s, k) <=> Among([s |-> s, kid |-> k], q)
      BY <2>7, <2>8, EdgesAmong
    <3>2. EdgeTo(t, n, s, k) <=> Among([s |-> s, kid |-> k], e)
      BY <2>1, <2>4, EdgesAmong
    <3>3. PICK x : x = [s |-> s, kid |-> k]
      OBVIOUS
    <3>4. x.kid = k
      BY <3>3
    <3>5. Among(x, q) <=> Among(x, e) /\ k \notin gone
      BY <2>4, <2>5, <3>4 DEF Kept, Among
    <3>. QED
      BY <3>1, <3>2, <3>3, <3>5
  <2>. QED
    BY <2>2, <2>7, <2>8, <2>9
<1>6. Root \in Node(u) /\ Node(u) \subseteq Nat /\ IsFiniteSet(Node(u))
  <2>1. Node(u) \subseteq Node(t)
    BY <1>3
  <2>. QED
    BY <1>3, <2>1, FS_Subset DEF TreeOK, Closed
<1>7. u.node[Root].parent = Null /\ u.node[Root].data = Null
  BY <1>5, <1>6 DEF TreeOK
<1>8. ASSUME NEW n \in Node(u), NEW s, NEW k, EdgeTo(u, n, s, k) PROVE k \in Node(u) /\ Parent(u, k) = n
  <2>1. n \in Node(t) /\ EdgeTo(t, n, s, k) /\ k \notin gone
    BY <1>5, <1>8
  <2>2. k \in Node(t) /\ Parent(t, k) = n
    BY <2>1 DEF TreeOK
  <2>3. k \in Node(u)
    BY <1>3, <2>1, <2>2
  <2>. QED
    BY <1>5, <2>2, <2>3 DEF Parent
<1>9. ASSUME NEW n \in Node(u) \ {Root}
      PROVE  Parent(u, n) \in Node(u) /\ \E s \in Nat : EdgeTo(u, Parent(u, n), s, n)
  <2>1. n \in Node(t) \ {Root} /\ n \notin gone /\ Parent(u, n) = Parent(t, n)
    BY <1>5 DEF Parent
  <2>2. PICK m : m = Parent(t, n)
    OBVIOUS
  <2>3. m \in Node(t) /\ m \notin gone /\ \E s \in Nat : EdgeTo(t, m, s, n)
    BY <2>1, <2>2 DEF TreeOK, Closed
  <2>4. m \in Node(u)
    BY <1>3, <2>3
  <2>. QED
    BY <1>5, <2>1, <2>2, <2>3, <2>4
<1>10. Part(u, t)
  <2>1. Node(u) \subseteq Node(t) /\ \A k \in Node(u) : k \notin gone
    BY <1>3
  <2>. QED
    BY <1>5, <2>1 DEF Part
<1>11. u.node = [n \in Node(u) |-> u.node[n]]
  BY <1>2 DEF Node
<1>12. TreeOK(u)
  BY <1>2, <1>4, <1>5, <1>6, <1>7, <1>8, <1>9, <1>11 DEF TreeOK
<1>. QED
  BY <1>1, <1>3, <1>5, <1>10, <1>12 DEF Shrunk

(* What falls is dead, and all that is below it has fallen before.            *)
LEMMA FallsIsClosed ==
  ASSUME NEW t, TreeOK(t), NEW n \in Node(t)
  PROVE  Closed(t, Falls(t, n)) /\ \A k \in Falls(t, n) : t.node[k].data = Null
<1>1. PICK step : step = [gone \in SUBSET Node(t) |->
        {m \in Node(t) \ {Root} :
           Dead(t, m, gone) /\ (m = n \/ \E k \in gone : t.node[k].parent = m)}]
  OBVIOUS
<1>2. step \in [SUBSET Node(t) -> SUBSET Node(t)]
  BY <1>1
<1>3. ASSUME NEW X \in SUBSET Node(t), NEW Y \in SUBSET Node(t), X \subseteq Y PROVE step[X] \subseteq step[Y]
  BY <1>1, <1>3 DEF Dead
<1>4. Growing(t, step)
  BY <1>2, <1>3 DEF Growing
<1>5. IsFiniteSet(Node(t))
  BY DEF TreeOK
<1>6. PICK R : R = Rounds(t, step)
  OBVIOUS
<1>7. R \in SUBSET Node(t) /\ step[R] = R
  BY <1>4, <1>5, <1>6, RoundsStable
<1>8. Falls(t, n) = R
  BY <1>1, <1>6 DEF Falls
<1>9. \A m \in R : m # Root /\ Dead(t, m, R)
  BY <1>1, <1>7
<1>10. ASSUME NEW k \in Node(t) \ {Root}, Parent(t, k) \in R PROVE k \in R
  <2>1. PICK m : m = Parent(t, k)
    OBVIOUS
  <2>2. PICK s : EdgeTo(t, m, s, k)
    BY <2>1 DEF TreeOK
  <2>. QED
    BY <1>9, <1>10, <2>1, <2>2 DEF Dead, EdgeTo
<1>11. Closed(t, R)
  BY <1>7, <1>9, <1>10 DEF Closed
<1>. QED
  BY <1>8, <1>9, <1>11 DEF Dead

(* What is below the nodes of tops: their kids, and the kids of what is.       *)
LEMMA BelowIs ==
  ASSUME NEW t, TreeOK(t), NEW tops \in SUBSET Node(t)
  PROVE  /\ Closed(t, Below(t, tops))
         /\ \A k \in Node(t) \ {Root} : k \in Below(t, tops) <=> Parent(t, k) \in tops \cup Below(t, tops)
<1>1. PICK step : step = [low \in SUBSET Node(t) |-> {k \in Node(t) : t.node[k].parent \in tops \cup low}]
  OBVIOUS
<1>2. step \in [SUBSET Node(t) -> SUBSET Node(t)]
  BY <1>1
<1>3. ASSUME NEW X \in SUBSET Node(t), NEW Y \in SUBSET Node(t), X \subseteq Y PROVE step[X] \subseteq step[Y]
  BY <1>1, <1>3
<1>4. Growing(t, step)
  BY <1>2, <1>3 DEF Growing
<1>5. IsFiniteSet(Node(t))
  BY DEF TreeOK
<1>6. PICK R : R = Rounds(t, step)
  OBVIOUS
<1>7. R \in SUBSET Node(t) /\ step[R] = R
  BY <1>4, <1>5, <1>6, RoundsStable
<1>8. Below(t, tops) = R
  BY <1>1, <1>6 DEF Below
<1>9. \A k \in Node(t) : k \in R <=> t.node[k].parent \in tops \cup R
  BY <1>1, <1>7
<1>10. Null \notin Node(t) /\ t.node[Root].parent = Null /\ Root \in Node(t)
  BY NullIsNoNumber DEF TreeOK
<1>. QED
  BY <1>7, <1>8, <1>9, <1>10 DEF Closed, Parent

-----------------------------------------------------------------------------

LEMMA EdgesTyped ==
  ASSUME NEW e \in Seq(EdgeRec), NEW i \in DOMAIN e
  PROVE  e[i] \in EdgeRec /\ e[i].s \in Nat /\ e[i].kid \in Nat
<1>1. e[i] \in EdgeRec
  OBVIOUS
<1>. QED
  BY <1>1 DEF EdgeRec

(* The place of a new edge is behind those that are not greater.              *)
LEMMA PlaceIs ==
  ASSUME NEW e \in Seq(EdgeRec), InOrder(e), NEW s \in Nat
  PROVE  Place(e, s) \in 1 .. Len(e) + 1 /\ \A i \in DOMAIN e : i < Place(e, s) <=> e[i].s <= s
<1>1. PICK n : n = Len(e)
  OBVIOUS
<1>2. n \in Nat /\ DOMAIN e = 1 .. n
  BY <1>1
<1>3. \A i \in 1 .. n : e[i].s \in Nat
  BY <1>2, EdgesTyped
<1>. DEFINE Over == {i \in 1 .. n + 1 : i = n + 1 \/ ~ e[i].s <= s}
<1>4. Over \subseteq Nat /\ n + 1 \in Over
  BY <1>2
<1>5. PICK m \in Over : \A i \in Over : m <= i
  <2>. HIDE DEF Over
  <2>. QED
    BY <1>4, LeastNumber
<1>6. m \in 1 .. n + 1
  OBVIOUS
<1>7. ASSUME NEW i \in 1 .. n PROVE i < m <=> e[i].s <= s
  <2>1. CASE i < m
    <3>1. i \notin Over
      BY <1>4, <1>5, <2>1, <1>6
    <3>. QED
      BY <1>2, <2>1, <3>1
  <2>2. CASE ~ i < m
    <3>1. m \in 1 .. n /\ ~ e[m].s <= s /\ m <= i
      BY <1>2, <1>6, <2>2
    <3>2. e[m].s <= e[i].s
      <4>1. m < i => e[m].s < e[i].s
        BY <1>2, <3>1 DEF InOrder
      <4>2. m < i \/ m = i
        BY <3>1
      <4>. QED
        BY <1>3, <3>1, <4>1, <4>2
    <3>. QED
      BY <1>3, <2>2, <3>1, <3>2
  <2>. QED
    BY <2>1, <2>2
<1>8. PICK j : j = m - 1
  OBVIOUS
<1>9. j \in Nat /\ m = j + 1
  BY <1>6, <1>8
<1>. DEFINE Lower == {i \in DOMAIN e : e[i].s <= s}
<1>10. Lower = 1 .. j
  <2>1. \A i : i \in Lower <=> i \in 1 .. j
    BY <1>2, <1>6, <1>7, <1>9
  <2>. QED
    BY <2>1
<1>11. Cardinality(1 .. j) = j
  BY <1>9, UpTo
<1>12. Place(e, s) = m
  <2>1. Place(e, s) = 1 + Cardinality(Lower)
    BY DEF Place
  <2>. HIDE DEF Lower
  <2>. QED
    BY <1>9, <1>10, <1>11, <2>1
<1>. QED
  BY <1>1, <1>2, <1>6, <1>7, <1>12

Inserted(e, p, x, q) ==
  /\ q \in Seq(EdgeRec) /\ Len(q) = Len(e) + 1
  /\ \A i \in 1 .. p - 1 : q[i] = e[i]
  /\ q[p] = x
  /\ \A i \in p + 1 .. Len(e) + 1 : q[i] = e[i - 1]

LEMMA InsertAtIs ==
  ASSUME NEW e \in Seq(EdgeRec), NEW p \in 1 .. Len(e) + 1, NEW x \in EdgeRec
  PROVE  Inserted(e, p, x, InsertAt(e, p, x))
<1>1. PICK n : n = Len(e)
  OBVIOUS
<1>2. n \in Nat /\ p \in 1 .. n + 1 /\ p \in Nat
  BY <1>1
<1>3. PICK a, b, c, q : a = SubSeq(e, 1, p - 1) /\ b = SubSeq(e, p, n) /\ c = a \o <<x>> /\ q = c \o b
  OBVIOUS
<1>4. a \in Seq(EdgeRec) /\ Len(a) = p - 1 /\ \A i \in 1 .. p - 1 : a[i] = e[i]
  BY <1>1, <1>2, <1>3
<1>5. b \in Seq(EdgeRec) /\ Len(b) = n - p + 1 /\ \A i \in 1 .. n - p + 1 : b[i] = e[p + i - 1]
  BY <1>1, <1>2, <1>3
<1>6. c \in Seq(EdgeRec) /\ Len(c) = p /\ c[p] = x /\ \A i \in 1 .. p - 1 : c[i] = e[i]
  <2>1. PICK m : m = p - 1
    OBVIOUS
  <2>2. a \in Seq(EdgeRec) /\ Len(a) = m /\ m + 1 = p /\ c = a \o <<x>>
    <3>1. m + 1 = p
      BY <1>2, <2>1
    <3>. QED
      BY <1>3, <1>4, <2>1, <3>1
  <2>3. c \in Seq(EdgeRec) /\ Len(c) = m + 1
    BY <2>2
  <2>4. c[m + 1] = x /\ \A i \in 1 .. m : c[i] = a[i]
    BY <2>2
  <2>. QED
    BY <1>4, <2>1, <2>2, <2>3, <2>4
<1>7. q \in Seq(EdgeRec) /\ Len(q) = n + 1
  BY <1>2, <1>3, <1>5, <1>6
<1>8. \A i \in 1 .. p : q[i] = c[i]
  BY <1>2, <1>3, <1>5, <1>6
<1>9. ASSUME NEW i \in p + 1 .. n + 1 PROVE q[i] = e[i - 1]
  <2>1. q[i] = b[i - p] /\ i - p \in 1 .. n - p + 1
    <3>1. PICK j : j = i - p
      OBVIOUS
    <3>2. j \in 1 .. n - p + 1 /\ i = p + j
      BY <1>2, <3>1
    <3>3. j \in 1 .. Len(b) /\ i = Len(c) + j
      BY <1>5, <1>6, <3>2
    <3>4. q[Len(c) + j] = b[j]
      BY <1>3, <1>5, <1>6, <3>3
    <3>. QED
      BY <3>1, <3>2, <3>3, <3>4
  <2>2. p + (i - p) - 1 = i - 1
    BY <1>2
  <2>. QED
    BY <1>5, <2>1, <2>2
<1>10. InsertAt(e, p, x) = q
  BY <1>1, <1>3 DEF InsertAt
<1>11. \A i \in 1 .. p - 1 : i \in 1 .. p
  BY <1>2
<1>12. p \in 1 .. p
  BY <1>2
<1>. QED
  BY <1>1, <1>6, <1>7, <1>8, <1>9, <1>10, <1>11, <1>12 DEF Inserted

(* With one edge more, for a new letter and to a new node, edges are in order.  *)
LEMMA InsertedInOrder ==
  ASSUME NEW e \in Seq(EdgeRec), InOrder(e), NEW s \in Nat, NEW kid \in Nat,
         \A i \in DOMAIN e : e[i].s # s /\ e[i].kid # kid
  PROVE  LET q == InsertAt(e, Place(e, s), [s |-> s, kid |-> kid])
         IN  /\ q \in Seq(EdgeRec) /\ InOrder(q)
             /\ \A x : Among(x, q) <=> Among(x, e) \/ x = [s |-> s, kid |-> kid]
<1>1. PICK n, p, x, q : n = Len(e) /\ p = Place(e, s) /\ x = [s |-> s, kid |-> kid] /\ q = InsertAt(e, p, x)
  OBVIOUS
<1>2. n \in Nat /\ DOMAIN e = 1 .. n /\ x \in EdgeRec /\ x.s = s /\ x.kid = kid
  BY <1>1 DEF EdgeRec
<1>3. p \in 1 .. n + 1 /\ \A i \in DOMAIN e : i < p <=> e[i].s <= s
  BY <1>1, PlaceIs
<1>4. /\ q \in Seq(EdgeRec) /\ Len(q) = n + 1
      /\ \A i \in 1 .. p - 1 : q[i] = e[i]
      /\ q[p] = x
      /\ \A i \in p + 1 .. n + 1 : q[i] = e[i - 1]
  <2>1. p \in 1 .. Len(e) + 1 /\ x \in EdgeRec
    BY <1>1, <1>2, <1>3
  <2>2. Inserted(e, p, x, q)
    BY <1>1, <2>1, InsertAtIs
  <2>. QED
    BY <1>1, <2>2 DEF Inserted
<1>5. DOMAIN q = 1 .. n + 1 /\ p \in Nat
  BY <1>2, <1>3, <1>4
<1>6. \A i \in 1 .. n : e[i].s \in Nat /\ e[i].s # s /\ e[i].kid # kid
  <2>1. ASSUME NEW i \in 1 .. n PROVE e[i].s \in Nat
    BY <1>2, EdgesTyped
  <2>. QED
    BY <1>2, <2>1
(* Where the edges of e have gone.                                          *)
<1>7. PICK at : at = [i \in 1 .. n + 1 |-> IF i < p THEN i ELSE i - 1]
  OBVIOUS
<1>8. ASSUME NEW i \in 1 .. n + 1, i # p
      PROVE  at[i] \in 1 .. n /\ q[i] = e[at[i]] /\ (i < p <=> at[i] < p)
  <2>1. CASE i < p
    BY <1>2, <1>3, <1>4, <1>7, <2>1
  <2>2. CASE ~ i < p
    <3>1. i \in p + 1 .. n + 1 /\ at[i] = i - 1
      BY <1>2, <1>3, <1>7, <1>8, <2>2
    <3>. QED
      BY <1>2, <1>3, <1>4, <2>2, <3>1
  <2>. QED
    BY <2>1, <2>2
<1>9. ASSUME NEW i \in 1 .. n + 1, NEW j \in 1 .. n + 1, i # p, j # p, i < j PROVE at[i] < at[j]
  BY <1>2, <1>3, <1>7, <1>9
<1>10. ASSUME NEW i \in 1 .. n + 1, NEW j \in 1 .. n + 1, i # p, j # p, i # j PROVE at[i] # at[j]
  BY <1>2, <1>3, <1>7, <1>10
<1>11. ASSUME NEW i \in 1 .. n + 1, i # p PROVE /\ q[i].kid # kid /\ (i < p => q[i].s < s) /\ (p < i => s < q[i].s)
  <2>1. at[i] \in 1 .. n /\ q[i] = e[at[i]] /\ (i < p <=> at[i] < p)
    BY <1>8, <1>11
  <2>2. at[i] < p <=> e[at[i]].s <= s
    BY <1>2, <1>3, <2>1
  <2>3. e[at[i]].s \in Nat /\ e[at[i]].s # s /\ e[at[i]].kid # kid
    BY <1>6, <2>1
  <2>4. p < i => ~ i < p
    BY <1>5
  <2>. QED
    BY <2>1, <2>2, <2>3, <2>4
<1>12. ASSUME NEW i \in 1 .. n + 1, NEW j \in 1 .. n + 1, i < j PROVE q[i].s < q[j].s
  <2>1. CASE i = p
    BY <1>2, <1>4, <1>5, <1>11, <1>12, <2>1
  <2>2. CASE j = p
    BY <1>2, <1>4, <1>5, <1>11, <1>12, <2>2
  <2>3. CASE i # p /\ j # p
    <3>1. at[i] < at[j] /\ at[i] \in 1 .. n /\ at[j] \in 1 .. n /\ q[i] = e[at[i]] /\ q[j] = e[at[j]]
      BY <1>8, <1>9, <1>12, <2>3
    <3>. QED
      BY <1>2, <3>1 DEF InOrder
  <2>. QED
    BY <2>1, <2>2, <2>3
<1>13. ASSUME NEW i \in 1 .. n + 1, NEW j \in 1 .. n + 1, i # j PROVE q[i].kid # q[j].kid
  <2>1. CASE i = p
    BY <1>2, <1>4, <1>11, <1>13, <2>1
  <2>2. CASE j = p
    BY <1>2, <1>4, <1>11, <1>13, <2>2
  <2>3. CASE i # p /\ j # p
    <3>1. at[i] # at[j] /\ at[i] \in 1 .. n /\ at[j] \in 1 .. n /\ q[i] = e[at[i]] /\ q[j] = e[at[j]]
      BY <1>8, <1>10, <1>13, <2>3
    <3>. QED
      BY <1>2, <3>1 DEF InOrder
  <2>. QED
    BY <2>1, <2>2, <2>3
<1>14. InOrder(q)
  BY <1>5, <1>12, <1>13 DEF InOrder
<1>15. ASSUME NEW i \in 1 .. n PROVE \E j \in 1 .. n + 1 : q[j] = e[i]
  <2>1. CASE i < p
    <3>1. i \in 1 .. p - 1 /\ i \in 1 .. n + 1
      BY <1>2, <1>5, <2>1
    <3>. QED
      BY <1>4, <3>1
  <2>2. CASE ~ i < p
    <3>1. i + 1 \in p + 1 .. n + 1 /\ i + 1 \in 1 .. n + 1 /\ i + 1 - 1 = i
      BY <1>2, <1>5, <2>2
    <3>2. q[i + 1] = e[i]
      BY <1>4, <3>1
    <3>. QED
      BY <3>1, <3>2
  <2>. QED
    BY <2>1, <2>2
<1>16. ASSUME NEW y PROVE Among(y, q) <=> Among(y, e) \/ y = x
  <2>1. ASSUME NEW j \in 1 .. n + 1, q[j] = y PROVE Among(y, e) \/ y = x
    <3>1. j = p \/ (at[j] \in 1 .. n /\ e[at[j]] = y)
      BY <1>8, <2>1
    <3>. QED
      BY <1>2, <1>4, <2>1, <3>1 DEF Among
  <2>2. ASSUME NEW j \in 1 .. n, e[j] = y PROVE Among(y, q)
    BY <1>5, <1>15, <2>2 DEF Among
  <2>3. Among(x, q)
    BY <1>3, <1>4, <1>5 DEF Among
  <2>. QED
    BY <1>2, <1>5, <2>1, <2>2, <2>3 DEF Among
<1>. QED
  BY <1>1, <1>4, <1>14, <1>16

-----------------------------------------------------------------------------

(* u is t with new nodes, at which nothing is stored.                        *)
Sprouted(u, t) ==
  /\ TreeOK(u) /\ Part(t, u)
  /\ \A n \in Node(t) : u.node[n].data = t.node[n].data
  /\ \A n \in Node(u) \ Node(t) : u.node[n].data = Null

LEMMA FreshIs ==
  ASSUME NEW t, TreeOK(t)
  PROVE  FreshNode(t) \in Nat /\ FreshNode(t) \notin Node(t) /\ FreshNode(t) # Root
<1>1. PICK c : c = Cardinality(Node(t))
  OBVIOUS
<1>2. IsFiniteSet(Node(t)) /\ c \in Nat
  BY <1>1, FS_CardinalityType DEF TreeOK
<1>3. \E k \in 1 .. c + 1 : k \notin Node(t)
  <2>1. SUFFICES ASSUME \A k \in 1 .. c + 1 : k \in Node(t) PROVE FALSE
    OBVIOUS
  <2>2. PICK Upper : Upper = 1 .. c + 1
    OBVIOUS
  <2>3. Upper \subseteq Node(t)
    BY <2>1, <2>2
  <2>4. Cardinality(Upper) <= c
    BY <1>1, <1>2, <2>3, FS_Subset
  <2>5. Cardinality(Upper) = c + 1
    <3>1. c + 1 \in Nat
      BY <1>2
    <3>. QED
      BY <2>2, <3>1, UpTo
  <2>. QED
    BY <1>2, <2>4, <2>5
<1>4. FreshNode(t) \in 1 .. c + 1 /\ FreshNode(t) \notin Node(t)
  BY <1>1, <1>3 DEF FreshNode
<1>. QED
  BY <1>2, <1>4 DEF TreeOK

LEMMA AddKidGrows ==
  ASSUME NEW t, TreeOK(t), NEW n \in Node(t), NEW s \in Nat, EdgeIndex(t, n, s) = {}
  PROVE  /\ Sprouted(add_kid(t, n, s), t)
         /\ Node(add_kid(t, n, s)) = Node(t) \cup {FreshNode(t)}
         /\ EdgeTo(add_kid(t, n, s), n, s, FreshNode(t))
<1>1. PICK u, kid, e, x, q : /\ u = add_kid(t, n, s) /\ kid = FreshNode(t) /\ e = t.node[n].edge
                             /\ x = [s |-> s, kid |-> kid] /\ q = InsertAt(e, Place(e, s), x)
  OBVIOUS
<1>2. kid \in Nat /\ kid \notin Node(t) /\ kid # Root /\ kid # n
  BY <1>1, FreshIs
<1>3. u = [node  |-> [k \in Node(t) \cup {kid} |->
                       IF k = kid THEN NewTreeNode(n)
                       ELSE IF k = n THEN [t.node[n] EXCEPT !.edge = q] ELSE t.node[k]],
           total |-> t.total + 1,
           empty |-> t.empty + 1]
  BY <1>1 DEF add_kid
<1>4. Node(u) = Node(t) \cup {kid}
  BY <1>3 DEF Node
<1>5. t.node[n] \in NodeRec /\ e \in Seq(EdgeRec) /\ InOrder(e)
  BY <1>1 DEF TreeOK, NodeRec
<1>6. \A i \in DOMAIN e : e[i].s # s /\ e[i].kid # kid
  <2>1. ASSUME NEW i \in DOMAIN e, e[i].s = s PROVE FALSE
    BY <1>1, <2>1 DEF EdgeIndex
  <2>2. ASSUME NEW i \in DOMAIN e, e[i].kid = kid PROVE FALSE
    <3>1. EdgeTo(t, n, e[i].s, kid)
      BY <1>1, <2>2 DEF EdgeTo
    <3>. QED
      BY <1>2, <3>1 DEF TreeOK
  <2>. QED
    BY <2>1, <2>2
<1>7. q \in Seq(EdgeRec) /\ InOrder(q) /\ \A y : Among(y, q) <=> Among(y, e) \/ y = x
  BY <1>1, <1>2, <1>5, <1>6, InsertedInOrder, SMTT(30)
<1>8. u.node[kid] = NewTreeNode(n)
  BY <1>3, <1>4
<1>9. u.node[n] = [t.node[n] EXCEPT !.edge = q]
  BY <1>2, <1>3, <1>4
<1>10. \A k \in Node(t) : k # n => u.node[k] = t.node[k]
  BY <1>2, <1>3, <1>4
<1>11. /\ u.node[n] \in NodeRec /\ u.node[n].edge = q
       /\ u.node[n].parent = t.node[n].parent /\ u.node[n].data = t.node[n].data
  BY <1>5, <1>7, <1>9 DEF NodeRec
<1>12. /\ u.node[kid] \in NodeRec /\ InOrder(u.node[kid].edge)
       /\ u.node[kid].parent = n /\ u.node[kid].data = Null /\ DOMAIN u.node[kid].edge = {}
  <2>1. n \in Nat
    BY DEF TreeOK
  <2>. QED
    BY <1>8, <2>1 DEF NewTreeNode, NodeRec, InOrder
<1>13. ASSUME NEW k \in Node(t)
       PROVE  /\ u.node[k] \in NodeRec /\ InOrder(u.node[k].edge)
              /\ u.node[k].parent = t.node[k].parent /\ u.node[k].data = t.node[k].data
  BY <1>7, <1>10, <1>11 DEF TreeOK
<1>14. ASSUME NEW r, NEW k PROVE EdgeTo(u, n, r, k) <=> EdgeTo(t, n, r, k) \/ (r = s /\ k = kid)
  <2>1. EdgeTo(u, n, r, k) <=> Among([s |-> r, kid |-> k], q)
    BY <1>7, <1>11, EdgesAmong
  <2>2. EdgeTo(t, n, r, k) <=> Among([s |-> r, kid |-> k], e)
    BY <1>1, <1>5, EdgesAmong
  <2>3. [s |-> r, kid |-> k] = x <=> r = s /\ k = kid
    BY <1>1
  <2>. QED
    BY <1>7, <2>1, <2>2, <2>3
<1>15. ASSUME NEW m \in Node(t), m # n, NEW r, NEW k PROVE EdgeTo(u, m, r, k) <=> EdgeTo(t, m, r, k)
  BY <1>10, <1>15 DEF EdgeTo
<1>16. \A r, k : ~ EdgeTo(u, kid, r, k)
  BY <1>12 DEF EdgeTo
<1>17. \A m \in Node(t) : \A r, k : EdgeTo(t, m, r, k) => k \in Node(t) /\ t.node[k].parent = m
  BY DEF TreeOK, Parent
<1>18. ASSUME NEW m \in Node(u), NEW r, NEW k, EdgeTo(u, m, r, k) PROVE k \in Node(u) /\ u.node[k].parent = m
  <2>1. m \in Node(t)
    BY <1>4, <1>16, <1>18
  <2>2. EdgeTo(t, m, r, k) \/ (m = n /\ k = kid)
    BY <1>14, <1>15, <1>18, <2>1
  <2>. QED
    BY <1>4, <1>12, <1>13, <1>17, <2>1, <2>2
<1>19. ASSUME NEW m \in Node(u) \ {Root}
       PROVE  u.node[m].parent \in Node(u) /\ \E r \in Nat : EdgeTo(u, u.node[m].parent, r, m)
  <2>1. CASE m = kid
    BY <1>4, <1>12, <1>14, <2>1
  <2>2. CASE m \in Node(t)
    <3>1. PICK p : p = t.node[m].parent
      OBVIOUS
    <3>2. p \in Node(t) /\ \E r \in Nat : EdgeTo(t, p, r, m)
      BY <2>2, <3>1 DEF TreeOK, Parent
    <3>. QED
      BY <1>4, <1>13, <1>14, <1>15, <2>2, <3>1, <3>2
  <2>. QED
    BY <1>4, <2>1, <2>2
<1>20. u.node = [m \in Node(u) |-> u.node[m]] /\ u = [node |-> u.node, total |-> u.total, empty |-> u.empty]
  BY <1>3 DEF Node
<1>21. u.total \in Int /\ u.empty \in Int
  BY <1>3 DEF TreeOK
<1>22. Node(u) \subseteq Nat /\ IsFiniteSet(Node(u)) /\ Root \in Node(u)
  BY <1>2, <1>4, FS_AddElement DEF TreeOK
<1>23. u.node[Root].parent = Null /\ u.node[Root].data = Null
  BY <1>13 DEF TreeOK
<1>24. \A m \in Node(u) : u.node[m] \in NodeRec /\ InOrder(u.node[m].edge)
  BY <1>4, <1>12, <1>13
<1>25. TreeOK(u)
  BY <1>18, <1>19, <1>20, <1>21, <1>22, <1>23, <1>24 DEF TreeOK, Parent
<1>26. Part(t, u)
  <2>1. ASSUME NEW m \in Node(t), NEW k \in Node(t), NEW r PROVE EdgeTo(t, m, r, k) <=> EdgeTo(u, m, r, k)
    BY <1>2, <1>14, <1>15
  <2>. QED
    BY <1>4, <2>1 DEF Part
<1>27. Sprouted(u, t)
  BY <1>4, <1>12, <1>13, <1>25, <1>26 DEF Sprouted
<1>28. EdgeTo(u, n, s, kid)
  BY <1>14
<1>. QED
  BY <1>1, <1>4, <1>27, <1>28

-----------------------------------------------------------------------------

(* Every node is reached by some letters.                                   *)
Reached(t) == \A n \in Node(t) : \E key \in Seq(Nat) : search_node(t, key) = n

LEMMA GrownTwice ==
  ASSUME NEW t, NEW u, NEW v, Sprouted(u, t), Sprouted(v, u)
  PROVE  Sprouted(v, t)
<1>1. Node(t) \subseteq Node(u) /\ Node(u) \subseteq Node(v)
  BY DEF Sprouted, Part
<1>2. Part(t, v)
  BY <1>1 DEF Sprouted, Part
<1>. QED
  BY <1>1, <1>2 DEF Sprouted

LEMMA GrownFinds ==
  ASSUME NEW t, NEW u, TreeOK(t), Sprouted(u, t), NEW key \in Seq(Nat), search_node(t, key) # Null
  PROVE  search_node(u, key) = search_node(t, key)
<1>1. TreeOK(u) /\ Part(t, u)
  BY DEF Sprouted
<1>2. search_node(t, key) = IF search_node(u, key) \in Node(t) THEN search_node(u, key) ELSE Null
  BY <1>1, SearchInPart
<1>. QED
  BY <1>2

LEMMA PrefixTyped ==
  ASSUME NEW key \in Seq(Nat), NEW k \in 0 .. Len(key)
  PROVE  SubSeq(key, 1, k) \in Seq(Nat) /\ Len(SubSeq(key, 1, k)) = k
OBVIOUS

LEMMA ExtendedGrows ==
  ASSUME NEW t, TreeOK(t), Reached(t), NEW key \in Seq(Nat), NEW k \in 1 .. Len(key),
         search_node(t, SubSeq(key, 1, k - 1)) # Null
  PROVE  LET u == Extended(t, SubSeq(key, 1, k - 1), key[k])
         IN  Sprouted(u, t) /\ Reached(u) /\ search_node(u, SubSeq(key, 1, k)) # Null
<1>1. PICK s, j : s = key[k] /\ j = k - 1
  OBVIOUS
<1>2. j \in 0 .. Len(key) /\ k \in 0 .. Len(key) /\ s \in Nat
  BY <1>1
<1>3. PICK p, pp : p = SubSeq(key, 1, j) /\ pp = SubSeq(key, 1, k)
  OBVIOUS
<1>4. p \in Seq(Nat) /\ pp \in Seq(Nat)
  BY <1>2, <1>3, PrefixTyped
<1>5. PICK n, u : n = search_node(t, p) /\ u = Extended(t, p, s)
  OBVIOUS
<1>6. n \in Node(t) /\ n # Null
  BY <1>1, <1>3, <1>4, <1>5, SearchTyped
<1>7. ASSUME NEW v, TreeOK(v) PROVE search_node(v, pp) = IF search_node(v, p) = Null THEN Null ELSE Kid(v, search_node(v, p), s)
  BY <1>1, <1>3, <1>7, SearchStep
<1>8. CASE EdgeIndex(t, n, s) = {}
  <2>1. PICK kid : kid = FreshNode(t)
    OBVIOUS
  <2>2. u = add_kid(t, n, s)
    BY <1>5, <1>8 DEF Extended
  <2>3. Sprouted(u, t) /\ Node(u) = Node(t) \cup {kid} /\ EdgeTo(u, n, s, kid)
    BY <1>2, <1>6, <1>8, <2>1, <2>2, AddKidGrows
  <2>4. TreeOK(u)
    BY <2>3 DEF Sprouted
  <2>5. search_node(u, p) = n
    BY <1>4, <1>5, <1>6, <2>3, GrownFinds
  <2>6. Kid(u, n, s) = kid /\ kid # Null
    <3>1. n \in Node(u) /\ kid \in Node(u)
      BY <1>6, <2>3
    <3>2. Kid(u, n, s) = kid
      BY <2>3, <2>4, <3>1, KidFollows
    <3>. QED
      BY <2>4, <3>1, <3>2, NullIsNoNumber DEF TreeOK
  <2>7. search_node(u, pp) = kid
    BY <1>6, <1>7, <2>4, <2>5, <2>6
  <2>8. ASSUME NEW m \in Node(u) PROVE \E w \in Seq(Nat) : search_node(u, w) = m
    <3>1. CASE m = kid
      BY <1>4, <2>7, <3>1
    <3>2. CASE m \in Node(t)
      <4>1. PICK w \in Seq(Nat) : search_node(t, w) = m
        BY <3>2 DEF Reached
      <4>2. m # Null
        BY <3>2, NullIsNoNumber DEF TreeOK
      <4>3. search_node(u, w) = m
        BY <2>3, <4>1, <4>2, GrownFinds
      <4>. QED
        BY <4>3
    <3>. QED
      BY <2>3, <3>1, <3>2
  <2>9. Reached(u)
    BY <2>8 DEF Reached
  <2>. QED
    BY <1>1, <1>3, <1>5, <2>3, <2>6, <2>7, <2>9
<1>9. CASE EdgeIndex(t, n, s) # {}
  <2>1. u = t
    BY <1>5, <1>9 DEF Extended
  <2>2. Kid(t, n, s) # Null
    BY <1>6, <1>9, KidFollows
  <2>3. search_node(t, pp) # Null
    BY <1>5, <1>6, <1>7, <2>2
  <2>4. Sprouted(t, t)
    BY DEF Sprouted, Part
  <2>. QED
    BY <1>1, <1>3, <1>5, <2>1, <2>3, <2>4
<1>. QED
  BY <1>8, <1>9

Trees == [node : UNION {[N -> NodeRec] : N \in SUBSET Nat}, total : Int, empty : Int]

LEMMA TreesAre == ASSUME NEW t, TreeOK(t) PROVE t \in Trees
<1>1. t.node \in [Node(t) -> NodeRec] /\ Node(t) \in SUBSET Nat
  BY DEF TreeOK
<1>2. t.node \in UNION {[N -> NodeRec] : N \in SUBSET Nat}
  BY <1>1
<1>. QED
  BY <1>2 DEF TreeOK, Trees

(* So far the letters of key up to the k-th lead somewhere.                  *)
GrownFor(u, t, key, k) == Sprouted(u, t) /\ Reached(u) /\ search_node(u, SubSeq(key, 1, k)) # Null

LEMMA GrowsOn ==
  ASSUME NEW t, NEW u, NEW key \in Seq(Nat), NEW k \in 1 .. Len(key), GrownFor(u, t, key, k - 1)
  PROVE  LET v == Extended(u, SubSeq(key, 1, k - 1), key[k]) IN GrownFor(v, t, key, k) /\ v \in Trees
<1>1. PICK v : v = Extended(u, SubSeq(key, 1, k - 1), key[k])
  OBVIOUS
<1>2. TreeOK(u) /\ Sprouted(u, t) /\ Reached(u) /\ search_node(u, SubSeq(key, 1, k - 1)) # Null
  BY DEF GrownFor, Sprouted
<1>3. Sprouted(v, u) /\ Reached(v) /\ search_node(v, SubSeq(key, 1, k)) # Null
  BY <1>1, <1>2, ExtendedGrows
<1>4. Sprouted(v, t) /\ v \in Trees
  BY <1>2, <1>3, GrownTwice, TreesAre DEF Sprouted
<1>. QED
  BY <1>1, <1>3, <1>4 DEF GrownFor

LEMMA InsertGrows ==
  ASSUME NEW t, TreeOK(t), Reached(t), NEW key \in Seq(Nat)
  PROVE  LET u == insert_node(t, key) IN Sprouted(u, t) /\ Reached(u) /\ search_node(u, key) # Null
<1>. DEFINE n == Len(key)
            E(k, g) == Extended(g, SubSeq(key, 1, k - 1), key[k])
            F == [x \in (1 .. n) \X Trees |-> IF E(x[1], x[2]) \in Trees THEN E(x[1], x[2]) ELSE x[2]]
            W(g) == [k \in 0 .. n |-> IF k = 0 THEN t ELSE E(k, g[k - 1])]
<1>1. n \in Nat /\ t \in Trees
  BY TreesAre
<1>2. Steps(Trees, n, F)
  <2>1. ASSUME NEW x \in (1 .. n) \X Trees
        PROVE  (IF E(x[1], x[2]) \in Trees THEN E(x[1], x[2]) ELSE x[2]) \in Trees
    OBVIOUS
  <2>. HIDE DEF E, Trees
  <2>. QED
    BY <2>1 DEF Steps
<1>3. PICK f : Iterated(Trees, t, n, F, f)
  <2>. HIDE DEF F, n
  <2>. QED
    BY <1>1, <1>2, Iterates
<1>4. f \in [0 .. n -> Trees] /\ f[0] = t /\ \A k \in 1 .. n : f[k] = F[<<k, f[k - 1]>>]
  BY <1>3 DEF Iterated
<1>5. \A k \in 0 .. n : k # 0 => k \in 1 .. n /\ k - 1 \in 0 .. n
  BY <1>1
<1>6. \A k \in 1 .. n : k \in 0 .. n /\ k # 0
  BY <1>1
<1>7. GrownFor(t, t, key, 0)
  <2>1. SubSeq(key, 1, 0) = << >>
    OBVIOUS
  <2>2. search_node(t, << >>) = Root /\ Root # Null
    BY SearchTyped, NullIsNoNumber DEF Root
  <2>. QED
    BY <2>1, <2>2 DEF GrownFor, Sprouted, Part
<1>8. ASSUME NEW k \in 1 .. n, NEW u, GrownFor(u, t, key, k - 1)
      PROVE  GrownFor(E(k, u), t, key, k) /\ E(k, u) \in Trees
  BY <1>8, GrowsOn
<1>9. ASSUME NEW k \in 1 .. n, GrownFor(f[k - 1], t, key, k - 1) PROVE f[k] = E(k, f[k - 1])
  <2>1. f[k - 1] \in Trees
    BY <1>4, <1>5, <1>6
  <2>2. <<k, f[k - 1]>> \in (1 .. n) \X Trees
    BY <2>1
  <2>3. f[k] = F[<<k, f[k - 1]>>]
    BY <1>4
  <2>4. E(k, f[k - 1]) \in Trees
    BY <1>8, <1>9
  <2>. HIDE DEF E, Trees
  <2>. QED
    BY <2>2, <2>3, <2>4
<1>10. \A k \in 0 .. n : k \in {i \in 0 .. n : GrownFor(f[i], t, key, i)}
  <2>. DEFINE P == {i \in 0 .. n : GrownFor(f[i], t, key, i)}
  <2>1. 0 \in P
    BY <1>1, <1>4, <1>7
  <2>2. ASSUME NEW k \in 1 .. n, k - 1 \in P PROVE k \in P
    <3>1. GrownFor(f[k - 1], t, key, k - 1)
      BY <2>2
    <3>2. f[k] = E(k, f[k - 1])
      BY <1>9, <3>1
    <3>3. GrownFor(E(k, f[k - 1]), t, key, k)
      BY <1>8, <3>1
    <3>. HIDE DEF E
    <3>. QED
      BY <1>6, <3>2, <3>3
  <2>. HIDE DEF P, n
  <2>3. \A k \in 0 .. n : k \in P
    BY <1>1, <2>1, <2>2, CountUp
  <2>. QED
    BY <2>3 DEF P
<1>11. f = W(f)
  <2>. HIDE DEF E, n
  <2>1. \A k \in 1 .. n : f[k] = E(k, f[k - 1])
    BY <1>5, <1>6, <1>9, <1>10
  <2>2. \A k \in 0 .. n : f[k] = W(f)[k]
    BY <1>4, <1>5, <2>1
  <2>3. f = [k \in 0 .. n |-> f[k]]
    BY <1>4
  <2>. QED
    BY <2>2, <2>3
<1>12. PICK r : r = CHOOSE g : g = W(g)
  OBVIOUS
<1>13. r = W(r)
  BY <1>11, <1>12
<1>14. insert_node(t, key) = r[n]
  BY <1>12 DEF insert_node
<1>15. r[0] = t /\ \A k \in 1 .. n : r[k] = E(k, r[k - 1])
  <2>. HIDE DEF E
  <2>1. 0 \in 0 .. n
    BY <1>1
  <2>. HIDE DEF n
  <2>. QED
    BY <1>6, <1>13, <2>1
<1>16. \A k \in 0 .. n : k \in {i \in 0 .. n : GrownFor(r[i], t, key, i)}
  <2>. DEFINE P == {i \in 0 .. n : GrownFor(r[i], t, key, i)}
  <2>1. 0 \in P
    BY <1>1, <1>7, <1>15
  <2>2. ASSUME NEW k \in 1 .. n, k - 1 \in P PROVE k \in P
    <3>1. GrownFor(r[k - 1], t, key, k - 1)
      BY <2>2
    <3>2. r[k] = E(k, r[k - 1])
      BY <1>15
    <3>3. GrownFor(E(k, r[k - 1]), t, key, k)
      BY <1>8, <3>1
    <3>. HIDE DEF E
    <3>. QED
      BY <1>6, <3>2, <3>3
  <2>. HIDE DEF P, n
  <2>3. \A k \in 0 .. n : k \in P
    BY <1>1, <2>1, <2>2, CountUp
  <2>. QED
    BY <2>3 DEF P
<1>17. GrownFor(r[n], t, key, n)
  <2>. HIDE DEF n
  <2>1. n \in 0 .. n
    BY <1>1
  <2>. QED
    BY <1>16, <2>1
<1>18. SubSeq(key, 1, n) = key
  BY WholeIsPrefix
<1>. HIDE DEF n
<1>. QED
  BY <1>14, <1>17, <1>18 DEF GrownFor

-----------------------------------------------------------------------------

(* What is stored under a word.                                             *)
StoredUnder(t, w) ==
  IF t = NoTrie THEN Null ELSE IF search_node(t, w) = Null THEN Null ELSE t.node[search_node(t, w)].data

(* A tree with data at words only.                                          *)
WellKept(t) ==
  /\ TreeOK(t) /\ Reached(t)
  /\ \A n \in Node(t) : t.node[n].data # Null => \E w \in Word : search_node(t, w) = n

(* A caller holds the node of a word.                                       *)
RefOK(t, r) == r # Null => t # NoTrie /\ r \in Node(t) /\ \E w \in Word : search_node(t, w) = r

TreeInv == (trie = NoTrie \/ WellKept(trie)) /\ RefOK(trie, ref) /\ freed \subseteq Datum

LEMMA NoTrieIsEmpty == Node(NoTrie) = {} /\ DataOf(NoTrie) = {} /\ \A t : TreeOK(t) => t # NoTrie
<1>1. Node(NoTrie) = {}
  BY DEF NoTrie, Node
<1>2. DataOf(NoTrie) = {}
  BY <1>1 DEF DataOf
<1>. QED
  BY <1>1, <1>2 DEF TreeOK

LEMMA WordsAre == ASSUME NEW w \in Word PROVE w \in Seq(Nat) /\ w # << >> /\ w # Null /\ Len(w) \in Nat \ {0}
BY TreeAssumption

(* The data are those stored under words.                                   *)
LEMMA DataAre ==
  ASSUME NEW t, t = NoTrie \/ WellKept(t)
  PROVE  \A x : x \in DataOf(t) <=> x # Null /\ \E w \in Word : StoredUnder(t, w) = x
<1>1. CASE t = NoTrie
  BY <1>1, NoTrieIsEmpty DEF StoredUnder
<1>2. CASE WellKept(t)
  <2>1. TreeOK(t) /\ t # NoTrie
    BY <1>2, NoTrieIsEmpty DEF WellKept
  <2>2. ASSUME NEW x, x \in DataOf(t) PROVE x # Null /\ \E w \in Word : StoredUnder(t, w) = x
    <3>1. PICK n \in Node(t) : t.node[n].data = x /\ x # Null
      BY <2>2 DEF DataOf
    <3>2. PICK w \in Word : search_node(t, w) = n
      BY <1>2, <3>1 DEF WellKept
    <3>3. n # Null
      BY <2>1, NullIsNoNumber DEF TreeOK
    <3>. QED
      BY <2>1, <3>1, <3>2, <3>3 DEF StoredUnder
  <2>3. ASSUME NEW w \in Word, StoredUnder(t, w) # Null PROVE StoredUnder(t, w) \in DataOf(t)
    <3>1. PICK n : n = search_node(t, w)
      OBVIOUS
    <3>2. n # Null /\ StoredUnder(t, w) = t.node[n].data
      BY <2>1, <2>3, <3>1 DEF StoredUnder
    <3>3. n \in Node(t) /\ n # Root
      BY <2>1, <3>1, <3>2, SearchTyped, WordsAre
    <3>. QED
      BY <2>3, <3>2, <3>3 DEF DataOf
  <2>. QED
    BY <2>2, <2>3
<1>. QED
  BY <1>1, <1>2

(* A lookup finds a tree, or makes one with a root only.                      *)
LEMMA RootedIs ==
  ASSUME trie = NoTrie \/ WellKept(trie), NEW t \in Rooted
  PROVE  /\ WellKept(t) /\ t # NoTrie /\ (trie # NoTrie => t = trie)
         /\ \A w \in Word : StoredUnder(t, w) = StoredUnder(trie, w)
<1>1. CASE trie # NoTrie
  <2>1. t = trie
    BY <1>1 DEF Rooted
  <2>. QED
    BY <1>1, <2>1
<1>2. CASE trie = NoTrie
  <2>1. PICK a, b \in Malloced : t = [node |-> [n \in {Root} |-> NewTreeNode(Null)], total |-> a, empty |-> b]
    BY <1>2 DEF Rooted
  <2>2. Node(t) = {Root} /\ t.node[Root] = NewTreeNode(Null) /\ t.total = a /\ t.empty = b
        /\ t.node = [n \in {Root} |-> NewTreeNode(Null)]
    BY <2>1 DEF Node
  <2>3. a \in Int /\ b \in Int
    BY TreeAssumption
  <2>4. /\ t.node[Root] \in NodeRec /\ InOrder(t.node[Root].edge) /\ DOMAIN t.node[Root].edge = {}
        /\ t.node[Root].parent = Null /\ t.node[Root].data = Null
    BY <2>2 DEF NewTreeNode, NodeRec, InOrder
  <2>5. \A s, k : ~ EdgeTo(t, Root, s, k)
    BY <2>4 DEF EdgeTo
  <2>6. Node(t) \subseteq Nat /\ IsFiniteSet(Node(t))
    <3>1. IsFiniteSet({Root})
      BY FS_Singleton
    <3>2. {Root} \subseteq Nat
      BY DEF Root
    <3>. QED
      BY <2>2, <3>1, <3>2
  <2>7. t = [node |-> t.node, total |-> t.total, empty |-> t.empty] /\ t.node = [n \in Node(t) |-> t.node[n]]
    BY <2>1, <2>2
  <2>8. TreeOK(t)
    BY <2>2, <2>3, <2>4, <2>5, <2>6, <2>7 DEF TreeOK
  <2>9. << >> \in Seq(Nat) /\ search_node(t, << >>) = Root
    <3>1. << >> \in Seq(Nat)
      OBVIOUS
    <3>. QED
      BY <2>8, <3>1, SearchTyped
  <2>10. Reached(t)
    BY <2>2, <2>9 DEF Reached
  <2>11. WellKept(t)
    BY <2>2, <2>4, <2>8, <2>10 DEF WellKept
  <2>12. ASSUME NEW w \in Word PROVE StoredUnder(t, w) = Null
    <3>1. search_node(t, w) = Null
      BY <2>2, <2>8, WordsAre, SearchTyped
    <3>. QED
      BY <3>1 DEF StoredUnder
  <2>13. t # NoTrie
    BY <2>8, NoTrieIsEmpty
  <2>. QED
    BY <1>2, <2>11, <2>12, <2>13 DEF StoredUnder
<1>. QED
  BY <1>1, <1>2

(* A tree that grows stores what it stored.                                 *)
LEMMA GrownStores ==
  ASSUME NEW t, WellKept(t), NEW u, Sprouted(u, t), Reached(u)
  PROVE  WellKept(u) /\ u # NoTrie /\ \A w \in Word : StoredUnder(u, w) = StoredUnder(t, w)
<1>1. TreeOK(t) /\ TreeOK(u) /\ t # NoTrie /\ u # NoTrie
  BY NoTrieIsEmpty DEF WellKept, Sprouted
<1>2. /\ Node(t) \subseteq Node(u)
      /\ \A n \in Node(t) : u.node[n].data = t.node[n].data
      /\ \A n \in Node(u) : n \notin Node(t) => u.node[n].data = Null
  BY DEF Sprouted, Part
<1>3. Null \notin Node(t) /\ Null \notin Node(u)
  BY <1>1, NullIsNoNumber DEF TreeOK
<1>4. ASSUME NEW w \in Word PROVE StoredUnder(u, w) = StoredUnder(t, w)
  <2>1. w \in Seq(Nat)
    BY WordsAre
  <2>2. search_node(u, w) \in Node(u) \cup {Null} /\ search_node(t, w) \in Node(t) \cup {Null}
    BY <1>1, <2>1, SearchTyped
  <2>3. Part(t, u)
    BY DEF Sprouted
  <2>4. search_node(t, w) = IF search_node(u, w) \in Node(t) THEN search_node(u, w) ELSE Null
    BY <1>1, <2>1, <2>3, SearchInPart
  <2>. QED
    BY <1>1, <1>2, <1>3, <2>2, <2>4 DEF StoredUnder
<1>5. ASSUME NEW n \in Node(u), u.node[n].data # Null PROVE \E w \in Word : search_node(u, w) = n
  <2>1. n \in Node(t) /\ t.node[n].data # Null
    BY <1>2, <1>5
  <2>2. PICK w \in Word : search_node(t, w) = n
    BY <2>1 DEF WellKept
  <2>3. search_node(u, w) = n
    BY <1>1, <1>3, <2>1, <2>2, WordsAre, GrownFinds
  <2>. QED
    BY <2>3
<1>. QED
  BY <1>1, <1>4, <1>5 DEF WellKept

(* One that shrinks stores what is not under a word that goes.                *)
LEMMA ShrunkStores ==
  ASSUME NEW t, WellKept(t), NEW gone, NEW u, Shrunk(u, t, gone)
  PROVE  /\ WellKept(u) /\ u # NoTrie
         /\ \A w \in Seq(Nat) : search_node(u, w) = IF search_node(t, w) \in Node(u) THEN search_node(t, w) ELSE Null
         /\ \A w \in Word : StoredUnder(u, w) = IF search_node(t, w) \in gone THEN Null ELSE StoredUnder(t, w)
<1>1. TreeOK(t) /\ TreeOK(u) /\ t # NoTrie /\ u # NoTrie /\ Part(u, t)
  BY NoTrieIsEmpty DEF WellKept, Shrunk
<1>2. Node(u) = Node(t) \ gone /\ \A n \in Node(u) : u.node[n].data = t.node[n].data
  BY DEF Shrunk
<1>3. Null \notin Node(t) /\ Null \notin Node(u)
  BY <1>1, NullIsNoNumber DEF TreeOK
<1>4. ASSUME NEW w \in Seq(Nat)
      PROVE  search_node(u, w) = IF search_node(t, w) \in Node(u) THEN search_node(t, w) ELSE Null
  BY <1>1, SearchInPart
<1>5. ASSUME NEW w \in Word
      PROVE  StoredUnder(u, w) = IF search_node(t, w) \in gone THEN Null ELSE StoredUnder(t, w)
  <2>1. w \in Seq(Nat)
    BY WordsAre
  <2>2. search_node(t, w) \in Node(t) \cup {Null}
    BY <1>1, <2>1, SearchTyped
  <2>3. search_node(u, w) = IF search_node(t, w) \in Node(u) THEN search_node(t, w) ELSE Null
    BY <1>4, <2>1
  <2>. QED
    BY <1>1, <1>2, <1>3, <2>2, <2>3 DEF StoredUnder
<1>6. ASSUME NEW n \in Node(u) PROVE \E w \in Seq(Nat) : search_node(u, w) = n
  <2>1. PICK w \in Seq(Nat) : search_node(t, w) = n
    BY <1>2 DEF WellKept, Reached
  <2>. QED
    BY <1>4, <2>1
<1>7. ASSUME NEW n \in Node(u), u.node[n].data # Null PROVE \E w \in Word : search_node(u, w) = n
  <2>1. PICK w \in Word : search_node(t, w) = n
    BY <1>2, <1>7 DEF WellKept
  <2>. QED
    BY <1>4, <2>1, WordsAre
<1>. QED
  BY <1>1, <1>4, <1>5, <1>6, <1>7 DEF WellKept, Reached

(* A caller's reference to a node that goes is forgotten.                    *)
LEMMA ShrunkRef ==
  ASSUME NEW t, WellKept(t), NEW gone, NEW u, Shrunk(u, t, gone), NEW r, RefOK(t, r)
  PROVE  RefOK(u, IF r \in Node(u) THEN r ELSE Null)
<1>1. CASE r \in Node(u) /\ r # Null
  <2>1. PICK w \in Word : search_node(t, w) = r
    BY <1>1 DEF RefOK
  <2>2. u # NoTrie /\ search_node(u, w) = r
    BY <1>1, <2>1, WordsAre, ShrunkStores
  <2>. QED
    BY <1>1, <2>2 DEF RefOK
<1>2. CASE ~ (r \in Node(u) /\ r # Null)
  BY <1>2 DEF RefOK
<1>. QED
  BY <1>1, <1>2

(* What a caller finds is the node of a word.                               *)
LEMMA FoundRef ==
  ASSUME NEW t, WellKept(t), NEW w \in Word
  PROVE  RefOK(t, search_node(t, w))
<1>1. TreeOK(t) /\ t # NoTrie
  BY NoTrieIsEmpty DEF WellKept
<1>2. search_node(t, w) \in Node(t) \cup {Null}
  BY <1>1, WordsAre, SearchTyped
<1>. QED
  BY <1>1, <1>2 DEF RefOK

-----------------------------------------------------------------------------

DataSet(t, u, r, d, e) == u = [t EXCEPT !.node[r].data = d, !.empty = e]

DataStored(t, u, v, d) ==
  /\ WellKept(u) /\ u # NoTrie /\ Node(u) = Node(t)
  /\ \A w \in Seq(Nat) : search_node(u, w) = search_node(t, w)
  /\ \A w \in Word : StoredUnder(u, w) = IF w = v THEN d ELSE StoredUnder(t, w)

(* A datum is stored where the caller is.                                   *)
LEMMA SetStores ==
  ASSUME NEW t, WellKept(t), NEW r \in Node(t) \ {Root}, NEW d \in Datum \cup {Null},
         NEW e \in Int, NEW v \in Word, search_node(t, v) = r,
         NEW u, DataSet(t, u, r, d, e)
  PROVE  DataStored(t, u, v, d)
<1>1. u = [t EXCEPT !.node[r].data = d, !.empty = e]
  BY DEF DataSet
<1>2. TreeOK(t) /\ t # NoTrie /\ Reached(t)
  BY NoTrieIsEmpty DEF WellKept
<1>3. /\ t = [node |-> t.node, total |-> t.total, empty |-> t.empty]
      /\ t.node = [n \in Node(t) |-> t.node[n]]
  BY <1>2 DEF TreeOK
<1>4. /\ u.node = [n \in Node(t) |-> IF n = r THEN [t.node[r] EXCEPT !.data = d] ELSE t.node[n]]
      /\ u.total = t.total /\ u.empty = e
      /\ u = [node |-> u.node, total |-> u.total, empty |-> u.empty]
  BY <1>1, <1>3
<1>5. Node(u) = Node(t)
  BY <1>4 DEF Node
<1>6. ASSUME NEW n \in Node(t)
      PROVE  /\ u.node[n] \in NodeRec /\ u.node[n].edge = t.node[n].edge /\ u.node[n].parent = t.node[n].parent
             /\ u.node[n].data = IF n = r THEN d ELSE t.node[n].data
  <2>1. t.node[n] \in NodeRec
    BY <1>2 DEF TreeOK
  <2>2. u.node[n] = IF n = r THEN [t.node[n] EXCEPT !.data = d] ELSE t.node[n]
    BY <1>4
  <2>. QED
    BY <2>1, <2>2 DEF NodeRec
<1>7. \A n \in Node(t) : \A s, k : EdgeTo(u, n, s, k) <=> EdgeTo(t, n, s, k)
  BY <1>6 DEF EdgeTo
<1>8. \A n \in Node(t) : Parent(u, n) = Parent(t, n)
  BY <1>6 DEF Parent
<1>9. u.node = [n \in Node(u) |-> u.node[n]] /\ u.total \in Int /\ u.empty \in Int
  BY <1>2, <1>4, <1>5 DEF TreeOK
<1>10. u.node[Root].parent = Null /\ u.node[Root].data = Null
  BY <1>2, <1>6 DEF TreeOK
<1>11. \A n \in Node(u) : u.node[n] \in NodeRec /\ InOrder(u.node[n].edge)
  BY <1>2, <1>5, <1>6 DEF TreeOK
<1>12. \A n \in Node(u) : \A s, k : EdgeTo(u, n, s, k) => k \in Node(u) /\ Parent(u, k) = n
  <2>1. ASSUME NEW n \in Node(u), NEW a, NEW k, EdgeTo(u, n, a, k) PROVE k \in Node(u) /\ Parent(u, k) = n
    <3>1. EdgeTo(t, n, a, k)
      BY <1>5, <1>7, <2>1
    <3>2. k \in Node(t) /\ Parent(t, k) = n
      BY <1>2, <1>5, <3>1 DEF TreeOK
    <3>. QED
      BY <1>5, <1>8, <3>2
  <2>. QED
    BY <2>1
<1>13. ASSUME NEW n \in Node(u) \ {Root}
       PROVE  Parent(u, n) \in Node(u) /\ \E s \in Nat : EdgeTo(u, Parent(u, n), s, n)
  <2>1. Parent(t, n) \in Node(t) /\ \E s \in Nat : EdgeTo(t, Parent(t, n), s, n)
    BY <1>2, <1>5 DEF TreeOK
  <2>. QED
    BY <1>5, <1>7, <1>8, <2>1
<1>14. TreeOK(u)
  <2>1. Node(u) \subseteq Nat /\ IsFiniteSet(Node(u)) /\ Root \in Node(u)
    BY <1>2, <1>5 DEF TreeOK
  <2>. QED
    BY <1>4, <1>9, <1>10, <1>11, <1>12, <1>13, <2>1 DEF TreeOK
<1>15. Part(u, t)
  BY <1>5, <1>7 DEF Part
<1>16. ASSUME NEW w \in Seq(Nat) PROVE search_node(u, w) = search_node(t, w)
  <2>1. search_node(t, w) \in Node(t) \cup {Null}
    BY <1>2, SearchTyped
  <2>2. search_node(u, w) = IF search_node(t, w) \in Node(u) THEN search_node(t, w) ELSE Null
    BY <1>2, <1>14, <1>15, SearchInPart
  <2>. QED
    BY <1>5, <2>1, <2>2
<1>17. u # NoTrie
  BY <1>14, NoTrieIsEmpty
<1>18. Reached(u)
  BY <1>2, <1>5, <1>16 DEF Reached
<1>19. ASSUME NEW n \in Node(u), u.node[n].data # Null PROVE \E w \in Word : search_node(u, w) = n
  <2>1. CASE n = r
    <3>1. search_node(u, v) = r
      BY <1>16, WordsAre
    <3>. QED
      BY <2>1, <3>1
  <2>2. CASE n # r
    <3>1. PICK w \in Word : search_node(t, w) = n
      BY <1>5, <1>6, <1>19, <2>2 DEF WellKept
    <3>2. search_node(u, w) = n
      BY <1>16, <3>1, WordsAre
    <3>. QED
      BY <3>2
  <2>. QED
    BY <2>1, <2>2
<1>20. WellKept(u)
  BY <1>14, <1>18, <1>19 DEF WellKept
<1>21. ASSUME NEW w \in Word PROVE StoredUnder(u, w) = IF w = v THEN d ELSE StoredUnder(t, w)
  <2>1. w \in Seq(Nat) /\ v \in Seq(Nat)
    BY WordsAre
  <2>2. PICK n : n = search_node(t, w)
    OBVIOUS
  <2>3. n \in Node(t) \cup {Null} /\ search_node(u, w) = n
    BY <1>2, <1>16, <2>1, <2>2, SearchTyped
  <2>4. r # Null
    BY <1>2, NullIsNoNumber DEF TreeOK
  <2>5. n = r <=> w = v
    BY <1>2, <2>1, <2>2, <2>4, SearchDiffers
  <2>6. StoredUnder(u, w) = IF n = Null THEN Null ELSE u.node[n].data
    BY <1>17, <2>3 DEF StoredUnder
  <2>7. StoredUnder(t, w) = IF n = Null THEN Null ELSE t.node[n].data
    BY <1>2, <2>2 DEF StoredUnder
  <2>. QED
    BY <1>6, <2>3, <2>4, <2>5, <2>6, <2>7
<1>. QED
  BY <1>5, <1>16, <1>17, <1>20, <1>21 DEF DataStored

(* The way along a stem, from its first node.                               *)
Stem(t, n, f) ==
  /\ f \in [0 .. Cardinality(Node(t)) -> Node(t) \ {Root}]
  /\ f[0] = n
  /\ \A k \in 1 .. Cardinality(Node(t)) :
       f[k] = IF Len(t.node[f[k - 1]].edge) = 1 THEN t.node[f[k - 1]].edge[1].kid ELSE f[k - 1]

LEMMA StemFound ==
  ASSUME NEW t, TreeOK(t), NEW n \in Node(t) \ {Root}
  PROVE  \E f : Stem(t, n, f) /\ StemEnd(t, n) = f[Cardinality(Node(t))]
<1>. DEFINE S == Node(t) \ {Root}
            c == Cardinality(Node(t))
            E(g) == IF Len(t.node[g].edge) = 1 THEN t.node[g].edge[1].kid ELSE g
            F == [x \in (1 .. c) \X S |-> E(x[2])]
            W(g) == [k \in 0 .. c |-> IF k = 0 THEN n ELSE E(g[k - 1])]
<1>1. c \in Nat
  BY FS_CardinalityType DEF TreeOK
<1>2. ASSUME NEW m \in S PROVE E(m) \in S
  <2>1. CASE Len(t.node[m].edge) = 1
    <3>1. t.node[m].edge \in Seq(EdgeRec)
      BY DEF TreeOK, NodeRec
    <3>2. 1 \in DOMAIN t.node[m].edge
      BY <2>1, <3>1
    <3>3. EdgeTo(t, m, t.node[m].edge[1].s, t.node[m].edge[1].kid)
      BY <3>2 DEF EdgeTo
    <3>. QED
      BY <2>1, <3>3, EdgesDiffer
  <2>. QED
    BY <2>1
<1>3. Steps(S, c, F)
  <2>. HIDE DEF E, S
  <2>1. \A x \in (1 .. c) \X S : E(x[2]) \in S
    BY <1>2
  <2>. QED
    BY <2>1 DEF Steps
<1>4. PICK f : Iterated(S, n, c, F, f)
  <2>. HIDE DEF F, c
  <2>. QED
    BY <1>1, <1>3, Iterates
<1>5. f \in [0 .. c -> S] /\ f[0] = n /\ \A k \in 1 .. c : f[k] = F[<<k, f[k - 1]>>]
  BY <1>4 DEF Iterated
<1>6. \A k \in 0 .. c : k # 0 => k \in 1 .. c /\ k - 1 \in 0 .. c
  BY <1>1
<1>7. \A k \in 1 .. c : k \in 0 .. c /\ k # 0
  BY <1>1
<1>8. ASSUME NEW k \in 1 .. c PROVE f[k] = E(f[k - 1])
  <2>1. f[k - 1] \in S
    BY <1>5, <1>6, <1>7
  <2>2. <<k, f[k - 1]>> \in (1 .. c) \X S
    BY <2>1
  <2>3. f[k] = F[<<k, f[k - 1]>>]
    BY <1>5
  <2>. HIDE DEF E, S
  <2>. QED
    BY <2>2, <2>3
<1>9. f = W(f)
  <2>. HIDE DEF E
  <2>1. \A k \in 0 .. c : f[k] = W(f)[k]
    BY <1>5, <1>6, <1>8
  <2>2. f = [k \in 0 .. c |-> f[k]]
    BY <1>5
  <2>. QED
    BY <2>1, <2>2
<1>10. PICK r : r = CHOOSE g : g = W(g)
  BY SMTT(30)
<1>11. r = W(r)
  BY <1>9, <1>10
<1>12. StemEnd(t, n) = r[c]
  BY <1>10 DEF StemEnd
<1>13. r = [k \in 0 .. c |-> r[k]] /\ r[0] = n /\ \A k \in 1 .. c : r[k] = E(r[k - 1])
  <2>1. 0 \in 0 .. c
    BY <1>1
  <2>. HIDE DEF c, E
  <2>. QED
    BY <1>7, <1>11, <2>1
<1>14. \A k \in 0 .. c : k \in {i \in 0 .. c : r[i] \in S}
  <2>. DEFINE P == {i \in 0 .. c : r[i] \in S}
  <2>1. 0 \in P
    BY <1>1, <1>13
  <2>2. ASSUME NEW k \in 1 .. c, k - 1 \in P PROVE k \in P
    <3>1. r[k - 1] \in S /\ r[k] = E(r[k - 1]) /\ k \in 0 .. c
      BY <1>7, <1>13, <2>2
    <3>. HIDE DEF E, S
    <3>. QED
      BY <1>2, <3>1
  <2>. HIDE DEF P, c
  <2>3. \A k \in 0 .. c : k \in P
    BY <1>1, <2>1, <2>2, CountUp
  <2>. QED
    BY <2>3 DEF P
<1>15. r \in [0 .. c -> S]
  BY <1>13, <1>14
<1>. QED
  BY <1>12, <1>13, <1>15 DEF Stem

(* The first nodes of the stems, and their ends.                             *)
Stems(t) == {t.node[Root].edge[i].kid : i \in DOMAIN t.node[Root].edge}

StemEnds(t) == {StemEnd(t, n) : n \in Stems(t)}

LEMMA TrimmedShrinks ==
  ASSUME NEW t, TreeOK(t)
  PROVE  /\ Stems(t) \subseteq Node(t) \ {Root} /\ StemEnds(t) \subseteq Node(t) \ {Root}
         /\ Trimmed(t) = del_nodes(t, Below(t, StemEnds(t)))
         /\ Shrunk(Trimmed(t), t, Below(t, StemEnds(t)))
<1>1. ASSUME NEW n \in Stems(t) PROVE n \in Node(t) \ {Root}
  <2>1. PICK i \in DOMAIN t.node[Root].edge : n = t.node[Root].edge[i].kid
    BY DEF Stems
  <2>2. EdgeTo(t, Root, t.node[Root].edge[i].s, n) /\ Root \in Node(t)
    BY <2>1 DEF EdgeTo, TreeOK
  <2>. QED
    BY <2>2, EdgesDiffer
<1>2. ASSUME NEW n \in Stems(t) PROVE StemEnd(t, n) \in Node(t) \ {Root}
  <2>1. PICK c : c = Cardinality(Node(t))
    OBVIOUS
  <2>2. PICK f : f \in [0 .. c -> Node(t) \ {Root}] /\ StemEnd(t, n) = f[c]
    BY <1>1, <2>1, StemFound DEF Stem
  <2>3. c \in Nat
    BY <2>1, FS_CardinalityType DEF TreeOK
  <2>. QED
    BY <2>2, <2>3
<1>3. StemEnds(t) \subseteq Node(t) \ {Root}
  BY <1>2 DEF StemEnds
<1>4. Trimmed(t) = del_nodes(t, Below(t, StemEnds(t)))
  BY DEF Trimmed, trim_below, StemEnds, Stems
<1>5. Closed(t, Below(t, StemEnds(t)))
  BY <1>3, BelowIs
<1>6. Shrunk(del_nodes(t, Below(t, StemEnds(t))), t, Below(t, StemEnds(t)))
  BY <1>5, DeletionShrinks
<1>. QED
  BY <1>1, <1>3, <1>4, <1>6

LEMMA CutTyped ==
  ASSUME NEW t, TreeOK(t)
  PROVE  Below(t, StemEnds(t)) \subseteq Node(t)
<1>1. StemEnds(t) \in SUBSET Node(t)
  BY TrimmedShrinks
<1>. QED
  BY <1>1, BelowIs DEF Closed

LEMMA CutShrinks ==
  ASSUME NEW t, TreeOK(t), NEW n \in Node(t)
  PROVE  Shrunk(cut_branch(t, n), t, Falls(t, n))
<1>1. Closed(t, Falls(t, n))
  BY FallsIsClosed
<1>. QED
  BY <1>1, DeletionShrinks DEF cut_branch

-----------------------------------------------------------------------------

(* The same is stored under each word.                                       *)
SameStored(t, u) == \A w \in Word : StoredUnder(u, w) = StoredUnder(t, w)

LEMMA DataTyped ==
  ASSUME NEW t, t = NoTrie \/ WellKept(t)
  PROVE  DataOf(t) \subseteq Datum
<1>1. CASE t = NoTrie
  BY <1>1, NoTrieIsEmpty
<1>2. CASE WellKept(t)
  BY <1>2 DEF WellKept, TreeOK, NodeRec, DataOf
<1>. QED
  BY <1>1, <1>2

LEMMA SameData ==
  ASSUME NEW t, NEW u, t = NoTrie \/ WellKept(t), u = NoTrie \/ WellKept(u), SameStored(t, u)
  PROVE  DataOf(u) = DataOf(t)
<1>1. \A x : x \in DataOf(t) <=> x # Null /\ \E w \in Word : StoredUnder(t, w) = x
  BY DataAre
<1>2. \A x : x \in DataOf(u) <=> x # Null /\ \E w \in Word : StoredUnder(u, w) = x
  BY DataAre
<1>3. \A x : x \in DataOf(u) <=> x \in DataOf(t)
  BY <1>1, <1>2 DEF SameStored
<1>. QED
  BY <1>3

LEMMA InitHolds == TreeInit => TreeInv /\ DataOf(trie) = {}
BY NoTrieIsEmpty DEF TreeInit, TreeInv, RefOK

(* pt_get and pt_add change nothing that is stored.                          *)
LEMMA LookupDoes ==
  ASSUME TreeInv, NEW key \in Word, pt_get(key) \/ pt_add(key) \/ pt_add_fails(key)
  PROVE  TreeInv' /\ SameStored(trie, trie') /\ freed' = freed
<1>1. trie = NoTrie \/ WellKept(trie)
  BY DEF TreeInv
<1>2. freed' = freed /\ freed \subseteq Datum
  BY DEF pt_get, pt_add, pt_add_fails, TreeInv
<1>3. key \in Seq(Nat) /\ Len(key) \in Nat
  BY WordsAre
<1>4. ASSUME NEW t \in Rooted, NEW w \in Seq(Nat)
      PROVE  WellKept(insert_node(t, w)) /\ SameStored(trie, insert_node(t, w))
  <2>1. WellKept(t) /\ SameStored(trie, t)
    BY <1>1, RootedIs DEF SameStored
  <2>2. TreeOK(t) /\ Reached(t)
    BY <2>1 DEF WellKept
  <2>3. PICK u : u = insert_node(t, w)
    OBVIOUS
  <2>4. Sprouted(u, t) /\ Reached(u)
    BY <2>2, <2>3, InsertGrows
  <2>5. WellKept(u) /\ SameStored(t, u)
    BY <2>1, <2>4, GrownStores DEF SameStored
  <2>. QED
    BY <2>1, <2>3, <2>5 DEF SameStored
<1>5. CASE pt_get(key)
  <2>1. PICK u : u = trie'
    OBVIOUS
  <2>2. u \in Rooted /\ ref' = search_node(u, key)
    BY <1>5, <2>1 DEF pt_get
  <2>3. WellKept(u) /\ SameStored(trie, u)
    BY <1>1, <2>2, RootedIs DEF SameStored
  <2>4. RefOK(u, search_node(u, key))
    BY <2>3, FoundRef
  <2>. QED
    BY <1>2, <2>1, <2>2, <2>3, <2>4 DEF TreeInv
<1>6. CASE pt_add(key)
  <2>1. PICK u : u = trie'
    OBVIOUS
  <2>2. PICK t \in Rooted : u = insert_node(t, key)
    BY <1>6, <2>1 DEF pt_add
  <2>3. WellKept(u) /\ SameStored(trie, u)
    BY <1>3, <1>4, <2>2
  <2>4. RefOK(u, search_node(u, key))
    BY <2>3, FoundRef
  <2>5. ref' = search_node(u, key)
    BY <1>6, <2>1 DEF pt_add
  <2>. QED
    BY <1>2, <2>1, <2>3, <2>4, <2>5 DEF TreeInv
<1>7. CASE pt_add_fails(key)
  <2>1. PICK u : u = trie'
    OBVIOUS
  <2>2. ref' = Null
    BY <1>7 DEF pt_add_fails
  <2>3. CASE trie' = trie
    BY <1>1, <1>2, <2>2, <2>3 DEF TreeInv, RefOK, SameStored
  <2>4. CASE trie' # trie
    <3>1. PICK t \in Rooted, k \in 0 .. Len(key) - 1 : u = insert_node(t, SubSeq(key, 1, k))
      BY <1>7, <2>1, <2>4 DEF pt_add_fails
    <3>2. k \in 0 .. Len(key)
      BY <1>3
    <3>3. SubSeq(key, 1, k) \in Seq(Nat)
      BY <1>3, <3>2, PrefixTyped
    <3>4. WellKept(u) /\ SameStored(trie, u)
      BY <1>4, <3>1, <3>3
    <3>. QED
      BY <1>2, <2>1, <2>2, <3>4 DEF TreeInv, RefOK
  <2>. QED
    BY <2>3, <2>4
<1>. QED
  BY <1>5, <1>6, <1>7

(* pt_set changes what is stored under the word where the caller is.          *)
LEMMA SetDoes ==
  ASSUME TreeInv, NEW d \in Datum \cup {Null}, pt_set(d)
  PROVE  /\ TreeInv' /\ ref' = ref /\ ref # Null /\ freed' = freed \ {d} /\ d \notin DataOf(trie) \ freed
         /\ trie # NoTrie /\ trie' # NoTrie
         /\ \A w \in Seq(Nat) : search_node(trie', w) = search_node(trie, w)
         /\ \A w \in Word : StoredUnder(trie', w) = IF search_node(trie, w) = ref THEN d ELSE StoredUnder(trie, w)
<1>1. PICK t, u, r : t = trie /\ u = trie' /\ r = ref
  OBVIOUS
<1>2. ref' = ref /\ r # Null /\ freed' = freed \ {d} /\ d \notin DataOf(t) \ freed
  BY <1>1 DEF pt_set
<1>3. PICK e : e = EmptyAfterSet(trie.node[ref].data, d)
  OBVIOUS
<1>4. u = [t EXCEPT !.node[r].data = d, !.empty = e]
  BY <1>1, <1>3 DEF pt_set
<1>5. t # NoTrie /\ r \in Node(t) /\ WellKept(t)
  BY <1>1, <1>2 DEF TreeInv, RefOK
<1>6. PICK v \in Word : search_node(t, v) = r
  BY <1>1, <1>2 DEF TreeInv, RefOK
<1>7. TreeOK(t)
  BY <1>5 DEF WellKept
<1>8. r # Root
  BY <1>6, <1>7, SearchTyped, WordsAre
<1>9. e \in Int
  <2>1. t.empty \in Int
    BY <1>7 DEF TreeOK
  <2>. QED
    BY <1>1, <1>3, <2>1 DEF EmptyAfterSet
<1>10. /\ WellKept(u) /\ u # NoTrie /\ Node(u) = Node(t)
       /\ \A w \in Seq(Nat) : search_node(u, w) = search_node(t, w)
       /\ \A w \in Word : StoredUnder(u, w) = IF w = v THEN d ELSE StoredUnder(t, w)
  <2>1. r \in Node(t) \ {Root}
    BY <1>5, <1>8
  <2>2. DataSet(t, u, r, d, e)
    BY <1>4 DEF DataSet
  <2>3. DataStored(t, u, v, d)
    BY <1>5, <1>6, <1>9, <2>1, <2>2, SetStores
  <2>. QED
    BY <2>3 DEF DataStored
<1>11. ASSUME NEW w \in Word PROVE search_node(t, w) = r <=> w = v
  BY <1>2, <1>6, <1>7, WordsAre, SearchDiffers
<1>12. RefOK(u, r)
  <2>1. search_node(u, v) = r
    BY <1>6, <1>10, WordsAre
  <2>. QED
    BY <1>5, <1>10, <2>1 DEF RefOK
<1>13. TreeInv'
  BY <1>1, <1>2, <1>10, <1>12 DEF TreeInv
<1>14. \A w \in Word : StoredUnder(u, w) = IF search_node(t, w) = r THEN d ELSE StoredUnder(t, w)
  BY <1>10, <1>11
<1>. QED
  BY <1>1, <1>2, <1>5, <1>10, <1>13, <1>14

(* pt_del cuts nodes at which nothing is stored, and destroys what is at key.  *)
LEMMA DelDoes ==
  ASSUME TreeInv, NEW key \in Word, pt_del(key)
  PROVE  /\ TreeInv' /\ SameStored(trie, trie') /\ trie # NoTrie /\ trie' # NoTrie
         /\ ref' = IF ref \in Node(trie') THEN ref ELSE Null
         /\ \A w \in Seq(Nat) : search_node(trie', w) \in {search_node(trie, w), Null}
         /\ freed' = freed \cup ({StoredAt(key)} \ {Null})
<1>1. PICK t, u, r, n : t = trie /\ u = trie' /\ r = ref /\ n = search_node(t, key)
  OBVIOUS
<1>2. /\ t # NoTrie /\ n # Null /\ u = cut_branch(t, n)
      /\ freed' = freed \cup ({t.node[n].data} \ {Null}) /\ ref' = IF r \in Node(u) THEN r ELSE Null
  BY <1>1 DEF pt_del, KeptRef
<1>3. WellKept(t) /\ TreeOK(t) /\ RefOK(t, r) /\ freed \subseteq Datum
  BY <1>1, <1>2 DEF TreeInv, WellKept
<1>4. n \in Node(t)
  BY <1>1, <1>2, <1>3, SearchTyped, WordsAre
<1>5. PICK gone : gone = Falls(t, n)
  OBVIOUS
<1>6. Shrunk(u, t, gone) /\ \A k \in gone : t.node[k].data = Null
  BY <1>2, <1>3, <1>4, <1>5, CutShrinks, FallsIsClosed
<1>7. /\ WellKept(u) /\ u # NoTrie
      /\ \A w \in Seq(Nat) : search_node(u, w) = IF search_node(t, w) \in Node(u) THEN search_node(t, w) ELSE Null
      /\ \A w \in Word : StoredUnder(u, w) = IF search_node(t, w) \in gone THEN Null ELSE StoredUnder(t, w)
  BY <1>3, <1>6, ShrunkStores
<1>8. SameStored(t, u)
  BY <1>2, <1>6, <1>7 DEF SameStored, StoredUnder
<1>9. RefOK(u, IF r \in Node(u) THEN r ELSE Null)
  BY <1>3, <1>6, ShrunkRef
<1>10. t.node[n].data \in Datum \cup {Null}
  BY <1>3, <1>4 DEF TreeOK, NodeRec
<1>11. freed' \subseteq Datum
  BY <1>2, <1>3, <1>10
<1>12. StoredAt(key) = t.node[n].data
  BY <1>1, <1>2 DEF StoredAt
<1>13. TreeInv'
  BY <1>1, <1>2, <1>7, <1>9, <1>11 DEF TreeInv
<1>. QED
  BY <1>1, <1>2, <1>7, <1>8, <1>12, <1>13

(* The words under which something is stored no more, and what it was.         *)
LostWords(t, u) == {w \in Word : StoredUnder(t, w) # Null /\ StoredUnder(u, w) = Null}

LostData(t, u) == {StoredUnder(t, w) : w \in LostWords(t, u)}

(* The data of the nodes that go are those stored under the words that go.     *)
LEMMA DataGoneAre ==
  ASSUME NEW t, WellKept(t), NEW rest, NEW u, t # NoTrie,
         \A w \in Word : StoredUnder(u, w) =
           IF search_node(t, w) \in Node(t) \ Node(rest) THEN Null ELSE StoredUnder(t, w)
  PROVE  DataGone(t, rest) = LostData(t, u)
<1>1. TreeOK(t) /\ Null \notin Node(t)
  BY NullIsNoNumber DEF WellKept, TreeOK
<1>2. ASSUME NEW x, x \in DataGone(t, rest) PROVE x \in LostData(t, u)
  <2>1. PICK n \in Node(t) \ Node(rest) : t.node[n].data = x /\ x # Null
    BY <1>2 DEF DataGone
  <2>2. PICK w \in Word : search_node(t, w) = n
    BY <2>1 DEF WellKept
  <2>3. StoredUnder(t, w) = x /\ StoredUnder(u, w) = Null
    BY <1>1, <2>1, <2>2 DEF StoredUnder
  <2>. QED
    BY <2>1, <2>3 DEF LostData, LostWords
<1>3. ASSUME NEW x, x \in LostData(t, u) PROVE x \in DataGone(t, rest)
  <2>1. PICK w \in Word : StoredUnder(t, w) = x /\ x # Null /\ StoredUnder(u, w) = Null
    BY <1>3 DEF LostData, LostWords
  <2>2. PICK n : n = search_node(t, w)
    OBVIOUS
  <2>3. n \in Node(t) \ Node(rest) /\ t.node[n].data = x
    BY <2>1, <2>2 DEF StoredUnder
  <2>. QED
    BY <2>1, <2>3 DEF DataGone
<1>. QED
  BY <1>2, <1>3

(* pt_trim removes what is below the ends of the stems.                      *)
LEMMA TrimDoes ==
  ASSUME TreeInv, pt_trim
  PROVE  /\ TreeInv' /\ trie # NoTrie /\ trie' # NoTrie /\ WellKept(trie)
         /\ ref' \in {ref, Null}
         /\ \A w \in Seq(Nat) : search_node(trie', w) \in {search_node(trie, w), Null}
         /\ \A w \in Word : StoredUnder(trie', w) =
              IF search_node(trie, w) \in Below(trie, StemEnds(trie)) THEN Null ELSE StoredUnder(trie, w)
         /\ freed' = freed \cup LostData(trie, trie')
<1>1. PICK t, u, r : t = trie /\ u = trie' /\ r = ref
  OBVIOUS
<1>2. t # NoTrie /\ u = Trimmed(t) /\ ref' = IF r \in Node(u) THEN r ELSE Null
  BY <1>1 DEF pt_trim, KeptRef
<1>3. freed' = freed \cup DataGone(t, u)
  BY <1>1, <1>2 DEF pt_trim, Destroyed
<1>4. WellKept(t) /\ TreeOK(t) /\ RefOK(t, r) /\ freed \subseteq Datum
  BY <1>1, <1>2 DEF TreeInv, WellKept
<1>5. PICK gone : gone = Below(t, StemEnds(t))
  OBVIOUS
<1>6. Shrunk(u, t, gone)
  BY <1>2, <1>4, <1>5, TrimmedShrinks
<1>7. /\ WellKept(u) /\ u # NoTrie
      /\ \A w \in Seq(Nat) : search_node(u, w) = IF search_node(t, w) \in Node(u) THEN search_node(t, w) ELSE Null
      /\ \A w \in Word : StoredUnder(u, w) = IF search_node(t, w) \in gone THEN Null ELSE StoredUnder(t, w)
  BY <1>4, <1>6, ShrunkStores
<1>8. RefOK(u, IF r \in Node(u) THEN r ELSE Null)
  BY <1>4, <1>6, ShrunkRef
<1>9. DataGone(t, u) = LostData(t, u)
  <2>1. gone = Node(t) \ Node(u)
    BY <1>5, <1>4, <1>6, CutTyped DEF Shrunk
  <2>2. \A w \in Word : StoredUnder(u, w) =
          IF search_node(t, w) \in Node(t) \ Node(u) THEN Null ELSE StoredUnder(t, w)
    BY <1>7, <2>1
  <2>. QED
    BY <1>2, <1>4, <2>2, DataGoneAre
<1>10. LostData(t, u) \subseteq Datum
  <2>1. \A w \in Word : StoredUnder(t, w) # Null => StoredUnder(t, w) \in DataOf(t)
    BY <1>4, DataAre
  <2>. QED
    BY <1>4, <2>1, DataTyped DEF LostData, LostWords
<1>11. TreeInv'
  BY <1>1, <1>2, <1>3, <1>4, <1>7, <1>8, <1>9, <1>10 DEF TreeInv
<1>. QED
  BY <1>1, <1>2, <1>3, <1>4, <1>5, <1>7, <1>9, <1>11

(* Everything is below the root.                                            *)
LEMMA AllBelowRoot ==
  ASSUME NEW t, WellKept(t)
  PROVE  Node(trim_below(t, {Root})) \subseteq {Root}
<1>1. TreeOK(t) /\ Reached(t) /\ Root \in Node(t)
  BY DEF WellKept, TreeOK
<1>2. PICK B, v : B = Below(t, {Root}) /\ v = trim_below(t, {Root})
  OBVIOUS
<1>3. {Root} \in SUBSET Node(t)
  BY <1>1
<1>4. Closed(t, B) /\ \A k \in Node(t) \ {Root} : k \in B <=> Parent(t, k) \in {Root} \cup B
  BY <1>1, <1>2, <1>3, BelowIs
<1>5. v = del_nodes(t, B)
  BY <1>2 DEF trim_below
<1>6. Shrunk(v, t, B)
  BY <1>1, <1>4, <1>5, DeletionShrinks
<1>7. ASSUME NEW n \in Node(t) \ {Root} PROVE n \in B
  <2>1. PICK key \in Seq(Nat) : search_node(t, key) = n
    BY <1>1 DEF Reached
  <2>2. PICK f : Way(t, key, f) /\ search_node(t, key) = f[Len(key)]
    BY <1>1, WayFound
  <2>. DEFINE P == {k \in 0 .. Len(key) : f[k] # Null => f[k] \in B \cup {Root}}
  <2>3. Len(key) \in Nat
    OBVIOUS
  <2>4. 0 \in P
    BY <2>2, <2>3 DEF Way
  <2>5. ASSUME NEW k \in 1 .. Len(key), k - 1 \in P PROVE k \in P
    <3>1. k \in 0 .. Len(key) /\ (f[k - 1] # Null => f[k - 1] \in B \cup {Root})
      BY <2>3, <2>5
    <3>2. ASSUME f[k] # Null PROVE f[k] \in B
      <4>1. f[k - 1] # Null /\ f[k] \in Node(t) /\ f[k] # Root /\ Parent(t, f[k]) = f[k - 1]
        BY <1>1, <2>2, <3>2, WayStep
      <4>. QED
        BY <1>4, <3>1, <4>1
    <3>. QED
      BY <3>1, <3>2
  <2>6. \A k \in 0 .. Len(key) : k \in P
    <3>. HIDE DEF P
    <3>. QED
      BY <2>3, <2>4, <2>5, CountUp
  <2>7. Len(key) \in 0 .. Len(key)
    BY <2>3
  <2>8. f[Len(key)] # Null => f[Len(key)] \in B \cup {Root}
    BY <2>6, <2>7
  <2>9. n # Null
    BY <1>1, NullIsNoNumber DEF TreeOK
  <2>. QED
    BY <2>1, <2>2, <2>8, <2>9
<1>8. Node(v) \subseteq {Root}
  BY <1>6, <1>7 DEF Shrunk
<1>. QED
  BY <1>2, <1>8

LEMMA NukeDoes ==
  ASSUME TreeInv, pt_nuke
  PROVE  /\ TreeInv' /\ trie # NoTrie /\ trie' = NoTrie /\ ref' = Null
         /\ freed' = freed \cup LostData(trie, NoTrie)
<1>1. PICK t : t = trie
  OBVIOUS
<1>2. /\ t # NoTrie /\ trie' = NoTrie /\ ref' = Null
      /\ freed' = freed \cup DataGone(t, trim_below(t, {Root}))
  BY <1>1 DEF pt_nuke
<1>3. WellKept(t) /\ TreeOK(t) /\ freed \subseteq Datum
  BY <1>1, <1>2 DEF TreeInv, WellKept
<1>4. PICK rest : rest = trim_below(t, {Root})
  OBVIOUS
<1>5. Node(rest) \subseteq {Root}
  BY <1>3, <1>4, AllBelowRoot
<1>6. ASSUME NEW w \in Word
      PROVE  StoredUnder(NoTrie, w) =
               IF search_node(t, w) \in Node(t) \ Node(rest) THEN Null ELSE StoredUnder(t, w)
  <2>1. search_node(t, w) \in (Node(t) \ {Root}) \cup {Null}
    BY <1>3, WordsAre, SearchTyped
  <2>2. StoredUnder(NoTrie, w) = Null
    BY DEF StoredUnder
  <2>3. search_node(t, w) = Null => StoredUnder(t, w) = Null
    BY DEF StoredUnder
  <2>. QED
    BY <1>5, <2>1, <2>2, <2>3
<1>7. DataGone(t, rest) = LostData(t, NoTrie)
  BY <1>2, <1>3, <1>6, DataGoneAre
<1>8. LostData(t, NoTrie) \subseteq Datum
  <2>1. \A w \in Word : StoredUnder(t, w) # Null => StoredUnder(t, w) \in DataOf(t)
    BY <1>3, DataAre
  <2>. QED
    BY <1>3, <2>1, DataTyped DEF LostData, LostWords
<1>. QED
  BY <1>1, <1>2, <1>3, <1>4, <1>7, <1>8 DEF TreeInv, RefOK

LEMMA TreeInductive == TreeInv /\ [TreeNext]_treeVars => TreeInv'
<1>. SUFFICES ASSUME TreeInv, [TreeNext]_treeVars PROVE TreeInv'
  OBVIOUS
<1>1. CASE \E key \in Word : pt_get(key) \/ pt_add(key) \/ pt_add_fails(key)
  BY <1>1, LookupDoes
<1>2. CASE \E d \in Datum \cup {Null} : pt_set(d)
  BY <1>2, SetDoes
<1>3. CASE pt_trim
  BY <1>3, TrimDoes
<1>4. CASE pt_nuke
  BY <1>4, NukeDoes
<1>5. CASE \E key \in Word : pt_del(key)
  BY <1>5, DelDoes
<1>6. CASE Exits
  BY <1>6 DEF Exits, pt_add_exits, TreeInv, RefOK
<1>7. CASE UNCHANGED treeVars
  BY <1>7 DEF treeVars, TreeInv
<1>. QED
  BY <1>1, <1>2, <1>3, <1>4, <1>5, <1>6, <1>7 DEF TreeNext, Others

LEMMA TreeTypesFollow == TreeInv => TreeTypeOK
<1>. SUFFICES ASSUME TreeInv PROVE TreeTypeOK
  OBVIOUS
<1>1. CASE trie = NoTrie
  BY <1>1, NoTrieIsEmpty DEF TreeInv, RefOK, TreeTypeOK
<1>2. CASE WellKept(trie)
  <2>1. PICK t : t = trie
    OBVIOUS
  <2>2. TreeOK(t)
    BY <1>2, <2>1 DEF WellKept
  <2>3. ASSUME NEW n \in Node(t)
        PROVE  /\ t.node[n].data \in Datum \cup {Null}
               /\ \A i \in DOMAIN t.node[n].edge :
                    t.node[n].edge[i].kid \in Node(t) /\ t.node[t.node[n].edge[i].kid].parent = n
               /\ \A i, j \in DOMAIN t.node[n].edge : i < j => t.node[n].edge[i].s < t.node[n].edge[j].s
               /\ n # Root => /\ t.node[n].parent \in Node(t)
                              /\ \E i \in DOMAIN t.node[t.node[n].parent].edge :
                                   t.node[t.node[n].parent].edge[i].kid = n
    <3>1. t.node[n].data \in Datum \cup {Null}
      BY <2>2 DEF TreeOK, NodeRec
    <3>2. ASSUME NEW i \in DOMAIN t.node[n].edge
          PROVE  t.node[n].edge[i].kid \in Node(t) /\ t.node[t.node[n].edge[i].kid].parent = n
      <4>1. EdgeTo(t, n, t.node[n].edge[i].s, t.node[n].edge[i].kid)
        BY DEF EdgeTo
      <4>. QED
        BY <2>2, <4>1 DEF TreeOK, Parent
    <3>3. \A i, j \in DOMAIN t.node[n].edge : i < j => t.node[n].edge[i].s < t.node[n].edge[j].s
      BY <2>2 DEF TreeOK, InOrder
    <3>4. ASSUME n # Root
          PROVE  /\ t.node[n].parent \in Node(t)
                 /\ \E i \in DOMAIN t.node[t.node[n].parent].edge :
                      t.node[t.node[n].parent].edge[i].kid = n
      BY <2>2, <3>4 DEF TreeOK, Parent, EdgeTo
    <3>. QED
      BY <3>1, <3>2, <3>3, <3>4
  <2>4. Root \in Node(t) /\ t.node[Root].data = Null
    BY <2>2 DEF TreeOK
  <2>5. ref \in Node(t) \cup {Null} /\ freed \subseteq Datum
    BY <2>1 DEF TreeInv, RefOK
  <2>. QED
    BY <2>1, <2>3, <2>4, <2>5 DEF TreeTypeOK
<1>. QED
  BY <1>1, <1>2 DEF TreeInv

(* Parents and edges of the tree agree and edges are sorted, whatever callers   *)
(* do (pt_add, pt_set, pt_del, pt_trim, pt_nuke).                            *)
THEOREM TreeTypes == TreeSpec => []TreeTypeOK
<1>1. TreeInit => TreeInv
  BY InitHolds
<1>2. TreeInv /\ [TreeNext]_treeVars => TreeInv'
  BY TreeInductive
<1>3. TreeInv => TreeTypeOK
  BY TreeTypesFollow
<1>. QED
  BY <1>1, <1>2, <1>3, PTL DEF TreeSpec

-----------------------------------------------------------------------------

(* No datum is stored under two words.                                       *)
OneWordEach(t) ==
  \A v, w \in Word : StoredUnder(t, v) = StoredUnder(t, w) /\ StoredUnder(t, v) # Null => v = w

TidyInv == TreeInv /\ OneWordEach(trie) /\ DanglesAtHandOnly

(* When nothing dangles, nothing dangles out of hand.                        *)
LEMMA CleanIsAtHand ==
  ASSUME NEW t, t = NoTrie \/ WellKept(t), NEW f \in SUBSET Datum, DataOf(t) \cap f = {}, NEW r
  PROVE  \A n \in Node(t) : t.node[n].data \in f => n = r
<1>1. SUFFICES ASSUME NEW n \in Node(t), t.node[n].data \in f PROVE FALSE
  OBVIOUS
<1>2. WellKept(t) /\ TreeOK(t)
  BY <1>1, NoTrieIsEmpty DEF WellKept
<1>3. t.node[n].data # Null
  BY <1>1, TreeAssumption
<1>4. n # Root
  BY <1>2, <1>3 DEF TreeOK
<1>. QED
  BY <1>1, <1>3, <1>4 DEF DataOf

(* What callers may do that store under one word only leaves all in order.    *)
Orderly == TreeInv' /\ OneWordEach(trie') /\ DataOf(trie') \cap freed' = {}

LEMMA OrderlyIsTidy == ASSUME Orderly PROVE TidyInv'
<1>1. PICK t, f, r : t = trie' /\ f = freed' /\ r = ref'
  OBVIOUS
<1>2. (t = NoTrie \/ WellKept(t)) /\ f \in SUBSET Datum /\ DataOf(t) \cap f = {} /\ OneWordEach(t)
  BY <1>1 DEF Orderly, TreeInv
<1>3. \A n \in Node(t) : t.node[n].data \in f => n = r
  BY <1>2, CleanIsAtHand
<1>. QED
  BY <1>1, <1>2, <1>3 DEF Orderly, TidyInv, DanglesAtHandOnly

LEMMA SameIsOrderly ==
  ASSUME TidyInv, ~ Dangling, TreeInv', SameStored(trie, trie'), freed' = freed
  PROVE  Orderly
<1>1. DataOf(trie') = DataOf(trie)
  BY SameData DEF TidyInv, TreeInv
<1>2. OneWordEach(trie')
  BY DEF TidyInv, OneWordEach, SameStored
<1>. QED
  BY <1>1, <1>2 DEF Orderly, Dangling

(* Words only lose what they have, and it is destroyed.                      *)
LEMMA LossIsOrderly ==
  ASSUME TidyInv, ~ Dangling, TreeInv', freed' = freed \cup LostData(trie, trie'),
         \A w \in Word : StoredUnder(trie', w) \in {StoredUnder(trie, w), Null}
  PROVE  Orderly
<1>1. PICK t, u : t = trie /\ u = trie'
  OBVIOUS
<1>2. /\ t = NoTrie \/ WellKept(t)
      /\ u = NoTrie \/ WellKept(u)
      /\ \A w \in Word : StoredUnder(u, w) \in {StoredUnder(t, w), Null}
      /\ OneWordEach(t) /\ DataOf(t) \cap freed = {} /\ freed' = freed \cup LostData(t, u)
  BY <1>1 DEF TidyInv, TreeInv, Dangling
<1>3. OneWordEach(u)
  BY <1>2 DEF OneWordEach
<1>4. ASSUME NEW x, x \in DataOf(u), x \in freed' PROVE FALSE
  <2>1. PICK v \in Word : StoredUnder(u, v) = x /\ x # Null
    BY <1>2, <1>4, DataAre
  <2>2. StoredUnder(t, v) = x
    BY <1>2, <2>1
  <2>3. x \notin freed
    BY <1>2, <2>1, <2>2, DataAre
  <2>4. PICK w \in Word : StoredUnder(t, w) = x /\ StoredUnder(u, w) = Null
    BY <1>2, <1>4, <2>3 DEF LostData, LostWords
  <2>5. v = w
    BY <1>2, <2>1, <2>2, <2>4 DEF OneWordEach
  <2>. QED
    BY <2>1, <2>4, <2>5
<1>. QED
  BY <1>1, <1>3, <1>4 DEF Orderly

(* A caller stores what it has allocated, or NULL over what it has deleted.    *)
LEMMA SetIsOrderly ==
  ASSUME TidyInv, NEW d \in Datum \cup {Null}, pt_set(d), d = Null \/ ~ Dangling
  PROVE  Orderly
<1>1. PICK t, u, r : t = trie /\ u = trie' /\ r = ref
  OBVIOUS
<1>2. /\ TreeInv' /\ freed' = freed \ {d} /\ d \notin DataOf(t) \ freed
      /\ \A w \in Word : StoredUnder(u, w) = IF search_node(t, w) = r THEN d ELSE StoredUnder(t, w)
      /\ r # Null /\ t # NoTrie
  BY <1>1, SetDoes DEF TidyInv
<1>3. /\ WellKept(t) /\ TreeOK(t) /\ (u = NoTrie \/ WellKept(u)) /\ freed \subseteq Datum
      /\ OneWordEach(t) /\ \A n \in Node(t) : t.node[n].data \in freed => n = r
  BY <1>1, <1>2 DEF TidyInv, TreeInv, WellKept, DanglesAtHandOnly
<1>4. \A w \in Word : StoredUnder(t, w) # Null => StoredUnder(t, w) \in DataOf(t)
  BY <1>3, DataAre
<1>5. \A v, w \in Word : search_node(t, v) = r /\ search_node(t, w) = r => v = w
  BY <1>2, <1>3, WordsAre, SearchDiffers
<1>6. d # Null => \A w \in Word : StoredUnder(t, w) # d
  <2>1. d # Null => DataOf(t) \cap freed = {}
    BY <1>1 DEF Dangling
  <2>. QED
    BY <1>2, <1>4, <2>1
<1>7. OneWordEach(u)
  <2>1. SUFFICES ASSUME NEW v \in Word, NEW w \in Word, StoredUnder(u, v) = StoredUnder(u, w),
                        StoredUnder(u, v) # Null
                 PROVE  v = w
    BY DEF OneWordEach
  <2>2. CASE search_node(t, v) = r \/ search_node(t, w) = r
    BY <1>2, <1>5, <1>6, <2>1, <2>2
  <2>3. CASE search_node(t, v) # r /\ search_node(t, w) # r
    BY <1>2, <1>3, <2>1, <2>3 DEF OneWordEach
  <2>. QED
    BY <2>2, <2>3
<1>8. ASSUME NEW x, x \in DataOf(u), x \in freed' PROVE FALSE
  <2>1. PICK w \in Word : StoredUnder(u, w) = x /\ x # Null
    BY <1>3, <1>8, DataAre
  <2>2. x \in freed /\ x # d
    BY <1>2, <1>8
  <2>3. search_node(t, w) # r /\ StoredUnder(t, w) = x
    BY <1>2, <2>1, <2>2
  <2>4. PICK n : n = search_node(t, w)
    OBVIOUS
  <2>5. n \in Node(t) /\ t.node[n].data = x
    BY <1>2, <1>3, <2>1, <2>3, <2>4, WordsAre, SearchTyped DEF StoredUnder
  <2>. QED
    BY <1>3, <2>2, <2>3, <2>4, <2>5
<1>. QED
  BY <1>1, <1>2, <1>7, <1>8 DEF Orderly

LEMMA OthersAreOrderly ==
  ASSUME TidyInv, ~ Dangling, Others \/ Exits
  PROVE  Orderly
<1>1. TreeInv
  BY DEF TidyInv
<1>2. CASE \E key \in Word : pt_get(key) \/ pt_add(key) \/ pt_add_fails(key)
  <2>1. TreeInv' /\ SameStored(trie, trie') /\ freed' = freed
    BY <1>1, <1>2, LookupDoes
  <2>. QED
    BY <2>1, SameIsOrderly
<1>3. CASE \E d \in Datum \cup {Null} : pt_set(d)
  BY <1>3, SetIsOrderly
<1>4. CASE pt_trim
  <2>1. /\ TreeInv' /\ freed' = freed \cup LostData(trie, trie')
        /\ \A w \in Word : StoredUnder(trie', w) =
             IF search_node(trie, w) \in Below(trie, StemEnds(trie)) THEN Null ELSE StoredUnder(trie, w)
    BY <1>1, <1>4, TrimDoes
  <2>2. \A w \in Word : StoredUnder(trie', w) \in {StoredUnder(trie, w), Null}
    BY <2>1
  <2>. QED
    BY <2>1, <2>2, LossIsOrderly
<1>5. CASE pt_nuke
  <2>1. TreeInv' /\ trie' = NoTrie /\ freed' = freed \cup LostData(trie, trie')
    BY <1>1, <1>5, NukeDoes
  <2>2. \A w \in Word : StoredUnder(trie', w) \in {StoredUnder(trie, w), Null}
    BY <2>1 DEF StoredUnder
  <2>. QED
    BY <2>1, <2>2, LossIsOrderly
<1>6. CASE Exits
  <2>1. trie' = trie /\ freed' = freed /\ ref' = Null
    BY <1>6 DEF Exits, pt_add_exits
  <2>2. TreeInv' /\ SameStored(trie, trie')
    BY <1>1, <2>1 DEF TreeInv, RefOK, SameStored
  <2>. QED
    BY <2>1, <2>2, SameIsOrderly
<1>. QED
  BY <1>2, <1>3, <1>4, <1>5, <1>6 DEF Others

(* A word that is deleted leaves its data at hand.                           *)
LEMMA DelIsTidy ==
  ASSUME TidyInv, ~ Dangling, NEW key \in Word, MayDelete(key), pt_del(key)
  PROVE  TidyInv'
<1>1. PICK t, u, r, n : t = trie /\ u = trie' /\ r = ref /\ n = search_node(t, key)
  OBVIOUS
<1>2. PICK x : x = StoredUnder(t, key)
  OBVIOUS
<1>3. x = StoredAt(key)
  BY <1>1, <1>2 DEF StoredAt, StoredUnder
<1>4. /\ TreeInv' /\ SameStored(t, u) /\ t # NoTrie /\ u # NoTrie
      /\ ref' = IF r \in Node(u) THEN r ELSE Null
      /\ \A w \in Seq(Nat) : search_node(u, w) \in {search_node(t, w), Null}
      /\ freed' = freed \cup ({x} \ {Null})
  BY <1>1, <1>3, DelDoes DEF TidyInv
<1>5. /\ WellKept(t) /\ WellKept(u) /\ TreeOK(u) /\ OneWordEach(t) /\ DataOf(t) \cap freed = {}
      /\ freed \subseteq Datum
  BY <1>1, <1>4 DEF TidyInv, TreeInv, WellKept, Dangling
<1>6. OneWordEach(u)
  BY <1>4, <1>5 DEF OneWordEach, SameStored
<1>7. ASSUME NEW m \in Node(u), u.node[m].data \in freed' PROVE m = ref'
  <2>1. PICK y : y = u.node[m].data
    OBVIOUS
  <2>2. y # Null
    BY <1>4, <1>5, <1>7, <2>1, TreeAssumption
  <2>3. PICK w \in Word : search_node(u, w) = m
    BY <1>5, <2>1, <2>2 DEF WellKept
  <2>4. m # Null
    BY <1>5, NullIsNoNumber DEF TreeOK
  <2>5. StoredUnder(t, w) = y
    BY <1>4, <2>1, <2>3, <2>4 DEF StoredUnder, SameStored
  <2>6. y \notin freed
    BY <1>5, <2>2, <2>5, DataAre
  <2>7. y = x
    BY <1>4, <1>7, <2>1, <2>6
  <2>8. w = key
    BY <1>2, <1>5, <2>2, <2>5, <2>7 DEF OneWordEach
  <2>9. m = n
    BY <1>1, <1>4, <2>3, <2>4, <2>8, WordsAre
  <2>10. r = n
    BY <1>1, <1>3, <2>2, <2>7 DEF MayDelete
  <2>. QED
    BY <1>4, <2>9, <2>10
<1>. QED
  BY <1>1, <1>4, <1>6, <1>7 DEF TidyInv, DanglesAtHandOnly

LEMMA TidyInductive == TidyInv /\ [TidyNext]_treeVars => TidyInv'
<1>. SUFFICES ASSUME TidyInv, [TidyNext]_treeVars PROVE TidyInv'
  OBVIOUS
<1>1. CASE pt_set(Null)
  BY <1>1, SetIsOrderly, OrderlyIsTidy
<1>2. CASE ~ Dangling /\ (Others \/ Exits)
  BY <1>2, OthersAreOrderly, OrderlyIsTidy
<1>3. CASE ~ Dangling /\ \E key \in Word : MayDelete(key) /\ pt_del(key)
  BY <1>3, DelIsTidy
<1>4. CASE UNCHANGED treeVars
  BY <1>4 DEF treeVars, TidyInv, TreeInv, DanglesAtHandOnly
<1>. QED
  BY <1>1, <1>2, <1>3, <1>4 DEF TidyNext

LEMMA TidyStarts == TreeInit => TidyInv
<1>1. SUFFICES ASSUME TreeInit PROVE TidyInv
  OBVIOUS
<1>2. TreeInv /\ trie = NoTrie
  BY <1>1, InitHolds DEF TreeInit
<1>. QED
  BY <1>2, NoTrieIsEmpty DEF TidyInv, OneWordEach, StoredUnder, DanglesAtHandOnly

(* For callers that clear at once what they delete, what pt_del destroys but    *)
(* leaves in the tree is only where the caller is about to clear it, and a     *)
(* trim or pt_nuke never gives the destructor what it has had.                 *)
THEOREM DeletedIsAtHand == TidySpec => []DanglesAtHandOnly
<1>1. TidyInv => DanglesAtHandOnly
  BY DEF TidyInv
<1>. QED
  BY <1>1, TidyStarts, TidyInductive, PTL DEF TidySpec

-----------------------------------------------------------------------------

(* A way that leads somewhere led somewhere all along, to ever other nodes.    *)
LEMMA WayBack ==
  ASSUME NEW t, TreeOK(t), NEW key \in Seq(Nat), NEW f, Way(t, key, f),
         NEW j \in 0 .. Len(key), NEW k \in 0 .. Len(key), j <= k, f[k] # Null
  PROVE  f[j] # Null
<1>. DEFINE P == {i \in 0 .. k : f[i] # Null => f[j] # Null \/ i < j}
<1>1. k \in Nat /\ j \in Nat /\ k <= Len(key) /\ Len(key) \in Nat
  OBVIOUS
<1>2. 0 \in P
  <2>1. j = 0 \/ 0 < j
    BY <1>1
  <2>. QED
    BY <1>1, <2>1
<1>3. ASSUME NEW i \in 1 .. k, i - 1 \in P PROVE i \in P
  <2>1. i \in 1 .. Len(key) /\ i \in 0 .. k
    BY <1>1
  <2>2. f[i] # Null => f[i - 1] # Null
    BY <2>1, WayStep
  <2>3. i - 1 < j => i < j \/ i = j
    BY <1>1, <2>1
  <2>. QED
    BY <1>3, <2>1, <2>2, <2>3
<1>4. \A i \in 0 .. k : i \in P
  <2>. HIDE DEF P
  <2>. QED
    BY <1>1, <1>2, <1>3, CountUp
<1>5. k \in 0 .. k /\ ~ k < j
  BY <1>1
<1>. QED
  BY <1>4, <1>5

(* No way is longer than there are nodes.                                   *)
LEMMA WaysEnd ==
  ASSUME NEW t, TreeOK(t), NEW key \in Seq(Nat), NEW f, Way(t, key, f), NEW k \in 0 .. Len(key), f[k] # Null
  PROVE  k < Cardinality(Node(t))
<1>. DEFINE Passed(i) == {f[j] : j \in 0 .. i}
            Good(i) == IsFiniteSet(Passed(i)) /\ Cardinality(Passed(i)) = i + 1
            P == {i \in 0 .. k : Good(i)}
<1>1. k \in Nat /\ k <= Len(key) /\ Len(key) \in Nat
  OBVIOUS
<1>2. \A i \in 0 .. k : i \in 0 .. Len(key)
  BY <1>1
<1>3. \A i \in 0 .. k : f[i] # Null
  BY <1>1, <1>2, WayBack
<1>4. ASSUME NEW i \in 0 .. k, NEW j \in 0 .. k, f[i] = f[j] PROVE i = j
  <2>1. PICK g, w : g = f /\ w = key
    OBVIOUS
  <2>2. Way(t, w, g) /\ w \in Seq(Nat) /\ f[i] = g[j] /\ i \in 0 .. Len(key) /\ j \in 0 .. Len(w) /\ f[i] # Null
    BY <1>2, <1>3, <1>4, <2>1
  <2>. QED
    BY <2>2, WaysDiffer
<1>5. 0 \in P
  <2>1. Passed(0) = {f[0]}
    OBVIOUS
  <2>2. IsFiniteSet({f[0]}) /\ Cardinality({f[0]}) = 1
    BY FS_Singleton
  <2>3. Cardinality({f[0]}) = 0 + 1
    BY <2>2
  <2>4. Good(0)
    <3>. HIDE DEF Passed
    <3>. QED
      BY <2>1, <2>2, <2>3
  <2>5. 0 \in 0 .. k
    BY <1>1
  <2>. HIDE DEF Good
  <2>. QED
    BY <2>4, <2>5
<1>6. ASSUME NEW i \in 1 .. k, i - 1 \in P PROVE i \in P
  <2>1. i \in 0 .. k /\ i - 1 \in 0 .. k /\ i \in Nat
    BY <1>1
  <2>2. \A j \in 0 .. i : j \in 0 .. i - 1 \/ j = i
    BY <2>1
  <2>3. \A j \in 0 .. i - 1 : j \in 0 .. i /\ j \in 0 .. k /\ j # i
    BY <1>1, <2>1
  <2>4. Passed(i) = Passed(i - 1) \cup {f[i]}
    <3>1. i \in 0 .. i
      BY <2>1
    <3>2. \A x : x \in Passed(i) <=> x \in Passed(i - 1) \cup {f[i]}
      BY <2>2, <2>3, <3>1
    <3>. QED
      BY <3>2
  <2>5. f[i] \notin Passed(i - 1)
    BY <1>4, <2>1, <2>3
  <2>6. Good(i - 1)
    BY <1>6
  <2>7. IsFiniteSet(Passed(i)) /\ Cardinality(Passed(i)) = Cardinality(Passed(i - 1)) + 1
    <3>1. PICK x, B : x = f[i] /\ B = Passed(i - 1)
      OBVIOUS
    <3>2. IsFiniteSet(B) /\ x \notin B /\ Passed(i) = B \cup {x}
      BY <2>4, <2>5, <2>6, <3>1
    <3>3. IsFiniteSet(B \cup {x}) /\ Cardinality(B \cup {x}) = Cardinality(B) + 1
      BY <3>2, FS_AddElement
    <3>. HIDE DEF Passed
    <3>. QED
      BY <3>1, <3>2, <3>3
  <2>8. Good(i)
    <3>. HIDE DEF Passed
    <3>. QED
      BY <2>1, <2>6, <2>7
  <2>. QED
    BY <2>1, <2>8
<1>7. \A i \in 0 .. k : i \in P
  <2>. HIDE DEF P
  <2>. QED
    BY <1>1, <1>5, <1>6, CountUp
<1>8. k \in 0 .. k
  BY <1>1
<1>9. Good(k)
  BY <1>7, <1>8
<1>10. Passed(k) \subseteq Node(t)
  <2>1. \A i \in 0 .. k : f[i] \in Node(t)
    BY <1>2, <1>3 DEF Way
  <2>. QED
    BY <2>1
<1>11. IsFiniteSet(Node(t))
  BY DEF TreeOK
<1>12. Cardinality(Passed(k)) <= Cardinality(Node(t)) /\ Cardinality(Node(t)) \in Nat
  <2>. HIDE DEF Passed, Good, P
  <2>. QED
    BY <1>10, <1>11, FS_Subset, FS_CardinalityType
<1>. QED
  BY <1>1, <1>9, <1>12

(* A stem that branches, or ends, goes no further.                          *)
LEMMA StemStays ==
  ASSUME NEW t, TreeOK(t), NEW n, NEW s, Stem(t, n, s), NEW k \in 0 .. Cardinality(Node(t)),
         Len(t.node[s[k]].edge) # 1
  PROVE  s[Cardinality(Node(t))] = s[k]
<1>1. PICK c : c = Cardinality(Node(t))
  OBVIOUS
<1>2. c \in Nat /\ k \in Nat /\ k \in 0 .. c
  BY <1>1, FS_CardinalityType DEF TreeOK
<1>. DEFINE P == {j \in 0 .. c : k <= j => s[j] = s[k]}
<1>3. 0 \in P
  <2>1. k <= 0 => k = 0
    BY <1>2
  <2>. QED
    BY <1>2, <2>1
<1>4. ASSUME NEW j \in 1 .. c, j - 1 \in P PROVE j \in P
  <2>1. s[j] = IF Len(t.node[s[j - 1]].edge) = 1 THEN t.node[s[j - 1]].edge[1].kid ELSE s[j - 1]
    BY <1>1 DEF Stem
  <2>2. j \in 0 .. c /\ (k <= j => k <= j - 1 \/ k = j)
    BY <1>2
  <2>. QED
    BY <1>4, <2>1, <2>2
<1>5. \A j \in 0 .. c : j \in P
  <2>. HIDE DEF P
  <2>. QED
    BY <1>2, <1>3, <1>4, CountUp
<1>6. c \in 0 .. c /\ k <= c
  BY <1>2
<1>. QED
  BY <1>1, <1>5, <1>6

(* A node with one edge has one kid.                                        *)
LEMMA OnlyKid ==
  ASSUME NEW t, TreeOK(t), NEW n \in Node(t), Len(t.node[n].edge) = 1
  PROVE  /\ EdgeTo(t, n, t.node[n].edge[1].s, t.node[n].edge[1].kid)
         /\ \A s, k : EdgeTo(t, n, s, k) => k = t.node[n].edge[1].kid
<1>1. t.node[n].edge \in Seq(EdgeRec)
  BY DEF TreeOK, NodeRec
<1>2. DOMAIN t.node[n].edge = {1}
  BY <1>1
<1>. QED
  BY <1>2 DEF EdgeTo

LEMMA NoEdgeNoKid ==
  ASSUME NEW t, TreeOK(t), NEW n \in Node(t), NEW s, NEW k, EdgeTo(t, n, s, k)
  PROVE  Len(t.node[n].edge) \in Nat \ {0}
<1>1. t.node[n].edge \in Seq(EdgeRec)
  BY DEF TreeOK, NodeRec
<1>2. Len(t.node[n].edge) \in Nat /\ DOMAIN t.node[n].edge = 1 .. Len(t.node[n].edge)
  BY <1>1
<1>3. DOMAIN t.node[n].edge # {}
  BY DEF EdgeTo
<1>. QED
  BY <1>2, <1>3

-----------------------------------------------------------------------------

(* What pt_trim removes.                                                    *)
Cut(t) == Below(t, StemEnds(t))

LEMMA CutIs ==
  ASSUME NEW t, TreeOK(t)
  PROVE  /\ Root \notin Cut(t) /\ Root \notin StemEnds(t) /\ Cut(t) \subseteq Node(t)
         /\ \A k \in Node(t) \ {Root} : k \in Cut(t) <=> Parent(t, k) \in StemEnds(t) \cup Cut(t)
         /\ \A s, k : EdgeTo(t, Root, s, k) => StemEnd(t, k) \in StemEnds(t)
<1>1. StemEnds(t) \subseteq Node(t) \ {Root}
  BY TrimmedShrinks
<1>2. StemEnds(t) \in SUBSET Node(t)
  BY <1>1
<1>3. Closed(t, Cut(t)) /\ \A k \in Node(t) \ {Root} : k \in Cut(t) <=> Parent(t, k) \in StemEnds(t) \cup Cut(t)
  BY <1>2, BelowIs DEF Cut
<1>4. \A s, k : EdgeTo(t, Root, s, k) => StemEnd(t, k) \in StemEnds(t)
  BY DEF EdgeTo, StemEnds, Stems
<1>. QED
  BY <1>1, <1>3, <1>4 DEF Closed

(* What is below something that is cut is cut.                               *)
LEMMA CutDeeper ==
  ASSUME NEW t, TreeOK(t), NEW key \in Seq(Nat), NEW f, Way(t, key, f),
         NEW j \in 0 .. Len(key), NEW k \in 0 .. Len(key), j <= k, f[k] # Null, f[j] \in Cut(t)
  PROVE  f[k] \in Cut(t)
<1>1. k \in Nat /\ j \in Nat /\ k <= Len(key) /\ Len(key) \in Nat
  OBVIOUS
<1>. DEFINE P == {i \in 0 .. k : f[i] # Null /\ j <= i => f[i] \in Cut(t)}
<1>2. 0 \in P
  <2>1. j <= 0 => j = 0
    BY <1>1
  <2>. QED
    BY <1>1, <2>1
<1>3. ASSUME NEW i \in 1 .. k, i - 1 \in P PROVE i \in P
  <2>1. i \in 1 .. Len(key) /\ i \in 0 .. k /\ (j <= i => j <= i - 1 \/ j = i)
    BY <1>1
  <2>2. ASSUME f[i] # Null, j <= i - 1 PROVE f[i] \in Cut(t)
    <3>1. f[i - 1] # Null /\ f[i] \in Node(t) /\ f[i] # Root /\ Parent(t, f[i]) = f[i - 1]
      BY <2>1, <2>2, WayStep
    <3>2. f[i - 1] \in Cut(t)
      BY <1>3, <2>2, <3>1
    <3>. QED
      BY <3>1, <3>2, CutIs
  <2>. QED
    BY <2>1, <2>2
<1>4. \A i \in 0 .. k : i \in P
  <2>. HIDE DEF P
  <2>. QED
    BY <1>1, <1>2, <1>3, CountUp
<1>5. k \in 0 .. k
  BY <1>1
<1>. QED
  BY <1>4, <1>5

(* A way follows the stem until it is cut.                                   *)
LEMMA WayOnStem ==
  ASSUME NEW t, TreeOK(t), NEW key \in Seq(Nat), NEW f, Way(t, key, f), NEW s, Stem(t, f[1], s),
         StemEnd(t, f[1]) = s[Cardinality(Node(t))], NEW k \in 1 .. Len(key), f[k] # Null
  PROVE  /\ f[k] \in Cut(t) \/ f[k] = s[k - 1]
         /\ k \in 1 .. Len(key) - 1 /\ f[k + 1] # Null /\ Len(t.node[f[k]].edge) # 1 => f[k + 1] \in Cut(t)
<1>1. PICK c : c = Cardinality(Node(t))
  OBVIOUS
<1>2. c \in Nat /\ Len(key) \in Nat /\ k \in Nat /\ k <= Len(key)
  BY <1>1, FS_CardinalityType DEF TreeOK
<1>. DEFINE Good(j) == f[j] = Null \/ f[j] \in Cut(t) \/ f[j] = s[j - 1]
            P == {j \in 0 .. Len(key) : j = 0 \/ Good(j)}
(* Past a fork the way is cut.                                              *)
<1>3. ASSUME NEW j \in 1 .. Len(key) - 1, f[j + 1] # Null, Good(j), Len(t.node[f[j]].edge) # 1
      PROVE  f[j + 1] \in Cut(t)
  <2>1. PICK m : m = j + 1
    OBVIOUS
  <2>2. m \in 1 .. Len(key) /\ m - 1 = j /\ j \in 1 .. Len(key) /\ j \in 0 .. Len(key) /\ m \in 0 .. Len(key) /\ j <= m
    BY <1>2, <2>1
  <2>3. f[j] # Null /\ f[m] \in Node(t) /\ f[m] # Root /\ Parent(t, f[m]) = f[j]
    <3>1. f[m] # Null
      BY <1>3, <2>1
    <3>2. /\ f[m - 1] # Null /\ f[m] \in Node(t) /\ f[m] # Root
          /\ Parent(t, f[m]) = f[m - 1]
      BY <2>2, <3>1, WayStep, ZenonT(40)
    <3>. QED
      BY <2>2, <3>2
  <2>4. CASE f[j] \in Cut(t)
    BY <2>1, <2>3, <2>4, CutIs
  <2>5. CASE f[j] = s[j - 1]
    <3>1. j < c
      BY <1>1, <2>2, <2>3, WaysEnd
    <3>2. j - 1 \in 0 .. c
      BY <1>2, <2>2, <3>1
    <3>3. s[c] = s[j - 1]
      <4>1. PICK i : i = j - 1
        OBVIOUS
      <4>2. i \in 0 .. c /\ Len(t.node[s[i]].edge) # 1
        BY <1>3, <2>5, <3>2, <4>1
      <4>3. s[c] = s[i]
        BY <1>1, <4>2, StemStays
      <4>. QED
        BY <4>1, <4>3
    <3>4. StemEnd(t, f[1]) \in StemEnds(t)
      <4>1. 1 \in 1 .. Len(key) /\ 1 \in 0 .. Len(key) /\ 1 <= j
        BY <1>2, <2>2
      <4>2. f[1] # Null
        BY <2>2, <2>3, <4>1, WayBack
      <4>3. PICK i : i = 1
        OBVIOUS
      <4>4. EdgeTo(t, f[i - 1], key[i], f[i])
        BY <4>1, <4>2, <4>3, WayStep
      <4>5. f[i - 1] = Root
        BY <4>3 DEF Way
      <4>. QED
        BY <4>3, <4>4, <4>5, CutIs
    <3>. QED
      BY <1>1, <2>1, <2>3, <2>5, <3>3, <3>4, CutIs
  <2>. QED
    BY <1>3, <2>3, <2>4, <2>5
<1>4. ASSUME NEW j \in 1 .. Len(key), j - 1 \in P PROVE j \in P
  <2>1. j \in 0 .. Len(key)
    BY <1>2
  <2>2. CASE j = 1
    BY <2>1, <2>2 DEF Stem
  <2>3. CASE j # 1 /\ f[j] # Null
    <3>1. PICK i : i = j - 1
      OBVIOUS
    <3>2. i \in 1 .. Len(key) - 1 /\ i + 1 = j /\ i # 0 /\ i \in 0 .. Len(key)
      BY <1>2, <2>3, <3>1
    <3>3. Good(i)
      BY <1>4, <3>1, <3>2
    <3>4. f[i] \in Node(t) /\ f[i] # Null /\ EdgeTo(t, f[i], key[j], f[j])
      BY <2>3, <3>1, WayStep
    <3>5. CASE Len(t.node[f[i]].edge) # 1
      BY <1>3, <2>1, <2>3, <3>2, <3>3, <3>5
    <3>6. CASE Len(t.node[f[i]].edge) = 1 /\ f[i] \in Cut(t)
      <4>1. i <= j
        BY <3>1, <1>2
      <4>2. f[j] \in Cut(t)
        BY <2>1, <2>3, <3>2, <3>6, <4>1, CutDeeper
      <4>. QED
        BY <2>1, <4>2
    <3>7. CASE Len(t.node[f[i]].edge) = 1 /\ f[i] = s[i - 1]
      <4>1. f[j] = t.node[f[i]].edge[1].kid
        BY <3>4, <3>7, OnlyKid
      <4>2. i < c
        BY <1>1, <3>2, <3>4, WaysEnd
      <4>3. i \in 1 .. c
        BY <1>2, <3>2, <4>2
      <4>4. s[i] = IF Len(t.node[s[i - 1]].edge) = 1 THEN t.node[s[i - 1]].edge[1].kid ELSE s[i - 1]
        BY <1>1, <4>3 DEF Stem
      <4>5. f[j] = s[j - 1]
        BY <3>1, <3>7, <4>1, <4>4
      <4>. QED
        BY <2>1, <4>5
    <3>. QED
      BY <3>3, <3>4, <3>5, <3>6, <3>7
  <2>. QED
    BY <2>1, <2>2, <2>3
<1>5. \A j \in 0 .. Len(key) : j \in P
  <2>1. 0 \in P
    BY <1>2
  <2>. HIDE DEF P
  <2>. QED
    BY <1>2, <1>4, <2>1, CountUp
<1>6. Good(k)
  <2>1. k \in 0 .. Len(key) /\ k # 0
    BY <1>2
  <2>. QED
    BY <1>5, <2>1
<1>. QED
  BY <1>3, <1>6

LEMMA AppendIs ==
  ASSUME NEW key \in Seq(Nat), NEW s \in Nat
  PROVE  /\ Append(key, s) \in Seq(Nat) /\ Len(Append(key, s)) = Len(key) + 1 /\ Append(key, s)[Len(key) + 1] = s
         /\ SubSeq(Append(key, s), 1, Len(key)) = key
         /\ SubSeq(Append(key, s), 1, Len(key) + 1) = Append(key, s)
<1>1. PICK q, n : q = Append(key, s) /\ n = Len(key)
  OBVIOUS
<1>2. q \in Seq(Nat) /\ Len(q) = n + 1 /\ q[n + 1] = s /\ n \in Nat /\ \A i \in 1 .. n : q[i] = key[i]
  BY <1>1
<1>3. SubSeq(q, 1, n) = key
  BY <1>1, <1>2
<1>4. SubSeq(q, 1, n + 1) = q
  BY <1>2, WholeIsPrefix
<1>. QED
  BY <1>1, <1>2, <1>3, <1>4

LEMMA SearchAppend ==
  ASSUME NEW t, TreeOK(t), NEW key \in Seq(Nat), NEW s \in Nat, NEW m \in Node(t), NEW k \in Node(t),
         search_node(t, key) = m, EdgeTo(t, m, s, k)
  PROVE  Append(key, s) \in Seq(Nat) /\ Len(Append(key, s)) = Len(key) + 1 /\ search_node(t, Append(key, s)) = k
<1>1. PICK q, n : q = Append(key, s) /\ n = Len(key) + 1
  OBVIOUS
<1>2. q \in Seq(Nat) /\ Len(q) = n /\ q[n] = s /\ SubSeq(q, 1, n) = q /\ SubSeq(q, 1, n - 1) = key /\ n \in 1 .. Len(q)
  <2>1. Len(key) \in Nat /\ n - 1 = Len(key)
    BY <1>1
  <2>. QED
    BY <1>1, <2>1, AppendIs
<1>3. search_node(t, SubSeq(q, 1, n)) =
        IF search_node(t, SubSeq(q, 1, n - 1)) = Null THEN Null ELSE Kid(t, search_node(t, SubSeq(q, 1, n - 1)), q[n])
  BY <1>2, SearchStep
<1>4. m # Null
  BY NullIsNoNumber DEF TreeOK
<1>5. Kid(t, m, s) = k
  BY KidFollows
<1>. QED
  BY <1>1, <1>2, <1>3, <1>4, <1>5

(* The end of a stem does branch, or has nothing below.                      *)
LEMMA StemEndForks ==
  ASSUME NEW t, TreeOK(t), NEW n \in Stems(t)
  PROVE  Len(t.node[StemEnd(t, n)].edge) # 1
<1>1. PICK c : c = Cardinality(Node(t))
  OBVIOUS
<1>2. c \in Nat
  BY <1>1, FS_CardinalityType DEF TreeOK
<1>3. PICK i \in DOMAIN t.node[Root].edge : n = t.node[Root].edge[i].kid
  BY DEF Stems
<1>4. EdgeTo(t, Root, t.node[Root].edge[i].s, n) /\ Root \in Node(t)
  BY <1>3 DEF EdgeTo, TreeOK
<1>5. n \in Node(t) \ {Root} /\ t.node[Root].edge[i].s \in Nat
  BY <1>4, EdgesDiffer
<1>6. PICK s : Stem(t, n, s) /\ StemEnd(t, n) = s[c]
  BY <1>1, <1>5, StemFound
<1>7. /\ s \in [0 .. c -> Node(t) \ {Root}] /\ s[0] = n
      /\ \A k \in 1 .. c : s[k] = IF Len(t.node[s[k - 1]].edge) = 1 THEN t.node[s[k - 1]].edge[1].kid ELSE s[k - 1]
  BY <1>1, <1>6 DEF Stem
<1>. DEFINE Far(k) == \E key \in Seq(Nat) : Len(key) = k + 1 /\ search_node(t, key) = s[k]
            P == {k \in 0 .. c : Len(t.node[s[k]].edge) # 1 \/ Far(k)}
<1>8. 0 \in P
  <2>1. << >> \in Seq(Nat) /\ Len(<< >>) = 0
    OBVIOUS
  <2>2. search_node(t, << >>) = Root
    BY <2>1, SearchTyped
  <2>3. PICK r : r = t.node[Root].edge[i].s
    OBVIOUS
  <2>4. PICK e : e = << >>
    OBVIOUS
  <2>5. Append(e, r) \in Seq(Nat) /\ Len(Append(e, r)) = Len(e) + 1 /\ search_node(t, Append(e, r)) = n
    BY <1>4, <1>5, <2>1, <2>2, <2>3, <2>4, SearchAppend
  <2>6. Far(0)
    BY <1>7, <2>1, <2>4, <2>5
  <2>. QED
    BY <1>2, <2>6
<1>9. ASSUME NEW k \in 1 .. c, k - 1 \in P PROVE k \in P
  <2>1. k \in 0 .. c /\ k - 1 \in 0 .. c /\ k - 1 + 1 = k
    BY <1>2
  <2>2. PICK m : m = s[k - 1]
    OBVIOUS
  <2>3. m \in Node(t) /\ s[k] \in Node(t) /\ s[k] = IF Len(t.node[m].edge) = 1 THEN t.node[m].edge[1].kid ELSE m
    BY <1>7, <2>1, <2>2
  <2>4. CASE Len(t.node[m].edge) # 1
    BY <2>1, <2>3, <2>4
  <2>5. CASE Len(t.node[m].edge) = 1
    <3>1. PICK key \in Seq(Nat) : Len(key) = k /\ search_node(t, key) = m
      BY <1>9, <2>1, <2>2, <2>5
    <3>2. EdgeTo(t, m, t.node[m].edge[1].s, s[k])
      BY <2>3, <2>5, OnlyKid
    <3>3. t.node[m].edge[1].s \in Nat
      BY <2>3, <3>2, EdgesDiffer
    <3>4. PICK r : r = t.node[m].edge[1].s
      OBVIOUS
    <3>5. Append(key, r) \in Seq(Nat) /\ Len(Append(key, r)) = k + 1 /\ search_node(t, Append(key, r)) = s[k]
      BY <2>3, <3>1, <3>2, <3>3, <3>4, SearchAppend
    <3>6. Far(k)
      BY <3>5
    <3>. QED
      BY <2>1, <3>6
  <2>. QED
    BY <2>4, <2>5
<1>10. \A k \in 0 .. c : k \in P
  <2>. HIDE DEF P
  <2>. QED
    BY <1>2, <1>8, <1>9, CountUp
<1>11. c \in 0 .. c
  BY <1>2
<1>12. ~ Far(c)
  <2>1. SUFFICES ASSUME NEW key \in Seq(Nat), Len(key) = c + 1, search_node(t, key) = s[c] PROVE FALSE
    OBVIOUS
  <2>2. s[c] # Null
    BY <1>7, <1>11, NullIsNoNumber DEF TreeOK
  <2>3. PICK f : Way(t, key, f) /\ search_node(t, key) = f[Len(key)]
    BY WayFound
  <2>4. PICK k : k = Len(key)
    OBVIOUS
  <2>5. k \in 0 .. Len(key) /\ f[k] # Null
    BY <1>2, <2>1, <2>2, <2>3, <2>4
  <2>6. k < Cardinality(Node(t))
    BY <2>3, <2>5, WaysEnd
  <2>. QED
    BY <1>1, <1>2, <2>1, <2>4, <2>6
<1>13. c \in P
  <2>. HIDE DEF P, Far
  <2>. QED
    BY <1>10, <1>11
<1>14. Len(t.node[s[c]].edge) # 1
  <2>. HIDE DEF Far
  <2>. QED
    BY <1>12, <1>13
<1>. QED
  BY <1>6, <1>14

(* A word is cut exactly if its way branches before its end.                  *)
Forks(t, w) == \E k \in 1 .. Len(w) - 1 : Len(t.node[search_node(t, SubSeq(w, 1, k))].edge) > 1

LEMMA CutIfForks ==
  ASSUME NEW t, TreeOK(t), NEW w \in Seq(Nat), w # << >>, search_node(t, w) # Null
  PROVE  search_node(t, w) \in Cut(t) <=> Forks(t, w)
<1>1. PICK n : n = Len(w)
  OBVIOUS
<1>2. n \in Nat \ {0}
  BY <1>1
<1>3. PICK f : Way(t, w, f) /\ search_node(t, w) = f[n]
  BY <1>1, WayFound
<1>4. \A k \in 0 .. n : f[k] # Null
  BY <1>1, <1>2, <1>3, WayBack
<1>5. \A k \in 1 .. n : /\ f[k - 1] \in Node(t) /\ f[k] \in Node(t) /\ f[k] # Root
                        /\ EdgeTo(t, f[k - 1], w[k], f[k]) /\ Parent(t, f[k]) = f[k - 1]
  <2>1. ASSUME NEW k \in 1 .. n
        PROVE  /\ f[k - 1] \in Node(t) /\ f[k] \in Node(t) /\ f[k] # Root
               /\ EdgeTo(t, f[k - 1], w[k], f[k]) /\ Parent(t, f[k]) = f[k - 1]
    <3>1. k \in 1 .. Len(w) /\ f[k] # Null
      BY <1>1, <1>2, <1>4
    <3>. QED
      BY <1>3, <3>1, WayStep
  <2>. QED
    BY <2>1
<1>6. ASSUME NEW k \in 1 .. n - 1 PROVE search_node(t, SubSeq(w, 1, k)) = f[k]
  <2>1. k \in 0 .. Len(w)
    BY <1>1, <1>2
  <2>. QED
    BY <1>3, <2>1, PrefixOnWay
<1>7. ASSUME Forks(t, w) PROVE f[n] \in Cut(t)
  <2>1. PICK k \in 1 .. n - 1 : Len(t.node[f[k]].edge) > 1
    BY <1>1, <1>6, <1>7 DEF Forks
  <2>2. /\ k \in 1 .. Len(w) /\ k \in 1 .. Len(w) - 1 /\ k \in 0 .. n /\ k + 1 \in 0 .. n /\ 1 \in 1 .. n
        /\ k + 1 \in 0 .. Len(w) /\ n \in 0 .. Len(w) /\ k + 1 <= n
    BY <1>1, <1>2
  <2>3. f[1] \in Node(t) \ {Root}
    BY <1>5, <2>2
  <2>4. PICK s : Stem(t, f[1], s) /\ StemEnd(t, f[1]) = s[Cardinality(Node(t))]
    BY <2>3, StemFound
  <2>5. f[k] # Null /\ f[k + 1] # Null /\ f[n] # Null
    BY <1>4, <2>2
  <2>6. t.node[f[k]].edge \in Seq(EdgeRec)
    <3>1. f[k] \in Node(t)
      BY <1>2, <1>5
    <3>. QED
      BY <3>1 DEF TreeOK, NodeRec
  <2>7. Len(t.node[f[k]].edge) # 1
    <3>1. PICK x : x = Len(t.node[f[k]].edge)
      OBVIOUS
    <3>2. x > 1
      BY <2>1, <3>1
    <3>3. x # 1
      BY <3>2
    <3>. QED
      BY <3>1, <3>3
  <2>8. f[k + 1] \in Cut(t)
    BY <1>3, <2>2, <2>4, <2>5, <2>7, WayOnStem
  <2>9. PICK j : j = k + 1
    OBVIOUS
  <2>. QED
    BY <1>3, <2>2, <2>5, <2>8, <2>9, CutDeeper
<1>8. ASSUME ~ Forks(t, w) PROVE f[n] \notin Cut(t)
  <2>1. ASSUME NEW k \in 1 .. n - 1 PROVE Len(t.node[f[k]].edge) = 1
    <3>1. k + 1 \in 1 .. n /\ k + 1 - 1 = k
      BY <1>2
    <3>2. PICK m, l, a : m = f[k] /\ l = f[k + 1] /\ a = w[k + 1]
      OBVIOUS
    <3>3. m \in Node(t) /\ EdgeTo(t, m, a, l)
      BY <1>5, <3>1, <3>2
    <3>4. PICK x : x = Len(t.node[m].edge)
      OBVIOUS
    <3>5. x \in Nat \ {0}
      BY <3>3, <3>4, NoEdgeNoKid
    <3>6. ~ x > 1
      BY <1>1, <1>6, <1>8, <3>2, <3>4 DEF Forks
    <3>7. x = 1
      BY <3>5, <3>6
    <3>. QED
      BY <3>2, <3>4, <3>7
  <2>. DEFINE P == {k \in 0 .. n : f[k] \notin Cut(t)}
  <2>2. 0 \in P
    BY <1>2, <1>3, CutIs DEF Way
  <2>3. ASSUME NEW k \in 1 .. n, k - 1 \in P PROVE k \in P
    <3>1. k \in 0 .. n /\ f[k - 1] \notin Cut(t)
      BY <1>2, <2>3
    <3>2. f[k - 1] \notin StemEnds(t)
      <4>1. CASE k = 1
        <5>1. f[k - 1] = Root
          BY <1>3, <4>1 DEF Way
        <5>. QED
          BY <5>1, CutIs
      <4>2. CASE k # 1
        <5>1. k - 1 \in 1 .. n - 1
          BY <1>2, <4>2
        <5>2. Len(t.node[f[k - 1]].edge) = 1
          BY <2>1, <5>1
        <5>. QED
          BY <5>2, StemEndForks DEF StemEnds
      <4>. QED
        BY <4>1, <4>2
    <3>3. f[k] \in Node(t) /\ f[k] # Root /\ Parent(t, f[k]) = f[k - 1]
      BY <1>5
    <3>. QED
      BY <3>1, <3>2, <3>3, CutIs
  <2>4. \A k \in 0 .. n : k \in P
    <3>. HIDE DEF P
    <3>. QED
      BY <1>2, <2>2, <2>3, CountUp
  <2>5. n \in 0 .. n
    BY <1>2
  <2>. QED
    BY <2>4, <2>5
<1>. QED
  BY <1>3, <1>7, <1>8

LEMMA TrimOfForks ==
  ASSUME TreeInv, pt_trim, NEW w \in Word, StoredAt(w) # Null
  PROVE  StoredAt(w)' = Null <=>
           \E k \in 1 .. Len(w) - 1 : Len(trie.node[search_node(trie, SubSeq(w, 1, k))].edge) > 1
<1>1. PICK t, u : t = trie /\ u = trie'
  OBVIOUS
<1>2. /\ t # NoTrie /\ u # NoTrie /\ WellKept(t)
      /\ StoredUnder(u, w) = IF search_node(t, w) \in Cut(t) THEN Null ELSE StoredUnder(t, w)
  BY <1>1, TrimDoes DEF Cut
<1>3. StoredAt(w) = StoredUnder(t, w) /\ StoredAt(w)' = StoredUnder(u, w)
  BY <1>1, <1>2 DEF StoredAt, StoredUnder
<1>4. search_node(t, w) # Null
  BY <1>3 DEF StoredUnder
<1>5. TreeOK(t)
  BY <1>2 DEF WellKept
<1>6. search_node(t, w) \in Cut(t) <=> Forks(t, w)
  BY <1>4, <1>5, WordsAre, CutIfForks
<1>7. StoredAt(w)' = Null <=> Forks(t, w)
  BY <1>2, <1>3, <1>6
<1>. QED
  BY <1>1, <1>7 DEF Forks

(* A trim removes exactly the words whose way parts from another's before      *)
(* their end, and keeps stems whole (pt_trim, __pt_trim).                     *)
THEOREM TrimsKeepWhips == TreeSpec => TrimKeepsWhips
<1>. DEFINE Keeps == pt_trim => \A w \in Word : StoredAt(w) # Null =>
                   (StoredAt(w)' = Null <=> \E k \in 1 .. Len(w) - 1 :
                      Len(trie.node[search_node(trie, SubSeq(w, 1, k))].edge) > 1)
<1>1. TreeInit => TreeInv
  BY InitHolds
<1>2. TreeInv /\ [TreeNext]_treeVars => TreeInv'
  BY TreeInductive
<1>3. TreeInv => Keeps
  BY TrimOfForks
<1>4. TrimKeepsWhips <=> [][Keeps]_treeVars
  BY DEF TrimKeepsWhips
<1>. HIDE DEF Keeps
<1>5. TreeSpec => [][Keeps]_treeVars
  BY <1>1, <1>2, <1>3, PTL DEF TreeSpec
<1>. QED
  BY <1>4, <1>5

-----------------------------------------------------------------------------

(* The dictionary that a tree is, and the word where its caller is.            *)
WordsHold(t) == [w \in Word |-> StoredUnder(t, w)]

AliveIn(t, f) == [w \in Word |-> IF StoredUnder(t, w) \in f THEN Null ELSE StoredUnder(t, w)]

AtOf(t, r) == IF r = Null THEN Null ELSE CHOOSE w \in Word : search_node(t, w) = r

LEMMA DictIs ==
  /\ [w \in Word |-> KeptAt(w)] = AliveIn(trie, freed)
  /\ [w \in Word |-> KeptAt(w)]' = AliveIn(trie', freed')
<1>1. \A w \in Word : StoredAt(w) = StoredUnder(trie, w)
  BY DEF StoredAt, StoredUnder
<1>2. \A w \in Word : StoredAt(w)' = StoredUnder(trie', w)
  BY DEF StoredAt, StoredUnder
<1>. QED
  BY <1>1, <1>2 DEF AliveIn, KeptAt

(* When nothing dangles, all that is stored is alive.                        *)
LEMMA AllAlive ==
  ASSUME NEW t, t = NoTrie \/ WellKept(t), NEW f \in SUBSET Datum, DataOf(t) \cap f = {}
  PROVE  AliveIn(t, f) = WordsHold(t)
<1>1. \A w \in Word : StoredUnder(t, w) # Null => StoredUnder(t, w) \in DataOf(t)
  BY DataAre
<1>2. \A w \in Word : StoredUnder(t, w) \notin f
  BY <1>1, TreeAssumption
<1>. QED
  BY <1>2 DEF AliveIn, WordsHold

LEMMA CleanDict ==
  ASSUME TidyInv, ~ Dangling
  PROVE  [w \in Word |-> KeptAt(w)] = WordsHold(trie)
<1>1. (trie = NoTrie \/ WellKept(trie)) /\ freed \in SUBSET Datum /\ DataOf(trie) \cap freed = {}
  BY DEF TidyInv, TreeInv, Dangling
<1>. QED
  BY <1>1, AllAlive, DictIs

LEMMA OrderlyDict ==
  ASSUME Orderly
  PROVE  [w \in Word |-> KeptAt(w)]' = WordsHold(trie')
<1>1. PICK t, f : t = trie' /\ f = freed'
  OBVIOUS
<1>2. (t = NoTrie \/ WellKept(t)) /\ f \in SUBSET Datum /\ DataOf(t) \cap f = {}
  BY <1>1 DEF Orderly, TreeInv
<1>3. AliveIn(t, f) = WordsHold(t)
  BY <1>2, AllAlive
<1>. QED
  BY <1>1, <1>3, DictIs

LEMMA AtIs ==
  ASSUME NEW t, t = NoTrie \/ WellKept(t), NEW r, RefOK(t, r)
  PROVE  /\ r = Null => AtOf(t, r) = Null
         /\ r # Null => AtOf(t, r) \in Word /\ AtOf(t, r) # Null /\ search_node(t, AtOf(t, r)) = r
         /\ r # Null => \A w \in Word : search_node(t, w) = r <=> w = AtOf(t, r)
<1>1. r = Null => AtOf(t, r) = Null
  BY DEF AtOf
<1>2. ASSUME r # Null PROVE AtOf(t, r) \in Word /\ search_node(t, AtOf(t, r)) = r
  BY <1>2 DEF AtOf, RefOK
<1>3. ASSUME r # Null, NEW w \in Word, search_node(t, w) = r PROVE w = AtOf(t, r)
  <2>1. TreeOK(t)
    BY <1>3 DEF RefOK, WellKept
  <2>2. PICK v : v = AtOf(t, r)
    OBVIOUS
  <2>3. v \in Word /\ search_node(t, v) = r
    BY <1>2, <1>3, <2>2
  <2>. QED
    BY <1>3, <2>1, <2>2, <2>3, WordsAre, SearchDiffers
<1>. QED
  BY <1>1, <1>2, <1>3, WordsAre

LEMMA LookupMaps ==
  ASSUME TreeInv', SameStored(trie, trie'), freed' = freed
  PROVE  Dict!Lookup
<1>1. AliveIn(trie', freed') = AliveIn(trie, freed)
  BY DEF AliveIn, SameStored
<1>2. AtOf(trie', ref') \in Word \cup {Null}
  BY AtIs DEF TreeInv
<1>. QED
  BY <1>1, <1>2, DictIs DEF Dict!Lookup, AtOf

LEMMA StoreMaps ==
  ASSUME TidyInv, NEW d \in Datum \cup {Null}, pt_set(d), d = Null \/ ~ Dangling
  PROVE  Dict!Store(d)
<1>1. PICK t, u, r : t = trie /\ u = trie' /\ r = ref
  OBVIOUS
<1>2. /\ TreeInv' /\ ref' = r /\ r # Null /\ freed' = freed \ {d}
      /\ \A w \in Seq(Nat) : search_node(u, w) = search_node(t, w)
      /\ \A w \in Word : StoredUnder(u, w) = IF search_node(t, w) = r THEN d ELSE StoredUnder(t, w)
  BY <1>1, SetDoes DEF TidyInv
<1>3. (t = NoTrie \/ WellKept(t)) /\ RefOK(t, r) /\ (u = NoTrie \/ WellKept(u)) /\ RefOK(u, r)
  BY <1>1, <1>2 DEF TidyInv, TreeInv
<1>4. PICK a : a = AtOf(t, r)
  OBVIOUS
<1>5. a \in Word /\ a # Null /\ \A w \in Word : search_node(t, w) = r <=> w = a
  BY <1>2, <1>3, <1>4, AtIs
<1>6. AtOf(u, r) = a
  <2>1. search_node(u, a) = r
    BY <1>2, <1>5, WordsAre
  <2>2. \A w \in Word : search_node(u, w) = r <=> w = AtOf(u, r)
    BY <1>2, <1>3, AtIs
  <2>. QED
    BY <1>5, <2>1, <2>2
<1>7. AliveIn(u, freed') = [AliveIn(t, freed) EXCEPT ![a] = d]
  <2>1. \A w \in Word : StoredUnder(t, w) \in freed' <=> StoredUnder(t, w) \in freed
    <3>. freed \subseteq Datum
      BY DEF TidyInv, TreeInv
    <3>1. d = Null => freed' = freed
      BY <1>2, TreeAssumption
    <3>2. d # Null => DataOf(t) \cap freed = {}
      BY <1>1 DEF Dangling
    <3>3. d # Null => \A w \in Word : StoredUnder(t, w) \notin freed
      BY <1>3, <3>2, DataAre, TreeAssumption
    <3>. QED
      BY <1>2, <3>1, <3>3
  <2>2. d \notin freed'
    BY <1>2
  <2>3. \A w \in Word : StoredUnder(u, w) = IF w = a THEN d ELSE StoredUnder(t, w)
    BY <1>2, <1>5
  <2>. QED
    BY <1>5, <2>1, <2>2, <2>3 DEF AliveIn
<1>8. AtOf(trie, ref) = a /\ AtOf(trie', ref') = a
  BY <1>1, <1>2, <1>4, <1>6
<1>. QED
  BY <1>1, <1>2, <1>5, <1>7, <1>8, DictIs DEF Dict!Store, AtOf

-----------------------------------------------------------------------------

(* Two words that begin with the same letter and are not cut lie on one stem.   *)
LEMMA WhipPrefix ==
  ASSUME NEW t, TreeOK(t), NEW v \in Seq(Nat), NEW w \in Seq(Nat), v # << >>, v[1] = w[1], Len(v) <= Len(w),
         search_node(t, v) # Null, search_node(t, w) # Null,
         search_node(t, v) \notin Cut(t), search_node(t, w) \notin Cut(t)
  PROVE  v = SubSeq(w, 1, Len(v))
<1>1. PICK m, n : m = Len(v) /\ n = Len(w)
  OBVIOUS
<1>2. m \in Nat \ {0} /\ n \in Nat /\ m <= n
  BY <1>1
<1>3. PICK f : Way(t, v, f) /\ search_node(t, v) = f[m]
  BY <1>1, WayFound
<1>4. PICK g : Way(t, w, g) /\ search_node(t, w) = g[n]
  BY <1>1, WayFound
<1>5. f[m] # Null /\ g[n] # Null /\ f[m] \notin Cut(t) /\ g[n] \notin Cut(t)
  BY <1>3, <1>4
<1>6. f[1] = g[1]
  <2>1. PICK j : j = 1
    OBVIOUS
  <2>2. Shared(v, w, j)
    BY <1>1, <1>2, <2>1 DEF Shared
  <2>3. \A k \in 0 .. j : f[k] = g[k]
    BY <1>3, <1>4, <2>2, WaysAgree
  <2>. QED
    BY <2>1, <2>3
<1>7. 1 \in 0 .. Len(v) /\ 1 \in 1 .. Len(v) /\ m \in 0 .. Len(v) /\ m \in 1 .. Len(v)
  BY <1>1, <1>2
<1>8. m \in 1 .. Len(w) /\ m \in 0 .. Len(w) /\ n \in 0 .. Len(w)
  BY <1>1, <1>2
<1>9. f[1] \in Node(t) \ {Root}
  <2>1. PICK i : i = 1
    OBVIOUS
  <2>2. f[i] # Null
    BY <1>2, <1>3, <1>5, <1>7, <2>1, WayBack
  <2>3. f[i] \in Node(t) /\ f[i] # Root
    BY <1>3, <1>7, <2>1, <2>2, WayStep
  <2>. QED
    BY <2>1, <2>3
<1>10. PICK s : Stem(t, f[1], s) /\ StemEnd(t, f[1]) = s[Cardinality(Node(t))]
  BY <1>9, StemFound
<1>11. f[m] = s[m - 1]
  BY <1>3, <1>5, <1>7, <1>10, WayOnStem
<1>12. g[m] # Null
  BY <1>2, <1>4, <1>5, <1>8, WayBack
<1>13. g[m] \notin Cut(t)
  BY <1>2, <1>4, <1>5, <1>8, CutDeeper
<1>14. Stem(t, g[1], s) /\ StemEnd(t, g[1]) = s[Cardinality(Node(t))]
  BY <1>6, <1>10
<1>15. g[m] = s[m - 1]
  BY <1>4, <1>8, <1>12, <1>13, <1>14, WayOnStem
<1>16. f[m] = g[m]
  BY <1>11, <1>15
<1>17. Shared(v, w, m)
  BY <1>3, <1>4, <1>5, <1>7, <1>8, <1>16, WaysDiffer
<1>18. \A k \in 1 .. m : v[k] = w[k]
  BY <1>17 DEF Shared
<1>19. PICK p : p = SubSeq(w, 1, m)
  OBVIOUS
<1>20. p \in Seq(Nat) /\ Len(p) = m /\ \A k \in 1 .. m : p[k] = w[k]
  BY <1>2, <1>8, <1>19
<1>21. v = [k \in 1 .. m |-> v[k]] /\ p = [k \in 1 .. m |-> p[k]]
  BY <1>1, <1>20
<1>22. v = p
  BY <1>18, <1>20, <1>21
<1>. QED
  BY <1>1, <1>19, <1>22

(* The caller's word stays, or is forgotten.                                *)
LEMMA AtStays ==
  ASSUME NEW t, t = NoTrie \/ WellKept(t), NEW u, u = NoTrie \/ WellKept(u), NEW r, RefOK(t, r),
         NEW q \in {r, Null}, RefOK(u, q), \A w \in Seq(Nat) : search_node(u, w) \in {search_node(t, w), Null}
  PROVE  AtOf(u, q) \in {AtOf(t, r), Null}
<1>1. CASE q = Null
  BY <1>1, AtIs
<1>2. CASE q # Null
  <2>1. q = r
    BY <1>2
  <2>2. PICK a : a = AtOf(u, q)
    OBVIOUS
  <2>3. a \in Word /\ search_node(u, a) = r
    BY <1>2, <2>1, <2>2, AtIs
  <2>4. search_node(t, a) = r
    BY <1>2, <2>1, <2>3, WordsAre
  <2>5. \A w \in Word : search_node(t, w) = r <=> w = AtOf(t, r)
    BY <1>2, <2>1, AtIs
  <2>. QED
    BY <2>2, <2>3, <2>4, <2>5
<1>. QED
  BY <1>1, <1>2

LEMMA TrimMaps ==
  ASSUME TidyInv, ~ Dangling, pt_trim
  PROVE  Dict!Remove
<1>1. PICK t, u : t = trie /\ u = trie'
  OBVIOUS
<1>2. /\ TreeInv' /\ t # NoTrie /\ u # NoTrie /\ ref' \in {ref, Null}
      /\ \A w \in Seq(Nat) : search_node(u, w) \in {search_node(t, w), Null}
      /\ \A w \in Word : StoredUnder(u, w) = IF search_node(t, w) \in Cut(t) THEN Null ELSE StoredUnder(t, w)
      /\ freed' = freed \cup LostData(t, u)
  BY <1>1, TrimDoes DEF Cut, TidyInv
<1>3. WellKept(t) /\ TreeOK(t) /\ WellKept(u) /\ RefOK(t, ref) /\ RefOK(u, ref')
  BY <1>1, <1>2 DEF TidyInv, TreeInv, WellKept
<1>4. PICK c, d : c = WordsHold(t) /\ d = WordsHold(u)
  OBVIOUS
<1>5. \A w \in Word : c[w] = StoredUnder(t, w) /\ d[w] = StoredUnder(u, w)
  BY <1>4 DEF WordsHold
<1>6. PICK gone : gone = {w \in Word : c[w] # Null /\ d[w] = Null}
  OBVIOUS
<1>7. \A w \in Word : d[w] # Null => d[w] = c[w] /\ search_node(t, w) \notin Cut(t) /\ search_node(t, w) # Null
  BY <1>2, <1>5 DEF StoredUnder
<1>8. freed' = freed \cup {c[w] : w \in gone}
  <2>1. gone = LostWords(t, u)
    BY <1>5, <1>6 DEF LostWords
  <2>2. LostData(t, u) = {c[w] : w \in gone}
    BY <1>5, <1>6, <2>1 DEF LostData
  <2>. QED
    BY <1>2, <2>2
<1>9. AtOf(trie', ref') \in {AtOf(trie, ref), Null}
  BY <1>1, <1>2, <1>3, AtStays
<1>10. PICK kept : kept = {w \in Word : d[w] # Null}
  OBVIOUS
<1>11. \A w \in kept : d[w] = c[w]
  BY <1>7, <1>10
<1>12. ASSUME NEW v \in kept, NEW w \in kept, v[1] = w[1]
       PROVE  \/ Len(v) <= Len(w) /\ v = SubSeq(w, 1, Len(v))
              \/ Len(w) <= Len(v) /\ w = SubSeq(v, 1, Len(w))
  <2>1. v \in Word /\ w \in Word
    BY <1>10
  <2>2. /\ v \in Seq(Nat) /\ w \in Seq(Nat) /\ v # << >> /\ w # << >>
        /\ Len(v) \in Nat /\ Len(w) \in Nat
    BY <2>1, WordsAre
  <2>3. /\ search_node(t, v) # Null /\ search_node(t, w) # Null
        /\ search_node(t, v) \notin Cut(t) /\ search_node(t, w) \notin Cut(t)
    BY <1>7, <1>10, <2>1
  <2>4. CASE Len(v) <= Len(w)
    BY <1>3, <1>12, <2>2, <2>3, <2>4, WhipPrefix
  <2>5. CASE Len(w) <= Len(v)
    BY <1>3, <1>12, <2>2, <2>3, <2>5, WhipPrefix
  <2>. QED
    BY <2>2, <2>4, <2>5
<1>13. c = [w \in Word |-> KeptAt(w)] /\ d = [w \in Word |-> KeptAt(w)]'
  BY <1>1, <1>4, CleanDict, OthersAreOrderly, OrderlyDict DEF Others
<1>14. Dict!Gone = gone
  BY <1>6, <1>13 DEF Dict!Gone
<1>15. Dict!Whips(kept)
  BY <1>12 DEF Dict!Whips, Dict!Prefix
<1>. QED
  BY <1>8, <1>9, <1>10, <1>11, <1>13, <1>14, <1>15 DEF Dict!Remove, AtOf

LEMMA NukeMaps ==
  ASSUME TidyInv, ~ Dangling, pt_nuke
  PROVE  Dict!Remove
<1>1. PICK t : t = trie
  OBVIOUS
<1>2. TreeInv' /\ trie' = NoTrie /\ ref' = Null /\ freed' = freed \cup LostData(t, NoTrie) /\ t # NoTrie
  BY <1>1, NukeDoes DEF TidyInv
<1>3. PICK c, d : c = WordsHold(t) /\ d = WordsHold(NoTrie)
  OBVIOUS
<1>4. \A w \in Word : c[w] = StoredUnder(t, w) /\ d[w] = Null
  BY <1>3 DEF WordsHold, StoredUnder
<1>5. PICK gone : gone = {w \in Word : c[w] # Null /\ d[w] = Null}
  OBVIOUS
<1>6. gone = LostWords(t, NoTrie)
  BY <1>4, <1>5 DEF LostWords, StoredUnder
<1>7. LostData(t, NoTrie) = {c[w] : w \in gone}
  BY <1>4, <1>5, <1>6 DEF LostData
<1>8. freed' = freed \cup {c[w] : w \in gone}
  BY <1>2, <1>7
<1>9. AtOf(trie', ref') = Null
  BY <1>2 DEF AtOf
<1>10. PICK kept : kept = {w \in Word : d[w] # Null}
  OBVIOUS
<1>11. kept = {}
  BY <1>4, <1>10
<1>12. c = [w \in Word |-> KeptAt(w)] /\ d = [w \in Word |-> KeptAt(w)]'
  BY <1>1, <1>2, <1>3, CleanDict, OthersAreOrderly, OrderlyDict DEF Others
<1>13. Dict!Gone = gone
  BY <1>5, <1>12 DEF Dict!Gone
<1>14. Dict!Whips(kept)
  BY <1>11 DEF Dict!Whips
<1>. QED
  BY <1>8, <1>9, <1>10, <1>11, <1>12, <1>13, <1>14 DEF Dict!Remove, AtOf

(* A word that is deleted goes alone, though the tree keeps its node.           *)
LEMMA DelMaps ==
  ASSUME TidyInv, ~ Dangling, NEW key \in Word, pt_del(key), StoredAt(key) # Null
  PROVE  Dict!Remove
<1>1. PICK t, u, x : t = trie /\ u = trie' /\ x = StoredUnder(t, key)
  OBVIOUS
<1>2. x = StoredAt(key) /\ x # Null
  BY <1>1 DEF StoredAt, StoredUnder
<1>3. /\ TreeInv' /\ SameStored(t, u) /\ ref' \in {ref, Null}
      /\ \A w \in Seq(Nat) : search_node(u, w) \in {search_node(t, w), Null}
      /\ freed' = freed \cup {x}
  BY <1>1, <1>2, DelDoes DEF TidyInv
<1>4. /\ t = NoTrie \/ WellKept(t)
      /\ u = NoTrie \/ WellKept(u)
      /\ RefOK(t, ref) /\ RefOK(u, ref') /\ OneWordEach(t) /\ DataOf(t) \cap freed = {} /\ freed \subseteq Datum
  BY <1>1, <1>3 DEF TidyInv, TreeInv, Dangling
<1>5. PICK c, d : c = WordsHold(t) /\ d = AliveIn(u, freed')
  OBVIOUS
<1>6. ASSUME NEW w \in Word PROVE c[w] = StoredUnder(t, w) /\ d[w] = IF w = key THEN Null ELSE c[w]
  <2>1. StoredUnder(u, w) = StoredUnder(t, w)
    BY <1>3 DEF SameStored
  <2>2. StoredUnder(t, w) \notin freed
    BY <1>4, DataAre, TreeAssumption
  <2>3. StoredUnder(t, w) = x <=> w = key
    BY <1>1, <1>2, <1>4 DEF OneWordEach
  <2>. QED
    BY <1>3, <1>5, <2>1, <2>2, <2>3 DEF WordsHold, AliveIn
<1>7. PICK gone : gone = {w \in Word : c[w] # Null /\ d[w] = Null}
  OBVIOUS
<1>8. gone = {key} /\ c[key] = x
  BY <1>1, <1>2, <1>6, <1>7
<1>9. \A v, w \in gone : v = w
  BY <1>8
<1>10. freed' = freed \cup {c[w] : w \in gone}
  BY <1>3, <1>8
<1>11. AtOf(trie', ref') \in {AtOf(trie, ref), Null}
  BY <1>1, <1>3, <1>4, AtStays
<1>12. c = [w \in Word |-> KeptAt(w)] /\ d = [w \in Word |-> KeptAt(w)]'
  BY <1>1, <1>5, CleanDict, DictIs
<1>13. Dict!Gone = gone
  BY <1>7, <1>12 DEF Dict!Gone
<1>14. PICK kept : kept = {w \in Word : d[w] # Null}
  OBVIOUS
<1>15. \A w \in kept : d[w] = c[w]
  BY <1>6, <1>14
<1>. QED
  BY <1>9, <1>10, <1>11, <1>12, <1>13, <1>14, <1>15 DEF Dict!Remove, AtOf

LEMMA TreeMaps == TidyInv /\ [TidyNext]_treeVars => [Dict!Next]_(Dict!vars)
<1>. SUFFICES ASSUME TidyInv, [TidyNext]_treeVars PROVE [Dict!Next]_(Dict!vars)
  OBVIOUS
<1>1. TreeInv
  BY DEF TidyInv
<1>2. CASE \E key \in Word : pt_get(key) \/ pt_add(key) \/ pt_add_fails(key)
  <2>1. TreeInv' /\ SameStored(trie, trie') /\ freed' = freed
    BY <1>1, <1>2, LookupDoes
  <2>. QED
    BY <2>1, LookupMaps DEF Dict!Next
<1>3. CASE pt_set(Null)
  BY <1>3, StoreMaps DEF Dict!Next
<1>4. CASE ~ Dangling /\ \E d \in Datum \cup {Null} : pt_set(d)
  BY <1>4, StoreMaps DEF Dict!Next
<1>5. CASE ~ Dangling /\ pt_trim
  BY <1>5, TrimMaps DEF Dict!Next
<1>6. CASE ~ Dangling /\ pt_nuke
  BY <1>6, NukeMaps DEF Dict!Next
<1>7. CASE ~ Dangling /\ \E key \in Word : pt_del(key)
  <2>1. PICK key \in Word : pt_del(key)
    BY <1>7
  <2>2. CASE StoredAt(key) # Null
    BY <1>7, <2>1, <2>2, DelMaps DEF Dict!Next
  <2>3. CASE StoredAt(key) = Null
    <3>1. TreeInv' /\ SameStored(trie, trie') /\ freed' = freed
      BY <1>1, <2>1, <2>3, DelDoes
    <3>. QED
      BY <3>1, LookupMaps DEF Dict!Next
  <2>. QED
    BY <2>2, <2>3
<1>8. CASE Exits
  <2>1. trie' = trie /\ freed' = freed /\ ref' = Null
    BY <1>8 DEF Exits, pt_add_exits
  <2>2. TreeInv' /\ SameStored(trie, trie')
    BY <1>1, <2>1 DEF TreeInv, RefOK, SameStored
  <2>. QED
    BY <2>1, <2>2, LookupMaps DEF Dict!Next
<1>9. CASE UNCHANGED treeVars
  BY <1>9, DictIs DEF treeVars, Dict!vars
<1>. QED
  BY <1>2, <1>3, <1>4, <1>5, <1>6, <1>7, <1>8, <1>9 DEF TidyNext, Others

LEMMA TreeStarts == TreeInit => Dict!Init
<1>. SUFFICES ASSUME TreeInit PROVE Dict!Init
  OBVIOUS
<1>1. trie = NoTrie /\ ref = Null /\ freed = {}
  BY DEF TreeInit
<1>2. \A w \in Word : KeptAt(w) = Null
  BY <1>1 DEF StoredAt, KeptAt
<1>. QED
  BY <1>1, <1>2 DEF Dict!Init

(* The tree is a dictionary for callers that clear at once what they delete:    *)
(* no word goes with another, what a trim leaves are whips, and what goes is     *)
(* destroyed once.                                                          *)
THEOREM DictionaryRefinement == TidySpec => ImplementsDictionary
BY TidyStarts, TidyInductive, TreeStarts, TreeMaps, PTL DEF TidySpec, ImplementsDictionary, Dict!Spec

=============================================================================
