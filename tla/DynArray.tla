------------------------------ MODULE DynArray ------------------------------
(***************************************************************************)
(* The dynamic array of utils/array.c: items of one size in memory that is   *)
(* doubled when it is full, and given any capacity by its user.  Sizes and    *)
(* capacities are unsigned and wrap; so does the product that is the number   *)
(* of bytes.                                                                *)
(***************************************************************************)
EXTENDS Memory, Integers, Sequences

CONSTANTS
  Item,             \* what callers keep in the array
  ItemSize,         \* in bytes
  Default,          \* ARRAY_DEFAULT_CAPACITY
  Request           \* the capacities its user asks for

ASSUME ArrayAssumption ==
  /\ Junk \notin Item
  /\ ItemSize \in Nat \ {0} /\ Default \in Nat \ {0} /\ Wrap \in Nat \ {0}
  /\ Request \subseteq 0 .. Wrap - 1

VARIABLES
  fate,      \* "running", or "overrun": memory was used that is not the array's
  mem,       \* the items that fit in the memory of the array
  nitems,
  capacity,
  rc         \* what add or setcap returned: 0 for success

arrayVars == <<fate, mem, nitems, capacity, rc>>

(* The positions that fit in the memory for c items. *)
Places(c) == {k \in 0 .. c - 1 : (k + 1) * ItemSize <= (c * ItemSize) % Wrap}

FirstCapacity(c) == IF c = 0 THEN Default ELSE c

(* new__array *)
ArrayInit ==
  /\ fate = "running"
  /\ capacity \in {FirstCapacity(c) : c \in Request}
  /\ mem = [k \in Places(capacity) |-> Junk]
  /\ nitems = 0
  /\ rc = 0

(* A fault: realloc() is replaced by free() and malloc(). *)
Reallocated_anew(c) == [k \in Places(c) |-> Junk]

(* realloc() keeps what fits. *)
Reallocated(c) == [k \in Places(c) |-> IF k \in DOMAIN mem THEN mem[k] ELSE Junk]

(* With no byte to allocate realloc() frees the memory and returns NULL. *)
Freed(c) == (c * ItemSize) % Wrap = 0

(* __array__setcap, when there is memory enough. *)
setcap(c) ==
  /\ fate = "running"
  /\ IF c = 0 THEN rc' = 1 /\ UNCHANGED <<mem, capacity>>
     ELSE /\ mem' = Reallocated(c)
          /\ rc' = IF Freed(c) THEN 1 ELSE 0
          /\ capacity' = IF Freed(c) THEN capacity ELSE c
  /\ UNCHANGED <<fate, nitems>>

(* realloc() fails, for setcap or for add. *)
setcap_fails ==
  /\ fate = "running"
  /\ rc' = 1
  /\ UNCHANGED <<fate, mem, nitems, capacity>>

Doubled == (2 * capacity) % Wrap

(* memcpy to the place after the last item of memory m. *)
Written(m, d) ==
  IF nitems \in DOMAIN m
  THEN mem' = [m EXCEPT ![nitems] = d] /\ UNCHANGED fate
  ELSE mem' = m /\ fate' = "overrun"

MustGrow == nitems = capacity

(* array__add *)
add(d) ==
  /\ fate = "running"
  /\ IF ~ MustGrow
     THEN /\ Written(mem, d)
          /\ nitems' = (nitems + 1) % Wrap
          /\ rc' = 0
          /\ UNCHANGED capacity
     ELSE IF Doubled = 0 \/ Freed(Doubled)
     THEN /\ rc' = 1
          /\ mem' = IF Doubled = 0 THEN mem ELSE Reallocated(Doubled)
          /\ UNCHANGED <<fate, nitems, capacity>>
     ELSE /\ Written(Reallocated(Doubled), d)
          /\ nitems' = nitems + 1
          /\ capacity' = Doubled
          /\ rc' = 0

AfterReset == mem

array__reset ==
  /\ fate = "running"
  /\ nitems' = 0
  /\ mem' = AfterReset
  /\ UNCHANGED <<fate, capacity, rc>>

(* array__walk visits nitems places. *)
array__walk ==
  /\ fate = "running"
  /\ fate' = IF 0 .. nitems - 1 \subseteq DOMAIN mem THEN "running" ELSE "overrun"
  /\ UNCHANGED <<mem, nitems, capacity, rc>>

ArrayNext ==
  \/ \E c \in Request : setcap(c)
  \/ setcap_fails \/ array__reset \/ array__walk
  \/ \E d \in Item : add(d)

ArraySpec == ArrayInit /\ [][ArrayNext]_arrayVars

(* What a user has to see to: room for the items there are, and no array so  *)
(* large that its size in bytes wraps, neither asked for nor grown to.      *)
MayAsk(c) == c >= nitems /\ c * ItemSize < Wrap

CarefulNext ==
  \/ \E c \in Request : MayAsk(c) /\ setcap(c)
  \/ setcap_fails \/ array__reset \/ array__walk
  \/ (nitems = capacity => MayAsk(2 * capacity)) /\ \E d \in Item : add(d)

CarefulSpec == ArrayInit /\ MayAsk(capacity) /\ [][CarefulNext]_arrayVars

-----------------------------------------------------------------------------

(* The memory is a run of places from 0; numbers keep to their word. *)
ArrayTypeOK ==
  /\ fate \in {"running", "overrun"}
  /\ nitems \in Nat
  /\ capacity \in 1 .. Wrap - 1
  /\ mem \in [DOMAIN mem -> Item \cup {Junk}]
  /\ DOMAIN mem \subseteq Nat

(* Every item there is has its place in memory, and was written there. *)
ItemsAreThere == \A k \in 0 .. nitems - 1 : k \in DOMAIN mem /\ mem[k] \in Item

(* The memory of the array has as many places as its capacity says. *)
RoomForCapacity == DOMAIN mem = 0 .. capacity - 1

(* No memory is used that is not the array's, however it grows and shrinks.  *)
NoOverrun == fate = "running"

ArrayContents == [k \in 1 .. nitems |-> mem[k - 1]]

A == INSTANCE Collection WITH Data <- Item, contents <- ArrayContents

(* The array is the collection it promises to be: what was added since the    *)
(* last reset is there, in order, whatever capacities were asked for.        *)
ImplementsCollection == A!Spec

=============================================================================
