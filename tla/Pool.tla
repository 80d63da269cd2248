-------------------------------- MODULE Pool --------------------------------
(***************************************************************************)
(* The pool of utils/pool.c: a stack of objects that have been registered    *)
(* with it.  Registering an object writes its number into its first word,    *)
(* and putting it compares the object of that number with the one that is     *)
(* put.  What an application does: it registers an object once, and puts only *)
(* objects it holds; some of them may not be registered.                     *)
(*                                                                         *)
(* Nobody clears the array of numbers: beyond those given out it holds what   *)
(* its memory held before, which may be the array of another pool, and put    *)
(* looks there.  No slot of the stack is read before it is written.           *)
(***************************************************************************)
EXTENDS Memory, Integers, FiniteSets

CONSTANTS
  Object,    \* what an application has to put in the pool
  Limit,     \* POOL_CAP_LIMIT
  Capacity,  \* capacities and increments the application asks for
  FirstWord, \* first words of objects that were not registered
  Left       \* what malloc() and realloc() may leave in the array of numbers

ASSUME PoolAssumption ==
  /\ Junk \notin Object
  /\ Limit \in Nat \ {0}
  /\ Wrap \in Nat \ {0}
  /\ Capacity \subseteq Nat
  /\ FirstWord \subseteq Nat
  /\ Left \subseteq Object \cup {Junk}

VARIABLES
  cap_max, cap_now, nobj,
  addr,       \* index - number of an object, value - the object
  items,      \* the stack
  avail,      \* number of items in the pool
  avail_min, avail_max,
  first,      \* the first word of each object
  held,       \* the objects the application holds
  ret         \* what the last call returned: 0 or 1, or an object

sizeVars == <<cap_max, cap_now>>
stackVars == <<items, avail, avail_min, avail_max>>
poolVars == <<sizeVars, nobj, addr, stackVars, first, held, ret>>

(* new_pool, when it accepts the capacities; the minimum is there at once. *)
new_pool(min_cap, max_cap) ==
  /\ 0 < min_cap /\ min_cap <= max_cap /\ max_cap <= Limit
  /\ cap_max = max_cap
  /\ cap_now = min_cap
  /\ addr \in [0 .. min_cap - 1 -> Left]
  /\ items = [k \in 0 .. min_cap - 1 |-> Junk]
  /\ nobj = 0 /\ avail = 0 /\ avail_max = 0
  /\ avail_min = Limit

PoolInit ==
  /\ \E min_cap, max_cap \in Capacity : new_pool(min_cap, max_cap)
  /\ first \in [Object -> FirstWord]
  /\ held = Object
  /\ ret = 0

Registered == {addr[k] : k \in 0 .. nobj - 1}

(* An unsigned sum in an int, which may turn out negative, limited to Limit:  *)
(* the capacity is compared with the largest one, but not limited by it.     *)
NewCap(incr) ==
  LET sum == (cap_now + incr) % Wrap
  IN  IF 2 * sum >= Wrap THEN sum - Wrap ELSE IF sum > Limit THEN Limit ELSE sum

(* What the application has to see to: beyond, the arrays are cut or lost. *)
NoWrap(incr) == cap_now + incr < Wrap

Longer(array, more) ==
  [k \in DOMAIN array \cup DOMAIN more |-> IF k \in DOMAIN array THEN array[k] ELSE more[k]]

(* expand_pool: a negative capacity is more than realloc() can give. *)
expand_pool(incr) ==
  /\ IF incr = 0 \/ cap_now = cap_max \/ NewCap(incr) < 0
     THEN ret' = 1 /\ UNCHANGED <<cap_now, items, addr>>
     ELSE LET new == cap_now .. NewCap(incr) - 1 IN
          /\ cap_now' = NewCap(incr)
          /\ items' = Longer(items, [k \in new |-> Junk])
          /\ \E left \in [new -> Left] : addr' = Longer(addr, left)
          /\ ret' = 0
  /\ UNCHANGED <<cap_max, nobj, avail, avail_min, avail_max, first, held>>

(* realloc() of the stack fails. *)
expand_fails ==
  /\ ret' = 1
  /\ UNCHANGED <<sizeVars, nobj, addr, stackVars, first, held>>

Number == nobj

pool_new_obj(obj) ==
  /\ obj \in held \ Registered
  /\ IF nobj = cap_now THEN ret' = 1 /\ UNCHANGED <<addr, first, nobj>>
     ELSE /\ addr' = [addr EXCEPT ![nobj] = obj]
          /\ first' = [first EXCEPT ![obj] = Number]
          /\ nobj' = nobj + 1
          /\ ret' = 0
  /\ UNCHANGED <<sizeVars, stackVars, held>>

Top == avail - 1

pool_get ==
  /\ avail > 0
  /\ avail' = avail - 1
  /\ avail_min' = IF avail - 1 < avail_min THEN avail - 1 ELSE avail_min
  /\ ret' = items[Top]
  /\ held' = held \cup {items[Top]}
  /\ UNCHANGED <<sizeVars, nobj, addr, items, avail_max, first>>

(* A fault: only the number is checked. *)
Known_number(item) == first[item] < cap_now

(* The item is the one of its number. *)
Known(item) == first[item] < cap_now /\ addr[first[item]] = item

pool_put(item) ==
  /\ item \in held
  /\ IF ~ Known(item) \/ avail = cap_now
     THEN ret' = 1 /\ UNCHANGED <<stackVars, held>>
     ELSE /\ items' = [items EXCEPT ![avail] = item]
          /\ avail' = avail + 1
          /\ avail_max' = IF avail_max < avail + 1 THEN avail + 1 ELSE avail_max
          /\ held' = held \ {item}
          /\ ret' = 0
          /\ UNCHANGED avail_min
  /\ UNCHANGED <<sizeVars, nobj, addr, first>>

PoolNext ==
  \/ \E incr \in Capacity : NoWrap(incr) /\ expand_pool(incr)
  \/ expand_fails
  \/ pool_get
  \/ \E obj \in Object : pool_new_obj(obj) \/ pool_put(obj)

PoolSpec == PoolInit /\ [][PoolNext]_poolVars

-----------------------------------------------------------------------------

(* Both arrays have the capacity's slots; the marks enclose what is there. *)
PoolTypeOK ==
  /\ cap_max \in Nat /\ cap_now \in 0 .. Limit /\ avail_min \in Nat /\ avail_max \in Nat
  /\ nobj \in 0 .. cap_now
  /\ avail \in 0 .. cap_now
  /\ addr \in [0 .. cap_now - 1 -> Object \cup {Junk}]
  /\ items \in [0 .. cap_now - 1 -> Object \cup {Junk}]
  /\ first \in [Object -> Nat]
  /\ held \subseteq Object

(* The numbers that were given out lead to the objects and back. *)
NumbersAreExact ==
  \A k \in 0 .. nobj - 1 : addr[k] \in Object /\ first[addr[k]] = k

(* An object in the pool is there once, and nobody holds it. *)
PoolHoldsItsOwn ==
  /\ \A j \in 0 .. avail - 1 : items[j] \in Object \ held
  /\ \A j, k \in 0 .. avail - 1 : items[j] = items[k] => j = k

(* The objects in the pool that were never registered with it. *)
Strangers == {items[j] : j \in 0 .. avail - 1} \ Registered

(* Whatever memory holds: a registered object can always be put back, unless *)
(* others have taken its place; and another is taken only if its first word  *)
(* is a number that was not given out yet, for which memory must tell.        *)
PutIsChecked ==
  [][\A obj \in Object : pool_put(obj) =>
       /\ obj \in Registered /\ Strangers = {} => ret' = 0
       /\ obj \notin Registered /\ ret' = 0 => first[obj] \in nobj .. cap_now - 1]_poolVars

(* The comment and the message of pool_put: an object that was not registered *)
(* is refused.  It is not when its number is not given out and the memory of  *)
(* its slot still holds its address, as that of another pool's array does.    *)
UnregisteredAreRefused ==
  [][\A obj \in Object : pool_put(obj) /\ obj \notin Registered => ret' = 1]_poolVars

=============================================================================
