----------------------------- MODULE Dictionary -----------------------------
(***************************************************************************)
(* What the prefix tree promises: a dictionary from words to data.  A      *)
(* caller looks a word up and may then store under it; whatever goes away   *)
(* with a word that is removed is handed to the caller's destructor once.   *)
(***************************************************************************)
EXTENDS Naturals, Sequences

CONSTANTS Word, Data, Null

VARIABLES
  contents,  \* the data stored under each word
  at,        \* the word whose place a caller holds
  freed      \* the data that were handed to the destructor

vars == <<contents, at, freed>>

Init ==
  /\ contents = [w \in Word |-> Null]
  /\ at = Null
  /\ freed = {}

(* A lookup finds any word, or none, and changes nothing. *)
Lookup ==
  /\ UNCHANGED <<contents, freed>>
  /\ at' \in Word \cup {Null}

Store(d) ==
  /\ at # Null
  /\ contents' = [contents EXCEPT ![at] = d]
  /\ freed' = freed \ {d}
  /\ UNCHANGED at

(* The words that a step removes. *)
Gone == {w \in Word : contents[w] # Null /\ contents'[w] = Null}

Prefix(v, w) == Len(v) <= Len(w) /\ v = SubSeq(w, 1, Len(v))

(* What a trim leaves: words with the same first letter are prefixes of *)
(* each other.                                                          *)
Whips(kept) == \A v, w \in kept : v[1] = w[1] => Prefix(v, w) \/ Prefix(w, v)

(* A deletion removes one word, a trim leaves whips, nuke leaves nothing; *)
(* the data of the words that go are destroyed.                           *)
Remove ==
  LET gone == Gone
      kept == {w \in Word : contents'[w] # Null}
  IN  /\ \A w \in kept : contents'[w] = contents[w]
      /\ freed' = freed \cup {contents[w] : w \in gone}
      /\ at' \in {at, Null}
      /\ (\A v, w \in gone : v = w) \/ Whips(kept)

Next ==
  \/ Lookup
  \/ \E d \in Data \cup {Null} : Store(d)
  \/ Remove

Spec == Init /\ [][Next]_vars

=============================================================================
