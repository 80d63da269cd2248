--------------------------------- MODULE Smd ---------------------------------
(***************************************************************************)
(* State machine descriptions: engine/smd.c reads a .smd file line by line, *)
(* resolves the functions it names in the program and makes a set of states; *)
(* edsm__create (engine/edsm-api.c) fills each state's matrix of reflexes.   *)
(*                                                                         *)
(* A line is a record: op is the instruction, "#" stands for any line that  *)
(* begins with none, "bad" for an instruction with operands that sscanf()   *)
(* does not take, "cut" for a line without a newline within the buffer.     *)
(* malloc() and realloc() are taken to succeed, and the names in a file to    *)
(* be no longer than the buffers that sscanf() and sprintf() put them into:   *)
(* 15 letters for states, 7 for events, 63 for functions.                    *)
(***************************************************************************)
EXTENDS Integers, Sequences, FiniteSets

CONSTANTS
  Line,      \* the lines a file is made of
  Hooks,     \* the enter and leave functions of the program: <<state, which>>
  Handlers,  \* its functions for actions: <<state, event>>
  Null,      \* NULL
  MaxLines   \* BOUND: files have at most this many lines

IsInt32(n) == n \in Int /\ n <= 2147483647 /\ n >= -2147483647 - 1

ASSUME LineAssumption ==
  \A l \in Line :
    /\ l.op \in {"T", "S", "F"} => l.n \in Int
    /\ l.op \in {"+", "@"} => l.ev = [type |-> l.ev.type, n |-> l.ev.n] /\ IsInt32(l.ev.n)

VARIABLES
  text,    \* the lines read so far
  phase,   \* how far the description has come, or how it failed
  desc,    \* struct edsm_desc
  matrix   \* the reflex matrix of each state

smdVars == <<text, phase, desc, matrix>>

-----------------------------------------------------------------------------
(* Events *)

Rows == 0 .. 4
Cols == 0 .. 11

(* channel.type; the name of a type is its letter. *)
Type == [M |-> 0, T |-> 1, S |-> 2, D |-> 3, F |-> 4]

(* t | h: h and the bits of t that h does not have.  A type has three bits. *)
Or(t, h) ==
  LET bit(b) == IF (t \div b) % 2 = 1 /\ (h \div b) % 2 = 0 THEN b ELSE 0
  IN  h + bit(1) + bit(2) + bit(4)

(* _compose_ecode: (type << 16) | n, an unsigned word, seen as row and column. *)
Ecode(ev) ==
  [row |-> Or(Type[ev.type], (ev.n \div 65536) % 65536), col |-> ev.n % 65536]

-----------------------------------------------------------------------------
(* Reading *)

SmdInit ==
  /\ text = << >>
  /\ phase = "reading"
  /\ desc = [timers |-> << >>, signals |-> << >>, nwatches |-> 0, states |-> << >>,
             has_data |-> FALSE, has_fsys |-> FALSE, nch |-> 0]
  /\ matrix = << >>

NewState(name) == [name |-> name, trans |-> << >>, actions |-> << >>]

(* _find_state_desc: the first state of that name, 0 if there is none. *)
Found(name) ==
  LET ks == {k \in DOMAIN desc.states : desc.states[k].name = name}
  IN  IF ks = {} THEN 0 ELSE CHOOSE k \in ks : \A j \in ks : k <= j

(* The states and the event of a transition or an action are known. *)
Takes(l) ==
  /\ Found(l.from) # 0
  /\ l.op = "+" => Found(l.to) # 0
  /\ l.ev.type \in DOMAIN Type

(* __set_has_flags *)
WithFlags(d, l) ==
  [d EXCEPT !.has_data = @ \/ l.ev.type = "D", !.has_fsys = @ \/ l.ev.type = "F"]

(* A fault: the number of the next state is one too large. *)
WithTrans_next(d, l) ==
  [d EXCEPT !.states[Found(l.from)].trans =
     Append(@, [ecode |-> Ecode(l.ev), next |-> Found(l.to) + 1])]

(* _new_trans: the next state is kept as a number, as the states may move. *)
WithTrans(d, l) ==
  [d EXCEPT !.states[Found(l.from)].trans =
     Append(@, [ecode |-> Ecode(l.ev), next |-> Found(l.to)])]

(* _new_action *)
WithAction(d, l) ==
  [d EXCEPT !.states[Found(l.from)].actions =
     Append(@, [ecode |-> Ecode(l.ev), func |-> <<l.from, l.ev>>])]

(* _new_timer: an interval. *)
WithTimer(d, l) == [d EXCEPT !.timers = Append(@, l.n)]

(* _new_signal: a signal number; negative ones are taken, too. *)
WithSignal(d, l) == [d EXCEPT !.signals = Append(@, l.n)]

(* _number_of_watches: the last line counts. *)
WithWatches(d, l) == [d EXCEPT !.nwatches = l.n]

(* What a line that is taken does to the description. *)
After(l) ==
  CASE l.op = "T" -> WithTimer(desc, l)
    [] l.op = "S" -> WithSignal(desc, l)
    [] l.op = "F" -> WithWatches(desc, l)
    [] l.op = "$" -> [desc EXCEPT !.states = Append(@, NewState(l.name))]
    [] l.op = "+" -> WithTrans(WithFlags(desc, l), l)
    [] l.op = "@" -> WithAction(WithFlags(desc, l), l)
    [] OTHER -> desc

ReadLine(l) ==
  /\ phase = "reading"
  /\ Len(text) < MaxLines
  /\ text' = Append(text, l)
  /\ UNCHANGED matrix
  /\ IF l.op = "cut" THEN phase' = "null" /\ UNCHANGED desc
     ELSE IF l.op = "bad" \/ (l.op \in {"+", "@"} /\ ~ Takes(l))
     THEN phase' = "exit" /\ UNCHANGED desc
     ELSE desc' = After(l) /\ UNCHANGED phase

-----------------------------------------------------------------------------
(* From a description to a machine *)

(* _resolv at the end of the file: every state has an enter and a leave    *)
(* function, every action its function.                                    *)
Resolved ==
  \A k \in DOMAIN desc.states :
    LET s == desc.states[k] IN
    /\ {<<s.name, "enter">>, <<s.name, "leave">>} \subseteq Hooks
    /\ \A j \in DOMAIN s.actions : s.actions[j].func \in Handlers

EndOfFile ==
  /\ phase = "reading"
  /\ phase' = IF Resolved THEN "loaded" ELSE "exit"
  /\ UNCHANGED <<text, desc, matrix>>

(* A fault: actions before transitions. *)
Reflexes_swapped(s) ==
  [j \in DOMAIN s.actions |-> [ecode |-> s.actions[j].ecode, action |-> s.actions[j].func, next |-> 0]]
  \o [j \in DOMAIN s.trans |-> [ecode |-> s.trans[j].ecode, action |-> Null, next |-> s.trans[j].next]]

(* smd_get_state_set: the reflexes of a state, transitions first. *)
Reflexes(s) ==
  [j \in DOMAIN s.trans |-> [ecode |-> s.trans[j].ecode, action |-> Null, next |-> s.trans[j].next]]
  \o [j \in DOMAIN s.actions |-> [ecode |-> s.actions[j].ecode, action |-> s.actions[j].func, next |-> 0]]

smd_get_state_set ==
  /\ phase = "loaded"
  /\ phase' = "built"
  /\ desc' = [desc EXCEPT !.nch = 2 + Len(desc.timers) + Len(desc.signals)]
  /\ UNCHANGED <<text, matrix>>

NoReflex == [action |-> Null, next |-> 0]

(* A fault: the column may be 12. *)
Fits_12(e) == e.row <= 4 /\ e.col <= 12

Fits(e) == e.row <= 4 /\ e.col <= 11

(* The matrix of a state after its reflexes were entered one by one. *)
Filled(s) ==
  LET rs == Reflexes(s)
      at(cell) == {j \in DOMAIN rs : rs[j].ecode.row = cell[1] /\ rs[j].ecode.col = cell[2]}
      last(js) == CHOOSE j \in js : \A i \in js : i <= j
  IN  [cell \in Rows \X Cols |->
         IF at(cell) = {} THEN NoReflex
         ELSE [action |-> rs[last(at(cell))].action, next |-> rs[last(at(cell))].next]]

(* edsm__create; the states of a template share their matrices, and every *)
(* machine of it fills them again.                                         *)
edsm__create ==
  /\ phase \in {"built", "created"}
  /\ UNCHANGED <<text, desc>>
  /\ IF \A k \in DOMAIN desc.states : \A j \in DOMAIN Reflexes(desc.states[k]) :
          Fits(Reflexes(desc.states[k])[j].ecode)
     THEN phase' = "created" /\ matrix' = [k \in DOMAIN desc.states |-> Filled(desc.states[k])]
     ELSE phase' = "exit" /\ UNCHANGED matrix

SmdNext ==
  \/ \E l \in Line : ReadLine(l)
  \/ EndOfFile
  \/ smd_get_state_set
  \/ edsm__create

SmdSpec == SmdInit /\ [][SmdNext]_smdVars

-----------------------------------------------------------------------------
(* What a description means, read off its text *)

Lines(op) == {i \in DOMAIN text : text[i].op = op}

(* The position of the first declaration of a state among the declarations. *)
Number(name) ==
  LET decl == {i \in Lines("$") : text[i].name = name}
      first == CHOOSE i \in decl : \A j \in decl : i <= j
  IN  Cardinality({i \in Lines("$") : i <= first})

(* A state is declared before it is used. *)
DeclaredBefore(i, name) == \E j \in Lines("$") : j < i /\ text[j].name = name

WellFormed ==
  /\ Lines("bad") = {} /\ Lines("cut") = {}
  /\ \A i \in Lines("$") : {<<text[i].name, "enter">>, <<text[i].name, "leave">>} \subseteq Hooks
  /\ \A i \in Lines("+") \cup Lines("@") :
       /\ DeclaredBefore(i, text[i].from)
       /\ text[i].ev.type \in DOMAIN Type
       /\ text[i].ev.n \in Cols
  /\ \A i \in Lines("+") : DeclaredBefore(i, text[i].to)
  /\ \A i \in Lines("@") : <<text[i].from, text[i].ev>> \in Handlers

(* The description keeps to its fields, the matrices to the states. *)
SmdTypeOK ==
  /\ phase \in {"reading", "loaded", "built", "created", "exit", "null"}
  /\ desc.timers \in Seq(Int) /\ desc.signals \in Seq(Int) /\ desc.nwatches \in Int /\ desc.nch \in Nat
  /\ \A k \in DOMAIN desc.states : \A j \in DOMAIN desc.states[k].trans :
       desc.states[k].trans[j].next \in DOMAIN desc.states
  /\ phase = "created" => DOMAIN matrix = DOMAIN desc.states

(* A machine is made from exactly the files that declare what they use,    *)
(* before they use it, name functions the program has and events that have *)
(* a place in the matrix; at any other the program gives up.               *)
MadeIffWellFormed ==
  /\ phase = "created" => WellFormed
  /\ phase \in {"exit", "null"} => ~ WellFormed

(* The matrix says what the file says: the reflex of a state and an event   *)
(* is the last action given for them, or else the last transition, to the   *)
(* state that was first declared by that name, whatever lines are between.  *)
MatrixMeansText ==
  phase = "created" =>
    \A k \in DOMAIN matrix, t \in DOMAIN Type, n \in Cols :
      LET reflex == matrix[k][<<Type[t], n>>]
          lines(op) == {i \in Lines(op) : /\ text[i].ev = [type |-> t, n |-> n]
                                          /\ Number(text[i].from) = k}
          last(is) == text[CHOOSE i \in is : \A j \in is : j <= i]
      IN  IF lines("@") # {} THEN reflex.action = <<last(lines("@")).from, last(lines("@")).ev>>
          ELSE IF lines("+") # {}
          THEN reflex = [action |-> Null, next |-> Number(last(lines("+")).to)]
          ELSE reflex = NoReflex

(* A machine gets the channels its file asks for: a timer, a signal for      *)
(* each line, in the order of the lines, which is how events number them;    *)
(* i/o and file system iff some event needs them.  The estimate nch that     *)
(* sizes the event capture is no less.                                       *)
ChannelsMeanText ==
  phase = "created" =>
    LET uses(t) == \E i \in Lines("+") \cup Lines("@") : text[i].ev.type = t
        count(b) == IF b THEN 1 ELSE 0
        rank(i) == Cardinality({j \in Lines(text[i].op) : j <= i})
        numbers(op) == [k \in 1 .. Cardinality(Lines(op)) |->
                          text[CHOOSE i \in Lines(op) : rank(i) = k].n]
    IN  /\ desc.timers = numbers("T") /\ desc.signals = numbers("S")
        /\ desc.has_data = uses("D") /\ desc.has_fsys = uses("F")
        /\ \A i \in Lines("F") : (\A j \in Lines("F") : j <= i) => desc.nwatches = text[i].n
        /\ Len(desc.timers) + Len(desc.signals) + count(desc.has_data) + count(desc.has_fsys) <= desc.nch

(* The machine that is made is the one its file describes: its reflexes and   *)
(* its channels.                                                             *)
MachineMeansText == MatrixMeansText /\ ChannelsMeanText

=============================================================================
