------------------------------ MODULE MCEngine ------------------------------
(***************************************************************************)
(* The parts of the engine below the machines, each on its own: a behaviour  *)
(* exercises the one that part names, the others stay as they start.  The    *)
(* descriptions come in two languages of lines, one for the order of lines    *)
(* and one for the edges of events.                                         *)
(***************************************************************************)
EXTENDS Channels, Smd, OsEvents, Watches, TLC

CONSTANT Part   \* the parts this run exercises

VARIABLE part

-----------------------------------------------------------------------------
(* Channels: two machines with an i/o channel, one with signals that watches *)
(* files; not enough descriptors for all of them and two sockets.           *)

TimersOf == [m \in Machine |-> IF m = "boss" THEN 2 ELSE 1]
IntrsOf == [m \in Machine |-> IF m = "boss" THEN 1 ELSE 0]

-----------------------------------------------------------------------------
(* Descriptions *)

Names == {"a", "b"}

Trans(evs, names) == {[op |-> "+", from |-> s, ev |-> e, to |-> t] : s, t \in names, e \in evs}
Actions(evs, names) == {[op |-> "@", from |-> s, ev |-> e] : s \in names, e \in evs}
States(names) == {[op |-> "$", name |-> s] : s \in names}
Ev(t, n) == [type |-> t, n |-> n]

(* Two states, one event: declarations, transitions and actions in any order. *)
TextLines == States(Names) \cup Trans({Ev("M", 0)}, Names) \cup Actions({Ev("M", 0)}, Names)

(* One state (and one whose name ends in a blank), events at all the edges. *)
Edges == {Ev("M", 0), Ev("D", 11), Ev("F", 3), Ev("T", 12), Ev("S", -1), Ev("X", 0)}
EdgeLines ==
  States({"a", "a "}) \cup Trans(Edges, {"a"}) \cup Actions(Edges, {"a"})
  \cup [op : {"F", "T", "S"}, n : {2, 15}] \cup {[op |-> o] : o \in {"#", "bad", "cut"}}

Enters == Names \X {"enter", "leave"}
Acts == Names \X {Ev("M", 0), Ev("D", 11), Ev("T", 12)}

(* The lines of Smd itself are those of the first kind, up to six of them, in   *)
(* any order; the others are lines of all kinds, up to four of them.          *)
Edge == INSTANCE Smd WITH Line <- EdgeLines, MaxLines <- 4

-----------------------------------------------------------------------------
(* Timers and signals: two interrupts of two machines for one signal, and    *)
(* one that is its own.                                                     *)

Signals == [i \in Intr |-> IF i = "s3" THEN 15 ELSE 2]
Units == {-1, 0, 2, 3}

-----------------------------------------------------------------------------
(* Watches: two names of one file or of two, a table that grows at its        *)
(* second watch, events that fit at the first, at the last and at no attempt. *)

EventSizes == {1, 2, 3}

(* Names are alike, and so are files. *)
Alike == Permutations(Path) \cup Permutations(File)

-----------------------------------------------------------------------------

(* Of the initial states of a part that is left alone one is enough. *)
Init ==
  /\ part \in Part
  /\ ChannelsInit
  /\ SmdInit
  /\ OsInit
  /\ part # "timers" => \A t \in Timer : interval[t] = 0
  /\ WatchesInit
  /\ part # "watches" => \A p, q \in Path : named[p] = named[q]

ChannelsStep == part = "channels" /\ ChannelsNext /\ UNCHANGED <<part, smdVars, osVars, monitorVars>>

SmdStep ==
  /\ \/ part = "lines" /\ SmdNext
     \/ part = "edges" /\ Edge!SmdNext
  /\ UNCHANGED <<part, allVars, osVars, monitorVars>>

OsStep == part = "timers" /\ OsNext /\ UNCHANGED <<part, allVars, smdVars, monitorVars>>
FsStep == part = "watches" /\ WatchesNext /\ UNCHANGED <<part, allVars, smdVars, osVars>>

Next == ChannelsStep \/ SmdStep \/ OsStep \/ FsStep

Spec == Init /\ [][Next]_<<part, allVars, smdVars, osVars, monitorVars>>

-----------------------------------------------------------------------------

(* The parts' own type invariants. *)
TypeOK == ChannelsTypeOK /\ SmdTypeOK /\ OsTypeOK /\ WatchesTypeOK

=============================================================================
