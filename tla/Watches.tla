------------------------------ MODULE Watches ------------------------------
(***************************************************************************)
(* File system monitoring of one machine: its inotify channel               *)
(* (engine/channel.c), the table of its watches and the calls that change     *)
(* it (engine/edsm-api.c), and the reading of one event for each message      *)
(* (engine/message-dispatcher.c).  The kernel numbers the watches of a        *)
(* channel from 1 and never gives a number again; a watch is of a file,      *)
(* whatever its names are, and goes with the last of them.                   *)
(*                                                                         *)
(* Sizes are in units of struct inotify_event, what an event takes without a *)
(* name.  The calls of the machine are steps of their own, so that they may  *)
(* come from any handler.  It is deleted when no message for it is pending.  *)
(***************************************************************************)
EXTENDS Integers, Sequences, FiniteSets

CONSTANTS
  Path, File,  \* names, and the files they may stand for
  None,        \* no file, or no name (NULL)
  Junk,        \* what memory holds that realloc() has added
  Nwatches,    \* the watches a description asks for
  Growth,      \* what the table has beyond a number that did not fit (32)
  BufSize,     \* FSYS_EVENT_BUF_SIZE, in units
  Sizes,       \* of the events, in units
  MaxQueued,   \* the kernel's limit of queued events
  MaxWd,       \* bound: watches the machine makes
  MaxHappened  \* bound: events that happen

ASSUME WatchesAssumption ==
  /\ Growth \in Nat \ {0} /\ Sizes \subseteq Nat \ {0}
  /\ {Nwatches, BufSize, MaxQueued, MaxWd, MaxHappened} \subseteq Nat
  /\ None \notin Path \cup File \cup {Junk}
  /\ Junk \notin Path

VARIABLES
  watchFate, \* "running", "deleted" or how the process ended
  named,     \* kernel: the file each name stands for
  watch,     \* kernel: the file of each watch there is
  nextWd,    \* kernel: the number of the next one
  events,    \* kernel: the events that wait to be read
  pending,   \* a message for the channel is in the queue
  event,     \* fi->fsys_event
  table,     \* fi->watch[].pathname, fi->nwatches of them
  given,     \* history: which name a watch of which file was made for
  happened   \* history: the number of events so far

inotifyVars == <<named, watch, nextWd, events, happened>>
monitorVars == <<watchFate, inotifyVars, pending, event, table, given>>

-----------------------------------------------------------------------------

(* Bits of a mask, as F lines number them; the last is set in no mask that   *)
(* a machine gives, but the kernel sets it when a watch has gone.            *)
CloseWrite == 3
QOverflow == 14
Ignored == 15

Columns == 0 .. 11  \* of reflex_matrix

Event(wd, file, bit, size) == [wd |-> wd, file |-> file, bit |-> bit, size |-> size, no |-> happened + 1]

NoEvent == [wd |-> 0, file |-> None, bit |-> CloseWrite, size |-> 1, no |-> 0]

(* __edsm_new_fschan: memset clears the table. *)
FirstTable == [wd \in 0 .. Nwatches - 1 |-> None]

WatchesInit ==
  /\ watchFate = "running"
  /\ named \in [Path -> File]
  /\ watch = << >>
  /\ nextWd = 1
  /\ events = << >>
  /\ pending = FALSE
  /\ event = NoEvent
  /\ table = FirstTable
  /\ given = {}
  /\ happened = 0

Running == watchFate = "running"

(* The kernel queues an event, or says once that it cannot. *)
Queued(e) ==
  IF Len(events) < MaxQueued THEN Append(events, e)
  ELSE IF \E k \in DOMAIN events : events[k].bit = QOverflow THEN events
  ELSE Append(events, Event(-1, None, QOverflow, 1))

Happens(e) ==
  /\ happened < MaxHappened
  /\ events' = Queued(e)
  /\ happened' = happened + Len(events') - Len(events)

Without(wd) == [w \in DOMAIN watch \ {wd} |-> watch[w]]

(* Somebody writes a file that is watched, or a file in such a directory. *)
FileIsWritten(wd) ==
  /\ \E size \in Sizes : Happens(Event(wd, watch[wd], CloseWrite, size))
  /\ UNCHANGED <<watchFate, named, watch, nextWd, pending, event, table, given>>

(* A name is given to another file or removed; a file without a name goes,  *)
(* and takes its watch with it.                                             *)
NameChanges(p, f) ==
  LET old == named[p]
      gone == {wd \in DOMAIN watch : watch[wd] = old /\ \A q \in Path \ {p} : named[q] # old}
  IN
  /\ old # f
  /\ named' = [named EXCEPT ![p] = f]
  /\ IF gone = {} THEN UNCHANGED <<watch, events, happened>>
     ELSE \E wd \in gone : Happens(Event(wd, old, Ignored, 1)) /\ watch' = Without(wd)
  /\ UNCHANGED <<watchFate, nextWd, pending, event, table, given>>

(* inotify_add_watch: the watch of the file, if there is one. *)
WdFor(file) ==
  LET has == {wd \in DOMAIN watch : watch[wd] = file}
  IN  IF has = {} THEN nextWd ELSE CHOOSE wd \in has : TRUE

(* A fault: the table is as long as the largest number. *)
Expanded_short(wd) ==
  IF wd > Cardinality(DOMAIN table) THEN [w \in 0 .. Growth + wd - 1 |-> IF w \in DOMAIN table THEN table[w] ELSE Junk]
  ELSE table

(* edsm__new_fsys_watch: nothing clears what realloc() adds. *)
Expanded(wd) ==
  IF wd \notin DOMAIN table
  THEN [w \in 0 .. Growth + wd - 1 |-> IF w \in DOMAIN table THEN table[w] ELSE Junk]
  ELSE table

(* The name is copied for the number, over a name that is there. *)
fs_new_watch(p) ==
  LET wd == WdFor(named[p]) IN
  /\ wd <= MaxWd
  /\ IF named[p] = None THEN watchFate' = "exit" /\ UNCHANGED <<watch, nextWd, table, given>>
     ELSE /\ watch' = [w \in DOMAIN watch \cup {wd} |-> IF w = wd THEN named[p] ELSE watch[w]]
          /\ nextWd' = IF wd = nextWd THEN nextWd + 1 ELSE nextWd
          /\ table' = [Expanded(wd) EXCEPT ![wd] = p]
          /\ given' = given \cup {<<p, named[p]>>}
          /\ UNCHANGED watchFate
  /\ UNCHANGED <<named, events, happened, pending, event>>

(* A fault: the entry before it is cleared. *)
Cleared_before(wd) == [table EXCEPT ![wd - 1] = None]

(* edsm__del_fsys_watch: the name is freed. *)
Cleared(wd) == [table EXCEPT ![wd] = None]

(* The kernel may have dropped the watch before: inotify_rm_watch fails. *)
fs_del_watch(wd) ==
  /\ IF wd \notin DOMAIN watch THEN watchFate' = "exit" /\ UNCHANGED <<watch, events, happened, table>>
     ELSE /\ Happens(Event(wd, watch[wd], Ignored, 1))
          /\ watch' = Without(wd)
          /\ table' = Cleared(wd)
          /\ UNCHANGED watchFate
  /\ UNCHANGED <<named, nextWd, pending, event, given>>

(* ecap__wait: the descriptor is ready as long as an event is there. *)
WaitForFs ==
  /\ Running /\ ~ pending /\ events # << >>
  /\ pending' = TRUE
  /\ UNCHANGED <<watchFate, inotifyVars, event, table, given>>

(* What the first n events take. *)
SizeUpTo[n \in 0 .. Len(events)] == IF n = 0 THEN 0 ELSE SizeUpTo[n - 1] + events[n].size

(* read() with a buffer of len units: how many events it gives. *)
Fit(len) ==
  CHOOSE n \in 0 .. Len(events) :
    SizeUpTo[n] <= len /\ (n < Len(events) => SizeUpTo[n + 1] > len)

(* A fault: the whole buffer is given to read(). *)
Lengths_whole == {BufSize}

(* __inotify_get_ONE_event: the lengths it tries, from small to large. *)
Lengths == 1 .. BufSize - 1

(* A fault: the event is looked at, but not taken. *)
Taken_not(n) == events

Taken(n) == SubSeq(events, n + 1, Len(events))

(* __read_fsys_data, and the reflex of the event's bit: a bit beyond the     *)
(* matrix finds a null pointer or another word of memory.  No event, or one  *)
(* that does not fit, ends the process.                                     *)
ReadEvent ==
  LET enough == {len \in Lengths : Fit(len) > 0}
  IN
  /\ Running /\ pending
  /\ pending' = FALSE
  /\ IF enough = {} THEN watchFate' = "exit" /\ UNCHANGED <<events, event>>
     ELSE /\ event' = Head(events)
          /\ events' = Taken(Fit(CHOOSE len \in enough : \A l \in enough : len <= l))
          /\ IF event'.bit \in Columns THEN UNCHANGED watchFate
             ELSE watchFate' \in {"running", "crash"}
  /\ UNCHANGED <<named, watch, nextWd, happened, table, given>>

(* __edsm_del_channel frees every name that is not null. *)
Freed == IF \E wd \in DOMAIN table : table[wd] = Junk THEN {"crash", "deleted"} ELSE {"deleted"}

Delete ==
  /\ Running /\ ~ pending
  /\ watchFate' \in Freed
  /\ UNCHANGED <<inotifyVars, pending, event, table, given>>

FileEvents ==
  /\ Running
  /\ \/ \E wd \in DOMAIN watch : FileIsWritten(wd)
     \/ \E p \in Path, f \in File \cup {None} : NameChanges(p, f)

Calls ==
  /\ Running
  /\ \/ \E p \in Path : fs_new_watch(p)
     \/ \E wd \in 1 .. nextWd - 1 : fs_del_watch(wd)

WatchesNext == FileEvents \/ Calls \/ WaitForFs \/ ReadEvent \/ Delete

WatchesSpec == WatchesInit /\ [][WatchesNext]_monitorVars

(* The main loop goes on. *)
FairWatchesSpec == WatchesSpec /\ WF_monitorVars(WaitForFs) /\ WF_monitorVars(ReadEvent)

-----------------------------------------------------------------------------

(* The table is an array; numbers of watches and events keep to their bounds. *)
WatchesTypeOK ==
  /\ watchFate \in {"running", "deleted", "exit", "crash"}
  /\ named \in [Path -> File \cup {None}]
  /\ nextWd \in 1 .. MaxWd + 1
  /\ watch \in [DOMAIN watch -> File] /\ DOMAIN watch \subseteq 1 .. nextWd - 1
  /\ Len(events) <= MaxQueued + 1
  /\ pending \in BOOLEAN
  /\ event.no \in 0 .. happened
  /\ table \in [0 .. Cardinality(DOMAIN table) - 1 -> Path \cup {None, Junk}]
  /\ given \subseteq Path \X File
  /\ happened \in 0 .. MaxHappened

(* Whatever watch the kernel still keeps, the table has an entry for its     *)
(* number, with a name the machine has given for that very file: when the    *)
(* table has grown, when the file has got another name, when the machine      *)
(* asks again for what it watches already.                                  *)
WatchesHaveNames ==
  \A wd \in DOMAIN watch : wd \in DOMAIN table /\ <<table[wd], watch[wd]>> \in given

(* Each message reads exactly one event: none is lost, none comes twice, and  *)
(* they come in the order in which they happened.                           *)
EventsInOrder == \A k \in DOMAIN events : events[k].no = event.no + k

(* Nothing that was not initialised is used unless the kernel tells of       *)
(* something the matrix has no column for, or the machine has made, all in    *)
(* all, more watches than its description announces.                         *)
CrashExplained == watchFate = "crash" => event.bit \notin Columns \/ nextWd > Nwatches

(* The table leads to names, and no word of it that nobody wrote is used.    *)
TableIsSound == WatchesHaveNames /\ CrashExplained

(* A machine that looks up the name of an event it has just read finds one it *)
(* gave for the event's file, or none if it has removed the watch since: the  *)
(* events of a watch come even after that.  Reading ends the process only for *)
(* an event that is as long as the buffer.                                   *)
ReadsAreSound ==
  [][ReadEvent =>
       /\ watchFate' = "exit" => Head(events).size >= BufSize
       /\ watchFate' = "running" /\ event'.bit # QOverflow =>
            \/ <<table[event'.wd], event'.file>> \in given
            \/ table[event'.wd] = None /\ event'.wd \notin DOMAIN watch]_monitorVars

(* Every event is read in the end, unless the machine or the process ends. *)
EventsAreRead ==
  \A n \in 1 .. MaxHappened : happened >= n ~> event.no >= n \/ ~ Running

=============================================================================
