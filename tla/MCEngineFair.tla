---------------------------- MODULE MCEngineFair ----------------------------
(***************************************************************************)
(* What the main loop sees to in the end: a behaviour is one of any machines  *)
(* with timers, of the engine's own test, or of file system watches, as part  *)
(* says.  Timers of the first two share their variables.                     *)
(***************************************************************************)
EXTENDS TestMachine

CONSTANTS Path, File, None, Junk

VARIABLES
  part,
  watchFate, named, watch, nextWd, events, pending, event, table, given, happened

watchVars == <<watchFate, named, watch, nextWd, events, pending, event, table, given, happened>>
allVars == <<part, osVars, watchVars>>

(* A tick of two units and a timeout of seven. *)
Units == {2, 7}

Signals == [i \in Intr |-> CASE i = "S0" -> 2 [] i = "S1" -> 15 [] OTHER -> 0]

(* Machines with two timers and a signal. *)
Beat == INSTANCE OsEvents WITH Intr <- {"S1"}, Intervals <- {2}, MaxEvents <- 3

(* A file that gets and loses its name, a queue of two events that overflows. *)
Fs == INSTANCE Watches WITH
  Nwatches <- 2, Growth <- 1, BufSize <- 3, Sizes <- {1, 2, 3},
  MaxQueued <- 2, MaxWd <- 2, MaxHappened <- 4

-----------------------------------------------------------------------------

EngineInit ==
  /\ \/ part = "beat" /\ Beat!OsInit
     \/ part \in {"test", "watches"} /\ Started
  /\ Fs!WatchesInit
  /\ part # "watches" => \A p \in Path : named[p] = CHOOSE f \in File : TRUE

Timers(A) == A /\ UNCHANGED <<part, watchVars>>
Watching(A) == part = "watches" /\ A /\ UNCHANGED <<part, osVars>>

BeatStep == part = "beat" /\ Timers(Beat!OsNext)
TestStep == part = "test" /\ Timers(TestNext)
WatchStep == Watching(Fs!WatchesNext)

EngineNext == BeatStep \/ TestStep \/ WatchStep

(* The main loop waits and dispatches, and time passes. *)
LoopWaits ==
  \/ part = "beat" /\ Timers(Beat!Wait)
  \/ part = "test" /\ Timers(Wait)
  \/ Watching(Fs!WaitForFs)

LoopDispatches ==
  \/ part = "beat" /\ Timers(Beat!Dispatch)
  \/ part = "test" /\ Timers(TestDispatch)
  \/ Watching(Fs!ReadEvent)

TimeGoesOn ==
  \/ part = "beat" /\ Timers(Beat!TimePasses)
  \/ part = "test" /\ Timers(TimePasses)

EngineSpec ==
  /\ EngineInit /\ [][EngineNext]_allVars
  /\ WF_allVars(LoopWaits) /\ WF_allVars(LoopDispatches) /\ WF_allVars(TimeGoesOn)

-----------------------------------------------------------------------------

(* A heartbeat that its machine leaves alone is heard again and again. *)
HeartbeatGoesOn == part = "beat" => Beat!BeatGoesOn

(* The timeout ends the engine's own test (test/state-machines/test.c). *)
TestIsOver == part = "test" => TestEnds

(* ... and before the timeout only a signal does so. *)
TestEndsInTime == TestIsOver /\ EndsInTime

(* Every file system event is read in the end (__read_fsys_data). *)
EventsAreRead == Fs!EventsAreRead

=============================================================================
