---------------------------- MODULE TestMachine ----------------------------
(***************************************************************************)
(* The engine's own test (test/main.c, test/state-machines/test.c and         *)
(* test/test.smd): one machine with a heartbeat, a timeout, two signals and    *)
(* the files of its directory, run until one of timeout and signals stops it. *)
(* The file system channel is taken as an interrupt whose signal, FileEvent,  *)
(* comes again and again; Watches has its details.                          *)
(***************************************************************************)
EXTENDS OsEvents

CONSTANTS
  Tick,       \* interval of T0, in units
  Timeout,    \* interval of T1
  FileEvent   \* Signum of the file system channel "F"

ASSUME TestAssumption ==
  /\ Timer = {"T0", "T1"} /\ Intr = {"S0", "S1", "F"}
  /\ {Tick, Timeout} \subseteq Intervals \cap (Nat \ {0})
  /\ Signum["F"] = FileEvent

(* A fault: the handler of the timeout returns 0. *)
Stopping_signals == {"S0", "S1"}

(* The channels whose handlers return 1, which ends the main loop. *)
Stopping == {"T1", "S0", "S1"}

OneShot(t) == t = "T1"

(* test_work_enter, when main() has made the machine and runs it: both      *)
(* timers are started.                                                      *)
Started ==
  /\ queue = << >> /\ osFate = "running" /\ sig = {}
  /\ interval = [t \in Timer |-> IF t = "T0" THEN Tick ELSE Timeout]
  /\ left = interval
  /\ reload = [t \in Timer |-> IF OneShot(t) THEN 0 ELSE interval[t]]
  /\ expired = [t \in Timer |-> FALSE]
  /\ asked = [t \in Timer |->
       [mode |-> IF OneShot(t) THEN "oneshot" ELSE "periodic", for |-> interval[t],
        age |-> 0, taken |-> FALSE]]

(* @work T0, F3, F6, F7: something is printed. *)
Prints ==
  \/ \E t \in Timer \ Stopping : ReadTick(t)
  \/ \E i \in Intr \ Stopping : ReadIntr(i)

(* test_work_leave: the heartbeat is stopped.  exec() returns what the        *)
(* handler returned, and the main loop ends, whatever is pending.           *)
Leave(read) ==
  /\ settime("T0", 0, 0)
  /\ osFate' = IF read THEN "stopped" ELSE "exit"
  /\ UNCHANGED <<interval, asked>>

(* @work T1, S0, S1 *)
Stops(c) ==
  /\ Receive(c)
  /\ queue' = Tail(queue)
  /\ Leave(IF c \in Timer THEN expired[c] ELSE Signum[c] \in sig)
  /\ sig' = IF c \in Timer THEN sig ELSE sig \ {Signum[c]}

TestDispatch == Prints \/ \E c \in Stopping : Stops(c)

TestNext == Wait \/ TestDispatch \/ TimePasses \/ \E i \in Intr : SignalComes(Signum[i])

TestSpec == Started /\ [][TestNext]_osVars

(* The main loop goes on, and so does time. *)
FairTestSpec == TestSpec /\ WF_osVars(Wait) /\ WF_osVars(TestDispatch) /\ WF_osVars(TimePasses)

-----------------------------------------------------------------------------

(* The timeout ends the test, however often the heartbeat ticks and files     *)
(* change, if no signal has ended it before.                                *)
TestEnds == <>(osFate = "stopped")

(* ... and before the timeout only a signal does so. *)
EndsInTime ==
  [][osFate' = "stopped" =>
       asked["T1"].age >= Timeout \/ {Signum["S0"], Signum["S1"]} \cap sig # {}]_osVars

=============================================================================
