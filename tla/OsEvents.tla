------------------------------ MODULE OsEvents ------------------------------
(***************************************************************************)
(* Timers and signals of the engine, under any machines: timerfds and       *)
(* signalfds that epoll watches (engine/event-capture.c), the messages       *)
(* ecap__wait puts for those that are ready, and their reading when the       *)
(* message is dispatched (engine/message-dispatcher.c).  Both kinds of fd     *)
(* are non-blocking, watched for POLLIN and not one-shot.                     *)
(*                                                                         *)
(* Time goes in units; how often a timer expired is not told apart, as no    *)
(* machine asks.  A handler may call the engine; what it calls is a step of  *)
(* its own, so that it may as well be the handler of a message that  *)
(* one machine sent to another.                                              *)
(***************************************************************************)
EXTENDS Integers, FiniteSets, SequencesExt

CONSTANTS
  Timer,      \* the timers of all machines
  Intr,       \* their interrupts, one for each S line of a description
  Signum,     \* Signum[i]: the signal of interrupt i
  Intervals,  \* what machines give as an interval, in units
  MaxEvents   \* MAX_EVENTS of one epoll_wait()

ASSUME OsEventsAssumption ==
  /\ Timer \cap Intr = {} /\ IsFiniteSet(Timer) /\ IsFiniteSet(Intr)
  /\ Intervals \subseteq Int
  /\ MaxEvents \in Nat \ {0}

VARIABLES
  queue,     \* the channels for which a message is pending
  osFate,    \* "running", or how the process ended
  interval,  \* tick_info.interval_ms of each timer
  left,      \* each timerfd: time to its expiration, 0 if it is not armed
  reload,    \* each timerfd: its period, 0 if it has none
  expired,   \* each timerfd: it expired and was not read since
  sig,       \* the signals that are pending
  asked      \* history: what the machine knows of each timer

timerfdVars == <<left, reload, expired>>
osVars == <<queue, osFate, interval, left, reload, expired, sig, asked>>

-----------------------------------------------------------------------------

(* History: how a timer was started, the interval it was started with, the  *)
(* time since then, and whether a pending expiration was taken back.  Age is  *)
(* that of a heartbeat since its last beat; a one-shot timer's ends with its   *)
(* interval.                                                                *)
Unasked == [mode |-> "off", for |-> 0, age |-> 0, taken |-> FALSE]

OsInit ==
  /\ queue = << >>
  /\ osFate = "running"
  /\ interval \in [Timer -> Intervals]
  /\ left = [t \in Timer |-> 0]
  /\ reload = [t \in Timer |-> 0]
  /\ expired = [t \in Timer |-> FALSE]
  /\ sig = {}
  /\ asked = [t \in Timer |-> Unasked]

Reported(c) == \E k \in DOMAIN queue : queue[k] = c

(* timerfd_settime takes an unread expiration back. *)
settime(t, value, period) ==
  /\ left' = [left EXCEPT ![t] = value]
  /\ reload' = [reload EXCEPT ![t] = period]
  /\ expired' = [expired EXCEPT ![t] = FALSE]

(* A fault: a periodic timer that runs is started all over. *)
FirstExpiration_anew(t, oneshot) == interval[t]

(* ecap__arm_timer: a periodic timer that is armed keeps its time. *)
FirstExpiration(t, oneshot) ==
  IF ~ oneshot /\ left[t] > 0 THEN left[t] ELSE interval[t]

(* A fault: one-shot timers have a period. *)
Period_always(t, oneshot) == interval[t]

(* A fault: every timer is a one-shot timer. *)
Period_never(t, oneshot) == 0

Period(t, oneshot) == IF oneshot THEN 0 ELSE interval[t]

(* What the machine has asked for: a heartbeat goes on when it is started   *)
(* again with the same interval; else it is a mixture nothing is said of.   *)
Asked(t, oneshot) ==
  IF interval[t] = 0 /\ (oneshot \/ left[t] = 0) THEN [Unasked EXCEPT !.taken = Reported(t)]
  ELSE IF oneshot \/ left[t] = 0
  THEN [mode |-> IF oneshot THEN "oneshot" ELSE "periodic", for |-> interval[t],
        age |-> 0, taken |-> Reported(t)]
  ELSE [asked[t] EXCEPT !.mode = IF @ = "periodic" /\ asked[t].for = interval[t] THEN @ ELSE "mixed",
                        !.taken = Reported(t)]

(* tm_start.  A negative interval is no time: settime fails, the engine exits. *)
tm_start(t, oneshot) ==
  IF interval[t] < 0 THEN osFate' = "exit" /\ UNCHANGED <<timerfdVars, asked>>
  ELSE LET value == FirstExpiration(t, oneshot) IN
       /\ settime(t, value, IF value = 0 THEN 0 ELSE Period(t, oneshot))
       /\ asked' = [asked EXCEPT ![t] = Asked(t, oneshot)]
       /\ UNCHANGED osFate

tm_stop(t) ==
  /\ settime(t, 0, 0)
  /\ asked' = [asked EXCEPT ![t] = [Unasked EXCEPT !.taken = Reported(t)]]
  /\ UNCHANGED osFate

(* A machine starts or stops timer t, or gives it another interval. *)
StartsOrStops(t) ==
  /\ osFate = "running"
  /\ \/ \E oneshot \in BOOLEAN : tm_start(t, oneshot)
     \/ tm_stop(t)
  /\ UNCHANGED <<queue, interval, sig>>

tm_set_interval(t, ms) ==
  /\ osFate = "running"
  /\ interval' = [interval EXCEPT ![t] = ms]
  /\ UNCHANGED <<queue, osFate, timerfdVars, sig, asked>>

(* A fault: the main loop waits although messages are pending. *)
MayWait_always == TRUE

(* main_loop: exec() returns when the queue is empty. *)
MayWait == queue = << >>

Ready == {t \in Timer : expired[t]} \cup {i \in Intr : Signum[i] \in sig}

(* ecap__wait *)
Wait ==
  /\ osFate = "running"
  /\ MayWait
  /\ Ready # {}
  /\ LET n == Min({Cardinality(Ready), MaxEvents})
     IN  queue' \in {queue \o batch : batch \in {b \in [1 .. n -> Ready] : IsInjective(b)}}
  /\ UNCHANGED <<osFate, interval, timerfdVars, sig, asked>>

(* The message at the head of the queue is for channel c. *)
Receive(c) == osFate = "running" /\ queue # << >> /\ Head(queue) = c

(* A machine that heard a one-shot timer expects no more of it. *)
Heard(t) ==
  [asked EXCEPT ![t] = IF asked[t].mode = "oneshot" THEN Unasked ELSE [@ EXCEPT !.taken = FALSE]]

(* __read_tick_data: with nothing to read, read() fails and exec() exits. *)
ReadTick(t) ==
  /\ Receive(t)
  /\ queue' = Tail(queue)
  /\ IF expired[t]
     THEN expired' = [expired EXCEPT ![t] = FALSE] /\ asked' = Heard(t) /\ UNCHANGED osFate
     ELSE osFate' = "exit" /\ UNCHANGED <<expired, asked>>
  /\ UNCHANGED <<interval, left, reload, sig>>

(* __read_intr_data: the signal is taken from the process. *)
ReadIntr(i) ==
  /\ Receive(i)
  /\ queue' = Tail(queue)
  /\ IF Signum[i] \in sig
     THEN sig' = sig \ {Signum[i]} /\ UNCHANGED osFate
     ELSE osFate' = "exit" /\ UNCHANGED sig
  /\ UNCHANGED <<interval, timerfdVars, asked>>

(* A unit of time passes for all armed timers. *)
Expiring == {t \in Timer : left[t] = 1}

TimePasses ==
  /\ osFate = "running"
  /\ \E t \in Timer : left[t] > 0
  /\ left' = [t \in Timer |-> IF t \in Expiring THEN reload[t] ELSE Max({left[t] - 1, 0})]
  /\ expired' = [t \in Timer |-> expired[t] \/ t \in Expiring]
  /\ asked' = [t \in Timer |->
       [asked[t] EXCEPT !.age =
          IF asked[t].mode = "periodic" THEN (@ + 1) % asked[t].for
          ELSE IF asked[t].mode = "oneshot" /\ @ < asked[t].for THEN @ + 1 ELSE @]]
  /\ UNCHANGED <<queue, osFate, interval, reload, sig>>

SignalComes(s) ==
  /\ osFate = "running"
  /\ s \notin sig
  /\ sig' = sig \cup {s}
  /\ UNCHANGED <<queue, osFate, interval, timerfdVars, asked>>

Dispatch == (\E t \in Timer : ReadTick(t)) \/ (\E i \in Intr : ReadIntr(i))

OsNext ==
  \/ \E t \in Timer : StartsOrStops(t)
  \/ \E t \in Timer, ms \in Intervals : tm_set_interval(t, ms)
  \/ Wait
  \/ Dispatch
  \/ TimePasses
  \/ \E i \in Intr : SignalComes(Signum[i])

OsSpec == OsInit /\ [][OsNext]_osVars

(* The main loop goes on, and so does time. *)
FairOsSpec == OsSpec /\ WF_osVars(Wait) /\ WF_osVars(Dispatch) /\ WF_osVars(TimePasses)

-----------------------------------------------------------------------------

(* Messages name channels, timers count down from what they were set to. *)
OsTypeOK ==
  /\ queue \in Seq(Timer \cup Intr)
  /\ osFate \in {"running", "exit"}
  /\ interval \in [Timer -> Intervals]
  /\ left \in [Timer -> Nat]
  /\ reload \in [Timer -> Nat]
  /\ expired \in [Timer -> BOOLEAN]
  /\ sig \subseteq {Signum[i] : i \in Intr}

(* A machine hears a timer only if it has started it and not stopped it     *)
(* since, a one-shot timer once for each start and not before its interval   *)
(* has passed since the last start, whatever was reported before that.       *)
TimeoutIsDue ==
  [][\A t \in Timer : ReadTick(t) /\ osFate' = "running" =>
       /\ asked[t].mode # "off"
       /\ asked[t].mode = "oneshot" => asked[t].age >= asked[t].for]_osVars

(* A heartbeat that is started again and again keeps its beat: it expires at *)
(* multiples of its interval after its first start.                          *)
HeartbeatKeepsPhase ==
  \A t \in Timer : asked[t].mode = "periodic" => (asked[t].age + left[t]) % asked[t].for = 0

(* What was reported is there when it is read, unless the machine took it    *)
(* back by starting or stopping the timer, or the signal has gone to another *)
(* interrupt for the same one; only then does reading end the process.       *)
ReadsSucceed ==
  [][/\ \A t \in Timer : ReadTick(t) /\ osFate' = "exit" => asked[t].taken
     /\ \A i \in Intr : ReadIntr(i) /\ osFate' = "exit" =>
          \E j \in Intr \ {i} : Signum[j] = Signum[i]]_osVars

(* A heartbeat that its machine leaves alone is heard again and again,       *)
(* whatever else goes on.                                                    *)
BeatGoesOn ==
  \A t \in Timer :
    /\ <>[](osFate = "running" /\ asked[t].mode = "periodic")
    /\ <>[][~ StartsOrStops(t)]_osVars
    => []<><<ReadTick(t)>>_osVars

=============================================================================
