-------------------------- MODULE EventCaptureProofs --------------------------
(***************************************************************************)
(* What machines hear of the kernel.  Timers and signals, for any number of    *)
(* them, any intervals and any size of a batch: timeouts are due, a heartbeat  *)
(* keeps its beat, and what epoll reported is there when it is read.  File      *)
(* system watches, for any files, tables and events: the event that is read     *)
(* is the next one, and leads to a name of its file.  And the engine's own test, *)
(* alone in the need of TestAssumption.                                       *)
(***************************************************************************)
EXTENDS TestMachine, Watches, FiniteSetTheorems, WellFoundedInduction, TLAPS

(* What the machine knows of a timer (a) and the state of its timerfd: time    *)
(* left, period, an unread expiration.                                      *)
Agrees(a, time, period, unread) ==
  /\ a \in [mode : {"off", "oneshot", "periodic", "mixed"}, for : Nat, age : Nat, taken : BOOLEAN]
  /\ time \in Nat /\ period \in Nat /\ unread \in BOOLEAN
  /\ a.mode = "off" => time = 0 /\ ~ unread
  /\ a.mode = "oneshot" =>
       /\ a.for > 0 /\ period = 0
       /\ time > 0 => a.age + time = a.for /\ ~ unread
       /\ unread => a.age = a.for
  /\ a.mode = "periodic" => a.for > 0 /\ period = a.for /\ time > 0 /\ a.age + time = a.for

(* A channel is reported once; what was reported is there, unless the machine  *)
(* has taken it back or another interrupt shares the signal.                *)
ReportsAreSound ==
  /\ \A j, k \in DOMAIN queue : queue[j] = queue[k] => j = k
  /\ \A t \in Timer : Reported(t) => expired[t] \/ asked[t].taken
  /\ \A i \in Intr : Reported(i) =>
       Signum[i] \in sig \/ \E j \in Intr \ {i} : Signum[j] = Signum[i]

(* The inductive invariant.                                                 *)
OsInv ==
  /\ OsTypeOK
  /\ asked = [t \in Timer |-> asked[t]]
  /\ \A t \in Timer : Agrees(asked[t], left[t], reload[t], expired[t])
  /\ ReportsAreSound

LEMMA OsInitHolds == ASSUME OsInit PROVE OsInv
<1>1. OsTypeOK
  BY DEF OsInit, OsTypeOK
<1>2. \A t \in Timer : Agrees(asked[t], left[t], reload[t], expired[t])
  BY DEF OsInit, Agrees, Unasked
<1>3. ReportsAreSound
  BY DEF OsInit, ReportsAreSound, Reported
<1>. QED
  BY <1>1, <1>2, <1>3 DEF OsInit, OsInv

(* What one timer's start or stop does to the others: nothing.               *)
OneTimer(t, a, time, period) ==
  /\ left' = [left EXCEPT ![t] = time]
  /\ reload' = [reload EXCEPT ![t] = period]
  /\ expired' = [expired EXCEPT ![t] = FALSE]
  /\ asked' = [asked EXCEPT ![t] = a]
  /\ Agrees(a, time, period, FALSE)
  /\ Reported(t) => a.taken
  /\ UNCHANGED <<osFate, queue, interval, sig>>

LEMMA OneTimerStep ==
  ASSUME OsInv, NEW t \in Timer, NEW a, NEW time, NEW period, OneTimer(t, a, time, period)
  PROVE  OsInv'
<1>. USE DEF OneTimer
<1>1. time \in Nat /\ period \in Nat
  BY DEF Agrees
<1>2. OsTypeOK'
  BY <1>1 DEF OsInv, OsTypeOK
<1>3. asked' = [u \in Timer |-> asked'[u]]
  BY DEF OsInv
<1>4. ASSUME NEW u \in Timer
      PROVE  /\ Agrees(asked'[u], left'[u], reload'[u], expired'[u])
             /\ Reported(u) => expired'[u] \/ asked'[u].taken
  <2>1. CASE u = t
    <3>1. asked'[u] = a /\ left'[u] = time /\ reload'[u] = period /\ expired'[u] = FALSE
      BY <2>1 DEF OsInv, OsTypeOK
    <3>. QED
      BY <2>1, <3>1
  <2>2. CASE u # t
    <3>1. asked'[u] = asked[u] /\ left'[u] = left[u] /\ reload'[u] = reload[u] /\ expired'[u] = expired[u]
      BY <2>2 DEF OsInv, OsTypeOK
    <3>. QED
      BY <3>1 DEF OsInv, ReportsAreSound
  <2>. QED
    BY <2>1, <2>2
<1>5. ReportsAreSound'
  BY <1>4 DEF OsInv, ReportsAreSound, Reported
<1>. QED
  BY <1>2, <1>3, <1>4, <1>5 DEF OsInv

LEMMA StartsOrStopsStep ==
  ASSUME OsInv, NEW t \in Timer, StartsOrStops(t)
  PROVE  OsInv'
<1>1. PICK a, l, iv : a = asked[t] /\ l = left[t] /\ iv = interval[t]
  OBVIOUS
<1>2. Agrees(a, l, reload[t], expired[t]) /\ iv \in Int /\ l \in Nat
  BY <1>1, OsEventsAssumption DEF OsInv, OsTypeOK
<1>3. Reported(t) \in BOOLEAN
  BY DEF Reported
<1>4. UNCHANGED <<queue, interval, sig>>
  BY DEF StartsOrStops
<1>5. CASE tm_stop(t)
  <2>1. PICK b : b = [Unasked EXCEPT !.taken = Reported(t)]
    OBVIOUS
  <2>2. b = [mode |-> "off", for |-> 0, age |-> 0, taken |-> Reported(t)]
    BY <2>1 DEF Unasked
  <2>3. Agrees(b, 0, 0, FALSE) /\ (Reported(t) => b.taken)
    BY <2>2, <1>3 DEF Agrees
  <2>4. OneTimer(t, b, 0, 0)
    BY <1>4, <1>5, <2>1, <2>3 DEF tm_stop, settime, OneTimer
  <2>. QED
    BY <2>4, OneTimerStep
<1>6. ASSUME NEW oneshot \in BOOLEAN, tm_start(t, oneshot) PROVE OsInv'
  <2>1. CASE iv < 0
    <3>1. osFate' = "exit" /\ UNCHANGED <<timerfdVars, asked>>
      BY <1>1, <1>6, <2>1 DEF tm_start
    <3>. QED
      BY <3>1, <1>4 DEF OsInv, OsTypeOK, ReportsAreSound, Reported, timerfdVars
  <2>2. CASE ~ iv < 0
    <3>1. PICK b, time, period : /\ b = Asked(t, oneshot)
                                 /\ time = FirstExpiration(t, oneshot)
                                 /\ period = IF time = 0 THEN 0 ELSE Period(t, oneshot)
      OBVIOUS
    <3>2. /\ UNCHANGED osFate /\ asked' = [asked EXCEPT ![t] = b]
          /\ settime(t, time, period)
      BY <1>1, <1>6, <2>2, <3>1 DEF tm_start
    <3>3. /\ time = IF ~ oneshot /\ l > 0 THEN l ELSE iv
          /\ period = IF time = 0 \/ oneshot THEN 0 ELSE iv
      BY <1>1, <3>1 DEF FirstExpiration, Period
    <3>4. Agrees(b, time, period, FALSE) /\ (Reported(t) => b.taken)
      <4>1. CASE iv = 0 /\ (oneshot \/ l = 0)
        <5>1. b = [mode |-> "off", for |-> 0, age |-> 0, taken |-> Reported(t)]
          BY <1>1, <3>1, <4>1 DEF Asked, Unasked
        <5>2. time = 0 /\ period = 0
          BY <3>3, <4>1
        <5>. QED
          BY <5>1, <5>2, <1>3 DEF Agrees
      <4>2. CASE iv # 0 /\ (oneshot \/ l = 0)
        <5>1. b = [mode |-> IF oneshot THEN "oneshot" ELSE "periodic", for |-> iv,
                   age |-> 0, taken |-> Reported(t)]
          BY <1>1, <3>1, <4>2 DEF Asked
        <5>2. iv \in Nat /\ iv > 0 /\ time = iv
          BY <1>2, <2>2, <3>3, <4>2
        <5>3. CASE oneshot
          <6>1. b = [mode |-> "oneshot", for |-> iv, age |-> 0, taken |-> Reported(t)] /\ period = 0
            BY <5>1, <5>3, <3>3
          <6>. QED
            BY <6>1, <5>2, <1>3 DEF Agrees
        <5>4. CASE ~ oneshot
          <6>1. b = [mode |-> "periodic", for |-> iv, age |-> 0, taken |-> Reported(t)] /\ period = iv
            BY <5>1, <5>2, <5>4, <3>3
          <6>. QED
            BY <6>1, <5>2, <1>3 DEF Agrees
        <5>. QED
          BY <5>3, <5>4
      <4>3. CASE ~ (oneshot \/ l = 0)
        <5>1. b = [a EXCEPT !.mode = IF @ = "periodic" /\ a.for = iv THEN @ ELSE "mixed",
                            !.taken = Reported(t)]
          BY <1>1, <3>1, <4>3 DEF Asked
        <5>2. a = [mode |-> a.mode, for |-> a.for, age |-> a.age, taken |-> a.taken]
          BY <1>2 DEF Agrees
        <5>3. time = l /\ period = iv /\ iv \in Nat /\ l > 0
          BY <1>2, <2>2, <3>3, <4>3
        <5>4. CASE a.mode = "periodic" /\ a.for = iv
          <6>1. b = [mode |-> "periodic", for |-> a.for, age |-> a.age, taken |-> Reported(t)]
            BY <5>1, <5>2, <5>4
          <6>. QED
            BY <6>1, <5>3, <5>4, <1>2, <1>3 DEF Agrees
        <5>5. CASE ~ (a.mode = "periodic" /\ a.for = iv)
          <6>1. b = [mode |-> "mixed", for |-> a.for, age |-> a.age, taken |-> Reported(t)]
            BY <5>1, <5>2, <5>5
          <6>2. a.for \in Nat /\ a.age \in Nat
            BY <1>2 DEF Agrees
          <6>. QED
            BY <6>1, <6>2, <5>3, <1>2, <1>3 DEF Agrees
        <5>. QED
          BY <5>4, <5>5
      <4>. QED
        BY <4>1, <4>2, <4>3
    <3>5. OneTimer(t, b, time, period)
      BY <1>4, <3>2, <3>4 DEF OneTimer, settime
    <3>. QED
      BY <3>5, OneTimerStep
  <2>. QED
    BY <2>1, <2>2
<1>. QED
  BY <1>5, <1>6 DEF StartsOrStops

(* A batch of different channels that are ready, when nothing is pending.     *)
LEMMA WaitStep == ASSUME OsInv, Wait PROVE OsInv'
<1>1. UNCHANGED <<osFate, interval, left, reload, expired, sig, asked>>
  BY DEF Wait, timerfdVars
<1>2. PICK n : n = Min({Cardinality(Ready), MaxEvents})
  OBVIOUS
<1>3. n \in Nat
  <2>1. IsFiniteSet({t \in Timer : expired[t]}) /\ IsFiniteSet({i \in Intr : Signum[i] \in sig})
    BY OsEventsAssumption, FS_Subset
  <2>2. IsFiniteSet(Ready)
    BY <2>1, FS_Union DEF Ready
  <2>3. Cardinality(Ready) \in Nat /\ MaxEvents \in Nat
    BY <2>2, FS_CardinalityType, OsEventsAssumption
  <2>4. PICK m : m = Cardinality(Ready)
    OBVIOUS
  <2>5. \E x \in {m, MaxEvents} : \A y \in {m, MaxEvents} : x <= y
    BY <2>3, <2>4
  <2>6. Min({m, MaxEvents}) \in {m, MaxEvents}
    BY <2>5 DEF Min
  <2>. QED
    BY <1>2, <2>3, <2>4, <2>6
<1>4. PICK b : b \in [1 .. n -> Ready] /\ IsInjective(b) /\ queue' = queue \o b
  BY <1>2 DEF Wait
<1>5. b \in Seq(Ready) /\ queue = << >> /\ DOMAIN b = 1 .. n
  BY <1>3, <1>4 DEF Wait, MayWait
<1>6. queue' = b
  BY <1>4, <1>5
<1>7. Ready \subseteq Timer \cup Intr
  BY DEF Ready
<1>8. OsTypeOK'
  BY <1>1, <1>5, <1>6, <1>7 DEF OsInv, OsTypeOK
<1>9. ReportsAreSound'
  <2>1. \A j, k \in DOMAIN b : b[j] = b[k] => j = k
    BY <1>4 DEF IsInjective
  <2>2. \A k \in DOMAIN b : b[k] \in Ready
    BY <1>4
  <2>3. \A t \in Timer : t \in Ready => expired[t]
    BY OsEventsAssumption DEF Ready
  <2>4. \A i \in Intr : i \in Ready => Signum[i] \in sig
    BY OsEventsAssumption DEF Ready
  <2>. QED
    BY <2>1, <2>2, <2>3, <2>4, <1>1, <1>6 DEF ReportsAreSound, Reported
<1>. QED
  BY <1>1, <1>8, <1>9 DEF OsInv

(* The message that is dispatched was the only one of its channel.           *)
LEMMA RestOfQueue ==
  ASSUME OsTypeOK, ReportsAreSound, queue # << >>, queue' = Tail(queue)
  PROVE  /\ queue' \in Seq(Timer \cup Intr)
         /\ \A j, k \in DOMAIN queue' : queue'[j] = queue'[k] => j = k
         /\ \A c : Reported(c)' => Reported(c) /\ c # Head(queue)
<1>1. PICK s, r : s = queue /\ r = queue'
  OBVIOUS
<1>2. /\ s \in Seq(Timer \cup Intr) /\ s # << >> /\ r = Tail(s)
      /\ \A j, k \in DOMAIN s : s[j] = s[k] => j = k
  BY <1>1 DEF OsTypeOK, ReportsAreSound
<1>3. /\ r \in Seq(Timer \cup Intr) /\ DOMAIN r = 1 .. Len(s) - 1 /\ DOMAIN s = 1 .. Len(s)
      /\ Len(s) \in Nat \ {0} /\ Head(s) = s[1] /\ 1 \in DOMAIN s
      /\ \A k \in 1 .. Len(s) - 1 : r[k] = s[k + 1]
  BY <1>2
<1>4. \A k \in 1 .. Len(s) - 1 : k + 1 \in DOMAIN s /\ k + 1 # 1
  BY <1>3
<1>5. \A j, k \in DOMAIN r : r[j] = r[k] => j = k
  <2>1. ASSUME NEW j \in DOMAIN r, NEW k \in DOMAIN r, r[j] = r[k] PROVE j = k
    <3>1. s[j + 1] = s[k + 1] /\ j + 1 \in DOMAIN s /\ k + 1 \in DOMAIN s
      BY <2>1, <1>3, <1>4
    <3>2. j + 1 = k + 1
      BY <3>1, <1>2
    <3>. QED
      BY <3>2, <1>3
  <2>. QED
    BY <2>1
<1>6. \A c : (\E k \in DOMAIN r : r[k] = c) => (\E k \in DOMAIN s : s[k] = c) /\ c # Head(s)
  BY <1>2, <1>3, <1>4
<1>. QED
  BY <1>1, <1>3, <1>5, <1>6 DEF Reported

LEMMA ReadTickStep == ASSUME OsInv, NEW t \in Timer, ReadTick(t) PROVE OsInv'
<1>1. /\ queue # << >> /\ Head(queue) = t /\ queue' = Tail(queue)
      /\ UNCHANGED <<interval, left, reload, sig>>
  BY DEF ReadTick, Receive
<1>2. /\ queue' \in Seq(Timer \cup Intr)
      /\ \A j, k \in DOMAIN queue' : queue'[j] = queue'[k] => j = k
      /\ \A c : Reported(c)' => Reported(c) /\ c # t
  BY <1>1, RestOfQueue DEF OsInv
<1>3. CASE ~ expired[t]
  <2>1. osFate' = "exit" /\ UNCHANGED <<expired, asked>>
    BY <1>3 DEF ReadTick
  <2>2. OsTypeOK'
    BY <1>1, <1>2, <2>1 DEF OsInv, OsTypeOK
  <2>3. ReportsAreSound'
    BY <1>1, <1>2, <2>1 DEF OsInv, ReportsAreSound
  <2>. QED
    BY <1>1, <2>1, <2>2, <2>3 DEF OsInv
<1>4. CASE expired[t]
  <2>1. expired' = [expired EXCEPT ![t] = FALSE] /\ asked' = Heard(t) /\ UNCHANGED osFate
    BY <1>4 DEF ReadTick
  <2>2. OsTypeOK'
    BY <1>1, <1>2, <2>1 DEF OsInv, OsTypeOK
  <2>3. PICK a, b : a = asked[t] /\ b = IF a.mode = "oneshot" THEN Unasked ELSE [a EXCEPT !.taken = FALSE]
    OBVIOUS
  <2>4. asked' = [asked EXCEPT ![t] = b]
    BY <2>1, <2>3 DEF Heard
  <2>5. Agrees(a, left[t], reload[t], TRUE)
    BY <1>4, <2>3 DEF OsInv
  <2>6. Agrees(b, left[t], reload[t], FALSE)
    <3>1. a = [mode |-> a.mode, for |-> a.for, age |-> a.age, taken |-> a.taken]
      BY <2>5 DEF Agrees
    <3>2. CASE a.mode = "oneshot"
      <4>1. b = [mode |-> "off", for |-> 0, age |-> 0, taken |-> FALSE]
        BY <2>3, <3>2 DEF Unasked
      <4>2. left[t] = 0
        BY <2>5, <3>2 DEF Agrees
      <4>. QED
        BY <4>1, <4>2, <2>5 DEF Agrees
    <3>3. CASE a.mode # "oneshot"
      <4>1. b = [mode |-> a.mode, for |-> a.for, age |-> a.age, taken |-> FALSE]
        BY <2>3, <3>1, <3>3
      <4>. QED
        BY <4>1, <2>5, <3>3 DEF Agrees
    <3>. QED
      BY <3>2, <3>3
  <2>7. ASSUME NEW u \in Timer
        PROVE  /\ Agrees(asked'[u], left'[u], reload'[u], expired'[u])
               /\ Reported(u)' => expired'[u] \/ asked'[u].taken
    <3>1. CASE u = t
      <4>1. asked'[u] = b /\ left'[u] = left[t] /\ reload'[u] = reload[t] /\ expired'[u] = FALSE
        BY <1>1, <2>1, <2>4, <3>1 DEF OsInv, OsTypeOK
      <4>. QED
        BY <4>1, <2>6, <1>2, <3>1
    <3>2. CASE u # t
      <4>1. asked'[u] = asked[u] /\ left'[u] = left[u] /\ reload'[u] = reload[u] /\ expired'[u] = expired[u]
        BY <1>1, <2>1, <2>4, <3>2 DEF OsInv, OsTypeOK
      <4>. QED
        BY <4>1, <1>2 DEF OsInv, ReportsAreSound
    <3>. QED
      BY <3>1, <3>2
  <2>8. ReportsAreSound'
    <3>1. \A i \in Intr : Reported(i)' => Signum[i] \in sig' \/ \E j \in Intr \ {i} : Signum[j] = Signum[i]
      BY <1>1, <1>2 DEF OsInv, ReportsAreSound
    <3>. QED
      BY <3>1, <1>2, <2>7 DEF ReportsAreSound
  <2>9. asked' = [u \in Timer |-> asked'[u]]
    BY <2>4 DEF OsInv
  <2>. QED
    BY <2>2, <2>7, <2>8, <2>9 DEF OsInv
<1>. QED
  BY <1>3, <1>4

LEMMA ReadIntrStep == ASSUME OsInv, NEW i \in Intr, ReadIntr(i) PROVE OsInv'
<1>1. /\ queue # << >> /\ Head(queue) = i /\ queue' = Tail(queue)
      /\ UNCHANGED <<interval, left, reload, expired, asked>>
      /\ sig \ {Signum[i]} \subseteq sig' /\ sig' \subseteq sig
      /\ osFate' = osFate \/ osFate' = "exit"
  BY DEF ReadIntr, Receive, timerfdVars
<1>2. /\ queue' \in Seq(Timer \cup Intr)
      /\ \A j, k \in DOMAIN queue' : queue'[j] = queue'[k] => j = k
      /\ \A c : Reported(c)' => Reported(c) /\ c # i
  BY <1>1, RestOfQueue DEF OsInv
<1>3. OsTypeOK'
  BY <1>1, <1>2 DEF OsInv, OsTypeOK
<1>4. ASSUME NEW j \in Intr, Reported(j)'
      PROVE  Signum[j] \in sig' \/ \E k \in Intr \ {j} : Signum[k] = Signum[j]
  <2>1. j # i /\ Reported(j)
    BY <1>2, <1>4
  <2>2. CASE Signum[j] = Signum[i]
    BY <2>1, <2>2
  <2>3. CASE Signum[j] # Signum[i]
    BY <2>1, <2>3, <1>1 DEF OsInv, ReportsAreSound
  <2>. QED
    BY <2>2, <2>3
<1>5. ReportsAreSound'
  BY <1>1, <1>2, <1>4 DEF OsInv, ReportsAreSound
<1>. QED
  BY <1>1, <1>3, <1>5 DEF OsInv

(* A number divided by a greater one, and by itself.                         *)
LEMMA Remainders ==
  ASSUME NEW d \in Nat, d > 0
  PROVE  d % d = 0 /\ \A n \in Nat : n < d => n % d = n
OBVIOUS

(* A unit of time brings a heartbeat nearer to its beat, or to the next one.  *)
LEMMA TimePassesStep == ASSUME OsInv, TimePasses PROVE OsInv'
<1>1. UNCHANGED <<queue, osFate, interval, reload, sig>>
  BY DEF TimePasses
<1>2. ASSUME NEW t \in Timer
      PROVE  /\ Agrees(asked'[t], left'[t], reload'[t], expired'[t])
             /\ asked'[t].taken = asked[t].taken
             /\ expired[t] => expired'[t]
  <2>1. PICK a, b, l, r, e : a = asked[t] /\ b = asked'[t] /\ l = left[t] /\ r = reload[t] /\ e = expired[t]
    OBVIOUS
  <2>2. Agrees(a, l, r, e)
    BY <2>1 DEF OsInv
  <2>3. a = [mode |-> a.mode, for |-> a.for, age |-> a.age, taken |-> a.taken]
        /\ a.for \in Nat /\ a.age \in Nat /\ l \in Nat /\ r \in Nat /\ e \in BOOLEAN
        /\ a.taken \in BOOLEAN
    BY <2>2 DEF Agrees
  <2>4. PICK g : g = IF a.mode = "periodic" THEN (a.age + 1) % a.for
                     ELSE IF a.mode = "oneshot" /\ a.age < a.for THEN a.age + 1 ELSE a.age
    OBVIOUS
  <2>5. b = [a EXCEPT !.age = g]
    BY <2>1, <2>4 DEF TimePasses
  <2>6. b = [mode |-> a.mode, for |-> a.for, age |-> g, taken |-> a.taken]
    BY <2>3, <2>5
  <2>7. left'[t] = (IF l = 1 THEN r ELSE Max({l - 1, 0}))
    BY <2>1 DEF TimePasses, Expiring
  <2>12. expired'[t] \in BOOLEAN /\ (expired'[t] <=> (e \/ l = 1))
    BY <2>1 DEF TimePasses, Expiring
  <2>8. Max({l - 1, 0}) = IF l > 0 THEN l - 1 ELSE 0
    <3>1. PICK x : x = l - 1
      OBVIOUS
    <3>2. x \in Int /\ (l > 0 <=> x >= 0)
      BY <3>1, <2>3
    <3>3. CASE x >= 0
      <4>1. x \in {x, 0} /\ \A y \in {x, 0} : x >= y
        BY <3>2, <3>3
      <4>2. \A z \in {x, 0} : (\A y \in {x, 0} : z >= y) => z = x
        BY <3>2, <3>3
      <4>3. Max({x, 0}) = x
        BY <4>1, <4>2 DEF Max
      <4>. QED
        BY <4>3, <3>1, <3>2, <3>3
    <3>4. CASE ~ x >= 0
      <4>1. 0 \in {x, 0} /\ \A y \in {x, 0} : 0 >= y
        BY <3>2, <3>4
      <4>2. \A z \in {x, 0} : (\A y \in {x, 0} : z >= y) => z = 0
        BY <3>2, <3>4
      <4>3. Max({x, 0}) = 0
        BY <4>1, <4>2 DEF Max
      <4>. QED
        BY <4>3, <3>1, <3>2, <3>4
    <3>. QED
      BY <3>3, <3>4
  <2>9. PICK k, f : k = left'[t] /\ f = expired'[t]
    OBVIOUS
  <2>10. /\ k = IF l = 1 THEN r ELSE IF l > 0 THEN l - 1 ELSE 0
         /\ (f <=> (e \/ l = 1)) /\ k \in Nat /\ f \in BOOLEAN
    BY <2>3, <2>7, <2>8, <2>9, <2>12
  <2>11. Agrees(b, k, r, f)
    <3>1. CASE a.mode = "periodic"
      <4>1. a.for > 0 /\ r = a.for /\ l > 0 /\ a.age + l = a.for
        BY <2>2, <3>1 DEF Agrees
      <4>2. CASE l = 1
        <5>1. g = 0
          BY <2>3, <2>4, <3>1, <4>1, <4>2, Remainders
        <5>2. k = a.for
          BY <2>10, <4>1, <4>2
        <5>. QED
          BY <2>3, <2>6, <2>10, <3>1, <4>1, <5>1, <5>2 DEF Agrees
      <4>3. CASE l # 1
        <5>1. a.age + 1 \in Nat /\ a.age + 1 < a.for
          BY <2>3, <4>1, <4>3
        <5>2. (a.age + 1) % a.for = a.age + 1
          BY <2>3, <4>1, <5>1, Remainders
        <5>3. g = a.age + 1
          BY <2>4, <3>1, <5>2
        <5>4. k = l - 1 /\ k > 0
          BY <2>3, <2>10, <4>1, <4>3
        <5>5. g + k = a.for
          BY <2>3, <4>1, <5>3, <5>4
        <5>. QED
          BY <2>3, <2>6, <2>10, <3>1, <4>1, <5>1, <5>3, <5>4, <5>5 DEF Agrees
      <4>. QED
        BY <4>2, <4>3
    <3>2. CASE a.mode = "oneshot"
      <4>1. /\ a.for > 0 /\ r = 0
            /\ l > 0 => a.age + l = a.for /\ ~ e
            /\ e => a.age = a.for
        BY <2>2, <3>2 DEF Agrees
      <4>2. g = IF a.age < a.for THEN a.age + 1 ELSE a.age
        BY <2>4, <3>2
      <4>3. CASE l > 0
        <5>1. g = a.age + 1 /\ g \in Nat
          BY <2>3, <4>1, <4>2, <4>3
        <5>2. CASE l = 1
          <6>1. k = 0 /\ f /\ g = a.for
            BY <2>3, <2>10, <4>1, <5>1, <5>2
          <6>. QED
            BY <2>3, <2>6, <2>10, <3>2, <4>1, <6>1 DEF Agrees
        <5>3. CASE l # 1
          <6>1. k = l - 1 /\ ~ f
            BY <2>3, <2>10, <4>1, <4>3, <5>3
          <6>2. g + k = a.for
            BY <2>3, <4>1, <4>3, <5>1, <6>1
          <6>. QED
            BY <2>3, <2>6, <2>10, <3>2, <4>1, <5>1, <6>1, <6>2 DEF Agrees
        <5>. QED
          BY <5>2, <5>3
      <4>4. CASE ~ l > 0
        <5>1. l = 0 /\ k = 0 /\ (f <=> e)
          BY <2>3, <2>10, <4>4
        <5>2. g \in Nat /\ (e => g = a.for)
          BY <2>3, <4>1, <4>2
        <5>. QED
          BY <2>3, <2>6, <2>10, <3>2, <4>1, <5>1, <5>2 DEF Agrees
      <4>. QED
        BY <4>3, <4>4
    <3>3. CASE a.mode = "off"
      <4>1. l = 0 /\ ~ e /\ g = a.age
        BY <2>2, <2>4, <3>3 DEF Agrees
      <4>2. k = 0 /\ ~ f
        BY <2>10, <4>1
      <4>. QED
        BY <2>3, <2>6, <2>10, <3>3, <4>1, <4>2 DEF Agrees
    <3>4. CASE a.mode = "mixed"
      <4>1. g = a.age
        BY <2>4, <3>4
      <4>. QED
        BY <2>3, <2>6, <2>10, <3>4, <4>1 DEF Agrees
    <3>. QED
      BY <2>2, <3>1, <3>2, <3>3, <3>4 DEF Agrees
  <2>. QED
    <3>1. Agrees(asked'[t], left'[t], reload'[t], expired'[t])
      BY <1>1, <2>1, <2>9, <2>11
    <3>2. b.taken = a.taken
      BY <2>6
    <3>3. e => f
      BY <2>10
    <3>. QED
      BY <3>1, <3>2, <3>3, <2>1, <2>9
<1>3. OsTypeOK'
  <2>1. left' = [t \in Timer |-> left'[t]] /\ expired' = [t \in Timer |-> expired'[t]]
    BY DEF TimePasses
  <2>2. \A t \in Timer : left'[t] \in Nat /\ expired'[t] \in BOOLEAN
    BY <1>2 DEF Agrees
  <2>. QED
    BY <1>1, <2>1, <2>2 DEF OsInv, OsTypeOK
<1>4. asked' = [t \in Timer |-> asked'[t]]
  BY DEF TimePasses
<1>5. ReportsAreSound'
  BY <1>1, <1>2 DEF OsInv, ReportsAreSound, Reported
<1>. QED
  BY <1>2, <1>3, <1>4, <1>5 DEF OsInv

LEMMA OsInductive == ASSUME OsInv, [OsNext]_osVars PROVE OsInv'
<1>1. CASE \E t \in Timer, ms \in Intervals : tm_set_interval(t, ms)
  BY <1>1 DEF tm_set_interval, timerfdVars, OsInv, OsTypeOK, ReportsAreSound, Reported
<1>2. CASE \E i \in Intr : SignalComes(Signum[i])
  <2>1. PICK i \in Intr : SignalComes(Signum[i])
    BY <1>2
  <2>2. /\ UNCHANGED <<queue, osFate, interval, left, reload, expired, asked>>
        /\ sig' = sig \cup {Signum[i]}
    BY <2>1 DEF SignalComes, timerfdVars
  <2>3. OsTypeOK'
    BY <2>2 DEF OsInv, OsTypeOK
  <2>4. ReportsAreSound'
    BY <2>2 DEF OsInv, ReportsAreSound, Reported
  <2>. QED
    BY <2>2, <2>3, <2>4 DEF OsInv
<1>3. CASE UNCHANGED osVars
  BY <1>3 DEF osVars, OsInv, OsTypeOK, ReportsAreSound, Reported
<1>. QED
  BY <1>1, <1>2, <1>3, StartsOrStopsStep, WaitStep, ReadTickStep, ReadIntrStep, TimePassesStep
  DEF OsNext, Dispatch

LEMMA OsInvStays == OsSpec => []OsInv
<1>1. OsInit => OsInv
  BY OsInitHolds
<1>2. OsInv /\ [OsNext]_osVars => OsInv'
  BY OsInductive
<1>. QED
  BY <1>1, <1>2, PTL DEF OsSpec

(* A heartbeat that is started again and again expires at multiples of its    *)
(* interval after its first start, whatever its machine does to other timers. *)
THEOREM HeartbeatsKeepPhase == OsSpec => [](OsTypeOK /\ HeartbeatKeepsPhase)
<1>1. OsInv => OsTypeOK /\ HeartbeatKeepsPhase
  <2>. SUFFICES ASSUME OsInv, NEW t \in Timer, asked[t].mode = "periodic"
                PROVE  (asked[t].age + left[t]) % asked[t].for = 0
    BY DEF OsInv, HeartbeatKeepsPhase
  <2>1. asked[t].for \in Nat /\ asked[t].for > 0 /\ asked[t].age + left[t] = asked[t].for
    BY DEF OsInv, Agrees
  <2>. QED
    BY <2>1, Remainders
<1>. QED
  BY <1>1, OsInvStays, PTL

(* A machine hears a timer only if it has started it and not stopped it since, *)
(* a one-shot timer not before its interval has passed.                      *)
THEOREM TimeoutsAreDue == OsSpec => TimeoutIsDue
<1>. DEFINE Due == \A t \in Timer : ReadTick(t) /\ osFate' = "running" =>
                     /\ asked[t].mode # "off"
                     /\ asked[t].mode = "oneshot" => asked[t].age >= asked[t].for
<1>1. OsInv => Due
  <2>. SUFFICES ASSUME OsInv, NEW t \in Timer, ReadTick(t), osFate' = "running"
                PROVE  /\ asked[t].mode # "off"
                       /\ asked[t].mode = "oneshot" => asked[t].age >= asked[t].for
    OBVIOUS
  <2>1. expired[t]
    BY DEF ReadTick
  <2>2. Agrees(asked[t], left[t], reload[t], expired[t])
    BY DEF OsInv
  <2>. QED
    BY <2>1, <2>2 DEF Agrees
<1>2. TimeoutIsDue <=> [][Due]_osVars
  BY DEF TimeoutIsDue
<1>. HIDE DEF Due
<1>. QED
  BY <1>1, <1>2, OsInvStays, PTL

(* What was reported is there when it is read, unless the machine took it back *)
(* or the signal has gone to another interrupt for it.                       *)
THEOREM ReportsCanBeRead == OsSpec => ReadsSucceed
<1>. DEFINE Succeed ==
       /\ \A t \in Timer : ReadTick(t) /\ osFate' = "exit" => asked[t].taken
       /\ \A i \in Intr : ReadIntr(i) /\ osFate' = "exit" =>
            \E j \in Intr \ {i} : Signum[j] = Signum[i]
<1>1. OsInv => Succeed
  <2>. SUFFICES ASSUME OsInv PROVE Succeed
    OBVIOUS
  <2>1. \A c : Receive(c) => Reported(c)
    <3>1. queue # << >> => 1 \in DOMAIN queue /\ Head(queue) = queue[1]
      BY DEF OsInv, OsTypeOK
    <3>. QED
      BY <3>1 DEF Receive, Reported
  <2>2. ASSUME NEW t \in Timer, ReadTick(t), osFate' = "exit" PROVE asked[t].taken
    <3>1. Reported(t) /\ osFate = "running"
      BY <2>1, <2>2 DEF ReadTick, Receive
    <3>2. ~ expired[t]
      BY <2>2, <3>1 DEF ReadTick
    <3>. QED
      BY <3>1, <3>2 DEF OsInv, ReportsAreSound
  <2>3. ASSUME NEW i \in Intr, ReadIntr(i), osFate' = "exit"
        PROVE  \E j \in Intr \ {i} : Signum[j] = Signum[i]
    <3>1. Reported(i) /\ osFate = "running"
      BY <2>1, <2>3 DEF ReadIntr, Receive
    <3>2. Signum[i] \notin sig
      BY <2>3, <3>1 DEF ReadIntr
    <3>. QED
      BY <3>1, <3>2 DEF OsInv, ReportsAreSound
  <2>. QED
    BY <2>2, <2>3
<1>2. ReadsSucceed <=> [][Succeed]_osVars
  BY DEF ReadsSucceed
<1>. HIDE DEF Succeed
<1>. QED
  BY <1>1, <1>2, OsInvStays, PTL

-----------------------------------------------------------------------------
(* The engine's own test, for any tick and any timeout.  Until it is stopped   *)
(* its timeout is the one it was started with.                              *)
TimeoutRuns == asked["T1"].mode = "oneshot" /\ asked["T1"].for = Timeout

TestInv == osFate = "running" => OsInv /\ TimeoutRuns

LEMMA TestTimers == /\ Timer = {"T0", "T1"} /\ "T1" \in Timer /\ Intr = {"S0", "S1", "F"}
                    /\ Stopping = {"T1", "S0", "S1"} /\ Timer \ Stopping = {"T0"}
BY TestAssumption DEF Stopping

LEMMA TestInitHolds == ASSUME Started PROVE TestInv
<1>1. /\ Tick \in Nat \ {0} /\ Timeout \in Nat \ {0} /\ Tick \in Intervals /\ Timeout \in Intervals
  BY TestAssumption
<1>2. OsTypeOK
  BY <1>1, TestTimers DEF Started, OsTypeOK, OneShot
<1>3. \A t \in Timer : Agrees(asked[t], left[t], reload[t], expired[t])
  <2>1. asked["T0"] = [mode |-> "periodic", for |-> Tick, age |-> 0, taken |-> FALSE]
    BY TestTimers DEF Started, OneShot
  <2>2. left["T0"] = Tick /\ reload["T0"] = Tick /\ expired["T0"] = FALSE
    BY TestTimers DEF Started, OneShot
  <2>3. Agrees(asked["T0"], left["T0"], reload["T0"], expired["T0"])
    <3>1. Agrees([mode |-> "periodic", for |-> Tick, age |-> 0, taken |-> FALSE], Tick, Tick, FALSE)
      BY <1>1 DEF Agrees
    <3>. QED
      BY <2>1, <2>2, <3>1
  <2>4. asked["T1"] = [mode |-> "oneshot", for |-> Timeout, age |-> 0, taken |-> FALSE]
    BY TestTimers DEF Started, OneShot
  <2>5. left["T1"] = Timeout /\ reload["T1"] = 0 /\ expired["T1"] = FALSE
    BY TestTimers DEF Started, OneShot
  <2>6. Agrees(asked["T1"], left["T1"], reload["T1"], expired["T1"])
    <3>1. Agrees([mode |-> "oneshot", for |-> Timeout, age |-> 0, taken |-> FALSE], Timeout, 0, FALSE)
      BY <1>1 DEF Agrees
    <3>. QED
      BY <2>4, <2>5, <3>1
  <2>. QED
    BY <2>3, <2>6, TestTimers
<1>4. ReportsAreSound
  BY DEF Started, ReportsAreSound, Reported
<1>5. TimeoutRuns
  BY TestTimers DEF Started, OneShot, TimeoutRuns
<1>6. asked = [t \in Timer |-> asked[t]]
  BY DEF Started
<1>. QED
  BY <1>2, <1>3, <1>4, <1>5, <1>6 DEF TestInv, OsInv

LEMMA TestInductive == ASSUME TestInv, [TestNext]_osVars PROVE TestInv'
<1>. SUFFICES ASSUME osFate' = "running" PROVE OsInv' /\ TimeoutRuns'
  BY DEF TestInv
<1>1. CASE UNCHANGED osVars
  <2>1. OsInv /\ TimeoutRuns
    BY <1>1 DEF osVars, TestInv
  <2>2. OsInv'
    BY <1>1, <2>1, OsInductive
  <2>. QED
    BY <1>1, <2>1, <2>2 DEF osVars, TimeoutRuns
<1>2. CASE TestNext
  <2>1. osFate = "running"
    BY <1>2 DEF TestNext, TestDispatch, Prints, Stops, Wait, ReadTick, ReadIntr, Receive,
         TimePasses, SignalComes
  <2>2. OsInv /\ TimeoutRuns
    BY <2>1 DEF TestInv
  <2>3. ASSUME NEW c \in Stopping, Stops(c) PROVE FALSE
    BY <2>3 DEF Stops, Leave
  <2>4. OsInv'
    BY <1>2, <2>2, <2>3, WaitStep, ReadTickStep, ReadIntrStep, TimePassesStep, OsInductive
    DEF TestNext, TestDispatch, Prints, OsNext
  <2>5. CASE \E t \in Timer \ Stopping : ReadTick(t)
    <3>1. ReadTick("T0")
      BY <2>5, TestTimers
    <3>2. asked' = Heard("T0") \/ UNCHANGED asked
      BY <3>1 DEF ReadTick
    <3>3. asked'["T1"] = asked["T1"]
      BY <2>2, <3>2, TestTimers DEF OsInv, Heard
    <3>. QED
      BY <2>2, <2>4, <3>3 DEF TimeoutRuns
  <2>6. CASE TimePasses
    <3>1. PICK g : asked'["T1"] = [asked["T1"] EXCEPT !.age = g]
      BY <2>6, TestTimers DEF TimePasses
    <3>2. asked["T1"] \in [mode : {"off", "oneshot", "periodic", "mixed"}, for : Nat, age : Nat, taken : BOOLEAN]
      BY <2>2, TestTimers DEF OsInv, Agrees
    <3>. QED
      BY <2>2, <2>4, <3>1, <3>2 DEF TimeoutRuns
  <2>7. CASE Wait \/ (\E i \in Intr \ Stopping : ReadIntr(i)) \/ \E i \in Intr : SignalComes(Signum[i])
    <3>1. UNCHANGED asked
      BY <2>7 DEF Wait, ReadIntr, SignalComes
    <3>. QED
      BY <2>2, <2>4, <3>1 DEF TimeoutRuns
  <2>. QED
    BY <1>2, <2>3, <2>5, <2>6, <2>7 DEF TestNext, TestDispatch, Prints
<1>. QED
  BY <1>1, <1>2

(* The test is over before its timeout only because of a signal.              *)
THEOREM TestKeepsItsTime == TestSpec => EndsInTime
<1>. DEFINE InTime == osFate' = "stopped" =>
                        asked["T1"].age >= Timeout \/ {Signum["S0"], Signum["S1"]} \cap sig # {}
<1>1. Started => TestInv
  BY TestInitHolds
<1>2. TestInv /\ [TestNext]_osVars => TestInv'
  BY TestInductive
<1>3. TestInv /\ [TestNext]_osVars => [InTime]_osVars
  <2>. SUFFICES ASSUME TestInv, TestNext, osFate' = "stopped"
                PROVE  asked["T1"].age >= Timeout \/ {Signum["S0"], Signum["S1"]} \cap sig # {}
    OBVIOUS
  <2>1. osFate = "running"
    BY DEF TestNext, TestDispatch, Prints, Stops, Wait, ReadTick, ReadIntr, Receive,
         TimePasses, SignalComes
  <2>2. PICK c \in Stopping : Stops(c)
    BY <2>1 DEF TestNext, TestDispatch, Prints, Wait, ReadTick, ReadIntr, TimePasses, SignalComes
  <2>3. IF c \in Timer THEN expired[c] ELSE Signum[c] \in sig
    BY <2>2 DEF Stops, Leave
  <2>4. CASE c = "T1"
    <3>1. expired["T1"]
      BY <2>3, <2>4, TestTimers
    <3>2. Agrees(asked["T1"], left["T1"], reload["T1"], expired["T1"]) /\ TimeoutRuns
      BY <2>1, TestTimers DEF TestInv, OsInv
    <3>3. asked["T1"].age = Timeout /\ Timeout \in Nat
      BY <3>1, <3>2 DEF Agrees, TimeoutRuns
    <3>. QED
      BY <3>3
  <2>5. CASE c # "T1"
    <3>1. c \in {"S0", "S1"} /\ c \notin Timer
      BY <2>2, <2>5, TestTimers
    <3>. QED
      BY <2>3, <3>1
  <2>. QED
    BY <2>4, <2>5
<1>4. EndsInTime <=> [][InTime]_osVars
  BY DEF EndsInTime
<1>. HIDE DEF InTime
<1>. QED
  BY <1>1, <1>2, <1>3, <1>4, PTL DEF TestSpec

-----------------------------------------------------------------------------

(***************************************************************************)
(* File system watches.  The inductive invariant says of every event that     *)
(* waits what must be true when it is read; read() gives one event at a time   *)
(* because sizes sum up, which is shown of the recursive function by the least  *)
(* number for which it would fail.                                          *)
(***************************************************************************)

(* An event.                                                                *)
EventRec == [wd : Int, file : File \cup {None}, bit : Int, size : Nat \ {0}, no : Nat]

(* What an event tells: its watch has a number that was given, the table a    *)
(* place for it, with a name the machine gave for the event's file, unless the *)
(* machine has removed the watch.                                           *)
Tells(e, n, w, tb, g) ==
  e.bit # QOverflow =>
    /\ e.wd \in 1 .. n - 1 /\ e.wd \in DOMAIN tb
    /\ e.wd \in DOMAIN w => w[e.wd] = e.file
    /\ \/ <<tb[e.wd], e.file>> \in g
       \/ tb[e.wd] = None /\ e.wd \notin DOMAIN w

(* The table is an array of at least the announced length, with a name for     *)
(* each watch; what was never written is in it only if it has grown.          *)
TableInv(n, w, tb, g) ==
  /\ n \in Nat \ {0}
  /\ w \in [DOMAIN w -> File] /\ DOMAIN w \subseteq 1 .. n - 1
  /\ \E c \in Nat : c >= Nwatches /\ tb \in [0 .. c - 1 -> Path \cup {None, Junk}]
  /\ g \subseteq Path \X File
  /\ \A wd \in DOMAIN w : wd \in DOMAIN tb /\ <<tb[wd], w[wd]>> \in g
  /\ \A k \in DOMAIN tb : tb[k] = Junk => n > Nwatches

(* Events that wait are numbered from the one read last to the last that        *)
(* happened, and an overflow is among them when there is one too many.        *)
QueueInv(s, last, total) ==
  /\ s \in Seq(EventRec)
  /\ last \in Nat /\ total \in 0 .. MaxHappened /\ last + Len(s) = total
  /\ Len(s) <= MaxQueued + 1
  /\ Len(s) = MaxQueued + 1 => \E k \in DOMAIN s : s[k].bit = QOverflow
  /\ \A k \in DOMAIN s : s[k].no = last + k

(* The inductive invariant of the watches.                                  *)
WatchesInv ==
  /\ watchFate \in {"running", "deleted", "exit", "crash"}
  /\ named \in [Path -> File \cup {None}]
  /\ nextWd <= MaxWd + 1
  /\ pending \in BOOLEAN /\ (pending => events # << >>)
  /\ event \in EventRec
  /\ TableInv(nextWd, watch, table, given)
  /\ QueueInv(events, event.no, happened)
  /\ \A k \in DOMAIN events : Tells(events[k], nextWd, watch, table, given)
  /\ CrashExplained


(* The least-number principle, for sets.                                    *)
LEMMA SmallestNumber ==
  ASSUME NEW S, S \subseteq Nat, S # {}
  PROVE  \E m \in S : \A k \in S : m <= k
<1>. DEFINE R == {ss \in Nat \X Nat : ss[1] < ss[2]}
<1>1. IsWellFoundedOn(R, Nat)
  BY NatLessThanWellFounded DEF OpToRel
<1>2. PICK m \in S : \A k \in S : ~ (<<k, m>> \in R)
  <2>. HIDE DEF R
  <2>. QED
    BY <1>1, WFMin
<1>3. ASSUME NEW k \in S PROVE m <= k
  <2>1. m \in Nat /\ k \in Nat
    OBVIOUS
  <2>2. k < m => <<k, m>> \in R
    BY <2>1
  <2>. QED
    BY <1>2, <2>1, <2>2
<1>. QED
  BY <1>3

(* f holds the sums of the sizes of s, up to its n-th event.                 *)
Sums(f, s, n) ==
  f = [k \in 0 .. n |-> IF k = 0 THEN 0 ELSE f[k - 1] + s[k].size]

LEMMA SumsExist ==
  ASSUME NEW s \in Seq(EventRec), NEW n \in 0 .. Len(s)
  PROVE  \E f : Sums(f, s, n)
<1>. DEFINE Sumless == {k \in 0 .. Len(s) : \A f : ~ Sums(f, s, k)}
<1>1. SUFFICES ASSUME Sumless # {} PROVE FALSE
  OBVIOUS
<1>2. Sumless \subseteq Nat
  OBVIOUS
<1>3. PICK m \in Sumless : \A k \in Sumless : m <= k
  <2>. HIDE DEF Sumless
  <2>. QED
    BY <1>1, <1>2, SmallestNumber
<1>4. m \in 0 .. Len(s) /\ \A f : ~ Sums(f, s, m)
  OBVIOUS
<1>5. m # 0
  <2>1. Sums([k \in 0 .. 0 |-> 0], s, 0)
    BY DEF Sums
  <2>. QED
    BY <1>4, <2>1
<1>6. m - 1 \in 0 .. Len(s) /\ m - 1 \notin Sumless
  <2>1. m \in Nat /\ m - 1 < m /\ m - 1 \in 0 .. Len(s)
    BY <1>4, <1>5
  <2>. HIDE DEF Sumless
  <2>. QED
    BY <1>3, <2>1
<1>7. PICK f : Sums(f, s, m - 1)
  BY <1>6
<1>8. PICK g : g = [k \in 0 .. m |-> IF k = m THEN f[m - 1] + s[m].size ELSE f[k]]
  OBVIOUS
<1>9. Sums(g, s, m)
  <2>1. \A k \in 0 .. m - 1 : f[k] = IF k = 0 THEN 0 ELSE f[k - 1] + s[k].size
    BY <1>7 DEF Sums
  <2>2. ASSUME NEW k \in 0 .. m
        PROVE  g[k] = IF k = 0 THEN 0 ELSE g[k - 1] + s[k].size
    <3>1. CASE k = m
      <4>1. k # 0 /\ k - 1 \in 0 .. m /\ k - 1 # m
        BY <1>4, <1>5, <3>1
      <4>2. g[k - 1] = f[k - 1] /\ g[k] = f[m - 1] + s[m].size
        BY <1>8, <3>1, <4>1
      <4>. QED
        BY <3>1, <4>1, <4>2
    <3>2. CASE k # m /\ k = 0
      <4>1. 0 \in 0 .. m - 1
        BY <1>4, <1>5
      <4>2. f[0] = 0
        BY <2>1, <4>1
      <4>. QED
        BY <1>8, <3>2, <4>2
    <3>3. CASE k # m /\ k # 0
      <4>1. k \in 0 .. m - 1 /\ k - 1 \in 0 .. m /\ k - 1 # m
        BY <1>4, <3>3
      <4>2. g[k] = f[k] /\ g[k - 1] = f[k - 1]
        BY <1>8, <3>3, <4>1
      <4>. QED
        BY <2>1, <3>3, <4>1, <4>2
    <3>. QED
      BY <3>1, <3>2, <3>3
  <2>3. g = [k \in 0 .. m |-> g[k]]
    BY <1>8
  <2>. QED
    BY <2>2, <2>3 DEF Sums
<1>. QED
  BY <1>4, <1>9

(* ... and grow with every event.                                           *)
LEMMA SumsGrow ==
  ASSUME NEW s \in Seq(EventRec), NEW f, Sums(f, s, Len(s))
  PROVE  /\ \A k \in 0 .. Len(s) : f[k] \in Nat
         /\ f[0] = 0
         /\ \A k \in 1 .. Len(s) : f[1] = s[1].size /\ f[k] >= f[1] /\ (k > 1 => f[k] > f[1])
<1>1. \A k \in 0 .. Len(s) : f[k] = IF k = 0 THEN 0 ELSE f[k - 1] + s[k].size
  BY DEF Sums
<1>2. f[0] = 0
  <2>1. 0 \in 0 .. Len(s)
    OBVIOUS
  <2>. QED
    BY <1>1, <2>1
<1>3. \A k \in 1 .. Len(s) : f[k] = f[k - 1] + s[k].size /\ s[k].size \in Nat \ {0}
  <2>1. \A k \in 1 .. Len(s) : k # 0 /\ k \in 0 .. Len(s) /\ s[k] \in EventRec
    OBVIOUS
  <2>2. \A e \in EventRec : e.size \in Nat \ {0}
    BY DEF EventRec
  <2>. QED
    BY <1>1, <2>1, <2>2
<1>. DEFINE Fine(k) == f[k] \in Nat /\ (k > 0 => f[k] >= f[1]) /\ (k > 1 => f[k] > f[1])
            Bad == {k \in 0 .. Len(s) : ~ Fine(k)}
<1>4. Bad = {}
  <2>1. SUFFICES ASSUME Bad # {} PROVE FALSE
    OBVIOUS
  <2>2. Bad \subseteq Nat
    OBVIOUS
  <2>3. PICK m \in Bad : \A k \in Bad : m <= k
    <3>. HIDE DEF Bad
    <3>. QED
      BY <2>1, <2>2, SmallestNumber
  <2>4. m \in 0 .. Len(s) /\ ~ Fine(m)
    OBVIOUS
  <2>5. m # 0
    BY <1>2, <2>4
  <2>6. m - 1 \in 0 .. Len(s) /\ m \in 1 .. Len(s) /\ m - 1 < m /\ m \in Int
    BY <2>4, <2>5
  <2>7. Fine(m - 1)
    <3>1. m - 1 \notin Bad
      <4>. HIDE DEF Bad
      <4>. QED
        BY <2>3, <2>6
    <3>. QED
      BY <2>6, <3>1
  <2>8. f[m] = f[m - 1] + s[m].size /\ s[m].size \in Nat \ {0} /\ f[m - 1] \in Nat
    BY <1>3, <2>6, <2>7
  <2>9. CASE m = 1
    BY <2>4, <2>8, <2>9
  <2>10. CASE m > 1
    <3>1. f[m - 1] >= f[1]
      BY <2>6, <2>7, <2>10
    <3>2. 1 \in 0 .. Len(s) /\ 1 \notin Bad
      <4>1. 1 \in 0 .. Len(s) /\ ~ (m <= 1)
        BY <2>6, <2>10
      <4>. HIDE DEF Bad
      <4>. QED
        BY <2>3, <4>1
    <3>3. f[1] \in Nat
      BY <3>2
    <3>4. f[m] \in Nat /\ f[m] > f[1]
      BY <2>8, <3>1, <3>3
    <3>. QED
      BY <2>4, <2>6, <3>3, <3>4
  <2>. QED
    BY <2>6, <2>9, <2>10
<1>5. \A k \in 0 .. Len(s) : Fine(k)
  BY <1>4
<1>6. Len(s) # 0 => f[1] = s[1].size
  <2>1. ASSUME Len(s) # 0 PROVE f[1] = s[1].size
    <3>1. 1 \in 1 .. Len(s) /\ 1 - 1 = 0
      BY <2>1
    <3>2. f[1] = f[0] + s[1].size /\ s[1].size \in Nat
      BY <1>3, <3>1
    <3>. QED
      BY <1>2, <3>2
  <2>. QED
    BY <2>1
<1>. QED
  BY <1>2, <1>5, <1>6

(* With the smallest buffer that gets any event read() takes one; there is    *)
(* one iff the event fits.                                                   *)
LEMMA OneFits ==
  ASSUME WatchesInv, events # << >>
  PROVE  /\ Head(events) = events[1] /\ 1 \in DOMAIN events /\ events[1] \in EventRec
         /\ \A len \in Nat : Fit(len) > 0 => len >= events[1].size
         /\ Fit(events[1].size) = 1
<1>1. events \in Seq(EventRec)
  BY DEF WatchesInv, QueueInv
<1>2. Head(events) = events[1] /\ 1 \in DOMAIN events /\ events[1] \in EventRec /\ Len(events) > 0
  BY <1>1
<1>3. Sums(SizeUpTo, events, Len(events))
  <2>1. PICK f : Sums(f, events, Len(events))
    BY <1>1, SumsExist
  <2>2. f = [n \in 0 .. Len(events) |-> IF n = 0 THEN 0 ELSE f[n - 1] + events[n].size]
    BY <2>1 DEF Sums
  <2>3. SizeUpTo = [n \in 0 .. Len(events) |-> IF n = 0 THEN 0 ELSE SizeUpTo[n - 1] + events[n].size]
    BY <2>2 DEF SizeUpTo
  <2>. QED
    BY <2>3 DEF Sums
<1>4. PICK size, s : size = SizeUpTo /\ s = events
  OBVIOUS
<1>5. /\ \A k \in 0 .. Len(s) : size[k] \in Nat
      /\ size[0] = 0
      /\ \A k \in 1 .. Len(s) : size[1] = s[1].size /\ size[k] >= size[1] /\ (k > 1 => size[k] > size[1])
  <2>1. Sums(size, s, Len(s)) /\ s \in Seq(EventRec)
    BY <1>1, <1>3, <1>4
  <2>. QED
    BY <2>1, SumsGrow
<1>6. Len(s) \in Nat \ {0}
  BY <1>1, <1>2, <1>4
<1>. DEFINE Is(len, n) == size[n] <= len /\ (n < Len(s) => size[n + 1] > len)
<1>7. \A len : Fit(len) = CHOOSE n \in 0 .. Len(s) : Is(len, n)
  BY <1>4 DEF Fit
<1>8. PICK least : least = s[1].size /\ least \in Nat \ {0} /\ size[1] = least
  <2>1. 1 \in 1 .. Len(s)
    BY <1>6
  <2>2. \A e \in EventRec : e.size \in Nat \ {0}
    BY DEF EventRec
  <2>. QED
    BY <1>2, <1>4, <1>5, <2>1, <2>2
<1>9. ASSUME NEW len \in Nat, len < least PROVE Fit(len) = 0
  <2>1. Is(len, 0)
    BY <1>5, <1>8, <1>9
  <2>2. ASSUME NEW n \in 0 .. Len(s), Is(len, n) PROVE n = 0
    <3>1. CASE n # 0
      <4>1. n \in 1 .. Len(s) /\ n \in 0 .. Len(s)
        BY <3>1
      <4>2. size[n] >= least /\ size[n] \in Nat /\ size[n] <= len
        BY <1>5, <1>8, <2>2, <4>1
      <4>. QED
        BY <1>8, <1>9, <4>2
    <3>. QED
      BY <3>1
  <2>3. 0 \in 0 .. Len(s)
    BY <1>6
  <2>. HIDE DEF Is
  <2>. QED
    BY <1>7, <2>1, <2>2, <2>3
<1>10. Fit(least) = 1
  <2>1. Is(least, 1)
    <3>1. ASSUME 1 < Len(s) PROVE size[1 + 1] > least
      <4>1. 1 + 1 \in 1 .. Len(s) /\ 1 + 1 > 1
        BY <1>6, <3>1
      <4>. QED
        BY <1>5, <1>8, <4>1
    <3>. QED
      BY <1>8, <3>1
  <2>2. ASSUME NEW n \in 0 .. Len(s), Is(least, n) PROVE n = 1
    <3>1. CASE n = 0
      <4>1. 0 < Len(s) /\ 0 + 1 = 1
        BY <1>6
      <4>2. size[1] > least
        BY <2>2, <3>1, <4>1
      <4>. QED
        BY <1>8, <4>2
    <3>2. CASE n > 1
      <4>1. n \in 1 .. Len(s) /\ n \in 0 .. Len(s)
        BY <3>2
      <4>2. size[n] > least /\ size[n] \in Nat /\ size[n] <= least
        BY <1>5, <1>8, <2>2, <3>2, <4>1
      <4>. QED
        BY <1>8, <4>2
    <3>. QED
      BY <3>1, <3>2
  <2>3. 1 \in 0 .. Len(s)
    BY <1>6
  <2>. HIDE DEF Is
  <2>. QED
    BY <1>7, <2>1, <2>2, <2>3
<1>11. ASSUME NEW len \in Nat, Fit(len) > 0 PROVE len >= least
  <2>1. CASE len < least
    BY <1>9, <1>11, <2>1
  <2>. QED
    BY <1>8, <2>1
<1>. QED
  BY <1>2, <1>4, <1>8, <1>10, <1>11

(* t has one event more than s: e, or the news that there are too many.      *)
Gains(s, t, e) ==
  \/ t = s
  \/ /\ t \in Seq(EventRec) /\ Len(t) = Len(s) + 1
     /\ \A k \in DOMAIN s : t[k] = s[k]
     /\ t[Len(s) + 1] = e \/ t[Len(s) + 1].bit = QOverflow

LEMMA HappensStep ==
  ASSUME WatchesInv, NEW e \in EventRec, e.no = happened + 1, Happens(e)
  PROVE  QueueInv(events', event.no, happened') /\ Gains(events, events', e)
<1>1. PICK s, last, total : s = events /\ last = event.no /\ total = happened
  OBVIOUS
<1>2. QueueInv(s, last, total)
  BY <1>1 DEF WatchesInv
<1>3. total < MaxHappened /\ MaxHappened \in Nat /\ MaxQueued \in Nat /\ e.no = total + 1
  BY <1>1, WatchesAssumption DEF Happens
<1>4. PICK over : over = Event(-1, None, QOverflow, 1)
  OBVIOUS
<1>5. over \in EventRec /\ over.no = total + 1 /\ over.bit = QOverflow
  BY <1>1, <1>2, <1>4 DEF Event, EventRec, QueueInv, QOverflow
<1>6. PICK t : t = Queued(e)
  OBVIOUS
<1>7. events' = t /\ happened' = total + Len(t) - Len(s)
  BY <1>1, <1>6 DEF Happens
<1>8. \/ t = s
      \/ Len(s) < MaxQueued /\ t = Append(s, e)
      \/ Len(s) >= MaxQueued /\ (\A k \in DOMAIN s : s[k].bit # QOverflow) /\ t = Append(s, over)
  <2>1. Len(s) \in Nat
    BY <1>2 DEF QueueInv
  <2>. QED
    BY <1>1, <1>3, <1>4, <1>6, <2>1 DEF Queued
<1>9. CASE t = s
  <2>1. total + Len(s) - Len(s) = total
    BY <1>2 DEF QueueInv
  <2>. QED
    BY <1>1, <1>2, <1>7, <1>9, <2>1 DEF Gains
<1>10. CASE t # s
  <2>1. PICK x \in {e, over} :
          /\ t = Append(s, x)
          /\ Len(s) <= MaxQueued
          /\ Len(s) = MaxQueued => x = over
    <3>1. Len(s) \in Nat /\ Len(s) <= MaxQueued + 1
      BY <1>2 DEF QueueInv
    <3>2. CASE Len(s) < MaxQueued /\ t = Append(s, e)
      BY <1>3, <3>1, <3>2
    <3>3. CASE Len(s) >= MaxQueued /\ (\A k \in DOMAIN s : s[k].bit # QOverflow) /\ t = Append(s, over)
      <4>1. Len(s) # MaxQueued + 1
        BY <1>2, <3>3 DEF QueueInv
      <4>. QED
        BY <1>3, <3>1, <3>3, <4>1
    <3>. QED
      BY <1>8, <1>10, <3>2, <3>3
  <2>2. s \in Seq(EventRec) /\ x \in EventRec /\ x.no = total + 1
    BY <1>2, <1>3, <1>5 DEF QueueInv
  <2>3. /\ t \in Seq(EventRec) /\ Len(t) = Len(s) + 1
        /\ \A k \in DOMAIN s : t[k] = s[k]
        /\ t[Len(s) + 1] = x
        /\ DOMAIN t = 1 .. Len(s) + 1 /\ DOMAIN s = 1 .. Len(s) /\ Len(s) \in Nat
    BY ONLY <2>1, <2>2
  <2>4. Gains(s, t, e)
    BY <1>5, <2>3 DEF Gains
  <2>5. last \in Nat /\ total \in Nat /\ last + Len(s) = total /\ \A k \in DOMAIN s : s[k].no = last + k
    BY <1>2 DEF QueueInv
  <2>6. total + Len(t) - Len(s) = total + 1
    BY <2>3, <2>5
  <2>7. \A k \in DOMAIN t : t[k].no = last + k
    <3>1. ASSUME NEW k \in DOMAIN t PROVE t[k].no = last + k
      <4>1. CASE k = Len(s) + 1
        BY <2>2, <2>3, <2>5, <4>1, SMTT(30)
      <4>2. CASE k # Len(s) + 1
        <5>1. k \in DOMAIN s
          BY <2>3, <4>2
        <5>. QED
          BY <2>3, <2>5, <5>1
      <4>. QED
        BY <4>1, <4>2
    <3>. QED
      BY <3>1
  <2>8. Len(t) = MaxQueued + 1 => \E k \in DOMAIN t : t[k].bit = QOverflow
    <3>1. ASSUME Len(t) = MaxQueued + 1 PROVE \E k \in DOMAIN t : t[k].bit = QOverflow
      <4>1. /\ Len(s) \in Nat /\ MaxQueued \in Nat /\ Len(s) + 1 = MaxQueued + 1
            /\ DOMAIN t = 1 .. Len(s) + 1
        BY <1>3, <2>3, <3>1
      <4>2. Len(s) = MaxQueued /\ Len(s) + 1 \in DOMAIN t
        BY ONLY <4>1
      <4>. QED
        BY <1>5, <2>1, <2>3, <4>2
    <3>. QED
      BY <3>1
  <2>9. total + 1 \in 0 .. MaxHappened /\ last + Len(t) = total + 1 /\ Len(t) <= MaxQueued + 1
    <3>1. Len(s) \in Nat /\ Len(t) = Len(s) + 1 /\ Len(s) <= MaxQueued
      BY <2>1, <2>3
    <3>. QED
      BY ONLY <1>3, <2>5, <3>1
  <2>10. QueueInv(t, last, total + 1)
    BY <2>3, <2>5, <2>7, <2>8, <2>9 DEF QueueInv
  <2>. QED
    BY <1>1, <1>7, <2>4, <2>6, <2>10
<1>. QED
  BY <1>9, <1>10

(* What every event of s tells every event of t tells if the new one does.   *)
LEMMA AllTell ==
  ASSUME NEW s \in Seq(EventRec), NEW t, NEW e, Gains(s, t, e),
         NEW n, NEW w, NEW tb, NEW g,
         \A k \in DOMAIN s : Tells(s[k], n, w, tb, g), Tells(e, n, w, tb, g)
  PROVE  \A k \in DOMAIN t : Tells(t[k], n, w, tb, g)
<1>1. CASE t = s
  BY <1>1
<1>2. CASE t # s
  <2>1. /\ t \in Seq(EventRec) /\ Len(t) = Len(s) + 1
        /\ \A k \in DOMAIN s : t[k] = s[k]
        /\ t[Len(s) + 1] = e \/ t[Len(s) + 1].bit = QOverflow
    BY <1>2 DEF Gains
  <2>2. ASSUME NEW k \in DOMAIN t PROVE Tells(t[k], n, w, tb, g)
    <3>1. k \in DOMAIN s \/ k = Len(s) + 1
      <4>1. k \in 1 .. Len(s) + 1 /\ Len(s) \in Nat /\ DOMAIN s = 1 .. Len(s)
        BY <2>1
      <4>. QED
        BY <4>1
    <3>2. CASE k \in DOMAIN s
      BY <2>1, <3>2
    <3>3. CASE k = Len(s) + 1
      <4>1. t[k] = e \/ t[k].bit = QOverflow
        BY <2>1, <3>3
      <4>. QED
        BY <4>1 DEF Tells
    <3>. QED
      BY <3>1, <3>2, <3>3
  <2>. QED
    BY <2>2
<1>. QED
  BY <1>1, <1>2


LEMMA WatchesInitHold == ASSUME WatchesInit PROVE WatchesInv
<1>. USE DEF WatchesInit
<1>1. TableInv(nextWd, watch, table, given)
  <2>1. DOMAIN watch = {}
    OBVIOUS
  <2>2. watch \in [DOMAIN watch -> File]
    BY <2>1
  <2>3. Nwatches \in Nat /\ table \in [0 .. Nwatches - 1 -> Path \cup {None, Junk}]
    BY WatchesAssumption DEF FirstTable
  <2>4. \A k \in DOMAIN table : table[k] # Junk
    BY WatchesAssumption DEF FirstTable
  <2>. QED
    BY <2>1, <2>2, <2>3, <2>4 DEF TableInv
<1>2. event \in EventRec /\ event.no = 0
  BY DEF NoEvent, EventRec, CloseWrite
<1>3. QueueInv(events, event.no, happened)
  BY <1>2, WatchesAssumption DEF QueueInv
<1>4. nextWd <= MaxWd + 1
  <2>1. MaxWd \in Nat /\ nextWd = 1
    BY WatchesAssumption
  <2>. QED
    BY ONLY <2>1
<1>5. named \in [Path -> File \cup {None}] /\ pending = FALSE /\ watchFate = "running" /\ DOMAIN events = {}
  OBVIOUS
<1>. QED
  BY ONLY <1>1, <1>2, <1>3, <1>4, <1>5 DEF WatchesInv, CrashExplained

(* What the steps of a watch that is there may say of it.                   *)
LEMMA TellsOfWatch ==
  ASSUME WatchesInv, NEW wd \in DOMAIN watch, NEW bit \in Int, NEW size \in Nat \ {0}
  PROVE  LET e == Event(wd, watch[wd], bit, size) IN
         /\ e \in EventRec /\ e.no = happened + 1
         /\ Tells(e, nextWd, watch, table, given)
<1>1. PICK e : e = Event(wd, watch[wd], bit, size)
  OBVIOUS
<1>2. wd \in 1 .. nextWd - 1 /\ nextWd \in Nat /\ wd \in DOMAIN table /\ <<table[wd], watch[wd]>> \in given /\ watch[wd] \in File
  BY DEF WatchesInv, TableInv
<1>3. happened \in Nat
  BY DEF WatchesInv, QueueInv
<1>4. e.wd = wd /\ e.file = watch[wd] /\ e.no = happened + 1 /\ e \in EventRec
  BY <1>1, <1>2, <1>3 DEF Event, EventRec
<1>. QED
  BY <1>1, <1>2, <1>4 DEF Tells

LEMMA FileIsWrittenStep ==
  ASSUME WatchesInv, Running, NEW wd \in DOMAIN watch, FileIsWritten(wd)
  PROVE  WatchesInv'
<1>1. PICK size \in Sizes : Happens(Event(wd, watch[wd], CloseWrite, size))
  BY DEF FileIsWritten
<1>2. PICK e : e = Event(wd, watch[wd], CloseWrite, size)
  OBVIOUS
<1>3. e \in EventRec /\ e.no = happened + 1 /\ Tells(e, nextWd, watch, table, given)
  <2>1. size \in Nat \ {0} /\ CloseWrite \in Int
    BY WatchesAssumption DEF CloseWrite
  <2>. QED
    BY <1>2, <2>1, TellsOfWatch
<1>4. QueueInv(events', event.no, happened') /\ Gains(events, events', e)
  BY <1>1, <1>2, <1>3, HappensStep
<1>5. \A k \in DOMAIN events' : Tells(events'[k], nextWd, watch, table, given)
  <2>1. events \in Seq(EventRec) /\ \A k \in DOMAIN events : Tells(events[k], nextWd, watch, table, given)
    BY DEF WatchesInv, QueueInv
  <2>. QED
    BY <1>3, <1>4, <2>1, AllTell
<1>6. UNCHANGED <<watchFate, named, watch, nextWd, pending, event, table, given>>
  BY DEF FileIsWritten
<1>7. pending => events' # << >>
  <2>1. pending => events # << >> /\ events \in Seq(EventRec)
    BY DEF WatchesInv, QueueInv
  <2>. QED
    BY <1>4, <2>1 DEF Gains
<1>. QED
  BY <1>4, <1>5, <1>6, <1>7 DEF WatchesInv, CrashExplained

(* A watch goes: its name stays in the table, or is taken from it.           *)
LEMMA WatchGoes ==
  ASSUME WatchesInv, NEW wd \in DOMAIN watch, NEW tb,
         Happens(Event(wd, watch[wd], Ignored, 1)), watch' = Without(wd),
         tb = table \/ tb = Cleared(wd)
  PROVE  /\ TableInv(nextWd, watch', tb, given)
         /\ QueueInv(events', event.no, happened')
         /\ \A k \in DOMAIN events' : Tells(events'[k], nextWd, watch', tb, given)
         /\ pending => events' # << >>
<1>1. PICK e : e = Event(wd, watch[wd], Ignored, 1)
  OBVIOUS
<1>2. e \in EventRec /\ e.no = happened + 1 /\ Tells(e, nextWd, watch, table, given)
  BY <1>1, TellsOfWatch DEF Ignored
<1>3. QueueInv(events', event.no, happened') /\ Gains(events, events', e)
  BY <1>1, <1>2, HappensStep
<1>4. PICK w : w = Without(wd)
  OBVIOUS
<1>5. /\ DOMAIN w = DOMAIN watch \ {wd} /\ wd \notin DOMAIN w
      /\ \A v \in DOMAIN w : w[v] = watch[v]
      /\ w = [v \in DOMAIN w |-> w[v]]
  BY <1>4 DEF Without
<1>6. TableInv(nextWd, watch, table, given)
  BY DEF WatchesInv
<1>7. DOMAIN tb = DOMAIN table /\ \A v \in DOMAIN table : v # wd => tb[v] = table[v]
  BY DEF Cleared
<1>8. tb[wd] = table[wd] \/ tb[wd] = None
  <2>1. wd \in DOMAIN table
    BY <1>6 DEF TableInv
  <2>. QED
    BY <2>1 DEF Cleared
<1>9. TableInv(nextWd, w, tb, given)
  <2>1. w \in [DOMAIN w -> File]
    <3>1. \A v \in DOMAIN w : w[v] \in File
      BY <1>5, <1>6 DEF TableInv
    <3>. QED
      BY <1>5, <3>1
  <2>2. PICK c \in Nat : c >= Nwatches /\ table \in [0 .. c - 1 -> Path \cup {None, Junk}]
    BY <1>6 DEF TableInv
  <2>3. tb \in [0 .. c - 1 -> Path \cup {None, Junk}]
    BY <2>2 DEF Cleared
  <2>4. \A v \in DOMAIN w : v \in DOMAIN tb /\ <<tb[v], w[v]>> \in given
    BY <1>5, <1>6, <1>7 DEF TableInv
  <2>5. \A k \in DOMAIN tb : tb[k] = Junk => nextWd > Nwatches
    BY <1>6, <1>7, <1>8, WatchesAssumption DEF TableInv
  <2>. QED
    BY <1>5, <1>6, <2>1, <2>2, <2>3, <2>4, <2>5 DEF TableInv
<1>10. ASSUME NEW x, Tells(x, nextWd, watch, table, given)
       PROVE  Tells(x, nextWd, w, tb, given)
  <2>1. CASE x.bit = QOverflow
    BY <2>1 DEF Tells
  <2>2. CASE x.bit # QOverflow
    <3>1. /\ x.wd \in 1 .. nextWd - 1 /\ x.wd \in DOMAIN table
          /\ x.wd \in DOMAIN watch => watch[x.wd] = x.file
          /\ \/ <<table[x.wd], x.file>> \in given
             \/ table[x.wd] = None /\ x.wd \notin DOMAIN watch
      BY <1>10, <2>2 DEF Tells
    <3>2. CASE x.wd = wd
      BY <1>5, <1>7, <1>8, <3>1, <3>2 DEF Tells
    <3>3. CASE x.wd # wd
      BY <1>5, <1>7, <3>1, <3>3 DEF Tells
    <3>. QED
      BY <3>2, <3>3
  <2>. QED
    BY <2>1, <2>2
<1>11. \A k \in DOMAIN events' : Tells(events'[k], nextWd, w, tb, given)
  <2>1. events \in Seq(EventRec) /\ \A k \in DOMAIN events : Tells(events[k], nextWd, w, tb, given)
    BY <1>10 DEF WatchesInv, QueueInv
  <2>2. Tells(e, nextWd, w, tb, given)
    BY <1>2, <1>10
  <2>. QED
    BY <1>3, <2>1, <2>2, AllTell
<1>12. pending => events' # << >>
  <2>1. pending => events # << >> /\ events \in Seq(EventRec)
    BY DEF WatchesInv, QueueInv
  <2>. QED
    BY <1>3, <2>1 DEF Gains
<1>. QED
  BY <1>3, <1>4, <1>9, <1>11, <1>12

LEMMA NameChangesStep ==
  ASSUME WatchesInv, Running, NEW p \in Path, NEW f \in File \cup {None}, NameChanges(p, f)
  PROVE  WatchesInv'
<1>. DEFINE gone == {wd \in DOMAIN watch : watch[wd] = named[p] /\ \A q \in Path \ {p} : named[q] # named[p]}
<1>1. /\ named' = [named EXCEPT ![p] = f]
      /\ UNCHANGED <<watchFate, nextWd, pending, event, table, given>>
      /\ gone = {} => UNCHANGED <<watch, events, happened>>
      /\ gone # {} => \E wd \in gone : Happens(Event(wd, named[p], Ignored, 1)) /\ watch' = Without(wd)
  BY DEF NameChanges
<1>2. named' \in [Path -> File \cup {None}]
  BY <1>1 DEF WatchesInv
<1>3. CASE gone = {}
  <2>1. UNCHANGED <<watchFate, nextWd, pending, event, table, given, watch, events, happened>>
    BY <1>1, <1>3
  <2>. HIDE DEF gone
  <2>. QED
    BY <1>2, <2>1 DEF WatchesInv, CrashExplained
<1>4. CASE gone # {}
  <2>1. PICK wd \in gone : Happens(Event(wd, named[p], Ignored, 1)) /\ watch' = Without(wd)
    BY <1>1, <1>4
  <2>2. wd \in DOMAIN watch /\ Happens(Event(wd, watch[wd], Ignored, 1)) /\ watch' = Without(wd)
    BY <2>1
  <2>3. PICK tb : tb = table
    OBVIOUS
  <2>4. /\ TableInv(nextWd, watch', tb, given)
        /\ QueueInv(events', event.no, happened')
        /\ \A k \in DOMAIN events' : Tells(events'[k], nextWd, watch', tb, given)
        /\ pending => events' # << >>
    BY <2>2, <2>3, WatchGoes
  <2>. HIDE DEF gone
  <2>. QED
    BY <1>1, <1>2, <2>3, <2>4 DEF WatchesInv, CrashExplained
<1>. QED
  BY <1>3, <1>4

LEMMA DelWatchStep ==
  ASSUME WatchesInv, Running, NEW wd, fs_del_watch(wd)
  PROVE  WatchesInv'
<1>1. UNCHANGED <<named, nextWd, pending, event, given>>
  BY DEF fs_del_watch
<1>2. CASE wd \notin DOMAIN watch
  BY <1>2 DEF fs_del_watch, WatchesInv, CrashExplained
<1>3. CASE wd \in DOMAIN watch
  <2>1. /\ Happens(Event(wd, watch[wd], Ignored, 1)) /\ watch' = Without(wd)
        /\ table' = Cleared(wd) /\ UNCHANGED watchFate
    BY <1>3 DEF fs_del_watch
  <2>2. PICK tb : tb = Cleared(wd)
    OBVIOUS
  <2>3. /\ TableInv(nextWd, watch', tb, given)
        /\ QueueInv(events', event.no, happened')
        /\ \A k \in DOMAIN events' : Tells(events'[k], nextWd, watch', tb, given)
        /\ pending => events' # << >>
    BY <1>3, <2>1, <2>2, WatchGoes
  <2>. QED
    BY <1>1, <2>1, <2>2, <2>3 DEF WatchesInv, CrashExplained
<1>. QED
  BY <1>2, <1>3

(* The number of a watch: that of one of the same file, or a new one.        *)
LEMMA NewWatchStep ==
  ASSUME WatchesInv, Running, NEW p \in Path, fs_new_watch(p)
  PROVE  WatchesInv'
<1>1. UNCHANGED <<named, events, happened, pending, event>>
  BY DEF fs_new_watch
<1>2. CASE named[p] = None
  <2>1. watchFate' = "exit" /\ UNCHANGED <<watch, nextWd, table, given>>
    BY <1>2 DEF fs_new_watch
  <2>. QED
    BY <1>1, <2>1 DEF WatchesInv, CrashExplained
<1>3. CASE named[p] # None
  <2>1. PICK wd, n, w, tb, g, f, long :
          /\ wd = WdFor(named[p]) /\ n = nextWd /\ w = watch /\ tb = table /\ g = given /\ f = named[p]
          /\ long = Expanded(wd)
    OBVIOUS
  <2>2. /\ wd <= MaxWd
        /\ watch' = [v \in DOMAIN w \cup {wd} |-> IF v = wd THEN f ELSE w[v]]
        /\ nextWd' = IF wd = n THEN n + 1 ELSE n
        /\ table' = [long EXCEPT ![wd] = p]
        /\ given' = g \cup {<<p, f>>}
        /\ UNCHANGED watchFate
    BY <1>3, <2>1 DEF fs_new_watch
  <2>3. PICK n2, w2, tb2, g2 : n2 = nextWd' /\ w2 = watch' /\ tb2 = table' /\ g2 = given'
    OBVIOUS
  <2>4. TableInv(n, w, tb, g) /\ n <= MaxWd + 1 /\ f \in File
    <3>1. TableInv(n, w, tb, g) /\ n <= MaxWd + 1
      BY <2>1 DEF WatchesInv
    <3>2. named \in [Path -> File \cup {None}]
      BY DEF WatchesInv
    <3>. QED
      BY <1>3, <2>1, <3>1, <3>2
  <2>5. wd = n \/ (wd \in DOMAIN w /\ w[wd] = f)
    <3>1. PICK has : has = {v \in DOMAIN w : w[v] = f}
      OBVIOUS
    <3>2. wd = IF has = {} THEN n ELSE CHOOSE v \in has : TRUE
      BY <2>1, <3>1 DEF WdFor
    <3>3. has # {} => (CHOOSE v \in has : TRUE) \in has
      OBVIOUS
    <3>. QED
      BY <3>1, <3>2, <3>3
  <2>6. n \in Nat \ {0} /\ wd \in 1 .. n /\ n2 \in Nat \ {0} /\ n2 >= n /\ wd \in 1 .. n2 - 1
    BY <2>2, <2>3, <2>4, <2>5 DEF TableInv
  <2>7. n2 <= MaxWd + 1
    BY <2>2, <2>3, <2>4, <2>5, <2>6, WatchesAssumption
  <2>8. PICK c \in Nat : c >= Nwatches /\ tb \in [0 .. c - 1 -> Path \cup {None, Junk}]
    BY <2>4 DEF TableInv
  <2>9. PICK d \in Nat : /\ d >= c /\ wd \in 0 .. d - 1
                         /\ long \in [0 .. d - 1 -> Path \cup {None, Junk}]
                         /\ \A v \in 0 .. c - 1 : long[v] = tb[v]
                         /\ wd \in 0 .. c - 1 => d = c
    <3>1. CASE wd \in DOMAIN tb
      <4>1. long = tb
        BY <2>1, <3>1 DEF Expanded
      <4>. QED
        BY <2>8, <3>1, <4>1
    <3>2. CASE wd \notin DOMAIN tb
      <4>1. PICK d : d = Growth + wd
        OBVIOUS
      <4>2. d \in Nat /\ d >= c /\ wd \in 0 .. d - 1 /\ wd \notin 0 .. c - 1 /\ \A v \in 0 .. c - 1 : v \in 0 .. d - 1
        <5>1. /\ c \in Nat /\ wd \in Nat /\ ~ (wd \in 0 .. c - 1) /\ Growth \in Nat \ {0} /\ d = Growth + wd
          BY <2>6, <2>8, <3>2, <4>1, WatchesAssumption
        <5>2. wd >= c /\ d \in Nat /\ d > wd
          BY ONLY <5>1
        <5>. QED
          BY ONLY <5>1, <5>2
      <4>3. long = [v \in 0 .. d - 1 |-> IF v \in DOMAIN tb THEN tb[v] ELSE Junk]
        <5>1. wd \notin DOMAIN table /\ table = tb
          BY <2>1, <3>2
        <5>2. Growth + wd - 1 = d - 1
          <6>1. Growth \in Int /\ wd \in Int /\ d = Growth + wd
            BY <2>6, <4>1, WatchesAssumption
          <6>. QED
            BY ONLY <6>1
        <5>. QED
          BY <2>1, <5>1, <5>2 DEF Expanded
      <4>4. DOMAIN tb = 0 .. c - 1 /\ \A v \in 0 .. c - 1 : tb[v] \in Path \cup {None, Junk}
        BY <2>8
      <4>5. long \in [0 .. d - 1 -> Path \cup {None, Junk}] /\ \A v \in 0 .. c - 1 : long[v] = tb[v]
        BY <4>2, <4>3, <4>4
      <4>. QED
        BY <4>2, <4>5
    <3>. QED
      BY <3>1, <3>2
  <2>10. /\ tb2 \in [0 .. d - 1 -> Path \cup {None, Junk}]
         /\ tb2[wd] = p
         /\ \A v \in 0 .. c - 1 : v # wd => tb2[v] = tb[v]
         /\ \A v \in 0 .. d - 1 : v # wd => tb2[v] = long[v]
         /\ \A v \in 0 .. c - 1 : v \in 0 .. d - 1
    <3>1. \A v \in 0 .. c - 1 : v \in 0 .. d - 1
      BY <2>9
    <3>. QED
      BY <2>2, <2>3, <2>9, <3>1
  <2>11. /\ DOMAIN tb = 0 .. c - 1 /\ DOMAIN tb2 = 0 .. d - 1
         /\ DOMAIN w2 = DOMAIN w \cup {wd} /\ w2[wd] = f
         /\ \A v \in DOMAIN w : w2[v] = w[v]
         /\ g \subseteq g2 /\ <<p, f>> \in g2 /\ g2 \subseteq Path \X File
    <3>1. g \subseteq Path \X File
      BY <2>4 DEF TableInv
    <3>2. <<p, f>> \in Path \X File
      BY <2>4
    <3>3. DOMAIN tb = 0 .. c - 1 /\ DOMAIN tb2 = 0 .. d - 1
      BY <2>8, <2>10
    <3>4. wd \in DOMAIN w => w[wd] = f
      <4>1. n \notin 1 .. n - 1
        BY <2>6
      <4>2. n \notin DOMAIN w
        BY <2>4, <4>1 DEF TableInv
      <4>. QED
        BY <2>5, <4>2
    <3>5. w2 = [v \in DOMAIN w \cup {wd} |-> IF v = wd THEN f ELSE w[v]] /\ g2 = g \cup {<<p, f>>}
      BY <2>2, <2>3
    <3>. QED
      BY ONLY <3>1, <3>2, <3>3, <3>4, <3>5
  <2>12. TableInv(n2, w2, tb2, g2)
    <3>1. w2 \in [DOMAIN w2 -> File] /\ DOMAIN w2 \subseteq 1 .. n2 - 1
      <4>1. w \in [DOMAIN w -> File] /\ DOMAIN w \subseteq 1 .. n - 1
        BY <2>4 DEF TableInv
      <4>2. \A v \in 1 .. n - 1 : v \in 1 .. n2 - 1
        BY <2>6
      <4>3. w2 = [v \in DOMAIN w2 |-> w2[v]]
        BY <2>2, <2>3
      <4>4. \A v \in DOMAIN w2 : w2[v] \in File
        BY <2>4, <2>11, <4>1
      <4>. QED
        BY <2>6, <2>11, <4>1, <4>2, <4>3, <4>4
    <3>2. d >= Nwatches
      BY <2>8, <2>9, WatchesAssumption
    <3>3. \A v \in DOMAIN w2 : v \in DOMAIN tb2 /\ <<tb2[v], w2[v]>> \in g2
      <4>1. \A v \in DOMAIN w : v \in 0 .. c - 1 /\ <<tb[v], w[v]>> \in g
        BY <2>4, <2>11 DEF TableInv
      <4>. QED
        BY <2>9, <2>10, <2>11, <4>1
    <3>4. ASSUME NEW k \in DOMAIN tb2, tb2[k] = Junk PROVE n2 > Nwatches
      <4>1. k # wd
        BY <2>10, <3>4, WatchesAssumption
      <4>2. CASE k \in 0 .. c - 1
        <5>1. tb[k] = Junk
          BY <2>10, <3>4, <4>1, <4>2
        <5>2. n > Nwatches
          BY <2>4, <2>11, <4>2, <5>1 DEF TableInv
        <5>. QED
          BY <2>6, <5>2, WatchesAssumption
      <4>3. CASE k \notin 0 .. c - 1
        <5>1. wd \notin 0 .. c - 1
          BY <2>9, <2>11, <4>3
        <5>. QED
          BY <2>6, <2>8, <5>1, WatchesAssumption
      <4>. QED
        BY <4>2, <4>3
    <3>. QED
      BY <2>6, <2>10, <2>11, <3>1, <3>2, <3>3, <3>4 DEF TableInv
  <2>13. ASSUME NEW x, Tells(x, n, w, tb, g) PROVE Tells(x, n2, w2, tb2, g2)
    <3>1. CASE x.bit = QOverflow
      BY <3>1 DEF Tells
    <3>2. CASE x.bit # QOverflow
      <4>1. /\ x.wd \in 1 .. n - 1 /\ x.wd \in DOMAIN tb
            /\ x.wd \in DOMAIN w => w[x.wd] = x.file
            /\ \/ <<tb[x.wd], x.file>> \in g
               \/ tb[x.wd] = None /\ x.wd \notin DOMAIN w
        BY <2>13, <3>2 DEF Tells
      <4>2. x.wd \in 1 .. n2 - 1 /\ x.wd \in DOMAIN tb2
        <5>1. x.wd \in 0 .. c - 1
          BY <2>11, <4>1
        <5>2. x.wd \in 0 .. d - 1
          BY <2>10, <5>1
        <5>3. n \in Nat /\ n2 \in Nat /\ n2 >= n /\ x.wd \in 1 .. n - 1
          BY <2>6, <4>1
        <5>4. x.wd \in 1 .. n2 - 1
          BY ONLY <5>3
        <5>. QED
          BY <2>11, <5>2, <5>4
      <4>3. CASE x.wd = wd
        <5>1. wd \in DOMAIN w /\ w[wd] = f
          BY <2>5, <2>6, <4>1, <4>3
        <5>. QED
          BY <2>10, <2>11, <4>1, <4>2, <4>3, <5>1 DEF Tells
      <4>4. CASE x.wd # wd
        BY <2>10, <2>11, <4>1, <4>2, <4>4 DEF Tells
      <4>. QED
        BY <4>3, <4>4
    <3>. QED
      BY <3>1, <3>2
  <2>14. \A k \in DOMAIN events : Tells(events[k], n2, w2, tb2, g2)
    BY <2>1, <2>13 DEF WatchesInv
  <2>15. watchFate # "crash"
    BY DEF Running
  <2>. QED
    BY <1>1, <2>2, <2>3, <2>7, <2>12, <2>14, <2>15 DEF WatchesInv, CrashExplained
<1>. QED
  BY <1>2, <1>3

LEMMA WaitForFsStep == ASSUME WatchesInv, WaitForFs PROVE WatchesInv'
BY DEF WaitForFs, inotifyVars, WatchesInv, CrashExplained

(* One event is taken from the queue, if it fits.                            *)
LEMMA ReadStep ==
  ASSUME WatchesInv, ReadEvent
  PROVE  /\ Len(events) > 0 /\ Head(events) = events[1]
         /\ UNCHANGED <<named, watch, nextWd, happened, table, given>> /\ pending' = FALSE
         /\ \/ /\ watchFate' = "exit" /\ UNCHANGED <<events, event>>
               /\ events[1].size >= BufSize
            \/ /\ event' = events[1] /\ events' = Taken(1)
               /\ watchFate' = "running" \/ (watchFate' = "crash" /\ event'.bit \notin Columns)
<1>1. events # << >> /\ events \in Seq(EventRec)
  BY DEF ReadEvent, WatchesInv, QueueInv
<1>. DEFINE enough == {len \in Lengths : Fit(len) > 0}
<1>2. /\ UNCHANGED <<named, watch, nextWd, happened, table, given>> /\ pending' = FALSE
      /\ watchFate = "running"
      /\ enough = {} => watchFate' = "exit" /\ UNCHANGED <<events, event>>
      /\ enough # {} => /\ event' = Head(events)
                        /\ events' = Taken(Fit(CHOOSE len \in enough : \A l \in enough : len <= l))
                        /\ event'.bit \in Columns => watchFate' = watchFate
                        /\ event'.bit \notin Columns => watchFate' \in {"running", "crash"}
  BY DEF ReadEvent, Running
<1>3. PICK size : size = events[1].size
  OBVIOUS
<1>4. /\ Head(events) = events[1] /\ size \in Nat \ {0}
      /\ \A len \in Nat : Fit(len) > 0 => len >= size
      /\ Fit(size) = 1
  <2>1. /\ Head(events) = events[1] /\ events[1] \in EventRec
        /\ \A len \in Nat : Fit(len) > 0 => len >= size
        /\ Fit(size) = 1
    BY <1>1, <1>3, OneFits
  <2>. QED
    BY <1>3, <2>1 DEF EventRec
<1>5. Lengths = 1 .. BufSize - 1 /\ BufSize \in Nat
  BY WatchesAssumption DEF Lengths
<1>6. CASE size < BufSize
  <2>1. size \in enough
    BY <1>4, <1>5, <1>6
  <2>2. \A l \in enough : l \in Nat /\ l >= size
    BY <1>4, <1>5
  <2>3. (CHOOSE len \in enough : \A l \in enough : len <= l) = size
    <3>. HIDE DEF enough
    <3>1. \A l \in enough : size <= l
      BY <1>4, <2>2
    <3>2. ASSUME NEW len \in enough, \A l \in enough : len <= l PROVE len = size
      BY <1>4, <2>1, <2>2, <3>2
    <3>. QED
      BY <2>1, <3>1, <3>2
  <2>4. enough # {}
    BY <2>1
  <2>. HIDE DEF enough
  <2>5. /\ event' = events[1]
        /\ event'.bit \in Columns => watchFate' = watchFate
        /\ event'.bit \notin Columns => watchFate' \in {"running", "crash"}
    BY <1>2, <1>4, <2>4
  <2>6. events' = Taken(Fit(CHOOSE len \in enough : \A l \in enough : len <= l))
    BY <1>2, <2>4
  <2>7. events' = Taken(1)
    BY <1>4, <2>3, <2>6
  <2>8. watchFate' = "running" \/ (watchFate' = "crash" /\ event'.bit \notin Columns)
    <3>1. watchFate = "running"
      BY <1>2
    <3>. QED
      BY ONLY <2>5, <3>1
  <2>9. Len(events) > 0
    BY <1>1
  <2>. QED
    BY <1>2, <1>4, <2>5, <2>7, <2>8, <2>9
<1>7. CASE size >= BufSize
  <2>1. enough = {}
    BY <1>4, <1>5, <1>7
  <2>. HIDE DEF enough
  <2>. QED
    BY <1>1, <1>2, <1>3, <1>4, <1>7, <2>1
<1>8. size < BufSize \/ size >= BufSize
  BY <1>4, <1>5
<1>. QED
  BY <1>6, <1>7, <1>8

LEMMA ReadEventStep == ASSUME WatchesInv, ReadEvent PROVE WatchesInv'
<1>1. /\ Len(events) > 0
      /\ UNCHANGED <<named, watch, nextWd, happened, table, given>> /\ pending' = FALSE
      /\ \/ /\ watchFate' = "exit" /\ UNCHANGED <<events, event>>
         \/ /\ event' = events[1] /\ events' = Taken(1)
            /\ watchFate' = "running" \/ (watchFate' = "crash" /\ event'.bit \notin Columns)
  BY ReadStep
<1>2. CASE watchFate' = "exit" /\ UNCHANGED <<events, event>>
  BY <1>1, <1>2 DEF WatchesInv, CrashExplained
<1>3. CASE /\ event' = events[1] /\ events' = Taken(1)
           /\ watchFate' = "running" \/ (watchFate' = "crash" /\ event'.bit \notin Columns)
  <2>1. PICK s, t, last, total : s = events /\ t = SubSeq(s, 2, Len(s)) /\ last = event.no /\ total = happened
    OBVIOUS
  <2>2. events' = t
    BY <1>3, <2>1 DEF Taken
  <2>3. /\ s \in Seq(EventRec) /\ last \in Nat /\ total \in 0 .. MaxHappened /\ last + Len(s) = total
        /\ Len(s) <= MaxQueued + 1 /\ \A k \in DOMAIN s : s[k].no = last + k
    BY <2>1 DEF WatchesInv, QueueInv
  <2>4. Len(s) \in Nat \ {0} /\ 1 \in DOMAIN s /\ s[1] \in EventRec /\ event' = s[1]
    <3>1. Len(s) > 0 /\ event' = s[1]
      BY <1>1, <1>3, <2>1
    <3>. QED
      BY <2>3, <3>1
  <2>5. t \in Seq(EventRec) /\ Len(t) = Len(s) - 1
    <3>1. Len(s) \in Nat /\ \A k \in 2 .. Len(s) : s[k] \in EventRec
      BY ONLY <2>3
    <3>2. t = SubSeq(s, 2, Len(s)) /\ 2 <= Len(s) + 1
      BY ONLY <2>1, <2>4
    <3>3. t \in Seq(EventRec)
      BY ONLY <3>1, <3>2
    <3>4. Len(t) = Len(s) - 1
      BY ONLY <3>1, <3>2
    <3>. QED
      BY <3>3, <3>4
  <2>6. \A k \in 1 .. Len(t) : t[k] = s[k + 1] /\ k + 1 \in DOMAIN s
    <3>1. \A k \in 1 .. Len(t) : t[k] = s[2 + k - 1]
      BY ONLY <2>1, <2>3, <2>4, <2>5
    <3>2. \A k \in 1 .. Len(t) : 2 + k - 1 = k + 1 /\ k + 1 \in 1 .. Len(s)
      BY ONLY <2>4, <2>5
    <3>3. DOMAIN s = 1 .. Len(s)
      BY <2>3
    <3>. QED
      BY ONLY <3>1, <3>2, <3>3
  <2>7. s[1].no = last + 1
    BY <2>3, <2>4
  <2>8. DOMAIN t = 1 .. Len(t)
    BY <2>5
  <2>9. QueueInv(t, last + 1, total)
    <3>1. \A k \in DOMAIN t : t[k].no = last + 1 + k
      <4>1. \A k \in DOMAIN t : t[k].no = last + (k + 1) /\ k \in Nat
        BY <2>3, <2>6, <2>8
      <4>. QED
        BY <2>3, <4>1
    <3>2. last + 1 \in Nat /\ last + 1 + Len(t) = total /\ Len(t) < MaxQueued + 1 /\ MaxQueued \in Nat
      <4>1. /\ last \in Nat /\ MaxQueued \in Nat /\ Len(s) \in Nat /\ Len(t) = Len(s) - 1
            /\ last + Len(s) = total /\ Len(s) <= MaxQueued + 1
        BY <2>3, <2>4, <2>5, WatchesAssumption
      <4>. QED
        BY ONLY <4>1
    <3>. QED
      BY <2>3, <2>5, <3>1, <3>2 DEF QueueInv
  <2>10. \A k \in DOMAIN t : Tells(t[k], nextWd, watch, table, given)
    BY <2>1, <2>6, <2>8 DEF WatchesInv
  <2>. QED
    BY <1>1, <1>3, <2>1, <2>2, <2>4, <2>7, <2>9, <2>10 DEF WatchesInv, CrashExplained
<1>. QED
  BY <1>1, <1>2, <1>3

LEMMA DeleteStep == ASSUME WatchesInv, Delete PROVE WatchesInv'
<1>1. UNCHANGED <<inotifyVars, pending, event, table, given>> /\ watchFate' \in Freed
  BY DEF Delete
<1>2. watchFate' \in {"deleted", "crash"} /\ (watchFate' = "crash" => nextWd > Nwatches)
  <2>1. \A k \in DOMAIN table : table[k] = Junk => nextWd > Nwatches
    BY DEF WatchesInv, TableInv
  <2>. QED
    BY <1>1, <2>1 DEF Freed
<1>. QED
  BY <1>1, <1>2 DEF WatchesInv, CrashExplained, inotifyVars

LEMMA WatchesInductive == ASSUME WatchesInv, [WatchesNext]_monitorVars PROVE WatchesInv'
<1>1. CASE FileEvents
  BY <1>1, FileIsWrittenStep, NameChangesStep DEF FileEvents
<1>2. CASE Calls
  BY <1>2, NewWatchStep, DelWatchStep DEF Calls
<1>3. CASE WaitForFs
  BY <1>3, WaitForFsStep
<1>4. CASE ReadEvent
  BY <1>4, ReadEventStep
<1>5. CASE Delete
  BY <1>5, DeleteStep
<1>6. CASE UNCHANGED monitorVars
  BY <1>6 DEF monitorVars, inotifyVars, WatchesInv, CrashExplained
<1>. QED
  BY <1>1, <1>2, <1>3, <1>4, <1>5, <1>6 DEF WatchesNext

LEMMA WatchesInvStays == WatchesSpec => []WatchesInv
<1>1. WatchesInit => WatchesInv
  BY WatchesInitHold
<1>2. WatchesInv /\ [WatchesNext]_monitorVars => WatchesInv'
  BY WatchesInductive
<1>. QED
  BY <1>1, <1>2, PTL DEF WatchesSpec

LEMMA WatchesAreSound == WatchesInv => WatchesTypeOK /\ TableIsSound /\ EventsInOrder
<1>1. SUFFICES ASSUME WatchesInv PROVE WatchesTypeOK /\ TableIsSound /\ EventsInOrder
  OBVIOUS
<1>2. /\ TableInv(nextWd, watch, table, given) /\ QueueInv(events, event.no, happened)
      /\ watchFate \in {"running", "deleted", "exit", "crash"}
      /\ named \in [Path -> File \cup {None}] /\ pending \in BOOLEAN
      /\ nextWd <= MaxWd + 1 /\ CrashExplained
  BY <1>1 DEF WatchesInv
<1>3. table \in [0 .. Cardinality(DOMAIN table) - 1 -> Path \cup {None, Junk}]
  <2>1. PICK c \in Nat : table \in [0 .. c - 1 -> Path \cup {None, Junk}]
    BY <1>2 DEF TableInv
  <2>2. Cardinality(0 .. c - 1) = c
    <3>1. 0 \in Int /\ c - 1 \in Int /\ (0 > c - 1 <=> c = 0) /\ c - 1 - 0 + 1 = c
      BY ONLY c \in Nat
    <3>. QED
      BY ONLY <3>1, FS_Interval
  <2>. QED
    BY <2>1, <2>2
<1>4. event.no \in 0 .. happened
  BY <1>2 DEF QueueInv
<1>5. nextWd \in 1 .. MaxWd + 1
  <2>1. nextWd \in Nat \ {0} /\ nextWd <= MaxWd + 1 /\ MaxWd \in Nat
    BY <1>2, WatchesAssumption DEF TableInv
  <2>. QED
    BY ONLY <2>1
<1>6. WatchesTypeOK
  <2>1. watch \in [DOMAIN watch -> File] /\ DOMAIN watch \subseteq 1 .. nextWd - 1 /\ given \subseteq Path \X File
    BY <1>2 DEF TableInv
  <2>2. Len(events) <= MaxQueued + 1 /\ happened \in 0 .. MaxHappened
    BY <1>2 DEF QueueInv
  <2>. QED
    BY ONLY <1>2, <1>3, <1>4, <1>5, <2>1, <2>2 DEF WatchesTypeOK
<1>7. WatchesHaveNames
  BY <1>2 DEF TableInv, WatchesHaveNames
<1>8. EventsInOrder
  BY <1>2 DEF QueueInv, EventsInOrder
<1>. QED
  BY ONLY <1>2, <1>6, <1>7, <1>8 DEF TableIsSound

(* However often the table has grown, and whatever becomes of the files, the  *)
(* number of each watch leads to a name the machine gave for that very file,   *)
(* and no word of the table that nobody wrote is used by a machine that keeps  *)
(* to the number of watches its description announces.                      *)
THEOREM WatchesInvariance == WatchesSpec => [](WatchesTypeOK /\ TableIsSound)
BY WatchesInvStays, WatchesAreSound, PTL

(* Each message reads one event, the next one that happened.                *)
THEOREM EventsComeInOrder == WatchesSpec => []EventsInOrder
BY WatchesInvStays, WatchesAreSound, PTL

(* The event that was read leads to a name of its file, or to none if the     *)
(* machine has removed the watch; and reading ends the process only if the     *)
(* event is as long as the buffer.                                          *)
THEOREM EventsLeadToNames == WatchesSpec => ReadsAreSound
<1>. DEFINE A == ReadEvent =>
       /\ watchFate' = "exit" => Head(events).size >= BufSize
       /\ watchFate' = "running" /\ event'.bit # QOverflow =>
            \/ <<table[event'.wd], event'.file>> \in given
            \/ table[event'.wd] = None /\ event'.wd \notin DOMAIN watch
<1>1. ASSUME WatchesInv, ReadEvent PROVE A
  <2>1. /\ Len(events) > 0 /\ Head(events) = events[1]
        /\ \/ /\ watchFate' = "exit" /\ UNCHANGED <<events, event>>
              /\ events[1].size >= BufSize
           \/ /\ event' = events[1]
              /\ watchFate' = "running" \/ watchFate' = "crash"
    BY <1>1, ReadStep
  <2>2. Tells(events[1], nextWd, watch, table, given)
    <3>1. 1 \in DOMAIN events
      BY <1>1, <2>1 DEF WatchesInv, QueueInv
    <3>. QED
      BY <1>1, <3>1 DEF WatchesInv
  <2>. QED
    BY <2>1, <2>2 DEF Tells
<1>2. WatchesInv /\ [WatchesNext]_monitorVars => [A]_monitorVars
  BY <1>1
<1>3. ReadsAreSound <=> [][A]_monitorVars
  BY DEF ReadsAreSound
<1>. HIDE DEF A
<1>. QED
  BY <1>2, <1>3, WatchesInvStays, PTL DEF WatchesSpec

=============================================================================
