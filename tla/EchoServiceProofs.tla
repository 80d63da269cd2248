-------------------------- MODULE EchoServiceProofs --------------------------
(***************************************************************************)
(* The echo server implements EchoService, for any number of machines and   *)
(* clients, any pool sizes and any limits.  What a client has sent and not   *)
(* got back is followed through the hands it passes: the buffers of the      *)
(* worker, the rx or tx machine that works for it, the messages they         *)
(* exchange (DataInv).                                                       *)
(***************************************************************************)
EXTENDS EchoServerProofs

-----------------------------------------------------------------------------
(* The data.  What a step does not touch stays in the hands it was in.      *)

(* The messages that mean data of worker w. *)
Matters(x, w) ==
  \/ x.src = w /\ x.dst \in Helper
  \/ x.dst = w /\ x.src \in Helper /\ x.code = "M1"
  \/ x = Self(w, "M0")

DataKept(c) ==
  /\ net'[c].nread = net[c].nread /\ net'[c].echoed = net[c].echoed
  /\ SaidLine(c) => SaidLine(c)'

(* Helper n does nothing new for w. *)
HelpKept(n, w) ==
  io'[n].fd # NULL /\ job'[n] = w =>
    io[n].fd # NULL /\ job[n] = w /\ (n \in Tx => (state'[n] = "work" <=> state[n] = "work"))

(* Worker w gives up, or is not touched. *)
HandsKept(w, S, U) ==
  \/ wi'[w].ci = NULL
  \/ /\ wi'[w] = wi[w] /\ DataKept(wi[w].ci)
     /\ \A n \in Helper : HelpKept(n, w)
     /\ \A x \in U : Matters(x, w) => x \in S
     /\ state'[w] = state[w] \/ Self(w, "M0") \notin U

LEMMA MatterMost ==
  ASSUME NEW w \in Worker
  PROVE  /\ Matters(Self(w, "M0"), w)
         /\ \A n \in Helper : Matters(Msg(w, n, w, "M1"), w) /\ Matters(Msg(n, w, NULL, "M1"), w)
BY MsgFields DEF Matters

LEMMA CarriesOn ==
  ASSUME NEW w \in Worker, NEW S, NEW U, wi[w].ci # NULL => Carries(w, S), HandsKept(w, S, U),
         wi'[w].ci # NULL
  PROVE  Carries(w, U)'
<1>1. /\ wi'[w] = wi[w] /\ DataKept(wi[w].ci) /\ \A n \in Helper : HelpKept(n, w)
      /\ \A x \in U : Matters(x, w) => x \in S
      /\ state'[w] = state[w] \/ Self(w, "M0") \notin U
  BY DEF HandsKept
<1>2. Carries(w, S)
  BY <1>1
<1>3. /\ Self(w, "M0") \in U => Self(w, "M0") \in S /\ state'[w] = state[w]
      /\ \A n \in Helper : /\ Msg(w, n, w, "M1") \in U => Msg(w, n, w, "M1") \in S
                           /\ Msg(n, w, NULL, "M1") \in U => Msg(n, w, NULL, "M1") \in S
  BY <1>1, MatterMost
<1>4. PICK c : c = wi[w].ci
  OBVIOUS
<1>5. Owed(c)' = Owed(c) /\ Settled(c)' = Settled(c) /\ (SaidLine(c) => SaidLine(c)')
  BY <1>1, <1>4 DEF DataKept, Owed, Settled
<1>6. \A b : Line(c, b) => Line(c, b)'
  BY <1>5 DEF Line
<1>7. /\ Rx \subseteq Helper /\ Tx \subseteq Helper /\ Rx \cap Tx = {}
  BY Kinships
<1>. QED
  BY <1>1, <1>2, <1>3, <1>4, <1>5, <1>6, <1>7 DEF Carries, HelpKept

LEMMA HandsAside ==
  ASSUME NEW S, NEW U, NEW d, InHands(S),
         \A w \in Worker \ {d} : HandsKept(w, S, U),
         d \in Worker /\ wi'[d].ci # NULL => Carries(d, U)',
         \A x \in U : Unheard(x) => \/ x \in S /\ net'[x.ptr].nread = net[x.ptr].nread
                                    \/ net'[x.ptr].nread = 0
  PROVE  InHands(U)'
<1>1. ASSUME NEW w \in Worker, wi'[w].ci # NULL
      PROVE  Carries(w, U)'
  <2>1. CASE w = d
    BY <1>1, <2>1
  <2>2. CASE w # d
    <3>1. wi[w].ci # NULL => Carries(w, S)
      BY DEF InHands
    <3>. QED
      BY <1>1, <2>2, <3>1, CarriesOn
  <2>. QED
    BY <2>1, <2>2
<1>2. NothingRead(U)'
  BY DEF InHands, NothingRead, Unheard
<1>. QED
  BY <1>1, <1>2 DEF InHands

(* A message is handled, and N is put.  T are the messages whose data are   *)
(* accounted for: all, or, after a second answer, none.  U is what is       *)
(* accounted for then.                                                      *)
Handing(q, T, N, U) ==
  /\ Dispatches(q) /\ EchoedInOrder /\ InHands(T)
  /\ T = ToSet(q) \/ (T = {} /\ U = {} /\ Early(Head(q)))
  /\ U \subseteq After(T, Head(q), N)

(* Data that nobody reads or writes. *)
EchoKept ==
  \A c \in Client :
    /\ DataKept(c)
    /\ net'[c].conn \in {"new", "backlog"} => net[c].conn \in {"new", "backlog"}

LEMMA EchoStays ==
  ASSUME EchoedInOrder, EchoKept
  PROVE  EchoedInOrder'
BY DEF EchoedInOrder, EchoKept, DataKept

(* What is put that means no data. *)
NoData(x) == ~ Unheard(x) /\ \A w \in Worker : ~ Matters(x, w)

LEMMA MeansNoData ==
  /\ \A m \in Helper : NoData(Self(m, "M0"))
  /\ \A m \in Helper, d \in Worker : NoData(Msg(m, d, NULL, "M2"))
  /\ \A d \in Worker, c \in Client : NoData(Msg(d, manager, c, "M1"))
  /\ \A c \in Client : NoData(Msg(manager, listener, c, "M0"))
  /\ \A d \in Worker : NoData(Self(d, "M3"))
<1>1. /\ NULL \notin Client /\ manager \notin Worker /\ listener \notin Worker
      /\ manager # listener /\ manager \notin Helper /\ listener \notin Helper
      /\ Helper \cap Worker = {}
  BY Kinships
<1>. QED
  BY <1>1, MsgFields, SelfFields DEF NoData, Unheard, Matters

LEMMA HandsQuiet ==
  ASSUME NEW q, NEW T, NEW N, NEW U, Handing(q, T, N, U), EchoKept,
         \A x \in N : \A w \in Worker : Matters(x, w) => wi'[w].ci = NULL,
         \A x \in U \ T : Unheard(x) => net[x.ptr].nread = 0,
         \A w \in Worker : \/ wi'[w].ci = NULL
                           \/ wi'[w] = wi[w] /\ state'[w] = state[w],
         \A n \in Helper, w \in Worker : HelpKept(n, w)
  PROVE  EchoedInOrder' /\ InHands(U)'
<1>1. U \subseteq T \cup N /\ InHands(T) /\ EchoedInOrder
  BY DEF Handing, After
<1>2. Typed /\ wi \in [Worker -> Info]
  BY DEF Handing, Dispatches, Typed
<1>3. ASSUME NEW w \in Worker
      PROVE  HandsKept(w, T, U)
  <2>1. wi[w].ci \in Client \cup {NULL}
    BY <1>2 DEF Info
  <2>2. CASE wi'[w].ci # NULL
    <3>1. wi'[w] = wi[w] /\ state'[w] = state[w] /\ wi[w].ci \in Client
      BY <2>1, <2>2
    <3>2. DataKept(wi[w].ci)
      BY <3>1 DEF EchoKept
    <3>. QED
      BY <1>1, <3>1, <3>2 DEF HandsKept
  <2>. QED
    BY <2>2 DEF HandsKept
<1>4. ASSUME NEW x \in U, Unheard(x)
      PROVE  \/ x \in T /\ net'[x.ptr].nread = net[x.ptr].nread
             \/ net'[x.ptr].nread = 0
  BY <1>1, <1>4 DEF Unheard, EchoKept, DataKept
<1>5. NULL \notin Worker
  BY Kinships
<1>6. InHands(U)'
  BY <1>1, <1>3, <1>4, <1>5, HandsAside
<1>. QED
  BY <1>1, <1>6, EchoStays

(* The handler put t, and with it handed over what T accounts for.          *)
HandsOver(q, T) ==
  \E t \in Seq(Message) :
    /\ queue' = Tail(queue) \o t
    /\ \A U : Handing(q, T, ToSet(t), U) => EchoedInOrder' /\ InHands(U)'

(* What is put introduces clients and machines at most. *)
Introduces(q, T, t) ==
  /\ \A x \in ToSet(t), w \in Worker : Matters(x, w) => wi'[w].ci = NULL
  /\ \A U, x : Handing(q, T, ToSet(t), U) /\ x \in U \ T /\ Unheard(x) => net[x.ptr].nread = 0

LEMMA IntroducesNobody ==
  ASSUME NEW q, NEW T, NEW t, \A x \in ToSet(t) : NoData(x)
  PROVE  Introduces(q, T, t)
BY DEF Introduces, NoData, Handing, After

(* The program has ended. *)
Stops == UNCHANGED <<queue, machineVars, worldVars>>

LEMMA HelperHandsOver ==
  ASSUME NEW q, NEW T, NEW n \in Helper, NEW t \in Seq(Message), Puts(t),
         \A x \in ToSet(t) : NoData(x),
         wi' = wi, net' = net,
         \A w \in Worker : state'[w] = state[w],
         \A p \in Helper : io'[p].fd \in {NULL, io[p].fd} /\ job'[p] \in {NULL, job[p]},
         \A p \in Tx : io'[p].fd # NULL => (state'[p] = "work" <=> state[p] = "work")
  PROVE  HandsOver(q, T)
<1>1. ASSUME NEW U, Handing(q, T, ToSet(t), U)
      PROVE  EchoedInOrder' /\ InHands(U)'
  <2>1. EchoKept
    BY DEF EchoKept, DataKept, SaidLine
  <2>2. \A p \in Helper, w \in Worker : HelpKept(p, w)
    BY Kinships DEF HelpKept
  <2>3. Introduces(q, T, t)
    BY IntroducesNobody
  <2>. QED
    BY <1>1, <2>1, <2>2, <2>3, HandsQuiet DEF Introduces
<1>. QED
  BY <1>1 DEF HandsOver, Puts

LEMMA DoneWithNothing ==
  ASSUME NEW n \in Helper, job[n] \in Worker,
         NEW t, t \in {DoneMsgs(n, "M2"), TxDoneMsgs(n, "M2")}
  PROVE  t \in Seq(Message) /\ \A x \in ToSet(t) : NoData(x)
<1>1. PICK w \in Worker : w = job[n]
  OBVIOUS
<1>. DEFINE x == Msg(n, w, NULL, "M2")
            y == Self(n, "M0")
<1>2. n \in Machine /\ w \in Machine /\ n # w
  BY Kinships
<1>3. x \in Message /\ y \in Message /\ x # y
  BY <1>2, MsgType, MsgFields, SelfFields DEF Self, Code0
<1>4. t = <<x, y>> \/ t = <<y, x>>
  BY <1>1 DEF DoneMsgs, TxDoneMsgs
<1>5. NoData(x) /\ NoData(y)
  BY MeansNoData
<1>. HIDE DEF x, y
<1>6. t \in Seq(Message) /\ ToSet(t) = {x, y}
  BY <1>3, <1>4, Put2
<1>. QED
  BY <1>5, <1>6

(* Reflexes of an rx machine that do not read. *)
LEMMA RxHandsNothing ==
  ASSUME NEW q, Dispatches(q), NEW T, NEW m \in Rx,
         \/ rx_init_M0(m) \/ rx_idle_M0(m) \/ rx_work_D0_fails(m)
         \/ rx_work_D0(m) /\ flags[m] # {}
         \/ rx_work_D2(m) \/ rx_work_T0(m) \/ rx_work_M0(m)
  PROVE  HandsOver(q, T) \/ Stops
<1>1. /\ Typed /\ m \in Helper /\ m \in Channel /\ m \notin Tx /\ m \notin Worker /\ m \in Machine
      /\ Helper \subseteq Channel
  BY Kinships DEF Dispatches
<1>2. state[m] = "work" => job[m] \in Worker
  <2>1. LinkView(m)
    BY <1>1, ViewsMean DEF Dispatches, InStep, HelperInStep
  <2>. QED
    BY <1>1, <2>1 DEF LinkView, Typed
<1>3. << >> \in Seq(Message) /\ ToSet(<< >>) = {}
  BY Put0
<1>4. CASE rx_init_M0(m) \/ rx_work_M0(m)
  <2>1. /\ Puts(<< >>) /\ wi' = wi /\ net' = net /\ io' = io
        /\ state' = [state EXCEPT ![m] = "idle"]
        /\ job' = job \/ job' = [job EXCEPT ![m] = NULL]
    BY <1>4 DEF rx_init_M0, rx_work_M0, worldVars
  <2>2. /\ \A w \in Worker : state'[w] = state[w]
        /\ \A p \in Tx : state'[p] = state[p]
        /\ \A p \in Helper : io'[p].fd \in {NULL, io[p].fd} /\ job'[p] \in {NULL, job[p]}
    BY <1>1, <2>1, Kinships DEF Typed
  <2>. QED
    BY <1>1, <1>3, <2>1, <2>2, HelperHandsOver
<1>5. CASE rx_idle_M0(m)
  <2>1. CASE io[m].fd = NULL
    BY <1>5, <2>1 DEF rx_idle_M0, Exit, Stops
  <2>2. CASE io[m].fd # NULL
    <3>1. /\ Puts(<< >>) /\ wi' = wi /\ net' = net /\ io' = io_enable(m, "POLLIN")
          /\ state' = [state EXCEPT ![m] = "work"] /\ job' = job
      BY <1>5, <2>2 DEF rx_idle_M0, worldVars
    <3>2. \A p \in Channel : io'[p].fd = io[p].fd
      BY <1>1, <3>1, ChannelEnabled DEF Typed
    <3>3. /\ \A w \in Worker : state'[w] = state[w]
          /\ \A p \in Tx : state'[p] = state[p]
          /\ \A p \in Helper : io'[p].fd \in {NULL, io[p].fd} /\ job'[p] \in {NULL, job[p]}
      BY <1>1, <3>1, <3>2, Kinships DEF Typed
    <3>. QED
      BY <1>1, <1>3, <3>1, <3>3, HelperHandsOver
  <2>. QED
    BY <2>1, <2>2
<1>6. CASE rx_work_T0(m) /\ timer[m] # "expired"
  BY <1>6 DEF rx_work_T0, Exit, Stops
<1>7. CASE \/ rx_work_D0_fails(m) \/ rx_work_D2(m)
           \/ rx_work_D0(m) /\ flags[m] # {}
           \/ rx_work_T0(m) /\ timer[m] = "expired"
  <2>1. /\ state[m] = "work" /\ wi' = wi /\ net' = net /\ state' = state /\ job' = job
        /\ \/ Puts(<< >>) /\ io' = io
           \/ Puts(DoneMsgs(m, "M2")) /\ io' = io_detach(m)
    BY <1>7 DEF rx_work_D0_fails, rx_work_D2, rx_work_D0, rx_work_T0, worldVars, Receive
  <2>2. CASE Puts(<< >>) /\ io' = io
    <3>1. \A p \in Helper : io'[p].fd \in {NULL, io[p].fd} /\ job'[p] \in {NULL, job[p]}
      BY <2>1, <2>2
    <3>. QED
      BY <1>1, <1>3, <2>1, <2>2, <3>1, HelperHandsOver
  <2>3. CASE Puts(DoneMsgs(m, "M2")) /\ io' = io_detach(m)
    <3>1. PICK t : t = DoneMsgs(m, "M2")
      OBVIOUS
    <3>2. t \in Seq(Message) /\ \A x \in ToSet(t) : NoData(x)
      BY <1>1, <1>2, <2>1, <3>1, DoneWithNothing
    <3>3. \A p \in Helper : io'[p].fd \in {NULL, io[p].fd} /\ job'[p] \in {NULL, job[p]}
      BY <1>1, <2>1, <2>3, ChannelDetached
    <3>4. Puts(t)
      BY <2>3, <3>1
    <3>. QED
      BY <1>1, <2>1, <3>2, <3>3, <3>4, HelperHandsOver
  <2>. QED
    BY <2>1, <2>2, <2>3
<1>. QED
  BY <1>4, <1>5, <1>6, <1>7

(* Reflexes of a tx machine that do not write. *)
LEMMA TxHandsNothing ==
  ASSUME NEW q, Dispatches(q), NEW T, NEW m \in Tx,
         tx_init_M0(m) \/ tx_work_D1_fails(m) \/ tx_work_D2(m) \/ tx_work_M0(m)
  PROVE  HandsOver(q, T)
<1>1. /\ Typed /\ m \in Helper /\ m \in Channel /\ m \notin Worker /\ m \in Machine
      /\ Helper \subseteq Channel
  BY Kinships DEF Dispatches
<1>2. HelperInStep(m, ToSet(q))
  BY <1>1, ViewsMean DEF Dispatches, InStep
<1>3. << >> \in Seq(Message) /\ ToSet(<< >>) = {}
  BY Put0
<1>4. CASE tx_init_M0(m) \/ tx_work_M0(m)
  <2>1. io[m].fd = NULL
    <3>1. PICK s : Receive(m, s, "M0") /\ s \in {"init", "work"}
      BY <1>4 DEF tx_init_M0, tx_work_M0
    <3>2. Head(q) \in ToSet(q) /\ Head(q).dst = m /\ ~ IsEvent(Head(q)) /\ state[m] = s
      BY <3>1, Received
    <3>3. ~ NoCall(m, ToSet(q))
      BY <3>2 DEF NoCall
    <3>. QED
      BY <1>2, <3>1, <3>2, <3>3 DEF HelperInStep, HelperView
  <2>2. /\ Puts(<< >>) /\ wi' = wi /\ net' = net /\ io' = io
        /\ state' = [state EXCEPT ![m] = "idle"]
        /\ job' = job \/ job' = [job EXCEPT ![m] = NULL]
    BY <1>4 DEF tx_init_M0, tx_work_M0, worldVars
  <2>3. /\ \A w \in Worker : state'[w] = state[w]
        /\ \A p \in Tx : io'[p].fd # NULL => (state'[p] = "work" <=> state[p] = "work")
        /\ \A p \in Helper : io'[p].fd \in {NULL, io[p].fd} /\ job'[p] \in {NULL, job[p]}
    BY <1>1, <2>1, <2>2, Kinships DEF Typed
  <2>. QED
    BY <1>1, <1>3, <2>2, <2>3, HelperHandsOver
<1>5. CASE tx_work_D1_fails(m) \/ tx_work_D2(m)
  <2>1. /\ state[m] = "work" /\ wi' = wi /\ net' = net /\ state' = state /\ job' = job
        /\ Puts(TxDoneMsgs(m, "M2")) /\ io' = io_detach(m)
    BY <1>5 DEF tx_work_D1_fails, tx_work_D2, worldVars, Receive
  <2>2. job[m] \in Worker
    BY <1>1, <1>2, <2>1 DEF HelperInStep, LinkView, Typed
  <2>3. PICK t : t = TxDoneMsgs(m, "M2")
    OBVIOUS
  <2>4. t \in Seq(Message) /\ \A x \in ToSet(t) : NoData(x)
    BY <1>1, <2>2, <2>3, DoneWithNothing
  <2>5. \A p \in Helper : io'[p].fd \in {NULL, io[p].fd} /\ job'[p] \in {NULL, job[p]}
    BY <1>1, <2>1, ChannelDetached
  <2>6. Puts(t)
    BY <2>1, <2>3
  <2>. QED
    BY <1>1, <2>1, <2>4, <2>5, <2>6, HelperHandsOver
<1>. QED
  BY <1>4, <1>5

(* Machines that rest, or have not started, hold nothing. *)
LEMMA RestersAreEmpty ==
  ASSUME NEW q, Dispatches(q)
  PROVE  /\ \A w \in Worker : Resting(w) \/ state[w] \in {"none", "init"} => wi[w].ci = NULL
         /\ \A n \in Helper : Resting(n) \/ state[n] \in {"none", "init"} => io[n].fd = NULL
<1>1. Views(ToSet(q))
  BY DEF Dispatches, InStep
<1>2. ASSUME NEW w \in Worker
      PROVE  Resting(w) \/ state[w] \in {"none", "init"} => wi[w].ci = NULL
  BY <1>1, ViewsMean DEF WorkerView
<1>3. ASSUME NEW n \in Helper
      PROVE  Resting(n) \/ state[n] \in {"none", "init"} => io[n].fd = NULL
  BY <1>1, ViewsMean DEF HelperInStep, HelperView
<1>. QED
  BY <1>2, <1>3

(* Machines that have nothing to do with data. *)
LEMMA SingleHandsOver ==
  ASSUME NEW q, Dispatches(q), NEW T, NEW t \in Seq(Message), Puts(t),
         Introduces(q, T, t),
         UNCHANGED <<wi, job>>, \A n \in Helper : io'[n] = io[n], EchoKept,
         \A m \in Helper \cup Worker : state'[m] = state[m] \/ Resting(m) \/ state[m] = "none"
  PROVE  HandsOver(q, T)
<1>1. ASSUME NEW U, Handing(q, T, ToSet(t), U)
      PROVE  EchoedInOrder' /\ InHands(U)'
  <2>1. /\ \A w \in Worker : Resting(w) \/ state[w] = "none" => wi[w].ci = NULL
        /\ \A n \in Helper : Resting(n) \/ state[n] = "none" => io[n].fd = NULL
    BY RestersAreEmpty
  <2>2. \A p \in Helper, w \in Worker : HelpKept(p, w)
    BY <2>1, Kinships DEF HelpKept
  <2>3. \A w \in Worker : wi'[w].ci = NULL \/ (wi'[w] = wi[w] /\ state'[w] = state[w])
    BY <2>1
  <2>. QED
    BY <1>1, <2>2, <2>3, HandsQuiet DEF Introduces
<1>. QED
  BY <1>1 DEF HandsOver, Puts

LEMMA PoolmanHandsOver ==
  ASSUME NEW q, Dispatches(q), NEW T, PoolmanExec
  PROVE  HandsOver(q, T) \/ Stops
<1>1. /\ Typed /\ PoolInv /\ PoolShape /\ poolman \in Machine /\ poolman \notin Helper \cup Worker
      /\ Helper \subseteq Machine /\ Worker \subseteq Machine
  BY Kinships DEF Dispatches
<1>2. << >> \in Seq(Message) /\ Introduces(q, T, << >>)
  BY Put0, IntroducesNobody
<1>3. CASE poolman_init_M0
  <2>1. /\ Puts(<< >>) /\ UNCHANGED <<io, job, wi, net>> /\ state' = [state EXCEPT ![poolman] = "work"]
    BY <1>3 DEF poolman_init_M0, worldVars
  <2>2. EchoKept /\ \A m \in Helper \cup Worker : state'[m] = state[m]
    BY <1>1, <2>1 DEF EchoKept, DataKept, SaidLine, Typed
  <2>. QED
    BY <1>2, <2>1, <2>2, SingleHandsOver
<1>4. CASE poolman_work_T0 /\ ~ \E k \in Kinds : RunsDry(pool[k])
  <2>1. PICK G : G = UNION {Deleted(pool[k]) : k \in Kinds}
    OBVIOUS
  <2>2. /\ Puts(<< >>) /\ pool' = [k \in Kinds |-> Shrunk(pool[k])]
        /\ state' = StateAfterDel(G) /\ UNCHANGED <<io, job, wi, net>>
    BY <1>4, <2>1 DEF poolman_work_T0, worldVars
  <2>3. \A x \in G : Resting(x)
    <3>1. \A k \in Kinds : ~ RunsDry(pool[k])
      BY <1>4
    <3>. QED
      BY <1>1, <2>1, <2>2, <3>1, PoolDelete
  <2>4. EchoKept /\ \A m \in Helper \cup Worker : state'[m] = state[m] \/ Resting(m)
    BY <1>1, <2>2, <2>3 DEF EchoKept, DataKept, SaidLine, StateAfterDel
  <2>. QED
    BY <1>2, <2>2, <2>4, SingleHandsOver
<1>5. CASE poolman_work_T0 /\ \E k \in Kinds : RunsDry(pool[k])
  BY <1>5 DEF poolman_work_T0, Exit, Stops
<1>. QED
  BY <1>3, <1>4, <1>5 DEF PoolmanExec

(* No data change. *)
LEMMA SameData ==
  ASSUME net' = net
  PROVE  EchoKept
BY DEF EchoKept, DataKept, SaidLine

(* A connection is accepted, or closed. *)
LEMMA ConnData ==
  ASSUME net \in [Client -> Connection], NEW c \in Client,
         \/ net' = [net EXCEPT ![c].conn = "open"]
         \/ net' = [net EXCEPT ![c].conn = "closed", ![c].full = FALSE]
  PROVE  EchoKept
<1>1. ASSUME NEW d \in Client, d # c
      PROVE  net'[d] = net[d]
  BY <1>1, WithConn
<1>2. net[c] \in Connection
  OBVIOUS
<1>3. /\ net'[c].sent = net[c].sent /\ net'[c].nread = net[c].nread
      /\ net'[c].echoed = net[c].echoed /\ net'[c].conn \in {"open", "closed"}
  BY <1>2 DEF Connection
<1>. QED
  BY <1>1, <1>3 DEF EchoKept, DataKept, SaidLine

(* A client that was accepted has not been read from. *)
LEMMA ListenerIntroduces ==
  ASSUME NEW q, NEW T, NEW c \in Client, net[c].conn = "backlog",
         NEW new, new = Msg(listener, manager, c, "M0"),
         NEW t, ToSet(t) = {new}
  PROVE  Introduces(q, T, t)
<1>1. new.ptr = c /\ new.src = listener /\ new.dst = manager
  BY MsgFields
<1>2. \A w \in Worker : ~ Matters(new, w)
  BY <1>1, SelfFields, Kinships DEF Matters
<1>3. ASSUME NEW U, NEW x, Handing(q, T, ToSet(t), U), x \in U \ T
      PROVE  net[x.ptr].nread = 0
  BY <1>1, <1>3 DEF Handing, After, EchoedInOrder
<1>. QED
  BY <1>2, <1>3 DEF Introduces

LEMMA ListenerHandsOver ==
  ASSUME NEW q, Dispatches(q), NEW T, ListenerExec
  PROVE  HandsOver(q, T) \/ Stops
<1>1. /\ Typed /\ listener \in Machine /\ manager \in Machine /\ listener \notin Helper \cup Worker
      /\ Helper \subseteq Machine /\ Worker \subseteq Machine /\ Helper \subseteq Channel
  BY Kinships DEF Dispatches
<1>2. << >> \in Seq(Message) /\ Introduces(q, T, << >>)
  BY Put0, IntroducesNobody
<1>3. CASE listener_init_M0
  <2>1. /\ Puts(<< >>) /\ UNCHANGED <<job, wi>> /\ net' = net
        /\ state' = [state EXCEPT ![listener] = "work"]
        /\ io' = [io EXCEPT ![listener] = [fd |-> ListenSocket, watch |-> "POLLIN"]]
    BY <1>3 DEF listener_init_M0, worldVars
  <2>2. /\ \A m \in Helper \cup Worker : state'[m] = state[m]
        /\ \A n \in Helper : io'[n] = io[n]
    BY <1>1, <2>1 DEF Typed
  <2>. QED
    BY <1>2, <2>1, <2>2, SameData, SingleHandsOver
<1>4. ASSUME NEW c \in Client, listener_work_D0(c)
      PROVE  HandsOver(q, T)
  <2>1. PICK new : new = Msg(listener, manager, c, "M0")
    OBVIOUS
  <2>2. /\ Puts(<<new>>) /\ net[c].conn = "backlog" /\ net' = [net EXCEPT ![c].conn = "open"]
        /\ UNCHANGED <<state, io, job, wi>>
    BY <1>4, <2>1 DEF listener_work_D0, machineVars
  <2>3. new \in Message
    BY <1>1, <2>1, MsgType DEF Code0
  <2>4. <<new>> \in Seq(Message) /\ ToSet(<<new>>) = {new}
    BY <2>3, Put1
  <2>5. Introduces(q, T, <<new>>)
    BY <2>1, <2>2, <2>4, ListenerIntroduces
  <2>6. EchoKept
    BY <1>1, <2>2, ConnData DEF Typed
  <2>. QED
    BY <2>2, <2>4, <2>5, <2>6, SingleHandsOver
<1>5. CASE listener_work_D0_fails
  <2>1. Puts(<< >>) /\ UNCHANGED <<state, io, job, wi>> /\ net' = net
    BY <1>5 DEF listener_work_D0_fails, machineVars, worldVars
  <2>. QED
    BY <1>2, <2>1, SameData, SingleHandsOver
<1>6. CASE listener_work_M0
  <2>1. Receive(listener, "work", "M0")
    BY <1>6 DEF listener_work_M0
  <2>2. PICK h, S : h = Head(q) /\ S = ToSet(q)
    OBVIOUS
  <2>3. Views(S) /\ h \in S /\ h.dst = listener /\ ~ IsEvent(h) /\ h = Head(queue) /\ Started
    BY <2>1, <2>2, Received DEF Started
  <2>4. h.ptr \in Client /\ net[h.ptr].conn = "open"
    BY <2>3, ListenerTold
  <2>5. /\ Puts(<< >>) /\ net' = [net EXCEPT ![h.ptr].conn = "closed", ![h.ptr].full = FALSE]
        /\ UNCHANGED <<state, io, job, wi>>
    BY <1>6, <2>3, <2>4 DEF listener_work_M0, machineVars
  <2>6. EchoKept
    BY <1>1, <2>4, <2>5, ConnData DEF Typed
  <2>. QED
    BY <1>2, <2>5, <2>6, SingleHandsOver
<1>. QED
  BY <1>3, <1>4, <1>5, <1>6 DEF ListenerExec

(* A client goes from the listener to a worker. *)
LEMMA ManagerIntroduces ==
  ASSUME NEW q, Dispatches(q), NEW T, wi' = wi,
         NEW c \in Client, Head(q) = Msg(listener, manager, c, "M0"),
         NEW w \in Worker, NEW Z, Z \subseteq Worker, \A z \in Z : state[z] = "none",
         NEW give, give = Msg(manager, w, c, "M1"),
         NEW t, ToSet(t) = Adding(give, Z)
  PROVE  Introduces(q, T, t)
<1>1. Head(q) \in ToSet(q) /\ Head(q).ptr = c /\ Head(q).src = listener /\ give.ptr = c
  BY Basics, MsgFields DEF Dispatches
<1>2. Unheard(Head(q))
  BY <1>1 DEF Unheard
<1>3. ASSUME NEW U, NEW x, Handing(q, T, ToSet(t), U), x \in U \ T, Unheard(x)
      PROVE  net[x.ptr].nread = 0
  <2>1. T = ToSet(q)
    BY <1>3 DEF Handing
  <2>2. net[c].nread = 0
    BY <1>1, <1>2, <1>3, <2>1 DEF Handing, InHands, NothingRead
  <2>3. x \in Adding(give, Z)
    BY <1>3 DEF Handing, After
  <2>4. \A z \in Z : Self(z, "M0").ptr = NULL
    BY SelfFields
  <2>5. x = give
    BY <1>3, <2>3, <2>4, Kinships DEF Adding, Unheard
  <2>. QED
    BY <1>1, <2>2, <2>5
<1>4. \A z \in Z : wi'[z].ci = NULL
  BY RestersAreEmpty
<1>5. ASSUME NEW x \in ToSet(t), NEW v \in Worker, Matters(x, v)
      PROVE  wi'[v].ci = NULL
  <2>1. /\ give.src = manager /\ give.dst = w /\ manager \notin Worker /\ manager \notin Helper
        /\ w \notin Helper
    BY MsgFields, Kinships
  <2>2. \A z : Self(z, "M0").src = z /\ Self(z, "M0").dst = z
    BY SelfFields
  <2>3. Helper \cap Worker = {}
    BY Kinships
  <2>4. CASE x = give
    BY <1>5, <2>1, <2>2, <2>4 DEF Matters
  <2>5. CASE x # give
    <3>1. PICK z \in Z : x = Self(z, "M0")
      BY <2>5 DEF Adding
    <3>2. z = v
      BY <1>5, <2>2, <2>3, <3>1 DEF Matters
    <3>. QED
      BY <1>4, <3>1, <3>2
  <2>. QED
    BY <2>4, <2>5
<1>. QED
  BY <1>3, <1>5 DEF Introduces

LEMMA ManagerGivesOver ==
  ASSUME NEW q, Dispatches(q), NEW T, NEW h, h = Head(q), NEW S, S = ToSet(q),
         h \in S, h.dst = manager, h.code = "M0", ~ IsEvent(h), state[manager] = "work",
         NEW c, c = h.ptr, NEW w, Takes("worker", w), NEW give, give = Msg(manager, w, c, "M1"),
         Puts(AddSmMsgs("worker") \o <<give>>), state' = StateAfterAddSm("worker"),
         UNCHANGED <<io, job, wi>>, net' = net
  PROVE  HandsOver(q, T)
<1>1. PICK t : t = AddSmMsgs("worker") \o <<give>>
  OBVIOUS
<1>2. Members["worker"] = Worker /\ Worker \subseteq Machine /\ Helper \subseteq Machine
      /\ manager \in Machine
  BY Kinships DEF Members
<1>3. h.ptr \in Client /\ h.src = listener /\ h \in Message
  <2>1. Views(S) /\ S \subseteq Message
    BY Basics DEF Dispatches, InStep
  <2>. QED
    BY <2>1, ManagerTold
<1>4. w \in Worker
  BY <1>2, PoolGet DEF Takes, Dispatches
<1>5. give \in Message /\ give.code # "M0"
  BY <1>2, <1>3, <1>4, MsgType, MsgFields DEF Code0
<1>6. t \in Seq(Message)
  BY <1>1, <1>5, Taking
<1>7. /\ Created("worker") \subseteq Worker /\ \A z \in Created("worker") : state[z] = "none"
      /\ ToSet(t) = Adding(give, Created("worker"))
  <2>1. /\ Created("worker") \subseteq Members["worker"]
        /\ \A z \in Created("worker") : state[z] = "none"
        /\ ToSet(t) = Adding(give, Created("worker"))
    BY <1>1, <1>5, Taking, ZenonT(40)
  <2>. QED
    BY <1>2, <2>1
<1>8. \A m \in Machine : state'[m] = IF m \in Created("worker") THEN "init" ELSE state[m]
  BY <1>1, <1>5, Taking
<1>9. h = Msg(listener, manager, c, "M0")
  BY <1>3, MsgEq
<1>10. Introduces(q, T, t)
  BY <1>3, <1>4, <1>7, <1>9, ManagerIntroduces
<1>11. \A m \in Helper \cup Worker : state'[m] = state[m] \/ state[m] = "none"
  BY <1>2, <1>7, <1>8
<1>12. EchoKept
  BY SameData
<1>. QED
  BY <1>1, <1>6, <1>10, <1>11, <1>12, SingleHandsOver

LEMMA ManagerHandsOver ==
  ASSUME NEW q, Dispatches(q), NEW T, ManagerExec
  PROVE  HandsOver(q, T)
<1>1. /\ Typed /\ listener \in Machine /\ manager \in Machine /\ manager \notin Helper \cup Worker
      /\ Helper \subseteq Machine /\ Worker \subseteq Machine
  BY Kinships DEF Dispatches
<1>2. << >> \in Seq(Message) /\ Introduces(q, T, << >>)
  BY Put0, IntroducesNobody
<1>3. ASSUME NEW c \in Client, Puts(<<SeeOff(c)>>), UNCHANGED <<state, io, job, wi>>, net' = net
      PROVE  HandsOver(q, T)
  <2>1. PICK off : off = SeeOff(c)
    OBVIOUS
  <2>2. off \in Message
    BY <1>1, <2>1, MsgType DEF Code0, SeeOff
  <2>3. <<off>> \in Seq(Message) /\ ToSet(<<off>>) = {off}
    BY <2>2, Put1
  <2>4. Introduces(q, T, <<off>>)
    BY <2>1, <2>3, MeansNoData, IntroducesNobody DEF SeeOff
  <2>. QED
    BY <1>3, <2>1, <2>3, <2>4, SameData, SingleHandsOver
<1>4. CASE manager_init_M0
  <2>1. /\ Puts(<< >>) /\ UNCHANGED <<io, job, wi>> /\ net' = net
        /\ state' = [state EXCEPT ![manager] = "work"]
    BY <1>4 DEF manager_init_M0, worldVars
  <2>2. \A m \in Helper \cup Worker : state'[m] = state[m]
    BY <1>1, <2>1 DEF Typed
  <2>. QED
    BY <1>2, <2>1, <2>2, SameData, SingleHandsOver
<1>5. ASSUME NEW a \in {"M0", "M1"}, Receive(manager, "work", a), NEW h, h = Head(q)
      PROVE  /\ h \in ToSet(q) /\ h.dst = manager /\ ~ IsEvent(h) /\ h.code = a
             /\ state[manager] = "work" /\ h = Head(queue) /\ h.ptr \in Client
  <2>1. PICK S : S = ToSet(q)
    OBVIOUS
  <2>2. /\ h \in S /\ h.dst = manager /\ ~ IsEvent(h) /\ h.code = a /\ Views(S)
        /\ state[manager] = "work" /\ h = Head(queue)
    BY <1>5, <2>1, Received
  <2>. QED
    BY <2>1, <2>2, ManagerTold
<1>6. PICK h : h = Head(q)
  OBVIOUS
<1>7. CASE manager_work_M0
  <2>1. Receive(manager, "work", "M0")
    BY <1>7 DEF manager_work_M0
  <2>2. /\ h \in ToSet(q) /\ h.dst = manager /\ ~ IsEvent(h) /\ h.code = "M0"
        /\ state[manager] = "work" /\ h = Head(queue) /\ h.ptr \in Client
    BY <1>5, <1>6, <2>1
  <2>3. PICK c, w, give : c = h.ptr /\ w = Taken(pool["worker"]) /\ give = Msg(manager, w, c, "M1")
    OBVIOUS
  <2>4. UNCHANGED <<io, job, wi>> /\ net' = net
    BY <1>7 DEF manager_work_M0, worldVars
  <2>5. CASE pool_is_empty(pool["worker"])
    <3>1. Puts(<<SeeOff(c)>>) /\ state' = state
      BY <1>7, <2>2, <2>3, <2>5 DEF manager_work_M0
    <3>. QED
      BY <1>3, <2>2, <2>3, <2>4, <3>1
  <2>6. CASE ~ pool_is_empty(pool["worker"])
    <3>1. /\ AnyFresh("worker") /\ Puts(AddSmMsgs("worker") \o <<give>>)
          /\ state' = StateAfterAddSm("worker") /\ pool' = PoolAfterGet("worker")
      BY <1>7, <2>2, <2>3, <2>6 DEF manager_work_M0
    <3>2. Takes("worker", w)
      BY <2>3, <2>6, <3>1 DEF Takes, Kinds
    <3>. QED
      BY <1>6, <2>2, <2>3, <2>4, <3>1, <3>2, ManagerGivesOver
  <2>. QED
    BY <2>5, <2>6
<1>8. CASE manager_work_M1
  <2>1. Receive(manager, "work", "M1")
    BY <1>8 DEF manager_work_M1
  <2>2. h = Head(queue) /\ h.ptr \in Client
    BY <1>5, <1>6, <2>1
  <2>3. /\ Puts(<<SeeOff(h.ptr)>>) /\ UNCHANGED <<state, io, job, wi>> /\ net' = net
    BY <1>8, <2>2 DEF manager_work_M1, machineVars, worldVars
  <2>. QED
    BY <1>3, <2>2, <2>3
<1>9. ASSUME NEW s \in Signals, manager_work_S(s)
      PROVE  HandsOver(q, T)
  <2>1. /\ Puts(<< >>) /\ UNCHANGED <<state, io, job, wi>> /\ net' = net
    BY <1>9 DEF manager_work_S, machineVars
  <2>. QED
    BY <1>2, <2>1, SameData, SingleHandsOver
<1>. QED
  BY <1>4, <1>7, <1>8, <1>9 DEF ManagerExec

(* What a message means to worker d, when no helper has its socket. *)
Means(x, d) ==
  LET c == wi[d].ci IN
  \/ x = Self(d, "M0") /\ IF state[d] = "getp" THEN Line(c, wi[d].ibuf) ELSE Settled(c)
  \/ \E n \in Rx : x = Msg(d, n, d, "M1") /\ wi[d].buf = "ibuf" /\ Settled(c)
  \/ \E n \in Tx : x = Msg(d, n, d, "M1") /\ wi[d].buf = "obuf" /\ Line(c, wi[d].obuf)

LEMMA CarriesAnew ==
  ASSUME NEW d \in Worker, NEW U, NoHelp(d)', \A x \in U : Matters(x, d) => Means(x, d)'
  PROVE  Carries(d, U)'
<1>1. /\ Rx \subseteq Helper /\ Tx \subseteq Helper /\ Rx \cap Tx = {} /\ d \notin Helper
  BY Kinships
<1>2. PICK c : c = wi'[d].ci
  OBVIOUS
<1>3. \A n, a : Self(d, a) # Msg(d, n, d, "M1")
  <2>1. d # NULL
    BY Kinships
  <2>. QED
    BY <2>1, SelfFields, MsgFields
<1>4. ASSUME NEW n \in Helper, Msg(n, d, NULL, "M1") \in U
      PROVE  FALSE
  <2>1. Means(Msg(n, d, NULL, "M1"), d)'
    BY <1>4, MatterMost
  <2>2. Msg(n, d, NULL, "M1").src # d
    BY <1>1, MsgFields
  <2>. QED
    BY <2>1, <2>2, MsgFields, SelfFields DEF Means
<1>5. ASSUME Self(d, "M0") \in U
      PROVE  IF state'[d] = "getp" THEN Line(c, wi[d].ibuf)' ELSE Settled(c)'
  <2>1. Means(Self(d, "M0"), d)'
    BY <1>5, MatterMost
  <2>. QED
    BY <1>2, <1>3, <2>1 DEF Means
<1>6. ASSUME NEW n \in Helper, Msg(d, n, d, "M1") \in U
      PROVE  /\ n \in Rx => wi'[d].buf = "ibuf" /\ Settled(c)'
             /\ n \in Tx => wi'[d].buf = "obuf" /\ Line(c, wi[d].obuf)'
  <2>1. Means(Msg(d, n, d, "M1"), d)'
    BY <1>6, MatterMost
  <2>2. \A p : Msg(d, p, d, "M1") = Msg(d, n, d, "M1") => p = n
    BY MsgFields
  <2>. QED
    BY <1>1, <1>2, <1>3, <2>1, <2>2 DEF Means
<1>7. \A n \in Helper : ~ (job'[n] = d /\ io'[n].fd # NULL)
  BY DEF NoHelp
<1>8. \A n \in Rx : ~ (job'[n] = d /\ io'[n].fd # NULL)
  BY <1>1, <1>7
<1>9. \A n \in Tx : ~ (job'[n] = d /\ io'[n].fd # NULL)
  BY <1>1, <1>7
<1>10. /\ \A n \in Rx : Msg(d, n, d, "M1") \in U => wi'[d].buf = "ibuf" /\ Settled(c)'
       /\ \A n \in Tx : Msg(d, n, d, "M1") \in U => wi'[d].buf = "obuf" /\ Line(c, wi[d].obuf)'
  BY <1>1, <1>6
<1>11. /\ \A n \in Rx : Msg(n, d, NULL, "M1") \notin U
       /\ \A n \in Tx : Msg(n, d, NULL, "M1") \notin U
  BY <1>1, <1>4
<1>. QED
  BY <1>2, <1>5, <1>8, <1>9, <1>10, <1>11 DEF Carries

(* A worker that is called by h alone, and asks nobody. *)
LEMMA OnlyMatter ==
  ASSUME NEW S, NEW h, NEW d \in Worker, OnlyCall(d, h, S), NoAsk(d, S),
         NEW N, NEW x \in After(S, h, N), Matters(x, d)
  PROVE  x \in N
<1>1. d # NULL /\ d \notin Helper /\ NULL \notin Helper
  BY Kinships
<1>2. Self(d, "M0").dst = d /\ Self(d, "M0").src = d
  BY SelfFields
<1>. QED
  BY <1>1, <1>2 DEF After, Matters, OnlyCall, NoAsk, IsEvent

(* A worker handles a message. *)
LEMMA WorkerPasses ==
  ASSUME NEW q, Dispatches(q), NEW T, NEW d \in Worker, NEW t \in Seq(Message), Puts(t),
         net' = net, job' = job, io' = io,
         \A p \in Tx : state'[p] = "work" <=> state[p] = "work",
         \A v \in Worker \ {d} : wi'[v] = wi[v] /\ state'[v] = state[v],
         \A x \in ToSet(t) : ~ Unheard(x) /\ \A v \in Worker \ {d} : ~ Matters(x, v),
         Early(Head(q)) => wi' = wi /\ state' = state,
         wi'[d].ci # NULL => wi[d].ci # NULL \/ ~ Early(Head(q)),
         \A U : /\ U \subseteq After(ToSet(q), Head(q), ToSet(t))
                /\ EchoedInOrder /\ InHands(ToSet(q)) /\ wi'[d].ci # NULL
                => Carries(d, U)'
  PROVE  HandsOver(q, T)
<1>1. ASSUME NEW U, Handing(q, T, ToSet(t), U)
      PROVE  EchoedInOrder' /\ InHands(U)'
  <2>1. EchoKept /\ wi \in [Worker -> Info] /\ Helper \cap Worker = {} /\ Tx \subseteq Helper
    BY SameData, Kinships DEF Dispatches, Typed
  <2>2. \A p \in Helper, w \in Worker : HelpKept(p, w)
    BY DEF HelpKept
  <2>3. /\ U \subseteq After(T, Head(q), ToSet(t)) /\ InHands(T) /\ EchoedInOrder
        /\ T = ToSet(q) \/ (T = {} /\ U = {} /\ Early(Head(q)))
        /\ U \subseteq T \cup ToSet(t)
    BY <1>1 DEF Handing, After
  <2>4. ASSUME NEW w \in Worker, wi'[w] = wi[w], state'[w] = state[w],
               \A x \in U : Matters(x, w) => x \in T
        PROVE  HandsKept(w, T, U)
    <3>1. wi[w].ci \in Client \cup {NULL}
      BY <2>1 DEF Info
    <3>2. wi[w].ci \in Client => DataKept(wi[w].ci)
      BY <2>1 DEF EchoKept
    <3>. QED
      BY <2>2, <2>4, <3>1, <3>2 DEF HandsKept
  <2>5. ASSUME NEW w \in Worker \ {d}
        PROVE  HandsKept(w, T, U)
    BY <2>3, <2>4, <2>5
  <2>6. ASSUME NEW x \in U, Unheard(x)
        PROVE  x \in T /\ net'[x.ptr].nread = net[x.ptr].nread
    BY <2>3, <2>6
  <2>7. wi'[d].ci # NULL => Carries(d, U)'
    <3>1. CASE T = ToSet(q)
      BY <2>3, <3>1
    <3>2. CASE T = {} /\ U = {} /\ Early(Head(q))
      <4>1. HandsKept(d, T, U)
        BY <2>4, <3>2
      <4>2. wi[d].ci # NULL => Carries(d, T)
        BY <2>3 DEF InHands
      <4>. QED
        BY <4>1, <4>2, CarriesOn
    <3>. QED
      BY <2>3, <3>1, <3>2
  <2>. QED
    BY <2>1, <2>3, <2>5, <2>6, <2>7, HandsAside, EchoStays
<1>. QED
  BY <1>1 DEF HandsOver, Puts

(* Of what a worker hears only what it or the manager says waits for it     *)
(* where a second answer is.                                                *)
LEMMA NotEarly ==
  ASSUME NEW h, h.src \in Worker \cup {manager}
  PROVE  ~ Early(h)
BY Kinships DEF Early

LEMMA WorkerEnds ==
  ASSUME NEW q, Dispatches(q), NEW T, NEW w \in Worker, worker_init_M0(w) \/ worker_M3(w)
  PROVE  HandsOver(q, T)
<1>1. PICK h, S : h = Head(q) /\ S = ToSet(q)
  OBVIOUS
<1>2. /\ Typed /\ w \in Machine /\ w \notin Helper /\ Tx \subseteq Helper /\ Tx \subseteq Machine
      /\ Worker \subseteq Machine
  BY Kinships DEF Dispatches
<1>3. /\ Puts(<< >>) /\ net' = net /\ job' = job /\ io' = io
      /\ state' = [state EXCEPT ![w] = "idle"] /\ wi' = [wi EXCEPT ![w] = IdleInfo]
  BY DEF worker_init_M0, worker_M3, worker_idle_enter, worldVars
<1>4. h.src = w
  <2>1. CASE worker_init_M0(w)
    <3>1. Receive(w, "init", "M0")
      BY <2>1 DEF worker_init_M0
    <3>2. Views(S) /\ h \in S /\ h.dst = w /\ ~ IsEvent(h) /\ state[w] = "init"
      BY <1>1, <3>1, Received
    <3>3. h = Self(w, "M0")
      BY <3>2, ViewsMean DEF WorkerView, OnlyCall
    <3>. QED
      BY <3>3, SelfFields
  <2>2. CASE worker_M3(w)
    <3>1. Receive(w, "getp", "M3") \/ Receive(w, "ackp", "M3")
      BY <2>2 DEF worker_M3
    <3>2. /\ Views(S) /\ h.dst = w /\ ~ IsEvent(h) /\ state[w] \in {"getp", "ackp"} /\ h.code = "M3"
      BY <1>1, <3>1, Received
    <3>3. h = Self(w, "M3")
      BY <1>1, <3>2, GoesOn DEF Dispatches, InStep
    <3>. QED
      BY <3>3, SelfFields
  <2>. QED
    BY <2>1, <2>2
<1>5. ~ Early(Head(q))
  BY <1>1, <1>4, NotEarly
<1>6. wi'[w].ci = NULL /\ \A v \in Worker \ {w} : wi'[v] = wi[v]
  BY <1>2, <1>3 DEF IdleInfo, Typed
<1>7. /\ \A v \in Worker \ {w} : state'[v] = state[v]
      /\ \A p \in Tx : state'[p] = "work" <=> state[p] = "work"
  BY <1>2, <1>3 DEF Typed
<1>. QED
  BY <1>3, <1>5, <1>6, <1>7, Put0, WorkerPasses

(* A worker says something to itself. *)
LEMMA SaysToItself ==
  ASSUME NEW w \in Worker
  PROVE  /\ <<Self(w, "M0")>> \in Seq(Message)
         /\ ToSet(<<Self(w, "M0")>>) = {Self(w, "M0")}
         /\ ~ Unheard(Self(w, "M0"))
         /\ \A v \in Worker \ {w} : ~ Matters(Self(w, "M0"), v)
<1>1. w \in Machine /\ w \notin Helper /\ NULL \notin Client
  BY Kinships
<1>2. Self(w, "M0") \in Message
  BY <1>1, MsgType DEF Self, Code0
<1>3. \A v : Self(v, "M0").src = v /\ Self(v, "M0").dst = v /\ Self(v, "M0").ptr = NULL
  BY SelfFields
<1>. QED
  BY <1>1, <1>2, <1>3, Put1 DEF Unheard, Matters

LEMMA WorkerGoesOnWith ==
  ASSUME NEW q, Dispatches(q), NEW T, NEW w \in Worker, Puts(<<Self(w, "M0")>>),
         net' = net, job' = job, io' = io, state' = state,
         \A v \in Worker \ {w} : wi'[v] = wi[v],
         wi' = wi \/ ~ Early(Head(q)),
         \A U : /\ U \subseteq After(ToSet(q), Head(q), {Self(w, "M0")})
                /\ EchoedInOrder /\ InHands(ToSet(q)) /\ wi'[w].ci # NULL
                => Carries(w, U)'
  PROVE  HandsOver(q, T)
<1>1. PICK t, N : t = <<Self(w, "M0")>> /\ N = {Self(w, "M0")}
  OBVIOUS
<1>2. t \in Seq(Message) /\ Puts(t) /\ ToSet(t) = N
  BY <1>1, SaysToItself
<1>3. \A x \in ToSet(t) : ~ Unheard(x) /\ \A v \in Worker \ {w} : ~ Matters(x, v)
  BY <1>1, <1>2, SaysToItself
<1>4. \A U : /\ U \subseteq After(ToSet(q), Head(q), ToSet(t))
             /\ EchoedInOrder /\ InHands(ToSet(q)) /\ wi'[w].ci # NULL
             => Carries(w, U)'
  BY <1>1, <1>2
<1>5. /\ \A p \in Tx : state'[p] = "work" <=> state[p] = "work"
      /\ \A v \in Worker \ {w} : wi'[v] = wi[v] /\ state'[v] = state[v]
  OBVIOUS
<1>6. /\ Early(Head(q)) => wi' = wi /\ state' = state
      /\ wi'[w].ci # NULL => wi[w].ci # NULL \/ ~ Early(Head(q))
  OBVIOUS
<1>. QED
  BY <1>2, <1>3, <1>4, <1>5, <1>6, WorkerPasses

LEMMA WorkerIsGiven ==
  ASSUME NEW q, Dispatches(q), NEW T, NEW w \in Worker, worker_idle_M1(w)
  PROVE  HandsOver(q, T) \/ Stops
<1>1. PICK h, S : h = Head(q) /\ S = ToSet(q)
  OBVIOUS
<1>2. /\ Typed /\ w \in Machine /\ w \notin Helper /\ manager \notin Worker /\ listener # manager
  BY Kinships DEF Dispatches
<1>3. /\ Receive(w, "idle", "M1")
  BY DEF worker_idle_M1
<1>4. /\ Views(S) /\ h \in S /\ h.dst = w /\ ~ IsEvent(h) /\ state[w] = "idle" /\ h.code = "M1"
      /\ h = Head(queue)
  BY <1>1, <1>3, Received
<1>5. PICK c : c = h.ptr
  OBVIOUS
<1>6. /\ c \in Client /\ h = Msg(manager, w, c, "M1")
      /\ OnlyCall(w, h, S) /\ NoAsk(w, S) /\ \A p \in Helper : job[p] # w
  BY <1>4, <1>5, IdleTold
<1>7. h.src = manager /\ h.ptr # NULL /\ Unheard(h)
  BY <1>4, <1>5, <1>6, MsgFields, Kinships DEF Unheard
<1>8. /\ Puts(<<Self(w, "M0")>>) /\ wi' = [wi EXCEPT ![w].ci = c]
      /\ net' = net /\ job' = job /\ io' = io /\ state' = state
  BY <1>4, <1>5, <1>7 DEF worker_idle_M1, worldVars
<1>9. /\ wi'[w].ci = c /\ \A v \in Worker \ {w} : wi'[v] = wi[v]
  BY <1>2, <1>6, <1>8, WithClient DEF Typed
<1>10. ~ Early(Head(q))
  BY <1>1, <1>7, NotEarly
<1>11. ASSUME NEW U, U \subseteq After(S, h, {Self(w, "M0")}), EchoedInOrder, InHands(S)
       PROVE  Carries(w, U)'
  <2>1. net[c].nread = 0
    BY <1>4, <1>5, <1>7, <1>11 DEF InHands, NothingRead
  <2>2. Len(net[c].echoed) = 0
    <3>1. Len(net[c].echoed) \in Nat
      <4>1. net[c].echoed \in Seq(Chunk)
        BY <1>2, <1>6 DEF Typed, Connection
      <4>. QED
        BY <4>1, LenProperties
    <3>. QED
      BY <1>6, <1>11, <2>1, <3>1 DEF EchoedInOrder
  <2>3. Settled(c)'
    BY <1>8, <2>1, <2>2 DEF Settled
  <2>4. \A x \in U : Matters(x, w) => x = Self(w, "M0")
    BY <1>6, <1>11, OnlyMatter
  <2>5. Means(Self(w, "M0"), w)'
    BY <1>4, <1>8, <1>9, <2>3 DEF Means
  <2>6. NoHelp(w)'
    BY <1>6, <1>8 DEF NoHelp
  <2>. QED
    BY <2>4, <2>5, <2>6, CarriesAnew
<1>. QED
  BY <1>1, <1>8, <1>9, <1>10, <1>11, WorkerGoesOnWith

(* The helper is done: what it has read, or written, is taken over.         *)
LEMMA WorkerIsTold ==
  ASSUME NEW q, Dispatches(q), NEW T, NEW w \in Worker, worker_M1(w)
  PROVE  HandsOver(q, T)
<1>1. PICK h, S : h = Head(q) /\ S = ToSet(q)
  OBVIOUS
<1>2. Receive(w, "getp", "M1") \/ Receive(w, "ackp", "M1")
  BY DEF worker_M1
<1>3. /\ Views(S) /\ h \in S /\ h.dst = w /\ ~ IsEvent(h) /\ state[w] \in {"getp", "ackp"}
      /\ h.code = "M1"
  BY <1>1, <1>2, Received
<1>4. /\ Answered(w, S) /\ NoAsk(w, S) /\ NoHelp(w) /\ OnlyCall(w, h, S) /\ wi[w].ci \in Client
  BY <1>3, ToldBy
<1>5. PICK n \in Helper : h = Msg(n, w, NULL, "M1") /\ Task(n) = state[w]
  <2>1. PICK n \in Helper, a \in {"M1", "M2"} :
          Task(n) = state[w] /\ OnlyCall(w, Msg(n, w, NULL, a), S)
    BY <1>4 DEF Answered
  <2>2. h = Msg(n, w, NULL, a)
    BY <1>3, <2>1 DEF OnlyCall
  <2>. QED
    BY <1>3, <2>1, <2>2, MsgFields
<1>6. \/ n \in Rx /\ state[w] = "getp"
      \/ n \in Tx /\ state[w] = "ackp"
  BY <1>5, Kinships DEF Task, Helper
<1>7. /\ Puts(<<Self(w, "M0")>>) /\ wi' = wi /\ net' = net /\ job' = job /\ io' = io /\ state' = state
  BY DEF worker_M1, machineVars, worldVars
<1>8. ASSUME NEW U, U \subseteq After(S, h, {Self(w, "M0")}), InHands(S)
      PROVE  Carries(w, U)'
  <2>1. Carries(w, S)
    BY <1>4, <1>8, Kinships DEF InHands
  <2>2. PICK c : c = wi[w].ci
    OBVIOUS
  <2>3. /\ state[w] = "getp" => Line(c, wi[w].ibuf)
        /\ state[w] # "getp" => Settled(c)
    BY <1>3, <1>5, <1>6, <2>1, <2>2 DEF Carries
  <2>4. Settled(c)' = Settled(c) /\ \A b : Line(c, b) => Line(c, b)'
    BY <1>7 DEF Settled, Line, SaidLine, Owed
  <2>5. Means(Self(w, "M0"), w)'
    BY <1>7, <2>2, <2>3, <2>4 DEF Means
  <2>6. \A x \in U : Matters(x, w) => x = Self(w, "M0")
    BY <1>4, <1>8, OnlyMatter
  <2>7. NoHelp(w)'
    BY <1>4, <1>7 DEF NoHelp
  <2>. QED
    BY <2>5, <2>6, <2>7, CarriesAnew
<1>. QED
  BY <1>1, <1>7, <1>8, WorkerGoesOnWith

(* What a worker says when it gives its client up. *)
LEMMA GiveUpIsQuiet ==
  ASSUME NEW w \in Worker, wi[w].ci \in Client, NEW t, t = GiveUpMsgs(w)
  PROVE  t \in Seq(Message) /\ \A x \in ToSet(t) : NoData(x)
<1>1. PICK a, b : a = Msg(w, manager, wi[w].ci, "M1") /\ b = Self(w, "M3")
  OBVIOUS
<1>2. w \in Machine /\ manager \in Machine
  BY Kinships
<1>3. a \in Message /\ b \in Message /\ a.code # b.code
  BY <1>1, <1>2, MsgType, MsgFields, SelfFields DEF Self, Code0
<1>4. t = <<a, b>> /\ NoData(a) /\ NoData(b)
  BY <1>1, MeansNoData DEF GiveUpMsgs
<1>5. t \in Seq(Message) /\ ToSet(t) = {a, b}
  BY <1>3, <1>4, Put2
<1>. QED
  BY <1>4, <1>5

(* The helper failed. *)
LEMMA WorkerIsLetDown ==
  ASSUME NEW q, Dispatches(q), NEW T, NEW w \in Worker, worker_M2(w)
  PROVE  HandsOver(q, T)
<1>1. PICK h, S : h = Head(q) /\ S = ToSet(q)
  OBVIOUS
<1>2. Receive(w, "getp", "M2") \/ Receive(w, "ackp", "M2")
  BY DEF worker_M2
<1>3. /\ Views(S) /\ h \in S /\ h.dst = w /\ ~ IsEvent(h) /\ state[w] \in {"getp", "ackp"}
      /\ h.code = "M2"
  BY <1>1, <1>2, Received
<1>4. wi[w].ci \in Client
  BY <1>3, ToldBy
<1>5. PICK t : t = GiveUpMsgs(w)
  OBVIOUS
<1>6. t \in Seq(Message) /\ \A x \in ToSet(t) : NoData(x)
  BY <1>4, <1>5, GiveUpIsQuiet
<1>7. /\ Puts(t) /\ UNCHANGED <<wi, job>> /\ io' = io /\ net' = net /\ state' = state
  BY <1>5 DEF worker_M2, machineVars, worldVars
<1>8. Introduces(q, T, t)
  BY <1>6, IntroducesNobody
<1>. QED
  BY <1>6, <1>7, <1>8, SameData, SingleHandsOver

(* What worker w, called to go on by h alone, has in its hands. *)
Free(w, h, S) ==
  /\ h = Self(w, "M0") /\ OnlyCall(w, h, S) /\ NoAsk(w, S) /\ NoHelp(w)
  /\ wi[w].ci \in Client /\ state[w] \in {"idle", "getp", "ackp"}

LEMMA FreeHands ==
  ASSUME NEW w \in Worker, NEW h, NEW S, Free(w, h, S), InHands(S)
  PROVE  IF state[w] = "getp" THEN Line(wi[w].ci, wi[w].ibuf) ELSE Settled(wi[w].ci)
<1>1. Carries(w, S) /\ Self(w, "M0") \in S
  BY Kinships DEF Free, InHands, OnlyCall
<1>. QED
  BY <1>1 DEF Carries, Free

LEMMA WorkerLeavesQuietly ==
  ASSUME NEW q, Dispatches(q), NEW T, NEW w \in Worker, Free(w, Head(q), ToSet(q)),
         Puts(GiveUpMsgs(w)), NEW b, state' = [state EXCEPT ![w] = b],
         wi' = wi, net' = net, job' = job, io' = io
  PROVE  HandsOver(q, T)
<1>1. PICK t, h, S : t = GiveUpMsgs(w) /\ h = Head(q) /\ S = ToSet(q)
  OBVIOUS
<1>2. /\ h = Self(w, "M0") /\ OnlyCall(w, h, S) /\ NoAsk(w, S) /\ NoHelp(w) /\ wi[w].ci \in Client
  BY <1>1 DEF Free
<1>3. t \in Seq(Message) /\ (\A x \in ToSet(t) : NoData(x)) /\ Puts(t)
  BY <1>1, <1>2, GiveUpIsQuiet
<1>4. ~ Early(Head(q))
  BY <1>1, <1>2, SelfFields, NotEarly
<1>5. \A x \in ToSet(t) : ~ Unheard(x) /\ \A v \in Worker \ {w} : ~ Matters(x, v)
  BY <1>3 DEF NoData
<1>6. ASSUME NEW U, U \subseteq After(ToSet(q), Head(q), ToSet(t))
      PROVE  Carries(w, U)'
  <2>1. NoHelp(w)'
    BY <1>2 DEF NoHelp
  <2>2. \A x \in U : ~ Matters(x, w)
    BY <1>1, <1>2, <1>3, <1>6, OnlyMatter DEF NoData
  <2>. QED
    BY <2>1, <2>2, CarriesAnew
<1>7. /\ \A p \in Tx : state'[p] = "work" <=> state[p] = "work"
      /\ \A v \in Worker \ {w} : wi'[v] = wi[v] /\ state'[v] = state[v]
  BY Kinships DEF Dispatches, Typed
<1>8. /\ Early(Head(q)) => wi' = wi /\ state' = state
      /\ wi'[w].ci # NULL => wi[w].ci # NULL \/ ~ Early(Head(q))
  BY <1>4
<1>9. \A U : /\ U \subseteq After(ToSet(q), Head(q), ToSet(t))
             /\ EchoedInOrder /\ InHands(ToSet(q)) /\ wi'[w].ci # NULL
             => Carries(w, U)'
  BY <1>6
<1>. QED
  BY <1>3, <1>5, <1>7, <1>8, <1>9, WorkerPasses

(* A helper is asked to read, or to write. *)
LEMMA WorkerAsksFor ==
  ASSUME NEW q, Dispatches(q), NEW T, NEW w \in Worker, Free(w, Head(q), ToSet(q)),
         NEW k, NEW n, Asks(w, k, n),
         \/ /\ n \in Rx /\ state[w] # "getp" /\ wi'[w].buf = "ibuf"
         \/ /\ n \in Tx /\ state[w] = "getp" /\ wi'[w].buf = "obuf" /\ wi'[w].obuf = wi[w].ibuf
  PROVE  HandsOver(q, T)
<1>1. PICK Z, t, ask :
           /\ n \in Helper /\ ask = Msg(w, n, w, "M1")
           /\ t \in Seq(Message) /\ Puts(t)
           /\ Z \subseteq Helper /\ \A z \in Z : state[z] = "none"
           /\ ToSet(t) = Adding(ask, Z)
           /\ \A m \in Machine : state'[m] = IF m = w THEN Task(n)
                                             ELSE IF m \in Z THEN "init" ELSE state[m]
  BY Asked
<1>2. PICK h, S : h = Head(q) /\ S = ToSet(q)
  OBVIOUS
<1>3. /\ h = Self(w, "M0") /\ OnlyCall(w, h, S) /\ NoAsk(w, S) /\ NoHelp(w)
      /\ wi[w].ci \in Client /\ Free(w, h, S)
  BY <1>2 DEF Free
<1>4. /\ wi'[w].ci = wi[w].ci /\ \A v \in Worker \ {w} : wi'[v] = wi[v]
      /\ net' = net /\ job' = job /\ io' = io
  BY DEF Asks
<1>5. ~ Early(Head(q))
  BY <1>2, <1>3, SelfFields, NotEarly
<1>6. /\ w \in Machine /\ w \notin Helper /\ Tx \subseteq Machine /\ Worker \subseteq Machine
      /\ Helper \cap Worker = {} /\ Tx \subseteq Helper /\ w \notin Client /\ NULL \notin Client
  BY Kinships
<1>7. /\ \A p \in Tx : state'[p] = "work" <=> state[p] = "work"
      /\ \A v \in Worker \ {w} : wi'[v] = wi[v] /\ state'[v] = state[v]
  <2>1. ASSUME NEW p \in Tx PROVE state'[p] = "work" <=> state[p] = "work"
    BY <1>1, <1>6
  <2>2. ASSUME NEW v \in Worker \ {w} PROVE state'[v] = state[v]
    BY <1>1, <1>6
  <2>. QED
    BY <1>4, <2>1, <2>2
<1>8. ASSUME NEW x \in ToSet(t)
      PROVE  ~ Unheard(x) /\ \A v \in Worker : Matters(x, v) => v = w /\ x = ask
  <2>1. CASE x = ask
    <3>1. x.src = w /\ x.dst = n /\ x.ptr = w
      BY <1>1, <2>1, MsgFields
    <3>2. \A v : Self(v, "M0").src = v /\ Self(v, "M0").dst = v
      BY SelfFields
    <3>. QED
      BY <1>1, <1>6, <2>1, <3>1, <3>2 DEF Unheard, Matters
  <2>2. CASE x # ask
    <3>1. PICK z \in Z : x = Self(z, "M0")
      BY <1>1, <2>2, <1>8 DEF Adding
    <3>2. z \in Helper /\ NoData(x)
      BY <1>1, <3>1, MeansNoData
    <3>. QED
      BY <3>2 DEF NoData
  <2>. QED
    BY <2>1, <2>2
<1>9. ASSUME NEW U, U \subseteq After(ToSet(q), Head(q), ToSet(t)), InHands(ToSet(q))
      PROVE  Carries(w, U)'
  <2>1. NoHelp(w)'
    BY <1>3, <1>4 DEF NoHelp
  <2>2. \A x \in U : Matters(x, w) => x = ask
    BY <1>2, <1>3, <1>8, <1>9, OnlyMatter
  <2>3. PICK c : c = wi[w].ci
    OBVIOUS
  <2>4. IF state[w] = "getp" THEN Line(c, wi[w].ibuf) ELSE Settled(c)
    BY <1>2, <1>3, <1>9, <2>3, FreeHands
  <2>5. Settled(c)' = Settled(c) /\ \A b : Line(c, b) => Line(c, b)'
    BY <1>4 DEF Settled, Line, SaidLine, Owed
  <2>6. Means(ask, w)'
    <3>1. CASE n \in Rx /\ state[w] # "getp" /\ wi'[w].buf = "ibuf"
      BY <1>1, <1>4, <2>3, <2>4, <2>5, <3>1 DEF Means
    <3>2. CASE n \in Tx /\ state[w] = "getp" /\ wi'[w].buf = "obuf" /\ wi'[w].obuf = wi[w].ibuf
      <4>1. PICK b : b = wi[w].ibuf
        OBVIOUS
      <4>2. Line(c, b)' /\ wi'[w].obuf = b
        BY <2>4, <2>5, <3>2, <4>1
      <4>3. Line(c, wi[w].obuf)'
        BY <4>2 DEF Line
      <4>. QED
        BY <1>1, <1>4, <2>3, <3>2, <4>3 DEF Means
    <3>. QED
      BY <3>1, <3>2
  <2>. QED
    BY <2>1, <2>2, <2>6, CarriesAnew
<1>10. /\ Early(Head(q)) => wi' = wi /\ state' = state
       /\ wi'[w].ci # NULL => wi[w].ci # NULL \/ ~ Early(Head(q))
  BY <1>5
<1>11. \A x \in ToSet(t) : ~ Unheard(x) /\ \A v \in Worker \ {w} : ~ Matters(x, v)
  BY <1>8
<1>12. \A U : /\ U \subseteq After(ToSet(q), Head(q), ToSet(t))
              /\ EchoedInOrder /\ InHands(ToSet(q)) /\ wi'[w].ci # NULL
              => Carries(w, U)'
  BY <1>9
<1>. QED
  BY <1>1, <1>4, <1>7, <1>10, <1>11, <1>12, WorkerPasses

(* The next part of the work: a line is wanted, or written back. *)
LEMMA WorkerTurns ==
  ASSUME NEW q, Dispatches(q), NEW T, NEW w \in Worker, worker_M0_getp(w) \/ worker_M0_ackp(w)
  PROVE  HandsOver(q, T)
<1>1. PICK h, S : h = Head(q) /\ S = ToSet(q)
  OBVIOUS
<1>2. /\ Views(S) /\ h \in S /\ h.dst = w /\ h.code = "M0" /\ ~ IsEvent(h)
      /\ state[w] \in {"idle", "getp", "ackp"}
      /\ worker_M0_ackp(w) => state[w] = "getp"
      /\ worker_M0_getp(w) => state[w] # "getp"
  <2>1. CASE worker_M0_getp(w)
    <3>1. Receive(w, "idle", "M0") \/ Receive(w, "ackp", "M0")
      BY <2>1 DEF worker_M0_getp
    <3>2. /\ Views(S) /\ h \in S /\ h.dst = w /\ h.code = "M0" /\ ~ IsEvent(h)
          /\ state[w] \in {"idle", "ackp"}
      BY <1>1, <3>1, Received
    <3>. QED
      BY <3>2 DEF worker_M0_ackp, Receive
  <2>2. CASE worker_M0_ackp(w)
    <3>1. Receive(w, "getp", "M0")
      BY <2>2 DEF worker_M0_ackp
    <3>2. /\ Views(S) /\ h \in S /\ h.dst = w /\ h.code = "M0" /\ ~ IsEvent(h)
          /\ state[w] = "getp"
      BY <1>1, <3>1, Received
    <3>. QED
      BY <3>2 DEF worker_M0_getp, Receive
  <2>. QED
    BY <2>1, <2>2
<1>3. /\ h = Self(w, "M0") /\ OnlyCall(w, h, S) /\ NoAsk(w, S) /\ NoHelp(w)
      /\ wi[w].ci \in Client
  <2>1. CASE state[w] = "idle"
    BY <1>2, <2>1, IdleStarts
  <2>2. CASE state[w] \in {"getp", "ackp"}
    BY <1>1, <1>2, <2>2, GoesOn DEF Dispatches, InStep
  <2>. QED
    BY <1>2, <2>1, <2>2
<1>4. Free(w, Head(q), ToSet(q))
  BY <1>1, <1>2, <1>3 DEF Free
<1>5. /\ UNCHANGED <<fate, io, timer, job, flags, sig, net>> /\ fate = "running"
      /\ net' = net /\ job' = job /\ io' = io
  BY DEF worker_M0_getp, worker_M0_ackp, worldVars, Receive
<1>6. wi \in [Worker -> Info] /\ Members["rx"] = Rx /\ Members["tx"] = Tx
  BY DEF Typed, Dispatches, Members
<1>7. CASE worker_getp_enter(w) /\ state[w] # "getp"
  <2>1. CASE pool_is_empty(pool["rx"])
    <3>1. /\ Puts(GiveUpMsgs(w)) /\ state' = [state EXCEPT ![w] = "getp"] /\ wi' = wi
      BY <1>7, <2>1 DEF worker_getp_enter
    <3>. QED
      BY <1>4, <1>5, <3>1, WorkerLeavesQuietly
  <2>2. CASE ~ pool_is_empty(pool["rx"])
    <3>1. PICK n : n = Taken(pool["rx"])
      OBVIOUS
    <3>2. /\ AnyFresh("rx")
          /\ Puts(AddSmMsgs("rx") \o <<Msg(w, n, w, "M1")>>)
          /\ state' = [StateAfterAddSm("rx") EXCEPT ![w] = "getp"]
          /\ pool' = PoolAfterGet("rx")
          /\ wi' = [wi EXCEPT ![w].fd = wi[w].ci, ![w].buf = "ibuf"]
      BY <1>7, <2>2, <3>1 DEF worker_getp_enter
    <3>3. /\ wi' \in [Worker -> Info] /\ wi'[w].ci = wi[w].ci /\ wi'[w].fd = wi[w].ci
          /\ \A v \in Worker \ {w} : wi'[v] = wi[v]
      BY <1>6, <3>2, WithContext
    <3>4. Takes("rx", n)
      BY <2>2, <3>1, <3>2 DEF Takes, Kinds
    <3>5. Asks(w, "rx", n)
      BY <1>5, <3>2, <3>3, <3>4 DEF Asks
    <3>6. n \in Rx
      BY <1>6, <3>1, <3>4, PoolGet DEF Takes, Dispatches
    <3>7. wi'[w].buf = "ibuf"
      BY <1>6, <3>2 DEF Info
    <3>. QED
      BY <1>4, <1>7, <3>5, <3>6, <3>7, WorkerAsksFor
  <2>. QED
    BY <2>1, <2>2
<1>8. CASE worker_ackp_enter(w) /\ state[w] = "getp"
  <2>1. CASE pool_is_empty(pool["tx"])
    <3>1. /\ Puts(GiveUpMsgs(w)) /\ state' = [state EXCEPT ![w] = "ackp"] /\ wi' = wi
      BY <1>8, <2>1 DEF worker_ackp_enter
    <3>. QED
      BY <1>4, <1>5, <3>1, WorkerLeavesQuietly
  <2>2. CASE ~ pool_is_empty(pool["tx"])
    <3>1. PICK n : n = Taken(pool["tx"])
      OBVIOUS
    <3>2. /\ AnyFresh("tx")
          /\ Puts(AddSmMsgs("tx") \o <<Msg(w, n, w, "M1")>>)
          /\ state' = [StateAfterAddSm("tx") EXCEPT ![w] = "ackp"]
          /\ pool' = PoolAfterGet("tx")
          /\ wi' = [wi EXCEPT ![w].fd = wi[w].ci, ![w].buf = "obuf", ![w].obuf = wi[w].ibuf]
      BY <1>8, <2>2, <3>1 DEF worker_ackp_enter
    <3>3. /\ wi' \in [Worker -> Info] /\ wi'[w].ci = wi[w].ci /\ wi'[w].fd = wi[w].ci
          /\ \A v \in Worker \ {w} : wi'[v] = wi[v]
      BY <1>6, <3>2, WithContext
    <3>4. Takes("tx", n)
      BY <2>2, <3>1, <3>2 DEF Takes, Kinds
    <3>5. Asks(w, "tx", n)
      BY <1>5, <3>2, <3>3, <3>4 DEF Asks
    <3>6. n \in Tx
      BY <1>6, <3>1, <3>4, PoolGet DEF Takes, Dispatches
    <3>7. wi'[w].buf = "obuf" /\ wi'[w].obuf = wi[w].ibuf
      BY <1>6, <3>2 DEF Info
    <3>. QED
      BY <1>4, <1>8, <3>5, <3>6, <3>7, WorkerAsksFor
  <2>. QED
    BY <2>1, <2>2
<1>. QED
  BY <1>2, <1>7, <1>8 DEF worker_M0_getp, worker_M0_ackp

LEMMA WorkerHandsOver ==
  ASSUME NEW q, Dispatches(q), NEW T, WorkerExec
  PROVE  HandsOver(q, T) \/ Stops
<1>1. PICK w \in Worker :
        \/ worker_init_M0(w) \/ worker_idle_M1(w) \/ worker_M0_getp(w)
        \/ worker_M0_ackp(w) \/ worker_M1(w) \/ worker_M2(w) \/ worker_M3(w)
  BY DEF WorkerExec
<1>. QED
  BY <1>1, WorkerEnds, WorkerIsGiven, WorkerTurns, WorkerIsTold, WorkerIsLetDown

(* What helper m holds for worker d, and what d has when m is done. *)
Helps(m, d) ==
  LET c == wi[d].ci IN
  IF m \in Rx THEN wi[d].buf = "ibuf" /\ wi[d].ibuf = Owed(c)
  ELSE IF state[m] = "work" THEN Line(c, wi[d].unsent)
  ELSE wi[d].buf = "obuf" /\ Line(c, wi[d].obuf)

HelpedBy(m, d) ==
  LET c == wi[d].ci IN IF m \in Rx THEN Line(c, wi[d].ibuf) ELSE Settled(c)

LEMMA CarriesForHelper ==
  ASSUME NEW d \in Worker, NEW T, Carries(d, T), NEW m \in Helper, job[m] = d, io[m].fd # NULL
  PROVE  Helps(m, d)
BY Kinships DEF Carries, Helps, Helper

LEMMA CarriesHelped ==
  ASSUME NEW d \in Worker, NEW m \in Helper, NEW U,
         \A x \in U : Matters(x, d) => x = Msg(m, d, NULL, "M1") /\ HelpedBy(m, d)',
         \A p \in Helper : job'[p] = d /\ io'[p].fd # NULL => p = m /\ Helps(m, d)'
  PROVE  Carries(d, U)'
<1>1. /\ Rx \subseteq Helper /\ Tx \subseteq Helper /\ Rx \cap Tx = {} /\ d \notin Helper
      /\ Helper = Rx \cup Tx
  BY Kinships DEF Helper
<1>2. PICK c : c = wi'[d].ci
  OBVIOUS
<1>3. /\ Self(d, "M0") \notin U
      /\ \A p \in Helper : Msg(d, p, d, "M1") \notin U
      /\ \A p \in Helper : Msg(p, d, NULL, "M1") \in U => p = m
  BY <1>1, MatterMost, MsgFields, SelfFields
<1>4. ASSUME NEW p \in Helper, Msg(p, d, NULL, "M1") \in U
      PROVE  /\ p = m
             /\ p \in Rx => Line(c, wi[d].ibuf)'
             /\ p \in Tx => Settled(c)'
  <2>1. p = m /\ HelpedBy(m, d)'
    BY <1>3, <1>4, MatterMost
  <2>. QED
    BY <1>1, <1>2, <2>1 DEF HelpedBy
<1>5. ASSUME NEW p \in Helper, job'[p] = d, io'[p].fd # NULL
      PROVE  /\ p \in Rx => wi'[d].buf = "ibuf" /\ wi'[d].ibuf = Owed(c)'
             /\ p \in Tx => IF state'[p] = "work"
                            THEN Line(c, wi[d].unsent)'
                            ELSE wi'[d].buf = "obuf" /\ Line(c, wi[d].obuf)'
  <2>1. p = m /\ Helps(m, d)'
    BY <1>5
  <2>. QED
    BY <1>1, <1>2, <2>1 DEF Helps
<1>6. /\ \A p \in Rx : job'[p] = d /\ io'[p].fd # NULL =>
            wi'[d].buf = "ibuf" /\ wi'[d].ibuf = Owed(c)'
      /\ \A p \in Tx : job'[p] = d /\ io'[p].fd # NULL =>
            IF state'[p] = "work" THEN Line(c, wi[d].unsent)'
                                  ELSE wi'[d].buf = "obuf" /\ Line(c, wi[d].obuf)'
  BY <1>1, <1>5
<1>7. /\ (\E p \in Rx : Msg(p, d, NULL, "M1") \in U) => Line(c, wi[d].ibuf)'
      /\ (\E p \in Tx : Msg(p, d, NULL, "M1") \in U) => Settled(c)'
  BY <1>1, <1>4
<1>8. /\ \A p \in Rx : Msg(d, p, d, "M1") \notin U
      /\ \A p \in Tx : Msg(d, p, d, "M1") \notin U
  BY <1>1, <1>3
<1>. QED
  BY <1>2, <1>3, <1>6, <1>7, <1>8 DEF Carries

(* Helper n works for d. *)
LEMMA HelperPasses ==
  ASSUME NEW q, Dispatches(q), NEW T, NEW n \in Helper, NEW d \in Worker, wi[d].ci \in Client,
         NEW t \in Seq(Message), Puts(t),
         \A x \in ToSet(t) : ~ Unheard(x) /\ \A v \in Worker \ {d} : ~ Matters(x, v),
         \A w \in Worker : state'[w] = state[w],
         \A v \in Worker \ {d} : wi'[v] = wi[v],
         \A p \in Helper \ {n} : io'[p].fd = io[p].fd /\ job'[p] = job[p] /\ state'[p] = state[p],
         io'[n].fd # NULL => job'[n] = d,
         \A e \in Client \ {wi[d].ci} : DataKept(e),
         \A U : Handing(q, T, ToSet(t), U) /\ Carries(d, T) => Carries(d, U)' /\ EchoedInOrder'
  PROVE  HandsOver(q, T)
<1>1. PICK c, S : c = wi[d].ci /\ S = ToSet(q)
  OBVIOUS
<1>2. /\ c \in Client /\ wi \in [Worker -> Info] /\ NULL \notin Client
  BY <1>1, Kinships DEF Dispatches, Typed
<1>3. ClientView(c, S)
  BY <1>1, <1>2, ViewsMean DEF Dispatches, InStep
<1>4. ASSUME NEW U, Handing(q, T, ToSet(t), U)
      PROVE  EchoedInOrder' /\ InHands(U)'
  <2>1. /\ U \subseteq After(T, Head(q), ToSet(t)) /\ InHands(T) /\ EchoedInOrder
        /\ T = S \/ (T = {} /\ U = {})
        /\ U \subseteq T \cup ToSet(t)
    BY <1>1, <1>4 DEF Handing, After
  <2>2. Carries(d, T)
    BY <1>1, <1>2, <2>1 DEF InHands
  <2>3. Carries(d, U)' /\ EchoedInOrder'
    BY <1>4, <2>2
  <2>4. ASSUME NEW v \in Worker \ {d}
        PROVE  HandsKept(v, T, U)
    <3>1. wi'[v] = wi[v] /\ state'[v] = state[v] /\ wi[v].ci \in Client \cup {NULL}
      BY <1>2 DEF Info
    <3>2. wi[v].ci # c
      BY <1>1, <1>2, <1>3 DEF ClientView
    <3>3. wi[v].ci # NULL => DataKept(wi[v].ci)
      BY <1>1, <3>1, <3>2
    <3>4. \A p \in Helper : HelpKept(p, v)
      BY DEF HelpKept
    <3>5. \A x \in U : Matters(x, v) => x \in T
      BY <2>1
    <3>. QED
      BY <3>1, <3>3, <3>4, <3>5 DEF HandsKept
  <2>5. ASSUME NEW x \in U, Unheard(x)
        PROVE  x \in T /\ net'[x.ptr].nread = net[x.ptr].nread
    <3>1. x \in T /\ x \in S
      BY <2>1, <2>5
    <3>2. x.ptr \in Client /\ x.ptr # c
      BY <1>1, <1>3, <2>5, <3>1 DEF Unheard, ClientView
    <3>. QED
      BY <1>1, <3>1, <3>2 DEF DataKept
  <2>6. InHands(U)'
    BY <2>1, <2>3, <2>4, <2>5, HandsAside
  <2>. QED
    BY <2>3, <2>6
<1>. QED
  BY <1>4 DEF HandsOver, Puts

(* A worker that asks, or is helped, is called by nobody. *)
LEMMA NobodyCalls ==
  ASSUME NEW S, NEW d \in Worker, NoCall(d, S), NEW h, NoAsk(d, S) \/ OnlyAsk(d, h, S),
         NEW T, T \in {S, {}}, NEW N, NEW U, U \subseteq After(T, h, N),
         NEW x \in U, Matters(x, d)
  PROVE  x \in N
<1>1. d # NULL /\ d \notin Helper /\ NULL \notin Helper
  BY Kinships
<1>2. Self(d, "M0").dst = d /\ Self(d, "M0").src = d
  BY SelfFields
<1>. QED
  BY <1>1, <1>2 DEF After, Matters, NoCall, NoAsk, OnlyAsk, IsEvent

LEMMA NoChunks ==
  ASSUME NEW c, NEW a
  PROVE  Chunks(c, a, 0) = << >>
BY DEF Chunks

LEMMA MoreChunks ==
  ASSUME NEW c, NEW a \in Nat, NEW i \in Nat, NEW j \in Nat
  PROVE  /\ Chunks(c, a, i) \o Chunks(c, a + i, j) = Chunks(c, a, i + j)
         /\ Len(Chunks(c, a, i)) = i
<1>. DEFINE A == Chunks(c, a, i)
            B == Chunks(c, a + i, j)
            C == Chunks(c, a, i + j)
            R == [peer : {c}, seqn : Nat]
<1>1. A \in Seq(R) /\ Len(A) = i /\ \A k \in 1 .. i : A[k] = [peer |-> c, seqn |-> a + k]
  BY DEF Chunks
<1>2. B \in Seq(R) /\ Len(B) = j /\ \A k \in 1 .. j : B[k] = [peer |-> c, seqn |-> a + i + k]
  BY DEF Chunks
<1>3. C \in Seq(R) /\ Len(C) = i + j /\ \A k \in 1 .. i + j : C[k] = [peer |-> c, seqn |-> a + k]
  BY DEF Chunks
<1>. HIDE DEF A, B, C, R
<1>4. A \o B \in Seq(R) /\ Len(A \o B) = i + j
  BY <1>1, <1>2
<1>5. ASSUME NEW k \in 1 .. i + j
      PROVE  (A \o B)[k] = C[k]
  <2>1. CASE k \in 1 .. i
    BY <1>1, <1>2, <1>3, <2>1
  <2>2. CASE k \notin 1 .. i
    <3>1. k - i \in 1 .. j /\ a + i + (k - i) = a + k
      BY <2>2
    <3>2. k \in 1 .. Len(A) + Len(B) /\ ~ k <= Len(A)
      BY <1>1, <1>2, <2>2
    <3>4. (A \o B)[k] = B[k - i]
      BY <1>1, <1>2, <3>2, ConcatProperties
    <3>. QED
      BY <1>2, <1>3, <3>1, <3>4
  <2>. QED
    BY <2>1, <2>2
<1>6. A \o B = C
  BY <1>3, <1>4, <1>5
<1>. QED
  BY <1>1, <1>6 DEF A, B, C

LEMMA SomeChunks ==
  ASSUME NEW c, NEW a \in Nat, NEW l \in Nat, NEW n \in 1 .. l
  PROVE  /\ SubSeq(Chunks(c, a, l), 1, n) = Chunks(c, a, n)
         /\ SubSeq(Chunks(c, a, l), n + 1, l) = Chunks(c, a + n, l - n)
BY DEF Chunks

(* What is read goes to the input buffer. *)
LEMMA WithInput ==
  ASSUME wi \in [Worker -> Info], NEW w \in Worker, NEW z \in Seq(Chunk), wi[w].buf = "ibuf",
         wi' = [wi EXCEPT ![w][wi[w].buf] = z]
  PROVE  /\ wi'[w].ibuf = z /\ wi'[w].buf = "ibuf" /\ wi'[w].ci = wi[w].ci
         /\ \A v \in Worker \ {w} : wi'[v] = wi[v]
<1>1. PICK r : r = wi[w]
  OBVIOUS
<1>2. r \in Info
  BY <1>1
<1>3. wi'[w] = [r EXCEPT !.ibuf = z]
  BY <1>1
<1>4. [r EXCEPT !.ibuf = z].ibuf = z /\ [r EXCEPT !.ibuf = z].buf = r.buf /\ [r EXCEPT !.ibuf = z].ci = r.ci
  BY <1>2 DEF Info
<1>. QED
  BY <1>1, <1>3, <1>4

(* A worker asks a helper, which takes the socket. *)
LEMMA HelperIsAsked ==
  ASSUME NEW q, Dispatches(q), NEW T, NEW m \in Helper, Receive(m, "idle", "M1"),
         NEW w, w = Head(queue).src,
         Puts(<<Self(m, "M0")>>), job' = [job EXCEPT ![m] = w], io' = io_attach(m, wi[w].fd),
         state' = state, net' = net,
         \/ m \in Rx /\ wi' = [wi EXCEPT ![w][wi[w].buf] = << >>]
         \/ m \in Tx /\ wi' = wi
  PROVE  HandsOver(q, T)
<1>1. PICK h, S : h = Head(q) /\ S = ToSet(q)
  OBVIOUS
<1>2. /\ Views(S) /\ h \in S /\ h.dst = m /\ ~ IsEvent(h) /\ h.code = "M1" /\ state[m] = "idle"
      /\ h = Head(queue)
  BY <1>1, Received
<1>3. /\ w \in Worker /\ h = Msg(w, m, w, "M1") /\ Asking(w, S) /\ OnlyAsk(w, h, S)
      /\ wi[w].ci \in Client
  BY <1>2, AskedBy
<1>4. /\ Typed /\ m \in Machine /\ Helper \subseteq Channel /\ Rx \cap Tx = {} /\ Helper \cap Worker = {}
      /\ Helper = Rx \cup Tx /\ m \in Channel
  BY Kinships DEF Dispatches, Helper
<1>5. PICK t, c : t = <<Self(m, "M0")>> /\ c = wi[w].ci
  OBVIOUS
<1>6. t \in Seq(Message) /\ Puts(t) /\ ToSet(t) = {Self(m, "M0")} /\ NoData(Self(m, "M0"))
  <2>1. Self(m, "M0") \in Message
    BY <1>4, MsgType DEF Self, Code0
  <2>. QED
    BY <1>5, <2>1, Put1, MeansNoData
<1>7. /\ job'[m] = w /\ \A p \in Helper \ {m} : job'[p] = job[p] /\ io'[p] = io[p]
  BY <1>4 DEF Typed, io_attach
<1>8. ~ Early(Head(q))
  BY <1>1, <1>3, MsgFields, NotEarly
<1>9. /\ \A v \in Worker \ {w} : wi'[v] = wi[v]
  <2>1. CASE m \in Tx /\ wi' = wi
    BY <2>1
  <2>2. CASE m \in Rx /\ wi' = [wi EXCEPT ![w][wi[w].buf] = << >>]
    BY <1>3, <1>4, <2>2, SMTT(30) DEF Typed
  <2>. QED
    BY <2>1, <2>2
<1>10. ASSUME NEW U, Handing(q, T, ToSet(t), U), Carries(w, T)
       PROVE  Carries(w, U)' /\ EchoedInOrder'
  <2>1. T = S /\ U \subseteq After(S, h, ToSet(t)) /\ EchoedInOrder
    BY <1>1, <1>8, <1>10 DEF Handing
  <2>2. ASSUME NEW x \in U, Matters(x, w)
        PROVE  FALSE
    <3>1. x \in ToSet(t)
      BY <1>3, <2>1, <2>2, NobodyCalls DEF Asking
    <3>. QED
      BY <1>3, <1>6, <2>2, <3>1 DEF NoData
  <2>3. ASSUME NEW p \in Helper, job'[p] = w, io'[p].fd # NULL
        PROVE  p = m /\ Helps(m, w)'
    <3>1. p = m
      BY <1>3, <1>7, <2>3 DEF Asking, NoHelp
    <3>2. CASE m \in Rx
      <4>1. wi[w].buf = "ibuf" /\ Settled(c) /\ wi[w] \in Info
        BY <1>2, <1>3, <1>4, <1>5, <1>10, <2>1, <3>2 DEF Carries, Typed
      <4>2. wi'[w].ibuf = << >> /\ wi'[w].buf = "ibuf" /\ wi'[w].ci = c
        <5>1. wi' = [wi EXCEPT ![w][wi[w].buf] = << >>] /\ << >> \in Seq(Chunk)
          BY <1>4, <3>2
        <5>. QED
          BY <1>3, <1>4, <1>5, <4>1, <5>1, WithInput DEF Typed
      <4>3. Owed(c)' = << >>
        <5>1. Len(net[c].echoed) \in Nat
          <6>1. net[c].echoed \in Seq(Chunk)
            BY <1>3, <1>4, <1>5 DEF Typed, Connection
          <6>. QED
            BY <6>1, LenProperties
        <5>2. Owed(c)' = Owed(c) /\ net[c].nread - Len(net[c].echoed) = 0
          BY <4>1, <5>1 DEF Owed, Settled
        <5>. QED
          BY <5>2, NoChunks DEF Owed
      <4>. QED
        BY <3>1, <3>2, <4>2, <4>3, SMTT(30) DEF Helps
    <3>3. CASE m \in Tx
      <4>1. wi[w].buf = "obuf" /\ Line(c, wi[w].obuf)
        BY <1>2, <1>3, <1>5, <1>10, <2>1, <3>3 DEF Carries
      <4>2. PICK b : b = wi[w].obuf
        OBVIOUS
      <4>3. wi' = wi /\ m \notin Rx
        BY <1>4, <3>3
      <4>4. Line(c, b)'
        BY <4>1, <4>2 DEF Line, Owed, SaidLine
      <4>5. Line(c, wi[w].obuf)'
        BY <4>2, <4>3, <4>4 DEF Line
      <4>. QED
        BY <1>2, <1>5, <3>1, <4>1, <4>3, <4>5 DEF Helps
    <3>. QED
      BY <1>4, <3>1, <3>2, <3>3
  <2>. QED
    BY <1>3, <2>1, <2>2, <2>3, CarriesHelped, SameData, EchoStays
<1>11. \A e \in Client \ {wi[w].ci} : DataKept(e)
  BY SameData DEF EchoKept
<1>12. \A x \in ToSet(t) : ~ Unheard(x) /\ \A v \in Worker \ {w} : ~ Matters(x, v)
  BY <1>6 DEF NoData
<1>13. \A p \in Helper \ {m} : io'[p].fd = io[p].fd /\ job'[p] = job[p] /\ state'[p] = state[p]
  BY <1>7
<1>14. \A U : Handing(q, T, ToSet(t), U) /\ Carries(w, T) => Carries(w, U)' /\ EchoedInOrder'
  BY <1>10
<1>. QED
  BY <1>3, <1>6, <1>7, <1>9, <1>11, <1>12, <1>13, <1>14, HelperPasses, ZenonT(40)

(* A tx machine takes over what is to be written. *)
LEMMA TxTakesOver ==
  ASSUME NEW q, Dispatches(q), NEW T, NEW m \in Tx, tx_idle_M0(m)
  PROVE  HandsOver(q, T) \/ Stops
<1>1. PICK h, S, d : h = Head(q) /\ S = ToSet(q) /\ d = job[m]
  OBVIOUS
<1>2. CASE io[m].fd = NULL
  BY <1>2 DEF tx_idle_M0, Exit, Stops
<1>3. CASE io[m].fd # NULL
  <2>1. /\ Puts(<< >>) /\ state' = [state EXCEPT ![m] = "work"]
        /\ wi' = [wi EXCEPT ![d].unsent = wi[d][wi[d].buf]]
        /\ io' = io_enable(m, "POLLOUT") /\ job' = job /\ net' = net
        /\ Receive(m, "idle", "M0")
    BY <1>1, <1>3 DEF tx_idle_M0, worldVars
  <2>2. Views(S) /\ h \in S /\ ~ IsEvent(h) /\ state[m] = "idle"
    BY <1>1, <2>1, Received
  <2>3. /\ Typed /\ m \in Helper /\ m \in Machine /\ Helper \subseteq Channel /\ Helper \subseteq Machine
        /\ m \notin Rx /\ Worker \subseteq Machine /\ m \notin Worker
    BY Kinships DEF Dispatches
  <2>4. /\ d \in Worker /\ Helped(d, S) /\ OnlyHelp(d, m) /\ wi[d].ci \in Client
    BY <1>1, <1>3, <2>2, <2>3, AtWork
  <2>5. wi[d] \in Info
    BY <2>3, <2>4 DEF Typed
  <2>6. /\ \A v \in Worker \ {d} : wi'[v] = wi[v]
        /\ wi'[d].ci = wi[d].ci /\ wi'[d].unsent = wi[d][wi[d].buf]
    BY <2>1, <2>3, <2>4, <2>5 DEF Typed, Info
  <2>7. /\ \A p \in Helper : io'[p].fd = io[p].fd
        /\ \A p \in Helper \ {m} : state'[p] = state[p]
        /\ state'[m] = "work" /\ \A w \in Worker : state'[w] = state[w]
    BY <2>1, <2>3, ChannelEnabled DEF Typed
  <2>8. << >> \in Seq(Message) /\ ToSet(<< >>) = {}
    BY Put0
  <2>9. PICK N : N = {}
    OBVIOUS
  <2>10. ASSUME NEW U, Handing(q, T, ToSet(<< >>), U), Carries(d, T)
         PROVE  Carries(d, U)' /\ EchoedInOrder'
    <3>1. T \in {S, {}} /\ U \subseteq After(T, h, N) /\ EchoedInOrder
      BY <1>1, <2>8, <2>9, <2>10 DEF Handing
    <3>2. \A x \in U : ~ Matters(x, d)
      BY <2>4, <2>9, <3>1, NobodyCalls DEF Helped
    <3>3. PICK c, b : c = wi[d].ci /\ b = wi[d].obuf
      OBVIOUS
    <3>4. wi[d].buf = "obuf" /\ Line(c, b)
      BY <1>1, <1>3, <2>2, <2>3, <2>4, <2>10, <3>3, CarriesForHelper DEF Helps
    <3>5. Line(c, b)'
      BY <2>1, <3>4 DEF Line, Owed, SaidLine
    <3>6. Line(c, wi[d].unsent)'
      BY <2>6, <3>3, <3>4, <3>5 DEF Line
    <3>7. Helps(m, d)'
      BY <2>3, <2>6, <2>7, <3>3, <3>6 DEF Helps
    <3>8. \A p \in Helper : job'[p] = d /\ io'[p].fd # NULL => p = m /\ Helps(m, d)'
      BY <2>1, <2>4, <2>7, <3>7 DEF OnlyHelp
    <3>. QED
      BY <2>1, <2>3, <2>4, <3>1, <3>2, <3>8, CarriesHelped, SameData, EchoStays
  <2>11. \A U : Handing(q, T, ToSet(<< >>), U) /\ Carries(d, T) => Carries(d, U)' /\ EchoedInOrder'
    BY <2>10
  <2>12. \A e \in Client \ {wi[d].ci} : DataKept(e)
    BY <2>1, SameData DEF EchoKept
  <2>13. \A p \in Helper \ {m} : io'[p].fd = io[p].fd /\ job'[p] = job[p] /\ state'[p] = state[p]
    BY <2>1, <2>7
  <2>14. io'[m].fd # NULL => job'[m] = d
    BY <1>1, <2>1
  <2>15. \A x \in ToSet(<< >>) : ~ Unheard(x) /\ \A v \in Worker \ {d} : ~ Matters(x, v)
    BY <2>8
  <2>. QED
    BY <2>1, <2>3, <2>4, <2>6, <2>7, <2>8, <2>11, <2>12, <2>13, <2>14, <2>15, HelperPasses, ZenonT(40)
<1>. QED
  BY <1>2, <1>3

(* Helper m, told of an event, has the socket of its worker's client. *)
LEMMA HelperHolds ==
  ASSUME NEW q, Dispatches(q), NEW T, NEW m \in Helper, io[m].fd # NULL,
         NEW S, S = ToSet(q), NEW d, d = job[m], NEW c, c = io[m].fd
  PROVE  /\ d \in Worker /\ Helped(d, S) /\ OnlyHelp(d, m) /\ wi[d].ci = c /\ c \in Client
         /\ net[c].conn \in {"open", "closed"} /\ net[c] \in Connection /\ wi[d] \in Info
         /\ net[c].echoed \in Seq(Chunk) /\ Len(net[c].echoed) \in Nat /\ net[c].nread \in Nat
         /\ net[c].sent \in Seq(BOOLEAN) /\ net[c].nread <= Len(net[c].sent)
<1>1. Views(S) /\ Typed
  BY DEF Dispatches, InStep
<1>2. /\ d \in Worker /\ Helped(d, S) /\ OnlyHelp(d, m) /\ wi[d].ci = c /\ c \in Client
  BY <1>1, AtWork
<1>3. ClientView(c, S)
  BY <1>1, <1>2, ViewsMean
<1>4. net[c].conn \in {"open", "closed"}
  BY <1>2, <1>3 DEF ClientView
<1>5. net[c] \in Connection /\ wi[d] \in Info /\ net[c].nread <= Len(net[c].sent)
  BY <1>1, <1>2 DEF Typed
<1>6. net[c].echoed \in Seq(Chunk) /\ net[c].nread \in Nat /\ net[c].sent \in Seq(BOOLEAN)
  BY <1>5 DEF Connection
<1>. QED
  BY <1>2, <1>4, <1>5, <1>6, LenProperties

(* What an rx machine says when it has read a line, a tx machine when all   *)
(* is written.                                                              *)
LEMMA SaysDone ==
  ASSUME NEW n \in Helper, NEW d \in Worker, job[n] = d,
         NEW t, t \in {DoneMsgs(n, "M1"), TxDoneMsgs(n, "M1")}
  PROVE  /\ t \in Seq(Message)
         /\ \A x \in ToSet(t) :
              /\ ~ Unheard(x)
              /\ \A v \in Worker : Matters(x, v) => v = d /\ x = Msg(n, d, NULL, "M1")
<1>1. PICK x, y : x = Msg(n, d, NULL, "M1") /\ y = Self(n, "M0")
  OBVIOUS
<1>2. n \in Machine /\ d \in Machine /\ n # d /\ n \notin Worker /\ d \notin Helper /\ n # listener
      /\ NULL \notin Client
  BY Kinships
<1>3. x \in Message /\ y \in Message /\ x # y
  BY <1>1, <1>2, MsgType, MsgFields, SelfFields DEF Self, Code0
<1>4. t = <<x, y>> \/ t = <<y, x>>
  BY <1>1 DEF DoneMsgs, TxDoneMsgs
<1>5. t \in Seq(Message) /\ ToSet(t) = {x, y}
  <2>1. CASE t = <<x, y>>
    BY <1>3, <2>1, Put2
  <2>2. CASE t = <<y, x>>
    BY <1>3, <2>2, Put2
  <2>. QED
    BY <1>4, <2>1, <2>2
<1>6. NoData(y)
  BY <1>1, MeansNoData
<1>7. x.src = n /\ x.dst = d /\ x.ptr = NULL
  BY <1>1, MsgFields
<1>8. ~ Unheard(x) /\ \A v \in Worker : Matters(x, v) => v = d
  BY <1>2, <1>7, SelfFields DEF Unheard, Matters
<1>. QED
  BY <1>1, <1>5, <1>6, <1>8 DEF NoData

(* An rx machine reads. *)
LEMMA RxReads ==
  ASSUME NEW q, Dispatches(q), NEW T, NEW m \in Rx, rx_work_D0(m), flags[m] = {}
  PROVE  HandsOver(q, T)
<1>1. PICK h, S, d, c : h = Head(q) /\ S = ToSet(q) /\ d = job[m] /\ c = io[m].fd
  OBVIOUS
<1>2. /\ Receive(m, "work", "D0") /\ state' = state /\ job' = job /\ ReadChunks(m)
  BY DEF rx_work_D0
<1>3. /\ m \in Helper /\ m \notin Tx /\ Typed /\ Helper \subseteq Channel /\ m # listener
      /\ m \in Machine
  BY Kinships DEF Dispatches
<1>4. io[m].fd # NULL
  <2>1. h \in Message /\ h.dst = m /\ Code(h) = "D0"
    BY <1>1, <1>2, Received
  <2>. QED
    BY <1>3, <2>1, CodeMeans
<1>5. /\ d \in Worker /\ Helped(d, S) /\ OnlyHelp(d, m) /\ wi[d].ci = c /\ c \in Client
      /\ net[c].conn \in {"open", "closed"} /\ net[c] \in Connection /\ wi[d] \in Info
      /\ net[c].echoed \in Seq(Chunk) /\ Len(net[c].echoed) \in Nat /\ net[c].nread \in Nat
      /\ net[c].sent \in Seq(BOOLEAN) /\ net[c].nread <= Len(net[c].sent)
  BY <1>1, <1>3, <1>4, HelperHolds
<1>6. PICK n \in 1 .. Unread(c) :
        LET buffer == BufferWith(m, NextChunks(c, n)) IN
        /\ net' = [net EXCEPT ![c].nread = @ + n]
        /\ wi' = [wi EXCEPT ![d][wi[d].buf] = buffer]
        /\ IF need_more(buffer)
           THEN Puts(<< >>) /\ io' = io_enable(m, "POLLIN")
           ELSE Puts(DoneMsgs(m, "M1")) /\ io' = io_detach(m)
  BY <1>1, <1>2 DEF ReadChunks
<1>7. PICK buffer : buffer = BufferWith(m, NextChunks(c, n))
  OBVIOUS
<1>8. /\ net' = [net EXCEPT ![c].nread = @ + n]
      /\ wi' = [wi EXCEPT ![d][wi[d].buf] = buffer]
      /\ buffer \in Seq(Chunk)
  BY <1>1, <1>3, <1>5, <1>6, <1>7, Read
<1>9. /\ \A e \in Client \ {c} : net'[e] = net[e]
      /\ net'[c].nread = net[c].nread + n /\ net'[c].sent = net[c].sent
      /\ net'[c].echoed = net[c].echoed /\ net'[c].conn = net[c].conn
  BY <1>3, <1>5, <1>8 DEF Typed, Connection
<1>10. /\ wi'[d].ci = c /\ \A v \in Worker \ {d} : wi'[v] = wi[v]
  BY <1>3, <1>5, <1>8, WithBuffer DEF Typed
<1>11. PICK t : /\ Puts(t) /\ t \in Seq(Message)
                /\ \/ need_more(buffer) /\ t = << >> /\ io' = io_enable(m, "POLLIN")
                   \/ ~ need_more(buffer) /\ t = DoneMsgs(m, "M1") /\ io' = io_detach(m)
  BY <1>1, <1>3, <1>5, <1>6, <1>7, Put0, SaysDone
<1>12. \A x \in ToSet(t) :
         /\ ~ Unheard(x)
         /\ \A v \in Worker : Matters(x, v) => v = d /\ x = Msg(m, d, NULL, "M1") /\ ~ need_more(buffer)
  BY <1>1, <1>3, <1>5, <1>11, Put0, SaysDone
<1>13. /\ \A p \in Helper \ {m} : io'[p].fd = io[p].fd
       /\ ~ need_more(buffer) => io'[m].fd = NULL
  <2>1. CASE io' = io_enable(m, "POLLIN") /\ need_more(buffer)
    BY <1>3, <2>1, ChannelEnabled DEF Typed
  <2>2. CASE io' = io_detach(m)
    BY <1>3, <2>2, ChannelDetached DEF Typed
  <2>. QED
    BY <1>11, <2>1, <2>2
<1>14. ASSUME NEW U, Handing(q, T, ToSet(t), U), Carries(d, T)
       PROVE  Carries(d, U)' /\ EchoedInOrder'
  <2>1. T \in {S, {}} /\ U \subseteq After(T, h, ToSet(t)) /\ EchoedInOrder
    BY <1>1, <1>14 DEF Handing
  <2>2. wi[d].buf = "ibuf" /\ wi[d].ibuf = Owed(c)
    BY <1>1, <1>3, <1>4, <1>5, <1>14, CarriesForHelper DEF Helps
  <2>3. Len(net[c].echoed) <= net[c].nread
    BY <1>5, <2>1 DEF EchoedInOrder
  <2>4. PICK a, i : a = Len(net[c].echoed) /\ i = net[c].nread - a
    OBVIOUS
  <2>5. a \in Nat /\ i \in Nat /\ n \in Nat /\ net[c].nread = a + i /\ net[c].nread + n - a = i + n
    BY <1>5, <2>3, <2>4, SMTT(30)
  <2>6. NextChunks(c, n) = Chunks(c, a + i, n)
    BY <2>5, SMTT(30) DEF NextChunks, Chunks
  <2>7. buffer = Chunks(c, a, i) \o Chunks(c, a + i, n)
    BY <1>1, <1>7, <2>2, <2>4, <2>6 DEF BufferWith, Owed
  <2>8. buffer = Chunks(c, a, i + n)
    <3>2. a \in Nat /\ i \in Nat /\ n \in Nat
      BY <2>5
    <3>1. Chunks(c, a, i) \o Chunks(c, a + i, n) = Chunks(c, a, i + n)
      BY ONLY <3>2, MoreChunks, ZenonT(40)
    <3>. QED
      BY <2>7, <3>1
  <2>9. Owed(c)' = buffer
    <3>1. Owed(c)' = Chunks(c, Len(net'[c].echoed), net'[c].nread - Len(net'[c].echoed))
      BY DEF Owed
    <3>2. Len(net'[c].echoed) = a /\ net'[c].nread - Len(net'[c].echoed) = i + n
      BY <1>9, <2>4, <2>5
    <3>. QED
      BY <2>8, <3>1, <3>2
  <2>10. wi'[d].ibuf = buffer /\ wi'[d].buf = "ibuf"
    BY <1>3, <1>5, <1>8, <2>2, WithInput DEF Typed
  <2>11. Helps(m, d)'
    BY <1>10, <2>9, <2>10 DEF Helps
  <2>12. ~ need_more(buffer) => HelpedBy(m, d)'
    <3>1. ASSUME ~ need_more(buffer)
          PROVE  SaidLine(c)'
      <4>1. PICK k \in DOMAIN buffer : net[buffer[k].peer].sent[buffer[k].seqn]
        BY <3>1 DEF need_more
      <4>2. k \in 1 .. i + n /\ buffer[k] = [peer |-> c, seqn |-> a + k]
        BY <2>8, <4>1 DEF Chunks
      <4>3. net[c].sent[a + k]
        BY <4>1, <4>2
      <4>4. n <= Len(net[c].sent) - net[c].nread /\ Len(net[c].sent) \in Nat
        BY <1>5, LenProperties DEF Unread
      <4>5. a + k \in 1 .. Len(net[c].sent)
        BY <2>5, <4>2, <4>4
      <4>6. DOMAIN net[c].sent = 1 .. Len(net[c].sent)
        BY <1>5
      <4>. QED
        BY <1>9, <4>3, <4>5, <4>6 DEF SaidLine
    <3>. QED
      BY <1>10, <2>9, <2>10, <3>1 DEF HelpedBy, Line
  <2>13. ASSUME NEW x \in U, Matters(x, d)
         PROVE  x = Msg(m, d, NULL, "M1") /\ HelpedBy(m, d)'
    <3>1. PICK N : N = ToSet(t)
      OBVIOUS
    <3>2. U \subseteq After(T, h, N) /\ NoCall(d, S) /\ NoAsk(d, S)
      BY <1>5, <2>1, <3>1 DEF Helped
    <3>3. x \in N
      BY <1>5, <2>1, <2>13, <3>2, NobodyCalls
    <3>. QED
      BY <1>5, <1>12, <2>12, <2>13, <3>1, <3>3
  <2>14. \A p \in Helper : job'[p] = d /\ io'[p].fd # NULL => p = m /\ Helps(m, d)'
    BY <1>2, <1>5, <1>13, <2>11 DEF OnlyHelp
  <2>15. Carries(d, U)'
    BY <1>3, <1>5, <2>13, <2>14, CarriesHelped
  <2>16. EchoedInOrder'
    BY <1>5, <1>9, <2>1, <2>5 DEF EchoedInOrder
  <2>. QED
    BY <2>15, <2>16
<1>15. \A U : Handing(q, T, ToSet(t), U) /\ Carries(d, T) => Carries(d, U)' /\ EchoedInOrder'
  BY <1>14
<1>16. \A e \in Client \ {wi[d].ci} : DataKept(e)
  BY <1>5, <1>9 DEF DataKept, SaidLine
<1>17. \A x \in ToSet(t) : ~ Unheard(x) /\ \A v \in Worker \ {d} : ~ Matters(x, v)
  BY <1>12
<1>18. \A p \in Helper \ {m} : io'[p].fd = io[p].fd /\ job'[p] = job[p] /\ state'[p] = state[p]
  BY <1>2, <1>13
<1>19. /\ io'[m].fd # NULL => job'[m] = d
       /\ \A w \in Worker : state'[w] = state[w]
  BY <1>1, <1>2
<1>. QED
  BY <1>3, <1>5, <1>10, <1>11, <1>15, <1>16, <1>17, <1>18, <1>19, HelperPasses, SMTT(30)

(* A tx machine writes. *)
LEMMA TxWrites ==
  ASSUME NEW q, Dispatches(q), NEW T, NEW m \in Tx, tx_work_D1(m)
  PROVE  HandsOver(q, T)
<1>1. PICK h, S, d, c, left :
        h = Head(q) /\ S = ToSet(q) /\ d = job[m] /\ c = io[m].fd /\ left = unsent(m)
  OBVIOUS
<1>2. /\ Receive(m, "work", "D1") /\ state' = state /\ job' = job /\ state[m] = "work"
  BY DEF tx_work_D1, Receive
<1>3. /\ m \in Helper /\ m \notin Rx /\ Typed /\ Helper \subseteq Channel /\ m \in Machine
      /\ Helper = Rx \cup Tx
  BY Kinships DEF Dispatches, Helper
<1>4. io[m].fd # NULL
  <2>1. h \in S /\ h.dst = m /\ IsEvent(h) /\ Views(S)
    BY <1>1, <1>2, Received
  <2>2. TxView(m, S)
    BY <1>3, <2>1, ViewsMean DEF HelperInStep
  <2>. QED
    BY <2>1, <2>2 DEF TxView
<1>5. /\ d \in Worker /\ Helped(d, S) /\ OnlyHelp(d, m) /\ wi[d].ci = c /\ c \in Client
      /\ net[c].conn \in {"open", "closed"} /\ net[c] \in Connection /\ wi[d] \in Info
      /\ net[c].echoed \in Seq(Chunk) /\ Len(net[c].echoed) \in Nat /\ net[c].nread \in Nat
  BY <1>1, <1>3, <1>4, HelperHolds
<1>6. PICK n \in 1 .. Len(left) :
           /\ net' = [net EXCEPT ![c].echoed = @ \o SubSeq(left, 1, n),
                                 ![c].full = n < Len(left)]
           /\ wi' = [wi EXCEPT ![d].unsent = AfterWrite(left, n)]
           /\ IF n < Len(left)
              THEN Puts(<< >>) /\ io' = io_enable(m, "POLLOUT")
              ELSE Puts(TxDoneMsgs(m, "M1")) /\ io' = io_detach(m)
  BY <1>1 DEF tx_work_D1
<1>7. left = wi[d].unsent /\ left \in Seq(Chunk) /\ Len(left) \in Nat
  BY <1>1, <1>5, LenProperties DEF unsent, Info
<1>8. /\ \A e \in Client \ {c} : net'[e] = net[e]
      /\ net'[c].nread = net[c].nread /\ net'[c].sent = net[c].sent
      /\ net'[c].echoed = net[c].echoed \o SubSeq(left, 1, n) /\ net'[c].conn = net[c].conn
  BY <1>3, <1>5, <1>6 DEF Typed, Connection
<1>9. /\ wi'[d].ci = c /\ \A v \in Worker \ {d} : wi'[v] = wi[v]
      /\ wi'[d].unsent = SubSeq(left, n + 1, Len(left))
  BY <1>3, <1>5, <1>6 DEF Typed, Info, AfterWrite
<1>10. PICK t : /\ Puts(t) /\ t \in Seq(Message)
                /\ \/ n < Len(left) /\ t = << >> /\ io' = io_enable(m, "POLLOUT")
                   \/ ~ (n < Len(left)) /\ t = TxDoneMsgs(m, "M1") /\ io' = io_detach(m)
  BY <1>1, <1>3, <1>5, <1>6, Put0, SaysDone
<1>11. \A x \in ToSet(t) :
         /\ ~ Unheard(x)
         /\ \A v \in Worker : Matters(x, v) => v = d /\ x = Msg(m, d, NULL, "M1") /\ ~ (n < Len(left))
  BY <1>1, <1>3, <1>5, <1>10, Put0, SaysDone
<1>12. \A p \in Helper \ {m} : io'[p].fd = io[p].fd
  <2>1. CASE io' = io_enable(m, "POLLOUT")
    BY <1>3, <2>1, ChannelEnabled DEF Typed
  <2>2. CASE io' = io_detach(m)
    BY <1>3, <2>2, ChannelDetached DEF Typed
  <2>. QED
    BY <1>10, <2>1, <2>2
<1>13. ASSUME NEW U, Handing(q, T, ToSet(t), U), Carries(d, T)
       PROVE  Carries(d, U)' /\ EchoedInOrder'
  <2>1. T \in {S, {}} /\ U \subseteq After(T, h, ToSet(t)) /\ EchoedInOrder
    BY <1>1, <1>13 DEF Handing
  <2>2. Line(c, left)
    BY <1>1, <1>2, <1>3, <1>4, <1>5, <1>7, <1>13, CarriesForHelper DEF Helps
  <2>3. /\ Len(net[c].echoed) <= net[c].nread
        /\ net[c].echoed = Chunks(c, 0, Len(net[c].echoed))
    BY <1>5, <2>1 DEF EchoedInOrder
  <2>4. PICK a, i : a = Len(net[c].echoed) /\ i = net[c].nread - a
    OBVIOUS
  <2>5. a \in Nat /\ i \in Nat /\ net[c].nread = a + i
    BY <1>5, <2>3, <2>4
  <2>6. left = Chunks(c, a, i) /\ Len(left) = i /\ n \in 1 .. i
    <3>1. left = Chunks(c, a, i)
      BY <2>2, <2>4 DEF Line, Owed
    <3>2. Len(Chunks(c, a, i)) = i
      BY <2>5, MoreChunks
    <3>. QED
      BY <1>6, <3>1, <3>2
  <2>7. /\ SubSeq(left, 1, n) = Chunks(c, a, n)
        /\ SubSeq(left, n + 1, Len(left)) = Chunks(c, a + n, i - n)
    <3>1. /\ SubSeq(Chunks(c, a, i), 1, n) = Chunks(c, a, n)
          /\ SubSeq(Chunks(c, a, i), n + 1, i) = Chunks(c, a + n, i - n)
      BY <2>5, <2>6, SomeChunks
    <3>. QED
      BY <2>6, <3>1
  <2>8. /\ net'[c].echoed = Chunks(c, 0, a + n) /\ Len(net'[c].echoed) = a + n
    <3>1. net[c].echoed = Chunks(c, 0, a)
      BY <2>3, <2>4
    <3>2. net'[c].echoed = Chunks(c, 0, a) \o Chunks(c, a, n)
      BY <1>8, <2>7, <3>1
    <3>3. 0 \in Nat /\ n \in Nat /\ 0 + a = a /\ a + n \in Nat
      BY <2>5, <2>6
    <3>6. PICK z : z = 0
      OBVIOUS
    <3>7. a \in Nat /\ z \in Nat /\ n \in Nat
      BY <2>5, <3>3, <3>6
    <3>8. Chunks(c, z, a) \o Chunks(c, z + a, n) = Chunks(c, z, a + n)
      BY ONLY <3>7, MoreChunks, ZenonT(40)
    <3>4. Chunks(c, 0, a) \o Chunks(c, 0 + a, n) = Chunks(c, 0, a + n)
      BY <3>6, <3>8
    <3>5. Len(Chunks(c, 0, a + n)) = a + n
      BY <3>3, MoreChunks
    <3>. QED
      BY <3>2, <3>3, <3>4, <3>5
  <2>9. net'[c].nread - (a + n) = i - n /\ (net'[c].nread = a + n <=> i = n) /\ a + n <= net'[c].nread
    BY <1>8, <2>5, <2>6
  <2>10. Owed(c)' = wi'[d].unsent
    BY <1>9, <2>7, <2>8, <2>9 DEF Owed
  <2>11. SaidLine(c)'
    BY <1>8, <2>2 DEF Line, SaidLine
  <2>12. Helps(m, d)'
    BY <1>2, <1>3, <1>9, <2>10, <2>11 DEF Helps, Line
  <2>13. ~ (n < Len(left)) => HelpedBy(m, d)'
    BY <1>3, <1>9, <2>6, <2>8, <2>9 DEF HelpedBy, Settled
  <2>14. ASSUME NEW x \in U, Matters(x, d)
         PROVE  x = Msg(m, d, NULL, "M1") /\ HelpedBy(m, d)'
    <3>1. PICK N : N = ToSet(t)
      OBVIOUS
    <3>2. U \subseteq After(T, h, N) /\ NoCall(d, S) /\ NoAsk(d, S)
      BY <1>5, <2>1, <3>1 DEF Helped
    <3>3. x \in N
      BY <1>5, <2>1, <2>14, <3>2, NobodyCalls
    <3>. QED
      BY <1>5, <1>11, <2>13, <2>14, <3>1, <3>3
  <2>15. \A p \in Helper : job'[p] = d /\ io'[p].fd # NULL => p = m /\ Helps(m, d)'
    BY <1>2, <1>5, <1>12, <2>12 DEF OnlyHelp
  <2>16. Carries(d, U)'
    BY <1>3, <1>5, <2>14, <2>15, CarriesHelped
  <2>17. EchoedInOrder'
    BY <1>5, <1>8, <2>1, <2>8, <2>9, ZenonT(40) DEF EchoedInOrder
  <2>. QED
    BY <2>16, <2>17
<1>14. \A U : Handing(q, T, ToSet(t), U) /\ Carries(d, T) => Carries(d, U)' /\ EchoedInOrder'
  BY <1>13
<1>15. \A e \in Client \ {wi[d].ci} : DataKept(e)
  BY <1>5, <1>8 DEF DataKept, SaidLine
<1>16. \A x \in ToSet(t) : ~ Unheard(x) /\ \A v \in Worker \ {d} : ~ Matters(x, v)
  BY <1>11
<1>17. \A p \in Helper \ {m} : io'[p].fd = io[p].fd /\ job'[p] = job[p] /\ state'[p] = state[p]
  BY <1>2, <1>12
<1>18. /\ io'[m].fd # NULL => job'[m] = d
       /\ \A w \in Worker : state'[w] = state[w]
  BY <1>1, <1>2
<1>. QED
  BY <1>3, <1>5, <1>9, <1>10, <1>14, <1>15, <1>16, <1>17, <1>18, HelperPasses, ZenonT(40)

LEMMA RxHandsOver ==
  ASSUME NEW q, Dispatches(q), NEW T, RxExec
  PROVE  HandsOver(q, T) \/ Stops
<1>1. PICK m \in Rx :
        \/ rx_init_M0(m) \/ rx_idle_M1(m) \/ rx_idle_M0(m)
        \/ rx_work_D0(m) \/ rx_work_D0_fails(m)
        \/ rx_work_D2(m) \/ rx_work_T0(m) \/ rx_work_M0(m)
  BY DEF RxExec
<1>2. CASE rx_idle_M1(m)
  <2>1. CASE Attached(wi[Head(queue).src].fd)
    BY <1>2, <2>1 DEF rx_idle_M1, Exit, Stops
  <2>2. CASE ~ Attached(wi[Head(queue).src].fd)
    <3>1. PICK w : w = Head(queue).src
      OBVIOUS
    <3>2. /\ Receive(m, "idle", "M1") /\ Puts(<<Self(m, "M0")>>)
          /\ job' = [job EXCEPT ![m] = w] /\ io' = io_attach(m, wi[w].fd)
          /\ wi' = [wi EXCEPT ![w][wi[w].buf] = << >>] /\ state' = state /\ net' = net
      BY <1>2, <2>2, <3>1 DEF rx_idle_M1, worldVars
    <3>3. m \in Helper
      BY Kinships
    <3>. QED
      BY <3>1, <3>2, <3>3, HelperIsAsked
  <2>. QED
    BY <2>1, <2>2
<1>3. CASE rx_work_D0(m) /\ flags[m] = {}
  BY <1>3, RxReads
<1>. QED
  BY <1>1, <1>2, <1>3, RxHandsNothing

LEMMA TxHandsOver ==
  ASSUME NEW q, Dispatches(q), NEW T, TxExec
  PROVE  HandsOver(q, T) \/ Stops
<1>1. PICK m \in Tx :
        \/ tx_init_M0(m) \/ tx_idle_M1(m) \/ tx_idle_M0(m)
        \/ tx_work_D1(m) \/ tx_work_D1_fails(m) \/ tx_work_D1_breaks(m)
        \/ tx_work_D2(m) \/ tx_work_M0(m)
  BY DEF TxExec
<1>2. CASE tx_idle_M1(m)
  <2>1. CASE Attached(wi[Head(queue).src].fd)
    BY <1>2, <2>1 DEF tx_idle_M1, Exit, Stops
  <2>2. CASE ~ Attached(wi[Head(queue).src].fd)
    <3>1. PICK w : w = Head(queue).src
      OBVIOUS
    <3>2. /\ Receive(m, "idle", "M1") /\ Puts(<<Self(m, "M0")>>)
          /\ job' = [job EXCEPT ![m] = w] /\ io' = io_attach(m, wi[w].fd)
          /\ wi' = wi /\ state' = state /\ net' = net
      BY <1>2, <2>2, <3>1 DEF tx_idle_M1, worldVars
    <3>3. m \in Helper
      BY Kinships
    <3>. QED
      BY <3>1, <3>2, <3>3, HelperIsAsked
  <2>. QED
    BY <2>1, <2>2
<1>3. CASE tx_work_D1_breaks(m)
  BY <1>3 DEF tx_work_D1_breaks, Exit, Stops
<1>. QED
  BY <1>1, <1>2, <1>3, TxTakesOver, TxWrites, TxHandsNothing

(* Every handler hands its data over, or ends the program. *)
LEMMA ExecHandsOver ==
  ASSUME NEW q, Dispatches(q), NEW T, Exec
  PROVE  HandsOver(q, T) \/ Stops
BY RxHandsOver, TxHandsOver, WorkerHandsOver, ManagerHandsOver, ListenerHandsOver,
   PoolmanHandsOver DEF Exec

-----------------------------------------------------------------------------
(* The data, over a whole step. *)

LEMMA InStepOnce ==
  ASSUME InStep(queue)
  PROVE  ~ DoneTwice
<1>. SUFFICES ASSUME NEW m \in Rx, NEW k \in Pending(m),
                     queue[k] = Self(m, "M0"),
                     \/ state[m] = "idle" /\ io[m].fd = NULL
                     \/ state[m] = "work" /\ \E j \in Pending(m) : j # k /\ queue[j] = queue[k]
              PROVE  FALSE
  BY DEF DoneTwice
<1>1. PICK S : S = ToSet(queue)
  OBVIOUS
<1>2. m \in Helper /\ m \in Machine /\ NULL \notin Machine
  BY Kinships
<1>3. Self(m, "M0") \in S /\ ~ IsEvent(Self(m, "M0")) /\ Self(m, "M0").dst = m
  BY <1>1, <1>2, SelfFields DEF Pending, ToSet, IsEvent
<1>4. CASE state[m] = "idle" /\ io[m].fd = NULL
  <2>1. HelperView(m, S)
    BY <1>1, <1>2 DEF InStep, Views
  <2>2. ~ NoCall(m, S)
    BY <1>3 DEF NoCall
  <2>3. \A w \in Worker : ~ OnlyCall(m, Msg(w, m, w, "M1"), S)
    BY <1>2, <1>3, MsgFields, SelfFields DEF OnlyCall
  <2>. QED
    BY <1>4, <2>1, <2>2, <2>3 DEF HelperView
<1>5. CASE state[m] = "work" /\ \E j \in Pending(m) : j # k /\ queue[j] = queue[k]
  <2>1. PICK j \in Pending(m) : j # k /\ queue[j] = queue[k]
    BY <1>5
  <2>. QED
    BY <2>1 DEF InStep, IsInjective, Pending
<1>. QED
  BY <1>4, <1>5

(* A step that changes no data. *)
LEMMA DataSame ==
  ASSUME DataInv, Stops
  PROVE  DataInv'
<1>1. UNCHANGED <<queue, state, io, timer, pool, job, flags, wi, sig, net>>
  BY DEF Stops, machineVars, worldVars
<1>2. PICK o : o = queue
  OBVIOUS
<1>3. DoneTwice' = DoneTwice
  BY <1>1 DEF DoneTwice, Pending
<1>4. EchoedInOrder'
  BY <1>1, SameData, EchoStays DEF DataInv
<1>5. PICK S : S = IF DoneTwice THEN {} ELSE ToSet(o)
  OBVIOUS
<1>6. InHands(S)
  BY <1>2, <1>5 DEF DataInv
<1>7. InHands(S)'
  BY <1>1, <1>6 DEF InHands, Carries, NothingRead, Line, Owed, Settled, SaidLine, Unheard
<1>8. S = IF DoneTwice' THEN {} ELSE ToSet(queue')
  BY <1>1, <1>2, <1>3, <1>5
<1>. QED
  BY <1>4, <1>7, <1>8 DEF DataInv, InHands, NothingRead, Carries

LEMMA ExitStops ==
  ASSUME NEW why, Exit(why)
  PROVE  Stops
BY DEF Exit, Stops

LEMMA TwiceAlways == \A q : \A m \in Rx : AnsweredAgain(m, q) => DoneTwice
BY TwiceAnswered

LEMMA TwiceNext == \A q : \A m \in Rx : AnsweredAgain(m, q)' => DoneTwice'
<1>1. (\A q : \A m \in Rx : AnsweredAgain(m, q) => DoneTwice)'
  BY TwiceAlways, PTL
<1>. QED
  BY <1>1

(* What is pending is in the hands that the set U is in. *)
LEMMA InHandsOf ==
  ASSUME NEW U, U = (IF DoneTwice THEN {} ELSE ToSet(queue))', EchoedInOrder', InHands(U)'
  PROVE  DataInv'
BY DEF DataInv, InHands, NothingRead, Carries

LEMMA RestOfQueue ==
  ASSUME NEW q \in Seq(Message), q # << >>, IsInjective(q), NEW t \in Seq(Message)
  PROVE  ToSet(Tail(q) \o t) \subseteq After(ToSet(q), Head(q), ToSet(t))
<1>1. PICK r, S : r = Tail(q) /\ S = ToSet(q)
  OBVIOUS
<1>2. r \in Seq(Message)
  BY <1>1, HeadTailProperties
<1>3. \A x \in ToSet(<< >>) : x \notin S \/ x = Head(q)
  BY Put0
<1>4. ToSet(r \o << >>) = (S \ {Head(q)}) \cup ToSet(<< >>)
  BY <1>1, <1>3, Put0, Dispatched
<1>5. ToSet(r) = S \ {Head(q)}
  <2>1. r \o << >> = r
    BY <1>2, ConcatEmptySeq
  <2>. QED
    BY <1>4, <2>1, Put0
<1>6. PICK s : s = r \o t
  OBVIOUS
<1>7. ToSet(s) = ToSet(r) \cup ToSet(t)
  BY <1>2, <1>6, JoinedSet
<1>. QED
  BY <1>1, <1>5, <1>6, <1>7 DEF After

LEMMA NothingInHands ==
  ASSUME EchoedInOrder, InHands({}), UNCHANGED <<state, io, job, wi, net>>
  PROVE  EchoedInOrder' /\ InHands({})'
<1>1. EchoKept /\ EchoedInOrder'
  BY SameData, EchoStays
<1>2. PICK S, d : S = {} /\ d = NULL
  OBVIOUS
<1>3. InHands(S) /\ d \notin Worker
  BY <1>2, Kinships
<1>4. ASSUME NEW w \in Worker
      PROVE  HandsKept(w, S, S)
  BY DEF HandsKept, HelpKept, DataKept, SaidLine
<1>5. InHands(S)'
  BY <1>2, <1>3, <1>4, HandsAside
<1>. QED
  BY <1>1, <1>2, <1>5

(* The second answer itself is taken. *)
LEMMA AnswerTakenKeepsData ==
  ASSUME Exec, Typed, EchoedInOrder, InHands({}), NEW m \in Rx, NEW w \in Worker,
         AnswerBehind(m, w, << >>), AnswerIn(m, w, queue)
  PROVE  DataInv'
<1>1. worker_M2(w)
  BY AnswerIsTaken
<1>2. PICK t : t = GiveUpMsgs(w)
  OBVIOUS
<1>3. queue' = Tail(queue) \o t /\ UNCHANGED <<state, io, job, wi, net>>
  BY <1>1, <1>2 DEF worker_M2, Puts, machineVars, worldVars
<1>4. EchoedInOrder' /\ InHands({})'
  BY <1>3, NothingInHands
<1>5. PICK o, r, s : o = queue /\ r = Tail(o) /\ s = r \o t
  OBVIOUS
<1>6. t \in Seq(Message)
  <2>1. wi[w].ci \in Client \cup {NULL}
    BY DEF Typed, Info
  <2>. QED
    BY <1>2, <2>1, MsgType, Kinships DEF GiveUpMsgs, Self, Code0
<1>7. o \in Seq(Message) /\ Len(o) >= 2 /\ o[2] = Self(m, "M0")
  BY <1>5 DEF AnswerIn
<1>8. r \in Seq(Message) /\ Len(r) = Len(o) - 1 /\ Len(o) \in Nat /\ r[1] = o[2]
  BY <1>5, <1>7
<1>9. s \in Seq(Message) /\ 1 \in DOMAIN s /\ s[1] = Self(m, "M0")
  <2>1. /\ s \in Seq(Message) /\ 1 \in 1 .. Len(r)
        /\ \A i \in 1 .. Len(r) : i \in 1 .. Len(s) /\ s[i] = r[i]
    BY <1>5, <1>6, <1>7, <1>8, JoinedAt
  <2>. QED
    BY <1>7, <1>8, <2>1
<1>10. state[m] = "idle" /\ io[m].fd = NULL
  BY Put0 DEF AnswerBehind
<1>11. DoneTwice'
  <2>1. queue' = s
    BY <1>3, <1>5
  <2>2. 1 \in Pending(m)'
    BY <1>9, <2>1, SelfFields DEF Pending
  <2>3. state'[m] = "idle" /\ io'[m].fd = NULL /\ queue'[1] = Self(m, "M0")
    BY <1>3, <1>9, <1>10, <2>1
  <2>. QED
    BY <2>2, <2>3 DEF DoneTwice
<1>. QED
  BY <1>4, <1>11 DEF DataInv

(* The queue without the second answer is in step. *)
LEMMA RuinKeepsData ==
  ASSUME ServerInv, PoolInv, Exec, EchoedInOrder, InHands({}),
         NEW q \in Seq(Message), InStep(q), NEW m \in Rx, AnsweredAgain(m, q)
  PROVE  DataInv' \/ Stops
<1>1. Typed /\ PoolShape /\ StaysInStep /\ queue # << >>
  BY WhoHandles DEF ServerInv
<1>2. PICK w \in Worker, live \in Seq(Message), after \in Seq(Message), more \in Seq(Message) :
        /\ q = live \o after /\ queue = live \o more
        /\ AnswerBehind(m, w, live) /\ AnswerIn(m, w, more)
  BY AnswerKnown
<1>3. CASE live = << >>
  <2>1. queue = more
    BY <1>2, <1>3, ConcatEmptySeq
  <2>2. AnswerBehind(m, w, << >>) /\ AnswerIn(m, w, queue)
    BY <1>2, <1>3, <2>1
  <2>. QED
    BY <1>1, <2>2, AnswerTakenKeepsData
<1>4. CASE live # << >>
  <2>1. PICK o : o = queue
    OBVIOUS
  <2>2. Head(q) = Head(live) /\ q # << >> /\ Head(o) = Head(live)
    BY <1>2, <1>4, <2>1, JoinedTail
  <2>3. Dispatches(q)
    BY <1>1, <2>1, <2>2 DEF Dispatches
  <2>4. CASE Exit("no machine to delete") \/ Exit("broken pipe")
    BY <2>4, ExitStops
  <2>5. CASE Advance(q)
    <3>1. PICK t, u : Put(q, t, u)
      BY <2>5 DEF Advance, Put
    <3>2. /\ Moves(Head(q)) /\ EventsFirst(queue)
          /\ \A x \in ToSet(queue) : Shape(x)
      BY <1>1, <2>5 DEF Advance, StaysInStep
    <3>3. AnsweredAgain(m, Tail(q) \o t)'
      BY <1>2, <1>4, <2>3, <3>1, <3>2, AnswerComes
    <3>4. PICK r : r = Tail(q) \o t
      OBVIOUS
    <3>5. AnsweredAgain(m, r)'
      BY <3>3, <3>4
    <3>6. DoneTwice'
      BY <3>5, TwiceNext
    <3>7. Early(Head(q))
      <4>1. Head(live) \in ToSet(live)
        BY <1>4, Basics
      <4>. QED
        BY <1>2, <2>2, <4>1 DEF AnswerBehind
    <3>8. PICK T : T = {}
      OBVIOUS
    <3>9. HandsOver(q, T) \/ Stops
      BY <2>3, ExecHandsOver
    <3>10. CASE HandsOver(q, T)
      <4>1. PICK p \in Seq(Message) :
              \A U : Handing(q, T, ToSet(p), U) => EchoedInOrder' /\ InHands(U)'
        BY <3>10 DEF HandsOver
      <4>2. Handing(q, T, ToSet(p), T)
        BY <2>3, <3>7, <3>8 DEF Handing
      <4>3. EchoedInOrder' /\ InHands(T)'
        BY <4>1, <4>2
      <4>. QED
        BY <3>6, <3>8, <4>3 DEF DataInv
    <3>. QED
      BY <3>9, <3>10
  <2>. QED
    BY <2>3, <2>4, <2>5, ExecAdvances
<1>. QED
  BY <1>3, <1>4

LEMMA ExecKeepsData ==
  ASSUME ServerInv, PoolInv, DataInv, Exec
  PROVE  DataInv'
<1>1. Typed /\ PoolShape /\ StaysInStep /\ queue \in Seq(Message) /\ queue # << >>
  BY WhoHandles DEF ServerInv, Typed
<1>2. CASE ~ DoneTwice
  <2>1. PICK q : q = queue
    OBVIOUS
  <2>2. InStep(q)
    BY <1>2, <2>1, UsuallyInStep
  <2>3. Dispatches(q)
    BY <1>1, <2>1, <2>2 DEF Dispatches
  <2>4. PICK T : T = ToSet(q)
    OBVIOUS
  <2>5. EchoedInOrder /\ InHands(T)
    BY <1>2, <2>1, <2>4 DEF DataInv
  <2>6. CASE HandsOver(q, T)
    <3>1. PICK t \in Seq(Message) :
            /\ queue' = Tail(queue) \o t
            /\ \A U : Handing(q, T, ToSet(t), U) => EchoedInOrder' /\ InHands(U)'
      BY <2>6 DEF HandsOver
    <3>2. PICK U : U = (IF DoneTwice THEN {} ELSE ToSet(queue))'
      OBVIOUS
    <3>3. U \subseteq After(T, Head(q), ToSet(t))
      <4>1. U \subseteq ToSet(queue')
        BY <3>2
      <4>2. ToSet(queue') \subseteq After(T, Head(q), ToSet(t))
        BY <1>1, <2>1, <2>2, <2>4, <3>1, RestOfQueue DEF InStep
      <4>. QED
        BY <4>1, <4>2
    <3>4. Handing(q, T, ToSet(t), U)
      BY <2>3, <2>4, <2>5, <3>3 DEF Handing
    <3>5. EchoedInOrder' /\ InHands(U)'
      BY <3>1, <3>4
    <3>. QED
      BY <3>2, <3>5, InHandsOf
  <2>. QED
    BY <2>3, <2>6, ExecHandsOver, DataSame
<1>3. CASE DoneTwice
  <2>1. EchoedInOrder /\ InHands({})
    BY <1>3 DEF DataInv
  <2>2. PICK q \in Seq(Message) : InStep(q) /\ (q = queue \/ Ruined(q))
    BY <1>1 DEF StaysInStep
  <2>3. Ruined(q)
    BY <1>3, <2>2, InStepOnce
  <2>4. PICK m \in Rx : AnsweredAgain(m, q) \/ AtTheEnd(m)
    BY <2>3 DEF Ruined
  <2>5. CASE AnsweredAgain(m, q)
    BY <2>1, <2>2, <2>5, RuinKeepsData, DataSame
  <2>6. CASE AtTheEnd(m)
    BY <2>6, EndsHere, ExitStops, DataSame
  <2>. QED
    BY <2>4, <2>5, <2>6
<1>. QED
  BY <1>2, <1>3

-----------------------------------------------------------------------------
(* The data, while nothing is handled. *)

LEMMA HandsStay ==
  ASSUME Typed, EchoKept, EchoedInOrder, NEW S, InHands(S), UNCHANGED <<state, job, wi>>,
         \A n \in Helper : io'[n].fd = io[n].fd,
         NEW U, \A x \in U : x \in S \/ (x.src = NULL /\ x.ptr = NULL)
  PROVE  EchoedInOrder' /\ InHands(U)'
<1>1. EchoedInOrder'
  BY EchoStays
<1>2. PICK d : d = NULL
  OBVIOUS
<1>3. d \notin Worker /\ NULL \notin Worker /\ NULL \notin Client /\ NULL \notin Helper
  BY <1>2, Kinships
<1>4. ASSUME NEW w \in Worker
      PROVE  HandsKept(w, S, U)
  <2>1. wi'[w] = wi[w] /\ wi[w].ci \in Client \cup {NULL} /\ state'[w] = state[w]
    BY DEF Typed, Info
  <2>2. \A n \in Helper : HelpKept(n, w)
    BY DEF HelpKept
  <2>3. ASSUME NEW x \in U, Matters(x, w)
        PROVE  x \in S
    <3>1. x.src # NULL
      BY <1>3, <2>3, SelfFields DEF Matters
    <3>. QED
      BY <3>1
  <2>4. wi[w].ci # NULL => DataKept(wi[w].ci)
    BY <2>1 DEF EchoKept
  <2>. QED
    BY <2>1, <2>2, <2>3, <2>4 DEF HandsKept
<1>5. ASSUME NEW x \in U, Unheard(x)
      PROVE  x \in S /\ net'[x.ptr].nread = net[x.ptr].nread
  BY <1>3, <1>5 DEF Unheard, EchoKept, DataKept
<1>6. InHands(U)'
  BY <1>3, <1>4, <1>5, HandsAside
<1>. QED
  BY <1>1, <1>6

LEMMA WaitKeepsData ==
  ASSUME ServerInv, DataInv, Wait
  PROVE  DataInv'
<1>1. Typed /\ Views({}) /\ queue = << >> /\ UNCHANGED <<state, job, wi, net>>
  BY EmptyInStep DEF ServerInv, Wait, worldVars
<1>2. Ready \subseteq Message /\ BatchSize(Ready) \in Nat
  BY <1>1, ReadyIsFinite
<1>3. PICK n, R, s : n = BatchSize(Ready) /\ R = Ready /\ s = queue'
  OBVIOUS
<1>4. s \in [1 .. n -> R] /\ R \subseteq Message /\ n \in Nat
  BY <1>2, <1>3 DEF Wait
<1>5. \A x \in ToSet(s) : x \in R
  BY <1>4 DEF ToSet
<1>6. ASSUME NEW x \in R
      PROVE  x.src = NULL /\ x.ptr = NULL
  BY <1>1, <1>3, <1>6, CalmEvents DEF EventShape
<1>7. \A p \in Helper : io'[p].fd = io[p].fd
  <2>1. Helper \subseteq Channel /\ io \in [Channel -> IoChannel]
    BY <1>1, Kinships DEF Typed
  <2>2. PICK D : io' = [m \in Channel |-> IF m \in D THEN [io[m] EXCEPT !.watch = "none"] ELSE io[m]]
    BY DEF Wait
  <2>3. \A p \in Channel : [io[p] EXCEPT !.watch = "none"].fd = io[p].fd
    BY <2>1 DEF IoChannel
  <2>. QED
    BY <2>1, <2>2, <2>3
<1>8. EchoKept
  BY <1>1, SameData
<1>9. PICK S : S = {}
  OBVIOUS
<1>10. EchoedInOrder /\ InHands(S)
  <2>1. PICK o : o = queue
    OBVIOUS
  <2>2. ToSet(o) = {}
    BY <1>1, <2>1, Put0
  <2>. QED
    BY <1>9, <2>1, <2>2 DEF DataInv
<1>11. PICK U : U = (IF DoneTwice THEN {} ELSE ToSet(queue))'
  OBVIOUS
<1>12. \A x \in U : x.src = NULL /\ x.ptr = NULL
  <2>1. U \subseteq ToSet(s)
    BY <1>3, <1>11
  <2>. QED
    BY <1>5, <1>6, <2>1
<1>13. EchoedInOrder' /\ InHands(U)'
  BY <1>1, <1>7, <1>8, <1>10, <1>12, HandsStay
<1>. QED
  BY <1>11, <1>13, InHandsOf

LEMMA WorldKeepsEcho ==
  ASSUME Typed, World
  PROVE  EchoKept
<1>1. net \in [Client -> Connection]
  BY DEF Typed
<1>2. ASSUME NEW c \in Client, Connect(c)
      PROVE  EchoKept
  <2>1. net' = [net EXCEPT ![c].conn = "backlog"] /\ net[c].conn = "new"
    BY <1>2 DEF Connect
  <2>. QED
    BY <1>1, <2>1 DEF Connection, EchoKept, DataKept, SaidLine
<1>3. ASSUME NEW c \in Client, NEW eol \in BOOLEAN, PeerSends(c, eol)
      PROVE  EchoKept
  <2>1. net' = [net EXCEPT ![c].sent = Append(@, eol)]
    BY <1>3 DEF PeerSends
  <2>2. net[c] \in Connection /\ net[c].sent \in Seq(BOOLEAN)
    BY <1>1 DEF Connection
  <2>3. /\ \A e \in Client \ {c} : net'[e] = net[e]
        /\ net'[c].nread = net[c].nread /\ net'[c].echoed = net[c].echoed
        /\ net'[c].conn = net[c].conn /\ net'[c].sent = Append(net[c].sent, eol)
    BY <1>1, <2>1, <2>2 DEF Connection
  <2>4. PICK s, a : s = net[c].sent /\ a = Append(s, eol)
    OBVIOUS
  <2>5. \A k \in DOMAIN s : k \in DOMAIN a /\ a[k] = s[k]
    BY <2>2, <2>4
  <2>6. SaidLine(c) => SaidLine(c)'
    BY <2>3, <2>4, <2>5 DEF SaidLine
  <2>. QED
    BY <2>3, <2>6 DEF EchoKept, DataKept, SaidLine
<1>4. ASSUME NEW c \in Client, NEW how \in {"fin", "rst"}, PeerLeaves(c, how)
      PROVE  EchoKept
  <2>1. net' = [net EXCEPT ![c].peer = how]
    BY <1>4 DEF PeerLeaves
  <2>. QED
    BY <1>1, <2>1 DEF Connection, EchoKept, DataKept, SaidLine
<1>5. ASSUME NEW c \in Client, PeerReads(c)
      PROVE  EchoKept
  <2>1. net' = [net EXCEPT ![c].full = FALSE]
    BY <1>5 DEF PeerReads
  <2>. QED
    BY <1>1, <2>1 DEF Connection, EchoKept, DataKept, SaidLine
<1>6. (\E m \in Timed : TimerExpires(m)) \/ (\E s \in Signals : SignalComes(s)) => net' = net
  BY DEF TimerExpires, SignalComes, worldVars
<1>. QED
  BY <1>2, <1>3, <1>4, <1>5, <1>6, SameData DEF World

LEMMA WorldKeepsData ==
  ASSUME ServerInv, DataInv, World
  PROVE  DataInv'
<1>1. Typed /\ UNCHANGED <<queue, state, io, job, wi>>
  BY WorldTyped DEF ServerInv
<1>2. EchoKept
  BY <1>1, WorldKeepsEcho
<1>3. PICK S : S = IF DoneTwice THEN {} ELSE ToSet(queue)
  OBVIOUS
<1>4. EchoedInOrder' /\ InHands(S)'
  BY <1>1, <1>2, <1>3, HandsStay DEF DataInv
<1>5. DoneTwice' = DoneTwice
  BY <1>1 DEF DoneTwice, Pending
<1>6. S = (IF DoneTwice THEN {} ELSE ToSet(queue))'
  BY <1>1, <1>3, <1>5
<1>. QED
  BY <1>4, <1>6, InHandsOf

LEMMA InitData ==
  ASSUME Init
  PROVE  DataInv
<1>1. /\ \A w \in Worker : wi[w].ci = NULL
      /\ \A c \in Client : net[c].nread = 0 /\ net[c].echoed = << >>
  BY DEF Init, IdleInfo
<1>2. EchoedInOrder
  <2>1. \A c \in Client : Chunks(c, 0, 0) = << >> /\ Len(<< >>) = 0
    BY DEF Chunks
  <2>. QED
    BY <1>1, <2>1 DEF EchoedInOrder
<1>3. \A S : InHands(S)
  BY <1>1 DEF InHands, NothingRead, Unheard
<1>. QED
  BY <1>2, <1>3 DEF DataInv

(* A chunk that was read and not yet echoed is in the hands of one worker.  *)
LEMMA DataStays == Spec => []DataInv
<1>1. Init => DataInv
  BY InitData
<1>2. ServerInv /\ PoolInv /\ DataInv /\ [Next]_vars => DataInv'
  <2>1. CASE UNCHANGED vars
    BY <2>1, DataSame DEF vars, Stops, machineVars, worldVars
  <2>. QED
    BY <2>1, ExecKeepsData, WaitKeepsData, WorldKeepsData DEF Next, Ended
<1>. QED
  BY <1>1, <1>2, PoolsSound, MachinesStayInStep, PTL DEF Spec

-----------------------------------------------------------------------------
(* The service.  What a step of the server is to the clients. *)

SameConn(c) == net'[c].conn = net[c].conn
SameSent(c) == net'[c].sent = net[c].sent
SameEcho(c) == net'[c].echoed = net[c].echoed

ServiceStep == [Service!Next]_(Service!vars)

LEMMA NothingServed ==
  ASSUME \A c \in Client : SameConn(c) /\ SameSent(c) /\ SameEcho(c)
  PROVE  ServiceStep
BY DEF ServiceStep, Service!vars, SameConn, SameSent, SameEcho

LEMMA NetServed ==
  ASSUME net' = net
  PROVE  ServiceStep
BY NothingServed DEF SameConn, SameSent, SameEcho

LEMMA ConnectionMoves ==
  ASSUME NEW c \in Client, NEW from, NEW to, net[c].conn = from, net'[c].conn = to,
         <<from, to>> \in {<<"new", "backlog">>, <<"backlog", "open">>, <<"open", "closed">>},
         \A e \in Client \ {c} : SameConn(e),
         \A e \in Client : SameSent(e) /\ SameEcho(e)
  PROVE  ServiceStep
<1>1. Service!Moves(c, from, to)
  BY DEF Service!Moves, SameConn, SameSent, SameEcho
<1>2. Service!Connect(c) \/ Service!Accept(c) \/ Service!SeeOff(c)
  BY <1>1 DEF Service!Connect, Service!Accept, Service!SeeOff
<1>. QED
  BY <1>2 DEF ServiceStep, Service!Next

LEMMA ChunkIsSent ==
  ASSUME NEW c \in Client, NEW eol \in BOOLEAN, net[c].conn \in {"backlog", "open"},
         net'[c].sent = Append(net[c].sent, eol),
         \A e \in Client \ {c} : SameSent(e),
         \A e \in Client : SameConn(e) /\ SameEcho(e)
  PROVE  ServiceStep
<1>1. Service!Say(c, eol)
  BY DEF Service!Say, SameConn, SameSent, SameEcho
<1>. QED
  BY <1>1 DEF ServiceStep, Service!Next

LEMMA ChunksAreEchoed ==
  ASSUME NEW c \in Client, net[c].conn = "open", SaidLine(c),
         NEW n, n \in 1 .. Len(net[c].sent) - Len(net[c].echoed),
         Len(net[c].echoed) \in Nat, net[c].sent \in Seq(BOOLEAN),
         net'[c].echoed = net[c].echoed \o Chunks(c, Len(net[c].echoed), n),
         \A e \in Client \ {c} : SameEcho(e),
         \A e \in Client : SameConn(e) /\ SameSent(e)
  PROVE  ServiceStep
<1>1. \E k \in 1 .. Len(net[c].sent) : net[c].sent[k]
  BY DEF SaidLine
<1>2. n \in 1 .. Len(net[c].sent)
  BY LenProperties
<1>3. Service!NextChunks(c, n) = Chunks(c, Len(net[c].echoed), n)
  BY DEF Service!NextChunks, Chunks
<1>4. Service!Echo(c, n)
  BY <1>1, <1>3 DEF Service!Echo, SameConn, SameSent, SameEcho
<1>. QED
  BY <1>2, <1>4 DEF ServiceStep, Service!Next

LEMMA RxServes ==
  ASSUME Typed, RxExec
  PROVE  ServiceStep
<1>1. PICK m \in Rx :
        \/ rx_init_M0(m) \/ rx_idle_M1(m) \/ rx_idle_M0(m)
        \/ rx_work_D0(m) \/ rx_work_D0_fails(m)
        \/ rx_work_D2(m) \/ rx_work_T0(m) \/ rx_work_M0(m)
  BY DEF RxExec
<1>2. CASE ~ rx_work_D0(m)
  <2>1. net' = net
    BY <1>1, <1>2 DEF rx_init_M0, rx_idle_M1, rx_idle_M0, rx_work_D0_fails, rx_work_D2,
                      rx_work_T0, rx_work_M0, Exit, worldVars
  <2>. QED
    BY <2>1, NetServed
<1>3. CASE rx_work_D0(m)
  <2>1. PICK c : c = io[m].fd
    OBVIOUS
  <2>2. net' = net \/ \E n : net' = [net EXCEPT ![c].nread = @ + n]
    BY <1>3, <2>1 DEF rx_work_D0, ReadChunks
  <2>3. \A e \in Client : net[e] \in Connection
    BY DEF Typed
  <2>4. CASE net' = net
    BY <2>4, NetServed
  <2>5. CASE \E n : net' = [net EXCEPT ![c].nread = @ + n]
    BY <2>3, <2>5, NothingServed DEF Typed, Connection, SameConn, SameSent, SameEcho
  <2>. QED
    BY <2>2, <2>4, <2>5
<1>. QED
  BY <1>2, <1>3

LEMMA TxServes ==
  ASSUME NEW q, Dispatches(q), EchoedInOrder, NEW T, InHands(T), TxExec
  PROVE  ServiceStep
<1>1. PICK m \in Tx :
        \/ tx_init_M0(m) \/ tx_idle_M1(m) \/ tx_idle_M0(m)
        \/ tx_work_D1(m) \/ tx_work_D1_fails(m) \/ tx_work_D1_breaks(m)
        \/ tx_work_D2(m) \/ tx_work_M0(m)
  BY DEF TxExec
<1>2. CASE ~ tx_work_D1(m)
  <2>1. net' = net
    BY <1>1, <1>2 DEF tx_init_M0, tx_idle_M1, tx_idle_M0, tx_work_D1_fails,
                      tx_work_D1_breaks, tx_work_D2, tx_work_M0, Exit, worldVars
  <2>. QED
    BY <2>1, NetServed
<1>3. CASE tx_work_D1(m)
  <2>1. PICK h, S, d, c, left :
          h = Head(q) /\ S = ToSet(q) /\ d = job[m] /\ c = io[m].fd /\ left = unsent(m)
    OBVIOUS
  <2>2. Receive(m, "work", "D1") /\ state[m] = "work"
    BY <1>3 DEF tx_work_D1, Receive
  <2>3. m \in Helper /\ m \notin Rx /\ m \in Machine /\ Typed
    BY Kinships DEF Dispatches
  <2>4. h \in S /\ h.dst = m /\ IsEvent(h) /\ Views(S)
    BY <2>1, <2>2, <2>3, Received
  <2>5. io[m].fd # NULL
    <3>1. TxView(m, S)
      BY <2>3, <2>4, ViewsMean DEF HelperInStep
    <3>. QED
      BY <2>4, <3>1 DEF TxView
  <2>6. /\ d \in Worker /\ wi[d].ci = c /\ c \in Client /\ wi[d] \in Info
        /\ net[c] \in Connection /\ Len(net[c].echoed) \in Nat /\ net[c].nread \in Nat
        /\ net[c].sent \in Seq(BOOLEAN) /\ net[c].nread <= Len(net[c].sent)
    BY <2>1, <2>3, <2>5, HelperHolds
  <2>7. net[c].conn = "open"
    BY <2>1, <2>3, <2>4, <2>5, SocketsInStep, SMTT(30) DEF FdExclusive, Helper
  <2>8. PICK n \in 1 .. Len(left) :
          net' = [net EXCEPT ![c].echoed = @ \o SubSeq(left, 1, n),
                             ![c].full = n < Len(left)]
    BY <1>3, <2>1 DEF tx_work_D1
  <2>9. left = wi[d].unsent /\ left \in Seq(Chunk) /\ Len(left) \in Nat
    BY <2>1, <2>6, LenProperties DEF unsent, Info
  <2>10. /\ \A e \in Client \ {c} : net'[e] = net[e]
         /\ net'[c].sent = net[c].sent /\ net'[c].conn = net[c].conn
         /\ net'[c].echoed = net[c].echoed \o SubSeq(left, 1, n)
    BY <2>3, <2>6, <2>8 DEF Typed, Connection
  <2>11. Line(c, left)
    <3>1. wi[d].ci # NULL
      BY <2>6, Kinships
    <3>2. Carries(d, T)
      BY <2>6, <3>1 DEF InHands
    <3>3. Helps(m, d)
      BY <2>1, <2>3, <2>5, <2>6, <3>2, CarriesForHelper
    <3>. QED
      BY <2>2, <2>3, <2>6, <2>9, <3>3 DEF Helps
  <2>12. PICK a, i : a = Len(net[c].echoed) /\ i = net[c].nread - a
    OBVIOUS
  <2>13. a \in Nat /\ i \in Nat /\ net[c].nread = a + i
    <3>1. Len(net[c].echoed) <= net[c].nread
      BY <2>6 DEF EchoedInOrder
    <3>2. PICK b : b = net[c].nread
      OBVIOUS
    <3>3. a \in Nat /\ b \in Nat /\ a <= b
      BY ONLY <2>6, <2>12, <3>1, <3>2
    <3>4. i = b - a
      BY ONLY <2>12, <3>2
    <3>5. i \in Nat /\ b = a + i
      BY ONLY <3>3, <3>4
    <3>. QED
      BY <3>2, <3>3, <3>5
  <2>14. left = Chunks(c, a, i) /\ Len(left) = i
    <3>1. left = Chunks(c, a, i)
      BY <2>11, <2>12 DEF Line, Owed
    <3>. QED
      BY <2>13, <3>1, MoreChunks
  <2>15. SubSeq(left, 1, n) = Chunks(c, a, n)
    <3>1. a \in Nat /\ i \in Nat /\ n \in 1 .. i
      BY <2>13, <2>14
    <3>2. left = Chunks(c, a, i)
      BY <2>14
    <3>. QED
      BY ONLY <3>1, <3>2, SomeChunks
  <2>16. n \in 1 .. Len(net[c].sent) - a
    <3>1. Len(net[c].sent) \in Nat
      BY <2>6, LenProperties
    <3>. QED
      BY <2>6, <2>8, <2>13, <2>14, <3>1
  <2>17. net'[c].echoed = net[c].echoed \o Chunks(c, Len(net[c].echoed), n)
    BY <2>10, <2>12, <2>15
  <2>18. /\ \A e \in Client \ {c} : SameEcho(e)
         /\ \A e \in Client : SameConn(e) /\ SameSent(e)
    BY <2>10 DEF SameConn, SameSent, SameEcho
  <2>19. SaidLine(c)
    BY <2>11 DEF Line
  <2>. QED
    BY <2>6, <2>7, <2>12, <2>16, <2>17, <2>18, <2>19, ChunksAreEchoed
<1>. QED
  BY <1>2, <1>3

LEMMA OthersServeNobody ==
  ASSUME WorkerExec \/ ManagerExec \/ PoolmanExec
  PROVE  ServiceStep
<1>1. CASE WorkerExec
  <2>1. net' = net
    BY <1>1 DEF WorkerExec, worker_init_M0, worker_idle_M1, worker_M0_getp, worker_M0_ackp,
                worker_M1, worker_M2, worker_M3, Exit, worldVars
  <2>. QED
    BY <2>1, NetServed
<1>2. CASE ManagerExec
  <2>1. net' = net
    BY <1>2 DEF ManagerExec, manager_init_M0, manager_work_M0, manager_work_M1, manager_work_S,
                worldVars
  <2>. QED
    BY <2>1, NetServed
<1>3. CASE PoolmanExec
  <2>1. net' = net
    BY <1>3 DEF PoolmanExec, poolman_init_M0, poolman_work_T0, Exit, worldVars
  <2>. QED
    BY <2>1, NetServed
<1>. QED
  BY <1>1, <1>2, <1>3

LEMMA ConnChanges ==
  ASSUME Typed, NEW c \in Client, NEW to,
         \/ net' = [net EXCEPT ![c].conn = to]
         \/ net' = [net EXCEPT ![c].conn = to, ![c].full = FALSE]
  PROVE  /\ net'[c].conn = to /\ \A e \in Client \ {c} : SameConn(e)
         /\ \A e \in Client : SameSent(e) /\ SameEcho(e)
<1>1. net \in [Client -> Connection]
  BY DEF Typed
<1>2. CASE net' = [net EXCEPT ![c].conn = to]
  BY <1>1, <1>2 DEF Connection, SameConn, SameSent, SameEcho
<1>3. CASE net' = [net EXCEPT ![c].conn = to, ![c].full = FALSE]
  BY <1>1, <1>3 DEF Connection, SameConn, SameSent, SameEcho
<1>. QED
  BY <1>2, <1>3

LEMMA ListenerServes ==
  ASSUME NEW q, Dispatches(q), ListenerExec
  PROVE  ServiceStep
<1>1. Typed
  BY DEF Dispatches
<1>2. CASE listener_init_M0 \/ listener_work_D0_fails
  <2>1. net' = net
    BY <1>2 DEF listener_init_M0, listener_work_D0_fails, worldVars
  <2>. QED
    BY <2>1, NetServed
<1>3. ASSUME NEW c \in Client, listener_work_D0(c)
      PROVE  ServiceStep
  <2>1. net' = [net EXCEPT ![c].conn = "open"] /\ net[c].conn = "backlog"
    BY <1>3 DEF listener_work_D0
  <2>. QED
    BY <1>1, <2>1, ConnChanges, ConnectionMoves
<1>4. CASE listener_work_M0
  <2>1. Receive(listener, "work", "M0") /\ listener \in Machine
    BY <1>4, Kinships DEF listener_work_M0
  <2>2. PICK h, S, c : h = Head(q) /\ S = ToSet(q) /\ c = h.ptr
    OBVIOUS
  <2>3. Views(S) /\ h \in S /\ h.dst = listener /\ ~ IsEvent(h) /\ h = Head(queue) /\ Started
    BY <2>1, <2>2, Received DEF Started
  <2>4. c \in Client /\ net[c].conn = "open"
    BY <2>2, <2>3, ListenerTold
  <2>5. net' = [net EXCEPT ![c].conn = "closed", ![c].full = FALSE]
    BY <1>4, <2>2, <2>3, <2>4 DEF listener_work_M0
  <2>. QED
    BY <1>1, <2>4, <2>5, ConnChanges, ConnectionMoves
<1>. QED
  BY <1>2, <1>3, <1>4 DEF ListenerExec

LEMMA ExecServes ==
  ASSUME NEW q, Dispatches(q), EchoedInOrder, NEW T, InHands(T), Exec
  PROVE  ServiceStep
<1>1. Typed
  BY DEF Dispatches
<1>. QED
  BY <1>1, RxServes, TxServes, ListenerServes, OthersServeNobody DEF Exec

(* Whatever is dispatched. *)
LEMMA DispatchServes ==
  ASSUME ServerInv, PoolInv, DataInv, Exec
  PROVE  ServiceStep
<1>1. Typed /\ PoolShape /\ StaysInStep /\ queue \in Seq(Message) /\ queue # << >>
  BY WhoHandles DEF ServerInv, Typed
<1>2. PICK T : T = IF DoneTwice THEN {} ELSE ToSet(queue)
  OBVIOUS
<1>3. EchoedInOrder /\ InHands(T)
  BY <1>2 DEF DataInv
<1>4. PICK q \in Seq(Message) : InStep(q) /\ (q = queue \/ Ruined(q))
  BY <1>1 DEF StaysInStep
<1>5. CASE q = queue
  <2>1. Dispatches(q)
    BY <1>1, <1>4, <1>5 DEF Dispatches
  <2>. QED
    BY <1>3, <2>1, ExecServes
<1>6. ASSUME NEW m \in Rx, AtTheEnd(m)
      PROVE  ServiceStep
  <2>1. net' = net
    BY <1>6, EndsHere DEF Exit, worldVars
  <2>. QED
    BY <2>1, NetServed
<1>7. ASSUME NEW m \in Rx, AnsweredAgain(m, q)
      PROVE  ServiceStep
  <2>1. PICK w \in Worker, live \in Seq(Message), after \in Seq(Message), more \in Seq(Message) :
          /\ q = live \o after /\ queue = live \o more
          /\ AnswerBehind(m, w, live) /\ AnswerIn(m, w, more)
    BY <1>7, AnswerKnown
  <2>2. CASE live = << >>
    <3>1. queue = more
      BY <2>1, <2>2, ConcatEmptySeq
    <3>2. worker_M2(w)
      BY <1>1, <2>1, <2>2, <3>1, AnswerIsTaken
    <3>3. net' = net
      BY <3>2 DEF worker_M2, worldVars
    <3>. QED
      BY <3>3, NetServed
  <2>3. CASE live # << >>
    <3>1. PICK o : o = queue
      OBVIOUS
    <3>2. Head(q) = Head(live) /\ q # << >> /\ Head(o) = Head(live)
      BY <2>1, <2>3, <3>1, JoinedTail
    <3>3. Dispatches(q)
      BY <1>1, <1>4, <3>1, <3>2 DEF Dispatches
    <3>. QED
      BY <1>3, <3>3, ExecServes
  <2>. QED
    BY <2>2, <2>3
<1>. QED
  BY <1>4, <1>5, <1>6, <1>7 DEF Ruined

(* The peer's moves are moves of the service too. *)
LEMMA WorldServes ==
  ASSUME Typed, World
  PROVE  ServiceStep
<1>1. net \in [Client -> Connection]
  BY DEF Typed
<1>2. ASSUME NEW c \in Client, Connect(c)
      PROVE  ServiceStep
  <2>1. net' = [net EXCEPT ![c].conn = "backlog"] /\ net[c].conn = "new"
    BY <1>2 DEF Connect
  <2>. QED
    BY <2>1, ConnChanges, ConnectionMoves
<1>3. ASSUME NEW c \in Client, NEW eol \in BOOLEAN, PeerSends(c, eol)
      PROVE  ServiceStep
  <2>1. net' = [net EXCEPT ![c].sent = Append(@, eol)] /\ net[c].conn \in {"backlog", "open"}
    BY <1>3 DEF PeerSends
  <2>2. /\ net'[c].sent = Append(net[c].sent, eol)
        /\ \A e \in Client \ {c} : SameSent(e)
        /\ \A e \in Client : SameConn(e) /\ SameEcho(e)
    BY <1>1, <2>1 DEF Connection, SameConn, SameSent, SameEcho
  <2>. QED
    BY <2>1, <2>2, ChunkIsSent
<1>4. ASSUME NEW c \in Client, NEW how \in {"fin", "rst"}, PeerLeaves(c, how)
      PROVE  ServiceStep
  <2>1. net' = [net EXCEPT ![c].peer = how]
    BY <1>4 DEF PeerLeaves
  <2>2. \A e \in Client : SameConn(e) /\ SameSent(e) /\ SameEcho(e)
    BY <1>1, <2>1 DEF Connection, SameConn, SameSent, SameEcho
  <2>. QED
    BY <2>2, NothingServed
<1>5. ASSUME NEW c \in Client, PeerReads(c)
      PROVE  ServiceStep
  <2>1. net' = [net EXCEPT ![c].full = FALSE]
    BY <1>5 DEF PeerReads
  <2>2. \A e \in Client : SameConn(e) /\ SameSent(e) /\ SameEcho(e)
    BY <1>1, <2>1 DEF Connection, SameConn, SameSent, SameEcho
  <2>. QED
    BY <2>2, NothingServed
<1>6. (\E m \in Timed : TimerExpires(m)) \/ (\E s \in Signals : SignalComes(s)) => net' = net
  BY DEF TimerExpires, SignalComes, worldVars
<1>. QED
  BY <1>2, <1>3, <1>4, <1>5, <1>6, NetServed DEF World

(* The echo server implements EchoService: whatever its machines, their     *)
(* pools and the order of events, each client gets back what it sent, from  *)
(* the beginning, in order, each chunk once, never before it sent a         *)
(* newline, never what another client sent, and only as long as its         *)
(* connection, accepted once and closed once, is open.                      *)
THEOREM ServerImplementsService == Spec => ImplementsEchoService
<1>1. Init => Service!Init
  BY DEF Init, Service!Init
<1>2. ServerInv /\ PoolInv /\ DataInv /\ [Next]_vars => [Service!Next]_(Service!vars)
  <2>. SUFFICES ASSUME ServerInv, PoolInv, DataInv, [Next]_vars PROVE ServiceStep
    BY DEF ServiceStep
  <2>1. Typed
    BY DEF ServerInv
  <2>2. CASE Wait \/ UNCHANGED vars
    <3>1. net' = net
      BY <2>2 DEF Wait, vars, worldVars
    <3>. QED
      BY <3>1, NetServed
  <2>. QED
    BY <2>1, <2>2, DispatchServes, WorldServes DEF Next, Ended
<1>. QED
  BY <1>1, <1>2, PoolsSound, MachinesStayInStep, DataStays, PTL
     DEF Spec, ImplementsEchoService, Service!Spec

=============================================================================
