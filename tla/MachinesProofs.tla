--------------------------- MODULE MachinesProofs ---------------------------
(***************************************************************************)
(* Machines: their channels and their descriptions.  For any machines, with  *)
(* any number of descriptors: what epoll watches is always exactly what the  *)
(* channels have, and nothing leaks.  For any files of any length: a machine *)
(* is made from exactly the well-formed ones, and is the one they describe.  *)
(***************************************************************************)
EXTENDS Channels, Smd, FiniteSetTheorems, WellFoundedInduction, TLAPS

(* The inductive invariant.  The descriptors of deleted machines can be used  *)
(* again only because no other channel has them, and epoll's pointers stay    *)
(* exact only because of that: the parts hold together or not at all.        *)
IInv ==
  /\ ChannelsTypeOK /\ DescriptorsAreExclusive /\ EpollKnowsChannels
  /\ NothingBlocks /\ NothingLeaks

-----------------------------------------------------------------------------

(* A channel is of one machine, and an own one is not the i/o channel.      *)
LEMMA ChannelFacts ==
  ASSUME NEW m \in Machine
  PROVE  /\ \A c \in AllChannels(m) : c.owner = m /\ c.type \in DOMAIN KindOf
         /\ \A c \in OwnChannels(m) : c # Io(m) /\ c.type # "data"
         /\ Io(m).type = "data" /\ Io(m).owner = m
         /\ OwnChannels(m) \subseteq AllChannels(m)
         /\ \A c \in AllChannels(m) : c \in OwnChannels(m) \/ (c = Io(m) /\ m \in HasData)
         /\ KindOf["data"] = "socket"
<1>1. DOMAIN KindOf = {"tick", "intr", "fsys", "data"} /\ KindOf["data"] = "socket"
  BY DEF KindOf
<1>2. \A c \in OwnChannels(m) : c.owner = m /\ c.type \in {"tick", "intr", "fsys"}
  BY DEF OwnChannels, Channel
<1>3. Io(m).type = "data" /\ Io(m).owner = m
  BY DEF Io, Channel
<1>. QED
  BY <1>1, <1>2, <1>3 DEF AllChannels

(* The channels there are, and those of one machine.                        *)
LEMMA ChannelsOf ==
  ASSUME ChannelsTypeOK
  PROVE  /\ \A m \in alive : AllChannels(m) \subseteq DOMAIN fd
         /\ \A c \in DOMAIN fd : c.owner \in alive /\ c \in AllChannels(c.owner)
         /\ \A m \in Machine \ alive : AllChannels(m) \cap DOMAIN fd = {}
         /\ \A m \in Machine, c \in DOMAIN fd : c.owner = m <=> c \in AllChannels(m)
<1>1. DOMAIN fd = UNION {AllChannels(m) : m \in alive} /\ alive \subseteq Machine
  BY DEF ChannelsTypeOK
<1>2. \A m \in Machine : \A c \in AllChannels(m) : c.owner = m
  BY ChannelFacts
<1>. QED
  BY <1>1, <1>2

(* epoll gets the pointer of each new channel with its descriptor.          *)
LEMMA WatchedIsExact ==
  ASSUME NEW new, IsOneToOne(new)
  PROVE  /\ DOMAIN Watched(new) = {new[c] : c \in DOMAIN new}
         /\ \A c \in DOMAIN new : Watched(new)[new[c]] = c
<1>1. DOMAIN Watched(new) = {new[c] : c \in DOMAIN new}
  BY DEF Watched
<1>2. ASSUME NEW c \in DOMAIN new
      PROVE  Watched(new)[new[c]] = c
  <2>1. Watched(new)[new[c]] = CHOOSE d \in DOMAIN new : new[d] = new[c]
    BY DEF Watched
  <2>2. \A d \in DOMAIN new : new[d] = new[c] => d = c
    BY DEF IsOneToOne
  <2>. QED
    BY <2>1, <2>2
<1>. QED
  BY <1>1, <1>2

(* There is nothing at first.                                               *)
LEMMA InitHolds == ASSUME ChannelsInit PROVE IInv
BY DEF ChannelsInit, IInv, ChannelsTypeOK, DescriptorsAreExclusive, EpollKnowsChannels, NothingBlocks, NothingLeaks

(* When the process exits nothing else changes.                             *)
LEMMA ExitStep ==
  ASSUME IInv, UNCHANGED <<channelVars, kernelVars>>, fate' \in {"running", "exit"}
  PROVE  IInv'
BY DEF IInv, ChannelsTypeOK, DescriptorsAreExclusive, EpollKnowsChannels, NothingBlocks, NothingLeaks,
       channelVars, kernelVars, IsOpen

(* The channels of a new machine take descriptors that nobody has.          *)
LEMMA CreateStep ==
  ASSUME IInv, NEW m \in Machine \ alive,
         NEW new \in [OwnChannels(m) -> Free], IsOneToOne(new),
         fd' = With(fd, [c \in AllChannels(m) |-> IF c \in DOMAIN new THEN new[c] ELSE -1]),
         open' = With(open, [f \in DOMAIN Watched(new) |-> KindOf[Watched(new)[f].type]]),
         interest' = With(interest, Watched(new)),
         nonblock' = nonblock \cup DOMAIN Watched(new),
         alive' = alive \cup {m},
         fate' = fate
  PROVE  IInv'
<1>. DEFINE own == OwnChannels(m)
            taken == DOMAIN Watched(new)
<1>1. /\ taken = {new[c] : c \in own}
      /\ \A c \in own : Watched(new)[new[c]] = c
  BY WatchedIsExact
<1>2. /\ taken \subseteq Fd
      /\ taken \cap DOMAIN open = {}
      /\ \A c \in own : new[c] \in taken /\ new[c] # -1
      /\ -1 \notin taken
  BY <1>1 DEF Free, Fd
<1>3. /\ \A c \in AllChannels(m) : c \in own \/ (c = Io(m) /\ c \notin own)
      /\ own \subseteq AllChannels(m)
      /\ \A c \in AllChannels(m) : c.type \in DOMAIN KindOf
      /\ Io(m).type = "data"
      /\ AllChannels(m) \cap DOMAIN fd = {}
  BY ChannelFacts, ChannelsOf DEF IInv
<1>4. /\ DOMAIN fd' = DOMAIN fd \cup AllChannels(m)
      /\ \A c \in DOMAIN fd : fd'[c] = fd[c]
      /\ \A c \in own : fd'[c] = new[c]
      /\ \A c \in AllChannels(m) \ own : fd'[c] = -1
  BY <1>3 DEF With
<1>5. /\ DOMAIN open' = DOMAIN open \cup taken
      /\ \A f \in DOMAIN open : open'[f] = open[f]
      /\ \A c \in own : open'[new[c]] = KindOf[c.type]
  BY <1>1, <1>2 DEF With
<1>6. \A c \in DOMAIN fd : fd[c] # -1 => fd[c] \in DOMAIN open
  BY DEF IInv, DescriptorsAreExclusive, IsOpen
<1>7. DOMAIN interest = {fd[c] : c \in DOMAIN fd} \ {-1} /\ DOMAIN interest \cap taken = {}
  BY <1>2, <1>6 DEF IInv, EpollKnowsChannels
<1>8. /\ DOMAIN interest' = DOMAIN interest \cup taken
      /\ \A f \in DOMAIN interest : interest'[f] = interest[f]
      /\ \A c \in own : interest'[new[c]] = c
  BY <1>1, <1>7 DEF With
<1>. HIDE DEF own, taken
<1>9. ChannelsTypeOK'
  <2>1. DOMAIN fd' = UNION {AllChannels(n) : n \in alive'}
    BY <1>4 DEF IInv, ChannelsTypeOK
  <2>2. \A c \in DOMAIN fd' : fd'[c] \in Fd \cup {-1}
    BY <1>2, <1>3, <1>4 DEF IInv, ChannelsTypeOK
  <2>3. fd' \in [UNION {AllChannels(n) : n \in alive'} -> Fd \cup {-1}]
    BY <2>1, <2>2 DEF With
  <2>4. \A f \in DOMAIN open' : open'[f] \in {KindOf[t] : t \in DOMAIN KindOf}
    <3>1. ASSUME NEW f \in taken PROVE open'[f] \in {KindOf[t] : t \in DOMAIN KindOf}
      <4>1. PICK c \in own : f = new[c]
        BY <1>1 DEF own, taken
      <4>2. c.type \in DOMAIN KindOf /\ open'[f] = KindOf[c.type]
        BY <4>1, <1>3, <1>5
      <4>. QED
        BY <4>2
    <3>. QED
      BY <3>1, <1>5 DEF IInv, ChannelsTypeOK
  <2>5. open' \in [DOMAIN open' -> {KindOf[t] : t \in DOMAIN KindOf}] /\ DOMAIN open' \subseteq Fd
    BY <2>4, <1>2, <1>5 DEF IInv, ChannelsTypeOK, With
  <2>6. nonblock' \subseteq Fd /\ alive' \subseteq Machine
    BY <1>2 DEF IInv, ChannelsTypeOK, taken
  <2>. QED
    BY <2>3, <2>5, <2>6 DEF IInv, ChannelsTypeOK
<1>10. DescriptorsAreExclusive'
  <2>1. ASSUME NEW c \in DOMAIN fd', fd'[c] # -1
        PROVE  fd'[c] \in DOMAIN open' /\ open'[fd'[c]] = KindOf[c.type]
    <3>1. CASE c \in DOMAIN fd
      BY <2>1, <3>1, <1>4, <1>5 DEF IInv, DescriptorsAreExclusive, IsOpen
    <3>2. CASE c \in own
      BY <3>2, <1>2, <1>4, <1>5
    <3>. QED
      BY <2>1, <3>1, <3>2, <1>3, <1>4
  <2>2. ASSUME NEW c \in DOMAIN fd', NEW d \in DOMAIN fd', fd'[c] # -1, fd'[d] = fd'[c]
        PROVE  d = c
    <3>1. CASE c \in DOMAIN fd /\ d \in DOMAIN fd
      BY <2>2, <3>1, <1>4 DEF IInv, DescriptorsAreExclusive
    <3>2. CASE c \in own /\ d \in own
      BY <2>2, <3>2, <1>4 DEF IsOneToOne, own
    <3>3. CASE c \in DOMAIN fd /\ d \in own
      BY <2>2, <3>3, <1>2, <1>4, <1>6
    <3>4. CASE c \in own /\ d \in DOMAIN fd
      BY <2>2, <3>4, <1>2, <1>4, <1>6
    <3>. QED
      BY <2>2, <3>1, <3>2, <3>3, <3>4, <1>3, <1>4
  <2>. QED
    BY <2>1, <2>2 DEF DescriptorsAreExclusive, IsOpen
<1>11. EpollKnowsChannels'
  <2>1. DOMAIN interest' \subseteq {fd'[c] : c \in DOMAIN fd'} \ {-1}
    <3>1. ASSUME NEW f \in taken PROVE f # -1 /\ \E c \in DOMAIN fd' : fd'[c] = f
      <4>1. PICK c \in own : f = new[c]
        BY <1>1 DEF own, taken
      <4>. QED
        BY <4>1, <1>2, <1>3, <1>4
    <3>2. ASSUME NEW f \in DOMAIN interest PROVE f # -1 /\ \E c \in DOMAIN fd' : fd'[c] = f
      BY <1>4, <1>7
    <3>. QED
      BY <3>1, <3>2, <1>8, SMTT(30)
  <2>2. {fd'[c] : c \in DOMAIN fd'} \ {-1} \subseteq DOMAIN interest'
    BY <1>2, <1>3, <1>4, <1>7, <1>8
  <2>3. ASSUME NEW f \in DOMAIN interest' PROVE interest'[f] \in DOMAIN fd' /\ fd'[interest'[f]] = f
    <3>1. CASE f \in DOMAIN interest
      BY <3>1, <1>4, <1>8 DEF IInv, EpollKnowsChannels
    <3>2. CASE f \in taken
      <4>1. PICK c \in own : f = new[c]
        BY <3>2, <1>1 DEF own, taken
      <4>. QED
        BY <4>1, <1>3, <1>4, <1>8
    <3>. QED
      BY <3>1, <3>2, <1>8
  <2>. QED
    BY <2>1, <2>2, <2>3 DEF EpollKnowsChannels
<1>12. NothingBlocks'
  BY <1>8 DEF IInv, NothingBlocks, taken
<1>13. NothingLeaks'
  <2>1. ASSUME NEW f \in DOMAIN open', open'[f] # "socket" PROVE \E c \in DOMAIN fd' : fd'[c] = f
    <3>1. CASE f \in DOMAIN open
      <4>1. PICK c \in DOMAIN fd : fd[c] = f
        BY <2>1, <3>1, <1>5 DEF IInv, NothingLeaks
      <4>. QED
        BY <4>1, <1>4
    <3>2. CASE f \in taken
      <4>1. PICK c \in own : f = new[c]
        BY <3>2, <1>1 DEF own, taken
      <4>. QED
        BY <4>1, <1>3, <1>4
    <3>. QED
      BY <3>1, <3>2, <1>5
  <2>2. \A c \in DOMAIN fd' : fd'[c] = -1 => c.type = "data"
    BY <1>2, <1>3, <1>4 DEF IInv, NothingLeaks
  <2>. QED
    BY <2>1, <2>2 DEF NothingLeaks
<1>. QED
  BY <1>9, <1>10, <1>11, <1>12, <1>13 DEF IInv

(* The descriptors of a machine that goes are those of no other channel.    *)
LEMMA DeleteStep ==
  ASSUME IInv, NEW m \in Machine, delete(m)
  PROVE  IInv'
<1>. DEFINE gone == AllChannels(m)
            closed == Closed(m)
<1>1. /\ m \in alive /\ alive' = alive \ {m} /\ fate' = fate
      /\ DOMAIN fd' = DOMAIN fd \ gone
      /\ \A c \in DOMAIN fd' : fd'[c] = fd[c]
      /\ DOMAIN open' = DOMAIN open \ closed
      /\ \A f \in DOMAIN open' : open'[f] = open[f]
      /\ DOMAIN interest' = DOMAIN interest \ closed
      /\ \A f \in DOMAIN interest' : interest'[f] = interest[f]
      /\ nonblock' = nonblock \ closed
  BY DEF delete, Left, Less
<1>2. gone \subseteq DOMAIN fd
  BY <1>1, ChannelsOf DEF IInv
<1>3. closed = {fd[c] : c \in gone} \ {-1}
  BY DEF Closed, FdsOf
<1>4. \A c \in DOMAIN fd' : fd'[c] \notin closed
  <2>1. ASSUME NEW c \in DOMAIN fd', fd'[c] \in closed PROVE FALSE
    <3>1. PICK d \in gone : fd[d] = fd[c] /\ fd[c] # -1
      BY <2>1, <1>1, <1>3
    <3>2. d = c
      BY <3>1, <1>1, <1>2 DEF IInv, DescriptorsAreExclusive
    <3>. QED
      BY <3>1, <3>2, <1>1
  <2>. QED
    BY <2>1
<1>5. \A f \in Fd \cup {-1} : \A c \in DOMAIN fd : fd[c] = f /\ f \notin closed /\ f # -1 => c \in DOMAIN fd'
  BY <1>1, <1>3
<1>6. DOMAIN fd' = UNION {AllChannels(n) : n \in alive'}
  BY <1>1, ChannelFacts, ChannelsOf DEF IInv, ChannelsTypeOK
<1>7. fd' = [c \in DOMAIN fd' |-> fd'[c]] /\ open' = [f \in DOMAIN open' |-> open'[f]]
  BY DEF delete, Left, Less
<1>. HIDE DEF gone, closed
<1>8. ChannelsTypeOK'
  BY <1>1, <1>6, <1>7 DEF IInv, ChannelsTypeOK
<1>9. DescriptorsAreExclusive'
  BY <1>1, <1>4 DEF IInv, DescriptorsAreExclusive, IsOpen
<1>10. EpollKnowsChannels'
  <2>1. ASSUME NEW f \in DOMAIN interest' PROVE interest'[f] \in DOMAIN fd' /\ fd'[interest'[f]] = f
    <3>1. interest[f] \in DOMAIN fd /\ fd[interest[f]] = f /\ f # -1 /\ f \notin closed
      BY <1>1 DEF IInv, EpollKnowsChannels
    <3>2. f \in Fd \cup {-1}
      BY <3>1 DEF IInv, ChannelsTypeOK
    <3>. QED
      BY <3>1, <3>2, <1>1, <1>5
  <2>2. DOMAIN interest' \subseteq {fd'[c] : c \in DOMAIN fd'} \ {-1}
    BY <2>1, <1>1 DEF IInv, EpollKnowsChannels
  <2>3. {fd'[c] : c \in DOMAIN fd'} \ {-1} \subseteq DOMAIN interest'
    BY <1>1, <1>4 DEF IInv, EpollKnowsChannels
  <2>. QED
    BY <2>1, <2>2, <2>3 DEF EpollKnowsChannels
<1>11. NothingBlocks'
  BY <1>1 DEF IInv, NothingBlocks
<1>12. NothingLeaks'
  <2>1. ASSUME NEW f \in DOMAIN open', open'[f] # "socket" PROVE \E c \in DOMAIN fd' : fd'[c] = f
    <3>1. PICK c \in DOMAIN fd : fd[c] = f
      BY <2>1, <1>1 DEF IInv, NothingLeaks
    <3>2. f \in Fd /\ f # -1 /\ f \notin closed
      BY <1>1 DEF IInv, ChannelsTypeOK, Fd
    <3>. QED
      BY <3>1, <3>2, <1>1, <1>5
  <2>2. \A c \in DOMAIN fd' : fd'[c] = -1 => c.type = "data"
    BY <1>1 DEF IInv, NothingLeaks
  <2>. QED
    BY <2>1, <2>2 DEF NothingLeaks
<1>. QED
  BY <1>8, <1>9, <1>10, <1>11, <1>12 DEF IInv

(* What opens and closes sockets leaves the channels alone.                 *)
LEMMA SocketStep ==
  ASSUME IInv, OpenSocket \/ \E f \in DOMAIN open : CloseSocket(f)
  PROVE  IInv'
<1>1. CASE OpenSocket
  <2>1. PICK s \in Free : open' = With(open, [x \in {s} |-> "socket"])
    BY <1>1 DEF OpenSocket
  <2>2. UNCHANGED <<fate, alive, fd, nonblock, interest>>
    BY <1>1 DEF OpenSocket, channelVars
  <2>3. /\ DOMAIN open' = DOMAIN open \cup {s}
        /\ open'[s] = "socket"
        /\ \A f \in DOMAIN open : open'[f] = open[f]
        /\ open' = [f \in DOMAIN open' |-> open'[f]]
        /\ s \in Fd
    BY <2>1 DEF With, Free
  <2>4. "socket" \in {KindOf[t] : t \in DOMAIN KindOf}
    BY DEF KindOf
  <2>5. ChannelsTypeOK'
    BY <2>2, <2>3, <2>4 DEF IInv, ChannelsTypeOK
  <2>6. DescriptorsAreExclusive' /\ NothingLeaks'
    BY <2>2, <2>3 DEF IInv, DescriptorsAreExclusive, NothingLeaks, IsOpen
  <2>7. EpollKnowsChannels' /\ NothingBlocks'
    BY <2>2 DEF IInv, EpollKnowsChannels, NothingBlocks
  <2>. QED
    BY <2>5, <2>6, <2>7 DEF IInv
<1>2. ASSUME NEW s \in DOMAIN open, CloseSocket(s)
      PROVE  IInv'
  <2>1. /\ open[s] = "socket"
        /\ \A c \in DOMAIN fd : fd[c] # s
        /\ DOMAIN open' = DOMAIN open \ {s}
        /\ \A f \in DOMAIN open' : open'[f] = open[f]
        /\ open' = [f \in DOMAIN open' |-> open'[f]]
        /\ nonblock' = nonblock \ {s}
        /\ interest' = [f \in DOMAIN interest \ {s} |-> interest[f]]
        /\ UNCHANGED <<fate, alive, fd>>
    BY <1>2 DEF CloseSocket, channelVars, Less
  <2>2. s \notin DOMAIN interest
    BY <2>1 DEF IInv, EpollKnowsChannels
  <2>3. DOMAIN interest' = DOMAIN interest /\ \A f \in DOMAIN interest : interest'[f] = interest[f]
    BY <2>1, <2>2
  <2>4. ChannelsTypeOK'
    BY <2>1 DEF IInv, ChannelsTypeOK
  <2>5. DescriptorsAreExclusive' /\ NothingLeaks'
    BY <2>1 DEF IInv, DescriptorsAreExclusive, NothingLeaks, IsOpen
  <2>6. EpollKnowsChannels' /\ NothingBlocks'
    BY <2>1, <2>2, <2>3 DEF IInv, EpollKnowsChannels, NothingBlocks
  <2>. QED
    BY <2>4, <2>5, <2>6 DEF IInv
<1>. QED
  BY <1>1, <1>2

(* Attaching: epoll does not watch the socket yet, so no channel has it.    *)
LEMMA AttachStep ==
  ASSUME IInv, NEW m \in alive, NEW s \in DOMAIN open, io_attach(m, s), fate' = "running"
  PROVE  IInv'
<1>. DEFINE c0 == Io(m)
<1>1. /\ m \in HasData /\ m \in Machine
      /\ fd[c0] = -1 /\ open[s] = "socket" /\ s \notin DOMAIN interest
      /\ fd' = [fd EXCEPT ![c0] = s]
      /\ interest' = With(interest, [x \in {s} |-> c0])
      /\ nonblock' = nonblock \cup {s}
      /\ UNCHANGED <<alive, open>>
  BY ChannelsAssumption
     DEF io_attach, Exit, Refused, WatchedWith, NonblockingWith, IInv, ChannelsTypeOK
<1>2. c0 \in DOMAIN fd /\ c0.type = "data" /\ KindOf["data"] = "socket" /\ s \in Fd /\ s # -1
  BY <1>1, ChannelFacts, ChannelsOf DEF IInv, ChannelsTypeOK, Fd, AllChannels
<1>3. \A c \in DOMAIN fd : fd[c] # s
  BY <1>1, <1>2 DEF IInv, EpollKnowsChannels
<1>4. /\ DOMAIN fd' = DOMAIN fd /\ fd'[c0] = s
      /\ \A c \in DOMAIN fd \ {c0} : fd'[c] = fd[c]
      /\ DOMAIN interest' = DOMAIN interest \cup {s} /\ interest'[s] = c0
      /\ \A f \in DOMAIN interest : interest'[f] = interest[f]
  BY <1>1, <1>2 DEF With
<1>. HIDE DEF c0
<1>5. ChannelsTypeOK'
  BY <1>1, <1>2 DEF IInv, ChannelsTypeOK
<1>6. DescriptorsAreExclusive'
  BY <1>1, <1>2, <1>3, <1>4 DEF IInv, DescriptorsAreExclusive, IsOpen
<1>7. EpollKnowsChannels'
  <2>1. \A f \in DOMAIN interest' : interest'[f] \in DOMAIN fd' /\ fd'[interest'[f]] = f /\ f # -1
    BY <1>1, <1>2, <1>4 DEF IInv, EpollKnowsChannels
  <2>2. \A c \in DOMAIN fd' : fd'[c] # -1 => fd'[c] \in DOMAIN interest'
    BY <1>4 DEF IInv, EpollKnowsChannels
  <2>. QED
    BY <2>1, <2>2 DEF EpollKnowsChannels
<1>8. NothingBlocks'
  BY <1>1, <1>4 DEF IInv, NothingBlocks
<1>9. NothingLeaks'
  <2>1. ASSUME NEW f \in DOMAIN open', open'[f] # "socket" PROVE \E c \in DOMAIN fd' : fd'[c] = f
    <3>1. PICK c \in DOMAIN fd : fd[c] = f
      BY <2>1, <1>1 DEF IInv, NothingLeaks
    <3>2. f # -1
      BY <1>1 DEF IInv, ChannelsTypeOK, Fd
    <3>. QED
      BY <3>1, <3>2, <1>1, <1>4
  <2>2. \A c \in DOMAIN fd' : fd'[c] = -1 => c.type = "data"
    BY <1>2, <1>4 DEF IInv, NothingLeaks
  <2>. QED
    BY <2>1, <2>2 DEF NothingLeaks
<1>. QED
  BY <1>5, <1>6, <1>7, <1>8, <1>9 DEF IInv

(* Detaching a socket that is attached does not fail.                       *)
LEMMA DetachStep ==
  ASSUME IInv, NEW m \in alive, m \in HasData, io_detach(m)
  PROVE  IInv' /\ fate' = fate
<1>. DEFINE c0 == Io(m)
            s == fd[c0]
<1>1. c0 \in DOMAIN fd /\ c0.type = "data" /\ KindOf["data"] = "socket" /\ m \in Machine
  BY ChannelFacts, ChannelsOf DEF IInv, ChannelsTypeOK, AllChannels
<1>2. CASE s = -1
  <2>1. UNCHANGED <<fate, channelVars, kernelVars>>
    BY <1>2 DEF io_detach, allVars, channelVars, kernelVars
  <2>. QED
    BY <2>1, ExitStep DEF IInv, ChannelsTypeOK
<1>3. CASE s # -1
  <2>1. s \in DOMAIN interest
    BY <1>1, <1>3 DEF IInv, EpollKnowsChannels
  <2>2. /\ fd' = [fd EXCEPT ![c0] = -1]
        /\ interest' = Less(interest, {s})
        /\ UNCHANGED <<fate, alive, open, nonblock>>
    BY <1>3, <2>1 DEF io_detach, Unwatched
  <2>3. open[s] = "socket" /\ \A c \in DOMAIN fd : fd[c] = s => c = c0
    BY <1>1, <1>3 DEF IInv, DescriptorsAreExclusive
  <2>4. /\ DOMAIN fd' = DOMAIN fd /\ fd'[c0] = -1
        /\ \A c \in DOMAIN fd \ {c0} : fd'[c] = fd[c] /\ fd[c] # s
        /\ DOMAIN interest' = DOMAIN interest \ {s}
        /\ \A f \in DOMAIN interest' : interest'[f] = interest[f]
    BY <1>1, <2>2, <2>3 DEF Less
  <2>. HIDE DEF c0, s
  <2>5. ChannelsTypeOK'
    BY <1>1, <2>2 DEF IInv, ChannelsTypeOK
  <2>6. DescriptorsAreExclusive'
    BY <2>2, <2>4 DEF IInv, DescriptorsAreExclusive, IsOpen
  <2>7. EpollKnowsChannels'
    <3>1. \A f \in DOMAIN interest' : interest'[f] \in DOMAIN fd' /\ fd'[interest'[f]] = f /\ f # -1
      BY <2>4 DEF IInv, EpollKnowsChannels, s
    <3>2. \A c \in DOMAIN fd' : fd'[c] # -1 => fd'[c] \in DOMAIN interest'
      BY <2>4 DEF IInv, EpollKnowsChannels
    <3>. QED
      BY <3>1, <3>2 DEF EpollKnowsChannels
  <2>8. NothingBlocks'
    BY <2>2, <2>4 DEF IInv, NothingBlocks
  <2>9. NothingLeaks'
    <3>1. ASSUME NEW f \in DOMAIN open', open'[f] # "socket" PROVE \E c \in DOMAIN fd' : fd'[c] = f
      BY <3>1, <2>2, <2>3, <2>4 DEF IInv, NothingLeaks, s
    <3>2. \A c \in DOMAIN fd' : fd'[c] = -1 => c.type = "data"
      BY <1>1, <2>4 DEF IInv, NothingLeaks
    <3>. QED
      BY <3>1, <3>2 DEF NothingLeaks
  <2>. QED
    BY <2>2, <2>5, <2>6, <2>7, <2>8, <2>9 DEF IInv
<1>. QED
  BY <1>2, <1>3

(* Configuring a socket that is attached does not fail.                     *)
LEMMA ConfStep ==
  ASSUME IInv, NEW m \in alive, m \in HasData, fd[Io(m)] # -1, io_conf(m)
  PROVE  IInv' /\ fate' = fate
<1>1. Io(m) \in DOMAIN fd
  BY ChannelsOf DEF IInv, ChannelsTypeOK, AllChannels
<1>2. fd[Io(m)] \in DOMAIN interest
  BY <1>1 DEF IInv, EpollKnowsChannels
<1>3. interest[fd[Io(m)]] = Io(m)
  BY <1>1, <1>2 DEF IInv, EpollKnowsChannels, DescriptorsAreExclusive
<1>4. DOMAIN interest' = DOMAIN interest /\ \A f \in DOMAIN interest : interest'[f] = interest[f]
  BY <1>2, <1>3 DEF io_conf
<1>5. UNCHANGED <<fate, alive, fd, open, nonblock>>
  BY <1>2 DEF io_conf, channelVars
<1>6. EpollKnowsChannels' /\ NothingBlocks'
  BY <1>4, <1>5 DEF IInv, EpollKnowsChannels, NothingBlocks
<1>. QED
  BY <1>5, <1>6 DEF IInv, ChannelsTypeOK, DescriptorsAreExclusive, NothingLeaks, IsOpen

(* Every step keeps the invariant.                                          *)
LEMMA Inductive ==
  ASSUME IInv, [ChannelsNext]_allVars
  PROVE  IInv'
<1>0. fate \in {"running", "exit"} /\ alive \subseteq Machine
  BY DEF IInv, ChannelsTypeOK
<1>1. CASE UNCHANGED allVars
  BY <1>0, <1>1, ExitStep DEF allVars, channelVars, kernelVars
<1>2. CASE Exit
  BY <1>2, ExitStep DEF Exit
<1>3. CASE ~ Exit /\ \E m \in Machine : create(m)
  BY <1>3, CreateStep DEF create
<1>4. CASE \E m \in Machine : delete(m)
  BY <1>4, DeleteStep
<1>5. CASE OpenSocket \/ \E f \in DOMAIN open : CloseSocket(f)
  BY <1>5, SocketStep
<1>6. ASSUME ~ Exit, fate = "running", NEW m \in alive, NEW f \in DOMAIN open, io_attach(m, f)
      PROVE  IInv'
  <2>1. fate' = "running"
    BY <1>6 DEF io_attach
  <2>. QED
    BY <1>6, <2>1, AttachStep
<1>7. ASSUME ~ Exit, NEW m \in Machine, io_detach(m)
      PROVE  IInv'
  <2>1. m \in alive /\ m \in HasData
    BY <1>7 DEF io_detach
  <2>. QED
    BY <1>7, <2>1, DetachStep
<1>8. ASSUME ~ Exit, NEW m \in Machine, io_conf(m)
      PROVE  IInv'
  <2>1. m \in alive /\ m \in HasData /\ fd[Io(m)] \in DOMAIN interest
    BY <1>8 DEF io_conf
  <2>2. fd[Io(m)] # -1
    BY <2>1 DEF IInv, EpollKnowsChannels
  <2>. QED
    BY <1>8, <2>1, <2>2, ConfStep
<1>. QED
  BY <1>1, <1>2, <1>3, <1>4, <1>5, <1>6, <1>7, <1>8 DEF ChannelsNext

(* However machines come and go, with whatever channels, and sockets with    *)
(* them: a descriptor belongs to one channel, epoll watches exactly the       *)
(* channels there are, reading them never blocks, and nothing leaks.         *)
THEOREM Invariance ==
  ChannelsSpec => [](ChannelsTypeOK /\ DescriptorsAreExclusive /\ EpollKnowsChannels /\ NothingBlocks /\ NothingLeaks)
<1>1. ChannelsInit => IInv
  BY InitHolds
<1>2. IInv /\ [ChannelsNext]_allVars => IInv'
  BY Inductive
<1>. QED
  BY <1>1, <1>2, PTL DEF ChannelsSpec, IInv

(* ... which is what the application relies on.                             *)
THEOREM KernelAlwaysAgrees == ChannelsSpec => []KernelAgrees
BY Invariance, PTL DEF KernelAgrees

(* epoll_ctl() never fails for a socket that is attached: no machine that     *)
(* enables, disables or detaches it ends the process.                       *)
THEOREM AttachedMaySet == ChannelsSpec => AttachedMayBeSet
<1>1. ChannelsInit => IInv
  BY InitHolds
<1>2. IInv /\ [ChannelsNext]_allVars => IInv'
  BY Inductive
<1>. DEFINE Succeeds ==
       \A m \in HasData \cap alive :
         (io_conf(m) \/ io_detach(m)) /\ fd[Io(m)] # -1 => fate' = "running"
<1>3. IInv /\ [ChannelsNext]_allVars => [Succeeds]_allVars
  <2>1. ASSUME IInv, ChannelsNext PROVE Succeeds
    BY <2>1, DetachStep, ConfStep DEF ChannelsNext
  <2>. QED
    BY <2>1
<1>. QED
  BY <1>1, <1>2, <1>3, PTL DEF ChannelsSpec, AttachedMayBeSet

-----------------------------------------------------------------------------
(* Descriptions: what the lines of a file have to say, for files tx and states st. *)

(* The lines of tx with instruction op, and the rank of a line among those of P. *)
LinesOf(tx, op) == {i \in DOMAIN tx : tx[i].op = op}
PlaceOf(P, i) == Cardinality({j \in P : j <= i})

(* s is what f gives for the lines of P, in their order.                     *)
Collected(s, P, f) ==
  /\ Len(s) = Cardinality(P)
  /\ \A i \in P : PlaceOf(P, i) \in 1 .. Len(s) /\ s[PlaceOf(P, i)] = f[i]
  /\ \A k \in 1 .. Len(s) : \E i \in P : PlaceOf(P, i) = k

(* The number of the first state of a name in states st, 0 if there is none.  *)
FoundIn(st, name) ==
  LET ks == {k \in DOMAIN st : st[k].name = name}
  IN  IF ks = {} THEN 0 ELSE CHOOSE k \in ks : \A j \in ks : k <= j

(* The lines of tx that give transitions or actions of state k.              *)
LinesFor(tx, op, st, k) == {i \in LinesOf(tx, op) : FoundIn(st, tx[i].from) = k}

Code == {Ecode(l.ev) : l \in Line}
Transition == [ecode : Code, next : Nat]
Action == [ecode : Code, func : {<<l.from, l.ev>> : l \in Line}]
State == [name : {l.name : l \in Line}, trans : Seq(Transition), actions : Seq(Action)]
Desc ==
  [timers : Seq(Int), signals : Seq(Int), nwatches : Int, states : Seq(State),
   has_data : BOOLEAN, has_fsys : BOOLEAN, nch : Nat]

NameOf(tx) == [i \in DOMAIN tx |-> tx[i].name]
NumberOf(tx) == [i \in DOMAIN tx |-> tx[i].n]
TransOf(tx, st) == [i \in DOMAIN tx |-> [ecode |-> Ecode(tx[i].ev), next |-> FoundIn(st, tx[i].to)]]
ActionOf(tx) == [i \in DOMAIN tx |-> [ecode |-> Ecode(tx[i].ev), func |-> <<tx[i].from, tx[i].ev>>]]

(* A state is declared before line i.                                       *)
Declared(tx, i, name) == \E j \in LinesOf(tx, "$") : j < i /\ tx[j].name = name

(* The lines of tx are such as are taken ...                                 *)
Taken(tx) ==
  /\ \A i \in DOMAIN tx : tx[i].op \notin {"bad", "cut"}
  /\ \A i \in LinesOf(tx, "+") \cup LinesOf(tx, "@") :
       Declared(tx, i, tx[i].from) /\ tx[i].ev.type \in DOMAIN Type
  /\ \A i \in LinesOf(tx, "+") : Declared(tx, i, tx[i].to)

(* ... and the states say what they say.                                    *)
StatesSay(tx, st) ==
  /\ Collected([k \in DOMAIN st |-> st[k].name], LinesOf(tx, "$"), NameOf(tx))
  /\ \A k \in DOMAIN st :
       /\ Collected(st[k].trans, LinesFor(tx, "+", st, k), TransOf(tx, st))
       /\ Collected(st[k].actions, LinesFor(tx, "@", st, k), ActionOf(tx))

Uses(tx, t) == \E i \in LinesOf(tx, "+") \cup LinesOf(tx, "@") : tx[i].ev.type = t

ChannelsSay(tx, d) ==
  /\ Collected(d.timers, LinesOf(tx, "T"), NumberOf(tx))
  /\ Collected(d.signals, LinesOf(tx, "S"), NumberOf(tx))
  /\ \A i \in LinesOf(tx, "F") : (\A j \in LinesOf(tx, "F") : j <= i) => d.nwatches = tx[i].n
  /\ d.has_data <=> Uses(tx, "D")
  /\ d.has_fsys <=> Uses(tx, "F")

(* The program has the functions that are named.                            *)
Resolves(tx) ==
  /\ \A i \in LinesOf(tx, "$") : {<<tx[i].name, "enter">>, <<tx[i].name, "leave">>} \subseteq Hooks
  /\ \A i \in LinesOf(tx, "@") : <<tx[i].from, tx[i].ev>> \in Handlers

HasPlaces(tx) == \A i \in LinesOf(tx, "+") \cup LinesOf(tx, "@") : tx[i].ev.n \in Cols

NextsAreStates(st) == \A k \in DOMAIN st : \A j \in DOMAIN st[k].trans : st[k].trans[j].next \in DOMAIN st

(* Every event has a place in the matrices.                                 *)
AllFit(st) == \A k \in DOMAIN st : \A j \in DOMAIN Reflexes(st[k]) : Fits(Reflexes(st[k])[j].ecode)

(* The inductive invariant of descriptions.                                 *)
SmdInv ==
  /\ phase \in {"reading", "loaded", "built", "created", "exit", "null"}
  /\ text \in Seq(Line) /\ desc \in Desc /\ NextsAreStates(desc.states)
  /\ phase \notin {"exit", "null"} => Taken(text) /\ StatesSay(text, desc.states) /\ ChannelsSay(text, desc)
  /\ phase \in {"loaded", "built", "created"} => Resolves(text)
  /\ phase \in {"built", "created"} => desc.nch = 2 + Len(desc.timers) + Len(desc.signals)
  /\ phase = "created" =>
       AllFit(desc.states) /\ matrix = [k \in DOMAIN desc.states |-> Filled(desc.states[k])]
  /\ phase \in {"exit", "null"} =>
       \/ ~ Taken(text)
       \/ ~ Resolves(text)
       \/ Taken(text) /\ StatesSay(text, desc.states) /\ ~ AllFit(desc.states)

(* The least-number principle, for sets, and its counterpart for sets that     *)
(* have a bound.                                                            *)
LEMMA SmallestNumber ==
  ASSUME NEW S, S \subseteq Nat, S # {}
  PROVE  \E m \in S : \A k \in S : m <= k
<1>. DEFINE R == {ss \in Nat \X Nat : ss[1] < ss[2]}
<1>1. IsWellFoundedOn(R, Nat)
  BY NatLessThanWellFounded DEF OpToRel
<1>2. PICK m \in S : \A k \in S : ~ (<<k, m>> \in R)
  <2>. HIDE DEF R
  <2>. QED
    BY <1>1, WFMin
<1>3. ASSUME NEW k \in S PROVE m <= k
  <2>1. m \in Nat /\ k \in Nat
    OBVIOUS
  <2>2. k < m => <<k, m>> \in R
    BY <2>1
  <2>. QED
    BY <1>2, <2>1, <2>2
<1>. QED
  BY <1>3

LEMMA LargestNumber ==
  ASSUME NEW n \in Nat, NEW S, S \subseteq 1 .. n, S # {}
  PROVE  \E m \in S : \A k \in S : k <= m
<1>1. PICK T : T = {j \in 0 .. n : n - j \in S}
  OBVIOUS
<1>2. T \subseteq Nat
  BY <1>1
<1>3. T # {}
  <2>1. PICK k : k \in S
    OBVIOUS
  <2>2. k \in 1 .. n /\ n - k \in 0 .. n /\ n - (n - k) = k
    BY <2>1
  <2>. QED
    BY <1>1, <2>1, <2>2
<1>4. PICK j \in T : \A i \in T : j <= i
  BY <1>2, <1>3, SmallestNumber
<1>5. j \in 0 .. n /\ n - j \in S
  BY <1>1
<1>6. ASSUME NEW k \in S PROVE k <= n - j
  <2>1. k \in 1 .. n /\ n - k \in 0 .. n /\ n - (n - k) = k
    OBVIOUS
  <2>2. j <= n - k
    BY <1>1, <1>4, <2>1
  <2>. QED
    BY <1>5, <2>1, <2>2
<1>. QED
  BY <1>5, <1>6

(* Places: the places of lines are in the order of the lines.                *)
LEMMA PlaceFacts ==
  ASSUME NEW n \in Nat, NEW P, P \subseteq 1 .. n
  PROVE  /\ IsFiniteSet(P) /\ Cardinality(P) \in Nat
         /\ \A i \in P : PlaceOf(P, i) \in Nat
         /\ \A i, j \in P : i < j => PlaceOf(P, i) < PlaceOf(P, j)
<1>1. IsFiniteSet(1 .. n)
  BY FS_Interval
<1>2. \A Q : Q \subseteq P => IsFiniteSet(Q) /\ Cardinality(Q) \in Nat
  <2>1. \A Q \in SUBSET (1 .. n) : IsFiniteSet(Q)
    BY <1>1, FS_Subset
  <2>. QED
    BY <2>1, FS_CardinalityType
<1>3. \A i \in P : PlaceOf(P, i) \in Nat
  BY <1>2 DEF PlaceOf
<1>4. ASSUME NEW i \in P, NEW j \in P, i < j PROVE PlaceOf(P, i) < PlaceOf(P, j)
  <2>1. PICK A, B : A = {k \in P : k <= i} /\ B = {k \in P : k <= j}
    OBVIOUS
  <2>2. i \in Nat /\ j \in Nat /\ \A k \in P : k \in Nat
    OBVIOUS
  <2>3. A \in SUBSET B /\ j \in B /\ j \notin A
    <3>1. \A k \in P : k <= i => k <= j
      BY <1>4, <2>2
    <3>2. j <= j /\ ~ (j <= i)
      BY <1>4, <2>2
    <3>. QED
      BY <2>1, <3>1, <3>2
  <2>4. IsFiniteSet(B) /\ Cardinality(A) \in Nat /\ Cardinality(B) \in Nat
    BY <1>2, <2>1
  <2>5. Cardinality(A) <= Cardinality(B) /\ Cardinality(A) # Cardinality(B)
    BY <2>3, <2>4, FS_Subset
  <2>. QED
    BY <2>1, <2>4, <2>5 DEF PlaceOf
<1>. QED
  BY <1>2, <1>3, <1>4

LEMMA PlaceIsOne ==
  ASSUME NEW n \in Nat, NEW P, P \subseteq 1 .. n, NEW i \in P, NEW j \in P
  PROVE  /\ PlaceOf(P, i) = PlaceOf(P, j) => i = j
         /\ PlaceOf(P, i) <= PlaceOf(P, j) <=> i <= j
<1>1. /\ \A k \in P : PlaceOf(P, k) \in Nat
      /\ \A k, l \in P : k < l => PlaceOf(P, k) < PlaceOf(P, l)
  BY ONLY n \in Nat, P \subseteq 1 .. n, PlaceFacts
<1>2. i \in Nat /\ j \in Nat
  OBVIOUS
<1>. QED
  BY <1>1, <1>2

LEMMA PlaceMore ==
  ASSUME NEW n \in Nat, NEW P \in SUBSET (1 .. n), NEW Q, Q = P \cup {n + 1}
  PROVE  /\ Cardinality(Q) = Cardinality(P) + 1
         /\ \A i \in P : PlaceOf(Q, i) = PlaceOf(P, i)
         /\ PlaceOf(Q, n + 1) = Cardinality(Q)
<1>1. IsFiniteSet(P)
  BY PlaceFacts
<1>2. \A i \in P : i \in Nat /\ i <= n
  OBVIOUS
<1>3. n + 1 \notin P
  BY <1>2
<1>4. Cardinality(Q) = Cardinality(P) + 1
  BY <1>1, <1>3, FS_AddElement
<1>5. ASSUME NEW i \in P PROVE PlaceOf(Q, i) = PlaceOf(P, i)
  <2>1. ~ (n + 1 <= i)
    BY <1>2
  <2>2. {j \in Q : j <= i} = {j \in P : j <= i}
    BY <2>1
  <2>. QED
    BY <2>2 DEF PlaceOf
<1>6. PlaceOf(Q, n + 1) = Cardinality(Q)
  <2>1. \A j \in Q : j <= n + 1
    BY <1>2
  <2>2. {j \in Q : j <= n + 1} = Q
    BY <2>1
  <2>. QED
    BY <2>2 DEF PlaceOf
<1>. QED
  BY <1>4, <1>5, <1>6

(* t is s with x behind.                                                    *)
OneMore(s, t, x) ==
  /\ Len(s) \in Nat /\ Len(t) = Len(s) + 1
  /\ DOMAIN s = 1 .. Len(s) /\ DOMAIN t = 1 .. Len(t)
  /\ \A k \in 1 .. Len(s) : t[k] = s[k]
  /\ t[Len(s) + 1] = x

LEMMA Appended ==
  ASSUME NEW S, NEW s \in Seq(S), NEW x \in S, NEW t, t = Append(s, x)
  PROVE  t \in Seq(S) /\ OneMore(s, t, x)
BY DEF OneMore

(* A list of what lines say grows with a line, and depends on nothing else.   *)
LEMMA CollectedMore ==
  ASSUME NEW n \in Nat, NEW P, P \subseteq 1 .. n, NEW s, NEW t, NEW f, NEW g, NEW x,
         Collected(s, P, f), OneMore(s, t, x),
         \A i \in P : g[i] = f[i], g[n + 1] = x
  PROVE  Collected(t, P \cup {n + 1}, g)
<1>1. PICK Q, m : Q = P \cup {n + 1} /\ m = Len(s)
  OBVIOUS
<1>2. /\ m \in Nat /\ Len(t) = m + 1 /\ m = Cardinality(P)
      /\ \A k \in 1 .. m : t[k] = s[k]
      /\ t[m + 1] = x
  BY <1>1 DEF OneMore, Collected
<1>3. /\ Cardinality(Q) = m + 1
      /\ \A i \in P : PlaceOf(Q, i) = PlaceOf(P, i)
      /\ PlaceOf(Q, n + 1) = m + 1
  <2>1. /\ Cardinality(Q) = Cardinality(P) + 1
        /\ \A i \in P : PlaceOf(Q, i) = PlaceOf(P, i)
        /\ PlaceOf(Q, n + 1) = Cardinality(Q)
    <3>1. n \in Nat /\ P \in SUBSET (1 .. n) /\ Q = P \cup {n + 1}
      BY <1>1
    <3>. QED
      BY ONLY <3>1, PlaceMore, SMTT(30)
  <2>. QED
    BY <1>2, <2>1
<1>4. /\ \A i \in P : PlaceOf(P, i) \in 1 .. m /\ s[PlaceOf(P, i)] = f[i]
      /\ \A k \in 1 .. m : \E i \in P : PlaceOf(P, i) = k
  BY <1>1 DEF Collected
<1>5. ASSUME NEW i \in Q PROVE PlaceOf(Q, i) \in 1 .. m + 1 /\ t[PlaceOf(Q, i)] = g[i]
  <2>1. CASE i \in P
    <3>1. PlaceOf(Q, i) \in 1 .. m /\ s[PlaceOf(Q, i)] = f[i]
      BY <1>3, <1>4, <2>1
    <3>. QED
      BY <1>2, <2>1, <3>1
  <2>2. CASE i = n + 1
    BY <1>2, <1>3, <2>2
  <2>. QED
    BY <1>1, <2>1, <2>2
<1>6. ASSUME NEW k \in 1 .. m + 1 PROVE \E i \in Q : PlaceOf(Q, i) = k
  <2>1. CASE k = m + 1
    BY <1>1, <1>3, <2>1
  <2>2. CASE k # m + 1
    <3>1. k \in 1 .. m
      BY <1>2, <2>2
    <3>. QED
      BY <1>1, <1>3, <1>4, <3>1
  <2>. QED
    BY <2>1, <2>2
<1>. QED
  BY <1>1, <1>2, <1>3, <1>5, <1>6 DEF Collected

LEMMA CollectedSame ==
  ASSUME NEW P, NEW s, NEW f, NEW g, Collected(s, P, f), \A i \in P : g[i] = f[i]
  PROVE  Collected(s, P, g)
BY DEF Collected

LEMMA CollectedNone == ASSUME NEW f PROVE Collected(<< >>, {}, f)
BY FS_EmptySet DEF Collected

(* The state that is found is the first of that name.                        *)
LEMMA FoundFacts ==
  ASSUME NEW m \in Nat, NEW st, DOMAIN st = 1 .. m, NEW name
  PROVE  /\ FoundIn(st, name) \in 0 .. m
         /\ FoundIn(st, name) # 0 =>
              /\ st[FoundIn(st, name)].name = name
              /\ \A k \in 1 .. m : st[k].name = name => FoundIn(st, name) <= k
         /\ \A k \in 1 .. m : st[k].name = name => FoundIn(st, name) # 0
<1>0. PICK ks : ks = {k \in 1 .. m : st[k].name = name}
  OBVIOUS
<1>1. PICK q : /\ ks = {k \in 1 .. m : st[k].name = name}
               /\ q = IF ks = {} THEN 0 ELSE CHOOSE k \in ks : \A j \in ks : k <= j
  BY <1>0
<1>2. FoundIn(st, name) = q
  BY <1>1 DEF FoundIn
<1>3. CASE ks = {}
  BY <1>1, <1>2, <1>3
<1>4. CASE ks # {}
  <2>1. ks \subseteq Nat
    BY <1>1
  <2>2. \E k \in ks : \A j \in ks : k <= j
    BY <1>4, <2>1, SmallestNumber
  <2>3. q \in ks /\ \A j \in ks : q <= j
    BY <1>1, <1>4, <2>2
  <2>4. q \in 1 .. m /\ st[q].name = name
    BY <1>1, <2>3
  <2>5. q \in 0 .. m /\ q # 0
    BY ONLY m \in Nat, <2>4
  <2>6. \A k \in 1 .. m : st[k].name = name => q <= k
    BY <1>1, <2>3
  <2>. QED
    BY <1>2, <2>4, <2>5, <2>6
<1>. QED
  BY <1>3, <1>4

(* ... and stays so when a state comes behind, or names do not change.        *)
LEMMA FoundStays ==
  ASSUME NEW m \in Nat, NEW st, DOMAIN st = 1 .. m,
         NEW m2 \in Nat, NEW st2, DOMAIN st2 = 1 .. m2, m <= m2,
         \A k \in 1 .. m : st2[k].name = st[k].name,
         NEW name, FoundIn(st, name) # 0 \/ m2 = m
  PROVE  FoundIn(st2, name) = FoundIn(st, name)
<1>1. PICK q, q2 : q = FoundIn(st, name) /\ q2 = FoundIn(st2, name)
  OBVIOUS
<1>2. /\ q \in 0 .. m
      /\ q # 0 => st[q].name = name /\ \A k \in 1 .. m : st[k].name = name => q <= k
      /\ \A k \in 1 .. m : st[k].name = name => q # 0
  BY <1>1, FoundFacts
<1>3. /\ q2 \in 0 .. m2
      /\ q2 # 0 => st2[q2].name = name /\ \A k \in 1 .. m2 : st2[k].name = name => q2 <= k
      /\ \A k \in 1 .. m2 : st2[k].name = name => q2 # 0
  BY <1>1, FoundFacts
<1>4. CASE q # 0
  <2>1. q \in 1 .. m /\ q \in 1 .. m2 /\ st2[q].name = name
    BY <1>2, <1>4
  <2>2. q2 # 0 /\ q2 <= q
    BY <1>3, <2>1
  <2>3. q2 \in 1 .. m
    BY <1>3, <2>1, <2>2
  <2>4. st[q2].name = name
    BY <1>3, <2>2, <2>3
  <2>5. q <= q2
    BY <1>2, <1>4, <2>3, <2>4
  <2>. QED
    BY <1>1, <2>1, <2>2, <2>3, <2>5
<1>5. CASE q = 0
  <2>1. m2 = m
    BY <1>1, <1>5
  <2>2. q2 = 0
    <3>1. ASSUME q2 # 0 PROVE FALSE
      <4>1. q2 \in 1 .. m
        BY <1>3, <2>1, <3>1
      <4>2. st[q2].name = name
        BY <1>3, <3>1, <4>1
      <4>. QED
        BY <1>2, <1>5, <4>1, <4>2
    <3>. QED
      BY <3>1
  <2>. QED
    BY <1>1, <1>5, <2>2
<1>. QED
  BY <1>4, <1>5

(* A line behind the others changes nothing of what they are.               *)
AddsLine(tx, tx2, l, n) ==
  /\ DOMAIN tx = 1 .. n /\ DOMAIN tx2 = 1 .. n + 1
  /\ \A i \in 1 .. n : tx2[i] = tx[i] /\ i \in 1 .. n + 1 /\ i # n + 1
  /\ tx2[n + 1] = l
  /\ \A op : LinesOf(tx, op) \in SUBSET (1 .. n)
  /\ \A op : l.op = op => LinesOf(tx2, op) = LinesOf(tx, op) \cup {n + 1}
  /\ \A op : l.op # op => LinesOf(tx2, op) = LinesOf(tx, op)

LEMMA LineAdded ==
  ASSUME NEW tx, NEW tx2, NEW l, NEW n \in Nat, n = Len(tx), OneMore(tx, tx2, l)
  PROVE  AddsLine(tx, tx2, l, n)
<1>1. /\ DOMAIN tx = 1 .. n /\ DOMAIN tx2 = 1 .. n + 1
      /\ \A i \in 1 .. n : tx2[i] = tx[i]
      /\ tx2[n + 1] = l
  BY DEF OneMore
<1>2. \A i : i \in 1 .. n + 1 <=> (i \in 1 .. n \/ i = n + 1)
  OBVIOUS
<1>3. \A i \in 1 .. n : i # n + 1
  OBVIOUS
<1>4. \A op : LinesOf(tx, op) = {i \in 1 .. n : tx[i].op = op} /\ LinesOf(tx2, op) = {i \in 1 .. n + 1 : tx2[i].op = op}
  BY <1>1 DEF LinesOf
<1>5. ASSUME NEW op PROVE \A i : i \in LinesOf(tx2, op) <=> i \in LinesOf(tx, op) \/ (i = n + 1 /\ l.op = op)
  BY ONLY <1>1, <1>2, <1>3, <1>4
<1>6. ASSUME NEW op, l.op = op PROVE LinesOf(tx2, op) = LinesOf(tx, op) \cup {n + 1}
  BY ONLY <1>5, <1>6
<1>7. ASSUME NEW op, l.op # op PROVE LinesOf(tx2, op) = LinesOf(tx, op)
  <2>1. \A i : i \in LinesOf(tx2, op) <=> i \in LinesOf(tx, op)
    BY ONLY <1>5, <1>7
  <2>. QED
    BY ONLY <2>1, Zenon
<1>8. \A op : LinesOf(tx, op) \in SUBSET (1 .. n)
  BY <1>4
<1>. QED
  BY <1>1, <1>2, <1>3, <1>6, <1>7, <1>8 DEF AddsLine

(* The lines with op use the same states as before.                          *)
FromAlike(tx, op, st, st2) == \A i \in LinesOf(tx, op) : FoundIn(st2, tx[i].from) = FoundIn(st, tx[i].from)

LEMMA LinesForAdded ==
  ASSUME NEW tx, NEW tx2, NEW l, NEW n \in Nat, n = Len(tx), OneMore(tx, tx2, l),
         NEW st, NEW st2, NEW op,
         FromAlike(tx, op, st, st2), NEW k
  PROVE  /\ LinesFor(tx, op, st, k) \in SUBSET (1 .. n)
         /\ l.op = op /\ FoundIn(st2, l.from) = k => LinesFor(tx2, op, st2, k) = LinesFor(tx, op, st, k) \cup {n + 1}
         /\ l.op # op \/ FoundIn(st2, l.from) # k => LinesFor(tx2, op, st2, k) = LinesFor(tx, op, st, k)
<1>1. /\ \A i \in 1 .. n : tx2[i] = tx[i]
      /\ tx2[n + 1] = l
      /\ LinesOf(tx, op) \in SUBSET (1 .. n)
      /\ l.op = op => LinesOf(tx2, op) = LinesOf(tx, op) \cup {n + 1}
      /\ l.op # op => LinesOf(tx2, op) = LinesOf(tx, op)
  <2>1. AddsLine(tx, tx2, l, n)
    BY LineAdded
  <2>. QED
    BY <2>1 DEF AddsLine
<1>2. \A i : i \in LinesFor(tx, op, st, k) <=> i \in LinesOf(tx, op) /\ FoundIn(st, tx[i].from) = k
  BY DEF LinesFor
<1>3. \A i : i \in LinesFor(tx2, op, st2, k) <=> i \in LinesOf(tx2, op) /\ FoundIn(st2, tx2[i].from) = k
  BY DEF LinesFor
<1>4. \A i \in LinesOf(tx, op) : FoundIn(st2, tx2[i].from) = k <=> FoundIn(st, tx[i].from) = k
  BY <1>1 DEF FromAlike
<1>5. ASSUME l.op = op /\ FoundIn(st2, l.from) = k
      PROVE  \A i : i \in LinesFor(tx2, op, st2, k) <=> i \in LinesFor(tx, op, st, k) \/ i = n + 1
  BY ONLY <1>1, <1>2, <1>3, <1>4, <1>5
<1>6. ASSUME l.op # op \/ FoundIn(st2, l.from) # k
      PROVE  \A i : i \in LinesFor(tx2, op, st2, k) <=> i \in LinesFor(tx, op, st, k)
  BY ONLY <1>1, <1>2, <1>3, <1>4, <1>6
<1>7. LinesFor(tx, op, st, k) \in SUBSET (1 .. n)
  BY ONLY <1>1, <1>2
<1>8. ASSUME l.op = op /\ FoundIn(st2, l.from) = k
      PROVE  LinesFor(tx2, op, st2, k) = LinesFor(tx, op, st, k) \cup {n + 1}
  BY ONLY <1>5, <1>8
<1>9. ASSUME l.op # op \/ FoundIn(st2, l.from) # k
      PROVE  LinesFor(tx2, op, st2, k) = LinesFor(tx, op, st, k)
  BY ONLY <1>6, <1>9
<1>. QED
  BY <1>7, <1>8, <1>9

(* A state is found if and only if a line declares it.                       *)
NamesSay(tx, st) == Collected([k \in DOMAIN st |-> st[k].name], LinesOf(tx, "$"), NameOf(tx))

LEMMA FoundIfDeclared ==
  ASSUME NEW tx, NEW m \in Nat, NEW st, DOMAIN st = 1 .. m, NamesSay(tx, st), NEW name
  PROVE  FoundIn(st, name) # 0 <=> \E j \in LinesOf(tx, "$") : tx[j].name = name
<1>1. PICK s : s = [k \in DOMAIN st |-> st[k].name]
  OBVIOUS
<1>2. Collected(s, LinesOf(tx, "$"), NameOf(tx))
  BY <1>1 DEF NamesSay
<1>3. Len(s) = m /\ \A k \in 1 .. m : s[k] = st[k].name
  BY <1>1
<1>4. \A i \in LinesOf(tx, "$") : NameOf(tx)[i] = tx[i].name
  BY DEF LinesOf, NameOf
<1>5. ASSUME FoundIn(st, name) # 0 PROVE \E j \in LinesOf(tx, "$") : tx[j].name = name
  <2>1. FoundIn(st, name) \in 1 .. m /\ st[FoundIn(st, name)].name = name
    BY <1>5, FoundFacts
  <2>2. PICK i \in LinesOf(tx, "$") : PlaceOf(LinesOf(tx, "$"), i) = FoundIn(st, name)
    BY <1>2, <1>3, <2>1 DEF Collected
  <2>3. s[PlaceOf(LinesOf(tx, "$"), i)] = tx[i].name
    BY <1>2, <1>4 DEF Collected
  <2>. QED
    BY <1>3, <2>1, <2>2, <2>3
<1>6. ASSUME NEW j \in LinesOf(tx, "$"), tx[j].name = name PROVE FoundIn(st, name) # 0
  <2>1. PICK q : q = PlaceOf(LinesOf(tx, "$"), j)
    OBVIOUS
  <2>2. q \in 1 .. m /\ s[q] = tx[j].name
    BY <1>2, <1>3, <1>4, <2>1 DEF Collected
  <2>. QED
    BY <1>3, <1>6, <2>2, FoundFacts
<1>. QED
  BY <1>5, <1>6

(* Takes, for states st.                                                    *)
TakesIn(st, l) ==
  /\ FoundIn(st, l.from) # 0
  /\ l.op = "+" => FoundIn(st, l.to) # 0
  /\ l.ev.type \in DOMAIN Type

LEMMA TakenMore ==
  ASSUME NEW tx, NEW tx2, NEW l, NEW n \in Nat, n = Len(tx), OneMore(tx, tx2, l),
         NEW m \in Nat, NEW st, DOMAIN st = 1 .. m, NamesSay(tx, st)
  PROVE  Taken(tx2) <=> /\ Taken(tx)
                        /\ l.op \notin {"bad", "cut"}
                        /\ l.op \in {"+", "@"} => TakesIn(st, l)
<1>1. /\ DOMAIN tx = 1 .. n /\ DOMAIN tx2 = 1 .. n + 1
      /\ \A i \in 1 .. n : tx2[i] = tx[i] /\ i \in 1 .. n + 1 /\ i # n + 1
      /\ tx2[n + 1] = l
      /\ \A op : LinesOf(tx, op) \in SUBSET (1 .. n)
      /\ \A op : l.op = op => LinesOf(tx2, op) = LinesOf(tx, op) \cup {n + 1}
      /\ \A op : l.op # op => LinesOf(tx2, op) = LinesOf(tx, op)
  <2>1. AddsLine(tx, tx2, l, n)
    BY LineAdded
  <2>. QED
    BY <2>1 DEF AddsLine
<1>2. \A i : i \in 1 .. n + 1 <=> (i \in 1 .. n \/ i = n + 1)
  OBVIOUS
<1>3. \A i \in 1 .. n : ~ (n + 1 < i) /\ i < n + 1
  OBVIOUS
<1>4. ~ (n + 1 < n + 1)
  OBVIOUS
<1>5. \A name : FoundIn(st, name) # 0 <=> \E j \in LinesOf(tx, "$") : tx[j].name = name
  BY FoundIfDeclared
<1>6. \A op : \A i \in LinesOf(tx2, op) : i \in LinesOf(tx, op) \/ (i = n + 1 /\ l.op = op)
  BY <1>1
<1>7. \A op : LinesOf(tx, op) \subseteq LinesOf(tx2, op)
  BY <1>1
<1>8. ASSUME NEW name, NEW i \in 1 .. n PROVE Declared(tx2, i, name) <=> Declared(tx, i, name)
  <2>1. ASSUME Declared(tx2, i, name) PROVE Declared(tx, i, name)
    <3>1. PICK j \in LinesOf(tx2, "$") : j < i /\ tx2[j].name = name
      BY <2>1 DEF Declared
    <3>2. j \in LinesOf(tx, "$") /\ tx2[j] = tx[j]
      BY <1>1, <1>3, <1>6, <3>1
    <3>. QED
      BY <3>1, <3>2 DEF Declared
  <2>2. ASSUME Declared(tx, i, name) PROVE Declared(tx2, i, name)
    BY <1>1, <1>7, <2>2 DEF Declared
  <2>. QED
    BY <2>1, <2>2
<1>9. ASSUME NEW name PROVE Declared(tx2, n + 1, name) <=> FoundIn(st, name) # 0
  <2>1. ASSUME Declared(tx2, n + 1, name) PROVE FoundIn(st, name) # 0
    <3>1. PICK j \in LinesOf(tx2, "$") : j < n + 1 /\ tx2[j].name = name
      BY <2>1 DEF Declared
    <3>2. j \in LinesOf(tx, "$") /\ tx2[j] = tx[j]
      BY <1>1, <1>4, <1>6, <3>1
    <3>. QED
      BY <1>5, <3>1, <3>2
  <2>2. ASSUME FoundIn(st, name) # 0 PROVE Declared(tx2, n + 1, name)
    <3>1. PICK j \in LinesOf(tx, "$") : tx[j].name = name
      BY <1>5, <2>2
    <3>2. j \in LinesOf(tx2, "$") /\ tx2[j] = tx[j] /\ j < n + 1
      BY <1>1, <1>3, <1>7, <3>1
    <3>. QED
      BY <3>1, <3>2 DEF Declared
  <2>. QED
    BY <2>1, <2>2
<1>10. ASSUME Taken(tx2)
       PROVE  Taken(tx) /\ l.op \notin {"bad", "cut"} /\ (l.op \in {"+", "@"} => TakesIn(st, l))
  <2>1. \A i \in 1 .. n : tx[i].op \notin {"bad", "cut"}
    BY <1>1, <1>10 DEF Taken
  <2>2. l.op \notin {"bad", "cut"}
    BY <1>1, <1>2, <1>10 DEF Taken
  <2>3. ASSUME NEW i \in LinesOf(tx, "+") \cup LinesOf(tx, "@")
        PROVE  Declared(tx, i, tx[i].from) /\ tx[i].ev.type \in DOMAIN Type
    <3>1. i \in 1 .. n /\ i \in LinesOf(tx2, "+") \cup LinesOf(tx2, "@")
      BY <1>1, <1>7
    <3>2. Declared(tx2, i, tx2[i].from) /\ tx2[i].ev.type \in DOMAIN Type
      BY <1>10, <3>1 DEF Taken
    <3>. QED
      BY <1>1, <1>8, <3>1, <3>2
  <2>4. ASSUME NEW i \in LinesOf(tx, "+") PROVE Declared(tx, i, tx[i].to)
    <3>1. i \in 1 .. n /\ i \in LinesOf(tx2, "+")
      BY <1>1, <1>7
    <3>2. Declared(tx2, i, tx2[i].to)
      BY <1>10, <3>1 DEF Taken
    <3>. QED
      BY <1>1, <1>8, <3>1, <3>2
  <2>5. ASSUME l.op \in {"+", "@"} PROVE TakesIn(st, l)
    <3>1. n + 1 \in LinesOf(tx2, "+") \cup LinesOf(tx2, "@")
      BY <1>1, <2>5
    <3>2. Declared(tx2, n + 1, l.from) /\ l.ev.type \in DOMAIN Type
      BY <1>1, <1>10, <3>1 DEF Taken
    <3>3. l.op = "+" => Declared(tx2, n + 1, l.to)
      BY <1>1, <1>10 DEF Taken
    <3>. QED
      BY <1>9, <3>2, <3>3 DEF TakesIn
  <2>. QED
    BY <1>1, <2>1, <2>2, <2>3, <2>4, <2>5 DEF Taken
<1>11. ASSUME Taken(tx), l.op \notin {"bad", "cut"}, l.op \in {"+", "@"} => TakesIn(st, l)
       PROVE  Taken(tx2)
  <2>1. \A i \in 1 .. n + 1 : tx2[i].op \notin {"bad", "cut"}
    BY <1>1, <1>2, <1>11 DEF Taken
  <2>2. ASSUME NEW i \in LinesOf(tx2, "+") \cup LinesOf(tx2, "@")
        PROVE  Declared(tx2, i, tx2[i].from) /\ tx2[i].ev.type \in DOMAIN Type
    <3>1. CASE i = n + 1
      <4>1. l.op \in {"+", "@"}
        BY <1>1, <1>6, <3>1
      <4>. QED
        BY <1>1, <1>9, <1>11, <3>1, <4>1 DEF TakesIn
    <3>2. CASE i # n + 1
      <4>1. i \in 1 .. n /\ i \in LinesOf(tx, "+") \cup LinesOf(tx, "@")
        BY <1>1, <1>6, <3>2
      <4>2. Declared(tx, i, tx[i].from) /\ tx[i].ev.type \in DOMAIN Type
        BY <1>11, <4>1 DEF Taken
      <4>. QED
        BY <1>1, <1>8, <4>1, <4>2
    <3>. QED
      BY <3>1, <3>2
  <2>3. ASSUME NEW i \in LinesOf(tx2, "+") PROVE Declared(tx2, i, tx2[i].to)
    <3>1. CASE i = n + 1
      <4>1. l.op = "+"
        BY <1>1, <1>6, <3>1
      <4>. QED
        BY <1>1, <1>9, <1>11, <3>1, <4>1 DEF TakesIn
    <3>2. CASE i # n + 1
      <4>1. i \in 1 .. n /\ i \in LinesOf(tx, "+")
        BY <1>1, <1>6, <3>2
      <4>2. Declared(tx, i, tx[i].to)
        BY <1>11, <4>1 DEF Taken
      <4>. QED
        BY <1>1, <1>8, <4>1, <4>2
    <3>. QED
      BY <3>1, <3>2
  <2>. QED
    BY <1>1, <2>1, <2>2, <2>3 DEF Taken
<1>. QED
  BY <1>10, <1>11

(* What the lines say of the transitions, of the actions of state k.           *)
TransSay(tx, st, k) == Collected(st[k].trans, LinesFor(tx, "+", st, k), TransOf(tx, st))
ActionsSay(tx, st, k) == Collected(st[k].actions, LinesFor(tx, "@", st, k), ActionOf(tx))

(* The states the lines of tx use are found in st2 as in st.                  *)
FoundAlike(tx, st, st2) ==
  /\ \A i \in LinesOf(tx, "+") \cup LinesOf(tx, "@") : FoundIn(st2, tx[i].from) = FoundIn(st, tx[i].from)
  /\ \A i \in LinesOf(tx, "+") : FoundIn(st2, tx[i].to) = FoundIn(st, tx[i].to)

LEMMA UsedAreFound ==
  ASSUME NEW tx, NEW m \in Nat, NEW st, DOMAIN st = 1 .. m, NamesSay(tx, st), Taken(tx)
  PROVE  /\ \A i \in LinesOf(tx, "+") \cup LinesOf(tx, "@") : FoundIn(st, tx[i].from) # 0
         /\ \A i \in LinesOf(tx, "+") : FoundIn(st, tx[i].to) # 0
<1>1. \A name : FoundIn(st, name) # 0 <=> \E j \in LinesOf(tx, "$") : tx[j].name = name
  BY FoundIfDeclared
<1>2. \A i, name : Declared(tx, i, name) => FoundIn(st, name) # 0
  BY <1>1 DEF Declared
<1>. QED
  BY <1>2 DEF Taken

LEMMA TransKept ==
  ASSUME NEW tx, NEW tx2, NEW l, NEW n \in Nat, n = Len(tx), OneMore(tx, tx2, l),
         NEW st, NEW st2, FoundAlike(tx, st, st2),
         NEW k, TransSay(tx, st, k), st2[k].trans = st[k].trans,
         l.op # "+" \/ FoundIn(st2, l.from) # k
  PROVE  TransSay(tx2, st2, k)
<1>1. /\ DOMAIN tx = 1 .. n /\ DOMAIN tx2 = 1 .. n + 1
      /\ \A i \in 1 .. n : tx2[i] = tx[i] /\ i \in 1 .. n + 1
      /\ LinesOf(tx, "+") \in SUBSET (1 .. n)
  <2>1. AddsLine(tx, tx2, l, n)
    BY LineAdded
  <2>. QED
    BY <2>1 DEF AddsLine
<1>2. LinesFor(tx2, "+", st2, k) = LinesFor(tx, "+", st, k)
  <2>1. FromAlike(tx, "+", st, st2)
    BY DEF FoundAlike, FromAlike
  <2>2. l.op # "+" \/ FoundIn(st2, l.from) # k
    OBVIOUS
  <2>. QED
    BY ONLY n \in Nat, n = Len(tx), OneMore(tx, tx2, l), <2>1, <2>2, LinesForAdded
<1>3. LinesFor(tx, "+", st, k) \subseteq LinesOf(tx, "+")
  BY DEF LinesFor
<1>4. \A i \in LinesFor(tx, "+", st, k) : TransOf(tx2, st2)[i] = TransOf(tx, st)[i]
  BY <1>1, <1>3 DEF FoundAlike, TransOf
<1>. QED
  BY <1>2, <1>4, CollectedSame DEF TransSay

LEMMA ActionsKept ==
  ASSUME NEW tx, NEW tx2, NEW l, NEW n \in Nat, n = Len(tx), OneMore(tx, tx2, l),
         NEW st, NEW st2, FoundAlike(tx, st, st2),
         NEW k, ActionsSay(tx, st, k), st2[k].actions = st[k].actions,
         l.op # "@" \/ FoundIn(st2, l.from) # k
  PROVE  ActionsSay(tx2, st2, k)
<1>1. /\ DOMAIN tx = 1 .. n /\ DOMAIN tx2 = 1 .. n + 1
      /\ \A i \in 1 .. n : tx2[i] = tx[i] /\ i \in 1 .. n + 1
      /\ LinesOf(tx, "@") \in SUBSET (1 .. n)
  <2>1. AddsLine(tx, tx2, l, n)
    BY LineAdded
  <2>. QED
    BY <2>1 DEF AddsLine
<1>2. LinesFor(tx2, "@", st2, k) = LinesFor(tx, "@", st, k)
  <2>1. FromAlike(tx, "@", st, st2)
    BY DEF FoundAlike, FromAlike
  <2>2. l.op # "@" \/ FoundIn(st2, l.from) # k
    OBVIOUS
  <2>. QED
    BY ONLY n \in Nat, n = Len(tx), OneMore(tx, tx2, l), <2>1, <2>2, LinesForAdded
<1>3. LinesFor(tx, "@", st, k) \subseteq LinesOf(tx, "@")
  BY DEF LinesFor
<1>4. \A i \in LinesFor(tx, "@", st, k) : ActionOf(tx2)[i] = ActionOf(tx)[i]
  BY <1>1, <1>3 DEF ActionOf
<1>. QED
  BY <1>2, <1>4, CollectedSame DEF ActionsSay

LEMMA TransMore ==
  ASSUME NEW tx, NEW tx2, NEW l, NEW n \in Nat, n = Len(tx), OneMore(tx, tx2, l),
         NEW st, NEW st2, FoundAlike(tx, st, st2),
         NEW k, TransSay(tx, st, k),
         NEW x, x = [ecode |-> Ecode(l.ev), next |-> FoundIn(st2, l.to)],
         OneMore(st[k].trans, st2[k].trans, x),
         l.op = "+", FoundIn(st2, l.from) = k
  PROVE  TransSay(tx2, st2, k)
<1>1. /\ DOMAIN tx = 1 .. n /\ DOMAIN tx2 = 1 .. n + 1
      /\ \A i \in 1 .. n : tx2[i] = tx[i] /\ i \in 1 .. n + 1
      /\ tx2[n + 1] = l
      /\ LinesOf(tx, "+") \in SUBSET (1 .. n)
  <2>1. AddsLine(tx, tx2, l, n)
    BY LineAdded
  <2>. QED
    BY <2>1 DEF AddsLine
<1>2. /\ LinesFor(tx2, "+", st2, k) = LinesFor(tx, "+", st, k) \cup {n + 1}
      /\ LinesFor(tx, "+", st, k) \in SUBSET (1 .. n)
  <2>1. FromAlike(tx, "+", st, st2)
    BY DEF FoundAlike, FromAlike
  <2>2. l.op = "+" /\ FoundIn(st2, l.from) = k
    OBVIOUS
  <2>. QED
    BY ONLY n \in Nat, n = Len(tx), OneMore(tx, tx2, l), <2>1, <2>2, LinesForAdded
<1>3. LinesFor(tx, "+", st, k) \subseteq LinesOf(tx, "+")
  BY DEF LinesFor
<1>4. \A i \in LinesFor(tx, "+", st, k) : TransOf(tx2, st2)[i] = TransOf(tx, st)[i]
  BY <1>1, <1>3 DEF FoundAlike, TransOf
<1>5. n + 1 \in 1 .. n + 1
  OBVIOUS
<1>6. TransOf(tx2, st2)[n + 1] = x
  BY <1>1, <1>5 DEF TransOf
<1>7. PICK P, s, t, f, g : /\ P = LinesFor(tx, "+", st, k) /\ s = st[k].trans /\ t = st2[k].trans
                           /\ f = TransOf(tx, st) /\ g = TransOf(tx2, st2)
  OBVIOUS
<1>8. Collected(s, P, f) /\ OneMore(s, t, x) /\ P \subseteq 1 .. n /\ (\A i \in P : g[i] = f[i]) /\ g[n + 1] = x
  BY <1>2, <1>4, <1>6, <1>7 DEF TransSay
<1>9. Collected(t, P \cup {n + 1}, g)
  BY ONLY n \in Nat, <1>8, CollectedMore
<1>. QED
  BY <1>2, <1>7, <1>9 DEF TransSay

LEMMA ActionsMore ==
  ASSUME NEW tx, NEW tx2, NEW l, NEW n \in Nat, n = Len(tx), OneMore(tx, tx2, l),
         NEW st, NEW st2, FoundAlike(tx, st, st2),
         NEW k, ActionsSay(tx, st, k),
         NEW x, x = [ecode |-> Ecode(l.ev), func |-> <<l.from, l.ev>>],
         OneMore(st[k].actions, st2[k].actions, x),
         l.op = "@", FoundIn(st2, l.from) = k
  PROVE  ActionsSay(tx2, st2, k)
<1>1. /\ DOMAIN tx = 1 .. n /\ DOMAIN tx2 = 1 .. n + 1
      /\ \A i \in 1 .. n : tx2[i] = tx[i] /\ i \in 1 .. n + 1
      /\ tx2[n + 1] = l
      /\ LinesOf(tx, "@") \in SUBSET (1 .. n)
  <2>1. AddsLine(tx, tx2, l, n)
    BY LineAdded
  <2>. QED
    BY <2>1 DEF AddsLine
<1>2. /\ LinesFor(tx2, "@", st2, k) = LinesFor(tx, "@", st, k) \cup {n + 1}
      /\ LinesFor(tx, "@", st, k) \in SUBSET (1 .. n)
  <2>1. FromAlike(tx, "@", st, st2)
    BY DEF FoundAlike, FromAlike
  <2>2. l.op = "@" /\ FoundIn(st2, l.from) = k
    OBVIOUS
  <2>. QED
    BY ONLY n \in Nat, n = Len(tx), OneMore(tx, tx2, l), <2>1, <2>2, LinesForAdded
<1>3. LinesFor(tx, "@", st, k) \subseteq LinesOf(tx, "@")
  BY DEF LinesFor
<1>4. \A i \in LinesFor(tx, "@", st, k) : ActionOf(tx2)[i] = ActionOf(tx)[i]
  BY <1>1, <1>3 DEF ActionOf
<1>5. n + 1 \in 1 .. n + 1
  OBVIOUS
<1>6. ActionOf(tx2)[n + 1] = x
  BY <1>1, <1>5 DEF ActionOf
<1>7. PICK P, s, t, f, g : /\ P = LinesFor(tx, "@", st, k) /\ s = st[k].actions /\ t = st2[k].actions
                           /\ f = ActionOf(tx) /\ g = ActionOf(tx2)
  OBVIOUS
<1>8. Collected(s, P, f) /\ OneMore(s, t, x) /\ P \subseteq 1 .. n /\ (\A i \in P : g[i] = f[i]) /\ g[n + 1] = x
  BY <1>2, <1>4, <1>6, <1>7 DEF ActionsSay
<1>9. Collected(t, P \cup {n + 1}, g)
  BY ONLY n \in Nat, <1>8, CollectedMore
<1>. QED
  BY <1>2, <1>7, <1>9 DEF ActionsSay

(* Names: as they were, or one more.                                        *)
LEMMA NamesKept ==
  ASSUME NEW tx, NEW tx2, NEW l, NEW n \in Nat, n = Len(tx), OneMore(tx, tx2, l),
         NEW m \in Nat, NEW st, DOMAIN st = 1 .. m, NEW st2, DOMAIN st2 = 1 .. m,
         \A k \in 1 .. m : st2[k].name = st[k].name,
         NamesSay(tx, st), l.op # "$"
  PROVE  NamesSay(tx2, st2)
<1>1. /\ DOMAIN tx = 1 .. n /\ DOMAIN tx2 = 1 .. n + 1
      /\ \A i \in 1 .. n : tx2[i] = tx[i] /\ i \in 1 .. n + 1
      /\ LinesOf(tx, "$") \in SUBSET (1 .. n) /\ LinesOf(tx2, "$") = LinesOf(tx, "$")
  <2>1. AddsLine(tx, tx2, l, n)
    BY LineAdded
  <2>. QED
    BY <2>1 DEF AddsLine
<1>2. \A i \in LinesOf(tx, "$") : NameOf(tx2)[i] = NameOf(tx)[i]
  BY <1>1 DEF NameOf
<1>3. [k \in DOMAIN st2 |-> st2[k].name] = [k \in DOMAIN st |-> st[k].name]
  OBVIOUS
<1>. QED
  BY <1>1, <1>2, <1>3, CollectedSame DEF NamesSay

LEMMA NamesMore ==
  ASSUME NEW tx, NEW tx2, NEW l, NEW n \in Nat, n = Len(tx), OneMore(tx, tx2, l),
         NEW m \in Nat, NEW st, DOMAIN st = 1 .. m, NEW st2, DOMAIN st2 = 1 .. m + 1,
         \A k \in 1 .. m : st2[k].name = st[k].name, st2[m + 1].name = l.name,
         NamesSay(tx, st), l.op = "$"
  PROVE  NamesSay(tx2, st2)
<1>1. /\ DOMAIN tx = 1 .. n /\ DOMAIN tx2 = 1 .. n + 1
      /\ \A i \in 1 .. n : tx2[i] = tx[i] /\ i \in 1 .. n + 1
      /\ tx2[n + 1] = l
      /\ LinesOf(tx, "$") \in SUBSET (1 .. n) /\ LinesOf(tx2, "$") = LinesOf(tx, "$") \cup {n + 1}
  <2>1. AddsLine(tx, tx2, l, n)
    BY LineAdded
  <2>. QED
    BY <2>1 DEF AddsLine
<1>2. \A i \in LinesOf(tx, "$") : NameOf(tx2)[i] = NameOf(tx)[i]
  BY <1>1 DEF NameOf
<1>3. NameOf(tx2)[n + 1] = l.name
  <2>1. n + 1 \in 1 .. n + 1
    OBVIOUS
  <2>. QED
    BY <1>1, <2>1 DEF NameOf
<1>4. PICK P, s, t, f, g : /\ P = LinesOf(tx, "$") /\ f = NameOf(tx) /\ g = NameOf(tx2)
                           /\ s = [k \in DOMAIN st |-> st[k].name] /\ t = [k \in DOMAIN st2 |-> st2[k].name]
  OBVIOUS
<1>5. OneMore(s, t, l.name)
  <2>1. /\ s = [k \in 1 .. m |-> st[k].name] /\ t = [k \in 1 .. m + 1 |-> st2[k].name]
        /\ m + 1 \in Nat
    BY <1>4
  <2>2. Len(s) = m /\ Len(t) = m + 1 /\ DOMAIN s = 1 .. m /\ DOMAIN t = 1 .. m + 1
    BY ONLY m \in Nat, <2>1
  <2>3. \A k \in 1 .. m : t[k] = s[k]
    BY <2>1
  <2>4. t[m + 1] = l.name
    BY <2>1
  <2>. QED
    BY <2>2, <2>3, <2>4 DEF OneMore
<1>6. Collected(s, P, f) /\ P \subseteq 1 .. n /\ (\A i \in P : g[i] = f[i]) /\ g[n + 1] = l.name
  BY <1>1, <1>2, <1>3, <1>4 DEF NamesSay
<1>7. Collected(t, P \cup {n + 1}, g)
  BY ONLY n \in Nat, <1>5, <1>6, CollectedMore
<1>. QED
  BY <1>1, <1>4, <1>7 DEF NamesSay

LEMMA StatesSayIf ==
  ASSUME NEW tx, NEW st
  PROVE  StatesSay(tx, st) <=> /\ NamesSay(tx, st)
                               /\ \A k \in DOMAIN st : TransSay(tx, st, k) /\ ActionsSay(tx, st, k)
BY DEF StatesSay, NamesSay, TransSay, ActionsSay

(* With the same names the same states are found.                            *)
LEMMA SameNames ==
  ASSUME NEW tx, NEW m \in Nat, NEW st, DOMAIN st = 1 .. m, NEW st2, DOMAIN st2 = 1 .. m,
         \A k \in 1 .. m : st2[k].name = st[k].name
  PROVE  FoundAlike(tx, st, st2) /\ \A name : FoundIn(st2, name) = FoundIn(st, name)
<1>1. ASSUME NEW name PROVE FoundIn(st2, name) = FoundIn(st, name)
  <2>1. m <= m
    OBVIOUS
  <2>. QED
    BY <2>1, FoundStays
<1>. QED
  BY <1>1 DEF FoundAlike

LEMMA StatesSame ==
  ASSUME NEW tx, NEW tx2, NEW l, NEW n \in Nat, n = Len(tx), OneMore(tx, tx2, l),
         NEW m \in Nat, NEW st, DOMAIN st = 1 .. m, StatesSay(tx, st),
         l.op \notin {"$", "+", "@"}
  PROVE  StatesSay(tx2, st)
<1>1. NamesSay(tx, st) /\ \A k \in 1 .. m : TransSay(tx, st, k) /\ ActionsSay(tx, st, k)
  BY StatesSayIf
<1>2. FoundAlike(tx, st, st)
  BY DEF FoundAlike
<1>3. NamesSay(tx2, st)
  BY <1>1, NamesKept
<1>4. ASSUME NEW k \in 1 .. m PROVE TransSay(tx2, st, k)
  BY <1>1, <1>2, TransKept
<1>5. ASSUME NEW k \in 1 .. m PROVE ActionsSay(tx2, st, k)
  BY <1>1, <1>2, ActionsKept
<1>. QED
  BY <1>3, <1>4, <1>5, StatesSayIf

(* The line adds a transition to state q, and nothing else to the states.     *)
AddsTrans(st, st2, q, x) ==
  /\ DOMAIN st2 = DOMAIN st
  /\ \A k \in DOMAIN st : k # q => st2[k] = st[k]
  /\ st2[q].name = st[q].name /\ st2[q].actions = st[q].actions
  /\ OneMore(st[q].trans, st2[q].trans, x)

AddsAction(st, st2, q, x) ==
  /\ DOMAIN st2 = DOMAIN st
  /\ \A k \in DOMAIN st : k # q => st2[k] = st[k]
  /\ st2[q].name = st[q].name /\ st2[q].trans = st[q].trans
  /\ OneMore(st[q].actions, st2[q].actions, x)

LEMMA StatesTrans ==
  ASSUME NEW tx, NEW tx2, NEW l, NEW n \in Nat, n = Len(tx), OneMore(tx, tx2, l),
         NEW m \in Nat, NEW st, DOMAIN st = 1 .. m, StatesSay(tx, st),
         l.op = "+", NEW q \in 1 .. m, q = FoundIn(st, l.from),
         NEW st2,
         NEW x, x = [ecode |-> Ecode(l.ev), next |-> FoundIn(st, l.to)],
         AddsTrans(st, st2, q, x)
  PROVE  StatesSay(tx2, st2)
<1>0. /\ DOMAIN st2 = 1 .. m /\ \A k \in 1 .. m : k # q => st2[k] = st[k]
      /\ st2[q].name = st[q].name /\ st2[q].actions = st[q].actions
      /\ OneMore(st[q].trans, st2[q].trans, x)
  BY DEF AddsTrans
<1>1. NamesSay(tx, st) /\ \A k \in 1 .. m : TransSay(tx, st, k) /\ ActionsSay(tx, st, k)
  BY StatesSayIf
<1>2. \A k \in 1 .. m : st2[k].name = st[k].name /\ st2[k].actions = st[k].actions
  BY <1>0
<1>3. FoundAlike(tx, st, st2) /\ \A name : FoundIn(st2, name) = FoundIn(st, name)
  <2>1. \A k \in 1 .. m : st2[k].name = st[k].name
    BY <1>2
  <2>. QED
    BY ONLY m \in Nat, DOMAIN st = 1 .. m, <1>0, <2>1, SameNames
<1>4. NamesSay(tx2, st2)
  BY <1>0, <1>1, <1>2, NamesKept
<1>5. ASSUME NEW k \in 1 .. m PROVE TransSay(tx2, st2, k)
  <2>1. CASE k = q
    <3>1. FoundIn(st2, l.from) = k /\ x = [ecode |-> Ecode(l.ev), next |-> FoundIn(st2, l.to)]
      BY <1>3, <2>1
    <3>. QED
      BY <1>1, <1>3, <2>1, <3>1, <1>0, TransMore
  <2>2. CASE k # q
    <3>1. st2[k].trans = st[k].trans /\ FoundIn(st2, l.from) # k
      BY <1>0, <1>3, <2>2
    <3>. QED
      BY <1>1, <1>3, <3>1, TransKept
  <2>. QED
    BY <2>1, <2>2
<1>6. ASSUME NEW k \in 1 .. m PROVE ActionsSay(tx2, st2, k)
  BY <1>1, <1>2, <1>3, ActionsKept
<1>. QED
  BY <1>0, <1>4, <1>5, <1>6, StatesSayIf

LEMMA StatesAction ==
  ASSUME NEW tx, NEW tx2, NEW l, NEW n \in Nat, n = Len(tx), OneMore(tx, tx2, l),
         NEW m \in Nat, NEW st, DOMAIN st = 1 .. m, StatesSay(tx, st),
         l.op = "@", NEW q \in 1 .. m, q = FoundIn(st, l.from),
         NEW st2,
         NEW x, x = [ecode |-> Ecode(l.ev), func |-> <<l.from, l.ev>>],
         AddsAction(st, st2, q, x)
  PROVE  StatesSay(tx2, st2)
<1>0. /\ DOMAIN st2 = 1 .. m /\ \A k \in 1 .. m : k # q => st2[k] = st[k]
      /\ st2[q].name = st[q].name /\ st2[q].trans = st[q].trans
      /\ OneMore(st[q].actions, st2[q].actions, x)
  BY DEF AddsAction
<1>1. NamesSay(tx, st) /\ \A k \in 1 .. m : TransSay(tx, st, k) /\ ActionsSay(tx, st, k)
  BY StatesSayIf
<1>2. \A k \in 1 .. m : st2[k].name = st[k].name /\ st2[k].trans = st[k].trans
  BY <1>0
<1>3. FoundAlike(tx, st, st2) /\ \A name : FoundIn(st2, name) = FoundIn(st, name)
  <2>1. \A k \in 1 .. m : st2[k].name = st[k].name
    BY <1>2
  <2>. QED
    BY ONLY m \in Nat, DOMAIN st = 1 .. m, <1>0, <2>1, SameNames
<1>4. NamesSay(tx2, st2)
  BY <1>0, <1>1, <1>2, NamesKept
<1>5. ASSUME NEW k \in 1 .. m PROVE ActionsSay(tx2, st2, k)
  <2>1. CASE k = q
    <3>1. FoundIn(st2, l.from) = k
      BY <1>3, <2>1
    <3>. QED
      BY <1>1, <1>3, <2>1, <3>1, <1>0, ActionsMore
  <2>2. CASE k # q
    <3>1. st2[k].actions = st[k].actions /\ FoundIn(st2, l.from) # k
      BY <1>0, <1>3, <2>2
    <3>. QED
      BY <1>1, <1>3, <3>1, ActionsKept
  <2>. QED
    BY <2>1, <2>2
<1>6. ASSUME NEW k \in 1 .. m PROVE TransSay(tx2, st2, k)
  BY <1>1, <1>2, <1>3, TransKept
<1>. QED
  BY <1>0, <1>4, <1>5, <1>6, StatesSayIf

LEMMA StatesDeclare ==
  ASSUME NEW tx, NEW tx2, NEW l, NEW n \in Nat, n = Len(tx), OneMore(tx, tx2, l),
         NEW m \in Nat, NEW st, DOMAIN st = 1 .. m, StatesSay(tx, st), Taken(tx),
         l.op = "$",
         NEW st2, m = Len(st), OneMore(st, st2, NewState(l.name))
  PROVE  StatesSay(tx2, st2)
<1>0. DOMAIN st2 = 1 .. m + 1 /\ (\A k \in 1 .. m : st2[k] = st[k]) /\ st2[m + 1] = NewState(l.name)
  BY DEF OneMore
<1>1. NamesSay(tx, st) /\ \A k \in 1 .. m : TransSay(tx, st, k) /\ ActionsSay(tx, st, k)
  BY StatesSayIf
<1>2. st2[m + 1].name = l.name /\ st2[m + 1].trans = << >> /\ st2[m + 1].actions = << >>
  BY <1>0 DEF NewState
<1>3. /\ \A i \in LinesOf(tx, "+") \cup LinesOf(tx, "@") : FoundIn(st, tx[i].from) # 0
      /\ \A i \in LinesOf(tx, "+") : FoundIn(st, tx[i].to) # 0
  BY <1>1, UsedAreFound
<1>4. ASSUME NEW name, FoundIn(st, name) # 0 PROVE FoundIn(st2, name) = FoundIn(st, name)
  <2>1. m + 1 \in Nat /\ m <= m + 1 /\ \A k \in 1 .. m : st2[k].name = st[k].name
    BY <1>0
  <2>. QED
    BY <1>0, <1>4, <2>1, FoundStays, SMTT(30)
<1>5. FoundAlike(tx, st, st2)
  BY <1>3, <1>4 DEF FoundAlike
<1>6. NamesSay(tx2, st2)
  <2>1. \A k \in 1 .. m : st2[k].name = st[k].name
    BY <1>0
  <2>. QED
    BY <1>0, <1>1, <1>2, <2>1, NamesMore
<1>7. ASSUME NEW k \in 1 .. m PROVE TransSay(tx2, st2, k) /\ ActionsSay(tx2, st2, k)
  <2>1. st2[k].trans = st[k].trans /\ st2[k].actions = st[k].actions
    BY <1>0
  <2>2. TransSay(tx2, st2, k)
    BY <1>1, <1>5, <2>1, TransKept
  <2>3. ActionsSay(tx2, st2, k)
    BY <1>1, <1>5, <2>1, ActionsKept
  <2>. QED
    BY <2>2, <2>3
<1>8. ASSUME NEW op, op \in {"+", "@"} PROVE LinesFor(tx2, op, st2, m + 1) = {}
  <2>1. LinesOf(tx2, op) = LinesOf(tx, op) /\ LinesOf(tx, op) \subseteq 1 .. n /\ \A i \in 1 .. n : tx2[i] = tx[i]
    <3>1. AddsLine(tx, tx2, l, n)
      BY LineAdded
    <3>. QED
      BY <1>8, <3>1 DEF AddsLine
  <2>2. ASSUME NEW i \in LinesOf(tx, op) PROVE FoundIn(st2, tx2[i].from) # m + 1
    <3>1. FoundIn(st2, tx2[i].from) = FoundIn(st, tx[i].from)
      BY <1>3, <1>4, <1>8, <2>1
    <3>2. FoundIn(st, tx[i].from) \in 0 .. m
      BY FoundFacts
    <3>. QED
      BY <3>1, <3>2
  <2>. QED
    BY <2>1, <2>2 DEF LinesFor
<1>9. TransSay(tx2, st2, m + 1) /\ ActionsSay(tx2, st2, m + 1)
  BY <1>2, <1>8, CollectedNone DEF TransSay, ActionsSay
<1>10. \A k \in 1 .. m + 1 : k \in 1 .. m \/ k = m + 1
  OBVIOUS
<1>. QED
  BY <1>0, <1>6, <1>7, <1>9, <1>10, StatesSayIf

(* Channels *)

LEMMA NumbersMore ==
  ASSUME NEW tx, NEW tx2, NEW l, NEW n \in Nat, n = Len(tx), OneMore(tx, tx2, l),
         NEW op, NEW s, Collected(s, LinesOf(tx, op), NumberOf(tx)),
         NEW t, IF l.op = op THEN OneMore(s, t, l.n) ELSE t = s
  PROVE  Collected(t, LinesOf(tx2, op), NumberOf(tx2))
<1>1. /\ DOMAIN tx = 1 .. n /\ DOMAIN tx2 = 1 .. n + 1
      /\ \A i \in 1 .. n : tx2[i] = tx[i] /\ i \in 1 .. n + 1
      /\ tx2[n + 1] = l
      /\ LinesOf(tx, op) \in SUBSET (1 .. n)
      /\ l.op = op => LinesOf(tx2, op) = LinesOf(tx, op) \cup {n + 1}
      /\ l.op # op => LinesOf(tx2, op) = LinesOf(tx, op)
  <2>1. AddsLine(tx, tx2, l, n)
    BY LineAdded
  <2>. QED
    BY <2>1 DEF AddsLine
<1>2. \A i \in LinesOf(tx, op) : NumberOf(tx2)[i] = NumberOf(tx)[i]
  BY <1>1 DEF NumberOf
<1>3. NumberOf(tx2)[n + 1] = l.n
  <2>1. n + 1 \in 1 .. n + 1
    OBVIOUS
  <2>. QED
    BY <1>1, <2>1 DEF NumberOf
<1>4. CASE l.op = op
  <2>1. PICK P, f, g : P = LinesOf(tx, op) /\ f = NumberOf(tx) /\ g = NumberOf(tx2)
    OBVIOUS
  <2>2. Collected(s, P, f) /\ OneMore(s, t, l.n) /\ P \subseteq 1 .. n /\ (\A i \in P : g[i] = f[i]) /\ g[n + 1] = l.n
    BY <1>1, <1>2, <1>3, <1>4, <2>1
  <2>3. Collected(t, P \cup {n + 1}, g)
    BY ONLY n \in Nat, <2>2, CollectedMore
  <2>. QED
    BY <1>1, <1>4, <2>1, <2>3
<1>5. CASE l.op # op
  BY <1>1, <1>2, <1>5, CollectedSame
<1>. QED
  BY <1>4, <1>5

LEMMA UsesMore ==
  ASSUME NEW tx, NEW tx2, NEW l, NEW n \in Nat, n = Len(tx), OneMore(tx, tx2, l), NEW t
  PROVE  Uses(tx2, t) <=> Uses(tx, t) \/ (l.op \in {"+", "@"} /\ l.ev.type = t)
<1>1. /\ DOMAIN tx = 1 .. n /\ DOMAIN tx2 = 1 .. n + 1
      /\ \A i \in 1 .. n : tx2[i] = tx[i] /\ i # n + 1
      /\ tx2[n + 1] = l
      /\ \A op : LinesOf(tx, op) \in SUBSET (1 .. n)
      /\ \A op : l.op = op => LinesOf(tx2, op) = LinesOf(tx, op) \cup {n + 1}
      /\ \A op : l.op # op => LinesOf(tx2, op) = LinesOf(tx, op)
  <2>1. AddsLine(tx, tx2, l, n)
    BY LineAdded
  <2>. QED
    BY <2>1 DEF AddsLine
<1>2. \A op : \A i : i \in LinesOf(tx2, op) <=> i \in LinesOf(tx, op) \/ (i = n + 1 /\ l.op = op)
  BY <1>1
<1>3. \A op : \A i \in LinesOf(tx, op) : tx2[i] = tx[i]
  BY <1>1
<1>4. ASSUME Uses(tx2, t) PROVE Uses(tx, t) \/ (l.op \in {"+", "@"} /\ l.ev.type = t)
  <2>1. PICK i \in LinesOf(tx2, "+") \cup LinesOf(tx2, "@") : tx2[i].ev.type = t
    BY <1>4 DEF Uses
  <2>. QED
    BY <1>1, <1>2, <1>3, <2>1 DEF Uses
<1>5. ASSUME Uses(tx, t) PROVE Uses(tx2, t)
  BY <1>2, <1>3, <1>5 DEF Uses
<1>6. ASSUME l.op \in {"+", "@"} /\ l.ev.type = t PROVE Uses(tx2, t)
  BY <1>1, <1>2, <1>6 DEF Uses
<1>. QED
  BY <1>4, <1>5, <1>6

(* What a line does to the fields that channels are made from.               *)
ChannelsStep(d, d2, l) ==
  /\ IF l.op = "T" THEN OneMore(d.timers, d2.timers, l.n) ELSE d2.timers = d.timers
  /\ IF l.op = "S" THEN OneMore(d.signals, d2.signals, l.n) ELSE d2.signals = d.signals
  /\ d2.nwatches = IF l.op = "F" THEN l.n ELSE d.nwatches
  /\ d2.has_data <=> d.has_data \/ (l.op \in {"+", "@"} /\ l.ev.type = "D")
  /\ d2.has_fsys <=> d.has_fsys \/ (l.op \in {"+", "@"} /\ l.ev.type = "F")

LEMMA ChannelsMore ==
  ASSUME NEW tx, NEW tx2, NEW l, NEW n \in Nat, n = Len(tx), OneMore(tx, tx2, l),
         NEW d, NEW d2, ChannelsSay(tx, d), ChannelsStep(d, d2, l)
  PROVE  ChannelsSay(tx2, d2)
<1>1. Collected(d2.timers, LinesOf(tx2, "T"), NumberOf(tx2))
  BY NumbersMore DEF ChannelsSay, ChannelsStep
<1>2. Collected(d2.signals, LinesOf(tx2, "S"), NumberOf(tx2))
  BY NumbersMore DEF ChannelsSay, ChannelsStep
<1>3. ASSUME NEW i \in LinesOf(tx2, "F"), \A j \in LinesOf(tx2, "F") : j <= i
      PROVE  d2.nwatches = tx2[i].n
  <2>1. /\ \A j \in 1 .. n : tx2[j] = tx[j] /\ j # n + 1
        /\ tx2[n + 1] = l
        /\ LinesOf(tx, "F") \in SUBSET (1 .. n)
        /\ l.op = "F" => LinesOf(tx2, "F") = LinesOf(tx, "F") \cup {n + 1}
        /\ l.op # "F" => LinesOf(tx2, "F") = LinesOf(tx, "F")
    <3>1. AddsLine(tx, tx2, l, n)
      BY LineAdded
    <3>. QED
      BY <3>1 DEF AddsLine
  <2>2. CASE l.op = "F"
    <3>1. n + 1 <= i
      BY <1>3, <2>1, <2>2
    <3>2. i = n + 1
      <4>1. i \in LinesOf(tx, "F") => i <= n /\ i \in Nat
        BY <2>1
      <4>. QED
        BY <2>1, <2>2, <3>1, <4>1
    <3>. QED
      BY <2>1, <2>2, <3>2 DEF ChannelsStep
  <2>3. CASE l.op # "F"
    <3>1. i \in LinesOf(tx, "F") /\ \A j \in LinesOf(tx, "F") : j <= i
      BY <1>3, <2>1, <2>3
    <3>2. d.nwatches = tx[i].n
      BY <3>1 DEF ChannelsSay
    <3>. QED
      BY <2>1, <2>3, <3>1, <3>2 DEF ChannelsStep
  <2>. QED
    BY <2>2, <2>3
<1>4. (d2.has_data <=> Uses(tx2, "D")) /\ (d2.has_fsys <=> Uses(tx2, "F"))
  <2>1. \A t : Uses(tx2, t) <=> Uses(tx, t) \/ (l.op \in {"+", "@"} /\ l.ev.type = t)
    BY UsesMore
  <2>2. (d.has_data <=> Uses(tx, "D")) /\ (d.has_fsys <=> Uses(tx, "F"))
    BY DEF ChannelsSay
  <2>. QED
    BY <2>1, <2>2 DEF ChannelsStep
<1>. QED
  BY <1>1, <1>2, <1>3, <1>4 DEF ChannelsSay

-----------------------------------------------------------------------------
(* What the lines do to a description, and the steps of its making. *)

LEMMA FoundIsFoundIn ==
  ASSUME NEW name
  PROVE  Found(name) = FoundIn(desc.states, name)
BY DEF Found, FoundIn

LEMMA DescFields ==
  ASSUME NEW d \in Desc
  PROVE  /\ d = [timers |-> d.timers, signals |-> d.signals, nwatches |-> d.nwatches, states |-> d.states,
                 has_data |-> d.has_data, has_fsys |-> d.has_fsys, nch |-> d.nch]
         /\ d.timers \in Seq(Int) /\ d.signals \in Seq(Int) /\ d.nwatches \in Int /\ d.states \in Seq(State)
         /\ d.has_data \in BOOLEAN /\ d.has_fsys \in BOOLEAN /\ d.nch \in Nat
BY DEF Desc

(* What a line that is taken does to the description, instruction by instruction. *)
LEMMA AfterChannel ==
  ASSUME desc \in Desc, NEW l \in Line, l.op \in {"T", "S", "F"}
  PROVE  After(l) \in Desc /\ After(l).states = desc.states /\ After(l).nch = desc.nch /\ ChannelsStep(desc, After(l), l)
<1>1. PICK d : d = desc
  OBVIOUS
<1>2. d \in Desc /\ l.n \in Int
  BY <1>1, LineAssumption
<1>3. /\ d = [timers |-> d.timers, signals |-> d.signals, nwatches |-> d.nwatches, states |-> d.states,
              has_data |-> d.has_data, has_fsys |-> d.has_fsys, nch |-> d.nch]
      /\ d.timers \in Seq(Int) /\ d.signals \in Seq(Int) /\ d.nwatches \in Int /\ d.states \in Seq(State)
      /\ d.has_data \in BOOLEAN /\ d.has_fsys \in BOOLEAN /\ d.nch \in Nat
  BY <1>2, DescFields
<1>4. PICK t, s : t = Append(d.timers, l.n) /\ s = Append(d.signals, l.n)
  OBVIOUS
<1>5. t \in Seq(Int) /\ OneMore(d.timers, t, l.n)
  BY <1>2, <1>3, <1>4, Appended, ZenonT(40)
<1>6. s \in Seq(Int) /\ OneMore(d.signals, s, l.n)
  BY <1>2, <1>3, <1>4, Appended, ZenonT(40)
<1>7. CASE l.op = "T"
  <2>1. After(l) = [d EXCEPT !.timers = t]
    BY <1>1, <1>4, <1>7 DEF After, WithTimer
  <2>2. After(l) = [timers |-> t, signals |-> d.signals, nwatches |-> d.nwatches, states |-> d.states,
                    has_data |-> d.has_data, has_fsys |-> d.has_fsys, nch |-> d.nch]
    BY <1>3, <2>1
  <2>. QED
    BY <1>1, <1>3, <1>5, <1>7, <2>2 DEF Desc, ChannelsStep
<1>8. CASE l.op = "S"
  <2>1. After(l) = [d EXCEPT !.signals = s]
    BY <1>1, <1>4, <1>8 DEF After, WithSignal
  <2>2. After(l) = [timers |-> d.timers, signals |-> s, nwatches |-> d.nwatches, states |-> d.states,
                    has_data |-> d.has_data, has_fsys |-> d.has_fsys, nch |-> d.nch]
    BY <1>3, <2>1
  <2>. QED
    BY <1>1, <1>3, <1>6, <1>8, <2>2 DEF Desc, ChannelsStep
<1>9. CASE l.op = "F"
  <2>1. After(l) = [d EXCEPT !.nwatches = l.n]
    BY <1>1, <1>9 DEF After, WithWatches
  <2>2. After(l) = [timers |-> d.timers, signals |-> d.signals, nwatches |-> l.n, states |-> d.states,
                    has_data |-> d.has_data, has_fsys |-> d.has_fsys, nch |-> d.nch]
    BY <1>3, <2>1
  <2>. QED
    BY <1>1, <1>2, <1>3, <1>9, <2>2 DEF Desc, ChannelsStep
<1>. QED
  BY <1>7, <1>8, <1>9

LEMMA AfterNothing ==
  ASSUME desc \in Desc, NEW l \in Line, l.op \notin {"T", "S", "F", "$", "+", "@"}
  PROVE  After(l) = desc /\ ChannelsStep(desc, After(l), l)
<1>1. After(l) = desc
  BY DEF After
<1>. QED
  BY <1>1 DEF ChannelsStep

LEMMA AfterDeclare ==
  ASSUME desc \in Desc, NEW l \in Line, l.op = "$"
  PROVE  /\ After(l) \in Desc /\ After(l).nch = desc.nch /\ ChannelsStep(desc, After(l), l)
         /\ OneMore(desc.states, After(l).states, NewState(l.name))
<1>1. PICK d : d = desc
  OBVIOUS
<1>2. d \in Desc
  BY <1>1
<1>3. /\ d = [timers |-> d.timers, signals |-> d.signals, nwatches |-> d.nwatches, states |-> d.states,
              has_data |-> d.has_data, has_fsys |-> d.has_fsys, nch |-> d.nch]
      /\ d.timers \in Seq(Int) /\ d.signals \in Seq(Int) /\ d.nwatches \in Int /\ d.states \in Seq(State)
      /\ d.has_data \in BOOLEAN /\ d.has_fsys \in BOOLEAN /\ d.nch \in Nat
  BY <1>2, DescFields
<1>4. PICK s : s = Append(d.states, NewState(l.name))
  OBVIOUS
<1>5. NewState(l.name) \in State
  BY DEF NewState, State
<1>6. s \in Seq(State) /\ OneMore(d.states, s, NewState(l.name))
  BY <1>3, <1>4, <1>5, Appended
<1>7. After(l) = [d EXCEPT !.states = s]
  BY <1>1, <1>4 DEF After
<1>8. After(l) = [timers |-> d.timers, signals |-> d.signals, nwatches |-> d.nwatches, states |-> s,
                  has_data |-> d.has_data, has_fsys |-> d.has_fsys, nch |-> d.nch]
  BY <1>3, <1>7
<1>. QED
  BY <1>1, <1>3, <1>6, <1>8 DEF Desc, ChannelsStep

LEMMA StateAt ==
  ASSUME NEW st \in Seq(State), NEW q \in DOMAIN st
  PROVE  /\ st[q] = [name |-> st[q].name, trans |-> st[q].trans, actions |-> st[q].actions]
         /\ st[q] \in State /\ st[q].trans \in Seq(Transition) /\ st[q].actions \in Seq(Action)
<1>1. st[q] \in State
  OBVIOUS
<1>. QED
  BY <1>1 DEF State

LEMMA StatePut ==
  ASSUME NEW st \in Seq(State), NEW q \in DOMAIN st, NEW z \in State, NEW st2, st2 = [st EXCEPT ![q] = z]
  PROVE  st2 \in Seq(State) /\ DOMAIN st2 = DOMAIN st /\ st2[q] = z /\ \A k \in DOMAIN st : k # q => st2[k] = st[k]
OBVIOUS

LEMMA AfterTrans ==
  ASSUME desc \in Desc, NEW l \in Line, l.op = "+",
         NEW q \in DOMAIN desc.states, q = FoundIn(desc.states, l.from),
         NEW x, x = [ecode |-> Ecode(l.ev), next |-> FoundIn(desc.states, l.to)]
  PROVE  /\ After(l) \in Desc /\ After(l).nch = desc.nch /\ ChannelsStep(desc, After(l), l)
         /\ AddsTrans(desc.states, After(l).states, q, x)
<1>1. PICK d : d = desc
  OBVIOUS
<1>2. d \in Desc
  BY <1>1
<1>3. /\ d = [timers |-> d.timers, signals |-> d.signals, nwatches |-> d.nwatches, states |-> d.states,
              has_data |-> d.has_data, has_fsys |-> d.has_fsys, nch |-> d.nch]
      /\ d.timers \in Seq(Int) /\ d.signals \in Seq(Int) /\ d.nwatches \in Int /\ d.states \in Seq(State)
      /\ d.has_data \in BOOLEAN /\ d.has_fsys \in BOOLEAN /\ d.nch \in Nat
  BY <1>2, DescFields
<1>4. PICK st, a, b : /\ st = d.states
                      /\ a = (d.has_data \/ l.ev.type = "D") /\ b = (d.has_fsys \/ l.ev.type = "F")
  OBVIOUS
<1>5. st \in Seq(State) /\ q \in DOMAIN st
  BY <1>1, <1>3, <1>4
<1>6. /\ st[q] = [name |-> st[q].name, trans |-> st[q].trans, actions |-> st[q].actions]
      /\ st[q] \in State /\ st[q].trans \in Seq(Transition) /\ st[q].actions \in Seq(Action)
  BY <1>5, StateAt
<1>7. x \in Transition
  <2>1. FoundIn(st, l.to) \in Nat
    <3>1. Len(st) \in Nat /\ DOMAIN st = 1 .. Len(st)
      BY <1>5
    <3>2. FoundIn(st, l.to) \in 0 .. Len(st)
      BY <3>1, FoundFacts
    <3>. QED
      BY <3>1, <3>2
  <2>. QED
    BY <1>1, <1>4, <2>1 DEF Transition, Code
<1>8. PICK v, u : v = st[q].trans /\ u = Append(v, x)
  OBVIOUS
<1>9. u \in Seq(Transition) /\ OneMore(st[q].trans, u, x)
  <2>1. v \in Seq(Transition)
    BY <1>6, <1>8
  <2>2. u \in Seq(Transition) /\ OneMore(v, u, x)
    BY ONLY <1>7, <1>8, <2>1, Appended
  <2>. QED
    BY <1>8, <2>2
<1>10. PICK z : z = [name |-> st[q].name, trans |-> u, actions |-> st[q].actions]
  OBVIOUS
<1>11. z \in State
  BY <1>6, <1>9, <1>10 DEF State
<1>12. PICK st2 : st2 = [st EXCEPT ![q] = z]
  OBVIOUS
<1>13. st2 \in Seq(State) /\ DOMAIN st2 = DOMAIN st /\ st2[q] = z /\ \A k \in DOMAIN st : k # q => st2[k] = st[k]
  BY <1>5, <1>11, <1>12, StatePut
<1>14. PICK e : e = [d EXCEPT !.has_data = a, !.has_fsys = b]
  OBVIOUS
<1>15. e = [timers |-> d.timers, signals |-> d.signals, nwatches |-> d.nwatches, states |-> st,
            has_data |-> a, has_fsys |-> b, nch |-> d.nch]
  BY <1>3, <1>4, <1>14
<1>16. After(l) = WithTrans(e, l)
  <2>1. WithFlags(d, l) = e
    BY <1>4, <1>14 DEF WithFlags
  <2>. QED
    BY <1>1, <2>1 DEF After
<1>17. After(l) = [e EXCEPT !.states[q].trans = Append(@, x)]
  BY <1>1, <1>16, FoundIsFoundIn DEF WithTrans
<1>18. After(l) = [e EXCEPT !.states = st2]
  <2>1. [st EXCEPT ![q].trans = Append(@, x)] = st2
    <3>1. [st[q] EXCEPT !.trans = Append(@, x)] = z
      <4>1. [st[q] EXCEPT !.trans = Append(@, x)] = [st[q] EXCEPT !.trans = u]
        BY <1>8
      <4>2. PICK y : y = st[q]
        OBVIOUS
      <4>3. y = [name |-> y.name, trans |-> y.trans, actions |-> y.actions]
        BY <1>6, <4>2
      <4>4. [y EXCEPT !.trans = u] = [name |-> y.name, trans |-> u, actions |-> y.actions]
        BY <4>3
      <4>. QED
        BY <1>10, <4>1, <4>2, <4>4
    <3>. QED
      BY <1>12, <3>1
  <2>2. e.states = st
    BY <1>15
  <2>. QED
    BY <1>17, <2>1, <2>2
<1>19. After(l) = [timers |-> d.timers, signals |-> d.signals, nwatches |-> d.nwatches, states |-> st2,
                   has_data |-> a, has_fsys |-> b, nch |-> d.nch]
  BY <1>15, <1>18
<1>20. After(l) \in Desc /\ After(l).nch = desc.nch /\ After(l).states = st2
  <2>1. a \in BOOLEAN /\ b \in BOOLEAN
    BY <1>4
  <2>. QED
    BY <1>1, <1>3, <1>13, <1>19, <2>1 DEF Desc
<1>21. ChannelsStep(desc, After(l), l)
  <2>1. (a <=> d.has_data \/ l.ev.type = "D") /\ (b <=> d.has_fsys \/ l.ev.type = "F")
    BY <1>4
  <2>2. (After(l).has_data <=> a) /\ (After(l).has_fsys <=> b)
    BY <1>19
  <2>. QED
    BY <1>1, <1>19, <2>1, <2>2 DEF ChannelsStep
<1>22. AddsTrans(desc.states, After(l).states, q, x)
  <2>1. st2[q].name = st[q].name /\ st2[q].actions = st[q].actions /\ st2[q].trans = u
    BY <1>10, <1>13
  <2>. QED
    BY <1>1, <1>4, <1>9, <1>13, <1>20, <2>1 DEF AddsTrans
<1>. QED
  BY <1>20, <1>21, <1>22

LEMMA AfterAction ==
  ASSUME desc \in Desc, NEW l \in Line, l.op = "@",
         NEW q \in DOMAIN desc.states, q = FoundIn(desc.states, l.from),
         NEW x, x = [ecode |-> Ecode(l.ev), func |-> <<l.from, l.ev>>]
  PROVE  /\ After(l) \in Desc /\ After(l).nch = desc.nch /\ ChannelsStep(desc, After(l), l)
         /\ AddsAction(desc.states, After(l).states, q, x)
<1>1. PICK d : d = desc
  OBVIOUS
<1>2. d \in Desc
  BY <1>1
<1>3. /\ d = [timers |-> d.timers, signals |-> d.signals, nwatches |-> d.nwatches, states |-> d.states,
              has_data |-> d.has_data, has_fsys |-> d.has_fsys, nch |-> d.nch]
      /\ d.timers \in Seq(Int) /\ d.signals \in Seq(Int) /\ d.nwatches \in Int /\ d.states \in Seq(State)
      /\ d.has_data \in BOOLEAN /\ d.has_fsys \in BOOLEAN /\ d.nch \in Nat
  BY <1>2, DescFields
<1>4. PICK st, a, b : /\ st = d.states
                      /\ a = (d.has_data \/ l.ev.type = "D") /\ b = (d.has_fsys \/ l.ev.type = "F")
  OBVIOUS
<1>5. st \in Seq(State) /\ q \in DOMAIN st
  BY <1>1, <1>3, <1>4
<1>6. /\ st[q] = [name |-> st[q].name, trans |-> st[q].trans, actions |-> st[q].actions]
      /\ st[q] \in State /\ st[q].trans \in Seq(Transition) /\ st[q].actions \in Seq(Action)
  BY <1>5, StateAt
<1>7. x \in Action
  BY DEF Action, Code
<1>8. PICK v, u : v = st[q].actions /\ u = Append(v, x)
  OBVIOUS
<1>9. u \in Seq(Action) /\ OneMore(st[q].actions, u, x)
  <2>1. v \in Seq(Action)
    BY <1>6, <1>8
  <2>2. u \in Seq(Action) /\ OneMore(v, u, x)
    BY ONLY <1>7, <1>8, <2>1, Appended
  <2>. QED
    BY <1>8, <2>2
<1>10. PICK z : z = [name |-> st[q].name, trans |-> st[q].trans, actions |-> u]
  OBVIOUS
<1>11. z \in State
  BY <1>6, <1>9, <1>10 DEF State
<1>12. PICK st2 : st2 = [st EXCEPT ![q] = z]
  OBVIOUS
<1>13. st2 \in Seq(State) /\ DOMAIN st2 = DOMAIN st /\ st2[q] = z /\ \A k \in DOMAIN st : k # q => st2[k] = st[k]
  BY <1>5, <1>11, <1>12, StatePut
<1>14. PICK e : e = [d EXCEPT !.has_data = a, !.has_fsys = b]
  OBVIOUS
<1>15. e = [timers |-> d.timers, signals |-> d.signals, nwatches |-> d.nwatches, states |-> st,
            has_data |-> a, has_fsys |-> b, nch |-> d.nch]
  BY <1>3, <1>4, <1>14
<1>16. After(l) = WithAction(e, l)
  <2>1. WithFlags(d, l) = e
    BY <1>4, <1>14 DEF WithFlags
  <2>. QED
    BY <1>1, <2>1 DEF After
<1>17. After(l) = [e EXCEPT !.states[q].actions = Append(@, x)]
  BY <1>1, <1>16, FoundIsFoundIn DEF WithAction
<1>18. After(l) = [e EXCEPT !.states = st2]
  <2>1. [st EXCEPT ![q].actions = Append(@, x)] = st2
    <3>1. [st[q] EXCEPT !.actions = Append(@, x)] = z
      <4>1. [st[q] EXCEPT !.actions = Append(@, x)] = [st[q] EXCEPT !.actions = u]
        BY <1>8
      <4>2. PICK y : y = st[q]
        OBVIOUS
      <4>3. y = [name |-> y.name, trans |-> y.trans, actions |-> y.actions]
        BY <1>6, <4>2
      <4>4. [y EXCEPT !.actions = u] = [name |-> y.name, trans |-> y.trans, actions |-> u]
        BY <4>3
      <4>. QED
        BY <1>10, <4>1, <4>2, <4>4
    <3>. QED
      BY <1>12, <3>1
  <2>2. e.states = st
    BY <1>15
  <2>. QED
    BY <1>17, <2>1, <2>2
<1>19. After(l) = [timers |-> d.timers, signals |-> d.signals, nwatches |-> d.nwatches, states |-> st2,
                   has_data |-> a, has_fsys |-> b, nch |-> d.nch]
  BY <1>15, <1>18
<1>20. After(l) \in Desc /\ After(l).nch = desc.nch /\ After(l).states = st2
  <2>1. a \in BOOLEAN /\ b \in BOOLEAN
    BY <1>4
  <2>. QED
    BY <1>1, <1>3, <1>13, <1>19, <2>1 DEF Desc
<1>21. ChannelsStep(desc, After(l), l)
  <2>1. (a <=> d.has_data \/ l.ev.type = "D") /\ (b <=> d.has_fsys \/ l.ev.type = "F")
    BY <1>4
  <2>2. (After(l).has_data <=> a) /\ (After(l).has_fsys <=> b)
    BY <1>19
  <2>. QED
    BY <1>1, <1>19, <2>1, <2>2 DEF ChannelsStep
<1>22. AddsAction(desc.states, After(l).states, q, x)
  <2>1. st2[q].name = st[q].name /\ st2[q].trans = st[q].trans /\ st2[q].actions = u
    BY <1>10, <1>13
  <2>. QED
    BY <1>1, <1>4, <1>9, <1>13, <1>20, <2>1 DEF AddsAction
<1>. QED
  BY <1>20, <1>21, <1>22

LEMMA NextsMore ==
  ASSUME NEW m \in Nat, NEW st, DOMAIN st = 1 .. m, NextsAreStates(st),
         NEW q \in 1 .. m, NEW x, x.next \in 1 .. m, NEW st2, AddsTrans(st, st2, q, x)
  PROVE  NextsAreStates(st2)
<1>1. /\ DOMAIN st2 = 1 .. m
      /\ \A k \in 1 .. m : k # q => st2[k] = st[k]
      /\ OneMore(st[q].trans, st2[q].trans, x)
  BY DEF AddsTrans
<1>2. ASSUME NEW k \in 1 .. m, NEW j \in DOMAIN st2[k].trans PROVE st2[k].trans[j].next \in 1 .. m
  <2>1. CASE k # q
    BY <1>1, <1>2, <2>1 DEF NextsAreStates
  <2>2. CASE k = q
    <3>1. PICK u, v, p : u = st[q].trans /\ v = st2[q].trans /\ p = Len(u)
      OBVIOUS
    <3>2. /\ p \in Nat /\ DOMAIN u = 1 .. p /\ DOMAIN v = 1 .. p + 1
          /\ \A i \in 1 .. p : v[i] = u[i]
          /\ v[p + 1] = x
      BY <1>1, <3>1 DEF OneMore
    <3>3. j \in 1 .. p + 1
      BY <1>2, <2>2, <3>1, <3>2
    <3>4. CASE j = p + 1
      BY <2>2, <3>1, <3>2, <3>4
    <3>5. CASE j # p + 1
      <4>1. j \in 1 .. p
        BY <3>2, <3>3, <3>5
      <4>2. u[j].next \in 1 .. m
        BY <3>1, <3>2, <4>1 DEF NextsAreStates
      <4>. QED
        BY <2>2, <3>1, <3>2, <4>1, <4>2
    <3>. QED
      BY <3>4, <3>5
  <2>. QED
    BY <2>1, <2>2
<1>. QED
  BY <1>1, <1>2 DEF NextsAreStates

(* A line that is taken leaves a description that says what the text says.     *)
LEMMA DescriptionGrows ==
  ASSUME SmdInv, phase = "reading", NEW l \in Line, NEW tx2, tx2 = Append(text, l),
         l.op \notin {"bad", "cut"}, l.op \in {"+", "@"} => TakesIn(desc.states, l)
  PROVE  /\ After(l) \in Desc /\ NextsAreStates(After(l).states)
         /\ Taken(tx2) /\ StatesSay(tx2, After(l).states) /\ ChannelsSay(tx2, After(l))
<1>1. PICK tx, st, n, m, st2 : /\ tx = text /\ st = desc.states /\ n = Len(text) /\ m = Len(desc.states)
                               /\ st2 = After(l).states
  OBVIOUS
<1>2. /\ tx \in Seq(Line) /\ desc \in Desc /\ NextsAreStates(st)
      /\ Taken(tx) /\ StatesSay(tx, st) /\ ChannelsSay(tx, desc)
  BY <1>1 DEF SmdInv
<1>3. n \in Nat /\ n = Len(tx) /\ OneMore(tx, tx2, l)
  <2>1. n \in Nat /\ n = Len(tx)
    BY <1>1, <1>2
  <2>2. tx2 = Append(tx, l)
    BY <1>1
  <2>. QED
    BY <1>2, <2>1, <2>2, Appended
<1>4. m \in Nat /\ DOMAIN st = 1 .. m /\ st \in Seq(State) /\ m = Len(st)
  BY <1>1, <1>2, DescFields
<1>5. Taken(tx2)
  <2>1. NamesSay(tx, st)
    BY <1>2, StatesSayIf
  <2>2. l.op \in {"+", "@"} => TakesIn(st, l)
    BY <1>1
  <2>. QED
    BY <1>2, <1>3, <1>4, <2>1, <2>2, TakenMore
<1>6. SUFFICES /\ After(l) \in Desc /\ NextsAreStates(st2) /\ StatesSay(tx2, st2)
               /\ ChannelsStep(desc, After(l), l)
  <2>1. ChannelsStep(desc, After(l), l) => ChannelsSay(tx2, After(l))
    BY <1>2, <1>3, ChannelsMore
  <2>. QED
    BY <1>1, <1>5, <2>1
<1>7. CASE l.op \notin {"$", "+", "@"}
  <2>1. After(l) \in Desc /\ st2 = st /\ ChannelsStep(desc, After(l), l)
    <3>1. CASE l.op \in {"T", "S", "F"}
      BY <1>1, <1>2, <3>1, AfterChannel
    <3>2. CASE l.op \notin {"T", "S", "F"}
      <4>1. l.op \notin {"T", "S", "F", "$", "+", "@"}
        BY <1>7, <3>2
      <4>. QED
        BY <1>1, <1>2, <4>1, AfterNothing
    <3>. QED
      BY <3>1, <3>2
  <2>2. StatesSay(tx2, st)
    BY <1>2, <1>3, <1>4, <1>7, StatesSame
  <2>. QED
    BY <1>2, <2>1, <2>2
<1>8. CASE l.op = "$"
  <2>1. After(l) \in Desc /\ ChannelsStep(desc, After(l), l) /\ OneMore(st, st2, NewState(l.name))
    BY <1>1, <1>2, <1>8, AfterDeclare
  <2>2. DOMAIN st2 = 1 .. m + 1 /\ (\A k \in 1 .. m : st2[k] = st[k]) /\ st2[m + 1] = NewState(l.name)
    BY <1>4, <2>1 DEF OneMore
  <2>3. StatesSay(tx2, st2)
    BY ONLY <1>2, <1>3, <1>4, <1>8, <2>1, StatesDeclare
  <2>4. NextsAreStates(st2)
    <3>1. \A k \in 1 .. m + 1 : k \in 1 .. m \/ k = m + 1
      BY <1>4
    <3>2. 1 .. m \subseteq 1 .. m + 1
      BY <1>4
    <3>3. DOMAIN st2[m + 1].trans = {}
      BY <2>2 DEF NewState
    <3>4. ASSUME NEW k \in 1 .. m + 1, NEW j \in DOMAIN st2[k].trans PROVE st2[k].trans[j].next \in 1 .. m + 1
      <4>1. k \in 1 .. m
        BY <3>1, <3>3, <3>4
      <4>2. st[k].trans[j].next \in 1 .. m
        BY <1>2, <1>4, <2>2, <3>4, <4>1 DEF NextsAreStates
      <4>. QED
        BY <2>2, <3>2, <4>1, <4>2
    <3>. QED
      BY <2>2, <3>4 DEF NextsAreStates
  <2>. QED
    BY <2>1, <2>3, <2>4
<1>9. CASE l.op = "+"
  <2>1. PICK q, p, x : /\ q = FoundIn(st, l.from) /\ p = FoundIn(st, l.to)
                       /\ x = [ecode |-> Ecode(l.ev), next |-> p]
    OBVIOUS
  <2>2. q \in 1 .. m /\ p \in 1 .. m
    <3>1. q # 0 /\ p # 0
      BY <1>1, <1>9, <2>1 DEF TakesIn
    <3>2. q \in 0 .. m /\ p \in 0 .. m
      BY <1>4, <2>1, FoundFacts
    <3>. QED
      BY <1>4, <3>1, <3>2
  <2>3. After(l) \in Desc /\ ChannelsStep(desc, After(l), l) /\ AddsTrans(st, st2, q, x)
    BY <1>1, <1>2, <1>4, <1>9, <2>1, <2>2, AfterTrans
  <2>4. NextsAreStates(st2)
    <3>1. x.next \in 1 .. m
      BY <2>1, <2>2
    <3>. QED
      BY <1>2, <1>4, <2>2, <2>3, <3>1, NextsMore
  <2>5. x = [ecode |-> Ecode(l.ev), next |-> FoundIn(st, l.to)]
    BY <2>1
  <2>6. StatesSay(tx2, st2)
    BY ONLY <1>2, <1>3, <1>4, <1>9, <2>1, <2>2, <2>3, <2>5, StatesTrans
  <2>. QED
    BY <2>3, <2>4, <2>6
<1>10. CASE l.op = "@"
  <2>1. PICK q, x : q = FoundIn(st, l.from) /\ x = [ecode |-> Ecode(l.ev), func |-> <<l.from, l.ev>>]
    OBVIOUS
  <2>2. q \in 1 .. m
    <3>1. q # 0
      BY <1>1, <1>10, <2>1 DEF TakesIn
    <3>2. q \in 0 .. m
      BY <1>4, <2>1, FoundFacts
    <3>. QED
      BY <1>4, <3>1, <3>2
  <2>3. After(l) \in Desc /\ ChannelsStep(desc, After(l), l) /\ AddsAction(st, st2, q, x)
    BY <1>1, <1>2, <1>4, <1>10, <2>1, <2>2, AfterAction, SMTT(30)
  <2>4. /\ DOMAIN st2 = 1 .. m /\ \A k \in 1 .. m : k # q => st2[k] = st[k]
        /\ st2[q].name = st[q].name /\ st2[q].trans = st[q].trans
        /\ OneMore(st[q].actions, st2[q].actions, x)
    BY <1>4, <2>3 DEF AddsAction
  <2>5. NextsAreStates(st2)
    <3>1. \A k \in 1 .. m : st2[k].trans = st[k].trans
      BY <2>4
    <3>. QED
      BY <1>2, <1>4, <2>4, <3>1 DEF NextsAreStates
  <2>6. StatesSay(tx2, st2)
    BY ONLY <1>2, <1>3, <1>4, <1>10, <2>1, <2>2, <2>3, StatesAction
  <2>. QED
    BY <2>3, <2>5, <2>6
<1>. QED
  BY <1>7, <1>8, <1>9, <1>10

(* The functions that the states name are those the text names.              *)
LEMMA ResolvedIfResolves ==
  ASSUME SmdInv, phase = "reading"
  PROVE  Resolved <=> Resolves(text)
<1>1. PICK tx, st, m : tx = text /\ st = desc.states /\ m = Len(desc.states)
  OBVIOUS
<1>2. desc \in Desc /\ Taken(tx) /\ StatesSay(tx, st)
  BY <1>1 DEF SmdInv
<1>3. m \in Nat /\ DOMAIN st = 1 .. m
  BY <1>1, <1>2, DescFields
<1>4. NamesSay(tx, st) /\ \A k \in 1 .. m : ActionsSay(tx, st, k)
  BY <1>2, <1>3, StatesSayIf
<1>5. \A i \in LinesOf(tx, "@") : FoundIn(st, tx[i].from) \in 1 .. m
  <2>1. \A i \in LinesOf(tx, "@") : FoundIn(st, tx[i].from) # 0
    BY <1>2, <1>3, <1>4, UsedAreFound
  <2>2. \A i : FoundIn(st, tx[i].from) \in 0 .. m
    BY <1>3, FoundFacts
  <2>. QED
    BY <1>3, <2>1, <2>2
(* Names of states are names of lines ...                                   *)
<1>6. \A k \in 1 .. m : \E i \in LinesOf(tx, "$") : st[k].name = tx[i].name
  <2>1. PICK s, P : s = [k \in DOMAIN st |-> st[k].name] /\ P = LinesOf(tx, "$")
    OBVIOUS
  <2>2. Len(s) = m /\ (\A k \in 1 .. m : s[k] = st[k].name) /\ \A i \in P : NameOf(tx)[i] = tx[i].name
    BY <1>3, <2>1 DEF NameOf, LinesOf
  <2>3. \A i \in P : PlaceOf(P, i) \in 1 .. m /\ s[PlaceOf(P, i)] = tx[i].name
    BY <1>4, <2>1, <2>2 DEF NamesSay, Collected
  <2>4. \A k \in 1 .. m : \E i \in P : PlaceOf(P, i) = k
    BY <1>4, <2>1, <2>2 DEF NamesSay, Collected
  <2>. QED
    BY <2>1, <2>2, <2>3, <2>4
<1>7. \A i \in LinesOf(tx, "$") : \E k \in 1 .. m : st[k].name = tx[i].name
  <2>1. PICK s, P : s = [k \in DOMAIN st |-> st[k].name] /\ P = LinesOf(tx, "$")
    OBVIOUS
  <2>2. Len(s) = m /\ (\A k \in 1 .. m : s[k] = st[k].name) /\ \A i \in P : NameOf(tx)[i] = tx[i].name
    BY <1>3, <2>1 DEF NameOf, LinesOf
  <2>3. \A i \in P : PlaceOf(P, i) \in 1 .. m /\ s[PlaceOf(P, i)] = tx[i].name
    BY <1>4, <2>1, <2>2 DEF NamesSay, Collected
  <2>. QED
    BY <2>1, <2>2, <2>3
(* ... and actions of states are actions of lines.                           *)
<1>8. ASSUME NEW k \in 1 .. m, NEW j \in 1 .. Len(st[k].actions)
      PROVE  \E i \in LinesOf(tx, "@") : st[k].actions[j].func = <<tx[i].from, tx[i].ev>>
  <2>1. PICK s, P, f : s = st[k].actions /\ P = LinesFor(tx, "@", st, k) /\ f = ActionOf(tx)
    OBVIOUS
  <2>2. Collected(s, P, f)
    BY <1>4, <2>1 DEF ActionsSay
  <2>3. PICK i \in P : PlaceOf(P, i) = j /\ s[j] = f[i]
    BY <1>8, <2>1, <2>2 DEF Collected
  <2>4. i \in LinesOf(tx, "@") /\ f[i].func = <<tx[i].from, tx[i].ev>>
    BY <2>1 DEF LinesFor, LinesOf, ActionOf
  <2>. QED
    BY <2>1, <2>3, <2>4
<1>9. ASSUME NEW i \in LinesOf(tx, "@")
      PROVE  \E k \in 1 .. m : \E j \in 1 .. Len(st[k].actions) : st[k].actions[j].func = <<tx[i].from, tx[i].ev>>
  <2>1. PICK k \in 1 .. m : k = FoundIn(st, tx[i].from)
    BY <1>5
  <2>2. PICK s, P, f : s = st[k].actions /\ P = LinesFor(tx, "@", st, k) /\ f = ActionOf(tx)
    OBVIOUS
  <2>3. Collected(s, P, f) /\ i \in P
    BY <1>4, <2>1, <2>2 DEF ActionsSay, LinesFor
  <2>4. PICK j \in 1 .. Len(s) : s[j] = f[i]
    BY <2>3 DEF Collected
  <2>5. f[i].func = <<tx[i].from, tx[i].ev>>
    BY <2>2 DEF LinesOf, ActionOf
  <2>. QED
    BY <2>2, <2>4, <2>5
<1>10. \A k \in 1 .. m : DOMAIN st[k].actions = 1 .. Len(st[k].actions)
  <2>1. st \in Seq(State)
    BY <1>1, <1>2, DescFields
  <2>2. \A k \in 1 .. m : st[k].actions \in Seq(Action)
    BY <1>3, <2>1, StateAt
  <2>. QED
    BY <2>2
<1>11. Resolved <=> \A k \in 1 .. m :
                     /\ {<<st[k].name, "enter">>, <<st[k].name, "leave">>} \subseteq Hooks
                     /\ \A j \in 1 .. Len(st[k].actions) : st[k].actions[j].func \in Handlers
  BY <1>1, <1>3, <1>10 DEF Resolved
<1>12. ASSUME Resolved PROVE Resolves(tx)
  <2>1. ASSUME NEW i \in LinesOf(tx, "$")
        PROVE  {<<tx[i].name, "enter">>, <<tx[i].name, "leave">>} \subseteq Hooks
    <3>1. PICK k \in 1 .. m : st[k].name = tx[i].name
      BY <1>7
    <3>. QED
      BY <1>11, <1>12, <3>1
  <2>2. ASSUME NEW i \in LinesOf(tx, "@") PROVE <<tx[i].from, tx[i].ev>> \in Handlers
    BY <1>9, <1>11, <1>12
  <2>. QED
    BY <2>1, <2>2 DEF Resolves
<1>13. ASSUME Resolves(tx) PROVE Resolved
  <2>1. ASSUME NEW k \in 1 .. m
        PROVE  {<<st[k].name, "enter">>, <<st[k].name, "leave">>} \subseteq Hooks
    <3>1. PICK i \in LinesOf(tx, "$") : st[k].name = tx[i].name
      BY <1>6
    <3>2. {<<tx[i].name, "enter">>, <<tx[i].name, "leave">>} \subseteq Hooks
      BY <1>13 DEF Resolves
    <3>. QED
      BY <3>1, <3>2
  <2>2. ASSUME NEW k \in 1 .. m, NEW j \in 1 .. Len(st[k].actions) PROVE st[k].actions[j].func \in Handlers
    <3>1. PICK i \in LinesOf(tx, "@") : st[k].actions[j].func = <<tx[i].from, tx[i].ev>>
      BY <1>8
    <3>. QED
      BY <1>13, <3>1 DEF Resolves
  <2>. QED
    BY <1>11, <2>1, <2>2
<1>. QED
  BY <1>1, <1>12, <1>13

LEMMA SmdStarts == SmdInit => SmdInv
<1>1. SUFFICES ASSUME SmdInit PROVE SmdInv
  OBVIOUS
<1>2. /\ text = << >> /\ phase = "reading" /\ desc.timers = << >> /\ desc.signals = << >>
      /\ desc.states = << >> /\ desc.has_data = FALSE /\ desc.has_fsys = FALSE
  BY <1>1 DEF SmdInit
<1>3. desc \in Desc
  BY <1>1 DEF SmdInit, Desc
<1>4. \A op : LinesOf(text, op) = {}
  BY <1>2 DEF LinesOf
<1>5. Taken(text)
  BY <1>2, <1>4 DEF Taken
<1>6. StatesSay(text, desc.states)
  <2>1. [k \in DOMAIN desc.states |-> desc.states[k].name] = << >>
    BY <1>2
  <2>2. NamesSay(text, desc.states)
    BY <1>4, <2>1, CollectedNone DEF NamesSay
  <2>3. DOMAIN desc.states = {}
    BY <1>2
  <2>. QED
    BY <2>2, <2>3, StatesSayIf
<1>7. ChannelsSay(text, desc)
  <2>1. \A t : ~ Uses(text, t)
    BY <1>4 DEF Uses
  <2>. QED
    BY <1>2, <1>4, <2>1, CollectedNone DEF ChannelsSay
<1>8. NextsAreStates(desc.states)
  BY <1>2 DEF NextsAreStates
<1>9. text \in Seq(Line)
  BY <1>2
<1>. QED
  BY <1>2, <1>3, <1>5, <1>6, <1>7, <1>8, <1>9 DEF SmdInv

LEMMA LinesAreRead ==
  ASSUME SmdInv, NEW l \in Line, ReadLine(l)
  PROVE  SmdInv'
<1>1. /\ phase = "reading" /\ text' = Append(text, l) /\ matrix' = matrix
      /\ text \in Seq(Line) /\ desc \in Desc /\ NextsAreStates(desc.states)
      /\ Taken(text) /\ StatesSay(text, desc.states)
  BY DEF ReadLine, SmdInv
<1>2. text' \in Seq(Line) /\ OneMore(text, text', l)
  BY <1>1, Appended
<1>3. Len(text) \in Nat /\ Len(desc.states) \in Nat /\ DOMAIN desc.states = 1 .. Len(desc.states)
  <2>1. desc.states \in Seq(State)
    BY <1>1, DescFields
  <2>. QED
    BY <1>1, <2>1
<1>4. Takes(l) <=> TakesIn(desc.states, l)
  BY FoundIsFoundIn DEF Takes, TakesIn
<1>5. CASE l.op \in {"bad", "cut"} \/ (l.op \in {"+", "@"} /\ ~ Takes(l))
  <2>1. phase' \in {"exit", "null"} /\ desc' = desc
    BY <1>5 DEF ReadLine
  <2>2. ~ Taken(text')
    <3>1. NamesSay(text, desc.states)
      BY <1>1, StatesSayIf
    <3>2. PICK tx2, n, m : tx2 = text' /\ n = Len(text) /\ m = Len(desc.states)
      OBVIOUS
    <3>3. ~ Taken(tx2)
      BY <1>1, <1>2, <1>3, <1>4, <1>5, <3>1, <3>2, TakenMore
    <3>. QED
      BY <3>2, <3>3
  <2>. QED
    BY <1>1, <1>2, <2>1, <2>2 DEF SmdInv
<1>6. CASE l.op \notin {"bad", "cut"} /\ (l.op \in {"+", "@"} => Takes(l))
  <2>1. phase' = phase /\ desc' = After(l)
    BY <1>6 DEF ReadLine
  <2>2. /\ After(l) \in Desc /\ NextsAreStates(After(l).states)
        /\ Taken(text') /\ StatesSay(text', After(l).states) /\ ChannelsSay(text', After(l))
    BY <1>1, <1>4, <1>6, DescriptionGrows
  <2>. QED
    BY <1>1, <1>2, <2>1, <2>2 DEF SmdInv
<1>. QED
  BY <1>5, <1>6

LEMMA FileEnds ==
  ASSUME SmdInv, EndOfFile
  PROVE  SmdInv'
<1>1. phase = "reading" /\ text' = text /\ desc' = desc /\ matrix' = matrix
  BY DEF EndOfFile
<1>2. Resolved <=> Resolves(text)
  BY <1>1, ResolvedIfResolves
<1>3. CASE Resolved
  BY <1>1, <1>2, <1>3 DEF EndOfFile, SmdInv
<1>4. CASE ~ Resolved
  BY <1>1, <1>2, <1>4 DEF EndOfFile, SmdInv
<1>. QED
  BY <1>3, <1>4

LEMMA StatesAreBuilt ==
  ASSUME SmdInv, smd_get_state_set
  PROVE  SmdInv'
<1>1. /\ phase = "loaded" /\ phase' = "built" /\ text' = text /\ matrix' = matrix
      /\ desc' = [desc EXCEPT !.nch = 2 + Len(desc.timers) + Len(desc.signals)]
  BY DEF smd_get_state_set
<1>2. /\ text \in Seq(Line) /\ desc \in Desc /\ NextsAreStates(desc.states)
      /\ Taken(text) /\ StatesSay(text, desc.states) /\ ChannelsSay(text, desc) /\ Resolves(text)
  BY <1>1 DEF SmdInv
<1>3. PICK d, e, c : d = desc /\ e = desc' /\ c = 2 + Len(desc.timers) + Len(desc.signals)
  OBVIOUS
<1>4. /\ d = [timers |-> d.timers, signals |-> d.signals, nwatches |-> d.nwatches, states |-> d.states,
              has_data |-> d.has_data, has_fsys |-> d.has_fsys, nch |-> d.nch]
      /\ d.timers \in Seq(Int) /\ d.signals \in Seq(Int) /\ d.nwatches \in Int /\ d.states \in Seq(State)
      /\ d.has_data \in BOOLEAN /\ d.has_fsys \in BOOLEAN /\ d.nch \in Nat
  BY <1>2, <1>3, DescFields
<1>5. c \in Nat
  <2>1. PICK p, q : p = Len(d.timers) /\ q = Len(d.signals)
    OBVIOUS
  <2>2. p \in Nat /\ q \in Nat
    BY <1>4, <2>1
  <2>3. c = 2 + p + q
    BY <1>3, <2>1
  <2>. QED
    BY ONLY <2>2, <2>3
<1>6. e = [timers |-> d.timers, signals |-> d.signals, nwatches |-> d.nwatches, states |-> d.states,
           has_data |-> d.has_data, has_fsys |-> d.has_fsys, nch |-> c]
  BY <1>1, <1>3, <1>4
<1>7. e \in Desc
  BY <1>4, <1>5, <1>6 DEF Desc
<1>8. /\ e.states = d.states /\ e.timers = d.timers /\ e.signals = d.signals /\ e.nwatches = d.nwatches
      /\ e.has_data = d.has_data /\ e.has_fsys = d.has_fsys /\ e.nch = c
  BY <1>6
<1>9. ChannelsSay(text, e)
  BY <1>2, <1>3, <1>8 DEF ChannelsSay
<1>10. e.nch = 2 + Len(e.timers) + Len(e.signals)
  BY <1>3, <1>8
<1>11. NextsAreStates(e.states) /\ StatesSay(text, e.states)
  BY <1>2, <1>3, <1>8
<1>. QED
  BY <1>1, <1>2, <1>3, <1>7, <1>9, <1>10, <1>11 DEF SmdInv

LEMMA MachinesAreMade ==
  ASSUME SmdInv, edsm__create
  PROVE  SmdInv'
<1>1. /\ phase \in {"built", "created"} /\ text' = text /\ desc' = desc
      /\ IF AllFit(desc.states)
         THEN phase' = "created" /\ matrix' = [k \in DOMAIN desc.states |-> Filled(desc.states[k])]
         ELSE phase' = "exit" /\ matrix' = matrix
  BY DEF edsm__create, AllFit
<1>2. /\ text \in Seq(Line) /\ desc \in Desc /\ NextsAreStates(desc.states)
      /\ Taken(text) /\ StatesSay(text, desc.states) /\ ChannelsSay(text, desc) /\ Resolves(text)
      /\ desc.nch = 2 + Len(desc.timers) + Len(desc.signals)
  BY <1>1 DEF SmdInv
<1>3. CASE AllFit(desc.states)
  BY <1>1, <1>2, <1>3 DEF SmdInv
<1>4. CASE ~ AllFit(desc.states)
  BY <1>1, <1>2, <1>4 DEF SmdInv
<1>. QED
  BY <1>3, <1>4

LEMMA DescriptionsInvariant == SmdSpec => []SmdInv
<1>1. SmdInit => SmdInv
  BY SmdStarts
<1>2. SmdInv /\ [SmdNext]_smdVars => SmdInv'
  <2>1. SUFFICES ASSUME SmdInv, [SmdNext]_smdVars PROVE SmdInv'
    OBVIOUS
  <2>2. CASE \E l \in Line : ReadLine(l)
    BY <2>1, <2>2, LinesAreRead
  <2>3. CASE EndOfFile
    BY <2>1, <2>3, FileEnds
  <2>4. CASE smd_get_state_set
    BY <2>1, <2>4, StatesAreBuilt
  <2>5. CASE edsm__create
    BY <2>1, <2>5, MachinesAreMade
  <2>6. CASE UNCHANGED smdVars
    BY <2>1, <2>6 DEF SmdInv, smdVars
  <2>. QED
    BY <2>1, <2>2, <2>3, <2>4, <2>5, <2>6 DEF SmdNext
<1>. QED
  BY <1>1, <1>2, PTL DEF SmdSpec

(* A description keeps to its fields, and the next states of its transitions   *)
(* are states of it (engine/smd.c).                                         *)
THEOREM DescriptionTypes == SmdSpec => []SmdTypeOK
<1>1. SmdInv => SmdTypeOK
  <2>1. SUFFICES ASSUME SmdInv PROVE SmdTypeOK
    OBVIOUS
  <2>2. desc \in Desc
    BY <2>1 DEF SmdInv
  <2>3. desc.timers \in Seq(Int) /\ desc.signals \in Seq(Int) /\ desc.nwatches \in Int /\ desc.nch \in Nat
    BY <2>2, DescFields
  <2>. QED
    BY <2>1, <2>3 DEF SmdInv, SmdTypeOK, NextsAreStates
<1>. QED
  BY <1>1, DescriptionsInvariant, PTL

-----------------------------------------------------------------------------
(* What the machine that is made has to do with its file. *)

(* Two sequences, one behind the other.                                      *)
LEMMA SeqOfFunction ==
  ASSUME NEW a \in Nat, NEW S, NEW u \in [1 .. a -> S]
  PROVE  u \in Seq(S) /\ Len(u) = a
OBVIOUS

LEMMA OneBehindTheOther ==
  ASSUME NEW S, NEW u \in Seq(S), NEW v \in Seq(S), NEW w, w = u \o v,
         NEW a, a = Len(u), NEW b, b = Len(v)
  PROVE  /\ DOMAIN w = 1 .. a + b
         /\ \A j \in 1 .. a : w[j] = u[j]
         /\ \A j \in 1 .. b : w[a + j] = v[j]
<1>1. a \in Nat /\ b \in Nat
  OBVIOUS
<1>2. DOMAIN w = 1 .. a + b
  OBVIOUS
<1>3. \A j \in 1 .. a : w[j] = u[j]
  OBVIOUS
<1>4. \A j \in 1 .. b : w[a + j] = v[j]
  OBVIOUS
<1>. QED
  BY <1>2, <1>3, <1>4

(* rs are the transitions of u and the actions of v behind.                    *)
InARow(rs, u, a, v, b) ==
  /\ a \in Nat /\ b \in Nat /\ DOMAIN rs = 1 .. a + b
  /\ \A j \in 1 .. a : rs[j].ecode = u[j].ecode /\ rs[j].action = Null /\ rs[j].next = u[j].next
  /\ \A j \in 1 .. b : rs[a + j].ecode = v[j].ecode /\ rs[a + j].action = v[j].func /\ rs[a + j].next = 0

LEMMA ReflexesAre ==
  ASSUME NEW s, s.trans \in Seq(Transition), s.actions \in Seq(Action)
  PROVE  InARow(Reflexes(s), s.trans, Len(s.trans), s.actions, Len(s.actions))
<1>0. PICK tr, ac, a, b, rs : /\ tr = s.trans /\ ac = s.actions /\ a = Len(s.trans) /\ b = Len(s.actions)
                              /\ rs = Reflexes(s)
  OBVIOUS
<1>1. a \in Nat /\ b \in Nat /\ DOMAIN tr = 1 .. a /\ DOMAIN ac = 1 .. b
  BY <1>0
<1>2. PICK u, v :
        /\ u = [j \in 1 .. a |-> [ecode |-> tr[j].ecode, action |-> Null, next |-> tr[j].next]]
        /\ v = [j \in 1 .. b |-> [ecode |-> ac[j].ecode, action |-> ac[j].func, next |-> 0]]
  OBVIOUS
<1>3. PICK S : S = {u[j] : j \in 1 .. a} \cup {v[j] : j \in 1 .. b}
  OBVIOUS
<1>4. u \in [1 .. a -> S] /\ v \in [1 .. b -> S]
  BY ONLY <1>2, <1>3
<1>5. u \in Seq(S) /\ Len(u) = a
  BY ONLY <1>1, <1>4, SeqOfFunction
<1>6. v \in Seq(S) /\ Len(v) = b
  BY ONLY <1>1, <1>4, SeqOfFunction
<1>7. rs = u \o v
  BY <1>0, <1>1, <1>2 DEF Reflexes
<1>8. /\ DOMAIN rs = 1 .. a + b
      /\ \A j \in 1 .. a : rs[j] = u[j]
      /\ \A j \in 1 .. b : rs[a + j] = v[j]
  BY ONLY <1>5, <1>6, <1>7, OneBehindTheOther
<1>9. /\ \A j \in 1 .. a : u[j].ecode = tr[j].ecode /\ u[j].action = Null /\ u[j].next = tr[j].next
      /\ \A j \in 1 .. b : v[j].ecode = ac[j].ecode /\ v[j].action = ac[j].func /\ v[j].next = 0
  BY ONLY <1>2
<1>10. InARow(rs, tr, a, ac, b)
  BY ONLY <1>1, <1>8, <1>9, SMTT(30) DEF InARow
<1>. QED
  BY <1>0, <1>10

(* The lines behind the transitions, the actions of a state.                  *)
TransFrom(u, P, tx, st) ==
  /\ \A i \in P : /\ PlaceOf(P, i) \in 1 .. Len(u)
                 /\ u[PlaceOf(P, i)].ecode = Ecode(tx[i].ev)
                 /\ u[PlaceOf(P, i)].next = FoundIn(st, tx[i].to)
  /\ \A j \in 1 .. Len(u) : \E i \in P : PlaceOf(P, i) = j

ActionsFrom(v, A, tx) ==
  /\ \A i \in A : /\ PlaceOf(A, i) \in 1 .. Len(v)
                 /\ v[PlaceOf(A, i)].ecode = Ecode(tx[i].ev)
                 /\ v[PlaceOf(A, i)].func = <<tx[i].from, tx[i].ev>>
  /\ \A j \in 1 .. Len(v) : \E i \in A : PlaceOf(A, i) = j

LEMMA TransAreLines ==
  ASSUME NEW tx, NEW st, NEW k, TransSay(tx, st, k)
  PROVE  TransFrom(st[k].trans, LinesFor(tx, "+", st, k), tx, st)
<1>1. \A i \in LinesFor(tx, "+", st, k) :
        TransOf(tx, st)[i].ecode = Ecode(tx[i].ev) /\ TransOf(tx, st)[i].next = FoundIn(st, tx[i].to)
  BY DEF LinesFor, LinesOf, TransOf
<1>. QED
  BY <1>1 DEF TransSay, Collected, TransFrom

LEMMA ActionsAreLines ==
  ASSUME NEW tx, NEW st, NEW k, ActionsSay(tx, st, k)
  PROVE  ActionsFrom(st[k].actions, LinesFor(tx, "@", st, k), tx)
<1>1. \A i \in LinesFor(tx, "@", st, k) :
        ActionOf(tx)[i].ecode = Ecode(tx[i].ev) /\ ActionOf(tx)[i].func = <<tx[i].from, tx[i].ev>>
  BY DEF LinesFor, LinesOf, ActionOf
<1>. QED
  BY <1>1 DEF ActionsSay, Collected, ActionsFrom

(* The numbers of events fit the half word they are kept in.                  *)
NumbersFit == \A l \in Line : l.op \in {"+", "@"} => l.ev.n < 65536

LEMMA OrWithNothing ==
  ASSUME NEW t \in 0 .. 4
  PROVE  Or(t, 0) = t
<1>1. t = 0 \/ t = 1 \/ t = 2 \/ t = 3 \/ t = 4
  OBVIOUS
<1>2. /\ \A b \in {1, 2, 4} : (0 \div b) % 2 = 0
  OBVIOUS
<1>3. Or(t, 0) = (IF (t \div 1) % 2 = 1 THEN 1 ELSE 0) + (IF (t \div 2) % 2 = 1 THEN 2 ELSE 0)
                 + (IF (t \div 4) % 2 = 1 THEN 4 ELSE 0)
  BY <1>2 DEF Or
<1>. QED
  BY <1>1, <1>3

LEMMA TypesAreRows ==
  /\ \A t \in DOMAIN Type : Type[t] \in Rows
  /\ \A t, u \in DOMAIN Type : Type[t] = Type[u] => t = u
BY DEF Type, Rows

(* An event has a place in the matrices if and only if its number is one of    *)
(* the columns, and the place is its own.                                    *)
LEMMA EventsHavePlaces ==
  ASSUME NumbersFit, NEW l \in Line, l.op \in {"+", "@"}, l.ev.type \in DOMAIN Type
  PROVE  /\ Fits(Ecode(l.ev)) <=> l.ev.n \in Cols
         /\ l.ev.n \in Cols => Ecode(l.ev) = [row |-> Type[l.ev.type], col |-> l.ev.n]
<1>1. PICK n, t : n = l.ev.n /\ t = Type[l.ev.type]
  OBVIOUS
<1>2. n \in Int /\ n >= -2147483647 - 1 /\ n < 65536 /\ t \in 0 .. 4
  <2>1. n \in Int /\ n >= -2147483647 - 1
    <3>1. IsInt32(l.ev.n)
      BY LineAssumption
    <3>. QED
      BY <1>1, <3>1 DEF IsInt32
  <2>2. n < 65536
    BY <1>1 DEF NumbersFit
  <2>3. t \in Rows
    BY <1>1, TypesAreRows
  <2>. QED
    BY <2>1, <2>2, <2>3 DEF Rows
<1>3. CASE n < 0
  <2>1. PICK h : h = (n \div 65536) % 65536
    OBVIOUS
  <2>2. h \in Int /\ h > 4
    <3>1. PICK q : q = n \div 65536
      OBVIOUS
    <3>2. q \in Int /\ q < 0 /\ q >= -32768
      BY <1>2, <1>3, <3>1
    <3>3. q % 65536 = q + 65536
      BY <3>2
    <3>. QED
      BY <2>1, <3>1, <3>2, <3>3
  <2>3. Or(t, h) \in Int /\ Or(t, h) >= h
    BY <2>2 DEF Or
  <2>4. Ecode(l.ev).row = Or(t, h)
    BY <1>1, <2>1 DEF Ecode
  <2>5. ~ Fits(Ecode(l.ev))
    BY <2>2, <2>3, <2>4 DEF Fits
  <2>6. n \notin Cols
    BY <1>2, <1>3 DEF Cols
  <2>. QED
    BY <1>1, <2>5, <2>6
<1>4. CASE n >= 0
  <2>1. (n \div 65536) % 65536 = 0 /\ n % 65536 = n
    BY <1>2, <1>4
  <2>2. Ecode(l.ev) = [row |-> t, col |-> n]
    BY <1>1, <1>2, <2>1, OrWithNothing DEF Ecode
  <2>3. Fits(Ecode(l.ev)) <=> n <= 11
    <3>1. t <= 4
      BY <1>2
    <3>. QED
      BY <2>2, <3>1 DEF Fits
  <2>4. n \in Cols <=> n <= 11
    BY <1>2, <1>4 DEF Cols
  <2>. QED
    BY <1>1, <2>2, <2>3, <2>4
<1>. QED
  BY <1>2, <1>3, <1>4

(* All events of the states have a place if and only if those of the lines do. *)
LEMMA FitIfPlaced ==
  ASSUME NumbersFit, NEW tx \in Seq(Line), NEW st \in Seq(State), Taken(tx), StatesSay(tx, st)
  PROVE  AllFit(st) <=> HasPlaces(tx)
<1>1. PICK m : m = Len(st)
  OBVIOUS
<1>2. m \in Nat /\ DOMAIN st = 1 .. m
  BY <1>1
<1>3. NamesSay(tx, st) /\ \A k \in 1 .. m : TransSay(tx, st, k) /\ ActionsSay(tx, st, k)
  BY <1>2, StatesSayIf
<1>4. \A i \in LinesOf(tx, "+") \cup LinesOf(tx, "@") : FoundIn(st, tx[i].from) \in 1 .. m
  <2>1. \A i \in LinesOf(tx, "+") \cup LinesOf(tx, "@") : FoundIn(st, tx[i].from) # 0
    BY <1>2, <1>3, UsedAreFound
  <2>2. \A i : FoundIn(st, tx[i].from) \in 0 .. m
    BY <1>2, FoundFacts
  <2>. QED
    BY <1>2, <2>1, <2>2
<1>5. \A k \in 1 .. m : st[k].trans \in Seq(Transition) /\ st[k].actions \in Seq(Action)
  BY <1>2, StateAt
<1>6. \A i \in LinesOf(tx, "+") \cup LinesOf(tx, "@") : Fits(Ecode(tx[i].ev)) <=> tx[i].ev.n \in Cols
  <2>1. ASSUME NEW i \in LinesOf(tx, "+") \cup LinesOf(tx, "@")
        PROVE  tx[i] \in Line /\ tx[i].op \in {"+", "@"} /\ tx[i].ev.type \in DOMAIN Type
    BY DEF Taken, LinesOf
  <2>. QED
    BY <2>1, EventsHavePlaces
<1>7. ASSUME NEW k \in 1 .. m
      PROVE  /\ \A j \in DOMAIN Reflexes(st[k]) :
                  \E i \in LinesOf(tx, "+") \cup LinesOf(tx, "@") : Reflexes(st[k])[j].ecode = Ecode(tx[i].ev)
             /\ \A i \in LinesFor(tx, "+", st, k) \cup LinesFor(tx, "@", st, k) :
                  \E j \in DOMAIN Reflexes(st[k]) : Reflexes(st[k])[j].ecode = Ecode(tx[i].ev)
  <2>1. PICK u, v, a, b, rs, P, A : /\ u = st[k].trans /\ v = st[k].actions /\ a = Len(u) /\ b = Len(v)
                                    /\ rs = Reflexes(st[k])
                                    /\ P = LinesFor(tx, "+", st, k) /\ A = LinesFor(tx, "@", st, k)
    OBVIOUS
  <2>2. InARow(rs, u, a, v, b)
    BY <1>5, <2>1, ReflexesAre
  <2>3. TransFrom(u, P, tx, st)
    BY <1>3, <2>1, TransAreLines
  <2>4. ActionsFrom(v, A, tx)
    BY <1>3, <2>1, ActionsAreLines
  <2>5. P \subseteq LinesOf(tx, "+") /\ A \subseteq LinesOf(tx, "@")
    BY <2>1 DEF LinesFor
  <2>6. /\ \A i \in P : PlaceOf(P, i) \in 1 .. a /\ u[PlaceOf(P, i)].ecode = Ecode(tx[i].ev)
        /\ \A j \in 1 .. a : \E i \in P : PlaceOf(P, i) = j
        /\ \A j \in 1 .. a : rs[j].ecode = u[j].ecode
    BY <2>1, <2>2, <2>3 DEF TransFrom, InARow
  <2>7. /\ \A i \in A : PlaceOf(A, i) \in 1 .. b /\ v[PlaceOf(A, i)].ecode = Ecode(tx[i].ev)
        /\ \A j \in 1 .. b : \E i \in A : PlaceOf(A, i) = j
        /\ \A j \in 1 .. b : rs[a + j].ecode = v[j].ecode
    BY <2>1, <2>2, <2>4 DEF ActionsFrom, InARow
  <2>8. a \in Nat /\ b \in Nat /\ DOMAIN rs = 1 .. a + b
    BY <2>2 DEF InARow
  <2>9. /\ \A j \in 1 .. a : j \in 1 .. a + b
        /\ \A j \in 1 .. b : a + j \in 1 .. a + b
        /\ \A j \in 1 .. a + b : j \in 1 .. a \/ (j - a \in 1 .. b /\ a + (j - a) = j)
    BY ONLY <2>8
  <2>10. ASSUME NEW j \in 1 .. a + b
        PROVE  \E i \in LinesOf(tx, "+") \cup LinesOf(tx, "@") : rs[j].ecode = Ecode(tx[i].ev)
    <3>1. CASE j \in 1 .. a
      <4>1. PICK i \in P : PlaceOf(P, i) = j
        BY <2>6, <3>1
      <4>. QED
        BY <2>5, <2>6, <3>1, <4>1
    <3>2. CASE j - a \in 1 .. b /\ a + (j - a) = j
      <4>1. PICK h \in 1 .. b : h = j - a
        BY <3>2
      <4>2. PICK i \in A : PlaceOf(A, i) = h
        BY <2>7
      <4>. QED
        BY <2>5, <2>7, <3>2, <4>1, <4>2
    <3>. QED
      BY <2>9, <3>1, <3>2
  <2>11. \A i \in P : \E j \in 1 .. a + b : rs[j].ecode = Ecode(tx[i].ev)
    BY <2>6, <2>9
  <2>12. \A i \in A : \E j \in 1 .. a + b : rs[j].ecode = Ecode(tx[i].ev)
    BY <2>7, <2>9
  <2>. QED
    BY <2>1, <2>8, <2>10, <2>11, <2>12
<1>8. ASSUME AllFit(st) PROVE HasPlaces(tx)
  <2>1. ASSUME NEW i \in LinesOf(tx, "+") \cup LinesOf(tx, "@") PROVE tx[i].ev.n \in Cols
    <3>1. PICK k \in 1 .. m : k = FoundIn(st, tx[i].from)
      BY <1>4
    <3>2. i \in LinesFor(tx, "+", st, k) \cup LinesFor(tx, "@", st, k)
      BY <3>1 DEF LinesFor
    <3>3. PICK j \in DOMAIN Reflexes(st[k]) : Reflexes(st[k])[j].ecode = Ecode(tx[i].ev)
      BY <1>7, <3>2
    <3>4. Fits(Reflexes(st[k])[j].ecode)
      BY <1>2, <1>8 DEF AllFit
    <3>. QED
      BY <1>6, <3>3, <3>4
  <2>. QED
    BY <2>1 DEF HasPlaces
<1>9. ASSUME HasPlaces(tx) PROVE AllFit(st)
  <2>1. ASSUME NEW k \in 1 .. m, NEW j \in DOMAIN Reflexes(st[k]) PROVE Fits(Reflexes(st[k])[j].ecode)
    <3>1. PICK i \in LinesOf(tx, "+") \cup LinesOf(tx, "@") : Reflexes(st[k])[j].ecode = Ecode(tx[i].ev)
      BY <1>7
    <3>. QED
      BY <1>6, <1>9, <3>1 DEF HasPlaces
  <2>. QED
    BY <1>2, <2>1 DEF AllFit
<1>. QED
  BY <1>8, <1>9

(* A text is well-formed if it is taken, resolved and has a place for its events. *)
LEMMA WellFormedIf ==
  WellFormed <=> Taken(text) /\ Resolves(text) /\ HasPlaces(text)
<1>1. \A op : Lines(op) = LinesOf(text, op)
  BY DEF Lines, LinesOf
<1>2. \A i, name : DeclaredBefore(i, name) <=> Declared(text, i, name)
  BY <1>1 DEF DeclaredBefore, Declared
<1>3. (\A i \in DOMAIN text : text[i].op \notin {"bad", "cut"}) <=> Lines("bad") = {} /\ Lines("cut") = {}
  BY DEF Lines
<1>. QED
  BY <1>1, <1>2, <1>3 DEF WellFormed, Taken, Resolves, HasPlaces

(* A machine is made from exactly the files that declare what they use, name     *)
(* functions the program has and events that have a place in the matrices; at    *)
(* any other the program gives up (smd.c, edsm__create).                        *)
THEOREM MadeFromWellFormed ==
  ASSUME NumbersFit
  PROVE  SmdSpec => []MadeIffWellFormed
<1>1. SmdInv => MadeIffWellFormed
  <2>1. SUFFICES ASSUME SmdInv PROVE MadeIffWellFormed
    OBVIOUS
  <2>2. text \in Seq(Line) /\ desc.states \in Seq(State)
    BY <2>1, DescFields DEF SmdInv
  <2>3. Taken(text) /\ StatesSay(text, desc.states) => (AllFit(desc.states) <=> HasPlaces(text))
    BY <2>2, FitIfPlaced
  <2>4. phase = "created" => Taken(text) /\ StatesSay(text, desc.states) /\ Resolves(text) /\ AllFit(desc.states)
    BY <2>1 DEF SmdInv
  <2>5. phase \in {"exit", "null"} =>
          \/ ~ Taken(text)
          \/ ~ Resolves(text)
          \/ Taken(text) /\ StatesSay(text, desc.states) /\ ~ AllFit(desc.states)
    BY <2>1 DEF SmdInv
  <2>. QED
    BY <2>3, <2>4, <2>5, WellFormedIf DEF MadeIffWellFormed
<1>. QED
  BY <1>1, DescriptionsInvariant, PTL

(* The number of a state, counted among the declarations, is that by which it  *)
(* is found.                                                                *)
LEMMA NumberIsFound ==
  ASSUME NEW tx, NEW n \in Nat, DOMAIN tx = 1 .. n, tx = text,
         NEW m \in Nat, NEW st, DOMAIN st = 1 .. m, NamesSay(tx, st),
         NEW name, FoundIn(st, name) # 0
  PROVE  Number(name) = FoundIn(st, name)
<1>1. PICK P, D, s, q : /\ P = LinesOf(tx, "$") /\ D = {i \in P : tx[i].name = name}
                        /\ s = [k \in DOMAIN st |-> st[k].name] /\ q = FoundIn(st, name)
  OBVIOUS
<1>2. /\ P \subseteq 1 .. n /\ D \subseteq P /\ D \subseteq Nat
      /\ \A i \in P : NameOf(tx)[i] = tx[i].name
  BY <1>1 DEF LinesOf, NameOf
<1>3. Lines("$") = P /\ {i \in Lines("$") : text[i].name = name} = D
  BY <1>1 DEF Lines, LinesOf
<1>4. /\ \A i \in P : PlaceOf(P, i) \in 1 .. m /\ st[PlaceOf(P, i)].name = tx[i].name
      /\ \A k \in 1 .. m : \E i \in P : PlaceOf(P, i) = k
  <2>1. Collected(s, P, NameOf(tx)) /\ Len(s) = m /\ \A k \in 1 .. m : s[k] = st[k].name
    BY <1>1 DEF NamesSay
  <2>. QED
    BY <1>2, <2>1 DEF Collected
<1>5. q \in 1 .. m /\ st[q].name = name /\ \A k \in 1 .. m : st[k].name = name => q <= k
  <2>1. q \in 0 .. m /\ q # 0
    BY <1>1, FoundFacts
  <2>2. q \in 1 .. m
    BY ONLY m \in Nat, <2>1
  <2>. QED
    BY <1>1, <2>2, FoundFacts
<1>6. PICK i0 \in P : PlaceOf(P, i0) = q
  BY <1>4, <1>5
<1>7. i0 \in D
  BY <1>1, <1>4, <1>5, <1>6
<1>8. PICK f : f = CHOOSE i \in D : \A j \in D : i <= j
  OBVIOUS
<1>9. f \in D /\ \A j \in D : f <= j
  <2>1. \E i \in D : \A j \in D : i <= j
    BY <1>2, <1>7, SmallestNumber
  <2>. QED
    BY <1>8, <2>1
<1>10. Number(name) = PlaceOf(P, f)
  BY <1>3, <1>8 DEF Number, PlaceOf
<1>11. PICK p : p = PlaceOf(P, f)
  OBVIOUS
<1>12. p <= q
  <2>1. f \in P /\ f <= i0
    BY <1>2, <1>7, <1>9
  <2>. QED
    BY <1>2, <1>6, <1>11, <2>1, PlaceIsOne
<1>13. p \in 1 .. m /\ q <= p
  <2>1. f \in P /\ tx[f].name = name
    BY <1>1, <1>9
  <2>. QED
    BY <1>4, <1>5, <1>11, <2>1
<1>14. p = q
  BY ONLY <1>5, <1>12, <1>13, m \in Nat
<1>. QED
  BY <1>1, <1>10, <1>11, <1>14

(* The last line of a set of lines.                                         *)
LEMMA LastLine ==
  ASSUME NEW n \in Nat, NEW S, S \subseteq 1 .. n, S # {}
  PROVE  /\ (CHOOSE i \in S : \A j \in S : j <= i) \in S
         /\ \A j \in S : j <= (CHOOSE i \in S : \A j2 \in S : j2 <= i)
<1>1. \E i \in S : \A j \in S : j <= i
  BY LargestNumber
<1>. QED
  BY <1>1

(* The cell of a matrix holds the last reflex that was entered in it.          *)
AtCell(rs, cell) == {j \in DOMAIN rs : rs[j].ecode.row = cell[1] /\ rs[j].ecode.col = cell[2]}

LEMMA CellFacts ==
  ASSUME NEW s, NEW rs, rs = Reflexes(s), NEW cell \in Rows \X Cols
  PROVE  /\ AtCell(rs, cell) = {} => Filled(s)[cell] = NoReflex
         /\ \A z \in AtCell(rs, cell) :
              (\A j \in AtCell(rs, cell) : j <= z) /\ AtCell(rs, cell) \subseteq Nat =>
                Filled(s)[cell] = [action |-> rs[z].action, next |-> rs[z].next]
<1>1. PICK at : at = AtCell(rs, cell)
  OBVIOUS
<1>2. at = {j \in DOMAIN Reflexes(s) : Reflexes(s)[j].ecode.row = cell[1] /\ Reflexes(s)[j].ecode.col = cell[2]}
  BY <1>1 DEF AtCell
<1>3. Filled(s)[cell] =
        IF at = {} THEN NoReflex
        ELSE [action |-> rs[CHOOSE j \in at : \A i \in at : i <= j].action,
              next |-> rs[CHOOSE j \in at : \A i \in at : i <= j].next]
  BY <1>2 DEF Filled
<1>4. ASSUME NEW z \in at, \A j \in at : j <= z, at \subseteq Nat
      PROVE  (CHOOSE j \in at : \A i \in at : i <= j) = z
  <2>1. PICK c : c = CHOOSE j \in at : \A i \in at : i <= j
    OBVIOUS
  <2>2. c \in at /\ \A i \in at : i <= c
    BY <1>4, <2>1
  <2>3. c \in Nat /\ z \in Nat /\ c <= z /\ z <= c
    BY <1>4, <2>2
  <2>4. c = z
    BY ONLY <2>3
  <2>. QED
    BY <2>1, <2>4
<1>5. ASSUME NEW z \in at, \A j \in at : j <= z, at \subseteq Nat
      PROVE  Filled(s)[cell] = [action |-> rs[z].action, next |-> rs[z].next]
  <2>1. at # {}
    OBVIOUS
  <2>. QED
    BY <1>3, <1>4, <1>5, <2>1
<1>. QED
  BY <1>1, <1>3, <1>5

(* The lines of S whose events are of that cell.                              *)
OfCell(S, tx, cell) == {i \in S : Ecode(tx[i].ev).row = cell[1] /\ Ecode(tx[i].ev).col = cell[2]}

(* The reflexes entered in a cell are those of its lines.                      *)
CellFrom(at, P, GP, A, GA, a, b) ==
  /\ at \subseteq 1 .. a + b
  /\ \A i \in GP : PlaceOf(P, i) \in at /\ PlaceOf(P, i) \in 1 .. a
  /\ \A i \in GA : a + PlaceOf(A, i) \in at /\ PlaceOf(A, i) \in 1 .. b
  /\ \A j \in at : (\E i \in GP : j = PlaceOf(P, i)) \/ (\E i \in GA : j = a + PlaceOf(A, i))

LEMMA CellLines ==
  ASSUME NEW tx, NEW st, NEW rs, NEW u, NEW v, NEW a, NEW b, NEW P, NEW A, NEW cell,
         a = Len(u), b = Len(v), InARow(rs, u, a, v, b), TransFrom(u, P, tx, st), ActionsFrom(v, A, tx)
  PROVE  CellFrom(AtCell(rs, cell), P, OfCell(P, tx, cell), A, OfCell(A, tx, cell), a, b)
<1>1. a \in Nat /\ b \in Nat /\ DOMAIN rs = 1 .. a + b
  BY DEF InARow
<1>2. /\ \A j \in 1 .. a : j \in 1 .. a + b
      /\ \A j \in 1 .. b : a + j \in 1 .. a + b
      /\ \A j \in 1 .. a + b : j \in 1 .. a \/ (j - a \in 1 .. b /\ a + (j - a) = j)
  BY ONLY <1>1
<1>3. /\ \A i \in P : PlaceOf(P, i) \in 1 .. a /\ u[PlaceOf(P, i)].ecode = Ecode(tx[i].ev)
      /\ \A j \in 1 .. a : \E i \in P : PlaceOf(P, i) = j
      /\ \A j \in 1 .. a : rs[j].ecode = u[j].ecode
  BY DEF TransFrom, InARow
<1>4. /\ \A i \in A : PlaceOf(A, i) \in 1 .. b /\ v[PlaceOf(A, i)].ecode = Ecode(tx[i].ev)
      /\ \A j \in 1 .. b : \E i \in A : PlaceOf(A, i) = j
      /\ \A j \in 1 .. b : rs[a + j].ecode = v[j].ecode
  BY DEF ActionsFrom, InARow
<1>5. \A j : j \in AtCell(rs, cell) <=> j \in 1 .. a + b /\ rs[j].ecode.row = cell[1] /\ rs[j].ecode.col = cell[2]
  BY <1>1 DEF AtCell
<1>6. \A S, i : i \in OfCell(S, tx, cell) <=> i \in S /\ Ecode(tx[i].ev).row = cell[1] /\ Ecode(tx[i].ev).col = cell[2]
  BY DEF OfCell
<1>7. ASSUME NEW i \in OfCell(P, tx, cell) PROVE PlaceOf(P, i) \in AtCell(rs, cell) /\ PlaceOf(P, i) \in 1 .. a
  BY ONLY <1>2, <1>3, <1>5, <1>6, <1>7
<1>8. ASSUME NEW i \in OfCell(A, tx, cell) PROVE a + PlaceOf(A, i) \in AtCell(rs, cell) /\ PlaceOf(A, i) \in 1 .. b
  <2>1. PICK p : p = PlaceOf(A, i)
    OBVIOUS
  <2>2. p \in 1 .. b /\ rs[a + p].ecode = Ecode(tx[i].ev) /\ a + p \in 1 .. a + b
    BY <1>2, <1>4, <1>6, <2>1
  <2>. QED
    BY <1>5, <1>6, <2>1, <2>2
<1>9. ASSUME NEW j \in AtCell(rs, cell)
      PROVE  \/ \E i \in OfCell(P, tx, cell) : j = PlaceOf(P, i)
             \/ \E i \in OfCell(A, tx, cell) : j = a + PlaceOf(A, i)
  <2>1. CASE j \in 1 .. a
    <3>1. PICK i \in P : PlaceOf(P, i) = j
      BY <1>3, <2>1
    <3>2. rs[j].ecode = Ecode(tx[i].ev)
      BY <1>3, <2>1, <3>1
    <3>. QED
      BY <1>5, <1>6, <3>1, <3>2
  <2>2. CASE j - a \in 1 .. b /\ a + (j - a) = j
    <3>1. PICK h \in 1 .. b : h = j - a
      BY <2>2
    <3>2. PICK i \in A : PlaceOf(A, i) = h
      BY <1>4
    <3>3. rs[j].ecode = Ecode(tx[i].ev) /\ j = a + PlaceOf(A, i)
      BY <1>4, <2>2, <3>1, <3>2, SMTT(30)
    <3>4. Ecode(tx[i].ev).row = cell[1] /\ Ecode(tx[i].ev).col = cell[2]
      BY ONLY <1>5, <1>9, <3>3
    <3>5. i \in OfCell(A, tx, cell)
      BY ONLY <1>6, <3>2, <3>4
    <3>. QED
      BY <3>3, <3>5
  <2>. QED
    BY <1>2, <1>5, <2>1, <2>2
<1>10. AtCell(rs, cell) \subseteq 1 .. a + b
  BY <1>5
<1>. QED
  BY <1>7, <1>8, <1>9, <1>10 DEF CellFrom

(* The reflex is the last action of those lines, or else the last transition.    *)
IsLastOf(reflex, GP, GA, tx, st) ==
  /\ \A z \in GA : (\A i \in GA : i <= z) => reflex.action = <<tx[z].from, tx[z].ev>>
  /\ GA = {} => \A z \in GP :
       (\A i \in GP : i <= z) => reflex = [action |-> Null, next |-> FoundIn(st, tx[z].to)]
  /\ GA = {} /\ GP = {} => reflex = NoReflex

LEMMA CellSays ==
  ASSUME NEW tx, NEW st, NEW s, NEW n \in Nat, NEW P, P \subseteq 1 .. n, NEW A, A \subseteq 1 .. n,
         s.trans \in Seq(Transition), s.actions \in Seq(Action),
         TransFrom(s.trans, P, tx, st), ActionsFrom(s.actions, A, tx), NEW cell \in Rows \X Cols
  PROVE  IsLastOf(Filled(s)[cell], OfCell(P, tx, cell), OfCell(A, tx, cell), tx, st)
<1>1. PICK u, v, a, b, rs : /\ u = s.trans /\ v = s.actions /\ a = Len(u) /\ b = Len(v)
                            /\ rs = Reflexes(s)
  OBVIOUS
<1>2. InARow(rs, u, a, v, b)
  BY <1>1, ReflexesAre
<1>3. a \in Nat /\ b \in Nat
  BY <1>2 DEF InARow
<1>4. PICK at, GP, GA : at = AtCell(rs, cell) /\ GP = OfCell(P, tx, cell) /\ GA = OfCell(A, tx, cell)
  OBVIOUS
<1>5. /\ at \subseteq 1 .. a + b
      /\ \A i \in GP : PlaceOf(P, i) \in at /\ PlaceOf(P, i) \in 1 .. a
      /\ \A i \in GA : a + PlaceOf(A, i) \in at /\ PlaceOf(A, i) \in 1 .. b
      /\ \A j \in at : (\E i \in GP : j = PlaceOf(P, i)) \/ (\E i \in GA : j = a + PlaceOf(A, i))
  <2>1. TransFrom(u, P, tx, st) /\ ActionsFrom(v, A, tx)
    BY <1>1
  <2>2. CellFrom(at, P, GP, A, GA, a, b)
    BY <1>1, <1>2, <1>4, <2>1, CellLines
  <2>. QED
    BY <2>2 DEF CellFrom
<1>6. GP \subseteq P /\ GA \subseteq A
  BY <1>4 DEF OfCell
<1>7. at \subseteq Nat
  BY <1>3, <1>5
<1>8. /\ at = {} => Filled(s)[cell] = NoReflex
      /\ \A z \in at : (\A j \in at : j <= z) => Filled(s)[cell] = [action |-> rs[z].action, next |-> rs[z].next]
  BY <1>1, <1>4, <1>7, CellFacts
<1>9. ASSUME NEW z \in GA, \A i \in GA : i <= z
      PROVE  Filled(s)[cell].action = <<tx[z].from, tx[z].ev>>
  <2>1. PICK p : p = PlaceOf(A, z)
    OBVIOUS
  <2>2. a + p \in at /\ p \in 1 .. b
    BY <1>5, <2>1
  <2>3. ASSUME NEW j \in at PROVE j <= a + p
    <3>1. CASE \E i \in GP : j = PlaceOf(P, i)
      <4>1. j \in 1 .. a
        BY <1>5, <3>1
      <4>. QED
        BY <1>3, <2>2, <4>1
    <3>2. CASE \E i \in GA : j = a + PlaceOf(A, i)
      <4>1. PICK i \in GA : j = a + PlaceOf(A, i)
        BY <3>2
      <4>2. PICK p2 : p2 = PlaceOf(A, i)
        OBVIOUS
      <4>3. i \in A /\ z \in A /\ i <= z
        BY <1>6, <1>9
      <4>4. p2 <= p
        BY <2>1, <4>2, <4>3, PlaceIsOne
      <4>5. p2 \in 1 .. b
        BY <1>5, <4>2
      <4>6. j = a + p2
        BY <4>1, <4>2
      <4>. QED
        BY ONLY <1>3, <2>2, <4>4, <4>5, <4>6
    <3>. QED
      BY <1>5, <3>1, <3>2
  <2>4. Filled(s)[cell].action = rs[a + p].action
    <3>1. PICK y : y = a + p
      OBVIOUS
    <3>2. Filled(s)[cell] = [action |-> rs[y].action, next |-> rs[y].next]
      BY ONLY <1>8, <2>2, <2>3, <3>1
    <3>3. Filled(s)[cell].action = rs[y].action
      BY ONLY <3>2
    <3>. QED
      BY <3>1, <3>3
  <2>5. rs[a + p].action = v[p].func
    BY <1>2, <2>2 DEF InARow
  <2>6. v[p].func = <<tx[z].from, tx[z].ev>>
    <3>1. ActionsFrom(v, A, tx) /\ z \in A
      BY <1>1, <1>6
    <3>. QED
      BY <2>1, <3>1 DEF ActionsFrom
  <2>. QED
    BY <2>4, <2>5, <2>6
<1>10. ASSUME GA = {}, NEW z \in GP, \A i \in GP : i <= z
       PROVE  Filled(s)[cell] = [action |-> Null, next |-> FoundIn(st, tx[z].to)]
  <2>1. PICK p : p = PlaceOf(P, z)
    OBVIOUS
  <2>2. p \in at /\ p \in 1 .. a
    BY <1>5, <2>1
  <2>3. ASSUME NEW j \in at PROVE j <= p
    <3>1. PICK i \in GP : j = PlaceOf(P, i)
      BY <1>5, <1>10
    <3>2. i \in P /\ z \in P /\ i <= z
      BY <1>6, <1>10
    <3>. QED
      BY <2>1, <3>1, <3>2, PlaceIsOne
  <2>4. Filled(s)[cell] = [action |-> rs[p].action, next |-> rs[p].next]
    BY <1>8, <2>2, <2>3
  <2>5. rs[p].action = Null /\ rs[p].next = u[p].next
    BY <1>2, <2>2 DEF InARow
  <2>6. u[p].next = FoundIn(st, tx[z].to)
    <3>1. TransFrom(u, P, tx, st) /\ z \in P
      BY <1>1, <1>6
    <3>. QED
      BY <2>1, <3>1 DEF TransFrom
  <2>. QED
    BY <2>4, <2>5, <2>6
<1>11. ASSUME GA = {}, GP = {} PROVE Filled(s)[cell] = NoReflex
  BY <1>5, <1>8, <1>11
<1>. QED
  BY <1>4, <1>9, <1>10, <1>11 DEF IsLastOf

(* The lines of a state and an event, as MatrixMeansText counts them.          *)
LinesGiven(op, t, n, k) ==
  {i \in Lines(op) : /\ text[i].ev = [type |-> t, n |-> n]
                     /\ Number(text[i].from) = k}

LEMMA GivenAreOfCell ==
  ASSUME NumbersFit, SmdInv, phase = "created", NEW op \in {"+", "@"}, NEW k,
         NEW t \in DOMAIN Type, NEW n \in Cols
  PROVE  LinesGiven(op, t, n, k) = OfCell(LinesFor(text, op, desc.states, k), text, <<Type[t], n>>)
<1>1. PICK tx, N, st, m, cell : /\ tx = text /\ N = Len(text) /\ st = desc.states /\ m = Len(desc.states)
                                /\ cell = <<Type[t], n>>
  OBVIOUS
<1>2. /\ tx \in Seq(Line) /\ desc \in Desc /\ Taken(tx) /\ StatesSay(tx, st) /\ AllFit(st)
  BY <1>1 DEF SmdInv
<1>3. st \in Seq(State) /\ m \in Nat /\ DOMAIN st = 1 .. m
  <2>1. st \in Seq(State)
    BY <1>1, <1>2, DescFields
  <2>. QED
    BY <1>1, <2>1
<1>4. N \in Nat /\ DOMAIN tx = 1 .. N
  BY <1>1, <1>2
<1>5. HasPlaces(tx)
  BY <1>2, <1>3, FitIfPlaced
<1>6. NamesSay(tx, st)
  BY <1>2, StatesSayIf
<1>7. LinesOf(tx, op) = Lines(op)
  BY <1>1 DEF LinesOf, Lines
<1>8. ASSUME NEW i \in LinesOf(tx, op) PROVE Number(tx[i].from) = FoundIn(st, tx[i].from)
  <2>1. FoundIn(st, tx[i].from) # 0
    <3>1. \A j \in LinesOf(tx, "+") \cup LinesOf(tx, "@") : FoundIn(st, tx[j].from) # 0
      BY <1>2, <1>3, <1>6, UsedAreFound
    <3>2. i \in LinesOf(tx, "+") \cup LinesOf(tx, "@")
      BY <1>8
    <3>. QED
      BY <3>1, <3>2
  <2>. QED
    BY <1>1, <1>3, <1>4, <1>6, <2>1, NumberIsFound
<1>9. ASSUME NEW i \in LinesOf(tx, op)
      PROVE  tx[i].ev = [type |-> t, n |-> n] <=> Ecode(tx[i].ev).row = cell[1] /\ Ecode(tx[i].ev).col = cell[2]
  <2>1. PICK l : l = tx[i]
    OBVIOUS
  <2>2. l \in Line /\ l.op \in {"+", "@"} /\ l.ev.type \in DOMAIN Type /\ l.ev.n \in Cols
    <3>1. i \in LinesOf(tx, "+") \cup LinesOf(tx, "@") /\ i \in DOMAIN tx /\ tx[i].op = op
      BY <1>9 DEF LinesOf
    <3>2. l \in Line
      BY <1>2, <2>1, <3>1
    <3>. QED
      BY <1>2, <1>5, <2>1, <3>1, <3>2 DEF Taken, HasPlaces
  <2>3. Ecode(l.ev) = [row |-> Type[l.ev.type], col |-> l.ev.n]
    BY <2>2, EventsHavePlaces
  <2>4. l.ev = [type |-> l.ev.type, n |-> l.ev.n]
    BY <2>2, LineAssumption
  <2>5. Ecode(l.ev).row = Type[l.ev.type] /\ Ecode(l.ev).col = l.ev.n
    BY ONLY <2>3
  <2>6. cell[1] = Type[t] /\ cell[2] = n
    BY <1>1
  <2>7. Type[l.ev.type] = Type[t] <=> l.ev.type = t
    BY <2>2, TypesAreRows
  <2>8. l.ev = [type |-> t, n |-> n] <=> l.ev.type = t /\ l.ev.n = n
    <3>1. PICK y, z : y = l.ev.type /\ z = l.ev.n
      OBVIOUS
    <3>2. l.ev = [type |-> y, n |-> z]
      BY <2>4, <3>1
    <3>. QED
      BY ONLY <3>1, <3>2
  <2>. QED
    BY ONLY <2>1, <2>5, <2>6, <2>7, <2>8
<1>10. PICK G, H : G = LinesGiven(op, t, n, k) /\ H = OfCell(LinesFor(tx, op, st, k), tx, cell)
  OBVIOUS
<1>11. \A i : i \in G <=> i \in LinesOf(tx, op) /\ tx[i].ev = [type |-> t, n |-> n] /\ Number(tx[i].from) = k
  BY <1>1, <1>7, <1>10 DEF LinesGiven
<1>12. \A i : i \in H <=> /\ i \in LinesOf(tx, op) /\ FoundIn(st, tx[i].from) = k
                          /\ Ecode(tx[i].ev).row = cell[1] /\ Ecode(tx[i].ev).col = cell[2]
  BY <1>10 DEF OfCell, LinesFor
<1>13. \A i : i \in G <=> i \in H
  BY ONLY <1>8, <1>9, <1>11, <1>12
<1>14. G = H
  BY ONLY <1>13, Zenon
<1>. QED
  BY <1>1, <1>10, <1>14

LEMMA MatricesMeanText ==
  ASSUME NumbersFit, SmdInv
  PROVE  MatrixMeansText
<1>1. SUFFICES ASSUME phase = "created", NEW k \in DOMAIN matrix, NEW t \in DOMAIN Type, NEW n \in Cols
               PROVE  IF LinesGiven("@", t, n, k) # {}
                      THEN matrix[k][<<Type[t], n>>].action =
                             <<text[CHOOSE i \in LinesGiven("@", t, n, k) :
                                      \A j \in LinesGiven("@", t, n, k) : j <= i].from,
                               text[CHOOSE i \in LinesGiven("@", t, n, k) :
                                      \A j \in LinesGiven("@", t, n, k) : j <= i].ev>>
                      ELSE IF LinesGiven("+", t, n, k) # {}
                      THEN matrix[k][<<Type[t], n>>] =
                             [action |-> Null,
                              next |-> Number(text[CHOOSE i \in LinesGiven("+", t, n, k) :
                                                     \A j \in LinesGiven("+", t, n, k) : j <= i].to)]
                      ELSE matrix[k][<<Type[t], n>>] = NoReflex
  BY DEF MatrixMeansText, LinesGiven
<1>2. PICK tx, N, st, m, cell : /\ tx = text /\ N = Len(text) /\ st = desc.states /\ m = Len(desc.states)
                                /\ cell = <<Type[t], n>>
  OBVIOUS
<1>3. /\ tx \in Seq(Line) /\ desc \in Desc /\ Taken(tx) /\ StatesSay(tx, st)
      /\ matrix = [j \in DOMAIN st |-> Filled(st[j])]
  BY <1>1, <1>2 DEF SmdInv
<1>4. st \in Seq(State) /\ m \in Nat /\ DOMAIN st = 1 .. m
  <2>1. st \in Seq(State)
    BY <1>2, <1>3, DescFields
  <2>. QED
    BY <1>2, <2>1
<1>5. N \in Nat /\ DOMAIN tx = 1 .. N
  BY <1>2, <1>3
<1>6. k \in 1 .. m /\ matrix[k] = Filled(st[k])
  BY <1>1, <1>3, <1>4
<1>7. PICK s, P, A, GP, GA :
        /\ s = st[k] /\ P = LinesFor(tx, "+", st, k) /\ A = LinesFor(tx, "@", st, k)
        /\ GP = LinesGiven("+", t, n, k) /\ GA = LinesGiven("@", t, n, k)
  OBVIOUS
<1>8. GP = OfCell(P, tx, cell) /\ GA = OfCell(A, tx, cell)
  BY <1>1, <1>2, <1>7, GivenAreOfCell
<1>9. P \subseteq 1 .. N /\ A \subseteq 1 .. N /\ GP \subseteq P /\ GA \subseteq A
  BY <1>5, <1>7, <1>8 DEF LinesFor, LinesOf, OfCell
<1>10. s.trans \in Seq(Transition) /\ s.actions \in Seq(Action)
  BY <1>4, <1>6, <1>7, StateAt
<1>11. NamesSay(tx, st) /\ TransSay(tx, st, k) /\ ActionsSay(tx, st, k)
  BY <1>3, <1>4, <1>6, StatesSayIf
<1>12. TransFrom(s.trans, P, tx, st) /\ ActionsFrom(s.actions, A, tx)
  BY <1>7, <1>11, TransAreLines, ActionsAreLines
<1>13. cell \in Rows \X Cols
  BY <1>1, <1>2, TypesAreRows
<1>14. /\ \A z \in GA : (\A i \in GA : i <= z) => Filled(s)[cell].action = <<tx[z].from, tx[z].ev>>
       /\ GA = {} => \A z \in GP : (\A i \in GP : i <= z) =>
                       Filled(s)[cell] = [action |-> Null, next |-> FoundIn(st, tx[z].to)]
       /\ GA = {} /\ GP = {} => Filled(s)[cell] = NoReflex
  <2>1. IsLastOf(Filled(s)[cell], GP, GA, tx, st)
    <3>1. P \subseteq 1 .. N /\ A \subseteq 1 .. N
      BY <1>9
    <3>. QED
      BY ONLY <1>5, <1>8, <1>10, <1>12, <1>13, <3>1, CellSays
  <2>. QED
    BY <2>1 DEF IsLastOf
<1>15. Filled(s)[cell] = matrix[k][<<Type[t], n>>]
  BY <1>2, <1>6, <1>7
<1>16. CASE GA # {}
  <2>1. PICK z : z = CHOOSE i \in GA : \A j \in GA : j <= i
    OBVIOUS
  <2>2. z \in GA /\ \A i \in GA : i <= z
    <3>1. GA \subseteq 1 .. N
      BY <1>9
    <3>2. \E i \in GA : \A j \in GA : j <= i
      BY <1>5, <1>16, <3>1, LargestNumber
    <3>. QED
      BY <2>1, <3>2
  <2>3. matrix[k][<<Type[t], n>>].action = <<tx[z].from, tx[z].ev>>
    BY <1>14, <1>15, <2>2
  <2>. QED
    BY <1>2, <1>7, <1>16, <2>1, <2>3
<1>17. CASE GA = {} /\ GP # {}
  <2>1. PICK z : z = CHOOSE i \in GP : \A j \in GP : j <= i
    OBVIOUS
  <2>2. z \in GP /\ \A i \in GP : i <= z
    <3>1. GP \subseteq 1 .. N
      BY <1>9
    <3>2. \E i \in GP : \A j \in GP : j <= i
      BY <1>5, <1>17, <3>1, LargestNumber
    <3>. QED
      BY <2>1, <3>2
  <2>3. matrix[k][<<Type[t], n>>] = [action |-> Null, next |-> FoundIn(st, tx[z].to)]
    BY <1>14, <1>15, <1>17, <2>2
  <2>4. Number(tx[z].to) = FoundIn(st, tx[z].to)
    <3>1. z \in LinesOf(tx, "+")
      BY <1>7, <1>9, <2>2 DEF LinesFor
    <3>2. FoundIn(st, tx[z].to) # 0
      BY <1>3, <1>4, <1>11, <3>1, UsedAreFound
    <3>. QED
      BY <1>2, <1>4, <1>5, <1>11, <3>2, NumberIsFound
  <2>. QED
    BY <1>2, <1>7, <1>17, <2>1, <2>3, <2>4
<1>18. CASE GA = {} /\ GP = {}
  BY <1>7, <1>14, <1>15, <1>18
<1>. QED
  BY <1>16, <1>17, <1>18

(* What lines say in their order is what the list holds.                       *)
LEMMA CollectedNumbers ==
  ASSUME NEW n \in Nat, DOMAIN text = 1 .. n, NEW op, NEW s \in Seq(Int),
         Collected(s, LinesOf(text, op), NumberOf(text))
  PROVE  s = [k \in 1 .. Cardinality(Lines(op)) |->
                text[CHOOSE i \in Lines(op) : Cardinality({j \in Lines(text[i].op) : j <= i}) = k].n]
<1>1. PICK P : P = LinesOf(text, op)
  OBVIOUS
<1>2. P = Lines(op)
  BY <1>1 DEF LinesOf, Lines
<1>3. \A i \in P : text[i].op = op /\ NumberOf(text)[i] = text[i].n
  BY <1>1 DEF LinesOf, NumberOf
<1>4. \A i \in P : Cardinality({j \in Lines(text[i].op) : j <= i}) = PlaceOf(P, i)
  BY <1>2, <1>3 DEF PlaceOf
<1>5. /\ Len(s) = Cardinality(P)
      /\ \A i \in P : PlaceOf(P, i) \in 1 .. Len(s) /\ s[PlaceOf(P, i)] = text[i].n
      /\ \A k \in 1 .. Len(s) : \E i \in P : PlaceOf(P, i) = k
  BY <1>1, <1>3 DEF Collected
<1>6. ASSUME NEW k \in 1 .. Cardinality(P)
      PROVE  s[k] = text[CHOOSE i \in P : Cardinality({j \in Lines(text[i].op) : j <= i}) = k].n
  <2>1. PICK i : i = CHOOSE i2 \in P : Cardinality({j \in Lines(text[i2].op) : j <= i2}) = k
    OBVIOUS
  <2>2. \E i2 \in P : Cardinality({j \in Lines(text[i2].op) : j <= i2}) = k
    BY <1>4, <1>5
  <2>3. i \in P /\ Cardinality({j \in Lines(text[i].op) : j <= i}) = k
    BY <2>1, <2>2
  <2>4. PlaceOf(P, i) = k
    BY <1>4, <2>3
  <2>. QED
    BY <1>5, <2>1, <2>3, <2>4
<1>7. PICK r, c : /\ c = Cardinality(P)
                  /\ r = [k \in 1 .. c |->
                            text[CHOOSE i \in P : Cardinality({j \in Lines(text[i].op) : j <= i}) = k].n]
  OBVIOUS
<1>8. \A k \in 1 .. c : r[k] = s[k]
  BY <1>6, <1>7
<1>9. s = [k \in 1 .. c |-> s[k]]
  <2>1. s = [k \in 1 .. Len(s) |-> s[k]]
    OBVIOUS
  <2>. QED
    BY <1>5, <1>7, <2>1
<1>10. r = [k \in 1 .. c |-> r[k]]
  BY <1>7
<1>11. s = r
  BY ONLY <1>8, <1>9, <1>10
<1>. QED
  BY <1>2, <1>7, <1>11

LEMMA MachinesHaveChannels ==
  ASSUME SmdInv
  PROVE  ChannelsMeanText
<1>1. SUFFICES ASSUME phase = "created" PROVE ChannelsMeanText
  BY DEF ChannelsMeanText
<1>2. PICK d, N : d = desc /\ N = Len(text)
  OBVIOUS
<1>3. /\ text \in Seq(Line) /\ d \in Desc /\ ChannelsSay(text, d)
      /\ d.nch = 2 + Len(d.timers) + Len(d.signals)
  BY <1>1, <1>2 DEF SmdInv
<1>4. d.timers \in Seq(Int) /\ d.signals \in Seq(Int) /\ d.has_data \in BOOLEAN /\ d.has_fsys \in BOOLEAN
  BY <1>3, DescFields
<1>5. N \in Nat /\ DOMAIN text = 1 .. N
  BY <1>2, <1>3
<1>6. \A op : LinesOf(text, op) = Lines(op)
  BY DEF LinesOf, Lines
<1>7. d.timers = [k \in 1 .. Cardinality(Lines("T")) |->
                    text[CHOOSE i \in Lines("T") : Cardinality({j \in Lines(text[i].op) : j <= i}) = k].n]
  BY <1>3, <1>4, <1>5, CollectedNumbers DEF ChannelsSay
<1>8. d.signals = [k \in 1 .. Cardinality(Lines("S")) |->
                     text[CHOOSE i \in Lines("S") : Cardinality({j \in Lines(text[i].op) : j <= i}) = k].n]
  BY <1>3, <1>4, <1>5, CollectedNumbers DEF ChannelsSay
<1>9. d.has_data = (\E i \in Lines("+") \cup Lines("@") : text[i].ev.type = "D")
  <2>1. d.has_data <=> (\E i \in Lines("+") \cup Lines("@") : text[i].ev.type = "D")
    BY <1>3, <1>6 DEF ChannelsSay, Uses
  <2>. QED
    BY <1>4, <2>1
<1>10. d.has_fsys = (\E i \in Lines("+") \cup Lines("@") : text[i].ev.type = "F")
  <2>1. d.has_fsys <=> (\E i \in Lines("+") \cup Lines("@") : text[i].ev.type = "F")
    BY <1>3, <1>6 DEF ChannelsSay, Uses
  <2>. QED
    BY <1>4, <2>1
<1>11. \A i \in Lines("F") : (\A j \in Lines("F") : j <= i) => d.nwatches = text[i].n
  BY <1>3, <1>6 DEF ChannelsSay
<1>12. Len(d.timers) + Len(d.signals) + (IF d.has_data THEN 1 ELSE 0) + (IF d.has_fsys THEN 1 ELSE 0) <= d.nch
  <2>1. PICK p, q, x, y : /\ p = Len(d.timers) /\ q = Len(d.signals)
                          /\ x = (IF d.has_data THEN 1 ELSE 0) /\ y = (IF d.has_fsys THEN 1 ELSE 0)
    OBVIOUS
  <2>2. p \in Nat /\ q \in Nat
    BY <1>4, <2>1
  <2>3. x \in 0 .. 1 /\ y \in 0 .. 1
    BY <2>1
  <2>4. d.nch = 2 + p + q
    BY <1>3, <2>1
  <2>5. p + q + x + y <= d.nch
    BY ONLY <2>2, <2>3, <2>4
  <2>. QED
    BY <2>1, <2>5
<1>. QED
  BY <1>1, <1>2, <1>7, <1>8, <1>9, <1>10, <1>11, <1>12 DEF ChannelsMeanText

(* The machine that is made is the one its file describes: the reflex of a       *)
(* state and an event is the last action given for them, or else the last       *)
(* transition, to the state first declared by that name; its channels are      *)
(* those the file asks for (smd.c, edsm__create).                              *)
THEOREM MachinesMeanText ==
  ASSUME NumbersFit
  PROVE  SmdSpec => []MachineMeansText
<1>1. SmdInv => MachineMeansText
  BY MatricesMeanText, MachinesHaveChannels DEF MachineMeansText
<1>. QED
  BY <1>1, DescriptionsInvariant, PTL

=============================================================================
