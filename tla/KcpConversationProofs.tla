------------------------ MODULE KcpConversationProofs ------------------------
(***************************************************************************)
(* Proofs about KcpConversation, for every window, retransmit limit,       *)
(* segment layout and bound.                                               *)
(***************************************************************************)
EXTENDS KcpConversation, SequenceTheorems, TLAPS

\* A pending entry, as TypeOK gives it.
Entry == [raw : Segment, transmits : 1..MaxRetransmits]

IsPush(segment) == segment.cmd = "push"

\* _pending is the run of client segments that ends at nextSend.
PendingRun ==
    \A i \in 1..Len(pending) :
        /\ IsPush(pending[i].raw)
        /\ pending[i].raw.sn = nextSend - Len(pending) + i - 1
        /\ pending[i].raw.una <= nextReceive

\* What the device reports is what it holds.
DeviceReports ==
    \A i \in 1..Len(toClient) :
        /\ toClient[i].una <= devReceived
        /\ toClient[i].cmd = "ack" => toClient[i].sn \in devHeld

DeviceHolds ==
    /\ \A n \in 0..(devReceived - 1) : n \in devHeld
    /\ \A h \in devHeld : \A n \in 0..h : n \in devHeld

\* The relay is in order, so a push is preceded by every earlier segment.
PushOrder ==
    \A i \in 1..Len(toDevice) :
        IsPush(toDevice[i]) =>
            /\ toDevice[i].sn < nextSend
            /\ \A n \in 0..(toDevice[i].sn - 1) :
                  n \in devHeld \/ \E j \in 1..(i - 1) : IsPush(toDevice[j]) /\ toDevice[j].sn = n

NothingLost ==
    \A n \in Nat : n < nextSend =>
        n \in devHeld \/ \E j \in 1..Len(toDevice) : IsPush(toDevice[j]) /\ toDevice[j].sn = n

\* The receive side: what the device has in flight fits the window ...
InWindow ==
    /\ nextReceive <= devNext
    /\ received \subseteq 0..(devNext - 1)
    /\ devUnacked \subseteq 0..(devNext - 1)
    /\ \A i \in 1..Len(toClient) : IsPush(toClient[i]) => toClient[i].sn < devNext
    /\ ~closed =>
         /\ received \subseteq (nextReceive + 1)..(nextReceive + ReceiveWindow - 1)
         /\ \A n \in devUnacked : n < nextReceive + ReceiveWindow
         /\ \A i \in 1..Len(toClient) :
               IsPush(toClient[i]) => toClient[i].sn < nextReceive + ReceiveWindow

\* ... and an acknowledgement on its way is for a segment that was kept.
AckKept ==
    \A i \in 1..Len(toDevice) :
        /\ toDevice[i].una <= nextReceive
        /\ ~closed /\ toDevice[i].cmd = "ack" =>
              toDevice[i].sn < nextReceive \/ toDevice[i].sn \in received

\* The message being assembled starts on a message boundary.
Boundary ==
    /\ fragFirst <= nextReceive
    /\ \A n \in fragFirst..(nextReceive - 1) : Frg[n] # 0
    /\ fragFirst # 0 => Frg[fragFirst - 1] = 0

ClosedIsEmpty == closed => received = {} /\ pending = <<>>

IInv ==
    /\ TypeOK /\ PendingRun /\ DeviceReports /\ DeviceHolds /\ PushOrder /\ NothingLost
    /\ InWindow /\ AckKept /\ Boundary /\ ClosedIsEmpty
    /\ AckedIsKept /\ RetiredIsHeld /\ HandedOnceAndWhole /\ ArmedWhilePending

-----------------------------------------------------------------------------
\* A step that leaves the relay to the device alone keeps what is known of it.
LEMMA PushesKept ==
    ASSUME PushOrder, NothingLost, toDevice' = toDevice, nextSend' = nextSend, devHeld' = devHeld
    PROVE  PushOrder' /\ NothingLost'
<1>1. PushOrder'
  BY SMTT(30) DEF PushOrder
<1>2. NothingLost'
  BY SMTT(30) DEF NothingLost
<1> QED BY <1>1, <1>2

\* Moving the window forward keeps what was below its end below it.
LEMMA WindowMoves ==
    \A start, moved, n, width \in Int :
        start <= moved /\ n < start + width => n < moved + width
OBVIOUS

\* The elements of a concatenation, from the left and from the right part.
LEMMA ConcatSplit ==
    ASSUME NEW S, NEW left \in Seq(S), NEW right \in Seq(S)
    PROVE  /\ left \o right \in Seq(S)
           /\ Len(left \o right) = Len(left) + Len(right)
           /\ Len(left) \in Nat
           /\ \A i \in 1..Len(left) : (left \o right)[i] = left[i]
           /\ \A i \in 1..Len(right) : (left \o right)[Len(left) + i] = right[i]
OBVIOUS

\* Retiring up to una keeps the run contiguous, drops only segments below una,
\* and keeps the loop armed exactly while something is left.
LEMMA RetireKeepsRun ==
    ASSUME TypeOK, PendingRun, ArmedWhilePending, NEW una \in Nat, RetirePending(una)
    PROVE  /\ pending' \in Seq(Entry)
           /\ Len(pending') <= Len(pending)
           /\ armed' \in BOOLEAN
           /\ armed' <=> pending' # <<>>
           /\ \A i \in 1..Len(pending') :
                 /\ IsPush(pending'[i].raw)
                 /\ pending'[i].raw.sn = nextSend - Len(pending') + i - 1
                 /\ pending'[i].raw.una <= nextReceive
           /\ \A n \in 0..(nextSend - Len(pending') - 1) :
                 n < una \/ n < nextSend - Len(pending)
<1>1. PICK k \in 0..Len(pending) :
        /\ \A i \in 1..k : pending[i].raw.sn < una
        /\ k < Len(pending) => pending[k + 1].raw.sn >= una
        /\ pending' = SubSeq(pending, k + 1, Len(pending))
        /\ armed' = (armed /\ k < Len(pending))
  BY DEF RetirePending
<1>2. pending \in Seq(Entry) /\ nextSend \in Nat /\ Len(pending) \in Nat
  BY DEF TypeOK, Entry
<1>3. /\ Len(pending') = Len(pending) - k
      /\ \A i \in 1..Len(pending') : pending'[i] = pending[i + k]
      /\ pending' \in Seq(Entry)
  BY <1>1, <1>2
<1>4. armed' \in BOOLEAN /\ (armed' <=> pending' # <<>>)
  <2>1. pending' # <<>> <=> k < Len(pending)
    BY <1>2, <1>3, EmptySeq
  <2>2. k < Len(pending) => pending # <<>>
    BY <1>1, <1>2
  <2> QED BY <1>1, <2>1, <2>2, Zenon DEF ArmedWhilePending
<1>5. ASSUME NEW i \in 1..Len(pending')
      PROVE  /\ IsPush(pending'[i].raw)
             /\ pending'[i].raw.sn = nextSend - Len(pending') + i - 1
             /\ pending'[i].raw.una <= nextReceive
  <2>1. i + k \in 1..Len(pending) /\ pending'[i] = pending[i + k]
    BY <1>2, <1>3
  <2>2. /\ IsPush(pending[i + k].raw)
        /\ pending[i + k].raw.sn = nextSend - Len(pending) + (i + k) - 1
        /\ pending[i + k].raw.una <= nextReceive
    BY <2>1, Zenon DEF PendingRun
  <2> QED BY <1>2, <1>3, <2>1, <2>2
<1>6. ASSUME NEW n \in 0..(nextSend - Len(pending') - 1), ~(n < nextSend - Len(pending))
      PROVE  n < una
  <2> DEFINE j == n - (nextSend - Len(pending)) + 1
  <2>1. j \in 1..k /\ j \in 1..Len(pending) /\ nextSend - Len(pending) + j - 1 = n
    BY <1>2, <1>3, <1>6
  <2> HIDE DEF j
  <2>2. pending[j].raw.sn = nextSend - Len(pending) + j - 1
    BY <2>1, Zenon DEF PendingRun
  <2> QED BY <1>1, <2>1, <2>2
<1>7. Len(pending') <= Len(pending)
  BY <1>1, <1>2, <1>3
<1> QED BY <1>3, <1>4, <1>5, <1>6, <1>7, Zenon

\* Accepting a push that fits the window keeps what was kept, keeps the push,
\* and hands each completed message over once.
LEMMA AcceptKeeps ==
    ASSUME TypeOK, InWindow, Boundary, HandedOnceAndWhole, ~closed,
           NEW sn \in Nat, sn < devNext, sn < nextReceive + ReceiveWindow, Accept(sn)
    PROVE  /\ nextReceive' \in Nat /\ nextReceive <= nextReceive' /\ nextReceive' <= devNext
           /\ received' \subseteq 0..(devNext - 1)
           /\ received' \subseteq (nextReceive' + 1)..(nextReceive' + ReceiveWindow - 1)
           /\ \A n \in Nat : n < nextReceive \/ n \in received \/ n = sn
                               => n < nextReceive' \/ n \in received'
           /\ fragFirst' \in Nat /\ Boundary'
           /\ handed' \in [DeviceSegments -> Nat] /\ HandedOnceAndWhole'
           /\ \A n \in DeviceSegments : handed'[n] # handed[n] => n >= fragFirst
<1> USE BoundsAssumption
<1>t. /\ nextReceive \in Nat /\ devNext \in 0..DeviceTotal /\ received \subseteq DeviceSegments
      /\ fragFirst \in Nat /\ handed \in [DeviceSegments -> Nat]
      /\ nextReceive <= devNext /\ received \subseteq 0..(devNext - 1)
      /\ received \subseteq (nextReceive + 1)..(nextReceive + ReceiveWindow - 1)
  BY DEF TypeOK, InWindow
<1>1. CASE ~Wanted(sn)
  <2>1. UNCHANGED <<nextReceive, received, fragFirst, handed>>
    BY <1>1 DEF Accept
  <2>2. sn < nextReceive \/ sn \in received
    BY <1>1, <1>t DEF Wanted
  <2>3. Boundary' /\ HandedOnceAndWhole'
    BY <2>1 DEF Boundary, HandedOnceAndWhole
  <2> QED BY <1>t, <2>1, <2>2, <2>3
<1>2. CASE Wanted(sn)
  <2>w. sn >= nextReceive /\ sn < nextReceive + ReceiveWindow /\ sn \notin received
    BY <1>2 DEF Wanted
  <2>1. PICK next \in nextReceive..(nextReceive + ReceiveWindow) :
             /\ Reaches(nextReceive, received \union {sn}, next)
             /\ nextReceive' = next
             /\ received' = (received \union {sn}) \ (nextReceive..(next - 1))
             /\ Join(next)
    BY <1>2 DEF Accept
  <2>2. PICK first \in fragFirst..next :
             /\ \A n \in first..(next - 1) : Frg[n] # 0
             /\ first # fragFirst => Frg[first - 1] = 0
             /\ fragFirst' = first
             /\ handed' = [n \in DeviceSegments |->
                             IF handler /\ n \in fragFirst..(first - 1)
                             THEN handed[n] + 1 ELSE handed[n]]
    BY <2>1 DEF Join
  <2>3. /\ \A m \in nextReceive..(next - 1) : m \in received \union {sn}
        /\ next \notin received \union {sn}
    BY <2>1 DEF Reaches
  <2>4. nextReceive' \in Nat /\ nextReceive <= nextReceive' /\ nextReceive' <= devNext
    <3>1. next # nextReceive => next - 1 \in received \union {sn}
      BY <1>t, <2>3
    <3> QED BY <1>t, <2>w, <2>1, <3>1
  <2>5. received' \subseteq 0..(devNext - 1)
    BY <1>t, <2>w, <2>1
  <2>6. received' \subseteq (nextReceive' + 1)..(nextReceive' + ReceiveWindow - 1)
    BY <1>t, <2>w, <2>1, <2>3
  <2>7. \A n \in Nat : n < nextReceive \/ n \in received \/ n = sn
                            => n < nextReceive' \/ n \in received'
    BY <1>t, <2>w, <2>1
  <2>8. fragFirst' \in Nat /\ fragFirst <= first /\ first <= next
    BY <1>t, <2>2
  <2>9. Boundary'
    BY <1>t, <2>1, <2>2, <2>8 DEF Boundary
  <2>10. handed' \in [DeviceSegments -> Nat]
    BY <1>t, <2>2
  <2>11. \A n \in DeviceSegments : handed'[n] # handed[n] => n >= fragFirst
    BY <1>t, <2>2 DEF DeviceSegments
  <2>12. HandedOnceAndWhole'
    <3> SUFFICES ASSUME NEW n \in DeviceSegments
                 PROVE  /\ handed'[n] <= 1
                        /\ handed'[n] = 1 => n < fragFirst'
                        /\ Frg[n] # 0 => handed'[n] = handed'[n + 1]
      BY DEF HandedOnceAndWhole
    <3>1. /\ handed[n] <= 1 /\ handed[n] \in Nat
          /\ handed[n] = 1 => n < fragFirst
          /\ Frg[n] # 0 => handed[n] = handed[n + 1]
      BY <1>t DEF HandedOnceAndWhole
    <3>2. n \in Nat
      BY DEF DeviceSegments
    <3>3. handed'[n] <= 1 /\ (handed'[n] = 1 => n < fragFirst')
      BY <1>t, <2>2, <2>8, <3>1, <3>2
    <3>4. ASSUME Frg[n] # 0
          PROVE  handed'[n] = handed'[n + 1]
      <4>1. n + 1 \in DeviceSegments
        BY <3>4, FrgAssumption
      <4>2. n # first - 1 \/ first = fragFirst
        BY <2>2, <3>4
      <4>3. n # fragFirst - 1
        BY <1>t, <3>2, <3>4 DEF Boundary
      <4>4. n \in fragFirst..(first - 1) <=> n + 1 \in fragFirst..(first - 1)
        BY <1>t, <2>8, <3>2, <4>2, <4>3
      <4> QED BY <2>2, <3>1, <3>4, <4>1, <4>4
    <3> QED BY <3>3, <3>4
  <2> QED BY <2>4, <2>5, <2>6, <2>7, <2>8, <2>9, <2>10, <2>11, <2>12
<1> QED BY <1>1, <1>2

-----------------------------------------------------------------------------
\* A new conversation satisfies the inductive invariant.
LEMMA InitIInv == Init => IInv
<1> SUFFICES ASSUME Init PROVE IInv
  OBVIOUS
<1> USE BoundsAssumption
<1>1. TypeOK
  <2>1. /\ pending \in Seq([raw : Segment, transmits : 1..MaxRetransmits])
        /\ toDevice \in Seq(Segment) /\ toClient \in Seq(Segment)
    BY EmptySeq DEF Init
  <2>2. handed \in [DeviceSegments -> Nat]
    BY DEF Init
  <2>3. handler \in BOOLEAN /\ closed \in BOOLEAN /\ armed \in BOOLEAN
    BY DEF Init
  <2>4. /\ nextSend \in 0..ClientTotal /\ nextReceive \in Nat /\ fragFirst \in Nat
        /\ sleepMark \in 0..ClientTotal /\ devNext \in 0..DeviceTotal
        /\ devReceived \in 0..ClientTotal
    BY DEF Init
  <2> QED BY <2>1, <2>2, <2>3, <2>4 DEF Init, TypeOK
<1>2. PendingRun /\ DeviceReports /\ DeviceHolds /\ PushOrder /\ NothingLost
  BY DEF Init, PendingRun, DeviceReports, DeviceHolds, PushOrder, NothingLost
<1>3. InWindow /\ AckKept /\ Boundary /\ ClosedIsEmpty
  BY DEF Init, InWindow, AckKept, Boundary, ClosedIsEmpty
<1>4. AckedIsKept /\ RetiredIsHeld /\ ArmedWhilePending
  BY DEF Init, AckedIsKept, RetiredIsHeld, ArmedWhilePending
<1>5. HandedOnceAndWhole
  BY FrgAssumption DEF Init, HandedOnceAndWhole
<1> QED BY <1>1, <1>2, <1>3, <1>4, <1>5 DEF IInv

\* input: every branch retires what the device holds; a push is also delivered
\* and acknowledged.
LEMMA InputStep == IInv /\ Input => IInv'
<1> SUFFICES ASSUME IInv, Input PROVE IInv'
  OBVIOUS
<1> USE BoundsAssumption
<1> DEFINE s == Head(toClient)
<1>t. TypeOK /\ PendingRun /\ ArmedWhilePending /\ ~closed
  BY DEF IInv, Input
<1>1. /\ toClient \in Seq(Segment) /\ toClient # <<>> /\ toDevice \in Seq(Segment)
      /\ toClient' = Tail(toClient)
      /\ UNCHANGED <<nextSend, handler, closed, sleepMark, deviceVars>>
      /\ nextSend \in Nat /\ nextReceive \in Nat /\ pending \in Seq(Entry)
  BY <1>t DEF Input, TypeOK, Entry
<1>2. /\ s \in Segment /\ s = toClient[1] /\ 1 \in 1..Len(toClient)
      /\ toClient' \in Seq(Segment) /\ Len(toClient') = Len(toClient) - 1
      /\ \A i \in 1..Len(toClient') : i + 1 \in 1..Len(toClient) /\ toClient'[i] = toClient[i + 1]
  BY <1>1
<1>3. s.una \in Nat /\ s.sn \in Nat
  BY <1>2 DEF Segment
\* Whatever is retired is held by the device.
<1>4. \E una \in Nat : /\ RetirePending(una)
                       /\ \A n \in 0..(una - 1) : n \in devHeld
  <2>1. \A n \in 0..(s.una - 1) : n \in devHeld
    BY <1>t, <1>2, <1>3 DEF IInv, DeviceReports, DeviceHolds, TypeOK
  <2>2. CASE InputAck(s)
    <3>1. s.sn \in devHeld
      BY <1>2, <2>2 DEF IInv, DeviceReports, InputAck
    <3>2. \A n \in 0..s.sn : n \in devHeld
      BY <3>1 DEF IInv, DeviceHolds
    <3> DEFINE u == IF s.una > s.sn THEN s.una ELSE s.sn + 1
    <3>3. u \in Nat /\ \A n \in 0..(u - 1) : n \in devHeld
      BY <1>3, <2>1, <3>2
    <3>4. RetirePending(u)
      BY <2>2 DEF InputAck
    <3> QED BY <3>3, <3>4
  <2>3. CASE InputPush(s) \/ InputAsk(s) \/ InputOther(s)
    BY <1>3, <2>1, <2>3 DEF InputPush, InputAsk, InputOther
  <2> QED BY <2>2, <2>3 DEF Input
<1>5. PICK una \in Nat : RetirePending(una) /\ \A n \in 0..(una - 1) : n \in devHeld
  BY <1>4
<1>6. /\ pending' \in Seq(Entry) /\ Len(pending') <= Len(pending)
      /\ armed' \in BOOLEAN /\ (armed' <=> pending' # <<>>)
      /\ \A i \in 1..Len(pending') :
            /\ IsPush(pending'[i].raw)
            /\ pending'[i].raw.sn = nextSend - Len(pending') + i - 1
            /\ pending'[i].raw.una <= nextReceive
      /\ \A n \in 0..(nextSend - Len(pending') - 1) : n < una \/ n < nextSend - Len(pending)
  BY <1>t, <1>5, RetireKeepsRun
<1>7. RetiredIsHeld'
  <2> SUFFICES ASSUME NEW n \in 0..(nextSend - Len(pending') - 1)
               PROVE  n \in devHeld
    BY <1>1 DEF RetiredIsHeld, deviceVars
  <2>1. n < una \/ n < nextSend - Len(pending)
    BY <1>6
  <2>2. n < una => n \in devHeld
    BY <1>5
  <2>3. n < nextSend - Len(pending) => n \in devHeld
    BY <1>1, <1>t DEF IInv, RetiredIsHeld
  <2> QED BY <2>1, <2>2, <2>3
\* The receive side of the four branches.
<1>8. /\ nextReceive' \in Nat /\ nextReceive <= nextReceive' /\ nextReceive' <= devNext
      /\ received' \subseteq 0..(devNext - 1)
      /\ received' \subseteq (nextReceive' + 1)..(nextReceive' + ReceiveWindow - 1)
      /\ \A n \in Nat : n < nextReceive \/ n \in received => n < nextReceive' \/ n \in received'
      /\ fragFirst' \in Nat /\ Boundary'
      /\ handed' \in [DeviceSegments -> Nat] /\ HandedOnceAndWhole'
      /\ IsPush(s) => s.sn < nextReceive' \/ s.sn \in received'
  <2>1. CASE InputPush(s)
    <3>1. Accept(s.sn) /\ s.sn < devNext /\ s.sn < nextReceive + ReceiveWindow
      BY <1>t, <1>2, <2>1 DEF InputPush, IsPush, IInv, InWindow
    <3> QED BY <1>t, <1>3, <3>1, AcceptKeeps DEF IInv
  <2>2. CASE InputAck(s) \/ InputAsk(s) \/ InputOther(s)
    <3>1. UNCHANGED <<nextReceive, received, fragFirst, handed>> /\ ~IsPush(s)
      BY <2>2 DEF InputAck, InputAsk, InputOther, IsPush
    <3>2. Boundary' /\ HandedOnceAndWhole'
      BY <3>1 DEF IInv, Boundary, HandedOnceAndWhole
    <3> QED BY <1>t, <3>1, <3>2 DEF IInv, InWindow, TypeOK
  <2> QED BY <2>1, <2>2 DEF Input
\* What the branches write to the relay.
<1>9. \/ toDevice' = toDevice
      \/ \E m \in Segment : /\ toDevice' = Append(toDevice, m)
                            /\ ~IsPush(m) /\ m.una = nextReceive'
                            /\ m.cmd = "ack" => m.sn < nextReceive' \/ m.sn \in received'
  <2>1. CASE InputPush(s)
    <3> DEFINE m == BuildSegment("ack", 0, s.sn, nextReceive')
    <3>1. toDevice' = Append(toDevice, m)
      BY <2>1 DEF InputPush
    <3>2. /\ m \in Segment /\ ~IsPush(m) /\ m.una = nextReceive'
          /\ m.sn < nextReceive' \/ m.sn \in received'
      BY <1>3, <1>8, <2>1 DEF InputPush, BuildSegment, Segment, IsPush
    <3> QED BY <3>1, <3>2
  <2>2. CASE InputAsk(s)
    <3> DEFINE m == BuildSegment("tell", 0, 0, nextReceive')
    <3>1. toDevice' = Append(toDevice, m)
      BY <2>2 DEF InputAsk
    <3>2. m \in Segment /\ ~IsPush(m) /\ m.una = nextReceive' /\ m.cmd # "ack"
      BY <1>8 DEF BuildSegment, Segment, IsPush
    <3> QED BY <3>1, <3>2
  <2>3. CASE InputAck(s) \/ InputOther(s)
    BY <2>3 DEF InputAck, InputOther
  <2> QED BY <2>1, <2>2, <2>3 DEF Input
<1>10. /\ toDevice' \in Seq(Segment) /\ Len(toDevice') >= Len(toDevice)
       /\ \A i \in 1..Len(toDevice) : toDevice'[i] = toDevice[i]
       /\ \A i \in 1..Len(toDevice') : i > Len(toDevice) =>
             /\ ~IsPush(toDevice'[i]) /\ toDevice'[i].una = nextReceive'
             /\ toDevice'[i].cmd = "ack" =>
                   toDevice'[i].sn < nextReceive' \/ toDevice'[i].sn \in received'
  <2>1. CASE toDevice' = toDevice
    BY <1>1, <2>1
  <2>2. CASE toDevice' # toDevice
    <3>1. PICK m \in Segment : /\ toDevice' = Append(toDevice, m)
                               /\ ~IsPush(m) /\ m.una = nextReceive'
                               /\ m.cmd = "ack" => m.sn < nextReceive' \/ m.sn \in received'
      BY <1>9, <2>2
    <3>2. /\ toDevice' \in Seq(Segment) /\ Len(toDevice') = Len(toDevice) + 1
          /\ \A i \in 1..Len(toDevice) : toDevice'[i] = toDevice[i]
          /\ toDevice'[Len(toDevice) + 1] = m
      BY <1>1, <3>1, AppendProperties
    <3>3. \A i \in 1..Len(toDevice') : i > Len(toDevice) => toDevice'[i] = m
      BY <1>1, <3>2
    <3>4. Len(toDevice') >= Len(toDevice)
      BY <1>1, <3>2
    <3> HIDE <1>1, <1>9, <3>3
    <3> QED BY <3>1, <3>2, <3>3, <3>4
  <2> QED BY <2>1, <2>2
<1>11. TypeOK'
  <2>1. received' \subseteq DeviceSegments
    <3>1. devNext \in Nat /\ devNext <= DeviceTotal /\ DeviceTotal \in Nat
      BY <1>t DEF TypeOK
    <3> QED BY <1>8, <3>1 DEF DeviceSegments
  <2>2. pending' \in Seq([raw : Segment, transmits : 1..MaxRetransmits])
    BY <1>6 DEF Entry
  <2>3. /\ nextSend' \in 0..ClientTotal /\ handler' \in BOOLEAN /\ closed' \in BOOLEAN
        /\ sleepMark' \in 0..ClientTotal
    BY <1>t, <1>1 DEF TypeOK
  <2>4. /\ devNext' \in 0..DeviceTotal /\ devUnacked' \subseteq DeviceSegments
        /\ devHeld' \subseteq 0..(ClientTotal - 1) /\ devReceived' \in 0..ClientTotal
    BY <1>t, <1>1 DEF TypeOK, deviceVars
  <2>5. toClient' \in Seq(Segment)
    BY <1>t, <1>1, <1>2 DEF TypeOK
  <2>6. nextReceive' \in Nat /\ fragFirst' \in Nat /\ handed' \in [DeviceSegments -> Nat]
    BY <1>8
  <2>7. armed' \in BOOLEAN /\ toDevice' \in Seq(Segment)
    BY <1>6, <1>10
  <2> QED BY <2>1, <2>2, <2>3, <2>4, <2>5, <2>6, <2>7 DEF TypeOK
<1>12. PendingRun'
  <2> SUFFICES ASSUME NEW i \in 1..Len(pending')
               PROVE  /\ IsPush(pending'[i].raw)
                      /\ pending'[i].raw.sn = nextSend - Len(pending') + i - 1
                      /\ pending'[i].raw.una <= nextReceive'
    BY <1>1 DEF PendingRun
  <2>1. pending'[i].raw.una \in Nat
    <3>1. pending'[i] \in Entry
      BY <1>6, ElementOfSeq
    <3> QED BY <3>1 DEF Entry, Segment
  <2>2. /\ IsPush(pending'[i].raw) /\ pending'[i].raw.una <= nextReceive
        /\ pending'[i].raw.sn = nextSend - Len(pending') + i - 1
    BY <1>6
  <2>3. pending'[i].raw.una <= nextReceive'
    BY <1>1, <1>8, <2>1, <2>2, SMTT(30)
  <2> QED BY <2>2, <2>3
<1>13. DeviceReports' /\ DeviceHolds'
  BY <1>1, <1>2 DEF IInv, DeviceReports, DeviceHolds, deviceVars
<1>14. PushOrder' /\ NothingLost'
  <2>1. Len(toDevice) \in Nat /\ Len(toDevice') \in Nat
    BY <1>1, <1>10
  <2>2. nextSend' = nextSend /\ devHeld' = devHeld
    BY <1>1 DEF deviceVars
  <2>3. ASSUME NEW i \in 1..Len(toDevice'), IsPush(toDevice'[i])
        PROVE  /\ toDevice'[i].sn < nextSend
               /\ \A n \in 0..(toDevice'[i].sn - 1) :
                     n \in devHeld
                     \/ \E j \in 1..(i - 1) : IsPush(toDevice'[j]) /\ toDevice'[j].sn = n
    <3>1. i \in 1..Len(toDevice) /\ toDevice'[i] = toDevice[i]
      BY <1>10, <2>1, <2>3
    <3>2. /\ toDevice[i].sn < nextSend
          /\ \A n \in 0..(toDevice[i].sn - 1) :
                n \in devHeld \/ \E j \in 1..(i - 1) : IsPush(toDevice[j]) /\ toDevice[j].sn = n
      BY <2>3, <3>1 DEF IInv, PushOrder
    <3>3. \A j \in 1..(i - 1) : toDevice'[j] = toDevice[j]
      BY <1>10, <2>1, <3>1
    <3> QED BY <3>1, <3>2, <3>3
  <2>4. ASSUME NEW n \in Nat, n < nextSend
        PROVE  n \in devHeld
               \/ \E j \in 1..Len(toDevice') : IsPush(toDevice'[j]) /\ toDevice'[j].sn = n
    <3>1. n \in devHeld \/ \E j \in 1..Len(toDevice) : IsPush(toDevice[j]) /\ toDevice[j].sn = n
      BY <2>4 DEF IInv, NothingLost
    <3>2. \A j \in 1..Len(toDevice) : j \in 1..Len(toDevice') /\ toDevice'[j] = toDevice[j]
      BY <1>10, <2>1
    <3> QED BY <3>1, <3>2
  <2> QED BY <2>2, <2>3, <2>4 DEF PushOrder, NothingLost
<1>16. InWindow'
  <2>1. /\ devNext' = devNext /\ devUnacked' = devUnacked /\ closed' = closed
        /\ devUnacked \subseteq 0..(devNext - 1) /\ devNext \in Nat
    BY <1>t, <1>1 DEF IInv, InWindow, deviceVars, TypeOK
  <2>2. \A n \in devUnacked : n < nextReceive' + ReceiveWindow
    <3>1. ASSUME NEW n \in 0..(devNext - 1), n < nextReceive + ReceiveWindow
          PROVE  n < nextReceive' + ReceiveWindow
      <4>1. n \in Int /\ nextReceive \in Int /\ nextReceive' \in Int /\ ReceiveWindow \in Int
        BY <1>1, <1>8, <2>1
      <4> QED BY <1>8, <3>1, <4>1, WindowMoves, Zenon
    <3> QED BY <1>t, <2>1, <3>1 DEF IInv, InWindow
  <2>3. ASSUME NEW i \in 1..Len(toClient'), IsPush(toClient'[i])
        PROVE  toClient'[i].sn < devNext /\ toClient'[i].sn < nextReceive' + ReceiveWindow
    <3>1. i + 1 \in 1..Len(toClient) /\ toClient'[i] = toClient[i + 1]
      BY <1>2
    <3>2. toClient[i + 1].sn < devNext /\ toClient[i + 1].sn < nextReceive + ReceiveWindow
      BY <1>t, <2>3, <3>1 DEF IInv, InWindow
    <3>3. toClient[i + 1].sn \in Nat
      <4>1. toClient[i + 1] \in Segment
        BY <1>1, <3>1, ElementOfSeq
      <4> QED BY <4>1 DEF Segment
    <3> QED BY <1>1, <1>8, <3>1, <3>2, <3>3, SMTT(30)
  <2> QED BY <1>8, <2>1, <2>2, <2>3 DEF InWindow
<1>17. AckKept'
  <2> SUFFICES ASSUME NEW i \in 1..Len(toDevice')
               PROVE  /\ toDevice'[i].una <= nextReceive'
                      /\ toDevice'[i].cmd = "ack" =>
                            toDevice'[i].sn < nextReceive' \/ toDevice'[i].sn \in received'
    BY <1>1 DEF AckKept
  <2>1. toDevice'[i] \in Segment
    BY <1>10
  <2>2. CASE i <= Len(toDevice)
    <3>1. toDevice'[i] = toDevice[i] /\ i \in 1..Len(toDevice)
      BY <1>1, <1>10, <2>2
    <3>2. toDevice[i].una <= nextReceive
          /\ (toDevice[i].cmd = "ack" => toDevice[i].sn < nextReceive \/ toDevice[i].sn \in received)
      BY <1>t, <3>1 DEF IInv, AckKept
    <3>3. toDevice[i].una \in Nat /\ toDevice[i].sn \in Nat
      BY <2>1, <3>1 DEF Segment
    <3> QED BY <1>1, <1>8, <3>1, <3>2, <3>3, SMTT(30)
  <2>3. CASE i > Len(toDevice)
    BY <1>8, <1>10, <2>3
  <2> QED BY <1>1, <2>2, <2>3
<1>18. ClosedIsEmpty' /\ ArmedWhilePending'
  <2>1. ClosedIsEmpty'
    BY <1>t, <1>1 DEF ClosedIsEmpty
  <2>2. ArmedWhilePending'
    BY <1>6, Zenon DEF ArmedWhilePending
  <2> QED BY <2>1, <2>2
<1>19. AckedIsKept'
  BY <1>t, <1>1, <1>8 DEF IInv, AckedIsKept, deviceVars, TypeOK
<1> QED BY <1>7, <1>8, <1>11, <1>12, <1>13, <1>14, <1>16, <1>17, <1>18, <1>19 DEF IInv

\* A closed conversation drops what arrives; a new handler changes nothing the
\* invariant speaks of.
LEMMA QuietSteps ==
    IInv /\ (InputWhenClosed \/ SetMessageHandler \/ CloseConversation \/ UNCHANGED vars) => IInv'
<1> USE BoundsAssumption
<1>1. ASSUME IInv, InputWhenClosed PROVE IInv'
  <2>1. /\ closed /\ toClient \in Seq(Segment) /\ toClient' = Tail(toClient) /\ toClient # <<>>
        /\ UNCHANGED <<clientVars, toDevice, deviceVars>>
    BY <1>1 DEF InputWhenClosed, IInv, TypeOK
  <2>2. /\ toClient' \in Seq(Segment) /\ Len(toClient') = Len(toClient) - 1
        /\ \A i \in 1..Len(toClient') : i + 1 \in 1..Len(toClient) /\ toClient'[i] = toClient[i + 1]
    BY <2>1
  <2>0. PushOrder' /\ NothingLost'
    BY <1>1, <2>1, PushesKept DEF IInv, clientVars, deviceVars
  <2>3. TypeOK' /\ PendingRun' /\ DeviceHolds' /\ PushOrder' /\ NothingLost'
    BY <1>1, <2>0, <2>1, <2>2 DEF IInv, TypeOK, PendingRun, DeviceHolds,
                            clientVars, deviceVars
  <2>4. DeviceReports' /\ InWindow'
    BY <1>1, <2>1, <2>2 DEF IInv, DeviceReports, InWindow, clientVars, deviceVars
  <2>5. AckKept' /\ Boundary' /\ ClosedIsEmpty' /\ AckedIsKept' /\ RetiredIsHeld'
        /\ HandedOnceAndWhole' /\ ArmedWhilePending'
    BY <1>1, <2>1 DEF IInv, AckKept, Boundary, ClosedIsEmpty, AckedIsKept, RetiredIsHeld,
                      HandedOnceAndWhole, ArmedWhilePending, clientVars, deviceVars
  <2> QED BY <2>3, <2>4, <2>5 DEF IInv
<1>2. ASSUME IInv, SetMessageHandler PROVE IInv'
  <2>1. /\ handler' = TRUE
        /\ UNCHANGED <<nextSend, nextReceive, received, pending, fragFirst, handed,
                       closed, armed, sleepMark, toDevice, toClient, deviceVars>>
    BY <1>2 DEF SetMessageHandler
  <2>2. TypeOK' /\ PendingRun' /\ DeviceReports' /\ DeviceHolds'
    BY <1>2, <2>1 DEF IInv, TypeOK, PendingRun, DeviceReports, DeviceHolds, deviceVars
  <2>3. PushOrder' /\ NothingLost'
    BY <1>2, <2>1, PushesKept DEF IInv, deviceVars
  <2>4. InWindow' /\ AckKept' /\ Boundary' /\ ClosedIsEmpty'
    BY <1>2, <2>1 DEF IInv, InWindow, AckKept, Boundary, ClosedIsEmpty, deviceVars
  <2>5. AckedIsKept' /\ RetiredIsHeld' /\ HandedOnceAndWhole' /\ ArmedWhilePending'
    BY <1>2, <2>1 DEF IInv, AckedIsKept, RetiredIsHeld, HandedOnceAndWhole, ArmedWhilePending,
                      deviceVars
  <2> QED BY <2>2, <2>3, <2>4, <2>5 DEF IInv
<1>3. ASSUME IInv, CloseConversation PROVE IInv'
  <2>1. /\ closed' = TRUE /\ armed' = FALSE /\ received' = {} /\ pending' = <<>> /\ handler' = FALSE
        /\ UNCHANGED <<nextSend, nextReceive, fragFirst, handed, sleepMark,
                       toDevice, toClient, deviceVars>>
    BY <1>3 DEF CloseConversation, Close
  <2>2. TypeOK'
    <3>1. pending' \in Seq([raw : Segment, transmits : 1..MaxRetransmits])
      BY <2>1, EmptySeq
    <3>2. closed' \in BOOLEAN /\ armed' \in BOOLEAN /\ handler' \in BOOLEAN
      BY <2>1
    <3> QED BY <1>3, <2>1, <3>1, <3>2 DEF IInv, TypeOK, deviceVars
  <2>5. PendingRun'
    BY <2>1 DEF PendingRun
  <2>3. DeviceReports' /\ DeviceHolds' /\ InWindow' /\ AckKept'
    BY <1>3, <2>1 DEF IInv, DeviceReports, DeviceHolds, InWindow, AckKept, deviceVars
  <2>6. PushOrder' /\ NothingLost'
    BY <1>3, <2>1, PushesKept DEF IInv, deviceVars
  <2>4. Boundary' /\ ClosedIsEmpty' /\ AckedIsKept' /\ RetiredIsHeld'
        /\ HandedOnceAndWhole' /\ ArmedWhilePending'
    BY <1>3, <2>1 DEF IInv, Boundary, ClosedIsEmpty, AckedIsKept, RetiredIsHeld,
                      HandedOnceAndWhole, ArmedWhilePending, deviceVars
  <2> QED BY <2>2, <2>3, <2>4, <2>5, <2>6 DEF IInv
<1>4. ASSUME IInv, UNCHANGED vars PROVE IInv'
  <2>1. TypeOK' /\ PendingRun' /\ DeviceReports' /\ DeviceHolds'
    BY <1>4 DEF IInv, TypeOK, PendingRun, DeviceReports, DeviceHolds, vars, clientVars, deviceVars
  <2>2. PushOrder' /\ NothingLost'
    BY <1>4, PushesKept DEF IInv, vars, clientVars, deviceVars
  <2>3. InWindow' /\ AckKept' /\ Boundary' /\ ClosedIsEmpty'
    BY <1>4 DEF IInv, InWindow, AckKept, Boundary, ClosedIsEmpty, vars, clientVars, deviceVars
  <2>4. AckedIsKept' /\ RetiredIsHeld' /\ HandedOnceAndWhole' /\ ArmedWhilePending'
    BY <1>4 DEF IInv, AckedIsKept, RetiredIsHeld, HandedOnceAndWhole, ArmedWhilePending,
                vars, clientVars, deviceVars
  <2> QED BY <2>1, <2>2, <2>3, <2>4 DEF IInv
<1> QED BY <1>1, <1>2, <1>3, <1>4

\* send: the new segments follow the ones already on the relay, in order.
LEMMA SendStep == ASSUME NEW count \in 1..ClientTotal, IInv, Send(count) PROVE IInv'
<1> USE BoundsAssumption
<1> DEFINE raw(i) == BuildSegment("push", count - i, nextSend + i - 1, nextReceive)
           new == [i \in 1..count |-> raw(i)]
           entries == [i \in 1..count |-> [raw |-> raw(i), transmits |-> 1]]
<1>1. /\ ~closed /\ nextSend + count <= ClientTotal
      /\ pending' = pending \o entries /\ toDevice' = toDevice \o new
      /\ nextSend' = nextSend + count /\ armed' = TRUE
      /\ sleepMark' = IF armed THEN sleepMark ELSE nextSend + count
      /\ UNCHANGED <<nextReceive, received, fragFirst, handed, handler, closed, toClient, deviceVars>>
  BY DEF Send
<1>2. /\ TypeOK /\ nextSend \in Nat /\ nextReceive \in Nat /\ count \in Nat
      /\ pending \in Seq(Entry) /\ toDevice \in Seq(Segment)
      /\ sleepMark \in 0..ClientTotal
  BY DEF IInv, TypeOK, Entry
<1>3. \A i \in 1..count : /\ raw(i) \in Segment /\ IsPush(raw(i))
                         /\ raw(i).sn = nextSend + i - 1 /\ raw(i).una = nextReceive
  BY <1>2 DEF BuildSegment, Segment, IsPush
<1>4. new \in Seq(Segment) /\ Len(new) = count /\ \A i \in 1..count : new[i] = raw(i)
  BY <1>2, <1>3, IsASeq
<1>5. /\ entries \in Seq(Entry) /\ Len(entries) = count
      /\ \A i \in 1..count : entries[i].raw = raw(i)
  <2>1. \A i \in 1..count : [raw |-> raw(i), transmits |-> 1] \in Entry
    BY <1>3 DEF Entry
  <2>2. entries \in [1..count -> Entry]
    BY <2>1
  <2>3. entries \in Seq(Entry) /\ Len(entries) = count
    <3> HIDE DEF entries
    <3> QED BY <1>2, <2>2
  <2>4. \A i \in 1..count : entries[i].raw = raw(i)
    OBVIOUS
  <2> QED BY <2>3, <2>4
<1> HIDE DEF raw, new, entries
<1>6. /\ toDevice' \in Seq(Segment) /\ Len(toDevice') = Len(toDevice) + count
      /\ Len(toDevice) \in Nat
      /\ \A i \in 1..Len(toDevice) : toDevice'[i] = toDevice[i]
      /\ \A i \in 1..count : toDevice'[Len(toDevice) + i] = raw(i)
  <2>1. /\ toDevice \o new \in Seq(Segment)
        /\ Len(toDevice \o new) = Len(toDevice) + Len(new)
        /\ Len(toDevice) \in Nat
        /\ \A i \in 1..Len(toDevice) : (toDevice \o new)[i] = toDevice[i]
        /\ \A i \in 1..Len(new) : (toDevice \o new)[Len(toDevice) + i] = new[i]
    <3>1. toDevice \in Seq(Segment) /\ new \in Seq(Segment)
      BY <1>2, <1>4
    <3> QED BY <3>1, ConcatSplit
  <2> QED BY <1>1, <1>4, <2>1
<1>7. /\ pending' \in Seq(Entry) /\ Len(pending') = Len(pending) + count
      /\ Len(pending) \in Nat
      /\ \A i \in 1..Len(pending) : pending'[i] = pending[i]
      /\ \A i \in 1..count : pending'[Len(pending) + i].raw = raw(i)
  <2>1. /\ pending \o entries \in Seq(Entry)
        /\ Len(pending \o entries) = Len(pending) + Len(entries)
        /\ Len(pending) \in Nat
        /\ \A i \in 1..Len(pending) : (pending \o entries)[i] = pending[i]
        /\ \A i \in 1..Len(entries) : (pending \o entries)[Len(pending) + i] = entries[i]
    <3>1. pending \in Seq(Entry) /\ entries \in Seq(Entry)
      BY <1>2, <1>5
    <3> HIDE <1>2, <1>5
    <3> QED BY <3>1, ConcatSplit
  <2> QED BY <1>1, <1>5, <2>1
<1>8. pending' # <<>>
  BY <1>2, <1>7
<1>9. TypeOK'
  <2>1. nextSend' \in 0..ClientTotal /\ sleepMark' \in 0..ClientTotal
    BY <1>1, <1>2
  <2>2. pending' \in Seq([raw : Segment, transmits : 1..MaxRetransmits])
    BY <1>7 DEF Entry
  <2>3. armed' \in BOOLEAN
    BY <1>1
  <2> QED BY <1>1, <1>2, <1>6, <2>1, <2>2, <2>3 DEF TypeOK, deviceVars
<1>10. PendingRun'
  <2> SUFFICES ASSUME NEW i \in 1..Len(pending')
               PROVE  /\ IsPush(pending'[i].raw)
                      /\ pending'[i].raw.sn = (nextSend + count) - (Len(pending) + count) + i - 1
                      /\ pending'[i].raw.una <= nextReceive
    BY <1>1, <1>7 DEF PendingRun
  <2>1. CASE i \in 1..Len(pending)
    <3>1. /\ IsPush(pending[i].raw)
          /\ pending[i].raw.sn = nextSend - Len(pending) + i - 1
          /\ pending[i].raw.una <= nextReceive
      BY <2>1 DEF IInv, PendingRun
    <3> QED BY <1>2, <1>7, <2>1, <3>1
  <2>2. CASE i \notin 1..Len(pending)
    <3>1. i - Len(pending) \in 1..count /\ Len(pending) + (i - Len(pending)) = i
      BY <1>2, <1>7, <2>2
    <3>2. pending'[i].raw = raw(i - Len(pending))
      BY <1>7, <3>1
    <3>3. PICK k \in 1..count : k = i - Len(pending)
      BY <3>1
    <3>4. IsPush(raw(k)) /\ raw(k).sn = nextSend + k - 1 /\ raw(k).una = nextReceive
      BY <1>3
    <3>5. nextSend + k - 1 = (nextSend + count) - (Len(pending) + count) + i - 1
      <4>1. nextSend \in Int /\ count \in Int /\ Len(pending) \in Int /\ i \in Int
        BY <1>2, <1>7
      <4> QED BY <3>3, <4>1
    <3>6. pending'[i].raw = raw(k)
      BY <3>2, <3>3
    <3>7. pending'[i].raw.una <= nextReceive
      BY <1>2, <3>4, <3>6
    <3>8. pending'[i].raw.sn = (nextSend + count) - (Len(pending) + count) + i - 1
      BY <3>4, <3>5, <3>6, Zenon
    <3>9. IsPush(pending'[i].raw)
      BY <3>4, <3>6, Zenon
    <3> QED BY <3>7, <3>8, <3>9
  <2> QED BY <2>1, <2>2
<1>11. PushOrder' /\ NothingLost'
  <2>1. ASSUME NEW n \in 0..(nextSend - 1)
        PROVE  n \in devHeld
               \/ \E j \in 1..Len(toDevice) : IsPush(toDevice'[j]) /\ toDevice'[j].sn = n
    <3>1. n \in Nat /\ n < nextSend
      BY <1>2
    <3> QED BY <1>6, <3>1 DEF IInv, NothingLost
  <2>2. ASSUME NEW n \in nextSend..(nextSend + count - 1)
        PROVE  LET j == Len(toDevice) + (n - nextSend + 1)
               IN  j \in 1..Len(toDevice') /\ IsPush(toDevice'[j]) /\ toDevice'[j].sn = n
    <3>1. PICK k \in 1..count : k = n - nextSend + 1 /\ nextSend + k - 1 = n
      <4>1. n \in Int /\ nextSend \in Int /\ count \in Int
        BY <1>2
      <4> QED BY <4>1
    <3>2. Len(toDevice) + k \in 1..Len(toDevice')
      BY <1>2, <1>6
    <3>3. toDevice'[Len(toDevice) + k] = raw(k)
      BY <1>6
    <3>4. IsPush(raw(k)) /\ raw(k).sn = nextSend + k - 1
      BY <1>3
    <3>5. IsPush(toDevice'[Len(toDevice) + k]) /\ toDevice'[Len(toDevice) + k].sn = n
      BY <3>1, <3>3, <3>4, Zenon
    <3> QED BY <3>1, <3>2, <3>5
  <2>3. NothingLost'
    <3> SUFFICES ASSUME NEW n \in Nat, n < nextSend + count
                 PROVE  n \in devHeld
                        \/ \E j \in 1..Len(toDevice') : IsPush(toDevice'[j]) /\ toDevice'[j].sn = n
      <4>1. nextSend' = nextSend + count /\ devHeld' = devHeld
        BY <1>1 DEF deviceVars
      <4> QED BY <4>1, Zenon DEF NothingLost
    <3>1. CASE n < nextSend
      <4>1. 1..Len(toDevice) \subseteq 1..Len(toDevice')
        BY <1>2, <1>6
      <4>2. n \in 0..(nextSend - 1)
        BY <1>2, <3>1
      <4> QED BY <2>1, <4>1, <4>2
    <3>2. CASE n >= nextSend
      <4>1. n \in nextSend..(nextSend + count - 1)
        BY <1>2, <3>2
      <4> QED BY <2>2, <4>1
    <3> QED BY <1>2, <3>1, <3>2
  <2>4. PushOrder'
    <3> SUFFICES ASSUME NEW i \in 1..Len(toDevice'), IsPush(toDevice'[i])
                 PROVE  /\ toDevice'[i].sn < nextSend + count
                        /\ \A n \in 0..(toDevice'[i].sn - 1) :
                              n \in devHeld
                              \/ \E j \in 1..(i - 1) : IsPush(toDevice'[j]) /\ toDevice'[j].sn = n
      <4>1. nextSend' = nextSend + count /\ devHeld' = devHeld
        BY <1>1 DEF deviceVars
      <4> QED BY <4>1, Zenon DEF PushOrder
    <3>1. CASE i \in 1..Len(toDevice)
      <4>1. toDevice'[i] = toDevice[i] /\ toDevice[i].sn < nextSend
        BY <1>6, <3>1 DEF IInv, PushOrder
      <4>2. toDevice[i].sn \in Nat
        <5>1. toDevice[i] \in Segment
          BY <1>2, <3>1, ElementOfSeq
        <5> QED BY <5>1 DEF Segment
      <4>3. \A j \in 1..(i - 1) : toDevice'[j] = toDevice[j]
        BY <1>6, <3>1
      <4>4. toDevice'[i].sn < nextSend + count
        BY <1>2, <4>1, <4>2
      <4>5. \A n \in 0..(toDevice[i].sn - 1) :
              n \in devHeld \/ \E j \in 1..(i - 1) : IsPush(toDevice[j]) /\ toDevice[j].sn = n
        BY <3>1, <4>1 DEF IInv, PushOrder
      <4> QED BY <4>1, <4>3, <4>4, <4>5
    <3>2. CASE i \notin 1..Len(toDevice)
      <4>1. i - Len(toDevice) \in 1..count /\ Len(toDevice) + (i - Len(toDevice)) = i
        BY <1>6, <3>2
      <4>2. toDevice'[i] = raw(i - Len(toDevice))
        BY <1>6, <4>1
      <4>3. toDevice'[i].sn = nextSend + (i - Len(toDevice)) - 1
        BY <1>3, <4>1, <4>2
      <4>4. ASSUME NEW n \in 0..(nextSend + (i - Len(toDevice)) - 2)
            PROVE  n \in devHeld
                   \/ \E j \in 1..(i - 1) : IsPush(toDevice'[j]) /\ toDevice'[j].sn = n
        <5>1. CASE n < nextSend
          BY <1>2, <1>6, <2>1, <4>1, <5>1
        <5>2. CASE n >= nextSend
          <6> DEFINE j == Len(toDevice) + (n - nextSend + 1)
          <6>1. j \in 1..(i - 1) /\ n \in nextSend..(nextSend + count - 1)
            BY <1>2, <1>6, <4>1, <5>2
          <6>2. IsPush(toDevice'[j]) /\ toDevice'[j].sn = n
            BY <2>2, <6>1
          <6> QED BY <6>1, <6>2
        <5> QED BY <1>2, <5>1, <5>2
      <4> QED BY <1>2, <1>6, <4>1, <4>3, <4>4
    <3> QED BY <3>1, <3>2
  <2> QED BY <2>3, <2>4
<1>12. DeviceReports' /\ DeviceHolds' /\ InWindow' /\ Boundary' /\ AckedIsKept'
       /\ HandedOnceAndWhole'
  BY <1>1 DEF IInv, DeviceReports, DeviceHolds, InWindow, Boundary, AckedIsKept,
              HandedOnceAndWhole, deviceVars
<1>13. AckKept'
  <2> SUFFICES ASSUME NEW i \in 1..Len(toDevice')
               PROVE  /\ toDevice'[i].una <= nextReceive
                      /\ toDevice'[i].cmd = "ack" =>
                            toDevice'[i].sn < nextReceive \/ toDevice'[i].sn \in received
    BY <1>1 DEF AckKept
  <2>1. CASE i \in 1..Len(toDevice)
    BY <1>1, <1>6, <2>1 DEF IInv, AckKept
  <2>2. CASE i \notin 1..Len(toDevice)
    <3>1. i - Len(toDevice) \in 1..count /\ Len(toDevice) + (i - Len(toDevice)) = i
      BY <1>6, <2>2
    <3>2. toDevice'[i] = raw(i - Len(toDevice))
      BY <1>6, <3>1
    <3>3. toDevice'[i].una = nextReceive /\ IsPush(toDevice'[i])
      BY <1>3, <3>1, <3>2
    <3> QED BY <1>2, <3>3 DEF IsPush
  <2> QED BY <2>1, <2>2
<1>14. ClosedIsEmpty' /\ ArmedWhilePending'
  BY <1>1, <1>8 DEF ClosedIsEmpty, ArmedWhilePending
<1>15. RetiredIsHeld'
  <2>1. (nextSend + count) - (Len(pending) + count) - 1 = nextSend - Len(pending) - 1
    BY <1>2, <1>7
  <2> QED BY <1>1, <1>7, <2>1 DEF IInv, RetiredIsHeld, deviceVars
<1> QED BY <1>9, <1>10, <1>11, <1>12, <1>13, <1>14, <1>15 DEF IInv

\* One wake of the retransmit loop: what is sent again was sent before, so it is
\* preceded on the relay by every earlier segment.
LEMMA RetransmitStep ==
    ASSUME NEW due \in 0..Len(pending), IInv, RetransmitOnce(due) PROVE IInv'
<1> USE BoundsAssumption
<1>1. PICK resent \in 0..due :
         /\ \A i \in 1..resent : ~GivesUp(pending[i])
         /\ toDevice' = toDevice \o [i \in 1..resent |-> pending[i].raw]
         /\ \/ /\ resent = due
               /\ pending' = [i \in 1..Len(pending) |->
                                IF i <= resent
                                THEN [pending[i] EXCEPT !.transmits = @ + 1]
                                ELSE pending[i]]
               /\ sleepMark' = nextSend
               /\ UNCHANGED <<received, handler, closed, armed>>
            \/ /\ resent < due
               /\ GivesUp(pending[resent + 1])
               /\ Close
               /\ UNCHANGED sleepMark
  BY DEF RetransmitOnce
<1>2. UNCHANGED <<nextSend, nextReceive, fragFirst, handed, toClient, deviceVars>>
  BY DEF RetransmitOnce
<1>3. /\ TypeOK /\ nextSend \in 0..ClientTotal /\ nextReceive \in Nat
      /\ pending \in Seq(Entry) /\ toDevice \in Seq(Segment)
      /\ Len(pending) \in Nat /\ resent \in Nat /\ resent <= Len(pending)
  BY DEF IInv, TypeOK, Entry
<1>4. ASSUME NEW i \in 1..Len(pending)
      PROVE  /\ pending[i] \in Entry /\ pending[i].raw \in Segment /\ IsPush(pending[i].raw)
             /\ pending[i].raw.sn \in Nat /\ pending[i].raw.sn < nextSend
             /\ pending[i].raw.una <= nextReceive /\ pending[i].transmits \in 1..MaxRetransmits
  <2>1. pending[i] \in Entry
    BY <1>3, ElementOfSeq
  <2>2. /\ IsPush(pending[i].raw) /\ pending[i].raw.una <= nextReceive
        /\ pending[i].raw.sn = nextSend - Len(pending) + i - 1
    BY DEF IInv, PendingRun
  <2>3. pending[i].raw.sn \in Nat
    BY <2>1 DEF Entry, Segment
  <2>4. pending[i].raw \in Segment /\ pending[i].transmits \in 1..MaxRetransmits
    BY <2>1 DEF Entry
  <2>5. pending[i].raw.sn < nextSend
    BY <1>3, <2>2
  <2> QED BY <2>1, <2>2, <2>3, <2>4, <2>5
<1> DEFINE again == [i \in 1..resent |-> pending[i].raw]
<1>5. /\ again \in Seq(Segment) /\ Len(again) = resent
      /\ \A i \in 1..resent : again[i] = pending[i].raw
  <2>1. again \in [1..resent -> Segment]
    BY <1>3, <1>4
  <2> HIDE DEF again
  <2>2. again \in Seq(Segment) /\ Len(again) = resent
    BY <1>3, <2>1
  <2> QED BY <2>2 DEF again
<1>6. toDevice' = toDevice \o again
  BY <1>1
<1> HIDE DEF again
<1>7. /\ toDevice' \in Seq(Segment) /\ Len(toDevice') = Len(toDevice) + resent
      /\ Len(toDevice) \in Nat
      /\ \A i \in 1..Len(toDevice) : toDevice'[i] = toDevice[i]
      /\ \A i \in 1..resent : toDevice'[Len(toDevice) + i] = pending[i].raw
  <2>1. /\ toDevice \o again \in Seq(Segment)
        /\ Len(toDevice \o again) = Len(toDevice) + Len(again)
        /\ Len(toDevice) \in Nat
        /\ \A i \in 1..Len(toDevice) : (toDevice \o again)[i] = toDevice[i]
        /\ \A i \in 1..Len(again) : (toDevice \o again)[Len(toDevice) + i] = again[i]
    <3>1. toDevice \in Seq(Segment) /\ again \in Seq(Segment)
      BY <1>3, <1>5
    <3> HIDE <1>3, <1>5
    <3> QED BY <3>1, ConcatSplit
  <2> QED BY <1>5, <1>6, <2>1
<1>8. ASSUME NEW i \in 1..Len(toDevice'), i \notin 1..Len(toDevice)
      PROVE  /\ toDevice'[i] \in Segment /\ IsPush(toDevice'[i])
             /\ toDevice'[i].sn \in Nat /\ toDevice'[i].sn < nextSend
             /\ toDevice'[i].una <= nextReceive /\ toDevice'[i].cmd # "ack"
             /\ i > Len(toDevice)
  <2>1. i - Len(toDevice) \in 1..resent /\ Len(toDevice) + (i - Len(toDevice)) = i
    BY <1>7, <1>8
  <2>2. toDevice'[i] = pending[i - Len(toDevice)].raw /\ i - Len(toDevice) \in 1..Len(pending)
    BY <1>3, <1>7, <2>1
  <2>3. i > Len(toDevice)
    BY <1>7, <2>1
  <2> QED BY <1>4, <2>2, <2>3 DEF IsPush
<1>9. PushOrder' /\ NothingLost'
  <2>1. nextSend' = nextSend /\ devHeld' = devHeld
    BY <1>2 DEF deviceVars
  <2>2. NothingLost'
    <3> SUFFICES ASSUME NEW n \in Nat, n < nextSend
                 PROVE  n \in devHeld
                        \/ \E j \in 1..Len(toDevice') : IsPush(toDevice'[j]) /\ toDevice'[j].sn = n
      BY <2>1, Zenon DEF NothingLost
    <3>1. \A j \in 1..Len(toDevice) : j \in 1..Len(toDevice') /\ toDevice'[j] = toDevice[j]
      BY <1>3, <1>7
    <3>2. n \in devHeld \/ \E j \in 1..Len(toDevice) : IsPush(toDevice[j]) /\ toDevice[j].sn = n
      BY DEF IInv, NothingLost
    <3> QED BY <3>1, <3>2
  <2>3. PushOrder'
    <3> SUFFICES ASSUME NEW i \in 1..Len(toDevice'), IsPush(toDevice'[i])
                 PROVE  /\ toDevice'[i].sn < nextSend
                        /\ \A n \in 0..(toDevice'[i].sn - 1) :
                              n \in devHeld
                              \/ \E j \in 1..(i - 1) : IsPush(toDevice'[j]) /\ toDevice'[j].sn = n
      BY <2>1 DEF PushOrder
    <3>1. CASE i \in 1..Len(toDevice)
      <4>1. toDevice'[i] = toDevice[i] /\ toDevice[i].sn < nextSend
        BY <1>7, <3>1 DEF IInv, PushOrder
      <4>2. \A n \in 0..(toDevice[i].sn - 1) :
              n \in devHeld \/ \E j \in 1..(i - 1) : IsPush(toDevice[j]) /\ toDevice[j].sn = n
        BY <3>1, <4>1 DEF IInv, PushOrder
      <4>3. \A j \in 1..(i - 1) : toDevice'[j] = toDevice[j]
        BY <1>7, <3>1
      <4> QED BY <4>1, <4>2, <4>3
    <3>2. CASE i \notin 1..Len(toDevice)
      <4>1. toDevice'[i].sn \in Nat /\ toDevice'[i].sn < nextSend /\ i > Len(toDevice)
        BY <1>8, <3>2
      <4>2. ASSUME NEW n \in 0..(toDevice'[i].sn - 1)
            PROVE  n \in devHeld
                   \/ \E j \in 1..(i - 1) : IsPush(toDevice'[j]) /\ toDevice'[j].sn = n
        <5>1. n \in Nat /\ n < nextSend
          <6> DEFINE top == toDevice'[i].sn
          <6>1. top \in Nat /\ top < nextSend /\ n \in 0..(top - 1)
            BY <4>1
          <6> HIDE DEF top
          <6> QED BY <1>3, <6>1
        <5>2. n \in devHeld \/ \E j \in 1..Len(toDevice) : IsPush(toDevice[j]) /\ toDevice[j].sn = n
          BY <5>1 DEF IInv, NothingLost
        <5>3. \A j \in 1..Len(toDevice) : j \in 1..(i - 1) /\ toDevice'[j] = toDevice[j]
          BY <1>7, <4>1
        <5> QED BY <5>2, <5>3
      <4> QED BY <4>1, <4>2
    <3> QED BY <3>1, <3>2
  <2> QED BY <2>2, <2>3
<1>10. DeviceReports' /\ DeviceHolds' /\ Boundary' /\ HandedOnceAndWhole'
  BY <1>2 DEF IInv, DeviceReports, DeviceHolds, Boundary, HandedOnceAndWhole, deviceVars
<1>11. ASSUME received' \subseteq received, closed' \/ (received' = received /\ closed' = closed)
       PROVE  AckKept'
  <2> SUFFICES ASSUME NEW i \in 1..Len(toDevice')
               PROVE  /\ toDevice'[i].una <= nextReceive
                      /\ ~closed' /\ toDevice'[i].cmd = "ack" =>
                            toDevice'[i].sn < nextReceive \/ toDevice'[i].sn \in received'
    BY <1>2 DEF AckKept
  <2>1. CASE i \in 1..Len(toDevice)
    <3>1. /\ toDevice'[i].una <= nextReceive
          /\ ~closed /\ toDevice'[i].cmd = "ack" =>
                toDevice'[i].sn < nextReceive \/ toDevice'[i].sn \in received
      BY <1>7, <2>1 DEF IInv, AckKept
    <3> QED BY <1>11, <3>1, Zenon
  <2>2. CASE i \notin 1..Len(toDevice)
    BY <1>8, <2>2
  <2> QED BY <2>1, <2>2
<1>12. CASE resent = due
  <2>1. /\ pending' = [i \in 1..Len(pending) |->
                         IF i <= resent
                         THEN [pending[i] EXCEPT !.transmits = @ + 1]
                         ELSE pending[i]]
        /\ sleepMark' = nextSend
        /\ UNCHANGED <<received, handler, closed, armed>>
    BY <1>1, <1>12
  <2>2. \A i \in 1..Len(pending) : pending'[i] \in Entry /\ pending'[i].raw = pending[i].raw
    <3> SUFFICES ASSUME NEW i \in 1..Len(pending)
                 PROVE  pending'[i] \in Entry /\ pending'[i].raw = pending[i].raw
      OBVIOUS
    <3>1. CASE i <= resent
      <4>1. pending[i].transmits < MaxRetransmits
        <5>1. ~GivesUp(pending[i])
          BY <1>1, <1>3, <3>1
        <5>2. pending[i].transmits \in 1..MaxRetransmits
          BY <1>4
        <5> QED BY <5>1, <5>2 DEF GivesUp
      <4>2. pending'[i] = [pending[i] EXCEPT !.transmits = @ + 1]
        BY <2>1, <3>1
      <4>3. pending[i] \in Entry /\ pending[i].transmits + 1 \in 1..MaxRetransmits
        BY <1>4, <4>1
      <4> QED BY <4>2, <4>3 DEF Entry
    <3>2. CASE ~(i <= resent)
      BY <1>4, <2>1, <3>2
    <3> QED BY <3>1, <3>2
  <2>3. pending' \in Seq(Entry) /\ Len(pending') = Len(pending)
    <3>1. pending' \in [1..Len(pending) -> Entry]
      BY <2>1, <2>2
    <3> QED BY <1>3, <3>1
  <2>4. TypeOK'
    <3>1. pending' \in Seq([raw : Segment, transmits : 1..MaxRetransmits])
      BY <2>3 DEF Entry
    <3> QED BY <1>2, <1>3, <1>7, <2>1, <3>1 DEF TypeOK, deviceVars
  <2>5. PendingRun'
    BY <1>2, <2>2, <2>3 DEF IInv, PendingRun
  <2>6. InWindow' /\ AckedIsKept'
    BY <1>2, <2>1 DEF IInv, InWindow, AckedIsKept, deviceVars
  <2>7. AckKept'
    BY <1>11, <2>1
  <2>8. pending' # <<>> <=> pending # <<>>
    BY <1>3, <2>3, EmptySeq
  <2>9. ClosedIsEmpty'
    <3>1. closed => pending' = <<>>
      BY <2>8 DEF IInv, ClosedIsEmpty
    <3> QED BY <2>1, <3>1 DEF IInv, ClosedIsEmpty
  <2>10. ArmedWhilePending'
    BY <2>1, <2>8 DEF IInv, ArmedWhilePending
  <2>11. RetiredIsHeld'
    BY <1>2, <2>1, <2>3 DEF IInv, RetiredIsHeld, deviceVars
  <2> QED BY <1>9, <1>10, <2>4, <2>5, <2>6, <2>7, <2>9, <2>10, <2>11 DEF IInv
<1>13. CASE resent < due
  <2>1. /\ closed' = TRUE /\ armed' = FALSE /\ received' = {} /\ pending' = <<>> /\ handler' = FALSE
        /\ UNCHANGED sleepMark
    BY <1>1, <1>3, <1>13 DEF Close
  <2>2. TypeOK'
    <3>1. pending' \in Seq([raw : Segment, transmits : 1..MaxRetransmits])
      BY <2>1, EmptySeq
    <3>2. closed' \in BOOLEAN /\ armed' \in BOOLEAN /\ handler' \in BOOLEAN
      BY <2>1
    <3> QED BY <1>2, <1>3, <1>7, <2>1, <3>1, <3>2 DEF TypeOK, deviceVars
  <2>3. PendingRun' /\ ClosedIsEmpty' /\ ArmedWhilePending' /\ RetiredIsHeld' /\ AckedIsKept'
    BY <2>1 DEF PendingRun, ClosedIsEmpty, ArmedWhilePending, RetiredIsHeld, AckedIsKept
  <2>4. InWindow'
    BY <1>2, <2>1 DEF IInv, InWindow, deviceVars
  <2>5. AckKept'
    BY <1>11, <2>1
  <2> QED BY <1>9, <1>10, <2>2, <2>3, <2>4, <2>5 DEF IInv
<1> QED BY <1>1, <1>3, <1>12, <1>13

\* The device puts one more segment in flight: the oldest it has unacknowledged
\* is at most the one the client waits for.
LEMMA DeviceQueueStep == IInv /\ DeviceQueue => IInv'
<1> SUFFICES ASSUME IInv, DeviceQueue PROVE IInv'
  OBVIOUS
<1> USE BoundsAssumption
<1>1. /\ devNext < DeviceTotal /\ devNext' = devNext + 1
      /\ \A n \in devUnacked : devNext < n + DeviceWindow
      /\ devUnacked' = devUnacked \union {devNext}
      /\ UNCHANGED <<clientVars, toDevice, toClient, devHeld, devReceived>>
  BY DEF DeviceQueue
<1>2. /\ TypeOK /\ devNext \in Nat /\ nextReceive \in Nat /\ nextReceive <= devNext
      /\ devUnacked \subseteq 0..(devNext - 1) /\ received \subseteq 0..(devNext - 1)
      /\ DeviceWindow \in Nat /\ DeviceWindow <= ReceiveWindow /\ DeviceWindow > 0
  BY WindowAssumption DEF IInv, InWindow, TypeOK
<1>3. ~closed => devNext < nextReceive + ReceiveWindow
  <2> SUFFICES ASSUME ~closed PROVE devNext < nextReceive + ReceiveWindow
    OBVIOUS
  <2>1. nextReceive \notin received
    BY <1>2 DEF IInv, InWindow
  <2>2. CASE nextReceive = devNext
    BY <1>2, <2>2
  <2>3. CASE nextReceive < devNext
    <3>1. nextReceive \in devUnacked
      BY <1>2, <2>1, <2>3 DEF IInv, AckedIsKept
    <3> QED BY <1>1, <1>2, <3>1
  <2> QED BY <1>2, <2>2, <2>3
<1>4. TypeOK'
  <2>1. devNext' \in 0..DeviceTotal /\ devUnacked' \subseteq DeviceSegments
    BY <1>1, <1>2, SMTT(30) DEF TypeOK, DeviceSegments
  <2> QED BY <1>1, <1>2, <2>1 DEF TypeOK, clientVars
<1>5. PendingRun' /\ DeviceReports' /\ DeviceHolds' /\ Boundary' /\ ClosedIsEmpty'
  BY <1>1 DEF IInv, PendingRun, DeviceReports, DeviceHolds, Boundary, ClosedIsEmpty, clientVars
<1>6. PushOrder' /\ NothingLost'
  BY <1>1, PushesKept DEF IInv, clientVars
<1>7. AckKept' /\ RetiredIsHeld' /\ HandedOnceAndWhole' /\ ArmedWhilePending'
  BY <1>1 DEF IInv, AckKept, RetiredIsHeld, HandedOnceAndWhole, ArmedWhilePending, clientVars
<1>8. InWindow'
  <2>1. UNCHANGED <<nextReceive, received, closed, toClient>>
    BY <1>1 DEF clientVars
  <2>2. 0..(devNext - 1) \subseteq 0..devNext
    BY <1>2
  <2>3. 0..(devNext' - 1) = 0..devNext
    <3> DEFINE next == devNext'
    <3>1. next = devNext + 1
      BY <1>1
    <3> HIDE DEF next
    <3>2. 0..(next - 1) = 0..devNext
      BY <1>2, <3>1
    <3> QED BY <3>2 DEF next
  <2>4. /\ received \subseteq 0..(devNext' - 1)
        /\ devUnacked' \subseteq 0..(devNext' - 1)
    BY <1>1, <1>2, <2>2, <2>3
  <2>5. nextReceive <= devNext'
    BY <1>1, <1>2
  <2>6. ASSUME NEW i \in 1..Len(toClient), IsPush(toClient[i])
        PROVE  toClient[i].sn < devNext'
    <3>1. toClient[i].sn < devNext
      BY <2>6 DEF IInv, InWindow
    <3>2. toClient[i].sn \in Nat
      <4>1. toClient[i] \in Segment
        BY <1>2, ElementOfSeq DEF TypeOK
      <4> QED BY <4>1 DEF Segment
    <3> QED BY <1>1, <1>2, <3>1, <3>2
  <2>7. ~closed => \A n \in devUnacked' : n < nextReceive + ReceiveWindow
    BY <1>1, <1>3 DEF IInv, InWindow
  <2> QED BY <2>1, <2>4, <2>5, <2>6, <2>7 DEF IInv, InWindow
<1>9. AckedIsKept'
  <2> SUFFICES ASSUME ~closed, NEW n \in 0..(devNext' - 1), n \notin devUnacked'
               PROVE  n < nextReceive \/ n \in received
    BY <1>1 DEF AckedIsKept, clientVars
  <2>1. n \in 0..(devNext - 1)
    <3> DEFINE next == devNext'
    <3>1. next = devNext + 1 /\ n \in 0..(next - 1)
      BY <1>1
    <3> HIDE DEF next
    <3>2. n # devNext
      BY <1>1
    <3> QED BY <1>2, <3>1, <3>2
  <2> QED BY <1>1, <2>1 DEF IInv, AckedIsKept
<1> QED BY <1>4, <1>5, <1>6, <1>7, <1>8, <1>9 DEF IInv

\* The device writes a segment it may write: a push in flight, or a probe.
LEMMA DeviceWriteStep ==
    ASSUME IInv, NEW m \in Segment, m.una <= devReceived, m.cmd # "ack",
           IsPush(m) => m.sn \in devUnacked,
           toClient' = Append(toClient, m),
           UNCHANGED <<clientVars, toDevice, deviceVars>>
    PROVE  IInv'
<1> USE BoundsAssumption
<1>1. /\ toClient' \in Seq(Segment) /\ Len(toClient') = Len(toClient) + 1 /\ Len(toClient) \in Nat
      /\ \A i \in 1..Len(toClient) : toClient'[i] = toClient[i]
      /\ toClient'[Len(toClient) + 1] = m
  BY DEF IInv, TypeOK
<1>2. \A i \in 1..Len(toClient') : i \in 1..Len(toClient) \/ toClient'[i] = m
  BY <1>1
<1>3. TypeOK'
  BY <1>1 DEF IInv, TypeOK, clientVars, deviceVars
<1>4. PendingRun' /\ DeviceHolds' /\ Boundary' /\ ClosedIsEmpty'
  BY DEF IInv, PendingRun, DeviceHolds, Boundary, ClosedIsEmpty, clientVars, deviceVars
<1>5. PushOrder' /\ NothingLost'
  BY PushesKept DEF IInv, clientVars, deviceVars
<1>6. AckKept' /\ AckedIsKept' /\ RetiredIsHeld' /\ HandedOnceAndWhole' /\ ArmedWhilePending'
  BY DEF IInv, AckKept, AckedIsKept, RetiredIsHeld, HandedOnceAndWhole, ArmedWhilePending,
         clientVars, deviceVars
<1>7. DeviceReports'
  BY <1>1, <1>2, SMTT(30) DEF IInv, DeviceReports, deviceVars
<1>8. InWindow'
  <2>1. IsPush(m) => m.sn < devNext /\ (~closed => m.sn < nextReceive + ReceiveWindow)
    <3>1. /\ devUnacked \subseteq 0..(devNext - 1) /\ devNext \in Nat
          /\ ~closed => \A n \in devUnacked : n < nextReceive + ReceiveWindow
      BY SMTT(30) DEF IInv, InWindow, TypeOK
    <3>2. m.sn \in devUnacked => m.sn < devNext
      <4>1. m.sn \in devUnacked => m.sn \in 0..(devNext - 1)
        BY <3>1, Zenon
      <4> QED BY <3>1, <4>1
    <3> QED BY <3>1, <3>2, Zenon
  <2>2. ASSUME NEW i \in 1..Len(toClient'), IsPush(toClient'[i])
        PROVE  /\ toClient'[i].sn < devNext
               /\ ~closed => toClient'[i].sn < nextReceive + ReceiveWindow
    <3>1. CASE i \in 1..Len(toClient)
      BY <1>1, <2>2, <3>1 DEF IInv, InWindow
    <3>2. CASE toClient'[i] = m
      BY <2>1, <2>2, <3>2
    <3> QED BY <1>2, <3>1, <3>2
  <2> QED BY <2>2 DEF IInv, InWindow, clientVars, deviceVars
<1> QED BY <1>3, <1>4, <1>5, <1>6, <1>7, <1>8 DEF IInv

\* The device reads a segment: a push follows every earlier one, so it is held
\* without a gap; an acknowledgement is for a segment the client kept.
LEMMA DeviceReceiveStep == IInv /\ DeviceReceive => IInv'
<1> SUFFICES ASSUME IInv, DeviceReceive PROVE IInv'
  OBVIOUS
<1> USE BoundsAssumption
<1> DEFINE s == Head(toDevice)
<1>1. /\ toDevice # <<>> /\ toDevice' = Tail(toDevice)
      /\ DeviceReceivePush(s) \/ DeviceReceiveOther(s)
      /\ UNCHANGED <<clientVars, devNext>>
  BY DEF DeviceReceive
<1>2. /\ TypeOK /\ toDevice \in Seq(Segment) /\ toClient \in Seq(Segment) /\ nextSend \in 0..ClientTotal
      /\ devReceived \in 0..ClientTotal /\ devHeld \subseteq 0..(ClientTotal - 1)
      /\ devUnacked \subseteq 0..(devNext - 1) /\ devNext \in Nat
  BY DEF IInv, TypeOK, InWindow
<1>3. /\ s \in Segment /\ s = toDevice[1] /\ 1 \in 1..Len(toDevice)
      /\ toDevice' \in Seq(Segment) /\ Len(toDevice') = Len(toDevice) - 1 /\ Len(toDevice) \in Nat
      /\ \A i \in 1..Len(toDevice') : i + 1 \in 1..Len(toDevice) /\ toDevice'[i] = toDevice[i + 1]
  BY <1>1, <1>2
<1>4. s.sn \in Nat /\ s.una \in Nat
  BY <1>3 DEF Segment
<1>5. /\ devHeld' \subseteq 0..(ClientTotal - 1) /\ devReceived' \in 0..ClientTotal
      /\ devReceived <= devReceived'
      /\ devHeld \subseteq devHeld' /\ DeviceHolds'
      /\ IsPush(s) => s.sn \in devHeld'
      /\ toClient' \in Seq(Segment) /\ DeviceReports'
      /\ \A i \in 1..Len(toClient') : IsPush(toClient'[i]) =>
            i \in 1..Len(toClient) /\ toClient'[i] = toClient[i]
  <2>1. CASE DeviceReceivePush(s)
    <3>1. IsPush(s) /\ devHeld' = devHeld \union {s.sn}
      BY <2>1 DEF DeviceReceivePush, IsPush
    <3>2. PICK next \in devReceived..ClientTotal :
             /\ Reaches(devReceived, devHeld', next) /\ devReceived' = next
             /\ toClient' = Append(toClient, BuildSegment("ack", 0, s.sn, next))
      BY <2>1 DEF DeviceReceivePush
    <3>3. s.sn < nextSend /\ \A n \in 0..(s.sn - 1) : n \in devHeld
      BY <1>3, <3>1 DEF IInv, PushOrder
    <3>4. devHeld' \subseteq 0..(ClientTotal - 1)
      <4>1. s.sn \in 0..(ClientTotal - 1)
        <5>1. s.sn \in Nat /\ s.sn < nextSend /\ nextSend \in 0..ClientTotal
          BY <1>2, <1>4, <3>3
        <5> HIDE <1>2, <1>4, <3>3
        <5> HIDE DEF s
        <5> QED BY <5>1
      <4> QED BY <1>2, <3>1, <4>1, Zenon
    <3>5. DeviceHolds'
      <4>1. \A n \in 0..(next - 1) : n \in devHeld'
        <5>1. \A n \in devReceived..(next - 1) : n \in devHeld'
          BY <3>2 DEF Reaches
        <5>2. \A n \in 0..(devReceived - 1) : n \in devHeld'
          BY <3>1 DEF IInv, DeviceHolds
        <5>3. \A n \in 0..(next - 1) : n \in devReceived..(next - 1) \/ n \in 0..(devReceived - 1)
          BY <1>2
        <5> QED BY <5>1, <5>2, <5>3
      <4>2. \A h \in devHeld' : \A n \in 0..h : n \in devHeld'
        BY <1>4, <3>1, <3>3 DEF IInv, DeviceHolds
      <4>3. \A n \in 0..(devReceived' - 1) : n \in devHeld'
        BY <3>2, <4>1
      <4> QED BY <4>2, <4>3 DEF DeviceHolds
    <3> DEFINE m == BuildSegment("ack", 0, s.sn, next)
    <3>6. m \in Segment /\ m.una = next /\ m.sn = s.sn /\ ~IsPush(m)
      BY <1>2, <1>4 DEF BuildSegment, Segment, IsPush
    <3> HIDE DEF m
    <3>7. /\ toClient' \in Seq(Segment) /\ Len(toClient') = Len(toClient) + 1 /\ Len(toClient) \in Nat
          /\ \A i \in 1..Len(toClient) : toClient'[i] = toClient[i]
          /\ toClient'[Len(toClient) + 1] = m
      <4>1. toClient' = Append(toClient, m)
        BY <3>2 DEF m
      <4> QED BY <1>2, <3>6, <4>1
    <3>8. \A i \in 1..Len(toClient') : i \in 1..Len(toClient) \/ toClient'[i] = m
      BY <3>7
    <3>9. devReceived' \in 0..ClientTotal /\ devReceived <= devReceived'
      BY <1>2, <3>2
    <3>10. DeviceReports'
      <4> SUFFICES ASSUME NEW i \in 1..Len(toClient')
                   PROVE  /\ toClient'[i].una <= devReceived'
                          /\ toClient'[i].cmd = "ack" => toClient'[i].sn \in devHeld'
        BY DEF DeviceReports
      <4>1. CASE i \in 1..Len(toClient)
        <5>1. toClient'[i] = toClient[i] /\ toClient[i].una <= devReceived
              /\ (toClient[i].cmd = "ack" => toClient[i].sn \in devHeld)
          BY <3>7, <4>1 DEF IInv, DeviceReports
        <5>2. toClient[i].una \in Nat
          <6>1. toClient[i] \in Segment
            BY <1>2, <4>1, ElementOfSeq
          <6> QED BY <6>1 DEF Segment
        <5> QED BY <1>2, <3>1, <3>9, <5>1, <5>2
      <4>2. CASE toClient'[i] = m
        BY <1>2, <3>1, <3>2, <3>6, <4>2
      <4> QED BY <3>8, <4>1, <4>2
    <3> QED BY <3>1, <3>4, <3>5, <3>6, <3>7, <3>8, <3>9, <3>10
  <2>2. CASE DeviceReceiveOther(s)
    <3>1. UNCHANGED <<devHeld, devReceived, toClient>> /\ ~IsPush(s)
      BY <2>2 DEF DeviceReceiveOther, IsPush
    <3>2. DeviceHolds' /\ DeviceReports'
      BY <3>1 DEF IInv, DeviceHolds, DeviceReports
    <3> QED BY <1>2, <3>1, <3>2
  <2> QED BY <1>1, <2>1, <2>2
\* Only what the client keeps leaves the device's send queue.
<1>6. /\ devUnacked' \subseteq devUnacked
      /\ ~closed => \A n \in devUnacked : n \notin devUnacked' => n < nextReceive \/ n \in received
  <2>1. /\ s.una <= nextReceive
        /\ ~closed /\ s.cmd = "ack" => s.sn < nextReceive \/ s.sn \in received
    BY <1>3 DEF IInv, AckKept
  <2>2. nextReceive \in Nat
    BY <1>2 DEF TypeOK
  <2>3. \A n \in devUnacked : n \notin devUnacked' => n < s.una \/ (s.cmd = "ack" /\ n = s.sn)
    BY <1>1, <1>2, <1>4 DEF DeviceReceivePush, DeviceReceiveOther
  <2>4. \A n \in devUnacked : n < s.una => n < nextReceive
    BY <1>2, <1>4, <2>1, <2>2
  <2>5. devUnacked' \subseteq devUnacked
    BY <1>1 DEF DeviceReceivePush, DeviceReceiveOther
  <2> QED BY <2>1, <2>3, <2>4, <2>5
<1>7. TypeOK'
  BY <1>1, <1>2, <1>3, <1>5, <1>6 DEF TypeOK, clientVars
<1>8. PendingRun' /\ Boundary' /\ ClosedIsEmpty' /\ HandedOnceAndWhole' /\ ArmedWhilePending'
  BY <1>1 DEF IInv, PendingRun, Boundary, ClosedIsEmpty, HandedOnceAndWhole, ArmedWhilePending,
              clientVars
<1>9. NothingLost'
  <2>0. nextSend' = nextSend
    BY <1>1 DEF clientVars
  <2> SUFFICES ASSUME NEW n \in Nat, n < nextSend
               PROVE  n \in devHeld'
                      \/ \E j \in 1..Len(toDevice') : IsPush(toDevice'[j]) /\ toDevice'[j].sn = n
    BY <2>0, Zenon DEF NothingLost
  <2>1. CASE n \in devHeld
    BY <1>5, <2>1
  <2>2. CASE n \notin devHeld
    <3>1. PICK j \in 1..Len(toDevice) : IsPush(toDevice[j]) /\ toDevice[j].sn = n
      BY <2>2 DEF IInv, NothingLost
    <3>2. CASE j = 1
      BY <1>3, <1>5, <3>1, <3>2
    <3>3. CASE j # 1
      <4>1. j - 1 \in 1..Len(toDevice') /\ (j - 1) + 1 = j
        BY <1>3, <3>3
      <4>2. toDevice'[j - 1] = toDevice[j]
        BY <1>3, <4>1
      <4> QED BY <3>1, <4>1, <4>2
    <3> QED BY <3>2, <3>3
  <2> QED BY <2>1, <2>2
<1>10. PushOrder'
  <2>0. nextSend' = nextSend
    BY <1>1 DEF clientVars
  <2> SUFFICES ASSUME NEW i \in 1..Len(toDevice'), IsPush(toDevice'[i])
               PROVE  /\ toDevice'[i].sn < nextSend
                      /\ \A n \in 0..(toDevice'[i].sn - 1) :
                            n \in devHeld'
                            \/ \E j \in 1..(i - 1) : IsPush(toDevice'[j]) /\ toDevice'[j].sn = n
    BY <2>0 DEF PushOrder
  <2>1. i + 1 \in 1..Len(toDevice) /\ toDevice'[i] = toDevice[i + 1]
    BY <1>3
  <2>2. /\ toDevice[i + 1].sn < nextSend
        /\ \A n \in 0..(toDevice[i + 1].sn - 1) :
              n \in devHeld \/ \E j \in 1..((i + 1) - 1) : IsPush(toDevice[j]) /\ toDevice[j].sn = n
    BY <2>1 DEF IInv, PushOrder
  <2>3. ASSUME NEW n \in 0..(toDevice[i + 1].sn - 1), n \notin devHeld'
        PROVE  \E j \in 1..(i - 1) : IsPush(toDevice'[j]) /\ toDevice'[j].sn = n
    <3>1. PICK j \in 1..((i + 1) - 1) : IsPush(toDevice[j]) /\ toDevice[j].sn = n
      BY <1>5, <2>2, <2>3
    <3>2. j # 1
      BY <1>3, <1>5, <2>3, <3>1
    <3>3. j - 1 \in 1..(i - 1) /\ j - 1 \in 1..Len(toDevice') /\ (j - 1) + 1 = j
      BY <1>3, <2>1, <3>2
    <3>4. toDevice'[j - 1] = toDevice[j]
      BY <1>3, <3>3
    <3> QED BY <3>1, <3>3, <3>4
  <2> QED BY <2>1, <2>2, <2>3
<1>11. InWindow'
  <2>1. UNCHANGED <<nextReceive, received, closed, devNext>>
    BY <1>1 DEF clientVars
  <2>2. \A i \in 1..Len(toClient') : IsPush(toClient'[i]) =>
           /\ toClient'[i].sn < devNext
           /\ ~closed => toClient'[i].sn < nextReceive + ReceiveWindow
    BY <1>5 DEF IInv, InWindow
  <2> QED BY <1>2, <1>6, <2>1, <2>2 DEF IInv, InWindow
<1>12. AckKept'
  BY <1>1, <1>3 DEF IInv, AckKept, clientVars
<1>13. AckedIsKept'
  <2>1. UNCHANGED <<nextReceive, received, closed, devNext>>
    BY <1>1 DEF clientVars
  <2> QED BY <1>6, <2>1 DEF IInv, AckedIsKept
<1>14. RetiredIsHeld'
  <2>1. UNCHANGED <<nextSend, pending, closed>>
    BY <1>1 DEF clientVars
  <2> QED BY <1>5, <2>1 DEF IInv, RetiredIsHeld
<1> QED BY <1>5, <1>7, <1>8, <1>9, <1>10, <1>11, <1>12, <1>13, <1>14 DEF IInv

-----------------------------------------------------------------------------
\* Every step keeps the inductive invariant.
LEMMA NextIInv == IInv /\ [Next]_vars => IInv'
<1> SUFFICES ASSUME IInv, [Next]_vars PROVE IInv'
  OBVIOUS
<1> USE BoundsAssumption
<1>1. CASE Input
  BY <1>1, InputStep
<1>2. CASE InputWhenClosed \/ SetMessageHandler \/ CloseConversation \/ UNCHANGED vars
  BY <1>2, QuietSteps
<1>3. CASE \E count \in 1..ClientTotal : Send(count)
  BY <1>3, SendStep
<1>4. CASE \E due \in 0..Len(pending) : RetransmitOnce(due)
  BY <1>4, RetransmitStep
<1>5. CASE DeviceQueue
  BY <1>5, DeviceQueueStep
<1>6. ASSUME NEW n \in DeviceSegments, DevicePush(n) PROVE IInv'
  <2> DEFINE m == BuildSegment("push", Frg[n], n, devReceived)
  <2>1. /\ toClient' = Append(toClient, m) /\ n \in devUnacked
        /\ UNCHANGED <<clientVars, toDevice, deviceVars>>
    BY <1>6 DEF DevicePush
  <2>2. m \in Segment /\ m.una <= devReceived /\ m.cmd # "ack" /\ m.sn = n
    BY FrgAssumption DEF BuildSegment, Segment, DeviceSegments, IInv, TypeOK
  <2> HIDE DEF m
  <2> QED BY <2>1, <2>2, DeviceWriteStep
<1>7. ASSUME NEW cmd \in {"ask", "tell"}, DeviceProbe(cmd) PROVE IInv'
  <2> DEFINE m == BuildSegment(cmd, 0, 0, devReceived)
  <2>1. toClient' = Append(toClient, m) /\ UNCHANGED <<clientVars, toDevice, deviceVars>>
    BY <1>7 DEF DeviceProbe
  <2>2. m \in Segment /\ m.una <= devReceived /\ m.cmd # "ack" /\ ~IsPush(m)
    BY DEF BuildSegment, Segment, IsPush, IInv, TypeOK
  <2> HIDE DEF m
  <2> QED BY <2>1, <2>2, DeviceWriteStep
<1>8. CASE DeviceReceive
  BY <1>8, DeviceReceiveStep
<1> QED BY <1>1, <1>2, <1>3, <1>4, <1>5, <1>6, <1>7, <1>8 DEF Next

\* The inductive invariant holds in every reachable state.
THEOREM Inductive == Spec => []IInv
BY InitIInv, NextIInv, PTL DEF Spec

\* Each variable of the conversation, of the relay and of the device keeps its type.
THEOREM TypeCorrect == Spec => []TypeOK
<1>1. IInv => TypeOK
  BY DEF IInv
<1> QED BY <1>1, Inductive, PTL

\* What the client acknowledges it has: input may acknowledge every push
\* unconditionally because no push ever lies beyond the receive window.
THEOREM AcknowledgedIsKept == Spec => []AckedIsKept
<1>1. IInv => AckedIsKept
  BY DEF IInv
<1> QED BY <1>1, Inductive, PTL

\* What the client retires the device has: reading an acknowledgement as
\* cumulative is sound over a relay that keeps the order.
THEOREM RetiredHeldByDevice == Spec => []RetiredIsHeld
<1>1. IInv => RetiredIsHeld
  BY DEF IInv
<1> QED BY <1>1, Inductive, PTL

\* Messages reach the handler whole and at most once.
THEOREM DeliveredOnceAndWhole == Spec => []HandedOnceAndWhole
<1>1. IInv => HandedOnceAndWhole
  BY DEF IInv
<1> QED BY <1>1, Inductive, PTL

\* The retransmit loop runs exactly while a segment is pending.
THEOREM LoopRunsWhilePending == Spec => []ArmedWhilePending
<1>1. IInv => ArmedWhilePending
  BY DEF IInv
<1> QED BY <1>1, Inductive, PTL

\* Only an accepted push hands anything over, and what it hands over starts
\* where the last complete message ended.
LEMMA HandedAhead ==
    ASSUME IInv, [Next]_vars, NEW n \in DeviceSegments, NEW m \in DeviceSegments,
           handed'[n] # handed[n], handed[m] # 0
    PROVE  m < n
<1>1. CASE Input
  <2> DEFINE s == Head(toClient)
  <2>1. InputPush(s)
    BY <1>1 DEF Input, InputAck, InputAsk, InputOther
  <2>2. toClient \in Seq(Segment) /\ toClient # <<>> /\ ~closed
    BY <1>1 DEF Input, IInv, TypeOK
  <2>3. s \in Segment /\ s = toClient[1] /\ 1 \in 1..Len(toClient)
    BY <2>2
  <2>4. s.sn \in Nat /\ IsPush(s) /\ Accept(s.sn)
    BY <2>1, <2>3 DEF Segment, InputPush, IsPush
  <2>5. s.sn < devNext /\ s.sn < nextReceive + ReceiveWindow
    BY <2>2, <2>3, <2>4 DEF IInv, InWindow
  <2> HIDE DEF s
  <2>6. n >= fragFirst
    BY <2>2, <2>4, <2>5, AcceptKeeps DEF IInv
  <2>7. handed[m] \in Nat /\ fragFirst \in Nat /\ m \in Nat /\ n \in Nat
    BY DEF IInv, TypeOK, DeviceSegments
  <2>8. m < fragFirst
    BY <2>7 DEF IInv, HandedOnceAndWhole
  <2> QED BY <2>6, <2>7, <2>8
<1>2. CASE ~Input
  <2>1. handed' = handed
    BY <1>2 DEF Next, SetMessageHandler, InputWhenClosed, Send, RetransmitOnce, DeviceQueue,
                DevicePush, DeviceProbe, DeviceReceive, CloseConversation, clientVars, vars
  <2> QED BY <2>1
<1> QED BY <1>1, <1>2

\* Messages reach the handler in the order the device sent them.
THEOREM DeliveredInOrder == Spec => HandedInOrder
<1>1. IInv /\ [Next]_vars =>
        [\A n, m \in DeviceSegments :
           handed'[n] # handed[n] /\ handed[m] # 0 => m < n]_vars
  BY HandedAhead
<1> QED BY <1>1, Inductive, PTL DEF Spec, HandedInOrder

\* A closed conversation has no retransmit loop left to write for it, and
\* neither input nor send writes any more.
THEOREM QuietAfterClose == Spec => SilentOnceClosed
<1>1. ASSUME IInv, [Next]_vars, closed
      PROVE  Len(toDevice') <= Len(toDevice)
  <2>1. toDevice \in Seq(Segment) /\ Len(toDevice) \in Nat /\ ~armed
    BY <1>1 DEF IInv, TypeOK, ClosedIsEmpty, ArmedWhilePending
  <2>2. CASE DeviceReceive
    BY <2>1, <2>2 DEF DeviceReceive
  <2>3. CASE ~DeviceReceive
    <3>1. toDevice' = toDevice
      BY <1>1, <2>1, <2>3 DEF Next, SetMessageHandler, Input, InputWhenClosed, Send,
              RetransmitOnce, DeviceQueue, DevicePush, DeviceProbe, CloseConversation, vars
    <3> QED BY <2>1, <3>1
  <2> QED BY <2>2, <2>3
<1>2. IInv /\ [Next]_vars => [closed => Len(toDevice') <= Len(toDevice)]_vars
  BY <1>1
<1> QED BY <1>2, Inductive, PTL DEF Spec, SilentOnceClosed

-----------------------------------------------------------------------------
(* Progress.  PendingDrains needs the loop's timer to fire, which is TLC's  *)
(* part.  What it needs of the code is here, for every retransmit limit and *)
(* any traffic in between: a segment that outlives a wake of the loop has   *)
(* used up a transmit, and TypeOK bounds these.                             *)

\* The retransmit loop wakes.
Wake == \E due \in 0..Len(pending) : RetransmitOnce(due)

\* Whatever is pending after a wake is due at the next one, and stays due; a
\* segment that is pending before and after a step is the same bytes, and its
\* transmits go up with each wake it was due at and never down.
Headway ==
    /\ sleepMark <= sleepMark'
    /\ Wake /\ ~closed' => sleepMark' = nextSend'
    /\ \A i \in 1..Len(pending), j \in 1..Len(pending') :
          pending'[j].raw.sn = pending[i].raw.sn =>
             /\ pending'[j].raw = pending[i].raw
             /\ pending[i].transmits <= pending'[j].transmits
             /\ Wake /\ pending[i].raw.sn < sleepMark => pending[i].transmits < pending'[j].transmits

LoopMakesHeadway == [][Headway]_vars

\* The loop has not gone to sleep after something that was not sent.
Slept == sleepMark <= nextSend

\* Where a segment is in _pending is given by its number.
LEMMA PlaceOfSegment ==
    ASSUME IInv
    PROVE  /\ pending \in Seq(Entry) /\ Len(pending) \in Nat /\ nextSend \in Nat /\ sleepMark \in Nat
           /\ \A i \in 1..Len(pending) :
                 /\ pending[i] \in Entry /\ pending[i].raw.sn \in Int /\ pending[i].transmits \in Int
                 /\ pending[i].raw.sn = nextSend - Len(pending) + i - 1
           /\ \A i, j \in 1..Len(pending) : pending[i].raw.sn = pending[j].raw.sn => i = j
<1>1. pending \in Seq(Entry) /\ Len(pending) \in Nat /\ nextSend \in Nat /\ sleepMark \in Nat
  BY BoundsAssumption DEF IInv, TypeOK, Entry
<1>2. ASSUME NEW i \in 1..Len(pending)
      PROVE  /\ pending[i] \in Entry /\ pending[i].raw.sn \in Int /\ pending[i].transmits \in Int
             /\ pending[i].raw.sn = nextSend - Len(pending) + i - 1
  <2>1. pending[i] \in Entry
    BY <1>1
  <2>2. pending[i].raw.sn \in Int /\ pending[i].transmits \in Int
    BY <2>1 DEF Entry, Segment
  <2> QED BY <2>1, <2>2 DEF IInv, PendingRun
<1>3. ASSUME NEW i \in 1..Len(pending), NEW j \in 1..Len(pending), pending[i].raw.sn = pending[j].raw.sn
      PROVE  i = j
  BY <1>1, <1>2, <1>3
<1> QED BY <1>1, <1>2, <1>3

\* A wake looks at every segment that was due.
LEMMA WakeTransmits ==
    ASSUME IInv, Slept, Wake
    PROVE  Headway /\ Slept'
<1>1. /\ pending \in Seq(Entry) /\ Len(pending) \in Nat /\ nextSend \in Nat /\ sleepMark \in Nat
      /\ \A i \in 1..Len(pending) : pending[i] \in Entry /\ pending[i].transmits \in Int
      /\ \A i, j \in 1..Len(pending) : pending[i].raw.sn = pending[j].raw.sn => i = j
  BY PlaceOfSegment
<1>2. PICK due \in 0..Len(pending) : RetransmitOnce(due)
  BY DEF Wake
<1>3. nextSend' = nextSend /\ \A i \in 1..Len(pending) : pending[i].raw.sn < sleepMark => i <= due
  BY <1>2 DEF RetransmitOnce
<1>4. CASE Close /\ UNCHANGED sleepMark
  <2>1. closed' /\ Len(pending') = 0 /\ sleepMark' = sleepMark
    BY <1>4 DEF Close
  <2> QED BY <1>1, <1>3, <2>1 DEF Headway, Slept
<1>5. CASE /\ pending' = [i \in 1..Len(pending) |->
                            IF i <= due THEN [pending[i] EXCEPT !.transmits = @ + 1] ELSE pending[i]]
           /\ sleepMark' = nextSend
  <2>1. Len(pending') = Len(pending)
    BY <1>1, <1>5
  <2>2. ASSUME NEW i \in 1..Len(pending)
        PROVE  /\ pending'[i].raw = pending[i].raw /\ pending[i].transmits <= pending'[i].transmits
               /\ i <= due => pending[i].transmits < pending'[i].transmits
    <3>1. pending[i] \in Entry /\ pending[i].transmits \in Int
      BY <1>1
    <3>2. CASE i <= due
      <4>1. pending'[i] = [pending[i] EXCEPT !.transmits = pending[i].transmits + 1]
        BY <1>5, <3>2
      <4>2. pending'[i].raw = pending[i].raw /\ pending'[i].transmits = pending[i].transmits + 1
        BY <3>1, <4>1 DEF Entry
      <4> QED BY <3>1, <4>2
    <3>3. CASE ~(i <= due)
      <4>1. pending'[i] = pending[i]
        BY <1>5, <3>3
      <4> QED BY <3>1, <3>3, <4>1
    <3> QED BY <3>2, <3>3
  <2>3. ASSUME NEW i \in 1..Len(pending), NEW j \in 1..Len(pending'),
               pending'[j].raw.sn = pending[i].raw.sn
        PROVE  /\ pending'[j].raw = pending[i].raw
               /\ pending[i].transmits <= pending'[j].transmits
               /\ pending[i].raw.sn < sleepMark => pending[i].transmits < pending'[j].transmits
    <3>1. j \in 1..Len(pending)
      BY <2>1
    <3>2. pending[j].raw.sn = pending[i].raw.sn
      BY <2>2, <2>3, <3>1
    <3>3. j = i
      BY <1>1, <3>1, <3>2
    <3> QED BY <1>3, <2>2, <3>3
  <2>4. sleepMark <= sleepMark' /\ sleepMark' = nextSend' /\ Slept'
    BY <1>1, <1>3, <1>5 DEF Slept
  <2> QED BY <2>3, <2>4 DEF Headway
<1> QED BY <1>2, <1>4, <1>5 DEF RetransmitOnce

\* A sequence without its first k elements.
LEMMA WithoutTheFirst ==
    ASSUME NEW S, NEW s \in Seq(S), NEW k \in 0..Len(s)
    PROVE  /\ Len(SubSeq(s, k + 1, Len(s))) = Len(s) - k
           /\ \A n \in 1..(Len(s) - k) : SubSeq(s, k + 1, Len(s))[n] = s[n + k]
OBVIOUS

\* Acknowledgements drop the oldest segments and leave the rest as they are.
LEMMA RetireKeepsEntries ==
    ASSUME IInv, NEW una \in Nat, RetirePending(una),
           NEW i \in 1..Len(pending), NEW j \in 1..Len(pending'), pending'[j].raw.sn = pending[i].raw.sn
    PROVE  pending'[j] = pending[i]
<1>1. pending \in Seq(Entry) /\ Len(pending) \in Nat
  BY PlaceOfSegment
<1>2. PICK k \in 0..Len(pending) : pending' = SubSeq(pending, k + 1, Len(pending))
  BY DEF RetirePending
<1>3. /\ Len(SubSeq(pending, k + 1, Len(pending))) = Len(pending) - k
      /\ \A n \in 1..(Len(pending) - k) : SubSeq(pending, k + 1, Len(pending))[n] = pending[n + k]
  BY <1>1, WithoutTheFirst
<1>4. j + k \in 1..Len(pending) /\ pending'[j] = pending[j + k]
  <2>1. Len(pending') = Len(pending) - k /\ \A n \in 1..(Len(pending) - k) : pending'[n] = pending[n + k]
    BY <1>2, <1>3
  <2> HIDE <1>2, <1>3
  <2> QED BY <1>1, <2>1
<1>5. j + k = i
  BY <1>4, PlaceOfSegment
<1> QED BY <1>4, <1>5

\* What is sent goes behind what is pending.
LEMMA SendKeepsEntries ==
    ASSUME IInv, NEW count \in 1..ClientTotal, Send(count),
           NEW i \in 1..Len(pending), NEW j \in 1..Len(pending'), pending'[j].raw.sn = pending[i].raw.sn
    PROVE  pending'[j] = pending[i]
<1> USE BoundsAssumption
<1> DEFINE raw(n) == BuildSegment("push", count - n, nextSend + n - 1, nextReceive)
           entries == [n \in 1..count |-> [raw |-> raw(n), transmits |-> 1]]
<1>1. pending \in Seq(Entry) /\ Len(pending) \in Nat /\ nextSend \in Nat /\ nextReceive \in Nat /\ count \in Nat
  BY DEF IInv, TypeOK, Entry
<1>2. entries \in Seq(Entry) /\ Len(entries) = count
  <2>1. \A n \in 1..count : raw(n) \in Segment
    BY <1>1 DEF BuildSegment, Segment
  <2>2. \A n \in 1..count : [raw |-> raw(n), transmits |-> 1] \in Entry
    BY <2>1 DEF Entry
  <2>3. entries \in [1..count -> Entry]
    BY <2>2
  <2> HIDE DEF entries
  <2> QED BY <1>1, <2>3
<1>3. pending' = pending \o entries /\ nextSend' = nextSend + count
  BY DEF Send
<1> HIDE DEF entries
<1>4. /\ Len(pending \o entries) = Len(pending) + Len(entries)
      /\ \A n \in 1..Len(pending) : (pending \o entries)[n] = pending[n]
  <2>1. pending \in Seq(Entry) /\ entries \in Seq(Entry)
    BY <1>1, <1>2
  <2> HIDE <1>1, <1>2
  <2> QED BY <2>1, ConcatSplit
<1>5. Len(pending') = Len(pending) + count /\ pending'[i] = pending[i]
  BY <1>2, <1>3, <1>4
<1>6. pending[i].raw.sn = nextSend - Len(pending) + i - 1
  BY PlaceOfSegment
<1>7. pending'[j].raw.sn = nextSend' - Len(pending') + j - 1
  <2>1. IInv'
    BY SendStep
  <2> QED BY <2>1 DEF IInv, PendingRun
<1>8. j = i
  BY <1>1, <1>3, <1>5, <1>6, <1>7
<1> QED BY <1>5, <1>8

\* No other step touches what stays pending or takes back a sleep.
LEMMA OtherStepsKeepEntries ==
    ASSUME IInv, Slept, [Next]_vars, ~Wake
    PROVE  Headway /\ Slept'
<1>1. nextSend \in Nat /\ sleepMark \in Nat /\ \A i \in 1..Len(pending) : pending[i].transmits \in Int
  BY PlaceOfSegment
<1>2. ASSUME nextSend' = nextSend, sleepMark' = sleepMark,
             \A i \in 1..Len(pending), j \in 1..Len(pending') :
                pending'[j].raw.sn = pending[i].raw.sn => pending'[j] = pending[i]
      PROVE  Headway /\ Slept'
  BY <1>1, <1>2 DEF Headway, Slept
<1>3. CASE Input
  <2>1. PICK una \in Nat : RetirePending(una)
    <3> DEFINE s == Head(toClient)
    <3>1. s \in Segment
      BY <1>3 DEF Input, IInv, TypeOK
    <3>2. s.una \in Nat /\ s.sn + 1 \in Nat
      BY <3>1 DEF Segment
    <3>3. PICK una : /\ una = s.una \/ una = s.sn + 1
                     /\ RetirePending(una)
      BY <1>3 DEF Input, InputPush, InputAck, InputAsk, InputOther
    <3> QED BY <3>2, <3>3
  <2>2. nextSend' = nextSend /\ sleepMark' = sleepMark
    BY <1>3 DEF Input
  <2> QED BY <1>2, <2>1, <2>2, RetireKeepsEntries
<1>4. ASSUME NEW count \in 1..ClientTotal, Send(count) PROVE Headway /\ Slept'
  <2>1. \A i \in 1..Len(pending), j \in 1..Len(pending') :
           pending'[j].raw.sn = pending[i].raw.sn => pending'[j] = pending[i]
    BY <1>4, SendKeepsEntries
  <2>2. nextSend' = nextSend + count /\ count \in Nat /\ sleepMark' \in {sleepMark, nextSend + count}
    BY <1>4, BoundsAssumption DEF Send
  <2>3. sleepMark <= sleepMark' /\ Slept'
    BY <1>1, <2>2 DEF Slept
  <2> QED BY <1>1, <2>1, <2>3 DEF Headway
<1>5. CASE CloseConversation
  <2>1. Len(pending') = 0 /\ nextSend' = nextSend /\ sleepMark' = sleepMark
    BY <1>5 DEF CloseConversation, Close
  <2> QED BY <1>2, <2>1
<1>6. CASE UNCHANGED <<pending, nextSend, sleepMark>>
  <2>1. \A i, j \in 1..Len(pending) : pending[j].raw.sn = pending[i].raw.sn => pending[j] = pending[i]
    BY PlaceOfSegment
  <2> QED BY <1>2, <1>6, <2>1
<1> QED BY <1>3, <1>4, <1>5, <1>6
        DEF Next, Wake, SetMessageHandler, InputWhenClosed, DeviceQueue, DevicePush, DeviceProbe,
            DeviceReceive, clientVars, vars

\* Every segment is acknowledged, or given up, before it has outlived more
\* than MaxRetransmits wakes of the loop, however the device's acknowledgements and
\* new messages fall between them.
THEOREM LoopGivesUpInTime == Spec => LoopMakesHeadway
<1>1. Init => Slept
  BY DEF Init, Slept
<1>2. IInv /\ Slept /\ [Next]_vars => Slept' /\ [Headway]_vars
  BY WakeTransmits, OtherStepsKeepEntries
<1> QED BY <1>1, <1>2, Inductive, PTL DEF Spec, LoopMakesHeadway
=============================================================================
