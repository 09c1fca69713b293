-------------------------- MODULE KcpChannelProofs --------------------------
(***************************************************************************)
(* KcpConversation implements MessageChannel, for every window, retransmit *)
(* limit, segment layout and bound.                                        *)
(***************************************************************************)
EXTENDS KcpConversationProofs

\* Over a relay that keeps the order the device holds exactly the client
\* segments below devReceived, and only segments the client has sent.
Held ==
    /\ devReceived \notin devHeld
    /\ \A h \in devHeld : h < nextSend

\* What the device holds stays what the client has sent.
LEMMA HeldStep == IInv /\ Held /\ [Next]_vars => Held'
<1> SUFFICES ASSUME IInv, Held, [Next]_vars PROVE Held'
  OBVIOUS
<1>0. /\ nextSend \in Nat /\ devReceived \in Nat /\ toDevice \in Seq(Segment)
      /\ devHeld \subseteq Nat
  BY DEF IInv, TypeOK
<1>1. CASE DeviceReceive
  <2>1. toDevice # <<>> /\ nextSend' = nextSend
    BY <1>1 DEF DeviceReceive, clientVars
  <2>2. CASE DeviceReceivePush(Head(toDevice))
    <3>1. devHeld' = devHeld \union {Head(toDevice).sn} /\ devReceived' \notin devHeld'
      BY <2>2 DEF DeviceReceivePush, Reaches
    <3>2. Head(toDevice) = toDevice[1] /\ 1 \in 1..Len(toDevice)
      BY <1>0, <2>1
    <3>3. Head(toDevice).sn < nextSend
      BY <2>2, <3>2 DEF IInv, PushOrder, IsPush, DeviceReceivePush
    <3> QED BY <2>1, <3>1, <3>3 DEF Held
  <2>3. CASE DeviceReceiveOther(Head(toDevice))
    BY <2>1, <2>3 DEF DeviceReceiveOther, Held
  <2> QED BY <1>1, <2>2, <2>3 DEF DeviceReceive
<1>2. CASE \E count \in 1..ClientTotal : Send(count)
  <2>1. PICK count \in 1..ClientTotal : Send(count)
    BY <1>2
  <2>2. nextSend' = nextSend + count /\ UNCHANGED <<devHeld, devReceived>>
    BY <2>1 DEF Send, deviceVars
  <2>3. count \in Nat
    BY BoundsAssumption
  <2> QED BY <1>0, <2>2, <2>3 DEF Held
<1>3. CASE ~DeviceReceive /\ ~\E count \in 1..ClientTotal : Send(count)
  <2>1. UNCHANGED <<nextSend, devHeld, devReceived>>
    BY <1>3 DEF Next, SetMessageHandler, Input, InputWhenClosed, RetransmitOnce, DeviceQueue,
                DevicePush, DeviceProbe, CloseConversation, clientVars, deviceVars, vars
  <2> QED BY <2>1 DEF Held
<1> QED BY <1>1, <1>2, <1>3

\* The last number below r, and what bounds it.
LEMMA LastBelow ==
    \A r, s \in Nat : /\ r # 0 => r - 1 \in 0..(r - 1)
                      /\ r - 1 < s => r <= s
                      /\ r = 0 => r <= s
OBVIOUS

\* Delivery as the channel sees it: some whole messages, from the oldest on.
LEMMA AcceptTakes ==
    ASSUME IInv, IInv', UNCHANGED devNext, NEW sn \in Nat, Accept(sn)
    PROVE  \E upTo \in fragFirst..devNext :
             /\ upTo # fragFirst => Frg[upTo - 1] = 0
             /\ fragFirst' = upTo
             /\ handed' = [n \in 0..(DeviceTotal - 1) |->
                             IF handler /\ n \in fragFirst..(upTo - 1)
                             THEN handed[n] + 1 ELSE handed[n]]
<1>0. /\ fragFirst \in Nat /\ nextReceive \in Nat /\ devNext \in Nat
      /\ handed \in [0..(DeviceTotal - 1) -> Nat]
      /\ fragFirst <= nextReceive /\ nextReceive <= devNext
  BY DEF IInv, TypeOK, InWindow, Boundary, DeviceSegments
<1>1. CASE ~Wanted(sn)
  <2>1. fragFirst' = fragFirst /\ handed' = handed
    BY <1>1 DEF Accept
  <2>2. handed = [n \in 0..(DeviceTotal - 1) |->
                    IF handler /\ n \in fragFirst..(fragFirst - 1)
                    THEN handed[n] + 1 ELSE handed[n]]
    BY <1>0
  <2>3. fragFirst \in fragFirst..devNext
    BY <1>0
  <2> QED BY <2>1, <2>2, <2>3
<1>2. CASE Wanted(sn)
  <2>1. PICK next \in nextReceive..(nextReceive + ReceiveWindow) :
          nextReceive' = next /\ Join(next)
    BY <1>2 DEF Accept
  <2>2. PICK first \in fragFirst..next :
          /\ first # fragFirst => Frg[first - 1] = 0
          /\ fragFirst' = first
          /\ handed' = [n \in DeviceSegments |->
                          IF handler /\ n \in fragFirst..(first - 1)
                          THEN handed[n] + 1 ELSE handed[n]]
    BY <2>1 DEF Join
  <2>3. next <= devNext
    BY <2>1 DEF IInv, InWindow
  <2>4. first \in fragFirst..devNext
    BY <1>0, <2>1, <2>2, <2>3
  <2> QED BY <2>2, <2>4 DEF DeviceSegments
<1> QED BY <1>1, <1>2

\* Reading a segment is a Receive of the channel.
LEMMA InputReceives ==
    ASSUME IInv, Held, IInv', Held', Input PROVE Channel!Receive
<1>1. /\ ~closed /\ toClient # <<>>
      /\ UNCHANGED <<nextSend, handler, closed, devNext, devReceived>>
  BY DEF Input, deviceVars
<1>2. /\ Head(toClient) \in Segment
      /\ nextSend \in Nat /\ devReceived \in Nat /\ Len(pending) \in Nat /\ Len(pending') \in Nat
  BY <1>1 DEF IInv, TypeOK
<1>3. Len(pending') <= Len(pending)
  <2>1. PICK una \in Nat : RetirePending(una)
    BY <1>2 DEF Input, InputPush, InputAck, InputAsk, InputOther, Segment
  <2> QED BY <2>1, RetireKeepsRun DEF IInv
<1>4. nextSend - Len(pending') <= devReceived
  <2>1. \A n \in 0..(nextSend - Len(pending') - 1) : n \in devHeld'
    BY <1>1 DEF IInv, RetiredIsHeld
  <2>2. devReceived \notin devHeld'
    BY <1>1 DEF Held
  <2> QED BY <1>2, <2>1, <2>2
<1>5. \E upTo \in fragFirst..devNext :
        /\ upTo # fragFirst => Frg[upTo - 1] = 0
        /\ fragFirst' = upTo
        /\ handed' = [n \in 0..(DeviceTotal - 1) |->
                        IF handler /\ n \in fragFirst..(upTo - 1)
                        THEN handed[n] + 1 ELSE handed[n]]
  <2>1. CASE InputPush(Head(toClient))
    BY <1>1, <1>2, <2>1, AcceptTakes DEF InputPush, Segment
  <2>2. CASE UNCHANGED <<fragFirst, handed>>
    <3>1. /\ fragFirst \in Nat /\ fragFirst <= devNext /\ devNext \in Nat
          /\ handed \in [0..(DeviceTotal - 1) -> Nat]
      <4>1. TypeOK /\ InWindow /\ Boundary
        BY DEF IInv
      <4>2. /\ fragFirst \in Nat /\ nextReceive \in Nat /\ devNext \in 0..DeviceTotal
            /\ handed \in [0..(DeviceTotal - 1) -> Nat]
        BY <4>1 DEF TypeOK, DeviceSegments
      <4>3. fragFirst <= nextReceive /\ nextReceive <= devNext
        BY <4>1 DEF InWindow, Boundary
      <4> QED BY <4>2, <4>3
    <3>2. handed = [n \in 0..(DeviceTotal - 1) |->
                      IF handler /\ n \in fragFirst..(fragFirst - 1)
                      THEN handed[n] + 1 ELSE handed[n]]
      BY <3>1
    <3>3. fragFirst \in fragFirst..devNext
      BY <3>1
    <3> QED BY <2>2, <3>2, <3>3
  <2> QED BY <2>1, <2>2 DEF Input, InputAck, InputAsk, InputOther
<1> QED BY <1>1, <1>2, <1>3, <1>4, <1>5 DEF Channel!Receive

\* Every step of a conversation is one of the channel, or invisible to it.
LEMMA ChannelStep ==
    ASSUME IInv, Held, IInv', Held', [Next]_vars PROVE [Channel!Next]_(Channel!vars)
<1>0. /\ nextSend \in Nat /\ devReceived \in Nat /\ devNext \in Nat /\ Len(pending) \in Nat
      /\ pending \in Seq(Entry)
  BY DEF IInv, TypeOK, Entry
<1>1. CASE SetMessageHandler
  <2>1. Channel!Listen
    BY <1>1 DEF SetMessageHandler, deviceVars, Channel!Listen
  <2> QED BY <2>1 DEF Channel!Next
<1>2. CASE Input
  BY <1>2, InputReceives DEF Channel!Next
<1>3. CASE \E count \in 1..ClientTotal : Send(count)
  <2>1. PICK count \in 1..ClientTotal : Send(count)
    BY <1>3
  <2> DEFINE added == [i \in 1..count |->
                         [raw |-> BuildSegment("push", count - i, nextSend + i - 1, nextReceive),
                          transmits |-> 1]]
  <2>2. pending' = pending \o added
    BY <2>1 DEF Send
  <2>3. count \in Nat /\ Len(added) = count /\ added \in Seq(Entry)
    <3>1. count \in Nat
      BY BoundsAssumption
    <3>2. \A i \in 1..count : added[i] \in Entry
      BY <1>0, <3>1, BoundsAssumption DEF IInv, TypeOK, BuildSegment, Segment, Entry
    <3>3. added \in [1..count -> Entry]
      BY <3>2
    <3> HIDE DEF added
    <3> QED BY <3>1, <3>3
  <2> HIDE DEF added
  <2>4. Len(pending') = Len(pending) + count
    <3>1. Len(pending \o added) = Len(pending) + Len(added)
      BY <1>0, <2>3, ConcatProperties
    <3> QED BY <2>2, <2>3, <3>1
  <2>5. Channel!Send
    BY <2>1, <2>4 DEF Send, deviceVars, Channel!Send
  <2> QED BY <2>5 DEF Channel!Next
<1>4. CASE Close /\ ~closed /\ UNCHANGED <<nextSend, fragFirst, handed, devNext, devReceived>>
  <2>1. Channel!Close
    BY <1>4 DEF Close, Channel!Close
  <2> QED BY <2>1 DEF Channel!Next
<1>5. CASE \E due \in 0..Len(pending) : RetransmitOnce(due)
  <2>1. UNCHANGED <<nextSend, fragFirst, handed, devNext, devReceived>>
    BY <1>5 DEF RetransmitOnce, deviceVars
  <2>2. ~closed
    BY <1>5 DEF RetransmitOnce, IInv, ClosedIsEmpty, ArmedWhilePending
  <2>3. Close \/ (Len(pending') = Len(pending) /\ UNCHANGED <<handler, closed>>)
    <3>1. PICK due \in 0..Len(pending) : RetransmitOnce(due)
      BY <1>5
    <3>2. Close \/ (DOMAIN pending' = 1..Len(pending) /\ UNCHANGED <<handler, closed>>)
      BY <3>1 DEF RetransmitOnce
    <3>3. pending' \in Seq(Entry)
      BY DEF IInv, TypeOK, Entry
    <3>4. ASSUME DOMAIN pending' = 1..Len(pending) PROVE Len(pending') = Len(pending)
      <4>1. DOMAIN pending' = 1..Len(pending') /\ Len(pending') \in Nat
        BY <3>3
      <4> QED BY <1>0, <3>4, <4>1
    <3> QED BY <3>2, <3>4
  <2> QED BY <1>4, <2>1, <2>2, <2>3 DEF Channel!vars
<1>6. CASE CloseConversation
  BY <1>4, <1>6 DEF CloseConversation, deviceVars
<1>7. CASE DeviceQueue
  <2>1. Channel!Offer
    BY <1>7 DEF DeviceQueue, clientVars, Channel!Offer
  <2> QED BY <2>1 DEF Channel!Next
<1>8. CASE DeviceReceive
  <2>1. UNCHANGED <<clientVars, devNext>>
    BY <1>8 DEF DeviceReceive
  <2>2. devReceived' \in Nat /\ devReceived' <= nextSend
    <3>1. devReceived' \in Nat
      BY DEF IInv, TypeOK
    <3>2. nextSend' = nextSend
      BY <2>1 DEF clientVars
    <3>3. CASE devReceived' = 0
      BY <1>0, <3>3
    <3>4. CASE devReceived' # 0
      <4>1. devReceived' - 1 \in 0..(devReceived' - 1)
        BY <3>1, <3>4, LastBelow
      <4>2. DeviceHolds' /\ Held'
        BY DEF IInv
      <4>3. devReceived' - 1 \in devHeld'
        BY <4>1, <4>2 DEF DeviceHolds
      <4>4. devReceived' - 1 < nextSend'
        BY <4>2, <4>3 DEF Held
      <4> QED BY <1>0, <3>1, <3>2, <4>4, LastBelow
    <3> QED BY <3>1, <3>3, <3>4
  <2>3. devReceived' = devReceived \/ devReceived' \in (devReceived + 1)..nextSend
    <3>1. devReceived' >= devReceived
      BY <1>0, <1>8 DEF DeviceReceive, DeviceReceivePush, DeviceReceiveOther, BoundsAssumption
    <3> QED BY <1>0, <2>2, <3>1
  <2>4. CASE devReceived' = devReceived
    BY <2>1, <2>4 DEF clientVars, Channel!vars
  <2>5. CASE devReceived' \in (devReceived + 1)..nextSend
    <3>1. Channel!Arrive
      BY <2>1, <2>5 DEF clientVars, Channel!Arrive
    <3> QED BY <3>1 DEF Channel!Next
  <2> QED BY <2>3, <2>4, <2>5
<1>9. CASE InputWhenClosed \/ (\E n \in DeviceSegments : DevicePush(n))
           \/ (\E cmd \in {"ask", "tell"} : DeviceProbe(cmd)) \/ UNCHANGED vars
  BY <1>9 DEF InputWhenClosed, DevicePush, DeviceProbe, clientVars, deviceVars, vars, Channel!vars
<1> QED BY <1>1, <1>2, <1>3, <1>5, <1>6, <1>7, <1>8, <1>9 DEF Next

\* A KCP conversation over an order-preserving relay is a reliable, ordered
\* message channel, whatever the device retransmits and whenever it is closed.
THEOREM ConversationIsChannel == Spec => ImplementsChannel
<1>1. Init => Channel!Init
  BY EmptySeq DEF Init, Channel!Init, DeviceSegments
<1>2. Init => Held
  BY DEF Init, Held
<1>3. IInv /\ Held /\ [Next]_vars => Held'
  BY HeldStep
<1>4. IInv /\ IInv' /\ Held /\ Held' /\ [Next]_vars => [Channel!Next]_(Channel!vars)
  BY ChannelStep
<1> QED BY <1>1, <1>2, <1>3, <1>4, Inductive, PTL DEF Spec, ImplementsChannel, Channel!Spec
=============================================================================
