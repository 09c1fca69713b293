--------------------------- MODULE KcpConversation ---------------------------
(***************************************************************************)
(* One KCP conversation on the relay: the client end                       *)
(* (transport/kcp_conversation.py), the TCP relay that carries segments in *)
(* order and loses none, and the device end, which is external and is      *)
(* modelled from what the client's handlers expect of it.                  *)
(*                                                                         *)
(* Segments are numbered from 0 in each direction.  The bytes of device    *)
(* segment n never change, so a segment is represented by its number; what *)
(* the client reassembles is recorded by how often the bytes of each       *)
(* device segment reached the message handler (handed).  Sequence numbers  *)
(* are taken below 2^32, where the wire's mask is the identity.            *)
(***************************************************************************)
EXTENDS Integers, Sequences, FiniteSets

CONSTANTS
    ReceiveWindow,   \* _RECEIVE_WINDOW
    MaxRetransmits,  \* _MAX_RETRANSMITS
    DeviceWindow,    \* how far ahead of its oldest unacknowledged segment the device sends
    Frg,             \* the countdown ("frg") of each device segment, 0 on a message's last
    DeviceTotal,     \* bound: segments the device sends
    ClientTotal,     \* bound: segments the client sends
    ChannelBound     \* bound: segments on the relay when the device adds one

DeviceSegments == 0..(DeviceTotal - 1)

ASSUME BoundsAssumption ==
    /\ ReceiveWindow \in Nat \ {0}
    /\ MaxRetransmits \in Nat \ {0}
    /\ DeviceTotal \in Nat
    /\ ClientTotal \in Nat
    /\ ChannelBound \in Nat

\* Every segment the client writes advertises its receive window, and a KCP
\* sender keeps within the window it was told.
ASSUME WindowAssumption == DeviceWindow \in 1..ReceiveWindow

\* A message of k segments counts down k-1, ..., 0.
ASSUME FrgAssumption ==
    /\ Frg \in [DeviceSegments -> Nat]
    /\ \A n \in DeviceSegments :
          Frg[n] # 0 => n + 1 \in DeviceSegments /\ Frg[n + 1] = Frg[n] - 1

VARIABLES
    nextSend,     \* _next_send_sequence
    nextReceive,  \* _next_receive_sequence
    received,     \* the keys of _received
    pending,      \* _pending: the raw segment and how often it was transmitted
    fragFirst,    \* _fragments holds segments fragFirst .. nextReceive - 1
    handed,       \* how often the bytes of each device segment reached _handler
    handler,      \* _handler is not None
    closed,       \* _closed
    armed,        \* _retransmit_task is not None
    sleepMark,    \* nextSend when the retransmit loop last went to sleep
    toDevice, toClient,  \* the two directions of the TCP relay
    devNext,      \* device: next sequence it will send
    devUnacked,   \* device: segments it sent and still keeps for retransmission
    devHeld,      \* device: client segments it holds
    devReceived   \* device: every client segment below this one has arrived

clientVars == <<nextSend, nextReceive, received, pending, fragFirst, handed,
                handler, closed, armed, sleepMark>>
deviceVars == <<devNext, devUnacked, devHeld, devReceived>>
vars == <<clientVars, toDevice, toClient, deviceVars>>

Segment == [cmd : {"push", "ack", "ask", "tell"}, frg : Nat, sn : Nat, una : Nat]

BuildSegment(cmd, frg, sn, una) == [cmd |-> cmd, frg |-> frg, sn |-> sn, una |-> una]

\* Everything from "from" up to, and not including, "to" is in the set held.
Reaches(from, held, to) == /\ \A m \in from..(to - 1) : m \in held
                           /\ to \notin held

Init ==
    /\ nextSend = 0 /\ nextReceive = 0 /\ received = {} /\ pending = <<>>
    /\ fragFirst = 0 /\ handed = [n \in DeviceSegments |-> 0] /\ handler = FALSE
    /\ closed = FALSE /\ armed = FALSE /\ sleepMark = 0
    /\ toDevice = <<>> /\ toClient = <<>>
    /\ devNext = 0 /\ devUnacked = {} /\ devHeld = {} /\ devReceived = 0

-----------------------------------------------------------------------------
(* The client.                                                              *)

SetMessageHandler ==
    /\ ~handler /\ ~closed
    /\ handler' = TRUE
    /\ UNCHANGED <<nextSend, nextReceive, received, pending, fragFirst, handed,
                   closed, armed, sleepMark, toDevice, toClient, deviceVars>>

\* Mutant: the loop is stopped at every acknowledgement.
RetireAlwaysDisarms(una) ==
    \E k \in 0..Len(pending) :
        /\ \A i \in 1..k : pending[i].raw.sn < una
        /\ k < Len(pending) => pending[k + 1].raw.sn >= una
        /\ pending' = SubSeq(pending, k + 1, Len(pending))
        /\ armed' = (armed /\ k = 0)

\* Drop the pending segments below una, oldest first, and stop the retransmit
\* loop when none is left.
RetirePending(una) ==
    \E k \in 0..Len(pending) :
        /\ \A i \in 1..k : pending[i].raw.sn < una
        /\ k < Len(pending) => pending[k + 1].raw.sn >= una
        /\ pending' = SubSeq(pending, k + 1, Len(pending))
        /\ armed' = (armed /\ k < Len(pending))

\* Mutant: the window ends one segment early.
WantedNarrow(sn) ==
    sn >= nextReceive /\ sn < nextReceive + ReceiveWindow - 1 /\ sn \notin received

\* The early returns of _accept: delivered already, beyond the window, buffered.
Wanted(sn) ==
    sn >= nextReceive /\ sn < nextReceive + ReceiveWindow /\ sn \notin received

\* Mutant: the fragments of a finished message are not dropped.
JoinWithoutReset(next) ==
    \E first \in fragFirst..next :
        /\ \A n \in first..(next - 1) : Frg[n] # 0
        /\ first # fragFirst => Frg[first - 1] = 0
        /\ fragFirst' = fragFirst
        /\ handed' = [n \in DeviceSegments |->
                        IF handler /\ n \in fragFirst..(first - 1)
                        THEN handed[n] + 1 ELSE handed[n]]

\* Segments up to next join the fragments; frg = 0 completes a message, which
\* goes to the handler, and the fragments start again behind it.
Join(next) ==
    \E first \in fragFirst..next :
        /\ \A n \in first..(next - 1) : Frg[n] # 0
        /\ first # fragFirst => Frg[first - 1] = 0
        /\ fragFirst' = first
        /\ handed' = [n \in DeviceSegments |->
                        IF handler /\ n \in fragFirst..(first - 1)
                        THEN handed[n] + 1 ELSE handed[n]]

\* The delivery loop of _accept: segments leave the buffer in order.
Accept(sn) ==
    IF ~Wanted(sn)
    THEN UNCHANGED <<nextReceive, received, fragFirst, handed>>
    ELSE \E next \in nextReceive..(nextReceive + ReceiveWindow) :
            /\ Reaches(nextReceive, received \union {sn}, next)
            /\ nextReceive' = next
            /\ received' = (received \union {sn}) \ (nextReceive..(next - 1))
            /\ Join(next)

\* Mutant: a conversation nobody listens to gets no acknowledgements.
InputPushForListeners(segment) ==
    /\ segment.cmd = "push"
    /\ RetirePending(segment.una)
    /\ Accept(segment.sn)
    /\ toDevice' = IF handler
                   THEN Append(toDevice, BuildSegment("ack", 0, segment.sn, nextReceive'))
                   ELSE toDevice

\* A push is delivered first and acknowledged after, so that the
\* acknowledgement carries the receive sequence the delivery advanced.
InputPush(segment) ==
    /\ segment.cmd = "push"
    /\ RetirePending(segment.una)
    /\ Accept(segment.sn)
    /\ toDevice' = Append(toDevice, BuildSegment("ack", 0, segment.sn, nextReceive'))

\* Mutant: the acknowledgement of sn retires sn + 1 as well.
InputAckOneTooMany(segment) ==
    /\ segment.cmd = "ack"
    /\ RetirePending(segment.sn + 2)
    /\ UNCHANGED <<nextReceive, received, fragFirst, handed, toDevice>>

\* Acknowledging sn also acknowledges everything before it.
InputAck(segment) ==
    /\ segment.cmd = "ack"
    /\ RetirePending(IF segment.una > segment.sn THEN segment.una ELSE segment.sn + 1)
    /\ UNCHANGED <<nextReceive, received, fragFirst, handed, toDevice>>

InputAsk(segment) ==
    /\ segment.cmd = "ask"
    /\ RetirePending(segment.una)
    /\ toDevice' = Append(toDevice, BuildSegment("tell", 0, 0, nextReceive))
    /\ UNCHANGED <<nextReceive, received, fragFirst, handed>>

\* Any other command only carries una.
InputOther(segment) ==
    /\ segment.cmd = "tell"
    /\ RetirePending(segment.una)
    /\ UNCHANGED <<nextReceive, received, fragFirst, handed, toDevice>>

Input ==
    /\ toClient # <<>>
    /\ ~closed
    /\ toClient' = Tail(toClient)
    /\ \/ InputPush(Head(toClient))
       \/ InputAck(Head(toClient))
       \/ InputAsk(Head(toClient))
       \/ InputOther(Head(toClient))
    /\ UNCHANGED <<nextSend, handler, closed, sleepMark, deviceVars>>

\* Mutant: the closed conversation still acknowledges.
InputIgnoringClosed ==
    /\ toClient # <<>>
    /\ closed
    /\ toClient' = Tail(toClient)
    /\ toDevice' = Append(toDevice, BuildSegment("ack", 0, Head(toClient).sn, nextReceive))
    /\ UNCHANGED <<clientVars, deviceVars>>

\* A closed conversation swallows what is routed to it.
InputWhenClosed ==
    /\ toClient # <<>>
    /\ closed
    /\ toClient' = Tail(toClient)
    /\ UNCHANGED <<clientVars, toDevice, deviceVars>>

\* send: a message of count segments.  On a closed conversation it raises and
\* changes nothing.  The loop starts when it is not running.
Send(count) ==
    LET raw(i) == BuildSegment("push", count - i, nextSend + i - 1, nextReceive)
    IN  /\ ~closed
        /\ nextSend + count <= ClientTotal
        /\ pending' = pending \o [i \in 1..count |-> [raw |-> raw(i), transmits |-> 1]]
        /\ toDevice' = toDevice \o [i \in 1..count |-> raw(i)]
        /\ nextSend' = nextSend + count
        /\ armed' = TRUE
        /\ sleepMark' = IF armed THEN sleepMark ELSE nextSend + count
        /\ UNCHANGED <<nextReceive, received, fragFirst, handed, handler, closed,
                       toClient, deviceVars>>

Close ==
    /\ closed' = TRUE /\ armed' = FALSE
    /\ received' = {} /\ pending' = <<>> /\ handler' = FALSE

\* Mutant: one transmit too many.
GivesUpLate(entry) == entry.transmits > MaxRetransmits

GivesUp(entry) == entry.transmits >= MaxRetransmits

\* One wake of the retransmit loop.  Whatever was pending when it went to sleep
\* has waited the whole interval; of what was sent since, an initial part may
\* have (the loop woke late): the first "due" entries are the ones looked at.
\* The first of them that has used up its transmits closes the conversation.
RetransmitOnce(due) ==
    /\ armed
    /\ \A i \in 1..Len(pending) : pending[i].raw.sn < sleepMark => i <= due
    /\ \E resent \in 0..due :
         /\ \A i \in 1..resent : ~GivesUp(pending[i])
         /\ toDevice' = toDevice \o [i \in 1..resent |-> pending[i].raw]
         /\ \/ /\ resent = due
               /\ pending' = [i \in 1..Len(pending) |->
                                IF i <= resent
                                THEN [pending[i] EXCEPT !.transmits = @ + 1]
                                ELSE pending[i]]
               /\ sleepMark' = nextSend
               /\ UNCHANGED <<received, handler, closed, armed>>
            \/ /\ resent < due
               /\ GivesUp(pending[resent + 1])
               /\ Close
               /\ UNCHANGED sleepMark
    /\ UNCHANGED <<nextSend, nextReceive, fragFirst, handed, toClient, deviceVars>>

\* close called from outside: the relay session ends.
CloseConversation ==
    /\ ~closed
    /\ Close
    /\ UNCHANGED <<nextSend, nextReceive, fragFirst, handed, sleepMark,
                   toDevice, toClient, deviceVars>>

-----------------------------------------------------------------------------
(* The device (external): a KCP peer that acknowledges each push by number, *)
(* keeps what it receives out of order, and sends within its window.  It    *)
(* may transmit what it has not seen acknowledged in any order and again.   *)

Room == Len(toClient) + Len(toDevice) < ChannelBound

DeviceQueue ==
    /\ devNext < DeviceTotal
    /\ \A n \in devUnacked : devNext < n + DeviceWindow
    /\ devNext' = devNext + 1
    /\ devUnacked' = devUnacked \union {devNext}
    /\ UNCHANGED <<clientVars, toDevice, toClient, devHeld, devReceived>>

DevicePush(n) ==
    /\ Room
    /\ n \in devUnacked
    /\ toClient' = Append(toClient, BuildSegment("push", Frg[n], n, devReceived))
    /\ UNCHANGED <<clientVars, toDevice, deviceVars>>

DeviceProbe(cmd) ==
    /\ Room
    /\ toClient' = Append(toClient, BuildSegment(cmd, 0, 0, devReceived))
    /\ UNCHANGED <<clientVars, toDevice, deviceVars>>

DeviceReceivePush(segment) ==
    /\ segment.cmd = "push"
    /\ devHeld' = devHeld \union {segment.sn}
    /\ \E next \in devReceived..ClientTotal :
         /\ Reaches(devReceived, devHeld', next)
         /\ devReceived' = next
         /\ toClient' = Append(toClient, BuildSegment("ack", 0, segment.sn, next))
    /\ devUnacked' = {n \in devUnacked : n >= segment.una}

DeviceReceiveOther(segment) ==
    /\ segment.cmd # "push"
    /\ devUnacked' = {n \in devUnacked :
                        n >= segment.una /\ ~(segment.cmd = "ack" /\ n = segment.sn)}
    /\ UNCHANGED <<devHeld, devReceived, toClient>>

DeviceReceive ==
    /\ toDevice # <<>>
    /\ toDevice' = Tail(toDevice)
    /\ \/ DeviceReceivePush(Head(toDevice))
       \/ DeviceReceiveOther(Head(toDevice))
    /\ UNCHANGED <<clientVars, devNext>>

-----------------------------------------------------------------------------
Next ==
    \/ SetMessageHandler
    \/ Input
    \/ InputWhenClosed
    \/ \E count \in 1..ClientTotal : Send(count)
    \/ \E due \in 0..Len(pending) : RetransmitOnce(due)
    \/ DeviceQueue
    \/ \E n \in DeviceSegments : DevicePush(n)
    \/ \E cmd \in {"ask", "tell"} : DeviceProbe(cmd)
    \/ DeviceReceive
    \/ CloseConversation

Spec == Init /\ [][Next]_vars

\* The loop's timer fires: asyncio wakes a sleeping task.
LoopFairness == WF_vars(\E due \in 0..Len(pending) : RetransmitOnce(due))

\* The relay keeps carrying, the client's reader keeps reading, and the device
\* keeps serving its own queue.
TransportFairness ==
    /\ WF_vars(Input) /\ WF_vars(InputWhenClosed)
    /\ WF_vars(DeviceReceive) /\ WF_vars(DeviceQueue)
    /\ \A n \in DeviceSegments : SF_vars(DevicePush(n))

FairSpec == Spec /\ LoopFairness

-----------------------------------------------------------------------------
(* Properties.                                                              *)

\* Each variable has the type the code gives it.
TypeOK ==
    /\ nextSend \in 0..ClientTotal /\ nextReceive \in Nat
    /\ received \subseteq DeviceSegments
    /\ pending \in Seq([raw : Segment, transmits : 1..MaxRetransmits])
    /\ fragFirst \in Nat /\ handed \in [DeviceSegments -> Nat]
    /\ handler \in BOOLEAN /\ closed \in BOOLEAN /\ armed \in BOOLEAN
    /\ sleepMark \in 0..ClientTotal
    /\ toDevice \in Seq(Segment) /\ toClient \in Seq(Segment)
    /\ devNext \in 0..DeviceTotal /\ devUnacked \subseteq DeviceSegments
    /\ devHeld \subseteq 0..(ClientTotal - 1) /\ devReceived \in 0..ClientTotal

\* input acknowledges every push, also one that _accept turned away.  The
\* device never forgets a segment the client does not have: what it retired
\* was delivered or is buffered.
AckedIsKept ==
    ~closed => \A n \in 0..(devNext - 1) :
                  n \notin devUnacked => n < nextReceive \/ n \in received

\* _retire_pending reads an acknowledgement as covering everything before it.
\* The client never stops retransmitting a segment the device does not hold.
RetiredIsHeld ==
    ~closed => \A n \in 0..(nextSend - Len(pending) - 1) : n \in devHeld

\* The bytes of a segment reach the handler only when its message is complete
\* and at most once, however often the device repeats it, and a message
\* reaches it whole or not at all, also when the handler is installed late.
HandedOnceAndWhole ==
    \A n \in DeviceSegments :
        /\ handed[n] <= 1
        /\ handed[n] = 1 => n < fragFirst
        /\ Frg[n] # 0 => handed[n] = handed[n + 1]

\* Delivery is in order: nothing handed over in a step precedes anything handed
\* over before it.
HandedInOrder ==
    [][\A n, m \in DeviceSegments :
          handed'[n] # handed[n] /\ handed[m] # 0 => m < n]_vars

\* The retransmit loop runs exactly while something is unacknowledged: arming,
\* disarming and closing never leave a segment without a loop, nor a loop
\* without a segment.
ArmedWhilePending == armed <=> pending # <<>>

\* A closed conversation writes nothing to the relay any more.
SilentOnceClosed == [][closed => Len(toDevice') <= Len(toDevice)]_vars

\* Whatever the device does, the sender is not left waiting for it: what is
\* pending is acknowledged, or the loop gives up and closes.
PendingDrains == (pending # <<>>) ~> (pending = <<>>)

\* Over a relay that carries, a device that keeps retransmitting gets every
\* segment it sent retired, as long as the conversation is open.
DeviceIsServed ==
    TransportFairness =>
        \A n \in DeviceSegments : (n < devNext) ~> (n \notin devUnacked \/ closed)

-----------------------------------------------------------------------------
(* The abstract channel.                                                    *)

Channel == INSTANCE MessageChannel WITH
    open <- ~closed, listening <- handler,
    offered <- devNext, taken <- fragFirst, handed <- handed,
    sent <- nextSend, outstanding <- Len(pending), arrived <- devReceived

\* The conversation implements the channel its docstring promises: windows,
\* acknowledgements, retransmissions, reassembly and the give-up add up to
\* whole messages, once each and in order, and to a sender that lets go of a
\* segment only when the device has it or the conversation is over.
ImplementsChannel == Channel!Spec
=============================================================================
