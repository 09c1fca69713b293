--------------------------- MODULE MessageChannel ---------------------------
(***************************************************************************)
(* What a KCP conversation promises to the session that uses it            *)
(* (KcpConversation's docstring and public methods), without segments in   *)
(* flight, windows, acknowledgements or timers: a reliable channel that    *)
(* keeps the device's order and its message boundaries, a count of what    *)
(* the client sent and still cares for, and an end after which nothing is  *)
(* handed over or cared for any more.                                      *)
(***************************************************************************)
EXTENDS Integers

CONSTANTS
    DeviceTotal,   \* bound: segments the device offers
    ClientTotal,   \* bound: segments the client sends
    Frg            \* the countdown of each device segment, 0 on a message's last

VARIABLES
    open,          \* the conversation has not been closed
    listening,     \* a message handler is installed
    offered,       \* how many segments the device has offered
    taken,         \* the client is done with every segment below this one
    handed,        \* how often each segment reached the message handler
    sent,          \* how many segments the client has sent
    outstanding,   \* how many of them the client still retransmits
    arrived        \* how many of them the device has, without a gap

vars == <<open, listening, offered, taken, handed, sent, outstanding, arrived>>

Init ==
    /\ open = TRUE /\ listening = FALSE
    /\ offered = 0 /\ taken = 0 /\ handed = [n \in 0..(DeviceTotal - 1) |-> 0]
    /\ sent = 0 /\ outstanding = 0 /\ arrived = 0

Listen ==
    /\ open /\ listening' = TRUE
    /\ UNCHANGED <<open, offered, taken, handed, sent, outstanding, arrived>>

Offer ==
    /\ offered < DeviceTotal /\ offered' = offered + 1
    /\ UNCHANGED <<open, listening, taken, handed, sent, outstanding, arrived>>

\* Whole messages leave the channel in the order they were offered, once each,
\* to the handler if there is one.  At the same time the client may stop
\* caring for segments of its own, which have arrived.
Receive ==
    /\ open
    /\ \E upTo \in taken..offered :
         /\ upTo # taken => Frg[upTo - 1] = 0
         /\ taken' = upTo
         /\ handed' = [n \in 0..(DeviceTotal - 1) |->
                         IF listening /\ n \in taken..(upTo - 1) THEN handed[n] + 1 ELSE handed[n]]
    /\ outstanding' \in 0..outstanding
    /\ sent - outstanding' <= arrived
    /\ UNCHANGED <<open, listening, offered, sent, arrived>>

Send ==
    /\ open
    /\ \E count \in 1..ClientTotal :
         sent' = sent + count /\ outstanding' = outstanding + count
    /\ UNCHANGED <<open, listening, offered, taken, handed, arrived>>

Arrive ==
    /\ arrived' \in (arrived + 1)..sent
    /\ UNCHANGED <<open, listening, offered, taken, handed, sent, outstanding>>

Close ==
    /\ open /\ open' = FALSE /\ listening' = FALSE /\ outstanding' = 0
    /\ UNCHANGED <<offered, taken, handed, sent, arrived>>

Next == Listen \/ Offer \/ Receive \/ Send \/ Arrive \/ Close

Spec == Init /\ [][Next]_vars
=============================================================================
