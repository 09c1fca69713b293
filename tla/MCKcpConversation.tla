------------------------- MODULE MCKcpConversation -------------------------
EXTENDS KcpConversation

\* A two-segment message and then a one-segment one.
MCFrg == [n \in DeviceSegments |-> IF n = 0 THEN 1 ELSE 0]
=============================================================================
