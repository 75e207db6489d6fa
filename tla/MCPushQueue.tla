----------------------------- MODULE MCPushQueue -----------------------------
EXTENDS PushQueue

CONSTANTS c1, c2, r1

\* With a channel, two in either order, and a recording.
MCOrders == {<<c1>>, <<c2, c1>>, <<c1, c2>>, <<r1>>}
===============================================================================
