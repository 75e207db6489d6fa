--------------------------- MODULE MCControlPoint ---------------------------
EXTENDS ControlPoint

CONSTANTS u1, u2, l1, l2

\* The first device gives a lease and moves; the second gives none.
MCOffers == {<<u1, l1, 1>>, <<u1, l2, 1>>, <<u2, l1, 0>>}
=============================================================================
