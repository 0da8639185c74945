-------------------------- MODULE MCSessionContract --------------------------
EXTENDS SessionContract

\* With 6 bits for a duration and 8 units to the second, 4 seconds are the
\* least duration, 8 are none and 9 are one; with 3 bits for the connections,
\* 4 are below zero and 8 are none.
SomeNumbers == {-1, 0, 1, 4, 8, 9}
=============================================================================
