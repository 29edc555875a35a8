--------------------------- MODULE MCMainSignals ----------------------------
EXTENDS MainSignals, TLC

CONSTANTS t1, t2, p1, tick, net, wallet

MCDelta == [t \in Timers |-> 1]
=============================================================================
