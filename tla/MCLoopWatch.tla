---------------------------- MODULE MCLoopWatch ----------------------------
EXTENDS LoopWatch
MCThreshold == [a \in Agents |-> IF a = 1 THEN 2 ELSE 3]
=============================================================================
