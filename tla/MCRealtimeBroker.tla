-------------------------- MODULE MCRealtimeBroker --------------------------
EXTENDS RealtimeBroker

CONSTANTS c1, c2, t1, t2

MCUserTopic == [c \in {c1, c2} |-> IF c = c1 THEN t1 ELSE t2]
=============================================================================
