------------------------- MODULE MCBrokerScheduler -------------------------
EXTENDS BrokerScheduler

CONSTANTS ka, kb, kc, x, y, a1, a2, a3, a4, b1, b2, c1

OneEach(t) == [j \in Jobs |-> t]

KeyOfJob == [j \in Jobs |-> CASE j \in {a1, a2, a3, a4} -> ka
                              [] j \in {b1, b2} -> kb
                              [] OTHER -> kc]
\* Two commands share the long queue of the first model.
CommandOfJob == [j \in Jobs |-> IF j = a4 THEN y ELSE x]

OneCommand == OneEach(x)

Timeout1 == OneEach(1)
Timeout2 == OneEach(2)
=============================================================================
