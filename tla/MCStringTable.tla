--------------------------- MODULE MCStringTable ---------------------------
EXTENDS StringTable
CONSTANTS ping, pong, tick, p
MCHash == [t \in {ping, pong, tick} |-> IF t = tick THEN 3 ELSE 1]
MCAt == [x \in {p} |-> ping]
=============================================================================
