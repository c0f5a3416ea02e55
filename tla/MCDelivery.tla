----------------------------- MODULE MCDelivery -----------------------------
\* Delivery for TLC: a moderator who talks, and two machines under one nick.
EXTENDS Delivery

CONSTANTS boss, ann, b, a1, a2

MCFileGroups == [n \in Nicks |-> {}]
MCNickOf == [i \in Instances |-> IF i = b THEN boss ELSE ann]
=============================================================================
