---------------------------- MODULE MCHubSessions ----------------------------
\* HubSessions for TLC: a moderator with a token, and an agent.
EXTENDS HubSessions, TLC

CONSTANTS boss, ann, guest, crew

MCFileGroups == [n \in Nicks |-> {}]
MCSymmetry == Permutations(Instances)
=============================================================================
