------------------------------ MODULE Registry ------------------------------
(***************************************************************************)
(* chat/identity.py: Registry, the identities of a room, as a value and    *)
(* the operators that its methods are.  A method that mutates returns the  *)
(* new registry; what it refuses is an operator of its own.  A name that   *)
(* is missing from one of the Python dicts maps to Nobody, 0, {} or None.  *)
(***************************************************************************)
EXTENDS Naturals

CONSTANTS Nicks,        \* the names anybody may ask for
          Humans,       \* names of tokens.json with role "human"
          Agents,       \* the other names of tokens.json
          FileGroups,   \* FileGroups[n]: the groups tokens.json gives n
          Instances,    \* instance ids: one per client process
          Addrs,        \* peer addresses on the tailnet
          Groups,       \* names of groups; "admin" is the one with powers
          None          \* no instance, no address

ASSUME RegistryAssumption ==
    /\ Humans \subseteq Nicks /\ Agents \subseteq Nicks /\ Humans \cap Agents = {}
    /\ FileGroups \in [Nicks -> SUBSET Groups]
    /\ \A n \in Nicks \ (Humans \cup Agents) : FileGroups[n] = {}
    /\ None \notin Instances \cup Addrs

\* The dict d with d[n] = v.
Put(d, n, v) == [m \in Nicks |-> IF m = n THEN v ELSE d[m]]

Tokens == Humans \cup Agents
Roles == {"nobody", "agent", "human"}

RegistryType ==
    [role : [Nicks -> Roles],             \* roles
     groups : [Nicks -> SUBSET Groups],   \* groups
     gen : [Nicks -> Nat],                \* _gen
     instance : [Nicks -> Instances \cup {None}],  \* _instance
     addr : [Nicks -> Addrs \cup {None}]]          \* _open_addr

\* __init__: what tokens.json alone says.
FromTokens ==
    [role |-> [n \in Nicks |-> IF n \in Humans THEN "human"
                               ELSE IF n \in Agents THEN "agent" ELSE "nobody"],
     groups |-> FileGroups,
     gen |-> [n \in Nicks |-> 0],
     instance |-> [n \in Nicks |-> None],
     addr |-> [n \in Nicks |-> None]]

Known(r, n) == r.role[n] # "nobody"
HasEntered(r, n) == r.gen[n] > 0

\* What a kick, a change of groups or somebody else's status asks of the sender.
IsModerator(r, n) == HasEntered(r, n) /\ (r.role[n] = "human" \/ "admin" \in r.groups[n])

\* _bump: another instance, another generation.
Bump(r, n, i) ==
    IF r.instance[n] = i THEN r
    ELSE [r EXCEPT !.gen = Put(@, n, r.gen[n] + 1), !.instance = Put(@, n, i)]

\* A name without an entry in tokens.json becomes an agent with no group.
Enrol(r, n) == IF Known(r, n) THEN r ELSE [r EXCEPT !.role = Put(@, n, "agent")]

Pin(r, n, a) == IF a = None THEN r ELSE [r EXCEPT !.addr = Put(@, n, a)]

\* hello, once the token is right.
Hello(r, n, i) == Bump(r, n, i)

\* open_hello refuses an account of a moderator, and a name pinned elsewhere
\* when it is given an address to compare.
OpenHelloAllowed(r, n, i, a) ==
    /\ r.role[n] # "human"
    /\ a # None => r.addr[n] \in {None, a}
OpenHello(r, n, i, a) == Pin(Bump(Enrol(r, n), n, i), n, a)

\* replay_hello trusts what was authorised once: no token, no address check.
ReplayHello(r, n, i, a) == Pin(Bump(Enrol(r, n), n, i), n, a)

\* release_open_addr
Release(r, n) == [r EXCEPT !.addr = Put(@, n, None)]

\* set_groups refuses a name the room does not know.
SetGroupsAllowed(r, n) == Known(r, n)
SetGroups(r, n, gs) == [r EXCEPT !.groups = Put(@, n, gs)]

\* dump: the roles are not part of it.
Dump(r) == [gen |-> r.gen, instance |-> r.instance, groups |-> r.groups, addr |-> r.addr]

\* restore: tokens.json, then the agents that a generation vouches for, then
\* groups and addresses of the names that exist.
RestoreTokensOnly(d) ==
    LET r == FromTokens
    IN  [r EXCEPT !.gen = d.gen, !.instance = d.instance, !.addr = d.addr,
                  !.groups = [n \in Nicks |-> IF Known(r, n) THEN d.groups[n] ELSE {}]]
Restore(d) ==
    LET role == [n \in Nicks |-> IF FromTokens.role[n] = "nobody" /\ d.gen[n] > 0
                                 THEN "agent" ELSE FromTokens.role[n]]
        exists(n) == role[n] # "nobody"
    IN  [role |-> role,
         groups |-> [n \in Nicks |-> IF exists(n) THEN d.groups[n] ELSE {}],
         gen |-> d.gen,
         instance |-> d.instance,
         addr |-> [n \in Nicks |-> IF exists(n) THEN d.addr[n] ELSE None]]
=============================================================================
