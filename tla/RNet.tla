-------------------------------- MODULE RNet --------------------------------
(***************************************************************************)
(* The UDP sockets between RClient and RUSHBSvr.  A channel is the set of  *)
(* datagrams in flight, so it may reorder them; the budget bounds how      *)
(* often it loses, duplicates or damages one.  External: this is how the   *)
(* code in src/ uses the network, not code of the repository.              *)
(***************************************************************************)
EXTENDS RHdr, FiniteSets

CONSTANTS
    Ports,      \* the (address, port) pairs of the clients
    Runt,       \* a datagram shorter than RHDR_SIZ
    Cap,        \* how many datagrams a socket buffer holds
    Budget,     \* how often each fault may happen at most
    Budgets,    \* the mixes of faults: what a run may begin with
    Free        \* the faults that may happen without bound

Fault == {"lose", "dup", "damage", "runt", "create", "nak", "tick"}

ASSUME NetAssumption ==
    /\ Budget \in [Fault -> Nat] /\ Free \subseteq Fault /\ Cap \in Nat
    /\ Budgets \subseteq [Fault -> Nat]
    /\ \A b \in Budgets : /\ \A x \in Fault : b[x] <= Budget[x]
                          /\ \A x \in {"runt", "create"} : b[x] = Budget[x]
    /\ Runt \notin Packet /\ Runt # None

VARIABLES
    c2s,        \* c2s[p]: datagrams from the client at p to the server
    s2c,        \* s2c[p]: packets from the server to the client at p
    budget      \* what is left of it

netVars == <<c2s, s2c, budget>>

NetInit ==
    /\ c2s = [p \in Ports |-> {}]
    /\ s2c = [p \in Ports |-> {}]
    /\ budget \in Budgets

\* Fault f happens.
Spend(f) == \/ f \in Free /\ UNCHANGED budget
            \/ f \notin Free /\ budget[f] > 0 /\ budget' = [budget EXCEPT ![f] = @ - 1]

\* Fault f, of which every mix has the same number, may have happened.
Spent(f) == f \in Free \/ budget[f] < Budget[f]

\* sendto: a full socket buffer drops the datagram.
Put(channel, m) == IF Cardinality(channel) < Cap THEN channel \cup {m} ELSE channel

\* recvfrom takes a datagram out of the channel; a duplicate may remain.
TakeC2S(p, m) ==
    /\ m \in c2s[p]
    /\ \/ c2s' = [c2s EXCEPT ![p] = @ \ {m}] /\ UNCHANGED budget
       \/ Spend("dup") /\ UNCHANGED c2s

TakeS2C(p, m) ==
    /\ m \in s2c[p]
    /\ \/ s2c' = [s2c EXCEPT ![p] = @ \ {m}] /\ UNCHANGED budget
       \/ Spend("dup") /\ UNCHANGED s2c

Lose(p) ==
    /\ Spend("lose")
    /\ \/ \E m \in c2s[p] : c2s' = [c2s EXCEPT ![p] = @ \ {m}] /\ UNCHANGED s2c
       \/ \E m \in s2c[p] : s2c' = [s2c EXCEPT ![p] = @ \ {m}] /\ UNCHANGED c2s

\* The payload changes and CHKS no longer matches it.
Damaged(m) == [m EXCEPT !.body = Garbage, !.sum = FALSE]

Damage(p) ==
    /\ Spend("damage")
    /\ \E m \in s2c[p] : s2c' = [s2c EXCEPT ![p] = (@ \ {m}) \cup {Damaged(m)}]
    /\ UNCHANGED c2s

NetNext == \E p \in Ports : Lose(p) \/ Damage(p)

NetTypeOK ==
    /\ c2s \in [Ports -> SUBSET (Packet \cup {Runt})]
    /\ s2c \in [Ports -> SUBSET Packet]
    /\ budget \in [Fault -> Nat]
    /\ \A x \in Fault : budget[x] <= Budget[x]
=============================================================================
