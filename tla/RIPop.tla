------------------------------- MODULE RIPop -------------------------------
(***************************************************************************)
(* Addresses and their assignment (RIPop.h).  An address is the sequence   *)
(* of its four octets; an octet has Octet values, 256 in the code.         *)
(***************************************************************************)
EXTENDS Integers, Sequences, FiniteSets, SequencesExt, TLC

CONSTANT OctetBits

ASSUME OctetAssumption == OctetBits \in Nat \ {0}

Octet == 2^OctetBits
Top == Octet - 1                        \* IP_SUBNET_MASK
Zero == [i \in 1 .. 4 |-> 0]
AllOnes == [i \in 1 .. 4 |-> Top]       \* INADDR_NONE, what inet_addr makes of no name
NoName == <<>>

\* rsPkt_ip_op_put: a name as the address in a packet.
Put(name) == IF name = NoName THEN AllOnes ELSE name

\* The candidate of rIpop_assign_ip.  A carry clears the octet next to the one
\* it goes to, and no other.
NextIp(cur) ==
    IF cur[4] < Top THEN [cur EXCEPT ![4] = @ + 1]
    ELSE IF cur[3] < Top THEN [cur EXCEPT ![4] = 0, ![3] = @ + 1]
    ELSE IF cur[2] < Top THEN [cur EXCEPT ![3] = 0, ![2] = @ + 1]
    ELSE IF cur[1] < Top THEN [cur EXCEPT ![2] = 0, ![1] = @ + 1]
    ELSE cur

InRange(ip, max) == \A i \in 1 .. 4 : ip[i] <= max[i]

\* rIpop_assign_ip with increment, for op = [cur, max]: Zero when none is left.
rIpop_assign_ip(op) == IF InRange(NextIp(op.cur), op.max) THEN NextIp(op.cur) ELSE Zero

AdvanceNever(op) == op

Advance(op) == IF InRange(NextIp(op.cur), op.max) THEN [op EXCEPT !.cur = NextIp(@)] ELSE op

\* rIpop_str_to_op and rIpop_justify: the last octets of the subnet, of which
\* space bits are free.  The bits of an octet are not joined with the address.
rIpop_justify(name, space) ==
    LET bits(i) == LET b == space - OctetBits * (4 - i)
                   IN  IF b < 0 THEN 0 ELSE IF b > OctetBits THEN OctetBits ELSE b
    IN  [cur |-> name,
         max |-> [i \in 1 .. 4 |-> IF bits(i) = 0 THEN name[i] ELSE 2^bits(i) - 1]]

Value(ip) == ip[4] + Octet * (ip[3] + Octet * (ip[2] + Octet * ip[1]))

\* longest_prefix_mathing: how many leading bits two addresses share.
longest_prefix_mathing(a, b) ==
    LET width == 4 * OctetBits
        same(p) == Value(a) \div 2^(width - p) = Value(b) \div 2^(width - p)
    IN  CHOOSE p \in 0 .. width : same(p) /\ (p = width \/ ~same(p + 1))
=============================================================================
