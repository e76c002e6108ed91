------------------------------ MODULE RClient ------------------------------
(***************************************************************************)
(* The RUSHB client (RClient.c).  It asks for one resource and then reacts *)
(* to each packet with exactly one packet of its own: an acknowledgement   *)
(* of the packet it expected, or a NAK.  It has no timer, so it sends      *)
(* nothing on its own.                                                     *)
(***************************************************************************)
EXTENDS RNet, Sequences

CONSTANTS
    Wants,      \* Wants[p]: the resource named with -r
    Chk,        \* Chk[p]: option -c, checksums on
    Mis,        \* Mis[p]: option -m, refuse good packets at random
    Text        \* the payloads without a '%' and without a NUL before other bytes

ASSUME ClientAssumption ==
    /\ Wants \in [Ports -> Names]
    /\ Chk \in [Ports -> BOOLEAN]
    /\ Mis \in [Ports -> BOOLEAN]

VARIABLE
    cl          \* cl[p]: the client process at p

Client == [pc : {"new", "wait", "done"}, mys : Packet \cup {None},
           track : Con, out : Seq(Body), misD : BOOLEAN]

ClTypeOK == cl \in [Ports -> Client]

ClInit == cl = [p \in Ports |-> [pc |-> "new", mys |-> None, track |-> 1,
                                 out |-> <<>>, misD |-> FALSE]]

\* rhead_append on states[MYS], and the CHK flag set at the top of the loop.
MyPacket(p, flags, ackn, body) ==
    [flags |-> IF Chk[p] THEN flags \cup {"CHK"} ELSE flags, ver |-> TRUE,
     seqn |-> IF cl[p].mys = None THEN 1 ELSE Inc(cl[p].mys.seqn),
     ackn |-> ackn, body |-> body, sum |-> TRUE]

SendPacket(p, m) == c2s' = [c2s EXCEPT ![p] = Put(@, m)]

\* The GET that opens the exchange.
ClientGet(p) ==
    LET m == MyPacket(p, {"GET"}, 0, Wants[p])
    IN  /\ cl[p].pc = "new"
        /\ cl' = [cl EXCEPT ![p].pc = "wait", ![p].mys = m]
        /\ SendPacket(p, m)
        /\ UNCHANGED <<s2c, budget>>

\* What fprintf makes of a payload, which it takes for its format: what is no plain
\* text is expanded or cut short.
Printed(body) == IF body \in Text THEN body ELSE Garbage

\* The payload is printed to the file; an empty one adds nothing.
Written(out, body) == IF body = Empty THEN out ELSE Append(out, Printed(body))

\* INVALID_NAK: refuse the packet, name the one expected, write nothing.
Nak(p, misD) ==
    LET m == MyPacket(p, IF misD THEN {"NAK", "DAT"} ELSE {"NAK"}, cl[p].track, Empty)
    IN  /\ cl' = [cl EXCEPT ![p].mys = m, ![p].misD = misD]
        /\ SendPacket(p, m)

\* The packet expected: acknowledge it and write its payload.
Accept(p, m) ==
    LET a == MyPacket(p, {"ACK"} \cup m.flags, cl[p].track, Empty)
    IN  /\ cl' = [cl EXCEPT ![p].mys = a, ![p].track = Inc(@),
                            ![p].out = Written(@, m.body)]
        /\ SendPacket(p, a)

Sound(p, m) == Chk[p] => valid_chksum(m)

Last(p, m) == FLAG_CHECK(m, {"FIN", "ACK"}) /\ m.ackn = cl[p].mys.seqn

\* Mutant: SEQN is not compared with track.
ExpectedAnySeqn(p, m) == FLAG_CHECK(m, {"FIN"}) \/ FLAG_CHECK(m, {"DAT"})

\* The next packet of the file, or the end of it.
Expected(p, m) ==
    /\ FLAG_CHECK(m, {"FIN"}) \/ FLAG_CHECK(m, {"DAT"})
    /\ m.seqn = cl[p].track

\* One turn of the loop: read a packet, react to it.
ClientRead(p, r) ==
    LET m == UnsetCHK(r)
    IN  /\ cl[p].pc = "wait"
        /\ TakeS2C(p, r)
        /\ \/ Sound(p, r) /\ Last(p, m)
              /\ cl' = [cl EXCEPT ![p].pc = "done"] /\ UNCHANGED c2s
           \/ Sound(p, r) /\ ~Last(p, m) /\ Expected(p, m) /\ Accept(p, m)
           \/ ~(Sound(p, r) /\ (Last(p, m) \/ Expected(p, m))) /\ Nak(p, cl[p].misD)

\* Option -m: a good packet is refused on the toss of a coin.
ClientRefuse(p, r) ==
    /\ cl[p].pc = "wait" /\ Mis[p] /\ cl[p].track > 1
    /\ Sound(p, r) /\ ~FLAG_VALIDATE(r, "FIN")
    /\ r \in s2c[p] /\ s2c' = [s2c EXCEPT ![p] = @ \ {r}]
    /\ Spend("nak")
    /\ Nak(p, TRUE)

ClNext(p) == ClientGet(p) \/ \E r \in s2c[p] : ClientRead(p, r) \/ ClientRefuse(p, r)
=============================================================================
