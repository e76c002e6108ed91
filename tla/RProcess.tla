------------------------------ MODULE RProcess ------------------------------
(***************************************************************************)
(* rprocess_request (RProcess.h): what the server does with one packet of  *)
(* a client, as a function from the connection's RState_t and the packet   *)
(* to the returned value and the new RState_t.                             *)
(*                                                                         *)
(* Of the queue states[MYS] only the last entry is ever read again, so it  *)
(* is kept as curr; of states[HIS] only the packet in hand and the first   *)
(* GET, kept as the name request.                                          *)
(***************************************************************************)
EXTENDS RHdr

RState == [curr : Packet \cup {None}, request : Names \cup {None},
           ack : Con, seq : Con, chksum : BOOLEAN]

\* RSTATE_INIT resets everything except ack (RState.h never assigns it).
RSTATE_INIT(st) == [curr |-> None, request |-> None, ack |-> st.ack,
                    seq |-> 1, chksum |-> FALSE]

\* Mutant: ack survives the clean-up as it survives RSTATE_INIT.
rstate_destroyKeepsAck(st) == [curr |-> None, request |-> None, ack |-> st.ack,
                               seq |-> 0, chksum |-> FALSE]

\* rstate_destroy: the queues are freed and both counters are zeroed.
rstate_destroy(st) == [curr |-> None, request |-> None, ack |-> 0,
                       seq |-> 0, chksum |-> FALSE]

\* memset to 0 followed by RSTATE_INIT: the state of a connection just met.
NewState == [curr |-> None, request |-> None, ack |-> 0, seq |-> 1,
             chksum |-> FALSE]

\* SND_PKT: a connection that uses checksums puts CHK on what it sends.
SND_PKT(st, m) ==
    IF st.chksum THEN [m EXCEPT !.flags = @ \cup {"CHK"}] ELSE m

\* rhead_append: SEQN is that of the last entry plus one, 1 on an empty queue.
rhead_append(st, flags, ackn, body) ==
    SND_PKT(st, [flags |-> flags, ver |-> TRUE, ackn |-> ackn, body |-> body,
                 seqn |-> IF st.curr = None THEN 1 ELSE Inc(st.curr.seqn),
                 sum |-> TRUE])

\* The answer m is appended and both counters step.
Advance(st, m) ==
    [st EXCEPT !.curr = m, !.ack = Inc(@), !.seq = Inc(@)]

\* Mutant: the last chunk is taken for the end of the file.
ReadAtShort(st, f, offset) ==
    IF offset + 1 < Files[f]
    THEN rhead_append(st, {"DAT"}, 0, <<f, offset + 1>>)
    ELSE rhead_append(st, {"FIN"}, 0, Empty)

\* fopen, fseek(offset * MSG_SIZ), fread: the chunk of f at that offset, or
\* FIN when nothing is left to read.
ReadAt(st, f, offset) ==
    IF offset < Files[f]
    THEN rhead_append(st, {"DAT"}, 0, <<f, offset + 1>>)
    ELSE rhead_append(st, {"FIN"}, 0, Empty)

\* What every reachable RState_t satisfies: an open connection has a hosted
\* resource, ack is the SEQN of the packet in flight, and that packet has the
\* CHK flag when the connection uses checksums.
RStateOK(st) ==
    /\ st.curr # None => st.request \in DOMAIN Files
    /\ st.ack = IF st.curr = None THEN 0 ELSE st.curr.seqn
    /\ st.curr # None /\ st.chksum => FLAG_VALIDATE(st.curr, "CHK")

Result(ret, st) == [ret |-> ret, st |-> st]

\* The label INVALID_NAK: a NAK is answered with curr when there is one.
INVALID_NAK(st, m) ==
    Result(IF st.curr = None THEN "WORSE_CHK"
           ELSE IF FLAG_VALIDATE(m, "NAK") THEN "true" ELSE "BAD_CHK",
           IF st.curr # None /\ FLAG_VALIDATE(m, "NAK")
           THEN [st EXCEPT !.curr = SND_PKT(st, @)] ELSE st)

\* The checksum is looked at when the packet or the connection asks for it.
ChecksSum(st, m) == FLAG_VALIDATE(m, "CHK") \/ st.chksum

\* Mutant: the SEQN that the client spent on the NAK is not counted.
NakSeenNoSeq(st) == st

\* A NAK for the packet in flight: it is sent again, and seq follows the SEQN
\* that the client spent on the NAK.
NakSeen(st) == [st EXCEPT !.seq = Inc(@)]

\* The switch on the flags, for a packet that passed the tests before it.
Serve(st, m) ==
    CASE FLAG_VALIDATE(m, "NAK") /\ st.curr # None /\ st.ack = m.ackn ->
            Result("true", NakSeen(st))
      [] FLAG_CHECK(m, {"GET"}) /\ st.curr = None ->
            IF m.body \in DOMAIN Files
            THEN Result("true", [Advance(st, ReadAt(st, m.body, 0))
                                    EXCEPT !.request = m.body])
            ELSE Result("false", st)
      [] FLAG_CHECK(m, {"ACK", "DAT"}) /\ st.curr # None ->
            Result("true", Advance(st, ReadAt(st, st.request, st.ack)))
      [] /\ FLAG_CHECK(m, {"ACK", "FIN"})
         /\ st.curr # None
         /\ FLAG_CHECK(UnsetCHK(st.curr), {"FIN"}) ->
            Result("false",
                   Advance(st, rhead_append(st, {"FIN", "ACK"}, st.seq, Empty)))
      [] OTHER -> INVALID_NAK(st, m)

\* Mutant: ACKN is not compared.
InSequenceNoAck(st, m) ==
    IF st.curr = None THEN m.seqn = 1 /\ m.ackn = 0
    ELSE FLAG_VALIDATE(m, "NAK") \/ m.seqn = st.seq

\* The test of SEQN and ACKN: a NAK on an open connection skips it.
InSequence(st, m) ==
    IF st.curr = None THEN m.seqn = 1 /\ m.ackn = 0
    ELSE \/ FLAG_VALIDATE(m, "NAK")
         \/ m.seqn = st.seq /\ m.ackn = st.ack

\* A packet out of sequence leaves curr to be sent again, if there is one.
Sequenced(st, m) ==
    IF InSequence(st, m) THEN Serve(st, m)
    ELSE Result(IF st.curr = None THEN "false" ELSE "true", st)

rprocess_request(st, m) ==
    CASE ~m.ver -> INVALID_NAK(st, m)
      [] m.ver /\ st.curr # None /\ m.body # Empty -> Result("BAD_CHK", st)
      [] m.ver /\ (st.curr # None => m.body = Empty) /\ ChecksSum(st, m) ->
            LET s == IF st.curr = None THEN [st EXCEPT !.chksum = TRUE] ELSE st
            IN  IF valid_chksum(m) THEN Sequenced(s, UnsetCHK(m))
                ELSE Result(IF st.curr = None THEN "WORSE_CHK" ELSE "BAD_CHK", s)
      [] OTHER -> Sequenced(st, m)
=============================================================================
