---------------------------- MODULE RUSHBProofs ----------------------------
(***************************************************************************)
(* The server keeps its locks, its packet in flight and its counters       *)
(* consistent, for every set of clients and whatever they send.  With its  *)
(* clients and the network it transfers files: every file arrives in order *)
(* and whole, whatever is lost, duplicated, reordered or damaged.          *)
(***************************************************************************)
EXTENDS RUSHB, TLAPS

----------------------------------------------------------------------------
\* What one packet does to the state of a connection: types, the standing of
\* the packet in flight, and when it may be replaced.

Ret == {"true", "false", "BAD_CHK", "WORSE_CHK"}

\* Incrementing a 16-bit counter stays in range and, below the top, adds one.
LEMMA IncType ==
    ASSUME NEW n \in Con
    PROVE  Inc(n) \in Con /\ (n + 1 < SeqMod => Inc(n) = n + 1)
BY HdrAssumption DEF Con, Inc

\* The packet that rhead_append makes: well-formed, numbered after curr.
LEMMA AppendType ==
    ASSUME NEW st \in RState, NEW fl \in SUBSET Flag, NEW a \in Con, NEW b \in Body
    PROVE  /\ rhead_append(st, fl, a, b) \in Packet
           /\ rhead_append(st, fl, a, b).seqn =
                IF st.curr = None THEN 1 ELSE Inc(st.curr.seqn)
           /\ st.chksum => FLAG_VALIDATE(rhead_append(st, fl, a, b), "CHK")
<1>1. 1 \in Con BY HdrAssumption DEF Con
<1>2. (IF st.curr = None THEN 1 ELSE Inc(st.curr.seqn)) \in Con
  BY <1>1, IncType, Zenon DEF RState, Packet
<1>3. st.chksum \in BOOLEAN BY Zenon DEF RState
<1>4. "CHK" \in Flag BY Zenon DEF Flag
<1> QED BY Zenon, <1>2, <1>3, <1>4 DEF rhead_append, SND_PKT, Packet, FLAG_VALIDATE

\* Answering with the next packet keeps ack equal to the SEQN in flight.
LEMMA AdvanceOK ==
    ASSUME NEW st \in RState, RStateOK(st), NEW m \in Packet,
           m.seqn = IF st.curr = None THEN 1 ELSE Inc(st.curr.seqn)
    PROVE  LET s == Advance(st, m)
           IN  /\ s \in RState /\ s.curr = m /\ s.request = st.request
               /\ s.ack = m.seqn /\ s.chksum = st.chksum
<1>1. st.ack \in Con /\ st.seq \in Con BY Zenon DEF RState
<1>2. Inc(st.ack) \in Con /\ Inc(st.seq) \in Con BY <1>1, IncType, Zenon
<1>3. Inc(0) = 1 BY HdrAssumption, IncType DEF Con
<1>4. Advance(st, m) \in RState BY Zenon, <1>2 DEF Advance, RState
<1> QED BY <1>3, <1>4, Zenon DEF Advance, RStateOK, RState

\* Reading the resource at an offset makes the next packet of the connection.
LEMMA ReadAtType ==
    ASSUME NEW st \in RState, NEW f \in DOMAIN Files, NEW k \in Nat
    PROVE  LET m == ReadAt(st, f, k)
           IN  /\ m \in Packet
               /\ m.seqn = IF st.curr = None THEN 1 ELSE Inc(st.curr.seqn)
               /\ st.chksum => FLAG_VALIDATE(m, "CHK")
<1>1. {"DAT"} \in SUBSET Flag /\ {"FIN"} \in SUBSET Flag BY Zenon DEF Flag
<1>2. 0 \in Con BY HdrAssumption DEF Con
<1>3. <<f, k + 1>> \in Body /\ Empty \in Body BY DEF Body, Chunk
<1>4. Files[f] \in Nat BY HdrAssumption, Zenon
<1>5. CASE k < Files[f]
  <2>1. ReadAt(st, f, k) = rhead_append(st, {"DAT"}, 0, <<f, k + 1>>)
    BY <1>5, Zenon DEF ReadAt
  <2> QED BY <2>1, <1>1, <1>2, <1>3, AppendType
<1>6. CASE ~(k < Files[f])
  <2>1. ReadAt(st, f, k) = rhead_append(st, {"FIN"}, 0, Empty)
    BY <1>6, Zenon DEF ReadAt
  <2> QED BY <2>1, <1>1, <1>2, <1>3, AppendType
<1> QED BY <1>5, <1>6, Zenon

\* What the handlers of a packet guarantee: a well-formed state with ack equal
\* to the SEQN in flight, a packet in flight on return true or BAD_CHK, and an
\* open connection stays open.
Good(st, r) ==
    /\ r.ret \in Ret
    /\ r.st \in RState /\ RStateOK(r.st)
    /\ r.ret \in {"true", "BAD_CHK"} => r.st.curr # None
    /\ st.curr # None => r.st.curr # None

LEMMA InvalidNakGood ==
    ASSUME NEW st \in RState, RStateOK(st), NEW m \in Packet
    PROVE  Good(st, INVALID_NAK(st, m))
<1> DEFINE v == FLAG_VALIDATE(m, "NAK")
           c == SND_PKT(st, st.curr)
           s == [st EXCEPT !.curr = c]
<1>1. CASE st.curr # None /\ v
  <2>1. st.curr \in Packet BY <1>1, Zenon DEF RState
  <2>2. "CHK" \in Flag BY Zenon DEF Flag
  <2>3. c \in Packet /\ c.seqn = st.curr.seqn /\ (st.chksum => FLAG_VALIDATE(c, "CHK"))
    BY <2>1, <2>2, Zenon DEF SND_PKT, Packet, FLAG_VALIDATE
  <2>4. c # None BY <2>3, NoneAssumption, Zenon
  <2>5. /\ s \in RState /\ s.curr = c /\ s.request = st.request /\ s.ack = st.ack
        /\ s.chksum = st.chksum
    BY <2>3, Zenon DEF RState
  <2>6. RStateOK(s) BY <2>3, <2>4, <2>5, <1>1, Zenon DEF RStateOK
  <2>7. INVALID_NAK(st, m) = [ret |-> "true", st |-> s]
    BY <1>1, Zenon DEF INVALID_NAK, Result
  <2> HIDE DEF s
  <2> QED BY <2>4, <2>5, <2>6, <2>7 DEF Good, Ret
<1>2. CASE ~(st.curr # None /\ v)
  <2>1. /\ INVALID_NAK(st, m).st = st
        /\ INVALID_NAK(st, m).ret \in {"BAD_CHK", "WORSE_CHK"}
        /\ INVALID_NAK(st, m).ret = "BAD_CHK" => st.curr # None
    BY <1>2, Zenon DEF INVALID_NAK, Result
  <2> QED BY <2>1, Zenon DEF Good, Ret
<1> QED BY <1>1, <1>2, Zenon

LEMMA ServeGood ==
    ASSUME NEW st \in RState, RStateOK(st), NEW m \in Packet
    PROVE  Good(st, Serve(st, m))
<1> DEFINE A == FLAG_VALIDATE(m, "NAK") /\ st.curr # None /\ st.ack = m.ackn
           B == FLAG_CHECK(m, {"GET"}) /\ st.curr = None
           C == FLAG_CHECK(m, {"ACK", "DAT"}) /\ st.curr # None
           D == /\ FLAG_CHECK(m, {"ACK", "FIN"})
                /\ st.curr # None
                /\ FLAG_CHECK(UnsetCHK(st.curr), {"FIN"})
<1>0. st.ack \in Con /\ st.ack \in Nat /\ st.seq \in Con /\ 0 \in Con
  BY HdrAssumption DEF RState, Con
<1>a. /\ A => ~B /\ ~C /\ ~D
      /\ B => ~C /\ ~D
      /\ C => ~D
  BY DEF FLAG_VALIDATE, FLAG_CHECK
<1>1. CASE A
  <2> DEFINE s == [st EXCEPT !.seq = Inc(@)]
  <2>1. Serve(st, m) = [ret |-> "true", st |-> s]
    BY <1>1, <1>a, Zenon DEF Serve, NakSeen, Result
  <2>2. /\ s \in RState /\ s.curr = st.curr /\ s.request = st.request
        /\ s.ack = st.ack /\ s.chksum = st.chksum
    BY <1>0, IncType, Zenon DEF RState
  <2> HIDE DEF s
  <2> QED BY <1>1, <2>1, <2>2 DEF Good, Ret, RStateOK
<1>2. CASE B /\ m.body \in DOMAIN Files
  <2> DEFINE n == ReadAt(st, m.body, 0)
             a == Advance(st, n)
             s == [a EXCEPT !.request = m.body]
  <2>1. /\ n \in Packet /\ n.seqn = IF st.curr = None THEN 1 ELSE Inc(st.curr.seqn)
        /\ st.chksum => FLAG_VALIDATE(n, "CHK")
    BY <1>2, ReadAtType, Zenon
  <2>2. a \in RState /\ a.curr = n /\ a.ack = n.seqn /\ a.chksum = st.chksum
    BY <2>1, AdvanceOK, Zenon
  <2>3. m.body \in Names BY <1>2, HdrAssumption, Zenon
  <2>4. /\ s \in RState /\ s.curr = n /\ s.ack = n.seqn /\ s.request = m.body
        /\ s.chksum = st.chksum
    BY <2>2, <2>3, Zenon DEF RState
  <2>5. Serve(st, m) = [ret |-> "true", st |-> s]
    BY <1>2, <1>a, Zenon DEF Serve, Result
  <2>6. n # None BY <2>1, NoneAssumption, Zenon
  <2> HIDE DEF s, a, n
  <2> QED BY <1>2, <2>1, <2>4, <2>5, <2>6 DEF Good, Ret, RStateOK
<1>3. CASE B /\ m.body \notin DOMAIN Files
  <2>1. Serve(st, m) = [ret |-> "false", st |-> st]
    BY <1>3, <1>a, Zenon DEF Serve, Result
  <2> QED BY <2>1 DEF Good, Ret
<1>4. CASE C
  <2> DEFINE n == ReadAt(st, st.request, st.ack)
             s == Advance(st, n)
  <2>1. st.request \in DOMAIN Files BY <1>4, Zenon DEF RStateOK
  <2>2. /\ n \in Packet /\ n.seqn = IF st.curr = None THEN 1 ELSE Inc(st.curr.seqn)
        /\ st.chksum => FLAG_VALIDATE(n, "CHK")
    BY <2>1, <1>0, ReadAtType, Zenon
  <2>3. /\ s \in RState /\ s.curr = n /\ s.ack = n.seqn /\ s.request = st.request
        /\ s.chksum = st.chksum
    BY <2>2, AdvanceOK, Zenon
  <2>4. Serve(st, m) = [ret |-> "true", st |-> s]
    BY <1>4, <1>a, Zenon DEF Serve, Result
  <2>5. n # None BY <2>2, NoneAssumption, Zenon
  <2> HIDE DEF s, n
  <2> QED BY <2>1, <2>2, <2>3, <2>4, <2>5 DEF Good, Ret, RStateOK
<1>5. CASE D
  <2> DEFINE n == rhead_append(st, {"FIN", "ACK"}, st.seq, Empty)
             s == Advance(st, n)
  <2>1. st.request \in DOMAIN Files BY <1>5, Zenon DEF RStateOK
  <2>2. {"FIN", "ACK"} \in SUBSET Flag /\ Empty \in Body BY Zenon DEF Flag, Body
  <2>3. /\ n \in Packet /\ n.seqn = IF st.curr = None THEN 1 ELSE Inc(st.curr.seqn)
        /\ st.chksum => FLAG_VALIDATE(n, "CHK")
    BY <2>2, <1>0, AppendType, Zenon
  <2>4. /\ s \in RState /\ s.curr = n /\ s.ack = n.seqn /\ s.request = st.request
        /\ s.chksum = st.chksum
    BY <2>3, AdvanceOK, Zenon
  <2>5. Serve(st, m) = [ret |-> "false", st |-> s]
    BY <1>5, <1>a, Zenon DEF Serve, Result
  <2>6. n # None BY <2>3, NoneAssumption, Zenon
  <2> HIDE DEF s, n
  <2> QED BY <2>1, <2>3, <2>4, <2>5, <2>6 DEF Good, Ret, RStateOK
<1>6. CASE ~A /\ ~B /\ ~C /\ ~D
  <2>1. Serve(st, m) = INVALID_NAK(st, m) BY <1>6, Zenon DEF Serve
  <2> QED BY <2>1, InvalidNakGood, Zenon
<1> QED BY <1>1, <1>2, <1>3, <1>4, <1>5, <1>6, Zenon

\* rprocess_request as a whole.
LEMMA ProcessGood ==
    ASSUME NEW st \in RState, RStateOK(st), NEW m \in Packet
    PROVE  Good(st, rprocess_request(st, m))
<1>1. ASSUME NEW s \in RState, RStateOK(s), s.curr = st.curr, NEW x \in Packet
      PROVE  Good(st, Sequenced(s, x))
  <2>1. CASE InSequence(s, x)
    BY <1>1, <2>1, ServeGood, Zenon DEF Sequenced, Good
  <2>2. CASE ~InSequence(s, x)
    <3>1. Sequenced(s, x) = [ret |-> IF s.curr = None THEN "false" ELSE "true", st |-> s]
      BY <2>2, Zenon DEF Sequenced, Result
    <3> QED BY <1>1, <3>1 DEF Good, Ret
  <2> QED BY <2>1, <2>2, Zenon
<1>2. CASE ~m.ver
  BY <1>2, InvalidNakGood, Zenon DEF rprocess_request
<1>3. CASE m.ver /\ st.curr # None /\ m.body # Empty
  <2>1. rprocess_request(st, m) = [ret |-> "BAD_CHK", st |-> st]
    BY <1>3, Zenon DEF rprocess_request, Result
  <2> QED BY <1>3, <2>1 DEF Good, Ret
<1>4. CASE m.ver /\ (st.curr # None => m.body = Empty) /\ ChecksSum(st, m)
  <2> DEFINE s == IF st.curr = None THEN [st EXCEPT !.chksum = TRUE] ELSE st
             u == UnsetCHK(m)
  <2>1. s \in RState /\ s.curr = st.curr /\ RStateOK(s) BY Zenon DEF RState, RStateOK
  <2>2. u \in Packet BY Zenon DEF UnsetCHK, Packet
  <2>3. rprocess_request(st, m) =
          IF valid_chksum(m) THEN Sequenced(s, u)
          ELSE [ret |-> IF st.curr = None THEN "WORSE_CHK" ELSE "BAD_CHK", st |-> s]
    BY <1>4, Zenon DEF rprocess_request, Result
  <2> HIDE DEF s, u
  <2>4. CASE valid_chksum(m) BY <2>1, <2>2, <2>3, <2>4, <1>1, Zenon
  <2>5. CASE ~valid_chksum(m)
    <3>1. /\ rprocess_request(st, m).st = s
          /\ rprocess_request(st, m).ret \in {"WORSE_CHK", "BAD_CHK"}
          /\ rprocess_request(st, m).ret = "BAD_CHK" => st.curr # None
      BY <2>3, <2>5
    <3> QED BY <2>1, <3>1, Zenon DEF Good, Ret
  <2> QED BY <2>4, <2>5, Zenon
<1>5. CASE m.ver /\ (st.curr # None => m.body = Empty) /\ ~ChecksSum(st, m)
  <2>1. rprocess_request(st, m) = Sequenced(st, m)
    BY <1>5, Zenon DEF rprocess_request
  <2> QED BY <2>1, <1>1, Zenon
<1> QED BY <1>2, <1>3, <1>4, <1>5, Zenon

----------------------------------------------------------------------------
\* rprocess_request replaces the packet in flight only by an acknowledgement of
\* that packet.  A NAK puts CHK on curr once more, which changes nothing.
LEMMA ReplacedWhenAcked ==
    ASSUME NEW st \in RState, RStateOK(st), NEW m \in Packet, st.curr # None,
           rprocess_request(st, m).st.curr # st.curr
    PROVE  /\ FLAG_VALIDATE(m, "ACK") /\ ~FLAG_VALIDATE(m, "NAK")
           /\ m.ackn = st.curr.seqn
<1>0. st.curr \in Packet BY Zenon DEF RState
<1>1. SND_PKT(st, st.curr) = st.curr
  <2>1. CASE st.chksum
    <3>1. st.curr.flags \cup {"CHK"} = st.curr.flags
      BY <2>1, Zenon DEF RStateOK, FLAG_VALIDATE
    <3> QED BY <1>0, <2>1, <3>1, Zenon DEF SND_PKT, Packet
  <2>2. CASE ~st.chksum BY <2>2, Zenon DEF SND_PKT
  <2> QED BY <2>1, <2>2, Zenon
<1>2. ASSUME NEW x \in Packet PROVE INVALID_NAK(st, x).st.curr = st.curr
  <2>1. [st EXCEPT !.curr = SND_PKT(st, @)].curr = st.curr BY <1>1, Zenon DEF RState
  <2> QED BY <2>1, Zenon DEF INVALID_NAK, Result
<1>3. ASSUME NEW x \in Packet, Serve(st, x).st.curr # st.curr
      PROVE  FLAG_CHECK(x, {"ACK", "DAT"}) \/ FLAG_CHECK(x, {"ACK", "FIN"})
  <2> DEFINE A == FLAG_VALIDATE(x, "NAK") /\ st.curr # None /\ st.ack = x.ackn
             C == FLAG_CHECK(x, {"ACK", "DAT"}) /\ st.curr # None
             D == /\ FLAG_CHECK(x, {"ACK", "FIN"})
                  /\ st.curr # None
                  /\ FLAG_CHECK(UnsetCHK(st.curr), {"FIN"})
  <2> SUFFICES ASSUME ~C, ~D PROVE FALSE BY Zenon
  <2>1. CASE A
    <3>1. Serve(st, x).st = NakSeen(st) BY <2>1, Zenon DEF Serve, Result, FLAG_VALIDATE, FLAG_CHECK
    <3> QED BY <1>3, <3>1, Zenon DEF NakSeen, RState
  <2>2. CASE ~A
    <3>1. Serve(st, x) = INVALID_NAK(st, x) BY <2>2, Zenon DEF Serve
    <3> QED BY <1>2, <1>3, <3>1, Zenon
  <2> QED BY <2>1, <2>2, Zenon
<1>4. ASSUME NEW x \in Packet, Sequenced(st, x).st.curr # st.curr
      PROVE  /\ FLAG_VALIDATE(x, "ACK") /\ ~FLAG_VALIDATE(x, "NAK")
             /\ x.ackn = st.curr.seqn
  <2>1. InSequence(st, x) /\ Serve(st, x).st.curr # st.curr
    BY <1>4, Zenon DEF Sequenced, Result
  <2>2. FLAG_VALIDATE(x, "ACK") /\ ~FLAG_VALIDATE(x, "NAK")
    BY <1>3, <2>1 DEF FLAG_VALIDATE, FLAG_CHECK
  <2> QED BY <2>1, <2>2, Zenon DEF InSequence, RStateOK
<1>5. UnsetCHK(m) \in Packet /\ UnsetCHK(m).ackn = m.ackn
  BY Zenon DEF UnsetCHK, Packet
<1>6. /\ FLAG_VALIDATE(UnsetCHK(m), "ACK") <=> FLAG_VALIDATE(m, "ACK")
      /\ FLAG_VALIDATE(UnsetCHK(m), "NAK") <=> FLAG_VALIDATE(m, "NAK")
  BY Zenon DEF FLAG_VALIDATE, UnsetCHK, Packet
<1>7. CASE ~m.ver BY <1>2, <1>7, Zenon DEF rprocess_request
<1>8. CASE m.ver /\ m.body # Empty BY <1>8, Zenon DEF rprocess_request, Result
<1>9. CASE m.ver /\ m.body = Empty /\ ChecksSum(st, m)
  <2>1. rprocess_request(st, m).st.curr \in {st.curr, Sequenced(st, UnsetCHK(m)).st.curr}
    BY <1>9, Zenon DEF rprocess_request, Result
  <2>2. Sequenced(st, UnsetCHK(m)).st.curr # st.curr BY <2>1, Zenon
  <2> QED BY <1>4, <1>5, <1>6, <2>2, Zenon
<1>10. CASE m.ver /\ m.body = Empty /\ ~ChecksSum(st, m)
  <2>1. rprocess_request(st, m) = Sequenced(st, m) BY <1>10, Zenon DEF rprocess_request
  <2> QED BY <1>4, <2>1, Zenon
<1> QED BY <1>7, <1>8, <1>9, <1>10, Zenon

----------------------------------------------------------------------------
\* The steps that send, unlock, scan, clean and resend keep the invariant.

sv == <<svrVars, netVars>>

\* Faults only accumulate.
LEMMA SpendMono ==
    ASSUME NetTypeOK, NEW x \in Fault, Spend(x)
    PROVE  /\ budget' \in [Fault -> Nat]
           /\ \A y \in Fault : budget'[y] <= budget[y] /\ budget'[y] <= Budget[y]
           /\ Spent(x)'
           /\ \A y \in Fault : Spent(y) => Spent(y)'
<1>1. CASE x \in Free
  BY <1>1 DEF NetTypeOK, Spend, Spent
<1>2. CASE x \notin Free
  <2>1. budget[x] > 0 /\ budget' = [budget EXCEPT ![x] = @ - 1]
    BY <1>2, Zenon DEF Spend
  <2>2. /\ budget' \in [Fault -> Nat]
        /\ \A y \in Fault : budget'[y] <= budget[y]
        /\ budget'[x] < budget[x]
    BY <2>1 DEF NetTypeOK
  <2>3. \A y \in Fault : budget[y] \in Nat /\ budget'[y] \in Nat /\ Budget[y] \in Nat
    BY <2>2, NetAssumption, Zenon DEF NetTypeOK
  <2> QED BY <2>2, <2>3 DEF Spent, NetTypeOK
<1> QED BY <1>1, <1>2, Zenon

LEMMA InitInv == SvrInit /\ NetInit => SvrInv
<1> SUFFICES ASSUME SvrInit, NetInit PROVE SvrInv BY Zenon
<1>1. NewState \in RState /\ RStateOK(NewState)
  BY HdrAssumption, NoneAssumption DEF NewState, RState, RStateOK, Con
<1>2. SvrTypeOK
  BY <1>1, ServAssumption DEF SvrInit, SvrTypeOK, Scan, Idle, Age, MainAt
<1>3. NetTypeOK
  <2>1. /\ budget \in Budgets
        /\ budget \in [Fault -> Nat] /\ \A x \in Fault : budget[x] <= Budget[x]
    BY NetAssumption, Zenon DEF NetInit
  <2> QED BY <2>1, NetAssumption, Zenon DEF NetInit, NetTypeOK
<1>4. RuntCounted BY NetAssumption, Zenon DEF SvrInit, NetInit, RuntCounted, Scan
<1> QED
  BY <1>1, <1>2, <1>3, <1>4, Zenon
  DEF SvrInit, SvrInv, OwnerHolds, OneOwner, HeldByOwner, UnknownFree,
      PartialLocked, ActiveHasCurr, ServedHasCurr, CleanedIdle, StatesOK,
      MainKnows, Idle, Scan

\* Steps of a csock_send thread.
LEMMA SendInv ==
    ASSUME SvrInv, NEW t \in Threads, csock_send(t)
    PROVE  SvrInv'
<1> DEFINE p == th[t].p
<1> USE DEF SvrInv
<1>1. th[t].pc = "run" /\ p \in known /\ p \in Ports /\ lock[p]
  BY Zenon DEF csock_send, OwnerHolds, SvrTypeOK
<1>2. /\ th' \in [Threads -> [pc : {"idle", "run", "unlock"},
                              p : Ports \cup {None}, off : BOOLEAN]]
      /\ \A u \in Threads : th'[u].p = th[u].p /\ (th'[u].pc = "idle" <=> th[u].pc = "idle")
      /\ \A u \in Threads : th[u].pc = "idle" => th'[u] = th[u]
  <2>1. th \in [Threads -> [pc : {"idle", "run", "unlock"},
                           p : Ports \cup {None}, off : BOOLEAN]]
    BY Zenon DEF SvrTypeOK
  <2>2. CASE ona[p]
    <3> DEFINE b == FLAG_CHECK(UnsetCHK(state[p].curr), {"FIN", "ACK"})
    <3>1. b \in BOOLEAN BY Zenon DEF FLAG_CHECK
    <3>2. th' = [th EXCEPT ![t].pc = "unlock", ![t].off = b] BY <2>2, Zenon DEF csock_send
    <3> HIDE DEF b
    <3> QED BY <1>1, <2>1, <3>1, <3>2, Zenon
  <2>3. CASE ~ona[p]
    <3>1. th' = [th EXCEPT ![t].pc = "unlock"] BY <2>3, Zenon DEF csock_send
    <3> QED BY <1>1, <2>1, <3>1, Zenon
  <2> QED BY <2>2, <2>3, Zenon
<1>3. s2c' \in [Ports -> SUBSET Packet]
  <2>1. CASE ona[p]
    <3>1. state[p].curr \in Packet
      BY <1>1, <2>1, Zenon DEF ServedHasCurr, SvrTypeOK, RState
    <3>2. s2c' = [s2c EXCEPT ![p] = Put(@, state[p].curr)]
      BY <2>1, Zenon DEF csock_send
    <3> QED BY <3>1, <3>2, <1>1, Zenon DEF NetTypeOK, Put
  <2>2. CASE ~ona[p] BY <2>2, Zenon DEF csock_send, NetTypeOK
  <2> QED BY <2>1, <2>2, Zenon
<1>4. UNCHANGED <<known, state, ona, clr, lock, partial, his, mys, main, c2s, budget>>
  BY Zenon DEF csock_send
<1>5. SvrTypeOK' BY <1>2, <1>4, Zenon DEF SvrTypeOK
<1>6. NetTypeOK' BY <1>3, <1>4, Zenon DEF NetTypeOK
<1>7. OwnerHolds' /\ OneOwner' /\ HeldByOwner' /\ UnknownFree'
  BY <1>2, <1>4 DEF OwnerHolds, OneOwner, HeldByOwner, UnknownFree, Serving, Faulted, Spent
<1>8. PartialLocked' /\ ActiveHasCurr' /\ ServedHasCurr' /\ CleanedIdle'
  BY <1>2, <1>4 DEF PartialLocked, ActiveHasCurr, ServedHasCurr, CleanedIdle,
       Serving, Entering
<1>9. StatesOK' /\ MainKnows' /\ RuntCounted'
  BY <1>4, Zenon DEF StatesOK, MainKnows, RuntCounted, Spent
<1> QED BY <1>5, <1>6, <1>7, <1>8, <1>9, Zenon

LEMMA UnlockInv ==
    ASSUME SvrInv, NEW t \in Threads, csock_unlock(t)
    PROVE  SvrInv'
<1> DEFINE p == th[t].p
<1> USE DEF SvrInv
<1>1. th[t].pc = "unlock" /\ p \in known /\ p \in Ports /\ lock[p]
  BY Zenon DEF csock_unlock, OwnerHolds, SvrTypeOK
<1>2. /\ th' \in [Threads -> [pc : {"idle", "run", "unlock"},
                              p : Ports \cup {None}, off : BOOLEAN]]
      /\ th'[t] = Idle
      /\ \A u \in Threads : u # t => th'[u] = th[u]
      /\ \A u \in Threads : u # t /\ th[u].pc # "idle" => th[u].p # p
  BY <1>1, Zenon DEF csock_unlock, SvrTypeOK, Idle, OneOwner
<1>3. /\ lock' \in [Ports -> BOOLEAN] /\ ~lock'[p]
      /\ \A q \in Ports : q # p => lock'[q] = lock[q]
  BY <1>1, Zenon DEF csock_unlock, SvrTypeOK
<1>4. /\ ona' \in [Ports -> BOOLEAN]
      /\ \A q \in Ports : ona'[q] => ona[q]
  BY <1>1, Zenon DEF csock_unlock, SvrTypeOK
<1>5. UNCHANGED <<known, state, clr, partial, his, mys, main, c2s, s2c, budget>>
  BY Zenon DEF csock_unlock, netVars
<1>6. SvrTypeOK' /\ NetTypeOK' BY <1>2, <1>3, <1>4, <1>5, Zenon DEF SvrTypeOK, NetTypeOK
<1>7. OwnerHolds' /\ OneOwner' /\ UnknownFree'
  <2>1. OwnerHolds' BY <1>1, <1>2, <1>3, <1>5 DEF OwnerHolds, Idle, SvrTypeOK
  <2>2. OneOwner'
    BY <1>2, ServAssumption DEF OneOwner, Idle, OwnerHolds, SvrTypeOK
  <2>3. UnknownFree' BY <1>3, <1>5, Zenon DEF UnknownFree
  <2> QED BY <2>1, <2>2, <2>3, Zenon
<1>8. HeldByOwner'
  BY <1>1, <1>2, <1>3, <1>5 DEF HeldByOwner, Serving, Faulted, Spent, SvrTypeOK
<1>9. PartialLocked'
  <2>1. p \notin partial BY <1>1, Zenon DEF PartialLocked, Serving
  <2> QED BY <2>1, <1>2, <1>3, <1>5 DEF PartialLocked, Serving, Entering, Idle, SvrTypeOK
<1>10. ActiveHasCurr' /\ ServedHasCurr' /\ CleanedIdle'
  <2>1. known \subseteq Ports BY Zenon DEF SvrTypeOK
  <2>2. ActiveHasCurr' BY <1>4, <1>5, <2>1, Zenon DEF ActiveHasCurr, Entering
  <2>3. ServedHasCurr'
    <3>1. SUFFICES ASSUME NEW u \in Threads, th'[u].pc # "idle", ona'[th'[u].p]
                   PROVE  state'[th'[u].p].curr # None
      BY Zenon DEF ServedHasCurr
    <3>2. u # t BY <1>2, <3>1 DEF Idle
    <3>3. th'[u] = th[u] BY <1>2, <3>2, Zenon
    <3>4. th[u].p \in Ports BY <2>1, <3>1, <3>3, Zenon DEF OwnerHolds
    <3> QED BY <1>4, <1>5, <3>1, <3>3, <3>4, Zenon DEF ServedHasCurr
  <2>4. CleanedIdle'
    BY <1>1, <1>3, <1>4, <1>5, <2>1, Zenon DEF CleanedIdle
  <2> QED BY <2>2, <2>3, <2>4, Zenon
<1>11. StatesOK' /\ MainKnows' /\ RuntCounted'
  BY <1>4, <1>5, Zenon DEF StatesOK, MainKnows, RuntCounted, Spent, SvrTypeOK
<1> QED BY <1>6, <1>7, <1>8, <1>9, <1>10, <1>11, Zenon

----------------------------------------------------------------------------
\* Starting a csock_send thread for a port that none serves.
LEMMA SpawnFacts ==
    ASSUME SvrInv, NEW p \in Ports, \A t \in Threads : ~Serving(t, p), Spawn(p)
    PROVE  /\ th' \in [Threads -> [pc : {"idle", "run", "unlock"},
                                   p : Ports \cup {None}, off : BOOLEAN]]
           /\ \A u \in Threads : th[u].pc # "idle" => th'[u] = th[u] /\ th[u].p # p
           /\ \A u \in Threads : th'[u].pc # "idle" => th'[u] = th[u] \/ th'[u].p = p
           /\ \A u \in Threads : th'[u].pc = "idle" => th'[u] = Idle
           /\ OneOwner'
           /\ (\E u \in Threads : Serving(u, p)') \/ Spent("create")'
           /\ budget' \in [Fault -> Nat]
           /\ \A y \in Fault : budget'[y] <= budget[y] /\ budget'[y] <= Budget[y]
           /\ \A y \in Fault : Spent(y) => Spent(y)'
<1> USE DEF SvrInv
<1>1. ASSUME NEW t \in Threads, th[t] = Idle, UNCHANGED budget,
             th' = [th EXCEPT ![t] = [pc |-> "run", p |-> p, off |-> FALSE]]
      PROVE  /\ th' \in [Threads -> [pc : {"idle", "run", "unlock"},
                                     p : Ports \cup {None}, off : BOOLEAN]]
             /\ \A u \in Threads : th[u].pc # "idle" => th'[u] = th[u] /\ th[u].p # p
             /\ \A u \in Threads : th'[u].pc # "idle" => th'[u] = th[u] \/ th'[u].p = p
             /\ \A u \in Threads : th'[u].pc = "idle" => th'[u] = Idle
             /\ OneOwner'
             /\ Serving(t, p)'
  <2>1. /\ th'[t] = [pc |-> "run", p |-> p, off |-> FALSE]
        /\ \A u \in Threads : u # t => th'[u] = th[u]
        /\ th' \in [Threads -> [pc : {"idle", "run", "unlock"},
                                p : Ports \cup {None}, off : BOOLEAN]]
    BY <1>1, Zenon DEF SvrTypeOK
  <2>2. \A u \in Threads : th[u].p # p
    BY ServAssumption DEF OwnerHolds, Serving, Idle
  <2>3. OneOwner' BY <2>1, <2>2 DEF OneOwner
  <2>4. \A u \in Threads : th[u].pc # "idle" => u # t BY <1>1 DEF Idle
  <2>5. \A u \in Threads : th'[u].pc = "idle" => th'[u] = Idle
    BY <2>1 DEF OwnerHolds
  <2>6. Serving(t, p)' BY <2>1 DEF Serving
  <2> QED BY <2>1, <2>2, <2>3, <2>4, <2>5, <2>6
<1>2. CASE Spend("create") /\ UNCHANGED th
  <2>1. "create" \in Fault BY Zenon DEF Fault
  <2> QED BY <1>2, <2>1, SpendMono, Zenon DEF SvrTypeOK, OwnerHolds, OneOwner, Serving
<1>3. CASE \E t \in Threads : /\ th[t] = Idle /\ UNCHANGED budget
                              /\ th' = [th EXCEPT ![t] = [pc |-> "run", p |-> p, off |-> FALSE]]
  <2>1. UNCHANGED budget BY <1>3, Zenon
  <2>2. /\ budget' \in [Fault -> Nat]
        /\ \A y \in Fault : budget'[y] <= budget[y] /\ budget'[y] <= Budget[y]
        /\ \A y \in Fault : Spent(y) => Spent(y)'
    BY <2>1 DEF NetTypeOK, Spent
  <2> QED BY Zenon, <1>1, <1>3, <2>2
<1> QED BY <1>2, <1>3, Zenon DEF Spawn

\* Steps of the main thread that change only where it is.
LEMMA ScanInv ==
    ASSUME SvrInv, (\E p \in Ports : ScanPort(p)) \/ ScanDone \/ RecvNone
    PROVE  SvrInv'
<1> USE DEF SvrInv
<1> DEFINE MainType == [pc : MainAt, todo : SUBSET Ports, p : Ports \cup {None},
                        m : Packet \cup {Runt, None}, old : Age \cup {None},
                        fresh : BOOLEAN]
<1>1. UNCHANGED <<known, state, ona, clr, lock, partial, his, mys, th, c2s, s2c, budget>>
  BY Zenon DEF ScanPort, ScanDone, RecvNone, netVars
<1>a. main \in MainType /\ main.todo \subseteq known /\ known \subseteq Ports
  BY Zenon DEF SvrTypeOK, MainKnows
<1>b. ASSUME NEW p \in Ports, ScanPort(p)
      PROVE  /\ main' \in MainType /\ main.pc # "lock" /\ main'.pc # "lock"
             /\ main'.m = main.m \/ main'.m = None
             /\ main'.todo \subseteq known
             /\ main'.pc \in {"clean", "resend"} => main'.p \in known /\ ~clr[main'.p]
             /\ main'.pc = "clean" => ~ona[main'.p]
  <2> DEFINE c == CASE ~ona[p] /\ ~clr[p] -> "clean"
                    [] ona[p] /\ ~clr[p] /\ mys[p] >= MAX_TIMEOUT -> "resend"
                    [] OTHER -> "scan"
  <2>1. /\ c \in {"clean", "resend", "scan"}
        /\ c = "clean" => ~ona[p] /\ ~clr[p]
        /\ c = "resend" => ~clr[p]
    BY Zenon
  <2>2. main.pc = "scan" /\ p \in main.todo BY Zenon, <1>b DEF ScanPort
  <2>3. main' = [main EXCEPT !.todo = @ \ {p}, !.p = p, !.pc = c]
    BY Zenon, <1>b DEF ScanPort
  <2> HIDE DEF c
  <2>4. /\ main'.pc = c /\ main'.p = p /\ main'.m = main.m
        /\ main'.todo = main.todo \ {p} /\ main' \in MainType
    BY Zenon, <1>a, <2>1, <2>3 DEF MainAt
  <2> QED BY <1>a, <2>1, <2>2, <2>4, Zenon
<1>c. ASSUME ScanDone \/ RecvNone
      PROVE  /\ main' \in MainType /\ main.pc # "lock" /\ main'.pc \in {"recv", "scan"}
             /\ main'.m = main.m \/ main'.m = None
             /\ main'.todo \subseteq known
  <2>1. CASE ScanDone
    BY Zenon, <1>a, <2>1 DEF ScanDone, MainAt
  <2>2. CASE RecvNone
    BY <1>a, <2>2, Zenon DEF RecvNone, MainAt, Scan
  <2> QED BY <1>c, <2>1, <2>2, Zenon
<1>2. main.pc # "lock" /\ main'.pc # "lock" BY <1>b, <1>c, Zenon
<1>3. main' \in MainType BY <1>b, <1>c, Zenon
<1>4. MainKnows' BY <1>1, <1>b, <1>c, Zenon DEF MainKnows
<1>5. main'.m = main.m \/ main'.m = None BY <1>b, <1>c, Zenon
<1>6. SvrTypeOK' /\ NetTypeOK' BY <1>1, <1>3, Zenon DEF SvrTypeOK, NetTypeOK
<1>7. OwnerHolds' /\ OneOwner' /\ HeldByOwner' /\ UnknownFree'
  BY <1>1, Zenon DEF OwnerHolds, OneOwner, HeldByOwner, UnknownFree, Serving, Faulted, Spent
<1>8. PartialLocked' /\ ActiveHasCurr' /\ ServedHasCurr' /\ CleanedIdle' /\ StatesOK'
  BY <1>1, <1>2, Zenon DEF PartialLocked, ActiveHasCurr, ServedHasCurr, CleanedIdle,
       StatesOK, Serving, Entering
<1>9. RuntCounted' BY <1>1, <1>5, NetAssumption, Zenon DEF RuntCounted, Spent
<1> QED BY <1>4, <1>6, <1>7, <1>8, <1>9, Zenon

LEMMA CleanInv ==
    ASSUME SvrInv, Clean
    PROVE  SvrInv'
<1> DEFINE p == main.p
<1> USE DEF SvrInv
<1>1. p \in known /\ p \in Ports /\ ~clr[p] /\ ~ona[p] /\ main.pc = "clean"
  BY Zenon DEF Clean, MainKnows, SvrTypeOK
<1>2. UNCHANGED <<known, lock, partial, his, mys, th, c2s, s2c, budget>>
  BY Zenon DEF Clean, netVars
<1>3. main' = Scan(main.todo) BY Zenon DEF Clean
<1>4. MainKnows' /\ RuntCounted'
  BY <1>2, <1>3, NetAssumption, Zenon DEF MainKnows, RuntCounted, Spent, Scan
<1>5. NetTypeOK' BY <1>2, Zenon DEF NetTypeOK
<1>6. main' \in [pc : MainAt, todo : SUBSET Ports, p : Ports \cup {None},
                 m : Packet \cup {Runt, None}, old : Age \cup {None}, fresh : BOOLEAN]
  BY <1>3, Zenon DEF SvrTypeOK, Scan, MainAt
<1>7. OwnerHolds' /\ OneOwner' /\ HeldByOwner' /\ UnknownFree'
  BY <1>2, Zenon DEF OwnerHolds, OneOwner, HeldByOwner, UnknownFree, Serving, Faulted, Spent
<1>8. \A q : ~Entering(q) /\ ~Entering(q)' BY <1>1, <1>3, Zenon DEF Entering, Scan
<1>9. PartialLocked' BY <1>2, <1>8, Zenon DEF PartialLocked, Serving
<1>10. CASE lock[p]
  <2>1. UNCHANGED <<state, ona, clr>> BY <1>10, Zenon DEF Clean
  <2>2. SvrTypeOK' BY <1>2, <1>6, <2>1, Zenon DEF SvrTypeOK
  <2>3. ActiveHasCurr' /\ ServedHasCurr' /\ CleanedIdle' /\ StatesOK'
    BY <1>2, <1>8, <2>1, Zenon DEF ActiveHasCurr, ServedHasCurr, CleanedIdle, StatesOK
  <2> QED BY <1>4, <1>5, <1>7, <1>9, <2>2, <2>3, Zenon
<1>11. CASE ~lock[p]
  <2>1. /\ state' = [state EXCEPT ![p] = rstate_destroy(@)]
        /\ ona' = [ona EXCEPT ![p] = FALSE]
        /\ clr' = [clr EXCEPT ![p] = TRUE]
    BY <1>11, Zenon DEF Clean
  <2>2. /\ rstate_destroy(state[p]) \in RState
        /\ RStateOK(rstate_destroy(state[p]))
        /\ rstate_destroy(state[p]).curr = None
    BY HdrAssumption DEF rstate_destroy, RState, RStateOK, Con
  <2>3. SvrTypeOK' BY <1>1, <1>2, <1>6, <2>1, <2>2, Zenon DEF SvrTypeOK
  <2>4. StatesOK' BY <1>1, <2>1, <2>2, Zenon DEF StatesOK, SvrTypeOK
  <2>5. ~ona'[p] /\ state'[p].curr = None
    BY <1>1, <2>1, <2>2, Zenon DEF SvrTypeOK
  <2>6. \A q \in Ports : q # p =>
          ona'[q] = ona[q] /\ clr'[q] = clr[q] /\ state'[q] = state[q]
    BY <2>1, Zenon DEF SvrTypeOK
  <2>7. known \subseteq Ports BY Zenon DEF SvrTypeOK
  <2>8. ActiveHasCurr' BY <1>2, <1>8, <2>5, <2>6, <2>7, Zenon DEF ActiveHasCurr
  <2>9. ServedHasCurr'
    BY <1>2, <2>5, <2>6, <2>7, Zenon DEF ServedHasCurr, OwnerHolds
  <2>10. CleanedIdle'
    <3>1. SUFFICES ASSUME NEW q \in known, clr'[q]
                   PROVE  ~ona'[q] /\ ~lock[q] /\ state'[q].curr = None
      BY <1>2, Zenon DEF CleanedIdle
    <3> QED BY <1>2, <1>11, <2>5, <2>6, <2>7, <3>1, Zenon DEF CleanedIdle
  <2> QED BY <1>4, <1>5, <1>7, <1>9, <2>3, <2>4, <2>8, <2>9, <2>10, Zenon
<1> QED BY <1>10, <1>11, Zenon

LEMMA ResendInv ==
    ASSUME SvrInv, Resend
    PROVE  SvrInv'
<1> USE DEF SvrInv
<1>0. main.p \in known /\ main.p \in Ports /\ ~clr[main.p] /\ main.pc = "resend"
  BY Zenon DEF Resend, MainKnows, SvrTypeOK
<1> PICK p \in Ports : main.p = p BY <1>0, Zenon
<1>1. p \in known /\ p \in Ports /\ ~clr[p] /\ main.pc = "resend" BY <1>0, Zenon
<1>2. UNCHANGED <<known, state, clr, partial, his, c2s, s2c>>
  BY Zenon DEF Resend
<1>3. main' = Scan(main.todo) BY Zenon DEF Resend
<1>4. main' \in [pc : MainAt, todo : SUBSET Ports, p : Ports \cup {None},
                 m : Packet \cup {Runt, None}, old : Age \cup {None}, fresh : BOOLEAN]
  BY <1>3, Zenon DEF SvrTypeOK, Scan, MainAt
<1>5. \A q : ~Entering(q) /\ ~Entering(q)' BY <1>1, <1>3, Zenon DEF Entering, Scan
<1>6. MainKnows' BY <1>2, <1>3, Zenon DEF MainKnows, Scan
<1>7. StatesOK' BY <1>2, Zenon DEF StatesOK
<1>8. CASE lock[p]
  <2>1. UNCHANGED <<ona, lock, mys, th, budget>> BY <1>8, Zenon DEF Resend
  <2>2. SvrTypeOK' /\ NetTypeOK' BY <1>2, <1>4, <2>1, Zenon DEF SvrTypeOK, NetTypeOK
  <2>3. OwnerHolds' /\ OneOwner' /\ HeldByOwner' /\ UnknownFree'
    BY <1>2, <2>1, Zenon DEF OwnerHolds, OneOwner, HeldByOwner, UnknownFree, Serving, Faulted, Spent
  <2>4. PartialLocked' /\ ActiveHasCurr' /\ ServedHasCurr' /\ CleanedIdle'
    BY <1>2, <1>5, <2>1, Zenon DEF PartialLocked, ActiveHasCurr, ServedHasCurr, CleanedIdle, Serving
  <2>5. RuntCounted' BY <1>2, <1>3, <2>1, NetAssumption, Zenon DEF RuntCounted, Spent, Scan
  <2> QED BY <1>6, <1>7, <2>2, <2>3, <2>4, <2>5, Zenon
<1>9. CASE ~lock[p]
  <2>1. /\ ona' = [ona EXCEPT ![p] = @ /\ his[p] < DEAD_TIMEOUT]
        /\ mys' = [mys EXCEPT ![p] = 0]
        /\ lock' = [lock EXCEPT ![p] = TRUE]
        /\ Spawn(p)
    BY <1>9, Zenon DEF Resend, Spawn
  <2>2. \A t \in Threads : ~Serving(t, p) BY <1>9, Zenon DEF OwnerHolds, Serving
  <2>3. /\ th' \in [Threads -> [pc : {"idle", "run", "unlock"},
                                p : Ports \cup {None}, off : BOOLEAN]]
        /\ \A u \in Threads : th[u].pc # "idle" => th'[u] = th[u] /\ th[u].p # p
        /\ \A u \in Threads : th'[u].pc # "idle" => th'[u] = th[u] \/ th'[u].p = p
        /\ \A u \in Threads : th'[u].pc = "idle" => th'[u] = Idle
        /\ OneOwner'
        /\ (\E u \in Threads : Serving(u, p)') \/ Spent("create")'
        /\ budget' \in [Fault -> Nat]
        /\ \A y \in Fault : budget'[y] <= budget[y] /\ budget'[y] <= Budget[y]
        /\ \A y \in Fault : Spent(y) => Spent(y)'
    BY <1>1, <2>1, <2>2, SpawnFacts, Zenon
  <2>4. /\ lock' \in [Ports -> BOOLEAN] /\ lock'[p]
        /\ \A q \in Ports : q # p => lock'[q] = lock[q]
        /\ ona' \in [Ports -> BOOLEAN]
        /\ \A q \in Ports : ona'[q] => ona[q]
    BY <1>1, <2>1, Zenon DEF SvrTypeOK
  <2>5. mys' \in [Ports -> Age]
    BY <1>1, <2>1, ServAssumption DEF SvrTypeOK, Age
  <2>6. SvrTypeOK' BY <1>2, <1>4, <2>3, <2>4, <2>5, Zenon DEF SvrTypeOK
  <2>7. NetTypeOK' BY <1>2, <2>3, Zenon DEF NetTypeOK
  <2>8. "create" \in Fault /\ "runt" \in Fault BY Zenon DEF Fault
  <2>9. OwnerHolds'
    BY <1>1, <1>2, <2>3, <2>4 DEF OwnerHolds, SvrTypeOK
  <2>10. HeldByOwner'
    BY <1>1, <1>2, <2>3, <2>4, <2>8 DEF HeldByOwner, Serving, Faulted, SvrTypeOK
  <2>11. UnknownFree' BY <1>1, <1>2, <2>4, Zenon DEF UnknownFree
  <2>12. p \notin partial BY <1>5, <1>9, Zenon DEF PartialLocked
  <2>13. PartialLocked'
    BY <1>2, <1>5, <2>3, <2>4, <2>12 DEF PartialLocked, Serving, SvrTypeOK
  <2>14. ona[p] => state[p].curr # None
    BY <1>1, <1>5, <2>12, Zenon DEF ActiveHasCurr
  <2>15. ActiveHasCurr' /\ CleanedIdle'
    BY <1>1, <1>2, <1>5, <2>4, Zenon DEF ActiveHasCurr, CleanedIdle, SvrTypeOK
  <2>16. ServedHasCurr'
    BY <1>1, <1>2, <2>3, <2>4, <2>14 DEF ServedHasCurr, SvrTypeOK, OwnerHolds
  <2>17. RuntCounted'
    BY <1>2, <1>3, <2>3, <2>8, NetAssumption, Zenon DEF RuntCounted, Scan
  <2> QED BY <1>6, <1>7, <2>3, <2>6, <2>7, <2>9, <2>10, <2>11, <2>13, <2>15, <2>16, <2>17, Zenon
<1> QED BY Zenon, <1>8, <1>9

----------------------------------------------------------------------------
\* The steps that take a packet in and process it under the lock keep it.

\* recvfrom and the part of rhandle_port before the lock.
LEMMA TakeFacts ==
    ASSUME SvrInv, NEW p \in Ports, NEW m \in c2s[p], TakeC2S(p, m)
    PROVE  /\ m \in Packet \cup {Runt}
           /\ c2s' \in [Ports -> SUBSET (Packet \cup {Runt})]
           /\ \A q \in Ports : c2s'[q] \subseteq c2s[q]
           /\ budget' \in [Fault -> Nat]
           /\ \A y \in Fault : budget'[y] <= budget[y] /\ budget'[y] <= Budget[y]
           /\ \A y \in Fault : Spent(y) => Spent(y)'
<1> USE DEF SvrInv
<1>1. m \in Packet \cup {Runt} BY Zenon DEF NetTypeOK
<1>2. CASE c2s' = [c2s EXCEPT ![p] = @ \ {m}] /\ UNCHANGED budget
  BY <1>1, <1>2 DEF NetTypeOK, Spent
<1>3. CASE Spend("dup") /\ UNCHANGED c2s
  <2>1. "dup" \in Fault BY Zenon DEF Fault
  <2> QED BY <1>1, <1>3, <2>1, SpendMono, Zenon DEF NetTypeOK
<1> QED BY <1>2, <1>3, Zenon DEF TakeC2S

LEMMA ArriveInv ==
    ASSUME SvrInv, NEW p \in Ports, NEW m \in c2s[p], rhandle_port(p, m)
    PROVE  SvrInv'
<1> USE DEF SvrInv
<1>1. /\ m \in Packet \cup {Runt}
      /\ c2s' \in [Ports -> SUBSET (Packet \cup {Runt})]
      /\ \A q \in Ports : c2s'[q] \subseteq c2s[q]
      /\ budget' \in [Fault -> Nat]
      /\ \A y \in Fault : budget'[y] <= budget[y] /\ budget'[y] <= Budget[y]
      /\ \A y \in Fault : Spent(y) => Spent(y)'
  BY TakeFacts, Zenon DEF rhandle_port
<1>2. /\ main.pc = "recv" /\ (m = Runt => p \notin known \/ p \in partial)
      /\ known' = known \cup {p}
      /\ UNCHANGED <<th, s2c>>
  BY Zenon DEF rhandle_port
<1>3. /\ his' \in [Ports -> Age] /\ mys' \in [Ports -> Age]
  BY ServAssumption DEF rhandle_port, SvrTypeOK, Age
<1>4. /\ main'.pc = "lock" /\ main'.p = p /\ main'.m = m /\ main'.todo = main.todo
      /\ main' \in [pc : MainAt, todo : SUBSET Ports, p : Ports \cup {None},
                    m : Packet \cup {Runt, None}, old : Age \cup {None}, fresh : BOOLEAN]
  <2> DEFINE o == IF p \in known THEN his[p] ELSE None
             f == \A q \in known : AddrOf[q] # AddrOf[p]
  <2>1. o \in Age \cup {None} /\ f \in BOOLEAN BY Zenon DEF SvrTypeOK
  <2>2. main' = [main EXCEPT !.pc = "lock", !.p = p, !.m = m, !.old = o, !.fresh = f]
    BY Zenon DEF rhandle_port
  <2> HIDE DEF o, f
  <2> QED BY Zenon, <1>1, <2>1, <2>2 DEF SvrTypeOK, MainAt
<1>5. /\ partial' \subseteq Ports
      /\ p \in partial' <=> m = Runt
      /\ \A q \in Ports : q # p => (q \in partial' <=> q \in partial)
  BY Zenon DEF rhandle_port, SvrTypeOK
<1>6. /\ clr' \in [Ports -> BOOLEAN] /\ ~clr'[p]
      /\ \A q \in Ports : q # p => clr'[q] = clr[q]
      /\ ona' \in [Ports -> BOOLEAN]
      /\ ona'[p] = (ona[p] \/ clr[p] \/ p \notin known)
      /\ \A q \in Ports : q # p => ona'[q] = ona[q]
      /\ lock' \in [Ports -> BOOLEAN]
      /\ lock'[p] = (lock[p] /\ p \in known)
      /\ \A q \in Ports : q # p => lock'[q] = lock[q]
  BY Zenon DEF rhandle_port, SvrTypeOK
<1>7. lock' = lock
  BY <1>6 DEF UnknownFree, SvrTypeOK
<1>8. /\ state' \in [Ports -> RState] /\ StatesOK'
      /\ \A q \in Ports : q # p => state'[q] = state[q]
      /\ p \in known /\ ~clr[p] => state'[p] = state[p]
  <2> DEFINE s == CASE p \notin known -> NewState
                    [] p \in known /\ clr[p] -> RSTATE_INIT(state[p])
                    [] OTHER -> state[p]
  <2>1. NewState \in RState /\ RStateOK(NewState)
    BY HdrAssumption, NoneAssumption DEF NewState, RState, RStateOK, Con
  <2>2. CASE p \notin known
    <3>1. s = NewState BY <2>2, Zenon
    <3>2. state' = [state EXCEPT ![p] = NewState] BY Zenon, <2>2, <3>1 DEF rhandle_port
    <3> QED BY <2>1, <2>2, <3>2, Zenon DEF SvrTypeOK, StatesOK
  <2>3. CASE p \in known /\ clr[p]
    <3>1. state' = [state EXCEPT ![p] = RSTATE_INIT(@)] BY <2>3, Zenon DEF rhandle_port
    <3>2. state[p] \in RState /\ RStateOK(state[p]) /\ state[p].curr = None
      BY <2>3, Zenon DEF SvrTypeOK, StatesOK, CleanedIdle
    <3>3. RSTATE_INIT(state[p]) \in RState /\ RStateOK(RSTATE_INIT(state[p]))
      BY <3>2, HdrAssumption DEF RSTATE_INIT, RState, RStateOK, Con
    <3> QED BY <2>3, <3>1, <3>3, Zenon DEF SvrTypeOK, StatesOK
  <2>4. CASE p \in known /\ ~clr[p]
    <3>1. state' = [state EXCEPT ![p] = @] BY <2>4, Zenon DEF rhandle_port
    <3> QED BY <3>1, Zenon DEF SvrTypeOK, StatesOK
  <2> QED BY <2>2, <2>3, <2>4, Zenon
<1>9. SvrTypeOK' BY Zenon, <1>2, <1>3, <1>4, <1>5, <1>6, <1>8 DEF SvrTypeOK
<1>10. NetTypeOK' BY <1>1, <1>2, Zenon DEF NetTypeOK
<1>11. OwnerHolds' /\ OneOwner' /\ UnknownFree'
  BY <1>2, <1>5, <1>7, Zenon DEF OwnerHolds, OneOwner, UnknownFree, SvrTypeOK
<1>12. HeldByOwner'
  <2>1. "create" \in Fault /\ "runt" \in Fault BY Zenon DEF Fault
  <2> QED BY <1>1, <1>2, <1>7, <2>1, Zenon DEF HeldByOwner, UnknownFree, Serving, Faulted
<1>13. \A q \in Ports : /\ Entering(q)' <=> q = p
                        /\ ~Entering(q)
  BY <1>2, <1>4, Zenon DEF Entering
<1>14. PartialLocked'
  <2>1. m = Runt => \A t \in Threads : ~Serving(t, p)
    BY <1>2, Zenon DEF PartialLocked, OwnerHolds, Serving
  <2> QED BY <1>2, <1>5, <1>7, <1>13, <2>1, Zenon DEF PartialLocked, Serving, SvrTypeOK
<1>15. ActiveHasCurr'
  <2>1. known \subseteq Ports BY Zenon DEF SvrTypeOK
  <2> QED BY <1>2, <1>5, <1>6, <1>8, <1>13, <2>1, Zenon DEF ActiveHasCurr
<1>16. ServedHasCurr'
  <2>1. ASSUME NEW t \in Threads, th[t].pc # "idle", th[t].p = p
        PROVE  p \in known /\ ~clr[p]
    BY Zenon, <2>1 DEF OwnerHolds, CleanedIdle
  <2> QED BY <1>2, <1>6, <1>8, <2>1 DEF ServedHasCurr, OwnerHolds, SvrTypeOK
<1>17. CleanedIdle'
  BY <1>2, <1>6, <1>7, <1>8 DEF CleanedIdle, SvrTypeOK
<1>18. MainKnows'
  BY <1>1, <1>2, <1>4, <1>5, <1>6, NetAssumption, NoneAssumption, Zenon DEF MainKnows
<1>19. RuntCounted'
  <2>1. "runt" \in Fault BY Zenon DEF Fault
  <2> QED BY <1>1, <1>4, <2>1, Zenon DEF RuntCounted
<1> QED
  BY Zenon, <1>8, <1>9, <1>10, <1>11, <1>12, <1>14, <1>15, <1>16, <1>17, <1>18, <1>19

\* rhandle_port from pthread_mutex_lock on.  Nobody serves the port when the
\* lock is free, so the packet is processed alone; what is left of the port on
\* each way out of the function is what the other parts of the invariant need.
LEMMA LockedInv ==
    ASSUME SvrInv, rhandle_locked
    PROVE  SvrInv'
<1> USE DEF SvrInv
<1>0. main.p \in known /\ main.p \in Ports /\ ~clr[main.p] /\ main.pc = "lock" /\ ~lock[main.p]
  BY Zenon DEF rhandle_locked, MainKnows, SvrTypeOK
<1> PICK p \in Ports : main.p = p BY <1>0, Zenon
<1>1. p \in known /\ ~clr[p] /\ main.pc = "lock" /\ ~lock[p] BY <1>0, Zenon
<1>2. \A t \in Threads : ~Serving(t, p) BY <1>1, Zenon DEF OwnerHolds, Serving
<1>3. main.m \in Packet \cup {Runt} /\ (main.m = Runt <=> p \in partial)
  BY <1>1, Zenon DEF MainKnows, SvrTypeOK
<1>4. main' = Scan(known') /\ UNCHANGED <<clr, partial, c2s, s2c>>
  BY Zenon DEF rhandle_locked
<1>5. \A q \in Ports : ~Entering(q)' /\ (Entering(q) <=> q = p)
  BY <1>1, <1>4, Zenon DEF Entering, Scan
<1>6. MainKnows' BY <1>4, Zenon DEF MainKnows, Scan
<1>7. ASSUME known' \subseteq Ports
      PROVE  main' \in [pc : MainAt, todo : SUBSET Ports, p : Ports \cup {None},
                        m : Packet \cup {Runt, None}, old : Age \cup {None}, fresh : BOOLEAN]
  BY <1>4, <1>7, Zenon DEF Scan, MainAt
<1>8. "create" \in Fault /\ "runt" \in Fault BY DEF Fault
<1>9. CASE main.m = Runt
  <2>1. /\ lock' = [lock EXCEPT ![p] = TRUE]
        /\ UNCHANGED <<known, state, ona, his, mys, th, budget>>
    BY <1>9, Zenon DEF rhandle_locked
  <2>2. SvrTypeOK' /\ NetTypeOK' BY <1>4, <1>7, <2>1, Zenon DEF SvrTypeOK, NetTypeOK
  <2>3. /\ lock'[p]
        /\ \A q \in Ports : q # p => lock'[q] = lock[q]
    BY <2>1, Zenon DEF SvrTypeOK
  <2>4. OwnerHolds' /\ OneOwner' /\ UnknownFree'
    BY <1>1, <1>4, <2>1, <2>3 DEF OwnerHolds, OneOwner, UnknownFree, SvrTypeOK
  <2>5. HeldByOwner'
    <3>1. Spent("runt") BY <1>9, Zenon DEF RuntCounted
    <3>2. Spent("runt")' BY <2>1, <3>1, Zenon DEF Spent
    <3> QED BY <3>2, Zenon DEF HeldByOwner, Faulted
  <2>6. PartialLocked'
    <3>1. partial \subseteq Ports BY Zenon DEF SvrTypeOK
    <3>2. partial' = partial BY <1>4, Zenon
    <3>3. \A q \in partial : lock'[q] BY <1>5, <2>3, <3>1, Zenon DEF PartialLocked
    <3>4. \A q \in partial : \A t \in Threads : ~Serving(t, q)'
      BY <2>1, Zenon DEF PartialLocked, Serving
    <3> QED BY <3>2, <3>3, <3>4, Zenon DEF PartialLocked
  <2>7. ActiveHasCurr'
    BY <1>3, <1>4, <1>5, <1>9, <2>1, Zenon DEF ActiveHasCurr, SvrTypeOK
  <2>8. ServedHasCurr' /\ CleanedIdle' /\ StatesOK'
    BY <1>1, <1>4, <2>1, <2>3, Zenon DEF ServedHasCurr, CleanedIdle, StatesOK, SvrTypeOK
  <2>9. RuntCounted'
    BY <1>4, <2>1, NetAssumption, Zenon DEF RuntCounted, Spent, Scan
  <2> QED BY <1>6, <2>2, <2>4, <2>5, <2>6, <2>7, <2>8, <2>9, Zenon
<1>10. CASE main.m # Runt
  <2> DEFINE r == rprocess_request(state[p], main.m)
  <2>1. main.m \in Packet /\ p \notin partial BY <1>3, <1>10, Zenon
  <2>2. Good(state[p], r)
    BY <2>1, ProcessGood, Zenon DEF SvrTypeOK, StatesOK
  <2>3. \/ /\ r.ret = "BAD_CHK"
           /\ \E a \in Age : his' = [his EXCEPT ![p] = a] /\ mys' = [mys EXCEPT ![p] = a]
           /\ known' = IF main.fresh THEN known \ {p} ELSE known
           /\ state' = [state EXCEPT ![p] = r.st]
           /\ UNCHANGED <<ona, lock, th, budget>>
        \/ /\ r.ret = "WORSE_CHK"
           /\ known' = IF main.fresh THEN known \ {p} ELSE known
           /\ ona' = [ona EXCEPT ![p] = FALSE]
           /\ state' = [state EXCEPT ![p] = r.st]
           /\ UNCHANGED <<lock, his, mys, th, budget>>
        \/ /\ r.ret \in {"true", "false"}
           /\ ona' = [ona EXCEPT ![p] = @ /\ (r.ret = "true" \/ r.st.curr # None)]
           /\ state' = [state EXCEPT ![p] = r.st]
           /\ lock' = [lock EXCEPT ![p] = TRUE]
           /\ Spawn(p)
           /\ UNCHANGED <<known, his, mys>>
    BY <1>10, Zenon DEF rhandle_locked, Spawn
  <2> HIDE DEF r
  <2>4. state' = [state EXCEPT ![p] = r.st] BY <2>3, Zenon
  <2>5. /\ state' \in [Ports -> RState] /\ StatesOK'
        /\ state'[p] = r.st
        /\ \A q \in Ports : q # p => state'[q] = state[q]
    BY <2>2, <2>4, Zenon DEF Good, StatesOK, SvrTypeOK
  <2>6. CASE r.ret \in {"BAD_CHK", "WORSE_CHK"}
    <3>1. /\ UNCHANGED <<lock, th, budget>>
          /\ known' \subseteq known /\ \A q \in known : q # p => q \in known'
      BY <2>3, <2>6, Zenon
    <3>2. /\ his' \in [Ports -> Age] /\ mys' \in [Ports -> Age]
      BY <2>3, <2>6 DEF SvrTypeOK
    <3>3. /\ ona' \in [Ports -> BOOLEAN]
          /\ ona'[p] => r.st.curr # None
          /\ \A q \in Ports : q # p => ona'[q] = ona[q]
      BY <2>2, <2>3, <2>6, Zenon DEF SvrTypeOK, Good
    <3>4. SvrTypeOK'
      <4>1. known' \subseteq Ports BY <3>1, Zenon DEF SvrTypeOK
      <4> QED BY <1>4, <1>7, <2>5, <3>1, <3>2, <3>3, <4>1, Zenon DEF SvrTypeOK
    <3>5. NetTypeOK' BY <1>4, <3>1, Zenon DEF NetTypeOK
    <3>6. OwnerHolds' /\ OneOwner'
      BY <1>2, <3>1, Zenon DEF OwnerHolds, OneOwner, Serving
    <3>7. HeldByOwner'
      BY <3>1, Zenon DEF HeldByOwner, Serving, Faulted, Spent
    <3>8. UnknownFree'
      BY <1>1, <1>4, <2>1, <3>1, Zenon DEF UnknownFree
    <3>9. PartialLocked'
      BY <1>4, <1>5, <2>1, <3>1 DEF PartialLocked, Serving, SvrTypeOK
    <3>10. ActiveHasCurr'
      <4>1. SUFFICES ASSUME NEW q \in known', ona'[q]
                     PROVE  state'[q].curr # None \/ q \in partial'
        BY Zenon DEF ActiveHasCurr
      <4>2. q \in known /\ q \in Ports BY <3>1, <4>1, Zenon DEF SvrTypeOK
      <4>3. CASE q = p BY <2>5, <3>3, <4>1, <4>3, Zenon
      <4>4. CASE q # p
        <5>1. ona[q] /\ state'[q] = state[q] BY <2>5, <3>3, <4>1, <4>2, <4>4, Zenon
        <5> QED BY <1>4, <1>5, <4>2, <4>4, <5>1, Zenon DEF ActiveHasCurr
      <4> QED BY <4>3, <4>4, Zenon
    <3>11. ServedHasCurr'
      BY <1>2, <2>5, <3>1, <3>3 DEF ServedHasCurr, OwnerHolds, Serving, SvrTypeOK
    <3>12. CleanedIdle'
      <4>1. known \subseteq Ports BY Zenon DEF SvrTypeOK
      <4> QED BY <1>1, <1>4, <2>5, <3>1, <3>3, <4>1, Zenon DEF CleanedIdle
    <3>13. RuntCounted'
      BY <1>4, <3>1, NetAssumption, Zenon DEF RuntCounted, Spent, Scan
    <3> QED
      BY <1>6, <2>5, <3>4, <3>5, <3>6, <3>7, <3>8, <3>9, <3>10, <3>11, <3>12, <3>13, Zenon
  <2>7. CASE r.ret \in {"true", "false"}
    <3>1. /\ ona' = [ona EXCEPT ![p] = @ /\ (r.ret = "true" \/ r.st.curr # None)]
          /\ lock' = [lock EXCEPT ![p] = TRUE]
          /\ UNCHANGED <<known, his, mys>>
      BY <2>3, <2>7, Zenon
    <3>2. Spawn(p) BY <2>3, <2>7, Zenon
    <3>3. /\ th' \in [Threads -> [pc : {"idle", "run", "unlock"},
                                  p : Ports \cup {None}, off : BOOLEAN]]
          /\ \A u \in Threads : th[u].pc # "idle" => th'[u] = th[u] /\ th[u].p # p
          /\ \A u \in Threads : th'[u].pc # "idle" => th'[u] = th[u] \/ th'[u].p = p
          /\ \A u \in Threads : th'[u].pc = "idle" => th'[u] = Idle
          /\ OneOwner'
          /\ (\E u \in Threads : Serving(u, p)') \/ Spent("create")'
          /\ budget' \in [Fault -> Nat]
          /\ \A y \in Fault : budget'[y] <= budget[y] /\ budget'[y] <= Budget[y]
          /\ \A y \in Fault : Spent(y) => Spent(y)'
      BY <1>2, <3>2, SpawnFacts, Zenon
    <3>4. /\ lock' \in [Ports -> BOOLEAN] /\ lock'[p]
          /\ \A q \in Ports : q # p => lock'[q] = lock[q]
          /\ ona' \in [Ports -> BOOLEAN]
          /\ ona'[p] => r.st.curr # None
          /\ \A q \in Ports : q # p => ona'[q] = ona[q]
      BY <2>2, <3>1, Zenon DEF SvrTypeOK, Good
    <3>5. SvrTypeOK' BY <1>4, <1>7, <2>5, <3>1, <3>3, <3>4, Zenon DEF SvrTypeOK
    <3>6. NetTypeOK' BY <1>4, <3>3, Zenon DEF NetTypeOK
    <3>14. \A u \in Threads : th[u].pc # "idle" => th'[u] = th[u] /\ th[u].p # p
      BY <3>3, Zenon
    <3>15. \A u \in Threads : th'[u].pc # "idle" => th'[u] = th[u] \/ th'[u].p = p
      BY <3>3, Zenon
    <3>16. known' = known /\ known \subseteq Ports BY <3>1, Zenon DEF SvrTypeOK
    <3>7. OwnerHolds'
      <4>1. ASSUME NEW u \in Threads, th'[u].pc # "idle"
            PROVE  th'[u].p \in known' /\ lock'[th'[u].p]
        <5>1. CASE th'[u].p = p BY <1>1, <3>4, <3>16, <5>1, Zenon
        <5>2. CASE th'[u].p # p
          <6>1. th'[u] = th[u] BY <3>15, <4>1, <5>2, Zenon
          <6>2. th[u].p \in known /\ lock[th[u].p] BY <4>1, <6>1, Zenon DEF OwnerHolds
          <6> QED BY <3>4, <3>16, <5>2, <6>1, <6>2, Zenon
        <5> QED BY <5>1, <5>2, Zenon
      <4>2. \A u \in Threads : th'[u].pc = "idle" => th'[u] = Idle BY <3>3, Zenon
      <4> QED BY <4>1, <4>2, Zenon DEF OwnerHolds
    <3>8. HeldByOwner'
      <4>1. SUFFICES ASSUME ~Faulted', NEW q \in known', lock'[q]
                     PROVE  \E u \in Threads : Serving(u, q)'
        BY Zenon DEF HeldByOwner
      <4>2. CASE q = p BY <3>3, <4>1, <4>2, Zenon DEF Faulted
      <4>3. CASE q # p
        <5>1. q \in known /\ lock[q] BY <3>4, <3>16, <4>1, <4>3, Zenon
        <5>2. ~Faulted BY <1>8, <3>3, <4>1, Zenon DEF Faulted
        <5>3. PICK u \in Threads : Serving(u, q) BY <5>1, <5>2, Zenon DEF HeldByOwner
        <5> QED BY <3>14, <5>3, Zenon DEF Serving
      <4> QED BY <4>2, <4>3, Zenon
    <3>9. UnknownFree' BY <1>1, <1>4, <3>1, <3>4, Zenon DEF UnknownFree
    <3>10. PartialLocked'
      <4>1. SUFFICES ASSUME NEW q \in partial'
                     PROVE  lock'[q] /\ \A u \in Threads : ~Serving(u, q)'
        BY Zenon DEF PartialLocked
      <4>2. q \in partial /\ q \in Ports /\ q # p BY <1>4, <2>1, <4>1, Zenon DEF SvrTypeOK
      <4>3. lock[q] /\ \A u \in Threads : ~Serving(u, q) BY <1>5, <4>2, Zenon DEF PartialLocked
      <4>4. \A u \in Threads : ~Serving(u, q)' BY <3>15, <4>2, <4>3, Zenon DEF Serving
      <4> QED BY <3>4, <4>2, <4>3, <4>4, Zenon
    <3>11. ActiveHasCurr' /\ CleanedIdle'
      <4>1. ASSUME NEW q \in known', ona'[q] PROVE state'[q].curr # None \/ q \in partial'
        <5>1. CASE q = p BY <2>5, <3>4, <4>1, <5>1, Zenon
        <5>2. CASE q # p
          <6>1. q \in known /\ q \in Ports /\ ona[q] /\ state'[q] = state[q]
            BY <2>5, <3>4, <3>16, <4>1, <5>2, Zenon
          <6> QED BY <1>4, <1>5, <5>2, <6>1, Zenon DEF ActiveHasCurr
        <5> QED BY <5>1, <5>2
      <4>2. ASSUME NEW q \in known', clr'[q]
            PROVE  ~ona'[q] /\ ~lock'[q] /\ state'[q].curr = None
        <5>1. q \in known /\ q \in Ports /\ q # p /\ clr[q] BY <1>1, <1>4, <3>16, <4>2, Zenon
        <5>2. ~ona[q] /\ ~lock[q] /\ state[q].curr = None BY <5>1, Zenon DEF CleanedIdle
        <5> QED BY <2>5, <3>4, <5>1, <5>2, Zenon
      <4> QED BY <4>1, <4>2, Zenon DEF ActiveHasCurr, CleanedIdle
    <3>12. ServedHasCurr'
      <4>1. SUFFICES ASSUME NEW u \in Threads, th'[u].pc # "idle", ona'[th'[u].p]
                     PROVE  state'[th'[u].p].curr # None
        BY Zenon DEF ServedHasCurr
      <4>2. CASE th'[u].p = p BY <2>5, <3>4, <4>1, <4>2, Zenon
      <4>3. CASE th'[u].p # p
        <5>1. th'[u] = th[u] BY <3>15, <4>1, <4>3, Zenon
        <5>2. th[u].p \in Ports BY <3>16, <4>1, <5>1, Zenon DEF OwnerHolds
        <5>3. ona[th[u].p] /\ state'[th[u].p] = state[th[u].p]
          BY <2>5, <3>4, <4>1, <4>3, <5>1, <5>2, Zenon
        <5> QED BY <4>1, <5>1, <5>3, Zenon DEF ServedHasCurr
      <4> QED BY <4>2, <4>3, Zenon
    <3>13. RuntCounted'
      BY <1>4, <1>8, <3>3, NetAssumption, Zenon DEF RuntCounted, Scan
    <3> QED
      BY <1>6, <2>5, <3>3, <3>5, <3>6, <3>7, <3>8, <3>9, <3>10, <3>11, <3>12, <3>13, Zenon
  <2> QED BY <2>3, <2>6, <2>7, Zenon
<1> QED BY <1>9, <1>10, Zenon

\* Time, the environment and the stuttering step leave the server's own state
\* alone.
LEMMA OtherInv ==
    ASSUME SvrInv, Tick \/ Env \/ UNCHANGED sv
    PROVE  SvrInv'
<1> USE DEF SvrInv
<1>1. /\ UNCHANGED <<known, state, ona, clr, lock, partial, main, th>>
      /\ NetTypeOK'
      /\ \A y \in Fault : Spent(y) => Spent(y)'
      /\ (\E p \in Ports : Runt \in c2s'[p]) =>
            (\E p \in Ports : Runt \in c2s[p]) \/ Spent("runt")'
      /\ his' \in [Ports -> Age] /\ mys' \in [Ports -> Age]
  <2>1. CASE Tick
    <3>1. "tick" \in Fault BY Zenon DEF Fault
    <3>2. /\ budget' \in [Fault -> Nat]
          /\ \A y \in Fault : budget'[y] <= budget[y] /\ budget'[y] <= Budget[y]
          /\ \A y \in Fault : Spent(y) => Spent(y)'
      BY <2>1, <3>1, SpendMono, Zenon DEF Tick
    <3>3. /\ his' \in [Ports -> Age] /\ mys' \in [Ports -> Age]
      <4>1. /\ his' = [p \in Ports |-> IF his[p] < DEAD_TIMEOUT THEN his[p] + 1 ELSE his[p]]
            /\ mys' = [p \in Ports |-> IF mys[p] < DEAD_TIMEOUT THEN mys[p] + 1 ELSE mys[p]]
        BY <2>1, Zenon DEF Tick
      <4>2. \A p \in Ports : his[p] \in Age /\ mys[p] \in Age BY Zenon DEF SvrTypeOK
      <4>3. \A a \in Age : (IF a < DEAD_TIMEOUT THEN a + 1 ELSE a) \in Age
        BY ServAssumption DEF Age
      <4>4. /\ \A p \in Ports : (IF his[p] < DEAD_TIMEOUT THEN his[p] + 1 ELSE his[p]) \in Age
            /\ \A p \in Ports : (IF mys[p] < DEAD_TIMEOUT THEN mys[p] + 1 ELSE mys[p]) \in Age
        BY <4>2, <4>3, Zenon
      <4> QED BY <4>1, <4>4, Zenon
    <3> QED BY <2>1, <3>2, <3>3, Zenon DEF Tick, NetTypeOK
  <2>2. CASE Env
    <3>1. \A y \in Fault : Budget[y] \in Nat /\ budget[y] \in Nat /\ budget'[y] \in Nat
      BY <2>2, NetAssumption, Zenon DEF Env, NetTypeOK
    <3>3. \A y \in Fault : budget'[y] <= budget[y] BY <2>2, Zenon DEF Env
    <3>2. \A y \in Fault : Spent(y) => Spent(y)'
      <4>1. SUFFICES ASSUME NEW y \in Fault, Spent(y) PROVE Spent(y)' BY Zenon
      <4> QED BY <3>1, <3>3, <4>1 DEF Spent
    <3> QED BY <2>2, <3>2, Zenon DEF Env, svrVars, SvrTypeOK
  <2>3. CASE UNCHANGED sv
    BY <2>3, Zenon DEF sv, svrVars, netVars, NetTypeOK, SvrTypeOK, Spent
  <2> QED BY <2>1, <2>2, <2>3, Zenon
<1>2. SvrTypeOK' BY <1>1, Zenon DEF SvrTypeOK
<1>3. "create" \in Fault /\ "runt" \in Fault BY Zenon DEF Fault
<1>4. OwnerHolds' /\ OneOwner' /\ UnknownFree' /\ StatesOK' /\ CleanedIdle' /\ ServedHasCurr'
  BY <1>1, Zenon DEF OwnerHolds, OneOwner, UnknownFree, StatesOK, CleanedIdle, ServedHasCurr
<1>5. HeldByOwner' BY <1>1, <1>3, Zenon DEF HeldByOwner, Serving, Faulted
<1>6. PartialLocked' /\ ActiveHasCurr' /\ MainKnows'
  BY <1>1, Zenon DEF PartialLocked, ActiveHasCurr, MainKnows, Entering, Serving
<1>7. RuntCounted' BY <1>1, <1>3, Zenon DEF RuntCounted
<1> QED BY <1>1, <1>2, <1>4, <1>5, <1>6, <1>7, Zenon

----------------------------------------------------------------------------
\* The theorems.

LEMMA StepInv ==
    ASSUME SvrInv, [SvrNext \/ Env]_sv
    PROVE  SvrInv'
<1>1. CASE Main
  <2>1. CASE \E p \in Ports : ScanPort(p) BY <2>1, ScanInv, Zenon
  <2>2. CASE \E p \in Ports : \E m \in c2s[p] : rhandle_port(p, m) BY <2>2, ArriveInv, Zenon
  <2>3. CASE ScanDone \/ RecvNone BY <2>3, ScanInv, Zenon
  <2>4. CASE Clean BY <2>4, CleanInv, Zenon
  <2>5. CASE Resend BY <2>5, ResendInv, Zenon
  <2>6. CASE rhandle_locked BY <2>6, LockedInv
  <2> QED BY <1>1, <2>1, <2>2, <2>3, <2>4, <2>5, <2>6, Zenon DEF Main
<1>2. CASE \E t \in Threads : Sender(t)
  BY <1>2, SendInv, UnlockInv, Zenon DEF Sender
<1>3. CASE Tick \/ Env \/ UNCHANGED sv BY <1>3, OtherInv, Zenon
<1> QED BY <1>1, <1>2, <1>3, Zenon DEF SvrNext

\* The inductive invariant holds of the server against any environment, for
\* every number of clients and csock_send threads, any files, any width of the
\* counters and any time-outs.
THEOREM ServerInvariant == SvrSpec => []SvrInv
<1>1. SvrInit /\ NetInit => SvrInv BY InitInv, Zenon
<1>2. SvrInv /\ [SvrNext \/ Env]_sv => SvrInv' BY StepInv, Zenon
<1> QED BY <1>1, <1>2, PTL DEF SvrSpec, sv

\* The hand-over of the port lock from the main thread to csock_send is exact.
THEOREM LockHandOver == SvrSpec => []HandOver
<1>1. SvrInv => HandOver
  <2> SUFFICES ASSUME SvrInv, ~Faulted, NEW p \in Ports
               PROVE  /\ lock[p] <=> \E t \in Threads : Serving(t, p)
                      /\ \A t, u \in Threads : Serving(t, p) /\ Serving(u, p) => t = u
    BY Zenon DEF HandOver
  <2>1. (\E t \in Threads : Serving(t, p)) => lock[p]
    BY Zenon DEF SvrInv, OwnerHolds, Serving
  <2>2. lock[p] => \E t \in Threads : Serving(t, p)
    BY Zenon DEF SvrInv, HeldByOwner, UnknownFree
  <2>3. \A t, u \in Threads : Serving(t, p) /\ Serving(u, p) => t = u
    BY Zenon DEF SvrInv, OneOwner, Serving
  <2> QED BY <2>1, <2>2, <2>3, Zenon
<1> QED BY <1>1, ServerInvariant, PTL

\* csock_send never dereferences a NULL state.curr, also after a clean-up, a
\* reuse of the port, a failed pthread_create or a short datagram.
THEOREM CurrNeverNull == SvrSpec => []CurrNotNull
<1>1. SvrInv => CurrNotNull BY Zenon DEF SvrInv, ServedHasCurr, CurrNotNull
<1> QED BY <1>1, ServerInvariant, PTL

\* A port is re-initialised, without its lock, only when no thread uses it.
THEOREM ResetOnlyUnused == SvrSpec => []ResetUnused
<1>1. SvrInv => ResetUnused
  BY DEF SvrInv, CleanedIdle, OwnerHolds, Serving, ResetUnused
<1> QED BY <1>1, ServerInvariant, PTL

\* The next fseek offset always is the SEQN in flight.
THEOREM OffsetIsSeqn == SvrSpec => []AckIsCurr
<1>1. SvrInv => AckIsCurr BY Zenon DEF SvrInv, SvrTypeOK, StatesOK, RStateOK, AckIsCurr
<1> QED BY <1>1, ServerInvariant, PTL

\* Only these steps touch a connection's state or switch it on.
LEMMA StateSteps ==
    ASSUME SvrInv, [SvrNext \/ Env]_sv, NEW p \in Ports
    PROVE  /\ \/ state'[p] = state[p]
              \/ state'[p].curr = None /\ ~state'[p].chksum
              \/ /\ rhandle_locked /\ main.p = p /\ main.m \in Packet
                 /\ state'[p] = rprocess_request(state[p], main.m).st
           /\ ~ona[p] /\ ona'[p] => state'[p] = NewState
<1> USE DEF SvrInv
<1>1. CASE Main
  <2>1. CASE (\E q \in Ports : ScanPort(q)) \/ ScanDone \/ RecvNone
    BY <2>1, Zenon DEF ScanPort, ScanDone, RecvNone
  <2>2. ASSUME NEW q \in Ports, NEW m \in c2s[q], rhandle_port(q, m)
        PROVE  /\ state'[p] = state[p] \/ (state'[p].curr = None /\ ~state'[p].chksum)
               /\ ~ona[p] /\ ona'[p] => state'[p] = NewState
    <3>1. CASE q # p BY <2>2, <3>1, Zenon DEF rhandle_port, SvrTypeOK
    <3>2. CASE q = p /\ p \notin known
      <4>1. state' = [state EXCEPT ![p] = NewState] BY <2>2, <3>2, Zenon DEF rhandle_port
      <4> QED BY <4>1, Zenon DEF SvrTypeOK, NewState
    <3>3. CASE q = p /\ p \in known /\ clr[p]
      <4>1. state' = [state EXCEPT ![p] = RSTATE_INIT(@)] BY <2>2, <3>3, Zenon DEF rhandle_port
      <4>2. state[p].ack = 0 BY <3>3, Zenon DEF CleanedIdle, StatesOK, RStateOK
      <4>3. RSTATE_INIT(state[p]) = NewState BY <4>2, Zenon DEF RSTATE_INIT, NewState
      <4> QED BY <4>1, <4>3 DEF SvrTypeOK, NewState
    <3>4. CASE q = p /\ p \in known /\ ~clr[p]
      <4>1. state' = [state EXCEPT ![p] = @] /\ ona' = [ona EXCEPT ![p] = @ \/ clr[p] \/ p \notin known]
        BY <2>2, <3>4, Zenon DEF rhandle_port
      <4> QED BY <3>4, <4>1, Zenon DEF SvrTypeOK
    <3> QED BY <3>1, <3>2, <3>3, <3>4, Zenon
  <2>3. CASE Clean
    <3>1. CASE UNCHANGED <<state, ona>> BY <3>1, Zenon
    <3>2. CASE /\ state' = [state EXCEPT ![main.p] = rstate_destroy(@)]
               /\ ona' = [ona EXCEPT ![main.p] = FALSE]
      <4>1. state \in [Ports -> RState] /\ ona \in [Ports -> BOOLEAN] BY Zenon DEF SvrTypeOK
      <4>2. state'[p] = state[p] \/ state'[p] = rstate_destroy(state[p]) BY <3>2, <4>1, Zenon
      <4>3. ona'[p] => ona[p] BY <3>2, <4>1, Zenon
      <4> QED BY <4>2, <4>3 DEF rstate_destroy
    <3> QED BY <2>3, <3>1, <3>2, Zenon DEF Clean
  <2>4. CASE Resend
    BY <2>4, Zenon DEF Resend, SvrTypeOK
  <2>5. CASE rhandle_locked
    <3>1. main.p \in Ports /\ main.m \in Packet \cup {Runt}
      BY <2>5, Zenon DEF rhandle_locked, MainKnows, SvrTypeOK
    <3>2. ona'[p] => ona[p] BY <2>5, <3>1, Zenon DEF rhandle_locked, SvrTypeOK
    <3>3. CASE main.m = Runt \/ main.p # p
      BY <2>5, <3>1, <3>2, <3>3, Zenon DEF rhandle_locked, SvrTypeOK
    <3>4. CASE main.m # Runt /\ main.p = p
      <4>1. state' = [state EXCEPT ![p] = rprocess_request(state[p], main.m).st]
        BY <2>5, <3>4, Zenon DEF rhandle_locked
      <4> QED BY <2>5, <3>1, <3>2, <3>4, <4>1, Zenon DEF SvrTypeOK
    <3> QED BY <3>3, <3>4, Zenon
  <2> QED BY <1>1, <2>1, <2>2, <2>3, <2>4, <2>5, Zenon DEF Main
<1>2. CASE \E t \in Threads : Sender(t)
  <2>1. PICK t \in Threads : Sender(t) BY <1>2, Zenon
  <2>2. CASE csock_send(t) BY <2>2, Zenon DEF csock_send
  <2>3. CASE csock_unlock(t) BY <2>3, Zenon DEF csock_unlock, SvrTypeOK
  <2> QED BY <2>1, <2>2, <2>3, Zenon DEF Sender
<1>3. CASE Tick \/ Env \/ UNCHANGED sv
  BY <1>3, Zenon DEF Tick, Env, sv, svrVars
<1> QED BY <1>1, <1>2, <1>3, Zenon DEF SvrNext

\* Stop and wait: the packet in flight is only replaced once it is acknowledged.
THEOREM OnePacketInFlight == SvrSpec => StopAndWait
<1> DEFINE A == \A p \in Ports :
        LET cur == state[p].curr
            nxt == state'[p].curr
        IN  cur # None /\ nxt # None /\ nxt # cur =>
                /\ FLAG_VALIDATE(main.m, "ACK") /\ ~FLAG_VALIDATE(main.m, "NAK")
                /\ main.m.ackn = cur.seqn
<1>1. SvrInv /\ [SvrNext \/ Env]_sv => A
  <2> SUFFICES ASSUME SvrInv, [SvrNext \/ Env]_sv, NEW p \in Ports,
                      state[p].curr # None, state'[p].curr # None,
                      state'[p].curr # state[p].curr
               PROVE  /\ FLAG_VALIDATE(main.m, "ACK") /\ ~FLAG_VALIDATE(main.m, "NAK")
                      /\ main.m.ackn = state[p].curr.seqn
    BY Zenon
  <2>1. main.m \in Packet /\ state'[p] = rprocess_request(state[p], main.m).st
    BY StateSteps, Zenon
  <2>2. state[p] \in RState /\ RStateOK(state[p]) BY Zenon DEF SvrInv, SvrTypeOK, StatesOK
  <2> QED BY <2>1, <2>2, ReplacedWhenAcked, Zenon
<1>2. SvrSpec => [][SvrNext \/ Env]_sv BY Zenon DEF SvrSpec, sv
<1> HIDE DEF A
<1>3. SvrSpec => [][A]_sv BY <1>1, <1>2, ServerInvariant, PTL
<1> QED BY <1>3, Zenon DEF A, StopAndWait, sv

\* A reused port starts from nothing.
THEOREM ReopenedFresh == SvrSpec => ReopensFresh
<1> DEFINE A == \A p \in Ports : ~ona[p] /\ ona'[p] => state'[p] = NewState
<1>1. SvrInv /\ [SvrNext \/ Env]_sv => A BY StateSteps, Zenon
<1>2. SvrSpec => [][SvrNext \/ Env]_sv BY DEF SvrSpec, sv
<1> HIDE DEF A
<1>3. SvrSpec => [][A]_sv BY <1>1, <1>2, ServerInvariant, PTL
<1> QED BY <1>3, Zenon DEF A, ReopensFresh, sv

----------------------------------------------------------------------------
\* The transfer: the invariant of the server, its clients and the network.

Hosted(p) == Wants[p] \in DOMAIN Files

\* The length of the resource that the client at p asks for, in chunks.
Size(p) == Files[Wants[p]]

\* Every chunk, and the FIN after the last one, has a SEQN of its own.
Fits == \A p \in Ports : Hosted(p) => Size(p) + 1 < SeqMod

\* A client that runs without -c uses a network that damages nothing.
Guarded == \A p \in Ports : Chk[p] \/ ("damage" \notin Free /\ Budget["damage"] = 0)

\* The first k chunks of what p asks for, as they are printed.
First(p, k) == [i \in 1 .. k |-> Printed(<<Wants[p], i>>)]

\* What may be printed of it.
Prints(p) == {Garbage} \cup ({Wants[p]} \X Nat)

Kind(m) == m.flags \ {"CHK"}

\* The client at p has accepted the FIN.
Complete(p) == Hosted(p) /\ cl[p].track = Inc(Size(p) + 1)

\* What the server sends: chunk i as packet i, then FIN, then FIN|ACK.
IsData(p, m) ==
    Kind(m) = {"DAT"} /\ m.seqn \in 1 .. Size(p) /\ m.body = <<Wants[p], m.seqn>>

IsFin(p, m) == Kind(m) = {"FIN"} /\ m.seqn = Size(p) + 1 /\ m.body = Empty

IsFinAck(p, m) ==
    Kind(m) = {"FIN", "ACK"} /\ m.seqn = Inc(Size(p) + 1) /\ m.body = Empty /\ Complete(p)

FromServer(p, m) ==
    Hosted(p) /\ m.ver /\ (IsData(p, m) \/ IsFin(p, m) \/ IsFinAck(p, m))

\* What the client sends: ACK|DAT names a chunk, and ACK|FIN means it has all.
FromClient(p, m) ==
    /\ m \in Packet /\ m.ver /\ m.sum /\ ("CHK" \in m.flags <=> Chk[p])
    /\ \/ Kind(m) = {"GET"} /\ m.body = Wants[p]
       \/ Kind(m) = {"ACK", "DAT"} /\ m.body = Empty /\ Hosted(p) /\ m.ackn \in 1 .. Size(p)
       \/ Kind(m) = {"ACK", "FIN"} /\ m.body = Empty /\ Complete(p)
       \/ "NAK" \in m.flags /\ m.body = Empty

ServerSide(p, st) ==
    /\ st.chksum => Chk[p]
    /\ st.curr # None => /\ FromServer(p, st.curr) /\ st.request = Wants[p]
                         /\ Chk[p] => st.chksum

\* track says exactly which chunks are in the file.
ClientSide(p) ==
    /\ cl[p].pc = "done" => Complete(p)
    /\ \/ Complete(p) /\ cl[p].out = First(p, Size(p))
       \/ Hosted(p) /\ cl[p].track \in 1 .. Size(p) + 1 /\ cl[p].out = First(p, cl[p].track - 1)
       \/ ~Hosted(p) /\ cl[p].track = 1 /\ cl[p].out = <<>>

\* A packet under way to the client at p is the server's, or visibly damaged.
ToClient(p, m) ==
    /\ Kind(m) = {"FIN", "ACK"} => Complete(p)
    /\ FromServer(p, m) \/ (Chk[p] /\ ~m.sum)

InFlight(p) ==
    /\ \A m \in c2s[p] : FromClient(p, m)
    /\ Entering(p) => FromClient(p, main.m)
    /\ \A m \in s2c[p] : ToClient(p, m)

XferOK(p) == ClientSide(p) /\ ServerSide(p, state[p]) /\ InFlight(p)

\* The inductive invariant of the whole.
XferInv == SvrInv /\ ClTypeOK /\ \A p \in Ports : XferOK(p)

----------------------------------------------------------------------------
\* Sequence numbers and the chunks they stand for.

LEMMA Numbers ==
    ASSUME Fits, NEW p \in Ports, Hosted(p)
    PROVE  /\ Size(p) \in Nat \ {0}
           /\ \A k \in 0 .. Size(p) : k \in Con /\ Inc(k) = k + 1
           /\ Size(p) + 1 \in Con /\ Inc(Size(p) + 1) \in Con
           /\ Inc(Size(p) + 1) \notin 1 .. Size(p) + 1
<1>1. Size(p) \in Nat \ {0} /\ SeqMod \in Nat /\ Size(p) + 1 < SeqMod
  BY HdrAssumption, Zenon DEF Fits, Hosted, Size
<1> DEFINE n == Size(p)
<1>2. n \in Nat \ {0} /\ n + 1 < SeqMod BY <1>1, Zenon
<1> HIDE DEF n
<1>3. \A k \in 0 .. n : k \in Con /\ Inc(k) = k + 1
  BY <1>1, <1>2, IncType DEF Con
<1>4. n + 1 \in Con BY <1>1, <1>2 DEF Con
<1>5. Inc(n + 1) \in Con /\ (n + 2 < SeqMod => Inc(n + 1) = n + 2)
  BY <1>2, <1>4, IncType
<1>6. n + 2 = SeqMod => Inc(n + 1) = 0 BY <1>1, <1>2 DEF Inc
<1>7. Inc(n + 1) \notin 1 .. n + 1 BY <1>1, <1>2, <1>5, <1>6
<1> QED BY <1>2, <1>3, <1>4, <1>5, <1>7, Zenon DEF n

\* Two files with the same chunks at the same places are one.
LEMMA SameFile ==
    ASSUME NEW C, NEW f \in Seq(C), NEW g \in Seq(C), Len(f) = Len(g),
           \A i \in 1 .. Len(f) : f[i] = g[i]
    PROVE  f = g
OBVIOUS

LEMMA FirstFacts ==
    ASSUME NEW p \in Ports, NEW k \in Nat
    PROVE  /\ First(p, k) \in Seq(Prints(p)) /\ Len(First(p, k)) = k
           /\ Append(First(p, k), Printed(<<Wants[p], k + 1>>)) = First(p, k + 1)
           /\ First(p, 0) = <<>>
<1> DEFINE c(i) == Printed(<<Wants[p], i>>)
<1>0. \A i \in Nat : c(i) \in Prints(p) BY Zenon DEF Printed, Prints
<1>5. \A n \in Nat : First(p, n) = [i \in 1 .. n |-> c(i)] BY Zenon DEF First
<1> HIDE DEF c
<1>1. /\ First(p, k) \in Seq(Prints(p)) /\ Len(First(p, k)) = k
      /\ \A i \in 1 .. k : First(p, k)[i] = c(i)
  BY <1>0, <1>5
<1>2. /\ First(p, k + 1) \in Seq(Prints(p)) /\ Len(First(p, k + 1)) = k + 1
      /\ \A i \in 1 .. k + 1 : First(p, k + 1)[i] = c(i)
  BY <1>0, <1>5
<1>3. Append(First(p, k), c(k + 1)) = First(p, k + 1)
  <2> DEFINE a == Append(First(p, k), c(k + 1))
  <2>1. /\ a \in Seq(Prints(p)) /\ Len(a) = k + 1
        /\ \A i \in 1 .. k : a[i] = First(p, k)[i]
        /\ a[k + 1] = c(k + 1)
    BY <1>0, <1>1
  <2>2. \A i \in 1 .. k + 1 : i \in 1 .. k \/ i = k + 1 OBVIOUS
  <2> HIDE DEF a
  <2>3. \A i \in 1 .. Len(a) : a[i] = First(p, k + 1)[i]
    BY <1>1, <1>2, <2>1, <2>2, Zenon
  <2>4. a = First(p, k + 1) BY <1>2, <2>1, <2>3, SameFile, Zenon
  <2> QED BY <2>4, Zenon DEF a
<1>4. First(p, 0) = <<>> BY DEF First
<1> QED BY <1>1, <1>3, <1>4, Zenon DEF c

----------------------------------------------------------------------------
\* What the server makes of a packet of its client.

\* The packet that rhead_append makes, field by field.
LEMMA AppendFields ==
    ASSUME NEW st, NEW fl, NEW a, NEW b
    PROVE  /\ rhead_append(st, fl, a, b).ver
           /\ rhead_append(st, fl, a, b).body = b
           /\ Kind(rhead_append(st, fl, a, b)) = fl \ {"CHK"}
           /\ rhead_append(st, fl, a, b).seqn = IF st.curr = None THEN 1 ELSE Inc(st.curr.seqn)
<1> DEFINE s == IF st.curr = None THEN 1 ELSE Inc(st.curr.seqn)
           x == [flags |-> fl, ver |-> TRUE, ackn |-> a, body |-> b, seqn |-> s, sum |-> TRUE]
<1>1. x.flags = fl /\ x.ver = TRUE /\ x.body = b /\ x.seqn = s BY Zenon
<1>2. rhead_append(st, fl, a, b) = IF st.chksum THEN [x EXCEPT !.flags = @ \cup {"CHK"}] ELSE x
  BY Zenon DEF rhead_append, SND_PKT
<1>3. CASE st.chksum
  <2>1. rhead_append(st, fl, a, b) = [x EXCEPT !.flags = @ \cup {"CHK"}] BY <1>2, <1>3, Zenon
  <2> QED BY <1>1, <2>1 DEF Kind
<1>4. CASE ~st.chksum BY <1>1, <1>2, <1>4, Zenon DEF Kind
<1> QED BY <1>3, <1>4, Zenon

\* The packet that answers an acknowledgement is the next one of the file.
LEMMA ReadNext ==
    ASSUME Fits, NEW p \in Ports, Hosted(p), NEW st \in RState, RStateOK(st),
           NEW k \in 0 .. Size(p), k = IF st.curr = None THEN 0 ELSE st.curr.seqn
    PROVE  FromServer(p, ReadAt(st, Wants[p], k))
<1>1. /\ Size(p) \in Nat \ {0} /\ k \in Nat /\ Inc(k) = k + 1 BY Numbers
<1>2. (IF st.curr = None THEN 1 ELSE Inc(st.curr.seqn)) = k + 1 BY <1>1
<1>3. CASE k < Size(p)
  <2> DEFINE m == rhead_append(st, {"DAT"}, 0, <<Wants[p], k + 1>>)
  <2>1. ReadAt(st, Wants[p], k) = m BY <1>3, Zenon DEF ReadAt, Size
  <2>2. m.ver BY AppendFields, Zenon
  <2>3. m.body = <<Wants[p], k + 1>> /\ m.seqn = k + 1 BY <1>2, AppendFields
  <2>4. Kind(m) = {"DAT"} BY AppendFields
  <2>5. k + 1 \in 1 .. Size(p) BY <1>1, <1>3
  <2> HIDE DEF m
  <2> QED BY <2>1, <2>2, <2>3, <2>4, <2>5, Zenon DEF FromServer, IsData
<1>4. CASE ~(k < Size(p))
  <2> DEFINE m == rhead_append(st, {"FIN"}, 0, Empty)
  <2>1. ReadAt(st, Wants[p], k) = m BY <1>4, Zenon DEF ReadAt, Size
  <2>2. m.ver BY AppendFields, Zenon
  <2>3. m.body = Empty /\ m.seqn = k + 1 BY <1>2, AppendFields
  <2>4. Kind(m) = {"FIN"} BY AppendFields
  <2>5. k = Size(p) BY <1>1, <1>4
  <2> HIDE DEF m
  <2> QED BY <2>1, <2>2, <2>3, <2>4, <2>5, Zenon DEF FromServer, IsFin
<1> QED BY <1>3, <1>4, Zenon

\* A NAK that is out of place changes nothing: curr already has the CHK flag.
LEMMA NakLeaves ==
    ASSUME NEW st \in RState, RStateOK(st), NEW m
    PROVE  INVALID_NAK(st, m).st = st
<1>1. CASE st.curr # None /\ FLAG_VALIDATE(m, "NAK")
  <2>1. st.curr \in Packet BY <1>1, Zenon DEF RState
  <2>2. SND_PKT(st, st.curr) = st.curr
    <3>1. CASE st.chksum
      <4>1. st.curr.flags \cup {"CHK"} = st.curr.flags
        BY <1>1, <3>1, Zenon DEF RStateOK, FLAG_VALIDATE
      <4> QED BY <2>1, <3>1, <4>1, Zenon DEF SND_PKT, Packet
    <3>2. CASE ~st.chksum BY <3>2, Zenon DEF SND_PKT
    <3> QED BY <3>1, <3>2, Zenon
  <2>3. [st EXCEPT !.curr = SND_PKT(st, @)] = st BY <2>2, Zenon DEF RState
  <2> QED BY <1>1, <2>3, Zenon DEF INVALID_NAK, Result
<1>2. CASE ~(st.curr # None /\ FLAG_VALIDATE(m, "NAK"))
  BY <1>2, Zenon DEF INVALID_NAK, Result
<1> QED BY <1>1, <1>2, Zenon

\* What is left of FromClient when the CHK flag has been dealt with.
Plain(p, x) ==
    \/ x.flags = {"GET"} /\ x.body = Wants[p]
    \/ x.flags = {"ACK", "DAT"} /\ Hosted(p) /\ x.ackn \in 1 .. Size(p)
    \/ x.flags = {"ACK", "FIN"} /\ Complete(p)
    \/ "NAK" \in x.flags

\* The switch of rprocess_request keeps the server's side of the transfer.
LEMMA ServeSide ==
    ASSUME Fits, NEW p \in Ports, NEW st \in RState, RStateOK(st), ServerSide(p, st),
           Chk[p] => st.chksum, NEW x \in Packet, Plain(p, x), InSequence(st, x)
    PROVE  ServerSide(p, Serve(st, x).st)
<1> DEFINE A == FLAG_VALIDATE(x, "NAK") /\ st.curr # None /\ st.ack = x.ackn
           B == FLAG_CHECK(x, {"GET"}) /\ st.curr = None
           C == FLAG_CHECK(x, {"ACK", "DAT"}) /\ st.curr # None
           D == /\ FLAG_CHECK(x, {"ACK", "FIN"})
                /\ st.curr # None
                /\ FLAG_CHECK(UnsetCHK(st.curr), {"FIN"})
<1>a. /\ A => ~B /\ ~C /\ ~D
      /\ B => ~C /\ ~D
      /\ C => ~D
  BY DEF FLAG_VALIDATE, FLAG_CHECK
<1>1. CASE A
  <2> DEFINE s == [st EXCEPT !.seq = Inc(@)]
  <2>1. Serve(st, x).st = s BY <1>1, <1>a, Zenon DEF Serve, NakSeen, Result
  <2>2. s.curr = st.curr /\ s.request = st.request /\ s.chksum = st.chksum BY Zenon DEF RState
  <2> HIDE DEF s
  <2> QED BY <2>1, <2>2, Zenon DEF ServerSide
<1>2. CASE B /\ x.body \in DOMAIN Files
  <2> DEFINE n == ReadAt(st, Wants[p], 0)
             a == Advance(st, n)
             s == [a EXCEPT !.request = x.body]
  <2>1. x.body = Wants[p] BY <1>2, Zenon DEF Plain, FLAG_CHECK
  <2>2. Hosted(p) BY <1>2, <2>1, Zenon DEF Hosted
  <2>3. 0 \in 0 .. Size(p) BY <2>2, Numbers
  <2>4. FromServer(p, n) BY <1>2, <2>2, <2>3, ReadNext, Zenon
  <2>5. Serve(st, x).st = s BY <1>2, <1>a, <2>1, Zenon DEF Serve, Result
  <2> HIDE DEF n
  <2>6. s.curr = n /\ s.request = Wants[p] /\ s.chksum = st.chksum
    BY <2>1, Zenon DEF Advance, RState
  <2> HIDE DEF s, a
  <2> QED BY <2>4, <2>5, <2>6, Zenon DEF ServerSide
<1>3. CASE B /\ x.body \notin DOMAIN Files
  BY <1>3, <1>a, Zenon DEF Serve, Result
<1>4. CASE C
  <2> DEFINE n == ReadAt(st, Wants[p], st.ack)
             s == Advance(st, n)
  <2>1. x.flags = {"ACK", "DAT"} BY <1>4, Zenon DEF FLAG_CHECK
  <2>2. Hosted(p) /\ x.ackn \in 1 .. Size(p) BY <2>1 DEF Plain
  <2>3. x.ackn = st.ack BY <1>4, <2>1, Zenon DEF InSequence, FLAG_VALIDATE
  <2>4. st.request = Wants[p] BY <1>4, Zenon DEF ServerSide
  <2>5. st.ack \in 0 .. Size(p) BY <2>2, <2>3, Numbers
  <2>6. st.ack = IF st.curr = None THEN 0 ELSE st.curr.seqn BY Zenon DEF RStateOK
  <2>7. FromServer(p, n) BY <2>2, <2>5, <2>6, ReadNext, Zenon
  <2>8. Serve(st, x).st = s BY <1>4, <1>a, <2>4, Zenon DEF Serve, Result
  <2> HIDE DEF n
  <2>9. s.curr = n /\ s.request = st.request /\ s.chksum = st.chksum
    BY Zenon DEF Advance, RState
  <2> HIDE DEF s
  <2> QED BY <2>4, <2>7, <2>8, <2>9, Zenon DEF ServerSide
<1>5. CASE D
  <2> DEFINE n == rhead_append(st, {"FIN", "ACK"}, st.seq, Empty)
             s == Advance(st, n)
  <2>1. x.flags = {"ACK", "FIN"} BY <1>5, Zenon DEF FLAG_CHECK
  <2>2. Complete(p) BY <2>1 DEF Plain
  <2>3. FromServer(p, st.curr) /\ st.request = Wants[p] BY <1>5, Zenon DEF ServerSide
  <2>4. Kind(st.curr) = {"FIN"}
    <3>1. st.curr \in Packet BY <1>5, Zenon DEF RState
    <3> QED BY <1>5, <3>1, Zenon DEF FLAG_CHECK, UnsetCHK, Kind, Packet
  <2>5. st.curr.seqn = Size(p) + 1
    BY <2>3, <2>4 DEF FromServer, IsData, IsFin, IsFinAck
  <2>6. n.ver BY AppendFields, Zenon
  <2>7. n.body = Empty /\ n.seqn = Inc(Size(p) + 1) BY <1>5, <2>5, AppendFields
  <2>8. Kind(n) = {"FIN", "ACK"} BY AppendFields
  <2>9. Serve(st, x).st = s BY <1>5, <1>a, Zenon DEF Serve, Result
  <2> HIDE DEF n
  <2>10. FromServer(p, n)
    BY <2>2, <2>6, <2>7, <2>8, Zenon DEF FromServer, IsFinAck, Complete
  <2>11. s.curr = n /\ s.request = st.request /\ s.chksum = st.chksum
    BY DEF Advance, RState
  <2> HIDE DEF s
  <2> QED BY <2>3, <2>9, <2>10, <2>11, Zenon DEF ServerSide
<1>6. CASE ~A /\ ~B /\ ~C /\ ~D
  <2>1. Serve(st, x) = INVALID_NAK(st, x) BY <1>6, Zenon DEF Serve
  <2> QED BY <2>1, NakLeaves, Zenon
<1> QED BY <1>1, <1>2, <1>3, <1>4, <1>5, <1>6, Zenon

\* rprocess_request as a whole.
LEMMA ProcessSide ==
    ASSUME Fits, NEW p \in Ports, NEW st \in RState, RStateOK(st), ServerSide(p, st),
           NEW m, FromClient(p, m)
    PROVE  ServerSide(p, rprocess_request(st, m).st)
<1>1. m \in Packet /\ m.ver /\ m.sum /\ ("CHK" \in m.flags <=> Chk[p])
  BY Zenon DEF FromClient
<1>2. ASSUME NEW s \in RState, RStateOK(s), ServerSide(p, s), Chk[p] => s.chksum,
             NEW x \in Packet, Plain(p, x)
      PROVE  ServerSide(p, Sequenced(s, x).st)
  <2>1. CASE InSequence(s, x)
    <3>1. Sequenced(s, x) = Serve(s, x) BY <2>1, Zenon DEF Sequenced
    <3> QED BY <1>2, <2>1, <3>1, ServeSide, Zenon
  <2>2. CASE ~InSequence(s, x)
    <3>1. Sequenced(s, x).st = s BY <2>2, Zenon DEF Sequenced, Result
    <3> QED BY <1>2, <3>1, Zenon
  <2> QED BY <2>1, <2>2, Zenon
<1>3. CASE st.curr # None /\ m.body # Empty
  BY <1>1, <1>3, Zenon DEF rprocess_request, Result
<1>4. CASE (st.curr # None => m.body = Empty) /\ Chk[p]
  <2> DEFINE s == IF st.curr = None THEN [st EXCEPT !.chksum = TRUE] ELSE st
             x == UnsetCHK(m)
  <2>1. s \in RState /\ s.curr = st.curr /\ RStateOK(s) /\ s.request = st.request
    BY Zenon DEF RState, RStateOK
  <2>2. s.chksum
    <3>1. CASE st.curr = None BY <3>1, Zenon DEF RState
    <3>2. CASE st.curr # None BY <1>4, <3>2, Zenon DEF ServerSide
    <3> QED BY <3>1, <3>2, Zenon
  <2>3. x \in Packet /\ x.body = m.body /\ x.ackn = m.ackn /\ x.flags = Kind(m)
    BY <1>1, Zenon DEF UnsetCHK, Packet, Kind
  <2>4. "NAK" \in m.flags => "NAK" \in Kind(m) BY Zenon DEF Kind
  <2>5. Plain(p, x)
    <3> HIDE DEF x
    <3> QED BY <2>3, <2>4, Zenon DEF FromClient, Plain
  <2>6. valid_chksum(m) /\ ChecksSum(st, m)
    BY <1>1, <1>4, Zenon DEF valid_chksum, ChecksSum, FLAG_VALIDATE
  <2>7. rprocess_request(st, m) = Sequenced(s, x)
    BY <1>1, <1>4, <2>6, Zenon DEF rprocess_request
  <2> HIDE DEF s, x
  <2>8. ServerSide(p, s) BY <1>4, <2>1, <2>2, Zenon DEF ServerSide
  <2> QED BY <1>2, <2>1, <2>2, <2>3, <2>5, <2>7, <2>8, Zenon
<1>5. CASE (st.curr # None => m.body = Empty) /\ ~Chk[p]
  <2>1. ~ChecksSum(st, m)
    BY <1>1, <1>5, Zenon DEF ServerSide, ChecksSum, FLAG_VALIDATE
  <2>2. rprocess_request(st, m) = Sequenced(st, m)
    BY <1>1, <1>5, <2>1, Zenon DEF rprocess_request
  <2>3. Kind(m) = m.flags BY <1>1, <1>5, Zenon DEF Kind
  <2>4. Plain(p, m) BY <2>3, Zenon DEF FromClient, Plain
  <2> QED BY <1>1, <1>2, <1>5, <2>2, <2>4, Zenon
<1> QED BY <1>3, <1>4, <1>5, Zenon

----------------------------------------------------------------------------
\* The steps of the server.

\* A step of the server sends nothing but curr and takes in what was sent.
LEMMA ServerNet ==
    ASSUME SvrInv, SvrNext, NEW p \in Ports
    PROVE  /\ c2s'[p] \subseteq c2s[p]
           /\ \A m \in s2c'[p] : m \in s2c[p] \/ (m = state[p].curr /\ m # None)
           /\ Entering(p)' => main'.m \in c2s[p] \/ (Entering(p) /\ main'.m = main.m)
<1>1. CASE Main
  <2>1. ASSUME NEW q \in Ports, ScanPort(q) PROVE UNCHANGED netVars /\ main'.pc # "lock"
    <3>1. main \in [pc : MainAt, todo : SUBSET Ports, p : Ports \cup {None},
                    m : Packet \cup {Runt, None}, old : Age \cup {None}, fresh : BOOLEAN]
      BY Zenon DEF SvrInv, SvrTypeOK
    <3> QED BY <2>1, <3>1, Zenon DEF ScanPort
  <2>2. ASSUME NEW q \in Ports, NEW m \in c2s[q], rhandle_port(q, m)
        PROVE  /\ UNCHANGED s2c /\ c2s'[p] \subseteq c2s[p]
               /\ Entering(p)' => main'.m \in c2s[p]
    <3>1. c2s'[p] \subseteq c2s[p] BY <2>2, TakeFacts, Zenon DEF rhandle_port
    <3>2. main'.p = q /\ main'.m = m
      <4>1. main \in [pc : MainAt, todo : SUBSET Ports, p : Ports \cup {None},
                      m : Packet \cup {Runt, None}, old : Age \cup {None}, fresh : BOOLEAN]
        BY Zenon DEF SvrInv, SvrTypeOK
      <4> QED BY <2>2, <4>1, Zenon DEF rhandle_port
    <3> QED BY <2>2, <3>1, <3>2, Zenon DEF rhandle_port, Entering
  <2>3. CASE Clean \/ Resend \/ RecvNone \/ rhandle_locked
    <3>1. UNCHANGED <<c2s, s2c>> BY <2>3, Zenon DEF Clean, Resend, RecvNone, rhandle_locked, netVars
    <3>2. \E todo : main' = Scan(todo) BY <2>3, Zenon DEF Clean, Resend, RecvNone, rhandle_locked
    <3>3. main'.pc # "lock" BY <3>2 DEF Scan
    <3> QED BY <3>1, <3>3, Zenon DEF Entering
  <2>4. CASE ScanDone
    <3>1. main'.pc # "lock" BY <2>4, Zenon DEF ScanDone, SvrInv, SvrTypeOK
    <3> QED BY <2>4, <3>1, Zenon DEF ScanDone, Entering, netVars
  <2> QED BY <1>1, <2>1, <2>2, <2>3, <2>4, Zenon DEF Main, Entering, netVars
<1>2. ASSUME NEW t \in Threads, csock_send(t)
      PROVE  /\ UNCHANGED <<c2s, main>>
             /\ \A m \in s2c'[p] : m \in s2c[p] \/ (m = state[p].curr /\ m # None)
  <2> DEFINE q == th[t].p
  <2>1. th[t].pc = "run" /\ q \in Ports /\ UNCHANGED <<c2s, main>>
    BY <1>2, Zenon DEF csock_send, SvrInv, OwnerHolds, SvrTypeOK
  <2>2. CASE ona[q]
    <3>1. state[q].curr # None BY <2>1, <2>2, Zenon DEF SvrInv, ServedHasCurr
    <3>2. s2c' = [s2c EXCEPT ![q] = Put(@, state[q].curr)] BY <1>2, <2>2, Zenon DEF csock_send
    <3>3. s2c \in [Ports -> SUBSET Packet] BY Zenon DEF SvrInv, NetTypeOK
    <3>4. s2c'[p] = IF p = q THEN Put(s2c[q], state[q].curr) ELSE s2c[p]
      BY <2>1, <3>2, <3>3, Zenon
    <3> QED BY <2>1, <3>1, <3>4, Zenon DEF Put
  <2>3. CASE ~ona[q] BY <1>2, <2>1, <2>3, Zenon DEF csock_send
  <2> QED BY <2>1, <2>2, <2>3, Zenon
<1>3. ASSUME NEW t \in Threads, csock_unlock(t) PROVE UNCHANGED <<netVars, main>>
  BY <1>3, Zenon DEF csock_unlock
<1>4. CASE Tick BY <1>4, Zenon DEF Tick, Entering
<1> QED BY <1>1, <1>2, <1>3, <1>4, Zenon DEF SvrNext, Sender, Entering, netVars

\* The invariant speaks of the client only through Complete, which stays.
LEMMA Kept ==
    ASSUME NEW p \in Ports, Complete(p) => Complete(p)'
    PROVE  /\ \A m : FromClient(p, m) => FromClient(p, m)'
           /\ \A m : ToClient(p, m) => ToClient(p, m)'
           /\ \A m : m = main'.m /\ FromClient(p, m) => FromClient(p, main.m)'
           /\ \A s : s = state'[p] /\ ServerSide(p, s) => ServerSide(p, state[p])'
<1>1. \A m : FromServer(p, m) => FromServer(p, m)'
  BY Zenon DEF FromServer, IsData, IsFin, IsFinAck, Hosted, Size, Kind
<1>2. \A m : FromClient(p, m) => FromClient(p, m)'
  BY Zenon DEF FromClient, Hosted, Size, Kind
<1>3. \A m : ToClient(p, m) => ToClient(p, m)'
  BY <1>1, Zenon DEF ToClient, Kind
<1>4. \A m : m = main'.m /\ FromClient(p, m) => FromClient(p, main.m)'
  BY <1>2, Zenon DEF FromClient
<1>5. ASSUME NEW s, s = state'[p], ServerSide(p, s) PROVE ServerSide(p, state[p])'
  <2>1. state'[p].chksum => Chk[p] BY <1>5, Zenon DEF ServerSide
  <2>2. ASSUME state'[p].curr # None
        PROVE  /\ FromServer(p, state[p].curr)' /\ state'[p].request = Wants[p]
               /\ Chk[p] => state'[p].chksum
    <3>1. s.curr # None BY <1>5, <2>2, Zenon
    <3>2. FromServer(p, s.curr) /\ s.request = Wants[p] /\ (Chk[p] => s.chksum)
      BY <1>5, <3>1, Zenon DEF ServerSide
    <3>3. FromServer(p, state[p].curr)'
      BY <1>5, <3>2, Zenon DEF FromServer, IsData, IsFin, IsFinAck, Hosted, Size, Kind
    <3> QED BY <1>5, <3>2, <3>3, Zenon
  <2> QED BY <2>1, <2>2, Zenon DEF ServerSide
<1> QED BY <1>2, <1>3, <1>4, <1>5, Zenon

\* curr, once sent, is a packet under way.
LEMMA SentOK ==
    ASSUME NEW p \in Ports, NEW m, FromServer(p, m)
    PROVE  ToClient(p, m)
<1>1. {"DAT"} # {"FIN", "ACK"} /\ {"FIN"} # {"FIN", "ACK"} OBVIOUS
<1> QED BY <1>1, Zenon DEF ToClient, FromServer, IsData, IsFin, IsFinAck

LEMMA ServerKeeps ==
    ASSUME Fits, XferInv, SvrNext, UNCHANGED cl, NEW p \in Ports
    PROVE  XferOK(p)'
<1>1. SvrInv /\ XferOK(p) BY Zenon DEF XferInv
<1>2. Complete(p) => Complete(p)' BY Zenon DEF Complete, Hosted, Size
<1>3. ClientSide(p)' BY <1>1, Zenon DEF XferOK, ClientSide, Complete, Hosted, Size, First
<1>4. ServerSide(p, state[p])'
  <2>1. PICK s : s = state'[p] BY Zenon
  <2>2. ServerSide(p, state[p]) /\ state[p] \in RState /\ RStateOK(state[p])
    BY <1>1, Zenon DEF XferOK, SvrInv, SvrTypeOK, StatesOK
  <2>3. CASE state'[p] = state[p] BY <1>2, <2>2, <2>3, Kept, Zenon
  <2>4. CASE state'[p].curr = None /\ ~state'[p].chksum
    BY <2>4, Zenon DEF ServerSide
  <2>5. CASE /\ rhandle_locked /\ main.p = p
             /\ state'[p] = rprocess_request(state[p], main.m).st
    <3>1. FromClient(p, main.m)
      BY <1>1, <2>5, Zenon DEF XferOK, InFlight, Entering, rhandle_locked
    <3>2. ServerSide(p, rprocess_request(state[p], main.m).st)
      BY <2>2, <3>1, ProcessSide, Zenon
    <3>3. ServerSide(p, s) BY <2>1, <2>5, <3>2, Zenon
    <3> QED BY <1>2, <2>1, <3>3, Kept, Zenon
  <2> QED BY <1>1, <2>3, <2>4, <2>5, StateSteps, Zenon
<1>5. InFlight(p)'
  <2>1. InFlight(p) BY <1>1, Zenon DEF XferOK
  <2>2. ASSUME NEW m \in c2s'[p] PROVE FromClient(p, m)'
    <3>1. m \in c2s[p] BY <1>1, <2>2, ServerNet, Zenon
    <3> QED BY <1>2, <2>1, <3>1, Kept, Zenon DEF InFlight
  <2>3. ASSUME NEW m \in s2c'[p] PROVE ToClient(p, m)'
    <3>1. m \in s2c[p] \/ (m = state[p].curr /\ m # None)
      BY <1>1, <2>3, ServerNet, Zenon
    <3>2. ToClient(p, m)
      <4>1. CASE m \in s2c[p] BY <2>1, <4>1, Zenon DEF InFlight
      <4>2. CASE m = state[p].curr /\ m # None
        <5>1. FromServer(p, m) BY <1>1, <4>2, Zenon DEF XferOK, ServerSide
        <5> QED BY <5>1, SentOK, Zenon
      <4> QED BY <3>1, <4>1, <4>2, Zenon
    <3> QED BY <1>2, <3>2, Kept, Zenon
  <2>4. ASSUME Entering(p)' PROVE FromClient(p, main.m)'
    <3>1. PICK m : m = main'.m BY Zenon
    <3>2. m \in c2s[p] \/ (Entering(p) /\ m = main.m)
      BY <1>1, <2>4, <3>1, ServerNet, Zenon
    <3>3. FromClient(p, m) BY <2>1, <3>2, Zenon DEF InFlight
    <3> QED BY <1>2, <3>1, <3>3, Kept, Zenon
  <2> QED BY <2>2, <2>3, <2>4, Zenon DEF InFlight
<1> QED BY <1>3, <1>4, <1>5, Zenon DEF XferOK

----------------------------------------------------------------------------
\* The steps of a client.

\* What a client puts into a packet.
LEMMA MyPacketOK ==
    ASSUME ClTypeOK, NEW p \in Ports, NEW fl \in SUBSET (Flag \ {"CHK"}),
           NEW a \in Con, NEW b \in Body
    PROVE  /\ MyPacket(p, fl, a, b) \in Packet
           /\ MyPacket(p, fl, a, b).ver /\ MyPacket(p, fl, a, b).sum
           /\ "CHK" \in MyPacket(p, fl, a, b).flags <=> Chk[p]
           /\ Kind(MyPacket(p, fl, a, b)) = fl
           /\ MyPacket(p, fl, a, b).ackn = a /\ MyPacket(p, fl, a, b).body = b
<1> DEFINE s == IF cl[p].mys = None THEN 1 ELSE Inc(cl[p].mys.seqn)
           g == IF Chk[p] THEN fl \cup {"CHK"} ELSE fl
<1>1. s \in Con
  <2>1. 1 \in Con BY HdrAssumption DEF Con
  <2>2. cl[p].mys \in Packet \cup {None} BY Zenon DEF ClTypeOK, Client
  <2>3. CASE cl[p].mys # None
    <3>1. cl[p].mys.seqn \in Con BY <2>2, <2>3, Zenon DEF Packet
    <3> QED BY <2>3, <3>1, IncType, Zenon
  <2> QED BY <2>1, <2>3, Zenon
<1>2. g \in SUBSET Flag BY Zenon DEF Flag
<1>3. ("CHK" \in g <=> Chk[p]) /\ g \ {"CHK"} = fl
  <2>1. "CHK" \notin fl BY Zenon
  <2>2. CASE Chk[p] BY <2>1, <2>2, Zenon
  <2>3. CASE ~Chk[p] BY <2>1, <2>3, Zenon
  <2> QED BY <2>2, <2>3, Zenon
<1>4. MyPacket(p, fl, a, b) =
        [flags |-> g, ver |-> TRUE, seqn |-> s, ackn |-> a, body |-> b, sum |-> TRUE]
  BY Zenon DEF MyPacket
<1> HIDE DEF s, g
<1>5. MyPacket(p, fl, a, b) \in Packet BY <1>1, <1>2, <1>4 DEF Packet
<1>6. MyPacket(p, fl, a, b).flags = g BY <1>4
<1>7. MyPacket(p, fl, a, b).ver /\ MyPacket(p, fl, a, b).sum BY <1>4
<1>8. MyPacket(p, fl, a, b).ackn = a /\ MyPacket(p, fl, a, b).body = b BY <1>4
<1> QED BY <1>3, <1>5, <1>6, <1>7, <1>8, Zenon DEF Kind

\* A packet that the client finds sound is one that the server made.
LEMMA SoundIsServers ==
    ASSUME XferInv, NEW p \in Ports, NEW r \in s2c[p], Sound(p, r)
    PROVE  /\ FromServer(p, r) /\ r \in Packet
           /\ UnsetCHK(r).flags = Kind(r) /\ UnsetCHK(r).seqn = r.seqn
           /\ UnsetCHK(r).body = r.body
<1>1. ToClient(p, r) BY Zenon DEF XferInv, XferOK, InFlight
<1>2. r \in Packet BY Zenon DEF XferInv, SvrInv, NetTypeOK
<1>3. FromServer(p, r) BY <1>1, Zenon DEF ToClient, Sound, valid_chksum
<1>4. UnsetCHK(r).flags = Kind(r) /\ UnsetCHK(r).seqn = r.seqn /\ UnsetCHK(r).body = r.body
  BY <1>2, Zenon DEF UnsetCHK, Kind, Packet
<1> QED BY <1>2, <1>3, <1>4, Zenon

\* What a step of the client at q does to the file, as FileTransfer sees it.
Goes(q) ==
    \/ /\ cl'[q].out = cl[q].out
       /\ cl[q].pc # "done" /\ cl'[q].pc # "done"
    \/ /\ cl[q].pc # "done" /\ cl'[q].pc # "done"
       /\ Hosted(q) /\ Len(cl[q].out) < Size(q)
       /\ cl'[q].out = Append(cl[q].out, Printed(<<Wants[q], Len(cl[q].out) + 1>>))
    \/ /\ cl[q].pc # "done" /\ cl'[q].pc = "done"
       /\ Complete(q) /\ cl'[q].out = cl[q].out

\* The client's own part of a step: its new state and the packet it sends.
Moves(q) ==
    /\ cl' \in [Ports -> Client]
    /\ \A p \in Ports \ {q} : cl'[p] = cl[p]
    /\ Complete(q) => Complete(q)'
    /\ ClientSide(q)'
    /\ Goes(q)
    /\ \/ UNCHANGED c2s
       \/ \E a \in Packet : FromClient(q, a)' /\ c2s' = [c2s EXCEPT ![q] = Put(@, a)]

LEMMA GetMoves ==
    ASSUME XferInv, NEW q \in Ports, ClientGet(q)
    PROVE  Moves(q)
<1>0. /\ cl \in [Ports -> Client] /\ cl[q] \in Client /\ ClientSide(q)
      /\ cl[q].pc = "new"
  BY Zenon DEF XferInv, ClTypeOK, XferOK, ClientGet
<1>1. PICK a : a = MyPacket(q, {"GET"}, 0, Wants[q]) BY Zenon
<1>2. /\ cl' = [cl EXCEPT ![q].pc = "wait", ![q].mys = a]
      /\ c2s' = [c2s EXCEPT ![q] = Put(@, a)]
  BY <1>1, Zenon DEF ClientGet, SendPacket
<1>3. /\ a \in Packet /\ a.ver /\ a.sum /\ ("CHK" \in a.flags <=> Chk[q])
      /\ Kind(a) = {"GET"} /\ a.body = Wants[q]
  <2>1. {"GET"} \in SUBSET (Flag \ {"CHK"}) BY Zenon DEF Flag
  <2>2. 0 \in Con BY HdrAssumption DEF Con
  <2>3. Wants[q] \in Body BY ClientAssumption, Zenon DEF Body
  <2>4. ClTypeOK BY Zenon DEF XferInv
  <2> QED BY <1>1, <2>1, <2>2, <2>3, <2>4, MyPacketOK
<1>4. FromClient(q, a)' BY <1>3, Zenon DEF FromClient, Kind
<1>5. /\ cl'[q] = [cl[q] EXCEPT !.pc = "wait", !.mys = a]
      /\ \A p \in Ports \ {q} : cl'[p] = cl[p]
  BY <1>0, <1>2, Zenon
<1>6. cl'[q].track = cl[q].track /\ cl'[q].out = cl[q].out /\ cl'[q].pc = "wait"
  BY <1>0, <1>5, Zenon DEF Client
<1>7. cl' \in [Ports -> Client]
  <2>1. [cl[q] EXCEPT !.pc = "wait", !.mys = a] \in Client BY <1>0, <1>3, Zenon DEF Client
  <2> QED BY <1>0, <1>2, <2>1, Zenon
<1>8. Complete(q) <=> Complete(q)' BY <1>6, Zenon DEF Complete, Hosted, Size
<1>9. ClientSide(q)' BY <1>0, <1>6, <1>8, Zenon DEF ClientSide, Hosted, Size, First
<1>10. Goes(q) BY <1>0, <1>6, Zenon DEF Goes
<1> QED BY <1>2, <1>3, <1>4, <1>5, <1>7, <1>8, <1>9, <1>10, Zenon DEF Moves

LEMMA NakMoves ==
    ASSUME XferInv, NEW q \in Ports, NEW d \in BOOLEAN, cl[q].pc = "wait", Nak(q, d)
    PROVE  Moves(q)
<1>0. cl \in [Ports -> Client] /\ cl[q] \in Client /\ ClientSide(q) /\ ClTypeOK
  BY Zenon DEF XferInv, ClTypeOK, XferOK
<1> DEFINE fl == IF d THEN {"NAK", "DAT"} ELSE {"NAK"}
<1>1. PICK a : a = MyPacket(q, fl, cl[q].track, Empty) BY Zenon
<1>2. /\ cl' = [cl EXCEPT ![q].mys = a, ![q].misD = d]
      /\ c2s' = [c2s EXCEPT ![q] = Put(@, a)]
  BY <1>1, Zenon DEF Nak, SendPacket
<1>3. /\ a \in Packet /\ a.ver /\ a.sum /\ ("CHK" \in a.flags <=> Chk[q])
      /\ Kind(a) = fl /\ a.body = Empty
  <2>1. fl \in SUBSET (Flag \ {"CHK"}) BY Zenon DEF Flag
  <2>2. cl[q].track \in Con BY <1>0, Zenon DEF Client
  <2>3. Empty \in Body BY Zenon DEF Body
  <2> HIDE DEF fl
  <2> QED BY <1>0, <1>1, <2>1, <2>2, <2>3, MyPacketOK
<1>4. "NAK" \in a.flags
  <2>1. "NAK" \in Kind(a) BY <1>3, Zenon
  <2> QED BY <2>1, Zenon DEF Kind
<1>5. FromClient(q, a)' BY <1>3, <1>4, Zenon DEF FromClient
<1>6. /\ cl'[q] = [cl[q] EXCEPT !.mys = a, !.misD = d]
      /\ \A p \in Ports \ {q} : cl'[p] = cl[p]
  BY <1>0, <1>2, Zenon
<1>7. cl'[q].track = cl[q].track /\ cl'[q].out = cl[q].out /\ cl'[q].pc = cl[q].pc
  BY <1>0, <1>6, Zenon DEF Client
<1>8. cl' \in [Ports -> Client]
  <2>1. [cl[q] EXCEPT !.mys = a, !.misD = d] \in Client BY <1>0, <1>3, Zenon DEF Client
  <2> QED BY <1>0, <1>2, <2>1, Zenon
<1>9. Complete(q) <=> Complete(q)' BY <1>7, Zenon DEF Complete, Hosted, Size
<1>10. ClientSide(q)' BY <1>0, <1>7, <1>9, Zenon DEF ClientSide, Hosted, Size, First
<1>11. Goes(q) BY <1>7, Zenon DEF Goes
<1> QED BY <1>2, <1>3, <1>5, <1>6, <1>8, <1>9, <1>10, <1>11, Zenon DEF Moves

LEMMA AcceptMoves ==
    ASSUME Fits, XferInv, NEW q \in Ports, cl[q].pc = "wait", NEW r \in s2c[q],
           Sound(q, r), Expected(q, UnsetCHK(r)), Accept(q, UnsetCHK(r))
    PROVE  Moves(q)
<1>0. cl \in [Ports -> Client] /\ cl[q] \in Client /\ ClientSide(q) /\ ClTypeOK
  BY Zenon DEF XferInv, ClTypeOK, XferOK
<1> DEFINE k == cl[q].track
<1>1. /\ FromServer(q, r) /\ r \in Packet
      /\ UnsetCHK(r).flags = Kind(r) /\ UnsetCHK(r).seqn = r.seqn
      /\ UnsetCHK(r).body = r.body
  BY SoundIsServers, Zenon
<1>2. (Kind(r) = {"FIN"} \/ Kind(r) = {"DAT"}) /\ r.seqn = k
  BY <1>1, Zenon DEF Expected, FLAG_CHECK
<1>3. k \in Con BY <1>0, Zenon DEF Client
<1>4. Hosted(q) /\ (IsData(q, r) \/ IsFin(q, r))
  <2>1. {"FIN"} # {"FIN", "ACK"} /\ {"DAT"} # {"FIN", "ACK"} OBVIOUS
  <2> QED BY <1>1, <1>2, <2>1, Zenon DEF FromServer, IsFinAck
<1>5. /\ Size(q) \in Nat \ {0} /\ Inc(Size(q) + 1) \in Con
      /\ \A i \in 0 .. Size(q) : Inc(i) = i + 1
      /\ Inc(Size(q) + 1) \notin 1 .. Size(q) + 1
  BY <1>4, Numbers, Zenon
<1>6. k \in 1 .. Size(q) + 1
  BY <1>2, <1>4, <1>5 DEF IsData, IsFin
<1>7. ~Complete(q) /\ cl[q].out = First(q, k - 1)
  BY <1>0, <1>4, <1>5, <1>6, Zenon DEF ClientSide, Complete
<1>8. PICK a : a = MyPacket(q, {"ACK"} \cup Kind(r), k, Empty) BY Zenon
<1>9. PICK o : o = Written(cl[q].out, r.body) BY Zenon
<1>10. /\ cl' = [cl EXCEPT ![q].mys = a, ![q].track = Inc(@), ![q].out = Written(@, r.body)]
       /\ c2s' = [c2s EXCEPT ![q] = Put(@, a)]
  BY <1>1, <1>8, Zenon DEF Accept, SendPacket
<1>11. /\ a \in Packet /\ a.ver /\ a.sum /\ ("CHK" \in a.flags <=> Chk[q])
       /\ Kind(a) = {"ACK"} \cup Kind(r) /\ a.ackn = k /\ a.body = Empty
  <2>1. {"ACK"} \cup Kind(r) \in SUBSET (Flag \ {"CHK"}) BY <1>2, Zenon DEF Flag
  <2>2. Empty \in Body BY Zenon DEF Body
  <2>3. PICK f \in SUBSET (Flag \ {"CHK"}) : f = {"ACK"} \cup Kind(r) BY <2>1, Zenon
  <2>4. k \in Con BY <1>3, Zenon
  <2>5. a = MyPacket(q, f, k, Empty) BY <1>8, <2>3, ZenonT(40)
  <2> HIDE DEF k
  <2>6. /\ a \in Packet /\ a.ver /\ a.sum /\ ("CHK" \in a.flags <=> Chk[q])
        /\ Kind(a) = f /\ a.ackn = k /\ a.body = Empty
    BY <1>0, <2>2, <2>4, <2>5, MyPacketOK, SMTT(40)
  <2> QED BY <2>3, <2>6, Zenon
<1>12. /\ cl'[q] = [cl[q] EXCEPT !.mys = a, !.track = Inc(k), !.out = o]
       /\ \A p \in Ports \ {q} : cl'[p] = cl[p]
  BY <1>0, <1>9, <1>10, Zenon
<1>13. cl'[q].track = Inc(k) /\ cl'[q].out = o /\ cl'[q].pc = "wait"
  BY <1>0, <1>12, Zenon DEF Client
<1>14. /\ o \in Seq(Body) /\ (FromClient(q, a)') /\ (ClientSide(q)') /\ Goes(q)
  <2>1. CASE IsData(q, r)
    <3>1. Kind(r) = {"DAT"} /\ k \in 1 .. Size(q) /\ r.body = <<Wants[q], k>>
      BY <1>2, <2>1, Zenon DEF IsData
    <3>2. r.body \in Chunk /\ r.body # Empty
      <4>1. <<Wants[q], k>> \in Chunk BY <1>4, <1>5, <3>1 DEF Chunk, Hosted
      <4> QED BY <3>1, <4>1, HdrAssumption, ZenonT(40)
    <3>3. o = Append(First(q, k - 1), Printed(<<Wants[q], k>>))
      BY <1>7, <1>9, <3>1, <3>2, Zenon DEF Written
    <3>4. k - 1 \in Nat /\ (k - 1) + 1 = k /\ k - 1 < Size(q) /\ k \in Nat BY <1>5, <3>1
    <3>5. /\ Len(First(q, k - 1)) = k - 1
          /\ Append(First(q, k - 1), Printed(<<Wants[q], (k - 1) + 1>>)) = First(q, (k - 1) + 1)
      BY <3>4, FirstFacts, Zenon
    <3>6. o = First(q, k) BY <3>3, <3>4, <3>5, Zenon
    <3>7. Inc(k) = k + 1 /\ k + 1 \in 1 .. Size(q) + 1 /\ (k + 1) - 1 = k BY <1>5, <3>1
    <3>8. o \in Seq(Body)
      <4>1. o \in Seq(Prints(q)) BY <3>4, <3>6, FirstFacts, Zenon
      <4>2. Prints(q) \subseteq Body BY <1>4, Zenon DEF Body, Chunk, Hosted, Prints
      <4> QED BY <4>1, <4>2
    <3>9. FromClient(q, a)'
      <4>1. {"ACK"} \cup {"DAT"} = {"ACK", "DAT"} BY Zenon
      <4> QED BY <1>4, <1>11, <3>1, <4>1, Zenon DEF FromClient, Kind, Hosted, Size
    <3>10. ClientSide(q)'
      <4>1. /\ cl'[q].track \in 1 .. Size(q) + 1 /\ cl'[q].out = First(q, cl'[q].track - 1)
        BY <1>13, <3>6, <3>7, Zenon
      <4>2. cl'[q].pc # "done" BY <1>13, Zenon
      <4> QED BY <1>4, <4>1, <4>2, Zenon DEF ClientSide, Hosted, Size, First
    <3>11. Goes(q)
      <4>1. Len(cl[q].out) = k - 1 /\ Len(cl[q].out) + 1 = k BY <1>7, <3>4, <3>5, Zenon
      <4>2. cl'[q].out = Append(cl[q].out, Printed(<<Wants[q], Len(cl[q].out) + 1>>))
        BY <1>7, <1>13, <3>3, <4>1, Zenon
      <4>3. cl[q].pc # "done" /\ cl'[q].pc # "done" BY <1>13, Zenon
      <4>4. Len(cl[q].out) < Size(q) BY <3>4, <4>1, Zenon
      <4> QED BY <1>4, <4>2, <4>3, <4>4, Zenon DEF Goes
    <3> QED BY <3>8, <3>9, <3>10, <3>11, Zenon
  <2>2. CASE IsFin(q, r)
    <3>1. Kind(r) = {"FIN"} /\ k = Size(q) + 1 /\ r.body = Empty
      BY <1>2, <2>2, Zenon DEF IsFin
    <3>2. o = cl[q].out BY <1>9, <3>1, Zenon DEF Written
    <3>3. o \in Seq(Body) BY <1>0, <3>2, Zenon DEF Client
    <3>4. Complete(q)' BY <1>4, <1>13, <3>1, Zenon DEF Complete, Hosted, Size
    <3>5. FromClient(q, a)'
      <4>1. {"ACK"} \cup {"FIN"} = {"ACK", "FIN"} BY Zenon
      <4> QED BY <1>11, <3>1, <3>4, <4>1, Zenon DEF FromClient, Kind
    <3>6. k - 1 = Size(q) BY <1>5, <3>1
    <3>7. cl'[q].out = First(q, Size(q)) BY <1>7, <1>13, <3>2, <3>6, Zenon
    <3>8. ClientSide(q)' BY <3>4, <3>7, Zenon DEF ClientSide, Size, First
    <3>9. cl[q].pc # "done" /\ cl'[q].pc # "done" BY <1>13
    <3>10. Goes(q) BY <1>13, <3>2, <3>9, Zenon DEF Goes
    <3> QED BY <3>3, <3>5, <3>8, <3>10
  <2> QED BY <1>4, <2>1, <2>2, Zenon
<1>15. cl' \in [Ports -> Client]
  <2>1. Inc(k) \in Con BY <1>3, IncType, Zenon
  <2>2. [cl[q] EXCEPT !.mys = a, !.track = Inc(k), !.out = o] \in Client
    BY <1>0, <1>11, <1>14, <2>1, Zenon DEF Client
  <2>3. cl' = [cl EXCEPT ![q] = [cl[q] EXCEPT !.mys = a, !.track = Inc(k), !.out = o]]
    BY <1>0, <1>9, <1>10, Zenon
  <2> QED BY <1>0, <2>2, <2>3, Zenon
<1> QED BY <1>7, <1>10, <1>11, <1>12, <1>14, <1>15, Zenon DEF Moves

LEMMA DoneMoves ==
    ASSUME XferInv, NEW q \in Ports, cl[q].pc = "wait", NEW r \in s2c[q],
           Sound(q, r), Last(q, UnsetCHK(r)),
           cl' = [cl EXCEPT ![q].pc = "done"], UNCHANGED c2s
    PROVE  Moves(q)
<1>0. cl \in [Ports -> Client] /\ cl[q] \in Client /\ ClientSide(q)
  BY Zenon DEF XferInv, ClTypeOK, XferOK
<1>1. FromServer(q, r) /\ UnsetCHK(r).flags = Kind(r) BY SoundIsServers, Zenon
<1>2. Complete(q)
  <2>1. Kind(r) = {"FIN", "ACK"} BY <1>1, Zenon DEF Last, FLAG_CHECK
  <2> QED BY <2>1, Zenon DEF XferInv, XferOK, InFlight, ToClient
<1>3. cl'[q] = [cl[q] EXCEPT !.pc = "done"] /\ \A p \in Ports \ {q} : cl'[p] = cl[p]
  BY <1>0, Zenon
<1>4. cl'[q].track = cl[q].track /\ cl'[q].out = cl[q].out /\ cl'[q].pc = "done"
  BY <1>0, <1>3, Zenon DEF Client
<1>5. cl' \in [Ports -> Client]
  <2>1. [cl[q] EXCEPT !.pc = "done"] \in Client BY <1>0, Zenon DEF Client
  <2> QED BY <1>0, <2>1, Zenon
<1>6. Complete(q) <=> Complete(q)' BY <1>4, Zenon DEF Complete, Hosted, Size
<1>7. ClientSide(q)' BY <1>0, <1>2, <1>4, <1>6, Zenon DEF ClientSide, Hosted, Size, First
<1>8. Goes(q) BY <1>2, <1>4, Zenon DEF Goes
<1> QED BY <1>3, <1>5, <1>6, <1>7, <1>8, Zenon DEF Moves

----------------------------------------------------------------------------
\* The clients and the network keep the invariant.

\* What is left of the budgets.
Spending ==
    /\ budget' \in [Fault -> Nat]
    /\ \A y \in Fault : budget'[y] <= budget[y] /\ budget'[y] <= Budget[y]
    /\ \A y \in Fault : Spent(y) => Spent(y)'

LEMMA SpendOK ==
    ASSUME NetTypeOK, UNCHANGED budget \/ \E x \in Fault : Spend(x)
    PROVE  Spending
<1>1. CASE UNCHANGED budget
  <2>1. \A y \in Fault : budget[y] <= budget[y] /\ budget[y] <= Budget[y]
    BY NetAssumption DEF NetTypeOK
  <2> QED BY <1>1, <2>1, Zenon DEF Spending, NetTypeOK, Spent
<1>2. CASE \E x \in Fault : Spend(x) BY <1>2, SpendMono, Zenon DEF Spending
<1> QED BY <1>1, <1>2, Zenon

LEMMA ClientStep ==
    ASSUME Fits, XferInv, NEW q \in Ports, ClNext(q)
    PROVE  /\ Moves(q) /\ Spending
           /\ s2c' \in [Ports -> SUBSET Packet]
           /\ \A p \in Ports : s2c'[p] \subseteq s2c[p]
<1>0. /\ NetTypeOK /\ s2c \in [Ports -> SUBSET Packet]
      /\ "dup" \in Fault /\ "nak" \in Fault
      /\ cl[q].misD \in BOOLEAN
  BY Zenon DEF XferInv, SvrInv, NetTypeOK, Fault, ClTypeOK, Client
<1>1. CASE ClientGet(q)
  BY <1>0, <1>1, GetMoves, SpendOK, Zenon DEF ClientGet
<1>2. ASSUME NEW r \in s2c[q], ClientRead(q, r) \/ ClientRefuse(q, r)
      PROVE  /\ Moves(q) /\ Spending
             /\ s2c' \in [Ports -> SUBSET Packet]
             /\ \A p \in Ports : s2c'[p] \subseteq s2c[p]
  <2>1. /\ UNCHANGED s2c \/ s2c' = [s2c EXCEPT ![q] = @ \ {r}]
        /\ UNCHANGED budget \/ \E x \in Fault : Spend(x)
    BY <1>0, <1>2, Zenon DEF ClientRead, ClientRefuse, TakeS2C
  <2>2. Spending BY <1>0, <2>1, SpendOK, Zenon
  <2>3. /\ s2c' \in [Ports -> SUBSET Packet]
        /\ \A p \in Ports : s2c'[p] \subseteq s2c[p]
    BY <1>0, <2>1, Zenon
  <2>4. Moves(q)
    <3>1. CASE ClientRefuse(q, r) BY <3>1, NakMoves, Zenon DEF ClientRefuse
    <3>2. CASE ClientRead(q, r)
      <4>0. cl[q].pc = "wait" BY <3>2, Zenon DEF ClientRead
      <4>1. CASE /\ Sound(q, r) /\ Last(q, UnsetCHK(r))
                 /\ cl' = [cl EXCEPT ![q].pc = "done"] /\ UNCHANGED c2s
        BY <4>0, <4>1, DoneMoves, Zenon
      <4>2. CASE Sound(q, r) /\ Expected(q, UnsetCHK(r)) /\ Accept(q, UnsetCHK(r))
        BY <4>0, <4>2, AcceptMoves, Zenon
      <4>3. CASE Nak(q, cl[q].misD) BY <1>0, <4>0, <4>3, NakMoves, Zenon
      <4> QED BY <3>2, <4>1, <4>2, <4>3, Zenon DEF ClientRead
    <3> QED BY <1>2, <3>1, <3>2, Zenon
  <2> QED BY <2>2, <2>3, <2>4, Zenon
<1> QED BY <1>1, <1>2, Zenon DEF ClNext

LEMMA ClientKeeps ==
    ASSUME Fits, XferInv, NEW q \in Ports, ClNext(q), UNCHANGED svrVars
    PROVE  XferInv'
<1>0. /\ SvrInv /\ NetTypeOK /\ RuntCounted
      /\ c2s \in [Ports -> SUBSET (Packet \cup {Runt})]
  BY Zenon DEF XferInv, SvrInv, NetTypeOK
<1>1. /\ Moves(q) /\ Spending
      /\ s2c' \in [Ports -> SUBSET Packet]
      /\ \A p \in Ports : s2c'[p] \subseteq s2c[p]
  BY ClientStep, Zenon
<1>2. /\ cl' \in [Ports -> Client]
      /\ \A p \in Ports \ {q} : cl'[p] = cl[p]
      /\ Complete(q) => Complete(q)'
      /\ ClientSide(q)'
  BY <1>1, Zenon DEF Moves
<1>3. /\ c2s' \in [Ports -> SUBSET (Packet \cup {Runt})]
      /\ \A p \in Ports \ {q} : c2s'[p] = c2s[p]
      /\ \A m \in c2s'[q] : m \in c2s[q] \/ (m \in Packet /\ FromClient(q, m)')
  <2>1. CASE UNCHANGED c2s BY <1>0, <2>1, Zenon
  <2>2. CASE \E a \in Packet : FromClient(q, a)' /\ c2s' = [c2s EXCEPT ![q] = Put(@, a)]
    <3>1. PICK a \in Packet : FromClient(q, a)' /\ c2s' = [c2s EXCEPT ![q] = Put(@, a)]
      BY <2>2, Zenon
    <3>2. /\ c2s'[q] = Put(c2s[q], a)
          /\ \A p \in Ports \ {q} : c2s'[p] = c2s[p]
      BY <1>0, <3>1, Zenon
    <3>3. Put(c2s[q], a) \subseteq c2s[q] \cup {a} BY Zenon DEF Put
    <3>4. Put(c2s[q], a) \in SUBSET (Packet \cup {Runt}) BY <1>0, <3>3, Zenon
    <3>5. c2s' \in [Ports -> SUBSET (Packet \cup {Runt})] BY <1>0, <3>1, <3>4, Zenon
    <3>6. \A m \in c2s'[q] : m \in c2s[q] \/ m = a BY <3>2, <3>3, Zenon
    <3> QED BY <3>1, <3>2, <3>5, <3>6, Zenon
  <2> QED BY <1>1, <2>1, <2>2, Zenon DEF Moves
<1>4. Env
  <2>1. NetTypeOK' BY <1>1, <1>3, Zenon DEF NetTypeOK, Spending
  <2>2. ASSUME NEW p \in Ports, Runt \in c2s'[p] PROVE Spent("runt")'
    <3>1. Runt \in c2s[p] BY <1>3, <2>2, NetAssumption, Zenon
    <3>2. Spent("runt") BY <1>0, <3>1, Zenon DEF RuntCounted
    <3> QED BY <1>1, <3>2, Zenon DEF Spending, Fault
  <2> QED BY <1>1, <2>1, <2>2, Zenon DEF Env, Spending
<1>5. SvrInv' BY <1>0, <1>4, StepInv, Zenon
<1>6. ASSUME NEW p \in Ports PROVE XferOK(p)'
  <2>1. XferOK(p) BY Zenon DEF XferInv
  <2>2. Complete(p) => Complete(p)'
    BY <1>2, Zenon DEF Complete, Hosted, Size
  <2>3. ClientSide(p)'
    BY <1>2, <2>1, Zenon DEF XferOK, ClientSide, Complete, Hosted, Size, First
  <2>4. state'[p] = state[p] /\ main' = main BY Zenon DEF svrVars
  <2>5. ServerSide(p, state[p])' BY <2>1, <2>2, <2>4, Kept, Zenon DEF XferOK
  <2>6. ASSUME NEW m \in c2s'[p] PROVE FromClient(p, m)'
    <3>1. m \in c2s[p] \/ (p = q /\ FromClient(q, m)') BY <1>3, <2>6, Zenon
    <3>2. CASE m \in c2s[p] BY <2>1, <2>2, <3>2, Kept, Zenon DEF XferOK, InFlight
    <3>3. CASE p = q /\ FromClient(q, m)' BY <3>3, Zenon
    <3> QED BY <3>1, <3>2, <3>3, Zenon
  <2>7. ASSUME NEW m \in s2c'[p] PROVE ToClient(p, m)'
    <3>1. m \in s2c[p] BY <1>1, <2>7, Zenon
    <3> QED BY <2>1, <2>2, <3>1, Kept, Zenon DEF XferOK, InFlight
  <2>8. ASSUME Entering(p)' PROVE FromClient(p, main.m)'
    <3>1. Entering(p) BY <2>4, <2>8, Zenon DEF Entering
    <3>2. FromClient(p, main.m) BY <2>1, <3>1, Zenon DEF XferOK, InFlight
    <3> QED BY <2>2, <2>4, <3>2, Kept, Zenon
  <2>9. InFlight(p)' BY <2>6, <2>7, <2>8, Zenon DEF InFlight
  <2> QED BY <2>3, <2>5, <2>9, Zenon DEF XferOK
<1> QED BY <1>2, <1>5, <1>6, Zenon DEF XferInv, ClTypeOK

\* The network loses packets, and those that it damages fail the checksum.
LEMMA NetKeeps ==
    ASSUME Guarded, XferInv, NetNext, UNCHANGED <<svrVars, cl>>
    PROVE  XferInv'
<1>0. /\ SvrInv /\ NetTypeOK /\ RuntCounted
      /\ c2s \in [Ports -> SUBSET (Packet \cup {Runt})]
      /\ s2c \in [Ports -> SUBSET Packet]
      /\ "lose" \in Fault /\ "damage" \in Fault /\ "runt" \in Fault
  BY Zenon DEF XferInv, SvrInv, NetTypeOK, Fault
<1>1. PICK q \in Ports : Lose(q) \/ Damage(q) BY Zenon DEF NetNext
<1>2. Spending BY <1>0, <1>1, SpendOK, Zenon DEF Lose, Damage
<1>3. /\ c2s' \in [Ports -> SUBSET (Packet \cup {Runt})]
      /\ \A p \in Ports : c2s'[p] \subseteq c2s[p]
  BY <1>0, <1>1, Zenon DEF Lose, Damage
<1>4. /\ s2c' \in [Ports -> SUBSET Packet]
      /\ \A p \in Ports : \A m \in s2c'[p] :
            m \in s2c[p] \/ (Chk[p] /\ ~m.sum /\ \E r \in s2c[p] : Kind(m) = Kind(r))
  <2>1. CASE Lose(q) BY <1>0, <2>1, Zenon DEF Lose
  <2>2. CASE Damage(q)
    <3>1. PICK r \in s2c[q] : s2c' = [s2c EXCEPT ![q] = (@ \ {r}) \cup {Damaged(r)}]
      BY <2>2, Zenon DEF Damage
    <3>2. PICK d : d = Damaged(r) BY Zenon
    <3>3. r \in Packet BY <1>0, Zenon
    <3>4. Garbage \in Body BY Zenon DEF Body
    <3>5. d = [r EXCEPT !.body = Garbage, !.sum = FALSE] BY <3>2, Zenon DEF Damaged
    <3>6. d \in Packet BY <3>3, <3>4, <3>5, Zenon DEF Packet
    <3>7. Kind(d) = Kind(r) BY <3>3, <3>5, Zenon DEF Kind, Packet
    <3>8. ~d.sum BY <3>3, <3>5, Zenon DEF Packet
    <3>9. Chk[q]
      <4>1. SUFFICES ASSUME ~Chk[q] PROVE FALSE BY Zenon
      <4>2. "damage" \notin Free /\ Budget["damage"] = 0 BY <4>1, Zenon DEF Guarded
      <4>3. budget["damage"] > 0 BY <2>2, <4>2, Zenon DEF Damage, Spend
      <4>4. budget["damage"] <= Budget["damage"] /\ budget["damage"] \in Nat
        BY <1>0, Zenon DEF NetTypeOK
      <4> QED BY <4>2, <4>3, <4>4
    <3>10. s2c' = [s2c EXCEPT ![q] = (@ \ {r}) \cup {d}] BY <3>1, <3>2, Zenon
    <3>11. s2c' \in [Ports -> SUBSET Packet] BY <1>0, <3>6, <3>10, Zenon
    <3>12. \A p \in Ports : \A m \in s2c'[p] : m \in s2c[p] \/ (p = q /\ m = d)
      BY <1>0, <3>10, Zenon
    <3> QED BY <3>7, <3>8, <3>9, <3>11, <3>12, Zenon
  <2> QED BY <1>1, <2>1, <2>2, Zenon
<1>5. Env
  <2>1. NetTypeOK' BY <1>2, <1>3, <1>4, Zenon DEF NetTypeOK, Spending
  <2>2. ASSUME NEW p \in Ports, Runt \in c2s'[p] PROVE Spent("runt")'
    <3>1. Spent("runt") BY <1>0, <1>3, <2>2, Zenon DEF RuntCounted
    <3> QED BY <1>0, <1>2, <3>1, Zenon DEF Spending
  <2> QED BY <1>2, <2>1, <2>2, Zenon DEF Env, Spending
<1>6. SvrInv' BY <1>0, <1>5, StepInv, Zenon
<1>7. ASSUME NEW p \in Ports PROVE XferOK(p)'
  <2>1. XferOK(p) BY Zenon DEF XferInv
  <2>2. Complete(p) => Complete(p)' BY Zenon DEF Complete, Hosted, Size
  <2>3. ClientSide(p)'
    BY <2>1, Zenon DEF XferOK, ClientSide, Complete, Hosted, Size, First
  <2>4. state'[p] = state[p] /\ main' = main BY Zenon DEF svrVars
  <2>5. ServerSide(p, state[p])' BY <2>1, <2>2, <2>4, Kept, Zenon DEF XferOK
  <2>6. ASSUME NEW m \in c2s'[p] PROVE FromClient(p, m)'
    <3>1. m \in c2s[p] BY <1>3, <2>6, Zenon
    <3> QED BY <2>1, <2>2, <3>1, Kept, Zenon DEF XferOK, InFlight
  <2>7. ASSUME NEW m \in s2c'[p] PROVE ToClient(p, m)'
    <3>1. \A r \in s2c[p] : ToClient(p, r) BY <2>1, Zenon DEF XferOK, InFlight
    <3>2. ToClient(p, m)
      <4>1. CASE m \in s2c[p] BY <3>1, <4>1, Zenon
      <4>2. CASE Chk[p] /\ ~m.sum /\ \E r \in s2c[p] : Kind(m) = Kind(r)
        <5>1. PICK r \in s2c[p] : Kind(m) = Kind(r) BY <4>2, Zenon
        <5>2. Kind(r) = {"FIN", "ACK"} => Complete(p) BY <3>1, Zenon DEF ToClient
        <5> QED BY <4>2, <5>1, <5>2, Zenon DEF ToClient
      <4> QED BY <1>4, <2>7, <4>1, <4>2, Zenon
    <3> QED BY <2>2, <3>2, Kept, Zenon
  <2>8. ASSUME Entering(p)' PROVE FromClient(p, main.m)'
    <3>1. Entering(p) BY <2>4, <2>8, Zenon DEF Entering
    <3>2. FromClient(p, main.m) BY <2>1, <3>1, Zenon DEF XferOK, InFlight
    <3> QED BY <2>2, <2>4, <3>2, Kept, Zenon
  <2>9. InFlight(p)' BY <2>6, <2>7, <2>8, Zenon DEF InFlight
  <2> QED BY <2>3, <2>5, <2>9, Zenon DEF XferOK
<1> QED BY <1>6, <1>7, Zenon DEF XferInv, ClTypeOK

----------------------------------------------------------------------------
\* The theorems.

LEMMA XferInit == Init => XferInv
<1> SUFFICES ASSUME Init PROVE XferInv BY Zenon
<1>1. SvrInit /\ NetInit /\ ClInit BY Zenon DEF Init
<1>2. SvrInv BY <1>1, InitInv, Zenon
<1>3. 1 \in Con BY HdrAssumption DEF Con
<1>4. <<>> \in Seq(Body) OBVIOUS
<1>5. ClTypeOK BY <1>1, <1>3, <1>4, Zenon DEF ClInit, ClTypeOK, Client
<1>6. ASSUME NEW p \in Ports PROVE XferOK(p)
  <2>1. /\ cl[p].pc = "new" /\ cl[p].track = 1 /\ cl[p].out = <<>>
        /\ state[p] = NewState /\ c2s[p] = {} /\ s2c[p] = {} /\ main.pc # "lock"
    BY <1>1, Zenon DEF ClInit, SvrInit, NetInit, Scan
  <2>2. NewState.curr = None /\ ~NewState.chksum BY Zenon DEF NewState
  <2>3. ServerSide(p, state[p]) BY <2>1, <2>2, Zenon DEF ServerSide
  <2>4. InFlight(p) BY <2>1, Zenon DEF InFlight, Entering
  <2>5. ClientSide(p)
    <3>1. CASE Hosted(p)
      <4>1. Size(p) \in Nat \ {0} BY <3>1, HdrAssumption, Zenon DEF Hosted, Size
      <4>2. 1 \in 1 .. Size(p) + 1 /\ 1 - 1 = 0 BY <4>1
      <4>3. First(p, 0) = <<>> BY FirstFacts, Zenon
      <4>4. cl[p].out = First(p, cl[p].track - 1) BY <2>1, <4>2, <4>3, Zenon
      <4> QED BY <2>1, <3>1, <4>2, <4>4, Zenon DEF ClientSide
    <3>2. CASE ~Hosted(p) BY <2>1, <3>2, Zenon DEF ClientSide
    <3> QED BY <3>1, <3>2, Zenon
  <2> QED BY <2>3, <2>4, <2>5, Zenon DEF XferOK
<1> QED BY <1>2, <1>5, <1>6, Zenon DEF XferInv

LEMMA XferNext ==
    ASSUME Fits, Guarded, XferInv, [Next]_vars
    PROVE  XferInv'
<1>1. CASE SvrNext /\ UNCHANGED cl
  <2>1. SvrInv' BY <1>1, StepInv, Zenon DEF XferInv
  <2>2. ClTypeOK' BY <1>1, Zenon DEF XferInv, ClTypeOK
  <2>3. \A p \in Ports : XferOK(p)' BY <1>1, ServerKeeps, Zenon
  <2> QED BY <2>1, <2>2, <2>3, Zenon DEF XferInv
<1>2. CASE NetNext /\ UNCHANGED <<svrVars, cl>> BY <1>2, NetKeeps, Zenon
<1>3. ASSUME NEW p \in Ports, ClNext(p), UNCHANGED svrVars PROVE XferInv'
  BY <1>3, ClientKeeps, Zenon
<1>4. CASE UNCHANGED vars
  <2>1. UNCHANGED svrVars /\ UNCHANGED cl /\ UNCHANGED netVars BY <1>4, Zenon DEF vars
  <2>2. UNCHANGED sv BY <2>1, Zenon DEF sv
  <2>3. SvrInv' BY <2>2, StepInv, Zenon DEF XferInv
  <2>4. ASSUME NEW p \in Ports PROVE XferOK(p)'
    <3>1. XferOK(p) BY Zenon DEF XferInv
    <3>2. Complete(p) => Complete(p)' BY <2>1, Zenon DEF Complete, Hosted, Size
    <3>3. ClientSide(p)'
      BY <2>1, <3>1, Zenon DEF XferOK, ClientSide, Complete, Hosted, Size, First
    <3>4. state'[p] = state[p] /\ main' = main /\ c2s' = c2s /\ s2c' = s2c
      BY <2>1, Zenon DEF svrVars, netVars
    <3>5. ServerSide(p, state[p])' BY <3>1, <3>2, <3>4, Kept, Zenon DEF XferOK
    <3>6. InFlight(p)' BY <3>1, <3>2, <3>4, Kept, Zenon DEF XferOK, InFlight, Entering
    <3> QED BY <3>3, <3>5, <3>6, Zenon DEF XferOK
  <2> QED BY <2>1, <2>3, <2>4, Zenon DEF XferInv, ClTypeOK
<1> QED BY <1>1, <1>2, <1>3, <1>4, Zenon DEF Next

\* Server, clients and network keep the transfer invariant, if no file has more
\* chunks than there are sequence numbers and only a client with -c meets damage.
THEOREM TransferInvariant ==
    ASSUME Fits, Guarded
    PROVE  Spec => []XferInv
<1>1. Init => XferInv BY XferInit, Zenon
<1>2. XferInv /\ [Next]_vars => XferInv' BY XferNext, Zenon
<1> QED BY <1>1, <1>2, PTL DEF Spec

LEMMA ContentIs ==
    ASSUME NEW p \in Ports
    PROVE  Content[p] = IF Hosted(p) THEN First(p, Size(p)) ELSE <<>>
BY Zenon DEF Content, Hosted, First, Size

LEMMA CompleteHasAll ==
    ASSUME Fits, NEW p \in Ports, ClientSide(p), Complete(p)
    PROVE  cl[p].out = Content[p]
<1>1. Hosted(p) /\ cl[p].track = Inc(Size(p) + 1) BY Zenon DEF Complete
<1>2. Inc(Size(p) + 1) \notin 1 .. Size(p) + 1 BY <1>1, Numbers, Zenon
<1>3. cl[p].out = First(p, Size(p)) BY <1>1, <1>2, Zenon DEF ClientSide
<1> QED BY <1>1, <1>3, ContentIs, Zenon

\* The server's FIN|ACK: the client has the whole file when the server forgets
\* the transfer, whatever the network did to it.
THEOREM FinAckComplete ==
    ASSUME Fits, Guarded
    PROVE  Spec => []FinAckMeansComplete
<1>1. XferInv => FinAckMeansComplete
  <2> SUFFICES ASSUME XferInv PROVE FinAckMeansComplete BY Zenon
  <2>1. TypeOK BY Zenon DEF XferInv, SvrInv, TypeOK
  <2>2. ASSUME NEW p \in Ports, NEW m \in s2c[p], FLAG_CHECK(UnsetCHK(m), {"FIN", "ACK"})
        PROVE  cl[p].out = Content[p]
    <3>1. ClientSide(p) /\ ToClient(p, m) /\ m \in Packet
      BY <2>2, Zenon DEF XferInv, XferOK, InFlight, SvrInv, NetTypeOK
    <3>2. Kind(m) = {"FIN", "ACK"} BY <2>2, <3>1, Zenon DEF FLAG_CHECK, UnsetCHK, Kind, Packet
    <3>3. Complete(p) BY <3>1, <3>2, Zenon DEF ToClient
    <3> QED BY <3>1, <3>3, CompleteHasAll, Zenon
  <2> QED BY <2>1, <2>2, Zenon DEF FinAckMeansComplete
<1>2. Spec => []XferInv BY TransferInvariant, Zenon
<1> QED BY <1>1, <1>2, PTL

\* The refinement mapping of RUSHB!FT.
Out == [p \in Ports |-> cl[p].out]
Ended == [p \in Ports |-> cl[p].pc = "done"]

\* A step of one client writes its next chunk, ends it, or changes neither.
LEMMA ClientImplements ==
    ASSUME Fits, XferInv, NEW q \in Ports, ClNext(q)
    PROVE  FT!Next \/ UNCHANGED <<Out, Ended>>
<1>1. Moves(q) BY ClientStep, Zenon
<1>2. Goes(q) /\ \A p \in Ports \ {q} : cl'[p] = cl[p] BY <1>1, Zenon DEF Moves
<1>3. ASSUME cl'[q].out = cl[q].out, cl[q].pc # "done", cl'[q].pc # "done"
      PROVE  UNCHANGED <<Out, Ended>>
  <2>1. \A p \in Ports : cl'[p].out = cl[p].out /\ (cl'[p].pc = "done" <=> cl[p].pc = "done")
    BY <1>2, <1>3, Zenon
  <2> QED BY <2>1, Zenon DEF Out, Ended
<1>4. ASSUME cl[q].pc # "done", cl'[q].pc # "done", Hosted(q), Len(cl[q].out) < Size(q),
             cl'[q].out = Append(cl[q].out, Printed(<<Wants[q], Len(cl[q].out) + 1>>))
      PROVE  FT!Write(q)
  <2> DEFINE n == Len(cl[q].out)
  <2>1. n \in Nat
    <3>1. cl[q].out \in Seq(Body) BY Zenon DEF XferInv, ClTypeOK, Client
    <3> QED BY <3>1
  <2>2. Size(q) \in Nat BY <1>4, Numbers, Zenon
  <2>3. Content[q] = First(q, Size(q)) BY <1>4, ContentIs, Zenon
  <2>4. n < Len(Content[q])
    <3>1. Len(First(q, Size(q))) = Size(q) BY <2>2, FirstFacts, Zenon
    <3> QED BY <1>4, <2>3, <3>1, Zenon
  <2>5. Content[q][n + 1] = Printed(<<Wants[q], n + 1>>)
    <3>1. n + 1 \in 1 .. Size(q) BY <1>4, <2>1, <2>2
    <3> QED BY <2>3, <3>1, Zenon DEF First
  <2>6. Out[q] = cl[q].out /\ ~Ended[q] BY <1>4, Zenon DEF Out, Ended
  <2>7. Ended' = Ended BY <1>2, <1>4, Zenon DEF Ended
  <2>8. Out' = [Out EXCEPT ![q] = Append(@, Content[q][Len(@) + 1])]
    <3> DEFINE x == Append(cl[q].out, Content[q][n + 1])
    <3>1. cl'[q].out = x BY <1>4, <2>5, Zenon
    <3>2. Append(Out[q], Content[q][Len(Out[q]) + 1]) = x BY <2>6, Zenon
    <3> HIDE DEF x
    <3>3. Out' = [Out EXCEPT ![q] = x] BY <1>2, <3>1, Zenon DEF Out
    <3> QED BY <3>2, <3>3, Zenon
  <2> QED BY <2>4, <2>6, <2>7, <2>8, Zenon DEF FT!Write, Out, Ended
<1>5. ASSUME cl[q].pc # "done", cl'[q].pc = "done", Complete(q), cl'[q].out = cl[q].out
      PROVE  FT!Finish(q)
  <2>1. ClientSide(q) BY Zenon DEF XferInv, XferOK
  <2>2. cl[q].out = Content[q] BY <1>5, <2>1, CompleteHasAll, Zenon
  <2>3. Out' = Out BY <1>2, <1>5, Zenon DEF Out
  <2>4. Ended' = [Ended EXCEPT ![q] = TRUE] BY <1>2, <1>5, Zenon DEF Ended
  <2>5. Out[q] = Content[q] /\ ~Ended[q] BY <1>5, <2>2, Zenon DEF Out, Ended
  <2> QED BY <2>3, <2>4, <2>5, Zenon DEF FT!Finish, Out, Ended
<1> QED BY <1>2, <1>3, <1>4, <1>5, Zenon DEF Goes, FT!Next

\* RUSHB implements FileTransfer: each file is written once, in order, without
\* a gap, and a client that ends with success has all of it.
THEOREM RUSHBImplements ==
    ASSUME Fits, Guarded
    PROVE  Spec => Transfers
<1>1. Init => FT!Init
  <2> SUFFICES ASSUME Init PROVE FT!Init BY Zenon
  <2>1. \A p \in Ports : cl[p].out = <<>> /\ cl[p].pc # "done"
    BY Zenon DEF Init, ClInit
  <2>2. Out = [p \in Ports |-> <<>>] /\ Ended = [p \in Ports |-> FALSE]
    BY <2>1, Zenon DEF Out, Ended
  <2> QED BY <2>2, Zenon DEF FT!Init, Out, Ended
<1>2. XferInv /\ [Next]_vars => [FT!Next]_<<Out, Ended>>
  <2> SUFFICES ASSUME XferInv, [Next]_vars PROVE FT!Next \/ UNCHANGED <<Out, Ended>>
    BY Zenon
  <2>1. CASE UNCHANGED cl BY <2>1, Zenon DEF Out, Ended
  <2>2. ASSUME NEW p \in Ports, ClNext(p) PROVE FT!Next \/ UNCHANGED <<Out, Ended>>
    BY <2>2, ClientImplements, Zenon
  <2> QED BY <2>1, <2>2, Zenon DEF Next, vars
<1>3. Spec => []XferInv BY TransferInvariant
<1>4. Spec => FT!Init /\ [][FT!Next]_<<Out, Ended>> BY <1>1, <1>2, <1>3, PTL DEF Spec
<1> QED BY <1>4, PTL DEF Transfers, FT!Spec, Out, Ended
=============================================================================
