------------------------------- MODULE Switch -------------------------------
(***************************************************************************)
(* The link-layer switches of 2.1.LinkLayerSim (RSrvTHandle.h,             *)
(* RSrvUHandle.h, RTUp.h).                                                 *)
(*                                                                         *)
(* A switch is a poll loop over standard input, a UDP socket for its       *)
(* adaptors, a listening TCP socket and its TCP connections.  A local      *)
(* switch has no listening socket and no TCP name, a global one no UDP     *)
(* socket, a mixed one has both.  Every handler is a function from the     *)
(* state of the switch and a packet to its new state and what it writes.   *)
(* A switch may be ended; its neighbours find that when they read.         *)
(*                                                                         *)
(* A scenario says who the switches are, what is typed at them and what    *)
(* their adaptors send; it is chosen at the start and does not change.     *)
(***************************************************************************)
EXTENDS RTables

CONSTANTS Switches, Adaptors, Scenarios

VARIABLES
    scn,      \* [self, types, home, sends, eager, apart, ends]
    sw,       \* the switches: lists, tables and address pools
    wire,     \* wire[<<c, s>>]: what s has not yet read of connection c
    skew,     \* the ends <<c, s>> at which packets no longer start where a read does
    lost,     \* the ends at which a packet was lost in that way (a record for the properties)
    ad,       \* the adaptors
    tosw, toad, \* datagrams from and to every adaptor
    gone,     \* the switches that were ended
    crashed

vars == <<scn, sw, wire, skew, lost, ad, tosw, toad, gone, crashed>>

Self(s) == scn.self[s]
Name(s) == Self(s).name
HasUdp(s) == Self(s).uname # NoName
IsMixed(s) == HasUdp(s) /\ Name(s) # NoName

\* A connection is the pair of who connects and who accepts, which only a switch
\* with a TCP name does.
Links == {<<s, t>> \in Switches \X Switches : t \in ToSet(scn.types[s]) /\ Name(t) # NoName}
Ends == UNION {{<<c, c[1]>>, <<c, c[2]>>} : c \in Links}
Peer(c, s) == IF c[1] = s THEN c[2] ELSE c[1]

Greet(mode, src, dst, ip) == [mode |-> mode, src |-> src, dst |-> dst, ip |-> ip]
Location(src, dst, s) == [mode |-> "location", src |-> src, dst |-> dst,
                          x |-> Self(s).x, y |-> Self(s).y]
Broadcast(src, dst, target, d) ==
    [mode |-> "broadcast", src |-> src, dst |-> dst, target |-> target, d |-> d]
Query(mode, src, dst) == [mode |-> mode, src |-> src, dst |-> dst, short |-> FALSE]

\* A packet p of an adaptor and how many buffers it fills, and part i of it.
Data(src, dst, p, parts) ==
    [mode |-> "data", src |-> src, dst |-> dst, p |-> p, part |-> 1, parts |-> parts]
Parts(pkt) == [i \in 1 .. pkt.parts |-> [pkt EXCEPT !.part = i]]

\* rTcp_write_short leaves out what follows the payload, which fills every part
\* but the last and which a query accept does not have.
IsShort(m) == \/ m.mode \in {"data", "more", "last"} /\ m.part = m.parts
              \/ m.mode = "accept" /\ m.short

NoAssign == [src |-> Zero, dst |-> Zero, ip |-> Zero, ack |-> FALSE]
Entry(c) == [conn |-> c, ip |-> NoName, buf |-> "none", offer |-> Zero,
             assign |-> NoAssign, dist |-> 0, mail |-> <<>>]

\* What a handler leaves: the state, the writes to connections and to adaptors.
Res(st, out, udp) == [st |-> st, out |-> out, udp |-> udp, crash |-> FALSE]
Ok(st, out) == Res(st, out, <<>>)
Crash(st) == [Ok(st, <<>>) EXCEPT !.crash = TRUE]

\* st.fds[n] has the connections that were given descriptor n, the last one last;
\* st.shut those that are closed.  An entry of a list keeps its descriptor when its
\* connection is closed, and the next connection gets it.
Opened(st, c) ==
    LET free == {n \in DOMAIN st.fds : Last(st.fds[n]) \in st.shut}
    IN  IF free = {} THEN [st EXCEPT !.fds = Append(@, <<c>>)]
        ELSE [st EXCEPT !.fds[Min(free)] = Append(@, c)]
FdOf(st, c) == CHOOSE n \in DOMAIN st.fds : c \in ToSet(st.fds[n])
Now(st, c) == Last(st.fds[FdOf(st, c)])

rDst_calc_dist(x1, x2, y1, y2) ==
    LET s == (x2 - x1) * (x2 - x1) + (y2 - y1) * (y2 - y1)
    IN  CHOOSE r \in 0 .. s : r * r <= s /\ s < (r + 1) * (r + 1)

\* A distance is an unsigned number of four bytes, of 16 values each here, and
\* sums wrap round.  htonl turns the order of its bytes.
DistByte == 16
Plus(d, e) == (d + e) % DistByte^4
htonl(d) == LET byte(i) == (d \div DistByte^i) % DistByte
            IN  byte(3) + byte(2) * DistByte + byte(1) * DistByte^2 + byte(0) * DistByte^3

\* rsSvrTcp_find_switch_ip without and with a connection.
ByIp(list, ip) == SelectInSeq(list, LAMBDA e : e.ip = ip)
ByAddr(list, c) == SelectInSeq(list, LAMBDA e : e.buf = "addr" /\ e.conn[2] = c[2])

----------------------------------------------------------------------------
\* Greeting.  Who connects sends the discovery and keeps the other's address in
\* the buffer of the entry.
rsSvrTcp_establish(st, c) ==
    Ok([Opened(st, c) EXCEPT !.con = Append(@, [Entry(c) EXCEPT !.buf = "addr"])],
       <<[c |-> c, m |-> Greet("discovery", Zero, Zero, Zero)]>>)

\* The address offered is the next one, in range or not; the entry takes it from
\* the pool, or none.  The connection was accepted before it was read.
Discovery(s, st, c, m) ==
    LET ip == NextIp(st.op.cur)
    IN  Ok([Opened(st, c) EXCEPT !.op = Advance(@),
                      !.head = Append(@, [Entry(c) EXCEPT !.ip = rIpop_assign_ip(st.op),
                                                          !.buf = "greet", !.offer = ip])],
           <<[c |-> c, m |-> Greet("offer", Put(Name(s)), Zero, ip)]>>)

Offer(s, st, c, m) ==
    LET i == ByAddr(st.con, c)
    IN  IF i = 0 THEN Crash(st)
        ELSE Ok([st EXCEPT !.con[i].ip = m.ip],
                <<[c |-> c, m |-> Greet("request", Zero, m.src, m.ip)]>>)

Request(s, st, c, m) ==
    LET i == ByIp(st.head, m.ip)
        ip == st.head[i].offer
    IN  IF i = 0 THEN Ok(st, <<>>)
        ELSE Ok(st, <<[c |-> c, m |-> Greet("ack", Put(Name(s)), ip, ip)]>>)

Acknowledge(s, st, c, m) ==
    LET i == ByAddr(st.con, c)
        got == [src |-> m.src, dst |-> m.dst, ip |-> m.ip, ack |-> TRUE]
    IN  IF i = 0 THEN Crash(st)
        ELSE Ok([st EXCEPT !.con[i].assign = got, !.con[i].buf = "location"],
                <<[c |-> c, m |-> Location(m.dst, m.src, s)]>>)

----------------------------------------------------------------------------
\* Locations and distances.

\* The address of neighbour e of a list, and the switch's own towards it.
PeerAddr(list, e) == IF list = "con" THEN e.assign.src ELSE e.ip
OwnAddr(s, list, e) == IF list = "con" THEN e.assign.dst ELSE Put(Name(s))

\* Not told of a target: the target, and who has not acknowledged its address.
\* The assignment of a neighbour that connected is all zero.
Skip(list, e, target) ==
    PeerAddr(list, e) = target \/ IF list = "con" THEN ~e.assign.ack ELSE Zero = target

\* Whom to tell, out of a list, of a target at distance d from this switch.
Tell(s, st, list, target, d) ==
    LET told == SelectSeq(st[list], LAMBDA e : ~Skip(list, e, target))
    IN  [i \in DOMAIN told |->
           [c |-> told[i].conn,
            m |-> Broadcast(OwnAddr(s, list, told[i]), PeerAddr(list, told[i]), target,
                            Plus(d, told[i].dist))]]

RepliesNot(e) == FALSE
Replies(e) == e.buf # "location"

\* A neighbour's location: answer it once, note the distance and tell the others.
\* A mixed switch puts its UDP name where the neighbour's address was, and keeps
\* it for everyone it tells.
LocationSend(s, st, c, m) ==
    LET i == ByIp(st.head, m.src)
        j == SelectLastInSeq(st.con, LAMBDA e : e.assign.src = m.src)
        d == rDst_calc_dist(Self(s).x, m.x, Self(s).y, m.y)
        reply == IF i > 0 /\ Replies(st.head[i])
                 THEN <<[c |-> c, m |-> Location(m.dst, m.src, s)]>> ELSE <<>>
        noted == IF i > 0 THEN [st EXCEPT !.head[i].dist = d, !.head[i].buf = "location"]
                 ELSE [st EXCEPT !.con[j].dist = d]
        target == IF IsMixed(s) THEN Put(Self(s).uname) ELSE m.src
        own == IF IsMixed(s) THEN <<[c |-> c, m |-> Broadcast(m.dst, m.src, target, d)]>> ELSE <<>>
        others == Tell(s, noted, "con", target, d) \o Tell(s, noted, "head", target, d)
    IN  IF i = 0 /\ j = 0 THEN Crash(st)
        ELSE Ok([noted EXCEPT !.map = rMap_append(@, m.dst, m.src, d)],
                reply \o own \o others)

KnowsNot(m, his) == his \in {m.target, m.dst}

\* Not told: the target, the sender and the receiver of what is passed on.
Knows(m, his) == his \in {m.target, m.dst, m.src}

\* The packet is passed on out of the buffer of its connection.  When it goes
\* back there the buffer holds from then on what was written.
PassOn(c, b, e, src, his) ==
    LET fwd == Broadcast(src, his, b.m.target, Plus(b.m.d, e.dist))
    IN  IF Knows(b.m, his) THEN b
        ELSE [m |-> IF e.conn = c THEN [fwd EXCEPT !.d = htonl(@)] ELSE b.m,
              out |-> Append(b.out, [c |-> e.conn, m |-> fwd])]

LocationBroadcast(s, st, c, m) ==
    LET heads == FoldLeft(LAMBDA b, e : PassOn(c, b, e, Put(Name(s)), e.ip),
                          [m |-> m, out |-> <<>>], st.head)
        cons == FoldLeft(LAMBDA b, e : PassOn(c, b, e, Put(e.ip), e.assign.src), heads, st.con)
    IN  Ok([st EXCEPT !.map = rMap_append(@, m.src, m.target, m.d)], cons.out)

----------------------------------------------------------------------------
\* Packets.

rsSvrTcp_for_me(s, st, dst) ==
    \/ dst = Put(Name(s))
    \/ HasUdp(s) /\ dst = Put(Self(s).uname)
    \/ \E i \in DOMAIN st.con : st.con[i].assign.ip = dst

\* A neighbour is named by the list it is in and its place there; no neighbour is
\* the first of those connected to when there is none.
NoOne == [list |-> "con", at |-> 0]
Near(list, i) == [list |-> list, at |-> i]

\* Of a list the first that shares most bits with dst, if more than best does.
LongestIn(list, best, st, dst) ==
    FoldLeft(LAMBDA b, i :
               LET n == longest_prefix_mathing(PeerAddr(list, st[list][i]), dst)
               IN  IF n > b.n THEN [n |-> n, to |-> Near(list, i)] ELSE b,
             best, [i \in DOMAIN st[list] |-> i])

LongestPrefix(st, dst) ==
    LET first == [n |-> 0, to |-> IF st.con = <<>> THEN NoOne ELSE Near("con", 1)]
    IN  LongestIn("head", LongestIn("con", first, st, dst), st, dst).to

\* The neighbour a packet goes to: where its destination was last heard from, on
\* the shortest known way, or the one with the most similar address.
Route(st, dst) ==
    LET t == rTabel_find(st.tabel, dst)
        via == rMap_shortest_and_longest_matching_prefix_to(st.map, dst)
        h == ByIp(st.head, via)
        k == SelectInSeq(st.con, LAMBDA e : e.assign.src = via)
    IN  IF t > 0 THEN st.tabel[t].sw
        ELSE IF via # Zero /\ h > 0 THEN Near("head", h)
        ELSE IF via # Zero /\ k > 0 THEN Near("con", k)
        ELSE LongestPrefix(st, dst)

\* src is the connection whose buffer holds the packet, if it came by one: the
\* query to the same neighbour is written over the packet's addresses.
Enqueue(s, st, src, pkt, to) ==
    LET e == st[to.list][to.at]
        q == IF to.list = "con" THEN Query("query", e.assign.dst, e.assign.src)
             ELSE Query("query", Put(Name(s)), e.ip)
        kept == IF src = <<e.conn>> THEN [pkt EXCEPT !.src = q.src, !.dst = q.dst] ELSE pkt
    IN  IF to = NoOne THEN Ok(st, <<>>)
        ELSE Ok([st EXCEPT ![to.list][to.at].mail = RStr_lst_buf_add(@, Parts(kept))],
                <<[c |-> e.conn, m |-> q]>>)

rsSvrTcp_route_handle(s, st, src, pkt) ==
    IF rsSvrTcp_for_me(s, st, pkt.dst)
    THEN Ok([st EXCEPT !.shown = Append(@, pkt)], <<>>)
    ELSE Enqueue(s, st, src, pkt, Route(st, pkt.dst))

\* A packet for an adaptor of this switch waits until the adaptor asks for it.
ToAdaptor(s, st, k, pkt) ==
    Res([st EXCEPT !.ads[k].mail = RStr_lst_buf_add(@, Parts(pkt))], <<>>,
        <<[a |-> st.ads[k].ad, m |-> Query("query", Put(Self(s).uname), pkt.dst)]>>)

DataPayload(s, st, c, m) ==
    LET k == ByIp(st.ads, m.dst)
        of(list) == SelectLastInSeq(st[list], LAMBDA e : FdOf(st, e.conn) = FdOf(st, c))
        from == IF of("head") > 0 THEN Near("head", of("head")) ELSE Near("con", of("con"))
        learnt == [st EXCEPT !.tabel = rTabel_append(@, from, m.src)]
    IN  IF k > 0 THEN ToAdaptor(s, st, k, m) ELSE rsSvrTcp_route_handle(s, learnt, <<c>>, m)

QueryPacketByName(s, st, c, m) ==
    IF m.dst # Put(Name(s)) THEN Ok(st, <<>>)
    ELSE Ok(st, <<[c |-> c, m |-> Query("accept", m.dst, m.src)]>>)

QueryPacket(s, st, c, m) == Ok(st, <<[c |-> c, m |-> Query("accept", m.dst, m.src)]>>)

Emptied(mail) == <<>>

\* All that waits is sent; with nothing waiting the first of it is not there.
QueryAccept(s, st, c, m) ==
    LET h == ByIp(st.head, m.src)
        k == ByIp(st.con, m.dst)
        to == IF h > 0 THEN Near("head", h) ELSE Near("con", k)
        e == st[to.list][to.at]
        again == [m EXCEPT !.short = TRUE]
        sent == [i \in DOMAIN e.mail |-> [c |-> c, m |-> IF e.conn = c THEN e.mail[i] ELSE again]]
    IN  IF to = NoOne THEN Ok(st, <<>>)
        ELSE IF e.mail = <<>> THEN Crash(st)
        ELSE Ok([st EXCEPT ![to.list][to.at].mail = Emptied(@)], sent)

\* Fragments are not implemented between switches.
rsSvrTcp_handle(s, st, c, m) ==
    CASE m.mode = "discovery" -> Discovery(s, st, c, m)
      [] m.mode = "offer"     -> Offer(s, st, c, m)
      [] m.mode = "request"   -> Request(s, st, c, m)
      [] m.mode = "ack"       -> Acknowledge(s, st, c, m)
      [] m.mode = "location"  -> LocationSend(s, st, c, m)
      [] m.mode = "broadcast" -> LocationBroadcast(s, st, c, m)
      [] m.mode = "query"     -> QueryPacket(s, st, c, m)
      [] m.mode = "accept"    -> QueryAccept(s, st, c, m)
      [] m.mode = "data"      -> DataPayload(s, st, c, m)
      [] OTHER                -> Ok(st, <<>>)

rsSvrUdp_handle(s, st, a, m) ==
    LET ip == NextIp(st.uop.cur)
        req == ByIp(st.ads, m.ip)
        k == ByIp(st.ads, IF m.mode = "accept" THEN m.src ELSE m.dst)
        to(i, x) == [a |-> i, m |-> x]
    IN  CASE m.mode = "discovery" ->
               Res([st EXCEPT !.uop = Advance(@),
                              !.ads = Append(@, [ad |-> a, ip |-> rIpop_assign_ip(st.uop),
                                                 offer |-> ip, mail |-> <<>>])],
                   <<>>, <<to(a, Greet("offer", Put(Self(s).uname), Zero, ip))>>)
          [] m.mode = "request" /\ req > 0 ->
               Res(st, <<>>, <<to(a, Greet("ack", Put(Self(s).uname),
                                            st.ads[req].offer, st.ads[req].offer))>>)
          [] m.mode = "data" ->
               IF k > 0 THEN ToAdaptor(s, st, k, m) ELSE rsSvrTcp_route_handle(s, st, <<>>, m)
          [] m.mode = "accept" /\ k > 0 ->
               LET mail == st.ads[k].mail
               IN  IF mail = <<>> THEN Crash(st)
                   ELSE Res([st EXCEPT !.ads[k].mail = Emptied(@)], <<>>,
                            [i \in DOMAIN mail |-> to(st.ads[k].ad, mail[i])])
          [] OTHER -> Ok(st, <<>>)

----------------------------------------------------------------------------
\* rTup_std_setup: a mixed switch starts with its standard input off.
Setup(self, types) ==
    LET pool(name, space) == IF name = NoName THEN rIpop_justify(Zero, 0)
                             ELSE rIpop_justify(name, space)
    IN  [head |-> <<>>, con |-> <<>>, ads |-> <<>>, map |-> <<>>, tabel |-> <<>>,
         shown |-> <<>>, todo |-> types, fds |-> <<>>, shut |-> {},
         op |-> pool(self.name, self.space), uop |-> pool(self.uname, self.uspace),
         stdin |-> self.name = NoName \/ self.uname = NoName]

Init ==
    /\ scn \in Scenarios
    /\ sw = [s \in Switches |-> Setup(scn.self[s], scn.types[s])]
    /\ wire = [e \in Ends |-> <<>>]
    /\ skew = {}
    /\ lost = {}
    /\ ad = [a \in Adaptors |-> [st |-> "new", ip |-> Zero, sent |-> 0, got |-> <<>>]]
    /\ tosw = [a \in Adaptors |-> <<>>]
    /\ toad = [a \in Adaptors |-> <<>>]
    /\ gone = {}
    /\ crashed = FALSE

\* Somebody is at the end t of c.
Answers(t, c) == t \notin gone /\ c \in Links

\* What s leaves after a handler, with w as the connections and u as the
\* datagrams it has yet to read.  It writes to whatever has the descriptor; to a
\* closed one in vain, and where nobody is at the other end SIGPIPE may end it.
Leave(s, r, w, u) ==
    LET at(o) == Now(r.st, o.c)
        open == SelectSeq(r.out, LAMBDA o : at(o) \notin r.st.shut)
        heard == SelectSeq(open, LAMBDA o : Answers(Peer(at(o), s), at(o)))
    IN  /\ s \notin gone
        /\ crashed' \in {r.crash, r.crash \/ heard # open}
        /\ sw' = [sw EXCEPT ![s] = r.st]
        /\ wire' = FoldLeft(LAMBDA f, o : [f EXCEPT ![<<at(o), Peer(at(o), s)>>] = Append(@, o.m)],
                            w, heard)
        /\ toad' = FoldLeft(LAMBDA f, o : [f EXCEPT ![o.a] = Append(@, o.m)], toad, r.udp)
        /\ tosw' = u
        /\ UNCHANGED <<scn, ad, gone>>

\* A line typed at s, in some scenarios only when all is quiet.  The next one is
\* not read before some location has arrived, unless nobody answers: then only a
\* descriptor is left open.
Stdin(s) ==
    LET st == sw[s]
        t == Head(st.todo)
        rest == [st EXCEPT !.todo = Tail(@), !.stdin = ~Answers(t, <<s, t>>)]
    IN  /\ ~crashed /\ st.stdin /\ st.todo # <<>>
        /\ scn.apart => \A e \in Ends : wire[e] = <<>>
        /\ Leave(s, IF Answers(t, <<s, t>>) THEN rsSvrTcp_establish(rest, <<s, t>>)
                    ELSE Ok(Opened(rest, <<s, t>>), <<>>),
                 wire, tosw)
        /\ UNCHANGED <<skew, lost>>

StdinOn(st, m) == [st EXCEPT !.stdin = @ \/ m.mode = "location"]

\* A read takes one packet's worth of bytes.  Behind a short one it takes the
\* start of the next with it, and no packet starts where a read does until the
\* connection is drained: what is read in between is not understood.
TcpRead(s, c) ==
    LET in == wire[<<c, s>>]
        rest == [wire EXCEPT ![<<c, s>>] = Tail(@)]
        at == <<c, s>> \in skew
        r == IF at THEN Ok(sw[s], <<>>) ELSE rsSvrTcp_handle(s, sw[s], c, Head(in))
        off == Tail(in) # <<>> /\ (at \/ IsShort(Head(in)))
    IN  /\ ~crashed /\ in # <<>>
        /\ skew' = IF off THEN skew \cup {<<c, s>>} ELSE skew \ {<<c, s>>}
        /\ lost' = IF at THEN lost \cup {<<c, s>>} ELSE lost
        /\ Leave(s, IF at THEN r ELSE [r EXCEPT !.st = StdinOn(@, Head(in))], rest, tosw)

\* rTcp_read returns 0: the connection is closed and polled no more.  What there
\* is of the neighbour in the lists and the tables stays.
TcpClosed(s, c) ==
    /\ ~crashed /\ Peer(c, s) \in gone /\ wire[<<c, s>>] = <<>>
    /\ \E e \in ToSet(sw[s].head \o sw[s].con) : e.conn = c /\ c \notin sw[s].shut
    /\ Leave(s, Ok([sw[s] EXCEPT !.shut = @ \cup {c}], <<>>), wire, tosw)
    /\ UNCHANGED <<skew, lost>>

Linked(c) ==
    LET h == SelectInSeq(sw[c[2]].head, LAMBDA e : e.conn = c)
        k == SelectInSeq(sw[c[1]].con, LAMBDA e : e.conn = c)
    IN  h > 0 /\ k > 0 /\ sw[c[2]].head[h].dist > 0 /\ sw[c[1]].con[k].dist > 0

AllSet == (\A c \in Links : Linked(c)) /\ \A a \in DOMAIN scn.home : ad[a].st = "ready"

\* Somebody ends a switch, in some scenarios only when all are linked.  What it has
\* written can still be read.
Kill(s) ==
    /\ ~crashed /\ s \in scn.ends \ gone
    /\ scn.eager \/ AllSet
    /\ gone' = gone \cup {s}
    /\ wire' = [e \in Ends |-> IF e[2] = s THEN <<>> ELSE wire[e]]
    /\ UNCHANGED <<scn, sw, skew, lost, ad, tosw, toad, crashed>>

UdpRead(a) ==
    LET s == scn.home[a]
    IN  /\ ~crashed /\ tosw[a] # <<>>
        /\ Leave(s, rsSvrUdp_handle(s, sw[s], a, Head(tosw[a])), wire,
                 [tosw EXCEPT ![a] = Tail(@)])
        /\ UNCHANGED <<skew, lost>>

----------------------------------------------------------------------------
\* The adaptors are programs of their own; what they answer is what the switch
\* expects of them.
ToSwitch(a, m) == tosw' = [tosw EXCEPT ![a] = Append(@, m)]

AdJoin(a) ==
    /\ ~crashed /\ a \in DOMAIN scn.home /\ ad[a].st = "new"
    /\ ad' = [ad EXCEPT ![a].st = "joining"]
    /\ ToSwitch(a, Greet("discovery", Zero, Zero, Zero))
    /\ UNCHANGED <<scn, sw, wire, skew, lost, toad, gone, crashed>>

AdSend(a) ==
    LET n == ad[a].sent + 1
        next == scn.sends[a][n]
    IN  /\ ~crashed /\ a \in DOMAIN scn.home /\ ad[a].st = "ready" /\ n <= Len(scn.sends[a])
        /\ scn.eager \/ AllSet
        /\ ad' = [ad EXCEPT ![a].sent = n]
        /\ ToSwitch(a, Data(ad[a].ip, next.to, <<a, n>>, next.parts))
        /\ UNCHANGED <<scn, sw, wire, skew, lost, toad, gone, crashed>>

AdRead(a) ==
    LET m == Head(toad[a])
    IN  /\ ~crashed /\ toad[a] # <<>>
        /\ toad' = [toad EXCEPT ![a] = Tail(@)]
        /\ \/ /\ m.mode = "offer"
              /\ ToSwitch(a, Greet("request", Zero, m.src, m.ip))
              /\ UNCHANGED ad
           \/ /\ m.mode = "ack"
              /\ ad' = [ad EXCEPT ![a].st = "ready", ![a].ip = m.ip]
              /\ UNCHANGED tosw
           \/ /\ m.mode = "query"
              /\ ToSwitch(a, Query("accept", m.dst, m.src))
              /\ UNCHANGED ad
           \/ /\ m.mode \in {"data", "more", "last"}
              /\ ad' = [ad EXCEPT ![a].got = Append(@, m)]
              /\ UNCHANGED tosw
        /\ UNCHANGED <<scn, sw, wire, skew, lost, gone, crashed>>

Next ==
    \/ \E s \in Switches : Stdin(s)
    \/ \E e \in Ends : TcpRead(e[2], e[1])
    \/ \E e \in Ends : TcpClosed(e[2], e[1])
    \/ \E s \in Switches : Kill(s)
    \/ \E a \in Adaptors : UdpRead(a)
    \/ \E a \in Adaptors : AdJoin(a)
    \/ \E a \in Adaptors : AdSend(a)
    \/ \E a \in Adaptors : AdRead(a)

Spec == Init /\ [][Next]_vars

----------------------------------------------------------------------------
Busy ==
    \/ \E s \in Switches \ gone : sw[s].stdin /\ sw[s].todo # <<>>
    \/ \E e \in Ends : wire[e] # <<>>
    \/ \E a \in Adaptors : tosw[a] # <<>> \/ toad[a] # <<>>
    \/ \E a \in DOMAIN scn.home : \/ ad[a].st = "new"
                                  \/ ad[a].st = "ready" /\ ad[a].sent < Len(scn.sends[a])

EntryAt(list, c) == list[SelectInSeq(list, LAMBDA e : e.conn = c)]

\* The addresses t answers to.
Owns(t, ip) == \/ ip \in {Name(t), Self(t).uname}
               \/ \E i \in DOMAIN sw[t].con : sw[t].con[i].assign.ack /\ sw[t].con[i].assign.ip = ip

\* Addresses (rIpop_assign_ip, RSrvTHandle.h:217-275): those a switch has given
\* out differ from each other and from its own, and whoever was acknowledged has
\* the address its acceptor knows it by, whatever discoveries came in between.
AddrsAgree ==
    /\ \A s \in Switches : \A l \in {"head", "ads"} :
         LET given == SelectSeq(sw[s][l], LAMBDA e : e.ip # Zero)
         IN  /\ IsInjective([i \in DOMAIN given |-> given[i].ip])
             /\ \A i \in DOMAIN given : given[i].ip \notin {Name(s), Self(s).uname}
    /\ \A s \in Switches : \A i \in DOMAIN sw[s].con :
         LET e == sw[s].con[i]
         IN  e.assign.ack => /\ e.assign.ip = EntryAt(sw[e.conn[2]].head, e.conn).ip
                             /\ e.ip = e.assign.ip

Waiting(q, mode) == \E i \in DOMAIN q : q[i].mode = mode

\* Mailboxes (rsSvrTcp_route_handle, rsSvrUdp_handle): for what waits in one there
\* is a query to its owner or an accept from it on the way, so that nothing waits
\* for ever.  Except behind a short write that took a packet with it, for what was
\* sent before the greeting was over, and for a neighbour that was ended.
MailAnnounced ==
    \A s \in Switches :
      /\ \A l \in {"head", "con"} : \A i \in DOMAIN sw[s][l] :
           LET e == sw[s][l][i]
           IN  \/ e.mail = <<>> \/ scn.eager \/ gone \cap ToSet(e.conn) # {}
               \/ \E x \in skew \cup lost : x[1] = e.conn
               \/ Waiting(wire[<<e.conn, Peer(e.conn, s)>>], "query")
               \/ Waiting(wire[<<e.conn, s>>], "accept")
      /\ \A i \in DOMAIN sw[s].ads :
           LET e == sw[s].ads[i]
           IN  \/ e.mail = <<>> \/ s \in gone
               \/ Waiting(toad[e.ad], "query") \/ Waiting(tosw[e.ad], "accept")

\* Delivery (RStr_lst_buf_add, QUERY_ACCEPT): an adaptor gets only what is
\* addressed to it, what one sender sent in the order it was sent, and no part of
\* it twice, however queries and accepts cross.
InOrder ==
    \A a \in Adaptors : \A i, j \in DOMAIN ad[a].got :
      LET m == ad[a].got[i]
          n == ad[a].got[j]
      IN  /\ m.dst = ad[a].ip
          /\ i < j /\ m.p[1] = n.p[1] => m.p[2] < n.p[2] \/ (m.p = n.p /\ m.part < n.part)

\* RSrvTHandle.h:381: "BROADCAST WRITE if new distance is lesser than older update
\* record".  A distance that is passed on only then is not sent round: each location
\* exchanged is heard of at most twice from a neighbour.
LesserOnly ==
    \A s \in Switches : \A i \in DOMAIN sw[s].map :
      LET ds == sw[s].map[i].ds
      IN  \A j \in DOMAIN ds :
            Cardinality({k \in DOMAIN ds : ds[k].to = ds[j].to}) <= 2 * Cardinality(Links)

\* The switches are linked without a ring: in every set of them one has at most
\* one link to the others.
NoRing ==
    \A S \in SUBSET Switches \ {{}} : \E s \in S :
        Cardinality({c \in Links : s \in ToSet(c) /\ Peer(c, s) \in S}) <= 1

Reused == \E s \in Switches : \E n \in DOMAIN sw[s].fds : Len(sw[s].fds[n]) > 1

\* Broadcasts (RSrvTHandle.h:374-420) in a network without a ring, and where no
\* connection has got the descriptor of a neighbour that ended: rMap_append never
\* refuses a distance, and still it is not sent round.  Only the neighbours that
\* are left out keep it from coming back, whatever they have been told in between.
NoEcho == NoRing /\ ~Reused => LesserOnly

Hop(s, t) == rDst_calc_dist(Self(s).x, Self(t).x, Self(s).y, Self(t).y)
Adjacent(s, t) == <<s, t>> \in Links \/ <<t, s>> \in Links

\* The length of the way between two switches that are two links apart.
Way(s, t) == LET m == CHOOSE m \in Switches : Adjacent(s, m) /\ Adjacent(m, t)
             IN  Hop(s, m) + Hop(m, t)

Known(s) == UNION {ToSet(sw[s].map[i].ds) : i \in DOMAIN sw[s].map}

\* Distances (rMap_append, RSrvTHandle.h:280-420) when nothing is left to do: the
\* right distance to every known address of a neighbour is in the map, beside
\* wrong ones; those beyond a neighbour are never too large where no switch is
\* mixed.  They may be too small, because a neighbour that has not yet told its
\* location counts as being at distance 0.
Distances ==
    ~Busy /\ ~crashed /\ lost = {} /\ gone = {} =>
      \A s, t \in Switches : \A x \in Known(s) :
        Owns(t, x.to) /\ s # t =>
          IF Adjacent(s, t) THEN \E y \in Known(s) : y.to = x.to /\ y.d = Hop(s, t)
          ELSE (\A u \in Switches : ~IsMixed(u)) => x.d <= Way(s, t)

Sends == UNION {{a} \X (1 .. Len(scn.sends[a])) : a \in DOMAIN scn.home}
SendOf(p) == scn.sends[p[1]][p[2]]

\* No two packets to one address, none before the greetings are over, no greeting
\* before the last one is, and nobody ended.
Lone == scn.apart /\ ~scn.eager /\ gone = {} /\ \A p, q \in Sends : SendOf(p).to = SendOf(q).to => p = q

Arrived(p) ==
    \/ \E a \in Adaptors : /\ ad[a].ip = SendOf(p).to
                           /\ \E i \in DOMAIN ad[a].got : ad[a].got[i].p = p
    \/ \E s \in Switches : /\ Owns(s, SendOf(p).to)
                           /\ \E i \in DOMAIN sw[s].shown : sw[s].shown[i].p = p

\* When nothing is left to do, everyone who connected and got an address knows
\* its neighbour's distance and the neighbour knows it, the maps have the right
\* distances as far as Distances says, and every packet of one
\* part has reached the owner of its address through the tables on its way.  A
\* query accept finds its packet: no switch has failed.  Packets are promised this
\* only if no other one to the same address can be underway (RStr.h:78 makes a
\* fragment of the second, RSrvTHandle.h:445 looks for the first again), and both
\* promises end where a short write takes the packet behind it along.
Arrives ==
    /\ Distances
    /\ ~Busy /\ ~crashed =>
         \A s \in Switches : \A i \in DOMAIN sw[s].con :
           LET c == sw[s].con[i].conn
           IN  \/ Linked(c) \/ ToSet(c) \cap gone # {}
               \/ EntryAt(sw[c[2]].head, c).ip = Zero
               \/ \E x \in lost : x[1] = c
    /\ Lone => ~crashed
    /\ Lone /\ ~Busy /\ lost = {} => \A p \in Sends : SendOf(p).parts = 1 => Arrived(p)
=============================================================================
