------------------------------ MODULE RTables ------------------------------
(***************************************************************************)
(* What a switch knows of the others: the distances (RMap.h) and the       *)
(* neighbour through which an address was last seen (RTabel.h), and the    *)
(* packets that wait for a neighbour (RStr.h).                             *)
(*                                                                         *)
(* A map is a sequence of [from, ds], ds a sequence of [to, d].            *)
(***************************************************************************)
EXTENDS RIPop

rMap_find_from_ip(map, ip) == SelectInSeq(map, LAMBDA e : e.from = ip)
rMap_find_to_ip(elem, ip) == SelectInSeq(elem.ds, LAMBDA x : x.to = ip)

\* A pair that is known with a distance that is not larger is appended again.
\* The code returns true on every path.
rMap_append(map, from, to, d) ==
    LET has(m, ip) == rMap_find_from_ip(m, ip) > 0
        m1 == IF has(map, from) THEN map ELSE Append(map, [from |-> from, ds |-> <<>>])
        i == rMap_find_from_ip(m1, from)
        j == rMap_find_to_ip(m1[i], to)
    IN  IF j > 0 /\ m1[i].ds[j].d > d THEN [m1 EXCEPT ![i].ds[j].d = d]
        ELSE LET m2 == [m1 EXCEPT ![i].ds = Append(@, [to |-> to, d |-> d])]
             IN  IF has(m2, to) THEN m2 ELSE Append(m2, [from |-> to, ds |-> <<>>])

\* The neighbour with the shortest known way to an address; of several the one
\* that shares more bits with it.  Zero stands for none.
rMap_shortest_and_longest_matching_prefix_to(map, ip) ==
    LET all == FlattenSeq([i \in DOMAIN map |->
                 [j \in DOMAIN map[i].ds |->
                    [from |-> map[i].from, to |-> map[i].ds[j].to, d |-> map[i].ds[j].d]]])
        better(x, y) == \/ x.from = Zero \/ y.d < x.d
                        \/ /\ y.d = x.d
                           /\ longest_prefix_mathing(ip, x.from) < longest_prefix_mathing(ip, y.from)
        best == FoldLeft(LAMBDA x, y : IF y.to = ip /\ better(x, y) THEN y ELSE x,
                         [from |-> Zero, to |-> ip, d |-> 0], all)
    IN  best.from

----------------------------------------------------------------------------
\* tabel is a sequence of [dst, sw]; Zero-length stands for nothing found.
rTabel_find(tabel, dst) == SelectInSeq(tabel, LAMBDA e : e.dst = dst)

rTabel_append(tabel, sw, dst) ==
    IF rTabel_find(tabel, dst) > 0 THEN tabel ELSE Append(tabel, [dst |-> dst, sw |-> sw])

----------------------------------------------------------------------------
BufAddFront(mail, pkts) == [i \in DOMAIN pkts |-> [pkts[i] EXCEPT !.mode = "more"]] \o mail

\* RStr_lst_buf_add: a packet is cut into parts behind what already waits.  The
\* last one is marked as a last fragment unless it is alone.
RStr_lst_buf_add(mail, pkts) ==
    LET m == mail \o [i \in DOMAIN pkts |-> [pkts[i] EXCEPT !.mode = "more"]]
    IN  [m EXCEPT ![Len(m)].mode = IF Len(m) = 1 THEN "data" ELSE "last"]
=============================================================================
