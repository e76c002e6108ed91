--------------------------- MODULE MCRHandleServ ---------------------------
(***************************************************************************)
(* The server alone, against clients that send any packet of Inputs in any *)
(* order: wrong sequence numbers, wrong flags, bad checksums, missing      *)
(* resources, a GET in the middle of a transfer, short datagrams.          *)
(***************************************************************************)
EXTENDS RHandleServ, TLC

CONSTANTS f, g, p1, p2, t1, t2, t3

MCNames == {f, g}
MCFiles == f :> 1       \* g is not hosted
MCAddrOf == [p \in Ports |-> "a"]
NoFaults == [x \in Fault |-> 0]
ServFaults == [NoFaults EXCEPT !["runt"] = 1, !["create"] = 1]
JustServFaults == {ServFaults}

Input(x, seqn, ackn, body, sum) ==
    [flags |-> x, ver |-> TRUE, seqn |-> seqn, ackn |-> ackn, body |-> body,
     sum |-> sum]

\* The server only compares SEQN with seq (or 1) and ACKN with ack (or 0): a
\* right and a wrong value of each reach every outcome.
Inputs(p) ==
    {Input(x, s, a, Empty, TRUE) :
        x \in {{"ACK", "DAT"}, {"ACK", "DAT", "CHK"}, {"ACK", "FIN"},
               {"ACK", "FIN", "CHK"}, {"NAK"}, {"NAK", "DAT", "CHK"}},
        s \in {state[p].seq, Inc(state[p].seq)}, a \in {state[p].ack, Inc(state[p].ack)}}
    \cup {Input(x, 1, 0, n, TRUE) : x \in {{"GET"}, {"GET", "CHK"}}, n \in Names}
    \cup {Input({"GET", "CHK"}, 1, 0, f, FALSE), Input({"GET"}, 0, 0, f, TRUE)}
    \cup {[Input(x, 1, 0, Empty, TRUE) EXCEPT !.ver = FALSE] : x \in {{"NAK"}, {"ACK"}}}

\* A client sends anything.  What is in flight has no effect before recvfrom,
\* so it is sent when the server calls that.
Send(p) ==
    /\ main.pc = "recv" /\ \A q \in Ports : c2s[q] = {}
    /\ \/ \E m \in Inputs(p) : c2s' = [c2s EXCEPT ![p] = {m}] /\ UNCHANGED budget
       \/ c2s' = [c2s EXCEPT ![p] = {Runt}] /\ Spend("runt")
    /\ UNCHANGED <<svrVars, s2c>>

\* The server never looks at s2c: what it sends is read at once.
Read == s2c' = [p \in Ports |-> {}] /\ UNCHANGED <<svrVars, c2s, budget>>

Init == SvrInit /\ NetInit

Next == IF \E p \in Ports : s2c[p] # {} THEN Read
        ELSE SvrNext \/ \E p \in Ports : Send(p)

vars == <<svrVars, netVars>>

\* The main thread and every csock_send thread are scheduled fairly.
Spec == /\ Init /\ [][Next]_vars
        /\ WF_vars(Main) /\ \A t \in Threads : WF_vars(Sender(t))

=============================================================================
