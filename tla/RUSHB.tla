------------------------------- MODULE RUSHB -------------------------------
(***************************************************************************)
(* RUSHB file transfer: the server, its clients and the UDP channels       *)
(* between them.                                                           *)
(***************************************************************************)
EXTENDS RHandleServ, RClient

vars == <<svrVars, cl, netVars>>

Init == SvrInit /\ ClInit /\ NetInit

Next ==
    \/ SvrNext /\ UNCHANGED cl
    \/ NetNext /\ UNCHANGED <<svrVars, cl>>
    \/ \E p \in Ports : ClNext(p) /\ UNCHANGED svrVars

Spec == Init /\ [][Next]_vars

Receive(p) == \E m \in c2s[p] : rhandle_port(p, m)

\* The scheduler runs every thread and every client that can run, time passes,
\* and a datagram that is not lost arrives: the main thread calls recvfrom
\* again and again and does not find EAGAIN for ever while one is in flight.
FairSpec ==
    /\ Spec
    /\ WF_vars(Main /\ UNCHANGED cl)
    /\ WF_vars(Tick /\ UNCHANGED cl)
    /\ \A t \in Threads : WF_vars(Sender(t) /\ UNCHANGED cl)
    /\ \A p \in Ports : /\ SF_vars(Receive(p) /\ UNCHANGED cl)
                        /\ WF_vars(ClNext(p) /\ UNCHANGED svrVars)

TypeOK == SvrTypeOK /\ ClTypeOK /\ NetTypeOK

----------------------------------------------------------------------------
\* What the client at p has to end up with: every chunk of the resource as fprintf
\* prints it, which is the resource itself when it is text; nothing, if it is not
\* hosted.
Content == [p \in Ports |->
    IF Wants[p] \in DOMAIN Files
    THEN [i \in 1 .. Files[Wants[p]] |-> Printed(<<Wants[p], i>>)] ELSE <<>>]

FT == INSTANCE FileTransfer WITH
    written <- [p \in Ports |-> cl[p].out],
    done <- [p \in Ports |-> cl[p].pc = "done"]

\* The server, its threads, the clients and a network that loses, duplicates,
\* reorders and damages packets together implement FileTransfer: every file is
\* written in order without gaps or repetitions, and success means complete.
Transfers == FT!Spec

\* The server answers ACK|FIN with FIN|ACK and forgets the transfer: when it
\* does, the client has the whole file, whatever was lost, duplicated,
\* reordered or damaged before, and all counters stay in their width.
FinAckMeansComplete ==
    TypeOK /\ \A p \in Ports : \A m \in s2c[p] :
        FLAG_CHECK(UnsetCHK(m), {"FIN", "ACK"}) => cl[p].out = Content[p]

\* When no packet is lost, duplicated or late, however often one is damaged or
\* refused, every client that asked for a hosted resource ends up with all of it: the server
\* answers a NAK with the refused packet, and its counter seq follows the SEQN
\* that the client spends on the NAK.
Delivers ==
    (\A x \in {"lose", "dup", "tick"} : x \notin Free /\ budget[x] = 0) =>
        \A p \in Ports : Wants[p] \in DOMAIN Files => <>(cl[p].out = Content[p])

\* A transfer that has begun goes on to the end of the file, unless the server
\* gives the client up after DEAD_TIMEOUT of silence.
Resumes ==
    \A p \in Ports : cl[p].out # <<>> ~> (cl[p].out = Content[p] \/ ~ona[p])
=============================================================================
