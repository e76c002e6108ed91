-------------------------------- MODULE RPS --------------------------------
(***************************************************************************)
(* The rock-paper-scissors server with the sessions of its clients, which   *)
(* take a match as one step with one of three outcomes, and the match,     *)
(* which shows that these are the outcomes.  The two share nothing but the *)
(* RESULT lines, so a behaviour follows one or the other.                  *)
(***************************************************************************)
EXTENDS RPSServer, RPSGame

VARIABLE part   \* "sessions" or "match"

vars == <<part, svrVars, gameVars>>

Init == part \in {"sessions", "match"} /\ SvrInit /\ GameInit

Next ==
    \/ part = "sessions" /\ SvrNext /\ UNCHANGED <<part, gameVars>>
    \/ part = "match" /\ GameNext /\ UNCHANGED <<part, svrVars>>

\* Some thread of those of the server that can go on does, since the match loop
\* never blocks on anything but the mutex; nothing is asked of the clients, and
\* no thread is promised the mutex.  In a match, some client that can go on does.
Runs ==
    \/ part = "sessions" /\ (\E t \in Threads : ThreadStep(t)) /\ UNCHANGED <<part, gameVars>>
    \/ part = "match" /\ GameNext /\ UNCHANGED <<part, svrVars>>

Spec == Init /\ [][Next]_vars /\ WF_vars(Runs)

----------------------------------------------------------------------------
\* Play is what a match comes to: the RESULT lines of the two clients name the
\* same winner, or both say TIE, also when one side plays on after the other
\* has left the second loop.
ResultsAgree ==
    \A p \in Sides : pc[p] \in {"over", "closed"} /\ pc[Other[p]] \in {"over", "closed"} =>
        <<Says(p), Says(Other[p])>> \in Outcomes

\* Neither client waits for the other for ever: both come to report a result.
Terminates == []<>(part = "match" => \A p \in Sides : ~Playing(p))
=============================================================================
