---------------------------- MODULE FileTransfer ----------------------------
(***************************************************************************)
(* What the file server promises a client: the chunks of the resource it   *)
(* asked for are written once each, in order, and the client reports       *)
(* success only when it has written them all.                              *)
(***************************************************************************)
EXTENDS Naturals, Sequences

CONSTANTS
    Ports,      \* the clients
    Content     \* Content[p]: the sequence of chunks the client at p asked for

VARIABLES
    written,    \* written[p]: what the client has written so far
    done        \* done[p]: the client has ended with success

Init == /\ written = [p \in Ports |-> <<>>]
        /\ done = [p \in Ports |-> FALSE]

Write(p) ==
    /\ ~done[p] /\ Len(written[p]) < Len(Content[p])
    /\ written' = [written EXCEPT ![p] = Append(@, Content[p][Len(@) + 1])]
    /\ UNCHANGED done

Finish(p) ==
    /\ ~done[p] /\ written[p] = Content[p]
    /\ done' = [done EXCEPT ![p] = TRUE]
    /\ UNCHANGED written

Next == \E p \in Ports : Write(p) \/ Finish(p)

Spec == Init /\ [][Next]_<<written, done>>
=============================================================================
