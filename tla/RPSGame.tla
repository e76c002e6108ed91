------------------------------ MODULE RPSGame ------------------------------
(***************************************************************************)
(* One match of rpsclient.c, as the two client processes play it: each      *)
(* writes its moves on the connection it accepted and reads the other's    *)
(* from the connection it made.  Neither sees anything of the other but     *)
(* these moves and the end of the stream.                                  *)
(***************************************************************************)
EXTENDS Integers, Sequences

CONSTANTS
    Sides,      \* the two clients
    Other,      \* Other[p]: the opponent of p
    Regular,    \* turns of the first loop (5)
    Sudden      \* most turns of the second (15)

ASSUME GameAssumption ==
    /\ Other \in [Sides -> Sides] /\ \A p \in Sides : Other[p] # p /\ Other[Other[p]] = p
    /\ Regular \in Nat \ {0} /\ Sudden \in Nat \ {0}

VARIABLES
    pc,         \* "first" and "sudden": the loops; "over": past them; "closed"
    turns,
    status,
    move,       \* move[p]: the move p has sent and not yet compared, or NoMove
    stream      \* stream[p]: the moves on their way from p

gameVars == <<pc, turns, status, move, stream>>

ROCK == 0
PAPER == 1
SCISSORS == 2
Moves == {ROCK, PAPER, SCISSORS}
NoMove == -1

GameInit ==
    /\ pc = [p \in Sides |-> "first"]
    /\ turns = [p \in Sides |-> 0]
    /\ status = [p \in Sides |-> 0]
    /\ move = [p \in Sides |-> NoMove]
    /\ stream = [p \in Sides |-> <<>>]

Playing(p) == pc[p] \in {"first", "sudden"}

\* fputs and fflush of a random move.  What is written for an opponent that has
\* left its loops is never read.
Send(p) ==
    /\ Playing(p) /\ move[p] = NoMove
    /\ \E m \in Moves :
        /\ move' = [move EXCEPT ![p] = m]
        /\ stream' = [stream EXCEPT ![p] = IF Playing(Other[p]) THEN Append(@, m) ELSE @]
    /\ UNCHANGED <<pc, turns, status>>

Beats(m, n) == <<m, n>> \in {<<ROCK, SCISSORS>>, <<PAPER, ROCK>>, <<SCISSORS, PAPER>>}

Points(m, n) == IF Beats(m, n) THEN 1 ELSE IF Beats(n, m) THEN -1 ELSE 0

\* The second loop leaves its own defeat of SCISSORS by ROCK out of what ends it.
Done(m, n) == Points(m, n) # 0 /\ <<m, n>> # <<SCISSORS, ROCK>>

\* After 5 turns a draw goes on in the second loop, where turns starts again.
Draw(c, k, st) == c = "first" /\ k = Regular /\ st = 0

NextTurns(c, k, st) == IF Draw(c, k, st) THEN 0 ELSE k

\* The loop after k turns in loop c, the last with the end done or not.
NextPc(c, k, st, done) ==
    CASE Draw(c, k, st) -> "sudden"
      [] c = "first" /\ k = Regular /\ st # 0 -> "over"
      [] c = "sudden" /\ (k = Sudden \/ done) -> "over"
      [] OTHER -> c

\* The rest of the turn, with enemy_move = n.
Compare(p, n) ==
    LET st == status[p] + Points(move[p], n)
        k  == turns[p] + 1
    IN  /\ status' = [status EXCEPT ![p] = st]
        /\ turns' = [turns EXCEPT ![p] = NextTurns(pc[p], k, st)]
        /\ pc' = [pc EXCEPT ![p] = NextPc(pc[p], k, st, Done(move[p], n))]
        /\ move' = [move EXCEPT ![p] = NoMove]

\* fgets returns the opponent's move.
Receive(p) ==
    /\ Playing(p) /\ move[p] # NoMove /\ stream[Other[p]] # <<>>
    /\ Compare(p, Head(stream[Other[p]]))
    /\ stream' = [stream EXCEPT ![Other[p]] = Tail(@)]

AtEof(p) == Playing(p) /\ move[p] # NoMove /\ stream[Other[p]] = <<>> /\ pc[Other[p]] = "closed"

\* With the buffer cleared on end of file, sscanf would leave enemy_move alone,
\* at the ROCK that ended the opponent's loop.
ReceiveEofCleared(p) ==
    /\ AtEof(p)
    /\ Compare(p, ROCK)
    /\ UNCHANGED stream

\* fgets finds the end of the stream and leaves msg alone: it still holds the
\* move p has just sent.
ReceiveEof(p) ==
    /\ AtEof(p)
    /\ Compare(p, move[p])
    /\ UNCHANGED stream

FinishOpen(p) ==
    /\ pc[p] = "over"
    /\ UNCHANGED gameVars

\* The RESULT line to the server, then fclose(stream).
Finish(p) ==
    /\ pc[p] = "over"
    /\ pc' = [pc EXCEPT ![p] = "closed"]
    /\ UNCHANGED <<turns, status, move, stream>>

Step(p) == Send(p) \/ Receive(p) \/ ReceiveEof(p) \/ Finish(p)

GameNext == \E p \in Sides : Step(p)

\* What the RESULT line of p says.
Says(p) == CASE status[p] = 0 -> "tie" [] status[p] > 0 -> "won" [] status[p] < 0 -> "lost"
----------------------------------------------------------------------------
\* The inductive invariant of a match: where two clients p and q can be.
GameTypeOK ==
    /\ pc \in [Sides -> {"first", "sudden", "over", "closed"}]
    /\ turns \in [Sides -> Nat] /\ status \in [Sides -> Int]
    /\ move \in [Sides -> Moves \cup {NoMove}]
    /\ stream \in [Sides -> Seq(Moves)]

Over(p) == pc[p] \in {"over", "closed"}

Sent(p) == IF move[p] = NoMove THEN <<>> ELSE <<move[p]>>

\* Both have compared the same turns.
Level(p, q) ==
    /\ Playing(p) /\ pc[p] = pc[q] /\ turns[p] = turns[q] /\ status[p] = -status[q]
    /\ stream[p] = Sent(p) /\ stream[q] = Sent(q)

\* p has compared its move x with the move of q, and q has not: x is on its way,
\* and p is where that turn has led it.
AheadBy(p, q, x) ==
    LET st == -status[q] + Points(x, move[q])
        k  == turns[q] + 1
        to == NextPc(pc[q], k, st, Done(x, move[q]))
    IN  /\ Playing(q) /\ move[q] # NoMove /\ stream[q] = <<>>
        /\ status[p] = st /\ turns[p] = NextTurns(pc[q], k, st)
        /\ pc[p] = to \/ (to = "over" /\ pc[p] = "closed")
        /\ \/ move[p] = NoMove /\ stream[p] = <<x>>
           \/ move[p] # NoMove /\ Playing(p) /\ stream[p] = <<x, move[p]>>

Ahead(p, q) == \E x \in Moves : AheadBy(p, q, x)

\* p has left the second loop and q has not.
Outlasts(q, p) == Over(p) /\ pc[q] = "sudden" /\ status[p] = -status[q] /\ stream[p] = <<>>

BothOver(p, q) == Over(p) /\ Over(q) /\ status[p] = -status[q]

Related(p, q) ==
    \/ Level(p, q) \/ Ahead(p, q) \/ Ahead(q, p)
    \/ Outlasts(p, q) \/ Outlasts(q, p) \/ BothOver(p, q)

GameInv == GameTypeOK /\ \A p \in Sides : Related(p, Other[p])
=============================================================================
