------------------------------ MODULE RPSProofs ------------------------------
(***************************************************************************)
(* What holds of every match, whatever the numbers of turns, and of every  *)
(* set of clients and threads of the server.                               *)
(***************************************************************************)
EXTENDS RPS, RPSServerProofs, FiniteSetTheorems, WellFoundedInduction, SequenceTheorems

----------------------------------------------------------------------------
\* The game.

\* What one side wins the other loses; only SCISSORS beaten by ROCK end the
\* second loop for one side alone.
LEMMA PointsFacts ==
    ASSUME NEW m \in Moves, NEW n \in Moves
    PROVE  /\ Points(m, n) \in {-1, 0, 1} /\ Points(m, n) = -Points(n, m)
           /\ Points(m, m) = 0
           /\ Points(m, n) = 0 => ~Done(m, n) /\ ~Done(n, m)
           /\ Points(m, n) # 0 => Done(m, n) \/ Done(n, m)
BY DEF Moves, Points, Beats, Done, ROCK, PAPER, SCISSORS

\* Where a turn leads.
LEMMA TurnFacts ==
    ASSUME NEW c \in {"first", "sudden"}, NEW k \in Nat, NEW st \in Int, NEW d
    PROVE  /\ NextPc(c, k, st, d) \in {"first", "sudden", "over"}
           /\ NextTurns(c, k, st) \in Nat
BY Zenon DEF NextPc, NextTurns, Draw

\* Two moves on their way.
LEMMA TwoMoves ==
    ASSUME NEW x \in Moves, NEW m \in Moves
    PROVE  /\ Append(<<x>>, m) = <<x, m>>
           /\ Head(<<x>>) = x /\ Tail(<<x>>) = <<>>
           /\ Head(<<x, m>>) = x /\ Tail(<<x, m>>) = <<m>>
<1> DEFINE s == Append(<<x>>, m)
           t == <<x, m>>
<1>1. s \in Seq(Moves) /\ Len(s) = 2 /\ s[1] = x /\ s[2] = m
  OBVIOUS
<1>2. t \in Seq(Moves) /\ Len(t) = 2 /\ t[1] = x /\ t[2] = m
  OBVIOUS
<1>3. /\ Head(<<x>>) = x /\ Tail(<<x>>) = <<>>
      /\ Head(<<x, m>>) = x /\ Tail(<<x, m>>) = <<m>>
  OBVIOUS
<1> HIDE DEF s, t
<1>4. \A i \in 1..Len(s) : s[i] = t[i]
  BY <1>1, <1>2
<1>5. s = t
  BY <1>1, <1>2, <1>4, SeqEqual, Zenon
<1>. QED BY <1>3, <1>5, Zenon DEF s, t

\* The two sides of a match.
LEMMA OtherSide ==
    ASSUME NEW p \in Sides
    PROVE  Other[p] \in Sides /\ Other[p] # p /\ Other[Other[p]] = p
BY GameAssumption, Zenon

\* A move sent is the next the opponent compares, or one it never reads.
LEMMA SendRelated ==
    ASSUME GameInv, NEW p \in Sides, Send(p)
    PROVE  GameTypeOK' /\ Related(p, Other[p])'
<1> DEFINE q == Other[p]
<1>1. q \in Sides /\ q # p /\ Other[q] = p
  BY OtherSide, Zenon
<1> HIDE DEF q
<1>2. PICK m \in Moves :
        /\ move' = [move EXCEPT ![p] = m]
        /\ stream' = [stream EXCEPT ![p] = IF Playing(q) THEN Append(@, m) ELSE @]
  BY Zenon DEF Send, q
<1>3. Playing(p) /\ move[p] = NoMove /\ UNCHANGED <<pc, turns, status>>
  BY Zenon DEF Send
<1>4. GameTypeOK
  BY Zenon DEF GameInv
<1>5. m # NoMove
  BY DEF Moves, NoMove, ROCK, PAPER, SCISSORS
<1>6. /\ move'[p] = m /\ move'[q] = move[q] /\ stream'[q] = stream[q]
      /\ stream'[p] = IF Playing(q) THEN Append(stream[p], m) ELSE stream[p]
      /\ GameTypeOK'
  BY <1>1, <1>2, <1>3, <1>4 DEF GameTypeOK
<1>7. Related(p, q)
  BY Zenon DEF GameInv, q
<1>8. CASE Level(p, q)
  <2>1. stream[p] = <<>> /\ Playing(q)
    BY <1>3, <1>8, Zenon DEF Level, Sent, Playing
  <2>2. stream'[p] = <<m>>
    BY <2>1, <1>6
  <2>3. Level(p, q)'
    BY <2>2, <1>3, <1>5, <1>6, <1>8, Zenon DEF Level, Sent, Playing
  <2>. QED BY <2>3, <1>6, Zenon DEF Related, q
<1>9. CASE Ahead(p, q)
  <2>1. PICK x \in Moves : AheadBy(p, q, x)
    BY <1>9, Zenon DEF Ahead
  <2>2. stream[p] = <<x>> /\ Playing(q)
    BY <2>1, <1>3, Zenon DEF AheadBy
  <2>3. stream'[p] = <<x, m>>
    BY TwoMoves, <2>2, <1>6, Zenon
  <2>4. AheadBy(p, q, x)'
    BY <2>1, <2>3, <1>3, <1>5, <1>6, Zenon DEF AheadBy, Playing
  <2>. QED BY <2>4, <1>6, Zenon DEF Related, Ahead, q
<1>10. CASE Ahead(q, p)
  BY <1>3, <1>10, Zenon DEF Ahead, AheadBy
<1>11. CASE Outlasts(p, q)
  <2>1. Outlasts(p, q)'
    BY <1>3, <1>6, <1>11, Zenon DEF Outlasts, Over
  <2>. QED BY <2>1, <1>6, Zenon DEF Related, q
<1>12. CASE Outlasts(q, p) \/ BothOver(p, q)
  BY <1>3, <1>12, Zenon DEF Outlasts, BothOver, Over, Playing
<1>. QED BY <1>7, <1>8, <1>9, <1>10, <1>11, <1>12, Zenon DEF Related

\* The side that compares a turn first gets ahead; the second one draws level, or
\* both leave the loops, or one leaves alone.
LEMMA ReceiveRelated ==
    ASSUME GameInv, NEW p \in Sides, Receive(p)
    PROVE  GameTypeOK' /\ Related(p, Other[p])'
<1> DEFINE q == Other[p]
           n == Head(stream[q])
           st == status[p] + Points(move[p], n)
           k == turns[p] + 1
<1>1. q \in Sides /\ q # p /\ Other[q] = p
  BY OtherSide
<1>2. /\ Playing(p) /\ move[p] # NoMove /\ stream[q] # <<>>
      /\ status' = [status EXCEPT ![p] = st]
      /\ turns' = [turns EXCEPT ![p] = NextTurns(pc[p], k, st)]
      /\ pc' = [pc EXCEPT ![p] = NextPc(pc[p], k, st, Done(move[p], n))]
      /\ move' = [move EXCEPT ![p] = NoMove]
      /\ stream' = [stream EXCEPT ![q] = Tail(@)]
  BY Zenon DEF Receive, Compare
<1>3. GameTypeOK
  BY Zenon DEF GameInv
<1> HIDE DEF q
<1>4. /\ move[p] \in Moves /\ n \in Moves /\ Tail(stream[q]) \in Seq(Moves)
      /\ pc[p] \in {"first", "sudden"} /\ turns[p] \in Nat /\ status[p] \in Int
      /\ pc[q] \in {"first", "sudden", "over", "closed"} /\ turns[q] \in Nat /\ status[q] \in Int
      /\ move[q] \in Moves \cup {NoMove}
  BY <1>1, <1>2, <1>3 DEF GameTypeOK, Playing
<1> HIDE DEF n
<1>5. st \in Int /\ k \in Nat
  BY <1>4, PointsFacts DEF st, k
<1> HIDE DEF k, st
<1>6. /\ NextPc(pc[p], k, st, Done(move[p], n)) \in {"first", "sudden", "over"}
      /\ NextTurns(pc[p], k, st) \in Nat
  BY <1>4, <1>5, TurnFacts, Zenon
<1>7. /\ status'[p] = st /\ status'[q] = status[q]
      /\ turns'[p] = NextTurns(pc[p], k, st) /\ turns'[q] = turns[q]
      /\ pc'[p] = NextPc(pc[p], k, st, Done(move[p], n)) /\ pc'[q] = pc[q]
      /\ move'[p] = NoMove /\ move'[q] = move[q]
      /\ stream'[q] = Tail(stream[q]) /\ stream'[p] = stream[p]
      /\ GameTypeOK'
  BY <1>1, <1>2, <1>3, <1>4, <1>5, <1>6, Zenon DEF GameTypeOK
<1>8. Related(p, q)
  BY Zenon DEF GameInv, q
<1>9. CASE Level(p, q)
  <2>1. /\ move[q] # NoMove /\ stream[q] = <<move[q]>> /\ stream[p] = <<move[p]>>
        /\ move[q] \in Moves
    BY <1>2, <1>4, <1>9, Zenon DEF Level, Sent
  <2>2. n = move[q] /\ stream'[q] = <<>>
    BY <2>1, <1>7, TwoMoves, Zenon DEF n
  <2>3. st = -status[q] + Points(move[p], move[q]) /\ k = turns[q] + 1 /\ pc[p] = pc[q]
    BY <2>2, <1>9, Zenon DEF Level, st, k
  <2>5. \E x \in Moves : AheadBy(p, q, x)'
    <3>1. PICK x \in Moves : x = move[p]
      BY <1>4, Zenon
    <3>2. AheadBy(p, q, x)'
      BY <3>1, <2>1, <2>2, <2>3, <1>2, <1>7, Zenon DEF AheadBy, Playing
    <3>. QED BY <3>2, Zenon
  <2>. QED BY <2>5, <1>7, Zenon DEF Related, Ahead, q
<1>10. CASE Ahead(p, q)
  BY <1>2, <1>10, Zenon DEF Ahead, AheadBy
<1>11. CASE Ahead(q, p)
  <2>1. PICK x \in Moves : AheadBy(q, p, x)
    BY <1>11, Zenon DEF Ahead
  <2> DEFINE stq == -status[p] + Points(x, move[p])
             c == NextPc(pc[p], k, stq, Done(x, move[p]))
  <2>2. /\ stream[p] = <<>> /\ status[q] = stq /\ turns[q] = NextTurns(pc[p], k, stq)
        /\ pc[q] = c \/ (c = "over" /\ pc[q] = "closed")
        /\ \/ move[q] = NoMove /\ stream[q] = <<x>>
           \/ move[q] # NoMove /\ Playing(q) /\ stream[q] = <<x, move[q]>>
    BY <2>1, Zenon DEF AheadBy, k
  <2>3. n = x /\ stream'[q] = Sent(q)
    BY <2>2, <1>4, <1>7, TwoMoves, Zenon DEF n, Sent
  <2>4. stq \in Int /\ stq = -st /\ st = -stq
    BY <2>3, <1>4, PointsFacts DEF st
  <2> HIDE DEF stq
  <2>5. /\ NextTurns(pc[p], k, stq) = NextTurns(pc[p], k, st)
        /\ c \in {"first", "sudden", "over"}
        /\ pc[p] = "first" => c = pc'[p]
        /\ pc[p] = "sudden" => c \in {"sudden", "over"} /\ pc'[p] \in {"sudden", "over"}
    <3>1. pc'[p] = NextPc(pc[p], k, st, Done(move[p], x))
      BY <2>3, <1>7, Zenon
    <3>2. /\ NextTurns(pc[p], k, st) = NextTurns(pc[p], k, stq)
          /\ pc[p] = "first" =>
                NextPc(pc[p], k, stq, Done(x, move[p])) = NextPc(pc[p], k, st, Done(move[p], x))
      BY <2>4, <1>4, <1>5 DEF NextPc, NextTurns, Draw
    <3>3. /\ NextPc(pc[p], k, stq, Done(x, move[p])) \in {"first", "sudden", "over"}
          /\ pc[p] = "sudden" => NextPc(pc[p], k, stq, Done(x, move[p])) \in {"sudden", "over"}
          /\ pc[p] = "sudden" => NextPc(pc[p], k, st, Done(move[p], x)) \in {"sudden", "over"}
      BY <2>4, <1>4, <1>5, Zenon DEF NextPc, Draw
    <3>. QED BY <3>1, <3>2, <3>3, <2>4, Zenon
  <2>6. status'[p] = -status[q]
    BY <2>2, <2>4, <1>5, <1>7, Zenon
  <2>7. turns'[p] = turns[q]
    BY <2>2, <2>5, <1>7, Zenon
  <2> HIDE DEF c
  <2>9. CASE pc'[p] = c
    <3>1. CASE c = "over"
      BY <3>1, <2>9, <2>2, <2>6, <1>4, <1>7, Zenon DEF Related, BothOver, Over, q
    <3>2. CASE c # "over"
      <4>1. pc[q] = c
        BY <3>2, <2>2, Zenon
      <4>2. Level(p, q)'
        BY <4>1, <3>2, <2>5, <2>9, <2>2, <2>3, <2>6, <2>7, <1>7, Zenon DEF Level, Sent, Playing
      <4>. QED BY <4>2, <1>7, Zenon DEF Related, q
    <3>. QED BY <3>1, <3>2, Zenon
  <2>10. CASE pc'[p] # c
    <3>2. c \in {"sudden", "over"} /\ pc'[p] \in {"sudden", "over"}
      BY <2>10, <2>5, <1>4, Zenon
    <3>3. CASE c = "sudden"
      BY <3>2, <3>3, <2>10, <2>2, <2>6, <1>4, <1>7, Zenon DEF Related, Outlasts, Over, q
    <3>4. CASE c = "over"
      <4>1. Over(q)' /\ pc'[p] = "sudden" /\ ~Playing(q)
        BY <3>2, <3>4, <2>10, <2>2, <1>7, Zenon DEF Over, Playing
      <4>2. stream'[q] = <<>>
        BY <4>1, <2>2, <2>3, Zenon DEF Sent
      <4>3. Outlasts(p, q)'
        BY <4>1, <4>2, <2>6, <1>4, <1>7 DEF Outlasts
      <4>. QED BY <4>3, <1>7, Zenon DEF Related, q
    <3>. QED BY <3>2, <3>3, <3>4, Zenon
  <2>. QED BY <2>9, <2>10, Zenon
<1>12. CASE Outlasts(p, q)
  BY <1>2, <1>12, Zenon DEF Outlasts
<1>13. CASE Outlasts(q, p) \/ BothOver(p, q)
  BY <1>2, <1>13, Zenon DEF Outlasts, BothOver, Over, Playing
<1>. QED BY <1>8, <1>9, <1>10, <1>11, <1>12, <1>13, Zenon DEF Related

\* The end of the stream is met only by the side that outlasts the other, and
\* its own move read again changes no status.
LEMMA EofRelated ==
    ASSUME GameInv, NEW p \in Sides, ReceiveEof(p)
    PROVE  GameTypeOK' /\ Related(p, Other[p])'
<1> DEFINE q == Other[p]
           k == turns[p] + 1
           st == status[p] + Points(move[p], move[p])
<1>1. q \in Sides /\ q # p /\ Other[q] = p
  BY OtherSide
<1>2. /\ Playing(p) /\ move[p] # NoMove /\ stream[q] = <<>> /\ pc[q] = "closed"
      /\ status' = [status EXCEPT ![p] = st]
      /\ turns' = [turns EXCEPT ![p] = NextTurns(pc[p], k, st)]
      /\ pc' = [pc EXCEPT ![p] = NextPc(pc[p], k, st, Done(move[p], move[p]))]
      /\ move' = [move EXCEPT ![p] = NoMove]
      /\ stream' = stream
  BY Zenon DEF ReceiveEof, AtEof, Compare
<1>3. GameTypeOK
  BY DEF GameInv
<1> HIDE DEF q
<1>4. /\ move[p] \in Moves /\ pc[p] \in {"first", "sudden"}
      /\ turns[p] \in Nat /\ status[p] \in Int /\ status[q] \in Int
  BY <1>1, <1>2, <1>3, Zenon DEF GameTypeOK, Playing
<1>5. st = status[p] /\ st \in Int /\ k \in Nat
  BY <1>4, PointsFacts
<1> HIDE DEF k, st
<1>6. /\ NextPc(pc[p], k, st, Done(move[p], move[p])) \in {"first", "sudden", "over"}
      /\ NextTurns(pc[p], k, st) \in Nat
  BY <1>4, <1>5, TurnFacts, Zenon
<1>7. /\ status'[p] = status[p] /\ status'[q] = status[q] /\ pc'[q] = pc[q]
      /\ pc'[p] = NextPc(pc[p], k, st, Done(move[p], move[p])) /\ stream'[q] = <<>>
      /\ GameTypeOK'
  BY <1>1, <1>2, <1>3, <1>4, <1>5, <1>6, Zenon DEF GameTypeOK
<1>8. Outlasts(p, q)
  <2>1. Related(p, q)
    BY DEF GameInv, q
  <2>2. ~Ahead(q, p)
    BY <1>2 DEF Ahead, AheadBy
  <2>. QED BY <2>1, <2>2, <1>2, Zenon DEF Related, Level, Ahead, AheadBy, Outlasts, BothOver, Over, Playing
<1>9. pc'[p] \in {"sudden", "over"}
  BY <1>5, <1>7, <1>8, Zenon DEF Outlasts, NextPc, Draw
<1>10. Outlasts(p, q)' \/ BothOver(p, q)'
  BY <1>2, <1>4, <1>7, <1>8, <1>9 DEF Outlasts, BothOver, Over
<1>. QED BY <1>7, <1>10, Zenon DEF Related, q

\* Closing the stream loses no move that is still to be read.
LEMMA FinishRelated ==
    ASSUME GameInv, NEW p \in Sides, Finish(p)
    PROVE  GameTypeOK' /\ Related(p, Other[p])'
<1> DEFINE q == Other[p]
<1>1. q \in Sides /\ q # p /\ Other[q] = p
  BY OtherSide
<1>2. pc[p] = "over" /\ pc' = [pc EXCEPT ![p] = "closed"] /\ UNCHANGED <<turns, status, move, stream>>
  BY Zenon DEF Finish
<1>3. GameTypeOK /\ Related(p, q)
  BY Zenon DEF GameInv
<1> HIDE DEF q
<1>4. pc'[p] = "closed" /\ pc'[q] = pc[q] /\ GameTypeOK'
  BY <1>1, <1>2, <1>3, Zenon DEF GameTypeOK
<1>5. CASE Ahead(p, q)
  <2>1. PICK x \in Moves : AheadBy(p, q, x)
    BY <1>5, Zenon DEF Ahead
  <2>2. AheadBy(p, q, x)'
    BY <2>1, <1>2, <1>4, Zenon DEF AheadBy, Playing
  <2>. QED BY <2>2, <1>4, Zenon DEF Related, Ahead, q
<1>6. CASE Outlasts(q, p) \/ BothOver(p, q)
  <2>1. Outlasts(q, p)' \/ BothOver(p, q)'
    BY <1>2, <1>4, <1>6, Zenon DEF Outlasts, BothOver, Over
  <2>. QED BY <2>1, <1>4, Zenon DEF Related, q
<1>7. ~Level(p, q) /\ ~Ahead(q, p) /\ ~Outlasts(p, q)
  BY <1>2, Zenon DEF Level, Ahead, AheadBy, Outlasts, Playing
<1>. QED BY <1>3, <1>5, <1>6, <1>7, Zenon DEF Related

\* A step of p leaves all that concerns the sides of another match alone.
LEMMA StepFrame ==
    ASSUME GameTypeOK, NEW p \in Sides, Step(p), NEW r \in Sides, r # p, r # Other[p]
    PROVE  /\ pc'[r] = pc[r] /\ turns'[r] = turns[r] /\ status'[r] = status[r]
           /\ move'[r] = move[r] /\ stream'[r] = stream[r]
<1>1. CASE Send(p)
  BY <1>1, Zenon DEF Send, GameTypeOK
<1>2. CASE Receive(p)
  BY <1>2, Zenon DEF Receive, Compare, GameTypeOK
<1>3. CASE ReceiveEof(p)
  BY <1>3, Zenon DEF ReceiveEof, Compare, GameTypeOK
<1>4. CASE Finish(p)
  BY <1>4, Zenon DEF Finish, GameTypeOK
<1>. QED BY <1>1, <1>2, <1>3, <1>4, Zenon DEF Step

\* Every step of a match preserves the invariant.
LEMMA GameStepInv ==
    ASSUME GameInv, NEW p \in Sides, Step(p)
    PROVE  GameInv'
<1> DEFINE q == Other[p]
<1>1. q \in Sides /\ q # p /\ Other[q] = p
  BY OtherSide
<1>2. GameTypeOK' /\ Related(p, q)'
  BY SendRelated, ReceiveRelated, EofRelated, FinishRelated, Zenon DEF Step
<1> HIDE DEF q
<1>3. /\ status'[p] \in Int /\ status'[q] \in Int
  BY <1>1, <1>2, Zenon DEF GameTypeOK
<1>4. Related(q, p)'
  <2>1. CASE Level(p, q)'
    <3>1. Level(q, p)'
      BY <2>1, <1>3 DEF Level, Playing
    <3>. QED BY <3>1, Zenon DEF Related
  <2>2. CASE BothOver(p, q)'
    <3>1. BothOver(q, p)'
      BY <2>2, <1>3 DEF BothOver
    <3>. QED BY <3>1, Zenon DEF Related
  <2>. QED BY <2>1, <2>2, <1>2, Zenon DEF Related
<1>5. ASSUME NEW r \in Sides, r # p, r # q
      PROVE  Related(r, Other[r])'
  <2> DEFINE s == Other[r]
  <2>1. s \in Sides /\ s # p /\ s # q
    BY <1>1, <1>5, OtherSide, Zenon
  <2>2. Related(r, s)
    BY Zenon DEF GameInv
  <2> HIDE DEF s
  <2>3. /\ pc'[r] = pc[r] /\ turns'[r] = turns[r] /\ status'[r] = status[r]
        /\ move'[r] = move[r] /\ stream'[r] = stream[r]
        /\ pc'[s] = pc[s] /\ turns'[s] = turns[s] /\ status'[s] = status[s]
        /\ move'[s] = move[s] /\ stream'[s] = stream[s]
    BY <1>5, <2>1, StepFrame, Zenon DEF GameInv, q
  <2>4. /\ Level(r, s) => Level(r, s)'
        /\ Outlasts(r, s) => Outlasts(r, s)'
        /\ Outlasts(s, r) => Outlasts(s, r)'
        /\ BothOver(r, s) => BothOver(r, s)'
    BY <2>3, Zenon DEF Level, Outlasts, BothOver, Over, Playing, Sent
  <2>5. /\ Ahead(r, s) => Ahead(r, s)'
        /\ Ahead(s, r) => Ahead(s, r)'
    BY <2>3, Zenon DEF Ahead, AheadBy, Playing
  <2>. QED BY <2>2, <2>4, <2>5, Zenon DEF Related, s
<1>. QED BY <1>1, <1>2, <1>4, <1>5, Zenon DEF GameInv, q

\* Both sides begin level.
LEMMA GameInitInv == GameInit => GameInv
<1> SUFFICES ASSUME GameInit PROVE GameInv
  BY Zenon
<1>1. GameTypeOK
  BY DEF GameInit, GameTypeOK
<1>2. ASSUME NEW p \in Sides PROVE Related(p, Other[p])
  <2>1. Other[p] \in Sides
    BY OtherSide, Zenon
  <2>2. Level(p, Other[p])
    <3>1. /\ pc[p] = "first" /\ pc[Other[p]] = "first" /\ turns[p] = 0 /\ turns[Other[p]] = 0
          /\ status[p] = 0 /\ status[Other[p]] = 0
          /\ move[p] = NoMove /\ move[Other[p]] = NoMove
          /\ stream[p] = <<>> /\ stream[Other[p]] = <<>>
      BY <2>1, Zenon DEF GameInit
    <3>2. /\ status[p] \in Int /\ status[Other[p]] \in Int
          /\ status[p] + status[Other[p]] = 0
      BY <3>1
    <3>3. status[p] = -status[Other[p]]
      BY <3>2
    <3>. QED BY <3>1, <3>3, Zenon DEF Level, Playing, Sent
  <2>. QED BY <2>2, Zenon DEF Related
<1>. QED BY <1>1, <1>2, Zenon DEF GameInv

\* In every match the two clients are at the same turn, or one of them one turn
\* ahead, or one has left the second loop alone; their scores are opposite at
\* each turn that both have compared.
THEOREM MatchInvariant == Spec => []GameInv
<1>1. Init => GameInv
  BY GameInitInv, Zenon DEF Init
<1>2. GameInv /\ [Next]_vars => GameInv'
  <2> SUFFICES ASSUME GameInv, [Next]_vars PROVE GameInv'
    BY Zenon
  <2>1. CASE GameNext
    BY <2>1, GameStepInv, Zenon DEF GameNext
  <2>2. CASE UNCHANGED gameVars
    <3>1. UNCHANGED <<pc, turns, status, move, stream>>
      BY <2>2, Zenon DEF gameVars
    <3>2. ASSUME NEW p \in Sides, NEW q \in Sides
          PROVE  /\ Level(p, q)' = Level(p, q) /\ Ahead(p, q)' = Ahead(p, q)
                 /\ Outlasts(p, q)' = Outlasts(p, q) /\ BothOver(p, q)' = BothOver(p, q)
      BY <3>1, Zenon DEF Level, Ahead, AheadBy, Outlasts, BothOver, Over, Playing, Sent
    <3>3. ASSUME NEW p \in Sides PROVE Related(p, Other[p])' = Related(p, Other[p])
      BY <3>2, OtherSide, Zenon DEF Related
    <3>. QED BY <3>1, <3>3, Zenon DEF GameInv, GameTypeOK
  <2>. QED BY <2>1, <2>2, Zenon DEF Next, vars
<1>. QED BY <1>1, <1>2, PTL DEF Spec

\* Whatever the numbers of turns of the two loops, when both clients of a match
\* have left them the RESULT lines they send agree: one says WON and the other
\* LOST, or both say TIE (rpsclient.c).
THEOREM ReportsAgree == Spec => []ResultsAgree
<1>1. GameInv => ResultsAgree
  <2> SUFFICES ASSUME GameInv, NEW p \in Sides,
                      pc[p] \in {"over", "closed"}, pc[Other[p]] \in {"over", "closed"}
               PROVE  <<Says(p), Says(Other[p])>> \in Outcomes
    BY Zenon DEF ResultsAgree
  <2> DEFINE q == Other[p]
  <2>1. q \in Sides /\ Related(p, q) /\ GameTypeOK
    BY OtherSide, Zenon DEF GameInv
  <2> HIDE DEF q
  <2>2. status[p] \in Int /\ status[q] \in Int
    BY <2>1, Zenon DEF GameTypeOK
  <2>3. BothOver(p, q)
    BY <2>1, Zenon DEF Related, Level, Ahead, AheadBy, Outlasts, Playing, q
  <2>. QED BY <2>2, <2>3 DEF BothOver, Says, Outcomes, q
<1>. QED BY <1>1, MatchInvariant, PTL

----------------------------------------------------------------------------
\* The server: the number of players in active, and the search for an opponent
\* that may meet any number of them.

\* A set of natural numbers that is not empty has a least element.
LEMMA LeastNat ==
    ASSUME NEW T \in SUBSET Nat, T # {}
    PROVE  \E x \in T : \A y \in T : x <= y
<1> DEFINE R == OpToRel(<, Nat)
<1>1. PICK x \in T : \A y \in T : ~ (<<y, x>> \in R)
  <2>1. IsWellFoundedOn(R, Nat) BY NatLessThanWellFounded, Zenon
  <2> HIDE DEF R
  <2>. QED BY <2>1, WFMin, Zenon
<1>2. \A y \in Nat : y < x => <<y, x>> \in R
  BY Zenon DEF R, OpToRel
<1> HIDE DEF R
<1>3. ASSUME NEW y \in T PROVE x <= y
  <2>1. y \in Nat /\ x \in Nat BY Zenon
  <2>2. ~ (y < x) BY <1>1, <1>2, <2>1, Zenon
  <2>. QED BY <2>1, <2>2
<1>. QED BY <1>3, Zenon

\* Max gives the greatest element of a set with a bound.
LEMMA MaxFacts ==
    ASSUME NEW T \in SUBSET Nat, T # {}, NEW k \in Nat, \A y \in T : y <= k
    PROVE  Max(T) \in T /\ \A y \in T : Max(T) >= y
<1> DEFINE U == {u \in Nat : \A y \in T : y <= u}
<1>1. PICK u \in U : \A v \in U : u <= v
  <2>1. k \in U /\ U \in SUBSET Nat BY Zenon
  <2> HIDE DEF U
  <2>. QED BY <2>1, LeastNat, Zenon
<1>2. u \in T
  <2> SUFFICES ASSUME u \notin T PROVE FALSE BY Zenon
  <2>1. u # 0
    <3>1. PICK y \in T : TRUE BY Zenon
    <3>. QED BY <3>1
  <2>2. u - 1 \in U BY <1>1, <2>1
  <2>. QED BY <1>1, <2>2
<1>3. \E x \in T : \A y \in T : x >= y BY <1>1, <1>2, Zenon
<1>. QED BY <1>3, Zenon DEF Max

\* The table of players is a finite set of names.
LEMMA RegisteredFinite ==
    ASSUME TypeOK
    PROVE  IsFiniteSet(Registered) /\ Registered \subseteq Names
<1>1. players \in [1 .. Len(players) -> Names] /\ Len(players) \in Nat BY DEF TypeOK
<1>2. IsFiniteSet(1 .. Len(players)) BY <1>1, FS_Interval
<1>3. players \in Surjection(1 .. Len(players), Registered)
  BY <1>1, Zenon DEF Registered, Surjection
<1>4. IsFiniteSet(Registered) BY <1>2, <1>3, FS_Surjection, Zenon
<1>. QED BY <1>1, <1>4, Zenon DEF Registered

\* Every place from the first to the last is the rank of an element.
LEMMA RankFacts ==
    ASSUME NEW len \in Nat, NEW W \in SUBSET (1 .. len)
    PROVE  /\ IsFiniteSet(W) /\ Cardinality(W) \in Nat
           /\ \A i \in W : Rank(i, W) \in 1 .. Cardinality(W)
           /\ \A k \in 1 .. Cardinality(W) : \E i \in W : Rank(i, W) = k
<1>. DEFINE Upto(i) == {j \in W : j <= i}
<1>0. \A x \in W : x \in Nat /\ x <= len OBVIOUS
<1>1. IsFiniteSet(W) /\ Cardinality(W) \in Nat
  <2>1. IsFiniteSet(1 .. len) BY FS_Interval
  <2>. QED BY <2>1, FS_Subset, FS_CardinalityType, Zenon
<1>2. ASSUME NEW i \in W
      PROVE  /\ IsFiniteSet(Upto(i)) /\ Cardinality(Upto(i)) \in Nat
             /\ Cardinality(Upto(i)) <= Cardinality(W) /\ Cardinality(Upto(i)) > 0
  <2>1. Upto(i) \subseteq W /\ i \in Upto(i) BY <1>2
  <2>. HIDE DEF Upto
  <2>2. IsFiniteSet(Upto(i)) /\ Cardinality(Upto(i)) <= Cardinality(W) BY <1>1, <2>1, FS_Subset, Zenon
  <2>3. Cardinality(Upto(i)) \in Nat BY <2>2, FS_CardinalityType, Zenon
  <2>4. Cardinality(Upto(i)) # 0 BY <2>1, <2>2, FS_EmptySet, Zenon
  <2>. QED BY <2>2, <2>3, <2>4
<1>3. \A i \in W : Rank(i, W) = Cardinality(Upto(i)) BY Zenon DEF Rank
<1>4. ASSUME NEW k \in 1 .. Cardinality(W) PROVE \E i \in W : Rank(i, W) = k
  <2>. DEFINE T == {i \in W : Rank(i, W) >= k}
  <2>1. T # {}
    <3>1. W # {} BY <1>1, <1>4, FS_EmptySet
    <3>2. W \in SUBSET Nat /\ \A y \in W : y <= len OBVIOUS
    <3>3. Max(W) \in W /\ \A y \in W : Max(W) >= y BY <3>1, <3>2, MaxFacts, Zenon
    <3>4. Upto(Max(W)) = W BY <3>3, Zenon
    <3>. HIDE DEF Upto
    <3>5. Rank(Max(W), W) = Cardinality(W) BY <1>3, <3>3, <3>4, Zenon
    <3>. QED BY <1>1, <1>4, <3>3, <3>5
  <2>2. PICK i \in T : \A j \in T : i <= j
    <3>1. \A x \in T : x \in Nat BY <1>0, Zenon
    <3>. HIDE DEF T
    <3>2. T \in SUBSET Nat BY <3>1, Zenon
    <3>. QED BY <2>1, <3>2, LeastNat, Zenon
  <2>3. i \in W /\ i \in Nat /\ Rank(i, W) >= k BY <2>2
  <2>4. ASSUME Rank(i, W) > k PROVE FALSE
    <3>. DEFINE B == Upto(i) \ {i}
    <3>1. Upto(i) = B \cup {i} /\ i \notin B BY <2>3
    <3>2. Rank(i, W) = Cardinality(Upto(i)) BY <1>3, <2>3, Zenon
    <3>3. IsFiniteSet(Upto(i)) /\ Cardinality(Upto(i)) \in Nat BY <1>2, <2>3, Zenon
    <3>4. \A x : x \in B => x \in W /\ x < i BY <2>3
    <3>5. IsFiniteSet(B) /\ Cardinality(Upto(i)) = Cardinality(B) + 1 /\ Cardinality(B) \in Nat
      <4>1. B \subseteq Upto(i) BY Zenon
      <4>. HIDE DEF Upto, B
      <4>2. IsFiniteSet(B) BY <3>3, <4>1, FS_Subset, Zenon
      <4>. QED BY <3>1, <4>2, FS_AddElement, FS_CardinalityType, Zenon
    <3>6. Cardinality(B) >= k /\ Cardinality(B) # 0 BY <1>4, <2>4, <3>2, <3>3, <3>5
    <3>7. B # {} BY <3>5, <3>6, FS_EmptySet, Zenon
    <3>8. B \in SUBSET Nat /\ \A y \in B : y <= len
      <4>1. \A y \in B : y \in Nat /\ y <= len BY <1>0, Zenon
      <4>. HIDE DEF B
      <4>. QED BY <4>1, Zenon
    <3>9. Max(B) \in B /\ \A y \in B : Max(B) >= y
      <4>. HIDE DEF B
      <4>. QED BY <3>7, <3>8, MaxFacts, Zenon
    <3>10. Max(B) \in W /\ Max(B) < i /\ Max(B) \in Nat
      <4>. HIDE DEF B
      <4>. QED BY <1>0, <3>4, <3>9, Zenon
    <3>11. Upto(Max(B)) = B
      <4>1. \A x \in W : x <= Max(B) <=> x < i
        <5>1. ASSUME NEW x \in W, x <= Max(B) PROVE x < i
          <6>1. x \in Nat BY <1>0, <5>1, Zenon
          <6>. HIDE DEF B
          <6>. QED BY <2>3, <3>10, <5>1, <6>1
        <5>2. ASSUME NEW x \in W, x < i PROVE x <= Max(B)
          <6>1. x \in B BY <2>3, <5>2
          <6>2. Max(B) >= x BY <3>9, <6>1, Zenon
          <6>. QED BY <3>10, <6>2, Zenon
        <5>. QED BY <5>1, <5>2, Zenon
      <4>2. B = {x \in W : x < i}
        <5>1. \A x \in W : (x <= i /\ x # i) <=> x < i BY <1>0, <2>3
        <5>. QED BY <5>1, Zenon
      <4>. HIDE DEF B
      <4>. QED BY <4>1, <4>2, Zenon
    <3>12. Rank(Max(B), W) >= k BY <1>3, <3>6, <3>10, <3>11, Zenon
    <3>13. Max(B) \in T BY <3>10, <3>12, Zenon
    <3>14. i <= Max(B) BY <2>2, <3>13, Zenon
    <3>. HIDE DEF B
    <3>. QED BY <2>3, <3>10, <3>14
  <2>5. Rank(i, W) \in Nat BY <1>2, <1>3, <2>3, Zenon
  <2>. QED BY <2>3, <2>4, <2>5
<1>5. ASSUME NEW i \in W PROVE Rank(i, W) \in 1 .. Cardinality(W)
  <2>1. Rank(i, W) = Cardinality(Upto(i)) BY <1>3, <1>5, Zenon
  <2>2. Cardinality(Upto(i)) \in Nat /\ Cardinality(Upto(i)) <= Cardinality(W) /\ Cardinality(Upto(i)) > 0
    BY <1>2, <1>5, Zenon
  <2>. HIDE DEF Upto
  <2>. QED BY <1>1, <2>1, <2>2
<1>. QED BY <1>1, <1>4, <1>5, Zenon

\* The players that a scan matches are in the table, wait and are not its own.
LEMMA ScanFacts ==
    ASSUME TypeOK, NEW n \in Names, Waiting(n) # {}
    PROVE  /\ Waiting(n) \in SUBSET (1 .. Len(players)) /\ Len(players) \in Nat
           /\ Max(Waiting(n)) \in Waiting(n)
           /\ \A i \in Waiting(n) : /\ players[i] \in Names /\ players[i] \in Registered
                                    /\ players[i] # n /\ pl[players[i]].status = "WAITING"
           /\ NewMatches(n, Waiting(n)) \in Seq(Match)
           /\ Len(NewMatches(n, Waiting(n))) = Cardinality(Waiting(n))
           /\ \A k \in 1 .. Cardinality(Waiting(n)) :
                 \E i \in Waiting(n) :
                    NewMatches(n, Waiting(n))[k] = [p1 |-> n, p2 |-> players[i], status |-> "ACTIVE"]
<1>. DEFINE W == Waiting(n)
<1>1. players \in Seq(Names) /\ Len(players) \in Nat BY DEF TypeOK
<1>2. W \in SUBSET (1 .. Len(players)) BY Zenon DEF Waiting
<1>3. \A i \in W : /\ players[i] \in Names /\ players[i] \in Registered
                   /\ players[i] # n /\ pl[players[i]].status = "WAITING"
  BY <1>1 DEF Waiting, Registered
<1>. HIDE DEF W
<1>4. Max(W) \in W
  <2>1. W \in SUBSET Nat /\ W # {} /\ \A y \in W : y <= Len(players) BY <1>1, <1>2 DEF W
  <2>. QED BY <1>1, <2>1, MaxFacts, Zenon
<1>5. /\ Cardinality(W) \in Nat
      /\ \A k \in 1 .. Cardinality(W) : \E i \in W : Rank(i, W) = k
  BY <1>1, <1>2, RankFacts, Zenon
<1>6. NewMatches(n, W) = [k \in 1 .. Cardinality(W) |->
          [p1 |-> n, p2 |-> players[CHOOSE i \in W : Rank(i, W) = k], status |-> "ACTIVE"]]
  BY Zenon DEF NewMatches
<1>7. ASSUME NEW k \in 1 .. Cardinality(W)
      PROVE  /\ NewMatches(n, W)[k] \in Match
             /\ \E i \in W : NewMatches(n, W)[k] = [p1 |-> n, p2 |-> players[i], status |-> "ACTIVE"]
  <2>1. PICK j \in W : Rank(j, W) = k BY <1>5, <1>7, Zenon
  <2>2. (CHOOSE i \in W : Rank(i, W) = k) \in W BY <2>1, Zenon
  <2>3. NewMatches(n, W)[k] = [p1 |-> n, p2 |-> players[CHOOSE i \in W : Rank(i, W) = k],
                               status |-> "ACTIVE"]
    BY <1>6, <1>7, Zenon
  <2>4. PICK i \in W : i = CHOOSE h \in W : Rank(h, W) = k BY <2>2, Zenon
  <2>5. NewMatches(n, W)[k] = [p1 |-> n, p2 |-> players[i], status |-> "ACTIVE"]
    BY <2>3, <2>4, Zenon
  <2>6. NewMatches(n, W)[k] \in Match BY <1>3, <2>5 DEF Match
  <2>. QED BY <2>5, <2>6, Zenon
<1>8. NewMatches(n, W) \in Seq(Match) /\ Len(NewMatches(n, W)) = Cardinality(W)
  <2>1. NewMatches(n, W) \in [1 .. Cardinality(W) -> Match] BY <1>6, <1>7, Zenon
  <2>. QED BY <1>5, <2>1, IsASeq, LenProperties
<1>. QED BY <1>1, <1>2, <1>3, <1>4, <1>7, <1>8, Zenon DEF W

\* What the scan of the match loop leaves behind, however many it has met.
LEMMA FindFacts ==
    ASSUME SvrInv, NEW t \in Threads, FindOpponent(t)
    PROVE  ScanDone(t)
<1>. DEFINE n == Name(t)
            W == Waiting(n)
            L == Len(matches)
            at(x) == CHOOSE i \in W : players[i] = x
            new(x) == IF x = n THEN Meet(pl[n], players[Max(W)], L + Cardinality(W))
                      ELSE IF \E i \in W : players[i] = x THEN Meet(pl[x], n, L + Rank(at(x), W))
                      ELSE pl[x]
<1>1. /\ th[t].pc = "find" /\ W # {}
      /\ matches' = matches \o NewMatches(n, W)
      /\ pl' = [x \in Names |-> new(x)]
  BY Zenon DEF FindOpponent
<1>2. TypeOK BY Zenon DEF SvrInv, SvrBase
<1>3. n \in Names /\ n \in Registered /\ pl[n] \in Player BY <1>1, NameFacts, Zenon
<1>4. /\ W \in SUBSET (1 .. Len(players)) /\ Len(players) \in Nat
      /\ Max(W) \in W
      /\ \A i \in W : /\ players[i] \in Names /\ players[i] \in Registered
                      /\ players[i] # n /\ pl[players[i]].status = "WAITING"
      /\ NewMatches(n, W) \in Seq(Match)
      /\ Len(NewMatches(n, W)) = Cardinality(W)
      /\ \A k \in 1 .. Cardinality(W) :
            \E i \in W : NewMatches(n, W)[k] = [p1 |-> n, p2 |-> players[i], status |-> "ACTIVE"]
  BY <1>1, <1>2, <1>3, ScanFacts, Zenon
<1>5. matches \in Seq(Match) /\ L \in Nat /\ Registered \subseteq Names
  BY <1>2, RegisteredFinite DEF TypeOK
<1>. HIDE DEF W, n
<1>6. Cardinality(W) \in Nat /\ \A i \in W : Rank(i, W) \in 1 .. Cardinality(W)
  BY <1>4, RankFacts, Zenon
<1>. HIDE DEF L
<1>7. \A p \in Player, e \in Registered, m \in Nat :
          /\ Meet(p, e, m) \in Player /\ Meet(p, e, m).enemy = e /\ Meet(p, e, m).status = "PLAYING"
  BY <1>5, Zenon DEF Meet, Player
<1>8. ASSUME NEW x \in Registered
      PROVE  /\ new(x) \in Player
             /\ new(x).enemy # None => new(x).enemy \in Registered
             /\ new(x).status # "DEAD" \/ new(x) = pl[x]
  <2>1. pl[x] \in Player /\ (pl[x].enemy # None => pl[x].enemy \in Registered)
    BY Zenon DEF SvrInv, SvrBase, TablesOK
  <2>2. CASE x = n
    <3>1. new(x) = Meet(pl[n], players[Max(W)], L + Cardinality(W)) BY <2>2, Zenon
    <3>2. L + Cardinality(W) \in Nat BY <1>5, <1>6
    <3>3. players[Max(W)] \in Registered BY <1>4, Zenon
    <3>. HIDE DEF new
    <3>. DEFINE e == players[Max(W)]
                m == L + Cardinality(W)
    <3>4. new(x) = Meet(pl[n], e, m) /\ e \in Registered /\ m \in Nat BY <3>1, <3>2, <3>3, Zenon
    <3>. HIDE DEF e, m
    <3>5. /\ Meet(pl[n], e, m) \in Player /\ Meet(pl[n], e, m).enemy = e
          /\ Meet(pl[n], e, m).status = "PLAYING"
      BY <1>3, <1>7, <3>4, Zenon
    <3>. QED BY <3>4, <3>5, Zenon
  <2>3. CASE x # n /\ \E i \in W : players[i] = x
    <3>1. new(x) = Meet(pl[x], n, L + Rank(at(x), W)) BY <2>3, Zenon
    <3>2. at(x) \in W BY <2>3, Zenon
    <3>. HIDE DEF at
    <3>3. L + Rank(at(x), W) \in Nat BY <1>5, <1>6, <3>2
    <3>. HIDE DEF new
    <3>. QED BY <1>3, <1>7, <2>1, <3>1, <3>3
  <2>4. CASE x # n /\ ~\E i \in W : players[i] = x
    <3>1. new(x) = pl[x] BY <2>4, Zenon
    <3>. HIDE DEF new
    <3>. QED BY <2>1, <3>1, Zenon
  <2>. QED BY <2>2, <2>3, <2>4, Zenon
<1>9. \A x \in Names : x \notin Registered => new(x) = pl[x]
  BY <1>3, <1>4, Zenon
<1>. HIDE DEF new
<1>10. \A x \in Names : new(x) \in Player \cup {None}
  BY <1>2, <1>8, <1>9 DEF TypeOK
<1>11. pl' \in [Names -> Player \cup {None}] /\ \A x \in Registered : pl'[x] = new(x)
  BY <1>1, <1>5, <1>10, Zenon
<1>12. /\ matches' \in Seq(Match) /\ Len(matches') = L + Cardinality(W)
       /\ \A i \in 1 .. L + Cardinality(W) :
             matches'[i] = IF i <= L THEN matches[i] ELSE NewMatches(n, W)[i - L]
  <2>. DEFINE N == NewMatches(n, W)
  <2>1. matches' = matches \o N /\ N \in Seq(Match) /\ Len(N) = Cardinality(W)
    BY <1>1, <1>4, Zenon
  <2>. HIDE DEF N
  <2>2. /\ matches \o N \in Seq(Match) /\ Len(matches \o N) = Len(matches) + Len(N)
        /\ \A i \in 1 .. Len(matches) + Len(N) :
              (matches \o N)[i] = IF i <= Len(matches) THEN matches[i] ELSE N[i - Len(matches)]
    BY <1>5, <2>1, ConcatProperties, Zenon
  <2>. QED BY <2>1, <2>2, Zenon DEF L, N
<1>13. ASSUME NEW m \in 1 .. Len(matches') PROVE {matches'[m].p1, matches'[m].p2} \subseteq Registered
  <2>1. CASE m <= L
    <3>1. m \in 1 .. Len(matches) /\ matches'[m] = matches[m] BY <1>5, <1>6, <1>12, <1>13, <2>1 DEF L
    <3>. QED BY <3>1, Zenon DEF SvrInv, SvrBase, TablesOK
  <2>2. CASE ~(m <= L)
    <3>1. m - L \in 1 .. Cardinality(W) /\ matches'[m] = NewMatches(n, W)[m - L]
      BY <1>5, <1>6, <1>12, <1>13, <2>2
    <3>2. PICK i \in W : matches'[m] = [p1 |-> n, p2 |-> players[i], status |-> "ACTIVE"]
      BY <1>4, <3>1, Zenon
    <3>. QED BY <1>3, <1>4, <3>2
  <2>. QED BY <2>1, <2>2, Zenon
<1>14. L + Cardinality(W) \in Nat BY <1>5, <1>6
<1>15. Cardinality(W) # 0
  <2>1. IsFiniteSet(W) BY <1>4, RankFacts, Zenon
  <2>. QED BY <1>1, <2>1, FS_EmptySet, Zenon
<1>. QED BY <1>1, <1>3, <1>6, <1>8, <1>11, <1>12, <1>13, <1>14, <1>15, Zenon DEF n, W, L, ScanDone

\* A scan that meets one player makes one match of the two.
LEMMA OneMetFacts ==
    ASSUME SvrInv, ~upset, NEW t \in Threads, FindOpponent(t), Cardinality(Waiting(Name(t))) = 1
    PROVE  OneMet(t)
<1>. DEFINE n == Name(t)
            W == Waiting(n)
            L == Len(matches)
<1>1. /\ th[t].pc = "find" /\ pl[n].enemy = None /\ W # {}
      /\ matches' = matches \o NewMatches(n, W)
      /\ pl' = [x \in Names |->
                  IF x = n THEN Meet(pl[n], players[Max(W)], L + Cardinality(W))
                  ELSE IF \E i \in W : players[i] = x
                  THEN Meet(pl[x], n, L + Rank(CHOOSE i \in W : players[i] = x, W))
                  ELSE pl[x]]
  BY Zenon DEF FindOpponent
<1>2. TypeOK /\ Calm BY Zenon DEF SvrInv, SvrBase
<1>3. n \in Names /\ n \in Registered /\ pl[n] \in Player BY <1>1, NameFacts, Zenon
<1>4. /\ W \in SUBSET (1 .. Len(players)) /\ Len(players) \in Nat
      /\ Max(W) \in W
      /\ \A i \in W : /\ players[i] \in Names /\ players[i] \in Registered
                      /\ players[i] # n /\ pl[players[i]].status = "WAITING"
      /\ NewMatches(n, W) \in Seq(Match)
      /\ Len(NewMatches(n, W)) = Cardinality(W)
      /\ \A k \in 1 .. Cardinality(W) :
            \E i \in W : NewMatches(n, W)[k] = [p1 |-> n, p2 |-> players[i], status |-> "ACTIVE"]
  BY <1>1, <1>2, <1>3, ScanFacts, Zenon
<1>5. matches \in Seq(Match) /\ L \in Nat BY <1>2 DEF TypeOK
<1>6. pl[n].status = "WAITING"
  <2>1. pl[n].status # "DEAD" BY <1>1, Zenon DEF SvrInv, SvrBase, OwnerAlive, Owns
  <2>2. pl[n].status # "PLAYING" BY <1>1, <1>2, <1>3, RPSAssumption, Zenon DEF Calm, RecordsOK, InMatch
  <2>. QED BY <1>3, <2>1, <2>2, Zenon DEF Player
<1>7. Cardinality(W) = 1 BY Zenon
<1>. HIDE DEF W, n
<1>8. \A i \in W : Rank(i, W) = 1
  <2>1. \A i \in W : Rank(i, W) \in 1 .. Cardinality(W) BY <1>4, RankFacts, Zenon
  <2>. QED BY <1>7, <2>1
<1>9. PICK w \in W : W = {w}
  <2>1. IsFiniteSet(W) BY <1>4, RankFacts, Zenon
  <2>. QED BY <1>7, <2>1, FS_Singleton, Zenon
<1>. DEFINE p == players[w]
<1>10. Max(W) = w /\ \A i \in W : i = w BY <1>4, <1>9, Zenon
<1>11. p \in Registered /\ p \in Names /\ p # n /\ pl[p].status = "WAITING" BY <1>4, Zenon
<1>12. /\ Len(matches') = L + 1
       /\ \A i \in 1 .. L + 1 : matches'[i] = IF i <= L THEN matches[i] ELSE NewMatches(n, W)[i - L]
  <2>. DEFINE N == NewMatches(n, W)
  <2>1. matches' = matches \o N /\ N \in Seq(Match) /\ Len(N) = 1
    BY <1>1, <1>4, <1>7, Zenon
  <2>. HIDE DEF N
  <2>2. /\ Len(matches \o N) = Len(matches) + Len(N)
        /\ \A i \in 1 .. Len(matches) + Len(N) :
              (matches \o N)[i] = IF i <= Len(matches) THEN matches[i] ELSE N[i - Len(matches)]
    BY <1>5, <2>1, ConcatProperties, Zenon
  <2>. QED BY <2>1, <2>2, Zenon DEF N
<1>13. NewMatches(n, W)[1] = [p1 |-> n, p2 |-> p, status |-> "ACTIVE"] BY <1>4, <1>7, <1>10
<1>14. matches'[L + 1] = [p1 |-> n, p2 |-> p, status |-> "ACTIVE"]
  <2>1. matches'[L + 1] = NewMatches(n, W)[L + 1 - L] BY <1>5, <1>12
  <2>2. L + 1 - L = 1 BY <1>5
  <2>. QED BY <1>13, <2>1, <2>2, Zenon
<1>15. pl'[n] = Meet(pl[n], p, L + 1) BY <1>1, <1>3, <1>7, <1>10, Zenon
<1>16. pl'[p] = Meet(pl[p], n, L + 1)
  <2>1. (CHOOSE i \in W : players[i] = p) = w BY <1>9, Zenon
  <2>2. Rank(w, W) = 1 BY <1>8, Zenon
  <2>3. \E i \in W : players[i] = p BY Zenon
  <2>4. pl'[p] = Meet(pl[p], n, L + Rank(CHOOSE i \in W : players[i] = p, W))
    BY <1>1, <1>11, <2>3, Zenon
  <2>. QED BY <2>1, <2>2, <2>4, Zenon
<1>17. \A x \in Names : x # n /\ x # p => pl'[x] = pl[x] BY <1>1, <1>10, Zenon
<1>18. \A i \in 1 .. L : matches'[i] = matches[i] BY <1>5, <1>12
<1>. QED BY <1>6, <1>11, <1>12, <1>14, <1>15, <1>16, <1>17, <1>18, Zenon DEF n, OneMet

\* active keeps counting the players that are not in a match: a registration
\* adds a new player, a match takes two away and a result brings one back.
LEMMA CountsKept ==
    ASSUME SvrInv, NEW t \in Threads, ~upset',
           \/ Register(t) /\ ~BadName(Name(t))
           \/ FindOpponent(t)
           \/ Report(t)
    PROVE  ActiveCount'
<1>. DEFINE A == Unmatched
            B == Unmatched'
            n == Name(t)
<1>1. TypeOK BY Zenon DEF SvrInv, SvrBase
<1>2. upset => upset' BY Zenon DEF Register, FindOpponent, Report
<1>3. active = Cardinality(A) BY <1>2, Zenon DEF SvrInv, Calm, ActiveCount, Unmatched
<1>4. IsFiniteSet(A) /\ Cardinality(A) \in Nat
  <2>1. IsFiniteSet(Registered) BY <1>1, RegisteredFinite, Zenon
  <2>2. A \in SUBSET Registered BY Zenon DEF Unmatched
  <2>. QED BY <2>1, <2>2, FS_Subset, FS_CardinalityType, Zenon
<1>5. SUFFICES active' = Cardinality(B) BY Zenon DEF ActiveCount, Unmatched
<1>6. CASE Register(t) /\ ~BadName(n)
  <2>1. B = A \cup {n} /\ (n \in A <=> n \in Registered) BY <1>6, JoinedInv, Zenon
  <2>2. active' = IF n \in Registered THEN active ELSE active + 1
    <3>1. active' = active + Joins(n) BY <1>6, Zenon DEF Register
    <3>. QED BY <1>1, <3>1 DEF Joins, TypeOK
  <2>. HIDE DEF A, B, n
  <2>. QED BY <1>3, <1>4, <2>1, <2>2, FS_AddElement, Zenon
<1>7. CASE FindOpponent(t)
  <2>1. ScanDone(t) BY <1>7, FindFacts, Zenon
  <2>2. ~upset /\ Cardinality(Waiting(Name(t))) = 1 => OneMet(t) BY <1>7, OneMetFacts, Zenon
  <2>3. /\ active' = active - 2
        /\ \E p \in Registered : A = (B \cup {p}) \cup {n} /\ p \notin B /\ n \notin B \cup {p}
    BY <1>7, <2>1, <2>2, FindOpponentInv, Zenon
  <2>. HIDE DEF A, B, n
  <2>4. PICK p \in Registered : A = (B \cup {p}) \cup {n} /\ p \notin B /\ n \notin B \cup {p} BY <2>3, Zenon
  <2>5. B \in SUBSET A BY <2>4, Zenon
  <2>6. IsFiniteSet(B) /\ Cardinality(B) \in Nat BY <1>4, <2>5, FS_Subset, FS_CardinalityType, Zenon
  <2>7. IsFiniteSet(B \cup {p}) /\ Cardinality(B \cup {p}) = Cardinality(B) + 1
    BY <2>4, <2>6, FS_AddElement, Zenon
  <2>8. Cardinality(A) = Cardinality(B) + 1 + 1 BY <2>4, <2>7, FS_AddElement, Zenon
  <2>. QED BY <1>3, <2>3, <2>6, <2>8
<1>8. CASE Report(t)
  <2>1. B = A \cup {n} /\ n \notin A BY <1>8, ReportInv, Zenon
  <2>2. active' = active + 1 BY <1>8, Zenon DEF Report, Back
  <2>. HIDE DEF A, B, n
  <2>. QED BY <1>3, <1>4, <2>1, <2>2, FS_AddElement, Zenon
<1>. QED BY <1>6, <1>7, <1>8, Zenon

\* The initial state.
LEMMA SvrInitInv == SvrInit => SvrInv
<1>. SUFFICES ASSUME SvrInit PROVE SvrInv OBVIOUS
<1>. USE DEF SvrInit
<1>1. TypeOK
  <2>5. players = <<>> /\ matches = <<>> /\ active = 0 /\ upset = FALSE BY Zenon
  <2>6. \A S : <<>> \in Seq(S) BY EmptySeq, Zenon
  <2>7. players \in Seq(Names) BY <2>5, <2>6, Zenon
  <2>8. matches \in Seq(Match) BY <2>5, <2>6, Zenon
  <2>9. active \in Int BY <2>5
  <2>1. upset \in BOOLEAN BY <2>5, Zenon
  <2>2. th \in [Threads -> [pc : {"idle", "register", "find", "tell", "report", "clean"},
                            c : Clients \cup {None}, m : Nat \cup {None}]]
    BY Zenon DEF IdleThread
  <2>3. cl \in [Clients -> [pc : {"connect", "wait", "play", "result", "exit"},
                            left : Nat, told : Told \cup {None}]]
    BY RPSAssumption, Zenon
  <2>4. pl \in [Names -> Player \cup {None}] /\ sent \in [Clients -> {"won", "lost", "tie"}]
    BY Zenon
  <2>. QED BY <2>1, <2>2, <2>3, <2>4, <2>7, <2>8, <2>9, Zenon DEF TypeOK
<1>2. Registered = {} /\ Len(matches) = 0 /\ \A t \in Threads : th[t].pc = "idle" BY DEF Registered, IdleThread
<1>3. TablesOK /\ OwnerAlive /\ OneThread /\ OneWait
  BY <1>2 DEF TablesOK, OwnerAlive, OneThread, OneWait, Owns, Untold
<1>4. \A c \in Clients : cl[c].pc = "connect" BY Zenon
<1>5. PlayThread /\ LeftOK BY <1>4, Zenon DEF PlayThread, LeftOK
<1>6. ActiveCount BY <1>2, FS_EmptySet, Zenon DEF ActiveCount
<1>7. MatchesAgree /\ RecordsOK BY <1>2 DEF MatchesAgree, RecordsOK
<1>8. ThreadsOK /\ PlayedTogether BY <1>2, Zenon DEF ThreadsOK, PlayedTogether, Played
<1>9. ToldRight BY <1>4, Zenon DEF ToldRight
<1>. QED BY <1>1, <1>3, <1>5, <1>6, <1>7, <1>8, <1>9, Zenon DEF SvrInv, SvrBase, Calm

\* A step of the server or of a client, and a step of neither.
LEMMA SvrStepInv == SvrInv /\ [SvrNext]_svrVars => SvrInv'
<1>. SUFFICES ASSUME SvrInv, [SvrNext]_svrVars PROVE SvrInv' BY Zenon
<1>1. CASE UNCHANGED svrVars
  <2>1. /\ players' = players /\ active' = active /\ matches' = matches /\ pl' = pl
        /\ th' = th /\ cl' = cl /\ sent' = sent /\ upset' = upset
    BY <1>1, Zenon DEF svrVars
  <2>2. TypeOK' BY <2>1, Zenon DEF SvrInv, SvrBase, TypeOK
  <2>3. TablesOK' /\ OwnerAlive' /\ OneThread' /\ OneWait' /\ PlayThread' BY <2>1, ClientFrame, Zenon
  <2>4. LeftOK' BY <2>1, Zenon DEF SvrInv, SvrBase, LeftOK
  <2>5. ASSUME ~upset PROVE Calm'
    <3>1. Calm BY <2>5, Zenon DEF SvrInv
    <3>2. ActiveCount' /\ MatchesAgree' /\ RecordsOK' /\ ThreadsOK' BY <2>1, <3>1, ClientFrame, Zenon
    <3>3. PlayedTogether'
      <4>1. \A t, u \in Threads : Opponents(t, u)' <=> Opponents(t, u) BY <2>1, ClientFrame, Zenon
      <4>2. \A t \in Threads : Played(t)' <=> Played(t) BY <2>1, Zenon DEF Played
      <4>. QED BY <3>1, <4>1, <4>2, Zenon DEF Calm, PlayedTogether
    <3>4. ToldRight' BY <2>1, <3>1, Zenon DEF Calm, ToldRight
    <3>. QED BY <3>2, <3>3, <3>4, Zenon DEF Calm
  <2>. QED BY <2>1, <2>2, <2>3, <2>4, <2>5, Zenon DEF SvrInv, SvrBase
<1>2. ASSUME NEW c \in Clients, Connect(c) \/ Result(c) PROVE SvrInv'
  BY <1>2, ConnectInv, ResultInv, Zenon
<1>3. ASSUME NEW c \in Clients, NEW d \in Clients, Play(c, d) PROVE SvrInv' BY <1>3, PlayInv, Zenon
<1>4. ASSUME NEW t \in Threads, ThreadStep(t) PROVE SvrInv'
  <2>1. CASE Register(t)
    <3>1. CASE BadName(Name(t)) BY <2>1, <3>1, RefusedInv, Zenon
    <3>2. CASE ~BadName(Name(t)) BY <2>1, <3>2, CountsKept, JoinedInv, Zenon
    <3>. QED BY <3>1, <3>2, Zenon
  <2>2. CASE Matched(t) BY <2>2, MatchedInv, Zenon
  <2>3. CASE FindOpponent(t)
    <3>1. ScanDone(t) BY <2>3, FindFacts, Zenon
    <3>2. ~upset /\ Cardinality(Waiting(Name(t))) = 1 => OneMet(t) BY <2>3, OneMetFacts, Zenon
    <3>3. ~upset' => ActiveCount' BY <2>3, CountsKept, Zenon
    <3>. QED BY <2>3, <3>1, <3>2, <3>3, FindOpponentInv, Zenon
  <2>4. CASE Tell(t) BY <2>4, TellInv
  <2>5. CASE Report(t) BY <2>5, CountsKept, ReportInv, Zenon
  <2>6. CASE Clean(t) BY <2>6, CleanInv
  <2>. QED BY <1>4, <2>1, <2>2, <2>3, <2>4, <2>5, <2>6, Zenon DEF ThreadStep
<1>. QED BY <1>1, <1>2, <1>3, <1>4, Zenon DEF SvrNext

\* rpsserver.c, with any number of clients, threads and matches: the invariant
\* that the tables, the threads of handle_connection and the clients keep.
THEOREM ServerTables == Spec => []SvrInv
<1>1. Init => SvrInv BY SvrInitInv, Zenon DEF Init
<1>2. SvrInv /\ [Next]_vars => SvrInv'
  <2>1. [Next]_vars => [SvrNext]_svrVars BY Zenon DEF Next, vars
  <2>. QED BY <2>1, SvrStepInv, Zenon
<1>. QED BY <1>1, <1>2, PTL DEF Spec

\* The match table and the records agree, and a record has one thread, however
\* the critical sections of handle_connection interleave.
THEOREM TablesPaired == Spec => []Paired
<1>. QED BY ServerTables, InvPaired, PTL

\* The MATCH lines, made outside the mutex, of two clients in the same match
\* name each other and carry a port.
THEOREM MatchLinesMeet == Spec => []ToldOfEachOther
<1>. QED BY ServerTables, InvTold, PTL
=============================================================================
