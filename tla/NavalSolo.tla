------------------------------ MODULE NavalSolo -----------------------------
(***************************************************************************)
(* The naval game for one player (6.BattleShip): the player's guesses come *)
(* from the terminal, those of the CPU from a file.  Its grid.c and game.c *)
(* are those of the hub, but for the count of the CPU's turns.             *)
(***************************************************************************)
EXTENDS NavalGame

CONSTANTS
    Comment,    \* a line that begins with #
    MaxLines    \* bound: lines the player types before the end of the file

VARIABLE solo   \* [pc, game, turns, moves, lines]: where main is, the game,
                \* cpu_turns, the queue of moves, and the lines typed

EXHAUST_MOVES_CPU == -3

\* A queue is a sequence.
queue_enqueue(q, t) == Append(q, t)
queue_dequeue(q) == Tail(q)

\* simple_read: the lines of a file that are no comments.
simple_read(f) == FoldLeft(LAMBDA q, l : IF l = Comment THEN q ELSE queue_enqueue(q, l), <<>>, f)

SoloOff == [pc |-> "gone", game |-> None, turns |-> 0, moves |-> <<>>, lines |-> 0]

\* The files of the scenario d; the numbers of the rules are parsed already.
read_files(d) ==
    [rules |-> d.rules, player |-> simple_read(d.map[1]), cpu |-> simple_read(d.map[2]),
     moves |-> simple_read(d.moves)]

\* game_init, game_draw and game_set here: as in the hub, no game without maps
\* that fit, and the CPU may guess once for each line of its file.
solo_game_set(data) ==
    [game |-> game_set(data.rules, data.player, data.cpu), turns |-> Len(data.moves)]

\* main up to its loop; without a game it ends.
SoloStart(d) ==
    LET data == read_files(d)
        g == solo_game_set(data)
    IN  IF g.game = None THEN SoloOff
        ELSE [pc |-> "player", game |-> g.game, turns |-> g.turns, moves |-> data.moves, lines |-> 0]

\* Mutant: a guess that was made before is taken for a move.
AgainNot(c) == c \in {ILLEGAL_M, BAD}

Again(c) == c \in {ILLEGAL_M, BAD, REPEAT}

\* The player guesses until the guess counts; the end of the file ends the game.
PlayerGuess(m) ==
    LET r == game_play_player(solo.game, m)
    IN  /\ solo.pc = "player" /\ solo.lines < MaxLines
        /\ solo' = [solo EXCEPT !.lines = @ + 1, !.game = r.game,
                                !.pc = CASE Again(r.res) -> "player"
                                         [] ~Again(r.res) /\ GameOn(r.game) -> "cpu"
                                         [] OTHER -> "gone"]

PlayerQuits == solo.pc = "player" /\ solo' = [solo EXCEPT !.pc = "gone"]

\* game_play_ and game_play_cpu here: a guess takes a turn, also one that is refused.
solo_play_cpu(s) ==
    IF s.turns = 0 THEN [res |-> EXHAUST_MOVES_CPU, game |-> s.game, turns |-> 0]
    ELSE LET r == game_play_cpu(s.game, Head(s.moves))
         IN  [res |-> r.res, game |-> r.game, turns |-> s.turns - 1]

\* The CPU's guess is the next of the file; without one it gives up.
CpuGuess ==
    LET r == solo_play_cpu(solo)
    IN  /\ solo.pc = "cpu"
        /\ solo' = IF r.res = EXHAUST_MOVES_CPU THEN [solo EXCEPT !.pc = "gone"]
                   ELSE [solo EXCEPT !.turns = r.turns, !.moves = queue_dequeue(@), !.game = r.game,
                                     !.pc = CASE Again(r.res) -> "cpu"
                                              [] ~Again(r.res) /\ GameOn(r.game) -> "player"
                                              [] OTHER -> "gone"]

SoloStep(guesses) == (\E m \in guesses : PlayerGuess(m)) \/ PlayerQuits \/ CpuGuess
=============================================================================
