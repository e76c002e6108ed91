------------------------------ MODULE NavalGame -----------------------------
(***************************************************************************)
(* The game of the naval hub and its agents: grid.c and game.c.            *)
(*                                                                         *)
(* A grid is a function from positions <<x, y>> to elements.  Position and *)
(* ship numbers start at 1 as in the code; rows have one digit here.  A    *)
(* rules record has the size of the grid and the magnitudes of the ships,  *)
(* a map is a sequence of [x, y, d], or None for a line that does not parse.*)
(***************************************************************************)
EXTENDS Integers, Sequences, FiniteSets, FiniteSetsExt, SequencesExt

CONSTANT None

GRID_MAX_X == 26
GRID_MAX_Y == 26

\* The elements '.', '/' and '*'; a ship is its number.
Water == 0
Slash == -1
Star == -2

\* The results of a guess.
MISS == 0
HIT == 1
DOWN == 2
REPEAT == -1
BAD == -2
ILLEGAL_M == -4

grid_init(r) == [p \in (1 .. r.x) \X (1 .. r.y) |-> Water]

check_inside_this(g, p) == p \in DOMAIN g

check_inside_max(x, y) == x \in 1 .. GRID_MAX_X /\ y \in 1 .. GRID_MAX_Y

\* The end of a string outside the grid.
grid_get(g, p) == IF check_inside_this(g, p) THEN g[p] ELSE None

grid_set(g, p, e) == IF check_inside_this(g, p) THEN [g EXCEPT ![p] = e] ELSE g

Towards(d) == CASE d = "N" -> <<0, -1>> [] d = "S" -> <<0, 1>>
                [] d = "E" -> <<1, 0>> [] d = "W" -> <<-1, 0>>

\* The first position of the ship that is outside or taken decides the error,
\* and then nothing is drawn.
grid_draw(g, at, e, m) ==
    LET pos(k) == <<at.x + k * Towards(at.d)[1], at.y + k * Towards(at.d)[2]>>
        outside == {k \in 0 .. m - 1 : ~check_inside_this(g, pos(k))}
        taken == {k \in (0 .. m - 1) \ outside : g[pos(k)] # Water}
        ship == {pos(k) : k \in 0 .. m - 1}
    IN  CASE at.d \notin {"N", "E", "S", "W"} -> [error |-> "direction", grid |-> g]
          [] at.d \in {"N", "E", "S", "W"} /\ outside \cup taken = {} ->
               [error |-> "0", grid |-> [p \in DOMAIN g |-> IF p \in ship THEN e ELSE g[p]]]
          [] OTHER -> [error |-> IF Min(outside \cup taken) \in outside THEN "bound" ELSE "overlap",
                       grid |-> g]

\* The ships of a map, in their order, up to the first error.
game_draw(g, ships, map) ==
    LET step(r, s) ==
            IF r.error # "0" THEN r
            ELSE IF s > Len(map) \/ map[s] = None THEN [r EXCEPT !.error = "queue"]
            ELSE grid_draw(r.grid, map[s], s, ships[s])
    IN  FoldLeft(step, [error |-> "0", grid |-> g], [s \in DOMAIN ships |-> s])

\* game_set's checks of the rules, those of game_init included.
RulesOk(r) ==
    /\ check_inside_max(r.x, r.y)
    /\ Len(r.ships) \in 1 .. 15 /\ \A s \in DOMAIN r.ships : r.ships[s] > 0
    /\ FoldLeft(LAMBDA a, b : a + b, 0, r.ships) <= r.x * r.y

\* A side of the game: its grid, what is left of its ships and how many ships.
Side(r, grid) == [grid |-> grid, ships |-> r.ships, total |-> Len(r.ships)]

\* An agent has no map of the other side, which then has an empty grid.
game_set(r, playerMap, cpuMap) ==
    LET draw(map) == IF map = None THEN [error |-> "0", grid |-> grid_init(r)]
                     ELSE game_draw(grid_init(r), r.ships, map)
        c == draw(playerMap)
        cc == draw(cpuMap)
    IN  IF ~RulesOk(r) THEN None
        ELSE IF c.error # "0" \/ cc.error # "0" THEN None
        ELSE [player |-> Side(r, c.grid), cpu |-> Side(r, cc.grid)]

\* move_check: a guess <<column, row>> counts from 0 and is written as a letter
\* and one character for the row, which is no digit from the tenth row on.
move_check(m) == m[1] \in 0 .. 25 /\ m[2] \in 0 .. 8

\* Mutant: a hit leaves the ship on the grid.
StruckNot(g, p) == g

Struck(g, p) == grid_set(g, p, Star)

\* Ships above 9 are letters on the grid, and a shot at a letter is a miss
\* that leaves no mark.
game_play_(s, m) ==
    LET p == <<m[1] + 1, m[2] + 1>>
        e == grid_get(s.grid, p)
    IN  CASE ~move_check(m) -> [res |-> ILLEGAL_M, side |-> s]
          [] move_check(m) /\ e = None -> [res |-> BAD, side |-> s]
          [] OTHER ->
               CASE e = Water -> [res |-> MISS, side |-> [s EXCEPT !.grid = grid_set(@, p, Slash)]]
                 [] e \in {Slash, Star} -> [res |-> REPEAT, side |-> s]
                 [] e \in 1 .. 9 ->
                      [res |-> IF s.ships[e] = 1 THEN DOWN ELSE HIT,
                       side |-> [s EXCEPT !.ships[e] = @ - 1, !.grid = Struck(@, p),
                                          !.total = IF s.ships[e] = 1 THEN @ - 1 ELSE @]]
                 [] OTHER -> [res |-> MISS, side |-> s]

game_play_player(g, m) ==
    LET r == game_play_(g.cpu, m) IN [res |-> r.res, game |-> [g EXCEPT !.cpu = r.side]]

game_play_cpu(g, m) ==
    LET r == game_play_(g.player, m) IN [res |-> r.res, game |-> [g EXCEPT !.player = r.side]]

GameOn(g) == g.cpu.total # 0 /\ g.player.total # 0

\* Mutant: the board is chosen by the player alone.
BoardFirst(player, id) == IF player = 2 THEN "player" ELSE "cpu"

Board(player, id) == IF player # id THEN "player" ELSE "cpu"

\* game_play_agent: what agent id notes of the guess of a player.
game_play_agent(g, k, player, m, id) ==
    LET b == Board(player, id)
        marked == [g EXCEPT ![b].grid = grid_set(@, <<m[1] + 1, m[2] + 1>>, IF k = "MISS" THEN Slash ELSE Star)]
    IN  IF k = "SUNK" THEN [marked EXCEPT ![b].total = @ - 1] ELSE marked

ResultOf(k) == CASE k = "MISS" -> MISS [] k = "HIT" -> HIT [] k = "SUNK" -> DOWN
=============================================================================
