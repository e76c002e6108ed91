------------------------------- MODULE Naval --------------------------------
(***************************************************************************)
(* The naval hub (2310hub.c) and its two agents (agent.c, started by       *)
(* 2310A.c or 2310B.c), which talk in lines over pipes, or, in a scenario  *)
(* of its own, the game for one player.                                    *)
(*                                                                         *)
(* A step of a process goes from one fgets to the next.  The hub ends some *)
(* lines with write(fd, "\n", 2): the second byte, a NUL, is the first of  *)
(* the next line, which its reader then takes for an empty string.  The    *)
(* guess in a message still has its newline, so an empty line follows it.  *)
(*                                                                         *)
(* Agent 2 is forked while the hub has both ends of the pipes of agent 1   *)
(* open, and keeps them: nobody sees the end of such a pipe before agent 2 *)
(* is gone.  Lines have at most 49 characters here.                        *)
(***************************************************************************)
EXTENDS NavalSolo

CONSTANT Scenarios  \* [prog, rules, map, moves, kind, kills]: the program and its
                    \* files, 2310A or 2310B for each agent, and the processes
                    \* that may be killed

CONSTANT RowMax     \* bound: a sweep that has passed this row is left alone

VARIABLES
    scn,
    hub,        \* [pc, map, game]
    inbox,      \* inbox[a]: the lines on their way to agent a
    nul,        \* nul[a]: a NUL is on its way to a and no line after it
    reply,      \* reply[a]: the lines on their way from agent a
    agent       \* agent[a]: [pc, game, c1, sweep, fight]

hubVars == <<hub, inbox, nul, reply, agent>>

vars == <<scn, hubVars, solo>>

Agents == {1, 2}

Line(k) == [k |-> k, id |-> 0, m |-> <<0, 0>>, nul |-> FALSE]
Nul(l) == [l EXCEPT !.nul = TRUE]
Blank == Line("")
YT == Line("YT")
OK == Line("OK")
DONE == Line("DONE")
RULES == Line("RULES")

\* The first word of a result as the agents see it.
display_selector(c) == CASE c = MISS -> "MISS" [] c = HIT -> "HIT" [] c = DOWN -> "SHIP"

Message(c, a, m) == [Line(display_selector(c)) EXCEPT !.id = a, !.m = m]

Init ==
    /\ scn \in Scenarios
    /\ solo = IF scn.prog = "naval" THEN SoloStart(scn) ELSE SoloOff
    /\ hub = [pc |-> IF scn.prog = "hub" THEN "start" ELSE "gone", map |-> None, game |-> None]
    /\ inbox = [a \in Agents |-> <<>>] /\ reply = [a \in Agents |-> <<>>]
    /\ nul = [a \in Agents |-> FALSE]
    /\ agent = [a \in Agents |->
                  [pc |-> IF scn.prog = "hub" THEN "rules" ELSE "gone", game |-> None, c1 |-> MISS,
                   sweep |-> [row |-> 0, lo |-> 0, hi |-> 7],
                   fight |-> [mode |-> 0, r |-> 0, c |-> 0, d |-> 0]]]

----------------------------------------------------------------------------
\* Pipes.
HubGone == hub.pc = "gone"
Gone(a) == agent[a].pc = "gone"

\* Nobody can write to agent a or read from it any more.
NoWriter(a) == HubGone /\ (a = 1 => Gone(2))
NoReader(a) == Gone(a) /\ (a = 1 => Gone(2))

\* The lines s as agent a reads them.
Arriving(a, s) == [i \in DOMAIN s |->
    IF (i = 1 /\ nul[a]) \/ (i > 1 /\ s[i - 1].nul) THEN Blank ELSE [s[i] EXCEPT !.nul = FALSE]]

\* The lines s, each with the agent it is for, are written.
Send(s) ==
    LET for(a) == LET mine == SelectSeq(s, LAMBDA w : w.to = a) IN [i \in DOMAIN mine |-> mine[i].line]
    IN  /\ inbox' = [a \in Agents |-> inbox[a] \o Arriving(a, for(a))]
        /\ nul' = [a \in Agents |-> IF for(a) = <<>> THEN nul[a] ELSE Last(for(a)).nul]

HubEnds == hub' = [hub EXCEPT !.pc = "gone"]

\* The hub writes the lines s and goes on with h.  A write that nobody can
\* read ends it, and it may be killed before the last one.
Write(s, h) ==
    LET unread == {i \in DOMAIN s : NoReader(s[i].to)}
    IN  \/ unread = {} /\ Send(s) /\ hub' = h
        \/ unread # {} /\ Send(SubSeq(s, 1, Min(unread) - 1)) /\ hub' = [h EXCEPT !.pc = "gone"]
        \/ /\ unread = {} /\ "hub" \in scn.kills
           /\ \E n \in 0 .. Len(s) - 1 : Send(SubSeq(s, 1, n)) /\ hub' = [h EXCEPT !.pc = "gone"]

To(a, s) == [i \in DOMAIN s |-> [to |-> a, line |-> s[i]]]

----------------------------------------------------------------------------
\* The hub.
Start ==
    /\ hub.pc = "start"
    /\ Write(To(1, <<RULES>>), [hub EXCEPT !.pc = "map1"])
    /\ UNCHANGED <<scn, solo, reply, agent>>

\* Mutant: asks once more.
AskTwice == <<YT, YT>>

Ask == <<YT>>

\* The map of an agent, the empty string at the end of the file.
HasMap(a) == reply[a] # <<>> \/ NoReader(a)
TheMap(a) == IF reply[a] # <<>> THEN Head(reply[a]) ELSE <<>>
Take(a) == reply' = [reply EXCEPT ![a] = IF @ = <<>> THEN <<>> ELSE Tail(@)]

GetMap1 ==
    /\ hub.pc = "map1" /\ HasMap(1)
    /\ Take(1)
    /\ Write(To(2, <<Nul(RULES)>>), [hub EXCEPT !.pc = "map2", !.map = TheMap(1)])
    /\ UNCHANGED <<scn, solo, agent>>

GetMap2 ==
    LET g == game_set(scn.rules, hub.map, TheMap(2))
    IN  /\ hub.pc = "map2" /\ HasMap(2)
        /\ Take(2)
        /\ IF g = None
           THEN HubEnds /\ UNCHANGED <<inbox, nul>>
           ELSE Write(To(1, Ask), [hub EXCEPT !.pc = "guess1", !.game = g])
        /\ UNCHANGED <<scn, solo, agent>>

Pc(a) == IF a = 1 THEN "guess1" ELSE "guess2"

\* The guess of agent a: it is asked again until the guess is accepted, then
\* both hear of it, and either the game is over or the other one is asked.
\* After the end of the file the hub plays the line that is still in its
\* buffer, and whatever comes of it the write that follows ends the hub.
Guess(a) ==
    LET m == Head(reply[a])
        r == IF a = 1 THEN game_play_player(hub.game, m) ELSE game_play_cpu(hub.game, m)
        told == Message(r.res, a, m)
        news == To(a, <<IF a = 1 THEN Nul(OK) ELSE OK, told, Blank>>) \o To(3 - a, <<told, Blank>>)
    IN  /\ hub.pc = Pc(a)
        /\ Take(a)
        /\ \/ reply[a] = <<>> /\ NoReader(a) /\ HubEnds /\ UNCHANGED <<inbox, nul>>
           \/ reply[a] # <<>> /\ r.res < 0 /\ Write(To(a, <<YT>>), hub)
           \/ reply[a] # <<>> /\ r.res >= 0 /\ GameOn(r.game)
              /\ Write(news \o To(3 - a, Ask), [hub EXCEPT !.game = r.game, !.pc = Pc(3 - a)])
           \/ reply[a] # <<>> /\ r.res >= 0 /\ ~GameOn(r.game)
              /\ Write(news \o To(1, <<DONE>>) \o To(2, <<DONE>>), [hub EXCEPT !.game = r.game, !.pc = "gone"])
        /\ UNCHANGED <<scn, solo, agent>>

----------------------------------------------------------------------------
\* The strategies.  Both agents take the first number of the rules for the
\* height and the second for the width; for the grid it is the other way round.
f_height == scn.rules.x
f_width == scn.rules.y

\* 2310A takes the rows one after the other, to and fro.

\* Mutant: the next row starts where this one did.
NextRowNot(s) == [s EXCEPT !.lo = 0, !.hi = f_width - 1]

NextRow(s) == [row |-> s.row + 1, lo |-> 0, hi |-> f_width - 1]

agent_move(s) ==
    LET t == IF s.lo > s.hi THEN NextRow(s) ELSE s
    IN  IF t.row % 2 = 0
        THEN [sweep |-> [t EXCEPT !.lo = @ + 1], m |-> <<t.lo, t.row>>]
        ELSE [sweep |-> [t EXCEPT !.hi = @ - 1], m |-> <<t.hi, t.row>>]

\* 2310B: at random, and around its last such guess after a hit.  result is
\* that of player 1 whichever of the players this is.  f_directions[4] is
\* whatever follows the array.
fighter_guess(f, result) ==
    LET f1 == IF f.d >= 4 THEN [f EXCEPT !.d = 0, !.mode = 0] ELSE f
        mode == CASE result = HIT -> 1 [] result = DOWN -> 0 [] OTHER -> f1.mode
        d == IF result = MISS THEN f1.d + 1 ELSE f1.d
        dirs == IF d = 4 THEN {"N", "E", "S", "W", ""} ELSE {<<"N", "E", "S", "W">>[d + 1]}
        any == (0 .. f_width - 1) \X (0 .. f_height - 1)
        Go(m, n) == {[fight |-> [f1 EXCEPT !.mode = 1, !.d = n], m |-> m]}
        Attack(dir) ==
            CASE dir = "N" -> IF f1.r = 0 THEN Go(<<f1.c + 1, 0>>, d + 1) ELSE Go(<<f1.c, f1.r - 1>>, d)
              [] dir = "E" -> IF f1.c + 1 >= f_width THEN Go(<<f_width - 1, f1.r + 1>>, d + 1)
                              ELSE Go(<<f1.c + 1, f1.r>>, d)
              [] dir = "S" -> IF f1.r + 1 >= f_height THEN Go(<<f1.c - 1, f_height - 1>>, d + 1)
                              ELSE Go(<<f1.c, f1.r + 1>>, d)
              [] dir = "W" -> IF f1.c = 0
                              THEN {[fight |-> [f1 EXCEPT !.mode = 0, !.d = 0], m |-> m] : m \in any}
                              ELSE Go(<<f1.c - 1, f1.r>>, d)
              [] dir = "" -> Go(<<f1.c, f1.r>>, d)
    IN  IF mode = 0
        THEN {[fight |-> [f1 EXCEPT !.mode = 0, !.c = m[1], !.r = m[2]], m |-> m] : m \in any}
        ELSE UNION {Attack(dir) : dir \in dirs}

----------------------------------------------------------------------------
\* The agents.
Results == {"MISS", "SUNK", "HIT"}

Move(a) ==
    IF scn.kind[a] = "A"
    THEN LET s == agent_move(agent[a].sweep)
         IN  {[sweep |-> s.sweep, fight |-> agent[a].fight, m |-> s.m]}
    ELSE {[sweep |-> agent[a].sweep, fight |-> g.fight, m |-> g.m] :
             g \in fighter_guess(agent[a].fight, agent[a].c1)}

Set(a, x) == agent' = [agent EXCEPT ![a] = x]

\* At the top of its loop an agent whose game is over stops.
Top(x) == [x EXCEPT !.pc = IF GameOn(x.game) THEN "top" ELSE "gone"]

\* What YT, OK, EARLY, DONE and anything else lead to.
Dispatch(a, k) ==
    CASE k = "YT" -> \E g \in Move(a) :
           /\ Set(a, [agent[a] EXCEPT !.pc = "turn", !.sweep = g.sweep, !.fight = g.fight])
           /\ reply' = [reply EXCEPT ![a] = Append(@, g.m)]
      [] k = "OK" -> Set(a, [agent[a] EXCEPT !.pc = "ok"]) /\ UNCHANGED reply
      [] k \in {"EARLY", "DONE"} -> Set(a, [agent[a] EXCEPT !.pc = "gone"]) /\ UNCHANGED reply
      [] OTHER -> Set(a, Top(agent[a])) /\ UNCHANGED reply

\* What stands before and after the comma of a result.
agent_id_extract(l) == l.id
agent_move_extract(l) == l.m

\* A result is noted; c1 is the last result of player 1.
Note(a, l) ==
    LET x == agent[a]
        id == agent_id_extract(l)
    IN  [x EXCEPT !.game = game_play_agent(x.game, l.k, id, agent_move_extract(l), a),
                  !.c1 = IF id = 1 THEN ResultOf(l.k) ELSE @]

\* The map of an agent, and its game without the other's map.
OwnMap(a) == simple_read(scn.map[a])
OwnGame(a) == game_set(scn.rules, OwnMap(a), None)

\* 2310A and 2310B up to the call of agent1 or agent2.  A map that does not
\* fit is not sent.
Join(a) ==
    LET g == OwnGame(a)
    IN  /\ agent[a].pc = "rules" /\ inbox[a] # <<>>
        /\ IF g = None
           THEN Set(a, [agent[a] EXCEPT !.pc = "gone"]) /\ UNCHANGED reply
           ELSE /\ Set(a, Top([agent[a] EXCEPT !.game = g]))
                /\ reply' = [reply EXCEPT ![a] = Append(@, OwnMap(a))]
        /\ inbox' = [inbox EXCEPT ![a] = Tail(@)]
        /\ UNCHANGED <<scn, solo, hub, nul>>

agent1(l) ==
    IF agent[1].pc = "ok" /\ l.k \in Results
    THEN /\ Set(1, IF l.id = 1 THEN Note(1, l) ELSE Top(Note(1, l))) /\ UNCHANGED reply
    ELSE Dispatch(1, IF agent[1].pc = "ok" /\ l.k \in {"YT", "OK"} THEN "" ELSE l.k)

agent2(l) ==
    IF agent[2].pc \in {"top", "ok"} /\ l.k \in Results
    THEN /\ CASE agent[2].pc = "ok" -> Set(2, Top([Note(2, l) EXCEPT !.c1 = agent[2].c1]))
              [] agent[2].pc = "top" /\ l.id = 1 -> Set(2, [Note(2, l) EXCEPT !.pc = "turn"])
              [] OTHER -> Set(2, Top(agent[2]))
         /\ UNCHANGED reply
    ELSE Dispatch(2, IF agent[2].pc = "ok" /\ l.k \in {"YT", "OK"} THEN "" ELSE l.k)

Read(a) ==
    /\ agent[a].pc \in {"top", "turn", "ok"} /\ inbox[a] # <<>>
    /\ agent[a].sweep.row <= RowMax
    /\ inbox' = [inbox EXCEPT ![a] = Tail(@)]
    /\ IF a = 1 THEN agent1(Head(inbox[1])) ELSE agent2(Head(inbox[2]))
    /\ UNCHANGED <<scn, solo, hub, nul>>

\* Fgets at the end of the file: a communications error.
Fgets(a) ==
    /\ ~Gone(a) /\ inbox[a] = <<>> /\ NoWriter(a)
    /\ Set(a, [agent[a] EXCEPT !.pc = "gone"])
    /\ UNCHANGED <<scn, solo, hub, inbox, nul, reply>>

\* A process is killed.
Kill ==
    \/ "hub" \in scn.kills /\ ~HubGone /\ HubEnds
       /\ UNCHANGED <<scn, solo, inbox, nul, reply, agent>>
    \/ "agent2" \in scn.kills /\ ~Gone(2) /\ Set(2, [agent[2] EXCEPT !.pc = "gone"])
       /\ UNCHANGED <<scn, solo, hub, inbox, nul, reply>>

HubStep == Start \/ GetMap1 \/ GetMap2 \/ Guess(1) \/ Guess(2)
AgentStep(a) == Join(a) \/ Read(a) \/ Fgets(a)

\* The player types any cell of the grid, one outside it or no cell at all.
Guesses == (0 .. scn.rules.x) \X (0 .. scn.rules.y - 1) \cup {<<26, 0>>}

Solo == SoloStep(Guesses) /\ UNCHANGED <<scn, hubVars>>

Next == HubStep \/ AgentStep(1) \/ AgentStep(2) \/ Kill \/ Solo

\* Agent a draws a cell at random, and one of those it has not guessed yet.
Draws(a) == agent[a].pc # "rules" /\ scn.kind[a] = "B" /\ Len(reply'[a]) > Len(reply[a]) /\ agent'[a].fight.mode = 0

Fresh(a, m) ==
    LET g == IF a = 1 THEN hub.game.cpu.grid ELSE hub.game.player.grid
        p == <<m[1] + 1, m[2] + 1>>
    IN  p \in DOMAIN g /\ g[p] \notin {Slash, Star}

\* When a process can take a step, and when it has taken one.
HubCan ==
    \/ hub.pc = "start"
    \/ \E a \in Agents : hub.pc \in {<<"map1", "map2">>[a], Pc(a)} /\ HasMap(a)
HubMoves == hub' # hub \/ \E a \in Agents : Len(reply'[a]) < Len(reply[a])

AgentCan(a) ==
    ~Gone(a) /\ IF inbox[a] = <<>> THEN NoWriter(a) ELSE agent[a].sweep.row <= RowMax
AgentMoves(a) == agent'[a] # agent[a] \/ Len(inbox'[a]) < Len(inbox[a])

\* Weak fairness of every process, written with the two predicates above, and
\* rand does not avoid the cells that are left for ever.
Spec ==
    /\ Init /\ [][Next]_vars
    /\ ([]<>(solo.pc = "gone")) \/ ([]<><<solo' # solo>>_vars)
    /\ ([]<>~HubCan) \/ ([]<><<HubMoves>>_vars)
    /\ \A a \in Agents : ([]<>~AgentCan(a)) \/ ([]<><<AgentMoves(a)>>_vars)
    /\ \A a \in Agents : ([]<><<Draws(a)>>_vars) =>
                          ([]<><<Draws(a) /\ Fresh(a, Last(reply'[a]))>>_vars)

----------------------------------------------------------------------------
\* The count of what is left of a ship is the number of its cells on the grid
\* that are not struck, and the count of ships is that of those not down: a
\* winner is declared exactly when the last cell is struck (game_play_).
GameExact ==
    \A g \in {hub.game, solo.game} \ {None} :
        \A b \in {"player", "cpu"} :
            LET s == g[b]
            IN  /\ \A e \in DOMAIN s.ships : s.ships[e] = Cardinality({p \in DOMAIN s.grid : s.grid[p] = e})
                /\ s.total = Cardinality({e \in DOMAIN s.ships : s.ships[e] > 0})

Marks(s) == Cardinality({p \in DOMAIN s.grid : s.grid[p] \in {Slash, Star}})

\* The players take turns: when the next guess is asked for, the first player
\* has marked as many cells as the second, or one more if it is the second's
\* turn, however many guesses were refused in between.
Alternates ==
    /\ \A a \in Agents : hub.pc = Pc(a) => Marks(hub.game.cpu) = Marks(hub.game.player) + a - 1
    /\ solo.pc = "player" => Marks(solo.game.cpu) = Marks(solo.game.player)
    /\ solo.pc = "cpu" => Marks(solo.game.cpu) = Marks(solo.game.player) + 1

\* What an agent notes on its boards is what the hub has on its grids: a mark
\* stands where the hub has the same mark, on the board of the same side.
BoardsTrue ==
    hub.game # None =>
        \A a \in Agents, b \in {"player", "cpu"} : agent[a].game # None =>
            LET board == agent[a].game[b].grid
                grid == IF (b = "player") = (a = 1) THEN hub.game.player.grid ELSE hub.game.cpu.grid
            IN  \A p \in DOMAIN board : board[p] \in {Slash, Star} => grid[p] = board[p]

\* One question at a time: while the hub waits for the guess of an agent there
\* is one unread YT or one unread guess of that agent, and nothing of the kind
\* between the hub and the other one.
InStep ==
    hub.pc \in {"guess1", "guess2"} =>
        \A a \in Agents : ~Gone(a) =>
            Len(SelectSeq(inbox[a], LAMBDA l : l.k = "YT")) + Len(reply[a])
                = IF hub.pc = Pc(a) THEN 1 ELSE 0

\* A fighter is stuck: asked again, it makes the same refused guess.  Only the
\* results of player 1 tell it anything, and after a hit it does not turn.
Stuck(a) ==
    /\ hub.pc = Pc(a) /\ scn.kind[a] = "B"
    /\ \A g \in fighter_guess(agent[a].fight, agent[a].c1) :
          g.fight = agent[a].fight /\ ~Fresh(a, g.m)

\* Ships that have digits, grids whose cells the agents reach, and a map of agent 1 that is sent: an
\* agent 1 without one leaves the hub and agent 2 waiting for it.
Sure ==
    /\ Len(scn.rules.ships) <= 9
    /\ scn.rules.y <= 9 /\ scn.rules.x <= scn.rules.y
    /\ \A a \in Agents : scn.kind[a] = "B" => scn.rules.x = scn.rules.y
    /\ OwnGame(1) # None

\* The processes end, the game played out or cut short by a map that
\* does not fit, the end of the hub or the end of agent 2, unless a fighter is
\* stuck; the game for one player ends with its input.
Ends == Sure => <>((HubGone /\ Gone(1) /\ Gone(2) /\ solo.pc = "gone") \/ Stuck(1) \/ Stuck(2))

=============================================================================
