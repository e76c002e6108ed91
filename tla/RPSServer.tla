----------------------------- MODULE RPSServer -----------------------------
(***************************************************************************)
(* The rock-paper-scissors server (rpsserver.c) and the sessions of its    *)
(* clients: one thread per connection, one mutex around the tables of      *)
(* players and matches, and some fields that are read and written without  *)
(* it.  A client (rpsclient.c) asks for a match, plays it with the other   *)
(* client (module RPSGame), reports the result and, 250 ms later, connects *)
(* again with the same name.                                               *)
(***************************************************************************)
EXTENDS Integers, Sequences, FiniteSets, FiniteSetsExt

CONSTANTS
    Clients,
    Names,
    NameOf,         \* NameOf[c]: the name client c plays under
    NumMatches,     \* NumMatches[c]: its second argument
    Threads,        \* identities for handle_connection threads
    None            \* NULL, and match_id -1

ASSUME RPSAssumption ==
    /\ NameOf \in [Clients -> Names]
    /\ NumMatches \in [Clients -> Nat \ {0}]
    /\ None \notin Names /\ None \notin Clients

VARIABLES
    players,    \* playerInformation->players, as names in table order
    active,
    matches,    \* playerInformation->matches, from index 1
    pl,         \* pl[n]: the record of the player
    th,         \* th[t]: a thread, the client it serves and its match
    cl,         \* cl[c]: the client
    sent,       \* sent[c]: what its last RESULT line says, as its thread reads it
    upset       \* a name came back before its last thread had reset the record, or
                \* one scan met two waiting players: the record is no longer one
                \* player's and one match's

svrVars == <<players, active, matches, pl, th, cl, sent, upset>>

\* port is whether the record holds the port, not the empty string.
Player == [status : {"WAITING", "PLAYING", "DEAD"}, enemy : Names \cup {None},
           match_id : Nat \cup {None}, port : BOOLEAN,
           stats : [{"won", "lost", "tie"} -> Nat]]

NoStats == [s \in {"won", "lost", "tie"} |-> 0]

Match == [p1 : Names, p2 : Names, status : {"ACTIVE", "FINISH"}]

IdleThread == [pc |-> "idle", c |-> None, m |-> None]

\* told is the MATCH message: identifier, name and whether there was a port.
Told == [id : Nat, enemy : Names, port : BOOLEAN]

TypeOK ==
    /\ players \in Seq(Names) /\ active \in Int
    /\ matches \in Seq(Match)
    /\ pl \in [Names -> Player \cup {None}]
    /\ th \in [Threads -> [pc : {"idle", "register", "find", "tell", "report", "clean"},
                           c : Clients \cup {None}, m : Nat \cup {None}]]
    /\ cl \in [Clients -> [pc : {"connect", "wait", "play", "result", "exit"},
                           left : Nat, told : Told \cup {None}]]
    /\ sent \in [Clients -> {"won", "lost", "tie"}]
    /\ upset \in BOOLEAN

SvrInit ==
    /\ players = <<>> /\ active = 0 /\ matches = <<>>
    /\ pl = [n \in Names |-> None]
    /\ th = [t \in Threads |-> IdleThread]
    /\ cl = [c \in Clients |-> [pc |-> "connect", left |-> NumMatches[c], told |-> None]]
    /\ sent = [c \in Clients |-> "tie"]
    /\ upset = FALSE

Name(t) == NameOf[th[t].c]

Registered == {players[i] : i \in 1 .. Len(players)}

----------------------------------------------------------------------------
\* The loop condition of the client.
More(c) == cl[c].left > 0

\* accept and pthread_create: the client has connected and sent its MR line.
\* Which idle identity the thread gets makes no difference.
Connect(c) ==
    /\ cl[c].pc = "connect" /\ More(c)
    /\ \E t \in Threads : th[t] = IdleThread
    /\ LET t == CHOOSE x \in Threads : th[x] = IdleThread
       IN  th' = [th EXCEPT ![t] = [pc |-> "register", c |-> c, m |-> None]]
    /\ cl' = [cl EXCEPT ![c].pc = "wait"]
    /\ UNCHANGED <<players, active, matches, pl, sent, upset>>

\* The name is in the table and its player is not DEAD.
BadName(n) == n \in Registered /\ pl[n].status # "DEAD"

\* What a registration adds to active: a player that returns is counted already.
Joins(n) == IF n \in Registered THEN 0 ELSE 1

\* The first critical section.  A client that gets BADNAME exits.
Register(t) ==
    LET n == Name(t)
    IN  /\ th[t].pc = "register"
        /\ IF BadName(n)
           THEN /\ th' = [th EXCEPT ![t] = IdleThread]
                /\ cl' = [cl EXCEPT ![th[t].c].pc = "exit"]
                /\ UNCHANGED <<players, active, pl, upset>>
           ELSE /\ th' = [th EXCEPT ![t].pc = "find"]
                /\ upset' = (upset \/ \E u \in Threads : th[u].pc = "clean" /\ Name(u) = n)
                /\ active' = active + Joins(n)
                /\ UNCHANGED cl
                /\ IF n \in Registered
                   THEN /\ pl' = [pl EXCEPT ![n].status = "WAITING", ![n].port = TRUE]
                        /\ UNCHANGED players
                   ELSE /\ pl' = [pl EXCEPT ![n] = [status |-> "WAITING", enemy |-> None,
                                                    match_id |-> None, port |-> TRUE,
                                                    stats |-> NoStats]]
                        /\ players' = Append(players, n)
        /\ UNCHANGED <<matches, sent>>

\* Where in the table the players are that the scan of n matches with n: all
\* that wait.
Waiting(n) == {i \in 1 .. Len(players) : players[i] # n /\ pl[players[i]].status = "WAITING"}

\* The how-manieth of them i is.
Rank(i, W) == Cardinality({j \in W : j <= i})

\* The matches of a scan that has met the players W, in table order.
NewMatches(n, W) ==
    [k \in 1 .. Cardinality(W) |->
        [p1 |-> n, p2 |-> players[CHOOSE i \in W : Rank(i, W) = k], status |-> "ACTIVE"]]

\* The record p of a player that is matched: its enemy and the match.
Meet(p, enemy, m) == [p EXCEPT !.status = "PLAYING", !.enemy = enemy, !.match_id = m]

\* The second critical section, up to its unlock; the loop goes on when nothing
\* was found.
Matched(t) ==
    LET n == Name(t)
    IN  /\ th[t].pc = "find" /\ pl[n].enemy # None
        /\ th' = [th EXCEPT ![t].pc = "tell", ![t].m = pl[n].match_id]
        /\ UNCHANGED <<players, active, matches, pl, cl, sent, upset>>

FindOpponent(t) ==
    LET n == Name(t)
        W == Waiting(n)
        last == Len(matches) + Cardinality(W)
    IN  /\ th[t].pc = "find" /\ pl[n].enemy = None
        /\ active - 1 > 0 /\ W # {}
        /\ matches' = matches \o NewMatches(n, W)
        /\ active' = active - 2 * Cardinality(W)
        /\ pl' = [x \in Names |->
                    IF x = n THEN Meet(pl[n], players[Max(W)], last)
                    ELSE IF \E i \in W : players[i] = x
                    THEN Meet(pl[x], n, Len(matches) + Rank(CHOOSE i \in W : players[i] = x, W))
                    ELSE pl[x]]
        /\ th' = [th EXCEPT ![t].pc = "tell", ![t].m = last]
        /\ upset' = (upset \/ Cardinality(W) > 1)
        /\ UNCHANGED <<players, cl, sent>>

\* The MATCH line, made from the enemy's record without the mutex.  None for m
\* is matches[-1]; an enemy that is gone by now is a null pointer: the server
\* is not followed further.
Tell(t) ==
    LET n == Name(t)
    IN  /\ th[t].pc = "tell" /\ th[t].m # None /\ pl[n].enemy # None
        /\ cl' = [cl EXCEPT ![th[t].c].pc = "play",
                            ![th[t].c].told = [id |-> th[t].m, enemy |-> pl[n].enemy,
                                               port |-> pl[pl[n].enemy].port]]
        /\ th' = [th EXCEPT ![t].pc = "report"]
        /\ UNCHANGED <<players, active, matches, pl, sent, upset>>

----------------------------------------------------------------------------
\* What the two sides of a game may report.
Outcomes == {<<"won", "lost">>, <<"lost", "won">>, <<"tie", "tie">>}

\* The game of two clients that were told of each other.
Play(c, d) ==
    /\ c # d /\ cl[c].pc = "play" /\ cl[d].pc = "play"
    /\ cl[c].told.enemy = NameOf[d] /\ cl[c].told.port
    /\ cl[d].told.enemy = NameOf[c] /\ cl[d].told.port
    /\ cl' = [cl EXCEPT ![c].pc = "result", ![d].pc = "result"]
    /\ \E o \in Outcomes : sent' = [sent EXCEPT ![c] = o[1], ![d] = o[2]]
    /\ UNCHANGED <<players, active, matches, pl, th, upset>>

\* The RESULT line is sent; after usleep(250000) the client connects again.
Result(c) ==
    /\ cl[c].pc = "result"
    /\ cl' = [cl EXCEPT ![c].pc = "connect", ![c].left = @ - 1, ![c].told = None]
    /\ UNCHANGED <<players, active, matches, pl, th, sent, upset>>

CountsTieAsLoss(s) == IF s = "won" THEN "won" ELSE "lost"

\* The entry of stats that a RESULT line adds to.
Counts(s) == s

FinishNot(m) == matches

FinishMatch(m) == [matches EXCEPT ![m].status = "FINISH"]

BackNot == active

\* A player that is done counts as available again.
Back == active + 1

\* The thread has read the RESULT line; the third critical section.
Report(t) ==
    LET n == Name(t)
    IN  /\ th[t].pc = "report"
        /\ cl[th[t].c].pc # "play" /\ cl[th[t].c].pc # "result"
        /\ matches' = FinishMatch(th[t].m)
        /\ pl' = [pl EXCEPT ![n].status = "DEAD", ![n].stats[Counts(sent[th[t].c])] = @ + 1]
        /\ active' = Back
        /\ th' = [th EXCEPT ![t].pc = "clean"]
        /\ UNCHANGED <<players, cl, sent, upset>>

ResetPortOnly(p) == [p EXCEPT !.port = FALSE]

Reset(p) == [p EXCEPT !.enemy = None, !.match_id = None, !.port = FALSE]

\* After the unlock.
Clean(t) ==
    LET n == Name(t)
    IN  /\ th[t].pc = "clean"
        /\ pl' = [pl EXCEPT ![n] = Reset(@)]
        /\ th' = [th EXCEPT ![t] = IdleThread]
        /\ UNCHANGED <<players, active, matches, cl, sent, upset>>

ThreadStep(t) ==
    \/ Register(t) \/ Matched(t) \/ FindOpponent(t) \/ Tell(t) \/ Report(t) \/ Clean(t)

SvrNext ==
    \/ \E c \in Clients : Connect(c) \/ Result(c)
    \/ \E c, d \in Clients : Play(c, d)
    \/ \E t \in Threads : ThreadStep(t)

----------------------------------------------------------------------------
Owns(t) == th[t].pc \in {"find", "tell", "report"}

\* Between its registration and the DEAD it sets, a record belongs to one thread
\* only; the unlocked reads and the updates of stats rely on it.
OneThread ==
    \A t, u \in Threads : t # u /\ Owns(t) /\ Owns(u) => Name(t) # Name(u)

\* active, which the match loop tests before it scans, is the number of players
\* that are in the table and not PLAYING, over any number of returns.
ActiveCount ==
    active = Cardinality({n \in Registered : pl[n].status # "PLAYING"})

MatchesAgree ==
    \A m \in 1 .. Len(matches) : matches[m].status = "ACTIVE" =>
        LET p == matches[m].p1
            q == matches[m].p2
        IN  /\ p # q
            /\ pl[p].status = "PLAYING" /\ pl[q].status = "PLAYING"
            /\ pl[p].enemy = q /\ pl[q].enemy = p
            /\ pl[p].match_id = m /\ pl[q].match_id = m

\* The match table and the records agree: of an ACTIVE match both players are
\* PLAYING, carry its identifier and have each other as enemy, also while one
\* thread has not yet woken up to it.  A record has one thread and active is
\* exact, however the critical sections of handle_connection interleave.
Paired ==
    /\ TypeOK /\ OneThread
    /\ ~upset => ActiveCount /\ MatchesAgree

\* The MATCH lines, made outside the mutex, of two clients that are in the same
\* match name each other, and each carries a port to connect to.
ToldOfEachOther ==
    ~upset => \A c \in Clients : cl[c].pc = "play" =>
        LET m == matches[cl[c].told.id]
        IN  /\ {m.p1, m.p2} = {NameOf[c], cl[c].told.enemy}
            /\ cl[c].told.port
            /\ \A d \in Clients : cl[d].pc = "play" /\ cl[d].told.id = cl[c].told.id =>
                    d = c \/ NameOf[d] = cl[c].told.enemy

Total(s) == MapThenSumSet(LAMBDA n : pl[n].stats[s], Registered)

\* Every reported match counts once for each side: when no thread is left, what
\* the SIGHUP handler prints has as many wins as losses and an even number of ties.
StatsBalance ==
    ~upset /\ (\A c \in Clients : cl[c].pc \in {"connect", "exit"})
           /\ (\A t \in Threads : th[t] = IdleThread)
        => Total("won") = Total("lost") /\ Total("tie") % 2 = 0

\* The match loop: two players are never both left in it for good.
Meets == []<>(upset \/ Cardinality({t \in Threads : th[t].pc = "find"}) <= 1)

----------------------------------------------------------------------------
\* The invariant that the proofs use.

\* The tables refer to players that exist, also after an upset.
TablesOK ==
    /\ \A n \in Registered : pl[n] \in Player
    /\ \A n \in Registered : pl[n].enemy # None => pl[n].enemy \in Registered
    /\ \A m \in 1 .. Len(matches) : {matches[m].p1, matches[m].p2} \subseteq Registered
    /\ \A t \in Threads : th[t].pc # "idle" => th[t].c \in Clients
    /\ \A t \in Threads : th[t].pc \in {"find", "tell", "report", "clean"} => Name(t) \in Registered

OwnerAlive == \A t \in Threads : Owns(t) => pl[Name(t)].status # "DEAD"

\* A client that waits for its MATCH line does so in one connection only.
Untold(t) == th[t].pc \in {"register", "find", "tell"}

OneWait ==
    \A t \in Threads : Untold(t) =>
        /\ cl[th[t].c].pc = "wait"
        /\ \A u \in Threads : Untold(u) /\ th[u].c = th[t].c => u = t

PlayThread ==
    \A c \in Clients : cl[c].pc = "play" =>
        \E t \in Threads : th[t].c = c /\ th[t].pc = "report" /\ th[t].m = cl[c].told.id

\* A client in a match has one left to play.
LeftOK == \A c \in Clients : cl[c].pc \in {"wait", "play", "result"} => cl[c].left > 0

\* What a record says by its status.
InMatch(n) ==
    LET m == matches[pl[n].match_id]
        e == pl[n].enemy
    IN  /\ e \in Names /\ e # n /\ pl[n].match_id \in 1 .. Len(matches)
        /\ (m.p1 = n /\ m.p2 = e) \/ (m.p1 = e /\ m.p2 = n)

RecordsOK ==
    \A n \in Registered :
        /\ pl[n].status # "DEAD" => pl[n].port
        /\ pl[n].status = "WAITING" => pl[n].enemy = None
        /\ pl[n].status = "PLAYING" => InMatch(n)
        /\ pl[n].status = "DEAD" /\ pl[n].enemy # None =>
               \E u \in Threads : th[u].pc = "clean" /\ Name(u) = n

\* What a thread may rely on about its record.
ThreadsOK ==
    \A t \in Threads :
        /\ th[t].pc = "clean" => pl[Name(t)].status = "DEAD"
        /\ th[t].pc \in {"tell", "report"} =>
               pl[Name(t)].status = "PLAYING" /\ th[t].m = pl[Name(t)].match_id
        /\ th[t].pc \in {"find", "tell"} /\ pl[Name(t)].status = "PLAYING" =>
               matches[pl[Name(t)].match_id].status = "ACTIVE"

\* The client of t has played the match that t waits for the result of.
Played(t) == th[t].pc = "report" /\ cl[th[t].c].pc # "play"

Opponents(t, u) ==
    Owns(t) /\ Owns(u) /\ pl[Name(t)].enemy = Name(u) /\ pl[Name(u)].enemy = Name(t)

PlayedTogether == \A t, u \in Threads : Opponents(t, u) /\ Played(t) => Played(u)

ToldRight ==
    \A c \in Clients : cl[c].pc = "play" =>
        cl[c].told.enemy = pl[NameOf[c]].enemy /\ cl[c].told.port

SvrBase == TypeOK /\ TablesOK /\ OwnerAlive /\ OneThread /\ OneWait /\ PlayThread /\ LeftOK

Calm == ActiveCount /\ MatchesAgree /\ RecordsOK /\ ThreadsOK /\ PlayedTogether /\ ToldRight

SvrInv == SvrBase /\ (~upset => Calm)
=============================================================================
