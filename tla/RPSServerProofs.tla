-------------------------- MODULE RPSServerProofs --------------------------
(***************************************************************************)
(* The steps of the clients and of the threads of handle_connection keep   *)
(* the invariant SvrInv, but for the number of players in active.          *)
(***************************************************************************)
EXTENDS RPSServer, TLAPS

\* A step of the clients alone leaves the server's side of the invariant alone.
LEMMA ClientFrame ==
    ASSUME SvrInv, UNCHANGED <<players, active, matches, pl, th, upset>>
    PROVE  /\ TablesOK' /\ OwnerAlive' /\ OneThread'
           /\ Calm => ActiveCount' /\ MatchesAgree' /\ RecordsOK' /\ ThreadsOK'
           /\ \A t, u \in Threads : Opponents(t, u)' <=> Opponents(t, u)
           /\ (\A c \in Clients : cl[c].pc = "wait" => cl'[c].pc = "wait") => OneWait'
           /\ (\A c \in Clients : cl'[c].pc = "play" => cl'[c] = cl[c]) => PlayThread'
<1>1. /\ players' = players /\ active' = active /\ matches' = matches
      /\ pl' = pl /\ th' = th
  BY Zenon
<1>2. Registered' = Registered BY <1>1, Zenon DEF Registered
<1>3. \A t \in Threads : Name(t)' = Name(t) /\ (Owns(t)' <=> Owns(t))
  BY <1>1, Zenon DEF Name, Owns
<1>4. TablesOK' BY <1>1, <1>2, <1>3, Zenon DEF SvrInv, SvrBase, TablesOK
<1>5. OwnerAlive' BY <1>1, <1>3, Zenon DEF SvrInv, SvrBase, OwnerAlive
<1>6. OneThread' BY <1>3, Zenon DEF SvrInv, SvrBase, OneThread
<1>7. Calm => ActiveCount' BY <1>1, <1>2, Zenon DEF Calm, ActiveCount
<1>8. Calm => MatchesAgree' BY <1>1 DEF Calm, MatchesAgree
<1>9. \A n \in Registered : InMatch(n)' <=> InMatch(n) BY <1>1, Zenon DEF InMatch
<1>10. Calm => RecordsOK' BY <1>1, <1>2, <1>3, <1>9, Zenon DEF Calm, RecordsOK
<1>11. Calm => ThreadsOK' BY <1>1, <1>3, Zenon DEF Calm, ThreadsOK
<1>12. \A t, u \in Threads : Opponents(t, u)' <=> Opponents(t, u)
  BY <1>1, <1>3, Zenon DEF Opponents
<1>13. (\A c \in Clients : cl[c].pc = "wait" => cl'[c].pc = "wait") => OneWait'
  <2>1. \A t \in Threads : Untold(t)' <=> Untold(t) BY <1>1, Zenon DEF Untold
  <2>2. \A t \in Threads : Untold(t) => th[t].c \in Clients
    BY Zenon DEF Untold, SvrInv, SvrBase, TablesOK
  <2>. QED BY <1>1, <2>1, <2>2, Zenon DEF SvrInv, SvrBase, OneWait
<1>14. (\A c \in Clients : cl'[c].pc = "play" => cl'[c] = cl[c]) => PlayThread'
  <2>1. SUFFICES ASSUME NEW c \in Clients, cl'[c].pc = "play", cl'[c] = cl[c]
                 PROVE  \E t \in Threads : th'[t].c = c /\ th'[t].pc = "report"
                                          /\ th'[t].m = cl'[c].told.id
    BY Zenon DEF PlayThread
  <2>. QED BY <1>1, <2>1 DEF SvrInv, SvrBase, PlayThread
<1>. QED BY <1>4, <1>5, <1>6, <1>7, <1>8, <1>10, <1>11, <1>12, <1>13, <1>14, Zenon

\* accept: a new thread for a client that has none before its MATCH line.
LEMMA ConnectInv ==
    ASSUME SvrInv, NEW c \in Clients, Connect(c)
    PROVE  SvrInv'
<1>1. PICK t \in Threads :
        /\ th[t] = IdleThread
        /\ th' = [th EXCEPT ![t] = [pc |-> "register", c |-> c, m |-> None]]
  BY Zenon DEF Connect
<1>2. /\ cl[c].pc = "connect"
      /\ cl' = [cl EXCEPT ![c].pc = "wait"]
      /\ UNCHANGED <<players, active, matches, pl, sent, upset>>
  BY Zenon DEF Connect
<1>3. TypeOK BY Zenon DEF SvrInv, SvrBase
<1>4. /\ th'[t].pc = "register" /\ th'[t].c = c
      /\ \A u \in Threads : u # t => th'[u] = th[u]
      /\ cl'[c].pc = "wait"
      /\ \A d \in Clients : d # c => cl'[d] = cl[d]
      /\ th[t].pc = "idle"
  BY <1>1, <1>2, <1>3 DEF TypeOK, IdleThread
<1>5. TypeOK'
  BY <1>1, <1>2, <1>3, ZenonT(40) DEF TypeOK
<1>6. TablesOK'
  BY <1>2, <1>4 DEF SvrInv, SvrBase, TablesOK, Registered, Name
<1>7. \A u \in Threads : u # t => (Owns(u)' <=> Owns(u)) /\ Name(u)' = Name(u)
  BY <1>4, Zenon DEF Owns, Name
<1>8. ~Owns(t)' /\ ~Owns(t)
  BY <1>4, Zenon DEF Owns
<1>9. OwnerAlive' /\ OneThread'
  BY <1>2, <1>7, <1>8, Zenon DEF SvrInv, SvrBase, OwnerAlive, OneThread
<1>10. \A u \in Threads : Untold(u) => th[u].c # c
  BY <1>2, Zenon DEF SvrInv, SvrBase, OneWait
<1>11. OneWait'
  BY <1>1, <1>2, <1>4, <1>10 DEF SvrInv, SvrBase, OneWait, Untold, TablesOK
<1>12. PlayThread'
  BY <1>1, <1>2, <1>4 DEF SvrInv, SvrBase, PlayThread
<1>13. ASSUME ~upset' PROVE Calm'
  <2>1. Calm BY <1>2, <1>13, Zenon DEF SvrInv
  <2>2. ActiveCount' /\ MatchesAgree'
    BY <1>2, <2>1 DEF Calm, ActiveCount, MatchesAgree, Registered
  <2>3. RecordsOK'
    BY <1>1, <1>2, <1>4, <1>7, <2>1 DEF Calm, RecordsOK, Registered, InMatch
  <2>4. ThreadsOK'
    BY <1>1, <1>2, <1>4, <1>7, <2>1 DEF Calm, ThreadsOK
  <2>5. PlayedTogether'
    BY <1>1, <1>2, <1>4, <1>7, <1>8, <2>1 DEF Calm, PlayedTogether, Opponents, Played, Owns, SvrInv, SvrBase, TablesOK
  <2>6. ToldRight'
    BY <1>2, <1>4, <2>1 DEF Calm, ToldRight
  <2>. QED BY <2>2, <2>3, <2>4, <2>5, <2>6, Zenon DEF Calm
<1>14. LeftOK'
  BY <1>2, <1>4 DEF SvrInv, SvrBase, LeftOK, More, Connect, TypeOK
<1>. QED BY <1>5, <1>6, <1>9, <1>11, <1>12, <1>13, <1>14, Zenon DEF SvrInv, SvrBase

\* A client sends its RESULT line.
LEMMA ResultInv ==
    ASSUME SvrInv, NEW c \in Clients, Result(c)
    PROVE  SvrInv'
<1>1. /\ cl[c].pc = "result"
      /\ cl' = [cl EXCEPT ![c].pc = "connect", ![c].left = @ - 1, ![c].told = None]
      /\ UNCHANGED <<players, active, matches, pl, th, sent, upset>>
  BY Zenon DEF Result
<1>2. TypeOK BY Zenon DEF SvrInv, SvrBase
<1>3. cl'[c].pc = "connect" /\ \A d \in Clients : d # c => cl'[d] = cl[d]
  BY <1>1, <1>2, Zenon DEF TypeOK
<1>4. TypeOK'
  <2>1. cl[c].left \in Nat /\ cl[c].left > 0 BY <1>1, <1>2, Zenon DEF TypeOK, SvrInv, SvrBase, LeftOK
  <2>. QED BY <1>1, <1>2, <2>1, SMTT(40) DEF TypeOK
<1>5. TablesOK' /\ OwnerAlive' /\ OneThread'
  BY <1>1, ClientFrame, Zenon
<1>6. OneWait'
  BY <1>1, <1>3, ClientFrame, Zenon
<1>7. PlayThread'
  BY <1>1, <1>3, ClientFrame, Zenon
<1>8. ASSUME ~upset' PROVE Calm'
  <2>1. Calm BY <1>1, <1>8, Zenon DEF SvrInv
  <2>2. ActiveCount' /\ MatchesAgree' /\ RecordsOK' /\ ThreadsOK'
    BY <1>1, <2>1, ClientFrame, Zenon
  <2>3. \A t \in Threads : Owns(t) => (Played(t)' <=> Played(t))
    BY <1>1, <1>3, Zenon DEF Played, Owns, SvrInv, SvrBase, TablesOK
  <2>4. PlayedTogether'
    BY <1>1, <2>1, <2>3, ClientFrame, Zenon DEF Calm, PlayedTogether, Opponents
  <2>5. ToldRight'
    BY <1>1, <1>3, <2>1, Zenon DEF Calm, ToldRight
  <2>. QED BY <2>2, <2>4, <2>5, Zenon DEF Calm
<1>9. LeftOK'
  BY <1>1, <1>3, Zenon DEF SvrInv, SvrBase, LeftOK
<1>. QED BY <1>4, <1>5, <1>6, <1>7, <1>8, <1>9, Zenon DEF SvrInv, SvrBase

\* Two clients play: both of their threads then wait for a result.
LEMMA PlayInv ==
    ASSUME SvrInv, NEW c \in Clients, NEW d \in Clients, Play(c, d)
    PROVE  SvrInv'
<1>1. /\ c # d /\ cl[c].pc = "play" /\ cl[d].pc = "play"
      /\ cl[c].told.enemy = NameOf[d] /\ cl[d].told.enemy = NameOf[c]
      /\ cl' = [cl EXCEPT ![c].pc = "result", ![d].pc = "result"]
      /\ UNCHANGED <<players, active, matches, pl, th, upset>>
  BY Zenon DEF Play
<1>2. PICK o \in Outcomes : sent' = [sent EXCEPT ![c] = o[1], ![d] = o[2]]
  BY Zenon DEF Play
<1>3. TypeOK BY Zenon DEF SvrInv, SvrBase
<1>4. /\ cl'[c].pc = "result" /\ cl'[d].pc = "result"
      /\ \A e \in Clients : e # c /\ e # d => cl'[e] = cl[e]
  BY <1>1, <1>3, Zenon DEF TypeOK
<1>5. TypeOK'
  <2>1. sent' \in [Clients -> {"won", "lost", "tie"}]
    <3>1. o[1] \in {"won", "lost", "tie"} /\ o[2] \in {"won", "lost", "tie"}
      BY DEF Outcomes
    <3>. QED BY <1>2, <1>3, <3>1, Zenon DEF TypeOK
  <2>2. cl' \in [Clients -> [pc : {"connect", "wait", "play", "result", "exit"},
                             left : Nat, told : Told \cup {None}]]
    <3>. DEFINE R == [pc : {"connect", "wait", "play", "result", "exit"},
                      left : Nat, told : Told \cup {None}]
    <3>1. cl \in [Clients -> R] BY <1>3, Zenon DEF TypeOK
    <3>2. \A r \in R : [r EXCEPT !.pc = "result"] \in R BY Zenon
    <3>3. cl' = [[cl EXCEPT ![c] = [cl[c] EXCEPT !.pc = "result"]]
                     EXCEPT ![d] = [cl[d] EXCEPT !.pc = "result"]]
      BY <1>1, <3>1, Zenon
    <3>. HIDE DEF R
    <3>4. cl' \in [Clients -> R] BY <3>1, <3>2, <3>3, Zenon
    <3>. QED BY <3>4, Zenon DEF R
  <2>. QED BY <1>1, <1>3, <2>1, <2>2, Zenon DEF TypeOK
<1>6. TablesOK' /\ OwnerAlive' /\ OneThread'
  BY <1>1, ClientFrame, Zenon
<1>7. OneWait'
  BY <1>1, <1>4, ClientFrame, Zenon
<1>8. PlayThread'
  BY <1>1, <1>4, ClientFrame, Zenon
<1>9. ASSUME ~upset' PROVE Calm'
  <2>1. Calm BY <1>1, <1>9, Zenon DEF SvrInv
  <2>2. ActiveCount' /\ MatchesAgree' /\ RecordsOK' /\ ThreadsOK'
    BY <1>1, <2>1, ClientFrame, Zenon
  <2>3. PICK t \in Threads : th[t].c = c /\ th[t].pc = "report"
    BY <1>1, Zenon DEF SvrInv, SvrBase, PlayThread
  <2>4. PICK u \in Threads : th[u].c = d /\ th[u].pc = "report"
    BY <1>1, Zenon DEF SvrInv, SvrBase, PlayThread
  <2>5. /\ Name(t) = NameOf[c] /\ Name(u) = NameOf[d] /\ Owns(t) /\ Owns(u)
        /\ pl[Name(t)].enemy = Name(u) /\ pl[Name(u)].enemy = Name(t)
    BY <1>1, <2>1, <2>3, <2>4, Zenon DEF Calm, ToldRight, Owns, Name
  <2>6. Played(t)' /\ Played(u)'
    BY <1>1, <1>4, <2>3, <2>4, Zenon DEF Played
  <2>7. \A v \in Threads : Owns(v) /\ v # t /\ v # u => (Played(v)' <=> Played(v))
    <3>1. ASSUME NEW v \in Threads, Owns(v), v # t, v # u PROVE th[v].c # c /\ th[v].c # d
      BY <2>3, <2>4, <2>5, <3>1, Zenon DEF SvrInv, SvrBase, OneThread, Name
    <3>2. \A v \in Threads : Owns(v) => th[v].c \in Clients
      BY Zenon DEF SvrInv, SvrBase, TablesOK, Owns
    <3>. QED BY <1>1, <1>4, <3>1, <3>2, ZenonT(40) DEF Played
  <2>8. ASSUME NEW v \in Threads, NEW w \in Threads, Opponents(v, w)
        PROVE  (v = t => w = u) /\ (v = u => w = t) /\ (w = t => v = u) /\ (w = u => v = t)
    BY <2>5, <2>8, Zenon DEF Opponents, SvrInv, SvrBase, OneThread
  <2>9. PlayedTogether'
    <3>1. \A v, w \in Threads : Opponents(v, w)' <=> Opponents(v, w)
      BY <1>1, ClientFrame, Zenon
    <3>2. ASSUME NEW v \in Threads, NEW w \in Threads, Opponents(v, w), Played(v)'
          PROVE  Played(w)'
      <4>1. Owns(v) /\ Owns(w) BY <3>2, Zenon DEF Opponents
      <4>2. CASE v \in {t, u} \/ w \in {t, u} BY <4>2, <2>6, <2>8, <3>2, Zenon
      <4>3. CASE v \notin {t, u} /\ w \notin {t, u}
        BY <4>1, <4>3, <2>1, <2>7, <3>2, Zenon DEF Calm, PlayedTogether
      <4>. QED BY <4>2, <4>3, Zenon
    <3>. QED BY <3>1, <3>2, Zenon DEF PlayedTogether
  <2>10. ToldRight'
    BY <1>1, <1>4, <2>1, ZenonT(40) DEF Calm, ToldRight
  <2>. QED BY <2>2, <2>9, <2>10, Zenon DEF Calm
<1>10. LeftOK'
  <2>1. cl'[c].left = cl[c].left /\ cl'[d].left = cl[d].left
    BY <1>1, <1>3, Zenon DEF TypeOK
  <2>. QED BY <1>1, <1>4, <2>1, Zenon DEF SvrInv, SvrBase, LeftOK
<1>. QED BY <1>5, <1>6, <1>7, <1>8, <1>9, <1>10, Zenon DEF SvrInv, SvrBase

\* A thread that has registered serves a client whose record is in the table.
LEMMA NameFacts ==
    ASSUME SvrInv, NEW t \in Threads, th[t].pc \in {"find", "tell", "report", "clean"}
    PROVE  /\ th[t].c \in Clients /\ Name(t) \in Registered /\ Name(t) \in Names
           /\ pl[Name(t)] \in Player
<1>1. th[t].c \in Clients BY Zenon DEF SvrInv, SvrBase, TablesOK
<1>2. Name(t) \in Registered BY Zenon DEF SvrInv, SvrBase, TablesOK
<1>3. Name(t) \in Names BY <1>1, RPSAssumption, Zenon DEF Name
<1>. QED BY <1>1, <1>2, <1>3, Zenon DEF SvrInv, SvrBase, TablesOK

\* The first critical section refuses a name that is in use.
LEMMA RefusedInv ==
    ASSUME SvrInv, NEW t \in Threads, Register(t), BadName(Name(t))
    PROVE  SvrInv'
<1>. DEFINE c == th[t].c
<1>1. /\ th[t].pc = "register"
      /\ th' = [th EXCEPT ![t] = IdleThread]
      /\ cl' = [cl EXCEPT ![c].pc = "exit"]
  BY Zenon DEF Register
<1>2. /\ players' = players /\ active' = active /\ matches' = matches
      /\ pl' = pl /\ sent' = sent /\ upset' = upset
  BY Zenon DEF Register
<1>3. TypeOK BY Zenon DEF SvrInv, SvrBase
<1>4. c \in Clients /\ cl[c].pc = "wait"
  BY <1>1, Zenon DEF SvrInv, SvrBase, TablesOK, OneWait, Untold
<1>5. cl'[c].pc = "exit" /\ \A d \in Clients : d # c => cl'[d] = cl[d]
  BY <1>1, <1>3, <1>4, Zenon DEF TypeOK
<1>6. th'[t] = IdleThread /\ \A u \in Threads : u # t => th'[u] = th[u]
  BY <1>1, <1>3, Zenon DEF TypeOK
<1>7. TypeOK'
  <2>1. th' \in [Threads -> [pc : {"idle", "register", "find", "tell", "report", "clean"},
                             c : Clients \cup {None}, m : Nat \cup {None}]]
    BY <1>1, <1>3, Zenon DEF TypeOK, IdleThread
  <2>2. cl' \in [Clients -> [pc : {"connect", "wait", "play", "result", "exit"},
                             left : Nat, told : Told \cup {None}]]
    BY <1>1, <1>3, ZenonT(40) DEF TypeOK
  <2>. QED BY <1>2, <1>3, <2>1, <2>2, Zenon DEF TypeOK
<1>8. Registered' = Registered BY <1>2, Zenon DEF Registered
<1>9. \A u \in Threads : /\ u # t => Name(u)' = Name(u)
                         /\ Owns(u)' <=> Owns(u)
                         /\ Owns(u) => u # t
                         /\ Untold(u)' <=> Untold(u) /\ u # t
  BY <1>1, <1>6 DEF Name, Owns, Untold, IdleThread
<1>10. TablesOK'
  <2>1. \A u \in Threads : th'[u].pc # "idle" => u # t BY <1>6 DEF IdleThread
  <2>2. \A u \in Threads : th'[u].pc \in {"find", "tell", "report", "clean"} => Name(u)' \in Registered
    BY <1>6, <1>9, <2>1, Zenon DEF SvrInv, SvrBase, TablesOK
  <2>3. \A u \in Threads : th'[u].pc # "idle" => th'[u].c \in Clients
    BY <1>6, <2>1, Zenon DEF SvrInv, SvrBase, TablesOK
  <2>. QED BY <1>2, <1>8, <2>2, <2>3, Zenon DEF SvrInv, SvrBase, TablesOK
<1>11. OwnerAlive' /\ OneThread'
  BY <1>2, <1>9, Zenon DEF SvrInv, SvrBase, OwnerAlive, OneThread
<1>12. OneWait'
  <2>1. SUFFICES ASSUME NEW u \in Threads, Untold(u)'
                 PROVE  /\ cl'[th'[u].c].pc = "wait"
                        /\ \A v \in Threads : Untold(v)' /\ th'[v].c = th'[u].c => v = u
    BY Zenon DEF OneWait
  <2>2. u # t /\ Untold(u) /\ th'[u] = th[u] BY <1>6, <1>9, <2>1, Zenon
  <2>3. Untold(t) BY <1>1, Zenon DEF Untold
  <2>4. th[u].c # c BY <2>2, <2>3, Zenon DEF SvrInv, SvrBase, OneWait
  <2>5. th[u].c \in Clients /\ cl[th[u].c].pc = "wait"
    BY <2>2, Zenon DEF SvrInv, SvrBase, OneWait, TablesOK, Untold
  <2>6. \A v \in Threads : Untold(v)' /\ th'[v].c = th[u].c => v = u
    BY <1>6, <1>9, <2>2, Zenon DEF SvrInv, SvrBase, OneWait
  <2>. QED BY <1>5, <2>2, <2>4, <2>5, <2>6, Zenon
<1>13. PlayThread'
  <2>1. \A u \in Threads : th[u].pc = "report" => th'[u] = th[u] BY <1>1, <1>6, Zenon
  <2>2. PlayThread BY Zenon DEF SvrInv, SvrBase
  <2>3. \A d \in Clients : cl'[d].pc = "play" => cl'[d] = cl[d] BY <1>5, Zenon
  <2>. QED BY <2>1, <2>2, <2>3 DEF PlayThread
<1>14. LeftOK' BY <1>5, Zenon DEF SvrInv, SvrBase, LeftOK
<1>15. ASSUME ~upset' PROVE Calm'
  <2>1. Calm BY <1>2, <1>15, Zenon DEF SvrInv
  <2>2. ActiveCount' /\ MatchesAgree'
    BY <1>2, <1>8, <2>1, Zenon DEF Calm, ActiveCount, MatchesAgree
  <2>3. RecordsOK'
    <3>1. \A n \in Registered : InMatch(n)' <=> InMatch(n) BY <1>2, Zenon DEF InMatch
    <3>2. \A u \in Threads : th[u].pc = "clean" => th'[u].pc = "clean" /\ Name(u)' = Name(u)
      BY <1>1, <1>6, <1>9, Zenon
    <3>. QED BY <1>2, <1>8, <2>1, <3>1, <3>2, Zenon DEF Calm, RecordsOK
  <2>4. ThreadsOK'
    <3>1. \A u \in Threads : th'[u].pc # "idle" => th'[u] = th[u] /\ Name(u)' = Name(u)
      BY <1>6, <1>9 DEF IdleThread
    <3>. QED BY <1>2, <2>1, <3>1 DEF Calm, ThreadsOK
  <2>5. PlayedTogether'
    <3>1. \A u, v \in Threads : Opponents(u, v)' => Opponents(u, v) BY <1>2, <1>9, Zenon DEF Opponents
    <3>2. ASSUME NEW u \in Threads, u # t, Owns(u) PROVE Played(u)' <=> Played(u)
      <4>1. th[u].c \in Clients BY <3>2, Zenon DEF SvrInv, SvrBase, TablesOK, Owns
      <4>2. cl'[th[u].c].pc = "play" <=> cl[th[u].c].pc = "play" BY <1>4, <1>5, <4>1, Zenon
      <4>. QED BY <1>6, <3>2, <4>2, Zenon DEF Played
    <3>3. \A u, v \in Threads : Opponents(u, v) => Owns(u) /\ Owns(v) /\ u # t /\ v # t
      BY <1>9, Zenon DEF Opponents
    <3>. QED BY <2>1, <3>1, <3>2, <3>3, Zenon DEF Calm, PlayedTogether
  <2>6. ToldRight' BY <1>2, <1>5, <2>1, Zenon DEF Calm, ToldRight
  <2>. QED BY <2>2, <2>3, <2>4, <2>5, <2>6, Zenon DEF Calm
<1>. QED BY <1>7, <1>10, <1>11, <1>12, <1>13, <1>14, <1>15, Zenon DEF SvrInv, SvrBase

\* The scan of the match loop has found an opponent already: pl is unchanged.
LEMMA MatchedInv ==
    ASSUME SvrInv, NEW t \in Threads, Matched(t)
    PROVE  SvrInv'
<1>1. /\ th[t].pc = "find" /\ pl[Name(t)].enemy # None
      /\ th' = [th EXCEPT ![t].pc = "tell", ![t].m = pl[Name(t)].match_id]
      /\ players' = players /\ active' = active /\ matches' = matches
      /\ pl' = pl /\ cl' = cl /\ sent' = sent /\ upset' = upset
  BY Zenon DEF Matched
<1>2. TypeOK BY DEF SvrInv, SvrBase
<1>3. /\ Name(t) \in Registered /\ Name(t) \in Names /\ th[t].c \in Clients
      /\ pl[Name(t)] \in Player
  <2>1. th[t].c \in Clients BY <1>1, Zenon DEF SvrInv, SvrBase, TablesOK
  <2>2. Name(t) \in Registered BY <1>1, Zenon DEF SvrInv, SvrBase, TablesOK
  <2>3. Name(t) \in Names BY <2>1, RPSAssumption, Zenon DEF Name
  <2>. QED BY <1>2, <2>1, <2>2, <2>3, Zenon DEF TypeOK, SvrInv, SvrBase, TablesOK
<1>4. /\ th'[t].pc = "tell" /\ th'[t].c = th[t].c /\ th'[t].m = pl[Name(t)].match_id
      /\ \A u \in Threads : u # t => th'[u] = th[u]
  BY <1>1, <1>2 DEF TypeOK
<1>5. TypeOK'
  <2>1. pl[Name(t)].match_id \in Nat \cup {None} BY <1>3, Zenon DEF Player
  <2>2. th' \in [Threads -> [pc : {"idle", "register", "find", "tell", "report", "clean"},
                             c : Clients \cup {None}, m : Nat \cup {None}]]
    <3>. DEFINE R == [pc : {"idle", "register", "find", "tell", "report", "clean"},
                      c : Clients \cup {None}, m : Nat \cup {None}]
    <3>1. th \in [Threads -> R] BY <1>2, Zenon DEF TypeOK
    <3>2. \A r \in R : [r EXCEPT !.pc = "tell", !.m = pl[Name(t)].match_id] \in R BY <2>1, Zenon
    <3>3. th' = [th EXCEPT ![t] = [th[t] EXCEPT !.pc = "tell", !.m = pl[Name(t)].match_id]]
      BY <1>1, <3>1, Zenon
    <3>. HIDE DEF R
    <3>4. th' \in [Threads -> R] BY <3>1, <3>2, <3>3, Zenon
    <3>. QED BY <3>4, Zenon DEF R
  <2>. QED BY <1>1, <1>2, <2>2, Zenon DEF TypeOK
<1>6. Registered' = Registered BY <1>1, Zenon DEF Registered
<1>7. \A u \in Threads : Name(u)' = Name(u) /\ (Owns(u)' <=> Owns(u)) /\ (Untold(u)' <=> Untold(u))
  BY <1>1, <1>4, Zenon DEF Name, Owns, Untold
<1>8. \A u \in Threads : (th'[u].pc = "idle" <=> th[u].pc = "idle") /\ th'[u].c = th[u].c
  BY <1>1, <1>4, Zenon
<1>9. TablesOK'
  <2>1. \A u \in Threads : th'[u].pc \in {"find", "tell", "report", "clean"} => Name(u)' \in Registered
    BY <1>1, <1>4, <1>7, Zenon DEF SvrInv, SvrBase, TablesOK
  <2>. QED BY <1>1, <1>6, <1>8, <2>1, Zenon DEF SvrInv, SvrBase, TablesOK
<1>10. OwnerAlive' /\ OneThread'
  BY <1>1, <1>7, Zenon DEF SvrInv, SvrBase, OwnerAlive, OneThread
<1>11. OneWait'
  <2>1. OneWait BY Zenon DEF SvrInv, SvrBase
  <2>2. cl' = cl BY <1>1, Zenon
  <2>. QED BY <1>7, <1>8, <2>1, <2>2 DEF OneWait
<1>12. PlayThread'
  <2>1. \A u \in Threads : th[u].pc = "report" => th'[u] = th[u] BY <1>1, <1>4, Zenon
  <2>2. PlayThread BY Zenon DEF SvrInv, SvrBase
  <2>3. cl' = cl BY <1>1
  <2>4. ASSUME NEW c \in Clients, cl'[c].pc = "play"
        PROVE  \E u \in Threads : th'[u].c = c /\ th'[u].pc = "report" /\ th'[u].m = cl'[c].told.id
    <3>1. PICK u \in Threads : th[u].c = c /\ th[u].pc = "report" /\ th[u].m = cl[c].told.id
      BY <2>2, <2>3, <2>4, Zenon DEF PlayThread
    <3>. QED BY <2>1, <2>3, <3>1, Zenon
  <2>. QED BY <2>4, Zenon DEF PlayThread
<1>13. LeftOK' BY <1>1, Zenon DEF SvrInv, SvrBase, LeftOK
<1>14. ASSUME ~upset' PROVE Calm'
  <2>1. Calm BY <1>1, <1>14, Zenon DEF SvrInv
  <2>2. ActiveCount' /\ MatchesAgree'
    BY <1>1, <1>6, <2>1, Zenon DEF Calm, ActiveCount, MatchesAgree
  <2>3. RecordsOK'
    <3>1. \A n \in Registered : InMatch(n)' <=> InMatch(n) BY <1>1, Zenon DEF InMatch
    <3>2. \A u \in Threads : th[u].pc = "clean" => th'[u].pc = "clean" BY <1>1, <1>4, Zenon
    <3>. QED BY <1>1, <1>6, <1>7, <2>1, <3>1, <3>2, ZenonT(40) DEF Calm, RecordsOK
  <2>4. pl[Name(t)].status = "PLAYING"
    <3>1. pl[Name(t)].status # "DEAD" BY <1>1, Zenon DEF SvrInv, SvrBase, OwnerAlive, Owns
    <3>2. pl[Name(t)].status # "WAITING" BY <1>1, <1>3, <2>1, Zenon DEF Calm, RecordsOK
    <3>. QED BY <1>3, <3>1, <3>2, Zenon DEF Player
  <2>5. ThreadsOK'
    <3>1. ThreadsOK BY <2>1, Zenon DEF Calm
    <3>2. matches[pl[Name(t)].match_id].status = "ACTIVE" BY <1>1, <2>4, <3>1, Zenon DEF ThreadsOK
    <3>3. ASSUME NEW u \in Threads
          PROVE  /\ th'[u].pc = "clean" => pl'[Name(u)'].status = "DEAD"
                 /\ th'[u].pc \in {"tell", "report"} =>
                        pl'[Name(u)'].status = "PLAYING" /\ th'[u].m = pl'[Name(u)'].match_id
                 /\ th'[u].pc \in {"find", "tell"} /\ pl'[Name(u)'].status = "PLAYING" =>
                        matches'[pl'[Name(u)'].match_id].status = "ACTIVE"
      <4>1. CASE u = t BY <1>1, <1>4, <1>7, <2>4, <3>2, <4>1, Zenon
      <4>2. CASE u # t BY <1>1, <1>4, <1>7, <3>1, <4>2, ZenonT(40) DEF ThreadsOK
      <4>. QED BY <4>1, <4>2, Zenon
    <3>. QED BY <3>3, Zenon DEF ThreadsOK
  <2>6. PlayedTogether'
    <3>1. \A u, v \in Threads : Opponents(u, v)' <=> Opponents(u, v) BY <1>1, <1>7, Zenon DEF Opponents
    <3>2. \A u \in Threads : Played(u)' <=> Played(u) BY <1>1, <1>4, Zenon DEF Played
    <3>. QED BY <2>1, <3>1, <3>2, Zenon DEF Calm, PlayedTogether
  <2>7. ToldRight' BY <1>1, <2>1, Zenon DEF Calm, ToldRight
  <2>. QED BY <2>2, <2>3, <2>5, <2>6, <2>7, Zenon DEF Calm
<1>. QED BY <1>5, <1>9, <1>10, <1>11, <1>12, <1>13, <1>14, Zenon DEF SvrInv, SvrBase

\* The MATCH line: the client learns of its enemy and starts to play.
LEMMA TellInv ==
    ASSUME SvrInv, NEW t \in Threads, Tell(t)
    PROVE  SvrInv'
<1>. DEFINE c == th[t].c
            told == [id |-> th[t].m, enemy |-> pl[Name(t)].enemy, port |-> pl[pl[Name(t)].enemy].port]
<1>1. /\ th[t].pc = "tell" /\ th[t].m # None /\ pl[Name(t)].enemy # None
      /\ cl' = [cl EXCEPT ![c].pc = "play", ![c].told = told]
      /\ th' = [th EXCEPT ![t].pc = "report"]
      /\ players' = players /\ active' = active /\ matches' = matches
      /\ pl' = pl /\ sent' = sent /\ upset' = upset
  BY Zenon DEF Tell
<1>2. TypeOK BY DEF SvrInv, SvrBase
<1>3. /\ Name(t) \in Registered /\ Name(t) \in Names /\ th[t].c \in Clients
      /\ pl[Name(t)] \in Player
  <2>1. th[t].c \in Clients BY <1>1, Zenon DEF SvrInv, SvrBase, TablesOK
  <2>2. Name(t) \in Registered BY <1>1, Zenon DEF SvrInv, SvrBase, TablesOK
  <2>3. Name(t) \in Names BY <2>1, RPSAssumption DEF Name
  <2>. QED BY <1>2, <2>1, <2>2, <2>3 DEF TypeOK, SvrInv, SvrBase, TablesOK
<1>4. /\ pl[Name(t)].enemy \in Names /\ pl[Name(t)].enemy \in Registered
      /\ pl[pl[Name(t)].enemy] \in Player
  <2>1. pl[Name(t)].enemy \in Names BY <1>1, <1>3, Zenon DEF Player
  <2>2. pl[Name(t)].enemy \in Registered BY <1>1, <1>3, Zenon DEF SvrInv, SvrBase, TablesOK
  <2>. QED BY <1>2, <2>1, <2>2, Zenon DEF TypeOK, SvrInv, SvrBase, TablesOK
<1>5. told \in Told
  <2>1. th[t].m \in Nat BY <1>1, <1>2, Zenon DEF TypeOK
  <2>2. pl[pl[Name(t)].enemy].port \in BOOLEAN BY <1>4, Zenon DEF Player
  <2>. QED BY <1>4, <2>1, <2>2, Zenon DEF Told
<1>. HIDE DEF told
<1>6. /\ cl'[c].pc = "play" /\ cl'[c].told = told /\ cl'[c].left = cl[c].left
      /\ \A d \in Clients : d # c => cl'[d] = cl[d]
  BY <1>1, <1>2, <1>3 DEF TypeOK
<1>7. /\ th'[t].pc = "report" /\ th'[t].c = th[t].c /\ th'[t].m = th[t].m
      /\ \A u \in Threads : u # t => th'[u] = th[u]
  BY <1>1, <1>2 DEF TypeOK
<1>8. TypeOK'
  <2>1. th' \in [Threads -> [pc : {"idle", "register", "find", "tell", "report", "clean"},
                             c : Clients \cup {None}, m : Nat \cup {None}]]
    BY <1>1, <1>2 DEF TypeOK
  <2>2. cl' \in [Clients -> [pc : {"connect", "wait", "play", "result", "exit"},
                             left : Nat, told : Told \cup {None}]]
    BY <1>1, <1>2, <1>3, <1>5 DEF TypeOK
  <2>. QED BY <1>1, <1>2, <2>1, <2>2, Zenon DEF TypeOK
<1>9. Registered' = Registered BY <1>1, Zenon DEF Registered
<1>10. \A u \in Threads : Name(u)' = Name(u) /\ (Owns(u)' <=> Owns(u)) /\ th'[u].c = th[u].c
  BY <1>1, <1>7, Zenon DEF Name, Owns
<1>11. TablesOK'
  <2>1. \A u \in Threads : th'[u].pc # "idle" => th[u].pc # "idle" BY <1>1, <1>7, Zenon
  <2>2. \A u \in Threads : th'[u].pc \in {"find", "tell", "report", "clean"} => Name(u)' \in Registered
    BY <1>3, <1>7, <1>10, Zenon DEF SvrInv, SvrBase, TablesOK
  <2>. QED BY <1>1, <1>9, <1>10, <2>1, <2>2, Zenon DEF SvrInv, SvrBase, TablesOK
<1>12. OwnerAlive' /\ OneThread'
  BY <1>1, <1>10 DEF SvrInv, SvrBase, OwnerAlive, OneThread
<1>13. Untold(t) /\ ~Untold(t)' /\ \A u \in Threads : u # t => (Untold(u)' <=> Untold(u))
  BY <1>1, <1>7, Zenon DEF Untold
<1>14. OneWait'
  <2>1. SUFFICES ASSUME NEW u \in Threads, Untold(u)'
                 PROVE  /\ cl'[th'[u].c].pc = "wait"
                        /\ \A v \in Threads : Untold(v)' /\ th'[v].c = th'[u].c => v = u
    BY Zenon DEF OneWait
  <2>2. u # t /\ Untold(u) BY <1>13, <2>1, Zenon
  <2>3. th[u].c # c BY <1>13, <2>2, Zenon DEF SvrInv, SvrBase, OneWait
  <2>4. th[u].c \in Clients /\ cl[th[u].c].pc = "wait"
    BY <2>2, Zenon DEF SvrInv, SvrBase, OneWait, TablesOK, Untold
  <2>5. \A v \in Threads : Untold(v)' /\ th[v].c = th[u].c => v = u
    BY <1>13, <2>2, Zenon DEF SvrInv, SvrBase, OneWait
  <2>. QED BY <1>6, <1>10, <2>3, <2>4, <2>5, Zenon
<1>15. PlayThread'
  <2>1. ASSUME NEW d \in Clients, cl'[d].pc = "play"
        PROVE  \E u \in Threads : th'[u].c = d /\ th'[u].pc = "report" /\ th'[u].m = cl'[d].told.id
    <3>1. CASE d = c
      <4>1. told.id = th[t].m BY Zenon DEF told
      <4>. QED BY <1>6, <1>7, <3>1, <4>1, Zenon
    <3>2. CASE d # c
      <4>1. PICK u \in Threads : th[u].c = d /\ th[u].pc = "report" /\ th[u].m = cl[d].told.id
        BY <1>6, <2>1, <3>2, Zenon DEF SvrInv, SvrBase, PlayThread
      <4>2. u # t BY <1>1, <4>1, Zenon
      <4>. QED BY <1>6, <1>7, <3>2, <4>1, <4>2, Zenon
    <3>. QED BY <3>1, <3>2, Zenon
  <2>. QED BY <2>1 DEF PlayThread
<1>16. LeftOK'
  <2>1. cl[c].pc = "wait" BY <1>13, Zenon DEF SvrInv, SvrBase, OneWait
  <2>. QED BY <1>3, <1>6, <2>1, Zenon DEF SvrInv, SvrBase, LeftOK
<1>17. ASSUME ~upset' PROVE Calm'
  <2>1. Calm BY <1>1, <1>17, Zenon DEF SvrInv
  <2>2. ActiveCount' /\ MatchesAgree'
    BY <1>1, <1>9, <2>1, Zenon DEF Calm, ActiveCount, MatchesAgree
  <2>3. RecordsOK'
    <3>1. \A n \in Registered : InMatch(n)' <=> InMatch(n) BY <1>1, Zenon DEF InMatch
    <3>2. \A u \in Threads : th[u].pc = "clean" => th'[u].pc = "clean" BY <1>1, <1>7, Zenon
    <3>. QED BY <1>1, <1>9, <1>10, <2>1, <3>1, <3>2 DEF Calm, RecordsOK
  <2>4. ThreadsOK'
    BY <1>1, <1>7, <1>10, <2>1 DEF Calm, ThreadsOK
  <2>5. PlayedTogether'
    <3>1. \A u, v \in Threads : Opponents(u, v)' <=> Opponents(u, v) BY <1>1, <1>10, Zenon DEF Opponents
    <3>2. ~Played(t)' BY <1>6, <1>7, Zenon DEF Played
    <3>3. ASSUME NEW u \in Threads, u # t, Owns(u) PROVE Played(u)' <=> Played(u)
      <4>1. th[u].c # c BY <1>1, <3>3, Zenon DEF SvrInv, SvrBase, OneThread, Owns, Name
      <4>2. th[u].c \in Clients BY <3>3, Zenon DEF SvrInv, SvrBase, TablesOK, Owns
      <4>. QED BY <1>6, <1>7, <3>3, <4>1, <4>2, Zenon DEF Played
    <3>4. ASSUME NEW u \in Threads, NEW v \in Threads, Opponents(u, v), Played(u)'
          PROVE  Played(v)'
      <4>1. u # t /\ Owns(u) /\ Owns(v) BY <3>2, <3>4, Zenon DEF Opponents
      <4>2. Played(v) BY <2>1, <3>3, <3>4, <4>1, Zenon DEF Calm, PlayedTogether
      <4>3. v # t BY <1>1, <4>2, ZenonT(40) DEF Played
      <4>. QED BY <3>3, <4>1, <4>2, <4>3, Zenon
    <3>. QED BY <3>1, <3>4, Zenon DEF PlayedTogether
  <2>6. ToldRight'
    <3>1. pl[pl[Name(t)].enemy].port
      <4>1. pl[Name(t)].status = "PLAYING"
            /\ matches[pl[Name(t)].match_id].status = "ACTIVE"
        BY <1>1, <2>1, Zenon DEF Calm, ThreadsOK
      <4>2. InMatch(Name(t)) BY <1>3, <2>1, <4>1, Zenon DEF Calm, RecordsOK
      <4>3. pl[pl[Name(t)].enemy].status = "PLAYING"
        BY <2>1, <4>1, <4>2 DEF Calm, MatchesAgree, InMatch
      <4>. QED BY <1>4, <2>1, <4>3, Zenon DEF Calm, RecordsOK
    <3>2. told.enemy = pl[NameOf[c]].enemy /\ told.port BY <3>1, Zenon DEF told, Name
    <3>. QED BY <1>1, <1>6, <2>1, <3>2, ZenonT(40) DEF Calm, ToldRight
  <2>. QED BY <2>2, <2>3, <2>4, <2>5, <2>6 DEF Calm
<1>. QED BY <1>8, <1>11, <1>12, <1>14, <1>15, <1>16, <1>17 DEF SvrInv, SvrBase

\* The last step of a thread resets what its record says of the match.
LEMMA CleanInv ==
    ASSUME SvrInv, NEW t \in Threads, Clean(t)
    PROVE  SvrInv'
<1>. DEFINE n == Name(t)
<1>1. /\ th[t].pc = "clean"
      /\ pl' = [pl EXCEPT ![n] = Reset(pl[n])]
      /\ th' = [th EXCEPT ![t] = IdleThread]
  BY Zenon DEF Clean
<1>2. /\ players' = players /\ active' = active /\ matches' = matches
      /\ cl' = cl /\ sent' = sent /\ upset' = upset
  BY Zenon DEF Clean
<1>3. TypeOK BY DEF SvrInv, SvrBase
<1>4. n \in Registered /\ n \in Names /\ pl[n] \in Player BY <1>1, NameFacts, Zenon
<1>. HIDE DEF n
<1>5. /\ pl'[n] \in Player /\ pl'[n].enemy = None /\ pl'[n].status = pl[n].status
      /\ \A x \in Names : x # n => pl'[x] = pl[x]
  <2>1. /\ Reset(pl[n]) \in Player /\ Reset(pl[n]).enemy = None
        /\ Reset(pl[n]).status = pl[n].status
    BY <1>4, Zenon DEF Reset, Player
  <2>. QED BY <1>1, <1>3, <1>4, <2>1, Zenon DEF TypeOK
<1>6. th'[t] = IdleThread /\ \A u \in Threads : u # t => th'[u] = th[u]
  BY <1>1, <1>3, Zenon DEF TypeOK
<1>7. TypeOK'
  <2>1. pl' \in [Names -> Player \cup {None}]
    <3>1. Reset(pl[n]) \in Player BY <1>4, Zenon DEF Reset, Player
    <3>. QED BY <1>1, <1>3, <3>1, Zenon DEF TypeOK
  <2>2. th' \in [Threads -> [pc : {"idle", "register", "find", "tell", "report", "clean"},
                             c : Clients \cup {None}, m : Nat \cup {None}]]
    BY <1>1, <1>3, Zenon DEF TypeOK, IdleThread
  <2>. QED BY <1>2, <1>3, <2>1, <2>2, Zenon DEF TypeOK
<1>8. Registered' = Registered /\ Registered \subseteq Names
  BY <1>2, <1>3 DEF Registered, TypeOK
<1>9. \A u \in Threads : /\ u # t => Name(u)' = Name(u)
                         /\ Owns(u)' <=> Owns(u)
                         /\ Owns(u) => u # t
                         /\ Untold(u)' <=> Untold(u)
                         /\ Untold(u) => u # t
  BY <1>1, <1>6 DEF Name, Owns, Untold, IdleThread
<1>10. TablesOK'
  <2>1. \A u \in Threads : th'[u].pc # "idle" => u # t BY <1>6 DEF IdleThread
  <2>2. \A x \in Registered : pl'[x] \in Player BY <1>5, <1>8, Zenon DEF SvrInv, SvrBase, TablesOK
  <2>3. \A x \in Registered : pl'[x].enemy # None => pl'[x].enemy \in Registered
    BY <1>5, <1>8, Zenon DEF SvrInv, SvrBase, TablesOK
  <2>4. \A u \in Threads : th'[u].pc \in {"find", "tell", "report", "clean"} => Name(u)' \in Registered
    BY <1>6, <1>9, <2>1, Zenon DEF SvrInv, SvrBase, TablesOK
  <2>5. \A u \in Threads : th'[u].pc # "idle" => th'[u].c \in Clients
    BY <1>6, <2>1, Zenon DEF SvrInv, SvrBase, TablesOK
  <2>6. \A m \in 1 .. Len(matches) : {matches[m].p1, matches[m].p2} \subseteq Registered
    BY Zenon DEF SvrInv, SvrBase, TablesOK
  <2>. QED BY <1>2, <1>8, <2>2, <2>3, <2>4, <2>5, <2>6, Zenon DEF TablesOK
<1>11. \A u \in Threads : Owns(u) => Name(u) \in Names /\ Name(u)' = Name(u)
  BY <1>9, NameFacts, Zenon DEF Owns
<1>12. OwnerAlive' /\ OneThread'
  <2>1. OwnerAlive' BY <1>5, <1>9, <1>11, Zenon DEF SvrInv, SvrBase, OwnerAlive
  <2>2. OneThread' BY <1>9, <1>11, Zenon DEF SvrInv, SvrBase, OneThread
  <2>. QED BY <2>1, <2>2, Zenon
<1>13. OneWait'
  <2>1. OneWait BY DEF SvrInv, SvrBase
  <2>. QED BY <1>2, <1>6, <1>9, <2>1, Zenon DEF OneWait
<1>14. PlayThread'
  <2>1. \A u \in Threads : th[u].pc = "report" => th'[u] = th[u] BY <1>1, <1>6, Zenon
  <2>2. PlayThread BY DEF SvrInv, SvrBase
  <2>. QED BY <1>2, <2>1, <2>2 DEF PlayThread
<1>15. LeftOK' BY <1>2, Zenon DEF SvrInv, SvrBase, LeftOK
<1>16. ASSUME ~upset' PROVE Calm'
  <2>1. Calm BY <1>2, <1>16, Zenon DEF SvrInv
  <2>2. pl[n].status = "DEAD" BY <1>1, <2>1, Zenon DEF Calm, ThreadsOK, n
  <2>3. ActiveCount'
    <3>1. \A x \in Registered : pl'[x].status = pl[x].status BY <1>5, <1>8, Zenon
    <3>2. {x \in Registered' : pl'[x].status # "PLAYING"} = {x \in Registered : pl[x].status # "PLAYING"}
      BY <1>8, <3>1, Zenon
    <3>. QED BY <1>2, <2>1, <3>2, Zenon DEF Calm, ActiveCount
  <2>4. MatchesAgree'
    <3>1. \A m \in 1 .. Len(matches) : matches[m].p1 \in Names /\ matches[m].p2 \in Names
      BY <1>8, Zenon DEF SvrInv, SvrBase, TablesOK
    <3>2. MatchesAgree BY <2>1, Zenon DEF Calm
    <3>3. ASSUME NEW m \in 1 .. Len(matches), matches[m].status = "ACTIVE"
          PROVE  pl'[matches[m].p1] = pl[matches[m].p1] /\ pl'[matches[m].p2] = pl[matches[m].p2]
      BY <1>5, <2>2, <3>1, <3>2, <3>3, Zenon DEF MatchesAgree
    <3>. QED BY <1>2, <3>2, <3>3 DEF MatchesAgree
  <2>5. RecordsOK'
    <3>1. RecordsOK BY <2>1, Zenon DEF Calm
    <3>2. ASSUME NEW x \in Registered
          PROVE  /\ pl'[x].status # "DEAD" => pl'[x].port
                 /\ pl'[x].status = "WAITING" => pl'[x].enemy = None
                 /\ pl'[x].status = "PLAYING" => InMatch(x)'
                 /\ pl'[x].status = "DEAD" /\ pl'[x].enemy # None =>
                        \E u \in Threads : th'[u].pc = "clean" /\ Name(u)' = x
      <4>1. CASE x = n BY <1>5, <2>2, <4>1, Zenon
      <4>2. CASE x # n
        <5>1. pl'[x] = pl[x] BY <1>5, <1>8, <4>2, Zenon
        <5>2. InMatch(x)' <=> InMatch(x) BY <1>2, <5>1, Zenon DEF InMatch
        <5>3. \A u \in Threads : th[u].pc = "clean" /\ Name(u) = x =>
                                    th'[u].pc = "clean" /\ Name(u)' = x
          BY <1>6, <1>9, <4>2, Zenon DEF n
        <5>. QED BY <3>1, <5>1, <5>2, <5>3, Zenon DEF RecordsOK
      <4>. QED BY <4>1, <4>2, Zenon
    <3>. QED BY <1>8, <3>2, Zenon DEF RecordsOK
  <2>6. ThreadsOK'
    <3>1. ThreadsOK BY <2>1 DEF Calm
    <3>2. ASSUME NEW u \in Threads
          PROVE  /\ th'[u].pc = "clean" => pl'[Name(u)'].status = "DEAD"
                 /\ th'[u].pc \in {"tell", "report"} =>
                        pl'[Name(u)'].status = "PLAYING" /\ th'[u].m = pl'[Name(u)'].match_id
                 /\ th'[u].pc \in {"find", "tell"} /\ pl'[Name(u)'].status = "PLAYING" =>
                        matches'[pl'[Name(u)'].match_id].status = "ACTIVE"
      <4>1. CASE u = t BY <1>6, <4>1 DEF IdleThread
      <4>2. CASE u # t
        <5>1. th'[u] = th[u] /\ Name(u)' = Name(u) BY <1>6, <1>9, <4>2, Zenon
        <5>2. th[u].pc \in {"find", "tell", "report", "clean"} => Name(u) \in Names BY NameFacts, Zenon
        <5>3. CASE Name(u) = n BY <1>5, <2>2, <3>1, <5>1, <5>3, Zenon DEF ThreadsOK
        <5>4. CASE Name(u) # n
          <6>1. th[u].pc \in {"find", "tell", "report", "clean"} => pl'[Name(u)] = pl[Name(u)]
            BY <1>5, <5>2, <5>4, Zenon
          <6>. QED BY <1>2, <3>1, <5>1, <6>1, Zenon DEF ThreadsOK
        <5>. QED BY <5>3, <5>4, Zenon
      <4>. QED BY <4>1, <4>2
    <3>. QED BY <3>2 DEF ThreadsOK
  <2>7. \A u \in Threads : Owns(u) => Name(u) # n /\ pl'[Name(u)] = pl[Name(u)]
    BY <1>5, <1>11, <2>2, Zenon DEF SvrInv, SvrBase, OwnerAlive
  <2>8. PlayedTogether'
    <3>1. \A u, v \in Threads : Opponents(u, v)' => Opponents(u, v)
      BY <1>9, <1>11, <2>7, Zenon DEF Opponents
    <3>2. \A u \in Threads : Played(u)' <=> Played(u) BY <1>1, <1>2, <1>6 DEF Played, IdleThread
    <3>. QED BY <2>1, <3>1, <3>2, Zenon DEF Calm, PlayedTogether
  <2>9. ToldRight'
    <3>1. ASSUME NEW c \in Clients, cl[c].pc = "play" PROVE pl'[NameOf[c]] = pl[NameOf[c]]
      <4>1. PICK u \in Threads : th[u].c = c /\ th[u].pc = "report"
        BY <3>1, Zenon DEF SvrInv, SvrBase, PlayThread
      <4>. QED BY <2>7, <4>1, Zenon DEF Owns, Name
    <3>. QED BY <1>2, <2>1, <3>1, Zenon DEF Calm, ToldRight
  <2>. QED BY <2>3, <2>4, <2>5, <2>6, <2>8, <2>9, Zenon DEF Calm
<1>. QED BY <1>7, <1>10, <1>12, <1>13, <1>14, <1>15, <1>16 DEF SvrInv, SvrBase

\* The players that active counts.
Unmatched == {n \in Registered : pl[n].status # "PLAYING"}

\* The table of players holds names.
LEMMA RegisteredNames == ASSUME TypeOK PROVE Registered \subseteq Names
<1>1. players \in [1 .. Len(players) -> Names] BY DEF TypeOK
<1>. QED BY <1>1, Zenon DEF Registered

\* What a registration does to the table: the record of n waits, and no other
\* record changes.
LEMMA RegisterFacts ==
    ASSUME SvrInv, NEW t \in Threads, Register(t), ~BadName(Name(t))
    PROVE  /\ th[t].pc = "register" /\ Name(t) \in Names
           /\ pl' \in [Names -> Player \cup {None}] /\ players' \in Seq(Names)
           /\ Registered' = Registered \cup {Name(t)}
           /\ pl'[Name(t)] \in Player /\ pl'[Name(t)].status = "WAITING" /\ pl'[Name(t)].port
           /\ Name(t) \in Registered => /\ pl'[Name(t)].enemy = pl[Name(t)].enemy
                                        /\ pl[Name(t)] \in Player /\ pl[Name(t)].status = "DEAD"
           /\ Name(t) \notin Registered => pl'[Name(t)].enemy = None
           /\ \A x \in Names : x # Name(t) => pl'[x] = pl[x]
<1>. DEFINE n == Name(t)
<1>1. /\ th[t].pc = "register"
      /\ IF n \in Registered
         THEN /\ pl' = [pl EXCEPT ![n].status = "WAITING", ![n].port = TRUE]
              /\ players' = players
         ELSE /\ pl' = [pl EXCEPT ![n] = [status |-> "WAITING", enemy |-> None,
                                          match_id |-> None, port |-> TRUE, stats |-> NoStats]]
              /\ players' = Append(players, n)
  BY Zenon DEF Register
<1>2. TypeOK BY Zenon DEF SvrInv, SvrBase
<1>3. n \in Names
  <2>1. th[t].c \in Clients BY <1>1, Zenon DEF SvrInv, SvrBase, TablesOK
  <2>. QED BY <2>1, RPSAssumption, Zenon DEF Name
<1>4. pl \in [Names -> Player \cup {None}] /\ players \in Seq(Names) BY <1>2, Zenon DEF TypeOK
<1>5. n \in Registered => pl[n] \in Player /\ pl[n].status = "DEAD"
  BY Zenon DEF SvrInv, SvrBase, TablesOK, BadName
<1>. HIDE DEF n
<1>6. CASE n \in Registered
  <2>. DEFINE r == [pl[n] EXCEPT !.status = "WAITING", !.port = TRUE]
  <2>1. r \in Player /\ r.status = "WAITING" /\ r.port /\ r.enemy = pl[n].enemy
    BY <1>5, <1>6, Zenon DEF Player
  <2>2. pl' = [pl EXCEPT ![n] = r] BY <1>1, <1>3, <1>4, <1>6, Zenon
  <2>3. Registered' = Registered \cup {n} BY <1>1, <1>6, Zenon DEF Registered
  <2>. HIDE DEF r
  <2>4. pl' \in [Names -> Player \cup {None}] BY <1>3, <1>4, <2>1, <2>2, Zenon
  <2>5. pl'[n] = r /\ \A x \in Names : x # n => pl'[x] = pl[x] BY <1>3, <1>4, <2>2, Zenon
  <2>6. players' \in Seq(Names) BY <1>1, <1>4, <1>6, Zenon
  <2>. QED BY <1>1, <1>3, <1>5, <1>6, <2>1, <2>3, <2>4, <2>5, <2>6, Zenon DEF n
<1>7. CASE n \notin Registered
  <2>. DEFINE r == [status |-> "WAITING", enemy |-> None, match_id |-> None, port |-> TRUE,
                    stats |-> NoStats]
  <2>1. r \in Player /\ r.status = "WAITING" /\ r.port /\ r.enemy = None
    BY Zenon DEF Player, NoStats
  <2>2. pl' = [pl EXCEPT ![n] = r] /\ players' = Append(players, n) BY <1>1, <1>7, Zenon
  <2>. HIDE DEF r
  <2>3. Registered' = Registered \cup {n}
    <3>1. /\ Len(players') = Len(players) + 1 /\ Len(players) \in Nat
          /\ players'[Len(players) + 1] = n
          /\ \A i \in 1 .. Len(players) : players'[i] = players[i]
      BY <1>3, <1>4, <2>2
    <3>. QED BY <3>1 DEF Registered
  <2>4. pl' \in [Names -> Player \cup {None}] BY <1>3, <1>4, <2>1, <2>2, Zenon
  <2>5. pl'[n] = r /\ \A x \in Names : x # n => pl'[x] = pl[x] BY <1>3, <1>4, <2>2, Zenon
  <2>6. players' \in Seq(Names) BY <1>3, <1>4, <2>2
  <2>. QED BY <1>1, <1>3, <1>7, <2>1, <2>3, <2>4, <2>5, <2>6, Zenon DEF n
<1>. QED BY <1>6, <1>7, Zenon

\* The first critical section, for a new player and for one that returns.
LEMMA JoinedInv ==
    ASSUME SvrInv, NEW t \in Threads, Register(t), ~BadName(Name(t))
    PROVE  /\ (~upset' => ActiveCount') => SvrInv'
           /\ ~upset' => /\ Unmatched' = Unmatched \cup {Name(t)}
                         /\ Name(t) \in Unmatched <=> Name(t) \in Registered
<1>. DEFINE n == Name(t)
<1>1. /\ th[t].pc = "register"
      /\ th' = [th EXCEPT ![t].pc = "find"]
      /\ upset' = (upset \/ \E u \in Threads : th[u].pc = "clean" /\ Name(u) = n)
      /\ active' = active + Joins(n)
  BY Zenon DEF Register
<1>2. matches' = matches /\ cl' = cl /\ sent' = sent BY Zenon DEF Register
<1>3. TypeOK BY DEF SvrInv, SvrBase
<1>4. /\ n \in Names /\ Registered' = Registered \cup {n}
      /\ pl' \in [Names -> Player \cup {None}] /\ players' \in Seq(Names)
      /\ pl'[n] \in Player /\ pl'[n].status = "WAITING" /\ pl'[n].port
      /\ n \in Registered => pl'[n].enemy = pl[n].enemy /\ pl[n].status = "DEAD"
      /\ n \notin Registered => pl'[n].enemy = None
      /\ \A x \in Names : x # n => pl'[x] = pl[x]
  BY RegisterFacts, Zenon
<1>5. Registered \subseteq Names BY <1>3, RegisteredNames, Zenon
<1>6. /\ th'[t].pc = "find" /\ th'[t].c = th[t].c
      /\ \A u \in Threads : u # t => th'[u] = th[u]
  BY <1>1, <1>3, Zenon DEF TypeOK
<1>7. TypeOK'
  <2>1. th' \in [Threads -> [pc : {"idle", "register", "find", "tell", "report", "clean"},
                             c : Clients \cup {None}, m : Nat \cup {None}]]
    <3>1. th \in [Threads -> [pc : {"idle", "register", "find", "tell", "report", "clean"},
                              c : Clients \cup {None}, m : Nat \cup {None}]]
      BY <1>3, Zenon DEF TypeOK
    <3>2. th' = [th EXCEPT ![t].pc = "find"] BY <1>1, Zenon
    <3>. QED BY <3>1, <3>2, Zenon
  <2>2. active' \in Int BY <1>1, <1>3 DEF TypeOK, Joins
  <2>3. upset' \in BOOLEAN BY <1>1, Zenon
  <2>. QED BY <1>2, <1>3, <1>4, <2>1, <2>2, <2>3, Zenon DEF TypeOK
<1>8. \A u \in Threads : /\ Name(u)' = Name(u) /\ th'[u].c = th[u].c
                         /\ Owns(u)' <=> Owns(u) \/ u = t
                         /\ ~Owns(t)
                         /\ Untold(u)' <=> Untold(u)
  BY <1>1, <1>6, Zenon DEF Name, Owns, Untold
<1>9. Name(t) = n BY Zenon
<1>. HIDE DEF n
<1>10. \A u \in Threads : Owns(u) => Name(u) # n /\ Name(u) \in Registered
  <2>1. \A u \in Threads : Owns(u) => Name(u) \in Registered /\ pl[Name(u)].status # "DEAD"
    BY Zenon DEF SvrInv, SvrBase, TablesOK, OwnerAlive, Owns
  <2>. QED BY <1>4, <2>1, Zenon
<1>11. TablesOK'
  <2>1. \A x \in Registered' : pl'[x] \in Player BY <1>4, <1>5, Zenon DEF SvrInv, SvrBase, TablesOK
  <2>2. \A x \in Registered' : pl'[x].enemy # None => pl'[x].enemy \in Registered'
    <3>1. \A x \in Registered : pl[x].enemy # None => pl[x].enemy \in Registered
      BY Zenon DEF SvrInv, SvrBase, TablesOK
    <3>2. \A x \in Registered : pl'[x].enemy = pl[x].enemy BY <1>4, <1>5, Zenon
    <3>. QED BY <1>4, <3>1, <3>2, Zenon
  <2>3. \A i \in 1 .. Len(matches') : {matches'[i].p1, matches'[i].p2} \subseteq Registered'
    BY <1>2, <1>4 DEF SvrInv, SvrBase, TablesOK
  <2>4. \A u \in Threads : th'[u].pc # "idle" => th'[u].c \in Clients
    BY <1>1, <1>6, Zenon DEF SvrInv, SvrBase, TablesOK
  <2>5. \A u \in Threads : th'[u].pc \in {"find", "tell", "report", "clean"} => Name(u)' \in Registered'
    BY <1>4, <1>6, <1>8, <1>9, Zenon DEF SvrInv, SvrBase, TablesOK
  <2>. QED BY <2>1, <2>2, <2>3, <2>4, <2>5, Zenon DEF TablesOK
<1>12. OwnerAlive'
  <2>1. \A u \in Threads : Owns(u) => pl'[Name(u)] = pl[Name(u)] BY <1>4, <1>5, <1>10, Zenon
  <2>. QED BY <1>4, <1>8, <1>9, <2>1, Zenon DEF SvrInv, SvrBase, OwnerAlive
<1>13. OneThread' BY <1>8, <1>9, <1>10, Zenon DEF SvrInv, SvrBase, OneThread
<1>14. OneWait'
  <2>1. OneWait BY Zenon DEF SvrInv, SvrBase
  <2>. QED BY <1>2, <1>8, <2>1, Zenon DEF OneWait
<1>15. PlayThread'
  <2>1. \A u \in Threads : th[u].pc = "report" => th'[u] = th[u] BY <1>1, <1>6, Zenon
  <2>2. PlayThread BY Zenon DEF SvrInv, SvrBase
  <2>. QED BY <1>2, <2>1, <2>2 DEF PlayThread
<1>16. LeftOK' BY <1>2, Zenon DEF SvrInv, SvrBase, LeftOK
<1>17. ASSUME ~upset', ActiveCount' PROVE Calm'
  <2>1. Calm BY <1>1, <1>17, Zenon DEF SvrInv
  <2>2. \A u \in Threads : th[u].pc = "clean" => Name(u) # n BY <1>1, <1>17, Zenon
  <2>3. pl'[n].enemy = None
    BY <1>4, <2>1, <2>2, Zenon DEF Calm, RecordsOK
  <2>4. \A x \in Registered : x # n => pl'[x] = pl[x] BY <1>4, <1>5, Zenon
  <2>6. MatchesAgree'
    <3>1. MatchesAgree BY <2>1, Zenon DEF Calm
    <3>2. \A i \in 1 .. Len(matches) : matches[i].p1 \in Registered /\ matches[i].p2 \in Registered
      BY Zenon DEF SvrInv, SvrBase, TablesOK
    <3>3. ASSUME NEW i \in 1 .. Len(matches), matches[i].status = "ACTIVE"
          PROVE  pl'[matches[i].p1] = pl[matches[i].p1] /\ pl'[matches[i].p2] = pl[matches[i].p2]
      BY <1>4, <2>4, <3>1, <3>2, <3>3 DEF MatchesAgree
    <3>. QED BY <1>2, <3>1, <3>3 DEF MatchesAgree
  <2>7. RecordsOK'
    <3>1. RecordsOK BY <2>1, Zenon DEF Calm
    <3>2. ASSUME NEW x \in Registered'
          PROVE  /\ pl'[x].status # "DEAD" => pl'[x].port
                 /\ pl'[x].status = "WAITING" => pl'[x].enemy = None
                 /\ pl'[x].status = "PLAYING" => InMatch(x)'
                 /\ pl'[x].status = "DEAD" /\ pl'[x].enemy # None =>
                        \E u \in Threads : th'[u].pc = "clean" /\ Name(u)' = x
      <4>1. CASE x = n BY <1>4, <2>3, <4>1, Zenon
      <4>2. CASE x # n
        <5>1. x \in Registered /\ pl'[x] = pl[x] BY <1>4, <2>4, <3>2, <4>2, Zenon
        <5>2. InMatch(x)' <=> InMatch(x) BY <1>2, <5>1, Zenon DEF InMatch
        <5>3. \A u \in Threads : th[u].pc = "clean" => th'[u].pc = "clean" /\ Name(u)' = Name(u)
          BY <1>1, <1>6, <1>8, Zenon
        <5>. QED BY <3>1, <5>1, <5>2, <5>3, Zenon DEF RecordsOK
      <4>. QED BY <4>1, <4>2, Zenon
    <3>. QED BY <3>2, Zenon DEF RecordsOK
  <2>8. \A u \in Threads : u # t /\ th[u].pc \in {"find", "tell", "report", "clean"} =>
                               Name(u) # n /\ pl'[Name(u)] = pl[Name(u)]
    BY <1>10, <2>2, <2>4, NameFacts, Zenon DEF Owns
  <2>9. ThreadsOK'
    <3>1. ThreadsOK BY <2>1, Zenon DEF Calm
    <3>2. ASSUME NEW u \in Threads
          PROVE  /\ th'[u].pc = "clean" => pl'[Name(u)'].status = "DEAD"
                 /\ th'[u].pc \in {"tell", "report"} =>
                        pl'[Name(u)'].status = "PLAYING" /\ th'[u].m = pl'[Name(u)'].match_id
                 /\ th'[u].pc \in {"find", "tell"} /\ pl'[Name(u)'].status = "PLAYING" =>
                        matches'[pl'[Name(u)'].match_id].status = "ACTIVE"
      <4>1. CASE u = t BY <1>4, <1>6, <1>8, <1>9, <4>1, Zenon
      <4>2. CASE u # t
        <5>1. th'[u] = th[u] /\ Name(u)' = Name(u) BY <1>6, <1>8, <4>2, Zenon
        <5>. QED BY <1>2, <2>8, <3>1, <4>2, <5>1 DEF ThreadsOK
      <4>. QED BY <4>1, <4>2, Zenon
    <3>. QED BY <3>2, Zenon DEF ThreadsOK
  <2>10. PlayedTogether'
    <3>1. ASSUME NEW u \in Threads, NEW v \in Threads, Opponents(u, v)'
          PROVE  Opponents(u, v) /\ u # t /\ v # t
      <4>1. Name(u) \in Names /\ Name(v) \in Names
        BY <1>4, <1>5, <1>8, <1>9, <1>10, <3>1, Zenon DEF Opponents
      <4>2. u # t /\ v # t
        BY <1>8, <1>9, <2>3, <3>1, <4>1, RPSAssumption, Zenon DEF Opponents
      <4>3. Owns(u) /\ Owns(v) BY <1>8, <3>1, <4>2, Zenon DEF Opponents
      <4>. QED BY <1>8, <2>8, <3>1, <4>2, <4>3, Zenon DEF Opponents, Owns
    <3>2. \A u \in Threads : u # t => (Played(u)' <=> Played(u)) BY <1>2, <1>6, Zenon DEF Played
    <3>. QED BY <2>1, <3>1, <3>2, Zenon DEF Calm, PlayedTogether
  <2>11. ToldRight'
    <3>1. ASSUME NEW c \in Clients, cl[c].pc = "play" PROVE pl'[NameOf[c]] = pl[NameOf[c]]
      <4>1. PICK u \in Threads : th[u].c = c /\ th[u].pc = "report"
        BY <3>1, Zenon DEF SvrInv, SvrBase, PlayThread
      <4>2. u # t BY <1>1, <4>1, Zenon
      <4>. QED BY <2>8, <4>1, <4>2, Zenon DEF Name
    <3>. QED BY <1>2, <2>1, <3>1, Zenon DEF Calm, ToldRight
  <2>. QED BY <1>17, <2>6, <2>7, <2>9, <2>10, <2>11, Zenon DEF Calm
<1>18. /\ Unmatched' = Unmatched \cup {n}
       /\ n \in Unmatched <=> n \in Registered
  <2>1. \A x \in Registered : x # n => pl'[x] = pl[x] BY <1>4, <1>5
  <2>. QED BY <1>4, <2>1, Zenon DEF Unmatched
<1>19. SvrBase' BY <1>7, <1>11, <1>12, <1>13, <1>14, <1>15, <1>16, Zenon DEF SvrBase
<1>. QED BY <1>9, <1>17, <1>18, <1>19, Zenon DEF SvrInv

\* What the scan of the match loop leaves behind, however many it has met.
ScanDone(t) ==
    /\ Name(t) \in Names /\ Name(t) \in Registered /\ Waiting(Name(t)) # {}
    /\ pl' \in [Names -> Player \cup {None}]
    /\ matches' \in Seq(Match)
    /\ \A x \in Registered : /\ pl'[x] \in Player
                             /\ pl'[x].enemy # None => pl'[x].enemy \in Registered
                             /\ pl'[x].status # "DEAD" \/ pl'[x] = pl[x]
    /\ \A m \in 1 .. Len(matches') : {matches'[m].p1, matches'[m].p2} \subseteq Registered
    /\ Len(matches) + Cardinality(Waiting(Name(t))) \in Nat
    /\ Cardinality(Waiting(Name(t))) \in Nat
    /\ Cardinality(Waiting(Name(t))) # 0

\* What is left of a scan that has met one player: a match of the two.
OneMet(t) ==
    \E p \in Registered :
      /\ p # Name(t) /\ pl[p].status = "WAITING" /\ pl[Name(t)].status = "WAITING"
      /\ Len(matches') = Len(matches) + 1
      /\ \A i \in 1 .. Len(matches) : matches'[i] = matches[i]
      /\ matches'[Len(matches')] = [p1 |-> Name(t), p2 |-> p, status |-> "ACTIVE"]
      /\ pl'[Name(t)] = Meet(pl[Name(t)], p, Len(matches'))
      /\ pl'[p] = Meet(pl[p], Name(t), Len(matches'))
      /\ \A x \in Names : x # Name(t) /\ x # p => pl'[x] = pl[x]

\* The second critical section: n is matched with every player that waits.
LEMMA FindOpponentInv ==
    ASSUME SvrInv, NEW t \in Threads, FindOpponent(t), ScanDone(t),
           ~upset /\ Cardinality(Waiting(Name(t))) = 1 => OneMet(t)
    PROVE  /\ (~upset' => ActiveCount') => SvrInv'
           /\ ~upset' => /\ active' = active - 2
                         /\ \E p \in Registered : /\ Unmatched = (Unmatched' \cup {p}) \cup {Name(t)}
                                                 /\ p \notin Unmatched' /\ Name(t) \notin Unmatched' \cup {p}
<1>. DEFINE n == Name(t)
            W == Waiting(n)
            last == Len(matches) + Cardinality(W)
<1>1. /\ th[t].pc = "find" /\ pl[n].enemy = None
      /\ th' = [th EXCEPT ![t].pc = "tell", ![t].m = last]
      /\ active' = active - 2 * Cardinality(W)
      /\ upset' = (upset \/ Cardinality(W) > 1)
  BY Zenon DEF FindOpponent
<1>2. players' = players /\ cl' = cl /\ sent' = sent BY Zenon DEF FindOpponent
<1>3. TypeOK BY Zenon DEF SvrInv, SvrBase
<1>4. /\ n \in Names /\ n \in Registered /\ W # {}
      /\ pl' \in [Names -> Player \cup {None}]
      /\ matches' \in Seq(Match)
      /\ \A x \in Registered : /\ pl'[x] \in Player
                               /\ pl'[x].enemy # None => pl'[x].enemy \in Registered
                               /\ pl'[x].status # "DEAD" \/ pl'[x] = pl[x]
      /\ \A m \in 1 .. Len(matches') : {matches'[m].p1, matches'[m].p2} \subseteq Registered
      /\ last \in Nat /\ Cardinality(W) \in Nat /\ Cardinality(W) # 0
  BY Zenon DEF ScanDone
<1>5. Name(t) = n BY Zenon
<1>6. Cardinality(Waiting(Name(t))) = Cardinality(W) BY Zenon
<1>. HIDE DEF W, n, last
<1>7. /\ th'[t].pc = "tell" /\ th'[t].c = th[t].c /\ th'[t].m = last
      /\ \A u \in Threads : u # t => th'[u] = th[u]
  BY <1>1, <1>3 DEF TypeOK
<1>8. TypeOK'
  <2>1. th' \in [Threads -> [pc : {"idle", "register", "find", "tell", "report", "clean"},
                             c : Clients \cup {None}, m : Nat \cup {None}]]
    <3>. DEFINE R == [pc : {"idle", "register", "find", "tell", "report", "clean"},
                      c : Clients \cup {None}, m : Nat \cup {None}]
    <3>1. th \in [Threads -> R] BY <1>3, Zenon DEF TypeOK
    <3>2. \A r \in R : [r EXCEPT !.pc = "tell", !.m = last] \in R BY <1>4, Zenon
    <3>3. th' = [th EXCEPT ![t] = [th[t] EXCEPT !.pc = "tell", !.m = last]] BY <1>1, <3>1, Zenon
    <3>. HIDE DEF R
    <3>4. th' \in [Threads -> R] BY <3>1, <3>2, <3>3, Zenon
    <3>. QED BY <3>4, Zenon DEF R
  <2>2. active' \in Int
    <3>1. active \in Int /\ Cardinality(W) \in Nat BY <1>3, <1>4, Zenon DEF TypeOK
    <3>2. active' = active - 2 * Cardinality(W) BY <1>1, Zenon
    <3>. QED BY <3>1, <3>2
  <2>3. upset' \in BOOLEAN BY <1>1, Zenon
  <2>. QED BY <1>2, <1>3, <1>4, <2>1, <2>2, <2>3, Zenon DEF TypeOK
<1>9. Registered' = Registered BY <1>2, Zenon DEF Registered
<1>10. Registered \subseteq Names BY <1>3, RegisteredNames, Zenon
<1>11. \A u \in Threads : /\ Name(u)' = Name(u) /\ th'[u].c = th[u].c
                          /\ Owns(u)' <=> Owns(u)
                          /\ Untold(u)' <=> Untold(u)
  BY <1>1, <1>7, Zenon DEF Name, Owns, Untold
<1>12. TablesOK'
  <2>1. \A u \in Threads : th'[u].pc # "idle" => th'[u].c \in Clients
    BY <1>1, <1>7, Zenon DEF SvrInv, SvrBase, TablesOK
  <2>2. \A u \in Threads : th'[u].pc \in {"find", "tell", "report", "clean"} => Name(u)' \in Registered
    BY <1>4, <1>5, <1>7, <1>11, Zenon DEF SvrInv, SvrBase, TablesOK
  <2>. QED BY <1>4, <1>9, <2>1, <2>2, Zenon DEF TablesOK
<1>13. OwnerAlive'
  <2>1. \A u \in Threads : Owns(u) => Name(u) \in Registered /\ pl[Name(u)].status # "DEAD"
    BY NameFacts, Zenon DEF SvrInv, SvrBase, OwnerAlive, Owns
  <2>2. \A u \in Threads : Owns(u) => pl'[Name(u)].status # "DEAD" BY <1>4, <2>1, Zenon
  <2>. QED BY <1>11, <2>2, Zenon DEF OwnerAlive
<1>14. OneThread' BY <1>11, Zenon DEF SvrInv, SvrBase, OneThread
<1>15. OneWait'
  <2>1. OneWait BY Zenon DEF SvrInv, SvrBase
  <2>. QED BY <1>2, <1>11, <2>1, Zenon DEF OneWait
<1>16. PlayThread'
  <2>1. \A u \in Threads : th[u].pc = "report" => th'[u] = th[u] BY <1>1, <1>7, Zenon
  <2>2. PlayThread BY Zenon DEF SvrInv, SvrBase
  <2>. QED BY <1>2, <2>1, <2>2 DEF PlayThread
<1>17. LeftOK' BY <1>2, Zenon DEF SvrInv, SvrBase, LeftOK
<1>. DEFINE L == Len(matches)
            Met(p) == /\ p # n /\ pl[p].status = "WAITING" /\ pl[n].status = "WAITING"
                      /\ Len(matches') = L + 1
                      /\ \A i \in 1 .. L : matches'[i] = matches[i]
                      /\ matches'[Len(matches')] = [p1 |-> n, p2 |-> p, status |-> "ACTIVE"]
                      /\ pl'[n] = Meet(pl[n], p, Len(matches'))
                      /\ pl'[p] = Meet(pl[p], n, Len(matches'))
                      /\ \A x \in Names : x # n /\ x # p => pl'[x] = pl[x]
<1>19. ASSUME ~upset'
       PROVE  /\ ~upset /\ Calm /\ Cardinality(W) = 1
              /\ \E p \in Registered : Met(p)
  <2>1. ~upset /\ Calm BY <1>1, <1>19, Zenon DEF SvrInv
  <2>2. Cardinality(W) = 1
    <3>1. ~(Cardinality(W) > 1) BY <1>1, <1>19, Zenon
    <3>. QED BY <1>4, <3>1
  <2>3. OneMet(t) BY <1>6, <2>1, <2>2, Zenon
  <2>. QED BY <2>1, <2>2, <2>3, Zenon DEF OneMet, n
<1>20. ASSUME NEW p \in Registered, Met(p)
       PROVE  /\ pl[n] \in Player /\ pl[p] \in Player
              /\ pl'[n].status = "PLAYING" /\ pl'[n].enemy = p /\ pl'[n].match_id = L + 1 /\ pl'[n].port = pl[n].port
              /\ pl'[p].status = "PLAYING" /\ pl'[p].enemy = n /\ pl'[p].match_id = L + 1 /\ pl'[p].port = pl[p].port
              /\ \A x \in Registered : x # n /\ x # p => pl'[x] = pl[x]
  <2>1. pl[n] \in Player /\ pl[p] \in Player BY <1>4, Zenon DEF SvrInv, SvrBase, TablesOK
  <2>2. \A x \in Registered : x # n /\ x # p => pl'[x] = pl[x] BY <1>10, <1>20, Zenon
  <2>. QED BY <1>20, <2>1, <2>2, Zenon DEF Meet, Player
<1>18. ASSUME ~upset', ActiveCount' PROVE Calm'
  <2>1. ~upset /\ Calm /\ Cardinality(W) = 1 BY <1>18, <1>19, Zenon
  <2>3. PICK p \in Registered : Met(p) BY <1>18, <1>19, Zenon
  <2>4. last = L + 1 /\ L \in Nat BY <1>3, <2>1 DEF last, TypeOK
  <2>. HIDE DEF L
  <2>6. /\ pl'[n].status = "PLAYING" /\ pl'[n].enemy = p /\ pl'[n].match_id = L + 1 /\ pl'[n].port = pl[n].port
        /\ pl'[p].status = "PLAYING" /\ pl'[p].enemy = n /\ pl'[p].match_id = L + 1 /\ pl'[p].port = pl[p].port
    BY <1>20, <2>3, Zenon
  <2>7. matches'[L + 1] = [p1 |-> n, p2 |-> p, status |-> "ACTIVE"] BY <2>3, Zenon
  <2>8. \A x \in Registered : x # n /\ x # p => pl'[x] = pl[x] BY <1>20, <2>3, Zenon
  <2>10. MatchesAgree'
    <3>1. MatchesAgree BY <2>1, Zenon DEF Calm
    <3>2. \A i \in 1 .. L : matches[i].p1 \in Registered /\ matches[i].p2 \in Registered
      BY Zenon DEF SvrInv, SvrBase, TablesOK, L
    <3>3. ASSUME NEW i \in 1 .. L, matches[i].status = "ACTIVE"
          PROVE  pl'[matches[i].p1] = pl[matches[i].p1] /\ pl'[matches[i].p2] = pl[matches[i].p2]
      BY <2>3, <2>8, <3>1, <3>2, <3>3, Zenon DEF MatchesAgree, L
    <3>4. ASSUME NEW i \in 1 .. Len(matches'), matches'[i].status = "ACTIVE"
          PROVE  /\ matches'[i].p1 # matches'[i].p2
                 /\ pl'[matches'[i].p1].status = "PLAYING" /\ pl'[matches'[i].p2].status = "PLAYING"
                 /\ pl'[matches'[i].p1].enemy = matches'[i].p2
                 /\ pl'[matches'[i].p2].enemy = matches'[i].p1
                 /\ pl'[matches'[i].p1].match_id = i /\ pl'[matches'[i].p2].match_id = i
      <4>1. CASE i = L + 1
        <5>1. matches'[i].p1 = n /\ matches'[i].p2 = p BY <2>7, <4>1
        <5>. QED BY <2>3, <2>6, <4>1, <5>1, Zenon
      <4>2. CASE i # L + 1
        <5>0. Len(matches') = L + 1 BY <2>3, Zenon
        <5>1. i \in 1 .. L /\ i \in 1 .. Len(matches)
          <6>1. i \in 1 .. L + 1 BY <3>4, <5>0, Zenon
          <6>2. i \in 1 .. L BY <2>4, <4>2, <6>1
          <6>. QED BY <6>2, Zenon DEF L
        <5>2. matches'[i] = matches[i] BY <2>3, <5>1, Zenon
        <5>3. matches[i].status = "ACTIVE" BY <3>4, <5>2, Zenon
        <5>4. /\ matches[i].p1 # matches[i].p2
              /\ pl[matches[i].p1].status = "PLAYING" /\ pl[matches[i].p2].status = "PLAYING"
              /\ pl[matches[i].p1].enemy = matches[i].p2
              /\ pl[matches[i].p2].enemy = matches[i].p1
              /\ pl[matches[i].p1].match_id = i /\ pl[matches[i].p2].match_id = i
          BY <3>1, <5>1, <5>3, Zenon DEF MatchesAgree
        <5>5. pl'[matches[i].p1] = pl[matches[i].p1] /\ pl'[matches[i].p2] = pl[matches[i].p2]
          BY <3>3, <5>1, <5>3, Zenon
        <5>. QED BY <5>2, <5>4, <5>5, Zenon
      <4>. QED BY <4>1, <4>2, Zenon
    <3>. QED BY <3>4, Zenon DEF MatchesAgree
  <2>11. RecordsOK'
    <3>1. RecordsOK BY <2>1, Zenon DEF Calm
    <3>2. ASSUME NEW x \in Registered, x = n \/ x = p PROVE InMatch(x)'
      <4>1. L + 1 \in 1 .. Len(matches')
        <5>1. Len(matches') = L + 1 BY <2>3, Zenon
        <5>. QED BY <2>4, <5>1
      <4>2. n \in Names /\ p \in Names /\ n # p BY <1>4, <1>10, <2>3, Zenon
      <4>3. matches'[L + 1].p1 = n /\ matches'[L + 1].p2 = p BY <2>7
      <4>4. pl'[n].enemy = p /\ pl'[n].match_id = L + 1 /\ pl'[p].enemy = n /\ pl'[p].match_id = L + 1
        BY <2>6, Zenon
      <4>5. CASE x = n BY <4>1, <4>2, <4>3, <4>4, <4>5, Zenon DEF InMatch
      <4>6. CASE x = p BY <4>1, <4>2, <4>3, <4>4, <4>6, Zenon DEF InMatch
      <4>. QED BY <3>2, <4>5, <4>6, Zenon
    <3>3. pl[n].port /\ pl[p].port BY <1>4, <2>3, <3>1, Zenon DEF RecordsOK
    <3>4. ASSUME NEW x \in Registered
          PROVE  /\ pl'[x].status # "DEAD" => pl'[x].port
                 /\ pl'[x].status = "WAITING" => pl'[x].enemy = None
                 /\ pl'[x].status = "PLAYING" => InMatch(x)'
                 /\ pl'[x].status = "DEAD" /\ pl'[x].enemy # None =>
                        \E u \in Threads : th'[u].pc = "clean" /\ Name(u)' = x
      <4>1. CASE x = n \/ x = p
        <5>1. pl'[x].status = "PLAYING" /\ pl'[x].port BY <2>6, <3>3, <4>1, Zenon
        <5>2. InMatch(x)' BY <3>2, <4>1, Zenon
        <5>. QED BY <5>1, <5>2, Zenon
      <4>3. CASE x # n /\ x # p
        <5>1. pl'[x] = pl[x] BY <2>8, <4>3, Zenon
        <5>2. InMatch(x) => InMatch(x)'
          <6>1. \A i \in 1 .. L : i \in 1 .. Len(matches') /\ matches'[i] = matches[i] BY <2>3, <2>4
          <6>. QED BY <5>1, <6>1, Zenon DEF InMatch, L
        <5>3. \A u \in Threads : th[u].pc = "clean" => th'[u].pc = "clean" /\ Name(u)' = Name(u)
          BY <1>1, <1>7, <1>11, Zenon
        <5>. QED BY <3>1, <5>1, <5>2, <5>3, Zenon DEF RecordsOK
      <4>. QED BY <4>1, <4>3, Zenon
    <3>. QED BY <1>9, <3>4, Zenon DEF RecordsOK
  <2>12. ASSUME NEW u \in Threads, th[u].pc \in {"tell", "report", "clean"}
         PROVE  Name(u) \in Registered /\ Name(u) # n /\ Name(u) # p
    <3>1. Name(u) \in Registered BY <2>12, NameFacts, Zenon
    <3>2. pl[Name(u)].status # "WAITING" BY <2>1, <2>12, Zenon DEF Calm, ThreadsOK
    <3>. QED BY <2>3, <3>1, <3>2, Zenon
  <2>13. ThreadsOK'
    <3>1. ThreadsOK BY <2>1, Zenon DEF Calm
    <3>2. ASSUME NEW u \in Threads
          PROVE  /\ th'[u].pc = "clean" => pl'[Name(u)'].status = "DEAD"
                 /\ th'[u].pc \in {"tell", "report"} =>
                        pl'[Name(u)'].status = "PLAYING" /\ th'[u].m = pl'[Name(u)'].match_id
                 /\ th'[u].pc \in {"find", "tell"} /\ pl'[Name(u)'].status = "PLAYING" =>
                        matches'[pl'[Name(u)'].match_id].status = "ACTIVE"
      <4>1. CASE u = t
        <5>1. Name(u)' = n BY <1>5, <1>11, <4>1, Zenon
        <5>. QED BY <1>7, <2>4, <2>6, <2>7, <4>1, <5>1
      <4>2. CASE u # t /\ th[u].pc = "find"
        <5>1. th'[u] = th[u] /\ Name(u)' = Name(u) BY <1>7, <1>11, <4>2, Zenon
        <5>2. Name(u) \in Registered BY <4>2, NameFacts, Zenon
        <5>3. CASE Name(u) \in {n, p} BY <2>6, <2>7, <4>2, <5>1, <5>3
        <5>4. CASE Name(u) \notin {n, p}
          <6>1. pl'[Name(u)] = pl[Name(u)] BY <2>8, <5>2, <5>4, Zenon
          <6>2. ASSUME pl[Name(u)].status = "PLAYING"
                PROVE  matches'[pl[Name(u)].match_id].status = "ACTIVE"
            <7>1. matches[pl[Name(u)].match_id].status = "ACTIVE" BY <3>1, <4>2, <6>2, Zenon DEF ThreadsOK
            <7>2. pl[Name(u)].match_id \in 1 .. L
              BY <2>1, <5>2, <6>2, Zenon DEF Calm, RecordsOK, InMatch, L
            <7>. QED BY <2>3, <7>1, <7>2, Zenon
          <6>. QED BY <4>2, <5>1, <6>1, <6>2, Zenon
        <5>. QED BY <5>3, <5>4, Zenon
      <4>3. CASE u # t /\ th[u].pc # "find"
        <5>1. th'[u] = th[u] /\ Name(u)' = Name(u) BY <1>7, <1>11, <4>3, Zenon
        <5>2. th[u].pc \in {"tell", "report", "clean"} => pl'[Name(u)] = pl[Name(u)]
          BY <2>8, <2>12, Zenon
        <5>3. ASSUME th[u].pc = "tell"
              PROVE  matches'[pl[Name(u)].match_id].status = "ACTIVE"
          <6>1. Name(u) \in Registered BY <2>12, <5>3, Zenon
          <6>2. pl[Name(u)].status = "PLAYING" /\ matches[pl[Name(u)].match_id].status = "ACTIVE"
            BY <3>1, <5>3, Zenon DEF ThreadsOK
          <6>3. pl[Name(u)].match_id \in 1 .. L
            BY <2>1, <6>1, <6>2, Zenon DEF Calm, RecordsOK, InMatch, L
          <6>. QED BY <2>3, <6>2, <6>3, Zenon
        <5>. QED BY <3>1, <4>3, <5>1, <5>2, <5>3, Zenon DEF ThreadsOK
      <4>. QED BY <4>1, <4>2, <4>3, Zenon
    <3>. QED BY <3>2, Zenon DEF ThreadsOK
  <2>14. PlayedTogether'
    <3>1. \A u \in Threads : Played(u)' <=> Played(u) BY <1>1, <1>2, <1>7, Zenon DEF Played
    <3>2. ASSUME NEW u \in Threads, NEW v \in Threads, Opponents(u, v)', Played(u)
          PROVE  Opponents(u, v)
      <4>1. Name(u) \in Registered /\ Name(u) # n /\ Name(u) # p BY <2>12, <3>2, Zenon DEF Played
      <4>2. Owns(u) /\ Owns(v) /\ pl'[Name(u)].enemy = Name(v) /\ pl'[Name(v)].enemy = Name(u)
        BY <1>11, <3>2, Zenon DEF Opponents
      <4>3. Name(v) \in Registered BY <4>2, NameFacts, Zenon DEF Owns
      <4>4. Name(v) # n /\ Name(v) # p BY <2>6, <4>1, <4>2, Zenon
      <4>. QED BY <2>8, <4>1, <4>2, <4>3, <4>4, Zenon DEF Opponents
    <3>. QED BY <2>1, <3>1, <3>2, Zenon DEF Calm, PlayedTogether
  <2>15. ToldRight'
    <3>1. ASSUME NEW c \in Clients, cl[c].pc = "play" PROVE pl'[NameOf[c]] = pl[NameOf[c]]
      <4>1. PICK u \in Threads : th[u].c = c /\ th[u].pc = "report"
        BY <3>1, Zenon DEF SvrInv, SvrBase, PlayThread
      <4>. QED BY <2>8, <2>12, <4>1, Zenon DEF Name
    <3>. QED BY <1>2, <2>1, <3>1, Zenon DEF Calm, ToldRight
  <2>. QED BY <1>18, <2>10, <2>11, <2>13, <2>14, <2>15, Zenon DEF Calm
<1>21. ASSUME ~upset'
       PROVE  /\ active' = active - 2
              /\ \E p \in Registered : /\ Unmatched = (Unmatched' \cup {p}) \cup {n}
                                      /\ p \notin Unmatched' /\ n \notin Unmatched' \cup {p}
  <2>1. PICK p \in Registered : Met(p) BY <1>19, <1>21, Zenon
  <2>2. /\ pl'[n].status = "PLAYING" /\ pl'[p].status = "PLAYING"
        /\ \A x \in Registered : x # n /\ x # p => pl'[x] = pl[x]
    BY <1>20, <2>1, Zenon
  <2>3. p # n /\ pl[p].status = "WAITING" /\ pl[n].status = "WAITING" BY <2>1, Zenon
  <2>4. Unmatched = (Unmatched' \cup {p}) \cup {n} BY <1>4, <1>9, <2>2, <2>3, Zenon DEF Unmatched
  <2>5. p \notin Unmatched' /\ n \notin Unmatched' \cup {p} BY <2>2, <2>3, Zenon DEF Unmatched
  <2>6. active' = active - 2
    <3>1. active \in Int /\ Cardinality(W) = 1 BY <1>3, <1>19, <1>21, Zenon DEF TypeOK
    <3>. QED BY <1>1, <3>1
  <2>. QED BY <2>4, <2>5, <2>6, Zenon
<1>22. SvrBase' BY <1>8, <1>12, <1>13, <1>14, <1>15, <1>16, <1>17, Zenon DEF SvrBase
<1>. QED BY <1>18, <1>21, <1>22, Zenon DEF SvrInv, n

\* The third critical section: the result of the match is entered, which only
\* happens once both players of the match have been told of it.
LEMMA ReportInv ==
    ASSUME SvrInv, NEW t \in Threads, Report(t)
    PROVE  /\ (~upset' => ActiveCount') => SvrInv'
           /\ ~upset' => Unmatched' = Unmatched \cup {Name(t)} /\ Name(t) \notin Unmatched
<1>. DEFINE n == Name(t)
            c == th[t].c
            k == Counts(sent[c])
            m == th[t].m
<1>1. /\ th[t].pc = "report" /\ cl[c].pc # "play" /\ cl[c].pc # "result"
      /\ pl' = [pl EXCEPT ![n].status = "DEAD", ![n].stats[k] = @ + 1]
      /\ th' = [th EXCEPT ![t].pc = "clean"]
  BY Zenon DEF Report
<1>2. /\ matches' = FinishMatch(m) /\ active' = active + 1
      /\ players' = players /\ cl' = cl /\ sent' = sent /\ upset' = upset
  BY Zenon DEF Report, Back
<1>3. TypeOK BY DEF SvrInv, SvrBase
<1>4. n \in Registered /\ n \in Names /\ pl[n] \in Player /\ c \in Clients BY <1>1, NameFacts, Zenon
<1>5. k \in {"won", "lost", "tie"} BY <1>3, <1>4, Zenon DEF TypeOK, Counts
<1>. HIDE DEF n, k
<1>6. /\ pl'[n] \in Player /\ pl'[n].status = "DEAD" /\ pl'[n].enemy = pl[n].enemy
      /\ \A x \in Names : x # n => pl'[x] = pl[x]
  <2>. DEFINE r == [pl[n] EXCEPT !.status = "DEAD", !.stats[k] = @ + 1]
  <2>1. r \in Player /\ r.status = "DEAD" /\ r.enemy = pl[n].enemy
    <3>1. pl[n].stats \in [{"won", "lost", "tie"} -> Nat] BY <1>4, Zenon DEF Player
    <3>2. [pl[n].stats EXCEPT ![k] = @ + 1] \in [{"won", "lost", "tie"} -> Nat] BY <1>5, <3>1
    <3>. QED BY <1>4, <3>2, Zenon DEF Player
  <2>2. pl \in [Names -> Player \cup {None}] BY <1>3, Zenon DEF TypeOK
  <2>3. pl' = [pl EXCEPT ![n] = r] BY <1>1, <1>4, <2>2, Zenon
  <2>. HIDE DEF r
  <2>. QED BY <1>4, <2>1, <2>2, <2>3, Zenon
<1>7. pl' \in [Names -> Player \cup {None}]
  <2>1. pl \in [Names -> Player \cup {None}] BY <1>3 DEF TypeOK
  <2>2. DOMAIN pl' = Names BY <1>1, <2>1, Zenon
  <2>3. pl' = [x \in Names |-> pl'[x]] BY <1>1, <2>1, Zenon
  <2>. QED BY <1>6, <2>1, <2>2, <2>3, Zenon
<1>8. /\ th'[t].pc = "clean" /\ th'[t].c = c
      /\ \A u \in Threads : u # t => th'[u] = th[u]
  BY <1>1, <1>3, Zenon DEF TypeOK
<1>9. /\ matches' \in Seq(Match) /\ Len(matches') = Len(matches)
      /\ \A i \in 1 .. Len(matches) :
            /\ matches'[i].p1 = matches[i].p1 /\ matches'[i].p2 = matches[i].p2
            /\ matches'[i].status = IF i = m THEN "FINISH" ELSE matches[i].status
  <2>1. matches \in Seq(Match) BY <1>3, Zenon DEF TypeOK
  <2>2. CASE m \in 1 .. Len(matches)
    <3>. DEFINE x == [matches[m] EXCEPT !.status = "FINISH"]
    <3>1. matches[m] \in Match BY <2>1, <2>2
    <3>2. x \in Match /\ x.p1 = matches[m].p1 /\ x.p2 = matches[m].p2 /\ x.status = "FINISH"
      BY <3>1, Zenon DEF Match
    <3>3. matches' = [matches EXCEPT ![m] = x] BY <1>2, <2>1, <2>2, Zenon DEF FinishMatch
    <3>. HIDE DEF x
    <3>4. matches' \in Seq(Match) /\ Len(matches') = Len(matches)
      BY <2>1, <2>2, <3>2, <3>3
    <3>5. \A i \in 1 .. Len(matches) : matches'[i] = IF i = m THEN x ELSE matches[i]
      BY <2>1, <2>2, <3>2, <3>3
    <3>. QED BY <3>2, <3>4, <3>5, Zenon
  <2>3. CASE m \notin 1 .. Len(matches)
    <3>1. matches' = matches BY <1>2, <2>1, <2>3 DEF FinishMatch
    <3>. QED BY <2>1, <2>3, <3>1, Zenon
  <2>. QED BY <2>2, <2>3, Zenon
<1>. HIDE DEF m
<1>10. TypeOK'
  <2>1. th' \in [Threads -> [pc : {"idle", "register", "find", "tell", "report", "clean"},
                             c : Clients \cup {None}, m : Nat \cup {None}]]
    <3>. DEFINE R == [pc : {"idle", "register", "find", "tell", "report", "clean"},
                      c : Clients \cup {None}, m : Nat \cup {None}]
    <3>1. th \in [Threads -> R] BY <1>3 DEF TypeOK
    <3>2. \A r \in R : [r EXCEPT !.pc = "clean"] \in R BY Zenon
    <3>3. th' = [th EXCEPT ![t] = [th[t] EXCEPT !.pc = "clean"]] BY <1>1, <3>1, Zenon
    <3>. HIDE DEF R
    <3>4. th' \in [Threads -> R] BY <3>1, <3>2, <3>3, Zenon
    <3>. QED BY <3>4 DEF R
  <2>. QED BY <1>2, <1>3, <1>7, <1>9, <2>1 DEF TypeOK
<1>11. Registered' = Registered /\ Registered \subseteq Names
  BY <1>2, <1>3 DEF Registered, TypeOK
<1>12. \A u \in Threads : /\ Name(u)' = Name(u)
                          /\ Owns(u)' <=> Owns(u) /\ u # t
                          /\ Untold(u)' <=> Untold(u)
                          /\ Untold(u) => u # t
                          /\ th'[u].c = th[u].c
  BY <1>1, <1>8, Zenon DEF Name, Owns, Untold
<1>13. \A u \in Threads : Owns(u) /\ u # t => Name(u) # n /\ Name(u) \in Names
  <2>1. Owns(t) BY <1>1, Zenon DEF Owns
  <2>2. \A u \in Threads : Owns(u) => Name(u) \in Names BY NameFacts, Zenon DEF Owns
  <2>. QED BY <2>1, <2>2, Zenon DEF SvrInv, SvrBase, OneThread, n
<1>14. TablesOK'
  <2>1. \A x \in Registered : pl'[x] \in Player BY <1>6, <1>11, Zenon DEF SvrInv, SvrBase, TablesOK
  <2>2. \A x \in Registered : pl'[x].enemy # None => pl'[x].enemy \in Registered
    BY <1>6, <1>11, Zenon DEF SvrInv, SvrBase, TablesOK
  <2>3. \A u \in Threads : th'[u].pc \in {"find", "tell", "report", "clean"} => Name(u)' \in Registered
    BY <1>4, <1>8, <1>12, Zenon DEF SvrInv, SvrBase, TablesOK, n
  <2>4. \A u \in Threads : th'[u].pc # "idle" => th'[u].c \in Clients
    BY <1>4, <1>8, Zenon DEF SvrInv, SvrBase, TablesOK
  <2>5. \A i \in 1 .. Len(matches) : {matches'[i].p1, matches'[i].p2} \subseteq Registered
    BY <1>9, Zenon DEF SvrInv, SvrBase, TablesOK
  <2>. QED BY <1>9, <1>11, <2>1, <2>2, <2>3, <2>4, <2>5, Zenon DEF TablesOK
<1>15. OwnerAlive' /\ OneThread'
  <2>1. OwnerAlive' BY <1>6, <1>12, <1>13 DEF SvrInv, SvrBase, OwnerAlive
  <2>2. OneThread' BY <1>12, Zenon DEF SvrInv, SvrBase, OneThread
  <2>. QED BY <2>1, <2>2
<1>16. OneWait'
  <2>1. OneWait BY DEF SvrInv, SvrBase
  <2>. QED BY <1>2, <1>12, <2>1, Zenon DEF OneWait
<1>17. PlayThread'
  <2>1. ASSUME NEW d \in Clients, cl'[d].pc = "play"
        PROVE  \E u \in Threads : th'[u].c = d /\ th'[u].pc = "report" /\ th'[u].m = cl'[d].told.id
    <3>1. PICK u \in Threads : th[u].c = d /\ th[u].pc = "report" /\ th[u].m = cl[d].told.id
      BY <1>2, <2>1, Zenon DEF SvrInv, SvrBase, PlayThread
    <3>2. u # t BY <1>1, <1>2, <2>1, <3>1, Zenon
    <3>. QED BY <1>2, <1>8, <3>1, <3>2, Zenon
  <2>. QED BY <2>1 DEF PlayThread
<1>18. LeftOK' BY <1>2, Zenon DEF SvrInv, SvrBase, LeftOK
<1>19. ASSUME ~upset', ActiveCount' PROVE Calm'
  <2>1. Calm BY <1>2, <1>19, Zenon DEF SvrInv
  <2>2. pl[n].status = "PLAYING" /\ m = pl[n].match_id
    BY <1>1, <2>1, Zenon DEF Calm, ThreadsOK, n, m
  <2>3. InMatch(n) BY <1>4, <2>1, <2>2, Zenon DEF Calm, RecordsOK
  <2>4. \A x \in Registered : x # n => pl'[x] = pl[x] BY <1>6, <1>11, Zenon
  <2>6. MatchesAgree'
    <3>1. MatchesAgree BY <2>1 DEF Calm
    <3>2. ASSUME NEW i \in 1 .. Len(matches), i # m, matches[i].status = "ACTIVE"
          PROVE  matches[i].p1 # n /\ matches[i].p2 # n
      BY <2>2, <3>1, <3>2 DEF MatchesAgree
    <3>3. \A i \in 1 .. Len(matches) : matches[i].p1 \in Registered /\ matches[i].p2 \in Registered
      BY Zenon DEF SvrInv, SvrBase, TablesOK
    <3>4. ASSUME NEW i \in 1 .. Len(matches), matches'[i].status = "ACTIVE"
          PROVE  /\ i # m /\ matches[i].status = "ACTIVE"
                 /\ pl'[matches[i].p1] = pl[matches[i].p1]
                 /\ pl'[matches[i].p2] = pl[matches[i].p2]
      <4>1. i # m /\ matches[i].status = "ACTIVE" BY <1>9, <3>4, Zenon
      <4>. QED BY <2>4, <3>2, <3>3, <4>1, Zenon
    <3>. QED BY <1>9, <3>1, <3>4 DEF MatchesAgree
  <2>7. \A x \in Registered : x # n => (InMatch(x)' <=> InMatch(x))
    BY <1>9, <2>4 DEF InMatch
  <2>8. RecordsOK'
    <3>1. RecordsOK BY <2>1 DEF Calm
    <3>2. ASSUME NEW x \in Registered
          PROVE  /\ pl'[x].status # "DEAD" => pl'[x].port
                 /\ pl'[x].status = "WAITING" => pl'[x].enemy = None
                 /\ pl'[x].status = "PLAYING" => InMatch(x)'
                 /\ pl'[x].status = "DEAD" /\ pl'[x].enemy # None =>
                        \E u \in Threads : th'[u].pc = "clean" /\ Name(u)' = x
      <4>1. CASE x = n
        <5>1. th'[t].pc = "clean" /\ Name(t)' = x BY <1>8, <1>12, <4>1, Zenon DEF n
        <5>. QED BY <1>6, <4>1, <5>1, Zenon
      <4>2. CASE x # n
        <5>1. pl'[x] = pl[x] /\ (InMatch(x)' <=> InMatch(x)) BY <2>4, <2>7, <4>2, Zenon
        <5>2. \A u \in Threads : th[u].pc = "clean" /\ Name(u) = x =>
                                    th'[u].pc = "clean" /\ Name(u)' = x
          BY <1>1, <1>8, <1>12, Zenon
        <5>. QED BY <3>1, <5>1, <5>2, Zenon DEF RecordsOK
      <4>. QED BY <4>1, <4>2
    <3>. QED BY <1>11, <3>2 DEF RecordsOK
  <2>9. ASSUME NEW u \in Threads, u # t, th[u].pc \in {"find", "tell", "report", "clean"}
        PROVE  Name(u) # n /\ Name(u) \in Registered /\ pl'[Name(u)] = pl[Name(u)]
    <3>1. Name(u) \in Registered BY <2>9, NameFacts, Zenon
    <3>2. Name(u) # n
      <4>1. CASE Owns(u) BY <1>13, <2>9, <4>1, Zenon
      <4>2. CASE th[u].pc = "clean" BY <2>1, <2>2, <4>2, Zenon DEF Calm, ThreadsOK
      <4>. QED BY <2>9, <4>1, <4>2, Zenon DEF Owns
    <3>. QED BY <2>4, <3>1, <3>2, Zenon
  <2>10. ASSUME NEW u \in Threads, u # t, th[u].pc \in {"find", "tell"},
                pl[Name(u)].status = "PLAYING"
         PROVE  pl[Name(u)].match_id \in 1 .. Len(matches) /\ pl[Name(u)].match_id # m
    <3>1. matches[pl[Name(u)].match_id].status = "ACTIVE"
      BY <2>1, <2>10, Zenon DEF Calm, ThreadsOK
    <3>2. InMatch(Name(u)) BY <2>1, <2>9, <2>10, Zenon DEF Calm, RecordsOK
    <3>3. ASSUME pl[Name(u)].match_id = m PROVE FALSE
      <4>1. matches[m].status = "ACTIVE" /\ m \in 1 .. Len(matches)
        BY <3>1, <3>2, <3>3, Zenon DEF InMatch
      <4>2. /\ n \in {matches[m].p1, matches[m].p2} /\ Name(u) \in {matches[m].p1, matches[m].p2}
        BY <2>2, <2>3, <3>2, <3>3, Zenon DEF InMatch
      <4>3. Name(u) # n BY <2>9, <2>10, Zenon
      <4>4. pl[n].enemy = Name(u) /\ pl[Name(u)].enemy = n
        BY <2>1, <4>1, <4>2, <4>3 DEF Calm, MatchesAgree
      <4>5. Opponents(t, u) BY <1>1, <2>10, <4>4, Zenon DEF Opponents, Owns, n
      <4>6. Played(t) BY <1>1, Zenon DEF Played
      <4>7. Played(u) BY <2>1, <4>5, <4>6, Zenon DEF Calm, PlayedTogether
      <4>. QED BY <2>10, <4>7, Zenon DEF Played
    <3>. QED BY <3>2, <3>3, Zenon DEF InMatch
  <2>11. ThreadsOK'
    <3>1. ThreadsOK BY <2>1 DEF Calm
    <3>2. ASSUME NEW u \in Threads
          PROVE  /\ th'[u].pc = "clean" => pl'[Name(u)'].status = "DEAD"
                 /\ th'[u].pc \in {"tell", "report"} =>
                        pl'[Name(u)'].status = "PLAYING" /\ th'[u].m = pl'[Name(u)'].match_id
                 /\ th'[u].pc \in {"find", "tell"} /\ pl'[Name(u)'].status = "PLAYING" =>
                        matches'[pl'[Name(u)'].match_id].status = "ACTIVE"
      <4>1. CASE u = t BY <1>6, <1>8, <1>12, <4>1, Zenon DEF n
      <4>2. CASE u # t
        <5>1. th'[u] = th[u] /\ Name(u)' = Name(u) BY <1>8, <1>12, <4>2, Zenon
        <5>2. th[u].pc \in {"find", "tell", "report", "clean"} => pl'[Name(u)] = pl[Name(u)]
          BY <2>9, <4>2, Zenon
        <5>3. th[u].pc \in {"find", "tell"} /\ pl[Name(u)].status = "PLAYING" =>
                 matches'[pl[Name(u)].match_id].status = "ACTIVE"
          BY <1>9, <2>10, <3>1, <4>2, Zenon DEF ThreadsOK
        <5>. QED BY <3>1, <5>1, <5>2, <5>3, Zenon DEF ThreadsOK
      <4>. QED BY <4>1, <4>2
    <3>. QED BY <3>2 DEF ThreadsOK
  <2>12. PlayedTogether'
    <3>1. \A u, v \in Threads : Opponents(u, v)' => Opponents(u, v) /\ u # t /\ v # t
      BY <1>12, <2>9 DEF Opponents, Owns
    <3>2. \A u \in Threads : u # t => (Played(u)' <=> Played(u)) BY <1>2, <1>8, Zenon DEF Played
    <3>. QED BY <2>1, <3>1, <3>2, Zenon DEF Calm, PlayedTogether
  <2>13. ToldRight'
    <3>1. ASSUME NEW d \in Clients, cl[d].pc = "play" PROVE pl'[NameOf[d]].enemy = pl[NameOf[d]].enemy
      <4>1. NameOf[d] \in Names BY RPSAssumption, Zenon
      <4>. QED BY <1>6, <4>1, Zenon
    <3>. QED BY <1>2, <2>1, <3>1, Zenon DEF Calm, ToldRight
  <2>. QED BY <1>19, <2>6, <2>8, <2>11, <2>12, <2>13, Zenon DEF Calm
<1>20. ASSUME ~upset' PROVE Unmatched' = Unmatched \cup {n} /\ n \notin Unmatched
  <2>1. pl[n].status = "PLAYING" BY <1>1, <1>2, <1>20, Zenon DEF SvrInv, Calm, ThreadsOK, n
  <2>2. \A x \in Registered : x # n => pl'[x] = pl[x] BY <1>6, <1>11
  <2>. QED BY <1>4, <1>6, <1>11, <2>1, <2>2, Zenon DEF Unmatched
<1>21. SvrBase' BY <1>10, <1>14, <1>15, <1>16, <1>17, <1>18, Zenon DEF SvrBase
<1>. QED BY <1>19, <1>20, <1>21, Zenon DEF SvrInv, n

\* What the invariant says of the MATCH lines.
LEMMA InvTold == SvrInv => ToldOfEachOther
<1>. SUFFICES ASSUME SvrInv, ~upset, NEW c \in Clients, cl[c].pc = "play"
              PROVE  /\ {matches[cl[c].told.id].p1, matches[cl[c].told.id].p2} = {NameOf[c], cl[c].told.enemy}
                     /\ cl[c].told.port
                     /\ \A d \in Clients : cl[d].pc = "play" /\ cl[d].told.id = cl[c].told.id =>
                            d = c \/ NameOf[d] = cl[c].told.enemy
  BY Zenon DEF ToldOfEachOther
<1>1. Calm BY Zenon DEF SvrInv
<1>2. ASSUME NEW d \in Clients, cl[d].pc = "play"
      PROVE  /\ \E t \in Threads : th[t].c = d /\ Owns(t)
             /\ {matches[cl[d].told.id].p1, matches[cl[d].told.id].p2} = {NameOf[d], cl[d].told.enemy}
             /\ cl[d].told.port
  <2>1. PICK t \in Threads : th[t].c = d /\ th[t].pc = "report" /\ th[t].m = cl[d].told.id
    BY <1>2, Zenon DEF SvrInv, SvrBase, PlayThread
  <2>2. Name(t) = NameOf[d] /\ Name(t) \in Registered BY <2>1, NameFacts, Zenon DEF Name
  <2>3. pl[NameOf[d]].status = "PLAYING" /\ pl[NameOf[d]].match_id = cl[d].told.id
    BY <1>1, <2>1, <2>2, Zenon DEF Calm, ThreadsOK
  <2>4. InMatch(NameOf[d]) BY <1>1, <2>2, <2>3, Zenon DEF Calm, RecordsOK
  <2>5. cl[d].told.enemy = pl[NameOf[d]].enemy /\ cl[d].told.port BY <1>1, <1>2, Zenon DEF Calm, ToldRight
  <2>6. {matches[pl[NameOf[d]].match_id].p1, matches[pl[NameOf[d]].match_id].p2}
            = {NameOf[d], pl[NameOf[d]].enemy}
    BY <2>4, Zenon DEF InMatch
  <2>7. Owns(t) BY <2>1, Zenon DEF Owns
  <2>. QED BY <2>1, <2>3, <2>5, <2>6, <2>7, Zenon
<1>3. ASSUME NEW d \in Clients, cl[d].pc = "play", cl[d].told.id = cl[c].told.id,
             NameOf[d] # cl[c].told.enemy
      PROVE  d = c
  <2>1. NameOf[d] \in {NameOf[c], cl[c].told.enemy} BY <1>2, <1>3, Zenon
  <2>2. NameOf[d] = NameOf[c] BY <1>3, <2>1, Zenon
  <2>3. PICK t \in Threads : th[t].c = d /\ Owns(t) BY <1>2, <1>3, Zenon
  <2>4. PICK u \in Threads : th[u].c = c /\ Owns(u) BY <1>2, Zenon
  <2>5. t = u BY <2>2, <2>3, <2>4, Zenon DEF SvrInv, SvrBase, OneThread, Name
  <2>. QED BY <2>3, <2>4, <2>5, Zenon
<1>. QED BY <1>2, <1>3, Zenon

\* What it says of the tables.
LEMMA InvPaired == SvrInv => Paired
  BY Zenon DEF SvrInv, SvrBase, Calm, Paired
=============================================================================
