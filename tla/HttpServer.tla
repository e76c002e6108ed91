----------------------------- MODULE HttpServer -----------------------------
(***************************************************************************)
(* The metrics server (main.c): one process that runs the events of        *)
(* libevent one after the other.  A connection has one request with a read *)
(* event, then a write event, and a timer; the answer is sent in as many   *)
(* pieces as the socket takes.                                             *)
(*                                                                         *)
(* A client writes a sequence of pieces: "part" of a request, or the last  *)
(* bytes of one ("get" for /metrics, "other", "upgrade", "stopme"), or     *)
(* bytes the parser refuses ("bad").  The header of an answer and a body   *)
(* are HeaderLen and BodyLen units long.                                   *)
(***************************************************************************)
EXTENDS Collectors

CONSTANTS
    Conns,          \* connections
    Scripts,        \* Scripts[c]: what a client may write
    Leavers,        \* clients that may close, read no more or meet a failing send
    Builds,         \* sets of collectors that may be compiled in
    HeaderLen, BodyLen,
    MaxBelow,       \* bound: how far failing sends move the counts below 0, and on
                    \* those that fail for a client that is there
    Room,           \* bsize of if_register, as a number of interfaces
    MaxOdds,        \* bound on the collectors that fail, the changes of the disks,
                    \* interfaces and pools, and SIGINT, together
    ObjSets         \* the sets that there may be of them, as sequences

VARIABLES
    srv,        \* "up", "stopping" after SIGINT, "exit", "crash", or "corrupt" after a use of freed memory
    req,        \* req[c]: struct req
    cli,        \* cli[c]: the client's side of the connection
    build,      \* the collectors of this server
    reg,        \* the registry
    bsize,      \* the size of the buffer of if_collect
    objs,       \* the disks, interfaces and pools of the machine
    fails, plugs

vars == <<srv, req, cli, build, reg, bsize, objs, fails, plugs>>
regvars == <<build, reg, bsize, objs, fails, plugs>>

NoReq == [st |-> "none", read |-> FALSE, write |-> FALSE, time |-> FALSE, done |-> FALSE,
          parser |-> "start", resp |-> "not_found", header |-> <<>>, header_sent |-> 0,
          body |-> Nil, body_sent |-> 0]

NoClient == [st |-> "none", in |-> <<>>, got |-> 0, failed |-> 0]

\* The machine is something to these collectors only.
Changing == build \cap {"disk", "if", "pools"} # {}

Init ==
    /\ srv = "up"
    /\ req = [c \in Conns |-> NoReq]
    /\ cli = [c \in Conns |-> NoClient]
    /\ build \in Builds
    /\ reg = registry_build(AllMetrics(build))
    /\ bsize = Room
    /\ objs \in (IF Changing THEN ObjSets ELSE {<<>>})
    /\ fails = 0 /\ plugs = 0

Serving == srv \in {"up", "stopping"}
Live(c) == req[c].st = "live"
Odd == fails + plugs + (IF srv = "stopping" THEN 1 ELSE 0) < MaxOdds

\* The process ends, and its memory with it.
End(how) ==
    /\ srv' = how
    /\ req' = [c \in Conns |-> NoReq]
    /\ cli' = [c \in Conns |-> NoClient]
    /\ reg' = registry_build({})

----------------------------------------------------------------------------
(* Clients and the machine *)

Connect(c) ==
    /\ Serving /\ cli[c].st = "none"
    /\ \E s \in Scripts[c] : cli' = [cli EXCEPT ![c].st = "open", ![c].in = s]
    /\ UNCHANGED <<srv, req, regvars>>

\* The client has written all it wants and still reads, it stays and reads no more,
\* or it is gone: what it has written and not been read is lost, recv and send fail.
\* (The first is of no account once all is read, the second before.)
Disconnect(c) ==
    /\ Serving /\ Live(c) /\ c \in Leavers
    /\ \/ /\ cli[c].st = "open" /\ req[c].read
          /\ cli' = [cli EXCEPT ![c].st = "half"]
       \/ /\ cli[c].st \in {"open", "half"} /\ req[c].write
          /\ cli' = [cli EXCEPT ![c].st = "deaf"]
       \/ /\ cli[c].st \in {"open", "half"}
          /\ cli' = [cli EXCEPT ![c].st = "gone", ![c].in = <<>>]
    /\ UNCHANGED <<srv, req, regvars>>

\* The disks, interfaces or pools change.
Hotplug ==
    /\ Serving /\ Odd
    /\ Changing
    /\ objs' \in ObjSets \ {objs}
    /\ plugs' = plugs + 1
    /\ UNCHANGED <<srv, req, cli, build, reg, bsize, fails>>

----------------------------------------------------------------------------
(* The callbacks of the parser; r is a request, g the state of the registry *)

header_size(r) == HeaderLen * Len(r.header)
body_size(r) == IF r.body = Nil THEN 0 ELSE BodyLen

send_err(r, status) == [r EXCEPT !.header = Append(@, status), !.done = TRUE]

\* What can happen to a scrape: nothing; no memory for the buffer or its stream, or
\* for the body, which ends the server; module mod comes no further than step at; or the machine changes to now after
\* step at of mod.  reused: what if_collect has freed is used again before it
\* writes there.
Whole == [kind |-> "whole"]
Modules == modops(build)
StepsOf(i) == Len(Mods(build, objs, objs, 0, 0)[i].groups)
Failures == {[kind |-> "nomem"], [kind |-> "nobody"]} \cup
    UNION {{[kind |-> "cut", mod |-> i, at |-> k] : k \in 0 .. StepsOf(i) - 1} : i \in DOMAIN Modules}
Changes ==
    UNION {{[kind |-> "change", mod |-> i, at |-> k, now |-> os] : k \in 1 .. StepsOf(i) - 1, os \in ObjSets \ {objs}} :
             i \in {j \in DOMAIN Modules : Modules[j] \in {"disk", "if", "pools"}}}

MayGrow == "if" \in build /\ \E os \in ObjSets : Len(os) > bsize

\* One of the scrapes that the pieces ask for, at most, is not whole.
Fates(toks) ==
    LET ask == {i \in DOMAIN toks : toks[i] \in {"get", "other", "upgrade"}}
        all == [i \in DOMAIN toks |-> Whole]
    IN  {all} \cup (IF Odd THEN {[all EXCEPT ![i] = d] : i \in ask, d \in Failures \cup Changes} ELSE {})

\* registry_collect for the request of o, which then has its answer.
metrics_answer(o, ch, mods, done, saw) ==
    LET failed == {Modules[i] : i \in {j \in DOMAIN mods : done[j] < Len(mods[j].groups)}}
        reg1 == registry_collect(o.reg, mods, done)
        at == {i \in DOMAIN mods : Modules[i] = "if" /\ Grown(o.bsize, saw["if"].was, done[i])}
        reg2 == IF at # {} /\ o.reused THEN [reg1 EXCEPT !["if"].bad = TRUE] ELSE reg1
    IN  [o EXCEPT !.req.header = Append(@, "200"), !.req.done = TRUE,
                  !.req.body = [print |-> print_registry(reg2), saw |-> saw, failed |-> failed],
                  !.reg = reg2, !.on = @ /\ ~Broken(reg2),
                  !.bsize = IF at # {} THEN Len(saw["if"].was) ELSE @,
                  !.objs = IF ch.kind = "change" THEN ch.now ELSE @,
                  !.fails = IF failed # {} THEN @ + 1 ELSE @]

Scrape(o, ch) ==
    LET k == IF ch.kind = "change" THEN ch.mod ELSE 0
        now == IF ch.kind = "change" THEN ch.now ELSE o.objs
        mods == Mods(build, o.objs, now, k, IF k = 0 THEN 0 ELSE ch.at)
        done == [i \in DOMAIN mods |-> IF ch.kind = "cut" /\ ch.mod = i THEN ch.at ELSE mods[i].most]
        saw == [m \in build |-> LET i == CHOOSE j \in DOMAIN mods : Modules[j] = m
                                IN  [was |-> IF i <= k THEN o.objs ELSE now,
                                     now |-> IF i < k THEN o.objs ELSE now]]
    IN  metrics_answer(o, ch, mods, done, saw)

\* on_url and on_message_complete for one piece of input; resp is never reset.
\* o holds the request, the registry and whether the parser goes on.
on_message_complete(o, tok, ch) ==
    LET q == [o EXCEPT !.req.resp = IF tok = "get" THEN "metrics" ELSE @, !.req.parser = "start",
                       !.on = tok # "upgrade"]
    IN  IF q.req.resp = "not_found" THEN [q EXCEPT !.req = send_err(@, "404")]
        ELSE IF ch.kind = "nomem" THEN [q EXCEPT !.req = send_err(@, "500"), !.fails = @ + 1]
        ELSE IF ch.kind = "nobody" THEN [q EXCEPT !.on = FALSE, !.stop = TRUE, !.fails = @ + 1]
        ELSE Scrape(q, ch)

http_parser_execute(o, tok, ch) ==
    IF ~o.on THEN o
    ELSE CASE tok = "part"   -> [o EXCEPT !.req.parser = "mid"]
           [] tok = "bad"    -> [o EXCEPT !.on = FALSE]
           [] tok = "stopme" -> [o EXCEPT !.on = FALSE, !.stop = TRUE]
           [] OTHER          -> on_message_complete(o, tok, ch)

----------------------------------------------------------------------------
(* The events *)


NewReqNoTimer == [NoReq EXCEPT !.st = "live", !.read = TRUE]
Accepted == [NoReq EXCEPT !.st = "live", !.read = TRUE, !.time = TRUE]

\* accept4 fails: in the two cases that are only logged the code goes on with -1
\* as its descriptor, and fcntl fails on it.
event_accept(c) ==
    /\ srv = "up" /\ req[c].st = "none" /\ cli[c].st = "open"
    /\ \/ /\ req' = [req EXCEPT ![c] = Accepted]
          /\ UNCHANGED <<srv, cli, reg>>
       \/ End("exit")
    /\ UNCHANGED <<build, bsize, objs, fails, plugs>>

\* The read event is replaced by the write event.
ReadDone(r) == [r EXCEPT !.read = FALSE, !.write = TRUE, !.done = TRUE]

\* recv gets some of what there is, and the parser runs over all of it.  A recv
\* that would block changes nothing.
event_read(c) ==
    /\ Serving /\ req[c].read /\ cli[c].in # <<>>
    /\ \E n \in 1 .. Len(cli[c].in) : \E ch \in Fates(SubSeq(cli[c].in, 1, n)),
         reused \in (IF MayGrow THEN BOOLEAN ELSE {FALSE}) :
         LET o == FoldLeft(LAMBDA x, i : http_parser_execute(x, cli[c].in[i], ch[i]),
                           [req |-> req[c], reg |-> reg, bsize |-> bsize, objs |-> objs,
                            fails |-> fails, reused |-> reused, on |-> TRUE, stop |-> FALSE],
                           [i \in 1 .. n |-> i])
         IN  /\ \/ o.stop /\ End("exit")
                \/ ~o.stop /\ Broken(o.reg) /\ End("corrupt")
                \/ /\ ~o.stop /\ ~Broken(o.reg)
                   /\ IF o.req.done \/ ~o.on
                      THEN /\ req' = [req EXCEPT ![c] = ReadDone(o.req)]
                           /\ cli' = [cli EXCEPT ![c].in = <<>>]
                      ELSE /\ req' = [req EXCEPT ![c] = o.req]
                           /\ cli' = [cli EXCEPT ![c].in = SubSeq(@, n + 1, Len(@))]
                   /\ reg' = o.reg
                   /\ UNCHANGED srv
             /\ bsize' = o.bsize /\ objs' = o.objs /\ fails' = o.fails
             /\ plugs' = IF o.objs = objs THEN plugs ELSE plugs + 1
    /\ UNCHANGED build

\* The end of the stream in the middle of a message, or an error of recv.  At
\* the end between two messages nothing happens: the timer will end it.
event_read_eof(c) ==
    /\ Serving /\ req[c].read /\ cli[c].in = <<>>
    /\ \/ cli[c].st = "half" /\ req[c].parser = "mid"
       \/ cli[c].st = "gone"
    /\ req' = [req EXCEPT ![c] = ReadDone(@)]
    /\ UNCHANGED <<srv, cli, regvars>>

\* The request is freed and its connection closed.
free_req(c) ==
    /\ req' = [req EXCEPT ![c] = [NoReq EXCEPT !.st = "freed"]]
    /\ cli' = [cli EXCEPT ![c] = [NoClient EXCEPT !.st = "closed"]]

HeaderSent(r) == r.done /\ r.header_sent >= header_size(r)

AllSent(r) ==
    r.done /\ body_size(r) - r.body_sent + header_size(r) - r.header_sent <= 0

\* What the client has after a send that returned n.
Takes(k, n) ==
    IF n > 0 THEN [k EXCEPT !.got = @ + n]
    ELSE [k EXCEPT !.failed = IF k.st = "gone" THEN @ ELSE @ + 1]

\* One send for the header or for the body, when the socket takes something or the
\* client is gone; the -1 of one that fails is added like any other result.
event_write(c) ==
    LET r == [req[c] EXCEPT !.time = FALSE]
        hleft == header_size(r) - r.header_sent
        bleft == body_size(r) - r.body_sent
        sends(left) == IF cli[c].st = "gone" THEN {-1}
                       ELSE 1 .. left \cup (IF c \in Leavers /\ cli[c].failed < MaxBelow THEN {-1} ELSE {})
    IN  /\ Serving /\ req[c].write /\ cli[c].st # "deaf"
        /\ \/ /\ hleft > 0
              /\ \E n \in sends(hleft) :
                   /\ req' = [req EXCEPT ![c] = [r EXCEPT !.header_sent = IF @ + n < -MaxBelow THEN @ ELSE @ + n]]
                   /\ cli' = [cli EXCEPT ![c] = Takes(@, n)]
           \/ /\ hleft <= 0 /\ bleft > 0
              /\ \E n \in sends(bleft) :
                   /\ req' = [req EXCEPT ![c] = [r EXCEPT !.body_sent = IF @ + n < -MaxBelow THEN @ ELSE @ + n]]
                   /\ cli' = [cli EXCEPT ![c] = Takes(@, n)]
           \/ /\ hleft <= 0 /\ AllSent(r)
              /\ free_req(c)
        /\ UNCHANGED <<srv, regvars>>

\* The timer: event_del of a read event that is gone is a null pointer.
event_free(c) ==
    /\ Serving /\ req[c].time
    /\ \/ /\ req[c].read
          /\ free_req(c)
          /\ UNCHANGED <<srv, reg>>
       \/ ~req[c].read /\ End("crash")
    /\ UNCHANGED <<build, bsize, objs, fails, plugs>>

\* SIGINT, and the end of the loop 30 seconds after it.
reactor_destroy == srv = "up" /\ Odd /\ srv' = "stopping" /\ UNCHANGED <<req, cli, regvars>>
loopexit == srv = "stopping" /\ End("exit") /\ UNCHANGED <<build, bsize, objs, fails, plugs>>

----------------------------------------------------------------------------
Next ==
    \/ \E c \in Conns :
         \/ Connect(c) \/ Disconnect(c)
         \/ event_accept(c) \/ event_read(c) \/ event_read_eof(c)
         \/ event_write(c) \/ event_free(c)
    \/ Hotplug \/ reactor_destroy \/ loopexit

\* event_dispatch runs the events that are ready, and timers when they are due: the
\* socket of a client that reads takes more sooner or later.  Nothing is assumed of
\* when a client's bytes are read, nor of a client that reads no more.
Fairness ==
    /\ \A c \in Conns : WF_vars(event_write(c)) /\ WF_vars(event_free(c))
    /\ WF_vars(loopexit)

Spec == Init /\ [][Next]_vars /\ Fairness

----------------------------------------------------------------------------
(* Properties *)

TypeOK ==
    /\ srv \in {"up", "stopping", "exit", "crash", "corrupt"}
    /\ \A c \in Conns :
         /\ req[c].st \in {"none", "live", "freed"}
         /\ req[c].header_sent \in -MaxBelow .. header_size(req[c])
         /\ req[c].body_sent \in -MaxBelow .. body_size(req[c])
         /\ Live(c) => req[c].read # req[c].write
    /\ \A n \in DOMAIN reg : reg[n].fresh \subseteq Labels /\ reg[n].values \subseteq Labels

\* The labels that a collector sets for one of its metrics when nothing fails.
Current(m, n, os) ==
    LET gs == Collector(m, os, os, 0).groups
    IN  UNION {{gs[i][j].label : j \in {k \in DOMAIN gs[i] : gs[i][k].metric = n}} : i \in DOMAIN gs}

\* The values that can be reached from the head of a metric's list.
Listed(m) ==
    LET steps == FoldLeft(LAMBDA s, i : IF Last(s) = Nil THEN s ELSE Append(s, m.next[Last(s)]),
                          <<m.head>>, [i \in 1 .. Cardinality(Labels) + 1 |-> i])
    IN  SelectSeq(steps, LAMBDA x : x # Nil)

\* As long as no collector has failed, the list of every metric holds exactly the
\* values that are not updated, each of them once and alive, so that LIST_REMOVE
\* and the clearing never touch another one.
ListIsOld ==
    fails = 0 => \A n \in DOMAIN reg :
        LET m == reg[n]
        IN  /\ ToSet(Listed(m)) = {x \in m.values : ~m.updated[x]}
            /\ IsInjective(Listed(m))

\* The body of an answer has, for every collector that did not fail in this
\* scrape, one fresh value for each thing that the machine has and none for a thing
\* it has no more, whatever earlier scrapes have left in the registry, as long as
\* these have not made the server use freed memory.  Where the machine changes
\* while the collector runs, each value is of a thing that it had or has, or has no
\* name: that of a disk which went between the two sysctls of disk_collect
\* (registry_collect, metric_update, metric_clear_old_values).
ScrapeExact ==
    TypeOK /\ ListIsOld /\ \A c \in Conns : Live(c) /\ req[c].body # Nil =>
        LET b == req[c].body
        IN  \A m \in build \ b.failed : \A n \in Register(m) :
              LET was == Current(m, n, b.saw[m].was)
                  now == Current(m, n, b.saw[m].now)
                  unnamed == IF m = "disk" /\ Cardinality(now) < Cardinality(was) THEN {0} ELSE {}
              IN  /\ was \cap now \subseteq b.print[n].values
                  /\ b.print[n].values \subseteq was \cup now \cup unnamed
                  /\ m \in {"disk", "if"} => b.print[n].values = now \cup unnamed
                  /\ b.print[n].fresh = b.print[n].values

\* A request is freed before anything of its answer was sent, by the timer, or
\* when its client has all of it: a short send never ends it, and one that fails
\* makes the next one start a byte too early, so that the client has a byte more
\* than the answer for each of them.
FreedWhole ==
    [][\A c \in Conns : Live(c) /\ req'[c].st = "freed" =>
         \/ req[c].read /\ cli[c].got = 0
         \/ cli[c].st = "gone" /\ cli[c].got = 0
         \/ cli[c].got = header_size(req[c]) + body_size(req[c]) + cli[c].failed]_vars

\* Every connection that is accepted ends, answered in full, refused, or by the
\* timer, unless its client is gone or reads no more when there is still something
\* to send: the first event_write deletes the timer, and nothing else ends it then.
Served ==
    \A c \in Conns :
        Live(c) ~> ~Live(c) \/ (cli[c].st \in {"gone", "deaf"} /\ req[c].write) \/ ~Serving
=============================================================================
