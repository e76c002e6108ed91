------------------------------- MODULE Pfexec -------------------------------
(***************************************************************************)
(* pfexec: processes that run the pfexec command, the system call that     *)
(* each of them makes, and the daemon that the calls are put to.           *)
(***************************************************************************)
EXTENDS PfexecKern, Pfexecd

vars == <<sock, daemon, kvars, dvars>>

Init ==
    /\ sock = [p \in Procs |-> NoSock] /\ daemon = "down"
    /\ KInit /\ DInit

\* A step of the kernel or of the daemon; none is taken after a panic.
Kern == ~panic /\ UNCHANGED dvars
Daemon == ~panic /\ UNCHANGED kvars

Next ==
    \/ \E p \in Procs :
         \/ Command(p) /\ Kern
         \/ Interrupt(p) /\ Kern
         \/ Resume(p) /\ Kern
         \/ pfexec_exec(p) /\ Kern
         \/ taskq_destroy(p) /\ Kern
         \/ start_sock(p) /\ Kern
         \/ end_sock(p) /\ Kern
         \/ on_lsock_acceptable(p) /\ Daemon
         \/ on_client_readable(p) /\ Daemon
    \/ Bind /\ Daemon
    \/ Configure /\ Daemon
    \/ Stop /\ Daemon

\* The kernel runs its tasks and the callers it has woken; the daemon, once it
\* is started, parses its file and dispatches its events.
Fairness ==
    /\ \A p \in Procs :
         /\ WF_vars(Kern /\ (start_sock(p) \/ end_sock(p)))
         /\ WF_vars(Kern /\ (Resume(p) \/ pfexec_exec(p) \/ taskq_destroy(p)))
         /\ WF_vars(Daemon /\ (on_lsock_acceptable(p) \/ on_client_readable(p)))
    /\ WF_vars(Daemon /\ Configure)

Spec == Init /\ [][Next]_vars /\ Fairness

----------------------------------------------------------------------------
(* What the configuration promises, written without the code's loops.       *)

\* pfexecd.conf(5): a rule is about the requests of its user for its target, its
\* command and, where it has any, for its arguments, which need to match.
Applies(req, r) ==
    /\ uidcheck(r.ident, req.uid)
    /\ r.target # None => uidcheck(r.target, TargetUid(req))
    /\ r.cmd # None => r.cmd = req.path /\ (r.cmdargs # None => Tail(req.argv) = r.cmdargs)

\* The daemon compares the words of a rule with those of a request only up to the
\* length of the latter: a request may shorten the words of a rule and leave out
\* the last one.
Shortens(req, r) ==
    LET words == Tail(req.argv)
    IN  /\ r.cmdargs # None /\ words # r.cmdargs
        /\ Len(words) \in {Len(r.cmdargs) - 1, Len(r.cmdargs)}
        /\ \A i \in DOMAIN words : IsPrefix(words[i], r.cmdargs[i])

\* Req with the words that the rule has in place of those that shorten them.
InFull(req, r) ==
    IF Shortens(req, r) THEN [req EXCEPT !.argv = <<Head(@)>> \o r.cmdargs] ELSE req

\* The index of the rule that decides, the last one about the request, 0 when
\* there is none.
Deciding(req) ==
    LET m == {i \in DOMAIN conf : Applies(InFull(req, Rule(conf[i])), Rule(conf[i]))}
    IN  IF m = {} THEN 0 ELSE CHOOSE i \in m : \A j \in m : j <= i

\* The groups of the new process: the caller's, those that the rule lists, or the
\* target's own.
GroupsGiven(req, r) ==
    IF "keepgroups" \in r.options /\ req.groups # <<>> THEN Range(req.groups)
    ELSE IF "keepgroups" \notin r.options /\ r.grplist # None
    THEN {IdOf(g, GrGid) : g \in {x \in Range(r.grplist) : Known(x, GrGid)}}
    ELSE Range(PwEnt[TargetUid(req)].groups)

PrimaryGiven(req, r) ==
    IF "keepgroups" \in r.options THEN req.gid
    ELSE IF r.grplist # None /\ Known(r.grplist[1], GrGid) THEN IdOf(r.grplist[1], GrGid)
    ELSE PwEnt[TargetUid(req)].gid

\* craft_response leaves 0 in the place of a group that is not known, and
\* get_groups in that of a group listed twice.
LeavesZero(req, r) ==
    \/ r.grplist # None /\ \E g \in Range(r.grplist) : ~Known(g, GrGid)
    \/ LET g == PwEnt[TargetUid(req)].groups IN \E i \in 2 .. Len(g) : g[i] = g[i - 1]

\* A variable of the environment: the last word of setenv about it, else the
\* target's value, else the caller's where it is kept.
EnvValue(req, r, n) ==
    LET about == IF r.envlist = None THEN {}
                 ELSE {i \in DOMAIN r.envlist : r.envlist[i].name = n}
        it == r.envlist[CHOOSE i \in about : \A j \in about : j <= i]
    IN  CASE about # {} /\ it.how = "del"  -> None
          [] about # {} /\ it.how = "set"  -> it.val
          [] about # {} /\ it.how = "copy" -> get_my_env(it.val, req.env)
          [] about # {} /\ it.how = "keep" -> get_my_env(n, req.env)
          [] about = {} /\ n = "PFEXEC_USER" -> r.ident
          [] about = {} /\ n \in {"LOGNAME", "USER"} -> PwEnt[TargetUid(req)].name
          [] about = {} /\ n = "HOME" -> PwEnt[TargetUid(req)].dir
          [] about = {} /\ n = "SHELL" -> PwEnt[TargetUid(req)].shell
          [] OTHER -> IF n \in {"DISPLAY", "TERM"} \/ "keepenv" \in r.options
                      THEN get_my_env(n, req.env) ELSE None


\* A call that returns an error, or that has not been answered yet, has changed
\* nothing of its process; an answer is never taken for granted: a caller that
\* is woken without an error has its response (sys_pfexecve, start_sock).
ErrorChangesNothing ==
    \A p \in Procs :
        LET c == call[p]
        IN  /\ c.ret # "ok" \/ c.pc \in {"sleep", "woken"} =>
                   /\ c.image = "old" /\ c.root = None /\ c.flags = {}
                   /\ c.req # None => c.creds = Ids(c.req.uid, c.req.gid, c.req.groups)
            /\ c.pc \in {"woken", "exec"} /\ c.errno = "ok" => c.resp # None

\* The structure that the tasks work on is on the stack of the call: when the
\* call has returned no task is left, and its connection is not left open
\* (sys_pfexecve, end_sock).
StackOutlivesTasks ==
    \A p \in Procs :
        call[p].pc = "done" => tasks[p] = <<>> /\ step[p] = "idle" /\ sock[p].kern # "open"

\* Every call that sleeps comes to an end, whatever happens to the daemon, and
\* the client that the daemon keeps for it goes too.
CallsReturn ==
    \A p \in Procs :
        call[p].pc = "sleep" ~>
            (call[p].pc \in {"done", "killed"} /\ p \notin clients) \/ panic

----------------------------------------------------------------------------
(* Why StackOutlivesTasks and ErrorChangesNothing hold. *)

IsCall(c) == c = [f \in {"pc", "req", "so", "resp", "errno", "ret", "image", "env", "root",
                         "flags", "held", "fds", "creds"} |-> c[f]]

IsSock(s) == s = [f \in {"kern", "peer", "req", "resp"} |-> s[f]]

PfTypeOK ==
    /\ call = [p \in Procs |-> call[p]] /\ \A p \in Procs : IsCall(call[p])
    /\ sock = [p \in Procs |-> sock[p]] /\ \A p \in Procs : IsSock(sock[p])
    /\ tasks \in [Procs -> {<<>>, <<"start">>, <<"end">>}]
    /\ step \in [Procs -> {"idle", "send", "rcv"}]

\* The queue has one task at a time, and the connection is open only while one
\* of the two is there to close it.
QueueInv(p) ==
    /\ step[p] # "idle" => tasks[p] = <<"start">>
    /\ sock[p].kern = "open" => step[p] # "idle" \/ tasks[p] = <<"end">>
    /\ call[p].pc \in {"shell", "done"} => tasks[p] = <<>>
    /\ tasks[p] = <<"start">> => call[p].pc \in {"sleep", "destroy"}
    /\ tasks[p] = <<"end">> => call[p].pc # "sleep"

\* Before its answer the process is as it was, and ret is set last.
CallInv(c) ==
    /\ c.pc = "shell" =>
         /\ c.req = None /\ c.image = "old" /\ c.root = None /\ c.flags = {}
         /\ c.creds = Ids(c.creds.uid, c.creds.gid, c.creds.groups)
    /\ c.pc \in {"shell", "sleep", "woken", "exec", "killed"} => c.ret = "ok"

PfInv ==
    /\ PfTypeOK /\ ErrorChangesNothing
    /\ \A p \in Procs : QueueInv(p) /\ CallInv(call[p])
=============================================================================
