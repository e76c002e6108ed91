---------------------------- MODULE PfexecProofs ----------------------------
(***************************************************************************)
(* A call of pfexecve leaves no task behind and an error of it changes     *)
(* nothing, for any number of processes, any commands, any configuration   *)
(* and any number of starts of the daemon.                                 *)
(***************************************************************************)
EXTENDS Pfexec, TLAPS

Domains == /\ call = [p \in Procs |-> call[p]] /\ sock = [p \in Procs |-> sock[p]]
           /\ tasks = [p \in Procs |-> tasks[p]] /\ step = [p \in Procs |-> step[p]]

\* ErrorChangesNothing of one call.
Unharmed(c) ==
    /\ c.ret # "ok" \/ c.pc \in {"sleep", "woken"} =>
           /\ c.image = "old" /\ c.root = None /\ c.flags = {}
           /\ c.req # None => c.creds = Ids(c.req.uid, c.req.gid, c.req.groups)
    /\ c.pc \in {"woken", "exec"} /\ c.errno = "ok" => c.resp # None

\* All that PfInv says of one process.
Good(c, s, t, st) ==
    /\ IsCall(c) /\ IsSock(s) /\ t \in {<<>>, <<"start">>, <<"end">>} /\ st \in {"idle", "send", "rcv"}
    /\ st # "idle" => t = <<"start">>
    /\ s.kern = "open" => st # "idle" \/ t = <<"end">>
    /\ c.pc \in {"shell", "done"} => t = <<>>
    /\ t = <<"start">> => c.pc \in {"sleep", "destroy"}
    /\ t = <<"end">> => c.pc # "sleep"
    /\ CallInv(c) /\ Unharmed(c)

\* PfInv, process by process.
LEMMA ByProcess ==
    PfInv <=> Domains /\ \A p \in Procs : Good(call[p], sock[p], tasks[p], step[p])
BY Zenon DEF PfInv, PfTypeOK, ErrorChangesNothing, Unharmed, QueueInv, Good, Domains

\* The same in the next state.
LEMMA ByProcessNext ==
    PfInv' <=> Domains' /\ \A p \in Procs : Good(call[p]', sock[p]', tasks[p]', step[p]')
BY Zenon DEF PfInv, PfTypeOK, ErrorChangesNothing, Unharmed, QueueInv, Good, Domains

\* A step of one process keeps what is said of the others.
LEMMA OneProcess ==
    ASSUME PfInv, NEW p \in Procs, NEW c, NEW s, NEW t, NEW st, Good(c, s, t, st),
           call' = [call EXCEPT ![p] = c], sock' = [sock EXCEPT ![p] = s],
           tasks' = [tasks EXCEPT ![p] = t], step' = [step EXCEPT ![p] = st]
    PROVE  PfInv'
<1>1. Domains /\ \A q \in Procs : Good(call[q], sock[q], tasks[q], step[q])
  BY ByProcess, Zenon
<1>2. Domains'
  BY <1>1, Zenon DEF Domains
<1>3. \A q \in Procs : /\ call'[q] = IF q = p THEN c ELSE call[q]
                       /\ sock'[q] = IF q = p THEN s ELSE sock[q]
                       /\ tasks'[q] = IF q = p THEN t ELSE tasks[q]
                       /\ step'[q] = IF q = p THEN st ELSE step[q]
  BY <1>1, Zenon DEF Domains
<1>4. \A q \in Procs : Good(call[q]', sock[q]', tasks[q]', step[q]')
  BY <1>1, <1>3
<1> QED BY <1>2, <1>4, ByProcessNext, Zenon

\* What stays the same is replaced by itself.
LEMMA Same ==
    ASSUME PfInv, NEW p \in Procs
    PROVE  /\ call = [call EXCEPT ![p] = call[p]] /\ sock = [sock EXCEPT ![p] = sock[p]]
           /\ tasks = [tasks EXCEPT ![p] = tasks[p]] /\ step = [step EXCEPT ![p] = step[p]]
           /\ Good(call[p], sock[p], tasks[p], step[p])
BY ByProcess, Zenon DEF Domains

----------------------------------------------------------------------------
(* The call. *)

\* The pfexec command, up to the sleep of the call.
LEMMA CommandInv ==
    ASSUME PfInv, NEW p \in Procs, Command(p)
    PROVE  PfInv'
<1>0. Good(call[p], sock[p], tasks[p], step[p]) /\ Domains
  BY Same, ByProcess, Zenon
<1>1. call[p].pc = "shell" /\ tasks[p] = <<>> /\ step[p] = "idle" /\ sock[p].kern # "open"
  BY <1>0 DEF Command, Good
<1>2. sock' = [sock EXCEPT ![p] = sock[p]] /\ step' = [step EXCEPT ![p] = step[p]]
  BY Same, Zenon DEF Command
<1>3. PICK k \in Commands[p] :
        IF Opts(k) = None
        THEN call' = [call EXCEPT ![p].pc = "done", ![p].ret = "exit"] /\ UNCHANGED tasks
        ELSE sys_pfexecve(p, fill_mbuf(call[p].creds, Opts(k)))
  BY Zenon DEF Command
<1>4. CASE Opts(k) = None
  <2> DEFINE c == [call[p] EXCEPT !.pc = "done", !.ret = "exit"]
  <2>1. call' = [call EXCEPT ![p] = c] /\ tasks' = [tasks EXCEPT ![p] = tasks[p]]
    BY <1>0, <1>3, <1>4, Same, Zenon DEF Domains
  <2>2. Good(c, sock[p], tasks[p], step[p])
    BY <1>0, <1>1, Zenon DEF Good, IsCall, CallInv, Unharmed
  <2> QED BY <1>2, <2>1, <2>2, OneProcess, Zenon
<1>5. CASE Opts(k) # None
  <2> DEFINE req == fill_mbuf(call[p].creds, Opts(k))
             c == [call[p] EXCEPT !.pc = "sleep", !.req = req]
             d == [call[p] EXCEPT !.pc = "done", !.req = req, !.errno = "ENOMEM"]
  <2>1. \/ call' = [call EXCEPT ![p] = c] /\ tasks' = [tasks EXCEPT ![p] = <<"start">>]
        \/ call' = [call EXCEPT ![p] = d] /\ tasks' = [tasks EXCEPT ![p] = tasks[p]]
    BY <1>0, <1>3, <1>5, Same, Zenon DEF Domains, sys_pfexecve
  <2>2. call[p].creds = Ids(req.uid, req.gid, req.groups)
    BY <1>0, <1>1, Zenon DEF Good, CallInv, fill_mbuf
  <2> HIDE DEF req
  <2>3. Good(c, sock[p], <<"start">>, step[p])
    BY <1>0, <1>1, <2>2, Zenon DEF Good, IsCall, CallInv, Unharmed
  <2>4. Good(d, sock[p], tasks[p], step[p])
    BY <1>0, <1>1, Zenon DEF Good, IsCall, CallInv, Unharmed
  <2>5. CASE call' = [call EXCEPT ![p] = c] /\ tasks' = [tasks EXCEPT ![p] = <<"start">>]
    <3> HIDE DEF c
    <3> QED BY <1>2, <2>3, <2>5, OneProcess, Zenon
  <2>6. CASE call' = [call EXCEPT ![p] = d] /\ tasks' = [tasks EXCEPT ![p] = tasks[p]]
    <3> HIDE DEF d
    <3> QED BY <1>2, <2>4, <2>6, OneProcess, Zenon
  <2> QED BY <2>1, <2>5, <2>6, Zenon
<1> QED BY <1>4, <1>5, Zenon

\* A signal at the sleep: the call returns EINTR and has changed nothing.
LEMMA InterruptInv ==
    ASSUME PfInv, NEW p \in Procs, Interrupt(p)
    PROVE  PfInv'
<1> DEFINE c == [call[p] EXCEPT !.pc = "destroy", !.ret = "EINTR", !.resp = None]
<1>0. Good(call[p], sock[p], tasks[p], step[p]) /\ Domains
  BY Same, ByProcess
<1>1. /\ call' = [call EXCEPT ![p] = c] /\ sock' = [sock EXCEPT ![p] = sock[p]]
      /\ tasks' = [tasks EXCEPT ![p] = tasks[p]] /\ step' = [step EXCEPT ![p] = step[p]]
  BY <1>0, Same, Zenon DEF Interrupt, Domains
<1>2. Good(c, sock[p], tasks[p], step[p])
  BY <1>0, Zenon DEF Good, IsCall, CallInv, Unharmed, Interrupt
<1> QED BY <1>1, <1>2, OneProcess, Zenon

\* The call after its sleep: an error ends it unchanged, an answer gives it new
\* credentials.
LEMMA ResumeInv ==
    ASSUME PfInv, NEW p \in Procs, Resume(p)
    PROVE  PfInv'
<1> DEFINE ret == IF call[p].errno # "ok" THEN call[p].errno ELSE process_response(call[p].resp)
           c == [call[p] EXCEPT !.pc = "destroy", !.ret = ret, !.resp = None]
           d == [pfexec_escilate(call[p]) EXCEPT !.pc = "exec"]
<1>0. Good(call[p], sock[p], tasks[p], step[p]) /\ call[p].pc = "woken"
  BY Same, Zenon DEF Resume
<1>1. /\ call' = [call EXCEPT ![p] = IF ret # "ok" THEN c ELSE d]
      /\ sock' = [sock EXCEPT ![p] = sock[p]]
      /\ tasks' = [tasks EXCEPT ![p] = tasks[p]] /\ step' = [step EXCEPT ![p] = step[p]]
  BY Same, Zenon DEF Resume
<1>2. call[p].errno # "ok" \/ ret # "ok" \/ call[p].resp # None
  BY <1>0, Zenon DEF Good, Unharmed
<1>3. ret = "ok" => call[p].errno = "ok"
  BY Zenon
<1> HIDE DEF ret
<1>4. Good(c, sock[p], tasks[p], step[p])
  BY <1>0, ZenonT(40) DEF Good, IsCall, CallInv, Unharmed
<1>5. ret = "ok" => Good(d, sock[p], tasks[p], step[p])
  BY <1>0, <1>2, <1>3, Zenon DEF Good, IsCall, CallInv, Unharmed, pfexec_escilate
<1> QED BY <1>1, <1>4, <1>5, OneProcess, Zenon

\* sys_execve touches neither ret nor the shape of the structure.
LEMMA ExecKeeps ==
    ASSUME NEW x, NEW f, NEW env, IsCall(x), NEW c \in sys_execve(x, f, env)
    PROVE  IsCall(c) /\ c.ret = x.ret /\ c.pc \in {x.pc, "killed"}
<1> DEFINE in == [x EXCEPT !.flags = @ \cup {"INEXEC"}]
           out(y) == [y EXCEPT !.flags = @ \ {"INEXEC"}]
           Keeps(y) == IsCall(y) /\ y.ret = x.ret /\ y.pc = x.pc
<1>1. Keeps(in)
  BY Zenon DEF IsCall
<1>2. \A y : Keeps(y) => Keeps(out(y))
  BY Zenon DEF IsCall
<1>3. \A y : Keeps(y) => Keeps(Commit(y, env))
  BY ZenonT(40) DEF IsCall, Commit
<1>4. \A y : Keeps(y) => Keeps(SetIds(y, f))
  <2> SUFFICES ASSUME NEW y, Keeps(y) PROVE Keeps(SetIds(y, f))
    BY Zenon
  <2>1. CASE SetId(f) = {} \/ ~proc_cansugid(y)
    BY <2>1, Zenon DEF IsCall, SetIds
  <2>2. CASE ~(SetId(f) = {} \/ ~proc_cansugid(y))
    <3> DEFINE y1 == [y EXCEPT !.flags = @ \cup {"SUGID", "SUGIDEXEC"}]
               y2 == [y1 EXCEPT !.creds.uid = IF "suid" \in SetId(f) THEN f.uid ELSE @]
               y3 == [y2 EXCEPT !.creds.gid = IF "sgid" \in SetId(f) THEN f.gid ELSE @]
               y4 == [y3 EXCEPT !.fds = {0, 1, 2}]
    <3>1. Keeps(y1)
      BY Zenon DEF IsCall
    <3>2. Keeps(y2)
      <4> HIDE DEF y1
      <4> QED BY <3>1, Zenon DEF IsCall
    <3>3. Keeps(y3)
      <4> HIDE DEF y2
      <4> QED BY <3>2, Zenon DEF IsCall
    <3>4. Keeps(y4)
      <4> HIDE DEF y3
      <4> QED BY <3>3, Zenon DEF IsCall
    <3>5. SetIds(y, f) = y4
      BY <2>2, ZenonT(40) DEF SetIds
    <3> QED BY <3>4, <3>5, Zenon
  <2> QED BY <2>1, <2>2, Zenon
<1>5. \A y : Keeps(y) => Keeps(SaveIds(y))
  BY ZenonT(40) DEF IsCall, SaveIds
<1>6. Keeps(out(SaveIds(SetIds(Commit(in, env), f))))
  <2> HIDE DEF Keeps, in, out
  <2> QED BY <1>1, <1>2, <1>3, <1>4, <1>5, Zenon
<1>7. IsCall(Abort(in)) /\ Abort(in).ret = x.ret /\ Abort(in).pc = "killed"
  BY <1>1, Zenon DEF IsCall, Abort
<1>8. Keeps(out(in))
  BY <1>1, <1>2, Zenon
<1>9. c \in {out(in), out(SaveIds(SetIds(Commit(in, env), f))), Abort(in)}
  BY Zenon DEF sys_execve
<1> HIDE DEF in, out
<1> QED BY <1>6, <1>7, <1>8, <1>9, Zenon

\* The call from sys_execve to taskq_destroy: whatever it has become, it returns 0.
LEMMA ExecInv ==
    ASSUME PfInv, NEW p \in Procs, pfexec_exec(p)
    PROVE  PfInv'
<1>0. Good(call[p], sock[p], tasks[p], step[p]) /\ call[p].pc = "exec"
  BY Same, Zenon DEF pfexec_exec
<1>1. /\ sock' = [sock EXCEPT ![p] = sock[p]]
      /\ tasks' = [tasks EXCEPT ![p] = tasks[p]] /\ step' = [step EXCEPT ![p] = step[p]]
  BY Same, Zenon DEF pfexec_exec
<1>2. PICK c \in sys_execve(call[p], Execs[call[p].req.path], call[p].resp.env) :
        IF c.pc = "killed" THEN call' = [call EXCEPT ![p] = c]
        ELSE \E d \in NewRoot(c) :
                call' = [call EXCEPT ![p] = [d EXCEPT !.pc = "destroy", !.ret = "ok", !.resp = None]]
  BY Zenon DEF pfexec_exec
<1>3. IsCall(c) /\ c.ret = "ok"
  BY <1>0, ExecKeeps DEF Good, CallInv
<1>4. tasks[p] # <<"start">>
  BY <1>0, Zenon DEF Good
<1>5. CASE c.pc = "killed"
  <2>1. Good(c, sock[p], tasks[p], step[p])
    BY <1>0, <1>3, <1>4, <1>5, Zenon DEF Good, CallInv, Unharmed
  <2> QED BY <1>1, <1>2, <1>5, <2>1, OneProcess, Zenon
<1>6. CASE c.pc # "killed"
  <2>1. PICK d \in NewRoot(c) :
          call' = [call EXCEPT ![p] = [d EXCEPT !.pc = "destroy", !.ret = "ok", !.resp = None]]
    BY <1>2, <1>6, Zenon
  <2>2. IsCall(d)
    BY <1>3 DEF NewRoot, IsCall
  <2> DEFINE e == [d EXCEPT !.pc = "destroy", !.ret = "ok", !.resp = None]
  <2>3. IsCall(e) /\ e.pc = "destroy" /\ e.ret = "ok"
    BY <2>2, Zenon DEF IsCall
  <2> HIDE DEF e
  <2>4. Good(e, sock[p], tasks[p], step[p])
    BY <1>0, <1>4, <2>3, Zenon DEF Good, CallInv, Unharmed
  <2>5. call' = [call EXCEPT ![p] = e]
    BY <2>1, Zenon DEF e
  <2> QED BY <1>1, <2>4, <2>5, OneProcess, Zenon
<1> QED BY <1>5, <1>6, Zenon

\* The call returns when its queue is empty.
LEMMA DestroyInv ==
    ASSUME PfInv, NEW p \in Procs, taskq_destroy(p)
    PROVE  PfInv'
<1> DEFINE c == [call[p] EXCEPT !.pc = "done"]
<1>0. Good(call[p], sock[p], tasks[p], step[p]) /\ Domains
  BY Same, ByProcess
<1>1. /\ call' = [call EXCEPT ![p] = c] /\ sock' = [sock EXCEPT ![p] = sock[p]]
      /\ tasks' = [tasks EXCEPT ![p] = tasks[p]] /\ step' = [step EXCEPT ![p] = step[p]]
  BY <1>0, Same, Zenon DEF taskq_destroy, Domains
<1>2. Good(c, sock[p], tasks[p], step[p])
  BY <1>0 DEF Good, IsCall, CallInv, Unharmed, taskq_destroy, Drained
<1> QED BY <1>1, <1>2, OneProcess, Zenon

----------------------------------------------------------------------------
(* The tasks. *)

\* A wake-up moves a sleeper only; it brings an error or finds an answer.
LEMMA WakeupKeeps ==
    ASSUME NEW c, NEW e, IsCall(c), CallInv(c), Unharmed(c), c.pc \in {"sleep", "destroy"},
           c.pc = "sleep" => e # "ok" \/ c.resp # None
    PROVE  /\ IsCall(Wakeup(c, e)) /\ CallInv(Wakeup(c, e)) /\ Unharmed(Wakeup(c, e))
           /\ Wakeup(c, e).pc \in {"woken", "destroy"}
BY Zenon DEF Wakeup, IsCall, CallInv, Unharmed

\* The end of start_sock leaves end_sock to close the connection.
LEMMA FinishInv ==
    ASSUME PfInv, NEW p \in Procs, tasks[p] = <<"start">>,
           NEW c, NEW e, Finish(p, c, e), IsCall(c), CallInv(c), Unharmed(c),
           c.pc \in {"sleep", "destroy"}, c.pc = "sleep" => e # "ok" \/ c.resp # None,
           NEW s, IsSock(s), sock' = [sock EXCEPT ![p] = s]
    PROVE  PfInv'
<1> DEFINE d == Wakeup(c, e)
<1>1. IsCall(d) /\ CallInv(d) /\ Unharmed(d) /\ d.pc \in {"woken", "destroy"}
  BY WakeupKeeps, Zenon
<1>2. call' = [call EXCEPT ![p] = d] /\ step' = [step EXCEPT ![p] = "idle"]
  BY Zenon DEF Finish
<1>3. tasks' = [tasks EXCEPT ![p] = <<"end">>]
  <2>1. Append(Tail(tasks[p]), "end") = <<"end">>
    OBVIOUS
  <2> QED BY <2>1, Zenon DEF Finish
<1> HIDE DEF d
<1>4. Good(d, s, <<"end">>, "idle")
  BY <1>1, Zenon DEF Good
<1> QED BY <1>2, <1>3, <1>4, OneProcess, Zenon

\* The task start_sock, in its three parts.
LEMMA StartInv ==
    ASSUME PfInv, NEW p \in Procs, start_sock(p)
    PROVE  PfInv'
<1>0. Good(call[p], sock[p], tasks[p], step[p]) /\ Domains
  BY Same, ByProcess
<1>1. tasks[p] = <<"start">> /\ call[p].pc \in {"sleep", "destroy"}
  BY <1>0 DEF start_sock, Good
<1>2. IsCall(call[p]) /\ CallInv(call[p]) /\ Unharmed(call[p]) /\ IsSock(sock[p])
  BY <1>0, Zenon DEF Good
<1>3. CASE step[p] = "idle" /\ listen_sock(p)
  <2>1. sock[p].kern # "open"
    BY <1>0, <1>1, <1>3 DEF Good
  <2>2. CASE /\ call' = [call EXCEPT ![p] = Wakeup(@, "ENOTCONN")]
             /\ tasks' = [tasks EXCEPT ![p] = Tail(@)] /\ UNCHANGED <<step, sock>>
    <3> DEFINE d == Wakeup(call[p], "ENOTCONN")
    <3>1. IsCall(d) /\ CallInv(d) /\ Unharmed(d) /\ d.pc \in {"woken", "destroy"}
      BY <1>1, <1>2, WakeupKeeps, Zenon
    <3>2. call' = [call EXCEPT ![p] = d] /\ tasks' = [tasks EXCEPT ![p] = <<>>]
      BY <1>0, <1>1, <2>2 DEF Domains
    <3>3. sock' = [sock EXCEPT ![p] = sock[p]] /\ step' = [step EXCEPT ![p] = step[p]]
      BY <2>2, Same, Zenon
    <3> HIDE DEF d
    <3>4. Good(d, sock[p], <<>>, step[p])
      BY <1>2, <1>3, <2>1, <3>1, Zenon DEF Good
    <3> QED BY <3>2, <3>3, <3>4, OneProcess, Zenon
  <2>3. CASE /\ call' = [call EXCEPT ![p].so = TRUE, ![p].errno = "ok"]
             /\ sock' = [sock EXCEPT ![p].kern = "open", ![p].peer = "queued"]
             /\ step' = [step EXCEPT ![p] = "send"] /\ UNCHANGED tasks
    <3> DEFINE d == [call[p] EXCEPT !.so = TRUE, !.errno = "ok"]
               s == [sock[p] EXCEPT !.kern = "open", !.peer = "queued"]
    <3>1. call' = [call EXCEPT ![p] = d] /\ sock' = [sock EXCEPT ![p] = s]
      BY <1>0, <2>3, Zenon DEF Domains
    <3>2. tasks' = [tasks EXCEPT ![p] = tasks[p]] /\ step' = [step EXCEPT ![p] = "send"]
      BY <2>3, Same, Zenon
    <3>3. IsCall(d) /\ CallInv(d) /\ Unharmed(d) /\ d.pc = call[p].pc
      BY <1>1, <1>2, Zenon DEF IsCall, CallInv, Unharmed
    <3>4. IsSock(s)
      BY <1>2, Zenon DEF IsSock
    <3> HIDE DEF d, s
    <3>5. Good(d, s, tasks[p], "send")
      BY <1>1, <3>3, <3>4, SMTT(40) DEF Good
    <3> QED BY <3>1, <3>2, <3>5, OneProcess, Zenon
  <2>4. CASE step' = [step EXCEPT ![p] = "send"] /\ UNCHANGED <<call, tasks, sock>>
    <3>1. Good(call[p], sock[p], tasks[p], "send")
      BY <1>0, <1>1, Zenon DEF Good
    <3>2. call' = [call EXCEPT ![p] = call[p]]
      BY <2>4, Same, Zenon
    <3>3. sock' = [sock EXCEPT ![p] = sock[p]]
      BY <2>4, Same, Zenon
    <3>4. tasks' = [tasks EXCEPT ![p] = tasks[p]]
      BY <2>4, Same, Zenon
    <3>5. step' = [step EXCEPT ![p] = "send"]
      BY <2>4, Zenon
    <3> QED BY <3>1, <3>2, <3>3, <3>4, <3>5, OneProcess, Zenon
  <2> QED BY <1>3, <2>2, <2>3, <2>4, Zenon DEF listen_sock
<1>4. CASE step[p] = "send" /\ send_sock(p)
  <2>1. CASE ~call[p].so
    <3>1. UNCHANGED <<call, tasks, step, sock>>
      BY <1>4, <2>1, Zenon DEF send_sock
    <3> QED BY <1>0, <3>1, Same, OneProcess
  <2>2. CASE call[p].so /\ sock[p].peer = "closed"
    <3>1. Finish(p, call[p], "EPIPE") /\ sock' = [sock EXCEPT ![p] = sock[p]]
      BY <1>4, <2>2, Same, Zenon DEF send_sock
    <3> QED BY <1>1, <1>2, <3>1, FinishInv, Zenon
  <2>3. CASE call[p].so /\ sock[p].peer # "closed"
    <3> DEFINE s == [sock[p] EXCEPT !.req = call[p].req]
    <3>1. /\ sock' = [sock EXCEPT ![p] = s] /\ step' = [step EXCEPT ![p] = "rcv"]
          /\ call' = [call EXCEPT ![p] = call[p]] /\ tasks' = [tasks EXCEPT ![p] = tasks[p]]
      BY <1>0, <1>4, <2>3, Same, Zenon DEF send_sock, Domains
    <3>2. IsSock(s)
      BY <1>2, Zenon DEF IsSock
    <3> HIDE DEF s
    <3>3. Good(call[p], s, tasks[p], "rcv")
      BY <1>0, <1>1, <3>2, Zenon DEF Good
    <3> QED BY <3>1, <3>3, OneProcess, Zenon
  <2> QED BY <2>1, <2>2, <2>3, Zenon
<1>5. CASE step[p] = "rcv" /\ rcv_sock(p)
  <2>1. CASE /\ sock[p].resp # None
             /\ Finish(p, [call[p] EXCEPT !.resp = sock[p].resp], "ok")
             /\ sock' = [sock EXCEPT ![p].resp = None]
    <3> DEFINE c == [call[p] EXCEPT !.resp = sock[p].resp]
               s == [sock[p] EXCEPT !.resp = None]
    <3>1. sock' = [sock EXCEPT ![p] = s] /\ IsSock(s)
      BY <1>0, <1>2, <2>1, Zenon DEF Domains, IsSock
    <3>2. IsCall(c) /\ CallInv(c) /\ Unharmed(c) /\ c.pc = call[p].pc /\ c.resp # None
      BY <1>1, <1>2, <2>1, Zenon DEF IsCall, CallInv, Unharmed
    <3>3. Finish(p, c, "ok")
      BY <2>1, Zenon
    <3> HIDE DEF c, s
    <3> QED BY <1>1, <3>1, <3>2, <3>3, FinishInv, Zenon
  <2>2. CASE Finish(p, call[p], "EPIPE") /\ UNCHANGED sock
    BY <1>1, <1>2, <2>2, Same, FinishInv, Zenon
  <2> QED BY <1>5, <2>1, <2>2, Zenon DEF rcv_sock
<1> QED BY <1>3, <1>4, <1>5, Zenon DEF start_sock

\* The task end_sock closes the connection.
LEMMA EndInv ==
    ASSUME PfInv, NEW p \in Procs, end_sock(p)
    PROVE  PfInv'
<1> DEFINE d == Wakeup(call[p], call[p].errno)
           s == [sock[p] EXCEPT !.kern = "closed"]
<1>0. Good(call[p], sock[p], tasks[p], step[p]) /\ Domains
  BY Same, ByProcess
<1>1. tasks[p] = <<"end">> /\ call[p].pc # "sleep" /\ step[p] = "idle"
  BY <1>0 DEF end_sock, Good
<1>2. IsCall(call[p]) /\ CallInv(call[p]) /\ Unharmed(call[p]) /\ call[p].pc \notin {"shell", "done"}
  BY <1>0, <1>1 DEF Good
<1>3. /\ call' = [call EXCEPT ![p] = d] /\ sock' = [sock EXCEPT ![p] = s]
      /\ tasks' = [tasks EXCEPT ![p] = <<>>] /\ step' = [step EXCEPT ![p] = step[p]]
  <2>1. call' = [call EXCEPT ![p] = d]
    BY Zenon DEF end_sock
  <2>2. sock' = [sock EXCEPT ![p] = s]
    BY <1>0, Zenon DEF end_sock, Domains
  <2>3. tasks' = [tasks EXCEPT ![p] = <<>>]
    <3>1. tasks' = [tasks EXCEPT ![p] = Tail(tasks[p])]
      BY Zenon DEF end_sock
    <3>2. Tail(tasks[p]) = <<>>
      BY <1>1
    <3> QED BY <3>1, <3>2, Zenon
  <2>4. step' = [step EXCEPT ![p] = step[p]]
    BY Same, Zenon DEF end_sock
  <2> QED BY <2>1, <2>2, <2>3, <2>4, Zenon
<1>4. IsCall(d) /\ CallInv(d) /\ Unharmed(d)
  BY <1>1, <1>2, Zenon DEF Wakeup, IsCall, CallInv, Unharmed
<1>5. IsSock(s) /\ s.kern # "open"
  BY <1>0, Zenon DEF Good, IsSock
<1> HIDE DEF d, s
<1>6. Good(d, s, <<>>, step[p])
  BY <1>1, <1>4, <1>5, Zenon DEF Good
<1> QED BY <1>3, <1>6, OneProcess, Zenon

----------------------------------------------------------------------------
(* The daemon. *)

\* The daemon's end of a connection can be anything.
LEMMA DaemonInv ==
    ASSUME PfInv, UNCHANGED kvars, sock' = [p \in Procs |-> sock'[p]],
           \A p \in Procs : IsSock(sock'[p]) /\ sock'[p].kern = sock[p].kern
    PROVE  PfInv'
<1>1. Domains /\ \A q \in Procs : Good(call[q], sock[q], tasks[q], step[q])
  BY ByProcess, Zenon
<1>2. Domains'
  BY <1>1, Zenon DEF Domains, kvars
<1>3. \A q \in Procs : Good(call[q], sock'[q], tasks[q], step[q])
  BY <1>1, Zenon DEF Good
<1>4. \A q \in Procs : Good(call[q]', sock[q]', tasks[q]', step[q]')
  BY <1>3, Zenon DEF kvars
<1> QED BY <1>2, <1>4, ByProcessNext, Zenon

\* When it dies all its ends are closed.
LEMMA DieInv ==
    ASSUME PfInv, UNCHANGED kvars, Die
    PROVE  PfInv'
<1>1. Domains /\ \A q \in Procs : IsSock(sock[q])
  BY ByProcess, Zenon DEF Good
<1>2. sock' = [p \in Procs |-> sock'[p]]
  BY Zenon DEF Die, ClosePeers
<1>3. ASSUME NEW p \in Procs PROVE IsSock(sock'[p]) /\ sock'[p].kern = sock[p].kern
  <2>1. sock'[p] = IF sock[p].peer \in {"queued", "open"}
                   THEN [sock[p] EXCEPT !.peer = "closed", !.req = None] ELSE sock[p]
    BY Zenon DEF Die, ClosePeers
  <2> QED BY <1>1, <2>1, Zenon DEF IsSock
<1> QED BY <1>2, <1>3, DaemonInv, Zenon

\* An event of one connection.
LEMMA PeerInv ==
    ASSUME PfInv, UNCHANGED kvars, NEW p \in Procs, NEW s, IsSock(s), s.kern = sock[p].kern,
           sock' = [sock EXCEPT ![p] = s]
    PROVE  PfInv'
<1>1. Domains /\ \A q \in Procs : IsSock(sock[q])
  BY ByProcess, Zenon DEF Good
<1>2. sock' = [q \in Procs |-> sock'[q]] /\ \A q \in Procs : sock'[q] = IF q = p THEN s ELSE sock[q]
  BY <1>1, Zenon DEF Domains
<1>3. \A q \in Procs : IsSock(sock'[q]) /\ sock'[q].kern = sock[q].kern
  BY <1>1, <1>2, Zenon
<1> QED BY <1>2, <1>3, DaemonInv, Zenon

\* A connection that is accepted or closed.
LEMMA AcceptInv ==
    ASSUME PfInv, NEW p \in Procs, on_lsock_acceptable(p), UNCHANGED kvars
    PROVE  PfInv'
<1> DEFINE s == [sock[p] EXCEPT !.peer = "open"]
           t == [sock[p] EXCEPT !.peer = "closed", !.req = None]
<1>0. Domains /\ IsSock(sock[p])
  BY ByProcess, Zenon DEF Good
<1>1. IsSock(s) /\ s.kern = sock[p].kern /\ IsSock(t) /\ t.kern = sock[p].kern
  BY <1>0, Zenon DEF IsSock
<1>2. sock' = [sock EXCEPT ![p] = s] \/ sock' = [sock EXCEPT ![p] = t] \/ Die
  BY <1>0, Zenon DEF on_lsock_acceptable, Domains
<1> HIDE DEF s, t
<1>3. CASE sock' = [sock EXCEPT ![p] = s]
  BY <1>1, <1>3, PeerInv, Zenon
<1>4. CASE sock' = [sock EXCEPT ![p] = t]
  BY <1>1, <1>4, PeerInv, Zenon
<1> QED BY <1>2, <1>3, <1>4, DieInv, Zenon

\* A request that is answered, or a client that goes.
LEMMA ReadableInv ==
    ASSUME PfInv, NEW p \in Procs, on_client_readable(p), UNCHANGED kvars
    PROVE  PfInv'
<1> DEFINE r == Reply(sock[p].req, Rules(conf)).resp
           s == [sock[p] EXCEPT !.req = None, !.resp = r]
           t == [sock[p] EXCEPT !.peer = "closed", !.req = None]
<1>0. Domains /\ IsSock(sock[p])
  BY ByProcess DEF Good
<1>1. sock' = [sock EXCEPT ![p] = s] \/ sock' = [sock EXCEPT ![p] = t] \/ Die
  BY <1>0, Zenon DEF on_client_readable, destroy_client, Domains
<1> HIDE DEF r
<1>2. IsSock(s) /\ s.kern = sock[p].kern /\ IsSock(t) /\ t.kern = sock[p].kern
  BY <1>0, Zenon DEF IsSock
<1> HIDE DEF s, t
<1>3. CASE sock' = [sock EXCEPT ![p] = s]
  BY <1>2, <1>3, PeerInv, Zenon
<1>4. CASE sock' = [sock EXCEPT ![p] = t]
  BY <1>2, <1>4, PeerInv, Zenon
<1> QED BY <1>1, <1>3, <1>4, DieInv, Zenon

----------------------------------------------------------------------------
(* The theorems. *)

\* A process that has not called pfexecve yet, with no connection.
LEMMA PfInitInv == Init => PfInv
<1> SUFFICES ASSUME Init PROVE PfInv
  BY Zenon
<1>1. PICK login \in Logins : call = [p \in Procs |-> Shell(login)]
  BY Zenon DEF Init, KInit
<1>2. Domains
  BY Zenon DEF Init, KInit, Domains
<1>3. IsCall(Shell(login)) /\ CallInv(Shell(login)) /\ Unharmed(Shell(login)) /\ Shell(login).pc = "shell"
  BY Zenon DEF Shell, IsCall, CallInv, Unharmed, Ids
<1>4. IsSock(NoSock) /\ NoSock.kern = "none"
  BY Zenon DEF NoSock, IsSock
<1>5. ASSUME NEW p \in Procs PROVE Good(call[p], sock[p], tasks[p], step[p])
  <2>1. call[p] = Shell(login) /\ sock[p] = NoSock /\ tasks[p] = <<>> /\ step[p] = "idle"
    BY <1>1, Zenon DEF Init, KInit
  <2> QED BY <1>3, <1>4, <2>1 DEF Good
<1> QED BY <1>2, <1>5, ByProcess, Zenon

\* Every step of the calls, the tasks and the daemon keeps PfInv.
LEMMA PfNextInv == PfInv /\ [Next]_vars => PfInv'
<1> SUFFICES ASSUME PfInv, [Next]_vars PROVE PfInv'
  BY Zenon
<1>1. ASSUME NEW p \in Procs,
             \/ Command(p) \/ Interrupt(p) \/ Resume(p) \/ pfexec_exec(p)
             \/ taskq_destroy(p) \/ start_sock(p) \/ end_sock(p)
      PROVE  PfInv'
  BY <1>1, CommandInv, InterruptInv, ResumeInv, ExecInv, DestroyInv, StartInv, EndInv, Zenon
<1>2. ASSUME NEW p \in Procs, on_lsock_acceptable(p) \/ on_client_readable(p), Daemon
      PROVE  PfInv'
  BY <1>2, AcceptInv, ReadableInv, Zenon DEF Daemon
<1>3. ASSUME UNCHANGED <<sock, kvars>> PROVE PfInv'
  <2>1. Domains /\ \A p \in Procs : IsSock(sock[p])
    BY ByProcess, Zenon DEF Good
  <2> QED BY <1>3, <2>1, DaemonInv, Zenon DEF Domains
<1>4. CASE (Bind \/ Configure \/ Stop) /\ Daemon
  BY <1>3, <1>4, DieInv, Zenon DEF Bind, Configure, Stop, Daemon
<1>5. CASE UNCHANGED vars
  BY <1>3, <1>5, Zenon DEF vars
<1> QED BY <1>1, <1>2, <1>4, <1>5, Zenon DEF Next

\* PfInv holds however calls, signals, tasks and the daemon interleave: the queue
\* of a call has at most one task, and it is never empty while the connection is
\* open.
THEOREM PfexecInvariant == Spec => []PfInv
BY PfInitInv, PfNextInv, PTL DEF Spec

\* sys_pfexecve never returns before the tasks that work on its stack are done
\* and its connection is closed, also when a signal ends its sleep.
THEOREM StackIsLast == Spec => []StackOutlivesTasks
<1>1. PfInv => StackOutlivesTasks
  BY ByProcess DEF Good, StackOutlivesTasks
<1> QED BY <1>1, PfexecInvariant, PTL

\* A pfexecve that returns an error has left credentials, image and root as they
\* were, and one that goes on without an error has an answer.
THEOREM ErrorsAreClean == Spec => []ErrorChangesNothing
<1>1. PfInv => ErrorChangesNothing
  BY Zenon DEF PfInv
<1> QED BY <1>1, PfexecInvariant, PTL
=============================================================================
