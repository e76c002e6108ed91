----------------------------- MODULE PfexecKern -----------------------------
(***************************************************************************)
(* The pfexecve system call (kern_pfexec.c): the calling process, which    *)
(* sleeps on a field of a structure on its own stack, and the task queue   *)
(* that the call creates to talk to the daemon.  The queue is not MPSAFE:  *)
(* its tasks and the call hold the kernel lock except where they sleep,    *)
(* which is where the actions below end.                                   *)
(***************************************************************************)
EXTENDS PfexecCmd

VARIABLES
    call,       \* call[p]: the process and its struct sock_data
    tasks,      \* tasks[p]: the tasks in the queue of the call, the running one first
    step,       \* step[p]: how far the running start_sock has come
    panic       \* the kernel has used a null or a dead pointer

kvars == <<call, tasks, step, panic>>

Ids(uid, gid, groups) ==
    [uid |-> uid, ruid |-> uid, svuid |-> uid, gid |-> gid, rgid |-> gid, svgid |-> gid,
     groups |-> groups]

\* data.so, data.resp and data.sys_pf_errno; image, creds, env and root are the
\* process's own.
Shell(l) == [pc |-> "shell", req |-> None, so |-> FALSE, resp |-> None, errno |-> "ok",
             ret |-> "ok", image |-> "old", env |-> None, root |-> None, flags |-> {},
             held |-> l.held, fds |-> l.fds, creds |-> Ids(l.uid, l.gid, l.groups)]

KInit ==
    /\ \E login \in Logins : call = [p \in Procs |-> Shell(login)]
    /\ tasks = [p \in Procs |-> <<>>]
    /\ step = [p \in Procs |-> "idle"]
    /\ panic = FALSE

----------------------------------------------------------------------------
(* sys_pfexecve *)

\* Up to tsleep_nsec.  The call returns 0 when there is no memory for the queue.
sys_pfexecve(p, req) ==
    \/ /\ call' = [call EXCEPT ![p].pc = "sleep", ![p].req = req]
       /\ tasks' = [tasks EXCEPT ![p] = <<"start">>]
    \/ /\ call' = [call EXCEPT ![p].pc = "done", ![p].req = req, ![p].errno = "ENOMEM"]
       /\ UNCHANGED tasks

\* The pfexec command, which ends with the system call.
Command(p) ==
    /\ call[p].pc = "shell"
    /\ \E c \in Commands[p] :
         IF Opts(c) = None
         THEN call' = [call EXCEPT ![p].pc = "done", ![p].ret = "exit"] /\ UNCHANGED tasks
         ELSE sys_pfexecve(p, fill_mbuf(call[p].creds, Opts(c)))
    /\ UNCHANGED <<step, panic, sock, daemon>>

WakeupAnswered(c, e) == [c EXCEPT !.pc = IF @ = "sleep" /\ e = "ok" THEN "woken" ELSE @, !.errno = e]

\* wakeup(&data->ident) and the value that sys_pf_errno has then.
Wakeup(c, e) == [c EXCEPT !.pc = IF @ = "sleep" THEN "woken" ELSE @, !.errno = e]

\* The outcomes of listen_sock.  On its time-out the socket is closed but ret
\* is still 0, so that the task goes on without a socket.
listen_sock(p) ==
    \/ /\ call' = [call EXCEPT ![p] = Wakeup(@, "ENOTCONN")]
       /\ tasks' = [tasks EXCEPT ![p] = Tail(@)]
       /\ UNCHANGED <<step, sock>>
    \/ /\ Listening
       /\ call' = [call EXCEPT ![p].so = TRUE, ![p].errno = "ok"]
       /\ sock' = [sock EXCEPT ![p].kern = "open", ![p].peer = "queued"]
       /\ step' = [step EXCEPT ![p] = "send"]
       /\ UNCHANGED tasks
    \/ /\ Listening
       /\ step' = [step EXCEPT ![p] = "send"]
       /\ UNCHANGED <<call, tasks, sock>>

\* The end of start_sock: end_sock is queued behind it and the caller is woken.
Finish(p, c, e) ==
    /\ call' = [call EXCEPT ![p] = Wakeup(c, e)]
    /\ tasks' = [tasks EXCEPT ![p] = Append(Tail(@), "end")]
    /\ step' = [step EXCEPT ![p] = "idle"]

send_sock(p) ==
    IF ~call[p].so
    THEN /\ panic' = TRUE
         /\ UNCHANGED <<call, tasks, step, sock>>
    ELSE /\ UNCHANGED panic
         /\ IF sock[p].peer = "closed"
            THEN Finish(p, call[p], "EPIPE") /\ UNCHANGED sock
            ELSE /\ sock' = [sock EXCEPT ![p].req = call[p].req]
                 /\ step' = [step EXCEPT ![p] = "rcv"]
                 /\ UNCHANGED <<call, tasks>>

RcvNoError(p) ==
    /\ sock[p].resp # None \/ sock[p].peer = "closed"
    /\ Finish(p, [call[p] EXCEPT !.resp = sock[p].resp], "ok")
    /\ sock' = [sock EXCEPT ![p].resp = None]

\* soreceive sleeps until there is a response or the daemon has closed.
rcv_sock(p) ==
    \/ /\ sock[p].resp # None
       /\ Finish(p, [call[p] EXCEPT !.resp = sock[p].resp], "ok")
       /\ sock' = [sock EXCEPT ![p].resp = None]
    \/ /\ sock[p].resp = None /\ sock[p].peer = "closed"
       /\ Finish(p, call[p], "EPIPE")
       /\ UNCHANGED sock

start_sock(p) ==
    /\ tasks[p] # <<>> /\ Head(tasks[p]) = "start"
    /\ \/ step[p] = "idle" /\ listen_sock(p) /\ UNCHANGED panic
       \/ step[p] = "send" /\ send_sock(p)
       \/ step[p] = "rcv" /\ rcv_sock(p) /\ UNCHANGED panic
    /\ UNCHANGED daemon

\* After exec_abort the structure went with the stack of the process.
end_sock(p) ==
    /\ tasks[p] # <<>> /\ Head(tasks[p]) = "end"
    /\ sock' = [sock EXCEPT ![p].kern = "closed"]
    /\ call' = [call EXCEPT ![p] = Wakeup(@, @.errno)]
    /\ tasks' = [tasks EXCEPT ![p] = Tail(@)]
    /\ panic' \in (IF call[p].pc = "killed" THEN BOOLEAN ELSE {FALSE})
    /\ UNCHANGED <<step, daemon>>

\* A signal ends the sleep (PCATCH): data.resp is freed, if it is there by now.
Interrupt(p) ==
    /\ call[p].pc = "sleep"
    /\ call' = [call EXCEPT ![p].pc = "destroy", ![p].ret = "EINTR", ![p].resp = None]
    /\ UNCHANGED <<tasks, step, panic, sock, daemon>>

process_response(resp) == IF Len(resp.groups) >= NGROUPS_MAX THEN "EINVAL" ELSE resp.errno

pfexec_escilate(c) ==
    [c EXCEPT !.creds = Ids(c.resp.uid, c.resp.gid, c.resp.groups), !.flags = @ \cup {"SUGID"}]

\* The rest of the call after tsleep, up to sys_execve.
Resume(p) ==
    LET c == call[p]
        ret == IF c.errno # "ok" THEN c.errno ELSE process_response(c.resp)
    IN  /\ c.pc = "woken"
        /\ call' = [call EXCEPT ![p] =
                      IF ret # "ok" THEN [c EXCEPT !.pc = "destroy", !.ret = ret, !.resp = None]
                      ELSE [pfexec_escilate(c) EXCEPT !.pc = "exec"]]
        /\ UNCHANGED <<tasks, step, panic, sock, daemon>>

\* What looking for a directory may return: the path may be missing, no
\* directory, or not to be searched with the new credentials.
change_dir == {"ok", "ENOENT", "ENOTDIR", "EACCES"}

\* The root directory when looking for path ended with e; None: not changed.
apply_chroot(path, e) == IF e = "ok" THEN path ELSE None

\* The root directory changes after the image: to the path of the answer, to
\* /var/empty when that fails, and not at all when both do.
NewRoot(c) ==
    IF c.resp.chroot = None THEN {c}
    ELSE {[c EXCEPT !.root = IF e = "ok" THEN apply_chroot(c.resp.chroot, e)
                             ELSE apply_chroot("/var/empty", f)] : e, f \in change_dir}

\* pfexec_exec drops the error of sys_execve; data.resp is freed and the call
\* returns sys_pf_errno, which is 0.
pfexec_exec(p) ==
    /\ call[p].pc = "exec"
    /\ \E c \in sys_execve(call[p], Execs[call[p].req.path], call[p].resp.env) :
         IF c.pc = "killed" THEN call' = [call EXCEPT ![p] = c]
         ELSE \E d \in NewRoot(c) :
                 call' = [call EXCEPT ![p] = [d EXCEPT !.pc = "destroy", !.ret = "ok", !.resp = None]]
    /\ UNCHANGED <<tasks, step, panic, sock, daemon>>

DestroyAtOnce(p) == TRUE

\* taskq_destroy waits for its thread, which runs what is queued first.
Drained(p) == tasks[p] = <<>>

taskq_destroy(p) ==
    /\ call[p].pc = "destroy" /\ Drained(p)
    /\ call' = [call EXCEPT ![p].pc = "done"]
    /\ UNCHANGED <<tasks, step, panic, sock, daemon>>
=============================================================================
