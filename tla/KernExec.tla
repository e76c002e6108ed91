------------------------------ MODULE KernExec ------------------------------
(***************************************************************************)
(* sys_execve (kern_exec.c) with the kenvp argument that was added for     *)
(* pfexecve, as the set of its outcomes.  It holds the kernel lock or has  *)
(* every other thread of the process stopped, so that no one else sees the *)
(* states in between.  A process is a record with its pc, image, creds,    *)
(* env, fds (those of descriptors 0 to 2 it has open), flags (those of     *)
(* ps_flags that exec sets) and held: EXECPLEDGE, when it has made         *)
(* execpromises, and TRACED, when a debugger has it.                       *)
(***************************************************************************)
EXTENDS Integers, FiniteSets

CONSTANT Execs      \* the files that stat and access call executable, with
                    \* their mount flags, set-id bits, owner and format

\* The errors of check_exec: a file on a noexec mount, a set-id file when there
\* are execpromises (on a nosuid mount too), a file that no entry of execsw knows,
\* and what may always go wrong with the vnode and the limits.
check_exec(c, f) ==
    LET refused == "noexec" \in f.mount \/ (f.mode # {} /\ "EXECPLEDGE" \in c.held)
    IN  {"EIO"} \cup (IF refused THEN {"EACCES"}
                      ELSE IF f.form = "unknown" THEN {"ENOEXEC"} ELSE {"ok", "ENOMEM"})

\* check_exec takes the set-id bits from a file on a nosuid mount.
SetId(f) == IF "nosuid" \in f.mount THEN {} ELSE f.mode

\* The copying of the arguments and of kenvp, and their size against the stack.
CopyArgs == {"ok", "EFAULT", "E2BIG", "ENOMEM"}

SameIds(cr) == cr.uid = cr.ruid /\ cr.uid = cr.svuid /\ cr.gid = cr.rgid /\ cr.gid = cr.svgid

\* From "we're committed" to the flags: the new address space with the
\* arguments on its stack, PS_SUGIDEXEC by the credentials of the caller and
\* PS_PLEDGE by its execpromises.
Commit(c, env) ==
    [c EXCEPT !.image = "new", !.env = env,
              !.flags = (@ \ {"SUGIDEXEC", "PLEDGE"})
                            \cup (IF SameIds(c.creds) THEN {} ELSE {"SUGIDEXEC"})
                            \cup (IF "EXECPLEDGE" \in c.held THEN {"PLEDGE"} ELSE {})]

\* A traced process gets no ids from a file.
proc_cansugid(c) == "TRACED" \notin c.held

\* set[ug]id: the owner's ids, and the three standard descriptors opened.
SetIds(c, f) ==
    IF SetId(f) = {} \/ ~proc_cansugid(c) THEN [c EXCEPT !.flags = @ \ {"SUGID"}]
    ELSE [c EXCEPT !.flags = @ \cup {"SUGID", "SUGIDEXEC"},
                   !.creds.uid = IF "suid" \in SetId(f) THEN f.uid ELSE @,
                   !.creds.gid = IF "sgid" \in SetId(f) THEN f.gid ELSE @,
                   !.fds = {0, 1, 2}]

SaveIds(c) == [c EXCEPT !.creds.svuid = c.creds.uid, !.creds.svgid = c.creds.gid]

\* exec_abort and free_pack_abort: exit1.
Abort(c) == [c EXCEPT !.pc = "killed"]

\* What may fail after the commitment: the address space is not made, the
\* arguments are not copied to the new stack, a standard descriptor of a set-id
\* program is not opened, or the page of the clock or of the signal trampoline, which all processes
\* share and the first exec makes, is not made or not mapped.
exec_process_vmcmds == {"ok", "ENOMEM"}
copyargs == {"ok", "EFAULT"}
OpenNull == {"ok", "ENFILE"}
exec_timekeep_map == {"ok", "ENOMEM"}
exec_sigcode_map == {"ok", "ENOMEM"}

\* Up to the commitment a failure leaves the process as it was; after that it
\* is killed.
sys_execve(c, f, env) ==
    LET in == [c EXCEPT !.flags = @ \cup {"INEXEC"}]
        out(x) == [x EXCEPT !.flags = @ \ {"INEXEC"}]
        new == SaveIds(SetIds(Commit(in, env), f))
        late == exec_process_vmcmds \cup copyargs \cup OpenNull
                    \cup exec_timekeep_map \cup exec_sigcode_map
    IN  {out(in) : e \in (check_exec(c, f) \cup CopyArgs) \ {"ok"}}
            \cup (IF "ok" \in check_exec(c, f) THEN {out(new)} \cup {Abort(in) : e \in late \ {"ok"}} ELSE {})
=============================================================================
