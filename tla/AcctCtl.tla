------------------------------ MODULE AcctCtl ------------------------------
(***************************************************************************)
(* acctctl processes using the acct device: every command opens it with    *)
(* O_EXLOCK, makes one ioctl and closes it; "watch" reads messages until   *)
(* read fails.  open(2) opens the device before it waits for the lock, and *)
(* the kernel calls acctclose on the last close only.                      *)
(***************************************************************************)
EXTENDS Acct

CONSTANT Users      \* acctctl processes

ASSUME CtlAssumption == IsFiniteSet(Users)

VARIABLES
    ses,        \* ses[u]: where u is, and in watch its counter seq
    before      \* how many messages processes that have ended read since the
                \* last close that was the last one

vars == <<acctVars, ses, before>>
ctlVars == <<ses, before>>

NoSes == [pc |-> "out", seq |-> 0]

Session == [pc : {"out", "wait", "cmd", "watch", "close", "drain"}, seq : Nat]

TypeOK == AcctTypeOK /\ ses \in [Users -> Session] /\ before \in Nat

Init == acctattach /\ ses = [u \in Users |-> NoSes] /\ before = 0

\* The ac_seq of the oldest message that has not been read.
Oldest == IF list = <<>> THEN ac_seq ELSE list[Len(list)]

Goto(u, pc) == ses' = [ses EXCEPT ![u].pc = pc] /\ UNCHANGED before

\* The end of watch.
Leave(u) ==
    /\ ses' = [ses EXCEPT ![u] = [NoSes EXCEPT !.pc = "close"]]
    /\ before' = before + ses[u].seq

\* vn_open succeeds (acctopen has no state), VOP_ADVLOCK waits.
acctopen(u) == ses[u].pc = "out" /\ Goto(u, "wait") /\ UNCHANGED acctVars

LockFree == \A u \in Users : ses[u].pc \in {"out", "wait"}

Locked(u) ==
    /\ ses[u].pc = "wait" /\ LockFree
    /\ \/ Goto(u, "cmd")
       \/ ses' = [ses EXCEPT ![u] = [pc |-> "watch", seq |-> 0]] /\ UNCHANGED before
    /\ UNCHANGED acctVars

\* cmd_status only reads the driver's state.
cmd_status == UNCHANGED acctVars

cmd_enable == \E m \in Enas : ACCT_IOC_ENABLE(m)

cmd_disable == \E m \in Enas : ACCT_IOC_DISABLE(m)

cmd_track ==
    \E v \in path_to_vnode, m \in Enas, c \in Conds : ACCT_IOC_TRACK_FILE(v, m, c)

cmd_untrack == \E v \in path_to_vnode : ACCT_IOC_UNTRACK_FILE(v)

Command(u) ==
    /\ ses[u].pc = "cmd" /\ Goto(u, "close")
    /\ cmd_status \/ cmd_enable \/ cmd_disable \/ cmd_track \/ cmd_untrack

\* cmd_watch: seq starts at 0 and counts what is read; "events dropped" is printed
\* for a message whose ac_seq differs from it.  A failed read ends the process.
cmd_watch(u) ==
    /\ ses[u].pc = "watch"
    /\ \/ rd = "out" /\ Refused /\ Leave(u) /\ UNCHANGED acctVars
       \/ (acctread \/ acctreadWoken) /\ UNCHANGED ctlVars
       \/ acctreadDone /\ ses' = [ses EXCEPT ![u].seq = @ + 1] /\ UNCHANGED before
       \/ (acctreadSignal \/ acctreadFail) /\ Leave(u)

\* close(2), or the end of the process.
Close(u) ==
    /\ ses[u].pc = "close"
    /\ IF \A w \in Users \ {u} : ses[w].pc = "out"
       THEN Goto(u, "drain") /\ acctclose
       ELSE ses' = [ses EXCEPT ![u] = NoSes] /\ UNCHANGED <<acctVars, before>>

Drained(u) ==
    /\ ses[u].pc = "drain" /\ ac_seq_reset
    /\ ses' = [ses EXCEPT ![u] = NoSes] /\ before' = 0

User(u) ==
    \/ ~draining /\ (acctopen(u) \/ Locked(u) \/ Command(u) \/ cmd_watch(u) \/ Close(u))
    \/ Drained(u)

\* What the kernel does after a use of freed memory is not specified.
Next ==
    /\ ~freed
    /\ \/ \E u \in Users : User(u)
       \/ \E p \in Procs : LockedHook(p) /\ UNCHANGED ctlVars
       \/ \E p \in Procs : CloseHook(p) /\ UNCHANGED ctlVars

\* The scheduler runs a process that can run: a hook that has to wake up the
\* reader, a reader that has been woken.
Wake(p) == ~freed /\ CloseWake(p) /\ UNCHANGED ctlVars

Resume(u) == ~freed /\ ses[u].pc = "watch" /\ acctreadWoken /\ UNCHANGED ctlVars

Spec == /\ Init /\ [][Next]_vars
        /\ \A p \in Procs : WF_vars(Wake(p))
        /\ \A u \in Users : WF_vars(Resume(u))

----------------------------------------------------------------------------
\* The messages in the list are numbered without a gap up to the counter, the
\* oldest at the end.
Numbered ==
    /\ Len(list) <= ac_seq
    /\ \A i \in 1 .. Len(list) : list[i] = ac_seq - i

\* "watch" gets the messages in order and each once: the message that it reads
\* next has the number of those read since the last close that was the last one,
\* by itself (its seq) and by processes that have ended (before).  So cmd_watch's
\* test of ac_seq against seq never misses a loss, and there is none to report:
\* it prints "events dropped" exactly when before # 0, that is when a process
\* that waited for O_EXLOCK goes on where another one has stopped reading.  And
\* there is a message when acctread copies one, which acctclose never frees under
\* the one process inside.  No hook, reader or last close loses, repeats or
\* reorders a number (add_node, acctread, acctclose, ac_seq_reset).
WatchInOrder ==
    /\ raced \/ \A u \in Users : ses[u].pc = "watch" => Oldest = before + ses[u].seq
    /\ raced \/ draining \/ (\E u \in Users : ses[u].pc = "watch") \/ Oldest = before
    /\ raced \/ draining \/ Numbered
    /\ rd # "out" => \E u \in Users : ses[u].pc = "watch"
    /\ rd = "copying" => list # <<>>

\* A process sleeps in acctread only while there is no message, or while a close
\* hook is about to wake it up: the test in add_node loses no wake-up.
NoLostWakeup ==
    raced \/ (rd = "asleep" =>
        list = <<>> \/ \E p \in Procs : hook[p].pc = "wakeup" /\ hook[p].wake)

\* acct_fcount, unsigned, is never below the number of tracked files and so never
\* wraps when trktree_vnoderemove decrements it: it stays in the type.
CountCovers == TypeOK /\ fcount >= Cardinality(Tracked)

Waiting == rd \in {"asleep", "woken"} /\ list # <<>>

\* A process sleeping in acctread while there is a message gets to run: it
\* copies, or finds the list empty again, or leaves.
WakesUp == Waiting ~> (~Waiting \/ raced \/ freed)

\* The inductive invariant.  O_EXLOCK lets one process past the lock; acctclose
\* is underway exactly while that process is in it.
OneUser == \A u, w \in Users :
    ses[u].pc \notin {"out", "wait"} /\ ses[w].pc \notin {"out", "wait"} => u = w

DrainingUser == draining <=> \E u \in Users : ses[u].pc = "drain"

AcctInv == CountCovers /\ OneUser /\ DrainingUser /\ WatchInOrder /\ NoLostWakeup

\* cmd_disable takes away the features it was given and no others, as acct.h
\* says of ACCT_IOC_DISABLE: "acct_ena (just the features to disable)".
DisablesJust == [][cmd_disable => \E m \in Enas : ena' = ena \ m]_vars
=============================================================================
