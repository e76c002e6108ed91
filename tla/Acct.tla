-------------------------------- MODULE Acct --------------------------------
(***************************************************************************)
(* The acct pseudo-device of an OpenBSD kernel (acct.c): hooks called by   *)
(* system calls put messages into a list, a process reads them from        *)
(* /dev/acct0, ioctls choose the features and the tracked files.           *)
(*                                                                         *)
(* The kernel lock serialises everything up to the next sleep, except the  *)
(* close hook: sys_close runs without it.  ac_taillock is only ever taken  *)
(* for reading and so orders nothing, also when a failed uiomove returns   *)
(* with it held.  malloc(M_WAITOK) sleeps but does not fail.  The macros   *)
(* that change the list are atomic here.                                   *)
(***************************************************************************)
EXTENDS Naturals, Sequences, FiniteSets

CONSTANTS
    Procs,      \* processes whose system calls run the hooks
    Files,      \* vnodes
    Enas,       \* values of acct_ena given to the ioctls, sets of features
    Conds,      \* values of acct_cond, sets of bit numbers
    Opens,      \* the low byte of open flags, sets of bit numbers
    None,       \* NULL
    MaxSeq,     \* bound on the messages between two resets
    MaxCount    \* bound on acct_fcount

Feature == {"FORK", "EXEC", "EXIT", "OPEN", "CLOSE", "RENAME", "UNLINK"}
F_ENA == {"OPEN", "CLOSE", "RENAME", "UNLINK"}
Bit == 0 .. 7
Entry == [ena : SUBSET F_ENA, cond : SUBSET Bit]

ASSUME AcctAssumption ==
    /\ None \notin Files /\ None \notin Entry
    /\ IsFiniteSet(Files) /\ IsFiniteSet(Procs)
    /\ Enas \subseteq SUBSET Feature
    /\ Conds \subseteq SUBSET Bit /\ Opens \subseteq SUBSET Bit
    /\ MaxSeq \in Nat /\ MaxCount \in Nat

VARIABLES
    ena, fcount,    \* driver_ctl
    trk,            \* trk[v]: the entry of vnode v in f_tracker, or None
    list,           \* the ac_seq of the messages in acct_list, newest first
    ac_seq,
    rd,             \* where the process inside acctread is
    draining,       \* acctclose has emptied the list and not yet reset ac_seq
    hook,           \* hook[p]: the hook that p is executing
    freed,          \* a hook has used a tracker entry that was freed
    raced           \* the close hook has collided with a reader or acctclose, and
                    \* acctclose has not cleaned up since

acctVars == <<ena, fcount, trk, list, ac_seq, rd, draining, hook, freed, raced>>

Hook == [pc : {"idle", "malloc", "make_node", "insert", "wakeup"},
         kind : {"MSG", "GONE", "CLOSE", None}, v : Files \cup {None},
         live : BOOLEAN, wake : BOOLEAN]

NoHook == [pc |-> "idle", kind |-> None, v |-> None, live |-> TRUE, wake |-> FALSE]

AcctTypeOK ==
    /\ ena \subseteq Feature /\ fcount \in Nat
    /\ trk \in [Files -> Entry \cup {None}]
    /\ list \in Seq(Nat) /\ ac_seq \in Nat
    /\ rd \in {"out", "asleep", "woken", "copying"}
    /\ hook \in [Procs -> Hook]
    /\ draining \in BOOLEAN /\ freed \in BOOLEAN /\ raced \in BOOLEAN

acctattach ==
    /\ ena = {} /\ fcount = 0
    /\ trk = [v \in Files |-> None]
    /\ list = <<>> /\ ac_seq = 0
    /\ rd = "out" /\ draining = FALSE
    /\ hook = [p \in Procs |-> NoHook]
    /\ freed = FALSE /\ raced = FALSE

Tracked == {v \in Files : trk[v] # None}

\* What a path may name: path_to_vnode gives no vnode when namei fails.
path_to_vnode == Files \cup {None}

----------------------------------------------------------------------------
\* The tracker.  A hook that sleeps may hold a pointer to an entry that goes.
Stale(h, S) ==
    [p \in Procs |-> IF h[p].v \in S THEN [h[p] EXCEPT !.live = FALSE] ELSE h[p]]

Cut(S) == [v \in Files |-> IF v \in S THEN None ELSE trk[v]]

\* A new entry is zeroed.
trkvnode_new == [ena |-> {}, cond |-> {}]

\* The entry of v, a new one if there is none.
trktree_add_vnode(v) == IF v \in Tracked THEN trk[v] ELSE trkvnode_new

\* trktree_vnoderemove on the tree, the counter and the hooks h.
trktree_vnoderemove(v, h) ==
    IF v \in Tracked
    THEN trk' = Cut({v}) /\ fcount' = fcount - 1 /\ hook' = Stale(h, {v})
    ELSE UNCHANGED <<trk, fcount>> /\ hook' = h

\* v is the vnode the path names, None if it names none.
trktree_pathremove(v) ==
    IF v = None THEN UNCHANGED <<trk, fcount, hook>> ELSE trktree_vnoderemove(v, hook)

\* The entry of v is made or found; the ioctl adds the events m and conditions c.
trktree_add_path(v, m, c) ==
    IF v = None THEN UNCHANGED <<trk, fcount>>
    ELSE LET n == trktree_add_vnode(v)
         IN  /\ trk' = [trk EXCEPT ![v] = [ena |-> n.ena \cup m, cond |-> n.cond \cup c]]
             /\ fcount' = IF v \in Tracked THEN fcount ELSE fcount + 1

\* trktree_delete_vnodes leaves acct_fcount alone.
trktree_delete_vnodes == trk' = Cut(Files) /\ hook' = Stale(hook, Files)

\* trktree_parsepermissions(n, e, flags) = 0
parsepermissions(n, e, flags) ==
    LET f == IF flags = {} THEN n.cond ELSE flags
    IN  e \in ena /\ e \in n.ena /\ (f = {} \/ n.cond \cap f # {})

----------------------------------------------------------------------------
\* ioctls that change the driver's state.
ACCT_IOC_ENABLE(m) ==
    /\ ena' = ena \cup m
    /\ UNCHANGED <<fcount, trk, list, ac_seq, rd, draining, hook, freed, raced>>

\* ACCT_ENA_ALL has no parentheses: "ctl->acct_ena & ACCT_ENA_ALL" is never 0.
\* "!ctl->acct_ena" is 1 (ACCT_ENA_FORK) for no features and 0 otherwise.
ACCT_IOC_DISABLE(m) ==
    /\ trktree_delete_vnodes
    /\ ena' = ena \cap (IF m = {} THEN {"FORK"} ELSE {})
    /\ UNCHANGED <<fcount, list, ac_seq, rd, draining, freed, raced>>

\* Mutant: the insertion of a new entry is not counted.
ACCT_IOC_TRACK_FILENoCount(v, m, c) ==
    /\ v # None
    /\ trk' = [trk EXCEPT ![v] = [ena |-> m \cap F_ENA, cond |-> c]]
    /\ UNCHANGED <<ena, fcount, list, ac_seq, rd, draining, hook, freed, raced>>

\* Without a vnode the ioctl fails with ENOENT.
ACCT_IOC_TRACK_FILE(v, m, c) ==
    /\ fcount < MaxCount
    /\ trktree_add_path(v, m \cap F_ENA, c)
    /\ UNCHANGED <<ena, list, ac_seq, rd, draining, hook, freed, raced>>

\* The events and conditions of the request are not looked at.
ACCT_IOC_UNTRACK_FILE(v) ==
    /\ trktree_pathremove(v)
    /\ UNCHANGED <<ena, list, ac_seq, rd, draining, freed, raced>>

----------------------------------------------------------------------------
\* acctread: EINVAL when nothing is audited, else TAILQ_LAST or sleep.
Refused == ena = {} /\ fcount = 0

Look == rd' = IF list = <<>> THEN "asleep" ELSE "copying"

UnchangedByRead == UNCHANGED <<ena, fcount, trk, ac_seq, draining, hook, freed, raced>>

acctread == ~Refused /\ rd = "out" /\ Look /\ UNCHANGED list /\ UnchangedByRead

\* tsleep_nsec returns 0.
acctreadWoken == rd = "woken" /\ Look /\ UNCHANGED list /\ UnchangedByRead

\* tsleep_nsec returns an error: a signal (PCATCH).
acctreadSignal ==
    rd \in {"asleep", "woken"} /\ rd' = "out" /\ UNCHANGED list /\ UnchangedByRead

\* Mutant: the message is not removed.
acctreadDoneKeeps == rd = "copying" /\ rd' = "out" /\ UNCHANGED list /\ UnchangedByRead

\* uiomove, which may sleep, has copied the oldest message.
acctreadDone ==
    /\ rd = "copying" /\ rd' = "out"
    /\ list' = SubSeq(list, 1, Len(list) - 1)
    /\ UnchangedByRead

\* uiomove fails: the message stays.
acctreadFail == rd = "copying" /\ rd' = "out" /\ UNCHANGED list /\ UnchangedByRead

\* acctclose, the two parts of which the kernel lock joins for all but acct_close.
acctclose ==
    /\ list' = <<>> /\ draining' = TRUE
    /\ UNCHANGED <<ena, fcount, trk, ac_seq, rd, hook, freed, raced>>

ac_seq_reset ==
    /\ draining /\ draining' = FALSE
    /\ ac_seq' = 0
    /\ raced' = (list # <<>>)
    /\ UNCHANGED <<ena, fcount, trk, list, rd, hook, freed>>

----------------------------------------------------------------------------
\* The hooks.  The entry n of a file is looked up and checked before malloc,
\* and used after it.  kind tells what the hook does after that: "GONE" ends the
\* tracking, "CLOSE" runs without the kernel lock.
Pending == Cardinality({p \in Procs : hook[p] # NoHook})

Begin(p, k, v) ==
    /\ hook[p] = NoHook
    /\ ac_seq + Pending < MaxSeq
    /\ hook' = [hook EXCEPT ![p] = [NoHook EXCEPT !.pc = "malloc", !.kind = k, !.v = v]]
    /\ UNCHANGED <<trk, fcount>>

ProcHook(p, k) ==
    /\ k \in ena
    /\ Begin(p, "MSG", None)
    /\ UNCHANGED <<ena, list, ac_seq, rd, draining, freed, raced>>

acct_fork(p) == ProcHook(p, "FORK")

acct_exec(p) == ProcHook(p, "EXEC")

acct_exit(p) == ProcHook(p, "EXIT")

acct_open(p, v, flags) ==
    /\ v \in Tracked /\ parsepermissions(trk[v], "OPEN", flags)
    /\ Begin(p, "MSG", v)
    /\ UNCHANGED <<ena, list, ac_seq, rd, draining, freed, raced>>

acct_close(p, v) ==
    /\ v \in Tracked /\ parsepermissions(trk[v], "CLOSE", {})
    /\ Begin(p, "CLOSE", v)
    /\ UNCHANGED <<ena, list, ac_seq, rd, draining, freed, raced>>

\* Whatever happened to the file, tracking ends.
GoneHook(p, k, v) ==
    /\ v \in Tracked
    /\ IF parsepermissions(trk[v], k, {}) THEN Begin(p, "GONE", v)
       ELSE hook[p] = NoHook /\ trktree_vnoderemove(v, hook)
    /\ UNCHANGED <<ena, list, ac_seq, rd, draining, freed, raced>>

acct_rename(p, v) == GoneHook(p, "RENAME", v)

acct_unlink(p, v) == GoneHook(p, "UNLINK", v)

\* dorenameat calls the hook before it renames, unless a name is not found or
\* just one of the two is a directory; so tracking ends also when nothing is
\* renamed.
dorenameat(p, v) == v # None /\ acct_rename(p, v)

\* dounlinkat calls it at the end, also when the removal was refused or failed.
dounlinkat(p, v) == v # None /\ acct_unlink(p, v)

\* acct_void and the copy of n->trk_name, then the malloc of make_node.
Fill(p) ==
    /\ hook[p].pc = "malloc"
    /\ hook' = [hook EXCEPT ![p].pc = "make_node"]
    /\ freed' = (freed \/ ~hook[p].live)
    /\ UNCHANGED <<ena, fcount, trk, list, ac_seq, rd, draining, raced>>

Insert == list' = <<ac_seq>> \o list /\ ac_seq' = ac_seq + 1

wakeup(wake) == rd' = IF wake /\ rd = "asleep" THEN "woken" ELSE rd

\* Mutant: the list is tested after the insertion.
add_nodeLate(p) ==
    /\ hook[p].pc = "make_node" /\ hook[p].kind # "CLOSE"
    /\ Insert /\ wakeup(list' = <<>>)
    /\ hook' = [hook EXCEPT ![p] = NoHook]
    /\ UNCHANGED <<ena, fcount, trk, draining, freed, raced>>

\* add_node under the kernel lock, then what is left of the hook.
add_node(p) ==
    /\ hook[p].pc = "make_node" /\ hook[p].kind # "CLOSE"
    /\ Insert /\ wakeup(list = <<>>)
    /\ LET h == [hook EXCEPT ![p] = NoHook]
       IN  IF hook[p].kind = "GONE"
           THEN freed' = (freed \/ ~hook[p].live) /\ trktree_vnoderemove(hook[p].v, h)
           ELSE hook' = h /\ UNCHANGED <<trk, fcount, freed>>
    /\ UNCHANGED <<ena, draining, raced>>

\* add_node without the kernel lock: the test of the list, the insertion and
\* the wake-up.
CloseTest(p) ==
    /\ hook[p].pc = "make_node" /\ hook[p].kind = "CLOSE"
    /\ hook' = [hook EXCEPT ![p].pc = "insert", ![p].wake = (list = <<>>)]
    /\ UNCHANGED <<ena, fcount, trk, list, ac_seq, rd, draining, freed, raced>>

CloseInsert(p) ==
    /\ hook[p].pc = "insert"
    /\ Insert
    /\ hook' = [hook EXCEPT ![p].pc = "wakeup"]
    /\ raced' = (raced \/ (list = <<>> /\ ~hook[p].wake))
    /\ UNCHANGED <<ena, fcount, trk, rd, draining, freed>>

\* Mutant: no wake-up.
CloseWakeNot(p) ==
    /\ hook[p].pc = "wakeup"
    /\ hook' = [hook EXCEPT ![p] = NoHook]
    /\ UNCHANGED <<ena, fcount, trk, list, ac_seq, rd, draining, freed, raced>>

CloseWake(p) ==
    /\ hook[p].pc = "wakeup"
    /\ wakeup(hook[p].wake)
    /\ hook' = [hook EXCEPT ![p] = NoHook]
    /\ UNCHANGED <<ena, fcount, trk, list, ac_seq, draining, freed, raced>>

\* Steps under the kernel lock, and steps without it.
LockedHook(p) ==
    /\ ~draining
    /\ \/ acct_fork(p) \/ acct_exec(p) \/ acct_exit(p)
       \/ \E v \in Files, flags \in Opens : acct_open(p, v, flags)
       \/ \E v \in path_to_vnode : dorenameat(p, v) \/ dounlinkat(p, v)
       \/ hook[p].kind # "CLOSE" /\ Fill(p)
       \/ add_node(p)

CloseHook(p) ==
    \/ \E v \in Files : acct_close(p, v)
    \/ hook[p].kind = "CLOSE" /\ Fill(p)
    \/ CloseTest(p) \/ CloseInsert(p) \/ CloseWake(p)
=============================================================================
