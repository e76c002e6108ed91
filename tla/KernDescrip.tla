---------------------------- MODULE KernDescrip -----------------------------
(***************************************************************************)
(* Threads that share descriptor tables (kern_descrip.c) and open files    *)
(* (doopenat and sys_fhopen in vfs_syscalls.c).                            *)
(*                                                                         *)
(* A system call is a sequence of steps.  A step is what happens under one *)
(* lock or is one atomic operation: fdplock protects a table, fd_fplock    *)
(* one look at or change of a slot, fhdlk the list of open files; f_count  *)
(* is atomic.  fd_getfile takes no fdplock and may fall between any two    *)
(* steps.  Calls that today run under the kernel lock interleave in more   *)
(* ways here than they can there.                                          *)
(*                                                                         *)
(* vn_open, record locks and the close operation of a file are external.   *)
(* All record locks are exclusive.                                         *)
(***************************************************************************)
EXTENDS FileDesc, Sequences

CONSTANTS
    Threads, Tables, Files, Vnodes,
    FDUP_MAX_COUNT,     \* references at which a file is not duplicated any more
    maxfiles,           \* open files in the system
    Scenarios           \* [tab, file, filehead, fdp, calls, left]: states to start from,
                        \* the calls a thread may make and how many of them

\* The maps of table T are true to its slots; marked are in use with no file.
Exact(T, marked) ==
    /\ T.lomap = {fd \in Fd : T.ofiles[fd] # None} \cup marked
    /\ T.himap = {w \in {Word(fd) : fd \in Fd} : Bits(w) \subseteq T.lomap}
    /\ T.openfd = Cardinality(T.lomap)
    /\ T.lastfile = Max({0} \cup T.lomap) /\ T.lastfile < T.nfiles

FreeExact(T) == \A fd \in 0 .. T.freefile - 1 : fd_inuse(T, fd)

OnFile == {"dup", "dup2", "fstat", "setfl", "getlk", "setfd", "setlk", "unlck", "flock", "funlock"}
CallNames == OnFile \cup {"close", "open", "fhopen", "fork", "closefrom", "exec", "exit", "iter"}

\* The states to start from are ones in which no thread is in a call.
ASSUME ScenarioAssumption ==
    /\ None \notin Threads \cup Tables \cup Files /\ None \notin Table(Files \cup {None})
    /\ \A s \in Scenarios :
         /\ s.tab \in [Tables -> Table(Files \cup {None}) \cup {None}]
         /\ \A t \in Tables : s.tab[t] # None =>
              /\ s.tab[t].nfiles = NDFILE \/ Doubled(s.tab[t].nfiles)
              /\ Exact(s.tab[t], {}) /\ FreeExact(s.tab[t])
         /\ s.fdp \in [Threads -> Tables \cup {None}]
         /\ \A p \in Threads :
              /\ s.fdp[p] # None => s.tab[s.fdp[p]] # None
              /\ \A c \in s.calls[p] : c.name \in CallNames /\ c.fd \in Nat /\ c.new \in Nat

VARIABLES
    scn,
    tab,            \* tab[t]: the struct filedesc t, None while it is not allocated
    lock,           \* lock[t]: the thread that has fdplock(t), or None
    fdp,            \* fdp[p]: the table of thread p, None when p does not exist
    file,           \* file[f]: the struct file f, None while it is not allocated
    filehead,       \* the files with FIF_INSERTED, in the order of the list
    numfiles,
    lockf,          \* <<v, o>>: owner o, a table or a file, has vnode v locked
    th,             \* th[p]: the system call that p is in
    left,           \* left[p]: the calls p may still make
    lost,           \* <<t, fd>>: a descriptor that a failed duplication left in use
    stale,          \* tables that have fd_freefile from one with an empty slot in use
    crossed         \* files unlocked by one flock while another waited

vars == <<scn, tab, lock, fdp, file, filehead, numfiles, lockf, th, left, lost, stale, crossed>>
fileVars == <<file, filehead, numfiles>>
lockVars == <<lockf, crossed>>
rest == <<scn, fdp, left, lost, stale>>

User == [pc |-> "user", call |-> None, fp |-> None, oldfp |-> None, new |-> 0, again |-> FALSE]

Init ==
    /\ scn \in Scenarios
    /\ tab = scn.tab /\ fdp = scn.fdp /\ file = scn.file /\ left = scn.left
    /\ lock = [t \in Tables |-> None]
    /\ filehead = scn.filehead
    /\ numfiles = Cardinality({f \in Files : file[f] # None})
    /\ lockf = {} /\ crossed = {} /\ lost = {} /\ stale = {}
    /\ th = [p \in Threads |-> User]

----------------------------------------------------------------------------
\* Parts of steps.
Mine(p) == tab[fdp[p]]
Arg(p) == th[p].call
Goto(p, pc) == th' = [th EXCEPT ![p].pc = pc]
Return(p) == th' = [th EXCEPT ![p] = User]
SetTab(p, t) == tab' = [tab EXCEPT ![fdp[p]] = t]

fdplock(p) == lock[fdp[p]] = None
Keep(p) == lock' = [lock EXCEPT ![fdp[p]] = p]
fdpunlock(p) == lock' = [lock EXCEPT ![fdp[p]] = None]

\* The file in a slot, None if there is none.
Slot(t, fd) == IF fd >= t.nfiles THEN None ELSE t.ofiles[fd]

\* f_count of f changes by n.
Count(f, n) == file' = [file EXCEPT ![f].count = @ + n]

IsVnode(f) == file[f].type = "vnode"
Free(v, o) == \A x \in lockf : x[1] = v => x[2] = o

\* The calls that end in a loop over descriptors go on with it, the others return.
Loops == {"closefrom", "exec", "exit", "iter"}

After(p) ==
    IF (Arg(p).name \notin Loops /\ ~th[p].again) \/ (Arg(p).name = "iter" /\ th[p].oldfp = None)
    THEN Return(p)
    ELSE th' = [th EXCEPT ![p] =
                  [@ EXCEPT !.pc = IF Arg(p).name \in Loops THEN Arg(p).name ELSE "getfile",
                            !.fp = IF Arg(p).name = "iter" THEN th[p].oldfp ELSE None,
                            !.oldfp = None, !.again = FALSE]]

Alone(p) == \A q \in Threads \ {p} : fdp[q] = fdp[p] => th[q].pc = "user"

\* A thread makes a system call.  exec and exit wait until the other threads
\* of the process are gone.  fork needs a child: Threads and Tables are its bound.
Entry(c) ==
    CASE c.name \in OnFile -> "getfile"
      [] c.name = "fhopen" -> "open"
      [] OTHER -> c.name

Enter(p) == \E c \in scn.calls[p] :
    /\ th[p].pc = "user" /\ fdp[p] # None /\ left[p] > 0
    /\ c.name \in {"exec", "exit"} => Alone(p)
    /\ c.name = "fork" => (\E q \in Threads : fdp[q] = None) /\ (\E t \in Tables : tab[t] = None)
    /\ th' = [th EXCEPT ![p] = [User EXCEPT !.pc = Entry(c), !.call = c, !.new = c.new]]
    /\ left' = [left EXCEPT ![p] = @ - 1]
    /\ fdp' = [q \in Threads |->
                 IF c.name \in {"exec", "exit"} /\ q # p /\ fdp[q] = fdp[p] THEN None ELSE fdp[q]]
    /\ UNCHANGED <<scn, tab, lock, lost, stale, lockVars, fileVars>>

\* fd_getfile: one more reference to the file, EBADF if there is none.
fd_getfile(p) ==
    LET f == Slot(Mine(p), Arg(p).fd)
    IN  /\ th[p].pc = "getfile"
        /\ IF f = None
           THEN Return(p) /\ UNCHANGED file
           ELSE /\ Count(f, 1)
                /\ th' = [th EXCEPT ![p].pc = Arg(p).name, ![p].fp = f]
        /\ UNCHANGED <<rest, tab, lock, lockVars, filehead, numfiles>>

----------------------------------------------------------------------------
\* sys_dup, dodup3 and fcntl(F_DUPFD).  A table that is too small is made
\* larger, and the call starts again without its reference.
Expand(p) ==
    /\ SetTab(p, fdexpand(Mine(p)))
    /\ th' = [th EXCEPT ![p].pc = "frele", ![p].again = TRUE]
    /\ UNCHANGED lock

sys_dup(p) ==
    /\ th[p].pc = "dup"
    /\ \E r \in {fdalloc(Mine(p), Arg(p).new)} :
        \/ /\ Arg(p).new >= Lim                              \* EINVAL
           /\ Goto(p, "frele") /\ UNCHANGED <<tab, lock>>
        \/ /\ Arg(p).new < Lim /\ fdplock(p) /\ r.error = "0"
           /\ SetTab(p, r.tab) /\ Keep(p)
           /\ th' = [th EXCEPT ![p].pc = "finishdup", ![p].new = r.fd]
        \/ Arg(p).new < Lim /\ fdplock(p) /\ r.error = "ENOSPC" /\ Expand(p)
        \/ /\ Arg(p).new < Lim /\ fdplock(p) /\ r.error = "EMFILE"
           /\ Goto(p, "frele") /\ UNCHANGED <<tab, lock>>
    /\ UNCHANGED <<rest, fileVars, lockVars>>

\* A descriptor beyond the array always ends in ENOSPC: Lim is larger.
dodup3(p) ==
    /\ th[p].pc = "dup2"
    /\ \/ /\ Arg(p).fd = Arg(p).new \/ Arg(p).new >= Lim
          /\ Goto(p, "frele") /\ UNCHANGED <<tab, lock>>
       \/ /\ Arg(p).fd # Arg(p).new /\ Arg(p).new < Lim /\ fdplock(p)
          /\ IF Arg(p).new >= Mine(p).nfiles
             THEN Expand(p)
             ELSE /\ th' = [th EXCEPT ![p].pc = "finishdup", ![p].new = Arg(p).new]
                  /\ Keep(p) /\ UNCHANGED tab
    /\ UNCHANGED <<rest, fileVars, lockVars>>

\* Mutant: dup2 takes a descriptor that another thread's open has reserved.
BusyNever(p) == FALSE

Busy(p) == fd_inuse(Mine(p), th[p].new)

\* Mutant: the error path leaves the table locked.
FailLocked(p) == UNCHANGED lock /\ Goto(p, "frele")

Fail(p) == fdpunlock(p) /\ Goto(p, "frele")

\* finishdup up to the change of the slot.  A failure does not give back the
\* descriptor that fdalloc has marked.
finishdup(p) ==
    LET new == th[p].new
        old == Slot(Mine(p), new)
        full == file[th[p].fp].count >= FDUP_MAX_COUNT
        take == Arg(p).name = "dup2" /\ old = None
    IN  /\ th[p].pc = "finishdup"
        /\ IF full \/ (take /\ Busy(p))
           THEN /\ Fail(p)
                /\ lost' = IF Arg(p).name = "dup" THEN lost \cup {<<fdp[p], new>>} ELSE lost
                /\ UNCHANGED <<tab, file>>
           ELSE /\ th' = [th EXCEPT ![p].pc = "install", ![p].oldfp = old]
                /\ IF old = None THEN UNCHANGED file ELSE Count(old, 1)
                /\ IF take THEN SetTab(p, fd_used(Mine(p), new)) ELSE UNCHANGED tab
                /\ UNCHANGED <<lock, lost>>
        /\ UNCHANGED <<scn, fdp, left, stale, filehead, numfiles, lockVars>>

\* The slot gets the reference of the call, what was there is closed.
Install(p) ==
    LET new == th[p].new
        ex == IF Arg(p).cloexec THEN Mine(p).exclose \cup {new} ELSE Mine(p).exclose \ {new}
    IN  /\ th[p].pc = "install"
        /\ SetTab(p, [Mine(p) EXCEPT !.ofiles[new] = th[p].fp, !.exclose = ex])
        /\ fdpunlock(p)
        /\ IF th[p].oldfp = None
           THEN Return(p)
           ELSE th' = [th EXCEPT ![p] = [@ EXCEPT !.pc = "closef", !.fp = th[p].oldfp, !.oldfp = None]]
        /\ UNCHANGED <<rest, fileVars, lockVars>>

----------------------------------------------------------------------------
\* Closing.  fdrelease hands the reference of the slot, and one of its own,
\* to closef.
fdrelease(p, fd, t) ==
    LET f == Slot(t, fd)
    IN  /\ SetTab(p, fdremove(t, fd)) /\ Count(f, 1)
        /\ th' = [th EXCEPT ![p].pc = "closef", ![p].fp = f, ![p].new = fd + 1]

sys_close(p) ==
    /\ th[p].pc = "close" /\ fdplock(p)
    /\ IF Slot(Mine(p), Arg(p).fd) = None
       THEN Return(p) /\ UNCHANGED <<tab, file>>
       ELSE fdrelease(p, Arg(p).fd, Mine(p))
    /\ UNCHANGED <<rest, lock, filehead, numfiles, lockVars>>

\* One round of the loops of sys_closefrom and fdcloseexec, which let go of
\* the lock after every descriptor; th.new is the next one.
Shut(p) == Slot(Mine(p), th[p].new) # None
           /\ (Arg(p).name = "exec" => th[p].new \in Mine(p).exclose)

CloseLoop(p) ==
    /\ th[p].pc \in {"closefrom", "exec"} /\ fdplock(p)
    /\ CASE th[p].new > Mine(p).lastfile -> Return(p) /\ UNCHANGED <<tab, file>>
         [] th[p].new <= Mine(p).lastfile /\ Shut(p) -> fdrelease(p, th[p].new, Mine(p))
         [] OTHER -> th' = [th EXCEPT ![p].new = @ + 1] /\ UNCHANGED <<tab, file>>
    /\ UNCHANGED <<rest, lock, filehead, numfiles, lockVars>>

\* fdfree: the only thread left empties the table without the lock.
fdfree(p) ==
    LET t == Mine(p)
        open == {fd \in 0 .. t.lastfile : t.ofiles[fd] # None}
    IN  /\ th[p].pc = "exit"
        /\ IF open = {}
           THEN /\ tab' = [tab EXCEPT ![fdp[p]] = None]
                /\ fdp' = [fdp EXCEPT ![p] = None]
                /\ lost' = {x \in lost : x[1] # fdp[p]}
                /\ Return(p) /\ UNCHANGED file
           ELSE LET fd == Min(open)
                IN  /\ SetTab(p, [t EXCEPT !.ofiles[fd] = None])
                    /\ Count(t.ofiles[fd], 1)
                    /\ th' = [th EXCEPT ![p].pc = "closef", ![p].fp = t.ofiles[fd]]
                    /\ UNCHANGED <<fdp, lost>>
        /\ UNCHANGED <<scn, left, stale, lock, filehead, numfiles, lockVars>>

closef(p) ==
    /\ th[p].pc = "closef"
    /\ Count(th[p].fp, -1) /\ Goto(p, "unlock")
    /\ UNCHANGED <<rest, tab, lock, filehead, numfiles, lockVars>>

DropsLocks(p) == Mine(p).advlock /\ IsVnode(th[p].fp)

\* The rest of closef: the record locks of the process on the file go.  The
\* hook of the acct device is called in the same case only.
CloseUnlock(p) ==
    /\ th[p].pc = "unlock"
    /\ Goto(p, "frele")
    /\ lockf' = IF DropsLocks(p) THEN lockf \ {<<file[th[p].fp].vp, fdp[p]>>} ELSE lockf
    /\ UNCHANGED <<rest, tab, lock, fileVars, crossed>>

\* FRELE: the last reference frees the file.
FRELE(p) ==
    /\ th[p].pc = "frele"
    /\ Count(th[p].fp, -1)
    /\ IF file[th[p].fp].count = 1 THEN Goto(p, "fdrop") ELSE After(p)
    /\ UNCHANGED <<rest, tab, lock, filehead, numfiles, lockVars>>

fdrop(p) ==
    /\ th[p].pc = "fdrop"
    /\ filehead' = SelectSeq(filehead, LAMBDA f : f # th[p].fp)
    /\ Goto(p, "fo_close")
    /\ UNCHANGED <<rest, tab, lock, file, numfiles, lockVars>>

\* fo_close gives up the flock(2) lock of a file that has FIF_HASLOCK.
fo_close(p) ==
    LET f == th[p].fp
    IN  /\ th[p].pc = "fo_close"
        /\ lockf' = IF file[f].haslock THEN {x \in lockf : x[2] # f} ELSE lockf
        /\ file' = [file EXCEPT ![f] = None]
        /\ numfiles' = numfiles - 1
        /\ After(p)
        /\ UNCHANGED <<rest, tab, lock, filehead, crossed>>

----------------------------------------------------------------------------
\* fstat, fpathconf and the like only use the file.
sys_fstat(p) ==
    /\ th[p].pc = "fstat" /\ Goto(p, "frele")
    /\ UNCHANGED <<rest, tab, lock, fileVars, lockVars>>

\* F_SETFL, F_GETFL, F_SETOWN and the like have the file change or read its flags,
\* which are not kept here, and fail with it.
F_SETFL(p) ==
    /\ th[p].pc = "setfl" /\ Goto(p, "frele")
    /\ UNCHANGED <<rest, tab, lock, fileVars, lockVars>>

\* F_GETLK: EINVAL for what is no vnode, else the file system is asked and no
\* lock changes; FD_ADVLOCK stays as it is.
F_GETLK(p) ==
    /\ th[p].pc = "getlk" /\ Goto(p, "frele")
    /\ UNCHANGED <<rest, tab, lock, fileVars, lockVars>>

\* F_SETFD does not look whether the descriptor still has the file.
F_SETFD(p) ==
    /\ th[p].pc = "setfd" /\ fdplock(p)
    /\ SetTab(p, [Mine(p) EXCEPT !.exclose =
                    IF Arg(p).cloexec THEN @ \cup {Arg(p).fd} ELSE @ \ {Arg(p).fd}])
    /\ Goto(p, "frele")
    /\ UNCHANGED <<rest, lock, fileVars, lockVars>>

\* F_SETLK and F_SETLKW: FD_ADVLOCK comes before the lock.
F_SETLK(p) ==
    /\ th[p].pc = "setlk"
    /\ IF IsVnode(th[p].fp)
       THEN SetTab(p, [Mine(p) EXCEPT !.advlock = TRUE]) /\ Goto(p, "advlock")
       ELSE Goto(p, "frele") /\ UNCHANGED tab
    /\ UNCHANGED <<rest, lock, fileVars, lockVars>>

F_UNLCK(p) ==
    /\ th[p].pc = "unlck" /\ Goto(p, "frele")
    /\ lockf' = IF IsVnode(th[p].fp) THEN lockf \ {<<file[th[p].fp].vp, fdp[p]>>} ELSE lockf
    /\ UNCHANGED <<rest, tab, lock, fileVars, crossed>>

\* F_SETLKW waits for the lock, F_SETLK does not.
VOP_ADVLOCK(p) ==
    LET v == file[th[p].fp].vp
    IN  /\ th[p].pc = "advlock"
        /\ \/ Free(v, fdp[p]) /\ lockf' = lockf \cup {<<v, fdp[p]>>}
           \/ ~Free(v, fdp[p]) /\ ~Arg(p).wait /\ UNCHANGED lockf
        /\ Goto(p, "checkclosed")
        /\ UNCHANGED <<rest, tab, lock, fileVars, crossed>>

\* Mutant: the descriptor is not looked at again.
ClosedNever(p) == FALSE

Closed(p) == Mine(p).ofiles[Arg(p).fd] # th[p].fp

\* A lock set after a close of the descriptor is taken back.
fd_checkclosed(p) ==
    /\ th[p].pc = "checkclosed"
    /\ lockf' = IF Closed(p) THEN lockf \ {<<file[th[p].fp].vp, fdp[p]>>} ELSE lockf
    /\ Goto(p, "frele")
    /\ UNCHANGED <<rest, tab, lock, fileVars, crossed>>

\* sys_flock: FIF_HASLOCK is set before the lock and cleared before the unlock.
Flocking(f) == {q \in Threads : th[q].pc = "flockwait" /\ th[q].fp = f}

sys_flock(p) ==
    LET f == th[p].fp
    IN  /\ th[p].pc \in {"flock", "funlock"}
        /\ IF ~IsVnode(f)
           THEN Goto(p, "frele") /\ UNCHANGED <<file, crossed>>
           ELSE /\ file' = [file EXCEPT ![f].haslock = th[p].pc = "flock"]
                /\ Goto(p, IF th[p].pc = "flock" THEN "flockwait" ELSE "flockdrop")
                /\ crossed' = IF th[p].pc = "funlock" /\ Flocking(f) # {}
                              THEN crossed \cup {f} ELSE crossed
        /\ UNCHANGED <<rest, tab, lock, filehead, numfiles, lockf>>

FlockDone(p) ==
    LET f == th[p].fp
        v == file[f].vp
    IN  /\ \/ th[p].pc = "flockwait" /\ Free(v, f) /\ lockf' = lockf \cup {<<v, f>>}
           \/ th[p].pc = "flockwait" /\ ~Free(v, f) /\ ~Arg(p).wait /\ UNCHANGED lockf
           \/ th[p].pc = "flockdrop" /\ lockf' = lockf \ {<<v, f>>}
        /\ Goto(p, "frele")
        /\ UNCHANGED <<rest, tab, lock, fileVars, crossed>>

----------------------------------------------------------------------------
\* doopenat.  falloc marks a descriptor and leaves its slot empty until the
\* file is open; the call has both references of the new file.
NewFile == [count |-> 2, type |-> None, vp |-> None, haslock |-> FALSE]

\* pool_get waits for memory; Files is its bound.
Memory == \E x \in Files : file[x] = None

\* An array that is too small is made larger, and falloc starts again with the lock.
falloc(p) ==
    LET f == CHOOSE x \in Files : file[x] = None
    IN  /\ th[p].pc = "open" /\ lock[fdp[p]] \in {None, p}
        /\ \E r \in {fdalloc(Mine(p), 0)} :
            \/ /\ r.error = "ENOSPC"
               /\ SetTab(p, fdexpand(Mine(p))) /\ Keep(p) /\ UNCHANGED <<th, file, numfiles>>
            \/ /\ r.error = "EMFILE"
               /\ Return(p) /\ fdpunlock(p) /\ UNCHANGED <<tab, file, numfiles>>
            \/ /\ r.error = "0" /\ numfiles >= maxfiles              \* ENFILE
               /\ SetTab(p, fd_unused(r.tab, r.fd))
               /\ Return(p) /\ fdpunlock(p) /\ UNCHANGED <<file, numfiles>>
            \/ /\ r.error = "0" /\ numfiles < maxfiles /\ Memory
               /\ SetTab(p, r.tab)
               /\ file' = [file EXCEPT ![f] = NewFile]
               /\ numfiles' = numfiles + 1
               /\ th' = [th EXCEPT ![p].pc = IF Arg(p).name = "open" THEN "vn_open" ELSE "fhtovp",
                                   ![p].fp = f, ![p].new = r.fd]
               /\ fdpunlock(p)
        /\ UNCHANGED <<rest, filehead, lockVars>>

\* What is opened: a file that exists, one that does not, or /dev/fd/N.
vn_open(p) ==
    /\ th[p].pc = "vn_open"
    /\ \/ Arg(p).how = "missing" /\ Goto(p, "openfail") /\ UNCHANGED file
       \/ Arg(p).how = "fd" /\ Goto(p, "dupfdopen") /\ UNCHANGED file
       \/ /\ Arg(p).how \in {"plain", "lock"}
          /\ file' = [file EXCEPT ![th[p].fp].type = "vnode", ![th[p].fp].vp = Arg(p).v]
          /\ Goto(p, IF Arg(p).how = "lock" THEN "openlock" ELSE "fdinsert")
    /\ UNCHANGED <<rest, tab, lock, filehead, numfiles, lockVars>>

\* sys_fhopen: a handle that is stale, of a socket or refused, or a vnode.  What
\* is checked, and a truncation, come before the lock.
sys_fhopen(p) ==
    /\ th[p].pc = "fhtovp"
    /\ \/ Arg(p).how = "missing" /\ Goto(p, "openfail") /\ UNCHANGED file
       \/ /\ Arg(p).how \in {"plain", "lock"}
          /\ file' = [file EXCEPT ![th[p].fp].type = "vnode", ![th[p].fp].vp = Arg(p).v]
          /\ Goto(p, IF Arg(p).how = "lock" THEN "openlock" ELSE "fdinsert")
    /\ UNCHANGED <<rest, tab, lock, filehead, numfiles, lockVars>>

\* O_EXLOCK, in open perhaps with a truncation that fails although the lock is there.
OpenLock(p) ==
    LET f == th[p].fp
        v == file[f].vp
    IN  /\ th[p].pc = "openlock"
        /\ \/ /\ Free(v, f)
              /\ lockf' = lockf \cup {<<v, f>>}
              /\ file' = [file EXCEPT ![f].haslock = TRUE]
              /\ Goto(p, "fdinsert") \/ (Arg(p).name = "open" /\ Goto(p, "openfail"))
           \/ /\ ~Free(v, f) /\ ~Arg(p).wait
              /\ Goto(p, "openfail") /\ UNCHANGED <<lockf, file>>
        /\ UNCHANGED <<rest, tab, lock, filehead, numfiles, crossed>>

OpenFail(p) ==
    /\ th[p].pc = "openfail" /\ fdplock(p)
    /\ SetTab(p, fdremove(Mine(p), th[p].new)) /\ Goto(p, "closef")
    /\ UNCHANGED <<rest, lock, fileVars, lockVars>>

\* The descriptor gets the file of another one, the new file is closed.
dupfdopen(p) ==
    LET w == Slot(Mine(p), Arg(p).fd)
        new == th[p].new
    IN  /\ th[p].pc = "dupfdopen" /\ fdplock(p)
        /\ \/ /\ w # None /\ file[w].count + 1 < FDUP_MAX_COUNT
              /\ SetTab(p, [Mine(p) EXCEPT !.ofiles[new] = w]) /\ Count(w, 1)
           \/ SetTab(p, fdremove(Mine(p), new)) /\ UNCHANGED file     \* also EACCES
        /\ Goto(p, "closef")
        /\ UNCHANGED <<rest, lock, filehead, numfiles, lockVars>>

\* The hook acct_open is called before.
InsertAfter(f, at) ==
    IF at = None THEN <<f>> \o filehead
    ELSE LET k == CHOOSE i \in DOMAIN filehead : filehead[i] = at
         IN  SubSeq(filehead, 1, k) \o <<f>> \o SubSeq(filehead, k + 1, Len(filehead))

fdinsert(p) ==
    LET new == th[p].new
        f == th[p].fp
    IN  /\ th[p].pc = "fdinsert" /\ fdplock(p)
        /\ filehead' = InsertAfter(f, Mine(p).ofiles[0])
        /\ SetTab(p, [Mine(p) EXCEPT !.ofiles[new] = f,
                        !.exclose = IF Arg(p).cloexec THEN @ \cup {new} ELSE @])
        /\ Goto(p, "frele")
        /\ UNCHANGED <<rest, lock, file, numfiles, lockVars>>

\* fork: a child with a copy of the table.  Files with too many references, the
\* ones that the copy adds included, and kqueues stay behind.
Stay(t) == {fd \in 0 .. t.lastfile :
    LET f == t.ofiles[fd]
        before == Cardinality({e \in 0 .. fd - 1 : t.ofiles[e] = f})
    IN  f # None /\ (file[f].type = "kqueue" \/ file[f].count + before >= FDUP_MAX_COUNT)}

fork(p) == \E q \in Threads, t \in Tables :
    /\ th[p].pc = "fork" /\ fdplock(p)
    /\ fdp[q] = None /\ th[q].pc = "user" /\ tab[t] = None
    /\ LET copy == fdcopy(Mine(p), Stay(Mine(p)))
       IN  /\ tab' = [tab EXCEPT ![t] = copy]
           /\ file' = [f \in Files |->
                IF file[f] = None THEN None
                ELSE [file[f] EXCEPT !.count =
                        @ + Cardinality({fd \in Fd : copy.ofiles[fd] = f})]]
    /\ fdp' = [fdp EXCEPT ![q] = t]
    /\ stale' = IF fdp[p] \in stale \/ \E fd \in Mine(p).lomap : Mine(p).ofiles[fd] = None
                THEN stale \cup {t} ELSE stale \ {t}
    /\ Return(p)
    /\ UNCHANGED <<scn, left, lost, lock, filehead, numfiles, lockVars>>

\* Mutant: a file whose last reference is gone is taken like any other.
AliveAlways(f) == TRUE

Alive(f) == file[f].count > 0

\* fd_iterfile: the next file of the list that is not going, and a reference
\* to it for that of the file before.
fd_iterfile(p) ==
    LET at == IF th[p].fp = None THEN 0 ELSE CHOOSE i \in DOMAIN filehead : filehead[i] = th[p].fp
        next == {i \in at + 1 .. Len(filehead) : Alive(filehead[i])}
        nfp == IF next = {} THEN None ELSE filehead[Min(next)]
    IN  /\ th[p].pc = "iter"
        /\ IF nfp = None THEN UNCHANGED file ELSE Count(nfp, 1)
        /\ CASE th[p].fp # None -> th' = [th EXCEPT ![p].pc = "frele", ![p].oldfp = nfp]
             [] th[p].fp = None /\ nfp # None -> th' = [th EXCEPT ![p].fp = nfp]
             [] OTHER -> Return(p)
        /\ UNCHANGED <<rest, tab, lock, filehead, numfiles, lockVars>>

----------------------------------------------------------------------------
Step(p) ==
    \/ fd_getfile(p) \/ sys_dup(p) \/ dodup3(p) \/ finishdup(p) \/ Install(p)
    \/ sys_close(p) \/ CloseLoop(p) \/ fdfree(p) \/ closef(p) \/ CloseUnlock(p)
    \/ FRELE(p) \/ fdrop(p) \/ fo_close(p)
    \/ sys_fstat(p) \/ F_SETFL(p) \/ F_GETLK(p) \/ F_SETFD(p) \/ F_SETLK(p) \/ VOP_ADVLOCK(p) \/ fd_checkclosed(p)
    \/ F_UNLCK(p) \/ sys_flock(p) \/ FlockDone(p)
    \/ falloc(p) \/ vn_open(p) \/ sys_fhopen(p) \/ OpenLock(p) \/ OpenFail(p) \/ dupfdopen(p) \/ fdinsert(p)
    \/ fork(p) \/ fd_iterfile(p)

Next == \E p \in Threads : Enter(p) \/ Step(p)

\* A step of p is enabled unless p is not in a call or waits for fdplock, for
\* memory or for a record lock.
Asleep(p) ==
    \/ th[p].pc = "user"
    \/ th[p].pc \in {"dup", "dup2"} /\ Arg(p).new < Lim /\ ~fdplock(p)
       /\ (Arg(p).name = "dup2" => Arg(p).fd # Arg(p).new)
    \/ th[p].pc \in {"close", "closefrom", "exec", "openfail", "dupfdopen", "fdinsert",
                     "setfd", "fork"} /\ ~fdplock(p)
    \/ th[p].pc = "open" /\ (lock[fdp[p]] \notin {None, p} \/ ~Memory)
    \/ th[p].pc = "advlock" /\ Arg(p).wait /\ ~Free(file[th[p].fp].vp, fdp[p])
    \/ th[p].pc \in {"openlock", "flockwait"} /\ Arg(p).wait /\ ~Free(file[th[p].fp].vp, th[p].fp)

\* A thread that can go on in the kernel does.  This is WF_vars(Step(p)): its
\* steps, and no other thread's, change th[p], but for the steps of falloc that
\* make the array larger, and those are few.
Fair(p) == ([]<>Asleep(p)) \/ ([]<><<th'[p] # th[p]>>_vars)

Spec == Init /\ [][Next]_vars /\ \A p \in Threads : Fair(p)

----------------------------------------------------------------------------
\* Properties.
Slots(f) == {x \in Tables \X Fd : tab[x[1]] # None /\ tab[x[1]].ofiles[x[2]] = f}

\* The references that threads have in local variables: closef and the calls
\* that open a file have a second one.
Two == {"closef", "vn_open", "fhtovp", "openlock", "openfail", "dupfdopen", "fdinsert"}

Held(f) ==
    {<<p, "fp">> : p \in {q \in Threads : th[q].fp = f /\ th[q].pc \notin {"fdrop", "fo_close"}}}
    \cup {<<p, "own">> : p \in {q \in Threads : th[q].fp = f /\ th[q].pc \in Two}}
    \cup {<<p, "oldfp">> : p \in {q \in Threads : th[q].oldfp = f}}

\* However closes, duplications, forks, failed opens and walks over the list
\* interleave, f_count is the number of slots and local variables that point
\* to the file, nothing points to a file that is freed, and a file that is
\* going gets no new reference (the KASSERTs in closef and fdrop).
CountsExact ==
    /\ \A f \in Files :
         Cardinality(Slots(f)) + Cardinality(Held(f)) = IF file[f] = None THEN 0 ELSE file[f].count
    /\ \A p \in Threads :
         /\ th[p].pc \in {"fdrop", "fo_close"} => file[th[p].fp].count = 0
         /\ th[p].pc = "closef" => file[th[p].fp].count >= 2

Opening == {"vn_open", "fhtovp", "openlock", "openfail", "dupfdopen", "fdinsert"}

\* p has marked a descriptor and not yet filled its slot.
Reserves(p) ==
    \/ th[p].pc \in Opening
    \/ th[p].pc = "finishdup" /\ Arg(p).name = "dup"
    \/ th[p].pc = "install" /\ th[p].oldfp = None

Reserving(t) == {p \in Threads : fdp[p] = t /\ Reserves(p)}

\* While an open sleeps with its descriptor marked and the slot empty, no
\* dup2, close or closefrom of another thread fills, frees or reuses it.
SlotKept == \A p \in Threads : fdp[p] # None /\ p \in Reserving(fdp[p]) =>
    /\ Mine(p).ofiles[th[p].new] = None /\ fd_inuse(Mine(p), th[p].new)
    /\ \A q \in Reserving(fdp[p]) : th[q].new = th[p].new => q = p

Exiting(t) == \E p \in Threads : fdp[p] = t /\ th[p].pc # "user" /\ Arg(p).name = "exit"

\* The bitmaps and the hints of a table stay true to its slots: in use are the
\* filled, the reserved and the lost descriptors, the summary word, the count
\* and the last descriptor agree with them, the array has room for them, and
\* no free descriptor hides below fd_freefile.  The last does not hold of a
\* child, and of its children, when its parent had a descriptor reserved:
\* fdcopy takes the hint over and leaves out what is reserved.
MapExact == \A t \in Tables : tab[t] # None /\ ~Exiting(t) =>
    /\ Exact(tab[t], {th[p].new : p \in Reserving(t)} \cup {fd \in Fd : <<t, fd>> \in lost})
    /\ t \notin stale => FreeExact(tab[t])

Quiet(t) == \A p \in Threads : fdp[p] = t => th[p].pc = "user"

\* A record lock never outlives what it belongs to, also when the descriptor
\* is closed or replaced while fcntl waits for the lock: a process with a lock
\* has the file open, and the last close of a file finds FIF_HASLOCK when it
\* has a flock lock.  The exception is an unlock that clears the flag while
\* another thread waits for the lock of the same file.
LocksOwned == \A x \in lockf :
    LET v == x[1]
        o == x[2]
    IN  /\ o \in Tables => tab[o] # None
        /\ o \in Tables /\ Quiet(o) =>
             \E fd \in Fd : tab[o].ofiles[fd] # None /\ file[tab[o].ofiles[fd]].vp = v
        /\ o \in Files \ crossed =>
             file[o] # None /\ (file[o].haslock \/ \E p \in Threads : th[p].pc = "flockdrop" /\ th[p].fp = o)

\* Every call that does not wait for a record lock returns: nobody sleeps with
\* fdplock held, and a call that starts again after the table was enlarged
\* gets through.
Returns == \A p \in Threads :
    (th[p].pc # "user" /\ ~th[p].call.wait) ~> (th[p].pc = "user")
=============================================================================
