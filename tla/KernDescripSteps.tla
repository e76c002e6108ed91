-------------------------- MODULE KernDescripSteps --------------------------
(***************************************************************************)
(* The inductive invariant of the threads that share descriptor tables     *)
(* (KernDescrip), and the steps that keep it: the ones that leave the      *)
(* tables alone, close a descriptor, change a flag, begin or end an open,  *)
(* duplicate, fork, exit and start a call.                                 *)
(***************************************************************************)
EXTENDS KernDescrip, TLAPS

Shape(r) == DOMAIN r = {"pc", "call", "fp", "oldfp", "new", "again"}

DupCalls == {"dup", "dup2"}
Changing == {"finishdup", "install"}

\* The steps of exit.
Ending == {"exit", "closef", "unlock", "frele", "fdrop", "fo_close"}

\* The steps that belong to the call of the same name or to some calls only.
Special == {"user", "getfile"} \cup Loops \cup DupCalls \cup Changing

\* What a thread knows of its own call.
CallOK(p) ==
    /\ Shape(th[p]) /\ th[p].new \in Nat /\ th[p].again \in BOOLEAN
    /\ th[p].pc # "user" =>
         /\ fdp[p] # None
         /\ Arg(p).name \in CallNames /\ Arg(p).fd \in Nat /\ Arg(p).new \in Nat
    /\ th[p].again => Arg(p).name \in DupCalls
    /\ th[p].pc # "user" /\ Arg(p).name = "exit" => th[p].pc \in Ending
    /\ th[p].pc = "getfile" => Arg(p).name \in OnFile
    /\ th[p].pc \in DupCalls \cup Loops => Arg(p).name = th[p].pc
    /\ th[p].pc \in Changing => Arg(p).name \in DupCalls
    /\ th[p].pc \in Opening \cup DupCalls \cup Changing => th[p].fp \in Files

\* What a thread that has the lock knows of the slot it is about to change.
ChangeOK(p) == th[p].pc \in Changing =>
    /\ lock[fdp[p]] = p
    /\ th[p].new < Mine(p).nfiles
    /\ th[p].pc = "install" /\ th[p].oldfp # None => Mine(p).ofiles[th[p].new] # None

\* The marks on descriptors of t without a file are distinct.
MarksOK(t) == \A p \in Reserving(t) :
    /\ \A q \in Reserving(t) : th[q].new = th[p].new => q = p
    /\ <<t, th[p].new>> \notin lost

Marks(t) == {th[p].new : p \in Reserving(t)} \cup {fd \in Fd : <<t, fd>> \in lost}

\* A table in good order, in which R is reserved.
Sound(T, R) == T \in Table(Files \cup {None}) /\ MapsOK(T) /\ SlotsOK(T, R)

\* The last thread of a process that exits empties the slots and leaves the maps.
TableOK(t) == tab[t] # None =>
    /\ tab[t] \in Table(Files \cup {None})
    /\ ~Exiting(t) => Sound(tab[t], Marks(t)) /\ (t \notin stale => FreeOK(tab[t]))

TypeOK ==
    /\ scn \in Scenarios
    /\ DOMAIN th = Threads /\ fdp \in [Threads -> Tables \cup {None}]
    /\ DOMAIN tab = Tables /\ lock \in [Tables -> Threads \cup {None}]
    /\ \A x \in lost : x \in Tables \X Fd /\ tab[x[1]] # None

CallsOK == \A p \in Threads :
    CallOK(p) /\ ChangeOK(p) /\ (fdp[p] # None => tab[fdp[p]] # None)

LocksOK == \A t \in Tables : lock[t] # None =>
    fdp[lock[t]] = t /\ th[lock[t]].pc \in Changing \cup {"open"}

ExitsOK == \A p, q \in Threads :
    Exiting(fdp[p]) /\ fdp[p] # None /\ fdp[q] = fdp[p] => q = p

TabsOK == \A t \in Tables : MarksOK(t) /\ TableOK(t)

\* The inductive invariant.
TabInv == TypeOK /\ CallsOK /\ LocksOK /\ ExitsOK /\ TabsOK

\* The marks of the other threads, and the lost ones, in the table of p.
Others(p) == {th[q].new : q \in Reserving(fdp[p]) \ {p}} \cup {fd \in Fd : <<fdp[p], fd>> \in lost}

Own(p) == IF Reserves(p) THEN {th[p].new} ELSE {}

----------------------------------------------------------------------------
\* What the steps need of the operations on a table.
Kept(T, R, U, S) == Sound(T, R) => Sound(U, S) /\ (FreeOK(T) => FreeOK(U))

RemoveOp == \A T, R, fd : fd \in T.lomap => Kept(T, R, fdremove(T, fd), R \ {fd})
UnmarkOp == \A T, R, fd : fd \in R => Kept(T, R, fd_unused(T, fd), R \ {fd})
FillOp == \A T, R, fd, f, ex :
    fd \in T.lomap /\ f \in Files /\ ex \in SUBSET Nat => Kept(T, R, Filled(T, fd, f, ex), R \ {fd})
ExpandOp == \A T, R : T.nfiles < Lim => Kept(T, R, fdexpand(T), R)
UsedOp == \A T, R, fd : fd \in Nat /\ fd < T.nfiles /\ fd \notin T.lomap =>
    Kept(T, R, fd_used(T, fd), R \cup {fd}) /\ (Sound(T, R) => fd_used(T, fd).nfiles = T.nfiles)
AllocOp == \A T, R : \A want \in Nat : Sound(T, R) =>
    LET r == fdalloc(T, want)
    IN  /\ r.error = "0" =>
             /\ r.fd \in Nat /\ r.fd \notin R /\ r.fd < T.nfiles /\ r.tab.nfiles = T.nfiles
             /\ Sound(r.tab, R \cup {r.fd}) /\ (FreeOK(T) => FreeOK(r.tab))
        /\ r.error = "ENOSPC" => T.nfiles < Lim
CopyOp == \A T, R, stay : Sound(T, R) /\ stay \in SUBSET (0 .. T.lastfile) =>
    Sound(fdcopy(T, stay), {}) /\ (FreeOK(T) /\ R = {} => FreeOK(fdcopy(T, stay)))

Operations == RemoveOp /\ UnmarkOp /\ FillOp /\ ExpandOp /\ UsedOp /\ AllocOp /\ CopyOp

----------------------------------------------------------------------------
\* A thread in a call other than exit uses a table that is sound.
LEMMA TableOf ==
    ASSUME TabInv, NEW p \in Threads, th[p].pc # "user", Arg(p).name # "exit"
    PROVE  /\ fdp[p] \in Tables /\ Mine(p) # None /\ ~Exiting(fdp[p])
           /\ Sound(Mine(p), Marks(fdp[p]))
           /\ fdp[p] \notin stale => FreeOK(Mine(p))
<1>1. fdp[p] \in Tables /\ fdp[p] # None /\ Mine(p) # None
  BY ScenarioAssumption, Zenon DEF TabInv, CallsOK, TypeOK, CallOK, Mine
<1>2. ~Exiting(fdp[p])
  <2>. SUFFICES ASSUME Exiting(fdp[p]) PROVE FALSE BY Zenon
  <2>1. PICK q \in Threads : fdp[q] = fdp[p] /\ th[q].pc # "user" /\ Arg(q).name = "exit"
    BY Zenon DEF Exiting
  <2>2. q = p BY <1>1, <2>1, Zenon DEF TabInv, ExitsOK
  <2>. QED BY <2>1, <2>2, Zenon
<1>. QED BY <1>1, <1>2, Zenon DEF TabInv, TabsOK, TableOK, Mine

LEMMA MarksSplit ==
    ASSUME TabInv, NEW p \in Threads, fdp[p] \in Tables
    PROVE  /\ Marks(fdp[p]) = Others(p) \cup Own(p)
           /\ Reserves(p) => th[p].new \notin Others(p)
<1>1. CASE Reserves(p)
  <2>1. p \in Reserving(fdp[p]) BY <1>1, Zenon DEF Reserving
  <2>2. Marks(fdp[p]) = Others(p) \cup {th[p].new} BY <2>1, Zenon DEF Marks, Others
  <2>3. th[p].new \notin Others(p) BY <2>1, Zenon DEF TabInv, TabsOK, MarksOK, Others
  <2>. QED BY <1>1, <2>2, <2>3, Zenon DEF Own
<1>2. CASE ~Reserves(p)
  <2>1. p \notin Reserving(fdp[p]) BY <1>2, Zenon DEF Reserving
  <2>. QED BY <1>2, <2>1, Zenon DEF Marks, Others, Own
<1>. QED BY <1>1, <1>2, Zenon

\* A call that has reserved nothing sees the marks of the others only.
LEMMA Unreserved ==
    ASSUME TabInv, NEW p \in Threads, th[p].pc # "user", Arg(p).name # "exit", ~Reserves(p)
    PROVE  Sound(Mine(p), Others(p))
<1>1. fdp[p] \in Tables /\ Sound(Mine(p), Marks(fdp[p])) BY TableOf, Zenon
<1>2. Own(p) = {} BY Zenon DEF Own
<1>3. Marks(fdp[p]) = Others(p) BY <1>1, <1>2, MarksSplit, Zenon
<1>. QED BY <1>1, <1>3, Zenon

\* A step of p that changes its own call and nobody else's.
OnlyThread(p) == DOMAIN th' = Threads /\ \A q \in Threads \ {p} : th'[q] = th[q]

Quiet0 == UNCHANGED <<scn, fdp, lost, stale, tab, lock>>

\* A step that changes neither the table nor what its thread has reserved.
LEMMA QuietStep ==
    ASSUME TabInv, NEW p \in Threads, Quiet0, OnlyThread(p),
           th[p].pc \notin {"user", "open"} \cup Changing, CallOK(p)', th'[p].pc \notin Changing,
           th'[p].pc = "user" => Arg(p).name # "exit",
           th'[p].pc # "user" => Arg(p)' = Arg(p),
           Reserves(p)' <=> Reserves(p), Reserves(p) => th'[p].new = th[p].new
    PROVE  TabInv'
<1>. USE DEF Quiet0, OnlyThread
<1>1. TypeOK' BY Zenon DEF TabInv, TypeOK
<1>2. \A q \in Threads : q # p => (CallOK(q)' <=> CallOK(q)) /\ (ChangeOK(q)' <=> ChangeOK(q))
  BY DEF CallOK, ChangeOK, Arg, Mine
<1>3. ChangeOK(p)' BY Zenon DEF ChangeOK
<1>4. \A q \in Threads : CallOK(q)' /\ ChangeOK(q)' /\ (fdp[q] # None => tab[fdp[q]] # None)'
  BY <1>2, <1>3, Zenon DEF TabInv, CallsOK
<1>5. \A t \in Tables : lock'[t] # None => fdp'[lock'[t]] = t /\ th'[lock'[t]].pc \in Changing \cup {"open"}
  BY DEF TabInv, LocksOK, TypeOK
<1>6. \A t : Exiting(t)' <=> Exiting(t)
  <2>1. \A q \in Threads \ {p} : th'[q].pc = th[q].pc /\ Arg(q)' = Arg(q) BY Zenon DEF Arg
  <2>2. (th'[p].pc # "user" /\ Arg(p)'.name = "exit") <=> (th[p].pc # "user" /\ Arg(p).name = "exit")
    BY Zenon
  <2>. QED BY <2>1, <2>2, Zenon DEF Exiting
<1>7. \A q \in Threads : (Reserves(q)' <=> Reserves(q)) /\ (Reserves(q) => th'[q].new = th[q].new)
  BY DEF Reserves, Arg
<1>8. \A t : Reserving(t)' = Reserving(t) /\ \A q \in Reserving(t) : th'[q].new = th[q].new
  BY <1>7, Zenon DEF Reserving
<1>9. \A t : Marks(t)' = Marks(t) BY <1>8 DEF Marks
<1>10. \A t \in Tables : MarksOK(t)' BY <1>8 DEF TabInv, TabsOK, MarksOK
<1>11. \A t \in Tables : TableOK(t)' BY <1>6, <1>9, Zenon DEF TabInv, TabsOK, TableOK
<1>12. \A q, s \in Threads : (Exiting(fdp[q]) /\ fdp[q] # None /\ fdp[s] = fdp[q] => s = q)'
  BY <1>6, Zenon DEF TabInv, ExitsOK
<1>. QED BY <1>1, <1>4, <1>5, <1>10, <1>11, <1>12, Zenon DEF TabInv, CallsOK, LocksOK, ExitsOK, TabsOK

\* A step of p takes or gives back fdplock, or does without and changes no slot.
LockStep(p, U) ==
    \/ /\ lock[fdp[p]] \in {None, p}
       /\ \/ fdpunlock(p)
          \/ fdplock(p) /\ UNCHANGED lock
          \/ (Keep(p) \/ UNCHANGED lock) /\ th'[p].pc \in Changing \cup {"open"}
    \/ /\ UNCHANGED lock /\ th[p].pc \notin Changing \cup {"open"}
       /\ U.nfiles = Mine(p).nfiles /\ U.ofiles = Mine(p).ofiles

LEMMA LockFacts ==
    ASSUME TabInv, NEW p \in Threads, fdp[p] \in Tables, NEW U, LockStep(p, U), OnlyThread(p), fdp' = fdp
    PROVE  /\ lock' \in [Tables -> Threads \cup {None}]
           /\ \A t \in Tables : t # fdp[p] => lock'[t] = lock[t]
           /\ \A t \in Tables : lock'[t] # None =>
                fdp'[lock'[t]] = t /\ th'[lock'[t]].pc \in Changing \cup {"open"}
<1>. DEFINE u == fdp[p]
<1>1. lock \in [Tables -> Threads \cup {None}] BY Zenon DEF TabInv, TypeOK
<1>2. /\ lock' \in [Tables -> Threads \cup {None}] /\ \A t \in Tables : t # u => lock'[t] = lock[t]
      /\ \/ lock'[u] = None
         \/ lock'[u] = p /\ th'[p].pc \in Changing \cup {"open"}
         \/ lock'[u] = lock[u] /\ th[p].pc \notin Changing \cup {"open"}
  BY <1>1, Zenon DEF LockStep, fdpunlock, fdplock, Keep
<1>3. ASSUME NEW t \in Tables, lock[t] # None, lock[t] # p
      PROVE  fdp[lock[t]] = t /\ th'[lock[t]].pc \in Changing \cup {"open"}
  BY <1>1, <1>3 DEF TabInv, LocksOK, OnlyThread
<1>4. \A t \in Tables : t # u => lock[t] # p BY <1>1, ScenarioAssumption, Zenon DEF TabInv, LocksOK
<1>5. th[p].pc \notin Changing \cup {"open"} => lock[u] # p BY <1>1, ScenarioAssumption, Zenon DEF TabInv, LocksOK
<1>. QED BY <1>2, <1>3, <1>4, <1>5


\* A step that changes one table.
LEMMA TableStep ==
    ASSUME TabInv, NEW p \in Threads, UNCHANGED <<scn, fdp, lost, stale>>, OnlyThread(p),
           th[p].pc # "user", Arg(p).name # "exit", CallOK(p)', ChangeOK(p)',
           th'[p].pc # "user" => Arg(p)' = Arg(p),
           NEW U, tab' = [tab EXCEPT ![fdp[p]] = U] \/ (tab' = tab /\ U = Mine(p)),
           LockStep(p, U),
           Sound(U, Others(p) \cup Own(p)'),
           Reserves(p)' => th'[p].new \notin Others(p),
           fdp[p] \notin stale => FreeOK(U)
    PROVE  TabInv'
<1>. DEFINE u == fdp[p]
<1>1. u \in Tables /\ tab[u] # None /\ ~Exiting(u) BY TableOf, Zenon DEF Mine
<1>2. tab'[u] = U /\ \A t \in Tables : t # u => tab'[t] = tab[t] BY <1>1, Zenon DEF TabInv, TypeOK, Mine
<1>3. /\ lock' \in [Tables -> Threads \cup {None}] /\ \A t \in Tables : t # u => lock'[t] = lock[t]
      /\ \A t \in Tables : lock'[t] # None =>
           fdp'[lock'[t]] = t /\ th'[lock'[t]].pc \in Changing \cup {"open"}
  BY <1>1, LockFacts, Zenon
<1>4. U \in Table(Files \cup {None}) /\ U # None BY ScenarioAssumption, Zenon DEF Sound
<1>. USE DEF OnlyThread
<1>5. TypeOK'
  <2>1. DOMAIN tab' = Tables BY Zenon DEF TabInv, TypeOK
  <2>2. \A x \in lost : x \in Tables \X Fd /\ tab'[x[1]] # None BY <1>2, <1>4, Zenon DEF TabInv, TypeOK
  <2>. QED BY <1>3, <2>1, <2>2, Zenon DEF TabInv, TypeOK
<1>6. \A q \in Threads : q # p => (CallOK(q)' <=> CallOK(q)) BY DEF CallOK, Arg
<1>7. ASSUME NEW q \in Threads, q # p PROVE ChangeOK(q)'
  <2>. SUFFICES ASSUME th[q].pc \in Changing PROVE ChangeOK(q)' BY <1>7, Zenon DEF ChangeOK
  <2>1. lock[fdp[q]] = q /\ ChangeOK(q) BY Zenon DEF TabInv, CallsOK, ChangeOK
  <2>2. fdp[q] \in Tables
    <3>1. fdp[q] # None BY Zenon DEF TabInv, CallsOK, CallOK, Changing
    <3>. QED BY <3>1, Zenon DEF TabInv, TypeOK
  <2>3. CASE fdp[q] # u
    <3>1. tab'[fdp[q]] = tab[fdp[q]] /\ lock'[fdp[q]] = lock[fdp[q]] /\ fdp' = fdp /\ th'[q] = th[q]
      BY <1>2, <1>3, <1>7, <2>2, <2>3, Zenon
    <3>. QED BY <2>1, <3>1, Zenon DEF ChangeOK, Mine
  <2>4. CASE fdp[q] = u
    <3>1. lock' = lock /\ U.nfiles = Mine(p).nfiles /\ U.ofiles = Mine(p).ofiles
      BY <1>7, <2>1, <2>4, ScenarioAssumption, Zenon DEF LockStep
    <3>2. tab'[fdp[q]].nfiles = Mine(q).nfiles /\ tab'[fdp[q]].ofiles = Mine(q).ofiles /\ th'[q] = th[q]
      BY <1>2, <1>7, <2>4, <3>1, Zenon DEF Mine
    <3>. QED BY <2>1, <3>1, <3>2, Zenon DEF ChangeOK, Mine
  <2>. QED BY <2>3, <2>4, Zenon
<1>8. \A q \in Threads : CallOK(q)' /\ ChangeOK(q)' /\ (fdp[q] # None => tab[fdp[q]] # None)'
  <2>1. \A q \in Threads : fdp[q] # None => tab'[fdp[q]] # None BY <1>2, <1>4 DEF TabInv, CallsOK, TypeOK
  <2>. QED BY <1>6, <1>7, <2>1, Zenon DEF TabInv, CallsOK
<1>10. \A t : Exiting(t)' <=> Exiting(t)
  <2>1. \A q \in Threads \ {p} : th'[q].pc = th[q].pc /\ Arg(q)' = Arg(q) BY Zenon DEF Arg
  <2>2. (th'[p].pc # "user" /\ Arg(p)'.name = "exit") <=> (th[p].pc # "user" /\ Arg(p).name = "exit")
    BY Zenon
  <2>. QED BY <2>1, <2>2, Zenon DEF Exiting
<1>11. \A q \in Threads \ {p} : (Reserves(q)' <=> Reserves(q)) /\ th'[q].new = th[q].new
  BY Zenon DEF Reserves, Arg
<1>12. \A t : t # u => Reserving(t)' = Reserving(t) /\ p \notin Reserving(t)
  BY <1>11, Zenon DEF Reserving
<1>13. /\ \A q \in Threads : q \in Reserving(u)' /\ q # p <=> q \in Reserving(u) /\ q # p
       /\ p \in Reserving(u)' <=> Reserves(p)'
  BY <1>11, Zenon DEF Reserving
<1>14. Reserving(u)' \subseteq Threads /\ Reserving(u) \subseteq Threads BY Zenon DEF Reserving
<1>15. Marks(u)' = Others(p) \cup Own(p)'
  <2>1. Reserving(u)' \ {p} = Reserving(u) \ {p} BY <1>13, <1>14, Zenon
  <2>2. {th'[q].new : q \in Reserving(u)' \ {p}} = {th[q].new : q \in Reserving(u) \ {p}}
    BY <1>11, <1>14, <2>1
  <2>3. {th'[q].new : q \in Reserving(u)'} = {th'[q].new : q \in Reserving(u)' \ {p}} \cup Own(p)'
    BY <1>13, Zenon DEF Own
  <2>. QED BY <2>2, <2>3, Zenon DEF Marks, Others
<1>16. \A t : t # u => Marks(t)' = Marks(t) BY <1>11, <1>12 DEF Marks, Reserving
<1>17. \A t \in Tables : MarksOK(t)'
  <2>1. ASSUME NEW t \in Tables, t # u PROVE MarksOK(t)'
    <3>1. MarksOK(t) BY Zenon DEF TabInv, TabsOK
    <3>2. Reserving(t)' = Reserving(t) /\ \A q \in Reserving(t) : th'[q].new = th[q].new
      BY <1>11, <1>12, <2>1, Zenon DEF Reserving
    <3>. QED BY <3>1, <3>2 DEF MarksOK
  <2>2. MarksOK(u)'
    <3>1. \A q \in Threads : q \in Reserving(u)' /\ q # p => q \in Reserving(u) /\ th'[q].new = th[q].new
      BY <1>11, <1>13, Zenon
    <3>2. \A q \in Threads : q \in Reserving(u)' /\ q # p => th'[q].new \in Others(p)
      BY <3>1, Zenon DEF Others
    <3>3. p \in Reserving(u)' => th'[p].new \notin Others(p) BY <1>13, Zenon
    <3>4. p \in Reserving(u)' => <<u, th'[p].new>> \notin lost
      BY <3>3, Zenon DEF Others, TabInv, TypeOK
    <3>5. MarksOK(u) BY <1>1, Zenon DEF TabInv, TabsOK
    <3>. QED BY <1>14, <3>1, <3>2, <3>3, <3>4, <3>5 DEF MarksOK
  <2>. QED BY <2>1, <2>2, Zenon
<1>18. \A t \in Tables : TableOK(t)'
  <2>1. TableOK(u)' BY <1>2, <1>4, <1>15, Zenon DEF TableOK
  <2>2. ASSUME NEW t \in Tables, t # u PROVE TableOK(t)'
    <3>1. TableOK(t) BY Zenon DEF TabInv, TabsOK
    <3>2. tab'[t] = tab[t] /\ (Exiting(t)' <=> Exiting(t)) /\ Marks(t)' = Marks(t) /\ stale' = stale
      BY <1>2, <1>10, <1>16, <2>2, Zenon
    <3>. QED BY <3>1, <3>2, Zenon DEF TableOK
  <2>. QED BY <2>1, <2>2, Zenon
<1>19. \A q, s \in Threads : (Exiting(fdp[q]) /\ fdp[q] # None /\ fdp[s] = fdp[q] => s = q)'
  BY <1>10, Zenon DEF TabInv, ExitsOK
<1>. QED BY <1>3, <1>5, <1>8, <1>17, <1>18, <1>19, Zenon DEF TabInv, CallsOK, LocksOK, ExitsOK, TabsOK


----------------------------------------------------------------------------
\* What the parts of steps do to the call of their thread.
LEMMA CallKept ==
    ASSUME TabInv, NEW p \in Threads, OnlyThread(p), fdp' = fdp, th[p].pc # "user",
           Shape(th'[p]), th'[p].call = th[p].call, th'[p].new \in Nat, th'[p].again \in BOOLEAN,
           th'[p].again => Arg(p).name \in DupCalls,
           th'[p].pc \notin Special, th'[p].pc \in Opening => th'[p].fp \in Files,
           Arg(p).name = "exit" => th'[p].pc \in Ending
    PROVE  CallOK(p)' /\ ChangeOK(p)' /\ Arg(p)' = Arg(p)
<1>1. CallOK(p) BY Zenon DEF TabInv, CallsOK
<1>2. Arg(p)' = Arg(p) BY Zenon DEF Arg
<1>3. CallOK(p)' BY <1>1, <1>2, Zenon DEF CallOK, Special
<1>4. ChangeOK(p)' BY Zenon DEF ChangeOK, Special
<1>. QED BY <1>2, <1>3, <1>4, Zenon

LEMMA GotoFacts ==
    ASSUME TabInv, NEW p \in Threads, NEW pc, Goto(p, pc)
    PROVE  /\ OnlyThread(p) /\ Shape(th'[p]) /\ th'[p].pc = pc /\ th'[p].call = th[p].call
           /\ th'[p].fp = th[p].fp /\ th'[p].oldfp = th[p].oldfp /\ th'[p].new = th[p].new
           /\ th'[p].again = th[p].again
<1>1. DOMAIN th = Threads /\ Shape(th[p]) BY Zenon DEF TabInv, CallsOK, TypeOK, CallOK
<1>. QED BY <1>1, Zenon DEF Goto, OnlyThread, Shape

LEMMA ReturnFacts ==
    ASSUME TabInv, NEW p \in Threads, Return(p)
    PROVE  OnlyThread(p) /\ th'[p].pc = "user" /\ CallOK(p)' /\ ~Reserves(p)' /\ ChangeOK(p)'
<1>1. DOMAIN th = Threads BY Zenon DEF TabInv, TypeOK
<1>2. OnlyThread(p) /\ th'[p] = User BY <1>1, Zenon DEF Return, OnlyThread
<1>3. Shape(th'[p]) /\ th'[p].pc = "user" BY <1>2 DEF Shape, User
<1>4. "user" \notin Opening \cup DupCalls \cup Changing \cup Loops
  BY Zenon DEF Opening, DupCalls, Changing, Loops
<1>5. CallOK(p)'
  <2>1. th'[p].new \in Nat BY <1>2 DEF User
  <2>2. th'[p].again = FALSE BY <1>2 DEF User
  <2>3. th'[p].again \in BOOLEAN /\ ~th'[p].again BY <2>2, Zenon
  <2>. QED BY <1>3, <1>4, <2>1, <2>3 DEF CallOK
<1>6. ~Reserves(p)' BY <1>3, <1>4, Zenon DEF Reserves
<1>7. ChangeOK(p)' BY <1>3, <1>4, Zenon DEF ChangeOK
<1>. QED BY <1>2, <1>3, <1>5, <1>6, <1>7, Zenon

LEMMA GotoQuiet ==
    ASSUME TabInv, NEW p \in Threads, NEW pc, Goto(p, pc), Quiet0,
           th[p].pc \notin {"user", "open"} \cup Changing, pc \notin Special,
           pc \in Opening <=> th[p].pc \in Opening, th[p].pc \in Ending => pc \in Ending
    PROVE  TabInv'
<1>1. /\ OnlyThread(p) /\ Shape(th'[p]) /\ th'[p].pc = pc /\ th'[p].call = th[p].call
      /\ th'[p].fp = th[p].fp /\ th'[p].oldfp = th[p].oldfp /\ th'[p].new = th[p].new
      /\ th'[p].again = th[p].again
  BY GotoFacts, Zenon
<1>2. CallOK(p) BY Zenon DEF TabInv, CallsOK
<1>3. CallOK(p)' /\ Arg(p)' = Arg(p) BY <1>1, <1>2, CallKept, Zenon DEF CallOK, Quiet0
<1>4. Reserves(p)' <=> Reserves(p) BY <1>1, Zenon DEF Reserves, Changing, Special
<1>. QED BY <1>1, <1>3, <1>4, QuietStep, Zenon DEF Special

LEMMA ReturnQuiet ==
    ASSUME TabInv, NEW p \in Threads, Return(p), Quiet0,
           th[p].pc \notin {"user", "open"} \cup Changing \cup Opening, Arg(p).name # "exit"
    PROVE  TabInv'
<1>1. OnlyThread(p) /\ th'[p].pc = "user" /\ CallOK(p)' /\ ~Reserves(p)' BY ReturnFacts, Zenon
<1>2. ~Reserves(p) BY Zenon DEF Reserves, Changing
<1>3. th'[p].pc \notin Changing BY <1>1, Zenon DEF Changing
<1>. QED BY <1>1, <1>2, <1>3, QuietStep, Zenon

\* A loop goes on with the name of its call, a dup that starts again with its file.
LEMMA AfterQuiet ==
    ASSUME TabInv, NEW p \in Threads, After(p), Quiet0, th[p].pc \in {"frele", "fo_close"}
    PROVE  TabInv'
<1>1. th[p].pc \notin {"user", "open"} /\ th[p].pc \notin Changing \cup Opening BY Zenon DEF Changing, Opening
<1>2. CASE (Arg(p).name \notin Loops /\ ~th[p].again) \/ (Arg(p).name = "iter" /\ th[p].oldfp = None)
  <2>1. Return(p) BY <1>2, Zenon DEF After
  <2>2. Arg(p).name # "exit" BY <1>2, Zenon DEF Loops
  <2>. QED BY <1>1, <2>1, <2>2, ReturnQuiet, Zenon
<1>3. CASE ~((Arg(p).name \notin Loops /\ ~th[p].again) \/ (Arg(p).name = "iter" /\ th[p].oldfp = None))
  <2>. DEFINE pc == IF Arg(p).name \in Loops THEN Arg(p).name ELSE "getfile"
  <2>1. th' = [th EXCEPT ![p] = [th[p] EXCEPT !.pc = pc,
                 !.fp = IF Arg(p).name = "iter" THEN th[p].oldfp ELSE None, !.oldfp = None, !.again = FALSE]]
    BY <1>3, Zenon DEF After
  <2>2. DOMAIN th = Threads /\ Shape(th[p]) /\ CallOK(p) BY Zenon DEF TabInv, CallsOK, TypeOK, CallOK
  <2>3. /\ OnlyThread(p) /\ Shape(th'[p]) /\ th'[p].pc = pc /\ th'[p].call = th[p].call
        /\ th'[p].new = th[p].new /\ th'[p].again = FALSE
    BY <2>1, <2>2, Zenon DEF OnlyThread, Shape
  <2>4. Arg(p)' = Arg(p) BY <2>3, Zenon DEF Arg
  <2>5. Arg(p).name \notin Loops => Arg(p).name \in OnFile
    BY <1>3, <2>2, Zenon DEF CallOK, DupCalls, OnFile
  <2>6. pc \notin {"user"} \cup Changing \cup Opening \cup DupCalls BY Zenon DEF Loops, Changing, Opening, DupCalls
  <2>7. CallOK(p)'
    <3>. HIDE DEF pc
    <3>1. pc \in Loops => pc = Arg(p).name BY Zenon DEF Loops, pc
    <3>2. pc = "getfile" => Arg(p).name \in OnFile BY <2>5, Zenon DEF Loops, pc
    <3>3. Arg(p).name = "exit" => pc \in Ending BY Zenon DEF Loops, Ending, pc
    <3>. QED BY <1>1, <2>2, <2>3, <2>4, <2>6, <3>1, <3>2, <3>3, Zenon DEF CallOK, Quiet0
  <2>8. ~Reserves(p) /\ ~Reserves(p)' BY <1>1, <2>3, <2>6, Zenon DEF Reserves, Changing
  <2>. HIDE DEF pc
  <2>. QED BY <1>1, <2>3, <2>4, <2>6, <2>7, <2>8, QuietStep, Zenon
<1>. QED BY <1>2, <1>3, Zenon

----------------------------------------------------------------------------
\* The steps that leave tables alone.
LEMMA FileSteps ==
    ASSUME TabInv, NEW p \in Threads,
           \/ closef(p) \/ CloseUnlock(p) \/ FRELE(p) \/ fdrop(p) \/ fo_close(p)
           \/ sys_fstat(p) \/ F_SETFL(p) \/ F_GETLK(p) \/ F_UNLCK(p) \/ VOP_ADVLOCK(p)
           \/ fd_checkclosed(p) \/ sys_flock(p) \/ FlockDone(p)
    PROVE  TabInv'
<1>. USE DEF Opening, Loops, DupCalls, Changing, Ending, Special
<1>1. CASE closef(p)
  <2>1. th[p].pc = "closef" /\ Goto(p, "unlock") /\ Quiet0 BY <1>1, Zenon DEF closef, rest, Quiet0
  <2>. QED BY <2>1, GotoQuiet, Zenon
<1>2. CASE CloseUnlock(p)
  <2>1. th[p].pc = "unlock" /\ Goto(p, "frele") /\ Quiet0 BY <1>2, Zenon DEF CloseUnlock, rest, Quiet0
  <2>. QED BY <2>1, GotoQuiet, Zenon
<1>3. CASE FRELE(p)
  <2>1. th[p].pc = "frele" /\ Quiet0 /\ (Goto(p, "fdrop") \/ After(p)) BY <1>3, Zenon DEF FRELE, rest, Quiet0
  <2>. QED BY <2>1, GotoQuiet, AfterQuiet, Zenon
<1>4. CASE fdrop(p)
  <2>1. th[p].pc = "fdrop" /\ Goto(p, "fo_close") /\ Quiet0 BY <1>4, Zenon DEF fdrop, rest, Quiet0
  <2>. QED BY <2>1, GotoQuiet, Zenon
<1>5. CASE fo_close(p)
  <2>1. th[p].pc = "fo_close" /\ Quiet0 /\ After(p) BY <1>5, Zenon DEF fo_close, rest, Quiet0
  <2>. QED BY <2>1, AfterQuiet, Zenon
<1>6. CASE sys_fstat(p)
  <2>1. th[p].pc = "fstat" /\ Goto(p, "frele") /\ Quiet0 BY <1>6, Zenon DEF sys_fstat, rest, Quiet0
  <2>. QED BY <2>1, GotoQuiet, Zenon
<1>7. CASE F_SETFL(p)
  <2>1. th[p].pc = "setfl" /\ Goto(p, "frele") /\ Quiet0 BY <1>7, Zenon DEF F_SETFL, rest, Quiet0
  <2>. QED BY <2>1, GotoQuiet, Zenon
<1>8. CASE F_GETLK(p)
  <2>1. th[p].pc = "getlk" /\ Goto(p, "frele") /\ Quiet0 BY <1>8, Zenon DEF F_GETLK, rest, Quiet0
  <2>. QED BY <2>1, GotoQuiet, Zenon
<1>9. CASE F_UNLCK(p)
  <2>1. th[p].pc = "unlck" /\ Goto(p, "frele") /\ Quiet0 BY <1>9, Zenon DEF F_UNLCK, rest, Quiet0
  <2>. QED BY <2>1, GotoQuiet, Zenon
<1>10. CASE VOP_ADVLOCK(p)
  <2>1. th[p].pc = "advlock" /\ Goto(p, "checkclosed") /\ Quiet0 BY <1>10, Zenon DEF VOP_ADVLOCK, rest, Quiet0
  <2>. QED BY <2>1, GotoQuiet, Zenon
<1>11. CASE fd_checkclosed(p)
  <2>1. th[p].pc = "checkclosed" /\ Goto(p, "frele") /\ Quiet0 BY <1>11, Zenon DEF fd_checkclosed, rest, Quiet0
  <2>. QED BY <2>1, GotoQuiet, Zenon
<1>12. CASE sys_flock(p)
  <2>1. th[p].pc \in {"flock", "funlock"} /\ Quiet0 BY <1>12, Zenon DEF sys_flock, rest, Quiet0
  <2>2. PICK pc \in {"frele", "flockwait", "flockdrop"} : Goto(p, pc) BY <1>12, Zenon DEF sys_flock
  <2>. QED BY <2>1, <2>2, GotoQuiet, Zenon
<1>13. CASE FlockDone(p)
  <2>1. th[p].pc \in {"flockwait", "flockdrop"} /\ Goto(p, "frele") /\ Quiet0
    BY <1>13, Zenon DEF FlockDone, rest, Quiet0
  <2>. QED BY <2>1, GotoQuiet, Zenon
<1>. QED BY <1>1, <1>2, <1>3, <1>4, <1>5, <1>6, <1>7, <1>8, <1>9, <1>10, <1>11, <1>12, <1>13, Zenon

\* An open that sleeps keeps what it has reserved.
LEMMA OpenSteps ==
    ASSUME TabInv, NEW p \in Threads, vn_open(p) \/ sys_fhopen(p) \/ OpenLock(p)
    PROVE  TabInv'
<1>. USE DEF Opening, Loops, DupCalls, Changing, Ending, Special
<1>1. CASE vn_open(p)
  <2>1. th[p].pc = "vn_open" /\ Quiet0 BY <1>1, Zenon DEF vn_open, rest, Quiet0
  <2>2. PICK pc \in {"openfail", "dupfdopen", "openlock", "fdinsert"} : Goto(p, pc) BY <1>1, Zenon DEF vn_open
  <2>. QED BY <2>1, <2>2, GotoQuiet, Zenon
<1>2. CASE sys_fhopen(p)
  <2>1. th[p].pc = "fhtovp" /\ Quiet0 BY <1>2, Zenon DEF sys_fhopen, rest, Quiet0
  <2>2. PICK pc \in {"openfail", "openlock", "fdinsert"} : Goto(p, pc) BY <1>2, Zenon DEF sys_fhopen
  <2>. QED BY <2>1, <2>2, GotoQuiet, Zenon
<1>3. CASE OpenLock(p)
  <2>1. th[p].pc = "openlock" /\ Quiet0 BY <1>3, Zenon DEF OpenLock, rest, Quiet0
  <2>2. PICK pc \in {"openfail", "fdinsert"} : Goto(p, pc) BY <1>3, Zenon DEF OpenLock
  <2>. QED BY <2>1, <2>2, GotoQuiet, Zenon
<1>. QED BY <1>1, <1>2, <1>3, Zenon


\* A slot that is not empty is one of the array and in use.
LEMMA SlotFacts ==
    ASSUME TabInv, NEW p \in Threads, th[p].pc # "user", Arg(p).name # "exit",
           NEW fd \in Nat, Slot(Mine(p), fd) # None
    PROVE  /\ fd \in Fd /\ fd < Mine(p).nfiles /\ Slot(Mine(p), fd) = Mine(p).ofiles[fd]
           /\ Slot(Mine(p), fd) \in Files /\ fd \in Mine(p).lomap /\ fd \notin Marks(fdp[p])
<1>. DEFINE T == Mine(p)
            R == Marks(fdp[p])
<1>1. T \in Table(Files \cup {None}) /\ MapsOK(T) /\ SlotsOK(T, R) BY TableOf, Zenon DEF Sound
<1>. HIDE DEF T, R
<1>2. T.nfiles \in Nat /\ T.nfiles <= FdMax /\ T.ofiles \in [Fd -> Files \cup {None}]
  BY <1>1, FdAssumption DEF Table, MapsOK
<1>3. fd < T.nfiles /\ Slot(T, fd) = T.ofiles[fd] BY <1>2 DEF Slot, T
<1>4. fd \in Fd BY <1>2, <1>3, FdAssumption DEF Fd
<1>5. T.ofiles[fd] # None BY <1>3, Zenon DEF T
<1>6. T.ofiles[fd] \in Files BY <1>2, <1>4, <1>5, Zenon
<1>7. fd \in T.lomap /\ fd \notin R BY <1>1, <1>4, <1>5, Zenon DEF SlotsOK
<1>. QED BY <1>3, <1>4, <1>6, <1>7, Zenon DEF T, R

LEMMA GetfileInv ==
    ASSUME TabInv, NEW p \in Threads, fd_getfile(p)
    PROVE  TabInv'
<1>. DEFINE f == Slot(Mine(p), Arg(p).fd)
<1>1. th[p].pc = "getfile" /\ Quiet0 BY Zenon DEF fd_getfile, rest, Quiet0
<1>2. DOMAIN th = Threads /\ CallOK(p) BY Zenon DEF TabInv, CallsOK, TypeOK
<1>3. Shape(th[p]) /\ Arg(p).name \in OnFile /\ Arg(p).fd \in Nat BY <1>1, <1>2, Zenon DEF CallOK
<1>4. Arg(p).name # "exit" BY <1>3, Zenon DEF OnFile
<1>5. CASE f = None
  <2>1. Return(p) BY <1>5, Zenon DEF fd_getfile
  <2>. QED BY <1>1, <1>4, <2>1, ReturnQuiet, Zenon DEF Opening, Changing
<1>6. CASE f # None
  <2>1. th' = [th EXCEPT ![p].pc = Arg(p).name, ![p].fp = f] BY <1>6, Zenon DEF fd_getfile
  <2>2. f \in Files BY <1>1, <1>3, <1>4, <1>6, SlotFacts, Zenon
  <2>. HIDE DEF f
  <2>3. /\ OnlyThread(p) /\ Shape(th'[p]) /\ th'[p].pc = Arg(p).name /\ th'[p].call = th[p].call
        /\ th'[p].fp = f /\ th'[p].new = th[p].new /\ th'[p].again = th[p].again
    BY <1>2, <1>3, <2>1, Zenon DEF OnlyThread, Shape
  <2>4. Arg(p)' = Arg(p) BY <2>3, Zenon DEF Arg
  <2>5. Arg(p).name \notin {"user", "getfile"} \cup Changing \cup Opening \cup Loops
    BY <1>3, Zenon DEF OnFile, Changing, Opening, Loops
  <2>6. CallOK(p)' BY <1>1, <1>2, <1>3, <1>4, <2>2, <2>3, <2>4, <2>5, Zenon DEF CallOK, Quiet0
  <2>7. ~Reserves(p)' /\ ~Reserves(p) BY <1>1, <2>3, <2>5, Zenon DEF Reserves, Changing, Opening
  <2>8. th[p].pc \notin {"user", "open"} /\ th[p].pc \notin Changing BY <1>1, Zenon DEF Changing
  <2>. QED BY <1>1, <1>4, <2>3, <2>4, <2>5, <2>6, <2>7, <2>8, QuietStep, Zenon
<1>. QED BY <1>5, <1>6, Zenon

LEMMA IterInv ==
    ASSUME TabInv, NEW p \in Threads, fd_iterfile(p)
    PROVE  TabInv'
<1>1. th[p].pc = "iter" /\ Quiet0 BY Zenon DEF fd_iterfile, rest, Quiet0
<1>2. DOMAIN th = Threads /\ CallOK(p) BY DEF TabInv, CallsOK, TypeOK
<1>3. Shape(th[p]) /\ Arg(p).name = "iter" BY <1>1, <1>2, Zenon DEF CallOK, Loops
<1>4. CASE Return(p) BY <1>1, <1>3, <1>4, ReturnQuiet, Zenon DEF Opening, Changing
<1>5. ASSUME NEW f, \/ th' = [th EXCEPT ![p].pc = "frele", ![p].oldfp = f]
                    \/ th' = [th EXCEPT ![p].fp = f]
      PROVE  TabInv'
  <2>1. /\ OnlyThread(p) /\ Shape(th'[p]) /\ th'[p].pc \in {"frele", "iter"} /\ th'[p].call = th[p].call
        /\ th'[p].new = th[p].new /\ th'[p].again = th[p].again
    BY <1>1, <1>2, <1>3, <1>5 DEF OnlyThread, Shape
  <2>2. Arg(p)' = Arg(p) BY <2>1, Zenon DEF Arg
  <2>6. th'[p].pc \notin DupCalls \cup Changing \cup Opening \cup {"getfile"}
    BY <2>1, Zenon DEF DupCalls, Changing, Opening
  <2>7. th'[p].pc \in Loops => th'[p].pc = "iter" BY <2>1, Zenon DEF Loops
  <2>3. CallOK(p)' BY <1>1, <1>2, <1>3, <2>1, <2>2, <2>6, <2>7, Zenon DEF CallOK, Quiet0
  <2>4. ~Reserves(p)' /\ ~Reserves(p) BY <1>1, <2>1, Zenon DEF Reserves, Opening
  <2>5. th'[p].pc \notin Changing \cup {"user"} /\ th[p].pc \notin Changing \cup {"user", "open"}
    BY <1>1, <2>1, Zenon DEF Changing
  <2>. QED BY <1>1, <2>1, <2>2, <2>3, <2>4, <2>5, QuietStep, Zenon
<1>6. Return(p) \/ \E f : \/ th' = [th EXCEPT ![p].pc = "frele", ![p].oldfp = f]
                          \/ th' = [th EXCEPT ![p].fp = f]
  BY Zenon DEF fd_iterfile
<1>. QED BY <1>4, <1>5, <1>6, Zenon

----------------------------------------------------------------------------
\* The steps that close a descriptor, change a flag or end an open.
LEMMA NotExit ==
    ASSUME TabInv, NEW p \in Threads, th[p].pc \notin Ending \cup {"user"}
    PROVE  th[p].pc # "user" /\ Arg(p).name # "exit" /\ CallOK(p) /\ DOMAIN th = Threads /\ Shape(th[p])
BY Zenon DEF TabInv, CallsOK, CallOK, TypeOK

\* A step that changes the table and leaves its thread with no descriptor reserved.
LEMMA LeaveStep ==
    ASSUME TabInv, NEW p \in Threads, th[p].pc \notin Ending \cup {"user"}, OnlyThread(p),
           Shape(th'[p]), th'[p].call = th[p].call, th'[p].pc \in {"closef", "frele", "advlock"},
           th'[p].new \in Nat, th'[p].again = th[p].again \/ (th'[p].again = TRUE /\ Arg(p).name \in DupCalls),
           UNCHANGED <<scn, fdp, lost, stale>>,
           NEW U, tab' = [tab EXCEPT ![fdp[p]] = U] \/ (tab' = tab /\ U = Mine(p)), LockStep(p, U),
           Sound(U, Others(p)), FreeOK(Mine(p)) => FreeOK(U)
    PROVE  TabInv'
<1>1. th[p].pc # "user" /\ Arg(p).name # "exit" /\ CallOK(p) BY NotExit, Zenon
<1>2. th'[p].pc \notin Special \cup Opening BY Zenon DEF Special, Opening, Loops, DupCalls, Changing
<1>3. CallOK(p)' /\ ChangeOK(p)' /\ Arg(p)' = Arg(p) BY <1>1, <1>2, CallKept, Zenon DEF CallOK
<1>4. ~Reserves(p)' BY <1>2, Zenon DEF Reserves, Special, Changing
<1>5. Others(p) \cup Own(p)' = Others(p) BY <1>4, Zenon DEF Own
<1>6. Sound(U, Others(p) \cup Own(p)') BY <1>5, Zenon
<1>7. fdp[p] \notin stale => FreeOK(U) BY <1>1, TableOf, Zenon
<1>. QED BY <1>1, <1>3, <1>4, <1>6, <1>7, TableStep, Zenon

LEMMA ReleaseInv ==
    ASSUME TabInv, Operations, NEW p \in Threads, th[p].pc \in {"close", "closefrom", "exec"},
           NEW fd \in Nat, Slot(Mine(p), fd) # None, fdplock(p), fdrelease(p, fd, Mine(p)),
           UNCHANGED <<scn, fdp, lost, stale, lock>>
    PROVE  TabInv'
<1>. DEFINE T == Mine(p)
            U == fdremove(T, fd)
            f == Slot(T, fd)
<1>1. th[p].pc \notin Ending \cup {"user"} BY Zenon DEF Ending
<1>2. th[p].pc # "user" /\ Arg(p).name # "exit" /\ CallOK(p) /\ DOMAIN th = Threads /\ Shape(th[p])
  BY <1>1, NotExit, Zenon
<1>3. ~Reserves(p) BY Zenon DEF Reserves, Opening
<1>4. Sound(T, Others(p)) BY <1>2, <1>3, Unreserved, Zenon
<1>5. fd \in T.lomap /\ fd \notin Others(p)
  <2>1. fd \in T.lomap /\ fd \in Fd /\ T.ofiles[fd] # None BY <1>2, SlotFacts, Zenon
  <2>. QED BY <1>4, <2>1, Zenon DEF Sound, SlotsOK
<1>6. th' = [th EXCEPT ![p].pc = "closef", ![p].fp = f, ![p].new = fd + 1] /\ tab' = [tab EXCEPT ![fdp[p]] = U]
  BY Zenon DEF fdrelease, SetTab
<1>7. Sound(U, Others(p)) /\ (FreeOK(T) => FreeOK(U))
  <2>1. Others(p) \ {fd} = Others(p) BY <1>5, Zenon
  <2>2. Kept(T, Others(p), U, Others(p) \ {fd}) BY <1>5, Zenon DEF Operations, RemoveOp
  <2>. QED BY <1>4, <2>1, <2>2, Zenon DEF Kept
<1>. HIDE DEF f, U
<1>8. /\ OnlyThread(p) /\ Shape(th'[p]) /\ th'[p].pc = "closef" /\ th'[p].call = th[p].call
      /\ th'[p].new = fd + 1 /\ th'[p].again = th[p].again
  BY <1>2, <1>6, Zenon DEF OnlyThread, Shape
<1>9. LockStep(p, U)
  BY Zenon DEF LockStep, fdplock
<1>10. th'[p].new \in Nat /\ th'[p].pc \in {"closef", "frele", "advlock"} BY <1>8
<1>11. UNCHANGED <<scn, fdp, lost, stale>> /\ (FreeOK(Mine(p)) => FreeOK(U)) BY <1>7, Zenon
<1>. HIDE DEF T
<1>. QED BY <1>1, <1>6, <1>7, <1>8, <1>9, <1>10, <1>11, LeaveStep, Zenon

LEMMA CloseInv ==
    ASSUME TabInv, Operations, NEW p \in Threads, sys_close(p) \/ CloseLoop(p)
    PROVE  TabInv'
<1>1. th[p].pc \in {"close", "closefrom", "exec"} /\ fdplock(p) /\ UNCHANGED <<scn, fdp, lost, stale, lock>>
  BY Zenon DEF sys_close, CloseLoop, rest
<1>2. th[p].pc # "user" /\ Arg(p).name # "exit" /\ CallOK(p) /\ DOMAIN th = Threads /\ Shape(th[p])
  BY <1>1, NotExit, Zenon DEF Ending
<1>3. Arg(p).fd \in Nat /\ th[p].new \in Nat BY <1>2, Zenon DEF CallOK
<1>4. CASE Return(p) /\ tab' = tab
  <2>1. Quiet0 BY <1>1, <1>4, Zenon DEF Quiet0
  <2>. QED BY <1>1, <1>2, <1>4, <2>1, ReturnQuiet, Zenon DEF Opening, Changing
<1>5. ASSUME NEW fd \in Nat, Slot(Mine(p), fd) # None, fdrelease(p, fd, Mine(p)) PROVE TabInv'
  BY <1>1, <1>5, ReleaseInv, Zenon
<1>6. CASE th[p].pc \in Loops /\ th' = [th EXCEPT ![p].new = @ + 1] /\ tab' = tab
  <2>1. /\ OnlyThread(p) /\ Shape(th'[p]) /\ th'[p].pc = th[p].pc /\ th'[p].call = th[p].call
        /\ th'[p].fp = th[p].fp /\ th'[p].again = th[p].again
    BY <1>2, <1>6, Zenon DEF OnlyThread, Shape
  <2>2. Arg(p)' = Arg(p) BY <2>1, Zenon DEF Arg
  <2>3. CallOK(p)'
    <3>1. th'[p].new = th[p].new + 1 BY <1>2, <1>6 DEF Shape
    <3>2. th'[p].new \in Nat BY <1>3, <3>1
    <3>3. fdp' = fdp BY <1>1
    <3>. QED BY <1>2, <2>1, <2>2, <3>2, <3>3 DEF CallOK
  <2>4. ~Reserves(p)' /\ ~Reserves(p) BY <1>1, <2>1, Zenon DEF Reserves, Opening
  <2>5. th'[p].pc \notin Changing /\ th[p].pc \notin Changing BY <1>1, <2>1, Zenon DEF Changing
  <2>. QED BY <1>1, <1>2, <1>6, <2>1, <2>2, <2>3, <2>4, <2>5, QuietStep, Zenon DEF Quiet0
<1>7. CASE sys_close(p)
  <2>1. CASE Slot(Mine(p), Arg(p).fd) = None BY <1>4, <1>7, <2>1, Zenon DEF sys_close
  <2>2. CASE Slot(Mine(p), Arg(p).fd) # None BY <1>3, <1>5, <1>7, <2>2, Zenon DEF sys_close
  <2>. QED BY <2>1, <2>2, Zenon
<1>8. CASE CloseLoop(p)
  <2>1. \/ Return(p) /\ tab' = tab
        \/ Slot(Mine(p), th[p].new) # None /\ fdrelease(p, th[p].new, Mine(p))
        \/ th' = [th EXCEPT ![p].new = @ + 1] /\ tab' = tab
    BY <1>8, Zenon DEF CloseLoop, Shut
  <2>2. th[p].pc \in Loops BY <1>8, Zenon DEF CloseLoop, Loops
  <2>. QED BY <1>3, <1>4, <1>5, <1>6, <2>1, <2>2, Zenon
<1>. QED BY <1>7, <1>8, Zenon

LEMMA FlagsInv ==
    ASSUME TabInv, NEW p \in Threads, F_SETFD(p) \/ F_SETLK(p)
    PROVE  TabInv'
<1>. DEFINE T == Mine(p)
            SameMaps(U) == /\ U \in Table(Files \cup {None}) /\ U.ofiles = T.ofiles /\ U.nfiles = T.nfiles
                           /\ U.lomap = T.lomap /\ U.himap = T.himap /\ U.lastfile = T.lastfile
                           /\ U.freefile = T.freefile /\ U.openfd = T.openfd
<1>1. th[p].pc \in {"setfd", "setlk"} /\ UNCHANGED <<scn, fdp, lost, stale, lock>>
  BY Zenon DEF F_SETFD, F_SETLK, rest
<1>2. th[p].pc \notin Ending \cup {"user"} \cup Changing \cup {"open"} BY <1>1, Zenon DEF Ending, Changing
<1>3. th[p].pc # "user" /\ Arg(p).name # "exit" /\ CallOK(p) BY <1>2, NotExit, Zenon
<1>4. Sound(T, Others(p)) BY <1>1, <1>3, Unreserved, Zenon DEF Reserves, Opening
<1>5. T \in Table(Files \cup {None}) /\ Arg(p).fd \in Nat /\ th[p].new \in Nat BY <1>3, <1>4, Zenon DEF CallOK, Sound
<1>6. ASSUME NEW U, SameMaps(U), tab' = [tab EXCEPT ![fdp[p]] = U],
             NEW pc \in {"frele", "advlock"}, Goto(p, pc)
      PROVE  TabInv'
  <2>1. Sound(U, Others(p)) /\ (FreeOK(T) => FreeOK(U))
    <3>. HIDE DEF T
    <3>1. MapsOK(U) /\ SlotsOK(U, Others(p)) BY <1>4, <1>6, Zenon DEF Sound, MapsOK, SlotsOK
    <3>2. FreeOK(T) => FreeOK(U) BY <1>6, Zenon DEF FreeOK
    <3>. QED BY <1>6, <3>1, <3>2, Zenon DEF Sound
  <2>2. LockStep(p, U) BY <1>1, <1>2, <1>6, Zenon DEF LockStep
  <2>3. /\ OnlyThread(p) /\ Shape(th'[p]) /\ th'[p].pc = pc /\ th'[p].call = th[p].call
        /\ th'[p].new = th[p].new /\ th'[p].again = th[p].again
    BY <1>6, GotoFacts, Zenon
  <2>. QED BY <1>1, <1>2, <1>5, <1>6, <2>1, <2>2, <2>3, LeaveStep, Zenon
<1>7. CASE F_SETFD(p)
  <2>. DEFINE ex == IF Arg(p).cloexec THEN T.exclose \cup {Arg(p).fd} ELSE T.exclose \ {Arg(p).fd}
              U == [T EXCEPT !.exclose = ex]
  <2>1. Goto(p, "frele") /\ tab' = [tab EXCEPT ![fdp[p]] = U] BY <1>7, Zenon DEF F_SETFD, SetTab
  <2>2. ex \in SUBSET Nat BY <1>5, Zenon DEF Table
  <2>3. SameMaps(U)
    <3>. HIDE DEF ex, T
    <3>. QED BY <1>5, <2>2, Zenon DEF Table
  <2>. HIDE DEF U, SameMaps
  <2>. QED BY <1>6, <2>1, <2>3, Zenon
<1>8. CASE F_SETLK(p) /\ IsVnode(th[p].fp)
  <2>. DEFINE U == [T EXCEPT !.advlock = TRUE]
  <2>1. Goto(p, "advlock") /\ tab' = [tab EXCEPT ![fdp[p]] = U] BY <1>8, Zenon DEF F_SETLK, SetTab
  <2>2. SameMaps(U)
    <3>. HIDE DEF T
    <3>. QED BY <1>5, Zenon DEF Table
  <2>. HIDE DEF U, SameMaps
  <2>. QED BY <1>6, <2>1, <2>2, Zenon
<1>9. CASE F_SETLK(p) /\ ~IsVnode(th[p].fp)
  <2>1. th[p].pc = "setlk" /\ Goto(p, "frele") /\ Quiet0 BY <1>9, Zenon DEF F_SETLK, Quiet0, rest
  <2>. QED BY <2>1, GotoQuiet, Zenon DEF Opening, Loops, DupCalls, Changing, Ending, Special
<1>. QED BY <1>7, <1>8, <1>9, Zenon


----------------------------------------------------------------------------
\* What is reserved is in use and empty.
LEMMA ReservedFacts ==
    ASSUME TabInv, NEW p \in Threads, th[p].pc # "user", Arg(p).name # "exit", Reserves(p)
    PROVE  /\ th[p].new \in Fd /\ th[p].new \in Mine(p).lomap /\ Mine(p).ofiles[th[p].new] = None
           /\ th[p].new \in Marks(fdp[p]) /\ Marks(fdp[p]) \ {th[p].new} = Others(p)
           /\ th[p].new \notin Others(p)
<1>1. fdp[p] \in Tables /\ SlotsOK(Mine(p), Marks(fdp[p])) BY TableOf, Zenon DEF Sound
<1>2. Marks(fdp[p]) = Others(p) \cup {th[p].new} /\ th[p].new \notin Others(p)
  BY <1>1, MarksSplit, Zenon DEF Own
<1>3. th[p].new \in Fd /\ Mine(p).ofiles[th[p].new] = None BY <1>1, <1>2, Zenon DEF SlotsOK
<1>4. th[p].new \in Mine(p).lomap BY <1>1, <1>2, <1>3, Zenon DEF SlotsOK
<1>. QED BY <1>2, <1>3, <1>4, Zenon

\* The end of an open: its descriptor has a file or is given back.
LEMMA OpenEndInv ==
    ASSUME TabInv, Operations, NEW p \in Threads, OpenFail(p) \/ dupfdopen(p) \/ fdinsert(p)
    PROVE  TabInv'
<1>. DEFINE T == Mine(p)
            R == Marks(fdp[p])
            new == th[p].new
<1>1. /\ th[p].pc \in {"openfail", "dupfdopen", "fdinsert"} /\ fdplock(p)
      /\ UNCHANGED <<scn, fdp, lost, stale, lock>>
  BY Zenon DEF OpenFail, dupfdopen, fdinsert, rest
<1>2. th[p].pc \notin Ending \cup {"user"} /\ th[p].pc \in Opening /\ Reserves(p)
  BY <1>1, Zenon DEF Ending, Opening, Reserves
<1>3. th[p].pc # "user" /\ Arg(p).name # "exit" /\ CallOK(p) BY <1>2, NotExit, Zenon
<1>4. Sound(T, R) BY <1>3, TableOf, Zenon
<1>5. new \in Fd /\ new \in Nat /\ new \in T.lomap /\ R \ {new} = Others(p)
  BY <1>2, <1>3, ReservedFacts, Zenon DEF CallOK
<1>6. th[p].fp \in Files /\ Arg(p).fd \in Nat /\ T.exclose \in SUBSET Nat
  BY <1>2, <1>3, <1>4, Zenon DEF CallOK, Sound, Table
<1>7. ASSUME NEW pc \in {"closef", "frele"}, Goto(p, pc), NEW U, tab' = [tab EXCEPT ![fdp[p]] = U],
             Kept(T, R, U, R \ {new})
      PROVE  TabInv'
  <2>1. Sound(U, Others(p)) /\ (FreeOK(Mine(p)) => FreeOK(U)) BY <1>4, <1>5, <1>7, Zenon DEF Kept
  <2>2. LockStep(p, U) BY <1>1, Zenon DEF LockStep, fdplock
  <2>3. /\ OnlyThread(p) /\ Shape(th'[p]) /\ th'[p].pc = pc /\ th'[p].call = th[p].call
        /\ th'[p].new = new /\ th'[p].again = th[p].again
    BY <1>7, GotoFacts, Zenon
  <2>. HIDE DEF T, R
  <2>. QED BY <1>1, <1>2, <1>5, <1>7, <2>1, <2>2, <2>3, LeaveStep, Zenon
<1>8. ASSUME NEW f \in Files, NEW ex \in SUBSET Nat
      PROVE  Kept(T, R, Filled(T, new, f, ex), R \ {new})
  BY <1>5, Zenon DEF Operations, FillOp
<1>9. Kept(T, R, fdremove(T, new), R \ {new}) BY <1>5, Zenon DEF Operations, RemoveOp
<1>10. CASE OpenFail(p) BY <1>7, <1>9, <1>10, Zenon DEF OpenFail, SetTab
<1>11. CASE dupfdopen(p)
  <2>. DEFINE w == Slot(T, Arg(p).fd)
  <2>1. CASE SetTab(p, fdremove(T, new)) BY <1>7, <1>9, <1>11, <2>1, Zenon DEF dupfdopen, SetTab
  <2>2. CASE w # None /\ SetTab(p, [T EXCEPT !.ofiles[new] = w])
    <3>1. w \in Files BY <1>3, <1>6, <2>2, SlotFacts, Zenon
    <3>. DEFINE U == Filled(T, new, w, T.exclose)
    <3>2. Goto(p, "closef") /\ tab' = [tab EXCEPT ![fdp[p]] = [T EXCEPT !.ofiles[new] = w]]
      BY <1>11, <2>2, Zenon DEF dupfdopen, SetTab
    <3>3. Kept(T, R, U, R \ {new}) BY <1>6, <1>8, <3>1, Zenon
    <3>. HIDE DEF T, w, new
    <3>4. [T EXCEPT !.ofiles[new] = w] = U BY <1>4, Zenon DEF Sound, Table, Filled
    <3>. HIDE DEF U
    <3>. QED BY <1>7, <3>2, <3>3, <3>4, Zenon
  <2>. QED BY <1>11, <2>1, <2>2, Zenon DEF dupfdopen
<1>12. CASE fdinsert(p)
  <2>. DEFINE ex == IF Arg(p).cloexec THEN T.exclose \cup {new} ELSE T.exclose
              f == th[p].fp
              U == Filled(T, new, f, ex)
  <2>1. Goto(p, "frele") /\ tab' = [tab EXCEPT ![fdp[p]] = [T EXCEPT !.ofiles[new] = f, !.exclose = ex]]
    BY <1>12, Zenon DEF fdinsert, SetTab
  <2>2. ex \in SUBSET Nat BY <1>5, <1>6, Zenon
  <2>3. Kept(T, R, U, R \ {new}) BY <1>6, <1>8, <2>2, Zenon
  <2>. HIDE DEF T, new, ex, f
  <2>4. [T EXCEPT !.ofiles[new] = f, !.exclose = ex] = U BY <1>4, Zenon DEF Sound, Table, Filled
  <2>. HIDE DEF U
  <2>. QED BY <1>7, <2>1, <2>3, <2>4, Zenon
<1>. QED BY <1>10, <1>11, <1>12, Zenon

\* A call that returns leaves the table with the marks of the others.
LEMMA ReturnTable ==
    ASSUME TabInv, NEW p \in Threads, th[p].pc \notin Ending \cup {"user"}, Return(p),
           UNCHANGED <<scn, fdp, lost, stale>>, lock[fdp[p]] \in {None, p}, fdpunlock(p),
           NEW U, tab' = [tab EXCEPT ![fdp[p]] = U] \/ (tab' = tab /\ U = Mine(p)),
           Sound(U, Others(p)), FreeOK(Mine(p)) => FreeOK(U)
    PROVE  TabInv'
<1>1. th[p].pc # "user" /\ Arg(p).name # "exit" /\ CallOK(p) BY NotExit, Zenon
<1>2. OnlyThread(p) /\ th'[p].pc = "user" /\ CallOK(p)' /\ ~Reserves(p)' /\ ChangeOK(p)' BY ReturnFacts, Zenon
<1>3. fdp[p] \notin stale => FreeOK(U) BY <1>1, TableOf, Zenon
<1>4. Others(p) \cup Own(p)' = Others(p) BY <1>2, Zenon DEF Own
<1>5. LockStep(p, U) BY Zenon DEF LockStep
<1>6. Sound(U, Others(p) \cup Own(p)') BY <1>4, Zenon
<1>. QED BY <1>1, <1>2, <1>3, <1>5, <1>6, TableStep, Zenon

----------------------------------------------------------------------------
\* falloc: the array grows under the lock, or the call ends, or a descriptor is marked.
LEMMA FallocInv ==
    ASSUME TabInv, Operations, NEW p \in Threads, falloc(p)
    PROVE  TabInv'
<1>. DEFINE T == Mine(p)
            R == Others(p)
            r == fdalloc(T, 0)
<1>1. th[p].pc = "open" /\ lock[fdp[p]] \in {None, p} /\ UNCHANGED <<scn, fdp, lost, stale>>
  BY Zenon DEF falloc, rest
<1>2. th[p].pc \notin Ending \cup {"user"} BY <1>1, Zenon DEF Ending
<1>3. th[p].pc # "user" /\ Arg(p).name # "exit" /\ CallOK(p) /\ DOMAIN th = Threads /\ Shape(th[p])
  BY <1>2, NotExit, Zenon
<1>4. Sound(T, R) BY <1>1, <1>3, Unreserved, Zenon DEF Reserves, Opening
<1>5. fdp[p] \notin stale => FreeOK(T) BY <1>3, TableOf, Zenon
<1>6. /\ r.error = "0" => /\ r.fd \in Nat /\ r.fd \notin R /\ Sound(r.tab, R \cup {r.fd})
                          /\ (FreeOK(T) => FreeOK(r.tab))
      /\ r.error = "ENOSPC" => T.nfiles < Lim
  <2>1. 0 \in Nat /\ AllocOp BY Zenon DEF Operations
  <2>. HIDE DEF T, R
  <2>. QED BY <1>4, <2>1, Zenon DEF AllocOp
<1>7. CASE r.error = "ENOSPC" /\ SetTab(p, fdexpand(T)) /\ Keep(p) /\ UNCHANGED th
  <2>. DEFINE U == fdexpand(T)
  <2>1. tab' = [tab EXCEPT ![fdp[p]] = U] /\ th' = th BY <1>7, Zenon DEF SetTab
  <2>2. Sound(U, R) /\ (fdp[p] \notin stale => FreeOK(U))
    BY <1>4, <1>5, <1>6, <1>7, Zenon DEF Operations, ExpandOp, Kept
  <2>. HIDE DEF U, T
  <2>3. CallOK(p)' BY <1>1, <1>3, <2>1, Zenon DEF CallOK, Arg
  <2>4. ChangeOK(p)' BY <1>1, <2>1, Zenon DEF ChangeOK, Changing
  <2>5. ~Reserves(p)' BY <1>1, <2>1, Zenon DEF Reserves, Opening
  <2>6. R \cup Own(p)' = R BY <2>5, Zenon DEF Own
  <2>7. Sound(U, R \cup Own(p)') BY <2>2, <2>6, Zenon
  <2>8. OnlyThread(p) /\ Arg(p)' = Arg(p) /\ th'[p].pc = "open" BY <1>1, <1>3, <2>1, Zenon DEF OnlyThread, Arg
  <2>9. LockStep(p, U) BY <1>1, <1>7, <2>8, Zenon DEF LockStep
  <2>. QED BY <1>1, <1>3, <2>1, <2>2, <2>3, <2>4, <2>5, <2>7, <2>8, <2>9, TableStep, Zenon
<1>8. CASE Return(p) /\ fdpunlock(p) /\ tab' = tab
  BY <1>1, <1>2, <1>4, <1>8, ReturnTable, Zenon
<1>9. CASE r.error = "0" /\ SetTab(p, fd_unused(r.tab, r.fd)) /\ Return(p) /\ fdpunlock(p)
  <2>. DEFINE V == r.tab
              fd == r.fd
              U == fd_unused(V, fd)
  <2>1. fd \notin R /\ Sound(V, R \cup {fd}) /\ (FreeOK(T) => FreeOK(V)) BY <1>6, <1>9, Zenon
  <2>2. tab' = [tab EXCEPT ![fdp[p]] = U] BY <1>9, Zenon DEF SetTab
  <2>. HIDE DEF V, fd, r
  <2>3. (R \cup {fd}) \ {fd} = R BY <2>1, Zenon
  <2>4. Kept(V, R \cup {fd}, U, (R \cup {fd}) \ {fd}) BY Zenon DEF Operations, UnmarkOp
  <2>5. Sound(U, R) /\ (FreeOK(T) => FreeOK(U)) BY <2>1, <2>3, <2>4, Zenon DEF Kept
  <2>. HIDE DEF U
  <2>. QED BY <1>1, <1>2, <1>9, <2>2, <2>5, ReturnTable, Zenon
<1>10. ASSUME r.error = "0", SetTab(p, r.tab), fdpunlock(p),
              NEW pc \in {"vn_open", "fhtovp"}, NEW f \in Files,
              th' = [th EXCEPT ![p].pc = pc, ![p].fp = f, ![p].new = r.fd]
       PROVE  TabInv'
  <2>. DEFINE U == r.tab
              fd == r.fd
  <2>1. tab' = [tab EXCEPT ![fdp[p]] = U] BY <1>10, Zenon DEF SetTab
  <2>2. fd \in Nat /\ fd \notin R /\ Sound(U, R \cup {fd}) /\ (fdp[p] \notin stale => FreeOK(U))
    BY <1>5, <1>6, <1>10, Zenon
  <2>3. th' = [th EXCEPT ![p].pc = pc, ![p].fp = f, ![p].new = fd] BY <1>10, Zenon
  <2>. HIDE DEF U, fd, r, T
  <2>4. /\ OnlyThread(p) /\ Shape(th'[p]) /\ th'[p].pc = pc /\ th'[p].call = th[p].call
        /\ th'[p].fp = f /\ th'[p].new = fd /\ th'[p].again = th[p].again
    BY <1>3, <2>3, Zenon DEF OnlyThread, Shape
  <2>5. pc \in Opening /\ pc \notin Special BY Zenon DEF Opening, Special, DupCalls, Changing, Loops
  <2>6. CallOK(p)' /\ ChangeOK(p)' /\ Arg(p)' = Arg(p)
    BY <1>1, <1>3, <2>2, <2>4, <2>5, CallKept, Zenon DEF CallOK
  <2>7. Own(p)' = {fd} BY <2>4, <2>5, Zenon DEF Own, Reserves
  <2>8. Sound(U, R \cup Own(p)') BY <2>2, <2>7, Zenon
  <2>9. LockStep(p, U) BY <1>1, <1>10, Zenon DEF LockStep
  <2>. QED BY <1>1, <1>3, <2>1, <2>2, <2>4, <2>6, <2>8, <2>9, TableStep, Zenon
<1>11. Memory => (CHOOSE x \in Files : file[x] = None) \in Files BY Zenon DEF Memory
<1>. QED BY <1>7, <1>8, <1>9, <1>10, <1>11, Zenon DEF falloc

----------------------------------------------------------------------------
\* A dup whose array is too small makes it larger and starts again.
LEMMA DupExpand ==
    ASSUME TabInv, Operations, NEW p \in Threads, th[p].pc \in DupCalls, fdplock(p), Expand(p),
           Mine(p).nfiles < Lim, UNCHANGED <<scn, fdp, lost, stale>>
    PROVE  TabInv'
<1>. DEFINE U == fdexpand(Mine(p))
<1>1. th[p].pc \notin Ending \cup {"user"} BY Zenon DEF Ending, DupCalls
<1>2. th[p].pc # "user" /\ Arg(p).name # "exit" /\ CallOK(p) /\ DOMAIN th = Threads /\ Shape(th[p])
  BY <1>1, NotExit, Zenon
<1>3. Sound(Mine(p), Others(p)) BY <1>2, Unreserved, Zenon DEF Reserves, Opening, DupCalls
<1>4. tab' = [tab EXCEPT ![fdp[p]] = U] /\ th' = [th EXCEPT ![p].pc = "frele", ![p].again = TRUE]
  BY Zenon DEF Expand, SetTab
<1>5. Sound(U, Others(p)) /\ (FreeOK(Mine(p)) => FreeOK(U)) BY <1>3, Zenon DEF Operations, ExpandOp, Kept
<1>6. LockStep(p, U) BY Zenon DEF LockStep, fdplock, Expand
<1>. HIDE DEF U
<1>7. /\ OnlyThread(p) /\ Shape(th'[p]) /\ th'[p].pc = "frele" /\ th'[p].call = th[p].call
      /\ th'[p].new = th[p].new /\ th'[p].again = TRUE
  BY <1>2, <1>4, Zenon DEF OnlyThread, Shape
<1>8. Arg(p).name \in DupCalls /\ th[p].new \in Nat BY <1>2, Zenon DEF CallOK
<1>. QED BY <1>1, <1>4, <1>5, <1>6, <1>7, <1>8, LeaveStep, Zenon


\* A dup goes on with the lock and the descriptor n, which dup has marked.
LEMMA DupStart ==
    ASSUME TabInv, NEW p \in Threads, th[p].pc \in DupCalls, fdplock(p), Keep(p),
           UNCHANGED <<scn, fdp, lost, stale>>,
           NEW n \in Nat, th' = [th EXCEPT ![p].pc = "finishdup", ![p].new = n],
           NEW U, tab' = [tab EXCEPT ![fdp[p]] = U] \/ (tab' = tab /\ U = Mine(p)),
           n < U.nfiles, FreeOK(Mine(p)) => FreeOK(U),
           Sound(U, Others(p) \cup (IF th[p].pc = "dup" THEN {n} ELSE {})),
           th[p].pc = "dup" => n \notin Others(p)
    PROVE  TabInv'
<1>1. th[p].pc # "user" /\ Arg(p).name # "exit" /\ CallOK(p) /\ DOMAIN th = Threads /\ Shape(th[p])
  BY NotExit, Zenon DEF Ending, DupCalls
<1>2. fdp[p] \in Tables /\ (fdp[p] \notin stale => FreeOK(U)) BY <1>1, TableOf, Zenon
<1>3. Arg(p).name = th[p].pc /\ th[p].fp \in Files BY <1>1, Zenon DEF CallOK
<1>4. /\ OnlyThread(p) /\ Shape(th'[p]) /\ th'[p].pc = "finishdup" /\ th'[p].call = th[p].call
      /\ th'[p].fp = th[p].fp /\ th'[p].new = n /\ th'[p].again = th[p].again
  BY <1>1, Zenon DEF OnlyThread, Shape
<1>5. Arg(p)' = Arg(p) BY <1>4, Zenon DEF Arg
<1>6. CallOK(p)' BY <1>1, <1>3, <1>4, <1>5, Zenon DEF CallOK, Opening, DupCalls, Changing, Loops
<1>7. tab'[fdp[p]] = U BY <1>2, Zenon DEF TabInv, TypeOK, Mine
<1>8. lock[fdp[p]] = None /\ lock'[fdp[p]] = p BY <1>2, Zenon DEF TabInv, TypeOK, fdplock, Keep
<1>9. ChangeOK(p)' BY <1>4, <1>7, <1>8, Zenon DEF ChangeOK, Mine
<1>10. Reserves(p)' <=> th[p].pc = "dup" BY <1>3, <1>4, <1>5, Zenon DEF Reserves, Opening
<1>11. Own(p)' = IF th[p].pc = "dup" THEN {n} ELSE {} BY <1>4, <1>10, Zenon DEF Own
<1>12. Sound(U, Others(p) \cup Own(p)') BY <1>11, Zenon
<1>13. LockStep(p, U) BY <1>4, <1>8, Zenon DEF LockStep, Changing
<1>. QED BY <1>1, <1>2, <1>4, <1>5, <1>6, <1>9, <1>10, <1>12, <1>13, TableStep, Zenon

LEMMA DupInv ==
    ASSUME TabInv, Operations, NEW p \in Threads, sys_dup(p) \/ dodup3(p)
    PROVE  TabInv'
<1>. DEFINE T == Mine(p)
            O == Others(p)
            r == fdalloc(T, Arg(p).new)
<1>1. th[p].pc \in DupCalls /\ UNCHANGED <<scn, fdp, lost, stale>> BY Zenon DEF sys_dup, dodup3, rest, DupCalls
<1>2. th[p].pc # "user" /\ Arg(p).name # "exit" /\ CallOK(p) BY <1>1, NotExit, Zenon DEF Ending, DupCalls
<1>3. Sound(T, O) BY <1>1, <1>2, Unreserved, Zenon DEF Reserves, Opening, DupCalls
<1>4. Arg(p).new \in Nat /\ T.nfiles \in Nat BY <1>2, <1>3, Zenon DEF CallOK, Sound, Table
<1>5. /\ r.error = "0" =>
           /\ r.fd \in Nat /\ r.fd \notin O /\ r.fd < T.nfiles /\ r.tab.nfiles = T.nfiles
           /\ Sound(r.tab, O \cup {r.fd}) /\ (FreeOK(T) => FreeOK(r.tab))
      /\ r.error = "ENOSPC" => T.nfiles < Lim
  <2>1. AllocOp BY Zenon DEF Operations
  <2>. HIDE DEF T, O
  <2>. QED BY <1>3, <1>4, <2>1, Zenon DEF AllocOp
<1>6. CASE Goto(p, "frele") /\ UNCHANGED <<tab, lock>>
  <2>1. Quiet0 BY <1>1, <1>6, Zenon DEF Quiet0
  <2>. QED BY <1>1, <1>6, <2>1, GotoQuiet, Zenon DEF Opening, Loops, DupCalls, Changing, Ending, Special
<1>7. CASE fdplock(p) /\ Expand(p) /\ T.nfiles < Lim BY <1>1, <1>7, DupExpand, Zenon
<1>8. CASE sys_dup(p)
  <2>1. th[p].pc = "dup" BY <1>8, Zenon DEF sys_dup
  <2>2. CASE /\ r.error = "0" /\ fdplock(p) /\ SetTab(p, r.tab) /\ Keep(p)
             /\ th' = [th EXCEPT ![p].pc = "finishdup", ![p].new = r.fd]
    <3>. DEFINE U == r.tab
                n == r.fd
    <3>1. tab' = [tab EXCEPT ![fdp[p]] = U] /\ th' = [th EXCEPT ![p].pc = "finishdup", ![p].new = n]
      BY <2>2, Zenon DEF SetTab
    <3>2. /\ n \in Nat /\ n \notin O /\ n < U.nfiles /\ (FreeOK(T) => FreeOK(U))
          /\ Sound(U, O \cup (IF th[p].pc = "dup" THEN {n} ELSE {}))
      BY <1>5, <2>1, <2>2, Zenon
    <3>. HIDE DEF U, n, r
    <3>. QED BY <1>1, <2>2, <3>1, <3>2, DupStart, Zenon
  <2>. QED BY <1>5, <1>6, <1>7, <1>8, <2>2, Zenon DEF sys_dup
<1>9. CASE dodup3(p)
  <2>1. th[p].pc = "dup2" BY <1>9, Zenon DEF dodup3
  <2>2. CASE fdplock(p) /\ Arg(p).new < Lim /\ Arg(p).new >= T.nfiles /\ Expand(p)
    <3>1. T.nfiles < Lim BY <1>4, <2>2, FdAssumption
    <3>. QED BY <1>7, <2>2, <3>1, Zenon
  <2>3. CASE /\ fdplock(p) /\ ~(Arg(p).new >= T.nfiles) /\ Keep(p) /\ tab' = tab
             /\ th' = [th EXCEPT ![p].pc = "finishdup", ![p].new = Arg(p).new]
    <3>. DEFINE n == Arg(p).new
    <3>1. n \in Nat /\ n < T.nfiles BY <1>4, <2>3
    <3>2. Sound(T, O \cup (IF th[p].pc = "dup" THEN {n} ELSE {}))
      <4>1. O \cup (IF th[p].pc = "dup" THEN {n} ELSE {}) = O BY <2>1, Zenon
      <4>. QED BY <1>3, <4>1, Zenon
    <3>3. th' = [th EXCEPT ![p].pc = "finishdup", ![p].new = n] BY <2>3, Zenon
    <3>. HIDE DEF n
    <3>. QED BY <1>1, <2>1, <2>3, <3>1, <3>2, <3>3, DupStart, Zenon
  <2>. QED BY <1>6, <1>9, <2>2, <2>3, Zenon DEF dodup3
<1>. QED BY <1>8, <1>9

----------------------------------------------------------------------------
\* finishdup.  The slot that is filled is in use: marked, or with a file.
LEMMA InstallInv ==
    ASSUME TabInv, Operations, NEW p \in Threads, Install(p)
    PROVE  TabInv'
<1>. DEFINE T == Mine(p)
            R == Marks(fdp[p])
            new == th[p].new
            f == th[p].fp
            ex == IF Arg(p).cloexec THEN T.exclose \cup {new} ELSE T.exclose \ {new}
            U == Filled(T, new, f, ex)
<1>1. /\ th[p].pc = "install" /\ fdpunlock(p) /\ UNCHANGED <<scn, fdp, lost, stale>>
      /\ tab' = [tab EXCEPT ![fdp[p]] = [T EXCEPT !.ofiles[new] = f, !.exclose = ex]]
  BY Zenon DEF Install, SetTab, rest
<1>2. th[p].pc \notin Ending \cup {"user"} /\ th[p].pc \in Changing BY <1>1, Zenon DEF Ending, Changing
<1>3. th[p].pc # "user" /\ Arg(p).name # "exit" /\ CallOK(p) /\ DOMAIN th = Threads /\ Shape(th[p])
  BY <1>2, NotExit, Zenon
<1>4. fdp[p] \in Tables /\ Sound(T, R) BY <1>3, TableOf, Zenon
<1>5. f \in Files /\ new \in Nat BY <1>2, <1>3, Zenon DEF CallOK
<1>6. lock[fdp[p]] = p /\ new < T.nfiles /\ (th[p].oldfp # None => T.ofiles[new] # None)
  BY <1>1, <1>2, Zenon DEF TabInv, CallsOK, ChangeOK
<1>7. new \in T.lomap /\ R \ {new} = Others(p)
  <2>1. CASE th[p].oldfp = None
    <3>1. Reserves(p) BY <1>1, <2>1, Zenon DEF Reserves
    <3>. QED BY <1>3, <3>1, ReservedFacts, Zenon
  <2>2. CASE th[p].oldfp # None
    <3>1. ~Reserves(p) BY <1>1, <2>2, Zenon DEF Reserves, Opening
    <3>2. R = Others(p) BY <1>4, <3>1, MarksSplit, Zenon DEF Own
    <3>3. new \in Fd BY <1>4, <1>5, <1>6, FdAssumption DEF Sound, MapsOK, Fd
    <3>4. new \in T.lomap /\ new \notin R BY <1>4, <1>6, <2>2, <3>3, Zenon DEF Sound, SlotsOK
    <3>. QED BY <3>2, <3>4, Zenon
  <2>. QED BY <2>1, <2>2, Zenon
<1>8. ex \in SUBSET Nat BY <1>4, <1>5, Zenon DEF Sound, Table
<1>9. Sound(U, Others(p)) /\ (FreeOK(T) => FreeOK(U))
  <2>1. Kept(T, R, U, R \ {new}) BY <1>5, <1>7, <1>8, Zenon DEF Operations, FillOp
  <2>. QED BY <1>4, <1>7, <2>1, Zenon DEF Kept
<1>10. tab' = [tab EXCEPT ![fdp[p]] = U]
  <2>. HIDE DEF T, new, f, ex
  <2>1. [T EXCEPT !.ofiles[new] = f, !.exclose = ex] = U BY <1>4, Zenon DEF Sound, Table, Filled
  <2>. QED BY <1>1, <2>1, Zenon
<1>11. LockStep(p, U) BY <1>1, <1>6, Zenon DEF LockStep
<1>. HIDE DEF U
<1>12. CASE Return(p) BY <1>1, <1>2, <1>6, <1>9, <1>10, <1>12, ReturnTable, Zenon
<1>13. CASE th' = [th EXCEPT ![p] = [th[p] EXCEPT !.pc = "closef", !.fp = th[p].oldfp, !.oldfp = None]]
  <2>1. /\ OnlyThread(p) /\ Shape(th'[p]) /\ th'[p].pc = "closef" /\ th'[p].call = th[p].call
        /\ th'[p].new = th[p].new /\ th'[p].again = th[p].again
    BY <1>3, <1>13, Zenon DEF OnlyThread, Shape
  <2>. QED BY <1>1, <1>2, <1>5, <1>9, <1>10, <1>11, <2>1, LeaveStep, Zenon
<1>. QED BY <1>12, <1>13, Zenon DEF Install

\* A dup that fails with its descriptor marked leaves the mark to nobody.
LEMMA LostStep ==
    ASSUME TabInv, NEW p \in Threads, th[p].pc = "finishdup", Arg(p).name = "dup", Fail(p),
           lost' = lost \cup {<<fdp[p], th[p].new>>}, UNCHANGED <<scn, fdp, stale, tab>>
    PROVE  TabInv'
<1>. DEFINE u == fdp[p]
            new == th[p].new
<1>1. th[p].pc \notin Ending \cup {"user"} /\ Reserves(p) BY Zenon DEF Ending, Reserves
<1>2. th[p].pc # "user" /\ Arg(p).name # "exit" /\ CallOK(p) BY <1>1, NotExit, Zenon
<1>3. u \in Tables /\ tab[u] # None BY <1>2, TableOf, Zenon DEF Mine
<1>4. new \in Fd BY <1>1, <1>2, ReservedFacts, Zenon
<1>5. /\ OnlyThread(p) /\ Shape(th'[p]) /\ th'[p].pc = "frele" /\ th'[p].call = th[p].call
      /\ th'[p].new = new /\ th'[p].again = th[p].again
  BY GotoFacts, Zenon DEF Fail
<1>6. CallOK(p)' /\ ChangeOK(p)' /\ Arg(p)' = Arg(p)
  BY <1>2, <1>5, CallKept, Zenon DEF CallOK, Special, Opening, Loops, DupCalls, Changing
<1>7. lock[u] = p BY Zenon DEF TabInv, CallsOK, ChangeOK, Changing
<1>8. LockStep(p, Mine(p)) BY <1>7, Zenon DEF LockStep, Fail
<1>9. /\ lock' \in [Tables -> Threads \cup {None}] /\ \A t \in Tables : t # u => lock'[t] = lock[t]
      /\ \A t \in Tables : lock'[t] # None =>
           fdp'[lock'[t]] = t /\ th'[lock'[t]].pc \in Changing \cup {"open"}
  BY <1>3, <1>5, <1>8, LockFacts, Zenon
<1>10. TypeOK' BY <1>3, <1>4, <1>5, <1>9 DEF TabInv, TypeOK, OnlyThread
<1>11. \A q \in Threads : CallOK(q)' /\ ChangeOK(q)'
  <2>. SUFFICES ASSUME NEW q \in Threads, q # p PROVE CallOK(q)' /\ ChangeOK(q)' BY <1>6, Zenon
  <2>1. th'[q] = th[q] BY <1>5, Zenon DEF OnlyThread
  <2>2. CallOK(q)' BY <2>1, Zenon DEF TabInv, CallsOK, CallOK, Arg
  <2>3. th[q].pc \in Changing => fdp[q] # u /\ fdp[q] \in Tables
    BY <1>7, Zenon DEF TabInv, CallsOK, TypeOK, ChangeOK, CallOK, Changing
  <2>4. ChangeOK(q)' BY <1>9, <2>1, <2>3 DEF TabInv, CallsOK, ChangeOK, Mine
  <2>. QED BY <2>2, <2>4, Zenon
<1>12. \A t : Exiting(t)' <=> Exiting(t)
  <2>1. \A q \in Threads : (th'[q].pc # "user" <=> th[q].pc # "user") /\ Arg(q)' = Arg(q)
    BY <1>2, <1>5, Zenon DEF Arg, OnlyThread
  <2>. QED BY <2>1, Zenon DEF Exiting
<1>13. ~Reserves(p)' /\ \A q \in Threads \ {p} : (Reserves(q)' <=> Reserves(q)) /\ th'[q] = th[q]
  BY <1>5, Zenon DEF Reserves, Arg, OnlyThread, Opening
<1>14. \A t : Reserving(t)' = Reserving(t) \ {p} BY <1>13, Zenon DEF Reserving
<1>15. \A t : t # u => p \notin Reserving(t) BY Zenon DEF Reserving
<1>16. \A t : Marks(t)' = Marks(t)
  <2>1. \A t : Reserving(t) \subseteq Threads BY Zenon DEF Reserving
  <2>2. ASSUME NEW t, t # u PROVE Marks(t)' = Marks(t)
    BY <1>13, <1>14, <1>15, <2>1, <2>2 DEF Marks
  <2>3. p \in Reserving(u) BY <1>1, Zenon DEF Reserving
  <2>4. Marks(u)' = Marks(u) BY <1>4, <1>13, <1>14, <2>1, <2>3, Zenon DEF Marks
  <2>. QED BY <2>2, <2>4, Zenon
<1>17. \A t \in Tables : MarksOK(t)'
  <2>. SUFFICES ASSUME NEW t \in Tables PROVE MarksOK(t)' BY Zenon
  <2>1. MarksOK(t) /\ Reserving(t) \subseteq Threads BY Zenon DEF TabInv, TabsOK, Reserving
  <2>2. \A q \in Threads : q # p => th'[q] = th[q] BY <1>13, Zenon
  <2>3. p \in Reserving(u) BY <1>1, Zenon DEF Reserving
  <2>4. \A q \in Reserving(t) : q # p => <<t, th[q].new>> # <<u, new>> BY <2>1, <2>3, Zenon DEF MarksOK
  <2>5. ASSUME NEW q \in Reserving(t), q # p
        PROVE  /\ \A s \in Reserving(t) \ {p} : th'[s].new = th'[q].new => s = q
               /\ <<t, th'[q].new>> \notin lost'
    <3>1. <<t, th[q].new>> \notin lost /\ th'[q] = th[q] BY <2>1, <2>2, <2>5, Zenon DEF MarksOK
    <3>2. \A s \in Reserving(t) \ {p} : th[s].new = th[q].new => s = q BY <2>1, <2>5, Zenon DEF MarksOK
    <3>. QED BY <2>1, <2>2, <2>4, <2>5, <3>1, <3>2, Zenon
  <2>6. Reserving(t)' = Reserving(t) \ {p} BY <1>14, Zenon
  <2>. QED BY <2>5, <2>6, Zenon DEF MarksOK
<1>18. \A t \in Tables : TableOK(t)' BY <1>12, <1>16, Zenon DEF TabInv, TabsOK, TableOK
<1>19. \A q, s \in Threads : (Exiting(fdp[q]) /\ fdp[q] # None /\ fdp[s] = fdp[q] => s = q)'
  BY <1>12, Zenon DEF TabInv, ExitsOK
<1>20. \A q \in Threads : (fdp[q] # None => tab[fdp[q]] # None)' BY Zenon DEF TabInv, CallsOK
<1>. QED BY <1>9, <1>10, <1>11, <1>17, <1>18, <1>19, <1>20, Zenon DEF TabInv, CallsOK, LocksOK, ExitsOK, TabsOK


\* finishdup finds its descriptor empty and takes it, or finds the file to be closed.
LEMMA FinishdupInv ==
    ASSUME TabInv, Operations, NEW p \in Threads, finishdup(p)
    PROVE  TabInv'
<1>. DEFINE T == Mine(p)
            new == th[p].new
            old == Slot(T, new)
            take == Arg(p).name = "dup2" /\ old = None
<1>1. th[p].pc = "finishdup" /\ UNCHANGED <<scn, fdp, stale>> BY Zenon DEF finishdup
<1>2. th[p].pc \notin Ending \cup {"user"} /\ th[p].pc \in Changing BY <1>1, Zenon DEF Ending, Changing
<1>3. th[p].pc # "user" /\ Arg(p).name # "exit" /\ CallOK(p) /\ DOMAIN th = Threads /\ Shape(th[p])
  BY <1>2, NotExit
<1>4. /\ fdp[p] \in Tables /\ Sound(T, Marks(fdp[p])) /\ (fdp[p] \notin stale => FreeOK(T))
  BY <1>3, TableOf, Zenon
<1>5. Arg(p).name \in {"dup", "dup2"} /\ th[p].fp \in Files /\ new \in Nat BY <1>2, <1>3, Zenon DEF CallOK, DupCalls
<1>6. lock[fdp[p]] = p /\ new < T.nfiles BY <1>2, Zenon DEF TabInv, CallsOK, ChangeOK
<1>7. Reserves(p) <=> Arg(p).name = "dup" BY <1>1, Zenon DEF Reserves, Opening
<1>8. CASE Fail(p) /\ Arg(p).name = "dup" /\ lost' = lost \cup {<<fdp[p], new>>} /\ tab' = tab
  BY <1>1, <1>8, LostStep, Zenon
<1>9. CASE Fail(p) /\ Arg(p).name # "dup" /\ lost' = lost /\ tab' = tab
  <2>1. /\ OnlyThread(p) /\ Shape(th'[p]) /\ th'[p].pc = "frele" /\ th'[p].call = th[p].call
        /\ th'[p].new = new /\ th'[p].again = th[p].again
    BY <1>9, GotoFacts, Zenon DEF Fail
  <2>2. LockStep(p, T) BY <1>6, <1>9, Zenon DEF LockStep, Fail
  <2>3. Sound(T, Others(p)) BY <1>3, <1>7, <1>9, Unreserved, Zenon
  <2>. QED BY <1>1, <1>2, <1>5, <1>9, <2>1, <2>2, <2>3, LeaveStep, Zenon
<1>10. ASSUME th' = [th EXCEPT ![p].pc = "install", ![p].oldfp = old], UNCHANGED <<lock, lost>>,
              NEW U, tab' = [tab EXCEPT ![fdp[p]] = U] \/ (tab' = tab /\ U = T),
              Sound(U, Others(p) \cup (IF old = None THEN {new} ELSE {})),
              FreeOK(T) => FreeOK(U), U.nfiles = T.nfiles, old = None => new \notin Others(p),
              old # None => U.ofiles[new] # None
       PROVE  TabInv'
  <2>. HIDE DEF old
  <2>1. /\ OnlyThread(p) /\ Shape(th'[p]) /\ th'[p].pc = "install" /\ th'[p].call = th[p].call
        /\ th'[p].fp = th[p].fp /\ th'[p].oldfp = old /\ th'[p].new = new /\ th'[p].again = th[p].again
    BY <1>3, <1>10, Zenon DEF OnlyThread, Shape
  <2>2. Arg(p)' = Arg(p) BY <2>1, Zenon DEF Arg
  <2>3. CallOK(p)' BY <1>1, <1>3, <1>5, <2>1, <2>2, Zenon DEF CallOK, Opening, DupCalls, Changing, Loops
  <2>4. tab'[fdp[p]] = U BY <1>4, <1>10, Zenon DEF TabInv, TypeOK, Mine
  <2>5. ChangeOK(p)' BY <1>1, <1>6, <1>10, <2>1, <2>4, Zenon DEF ChangeOK, Mine
  <2>6. Reserves(p)' <=> old = None BY <2>1, Zenon DEF Reserves, Opening
  <2>7. Own(p)' = IF old = None THEN {new} ELSE {} BY <2>1, <2>6, Zenon DEF Own
  <2>8. Sound(U, Others(p) \cup Own(p)') BY <1>10, <2>7, Zenon
  <2>9. LockStep(p, U) BY <1>6, <1>10, <2>1, Zenon DEF LockStep, Changing
  <2>. QED BY <1>1, <1>3, <1>4, <1>10, <2>1, <2>2, <2>3, <2>5, <2>6, <2>8, <2>9, TableStep, Zenon
<1>11. CASE /\ th' = [th EXCEPT ![p].pc = "install", ![p].oldfp = old] /\ UNCHANGED <<lock, lost>>
            /\ take /\ ~Busy(p) /\ SetTab(p, fd_used(T, new))
  <2>. DEFINE U == fd_used(T, new)
  <2>1. Sound(T, Others(p)) BY <1>3, <1>7, <1>11, Unreserved, Zenon
  <2>2. new \notin T.lomap BY <1>11, Zenon DEF Busy, fd_inuse
  <2>3. Sound(U, Others(p) \cup {new}) /\ (FreeOK(T) => FreeOK(U)) /\ U.nfiles = T.nfiles
    BY <1>5, <1>6, <2>1, <2>2, Zenon DEF Operations, UsedOp, Kept
  <2>4. new \notin Others(p) BY <2>1, <2>2, Zenon DEF Sound, SlotsOK
  <2>. HIDE DEF U
  <2>5. tab' = [tab EXCEPT ![fdp[p]] = U] BY <1>11, Zenon DEF SetTab, U
  <2>. QED BY <1>10, <1>11, <2>3, <2>4, <2>5, Zenon
<1>12. CASE /\ th' = [th EXCEPT ![p].pc = "install", ![p].oldfp = old] /\ UNCHANGED <<lock, lost>>
            /\ ~take /\ tab' = tab
  <2>1. CASE Arg(p).name = "dup"
    <3>1. T.ofiles[new] = None /\ new \notin Others(p) BY <1>3, <1>7, <2>1, ReservedFacts, Zenon
    <3>2. old = None BY <3>1, Zenon DEF Slot
    <3>3. Marks(fdp[p]) = Others(p) \cup {new} BY <1>4, <1>7, <2>1, MarksSplit, Zenon DEF Own
    <3>4. Sound(T, Others(p) \cup {new}) BY <1>4, <3>3, Zenon
    <3>. HIDE DEF old, T
    <3>. QED BY <1>10, <1>12, <3>1, <3>2, <3>4, Zenon
  <2>2. CASE Arg(p).name = "dup2"
    <3>1. old # None BY <1>12, <2>2, Zenon
    <3>2. T.ofiles[new] # None BY <1>3, <1>5, <3>1, SlotFacts, Zenon
    <3>3. Sound(T, Others(p)) BY <1>3, <1>7, <2>2, Unreserved, Zenon
    <3>4. Others(p) \cup (IF old = None THEN {new} ELSE {}) = Others(p) BY <3>1, Zenon
    <3>. HIDE DEF old, T
    <3>. QED BY <1>10, <1>12, <3>1, <3>2, <3>3, <3>4, Zenon
  <2>. QED BY <1>5, <2>1, <2>2, Zenon
<1>13. \/ Fail(p) /\ lost' = (IF Arg(p).name = "dup" THEN lost \cup {<<fdp[p], new>>} ELSE lost) /\ tab' = tab
       \/ /\ th' = [th EXCEPT ![p].pc = "install", ![p].oldfp = old] /\ UNCHANGED <<lock, lost>>
          /\ \/ take /\ ~Busy(p) /\ SetTab(p, fd_used(T, new))
             \/ ~take /\ tab' = tab
  <2>1. CASE file[th[p].fp].count >= FDUP_MAX_COUNT \/ (take /\ Busy(p)) BY <2>1, Zenon DEF finishdup
  <2>2. CASE ~(file[th[p].fp].count >= FDUP_MAX_COUNT \/ (take /\ Busy(p))) BY <2>2, Zenon DEF finishdup
  <2>. QED BY <2>1, <2>2, Zenon
<1>. QED BY <1>8, <1>9, <1>11, <1>12, <1>13, Zenon


----------------------------------------------------------------------------
\* Processes begin and end.  The table of a child has no marks.
LEMMA ForkInv ==
    ASSUME TabInv, Operations, NEW p \in Threads, fork(p)
    PROVE  TabInv'
<1>. DEFINE T == Mine(p)
            R == Marks(fdp[p])
            copy == fdcopy(T, Stay(T))
<1>1. PICK q \in Threads, t \in Tables :
        /\ th[p].pc = "fork" /\ fdp[q] = None /\ th[q].pc = "user" /\ tab[t] = None
        /\ tab' = [tab EXCEPT ![t] = copy] /\ fdp' = [fdp EXCEPT ![q] = t]
        /\ stale' = IF fdp[p] \in stale \/ \E fd \in T.lomap : T.ofiles[fd] = None
                    THEN stale \cup {t} ELSE stale \ {t}
        /\ Return(p) /\ UNCHANGED <<scn, lost, lock>>
  BY Zenon DEF fork
<1>2. th[p].pc \notin Ending \cup {"user"} /\ ~Reserves(p) BY <1>1, Zenon DEF Ending, Reserves, Opening
<1>3. th[p].pc # "user" /\ Arg(p).name # "exit" /\ CallOK(p) /\ DOMAIN th = Threads BY <1>2, NotExit, Zenon
<1>4. fdp[p] \in Tables /\ Sound(T, R) /\ (fdp[p] \notin stale => FreeOK(T)) BY <1>3, TableOf, Zenon
<1>5. OnlyThread(p) /\ th'[p].pc = "user" /\ CallOK(p)' /\ ~Reserves(p)' /\ ChangeOK(p)' BY <1>1, ReturnFacts, Zenon
<1>6. q # p /\ (\A s \in Threads : fdp[s] # t) /\ (\A x \in lost : x[1] # t)
  BY <1>1, <1>4, ScenarioAssumption, Zenon DEF TabInv, CallsOK, TypeOK
<1>7. Sound(copy, {}) /\ (t \notin stale' => FreeOK(copy))
  <2>1. Stay(T) \in SUBSET (0 .. T.lastfile) BY Zenon DEF Stay
  <2>2. Sound(copy, {}) /\ (FreeOK(T) /\ R = {} => FreeOK(copy)) BY <1>4, <2>1, Zenon DEF Operations, CopyOp
  <2>3. ASSUME t \notin stale' PROVE FreeOK(copy)
    <3>1. fdp[p] \notin stale /\ \A fd \in T.lomap : T.ofiles[fd] # None BY <1>1, <2>3, Zenon
    <3>2. R = {} BY <1>4, <3>1, Zenon DEF Sound, SlotsOK
    <3>. QED BY <1>4, <2>2, <3>1, <3>2, Zenon
  <2>. QED BY <2>2, <2>3, Zenon
<1>. HIDE DEF copy, T
<1>8. copy \in Table(Files \cup {None}) /\ copy # None BY <1>7, ScenarioAssumption, Zenon DEF Sound
<1>9. /\ tab'[t] = copy /\ \A v \in Tables : v # t => tab'[v] = tab[v]
      /\ fdp'[q] = t /\ \A s \in Threads : s # q => fdp'[s] = fdp[s]
  BY <1>1, Zenon DEF TabInv, TypeOK
<1>10. \A s \in Threads : s # p => th'[s] = th[s] BY <1>5, Zenon DEF OnlyThread
<1>11. TypeOK'
  <2>1. fdp' \in [Threads -> Tables \cup {None}] /\ DOMAIN tab' = Tables BY <1>1, Zenon DEF TabInv, TypeOK
  <2>2. \A x \in lost : x \in Tables \X Fd /\ tab'[x[1]] # None BY <1>6, <1>9, Zenon DEF TabInv, TypeOK
  <2>. QED BY <1>1, <1>5, <2>1, <2>2, Zenon DEF TabInv, TypeOK, OnlyThread
<1>12. \A s \in Threads : CallOK(s)' /\ ChangeOK(s)'
  <2>. SUFFICES ASSUME NEW s \in Threads, s # p PROVE CallOK(s)' /\ ChangeOK(s)' BY <1>5, Zenon
  <2>1. CallOK(s) /\ ChangeOK(s) /\ th'[s] = th[s] BY <1>10, Zenon DEF TabInv, CallsOK
  <2>2. th[s].pc # "user" => fdp'[s] = fdp[s] /\ fdp[s] \in Tables /\ tab'[fdp[s]] = tab[fdp[s]]
    BY <1>1, <1>6, <1>9, <2>1 DEF TabInv, CallsOK, TypeOK, CallOK
  <2>3. CallOK(s)' BY <2>1, <2>2, Zenon DEF CallOK, Arg
  <2>4. ChangeOK(s)' BY <1>1, <2>1, <2>2, Zenon DEF ChangeOK, Mine, Changing
  <2>. QED BY <2>3, <2>4, Zenon
<1>13. \A s \in Threads : (fdp[s] # None => tab[fdp[s]] # None)'
  BY <1>6, <1>8, <1>9 DEF TabInv, CallsOK, TypeOK
<1>14. \A v \in Tables : lock'[v] # None =>
         fdp'[lock'[v]] = v /\ th'[lock'[v]].pc \in Changing \cup {"open"}
  <2>. SUFFICES ASSUME NEW v \in Tables, lock[v] # None
       PROVE  fdp'[lock[v]] = v /\ th'[lock[v]].pc \in Changing \cup {"open"}
    BY <1>1, Zenon
  <2>1. lock[v] \in Threads /\ fdp[lock[v]] = v /\ th[lock[v]].pc \in Changing \cup {"open"}
    BY Zenon DEF TabInv, LocksOK, TypeOK
  <2>2. lock[v] # p /\ lock[v] # q BY <1>1, <2>1, Zenon DEF Changing
  <2>. QED BY <1>9, <1>10, <2>1, <2>2, Zenon
<1>15. /\ \A v \in Tables : v # t => Reserving(v)' = Reserving(v) /\ p \notin Reserving(v)
       /\ Reserving(t)' = {}
  <2>1. ~Reserves(q)' BY <1>1, <1>6, <1>10, Zenon DEF Reserves, Opening
  <2>2. \A s \in Threads : s # p => (Reserves(s)' <=> Reserves(s)) BY <1>10, Zenon DEF Reserves, Arg
  <2>3. \A s \in Threads : (Reserves(s)' <=> Reserves(s)) BY <1>2, <1>5, <2>2, Zenon
  <2>4. ASSUME NEW v \in Tables, v # t, NEW s \in Threads PROVE fdp'[s] = v <=> fdp[s] = v
    BY <1>1, <1>9, <2>4, ScenarioAssumption
  <2>5. \A v \in Tables : v # t => Reserving(v)' = Reserving(v) BY <2>3, <2>4, Zenon DEF Reserving
  <2>6. Reserving(t)' = {} BY <1>6, <1>9, <2>1 DEF Reserving
  <2>. QED BY <1>2, <2>5, <2>6, Zenon DEF Reserving
<1>16. /\ \A v \in Tables : v # t => (Exiting(v)' <=> Exiting(v))
       /\ ~Exiting(t)'
  <2>1. \A s \in Threads : s # p => Arg(s)' = Arg(s) BY <1>10, Zenon DEF Arg
  <2>. QED BY <1>1, <1>3, <1>5, <1>6, <1>9, <1>10, <2>1, ScenarioAssumption DEF Exiting
<1>17. /\ \A v \in Tables : v # t => Marks(v)' = Marks(v)
       /\ Marks(t)' = {}
  <2>1. \A v : Reserving(v) \subseteq Threads BY Zenon DEF Reserving
  <2>2. ASSUME NEW v \in Tables, v # t PROVE Marks(v)' = Marks(v)
    BY <1>1, <1>10, <1>15, <2>1, <2>2 DEF Marks
  <2>3. Marks(t)' = {} BY <1>1, <1>6, <1>15, Zenon DEF Marks
  <2>. QED BY <2>2, <2>3, Zenon
<1>18. ASSUME NEW v \in Tables PROVE MarksOK(v)' /\ TableOK(v)'
  <2>1. CASE v = t
    <3>1. MarksOK(v)' BY <1>15, <2>1, Zenon DEF MarksOK
    <3>2. TableOK(v)' BY <1>7, <1>8, <1>9, <1>17, <2>1, Zenon DEF TableOK
    <3>. QED BY <3>1, <3>2, Zenon
  <2>2. CASE v # t
    <3>1. MarksOK(v) /\ TableOK(v) /\ Reserving(v) \subseteq Threads BY Zenon DEF TabInv, TabsOK, Reserving
    <3>2. Reserving(v)' = Reserving(v) /\ \A s \in Reserving(v) : th'[s] = th[s]
      BY <1>10, <1>15, <2>2, <3>1, Zenon
    <3>3. MarksOK(v)' BY <1>1, <3>1, <3>2 DEF MarksOK
    <3>4. v \in stale <=> v \in stale' BY <1>1, <2>2, Zenon
    <3>5. TableOK(v)' BY <1>9, <1>16, <1>17, <2>2, <3>1, <3>4, Zenon DEF TableOK
    <3>. QED BY <3>3, <3>5
  <2>. QED BY <2>1, <2>2, Zenon
<1>19. \A a, b \in Threads : (Exiting(fdp[a]) /\ fdp[a] # None /\ fdp[b] = fdp[a] => b = a)'
  <2>. SUFFICES ASSUME NEW a \in Threads, NEW b \in Threads, Exiting(fdp[a])', fdp'[a] # None,
                       fdp'[b] = fdp'[a]
       PROVE  b = a
    BY Zenon
  <2>1. fdp'[a] \in Tables /\ fdp'[a] # t BY <1>11, <1>16, Zenon DEF TypeOK
  <2>2. fdp'[a] = fdp[a] /\ fdp'[b] = fdp[b] BY <1>9, <2>1, Zenon
  <2>3. Exiting(fdp[a]) BY <1>16, <2>1, <2>2 DEF Exiting
  <2>. QED BY <2>2, <2>3, Zenon DEF TabInv, ExitsOK
<1>. QED BY <1>11, <1>12, <1>13, <1>14, <1>18, <1>19, Zenon DEF TabInv, CallsOK, LocksOK, ExitsOK, TabsOK


\* The only thread of a process that exits empties its table and drops it.
LEMMA FreeInv ==
    ASSUME TabInv, NEW p \in Threads, fdfree(p)
    PROVE  TabInv'
<1>0. PICK u : u = fdp[p] BY Zenon
<1>1. th[p].pc = "exit" /\ UNCHANGED <<scn, stale, lock>> BY Zenon DEF fdfree
<1>2. CallOK(p) /\ DOMAIN th = Threads BY Zenon DEF TabInv, CallsOK, TypeOK
<1>3. Shape(th[p]) /\ u # None /\ Arg(p).name = "exit" /\ ~Reserves(p) /\ th[p].new \in Nat
  BY <1>0, <1>1, <1>2, Zenon DEF CallOK, Loops, Reserves, Opening
<1>4. u \in Tables /\ Exiting(u) BY <1>0, <1>1, <1>3, Zenon DEF TabInv, TypeOK, Exiting
<1>5. \A q \in Threads : fdp[q] = u => q = p BY <1>0, <1>3, <1>4, Zenon DEF TabInv, ExitsOK
<1>6. \A t \in Tables : lock[t] # None => lock[t] \in Threads /\ lock[t] # p /\ t # u
  BY <1>0, <1>1, <1>5 DEF TabInv, LocksOK, TypeOK, Changing
<1>7. \A t \in Tables : t # u => p \notin Reserving(t) BY <1>0, Zenon DEF Reserving
<1>8. ASSUME OnlyThread(p), CallOK(p)', ChangeOK(p)', ~Reserves(p)', DOMAIN tab' = Tables,
             fdp' \in [Threads -> Tables \cup {None}], \A q \in Threads : q # p => fdp'[q] = fdp[q],
             \A t \in Tables : t # u => tab'[t] = tab[t],
             lost' \subseteq lost, \A t \in Tables : \A fd : t # u => (<<t, fd>> \in lost' <=> <<t, fd>> \in lost),
             \/ fdp'[p] = None /\ tab'[u] = None /\ \A x \in lost' : x[1] # u
             \/ fdp'[p] = u /\ tab'[u] \in Table(Files \cup {None}) /\ Exiting(u)'
      PROVE  TabInv'
  <2>1. tab'[u] = None \/ (tab'[u] # None /\ fdp'[p] = u) BY <1>8, ScenarioAssumption, Zenon
  <2>2. TypeOK'
    <3>1. \A x \in lost' : x \in Tables \X Fd /\ tab'[x[1]] # None
      <4>1. \A x \in lost' : x \in Tables \X Fd /\ tab[x[1]] # None BY <1>8, Zenon DEF TabInv, TypeOK
      <4>2. tab'[u] = None => \A x \in lost' : x[1] # u BY <1>8, ScenarioAssumption, Zenon
      <4>. QED BY <1>8, <4>1, <4>2, Zenon
    <3>. QED BY <1>1, <1>8, <3>1, Zenon DEF TabInv, TypeOK, OnlyThread
  <2>3. \A q \in Threads : q # p => th'[q] = th[q] /\ fdp'[q] = fdp[q] /\ fdp'[q] # u
    BY <1>0, <1>5, <1>8, Zenon DEF OnlyThread
  <2>4. \A q \in Threads : CallOK(q)' /\ ChangeOK(q)' /\ (fdp[q] # None => tab[fdp[q]] # None)'
    <3>. SUFFICES ASSUME NEW q \in Threads, q # p
         PROVE  CallOK(q)' /\ ChangeOK(q)' /\ (fdp[q] # None => tab[fdp[q]] # None)'
      BY <1>0, <1>8, ScenarioAssumption
    <3>1. CallOK(q) /\ ChangeOK(q) /\ (fdp[q] # None => fdp[q] \in Tables /\ tab[fdp[q]] # None)
      BY Zenon DEF TabInv, CallsOK, TypeOK
    <3>2. fdp[q] # None => tab'[fdp[q]] = tab[fdp[q]] BY <1>0, <1>8, <2>3, <3>1, Zenon
    <3>3. CallOK(q)' BY <2>3, <3>1, Zenon DEF CallOK, Arg
    <3>4. ChangeOK(q)' BY <1>1, <2>3, <3>1, <3>2, Zenon DEF ChangeOK, Mine, CallOK, Changing
    <3>. QED BY <2>3, <3>1, <3>2, <3>3, <3>4, Zenon
  <2>5. \A t \in Tables : lock'[t] # None => fdp'[lock'[t]] = t /\ th'[lock'[t]].pc \in Changing \cup {"open"}
    BY <1>1, <1>6, <2>3, Zenon DEF TabInv, LocksOK
  <2>6. \A q \in Threads : Reserves(q)' <=> Reserves(q) BY <1>3, <1>8, <2>3, Zenon DEF Reserves, Arg
  <2>7. \A t \in Tables : t # u => Reserving(t)' = Reserving(t)
    <3>1. \A t \in Tables, q \in Threads : t # u => (fdp'[q] = t <=> fdp[q] = t)
      BY <1>0, <1>8, <2>3, ScenarioAssumption
    <3>. QED BY <2>6, <3>1, Zenon DEF Reserving
  <2>8. Reserving(u)' = {} BY <1>8, <2>3, Zenon DEF Reserving
  <2>9. \A t \in Tables : t # u => (Exiting(t)' <=> Exiting(t))
    <3>1. \A t \in Tables, q \in Threads : t # u => (fdp'[q] = t <=> fdp[q] = t /\ q # p)
      BY <1>0, <1>8, <2>3, ScenarioAssumption
    <3>. QED BY <1>0, <2>3, <3>1, Zenon DEF Exiting, Arg
  <2>10. ASSUME NEW t \in Tables PROVE MarksOK(t)' /\ TableOK(t)'
    <3>1. CASE t = u
      <4>1. MarksOK(t)' BY <2>8, <3>1, Zenon DEF MarksOK
      <4>2. TableOK(t)' BY <1>8, <3>1, Zenon DEF TableOK
      <4>. QED BY <4>1, <4>2, Zenon
    <3>2. CASE t # u
      <4>1. MarksOK(t) /\ TableOK(t) /\ Reserving(t) \subseteq Threads BY Zenon DEF TabInv, TabsOK, Reserving
      <4>2. Reserving(t)' = Reserving(t) /\ \A s \in Reserving(t) : th'[s] = th[s]
        BY <1>7, <2>3, <2>7, <3>2, <4>1, Zenon
      <4>3. MarksOK(t)' BY <1>8, <3>2, <4>1, <4>2 DEF MarksOK
      <4>4. Marks(t)' = Marks(t) BY <1>8, <3>2, <4>2 DEF Marks
      <4>5. TableOK(t)' BY <1>1, <1>8, <2>9, <3>2, <4>1, <4>4, Zenon DEF TableOK
      <4>. QED BY <4>3, <4>5
    <3>. QED BY <3>1, <3>2, Zenon
  <2>11. \A a, b \in Threads : (Exiting(fdp[a]) /\ fdp[a] # None /\ fdp[b] = fdp[a] => b = a)'
    <3>. SUFFICES ASSUME NEW a \in Threads, NEW b \in Threads, Exiting(fdp[a])', fdp'[a] # None,
                         fdp'[b] = fdp'[a]
         PROVE  b = a
      BY Zenon
    <3>1. CASE fdp'[a] = u BY <2>3, <3>1, Zenon
    <3>2. CASE fdp'[a] # u
      <4>1. a # p /\ b # p BY <1>8, <3>2, Zenon
      <4>2. fdp'[a] \in Tables /\ fdp'[a] = fdp[a] /\ fdp'[b] = fdp[b] BY <2>3, <4>1, Zenon DEF TabInv, TypeOK
      <4>3. Exiting(fdp[a]) BY <2>9, <3>2, <4>2, Zenon DEF Exiting
      <4>. QED BY <4>2, <4>3, Zenon DEF TabInv, ExitsOK
    <3>. QED BY <3>1, <3>2, Zenon
  <2>. QED BY <2>2, <2>4, <2>5, <2>10, <2>11, Zenon DEF TabInv, CallsOK, LocksOK, ExitsOK, TabsOK
<1>9. CASE /\ tab' = [tab EXCEPT ![u] = None] /\ fdp' = [fdp EXCEPT ![p] = None]
           /\ lost' = {x \in lost : x[1] # u} /\ Return(p)
  <2>1. OnlyThread(p) /\ CallOK(p)' /\ ~Reserves(p)' /\ ChangeOK(p)' BY <1>9, ReturnFacts, Zenon
  <2>2. DOMAIN tab' = Tables /\ tab'[u] = None /\ \A t \in Tables : t # u => tab'[t] = tab[t]
    BY <1>4, <1>9, Zenon DEF TabInv, TypeOK
  <2>3. /\ fdp' \in [Threads -> Tables \cup {None}] /\ fdp'[p] = None
        /\ \A q \in Threads : q # p => fdp'[q] = fdp[q]
    BY <1>9, Zenon DEF TabInv, TypeOK
  <2>4. \A t \in Tables : \A fd : t # u => (<<t, fd>> \in lost' <=> <<t, fd>> \in lost) BY <1>9, Zenon
  <2>. QED BY <1>8, <1>9, <2>1, <2>2, <2>3, <2>4, Zenon
<1>10. ASSUME NEW fd, NEW f, tab' = [tab EXCEPT ![u] = [tab[u] EXCEPT !.ofiles[fd] = None]],
              th' = [th EXCEPT ![p].pc = "closef", ![p].fp = f], UNCHANGED <<fdp, lost>>
       PROVE  TabInv'
  <2>1. /\ OnlyThread(p) /\ Shape(th'[p]) /\ th'[p].pc = "closef" /\ th'[p].call = th[p].call
        /\ th'[p].new = th[p].new /\ th'[p].again = th[p].again
    BY <1>2, <1>3, <1>10, Zenon DEF OnlyThread, Shape
  <2>2. CallOK(p)' /\ ChangeOK(p)' /\ Arg(p)' = Arg(p)
    BY <1>1, <1>2, <1>3, <1>10, <2>1, CallKept, Zenon
    DEF CallOK, Special, Opening, Loops, DupCalls, Changing, Ending
  <2>3. ~Reserves(p)' BY <2>1, Zenon DEF Reserves, Opening
  <2>4. tab[u] \in Table(Files \cup {None}) BY <1>0, <1>3, <1>4 DEF TabInv, CallsOK, TabsOK, TableOK
  <2>5. [tab[u] EXCEPT !.ofiles[fd] = None] \in Table(Files \cup {None}) BY <2>4, Zenon DEF Table
  <2>6. /\ DOMAIN tab' = Tables /\ tab'[u] \in Table(Files \cup {None})
        /\ \A t \in Tables : t # u => tab'[t] = tab[t]
    BY <1>4, <1>10, <2>5, Zenon DEF TabInv, TypeOK
  <2>7. Exiting(u)' BY <1>0, <1>3, <1>10, <2>1, <2>2, Zenon DEF Exiting
  <2>8. fdp' \in [Threads -> Tables \cup {None}] /\ fdp' = fdp BY <1>10, Zenon DEF TabInv, TypeOK
  <2>. QED BY <1>0, <1>8, <1>10, <2>1, <2>2, <2>3, <2>6, <2>7, <2>8, Zenon
<1>. QED BY <1>0, <1>9, <1>10, Zenon DEF fdfree, SetTab, Mine


\* A thread that makes a call; exec and exit end the other threads of the process.
LEMMA EnterInv ==
    ASSUME TabInv, NEW p \in Threads, Enter(p)
    PROVE  TabInv'
<1>1. PICK c \in scn.calls[p] :
        /\ th[p].pc = "user" /\ fdp[p] # None
        /\ c.name \in {"exec", "exit"} => Alone(p)
        /\ th' = [th EXCEPT ![p] = [User EXCEPT !.pc = Entry(c), !.call = c, !.new = c.new]]
        /\ fdp' = [q \in Threads |->
                     IF c.name \in {"exec", "exit"} /\ q # p /\ fdp[q] = fdp[p] THEN None ELSE fdp[q]]
        /\ UNCHANGED <<scn, tab, lock, lost, stale>>
  BY Zenon DEF Enter
<1>2. c.name \in CallNames /\ c.fd \in Nat /\ c.new \in Nat
  BY <1>1, ScenarioAssumption, Zenon DEF TabInv, TypeOK
<1>3. /\ OnlyThread(p) /\ Shape(th'[p]) /\ th'[p].pc = Entry(c) /\ th'[p].call = c
      /\ th'[p].new = c.new /\ th'[p].again = FALSE
  BY <1>1, Zenon DEF TabInv, TypeOK, OnlyThread, Shape, User
<1>4. /\ fdp' \in [Threads -> Tables \cup {None}] /\ fdp'[p] = fdp[p]
      /\ \A q \in Threads : fdp'[q] = fdp[q] \/ (fdp'[q] = None /\ th[q].pc = "user" /\ q # p)
  BY <1>1, Zenon DEF TabInv, TypeOK, Alone
<1>5. \A q \in Threads : th[q].pc # "user" => q # p /\ th'[q] = th[q] /\ fdp'[q] = fdp[q]
  BY <1>1, <1>3, <1>4, Zenon DEF OnlyThread
<1>6. /\ Entry(c) = "getfile" => c.name \in OnFile
      /\ Entry(c) # "getfile" => Entry(c) = c.name \/ Entry(c) = "open"
      /\ c.name \in {"exec", "exit"} => Entry(c) = c.name
      /\ Entry(c) \notin Opening \cup DupCalls \cup Changing \cup {"user"}
  BY <1>2, Zenon DEF Entry, OnFile, CallNames, Opening, DupCalls, Changing
<1>7. CallOK(p)'
  BY <1>1, <1>2, <1>3, <1>4, <1>6, Zenon DEF CallOK, Arg, Ending, Loops
<1>8. ChangeOK(p)' BY <1>3, <1>6, Zenon DEF ChangeOK
<1>9. \A q \in Threads : CallOK(q)' /\ ChangeOK(q)' /\ (fdp[q] # None => tab[fdp[q]] # None)'
  <2>. SUFFICES ASSUME NEW q \in Threads
       PROVE  CallOK(q)' /\ ChangeOK(q)' /\ (fdp[q] # None => tab[fdp[q]] # None)'
    BY Zenon
  <2>1. CallOK(q) /\ ChangeOK(q) /\ (fdp[q] # None => tab[fdp[q]] # None) BY Zenon DEF TabInv, CallsOK
  <2>2. (fdp[q] # None => tab[fdp[q]] # None)' BY <1>1, <1>4, <2>1, Zenon
  <2>3. CASE q # p
    <3>1. th'[q] = th[q] BY <1>3, <2>3, Zenon DEF OnlyThread
    <3>2. CallOK(q)' BY <1>5, <2>1, <3>1, Zenon DEF CallOK, Arg
    <3>3. ChangeOK(q)' BY <1>1, <1>5, <2>1, <3>1, Zenon DEF ChangeOK, Mine, Changing
    <3>. QED BY <2>2, <3>2, <3>3, Zenon
  <2>. QED BY <1>7, <1>8, <2>2, <2>3, Zenon
<1>10. \A t \in Tables : lock'[t] # None => fdp'[lock'[t]] = t /\ th'[lock'[t]].pc \in Changing \cup {"open"}
  BY <1>1, <1>5 DEF TabInv, LocksOK, TypeOK, Changing
<1>11. \A t \in Tables : Reserving(t)' = Reserving(t) /\ \A q \in Reserving(t) : th'[q] = th[q]
  <2>1. ~Reserves(p) /\ ~Reserves(p)'
    BY <1>1, <1>3, <1>6, Zenon DEF Reserves, Opening, Changing
  <2>2. \A q \in Threads : q # p => (Reserves(q)' <=> Reserves(q))
    BY <1>3, Zenon DEF Reserves, Arg, OnlyThread
  <2>3. \A q \in Threads : Reserves(q) => th[q].pc # "user" BY Zenon DEF Reserves, Opening
  <2>4. \A q \in Threads, t \in Tables : Reserves(q) => (fdp'[q] = t <=> fdp[q] = t)
    BY <1>5, <2>3, Zenon
  <2>5. \A q \in Threads, t \in Tables :
            fdp'[q] = t /\ Reserves(q)' <=> fdp[q] = t /\ Reserves(q)
    BY <2>1, <2>2, <2>4, Zenon
  <2>6. \A t \in Tables : Reserving(t)' = Reserving(t) BY <2>5, Zenon DEF Reserving
  <2>. QED BY <1>5, <2>3, <2>6, Zenon DEF Reserving
<1>12. \A t \in Tables : Exiting(t) => Exiting(t)'
  <2>. SUFFICES ASSUME NEW t \in Tables, NEW q \in Threads, fdp[q] = t, th[q].pc # "user", Arg(q).name = "exit"
       PROVE  Exiting(t)'
    BY Zenon DEF Exiting
  <2>1. fdp'[q] = t /\ th'[q].pc # "user" /\ Arg(q)'.name = "exit" BY <1>5, Zenon DEF Arg
  <2>. QED BY <2>1, Zenon DEF Exiting
<1>13. ASSUME NEW t \in Tables PROVE MarksOK(t)' /\ TableOK(t)'
  <2>1. MarksOK(t) /\ TableOK(t) BY Zenon DEF TabInv, TabsOK
  <2>2. Reserving(t)' = Reserving(t) /\ lost' = lost /\ \A q \in Reserving(t) : th'[q] = th[q]
    BY <1>1, <1>11, Zenon
  <2>3. MarksOK(t)' BY <2>1, <2>2, Zenon DEF MarksOK
  <2>4. Marks(t)' = Marks(t) BY <2>2 DEF Marks
  <2>5. TableOK(t)' BY <1>1, <1>12, <2>1, <2>4, Zenon DEF TableOK
  <2>. QED BY <2>3, <2>5, Zenon
<1>14. \A a, b \in Threads : (Exiting(fdp[a]) /\ fdp[a] # None /\ fdp[b] = fdp[a] => b = a)'
  <2>. SUFFICES ASSUME NEW a \in Threads, NEW b \in Threads, Exiting(fdp[a])', fdp'[a] # None,
                       fdp'[b] = fdp'[a]
       PROVE  b = a
    BY Zenon
  <2>1. PICK w \in Threads : fdp'[w] = fdp'[a] /\ th'[w].pc # "user" /\ th'[w].call.name = "exit"
    BY Zenon DEF Exiting, Arg
  <2>2. fdp'[w] = fdp[w] /\ fdp'[a] = fdp[a] /\ fdp'[b] = fdp[b] BY <1>4, <2>1, Zenon
  <2>3. CASE w = p BY <1>1, <1>3, <2>1, <2>2, <2>3, Zenon
  <2>4. CASE w # p
    <3>1. Exiting(fdp[w]) BY <1>3, <2>1, <2>2, <2>4, Zenon DEF Exiting, Arg, OnlyThread
    <3>. QED BY <2>1, <2>2, <3>1, Zenon DEF TabInv, ExitsOK
  <2>. QED BY <2>3, <2>4, Zenon
<1>15. TypeOK' BY <1>1, <1>3, <1>4, Zenon DEF TabInv, TypeOK, OnlyThread
<1>. QED BY <1>9, <1>10, <1>13, <1>14, <1>15, Zenon DEF TabInv, CallsOK, LocksOK, ExitsOK, TabsOK
=============================================================================
