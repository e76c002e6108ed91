------------------------- MODULE KernDescripProofs -------------------------
(***************************************************************************)
(* Threads that share a descriptor table keep it exact: a descriptor that  *)
(* an open or a dup has marked stays its own until the slot is filled, and *)
(* the bitmaps, the count and the hints stay true to the slots, for any    *)
(* number of threads, tables and files and every size of a table.          *)
(***************************************************************************)
EXTENDS KernDescripSteps, FileDescProofs

----------------------------------------------------------------------------
\* The operations on a table keep it sound.
LEMMA OperationsOK == Operations
<1>. DEFINE F == Files \cup {None}
<1>. None \in F BY Zenon
<1>1. RemoveOp
  <2>. SUFFICES ASSUME NEW T, NEW R, NEW fd \in T.lomap, Sound(T, R)
       PROVE  Sound(fdremove(T, fd), R \ {fd}) /\ (FreeOK(T) => FreeOK(fdremove(T, fd)))
    BY Zenon DEF RemoveOp, Kept
  <2>1. T \in Table(F) /\ MapsOK(T) /\ SlotsOK(T, R) BY Zenon DEF Sound
  <2>. HIDE DEF F
  <2>2. LET U == fdremove(T, fd)
        IN  U \in Table(F) /\ MapsOK(U) /\ SlotsOK(U, R \ {fd}) /\ (FreeOK(T) => FreeOK(U))
    BY <2>1, RemoveOK, Zenon
  <2>. QED BY <2>2, Zenon DEF Sound, F
<1>2. UnmarkOp
  <2>. SUFFICES ASSUME NEW T, NEW R, NEW fd \in R, Sound(T, R)
       PROVE  Sound(fd_unused(T, fd), R \ {fd}) /\ (FreeOK(T) => FreeOK(fd_unused(T, fd)))
    BY Zenon DEF UnmarkOp, Kept
  <2>1. T \in Table(F) /\ MapsOK(T) /\ SlotsOK(T, R) BY Zenon DEF Sound
  <2>. HIDE DEF F
  <2>2. LET U == fd_unused(T, fd)
        IN  U \in Table(F) /\ MapsOK(U) /\ SlotsOK(U, R \ {fd}) /\ (FreeOK(T) => FreeOK(U))
    BY <2>1, UnmarkOK, Zenon
  <2>. QED BY <2>2, Zenon DEF Sound, F
<1>3. FillOp
  <2>. SUFFICES ASSUME NEW T, NEW R, NEW fd \in T.lomap, NEW f \in Files, NEW ex \in SUBSET Nat, Sound(T, R)
       PROVE  Sound(Filled(T, fd, f, ex), R \ {fd}) /\ (FreeOK(T) => FreeOK(Filled(T, fd, f, ex)))
    BY Zenon DEF FillOp, Kept
  <2>1. T \in Table(F) /\ MapsOK(T) /\ SlotsOK(T, R) BY Zenon DEF Sound
  <2>2. f \in F /\ f # None BY ScenarioAssumption, Zenon
  <2>. HIDE DEF F
  <2>3. LET U == Filled(T, fd, f, ex)
        IN  U \in Table(F) /\ MapsOK(U) /\ SlotsOK(U, R \ {fd}) /\ (FreeOK(T) => FreeOK(U))
    BY <2>1, <2>2, FillOK, Zenon
  <2>. QED BY <2>3, Zenon DEF Sound, F
<1>4. ExpandOp
  <2>. SUFFICES ASSUME NEW T, NEW R, T.nfiles < Lim, Sound(T, R)
       PROVE  Sound(fdexpand(T), R) /\ (FreeOK(T) => FreeOK(fdexpand(T)))
    BY Zenon DEF ExpandOp, Kept
  <2>1. T \in Table(F) /\ MapsOK(T) /\ SlotsOK(T, R) BY Zenon DEF Sound
  <2>. HIDE DEF F
  <2>2. LET U == fdexpand(T)
        IN  /\ U \in Table(F) /\ MapsOK(U)
            /\ U.ofiles = T.ofiles /\ U.lomap = T.lomap /\ U.freefile = T.freefile
    BY <2>1, ExpandOK, Zenon
  <2>. HIDE DEF fdexpand
  <2>3. SlotsOK(fdexpand(T), R) BY <2>1, <2>2, Zenon DEF SlotsOK
  <2>4. FreeOK(T) => FreeOK(fdexpand(T)) BY <2>2, Zenon DEF FreeOK
  <2>. QED BY <2>2, <2>3, <2>4, Zenon DEF Sound, F
<1>5. ASSUME NEW T, NEW U, NEW R, NEW fd \in Nat, fd < T.nfiles, fd \notin T.lomap, Sound(T, R),
             U \in Table(F), MapsOK(U), U.lomap = T.lomap \cup {fd}, U.ofiles = T.ofiles
      PROVE  Sound(U, R \cup {fd}) /\ fd \notin R
  <2>1. T \in Table(F) /\ MapsOK(T) /\ SlotsOK(T, R) BY <1>5, Zenon DEF Sound
  <2>2. fd \in Fd BY <1>5, <2>1, FdAssumption DEF MapsOK, Fd
  <2>3. T.ofiles[fd] = None /\ fd \notin R BY <1>5, <2>1, <2>2, Zenon DEF SlotsOK
  <2>4. SlotsOK(U, R \cup {fd}) BY <1>5, <2>1, <2>2, <2>3, Zenon DEF SlotsOK
  <2>. QED BY <1>5, <2>3, <2>4, Zenon DEF Sound
<1>6. UsedOp
  <2>. SUFFICES ASSUME NEW T, NEW R, NEW fd \in Nat, fd < T.nfiles, fd \notin T.lomap, Sound(T, R)
       PROVE  /\ Sound(fd_used(T, fd), R \cup {fd}) /\ (FreeOK(T) => FreeOK(fd_used(T, fd)))
              /\ fd_used(T, fd).nfiles = T.nfiles
    BY Zenon DEF UsedOp, Kept
  <2>1. T \in Table(F) /\ MapsOK(T) BY Zenon DEF Sound
  <2>. HIDE DEF F
  <2>2. LET U == fd_used(T, fd)
        IN  /\ U \in Table(F) /\ MapsOK(U) /\ U.lomap = T.lomap \cup {fd}
            /\ U.ofiles = T.ofiles /\ U.nfiles = T.nfiles /\ U.freefile = T.freefile
    BY <2>1, UsedOK
  <2>3. Sound(fd_used(T, fd), R \cup {fd}) BY <1>5, <2>2, Zenon
  <2>4. FreeOK(T) => FreeOK(fd_used(T, fd)) BY <2>2, Zenon DEF FreeOK
  <2>. QED BY <2>2, <2>3, <2>4, Zenon
<1>7. AllocOp
  <2>. SUFFICES ASSUME NEW T, NEW R, NEW want \in Nat, Sound(T, R)
       PROVE  LET r == fdalloc(T, want)
              IN  /\ r.error = "0" =>
                       /\ r.fd \in Nat /\ r.fd \notin R /\ r.fd < T.nfiles /\ r.tab.nfiles = T.nfiles
                       /\ Sound(r.tab, R \cup {r.fd}) /\ (FreeOK(T) => FreeOK(r.tab))
                  /\ r.error = "ENOSPC" => T.nfiles < Lim
    BY Zenon DEF AllocOp
  <2>. DEFINE r == fdalloc(T, want)
  <2>1. T \in Table(F) /\ MapsOK(T) BY Zenon DEF Sound
  <2>. HIDE DEF F
  <2>2. /\ r.error = "0" =>
             /\ r.fd \in Nat /\ r.fd < T.nfiles /\ r.fd \notin T.lomap
             /\ r.tab \in Table(F) /\ MapsOK(r.tab)
             /\ r.tab.lomap = T.lomap \cup {r.fd} /\ r.tab.ofiles = T.ofiles
             /\ r.tab.nfiles = T.nfiles /\ (FreeOK(T) => FreeOK(r.tab))
        /\ r.error # "0" => (r.error = "ENOSPC" <=> T.nfiles < Lim)
    BY <2>1, AllocOK, Zenon
  <2>. HIDE DEF r
  <2>3. r.error = "0" => Sound(r.tab, R \cup {r.fd}) /\ r.fd \notin R BY <1>5, <2>2, Zenon
  <2>4. /\ r.error = "0" =>
             /\ r.fd \in Nat /\ r.fd \notin R /\ r.fd < T.nfiles /\ r.tab.nfiles = T.nfiles
             /\ Sound(r.tab, R \cup {r.fd}) /\ (FreeOK(T) => FreeOK(r.tab))
        /\ r.error = "ENOSPC" => T.nfiles < Lim
    BY <2>2, <2>3, Zenon
  <2>. QED BY <2>4, Zenon DEF r
<1>8. CopyOp
  <2>. SUFFICES ASSUME NEW T, NEW R, NEW stay \in SUBSET (0 .. T.lastfile), Sound(T, R)
       PROVE  Sound(fdcopy(T, stay), {}) /\ (FreeOK(T) /\ R = {} => FreeOK(fdcopy(T, stay)))
    BY Zenon DEF CopyOp
  <2>1. T \in Table(F) /\ MapsOK(T) /\ SlotsOK(T, R) BY Zenon DEF Sound
  <2>. HIDE DEF F
  <2>2. LET U == fdcopy(T, stay)
        IN  U \in Table(F) /\ MapsOK(U) /\ SlotsOK(U, {}) /\ (FreeOK(T) /\ R = {} => FreeOK(U))
    BY <2>1, CopyOK, Zenon
  <2>. QED BY <2>2, Zenon DEF Sound, F
<1>. QED BY <1>1, <1>2, <1>3, <1>4, <1>6, <1>7, <1>8, Zenon DEF Operations


\* The first word of the bitmap that holds a descriptor in use belongs to one.
LEMMA WordInUse ==
    ASSUME NEW lo \in SUBSET Fd, NEW w \in Nat, Bits(w) \subseteq lo
    PROVE  w \in {Word(fd) : fd \in Fd}
<1>1. 0 \in 0 .. NDENTRIES - 1 BY FdAssumption
<1>2. w * NDENTRIES + 0 \in Nat /\ Word(w * NDENTRIES + 0) = w BY <1>1, BitFacts, Zenon
<1>3. w * NDENTRIES + 0 \in Bits(w) BY <1>1, Zenon DEF Bits
<1>. QED BY <1>2, <1>3, Zenon

\* A table in good order is exact, and an exact table with an array of a size
\* that the kernel allocates is in good order.
LEMMA SoundExact ==
    ASSUME NEW T, NEW R, Sound(T, R)
    PROVE  Exact(T, R) /\ (FreeOK(T) => FreeExact(T))
<1>1. /\ T \in Table(Files \cup {None}) /\ MapsOK(T) /\ SlotsOK(T, R)
      /\ T.lomap \in SUBSET Nat /\ T.himap \in SUBSET Nat /\ T.lastfile \in Nat /\ T.freefile \in Nat
  BY Zenon DEF Sound, Table
<1>2. T.nfiles \in Nat /\ T.nfiles > 0 /\ T.nfiles <= FdMax BY <1>1, FdAssumption DEF MapsOK
<1>3. T.lomap \in SUBSET Fd BY <1>1, <1>2, FdAssumption DEF MapsOK, Fd
<1>4. T.lomap = {fd \in Fd : T.ofiles[fd] # None} \cup R BY <1>1, <1>3, Zenon DEF SlotsOK
<1>5. T.himap = {w \in {Word(fd) : fd \in Fd} : Bits(w) \subseteq T.lomap}
  <2>1. \A fd \in Fd : Word(fd) \in Nat BY WordFacts, FdAssumption DEF Fd
  <2>2. \A w \in Nat : w \in T.himap <=> Bits(w) \subseteq T.lomap BY <1>1, Zenon DEF MapsOK
  <2>3. \A w \in T.himap : w \in {Word(fd) : fd \in Fd} BY <1>1, <1>3, <2>2, WordInUse, Zenon
  <2>. QED BY <1>1, <2>1, <2>2, <2>3, Zenon
<1>6. T.lastfile = Max({0} \cup T.lomap)
  <2>1. {0} \cup T.lomap \in SUBSET Nat /\ \A y \in {0} \cup T.lomap : y <= FdMax
    BY <1>1, <1>3, FdAssumption DEF Fd
  <2>2. Max({0} \cup T.lomap) \in {0} \cup T.lomap /\ \A y \in {0} \cup T.lomap : Max({0} \cup T.lomap) >= y
    BY <2>1, MaxFacts, FdAssumption, Zenon
  <2>3. T.lastfile \in {0} \cup T.lomap /\ \A y \in {0} \cup T.lomap : y <= T.lastfile
    BY <1>1 DEF MapsOK
  <2>. QED BY <1>1, <2>1, <2>2, <2>3
<1>7. T.openfd = Cardinality(T.lomap) /\ T.lastfile < T.nfiles BY <1>1, <1>2, Zenon DEF MapsOK
<1>8. FreeOK(T) => FreeExact(T) BY <1>1 DEF FreeOK, FreeExact, fd_inuse
<1>. QED BY <1>4, <1>5, <1>6, <1>7, <1>8, Zenon DEF Exact

LEMMA DoubledFacts ==
    ASSUME NEW n \in Nat, Doubled(n), n > 0
    PROVE  NDEXTENT <= n /\ n <= FdMax
<1>1. PICK S \in SUBSET (0 .. FdMax) : n \in S /\ \A m \in S : m = NDEXTENT \/ \E h \in S : m = 2 * h
  BY Zenon DEF Doubled
<1>. DEFINE P == {m \in S : m > 0}
<1>2. \A m \in S : m \in Nat BY FdAssumption
<1>3. PICK m \in S : m > 0 /\ \A y \in S : y > 0 => m <= y
  <2>1. P \in SUBSET Nat BY <1>2, Zenon
  <2>2. P # {} BY <1>1, Zenon
  <2>. HIDE DEF P
  <2>3. \E m \in P : \A y \in P : m <= y BY <2>1, <2>2, LeastNat, Zenon
  <2>. QED BY <2>3, Zenon DEF P
<1>4. m = NDEXTENT BY <1>1, <1>2, <1>3, FdAssumption
<1>. QED BY <1>1, <1>3, <1>4, FdAssumption

LEMMA ExactSound ==
    ASSUME NEW T \in Table(Files \cup {None}), Exact(T, {}), T.nfiles = NDFILE \/ Doubled(T.nfiles)
    PROVE  Sound(T, {}) /\ (FreeExact(T) => FreeOK(T))
<1>1. /\ T.lomap \in SUBSET Nat /\ T.himap \in SUBSET Nat /\ T.lastfile \in Nat /\ T.freefile \in Nat
      /\ T.nfiles \in Nat
  BY Zenon DEF Table
<1>2. T.nfiles \in NDFILE .. FdMax
  <2>1. T.nfiles > 0 BY <1>1 DEF Exact
  <2>. QED BY <1>1, <2>1, DoubledFacts, FdAssumption
<1>3. T.lomap \in SUBSET Fd BY Zenon DEF Exact
<1>4. Max({0} \cup T.lomap) \in {0} \cup T.lomap /\ \A y \in {0} \cup T.lomap : Max({0} \cup T.lomap) >= y
  <2>1. {0} \cup T.lomap \in SUBSET Nat /\ \A y \in {0} \cup T.lomap : y <= FdMax
    BY <1>1, <1>3, FdAssumption DEF Fd
  <2>. QED BY <2>1, MaxFacts, FdAssumption, Zenon
<1>5. T.lastfile = Max({0} \cup T.lomap) /\ T.lastfile < T.nfiles BY Zenon DEF Exact
<1>6. T.lastfile \in T.lomap \cup {0} /\ \A fd \in T.lomap : fd <= T.lastfile /\ fd < T.nfiles
  BY SMTT(40), <1>1, <1>4, <1>5
<1>7. ASSUME NEW w \in Nat PROVE w \in T.himap <=> Bits(w) \subseteq T.lomap
  <2>1. T.himap = {v \in {Word(fd) : fd \in Fd} : Bits(v) \subseteq T.lomap} BY Zenon DEF Exact
  <2>2. Bits(w) \subseteq T.lomap => w \in {Word(fd) : fd \in Fd} BY <1>3, WordInUse, Zenon
  <2>. QED BY <2>1, <2>2, Zenon
<1>8. IsFiniteSet(T.lomap)
  <2>1. IsFiniteSet(Fd) BY FS_Interval, FdAssumption DEF Fd
  <2>. QED BY <1>3, <2>1, FS_Subset, Zenon
<1>9. MapsOK(T) BY <1>2, <1>6, <1>7, <1>8, Zenon DEF MapsOK, Exact
<1>10. SlotsOK(T, {}) BY Zenon DEF SlotsOK, Exact
<1>11. FreeExact(T) => FreeOK(T) BY <1>1 DEF FreeOK, FreeExact, fd_inuse
<1>. QED BY <1>9, <1>10, <1>11, Zenon DEF Sound


----------------------------------------------------------------------------
LEMMA TabInit == Init => TabInv
<1>. SUFFICES ASSUME Init PROVE TabInv BY Zenon
<1>1. /\ scn \in Scenarios /\ tab = scn.tab /\ fdp = scn.fdp /\ lock = [t \in Tables |-> None]
      /\ lost = {} /\ th = [p \in Threads |-> User]
  BY Zenon DEF Init
<1>2. \A p \in Threads : th[p].pc = "user" /\ Shape(th[p]) /\ th[p].new = 0 /\ th[p].again = FALSE
  BY <1>1, Zenon DEF User, Shape
<1>3. /\ tab \in [Tables -> Table(Files \cup {None}) \cup {None}]
      /\ \A t \in Tables : tab[t] # None =>
           (tab[t].nfiles = NDFILE \/ Doubled(tab[t].nfiles)) /\ Exact(tab[t], {}) /\ FreeExact(tab[t])
      /\ fdp \in [Threads -> Tables \cup {None}]
      /\ \A p \in Threads : fdp[p] # None => tab[fdp[p]] # None
  BY <1>1, ScenarioAssumption, Zenon
<1>4. TypeOK BY <1>1, <1>3, Zenon DEF TypeOK
<1>5. \A p \in Threads : CallOK(p) /\ ChangeOK(p)
  <2>. SUFFICES ASSUME NEW p \in Threads PROVE CallOK(p) /\ ChangeOK(p) BY Zenon
  <2>1. th[p].pc \notin {"getfile"} \cup Opening \cup DupCalls \cup Changing \cup Loops
    BY <1>2, Zenon DEF Changing, DupCalls, Loops, Opening
  <2>2. ChangeOK(p) BY <2>1, Zenon DEF ChangeOK
  <2>3. ~th[p].again /\ th[p].again \in BOOLEAN BY <1>2, Zenon
  <2>4. th[p].new \in Nat BY <1>2
  <2>. QED BY <1>2, <2>1, <2>2, <2>3, <2>4, Zenon DEF CallOK
<1>6. \A t \in Tables : Reserving(t) = {} /\ ~Exiting(t)
  BY <1>2, Zenon DEF Reserving, Reserves, Opening, Exiting
<1>7. \A p \in Threads : ~Exiting(fdp[p]) BY <1>2, Zenon DEF Exiting
<1>8. ASSUME NEW t \in Tables PROVE MarksOK(t) /\ TableOK(t)
  <2>1. MarksOK(t) BY <1>6, Zenon DEF MarksOK
  <2>2. Marks(t) = {} BY <1>1, <1>6, Zenon DEF Marks
  <2>3. tab[t] # None => Sound(tab[t], {}) /\ FreeOK(tab[t])
    BY <1>3, ExactSound, Zenon
  <2>4. TableOK(t) BY <1>3, <2>2, <2>3, Zenon DEF TableOK
  <2>. QED BY <2>1, <2>4, Zenon
<1>. QED BY <1>1, <1>3, <1>4, <1>5, <1>7, <1>8, Zenon DEF TabInv, CallsOK, LocksOK, ExitsOK, TabsOK

LEMMA TabStep == TabInv /\ [Next]_vars => TabInv'
<1>. SUFFICES ASSUME TabInv, [Next]_vars PROVE TabInv' BY Zenon
<1>1. CASE UNCHANGED vars
  <2>1. UNCHANGED <<scn, tab, lock, fdp, th, lost, stale>> BY <1>1, Zenon DEF vars
  <2>2. \A t : (Reserving(t)' = Reserving(t)) /\ (Exiting(t)' <=> Exiting(t))
    BY <2>1, Zenon DEF Reserving, Reserves, Arg, Exiting
  <2>3. \A t : (Marks(t)' = Marks(t)) /\ (MarksOK(t)' <=> MarksOK(t)) BY <2>1, <2>2, Zenon DEF Marks, MarksOK
  <2>4. TypeOK' BY <2>1, ZenonT(40) DEF TabInv, TypeOK
  <2>5. \A p \in Threads : CallOK(p)' /\ ChangeOK(p)' BY <2>1 DEF TabInv, CallsOK, CallOK, ChangeOK, Arg, Mine
  <2>6. \A t \in Tables : MarksOK(t)' /\ TableOK(t)' BY <2>1, <2>2, <2>3, Zenon DEF TabInv, TabsOK, TableOK
  <2>7. \A p, q \in Threads : (Exiting(fdp[p]) /\ fdp[p] # None /\ fdp[q] = fdp[p] => q = p)'
    BY <2>1, <2>2, Zenon DEF TabInv, ExitsOK
  <2>. QED BY <2>1, <2>4, <2>5, <2>6, <2>7, Zenon DEF TabInv, CallsOK, LocksOK, ExitsOK, TabsOK
<1>2. ASSUME NEW p \in Threads, Enter(p) PROVE TabInv' BY <1>2, EnterInv, Zenon
<1>3. ASSUME NEW p \in Threads, Step(p) PROVE TabInv'
  BY Zenon, <1>3, OperationsOK, GetfileInv, DupInv, FinishdupInv, InstallInv, CloseInv, FreeInv, FileSteps,
     FlagsInv, FallocInv, OpenSteps, OpenEndInv, ForkInv, IterInv
  DEF Step
<1>. QED BY <1>1, <1>2, <1>3, Zenon DEF Next

\* The tables, the calls of the threads and the locks are in order in every
\* state of kern_descrip.c, whatever the threads, tables, files and limits.
THEOREM TablesKept == Spec => []TabInv
<1>1. TabInv /\ [Next]_vars => TabInv' BY TabStep, Zenon
<1>. QED BY <1>1, TabInit, PTL DEF Spec

\* While an open or a dup has a descriptor marked and its slot empty, no step
\* of a thread with the same table fills, frees or takes the slot.
THEOREM SlotsKept == Spec => []SlotKept
<1>1. TabInv => SlotKept
  <2>. SUFFICES ASSUME TabInv, NEW p \in Threads, fdp[p] # None, p \in Reserving(fdp[p])
       PROVE  /\ Mine(p).ofiles[th[p].new] = None /\ fd_inuse(Mine(p), th[p].new)
              /\ \A q \in Reserving(fdp[p]) : th[q].new = th[p].new => q = p
    BY Zenon DEF SlotKept
  <2>1. Reserves(p) /\ th[p].pc \notin Ending \cup {"user"}
    BY Zenon DEF Reserving, Reserves, Opening, Ending
  <2>2. th[p].new \in Mine(p).lomap /\ Mine(p).ofiles[th[p].new] = None
    BY <2>1, NotExit, ReservedFacts, Zenon
  <2>3. fdp[p] \in Tables BY Zenon DEF TabInv, TypeOK
  <2>. QED BY <2>2, <2>3, Zenon DEF TabInv, TabsOK, MarksOK, fd_inuse
<1>. QED BY <1>1, TablesKept, PTL

\* The bitmaps, the count of open descriptors, the last descriptor, the size of
\* the array and the hint for the lowest free one agree with the slots of every
\* table, except in a process that exits.
THEOREM MapsExact == Spec => []MapExact
<1>1. TabInv => MapExact
  <2>. SUFFICES ASSUME TabInv, NEW t \in Tables, tab[t] # None, ~Exiting(t)
       PROVE  Exact(tab[t], Marks(t)) /\ (t \notin stale => FreeExact(tab[t]))
    BY Zenon DEF MapExact, Marks
  <2>1. Sound(tab[t], Marks(t)) /\ (t \notin stale => FreeOK(tab[t])) BY Zenon DEF TabInv, TabsOK, TableOK
  <2>. QED BY <2>1, SoundExact, Zenon
<1>. QED BY <1>1, TablesKept, PTL


\* What fdalloc would return for table T: the lowest descriptor from want on
\* that is free, and an error only when the array has none below the limit.
Lowest(T, want) ==
    LET r == fdalloc(T, want)
    IN  /\ r.error = "0" =>
             /\ r.fd \in Nat /\ want <= r.fd /\ r.fd < Lim /\ ~fd_inuse(T, r.fd)
             /\ \A fd \in want .. r.fd - 1 : fd_inuse(T, fd)
        /\ r.error # "0" => \A fd \in want .. T.nfiles - 1 : fd < Lim => fd_inuse(T, fd)

LowestFree == \A t \in Tables : tab[t] # None /\ ~Exiting(t) /\ t \notin stale =>
    \A want \in Nat : Lowest(tab[t], want)

\* In every state a call that needs a descriptor gets the lowest free one, as
\* open, dup and fcntl(F_DUPFD) promise, although fdalloc starts at fd_freefile
\* and skips the words that fd_himap says are full.  A table whose hint came
\* from a parent with a descriptor reserved is the exception.
THEOREM LowestGiven == Spec => []LowestFree
<1>1. TabInv => LowestFree
  <2>. SUFFICES ASSUME TabInv, NEW t \in Tables, tab[t] # None, ~Exiting(t), t \notin stale, NEW want \in Nat
       PROVE  Lowest(tab[t], want)
    BY Zenon DEF LowestFree
  <2>. DEFINE T == tab[t]
              F == Files \cup {None}
              r == fdalloc(T, want)
  <2>1. T \in Table(F) /\ MapsOK(T) /\ FreeOK(T) /\ T.freefile \in Nat /\ T.nfiles \in Nat
    BY Zenon DEF TabInv, TabsOK, TableOK, Sound, Table
  <2>. HIDE DEF T, F
  <2>2. /\ r.error = "0" =>
             /\ r.fd \in Nat /\ want <= r.fd /\ r.fd < Lim /\ r.fd \notin T.lomap
             /\ \A y \in Nat : want <= y /\ T.freefile <= y /\ y < r.fd => y \in T.lomap
        /\ r.error # "0" =>
             \A y \in Nat : want <= y /\ T.freefile <= y /\ y < T.nfiles /\ y < Lim => y \in T.lomap
    BY <2>1, AllocOK, Zenon
  <2>3. \A y \in Nat : y < T.freefile => y \in T.lomap BY <2>1, Zenon DEF FreeOK
  <2>. HIDE DEF r
  <2>4. ASSUME r.error = "0" PROVE \A fd \in want .. r.fd - 1 : fd \in T.lomap
    BY <2>1, <2>2, <2>3, <2>4
  <2>5. ASSUME r.error # "0" PROVE \A fd \in want .. T.nfiles - 1 : fd < Lim => fd \in T.lomap
    BY <2>1, <2>2, <2>3, <2>5
  <2>6. Lowest(T, want) BY <2>2, <2>4, <2>5, Zenon DEF Lowest, fd_inuse, r
  <2>. QED BY <2>6, Zenon DEF T
<1>. QED BY <1>1, TablesKept, PTL
============================================================================
