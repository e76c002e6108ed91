-------------------------- MODULE FileDescProofs ---------------------------
(***************************************************************************)
(* What the operations on a descriptor table keep, for every size of the   *)
(* table and of the words of its bitmaps: the bitmaps, the count and the   *)
(* hints stay true, and the search of fdalloc finds the first descriptor   *)
(* that is free.                                                           *)
(***************************************************************************)
EXTENDS FileDesc, FiniteSetTheorems, WellFoundedInduction, TLAPS

\* A set of natural numbers that is not empty has a least element.
LEMMA LeastNat ==
    ASSUME NEW T \in SUBSET Nat, T # {}
    PROVE  \E x \in T : \A y \in T : x <= y
<1> DEFINE R == OpToRel(<, Nat)
<1>1. PICK x \in T : \A y \in T : ~ (<<y, x>> \in R)
  <2>1. IsWellFoundedOn(R, Nat) BY NatLessThanWellFounded, Zenon
  <2> HIDE DEF R
  <2>. QED BY <2>1, WFMin, Zenon
<1>2. \A y \in Nat : y < x => <<y, x>> \in R
  BY Zenon DEF R, OpToRel
<1> HIDE DEF R
<1>3. ASSUME NEW y \in T PROVE x <= y
  <2>1. y \in Nat /\ x \in Nat BY Zenon
  <2>2. ~ (y < x) BY <1>1, <1>2, <2>1, Zenon
  <2>. QED BY <2>1, <2>2
<1>. QED BY <1>3, Zenon

\* A set that has 0 and with every natural number the next has them all.
LEMMA NatSetInduction ==
    ASSUME NEW S, 0 \in S, \A n \in Nat : n \in S => n + 1 \in S
    PROVE  Nat \subseteq S
<1> DEFINE T == Nat \ S
<1> SUFFICES ASSUME T # {} PROVE FALSE BY Zenon
<1>1. PICK x \in T : \A y \in T : x <= y BY LeastNat, Zenon
<1>. QED BY <1>1

\* Min and Max give the least and, of a set with a bound, the greatest element.
LEMMA MinFacts ==
    ASSUME NEW T \in SUBSET Nat, T # {}
    PROVE  Min(T) \in T /\ \A y \in T : Min(T) <= y
<1>1. \E x \in T : \A y \in T : x <= y BY LeastNat, Zenon
<1>. QED BY <1>1, Zenon DEF Min

LEMMA MaxFacts ==
    ASSUME NEW T \in SUBSET Nat, T # {}, NEW k \in Nat, \A y \in T : y <= k
    PROVE  Max(T) \in T /\ \A y \in T : Max(T) >= y
<1> DEFINE U == {u \in Nat : \A y \in T : y <= u}
<1>1. PICK u \in U : \A v \in U : u <= v
  <2>1. k \in U /\ U \in SUBSET Nat BY Zenon
  <2> HIDE DEF U
  <2>. QED BY <2>1, LeastNat, Zenon
<1>2. u \in T
  <2> SUFFICES ASSUME u \notin T PROVE FALSE BY Zenon
  <2>1. u # 0
    <3>1. PICK y \in T : TRUE BY Zenon
    <3>. QED BY <3>1
  <2>2. u - 1 \in U BY <1>1, <2>1
  <2>. QED BY <1>1, <2>2
<1>3. \E x \in T : \A y \in T : x >= y BY <1>1, <1>2, Zenon
<1>. QED BY <1>3, Zenon DEF Max

----------------------------------------------------------------------------
\* A descriptor is a bit of its word and of no other.
LEMMA WordFacts ==
    ASSUME NEW fd \in Nat
    PROVE  /\ Word(fd) \in Nat /\ fd % NDENTRIES \in 0 .. NDENTRIES - 1
           /\ fd = Word(fd) * NDENTRIES + (fd % NDENTRIES)
BY FdAssumption DEF Word

LEMMA BitFacts ==
    ASSUME NEW w \in Nat, NEW b \in 0 .. NDENTRIES - 1
    PROVE  /\ w * NDENTRIES + b \in Nat
           /\ Word(w * NDENTRIES + b) = w /\ (w * NDENTRIES + b) % NDENTRIES = b
BY FdAssumption DEF Word

LEMMA BitsFacts ==
    ASSUME NEW w \in Nat
    PROVE  \A x : x \in Bits(w) <=> x \in Nat /\ Word(x) = w
<1>1. ASSUME NEW x \in Bits(w) PROVE x \in Nat /\ Word(x) = w
  <2>1. PICK b \in 0 .. NDENTRIES - 1 : x = w * NDENTRIES + b BY Zenon DEF Bits
  <2>. QED BY <2>1, BitFacts, Zenon
<1>2. ASSUME NEW x \in Nat, Word(x) = w PROVE x \in Bits(w)
  <2>1. x % NDENTRIES \in 0 .. NDENTRIES - 1 /\ x = w * NDENTRIES + (x % NDENTRIES)
    BY <1>2, WordFacts, Zenon
  <2>. QED BY <2>1, Zenon DEF Bits
<1>. QED BY <1>1, <1>2, Zenon

\* Words are in the order of their descriptors.
LEMMA WordOrder ==
    ASSUME NEW x \in Nat, NEW y \in Nat
    PROVE  /\ x <= y => Word(x) <= Word(y)
           /\ Word(x) < Word(y) => x < y
           /\ Word(x) = Word(y) => (x <= y <=> x % NDENTRIES <= y % NDENTRIES)
           /\ \A w \in Nat : w <= Word(x) <=> w * NDENTRIES <= x
<1>1. /\ Word(x) \in Nat /\ x % NDENTRIES \in 0 .. NDENTRIES - 1
      /\ x = Word(x) * NDENTRIES + (x % NDENTRIES)
  BY WordFacts, Zenon
<1>2. /\ Word(y) \in Nat /\ y % NDENTRIES \in 0 .. NDENTRIES - 1
      /\ y = Word(y) * NDENTRIES + (y % NDENTRIES)
  BY WordFacts, Zenon
<1>3. \A a, b \in Nat : a < b => a * NDENTRIES + NDENTRIES <= b * NDENTRIES
  BY FdAssumption
<1>4. Word(x) < Word(y) => x < y BY <1>1, <1>2, <1>3, FdAssumption
<1>5. Word(y) < Word(x) => y < x BY <1>1, <1>2, <1>3, FdAssumption
<1>6. \A w \in Nat : w <= Word(x) <=> w * NDENTRIES <= x
  <2>1. ASSUME NEW w \in Nat, w <= Word(x) PROVE w * NDENTRIES <= x
    <3>1. w = Word(x) \/ w < Word(x) BY <1>1, <2>1
    <3>. QED BY <1>1, <1>3, <3>1, FdAssumption
  <2>2. ASSUME NEW w \in Nat, ~(w <= Word(x)) PROVE ~(w * NDENTRIES <= x)
    <3>1. Word(x) < w BY <1>1, <2>2
    <3>2. Word(x) * NDENTRIES + NDENTRIES <= w * NDENTRIES BY <1>1, <1>3, <3>1, Zenon
    <3>. QED BY <1>1, <3>2, FdAssumption
  <2>. QED BY <2>1, <2>2, Zenon
<1>7. Word(x) = Word(y) => (x <= y <=> x % NDENTRIES <= y % NDENTRIES)
  <2>. DEFINE a == x % NDENTRIES
              b == y % NDENTRIES
              c == Word(x) * NDENTRIES
  <2>1. a \in Nat /\ b \in Nat /\ c \in Nat /\ x = c + a BY <1>1, FdAssumption
  <2>2. Word(x) = Word(y) => y = c + b BY <1>2, Zenon
  <2>. HIDE DEF a, b, c
  <2>3. Word(x) = Word(y) => (x <= y <=> a <= b) BY <2>1, <2>2
  <2>. QED BY <2>3, Zenon DEF a, b
<1>8. x <= y => Word(x) <= Word(y) BY <1>1, <1>2, <1>5
<1>. QED BY <1>4, <1>6, <1>7, <1>8, Zenon
----------------------------------------------------------------------------
\* fd_used marks a descriptor that was free.
LEMMA UsedOK ==
    ASSUME NEW F, NEW T \in Table(F), MapsOK(T), NEW fd \in Nat, fd < T.nfiles, fd \notin T.lomap
    PROVE  LET U == fd_used(T, fd)
           IN  /\ U \in Table(F) /\ MapsOK(U)
               /\ U.lomap = T.lomap \cup {fd}
               /\ U.ofiles = T.ofiles /\ U.nfiles = T.nfiles /\ U.freefile = T.freefile
               /\ U.exclose = T.exclose /\ U.advlock = T.advlock
<1>. DEFINE U == fd_used(T, fd)
            lo == T.lomap \cup {fd}
            hi == IF Bits(Word(fd)) \subseteq lo THEN T.himap \cup {Word(fd)} ELSE T.himap
            last == Max({T.lastfile, fd})
<1>1. /\ T.lomap \in SUBSET Nat /\ T.himap \in SUBSET Nat /\ T.lastfile \in Nat /\ T.openfd \in Int
      /\ T.nfiles \in Nat
  BY Zenon DEF Table
<1>2. Word(fd) \in Nat BY WordFacts, Zenon
<1>3. last \in {T.lastfile, fd} /\ T.lastfile <= last /\ fd <= last /\ last \in Nat
  BY <1>1 DEF Max
<1>4. U = [T EXCEPT !.lomap = lo, !.openfd = T.openfd + 1, !.himap = hi, !.lastfile = last]
  BY Zenon DEF fd_used
<1>5. lo \in SUBSET Nat /\ hi \in SUBSET Nat BY <1>1, <1>2, Zenon
<1>. HIDE DEF U, lo, hi, last
<1>6. /\ U \in Table(F) /\ U.lomap = lo /\ U.openfd = T.openfd + 1 /\ U.himap = hi
      /\ U.lastfile = last /\ U.ofiles = T.ofiles /\ U.nfiles = T.nfiles
      /\ U.freefile = T.freefile /\ U.exclose = T.exclose /\ U.advlock = T.advlock
  <2>1. /\ U.lomap = lo /\ U.openfd = T.openfd + 1 /\ U.himap = hi /\ U.lastfile = last
        /\ U.ofiles = T.ofiles /\ U.nfiles = T.nfiles /\ U.freefile = T.freefile
        /\ U.exclose = T.exclose /\ U.advlock = T.advlock
    BY <1>4, Zenon DEF Table
  <2>2. T.openfd + 1 \in Int BY <1>1
  <2>3. U \in Table(F) BY <1>3, <1>4, <1>5, <2>2, Zenon DEF Table
  <2>. QED BY <2>1, <2>3, Zenon
<1>7. MapsOK(U)
  <2>1. \A x \in lo : x < T.nfiles /\ x <= last BY <1>1, <1>3 DEF lo, MapsOK
  <2>2. last \in lo \cup {0} BY <1>3, Zenon DEF lo, MapsOK
  <2>3. IsFiniteSet(lo) /\ T.openfd + 1 = Cardinality(lo)
    <3>1. IsFiniteSet(T.lomap) /\ T.openfd = Cardinality(T.lomap) BY Zenon DEF MapsOK
    <3>. QED BY <3>1, FS_AddElement, Zenon DEF lo
  <2>4. ASSUME NEW w \in Nat PROVE w \in hi <=> Bits(w) \subseteq lo
    <3>1. CASE w = Word(fd)
      <4>1. fd \in Bits(w) BY <3>1, BitsFacts, Zenon
      <4>2. w \notin T.himap BY <4>1, Zenon DEF MapsOK
      <4>. QED BY <3>1, <4>2, Zenon DEF hi
    <3>2. CASE w # Word(fd)
      <4>1. fd \notin Bits(w) BY <3>2, BitsFacts, Zenon
      <4>2. w \in hi <=> w \in T.himap BY <3>2, Zenon DEF hi
      <4>3. Bits(w) \subseteq lo <=> Bits(w) \subseteq T.lomap BY <4>1, Zenon DEF lo
      <4>. QED BY <4>2, <4>3, Zenon DEF MapsOK
    <3>. QED BY <3>1, <3>2, Zenon
  <2>. QED BY <1>6, <2>1, <2>2, <2>3, <2>4, Zenon DEF MapsOK
<1>. QED BY <1>6, <1>7, Zenon DEF lo, U

\* fd_unused gives a descriptor back, and the hints follow.
LEMMA UnusedOK ==
    ASSUME NEW F, NEW T \in Table(F), MapsOK(T), NEW fd \in T.lomap
    PROVE  LET U == fd_unused(T, fd)
           IN  /\ U \in Table(F) /\ MapsOK(U)
               /\ U.lomap = T.lomap \ {fd}
               /\ U.ofiles = T.ofiles /\ U.nfiles = T.nfiles
               /\ U.exclose = T.exclose /\ U.advlock = T.advlock
               /\ FreeOK(T) => FreeOK(U)
<1>. DEFINE U == fd_unused(T, fd)
            lo == T.lomap \ {fd}
            hi == IF Bits(Word(fd)) \subseteq T.lomap THEN T.himap \ {Word(fd)} ELSE T.himap
            below == {0} \cup {x \in lo : x < fd}
            last == IF fd = T.lastfile THEN find_last_set(lo, fd) ELSE T.lastfile
            free == Min({T.freefile, fd})
<1>1. /\ T.lomap \in SUBSET Nat /\ T.himap \in SUBSET Nat /\ T.lastfile \in Nat /\ T.openfd \in Int
      /\ T.nfiles \in Nat /\ T.freefile \in Nat /\ fd \in Nat
  BY Zenon DEF Table
<1>2. Word(fd) \in Nat BY <1>1, WordFacts, Zenon
<1>3. free \in Nat /\ free <= T.freefile /\ free <= fd BY <1>1 DEF Min
<1>4. Max(below) \in below /\ \A y \in below : Max(below) >= y
  <2>1. below \in SUBSET Nat /\ below # {} /\ \A y \in below : y <= fd BY <1>1
  <2>. HIDE DEF below
  <2>. QED BY <1>1, <2>1, MaxFacts, Zenon
<1>5. last = IF fd = T.lastfile THEN Max(below) ELSE T.lastfile BY Zenon DEF find_last_set
<1>6. U = [T EXCEPT !.lomap = lo, !.openfd = T.openfd - 1, !.himap = hi, !.lastfile = last,
                    !.freefile = free]
  BY Zenon DEF fd_unused
<1>7. below \in SUBSET Nat /\ \A x : x \in below <=> x = 0 \/ (x \in lo /\ x < fd) BY <1>1
<1>. HIDE DEF U, hi, last, free, below
<1>8. last \in Nat BY <1>1, <1>4, <1>5, <1>7, Zenon
<1>9. lo \in SUBSET Nat /\ hi \in SUBSET Nat BY <1>1, Zenon DEF hi
<1>. HIDE DEF lo
<1>10. /\ U \in Table(F) /\ U.lomap = lo /\ U.openfd = T.openfd - 1 /\ U.himap = hi
       /\ U.lastfile = last /\ U.ofiles = T.ofiles /\ U.nfiles = T.nfiles
       /\ U.freefile = free /\ U.exclose = T.exclose /\ U.advlock = T.advlock
  <2>1. /\ U.lomap = lo /\ U.openfd = T.openfd - 1 /\ U.himap = hi /\ U.lastfile = last
        /\ U.ofiles = T.ofiles /\ U.nfiles = T.nfiles /\ U.freefile = free
        /\ U.exclose = T.exclose /\ U.advlock = T.advlock
    BY <1>6, Zenon DEF Table
  <2>2. T.openfd - 1 \in Int BY <1>1
  <2>3. U \in Table(F) BY <1>3, <1>6, <1>8, <1>9, <2>2, Zenon DEF Table
  <2>. QED BY <2>1, <2>3, Zenon
<1>11. MapsOK(U)
  <2>1. \A x \in lo : x < T.nfiles /\ x <= last
    <3>1. ASSUME NEW x \in lo PROVE x \in Nat /\ x < T.nfiles /\ x <= T.lastfile /\ x # fd
      BY <1>1, Zenon DEF lo, MapsOK
    <3>2. CASE fd = T.lastfile
      <4>1. ASSUME NEW x \in lo PROVE x < T.nfiles /\ x <= last
        <5>1. x \in Nat /\ x < fd BY <1>1, <3>1, <3>2
        <5>2. x \in below BY <1>7, <5>1, Zenon
        <5>3. Max(below) \in Nat BY <1>4, <1>7, Zenon
        <5>. QED BY <1>4, <1>5, <3>1, <3>2, <5>1, <5>2, <5>3, Zenon
      <4>. QED BY <4>1, Zenon
    <3>3. CASE fd # T.lastfile BY <1>5, <3>1, <3>3, Zenon
    <3>. QED BY <3>2, <3>3, Zenon
  <2>2. last \in lo \cup {0}
    <3>1. CASE fd = T.lastfile BY <1>4, <1>5, <1>7, <3>1, Zenon
    <3>2. CASE fd # T.lastfile BY <1>5, <3>2, Zenon DEF lo, MapsOK
    <3>. QED BY <3>1, <3>2, Zenon
  <2>3. IsFiniteSet(lo) /\ T.openfd - 1 = Cardinality(lo)
    <3>1. IsFiniteSet(T.lomap) /\ T.openfd = Cardinality(T.lomap) BY Zenon DEF MapsOK
    <3>. QED BY <3>1, FS_RemoveElement, Zenon DEF lo
  <2>4. ASSUME NEW w \in Nat PROVE w \in hi <=> Bits(w) \subseteq lo
    <3>1. CASE w = Word(fd)
      <4>1. fd \in Bits(w) BY <1>1, <3>1, BitsFacts, Zenon
      <4>2. w \notin hi BY <3>1, Zenon DEF hi, MapsOK
      <4>. QED BY <4>1, <4>2, Zenon DEF lo
    <3>2. CASE w # Word(fd)
      <4>1. fd \notin Bits(w) BY <3>2, BitsFacts, Zenon
      <4>2. w \in hi <=> w \in T.himap BY <3>2, Zenon DEF hi
      <4>3. Bits(w) \subseteq lo <=> Bits(w) \subseteq T.lomap BY <4>1, Zenon DEF lo
      <4>. QED BY <4>2, <4>3, Zenon DEF MapsOK
    <3>. QED BY <3>1, <3>2, Zenon
  <2>. QED BY <1>10, <2>1, <2>2, <2>3, <2>4, Zenon DEF MapsOK
<1>12. FreeOK(T) => FreeOK(U) BY <1>1, <1>3, <1>10 DEF FreeOK, lo
<1>. QED BY <1>10, <1>11, <1>12, Zenon DEF lo, U


\* fdexpand makes room and changes nothing that is in use.
LEMMA ExpandOK ==
    ASSUME NEW F, NEW T \in Table(F), MapsOK(T), T.nfiles < Lim
    PROVE  LET U == fdexpand(T)
           IN  /\ U \in Table(F) /\ MapsOK(U)
               /\ U.ofiles = T.ofiles /\ U.lomap = T.lomap /\ U.freefile = T.freefile
               /\ U.exclose = T.exclose /\ U.advlock = T.advlock
               /\ T.nfiles < U.nfiles \/ U.nfiles = NDEXTENT
               /\ T.nfiles <= U.nfiles
<1>. DEFINE U == fdexpand(T)
            n == IF T.nfiles < NDEXTENT THEN NDEXTENT ELSE 2 * T.nfiles
<1>1. T.nfiles \in Nat /\ T.nfiles \in NDFILE .. FdMax BY Zenon DEF Table, MapsOK
<1>2. n \in NDFILE .. FdMax /\ n \in Nat /\ T.nfiles <= n /\ (T.nfiles < n \/ n = NDEXTENT)
  BY <1>1, FdAssumption
<1>7. Doubled(n)
  <2>1. CASE T.nfiles < NDEXTENT
    <3>. DEFINE S == {NDEXTENT}
    <3>1. S \in SUBSET (0 .. FdMax) /\ n \in S BY <2>1, FdAssumption
    <3>. QED BY <3>1, Zenon DEF Doubled
  <2>2. CASE ~(T.nfiles < NDEXTENT)
    <3>1. T.nfiles = NDEXTENT \/ Doubled(T.nfiles) BY <1>1, <2>2, FdAssumption DEF MapsOK
    <3>2. PICK S \in SUBSET (0 .. FdMax) :
             T.nfiles \in S /\ \A m \in S : m = NDEXTENT \/ \E h \in S : m = 2 * h
      <4>1. CASE T.nfiles = NDEXTENT
        <5>1. {NDEXTENT} \in SUBSET (0 .. FdMax) BY FdAssumption
        <5>. QED BY <4>1, <5>1, Zenon
      <4>2. CASE Doubled(T.nfiles) BY <4>2, Zenon DEF Doubled
      <4>. QED BY <3>1, <4>1, <4>2, Zenon
    <3>. DEFINE D == S \cup {n}
    <3>6. n \in 0 .. FdMax
      <4>. HIDE DEF n
      <4>. QED BY <1>2, FdAssumption
    <3>3. D \in SUBSET (0 .. FdMax)
      <4>. HIDE DEF n
      <4>. QED BY <3>6, Zenon
    <3>4. n = 2 * T.nfiles BY <2>2, Zenon
    <3>5. \A m \in D : m = NDEXTENT \/ \E h \in D : m = 2 * h BY <3>2, <3>4, Zenon
    <3>. HIDE DEF n
    <3>. QED BY <3>3, <3>5, Zenon DEF Doubled
  <2>. QED BY <2>1, <2>2, Zenon
<1>3. U = [T EXCEPT !.nfiles = n] BY Zenon DEF fdexpand
<1>. HIDE DEF n, U
<1>4. /\ U.ofiles = T.ofiles /\ U.lomap = T.lomap /\ U.freefile = T.freefile
      /\ U.exclose = T.exclose /\ U.advlock = T.advlock /\ U.nfiles = n
      /\ U.himap = T.himap /\ U.openfd = T.openfd /\ U.lastfile = T.lastfile
  BY <1>3, Zenon DEF Table
<1>5. U \in Table(F) BY <1>2, <1>3, Zenon DEF Table
<1>6. MapsOK(U)
  <2>1. \A x \in T.lomap : x \in Nat /\ x < n BY <1>1, <1>2 DEF MapsOK, Table
  <2>. QED BY <1>2, <1>4, <1>7, <2>1, Zenon DEF MapsOK
<1>. QED BY <1>2, <1>4, <1>5, <1>6, Zenon DEF U

\* A slot in use gets a file: a reserved descriptor is filled, another file
\* takes the place of the one that was there.
LEMMA FillOK ==
    ASSUME NEW F, NEW T \in Table(F), NEW R, MapsOK(T), SlotsOK(T, R), NEW fd \in T.lomap,
           NEW f \in F, f # None, NEW ex \in SUBSET Nat
    PROVE  LET U == Filled(T, fd, f, ex)
           IN  /\ U \in Table(F) /\ MapsOK(U) /\ SlotsOK(U, R \ {fd})
               /\ FreeOK(T) => FreeOK(U)
<1>1. T.ofiles \in [Fd -> F] BY Zenon DEF Table
<1>2. fd \in Fd BY FdAssumption DEF MapsOK, Table, Fd
<1>. DEFINE o == [T.ofiles EXCEPT ![fd] = f]
            U == Filled(T, fd, f, ex)
<1>3. o \in [Fd -> F] /\ o[fd] = f /\ \A x \in Fd : x # fd => o[x] = T.ofiles[x]
  BY <1>1, <1>2, Zenon
<1>9. U = [T EXCEPT !.ofiles = o, !.exclose = ex] BY Zenon DEF Filled
<1>. HIDE DEF o, U
<1>4. /\ U.ofiles = o /\ U.lomap = T.lomap /\ U.freefile = T.freefile
      /\ U.nfiles = T.nfiles /\ U.himap = T.himap /\ U.openfd = T.openfd /\ U.lastfile = T.lastfile
  BY <1>9, Zenon DEF Table
<1>5. U \in Table(F) BY <1>3, <1>9, Zenon DEF Table
<1>6. MapsOK(U) BY <1>4, Zenon DEF MapsOK
<1>7. SlotsOK(U, R \ {fd}) BY <1>2, <1>3, <1>4, Zenon DEF SlotsOK
<1>8. FreeOK(T) => FreeOK(U) BY <1>4, Zenon DEF FreeOK
<1>. QED BY <1>5, <1>6, <1>7, <1>8, Zenon DEF U

\* A mark is given back that no file came for.
LEMMA UnmarkOK ==
    ASSUME NEW F, NEW T \in Table(F), NEW R, MapsOK(T), SlotsOK(T, R), NEW fd \in R
    PROVE  LET U == fd_unused(T, fd)
           IN  /\ U \in Table(F) /\ MapsOK(U) /\ SlotsOK(U, R \ {fd})
               /\ U.ofiles = T.ofiles /\ U.nfiles = T.nfiles /\ (FreeOK(T) => FreeOK(U))
<1>. DEFINE U == fd_unused(T, fd)
<1>1. fd \in Fd /\ fd \in T.lomap BY Zenon DEF SlotsOK
<1>2. /\ U \in Table(F) /\ MapsOK(U) /\ U.lomap = T.lomap \ {fd} /\ U.ofiles = T.ofiles
      /\ U.nfiles = T.nfiles /\ (FreeOK(T) => FreeOK(U))
  BY <1>1, UnusedOK
<1>. HIDE DEF U
<1>3. SlotsOK(U, R \ {fd}) BY <1>1, <1>2, Zenon DEF SlotsOK
<1>. QED BY <1>2, <1>3, Zenon DEF U

\* fdremove empties a slot in use, whether it has a file or is reserved.
LEMMA RemoveOK ==
    ASSUME NEW F, None \in F, NEW T \in Table(F), NEW R, MapsOK(T), SlotsOK(T, R), NEW fd \in T.lomap
    PROVE  LET U == fdremove(T, fd)
           IN  /\ U \in Table(F) /\ MapsOK(U) /\ SlotsOK(U, R \ {fd})
               /\ U.lomap = T.lomap \ {fd} /\ U.nfiles = T.nfiles /\ (FreeOK(T) => FreeOK(U))
               /\ \A x \in Fd : U.ofiles[x] = IF x = fd THEN None ELSE T.ofiles[x]
<1>. DEFINE o == [T.ofiles EXCEPT ![fd] = None]
            ex == T.exclose \ {fd}
            V == [T EXCEPT !.ofiles = o, !.exclose = ex]
            U == fdremove(T, fd)
<1>1. fd \in Fd BY FdAssumption DEF MapsOK, Table, Fd
<1>2. o \in [Fd -> F] /\ ex \in SUBSET Nat /\ \A x \in Fd : o[x] = IF x = fd THEN None ELSE T.ofiles[x]
  BY <1>1, Zenon DEF Table
<1>3. V = [T EXCEPT !.ofiles[fd] = None, !.exclose = @ \ {fd}] BY Zenon DEF Table
<1>4. U = fd_unused(V, fd) BY <1>3, Zenon DEF fdremove
<1>. HIDE DEF o, ex, U
<1>5. /\ V.ofiles = o /\ V.lomap = T.lomap /\ V.freefile = T.freefile
      /\ V.nfiles = T.nfiles /\ V.himap = T.himap /\ V.openfd = T.openfd /\ V.lastfile = T.lastfile
  BY Zenon DEF Table
<1>6. V \in Table(F) BY <1>2, Zenon DEF Table
<1>. HIDE DEF V
<1>7. MapsOK(V) /\ fd \in V.lomap BY <1>5, Zenon DEF MapsOK
<1>8. /\ U \in Table(F) /\ MapsOK(U) /\ U.lomap = V.lomap \ {fd} /\ U.ofiles = V.ofiles
      /\ U.nfiles = V.nfiles /\ (FreeOK(V) => FreeOK(U))
  BY <1>4, <1>6, <1>7, UnusedOK
<1>9. FreeOK(T) => FreeOK(V) BY <1>5, Zenon DEF FreeOK
<1>10. SlotsOK(U, R \ {fd})
  BY <1>1, <1>2, <1>5, <1>8, Zenon DEF SlotsOK
<1>. QED BY <1>2, <1>5, <1>8, <1>9, <1>10, Zenon DEF U


----------------------------------------------------------------------------
\* find_next_zero finds the first zero from want on, and passes none.
LEMMA NextZero ==
    ASSUME NEW bitmap, NEW want \in Nat, NEW bits \in Nat
    PROVE  LET z == find_next_zero(bitmap, want, bits)
           IN  \/ /\ z = -1
                  /\ want > bits \/ \A y \in Nat : want <= y /\ y < bits => y \in bitmap
               \/ /\ z \in Nat /\ want <= z /\ z \notin bitmap
                  /\ \A y \in Nat : want <= y /\ y < z => y \in bitmap
                  /\ z < ((bits + NDENTRIES - 1) \div NDENTRIES) * NDENTRIES
<1>. DEFINE words == (bits + NDENTRIES - 1) \div NDENTRIES
            top == words * NDENTRIES
            zero == (want .. top - 1) \ bitmap
            z == find_next_zero(bitmap, want, bits)
<1>1. words \in Nat /\ top \in Nat /\ bits <= top
  <2>. DEFINE b == bits + NDENTRIES - 1
  <2>1. b \in Nat BY FdAssumption
  <2>2. /\ Word(b) \in Nat /\ b % NDENTRIES \in 0 .. NDENTRIES - 1
        /\ b = Word(b) * NDENTRIES + (b % NDENTRIES)
    BY <2>1, WordFacts, Zenon
  <2>3. words = Word(b) BY Zenon DEF Word
  <2>. HIDE DEF words
  <2>4. top \in Nat BY <2>2, <2>3, FdAssumption
  <2>. HIDE DEF top
  <2>5. b = top + (b % NDENTRIES) BY <2>2, <2>3, Zenon DEF top
  <2>6. \A r \in 0 .. NDENTRIES - 1 : bits + NDENTRIES - 1 = top + r => bits <= top BY <2>4, FdAssumption
  <2>. QED BY <2>2, <2>3, <2>4, <2>5, <2>6, Zenon
<1>2. z = IF want > bits \/ zero = {} THEN -1 ELSE Min(zero) BY Zenon DEF find_next_zero
<1>. HIDE DEF words, z
<1>3. \A y : y \in zero <=> y \in Nat /\ want <= y /\ y < top /\ y \notin bitmap BY <1>1
<1>4. zero \in SUBSET Nat BY <1>3, Zenon
<1>. HIDE DEF top, zero
<1>5. CASE want > bits BY <1>2, <1>5, Zenon DEF z
<1>6. CASE want <= bits /\ zero = {}
  <2>1. z = -1 BY <1>2, <1>6, Zenon
  <2>2. \A y \in Nat : want <= y /\ y < bits => y \in bitmap BY <1>1, <1>3, <1>6
  <2>. QED BY <2>1, <2>2, Zenon DEF z
<1>7. CASE want <= bits /\ zero # {}
  <2>1. z = Min(zero) BY <1>2, <1>7
  <2>2. z \in zero /\ \A y \in zero : z <= y BY <1>4, <1>7, <2>1, MinFacts, Zenon
  <2>3. z \in Nat /\ want <= z /\ z < top /\ z \notin bitmap BY <1>3, <2>2, Zenon
  <2>4. ASSUME NEW y \in Nat, want <= y, y < z PROVE y \in bitmap
    <3>1. y \notin zero BY <2>2, <2>3, <2>4
    <3>2. y < top BY <1>1, <2>3, <2>4
    <3>. QED BY <1>3, <2>4, <3>1, <3>2, Zenon
  <2>. QED BY <2>3, <2>4, Zenon DEF z, top, words
<1>. QED BY <1>5, <1>6, <1>7

\* One pass of fdalloc, from i on: the descriptor it hits is the first that is
\* free; it misses only when the rest of its first word is in use, and finds no
\* word only when nothing below the limit is free.
LEMMA PassFacts ==
    ASSUME NEW F, NEW T \in Table(F), MapsOK(T), NEW want \in Nat
    PROVE  LET i == Max({want, T.freefile})
               last == Min({T.nfiles, Lim})
               P == Pass(T, want)
           IN  /\ i \in Nat /\ want <= i /\ T.freefile <= i /\ i \in {want, T.freefile}
               /\ last \in Nat /\ last <= T.nfiles /\ last <= Lim
               /\ P.word = -1 => \A y \in Nat : i <= y /\ y < last => y \in T.lomap
               /\ P.word # -1 => P.word \in Nat /\ Word(i) <= P.word
               /\ P.word # -1 /\ P.fd # -1 =>
                     /\ P.fd \in Nat /\ i <= P.fd /\ P.fd \notin T.lomap
                     /\ \A y \in Nat : i <= y /\ y < P.fd => y \in T.lomap
               /\ P.word # -1 /\ P.fd = -1 =>
                     /\ P.word = Word(i) /\ i % NDENTRIES # 0
                     /\ \A y \in Nat : i <= y /\ Word(y) = P.word => y \in T.lomap
<1>. DEFINE i == Max({want, T.freefile})
            last == Min({T.nfiles, Lim})
            bits == (last + NDENTRIES - 1) \div NDENTRIES
            w == find_next_zero(T.himap, Word(i), bits)
            low == IF w > Word(i) THEN 0 ELSE i % NDENTRIES
            used == {fd % NDENTRIES : fd \in T.lomap \cap Bits(w)}
            bit == find_next_zero(used, low, NDENTRIES)
            P == Pass(T, want)
<1>1. T.nfiles \in Nat /\ T.freefile \in Nat /\ T.lomap \in SUBSET Nat /\ T.himap \in SUBSET Nat
  BY Zenon DEF Table
<1>2. i \in Nat /\ want <= i /\ T.freefile <= i /\ i \in {want, T.freefile} BY <1>1 DEF Max
<1>3. last \in Nat /\ last <= T.nfiles /\ last <= Lim
  <2>. DEFINE S == {T.nfiles, Lim}
  <2>1. S \in SUBSET Nat /\ S # {} BY <1>1, FdAssumption, Zenon
  <2>. HIDE DEF S
  <2>2. Min(S) \in S /\ \A y \in S : Min(S) <= y BY <2>1, MinFacts, Zenon
  <2>. QED BY <2>1, <2>2, Zenon DEF S
<1>4. P.word = w /\ P.fd = IF bit = -1 THEN -1 ELSE w * NDENTRIES + bit BY Zenon DEF Pass
<1>. HIDE DEF i, last, P
<1>5. Word(i) \in Nat /\ i % NDENTRIES \in 0 .. NDENTRIES - 1 BY <1>2, WordFacts, Zenon
<1>6. bits \in Nat /\ \A y \in Nat : y < last => Word(y) < bits
  <2>. DEFINE b == last + NDENTRIES - 1
  <2>1. b \in Nat /\ bits = Word(b) BY <1>3, FdAssumption DEF Word
  <2>2. Word(b) \in Nat BY <2>1, WordFacts, Zenon
  <2>3. ASSUME NEW y \in Nat, y < last PROVE Word(y) < bits
    <3>1. y + NDENTRIES \in Nat /\ y + NDENTRIES <= b BY <1>3, <2>3, FdAssumption
    <3>2. /\ Word(y) \in Nat /\ y % NDENTRIES \in 0 .. NDENTRIES - 1
          /\ y = Word(y) * NDENTRIES + (y % NDENTRIES)
      BY WordFacts, Zenon
    <3>3. y + NDENTRIES = (Word(y) + 1) * NDENTRIES + (y % NDENTRIES) BY <3>2, FdAssumption
    <3>4. Word(y + NDENTRIES) = Word(y) + 1 BY <3>2, <3>3, BitFacts
    <3>5. Word(y + NDENTRIES) <= Word(b)
      <4>. HIDE DEF b
      <4>. QED BY <2>1, <3>1, WordOrder, Zenon
    <3>. QED BY <2>1, <2>2, <3>2, <3>4, <3>5
  <2>. QED BY <2>1, <2>2, <2>3, Zenon
<1>. HIDE DEF bits
<1>7. \/ /\ w = -1
         /\ Word(i) > bits \/ \A y \in Nat : Word(i) <= y /\ y < bits => y \in T.himap
      \/ /\ w \in Nat /\ Word(i) <= w /\ w \notin T.himap
         /\ \A y \in Nat : Word(i) <= y /\ y < w => y \in T.himap
  BY <1>5, <1>6, NextZero, Zenon
<1>. HIDE DEF w
<1>8. \A y \in Nat : y \in T.himap => \A x \in Nat : Word(x) = y => x \in T.lomap
  BY BitsFacts, Zenon DEF MapsOK
<1>9. ASSUME w = -1 PROVE \A y \in Nat : i <= y /\ y < last => y \in T.lomap
  <2>. SUFFICES ASSUME NEW y \in Nat, i <= y, y < last PROVE y \in T.lomap BY Zenon
  <2>1. Word(y) \in Nat /\ Word(i) <= Word(y) BY <1>2, WordFacts, WordOrder, Zenon
  <2>2. Word(y) < bits BY <1>6, Zenon
  <2>3. Word(y) \in T.himap BY <1>5, <1>6, <1>7, <1>9, <2>1, <2>2
  <2>. QED BY <1>8, <2>1, <2>3, Zenon
<1>10. ASSUME w # -1
       PROVE  /\ w \in Nat /\ Word(i) <= w
              /\ bit # -1 => /\ w * NDENTRIES + bit \in Nat /\ w * NDENTRIES + bit # -1
                             /\ i <= w * NDENTRIES + bit /\ w * NDENTRIES + bit \notin T.lomap
                             /\ \A y \in Nat : i <= y /\ y < w * NDENTRIES + bit => y \in T.lomap
              /\ bit = -1 => /\ w = Word(i) /\ i % NDENTRIES # 0
                             /\ \A y \in Nat : i <= y /\ Word(y) = w => y \in T.lomap
  <2>1. /\ w \in Nat /\ Word(i) <= w /\ w \notin T.himap
        /\ \A y \in Nat : Word(i) <= y /\ y < w => y \in T.himap
    BY <1>7, <1>10, Zenon
  <2>2. low \in 0 .. NDENTRIES - 1 /\ low \in Nat BY <1>5, FdAssumption
  <2>3. \A b \in 0 .. NDENTRIES - 1 : b \in used <=> w * NDENTRIES + b \in T.lomap
    <3>1. ASSUME NEW b \in 0 .. NDENTRIES - 1, b \in used PROVE w * NDENTRIES + b \in T.lomap
      <4>1. PICK fd \in T.lomap \cap Bits(w) : b = fd % NDENTRIES BY <3>1, Zenon
      <4>2. fd \in Nat /\ Word(fd) = w BY <2>1, <4>1, BitsFacts, Zenon
      <4>3. fd = Word(fd) * NDENTRIES + (fd % NDENTRIES) BY <4>2, WordFacts, Zenon
      <4>. QED BY <4>1, <4>2, <4>3, Zenon
    <3>2. ASSUME NEW b \in 0 .. NDENTRIES - 1, w * NDENTRIES + b \in T.lomap PROVE b \in used
      <4>1. w * NDENTRIES + b \in Nat /\ Word(w * NDENTRIES + b) = w /\ (w * NDENTRIES + b) % NDENTRIES = b
        BY <2>1, BitFacts, Zenon
      <4>2. w * NDENTRIES + b \in Bits(w) BY <2>1, <4>1, BitsFacts, Zenon
      <4>. QED BY <3>2, <4>1, <4>2, Zenon
    <3>. QED BY <3>1, <3>2, Zenon
  <2>. HIDE DEF used, low
  <2>4. \/ /\ bit = -1
           /\ low > NDENTRIES \/ \A b \in Nat : low <= b /\ b < NDENTRIES => b \in used
        \/ /\ bit \in Nat /\ low <= bit /\ bit \notin used
           /\ \A b \in Nat : low <= b /\ b < bit => b \in used
           /\ bit < ((NDENTRIES + NDENTRIES - 1) \div NDENTRIES) * NDENTRIES
    BY <2>2, FdAssumption, NextZero, Zenon
  <2>5. ((NDENTRIES + NDENTRIES - 1) \div NDENTRIES) * NDENTRIES = NDENTRIES
    <3>1. NDENTRIES + NDENTRIES - 1 = 1 * NDENTRIES + (NDENTRIES - 1) BY FdAssumption
    <3>2. NDENTRIES - 1 \in 0 .. NDENTRIES - 1 /\ 1 \in Nat BY FdAssumption
    <3>3. Word(1 * NDENTRIES + (NDENTRIES - 1)) = 1 BY <3>2, BitFacts, Zenon
    <3>. QED BY <3>1, <3>3, FdAssumption DEF Word
  <2>. HIDE DEF bit
  \* The descriptors of the word from low on are the ones from i on.
  <2>6. ASSUME NEW y \in Nat, Word(y) = w
        PROVE  /\ y % NDENTRIES \in 0 .. NDENTRIES - 1 /\ y = w * NDENTRIES + (y % NDENTRIES)
               /\ i <= y <=> low <= y % NDENTRIES
    <3>1. y % NDENTRIES \in 0 .. NDENTRIES - 1 /\ y = w * NDENTRIES + (y % NDENTRIES)
      BY <2>6, WordFacts, Zenon
    <3>2. CASE w > Word(i)
      <4>1. i < y BY <1>2, <1>5, <2>1, <2>6, <3>2, WordOrder, Zenon
      <4>2. low = 0 BY <3>2, Zenon DEF low
      <4>. QED BY <1>2, <3>1, <4>1, <4>2, FdAssumption
    <3>3. CASE ~(w > Word(i))
      <4>1. w = Word(i) BY <1>5, <2>1, <3>3
      <4>2. low = i % NDENTRIES BY <3>3, Zenon DEF low
      <4>3. i <= y <=> i % NDENTRIES <= y % NDENTRIES BY <1>2, <2>6, <4>1, WordOrder, Zenon
      <4>. QED BY <3>1, <4>2, <4>3, Zenon
    <3>. QED BY <3>2, <3>3, Zenon
  <2>7. ASSUME bit # -1
        PROVE  LET fd == w * NDENTRIES + bit
               IN  /\ fd \in Nat /\ fd # -1 /\ i <= fd /\ fd \notin T.lomap
                   /\ \A y \in Nat : i <= y /\ y < fd => y \in T.lomap
    <3>. DEFINE fd == w * NDENTRIES + bit
    <3>1. bit \in 0 .. NDENTRIES - 1 /\ low <= bit /\ bit \notin used BY <2>4, <2>5, <2>7, FdAssumption
    <3>2. fd \in Nat /\ Word(fd) = w /\ fd % NDENTRIES = bit BY <2>1, <3>1, BitFacts, Zenon
    <3>3. fd \notin T.lomap BY <2>3, <3>1, Zenon
    <3>. HIDE DEF fd
    <3>4. i <= fd BY <2>6, <3>1, <3>2, Zenon
    <3>5. ASSUME NEW y \in Nat, i <= y, y < fd PROVE y \in T.lomap
      <4>1. Word(y) \in Nat /\ Word(i) <= Word(y) /\ Word(y) <= w
        <5>1. Word(y) \in Nat BY WordFacts, Zenon
        <5>2. y <= fd BY <3>2, <3>5
        <5>. QED BY <1>2, <3>2, <3>5, <5>1, <5>2, WordOrder, Zenon
      <4>2. CASE Word(y) < w
        <5>1. Word(y) \in T.himap BY <2>1, <4>1, <4>2, Zenon
        <5>. QED BY <1>8, <4>1, <5>1, Zenon
      <4>3. CASE Word(y) = w
        <5>1. /\ y % NDENTRIES \in 0 .. NDENTRIES - 1 /\ y = w * NDENTRIES + (y % NDENTRIES)
              /\ low <= y % NDENTRIES
          BY <2>6, <3>5, <4>3, Zenon
        <5>2. ~(bit <= y % NDENTRIES)
          <6>1. bit <= y % NDENTRIES => fd <= y BY <3>2, <4>3, WordOrder, Zenon
          <6>. QED BY <3>2, <3>5, <6>1
        <5>3. y % NDENTRIES \in Nat /\ y % NDENTRIES < bit BY <3>1, <5>1, <5>2, FdAssumption
        <5>4. y % NDENTRIES \in used BY <2>4, <2>7, <5>1, <5>3, Zenon
        <5>. QED BY <2>3, <5>1, <5>4, Zenon
      <4>. QED BY <2>1, <4>1, <4>2, <4>3
    <3>6. fd # -1 BY <3>2
    <3>. QED BY <3>2, <3>3, <3>4, <3>5, <3>6, Zenon DEF fd
  <2>8. ASSUME bit = -1
        PROVE  /\ w = Word(i) /\ i % NDENTRIES # 0
               /\ \A y \in Nat : i <= y /\ Word(y) = w => y \in T.lomap
    <3>1. \A b \in Nat : low <= b /\ b < NDENTRIES => b \in used BY <2>2, <2>4, <2>8, FdAssumption
    <3>2. ASSUME NEW y \in Nat, i <= y, Word(y) = w PROVE y \in T.lomap
      <4>1. /\ y % NDENTRIES \in 0 .. NDENTRIES - 1 /\ y = w * NDENTRIES + (y % NDENTRIES)
            /\ low <= y % NDENTRIES
        BY <2>6, <3>2, Zenon
      <4>2. y % NDENTRIES \in Nat /\ y % NDENTRIES < NDENTRIES BY <4>1, FdAssumption
      <4>3. y % NDENTRIES \in used BY <3>1, <4>1, <4>2, Zenon
      <4>. QED BY <2>3, <4>1, <4>3
    <3>3. low # 0
      <4>. SUFFICES ASSUME low = 0 PROVE FALSE BY Zenon
      <4>1. \A b \in 0 .. NDENTRIES - 1 : b \in used BY <3>1, FdAssumption
      <4>2. Bits(w) \subseteq T.lomap BY <2>3, <4>1, Zenon DEF Bits
      <4>. QED BY <2>1, <4>2, Zenon DEF MapsOK
    <3>4. w = Word(i) /\ i % NDENTRIES # 0 BY <1>5, <2>1, <3>3 DEF low
    <3>. QED BY <3>2, <3>4, Zenon
  <2>. QED BY <2>1, <2>7, <2>8, Zenon
<1>. HIDE DEF bit
<1>. QED BY <1>2, <1>3, <1>4, <1>9, <1>10, Zenon DEF i, last, P


\* fdalloc marks the first descriptor from want, or from the hint, on that is
\* free; it fails only when none below the limit is, with ENOSPC when a larger
\* array could have one.
LEMMA AllocOK ==
    ASSUME NEW F, NEW T \in Table(F), MapsOK(T), NEW want \in Nat
    PROVE  LET r == fdalloc(T, want)
           IN  /\ r.error \in {"0", "ENOSPC", "EMFILE"}
               /\ r.error = "0" =>
                     /\ r.fd \in Nat /\ want <= r.fd /\ r.fd < T.nfiles /\ r.fd < Lim /\ r.fd \notin T.lomap
                     /\ \A y \in Nat : want <= y /\ T.freefile <= y /\ y < r.fd => y \in T.lomap
                     /\ r.tab \in Table(F) /\ MapsOK(r.tab)
                     /\ r.tab.lomap = T.lomap \cup {r.fd} /\ r.tab.ofiles = T.ofiles
                     /\ r.tab.nfiles = T.nfiles /\ (FreeOK(T) => FreeOK(r.tab))
               /\ r.error # "0" =>
                     /\ r.tab = T /\ (r.error = "ENOSPC" <=> T.nfiles < Lim)
                     /\ \A y \in Nat : want <= y /\ T.freefile <= y /\ y < T.nfiles /\ y < Lim => y \in T.lomap
<1>. DEFINE last == Min({T.nfiles, Lim})
            Goal(r) ==
               /\ r.error \in {"0", "ENOSPC", "EMFILE"}
               /\ r.error = "0" =>
                     /\ r.fd \in Nat /\ want <= r.fd /\ r.fd < T.nfiles /\ r.fd < Lim /\ r.fd \notin T.lomap
                     /\ \A y \in Nat : want <= y /\ T.freefile <= y /\ y < r.fd => y \in T.lomap
                     /\ r.tab \in Table(F) /\ MapsOK(r.tab)
                     /\ r.tab.lomap = T.lomap \cup {r.fd} /\ r.tab.ofiles = T.ofiles
                     /\ r.tab.nfiles = T.nfiles /\ (FreeOK(T) => FreeOK(r.tab))
               /\ r.error # "0" =>
                     /\ r.tab = T /\ (r.error = "ENOSPC" <=> T.nfiles < Lim)
                     /\ \A y \in Nat : want <= y /\ T.freefile <= y /\ y < T.nfiles /\ y < Lim => y \in T.lomap
<1>1. T.nfiles \in Nat /\ T.freefile \in Nat /\ T.lomap \in SUBSET Nat BY Zenon DEF Table
<1>2. last \in Nat /\ last <= T.nfiles /\ last <= Lim /\ last \in {T.nfiles, Lim}
  <2>. DEFINE S == {T.nfiles, Lim}
  <2>1. S \in SUBSET Nat /\ S # {} BY <1>1, FdAssumption, Zenon
  <2>. HIDE DEF S
  <2>2. Min(S) \in S /\ \A y \in S : Min(S) <= y BY <2>1, MinFacts
  <2>. QED BY <2>1, <2>2, Zenon DEF S
<1>. HIDE DEF last
\* The end of fdalloc, for what a pass from i on has hit.
<1>3. ASSUME NEW from \in Nat, want <= from, NEW i \in Nat, i = from \/ (i = T.freefile /\ from <= i),
             T.freefile <= i, NEW P,
             P.word = -1 => \A y \in Nat : i <= y /\ y < last => y \in T.lomap,
             P.word # -1 => /\ P.fd \in Nat /\ i <= P.fd /\ P.fd \notin T.lomap
                            /\ \A y \in Nat : i <= y /\ y < P.fd => y \in T.lomap,
             \A y \in Nat : want <= y /\ T.freefile <= y /\ y < i => y \in T.lomap
      PROVE  Goal(Take(T, from, P))
  <2>. DEFINE r == Take(T, from, P)
  <2>1. CASE P.word # -1 /\ P.fd < last
    <3>. DEFINE fd == P.fd
                U == fd_used(T, fd)
                free == IF from <= U.freefile THEN fd ELSE U.freefile
                ex == U.exclose \ {fd}
                V == [U EXCEPT !.exclose = ex, !.freefile = free]
    <3>1. /\ fd \in Nat /\ i <= fd /\ fd \notin T.lomap /\ fd < T.nfiles /\ fd < Lim
          /\ \A y \in Nat : i <= y /\ y < fd => y \in T.lomap
      BY <1>1, <1>2, <1>3, <2>1, FdAssumption
    <3>. HIDE DEF fd
    <3>2. /\ U \in Table(F) /\ MapsOK(U) /\ U.lomap = T.lomap \cup {fd}
          /\ U.ofiles = T.ofiles /\ U.nfiles = T.nfiles /\ U.freefile = T.freefile
          /\ U.exclose = T.exclose
      BY <3>1, UsedOK
    <3>3. r = [error |-> "0", fd |-> fd, tab |-> V] BY <2>1, Zenon DEF Take, last, fd
    <3>. HIDE DEF U
    <3>4. ex \in SUBSET Nat /\ free \in Nat BY <3>1, <3>2, Zenon DEF Table
    <3>. HIDE DEF ex, free, r
    <3>5. /\ V.ofiles = U.ofiles /\ V.lomap = U.lomap /\ V.nfiles = U.nfiles /\ V.himap = U.himap
          /\ V.openfd = U.openfd /\ V.lastfile = U.lastfile /\ V.freefile = free
      BY <3>2, Zenon DEF Table
    <3>6. V \in Table(F) BY <3>2, <3>4, Zenon DEF Table
    <3>. HIDE DEF V
    <3>7. MapsOK(V) BY <3>2, <3>5, Zenon DEF MapsOK
    <3>8. ASSUME FreeOK(T) PROVE FreeOK(V)
      <4>1. CASE from <= T.freefile
        <5>1. i = T.freefile /\ free = fd BY <1>1, <1>3, <3>2, <4>1 DEF free
        <5>2. \A y \in Nat : y < fd => y \in T.lomap BY <1>1, <3>1, <3>8, <5>1 DEF FreeOK
        <5>. QED BY <3>2, <3>5, <5>1, <5>2, Zenon DEF FreeOK
      <4>2. CASE ~(from <= T.freefile)
        <5>1. free = T.freefile BY <3>2, <4>2, Zenon DEF free
        <5>. QED BY <3>2, <3>5, <3>8, <5>1, Zenon DEF FreeOK
      <4>. QED BY <4>1, <4>2, Zenon
    <3>9. \A y \in Nat : want <= y /\ T.freefile <= y /\ y < fd => y \in T.lomap BY <1>3, <3>1
    <3>10. want <= fd BY <1>3, <3>1
    <3>11. r.error = "0" /\ r.fd = fd /\ r.tab = V BY <3>3, Zenon
    <3>. QED BY <3>1, <3>2, <3>5, <3>6, <3>7, <3>8, <3>9, <3>10, <3>11, Zenon DEF r
  <2>2. CASE ~(P.word # -1 /\ P.fd < last)
    <3>1. r = [error |-> IF T.nfiles >= Lim THEN "EMFILE" ELSE "ENOSPC", fd |-> -1, tab |-> T]
      BY <2>2, Zenon DEF Take, last
    <3>. HIDE DEF r
    <3>2. /\ r.error = IF T.nfiles >= Lim THEN "EMFILE" ELSE "ENOSPC"
          /\ r.tab = T
      BY <3>1, Zenon
    <3>3. r.error \in {"ENOSPC", "EMFILE"} /\ (r.error = "ENOSPC" <=> T.nfiles < Lim)
      BY <1>1, <3>2, FdAssumption
    <3>4. ASSUME NEW y \in Nat, want <= y, T.freefile <= y, y < T.nfiles, y < Lim PROVE y \in T.lomap
      <4>1. y < last BY <1>2, <3>4, Zenon
      <4>2. CASE y < i BY <1>3, <3>4, <4>2, Zenon
      <4>3. CASE i <= y /\ P.word = -1 BY <1>3, <4>1, <4>3, Zenon
      <4>4. CASE i <= y /\ P.word # -1
        <5>1. P.fd \in Nat /\ ~(P.fd < last) BY <1>3, <2>2, <4>4, Zenon
        <5>2. y < P.fd BY <1>2, <4>1, <5>1
        <5>. QED BY <1>3, <4>4, <5>2, Zenon
      <4>. QED BY <1>3, <4>2, <4>3, <4>4
    <3>. QED BY <3>2, <3>3, <3>4, Zenon DEF r
  <2>. QED BY <2>1, <2>2, Zenon
<1>. DEFINE i1 == Max({want, T.freefile})
            P1 == Pass(T, want)
<1>4. /\ i1 \in Nat /\ want <= i1 /\ T.freefile <= i1 /\ i1 \in {want, T.freefile}
      /\ P1.word = -1 => \A y \in Nat : i1 <= y /\ y < last => y \in T.lomap
      /\ P1.word # -1 => P1.word \in Nat /\ Word(i1) <= P1.word
      /\ P1.word # -1 /\ P1.fd # -1 =>
            /\ P1.fd \in Nat /\ i1 <= P1.fd /\ P1.fd \notin T.lomap
            /\ \A y \in Nat : i1 <= y /\ y < P1.fd => y \in T.lomap
      /\ P1.word # -1 /\ P1.fd = -1 =>
            /\ P1.word = Word(i1) /\ i1 % NDENTRIES # 0
            /\ \A y \in Nat : i1 <= y /\ Word(y) = P1.word => y \in T.lomap
  BY PassFacts, Zenon DEF last
<1>5. fdalloc(T, want) = IF P1.word # -1 /\ P1.fd = -1
                         THEN Take(T, (P1.word + 1) * NDENTRIES, Pass(T, (P1.word + 1) * NDENTRIES))
                         ELSE Take(T, want, P1)
  BY Zenon DEF fdalloc
<1>. HIDE DEF i1, P1
<1>6. CASE P1.word # -1 /\ P1.fd = -1
  <2>. DEFINE from == (P1.word + 1) * NDENTRIES
              P2 == Pass(T, from)
              i2 == Max({from, T.freefile})
  <2>1. P1.word \in Nat /\ P1.word = Word(i1) BY <1>4, <1>6, Zenon
  <2>2. /\ from \in Nat /\ from % NDENTRIES = 0 /\ Word(from) = P1.word + 1
    <3>1. P1.word + 1 \in Nat /\ 0 \in 0 .. NDENTRIES - 1 BY <2>1, FdAssumption
    <3>2. from = (P1.word + 1) * NDENTRIES + 0 BY <2>1, FdAssumption
    <3>. QED BY <3>1, <3>2, BitFacts
  <2>3. i1 < from
    <3>1. ~(P1.word + 1 <= Word(i1)) BY <2>1
    <3>2. P1.word + 1 \in Nat BY <2>1
    <3>3. ~(from <= i1) BY <1>4, <3>1, <3>2, WordOrder, Zenon
    <3>. QED BY <1>4, <2>2, <3>3
  <2>. HIDE DEF from
  <2>4. /\ i2 \in Nat /\ from <= i2 /\ T.freefile <= i2 /\ i2 \in {from, T.freefile}
        /\ P2.word = -1 => \A y \in Nat : i2 <= y /\ y < last => y \in T.lomap
        /\ P2.word # -1 /\ P2.fd # -1 =>
              /\ P2.fd \in Nat /\ i2 <= P2.fd /\ P2.fd \notin T.lomap
              /\ \A y \in Nat : i2 <= y /\ y < P2.fd => y \in T.lomap
        /\ P2.word # -1 /\ P2.fd = -1 => i2 % NDENTRIES # 0
    BY <2>2, PassFacts, Zenon DEF last
  <2>. HIDE DEF P2, i2
  <2>5. i2 = from /\ want <= from BY <1>1, <1>4, <2>2, <2>3, <2>4
  <2>6. P2.word # -1 => P2.fd # -1 BY <2>2, <2>4, <2>5, Zenon
  <2>7. ASSUME NEW y \in Nat, want <= y, T.freefile <= y, y < i2 PROVE y \in T.lomap
    <3>1. i1 <= y BY <1>4, <2>7, Zenon
    <3>2. Word(y) \in Nat /\ Word(i1) <= Word(y) BY <1>4, <3>1, WordFacts, WordOrder, Zenon
    <3>3. ~(P1.word + 1 <= Word(y))
      <4>1. P1.word + 1 <= Word(y) <=> from <= y
        <5>1. P1.word + 1 \in Nat BY <2>1
        <5>. QED BY <5>1, WordOrder, Zenon DEF from
      <4>. QED BY <2>2, <2>5, <2>7, <4>1
    <3>4. Word(y) = P1.word BY <2>1, <3>2, <3>3
    <3>. QED BY <1>4, <1>6, <3>1, <3>4, Zenon
  <2>8. Goal(Take(T, from, P2)) BY <1>3, <2>2, <2>4, <2>5, <2>6, <2>7
  <2>9. fdalloc(T, want) = Take(T, from, P2) BY <1>5, <1>6, Zenon DEF from, P2
  <2>. QED BY <2>8, <2>9, Zenon
<1>7. CASE ~(P1.word # -1 /\ P1.fd = -1)
  <2>1. \A y \in Nat : want <= y /\ T.freefile <= y /\ y < i1 => y \in T.lomap BY <1>1, <1>4
  <2>2. P1.word # -1 => P1.fd # -1 BY <1>7, Zenon
  <2>3. want <= want OBVIOUS
  <2>4. i1 = want \/ (i1 = T.freefile /\ want <= i1) BY <1>4, Zenon
  <2>5. Goal(Take(T, want, P1)) BY <1>3, <1>4, <2>1, <2>2, <2>3, <2>4
  <2>6. fdalloc(T, want) = Take(T, want, P1) BY <1>5, <1>7, Zenon
  <2>. QED BY <2>5, <2>6, Zenon
<1>. QED BY <1>6, <1>7, Zenon


----------------------------------------------------------------------------
\* The loop that looks for the size of a copy ends, above the last descriptor:
\* it halves sizes that are doubled ones only.
LEMMA CopySizeOK ==
    ASSUME NEW F, NEW T \in Table(F), MapsOK(T)
    PROVE  /\ CopySize(T) \in NDFILE .. FdMax /\ T.lastfile < CopySize(T)
           /\ CopySize(T) = NDFILE \/ Doubled(CopySize(T))
<1>. DEFINE last == T.lastfile
            C(i) == i >= 2 * NDEXTENT /\ i > 2 * last
            Is(f) == f = [i \in 0 .. FdMax |-> IF C(i) THEN f[i \div 2] ELSE i]
            halve == CHOOSE f : Is(f)
<1>1. last \in Nat /\ last < T.nfiles /\ T.nfiles \in Nat
  BY FdAssumption DEF Table, MapsOK
<1>2. CopySize(T) = IF last >= NDFILE THEN halve[T.nfiles] ELSE NDFILE BY Zenon DEF CopySize
<1>3. \A i \in Nat : C(i) => i \div 2 \in Nat /\ i \div 2 < i BY FdAssumption
<1>. HIDE DEF last, C
<1>4. \E f : Is(f)
  <2>. DEFINE S == {n \in Nat : \E f \in [0 .. n -> Nat] :
                      \A i \in 0 .. n : f[i] = IF C(i) THEN f[i \div 2] ELSE i}
  <2>1. 0 \in S
    <3>. DEFINE f == [i \in 0 .. 0 |-> 0]
    <3>1. ~C(0) BY <1>3
    <3>2. f \in [0 .. 0 -> Nat] /\ \A i \in 0 .. 0 : f[i] = IF C(i) THEN f[i \div 2] ELSE i BY <3>1
    <3>. QED BY <3>2, Zenon
  <2>2. ASSUME NEW n \in Nat, n \in S PROVE n + 1 \in S
    <3>1. PICK f \in [0 .. n -> Nat] : \A i \in 0 .. n : f[i] = IF C(i) THEN f[i \div 2] ELSE i
      BY <2>2, Zenon
    <3>. DEFINE v == IF C(n + 1) THEN f[(n + 1) \div 2] ELSE n + 1
                g == [i \in 0 .. n + 1 |-> IF i = n + 1 THEN v ELSE f[i]]
    <3>2. C(n + 1) => (n + 1) \div 2 \in 0 .. n BY <1>3
    <3>3. v \in Nat BY <3>2
    <3>4. g \in [0 .. n + 1 -> Nat] BY <3>3
    <3>5. ASSUME NEW i \in 0 .. n + 1 PROVE g[i] = IF C(i) THEN g[i \div 2] ELSE i
      <4>1. CASE i = n + 1
        <5>1. C(i) => g[i \div 2] = f[i \div 2] BY <3>2, <4>1
        <5>. QED BY <4>1, <5>1, Zenon
      <4>2. CASE i # n + 1
        <5>1. i \in 0 .. n BY <4>2
        <5>2. C(i) => i \div 2 \in 0 .. n BY <1>3, <5>1
        <5>. QED BY <3>1, <5>1, <5>2
      <4>. QED BY <4>1, <4>2, Zenon
    <3>. HIDE DEF g
    <3>. QED BY <3>4, <3>5
  <2>. HIDE DEF S
  <2>3. Nat \subseteq S BY <2>1, <2>2, NatSetInduction, Zenon
  <2>4. FdMax \in S BY <2>3, FdAssumption, Zenon
  <2>5. PICK f \in [0 .. FdMax -> Nat] : \A i \in 0 .. FdMax : f[i] = IF C(i) THEN f[i \div 2] ELSE i
    BY <2>4, Zenon DEF S
  <2>6. Is(f) BY <2>5, Zenon
  <2>. QED BY <2>6, Zenon
<1>5. Is(halve) BY <1>4, Zenon
<1>. HIDE DEF halve
<1>6. \A i \in 0 .. FdMax : halve[i] = IF C(i) THEN halve[i \div 2] ELSE i
  BY <1>5, Zenon
<1>7. ASSUME NEW i \in 0 .. FdMax, Doubled(i), last < i, NDFILE <= i
      PROVE  halve[i] \in NDFILE .. FdMax /\ last < halve[i] /\ Doubled(halve[i])
  <2>. DEFINE Good(k) == halve[k] \in NDFILE .. FdMax /\ last < halve[k] /\ Doubled(halve[k])
              S == {k \in 0 .. FdMax : Doubled(k) /\ last < k /\ NDFILE <= k /\ ~Good(k)}
  <2>. SUFFICES ASSUME ~Good(i) PROVE FALSE BY Zenon
  <2>1. S # {} /\ S \in SUBSET Nat BY <1>7, FdAssumption
  <2>2. PICK k \in S : \A j \in S : k <= j
    <3>. HIDE DEF S
    <3>. QED BY <2>1, LeastNat, Zenon
  <2>3. k \in 0 .. FdMax /\ Doubled(k) /\ last < k /\ NDFILE <= k /\ ~Good(k) BY <2>2, Zenon
  <2>4. C(k)
    <3>. SUFFICES ASSUME ~C(k) PROVE FALSE BY Zenon
    <3>1. halve[k] = k BY <1>6, <2>3, Zenon
    <3>. QED BY <2>3, <3>1, FdAssumption
  <2>5. PICK D \in SUBSET (0 .. FdMax) : k \in D /\ \A m \in D : m = NDEXTENT \/ \E h \in D : m = 2 * h
    BY <2>3, Zenon DEF Doubled
  <2>6. k # NDEXTENT BY <2>4, FdAssumption DEF C
  <2>7. PICK h \in D : k = 2 * h BY <2>5, <2>6, Zenon
  <2>8. h \in 0 .. FdMax /\ Doubled(h) BY <2>5, <2>7, Zenon DEF Doubled
  <2>9. k \div 2 = h BY <2>7, <2>8
  <2>10. last < h /\ NDFILE <= h /\ h < k BY <1>1, <2>4, <2>7, <2>8, FdAssumption DEF C
  <2>11. h \notin S BY <2>2, <2>3, <2>8, <2>10
  <2>12. Good(h) BY <2>8, <2>10, <2>11, Zenon
  <2>13. halve[k] = halve[h] BY <1>6, <2>3, <2>4, <2>9, Zenon
  <2>. QED BY <2>3, <2>12, <2>13, Zenon
<1>8. CASE last >= NDFILE
  <2>1. T.nfiles \in 0 .. FdMax /\ NDFILE <= T.nfiles /\ T.nfiles # NDFILE
    BY <1>1, <1>8, FdAssumption DEF MapsOK
  <2>2. Doubled(T.nfiles) BY <2>1, Zenon DEF MapsOK
  <2>. QED BY <1>1, <1>2, <1>7, <1>8, <2>1, <2>2, Zenon DEF last
<1>9. CASE ~(last >= NDFILE) BY <1>1, <1>2, <1>9, FdAssumption DEF last
<1>. QED BY <1>8, <1>9, Zenon


\* A child's table is sound, whatever is reserved in its parent's; the hint is
\* true to it when the parent has nothing reserved.
LEMMA CopyOK ==
    ASSUME NEW F, None \in F, NEW T \in Table(F), MapsOK(T), NEW R, SlotsOK(T, R),
           NEW stay \in SUBSET (0 .. T.lastfile)
    PROVE  LET U == fdcopy(T, stay)
           IN  /\ U \in Table(F) /\ MapsOK(U) /\ SlotsOK(U, {})
               /\ FreeOK(T) /\ R = {} => FreeOK(U)
<1>. DEFINE U == fdcopy(T, stay)
            copied == {fd \in (0 .. T.lastfile) \ stay : T.ofiles[fd] # None}
            files == [fd \in Fd |-> IF fd \in copied THEN T.ofiles[fd] ELSE None]
            ex == T.exclose \cap copied
            hi == {w \in {Word(fd) : fd \in copied} : Bits(w) \subseteq copied}
            last == Max({0} \cup copied)
            free == Min({T.freefile} \cup stay)
<1>1. /\ T.lastfile \in Nat /\ T.lastfile < T.nfiles /\ T.nfiles \in NDFILE .. FdMax
      /\ T.freefile \in Nat /\ T.exclose \in SUBSET Nat /\ T.ofiles \in [Fd -> F]
  BY FdAssumption DEF Table, MapsOK
<1>2. 0 .. T.lastfile \in SUBSET Fd BY <1>1, FdAssumption DEF Fd
<1>3. copied \in SUBSET Fd /\ copied \in SUBSET Nat /\ copied \subseteq 0 .. T.lastfile
  BY <1>2 DEF Fd
<1>4. \A fd \in copied : fd \in T.lomap BY <1>3, Zenon DEF SlotsOK
<1>5. IsFiniteSet(copied)
  <2>1. IsFiniteSet(T.lomap) BY Zenon DEF MapsOK
  <2>. QED BY <1>4, <2>1, FS_Subset, Zenon
<1>6. Cardinality(copied) \in Nat BY <1>5, FS_CardinalityType, Zenon
<1>7. files \in [Fd -> F] /\ \A fd \in Fd : files[fd] = IF fd \in copied THEN T.ofiles[fd] ELSE None
  BY <1>1, Zenon
<1>8. \A fd \in Fd : fd \in copied <=> files[fd] # None BY <1>7, Zenon
<1>9. hi \in SUBSET Nat /\ \A w \in Nat : w \in hi <=> Bits(w) \subseteq copied
  <2>1. \A fd \in copied : Word(fd) \in Nat BY <1>3, WordFacts, Zenon
  <2>2. ASSUME NEW w \in Nat, Bits(w) \subseteq copied PROVE w \in hi
    <3>2. 0 \in 0 .. NDENTRIES - 1 BY FdAssumption
    <3>3. w * NDENTRIES + 0 \in Nat /\ Word(w * NDENTRIES + 0) = w BY <3>2, BitFacts, Zenon
    <3>1. \E fd \in Bits(w) : fd \in Nat /\ Word(fd) = w BY <3>3, BitsFacts, Zenon
    <3>. QED BY <2>2, <3>1, Zenon
  <2>. QED BY <2>1, <2>2, Zenon
<1>10. last \in copied \cup {0} /\ \A fd \in copied : fd <= last
  <2>. DEFINE S == {0} \cup copied
  <2>1. S \in SUBSET Nat /\ S # {} /\ \A x \in S : x <= T.lastfile BY <1>1, <1>3
  <2>. HIDE DEF S
  <2>2. Max(S) \in S /\ \A x \in S : x <= Max(S) BY <1>1, <2>1, MaxFacts, Zenon
  <2>. QED BY <2>2, Zenon DEF S
<1>11. free \in Nat /\ free <= T.freefile /\ \A x \in stay : free <= x
  <2>. DEFINE S == {T.freefile} \cup stay
  <2>3. 0 .. T.lastfile \in SUBSET Nat BY <1>1
  <2>1. S \in SUBSET Nat /\ S # {} BY <1>1, <2>3, Zenon
  <2>. HIDE DEF S
  <2>2. Min(S) \in S /\ \A x \in S : Min(S) <= x BY <2>1, MinFacts, Zenon
  <2>. QED BY <2>1, <2>2, Zenon DEF S
<1>12. /\ CopySize(T) \in NDFILE .. FdMax /\ T.lastfile < CopySize(T)
       /\ CopySize(T) = NDFILE \/ Doubled(CopySize(T))
  BY CopySizeOK, Zenon
<1>13. U = [ofiles |-> files, exclose |-> ex, nfiles |-> CopySize(T), lomap |-> copied, himap |-> hi,
            lastfile |-> last, freefile |-> free, openfd |-> Cardinality(copied), advlock |-> T.advlock]
  BY Zenon DEF fdcopy
<1>14. ex \in SUBSET Nat /\ T.advlock \in BOOLEAN BY <1>1, <1>3, Zenon DEF Table
<1>15. last \in Nat BY <1>3, <1>10
<1>16. CopySize(T) \in Nat BY <1>12, FdAssumption
<1>. HIDE DEF copied, files, ex, hi, last, free, U
<1>17. U \in Table(F) BY <1>3, <1>6, <1>7, <1>9, <1>11, <1>13, <1>14, <1>15, <1>16 DEF Table
<1>18. /\ U.ofiles = files /\ U.nfiles = CopySize(T) /\ U.lomap = copied /\ U.himap = hi
       /\ U.lastfile = last /\ U.freefile = free /\ U.openfd = Cardinality(copied)
  BY <1>13, Zenon
<1>19. MapsOK(U)
  <2>1. \A fd \in copied : fd < CopySize(T) /\ fd <= last
    BY <1>1, <1>3, <1>10, <1>12, <1>16
  <2>. QED BY <1>5, <1>9, <1>10, <1>12, <1>18, <2>1, Zenon DEF MapsOK
<1>20. SlotsOK(U, {}) BY <1>8, <1>18, Zenon DEF SlotsOK
<1>21. ASSUME FreeOK(T), R = {} PROVE FreeOK(U)
  <2>1. ASSUME NEW fd \in Nat, fd < free PROVE fd \in copied
    <3>1. fd \in T.lomap BY <1>1, <1>11, <1>21, <2>1 DEF FreeOK
    <3>2. fd \in 0 .. T.lastfile BY <3>1, <1>1 DEF MapsOK
    <3>3. T.ofiles[fd] # None BY <1>2, <1>21, <3>1, <3>2, Zenon DEF SlotsOK
    <3>4. fd \notin stay BY <1>11, <2>1
    <3>. QED BY <3>2, <3>3, <3>4, Zenon DEF copied
  <2>. QED BY <1>18, <2>1, Zenon DEF FreeOK
<1>. QED BY <1>17, <1>19, <1>20, <1>21, Zenon DEF U
=============================================================================
