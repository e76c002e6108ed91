------------------------------ MODULE FileDesc ------------------------------
(***************************************************************************)
(* The descriptor table of a process in an OpenBSD kernel (struct filedesc *)
(* in kern_descrip.c) as a value: its array of files, the flags of each    *)
(* slot, the two bitmaps, and the hints that make the search for a free    *)
(* descriptor short.                                                       *)
(*                                                                         *)
(* fd_lomap is the set of descriptors in use, fd_himap the set of its      *)
(* words that are full; a word has NDENTRIES bits.  Of the flags of a slot *)
(* only UF_EXCLOSE is kept: exclose is the set of slots that have it.      *)
(***************************************************************************)
EXTENDS Integers, FiniteSets, FiniteSetsExt

CONSTANTS
    None,       \* NULL
    NDFILE,     \* descriptors in a struct filedesc0
    NDEXTENT,   \* descriptors in the first array that is allocated
    NDENTRIES,  \* bits in a word of the bitmaps
    Lim,        \* min(lim_cur(RLIMIT_NOFILE), maxfiles)
    FdMax       \* descriptors in the largest array that Lim allows

ASSUME FdAssumption ==
    /\ NDENTRIES \in Nat \ {0} /\ Lim \in Nat \ {0}
    /\ NDFILE \in Nat \ {0} /\ NDEXTENT \in Nat /\ FdMax \in Nat
    /\ NDFILE <= NDEXTENT /\ NDEXTENT <= FdMax
    /\ \A n \in NDEXTENT .. FdMax : n < Lim => 2 * n <= FdMax

Fd == 0 .. FdMax - 1

\* The tables whose slots hold elements of F.
Table(F) ==
    [ofiles : [Fd -> F], exclose : SUBSET Nat, nfiles : Nat, lomap : SUBSET Nat,
     himap : SUBSET Nat, lastfile : Nat, freefile : Nat, openfd : Int, advlock : BOOLEAN]

\* NDEXTENT, doubled some number of times: with NDFILE, the sizes of an array.
Doubled(n) == \E S \in SUBSET (0 .. FdMax) :
    n \in S /\ \A m \in S : m = NDEXTENT \/ \E h \in S : m = 2 * h

Word(fd) == fd \div NDENTRIES
Bits(w) == {w * NDENTRIES + i : i \in 0 .. NDENTRIES - 1}

fdinit ==
    [ofiles |-> [fd \in Fd |-> None], exclose |-> {},
     nfiles |-> NDFILE, lomap |-> {}, himap |-> {}, lastfile |-> 0, freefile |-> 0,
     openfd |-> 0, advlock |-> FALSE]

fd_inuse(t, fd) == fd \in t.lomap

\* The first bit from want on that is not in bitmap, -1 if none is.  The
\* search takes whole words and may pass bits.
find_next_zero(bitmap, want, bits) ==
    LET words == (bits + NDENTRIES - 1) \div NDENTRIES
        zero == (want .. words * NDENTRIES - 1) \ bitmap
    IN  IF want > bits \/ zero = {} THEN -1 ELSE Min(zero)

find_last_set(lomap, last) == Max({0} \cup {fd \in lomap : fd < last})

fd_used(t, fd) ==
    LET lo == t.lomap \cup {fd}
    IN  [t EXCEPT !.lomap = lo, !.openfd = @ + 1,
                  !.himap = IF Bits(Word(fd)) \subseteq lo THEN @ \cup {Word(fd)} ELSE @,
                  !.lastfile = Max({@, fd})]

\* Mutant: a word that was full keeps its bit in fd_himap.
fd_unusedHigh(t, fd) ==
    LET lo == t.lomap \ {fd}
    IN  [t EXCEPT !.lomap = lo, !.openfd = @ - 1,
                  !.lastfile = IF fd = @ THEN find_last_set(lo, fd) ELSE @,
                  !.freefile = Min({@, fd})]

fd_unused(t, fd) ==
    LET lo == t.lomap \ {fd}
    IN  [t EXCEPT !.lomap = lo, !.openfd = @ - 1,
                  !.himap = IF Bits(Word(fd)) \subseteq t.lomap THEN @ \ {Word(fd)} ELSE @,
                  !.lastfile = IF fd = @ THEN find_last_set(lo, fd) ELSE @,
                  !.freefile = Min({@, fd})]

\* One pass of fdalloc: the word that has a free bit and the descriptor in it;
\* fd = -1 when the only free bits of the word are below want.
Pass(t, want) ==
    LET i == Max({want, t.freefile})
        last == Min({t.nfiles, Lim})
        w == find_next_zero(t.himap, Word(i), (last + NDENTRIES - 1) \div NDENTRIES)
        low == IF w > Word(i) THEN 0 ELSE i % NDENTRIES
        bit == find_next_zero({fd % NDENTRIES : fd \in t.lomap \cap Bits(w)}, low, NDENTRIES)
    IN  [word |-> w, fd |-> IF bit = -1 THEN -1 ELSE w * NDENTRIES + bit]

\* The end of fdalloc: what the last pass has hit is taken.
Take(t, want, hit) ==
    IF hit.word # -1 /\ hit.fd < Min({t.nfiles, Lim})
    THEN [error |-> "0", fd |-> hit.fd,
          tab |-> [fd_used(t, hit.fd) EXCEPT !.exclose = @ \ {hit.fd},
                     !.freefile = IF want <= @ THEN hit.fd ELSE @]]
    ELSE [error |-> IF t.nfiles >= Lim THEN "EMFILE" ELSE "ENOSPC", fd |-> -1, tab |-> t]

\* A second pass, from the next word on, always finds its bit.
fdalloc(t, want) ==
    LET from(want2) == Take(t, want2, Pass(t, want2))
        after(first) == IF first.word # -1 /\ first.fd = -1 THEN from((first.word + 1) * NDENTRIES)
                        ELSE Take(t, want, first)
    IN  after(Pass(t, want))

fdexpand(t) == [t EXCEPT !.nfiles = IF @ < NDEXTENT THEN NDEXTENT ELSE 2 * @]

fdremove(t, fd) ==
    fd_unused([t EXCEPT !.ofiles[fd] = None, !.exclose = @ \ {fd}], fd)

\* The size of a copy: halved as long as the descriptors in use fit.
CopySize(t) ==
    LET halve[i \in 0 .. FdMax] ==
            IF i >= 2 * NDEXTENT /\ i > 2 * t.lastfile THEN halve[i \div 2] ELSE i
    IN  IF t.lastfile >= NDFILE THEN halve[t.nfiles] ELSE NDFILE

\* The table of a child: the descriptors in stay are not copied.
fdcopy(t, stay) ==
    LET copied == {fd \in (0 .. t.lastfile) \ stay : t.ofiles[fd] # None}
    IN  [ofiles |-> [fd \in Fd |-> IF fd \in copied THEN t.ofiles[fd] ELSE None],
         exclose |-> t.exclose \cap copied, nfiles |-> CopySize(t), lomap |-> copied,
         himap |-> {w \in {Word(fd) : fd \in copied} : Bits(w) \subseteq copied},
         lastfile |-> Max({0} \cup copied), freefile |-> Min({t.freefile} \cup stay),
         openfd |-> Cardinality(copied), advlock |-> t.advlock]

----------------------------------------------------------------------------
\* What the operations keep.

\* The bitmaps, the count and the last descriptor agree with what is in use.
MapsOK(T) ==
    /\ T.nfiles \in NDFILE .. FdMax /\ (T.nfiles = NDFILE \/ Doubled(T.nfiles))
    /\ \A fd \in T.lomap : fd < T.nfiles /\ fd <= T.lastfile
    /\ T.lastfile \in T.lomap \cup {0}
    /\ \A w \in Nat : w \in T.himap <=> Bits(w) \subseteq T.lomap
    /\ IsFiniteSet(T.lomap) /\ T.openfd = Cardinality(T.lomap)

\* In use are the descriptors that have a file and the ones in R, which have none.
SlotsOK(T, R) ==
    /\ \A fd \in Fd : fd \in T.lomap <=> T.ofiles[fd] # None \/ fd \in R
    /\ \A fd \in R : fd \in Fd /\ T.ofiles[fd] = None

\* Nothing is free below the hint.
FreeOK(T) == \A fd \in Nat : fd < T.freefile => fd \in T.lomap

\* T with file f in slot fd.
Filled(T, fd, f, ex) == [T EXCEPT !.ofiles = [T.ofiles EXCEPT ![fd] = f], !.exclose = ex]
=============================================================================
