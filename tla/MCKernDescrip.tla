--------------------------- MODULE MCKernDescrip ----------------------------
EXTENDS KernDescrip, SequencesExt, TLC

CONSTANTS p1, p2, p3, T1, T2, f1, f2, f3, f4, v1, v2

Call(name, fd, new) ==
    [name |-> name, fd |-> fd, new |-> new, cloexec |-> FALSE, wait |-> FALSE,
     how |-> "plain", v |-> v1]
On(c) == [c EXCEPT !.cloexec = TRUE]
Wait(c) == [c EXCEPT !.wait = TRUE]
Open(how) == [Call("open", 1, 0) EXCEPT !.how = how]
FhOpen(how) == [Open(how) EXCEPT !.name = "fhopen"]
Dup(fd, min) == Call("dup", fd, min)
Dup2(fd, new) == Call("dup2", fd, new)
Close(fd) == Call("close", fd, 0)
Do(name) == Call(name, 0, 0)

Vnode(n) == [count |-> n, type |-> "vnode", vp |-> v1, haslock |-> FALSE]
Other(n, type) == [count |-> n, type |-> type, vp |-> None, haslock |-> FALSE]
NoFile == [f \in Files |-> None]

\* A table with files in its first descriptors.
Holding(fs) == [fdinit EXCEPT !.ofiles = [fd \in Fd |-> IF fd < Len(fs) THEN fs[fd + 1] ELSE None],
    !.lomap = 0 .. Len(fs) - 1, !.openfd = Len(fs), !.lastfile = Len(fs) - 1,
    !.freefile = Len(fs) - 1, !.himap = 0 .. (Len(fs) \div NDENTRIES) - 1]

One(t) == T1 :> t @@ T2 :> None
Pair == p1 :> T1 @@ p2 :> T1 @@ p3 :> None
Apart == p1 :> T1 @@ p2 :> T1 @@ p3 :> T2
May(a, b, c) == p1 :> a @@ p2 :> b @@ p3 :> c

Scenario(t, f, who, calls, n) == [tab |-> t, file |-> f, filehead |-> SetToSeq({x \in Files : f[x] # None}),
    fdp |-> who, calls |-> calls, left |-> n]

Start(fs) == fs @@ NoFile

Dups == Scenario(One(Holding(<<f1, f2>>)), Start(f1 :> Vnode(1) @@ f2 :> Other(1, "pipe")), Pair,
    May({Dup(0, 0), Dup(0, 3), Dup2(0, 1), On(Dup2(1, 3))},
        {Close(0), Close(1), Dup2(1, 0), Open("plain")}, {}), May(2, 2, 0))

Opens == Scenario(One(Holding(<<f1, f2>>)), Start(f1 :> Vnode(1) @@ f2 :> Other(1, "kqueue")), Pair,
    May({On(Open("plain")), Open("missing"), Open("fd"), Open("lock")},
        {Dup2(0, 2), Close(2), Call("closefrom", 1, 1), Do("fork"), Close(1)},
        {Close(0), Do("exit"), FhOpen("plain")}), May(1, 2, 1))

Locks == Scenario(T1 :> Holding(<<f1, f2>>) @@ T2 :> Holding(<<f1>>),
    Start(f1 :> Vnode(2) @@ f2 :> [Vnode(1) EXCEPT !.vp = v2]), Apart,
    May({Do("setlk"), Wait(Do("setlk")), Do("flock"), Wait(Do("flock"))},
        {Close(0), Dup2(1, 0), Do("funlock"), Do("unlck")},
        {Do("setlk"), Do("exit"), Open("lock"), FhOpen("lock")}), May(1, 2, 1))

Walks == Scenario(One(Holding(<<f1, f2>>)), Start(f1 :> Vnode(1) @@ f2 :> Other(1, "pipe")), Pair,
    May({Do("iter")},
        {Close(0), Close(1), Open("plain"), FhOpen("missing"), Do("fstat"), Do("getlk"), Do("setfl"), Dup(0, 4), Dup2(1, 1),
         Call("setlk", 1, 0), Call("flock", 1, 0)}, {}), May(1, 3, 0))

Ends == Scenario(One(Holding(<<f1, f1>>)), Start(f1 :> Vnode(2)), Pair,
    May({On(Call("setfd", 1, 0)), Do("exec"), Do("exit"), On(Dup(0, 2))},
        {Dup(1, 0), Dup2(0, 3), Do("fork"), Close(1)}, {Do("exit"), Dup(0, 0)}), May(2, 2, 1))

Crowd == Scenario(One(Holding(<<f1, f1>>)), Start(f1 :> Vnode(2)), Pair,
    May({Dup(0, 0), Open("plain")}, {Dup(1, 2), Close(0), Do("fork")}, {}), May(2, 3, 0))

MCScenarios == {Dups, Opens, Locks, Walks, Ends, Crowd}
=============================================================================
