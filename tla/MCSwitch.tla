------------------------------ MODULE MCSwitch ------------------------------
EXTENDS Switch

CONSTANTS L, M, G, a1, a2

Local(uname, x, y) == [name |-> NoName, space |-> 0, uname |-> uname, uspace |-> 2, x |-> x, y |-> y]
Global(name, space, x, y) == [name |-> name, space |-> space, uname |-> NoName, uspace |-> 0, x |-> x, y |-> y]
Mixed(uname, name, x, y) == [name |-> name, space |-> 2, uname |-> uname, uspace |-> 2, x |-> x, y |-> y]

Types(l, m, g) == L :> l @@ M :> m @@ G :> g
To(ip, n) == [to |-> ip, parts |-> n]
NoSends == [a \in {a1, a2} |-> <<>>]

\* A local and a global switch meet at a global one.
Meet(apart, eager, n) ==
    [self |-> L :> Local(<<1, 0, 0, 1>>, 0, 0) @@ M :> Global(<<2, 0, 0, 1>>, 2, 3, 4)
              @@ G :> Global(<<3, 0, 0, 1>>, 2, 3, 7),
     types |-> Types(<<M>>, <<>>, <<M>>), home |-> a1 :> L, eager |-> eager, apart |-> apart, ends |-> {},
     sends |-> [NoSends EXCEPT ![a1] = <<To(<<2, 0, 0, 3>>, n)>>]]

\* A local switch and a mixed one, an adaptor at each.
Pair(apart, one, two) ==
    [self |-> L :> Local(<<1, 0, 0, 1>>, 0, 0) @@ M :> Mixed(<<1, 1, 0, 1>>, <<1, 2, 0, 1>>, 3, 4)
              @@ G :> Global(<<3, 0, 0, 1>>, 2, 3, 7),
     types |-> Types(<<M>>, <<>>, <<>>), home |-> a1 :> L @@ a2 :> M, eager |-> FALSE, apart |-> apart, ends |-> {},
     sends |-> a1 :> one @@ a2 :> two]

\* A local and a global switch meet at a mixed one.
Hub(apart, eager) ==
    [self |-> L :> Local(<<1, 0, 0, 1>>, 0, 0) @@ M :> Mixed(<<1, 1, 0, 1>>, <<1, 2, 0, 1>>, 3, 4)
              @@ G :> Global(<<3, 0, 0, 1>>, 2, 3, 7),
     types |-> Types(<<M>>, <<>>, <<M>>), home |-> a1 :> L @@ a2 :> M, eager |-> eager, apart |-> apart, ends |-> {},
     sends |-> a1 :> <<To(<<1, 1, 0, 1>>, 1)>> @@ a2 :> <<>>]

\* A local switch connects to a global one, which connects to another.
Chain(apart) ==
    [self |-> L :> Local(<<1, 0, 0, 1>>, 0, 0) @@ M :> Global(<<2, 0, 0, 1>>, 2, 3, 4)
              @@ G :> Global(<<3, 0, 0, 1>>, 2, 3, 7),
     types |-> Types(<<M>>, <<G>>, <<>>), home |-> a1 :> L, eager |-> FALSE, apart |-> apart, ends |-> {},
     sends |-> [NoSends EXCEPT ![a1] = <<To(<<3, 0, 0, 1>>, 1)>>]]

\* A global switch connects to a mixed one and then to another global one.
Fork ==
    [self |-> L :> Global(<<1, 0, 0, 1>>, 2, 0, 0) @@ M :> Mixed(<<1, 1, 0, 1>>, <<1, 2, 0, 1>>, 3, 4)
              @@ G :> Global(<<3, 0, 0, 1>>, 2, 3, 7),
     types |-> Types(<<>>, <<>>, <<M, L>>), home |-> <<>>, eager |-> FALSE, apart |-> FALSE, ends |-> {}, sends |-> NoSends]

\* One address for two.
Full ==
    [self |-> L :> Local(<<1, 0, 0, 1>>, 0, 0) @@ M :> Global(<<2, 0, 0, 2>>, 2, 3, 4)
              @@ G :> Global(<<3, 0, 0, 1>>, 2, 3, 7),
     types |-> Types(<<M>>, <<>>, <<M>>), home |-> <<>>, eager |-> FALSE, apart |-> FALSE, ends |-> {}, sends |-> NoSends]

\* Two adaptors of one switch.
Home(one, two) ==
    [self |-> L :> Local(<<1, 0, 0, 1>>, 0, 0) @@ M :> Global(<<2, 0, 0, 2>>, 2, 3, 4)
              @@ G :> Global(<<3, 0, 0, 1>>, 2, 3, 7),
     types |-> Types(<<>>, <<>>, <<>>), home |-> a1 :> L @@ a2 :> L, eager |-> FALSE, apart |-> FALSE, ends |-> {},
     sends |-> a1 :> one @@ a2 :> two]

\* The same, but the local one may be ended, and the mixed one has a packet for it.
Ended == [Hub(FALSE, TRUE) EXCEPT !.ends = {L}, !.sends = a1 :> <<>> @@ a2 :> <<To(<<1, 2, 0, 2>>, 1)>>]

\* The chain without its first or its last; the middle also types a port that
\* nobody has.
Broken(s) == [Chain(FALSE) EXCEPT !.ends = {s}, !.types = Types(<<M>>, <<L, G>>, <<>>),
                                  !.sends = NoSends]

\* Three global switches, each linked to both others.
Ring == [self |-> L :> Global(<<1, 0, 0, 1>>, 2, 0, 0) @@ M :> Global(<<2, 0, 0, 1>>, 2, 3, 4)
                  @@ G :> Global(<<3, 0, 0, 1>>, 2, 3, 7),
         types |-> Types(<<M, G>>, <<G>>, <<>>), home |-> <<>>, eager |-> FALSE, apart |-> TRUE,
         ends |-> {}, sends |-> NoSends]
Rings == {Ring}

A(ip) == To(ip, 1)
MCScenarios == {Meet(TRUE, FALSE, 1), Meet(FALSE, FALSE, 1), Meet(FALSE, TRUE, 1),
    Meet(TRUE, FALSE, 2), Fork, Full, Chain(TRUE), Chain(FALSE),
    Hub(TRUE, FALSE), Hub(FALSE, TRUE), Ended, Broken(L), Broken(G),
    Pair(TRUE, <<A(<<1, 1, 0, 2>>)>>, <<A(<<1, 0, 0, 2>>)>>),
    Pair(TRUE, <<A(<<1, 1, 0, 2>>), A(<<1, 1, 0, 1>>), A(<<1, 1, 0, 2>>)>>, <<>>),
    Home(<<To(<<1, 0, 0, 3>>, 2), To(<<1, 0, 0, 3>>, 1)>>, <<To(<<1, 0, 0, 3>>, 1)>>)}
=============================================================================
