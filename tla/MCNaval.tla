------------------------------ MODULE MCNaval -------------------------------
(* Small games of the hub and its agents. *)
EXTENDS Naval

Ship(x, y, d) == [x |-> x, y |-> y, d |-> d]

Two == [x |-> 2, y |-> 2, ships |-> <<2, 1>>]
Three == [x |-> 3, y |-> 3, ships |-> <<2, 1>>]
Tall == [x |-> 2, y |-> 3, ships |-> <<2, 1>>]
Wide == [x |-> 3, y |-> 2, ships |-> <<2, 1>>]

Rows == <<Ship(1, 1, "E"), Ship(1, 2, "E")>>
Columns == <<Ship(2, 2, "N"), Ship(1, 1, "S")>>
Across == <<Ship(1, 2, "E"), Ship(2, 2, "W")>>      \* overlaps
Over == <<Ship(2, 1, "E"), Ship(1, 1, "E")>>        \* out of bounds
Short == <<Ship(1, 1, "E")>>
Bent == <<Ship(1, 1, "X"), Ship(1, 2, "E")>>

Game(r, m1, m2, k1, k2, kills) ==
    [prog |-> "hub", rules |-> r, map |-> <<m1, m2>>, moves |-> <<>>, kind |-> <<k1, k2>>, kills |-> kills]

Alone(m1, m2, moves) ==
    [prog |-> "naval", rules |-> Two, map |-> <<m1, m2>>, moves |-> moves, kind |-> <<"A", "A">>, kills |-> {}]

Winning == << <<0, 0>>, Comment, <<0, 0>>, <<2, 1>>, <<0, 1>>, <<26, 0>>, <<1, 0>>, <<1, 1>> >>

MCScenarios ==
    {Game(Two, Rows, Columns, k1, k2, {}) : k1 \in {"A", "B"}, k2 \in {"A", "B"}}
    \cup {Game(Three, Rows, Columns, "A", "B", {})}
    \cup {Game(Tall, Rows, Columns, "A", "A", {"hub", "agent2"}), Game(Wide, Rows, Rows, "A", "A", {})}
    \cup {Game(Two, <<Comment>> \o Rows, m, "A", "A", {}) : m \in {Across, Over, Short, Bent}}
    \cup {Alone(<<Comment>> \o Rows, Columns, moves) : moves \in {Winning, <<Comment, <<1, 1>>>>}}
    \cup {Alone(Rows, Across, Winning)}
    \cup {Game(Two, Over, Rows, "A", "A", {})}
=============================================================================
