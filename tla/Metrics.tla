------------------------------ MODULE Metrics ------------------------------
(***************************************************************************)
(* The metrics registry (metrics.c).  A metric keeps its values in a tree  *)
(* by their labels, and those that the current cycle has not updated on a  *)
(* list as well, so that they can be dropped at its end.  The list is the  *)
(* LIST of queue.h, with its two pointers in the values themselves: what   *)
(* it holds after a value was inserted twice depends on them.              *)
(*                                                                         *)
(* A label is a number, in the order of compare_metric_vals.  A value is   *)
(* fresh when the current cycle has set it; numbers are left out.          *)
(***************************************************************************)
EXTENDS Integers, Sequences, FiniteSets, SequencesExt, TLC

CONSTANTS
    Labels,     \* the labels that a value can have; 0 stands for none
    Nil, Top    \* NULL, and the head of a list as a place for a pointer

ASSUME MetricsAssumption == Labels \subseteq Nat /\ {Nil, Top} \cap Labels = {} /\ Nil # Top

\* metric_new.  prev[x] is where the pointer to x is: Top or the value before it.
\* bad: a value was used after it had been freed.
metric_new == [values |-> {}, updated |-> [x \in Labels |-> TRUE], fresh |-> {}, head |-> Nil,
               next |-> [x \in Labels |-> Nil], prev |-> [x \in Labels |-> Top], bad |-> FALSE]

Alive(m, x) == x \in {Nil, Top} \/ x \in m.values

\* LIST_INSERT_HEAD
ListInsertHead(m, x) ==
    [m EXCEPT !.next[x] = m.head, !.head = x,
              !.prev = [y \in Labels |-> IF y = x THEN Top ELSE IF y = m.head THEN x ELSE @[y]],
              !.bad = @ \/ ~Alive(m, m.head)]

\* LIST_REMOVE
ListRemove(m, x) ==
    LET n == m.next[x]
        p == m.prev[x]
        back == IF n = Nil THEN m ELSE [m EXCEPT !.prev[n] = p]
        r == IF p = Top THEN [back EXCEPT !.head = n] ELSE [back EXCEPT !.next[p] = n]
    IN  [r EXCEPT !.bad = @ \/ ~Alive(m, n) \/ ~Alive(m, p)]

\* vlabels, and the search of the tree for what it makes.
Found(m, x) == x \in m.values

\* metric_update: the value with these labels is set, or made.
metric_update(m, x) ==
    LET r == IF Found(m, x) /\ ~m.updated[x] THEN ListRemove(m, x) ELSE m
    IN  [r EXCEPT !.values = @ \cup {x}, !.updated[x] = TRUE, !.fresh = @ \cup {x}]

\* The values in the order of the tree, which is that of compare_metric_vals.
Ordered(values) == SetToSortSeq(values, <)

\* The first loop of registry_collect for one metric, in the order of the tree.
MarkOld(m) ==
    FoldLeft(LAMBDA r, x : [ListInsertHead(r, x) EXCEPT !.updated[x] = FALSE],
             [m EXCEPT !.fresh = {}], Ordered(m.values))

ClearUpdatedToo(m) == [m EXCEPT !.values = {}, !.head = Nil]

free_metric_val(m, x) == [m EXCEPT !.values = @ \ {x}]

\* One turn of the loop of metric_clear_old_values.
ClearFirst(m) ==
    IF m.head = Nil \/ m.bad THEN m
    ELSE IF m.head \notin m.values THEN [m EXCEPT !.bad = TRUE]
    ELSE free_metric_val(ListRemove(m, m.head), m.head)

\* The whole loop: every turn frees a value, or uses one that is freed.
metric_clear_old_values(m) ==
    FoldLeft(LAMBDA r, i : ClearFirst(r), m, [i \in 1 .. Cardinality(Labels) + 1 |-> i])

----------------------------------------------------------------------------
\* reg is a function from the metrics to their state.
registry_build(metrics) == [n \in metrics |-> metric_new]

\* What a module does: sets of values behind one sysctl each, of which the
\* first done succeed, and the metrics that it clears after the last one.
Collected(reg, c, done) ==
    LET one(r, u) == [r EXCEPT ![u.metric] = metric_update(@, u.label)]
        upd == FoldLeft(LAMBDA r, g : FoldLeft(one, r, g), reg, SubSeq(c.groups, 1, done))
    IN  IF done < Len(c.groups) THEN upd
        ELSE [n \in DOMAIN reg |-> IF n \in c.clears THEN metric_clear_old_values(upd[n]) ELSE upd[n]]

\* registry_collect with the modules in their order; ok[i] is how far module i comes.
registry_collect(reg, mods, done) ==
    FoldLeft(LAMBDA r, i : Collected(r, mods[i], done[i]), [n \in DOMAIN reg |-> MarkOld(reg[n])],
             [i \in DOMAIN mods |-> i])

Broken(reg) == \E n \in DOMAIN reg : reg[n].bad

\* print_registry: the values of every metric, and which of them are fresh.
print_registry(reg) == [n \in DOMAIN reg |-> [values |-> reg[n].values, fresh |-> reg[n].fresh]]
=============================================================================
