----------------------------- MODULE AcctProofs -----------------------------
(***************************************************************************)
(* What holds of the acct device for any number of processes, files and    *)
(* acctctl commands: the theorems at the end, from the inductive invariant *)
(* AcctInv.                                                                *)
(***************************************************************************)
EXTENDS AcctCtl, FiniteSetTheorems, SequenceTheorems, TLAPS

Numbers(l, n) == Len(l) <= n /\ \A i \in 1 .. Len(l) : l[i] = n - i

Last0(l, n) == IF l = <<>> THEN n ELSE l[Len(l)]

\* A message put in front of the list keeps the numbers and the oldest (Insert).
LEMMA InsertNumbers ==
    ASSUME NEW l \in Seq(Nat), NEW n \in Nat
    PROVE  LET m == <<n>> \o l
           IN  /\ m \in Seq(Nat) /\ m # <<>>
               /\ Last0(m, n + 1) = Last0(l, n)
               /\ Numbers(l, n) => Numbers(m, n + 1)
<1> DEFINE m == <<n>> \o l
<1>1. m \in Seq(Nat) /\ Len(m) = 1 + Len(l)
  OBVIOUS
<1>2. m[1] = n /\ \A i \in 2 .. Len(m) : m[i] = l[i - 1]
  OBVIOUS
<1>3. Last0(m, n + 1) = Last0(l, n)
  <2>1. CASE l = <<>>
    BY <2>1, <1>1, <1>2 DEF Last0
  <2>2. CASE l # <<>>
    <3>1. Len(l) > 0 /\ Len(l) \in Nat
      BY <2>2
    <3>2. Len(m) \in 2 .. Len(m) /\ Len(m) - 1 = Len(l)
      BY <3>1, <1>1
    <3>3. m[Len(m)] = l[Len(l)]
      BY <3>2, <1>2, Zenon
    <3>. QED BY <3>1, <3>3, <2>2, <1>1 DEF Last0
  <2>. QED BY <2>1, <2>2, Zenon
<1>4. Numbers(l, n) => Numbers(m, n + 1)
  <2>1. SUFFICES ASSUME Numbers(l, n), NEW i \in 1 .. Len(m)
                 PROVE  Len(m) <= n + 1 /\ m[i] = n + 1 - i
    BY <1>1 DEF Numbers
  <2>2. CASE i = 1
    BY <2>1, <2>2, <1>1, <1>2 DEF Numbers
  <2>3. CASE i # 1
    <3>1. i \in 2 .. Len(m) /\ i - 1 \in 1 .. Len(l)
      BY <2>3, <1>1
    <3>. QED BY <2>1, <3>1, <1>1, <1>2 DEF Numbers
  <2>. QED BY <2>2, <2>3, Zenon
<1>. QED BY <1>1, <1>2, <1>3, <1>4

\* The reader takes the oldest message: the next one has the next number
\* (acctreadDone).
LEMMA ReadNumbers ==
    ASSUME NEW l \in Seq(Nat), NEW n \in Nat, l # <<>>, Numbers(l, n)
    PROVE  LET m == SubSeq(l, 1, Len(l) - 1)
           IN  /\ m \in Seq(Nat)
               /\ Numbers(m, n)
               /\ Last0(m, n) = Last0(l, n) + 1
<1> DEFINE m == SubSeq(l, 1, Len(l) - 1)
<1>1. Len(l) \in Nat /\ Len(l) > 0
  OBVIOUS
<1>2. m \in Seq(Nat) /\ Len(m) = Len(l) - 1 /\ \A i \in 1 .. Len(m) : m[i] = l[i]
  <2> DEFINE k == Len(l) - 1
  <2>1. k \in Nat /\ 1 \in Int /\ k \in Int /\ \A i \in 1 .. k : l[i] \in Nat
    BY <1>1
  <2> HIDE DEF k
  <2>2. /\ SubSeq(l, 1, k) \in Seq(Nat)
        /\ Len(SubSeq(l, 1, k)) = IF 1 <= k THEN k - 1 + 1 ELSE 0
        /\ \A i \in 1 .. k - 1 + 1 : SubSeq(l, 1, k)[i] = l[1 + i - 1]
    BY <2>1, SubSeqProperties
  <2>3. k - 1 + 1 = k /\ \A i \in 1 .. k : 1 + i - 1 = i
    BY <2>1
  <2>4. Len(SubSeq(l, 1, k)) = k
    BY <2>1, <2>2
  <2>. QED BY <2>2, <2>3, <2>4 DEF k
<1> HIDE DEF m
<1>3. Numbers(m, n)
  BY <1>1, <1>2 DEF Numbers
<1>4. l[Len(l)] = n - Len(l) /\ Len(l) <= n
  BY <1>1 DEF Numbers
<1>7. Last0(m, n) = Last0(l, n) + 1
  <2>1. CASE Len(l) = 1
    <3>1. m = <<>>
      BY <2>1, <1>2
    <3>. QED BY <3>1, <2>1, <1>4 DEF Last0
  <2>2. CASE Len(l) # 1
    <3>1. Len(m) \in 1 .. Len(m) /\ m # <<>>
      BY <2>2, <1>1, <1>2
    <3>2. m[Len(m)] = n - Len(m)
      BY <3>1, <1>3, Zenon DEF Numbers
    <3>. QED BY <3>1, <3>2, <1>1, <1>2, <1>4 DEF Last0
  <2>. QED BY <2>1, <2>2, Zenon
<1>. QED BY <1>2, <1>3, <1>7, Zenon DEF m

\* trktree_vnoderemove keeps the counter at or above the number of entries, and
\* of the hooks h changes only what they know of their entry.
LEMMA RemoveCounts ==
    ASSUME TypeOK, CountCovers, NEW h \in [Procs -> Hook], NEW v \in Files \cup {None},
           trktree_vnoderemove(v, h)
    PROVE  /\ trk' \in [Files -> Entry \cup {None}]
           /\ fcount' \in Nat /\ fcount' >= Cardinality(Tracked')
           /\ hook' \in [Procs -> Hook]
           /\ \A p \in Procs : hook'[p].pc = h[p].pc /\ hook'[p].wake = h[p].wake
<1>1. IsFiniteSet(Files) /\ None \notin Files
  BY AcctAssumption, Zenon
<1>2. Tracked \in SUBSET Files
  BY Zenon DEF Tracked
<1>3. IsFiniteSet(Tracked) /\ Cardinality(Tracked) \in Nat
  BY <1>1, <1>2, FS_Subset, FS_CardinalityType, Zenon
<1>4. fcount \in Nat /\ trk \in [Files -> Entry \cup {None}] /\ fcount >= Cardinality(Tracked)
  BY Zenon DEF TypeOK, AcctTypeOK, CountCovers
<1>5. CASE v \in Tracked
  <2>1. trk' = Cut({v}) /\ fcount' = fcount - 1 /\ hook' = Stale(h, {v})
    BY <1>5, Zenon DEF trktree_vnoderemove
  <2>2. Tracked' = Tracked \ {v}
    BY <2>1, <1>4, Zenon DEF Tracked, Cut
  <2>3. Cardinality(Tracked') = Cardinality(Tracked) - 1
    BY <2>2, <1>3, <1>5, FS_RemoveElement, Zenon
  <2>4. fcount' \in Nat /\ fcount' >= Cardinality(Tracked')
    <3>1. Cardinality(Tracked) # 0
      BY <1>3, <1>5, FS_EmptySet, Zenon
    <3>. QED BY <3>1, <2>1, <2>3, <1>3, <1>4
  <2>5. trk' \in [Files -> Entry \cup {None}]
    BY <2>1, <1>4, Zenon DEF Cut
  <2>6. /\ hook' \in [Procs -> Hook]
        /\ \A p \in Procs : hook'[p].pc = h[p].pc /\ hook'[p].wake = h[p].wake
    BY <2>1, ZenonT(40) DEF Stale, Hook
  <2>. QED BY <2>4, <2>5, <2>6, Zenon
<1>6. CASE v \notin Tracked
  BY <1>4, <1>6, Zenon DEF trktree_vnoderemove, Tracked
<1>. QED BY <1>5, <1>6, Zenon

\* A step that leaves the list, the counter and the reader alone, and the hooks
\* that are about to wake somebody up, only has to keep the rest in order.
LEMMA Frame ==
    ASSUME AcctInv, UNCHANGED <<list, ac_seq, rd, draining, raced, before>>,
           ena' \subseteq Feature, freed' \in BOOLEAN,
           trk' \in [Files -> Entry \cup {None}],
           fcount' \in Nat, fcount' >= Cardinality(Tracked'),
           hook' \in [Procs -> Hook],
           \A p \in Procs : hook[p].pc = "wakeup" /\ hook[p].wake =>
               hook'[p].pc = "wakeup" /\ hook'[p].wake,
           ses' \in [Users -> Session], OneUser', DrainingUser',
           \A u \in Users : ses'[u].pc = "watch" \/ ses[u].pc = "watch" => ses'[u] = ses[u]
    PROVE  AcctInv'
<1>1. CountCovers'
  BY Zenon DEF AcctInv, CountCovers, TypeOK, AcctTypeOK
<1>2. WatchInOrder'
  <2>1. Oldest' = Oldest /\ Numbered' = Numbered
    BY Zenon DEF Oldest, Numbered
  <2>. QED BY <2>1, Zenon DEF AcctInv, WatchInOrder
<1>3. NoLostWakeup'
  BY Zenon DEF AcctInv, NoLostWakeup
<1>. QED BY <1>1, <1>2, <1>3, Zenon DEF AcctInv

\* The tracker and the counter stay as they are.
LEMMA TrackerSame ==
    ASSUME AcctInv, UNCHANGED <<trk, fcount>>
    PROVE  /\ trk' \in [Files -> Entry \cup {None}]
           /\ fcount' \in Nat /\ fcount' >= Cardinality(Tracked')
BY Zenon DEF AcctInv, CountCovers, TypeOK, AcctTypeOK, Tracked

\* So do the sessions.
LEMMA SessionsSame ==
    ASSUME AcctInv, UNCHANGED <<ses, before, draining>>
    PROVE  /\ ses' \in [Users -> Session] /\ before' \in Nat /\ OneUser' /\ DrainingUser'
           /\ \A u \in Users : ses'[u].pc = "watch" \/ ses[u].pc = "watch" => ses'[u] = ses[u]
BY Zenon DEF AcctInv, CountCovers, TypeOK, OneUser, DrainingUser

\* A hook that begins: acct_fork, acct_exec, acct_exit, acct_open, acct_close,
\* acct_rename and acct_unlink up to their malloc.
LEMMA BeginInv ==
    ASSUME AcctInv, NEW p \in Procs, NEW k \in {"MSG", "GONE", "CLOSE"},
           NEW v \in Files \cup {None}, Begin(p, k, v),
           UNCHANGED <<ena, list, ac_seq, rd, draining, freed, raced, ses, before>>
    PROVE  AcctInv'
<1>1. hook \in [Procs -> Hook] /\ ena \subseteq Feature /\ freed \in BOOLEAN
  BY Zenon DEF AcctInv, CountCovers, TypeOK, AcctTypeOK
<1>2. hook' \in [Procs -> Hook]
  BY <1>1, Zenon DEF Begin, NoHook, Hook
<1>3. \A q \in Procs : hook[q].pc = "wakeup" /\ hook[q].wake =>
                           hook'[q].pc = "wakeup" /\ hook'[q].wake
  BY <1>1 DEF Begin, NoHook
<1>4. UNCHANGED <<trk, fcount>>
  BY Zenon DEF Begin
<1>. QED BY <1>1, <1>2, <1>3, <1>4, TrackerSame, SessionsSame, Frame, Zenon

\* acct_rename and acct_unlink of a file whose events are not audited.
LEMMA GoneInv ==
    ASSUME AcctInv, NEW v \in Files, trktree_vnoderemove(v, hook),
           UNCHANGED <<ena, list, ac_seq, rd, draining, freed, raced, ses, before>>
    PROVE  AcctInv'
<1>1. hook \in [Procs -> Hook] /\ ena \subseteq Feature /\ freed \in BOOLEAN
  BY Zenon DEF AcctInv, CountCovers, TypeOK, AcctTypeOK
<1>2. /\ trk' \in [Files -> Entry \cup {None}]
      /\ fcount' \in Nat /\ fcount' >= Cardinality(Tracked')
      /\ hook' \in [Procs -> Hook]
      /\ \A p \in Procs : hook'[p].pc = hook[p].pc /\ hook'[p].wake = hook[p].wake
  BY <1>1, RemoveCounts, Zenon DEF AcctInv, CountCovers
<1>. QED BY <1>1, <1>2, SessionsSame, Frame, Zenon

\* acct_void after the malloc, and the test of the list in the close hook.
LEMMA FillInv ==
    ASSUME AcctInv, NEW p \in Procs, Fill(p) \/ CloseTest(p), UNCHANGED <<ses, before>>
    PROVE  AcctInv'
<1>1. hook \in [Procs -> Hook] /\ ena \subseteq Feature /\ freed \in BOOLEAN
  BY Zenon DEF AcctInv, CountCovers, TypeOK, AcctTypeOK
<1>2. hook' \in [Procs -> Hook]
  <2>1. CASE Fill(p)
    BY <1>1, <2>1 DEF Fill, Hook
  <2>2. CASE CloseTest(p)
    <3>1. PICK b \in BOOLEAN : hook' = [hook EXCEPT ![p].pc = "insert", ![p].wake = b]
      BY <2>2, Zenon DEF CloseTest
    <3>. QED BY <1>1, <3>1, ZenonT(40) DEF Hook
  <2>. QED BY <2>1, <2>2, Zenon
<1>5. freed' \in BOOLEAN
  BY <1>1, Zenon DEF Fill, CloseTest
<1>3. \A q \in Procs : hook[q].pc = "wakeup" /\ hook[q].wake =>
                           hook'[q].pc = "wakeup" /\ hook'[q].wake
  BY <1>1, Zenon DEF Fill, CloseTest
<1>4. UNCHANGED <<ena, trk, fcount, list, ac_seq, rd, draining, raced>>
  BY Zenon DEF Fill, CloseTest
<1>. QED BY <1>1, <1>2, <1>3, <1>4, <1>5, TrackerSame, SessionsSame, Frame, Zenon

\* What an insertion does to the list, the counter and what watch reads next.
LEMMA InsertList ==
    ASSUME AcctInv, Insert
    PROVE  /\ list' \in Seq(Nat) /\ list' # <<>> /\ ac_seq' \in Nat
           /\ Oldest' = Oldest
           /\ Numbered => Numbered'
<1>1. list \in Seq(Nat) /\ ac_seq \in Nat
  BY Zenon DEF AcctInv, CountCovers, TypeOK, AcctTypeOK
<1>2. list' = <<ac_seq>> \o list /\ ac_seq' = ac_seq + 1
  BY Zenon DEF Insert
<1>3. /\ list' \in Seq(Nat) /\ list' # <<>>
      /\ Last0(list', ac_seq') = Last0(list, ac_seq)
      /\ Numbers(list, ac_seq) => Numbers(list', ac_seq')
  BY <1>1, <1>2, InsertNumbers, Zenon
<1>. QED BY <1>1, <1>2, <1>3 DEF Numbers, Numbered, Last0, Oldest

\* add_node under the kernel lock wakes a reader that found the list empty.
LEMMA AddNodeInv ==
    ASSUME AcctInv, NEW p \in Procs, add_node(p), UNCHANGED <<ses, before>>
    PROVE  AcctInv'
<1> DEFINE h == [hook EXCEPT ![p] = NoHook]
<1>1. /\ hook \in [Procs -> Hook] /\ ena \subseteq Feature /\ freed \in BOOLEAN
      /\ rd \in {"out", "asleep", "woken", "copying"} /\ raced \in BOOLEAN /\ draining \in BOOLEAN
  BY Zenon DEF AcctInv, CountCovers, TypeOK, AcctTypeOK
<1>2. Insert /\ wakeup(list = <<>>) /\ UNCHANGED <<ena, draining, raced>> /\ hook[p].pc = "make_node"
  BY Zenon DEF add_node
<1>3. h \in [Procs -> Hook]
  BY <1>1, Zenon DEF NoHook, Hook
<1>4. /\ trk' \in [Files -> Entry \cup {None}]
      /\ fcount' \in Nat /\ fcount' >= Cardinality(Tracked')
      /\ hook' \in [Procs -> Hook]
      /\ \A q \in Procs : hook'[q].pc = h[q].pc /\ hook'[q].wake = h[q].wake
  <2>1. CASE hook[p].kind = "GONE"
    <3>1. hook[p].v \in Files \cup {None} /\ trktree_vnoderemove(hook[p].v, h)
      BY <1>1, <2>1, Zenon DEF add_node, Hook
    <3> HIDE DEF h
    <3>. QED BY <1>3, <3>1, RemoveCounts, Zenon DEF AcctInv, CountCovers
  <2>2. CASE hook[p].kind # "GONE"
    <3>1. hook' = h /\ UNCHANGED <<trk, fcount>>
      BY <2>2, Zenon DEF add_node
    <3>. QED BY <3>1, <1>3, TrackerSame, Zenon
  <2>. QED BY <2>1, <2>2, Zenon
<1>5. freed' \in BOOLEAN
  BY <1>1, Zenon DEF add_node
<1>6. CountCovers'
  <2>1. rd' \in {"out", "asleep", "woken", "copying"}
    BY <1>1, <1>2, Zenon DEF wakeup
  <2>. QED BY <2>1, <1>1, <1>2, <1>4, <1>5, InsertList, SessionsSame, Zenon
       DEF CountCovers, TypeOK, AcctTypeOK
<1>7. WatchInOrder'
  <2>1. rd' # "out" => rd # "out"
    BY <1>1, <1>2, Zenon DEF wakeup
  <2>. QED BY <2>1, <1>2, InsertList, Zenon DEF AcctInv, WatchInOrder
<1>8. NoLostWakeup'
  <2>1. SUFFICES ASSUME ~raced', rd' = "asleep"
                 PROVE  \E q \in Procs : hook'[q].pc = "wakeup" /\ hook'[q].wake
    BY Zenon DEF NoLostWakeup
  <2>2. rd = "asleep" /\ list # <<>>
    BY <2>1, <1>1, <1>2, Zenon DEF wakeup
  <2>3. PICK q \in Procs : hook[q].pc = "wakeup" /\ hook[q].wake
    BY <2>1, <2>2, <1>2, Zenon DEF AcctInv, NoLostWakeup
  <2>4. q # p /\ h[q] = hook[q]
    BY <1>1, <1>2, <2>3, Zenon
  <2>. QED BY <2>3, <2>4, <1>4, Zenon
<1>. QED BY <1>2, <1>6, <1>7, <1>8, SessionsSame, Zenon DEF AcctInv

\* The insertion by a close hook: the hook itself is the wake-up to come, or a
\* reader has come in between (raced).
LEMMA CloseInsertInv ==
    ASSUME AcctInv, NEW p \in Procs, CloseInsert(p), UNCHANGED <<ses, before>>
    PROVE  AcctInv'
<1>1. /\ hook \in [Procs -> Hook] /\ raced \in BOOLEAN
  BY Zenon DEF AcctInv, CountCovers, TypeOK, AcctTypeOK
<1>2. /\ Insert /\ hook[p].pc = "insert"
      /\ hook' = [hook EXCEPT ![p].pc = "wakeup"]
      /\ raced' = (raced \/ (list = <<>> /\ ~hook[p].wake))
      /\ UNCHANGED <<ena, fcount, trk, rd, draining, freed>>
  BY Zenon DEF CloseInsert
<1>3. raced' \in BOOLEAN
  BY <1>2, Zenon
<1>4. CountCovers'
  <2>1. hook' \in [Procs -> Hook]
    BY <1>1, <1>2 DEF Hook
  <2>. QED BY <2>1, <1>2, <1>3, InsertList, TrackerSame, SessionsSame, Zenon
       DEF AcctInv, CountCovers, TypeOK, AcctTypeOK
<1>5. WatchInOrder'
  BY <1>2, InsertList, Zenon DEF AcctInv, WatchInOrder
<1>6. NoLostWakeup'
  <2>1. SUFFICES ASSUME ~raced', rd' = "asleep"
                 PROVE  \E q \in Procs : hook'[q].pc = "wakeup" /\ hook'[q].wake
    BY DEF NoLostWakeup
  <2>2. CASE list = <<>>
    <3>1. hook[p].wake
      BY <2>1, <2>2, <1>2, Zenon
    <3>. QED BY <3>1, <1>1, <1>2
  <2>3. CASE list # <<>>
    <3>1. PICK q \in Procs : hook[q].pc = "wakeup" /\ hook[q].wake
      BY <2>1, <2>3, <1>2, Zenon DEF AcctInv, NoLostWakeup
    <3>. QED BY <3>1, <1>1, <1>2, Zenon
  <2>. QED BY <2>2, <2>3, Zenon
<1>. QED BY <1>2, <1>4, <1>5, <1>6, SessionsSame, Zenon DEF AcctInv

\* The wake-up of a close hook: whoever sleeps beside a message is woken, or
\* another hook will do it.
LEMMA CloseWakeInv ==
    ASSUME AcctInv, NEW p \in Procs, CloseWake(p), UNCHANGED <<ses, before>>
    PROVE  AcctInv'
<1>1. hook \in [Procs -> Hook] /\ rd \in {"out", "asleep", "woken", "copying"}
  BY Zenon DEF AcctInv, CountCovers, TypeOK, AcctTypeOK
<1>2. /\ hook[p].pc = "wakeup" /\ wakeup(hook[p].wake)
      /\ hook' = [hook EXCEPT ![p] = NoHook]
      /\ UNCHANGED <<ena, fcount, trk, list, ac_seq, draining, freed, raced>>
  BY Zenon DEF CloseWake
<1>3. rd' \in {"out", "asleep", "woken", "copying"} /\ hook' \in [Procs -> Hook]
  BY <1>1, <1>2, Zenon DEF wakeup, Hook, NoHook
<1>4. CountCovers'
  BY <1>2, <1>3, TrackerSame, SessionsSame, Zenon DEF AcctInv, CountCovers, TypeOK, AcctTypeOK
<1>5. WatchInOrder'
  <2>1. (rd' # "out" => rd # "out") /\ (rd' = "copying" => rd = "copying")
    BY <1>1, <1>2, Zenon DEF wakeup
  <2>2. Oldest' = Oldest /\ Numbered' = Numbered
    BY <1>2, Zenon DEF Oldest, Numbered
  <2>. QED BY <2>1, <2>2, <1>2, Zenon DEF AcctInv, WatchInOrder
<1>6. NoLostWakeup'
  <2>1. SUFFICES ASSUME ~raced', rd' = "asleep", list' # <<>>
                 PROVE  \E q \in Procs : hook'[q].pc = "wakeup" /\ hook'[q].wake
    BY Zenon DEF NoLostWakeup
  <2>2. rd = "asleep" /\ ~hook[p].wake
    BY <2>1, <1>1, <1>2, Zenon DEF wakeup
  <2>3. PICK q \in Procs : hook[q].pc = "wakeup" /\ hook[q].wake
    BY <2>1, <2>2, <1>2, Zenon DEF AcctInv, NoLostWakeup
  <2>. QED BY <2>2, <2>3, <1>1, <1>2, Zenon
<1>. QED BY <1>2, <1>4, <1>5, <1>6, SessionsSame, Zenon DEF AcctInv

\* Opening the device, and getting the lock that O_EXLOCK waits for.
LEMMA OpenInv ==
    ASSUME AcctInv, ~draining, NEW u \in Users, acctopen(u) \/ Locked(u)
    PROVE  AcctInv'
<1>1. /\ ses \in [Users -> Session] /\ UNCHANGED acctVars
      /\ ac_seq \in Nat /\ list \in Seq(Nat) /\ before \in Nat /\ UNCHANGED before
  BY Zenon DEF AcctInv, CountCovers, TypeOK, AcctTypeOK, acctopen, Locked, Goto
<1>2. Oldest \in Nat /\ Oldest' = Oldest /\ Numbered' = Numbered
  BY <1>1 DEF Oldest, Numbered, acctVars
<1>3. /\ ses' \in [Users -> Session]
      /\ \A w \in Users : ses'[w].pc = "drain" <=> ses[w].pc = "drain"
      /\ \A w \in Users : ses'[w].pc = "watch" =>
             ses'[w] = ses[w] \/ (ses'[w].seq = 0 /\ \A x \in Users : ses[x].pc # "watch")
      /\ \A w \in Users : ses[w].pc = "watch" => ses'[w].pc = "watch"
      /\ OneUser'
  <2>1. CASE acctopen(u)
    BY <2>1, <1>1 DEF acctopen, Goto, Session, AcctInv, OneUser
  <2>2. CASE Locked(u) /\ Goto(u, "cmd")
    BY <2>2, <1>1, SMTT(40) DEF Locked, LockFree, Goto, Session, OneUser
  <2>3. CASE Locked(u) /\ ses' = [ses EXCEPT ![u] = [pc |-> "watch", seq |-> 0]]
    BY <2>3, <1>1, <1>2, Zenon DEF Locked, LockFree, Session, OneUser
  <2>. QED BY <2>1, <2>2, <2>3, Zenon DEF Locked
<1>4. CountCovers'
  BY <1>1, <1>3, Zenon DEF AcctInv, CountCovers, TypeOK, AcctTypeOK, acctVars, Tracked
<1>7. DrainingUser'
  BY <1>1, <1>3, Zenon DEF AcctInv, DrainingUser, acctVars
<1>8. WatchInOrder'
  <2>1. \A w \in Users : ses'[w].pc = "watch" => raced \/ Oldest = before + ses'[w].seq
    <3>1. SUFFICES ASSUME NEW w \in Users, ses'[w].pc = "watch", ~raced
                   PROVE  Oldest = before + ses'[w].seq
      BY Zenon
    <3>2. CASE ses'[w] = ses[w]
      BY <3>1, <3>2, Zenon DEF AcctInv, WatchInOrder
    <3>3. CASE ses'[w].seq = 0 /\ \A x \in Users : ses[x].pc # "watch"
      <4>1. Oldest = before
        BY <3>1, <3>3, Zenon DEF AcctInv, WatchInOrder
      <4>. QED BY <4>1, <3>3, <1>1
    <3>. QED BY <3>1, <3>2, <3>3, <1>3, Zenon
  <2>. QED BY <2>1, <1>1, <1>2, <1>3, Zenon DEF AcctInv, WatchInOrder, acctVars
<1>9. NoLostWakeup'
  BY <1>1, Zenon DEF AcctInv, NoLostWakeup, acctVars
<1>. QED BY <1>3, <1>4, <1>7, <1>8, <1>9, Zenon DEF AcctInv

\* A command leaves the device with the lock still its own.
LEMMA LeaveSessions ==
    ASSUME AcctInv, NEW u \in Users, ses[u].pc \in {"cmd", "watch"}, UNCHANGED draining,
           \/ ses' = [ses EXCEPT ![u] = [NoSes EXCEPT !.pc = "close"]]
           \/ ses' = [ses EXCEPT ![u].pc = "close"]
    PROVE  /\ ses' \in [Users -> Session] /\ OneUser' /\ DrainingUser'
           /\ \A w \in Users : ses'[w].pc # "watch"
           /\ \A w \in Users : ses[w].pc = "watch" => w = u
<1>1. ses \in [Users -> Session]
  BY Zenon DEF AcctInv, CountCovers, TypeOK
<1>2. ses' \in [Users -> Session]
  <2>1. ses[u] \in Session /\ 0 \in Nat
    BY <1>1
  <2>2. [NoSes EXCEPT !.pc = "close"] \in Session /\ [ses[u] EXCEPT !.pc = "close"] \in Session
    BY <2>1, Zenon DEF NoSes, Session
  <2>. QED BY <1>1, <2>2, Zenon
<1>3. \A w \in Users : ses[w].pc \notin {"out", "wait"} => w = u
  BY Zenon DEF AcctInv, OneUser
<1>4. /\ ses'[u].pc = "close"
      /\ \A w \in Users \ {u} : ses'[w] = ses[w]
  BY <1>1, Zenon DEF NoSes, Session
<1>. QED BY <1>2, <1>3, <1>4, Zenon DEF AcctInv, OneUser, DrainingUser

\* The ioctls: status, enable, disable, track and untrack.
LEMMA CommandInv ==
    ASSUME AcctInv, ~draining, NEW u \in Users, Command(u)
    PROVE  AcctInv'
<1>1. /\ hook \in [Procs -> Hook] /\ ena \subseteq Feature /\ freed \in BOOLEAN
      /\ trk \in [Files -> Entry \cup {None}] /\ fcount \in Nat
      /\ fcount >= Cardinality(Tracked)
  BY Zenon DEF AcctInv, CountCovers, TypeOK, AcctTypeOK
<1>2. IsFiniteSet(Files) /\ None \notin Files /\ None \notin Entry /\ Enas \subseteq SUBSET Feature
      /\ Conds \subseteq SUBSET Bit
  BY AcctAssumption, Zenon
<1>3. IsFiniteSet(Tracked) /\ Cardinality(Tracked) \in Nat
  BY <1>2, FS_Subset, FS_CardinalityType, Zenon DEF Tracked
<1>4. /\ UNCHANGED <<list, ac_seq, rd, draining, raced, freed>>
      /\ ena' \subseteq Feature
      /\ trk' \in [Files -> Entry \cup {None}]
      /\ fcount' \in Nat /\ fcount' >= Cardinality(Tracked')
      /\ hook' \in [Procs -> Hook]
      /\ \A p \in Procs : hook'[p].pc = hook[p].pc /\ hook'[p].wake = hook[p].wake
  <2>1. CASE cmd_status
    BY <2>1, <1>1, TrackerSame, Zenon DEF cmd_status, acctVars
  <2>2. CASE cmd_enable
    <3>1. PICK m \in Enas : ACCT_IOC_ENABLE(m)
      BY <2>2, Zenon DEF cmd_enable
    <3>. QED BY <3>1, <1>1, <1>2, TrackerSame, Zenon DEF ACCT_IOC_ENABLE
  <2>3. CASE cmd_disable
    <3>1. PICK m \in Enas : ACCT_IOC_DISABLE(m)
      BY <2>3 DEF cmd_disable
    <3>2. trk' = Cut(Files) /\ hook' = Stale(hook, Files)
      BY <3>1, Zenon DEF ACCT_IOC_DISABLE, trktree_delete_vnodes
    <3>3. trk' \in [Files -> Entry \cup {None}] /\ Tracked' = {}
      BY <3>2, Zenon DEF Cut, Tracked
    <3>4. fcount' >= Cardinality(Tracked') /\ fcount' \in Nat
      BY <3>1, <3>3, <1>1, FS_EmptySet DEF ACCT_IOC_DISABLE
    <3>5. /\ hook' \in [Procs -> Hook]
          /\ \A p \in Procs : hook'[p].pc = hook[p].pc /\ hook'[p].wake = hook[p].wake
      BY <3>2, <1>1, ZenonT(40) DEF Stale, Hook
    <3>. QED BY <3>1, <3>3, <3>4, <3>5, <1>1, Zenon DEF ACCT_IOC_DISABLE
  <2>4. CASE cmd_track
    <3>1. PICK v \in Files \cup {None}, m \in Enas, c \in Conds : ACCT_IOC_TRACK_FILE(v, m, c)
      BY <2>4, Zenon DEF cmd_track, path_to_vnode
    <3>2. CASE v = None
      BY <3>1, <3>2, <1>1, TrackerSame, Zenon DEF ACCT_IOC_TRACK_FILE, trktree_add_path
    <3>3. CASE v \in Files
      <4> DEFINE n == trktree_add_vnode(v)
                 e == [ena |-> n.ena \cup (m \cap F_ENA), cond |-> n.cond \cup c]
      <4>1. n \in Entry
        BY <3>3, <1>1, Zenon DEF trktree_add_vnode, trkvnode_new, Entry, Tracked
      <4>2. e \in Entry
        BY <4>1, <1>2, Zenon DEF Entry
      <4>3. trk' = [trk EXCEPT ![v] = e] /\ fcount' = IF v \in Tracked THEN fcount ELSE fcount + 1
        BY <3>1, <3>3, <1>2, Zenon DEF ACCT_IOC_TRACK_FILE, trktree_add_path
      <4> HIDE DEF n, e
      <4>4. trk' \in [Files -> Entry \cup {None}] /\ e # None
        BY <4>2, <4>3, <3>3, <1>1, <1>2, Zenon
      <4>5. Tracked' = Tracked \cup {v}
        BY <4>3, <4>4, <3>3, <1>1, Zenon DEF Tracked
      <4>6. Cardinality(Tracked') = IF v \in Tracked THEN Cardinality(Tracked)
                                    ELSE Cardinality(Tracked) + 1
        BY <4>5, <1>3, FS_AddElement, Zenon
      <4>7. fcount' \in Nat /\ fcount' >= Cardinality(Tracked')
        BY <4>3, <4>6, <1>1, <1>3
      <4>. QED BY <4>4, <4>7, <3>1, <1>1, Zenon DEF ACCT_IOC_TRACK_FILE
    <3>. QED BY <3>2, <3>3, Zenon
  <2>5. CASE cmd_untrack
    <3>1. PICK v \in Files \cup {None} : ACCT_IOC_UNTRACK_FILE(v)
      BY <2>5, Zenon DEF cmd_untrack, path_to_vnode
    <3>2. CASE v = None
      BY <3>1, <3>2, <1>1, TrackerSame, Zenon DEF ACCT_IOC_UNTRACK_FILE, trktree_pathremove
    <3>3. CASE v # None
      <4>1. trktree_vnoderemove(v, hook)
        BY <3>1, <3>3, Zenon DEF ACCT_IOC_UNTRACK_FILE, trktree_pathremove
      <4>. QED BY <4>1, <3>1, <1>1, RemoveCounts, Zenon
           DEF ACCT_IOC_UNTRACK_FILE, AcctInv, CountCovers
    <3>. QED BY <3>2, <3>3, Zenon
  <2>. QED BY <2>1, <2>2, <2>3, <2>4, <2>5, Zenon DEF Command
<1>5. ses[u].pc = "cmd" /\ ses' = [ses EXCEPT ![u].pc = "close"] /\ UNCHANGED before
  BY Zenon DEF Command, Goto
<1>6. \A w \in Users : ses[w].pc # "watch"
  BY <1>5, Zenon DEF AcctInv, OneUser
<1>. QED BY <1>1, <1>4, <1>5, <1>6, LeaveSessions, Frame, Zenon

\* The steps of acctread that leave the list alone and keep watch going.
LEMMA LookInv ==
    ASSUME AcctInv, NEW u \in Users, ses[u].pc = "watch", acctread \/ acctreadWoken, UNCHANGED <<ses, before>>
    PROVE  AcctInv'
<1>1. Look /\ UNCHANGED list /\ UnchangedByRead
  BY Zenon DEF acctread, acctreadWoken
<1>2. CountCovers'
  BY <1>1, TrackerSame, SessionsSame, Zenon
  DEF AcctInv, CountCovers, TypeOK, AcctTypeOK, Look, UnchangedByRead
<1>3. Oldest' = Oldest /\ Numbered' = Numbered
  BY <1>1, Zenon DEF Oldest, Numbered, UnchangedByRead
<1>4. WatchInOrder'
  BY <1>1, <1>3, Zenon DEF AcctInv, WatchInOrder, Look, UnchangedByRead
<1>5. NoLostWakeup'
  BY <1>1, Zenon DEF AcctInv, NoLostWakeup, Look, UnchangedByRead
<1>. QED BY <1>1, <1>2, <1>4, <1>5, SessionsSame, Zenon DEF AcctInv, UnchangedByRead

\* A message is read: watch counts it, and the next one has the next number.
LEMMA DoneInv ==
    ASSUME AcctInv, ~draining, NEW u \in Users, ses[u].pc = "watch", acctreadDone,
           ses' = [ses EXCEPT ![u].seq = @ + 1], UNCHANGED before
    PROVE  AcctInv'
<1>1. list \in Seq(Nat) /\ ac_seq \in Nat /\ ses \in [Users -> Session] /\ before \in Nat
  BY Zenon DEF AcctInv, CountCovers, TypeOK, AcctTypeOK
<1>2. /\ list # <<>> /\ rd' = "out"
      /\ list' = SubSeq(list, 1, Len(list) - 1) /\ UnchangedByRead
  BY Zenon DEF acctreadDone, AcctInv, WatchInOrder
<1>3. /\ ses' \in [Users -> Session]
      /\ ses'[u] = [ses[u] EXCEPT !.seq = @ + 1]
      /\ \A w \in Users : ses'[w].pc = ses[w].pc
      /\ \A w \in Users \ {u} : ses'[w] = ses[w]
  BY <1>1 DEF Session
<1>4. OneUser' /\ DrainingUser'
  BY <1>2, <1>3, Zenon DEF AcctInv, OneUser, DrainingUser, UnchangedByRead
<1>5. \A w \in Users : ses[w].pc = "watch" => w = u
  BY Zenon DEF AcctInv, OneUser
<1>6. list' \in Seq(Nat)
  <2>1. Len(list) - 1 \in Nat /\ \A i \in 1 .. Len(list) - 1 : list[i] \in Nat
    BY <1>1, <1>2
  <2>. QED BY <2>1, <1>2, SubSeqProperties
<1>7. CountCovers'
  BY <1>1, <1>2, <1>3, <1>6, TrackerSame, Zenon
  DEF AcctInv, CountCovers, TypeOK, AcctTypeOK, UnchangedByRead
<1>8. WatchInOrder'
  <2>1. SUFFICES ASSUME ~raced PROVE Numbered' /\ Oldest' = before + ses'[u].seq
    BY <1>2, <1>3, <1>5, Zenon DEF WatchInOrder, UnchangedByRead
  <2>2. Numbers(list, ac_seq) /\ Last0(list, ac_seq) = before + ses[u].seq
    BY <2>1, Zenon DEF AcctInv, WatchInOrder, Numbers, Numbered, Last0, Oldest
  <2>3. Numbers(list', ac_seq') /\ Last0(list', ac_seq') = Last0(list, ac_seq) + 1
    BY <2>2, <1>1, <1>2, ReadNumbers, Zenon DEF UnchangedByRead
  <2>4. Numbered' /\ Oldest' = Oldest + 1
    BY <2>3, Zenon DEF Numbers, Numbered, Last0, Oldest
  <2>5. Oldest = before + ses[u].seq
    BY <2>2, Zenon DEF Last0, Oldest
  <2>. QED BY <2>4, <2>5, <1>1, <1>3 DEF Session
<1>9. NoLostWakeup'
  BY <1>2, Zenon DEF NoLostWakeup
<1>. QED BY <1>4, <1>7, <1>8, <1>9, Zenon DEF AcctInv

\* A read that fails, or is refused, ends watch; nobody is left in acctread.
LEMMA WatchEndsInv ==
    ASSUME AcctInv, ~draining, NEW u \in Users, ses[u].pc = "watch", Leave(u),
           \/ rd = "out" /\ UNCHANGED acctVars
           \/ acctreadSignal \/ acctreadFail
    PROVE  AcctInv'
<1>1. /\ rd' = "out"
      /\ UNCHANGED <<ena, fcount, trk, list, ac_seq, draining, hook, freed, raced>>
  BY Zenon DEF acctVars, acctreadSignal, acctreadFail, UnchangedByRead
<1>2. /\ ses' \in [Users -> Session] /\ OneUser' /\ DrainingUser'
      /\ \A w \in Users : ses'[w].pc # "watch"
  BY <1>1, LeaveSessions, Zenon DEF Leave
<1>6. before' = before + ses[u].seq /\ before' \in Nat
  <2>1. before \in Nat /\ ses[u].seq \in Nat
    BY Zenon DEF AcctInv, CountCovers, TypeOK, Session
  <2>. QED BY <2>1 DEF Leave
<1>3. CountCovers'
  BY <1>1, <1>2, <1>6, TrackerSame, Zenon DEF AcctInv, CountCovers, TypeOK, AcctTypeOK
<1>4. WatchInOrder'
  <2>1. Numbered' = Numbered /\ Oldest' = Oldest
    BY <1>1, Zenon DEF Numbered, Oldest
  <2>2. raced \/ Oldest = before'
    BY <1>6, Zenon DEF AcctInv, WatchInOrder
  <2>. QED BY <2>1, <2>2, <1>1, <1>2, Zenon DEF AcctInv, WatchInOrder
<1>5. NoLostWakeup'
  BY <1>1, Zenon DEF NoLostWakeup
<1>. QED BY <1>2, <1>3, <1>4, <1>5, Zenon DEF AcctInv

\* The last close empties the list: nobody is reading from it.
LEMMA CloseInv ==
    ASSUME AcctInv, ~draining, NEW u \in Users, Close(u)
    PROVE  AcctInv'
<1>1. ses \in [Users -> Session] /\ ses[u].pc = "close"
  BY Zenon DEF AcctInv, CountCovers, TypeOK, Close
<1>2. \A w \in Users : ses[w].pc \notin {"out", "wait"} => w = u
  BY <1>1, Zenon DEF AcctInv, OneUser
<1>3. rd = "out"
  BY <1>1, <1>2, Zenon DEF AcctInv, WatchInOrder
<1>4. CASE Goto(u, "drain") /\ acctclose
  <2>1. /\ list' = <<>> /\ draining'
        /\ UNCHANGED <<ena, fcount, trk, ac_seq, rd, hook, freed, raced, before>>
        /\ ses' \in [Users -> Session]
        /\ \A w \in Users : ses'[w].pc = IF w = u THEN "drain" ELSE ses[w].pc
    BY <1>1, <1>4, Zenon DEF Goto, acctclose, Session
  <2>2. OneUser' /\ DrainingUser'
    BY <2>1, <1>2, Zenon DEF OneUser, DrainingUser
  <2>3. <<>> \in Seq(Nat) /\ draining' \in BOOLEAN
    BY <1>4 DEF acctclose
  <2>4. CountCovers'
    BY <2>1, <2>3, TrackerSame, Zenon DEF AcctInv, CountCovers, TypeOK, AcctTypeOK
  <2>5. WatchInOrder' /\ NoLostWakeup'
    BY <2>1, <1>1, <1>2, <1>3, Zenon DEF WatchInOrder, NoLostWakeup
  <2>. QED BY <2>2, <2>4, <2>5, Zenon DEF AcctInv
<1>5. CASE ses' = [ses EXCEPT ![u] = NoSes] /\ UNCHANGED <<acctVars, before>>
  <2>1. /\ ses' \in [Users -> Session]
        /\ \A w \in Users : ses'[w].pc = IF w = u THEN "out" ELSE ses[w].pc
    BY <1>1, <1>5, Zenon DEF NoSes, Session
  <2>2. OneUser' /\ DrainingUser'
    BY <2>1, <1>1, <1>2, <1>5, Zenon DEF OneUser, DrainingUser, AcctInv, acctVars
  <2>3. CountCovers'
    BY <2>1, <1>5, TrackerSame, Zenon DEF AcctInv, CountCovers, TypeOK, AcctTypeOK, acctVars
  <2>4. WatchInOrder' /\ NoLostWakeup'
    <3>1. Numbered' = Numbered /\ Oldest' = Oldest
      BY <1>5, Zenon DEF Numbered, Oldest, acctVars
    <3>2. \A w \in Users : ses'[w].pc # "watch"
      BY <2>1, <1>1, <1>2, Zenon
    <3>3. \A w \in Users : ses[w].pc # "watch"
      BY <1>1, <1>2, Zenon
    <3>. QED BY <3>1, <3>2, <3>3, <1>3, <1>5, Zenon
         DEF AcctInv, WatchInOrder, NoLostWakeup, acctVars
  <2>. QED BY <2>2, <2>3, <2>4 DEF AcctInv
<1>. QED BY <1>4, <1>5, Zenon DEF Close

\* The second half of the last close: the counter starts again at 0.
LEMMA DrainedInv ==
    ASSUME AcctInv, NEW u \in Users, Drained(u)
    PROVE  AcctInv'
<1>1. ses \in [Users -> Session] /\ ses[u].pc = "drain" /\ list \in Seq(Nat)
  BY Zenon DEF AcctInv, CountCovers, TypeOK, AcctTypeOK, Drained
<1>2. \A w \in Users : ses[w].pc \notin {"out", "wait"} => w = u
  BY <1>1, Zenon DEF AcctInv, OneUser
<1>3. rd = "out"
  BY <1>1, <1>2, Zenon DEF AcctInv, WatchInOrder
<1>4. /\ ~draining' /\ ac_seq' = 0 /\ raced' = (list # <<>>)
      /\ UNCHANGED <<ena, fcount, trk, list, rd, hook, freed>>
      /\ ses' = [ses EXCEPT ![u] = NoSes] /\ before' = 0
  BY Zenon DEF Drained, ac_seq_reset
<1>5. /\ ses' \in [Users -> Session]
      /\ \A w \in Users : ses'[w].pc = IF w = u THEN "out" ELSE ses[w].pc
  BY <1>1, <1>4, Zenon DEF NoSes, Session
<1>6. OneUser' /\ DrainingUser'
  BY <1>1, <1>2, <1>4, <1>5, Zenon DEF OneUser, DrainingUser
<1>7. draining' \in BOOLEAN /\ raced' \in BOOLEAN /\ 0 \in Nat
  BY DEF Drained, ac_seq_reset
<1>8. CountCovers'
  BY <1>4, <1>5, <1>7, TrackerSame, Zenon DEF AcctInv, CountCovers, TypeOK, AcctTypeOK
<1>9. WatchInOrder' /\ NoLostWakeup'
  <2>1. raced' \/ (Numbered' /\ Oldest' = before')
    <3>1. CASE list = <<>>
      <4>1. list' = <<>> /\ Len(list') = 0
        BY <3>1, <1>4, Zenon
      <4>. QED BY <4>1, <1>4 DEF Numbered, Oldest
    <3>2. CASE list # <<>>
      BY <3>2, <1>4, Zenon
    <3>. QED BY <3>1, <3>2, Zenon
  <2>2. \A w \in Users : ses'[w].pc # "watch"
    BY <1>1, <1>2, <1>5, Zenon
  <2>. QED BY <2>1, <2>2, <1>3, <1>4, Zenon DEF WatchInOrder, NoLostWakeup
<1>. QED BY <1>6, <1>8, <1>9, Zenon DEF AcctInv

\* After acctattach, with nobody at the device.
LEMMA AcctInitInv == Init => AcctInv
<1> SUFFICES ASSUME Init PROVE AcctInv
  BY Zenon
<1>1. ses = [u \in Users |-> NoSes] /\ list = <<>> /\ trk = [v \in Files |-> None]
      /\ hook = [p \in Procs |-> NoHook] /\ rd = "out" /\ fcount = 0 /\ ac_seq = 0 /\ before = 0
      /\ ena = {} /\ ~draining /\ draining \in BOOLEAN /\ freed \in BOOLEAN /\ raced \in BOOLEAN
  BY Zenon DEF Init, acctattach
<1>2. Tracked = {}
  BY <1>1, Zenon DEF Tracked
<1>3. list \in Seq(Nat) /\ NoHook \in Hook /\ NoSes \in Session
  BY <1>1 DEF NoHook, Hook, NoSes, Session
<1>4. CountCovers
  BY <1>1, <1>2, <1>3, FS_EmptySet DEF CountCovers, TypeOK, AcctTypeOK
<1>5. WatchInOrder
  BY <1>1 DEF WatchInOrder, Numbered, Oldest, NoSes
<1>. QED BY <1>1, <1>4, <1>5, Zenon DEF AcctInv, OneUser, DrainingUser, NoLostWakeup, NoSes

\* Every step of the hooks, the reader and the sessions.
LEMMA AcctNextInv == AcctInv /\ [Next]_vars => AcctInv'
<1> SUFFICES ASSUME AcctInv, [Next]_vars PROVE AcctInv'
  BY Zenon
<1>1. CASE \E u \in Users : User(u)
  <2>1. PICK u \in Users : User(u)
    BY <1>1, Zenon
  <2>2. CASE ~draining /\ cmd_watch(u)
    <3>1. ses[u].pc = "watch"
      BY <2>2, Zenon DEF cmd_watch
    <3>. QED BY <2>2, <3>1, LookInv, DoneInv, WatchEndsInv, Zenon DEF cmd_watch, ctlVars
  <2>. QED BY <2>1, <2>2, OpenInv, CommandInv, CloseInv, DrainedInv, Zenon DEF User
<1>2. CASE \E p \in Procs : LockedHook(p) /\ UNCHANGED ctlVars
  <2>1. PICK p \in Procs : LockedHook(p) /\ UNCHANGED <<ses, before>>
    BY <1>2, Zenon DEF ctlVars
  <2>2. CASE acct_fork(p) \/ acct_exec(p) \/ acct_exit(p)
    BY <2>1, <2>2, BeginInv, Zenon DEF acct_fork, acct_exec, acct_exit, ProcHook
  <2>3. CASE \E v \in Files : \E flags \in Opens : acct_open(p, v, flags)
    BY <2>1, <2>3, BeginInv, Zenon DEF acct_open
  <2>4. ASSUME NEW v \in Files, NEW k, GoneHook(p, k, v) PROVE AcctInv'
    BY <2>1, <2>4, BeginInv, GoneInv, Zenon DEF GoneHook
  <2>5. CASE Fill(p) \/ add_node(p)
    BY <2>1, <2>5, FillInv, AddNodeInv, Zenon
  <2>6. CASE \E v \in path_to_vnode : dorenameat(p, v) \/ dounlinkat(p, v)
    <3>1. PICK v \in path_to_vnode : v # None /\ (acct_rename(p, v) \/ acct_unlink(p, v))
      BY <2>6, Zenon DEF dorenameat, dounlinkat
    <3>2. v \in Files
      BY <3>1, Zenon DEF path_to_vnode
    <3>. QED BY <2>4, <3>1, <3>2, Zenon DEF acct_rename, acct_unlink
  <2>. QED BY <2>1, <2>2, <2>3, <2>5, <2>6, Zenon DEF LockedHook
<1>3. CASE \E p \in Procs : CloseHook(p) /\ UNCHANGED ctlVars
  <2>1. PICK p \in Procs : CloseHook(p) /\ UNCHANGED <<ses, before>>
    BY <1>3, Zenon DEF ctlVars
  <2>2. CASE \E v \in Files : acct_close(p, v)
    BY <2>1, <2>2, BeginInv, Zenon DEF acct_close
  <2>. QED BY <2>1, <2>2, FillInv, CloseInsertInv, CloseWakeInv, Zenon DEF CloseHook
<1>4. CASE UNCHANGED vars
  <2>1. UNCHANGED <<ena, fcount, trk, list, ac_seq, rd, draining, hook, freed, raced, ses, before>>
    BY <1>4, Zenon DEF vars, acctVars, ctlVars
  <2>. QED BY <2>1, TrackerSame, SessionsSame, Frame, Zenon
       DEF AcctInv, CountCovers, TypeOK, AcctTypeOK
<1>. QED BY <1>1, <1>2, <1>3, <1>4, Zenon DEF Next

\* AcctInv holds in every state of the driver and its users, for any sets of
\* processes, files, users and requests.
THEOREM AcctInvariant == Spec => []AcctInv
BY AcctInitInv, AcctNextInv, PTL DEF Spec

\* acct_fcount never falls below the number of tracked files and so never wraps,
\* in whatever order files are tracked, untracked, renamed, unlinked and dropped.
THEOREM CountNeverWraps == Spec => []CountCovers
<1>1. AcctInv => CountCovers
  BY Zenon DEF AcctInv
<1>. QED BY <1>1, AcctInvariant, PTL

\* What watch reads next has the number of the messages read since the last close:
\* cmd_watch reports "events dropped" only after another process has read.
THEOREM WatchReadsInOrder == Spec => []WatchInOrder
<1>1. AcctInv => WatchInOrder
  BY Zenon DEF AcctInv
<1>. QED BY <1>1, AcctInvariant, PTL

\* Nobody sleeps in acctread beside a message without a wake-up to come, as long
\* as no close hook has met the reader between its test and its insertion.
THEOREM NoWakeupLost == Spec => []NoLostWakeup
<1>1. AcctInv => NoLostWakeup
  BY Zenon DEF AcctInv
<1>. QED BY <1>1, AcctInvariant, PTL
=============================================================================
