---------------------------- MODULE RHandleServ ----------------------------
(***************************************************************************)
(* The RUSHB server (RUSHBSvr.c, RHandleServ.h): one main thread that      *)
(* alternates a retransmission scan with one recvfrom, and one detached    *)
(* csock_send thread for every packet it sends.  The lock of a port is     *)
(* taken by the main thread and handed to the csock_send thread, which     *)
(* releases it; the flags active[ONA] and active[CLR] and the time stamps  *)
(* are also read and written without it.                                   *)
(***************************************************************************)
EXTENDS RProcess, RNet

CONSTANTS
    Threads,        \* identities for csock_send threads
    AddrOf,         \* the IP address of a port
    MAX_TIMEOUT,    \* idle seconds before curr is sent again
    DEAD_TIMEOUT    \* silent seconds before a connection is given up

ASSUME ServAssumption ==
    /\ MAX_TIMEOUT \in Nat /\ DEAD_TIMEOUT \in Nat
    /\ MAX_TIMEOUT <= DEAD_TIMEOUT
    /\ DOMAIN AddrOf = Ports
    /\ None \notin Ports

VARIABLES
    known,      \* the ports in the red-black trees
    state,      \* state[p]: RMsg_t.state
    ona, clr,   \* active[ONA], active[CLR]
    lock,       \* lock[p]: the mutex is held
    partial,    \* the ports whose message buffer is not full: left # 0
    his, mys,   \* seconds since update_stamp[HIS], update_stamp[MYS]
    main,       \* where the main thread is
    th          \* th[t]: the csock_send thread t

svrVars == <<known, state, ona, clr, lock, partial, his, mys, main, th>>

Age == 0 .. DEAD_TIMEOUT

MainAt == {"scan", "clean", "resend", "recv", "lock"}

SvrTypeOK ==
    /\ known \subseteq Ports
    /\ state \in [Ports -> RState]
    /\ ona \in [Ports -> BOOLEAN] /\ clr \in [Ports -> BOOLEAN]
    /\ lock \in [Ports -> BOOLEAN]
    /\ partial \subseteq Ports
    /\ his \in [Ports -> Age] /\ mys \in [Ports -> Age]
    /\ main \in [pc : MainAt, todo : SUBSET Ports, p : Ports \cup {None},
                 m : Packet \cup {Runt, None}, old : Age \cup {None}, fresh : BOOLEAN]
    /\ th \in [Threads -> [pc : {"idle", "run", "unlock"},
                           p : Ports \cup {None}, off : BOOLEAN]]

Idle == [pc |-> "idle", p |-> None, off |-> FALSE]

Scan(todo) == [pc |-> "scan", todo |-> todo, p |-> None, m |-> None,
               old |-> None, fresh |-> FALSE]

SvrInit ==
    /\ known = {}
    /\ state = [p \in Ports |-> NewState]
    /\ ona = [p \in Ports |-> FALSE] /\ clr = [p \in Ports |-> FALSE]
    /\ lock = [p \in Ports |-> FALSE]
    /\ partial = {}
    /\ his = [p \in Ports |-> 0] /\ mys = [p \in Ports |-> 0]
    /\ main = Scan({})
    /\ th = [t \in Threads |-> Idle]

----------------------------------------------------------------------------
\* pthread_create(csock_send, p) by the main thread, which holds p's lock; on
\* failure the code only prints a message.
Spawn(p) ==
    \/ /\ \E t \in Threads :
            /\ th[t] = Idle
            /\ th' = [th EXCEPT ![t] = [pc |-> "run", p |-> p, off |-> FALSE]]
       /\ UNCHANGED budget
    \/ Spend("create") /\ UNCHANGED th

\* csock_send up to UNLOCK: sends curr unless the port is switched off.
csock_send(t) ==
    LET p == th[t].p
        m == state[p].curr
    IN  /\ th[t].pc = "run"
        /\ IF ona[p]
           THEN /\ s2c' = [s2c EXCEPT ![p] = Put(@, m)]
                /\ th' = [th EXCEPT ![t].pc = "unlock",
                            ![t].off = FLAG_CHECK(UnsetCHK(m), {"FIN", "ACK"})]
           ELSE /\ th' = [th EXCEPT ![t].pc = "unlock"]
                /\ UNCHANGED s2c
        /\ UNCHANGED <<known, state, ona, clr, lock, partial, his, mys, main, c2s, budget>>

\* Mutant: the function returns before the unlock when it switches off.
csock_unlockSkipped(t) ==
    LET p == th[t].p
    IN  /\ th[t].pc = "unlock"
        /\ ona' = [ona EXCEPT ![p] = @ /\ ~th[t].off]
        /\ lock' = [lock EXCEPT ![p] = th[t].off]
        /\ th' = [th EXCEPT ![t] = Idle]
        /\ UNCHANGED <<known, state, clr, partial, his, mys, main, netVars>>

\* csock_send from UNLOCK: switch the port off after FIN|ACK, release the lock.
csock_unlock(t) ==
    LET p == th[t].p
    IN  /\ th[t].pc = "unlock"
        /\ ona' = [ona EXCEPT ![p] = @ /\ ~th[t].off]
        /\ lock' = [lock EXCEPT ![p] = FALSE]
        /\ th' = [th EXCEPT ![t] = Idle]
        /\ UNCHANGED <<known, state, clr, partial, his, mys, main, netVars>>

----------------------------------------------------------------------------
\* rhandle_retransmit looks at the flags of the next port without its lock.
\* Both tests end in trylock, which is a step of its own.
ScanPort(p) ==
    /\ main.pc = "scan" /\ p \in main.todo
    /\ main' = [main EXCEPT !.todo = @ \ {p}, !.p = p,
                  !.pc = CASE ~ona[p] /\ ~clr[p] -> "clean"
                           [] ona[p] /\ ~clr[p] /\ mys[p] >= MAX_TIMEOUT -> "resend"
                           [] OTHER -> "scan"]
    /\ UNCHANGED <<known, state, ona, clr, lock, partial, his, mys, th, netVars>>

\* Mutant: the result of trylock is ignored.
CleanNoTry ==
    LET p == main.p
    IN  /\ main.pc = "clean"
        /\ state' = [state EXCEPT ![p] = rstate_destroy(@)]
        /\ ona' = [ona EXCEPT ![p] = FALSE]
        /\ clr' = [clr EXCEPT ![p] = TRUE]
        /\ main' = Scan(main.todo)
        /\ UNCHANGED <<known, lock, partial, his, mys, th, netVars>>

\* A switched-off port is cleaned up if its lock is free.
Clean ==
    LET p == main.p
    IN  /\ main.pc = "clean"
        /\ IF lock[p] THEN UNCHANGED <<state, ona, clr>>
           ELSE /\ state' = [state EXCEPT ![p] = rstate_destroy(@)]
                /\ ona' = [ona EXCEPT ![p] = FALSE]
                /\ clr' = [clr EXCEPT ![p] = TRUE]
        /\ main' = Scan(main.todo)
        /\ UNCHANGED <<known, lock, partial, his, mys, th, netVars>>

\* Mutant: the result of trylock is ignored.
ResendNoTry ==
    LET p == main.p
    IN  /\ main.pc = "resend"
        /\ ona' = [ona EXCEPT ![p] = @ /\ his[p] < DEAD_TIMEOUT]
        /\ mys' = [mys EXCEPT ![p] = 0]
        /\ lock' = [lock EXCEPT ![p] = TRUE]
        /\ Spawn(p)
        /\ main' = Scan(main.todo)
        /\ UNCHANGED <<known, state, clr, partial, his, c2s, s2c>>

\* An active one that is due gets its curr sent again, if its lock is free;
\* a client silent for DEAD_TIMEOUT is switched off first.
Resend ==
    LET p == main.p
    IN  /\ main.pc = "resend"
        /\ IF lock[p] THEN UNCHANGED <<ona, lock, mys, th, budget>>
           ELSE /\ ona' = [ona EXCEPT ![p] = @ /\ his[p] < DEAD_TIMEOUT]
                /\ mys' = [mys EXCEPT ![p] = 0]
                /\ lock' = [lock EXCEPT ![p] = TRUE]
                /\ Spawn(p)
        /\ main' = Scan(main.todo)
        /\ UNCHANGED <<known, state, clr, partial, his, c2s, s2c>>

ScanDone ==
    /\ main.pc = "scan" /\ main.todo = {}
    /\ main' = [main EXCEPT !.pc = "recv", !.p = None]
    /\ UNCHANGED <<known, state, ona, clr, lock, partial, his, mys, th, netVars>>

----------------------------------------------------------------------------
\* recvfrom fails with EAGAIN: nanosleep and scan again.
RecvNone ==
    /\ main.pc = "recv"
    /\ main' = Scan(known)
    /\ UNCHANGED <<known, state, ona, clr, lock, partial, his, mys, th, netVars>>

\* recvfrom, then rhandle_serv and rhandle_port up to pthread_mutex_lock: all
\* of it without the port's lock.  A short datagram to a port whose buffer is
\* full copies nothing, and the packet in the buffer is processed once more:
\* that is a duplicate, which TakeC2S already delivers.
rhandle_port(p, m) ==
    /\ main.pc = "recv"
    /\ m = Runt => p \notin known \/ p \in partial
    /\ TakeC2S(p, m)
    /\ known' = known \cup {p}
    /\ his' = [his EXCEPT ![p] = 0] /\ mys' = [mys EXCEPT ![p] = 0]
    /\ main' = [main EXCEPT !.pc = "lock", !.p = p, !.m = m,
                  !.old = IF p \in known THEN his[p] ELSE None,
                  !.fresh = \A q \in known : AddrOf[q] # AddrOf[p]]
    /\ partial' = IF m = Runt THEN partial \cup {p} ELSE partial \ {p}
    /\ state' = [state EXCEPT ![p] = CASE p \notin known -> NewState
                                       [] p \in known /\ clr[p] -> RSTATE_INIT(@)
                                       [] OTHER -> @]
    /\ ona' = [ona EXCEPT ![p] = @ \/ clr[p] \/ p \notin known]
    /\ clr' = [clr EXCEPT ![p] = FALSE]
    /\ lock' = [lock EXCEPT ![p] = @ /\ p \in known]
    /\ UNCHANGED <<th, s2c>>

\* rhandle_port from pthread_mutex_lock on, and the return through
\* rhandle_serv: the packet is processed and the lock is handed to a
\* csock_send thread, released, or (left # 0) kept.
rhandle_locked ==
    LET p == main.p
        r == rprocess_request(state[p], main.m)
    IN  /\ main.pc = "lock" /\ ~lock[p]
        /\ \/ /\ main.m = Runt
              /\ lock' = [lock EXCEPT ![p] = TRUE]
              /\ UNCHANGED <<known, state, ona, his, mys, th, budget>>
           \/ /\ main.m # Runt /\ r.ret = "BAD_CHK"
              /\ \E a \in Age :     \* old_time is uninitialised for a new port
                    /\ main.old # None => a = main.old
                    /\ his' = [his EXCEPT ![p] = a] /\ mys' = [mys EXCEPT ![p] = a]
              /\ known' = IF main.fresh THEN known \ {p} ELSE known
              /\ state' = [state EXCEPT ![p] = r.st]
              /\ UNCHANGED <<ona, lock, th, budget>>
           \/ /\ main.m # Runt /\ r.ret = "WORSE_CHK"
              /\ known' = IF main.fresh THEN known \ {p} ELSE known
              /\ ona' = [ona EXCEPT ![p] = FALSE]
              /\ state' = [state EXCEPT ![p] = r.st]
              /\ UNCHANGED <<lock, his, mys, th, budget>>
           \/ /\ main.m # Runt /\ r.ret \in {"true", "false"}
              /\ ona' = [ona EXCEPT ![p] = @ /\ (r.ret = "true" \/ r.st.curr # None)]
              /\ state' = [state EXCEPT ![p] = r.st]
              /\ lock' = [lock EXCEPT ![p] = TRUE]
              /\ Spawn(p)
              /\ UNCHANGED <<known, his, mys>>
        /\ main' = Scan(known')
        /\ UNCHANGED <<clr, partial, c2s, s2c>>

\* One second passes.
Tick ==
    /\ Spend("tick")
    /\ his' = [p \in Ports |-> IF his[p] < DEAD_TIMEOUT THEN his[p] + 1 ELSE his[p]]
    /\ mys' = [p \in Ports |-> IF mys[p] < DEAD_TIMEOUT THEN mys[p] + 1 ELSE mys[p]]
    /\ UNCHANGED <<known, state, ona, clr, lock, partial, main, th, c2s, s2c>>

Main ==
    \/ \E p \in Ports : ScanPort(p) \/ \E m \in c2s[p] : rhandle_port(p, m)
    \/ Clean \/ Resend \/ ScanDone \/ RecvNone \/ rhandle_locked

Sender(t) == csock_send(t) \/ csock_unlock(t)

SvrNext == Main \/ Tick \/ \E t \in Threads : Sender(t)
\* Anything outside the server: packets of any content come and go.
Env == /\ NetTypeOK'
       /\ \A x \in Fault : budget'[x] <= budget[x]
       /\ (\E p \in Ports : Runt \in c2s'[p]) => Spent("runt")'
       /\ UNCHANGED svrVars

SvrSpec == SvrInit /\ NetInit /\ [][SvrNext \/ Env]_<<svrVars, netVars>>

----------------------------------------------------------------------------
\* A short datagram opened a connection, or pthread_create failed: from then on
\* a lock may be held by nobody.
Faulted == Spent("create") \/ Spent("runt")

Serving(t, p) == th[t].pc # "idle" /\ th[t].p = p

\* The hand-over of the port lock is exact: a port's mutex is held (between
\* steps of the main thread) exactly while one csock_send thread serves the
\* port, and never two do.  csock_send converts curr to network byte order in
\* place, so a second user of the port would read its fields byte-swapped.
HandOver ==
    ~Faulted =>
        \A p \in Ports :
            /\ lock[p] <=> \E t \in Threads : Serving(t, p)
            /\ \A t, u \in Threads : Serving(t, p) /\ Serving(u, p) => t = u

\* csock_send dereferences state.curr when the port is active: it is not NULL
\* then, whatever the client sent, after a clean-up and a re-initialisation,
\* and for the retransmission that the scan started from a stale flag.
CurrNotNull ==
    \A t \in Threads :
        th[t].pc = "run" /\ ona[th[t].p] => state[th[t].p].curr # None

\* rhandle_port re-initialises a cleaned port before it takes the lock: no
\* csock_send thread may still be using that port.
ResetUnused ==
    \A p \in known : clr[p] => ~ona[p] /\ \A t \in Threads : ~Serving(t, p)

\* ack, the offset of the next fseek, is the SEQN of the packet in flight: the
\* chunk that answers an acknowledgement is the one after the chunk it
\* acknowledges, also on a port used again (RSTATE_INIT does not reset ack).
AckIsCurr ==
    \A p \in known :
        state[p].ack = IF state[p].curr = None THEN 0 ELSE state[p].curr.seqn

\* The main thread is between recvfrom and pthread_mutex_lock for p.
Entering(p) == main.pc = "lock" /\ main.p = p

\* The inductive invariant: who may hold a lock, when state.curr exists, and
\* what the main thread still knows when it acts on what it read.
OwnerHolds ==
    \A t \in Threads :
        /\ th[t].pc = "idle" => th[t] = Idle
        /\ th[t].pc # "idle" => th[t].p \in known /\ lock[th[t].p]

OneOwner ==
    \A t, u \in Threads : th[t].pc # "idle" /\ th[t].p = th[u].p => t = u

HeldByOwner ==
    ~Faulted => \A p \in known : lock[p] => \E t \in Threads : Serving(t, p)

UnknownFree == \A p \in Ports \ known : ~lock[p] /\ p \notin partial

PartialLocked ==
    \A p \in partial : (lock[p] \/ Entering(p)) /\ \A t \in Threads : ~Serving(t, p)

RuntCounted ==
    (\E p \in Ports : Runt \in c2s[p]) \/ main.m = Runt => Spent("runt")

ActiveHasCurr ==
    \A p \in known : ona[p] => state[p].curr # None \/ Entering(p) \/ p \in partial

ServedHasCurr ==
    \A t \in Threads : th[t].pc # "idle" /\ ona[th[t].p] => state[th[t].p].curr # None

CleanedIdle == \A p \in known : clr[p] => ~ona[p] /\ ~lock[p] /\ state[p].curr = None

StatesOK == \A p \in Ports : RStateOK(state[p])

MainKnows ==
    /\ main.todo \subseteq known
    /\ main.pc \in {"clean", "resend", "lock"} => main.p \in known /\ ~clr[main.p]
    /\ main.pc = "clean" => ~ona[main.p]
    /\ main.pc = "lock" => main.m # None
    /\ main.pc = "lock" => (main.m = Runt <=> main.p \in partial)

\* The locks, flags and states of the ports fit together at every step of the
\* main loop and of the csock_send threads: a locked port has exactly one owner,
\* an active port has a packet in flight, csock_send never meets a NULL curr, and
\* a port that rhandle_port re-initialises without its lock is used by nobody.
SvrInv ==
    /\ SvrTypeOK /\ NetTypeOK
    /\ OwnerHolds /\ OneOwner /\ HeldByOwner /\ UnknownFree
    /\ PartialLocked /\ ActiveHasCurr /\ ServedHasCurr /\ CleanedIdle
    /\ StatesOK /\ MainKnows /\ RuntCounted

\* Stop and wait: the packet in flight is replaced only when the client has
\* acknowledged exactly that packet.
StopAndWait ==
    [][\A p \in Ports :
        LET cur == state[p].curr
            nxt == state'[p].curr
        IN  cur # None /\ nxt # None /\ nxt # cur =>
                /\ FLAG_VALIDATE(main.m, "ACK") /\ ~FLAG_VALIDATE(main.m, "NAK")
                /\ main.m.ackn = cur.seqn]_<<svrVars, netVars>>

\* A port that was switched off (FIN|ACK sent, dead, refused) becomes active
\* again only as a connection just met: nothing of the old transfer, neither
\* its packet in flight nor its offset, is left to be sent to the new client.
ReopensFresh ==
    [][\A p \in Ports : ~ona[p] /\ ona'[p] => state'[p] = NewState]_<<svrVars, netVars>>

\* The main thread, which waits for the lock of one port, never waits for ever:
\* it comes back to recvfrom, unless a lock was left held by nobody.
KeepsReceiving == []<>(main.pc = "recv" \/ Faulted)
=============================================================================
