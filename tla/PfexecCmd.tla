----------------------------- MODULE PfexecCmd -----------------------------
(***************************************************************************)
(* The pfexec command (pfexec.c): from a command line and a login to the   *)
(* request that the system call makes of them (fill_mbuf); and the         *)
(* SOCK_SEQPACKET connections that carry the requests to pfexecd, one for  *)
(* each call of pfexecve, as the two ends use them.                        *)
(***************************************************************************)
EXTENDS PfexecRules, KernExec

CONSTANTS
    Procs,      \* processes, each making one call
    Commands,   \* Commands[p]: the command lines that process p may be given
    Logins      \* credentials of the user whose processes these are

VARIABLES
    sock,       \* sock[p]: both ends of the call's connection and what is in flight
    daemon      \* the state of pfexecd

\* findprog: a name with a slash stands for itself; the first directory of the
\* path that holds the program otherwise.
findprog(c) ==
    LET hit == {i \in DOMAIN c.path : <<c.path[i], c.prog>> \in DOMAIN Execs}
    IN  IF c.slash THEN IF <<c.path[1], c.prog>> \in DOMAIN Execs THEN <<c.path[1], c.prog>> ELSE None
        ELSE IF hit = {} THEN None
        ELSE <<c.path[CHOOSE i \in hit : \A j \in hit : i <= j], c.prog>>

\* main: -u user, -n, and a program with its arguments or -s; None when the user
\* is unknown or the program is not found.
Opts(c) ==
    IF (c.user # None => Known(c.user, PwUid)) /\ findprog(c) # None
    THEN [user |-> IF c.user = None THEN "root" ELSE c.user, noprompt |-> c.noprompt,
          path |-> findprog(c), argv |-> << <<>> >> \o c.args, env |-> c.env]
    ELSE None

\* The caller's credentials and what was copied in from it.
fill_mbuf(login, opts) ==
    [uid |-> login.uid, gid |-> login.gid, groups |-> login.groups,
     user |-> opts.user, noprompt |-> opts.noprompt, path |-> opts.path,
     argv |-> opts.argv, env |-> opts.env]

NoSock == [kern |-> "none", peer |-> "none", req |-> None, resp |-> None]

\* bind and listen are done before the configuration is parsed.
Listening == daemon \in {"bound", "up"}

\* The peer of every connection is gone.
ClosePeers(s) ==
    [p \in Procs |-> IF s[p].peer \in {"queued", "open"} THEN [s[p] EXCEPT !.peer = "closed", !.req = None]
                     ELSE s[p]]
=============================================================================
