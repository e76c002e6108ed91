------------------------------ MODULE Pfexecd ------------------------------
(***************************************************************************)
(* The pfexecd daemon: its start, its event loop with one client for each  *)
(* connection, and its end.  It may be stopped at any time and started     *)
(* again with the same configuration.                                      *)
(***************************************************************************)
EXTENDS PfexecCmd

CONSTANTS
    Confs,          \* configuration files, as the lines of each
    MaxStarts       \* how often the daemon is started

VARIABLES
    conf,       \* the configuration file
    clients,    \* pfd_clients: the processes whose connections have a client
    log,        \* the calls that log_request has seen, with the decision
    starts

dvars == <<conf, clients, log, starts>>

DInit ==
    /\ conf \in Confs
    /\ clients = {} /\ log = {} /\ starts = 0

Running == daemon \in {"bound", "up"}

\* main, up to listen.
Bind ==
    /\ daemon = "down" /\ starts < MaxStarts
    /\ daemon' = "bound" /\ starts' = starts + 1
    /\ UNCHANGED <<sock, conf, clients, log>>

\* The process is gone: its descriptors are closed.
Die ==
    /\ daemon' = "down" /\ clients' = {}
    /\ sock' = ClosePeers(sock)

\* drop_privs may fail; parseconfig fails on any parse error.
Configure ==
    /\ daemon = "bound"
    /\ \/ Die
       \/ /\ Parses(conf)
          /\ daemon' = "up" /\ UNCHANGED <<sock, clients>>
    /\ UNCHANGED <<conf, log, starts>>

destroy_client(p) ==
    /\ clients' = clients \ {p}
    /\ sock' = [sock EXCEPT ![p].peer = "closed", ![p].req = None]

\* The connection gets a client, or it is closed because a step of the set-up
\* failed, or accept failed in a way that ends the daemon.
on_lsock_acceptable(p) ==
    /\ daemon = "up" /\ sock[p].peer = "queued"
    /\ \/ /\ clients' = clients \cup {p}
          /\ sock' = [sock EXCEPT ![p].peer = "open"]
          /\ UNCHANGED daemon
       \/ /\ sock' = [sock EXCEPT ![p].peer = "closed", ![p].req = None]
          /\ UNCHANGED <<clients, daemon>>
       \/ Die
    /\ UNCHANGED <<conf, log, starts>>

\* The end of the stream or an error of recvmsg; or a request, which is answered.
on_client_readable(p) ==
    LET req == sock[p].req
        reply == Reply(req, Rules(conf))
    IN  /\ daemon = "up" /\ p \in clients
        /\ \/ /\ req # None \/ sock[p].kern = "closed"
              /\ destroy_client(p) /\ UNCHANGED <<log, daemon>>
           \/ /\ req # None
              /\ IF reply.crash THEN Die /\ UNCHANGED log
                 ELSE /\ sock' = [sock EXCEPT ![p].req = None, ![p].resp = reply.resp]
                      /\ log' = log \cup (IF reply.log THEN {<<p, reply.decision>>} ELSE {})
                      /\ UNCHANGED <<clients, daemon>>
        /\ UNCHANGED <<conf, starts>>

\* The daemon is stopped from outside.
Stop == Running /\ Die /\ UNCHANGED <<conf, log, starts>>
=============================================================================
