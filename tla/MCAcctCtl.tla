----------------------------- MODULE MCAcctCtl -----------------------------
(* acctctl and the acct device for TLC. *)
EXTENDS AcctCtl, TLC

CONSTANTS p1, p2, u1, u2, f1, f2

\* "acctctl enable", "disable" and "track" without arguments stand for all
\* features.  ACCT_COND_READ is bit 0; an open with bit 1 does not match it.
MCEnas == {Feature}
MCEnasTwo == {{"FORK"}, F_ENA}
MCConds == {{0}}
MCOpens == {{}, {1}}
=============================================================================
