-------------------------------- MODULE RHdr --------------------------------
(***************************************************************************)
(* The RUSHB packet (RHdr.h) and what its macros test.  A packet is what   *)
(* the macros of RHdr.h can see of it:                                     *)
(*   flags  the flags F for which FLAG_VALIDATE(hdr, F) holds;             *)
(*   ver    FLAG_CONFIRM(hdr): the low ten bits are exactly R_VERSION      *)
(*          (the ENC bit is one of them, so an encrypted packet fails it); *)
(*   seqn, ackn   16-bit counters (RHdrCon_t), modulo SeqMod;              *)
(*   body   the MSG_SIZ bytes of payload: Empty, a resource name, or a     *)
(*          chunk <<name, i>> of a hosted resource;                        *)
(*   sum    whether CHKS is the checksum of the payload.                   *)
(***************************************************************************)
EXTENDS Naturals

CONSTANTS
    Names,      \* the resource names a client may ask for
    Files,      \* hosted resource |-> its length in chunks of MSG_SIZ bytes
    SeqMod,     \* the range of RHdrCon_t, 2^16 in the code
    Empty,      \* a payload whose first byte is NUL
    Garbage,    \* a payload that is no longer what was sent
    None        \* the NULL pointer

Chunk == (DOMAIN Files) \X Nat

ASSUME HdrAssumption ==
    /\ SeqMod \in Nat \ {0, 1}
    /\ DOMAIN Files \subseteq Names
    /\ \A f \in DOMAIN Files : Files[f] \in Nat \ {0}
    /\ Empty # Garbage
    /\ Empty \notin Names \cup Chunk

Con == 0 .. SeqMod - 1

\* RHdrCon_t arithmetic: x += 1 on a uint16_t.
Inc(n) == (n + 1) % SeqMod

Flag == {"ACK", "NAK", "GET", "DAT", "FIN", "CHK"}

Body == {Empty, Garbage} \cup Names \cup Chunk

Packet == [flags : SUBSET Flag, ver : BOOLEAN, seqn : Con, ackn : Con,
           body : Body, sum : BOOLEAN]

ASSUME NoneAssumption == None \notin Packet /\ None \notin Names

\* FLAG_CHECK(hdr, F): exactly these flags and the version, nothing else.
FLAG_CHECK(m, F) == m.ver /\ m.flags = F

\* FLAG_VALIDATE(hdr, f)
FLAG_VALIDATE(m, f) == f \in m.flags

\* FLAG_UNSET(hdr, CHK)
UnsetCHK(m) == [m EXCEPT !.flags = @ \ {"CHK"}]

\* What both ends demand of a packet once checksums are on: the CHK flag and
\* a CHKS field that agrees with the payload (valid_chksum, client_chksum).
valid_chksum(m) == FLAG_VALIDATE(m, "CHK") /\ m.sum
=============================================================================
