---------------------------- MODULE PfexecRules ----------------------------
(***************************************************************************)
(* What pfexecd does with one request: the rules its grammar builds        *)
(* (parse.y), the rule that decides (match, process_request), and the      *)
(* identity, groups, root directory and environment of the answer          *)
(* (craft_response and env.c).                                             *)
(*                                                                         *)
(* A word of a command's arguments is a sequence, so that one word can be  *)
(* the beginning of another; every other string is a value of its own.     *)
(***************************************************************************)
EXTENDS Integers, Sequences, FiniteSets, SequencesExt, TLC

CONSTANTS
    PwUid,          \* getpwnam: the users by name
    NumId,          \* strtonum: the numbers by their digits
    PwEnt,          \* getpwuid: the password entries, by uid
    GrGid,          \* getgrnam: the groups by name
    NGROUPS_MAX,
    None            \* NULL

ASSUME RulesAssumption == NGROUPS_MAX \in Nat \ {0}

\* parseuid and parsegid: what the name or the digits stand for; when they stand
\* for nothing strtonum leaves 0 behind.
Known(s, byname) == s \in DOMAIN byname \cup DOMAIN NumId

IdOf(s, byname) ==
    IF s \in DOMAIN byname THEN byname[s]
    ELSE IF s \in DOMAIN NumId THEN NumId[s] ELSE 0

uidcheck(s, uid) == Known(s, PwUid) /\ IdOf(s, PwUid) = uid

----------------------------------------------------------------------------
(* parse.y: an option carries its word and, for three of them, a list or a  *)
(* path.                                                                     *)

NoOptions == [ok |-> TRUE, options |-> {}, envlist |-> None, grplist |-> None,
              chroot |-> None]

\* One more option of a permit rule; setenv and setgroups set no bit.
AddOption(a, o) ==
    LET opts == a.options \cup ({o.word} \ {"setenv", "setgroups"})
        twice == \/ o.word = "setenv" /\ a.envlist # None
                 \/ o.word = "setgroups" /\ a.grplist # None
                 \/ o.word = "chroot" /\ o.arg # None /\ a.chroot # None
    IN  [ok |-> a.ok /\ ~twice /\ ~({"nopass", "persist"} \subseteq opts),
         options |-> opts,
         envlist |-> IF o.word = "setenv" THEN o.arg ELSE a.envlist,
         grplist |-> IF o.word = "setgroups" THEN o.arg ELSE a.grplist,
         chroot |-> IF o.word = "chroot" /\ o.arg # None THEN o.arg ELSE a.chroot]

\* A line of the configuration and the rule that it appends.
Rule(line) ==
    LET o == IF line.action = "permit" THEN FoldLeft(AddOption, NoOptions, line.opts)
             ELSE NoOptions
    IN  [ok |-> o.ok, action |-> line.action, options |-> o.options,
         envlist |-> o.envlist, grplist |-> o.grplist, chroot |-> o.chroot,
         ident |-> line.ident, target |-> line.target, cmd |-> line.cmd,
         cmdargs |-> line.args]

Rules(conf) == [i \in DOMAIN conf |-> Rule(conf[i])]

\* yyparse ended without parse_errors.
Parses(conf) == \A i \in DOMAIN conf : Rule(conf[i]).ok

----------------------------------------------------------------------------
(* match: argv[0] is not an argument; the word after the last one has       *)
(* length 0 in the zeroed request, and strncmp compares as many characters   *)
(* as the word of the request has.                                           *)

Word(req, i) == IF i < Len(req.argv) THEN req.argv[i + 1] ELSE <<>>

ArgsMatch(req, cmdargs) ==
    LET max_args == Len(req.argv) - 1
    IN  /\ cmdargs = <<>> => max_args <= 0
        /\ \A i \in DOMAIN cmdargs :
              i - 1 <= max_args /\ IsPrefix(Word(req, i), cmdargs[i])
        /\ Len(cmdargs) >= max_args

Target(req, r) == r.target # None => uidcheck(r.target, IdOf(req.user, PwUid))

match(req, r) ==
    /\ uidcheck(r.ident, req.uid)
    /\ Target(req, r)
    /\ r.cmd # None => /\ r.cmd = req.path
                       /\ r.cmdargs # None => ArgsMatch(req, r.cmdargs)


\* The loop over the rules: a later match replaces an earlier one.
LastRule(req, rules) ==
    FoldLeft(LAMBDA lastr, r : IF match(req, r) THEN r ELSE lastr, None, rules)

----------------------------------------------------------------------------
(* env.c: the tree as a function from names to values.  my is the           *)
(* environment of the request in its order; an entry without '=' has no      *)
(* name.                                                                     *)

get_my_env(name, my) ==
    LET at == {i \in DOMAIN my : my[i].name = name}
    IN  IF at = {} THEN None ELSE my[CHOOSE i \in at : \A j \in at : i <= j].val

Without(e, name) == [n \in DOMAIN e \ {name} |-> e[n]]

\* One entry of a setenv list: "-name", "name=value", "name=$from" or "name".
FillOne(e, it, my) ==
    LET val == CASE it.how = "set"  -> it.val
                 [] it.how = "copy" -> get_my_env(it.val, my)
                 [] OTHER           -> get_my_env(it.name, my)
        rest == Without(e, it.name)
    IN  IF it.how = "del" \/ val = None THEN rest ELSE (it.name :> val) @@ rest

fillenv(e, list, my) == FoldLeft(LAMBDA x, it : FillOne(x, it, my), e, list)

CopySet == << [how |-> "keep", name |-> "DISPLAY"], [how |-> "keep", name |-> "TERM"] >>

\* RB_INSERT of a node whose key may be there already.
InsertNew(e, name, val) == IF name \in DOMAIN e \/ name = None THEN e ELSE (name :> val) @@ e

createenv(r, uid, my) ==
    LET pw == PwEnt[uid]
        e1 == "PFEXEC_USER" :> r.ident @@ "HOME" :> pw.dir @@ "LOGNAME" :> pw.name
                  @@ "USER" :> pw.name @@ "SHELL" :> pw.shell
        e2 == fillenv(e1, CopySet, my)
        e3 == IF "keepenv" \in r.options
              THEN FoldLeft(LAMBDA e, x : InsertNew(e, x.name, x.val), e2, my) ELSE e2
    IN  InsertNew(e3, "SHELL", "safepath")

prepenv(r, uid, my) ==
    LET e == createenv(r, uid, my)
    IN  IF r.envlist # None THEN fillenv(e, r.envlist, my) ELSE e

----------------------------------------------------------------------------
\* get_groups: a gid equal to the one before it leaves its place 0.
get_groups(uid) ==
    LET g == PwEnt[uid].groups
    IN  [i \in DOMAIN g |-> IF i > 1 /\ g[i] = g[i - 1] THEN 0 ELSE g[i]]

\* The groups of a setgroups list; the place of an unknown one stays 0.
SetGroups(list) ==
    LET n == IF Len(list) < NGROUPS_MAX THEN Len(list) ELSE NGROUPS_MAX
    IN  [i \in 1 .. n |-> IF Known(list[i], GrGid) THEN IdOf(list[i], GrGid) ELSE 0]

\* The primary group and the groups of the answer, the three steps in their order.
Groups(req, r, uid) ==
    LET set == IF r.grplist = None THEN [gid |-> PwEnt[uid].gid, groups |-> <<>>]
               ELSE [gid |-> IF Known(r.grplist[1], GrGid) THEN IdOf(r.grplist[1], GrGid)
                             ELSE PwEnt[uid].gid,
                     groups |-> SetGroups(r.grplist)]
        keep == IF "keepgroups" \in r.options THEN [gid |-> req.gid, groups |-> req.groups]
                ELSE set
    IN  IF keep.groups = <<>> THEN [keep EXCEPT !.groups = get_groups(uid)] ELSE keep

\* An answer that carries no more than an error: the rest is zero.
Refusal(e) == [errno |-> e, uid |-> 0, gid |-> 0, groups |-> <<>>, env |-> <<>>,
               chroot |-> None]

\* The target of the request; without a password entry the daemon reads
\* through a null pointer.
TargetUid(req) == IdOf(req.user, PwUid)

Crashes(req) == TargetUid(req) \notin DOMAIN PwEnt

craft_response(req, r) ==
    LET uid == TargetUid(req)
        g == Groups(req, r, uid)
    IN  [errno |-> "ok", uid |-> uid, gid |-> g.gid, groups |-> g.groups,
         env |-> prepenv(r, uid, req.env),
         chroot |-> IF "chroot" \notin r.options THEN None
                    ELSE IF r.chroot # None THEN r.chroot ELSE "/var/empty"]

\* The checks at the start of process_request that depend on the caller.
WellFormed(req) == Len(req.groups) < NGROUPS_MAX

\* What process_request returns; prompt_password always returns 0, so a rule
\* without nopass permits nothing.
Decide(req, rules) ==
    LET lastr == LastRule(req, rules)
    IN  IF ~WellFormed(req) THEN "EINVAL"
        ELSE IF lastr = None \/ lastr.action = "deny" THEN "EPERM"
        ELSE IF req.noprompt /\ "nopass" \notin lastr.options THEN "EPERM"
        ELSE IF "nopass" \notin lastr.options THEN "EPERM"
        ELSE "permit"

\* What on_client_readable makes of a request: the answer that it sends, and
\* whether log_request sees it; NOLOG hides a permitted request only.
Reply(req, rules) ==
    LET d == Decide(req, rules)
        lastr == LastRule(req, rules)
    IN  IF d # "permit" THEN [decision |-> d, crash |-> FALSE, resp |-> Refusal(d), log |-> TRUE]
        ELSE IF Crashes(req)
        THEN [decision |-> d, crash |-> TRUE, resp |-> None, log |-> FALSE]
        ELSE [decision |-> d, crash |-> FALSE, resp |-> craft_response(req, lastr),
              log |-> "nolog" \notin lastr.options]
=============================================================================
