----------------------------- MODULE MCPfexec -----------------------------
EXTENDS Pfexec

CONSTANTS p1, p2

MCPwUid == "root" :> 0 @@ "bsd" :> 1000 @@ "_pfexecd" :> 7
MCNumId == "99" :> 99 @@ "7" :> 7 @@ "1000" :> 1000
Pw(name, dir, gid, groups) ==
    [name |-> name, dir |-> dir, shell |-> "/bin/ksh", gid |-> gid, groups |-> groups]
MCPwEnt == 0 :> Pw("root", "/root", 0, <<0>>) @@ 1000 :> Pw("bsd", "/home/bsd", 10, <<10>>)
               @@ 7 :> Pw("_pfexecd", "/var/empty", 7, <<7, 7>>)
MCGrGid == "wheel" :> 0 @@ "games" :> 13

Login(groups, fds, held) ==
    [uid |-> 1000, gid |-> 10, groups |-> groups, fds |-> fds, held |-> held]
MCLogins == { Login(<<10, 13>>, {1, 2}, {}), Login(<<10, 13, 20>>, {0, 1, 2}, {}),
              Login(<<10, 13>>, {0, 1, 2}, {"TRACED"}),
              Login(<<10, 13>>, {0, 1, 2}, {"EXECPLEDGE"}) }

Sh == <<"/bin", "sh">>
Ls == <<"/usr/bin", "ls">>
MCExecs ==
    Sh :> [mount |-> {}, mode |-> {}, uid |-> 0, gid |-> 0, form |-> "elf"]
    @@ Ls :> [mount |-> {}, mode |-> {"sgid"}, uid |-> 0, gid |-> 4, form |-> "elf"]

MCEnv == << [name |-> "TERM", val |-> "vt100"], [name |-> None, val |-> "x"],
            [name |-> "HI", val |-> "v"], [name |-> "HOME", val |-> "h"],
            [name |-> "HI", val |-> "w"] >>

Run(user, noprompt, path, prog, args) ==
    [user |-> user, noprompt |-> noprompt, path |-> path, slash |-> Len(path) = 1,
     prog |-> prog, args |-> args, env |-> MCEnv]

RunLs(word) == Run("_pfexecd", FALSE, <<"/bin", "/usr/bin">>, "ls", <<word>>)
MCCommands ==
    p1 :> { Run(None, TRUE, <<"/bin">>, "sh", <<>>), RunLs(<<"a">>),
            Run("99", FALSE, <<"/bin", "/usr/bin">>, "sh", <<>>),
            Run("nobody", FALSE, <<"/bin", "/usr/bin">>, "sh", <<>>) }
    @@ p2 :> {RunLs(<<"a", "b">>)}

Opt(w, a) == [word |-> w, arg |-> a]
Permit(opts, target, cmd, args) ==
    [action |-> "permit", opts |-> opts, ident |-> "bsd", target |-> target, cmd |-> cmd,
     args |-> args]
Deny(target, cmd) ==
    [action |-> "deny", opts |-> <<>>, ident |-> "1000", target |-> target, cmd |-> cmd,
     args |-> None]
Set(how, name, val) == [how |-> how, name |-> name, val |-> val]

MCConfs == {
    \* the last of three rules for the same command; groups and variables
    << Permit(<<Opt("nopass", None)>>, None, None, None),
       Permit(<<Opt("nopass", None), Opt("chroot", "/home/bsd")>>, "root", Sh, None),
       Permit(<<Opt("nopass", None), Opt("chroot", None), Opt("nolog", None),
                Opt("keepgroups", None), Opt("keepenv", None)>>, "root", Sh, <<>>),
       Permit(<<Opt("nopass", None), Opt("setgroups", <<"games", "ghost">>),
                Opt("setenv", << Set("copy", "OLA", "HI"), Set("del", "HOME", None),
                                 Set("set", "OLA", "x"), Set("keep", "HI", None),
                                 Set("copy", "TERM", "NONE") >>)>>,
              "7", Ls, << <<"a", "b">> >>) >>,
    \* a denial after a permission, and a rule that wants a password
    << Permit(<<Opt("nopass", None)>>, None, None, None), Deny("root", Sh),
       Permit(<<Opt("persist", None)>>, "_pfexecd", Ls, None) >>,
    \* not a configuration
    << Permit(<<Opt("nopass", None), Opt("persist", None)>>, None, None, None) >> }
=============================================================================
