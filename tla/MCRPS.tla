------------------------------- MODULE MCRPS -------------------------------
(***************************************************************************)
(* Three names, so that one scan can meet two waiting players, and two     *)
(* clients that return: one that returns too early is refused its name.    *)
(* The match has its real length.                                          *)
(***************************************************************************)
EXTENDS RPS, TLC

CONSTANTS a, b, c, na, nb, nc

MCNameOf == (a :> na) @@ (b :> nb) @@ (c :> nc)

MCNumMatches == (a :> 2) @@ (b :> 2) @@ (c :> 1)

MCOther == (a :> b) @@ (b :> a)
=============================================================================
