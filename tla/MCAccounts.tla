----------------------------- MODULE MCAccounts -----------------------------
(***************************************************************************)
(* The demo's first account is registered under one of two spellings of an *)
(* email another client may take; that client has a password of its own.   *)
(* The token's lifetime leaves one unit of time in which it must be        *)
(* honoured on both instances, whose clocks are one unit apart.            *)
(***************************************************************************)
EXTENDS Gateway, TLC

CONSTANTS w1, w2, p1, p2, d1, d2, i1, i2

MCWorkers == {w1, w2}
MCPasswords == {p1, p2}
MCEmails == {"ann", " Ann", "bob"}
MCNormal == [e \in MCEmails |-> IF e = "bob" THEN "bob" ELSE "ann"]
MCCast == <<[email |-> " Ann", password |-> p1], [email |-> "bob", password |-> p1]>>
MCSkew == (i1 :> 0) @@ (i2 :> 1)
Symmetry == Permutations({d1, d2})
=============================================================================
