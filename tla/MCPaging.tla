------------------------------ MODULE MCPaging ------------------------------
(***************************************************************************)
(* Two scopes, up to three rows at two times, pages of one or two rows, an  *)
(* old session and up to two rows without an owner.                        *)
(***************************************************************************)
EXTENDS OwnerMigration, TLC

CONSTANTS s1, s2, o1, ann, bob

MCSessions == {s1, s2}
MCOldSessions == {o1}
MCTimes == 1..2
MCIds == 1..3
MCLimits == 1..2

MCScopes == {ann, bob}

Symmetry == Permutations(MCSessions) \cup Permutations(MCScopes)
=============================================================================
