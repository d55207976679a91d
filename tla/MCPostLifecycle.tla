-------------------------- MODULE MCPostLifecycle --------------------------
(* Small instances of PostLifecycle for TLC.                                *)
EXTENDS PostLifecycle, TLC

CONSTANTS s1, s2, p1, n1, n2, l1

MCSession == {s1, s2}
MCOneSession == {s1}
MCPost == {p1}
MCName == {n1, n2}
MCLikeId == {l1}
None == {}

\* Bound: a post has no more than two versions.
FewVersions == \A p \in Post : Cardinality(versions[p]) <= 2

Symmetry == Permutations(MCSession) \union Permutations(MCName)
============================================================================
