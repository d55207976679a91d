--------------------------- MODULE MCUserAccount ---------------------------
(* Small instances of UserAccount for TLC.                                  *)
EXTENDS UserAccount, TLC

CONSTANTS d1, d2, g, v

MCDevice == {d1, d2}
MCDocId == {1, 2}
MCProfile == {g, v}

Symmetry == Permutations(MCDevice)
============================================================================
