--------------------------- MODULE MCLikeToggle ---------------------------
(* Small instances of LikeToggle for TLC.                                   *)
EXTENDS LikeToggle, TLC

CONSTANTS u1, u2, d1, d2, d3, t1, t2, t3

MCUser == {u1, u2}
MCDevice == {d1, d2, d3}
\* One user has two devices.
MCOwner == d1 :> u1 @@ d2 :> u1 @@ d3 :> u2
MCTap == {t1, t2, t3}
============================================================================
