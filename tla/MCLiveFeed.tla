----------------------------- MODULE MCLiveFeed -----------------------------
(* A small instance of LiveFeed for TLC.                                    *)
EXTENDS LiveFeed

CONSTANTS p1, c1

MCPost == {p1}
MCComment == {c1}
MCPages == {"home", "comments", "post", "thread"}
MCDetails == {"comments", "post", "thread"}
=============================================================================
