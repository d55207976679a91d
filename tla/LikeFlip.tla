----------------------------- MODULE LikeFlip -----------------------------
(***************************************************************************)
(* What a like button promises: a tap flips whether the user likes the post *)
(* - once, at one instant before the tap has settled - or, when its request *)
(* fails, changes nothing.  For the users in wild nothing is promised until *)
(* a tap of theirs has made the heart empty again.                          *)
(***************************************************************************)
CONSTANT User

VARIABLES
    liked,  \* whether each user likes the post
    phase,  \* of the tap of each user that has not settled
    wild    \* users who have left the promise

Init ==
    /\ liked = [u \in User |-> FALSE]
    /\ phase = [u \in User |-> "idle"]
    /\ wild = {}

Begin(u) ==
    /\ u \notin wild /\ phase[u] = "idle"
    /\ phase' = [phase EXCEPT ![u] = "pressed"]
    /\ UNCHANGED <<liked, wild>>

Flip(u) ==
    /\ u \notin wild /\ phase[u] = "pressed"
    /\ liked' = [liked EXCEPT ![u] = ~@]
    /\ phase' = [phase EXCEPT ![u] = "flipped"]
    /\ UNCHANGED wild

\* The tap settles: it had flipped, or does so now, or never will.
Settle(u) ==
    /\ u \notin wild /\ phase[u] # "idle"
    /\ phase' = [phase EXCEPT ![u] = "idle"]
    /\ \/ UNCHANGED liked
       \/ phase[u] = "pressed" /\ liked' = [liked EXCEPT ![u] = ~@]
    /\ UNCHANGED wild

Leave(u) ==
    /\ u \notin wild
    /\ wild' = wild \union {u}
    /\ liked' = [liked EXCEPT ![u] = FALSE]
    /\ phase' = [phase EXCEPT ![u] = "idle"]

Return(u) ==
    /\ u \in wild
    /\ wild' = wild \ {u}
    /\ UNCHANGED <<liked, phase>>

Next == \E u \in User : Begin(u) \/ Flip(u) \/ Settle(u) \/ Leave(u) \/ Return(u)

Spec == Init /\ [][Next]_<<liked, phase, wild>>
============================================================================
