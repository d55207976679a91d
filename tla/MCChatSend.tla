---------------------------- MODULE MCChatSend ----------------------------
(* Small instances of ChatSend for TLC.                                     *)
EXTENDS ChatSend, TLC

CONSTANTS a, b, c, k1, k2, x

\* a and b have the chat open on each other, c has it open on a.
MCScreen == {a, b, c}
MCMe == (a :> 1) @@ (b :> 2) @@ (c :> 3)
MCPeer == (a :> 2) @@ (b :> 1) @@ (c :> 1)

\* One screen only.
MCOneScreen == {a}
MCOneMe == a :> 1
MCOnePeer == a :> 2

MCCall == {k1, k2}
MCDraft == {x}
MCMs == {1, 2}
MCOneMs == {1}

CallSymmetry == Permutations(MCCall)
============================================================================
