------------------------ MODULE AtomicTransactions ------------------------
(***************************************************************************)
(* What runTransaction promises: a transaction reads its documents and     *)
(* writes its documents in one instant.  It may do so more than once, for   *)
(* an attempt whose answer is lost is repeated.                             *)
(*                                                                          *)
(* A write leaves in its document what the transaction has read, so that an *)
(* update that is based on anything else than the documents of its instant  *)
(* shows in their contents.                                                 *)
(***************************************************************************)
EXTENDS Integers, Sequences

CONSTANTS
    Tx,     \* calls of runTransaction
    Doc,    \* documents
    Body    \* the documents each call reads, in order, and its writes, in order

Reads(t) == {Body[t].reads[i] : i \in DOMAIN Body[t].reads}
Writes(t) == DOMAIN Body[t].writes
OpOf(t, i) == Body[t].writes[i].op
DocOf(t, i) == Body[t].writes[i].doc
WritesOf(t, d) == {i \in Writes(t) : DocOf(t, i) = d}

\* The writes of a call to the same document before its i-th write.
Earlier(t, i) == {j \in WritesOf(t, DocOf(t, i)) : j < i}
Last(s) == CHOOSE i \in s : \A j \in s : j <= i

VARIABLES
    contents,   \* what each document says, {} for one that does not exist
    clock       \* the time of the last change

\* Only a document that exists can be updated.
Exists(t, i) == IF Earlier(t, i) = {} THEN contents[DocOf(t, i)] # {}
                ELSE OpOf(t, Last(Earlier(t, i))) # "delete"
Legal(t) == \A i \in Writes(t) : OpOf(t, i) = "update" => Exists(t, i)

\* The documents after the writes of a call, each leaving the given value.
Written(t, value) ==
    [d \in Doc |->
        LET ws == WritesOf(t, d) IN
        IF ws = {} THEN contents[d]
        ELSE IF OpOf(t, Last(ws)) = "delete" THEN {}
        ELSE IF \A i \in ws : OpOf(t, i) = "update" THEN contents[d] \union value
        ELSE value]

Effect(t) ==
    /\ Legal(t)
    /\ clock' = clock + 1
    /\ contents' = Written(t, (UNION {contents[d] : d \in Reads(t)}) \union {clock'})

Init ==
    /\ clock = 1
    /\ contents \in [Doc -> {{}, {1}}]

Next == \E t \in Tx : Effect(t)

Spec == Init /\ [][Next]_<<contents, clock>>
============================================================================
