------------------------ MODULE MCTransactionRunner ------------------------
(* Small instances of TransactionRunner for TLC.                            *)
EXTENDS TransactionRunner, TLC

CONSTANTS t1, t2, x, y, z

MCTx == {t1, t2}
MCDoc == {x, y, z}

\* An update that rests on another document, and a call that reads a document
\* twice and writes it twice; one deletes and the other updates a third
\* document, which neither has read.
MCBody ==
    t1 :> [reads |-> <<x, y>>,
           writes |-> <<[op |-> "update", doc |-> x], [op |-> "delete", doc |-> z]>>] @@
    t2 :> [reads |-> <<y, x, y>>,
           writes |-> <<[op |-> "set", doc |-> y], [op |-> "update", doc |-> y],
                        [op |-> "update", doc |-> z]>>]
============================================================================
