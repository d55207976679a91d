------------------------- MODULE TransactionRunner -------------------------
(***************************************************************************)
(* runTransaction of the Firestore client: the app's block reads documents, *)
(* each with a request of its own, and collects writes; the commit sends    *)
(* them with the versions that were read as preconditions, and an attempt   *)
(* that fails with an error that may pass is made again from the start.     *)
(*                                                                          *)
(* A commit whose call fails may be handled by the server all the same, at  *)
(* once or long after, beside the next attempt.  Nothing of a transaction   *)
(* is persisted: a kill ends it, but not the commit on its way.  Calls run  *)
(* on any devices.                                                          *)
(*                                                                          *)
(* A definition marked Faulty is not part of the model: it is a form of the *)
(* definition after it with a plausible fault, which some property refutes. *)
(***************************************************************************)
EXTENDS Integers, Sequences

CONSTANTS
    Tx, Doc, Body,  \* as in AtomicTransactions
    MaxAttempts     \* max_attempts (5 unless the app says otherwise)

ASSUME RunnerAssumption ==
    /\ Body \in [Tx -> [reads : Seq(Doc),
                        writes : Seq([op : {"set", "update", "delete"}, doc : Doc])]]
    /\ MaxAttempts \in Nat

VARIABLES
    docs,       \* the documents of the server, with their update times
    clock,      \* time of the last commit
    pc,         \* where each call is
    attempts,   \* attempts each call has begun
    trans,      \* the Transaction of its attempt: the reads of the block that have
                \* been answered, read_versions_ and what they have shown
    commits,    \* commits the server has not handled and still may
    answer,     \* how the server has answered the commit under way
    changed,    \* calls since the beginning of whose attempt a commit took effect
    effects,    \* commits of each call that took effect
    lost        \* commits of each call that ended without an answer

callVars == <<pc, attempts, trans>>
vars == <<docs, clock, callVars, commits, answer, changed, effects, lost>>

Atomic == INSTANCE AtomicTransactions WITH contents <- [d \in Doc |-> docs[d].content]

OpOf(t, i) == Body[t].writes[i].op
DocOf(t, i) == Body[t].writes[i].doc
Writes(t) == DOMAIN Body[t].writes

\* Faulty: nothing has this version.
NoneBelow == -1

\* SnapshotVersion::None, the version of a document that does not exist; and
\* a document read_versions_ does not have.
None == 0
Unread == -1

NewTransaction == [at |-> 0, read |-> [d \in Doc |-> Unread], seen |-> [d \in Doc |-> {}]]

\* Faulty: written_docs_ is not consulted.
OfReadAlways(t, r, i) == r[DocOf(t, i)] # Unread

\* The first write to a document the attempt has read.
OfRead(t, r, i) == Atomic!Earlier(t, i) = {} /\ r[DocOf(t, i)] # Unread

Init ==
    /\ clock = 1
    /\ docs \in [Doc -> {[version |-> None, content |-> {}], [version |-> 1, content |-> {1}]}]
    /\ pc = [t \in Tx |-> "idle"]
    /\ attempts = [t \in Tx |-> 0]
    /\ trans = [t \in Tx |-> NewTransaction]
    /\ commits = {}
    /\ answer = [t \in Tx |-> "none"]
    /\ changed = {}
    /\ effects = [t \in Tx |-> 0]
    /\ lost = [t \in Tx |-> 0]

----------------------------------------------------------------------------

\* An attempt leaves nothing to the next.
Leave(t, where) ==
    /\ pc' = [pc EXCEPT ![t] = where]
    /\ trans' = [trans EXCEPT ![t] = NewTransaction]
    /\ answer' = [answer EXCEPT ![t] = "none"]

\* Run, up to the delay before the block.
Run(t) ==
    /\ attempts' = [attempts EXCEPT ![t] = @ + 1]
    /\ Leave(t, "backoff")

Return(t, outcome) ==
    /\ Leave(t, outcome)
    /\ UNCHANGED attempts

\* Faulty: an error that ends the last attempt goes nowhere.
HandleTransactionErrorSilently(t, retryable) ==
    IF ~retryable THEN Return(t, "failed")
    ELSE IF attempts[t] < MaxAttempts THEN Run(t)
    ELSE UNCHANGED callVars /\ UNCHANGED answer

\* HandleTransactionError: an error that may pass begins another attempt.
HandleTransactionError(t, retryable) ==
    IF retryable /\ attempts[t] < MaxAttempts THEN Run(t) ELSE Return(t, "failed")

Call(t) ==
    /\ pc[t] = "idle"
    /\ Run(t)
    /\ UNCHANGED <<docs, clock, commits, changed, effects, lost>>

\* The delay is over: the block gets a new Transaction.
Begin(t) ==
    /\ pc[t] = "backoff"
    /\ pc' = [pc EXCEPT ![t] = "reading"]
    /\ changed' = changed \ {t}
    /\ UNCHANGED <<docs, clock, attempts, trans, commits, answer, effects, lost>>

\* Lookup and RecordVersion: a document read twice must not have changed.
Lookup(t) ==
    /\ pc[t] = "reading" /\ trans[t].at < Len(Body[t].reads)
    /\ LET d == Body[t].reads[trans[t].at + 1] IN
       IF trans[t].read[d] \in {Unread, docs[d].version}
       THEN /\ trans' = [trans EXCEPT ![t] = [at |-> @.at + 1,
                                              read |-> [@.read EXCEPT ![d] = docs[d].version],
                                              seen |-> [@.seen EXCEPT ![d] = docs[d].content]]]
            /\ UNCHANGED <<pc, attempts, answer>>
       ELSE HandleTransactionError(t, TRUE)
    /\ UNCHANGED <<docs, clock, commits, changed, effects, lost>>

\* A token or a lookup fails, for now or for good, or the block throws.
FailAttempt(t) ==
    /\ pc[t] = "reading"
    /\ \E retryable \in BOOLEAN : HandleTransactionError(t, retryable)
    /\ UNCHANGED <<docs, clock, commits, changed, effects, lost>>

\* The block has run to its end.  An update of a document that was read as
\* missing fails at once; otherwise the mutations are sent.
Commit(t) ==
    /\ pc[t] = "reading" /\ trans[t].at = Len(Body[t].reads)
    /\ IF \E i \in Writes(t) : /\ OpOf(t, i) = "update" /\ OfRead(t, trans[t].read, i)
                               /\ trans[t].read[DocOf(t, i)] = None
       THEN /\ HandleTransactionError(t, FALSE)
            /\ UNCHANGED commits
       ELSE /\ pc' = [pc EXCEPT ![t] = "committing"]
            /\ commits' = commits \union {[tx |-> t, attempt |-> attempts[t],
                                           read |-> trans[t].read, seen |-> trans[t].seen]}
            /\ UNCHANGED <<attempts, trans, answer>>
    /\ UNCHANGED <<docs, clock, changed, effects, lost>>

\* The call ends with an error that says nothing of the commit.
LoseAnswer(t) ==
    /\ pc[t] = "committing"
    /\ HandleTransactionError(t, TRUE)
    /\ lost' = [lost EXCEPT ![t] = @ + 1]
    /\ UNCHANGED <<docs, clock, commits, changed, effects>>

\* Faulty: does not look at the status.
DispatchAnyResult(t) ==
    /\ pc[t] = "committing" /\ answer[t] # "none"
    /\ Return(t, "done")
    /\ UNCHANGED <<docs, clock, commits, changed, effects, lost>>

\* DispatchResult: the answer of the server.
DispatchResult(t) ==
    /\ pc[t] = "committing" /\ answer[t] # "none"
    /\ IF answer[t] = "ok" THEN Return(t, "done")
       ELSE HandleTransactionError(t, answer[t] = "aborted")
    /\ UNCHANGED <<docs, clock, commits, changed, effects, lost>>

\* The process of a call is killed.
Kill(t) ==
    /\ pc[t] \in {"backoff", "reading", "committing"}
    /\ Return(t, "killed")
    /\ lost' = [lost EXCEPT ![t] = IF pc[t] = "committing" THEN @ + 1 ELSE @]
    /\ UNCHANGED <<docs, clock, commits, changed, effects>>

----------------------------------------------------------------------------
(* The server: it handles the mutations of a commit in order and at once.   *)

\* CreatePrecondition: the first write to a document that was read asks for
\* the version read, which no longer is there after another write.
VersionHolds(c, i) == /\ Atomic!Earlier(c.tx, i) = {}
                      /\ docs[DocOf(c.tx, i)].version = c.read[DocOf(c.tx, i)]

\* Commit adds a verification of each document read and not written.
Unwritten(c) == {d \in Doc : c.read[d] # Unread /\ Atomic!WritesOf(c.tx, d) = {}}

\* Faulty: without the verifications.
AbortsForWrites(c) ==
    \E i \in Writes(c.tx) : OfRead(c.tx, c.read, i) /\ ~VersionHolds(c, i)

Aborts(c) ==
    \/ \E i \in Writes(c.tx) : OfRead(c.tx, c.read, i) /\ ~VersionHolds(c, i)
    \/ \E d \in Unwritten(c) : docs[d].version # c.read[d]

\* CreateUpdatePrecondition: any other update asks that the document exists.
NotFound(c) == \E i \in Writes(c.tx) : /\ ~OfRead(c.tx, c.read, i)
                                       /\ OpOf(c.tx, i) = "update" /\ ~Atomic!Exists(c.tx, i)

\* Only the commit of the attempt under way has somebody to answer.
Answer(c, reply) ==
    answer' = [answer EXCEPT ![c.tx] =
                  IF pc[c.tx] = "committing" /\ attempts[c.tx] = c.attempt THEN reply ELSE @]

Apply(c) ==
    /\ ~Aborts(c) /\ ~NotFound(c)
    /\ commits' = commits \ {c}
    /\ clock' = clock + 1
    /\ docs' = LET new == Atomic!Written(c.tx, (UNION {c.seen[d] : d \in Atomic!Reads(c.tx)}) \union {clock'}) IN
               [d \in Doc |->
                   IF Atomic!WritesOf(c.tx, d) = {} THEN docs[d]
                   ELSE [version |-> IF new[d] = {} THEN None ELSE clock', content |-> new[d]]]
    /\ effects' = [effects EXCEPT ![c.tx] = @ + 1]
    /\ Answer(c, "ok")
    /\ changed' = Tx
    /\ UNCHANGED <<callVars, lost>>

Reject(c) ==
    /\ commits' = commits \ {c}
    /\ \/ Aborts(c) /\ Answer(c, "aborted")
       \/ NotFound(c) /\ Answer(c, "notFound")
    /\ UNCHANGED <<docs, clock, callVars, changed, effects, lost>>

----------------------------------------------------------------------------

Step(t) == Call(t) \/ Begin(t) \/ Lookup(t) \/ Commit(t) \/ DispatchResult(t)

Next ==
    \/ \E t \in Tx : Step(t) \/ FailAttempt(t) \/ LoseAnswer(t) \/ Kill(t)
    \/ \E c \in commits : Apply(c) \/ Reject(c)

Spec == Init /\ [][Next]_vars

\* The client's tasks run; a commit under way is handled or its call ends.
Fairness ==
    \A t \in Tx :
        /\ WF_vars(Begin(t) \/ Lookup(t) \/ Commit(t) \/ DispatchResult(t))
        /\ WF_vars(LoseAnswer(t) \/ \E c \in commits :
                       c.tx = t /\ c.attempt = attempts[t] /\ (Apply(c) \/ Reject(c)))

FairSpec == Spec /\ Fairness

----------------------------------------------------------------------------

Versions == [Doc -> Int]
Contents == [Doc -> SUBSET Nat]

\* The types of the variables; a version is never below that of a document
\* which does not exist.
TypeOK ==
    /\ docs \in [Doc -> [version : Nat, content : SUBSET Nat]]
    /\ clock \in Nat
    /\ pc \in [Tx -> {"idle", "backoff", "reading", "committing", "done", "failed", "killed"}]
    /\ attempts \in [Tx -> Nat]
    /\ trans \in [Tx -> [at : Nat, read : Versions, seen : Contents]]
    /\ commits \subseteq [tx : Tx, attempt : Nat, read : Versions, seen : Contents]
    /\ answer \in [Tx -> {"none", "ok", "aborted", "notFound"}]
    /\ changed \subseteq Tx /\ effects \in [Tx -> Nat] /\ lost \in [Tx -> Nat]

\* Whenever a call takes effect, all it has read is as it was read: a document
\* that was only read is verified, one read twice has not changed in between,
\* and a commit that is handled late is refused if anything was written since.
ActsAtOnce == Atomic!Spec

\* The outcome tells what has happened: a call that is done has taken effect,
\* and one that is not has not, except by commits whose answer was lost.  Those
\* are why a call may take effect more often than once: HandleTransactionError
\* repeats a commit of which it does not know whether it was handled.
AnswerTellsEffect ==
    \A t \in Tx :
        LET known == IF answer[t] = "ok" \/ pc[t] = "done" THEN 1 ELSE 0 IN
        /\ effects[t] <= lost[t] + known
        /\ pc[t] = "done" => effects[t] >= 1

\* A commit is aborted only when another commit, which may be a late one of the
\* same call, has taken effect since its attempt began: the versions
\* RecordVersion keeps are those the server compares, so alone a call is not aborted.
AbortsForAChange ==
    \A t \in Tx : answer[t] = "aborted" => t \in changed

\* A call returns: HandleTransactionError makes max_attempts at most, and the
\* last error goes to the caller.
Returns ==
    \A t \in Tx : (pc[t] = "backoff") ~> (pc[t] \in {"done", "failed", "killed"})
=============================================================================
