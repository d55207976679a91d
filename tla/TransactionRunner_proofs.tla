---------------------- MODULE TransactionRunner_proofs ----------------------
(***************************************************************************)
(* Proofs about TransactionRunner, for all calls, documents and blocks: a   *)
(* call acts at once whenever it acts, its outcome tells how often it has,  *)
(* and it aborts only after a change.                                       *)
(***************************************************************************)
EXTENDS TransactionRunner, FiniteSets, FiniteSetTheorems, WellFoundedInduction, TLAPS

\* A call's transaction and a commit as records.
Transactions == [at : Nat, read : Versions, seen : Contents]
Commits == [tx : Tx, attempt : Nat, read : Versions, seen : Contents]

(***************************************************************************)
(* Facts about the bodies of calls.                                         *)
(***************************************************************************)

LEMMA BodyType ==
  ASSUME NEW t \in Tx
  PROVE  /\ Body[t].reads \in Seq(Doc) /\ Len(Body[t].reads) \in Nat
         /\ Writes(t) = 1..Len(Body[t].writes) /\ Len(Body[t].writes) \in Nat
         /\ \A i \in Writes(t) : DocOf(t, i) \in Doc
         /\ Atomic!Reads(t) \subseteq Doc
<1> DEFINE W == [op : {"set", "update", "delete"}, doc : Doc]
<1>1. Body[t].reads \in Seq(Doc) /\ Body[t].writes \in Seq(W)
  BY RunnerAssumption
<1>2. \A i \in 1..Len(Body[t].writes) : Body[t].writes[i] \in W
  <2> HIDE DEF W
  <2> QED BY <1>1
<1>3. Writes(t) = 1..Len(Body[t].writes) /\ Len(Body[t].writes) \in Nat
  <2> HIDE DEF W
  <2> QED BY <1>1 DEF Writes
<1> QED
  BY <1>1, <1>2, <1>3 DEF DocOf, Atomic!Reads

LEMMA NewTransactionType == NewTransaction \in Transactions
  BY DEF NewTransaction, Transactions, Versions, Contents, Unread

\* Leaving an attempt, whatever the outcome.
LEMMA LeaveType ==
  ASSUME TypeOK, NEW t \in Tx,
         NEW where \in {"idle", "backoff", "reading", "committing", "done", "failed", "killed"},
         Leave(t, where), attempts' = attempts \/ attempts' = [attempts EXCEPT ![t] = @ + 1]
  PROVE  /\ pc' \in [Tx -> {"idle", "backoff", "reading", "committing", "done", "failed", "killed"}]
         /\ trans' \in [Tx -> Transactions]
         /\ attempts' \in [Tx -> Nat]
         /\ answer' \in [Tx -> {"none", "ok", "aborted", "notFound"}]
  BY NewTransactionType DEF TypeOK, Leave, Transactions

LEMMA ErrorLeaves ==
  ASSUME NEW t \in Tx, NEW retryable \in BOOLEAN, HandleTransactionError(t, retryable)
  PROVE  \E where \in {"backoff", "failed"} :
            /\ Leave(t, where)
            /\ attempts' = IF where = "backoff" THEN [attempts EXCEPT ![t] = @ + 1] ELSE attempts
<1>1. CASE Run(t)
  BY <1>1 DEF Run
<1>2. CASE Return(t, "failed")
  BY <1>2 DEF Return
<1> QED
  BY <1>1, <1>2 DEF HandleTransactionError

(***************************************************************************)
(* Types.                                                                   *)
(***************************************************************************)

LEMMA InitType == Init => TypeOK
<1> SUFFICES ASSUME Init PROVE TypeOK
  OBVIOUS
<1>1. docs \in [Doc -> [version : Nat, content : SUBSET Nat]]
  BY DEF Init, None
<1>2. trans \in [Tx -> Transactions]
  BY NewTransactionType DEF Init
<1> QED
  BY <1>1, <1>2 DEF Init, TypeOK, Transactions

\* The documents after a commit are documents.
LEMMA WrittenType ==
  ASSUME TypeOK, NEW t \in Tx, NEW value \in SUBSET Nat
  PROVE  /\ Atomic!Written(t, value) \in [Doc -> SUBSET Nat]
         /\ \A d \in Doc : Atomic!WritesOf(t, d) = {} =>
                Atomic!Written(t, value)[d] = docs[d].content
<1>1. \A d \in Doc : docs[d].content \in SUBSET Nat
  BY DEF TypeOK
<1> QED
  BY <1>1 DEF Atomic!Written

LEMMA ApplyType ==
  ASSUME TypeOK, NEW c \in commits, Apply(c)
  PROVE  /\ clock' = clock + 1 /\ clock' \in Nat
         /\ docs' \in [Doc -> [version : Nat, content : SUBSET Nat]]
<1>1. c \in Commits /\ clock' = clock + 1 /\ clock' \in Nat
  BY DEF TypeOK, Apply, Commits
<1> DEFINE value == (UNION {c.seen[d] : d \in Atomic!Reads(c.tx)}) \union {clock'}
           new == Atomic!Written(c.tx, value)
<1>2. value \in SUBSET Nat
  BY <1>1, BodyType DEF Commits, Contents
<1>3. new \in [Doc -> SUBSET Nat]
  BY <1>1, <1>2, WrittenType DEF Commits
<1>4. docs' = [d \in Doc |->
                  IF Atomic!WritesOf(c.tx, d) = {} THEN docs[d]
                  ELSE [version |-> IF new[d] = {} THEN None ELSE clock', content |-> new[d]]]
  BY DEF Apply
<1>5. docs \in [Doc -> [version : Nat, content : SUBSET Nat]]
  BY DEF TypeOK
<1> HIDE DEF new, value
<1> QED
  BY <1>1, <1>3, <1>4, <1>5 DEF None

LEMMA AnswerType ==
  ASSUME TypeOK, NEW c \in commits, NEW reply \in {"ok", "aborted", "notFound"}, Answer(c, reply)
  PROVE  answer' \in [Tx -> {"none", "ok", "aborted", "notFound"}]
  BY DEF TypeOK, Answer

LEMMA StepType == TypeOK /\ [Next]_vars => TypeOK'
<1> SUFFICES ASSUME TypeOK, [Next]_vars PROVE TypeOK'
  OBVIOUS
<1> DEFINE Places == {"idle", "backoff", "reading", "committing", "done", "failed", "killed"}
<1>0. trans \in [Tx -> Transactions] /\ commits \subseteq Commits
  BY DEF TypeOK, Transactions, Commits
<1>1. ASSUME NEW t \in Tx, Call(t) PROVE TypeOK'
  <2>1. Leave(t, "backoff") /\ attempts' = [attempts EXCEPT ![t] = @ + 1]
    BY <1>1 DEF Call, Run
  <2> QED
    BY <1>1, <2>1, LeaveType DEF Call, TypeOK, Transactions
<1>2. ASSUME NEW t \in Tx, Begin(t) PROVE TypeOK'
  BY <1>2 DEF Begin, TypeOK
<1>3. ASSUME NEW t \in Tx, HandleTransactionError(t, TRUE) \/ HandleTransactionError(t, FALSE)
      PROVE  /\ pc' \in [Tx -> Places] /\ trans' \in [Tx -> Transactions]
             /\ attempts' \in [Tx -> Nat]
             /\ answer' \in [Tx -> {"none", "ok", "aborted", "notFound"}]
  BY <1>3, ErrorLeaves, LeaveType
<1>4. ASSUME NEW t \in Tx, Lookup(t) PROVE TypeOK'
  <2> DEFINE d == Body[t].reads[trans[t].at + 1]
  <2>1. d \in Doc
    <3>1. trans[t] \in Transactions /\ trans[t].at < Len(Body[t].reads)
      BY <1>0, <1>4 DEF Lookup
    <3>2. trans[t].at + 1 \in 1..Len(Body[t].reads)
      BY <3>1, BodyType DEF Transactions
    <3> QED
      BY <3>2, BodyType
  <2>2. docs[d].version \in Nat /\ docs[d].content \in SUBSET Nat
    BY <2>1 DEF TypeOK
  <2>3. CASE trans[t].read[d] \in {Unread, docs[d].version}
    <3>1. trans' = [trans EXCEPT ![t] = [at |-> @.at + 1,
                                         read |-> [@.read EXCEPT ![d] = docs[d].version],
                                         seen |-> [@.seen EXCEPT ![d] = docs[d].content]]]
      BY <1>4, <2>3 DEF Lookup
    <3>2. trans[t] \in Transactions
      BY <1>0
    <3>3. trans' \in [Tx -> Transactions]
      <4> HIDE DEF d
      <4> QED BY <1>0, <2>1, <2>2, <3>1, <3>2 DEF Transactions, Versions, Contents
    <3> QED
      BY <1>4, <2>3, <3>3 DEF Lookup, TypeOK, Transactions
  <2>4. CASE trans[t].read[d] \notin {Unread, docs[d].version}
    <3>1. HandleTransactionError(t, TRUE)
      BY <1>4, <2>4 DEF Lookup
    <3> QED
      BY <1>3, <1>4, <3>1 DEF Lookup, TypeOK, Transactions
  <2> QED
    BY <2>3, <2>4
<1>5. ASSUME NEW t \in Tx, FailAttempt(t) PROVE TypeOK'
  <2>1. HandleTransactionError(t, TRUE) \/ HandleTransactionError(t, FALSE)
    BY <1>5 DEF FailAttempt
  <2> QED
    BY <1>3, <1>5, <2>1 DEF FailAttempt, TypeOK, Transactions
<1>6. ASSUME NEW t \in Tx, Commit(t) PROVE TypeOK'
  <2>1. CASE HandleTransactionError(t, FALSE) /\ UNCHANGED commits
    BY <1>3, <1>6, <2>1 DEF Commit, TypeOK, Transactions
  <2>2. CASE /\ pc' = [pc EXCEPT ![t] = "committing"]
             /\ commits' = commits \union {[tx |-> t, attempt |-> attempts[t],
                                            read |-> trans[t].read, seen |-> trans[t].seen]}
             /\ UNCHANGED <<attempts, trans, answer>>
    <3>1. [tx |-> t, attempt |-> attempts[t], read |-> trans[t].read, seen |-> trans[t].seen]
             \in Commits
      BY <1>0 DEF TypeOK, Commits, Transactions
    <3> QED
      BY <1>0, <1>6, <2>2, <3>1 DEF Commit, TypeOK, Commits
  <2> QED
    BY <1>6, <2>1, <2>2 DEF Commit
<1>7. ASSUME NEW t \in Tx, LoseAnswer(t) PROVE TypeOK'
  <2>1. HandleTransactionError(t, TRUE)
    BY <1>7 DEF LoseAnswer
  <2>2. lost' \in [Tx -> Nat]
    BY <1>7 DEF LoseAnswer, TypeOK
  <2> QED
    BY <1>3, <1>7, <2>1, <2>2 DEF LoseAnswer, TypeOK, Transactions
<1>8. ASSUME NEW t \in Tx, DispatchResult(t) PROVE TypeOK'
  <2>1. CASE Return(t, "done")
    <3>1. Leave(t, "done") /\ attempts' = attempts
      BY <2>1 DEF Return
    <3> QED
      BY <1>8, <3>1, LeaveType DEF DispatchResult, TypeOK, Transactions
  <2>2. CASE HandleTransactionError(t, TRUE) \/ HandleTransactionError(t, FALSE)
    BY <1>3, <1>8, <2>2 DEF DispatchResult, TypeOK, Transactions
  <2> QED
    BY <1>8, <2>1, <2>2 DEF DispatchResult
<1>9. ASSUME NEW t \in Tx, Kill(t) PROVE TypeOK'
  <2>1. Leave(t, "killed") /\ attempts' = attempts
    BY <1>9 DEF Kill, Return
  <2>2. lost' \in [Tx -> Nat]
    BY <1>9 DEF Kill, TypeOK
  <2> QED
    BY <1>9, <2>1, <2>2, LeaveType DEF Kill, TypeOK, Transactions
<1>10. ASSUME NEW c \in commits, Apply(c) PROVE TypeOK'
  <2>1. answer' \in [Tx -> {"none", "ok", "aborted", "notFound"}]
    BY <1>10, AnswerType DEF Apply
  <2>2. effects' \in [Tx -> Nat]
    BY <1>0, <1>10 DEF Apply, TypeOK, Commits
  <2>3. /\ commits' = commits \ {c} /\ changed' = Tx
        /\ UNCHANGED <<pc, attempts, trans, lost>>
    BY <1>10 DEF Apply, callVars
  <2> QED
    BY <1>10, <2>1, <2>2, <2>3, ApplyType DEF TypeOK
<1>11. ASSUME NEW c \in commits, Reject(c) PROVE TypeOK'
  <2>1. answer' \in [Tx -> {"none", "ok", "aborted", "notFound"}]
    BY <1>11, AnswerType DEF Reject
  <2> QED
    BY <1>11, <2>1 DEF Reject, TypeOK, callVars
<1>12. CASE UNCHANGED vars
  BY <1>12 DEF vars, callVars, TypeOK
<1> QED
  BY <1>1, <1>2, <1>4, <1>5, <1>6, <1>7, <1>8, <1>9, <1>10, <1>11, <1>12 DEF Next, Step

\* The variables keep their types.
THEOREM TypeCorrect == Spec => []TypeOK
<1> QED
  BY InitType, StepType, PTL DEF Spec

(***************************************************************************)
(* What an attempt has read is what the documents say as long as they have  *)
(* the versions it has read.                                                *)
(***************************************************************************)

Snapshot(r, s) ==
    \A d \in Doc : r[d] # Unread =>
        /\ r[d] \in Nat /\ r[d] <= clock
        /\ r[d] = None => s[d] = {}
        /\ docs[d].version = r[d] => docs[d].content = s[d]

ReadsRecorded(t) ==
    /\ trans[t].at <= Len(Body[t].reads)
    /\ \A i \in 1..trans[t].at : trans[t].read[Body[t].reads[i]] # Unread

CommitComplete(c) ==
    /\ Snapshot(c.read, c.seen)
    /\ \A d \in Atomic!Reads(c.tx) : c.read[d] # Unread
    /\ \A i \in Writes(c.tx) : OpOf(c.tx, i) = "update" /\ OfRead(c.tx, c.read, i)
                                  => c.read[DocOf(c.tx, i)] # None

DocsVersioned ==
    \A d \in Doc : /\ docs[d].version <= clock
                   /\ docs[d].version = None <=> docs[d].content = {}

SnapInv ==
    /\ DocsVersioned
    /\ \A t \in Tx : Snapshot(trans[t].read, trans[t].seen) /\ ReadsRecorded(t)
    /\ \A c \in commits : CommitComplete(c)

LEMMA NewSnapshot == Snapshot(NewTransaction.read, NewTransaction.seen)
  BY DEF Snapshot, NewTransaction

\* An attempt that is left keeps the invariant.
LEMMA LeaveSnap ==
  ASSUME TypeOK, SnapInv, NEW t \in Tx, NEW where, Leave(t, where),
         UNCHANGED <<docs, clock, commits>>
  PROVE  SnapInv'
<1> DEFINE N == NewTransaction
<1>1. \A u \in Tx : trans'[u] = IF u = t THEN N ELSE trans[u]
  BY DEF TypeOK, Leave
<1>2. N.at = 0 /\ Snapshot(N.read, N.seen)
  BY NewSnapshot DEF NewTransaction
<1>3. \A u \in Tx : Len(Body[u].reads) \in Nat
  BY BodyType
<1> HIDE DEF N
<1>4. \A u \in Tx : (Snapshot(trans[u].read, trans[u].seen) /\ ReadsRecorded(u))'
  BY <1>1, <1>2, <1>3 DEF SnapInv, Snapshot, ReadsRecorded
<1> QED
  BY <1>4 DEF SnapInv, DocsVersioned, CommitComplete, Snapshot

\* A commit leaves each document alone or gives it a version of its own.
LEMMA ApplyChanges ==
  ASSUME TypeOK, NEW c \in commits, Apply(c)
  PROVE  /\ clock \in Nat /\ clock' = clock + 1
         /\ \A d \in Doc : \/ docs'[d] = docs[d]
                           \/ docs'[d].version = IF docs'[d].content = {} THEN None ELSE clock'
<1> DEFINE new == Atomic!Written(c.tx, (UNION {c.seen[d] : d \in Atomic!Reads(c.tx)})
                                          \union {clock'})
<1>1. docs' = [d \in Doc |->
                  IF Atomic!WritesOf(c.tx, d) = {} THEN docs[d]
                  ELSE [version |-> IF new[d] = {} THEN None ELSE clock', content |-> new[d]]]
  BY DEF Apply
<1> HIDE DEF new
<1> QED
  BY <1>1, ApplyType DEF TypeOK

LEMMA ApplySnapshot ==
  ASSUME TypeOK, NEW c \in commits, Apply(c), NEW r, NEW s, Snapshot(r, s),
         NEW d \in Doc, r[d] # Unread
  PROVE  /\ r[d] \in Nat /\ r[d] <= clock'
         /\ r[d] = None => s[d] = {}
         /\ docs'[d].version = r[d] => docs'[d].content = s[d]
<1>1. /\ r[d] \in Nat /\ r[d] <= clock
      /\ r[d] = None => s[d] = {}
      /\ docs[d].version = r[d] => docs[d].content = s[d]
  BY DEF Snapshot
<1>2. clock \in Nat /\ clock' = clock + 1
  BY ApplyChanges
<1>3. CASE docs'[d] = docs[d]
  BY <1>1, <1>2, <1>3
<1>4. CASE docs'[d].version = IF docs'[d].content = {} THEN None ELSE clock'
  <2>1. CASE docs'[d].content = {}
    BY <1>1, <1>2, <1>4, <2>1
  <2>2. CASE docs'[d].content # {}
    BY <1>1, <1>2, <1>4, <2>2
  <2> QED
    BY <2>1, <2>2
<1> QED
  BY <1>3, <1>4, ApplyChanges

LEMMA SnapInit == Init => SnapInv
<1> SUFFICES ASSUME Init PROVE SnapInv
  OBVIOUS
<1>1. \A t \in Tx : trans[t] = NewTransaction /\ NewTransaction.at = 0
  BY DEF Init, NewTransaction
<1>2. \A t \in Tx : Len(Body[t].reads) \in Nat
  BY BodyType
<1>3. ASSUME NEW t \in Tx PROVE Snapshot(trans[t].read, trans[t].seen) /\ ReadsRecorded(t)
  <2>1. Snapshot(trans[t].read, trans[t].seen)
    BY <1>1, NewSnapshot
  <2>2. trans[t].at = 0 /\ Len(Body[t].reads) \in Nat
    BY <1>1, <1>2
  <2> QED
    BY <2>1, <2>2 DEF ReadsRecorded
<1>4. \A d \in Doc : docs[d] \in {[version |-> None, content |-> {}], [version |-> 1, content |-> {1}]}
  BY DEF Init
<1>5. clock = 1 /\ commits = {}
  BY DEF Init
<1> QED
  BY <1>3, <1>4, <1>5 DEF SnapInv, DocsVersioned, None

LEMMA SnapStep == TypeOK /\ SnapInv /\ [Next]_vars => SnapInv'
<1> SUFFICES ASSUME TypeOK, SnapInv, [Next]_vars PROVE SnapInv'
  OBVIOUS
<1>0. ASSUME NEW t \in Tx, HandleTransactionError(t, TRUE) \/ HandleTransactionError(t, FALSE),
             UNCHANGED <<docs, clock, commits>>
      PROVE  SnapInv'
  BY <1>0, ErrorLeaves, LeaveSnap
<1>1. ASSUME NEW t \in Tx, Call(t) PROVE SnapInv'
  BY <1>1, LeaveSnap DEF Call, Run
<1>2. ASSUME NEW t \in Tx, Begin(t) PROVE SnapInv'
  BY <1>2 DEF Begin, SnapInv, DocsVersioned, Snapshot, ReadsRecorded, CommitComplete
<1>3. ASSUME NEW t \in Tx, Lookup(t) PROVE SnapInv'
  <2> DEFINE d == Body[t].reads[trans[t].at + 1]
             T == [at |-> trans[t].at + 1,
                   read |-> [trans[t].read EXCEPT ![d] = docs[d].version],
                   seen |-> [trans[t].seen EXCEPT ![d] = docs[d].content]]
  <2>1. d \in Doc /\ trans[t] \in Transactions /\ trans[t].at + 1 <= Len(Body[t].reads)
        /\ Len(Body[t].reads) \in Nat
    <3>1. trans \in [Tx -> Transactions] /\ trans[t].at < Len(Body[t].reads)
      BY <1>3 DEF Lookup, TypeOK, Transactions
    <3>2. trans[t].at \in Nat /\ Len(Body[t].reads) \in Nat /\ Body[t].reads \in Seq(Doc)
      BY <3>1, BodyType DEF Transactions
    <3>3. trans[t].at + 1 \in 1..Len(Body[t].reads) /\ trans[t].at + 1 <= Len(Body[t].reads)
      BY <3>1, <3>2
    <3> QED
      BY <3>1, <3>2, <3>3
  <2>2. docs[d].version \in Nat /\ docs[d].version <= clock
        /\ (docs[d].version = None <=> docs[d].content = {})
    BY <2>1 DEF TypeOK, SnapInv, DocsVersioned
  <2>3. CASE trans[t].read[d] \in {Unread, docs[d].version}
    <3>1. trans' = [trans EXCEPT ![t] = T] /\ UNCHANGED <<docs, clock, commits>>
      BY <1>3, <2>3 DEF Lookup
    <3>2. /\ T.at = trans[t].at + 1
          /\ \A e \in Doc : /\ T.read[e] = IF e = d THEN docs[d].version ELSE trans[t].read[e]
                            /\ T.seen[e] = IF e = d THEN docs[d].content ELSE trans[t].seen[e]
      BY <2>1 DEF Transactions, Versions, Contents
    <3>3. \A u \in Tx : trans'[u] = IF u = t THEN T ELSE trans[u]
      BY <3>1 DEF TypeOK
    <3> HIDE DEF T
    <3>4. Snapshot(T.read, T.seen)
      BY <2>2, <3>2, SMTT(20) DEF SnapInv, Snapshot
    <3>5. T.at <= Len(Body[t].reads) /\ \A i \in 1..T.at : T.read[Body[t].reads[i]] # Unread
      <4>1. \A i \in 1..T.at : Body[t].reads[i] \in Doc
        BY <2>1, <3>2, BodyType DEF Transactions
      <4>2. \A i \in 1..trans[t].at : trans[t].read[Body[t].reads[i]] # Unread
        BY DEF SnapInv, ReadsRecorded
      <4>3. docs[d].version # Unread
        BY <2>2 DEF Unread
      <4>4. trans[t].at \in Nat /\ \A i \in 1..T.at : i \in 1..trans[t].at \/ i = trans[t].at + 1
        BY <2>1, <3>2 DEF Transactions
      <4>5. T.read[Body[t].reads[trans[t].at + 1]] # Unread
        BY <2>1, <3>2, <4>3
      <4>6. \A i \in 1..trans[t].at : i \in 1..T.at
        BY <3>2, <4>4
      <4>7. \A i \in 1..trans[t].at : T.read[Body[t].reads[i]] # Unread
        BY <3>2, <4>1, <4>2, <4>3, <4>6
      <4> QED
        BY <2>1, <3>2, <4>4, <4>5, <4>7
    <3>6. \A u \in Tx : (Snapshot(trans[u].read, trans[u].seen) /\ ReadsRecorded(u))'
      BY <3>1, <3>3, <3>4, <3>5 DEF SnapInv, Snapshot, ReadsRecorded
    <3> QED
      BY <3>1, <3>6, SMTT(20) DEF SnapInv, DocsVersioned, Snapshot, CommitComplete
  <2>4. CASE trans[t].read[d] \notin {Unread, docs[d].version}
    BY <1>0, <1>3, <2>4 DEF Lookup
  <2> QED
    BY <2>3, <2>4
<1>4. ASSUME NEW t \in Tx, FailAttempt(t) PROVE SnapInv'
  <2>1. HandleTransactionError(t, TRUE) \/ HandleTransactionError(t, FALSE)
    BY <1>4 DEF FailAttempt
  <2> QED
    BY <1>0, <1>4, <2>1 DEF FailAttempt
<1>5. ASSUME NEW t \in Tx, Commit(t) PROVE SnapInv'
  <2> DEFINE C == [tx |-> t, attempt |-> attempts[t],
                   read |-> trans[t].read, seen |-> trans[t].seen]
  <2>1. CASE HandleTransactionError(t, FALSE) /\ UNCHANGED commits
    BY <1>0, <1>5, <2>1 DEF Commit
  <2>2. CASE /\ ~ \E i \in Writes(t) : /\ OpOf(t, i) = "update" /\ OfRead(t, trans[t].read, i)
                                       /\ trans[t].read[DocOf(t, i)] = None
             /\ commits' = commits \union {C}
             /\ UNCHANGED trans
    <3>1. \A e \in Atomic!Reads(t) : trans[t].read[e] # Unread
      <4>1. trans[t].at = Len(Body[t].reads)
        BY <1>5 DEF Commit
      <4>2. \A i \in 1..Len(Body[t].reads) : trans[t].read[Body[t].reads[i]] # Unread
        BY <4>1 DEF SnapInv, ReadsRecorded
      <4>3. DOMAIN Body[t].reads = 1..Len(Body[t].reads)
        BY BodyType
      <4> QED
        BY <4>2, <4>3 DEF Atomic!Reads
    <3>2. CommitComplete(C)
      BY <2>2, <3>1 DEF SnapInv, CommitComplete
    <3>3. \A c \in commits' : CommitComplete(c)
      <4> HIDE DEF C
      <4> QED BY <2>2, <3>2 DEF SnapInv
    <3> QED
      <4>1. UNCHANGED <<docs, clock, trans>>
        BY <1>5, <2>2 DEF Commit
      <4>2. \A c \in commits' : CommitComplete(c)'
        BY <3>3, <4>1 DEF CommitComplete, Snapshot
      <4>3. DocsVersioned' /\ \A u \in Tx : (Snapshot(trans[u].read, trans[u].seen) /\ ReadsRecorded(u))'
        BY <4>1 DEF SnapInv, DocsVersioned, Snapshot, ReadsRecorded
      <4> QED
        BY <4>2, <4>3 DEF SnapInv
  <2> QED
    BY <1>5, <2>1, <2>2 DEF Commit
<1>6. ASSUME NEW t \in Tx, LoseAnswer(t) PROVE SnapInv'
  BY <1>0, <1>6 DEF LoseAnswer
<1>7. ASSUME NEW t \in Tx, DispatchResult(t) PROVE SnapInv'
  <2>1. CASE Return(t, "done")
    BY <1>7, <2>1, LeaveSnap DEF DispatchResult, Return
  <2>2. CASE HandleTransactionError(t, TRUE) \/ HandleTransactionError(t, FALSE)
    BY <1>0, <1>7, <2>2 DEF DispatchResult
  <2> QED
    BY <1>7, <2>1, <2>2 DEF DispatchResult
<1>8. ASSUME NEW t \in Tx, Kill(t) PROVE SnapInv'
  BY <1>8, LeaveSnap DEF Kill, Return
<1>9. ASSUME NEW c \in commits, Apply(c) PROVE SnapInv'
  <2>1. commits' \subseteq commits /\ UNCHANGED trans
    BY <1>9 DEF Apply, callVars
  <2>2. DocsVersioned'
    BY <1>9, ApplyChanges DEF TypeOK, SnapInv, DocsVersioned, None
  <2>3. \A t \in Tx : (Snapshot(trans[t].read, trans[t].seen) /\ ReadsRecorded(t))'
    <3>1. ASSUME NEW t \in Tx PROVE Snapshot(trans[t].read, trans[t].seen)'
      <4>1. Snapshot(trans[t].read, trans[t].seen)
        BY DEF SnapInv
      <4>2. \A d \in Doc : trans[t].read[d] # Unread =>
                /\ trans[t].read[d] \in Nat /\ trans[t].read[d] <= clock'
                /\ trans[t].read[d] = None => trans[t].seen[d] = {}
                /\ docs'[d].version = trans[t].read[d] => docs'[d].content = trans[t].seen[d]
        BY <1>9, <4>1, ApplySnapshot
      <4> QED
        BY <2>1, <4>2 DEF Snapshot
    <3> QED
      BY <2>1, <3>1 DEF SnapInv, ReadsRecorded
  <2>4. ASSUME NEW b \in commits' PROVE CommitComplete(b)'
    <3>1. b \in commits /\ CommitComplete(b)
      BY <2>1 DEF SnapInv
    <3>2. \A d \in Doc : b.read[d] # Unread =>
              /\ b.read[d] \in Nat /\ b.read[d] <= clock'
              /\ b.read[d] = None => b.seen[d] = {}
              /\ docs'[d].version = b.read[d] => docs'[d].content = b.seen[d]
      BY <1>9, <3>1, ApplySnapshot DEF CommitComplete
    <3>3. Snapshot(b.read, b.seen)'
      BY <3>2 DEF Snapshot
    <3> QED
      BY <3>1, <3>3 DEF CommitComplete
  <2> QED
    BY <2>2, <2>3, <2>4 DEF SnapInv
<1>10. ASSUME NEW c \in commits, Reject(c) PROVE SnapInv'
  BY <1>10 DEF Reject, callVars, SnapInv, DocsVersioned, Snapshot, ReadsRecorded, CommitComplete
<1>11. CASE UNCHANGED vars
  BY <1>11, SMTT(20) DEF vars, callVars, SnapInv, DocsVersioned, Snapshot, ReadsRecorded, CommitComplete
<1> QED
  BY <1>1, <1>2, <1>3, <1>4, <1>5, <1>6, <1>7, <1>8, <1>9, <1>10, <1>11 DEF Next, Step

(***************************************************************************)
(* A commit the server accepts rests on the documents as they are.          *)
(***************************************************************************)

\* A set of positions that is not empty has a first one.
LEMMA FirstPosition ==
  ASSUME NEW n \in Nat, NEW S \in SUBSET (1..n), S # {}
  PROVE  \E m \in S : \A k \in S : ~(k < m)
<1> DEFINE Below(m) == {k \in S : k < m}
           T == {Below(m) : m \in S}
           R == StrictSubsetOrdering(1..n)
<1>1. IsWellFoundedOn(R, FiniteSubsetsOf(1..n))
  BY FS_StrictSubsetOrderingWellFounded
<1>2. T \subseteq FiniteSubsetsOf(1..n) /\ T # {}
  <2>1. IsFiniteSet(1..n)
    BY FS_Interval
  <2>2. \A m \in S : Below(m) \subseteq 1..n /\ IsFiniteSet(Below(m))
    BY <2>1, FS_Subset
  <2> QED
    BY <2>2 DEF FiniteSubsetsOf
<1>3. PICK X \in T : \A Y \in T : ~(<<Y, X>> \in R)
  <2> HIDE DEF R, T
  <2> QED BY <1>1, <1>2, WFMin
<1>4. PICK m \in S : X = Below(m)
  OBVIOUS
<1>5. ASSUME NEW k \in S, k < m PROVE FALSE
  <2>1. k \in Int /\ m \in Int /\ \A j \in S : j \in Int
    OBVIOUS
  <2>2. Below(k) \subseteq Below(m) /\ k \in Below(m) /\ k \notin Below(k)
    <3>1. \A j \in S : j < k => j < m
      BY <1>5, <2>1
    <3>2. ~(k < k)
      BY <2>1
    <3> QED
      BY <1>5, <3>1, <3>2, Zenon
  <2>3. <<Below(k), Below(m)>> \in R
    BY <2>2 DEF StrictSubsetOrdering
  <2> QED
    BY <1>3, <1>4, <2>3
<1> QED
  BY <1>5

\* The first write to a document has no earlier one.
LEMMA FirstWrite ==
  ASSUME NEW t \in Tx, NEW d \in Doc, Atomic!WritesOf(t, d) # {}
  PROVE  \E i \in Writes(t) : DocOf(t, i) = d /\ Atomic!Earlier(t, i) = {}
<1>1. Atomic!WritesOf(t, d) = {i \in Writes(t) : DocOf(t, i) = d}
  BY DEF Atomic!WritesOf, Atomic!Writes, Atomic!DocOf, Writes, DocOf
<1>2. Writes(t) = 1..Len(Body[t].writes) /\ Len(Body[t].writes) \in Nat
  BY BodyType
<1>3. PICK m \in Atomic!WritesOf(t, d) : \A k \in Atomic!WritesOf(t, d) : ~(k < m)
  BY <1>1, <1>2, FirstPosition
<1>4. m \in Writes(t) /\ DocOf(t, m) = d
  BY <1>1
<1>5. Atomic!Earlier(t, m) = {}
  BY <1>3, <1>4 DEF Atomic!Earlier, Atomic!DocOf, DocOf
<1> QED
  BY <1>4, <1>5

\* Every document the attempt has read still has the version it read.
LEMMA AcceptedIsCurrent ==
  ASSUME TypeOK, NEW c \in commits, ~Aborts(c), NEW d \in Doc, c.read[d] # Unread
  PROVE  docs[d].version = c.read[d]
<1>1. c.tx \in Tx
  BY DEF TypeOK
<1>2. CASE Atomic!WritesOf(c.tx, d) = {}
  BY <1>2 DEF Aborts, Unwritten
<1>3. CASE Atomic!WritesOf(c.tx, d) # {}
  <2>1. PICK i \in Writes(c.tx) : DocOf(c.tx, i) = d /\ Atomic!Earlier(c.tx, i) = {}
    BY <1>1, <1>3, FirstWrite
  <2>2. OfRead(c.tx, c.read, i)
    BY <2>1 DEF OfRead
  <2> QED
    BY <2>1, <2>2 DEF Aborts, VersionHolds
<1> QED
  BY <1>2, <1>3

LEMMA ApplyIsEffect ==
  ASSUME TypeOK, SnapInv, NEW c \in commits, Apply(c)
  PROVE  Atomic!Effect(c.tx)
<1> DEFINE says == [d \in Doc |-> docs[d].content]
           value == (UNION {c.seen[d] : d \in Atomic!Reads(c.tx)}) \union {clock'}
           new == Atomic!Written(c.tx, value)
<1>1. c.tx \in Tx /\ CommitComplete(c) /\ ~Aborts(c) /\ ~NotFound(c)
  BY DEF TypeOK, SnapInv, Apply
<1>2. \A d \in Doc : c.read[d] # Unread =>
          docs[d].version = c.read[d] /\ docs[d].content = c.seen[d]
  BY <1>1, AcceptedIsCurrent DEF CommitComplete, Snapshot
<1>3. Atomic!Legal(c.tx)
  <2> SUFFICES ASSUME NEW i \in Writes(c.tx), OpOf(c.tx, i) = "update"
               PROVE  Atomic!Exists(c.tx, i)
    BY DEF Atomic!Legal, Atomic!Writes, Atomic!OpOf, Writes, OpOf
  <2>1. CASE OfRead(c.tx, c.read, i)
    <3>1. DocOf(c.tx, i) \in Doc
      BY <1>1, BodyType
    <3>2. docs[DocOf(c.tx, i)].version # None
      BY <1>1, <1>2, <2>1, <3>1 DEF CommitComplete, OfRead
    <3>3. docs[DocOf(c.tx, i)].content # {}
      BY <3>1, <3>2 DEF SnapInv, DocsVersioned
    <3>4. says[DocOf(c.tx, i)] # {} /\ Atomic!Earlier(c.tx, i) = {}
      BY <2>1, <3>1, <3>3 DEF OfRead
    <3> QED
      BY <3>4 DEF Atomic!Exists, Atomic!DocOf, DocOf
  <2>2. CASE ~OfRead(c.tx, c.read, i)
    BY <1>1, <2>2 DEF NotFound
  <2> QED
    BY <2>1, <2>2
<1>4. value = (UNION {says[d] : d \in Atomic!Reads(c.tx)}) \union {clock'}
  <2>1. \A d \in Atomic!Reads(c.tx) : d \in Doc /\ c.seen[d] = docs[d].content
    BY <1>1, <1>2, BodyType DEF CommitComplete
  <2>2. \A d \in Atomic!Reads(c.tx) : c.seen[d] = says[d]
    BY <2>1
  <2>3. {c.seen[d] : d \in Atomic!Reads(c.tx)} = {says[d] : d \in Atomic!Reads(c.tx)}
    <3> HIDE DEF says
    <3> QED BY <2>2
  <2> QED
    BY <2>3
<1>5. [d \in Doc |-> docs'[d].content] = new
  <2>1. docs' = [d \in Doc |->
                    IF Atomic!WritesOf(c.tx, d) = {} THEN docs[d]
                    ELSE [version |-> IF new[d] = {} THEN None ELSE clock', content |-> new[d]]]
    BY DEF Apply
  <2>2. \A d \in Doc : Atomic!WritesOf(c.tx, d) = {} => new[d] = docs[d].content
    BY DEF Atomic!Written
  <2>3. new = [d \in Doc |-> new[d]]
    BY DEF Atomic!Written
  <2> HIDE DEF new
  <2>4. \A d \in Doc : docs'[d].content = new[d]
    BY <2>1, <2>2
  <2> QED
    BY <2>3, <2>4
<1>6. clock' = clock + 1
  BY DEF Apply
<1> QED
  BY <1>3, <1>4, <1>5, <1>6 DEF Atomic!Effect

\* A call reads and writes its documents in one instant, whenever it does.
THEOREM ImplementsAtomic == Spec => ActsAtOnce
<1>1. Init => Atomic!Init
  <2> SUFFICES ASSUME Init PROVE Atomic!Init
    OBVIOUS
  <2>1. \A d \in Doc : docs[d].content \in {{}, {1}}
    BY DEF Init
  <2> QED
    BY <2>1 DEF Init, Atomic!Init
<1>2. TypeOK /\ SnapInv /\ [Next]_vars
         => [Atomic!Next]_<<[d \in Doc |-> docs[d].content], clock>>
  <2> SUFFICES ASSUME TypeOK, SnapInv, [Next]_vars
               PROVE  Atomic!Next \/ UNCHANGED <<docs, clock>>
    OBVIOUS
  <2>1. ASSUME NEW c \in commits, Apply(c) PROVE Atomic!Next
    <3>1. c.tx \in Tx
      BY DEF TypeOK
    <3> QED
      BY <2>1, <3>1, ApplyIsEffect DEF Atomic!Next
  <2>2. ASSUME NEW c \in commits, Reject(c) PROVE UNCHANGED <<docs, clock>>
    BY <2>2 DEF Reject
  <2>3. ASSUME NEW t \in Tx, Step(t) \/ FailAttempt(t) \/ LoseAnswer(t) \/ Kill(t)
        PROVE  UNCHANGED <<docs, clock>>
    BY <2>3 DEF Step, Call, Begin, Lookup, Commit, DispatchResult, FailAttempt, LoseAnswer, Kill
  <2>4. CASE UNCHANGED vars
    BY <2>4 DEF vars
  <2> QED
    BY <2>1, <2>2, <2>3, <2>4 DEF Next
<1> QED
  BY <1>1, <1>2, InitType, StepType, SnapInit, SnapStep, PTL DEF Spec, ActsAtOnce, Atomic!Spec

(***************************************************************************)
(* Attempts: each sends one commit, which is answered while it waits.       *)
(***************************************************************************)

Waiting(t) ==
    /\ answer[t] # "none" => pc[t] = "committing"
    /\ pc[t] \notin {"reading", "committing"} => trans[t] = NewTransaction

Sent(c) ==
    /\ c.attempt <= attempts[c.tx]
    /\ c.attempt = attempts[c.tx] => pc[c.tx] \in {"committing", "done", "failed", "killed"}
    /\ c.attempt = attempts[c.tx] /\ pc[c.tx] = "committing" =>
          c.read = trans[c.tx].read /\ answer[c.tx] = "none"

Current(t) ==
    pc[t] \in {"reading", "committing"} /\ t \notin changed =>
        \A d \in Doc : trans[t].read[d] # Unread => docs[d].version = trans[t].read[d]

OneEach == \A b, c \in commits : b.tx = c.tx /\ b.attempt = c.attempt => b = c

AttemptInv ==
    /\ \A t \in Tx : Waiting(t) /\ Current(t)
    /\ \A c \in commits : Sent(c)
    /\ OneEach

\* An attempt is left for the next one, or for good.
LEMMA LeaveAttempt ==
  ASSUME TypeOK, AttemptInv, NEW t \in Tx, NEW where, Leave(t, where),
         \/ where = "backoff" /\ attempts' = [attempts EXCEPT ![t] = @ + 1]
         \/ where \in {"done", "failed", "killed"} /\ attempts' = attempts,
         UNCHANGED <<docs, commits, changed>>
  PROVE  AttemptInv'
<1>1. \A u \in Tx : /\ pc'[u] = IF u = t THEN where ELSE pc[u]
                    /\ answer'[u] = IF u = t THEN "none" ELSE answer[u]
                    /\ attempts[u] \in Nat
                    /\ u # t => trans'[u] = trans[u] /\ attempts'[u] = attempts[u]
                    /\ u = t => trans'[u] = NewTransaction
                    /\ \/ attempts'[u] = attempts[u] /\ (u = t => where # "backoff")
                       \/ u = t /\ where = "backoff" /\ attempts'[u] = attempts[u] + 1
  BY DEF TypeOK, Leave
<1>2. where \in {"backoff", "done", "failed", "killed"}
  OBVIOUS
<1>3. \A c \in commits : c.tx \in Tx /\ c.attempt \in Nat
  BY DEF TypeOK
<1>4. \A c \in commits' : Sent(c)'
  <2> TAKE c \in commits'
  <2>0. c \in commits
    OBVIOUS
  <2>1. CASE c.tx = t /\ where = "backoff"
    BY <1>1, <1>3, <2>0, <2>1 DEF AttemptInv, Sent
  <2>2. CASE c.tx = t /\ where # "backoff"
    BY <1>1, <1>2, <1>3, <2>0, <2>2 DEF AttemptInv, Sent
  <2>3. CASE c.tx # t
    BY <1>1, <1>3, <2>0, <2>3 DEF AttemptInv, Sent
  <2> QED
    BY <2>1, <2>2, <2>3
<1>5. \A u \in Tx : Waiting(u)'
  BY <1>1 DEF AttemptInv, Waiting
<1>6. \A u \in Tx : Current(u)'
  BY <1>1, <1>2 DEF AttemptInv, Current
<1>7. OneEach'
  BY DEF AttemptInv, OneEach
<1> QED
  BY <1>4, <1>5, <1>6, <1>7 DEF AttemptInv

\* The server answers only the commit of the attempt that waits.
LEMMA AnswerAttempt ==
  ASSUME TypeOK, AttemptInv, NEW c \in commits, NEW reply, Answer(c, reply)
  PROVE  \A t \in Tx :
            \/ answer'[t] = answer[t]
            \/ /\ t = c.tx /\ pc[t] = "committing" /\ c.attempt = attempts[t]
               /\ answer[t] = "none" /\ answer'[t] = reply
<1>1. c.tx \in Tx
  BY DEF TypeOK
<1>2. CASE pc[c.tx] = "committing" /\ attempts[c.tx] = c.attempt
  BY <1>1, <1>2 DEF Answer, AttemptInv, Sent, TypeOK
<1>3. CASE ~(pc[c.tx] = "committing" /\ attempts[c.tx] = c.attempt)
  BY <1>1, <1>3 DEF Answer, TypeOK
<1> QED
  BY <1>2, <1>3

\* A commit that is handled leaves no other of its attempt.
LEMMA HandledAttempt ==
  ASSUME TypeOK, AttemptInv, NEW c \in commits, NEW reply, Answer(c, reply),
         commits' = commits \ {c}, UNCHANGED callVars,
         \/ changed' = Tx
         \/ UNCHANGED <<docs, changed>>
  PROVE  AttemptInv'
<1>1. UNCHANGED <<pc, attempts, trans>>
  BY DEF callVars
<1>2. \A t \in Tx : Waiting(t)'
  BY <1>1, AnswerAttempt DEF AttemptInv, Waiting
<1>3. \A b \in commits' : Sent(b)'
  <2> TAKE b \in commits'
  <2>1. b \in commits /\ b # c /\ b.tx \in Tx
    BY DEF TypeOK
  <2>2. b.tx = c.tx => b.attempt # c.attempt
    BY <2>1 DEF AttemptInv, OneEach
  <2> QED
    BY <1>1, <2>1, <2>2, AnswerAttempt DEF AttemptInv, Sent
<1>4. OneEach'
  BY DEF AttemptInv, OneEach
<1>5. \A t \in Tx : Current(t)'
  BY <1>1 DEF AttemptInv, Current
<1> QED
  BY <1>2, <1>3, <1>4, <1>5 DEF AttemptInv

LEMMA AttemptInit == Init => AttemptInv
  BY DEF Init, AttemptInv, Waiting, Current, OneEach

LEMMA AttemptStep == TypeOK /\ AttemptInv /\ [Next]_vars => AttemptInv'
<1> SUFFICES ASSUME TypeOK, AttemptInv, [Next]_vars PROVE AttemptInv'
  OBVIOUS
<1>0. ASSUME NEW t \in Tx, HandleTransactionError(t, TRUE) \/ HandleTransactionError(t, FALSE),
             UNCHANGED <<docs, commits, changed>>
      PROVE  AttemptInv'
  BY <1>0, ErrorLeaves, LeaveAttempt
<1>1. ASSUME NEW t \in Tx, Call(t) PROVE AttemptInv'
  BY <1>1, LeaveAttempt DEF Call, Run
<1>2. ASSUME NEW t \in Tx, Begin(t) PROVE AttemptInv'
  <2>1. \A u \in Tx : pc'[u] = IF u = t THEN "reading" ELSE pc[u]
    BY <1>2 DEF Begin, TypeOK
  <2>2. \A d \in Doc : trans[t].read[d] = Unread
    BY <1>2 DEF Begin, AttemptInv, Waiting, NewTransaction
  <2>3. answer[t] = "none"
    BY <1>2 DEF Begin, AttemptInv, Waiting
  <2>4. \A c \in commits : c.tx = t => c.attempt # attempts[t]
    BY <1>2 DEF Begin, AttemptInv, Sent
  <2>5. UNCHANGED <<docs, attempts, trans, commits, answer>> /\ changed' = changed \ {t}
    BY <1>2 DEF Begin
  <2>6. \A u \in Tx : Waiting(u)'
    BY <2>1, <2>3, <2>5 DEF AttemptInv, Waiting
  <2>7. \A c \in commits' : Sent(c)'
    <3> TAKE c \in commits'
    <3>1. c \in commits /\ c.tx \in Tx
      BY <2>5 DEF TypeOK
    <3> QED
      BY <2>1, <2>4, <2>5, <3>1 DEF AttemptInv, Sent
  <2>8. \A u \in Tx : Current(u)'
    BY <2>1, <2>2, <2>5 DEF AttemptInv, Current
  <2>9. OneEach'
    BY <2>5 DEF AttemptInv, OneEach
  <2> QED
    BY <2>6, <2>7, <2>8, <2>9 DEF AttemptInv
<1>3. ASSUME NEW t \in Tx, Lookup(t) PROVE AttemptInv'
  <2> DEFINE d == Body[t].reads[trans[t].at + 1]
  <2>1. CASE trans[t].read[d] \in {Unread, docs[d].version}
    <3>1. /\ UNCHANGED <<docs, pc, attempts, commits, answer, changed>>
          /\ trans' = [trans EXCEPT ![t] = [at |-> @.at + 1,
                                            read |-> [@.read EXCEPT ![d] = docs[d].version],
                                            seen |-> [@.seen EXCEPT ![d] = docs[d].content]]]
      BY <1>3, <2>1 DEF Lookup
    <3>2. trans[t].read \in Versions
      BY DEF TypeOK
    <3>3. \A e \in Doc : trans'[t].read[e] = IF e = d THEN docs[d].version ELSE trans[t].read[e]
      <4>1. trans'[t].read = [trans[t].read EXCEPT ![d] = docs[d].version]
        BY <3>1 DEF TypeOK
      <4> QED
        BY <3>2, <4>1 DEF Versions
    <3>4. \A u \in Tx : u # t => trans'[u] = trans[u]
      BY <3>1 DEF TypeOK
    <3>5. pc[t] = "reading"
      BY <1>3 DEF Lookup
    <3> HIDE DEF d
    <3>6. \A u \in Tx : Current(u)'
      BY <3>1, <3>3, <3>4 DEF AttemptInv, Current
    <3>7. \A u \in Tx : Waiting(u)'
      BY <3>1, <3>4, <3>5 DEF AttemptInv, Waiting
    <3>8. \A c \in commits : c.tx \in Tx
      BY DEF TypeOK
    <3>9. (\A c \in commits : Sent(c))' /\ OneEach'
      BY <3>1, <3>4, <3>5, <3>8 DEF AttemptInv, Sent, OneEach
    <3> QED
      BY <3>6, <3>7, <3>9 DEF AttemptInv
  <2>2. CASE trans[t].read[d] \notin {Unread, docs[d].version}
    BY <1>0, <1>3, <2>2 DEF Lookup
  <2> QED
    BY <2>1, <2>2
<1>4. ASSUME NEW t \in Tx, FailAttempt(t) PROVE AttemptInv'
  <2>1. HandleTransactionError(t, TRUE) \/ HandleTransactionError(t, FALSE)
    BY <1>4 DEF FailAttempt
  <2> QED
    BY <1>0, <1>4, <2>1 DEF FailAttempt
<1>5. ASSUME NEW t \in Tx, Commit(t) PROVE AttemptInv'
  <2> DEFINE C == [tx |-> t, attempt |-> attempts[t],
                   read |-> trans[t].read, seen |-> trans[t].seen]
  <2>1. CASE HandleTransactionError(t, FALSE) /\ UNCHANGED commits
    BY <1>0, <1>5, <2>1 DEF Commit
  <2>2. CASE /\ pc' = [pc EXCEPT ![t] = "committing"]
             /\ commits' = commits \union {C}
             /\ UNCHANGED <<attempts, trans, answer>>
    <3>1. C.tx = t /\ C.attempt = attempts[t] /\ C.read = trans[t].read
      OBVIOUS
    <3> HIDE DEF C
    <3>2. \A u \in Tx : pc'[u] = IF u = t THEN "committing" ELSE pc[u]
      BY <2>2 DEF TypeOK
    <3>3. pc[t] = "reading" /\ answer[t] = "none" /\ UNCHANGED <<docs, changed>>
      BY <1>5 DEF Commit, AttemptInv, Waiting
    <3>4. \A c \in commits : c.tx \in Tx /\ (c.tx = t => c.attempt # attempts[t])
      BY <3>3 DEF AttemptInv, Sent, TypeOK
    <3>5. OneEach'
      BY <2>2, <3>1, <3>4 DEF AttemptInv, OneEach
    <3>6. (\A c \in commits : Sent(c))'
      <4> SUFFICES ASSUME NEW c \in commits' PROVE Sent(c)'
        OBVIOUS
      <4>1. CASE c \in commits
        BY <2>2, <3>2, <3>4, <4>1 DEF AttemptInv, Sent
      <4>2. CASE c = C
        <5>1. attempts[t] \in Nat
          BY DEF TypeOK
        <5> QED
          BY <2>2, <3>1, <3>2, <3>3, <4>2, <5>1 DEF Sent
      <4> QED
        BY <2>2, <4>1, <4>2
    <3>7. \A u \in Tx : Waiting(u)' /\ Current(u)'
      BY <2>2, <3>2, <3>3 DEF AttemptInv, Waiting, Current
    <3> QED
      BY <3>5, <3>6, <3>7 DEF AttemptInv
  <2> QED
    BY <1>5, <2>1, <2>2 DEF Commit
<1>6. ASSUME NEW t \in Tx, LoseAnswer(t) PROVE AttemptInv'
  BY <1>0, <1>6 DEF LoseAnswer
<1>7. ASSUME NEW t \in Tx, DispatchResult(t) PROVE AttemptInv'
  <2>1. CASE Return(t, "done")
    BY <1>7, <2>1, LeaveAttempt DEF DispatchResult, Return
  <2>2. CASE HandleTransactionError(t, TRUE) \/ HandleTransactionError(t, FALSE)
    BY <1>0, <1>7, <2>2 DEF DispatchResult
  <2> QED
    BY <1>7, <2>1, <2>2 DEF DispatchResult
<1>8. ASSUME NEW t \in Tx, Kill(t) PROVE AttemptInv'
  BY <1>8, LeaveAttempt DEF Kill, Return
<1>9. ASSUME NEW c \in commits, Apply(c) PROVE AttemptInv'
  BY <1>9, HandledAttempt DEF Apply
<1>10. ASSUME NEW c \in commits, Reject(c) PROVE AttemptInv'
  BY <1>10, HandledAttempt DEF Reject
<1>11. CASE UNCHANGED vars
  BY <1>11 DEF vars, callVars, AttemptInv, Waiting, Sent, Current, OneEach
<1> QED
  BY <1>1, <1>2, <1>3, <1>4, <1>5, <1>6, <1>7, <1>8, <1>9, <1>10, <1>11 DEF Next, Step

LEMMA AttemptHolds == Spec => [](TypeOK /\ AttemptInv)
  BY InitType, StepType, AttemptInit, AttemptStep, PTL DEF Spec

(***************************************************************************)
(* A commit is aborted only for a change: as long as nothing has changed    *)
(* since the beginning of the attempt, the versions it sends are current.   *)
(***************************************************************************)

LEMMA AbortsStep == TypeOK /\ AttemptInv /\ AbortsForAChange /\ [Next]_vars => AbortsForAChange'
<1> SUFFICES ASSUME TypeOK, AttemptInv, AbortsForAChange, [Next]_vars PROVE AbortsForAChange'
  OBVIOUS
<1>0. ASSUME NEW t \in Tx, NEW where, Leave(t, where), UNCHANGED changed
      PROVE  AbortsForAChange'
  <2>1. \A u \in Tx : answer'[u] \in {"none", answer[u]}
    BY <1>0 DEF Leave, TypeOK
  <2> QED
    BY <1>0, <2>1 DEF AbortsForAChange
<1>1. ASSUME NEW t \in Tx, HandleTransactionError(t, TRUE) \/ HandleTransactionError(t, FALSE),
             UNCHANGED changed
      PROVE  AbortsForAChange'
  BY <1>0, <1>1, ErrorLeaves
<1>2. ASSUME NEW t \in Tx, Call(t) PROVE AbortsForAChange'
  BY <1>0, <1>2 DEF Call, Run
<1>3. ASSUME NEW t \in Tx, Begin(t) PROVE AbortsForAChange'
  BY <1>3 DEF Begin, AbortsForAChange, AttemptInv, Waiting
<1>4. ASSUME NEW t \in Tx, Lookup(t) PROVE AbortsForAChange'
  BY <1>1, <1>4 DEF Lookup, AbortsForAChange
<1>5. ASSUME NEW t \in Tx, FailAttempt(t) PROVE AbortsForAChange'
  <2>1. HandleTransactionError(t, TRUE) \/ HandleTransactionError(t, FALSE)
    BY <1>5 DEF FailAttempt
  <2> QED
    BY <1>1, <1>5, <2>1 DEF FailAttempt
<1>6. ASSUME NEW t \in Tx, Commit(t) PROVE AbortsForAChange'
  BY <1>1, <1>6 DEF Commit, AbortsForAChange
<1>7. ASSUME NEW t \in Tx, LoseAnswer(t) PROVE AbortsForAChange'
  BY <1>1, <1>7 DEF LoseAnswer
<1>8. ASSUME NEW t \in Tx, DispatchResult(t) PROVE AbortsForAChange'
  <2>1. CASE Return(t, "done")
    BY <1>0, <1>8, <2>1 DEF DispatchResult, Return
  <2>2. CASE HandleTransactionError(t, TRUE) \/ HandleTransactionError(t, FALSE)
    BY <1>1, <1>8, <2>2 DEF DispatchResult
  <2> QED
    BY <1>8, <2>1, <2>2 DEF DispatchResult
<1>9. ASSUME NEW t \in Tx, Kill(t) PROVE AbortsForAChange'
  BY <1>0, <1>9 DEF Kill, Return
<1>10. ASSUME NEW c \in commits, Apply(c) PROVE AbortsForAChange'
  BY <1>10 DEF Apply, AbortsForAChange
<1>11. ASSUME NEW c \in commits, Reject(c) PROVE AbortsForAChange'
  <2>1. UNCHANGED <<docs, changed>> /\ c.tx \in Tx
    BY <1>11 DEF Reject, TypeOK
  <2>2. CASE Aborts(c) /\ Answer(c, "aborted")
    <3>1. ASSUME NEW t \in Tx, answer'[t] # answer[t], t \notin changed PROVE FALSE
      <4>1. t = c.tx /\ pc[t] = "committing" /\ c.attempt = attempts[t]
        BY <2>2, <3>1, AnswerAttempt
      <4>2. c.read = trans[t].read
        BY <4>1 DEF AttemptInv, Sent
      <4>3. \A d \in Doc : c.read[d] # Unread => docs[d].version = c.read[d]
        BY <3>1, <4>1, <4>2 DEF AttemptInv, Current
      <4>4. \A i \in Writes(c.tx) : DocOf(c.tx, i) \in Doc
        BY <2>1, BodyType
      <4> QED
        BY <2>2, <4>3, <4>4 DEF Aborts, OfRead, VersionHolds, Unwritten
    <3> QED
      BY <2>1, <3>1 DEF AbortsForAChange
  <2>3. CASE Answer(c, "notFound")
    BY <2>1, <2>3, AnswerAttempt DEF AbortsForAChange
  <2> QED
    BY <1>11, <2>2, <2>3 DEF Reject
<1>12. CASE UNCHANGED vars
  BY <1>12 DEF vars, callVars, AbortsForAChange
<1> QED
  BY <1>2, <1>3, <1>4, <1>5, <1>6, <1>7, <1>8, <1>9, <1>10, <1>11, <1>12 DEF Next, Step

\* The code behaviour: the preconditions of CreatePrecondition and the
\* verifications of Commit are the versions RecordVersion has kept.
THEOREM NoAbortWithoutChange == Spec => []AbortsForAChange
<1>1. Init => AbortsForAChange
  BY DEF Init, AbortsForAChange
<1> QED
  BY <1>1, AbortsStep, AttemptHolds, PTL DEF Spec

(***************************************************************************)
(* Effects: each commit takes effect at most once, and each call answers    *)
(* for one commit at most, the others being lost.                           *)
(***************************************************************************)

Of(t) == {c \in commits : c.tx = t}

\* One commit of a call may yet be answered, or has been.
Known(t) ==
    IF pc[t] = "done" \/ (pc[t] = "committing" /\ answer[t] \in {"none", "ok"}) THEN 1 ELSE 0

Room(t) == effects[t] + Cardinality(Of(t)) <= lost[t] + Known(t)

Underway(t) ==
    pc[t] = "committing" /\ answer[t] = "none" => \E c \in Of(t) : c.attempt = attempts[t]

Told(t) == answer[t] = "ok" \/ pc[t] = "done" => effects[t] >= 1

CountInv ==
    /\ IsFiniteSet(commits)
    /\ \A t \in Tx : Room(t) /\ Underway(t) /\ Told(t)

LEMMA OfFinite ==
  ASSUME IsFiniteSet(commits), NEW t \in Tx
  PROVE  IsFiniteSet(Of(t)) /\ Cardinality(Of(t)) \in Nat
  BY FS_Subset, FS_CardinalityType DEF Of

\* A call leaves its attempt; if the answer is open, as lost.
LEMMA LeaveCount ==
  ASSUME TypeOK, CountInv, NEW t \in Tx, NEW where, Leave(t, where),
         where \in {"backoff", "done", "failed", "killed"},
         attempts' = attempts \/ attempts' = [attempts EXCEPT ![t] = @ + 1],
         UNCHANGED <<commits, effects>>,
         \/ lost' = [lost EXCEPT ![t] = @ + 1] /\ where # "done"
         \/ lost' = lost /\ where # "done" /\ Known(t) = 0
         \/ lost' = lost /\ where = "done" /\ pc[t] = "committing" /\ answer[t] = "ok"
  PROVE  CountInv'
<1>1. \A u \in Tx : /\ pc'[u] = IF u = t THEN where ELSE pc[u]
                    /\ answer'[u] = IF u = t THEN "none" ELSE answer[u]
                    /\ lost[u] \in Nat /\ effects[u] \in Nat
                    /\ u # t => lost'[u] = lost[u]
                    /\ u = t => lost'[u] = IF lost' = lost THEN lost[u] ELSE lost[u] + 1
  BY DEF TypeOK, Leave
<1>2. \A u \in Tx : Of(u)' = Of(u) /\ Cardinality(Of(u)) \in Nat
  BY OfFinite DEF Of, CountInv
<1>3. \A u \in Tx : Told(u)'
  BY <1>1 DEF CountInv, Told
<1>4. ASSUME NEW u \in Tx PROVE Room(u)'
  <2>1. Known(u) \in {0, 1} /\ Known(u)' \in {0, 1}
    BY DEF Known
  <2>2. Room(u)
    BY DEF CountInv
  <2>3. CASE u # t
    <3>1. Known(u)' = Known(u) /\ lost'[u] = lost[u]
      BY <1>1, <2>3 DEF Known
    <3> QED
      BY <1>1, <1>2, <2>1, <2>2, <3>1 DEF Room
  <2>4. CASE u = t /\ lost' = lost
    <3>1. lost'[t] # lost[t] + 1
      BY <1>1, <2>4
    <3>2. lost' # [lost EXCEPT ![t] = @ + 1]
      BY <3>1 DEF TypeOK
    <3>3. Known(t)' = Known(t)
      BY <1>1, <2>4, <3>2 DEF Known
    <3> QED
      BY <1>1, <1>2, <2>1, <2>2, <2>4, <3>3 DEF Room
  <2>5. CASE u = t /\ lost' # lost
    <3>1. lost'[u] = lost[u] + 1
      BY <1>1, <2>5
    <3> QED
      BY <1>1, <1>2, <2>1, <2>2, <3>1 DEF Room
  <2> QED
    BY <2>3, <2>4, <2>5
<1>5. ASSUME NEW u \in Tx PROVE Underway(u)'
  <2>1. CASE u = t
    BY <1>1, <2>1 DEF Underway
  <2>2. CASE u # t
    <3>1. attempts'[u] = attempts[u]
      BY <2>2 DEF TypeOK
    <3> QED
      BY <1>1, <1>2, <2>2, <3>1 DEF CountInv, Underway
  <2> QED
    BY <2>1, <2>2
<1> QED
  BY <1>3, <1>4, <1>5 DEF CountInv

\* A commit is handled: it is one of its call's no more.
LEMMA HandledCount ==
  ASSUME TypeOK, CountInv, AttemptInv, NEW c \in commits, commits' = commits \ {c},
         UNCHANGED <<pc, attempts, lost>>,
         \/ /\ Answer(c, "ok") /\ effects' = [effects EXCEPT ![c.tx] = @ + 1]
         \/ /\ Answer(c, "aborted") \/ Answer(c, "notFound")
            /\ UNCHANGED effects
  PROVE  CountInv'
<1>1. c.tx \in Tx /\ IsFiniteSet(commits')
  BY FS_RemoveElement DEF TypeOK, CountInv
<1>2. \A u \in Tx : /\ u # c.tx => Of(u)' = Of(u)
                    /\ u = c.tx => Cardinality(Of(u)') = Cardinality(Of(u)) - 1
                    /\ Cardinality(Of(u)) \in Nat
  <2> TAKE u \in Tx
  <2>1. IsFiniteSet(Of(u)) /\ Cardinality(Of(u)) \in Nat
    BY OfFinite DEF CountInv
  <2>2. CASE u = c.tx
    <3>1. Of(u)' = Of(u) \ {c} /\ c \in Of(u)
      BY <2>2 DEF Of
    <3> QED
      BY <2>1, <2>2, <3>1, FS_RemoveElement
  <2>3. CASE u # c.tx
    BY <2>1, <2>3 DEF Of
  <2> QED
    BY <2>2, <2>3
<1>3. \A u \in Tx : /\ effects[u] \in Nat /\ lost[u] \in Nat
                    /\ effects'[u] \in {effects[u], effects[u] + 1}
                    /\ u # c.tx => effects'[u] = effects[u]
  BY DEF TypeOK
<1>4. PICK reply \in {"ok", "aborted", "notFound"} :
         /\ Answer(c, reply)
         /\ reply = "ok" => effects' = [effects EXCEPT ![c.tx] = @ + 1]
         /\ reply # "ok" => UNCHANGED effects
  OBVIOUS
<1>5. \A u \in Tx : \/ answer'[u] = answer[u]
                    \/ /\ u = c.tx /\ pc[u] = "committing" /\ c.attempt = attempts[u]
                       /\ answer[u] = "none" /\ answer'[u] = reply
  BY <1>4, AnswerAttempt
<1>6. ASSUME NEW u \in Tx PROVE Room(u)'
  <2>1. Known(u) \in {0, 1} /\ Known(u)' \in {0, 1} /\ Room(u)
    BY DEF Known, CountInv
  <2>2. CASE u # c.tx
    <3>1. Known(u)' = Known(u)
      BY <1>5, <2>2 DEF Known
    <3> QED
      BY <1>2, <1>3, <2>1, <2>2, <3>1 DEF Room
  <2>3. CASE u = c.tx /\ reply # "ok"
    <3>1. effects'[u] = effects[u]
      BY <1>4, <2>3
    <3> QED
      BY <1>2, <1>3, <2>1, <2>3, <3>1 DEF Room
  <2>4. CASE u = c.tx /\ reply = "ok"
    <3>1. Known(u)' = Known(u)
      BY <1>5, <2>4 DEF Known
    <3> QED
      BY <1>2, <1>3, <2>1, <2>4, <3>1 DEF Room
  <2> QED
    BY <2>2, <2>3, <2>4
<1>7. ASSUME NEW u \in Tx PROVE Underway(u)'
  <2>1. SUFFICES ASSUME pc[u] = "committing", answer'[u] = "none"
                 PROVE  \E b \in Of(u)' : b.attempt = attempts[u]
    BY DEF Underway
  <2>2. answer[u] = "none"
    BY <1>4, <1>5, <2>1
  <2>3. PICK b \in Of(u) : b.attempt = attempts[u]
    BY <2>1, <2>2 DEF CountInv, Underway
  <2>4. b # c
    BY <1>1, <1>4, <2>1, <2>3 DEF Answer, Of, TypeOK
  <2> QED
    BY <2>3, <2>4 DEF Of
<1>8. ASSUME NEW u \in Tx PROVE Told(u)'
  <2>1. Told(u)
    BY DEF CountInv
  <2>2. CASE answer'[u] = answer[u]
    BY <1>3, <2>1, <2>2 DEF Told
  <2>3. CASE u = c.tx /\ answer'[u] = reply
    <3>1. reply = "ok" => effects'[u] = effects[u] + 1
      BY <1>4, <2>3 DEF TypeOK
    <3>2. CASE pc[u] = "done"
      BY <1>3, <2>1, <3>2 DEF Told
    <3>3. CASE pc[u] # "done"
      BY <1>3, <2>3, <3>1, <3>3 DEF Told
    <3> QED
      BY <3>2, <3>3
  <2> QED
    BY <1>5, <2>2, <2>3
<1> QED
  BY <1>1, <1>6, <1>7, <1>8 DEF CountInv

LEMMA CountInit == Init => CountInv
<1> SUFFICES ASSUME Init PROVE CountInv
  OBVIOUS
<1>1. IsFiniteSet(commits) /\ \A t \in Tx : Cardinality(Of(t)) = 0
  BY FS_EmptySet DEF Init, Of
<1>2. \A t \in Tx : effects[t] = 0 /\ lost[t] = 0 /\ pc[t] = "idle" /\ answer[t] = "none"
  BY DEF Init
<1> QED
  BY <1>1, <1>2 DEF CountInv, Room, Known, Underway, Told

LEMMA CountStep == TypeOK /\ AttemptInv /\ CountInv /\ [Next]_vars => CountInv'
<1> SUFFICES ASSUME TypeOK, AttemptInv, CountInv, [Next]_vars PROVE CountInv'
  OBVIOUS
<1>0. ASSUME NEW t \in Tx, HandleTransactionError(t, TRUE) \/ HandleTransactionError(t, FALSE),
             UNCHANGED <<commits, effects>>,
             \/ lost' = [lost EXCEPT ![t] = @ + 1]
             \/ lost' = lost /\ Known(t) = 0
      PROVE  CountInv'
  BY <1>0, ErrorLeaves, LeaveCount
<1>1. ASSUME NEW t \in Tx, Call(t) PROVE CountInv'
  BY <1>1, LeaveCount DEF Call, Run, Known
<1>2. ASSUME UNCHANGED <<commits, effects, lost, attempts, answer>>,
             \A u \in Tx : pc'[u] = pc[u] \/ (pc[u] = "backoff" /\ pc'[u] = "reading")
      PROVE CountInv'
  <2>1. \A u \in Tx : Of(u)' = Of(u) /\ Known(u)' = Known(u)
    BY <1>2 DEF Of, Known
  <2> QED
    BY <1>2, <2>1 DEF CountInv, Room, Underway, Told
<1>3. ASSUME NEW t \in Tx, Begin(t) PROVE CountInv'
  <2>1. /\ UNCHANGED <<commits, effects, lost, attempts, answer>>
        /\ \A u \in Tx : pc'[u] = pc[u] \/ (pc[u] = "backoff" /\ pc'[u] = "reading")
    BY <1>3 DEF Begin, TypeOK
  <2> QED
    BY <1>2, <2>1
<1>3a. ASSUME NEW t \in Tx, Lookup(t) PROVE CountInv'
  <2>1. CASE UNCHANGED <<pc, attempts, answer>>
    <3>1. /\ UNCHANGED <<commits, effects, lost, attempts, answer>>
          /\ \A u \in Tx : pc'[u] = pc[u] \/ (pc[u] = "backoff" /\ pc'[u] = "reading")
      BY <1>3a, <2>1 DEF Lookup
    <3> QED
      BY <1>2, <3>1
  <2>2. CASE HandleTransactionError(t, TRUE)
    BY <1>0, <1>3a, <2>2 DEF Lookup, Known
  <2> QED
    BY <1>3a, <2>1, <2>2 DEF Lookup
<1>4. ASSUME NEW t \in Tx, FailAttempt(t) PROVE CountInv'
  <2>1. HandleTransactionError(t, TRUE) \/ HandleTransactionError(t, FALSE)
    BY <1>4 DEF FailAttempt
  <2> QED
    BY <1>0, <1>4, <2>1 DEF FailAttempt, Known
<1>5. ASSUME NEW t \in Tx, Commit(t) PROVE CountInv'
  <2> DEFINE C == [tx |-> t, attempt |-> attempts[t],
                   read |-> trans[t].read, seen |-> trans[t].seen]
  <2>1. pc[t] = "reading" /\ UNCHANGED <<effects, lost>>
    BY <1>5 DEF Commit
  <2>2. CASE HandleTransactionError(t, FALSE) /\ UNCHANGED commits
    BY <1>0, <2>1, <2>2 DEF Known
  <2>3. CASE /\ pc' = [pc EXCEPT ![t] = "committing"]
             /\ commits' = commits \union {C}
             /\ UNCHANGED <<attempts, trans, answer>>
    <3>1. C.tx = t /\ C.attempt = attempts[t]
      OBVIOUS
    <3> HIDE DEF C
    <3>2. \A u \in Tx : /\ pc'[u] = IF u = t THEN "committing" ELSE pc[u]
                        /\ effects[u] \in Nat /\ lost[u] \in Nat
      BY <2>3 DEF TypeOK
    <3>3. answer[t] = "none"
      BY <2>1 DEF AttemptInv, Waiting
    <3>4. IsFiniteSet(commits')
      BY <2>3, FS_AddElement DEF CountInv
    <3>5. \A u \in Tx : /\ u # t => Of(u)' = Of(u)
                        /\ u = t => /\ C \in Of(u)'
                                    /\ Cardinality(Of(u)') <= Cardinality(Of(u)) + 1
                                    /\ Cardinality(Of(u)') \in Nat
                        /\ Cardinality(Of(u)) \in Nat
      <4> TAKE u \in Tx
      <4>1. IsFiniteSet(Of(u)) /\ Cardinality(Of(u)) \in Nat
        BY OfFinite DEF CountInv
      <4>2. CASE u = t
        <5>1. Of(u)' = Of(u) \union {C}
          BY <2>3, <3>1, <4>2 DEF Of
        <5> QED
          BY <4>1, <4>2, <5>1, FS_AddElement
      <4>3. CASE u # t
        BY <2>3, <3>1, <4>1, <4>3 DEF Of
      <4> QED
        BY <4>2, <4>3
    <3>6. \A u \in Tx : Told(u)'
      BY <2>1, <2>3, <3>2, <3>3 DEF CountInv, Told
    <3>7. \A u \in Tx : Underway(u)'
      BY <2>3, <3>1, <3>2, <3>5 DEF CountInv, Underway
    <3>8. ASSUME NEW u \in Tx PROVE Room(u)'
      <4>1. Room(u) /\ Known(u) \in {0, 1}
        BY DEF CountInv, Known
      <4>2. CASE u = t
        <5>1. Known(u) = 0 /\ Known(u)' = 1
          BY <2>1, <2>3, <3>2, <3>3, <4>2 DEF Known
        <5> QED
          BY <2>1, <3>2, <3>5, <4>1, <4>2, <5>1 DEF Room
      <4>3. CASE u # t
        <5>1. Known(u)' = Known(u)
          BY <2>3, <3>2, <4>3 DEF Known
        <5> QED
          BY <2>1, <3>2, <3>5, <4>1, <4>3, <5>1 DEF Room
      <4> QED
        BY <4>2, <4>3
    <3> QED
      BY <3>4, <3>6, <3>7, <3>8 DEF CountInv
  <2> QED
    BY <1>5, <2>2, <2>3 DEF Commit
<1>6. ASSUME NEW t \in Tx, LoseAnswer(t) PROVE CountInv'
  BY <1>0, <1>6 DEF LoseAnswer
<1>7. ASSUME NEW t \in Tx, DispatchResult(t) PROVE CountInv'
  <2>1. pc[t] = "committing" /\ answer[t] # "none" /\ UNCHANGED <<commits, effects, lost>>
    BY <1>7 DEF DispatchResult
  <2>2. CASE answer[t] = "ok" /\ Return(t, "done")
    BY <2>1, <2>2, LeaveCount DEF Return
  <2>3. CASE answer[t] # "ok" /\ HandleTransactionError(t, answer[t] = "aborted")
    <3>1. Known(t) = 0
      BY <2>1, <2>3 DEF Known
    <3>2. HandleTransactionError(t, TRUE) \/ HandleTransactionError(t, FALSE)
      BY <2>3
    <3> QED
      BY <1>0, <2>1, <3>1, <3>2
  <2> QED
    BY <1>7, <2>2, <2>3 DEF DispatchResult
<1>8. ASSUME NEW t \in Tx, Kill(t) PROVE CountInv'
  <2>1. /\ Leave(t, "killed") /\ attempts' = attempts /\ UNCHANGED <<commits, effects>>
        /\ lost' = [lost EXCEPT ![t] = IF pc[t] = "committing" THEN @ + 1 ELSE @]
        /\ pc[t] \in {"backoff", "reading", "committing"}
    BY <1>8 DEF Kill, Return
  <2>2. CASE pc[t] = "committing"
    BY <2>1, <2>2, LeaveCount
  <2>3. CASE pc[t] # "committing"
    <3>1. lost' = lost /\ Known(t) = 0
      BY <2>1, <2>3 DEF Known, TypeOK
    <3> QED
      BY <2>1, <3>1, LeaveCount
  <2> QED
    BY <2>2, <2>3
<1>9. ASSUME NEW c \in commits, Apply(c) PROVE CountInv'
  BY <1>9, HandledCount DEF Apply, callVars
<1>10. ASSUME NEW c \in commits, Reject(c) PROVE CountInv'
  BY <1>10, HandledCount DEF Reject, callVars
<1>11. CASE UNCHANGED vars
  <2>1. UNCHANGED <<pc, attempts, commits, answer, effects, lost>>
    BY <1>11 DEF vars, callVars
  <2>2. \A u \in Tx : Of(u)' = Of(u) /\ Known(u)' = Known(u)
    BY <2>1 DEF Of, Known
  <2> QED
    BY <2>1, <2>2 DEF CountInv, Room, Underway, Told
<1> QED
  BY <1>1, <1>3, <1>3a, <1>4, <1>5, <1>6, <1>7, <1>8, <1>9, <1>10, <1>11 DEF Next, Step

\* The code behaviour: Run makes another attempt after an answer it did not
\* get, so that a call has at most one effect more than it lost answers of.
THEOREM OutcomeTellsEffect == Spec => []AnswerTellsEffect
<1>1. TypeOK /\ CountInv => AnswerTellsEffect
  <2> SUFFICES ASSUME TypeOK, CountInv, NEW t \in Tx
               PROVE  /\ effects[t] <= lost[t] + IF answer[t] = "ok" \/ pc[t] = "done" THEN 1 ELSE 0
                      /\ pc[t] = "done" => effects[t] >= 1
    BY DEF AnswerTellsEffect
  <2>1. IsFiniteSet(Of(t)) /\ Cardinality(Of(t)) \in Nat /\ effects[t] \in Nat /\ lost[t] \in Nat
    BY OfFinite DEF CountInv, TypeOK
  <2>2. Room(t) /\ Underway(t) /\ Told(t)
    BY DEF CountInv
  <2>3. CASE answer[t] = "ok" \/ pc[t] = "done"
    BY <2>1, <2>2, <2>3 DEF Room, Known, Told
  <2>4. CASE answer[t] # "ok" /\ pc[t] = "committing" /\ answer[t] = "none"
    <3>1. Cardinality(Of(t)) # 0
      BY <2>1, <2>2, <2>4, FS_EmptySet DEF Underway
    <3> QED
      BY <2>1, <2>2, <2>4, <3>1 DEF Room, Known
  <2>5. CASE answer[t] # "ok" /\ pc[t] # "done" /\ ~(pc[t] = "committing" /\ answer[t] = "none")
    <3>1. Known(t) = 0
      BY <2>5 DEF Known
    <3> QED
      BY <2>1, <2>2, <2>5, <3>1 DEF Room
  <2> QED
    BY <2>3, <2>4, <2>5
<1> QED
  BY <1>1, CountInit, CountStep, AttemptHolds, PTL DEF Spec
=============================================================================
