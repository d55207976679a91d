------------------------ MODULE UserAccount_proofs ------------------------
(* What holds of UserAccount for any devices, documents and profiles.       *)
EXTENDS UserAccount, SequenceTheorems, TLAPS

----------------------------------------------------------------------------
(* Mutation queues.                                                         *)

Elements(q) == {q[k] : k \in DOMAIN q}

\* An add stands in a queue once: the id of its document is new.
AddsOnce(q) == \A k, l \in DOMAIN q : q[k].op = "add" /\ q[k] = q[l] => k = l

LEMMA AppendedQueue ==
    ASSUME NEW q \in Seq(Write), NEW w \in Write
    PROVE  /\ Append(q, w) \in Seq(Write)
           /\ Elements(Append(q, w)) = Elements(q) \union {w}
           /\ AddsOnce(q) /\ (w.op = "add" => w \notin Elements(q)) => AddsOnce(Append(q, w))
<1> DEFINE r == Append(q, w)
<1>1. /\ r \in Seq(Write) /\ DOMAIN r = 1..(Len(q) + 1)
      /\ DOMAIN q = 1..Len(q) /\ Len(q) \in Nat
      /\ \A k \in 1..Len(q) : r[k] = q[k]
      /\ r[Len(q) + 1] = w
  BY AppendProperties
<1>2. Elements(r) = Elements(q) \union {w}
  BY <1>1 DEF Elements
<1>3. AddsOnce(q) /\ (w.op = "add" => w \notin Elements(q)) => AddsOnce(r)
  BY <1>1 DEF AddsOnce, Elements
<1> QED  BY <1>1, <1>2, <1>3

LEMMA ShortenedQueue ==
    ASSUME NEW q \in Seq(Write), q # <<>>
    PROVE  /\ Head(q) \in Elements(q) /\ Head(q) \in Write
           /\ Tail(q) \in Seq(Write)
           /\ Elements(q) = Elements(Tail(q)) \union {Head(q)}
           /\ AddsOnce(q) =>
                AddsOnce(Tail(q)) /\ (Head(q).op = "add" => Head(q) \notin Elements(Tail(q)))
<1> DEFINE r == Tail(q)
<1>1. /\ r \in Seq(Write) /\ Len(q) \in Nat \ {0}
      /\ DOMAIN q = 1..Len(q) /\ DOMAIN r = 1..(Len(q) - 1)
      /\ \A k \in 1..(Len(q) - 1) : r[k] = q[k + 1]
      /\ Head(q) = q[1]
  BY HeadTailProperties
<1>2. Head(q) \in Elements(q) /\ Head(q) \in Write
  BY <1>1 DEF Elements
<1>3. Elements(r) \subseteq Elements(q)
  BY <1>1 DEF Elements
<1>4. \A v \in Elements(q) \ {Head(q)} : v \in Elements(r)
  <2> SUFFICES ASSUME NEW k \in 1..Len(q), q[k] # Head(q) PROVE q[k] \in Elements(r)
    BY <1>1 DEF Elements
  <2>1. k - 1 \in 1..(Len(q) - 1) /\ r[k - 1] = q[k]
    BY <1>1
  <2> QED  BY <1>1, <2>1 DEF Elements
<1>5. ASSUME AddsOnce(q)
      PROVE  AddsOnce(r) /\ (Head(q).op = "add" => Head(q) \notin Elements(r))
  BY <1>1, <1>5 DEF AddsOnce, Elements
<1> QED  BY <1>1, <1>2, <1>3, <1>4, <1>5

\* What is queued after a write was appended.
LEMMA Appended ==
    ASSUME TypeOK, NEW d \in Device, NEW w \in Write,
           queue' = [queue EXCEPT ![d] = Append(@, w)]
    PROVE  /\ queue' \in [Device -> Seq(Write)]
           /\ \A e \in Device : Queued(e)' = IF e = d THEN Queued(d) \union {w} ELSE Queued(e)
<1>1. queue[d] \in Seq(Write)
  BY DEF TypeOK
<1>2. queue' \in [Device -> Seq(Write)] /\ queue'[d] = Append(queue[d], w)
  BY <1>1, AppendedQueue DEF TypeOK
<1>3. \A e \in Device : e # d => queue'[e] = queue[e]
  BY DEF TypeOK
<1>4. Elements(queue'[d]) = Elements(queue[d]) \union {w}
  BY <1>1, <1>2, AppendedQueue
<1> QED  BY <1>2, <1>3, <1>4 DEF Queued, Elements

\* What is queued after the first write was dropped.
LEMMA Shortened ==
    ASSUME TypeOK, NEW d \in Device, queue[d] # <<>>,
           queue' = [queue EXCEPT ![d] = Tail(@)]
    PROVE  /\ queue' \in [Device -> Seq(Write)]
           /\ Head(queue[d]) \in Queued(d) /\ Head(queue[d]) \in Write
           /\ Queued(d) = Queued(d)' \union {Head(queue[d])}
           /\ \A e \in Device \ {d} : Queued(e)' = Queued(e)
<1>1. queue[d] \in Seq(Write)
  BY DEF TypeOK
<1>2. queue' \in [Device -> Seq(Write)] /\ queue'[d] = Tail(queue[d])
  BY <1>1, ShortenedQueue DEF TypeOK
<1>3. \A e \in Device \ {d} : queue'[e] = queue[e]
  BY DEF TypeOK
<1>4. /\ Elements(queue[d]) = Elements(queue'[d]) \union {Head(queue[d])}
      /\ Head(queue[d]) \in Elements(queue[d]) /\ Head(queue[d]) \in Write
  BY <1>1, <1>2, ShortenedQueue
<1>5. \A e \in Device : Queued(e) = Elements(queue[e]) /\ Queued(e)' = Elements(queue'[e])
  BY DEF Queued, Elements
<1> QED  BY <1>2, <1>3, <1>4, <1>5

LEMMA SameQueued ==
    ASSUME queue' = queue
    PROVE  \A d \in Device : Queued(d)' = Queued(d)
BY DEF Queued

LEMMA PendingIs ==
    \A w : w \in Pending <=> w \in late \/ \E d \in Device : w \in Queued(d)
BY DEF Pending

\* A write that waits in a queue or was left to the server is one.
LEMMA PendingType ==
    ASSUME TypeOK
    PROVE  Pending \subseteq Write /\ AddedBy(Pending) \subseteq DocId
<1>1. \A d \in Device : Queued(d) \subseteq Write
  <2> SUFFICES ASSUME NEW d \in Device PROVE Queued(d) \subseteq Write
    OBVIOUS
  <2>1. queue[d] \in Seq(Write)
    BY DEF TypeOK
  <2> QED  BY <2>1 DEF Queued
<1>2. Pending \subseteq Write
  BY <1>1, PendingIs DEF TypeOK
<1> QED  BY <1>2 DEF AddedBy, Write

----------------------------------------------------------------------------
(* Documents.                                                               *)

\* A query with limit(1) answers with a document it found.
LEMMA FirstFound ==
    ASSUME NEW S \in SUBSET DocId, S # {}
    PROVE  First(S) \in S
<1>1. PICK i \in S : \A j \in S : i <= j
  BY ConstantsAssumption
<1> QED  BY <1>1 DEF First

\* What a query finds is on the server, or the device adds it itself.
LEMMA FindableIs ==
    ASSUME NEW d \in Device, NEW found \in Findable(d)
    PROVE  found \subseteq Existing \union AddedBy(Queued(d))
BY DEF Findable

LEMMA ExistingType == Existing \subseteq DocId
BY DEF Existing

\* A document exists if its content is a profile.
LEMMA ExistingIsProfile ==
    ASSUME docs \in [DocId -> Profile \union {NoDoc}]
    PROVE  \A i \in DocId : i \in Existing <=> docs[i] \in Profile
BY ConstantsAssumption DEF Existing

\* A step that keeps the documents keeps what is known of them.
LEMMA SameExisting ==
    ASSUME docs' = docs
    PROVE  Existing' = Existing
BY DEF Existing

\* What handling a write, first or again, does to the documents.
LEMMA Applied ==
    ASSUME TypeOK, NEW w \in Write, Apply(w)
    PROVE  /\ docs' \in [DocId -> Profile \union {NoDoc}]
           /\ Existing' = IF w.op = "add" THEN Existing \union {w.doc} ELSE Existing
           /\ \A i \in DocId : docs'[i] # docs[i] => i = w.doc /\ docs'[i] = w.form
<1>1. w.doc \in DocId /\ w.form \in Profile
  BY DEF Write
<1>2. CASE w.op = "add" \/ w.doc \in Existing
  <2>1. docs' = [docs EXCEPT ![w.doc] = w.form]
    BY <1>2 DEF Apply
  <2>2. docs' \in [DocId -> Profile \union {NoDoc}]
    BY <1>1, <2>1 DEF TypeOK
  <2>3. \A i \in DocId : docs'[i] = IF i = w.doc THEN w.form ELSE docs[i]
    BY <1>1, <2>1 DEF TypeOK
  <2>4. \A i \in DocId : i \in Existing' <=> i \in Existing \/ i = w.doc
    BY <1>1, <2>3, ConstantsAssumption DEF Existing
  <2>5. Existing' = Existing \union {w.doc}
    BY <1>1, <2>4 DEF Existing
  <2> QED  BY <1>2, <2>2, <2>3, <2>5
<1>3. CASE ~(w.op = "add" \/ w.doc \in Existing)
  <2>1. docs' = docs
    BY <1>3 DEF Apply
  <2> QED  BY <1>3, <2>1, SameExisting DEF TypeOK
<1> QED  BY <1>2, <1>3

----------------------------------------------------------------------------
(* Types.                                                                   *)

\* How a call ends, whatever it was.
LEMMA ReturnType ==
    ASSUME TypeOK, NEW d \in Device, Return(d)
    PROVE  /\ pc' \in [Device -> {"idle", "google", "lookup", "query", "write",
                                  "signOut", "googleOut"}]
           /\ job' \in [Device -> {"none", "login", "logout", "edit", "photo"}]
           /\ form' \in [Device -> Profile]
BY ConstantsAssumption DEF TypeOK, Return

LEMMA SavedType ==
    ASSUME TypeOK, NEW d \in Device, Saved(d)
    PROVE  /\ Return(d)
           /\ loading' \subseteq Device
           /\ result' \in [Device -> {"none", "success"}]
BY DEF TypeOK, Saved

\* The write a call queues.
CallWrite(d, op, i) == [op |-> op, doc |-> i, form |-> form[d], login |-> job[d] = "login"]

LEMMA EnqueueIs ==
    ASSUME TypeOK, NEW d \in Device, NEW op \in {"add", "update"}, NEW i \in DocId,
           Enqueue(d, op, i)
    PROVE  /\ CallWrite(d, op, i) \in Write
           /\ queue' = [queue EXCEPT ![d] = Append(@, CallWrite(d, op, i))]
           /\ pc' = [pc EXCEPT ![d] = "write"]
           /\ form' \in [Device -> Profile]
           /\ job' = job
BY ConstantsAssumption DEF TypeOK, Enqueue, CallWrite, Goto, Write

\* The three ways a save's query ends.
LEMMA QueryIs ==
    ASSUME TypeOK, NEW d \in Device, Query(d)
    PROVE  \/ \E i \in Existing \union AddedBy(Queued(d)) :
                i \in DocId /\ Enqueue(d, "update", i) /\ blind' = blind
           \/ job[d] = "photo" /\ Return(d) /\ queue' = queue /\ blind' = blind
           \/ \E i \in DocId \ (Existing \union AddedBy(Pending)) :
                Enqueue(d, "add", i) /\ FoundNone(d)
<1>1. PICK found \in Findable(d) :
        IF found # {}
        THEN Enqueue(d, "update", First(found)) /\ UNCHANGED blind
        ELSE IF job[d] = "photo"
        THEN Return(d) /\ UNCHANGED <<queue, blind>>
        ELSE /\ \E i \in DocId \ (Existing \union AddedBy(Pending)) : Enqueue(d, "add", i)
             /\ FoundNone(d)
  BY DEF Query
<1>2. found \subseteq Existing \union AddedBy(Queued(d))
  BY FindableIs
<1>3. AddedBy(Queued(d)) \subseteq DocId
  BY PendingType, PendingIs DEF AddedBy
<1>4. CASE found # {}
  <2>1. First(found) \in found /\ found \subseteq DocId
    BY <1>2, <1>3, <1>4, ExistingType, FirstFound
  <2> QED  BY <1>1, <1>2, <1>4, <2>1
<1> QED  BY <1>1, <1>4

\* TypeOK: the state keeps its types, whatever order the devices' calls take.
THEOREM TypeCorrect == Spec => []TypeOK
<1>1. Init => TypeOK
  <2> SUFFICES ASSUME Init PROVE TypeOK
    OBVIOUS
  <2>1. queue \in [Device -> Seq(Write)]
    BY EmptySeq DEF Init
  <2>2. docs \in [DocId -> Profile \union {NoDoc}] /\ form \in [Device -> Profile]
    BY ConstantsAssumption DEF Init
  <2> QED  BY <2>1, <2>2 DEF Init, TypeOK
<1>2. TypeOK /\ [Next]_vars => TypeOK'
  <2> SUFFICES ASSUME TypeOK, [Next]_vars PROVE TypeOK'
    OBVIOUS
  <2>1. ASSUME NEW d \in Device, Login(d) \/ LogOut(d) PROVE TypeOK'
    BY <2>1 DEF TypeOK, Login, LogOut, Begin, serverVars, historyVars
  <2>2. ASSUME NEW d \in Device, Restart(d) PROVE TypeOK'
    <3>1. Return(d)
      BY <2>2 DEF Restart
    <3> QED  BY <2>2, <3>1, ReturnType DEF TypeOK, Restart, serverVars
  <2>3. ASSUME NEW d \in Device, Deliver(d) PROVE TypeOK'
    BY <2>3 DEF TypeOK, Deliver, serverVars, authVars, callVars, historyVars
  <2>4. ASSUME NEW d \in Device, NEW p \in Profile, Edit(d, p) PROVE TypeOK'
    BY <2>4 DEF TypeOK, Edit, Begin, serverVars, historyVars
  <2>5. ASSUME NEW d \in Device, SignIn(d) \/ SignOut(d) PROVE TypeOK'
    BY <2>5 DEF TypeOK, SignIn, SignOut, Goto, serverVars, historyVars
  <2>6. ASSUME NEW d \in Device, SignInRefused(d) \/ GoogleSignOut(d) PROVE TypeOK'
    <3>1. Return(d)
      BY <2>6 DEF SignInRefused, GoogleSignOut
    <3> QED  BY <2>6, <3>1, ReturnType
             DEF TypeOK, SignInRefused, GoogleSignOut, serverVars, historyVars
  <2>7. ASSUME NEW d \in Device, Lookup(d) PROVE TypeOK'
    <3>1. blind' \in BOOLEAN
      BY <2>7 DEF TypeOK, Lookup, FoundNone, OnItsWay
    <3>2. CASE Goto(d, "query") /\ UNCHANGED <<result, loading, job, form>>
      BY <2>7, <3>1, <3>2 DEF TypeOK, Lookup, Goto, serverVars
    <3>3. CASE Saved(d)
      BY <2>7, <3>1, <3>3, ReturnType, SavedType DEF TypeOK, Lookup, serverVars
    <3> QED  BY <2>7, <3>2, <3>3 DEF Lookup
  <2>8. ASSUME NEW d \in Device, Query(d) PROVE TypeOK'
    <3>1. blind' \in BOOLEAN
      BY <2>8, QueryIs DEF TypeOK, FoundNone, OnItsWay
    <3>2. ASSUME NEW op \in {"add", "update"}, NEW i \in DocId, Enqueue(d, op, i) PROVE TypeOK'
      <4>1. queue' \in [Device -> Seq(Write)]
        BY <3>2, EnqueueIs, Appended
      <4> QED  BY <2>8, <3>1, <3>2, <4>1, EnqueueIs DEF TypeOK, Query, authVars
    <3>3. CASE Return(d) /\ queue' = queue
      BY <2>8, <3>1, <3>3, ReturnType DEF TypeOK, Query, authVars
    <3> QED  BY <2>8, <3>2, <3>3, QueryIs
  <2>9. ASSUME NEW d \in Device, QueryError(d) PROVE TypeOK'
    <3>1. Saved(d)
      BY <2>9 DEF QueryError
    <3> QED  BY <2>9, <3>1, ReturnType, SavedType DEF TypeOK, QueryError, serverVars
  <2>10. ASSUME NEW d \in Device, LookupError(d) \/ LogOutError(d) PROVE TypeOK'
    <3>1. Return(d)
      BY <2>10 DEF LookupError, LogOutError
    <3> QED  BY <2>10, <3>1, ReturnType
             DEF TypeOK, LookupError, LogOutError, serverVars, authVars, historyVars
  <2>11. ASSUME NEW d \in Device, queue[d] # <<>>, Answered(d), late' = late,
                docs' \in [DocId -> Profile \union {NoDoc}], faulted' \in BOOLEAN,
                UNCHANGED <<fbUser, shown, blind>>
         PROVE  TypeOK'
    <3>1. queue' \in [Device -> Seq(Write)]
      BY <2>11, Shortened DEF Answered
    <3>2. CASE Saved(d)
      BY <2>11, <3>1, <3>2, ReturnType, SavedType DEF TypeOK
    <3>3. CASE UNCHANGED <<callVars, result, loading>>
      BY <2>11, <3>1, <3>3 DEF TypeOK, callVars
    <3> QED  BY <2>11, <3>2, <3>3 DEF Answered
  <2>12. ASSUME NEW d \in Device, Handle(d) PROVE TypeOK'
    <3>1. Head(queue[d]) \in Write
      BY <2>12, Shortened DEF Handle, Answered
    <3>2. docs' \in [DocId -> Profile \union {NoDoc}]
      BY <2>12, <3>1, Applied DEF Handle
    <3> QED  BY <2>11, <2>12, <3>2 DEF TypeOK, Handle, historyVars
  <2>13. ASSUME NEW d \in Device, Refuse(d) PROVE TypeOK'
    BY <2>11, <2>13 DEF TypeOK, Refuse
  <2>14. ASSUME NEW d \in Device, Lose(d) PROVE TypeOK'
    <3>1. late' \subseteq Write
      BY <2>14, PendingType, PendingIs DEF TypeOK, Lose
    <3> QED  BY <2>14, <3>1 DEF TypeOK, Lose, authVars, callVars, historyVars
  <2>15. ASSUME NEW w \in late, HandleLate(w) PROVE TypeOK'
    <3>1. docs' \in [DocId -> Profile \union {NoDoc}]
      BY <2>15, Applied DEF TypeOK, HandleLate
    <3> QED  BY <2>15, <3>1 DEF TypeOK, HandleLate, authVars, callVars, historyVars
  <2>16. CASE UNCHANGED vars
    BY <2>16 DEF TypeOK, vars, serverVars, authVars, callVars, historyVars
  <2> QED
    BY <2>1, <2>2, <2>3, <2>4, <2>5, <2>6, <2>7, <2>8, <2>9, <2>10, <2>12, <2>13,
       <2>14, <2>15, <2>16 DEF Next, Answer
<1> QED  BY <1>1, <1>2, PTL DEF Spec

----------------------------------------------------------------------------
(* The main view and Firebase's current user.                               *)

\* Why MainViewHasUser holds: a call that will end in the main view runs
\* while Firebase has a user, and a log-out holds the overlay up.
SessionInv ==
    \A d \in Device :
        /\ result[d] = "success" /\ d \notin loading => d \in fbUser
        /\ pc[d] \in {"lookup", "query", "write"} => d \in fbUser
        /\ pc[d] \in {"signOut", "googleOut"} => d \in loading

\* MainViewHasUser: no interleaving of sign-ins, log-outs, edits, errors and
\* restarts puts up the main view of a device on which nobody is signed in.
THEOREM SignedInWhileShown == Spec => []MainViewHasUser
<1>1. Init => SessionInv
  BY DEF Init, SessionInv
<1>2. TypeOK /\ SessionInv /\ [Next]_vars => SessionInv'
  <2> SUFFICES ASSUME TypeOK, SessionInv, [Next]_vars PROVE SessionInv'
    OBVIOUS
  <2>1. ASSUME NEW d \in Device, Login(d) \/ LogOut(d) PROVE SessionInv'
    BY <2>1 DEF TypeOK, SessionInv, Login, LogOut, Begin
  <2>2. ASSUME NEW d \in Device, Restart(d) PROVE SessionInv'
    BY <2>2 DEF TypeOK, SessionInv, Restart, Return
  <2>3. ASSUME NEW d \in Device, NEW p \in Profile, Edit(d, p) PROVE SessionInv'
    BY <2>3 DEF TypeOK, SessionInv, Edit, Begin
  <2>4. ASSUME NEW d \in Device, SignIn(d) PROVE SessionInv'
    BY <2>4 DEF TypeOK, SessionInv, SignIn, Goto
  <2>5. ASSUME NEW d \in Device, SignInRefused(d) PROVE SessionInv'
    BY <2>5 DEF TypeOK, SessionInv, SignInRefused, Return
  <2>6. ASSUME NEW d \in Device, pc[d] \in {"lookup", "query", "write"},
               Saved(d), UNCHANGED fbUser
        PROVE  SessionInv'
    BY <2>6 DEF TypeOK, SessionInv, Saved, Return
  <2>7. ASSUME NEW d \in Device, Lookup(d) PROVE SessionInv'
    <3>1. CASE Goto(d, "query") /\ UNCHANGED <<result, loading>>
      BY <2>7, <3>1 DEF TypeOK, SessionInv, Lookup, Goto
    <3> QED  BY <2>6, <2>7, <3>1 DEF Lookup
  <2>8. ASSUME NEW d \in Device, SignOut(d) PROVE SessionInv'
    BY <2>8 DEF TypeOK, SessionInv, SignOut, Goto
  <2>9. ASSUME NEW d \in Device, GoogleSignOut(d) PROVE SessionInv'
    BY <2>9 DEF TypeOK, SessionInv, GoogleSignOut, Return
  <2>10. ASSUME NEW d \in Device, Query(d) PROVE SessionInv'
    <3>1. pc[d] = "query" /\ UNCHANGED authVars
      BY <2>10 DEF Query
    <3>2. pc' = [pc EXCEPT ![d] = "write"] \/ pc' = [pc EXCEPT ![d] = "idle"]
      BY <2>10, QueryIs, EnqueueIs DEF Return, Enqueue, Goto
    <3> QED  BY <3>1, <3>2 DEF TypeOK, SessionInv, authVars
  <2>11. ASSUME NEW d \in Device, QueryError(d) PROVE SessionInv'
    BY <2>6, <2>11 DEF QueryError
  <2>12. ASSUME NEW d \in Device, Handle(d) \/ Refuse(d) PROVE SessionInv'
    <3>1. CASE pc[d] = "write" /\ Saved(d)
      BY <2>6, <2>12, <3>1 DEF Handle, Refuse
    <3>2. CASE UNCHANGED <<callVars, result, loading>>
      BY <2>12, <3>2 DEF SessionInv, Handle, Refuse, callVars
    <3> QED  BY <2>12, <3>1, <3>2 DEF Handle, Refuse, Answered
  <2>13. ASSUME NEW d \in Device, LookupError(d) \/ LogOutError(d) PROVE SessionInv'
    BY <2>13 DEF TypeOK, SessionInv, LookupError, LogOutError, Return, authVars
  <2>14. CASE \/ \E d \in Device : Deliver(d) \/ Lose(d)
              \/ \E w \in late : HandleLate(w)
              \/ UNCHANGED vars
    BY <2>14 DEF SessionInv, Deliver, Lose, HandleLate, vars, authVars, callVars
  <2> QED
    BY <2>1, <2>2, <2>3, <2>4, <2>5, <2>7, <2>8, <2>9, <2>10, <2>11, <2>12, <2>13, <2>14
    DEF Next, Answer
<1>3. SessionInv => MainViewHasUser
  BY DEF SessionInv, MainViewHasUser
<1> QED  BY <1>1, <1>2, <1>3, TypeCorrect, PTL DEF Spec

----------------------------------------------------------------------------
(* Adds: a document has one, which stands in one queue, once.               *)

OneAddPerDoc ==
    /\ \A d \in Device : AddsOnce(queue[d])
    /\ \A d, e \in Device : \A w \in Queued(d) :
          w.op = "add" /\ w \in Queued(e) => d = e
    /\ \A v, w \in Pending : v.op = "add" /\ w.op = "add" /\ v.doc = w.doc => v = w
    /\ \A d \in Device : \A w \in Queued(d) :
          w.op = "add" /\ w \notin late => w.doc \notin Existing

\* A step that touches no queue, no copy and no document.
LEMMA ServerUntouched ==
    ASSUME OneAddPerDoc, UNCHANGED serverVars
    PROVE  OneAddPerDoc' /\ Existing' = Existing /\ Pending' = Pending
<1>1. Pending' = Pending /\ (\A d \in Device : Queued(d)' = Queued(d)) /\ Existing' = Existing
  BY DEF Pending, Queued, Existing, serverVars
<1> QED  BY <1>1 DEF OneAddPerDoc, serverVars

\* What a call's write adds to what is pending.
LEMMA EnqueueKeeps ==
    ASSUME TypeOK, OneAddPerDoc, NEW d \in Device, NEW op \in {"add", "update"}, NEW i \in DocId,
           Enqueue(d, op, i), UNCHANGED <<docs, late>>,
           op = "add" => i \notin Existing \union AddedBy(Pending)
    PROVE  /\ OneAddPerDoc' /\ Existing' = Existing
           /\ Pending' = Pending \union {CallWrite(d, op, i)}
<1> DEFINE w == CallWrite(d, op, i)
<1>1. w \in Write /\ w.op = op /\ w.doc = i
  BY EnqueueIs DEF CallWrite
<1>2. queue' = [queue EXCEPT ![d] = Append(@, w)]
  BY EnqueueIs
<1> HIDE DEF w
<1>3. \A e \in Device : Queued(e)' = IF e = d THEN Queued(d) \union {w} ELSE Queued(e)
  BY <1>1, <1>2, Appended
<1>4. \A v : v \in Pending' <=> v \in Pending \/ v = w
  BY <1>3 DEF Pending
<1>5. Existing' = Existing
  BY SameExisting
<1>6. op = "add" => \A v \in Pending : v.op = "add" => v.doc # i
  BY DEF AddedBy
<1>7. \A e \in Device : Queued(e) \subseteq Pending
  BY PendingIs
<1>8. \A e \in Device : AddsOnce(queue'[e])
  <2>1. queue[d] \in Seq(Write) /\ Queued(d) = Elements(queue[d])
    BY DEF TypeOK, Queued, Elements
  <2>2. op = "add" => w \notin Queued(d)
    BY <1>1, <1>6, <1>7
  <2>3. AddsOnce(Append(queue[d], w))
    BY <1>1, <2>1, <2>2, AppendedQueue DEF OneAddPerDoc
  <2> QED  BY <1>2, <2>3 DEF OneAddPerDoc, TypeOK
<1>9. \A e, g \in Device : \A v \in Queued(e)' : v.op = "add" /\ v \in Queued(g)' => e = g
  BY <1>1, <1>3, <1>6, <1>7 DEF OneAddPerDoc
<1>10. \A v, u \in Pending' : v.op = "add" /\ u.op = "add" /\ v.doc = u.doc => v = u
  BY <1>1, <1>4, <1>6 DEF OneAddPerDoc
<1>11. \A e \in Device : \A v \in Queued(e)' : v.op = "add" /\ v \notin late => v.doc \notin Existing
  BY <1>1, <1>3 DEF OneAddPerDoc
<1> QED  BY <1>4, <1>5, <1>8, <1>9, <1>10, <1>11 DEF OneAddPerDoc, w

\* The first write leaves the queue, handled or refused.
LEMMA DropKeeps ==
    ASSUME TypeOK, OneAddPerDoc, NEW d \in Device, queue[d] # <<>>, Answered(d),
           late' = late,
           Apply(Head(queue[d])) \/ docs' = docs
    PROVE  OneAddPerDoc' /\ Pending' \subseteq Pending
<1> DEFINE h == Head(queue[d])
<1>1. queue' = [queue EXCEPT ![d] = Tail(@)]
  BY DEF Answered
<1>2. /\ h \in Queued(d) /\ h \in Write
      /\ Queued(d) = Queued(d)' \union {h}
      /\ \A e \in Device \ {d} : Queued(e)' = Queued(e)
  BY <1>1, Shortened
<1>3. queue[d] \in Seq(Write) /\ Queued(d)' = Elements(Tail(queue[d])) /\ AddsOnce(queue[d])
  BY <1>1 DEF TypeOK, Queued, Elements, OneAddPerDoc
<1>4. AddsOnce(Tail(queue[d])) /\ (h.op = "add" => h \notin Queued(d)')
  BY <1>3, ShortenedQueue
<1>5. \A e \in Device : AddsOnce(queue'[e])
  BY <1>1, <1>4 DEF TypeOK, OneAddPerDoc
<1>6. Existing' = Existing \/ (h.op = "add" /\ Existing' = Existing \union {h.doc})
  BY <1>2, Applied, SameExisting
<1> HIDE DEF h
<1>7. \A e \in Device : Queued(e)' \subseteq Queued(e)
  BY <1>2
<1>8. \A v : v \in Pending' => v \in Pending
  BY <1>7 DEF Pending
<1>9. h.op = "add" => \A e \in Device : h \notin Queued(e)'
  BY <1>2, <1>4, <1>7 DEF OneAddPerDoc
<1>10. \A e \in Device : \A v \in Queued(e)' : v.op = "add" /\ v \notin late => v.doc \notin Existing'
  <2> SUFFICES ASSUME NEW e \in Device, NEW v \in Queued(e)', v.op = "add", v \notin late,
                      v.doc \in Existing'
               PROVE  FALSE
    OBVIOUS
  <2>1. v \in Queued(e) /\ v.doc \notin Existing
    BY <1>7 DEF OneAddPerDoc
  <2>2. h.op = "add" /\ v.doc = h.doc
    BY <1>6, <2>1
  <2>3. v = h
    BY <1>2, <2>1, <2>2, PendingIs DEF OneAddPerDoc
  <2> QED  BY <1>9, <2>2, <2>3
<1> QED  BY <1>5, <1>7, <1>8, <1>10 DEF OneAddPerDoc

LEMMA LoseKeeps ==
    ASSUME TypeOK, OneAddPerDoc, NEW d \in Device, Lose(d)
    PROVE  OneAddPerDoc' /\ Existing' = Existing /\ Pending' = Pending
<1>1. PICK w \in Queued(d) : late' = late \union {w}
  BY DEF Lose
<1>2. (\A e \in Device : Queued(e)' = Queued(e)) /\ Existing' = Existing /\ queue' = queue
  BY DEF Lose, Queued, Existing
<1>3. \A v : v \in Pending' <=> v \in Pending
  BY <1>1, <1>2 DEF Pending
<1>4. Pending' = Pending
  BY <1>3
<1> QED  BY <1>1, <1>2, <1>4 DEF OneAddPerDoc

LEMMA LateKeeps ==
    ASSUME TypeOK, OneAddPerDoc, NEW w \in late, HandleLate(w)
    PROVE  OneAddPerDoc' /\ Pending' = Pending
<1>1. w \in Write /\ w \in Pending
  BY PendingIs DEF TypeOK
<1>2. Existing' = Existing \/ (w.op = "add" /\ Existing' = Existing \union {w.doc})
  BY <1>1, Applied DEF HandleLate
<1>3. Pending' = Pending /\ (\A e \in Device : Queued(e)' = Queued(e)) /\ queue' = queue
      /\ late' = late
  BY DEF HandleLate, Pending, Queued
<1>4. \A e \in Device : \A v \in Queued(e) : v.op = "add" /\ v \notin late => v.doc \notin Existing'
  BY <1>1, <1>2, PendingIs DEF OneAddPerDoc
<1> QED  BY <1>3, <1>4 DEF OneAddPerDoc

\* Every other step leaves queues, copies and documents alone.
Serverless(d) ==
    \/ Login(d) \/ LogOut(d) \/ Restart(d) \/ Deliver(d) \/ \E p \in Profile : Edit(d, p)
    \/ SignIn(d) \/ SignInRefused(d) \/ Lookup(d) \/ SignOut(d) \/ GoogleSignOut(d)
    \/ LookupError(d) \/ LogOutError(d) \/ QueryError(d)

LEMMA ServerlessKeeps ==
    ASSUME NEW d \in Device, Serverless(d)
    PROVE  UNCHANGED serverVars
BY DEF Serverless, Login, LogOut, Restart, Deliver, Edit, SignIn, SignInRefused, Lookup,
       SignOut, GoogleSignOut, LookupError, LogOutError, QueryError, serverVars

LEMMA NextCases ==
    ASSUME [Next]_vars
    PROVE  \/ \E d \in Device :
                Serverless(d) \/ Query(d) \/ Handle(d) \/ Refuse(d) \/ Lose(d)
           \/ \E w \in late : HandleLate(w)
           \/ UNCHANGED vars
BY DEF Next, Answer, Serverless

LEMMA OneAddInvariant == Spec => []OneAddPerDoc
<1>1. Init => OneAddPerDoc
  <2> SUFFICES ASSUME Init PROVE OneAddPerDoc
    OBVIOUS
  <2>1. (\A d \in Device : queue[d] = <<>> /\ Queued(d) = {}) /\ late = {}
    BY DEF Init, Queued
  <2>2. Pending = {}
    BY <2>1 DEF Pending
  <2> QED  BY <2>1, <2>2 DEF OneAddPerDoc, AddsOnce
<1>2. TypeOK /\ OneAddPerDoc /\ [Next]_vars => OneAddPerDoc'
  <2> SUFFICES ASSUME TypeOK, OneAddPerDoc, [Next]_vars PROVE OneAddPerDoc'
    OBVIOUS
  <2>1. ASSUME NEW d \in Device, Serverless(d) PROVE OneAddPerDoc'
    BY <2>1, ServerlessKeeps, ServerUntouched
  <2>2. ASSUME NEW d \in Device, Query(d) PROVE OneAddPerDoc'
    <3>1. UNCHANGED <<docs, late>>
      BY <2>2 DEF Query
    <3>2. CASE queue' = queue
      BY <3>1, <3>2, ServerUntouched DEF serverVars
    <3>3. ASSUME NEW i \in DocId, Enqueue(d, "update", i) PROVE OneAddPerDoc'
      BY <3>1, <3>3, EnqueueKeeps
    <3>4. ASSUME NEW i \in DocId \ (Existing \union AddedBy(Pending)), Enqueue(d, "add", i)
          PROVE  OneAddPerDoc'
      BY <3>1, <3>4, EnqueueKeeps
    <3> QED  BY <2>2, <3>2, <3>3, <3>4, QueryIs
  <2>3. ASSUME NEW d \in Device, Handle(d) \/ Refuse(d) PROVE OneAddPerDoc'
    BY <2>3, DropKeeps DEF Handle, Refuse
  <2>4. ASSUME NEW d \in Device, Lose(d) PROVE OneAddPerDoc'
    BY <2>4, LoseKeeps
  <2>5. ASSUME NEW w \in late, HandleLate(w) PROVE OneAddPerDoc'
    BY <2>5, LateKeeps
  <2>6. CASE UNCHANGED vars
    BY <2>6, ServerUntouched DEF vars, serverVars
  <2> QED  BY <2>1, <2>2, <2>3, <2>4, <2>5, <2>6, NextCases
<1> QED  BY <1>1, <1>2, TypeCorrect, PTL DEF Spec

----------------------------------------------------------------------------
(* One profile, and who changes it.                                         *)

\* A sign-in that has looked in vain and will look once more.
Looking(d) == job[d] = "login" /\ pc[d] = "query"

\* Why OneProfileUnlessBlind and OnlyEditsChange hold: as long as every empty
\* answer was right, one sign-in at a time is between its two looks, nothing
\* is or will be there before it adds, and no sign-in updates.
SightInv ==
    ~blind =>
        /\ \A i, j \in Existing \union AddedBy(Pending) : i = j
        /\ \A d \in Device : Looking(d) =>
              /\ Existing \union AddedBy(Pending) = {}
              /\ \A e \in Device : Looking(e) => e = d
        /\ \A w \in Pending : w.op = "update" => ~w.login

\* Nobody starts to look, and nothing new is pending or there.
LEMMA SightStays ==
    ASSUME SightInv, blind' = blind,
           \A d \in Device : Looking(d)' => Looking(d),
           Pending' \subseteq Pending,
           Existing' \subseteq Existing \union AddedBy(Pending)
    PROVE  SightInv'
<1>1. AddedBy(Pending') \subseteq AddedBy(Pending)
  BY DEF AddedBy
<1>2. Existing' \union AddedBy(Pending') \subseteq Existing \union AddedBy(Pending)
  BY <1>1
<1>3. AddedBy(Pending)' = AddedBy(Pending')
  BY DEF AddedBy
<1> QED  BY <1>2, <1>3 DEF SightInv

\* Nobody starts to look where a call begins, or ends.
LEMMA NobodyLooks ==
    ASSUME TypeOK, NEW d \in Device,
           \/ Return(d)
           \/ Begin(d, "login", "google") \/ Begin(d, "logout", "signOut")
           \/ Begin(d, "photo", "query") \/ Begin(d, "edit", "query")
           \/ /\ job' = job
              /\ Goto(d, "lookup") \/ Goto(d, "googleOut") \/ Goto(d, "write") \/ pc' = pc
    PROVE  \A e \in Device : Looking(e)' => Looking(e)
<1>1. CASE Return(d)
  BY <1>1 DEF TypeOK, Looking, Return
<1>2. CASE \/ Begin(d, "login", "google") \/ Begin(d, "logout", "signOut")
           \/ Begin(d, "photo", "query") \/ Begin(d, "edit", "query")
  BY <1>2 DEF TypeOK, Looking, Begin
<1>3. CASE job' = job /\ (Goto(d, "lookup") \/ Goto(d, "googleOut") \/ Goto(d, "write"))
  BY <1>3 DEF TypeOK, Looking, Goto
<1>4. CASE job' = job /\ pc' = pc
  BY <1>4 DEF Looking
<1> QED  BY <1>1, <1>2, <1>3, <1>4

\* What a document's add or update may make exist is there or pending.
LEMMA AppliedPending ==
    ASSUME TypeOK, NEW w \in Pending, Apply(w)
    PROVE  Existing' \subseteq Existing \union AddedBy(Pending)
<1>1. w \in Write
  BY PendingType
<1> QED  BY <1>1, Applied DEF AddedBy

LEMMA LookupSight ==
    ASSUME TypeOK, OneAddPerDoc, SightInv, NEW d \in Device, Lookup(d)
    PROVE  SightInv'
<1>1. Existing' = Existing /\ Pending' = Pending
  BY ServerlessKeeps, ServerUntouched DEF Serverless
<1>2. CASE Saved(d) /\ UNCHANGED blind
  <2>1. \A e \in Device : Looking(e)' => Looking(e)
    BY <1>2, NobodyLooks DEF Saved
  <2> QED  BY <1>1, <1>2, <2>1, SightStays
<1>3. CASE FoundNone(d) /\ Goto(d, "query") /\ UNCHANGED job
  <2> SUFFICES ASSUME ~blind' PROVE SightInv'
    BY DEF SightInv
  <2>1. ~blind /\ Existing = {} /\ AddedBy(Pending) = {} /\ \A e \in Device \ {d} : ~Looking(e)
    BY <1>3 DEF FoundNone, OnItsWay, Looking
  <2>2. \A e \in Device : Looking(e)' => e = d
    BY <1>3, <2>1 DEF TypeOK, Goto, Looking
  <2>3. AddedBy(Pending)' = {} /\ Existing' = {}
    BY <1>1, <2>1 DEF AddedBy
  <2> QED  BY <1>1, <2>1, <2>2, <2>3 DEF SightInv
<1> QED  BY <1>2, <1>3 DEF Lookup

LEMMA QuerySight ==
    ASSUME TypeOK, OneAddPerDoc, SightInv, NEW d \in Device, Query(d)
    PROVE  SightInv'
<1>1. UNCHANGED <<docs, late>> /\ pc[d] = "query"
  BY DEF Query
<1>2. CASE Return(d) /\ queue' = queue /\ blind' = blind
  <2>1. Existing' = Existing /\ Pending' = Pending
    BY <1>1, <1>2, ServerUntouched DEF serverVars
  <2>2. \A e \in Device : Looking(e)' => Looking(e)
    BY <1>2, NobodyLooks
  <2> QED  BY <1>2, <2>1, <2>2, SightStays
<1>3. ASSUME NEW i \in Existing \union AddedBy(Queued(d)), i \in DocId,
             Enqueue(d, "update", i), blind' = blind
      PROVE  SightInv'
  <2> DEFINE w == CallWrite(d, "update", i)
  <2>1. w.op = "update" /\ w.login = (job[d] = "login")
    BY DEF CallWrite
  <2>2. Existing' = Existing /\ Pending' = Pending \union {w}
    BY <1>1, <1>3, EnqueueKeeps
  <2> HIDE DEF w
  <2>3. AddedBy(Pending)' = AddedBy(Pending)
    BY <2>1, <2>2 DEF AddedBy
  <2>4. i \in Existing \union AddedBy(Pending)
    BY <1>3, PendingIs DEF AddedBy
  <2>5. \A e \in Device : Looking(e)' => Looking(e)
    BY <1>3, NobodyLooks DEF Enqueue
  <2>6. ~blind => ~w.login
    BY <1>1, <2>1, <2>4 DEF SightInv, Looking
  <2> QED  BY <1>3, <2>2, <2>3, <2>5, <2>6 DEF SightInv
<1>4. ASSUME NEW i \in DocId \ (Existing \union AddedBy(Pending)),
             Enqueue(d, "add", i), FoundNone(d)
      PROVE  SightInv'
  <2> DEFINE w == CallWrite(d, "add", i)
  <2>1. w.op = "add" /\ w.doc = i
    BY DEF CallWrite
  <2>2. Existing' = Existing /\ Pending' = Pending \union {w}
    BY <1>1, <1>4, EnqueueKeeps
  <2> HIDE DEF w
  <2> SUFFICES ASSUME ~blind' PROVE SightInv'
    BY DEF SightInv
  <2>3. ~blind /\ Existing = {} /\ AddedBy(Pending) = {} /\ \A e \in Device \ {d} : ~Looking(e)
    BY <1>4 DEF FoundNone, OnItsWay, Looking
  <2>4. AddedBy(Pending)' = {i}
    BY <2>1, <2>2, <2>3 DEF AddedBy
  <2>5. \A e \in Device : Looking(e)' => Looking(e) /\ e # d
    BY <1>4, NobodyLooks DEF Enqueue, Goto, Looking, TypeOK
  <2>6. \A e \in Device : ~Looking(e)'
    BY <2>3, <2>5
  <2>7. \A v \in Pending' : v.op = "update" => ~v.login
    BY <2>1, <2>2, <2>3 DEF SightInv
  <2> QED  BY <2>2, <2>3, <2>4, <2>6, <2>7 DEF SightInv
<1> QED  BY <1>2, <1>3, <1>4, QueryIs

LEMMA SightInvariant == Spec => []SightInv
<1>1. Init => SightInv
  <2> SUFFICES ASSUME Init PROVE SightInv
    OBVIOUS
  <2>1. Pending = {} /\ Existing = {}
    BY DEF Init, Pending, Queued, Existing
  <2> QED  BY <2>1 DEF Init, SightInv, Looking, AddedBy
<1>2. TypeOK /\ OneAddPerDoc /\ SightInv /\ [Next]_vars => SightInv'
  <2> SUFFICES ASSUME TypeOK, OneAddPerDoc, SightInv, [Next]_vars PROVE SightInv'
    OBVIOUS
  <2>1. ASSUME NEW d \in Device, Serverless(d), ~Lookup(d) PROVE SightInv'
    <3>1. Existing' = Existing /\ Pending' = Pending
      BY <2>1, ServerlessKeeps, ServerUntouched
    <3>2. blind' = blind
      BY <2>1
      DEF Serverless, Login, LogOut, Restart, Deliver, Edit, SignIn, SignInRefused, SignOut,
          GoogleSignOut, LookupError, LogOutError, QueryError, historyVars
    <3>3. \A e \in Device : Looking(e)' => Looking(e)
      BY <2>1, NobodyLooks
      DEF Serverless, Login, LogOut, Restart, Deliver, Edit, SignIn, SignInRefused, SignOut,
          GoogleSignOut, LookupError, LogOutError, QueryError, Saved, callVars
    <3> QED  BY <3>1, <3>2, <3>3, SightStays
  <2>2. ASSUME NEW d \in Device, Handle(d) \/ Refuse(d) PROVE SightInv'
    <3>1. Pending' \subseteq Pending
      BY <2>2, DropKeeps DEF Handle, Refuse
    <3>2. Head(queue[d]) \in Pending
      BY <2>2, Shortened, PendingIs DEF Handle, Refuse, Answered
    <3>3. Existing' \subseteq Existing \union AddedBy(Pending)
      BY <2>2, <3>2, AppliedPending, SameExisting DEF Handle, Refuse
    <3>4. \A e \in Device : Looking(e)' => Looking(e)
      BY <2>2, NobodyLooks DEF Handle, Refuse, Answered, Saved, callVars
    <3> QED  BY <2>2, <3>1, <3>3, <3>4, SightStays DEF Handle, Refuse, historyVars
  <2>3. ASSUME NEW d \in Device, Lose(d) PROVE SightInv'
    <3>1. \A e \in Device : Looking(e)' => Looking(e)
      BY <2>3 DEF Lose, Looking, callVars
    <3> QED  BY <2>3, <3>1, LoseKeeps, SightStays DEF Lose, historyVars
  <2>4. ASSUME NEW w \in late, HandleLate(w) PROVE SightInv'
    <3>1. Pending' \subseteq Pending
      BY <2>4, LateKeeps
    <3>2. Existing' \subseteq Existing \union AddedBy(Pending)
      BY <2>4, PendingIs, AppliedPending DEF HandleLate
    <3>3. \A e \in Device : Looking(e)' => Looking(e)
      BY <2>4 DEF HandleLate, Looking, callVars
    <3> QED  BY <2>4, <3>1, <3>2, <3>3, SightStays DEF HandleLate, historyVars
  <2>5. CASE UNCHANGED vars
    <3>1. Existing' = Existing /\ Pending' = Pending
      BY <2>5, ServerUntouched DEF vars, serverVars
    <3>2. \A e \in Device : Looking(e)' => Looking(e)
      BY <2>5 DEF vars, callVars, Looking
    <3> QED  BY <2>5, <3>1, <3>2, SightStays DEF vars, historyVars
  <2> QED  BY <2>1, <2>2, <2>3, <2>4, <2>5, NextCases, LookupSight, QuerySight
<1> QED  BY <1>1, <1>2, TypeCorrect, OneAddInvariant, PTL DEF Spec

\* OneProfileUnlessBlind: as long as every empty answer a sign-in or a save has
\* taken was right, the account has at most one document, whatever fails.
THEOREM OneProfile == Spec => []OneProfileUnlessBlind
<1>1. SightInv => OneProfileUnlessBlind
  BY DEF SightInv, OneProfileUnlessBlind
<1> QED  BY <1>1, SightInvariant, PTL

\* OnlyEditsChange: until then a profile that exists is changed by a person's
\* edit, or by one more copy of its own add, and by no sign-in's update.
THEOREM ProfileChangedByEdit == Spec => OnlyEditsChange
<1> DEFINE ByEdit == ~blind => \A i \in Existing : docs'[i] # docs[i] =>
          \E w \in Pending : /\ w.doc = i /\ w.form = docs'[i]
                             /\ w.op = "update" => ~w.login
                             /\ w.op = "add" => w \in late
<1>1. TypeOK /\ OneAddPerDoc /\ SightInv /\ [Next]_vars => [ByEdit]_vars
  <2> SUFFICES ASSUME TypeOK, OneAddPerDoc, SightInv, [Next]_vars, ~blind,
                      NEW i \in Existing, docs'[i] # docs[i]
               PROVE  \E w \in Pending : /\ w.doc = i /\ w.form = docs'[i]
                                         /\ w.op = "update" => ~w.login
                                         /\ w.op = "add" => w \in late
    OBVIOUS
  <2>1. i \in DocId
    BY ExistingType
  <2>2. docs' # docs
    OBVIOUS
  <2>3. CASE \E d \in Device : Handle(d)
    <3>1. PICK d \in Device : Handle(d)
      BY <2>3
    <3> DEFINE w == Head(queue[d])
    <3>2. w \in Queued(d) /\ w \in Write /\ w \in Pending
      BY <3>1, Shortened, PendingIs DEF Handle, Answered
    <3>3. Apply(w)
      BY <3>1 DEF Handle
    <3> HIDE DEF w
    <3>4. i = w.doc /\ docs'[i] = w.form
      BY <2>1, <3>2, <3>3, Applied
    <3>5. w.op = "add" => w \in late
      BY <3>2, <3>4 DEF OneAddPerDoc
    <3> QED  BY <3>2, <3>4, <3>5 DEF SightInv
  <2>4. CASE \E w \in late : HandleLate(w)
    <3>1. PICK w \in late : HandleLate(w)
      BY <2>4
    <3>2. w \in Write /\ w \in Pending
      BY PendingIs DEF TypeOK
    <3>3. i = w.doc /\ docs'[i] = w.form
      BY <2>1, <3>1, <3>2, Applied DEF HandleLate
    <3> QED  BY <3>2, <3>3 DEF SightInv
  <2> QED
    BY <2>2, <2>3, <2>4, NextCases, ServerlessKeeps
    DEF serverVars, Query, Refuse, Lose, vars
<1> QED
  BY <1>1, SightInvariant, OneAddInvariant, TypeCorrect, PTL DEF Spec, OnlyEditsChange

----------------------------------------------------------------------------
(* A profile for whoever is in the main view.                               *)

\* There is a profile, or one that waits to be sent.
Profiled == Existing # {} \/ \E d \in Device : AddedBy(Queued(d)) # {}

\* Why MainViewHasProfile holds: without a profile, a device that has
\* Firebase's user is still looking for one.
SignInInv ==
    /\ \A d \in Device : pc[d] \in {"google", "lookup"} => job[d] = "login"
    /\ ~faulted /\ ~Profiled =>
         \A d \in Device :
            /\ result[d] # "success"
            /\ d \in fbUser => job[d] = "login" /\ pc[d] \in {"lookup", "query"}

LEMMA EnqueueQueued ==
    ASSUME TypeOK, NEW d \in Device, NEW op \in {"add", "update"}, NEW i \in DocId,
           Enqueue(d, op, i)
    PROVE  \A e \in Device : Queued(e)' =
              IF e = d THEN Queued(d) \union {CallWrite(d, op, i)} ELSE Queued(e)
BY EnqueueIs, Appended

\* A profile is lost only when its add is refused.
LEMMA ProfiledStays ==
    ASSUME TypeOK, OneAddPerDoc, [Next]_vars
    PROVE  Profiled => Profiled' \/ faulted'
<1>1. CASE UNCHANGED serverVars
  BY <1>1 DEF Profiled, serverVars, Existing, Queued
<1>2. ASSUME NEW d \in Device, Query(d) PROVE Profiled => Profiled'
  <2>1. UNCHANGED <<docs, late>>
    BY <1>2 DEF Query
  <2>2. CASE queue' = queue
    BY <2>1, <2>2 DEF Profiled, Existing, Queued
  <2>3. ASSUME NEW op \in {"add", "update"}, NEW i \in DocId, Enqueue(d, op, i)
        PROVE  Profiled => Profiled'
    <3> DEFINE w == CallWrite(d, op, i)
    <3>1. \A e \in Device : Queued(e)' = IF e = d THEN Queued(d) \union {w} ELSE Queued(e)
      BY <2>3, EnqueueQueued
    <3> HIDE DEF w
    <3>2. \A e \in Device : AddedBy(Queued(e)) \subseteq AddedBy(Queued(e))'
      BY <3>1 DEF AddedBy
    <3> QED  BY <2>1, <3>2, SameExisting DEF Profiled
  <2> QED  BY <1>2, <2>2, <2>3, QueryIs, PendingType, PendingIs
<1>3. ASSUME NEW d \in Device, Handle(d) \/ Refuse(d), Profiled PROVE Profiled' \/ faulted'
  <2> DEFINE h == Head(queue[d])
  <2>1. /\ h \in Write
        /\ Queued(d) = Queued(d)' \union {h}
        /\ \A e \in Device \ {d} : Queued(e)' = Queued(e)
    BY <1>3, Shortened DEF Handle, Refuse, Answered
  <2>2. Existing' = IF Handle(d) /\ h.op = "add" THEN Existing \union {h.doc} ELSE Existing
    BY <1>3, <2>1, Applied, SameExisting DEF Handle, Refuse
  <2>3. Handle(d) \/ (h.op = "add" => faulted')
    BY <1>3 DEF Refuse
  <2> HIDE DEF h
  <2>4. h.op # "add" => \A e \in Device : AddedBy(Queued(e)) \subseteq AddedBy(Queued(e))'
    BY <2>1 DEF AddedBy
  <2> QED  BY <1>3, <2>2, <2>3, <2>4 DEF Profiled
<1>4. ASSUME NEW d \in Device, Lose(d) PROVE Profiled => Profiled'
  BY <1>4 DEF Lose, Profiled, Existing, Queued
<1>5. ASSUME NEW w \in late, HandleLate(w) PROVE Profiled => Profiled'
  <2>1. Existing \subseteq Existing'
    BY <1>5, Applied DEF HandleLate, TypeOK
  <2>2. \A e \in Device : AddedBy(Queued(e))' = AddedBy(Queued(e))
    BY <1>5 DEF HandleLate, Queued, AddedBy
  <2> QED  BY <2>1, <2>2 DEF Profiled
<1> QED
  BY <1>1, <1>2, <1>3, <1>4, <1>5, NextCases, ServerlessKeeps DEF vars, serverVars

\* Without a profile no query finds one, and no update is queued for none.
LEMMA SignInInvStep ==
    ASSUME TypeOK, OneAddPerDoc, SignInInv, [Next]_vars
    PROVE  SignInInv'
<1> DEFINE Jobs == \A d \in Device : pc[d] \in {"google", "lookup"} => job[d] = "login"
           Absent == \A d \in Device :
              /\ result[d] # "success"
              /\ d \in fbUser => job[d] = "login" /\ pc[d] \in {"lookup", "query"}
<1>a. Profiled => Profiled' \/ faulted'
  BY ProfiledStays
<1>b. faulted => faulted'
  BY NextCases
  DEF Serverless, Login, LogOut, Restart, Deliver, Edit, SignIn, SignInRefused, Lookup, SignOut,
      GoogleSignOut, LookupError, LogOutError, QueryError, Query, Handle, Refuse, Lose,
      HandleLate, historyVars, vars
<1>c. SUFFICES Jobs' /\ (~faulted' /\ ~Profiled' => Absent')
  BY DEF SignInInv
<1>d. Jobs /\ (~faulted' /\ ~Profiled' => Absent)
  BY <1>a, <1>b DEF SignInInv
<1> USE DEF TypeOK
<1>1. ASSUME NEW d \in Device, Login(d) \/ LogOut(d)
      PROVE  Jobs' /\ (~faulted' /\ ~Profiled' => Absent')
  BY <1>d, <1>1, ZenonT(30) DEF Login, LogOut, Begin
<1>2. ASSUME NEW d \in Device, Restart(d)
      PROVE  Jobs' /\ (~faulted' /\ ~Profiled' => Absent')
  BY <1>d, <1>2 DEF Restart, Return
<1>3. ASSUME NEW d \in Device, NEW p \in Profile, Edit(d, p)
      PROVE  Jobs' /\ (~faulted' /\ ~Profiled' => Absent')
  BY <1>d, <1>3 DEF Edit, Begin
<1>4. ASSUME NEW d \in Device, SignIn(d) \/ SignOut(d)
      PROVE  Jobs' /\ (~faulted' /\ ~Profiled' => Absent')
  BY <1>d, <1>4 DEF SignIn, SignOut, Goto
<1>5. ASSUME NEW d \in Device,
             SignInRefused(d) \/ GoogleSignOut(d) \/ LookupError(d) \/ LogOutError(d)
      PROVE  Jobs' /\ (~faulted' /\ ~Profiled' => Absent')
  <2>1. CASE SignInRefused(d)
    BY <1>d, <2>1 DEF SignInRefused, Return
  <2>2. CASE GoogleSignOut(d)
    BY <1>d, <2>2 DEF GoogleSignOut, Return
  <2>3. CASE LookupError(d)
    BY <1>d, <2>3 DEF LookupError, Return
  <2>4. CASE LogOutError(d)
    BY <1>d, <2>4 DEF LogOutError, Return, authVars
  <2> QED  BY <1>5, <2>1, <2>2, <2>3, <2>4
<1>6. ASSUME NEW d \in Device, Lookup(d)
      PROVE  Jobs' /\ (~faulted' /\ ~Profiled' => Absent')
  <2>1. CASE Goto(d, "query") /\ UNCHANGED <<result, job, fbUser>>
    BY <1>d, <2>1, <1>6 DEF Goto, Lookup
  <2>2. CASE Saved(d) /\ \E found \in Findable(d) : found # {}
    <3>1. Profiled
      BY <2>2, FindableIs DEF Profiled
    <3>2. UNCHANGED <<docs, queue>>
      BY <1>6 DEF Lookup, serverVars
    <3>3. (\A e \in Device : Queued(e)' = Queued(e)) /\ Existing' = Existing
      BY <3>2, SameExisting, SameQueued
    <3>4. Profiled'
      BY <3>1, <3>3 DEF Profiled, AddedBy
    <3> QED  BY <1>d, <2>2, <3>4 DEF Saved, Return
  <2> QED  BY <1>6, <2>1, <2>2 DEF Lookup
<1>7. ASSUME NEW d \in Device, Query(d)
      PROVE  Jobs' /\ (~faulted' /\ ~Profiled' => Absent')
  <2>1. pc[d] = "query" /\ UNCHANGED <<docs, authVars>>
    BY <1>7 DEF Query
  <2>2. ASSUME NEW op \in {"add", "update"}, NEW i \in DocId, Enqueue(d, op, i),
               op = "update" => i \in Existing \union AddedBy(Queued(d))
        PROVE  Jobs' /\ (~faulted' /\ ~Profiled' => Absent')
    <3> DEFINE w == CallWrite(d, op, i)
    <3>1. \A e \in Device : Queued(e)' = IF e = d THEN Queued(d) \union {w} ELSE Queued(e)
      BY <2>2, EnqueueQueued
    <3>2. w.op = op /\ w.doc = i
      BY DEF CallWrite
    <3> HIDE DEF w
    <3>3. AddedBy(Queued(d)) \subseteq AddedBy(Queued(d))' /\ (op = "add" => i \in AddedBy(Queued(d))')
      BY <3>1, <3>2 DEF AddedBy
    <3>4. Profiled'
      BY <2>1, <2>2, <3>3, SameExisting DEF Profiled
    <3>5. Jobs'
      BY <1>d, <2>2, EnqueueIs
    <3> QED  BY <3>4, <3>5
  <2>3. CASE job[d] = "photo" /\ Return(d) /\ queue' = queue
    BY <1>d, <2>1, <2>3 DEF Return, authVars
  <2> QED  BY <1>7, <2>2, <2>3, QueryIs
<1>8. ASSUME NEW d \in Device, QueryError(d)
      PROVE  Jobs' /\ (~faulted' /\ ~Profiled' => Absent')
  BY <1>d, <1>8 DEF QueryError, Saved, Return
<1>9. ASSUME NEW d \in Device, Handle(d) \/ Refuse(d)
      PROVE  Jobs' /\ (~faulted' /\ ~Profiled' => Absent')
  <2>1. d \in fbUser /\ fbUser' = fbUser
    BY <1>9 DEF Handle, Refuse
  <2>2. CASE pc[d] = "write" /\ Saved(d)
    BY <1>d, <2>1, <2>2 DEF Saved, Return
  <2>3. CASE UNCHANGED <<callVars, result, loading>>
    BY <1>d, <2>1, <2>3 DEF callVars
  <2> QED  BY <1>9, <2>2, <2>3 DEF Handle, Refuse, Answered
<1>10. CASE \/ \E d \in Device : Deliver(d) \/ Lose(d)
            \/ \E w \in late : HandleLate(w)
            \/ UNCHANGED vars
  BY <1>d, <1>10 DEF Deliver, Lose, HandleLate, vars, authVars, callVars
<1> QED
  BY <1>1, <1>2, <1>3, <1>4, <1>5, <1>6, <1>7, <1>8, <1>9, <1>10 DEF Next, Answer

\* MainViewHasProfile: unless the first profile was refused, or its sign-in failed
\* or was killed before it wrote one, whoever is in the main view has a profile
\* or one that is still to be sent.
THEOREM ProfileWhileShown == Spec => []MainViewHasProfile
<1>1. Init => SignInInv
  BY DEF Init, SignInInv
<1>2. SignInInv => MainViewHasProfile
  BY DEF SignInInv, MainViewHasProfile, Profiled
<1>3. TypeOK /\ OneAddPerDoc /\ SignInInv /\ [Next]_vars => SignInInv'
  BY SignInInvStep
<1> QED  BY <1>1, <1>2, <1>3, OneAddInvariant, TypeCorrect, PTL DEF Spec
===========================================================================
