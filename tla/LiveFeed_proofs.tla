-------------------------- MODULE LiveFeed_proofs --------------------------
(* What the pages of a device show, for any posts and comments, any of the   *)
(* listeners and any number of writes.                                       *)
EXTENDS LiveFeed, TLAPS

ClientDoc == [n : 0..MaxWrites, is : State]

\* The listeners that hear an event when the client's document d becomes r.
RaisedBy(d, r) == {p \in on : d \in Query(p) /\ Raises(view[p][d], r)}

\* Writes of this device that the backend has not answered.
Own == {"creating", "updating", "deleting"}

\* The call under way: what it is about, and the room that it keeps for its
\* write.  Once it has updated a document, its dialog is up unless the user
\* left early.
CallInv ==
    /\ call.at \in {"query", "write"} => writes < MaxWrites
    /\ call.kind = "none" <=> call.at = "idle"
    /\ call.kind = "add" => call.id # ThePost
    /\ call.kind = "update" /\ call.at \in {"query", "write", "reply", "done"} => call.up \/ early
    /\ call.kind = "update" /\ call.at = "reply" => call.id \in touched
    /\ ThePost \in created

----------------------------------------------------------------------------
(* The operators.                                                           *)

LEMMA Queries ==
    \A p \in Page : Query(p) \subseteq Doc /\ (ThePost \in Query(p) \/ Query(p) \subseteq Comment)
BY ConstantsAssumption DEF Query, Doc

\* A provider's rows are the documents of its query that are there, less the
\* pending ones unless it shows those too.
LEMMA RowsAre ==
    ASSUME NEW p \in Page, NEW v \in [Doc -> ClientDoc]
    PROVE  /\ Rows(p, v) \subseteq Row
           /\ \A r \in Rows(p, v) :
                 /\ r.id \in Query(p) /\ r.n = v[r.id].n /\ r.n # 0
                 /\ ShowsPending(p) \/ ~Pending(v[r.id])
           /\ \A d \in Query(p), n \in 1..MaxWrites :
                 [id |-> d, n |-> n] \in Rows(p, v) <=>
                     n = v[d].n /\ (ShowsPending(p) \/ ~Pending(v[d]))
<1>1. Query(p) \subseteq Doc
  BY Queries
<1>2. \A d \in Query(p) : v[d].n \in 0..MaxWrites
  BY <1>1 DEF ClientDoc
<1>3. \A r \in Rows(p, v) : \E d \in Query(p) :
        /\ r = [id |-> d, n |-> v[d].n] /\ v[d].n # 0
        /\ ShowsPending(p) \/ ~Pending(v[d])
  BY DEF Rows
<1>4. \A d \in Query(p) : v[d].n # 0 /\ (ShowsPending(p) \/ ~Pending(v[d]))
        => [id |-> d, n |-> v[d].n] \in Rows(p, v)
  BY DEF Rows
<1>5. Rows(p, v) \subseteq Row
  BY <1>1, <1>2, <1>3, ConstantsAssumption DEF Row
<1>6. \A r \in Rows(p, v) :
        /\ r.id \in Query(p) /\ r.n = v[r.id].n /\ r.n # 0
        /\ ShowsPending(p) \/ ~Pending(v[r.id])
  BY <1>3
<1>7. ASSUME NEW d \in Query(p), NEW n \in 1..MaxWrites
      PROVE  [id |-> d, n |-> n] \in Rows(p, v) <=>
                 n = v[d].n /\ (ShowsPending(p) \/ ~Pending(v[d]))
  <2>1. [id |-> d, n |-> n].id = d /\ [id |-> d, n |-> n].n = n /\ n # 0
    OBVIOUS
  <2> QED  BY <1>4, <1>6, <2>1
<1> QED  BY <1>5, <1>6, <1>7

\* An event leaves a provider with what it kept, its rows, or no comments.
LEMMA HeardIs ==
    ASSUME NEW raised, NEW v, NEW p \in Page
    PROVE  \/ p = "thread" /\ "post" \in raised /\ v["post"][ThePost].n = 0 /\ Heard(raised, v, p) = {}
           \/ p = "post" /\ Pending(v["post"][ThePost]) /\ Heard(raised, v, p) = shown[p]
           \/ p \in raised /\ Heard(raised, v, p) = Rows(p, v[p])
           \/ p \notin raised /\ Heard(raised, v, p) = shown[p]
BY DEF Heard

----------------------------------------------------------------------------
(* The client's operations.                                                 *)

\* A change of d reaches the views of the listeners to d, and what they show.
LEMMA ChangeEffect ==
    ASSUME TypeOK, NEW d \in Doc, NEW r \in ClientDoc, Change(d, r)
    PROVE  /\ doc' = [doc EXCEPT ![d] = r] /\ doc' \in [Doc -> ClientDoc]
           /\ on' = on
           /\ view' \in [Page -> [Doc -> ClientDoc]]
           /\ \A p \in Page, e \in Doc :
                 view'[p][e] = IF p \in on /\ d \in Query(p) /\ e = d
                               THEN Applied(view[p][d], r) ELSE view[p][e]
           /\ shown' = [p \in Page |-> Heard(RaisedBy(d, r), view', p)]
           /\ details' = Notify(RaisedBy(d, r), shown')
<1> DEFINE L == {p \in on : d \in Query(p)}
           R == {p \in L : Raises(view[p][d], r)}
           v == [p \in Page |-> IF p \in L THEN [view[p] EXCEPT ![d] = Applied(view[p][d], r)]
                                ELSE view[p]]
<1>1. R = RaisedBy(d, r)
  BY DEF RaisedBy
<1>2. /\ doc' = [doc EXCEPT ![d] = r] /\ on' = on /\ view' = v
      /\ shown' = [p \in Page |-> Heard(R, v, p)]
      /\ details' = Notify(R, [p \in Page |-> Heard(R, v, p)])
  BY DEF Change
<1>3. \A p \in Page : view[p] \in [Doc -> ClientDoc]
  BY DEF TypeOK, ClientDoc
<1>4. \A p \in Page : Applied(view[p][d], r) \in ClientDoc
  BY <1>3 DEF Applied
<1>5. v \in [Page -> [Doc -> ClientDoc]]
  BY <1>3, <1>4
<1>6. \A p \in Page, e \in Doc :
        v[p][e] = IF p \in on /\ d \in Query(p) /\ e = d
                  THEN Applied(view[p][d], r) ELSE view[p][e]
  BY <1>3
<1>7. doc' \in [Doc -> ClientDoc]
  BY <1>2 DEF TypeOK, ClientDoc
<1> HIDE DEF R, v
<1> QED  BY <1>1, <1>2, <1>5, <1>6, <1>7

\* The first event of p gives it a view of what the client has.
LEMMA DeliverEffect ==
    ASSUME TypeOK, NEW p \in Page, Deliver(p)
    PROVE  /\ p \notin on /\ on' = on \union {p}
           /\ view' \in [Page -> [Doc -> ClientDoc]]
           /\ \A q \in Page : q # p => view'[q] = view[q]
           /\ \A d \in Doc : view'[p][d] = IF d \in Query(p) THEN doc[d] ELSE Absent
           /\ shown' = [q \in Page |-> Heard({p}, view', q)]
           /\ details' = Notify({p}, shown')
           /\ UNCHANGED <<server, base, doc, call, writes, created, confirmed, touched, early>>
<1> DEFINE f == [d \in Doc |-> IF d \in Query(p) THEN doc[d] ELSE Absent]
           v == [view EXCEPT ![p] = f]
<1>1. /\ p \notin on /\ on' = on \union {p} /\ view' = v
      /\ shown' = [q \in Page |-> Heard({p}, v, q)]
      /\ details' = Notify({p}, [q \in Page |-> Heard({p}, v, q)])
      /\ UNCHANGED <<server, base, doc, call, writes, created, confirmed, touched, early>>
  BY DEF Deliver, historyVars
<1>2. Absent \in ClientDoc
  BY ConstantsAssumption DEF Absent, Synced, ClientDoc, State
<1>3. f \in [Doc -> ClientDoc]
  BY <1>2 DEF TypeOK, ClientDoc
<1>4. view \in [Page -> [Doc -> ClientDoc]]
  BY DEF TypeOK, ClientDoc
<1> HIDE DEF f
<1>5. v \in [Page -> [Doc -> ClientDoc]] /\ v[p] = f /\ \A q \in Page : q # p => v[q] = view[q]
  BY <1>3, <1>4
<1>6. \A d \in Doc : f[d] = IF d \in Query(p) THEN doc[d] ELSE Absent
  BY DEF f
<1> HIDE DEF v
<1> QED  BY <1>1, <1>5, <1>6

----------------------------------------------------------------------------
(* TypeOK needs the room that a call keeps for its write.                   *)

LEMMA PagesKeepTypes ==
    ASSUME TypeOK, NEW raised, view' \in [Page -> [Doc -> ClientDoc]],
           shown' = [p \in Page |-> Heard(raised, view', p)],
           details' = Notify(raised, shown'), raised \subseteq Page
    PROVE  /\ view' \in [Page -> [Doc -> [n : 0..MaxWrites, is : State]]]
           /\ shown' \in [Page -> SUBSET Row]
           /\ details' \in [post : SUBSET Row, comments : SUBSET Row]
<1>1. \A p \in Page : Heard(raised, view', p) \subseteq Row
  <2> TAKE p \in Page
  <2>1. Rows(p, view'[p]) \subseteq Row
    BY RowsAre
  <2>2. shown[p] \subseteq Row
    BY DEF TypeOK
  <2> QED  BY <2>1, <2>2, HeardIs
<1>2. shown' \in [Page -> SUBSET Row]
  BY <1>1
<1>3. details' \in [post : SUBSET Row, comments : SUBSET Row]
  <2>1. raised \intersect {"post", "thread"} # {} => "post" \in Page /\ "thread" \in Page
    BY ConstantsAssumption
  <2> QED  BY <1>2, <2>1 DEF Notify, TypeOK
<1> QED  BY <1>2, <1>3 DEF ClientDoc

LEMMA ChangeKeepsTypes ==
    ASSUME TypeOK, NEW d \in Doc, NEW r \in ClientDoc, Change(d, r)
    PROVE  /\ doc' \in [Doc -> [n : 0..MaxWrites, is : State]]
           /\ view' \in [Page -> [Doc -> [n : 0..MaxWrites, is : State]]]
           /\ on' \subseteq Page
           /\ shown' \in [Page -> SUBSET Row]
           /\ details' \in [post : SUBSET Row, comments : SUBSET Row]
<1>1. RaisedBy(d, r) \subseteq Page
  BY DEF RaisedBy, TypeOK
<1>2. /\ doc' \in [Doc -> ClientDoc] /\ on' = on /\ view' \in [Page -> [Doc -> ClientDoc]]
      /\ shown' = [p \in Page |-> Heard(RaisedBy(d, r), view', p)]
      /\ details' = Notify(RaisedBy(d, r), shown')
  BY ChangeEffect
<1> QED  BY <1>1, <1>2, PagesKeepTypes DEF ClientDoc, TypeOK

LEMMA ListenEffect ==
    ASSUME TypeOK, NEW P, Listen(P)
    PROVE  /\ on' = on \ P
           /\ view' \in [Page -> [Doc -> ClientDoc]]
           /\ shown' \in [Page -> SUBSET Row]
           /\ \A p \in Page \ P : view'[p] = view[p] /\ shown'[p] = shown[p]
           /\ \A p \in Page, d \in Doc : view'[p][d] \in {view[p][d], Absent}
           /\ \A p \in Page : shown'[p] \in {shown[p], {}}
           /\ details' = details
<1>1. Absent \in ClientDoc
  BY ConstantsAssumption DEF Absent, Synced, ClientDoc, State
<1>2. view \in [Page -> [Doc -> ClientDoc]]
  BY DEF TypeOK, ClientDoc
<1>3. view' = [p \in Page |-> IF p \in P THEN [d \in Doc |-> Absent] ELSE view[p]]
  BY DEF Listen
<1>4. shown' = [p \in Page |-> IF p \in P \intersect {"post", "thread"} THEN {} ELSE shown[p]]
  BY DEF Listen
<1>5. view' \in [Page -> [Doc -> ClientDoc]]
  BY <1>1, <1>2, <1>3
<1>6. shown' \in [Page -> SUBSET Row] /\ \A p \in Page : shown'[p] \in {shown[p], {}}
  BY <1>4 DEF TypeOK
<1>7. \A p \in Page \ P : view'[p] = view[p] /\ shown'[p] = shown[p]
  BY <1>3, <1>4
<1>8. \A p \in Page, d \in Doc : view'[p][d] \in {view[p][d], Absent}
  BY <1>3
<1> QED  BY <1>5, <1>6, <1>7, <1>8 DEF Listen

LEMMA ListenKeepsTypes ==
    ASSUME TypeOK, NEW P, Listen(P)
    PROVE  /\ view' \in [Page -> [Doc -> [n : 0..MaxWrites, is : State]]]
           /\ on' \subseteq Page
           /\ shown' \in [Page -> SUBSET Row]
           /\ details' \in [post : SUBSET Row, comments : SUBSET Row]
BY ListenEffect DEF ClientDoc, TypeOK

\* Why CallInv holds: another device leaves the room that a call has taken, and
\* a dialog is only left by Back.
LEMMA CallStep ==
    ASSUME TypeOK, CallInv, [Next]_vars
    PROVE  CallInv'
<1>1. ASSUME NEW d \in Doc, Watch(d) PROVE CallInv'
  BY <1>1 DEF Watch, CallInv, TypeOK, historyVars
<1>2. ASSUME NEW d \in Doc, Foreign(d) PROVE CallInv'
  <2>1. call.at \in {"query", "write"} => writes' < MaxWrites
    BY <1>2, ConstantsAssumption DEF Foreign, Room, TypeOK
  <2> QED  BY <1>2, <2>1 DEF Foreign, CallInv
<1>3. ASSUME NEW d \in Doc, Add(d) PROVE CallInv'
  BY <1>3 DEF Add, CallInv, TypeOK, Room, NoCall
<1>4. ASSUME NEW d \in Doc, NEW kind \in {"update", "delete"}, Alter(d, kind) PROVE CallInv'
  <2>1. writes < MaxWrites /\ writes' = writes
    BY <1>4, ConstantsAssumption DEF Alter, Room, NoCall, TypeOK
  <2>2. call'.kind = kind /\ call'.at = "query" /\ (kind = "update" => call'.up = TRUE)
    BY <1>4 DEF Alter
  <2>3. UNCHANGED <<created, touched, early>>
    BY <1>4 DEF Alter, historyVars
  <2> QED  BY <2>1, <2>2, <2>3 DEF CallInv
<1>5. ASSUME NEW p \in Page, Deliver(p) PROVE CallInv'
  BY <1>5 DEF Deliver, CallInv, historyVars
<1>6. ASSUME NEW p \in Page, PullDown(p) PROVE CallInv'
  BY <1>6 DEF PullDown, CallInv, historyVars
<1>7. CASE Look
  BY <1>7 DEF Look, CallInv, TypeOK, historyVars
<1>8. CASE Write
  BY <1>8 DEF Write, CallInv, TypeOK
<1>9. CASE Confirm
  BY <1>9 DEF Confirm, CallInv, TypeOK
<1>10. CASE Refuse
  BY <1>10 DEF Refuse, CallInv, TypeOK
<1>11. CASE Finish
  BY <1>11 DEF Finish, CallInv, TypeOK, NoCall, historyVars
<1>12. CASE Retry
  BY <1>12 DEF Retry, CallInv, TypeOK, Room, historyVars
<1>13. CASE Back
  BY <1>13 DEF Back, CallInv, TypeOK
<1>14. CASE UNCHANGED vars
  BY <1>14 DEF vars, CallInv, historyVars
<1> QED
  BY <1>1, <1>2, <1>3, <1>4, <1>5, <1>6, <1>7, <1>8, <1>9, <1>10, <1>11, <1>12, <1>13, <1>14
  DEF Next

LEMMA TypeStep ==
    ASSUME TypeOK, CallInv, [Next]_vars
    PROVE  TypeOK'
<1>1. ASSUME NEW d \in Doc, Watch(d) PROVE TypeOK'
  <2>1. Synced(server[d]) \in ClientDoc
    BY DEF TypeOK, Synced, ClientDoc, State
  <2> QED  BY <1>1, <2>1, ChangeKeepsTypes DEF Watch, TypeOK, historyVars
<1>2. ASSUME NEW d \in Doc, Foreign(d) PROVE TypeOK'
  <2>1. writes + 1 \in 0..MaxWrites
    <3>1. writes < MaxWrites
      BY <1>2, ConstantsAssumption DEF Foreign, Room, TypeOK
    <3> QED  BY <3>1, ConstantsAssumption DEF TypeOK
  <2>2. 0 \in 0..MaxWrites
    BY ConstantsAssumption
  <2>3. server' \in [Doc -> 0..MaxWrites]
    BY <1>2, <2>1, <2>2 DEF Foreign, TypeOK
  <2> QED  BY <1>2, <2>1, <2>3 DEF Foreign, TypeOK, clientVars
<1>3. ASSUME NEW d \in Doc, Add(d) PROVE TypeOK'
  BY <1>3 DEF Add, TypeOK, clientVars
<1>4. ASSUME NEW d \in Doc, NEW kind \in {"update", "delete"}, Alter(d, kind) PROVE TypeOK'
  BY <1>4 DEF Alter, TypeOK, clientVars, historyVars
<1>5. ASSUME NEW p \in Page, Deliver(p) PROVE TypeOK'
  <2>1. {p} \subseteq Page
    OBVIOUS
  <2>2. /\ view' \in [Page -> [Doc -> ClientDoc]]
        /\ shown' = [q \in Page |-> Heard({p}, view', q)]
        /\ details' = Notify({p}, shown')
    BY <1>5, DeliverEffect
  <2>3. /\ view' \in [Page -> [Doc -> [n : 0..MaxWrites, is : State]]]
        /\ shown' \in [Page -> SUBSET Row]
        /\ details' \in [post : SUBSET Row, comments : SUBSET Row]
    BY <2>1, <2>2, PagesKeepTypes
  <2>4. /\ on' = on \union {p}
        /\ UNCHANGED <<server, base, doc, call, writes, created, confirmed, touched, early>>
    BY <1>5 DEF Deliver, historyVars
  <2> QED  BY <2>3, <2>4 DEF TypeOK
<1>6. ASSUME NEW p \in Page, PullDown(p) PROVE TypeOK'
  BY <1>6, ListenKeepsTypes DEF PullDown, TypeOK, historyVars
<1>7. CASE Look
  BY <1>7 DEF Look, TypeOK, clientVars, historyVars
<1>8. CASE Write
  <2>1. writes + 1 \in 0..MaxWrites /\ 0 \in 0..MaxWrites /\ writes' = writes + 1
    BY <1>8, ConstantsAssumption DEF Write, CallInv, TypeOK
  <2>2. /\ [n |-> writes', is |-> "creating"] \in ClientDoc
        /\ [n |-> writes', is |-> "updating"] \in ClientDoc
        /\ [n |-> 0, is |-> "deleting"] \in ClientDoc
    BY <2>1 DEF ClientDoc, State
  <2>3. call.id \in Doc
    BY DEF TypeOK
  <2>4. \/ \E r \in ClientDoc : Change(call.id, r)
        \/ UNCHANGED <<doc, clientVars>>
    BY <1>8, <2>2 DEF Write
  <2>5. /\ doc' \in [Doc -> [n : 0..MaxWrites, is : State]]
        /\ view' \in [Page -> [Doc -> [n : 0..MaxWrites, is : State]]]
        /\ on' \subseteq Page
        /\ shown' \in [Page -> SUBSET Row]
        /\ details' \in [post : SUBSET Row, comments : SUBSET Row]
    BY <2>3, <2>4, ChangeKeepsTypes DEF TypeOK, clientVars
  <2> QED  BY <1>8, <2>1, <2>5 DEF Write, TypeOK
<1>9. CASE Confirm
  <2>1. call.id \in Doc /\ doc[call.id].n \in 0..MaxWrites
    BY DEF TypeOK
  <2>2. [n |-> doc[call.id].n, is |-> "committed"] \in ClientDoc
    BY <2>1 DEF ClientDoc, State
  <2>3. Change(call.id, [n |-> doc[call.id].n, is |-> "committed"])
    BY <1>9 DEF Confirm
  <2> QED  BY <1>9, <2>1, <2>2, <2>3, ChangeKeepsTypes DEF Confirm, TypeOK
<1>10. CASE Refuse
  <2>1. call.id \in Doc /\ Synced(base[call.id]) \in ClientDoc
    BY DEF TypeOK, Synced, ClientDoc, State
  <2> QED  BY <1>10, <2>1, ChangeKeepsTypes DEF Refuse, TypeOK
<1>11. CASE Finish
  <2>1. NoCall \in [kind : {"none", "add", "update", "delete"}, id : Doc,
                    at : {"idle", "query", "write", "reply", "done", "failed"}, up : BOOLEAN]
    BY ConstantsAssumption DEF NoCall, Doc
  <2> QED  BY <1>11, <2>1, ListenKeepsTypes DEF Finish, TypeOK, clientVars, historyVars
<1>12. CASE Retry
  BY <1>12 DEF Retry, TypeOK, clientVars, historyVars
<1>13. CASE Back
  <2>1. early' \in BOOLEAN /\ call' \in [kind : {"none", "add", "update", "delete"}, id : Doc,
                    at : {"idle", "query", "write", "reply", "done", "failed"}, up : BOOLEAN]
    BY <1>13 DEF Back, TypeOK
  <2> QED  BY <1>13, <2>1, ListenKeepsTypes DEF Back, TypeOK, clientVars
<1>14. CASE UNCHANGED vars
  BY <1>14 DEF vars, TypeOK, clientVars, historyVars
<1> QED
  BY <1>1, <1>2, <1>3, <1>4, <1>5, <1>6, <1>7, <1>8, <1>9, <1>10, <1>11, <1>12, <1>13, <1>14
  DEF Next

LEMMA CallAtInit ==
    ASSUME Init
    PROVE  TypeOK /\ CallInv
<1>1. ThePost \in Doc /\ 0 \in 0..MaxWrites /\ 1 \in 0..MaxWrites
  BY ConstantsAssumption DEF Doc
<1>2. server \in [Doc -> 0..MaxWrites] /\ base \in [Doc -> 0..MaxWrites]
  BY <1>1 DEF Init
<1>3. doc \in [Doc -> [n : 0..MaxWrites, is : State]]
  BY <1>2 DEF Init, Synced, State
<1>4. view \in [Page -> [Doc -> [n : 0..MaxWrites, is : State]]]
  BY <1>1 DEF Init, Absent, Synced, State
<1>5. TypeOK
  BY <1>1, <1>2, <1>3, <1>4 DEF Init, TypeOK, NoCall
<1> QED  BY <1>5 DEF Init, CallInv, NoCall

\* TypeOK: the state keeps its types, and no interleaving of the devices makes
\* a write that the call has no room for.
THEOREM TypeCorrect == Spec => []TypeOK
<1>1. Init => TypeOK /\ CallInv
  BY CallAtInit
<1>2. TypeOK /\ CallInv /\ [Next]_vars => (TypeOK /\ CallInv)'
  BY TypeStep, CallStep
<1> QED  BY <1>1, <1>2, PTL DEF Spec

----------------------------------------------------------------------------
(* What the client has of the documents.                                    *)

\* Only the document of the call under way can hold a write that the backend
\* has not answered, and the details page's post does not come back.
DocInv ==
    /\ \A d \in Doc :
       /\ server[d] <= writes /\ base[d] <= writes /\ doc[d].n <= writes
       /\ doc[d].is \notin Own => doc[d].n = base[d]
       /\ doc[d].is \in Own => call.at = "reply" /\ call.id = d
       /\ doc[d].is = "creating" => call.kind = "add"
       /\ doc[d].is = "updating" => call.kind = "update" /\ doc[d].n # base[d]
       /\ doc[d].is = "deleting" => call.kind = "delete" /\ doc[d].n = 0
    /\ doc[ThePost].n = 0 /\ ThePost \notin touched =>
          server[ThePost] = 0 \/ doc[ThePost].is = "deleting"

CoreInv == TypeOK /\ CallInv /\ DocInv

LEMMA WatchDoc ==
    ASSUME CoreInv, NEW d \in Doc, Watch(d)
    PROVE  /\ DocInv'
           /\ doc[d].is \in {"synced", "committed"}
           /\ Synced(server[d]) \in ClientDoc /\ Change(d, Synced(server[d]))
           /\ UNCHANGED <<server, call, writes, created, confirmed, touched, early>>
<1> USE DEF CoreInv
<1>1. /\ Change(d, Synced(server[d])) /\ base' = [base EXCEPT ![d] = server[d]]
      /\ UNCHANGED <<server, call, writes, created, confirmed, touched, early>>
      /\ doc[d].is \in {"synced", "committed"}
  BY DEF Watch, historyVars
<1>2. Synced(server[d]) \in ClientDoc /\ Synced(server[d]).n = server[d]
      /\ Synced(server[d]).is = "synced"
  BY DEF TypeOK, Synced, ClientDoc, State
<1>3. doc' = [doc EXCEPT ![d] = Synced(server[d])]
  BY <1>1, <1>2, ChangeEffect
<1>4. \A e \in Doc :
        /\ doc'[e] = IF e = d THEN Synced(server[d]) ELSE doc[e]
        /\ base'[e] = IF e = d THEN server[d] ELSE base[e]
  BY <1>1, <1>3 DEF TypeOK
<1>5. ThePost \in Doc
  BY ConstantsAssumption DEF Doc
<1>6. DocInv'
  BY <1>1, <1>2, <1>4, <1>5 DEF DocInv, Own
<1> QED  BY <1>1, <1>2, <1>6

LEMMA WriteDoc ==
    ASSUME CoreInv, Write
    PROVE  /\ DocInv'
           /\ doc[call.id].is \notin Own
           /\ writes' = writes + 1 /\ writes' \in 1..MaxWrites
           /\ \/ \E r \in ClientDoc :
                   /\ Change(call.id, r)
                   /\ \/ r = [n |-> writes', is |-> "creating"] /\ call.kind = "add"
                      \/ r = [n |-> writes', is |-> "updating"] /\ call.kind = "update"
                      \/ r = [n |-> 0, is |-> "deleting"] /\ call.kind = "delete"
              \/ UNCHANGED <<doc, view, on, shown, details>> /\ call.kind = "update"
           /\ call' = [call EXCEPT !.at = "reply"]
           /\ touched' = IF call.kind = "update" THEN touched \union {call.id} ELSE touched
           /\ UNCHANGED <<server, base, created, confirmed, early>>
<1> USE DEF CoreInv
<1>1. /\ writes' = writes + 1 /\ writes' \in 1..MaxWrites /\ 0 \in 0..MaxWrites
      /\ call.id \in Doc /\ call.at = "write"
  BY ConstantsAssumption DEF Write, CallInv, TypeOK
<1>2. /\ call' = [call EXCEPT !.at = "reply"]
      /\ touched' = IF call.kind = "update" THEN touched \union {call.id} ELSE touched
      /\ UNCHANGED <<server, base, created, confirmed, early>>
  BY DEF Write
<1>3. /\ [n |-> writes', is |-> "creating"] \in ClientDoc
      /\ [n |-> writes', is |-> "updating"] \in ClientDoc
      /\ [n |-> 0, is |-> "deleting"] \in ClientDoc
  BY <1>1 DEF ClientDoc, State
<1>4. \/ \E r \in ClientDoc :
            /\ Change(call.id, r)
            /\ \/ r = [n |-> writes', is |-> "creating"] /\ call.kind = "add"
               \/ r = [n |-> writes', is |-> "updating"] /\ call.kind = "update"
               \/ r = [n |-> 0, is |-> "deleting"] /\ call.kind = "delete"
      \/ UNCHANGED <<doc, view, on, shown, details>> /\ call.kind = "update"
  BY <1>3 DEF Write, clientVars
<1>5. \A d \in Doc : doc[d].is \notin Own
  BY <1>1 DEF DocInv
<1>6. call'.at = "reply" /\ call'.id = call.id /\ call'.kind = call.kind
  BY <1>2 DEF TypeOK
<1>7. ThePost \in Doc /\ touched \subseteq touched' /\ (call.kind = "add" => call.id # ThePost)
  BY <1>2, ConstantsAssumption DEF Doc, CallInv
<1>8. ASSUME UNCHANGED <<doc, view, on, shown, details>> PROVE DocInv'
  <2>1. \A d \in Doc : server[d] \in Nat /\ base[d] \in Nat /\ doc[d].n \in Nat /\ writes \in Nat
    BY DEF TypeOK
  <2>2. \A d \in Doc : server[d] <= writes' /\ base[d] <= writes' /\ doc[d].n <= writes'
    BY <1>1, <2>1 DEF DocInv
  <2>3. ThePost \notin touched' => ThePost \notin touched
    BY <1>7
  <2> QED  BY <1>2, <1>5, <1>7, <1>8, <2>2, <2>3 DEF DocInv, Own
<1>9. ASSUME NEW r \in ClientDoc, Change(call.id, r),
             \/ r = [n |-> writes', is |-> "creating"] /\ call.kind = "add"
             \/ r = [n |-> writes', is |-> "updating"] /\ call.kind = "update"
             \/ r = [n |-> 0, is |-> "deleting"] /\ call.kind = "delete"
      PROVE  DocInv'
  <2>1. doc' = [doc EXCEPT ![call.id] = r]
    BY <1>1, <1>9, ChangeEffect
  <2>2. \A d \in Doc : doc'[d] = IF d = call.id THEN r ELSE doc[d]
    BY <2>1 DEF TypeOK
  <2>3. \A d \in Doc : server[d] \in Nat /\ base[d] \in Nat /\ doc[d].n \in Nat /\ writes \in Nat
    BY DEF TypeOK
  <2>4. \/ r.n = writes' /\ r.is = "creating" /\ call.kind = "add"
        \/ r.n = writes' /\ r.is = "updating" /\ call.kind = "update"
        \/ r.n = 0 /\ r.is = "deleting" /\ call.kind = "delete"
    BY <1>9
  <2>5. \A d \in Doc :
          /\ server'[d] <= writes' /\ base'[d] <= writes' /\ doc'[d].n <= writes'
          /\ doc'[d].is \notin Own => doc'[d].n = base'[d]
          /\ doc'[d].is \in Own => call'.at = "reply" /\ call'.id = d
          /\ doc'[d].is = "creating" => call'.kind = "add"
          /\ doc'[d].is = "updating" => call'.kind = "update" /\ doc'[d].n # base'[d]
          /\ doc'[d].is = "deleting" => call'.kind = "delete" /\ doc'[d].n = 0
    BY <1>1, <1>2, <1>5, <1>6, <2>2, <2>3, <2>4 DEF DocInv, Own
  <2>6. doc'[ThePost].n = 0 /\ ThePost \notin touched' =>
            server'[ThePost] = 0 \/ doc'[ThePost].is = "deleting"
    BY <1>1, <1>2, <1>7, <2>2, <2>3, <2>4 DEF DocInv
  <2> QED  BY <2>5, <2>6 DEF DocInv
<1>10. DocInv'
  BY <1>4, <1>8, <1>9
<1> QED  BY <1>1, <1>2, <1>4, <1>5, <1>10

LEMMA ConfirmDoc ==
    ASSUME CoreInv, Confirm
    PROVE  /\ DocInv'
           /\ call.at = "reply" /\ call.id \in Doc
           /\ LET r == [n |-> doc[call.id].n, is |-> "committed"]
              IN  r \in ClientDoc /\ Change(call.id, r)
           /\ server' = [server EXCEPT ![call.id] = doc[call.id].n]
           /\ base' = [base EXCEPT ![call.id] = doc[call.id].n]
           /\ confirmed' = confirmed \union {doc[call.id].n}
           /\ call' = [call EXCEPT !.at = "done"]
           /\ UNCHANGED <<writes, created, touched, early>>
<1> USE DEF CoreInv
<1> DEFINE r == [n |-> doc[call.id].n, is |-> "committed"]
<1>1. call.at = "reply" /\ call.id \in Doc /\ doc[call.id].n \in 0..MaxWrites
  BY DEF Confirm, TypeOK
<1>2. r \in ClientDoc /\ r.n = doc[call.id].n /\ r.is = "committed" /\ Change(call.id, r)
  BY <1>1 DEF ClientDoc, State, Confirm
<1>3. /\ server' = [server EXCEPT ![call.id] = doc[call.id].n]
      /\ base' = [base EXCEPT ![call.id] = doc[call.id].n]
      /\ confirmed' = confirmed \union {doc[call.id].n}
      /\ call' = [call EXCEPT !.at = "done"]
      /\ UNCHANGED <<writes, created, touched, early>>
  BY DEF Confirm
<1> HIDE DEF r
<1>4. doc' = [doc EXCEPT ![call.id] = r]
  BY <1>1, <1>2, ChangeEffect
<1>5. \A e \in Doc :
        /\ doc'[e] = IF e = call.id THEN r ELSE doc[e]
        /\ base'[e] = IF e = call.id THEN doc[e].n ELSE base[e]
        /\ server'[e] = IF e = call.id THEN doc[e].n ELSE server[e]
  BY <1>3, <1>4 DEF TypeOK
<1>6. ThePost \in Doc
  BY ConstantsAssumption DEF Doc
<1>7. DocInv'
  BY <1>1, <1>2, <1>3, <1>5, <1>6 DEF DocInv, Own
<1> QED  BY <1>1, <1>2, <1>3, <1>7 DEF r

LEMMA RefuseDoc ==
    ASSUME CoreInv, Refuse
    PROVE  /\ DocInv'
           /\ call.at = "reply" /\ call.id \in Doc
           /\ Synced(base[call.id]) \in ClientDoc /\ Change(call.id, Synced(base[call.id]))
           /\ call' = [call EXCEPT !.at = "failed"]
           /\ touched' = IF call.kind = "delete" THEN touched \union {call.id} ELSE touched
           /\ UNCHANGED <<server, base, writes, created, confirmed, early>>
<1> USE DEF CoreInv
<1> DEFINE r == Synced(base[call.id])
<1>1. call.at = "reply" /\ call.id \in Doc
  BY DEF Refuse, TypeOK
<1>2. r \in ClientDoc /\ r.n = base[call.id] /\ r.is = "synced"
  BY <1>1 DEF ClientDoc, State, Synced, TypeOK
<1>3. /\ Change(call.id, r)
      /\ call' = [call EXCEPT !.at = "failed"]
      /\ touched' = IF call.kind = "delete" THEN touched \union {call.id} ELSE touched
      /\ UNCHANGED <<server, base, writes, created, confirmed, early>>
  BY DEF Refuse
<1> HIDE DEF r
<1>4. doc' = [doc EXCEPT ![call.id] = r]
  BY <1>1, <1>2, <1>3, ChangeEffect
<1>5. \A e \in Doc : doc'[e] = IF e = call.id THEN r ELSE doc[e]
  BY <1>4 DEF TypeOK
<1>6. ThePost \in Doc
  BY ConstantsAssumption DEF Doc
<1>7. touched \subseteq touched' /\ (call.kind = "delete" => call.id \in touched')
  BY <1>3
<1>8. call.kind = "add" => call.id # ThePost
  BY DEF CallInv
<1>9. \A e \in Doc :
        /\ server'[e] <= writes' /\ base'[e] <= writes' /\ doc'[e].n <= writes'
        /\ doc'[e].is \notin Own => doc'[e].n = base'[e]
        /\ doc'[e].is \in Own => call'.at = "reply" /\ call'.id = e
        /\ doc'[e].is = "creating" => call'.kind = "add"
        /\ doc'[e].is = "updating" => call'.kind = "update" /\ doc'[e].n # base'[e]
        /\ doc'[e].is = "deleting" => call'.kind = "delete" /\ doc'[e].n = 0
  BY <1>1, <1>2, <1>3, <1>5 DEF DocInv, Own
<1>10. doc'[ThePost].n = 0 /\ ThePost \notin touched' =>
           server'[ThePost] = 0 \/ doc'[ThePost].is = "deleting"
  BY <1>1, <1>2, <1>3, <1>5, <1>6, <1>7, <1>8 DEF DocInv, Own, CallInv, TypeOK
<1> QED  BY <1>1, <1>2, <1>3, <1>9, <1>10 DEF r, DocInv

\* Why DocInv holds: a call makes its write once it knows of the document,
\* answers only its own, and a post that is gone is not written again.
LEMMA CoreStep ==
    ASSUME CoreInv, [Next]_vars
    PROVE  CoreInv'
<1> SUFFICES DocInv'
  BY TypeStep, CallStep DEF CoreInv
<1> USE DEF CoreInv
<1>1. \A d \in Doc : server[d] \in Nat /\ base[d] \in Nat /\ doc[d].n \in Nat
  BY DEF TypeOK
<1>2. ThePost \in Doc /\ writes \in Nat
  BY ConstantsAssumption DEF Doc, TypeOK
<1>3. ASSUME server' = server, base' = base, doc' = doc, writes' = writes, touched' = touched,
             call.at = "reply" => call'.at = "reply" /\ call'.id = call.id /\ call'.kind = call.kind
      PROVE  DocInv'
  BY <1>3 DEF DocInv, Own
<1>4. ASSUME NEW d \in Doc, Watch(d) PROVE DocInv'
  BY <1>4, WatchDoc
<1>5. ASSUME NEW d \in Doc, Foreign(d) PROVE DocInv'
  <2>1. /\ \/ d \notin created
           \/ server[d] # 0
        /\ \A e \in Doc : e # d => server'[e] = server[e]
        /\ server'[d] \in {0, writes'} /\ writes' = writes + 1
        /\ UNCHANGED <<base, doc, call, touched>>
    BY <1>5 DEF Foreign, TypeOK
  <2>2. d # ThePost \/ server[d] # 0
    BY <2>1 DEF CallInv
  <2>3. \A e \in Doc : server'[e] <= writes' /\ base'[e] <= writes' /\ doc'[e].n <= writes'
    BY <1>1, <1>2, <2>1 DEF DocInv
  <2>4. doc'[ThePost].n = 0 /\ ThePost \notin touched' =>
            server'[ThePost] = 0 \/ doc'[ThePost].is = "deleting"
    BY <1>2, <2>1, <2>2 DEF DocInv
  <2> QED  BY <2>1, <2>3, <2>4 DEF DocInv
<1>6. ASSUME NEW d \in Doc, Add(d) PROVE DocInv'
  BY <1>3, <1>6 DEF Add, NoCall
<1>7. ASSUME NEW d \in Doc, NEW kind \in {"update", "delete"}, Alter(d, kind) PROVE DocInv'
  BY <1>3, <1>7 DEF Alter, NoCall, historyVars
<1>8. ASSUME NEW p \in Page, Deliver(p) PROVE DocInv'
  BY <1>3, <1>8 DEF Deliver, historyVars
<1>9. ASSUME NEW p \in Page, PullDown(p) PROVE DocInv'
  BY <1>3, <1>9 DEF PullDown, historyVars
<1>10. CASE Look
  BY <1>3, <1>10 DEF Look, historyVars
<1>11. CASE Write
  BY <1>11, WriteDoc
<1>12. CASE Confirm
  BY <1>12, ConfirmDoc
<1>13. CASE Refuse
  BY <1>13, RefuseDoc
<1>14. CASE Finish
  BY <1>3, <1>14 DEF Finish, historyVars
<1>15. CASE Retry
  BY <1>3, <1>15 DEF Retry, historyVars
<1>16. CASE Back
  BY <1>3, <1>16 DEF Back, TypeOK
<1>17. CASE UNCHANGED vars
  BY <1>3, <1>17 DEF vars, historyVars
<1> QED
  BY <1>4, <1>5, <1>6, <1>7, <1>8, <1>9, <1>10, <1>11, <1>12, <1>13, <1>14, <1>15, <1>16, <1>17
  DEF Next

LEMMA CoreAtInit ==
    ASSUME Init
    PROVE  CoreInv
<1>1. ThePost \in Doc
  BY ConstantsAssumption DEF Doc
<1>2. \A d \in Doc : doc[d].n = server[d] /\ doc[d].is = "synced" /\ base[d] = server[d]
  BY DEF Init, Synced
<1>3. \A d \in Doc : server[d] = IF d = ThePost THEN 1 ELSE 0
  BY DEF Init
<1>4. writes = 1
  BY DEF Init
<1> QED  BY <1>1, <1>2, <1>3, <1>4, CallAtInit DEF CoreInv, DocInv, Own

LEMMA CoreAlways == Spec => []CoreInv
<1>1. Init => CoreInv
  BY CoreAtInit
<1>2. CoreInv /\ [Next]_vars => CoreInv'
  BY CoreStep
<1> QED  BY <1>1, <1>2, PTL DEF Spec

----------------------------------------------------------------------------
(* What is unconfirmed is filtered out.                                     *)

\* A document that is there and not pending holds a write the backend has taken.
Settled(r) == r.n # 0 /\ ~Pending(r) => r.n \in confirmed

ConfirmedInv ==
    /\ \A d \in Doc :
       /\ server[d] # 0 => server[d] \in confirmed
       /\ base[d] # 0 => base[d] \in confirmed
       /\ Settled(doc[d])
       /\ \A p \in Page : Settled(view[p][d])
    /\ NothingUnconfirmedShown

LEMMA PagesStayConfirmed ==
    ASSUME TypeOK, NothingUnconfirmedShown, confirmed \subseteq confirmed',
           NEW raised \in SUBSET Page, view' \in [Page -> [Doc -> ClientDoc]],
           shown' = [p \in Page |-> Heard(raised, view', p)],
           details' = Notify(raised, shown'),
           \A p \in Page, e \in Doc : Settled(view[p][e])'
    PROVE  NothingUnconfirmedShown'
<1>1. ASSUME NEW p \in Page \ {"home"}, NEW x \in shown'[p] PROVE x.n \in confirmed'
  <2>1. CASE x \in Rows(p, view'[p])
    <3>1. x.id \in Doc /\ x.n = view'[p][x.id].n /\ x.n # 0 /\ ~Pending(view'[p][x.id])
      BY <2>1, RowsAre, Queries DEF ShowsPending
    <3>2. Settled(view[p][x.id])'
      BY <3>1
    <3> QED  BY <3>1, <3>2 DEF Settled
  <2>2. CASE x \in shown[p]
    BY <2>2 DEF NothingUnconfirmedShown
  <2>3. x \in Heard(raised, view', p)
    BY <1>1
  <2> QED  BY <2>1, <2>2, <2>3, HeardIs
<1>2. ASSUME NEW x \in details'.post \union details'.comments PROVE x.n \in confirmed'
  <2>1. CASE details' = details
    BY <1>2, <2>1 DEF NothingUnconfirmedShown
  <2>2. CASE details' # details
    <3>1. /\ "post" \in Page \ {"home"} /\ "thread" \in Page \ {"home"}
          /\ details' = [post |-> shown'["post"], comments |-> shown'["thread"]]
      BY <2>2, ConstantsAssumption DEF Notify
    <3>2. x \in shown'["post"] \/ x \in shown'["thread"]
      BY <1>2, <3>1
    <3> QED  BY <1>1, <3>1, <3>2
  <2> QED  BY <2>1, <2>2
<1> QED  BY <1>1, <1>2 DEF NothingUnconfirmedShown

LEMMA ChangeStaysConfirmed ==
    ASSUME TypeOK, ConfirmedInv, confirmed \subseteq confirmed',
           NEW d \in Doc, NEW r \in ClientDoc, Change(d, r),
           r.n # 0 /\ ~Pending(r) => r.n \in confirmed'
    PROVE  /\ \A e \in Doc : Settled(doc[e])' /\ \A p \in Page : Settled(view[p][e])'
           /\ NothingUnconfirmedShown'
<1>1. /\ doc' = [doc EXCEPT ![d] = r] /\ doc' \in [Doc -> ClientDoc]
      /\ view' \in [Page -> [Doc -> ClientDoc]]
      /\ \A p \in Page, e \in Doc :
            view'[p][e] = IF p \in on /\ d \in Query(p) /\ e = d
                          THEN Applied(view[p][d], r) ELSE view[p][e]
      /\ shown' = [p \in Page |-> Heard(RaisedBy(d, r), view', p)]
      /\ details' = Notify(RaisedBy(d, r), shown')
  BY ChangeEffect
<1>2. RaisedBy(d, r) \in SUBSET Page
  BY DEF RaisedBy, TypeOK
<1>3. \A e \in Doc : doc'[e] \in {doc[e], r}
  BY <1>1 DEF TypeOK
<1>4. \A p \in Page, e \in Doc : view'[p][e] \in {view[p][e], r}
  BY <1>1 DEF Applied
<1>5. \A e \in Doc : Settled(doc[e])' /\ \A p \in Page : Settled(view[p][e])'
  BY <1>3, <1>4 DEF ConfirmedInv, Settled
<1>6. NothingUnconfirmedShown
  BY DEF ConfirmedInv
<1>7. NothingUnconfirmedShown'
  BY <1>1, <1>2, <1>5, <1>6, PagesStayConfirmed
<1> QED  BY <1>5, <1>7

LEMMA ListenStaysConfirmed ==
    ASSUME TypeOK, ConfirmedInv, NEW P, Listen(P), UNCHANGED <<server, base, doc, confirmed>>
    PROVE  ConfirmedInv'
<1>1. /\ \A p \in Page, e \in Doc : view'[p][e] \in {view[p][e], Absent}
      /\ \A p \in Page : shown'[p] \in {shown[p], {}}
      /\ details' = details
  BY ListenEffect
<1>2. Absent.n = 0
  BY DEF Absent, Synced
<1>3. \A e \in Doc, p \in Page : Settled(view[p][e])'
  BY <1>1, <1>2 DEF Settled, ConfirmedInv
<1> QED  BY <1>1, <1>3 DEF ConfirmedInv, NothingUnconfirmedShown, Settled

\* Why ConfirmedInv holds: what a page shows comes from the views, a view from
\* the client, and the client only calls a write confirmed when it is.
LEMMA ConfirmedStep ==
    ASSUME CoreInv, ConfirmedInv, [Next]_vars
    PROVE  ConfirmedInv'
<1> USE DEF CoreInv
<1>1. ASSUME UNCHANGED <<server, base, doc, clientVars, confirmed>> PROVE ConfirmedInv'
  BY <1>1 DEF ConfirmedInv, Settled, NothingUnconfirmedShown, clientVars
<1>2. ASSUME NEW d \in Doc, Watch(d) PROVE ConfirmedInv'
  <2>1. /\ Synced(server[d]) \in ClientDoc /\ Change(d, Synced(server[d]))
        /\ server' = server /\ confirmed' = confirmed
    BY <1>2, WatchDoc
  <2>2. Synced(server[d]).n # 0 => Synced(server[d]).n \in confirmed'
    BY <2>1 DEF Synced, ConfirmedInv
  <2>3. \A e \in Doc : base'[e] \in {base[e], server[e]}
    BY <1>2 DEF Watch, TypeOK
  <2>4. /\ \A e \in Doc : Settled(doc[e])' /\ \A p \in Page : Settled(view[p][e])'
        /\ NothingUnconfirmedShown'
    BY <2>1, <2>2, ChangeStaysConfirmed
  <2> QED  BY <2>1, <2>3, <2>4 DEF ConfirmedInv
<1>3. ASSUME NEW d \in Doc, Foreign(d) PROVE ConfirmedInv'
  <2>1. /\ \A e \in Doc : server'[e] \in {server[e], 0, writes + 1}
        /\ confirmed' = confirmed \union {writes + 1}
        /\ UNCHANGED <<base, doc, view, shown, details>>
    BY <1>3 DEF Foreign, TypeOK, clientVars
  <2> QED  BY <2>1 DEF ConfirmedInv, Settled, NothingUnconfirmedShown
<1>4. ASSUME NEW d \in Doc, Add(d) PROVE ConfirmedInv'
  BY <1>1, <1>4 DEF Add
<1>5. ASSUME NEW d \in Doc, NEW kind \in {"update", "delete"}, Alter(d, kind) PROVE ConfirmedInv'
  BY <1>1, <1>5 DEF Alter, historyVars
<1>6. ASSUME NEW p \in Page, Deliver(p) PROVE ConfirmedInv'
  <2>1. /\ view' \in [Page -> [Doc -> ClientDoc]]
        /\ \A q \in Page : q # p => view'[q] = view[q]
        /\ \A d \in Doc : view'[p][d] = IF d \in Query(p) THEN doc[d] ELSE Absent
        /\ shown' = [q \in Page |-> Heard({p}, view', q)]
        /\ details' = Notify({p}, shown')
    BY <1>6, DeliverEffect
  <2>2. UNCHANGED <<server, base, doc, confirmed>>
    BY <1>6 DEF Deliver, historyVars
  <2>3. Absent.n = 0
    BY DEF Absent, Synced
  <2>4. \A q \in Page, d \in Doc : Settled(view[q][d])'
    <3>1. \A q \in Page, d \in Doc : view'[q][d] \in {view[q][d], doc[d], Absent}
      BY <2>1
    <3> QED  BY <2>2, <2>3, <3>1 DEF Settled, ConfirmedInv
  <2>5. NothingUnconfirmedShown /\ {p} \in SUBSET Page
    BY DEF ConfirmedInv
  <2>6. NothingUnconfirmedShown'
    BY <2>1, <2>2, <2>4, <2>5, PagesStayConfirmed
  <2> QED  BY <2>2, <2>4, <2>6 DEF ConfirmedInv, Settled
<1>7. ASSUME NEW p \in Page, PullDown(p) PROVE ConfirmedInv'
  BY <1>7, ListenStaysConfirmed DEF PullDown, historyVars
<1>8. CASE Look
  BY <1>1, <1>8 DEF Look, historyVars
<1>9. CASE Write
  <2>1. /\ \/ \E r \in ClientDoc :
                /\ Change(call.id, r)
                /\ \/ r = [n |-> writes', is |-> "creating"] /\ call.kind = "add"
                   \/ r = [n |-> writes', is |-> "updating"] /\ call.kind = "update"
                   \/ r = [n |-> 0, is |-> "deleting"] /\ call.kind = "delete"
           \/ UNCHANGED <<doc, view, on, shown, details>> /\ call.kind = "update"
        /\ UNCHANGED <<server, base, confirmed>>
    BY <1>9, WriteDoc
  <2>2. CASE UNCHANGED <<doc, view, on, shown, details>>
    BY <1>1, <2>1, <2>2 DEF clientVars
  <2>3. ASSUME NEW r \in ClientDoc, Change(call.id, r), r.n = 0 \/ r.is \in {"creating", "updating"}
        PROVE  ConfirmedInv'
    <3>1. call.id \in Doc
      BY DEF TypeOK
    <3>2. ~(r.n # 0 /\ ~Pending(r))
      BY <2>3 DEF Pending
    <3>3. /\ \A e \in Doc : Settled(doc[e])' /\ \A p \in Page : Settled(view[p][e])'
          /\ NothingUnconfirmedShown'
      BY <2>1, <2>3, <3>1, <3>2, ChangeStaysConfirmed
    <3> QED  BY <2>1, <3>3 DEF ConfirmedInv
  <2> QED  BY <2>1, <2>2, <2>3
<1>10. CASE Confirm
  <2> DEFINE r == [n |-> doc[call.id].n, is |-> "committed"]
  <2>1. /\ call.id \in Doc /\ r \in ClientDoc /\ Change(call.id, r)
        /\ server' = [server EXCEPT ![call.id] = doc[call.id].n]
        /\ base' = [base EXCEPT ![call.id] = doc[call.id].n]
        /\ confirmed' = confirmed \union {doc[call.id].n}
    BY <1>10, ConfirmDoc
  <2>2. r.n \in confirmed'
    BY <2>1
  <2>3. \A e \in Doc : /\ server'[e] = server[e] \/ server'[e] \in confirmed'
                       /\ base'[e] = base[e] \/ base'[e] \in confirmed'
    BY <2>1 DEF TypeOK
  <2>4. /\ \A e \in Doc : Settled(doc[e])' /\ \A p \in Page : Settled(view[p][e])'
        /\ NothingUnconfirmedShown'
    <3> HIDE DEF r
    <3> QED  BY <2>1, <2>2, ChangeStaysConfirmed
  <2> QED  BY <2>1, <2>3, <2>4 DEF ConfirmedInv
<1>11. CASE Refuse
  <2>1. /\ call.id \in Doc /\ Synced(base[call.id]) \in ClientDoc
        /\ Change(call.id, Synced(base[call.id]))
        /\ UNCHANGED <<server, base, confirmed>>
    BY <1>11, RefuseDoc
  <2>2. Synced(base[call.id]).n # 0 => Synced(base[call.id]).n \in confirmed'
    BY <2>1 DEF Synced, ConfirmedInv
  <2>3. /\ \A e \in Doc : Settled(doc[e])' /\ \A p \in Page : Settled(view[p][e])'
        /\ NothingUnconfirmedShown'
    BY <2>1, <2>2, ChangeStaysConfirmed
  <2> QED  BY <2>1, <2>3 DEF ConfirmedInv
<1>12. CASE Finish
  BY <1>1, <1>12, ListenStaysConfirmed DEF Finish, historyVars
<1>13. CASE Retry
  BY <1>1, <1>13 DEF Retry, historyVars
<1>14. CASE Back
  BY <1>1, <1>14, ListenStaysConfirmed DEF Back
<1>15. CASE UNCHANGED vars
  BY <1>1, <1>15 DEF vars, historyVars
<1> QED
  BY <1>2, <1>3, <1>4, <1>5, <1>6, <1>7, <1>8, <1>9, <1>10, <1>11, <1>12, <1>13, <1>14, <1>15
  DEF Next

\* NothingUnconfirmedShown: whatever is refused, whenever, no page but the home
\* list has shown it.
THEOREM NothingShownIsTakenBack == Spec => []NothingUnconfirmedShown
<1>1. Init => ConfirmedInv
  <2> SUFFICES ASSUME Init PROVE ConfirmedInv
    OBVIOUS
  <2>1. \A d \in Doc : server[d] = (IF d = ThePost THEN 1 ELSE 0) /\ base[d] = server[d]
                        /\ doc[d].n = server[d] /\ \A p \in Page : view[p][d].n = 0
    BY DEF Init, Synced, Absent
  <2>2. confirmed = {1} /\ \A p \in Page : shown[p] = {}
    BY DEF Init
  <2>3. details.post = {} /\ details.comments = {}
    BY DEF Init
  <2> QED  BY <2>1, <2>2, <2>3 DEF ConfirmedInv, Settled, NothingUnconfirmedShown
<1>2. CoreInv /\ ConfirmedInv /\ [Next]_vars => ConfirmedInv'
  BY ConfirmedStep
<1>3. ConfirmedInv => NothingUnconfirmedShown
  BY DEF ConfirmedInv
<1> QED  BY <1>1, <1>2, <1>3, CoreAlways, PTL DEF Spec

----------------------------------------------------------------------------
(* What a page shows of the documents this device has not updated.          *)

\* A listener's view is what the client has, or waits for the backend to send
\* the write that it has confirmed.
Tracks(p, d) ==
    \/ view[p][d] = doc[d]
    \/ Pending(view[p][d]) /\ doc[d].is = "committed" /\ view[p][d].n = doc[d].n

\* A provider shows what is in its listener's view.
Faithful(p, d) ==
    \A n \in 1..MaxWrites : [id |-> d, n |-> n] \in shown[p] <=>
        n = view[p][d].n /\ (ShowsPending(p) \/ ~Pending(view[p][d]))

\* The pages that need no refreshing to be faithful.
Kept(p, d) ==
    \/ p = "home"
    \/ d \notin touched /\ (p = "thread" => ThePost \notin touched /\ doc[ThePost].n # 0)

FeedInv ==
    /\ \A p \in Page : \A x \in shown[p] : x.id \in Query(p)
    /\ \A d \in Doc \ touched : \A p \in Page : view[p][d].is # "updating"
    /\ \A p \in Page : view[p][ThePost].is # "creating"
    /\ \A p \in on : \A d \in Query(p) : Tracks(p, d) /\ (Kept(p, d) => Faithful(p, d))

\* d may be out of date on a page that is refreshed after an update: its update
\* is under way, or has been confirmed and the refresh is due.
Excused(d) ==
    \/ doc[d].is = "updating"
    \/ call.kind = "update" /\ call.id = d /\ call.at = "done"

\* What the client's changes have in common: it confirms what it has, the post
\* is never new to it, its updates are touched, a post that is gone stays so, and
\* an update that ends without a refresh to come is taken back.
ChangeStep(d, r) ==
    /\ d \in Doc /\ r \in ClientDoc /\ Change(d, r)
    /\ r.is = "committed" => r.n = doc[d].n
    /\ r.is = "creating" => d # ThePost
    /\ r.is = "updating" => d \in touched'
    /\ d = ThePost /\ doc[d].n = 0 /\ d \notin touched' => r.n = 0
    /\ \A e \in Doc : Excused(e) =>
          Excused(e)' \/ (e = d /\ r.is # "committed" /\ r.n # doc[d].n)

\* The client changes in no other way, and forgets nothing of its own.
LEMMA ChangeSteps ==
    ASSUME CoreInv, (\E d \in Doc : Watch(d)) \/ Write \/ Confirm \/ Refuse
    PROVE  /\ \/ \E d, r : ChangeStep(d, r)
              \/ UNCHANGED <<doc, view, on, shown, details>>
           /\ touched \subseteq touched'
<1> USE DEF CoreInv
<1>1. ASSUME NEW d \in Doc, Watch(d)
      PROVE  ChangeStep(d, Synced(server[d])) /\ touched' = touched
  <2>1. /\ doc[d].is \in {"synced", "committed"}
        /\ Synced(server[d]) \in ClientDoc /\ Change(d, Synced(server[d]))
        /\ touched' = touched
    BY <1>1, WatchDoc
  <2>2. Synced(server[d]).n = server[d] /\ Synced(server[d]).is = "synced"
    BY DEF Synced
  <2>3. \A e \in Doc : Excused(e) => Excused(e)'
    <3>1. call' = call /\ \A e \in Doc : e # d => doc'[e] = doc[e]
      BY <1>1, <2>1, ChangeEffect DEF Watch
    <3> QED  BY <2>1, <3>1 DEF Excused
  <2> QED  BY <2>1, <2>2, <2>3 DEF ChangeStep, DocInv
<1>2. CASE Write
  <2>1. /\ \/ \E r \in ClientDoc :
                /\ Change(call.id, r)
                /\ \/ r = [n |-> writes', is |-> "creating"] /\ call.kind = "add"
                   \/ r = [n |-> writes', is |-> "updating"] /\ call.kind = "update"
                   \/ r = [n |-> 0, is |-> "deleting"] /\ call.kind = "delete"
           \/ UNCHANGED <<doc, view, on, shown, details>>
        /\ touched' = IF call.kind = "update" THEN touched \union {call.id} ELSE touched
    BY <1>2, WriteDoc
  <2>2. call.id \in Doc /\ (call.kind = "add" => call.id # ThePost)
    BY DEF CallInv, TypeOK
  <2>3. \A e \in Doc : ~Excused(e)
    BY <1>2 DEF Write, DocInv, Own, Excused
  <2>4. ASSUME NEW r \in ClientDoc, Change(call.id, r),
               \/ r = [n |-> writes', is |-> "creating"] /\ call.kind = "add"
               \/ r = [n |-> writes', is |-> "updating"] /\ call.kind = "update"
               \/ r = [n |-> 0, is |-> "deleting"] /\ call.kind = "delete"
        PROVE  ChangeStep(call.id, r)
    <3>1. \/ r.is = "creating" /\ call.kind = "add"
          \/ r.is = "updating" /\ call.kind = "update"
          \/ r.is = "deleting" /\ r.n = 0
      BY <2>4
    <3> QED  BY <2>1, <2>2, <2>3, <2>4, <3>1 DEF ChangeStep
  <2> QED  BY <2>1, <2>4
<1>3. CASE Confirm
  <2> DEFINE r == [n |-> doc[call.id].n, is |-> "committed"]
  <2>1. call.id \in Doc /\ r \in ClientDoc /\ Change(call.id, r) /\ touched' = touched
    BY <1>3, ConfirmDoc
  <2>2. r.n = doc[call.id].n /\ r.is = "committed"
    OBVIOUS
  <2> HIDE DEF r
  <2>3. \A e \in Doc : Excused(e) => Excused(e)'
    <3>1. call.at = "reply" /\ call' = [call EXCEPT !.at = "done"]
      BY <1>3 DEF Confirm
    <3>2. call'.kind = call.kind /\ call'.id = call.id /\ call'.at = "done"
      BY <3>1 DEF TypeOK
    <3> QED  BY <3>1, <3>2 DEF DocInv, Own, Excused
  <2>4. ChangeStep(call.id, r)
    BY <2>1, <2>2, <2>3 DEF ChangeStep
  <2> QED  BY <2>1, <2>4
<1>4. CASE Refuse
  <2>1. /\ call.at = "reply" /\ call.id \in Doc
        /\ Synced(base[call.id]) \in ClientDoc /\ Change(call.id, Synced(base[call.id]))
        /\ touched' = IF call.kind = "delete" THEN touched \union {call.id} ELSE touched
    BY <1>4, RefuseDoc
  <2>2. Synced(base[call.id]).n = base[call.id] /\ Synced(base[call.id]).is = "synced"
    BY DEF Synced
  <2>3. ASSUME call.id = ThePost, doc[call.id].n = 0, call.id \notin touched'
        PROVE  base[call.id] = 0
    BY <2>1, <2>3 DEF DocInv, CallInv, Own
  <2>4. \A e \in Doc : Excused(e) => e = call.id /\ base[call.id] # doc[call.id].n
    BY <2>1 DEF DocInv, Own, Excused
  <2>5. ChangeStep(call.id, Synced(base[call.id]))
    BY <2>1, <2>2, <2>3, <2>4 DEF ChangeStep
  <2> QED  BY <2>1, <2>5
<1> QED  BY <1>1, <1>2, <1>3, <1>4

\* An event brings the page up to date, but for a details page of a pending post.
LEMMA EventIsFaithful ==
    ASSUME NEW raised, view' \in [Page -> [Doc -> ClientDoc]],
           shown' = [q \in Page |-> Heard(raised, view', q)],
           NEW p \in Page, p \in raised,
           p = "post" => ~Pending(view'["post"][ThePost]),
           p = "thread" => ~("post" \in raised /\ view'["post"][ThePost].n = 0)
    PROVE  \A d \in Query(p) : Faithful(p, d)'
<1>1. shown'[p] = Rows(p, view'[p])
  BY HeardIs
<1>2. \A d \in Query(p), n \in 1..MaxWrites :
        [id |-> d, n |-> n] \in Rows(p, view'[p]) <=>
            n = view'[p][d].n /\ (ShowsPending(p) \/ ~Pending(view'[p][d]))
  BY RowsAre
<1> QED  BY <1>1, <1>2 DEF Faithful, ShowsPending

\* A change that raises no event is one that the page does not show.
LEMMA ChangeIsFaithful ==
    ASSUME TypeOK, NEW d \in Doc, NEW r \in ClientDoc, Change(d, r),
           NEW p \in Page, p \in on, NEW e \in Query(p), Faithful(p, e),
           e = d => ShowsPending(p) \/ (view[p][d].is # "updating" /\ r.is # "updating"),
           p = "post" => ~Pending(view'["post"][ThePost]),
           p = "thread" => ~("post" \in RaisedBy(d, r) /\ view'["post"][ThePost].n = 0)
    PROVE  Faithful(p, e)'
<1>1. /\ view' \in [Page -> [Doc -> ClientDoc]]
      /\ \A q \in Page, f \in Doc :
            view'[q][f] = IF q \in on /\ d \in Query(q) /\ f = d
                          THEN Applied(view[q][d], r) ELSE view[q][f]
      /\ shown' = [q \in Page |-> Heard(RaisedBy(d, r), view', q)]
  BY ChangeEffect
<1>2. CASE p \in RaisedBy(d, r)
  BY <1>1, <1>2, EventIsFaithful
<1>3. CASE p \notin RaisedBy(d, r)
  <2>1. shown'[p] = shown[p]
    BY <1>1, <1>3, HeardIs
  <2>2. e \in Doc
    BY Queries
  <2>3. /\ view'[p][e].n = view[p][e].n
        /\ ShowsPending(p) \/ (Pending(view'[p][e]) <=> Pending(view[p][e]))
    <3>1. CASE e # d
      BY <1>1, <2>2, <3>1
    <3>2. CASE e = d
      <4>1. ~Raises(view[p][d], r)
        BY <1>3, <3>2 DEF RaisedBy
      <4>2. view'[p][e] = Applied(view[p][d], r)
        BY <1>1, <2>2, <3>2
      <4>3. CASE Waits(view[p][d], r)
        BY <3>2, <4>2, <4>3 DEF Applied
      <4>4. CASE ~Waits(view[p][d], r)
        <5>1. view'[p][e] = r /\ SameValue(view[p][d], r)
          BY <4>1, <4>2, <4>4 DEF Applied, Raises
        <5> QED  BY <3>2, <5>1 DEF SameValue, Pending
      <4> QED  BY <4>3, <4>4
    <3> QED  BY <3>1, <3>2
  <2> QED  BY <2>1, <2>3 DEF Faithful, ShowsPending
<1> QED  BY <1>2, <1>3

LEMMA ChangeKeepsTrack ==
    ASSUME TypeOK, NEW d \in Doc, NEW r \in ClientDoc, Change(d, r),
           r.is = "committed" => r.n = doc[d].n,
           NEW p \in Page, p \in on, NEW e \in Query(p), Tracks(p, e)
    PROVE  Tracks(p, e)'
<1>1. /\ doc' = [doc EXCEPT ![d] = r]
      /\ \A q \in Page, f \in Doc :
            view'[q][f] = IF q \in on /\ d \in Query(q) /\ f = d
                          THEN Applied(view[q][d], r) ELSE view[q][f]
  BY ChangeEffect
<1>2. e \in Doc
  BY Queries
<1>3. doc'[e] = IF e = d THEN r ELSE doc[e]
  BY <1>1, <1>2 DEF TypeOK
<1>4. CASE e # d
  BY <1>1, <1>2, <1>3, <1>4 DEF Tracks
<1>5. CASE e = d
  <2>1. view'[p][e] = Applied(view[p][d], r) /\ doc'[e] = r
    BY <1>1, <1>2, <1>3, <1>5
  <2>2. view[p][d].n = doc[d].n
    BY <1>5 DEF Tracks
  <2> QED  BY <1>5, <2>1, <2>2 DEF Tracks, Applied, Waits
<1> QED  BY <1>4, <1>5

LEMMA ChangeKeepsFeed ==
    ASSUME TypeOK, FeedInv, NEW d, NEW r, ChangeStep(d, r), touched \subseteq touched'
    PROVE  FeedInv'
<1>1. /\ d \in Doc /\ r \in ClientDoc /\ Change(d, r)
      /\ r.is = "committed" => r.n = doc[d].n
      /\ r.is = "creating" => d # ThePost
      /\ r.is = "updating" => d \in touched'
      /\ d = ThePost /\ doc[d].n = 0 /\ d \notin touched' => r.n = 0
  BY DEF ChangeStep
<1>2. /\ doc' = [doc EXCEPT ![d] = r] /\ on' = on
      /\ view' \in [Page -> [Doc -> ClientDoc]]
      /\ \A q \in Page, f \in Doc :
            view'[q][f] = IF q \in on /\ d \in Query(q) /\ f = d
                          THEN Applied(view[q][d], r) ELSE view[q][f]
      /\ shown' = [q \in Page |-> Heard(RaisedBy(d, r), view', q)]
  BY <1>1, ChangeEffect
<1>3. \A f \in Doc : doc'[f] = IF f = d THEN r ELSE doc[f]
  BY <1>2 DEF TypeOK
<1>4. \A q \in Page, f \in Doc : view'[q][f] = view[q][f] \/ (f = d /\ view'[q][f] = r)
  BY <1>2 DEF Applied
<1>5. ThePost \in Doc /\ on \subseteq Page
  BY ConstantsAssumption DEF Doc, TypeOK
<1>6. \A p \in Page : \A x \in shown'[p] : x.id \in Query(p)
  <2> TAKE p \in Page
  <2>1. shown'[p] \in {{}, shown[p], Rows(p, view'[p])}
    BY <1>2, HeardIs
  <2>2. \A x \in Rows(p, view'[p]) : x.id \in Query(p)
    BY <1>2, RowsAre
  <2> QED  BY <2>1, <2>2 DEF FeedInv
<1>7. \A f \in Doc \ touched' : \A p \in Page : view'[p][f].is # "updating"
  BY <1>1, <1>4 DEF FeedInv
<1>8. \A p \in Page : view'[p][ThePost].is # "creating"
  BY <1>1, <1>4, <1>5 DEF FeedInv
<1>9. ASSUME NEW p \in on, NEW e \in Query(p) PROVE Tracks(p, e)'
  <2>1. Tracks(p, e) /\ p \in Page
    BY <1>5 DEF FeedInv
  <2> QED  BY <1>1, <2>1, ChangeKeepsTrack
<1>10. ASSUME NEW p \in on, NEW e \in Query(p), Kept(p, e)' PROVE Faithful(p, e)'
  <2>1. p \in Page /\ e \in Doc
    BY <1>5, Queries
  <2>2. p = "home" \/ (e \notin touched' /\ (p = "thread" => ThePost \notin touched' /\ doc'[ThePost].n # 0))
    BY <1>10 DEF Kept
  <2>3. p = "thread" => doc[ThePost].n # 0
    BY <1>1, <1>3, <1>5, <2>2
  <2>4. Kept(p, e)
    BY <2>2, <2>3 DEF Kept
  <2>5. Faithful(p, e)
    BY <2>4 DEF FeedInv
  <2>6. e = d => ShowsPending(p) \/ (view[p][d].is # "updating" /\ r.is # "updating")
    BY <1>1, <2>1, <2>2 DEF ShowsPending, FeedInv
  <2>7. p = "post" => ~Pending(view'["post"][ThePost])
    <3> SUFFICES ASSUME p = "post" PROVE ~Pending(view'["post"][ThePost])
      OBVIOUS
    <3>1. e = ThePost
      BY DEF Query
    <3> QED  BY <1>7, <1>8, <2>1, <2>2, <3>1 DEF Pending
  <2>8. p = "thread" => ~("post" \in RaisedBy(d, r) /\ view'["post"][ThePost].n = 0)
    <3> SUFFICES ASSUME p = "thread", "post" \in RaisedBy(d, r) PROVE view'["post"][ThePost].n # 0
      OBVIOUS
    <3>1. "post" \in Page /\ "post" \in on /\ d = ThePost /\ d \in Query("post")
          /\ ~Waits(view["post"][d], r)
      BY <1>5 DEF RaisedBy, Query, Raises
    <3>2. view'["post"][ThePost] = r
      BY <1>2, <1>5, <3>1 DEF Applied
    <3> QED  BY <1>3, <1>5, <2>2, <3>1, <3>2
  <2> QED  BY <1>1, <2>1, <2>5, <2>6, <2>7, <2>8, ChangeIsFaithful
<1> QED  BY <1>2, <1>6, <1>7, <1>8, <1>9, <1>10 DEF FeedInv

LEMMA DeliverKeepsFeed ==
    ASSUME CoreInv, FeedInv, NEW p \in Page, Deliver(p)
    PROVE  FeedInv'
<1>1. /\ p \notin on /\ on' = on \union {p}
      /\ view' \in [Page -> [Doc -> ClientDoc]]
      /\ \A q \in Page : q # p => view'[q] = view[q]
      /\ \A d \in Doc : view'[p][d] = IF d \in Query(p) THEN doc[d] ELSE Absent
      /\ shown' = [q \in Page |-> Heard({p}, view', q)]
  BY DeliverEffect DEF CoreInv
<1>2. doc' = doc /\ touched' = touched
  BY DEF Deliver, historyVars
<1>3. ThePost \in Doc /\ on \subseteq Page
  BY ConstantsAssumption DEF CoreInv, Doc, TypeOK
<1>4. Absent.is = "synced"
  BY DEF Absent, Synced
<1>5. \A d \in Doc \ touched : doc[d].is # "updating"
  BY DEF CoreInv, CallInv, DocInv, Own
<1>6. doc[ThePost].is # "creating"
  BY <1>3 DEF CoreInv, CallInv, DocInv, Own
<1>7. \A q \in Page : \A x \in shown'[q] : x.id \in Query(q)
  <2> TAKE q \in Page
  <2>1. shown'[q] \in {{}, shown[q], Rows(q, view'[q])}
    BY <1>1, HeardIs
  <2>2. \A x \in Rows(q, view'[q]) : x.id \in Query(q)
    BY <1>1, RowsAre
  <2> QED  BY <2>1, <2>2 DEF FeedInv
<1>8. \A d \in Doc \ touched' : \A q \in Page : view'[q][d].is # "updating"
  BY <1>1, <1>2, <1>4, <1>5 DEF FeedInv
<1>9. \A q \in Page : view'[q][ThePost].is # "creating"
  BY <1>1, <1>3, <1>4, <1>6 DEF FeedInv
<1>10. ASSUME NEW q \in on, NEW e \in Query(q)
       PROVE  Tracks(q, e)' /\ (Kept(q, e)' => Faithful(q, e)')
  <2>1. q \in Page /\ q # p /\ view'[q] = view[q]
    BY <1>1, <1>3
  <2>2. Tracks(q, e)'
    BY <1>2, <2>1 DEF FeedInv, Tracks
  <2>3. ASSUME Kept(q, e)' PROVE Faithful(q, e)'
    <3>1. Kept(q, e) /\ (q = "thread" => doc[ThePost].n # 0)
      BY <1>2, <2>3 DEF Kept
    <3>2. ~(q = "thread" /\ "post" \in {p} /\ view'["post"][ThePost].n = 0)
      BY <1>1, <1>3, <3>1 DEF Query
    <3>3. shown'[q] = shown[q]
      BY <1>1, <2>1, <3>2, HeardIs
    <3> QED  BY <2>1, <3>1, <3>3 DEF FeedInv, Faithful, ShowsPending
  <2> QED  BY <2>2, <2>3
<1>11. ASSUME NEW e \in Query(p)
       PROVE  Tracks(p, e)' /\ (Kept(p, e)' => Faithful(p, e)')
  <2>1. e \in Doc
    BY Queries
  <2>2. Tracks(p, e)'
    BY <1>1, <1>2, <2>1 DEF Tracks
  <2>3. ASSUME Kept(p, e)' PROVE Faithful(p, e)'
    <3>1. p = "post" => e = ThePost /\ e \notin touched'
      BY <2>3 DEF Kept, Query
    <3>2. p = "post" => ~Pending(view'["post"][ThePost])
      BY <1>8, <1>9, <2>1, <3>1 DEF Pending
    <3>3. p = "thread" => ~("post" \in {p} /\ view'["post"][ThePost].n = 0)
      OBVIOUS
    <3> QED  BY <1>1, <3>2, <3>3, EventIsFaithful
  <2> QED  BY <2>2, <2>3
<1>12. \A q \in on' : \A e \in Query(q) : Tracks(q, e)' /\ (Kept(q, e)' => Faithful(q, e)')
  BY <1>1, <1>10, <1>11
<1> QED  BY <1>7, <1>8, <1>9, <1>12 DEF FeedInv

LEMMA ListenKeepsFeed ==
    ASSUME CoreInv, FeedInv, NEW P, Listen(P), UNCHANGED <<doc, touched>>
    PROVE  FeedInv'
<1>1. /\ on' = on \ P /\ on \subseteq Page
      /\ \A p \in Page \ P : view'[p] = view[p] /\ shown'[p] = shown[p]
      /\ \A p \in Page, d \in Doc : view'[p][d] \in {view[p][d], Absent}
      /\ \A p \in Page : shown'[p] \in {shown[p], {}}
  BY ListenEffect DEF CoreInv, TypeOK
<1>2. Absent.is = "synced" /\ ThePost \in Doc
  BY ConstantsAssumption DEF Absent, Synced, Doc
<1>3. \A p \in on' : \A d \in Query(p) : Tracks(p, d)' /\ (Kept(p, d)' => Faithful(p, d)')
  BY <1>1 DEF FeedInv, Tracks, Kept, Faithful, ShowsPending
<1> QED  BY <1>1, <1>2, <1>3 DEF FeedInv

\* Why FeedInv holds: an event brings a page up to date, and the changes that
\* raise none are confirmations, which the views wait out, and the end of an
\* update of this device's own.
LEMMA FeedStep ==
    ASSUME CoreInv, FeedInv, [Next]_vars
    PROVE  FeedInv'
<1> USE DEF CoreInv
<1>1. ASSUME doc' = doc, view' = view, on' = on, shown' = shown, touched \subseteq touched'
      PROVE  FeedInv'
  BY <1>1 DEF FeedInv, Tracks, Kept, Faithful, ShowsPending
<1>2. CASE (\E d \in Doc : Watch(d)) \/ Write \/ Confirm \/ Refuse
  BY <1>1, <1>2, ChangeSteps, ChangeKeepsFeed
<1>3. ASSUME NEW d \in Doc, Foreign(d) \/ Add(d) PROVE FeedInv'
  BY <1>1, <1>3 DEF Foreign, Add, clientVars
<1>4. ASSUME NEW d \in Doc, NEW kind \in {"update", "delete"}, Alter(d, kind) PROVE FeedInv'
  BY <1>1, <1>4 DEF Alter, clientVars, historyVars
<1>5. ASSUME NEW p \in Page, Deliver(p) PROVE FeedInv'
  BY <1>5, DeliverKeepsFeed
<1>6. ASSUME NEW p \in Page, PullDown(p) PROVE FeedInv'
  BY <1>6, ListenKeepsFeed DEF PullDown, historyVars
<1>7. CASE Look
  BY <1>1, <1>7 DEF Look, clientVars, historyVars
<1>8. CASE Finish
  BY <1>1, <1>8, ListenKeepsFeed DEF Finish, clientVars, historyVars
<1>9. CASE Retry
  BY <1>1, <1>9 DEF Retry, clientVars, historyVars
<1>10. CASE Back
  BY <1>1, <1>10, ListenKeepsFeed DEF Back, clientVars
<1>11. CASE UNCHANGED vars
  BY <1>1, <1>11 DEF vars, clientVars, historyVars
<1> QED
  BY <1>2, <1>3, <1>4, <1>5, <1>6, <1>7, <1>8, <1>9, <1>10, <1>11 DEF Next

LEMMA FeedAlways == Spec => []FeedInv
<1>1. Init => FeedInv
  <2>1. Init => \A p \in Page, d \in Doc : view[p][d].is = "synced"
    BY DEF Init, Absent, Synced
  <2>2. Init => on = {} /\ \A p \in Page : shown[p] = {}
    BY DEF Init
  <2>3. ThePost \in Doc
    BY ConstantsAssumption DEF Doc
  <2> QED  BY <2>1, <2>2, <2>3 DEF FeedInv
<1>2. CoreInv /\ FeedInv /\ [Next]_vars => FeedInv'
  BY FeedStep
<1> QED  BY <1>1, <1>2, CoreAlways, PTL DEF Spec

\* HomeIsCurrent: the home list shows every post as the client has it, whatever
\* is written, refused or sent, and in whatever order.
THEOREM HomeNeverLags == Spec => []HomeIsCurrent
<1>1. CoreInv /\ FeedInv => HomeIsCurrent
  <2> SUFFICES ASSUME TypeOK, FeedInv, "home" \in on
               PROVE  shown["home"] = {[id |-> d, n |-> doc[d].n] : d \in {e \in Post : doc[e].n # 0}}
    BY DEF CoreInv, HomeIsCurrent
  <2>1. "home" \in Page /\ Query("home") = Post /\ Post \subseteq Doc
    BY DEF TypeOK, Query, Doc
  <2>2. \A d \in Post : view["home"][d].n = doc[d].n /\ doc[d].n \in 0..MaxWrites
    BY <2>1 DEF FeedInv, Tracks, TypeOK
  <2>3. \A d \in Post, n \in 1..MaxWrites : [id |-> d, n |-> n] \in shown["home"] <=> n = doc[d].n
    BY <2>1, <2>2 DEF FeedInv, Kept, Faithful, ShowsPending
  <2>4. \A x \in shown["home"] :
          x.id \in Post /\ x.n \in 1..MaxWrites /\ x = [id |-> x.id, n |-> x.n]
    BY <2>1 DEF FeedInv, TypeOK, Row
  <2>5. \A x \in shown["home"] : x.n = doc[x.id].n /\ doc[x.id].n # 0
    BY <2>3, <2>4
  <2>6. \A d \in Post : doc[d].n # 0 => doc[d].n \in 1..MaxWrites
    BY <2>2, ConstantsAssumption
  <2> QED  BY <2>3, <2>4, <2>5, <2>6
<1> QED  BY <1>1, CoreAlways, FeedAlways, PTL

\* OnlyOwnUpdatesGoMissing: once the device knows of a document, every page
\* shows it as it is, unless the device has updated it or failed to delete it.
THEOREM OthersUpdatesAreShown == Spec => []OnlyOwnUpdatesGoMissing
<1>1. FeedInv => OnlyOwnUpdatesGoMissing
  <2> SUFFICES ASSUME FeedInv, NEW p \in on, NEW d \in Query(p) \ touched, Quiet(d),
                      p = "thread" => ThePost \notin touched /\ doc[ThePost].n # 0
               PROVE  Right(p, d)
    BY DEF OnlyOwnUpdatesGoMissing
  <2>1. doc[d].is = "synced" /\ doc[d].n = server[d]
    BY DEF Quiet, Synced
  <2>2. view[p][d] = doc[d]
    BY <2>1 DEF FeedInv, Tracks
  <2>3. Faithful(p, d)
    BY DEF FeedInv, Kept
  <2> QED  BY <2>1, <2>2, <2>3 DEF Faithful, Right, Pending
<1> QED  BY <1>1, FeedAlways, PTL

----------------------------------------------------------------------------
(* What the refreshes after an update are for.                              *)

\* The details page shows its post.
PostShown ==
    LET r == view["post"][ThePost]
    IN  r.n # 0 => /\ ~Pending(r)
                   /\ shown["post"] = {[id |-> ThePost, n |-> r.n]}
                   /\ details.post = shown["post"]

RefreshInv ==
    ~early =>
       /\ \A p \in on \intersect {"comments", "post"} : \A d \in Query(p) :
             view[p][d].is = "updating" => Excused(d)
       /\ "comments" \in on => \A d \in Comment : Excused(d) \/ Faithful("comments", d)
       /\ "post" \in on => Excused(ThePost) \/ PostShown

\* After an event, or an event of the comments only, the details page shows its
\* post unless that is pending.
LEMMA NotifiesPost ==
    ASSUME NEW raised \in SUBSET Page, view' \in [Page -> [Doc -> ClientDoc]],
           shown' = [q \in Page |-> Heard(raised, view', q)],
           details' = Notify(raised, shown'), "post" \in Page,
           ~Pending(view'["post"][ThePost]),
           "post" \notin raised /\ view'["post"][ThePost].n # 0 =>
               /\ shown["post"] = {[id |-> ThePost, n |-> view'["post"][ThePost].n]}
               /\ details.post = shown["post"]
    PROVE  PostShown'
<1> DEFINE n == view'["post"][ThePost].n
<1> SUFFICES ASSUME n # 0
             PROVE  /\ shown'["post"] = {[id |-> ThePost, n |-> n]}
                    /\ details'.post = shown'["post"]
  BY DEF PostShown
<1>1. CASE "post" \in raised
  <2>1. shown'["post"] = Rows("post", view'["post"])
    BY <1>1, HeardIs
  <2>2. Rows("post", view'["post"]) = {[id |-> ThePost, n |-> n]}
    BY DEF Rows, Query
  <2>3. details'.post = shown'["post"]
    BY <1>1, <2>1, <2>2, ZenonT(30) DEF Notify
  <2> QED  BY <2>1, <2>2, <2>3
<1>2. CASE "post" \notin raised
  <2>1. shown'["post"] = shown["post"]
    BY <1>2, HeardIs
  <2>2. details' = details \/ details'.post = shown'["post"]
    BY DEF Notify
  <2> QED  BY <1>2, <2>1, <2>2
<1> QED  BY <1>1, <1>2

LEMMA ChangeKeepsRefresh ==
    ASSUME TypeOK, FeedInv, RefreshInv, NEW d, NEW r, ChangeStep(d, r),
           FeedInv', early' = early
    PROVE  RefreshInv'
<1>1. /\ d \in Doc /\ r \in ClientDoc /\ Change(d, r)
      /\ \A e \in Doc : Excused(e) =>
            Excused(e)' \/ (e = d /\ r.is # "committed" /\ r.n # doc[d].n)
  BY DEF ChangeStep
<1>2. /\ doc' = [doc EXCEPT ![d] = r] /\ on' = on
      /\ view' \in [Page -> [Doc -> ClientDoc]]
      /\ \A q \in Page, f \in Doc :
            view'[q][f] = IF q \in on /\ d \in Query(q) /\ f = d
                          THEN Applied(view[q][d], r) ELSE view[q][f]
      /\ shown' = [q \in Page |-> Heard(RaisedBy(d, r), view', q)]
      /\ details' = Notify(RaisedBy(d, r), shown')
  BY <1>1, ChangeEffect
<1>3. doc'[d] = r
  BY <1>1, <1>2 DEF TypeOK
<1>4. r.is = "updating" => Excused(d)'
  BY <1>3 DEF Excused
<1>5. ThePost \in Doc /\ on \subseteq Page /\ RaisedBy(d, r) \in SUBSET Page
  BY ConstantsAssumption DEF Doc, TypeOK, RaisedBy
<1>6. SUFFICES ASSUME ~early
      PROVE  /\ \A p \in on \intersect {"comments", "post"} : \A e \in Query(p) :
                   view'[p][e].is = "updating" => Excused(e)'
             /\ "comments" \in on => \A e \in Comment : Excused(e)' \/ Faithful("comments", e)'
             /\ "post" \in on => Excused(ThePost)' \/ PostShown'
  BY <1>2 DEF RefreshInv
\* The pages hear of an update that is taken back.
<1>7. ASSUME NEW p \in on, NEW e \in Query(p), Excused(e), ~Excused(e)'
      PROVE  e = d /\ p \in RaisedBy(d, r) /\ view'[p][e] = r
  <2>1. p \in Page /\ e \in Doc
    BY <1>5, Queries
  <2>2. e = d /\ r.is # "committed" /\ r.n # doc[d].n
    BY <1>1, <1>7, <2>1
  <2>3. view[p][d].n = doc[d].n
    BY <1>7, <2>2 DEF FeedInv, Tracks
  <2>4. Raises(view[p][d], r) /\ ~Waits(view[p][d], r)
    BY <2>2, <2>3 DEF Raises, Waits, SameValue
  <2> QED  BY <1>2, <2>1, <2>2, <2>4 DEF RaisedBy, Applied
<1>8. ASSUME NEW p \in on \intersect {"comments", "post"}, NEW e \in Query(p),
             view'[p][e].is = "updating"
      PROVE  Excused(e)'
  <2>1. p \in Page /\ e \in Doc /\ p \in on
    BY <1>5, Queries
  <2>2. CASE e = d /\ view'[p][e] = r
    BY <1>4, <1>8, <2>2
  <2>3. CASE view'[p][e] = view[p][e]
    <3>1. Excused(e)
      BY <1>6, <1>8, <2>3 DEF RefreshInv
    <3> QED  BY <1>4, <1>7, <1>8, <2>1, <3>1
  <2> QED  BY <1>2, <2>1, <2>2, <2>3 DEF Applied
<1>9. ASSUME "comments" \in on, NEW e \in Comment, ~Excused(e)' PROVE Faithful("comments", e)'
  <2>1. "comments" \in Page /\ e \in Query("comments") /\ e \in Doc
    BY <1>5, <1>9 DEF Query, Doc
  <2>2. CASE Excused(e)
    <3>1. "comments" \in RaisedBy(d, r)
      BY <1>7, <1>9, <2>1, <2>2
    <3> QED  BY <1>2, <2>1, <3>1, EventIsFaithful
  <2>3. CASE ~Excused(e)
    <3>1. Faithful("comments", e) /\ view["comments"][e].is # "updating"
      BY <1>6, <1>9, <2>1, <2>3 DEF RefreshInv
    <3>2. e = d => r.is # "updating"
      BY <1>4, <1>9
    <3> QED  BY <1>1, <1>9, <2>1, <3>1, <3>2, ChangeIsFaithful
  <2> QED  BY <2>2, <2>3
<1>10. ASSUME "post" \in on, ~Excused(ThePost)' PROVE PostShown'
  <2>1. "post" \in Page /\ ThePost \in Query("post")
    BY <1>5, <1>10 DEF Query
  <2>2. ~Pending(view'["post"][ThePost])
    BY <1>8, <1>10, <2>1 DEF FeedInv, Pending
  <2>3. ASSUME "post" \notin RaisedBy(d, r), view'["post"][ThePost].n # 0
        PROVE  /\ shown["post"] = {[id |-> ThePost, n |-> view'["post"][ThePost].n]}
               /\ details.post = shown["post"]
    <3>1. ~Excused(ThePost)
      BY <1>7, <1>10, <2>1, <2>3
    <3>2. PostShown
      BY <1>6, <1>10, <3>1 DEF RefreshInv
    <3>3. view'["post"][ThePost].n = view["post"][ThePost].n
      BY <1>2, <1>5, <1>10, <2>1, <2>3 DEF RaisedBy, Raises, SameValue, Applied
    <3> QED  BY <2>3, <3>2, <3>3 DEF PostShown
  <2> QED  BY <1>2, <1>5, <2>1, <2>2, <2>3, NotifiesPost
<1> QED  BY <1>8, <1>9, <1>10

LEMMA DeliverKeepsRefresh ==
    ASSUME CoreInv, FeedInv, RefreshInv, NEW p \in Page, Deliver(p), FeedInv'
    PROVE  RefreshInv'
<1>1. /\ p \notin on /\ on' = on \union {p}
      /\ view' \in [Page -> [Doc -> ClientDoc]]
      /\ \A q \in Page : q # p => view'[q] = view[q]
      /\ \A d \in Doc : view'[p][d] = IF d \in Query(p) THEN doc[d] ELSE Absent
      /\ shown' = [q \in Page |-> Heard({p}, view', q)]
      /\ details' = Notify({p}, shown')
  BY DeliverEffect DEF CoreInv
<1>2. doc' = doc /\ call' = call /\ early' = early
  BY DEF Deliver, historyVars
<1>3. ThePost \in Doc /\ on \subseteq Page /\ {p} \in SUBSET Page
  BY ConstantsAssumption DEF Doc, CoreInv, TypeOK
<1>4. \A d \in Doc : Excused(d)' <=> Excused(d)
  BY <1>2 DEF Excused
<1>5. SUFFICES ASSUME ~early
      PROVE  /\ \A q \in on' \intersect {"comments", "post"} : \A e \in Query(q) :
                   view'[q][e].is = "updating" => Excused(e)
             /\ "comments" \in on' => \A e \in Comment : Excused(e) \/ Faithful("comments", e)'
             /\ "post" \in on' => Excused(ThePost) \/ PostShown'
  <2>1. Comment \subseteq Doc
    BY DEF Doc
  <2>2. \A q \in on' : Query(q) \subseteq Doc
    BY <1>1, <1>3, Queries
  <2> QED  BY <1>2, <1>3, <1>4, <2>1, <2>2 DEF RefreshInv
<1>6. ASSUME NEW q \in on' \intersect {"comments", "post"}, NEW e \in Query(q),
             view'[q][e].is = "updating"
      PROVE  Excused(e)
  <2>1. q \in Page /\ e \in Doc
    BY <1>1, <1>3, Queries
  <2>2. CASE q = p
    BY <1>1, <1>6, <2>1, <2>2 DEF Excused
  <2>3. CASE q # p
    BY <1>1, <1>5, <1>6, <2>1, <2>3 DEF RefreshInv
  <2> QED  BY <2>2, <2>3
<1>7. ASSUME "comments" \in on', NEW e \in Comment, ~Excused(e) PROVE Faithful("comments", e)'
  <2>1. "comments" \in Page /\ e \in Query("comments")
    BY <1>1, <1>3, <1>7 DEF Query
  <2>2. CASE p = "comments"
    BY <1>1, <2>1, <2>2, EventIsFaithful
  <2>3. CASE p # "comments"
    <3>1. shown'["comments"] = shown["comments"] /\ view'["comments"] = view["comments"]
      BY <1>1, <2>1, <2>3, HeardIs
    <3>2. Faithful("comments", e)
      BY <1>1, <1>5, <1>7, <2>3 DEF RefreshInv
    <3> QED  BY <3>1, <3>2 DEF Faithful, ShowsPending
  <2> QED  BY <2>2, <2>3
<1>8. ASSUME "post" \in on', ~Excused(ThePost) PROVE PostShown'
  <2>1. "post" \in Page /\ ThePost \in Query("post")
    BY <1>1, <1>3, <1>8 DEF Query
  <2>2. ~Pending(view'["post"][ThePost])
    BY <1>6, <1>8, <2>1 DEF FeedInv, Pending
  <2>3. ASSUME "post" # p, view'["post"][ThePost].n # 0
        PROVE  /\ shown["post"] = {[id |-> ThePost, n |-> view'["post"][ThePost].n]}
               /\ details.post = shown["post"]
    <3>1. "post" \in on /\ view'["post"] = view["post"]
      BY <1>1, <1>8, <2>1, <2>3
    <3>2. PostShown
      BY <1>5, <1>8, <3>1 DEF RefreshInv
    <3> QED  BY <2>3, <3>1, <3>2 DEF PostShown
  <2> QED  BY <1>1, <1>3, <2>1, <2>2, <2>3, NotifiesPost
<1> QED  BY <1>6, <1>7, <1>8

\* A page that is refreshed has nothing to show; one that is not must not have
\* been waiting for it.
LEMMA ListenKeepsRefresh ==
    ASSUME TypeOK, RefreshInv, NEW P, Listen(P), early => early',
           \A p \in (on \ P) \intersect {"comments", "post"} : \A e \in Query(p) :
               ~early' => (Excused(e) => Excused(e)')
    PROVE  RefreshInv'
<1>1. /\ on' = on \ P /\ on \subseteq Page
      /\ \A p \in Page \ P : view'[p] = view[p] /\ shown'[p] = shown[p]
      /\ details' = details
  BY ListenEffect DEF TypeOK
<1>2. SUFFICES ASSUME ~early', ~early
      PROVE  /\ \A p \in on' \intersect {"comments", "post"} : \A e \in Query(p) :
                   view'[p][e].is = "updating" => Excused(e)'
             /\ "comments" \in on' => \A e \in Comment : Excused(e)' \/ Faithful("comments", e)'
             /\ "post" \in on' => Excused(ThePost)' \/ PostShown'
  BY DEF RefreshInv
<1>3. \A p \in on' \intersect {"comments", "post"} : \A e \in Query(p) :
          view'[p][e].is = "updating" => Excused(e)'
  BY <1>1, <1>2 DEF RefreshInv
<1>4. ASSUME "comments" \in on', NEW e \in Comment PROVE Excused(e)' \/ Faithful("comments", e)'
  <2>1. "comments" \in Page \ P /\ "comments" \in on /\ e \in Query("comments")
    BY <1>1, <1>4 DEF Query
  <2>2. Excused(e) \/ Faithful("comments", e)
    BY <1>2, <2>1 DEF RefreshInv
  <2> QED  BY <1>1, <1>2, <2>1, <2>2 DEF Faithful, ShowsPending
<1>5. ASSUME "post" \in on' PROVE Excused(ThePost)' \/ PostShown'
  <2>1. "post" \in Page \ P /\ "post" \in on /\ ThePost \in Query("post")
    BY <1>1, <1>5 DEF Query
  <2>2. Excused(ThePost) \/ PostShown
    BY <1>2, <2>1 DEF RefreshInv
  <2> QED  BY <1>1, <1>2, <2>1, <2>2 DEF PostShown
<1> QED  BY <1>3, <1>4, <1>5

LEMMA FinishKeepsRefresh ==
    ASSUME CoreInv, RefreshInv, Finish
    PROVE  RefreshInv'
<1> USE DEF CoreInv
<1>1. /\ call.at \in {"done", "failed"} /\ call' = NoCall /\ doc' = doc /\ early' = early
      /\ IF call.up THEN Listen(Refreshed(call.id))
                    ELSE view' = view /\ on' = on /\ shown' = shown /\ details' = details
  BY DEF Finish, clientVars, historyVars
<1>2. \A e : Excused(e) => Excused(e)' \/ (call.kind = "update" /\ call.id = e /\ call.at = "done")
  BY <1>1 DEF Excused
<1>3. CASE call.up
  <2>1. ASSUME NEW p \in (on \ Refreshed(call.id)) \intersect {"comments", "post"},
               NEW e \in Query(p)
        PROVE  e # call.id
    <3>1. on \subseteq Page
      BY DEF TypeOK
    <3> QED  BY <2>1, <3>1, ConstantsAssumption DEF Refreshed, Query
  <2> QED  BY <1>1, <1>2, <1>3, <2>1, ListenKeepsRefresh
<1>4. CASE ~call.up
  <2>1. ~early => ~(call.kind = "update" /\ call.at = "done")
    BY <1>4 DEF CallInv, TypeOK
  <2>2. ~early => \A e : Excused(e) => Excused(e)'
    BY <1>2, <2>1
  <2> QED  BY <1>1, <1>4, <2>2 DEF RefreshInv, Faithful, PostShown
<1> QED  BY <1>3, <1>4

\* Why RefreshInv holds: an update that is taken back changes what the client
\* has, which raises an event; one that is confirmed ends with a refresh, unless
\* the user has left early.
LEMMA RefreshStep ==
    ASSUME CoreInv, FeedInv, RefreshInv, [Next]_vars, FeedInv'
    PROVE  RefreshInv'
<1> USE DEF CoreInv
<1>1. ASSUME doc' = doc, view' = view, on' = on, shown' = shown, details' = details,
             early' = early, call' = call \/ call.at # "done"
      PROVE  RefreshInv'
  <2>1. \A e : Excused(e) => Excused(e)'
    BY <1>1 DEF Excused
  <2> QED  BY <1>1, <2>1 DEF RefreshInv, Faithful, PostShown
<1>2. CASE (\E d \in Doc : Watch(d)) \/ Write \/ Confirm \/ Refuse
  <2>1. early' = early
    BY <1>2 DEF Watch, Write, Confirm, Refuse, historyVars
  <2>2. CASE \E d, r : ChangeStep(d, r)
    BY <2>1, <2>2, ChangeKeepsRefresh
  <2>3. CASE UNCHANGED <<doc, view, on, shown, details>>
    <3>1. \A e \in Doc : Excused(e) => Excused(e)'
      BY <1>2, <2>3 DEF Excused, Watch, Write, Confirm, Refuse, historyVars, TypeOK, DocInv, Own
    <3>2. \A p \in on : Query(p) \subseteq Doc
      BY Queries DEF TypeOK
    <3>3. Comment \subseteq Doc /\ ThePost \in Doc
      BY ConstantsAssumption DEF Doc
    <3> QED  BY <2>1, <2>3, <3>1, <3>2, <3>3 DEF RefreshInv, Faithful, PostShown
  <2> QED  BY <1>2, <2>2, <2>3, ChangeSteps
<1>3. ASSUME NEW d \in Doc, Foreign(d) \/ Add(d) PROVE RefreshInv'
  BY <1>1, <1>3 DEF Foreign, Add, NoCall, clientVars
<1>4. ASSUME NEW d \in Doc, NEW kind \in {"update", "delete"}, Alter(d, kind) PROVE RefreshInv'
  BY <1>1, <1>4 DEF Alter, NoCall, clientVars, historyVars
<1>5. ASSUME NEW p \in Page, Deliver(p) PROVE RefreshInv'
  BY <1>5, DeliverKeepsRefresh
<1>6. ASSUME NEW p \in Page, PullDown(p) PROVE RefreshInv'
  <2>1. Listen({p}) /\ doc' = doc /\ call' = call /\ early' = early
    BY <1>6 DEF PullDown, historyVars
  <2>2. \A e : Excused(e) => Excused(e)'
    BY <2>1 DEF Excused
  <2> QED  BY <2>1, <2>2, ListenKeepsRefresh
<1>7. CASE Look
  BY <1>1, <1>7 DEF Look, clientVars, historyVars
<1>8. CASE Finish
  BY <1>8, FinishKeepsRefresh
<1>9. CASE Retry
  BY <1>1, <1>9 DEF Retry, clientVars, historyVars
<1>10. CASE Back
  <2>1. /\ doc' = doc /\ call' = [call EXCEPT !.up = FALSE]
        /\ early' = (early \/ call.at # "failed")
        /\ IF call.id \in Comment THEN Listen(Refreshed(call.id))
           ELSE view' = view /\ on' = on /\ shown' = shown /\ details' = details
    BY <1>10 DEF Back, clientVars
  <2>2. \A e : ~early' => (Excused(e) => Excused(e)')
    BY <2>1 DEF Excused, TypeOK
  <2>3. CASE call.id \in Comment
    BY <2>1, <2>2, <2>3, ListenKeepsRefresh
  <2>4. CASE call.id \notin Comment
    BY <2>1, <2>2, <2>4 DEF RefreshInv, Faithful, PostShown
  <2> QED  BY <2>3, <2>4
<1>11. CASE UNCHANGED vars
  BY <1>1, <1>11 DEF vars, clientVars, historyVars
<1> QED
  BY <1>2, <1>3, <1>4, <1>5, <1>6, <1>7, <1>8, <1>9, <1>10, <1>11 DEF Next

\* RefreshShowsUpdates: a user who waits for an update to return sees it: the
\* comments page shows every comment, and the details page its post, as they
\* are, once the device knows of them.
THEOREM WaitingUsersSeeUpdates == Spec => []RefreshShowsUpdates
<1>1. Init => RefreshInv
  BY DEF Init, RefreshInv
<1>2. CoreInv /\ FeedInv /\ RefreshInv /\ [Next]_vars /\ FeedInv' => RefreshInv'
  BY RefreshStep
<1>3. CoreInv /\ FeedInv /\ RefreshInv => RefreshShowsUpdates
  <2> SUFFICES ASSUME CoreInv, FeedInv, RefreshInv, ~early, call = NoCall
               PROVE  /\ "comments" \in on => \A d \in Comment : Quiet(d) => Right("comments", d)
                      /\ "post" \in on /\ Quiet(ThePost) /\ server[ThePost] # 0 =>
                             details.post = {[id |-> ThePost, n |-> server[ThePost]]}
    BY DEF RefreshShowsUpdates
  <2>1. \A d : Quiet(d) => doc[d].is = "synced" /\ doc[d].n = server[d] /\ ~Excused(d)
    BY DEF Quiet, Synced, Excused, NoCall
  <2>2. \A p \in on : \A d \in Query(p) : Quiet(d) => view[p][d] = doc[d]
    BY <2>1 DEF FeedInv, Tracks
  <2>3. ASSUME "comments" \in on, NEW d \in Comment, Quiet(d) PROVE Right("comments", d)
    <3>1. d \in Query("comments")
      BY DEF Query
    <3>2. Faithful("comments", d)
      BY <2>1, <2>3 DEF RefreshInv
    <3> QED  BY <2>1, <2>2, <2>3, <3>1, <3>2 DEF Faithful, Right, Pending
  <2>4. ASSUME "post" \in on, Quiet(ThePost), server[ThePost] # 0
        PROVE  details.post = {[id |-> ThePost, n |-> server[ThePost]]}
    <3>1. ThePost \in Query("post")
      BY DEF Query
    <3>2. PostShown
      BY <2>1, <2>4 DEF RefreshInv
    <3> QED  BY <2>1, <2>2, <2>4, <3>1, <3>2 DEF PostShown
  <2> QED  BY <2>3, <2>4
<1> QED  BY <1>1, <1>2, <1>3, CoreAlways, FeedAlways, PTL DEF Spec
=============================================================================
