------------------------ MODULE PostLifecycle_proofs ------------------------
(***************************************************************************)
(* Theorems about PostLifecycle, for any number of sessions, posts, names   *)
(* and files.                                                               *)
(***************************************************************************)
EXTENDS PostLifecycle, SequenceTheorems, TLAPS

----------------------------------------------------------------------------
(* Sequences.                                                               *)

\* Appending adds one element to the range.
LEMMA RangeAppend ==
    ASSUME NEW S, NEW q \in Seq(S), NEW x \in S
    PROVE  /\ Append(q, x) \in Seq(S)
           /\ Range(Append(q, x)) = Range(q) \union {x}
<1>1. Append(q, x) \in Seq(S) /\ Len(Append(q, x)) = Len(q) + 1
  OBVIOUS
<1>2. \A i \in 1..Len(q) : Append(q, x)[i] = q[i]
  OBVIOUS
<1>3. Append(q, x)[Len(q) + 1] = x
  OBVIOUS
<1>4. DOMAIN Append(q, x) = (DOMAIN q) \union {Len(q) + 1}
  BY <1>1
<1>5. Range(Append(q, x)) \subseteq Range(q) \union {x}
  BY <1>2, <1>3, <1>4 DEF Range
<1>6. Range(q) \subseteq Range(Append(q, x))
  BY <1>2, <1>4 DEF Range
<1>7. x \in Range(Append(q, x))
  BY <1>3, <1>4 DEF Range
<1> QED
  BY <1>1, <1>5, <1>6, <1>7

\* A non-empty sequence is its head and its tail.
LEMMA RangeHeadTail ==
    ASSUME NEW S, NEW q \in Seq(S), q # <<>>
    PROVE  /\ Head(q) \in S /\ Tail(q) \in Seq(S)
           /\ Range(q) = {Head(q)} \union Range(Tail(q))
           /\ Len(q) = 1 => Tail(q) = <<>>
           /\ Len(q) # 1 => Tail(q) # <<>>
<1>1. /\ Head(q) = q[1] /\ Head(q) \in S /\ Tail(q) \in Seq(S)
      /\ Len(q) \in Nat /\ Len(q) >= 1 /\ Len(Tail(q)) = Len(q) - 1
  OBVIOUS
<1>2. \A i \in 1..Len(Tail(q)) : Tail(q)[i] = q[i + 1]
  OBVIOUS
<1>3. Range(Tail(q)) \subseteq Range(q)
  <2> SUFFICES ASSUME NEW i \in 1..Len(Tail(q)) PROVE Tail(q)[i] \in Range(q)
    BY <1>1 DEF Range
  <2>1. i + 1 \in DOMAIN q
    BY <1>1
  <2> QED
    BY <1>2, <2>1 DEF Range
<1>4. Head(q) \in Range(q)
  BY <1>1 DEF Range
<1>5. Range(q) \subseteq {Head(q)} \union Range(Tail(q))
  <2> SUFFICES ASSUME NEW i \in 1..Len(q), i # 1 PROVE q[i] \in Range(Tail(q))
    <3>1. DOMAIN q = 1..Len(q)
      OBVIOUS
    <3> QED
      BY <1>1, <3>1 DEF Range
  <2>1. i - 1 \in 1..Len(Tail(q))
    BY <1>1
  <2>2. Tail(q)[i - 1] = q[i]
    BY <1>2, <2>1
  <2>3. DOMAIN Tail(q) = 1..Len(Tail(q))
    BY <1>1
  <2> QED
    BY <2>1, <2>2, <2>3 DEF Range
<1>6. /\ Len(q) = 1 => Tail(q) = <<>>
      /\ Len(q) # 1 => Tail(q) # <<>>
  BY <1>1, EmptySeq
<1> QED
  BY <1>1, <1>3, <1>4, <1>5, <1>6

\* The empty sequence has no element.
LEMMA RangeEmpty == Range(<<>>) = {}
BY DEF Range

----------------------------------------------------------------------------
(* Media lists.                                                             *)

\* The storage names a document's lists mention.
Names(m) == Range(m.thumbs) \union Range(m.origs)

\* What deletePost walks is exactly what the document points at.
LEMMA DeleteListIsObjects ==
    ASSUME NEW m \in Media
    PROVE  DeleteList(m) \in Seq(Object) /\ Range(DeleteList(m)) = Objects(m)
<1> DEFINE T == [i \in 1..Len(m.thumbs) |-> <<"thumbnails", m.thumbs[i]>>]
           G == [i \in 1..Len(m.origs) |-> <<"originals", m.origs[i]>>]
<1>1. m.thumbs \in Seq(Name) /\ m.origs \in Seq(Name)
  BY DEF Media
<1>2. T \in Seq(Object) /\ Range(T) = {"thumbnails"} \X Range(m.thumbs)
  <2>1. Len(m.thumbs) \in Nat /\ \A i \in 1..Len(m.thumbs) : m.thumbs[i] \in Name
    BY <1>1
  <2>2. T \in Seq(Object)
    BY <2>1, SeqDef DEF Object, Folder
  <2>3. Range(m.thumbs) = {m.thumbs[i] : i \in 1..Len(m.thumbs)}
    BY <1>1, RangeEquality
  <2>4. Range(T) = {<<"thumbnails", m.thumbs[i]>> : i \in 1..Len(m.thumbs)}
    BY DEF Range
  <2> QED
    BY <2>2, <2>3, <2>4
<1>3. G \in Seq(Object) /\ Range(G) = {"originals"} \X Range(m.origs)
  <2>1. Len(m.origs) \in Nat /\ \A i \in 1..Len(m.origs) : m.origs[i] \in Name
    BY <1>1
  <2>2. G \in Seq(Object)
    BY <2>1, SeqDef DEF Object, Folder
  <2>3. Range(m.origs) = {m.origs[i] : i \in 1..Len(m.origs)}
    BY <1>1, RangeEquality
  <2>4. Range(G) = {<<"originals", m.origs[i]>> : i \in 1..Len(m.origs)}
    BY DEF Range
  <2> QED
    BY <2>2, <2>3, <2>4
<1> HIDE DEF T, G
<1>4. T \o G \in Seq(Object)
  BY <1>2, <1>3
<1>5. Range(T \o G) = Range(T) \union Range(G)
  BY <1>2, <1>3, RangeConcatenation
<1> USE DEF T, G
<1> QED
  BY <1>2, <1>3, <1>4, <1>5 DEF DeleteList, Objects

\* Lists that share no name share no object.
LEMMA DisjointNames ==
    ASSUME NEW m \in Media, NEW n \in Media, Names(m) \intersect Names(n) = {}
    PROVE  Objects(m) \intersect Objects(n) = {}
BY DEF Names, Objects

\* The name part of an object a document points at is one of its names.
LEMMA NameOfObject ==
    ASSUME NEW m \in Media, NEW f, NEW n, <<f, n>> \in Objects(m)
    PROVE  n \in Names(m)
BY DEF Names, Objects

----------------------------------------------------------------------------
(* Type correctness.  It is inductive together with where a call may stand: *)
(* a loop stands at a file, or an object, it has not handled yet.           *)

Control ==
    \A s \in Session :
       /\ pc[s] = "idle" <=> target[s] = NoPost
       /\ pc[s] \in Building => mode[s] \in {"single", "multi", "edit"}
       /\ pc[s] \in Deleting => mode[s] = "delete"
       /\ pc[s] \in {"thumb", "orig"} => files[s] # <<>>
       /\ pc[s] = "delete" <=> todo[s] # <<>>

TypeInv == TypeOK /\ Control

LEMMA InitTypeInv == Init => TypeInv
BY EmptySeq, ConstantsAssumption
   DEF Init, TypeInv, TypeOK, Control, Media, NoMedia, PC, Building, Deleting

LEMMA FreshNamesAreNames ==
    ASSUME NEW n \in Nat, NEW names \in FreshNames(n)
    PROVE  /\ names \in Seq(Name) /\ Len(names) = n
           /\ Range(names) \subseteq Name \ used
           /\ n >= 1 => names # <<>>
<1>1. names \in [1..n -> Name \ used] /\ names \in Seq(Name)
  BY SeqDef DEF FreshNames
<1>2. Len(names) = n
  BY <1>1
<1>3. Range(names) \subseteq Name \ used
  BY <1>1 DEF Range
<1> QED
  BY <1>1, <1>2, <1>3

\* What the server may be handling are writes of documents.
LEMMA OutstandingTypes ==
    ASSUME TypeInv
    PROVE  /\ Outstanding \subseteq DocWrite
           /\ \A s \in Session : pc[s] \in Waiting => WriteOf(s) \in Outstanding
<1>1. ASSUME NEW s \in Session, pc[s] \in Waiting PROVE WriteOf(s) \in DocWrite
  <2>1. target[s] \in Post /\ media[s] \in Media
    BY <1>1 DEF TypeInv, TypeOK, Control, Waiting
  <2> QED
    BY <2>1 DEF WriteOf, DocWrite
<1>2. copies \subseteq DocWrite
  BY DEF TypeInv, TypeOK
<1> QED
  BY <1>1, <1>2 DEF Outstanding

\* What handling a write does to the documents.
LEMMA ApplyFacts ==
    ASSUME TypeOK, NEW w \in DocWrite, Apply(w)
    PROVE  /\ w.post \in Post /\ w.media \in Media /\ w.media # NoDoc
           /\ posts' \in [Post -> Media \union {NoDoc}] /\ gone' \subseteq Post
           /\ \A p \in Post : p # w.post => posts'[p] = posts[p]
           /\ w.op = "add" => posts'[w.post] = w.media
           /\ w.op = "update" =>
                 posts'[w.post] = IF Alive(w.post) THEN w.media ELSE posts[w.post]
           /\ w.op = "delete" => posts'[w.post] = NoDoc
           /\ gone' = IF w.op = "delete" /\ Alive(w.post) THEN gone \union {w.post} ELSE gone
           /\ w.op \in {"add", "update", "delete"}
<1>1. /\ w.post \in Post /\ w.media \in Media /\ w.op \in {"add", "update", "delete"}
  BY DEF DocWrite
<1>2. w.media # NoDoc
  BY <1>1, ConstantsAssumption
<1>3. posts \in [Post -> Media \union {NoDoc}] /\ gone \subseteq Post
  BY DEF TypeOK
<1>4. gone' = IF w.op = "delete" /\ Alive(w.post) THEN gone \union {w.post} ELSE gone
  BY DEF Apply
<1>5. posts' = IF w.op = "update" /\ ~Alive(w.post) THEN posts
               ELSE [posts EXCEPT ![w.post] = IF w.op = "delete" THEN NoDoc ELSE w.media]
  BY DEF Apply
<1> QED
  BY <1>1, <1>2, <1>3, <1>4, <1>5

\* Returning keeps the types, whatever else the step does.
LEMMA ReturnTypes ==
    ASSUME TypeInv, NEW s \in Session, Return(s)
    PROVE  /\ pc' \in [Session -> PC]
           /\ mode' \in [Session -> {"idle", "single", "multi", "edit", "delete"}]
           /\ target' \in [Session -> Post \union {NoPost}]
           /\ files' \in [Session -> Seq(Name)]
           /\ media' \in [Session -> Media]
           /\ todo' \in [Session -> Seq(Object)]
           /\ seen' \in [Session -> SUBSET Child]
           /\ Control'
BY EmptySeq, ConstantsAssumption
   DEF TypeInv, TypeOK, Control, Return, Media, NoMedia, PC, Building, Deleting

\* So does going on with the next file.
LEMMA NextFileTypes ==
    ASSUME TypeInv, NEW s \in Session, pc[s] \in {"thumb", "orig"}, NextFile(s),
           UNCHANGED <<mode, target, todo>>
    PROVE  /\ pc' \in [Session -> PC]
           /\ files' \in [Session -> Seq(Name)]
           /\ Control'
<1>1. /\ Tail(files[s]) \in Seq(Name)
      /\ Len(files[s]) # 1 => Tail(files[s]) # <<>>
  BY RangeHeadTail DEF TypeInv, TypeOK, Control
<1>2. pc' \in [Session -> PC] /\ files' \in [Session -> Seq(Name)]
  BY <1>1 DEF TypeInv, TypeOK, NextFile, Goto, PC, Building
<1>3. \A t \in Session : t # s => pc'[t] = pc[t] /\ files'[t] = files[t]
  BY DEF TypeInv, TypeOK, NextFile, Goto
<1>4. /\ files'[s] = Tail(files[s])
      /\ pc'[s] = IF Len(files[s]) = 1 THEN "write" ELSE "thumb"
  BY DEF TypeInv, TypeOK, NextFile, Goto
<1>5. mode[s] \in {"single", "multi", "edit"}
  BY DEF TypeInv, Control, Building
<1>6. Control'
  BY <1>1, <1>3, <1>4, <1>5 DEF TypeInv, Control, Building, Deleting
<1> QED
  BY <1>2, <1>6

LEMMA StepTypeInv == TypeInv /\ [Next]_vars => TypeInv'
<1> SUFFICES ASSUME TypeInv, [Next]_vars PROVE TypeInv'
  OBVIOUS
<1> USE DEF TypeInv, storageVars, sessionVars, historyVars
<1>1. ASSUME NEW s \in Session, NEW p \in Post, NEW m \in {"single", "multi"},
             NEW n \in 1..MaxFiles, NEW names \in FreshNames(n), StartUpload(s, p, m, names)
      PROVE  TypeInv'
  <2>1. /\ names \in Seq(Name) /\ Range(names) \subseteq Name /\ names # <<>>
    BY <1>1, FreshNamesAreNames, ConstantsAssumption
  <2>2. TypeOK'
    BY <1>1, <2>1 DEF StartUpload, Begin, TypeOK, PC, Building
  <2>3. Control'
    BY <1>1, <2>1, ConstantsAssumption DEF StartUpload, Begin, TypeOK, Control, Building, Deleting
  <2> QED
    BY <2>2, <2>3
<1>2. ASSUME NEW s \in Session, NEW p \in Post, NEW n \in 0..MaxFiles,
             NEW names \in FreshNames(n), StartEdit(s, p, names)
      PROVE  TypeInv'
  <2>1. /\ names \in Seq(Name) /\ Range(names) \subseteq Name
    BY <1>2, FreshNamesAreNames, ConstantsAssumption
  <2>2. TypeOK'
    BY <1>2, <2>1 DEF StartEdit, Begin, TypeOK, PC, Building
  <2>3. Control'
    BY <1>2, <2>1, ConstantsAssumption DEF StartEdit, Begin, TypeOK, Control, Building, Deleting
  <2> QED
    BY <2>2, <2>3
<1>3. ASSUME NEW s \in Session, NEW p \in Post, NEW v \in versions[p], StartDelete(s, p, v)
      PROVE  TypeInv'
  <2>1. v \in Media
    BY <1>3 DEF TypeOK
  <2>2. DeleteList(v) \in Seq(Object)
    BY <2>1, DeleteListIsObjects
  <2>3. TypeOK'
    BY <1>3, <2>1, <2>2 DEF StartDelete, Begin, TypeOK, PC, Deleting
  <2>4. Control'
    BY <1>3, ConstantsAssumption DEF StartDelete, Begin, TypeOK, Control, Building, Deleting
  <2> QED
    BY <2>3, <2>4
<1>4. ASSUME NEW s \in Session, SkipFile(s)
      PROVE  TypeInv'
  <2>1. CASE mode[s] = "single"
    BY <1>4, <2>1, ReturnTypes DEF SkipFile, TypeOK
  <2>2. CASE mode[s] # "single"
    <3>1. pc' \in [Session -> PC] /\ files' \in [Session -> Seq(Name)] /\ Control'
      BY <1>4, <2>2, NextFileTypes DEF SkipFile
    <3> QED
      BY <1>4, <2>2, <3>1 DEF SkipFile, TypeOK
  <2> QED
    BY <2>1, <2>2
<1>5. ASSUME NEW s \in Session, PutThumb(s)
      PROVE  TypeInv'
  <2>1. Head(files[s]) \in Name
    BY <1>5, RangeHeadTail DEF PutThumb, TypeOK, Control
  <2>2. Append(media[s].thumbs, Head(files[s])) \in Seq(Name)
    BY <2>1, RangeAppend DEF TypeOK, Media
  <2>3. TypeOK'
    <3>1. store' \subseteq Object
      BY <1>5, <2>1 DEF PutThumb, TypeOK, Object, Folder
    <3>2. media' \in [Session -> Media]
      BY <1>5, <2>2, ZenonT(30) DEF PutThumb, TypeOK, Media
    <3>3. pc' \in [Session -> PC]
      BY <1>5 DEF PutThumb, Goto, TypeOK, PC, Building
    <3> QED
      BY <1>5, <3>1, <3>2, <3>3 DEF PutThumb, TypeOK
  <2>4. Control'
    BY <1>5 DEF PutThumb, Goto, TypeOK, Control, Building, Deleting
  <2> QED
    BY <2>3, <2>4
<1>6. ASSUME NEW s \in Session, PutOriginal(s)
      PROVE  TypeInv'
  <2>1. Head(files[s]) \in Name
    BY <1>6, RangeHeadTail DEF PutOriginal, TypeOK, Control
  <2>2. Append(media[s].origs, Head(files[s])) \in Seq(Name)
    BY <2>1, RangeAppend DEF TypeOK, Media
  <2>3. pc' \in [Session -> PC] /\ files' \in [Session -> Seq(Name)] /\ Control'
    BY <1>6, NextFileTypes DEF PutOriginal
  <2>4. store' \subseteq Object
    BY <1>6, <2>1 DEF PutOriginal, TypeOK, Object, Folder
  <2>5. media' \in [Session -> Media]
    BY <1>6, <2>2, ZenonT(30) DEF PutOriginal, TypeOK, Media
  <2> QED
    BY <1>6, <2>3, <2>4, <2>5 DEF PutOriginal, TypeOK
<1>7. ASSUME NEW s \in Session, PutError(s)
      PROVE  TypeInv'
  <2>1. Head(files[s]) \in Name
    BY <1>7, RangeHeadTail DEF PutError, TypeOK, Control
  <2>2. store' \subseteq Object /\ disturbed' \subseteq {"fault", "edit"}
    BY <1>7, <2>1 DEF PutError, Fault, TypeOK, Object, Folder
  <2>3. CASE mode[s] = "multi"
    <3>1. pc' \in [Session -> PC] /\ files' \in [Session -> Seq(Name)] /\ Control'
      <4>1. pc[s] \in {"thumb", "orig"} /\ NextFile(s) /\ UNCHANGED <<mode, target, todo>>
        BY <1>7, <2>3 DEF PutError
      <4> QED
        BY <4>1, NextFileTypes
    <3> QED
      BY <1>7, <2>2, <2>3, <3>1 DEF PutError, TypeOK
  <2>4. CASE mode[s] # "multi"
    BY <1>7, <2>2, <2>4, ReturnTypes DEF PutError, TypeOK
  <2> QED
    BY <2>3, <2>4
<1>8. ASSUME NEW s \in Session, WritePost(s)
      PROVE  TypeInv'
  <2>1. target[s] \in Post /\ media[s] \in Media
    BY <1>8 DEF WritePost, TypeOK, Control
  <2>2. versions' \in [Post -> SUBSET Media]
    <3>1. versions[target[s]] \union {media[s]} \in SUBSET Media
      BY <2>1 DEF TypeOK
    <3>2. versions' = [versions EXCEPT ![target[s]] = versions[target[s]] \union {media[s]}]
      BY <1>8 DEF WritePost
    <3> QED
      BY <2>1, <3>1, <3>2 DEF TypeOK
  <2>3. pc' \in [Session -> PC]
    BY <1>8 DEF WritePost, Goto, TypeOK, PC, Waiting
  <2>4. Control'
    BY <1>8 DEF WritePost, Goto, TypeOK, Control, Building, Deleting
  <2> QED
    BY <1>8, <2>2, <2>3, <2>4 DEF WritePost, TypeOK
<1>9. ASSUME NEW s \in Session, DeleteObject(s)
      PROVE  TypeInv'
  <2>1. CASE Head(todo[s]) \in store
    <3>1. /\ Tail(todo[s]) \in Seq(Object)
          /\ Len(todo[s]) = 1 <=> Tail(todo[s]) = <<>>
      BY <1>9, RangeHeadTail DEF DeleteObject, TypeOK, Control
    <3>2. TypeOK'
      BY <1>9, <2>1, <3>1, ZenonT(30) DEF DeleteObject, Goto, TypeOK, PC, Deleting
    <3>3. Control'
      BY <1>9, <2>1, <3>1, SMTT(20) DEF DeleteObject, Goto, TypeOK, Control, Building, Deleting
    <3> QED
      BY <3>2, <3>3
  <2>2. CASE Head(todo[s]) \notin store
    BY <1>9, <2>2, ReturnTypes DEF DeleteObject, TypeOK
  <2> QED
    BY <2>1, <2>2
<1>10. ASSUME NEW s \in Session,
              QueryComments(s) \/ CommitComments(s) \/ QueryLikes(s) \/ CommitLikes(s)
       PROVE  TypeInv'
  <2> USE DEF QueryComments, CommitComments, QueryLikes, CommitLikes, Query, Commit
  <2>1. /\ pc' \in [Session -> PC] /\ children' \subseteq Child
        /\ seen' \in [Session -> SUBSET Child] /\ missed' \subseteq Child
    <3>1. pc' \in [Session -> PC]
      BY <1>10, ZenonT(30) DEF Goto, TypeOK, PC, Deleting
    <3>2. children' \subseteq Child
      BY <1>10 DEF TypeOK
    <3>3. seen' \in [Session -> SUBSET Child] /\ missed' \subseteq Child
      <4>1. \A p, col : ChildrenOf(p, col) \subseteq Child
        BY DEF ChildrenOf, TypeOK
      <4>2. CASE QueryComments(s) \/ QueryLikes(s)
        <5>0. PICK col \in {"comments", "likes"} : \E found \in SUBSET ChildrenOf(target[s], col) :
                 /\ seen' = [seen EXCEPT ![s] = found]
                 /\ missed' = missed \union (ChildrenOf(target[s], col) \ found)
          BY <4>2
        <5>1. PICK found \in SUBSET ChildrenOf(target[s], col) :
                 /\ seen' = [seen EXCEPT ![s] = found]
                 /\ missed' = missed \union (ChildrenOf(target[s], col) \ found)
          BY <5>0
        <5>2. found \subseteq Child /\ ChildrenOf(target[s], col) \subseteq Child
          BY <4>1
        <5> QED
          BY <5>1, <5>2 DEF TypeOK
      <4>3. CASE CommitComments(s) \/ CommitLikes(s)
        BY <4>3 DEF TypeOK
      <4> QED
        BY <1>10, <4>2, <4>3
    <3> QED
      BY <3>1, <3>2, <3>3
  <2>2. TypeOK'
    BY <1>10, <2>1 DEF TypeOK
  <2>3. Control'
    BY <1>10 DEF Goto, TypeOK, Control, Building, Deleting
  <2> QED
    BY <2>2, <2>3
<1>11. ASSUME NEW s \in Session, RemovePost(s)
       PROVE  TypeInv'
  <2>1. CASE Return(s)
    BY <1>11, <2>1, ReturnTypes DEF RemovePost, TypeOK
  <2>2. CASE Goto(s, "sent") /\ UNCHANGED <<mode, target, files, media, todo, seen>>
    <3>1. pc' \in [Session -> PC] /\ Control'
      BY <1>11, <2>2 DEF RemovePost, Goto, TypeOK, Control, PC, Building, Deleting, Waiting
    <3> QED
      BY <1>11, <2>2, <3>1 DEF RemovePost, TypeOK
  <2> QED
    BY <1>11, <2>1, <2>2 DEF RemovePost
<1>12. ASSUME NEW s \in Session, DeleteError(s)
       PROVE  TypeInv'
  BY <1>12, ReturnTypes DEF DeleteError, Fault, TypeOK
<1>13. ASSUME NEW s \in Session, Handle(s)
       PROVE  TypeInv'
  <2>1. WriteOf(s) \in DocWrite
    BY <1>13, OutstandingTypes DEF Handle, Waiting
  <2>2. posts' \in [Post -> Media \union {NoDoc}] /\ gone' \subseteq Post
    BY <1>13, <2>1, ApplyFacts DEF Handle
  <2>3. pc' \in [Session -> PC] /\ Control'
    BY <1>13 DEF Handle, Goto, TypeOK, Control, PC, Building, Deleting, Waiting
  <2> QED
    BY <1>13, <2>2, <2>3 DEF Handle, TypeOK
<1>14. ASSUME NEW s \in Session, Answer(s)
       PROVE  TypeInv'
  BY <1>14, ReturnTypes DEF Answer, TypeOK
<1>15. ASSUME NEW s \in Session, Lose(s)
       PROVE  TypeInv'
  <2>1. copies' \subseteq DocWrite
    BY <1>15, OutstandingTypes DEF Lose, Leave, Waiting, TypeOK
  <2>2. pc' \in [Session -> PC] /\ Control'
    BY <1>15 DEF Lose, Goto, TypeOK, Control, PC, Building, Deleting, Waiting
  <2> QED
    BY <1>15, <2>1, <2>2 DEF Lose, TypeOK
<1>16. ASSUME NEW w \in copies, HandleCopy(w)
       PROVE  TypeInv'
  <2>1. posts' \in [Post -> Media \union {NoDoc}] /\ gone' \subseteq Post
    BY <1>16, ApplyFacts DEF HandleCopy, TypeOK
  <2> QED
    BY <1>16, <2>1 DEF HandleCopy, TypeOK, Control
<1>17. ASSUME NEW s \in Session, Kill(s)
       PROVE  TypeInv'
  <2>1. copies' \subseteq DocWrite
    BY <1>17, OutstandingTypes DEF Kill, Leave, TypeOK
  <2> QED
    BY <1>17, <2>1, ReturnTypes DEF Kill, Fault, TypeOK
<1>18. ASSUME NEW c \in Child, AddChild(c) \/ RemoveChild(c)
       PROVE  TypeInv'
  BY <1>18 DEF AddChild, RemoveChild, TypeOK, Control
<1>19. CASE UNCHANGED vars
  BY <1>19 DEF vars, TypeOK, Control
<1> QED
  BY <1>1, <1>2, <1>3, <1>4, <1>5, <1>6, <1>7, <1>8, <1>9, <1>10, <1>11, <1>12, <1>13,
     <1>14, <1>15, <1>16, <1>17, <1>18, <1>19 DEF Next, StartStep, RunStep, FaultStep

\* Every variable keeps its type.
THEOREM TypeCorrect == Spec => []TypeOK
<1>1. TypeInv => TypeOK
  BY DEF TypeInv
<1> QED
  BY InitTypeInv, StepTypeInv, <1>1, PTL DEF Spec

----------------------------------------------------------------------------
(* Files.  Why a version keeps its files: storage names are never shared.   *)
(* A running upload or edit works on names no document mentions and no      *)
(* other call holds, two posts mention no common name, and a deletePost     *)
(* only walks the objects of a version of its own post.                     *)

\* The names a running upload or edit has put or will put.
Work(s) == Names(media[s]) \union Range(files[s])

Builds(s) == pc[s] \in Building
Deletes(s) == pc[s] \in Deleting

NamesUsed ==
    /\ \A s \in Session : Builds(s) => Work(s) \subseteq used
    /\ \A p \in Post : \A v \in versions[p] : Names(v) \subseteq used

WorkUnpublished ==
    \A s \in Session : Builds(s) =>
       \A p \in Post : \A v \in versions[p] : Work(s) \intersect Names(v) = {}

WorkPrivate ==
    \A s, t \in Session : s # t /\ Builds(s) /\ Builds(t) => Work(s) \intersect Work(t) = {}

VersionsPrivate ==
    \A p, q \in Post : p # q =>
       \A v \in versions[p], w \in versions[q] : Names(v) \intersect Names(w) = {}

WorkStored == \A s \in Session : Builds(s) => Objects(media[s]) \subseteq store

\* A deletePost has its post doomed, walks one of its versions, and whatever
\* of that version is still in the bucket is still on its list.
DeleteProgress ==
    \A s \in Session : Deletes(s) =>
       /\ target[s] \in doomed
       /\ media[s] \in versions[target[s]]
       /\ Range(todo[s]) \subseteq Objects(media[s])
       /\ Objects(media[s]) \intersect store \subseteq Range(todo[s])

VersionsStored ==
    \A p \in Post \ doomed : \A v \in versions[p] : Objects(v) \subseteq store

IdleHasNoMedia == \A s \in Session : pc[s] = "idle" => media[s] = NoMedia

FileInv ==
    /\ IdleHasNoMedia
    /\ NamesUsed /\ WorkUnpublished /\ WorkPrivate
    /\ VersionsPrivate /\ WorkStored /\ VersionsStored /\ DeleteProgress

\* A step of one session leaves the state of the others alone.
OthersKept(s) ==
    \A t \in Session \ {s} : /\ pc'[t] = pc[t] /\ target'[t] = target[t]
                            /\ mode'[t] = mode[t]
                            /\ files'[t] = files[t] /\ media'[t] = media[t]
                            /\ todo'[t] = todo[t]

\* What a step of session s may do to files and lists, short of publishing:
\* take away only objects it is deleting, put only under names it works on,
\* work only on names it held or has just drawn.
FileFrame(s) ==
    /\ OthersKept(s)
    /\ versions' = versions
    /\ used \subseteq used' /\ doomed \subseteq doomed'
    /\ store \ store' \subseteq IF Deletes(s) THEN Objects(media[s]) ELSE {}
    /\ \A o \in store' \ store : Builds(s) /\ o[2] \in Work(s)
    /\ pc'[s] = "idle" => media'[s] = NoMedia
    /\ pc'[s] \in Building =>
          /\ Names(media'[s]) \union Range(files'[s])
                \subseteq (IF Builds(s) THEN Work(s) ELSE {}) \union (used' \ used)
          /\ Names(media'[s]) \union Range(files'[s]) \subseteq used'
          /\ Objects(media'[s]) \subseteq store'
    /\ pc'[s] \in Deleting =>
          /\ target'[s] \in doomed'
          /\ media'[s] \in versions[target'[s]]
          /\ Range(todo'[s]) \subseteq Objects(media'[s])
          /\ Objects(media'[s]) \intersect store' \subseteq Range(todo'[s])

LEMMA FramePreservesFileInv ==
    ASSUME TypeInv, TypeInv', FileInv, NEW s \in Session, FileFrame(s)
    PROVE  FileInv'
<1>a. \A t \in Session : media[t] \in Media /\ media'[t] \in Media
  BY DEF TypeInv, TypeOK
<1>b. \A t \in Session : Deletes(t) =>
         /\ target[t] \in Post /\ target[t] \in doomed
         /\ media[t] \in versions[target[t]]
         /\ Range(todo[t]) \subseteq Objects(media[t])
         /\ Objects(media[t]) \intersect store \subseteq Range(todo[t])
  <2>1. DeleteProgress
    BY DEF FileInv
  <2>2. \A t \in Session : Deletes(t) => target[t] \in Post
    BY DEF TypeInv, TypeOK, Control, Deletes, Deleting
  <2> QED
    BY <2>1, <2>2 DEF DeleteProgress
<1> USE DEF FileInv, FileFrame
<1>2. NamesUsed'
  <2>1. ASSUME NEW t \in Session, Builds(t)' PROVE Work(t)' \subseteq used'
    <3>1. CASE t = s
      BY <2>1, <3>1 DEF Builds, Work
    <3>2. CASE t # s
      BY <2>1, <3>2 DEF Builds, Work, OthersKept, NamesUsed
    <3> QED
      BY <3>1, <3>2
  <2>2. ASSUME NEW p \in Post, NEW v \in versions[p] PROVE Names(v) \subseteq used'
    BY DEF NamesUsed
  <2> QED
    BY <2>1, <2>2 DEF NamesUsed
<1>3. WorkUnpublished'
  <2> SUFFICES ASSUME NEW t \in Session, Builds(t)', NEW p \in Post, NEW v \in versions[p]
               PROVE  (Names(media'[t]) \union Range(files'[t])) \intersect Names(v) = {}
    BY DEF WorkUnpublished, Work
  <2>1. Names(v) \subseteq used
    BY DEF NamesUsed
  <2>2. CASE t = s
    BY <2>1, <2>2 DEF Builds, WorkUnpublished
  <2>3. CASE t # s
    BY <2>3 DEF Builds, Work, OthersKept, WorkUnpublished
  <2> QED
    BY <2>2, <2>3
<1>4. WorkPrivate'
  <2>1. ASSUME NEW t \in Session, t # s, Builds(t)', Builds(s)'
        PROVE  Work(t)' \intersect Work(s)' = {}
    <3>1. Builds(t) /\ Work(t)' = Work(t)
      BY <2>1 DEF Builds, Work, OthersKept
    <3>2. Work(t) \subseteq used
      BY <3>1 DEF NamesUsed
    <3>3. Work(s)' \subseteq (IF Builds(s) THEN Work(s) ELSE {}) \union (used' \ used)
      BY <2>1 DEF Builds, Work
    <3>4. Builds(s) => Work(t) \intersect Work(s) = {}
      BY <2>1, <3>1 DEF WorkPrivate
    <3> QED
      BY <3>1, <3>2, <3>3, <3>4
  <2>2. ASSUME NEW t \in Session, NEW u \in Session, t # u, t # s, u # s, Builds(t)', Builds(u)'
        PROVE  Work(t)' \intersect Work(u)' = {}
    BY <2>2 DEF Builds, Work, OthersKept, WorkPrivate
  <2> QED
    BY <2>1, <2>2 DEF WorkPrivate
<1>5. VersionsPrivate'
  BY DEF VersionsPrivate
<1>6. WorkStored'
  <2> SUFFICES ASSUME NEW t \in Session, t # s, Builds(t)
               PROVE  Objects(media[t]) \subseteq store'
    BY DEF WorkStored, Builds, OthersKept
  <2>1. Objects(media[t]) \subseteq store
    BY DEF WorkStored
  <2>2. CASE Deletes(s)
    <3>1. media[s] \in versions[target[s]] /\ target[s] \in Post
      BY <1>b, <2>2
    <3>2. Names(media[t]) \intersect Names(media[s]) = {}
      BY <3>1 DEF WorkUnpublished, Work
    <3>3. Objects(media[t]) \intersect Objects(media[s]) = {}
      BY <1>a, <3>2, DisjointNames
    <3> QED
      BY <2>1, <2>2, <3>3
  <2>3. CASE ~Deletes(s)
    BY <2>1, <2>3
  <2> QED
    BY <2>2, <2>3
<1>7. DeleteProgress'
  <2> SUFFICES ASSUME NEW t \in Session, t # s, Deletes(t)
               PROVE  /\ target[t] \in doomed'
                      /\ media[t] \in versions[target[t]]
                      /\ Range(todo[t]) \subseteq Objects(media[t])
                      /\ Objects(media[t]) \intersect store' \subseteq Range(todo[t])
    BY DEF DeleteProgress, Deletes, OthersKept
  <2>1. /\ target[t] \in Post /\ media[t] \in versions[target[t]]
        /\ Objects(media[t]) \intersect store \subseteq Range(todo[t])
    BY <1>b
  <2>2. ASSUME NEW o \in store' \ store PROVE o \notin Objects(media[t])
    <3>1. Builds(s) /\ o[2] \in Work(s)
      BY <2>2
    <3>2. o[2] \notin Names(media[t])
      BY <2>1, <3>1 DEF WorkUnpublished
    <3>3. o = <<o[1], o[2]>>
      BY <2>2 DEF TypeInv, TypeOK, Object
    <3> QED
      BY <1>a, <3>2, <3>3, NameOfObject
  <2> QED
    BY <2>1, <2>2 DEF DeleteProgress
<1>8. VersionsStored'
  <2> SUFFICES ASSUME NEW p \in Post, p \notin doomed', NEW v \in versions[p]
               PROVE  Objects(v) \subseteq store'
    BY DEF VersionsStored
  <2>1. p \notin doomed /\ Objects(v) \subseteq store
    BY DEF VersionsStored
  <2>2. CASE Deletes(s)
    <3>1. /\ media[s] \in versions[target[s]] /\ target[s] \in Post
          /\ target[s] # p
      BY <1>b, <2>1, <2>2
    <3>2. Names(v) \intersect Names(media[s]) = {}
      BY <3>1 DEF VersionsPrivate
    <3>3. v \in Media
      BY DEF TypeInv, TypeOK
    <3>4. Objects(v) \intersect Objects(media[s]) = {}
      BY <1>a, <3>2, <3>3, DisjointNames
    <3> QED
      BY <2>1, <2>2, <3>4
  <2>3. CASE ~Deletes(s)
    BY <2>1, <2>3
  <2> QED
    BY <2>2, <2>3
<1>9. IdleHasNoMedia'
  BY DEF IdleHasNoMedia, OthersKept
<1> QED
  BY <1>2, <1>3, <1>4, <1>5, <1>6, <1>7, <1>8, <1>9

\* A call that returns, and does no more than its last request did, keeps FileInv.
LEMMA ReturnFrame ==
    ASSUME TypeInv, NEW s \in Session, Return(s),
           versions' = versions, used' = used, doomed' = doomed,
           store \ store' \subseteq IF Deletes(s) THEN Objects(media[s]) ELSE {},
           \A o \in store' \ store : Builds(s) /\ o[2] \in Work(s)
    PROVE  FileFrame(s)
<1>1. OthersKept(s)
  BY DEF OthersKept, Return, TypeInv, TypeOK
<1>2. pc'[s] = "idle" /\ media'[s] = NoMedia
  BY DEF Return, TypeInv, TypeOK
<1> QED
  BY <1>1, <1>2 DEF FileFrame, Building, Deleting

\* The head of the file list is one of the names the call works on.
LEMMA HeadIsWork ==
    ASSUME TypeInv, NEW s \in Session, pc[s] \in {"thumb", "orig"}
    PROVE  /\ Builds(s) /\ Head(files[s]) \in Work(s) /\ Head(files[s]) \in Name
           /\ Range(Tail(files[s])) \subseteq Range(files[s])
BY RangeHeadTail DEF TypeInv, TypeOK, Control, Builds, Building, Work

LEMMA NoMediaHasNoFiles == Names(NoMedia) = {} /\ Objects(NoMedia) = {}
BY RangeEmpty DEF Names, Objects, NoMedia

LEMMA InitFileInv == Init => FileInv
BY DEF Init, FileInv, IdleHasNoMedia, NamesUsed, WorkUnpublished, WorkPrivate,
       VersionsPrivate, WorkStored, VersionsStored, DeleteProgress, Builds,
       Deletes, Building, Deleting

\* Every step of one session, except the one that publishes, is a FileFrame.
LEMMA SkipFrame ==
    ASSUME TypeInv, FileInv, NEW s \in Session, SkipFile(s)
    PROVE  FileFrame(s)
<1>1. CASE mode[s] = "single"
  BY <1>1, ReturnFrame DEF SkipFile, storageVars, historyVars
<1>2. CASE mode[s] # "single"
  <2>1. OthersKept(s) /\ pc'[s] \in {"write", "thumb"} /\ files'[s] = Tail(files[s])
        /\ media' = media /\ UNCHANGED <<store, used, versions, doomed>>
    BY <1>2 DEF SkipFile, NextFile, Goto, OthersKept, TypeInv, TypeOK, storageVars, historyVars
  <2>2. Builds(s) /\ Range(Tail(files[s])) \subseteq Range(files[s])
    BY HeadIsWork DEF SkipFile
  <2>3. Work(s) \subseteq used /\ Objects(media[s]) \subseteq store
    BY <2>2 DEF FileInv, NamesUsed, WorkStored
  <2> QED
    BY <2>1, <2>2, <2>3 DEF FileFrame, Work, Deleting
<1> QED
  BY <1>1, <1>2

LEMMA PutThumbFrame ==
    ASSUME TypeInv, FileInv, NEW s \in Session, PutThumb(s)
    PROVE  FileFrame(s)
<1> DEFINE n == Head(files[s])
<1>1. /\ OthersKept(s) /\ pc'[s] = "orig" /\ files'[s] = files[s]
      /\ media'[s].thumbs = Append(media[s].thumbs, n) /\ media'[s].origs = media[s].origs
      /\ store' = store \union {<<"thumbnails", n>>}
      /\ UNCHANGED <<used, versions, doomed>>
  BY DEF PutThumb, Goto, OthersKept, TypeInv, TypeOK, Media, historyVars
<1>2. Builds(s) /\ n \in Work(s) /\ n \in Name
  BY HeadIsWork DEF PutThumb
<1>3. Range(media'[s].thumbs) = Range(media[s].thumbs) \union {n}
  BY <1>1, <1>2, RangeAppend DEF TypeInv, TypeOK, Media
<1>4. Names(media'[s]) = Names(media[s]) \union {n}
  BY <1>1, <1>3 DEF Names
<1>5. Objects(media'[s]) = Objects(media[s]) \union {<<"thumbnails", n>>}
  BY <1>1, <1>3 DEF Objects
<1>6. Work(s) \subseteq used /\ Objects(media[s]) \subseteq store
  BY <1>2 DEF FileInv, NamesUsed, WorkStored
<1>7. \A o \in store' \ store : o[2] \in Work(s)
  BY <1>1, <1>2
<1> HIDE DEF n
<1> QED
  BY <1>1, <1>2, <1>4, <1>5, <1>6, <1>7 DEF FileFrame, Work, Deleting

LEMMA PutOriginalFrame ==
    ASSUME TypeInv, FileInv, NEW s \in Session, PutOriginal(s)
    PROVE  FileFrame(s)
<1> DEFINE n == Head(files[s])
<1>1. /\ OthersKept(s) /\ pc'[s] \in {"write", "thumb"} /\ files'[s] = Tail(files[s])
      /\ media'[s].origs = Append(media[s].origs, n) /\ media'[s].thumbs = media[s].thumbs
      /\ store' = store \union {<<"originals", n>>}
      /\ UNCHANGED <<used, versions, doomed>>
  BY DEF PutOriginal, NextFile, Goto, OthersKept, TypeInv, TypeOK, Media, historyVars
<1>2. Builds(s) /\ n \in Work(s) /\ n \in Name /\ Range(Tail(files[s])) \subseteq Range(files[s])
  BY HeadIsWork DEF PutOriginal
<1>3. Range(media'[s].origs) = Range(media[s].origs) \union {n}
  BY <1>1, <1>2, RangeAppend DEF TypeInv, TypeOK, Media
<1>4. Names(media'[s]) = Names(media[s]) \union {n}
  BY <1>1, <1>3 DEF Names
<1>5. Objects(media'[s]) = Objects(media[s]) \union {<<"originals", n>>}
  BY <1>1, <1>3 DEF Objects
<1>6. Work(s) \subseteq used /\ Objects(media[s]) \subseteq store
  BY <1>2 DEF FileInv, NamesUsed, WorkStored
<1>7. \A o \in store' \ store : o[2] \in Work(s)
  BY <1>1, <1>2
<1> HIDE DEF n
<1> QED
  BY <1>1, <1>2, <1>4, <1>5, <1>6, <1>7 DEF FileFrame, Work, Deleting

LEMMA PutErrorFrame ==
    ASSUME TypeInv, FileInv, NEW s \in Session, PutError(s)
    PROVE  FileFrame(s)
<1>1. /\ Builds(s) /\ Head(files[s]) \in Work(s)
      /\ Range(Tail(files[s])) \subseteq Range(files[s])
  BY HeadIsWork DEF PutError
<1>2. store \subseteq store' /\ \A o \in store' \ store : o[2] \in Work(s)
  BY <1>1 DEF PutError
<1>3. UNCHANGED <<used, versions, doomed>>
  BY DEF PutError
<1>4. CASE mode[s] = "multi"
  <2>1. OthersKept(s) /\ pc'[s] \in {"write", "thumb"} /\ files'[s] = Tail(files[s])
        /\ media' = media
    BY <1>4 DEF PutError, NextFile, Goto, OthersKept, TypeInv, TypeOK
  <2>2. Work(s) \subseteq used /\ Objects(media[s]) \subseteq store
    BY <1>1 DEF FileInv, NamesUsed, WorkStored
  <2> QED
    BY <1>1, <1>2, <1>3, <2>1, <2>2 DEF FileFrame, Work, Deleting
<1>5. CASE mode[s] # "multi"
  BY <1>1, <1>2, <1>3, <1>5, ReturnFrame DEF PutError
<1> QED
  BY <1>4, <1>5

LEMMA StartFrame ==
    ASSUME TypeInv, FileInv, NEW s \in Session, NEW p \in Post, NEW m, NEW n \in Nat,
           NEW names \in FreshNames(n), StartUpload(s, p, m, names) \/ StartEdit(s, p, names)
    PROVE  FileFrame(s)
<1>1. /\ OthersKept(s) /\ pc'[s] \in Building /\ files'[s] = names
      /\ media' = media /\ used' = used \union Range(names)
      /\ UNCHANGED <<store, versions, doomed>>
  BY DEF StartUpload, StartEdit, Begin, OthersKept, TypeInv, TypeOK, Building, storageVars
<1>2. Range(names) \intersect used = {}
  BY FreshNamesAreNames
<1>3. pc[s] = "idle"
  BY DEF StartUpload, StartEdit, Begin
<1>4. media[s] = NoMedia
  BY <1>3 DEF FileInv, IdleHasNoMedia
<1> QED
  BY <1>1, <1>2, <1>4, NoMediaHasNoFiles DEF FileFrame, Building, Deleting

LEMMA StartDeleteFrame ==
    ASSUME TypeInv, FileInv, NEW s \in Session, NEW p \in Post, NEW v \in versions[p],
           StartDelete(s, p, v)
    PROVE  FileFrame(s)
<1>1. v \in Media
  BY DEF TypeInv, TypeOK
<1>2. Range(DeleteList(v)) = Objects(v)
  BY <1>1, DeleteListIsObjects
<1>3. /\ OthersKept(s) /\ pc'[s] \in {"delete", "comments"} /\ target'[s] = p
      /\ media'[s] = v /\ todo'[s] = DeleteList(v) /\ doomed' = doomed \union {p}
      /\ UNCHANGED <<store, used, versions>>
  BY DEF StartDelete, Begin, OthersKept, TypeInv, TypeOK, storageVars
<1> QED
  BY <1>2, <1>3 DEF FileFrame, Building

LEMMA DeleteObjectFrame ==
    ASSUME TypeInv, FileInv, NEW s \in Session, DeleteObject(s)
    PROVE  FileFrame(s)
<1>1. /\ Deletes(s) /\ Range(todo[s]) = {Head(todo[s])} \union Range(Tail(todo[s]))
      /\ Len(todo[s]) = 1 => Tail(todo[s]) = <<>>
  BY RangeHeadTail DEF DeleteObject, Deletes, Deleting, TypeInv, TypeOK, Control
<1>2. /\ target[s] \in doomed /\ media[s] \in versions[target[s]]
      /\ Range(todo[s]) \subseteq Objects(media[s])
      /\ Objects(media[s]) \intersect store \subseteq Range(todo[s])
  BY <1>1 DEF FileInv, DeleteProgress
<1>3. UNCHANGED <<used, versions, doomed>>
  BY DEF DeleteObject, historyVars
<1>4. CASE Head(todo[s]) \in store
  <2>1. /\ OthersKept(s) /\ pc'[s] \in {"delete", "comments"} /\ target'[s] = target[s]
        /\ media'[s] = media[s] /\ todo'[s] = Tail(todo[s])
        /\ store' = store \ {Head(todo[s])}
    BY <1>4 DEF DeleteObject, Goto, OthersKept, TypeInv, TypeOK
  <2> QED
    BY <1>1, <1>2, <1>3, <2>1 DEF FileFrame, Building
<1>5. CASE Head(todo[s]) \notin store
  BY <1>3, <1>5, ReturnFrame DEF DeleteObject
<1> QED
  BY <1>4, <1>5

LEMMA ChildrenFrame ==
    ASSUME TypeInv, FileInv, NEW s \in Session,
           QueryComments(s) \/ CommitComments(s) \/ QueryLikes(s) \/ CommitLikes(s)
    PROVE  FileFrame(s)
<1> USE DEF QueryComments, CommitComments, QueryLikes, CommitLikes, Query, Commit
<1>1. /\ OthersKept(s) /\ UNCHANGED <<store, used, versions, doomed>>
      /\ UNCHANGED <<target, media, todo>>
  BY DEF Goto, OthersKept, TypeInv, TypeOK, storageVars, historyVars
<1>2. Deletes(s) /\ pc'[s] \in Deleting
  BY DEF Goto, Deletes, Deleting, TypeInv, TypeOK
<1>3. /\ target[s] \in doomed /\ media[s] \in versions[target[s]]
      /\ Range(todo[s]) \subseteq Objects(media[s])
      /\ Objects(media[s]) \intersect store \subseteq Range(todo[s])
  BY <1>2 DEF FileInv, DeleteProgress
<1> QED
  BY <1>1, <1>2, <1>3 DEF FileFrame, Building, Deleting

\* What a call does about a write of the document once it has begun.
LEMMA WaitingFrame ==
    ASSUME TypeInv, FileInv, NEW s \in Session,
           RemovePost(s) \/ Handle(s) \/ Answer(s) \/ Lose(s)
    PROVE  FileFrame(s)
<1>1. UNCHANGED <<store, used, versions, doomed>>
  BY DEF RemovePost, Handle, Answer, Lose, storageVars, historyVars
<1>2. CASE Return(s)
  BY <1>1, <1>2, ReturnFrame
<1>3. CASE pc'[s] \in Waiting /\ OthersKept(s)
  BY <1>1, <1>3 DEF FileFrame, Waiting, Building, Deleting
<1>4. CASE Goto(s, "sent") \/ Goto(s, "answer")
  <2>1. UNCHANGED <<mode, target, files, media, todo>>
    BY <1>4 DEF RemovePost, Handle, Answer, Lose, Goto, Return, TypeInv, TypeOK
  <2>2. pc'[s] \in Waiting /\ OthersKept(s)
    BY <1>4, <2>1 DEF Goto, OthersKept, Waiting, TypeInv, TypeOK
  <2> QED
    BY <1>3, <2>2
<1> QED
  BY <1>2, <1>4 DEF RemovePost, Handle, Answer, Lose

LEMMA ErrorFrame ==
    ASSUME TypeInv, FileInv, NEW s \in Session, DeleteError(s) \/ Kill(s)
    PROVE  FileFrame(s)
<1>1. UNCHANGED <<used, versions, doomed>> /\ Return(s)
  BY DEF DeleteError, Kill
<1>2. CASE store' = store
  BY <1>1, <1>2, ReturnFrame
<1>3. CASE pc[s] = "delete" /\ store' = store \ {Head(todo[s])}
  <2>1. Deletes(s) /\ Head(todo[s]) \in Range(todo[s])
    BY <1>3, RangeHeadTail DEF Deletes, Deleting, TypeInv, TypeOK, Control
  <2>2. Head(todo[s]) \in Objects(media[s])
    BY <2>1 DEF FileInv, DeleteProgress
  <2> QED
    BY <1>1, <1>3, <2>1, <2>2, ReturnFrame
<1> QED
  BY <1>2, <1>3 DEF DeleteError, Kill

\* Publishing moves the call's names into a version of its post.
LEMMA WritePostFileInv ==
    ASSUME TypeInv, TypeInv', FileInv, NEW s \in Session, WritePost(s)
    PROVE  FileInv'
<1>1. /\ pc'[s] = "sent" /\ \A t \in Session \ {s} : pc'[t] = pc[t]
      /\ UNCHANGED <<store, used, doomed, target, files, media, todo>>
  BY DEF WritePost, Goto, TypeInv, TypeOK, storageVars
<1> DEFINE p0 == target[s]
           m0 == media[s]
<1>2. p0 \in Post /\ Builds(s)
  BY DEF WritePost, TypeInv, TypeOK, Control, Builds, Building
<1>3. /\ versions'[p0] = versions[p0] \union {m0}
      /\ \A p \in Post \ {p0} : versions'[p] = versions[p]
  BY <1>2 DEF WritePost, TypeInv, TypeOK
<1>4. /\ Names(m0) \subseteq Work(s) /\ Work(s) \subseteq used
      /\ Objects(m0) \subseteq store
  BY <1>2 DEF FileInv, NamesUsed, WorkStored, Work
<1>5. \A p \in Post : \A v \in versions[p] : Names(m0) \intersect Names(v) = {}
  BY <1>2, <1>4 DEF FileInv, WorkUnpublished
<1>6. \A t \in Session \ {s} : Builds(t) => Names(m0) \intersect Work(t) = {}
  BY <1>2, <1>4 DEF FileInv, WorkPrivate
<1>7. pc'[s] \notin Building /\ pc'[s] \notin Deleting
  BY <1>1 DEF Building, Deleting
<1> HIDE DEF p0, m0
<1>10. NamesUsed'
  BY <1>1, <1>3, <1>4, <1>7 DEF FileInv, NamesUsed, Builds, Work
<1>11. WorkUnpublished'
  <2> SUFFICES ASSUME NEW t \in Session \ {s}, pc[t] \in Building,
                      NEW p \in Post, NEW v \in versions'[p]
               PROVE  (Names(media[t]) \union Range(files[t])) \intersect Names(v) = {}
    BY <1>1, <1>7 DEF WorkUnpublished, Builds, Work
  <2>1. v \in versions[p] \/ v = m0
    BY <1>3
  <2> QED
    BY <1>6, <2>1 DEF FileInv, WorkUnpublished, Builds, Work
<1>12. WorkPrivate'
  BY <1>1, <1>7 DEF FileInv, WorkPrivate, Builds, Work
<1>13. VersionsPrivate'
  BY <1>3, <1>5 DEF FileInv, VersionsPrivate
<1>14. WorkStored'
  BY <1>1, <1>7 DEF FileInv, WorkStored, Builds
<1>15. DeleteProgress'
  <2> SUFFICES ASSUME NEW t \in Session, t # s, Deletes(t)
               PROVE  media[t] \in versions'[target[t]]
    BY <1>1, <1>7 DEF FileInv, DeleteProgress, Deletes
  <2>1. target[t] \in Post
    BY DEF TypeInv, TypeOK, Control, Deletes, Deleting
  <2>2. media[t] \in versions[target[t]]
    BY DEF FileInv, DeleteProgress
  <2> QED
    BY <1>3, <2>1, <2>2
<1>16. VersionsStored'
  BY <1>1, <1>3, <1>4 DEF FileInv, VersionsStored
<1>17. IdleHasNoMedia'
  BY <1>1 DEF FileInv, IdleHasNoMedia
<1> QED
  BY <1>10, <1>11, <1>12, <1>13, <1>14, <1>15, <1>16, <1>17 DEF FileInv

\* A step of a session publishes, or is a FileFrame.
LEMMA SessionFrame ==
    ASSUME TypeInv, FileInv, NEW s \in Session, StartStep(s) \/ RunStep(s) \/ FaultStep(s)
    PROVE  FileFrame(s) \/ WritePost(s)
<1>1. CASE StartStep(s)
  <2>1. ASSUME NEW p \in Post, NEW m \in {"single", "multi"}, NEW n \in 0..MaxFiles,
               NEW names \in FreshNames(n),
               StartUpload(s, p, m, names) \/ StartEdit(s, p, names)
        PROVE  FileFrame(s)
    BY <2>1, StartFrame, ConstantsAssumption
  <2>2. ASSUME NEW p \in Post, NEW v \in versions[p], StartDelete(s, p, v)
        PROVE  FileFrame(s)
    BY <2>2, StartDeleteFrame
  <2>3. 1..MaxFiles \subseteq 0..MaxFiles
    BY ConstantsAssumption
  <2> QED
    BY <1>1, <2>1, <2>2, <2>3 DEF StartStep
<1>2. CASE RunStep(s)
  BY <1>2, SkipFrame, PutThumbFrame, PutOriginalFrame, DeleteObjectFrame, ChildrenFrame,
     WaitingFrame DEF RunStep
<1>3. CASE FaultStep(s)
  BY <1>3, PutErrorFrame, ErrorFrame, WaitingFrame DEF FaultStep
<1> QED
  BY <1>1, <1>2, <1>3

LEMMA StepFileInv == TypeInv /\ FileInv /\ [Next]_vars => FileInv'
<1> SUFFICES ASSUME TypeInv, FileInv, [Next]_vars PROVE FileInv'
  OBVIOUS
<1>1. TypeInv'
  BY StepTypeInv
<1>2. ASSUME NEW s \in Session, FileFrame(s) PROVE FileInv'
  BY <1>1, <1>2, FramePreservesFileInv
<1>3. ASSUME NEW s \in Session, StartStep(s) \/ RunStep(s) \/ FaultStep(s) PROVE FileInv'
  BY <1>1, <1>2, <1>3, SessionFrame, WritePostFileInv
<1>6. ASSUME UNCHANGED <<store, sessionVars, used, versions, doomed>> PROVE FileInv'
  BY <1>6 DEF sessionVars, FileInv, NamesUsed, WorkUnpublished,
     WorkPrivate, VersionsPrivate, WorkStored, VersionsStored, DeleteProgress,
     IdleHasNoMedia, Builds, Deletes, Work
<1>7. ASSUME NEW c \in Child, AddChild(c) \/ RemoveChild(c) PROVE FileInv'
  BY <1>6, <1>7 DEF AddChild, RemoveChild, historyVars
<1>8. ASSUME NEW w \in copies, HandleCopy(w) PROVE FileInv'
  BY <1>6, <1>8 DEF HandleCopy
<1>9. CASE UNCHANGED vars
  BY <1>6, <1>9 DEF vars, storageVars, historyVars
<1> QED
  BY <1>3, <1>7, <1>8, <1>9 DEF Next

LEMMA FileInvariant == Spec => [](TypeInv /\ FileInv)
BY InitTypeInv, StepTypeInv, InitFileInv, StepFileInv, PTL DEF Spec

----------------------------------------------------------------------------
(* Writes of documents.  A document changes only when the server handles a  *)
(* write that is outstanding, and only two steps of a call begin one.       *)

\* What handling one of the outstanding writes does to the documents, if it is
\* done at all.
Handled == UNCHANGED <<posts, gone>> \/ \E w \in Outstanding : Apply(w)

LEMMA StepHandles ==
    ASSUME TypeInv, [Next]_vars
    PROVE  Handled
<1>1. ASSUME NEW s \in Session, Handle(s) PROVE Handled
  <2>1. WriteOf(s) \in Outstanding
    BY <1>1, OutstandingTypes DEF Handle, Waiting
  <2> QED
    BY <1>1, <2>1 DEF Handle, Handled
<1>2. ASSUME NEW w \in copies, HandleCopy(w) PROVE Handled
  BY <1>2 DEF HandleCopy, Handled, Outstanding
<1>3. ASSUME NEW s \in Session, StartStep(s) \/ RunStep(s) \/ FaultStep(s), ~Handle(s)
      PROVE  UNCHANGED <<posts, gone>>
  <2>1. CASE StartStep(s)
    BY <2>1 DEF StartStep, StartUpload, StartEdit, StartDelete, storageVars
  <2>2. CASE RunStep(s)
    BY <1>3, <2>2
    DEF RunStep, SkipFile, PutThumb, PutOriginal, WritePost, DeleteObject, QueryComments,
        CommitComments, QueryLikes, CommitLikes, Query, Commit, RemovePost, Answer,
        storageVars, historyVars
  <2>3. CASE FaultStep(s)
    BY <2>3 DEF FaultStep, PutError, DeleteError, Lose, Kill, historyVars
  <2> QED
    BY <1>3, <2>1, <2>2, <2>3
<1>4. ASSUME NEW c \in Child, AddChild(c) \/ RemoveChild(c) PROVE UNCHANGED <<posts, gone>>
  BY <1>4 DEF AddChild, RemoveChild, historyVars
<1>5. CASE UNCHANGED vars
  BY <1>5 DEF vars, storageVars, historyVars, Handled
<1> QED
  BY <1>1, <1>2, <1>3, <1>4, <1>5 DEF Next, Handled

\* A step of s after which s waits, if it does, for the write of its lists.
LEMMA OutstandingAfter ==
    ASSUME NEW s \in Session, OthersKept(s), copies' \subseteq Outstanding,
           pc'[s] \in Waiting =>
              mode'[s] = mode[s] /\ target'[s] = target[s] /\ media'[s] = media[s]
    PROVE  \A w \in Outstanding' : w \in Outstanding \/ (pc'[s] \in Waiting /\ w = WriteOf(s))
<1> SUFFICES ASSUME NEW t \in Session, pc'[t] \in Waiting
             PROVE  \/ WriteOf(t)' \in Outstanding
                    \/ pc'[s] \in Waiting /\ WriteOf(t)' = WriteOf(s)
  BY DEF Outstanding
<1>1. CASE t = s
  BY <1>1 DEF WriteOf
<1>2. CASE t # s
  <2>1. pc[t] \in Waiting /\ WriteOf(t)' = WriteOf(t)
    BY <1>2 DEF OthersKept, WriteOf
  <2> QED
    BY <2>1 DEF Outstanding
<1> QED
  BY <1>1, <1>2

LEMMA StepOutstanding ==
    ASSUME TypeInv, FileInv, [Next]_vars
    PROVE  \A w \in Outstanding' :
              \/ w \in Outstanding
              \/ \E s \in Session : (WritePost(s) \/ RemovePost(s)) /\ w = WriteOf(s)
<1>1. ASSUME NEW s \in Session, StartStep(s) \/ RunStep(s) \/ FaultStep(s)
      PROVE  \A w \in Outstanding' :
                w \in Outstanding \/ ((WritePost(s) \/ RemovePost(s)) /\ w = WriteOf(s))
  <2>1. OthersKept(s)
    <3>1. FileFrame(s) => OthersKept(s)
      BY DEF FileFrame
    <3>2. WritePost(s) => OthersKept(s)
      BY DEF WritePost, Goto, OthersKept, TypeInv, TypeOK
    <3> QED
      BY <1>1, <3>1, <3>2, SessionFrame
  <2>2. pc[s] \in Waiting => WriteOf(s) \in Outstanding
    BY OutstandingTypes
  <2>3. copies \subseteq Outstanding
    BY DEF Outstanding
  <2>4. copies' = copies \/ (pc[s] \in Waiting /\ copies' = copies \union {WriteOf(s)})
    <3>1. CASE StartStep(s)
      BY <3>1 DEF StartStep, StartUpload, StartEdit, StartDelete, storageVars
    <3>2. CASE RunStep(s)
      BY <3>2
      DEF RunStep, SkipFile, PutThumb, PutOriginal, WritePost, DeleteObject, QueryComments,
          CommitComments, QueryLikes, CommitLikes, Query, Commit, RemovePost, Handle, Answer,
          storageVars
    <3>3. CASE FaultStep(s)
      BY <3>3 DEF FaultStep, PutError, DeleteError, Lose, Kill, Leave, Waiting
    <3> QED
      BY <1>1, <3>1, <3>2, <3>3
  <2>5. pc'[s] \in Waiting =>
           /\ mode'[s] = mode[s] /\ target'[s] = target[s] /\ media'[s] = media[s]
           /\ pc[s] \in Waiting \/ WritePost(s) \/ RemovePost(s)
    <3>1. CASE WritePost(s)
      BY <3>1 DEF WritePost
    <3>2. CASE RemovePost(s)
      BY <3>2 DEF RemovePost, Goto, Return, Waiting, TypeInv, TypeOK
    <3>3. CASE Handle(s) \/ Lose(s)
      BY <3>3 DEF Handle, Lose, Waiting
    <3>4. CASE Answer(s) \/ DeleteError(s) \/ Kill(s)
      BY <3>4 DEF Answer, DeleteError, Kill, Return, Waiting, TypeInv, TypeOK
    <3>5. CASE StartStep(s)
      BY <3>5 DEF StartStep, StartUpload, StartEdit, StartDelete, Begin, Waiting, TypeInv, TypeOK
    <3>6. CASE SkipFile(s) \/ PutThumb(s) \/ PutOriginal(s) \/ PutError(s)
      BY <3>6 DEF SkipFile, PutThumb, PutOriginal, PutError, NextFile, Goto, Return, Waiting,
         TypeInv, TypeOK
    <3>7. CASE DeleteObject(s)
      BY <3>7 DEF DeleteObject, Goto, Return, Waiting, TypeInv, TypeOK
    <3>8. CASE QueryComments(s) \/ CommitComments(s) \/ QueryLikes(s) \/ CommitLikes(s)
      BY <3>8 DEF QueryComments, CommitComments, QueryLikes, CommitLikes, Query, Commit, Goto,
         Waiting, TypeInv, TypeOK
    <3> QED
      BY <1>1, <3>1, <3>2, <3>3, <3>4, <3>5, <3>6, <3>7, <3>8 DEF RunStep, FaultStep
  <2> QED
    BY <2>1, <2>2, <2>3, <2>4, <2>5, OutstandingAfter
<1>2. ASSUME UNCHANGED <<copies, pc, mode, target, media>> PROVE Outstanding' = Outstanding
  BY <1>2 DEF Outstanding, WriteOf
<1>3. ASSUME NEW c \in Child, AddChild(c) \/ RemoveChild(c) PROVE Outstanding' = Outstanding
  BY <1>2, <1>3 DEF AddChild, RemoveChild, sessionVars
<1>4. ASSUME NEW w \in copies, HandleCopy(w) PROVE Outstanding' = Outstanding
  BY <1>2, <1>4 DEF HandleCopy, sessionVars
<1>5. CASE UNCHANGED vars
  BY <1>2, <1>5 DEF vars, storageVars, sessionVars
<1> QED
  BY <1>1, <1>3, <1>4, <1>5 DEF Next

\* A version is never forgotten.
LEMMA VersionsGrow ==
    ASSUME TypeInv, FileInv, [Next]_vars
    PROVE  \A p \in Post : versions[p] \subseteq versions'[p]
<1>1. ASSUME NEW s \in Session, StartStep(s) \/ RunStep(s) \/ FaultStep(s)
      PROVE  \A p \in Post : versions[p] \subseteq versions'[p]
  <2>1. CASE FileFrame(s)
    BY <2>1 DEF FileFrame
  <2>2. CASE WritePost(s)
    BY <2>2 DEF WritePost, TypeInv, TypeOK
  <2> QED
    BY <1>1, <2>1, <2>2, SessionFrame
<1> QED
  BY <1>1 DEF Next, AddChild, RemoveChild, HandleCopy, vars, historyVars

\* A file a version has lost is not put again: the names of a running upload
\* are of no version.
LEMMA LostStaysLost ==
    ASSUME TypeInv, FileInv, [Next]_vars,
           NEW p \in Post, NEW v \in versions[p], NEW o \in Objects(v), o \notin store
    PROVE  o \notin store'
<1>1. ASSUME NEW s \in Session, FileFrame(s) PROVE o \notin store'
  <2> SUFFICES ASSUME o \in store', Builds(s), o[2] \in Work(s) PROVE FALSE
    BY <1>1 DEF FileFrame
  <2>1. v \in Media /\ o = <<o[1], o[2]>>
    BY DEF TypeInv, TypeOK, Objects
  <2>2. o[2] \in Names(v)
    BY <2>1, NameOfObject
  <2> QED
    BY <2>2 DEF FileInv, WorkUnpublished
<1>2. ASSUME NEW s \in Session, WritePost(s) PROVE store' = store
  BY <1>2 DEF WritePost, storageVars
<1> QED
  BY <1>1, <1>2, SessionFrame DEF Next, AddChild, RemoveChild, HandleCopy, vars, storageVars

\* What deletePost has left of its post when it removes the document.
LEMMA NothingLeftAtRemoval ==
    ASSUME TypeInv, FileInv, NEW s \in Session, pc[s] = "remove"
    PROVE  /\ Objects(media[s]) \intersect store = {}
           /\ target[s] \in Post /\ media[s] \in versions[target[s]]
<1>1. todo[s] = <<>> /\ target[s] \in Post /\ Deletes(s)
  BY DEF TypeInv, TypeOK, Control, Deletes, Deleting
<1> QED
  BY <1>1, RangeEmpty DEF FileInv, DeleteProgress

CurrentIsVersion == \A p \in Post : Alive(p) => posts[p] \in versions[p]

\* A write that is outstanding, and so a document, names a version of its post,
\* and a deletion one that has no file left.
WriteInv ==
    /\ CurrentIsVersion
    /\ \A p \in gone : Published(p)
    /\ \A w \in Outstanding :
          /\ w.media \in versions[w.post]
          /\ w.op = "delete" => Objects(w.media) \intersect store = {}

LEMMA StepWriteInv == TypeInv /\ FileInv /\ WriteInv /\ [Next]_vars => WriteInv'
<1> SUFFICES ASSUME TypeInv, FileInv, WriteInv, [Next]_vars PROVE WriteInv'
  OBVIOUS
<1>1. \A w \in Outstanding : w \in DocWrite /\ w.post \in Post /\ w.media \in versions[w.post]
  BY OutstandingTypes DEF WriteInv, DocWrite
<1>2. \A p \in Post : versions[p] \subseteq versions'[p]
  BY VersionsGrow
<1>3. CurrentIsVersion' /\ \A p \in gone' : versions'[p] # {}
  <2>1. CASE UNCHANGED <<posts, gone>>
    BY <1>2, <2>1 DEF WriteInv, CurrentIsVersion, Alive, Published, TypeInv, TypeOK
  <2>2. ASSUME NEW w \in Outstanding, Apply(w)
        PROVE  CurrentIsVersion' /\ \A p \in gone' : versions'[p] # {}
    <3>1. /\ \A p \in Post : p # w.post => posts'[p] = posts[p]
          /\ posts'[w.post] \in {posts[w.post], w.media, NoDoc}
          /\ gone' \subseteq gone \union {w.post} /\ gone \subseteq Post
      BY <1>1, <2>2, ApplyFacts DEF TypeInv, TypeOK
    <3>2. CurrentIsVersion'
      BY <1>1, <1>2, <3>1 DEF WriteInv, CurrentIsVersion, Alive
    <3>3. \A p \in gone' : versions'[p] # {}
      BY <1>1, <1>2, <3>1 DEF WriteInv, Published
    <3> QED
      BY <3>2, <3>3
  <2> QED
    BY <2>1, <2>2, StepHandles DEF Handled
<1>4. ASSUME NEW w \in Outstanding'
      PROVE  /\ w.media \in versions'[w.post]
             /\ w.op = "delete" => Objects(w.media) \intersect store' = {}
  <2>1. CASE w \in Outstanding
    <3>1. w.op = "delete" => Objects(w.media) \intersect store = {}
      BY <2>1 DEF WriteInv
    <3>2. \A o \in Objects(w.media) : o \notin store => o \notin store'
      BY <1>1, <2>1, LostStaysLost
    <3> QED
      BY <1>1, <1>2, <2>1, <3>1, <3>2
  <2>2. ASSUME NEW s \in Session, WritePost(s), w = WriteOf(s)
        PROVE  w.media \in versions'[w.post] /\ w.op # "delete"
    <3>1. /\ w.media = media[s] /\ w.post = target[s]
          /\ w.op = "delete" <=> mode[s] = "delete"
      BY <2>2 DEF WriteOf
    <3>2. mode[s] # "delete" /\ target[s] \in Post
      BY <2>2 DEF WritePost, TypeInv, TypeOK, Control, Building
    <3>3. versions'[target[s]] = versions[target[s]] \union {media[s]}
      BY <2>2, <3>2 DEF WritePost, TypeInv, TypeOK
    <3> QED
      BY <3>1, <3>2, <3>3
  <2>3. ASSUME NEW s \in Session, RemovePost(s), w = WriteOf(s)
        PROVE  w.media \in versions'[w.post] /\ Objects(w.media) \intersect store' = {}
    <3>1. w.media = media[s] /\ w.post = target[s]
      BY <2>3 DEF WriteOf
    <3>2. pc[s] = "remove" /\ store' = store
      BY <2>3 DEF RemovePost, storageVars
    <3>3. /\ Objects(media[s]) \intersect store = {}
          /\ target[s] \in Post /\ media[s] \in versions[target[s]]
      BY <3>2, NothingLeftAtRemoval
    <3> QED
      BY <1>2, <3>1, <3>2, <3>3
  <2> QED
    BY <2>1, <2>2, <2>3, StepOutstanding
<1> QED
  BY <1>3, <1>4 DEF WriteInv, Published

LEMMA WriteInvariant == Spec => [](TypeInv /\ FileInv /\ WriteInv)
<1>1. Init => WriteInv
  BY DEF Init, WriteInv, CurrentIsVersion, Alive, Outstanding, Waiting
<1> QED
  BY <1>1, StepWriteInv, FileInvariant, PTL DEF Spec

\* LiveFilesExist: the files of a post nobody has asked to delete are all in the
\* bucket, whatever other calls, failures, late writes and stale pages do.
THEOREM LivePostsKeepTheirFiles == Spec => []LiveFilesExist
<1>1. FileInv /\ WriteInv => LiveFilesExist
  BY DEF FileInv, VersionsStored, WriteInv, CurrentIsVersion, LiveFilesExist
<1> QED
  BY WriteInvariant, <1>1, PTL

\* DocumentGoesLast: a document is removed only by the last write of a deletePost
\* of its own post, and when no object it was told about is in the bucket.
THEOREM DocumentIsRemovedLast == Spec => DocumentGoesLast
<1>1. TypeInv /\ FileInv /\ WriteInv /\ [Next]_vars =>
        [\A p \in Post : Alive(p) /\ ~Alive(p)' =>
            \E w \in Outstanding : /\ w.op = "delete" /\ w.post = p
                                   /\ Objects(w.media) \intersect store = {}]_vars
  <2> SUFFICES ASSUME TypeInv, FileInv, WriteInv, [Next]_vars, NEW p \in Post, Alive(p), ~Alive(p)'
               PROVE  \E w \in Outstanding : /\ w.op = "delete" /\ w.post = p
                                             /\ Objects(w.media) \intersect store = {}
    OBVIOUS
  <2>1. posts[p] # NoDoc /\ posts'[p] = NoDoc
    BY DEF Alive
  <2>2. PICK w \in Outstanding : Apply(w)
    BY <2>1, StepHandles DEF Handled
  <2>3. w \in DocWrite
    BY OutstandingTypes
  <2>4. w.op = "delete" /\ w.post = p
    <3>1. p = w.post
      BY <2>1, <2>2, <2>3, ApplyFacts DEF TypeInv
    <3>2. w.op # "add" /\ w.op # "update"
      BY <2>1, <2>2, <2>3, <3>1, ApplyFacts DEF TypeInv
    <3> QED
      BY <2>2, <2>3, <3>1, <3>2, ApplyFacts DEF TypeInv
  <2> QED
    BY <2>4 DEF WriteInv
<1> QED
  BY WriteInvariant, <1>1, PTL DEF Spec, DocumentGoesLast

----------------------------------------------------------------------------
(* Originals and thumbnails.                                                *)

Paired(m) == Range(m.origs) \subseteq Range(m.thumbs)

\* Why OriginalHasThumbnail holds: an original is put only after the thumbnail
\* of the same file, and a file whose thumbnail failed is skipped as a whole.
ThumbInv ==
    /\ \A s \in Session : Builds(s) => Paired(media[s])
    /\ \A s \in Session : pc[s] = "orig" => Head(files[s]) \in Range(media[s].thumbs)
    /\ \A p \in Post : \A v \in versions[p] : Paired(v)

\* A session's step that builds no unpaired list and publishes none.
LEMMA PairedStep ==
    ASSUME ThumbInv, NEW s \in Session, OthersKept(s),
           \A p \in Post : versions'[p] = versions[p]
                           \/ (Builds(s) /\ versions'[p] = versions[p] \union {media[s]}),
           pc'[s] \in Building => Paired(media'[s]),
           pc'[s] = "orig" => Head(files'[s]) \in Range(media'[s].thumbs)
    PROVE  ThumbInv'
<1>1. \A t \in Session : Builds(t)' => Paired(media'[t])
  BY DEF ThumbInv, OthersKept, Builds
<1>2. \A t \in Session : pc'[t] = "orig" => Head(files'[t]) \in Range(media'[t].thumbs)
  BY DEF ThumbInv, OthersKept
<1>3. \A p \in Post : \A v \in versions'[p] : Paired(v)
  BY DEF ThumbInv
<1> QED
  BY <1>1, <1>2, <1>3 DEF ThumbInv, Paired

LEMMA StepThumbInv == TypeInv /\ FileInv /\ ThumbInv /\ [Next]_vars => ThumbInv'
<1> SUFFICES ASSUME TypeInv, FileInv, ThumbInv, [Next]_vars PROVE ThumbInv'
  OBVIOUS
<1>1. ASSUME NEW s \in Session, StartStep(s) \/ RunStep(s) \/ FaultStep(s) PROVE ThumbInv'
  <2>1. OthersKept(s)
    <3>1. FileFrame(s) => OthersKept(s)
      BY DEF FileFrame
    <3>2. WritePost(s) => OthersKept(s)
      BY DEF WritePost, Goto, OthersKept, TypeInv, TypeOK
    <3> QED
      BY <1>1, <3>1, <3>2, SessionFrame
  <2>2. \A p \in Post : versions'[p] = versions[p]
                        \/ (Builds(s) /\ versions'[p] = versions[p] \union {media[s]})
    <3>1. CASE FileFrame(s)
      BY <3>1 DEF FileFrame
    <3>2. CASE WritePost(s)
      BY <3>2 DEF WritePost, Builds, Building, TypeInv, TypeOK
    <3> QED
      BY <1>1, <3>1, <3>2, SessionFrame
  <2>3. \/ pc'[s] \notin Building
        \/ /\ pc'[s] \in Building /\ pc'[s] # "orig" /\ media'[s] = media[s]
           /\ Builds(s) \/ media[s] = NoMedia
        \/ PutThumb(s) \/ PutOriginal(s)
    <3>1. pc[s] = "idle" => media[s] = NoMedia
      BY DEF FileInv, IdleHasNoMedia
    <3>2. CASE StartStep(s)
      BY <3>1, <3>2 DEF StartStep, StartUpload, StartEdit, StartDelete, Begin, Building, TypeInv,
         TypeOK
    <3>3. CASE SkipFile(s)
      BY <3>3 DEF SkipFile, NextFile, Goto, Return, Builds, Building, TypeInv, TypeOK
    <3>4. CASE DeleteObject(s) \/ QueryComments(s) \/ CommitComments(s) \/ QueryLikes(s)
               \/ CommitLikes(s)
      BY <3>4 DEF DeleteObject, QueryComments, CommitComments, QueryLikes, CommitLikes, Query,
         Commit, Goto, Return, Building, TypeInv, TypeOK
    <3>5. CASE WritePost(s) \/ RemovePost(s) \/ Handle(s) \/ Answer(s) \/ Lose(s)
      BY <3>5 DEF WritePost, RemovePost, Handle, Answer, Lose, Goto, Return, Building, TypeInv,
         TypeOK
    <3>6. CASE PutError(s)
      BY <3>6 DEF PutError, NextFile, Goto, Return, Builds, Building, TypeInv, TypeOK
    <3>7. CASE DeleteError(s) \/ Kill(s)
      BY <3>7 DEF DeleteError, Kill, Return, Building, TypeInv, TypeOK
    <3> QED
      BY <1>1, <3>2, <3>3, <3>4, <3>5, <3>6, <3>7 DEF RunStep, FaultStep
  <2>4. CASE pc'[s] \notin Building
    BY <2>1, <2>2, <2>4, PairedStep DEF Building
  <2>5. CASE /\ pc'[s] \in Building /\ pc'[s] # "orig" /\ media'[s] = media[s]
             /\ Builds(s) \/ media[s] = NoMedia
    <3>1. Paired(media'[s])
      BY <2>5, RangeEmpty DEF ThumbInv, Paired, NoMedia
    <3> QED
      BY <2>1, <2>2, <2>5, <3>1, PairedStep
  <2>6. CASE PutThumb(s)
    <3> DEFINE n == Head(files[s])
    <3>1. n \in Name /\ Builds(s)
      BY <2>6, HeadIsWork DEF PutThumb
    <3>2. /\ media'[s].thumbs = Append(media[s].thumbs, n) /\ media'[s].origs = media[s].origs
          /\ files'[s] = files[s]
      BY <2>6 DEF PutThumb, TypeInv, TypeOK, Media
    <3>3. Range(media'[s].thumbs) = Range(media[s].thumbs) \union {n}
      BY <3>1, <3>2, RangeAppend DEF TypeInv, TypeOK, Media
    <3>4. Paired(media'[s]) /\ Head(files'[s]) \in Range(media'[s].thumbs)
      BY <3>1, <3>2, <3>3 DEF ThumbInv, Paired
    <3> QED
      BY <2>1, <2>2, <3>4, PairedStep
  <2>7. CASE PutOriginal(s)
    <3> DEFINE n == Head(files[s])
    <3>1. n \in Name /\ Builds(s) /\ n \in Range(media[s].thumbs)
      BY <2>7, HeadIsWork DEF PutOriginal, ThumbInv
    <3>2. /\ media'[s].origs = Append(media[s].origs, n) /\ media'[s].thumbs = media[s].thumbs
          /\ pc'[s] # "orig"
      BY <2>7 DEF PutOriginal, NextFile, Goto, TypeInv, TypeOK, Media
    <3>3. Range(media'[s].origs) = Range(media[s].origs) \union {n}
      BY <3>1, <3>2, RangeAppend DEF TypeInv, TypeOK, Media
    <3>4. Paired(media'[s])
      BY <3>1, <3>2, <3>3 DEF ThumbInv, Paired
    <3> QED
      BY <2>1, <2>2, <3>2, <3>4, PairedStep
  <2> QED
    BY <2>3, <2>4, <2>5, <2>6, <2>7
<1>2. CASE UNCHANGED <<sessionVars, versions>>
  BY <1>2 DEF sessionVars, ThumbInv, Builds, Paired
<1> QED
  BY <1>1, <1>2 DEF Next, AddChild, RemoveChild, HandleCopy, vars, historyVars

\* OriginalHasThumbnail: whatever subset of a multiple upload failed, a post
\* never names an original whose thumbnail it does not name.
THEOREM OriginalsHaveThumbnails == Spec => []OriginalHasThumbnail
<1>1. Init => ThumbInv
  BY DEF Init, ThumbInv, Builds, Building
<1>2. WriteInv /\ ThumbInv => OriginalHasThumbnail
  BY DEF ThumbInv, WriteInv, CurrentIsVersion, OriginalHasThumbnail, Paired
<1> QED
  BY <1>1, <1>2, StepThumbInv, WriteInvariant, PTL DEF Spec

----------------------------------------------------------------------------
(* Deleted posts.                                                           *)

\* Why DeletedStaysDeleted holds: an upload adds a document under an id that no
\* post was ever given and no other call works on.
UploadInv ==
    \A s \in Session : Builds(s) /\ mode[s] # "edit" =>
       /\ ~Published(target[s])
       /\ \A t \in Session : t # s /\ Builds(t) => target[t] # target[s]

\* A step that starts no upload or edit and publishes nothing.
LEMMA NoStartKeepsUploadInv ==
    ASSUME UploadInv, versions' = versions,
           \A t \in Session : Builds(t)' => Builds(t) /\ mode'[t] = mode[t] /\ target'[t] = target[t]
    PROVE  UploadInv'
BY DEF UploadInv, Published

LEMMA StepUploadInv == TypeInv /\ FileInv /\ UploadInv /\ [Next]_vars => UploadInv'
<1> SUFFICES ASSUME TypeInv, FileInv, UploadInv, [Next]_vars PROVE UploadInv'
  OBVIOUS
<1>1. ASSUME NEW s \in Session, NEW p \in Post, NEW m \in {"single", "multi"},
             NEW n \in 1..MaxFiles, NEW names \in FreshNames(n), StartUpload(s, p, m, names)
      PROVE  UploadInv'
  <2>1. \A t \in Session : target[t] # p
    BY <1>1 DEF StartUpload, Range, TypeInv, TypeOK
  <2>2. /\ ~Published(p) /\ versions' = versions
        /\ mode'[s] = m /\ target'[s] = p
        /\ \A t \in Session \ {s} : pc'[t] = pc[t] /\ mode'[t] = mode[t] /\ target'[t] = target[t]
    BY <1>1 DEF StartUpload, Begin, TypeInv, TypeOK
  <2> QED
    BY <2>1, <2>2 DEF UploadInv, Published, Builds
<1>2. ASSUME NEW s \in Session, NEW p \in Post, NEW n \in 0..MaxFiles,
             NEW names \in FreshNames(n), StartEdit(s, p, names)
      PROVE  UploadInv'
  <2>1. /\ Published(p) /\ versions' = versions /\ mode'[s] = "edit" /\ target'[s] = p
        /\ \A t \in Session \ {s} : pc'[t] = pc[t] /\ mode'[t] = mode[t] /\ target'[t] = target[t]
    BY <1>2 DEF StartEdit, Begin, TypeInv, TypeOK
  <2> QED
    BY <2>1 DEF UploadInv, Published, Builds
<1>3. ASSUME NEW s \in Session, NEW p \in Post, NEW v \in versions[p], StartDelete(s, p, v)
      PROVE  UploadInv'
  BY <1>3, NoStartKeepsUploadInv
  DEF StartDelete, Begin, Builds, Building, TypeInv, TypeOK
<1>4. ASSUME NEW s \in Session, SkipFile(s) \/ PutThumb(s) \/ PutOriginal(s) \/ PutError(s)
      PROVE  UploadInv'
  <2>1. versions' = versions /\ Builds(s)
    BY <1>4 DEF SkipFile, PutThumb, PutOriginal, PutError, Builds, Building, historyVars
  <2>2. \A t \in Session : Builds(t)' => Builds(t) /\ mode'[t] = mode[t] /\ target'[t] = target[t]
    BY <1>4, <2>1
    DEF SkipFile, PutThumb, PutOriginal, PutError, NextFile, Goto, Return, Builds, Building,
        TypeInv, TypeOK
  <2> QED
    BY <2>1, <2>2, NoStartKeepsUploadInv
<1>5. ASSUME NEW s \in Session,
             \/ DeleteObject(s) \/ QueryComments(s) \/ CommitComments(s) \/ QueryLikes(s)
             \/ CommitLikes(s)
      PROVE  UploadInv'
  BY <1>5, NoStartKeepsUploadInv
  DEF DeleteObject, QueryComments, CommitComments, QueryLikes, CommitLikes, Query, Commit, Goto,
      Return, Builds, Building, TypeInv, TypeOK, historyVars
<1>6. ASSUME NEW s \in Session,
             \/ RemovePost(s) \/ Handle(s) \/ Answer(s) \/ Lose(s) \/ DeleteError(s) \/ Kill(s)
      PROVE  UploadInv'
  <2>1. versions' = versions
    BY <1>6 DEF RemovePost, Handle, Answer, Lose, DeleteError, Kill, historyVars
  <2>2. \A t \in Session : Builds(t)' => Builds(t) /\ mode'[t] = mode[t] /\ target'[t] = target[t]
    BY <1>6
    DEF RemovePost, Handle, Answer, Lose, DeleteError, Kill, Goto, Return, Builds, Building,
        TypeInv, TypeOK
  <2> QED
    BY <2>1, <2>2, NoStartKeepsUploadInv
<1>7. ASSUME NEW s \in Session, WritePost(s) PROVE UploadInv'
  <2>1. /\ ~Builds(s)' /\ UNCHANGED <<mode, target>>
        /\ \A t \in Session \ {s} : pc'[t] = pc[t]
    BY <1>7 DEF WritePost, Goto, Builds, Building, TypeInv, TypeOK
  <2>2. Builds(s) /\ target[s] \in Post
    BY <1>7 DEF WritePost, Builds, Building, TypeInv, TypeOK, Control
  <2>3. \A p \in Post : p # target[s] => versions'[p] = versions[p]
    BY <1>7, <2>2 DEF WritePost, TypeInv, TypeOK
  <2>4. ASSUME NEW t \in Session \ {s}, Builds(t), mode[t] # "edit"
        PROVE  versions'[target[t]] = versions[target[t]]
    <3>1. target[t] \in Post /\ target[s] # target[t]
      BY <2>2, <2>4 DEF UploadInv, Builds, Building, TypeInv, TypeOK, Control
    <3> QED
      BY <2>3, <3>1
  <2> QED
    BY <2>1, <2>4 DEF UploadInv, Published, Builds
<1>8. CASE UNCHANGED <<sessionVars, versions>>
  BY <1>8, NoStartKeepsUploadInv DEF sessionVars, Builds
<1> QED
  BY <1>1, <1>2, <1>3, <1>4, <1>5, <1>6, <1>7, <1>8
  DEF Next, StartStep, RunStep, FaultStep, AddChild, RemoveChild, HandleCopy, vars, historyVars

LEMMA UploadInvariant == Spec => []UploadInv
<1>1. Init => UploadInv
  BY DEF Init, UploadInv, Builds, Building
<1> QED
  BY <1>1, StepUploadInv, FileInvariant, PTL DEF Spec

\* DeletedStaysDeleted: once the server has handled every copy of the add of a
\* post that is gone, no edit, late write or call brings its document back.
THEOREM DeletedPostsStayDeleted == Spec => DeletedStaysDeleted
<1>1. TypeInv /\ FileInv /\ WriteInv /\ UploadInv /\ [Next]_vars =>
        [\A p \in Post : Final(p) => Final(p)']_vars
  <2> SUFFICES ASSUME TypeInv, FileInv, WriteInv, UploadInv, [Next]_vars,
                      NEW p \in Post, Final(p)
               PROVE  Final(p)'
    OBVIOUS
  <2>1. /\ p \in gone /\ posts[p] = NoDoc
        /\ \A w \in Outstanding : w.op = "add" => w.post # p
    BY DEF Final, Alive
  <2>2. p \in gone' /\ posts'[p] = NoDoc
    <3>1. ASSUME NEW w \in Outstanding, Apply(w) PROVE p \in gone' /\ posts'[p] = NoDoc
      <4>1. w \in DocWrite
        BY OutstandingTypes
      <4>2. CASE w.post = p
        BY <2>1, <3>1, <4>1, <4>2, ApplyFacts DEF TypeInv, Alive
      <4>3. CASE w.post # p
        BY <2>1, <3>1, <4>1, <4>3, ApplyFacts DEF TypeInv
      <4> QED
        BY <4>2, <4>3
    <3> QED
      BY <2>1, <3>1, StepHandles DEF Handled
  <2>3. ASSUME NEW w \in Outstanding', w.op = "add" PROVE w.post # p
    <3>1. CASE w \in Outstanding
      BY <2>1, <2>3, <3>1
    <3>2. ASSUME NEW s \in Session, WritePost(s), w = WriteOf(s) PROVE w.post # p
      <4>1. Builds(s) /\ mode[s] # "edit" /\ w.post = target[s]
        BY <2>3, <3>2 DEF WritePost, WriteOf, Builds, Building
      <4>2. ~Published(target[s])
        BY <4>1 DEF UploadInv
      <4> QED
        BY <2>1, <4>1, <4>2 DEF WriteInv
    <3>3. ASSUME NEW s \in Session, RemovePost(s), w = WriteOf(s) PROVE FALSE
      <4>1. mode[s] = "delete"
        BY <3>3 DEF RemovePost, TypeInv, Control, Deleting
      <4> QED
        BY <2>3, <3>3, <4>1 DEF WriteOf
    <3> QED
      BY <3>1, <3>2, <3>3, StepOutstanding
  <2> QED
    BY <2>2, <2>3 DEF Final, Alive
<1> QED
  BY <1>1, WriteInvariant, UploadInvariant, PTL DEF Spec, DeletedStaysDeleted

----------------------------------------------------------------------------
(* Comments and likes of deleted posts.                                     *)

\* What a call that deletes the post of a child has made of the child.
Attended(c) ==
    \A s \in Session : target[s] = c.post =>
       /\ pc[s] = "commitComments" /\ c.in = "comments" => c \in seen[s]
       /\ pc[s] \in {"likes", "commitLikes", "remove"} => c.in # "comments"
       /\ pc[s] = "commitLikes" /\ c.in = "likes" => c \in seen[s]
       /\ pc[s] # "remove"

\* Why OrphanChildWasMissed holds: a child that a deletePost looked for and found
\* is in what it saw until it is deleted, so none is left when the document goes.
ChildInv ==
    \A c \in children \ missed :
       /\ c.post \in gone => Alive(c.post)
       /\ \A w \in Outstanding : w.op = "delete" => w.post # c.post
       /\ Attended(c)

\* Only RemovePost begins the deletion of a document.
LEMMA StepDeletions ==
    ASSUME TypeInv, FileInv, [Next]_vars, NEW w \in Outstanding', w.op = "delete"
    PROVE  w \in Outstanding \/ \E s \in Session : RemovePost(s) /\ w.post = target[s]
<1>1. ASSUME NEW s \in Session, WritePost(s), w = WriteOf(s) PROVE FALSE
  <2>1. mode[s] # "delete"
    BY <1>1 DEF WritePost, TypeInv, Control, Building
  <2> QED
    BY <1>1, <2>1 DEF WriteOf
<1>2. ASSUME NEW s \in Session, w = WriteOf(s) PROVE w.post = target[s]
  BY <1>2 DEF WriteOf
<1> QED
  BY <1>1, <1>2, StepOutstanding

\* A step that adds no child keeps ChildInv when every call attends.
LEMMA AttendedKeepsChildInv ==
    ASSUME TypeInv, FileInv, ChildInv, [Next]_vars,
           children' \ missed' \subseteq children \ missed,
           \A c \in children' \ missed' : Attended(c)'
    PROVE  ChildInv'
<1> SUFFICES ASSUME NEW c \in children' \ missed'
             PROVE  /\ c.post \in gone' => posts'[c.post] # NoDoc
                    /\ \A w \in Outstanding' : w.op = "delete" => w.post # c.post
  BY DEF ChildInv, Alive
<1>1. /\ c \in children \ missed /\ c.post \in Post
      /\ c.post \in gone => posts[c.post] # NoDoc
      /\ \A w \in Outstanding : w.op = "delete" => w.post # c.post
      /\ Attended(c)
  BY DEF ChildInv, Alive, TypeInv, TypeOK, Child
<1>2. c.post \in gone' => posts'[c.post] # NoDoc
  <2>1. ASSUME NEW w \in Outstanding, Apply(w), c.post \in gone' PROVE posts'[c.post] # NoDoc
    <3>1. w \in DocWrite
      BY OutstandingTypes
    <3>2. CASE w.post = c.post
      <4>1. w.op # "delete"
        BY <1>1, <3>2
      <4> QED
        BY <1>1, <2>1, <3>1, <3>2, <4>1, ApplyFacts DEF TypeInv, Alive
    <3>3. CASE w.post # c.post
      BY <1>1, <2>1, <3>1, <3>3, ApplyFacts DEF TypeInv
    <3> QED
      BY <3>2, <3>3
  <2> QED
    BY <1>1, <2>1, StepHandles DEF Handled
<1>3. ASSUME NEW w \in Outstanding', w.op = "delete" PROVE w.post # c.post
  <2>1. CASE w \in Outstanding
    BY <1>1, <1>3, <2>1
  <2>2. ASSUME NEW s \in Session, RemovePost(s), w.post = target[s] PROVE w.post # c.post
    BY <1>1, <2>2 DEF RemovePost, Attended
  <2> QED
    BY <1>3, <2>1, <2>2, StepDeletions
<1> QED
  BY <1>2, <1>3

Looking == {"commitComments", "likes", "commitLikes", "remove"}

\* A step that adds no child, and after which no call has looked that had not.
LEMMA NoLookKeepsChildInv ==
    ASSUME TypeInv, FileInv, ChildInv, [Next]_vars, children' \ missed' \subseteq children \ missed,
           \A t \in Session : pc'[t] \in Looking =>
              pc'[t] = pc[t] /\ target'[t] = target[t] /\ seen'[t] = seen[t]
    PROVE  ChildInv'
<1>1. ASSUME NEW c \in children' \ missed' PROVE Attended(c)'
  <2>1. Attended(c)
    BY DEF ChildInv
  <2> QED
    BY <2>1 DEF Attended, Looking
<1> QED
  BY <1>1, AttendedKeepsChildInv

LEMMA StepChildInv == TypeInv /\ FileInv /\ ChildInv /\ [Next]_vars => ChildInv'
<1> SUFFICES ASSUME TypeInv, FileInv, ChildInv, [Next]_vars PROVE ChildInv'
  OBVIOUS
<1>a. \A c \in children \ missed : Attended(c) /\ c.in \in {"comments", "likes"}
  BY DEF ChildInv, TypeInv, TypeOK, Child
<1>1. ASSUME NEW s \in Session, StartStep(s) PROVE ChildInv'
  <2>1. UNCHANGED <<children, missed>>
    BY <1>1 DEF StartStep, StartUpload, StartEdit, StartDelete, storageVars
  <2>2. \A t \in Session : pc'[t] \in Looking =>
              pc'[t] = pc[t] /\ target'[t] = target[t] /\ seen'[t] = seen[t]
    BY <1>1 DEF StartStep, StartUpload, StartEdit, StartDelete, Begin, Looking, TypeInv, TypeOK
  <2> QED
    BY <2>1, <2>2, NoLookKeepsChildInv
<1>2. ASSUME NEW s \in Session, SkipFile(s) \/ PutThumb(s) \/ PutOriginal(s) \/ PutError(s)
      PROVE  ChildInv'
  <2>1. UNCHANGED <<children, missed>>
    BY <1>2 DEF SkipFile, PutThumb, PutOriginal, PutError, storageVars, historyVars
  <2>2. \A t \in Session : pc'[t] \in Looking =>
              pc'[t] = pc[t] /\ target'[t] = target[t] /\ seen'[t] = seen[t]
    BY <1>2 DEF SkipFile, PutThumb, PutOriginal, PutError, NextFile, Goto, Return, Looking,
       TypeInv, TypeOK
  <2> QED
    BY <2>1, <2>2, NoLookKeepsChildInv
<1>3. ASSUME NEW s \in Session, DeleteObject(s) \/ DeleteError(s) \/ Kill(s) PROVE ChildInv'
  <2>1. children' \ missed' \subseteq children \ missed
    BY <1>3 DEF DeleteObject, DeleteError, Kill, storageVars, historyVars
  <2>2. \A t \in Session : pc'[t] \in Looking =>
              pc'[t] = pc[t] /\ target'[t] = target[t] /\ seen'[t] = seen[t]
    BY <1>3 DEF DeleteObject, DeleteError, Kill, Goto, Return, Looking, TypeInv, TypeOK
  <2> QED
    BY <2>1, <2>2, NoLookKeepsChildInv
<1>4. ASSUME NEW s \in Session,
             WritePost(s) \/ RemovePost(s) \/ Handle(s) \/ Answer(s) \/ Lose(s)
      PROVE  ChildInv'
  <2>1. UNCHANGED <<children, missed>>
    BY <1>4 DEF WritePost, RemovePost, Handle, Answer, Lose, storageVars, historyVars
  <2>2. \A t \in Session : pc'[t] \in Looking =>
              pc'[t] = pc[t] /\ target'[t] = target[t] /\ seen'[t] = seen[t]
    <3>1. CASE Return(s)
      BY <3>1 DEF Return, Looking, TypeInv, TypeOK
    <3>2. CASE (Goto(s, "sent") \/ Goto(s, "answer")) /\ UNCHANGED <<target, seen>>
      BY <3>2 DEF Goto, Looking, TypeInv, TypeOK
    <3> QED
      BY <1>4, <3>1, <3>2 DEF WritePost, RemovePost, Handle, Answer, Lose
  <2> QED
    BY <2>1, <2>2, NoLookKeepsChildInv
<1>5. ASSUME NEW s \in Session, QueryComments(s) PROVE ChildInv'
  <2>1. PICK found \in SUBSET ChildrenOf(target[s], "comments") :
           /\ seen' = [seen EXCEPT ![s] = found]
           /\ missed' = missed \union (ChildrenOf(target[s], "comments") \ found)
    BY <1>5 DEF QueryComments, Query
  <2>2. /\ UNCHANGED <<children, target>> /\ pc'[s] = "commitComments" /\ seen'[s] = found
        /\ \A t \in Session \ {s} : pc'[t] = pc[t] /\ seen'[t] = seen[t]
    BY <1>5, <2>1 DEF QueryComments, Query, Goto, TypeInv, TypeOK, storageVars
  <2>3. ASSUME NEW c \in children' \ missed' PROVE Attended(c)'
    <3>1. c \in children \ missed
      BY <2>1, <2>2
    <3>2. c.post = target[s] /\ c.in = "comments" => c \in found
      BY <2>1, <2>2 DEF ChildrenOf
    <3> QED
      BY <1>a, <2>2, <3>1, <3>2 DEF Attended
  <2>4. children' \ missed' \subseteq children \ missed
    BY <2>1, <2>2
  <2> QED
    BY <2>3, <2>4, AttendedKeepsChildInv
<1>6. ASSUME NEW s \in Session, CommitComments(s) PROVE ChildInv'
  <2>1. /\ UNCHANGED target /\ pc[s] = "commitComments" /\ pc'[s] = "likes"
        /\ children' = children \ seen[s] /\ missed' = missed \ seen[s]
        /\ \A t \in Session \ {s} : pc'[t] = pc[t] /\ seen'[t] = seen[t]
    BY <1>6 DEF CommitComments, Commit, Goto, TypeInv, TypeOK
  <2>2. ASSUME NEW c \in children' \ missed' PROVE Attended(c)'
    <3>1. c \in children \ missed /\ c \notin seen[s]
      BY <2>1
    <3> QED
      BY <1>a, <2>1, <3>1 DEF Attended
  <2>3. children' \ missed' \subseteq children \ missed
    BY <2>1
  <2> QED
    BY <2>2, <2>3, AttendedKeepsChildInv
<1>7. ASSUME NEW s \in Session, QueryLikes(s) PROVE ChildInv'
  <2>1. PICK found \in SUBSET ChildrenOf(target[s], "likes") :
           /\ seen' = [seen EXCEPT ![s] = found]
           /\ missed' = missed \union (ChildrenOf(target[s], "likes") \ found)
    BY <1>7 DEF QueryLikes, Query
  <2>2. /\ UNCHANGED <<children, target>> /\ pc[s] = "likes" /\ pc'[s] = "commitLikes"
        /\ seen'[s] = found
        /\ \A t \in Session \ {s} : pc'[t] = pc[t] /\ seen'[t] = seen[t]
    BY <1>7, <2>1 DEF QueryLikes, Query, Goto, TypeInv, TypeOK, storageVars
  <2>3. ASSUME NEW c \in children' \ missed' PROVE Attended(c)'
    <3>1. c \in children \ missed
      BY <2>1, <2>2
    <3>2. c.post = target[s] /\ c.in = "likes" => c \in found
      BY <2>1, <2>2 DEF ChildrenOf
    <3> QED
      BY <1>a, <2>2, <3>1, <3>2 DEF Attended
  <2>4. children' \ missed' \subseteq children \ missed
    BY <2>1, <2>2
  <2> QED
    BY <2>3, <2>4, AttendedKeepsChildInv
<1>8. ASSUME NEW s \in Session, CommitLikes(s) PROVE ChildInv'
  <2>1. /\ UNCHANGED target /\ pc[s] = "commitLikes" /\ pc'[s] = "remove"
        /\ children' = children \ seen[s] /\ missed' = missed \ seen[s]
        /\ \A t \in Session \ {s} : pc'[t] = pc[t] /\ seen'[t] = seen[t]
    BY <1>8 DEF CommitLikes, Commit, Goto, TypeInv, TypeOK
  <2>2. ASSUME NEW c \in children' \ missed' PROVE Attended(c)'
    <3>1. c \in children \ missed /\ c \notin seen[s]
      BY <2>1
    <3>2. c.post # target[s]
      BY <1>a, <2>1, <3>1 DEF Attended
    <3> QED
      BY <1>a, <2>1, <3>1, <3>2 DEF Attended
  <2>3. children' \ missed' \subseteq children \ missed
    BY <2>1
  <2> QED
    BY <2>2, <2>3, AttendedKeepsChildInv
<1>9. ASSUME NEW c \in Child, AddChild(c) PROVE ChildInv'
  <2>1. /\ UNCHANGED <<posts, gone, copies, pc, mode, target, media, seen>>
        /\ children' = children \union {c}
        /\ missed' = IF Looked(c.post, c.in) THEN missed \union {c} ELSE missed \ {c}
    BY <1>9 DEF AddChild, sessionVars
  <2>2. Outstanding' = Outstanding /\ \A d : Attended(d)' <=> Attended(d)
    BY <2>1 DEF Outstanding, WriteOf, Attended
  <2>3. CASE Looked(c.post, c.in)
    <3>1. children' \ missed' \subseteq children \ missed
      BY <2>1, <2>3
    <3> QED
      BY <2>1, <2>2, <3>1 DEF ChildInv, Alive
  <2>4. CASE ~Looked(c.post, c.in)
    <3>1. children' \ missed' = (children \ missed) \union {c}
      BY <1>9, <2>1, <2>4 DEF AddChild
    <3>2. /\ c.post \in gone => Alive(c.post)
          /\ \A w \in Outstanding : w.op = "delete" => w.post # c.post
      BY <2>4 DEF Looked
    <3>3. Attended(c)
      BY <2>4 DEF Looked, Attended
    <3> QED
      BY <2>1, <2>2, <3>1, <3>2, <3>3 DEF ChildInv, Alive
  <2> QED
    BY <2>3, <2>4
<1>10. ASSUME NEW c \in Child, RemoveChild(c) PROVE ChildInv'
  BY <1>10, NoLookKeepsChildInv DEF RemoveChild, sessionVars, historyVars
<1>11. ASSUME NEW w \in copies, HandleCopy(w) PROVE ChildInv'
  BY <1>11, NoLookKeepsChildInv DEF HandleCopy, sessionVars
<1>12. CASE UNCHANGED vars
  BY <1>12, NoLookKeepsChildInv DEF vars, storageVars, sessionVars, historyVars
<1> QED
  BY <1>1, <1>2, <1>3, <1>4, <1>5, <1>6, <1>7, <1>8, <1>9, <1>10, <1>11, <1>12
  DEF Next, RunStep, FaultStep

\* OrphanChildWasMissed: deletePost leaves behind no comment or like but those its
\* queries could not return, whatever other calls, late writes and users do.
THEOREM OrphansWereMissed == Spec => []OrphanChildWasMissed
<1>1. Init => ChildInv
  BY DEF Init, ChildInv
<1>2. ChildInv => OrphanChildWasMissed
  BY DEF ChildInv, OrphanChildWasMissed
<1> QED
  BY <1>1, <1>2, StepChildInv, FileInvariant, PTL DEF Spec

----------------------------------------------------------------------------
(* Files nothing names.                                                     *)

NamedByPost(o) == \E p \in Post : Alive(p) /\ o \in Objects(posts[p])
HeldByCall(o) == \E s \in Session : o \in Objects(media[s])

\* The add of p with these lists has not reached the server for the first time.
Unsent(p, v) ==
    \E s \in Session : pc[s] = "sent" /\ mode[s] # "delete" /\ target[s] = p /\ media[s] = v

Alone(v) == Objects(v) \intersect store = {}

\* Why NoOrphanFiles holds: without an edit a post has one version, and its
\* document names it, or is about to, or none of its files is left; and a single
\* upload gives up a file only before it has put anything.
SingleInv ==
    \A s \in Session : mode[s] = "single" =>
         /\ pc[s] \in {"thumb", "orig"} => Len(files[s]) = 1
         /\ pc[s] = "thumb" => media[s] = NoMedia

OneVersion ==
    /\ \A s \in Session : mode[s] # "edit"
    /\ \A p \in Post : \A v, w \in versions[p] : v = w
    /\ \A p \in Post : \A v \in versions[p] : Alive(p) \/ Alone(v) \/ Unsent(p, v)

AllNamed == \A o \in store : NamedByPost(o) \/ HeldByCall(o)

OrphanInv == SingleInv /\ (disturbed = {} => OneVersion /\ AllNamed)

\* Of the version a waiting call has written, the document, the emptied bucket or
\* another call takes care.
LEMMA WrittenIsNamed ==
    ASSUME TypeInv, WriteInv, OneVersion, NEW s \in Session, pc[s] = "answer",
           NEW o \in Objects(media[s]) \intersect store
    PROVE  NamedByPost(o) \/ \E t \in Session \ {s} : o \in Objects(media[t])
<1>1. WriteOf(s) \in Outstanding
  BY OutstandingTypes DEF Waiting
<1>2. target[s] \in Post /\ media[s] \in versions[target[s]]
  BY <1>1 DEF WriteInv, WriteOf, TypeInv, TypeOK, Control
<1>3. CASE Alive(target[s])
  BY <1>2, <1>3 DEF OneVersion, WriteInv, CurrentIsVersion, NamedByPost
<1>4. CASE ~Alive(target[s])
  <2>1. Unsent(target[s], media[s])
    BY <1>2, <1>4 DEF OneVersion, Alone
  <2> QED
    BY <2>1 DEF Unsent
<1> QED
  BY <1>3, <1>4

\* A step of s that puts and writes nothing and that drops from no list an
\* object of the bucket that needs it.
LEMMA KeepingOrphanInv ==
    ASSUME TypeInv, FileInv, OrphanInv, [Next]_vars, NEW s \in Session, OthersKept(s),
           disturbed' = disturbed, store' \subseteq store, UNCHANGED <<posts, versions>>,
           disturbed = {} => mode'[s] # "edit",
           mode'[s] = "single" =>
              /\ pc'[s] \in {"thumb", "orig"} => Len(files'[s]) = 1
              /\ pc'[s] = "thumb" => media'[s] = NoMedia,
           pc[s] = "sent" => pc'[s] = "sent" /\ UNCHANGED <<mode, target, media>>,
           disturbed = {} => \A o \in Objects(media[s]) \intersect store' :
              \/ NamedByPost(o) \/ o \in Objects(media'[s])
              \/ \E t \in Session \ {s} : o \in Objects(media[t])
    PROVE  OrphanInv'
<1>1. SingleInv'
  BY DEF OrphanInv, SingleInv, OthersKept
<1>2. ASSUME disturbed' = {} PROVE OneVersion'
  <2>1. \A p \in Post : \A v : Unsent(p, v) => Unsent(p, v)'
    BY DEF Unsent, OthersKept
  <2>2. \A v : Alone(v) => Alone(v)'
    BY DEF Alone
  <2>3. \A t \in Session : mode'[t] # "edit"
    BY <1>2 DEF OrphanInv, OneVersion, OthersKept
  <2> QED
    BY <1>2, <2>1, <2>2, <2>3 DEF OrphanInv, OneVersion, Alive
<1>3. ASSUME disturbed' = {}, NEW o \in store' PROVE NamedByPost(o)' \/ HeldByCall(o)'
  <2>1. NamedByPost(o)' <=> NamedByPost(o)
    BY DEF NamedByPost, Alive
  <2>2. NamedByPost(o) \/ HeldByCall(o)
    BY <1>3 DEF OrphanInv, AllNamed
  <2>3. (\E t \in Session \ {s} : o \in Objects(media[t])) => HeldByCall(o)'
    BY DEF HeldByCall, OthersKept
  <2>4. CASE o \in Objects(media[s])
    <3>1. o \in Objects(media'[s]) => HeldByCall(o)'
      BY DEF HeldByCall
    <3> QED
      BY <1>3, <2>1, <2>3, <2>4, <3>1
  <2> QED
    BY <2>1, <2>2, <2>3, <2>4 DEF HeldByCall
<1> QED
  BY <1>1, <1>2, <1>3 DEF OrphanInv, AllNamed

\* A put lists what it puts.
LEMMA PutKeepsOrphanInv ==
    ASSUME TypeInv, FileInv, OrphanInv, NEW s \in Session, PutThumb(s) \/ PutOriginal(s)
    PROVE  OrphanInv'
<1> DEFINE n == Head(files[s])
<1>1. /\ OthersKept(s) /\ UNCHANGED <<posts, versions, mode, target, disturbed>>
      /\ pc'[s] # "thumb" \/ Len(files[s]) # 1
      /\ pc'[s] = "orig" => files'[s] = files[s] /\ pc[s] = "thumb"
      /\ pc[s] # "sent" /\ pc'[s] # "sent"
  <2>1. CASE PutThumb(s)
    BY <2>1 DEF PutThumb, Goto, OthersKept, TypeInv, TypeOK, historyVars
  <2>2. CASE PutOriginal(s)
    BY <2>2 DEF PutOriginal, NextFile, Goto, OthersKept, TypeInv, TypeOK, historyVars
  <2> QED
    BY <2>1, <2>2
<1>2. Builds(s) /\ n \in Work(s) /\ n \in Name /\ pc[s] \in {"thumb", "orig"}
  BY HeadIsWork DEF PutThumb, PutOriginal
<1>3. PICK o : /\ store' = store \union {o} /\ o[2] = n /\ o = <<o[1], o[2]>>
               /\ Objects(media'[s]) = Objects(media[s]) \union {o}
  <2>1. CASE PutThumb(s)
    <3>1. /\ media'[s].thumbs = Append(media[s].thumbs, n) /\ media'[s].origs = media[s].origs
          /\ store' = store \union {<<"thumbnails", n>>}
      BY <2>1 DEF PutThumb, TypeInv, TypeOK, Media
    <3>2. Range(media'[s].thumbs) = Range(media[s].thumbs) \union {n}
      BY <1>2, <3>1, RangeAppend DEF TypeInv, TypeOK, Media
    <3>3. Objects(media'[s]) = Objects(media[s]) \union {<<"thumbnails", n>>}
      BY <3>1, <3>2 DEF Objects
    <3> QED
      BY <3>1, <3>3
  <2>2. CASE PutOriginal(s)
    <3>1. /\ media'[s].origs = Append(media[s].origs, n) /\ media'[s].thumbs = media[s].thumbs
          /\ store' = store \union {<<"originals", n>>}
      BY <2>2 DEF PutOriginal, TypeInv, TypeOK, Media
    <3>2. Range(media'[s].origs) = Range(media[s].origs) \union {n}
      BY <1>2, <3>1, RangeAppend DEF TypeInv, TypeOK, Media
    <3>3. Objects(media'[s]) = Objects(media[s]) \union {<<"originals", n>>}
      BY <3>1, <3>2 DEF Objects
    <3> QED
      BY <3>1, <3>3
  <2> QED
    BY <2>1, <2>2
<1> HIDE DEF n
<1>4. \A p \in Post : \A v \in versions[p] : Alone(v) => Alone(v)'
  <2> SUFFICES ASSUME NEW p \in Post, NEW v \in versions[p], o \in Objects(v) PROVE FALSE
    BY <1>3 DEF Alone
  <2>1. v \in Media
    BY DEF TypeInv, TypeOK
  <2>2. n \in Names(v)
    BY <1>3, <2>1, NameOfObject
  <2> QED
    BY <1>2, <2>2 DEF FileInv, WorkUnpublished
<1>5. SingleInv'
  BY <1>1, <1>2 DEF OrphanInv, SingleInv, OthersKept
<1>6. ASSUME disturbed' = {}, NEW q \in store' PROVE NamedByPost(q)' \/ HeldByCall(q)'
  <2>1. NamedByPost(q)' <=> NamedByPost(q)
    BY <1>1 DEF NamedByPost, Alive
  <2>2. \A t \in Session : Objects(media[t]) \subseteq Objects(media'[t])
    BY <1>1, <1>3 DEF OthersKept
  <2> QED
    BY <1>1, <1>3, <1>6, <2>1, <2>2 DEF OrphanInv, AllNamed, HeldByCall
<1>7. ASSUME disturbed' = {} PROVE OneVersion'
  <2>1. \A p \in Post : \A v : Unsent(p, v) => Unsent(p, v)'
    BY <1>1 DEF Unsent, OthersKept
  <2> QED
    BY <1>1, <1>4, <1>7, <2>1 DEF OrphanInv, OneVersion, Alive
<1> QED
  BY <1>5, <1>6, <1>7 DEF OrphanInv, AllNamed

\* The write of an upload makes the first version of its post.
LEMMA WritePostKeepsOrphanInv ==
    ASSUME TypeInv, FileInv, WriteInv, UploadInv, OrphanInv, NEW s \in Session, WritePost(s)
    PROVE  OrphanInv'
<1>1. /\ UNCHANGED <<store, posts, mode, target, files, media, disturbed>>
      /\ pc'[s] = "sent" /\ \A t \in Session \ {s} : pc'[t] = pc[t]
  BY DEF WritePost, Goto, TypeInv, TypeOK, storageVars
<1>2. SingleInv'
  BY <1>1 DEF OrphanInv, SingleInv
<1>3. ASSUME disturbed' = {} PROVE AllNamed'
  BY <1>1, <1>3 DEF OrphanInv, AllNamed, NamedByPost, HeldByCall, Alive
<1>4. ASSUME disturbed' = {} PROVE OneVersion'
  <2>1. /\ target[s] \in Post /\ Builds(s) /\ mode[s] # "edit" /\ mode[s] # "delete"
    BY <1>1, <1>4, ZenonT(30) DEF WritePost, OrphanInv, OneVersion, TypeInv, TypeOK, Control, Builds, Building
  <2>2. versions[target[s]] = {}
    BY <2>1 DEF UploadInv, Published
  <2>3. /\ versions'[target[s]] = {media[s]}
        /\ \A p \in Post \ {target[s]} : versions'[p] = versions[p]
    BY <2>1, <2>2 DEF WritePost, TypeInv, TypeOK
  <2>4. Unsent(target[s], media[s])'
    BY <1>1, <2>1 DEF Unsent
  <2>5. \A p \in Post : \A v : Unsent(p, v) => Unsent(p, v)'
    BY <1>1 DEF Unsent
  <2>6. \A v : Alone(v)' <=> Alone(v)
    BY <1>1 DEF Alone
  <2>7. ASSUME NEW p \in Post, NEW v \in versions'[p] PROVE Alive(p)' \/ Alone(v)' \/ Unsent(p, v)'
    <3>1. CASE p = target[s]
      BY <1>1, <2>3, <2>4, <3>1
    <3>2. CASE p # target[s]
      BY <1>1, <1>4, <2>3, <2>5, <2>6, <3>2 DEF OrphanInv, OneVersion, Alive
    <3> QED
      BY <3>1, <3>2
  <2>8. \A p \in Post : \A v, w \in versions'[p] : v = w
    BY <1>1, <1>4, <2>3 DEF OrphanInv, OneVersion
  <2>9. \A t \in Session : mode'[t] # "edit"
    BY <1>1, <1>4 DEF OrphanInv, OneVersion
  <2> QED
    BY <2>7, <2>8, <2>9 DEF OneVersion
<1> QED
  BY <1>2, <1>3, <1>4 DEF OrphanInv

\* Handling a write: an add gives the document its only version, a deletion
\* removes one whose files are gone.
LEMMA HandlingKeepsOrphanInv ==
    ASSUME TypeInv, FileInv, WriteInv, OrphanInv, NEW w \in Outstanding, Apply(w),
           UNCHANGED <<store, versions, mode, target, files, media, disturbed>>,
           \A t \in Session : pc'[t] = pc[t]
                              \/ (pc[t] = "sent" /\ pc'[t] = "answer" /\ w = WriteOf(t))
    PROVE  OrphanInv'
<1>1. /\ w \in DocWrite /\ w.post \in Post /\ w.media \in versions[w.post]
      /\ w.op = "delete" => Alone(w.media)
  BY OutstandingTypes DEF WriteInv, Alone, DocWrite
<1>2. /\ \A p \in Post : p # w.post => posts'[p] = posts[p]
      /\ w.op = "add" => posts'[w.post] = w.media
      /\ w.op = "update" =>
            posts'[w.post] = IF Alive(w.post) THEN w.media ELSE posts[w.post]
      /\ w.op = "delete" => posts'[w.post] = NoDoc
      /\ w.op \in {"add", "update", "delete"} /\ w.media # NoDoc
  BY <1>1, ApplyFacts DEF TypeInv
<1>3. SingleInv'
  BY DEF OrphanInv, SingleInv
<1>4. ASSUME disturbed' = {} PROVE OneVersion'
  <2>1. ASSUME NEW p \in Post, NEW v \in versions[p]
        PROVE  Alive(p)' \/ Alone(v)' \/ Unsent(p, v)'
    <3>1. /\ Alive(p) \/ Alone(v) \/ Unsent(p, v)
          /\ \A u \in versions[p] : u = v
      BY <1>4 DEF OrphanInv, OneVersion
    <3>2. Alone(v)' <=> Alone(v)
      BY DEF Alone
    <3>3. CASE p = w.post /\ w.op = "delete"
      BY <1>1, <3>1, <3>2, <3>3
    <3>4. CASE Alive(p) /\ ~(p = w.post /\ w.op = "delete")
      BY <1>2, <3>4 DEF Alive
    <3>5. CASE Unsent(p, v)
      <4>1. PICK t \in Session : pc[t] = "sent" /\ mode[t] # "delete" /\ target[t] = p /\ media[t] = v
        BY <3>5 DEF Unsent
      <4>2. CASE pc'[t] = pc[t]
        BY <4>1, <4>2 DEF Unsent
      <4>3. CASE w = WriteOf(t)
        <5>1. w.op = "add" /\ w.post = p
          BY <1>4, <4>1, <4>3 DEF WriteOf, OrphanInv, OneVersion
        <5> QED
          BY <1>2, <5>1 DEF Alive
      <4> QED
        BY <4>2, <4>3
    <3> QED
      BY <3>1, <3>2, <3>3, <3>4, <3>5
  <2> QED
    BY <1>4, <2>1 DEF OrphanInv, OneVersion
<1>5. ASSUME disturbed' = {}, NEW o \in store' PROVE NamedByPost(o)' \/ HeldByCall(o)'
  <2>1. NamedByPost(o) \/ HeldByCall(o)
    BY <1>5 DEF OrphanInv, AllNamed
  <2>2. CASE HeldByCall(o)
    BY <2>2 DEF HeldByCall
  <2>3. CASE NamedByPost(o)
    <3>1. PICK p \in Post : Alive(p) /\ o \in Objects(posts[p])
      BY <2>3 DEF NamedByPost
    <3>2. CASE p # w.post
      BY <1>2, <3>1, <3>2 DEF NamedByPost, Alive
    <3>3. CASE p = w.post
      <4>1. posts[p] = w.media
        BY <1>1, <1>5, <3>1, <3>3 DEF OrphanInv, OneVersion, WriteInv, CurrentIsVersion
      <4>2. w.op # "delete"
        BY <1>1, <1>5, <3>1, <4>1 DEF Alone
      <4>3. posts'[p] = w.media
        BY <1>2, <3>1, <3>3, <4>2
      <4> QED
        BY <1>2, <3>1, <4>1, <4>3 DEF NamedByPost, Alive
    <3> QED
      BY <3>2, <3>3
  <2> QED
    BY <2>1, <2>2, <2>3
<1> QED
  BY <1>3, <1>4, <1>5 DEF OrphanInv, AllNamed

LEMMA StepOrphanInv ==
    TypeInv /\ FileInv /\ WriteInv /\ UploadInv /\ OrphanInv /\ [Next]_vars => OrphanInv'
<1> SUFFICES ASSUME TypeInv, FileInv, WriteInv, UploadInv, OrphanInv, [Next]_vars
             PROVE  OrphanInv'
  OBVIOUS
<1>a. disturbed = {} => \A s \in Session : mode[s] # "edit"
  BY DEF OrphanInv, OneVersion
<1>1. ASSUME NEW s \in Session, NEW p \in Post, NEW m \in {"single", "multi"},
             NEW n \in 1..MaxFiles, NEW names \in FreshNames(n), StartUpload(s, p, m, names)
      PROVE  OrphanInv'
  <2>1. /\ OthersKept(s) /\ media' = media /\ mode'[s] = m /\ files'[s] = names
        /\ UNCHANGED <<store, posts, versions, disturbed>>
    BY <1>1 DEF StartUpload, Begin, OthersKept, TypeInv, TypeOK, storageVars
  <2>2. pc[s] = "idle" /\ media[s] = NoMedia
    BY <1>1 DEF StartUpload, Begin, FileInv, IdleHasNoMedia
  <2>3. m = "single" => Len(names) = 1
    BY <1>1 DEF StartUpload
  <2> QED
    BY <2>1, <2>2, <2>3, KeepingOrphanInv
<1>2. ASSUME NEW s \in Session, NEW p \in Post, NEW n \in 0..MaxFiles,
             NEW names \in FreshNames(n), StartEdit(s, p, names)
      PROVE  OrphanInv'
  <2>1. disturbed' # {} /\ OthersKept(s) /\ mode'[s] = "edit"
    BY <1>2 DEF StartEdit, Begin, OthersKept, TypeInv, TypeOK
  <2> QED
    BY <2>1 DEF OrphanInv, SingleInv, OthersKept
<1>3. ASSUME NEW s \in Session, NEW p \in Post, NEW v \in versions[p], StartDelete(s, p, v)
      PROVE  OrphanInv'
  <2>1. /\ OthersKept(s) /\ mode'[s] = "delete" /\ pc[s] = "idle"
        /\ UNCHANGED <<store, posts, versions, disturbed>>
    BY <1>3 DEF StartDelete, Begin, OthersKept, TypeInv, TypeOK, storageVars
  <2>2. Objects(media[s]) = {}
    BY <2>1, NoMediaHasNoFiles DEF FileInv, IdleHasNoMedia
  <2> QED
    BY <2>1, <2>2, KeepingOrphanInv
<1>4. ASSUME NEW s \in Session, SkipFile(s) PROVE OrphanInv'
  <2>1. UNCHANGED <<store, posts, versions, disturbed>> /\ pc[s] = "thumb"
    BY <1>4 DEF SkipFile, storageVars, historyVars
  <2>2. CASE mode[s] = "single"
    <3>1. OthersKept(s) /\ mode'[s] = "idle"
      BY <1>4, <2>2 DEF SkipFile, Return, OthersKept, TypeInv, TypeOK
    <3>2. Objects(media[s]) = {}
      BY <2>1, <2>2, NoMediaHasNoFiles DEF OrphanInv, SingleInv
    <3> QED
      BY <2>1, <3>1, <3>2, KeepingOrphanInv
  <2>3. CASE mode[s] # "single"
    <3>1. OthersKept(s) /\ mode' = mode /\ media' = media
      BY <1>4, <2>3 DEF SkipFile, NextFile, Goto, OthersKept, TypeInv, TypeOK
    <3> QED
      BY <1>a, <2>1, <2>3, <3>1, KeepingOrphanInv
  <2> QED
    BY <2>2, <2>3
<1>5. ASSUME NEW s \in Session, PutError(s) \/ DeleteError(s) \/ Kill(s) PROVE OrphanInv'
  <2>1. disturbed' # {}
    BY <1>5 DEF PutError, DeleteError, Kill, Fault
  <2>2. OthersKept(s)
    BY <1>5 DEF PutError, DeleteError, Kill, NextFile, Goto, Return, OthersKept, TypeInv, TypeOK
  <2>3. mode'[s] # "single"
    BY <1>5 DEF PutError, DeleteError, Kill, Return, TypeInv, TypeOK
  <2> QED
    BY <2>1, <2>2, <2>3 DEF OrphanInv, SingleInv, OthersKept
<1>6. ASSUME NEW s \in Session, DeleteObject(s) PROVE OrphanInv'
  <2>1. UNCHANGED <<posts, versions, disturbed>> /\ Deletes(s) /\ pc[s] = "delete"
    BY <1>6 DEF DeleteObject, historyVars, Deletes, Deleting
  <2>2. CASE Head(todo[s]) \in store
    <3>1. /\ OthersKept(s) /\ mode' = mode /\ media' = media /\ store' \subseteq store
          /\ pc'[s] \in {"delete", "comments"}
      BY <1>6, <2>2 DEF DeleteObject, Goto, OthersKept, TypeInv, TypeOK
    <3> QED
      BY <1>a, <2>1, <3>1, KeepingOrphanInv
  <2>3. CASE Head(todo[s]) \notin store
    <3>1. OthersKept(s) /\ mode'[s] = "idle" /\ store' = store
      BY <1>6, <2>3 DEF DeleteObject, Return, OthersKept, TypeInv, TypeOK
    <3>2. target[s] \in Post /\ media[s] \in versions[target[s]]
      BY <2>1 DEF FileInv, DeleteProgress, TypeInv, TypeOK, Control, Deletes, Deleting
    <3>3. ASSUME disturbed = {}, NEW o \in Objects(media[s]) \intersect store
          PROVE  NamedByPost(o) \/ \E t \in Session \ {s} : o \in Objects(media[t])
      <4>1. CASE Alive(target[s])
        BY <3>2, <3>3, <4>1 DEF OrphanInv, OneVersion, WriteInv, CurrentIsVersion, NamedByPost
      <4>2. CASE Unsent(target[s], media[s])
        BY <2>1, <3>3, <4>2 DEF Unsent
      <4> QED
        BY <3>2, <3>3, <4>1, <4>2 DEF OrphanInv, OneVersion, Alone
    <3> QED
      BY <2>1, <3>1, <3>3, KeepingOrphanInv
  <2> QED
    BY <2>2, <2>3
<1>7. ASSUME NEW s \in Session,
             QueryComments(s) \/ CommitComments(s) \/ QueryLikes(s) \/ CommitLikes(s)
      PROVE  OrphanInv'
  <2>1. /\ OthersKept(s) /\ mode' = mode /\ media' = media
        /\ UNCHANGED <<store, posts, versions, disturbed>>
        /\ pc'[s] \notin {"thumb", "orig"} /\ pc[s] # "sent"
    BY <1>7 DEF QueryComments, CommitComments, QueryLikes, CommitLikes, Query, Commit, Goto,
       OthersKept, TypeInv, TypeOK, storageVars, historyVars
  <2> QED
    BY <1>a, <2>1, KeepingOrphanInv
<1>8. ASSUME NEW s \in Session, RemovePost(s) PROVE OrphanInv'
  <2>1. UNCHANGED <<store, posts, versions, disturbed>> /\ pc[s] = "remove"
    BY <1>8 DEF RemovePost, storageVars, historyVars
  <2>2. Objects(media[s]) \intersect store = {}
    BY <2>1, NothingLeftAtRemoval
  <2>3. OthersKept(s) /\ mode'[s] \in {"idle", mode[s]} /\ pc'[s] \notin {"thumb", "orig"}
    BY <1>8 DEF RemovePost, Goto, Return, OthersKept, TypeInv, TypeOK
  <2> QED
    BY <1>a, <2>1, <2>2, <2>3, KeepingOrphanInv
<1>9. ASSUME NEW s \in Session, Handle(s) PROVE OrphanInv'
  <2>1. /\ Apply(WriteOf(s)) /\ pc[s] = "sent" /\ pc'[s] = "answer"
        /\ UNCHANGED <<store, versions, mode, target, files, media, disturbed>>
        /\ \A t \in Session \ {s} : pc'[t] = pc[t]
    BY <1>9 DEF Handle, Goto, TypeInv, TypeOK
  <2>2. WriteOf(s) \in Outstanding
    BY <2>1, OutstandingTypes DEF Waiting
  <2>3. PICK w \in Outstanding : w = WriteOf(s)
    BY <2>2
  <2> QED
    BY <2>1, <2>3, HandlingKeepsOrphanInv
<1>10. ASSUME NEW w \in copies, HandleCopy(w) PROVE OrphanInv'
  <2>1. w \in Outstanding
    BY DEF Outstanding
  <2>2. Apply(w) /\ UNCHANGED <<store, versions, pc, mode, target, files, media, disturbed>>
    BY <1>10 DEF HandleCopy, sessionVars
  <2> QED
    BY <2>1, <2>2, HandlingKeepsOrphanInv
<1>11. ASSUME NEW s \in Session, Answer(s) PROVE OrphanInv'
  <2>1. /\ OthersKept(s) /\ mode'[s] = "idle" /\ pc[s] = "answer"
        /\ UNCHANGED <<store, posts, versions, disturbed>>
    BY <1>11 DEF Answer, Return, OthersKept, TypeInv, TypeOK, storageVars, historyVars
  <2>2. disturbed = {} => \A o \in Objects(media[s]) \intersect store :
           NamedByPost(o) \/ \E t \in Session \ {s} : o \in Objects(media[t])
    BY <2>1, WrittenIsNamed DEF OrphanInv
  <2> QED
    BY <2>1, <2>2, KeepingOrphanInv
<1>12. ASSUME NEW s \in Session, Lose(s) PROVE OrphanInv'
  <2>1. /\ OthersKept(s) /\ pc'[s] = "sent" /\ UNCHANGED <<mode, target, media>>
        /\ UNCHANGED <<store, posts, versions, disturbed>>
    BY <1>12 DEF Lose, Goto, OthersKept, TypeInv, TypeOK, historyVars
  <2> QED
    BY <1>a, <2>1, KeepingOrphanInv
<1>13. CASE UNCHANGED <<store, posts, sessionVars, versions, disturbed>>
  BY <1>13 DEF sessionVars, OrphanInv, SingleInv, OneVersion, AllNamed, NamedByPost, HeldByCall,
     Unsent, Alone, Alive
<1> QED
  BY <1>1, <1>2, <1>3, <1>4, <1>5, <1>6, <1>7, <1>8, <1>9, <1>10, <1>11, <1>12, <1>13,
     PutKeepsOrphanInv, WritePostKeepsOrphanInv
  DEF Next, StartStep, RunStep, FaultStep, AddChild, RemoveChild, vars, storageVars, historyVars

\* NoOrphanFiles: without a fault and without an edit, no interleaving of uploads,
\* deletions and repeated writes leaves a file that no document names and no call
\* still holds.
THEOREM NoFileIsOrphaned == Spec => []NoOrphanFiles
<1>1. Init => OrphanInv
  BY DEF Init, OrphanInv, SingleInv, OneVersion, AllNamed
<1>2. OrphanInv => NoOrphanFiles
  BY DEF OrphanInv, AllNamed, NoOrphanFiles, NamedByPost, HeldByCall
<1> QED
  BY <1>1, <1>2, StepOrphanInv, WriteInvariant, UploadInvariant, PTL DEF Spec

----------------------------------------------------------------------------
(* Posts that cannot be deleted any more.                                   *)

\* A deletePost that still has to meet an object that is gone.
WillFail(s) == pc[s] = "delete" /\ ~(Range(todo[s]) \subseteq store)

\* A deletePost of a stuck post, begun before the step or in it, will fail.
LEMMA DeleteOfStuckFails ==
    ASSUME TypeInv, FileInv, NEW p \in Post, Stuck(p), NEW s \in Session,
           StartStep(s) \/ RunStep(s) \/ FaultStep(s), target'[s] = p, pc'[s] \in Deleting
    PROVE  WillFail(s)'
<1>1. CASE StartStep(s)
  <2>1. PICK q \in Post : \E v \in versions[q] : StartDelete(s, q, v)
    BY <1>1 DEF StartStep, StartUpload, StartEdit, Begin, Deleting, TypeInv, TypeOK
  <2>2. PICK v \in versions[q] : StartDelete(s, q, v)
    BY <2>1
  <2>3. /\ target'[s] = q /\ todo'[s] = DeleteList(v) /\ store' = store
        /\ pc'[s] = IF DeleteList(v) = <<>> THEN "comments" ELSE "delete"
    BY <2>2 DEF StartDelete, Begin, TypeInv, TypeOK, storageVars
  <2>4. Range(DeleteList(v)) = Objects(v)
    BY DeleteListIsObjects DEF TypeInv, TypeOK
  <2>5. ~(Objects(v) \subseteq store)
    BY <2>3 DEF Stuck
  <2> QED
    BY <2>3, <2>4, <2>5, RangeEmpty DEF WillFail
<1>2. CASE DeleteObject(s)
  <2>1. /\ Head(todo[s]) \in store /\ store' = store \ {Head(todo[s])}
        /\ todo'[s] = Tail(todo[s]) /\ target[s] = p /\ pc[s] = "delete"
        /\ pc'[s] = IF Len(todo[s]) = 1 THEN "comments" ELSE "delete"
    BY <1>2 DEF DeleteObject, Goto, Return, Deleting, TypeInv, TypeOK
  <2>2. ~(Range(todo[s]) \subseteq store)
    BY <2>1 DEF Stuck, Deleting
  <2>3. /\ Range(todo[s]) = {Head(todo[s])} \union Range(Tail(todo[s]))
        /\ Len(todo[s]) = 1 => Tail(todo[s]) = <<>>
    BY <2>1, RangeHeadTail DEF TypeInv, TypeOK, Control
  <2>4. PICK o \in Range(Tail(todo[s])) : o \notin store
    BY <2>1, <2>2, <2>3
  <2> QED
    BY <2>1, <2>3, <2>4, RangeEmpty DEF WillFail
<1>3. CASE QueryComments(s) \/ CommitComments(s) \/ QueryLikes(s) \/ CommitLikes(s)
  <2>1. target[s] = p /\ pc[s] \in Deleting /\ pc[s] # "delete"
    BY <1>3 DEF QueryComments, CommitComments, QueryLikes, CommitLikes, Query, Commit, Deleting
  <2> QED
    BY <2>1 DEF Stuck
<1>4. CASE SkipFile(s) \/ PutThumb(s) \/ PutOriginal(s) \/ PutError(s)
  BY <1>4, ZenonT(30) DEF SkipFile, PutThumb, PutOriginal, PutError, NextFile, Goto, Return, Deleting,
     TypeInv, TypeOK
<1>5. CASE WritePost(s) \/ RemovePost(s) \/ Handle(s) \/ Answer(s) \/ Lose(s)
  BY <1>5 DEF WritePost, RemovePost, Handle, Answer, Lose, Goto, Return, Deleting, TypeInv, TypeOK
<1>6. CASE DeleteError(s) \/ Kill(s)
  BY <1>6 DEF DeleteError, Kill, Return, Deleting, TypeInv, TypeOK
<1> QED
  BY <1>1, <1>2, <1>3, <1>4, <1>5, <1>6 DEF RunStep, FaultStep

\* A deletePost under way that will fail still will after a step of another call.
LEMMA FailingStaysFailing ==
    ASSUME TypeInv, FileInv, [Next]_vars, NEW p \in Post, Stuck(p),
           NEW t \in Session, target[t] = p, Deletes(t),
           pc'[t] = pc[t], todo'[t] = todo[t]
    PROVE  WillFail(t)'
<1>1. pc[t] = "delete" /\ ~(Range(todo[t]) \subseteq store)
  BY DEF Stuck, Deletes
<1>2. PICK o \in Range(todo[t]) : o \notin store
  BY <1>1
<1>3. media[t] \in versions[p] /\ o \in Objects(media[t])
  BY DEF FileInv, DeleteProgress
<1>4. o \notin store'
  BY <1>2, <1>3, LostStaysLost
<1> QED
  BY <1>1, <1>2, <1>4 DEF WillFail

\* OnlyAnEditUnsticks: a post that has lost a file of every version stays, and
\* every deletePost of it fails, until an edit gives it a version of new files.
THEOREM StuckPostsStay == Spec => OnlyAnEditUnsticks
<1>1. TypeInv /\ FileInv /\ [Next]_vars =>
        [\A p \in Post : Stuck(p) /\ versions'[p] = versions[p] => Stuck(p)']_vars
  <2> SUFFICES ASSUME TypeInv, FileInv, [Next]_vars,
                      NEW p \in Post, Stuck(p), versions'[p] = versions[p]
               PROVE  Stuck(p)'
    OBVIOUS
  <2>1. posts'[p] # NoDoc
    <3>1. ASSUME NEW w \in Outstanding, Apply(w) PROVE posts'[p] # NoDoc
      <4>1. w \in DocWrite
        BY OutstandingTypes
      <4>2. w.post = p => w.op # "delete"
        BY DEF Stuck
      <4>3. posts[p] # NoDoc
        BY DEF Stuck, Alive
      <4> QED
        BY <3>1, <4>1, <4>2, <4>3, ApplyFacts DEF TypeInv, Alive
    <3> QED
      BY <3>1, StepHandles DEF Handled, Stuck, Alive
  <2>2. ASSUME NEW v \in versions[p] PROVE ~(Objects(v) \subseteq store')
    <3>1. PICK o \in Objects(v) : o \notin store
      BY DEF Stuck
    <3>2. o \notin store'
      BY <3>1, LostStaysLost
    <3> QED
      BY <3>2
  <2>3. ASSUME NEW w \in Outstanding', w.post = p, w.op = "delete" PROVE FALSE
    <3>1. w \notin Outstanding
      BY <2>3 DEF Stuck
    <3>2. PICK s \in Session : RemovePost(s) /\ target[s] = p
      BY <2>3, <3>1, StepDeletions
    <3> QED
      BY <3>2 DEF RemovePost, Stuck, Deleting
  <2>4. ASSUME NEW t \in Session, target'[t] = p, pc'[t] \in Deleting PROVE WillFail(t)'
    <3>1. ASSUME NEW s \in Session, StartStep(s) \/ RunStep(s) \/ FaultStep(s) PROVE WillFail(t)'
      <4>1. CASE t = s
        BY <2>4, <3>1, <4>1, DeleteOfStuckFails
      <4>2. CASE t # s
        <5>1. OthersKept(s)
          <6>1. WritePost(s) => OthersKept(s)
            BY DEF WritePost, Goto, OthersKept, TypeInv, TypeOK
          <6> QED
            BY <3>1, <6>1, SessionFrame DEF FileFrame
        <5>2. target[t] = p /\ Deletes(t) /\ pc'[t] = pc[t] /\ todo'[t] = todo[t]
          BY <2>4, <4>2, <5>1 DEF OthersKept, Deletes
        <5> QED
          BY <5>2, FailingStaysFailing
      <4> QED
        BY <4>1, <4>2
    <3>2. CASE UNCHANGED <<pc, target, todo>>
      BY <2>4, <3>2, FailingStaysFailing DEF Deletes
    <3> QED
      BY <3>1, <3>2 DEF Next, AddChild, RemoveChild, HandleCopy, sessionVars, vars
  <2> QED
    BY <2>1, <2>2, <2>3, <2>4 DEF Stuck, WillFail, Alive
<1> QED
  BY <1>1, FileInvariant, PTL DEF Spec, OnlyAnEditUnsticks
============================================================================
