-------------------------- MODULE LikeToggle_proofs --------------------------
(***************************************************************************)
(* Theorems about LikeToggle, for any users, devices and taps.              *)
(***************************************************************************)
EXTENDS LikeToggle, SequenceTheorems, TLAPS

----------------------------------------------------------------------------
(* Mutation queues.                                                         *)

Elements(q) == {q[i] : i \in DOMAIN q}

\* A tap waits for one write at a time, so a queue names it once.
OncePerTap(q) == \A i, j \in DOMAIN q : q[i].tap = q[j].tap => i = j

LEMMA AppendedQueue ==
  ASSUME NEW q \in Seq(Write), NEW w \in Write, OncePerTap(q),
         \A v \in Elements(q) : v.tap # w.tap
  PROVE  /\ Append(q, w) \in Seq(Write) /\ Append(q, w) # <<>>
         /\ Elements(Append(q, w)) = Elements(q) \union {w}
         /\ OncePerTap(Append(q, w))
<1> DEFINE r == Append(q, w)
<1>1. /\ r \in Seq(Write) /\ Len(r) = Len(q) + 1 /\ DOMAIN r = 1..(Len(q) + 1)
      /\ DOMAIN q = 1..Len(q) /\ Len(q) \in Nat
      /\ \A i \in 1..Len(q) : r[i] = q[i]
      /\ r[Len(q) + 1] = w
  BY AppendProperties
<1>2. r # <<>>
  BY <1>1
<1>3. Elements(r) = Elements(q) \union {w}
  BY <1>1 DEF Elements
<1>4. OncePerTap(r)
  BY <1>1 DEF OncePerTap, Elements
<1> QED
  BY <1>1, <1>2, <1>3, <1>4

LEMMA ShortenedQueue ==
  ASSUME NEW q \in Seq(Write), q # <<>>, OncePerTap(q)
  PROVE  /\ Head(q) \in Elements(q) /\ Head(q) \in Write
         /\ Tail(q) \in Seq(Write) /\ OncePerTap(Tail(q))
         /\ Elements(Tail(q)) = Elements(q) \ {Head(q)}
         /\ \A v \in Elements(Tail(q)) : v.tap # Head(q).tap
<1> DEFINE r == Tail(q)
<1>1. /\ r \in Seq(Write) /\ Len(r) = Len(q) - 1 /\ Len(q) \in Nat \ {0}
      /\ DOMAIN q = 1..Len(q) /\ DOMAIN r = 1..(Len(q) - 1)
      /\ \A i \in 1..(Len(q) - 1) : r[i] = q[i + 1]
      /\ Head(q) = q[1]
  BY HeadTailProperties
<1>2. Head(q) \in Elements(q) /\ Head(q) \in Write
  BY <1>1 DEF Elements
<1>3. OncePerTap(r)
  BY <1>1 DEF OncePerTap
<1>4. \A v \in Elements(r) : v \in Elements(q) /\ v.tap # Head(q).tap
  BY <1>1 DEF Elements, OncePerTap
<1>5. \A v \in Elements(q) \ {Head(q)} : v \in Elements(r)
  <2> SUFFICES ASSUME NEW i \in 1..Len(q), q[i] # Head(q) PROVE q[i] \in Elements(r)
    BY <1>1 DEF Elements
  <2>1. i - 1 \in 1..(Len(q) - 1) /\ r[i - 1] = q[i]
    BY <1>1
  <2> QED
    BY <1>1, <2>1 DEF Elements
<1> QED
  BY <1>1, <1>2, <1>3, <1>4, <1>5

LEMMA EmptyQueue ==
  ASSUME NEW q \in Seq(Write) PROVE q = <<>> <=> Elements(q) = {}
<1>1. DOMAIN q = 1..Len(q) /\ Len(q) \in Nat
  OBVIOUS
<1>2. q = <<>> <=> Len(q) = 0
  BY EmptySeq
<1>3. Len(q) = 0 <=> 1..Len(q) = {}
  <2>1. Len(q) # 0 => 1 \in 1..Len(q)
    BY <1>1
  <2> QED
    BY <1>1, <2>1
<1> QED
  BY <1>1, <1>2, <1>3 DEF Elements

----------------------------------------------------------------------------
(* The inductive invariant.                                                 *)

\* A queued write is of the device's user, made by a tap on that device, and
\* while that tap runs it is the one it waits for.
QueuedByTaps ==
    \A d \in Device :
        /\ OncePerTap(queue[d])
        /\ \A w \in Queued(d) :
              /\ at[w.tap] = d /\ By(w.doc) = Owner[d]
              /\ pc[w.tap] \in {"write", "over"}
              /\ w.op = "add" => w.doc = w.tap
              /\ Runs(w.tap) => IF w.op = "add" THEN found[w.tap] = {}
                                ELSE w.doc \in found[w.tap]

FoundIsOwn ==
    \A t \in Tap : /\ pc[t] # "write" => found[t] = {}
                   /\ \A l \in found[t] : By(l) = By(t)

\* The document of a tap that has not read yet is nowhere.
NotBeforeRead ==
    \A t \in Tap : pc[t] \in {"new", "get"} =>
        /\ t \notin known
        /\ \A s \in Tap : t \notin found[s]
        /\ \A d \in Device : \A w \in Queued(d) : w.doc # t
        /\ \A w \in late : w.doc # t

\* A tap in alone runs, no other tap of its user does or has left a write,
\* and all its user has is before it.
AloneIsAlone ==
    \A t \in alone :
        /\ Runs(t)
        /\ \A s \in Tap : Runs(s) /\ By(s) = By(t) => s = t
        /\ \A d \in Device : Owner[d] = By(t) => \A w \in Queued(d) : w.tap = t
        /\ pc[t] = "write" => LikesOf(By(t)) \subseteq IF found[t] = {} THEN {t} ELSE found[t]

\* A user of whom something is promised has one tap running, and that one
\* alone, and one write queued, and that one about his only document.
CalmIsCalm ==
    \A u \in User \ astray :
        /\ \A t \in Running(u) : t \in alone
        /\ \A d, e \in Device : Owner[d] = u /\ Owner[e] = u =>
              \A v \in Queued(d), w \in Queued(e) : v = w
        /\ \A d \in Device : Owner[d] = u => \A w \in Queued(d) :
              /\ LikesOf(u) \subseteq {w.doc}
              /\ Runs(w.tap) => found[w.tap] \subseteq {w.doc}

LikeInv ==
    /\ TypeOK /\ QueuedByTaps /\ FoundIsOwn /\ NotBeforeRead /\ AloneIsAlone /\ CalmIsCalm
    /\ OneLikePerUser

LEMMA InitLikeInv == Init => LikeInv
<1> SUFFICES ASSUME Init PROVE LikeInv
  OBVIOUS
<1>1. \A d \in Device : Queued(d) = {} /\ queue[d] = <<>>
  BY DEF Init, Queued
<1>2. TypeOK
  BY DEF Init, TypeOK
<1>3. QueuedByTaps
  BY <1>1 DEF QueuedByTaps, OncePerTap
<1> QED
  BY <1>1, <1>2, <1>3
     DEF Init, LikeInv, FoundIsOwn, NotBeforeRead, AloneIsAlone, CalmIsCalm, Running, Runs,
         OneLikePerUser, LikesOf

LEMMA QueuedAreWrites ==
  ASSUME TypeOK, NEW d \in Device, NEW w \in Queued(d)
  PROVE  w \in Write /\ w.tap \in Tap /\ w.doc \in Tap /\ w.op \in {"add", "delete"}
<1>1. queue[d] \in Seq(Write)
  BY DEF TypeOK
<1>2. PICK i \in DOMAIN queue[d] : w = queue[d][i]
  BY DEF Queued
<1>3. w \in Write
  BY <1>1, <1>2
<1> QED
  BY <1>3 DEF Write

LEMMA OneQueueChanges ==
  ASSUME NEW d \in Device, \A e \in Device : e # d => queue'[e] = queue[e]
  PROVE  \A e \in Device :
            Queued(e)' = IF e = d THEN {queue'[d][i] : i \in DOMAIN queue'[d]} ELSE Queued(e)
BY DEF Queued

\* Nothing but the taps' own variables matters in an unsettled user.
LEMMA UnsettledIs ==
  ASSUME LikeInv, NEW u \in User
  PROVE  Unsettled(u) <=> \/ Running(u) # {}
                          \/ \E d \in Device : Owner[d] = u /\ Queued(d) # {}
<1>1. \A d \in Device : queue[d] = <<>> <=> Queued(d) = {}
  BY EmptyQueue DEF LikeInv, TypeOK, Queued, Elements
<1> QED
  BY <1>1 DEF Unsettled

\* The history variables after a user has left the promise.
LEMMA StraysAlone ==
  ASSUME LikeInv, NEW u \in User, Strays(u)
  PROVE  /\ astray' \subseteq User /\ alone' \subseteq alone
         /\ \A t \in alone' : By(t) # u
         /\ \A t \in alone : By(t) # u => t \in alone'
         /\ \A v \in User \ astray' : v # u /\ v \notin astray
BY DEF Strays, LikeInv, TypeOK

LEMMA PressLikeInv ==
  ASSUME LikeInv, NEW t \in Tap, Press(t)
  PROVE  LikeInv'
<1> USE DEF LikeInv
<1> DEFINE u == By(t)
<1>1. /\ pc[t] = "new" /\ pc'[t] = "get" /\ at' = at /\ likes' = likes /\ known' = known
      /\ queue' = queue /\ late' = late /\ found' = found /\ u \in User
      /\ \A s \in Tap : s # t => pc'[s] = pc[s]
      /\ \A d \in Device : Queued(d)' = Queued(d)
      /\ \A d \in Device : \A w \in Queued(d) : w.tap \in Tap /\ w.tap # t /\ w.doc \in Tap
  <2>1. pc[t] = "new" /\ u \in User
    BY ConstantsAssumption DEF Press, TypeOK, By
  <2>2. \A d \in Device : \A w \in Queued(d) : w.tap \in Tap /\ w.tap # t /\ w.doc \in Tap
    BY <2>1, QueuedAreWrites DEF QueuedByTaps
  <2> QED
    BY <2>1, <2>2 DEF Press, TypeOK, Queued
<1>2. \/ Unsettled(u) /\ Strays(u)
      \/ ~Unsettled(u) /\ alone' = alone \union {t} /\ astray' = astray
  BY DEF Press
<1>3. astray' \subseteq User /\ astray \subseteq astray' /\ alone' \subseteq alone \union {t}
      /\ \A s \in alone' : s # t => s \in alone
  BY <1>1, <1>2, StraysAlone DEF TypeOK, Strays
<1>4. TypeOK'
  BY <1>1, <1>3 DEF TypeOK, Press
<1>5. QueuedByTaps'
  BY <1>1 DEF QueuedByTaps, By, Runs
<1>6. FoundIsOwn' /\ NotBeforeRead'
  BY <1>1 DEF FoundIsOwn, NotBeforeRead, By
<1>7. \A s \in alone' : By(s) = u => s = t /\ ~Unsettled(u)
  BY <1>1, <1>2, StraysAlone DEF Unsettled, Running, AloneIsAlone, TypeOK
<1>8. AloneIsAlone'
  <2> SUFFICES ASSUME NEW s \in alone'
               PROVE  /\ Runs(s)'
                      /\ \A r \in Tap : Runs(r)' /\ By(r) = By(s) => r = s
                      /\ \A d \in Device : Owner[d] = By(s) => \A w \in Queued(d) : w.tap = s
                      /\ pc'[s] = "write" => LikesOf(By(s)) \subseteq
                                                IF found[s] = {} THEN {s} ELSE found[s]
    BY <1>1 DEF AloneIsAlone, By, LikesOf
  <2>1. CASE s = t
    <3>1. ~Unsettled(u)
      BY <1>7, <2>1
    <3>2. /\ \A r \in Tap : ~(Runs(r) /\ By(r) = u)
          /\ \A d \in Device : Owner[d] = u => Queued(d) = {}
      BY <1>1, <3>1, UnsettledIs DEF Running
    <3>3. \A r \in Tap : Runs(r)' /\ By(r) = u => r = t
      BY <1>1, <3>2 DEF Runs
    <3> QED
      BY <1>1, <2>1, <3>2, <3>3 DEF Runs
  <2>2. CASE s # t
    <3>1. s \in alone /\ s \in Tap /\ By(s) # u
      BY <1>3, <1>7, <2>2 DEF TypeOK
    <3> QED
      BY <1>1, <2>2, <3>1 DEF AloneIsAlone, Runs
  <2> QED
    BY <2>1, <2>2
<1>9. CalmIsCalm'
  <2> SUFFICES ASSUME NEW v \in User, v \notin astray'
               PROVE  /\ \A s \in Tap : Runs(s)' /\ By(s)' = v => s \in alone'
                      /\ \A d, e \in Device : Owner[d] = v /\ Owner[e] = v =>
                            \A x \in Queued(d)', w \in Queued(e)' : x = w
                      /\ \A d \in Device : Owner[d] = v => \A w \in Queued(d)' :
                            /\ LikesOf(v)' \subseteq {w.doc}
                            /\ Runs(w.tap)' => found'[w.tap] \subseteq {w.doc}
    BY DEF CalmIsCalm, Running
  <2>1. v \notin astray
    BY <1>3
  <2>2. \A s \in Tap : Runs(s)' /\ By(s)' = v => s \in alone'
    <3>1. CASE v = u
      <4>1. ~Unsettled(u) /\ alone' = alone \union {t}
        BY <1>2, <3>1, <1>1, StraysAlone
      <4> QED
        BY <1>1, <3>1, <4>1 DEF Unsettled, Running, Runs, By
    <3>2. CASE v # u
      <4>1. \A s \in alone : By(s) # u => s \in alone'
        BY <1>1, <1>2, StraysAlone
      <4> QED
        BY <1>1, <2>1, <3>2, <4>1 DEF CalmIsCalm, Running, Runs, By
    <3> QED
      BY <3>1, <3>2
  <2>3. \A d \in Device : \A w \in Queued(d) : Runs(w.tap)' => Runs(w.tap)
    BY <1>1 DEF QueuedByTaps, Runs
  <2> QED
    BY <1>1, <2>1, <2>2, <2>3 DEF CalmIsCalm, LikesOf, By
<1>10. OneLikePerUser'
  BY <1>1, <1>3 DEF OneLikePerUser, LikesOf, By
<1> QED
  BY <1>4, <1>5, <1>6, <1>8, <1>9, <1>10

\* The invariants of the next state, said with the users of this one.
LEMMA NextAlone ==
  ASSUME at' = at,
         \A s \in alone' :
            /\ Runs(s)'
            /\ \A r \in Tap : Runs(r)' /\ By(r) = By(s) => r = s
            /\ \A d \in Device : Owner[d] = By(s) => \A w \in Queued(d)' : w.tap = s
            /\ pc'[s] = "write" => {l \in likes' : By(l) = By(s)} \subseteq
                                      IF found'[s] = {} THEN {s} ELSE found'[s]
  PROVE  AloneIsAlone'
BY DEF AloneIsAlone, By, LikesOf

LEMMA NextQueued ==
  ASSUME at' = at,
         \A d \in Device : OncePerTap(queue'[d]),
         \A d \in Device : \A w \in Queued(d)' :
            /\ at[w.tap] = d /\ By(w.doc) = Owner[d]
            /\ pc'[w.tap] \in {"write", "over"}
            /\ w.op = "add" => w.doc = w.tap
            /\ Runs(w.tap)' => IF w.op = "add" THEN found'[w.tap] = {}
                               ELSE w.doc \in found'[w.tap]
  PROVE  QueuedByTaps'
BY DEF QueuedByTaps, By

LEMMA NextCalm ==
  ASSUME at' = at,
         \A v \in User \ astray' :
            /\ \A s \in Tap : Runs(s)' /\ By(s) = v => s \in alone'
            /\ \A d, e \in Device : Owner[d] = v /\ Owner[e] = v =>
                  \A x \in Queued(d)', y \in Queued(e)' : x = y
            /\ \A d \in Device : Owner[d] = v => \A x \in Queued(d)' :
                  /\ {l \in likes' : By(l) = v} \subseteq {x.doc}
                  /\ Runs(x.tap)' => found'[x.tap] \subseteq {x.doc}
  PROVE  CalmIsCalm'
BY DEF CalmIsCalm, Running, By, LikesOf

LEMMA NextOne ==
  ASSUME at' = at,
         \A v \in User \ astray' : \A k, l \in likes' : By(k) = v /\ By(l) = v => k = l
  PROVE  OneLikePerUser'
BY DEF OneLikePerUser, By, LikesOf

\* A lone tap that has not read yet has no write of its user's before it, and
\* reads just what it is given.
LEMMA LoneReads ==
  ASSUME LikeInv, NEW t \in alone, pc[t] = "get"
  PROVE  /\ \A d \in Device : Owner[d] = By(t) => Queued(d) = {}
         /\ \A S : (S \union Added(at[t])) \ Deleted(at[t]) = S
<1> USE DEF LikeInv
<1>1. \A d \in Device : Owner[d] = By(t) => Queued(d) = {}
  BY DEF AloneIsAlone, QueuedByTaps
<1>2. at[t] \in Device /\ Owner[at[t]] = By(t)
  BY DEF TypeOK, By
<1>3. Added(at[t]) = {} /\ Deleted(at[t]) = {}
  BY <1>1, <1>2 DEF Added, Deleted
<1> QED
  BY <1>1, <1>3

LEMMA ReadLikeInv ==
  ASSUME LikeInv, NEW t \in Tap, Read(t)
  PROVE  LikeInv'
<1> USE DEF LikeInv
<1> DEFINE u == By(t)
           h == at[t]
<1>1. PICK S \in SUBSET {l \in known : By(l) = u}, w \in Write :
          LET docs == (S \union Added(h)) \ Deleted(h)
          IN  /\ NextWrite(t, docs, w)
              /\ found' = [found EXCEPT ![t] = docs]
              /\ queue' = [queue EXCEPT ![h] = Append(@, w)]
              /\ IF S = LikesOf(u) THEN UNCHANGED <<alone, astray>> ELSE Strays(u)
  BY DEF Read
<1> DEFINE docs == (S \union Added(h)) \ Deleted(h)
<1>2. /\ pc[t] = "get" /\ pc'[t] = "write" /\ at' = at /\ likes' = likes /\ known' = known
      /\ late' = late /\ u \in User /\ h \in Device /\ Owner[h] = u
      /\ \A s \in Tap : s # t => pc'[s] = pc[s]
  BY ConstantsAssumption DEF Read, TypeOK, By
<1>3. /\ w.tap = t /\ w.doc \in Tap /\ w.op \in {"add", "delete"}
      /\ w.op = "add" => docs = {} /\ w.doc = t
      /\ w.op = "delete" => w.doc \in docs
  BY <1>1 DEF NextWrite, Write
<1>4. \A d \in Device : \A v \in Queued(d) : v.tap \in Tap /\ v.tap # t /\ v.doc \in Tap
  BY <1>2, QueuedAreWrites DEF QueuedByTaps
<1>5. /\ OncePerTap(queue'[h])
      /\ \A d \in Device : d # h => queue'[d] = queue[d]
      /\ \A d \in Device : Queued(d)' = IF d = h THEN Queued(d) \union {w} ELSE Queued(d)
      /\ queue' \in [Device -> Seq(Write)]
  <2>1. queue[h] \in Seq(Write) /\ queue'[h] = Append(queue[h], w)
    BY <1>1, <1>2 DEF TypeOK
  <2>2. OncePerTap(queue[h]) /\ \A v \in Elements(queue[h]) : v.tap # w.tap
    BY <1>2, <1>3, <1>4 DEF QueuedByTaps, Queued, Elements
  <2>3. /\ queue'[h] \in Seq(Write) /\ OncePerTap(queue'[h])
        /\ Elements(queue'[h]) = Elements(queue[h]) \union {w}
    BY <2>1, <2>2, AppendedQueue
  <2>4. \A d \in Device : d # h => queue'[d] = queue[d]
    BY <1>1, <1>2 DEF TypeOK
  <2>5. \A d \in Device : Queued(d)' = IF d = h THEN Queued(d) \union {w} ELSE Queued(d)
    <3>1. {queue'[h][i] : i \in DOMAIN queue'[h]} = {queue[h][i] : i \in DOMAIN queue[h]} \union {w}
      BY <2>3 DEF Elements
    <3> HIDE DEF h
    <3> QED
      BY <2>4, <3>1 DEF Queued
  <2>6. queue' \in [Device -> Seq(Write)]
    BY <1>1, <1>2, <2>1, <2>3 DEF TypeOK
  <2> QED
    BY <2>3, <2>4, <2>5, <2>6
<1>6. /\ docs \subseteq Tap /\ \A l \in docs : By(l) = u
      /\ found'[t] = docs
      /\ \A s \in Tap : s # t => found'[s] = found[s]
      /\ \A s \in Tap : pc[s] \in {"new", "get"} => s \notin docs
  <2>1. \A l \in Added(h) : \E v \in Queued(h) : l = v.doc
    BY DEF Added
  <2>2. \A l \in docs : l \in S \/ \E v \in Queued(h) : l = v.doc
    BY <2>1
  <2>3. \A v \in Queued(h) : By(v.doc) = u
    BY <1>2 DEF QueuedByTaps
  <2>4. docs \subseteq Tap /\ \A l \in docs : By(l) = u
    <3>1. \A l \in S : l \in Tap /\ By(l) = u
      BY DEF TypeOK
    <3>2. \A v \in Queued(h) : v.doc \in Tap /\ By(v.doc) = u
      BY <1>2, <1>4, <2>3
    <3> HIDE DEF docs
    <3> QED
      BY <2>2, <3>1, <3>2
  <2>5. \A s \in Tap : pc[s] \in {"new", "get"} => s \notin docs
    BY <1>2, <2>2 DEF NotBeforeRead
  <2> QED
    BY <1>1, <2>4, <2>5 DEF TypeOK
<1> HIDE DEF docs
<1>7. /\ alone' \subseteq alone /\ astray \subseteq astray' /\ astray' \subseteq User
      /\ u \notin astray' \/ (\E s \in alone' : By(s) = u) => S = LikesOf(u)
      /\ S = LikesOf(u) => alone' = alone /\ astray' = astray
      /\ \A s \in alone : By(s) # u => s \in alone'
      /\ \A v \in User \ astray' : v \notin astray
  BY <1>1, <1>2, StraysAlone DEF Strays, TypeOK
<1>8. S = LikesOf(u) /\ t \in alone =>
         docs = LikesOf(u) /\ \A d \in Device : Owner[d] = u => Queued(d) = {}
  BY <1>2, LoneReads DEF docs
<1>9. TypeOK'
  <2>1. pc' \in [Tap -> {"new", "get", "write", "over"}]
    BY DEF Read, TypeOK
  <2>2. found' \in [Tap -> SUBSET Tap]
    BY <1>1, <1>6 DEF docs, TypeOK
  <2> QED
    BY <1>2, <1>5, <1>7, <2>1, <2>2 DEF TypeOK
<1>10. QueuedByTaps'
  <2> SUFFICES ASSUME NEW d \in Device
               PROVE  /\ OncePerTap(queue'[d])
                      /\ \A v \in Queued(d)' :
                           /\ at[v.tap] = d /\ By(v.doc) = Owner[d]
                           /\ pc'[v.tap] \in {"write", "over"}
                           /\ v.op = "add" => v.doc = v.tap
                           /\ Runs(v.tap)' => IF v.op = "add" THEN found'[v.tap] = {}
                                              ELSE v.doc \in found'[v.tap]
    BY <1>2 DEF QueuedByTaps, By
  <2>1. OncePerTap(queue'[d])
    BY <1>5 DEF QueuedByTaps
  <2>2. ASSUME NEW v \in Queued(d)
        PROVE  /\ at[v.tap] = d /\ By(v.doc) = Owner[d]
               /\ pc'[v.tap] \in {"write", "over"}
               /\ v.op = "add" => v.doc = v.tap
               /\ Runs(v.tap)' => IF v.op = "add" THEN found'[v.tap] = {}
                                  ELSE v.doc \in found'[v.tap]
    <3>1. v.tap \in Tap /\ v.tap # t
      BY <1>4
    <3>2. pc'[v.tap] = pc[v.tap] /\ found'[v.tap] = found[v.tap]
      BY <1>2, <1>6, <3>1
    <3> QED
      BY <3>2 DEF QueuedByTaps, Runs
  <2>3. /\ at[w.tap] = h /\ By(w.doc) = Owner[h]
        /\ pc'[w.tap] = "write"
        /\ w.op = "add" => w.doc = w.tap
        /\ IF w.op = "add" THEN found'[w.tap] = {} ELSE w.doc \in found'[w.tap]
    BY <1>2, <1>3, <1>6
  <2> QED
    BY <1>5, <2>1, <2>2, <2>3
<1>11. FoundIsOwn'
  BY <1>2, <1>6 DEF FoundIsOwn, By
<1>12. NotBeforeRead'
  <2>1. \A s \in Tap : pc'[s] \in {"new", "get"} => s # t /\ pc[s] \in {"new", "get"}
    BY <1>2
  <2>2. \A s \in Tap : pc[s] \in {"new", "get"} /\ s # t => w.doc # s
    BY <1>3, <1>6
  <2>3. \A d \in Device : \A v \in Queued(d)' : v \in Queued(d) \/ v = w
    BY <1>5
  <2> QED
    BY <1>2, <1>6, <2>1, <2>2, <2>3 DEF NotBeforeRead
<1>13. AloneIsAlone'
  <2> SUFFICES ASSUME NEW s \in alone'
               PROVE  /\ Runs(s)'
                      /\ \A r \in Tap : Runs(r)' /\ By(r) = By(s) => r = s
                      /\ \A d \in Device : Owner[d] = By(s) => \A v \in Queued(d)' : v.tap = s
                      /\ pc'[s] = "write" => {l \in likes' : By(l) = By(s)} \subseteq
                                                IF found'[s] = {} THEN {s} ELSE found'[s]
    BY <1>2, NextAlone
  <2>1. s \in alone /\ s \in Tap
    BY <1>7 DEF TypeOK
  <2>2. \A r \in Tap : Runs(r)' => Runs(r)
    BY <1>2 DEF Runs
  <2>3. CASE s = t
    <3>1. docs = LikesOf(u) /\ \A d \in Device : Owner[d] = u => Queued(d) = {}
      BY <1>7, <1>8, <2>1, <2>3
    <3>2. \A d \in Device : Owner[d] = u => \A v \in Queued(d)' : v = w
      BY <1>5, <3>1
    <3>3. \A r \in Tap : Runs(r)' /\ By(r) = By(s) => r = s
      BY <2>1, <2>2 DEF AloneIsAlone
    <3> QED
      BY <1>2, <1>3, <1>6, <2>3, <3>1, <3>2, <3>3 DEF Runs, LikesOf
  <2>4. CASE s # t
    <3>1. By(s) # u
      BY <1>2, <2>1, <2>4 DEF AloneIsAlone, Runs
    <3>2. \A d \in Device : Owner[d] = By(s) => Queued(d)' = Queued(d)
      BY <1>2, <1>5, <3>1
    <3>3. \A r \in Tap : Runs(r)' /\ By(r) = By(s) => r = s
      BY <2>1, <2>2 DEF AloneIsAlone
    <3> QED
      BY <1>2, <1>6, <2>1, <2>4, <3>2, <3>3 DEF AloneIsAlone, LikesOf, Runs
  <2> QED
    BY <2>3, <2>4
<1>14. CalmIsCalm'
  <2> SUFFICES ASSUME NEW v \in User \ astray'
               PROVE  /\ \A s \in Tap : Runs(s)' /\ By(s) = v => s \in alone'
                      /\ \A d, e \in Device : Owner[d] = v /\ Owner[e] = v =>
                            \A x \in Queued(d)', y \in Queued(e)' : x = y
                      /\ \A d \in Device : Owner[d] = v => \A x \in Queued(d)' :
                            /\ {l \in likes' : By(l) = v} \subseteq {x.doc}
                            /\ Runs(x.tap)' => found'[x.tap] \subseteq {x.doc}
    BY <1>2, NextCalm
  <2>1. v \notin astray
    BY <1>7
  <2>2. \A r \in Tap : Runs(r)' => Runs(r)
    BY <1>2 DEF Runs
  <2>3. \A s \in Tap : Runs(s) /\ By(s) = v => s \in alone
    BY <2>1 DEF CalmIsCalm, Running
  <2>4. CASE v = u
    <3>1. S = LikesOf(u) /\ t \in alone /\ alone' = alone
      BY <1>2, <1>7, <2>3, <2>4 DEF Runs
    <3>2. docs = LikesOf(u) /\ \A d \in Device : Owner[d] = u => Queued(d) = {}
      BY <1>8, <3>1
    <3>3. \A d \in Device : Owner[d] = u => \A x \in Queued(d)' : x = w
      BY <1>5, <3>2
    <3>4. LikesOf(u) \subseteq {w.doc}
      BY <1>2, <1>3, <2>1, <2>4, <3>2 DEF OneLikePerUser
    <3> QED
      BY <1>2, <1>3, <1>6, <2>2, <2>3, <2>4, <3>1, <3>2, <3>3, <3>4 DEF LikesOf
  <2>5. CASE v # u
    <3>1. \A d \in Device : Owner[d] = v => Queued(d)' = Queued(d)
      BY <1>2, <1>5, <2>5
    <3>2. \A s \in Tap : Runs(s)' /\ By(s) = v => s \in alone'
      BY <1>7, <2>2, <2>3, <2>5
    <3>3. ASSUME NEW d \in Device, Owner[d] = v, NEW x \in Queued(d)
          PROVE  /\ LikesOf(v) \subseteq {x.doc}
                 /\ Runs(x.tap)' => found'[x.tap] \subseteq {x.doc}
      <4>1. x.tap \in Tap /\ x.tap # t
        BY <1>4
      <4> QED
        BY <1>2, <1>6, <2>1, <3>3, <4>1 DEF CalmIsCalm, Runs
    <3>4. \A d, e \in Device : Owner[d] = v /\ Owner[e] = v =>
             \A x \in Queued(d), y \in Queued(e) : x = y
      BY <2>1 DEF CalmIsCalm
    <3> QED
      BY <1>2, <3>1, <3>2, <3>3, <3>4 DEF LikesOf
  <2> QED
    BY <2>4, <2>5
<1>15. OneLikePerUser'
  BY <1>2, <1>7 DEF OneLikePerUser, LikesOf, By
<1> QED
  BY <1>9, <1>10, <1>11, <1>12, <1>13, <1>14, <1>15

\* Calls end, and writes leave a queue or stay in it.
LEMMA EndLikeInv ==
  ASSUME LikeInv, NEW S \in SUBSET Tap, End(S),
         UNCHANGED <<likes, known, late, at, astray>>,
         queue' \in [Device -> Seq(Write)],
         \A d \in Device : OncePerTap(queue'[d]),
         \A d \in Device : Queued(d)' \subseteq Queued(d)
  PROVE  LikeInv'
<1> USE DEF LikeInv
<1>1. /\ alone' = alone \ S
      /\ \A s \in Tap : s \in S => pc'[s] = "over" /\ found'[s] = {}
      /\ \A s \in Tap : s \notin S => pc'[s] = pc[s] /\ found'[s] = found[s]
  BY DEF End
<1>2. TypeOK'
  BY DEF End, TypeOK
<1>3. \A d \in Device : \A w \in Queued(d)' : w \in Queued(d) /\ w.tap \in Tap
  BY QueuedAreWrites
<1>4. QueuedByTaps'
  <2> SUFFICES ASSUME NEW d \in Device, NEW w \in Queued(d)'
               PROVE  /\ at[w.tap] = d /\ By(w.doc) = Owner[d]
                      /\ pc'[w.tap] \in {"write", "over"}
                      /\ w.op = "add" => w.doc = w.tap
                      /\ Runs(w.tap)' => IF w.op = "add" THEN found'[w.tap] = {}
                                         ELSE w.doc \in found'[w.tap]
    BY DEF QueuedByTaps, By
  <2>1. w \in Queued(d) /\ w.tap \in Tap
    BY <1>3
  <2>2. /\ at[w.tap] = d /\ By(w.doc) = Owner[d]
        /\ pc[w.tap] \in {"write", "over"}
        /\ w.op = "add" => w.doc = w.tap
        /\ Runs(w.tap) => IF w.op = "add" THEN found[w.tap] = {} ELSE w.doc \in found[w.tap]
    BY <2>1 DEF QueuedByTaps
  <2>3. CASE w.tap \in S
    <3>1. pc'[w.tap] = "over"
      BY <1>1, <2>1, <2>3
    <3> QED
      BY <2>2, <3>1 DEF Runs
  <2>4. CASE w.tap \notin S
    <3>1. pc'[w.tap] = pc[w.tap] /\ found'[w.tap] = found[w.tap]
      BY <1>1, <2>1, <2>4
    <3> QED
      BY <2>2, <3>1 DEF Runs
  <2> QED
    BY <2>3, <2>4
<1>5. FoundIsOwn' /\ NotBeforeRead'
  BY <1>1, <1>3 DEF FoundIsOwn, NotBeforeRead, By
<1>6. \A s \in Tap : Runs(s)' => Runs(s) /\ s \notin S
  BY <1>1 DEF Runs
<1>7. AloneIsAlone'
  <2> SUFFICES ASSUME NEW s \in alone'
               PROVE  /\ Runs(s)'
                      /\ \A r \in Tap : Runs(r)' /\ By(r) = By(s) => r = s
                      /\ \A d \in Device : Owner[d] = By(s) => \A v \in Queued(d)' : v.tap = s
                      /\ pc'[s] = "write" => {l \in likes' : By(l) = By(s)} \subseteq
                                                IF found'[s] = {} THEN {s} ELSE found'[s]
    BY NextAlone
  <2>1. s \in alone /\ s \in Tap /\ pc'[s] = pc[s] /\ found'[s] = found[s]
    BY <1>1 DEF TypeOK
  <2> QED
    BY <1>3, <1>6, <2>1 DEF AloneIsAlone, Runs, LikesOf
<1>8. CalmIsCalm'
  <2> SUFFICES ASSUME NEW v \in User \ astray'
               PROVE  /\ \A s \in Tap : Runs(s)' /\ By(s) = v => s \in alone'
                      /\ \A d, e \in Device : Owner[d] = v /\ Owner[e] = v =>
                            \A x \in Queued(d)', y \in Queued(e)' : x = y
                      /\ \A d \in Device : Owner[d] = v => \A x \in Queued(d)' :
                            /\ {l \in likes' : By(l) = v} \subseteq {x.doc}
                            /\ Runs(x.tap)' => found'[x.tap] \subseteq {x.doc}
    BY NextCalm
  <2>1. \A s \in Tap : Runs(s)' /\ By(s) = v => s \in alone'
    BY <1>1, <1>6 DEF CalmIsCalm, Running
  <2>2. \A d, e \in Device : Owner[d] = v /\ Owner[e] = v =>
           \A x \in Queued(d)', y \in Queued(e)' : x = y
    BY <1>3 DEF CalmIsCalm
  <2>3. ASSUME NEW d \in Device, Owner[d] = v, NEW x \in Queued(d)'
        PROVE  /\ LikesOf(v) \subseteq {x.doc}
               /\ Runs(x.tap)' => found'[x.tap] \subseteq {x.doc}
    BY <1>1, <1>3, <1>6, <2>3 DEF CalmIsCalm
  <2> QED
    BY <2>1, <2>2, <2>3 DEF LikesOf
<1>9. OneLikePerUser'
  BY DEF OneLikePerUser, LikesOf, By
<1> QED
  BY <1>2, <1>4, <1>5, <1>7, <1>8, <1>9

\* A queue without its head.
LEMMA QueueMovesOn ==
  ASSUME LikeInv, NEW d \in Device, queue[d] # <<>>, queue' = [queue EXCEPT ![d] = Tail(@)]
  PROVE  /\ Head(queue[d]) \in Queued(d)
         /\ queue' \in [Device -> Seq(Write)]
         /\ \A e \in Device : OncePerTap(queue'[e])
         /\ \A e \in Device : Queued(e)' = IF e = d THEN Queued(e) \ {Head(queue[e])} ELSE Queued(e)
         /\ \A e \in Device : e = d => \A v \in Queued(e)' : v.tap # Head(queue[e]).tap
<1> USE DEF LikeInv
<1>1. queue[d] \in Seq(Write) /\ OncePerTap(queue[d])
  BY DEF TypeOK, QueuedByTaps
<1>2. /\ Head(queue[d]) \in Queued(d)
      /\ Tail(queue[d]) \in Seq(Write) /\ OncePerTap(Tail(queue[d]))
      /\ Elements(Tail(queue[d])) = Elements(queue[d]) \ {Head(queue[d])}
      /\ \A v \in Elements(Tail(queue[d])) : v.tap # Head(queue[d]).tap
  BY <1>1, ShortenedQueue DEF Queued, Elements
<1>3. queue'[d] = Tail(queue[d]) /\ \A e \in Device : e # d => queue'[e] = queue[e]
  BY DEF TypeOK
<1>4. queue' \in [Device -> Seq(Write)]
  BY <1>2 DEF TypeOK
<1>5. \A e \in Device : OncePerTap(queue'[e])
  BY <1>2, <1>3 DEF QueuedByTaps
<1>6. \A e \in Device : Queued(e)' = IF e = d THEN Queued(e) \ {Head(queue[e])} ELSE Queued(e)
  <2>1. {queue'[d][i] : i \in DOMAIN queue'[d]}
           = {queue[d][i] : i \in DOMAIN queue[d]} \ {Head(queue[d])}
    BY <1>2, <1>3 DEF Elements
  <2> QED
    BY <1>3, <2>1 DEF Queued
<1>7. \A e \in Device : e = d => \A v \in Queued(e)' : v.tap # Head(queue[e]).tap
  BY <1>2, <1>3, ZenonT(30) DEF Queued, Elements
<1> QED
  BY <1>2, <1>4, <1>5, <1>6, <1>7

LEMMA SameQueues ==
  ASSUME LikeInv, queue' = queue
  PROVE  /\ queue' \in [Device -> Seq(Write)]
         /\ \A d \in Device : OncePerTap(queue'[d])
         /\ \A d \in Device : Queued(d)' = Queued(d)
BY DEF LikeInv, TypeOK, QueuedByTaps, Queued

LEMMA RefuseLikeInv ==
  ASSUME LikeInv, NEW d \in Device, Refuse(d)
  PROVE  LikeInv'
<1> DEFINE S == {t \in Tap : Runs(t) /\ t = Head(queue[d]).tap}
<1>1. \A e \in Device : Queued(e)' \subseteq Queued(e)
  BY QueueMovesOn DEF Refuse
<1>2. End(S)
  BY DEF Refuse
<1> QED
  BY <1>1, <1>2, QueueMovesOn, EndLikeInv DEF Refuse

LEMMA LoseLikeInv ==
  ASSUME LikeInv, NEW d \in Device, Lose(d)
  PROVE  LikeInv'
<1> USE DEF LikeInv
<1>1. late' = late \union Queued(d) /\ UNCHANGED <<likes, known, queue, pc, at, found, alone, astray>>
  BY DEF Lose
<1>2. Queued(d) \subseteq Write
  BY QueuedAreWrites
<1>3. \A e \in Device : Queued(e)' = Queued(e)
  BY <1>1, SameQueues
<1>4. TypeOK'
  BY <1>1, <1>2 DEF TypeOK
<1>5. NotBeforeRead'
  BY <1>1, <1>3 DEF NotBeforeRead
<1>6. QueuedByTaps' /\ FoundIsOwn'
  BY <1>1, <1>3 DEF QueuedByTaps, FoundIsOwn, By, Runs
<1>7. AloneIsAlone' /\ OneLikePerUser'
  BY <1>1, <1>3 DEF AloneIsAlone, OneLikePerUser, LikesOf, By, Runs
<1>8. CalmIsCalm'
  BY <1>1, <1>3 DEF CalmIsCalm, Running, LikesOf, By, Runs
<1> QED
  BY <1>4, <1>5, <1>6, <1>7, <1>8

\* What a write of one user does to the documents.
LEMMA OneUsersEffect ==
  ASSUME NEW w \in Write
  PROVE  /\ \A l : l # w.doc => (l \in Effect(w) <=> l \in likes)
         /\ \A X : likes \subseteq X => Effect(w) \subseteq X \union {w.doc}
BY DEF Effect, Write

LEMMA HandleLateLikeInv ==
  ASSUME LikeInv, NEW w \in late, HandleLate(w)
  PROVE  LikeInv'
<1> USE DEF LikeInv
<1> DEFINE u == By(w.doc)
<1>1. /\ likes' = Effect(w) /\ known' = known \union Effect(w)
      /\ UNCHANGED <<queue, late, pc, at, found>>
      /\ w \in Write /\ w.doc \in Tap /\ w.op \in {"add", "delete"} /\ u \in User
  BY ConstantsAssumption DEF HandleLate, Apply, TypeOK, Write, By
<1>2. \A d \in Device : Queued(d)' = Queued(d)
  BY <1>1, SameQueues
<1>3. /\ alone' \subseteq alone /\ astray \subseteq astray' /\ astray' \subseteq User
      /\ \A s \in alone : By(s) # u => s \in alone'
      /\ \/ alone' = alone /\ astray' = astray /\ (likes' = likes \/ \E d \in Device : w \in Queued(d))
         \/ u \in astray' /\ \A s \in alone' : By(s) # u
  BY <1>1, StraysAlone DEF HandleLate, Strays, TypeOK
<1>4. \A l : By(l) # u => (l \in likes' <=> l \in likes)
  BY <1>1, OneUsersEffect
<1>5. TypeOK'
  <2>1. Effect(w) \subseteq Tap
    BY <1>1, OneUsersEffect DEF TypeOK
  <2> QED
    BY <1>1, <1>3, <2>1 DEF TypeOK
<1>6. QueuedByTaps' /\ FoundIsOwn'
  BY <1>1, <1>2 DEF QueuedByTaps, FoundIsOwn, By, Runs
<1>7. NotBeforeRead'
  <2>1. known' \subseteq known \union {w.doc}
    BY <1>1, OneUsersEffect DEF TypeOK
  <2> QED
    BY <1>1, <1>2, <2>1 DEF NotBeforeRead
<1>8. ASSUME NEW d \in Device, w \in Queued(d)
      PROVE  Owner[d] = u /\ (w.op = "add" => w.doc = w.tap)
             /\ (Runs(w.tap) => IF w.op = "add" THEN found[w.tap] = {} ELSE w.doc \in found[w.tap])
  BY <1>8 DEF QueuedByTaps
<1>9. AloneIsAlone'
  <2> SUFFICES ASSUME NEW s \in alone'
               PROVE  /\ Runs(s)'
                      /\ \A r \in Tap : Runs(r)' /\ By(r) = By(s) => r = s
                      /\ \A d \in Device : Owner[d] = By(s) => \A v \in Queued(d)' : v.tap = s
                      /\ pc'[s] = "write" => {l \in likes' : By(l) = By(s)} \subseteq
                                                IF found'[s] = {} THEN {s} ELSE found'[s]
    BY <1>1, NextAlone
  <2>1. s \in alone /\ s \in Tap
    BY <1>3 DEF TypeOK
  <2>2. pc[s] = "write" => {l \in likes' : By(l) = By(s)} \subseteq IF found[s] = {} THEN {s} ELSE found[s]
    <3>1. pc[s] = "write" => LikesOf(By(s)) \subseteq IF found[s] = {} THEN {s} ELSE found[s]
      BY <2>1 DEF AloneIsAlone
    <3>2. CASE By(s) # u \/ likes' = likes
      BY <1>4, <3>1, <3>2 DEF LikesOf
    <3>3. CASE By(s) = u /\ likes' # likes
      <4>1. PICK d \in Device : w \in Queued(d)
        BY <1>3, <3>3
      <4>2. w.tap = s /\ Runs(s)
        BY <1>8, <2>1, <3>3, <4>1 DEF AloneIsAlone
      <4>3. w.doc \in IF found[s] = {} THEN {s} ELSE found[s]
        BY <1>1, <1>8, <4>1, <4>2
      <4>4. \A l \in likes' : l \in likes \/ l = w.doc
        BY <1>1, OneUsersEffect
      <4> QED
        BY <3>1, <4>3, <4>4 DEF LikesOf
    <3> QED
      BY <3>2, <3>3
  <2> QED
    BY <1>1, <1>2, <2>1, <2>2 DEF AloneIsAlone, Runs
<1>10. \A v \in User \ astray' : v \notin astray
  BY <1>3
<1>11. ASSUME NEW v \in User \ astray', NEW d \in Device, Owner[d] = v, NEW x \in Queued(d)
       PROVE  {l \in likes' : By(l) = v} \subseteq {x.doc}
  <2>1. LikesOf(v) \subseteq {x.doc}
    BY <1>10, <1>11 DEF CalmIsCalm
  <2>2. CASE v # u \/ likes' = likes
    BY <1>4, <2>1, <2>2 DEF LikesOf
  <2>3. CASE v = u /\ likes' # likes
    <3>1. PICK e \in Device : w \in Queued(e)
      BY <1>3, <2>3
    <3>2. w = x
      BY <1>8, <1>10, <1>11, <2>3, <3>1 DEF CalmIsCalm
    <3>3. \A l \in likes' : l \in likes \/ l = x.doc
      BY <1>1, <3>2, OneUsersEffect
    <3> QED
      BY <2>1, <3>3 DEF LikesOf
  <2> QED
    BY <2>2, <2>3
<1>12. CalmIsCalm'
  <2> SUFFICES ASSUME NEW v \in User \ astray'
               PROVE  /\ \A s \in Tap : Runs(s)' /\ By(s) = v => s \in alone'
                      /\ \A d, e \in Device : Owner[d] = v /\ Owner[e] = v =>
                            \A x \in Queued(d)', y \in Queued(e)' : x = y
                      /\ \A d \in Device : Owner[d] = v => \A x \in Queued(d)' :
                            /\ {l \in likes' : By(l) = v} \subseteq {x.doc}
                            /\ Runs(x.tap)' => found'[x.tap] \subseteq {x.doc}
    BY <1>1, NextCalm
  <2>1. v \notin astray /\ v \in User
    BY <1>10
  <2>2. \A s \in Tap : Runs(s)' /\ By(s) = v => s \in alone'
    <3>1. \A s \in Tap : Runs(s)' /\ By(s) = v => s \in alone
      BY <1>1, <2>1 DEF CalmIsCalm, Running, Runs
    <3>2. v = u => alone' = alone
      BY <1>3
    <3> QED
      BY <1>3, <3>1, <3>2
  <2>3. ASSUME NEW d \in Device, Owner[d] = v, NEW x \in Queued(d)
        PROVE  {l \in likes' : By(l) = v} \subseteq {x.doc}
    BY <1>11, <2>3
  <2> QED
    BY <1>1, <1>2, <2>1, <2>2, <2>3 DEF CalmIsCalm, Runs
<1>13. OneLikePerUser'
  <2> SUFFICES ASSUME NEW v \in User \ astray', NEW k \in likes', NEW l \in likes',
                      By(k) = v, By(l) = v
               PROVE  k = l
    BY <1>1, NextOne
  <2>1. v \notin astray
    BY <1>10
  <2>2. CASE v # u \/ likes' = likes
    BY <1>4, <2>1, <2>2 DEF OneLikePerUser, LikesOf
  <2>3. CASE v = u /\ likes' # likes
    <3>1. PICK d \in Device : w \in Queued(d)
      BY <1>3, <2>3
    <3> QED
      BY <1>8, <1>11, <2>3, <3>1
  <2> QED
    BY <2>2, <2>3
<1> QED
  BY <1>5, <1>6, <1>7, <1>9, <1>12, <1>13

\* The write an answer is for, and the tap that made it.
LEMMA HandledWrite ==
  ASSUME LikeInv, NEW d \in Device, queue[d] # <<>>, NEW w, w = Head(queue[d]),
         Apply(w), at' = at
  PROVE  /\ w \in Queued(d) /\ w.tap \in Tap /\ w.doc \in Tap /\ w.op \in {"add", "delete"}
         /\ Owner[d] \in User /\ By(w.tap) = Owner[d] /\ By(w.doc) = Owner[d] /\ at[w.tap] = d
         /\ w.op = "add" => w.doc = w.tap
         /\ likes' \subseteq known' /\ known' \subseteq Tap
         /\ known' \subseteq known \union {w.doc}
         /\ \A l : By(l) # Owner[d] => (l \in likes' <=> l \in likes)
         /\ \A l \in likes' : l \in likes \/ l = w.doc
         /\ w.op = "delete" => likes' = likes \ {w.doc}
<1> USE DEF LikeInv
<1>1. w \in Queued(d)
  <2>1. queue[d] \in Seq(Write) /\ OncePerTap(queue[d])
    BY DEF TypeOK, QueuedByTaps
  <2> QED
    BY <2>1, ShortenedQueue DEF Queued, Elements
<1>2. w \in Write /\ w.tap \in Tap /\ w.doc \in Tap /\ w.op \in {"add", "delete"}
  BY <1>1, QueuedAreWrites
<1>3. /\ Owner[d] \in User /\ By(w.tap) = Owner[d] /\ By(w.doc) = Owner[d] /\ at[w.tap] = d
      /\ w.op = "add" => w.doc = w.tap
  BY <1>1, ConstantsAssumption DEF QueuedByTaps, By
<1>4. likes' = Effect(w) /\ known' = known \union Effect(w)
  BY DEF Apply
<1> QED
  BY <1>1, <1>2, <1>3, <1>4, OneUsersEffect DEF TypeOK, Effect

\* The one write of a user in the promise, or the last of a lone dislike: no
\* other tap of the user runs, and the server has no other document of his.
LEMMA LastWrite ==
  ASSUME LikeInv, NEW d \in Device, NEW w \in Queued(d),
         \/ Owner[d] \in User \ astray
         \/ w.op = "delete" /\ w.tap \in alone /\ found[w.tap] \subseteq {w.doc}
  PROVE  /\ \A s \in Tap : Runs(s) /\ By(s) = Owner[d] => s = w.tap
         /\ \A e \in Device : Owner[e] = Owner[d] => \A x \in Queued(e) : x.tap = w.tap
         /\ LikesOf(Owner[d]) \subseteq {w.doc}
<1> USE DEF LikeInv
<1> DEFINE u == Owner[d]
<1>1. w.tap \in Tap /\ at[w.tap] = d /\ By(w.tap) = u
  BY QueuedAreWrites DEF QueuedByTaps, By
<1>2. CASE u \in User \ astray
  <2>1. \A e \in Device : Owner[e] = u => \A x \in Queued(e) : x = w
    BY <1>2 DEF CalmIsCalm
  <2>2. \A s \in Tap : Runs(s) /\ By(s) = u => s \in alone
    BY <1>2 DEF CalmIsCalm, Running
  <2>3. \A s \in Tap : Runs(s) /\ By(s) = u => s = w.tap
    BY <1>1, <2>2 DEF AloneIsAlone
  <2> QED
    BY <1>2, <2>1, <2>3 DEF CalmIsCalm
<1>3. CASE w.op = "delete" /\ w.tap \in alone /\ found[w.tap] \subseteq {w.doc}
  <2>1. w.doc \in found[w.tap] /\ pc[w.tap] = "write"
    BY <1>1, <1>3 DEF QueuedByTaps, AloneIsAlone, FoundIsOwn
  <2> QED
    BY <1>1, <1>3, <2>1 DEF AloneIsAlone
<1> QED
  BY <1>2, <1>3

\* With the answer to its last write a tap is over, if it was not killed.
LEMMA LastAnswerLikeInv ==
  ASSUME LikeInv, NEW d \in Device, queue[d] # <<>>, NEW w, w = Head(queue[d]),
         Apply(w), at' = at, late' = late,
         queue' = [queue EXCEPT ![d] = Tail(@)],
         pc' \in [Tap -> {"new", "get", "write", "over"}], found' \in [Tap -> SUBSET Tap],
         pc'[w.tap] = "over", found'[w.tap] = {},
         \A s \in Tap : s # w.tap => pc'[s] = pc[s] /\ found'[s] = found[s],
         alone' = alone \ {w.tap},
         \/ astray' = astray
         \/ /\ astray' = astray \ {Owner[d]}
            /\ w.op = "delete" /\ w.tap \in alone /\ found[w.tap] \subseteq {w.doc}
  PROVE  LikeInv'
<1> USE DEF LikeInv
<1> DEFINE t == w.tap
           u == Owner[d]
<1>1. /\ w \in Queued(d) /\ t \in Tap /\ w.doc \in Tap /\ w.op \in {"add", "delete"}
      /\ u \in User /\ By(t) = u /\ By(w.doc) = u /\ at[t] = d
      /\ likes' \subseteq known' /\ known' \subseteq Tap
      /\ known' \subseteq known \union {w.doc}
      /\ \A l : By(l) # u => (l \in likes' <=> l \in likes)
      /\ \A l \in likes' : l \in likes \/ l = w.doc
      /\ w.op = "delete" => likes' = likes \ {w.doc}
  BY HandledWrite
<1>2. /\ queue' \in [Device -> Seq(Write)]
      /\ \A e \in Device : OncePerTap(queue'[e])
      /\ \A e \in Device : Queued(e)' \subseteq Queued(e)
      /\ \A e \in Device : e # d => Queued(e)' = Queued(e)
      /\ \A e \in Device : \A x \in Queued(e)' : x.tap # t /\ x.tap \in Tap
  <2>1. /\ queue' \in [Device -> Seq(Write)]
        /\ \A e \in Device : OncePerTap(queue'[e])
        /\ \A e \in Device : Queued(e)' \subseteq Queued(e)
        /\ \A e \in Device : e # d => Queued(e)' = Queued(e)
        /\ \A e \in Device : e = d => \A v \in Queued(e)' : v.tap # t
    BY QueueMovesOn
  <2>2. \A e \in Device : e # d => \A x \in Queued(e) : x.tap # t
    BY <1>1 DEF QueuedByTaps
  <2>3. \A e \in Device : \A x \in Queued(e) : x.tap \in Tap
    BY QueuedAreWrites
  <2> QED
    BY <2>1, <2>2, <2>3
<1>3. astray' \subseteq User /\ \A v \in User \ astray' : v # u => v \notin astray
  BY DEF TypeOK
<1>4. TypeOK'
  BY <1>1, <1>2, <1>3 DEF TypeOK
<1>5. QueuedByTaps'
  <2> SUFFICES ASSUME NEW e \in Device, NEW x \in Queued(e)'
               PROVE  /\ at[x.tap] = e /\ By(x.doc) = Owner[e]
                      /\ pc'[x.tap] \in {"write", "over"}
                      /\ x.op = "add" => x.doc = x.tap
                      /\ Runs(x.tap)' => IF x.op = "add" THEN found'[x.tap] = {}
                                         ELSE x.doc \in found'[x.tap]
    BY <1>2 DEF QueuedByTaps, By
  <2>1. x \in Queued(e) /\ pc'[x.tap] = pc[x.tap] /\ found'[x.tap] = found[x.tap]
    BY <1>2
  <2> QED
    BY <2>1 DEF QueuedByTaps, Runs
<1>6. FoundIsOwn'
  BY <1>1 DEF FoundIsOwn, By
<1>7. NotBeforeRead'
  <2>1. \A s \in Tap : pc'[s] \in {"new", "get"} => s # t /\ pc[s] \in {"new", "get"}
    OBVIOUS
  <2> QED
    BY <1>1, <1>2, <2>1, SMTT(20) DEF NotBeforeRead
<1>8. \A s \in Tap : Runs(s)' => Runs(s) /\ s # t
  BY <1>1 DEF Runs
<1>9. \A s \in alone' : s \in alone /\ s \in Tap /\ s # t /\ By(s) # u
  BY <1>1 DEF AloneIsAlone, TypeOK
<1>10. AloneIsAlone'
  <2> SUFFICES ASSUME NEW s \in alone'
               PROVE  /\ Runs(s)'
                      /\ \A r \in Tap : Runs(r)' /\ By(r) = By(s) => r = s
                      /\ \A e \in Device : Owner[e] = By(s) => \A v \in Queued(e)' : v.tap = s
                      /\ pc'[s] = "write" => {l \in likes' : By(l) = By(s)} \subseteq
                                                IF found'[s] = {} THEN {s} ELSE found'[s]
    BY NextAlone
  <2>1. s \in alone /\ s \in Tap /\ By(s) # u /\ pc'[s] = pc[s] /\ found'[s] = found[s]
    BY <1>9
  <2>2. {l \in likes' : By(l) = By(s)} = LikesOf(By(s))
    BY <1>1, <2>1 DEF LikesOf
  <2> QED
    BY <1>2, <1>8, <2>1, <2>2 DEF AloneIsAlone, Runs
<1>11. u \notin astray' =>
          /\ \A s \in Tap : Runs(s) /\ By(s) = u => s = t
          /\ \A e \in Device : Owner[e] = u => \A x \in Queued(e) : x.tap = t
          /\ LikesOf(u) \subseteq {w.doc}
  BY <1>1, LastWrite, ZenonT(30)
<1>12. CalmIsCalm'
  <2> SUFFICES ASSUME NEW v \in User \ astray'
               PROVE  /\ \A s \in Tap : Runs(s)' /\ By(s) = v => s \in alone'
                      /\ \A e, f \in Device : Owner[e] = v /\ Owner[f] = v =>
                            \A x \in Queued(e)', y \in Queued(f)' : x = y
                      /\ \A e \in Device : Owner[e] = v => \A x \in Queued(e)' :
                            /\ {l \in likes' : By(l) = v} \subseteq {x.doc}
                            /\ Runs(x.tap)' => found'[x.tap] \subseteq {x.doc}
    BY NextCalm
  <2>1. CASE v = u
    BY <1>2, <1>8, <1>11, <2>1
  <2>2. CASE v # u
    <3>1. v \notin astray /\ v \in User
      BY <1>3, <2>2
    <3>2. \A e \in Device : Owner[e] = v => Queued(e)' = Queued(e)
      BY <1>2, <2>2
    <3>3. {l \in likes' : By(l) = v} = LikesOf(v)
      BY <1>1, <2>2 DEF LikesOf
    <3>4. \A s \in Tap : Runs(s)' /\ By(s) = v => s \in alone'
      BY <1>1, <1>8, <2>2, <3>1 DEF CalmIsCalm, Running
    <3>5. ASSUME NEW e \in Device, Owner[e] = v, NEW x \in Queued(e)'
          PROVE  /\ LikesOf(v) \subseteq {x.doc}
                 /\ Runs(x.tap)' => found'[x.tap] \subseteq {x.doc}
      <4>1. x \in Queued(e) /\ found'[x.tap] = found[x.tap]
        BY <1>2, <3>5
      <4> QED
        BY <1>2, <1>8, <3>1, <3>5, <4>1 DEF CalmIsCalm
    <3>6. \A e, f \in Device : Owner[e] = v /\ Owner[f] = v =>
             \A x \in Queued(e)', y \in Queued(f)' : x = y
      BY <3>1, <3>2 DEF CalmIsCalm
    <3> QED
      BY <3>3, <3>4, <3>5, <3>6
  <2> QED
    BY <2>1, <2>2
<1>13. OneLikePerUser'
  <2> SUFFICES ASSUME NEW v \in User \ astray', NEW k \in likes', NEW l \in likes',
                      By(k) = v, By(l) = v
               PROVE  k = l
    BY NextOne
  <2>1. CASE v = u
    BY <1>1, <1>11, <2>1 DEF LikesOf
  <2>2. CASE v # u
    BY <1>1, <1>3, <2>2 DEF OneLikePerUser, LikesOf
  <2> QED
    BY <2>1, <2>2
<1> QED
  BY <1>4, <1>5, <1>6, <1>7, <1>10, <1>12, <1>13

\* The answer to one deletion of a loop, and the next deletion.
LEMMA NextDeletionLikeInv ==
  ASSUME LikeInv, NEW d \in Device, queue[d] # <<>>, NEW w, w = Head(queue[d]),
         Apply(w), at' = at, late' = late, Runs(w.tap),
         NEW left, left = found[w.tap] \ {w.doc}, left # {},
         NEW v \in Write, NextWrite(w.tap, left, v),
         queue' = [queue EXCEPT ![d] = Append(Tail(@), v)],
         found' = [found EXCEPT ![w.tap] = left],
         UNCHANGED <<pc, alone, astray>>
  PROVE  LikeInv'
<1> USE DEF LikeInv
<1> DEFINE t == w.tap
           u == Owner[d]
<1>1. /\ w \in Queued(d) /\ t \in Tap /\ w.doc \in Tap /\ w.op \in {"add", "delete"}
      /\ u \in User /\ By(t) = u /\ By(w.doc) = u /\ at[t] = d
      /\ likes' \subseteq known' /\ known' \subseteq Tap
      /\ known' \subseteq known \union {w.doc}
      /\ \A l : By(l) # u => (l \in likes' <=> l \in likes)
      /\ w.op = "delete" => likes' = likes \ {w.doc}
  BY HandledWrite
<1>2. /\ found[t] # {} /\ pc[t] = "write" /\ w.op = "delete" /\ w.doc \in found[t]
      /\ found'[t] = left /\ left \subseteq found[t] /\ left \subseteq Tap
      /\ \A s \in Tap : s # t => found'[s] = found[s]
      /\ v.tap = t /\ v.op = "delete" /\ v.doc \in left
  BY <1>1 DEF QueuedByTaps, FoundIsOwn, NextWrite, TypeOK
<1>3. /\ queue' \in [Device -> Seq(Write)]
      /\ \A e \in Device : OncePerTap(queue'[e])
      /\ \A e \in Device : Queued(e)' = IF e = d THEN (Queued(e) \ {w}) \union {v} ELSE Queued(e)
      /\ \A e \in Device : \A x \in Queued(e) : x.tap \in Tap /\ (x = w \/ x.tap # t)
  <2>1. queue[d] \in Seq(Write) /\ OncePerTap(queue[d])
    BY DEF TypeOK, QueuedByTaps
  <2>2. /\ Tail(queue[d]) \in Seq(Write) /\ OncePerTap(Tail(queue[d]))
        /\ Elements(Tail(queue[d])) = Elements(queue[d]) \ {w}
        /\ \A x \in Elements(Tail(queue[d])) : x.tap # t
    BY <2>1, ShortenedQueue
  <2>3. queue'[d] = Append(Tail(queue[d]), v) /\ \A e \in Device : e # d => queue'[e] = queue[e]
    BY DEF TypeOK
  <2>4. /\ queue'[d] \in Seq(Write) /\ OncePerTap(queue'[d])
        /\ Elements(queue'[d]) = (Elements(queue[d]) \ {w}) \union {v}
    <3>1. \A x \in Elements(Tail(queue[d])) : x.tap # v.tap
      BY <1>2, <2>2
    <3>2. /\ Append(Tail(queue[d]), v) \in Seq(Write) /\ OncePerTap(Append(Tail(queue[d]), v))
          /\ Elements(Append(Tail(queue[d]), v)) = Elements(Tail(queue[d])) \union {v}
      BY <2>2, <3>1, AppendedQueue
    <3> QED
      BY <2>2, <2>3, <3>2
  <2>5. queue' \in [Device -> Seq(Write)]
    BY <2>3, <2>4 DEF TypeOK
  <2>6. \A e \in Device : OncePerTap(queue'[e])
    BY <2>3, <2>4 DEF QueuedByTaps
  <2>7. \A e \in Device : Queued(e)' = IF e = d THEN (Queued(e) \ {w}) \union {v} ELSE Queued(e)
    <3>1. {queue'[d][i] : i \in DOMAIN queue'[d]}
             = (Queued(d) \ {w}) \union {v}
      BY <2>4 DEF Elements, Queued
    <3>2. \A e \in Device :
             Queued(e)' = IF e = d THEN {queue'[d][i] : i \in DOMAIN queue'[d]} ELSE Queued(e)
      BY <2>3, OneQueueChanges
    <3>3. \A e \in Device : e = d => (Queued(e) \ {w}) \union {v} = (Queued(d) \ {w}) \union {v}
      OBVIOUS
    <3> QED
      BY <3>1, <3>2, <3>3
  <2>8. \A e \in Device : \A x \in Queued(e) : x.tap \in Tap /\ (x = w \/ x.tap # t)
    <3>1. \A x \in Queued(d) : x = w \/ x.tap # t
      BY <2>2 DEF Queued, Elements
    <3>2. \A e \in Device : e # d => \A x \in Queued(e) : x.tap # t
      BY <1>1 DEF QueuedByTaps
    <3>3. \A e \in Device : \A x \in Queued(e) : x.tap \in Tap
      BY QueuedAreWrites
    <3> QED
      BY <3>1, <3>2, <3>3
  <2> QED
    BY <2>5, <2>6, <2>7, <2>8
<1>4. u \in astray
  BY <1>1, <1>2 DEF CalmIsCalm
<1>5. TypeOK'
  BY <1>1, <1>2, <1>3 DEF TypeOK
<1>6. QueuedByTaps'
  <2> SUFFICES ASSUME NEW e \in Device, NEW x \in Queued(e)'
               PROVE  /\ at[x.tap] = e /\ By(x.doc) = Owner[e]
                      /\ pc'[x.tap] \in {"write", "over"}
                      /\ x.op = "add" => x.doc = x.tap
                      /\ Runs(x.tap)' => IF x.op = "add" THEN found'[x.tap] = {}
                                         ELSE x.doc \in found'[x.tap]
    BY <1>3, NextQueued
  <2>1. CASE x = v
    <3>1. e = d \/ x \in Queued(e)
      BY <1>3
    <3>2. e = d
      BY <1>1, <1>2, <2>1, <3>1, SMTT(20) DEF QueuedByTaps
    <3> QED
      BY <1>1, <1>2, <2>1, <3>2 DEF FoundIsOwn
  <2>2. CASE x # v
    <3>1. x \in Queued(e) /\ x.tap \in Tap /\ x.tap # t
      BY <1>1, <1>3, <2>2 DEF QueuedByTaps
    <3> QED
      BY <1>2, <3>1 DEF QueuedByTaps, Runs
  <2> QED
    BY <2>1, <2>2
<1>7. FoundIsOwn'
  BY <1>1, <1>2, SMTT(20) DEF FoundIsOwn, By
<1>8. NotBeforeRead'
  <2>1. \A e \in Device : \A x \in Queued(e)' : x \in Queued(e) \/ x = v
    BY <1>3
  <2> QED
    BY <1>1, <1>2, <2>1, SMTT(20) DEF NotBeforeRead
<1>9. \A s \in alone : s # t => By(s) # u
  BY <1>1 DEF AloneIsAlone
<1>10. AloneIsAlone'
  <2> SUFFICES ASSUME NEW s \in alone'
               PROVE  /\ Runs(s)'
                      /\ \A r \in Tap : Runs(r)' /\ By(r) = By(s) => r = s
                      /\ \A e \in Device : Owner[e] = By(s) => \A x \in Queued(e)' : x.tap = s
                      /\ pc'[s] = "write" => {l \in likes' : By(l) = By(s)} \subseteq
                                                IF found'[s] = {} THEN {s} ELSE found'[s]
    BY NextAlone
  <2>1. s \in alone /\ s \in Tap
    BY DEF TypeOK
  <2>2. \A r \in Tap : Runs(r)' /\ By(r) = By(s) => r = s
    BY <2>1 DEF AloneIsAlone, Runs
  <2>3. CASE s = t
    <3>1. LikesOf(u) \subseteq found[t]
      BY <1>1, <1>2, <2>1, <2>3 DEF AloneIsAlone
    <3>2. {l \in likes' : By(l) = u} \subseteq left
      BY <1>1, <1>2, <3>1 DEF LikesOf
    <3>3. \A e \in Device : Owner[e] = u => \A x \in Queued(e)' : x.tap = t
      BY <1>1, <1>2, <1>3, <2>1, <2>3 DEF AloneIsAlone
    <3> QED
      BY <1>1, <1>2, <2>2, <2>3, <3>2, <3>3 DEF Runs
  <2>4. CASE s # t
    <3>1. By(s) # u
      BY <1>9, <2>1, <2>4
    <3>2. {l \in likes' : By(l) = By(s)} = LikesOf(By(s))
      BY <1>1, <3>1 DEF LikesOf
    <3> QED
      BY <1>2, <1>3, <2>1, <2>2, <2>4, <3>1, <3>2 DEF AloneIsAlone, Runs
  <2> QED
    BY <2>3, <2>4
<1>11. CalmIsCalm'
  <2> SUFFICES ASSUME NEW y \in User \ astray'
               PROVE  /\ \A s \in Tap : Runs(s)' /\ By(s) = y => s \in alone'
                      /\ \A e, f \in Device : Owner[e] = y /\ Owner[f] = y =>
                            \A x \in Queued(e)', z \in Queued(f)' : x = z
                      /\ \A e \in Device : Owner[e] = y => \A x \in Queued(e)' :
                            /\ {l \in likes' : By(l) = y} \subseteq {x.doc}
                            /\ Runs(x.tap)' => found'[x.tap] \subseteq {x.doc}
    BY NextCalm
  <2>1. y \in User /\ y \notin astray /\ y # u
    BY <1>4
  <2>2. \A e \in Device : Owner[e] = y => Queued(e)' = Queued(e)
    BY <1>3, <2>1
  <2>3. {l \in likes' : By(l) = y} = LikesOf(y)
    BY <1>1, <2>1 DEF LikesOf
  <2>4. \A e \in Device : Owner[e] = y => \A x \in Queued(e) : found'[x.tap] = found[x.tap]
    BY <1>1, <1>2, <1>3, <2>1, SMTT(20) DEF QueuedByTaps
  <2>5. \A s \in Tap : Runs(s)' /\ By(s) = y => s \in alone'
    BY <2>1 DEF CalmIsCalm, Running, Runs
  <2>6. \A e, f \in Device : Owner[e] = y /\ Owner[f] = y =>
           \A x \in Queued(e)', z \in Queued(f)' : x = z
    BY <2>1, <2>2 DEF CalmIsCalm
  <2>7. \A e \in Device : Owner[e] = y => \A x \in Queued(e)' :
           LikesOf(y) \subseteq {x.doc} /\ (Runs(x.tap)' => found'[x.tap] \subseteq {x.doc})
    BY <2>1, <2>2, <2>4 DEF CalmIsCalm, Runs
  <2> QED
    BY <2>3, <2>5, <2>6, <2>7
<1>12. OneLikePerUser'
  <2> SUFFICES ASSUME NEW y \in User \ astray', NEW k \in likes', NEW l \in likes',
                      By(k) = y, By(l) = y
               PROVE  k = l
    BY NextOne
  <2>1. y # u
    BY <1>4
  <2> QED
    BY <1>1, <2>1 DEF OneLikePerUser, LikesOf
<1> QED
  BY <1>5, <1>6, <1>7, <1>8, <1>10, <1>11, <1>12

\* What the end of a tap amounts to, for one killed before too.
LEMMA HandleLikeInv ==
  ASSUME LikeInv, NEW d \in Device, Handle(d)
  PROVE  LikeInv'
<1> USE DEF LikeInv
<1> DEFINE w == Head(queue[d])
<1>1. queue[d] # <<>> /\ Apply(w) /\ Answered(w, d) /\ late' = late /\ at' = at
  BY DEF Handle
<1>2. /\ w \in Queued(d) /\ w.tap \in Tap /\ By(w.tap) = Owner[d]
  BY <1>1, HandledWrite
<1> HIDE DEF w
<1>3. CASE ~Runs(w.tap)
  <2>1. queue' = [queue EXCEPT ![d] = Tail(@)] /\ UNCHANGED <<pc, found, alone, astray>>
    BY <1>1, <1>3 DEF Answered
  <2>2. pc[w.tap] = "over" /\ found[w.tap] = {} /\ w.tap \notin alone
    BY <1>2, <1>3 DEF QueuedByTaps, FoundIsOwn, AloneIsAlone, Runs
  <2> QED
    BY <1>1, <2>1, <2>2, LastAnswerLikeInv DEF w, TypeOK
<1>4. CASE Runs(w.tap) /\ found[w.tap] \ {w.doc} # {}
  <2>1. PICK v \in Write : /\ NextWrite(w.tap, found[w.tap] \ {w.doc}, v)
                           /\ queue' = [queue EXCEPT ![d] = Append(Tail(@), v)]
    BY <1>1, <1>4 DEF Answered
  <2>2. /\ found' = [found EXCEPT ![w.tap] = found[w.tap] \ {w.doc}]
        /\ UNCHANGED <<pc, alone, astray>>
    BY <1>1, <1>4 DEF Answered
  <2> QED
    BY <1>1, <1>4, <2>1, <2>2, NextDeletionLikeInv DEF w
<1>5. CASE Runs(w.tap) /\ found[w.tap] \ {w.doc} = {}
  <2>1. /\ pc' = [pc EXCEPT ![w.tap] = "over"]
        /\ found' = [found EXCEPT ![w.tap] = {}]
        /\ queue' = [queue EXCEPT ![d] = Tail(@)]
        /\ alone' = alone \ {w.tap}
        /\ astray' = IF w.op = "delete" /\ w.tap \in alone THEN astray \ {Owner[d]} ELSE astray
    BY <1>1, <1>2, <1>5 DEF Answered
  <2>2. /\ pc' \in [Tap -> {"new", "get", "write", "over"}] /\ found' \in [Tap -> SUBSET Tap]
        /\ pc'[w.tap] = "over" /\ found'[w.tap] = {}
        /\ \A s \in Tap : s # w.tap => pc'[s] = pc[s] /\ found'[s] = found[s]
    BY <1>2, <2>1 DEF TypeOK
  <2> QED
    BY <1>1, <1>5, <2>1, <2>2, LastAnswerLikeInv DEF w
<1> QED
  BY <1>3, <1>4, <1>5

LEMMA StepLikeInv == LikeInv /\ [Next]_vars => LikeInv'
<1> SUFFICES ASSUME LikeInv, [Next]_vars PROVE LikeInv'
  OBVIOUS
<1>1. ASSUME NEW t \in Tap, Press(t) PROVE LikeInv'
  BY <1>1, PressLikeInv
<1>2. ASSUME NEW t \in Tap, Read(t) PROVE LikeInv'
  BY <1>2, ReadLikeInv
<1>3. ASSUME NEW t \in Tap, ReadError(t) PROVE LikeInv'
  BY <1>3, SameQueues, EndLikeInv DEF ReadError
<1>4. ASSUME NEW d \in Device, Handle(d) PROVE LikeInv'
  BY <1>4, HandleLikeInv
<1>5. ASSUME NEW d \in Device, Refuse(d) PROVE LikeInv'
  BY <1>5, RefuseLikeInv
<1>6. ASSUME NEW d \in Device, Kill(d) PROVE LikeInv'
  <2>1. End({t \in Tap : Runs(t) /\ at[t] = d})
    BY <1>6 DEF Kill
  <2> QED
    BY <1>6, <2>1, SameQueues, EndLikeInv DEF Kill
<1>7. ASSUME NEW d \in Device, Lose(d) PROVE LikeInv'
  BY <1>7, LoseLikeInv
<1>8. ASSUME NEW w \in late, HandleLate(w) PROVE LikeInv'
  BY <1>8, HandleLateLikeInv
<1>9. CASE UNCHANGED vars
  <2>1. \A d \in Device : Queued(d)' = Queued(d)
    BY <1>9, SameQueues DEF vars
  <2>2. TypeOK' /\ FoundIsOwn' /\ NotBeforeRead'
    BY <1>9, <2>1 DEF vars, LikeInv, TypeOK, FoundIsOwn, NotBeforeRead, By
  <2>5. QueuedByTaps'
    BY <1>9, <2>1 DEF vars, LikeInv, QueuedByTaps, By, Runs
  <2>3. AloneIsAlone' /\ OneLikePerUser'
    BY <1>9, <2>1 DEF vars, LikeInv, AloneIsAlone, OneLikePerUser, LikesOf, By, Runs
  <2>4. CalmIsCalm'
    BY <1>9, <2>1 DEF vars, LikeInv, CalmIsCalm, Running, LikesOf, By, Runs
  <2> QED
    BY <2>2, <2>3, <2>4, <2>5 DEF LikeInv
<1> QED
  BY <1>1, <1>2, <1>3, <1>4, <1>5, <1>6, <1>7, <1>8, <1>9 DEF Next

LEMMA LikeInvHolds == Spec => []LikeInv
BY InitLikeInv, StepLikeInv, PTL DEF Spec

\* The variables keep their types in every step of every tap.
THEOREM TypeCorrect == Spec => []TypeOK
<1>1. LikeInv => TypeOK
  BY DEF LikeInv
<1> QED
  BY <1>1, LikeInvHolds, PTL

\* A user of likeDislikePostProvider whose taps settled one after the other,
\* each having read what the server had, has at most one like document of the
\* post, whatever was killed, refused, lost or sent again; and so has one whose
\* duplicates a lone dislike has cleared.
THEOREM AtMostOneLike == Spec => []OneLikePerUser
<1>1. LikeInv => OneLikePerUser
  BY DEF LikeInv
<1> QED
  BY <1>1, LikeInvHolds, PTL

----------------------------------------------------------------------------
(* LikeToggle implements LikeFlip.                                          *)

Liked == [u \in User |-> u \notin astray /\ HasLiked(u)]
Phases == [u \in User |-> Phase(u)]

\* The phase of a user's tap, said without the order of the queues: in this
\* state, and in the next.
LEMMA PhaseIs ==
  ASSUME TypeOK, NEW u \in User \ astray
  PROVE  /\ \/ \E t \in Tap : Runs(t) /\ By(t) = u
            \/ \E d \in Device : Owner[d] = u /\ Queued(d) # {}
            \/ Phase(u) = "idle"
         /\ \/ \E t \in Tap : Runs(t) /\ By(t) = u
            \/ \E d \in Device : Owner[d] = u /\ Queued(d) # {}
            => Phase(u) = IF \E d \in Device : Owner[d] = u /\ \E w \in Queued(d) :
                                w.op = "add" <=> w.doc \in likes
                          THEN "flipped" ELSE "pressed"
<1>1. \A d \in Device : queue[d] = <<>> <=> Queued(d) = {}
  BY EmptyQueue DEF TypeOK, Queued, Elements
<1>2. Unsettled(u) <=> \/ \E t \in Tap : Runs(t) /\ By(t) = u
                       \/ \E d \in Device : Owner[d] = u /\ Queued(d) # {}
  BY <1>1 DEF Unsettled, Running
<1>3. \A d \in Device : \A w \in Queued(d) : Effective(w) <=> (w.op = "add" <=> w.doc \in likes)
  BY DEF Effective
<1> QED
  BY <1>2, <1>3 DEF Phase

LEMMA NextPhaseIs ==
  ASSUME TypeOK', at' = at, NEW u \in User \ astray'
  PROVE  /\ \/ \E t \in Tap : Runs(t)' /\ By(t) = u
            \/ \E d \in Device : Owner[d] = u /\ Queued(d)' # {}
            \/ Phase(u)' = "idle"
         /\ \/ \E t \in Tap : Runs(t)' /\ By(t) = u
            \/ \E d \in Device : Owner[d] = u /\ Queued(d)' # {}
            => Phase(u)' = IF \E d \in Device : Owner[d] = u /\ \E w \in Queued(d)' :
                                 w.op = "add" <=> w.doc \in likes'
                           THEN "flipped" ELSE "pressed"
<1>1. \A d \in Device : queue'[d] = <<>> <=> Queued(d)' = {}
  <2>1. \A d \in Device : queue'[d] \in Seq(Write)
    BY DEF TypeOK
  <2> QED
    BY <2>1, EmptyQueue DEF Queued, Elements
<1>2. Unsettled(u)' <=> \/ \E t \in Tap : Runs(t)' /\ By(t) = u
                        \/ \E d \in Device : Owner[d] = u /\ Queued(d)' # {}
  BY <1>1 DEF Unsettled, Running, By
<1>3. \A d \in Device : \A w \in Queued(d)' : Effective(w)' <=> (w.op = "add" <=> w.doc \in likes')
  BY DEF Effective
<1> QED
  BY <1>2, <1>3 DEF Phase

\* A step that concerns one user alone.
LEMMA OneUserFlips ==
  ASSUME LikeInv, LikeInv', at' = at, NEW u \in User,
         \A t \in Tap : By(t) # u => pc'[t] = pc[t],
         \A d \in Device : Owner[d] # u => Queued(d)' = Queued(d),
         \A l \in Tap : By(l) # u => (l \in likes' <=> l \in likes),
         \A v \in User \ {u} : v \in astray' <=> v \in astray,
         \/ (u \in astray' <=> u \in astray)
            /\ (u \notin astray => (HasLiked(u)' <=> HasLiked(u)) /\ Phase(u)' = Phase(u))
         \/ /\ u \notin astray /\ u \notin astray' /\ Phase(u) = "idle" /\ Phase(u)' = "pressed"
            /\ HasLiked(u)' <=> HasLiked(u)
         \/ /\ u \notin astray /\ u \notin astray' /\ Phase(u) = "pressed" /\ Phase(u)' = "flipped"
            /\ HasLiked(u)' <=> ~HasLiked(u)
         \/ /\ u \notin astray /\ u \notin astray' /\ Phase(u) # "idle" /\ Phase(u)' = "idle"
            /\ \/ HasLiked(u)' <=> HasLiked(u)
               \/ Phase(u) = "pressed" /\ (HasLiked(u)' <=> ~HasLiked(u))
         \/ u \notin astray /\ u \in astray'
         \/ u \in astray /\ u \notin astray' /\ ~HasLiked(u)' /\ Phase(u)' = "idle"
  PROVE  Flip!Next \/ UNCHANGED <<Liked, Phases, astray>>
<1>1. astray \subseteq User /\ astray' \subseteq User /\ likes \subseteq Tap /\ likes' \subseteq Tap
  BY DEF LikeInv, TypeOK
<1>2. \A v \in User \ {u} : v \notin astray => (HasLiked(v)' <=> HasLiked(v)) /\ Phase(v)' = Phase(v)
  <2> SUFFICES ASSUME NEW v \in User \ {u}, v \notin astray
               PROVE  (HasLiked(v)' <=> HasLiked(v)) /\ Phase(v)' = Phase(v)
    OBVIOUS
  <2>1. HasLiked(v)' <=> HasLiked(v)
    BY <1>1 DEF HasLiked, LikesOf, By
  <2>2. \A t \in Tap : By(t) = v => (Runs(t)' <=> Runs(t))
    BY DEF Runs
  <2>3. \A d \in Device : Owner[d] = v => Queued(d)' = Queued(d)
    OBVIOUS
  <2>4. \A d \in Device : Owner[d] = v => \A w \in Queued(d) :
           w.doc \in Tap /\ (w.doc \in likes' <=> w.doc \in likes)
    BY QueuedAreWrites DEF LikeInv, QueuedByTaps
  <2>5. v \notin astray'
    OBVIOUS
  <2>6. TypeOK /\ TypeOK'
    BY DEF LikeInv
  <2>7. (\E d \in Device : Owner[d] = v /\ \E w \in Queued(d)' : w.op = "add" <=> w.doc \in likes')
           <=> (\E d \in Device : Owner[d] = v /\ \E w \in Queued(d) : w.op = "add" <=> w.doc \in likes)
    BY <2>3, <2>4
  <2>8. /\ (\E t \in Tap : Runs(t)' /\ By(t) = v) <=> (\E t \in Tap : Runs(t) /\ By(t) = v)
        /\ (\E d \in Device : Owner[d] = v /\ Queued(d)' # {})
              <=> (\E d \in Device : Owner[d] = v /\ Queued(d) # {})
    BY <2>2, <2>3
  <2> QED
    BY <2>1, <2>5, <2>6, <2>7, <2>8, PhaseIs, NextPhaseIs
<1>3. /\ Liked = [v \in User |-> v \notin astray /\ HasLiked(v)]
      /\ Liked' = [v \in User |-> v \notin astray' /\ HasLiked(v)']
      /\ Phases = [v \in User |-> Phase(v)] /\ Phases' = [v \in User |-> Phase(v)']
  BY DEF Liked, Phases
<1>4. /\ \A v \in User : v \in astray => Phase(v) = "idle"
      /\ \A v \in User : v \in astray' => Phase(v)' = "idle"
  BY DEF Phase
<1>5. \A v \in User \ {u} : Liked'[v] = Liked[v] /\ Phases'[v] = Phases[v]
  BY <1>2, <1>3, <1>4
<1>6. /\ Liked[u] = (u \notin astray /\ HasLiked(u)) /\ Liked'[u] = (u \notin astray' /\ HasLiked(u)')
      /\ Phases[u] = Phase(u) /\ Phases'[u] = Phase(u)'
  BY <1>3
<1>7. /\ \A b : Liked'[u] = b => Liked' = [Liked EXCEPT ![u] = b]
      /\ \A p : Phases'[u] = p => Phases' = [Phases EXCEPT ![u] = p]
      /\ Liked'[u] = Liked[u] => Liked' = Liked
      /\ Phases'[u] = Phases[u] => Phases' = Phases
  BY <1>3, <1>5
<1>8. /\ Flip!Begin(u) <=> /\ u \notin astray /\ Phases[u] = "idle"
                           /\ Phases' = [Phases EXCEPT ![u] = "pressed"]
                           /\ Liked' = Liked /\ astray' = astray
      /\ Flip!Flip(u) <=> /\ u \notin astray /\ Phases[u] = "pressed"
                          /\ Liked' = [Liked EXCEPT ![u] = ~@]
                          /\ Phases' = [Phases EXCEPT ![u] = "flipped"]
                          /\ astray' = astray
      /\ Flip!Settle(u) <=> /\ u \notin astray /\ Phases[u] # "idle"
                            /\ Phases' = [Phases EXCEPT ![u] = "idle"]
                            /\ \/ Liked' = Liked
                               \/ Phases[u] = "pressed" /\ Liked' = [Liked EXCEPT ![u] = ~@]
                            /\ astray' = astray
      /\ Flip!Leave(u) <=> /\ u \notin astray /\ astray' = astray \union {u}
                           /\ Liked' = [Liked EXCEPT ![u] = FALSE]
                           /\ Phases' = [Phases EXCEPT ![u] = "idle"]
      /\ Flip!Return(u) <=> /\ u \in astray /\ astray' = astray \ {u}
                            /\ Liked' = Liked /\ Phases' = Phases
  BY DEF Flip!Begin, Flip!Flip, Flip!Settle, Flip!Leave, Flip!Return, Liked, Phases
<1> HIDE DEF Liked, Phases
<1>9. CASE (u \in astray' <=> u \in astray)
            /\ (u \notin astray => (HasLiked(u)' <=> HasLiked(u)) /\ Phase(u)' = Phase(u))
  <2>1. astray' = astray
    BY <1>1, <1>9
  <2>2. Liked' = Liked /\ Phases' = Phases
    BY <1>4, <1>6, <1>7, <1>9
  <2> QED
    BY <2>1, <2>2
<1>10. CASE /\ u \notin astray /\ u \notin astray' /\ Phase(u) = "idle" /\ Phase(u)' = "pressed"
            /\ HasLiked(u)' <=> HasLiked(u)
  <2>1. astray' = astray
    BY <1>1, <1>10
  <2>2. Liked' = Liked
    BY <1>6, <1>7, <1>10
  <2>3. Flip!Begin(u)
    BY <1>6, <1>7, <1>8, <1>10, <2>1, <2>2
  <2> QED
    BY <2>3 DEF Flip!Next
<1>11. CASE /\ u \notin astray /\ u \notin astray' /\ Phase(u) = "pressed" /\ Phase(u)' = "flipped"
            /\ HasLiked(u)' <=> ~HasLiked(u)
  <2>1. astray' = astray
    BY <1>1, <1>11
  <2>2. Liked' = [Liked EXCEPT ![u] = ~@]
    BY <1>6, <1>7, <1>11, Zenon
  <2>3. Flip!Flip(u)
    BY <1>6, <1>7, <1>8, <1>11, <2>1, <2>2
  <2> QED
    BY <2>3 DEF Flip!Next
<1>12. CASE /\ u \notin astray /\ u \notin astray' /\ Phase(u) # "idle" /\ Phase(u)' = "idle"
            /\ \/ HasLiked(u)' <=> HasLiked(u)
               \/ Phase(u) = "pressed" /\ (HasLiked(u)' <=> ~HasLiked(u))
  <2>1. astray' = astray
    BY <1>1, <1>12
  <2>2. Liked' = Liked \/ (Phase(u) = "pressed" /\ Liked' = [Liked EXCEPT ![u] = ~@])
    BY <1>6, <1>7, <1>12, Zenon
  <2>3. Flip!Settle(u)
    BY <1>6, <1>7, <1>8, <1>12, <2>1, <2>2
  <2> QED
    BY <2>3 DEF Flip!Next
<1>13. CASE u \notin astray /\ u \in astray'
  <2>1. astray' = astray \union {u}
    BY <1>1, <1>13
  <2>2. Liked' = [Liked EXCEPT ![u] = FALSE]
    BY <1>6, <1>7, <1>13
  <2>3. Flip!Leave(u)
    BY <1>4, <1>6, <1>7, <1>8, <1>13, <2>1, <2>2
  <2> QED
    BY <2>3 DEF Flip!Next
<1>14. CASE u \in astray /\ u \notin astray' /\ ~HasLiked(u)' /\ Phase(u)' = "idle"
  <2>1. astray' = astray \ {u}
    BY <1>1, <1>14
  <2>2. Liked' = Liked /\ Phases' = Phases
    BY <1>4, <1>6, <1>7, <1>14
  <2>3. Flip!Return(u)
    BY <1>8, <1>14, <2>1, <2>2
  <2> QED
    BY <2>3 DEF Flip!Next
<1> QED
  BY <1>9, <1>10, <1>11, <1>12, <1>13, <1>14

\* A press begins a flip, or takes its user out of the promise.
LEMMA PressFlips ==
  ASSUME LikeInv, LikeInv', NEW t \in Tap, Press(t)
  PROVE  Flip!Next \/ UNCHANGED <<Liked, Phases, astray>>
<1>0. PICK u \in User : u = By(t)
  BY ConstantsAssumption DEF LikeInv, TypeOK, By
<1>1. TypeOK /\ TypeOK' /\ at' = at /\ likes' = likes /\ queue' = queue
  BY DEF Press, LikeInv
<1>2. pc'[t] = "get" /\ \A s \in Tap : By(s) # u => pc'[s] = pc[s]
  BY <1>0, <1>1 DEF Press, TypeOK
<1>3. \A d \in Device : Queued(d)' = Queued(d)
  BY <1>1 DEF Queued
<1>4. \A v \in User \ {u} : v \in astray' <=> v \in astray
  BY <1>0 DEF Press, Strays
<1>5. HasLiked(u)' <=> HasLiked(u)
  BY <1>1 DEF HasLiked, LikesOf, By
<1>6. CASE u \in astray
  <2>1. u \in astray'
    BY <1>0, <1>6 DEF Press, Strays
  <2> QED
    BY <1>1, <1>2, <1>3, <1>4, <1>6, <2>1, OneUserFlips
<1>7. CASE u \notin astray /\ Unsettled(u)
  <2>1. u \in astray'
    BY <1>0, <1>7 DEF Press, Strays
  <2> QED
    BY <1>1, <1>2, <1>3, <1>4, <1>7, <2>1, OneUserFlips
<1>8. CASE u \notin astray /\ ~Unsettled(u)
  <2>1. u \notin astray'
    BY <1>0, <1>8 DEF Press
  <2>2. Phase(u) = "idle"
    BY <1>8 DEF Phase
  <2>3. \A d \in Device : Owner[d] = u => Queued(d)' = {}
    BY <1>1, <1>3, <1>8, UnsettledIs
  <2>4. Runs(t)' /\ By(t) = u
    BY <1>0, <1>2 DEF Runs
  <2>5. Phase(u)' = "pressed"
    BY <1>1, <2>1, <2>3, <2>4, NextPhaseIs
  <2> QED
    BY <1>1, <1>2, <1>3, <1>4, <1>5, <1>8, <2>1, <2>2, <2>5, OneUserFlips
<1> QED
  BY <1>6, <1>7, <1>8

\* A read queues a write the server has not handled, or takes its user out of
\* the promise.
LEMMA ReadFlips ==
  ASSUME LikeInv, LikeInv', NEW t \in Tap, Read(t)
  PROVE  Flip!Next \/ UNCHANGED <<Liked, Phases, astray>>
<1>0. /\ \E u \in User : u = By(t)
      /\ \E h \in Device : h = at[t]
  BY ConstantsAssumption DEF LikeInv, TypeOK, By
<1>10. PICK u \in User : u = By(t)
  BY <1>0
<1>11. PICK h \in Device : h = at[t]
  BY <1>0
<1>1. PICK S \in SUBSET {l \in known : By(l) = u}, w \in Write :
          LET docs == (S \union Added(h)) \ Deleted(h)
          IN  /\ NextWrite(t, docs, w)
              /\ found' = [found EXCEPT ![t] = docs]
              /\ queue' = [queue EXCEPT ![h] = Append(@, w)]
              /\ IF S = LikesOf(u) THEN UNCHANGED <<alone, astray>> ELSE Strays(u)
  BY <1>10, <1>11 DEF Read
<1>2. /\ TypeOK /\ TypeOK' /\ at' = at /\ likes' = likes
      /\ Owner[h] = u /\ pc[t] = "get" /\ By(t) = u
  BY <1>10, <1>11 DEF Read, LikeInv, By
<1>3. pc'[t] = "write" /\ \A s \in Tap : By(s) # u => pc'[s] = pc[s]
  BY <1>2 DEF Read, TypeOK
<1>4. \A d \in Device : Owner[d] # u => Queued(d)' = Queued(d)
  BY <1>1, <1>2 DEF TypeOK, Queued
<1>5. \A v \in User \ {u} : v \in astray' <=> v \in astray
  BY <1>1 DEF Strays
<1>6. HasLiked(u)' <=> HasLiked(u)
  BY <1>2 DEF HasLiked, LikesOf, By
<1>7. CASE u \in astray
  <2>1. u \in astray'
    BY <1>1, <1>7 DEF Strays
  <2> QED
    BY <1>2, <1>3, <1>4, <1>5, <1>7, <2>1, OneUserFlips
<1>8. CASE u \notin astray /\ S # LikesOf(u)
  <2>1. u \in astray'
    BY <1>1, <1>8 DEF Strays
  <2> QED
    BY <1>2, <1>3, <1>4, <1>5, <1>8, <2>1, OneUserFlips
<1>9. CASE u \notin astray /\ S = LikesOf(u)
  <2>1. u \notin astray'
    BY <1>1, <1>9
  <2>2. t \in alone
    BY <1>2, <1>9 DEF LikeInv, CalmIsCalm, Running, Runs
  <2>3. /\ \A d \in Device : Owner[d] = u => Queued(d) = {}
        /\ (S \union Added(h)) \ Deleted(h) = LikesOf(u)
    BY <1>2, <1>11, <1>9, <2>2, LoneReads
  <2>4. Phase(u) = "pressed"
    <3>1. Runs(t) /\ By(t) = u
      BY <1>2 DEF Runs
    <3> QED
      BY <1>2, <1>9, <2>3, <3>1, PhaseIs
  <2>5. ~(w.op = "add" <=> w.doc \in likes)
    <3>1. t \notin likes
      BY <1>2 DEF LikeInv, NotBeforeRead, TypeOK
    <3> QED
      BY <1>1, <2>3, <3>1 DEF NextWrite, LikesOf
  <2>6. \A d \in Device : Owner[d] = u => \A x \in Queued(d)' : x = w
    <3>1. queue[h] \in Seq(Write) /\ Elements(queue[h]) = {} /\ OncePerTap(queue[h])
      BY <1>2, <2>3, ZenonT(30) DEF TypeOK, Queued, Elements, LikeInv, QueuedByTaps
    <3>2. queue'[h] = Append(queue[h], w) /\ \A d \in Device : d # h => queue'[d] = queue[d]
      BY <1>1, <1>2 DEF TypeOK
    <3>3. Elements(queue'[h]) = {w}
      BY <3>1, <3>2, AppendedQueue
    <3>4. \A d \in Device : d # h => Queued(d)' = Queued(d)
      BY <3>2 DEF Queued
    <3>5. \A d \in Device : d = h => Queued(d)' = {w}
      BY <3>3 DEF Queued, Elements
    <3> QED
      BY <2>3, <3>4, <3>5
  <2>7. Phase(u)' = "pressed"
    <3>1. Runs(t)' /\ By(t) = u
      BY <1>2, <1>3 DEF Runs
    <3>2. ~\E d \in Device : Owner[d] = u /\ \E x \in Queued(d)' : x.op = "add" <=> x.doc \in likes'
      BY <1>2, <2>5, <2>6
    <3> QED
      BY <1>2, <2>1, <3>1, <3>2, NextPhaseIs
  <2> QED
    BY <1>2, <1>3, <1>4, <1>5, <1>6, <1>9, <2>1, <2>4, <2>7, OneUserFlips
<1> QED
  BY <1>7, <1>8, <1>9

\* Taps of one user that end with an error or their process settle what was
\* begun, or leave it to the queue.
LEMMA EndFlips ==
  ASSUME LikeInv, LikeInv', NEW u \in User, NEW S \in SUBSET Tap, End(S),
         \A t \in S : By(t) = u,
         UNCHANGED <<likes, at, astray>>,
         \A d \in Device : Owner[d] # u => Queued(d)' = Queued(d),
         \/ \A d \in Device : Queued(d)' = Queued(d)
         \/ u \notin astray => \A d \in Device : Owner[d] = u => Queued(d)' = {},
         \/ \A d \in Device : Queued(d)' = Queued(d)
         \/ u \notin astray => \A t \in Tap : By(t) = u => ~Runs(t)'
  PROVE  Flip!Next \/ UNCHANGED <<Liked, Phases, astray>>
<1>1. TypeOK /\ TypeOK'
  BY DEF LikeInv
<1>2. /\ \A s \in Tap : By(s) # u => pc'[s] = pc[s]
      /\ \A s \in Tap : Runs(s)' => Runs(s)
  BY DEF End, Runs
<1>3. HasLiked(u)' <=> HasLiked(u)
  BY DEF HasLiked, LikesOf, By
<1>4. CASE u \in astray
  BY <1>2, <1>4, OneUserFlips
<1>5. CASE u \notin astray /\ Phase(u)' = Phase(u)
  BY <1>2, <1>3, <1>5, OneUserFlips
<1>6. CASE u \notin astray /\ Phase(u)' # Phase(u)
  <2>1. Phase(u)' = "idle"
    <3>1. CASE \A d \in Device : Queued(d)' = Queued(d)
      BY <1>1, <1>2, <1>6, <3>1, PhaseIs, NextPhaseIs
    <3>2. CASE /\ \A d \in Device : Owner[d] = u => Queued(d)' = {}
               /\ \A t \in Tap : By(t) = u => ~Runs(t)'
      BY <1>1, <1>6, <3>2, NextPhaseIs
    <3> QED
      BY <1>6, <3>1, <3>2
  <2> QED
    BY <1>2, <1>3, <1>6, <2>1, OneUserFlips
<1> QED
  BY <1>4, <1>5, <1>6

LEMMA RefuseFlips ==
  ASSUME LikeInv, LikeInv', NEW d \in Device, Refuse(d)
  PROVE  Flip!Next \/ UNCHANGED <<Liked, Phases, astray>>
<1> DEFINE w == Head(queue[d])
           S == {t \in Tap : Runs(t) /\ t = w.tap}
           u == Owner[d]
<1>1. /\ queue[d] # <<>> /\ queue' = [queue EXCEPT ![d] = Tail(@)] /\ End(S)
      /\ UNCHANGED <<likes, at, astray>> /\ u \in User
  BY ConstantsAssumption DEF Refuse
<1>2. /\ w \in Queued(d)
      /\ \A e \in Device : Queued(e)' \subseteq Queued(e)
      /\ \A e \in Device : e # d => Queued(e)' = Queued(e)
      /\ \A e \in Device : e = d => \A v \in Queued(e)' : v.tap # w.tap
  BY <1>1, QueueMovesOn
<1>3. at[w.tap] = d /\ w.tap \in Tap
  BY <1>2, QueuedAreWrites DEF LikeInv, QueuedByTaps
<1>4. \A t \in S : By(t) = u
  BY <1>3 DEF By
<1>5. \A e \in Device : Owner[e] # u => Queued(e)' = Queued(e)
  BY <1>2
<1> HIDE DEF w
<1>6. u \notin astray => /\ \A e \in Device : Owner[e] = u => Queued(e)' = {}
                         /\ \A t \in Tap : By(t) = u => ~Runs(t)'
  <2> SUFFICES ASSUME u \notin astray
               PROVE  /\ \A e \in Device : Owner[e] = u => Queued(e)' = {}
                      /\ \A t \in Tap : By(t) = u => ~Runs(t)'
    OBVIOUS
  <2>1. /\ \A s \in Tap : Runs(s) /\ By(s) = u => s = w.tap
        /\ \A e \in Device : Owner[e] = u => \A x \in Queued(e) : x.tap = w.tap
    BY <1>1, <1>2, LastWrite
  <2>2. \A e \in Device : Owner[e] = u /\ e # d => Queued(e) = {}
    BY <1>3, <2>1 DEF LikeInv, QueuedByTaps
  <2>3. \A e \in Device : Owner[e] = u => Queued(e)' = {}
    BY <1>2, <2>1, <2>2
  <2>4. \A t \in Tap : By(t) = u => ~Runs(t)'
    BY <1>1, <2>1 DEF End, Runs
  <2> QED
    BY <2>3, <2>4
<1> QED
  BY <1>1, <1>4, <1>5, <1>6, EndFlips

\* The answer to a write settles the tap, which flips now if the write had
\* not been handled before; the last answer of a lone dislike brings its user
\* back to the promise, with an empty heart.
LEMMA HandleFlips ==
  ASSUME LikeInv, LikeInv', NEW d \in Device, Handle(d)
  PROVE  Flip!Next \/ UNCHANGED <<Liked, Phases, astray>>
<1> DEFINE u == Owner[d]
<1>1. PICK w : w = Head(queue[d])
  OBVIOUS
<1>2. queue[d] # <<>> /\ Apply(w) /\ Answered(w, d) /\ at' = at
  BY <1>1 DEF Handle
<1>3. /\ w \in Queued(d) /\ w.tap \in Tap /\ w.doc \in Tap /\ w.op \in {"add", "delete"}
      /\ u \in User /\ By(w.tap) = u /\ By(w.doc) = u /\ at[w.tap] = d
      /\ \A l : By(l) # u => (l \in likes' <=> l \in likes)
  BY <1>1, <1>2, HandledWrite
<1>4. TypeOK /\ TypeOK' /\ likes' = Effect(w)
  BY <1>2 DEF LikeInv, Apply
<1> DEFINE left == found[w.tap] \ {w.doc}
           ends == Runs(w.tap) /\ left = {}
<1>5. /\ \A s \in Tap : By(s) # u => pc'[s] = pc[s]
      /\ \A e \in Device : Owner[e] # u => Queued(e)' = Queued(e)
      /\ \A v \in User \ {u} : v \in astray' <=> v \in astray
      /\ astray' \subseteq astray
      /\ u \in astray /\ u \notin astray' => ends /\ w.op = "delete" /\ w.tap \in alone
  <2>1. \A s \in Tap : By(s) # u => pc'[s] = pc[s]
    BY <1>2, <1>3, <1>4 DEF Answered, TypeOK
  <2>2. \A e \in Device : Owner[e] # u => Queued(e)' = Queued(e)
    <3>1. \E q : queue' = [queue EXCEPT ![d] = q]
      BY <1>2 DEF Answered
    <3>2. \A e \in Device : Owner[e] # u => queue'[e] = queue[e]
      BY <1>4, <3>1 DEF TypeOK
    <3> QED
      BY <3>2 DEF Queued
  <2>3. /\ \A v \in User \ {u} : v \in astray' <=> v \in astray
        /\ astray' \subseteq astray
        /\ u \in astray /\ u \notin astray' => ends /\ w.op = "delete" /\ w.tap \in alone
    BY <1>2, <1>3 DEF Answered
  <2> QED
    BY <2>1, <2>2, <2>3
<1>6. CASE u \in astray'
  BY <1>2, <1>3, <1>5, <1>6, OneUserFlips
<1>7. CASE u \notin astray'
  <2>1. /\ \A s \in Tap : Runs(s) /\ By(s) = u => s = w.tap
        /\ \A e \in Device : Owner[e] = u => \A x \in Queued(e) : x.tap = w.tap
        /\ LikesOf(u) \subseteq {w.doc}
    BY <1>3, <1>5, <1>7, LastWrite
  <2>2. left = {}
    <3>1. CASE u \in astray
      BY <1>5, <1>7, <3>1
    <3>2. CASE u \notin astray
      <4>1. Runs(w.tap) => found[w.tap] \subseteq {w.doc}
        BY <1>3, <3>2 DEF LikeInv, CalmIsCalm
      <4>2. ~Runs(w.tap) => found[w.tap] = {}
        BY <1>3 DEF LikeInv, FoundIsOwn, Runs
      <4> QED
        BY <4>1, <4>2
    <3> QED
      BY <3>1, <3>2
  <2>3. /\ queue' = [queue EXCEPT ![d] = Tail(@)]
        /\ ~Runs(w.tap)'
        /\ \A s \in Tap : s # w.tap => pc'[s] = pc[s]
    <3>1. queue' = [queue EXCEPT ![d] = Tail(@)]
      BY <1>2, <2>2 DEF Answered
    <3>2. ~Runs(w.tap) => pc' = pc
      BY <1>2 DEF Answered
    <3>3. Runs(w.tap) => pc' = [pc EXCEPT ![w.tap] = "over"]
      BY <1>2, <2>2 DEF Answered
    <3> QED
      BY <1>3, <1>4, <3>1, <3>2, <3>3 DEF Runs, TypeOK
  <2>4. \A s \in Tap : ~(Runs(s)' /\ By(s) = u)
    BY <2>1, <2>3 DEF Runs
  <2>5. \A e \in Device : Owner[e] = u => Queued(e)' = {}
    <3>1. /\ \A e \in Device : Queued(e)' \subseteq Queued(e)
          /\ \A e \in Device : e = d => \A x \in Queued(e)' : x.tap # w.tap
      BY <1>1, <1>2, <2>3, QueueMovesOn
    <3>2. \A e \in Device : e # d => \A x \in Queued(e) : x.tap # w.tap
      BY <1>3 DEF LikeInv, QueuedByTaps
    <3> QED
      BY <2>1, <3>1, <3>2
  <2>6. Phase(u)' = "idle"
    BY <1>2, <1>3, <1>4, <1>7, <2>4, <2>5, NextPhaseIs
  <2>7. LikesOf(u)' = IF w.op = "add" THEN {w.doc} ELSE {}
    BY <1>2, <1>3, <1>4, <2>1 DEF LikesOf, Effect, By
  <2>8. CASE u \in astray
    <3>1. ~HasLiked(u)'
      BY <1>5, <1>7, <2>7, <2>8 DEF HasLiked
    <3> QED
      BY <1>2, <1>3, <1>5, <1>7, <2>6, <2>8, <3>1, OneUserFlips
  <2>9. CASE u \notin astray
    <3>1. Phase(u) = IF w.op = "add" <=> w.doc \in likes THEN "flipped" ELSE "pressed"
      <4>1. \A e \in Device : Owner[e] = u => \A x \in Queued(e) : x = w
        BY <1>3, <2>9 DEF LikeInv, CalmIsCalm
      <4>2. (\E e \in Device : Owner[e] = u /\ \E x \in Queued(e) : x.op = "add" <=> x.doc \in likes)
               <=> (w.op = "add" <=> w.doc \in likes)
        BY <1>3, <4>1
      <4> QED
        BY <1>3, <1>4, <2>9, <4>2, PhaseIs
    <3>2. w.doc \in likes <=> HasLiked(u)
      BY <1>3, <2>1 DEF HasLiked, LikesOf
    <3>3. HasLiked(u)' <=> w.op = "add"
      BY <2>7 DEF HasLiked
    <3> QED
      BY <1>2, <1>3, <1>5, <1>7, <2>6, <2>9, <3>1, <3>2, <3>3, OneUserFlips
  <2> QED
    BY <2>8, <2>9
<1> QED
  BY <1>6, <1>7

\* A copy of a queued write flips before the answer comes; one of a write
\* answered before changes nothing or takes its user out of the promise.
LEMMA HandleLateFlips ==
  ASSUME LikeInv, LikeInv', NEW w \in late, HandleLate(w)
  PROVE  Flip!Next \/ UNCHANGED <<Liked, Phases, astray>>
<1>1. /\ TypeOK /\ TypeOK' /\ w \in Write /\ w.doc \in Tap /\ at' = at /\ pc' = pc
      /\ queue' = queue /\ likes' = Effect(w)
  BY DEF HandleLate, Apply, LikeInv, TypeOK, Write
<1>2. PICK u \in User : u = By(w.doc)
  BY <1>1, ConstantsAssumption DEF TypeOK, By
<1>3. \A d \in Device : Queued(d)' = Queued(d)
  BY <1>1 DEF Queued
<1>4. \A l : By(l) # u => (l \in likes' <=> l \in likes)
  BY <1>1, <1>2, OneUsersEffect
<1>5. /\ \A v \in User \ {u} : v \in astray' <=> v \in astray
      /\ u \in astray => u \in astray'
      /\ u \in astray' \/ (astray' = astray /\ (likes' = likes \/ \E d \in Device : w \in Queued(d)))
  BY <1>1, <1>2 DEF HandleLate, Strays
<1>6. CASE u \in astray'
  BY <1>1, <1>3, <1>4, <1>5, <1>6, OneUserFlips
<1>7. CASE u \notin astray' /\ likes' = likes
  <2>1. u \notin astray /\ (HasLiked(u)' <=> HasLiked(u))
    BY <1>1, <1>5, <1>7 DEF HasLiked, LikesOf, By
  <2>2. Phase(u)' = Phase(u)
    <3>1. \A t \in Tap : Runs(t)' <=> Runs(t)
      BY <1>1 DEF Runs
    <3> QED
      BY <1>1, <1>3, <1>7, <2>1, <3>1, PhaseIs, NextPhaseIs
  <2> QED
    BY <1>1, <1>3, <1>4, <1>5, <1>7, <2>1, <2>2, OneUserFlips
<1>8. CASE u \notin astray' /\ likes' # likes
  <2>1. PICK d \in Device : w \in Queued(d)
    BY <1>5, <1>8
  <2>2. Owner[d] = u /\ u \notin astray
    BY <1>2, <1>5, <1>8, <2>1 DEF LikeInv, QueuedByTaps
  <2>3. LikesOf(u) \subseteq {w.doc} /\ \A e \in Device : Owner[e] = u => \A x \in Queued(e) : x = w
    BY <2>1, <2>2 DEF LikeInv, CalmIsCalm
  <2>4. ~(w.op = "add" <=> w.doc \in likes) /\ (w.op = "add" <=> w.doc \in likes')
    BY <1>1, <1>8 DEF Effect, Write
  <2>5. Phase(u) = "pressed"
    BY <1>1, <2>1, <2>2, <2>3, <2>4, PhaseIs
  <2>6. Phase(u)' = "flipped"
    BY <1>1, <1>3, <1>8, <2>1, <2>2, <2>3, <2>4, NextPhaseIs
  <2>7. HasLiked(u)' <=> ~HasLiked(u)
    <3>1. HasLiked(u) <=> w.doc \in likes
      BY <1>2, <2>3 DEF HasLiked, LikesOf
    <3>2. HasLiked(u)' <=> w.doc \in likes'
      BY <1>1, <1>2, <2>3 DEF HasLiked, LikesOf, Effect, By
    <3> QED
      BY <2>4, <3>1, <3>2
  <2> QED
    BY <1>1, <1>3, <1>4, <1>5, <1>8, <2>2, <2>5, <2>6, <2>7, OneUserFlips
<1> QED
  BY <1>6, <1>7, <1>8

LEMMA StepFlips ==
  ASSUME LikeInv, LikeInv', [Next]_vars
  PROVE  Flip!Next \/ UNCHANGED <<Liked, Phases, astray>>
<1> DEFINE Simulated == Flip!Next \/ UNCHANGED <<Liked, Phases, astray>>
<1>1. ASSUME NEW t \in Tap, Press(t) PROVE Simulated
  BY <1>1, PressFlips
<1>2. ASSUME NEW t \in Tap, Read(t) PROVE Simulated
  BY <1>2, ReadFlips
<1>3. ASSUME NEW t \in Tap, ReadError(t) PROVE Simulated
  <2>1. PICK u \in User : u = By(t)
    BY ConstantsAssumption DEF LikeInv, TypeOK, By
  <2>2. End({t}) /\ \A d \in Device : Queued(d)' = Queued(d)
    BY <1>3 DEF ReadError, Queued
  <2> QED
    BY <1>3, <2>1, <2>2, EndFlips DEF ReadError
<1>4. ASSUME NEW d \in Device, Handle(d) PROVE Simulated
  BY <1>4, HandleFlips
<1>5. ASSUME NEW d \in Device, Refuse(d) PROVE Simulated
  BY <1>5, RefuseFlips
<1>6. ASSUME NEW d \in Device, Kill(d) PROVE Simulated
  <2> DEFINE S == {t \in Tap : Runs(t) /\ at[t] = d}
  <2>1. Owner[d] \in User /\ \A t \in S : By(t) = Owner[d]
    BY ConstantsAssumption DEF By
  <2>2. End(S) /\ \A e \in Device : Queued(e)' = Queued(e)
    BY <1>6 DEF Kill, Queued
  <2> QED
    BY <1>6, <2>1, <2>2, EndFlips DEF Kill
<1>7. ASSUME UNCHANGED <<likes, queue, pc, at, astray>> PROVE Simulated
  BY <1>7 DEF Liked, Phases, HasLiked, LikesOf, By, Phase, Unsettled, Running, Runs, Queued, Effective
<1>8. ASSUME NEW d \in Device, Lose(d) PROVE Simulated
  BY <1>7, <1>8 DEF Lose
<1>9. ASSUME NEW w \in late, HandleLate(w) PROVE Simulated
  BY <1>9, HandleLateFlips
<1>10. CASE UNCHANGED vars
  BY <1>7, <1>10 DEF vars
<1> QED
  BY <1>1, <1>2, <1>3, <1>4, <1>5, <1>6, <1>8, <1>9, <1>10 DEF Next

\* The steps of a tap and of the sending of its writes implement one flip: for
\* a user who waits for a tap to settle before the next, and is not misled by
\* a cache, likeDislikePostProvider toggles the like once, or, when a request
\* fails, not at all, even if it was killed while its write was queued.
THEOREM ImplementsFlip == Spec => FlipSpec
<1>1. Init => Flip!Init
  <2> SUFFICES ASSUME Init PROVE Flip!Init
    OBVIOUS
  <2>1. \A u \in User : ~Unsettled(u)
    BY DEF Init, Unsettled, Running, Runs
  <2> QED
    BY <2>1 DEF Init, Flip!Init, Phase, HasLiked, LikesOf
<1>2. LikeInv /\ LikeInv' /\ [Next]_vars =>
         [Flip!Next]_<<[u \in User |-> u \notin astray /\ HasLiked(u)],
                       [u \in User |-> Phase(u)], astray>>
  BY StepFlips DEF Liked, Phases
<1> QED
  BY <1>1, <1>2, LikeInvHolds, PTL DEF Spec, FlipSpec, Flip!Spec
============================================================================
