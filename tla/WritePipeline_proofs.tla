------------------------ MODULE WritePipeline_proofs ------------------------
(***************************************************************************)
(* Proofs about WritePipeline, for all users, bounds and lengths of the     *)
(* pipeline.                                                                *)
(***************************************************************************)
EXTENDS WritePipeline, FiniteSetTheorems, SequenceTheorems, TLAPS

(***************************************************************************)
(* Sequences.                                                               *)
(***************************************************************************)

Increasing(q) == \A i, j \in 1..Len(q) : i < j => q[i] < q[j]

Prefix(p, q) == Len(p) <= Len(q) /\ \A i \in 1..Len(p) : p[i] = q[i]

\* A call is sent the handshake and then writes; a pipeline is what follows the
\* first k requests.
HandshakeFirst(sent) == \A i \in 1..Len(sent) : sent[i] = Handshake <=> i = 1

Follows(p, sent, k) == Len(p) = Len(sent) - k /\ \A i \in 1..Len(p) : p[i] = sent[k + i]

LEMMA WriteNat == Write \subseteq Nat /\ Handshake \notin Write
  BY ConstantsAssumption DEF Write, Handshake

\* A prefix is the beginning of the sequence, element by element.
LEMMA PrefixIsSubSeq ==
  ASSUME NEW S, NEW p \in Seq(S), NEW q \in Seq(S)
  PROVE  Prefix(p, q) <=> Len(p) <= Len(q) /\ p = SubSeq(q, 1, Len(p))
<1>1. ASSUME Len(p) <= Len(q)
      PROVE  /\ SubSeq(q, 1, Len(p)) \in Seq(S)
             /\ Len(SubSeq(q, 1, Len(p))) = Len(p)
             /\ \A i \in 1..Len(p) : SubSeq(q, 1, Len(p))[i] = q[i]
  BY <1>1
<1>2. ASSUME Prefix(p, q) PROVE p = SubSeq(q, 1, Len(p))
  BY <1>1, <1>2, SeqEqual DEF Prefix
<1> QED
  BY <1>1, <1>2 DEF Prefix

\* A queue that a newer write is added to.
LEMMA AppendIncreasing ==
  ASSUME NEW p, Len(p) \in Nat, Increasing(p), NEW w, \A i \in 1..Len(p) : p[i] < w,
         NEW q, Len(q) = Len(p) + 1, q[Len(p) + 1] = w, \A i \in 1..Len(p) : q[i] = p[i]
  PROVE  Increasing(q)
<1> SUFFICES ASSUME NEW i \in 1..Len(q), NEW j \in 1..Len(q), i < j
             PROVE  q[i] < q[j]
  BY DEF Increasing
<1>1. i \in 1..Len(p) /\ (j \in 1..Len(p) \/ j = Len(p) + 1)
  OBVIOUS
<1>2. CASE j \in 1..Len(p)
  BY <1>1, <1>2 DEF Increasing
<1>3. CASE j = Len(p) + 1
  BY <1>1, <1>3
<1> QED
  BY <1>1, <1>2, <1>3

\* The writes of a queue up to the last of its prefix are the prefix.
LEMMA PassedPrefix ==
  ASSUME NEW p \in Seq(Write), NEW q \in Seq(Write), Prefix(p, q), Increasing(q), p # <<>>
  PROVE  Passed(q, p[Len(p)]) = Len(p)
<1>1. Len(p) \in Nat \ {0} /\ p[Len(p)] = q[Len(p)] /\ Len(p) <= Len(q) /\ Len(q) \in Nat
  BY DEF Prefix
<1>2. \A j \in 1..Len(q) : q[j] \in Nat
  <2>1. \A j \in 1..Len(q) : q[j] \in Write
    OBVIOUS
  <2> QED
    BY <2>1, WriteNat
<1>3. {j \in 1..Len(q) : q[j] <= p[Len(p)]} = 1..Len(p)
  BY <1>1, <1>2 DEF Increasing
<1>4. Cardinality(1..Len(p)) = Len(p)
  <2>1. 1 \in Int /\ Len(p) \in Int /\ ~(1 > Len(p)) /\ Len(p) - 1 + 1 = Len(p)
    BY <1>1
  <2> QED
    BY <2>1, FS_Interval
<1> QED
  BY <1>3, <1>4 DEF Passed

\* What FillWritePipeline makes of a pipeline.
LEMMA FilledPrefix ==
  ASSUME NEW p \in Seq(Write), NEW q \in Seq(Write), Prefix(p, q), Increasing(q),
         Len(p) <= MaxPendingWrites
  PROVE  LET full == Filled(p, q) IN
         /\ full \in Seq(Write) /\ Prefix(full, q) /\ Len(full) <= MaxPendingWrites
         /\ Prefix(p, full)
         /\ full = <<>> => q = <<>>
<1> DEFINE k == IF p = <<>> THEN 0 ELSE Passed(q, p[Len(p)])
           room == MaxPendingWrites - Len(p)
           last == IF Len(q) < k + room THEN Len(q) ELSE k + room
           more == SubSeq(q, k + 1, last)
<1>1. k = Len(p) /\ Len(p) \in Nat /\ Len(q) \in Nat /\ Len(p) <= Len(q)
  BY PassedPrefix DEF Prefix
<1>2. /\ last \in Nat /\ Len(p) <= last /\ last <= Len(q) /\ last <= MaxPendingWrites
      /\ last = 0 => Len(q) = 0
  BY <1>1, ConstantsAssumption
<1>3. Filled(p, q) = p \o more
  BY DEF Filled
<1> HIDE DEF k, last
<1>4. more \in Seq(Write) /\ Len(more) = last - Len(p)
      /\ \A i \in 1..(last - Len(p)) : more[i] = q[Len(p) + i]
  BY <1>1, <1>2
<1> HIDE DEF more
<1>5. /\ p \o more \in Seq(Write) /\ Len(p \o more) = last
      /\ \A i \in 1..last : (p \o more)[i] = IF i <= Len(p) THEN p[i] ELSE more[i - Len(p)]
  BY <1>1, <1>2, <1>4
<1>6. \A i \in 1..last : (p \o more)[i] = q[i]
  BY <1>1, <1>2, <1>4, <1>5 DEF Prefix
<1>7. p \o more = <<>> => q = <<>>
  BY <1>1, <1>2, <1>5
<1> QED
  BY <1>1, <1>2, <1>3, <1>5, <1>6, <1>7 DEF Prefix

(***************************************************************************)
(* The worker queue.                                                        *)
(***************************************************************************)

Kinds == {"write", "credential", "resume"}

\* The tasks of some kinds are those there were, o places further on.
Kept(o, kinds) ==
    \A i \in 1..Len(tasks') :
        tasks'[i].kind \in kinds => i + o \in 1..Len(tasks) /\ tasks'[i] = tasks[i + o]

NoCompletions == \A i \in 1..Len(tasks) : tasks[i].kind \notin Completions

LEMMA KeptWrites ==
  ASSUME NEW o, Kept(o, Kinds)
  PROVE  Kept(o, {"write"})
  BY DEF Kept, Kinds

LEMMA NoopType == Noop \in Tasks /\ Noop.kind = "noop"
  BY DEF Noop, Tasks

LEMMA CancelledType ==
  ASSUME NEW q \in Seq(Tasks)
  PROVE  LET c == Cancelled(q, Completions) IN
         /\ c \in Seq(Tasks) /\ Len(c) = Len(q)
         /\ \A i \in 1..Len(q) : IF q[i].kind \in Completions THEN c[i] = Noop ELSE c[i] = q[i]
<1> DEFINE c == Cancelled(q, Completions)
<1>1. c = [i \in 1..Len(q) |-> IF q[i].kind \in Completions THEN Noop ELSE q[i]]
  BY DEF Cancelled
<1>2. \A i \in 1..Len(q) : c[i] \in Tasks
  BY <1>1, NoopType
<1>3. c \in [1..Len(q) -> Tasks] /\ Len(q) \in Nat
  BY <1>1, <1>2
<1>4. c \in Seq(Tasks)
  BY <1>3, SeqDef
<1>5. Len(c) = Len(q)
  BY <1>1, <1>3
<1> QED
  BY <1>1, <1>4, <1>5

LEMMA TailType ==
  ASSUME NEW q \in Seq(Tasks), q # <<>>
  PROVE  /\ Tail(q) \in Seq(Tasks) /\ Len(Tail(q)) = Len(q) - 1 /\ Len(q) \in Nat \ {0}
         /\ \A i \in 1..Len(Tail(q)) : Tail(q)[i] = q[i + 1]
         /\ Head(q) = q[1] /\ Head(q) \in Tasks
  BY HeadTailProperties, EmptySeq

LEMMA TailKept ==
  ASSUME tasks \in Seq(Tasks), tasks # <<>>, tasks' = Tail(tasks)
  PROVE  Kept(1, Kinds) /\ Kept(1, Completions) /\ tasks' \in Seq(Tasks)
  BY TailType DEF Kept

LEMMA CancelledKept ==
  ASSUME tasks \in Seq(Tasks), tasks' = Cancelled(tasks, Completions)
  PROVE  Kept(0, Kinds) /\ NoCompletions' /\ tasks' \in Seq(Tasks)
  BY CancelledType, NoopType DEF Kept, NoCompletions, Kinds, Completions

LEMMA CancelledTailKept ==
  ASSUME tasks \in Seq(Tasks), tasks # <<>>, tasks' = Cancelled(Tail(tasks), Completions)
  PROVE  Kept(1, Kinds) /\ NoCompletions' /\ tasks' \in Seq(Tasks)
<1> DEFINE q == Tail(tasks)
<1>1. q \in Seq(Tasks) /\ Len(q) = Len(tasks) - 1 /\ Len(tasks) \in Nat \ {0}
      /\ \A i \in 1..Len(q) : q[i] = tasks[i + 1]
  BY TailType
<1> HIDE DEF q
<1>2. /\ tasks' \in Seq(Tasks) /\ Len(tasks') = Len(q)
      /\ \A i \in 1..Len(q) : IF q[i].kind \in Completions THEN tasks'[i] = Noop ELSE tasks'[i] = q[i]
  BY <1>1, CancelledType DEF q
<1> QED
  BY <1>1, <1>2, NoopType DEF Kept, NoCompletions, Kinds, Completions

LEMMA AppendKept ==
  ASSUME tasks \in Seq(Tasks), NEW t \in Tasks, tasks' = Append(tasks, t)
  PROVE  /\ tasks' \in Seq(Tasks) /\ Len(tasks') = Len(tasks) + 1 /\ tasks'[Len(tasks')] = t
         /\ Len(tasks) \in Nat
         /\ \A i \in 1..Len(tasks') : i # Len(tasks') => i \in 1..Len(tasks) /\ tasks'[i] = tasks[i]
<1>1. /\ tasks' \in Seq(Tasks) /\ Len(tasks') = Len(tasks) + 1 /\ Len(tasks) \in Nat
      /\ tasks'[Len(tasks) + 1] = t
      /\ \A i \in 1..Len(tasks) : tasks'[i] = tasks[i]
  BY AppendProperties, LenProperties
<1> QED
  BY <1>1

(***************************************************************************)
(* The invariant behind the types.  Writes are queued in the order they are *)
(* made, so that the pipeline is the beginning of a queue; the call has been *)
(* sent the handshake and then, in order, what is in the pipeline; and what *)
(* has completed on a call waits on the worker queue only while it is open. *)
(***************************************************************************)

QueueInv ==
    /\ \A u \in User : Increasing(queue[u])
    /\ \A u \in User : \A i \in 1..Len(queue[u]) : queue[u][i] <= calls
    /\ \A j \in 1..Len(tasks) : tasks[j].kind = "write" =>
          /\ tasks[j].write <= calls
          /\ \A u \in User : \A i \in 1..Len(queue[u]) : queue[u][i] < tasks[j].write
          /\ \A i \in 1..(j - 1) : tasks[i].kind = "write" => tasks[i].write < tasks[j].write

PipeInv == Prefix(pipeline, queue[current]) /\ Len(pipeline) <= MaxPendingWrites

TaskInv ==
    /\ IsOpen <=> call # NoCall
    /\ handshake => IsOpen
    /\ IsOpen \/ NoCompletions
    /\ \A i, j \in 1..Len(tasks) : tasks[i].kind = "read" /\ tasks[j].kind = "read" => i = j

CallInv ==
    IsOpen =>
        /\ call.taken <= call.handled /\ call.handled <= Len(call.sent)
        /\ Queued("read") => call.taken < call.handled
        /\ HandshakeFirst(call.sent)
        /\ IF handshake THEN 1 <= call.taken /\ Follows(pipeline, call.sent, call.taken)
           ELSE call.taken = 0 /\ Len(call.sent) = 1

IInv == TypeOK /\ QueueInv /\ PipeInv /\ TaskInv /\ CallInv

LEMMA NoCallType == NoCall \notin Call
  BY ConstantsAssumption DEF NoCall, Call

LEMMA QueueStays ==
  ASSUME TypeOK, QueueInv, NEW o \in {0, 1}, Kept(o, {"write"}), UNCHANGED calls, tasks' \in Seq(Tasks),
         UNCHANGED queue
  PROVE  QueueInv'
<1>1. \A j \in 1..Len(tasks') : tasks'[j].kind = "write" =>
         j + o \in 1..Len(tasks) /\ tasks'[j] = tasks[j + o]
  BY DEF Kept
<1>2. Len(tasks') \in Nat /\ Len(tasks) \in Nat
  BY DEF TypeOK
<1>3. ASSUME NEW j \in 1..Len(tasks'), tasks'[j].kind = "write"
      PROVE  /\ tasks'[j].write <= calls
             /\ \A u \in User : \A i \in 1..Len(queue[u]) : queue[u][i] < tasks'[j].write
             /\ \A i \in 1..(j - 1) : tasks'[i].kind = "write" => tasks'[i].write < tasks'[j].write
  <2>1. j + o \in 1..Len(tasks) /\ tasks'[j] = tasks[j + o]
    BY <1>1, <1>3
  <2>2. \A i \in 1..(j - 1) : tasks'[i].kind = "write" =>
           i + o \in 1..(j + o - 1) /\ tasks'[i] = tasks[i + o]
    BY <1>1, <1>2
  <2>3. /\ tasks'[j].write <= calls
        /\ \A i \in 1..(j - 1) : tasks'[i].kind = "write" => tasks'[i].write < tasks'[j].write
    BY <1>3, <2>1, <2>2 DEF QueueInv
  <2>4. \A u \in User : \A i \in 1..Len(queue[u]) : queue[u][i] < tasks'[j].write
    BY <1>3, <2>1 DEF QueueInv
  <2> QED
    BY <2>3, <2>4
<1> QED
  BY <1>3 DEF QueueInv

LEMMA QueueTail ==
  ASSUME TypeOK, QueueInv, queue[current] # <<>>
  PROVE  /\ Tail(queue[current]) \in Seq(Write) /\ Increasing(Tail(queue[current]))
         /\ Len(Tail(queue[current])) = Len(queue[current]) - 1
         /\ \A i \in 1..Len(Tail(queue[current])) : Tail(queue[current])[i] = queue[current][i + 1]
<1>1. queue[current] \in Seq(Write) /\ Increasing(queue[current])
  BY DEF TypeOK, QueueInv
<1>2. /\ Tail(queue[current]) \in Seq(Write)
      /\ Len(Tail(queue[current])) = Len(queue[current]) - 1 /\ Len(queue[current]) \in Nat
      /\ \A i \in 1..Len(Tail(queue[current])) : Tail(queue[current])[i] = queue[current][i + 1]
  BY <1>1, HeadTailProperties
<1> QED
  BY <1>1, <1>2 DEF Increasing

\* The head of a queue has been removed.
LEMMA QueueSettles ==
  ASSUME TypeOK, QueueInv, queue[current] # <<>>,
         queue' = [queue EXCEPT ![current] = Tail(@)],
         NEW o \in {0, 1}, Kept(o, {"write"}), UNCHANGED calls, tasks' \in Seq(Tasks)
  PROVE  QueueInv' /\ queue' \in [User -> Seq(Write)]
<1>1. \A j \in 1..Len(tasks') : tasks'[j].kind = "write" =>
         j + o \in 1..Len(tasks) /\ tasks'[j] = tasks[j + o]
  BY DEF Kept
<1>2. Len(tasks') \in Nat /\ Len(tasks) \in Nat
  BY DEF TypeOK
<1>3. queue' \in [User -> Seq(Write)]
  BY QueueTail DEF TypeOK
<1>4. \A u \in User : /\ u # current => queue'[u] = queue[u]
                      /\ u = current => queue'[u] = Tail(queue[current])
  BY DEF TypeOK
<1>5. \A u \in User : /\ Increasing(queue'[u])
                      /\ \A i \in 1..Len(queue'[u]) : \E k \in 1..Len(queue[u]) : queue'[u][i] = queue[u][k]
  <2> TAKE u \in User
  <2>1. CASE u = current
    <3>1. \A i \in 1..Len(queue'[u]) : i + 1 \in 1..Len(queue[u]) /\ queue'[u][i] = queue[u][i + 1]
      BY <1>4, <2>1, QueueTail DEF TypeOK
    <3> QED
      BY <1>4, <2>1, <3>1, QueueTail
  <2>2. CASE u # current
    BY <1>4, <2>2 DEF QueueInv
  <2> QED
    BY <2>1, <2>2
<1>6. \A u \in User : \A i \in 1..Len(queue'[u]) : queue'[u][i] <= calls
  BY <1>5 DEF QueueInv
<1>7. \A j \in 1..Len(tasks') : tasks'[j].kind = "write" =>
          \A u \in User : \A i \in 1..Len(queue'[u]) : queue'[u][i] < tasks'[j].write
  BY <1>1, <1>5 DEF QueueInv
<1>8. ASSUME NEW j \in 1..Len(tasks'), tasks'[j].kind = "write"
      PROVE  /\ tasks'[j].write <= calls
             /\ \A i \in 1..(j - 1) : tasks'[i].kind = "write" => tasks'[i].write < tasks'[j].write
  <2>1. j + o \in 1..Len(tasks) /\ tasks'[j] = tasks[j + o]
    BY <1>1, <1>8
  <2>2. \A i \in 1..(j - 1) : tasks'[i].kind = "write" =>
           i + o \in 1..(j + o - 1) /\ tasks'[i] = tasks[i + o]
    BY <1>1, <1>2
  <2> QED
    BY <1>8, <2>1, <2>2 DEF QueueInv
<1> QED
  BY <1>3, <1>5, <1>6, <1>7, <1>8 DEF QueueInv

(***************************************************************************)
(* Filling the pipeline and closing the stream.                             *)
(***************************************************************************)

States == {"Initial", "Starting", "Backoff", "Open", "Error"}

LEMMA FetchType ==
  ASSUME TypeOK, NEW n \in Nat
  PROVE  Fetch(n, contents.counter) \in Fetches
  BY DEF TypeOK, Fetch, Fetches

LEMMA StartEffect ==
  ASSUME TypeOK, NEW s, NEW n \in Nat, Start(s, n)
  PROVE  state' \in {"Starting", "Backoff"} /\ fetches' \subseteq Fetches
  BY FetchType DEF Start, TypeOK

LEMMA FillEffect ==
  ASSUME TypeOK, NEW p \in Seq(Write), NEW q \in Seq(Write), NEW s \in States, NEW n \in Nat, NEW c,
         FillWritePipeline(p, q, s, n, c), Prefix(p, q), Increasing(q), Len(p) <= MaxPendingWrites
  PROVE  /\ pipeline' \in Seq(Write) /\ Prefix(pipeline', q) /\ Len(pipeline') <= MaxPendingWrites
         /\ Prefix(p, pipeline')
         /\ closes' = n /\ fetches' \subseteq Fetches /\ idle' \in BOOLEAN /\ state' \in States
         /\ s = "Open" <=> IsOpen'
         /\ IF s = "Open" /\ handshake
            THEN call' = [c EXCEPT !.sent = @ \o SubSeq(pipeline', Len(p) + 1, Len(pipeline'))]
            ELSE call' = c
<1>1. pipeline' = Filled(p, q) /\ closes' = n
  BY DEF FillWritePipeline
<1>2. (state' = s /\ UNCHANGED fetches) \/ (~Started(s) /\ Start(s, n))
  BY DEF FillWritePipeline
<1>3. /\ state' \in States /\ fetches' \subseteq Fetches
      /\ s = "Open" <=> IsOpen'
  BY <1>2, StartEffect DEF States, Started, IsOpen, TypeOK
<1>4. idle' \in BOOLEAN
  BY DEF FillWritePipeline, TypeOK
<1>5. IF s = "Open" /\ handshake
      THEN call' = [c EXCEPT !.sent = @ \o SubSeq(pipeline', Len(p) + 1, Len(pipeline'))]
      ELSE call' = c
  BY DEF FillWritePipeline
<1> QED
  BY <1>1, <1>3, <1>4, <1>5, FilledPrefix

LEMMA EmptyPrefix ==
  ASSUME NEW q \in Seq(Write)
  PROVE  <<>> \in Seq(Write) /\ Len(<<>>) = 0 /\ Prefix(<<>>, q) /\ Len(<<>>) <= MaxPendingWrites
  BY ConstantsAssumption DEF Prefix

\* What is sent after the fill: the pipeline, from where the answers have got to.
LEMMA SentEffect ==
  ASSUME NEW sent \in Seq(Write \union {Handshake}), NEW p \in Seq(Write), NEW full \in Seq(Write),
         NEW k \in Nat, k <= Len(sent), 1 <= k, Follows(p, sent, k), Prefix(p, full), HandshakeFirst(sent)
  PROVE  LET new == sent \o SubSeq(full, Len(p) + 1, Len(full)) IN
         /\ new \in Seq(Write \union {Handshake}) /\ Len(sent) <= Len(new)
         /\ HandshakeFirst(new) /\ Follows(full, new, k)
<1> DEFINE more == SubSeq(full, Len(p) + 1, Len(full))
           new == sent \o more
<1>0. /\ Len(p) = Len(sent) - k /\ \A i \in 1..Len(p) : p[i] = sent[k + i]
      /\ Len(p) <= Len(full) /\ \A i \in 1..Len(p) : full[i] = p[i]
      /\ \A i \in 1..Len(sent) : sent[i] = Handshake <=> i = 1
  BY DEF Follows, Prefix, HandshakeFirst
<1>1. Len(p) \in Nat /\ Len(full) \in Nat /\ Len(sent) \in Nat /\ \A i \in 1..Len(full) : full[i] \in Write
  OBVIOUS
<1>2. /\ more \in Seq(Write) /\ Len(more) = Len(full) - Len(p)
      /\ \A i \in 1..Len(more) : more[i] = full[Len(p) + i]
  <2>1. Len(p) + 1 \in Int /\ Len(full) \in Int /\ Len(p) <= Len(full)
        /\ \A i \in (Len(p) + 1)..Len(full) : full[i] \in Write
    BY <1>0, <1>1
  <2>2. /\ more \in Seq(Write)
        /\ Len(more) = IF Len(p) + 1 <= Len(full) THEN Len(full) - (Len(p) + 1) + 1 ELSE 0
        /\ \A i \in 1..(Len(full) - (Len(p) + 1) + 1) : more[i] = full[Len(p) + 1 + i - 1]
    BY <2>1, SubSeqProperties
  <2> QED
    BY <1>1, <2>1, <2>2
<1>3. more \in Seq(Write \union {Handshake})
  BY <1>2, SeqMonotonic
<1> HIDE DEF more
<1>4. /\ new \in Seq(Write \union {Handshake}) /\ Len(new) = Len(sent) + Len(more)
      /\ \A i \in 1..(Len(sent) + Len(more)) : new[i] = IF i <= Len(sent) THEN sent[i] ELSE more[i - Len(sent)]
  BY <1>3, ConcatProperties
<1> HIDE DEF new
<1>5. \A i \in 1..Len(new) : new[i] = Handshake <=> i = 1
  <2> TAKE i \in 1..Len(new)
  <2>1. CASE i <= Len(sent)
    BY <1>0, <1>1, <1>4, <2>1
  <2>2. CASE ~(i <= Len(sent))
    <3>1. i - Len(sent) \in 1..Len(more) /\ new[i] = more[i - Len(sent)] /\ i # 1
      BY <1>0, <1>1, <1>2, <1>4, <2>2
    <3> QED
      BY <1>2, <3>1, WriteNat
  <2> QED
    BY <2>1, <2>2
<1>6. Len(full) = Len(new) - k /\ Len(sent) <= Len(new)
  BY <1>0, <1>1, <1>2, <1>4
<1>7. \A i \in 1..Len(full) : full[i] = new[k + i]
  <2> TAKE i \in 1..Len(full)
  <2>1. CASE i <= Len(p)
    BY <1>0, <1>1, <1>2, <1>4, <2>1
  <2>2. CASE ~(i <= Len(p))
    <3>0. i - Len(p) \in 1..Len(more) /\ Len(p) + (i - Len(p)) = i
      BY <1>0, <1>1, <1>2, <2>2
    <3>1. i - Len(p) \in 1..Len(more) /\ more[i - Len(p)] = full[i]
      BY <1>2, <3>0
    <3>2. k + i \in 1..(Len(sent) + Len(more)) /\ ~(k + i <= Len(sent)) /\ k + i - Len(sent) = i - Len(p)
      BY <1>0, <1>1, <1>2, <2>2
    <3>3. new[k + i] = more[k + i - Len(sent)]
      BY <1>4, <3>2
    <3> QED
      BY <3>1, <3>2, <3>3
  <2> QED
    BY <2>1, <2>2
<1> QED
  BY <1>4, <1>5, <1>6, <1>7 DEF new, more, HandshakeFirst, Follows

Stales == [user : User, rest : Seq(Write) \ {<<>>}]

\* What a call leaves to the server is writes: the handshake comes first.
LEMMA AbandonedType ==
  ASSUME TypeOK, TaskInv, CallInv
  PROVE  Abandoned(call) \subseteq Stales
<1> SUFFICES ASSUME call # NoCall, Rest(call) # <<>>
             PROVE  call.user \in User /\ Rest(call) \in Seq(Write)
  BY DEF Abandoned, Stales
<1>1. call \in Call /\ IsOpen
  BY DEF TypeOK, TaskInv
<1>2. /\ call.handled \in Nat /\ call.handled # 0 /\ Rest(call) = SubSeq(call.sent, call.handled + 1, Len(call.sent))
      /\ call.sent \in Seq(Write \union {0}) /\ call.user \in User /\ Len(call.sent) \in Nat
  BY <1>1, SMTT(20) DEF Rest, Call
<1>3. \A i \in (call.handled + 1)..Len(call.sent) : call.sent[i] \in Write
  BY <1>1, <1>2 DEF CallInv, Handshake, HandshakeFirst
<1> QED
  BY <1>2, <1>3, SubSeqProperties

LEMMA ClosedCall ==
  ASSUME NoCompletions', call' = NoCall, handshake' = FALSE, ~IsOpen'
  PROVE  TaskInv' /\ CallInv'
<1>1. \A i \in 1..Len(tasks') : tasks'[i].kind # "read"
  BY DEF NoCompletions, Completions
<1> QED
  BY <1>1 DEF TaskInv, CallInv

\* What a closed stream leaves, with the worker queue o places further on.
Closed(o) ==
    /\ fetches' \subseteq Fetches /\ pipeline' \in Seq(Write) /\ state' \in States
    /\ closes' \in Nat /\ idle' \in BOOLEAN /\ stale' \subseteq Stales
    /\ handshake' = FALSE /\ call' = NoCall
    /\ Kept(o, Kinds) /\ tasks' \in Seq(Tasks)
    /\ TaskInv' /\ CallInv'

LEMMA RestartEffect ==
  ASSUME IInv, NEW q \in Seq(Write), Increasing(q), NEW todo, NEW o \in {0, 1},
         \/ todo = tasks /\ o = 0
         \/ todo = Tail(tasks) /\ tasks # <<>> /\ o = 1,
         RestartNetwork(q, todo)
  PROVE  Closed(o) /\ Prefix(pipeline', q) /\ Len(pipeline') <= MaxPendingWrites
<1> DEFINE n == IF Started(state) THEN closes + 1 ELSE closes
<1>1. n \in Nat /\ TypeOK /\ TaskInv /\ CallInv
  BY SMTT(20) DEF IInv, TypeOK
<1>2. FillWritePipeline(<<>>, q, "Initial", n, NoCall)
  BY DEF RestartNetwork
<1> HIDE DEF n
<1>3. /\ pipeline' \in Seq(Write) /\ Prefix(pipeline', q) /\ Len(pipeline') <= MaxPendingWrites
      /\ closes' = n /\ fetches' \subseteq Fetches /\ idle' \in BOOLEAN /\ state' \in States
      /\ ~IsOpen' /\ call' = NoCall
  BY <1>1, <1>2, FillEffect, EmptyPrefix DEF States
<1>4. handshake' = FALSE /\ stale' = stale \union Abandoned(call) /\ tasks' = Cancelled(todo, Completions)
  BY DEF RestartNetwork
<1>5. Kept(o, Kinds) /\ NoCompletions' /\ tasks' \in Seq(Tasks)
  BY <1>1, <1>4, CancelledKept, CancelledTailKept DEF TypeOK
<1>6. stale' \subseteq Stales
  BY <1>1, <1>4, AbandonedType DEF TypeOK, Stales
<1> QED
  BY <1>1, <1>3, <1>4, <1>5, <1>6, ClosedCall DEF Closed

\* The pipeline without its head, before the queue without its head.
LEMMA SettledPrefix ==
  ASSUME IInv, pipeline # <<>>
  PROVE  /\ queue[current] # <<>> /\ queue[current] \in Seq(Write)
         /\ Tail(pipeline) \in Seq(Write) /\ Prefix(Tail(pipeline), Tail(queue[current]))
         /\ Len(Tail(pipeline)) <= MaxPendingWrites /\ Len(Tail(pipeline)) = Len(pipeline) - 1
         /\ \A i \in 1..Len(Tail(pipeline)) : Tail(pipeline)[i] = pipeline[i + 1]
         /\ Head(pipeline) = pipeline[1] /\ Head(pipeline) \in Write
         /\ Head(pipeline) = queue[current][1]
<1>1. /\ pipeline \in Seq(Write) /\ queue[current] \in Seq(Write) /\ Prefix(pipeline, queue[current])
      /\ Len(pipeline) <= MaxPendingWrites /\ Len(pipeline) \in Nat \ {0} /\ MaxPendingWrites \in Nat
  BY ConstantsAssumption DEF IInv, TypeOK, PipeInv
<1>2. /\ Len(queue[current]) \in Nat \ {0} /\ queue[current] # <<>> /\ pipeline[1] = queue[current][1]
  BY <1>1 DEF Prefix
<1>3. /\ Tail(pipeline) \in Seq(Write) /\ Len(Tail(pipeline)) = Len(pipeline) - 1
      /\ \A i \in 1..Len(Tail(pipeline)) : Tail(pipeline)[i] = pipeline[i + 1]
      /\ Head(pipeline) = pipeline[1] /\ Head(pipeline) \in Write
  BY <1>1, HeadTailProperties
<1>4. /\ Len(Tail(queue[current])) = Len(queue[current]) - 1
      /\ \A i \in 1..Len(Tail(queue[current])) : Tail(queue[current])[i] = queue[current][i + 1]
  BY <1>1, <1>2, HeadTailProperties
<1>5. Prefix(Tail(pipeline), Tail(queue[current]))
  <2>1. Len(Tail(pipeline)) <= Len(Tail(queue[current]))
    BY <1>1, <1>3, <1>4 DEF Prefix
  <2>2. ASSUME NEW i \in 1..Len(Tail(pipeline)) PROVE Tail(pipeline)[i] = Tail(queue[current])[i]
    <3>1. i + 1 \in 1..Len(pipeline) /\ i \in 1..Len(Tail(queue[current]))
      BY <1>1, <1>2, <1>3, <1>4, <2>1
    <3> QED
      BY <1>1, <1>3, <1>4, <3>1 DEF Prefix
  <2> QED
    BY <2>1, <2>2 DEF Prefix
<1> QED
  BY <1>1, <1>2, <1>3, <1>5

Fates == {"unsaved", "saved", "acked", "rejected"}

StoreType ==
    /\ queue \in [User -> Seq(Write)]
    /\ callbacks \in [User -> SUBSET Write]
    /\ fate \in [Write -> Fates]

LEMMA SettleEffect ==
  ASSUME IInv, pipeline # <<>>, NEW outcome \in {"acked", "rejected"}, Settle(outcome)
  PROVE  StoreType' /\ queue' = [queue EXCEPT ![current] = Tail(@)]
<1>1. Head(pipeline) \in Write /\ queue[current] # <<>>
  BY SettledPrefix
<1>2. Tail(queue[current]) \in Seq(Write)
  BY <1>1, QueueTail DEF IInv
<1>3. queue' = [queue EXCEPT ![current] = Tail(@)]
  BY DEF Settle
<1>4. queue' \in [User -> Seq(Write)]
  BY <1>2, <1>3 DEF IInv, TypeOK
<1>5. callbacks' \in [User -> SUBSET Write]
  BY DEF Settle, IInv, TypeOK
<1>6. fate' \in [Write -> Fates]
  BY DEF Settle, IInv, TypeOK, Fates
<1> QED
  BY <1>3, <1>4, <1>5, <1>6 DEF StoreType

LEMMA CloseEffect ==
  ASSUME IInv, tasks # <<>>, NEW permanent, CloseWithError(permanent, Tail(tasks)),
         UNCHANGED <<calls, current>>
  PROVE  Closed(1) /\ StoreType' /\ QueueInv' /\ PipeInv'
<1>1. /\ TypeOK /\ TaskInv /\ CallInv /\ PipeInv /\ QueueInv /\ closes + 1 \in Nat
      /\ current \in User
  BY SMTT(20) DEF IInv, TypeOK
<1>2. handshake' = FALSE /\ stale' = stale \union Abandoned(call) /\ tasks' = Cancelled(Tail(tasks), Completions)
  BY DEF CloseWithError
<1>3. Kept(1, Kinds) /\ NoCompletions' /\ tasks' \in Seq(Tasks)
  BY <1>1, <1>2, CancelledTailKept DEF TypeOK
<1>4. stale' \subseteq Stales
  BY <1>1, <1>2, AbandonedType DEF TypeOK, Stales
<1>5. CASE permanent /\ handshake /\ pipeline # <<>>
  <2>1. /\ Settle("rejected")
        /\ FillWritePipeline(Tail(pipeline), Tail(queue[current]), "Initial", closes + 1, NoCall)
    BY <1>5 DEF CloseWithError
  <2>2. StoreType' /\ queue' = [queue EXCEPT ![current] = Tail(@)]
    BY <1>5, <2>1, SettleEffect
  <2>3. queue'[current] = Tail(queue[current])
    BY <1>1, <2>2 DEF TypeOK
  <2>4. /\ pipeline' \in Seq(Write) /\ Prefix(pipeline', Tail(queue[current]))
        /\ Len(pipeline') <= MaxPendingWrites
        /\ closes' = closes + 1 /\ fetches' \subseteq Fetches /\ idle' \in BOOLEAN /\ state' \in States
        /\ ~IsOpen' /\ call' = NoCall
    <3> DEFINE p == Tail(pipeline)
               q == Tail(queue[current])
               n == closes + 1
    <3>1. /\ p \in Seq(Write) /\ q \in Seq(Write) /\ n \in Nat /\ "Initial" \in States
          /\ Prefix(p, q) /\ Increasing(q) /\ Len(p) <= MaxPendingWrites
      BY <1>1, <1>5, SettledPrefix, QueueTail DEF States
    <3>2. FillWritePipeline(p, q, "Initial", n, NoCall)
      BY <2>1
    <3> HIDE DEF p, q, n
    <3>3. /\ pipeline' \in Seq(Write) /\ Prefix(pipeline', q) /\ Len(pipeline') <= MaxPendingWrites
          /\ closes' = n /\ fetches' \subseteq Fetches /\ idle' \in BOOLEAN /\ state' \in States
          /\ ~IsOpen' /\ call' = NoCall
      BY <1>1, <3>1, <3>2, FillEffect
    <3> QED
      BY <3>3 DEF p, q, n
  <2>5. QueueInv'
    BY <1>1, <1>3, <1>5, <2>2, QueueSettles, SettledPrefix, KeptWrites
  <2>6. PipeInv'
    BY <2>3, <2>4 DEF PipeInv
  <2> QED
    BY <1>1, <1>2, <1>3, <1>4, <2>2, <2>4, <2>5, <2>6, ClosedCall DEF Closed
<1>6. CASE ~(permanent /\ handshake /\ pipeline # <<>>)
  <2>1. /\ IF pipeline # <<>> THEN Start("Error", closes + 1)
           ELSE state' = "Error" /\ UNCHANGED fetches
        /\ closes' = closes + 1 /\ call' = NoCall /\ idle' = FALSE
        /\ UNCHANGED <<pipeline, fate, queue, callbacks>>
    BY <1>6 DEF CloseWithError, storeVars
  <2>2. state' \in States /\ ~IsOpen' /\ fetches' \subseteq Fetches
    <3>1. CASE pipeline # <<>>
      BY <1>1, <2>1, <3>1, StartEffect DEF States, IsOpen
    <3>2. CASE pipeline = <<>>
      BY <1>1, <2>1, <3>2 DEF States, IsOpen, TypeOK
    <3> QED
      BY <3>1, <3>2
  <2>3. StoreType' /\ pipeline' \in Seq(Write) /\ idle' \in BOOLEAN
    BY <1>1, <2>1 DEF StoreType, TypeOK, Fates
  <2>4. QueueInv'
    BY <1>1, <1>3, <2>1, QueueStays, KeptWrites
  <2>5. PipeInv'
    BY <1>1, <2>1 DEF PipeInv
  <2> QED
    BY <1>1, <1>2, <1>3, <1>4, <2>1, <2>2, <2>3, <2>4, <2>5, ClosedCall DEF Closed
<1> QED
  BY <1>5, <1>6

(***************************************************************************)
(* Steps that leave the stream alone.                                       *)
(***************************************************************************)

LEMMA SameStream ==
  ASSUME IInv, UNCHANGED <<queue, current, calls, tasks, streamVars>>
  PROVE  QueueInv' /\ PipeInv' /\ TaskInv' /\ CallInv'
  BY DEF IInv, streamVars, QueueInv, PipeInv, TaskInv, CallInv, IsOpen, NoCompletions, Queued

LEMMA AppendTask ==
  ASSUME IInv, NEW t \in Tasks, t.kind \notin Completions, tasks' = Append(tasks, t),
         UNCHANGED <<queue, current, streamVars>>
  PROVE  /\ PipeInv' /\ TaskInv' /\ CallInv' /\ tasks' \in Seq(Tasks)
         /\ t.kind # "write" /\ UNCHANGED calls => QueueInv'
<1>1. TypeOK /\ QueueInv /\ PipeInv /\ TaskInv /\ CallInv /\ tasks \in Seq(Tasks)
  BY DEF IInv, TypeOK
<1>2. /\ tasks' \in Seq(Tasks) /\ Len(tasks') = Len(tasks) + 1 /\ tasks'[Len(tasks')] = t
      /\ Len(tasks) \in Nat
      /\ \A i \in 1..Len(tasks') : i # Len(tasks') => i \in 1..Len(tasks) /\ tasks'[i] = tasks[i]
  BY <1>1, AppendKept
<1>3. \A i \in 1..Len(tasks') : tasks'[i].kind \in Completions => i \in 1..Len(tasks) /\ tasks'[i] = tasks[i]
  BY <1>2
<1>4. UNCHANGED <<pipeline, state, handshake, call, queue, current>> /\ IsOpen' = IsOpen
  BY DEF streamVars, IsOpen
<1>5. TaskInv'
  BY <1>1, <1>3, <1>4 DEF TaskInv, NoCompletions, Completions
<1>6. Queued("read")' => Queued("read")
  BY <1>3 DEF Queued, Completions
<1>7. CallInv' /\ PipeInv'
  BY <1>1, <1>4, <1>6 DEF CallInv, PipeInv
<1>8. ASSUME t.kind # "write", UNCHANGED calls PROVE QueueInv'
  <2>1. Kept(0, {"write"})
    BY <1>2, <1>8 DEF Kept
  <2> QED
    BY <1>1, <1>2, <1>4, <1>8, <2>1, QueueStays
<1> QED
  BY <1>2, <1>5, <1>7, <1>8

LEMMA WriteMutationsInv == IInv /\ WriteMutations => IInv'
<1> SUFFICES ASSUME IInv, WriteMutations PROVE IInv'
  OBVIOUS
<1> DEFINE t == [kind |-> "write", write |-> calls + 1]
<1>1. calls \in Nat /\ calls + 1 \in Write /\ TypeOK /\ QueueInv
  <2>1. calls < MaxWrites /\ calls \in 0..MaxWrites /\ MaxWrites \in Nat
    BY ConstantsAssumption DEF WriteMutations, IInv, TypeOK
  <2> QED
    BY <2>1 DEF IInv, Write
<1>2. t \in Tasks /\ t.kind = "write" /\ t.write = calls + 1 /\ t.kind \notin Completions
  BY <1>1 DEF Tasks, Completions
<1>3. tasks' = Append(tasks, t) /\ calls' = calls + 1 /\ UNCHANGED <<queue, current, streamVars>>
  BY DEF WriteMutations, storeVars
<1> HIDE DEF t
<1>4. PipeInv' /\ TaskInv' /\ CallInv' /\ tasks' \in Seq(Tasks)
  BY <1>2, <1>3, AppendTask
<1>5. QueueInv'
  <2>1. /\ Len(tasks') = Len(tasks) + 1 /\ tasks'[Len(tasks')] = t /\ Len(tasks) \in Nat
        /\ \A i \in 1..Len(tasks') : i # Len(tasks') => i \in 1..Len(tasks) /\ tasks'[i] = tasks[i]
    BY <1>1, <1>2, <1>3, AppendKept DEF TypeOK
  <2>2. \A u \in User : \A i \in 1..Len(queue[u]) : queue[u][i] \in Nat /\ queue[u][i] <= calls
    <3>1. \A u \in User : \A i \in 1..Len(queue[u]) : queue[u][i] \in Write
      BY <1>1 DEF TypeOK
    <3> QED
      BY <1>1, <3>1, WriteNat DEF QueueInv
  <2>3. \A i \in 1..Len(tasks) : tasks[i].kind = "write" => tasks[i].write \in Nat /\ tasks[i].write <= calls
    <3>1. \A i \in 1..Len(tasks) : tasks[i] \in Tasks
      BY <1>1 DEF TypeOK
    <3>2. \A i \in 1..Len(tasks) : tasks[i].kind = "write" => tasks[i].write \in Write
      BY <3>1 DEF Tasks
    <3> QED
      BY <1>1, <3>2, WriteNat DEF QueueInv
  <2>4. ASSUME NEW j \in 1..Len(tasks'), tasks'[j].kind = "write"
        PROVE  /\ tasks'[j].write <= calls'
               /\ \A u \in User : \A i \in 1..Len(queue[u]) : queue[u][i] < tasks'[j].write
               /\ \A i \in 1..(j - 1) : tasks'[i].kind = "write" => tasks'[i].write < tasks'[j].write
    <3>1. CASE j = Len(tasks')
      BY <1>1, <1>2, <1>3, <2>1, <2>2, <2>3, <3>1
    <3>2. CASE j # Len(tasks')
      <4>1. j \in 1..Len(tasks) /\ tasks'[j] = tasks[j] /\ \A i \in 1..(j - 1) : tasks'[i] = tasks[i]
        BY <2>1, <3>2
      <4> QED
        BY <1>1, <1>3, <2>3, <2>4, <4>1, SMTT(20) DEF QueueInv
    <3> QED
      BY <3>1, <3>2
  <2>5. \A u \in User : \A i \in 1..Len(queue[u]) : queue[u][i] <= calls'
    BY <1>1, <1>3, <2>2
  <2> QED
    BY <1>1, <1>3, <2>4, <2>5 DEF QueueInv
<1>6. TypeOK'
  <2>1. calls' \in 0..MaxWrites
    BY <1>1, <1>3, ConstantsAssumption DEF Write
  <2>2. owner' \in [Write -> User \union {NoUser}]
    BY <1>1 DEF WriteMutations, TypeOK
  <2> QED
    BY <1>1, <1>4, <2>1, <2>2
       DEF WriteMutations, TypeOK, credentialVars, storeVars, streamVars, serverVars, boundVars
<1> QED
  BY <1>4, <1>5, <1>6 DEF IInv

LEMMA SignInInv == ASSUME IInv, NEW u \in User, SignIn(u) PROVE IInv'
<1>1. QueueInv' /\ PipeInv' /\ TaskInv' /\ CallInv'
  BY SameStream DEF SignIn, storeVars, appVars
<1>2. [kind |-> "announce", user |-> u] \in Messages
  BY DEF Messages
<1>3. main' \in Seq(Messages)
  BY <1>2, AppendProperties DEF SignIn, IInv, TypeOK
<1>4. signIns' \in 0..MaxSignIns
  BY ConstantsAssumption DEF SignIn, IInv, TypeOK
<1>5. TypeOK'
  BY <1>3, <1>4 DEF SignIn, IInv, TypeOK, storeVars, streamVars, serverVars, appVars
<1> QED
  BY <1>1, <1>5 DEF IInv

\* The head of the messages on the main thread.
LEMMA HeadMessage ==
  ASSUME TypeOK, main # <<>>
  PROVE  /\ Tail(main) \in Seq(Messages) /\ Head(main) \in Messages
         /\ Head(main).kind = "announce" => Head(main).user \in User
         /\ Head(main).kind = "token" => Head(main).fetch \in Fetches
<1>1. Tail(main) \in Seq(Messages) /\ Head(main) \in Messages
  BY HeadTailProperties DEF TypeOK
<1> QED
  BY <1>1 DEF Messages

LEMMA AnnounceInv == IInv /\ Announce => IInv'
<1> SUFFICES ASSUME IInv, Announce PROVE IInv'
  OBVIOUS
<1> DEFINE t == [kind |-> "credential", user |-> Head(main).user]
<1>1. Tail(main) \in Seq(Messages) /\ Head(main).user \in User
  BY HeadMessage DEF Announce, IInv
<1>2. t \in Tasks /\ t.kind \notin Completions /\ t.kind # "write" /\ tasks' = Append(tasks, t)
  BY <1>1 DEF Tasks, Completions, Announce
<1> HIDE DEF t
<1>3. PipeInv' /\ TaskInv' /\ CallInv' /\ tasks' \in Seq(Tasks) /\ QueueInv'
  BY <1>2, AppendTask DEF Announce, storeVars, appVars
<1>4. main' \in Seq(Messages) /\ contents' \in [user : User, counter : Nat]
  BY <1>1, SMTT(20) DEF Announce, IInv, TypeOK
<1>5. TypeOK'
  BY <1>3, <1>4 DEF Announce, IInv, TypeOK, storeVars, streamVars, serverVars, appVars, boundVars
<1> QED
  BY <1>3, <1>5 DEF IInv

LEMMA BeginTokenInv == ASSUME IInv, NEW f \in fetches, BeginToken(f) PROVE IInv'
<1>1. QueueInv' /\ PipeInv' /\ TaskInv' /\ CallInv'
  BY SameStream DEF BeginToken, storeVars, appVars
<1>2. fetches' \subseteq Fetches
  BY DEF BeginToken, IInv, TypeOK, Fetches
<1>3. TypeOK'
  BY <1>2 DEF BeginToken, IInv, TypeOK, storeVars, streamVars, serverVars, appVars, boundVars
<1> QED
  BY <1>1, <1>3 DEF IInv

LEMMA AnswerTokenInv == ASSUME IInv, NEW f \in fetches, AnswerToken(f) PROVE IInv'
<1>1. QueueInv' /\ PipeInv' /\ TaskInv' /\ CallInv'
  BY SameStream DEF AnswerToken, storeVars, appVars
<1>2. f \in Fetches /\ [f EXCEPT !.user = NoUser] \in Fetches
  <2>1. f \in Fetches
    BY DEF IInv, TypeOK
  <2> QED
    BY <2>1 DEF Fetches
<1>3. \A g \in Fetches : [kind |-> "token", fetch |-> g] \in Messages
  BY DEF Messages
<1>4. main' \in Seq(Messages)
  <2>1. \A m \in Messages : Append(main, m) \in Seq(Messages)
    BY AppendProperties DEF IInv, TypeOK
  <2> QED
    BY <1>2, <1>3, <2>1 DEF AnswerToken
<1>5. faults' \in 0..MaxFaults
  BY ConstantsAssumption, SMTT(20) DEF AnswerToken, Fault, IInv, TypeOK
<1>6. TypeOK'
  BY <1>4, <1>5 DEF AnswerToken, IInv, TypeOK, storeVars, streamVars, serverVars, appVars
<1> QED
  BY <1>1, <1>6 DEF IInv

LEMMA TakeTokenInv == IInv /\ TakeToken => IInv'
<1> SUFFICES ASSUME IInv, TakeToken PROVE IInv'
  OBVIOUS
<1> DEFINE f == Head(main).fetch
           t == [kind |-> "resume", closes |-> f.closes, user |-> f.user]
<1>1. Tail(main) \in Seq(Messages) /\ f \in Fetches /\ f.closes \in Nat /\ main' = Tail(main)
  BY HeadMessage DEF TakeToken, IInv, Fetches
<1>2. t \in Tasks /\ t.kind \notin Completions /\ t.kind # "write"
  BY <1>1 DEF Tasks, Completions, Fetches
<1>3. CASE UNCHANGED tasks /\ fetches' = fetches \union {Fetch(f.closes, contents.counter)}
  <2>1. QueueInv' /\ PipeInv' /\ TaskInv' /\ CallInv'
    BY <1>3, SameStream DEF TakeToken, storeVars, appVars
  <2>2. fetches' \subseteq Fetches
    BY <1>1, <1>3, FetchType DEF IInv, TypeOK
  <2>3. TypeOK'
    BY <1>1, <1>3, <2>2 DEF TakeToken, IInv, TypeOK, storeVars, streamVars, serverVars, appVars, boundVars
  <2> QED
    BY <2>1, <2>3 DEF IInv
<1>4. CASE tasks' = Append(tasks, t) /\ UNCHANGED fetches
  <2>1. PipeInv' /\ TaskInv' /\ CallInv' /\ tasks' \in Seq(Tasks) /\ QueueInv'
    BY <1>2, <1>4, AppendTask DEF TakeToken, storeVars, appVars
  <2>2. TypeOK'
    BY <1>1, <1>4, <2>1 DEF TakeToken, IInv, TypeOK, storeVars, streamVars, serverVars, appVars, boundVars
  <2> QED
    BY <2>1, <2>2 DEF IInv
<1> QED
  BY <1>3, <1>4 DEF TakeToken

(***************************************************************************)
(* The server and gRPC.                                                     *)
(***************************************************************************)

LEMMA CallType ==
  ASSUME TypeOK, call # NoCall
  PROVE  /\ call \in Call /\ call.user \in User /\ call.sent \in Seq(Write \union {Handshake})
         /\ call.handled \in Nat /\ call.taken \in Nat /\ Len(call.sent) \in Nat
         /\ call.status \in {"live", "transient", "permanent"}
         /\ call.phase \in {"up", "failed", "finishing"}
<1>1. call \in Call
  BY DEF TypeOK
<1> QED
  BY <1>1 DEF Call, Handshake

\* The next request is the handshake or a write.
LEMMA NextRequestType ==
  ASSUME TypeOK, Live
  PROVE  /\ call.handled + 1 \in 1..Len(call.sent)
         /\ NextRequest \in Write \union {Handshake}
  BY CallType DEF Live, NextRequest

\* A change to the call that leaves what has been sent and taken.
LEMMA ChangedCall ==
  ASSUME IInv, call # NoCall, call' \in Call,
         call'.sent = call.sent, call'.taken = call.taken,
         call.handled <= call'.handled, call'.handled <= Len(call.sent),
         UNCHANGED <<tasks, pipeline, state, handshake, queue, current, calls>>
  PROVE  QueueInv' /\ PipeInv' /\ TaskInv' /\ CallInv'
<1>1. TypeOK /\ QueueInv /\ PipeInv /\ TaskInv /\ CallInv /\ IsOpen' = IsOpen /\ call' # NoCall
  BY NoCallType DEF IInv, IsOpen
<1>2. QueueInv' /\ PipeInv' /\ TaskInv'
  BY <1>1 DEF QueueInv, PipeInv, TaskInv, NoCompletions
<1>3. call'.handled \in Nat /\ call.handled \in Nat /\ call.taken \in Nat
  BY <1>1, CallType DEF Call
<1>4. CallInv'
  BY <1>1, <1>3 DEF CallInv, TaskInv, Queued
<1> QED
  BY <1>2, <1>4

LEMMA HandleInv == IInv /\ Handle => IInv'
<1> SUFFICES ASSUME IInv, Handle PROVE IInv'
  OBVIOUS
<1>1. TypeOK /\ call # NoCall /\ call.handled < Len(call.sent)
  BY DEF Handle, Live, IInv
<1>2. /\ call' \in Call /\ call'.sent = call.sent /\ call'.taken = call.taken
      /\ call'.handled = call.handled + 1
  <2>1. call \in Call /\ call' = [call EXCEPT !.handled = @ + 1]
    BY <1>1, CallType DEF Handle
  <2> QED
    BY <2>1 DEF Call
<1>3. QueueInv' /\ PipeInv' /\ TaskInv' /\ CallInv'
  BY <1>1, <1>2, CallType, ChangedCall DEF Handle, storeVars, appVars
<1>4. applied' \subseteq Write \X User
  <2>1. NextRequest # Handshake => <<NextRequest, call.user>> \in Write \X User
    BY <1>1, NextRequestType, CallType DEF Handle
  <2> QED
    BY <1>1, <2>1 DEF Handle, TypeOK
<1>5. TypeOK'
  BY <1>1, <1>2, <1>4 DEF Handle, TypeOK, credentialVars, storeVars, appVars, boundVars
<1> QED
  BY <1>3, <1>5 DEF IInv

LEMMA RefuseInv == IInv /\ Refuse => IInv'
<1> SUFFICES ASSUME IInv, Refuse PROVE IInv'
  OBVIOUS
<1>1. TypeOK /\ CallInv /\ TaskInv /\ call # NoCall /\ call.handled < Len(call.sent)
  BY DEF Refuse, Live, IInv
<1>2. /\ call' \in Call /\ call'.sent = call.sent /\ call'.taken = call.taken
      /\ call'.handled = call.handled
  <2>1. call \in Call /\ call' = [call EXCEPT !.status = "permanent"]
    BY <1>1, CallType DEF Refuse
  <2> QED
    BY <2>1 DEF Call
<1>3. QueueInv' /\ PipeInv' /\ TaskInv' /\ CallInv'
  BY <1>1, <1>2, CallType, ChangedCall DEF Refuse, storeVars, appVars
<1>4. refused' \subseteq Write
  BY <1>1, NextRequestType DEF Refuse, TypeOK
<1>5. faults' \in 0..MaxFaults
  BY <1>1, ConstantsAssumption, SMTT(20) DEF Refuse, Fault, TypeOK
<1>6. TypeOK'
  BY <1>1, <1>2, <1>4, <1>5 DEF Refuse, TypeOK, credentialVars, storeVars, appVars
<1> QED
  BY <1>3, <1>6 DEF IInv

LEMMA LoseInv == IInv /\ Lose => IInv'
<1> SUFFICES ASSUME IInv, Lose PROVE IInv'
  OBVIOUS
<1>1. TypeOK /\ CallInv /\ TaskInv /\ call # NoCall /\ IsOpen /\ call.handled <= Len(call.sent)
  BY DEF Lose, IInv, TaskInv, CallInv
<1>2. /\ call' \in Call /\ call'.sent = call.sent /\ call'.taken = call.taken
      /\ call'.handled = call.handled
  <2>1. call \in Call /\ call' = [call EXCEPT !.status = "transient"]
    BY <1>1, CallType DEF Lose
  <2> QED
    BY <2>1 DEF Call
<1>3. QueueInv' /\ PipeInv' /\ TaskInv' /\ CallInv'
  BY <1>1, <1>2, CallType, ChangedCall DEF Lose, storeVars, appVars
<1>4. stale' \subseteq Stales
  BY <1>1, AbandonedType DEF Lose, TypeOK, Stales
<1>5. faults' \in 0..MaxFaults
  BY <1>1, ConstantsAssumption, SMTT(20) DEF Lose, Fault, TypeOK
<1>6. TypeOK'
  BY <1>1, <1>2, <1>4, <1>5 DEF Lose, TypeOK, Stales, credentialVars, storeVars, appVars
<1> QED
  BY <1>3, <1>6 DEF IInv

LEMMA HandleStaleInv == ASSUME IInv, NEW s \in stale, HandleStale(s) PROVE IInv'
<1>1. QueueInv' /\ PipeInv' /\ TaskInv' /\ CallInv'
  BY SameStream DEF HandleStale, storeVars, appVars
<1>2. s.user \in User /\ s.rest \in Seq(Write) /\ s.rest # <<>> /\ s \in Stales /\ stale \subseteq Stales
  BY DEF IInv, TypeOK, Stales
<1>3. /\ Head(s.rest) \in Write /\ Tail(s.rest) \in Seq(Write) /\ Len(s.rest) \in Nat
      /\ Len(Tail(s.rest)) = Len(s.rest) - 1
  BY <1>2, HeadTailProperties
<1>4. applied' \subseteq Write \X User
  BY <1>2, <1>3 DEF HandleStale, IInv, TypeOK
<1>5. ASSUME Len(s.rest) # 1 PROVE [s EXCEPT !.rest = Tail(@)] \in Stales
  <2>0. Len(Tail(s.rest)) # 0
    BY <1>3, <1>5
  <2>1. Tail(s.rest) # <<>>
    BY <2>0, EmptySeq
  <2> QED
    BY <1>2, <1>3, <2>1 DEF Stales
<1>6. stale' \subseteq Stales
  BY <1>2, <1>5 DEF HandleStale
<1>7. TypeOK'
  BY <1>4, <1>6 DEF HandleStale, IInv, TypeOK, Stales, credentialVars, storeVars, streamVars, appVars, boundVars
<1> QED
  BY <1>1, <1>7 DEF IInv

LEMMA AppendCompletion ==
  ASSUME IInv, call # NoCall, NEW t \in Tasks, t.kind \in Completions, tasks' = Append(tasks, t),
         t.kind = "read" => ~Queued("read") /\ call.taken < call.handled,
         call' \in Call, call'.sent = call.sent, call'.taken = call.taken, call'.handled = call.handled,
         UNCHANGED <<pipeline, state, handshake, queue, current, calls>>
  PROVE  QueueInv' /\ PipeInv' /\ TaskInv' /\ CallInv' /\ tasks' \in Seq(Tasks)
<1>1. TypeOK /\ QueueInv /\ PipeInv /\ TaskInv /\ CallInv /\ tasks \in Seq(Tasks)
      /\ IsOpen /\ IsOpen' = IsOpen /\ call' # NoCall
  BY NoCallType DEF IInv, TypeOK, IsOpen, TaskInv
<1>2. /\ tasks' \in Seq(Tasks) /\ Len(tasks') = Len(tasks) + 1 /\ tasks'[Len(tasks')] = t
      /\ Len(tasks) \in Nat
      /\ \A i \in 1..Len(tasks') : i # Len(tasks') => i \in 1..Len(tasks) /\ tasks'[i] = tasks[i]
  BY <1>1, AppendKept
<1>3. QueueInv'
  <2>1. Kept(0, {"write"})
    BY <1>2 DEF Kept, Completions
  <2> QED
    BY <1>1, <1>2, <2>1, QueueStays
<1>4. t.kind = "read" => \A i \in 1..Len(tasks) : tasks[i].kind # "read"
  BY DEF Queued
<1>5. TaskInv'
  <2>1. \A i, j \in 1..Len(tasks') : tasks'[i].kind = "read" /\ tasks'[j].kind = "read" => i = j
    BY <1>1, <1>2, <1>4 DEF TaskInv
  <2> QED
    BY <1>1, <2>1 DEF TaskInv
<1>6. Queued("read")' => Queued("read") \/ t.kind = "read"
  BY <1>2 DEF Queued
<1>7. CallInv' /\ PipeInv'
  BY <1>1, <1>6 DEF CallInv, PipeInv
<1> QED
  BY <1>2, <1>3, <1>5, <1>7

LEMMA CompletionType ==
  ASSUME NEW k \in {"noop", "read", "fail", "finish"}
  PROVE  [kind |-> k] \in Tasks
  BY DEF Tasks

LEMMA CompleteReadInv == IInv /\ CompleteRead => IInv'
<1> SUFFICES ASSUME IInv, CompleteRead PROVE IInv'
  OBVIOUS
<1> DEFINE t == [kind |-> "read"]
<1>1. t \in Tasks /\ t.kind = "read" /\ t.kind \in Completions
  BY CompletionType DEF Completions
<1> HIDE DEF t
<1>2. /\ TypeOK /\ call # NoCall /\ tasks' = Append(tasks, t) /\ ~Queued("read") /\ call.taken < call.handled
      /\ UNCHANGED <<call, pipeline, state, handshake, queue, current, calls>>
  BY DEF CompleteRead, IInv, storeVars, streamVars, appVars, t
<1>3. QueueInv' /\ PipeInv' /\ TaskInv' /\ CallInv' /\ tasks' \in Seq(Tasks)
  BY <1>1, <1>2, CallType, AppendCompletion
<1>4. TypeOK'
  BY <1>2, <1>3
     DEF CompleteRead, TypeOK, credentialVars, storeVars, streamVars, serverVars, appVars, boundVars
<1> QED
  BY <1>3, <1>4 DEF IInv

LEMMA FailOperationInv == IInv /\ FailOperation => IInv'
<1> SUFFICES ASSUME IInv, FailOperation PROVE IInv'
  OBVIOUS
<1> DEFINE t == [kind |-> "fail"]
<1>1. t \in Tasks /\ t.kind # "read" /\ t.kind \in Completions
  BY CompletionType DEF Completions
<1> HIDE DEF t
<1>2. /\ TypeOK /\ call # NoCall /\ tasks' = Append(tasks, t)
      /\ UNCHANGED <<pipeline, state, handshake, queue, current, calls>>
  BY DEF FailOperation, IInv, storeVars, appVars, t
<1>3. /\ call' \in Call /\ call'.sent = call.sent /\ call'.taken = call.taken
      /\ call'.handled = call.handled
  <2>1. call \in Call /\ call' = [call EXCEPT !.phase = "failed"]
    BY <1>2, CallType DEF FailOperation
  <2> QED
    BY <2>1 DEF Call
<1>4. QueueInv' /\ PipeInv' /\ TaskInv' /\ CallInv' /\ tasks' \in Seq(Tasks)
  BY <1>1, <1>2, <1>3, AppendCompletion
<1>5. TypeOK'
  BY <1>2, <1>3, <1>4
     DEF FailOperation, TypeOK, credentialVars, storeVars, serverVars, appVars, boundVars
<1> QED
  BY <1>4, <1>5 DEF IInv

(***************************************************************************)
(* The tasks of the worker queue.                                           *)
(***************************************************************************)

\* The task that runs.
LEMMA HeadTask ==
  ASSUME IInv, NEW k, Runs(k)
  PROVE  /\ tasks \in Seq(Tasks) /\ tasks # <<>> /\ Len(tasks) \in Nat \ {0}
         /\ Head(tasks) = tasks[1] /\ Head(tasks) \in Tasks /\ Head(tasks).kind = k
         /\ Tail(tasks) \in Seq(Tasks) /\ Len(Tail(tasks)) = Len(tasks) - 1
         /\ \A i \in 1..Len(Tail(tasks)) : Tail(tasks)[i] = tasks[i + 1]
         /\ k \in Completions => call # NoCall /\ IsOpen
<1>1. tasks \in Seq(Tasks) /\ tasks # <<>> /\ TaskInv
  BY DEF IInv, TypeOK, Runs
<1>2. /\ Len(tasks) \in Nat \ {0} /\ Head(tasks) = tasks[1] /\ Head(tasks) \in Tasks
      /\ Tail(tasks) \in Seq(Tasks) /\ Len(Tail(tasks)) = Len(tasks) - 1
      /\ \A i \in 1..Len(Tail(tasks)) : Tail(tasks)[i] = tasks[i + 1]
  BY <1>1, TailType
<1>3. Head(tasks).kind = k /\ 1 \in 1..Len(tasks)
  BY <1>2 DEF Runs
<1>4. k \in Completions => IsOpen
  BY <1>1, <1>2, <1>3 DEF TaskInv, NoCompletions
<1> QED
  BY <1>1, <1>2, <1>3, <1>4 DEF TaskInv

\* The queue without its head, a stream that stays as it is.
LEMMA TailTasks ==
  ASSUME IInv, NEW k, Runs(k), tasks' = Tail(tasks), UNCHANGED <<state, handshake>>,
         call' # NoCall <=> call # NoCall
  PROVE  /\ TaskInv' /\ tasks' \in Seq(Tasks) /\ Kept(1, {"write"})
         /\ Queued("read")' => Queued("read") /\ k # "read"
<1>1. /\ tasks' \in Seq(Tasks) /\ Len(tasks') = Len(tasks) - 1 /\ Len(tasks) \in Nat \ {0}
      /\ \A i \in 1..Len(tasks') : i + 1 \in 1..Len(tasks) /\ tasks'[i] = tasks[i + 1]
      /\ tasks[1].kind = k
  BY HeadTask
<1>2. TaskInv /\ IsOpen' = IsOpen
  BY DEF IInv, IsOpen
<1>3. TaskInv'
  <2>1. NoCompletions => NoCompletions'
    BY <1>1 DEF NoCompletions
  <2>2. \A i, j \in 1..Len(tasks') : tasks'[i].kind = "read" /\ tasks'[j].kind = "read" => i = j
    <3> SUFFICES ASSUME NEW i \in 1..Len(tasks'), NEW j \in 1..Len(tasks'),
                        tasks'[i].kind = "read", tasks'[j].kind = "read"
                 PROVE  i = j
      OBVIOUS
    <3>1. i + 1 = j + 1
      BY <1>1, <1>2 DEF TaskInv
    <3> QED
      BY <1>1, <3>1
  <2> QED
    BY <1>2, <2>1, <2>2 DEF TaskInv
<1>4. Queued("read")' => Queued("read") /\ k # "read"
  <2> SUFFICES ASSUME NEW i \in 1..Len(tasks'), tasks'[i].kind = "read"
               PROVE  Queued("read") /\ k # "read"
    BY <1>1 DEF Queued
  <2>1. i + 1 \in 1..Len(tasks) /\ tasks[i + 1].kind = "read" /\ i + 1 # 1 /\ 1 \in 1..Len(tasks)
    BY <1>1
  <2> QED
    BY <1>1, <1>2, <2>1 DEF Queued, TaskInv
<1> QED
  BY <1>1, <1>3, <1>4 DEF Kept

LEMMA RunNoopInv == IInv /\ RunNoop => IInv'
<1> SUFFICES ASSUME IInv, RunNoop PROVE IInv'
  OBVIOUS
<1>1. /\ Runs("noop") /\ tasks' = Tail(tasks)
      /\ UNCHANGED <<call, pipeline, state, handshake, queue, current, calls>>
      /\ TypeOK /\ QueueInv /\ PipeInv /\ CallInv /\ IsOpen' = IsOpen
  BY DEF RunNoop, IInv, storeVars, streamVars, appVars, IsOpen
<1>2. TaskInv' /\ tasks' \in Seq(Tasks) /\ Kept(1, {"write"}) /\ (Queued("read")' => Queued("read"))
  BY <1>1, TailTasks
<1>3. QueueInv'
  BY <1>1, <1>2, QueueStays
<1>4. PipeInv' /\ CallInv'
  BY <1>1, <1>2 DEF PipeInv, CallInv
<1>5. TypeOK'
  BY <1>1, <1>2
     DEF RunNoop, TypeOK, credentialVars, storeVars, streamVars, serverVars, appVars, boundVars
<1> QED
  BY <1>2, <1>3, <1>4, <1>5 DEF IInv

\* How far a call has got, with a pipeline p that is to be filled.
InStep(c, p) ==
    /\ c \in Call
    /\ c.taken <= c.handled /\ c.handled <= Len(c.sent)
    /\ HandshakeFirst(c.sent)
    /\ IF handshake THEN 1 <= c.taken /\ Follows(p, c.sent, c.taken)
       ELSE c.taken = 0 /\ Len(c.sent) = 1

LEMMA CallInStep ==
  ASSUME IInv, call # NoCall
  PROVE  InStep(call, pipeline) /\ IsOpen /\ state = "Open"
  BY CallType DEF IInv, TaskInv, CallInv, InStep, IsOpen

\* Filling the pipeline sends what it adds.
LEMMA FilledCall ==
  ASSUME TypeOK, NEW p \in Seq(Write), NEW q \in Seq(Write), NEW c,
         FillWritePipeline(p, q, state, closes, c), Prefix(p, q), Increasing(q), Len(p) <= MaxPendingWrites,
         UNCHANGED handshake, IsOpen <=> c # NoCall, c # NoCall => InStep(c, p),
         c # NoCall /\ Queued("read")' => c.taken < c.handled
  PROVE  /\ pipeline' \in Seq(Write) /\ Prefix(pipeline', q) /\ Len(pipeline') <= MaxPendingWrites
         /\ closes' \in Nat /\ fetches' \subseteq Fetches /\ idle' \in BOOLEAN /\ state' \in States
         /\ call' \in Call \union {NoCall} /\ (IsOpen' <=> call' # NoCall) /\ IsOpen' = IsOpen
         /\ CallInv'
<1>1. state \in States /\ closes \in Nat /\ IsOpen \in BOOLEAN
  BY DEF TypeOK, States, IsOpen
<1>2. /\ pipeline' \in Seq(Write) /\ Prefix(pipeline', q) /\ Len(pipeline') <= MaxPendingWrites
      /\ Prefix(p, pipeline')
      /\ closes' = closes /\ fetches' \subseteq Fetches /\ idle' \in BOOLEAN /\ state' \in States
      /\ IsOpen <=> IsOpen'
      /\ IF IsOpen /\ handshake
         THEN call' = [c EXCEPT !.sent = @ \o SubSeq(pipeline', Len(p) + 1, Len(pipeline'))]
         ELSE call' = c
  BY <1>1, FillEffect DEF IsOpen
<1>3. CASE c = NoCall
  <2>1. ~IsOpen /\ call' = NoCall
    BY <1>2, <1>3
  <2> QED
    BY <1>1, <1>2, <2>1 DEF CallInv, IsOpen
<1>4. CASE c # NoCall /\ ~handshake
  <2>1. IsOpen /\ call' = c /\ InStep(c, p) /\ c \in Call /\ c # NoCall
    BY <1>2, <1>4 DEF InStep
  <2>2. CallInv'
    BY <1>4, <2>1 DEF CallInv, InStep
  <2> QED
    BY <1>1, <1>2, <2>1, <2>2 DEF IsOpen
<1>5. CASE c # NoCall /\ handshake
  <2>1. /\ IsOpen /\ InStep(c, p) /\ c \in Call
        /\ call' = [c EXCEPT !.sent = @ \o SubSeq(pipeline', Len(p) + 1, Len(pipeline'))]
    BY <1>2, <1>5 DEF InStep
  <2>2. /\ c.sent \in Seq(Write \union {Handshake}) /\ c.taken \in Nat /\ c.handled \in Nat
        /\ Len(c.sent) \in Nat /\ c.taken <= Len(c.sent)
    BY <2>1 DEF Call, Handshake, InStep
  <2> DEFINE new == c.sent \o SubSeq(pipeline', Len(p) + 1, Len(pipeline'))
  <2>3. /\ new \in Seq(Write \union {Handshake}) /\ Len(c.sent) <= Len(new)
        /\ HandshakeFirst(new) /\ Follows(pipeline', new, c.taken)
    BY <1>2, <1>5, <2>1, <2>2, SentEffect DEF InStep
  <2> HIDE DEF new
  <2>4. call' = [c EXCEPT !.sent = new]
    BY <2>1 DEF new
  <2>5. call' \in Call /\ call'.sent = new /\ call'.taken = c.taken /\ call'.handled = c.handled
    BY <2>1, <2>3, <2>4 DEF Call, Handshake
  <2>6. call' # NoCall /\ IsOpen'
    BY <1>2, <2>1, <2>5, NoCallType
  <2>7. c.handled <= Len(new)
    BY <2>1, <2>2, <2>3 DEF InStep
  <2>8. CallInv'
    BY <1>5, <2>1, <2>3, <2>5, <2>6, <2>7 DEF CallInv, InStep
  <2> QED
    BY <1>1, <1>2, <2>1, <2>5, <2>6, <2>8
<1> QED
  BY <1>3, <1>4, <1>5

LEMMA RunWriteInv == IInv /\ RunWrite => IInv'
<1> SUFFICES ASSUME IInv, RunWrite PROVE IInv'
  OBVIOUS
<1> DEFINE w == Head(tasks).write
           q == Append(queue[current], w)
<1>1. /\ Runs("write") /\ tasks' = Tail(tasks) /\ UNCHANGED <<handshake, current, calls>>
      /\ queue' = [queue EXCEPT ![current] = q]
      /\ callbacks' = [callbacks EXCEPT ![current] = @ \union {w}]
      /\ fate' = [fate EXCEPT ![w] = "saved"]
      /\ FillWritePipeline(pipeline, q, state, closes, call)
  BY DEF RunWrite, appVars
<1>2. /\ TypeOK /\ QueueInv /\ PipeInv /\ TaskInv /\ CallInv /\ current \in User
      /\ pipeline \in Seq(Write) /\ queue[current] \in Seq(Write) /\ Len(queue[current]) \in Nat
  BY SMTT(20) DEF IInv, TypeOK
<1>3. /\ tasks \in Seq(Tasks) /\ tasks # <<>> /\ Head(tasks) = tasks[1] /\ Head(tasks) \in Tasks
      /\ Head(tasks).kind = "write" /\ 1 \in 1..Len(tasks)
      /\ Len(tasks') = Len(tasks) - 1 /\ Len(tasks) \in Nat
      /\ \A i \in 1..Len(tasks') : tasks'[i] = tasks[i + 1]
  BY <1>1, HeadTask
<1>4. w \in Write
  BY <1>3 DEF Tasks
<1>5. /\ w <= calls
      /\ \A u \in User : \A i \in 1..Len(queue[u]) : queue[u][i] < w
      /\ \A j \in 2..Len(tasks) : tasks[j].kind = "write" => w < tasks[j].write
  BY <1>2, <1>3 DEF QueueInv
<1> HIDE DEF w
<1>6. /\ q \in Seq(Write) /\ Len(q) = Len(queue[current]) + 1 /\ q[Len(q)] = w
      /\ \A i \in 1..Len(queue[current]) : q[i] = queue[current][i]
  BY <1>2, <1>4, AppendProperties
<1> HIDE DEF q
<1>7. Increasing(q)
  <2>1. Increasing(queue[current]) /\ \A i \in 1..Len(queue[current]) : queue[current][i] < w
    BY <1>2, <1>5 DEF QueueInv
  <2> QED
    BY <1>2, <1>6, <2>1, AppendIncreasing
<1>8. Prefix(pipeline, q) /\ Len(pipeline) <= MaxPendingWrites
  <2>1. Prefix(pipeline, queue[current]) /\ Len(pipeline) \in Nat
    BY <1>2 DEF PipeInv
  <2> QED
    BY <1>2, <1>6, <2>1 DEF Prefix, PipeInv
<1>9. \A u \in User : queue'[u] = IF u = current THEN q ELSE queue[u]
  BY <1>1, <1>2 DEF TypeOK
<1>10. Queued("read")' => Queued("read")
  <2> SUFFICES ASSUME NEW i \in 1..Len(tasks'), tasks'[i].kind = "read" PROVE Queued("read")
    BY <1>3 DEF Queued
  <2>1. i + 1 \in 1..Len(tasks) /\ tasks[i + 1].kind = "read"
    BY <1>3
  <2> QED
    BY <1>3, <2>1 DEF Queued
<1>11. /\ pipeline' \in Seq(Write) /\ Prefix(pipeline', q) /\ Len(pipeline') <= MaxPendingWrites
       /\ closes' \in Nat /\ fetches' \subseteq Fetches /\ idle' \in BOOLEAN /\ state' \in States
       /\ call' \in Call \union {NoCall} /\ (IsOpen' <=> call' # NoCall) /\ IsOpen' = IsOpen
       /\ CallInv'
  <2>1. call # NoCall => InStep(call, pipeline)
    BY CallInStep
  <2>2. call # NoCall /\ Queued("read")' => call.taken < call.handled
    BY <1>2, <1>10 DEF CallInv, TaskInv
  <2> QED
    BY <1>1, <1>2, <1>6, <1>7, <1>8, <2>1, <2>2, FilledCall DEF TaskInv
<1>12. TaskInv'
  <2>1. NoCompletions => NoCompletions'
    BY <1>3 DEF NoCompletions
  <2>2. \A i, j \in 1..Len(tasks') : tasks'[i].kind = "read" /\ tasks'[j].kind = "read" => i = j
    <3> SUFFICES ASSUME NEW i \in 1..Len(tasks'), NEW j \in 1..Len(tasks'),
                        tasks'[i].kind = "read", tasks'[j].kind = "read"
                 PROVE  i = j
      OBVIOUS
    <3>1. i + 1 \in 1..Len(tasks) /\ j + 1 \in 1..Len(tasks)
      BY <1>3
    <3>2. i + 1 = j + 1
      BY <1>2, <1>3, <3>1 DEF TaskInv
    <3> QED
      BY <3>2
  <2> QED
    BY <1>1, <1>2, <1>11, <2>1, <2>2 DEF TaskInv
<1>13. PipeInv'
  BY <1>1, <1>2, <1>9, <1>11 DEF PipeInv
<1>14. QueueInv'
  <2>1. \A u \in User : Increasing(queue'[u])
    BY <1>2, <1>7, <1>9 DEF QueueInv
  <2>2. \A u \in User : \A i \in 1..Len(queue'[u]) :
           queue'[u][i] = w \/ \E k \in 1..Len(queue[u]) : queue'[u][i] = queue[u][k]
    BY <1>2, <1>6, <1>9
  <2>3. \A u \in User : \A i \in 1..Len(queue'[u]) : queue'[u][i] <= calls
    BY <1>2, <1>5, <2>2 DEF QueueInv
  <2>4. ASSUME NEW j \in 1..Len(tasks'), tasks'[j].kind = "write"
        PROVE  /\ tasks'[j].write <= calls
               /\ \A u \in User : \A i \in 1..Len(queue'[u]) : queue'[u][i] < tasks'[j].write
               /\ \A i \in 1..(j - 1) : tasks'[i].kind = "write" => tasks'[i].write < tasks'[j].write
    <3>1. j + 1 \in 2..Len(tasks) /\ tasks'[j] = tasks[j + 1]
      BY <1>3
    <3>2. \A i \in 1..(j - 1) : i + 1 \in 1..(j + 1 - 1) /\ tasks'[i] = tasks[i + 1]
      BY <1>3
    <3>3. /\ tasks'[j].write <= calls
          /\ \A i \in 1..(j - 1) : tasks'[i].kind = "write" => tasks'[i].write < tasks'[j].write
      BY <1>2, <2>4, <3>1, <3>2 DEF QueueInv
    <3>4. \A u \in User : \A i \in 1..Len(queue'[u]) : queue'[u][i] < tasks'[j].write
      <4> SUFFICES ASSUME NEW u \in User, NEW i \in 1..Len(queue'[u])
                   PROVE  queue'[u][i] < tasks'[j].write
        OBVIOUS
      <4>1. CASE queue'[u][i] = w
        BY <1>5, <2>4, <3>1, <4>1
      <4>2. ASSUME NEW k \in 1..Len(queue[u]), queue'[u][i] = queue[u][k]
            PROVE  queue'[u][i] < tasks'[j].write
        BY <1>2, <2>4, <3>1, <4>2 DEF QueueInv
      <4> QED
        BY <2>2, <4>1, <4>2
    <3> QED
      BY <3>3, <3>4
  <2> QED
    BY <1>1, <2>1, <2>3, <2>4 DEF QueueInv
<1>15. /\ queue' \in [User -> Seq(Write)] /\ callbacks' \in [User -> SUBSET Write]
       /\ fate' \in [Write -> Fates] /\ tasks' \in Seq(Tasks)
  BY <1>1, <1>2, <1>3, <1>4, <1>6, TailType DEF TypeOK, Fates
<1>16. TypeOK'
  BY <1>2, <1>11, <1>15 DEF RunWrite, TypeOK, States, Fates, serverVars, appVars, boundVars
<1> QED
  BY <1>11, <1>12, <1>13, <1>14, <1>16 DEF IInv

LEMMA RunCredentialInv == IInv /\ RunCredential => IInv'
<1> SUFFICES ASSUME IInv, RunCredential PROVE IInv'
  OBVIOUS
<1> DEFINE u == Head(tasks).user
<1>1. /\ Runs("credential") /\ RestartNetwork(queue[u], Tail(tasks)) /\ current' = u
      /\ UNCHANGED <<queue, calls>> /\ TypeOK /\ QueueInv
  BY DEF RunCredential, storeVars, appVars, IInv
<1>2. u \in User /\ tasks # <<>>
  BY <1>1, HeadTask DEF Tasks
<1> HIDE DEF u
<1>3. queue[u] \in Seq(Write) /\ Increasing(queue[u])
  BY <1>1, <1>2 DEF TypeOK, QueueInv
<1>4. Closed(1) /\ Prefix(pipeline', queue[u]) /\ Len(pipeline') <= MaxPendingWrites
  BY <1>1, <1>2, <1>3, RestartEffect
<1>5. QueueInv' /\ TaskInv' /\ CallInv'
  BY <1>1, <1>4, QueueStays, KeptWrites DEF Closed
<1>6. PipeInv'
  BY <1>1, <1>4 DEF PipeInv
<1>7. TypeOK'
  BY <1>1, <1>2, <1>4 DEF RunCredential, Closed, TypeOK, States, Stales, storeVars, appVars, boundVars
<1> QED
  BY <1>5, <1>6, <1>7 DEF IInv

LEMMA ConnectivityChangesInv == IInv /\ ConnectivityChanges => IInv'
<1> SUFFICES ASSUME IInv, ConnectivityChanges PROVE IInv'
  OBVIOUS
<1>1. /\ RestartNetwork(queue[current], tasks)
      /\ UNCHANGED <<queue, current, calls>> /\ TypeOK /\ QueueInv /\ current \in User
  BY DEF ConnectivityChanges, storeVars, appVars, IInv, TypeOK
<1>2. queue[current] \in Seq(Write) /\ Increasing(queue[current])
  BY <1>1 DEF TypeOK, QueueInv
<1>3. Closed(0) /\ Prefix(pipeline', queue[current]) /\ Len(pipeline') <= MaxPendingWrites
  BY <1>1, <1>2, RestartEffect
<1>4. QueueInv' /\ TaskInv' /\ CallInv'
  BY <1>1, <1>3, QueueStays, KeptWrites DEF Closed
<1>5. PipeInv'
  BY <1>1, <1>3 DEF PipeInv
<1>6. faults' \in 0..MaxFaults
  BY <1>1, ConstantsAssumption DEF ConnectivityChanges, Fault, TypeOK
<1>7. TypeOK'
  BY <1>1, <1>3, <1>6 DEF ConnectivityChanges, Closed, TypeOK, States, Stales, storeVars, appVars
<1> QED
  BY <1>4, <1>5, <1>7 DEF IInv

LEMMA RunFinishInv == IInv /\ RunFinish => IInv'
<1> SUFFICES ASSUME IInv, RunFinish PROVE IInv'
  OBVIOUS
<1>1. /\ Runs("finish") /\ CloseWithError(call.status = "permanent", Tail(tasks))
      /\ UNCHANGED <<current, calls>> /\ TypeOK
  BY DEF RunFinish, appVars, IInv
<1>2. Closed(1) /\ StoreType' /\ QueueInv' /\ PipeInv'
  BY <1>1, HeadTask, CloseEffect
<1>3. TypeOK'
  BY <1>1, <1>2 DEF RunFinish, Closed, StoreType, TypeOK, States, Stales, Fates, appVars, boundVars
<1> QED
  BY <1>2, <1>3 DEF IInv, Closed

\* The requests for a token that the stream has asked for last.
AskedFetches == {f \in fetches : f.closes = closes}
AskedMain == {i \in 1..Len(main) : main[i].kind = "token" /\ main[i].fetch.closes = closes}
AskedTasks == {i \in 1..Len(tasks) : tasks[i].kind = "resume" /\ tasks[i].closes = closes}

AtMostOne(S) == \A a, b \in S : a = b

\* None is of a later close count, and there is one of this at most, while the
\* stream starts.
RequestInv ==
    /\ \A f \in fetches : f.closes <= closes
    /\ \A i \in 1..Len(main) : main[i].kind = "token" => main[i].fetch.closes <= closes
    /\ \A i \in 1..Len(tasks) : tasks[i].kind = "resume" => tasks[i].closes <= closes
    /\ AtMostOne(AskedFetches) /\ AtMostOne(AskedMain) /\ AtMostOne(AskedTasks)
    /\ AskedFetches = {} \/ AskedMain = {}
    /\ AskedFetches = {} \/ AskedTasks = {}
    /\ AskedMain = {} \/ AskedTasks = {}
    /\ state = "Starting" \/ (AskedFetches = {} /\ AskedMain = {} /\ AskedTasks = {})

LEMMA RunResumeInv == IInv /\ RequestInv /\ RunResume => IInv'
<1> SUFFICES ASSUME IInv, RequestInv, RunResume PROVE IInv'
  OBVIOUS
<1> DEFINE t == Head(tasks)
<1>1. /\ Runs("resume") /\ UNCHANGED <<current, calls>>
      /\ TypeOK /\ QueueInv /\ PipeInv /\ TaskInv /\ CallInv
  BY DEF RunResume, appVars, IInv
<1>2. tasks # <<>> /\ t.user \in User \union {NoUser}
  BY <1>1, HeadTask DEF Tasks
<1>3. CASE t.closes # closes /\ tasks' = Tail(tasks) /\ UNCHANGED <<fetches, streamVars, storeVars, stale, fate>>
  <2>1. UNCHANGED <<queue, pipeline, state, handshake, call>> /\ IsOpen' = IsOpen
    BY <1>3 DEF streamVars, storeVars, IsOpen
  <2>2. TaskInv' /\ tasks' \in Seq(Tasks) /\ Kept(1, {"write"}) /\ (Queued("read")' => Queued("read"))
    BY <1>1, <1>3, <2>1, TailTasks
  <2>3. QueueInv' /\ PipeInv' /\ CallInv'
    BY <1>1, <2>1, <2>2, QueueStays DEF PipeInv, CallInv
  <2>4. TypeOK'
    BY <1>1, <1>3, <2>2 DEF RunResume, TypeOK, streamVars, storeVars, appVars, boundVars
  <2> QED
    BY <2>2, <2>3, <2>4 DEF IInv
<1>4. CASE /\ t.closes = closes /\ t.user # NoUser /\ state' = "Open" /\ call' = NewCall(t.user)
           /\ tasks' = Tail(tasks)
           /\ UNCHANGED <<fetches, pipeline, closes, handshake, idle, storeVars, stale, fate>>
  <2>1. /\ call' \in Call /\ call' # NoCall /\ call'.taken = 0 /\ call'.handled = 0 /\ call'.status = "live"
        /\ call'.sent = <<Handshake>> /\ IsOpen' /\ UNCHANGED queue
    <3>1. t.user \in User
      BY <1>2, <1>4
    <3>2. <<0>> \in Seq(Write \union {0})
      OBVIOUS
    <3>3. NewCall(t.user) \in Call
      BY <3>1, <3>2 DEF NewCall, Call, Handshake
    <3> QED
      BY <1>4, <3>3, NoCallType DEF NewCall, IsOpen, storeVars
  <2>2. /\ Len(tasks') = Len(tasks) - 1 /\ Len(tasks) \in Nat \ {0} /\ tasks' \in Seq(Tasks)
        /\ \A i \in 1..Len(tasks') : i + 1 \in 1..Len(tasks) /\ tasks'[i] = tasks[i + 1]
        /\ tasks[1] = t /\ t.kind = "resume" /\ 1 \in 1..Len(tasks)
    BY <1>1, <1>4, HeadTask
  <2>3. ~IsOpen /\ ~handshake /\ ~handshake'
    BY <1>1, <1>4, <2>2 DEF RequestInv, AskedTasks, TaskInv, IsOpen
  <2>4. NoCompletions'
    BY <1>1, <2>2, <2>3 DEF TaskInv, NoCompletions
  <2>5. TaskInv'
    BY <2>1, <2>3, <2>4 DEF TaskInv, NoCompletions, Completions
  <2>6. CallInv'
    <3>1. ~Queued("read")'
      BY <2>4 DEF Queued, NoCompletions, Completions
    <3>2. Len(<<Handshake>>) = 1 /\ <<Handshake>>[1] = Handshake
      OBVIOUS
    <3> QED
      BY <2>1, <2>3, <3>1, <3>2 DEF CallInv, HandshakeFirst
  <2>7. Kept(1, {"write"})
    BY <2>2 DEF Kept
  <2>8. QueueInv' /\ PipeInv'
    BY <1>1, <1>4, <2>1, <2>2, <2>7, QueueStays DEF PipeInv
  <2>9. TypeOK'
    BY <1>1, <1>4, <2>1, <2>2 DEF RunResume, TypeOK, storeVars, appVars, boundVars
  <2> QED
    BY <2>5, <2>6, <2>8, <2>9 DEF IInv
<1>5. CASE t.closes = closes /\ t.user = NoUser /\ CloseWithError(FALSE, Tail(tasks))
  <2>1. Closed(1) /\ StoreType' /\ QueueInv' /\ PipeInv'
    BY <1>1, <1>2, <1>5, CloseEffect
  <2>2. TypeOK'
    BY <1>1, <2>1 DEF RunResume, Closed, StoreType, TypeOK, States, Stales, Fates, appVars, boundVars
  <2> QED
    BY <2>1, <2>2 DEF IInv, Closed
<1> QED
  BY <1>3, <1>4, <1>5 DEF RunResume

\* The read that runs is the only one; its answer has not been taken before.
LEMMA ReadTail ==
  ASSUME IInv, Runs("read"), tasks' = Tail(tasks)
  PROVE  /\ tasks' \in Seq(Tasks) /\ Kept(1, {"write"})
         /\ \A i \in 1..Len(tasks') : tasks'[i].kind # "read"
         /\ IsOpen /\ call # NoCall /\ call.taken < call.handled
<1>1. /\ tasks' \in Seq(Tasks) /\ Len(tasks') = Len(tasks) - 1 /\ Len(tasks) \in Nat \ {0}
      /\ \A i \in 1..Len(tasks') : i + 1 \in 1..Len(tasks) /\ tasks'[i] = tasks[i + 1]
      /\ tasks[1].kind = "read" /\ IsOpen /\ call # NoCall
  BY HeadTask DEF Completions
<1>2. TaskInv /\ CallInv
  BY DEF IInv
<1>3. \A i \in 1..Len(tasks') : tasks'[i].kind # "read"
  <2> SUFFICES ASSUME NEW i \in 1..Len(tasks'), tasks'[i].kind = "read" PROVE FALSE
    OBVIOUS
  <2>1. i + 1 \in 1..Len(tasks) /\ tasks[i + 1].kind = "read" /\ 1 \in 1..Len(tasks)
    BY <1>1
  <2>2. i + 1 = 1
    BY <1>1, <1>2, <2>1 DEF TaskInv
  <2> QED
    BY <2>2
<1>4. Queued("read")
  BY <1>1 DEF Queued
<1> QED
  BY <1>1, <1>2, <1>3, <1>4 DEF CallInv, Kept

\* The stream goes on, its read taken from the worker queue.
LEMMA ReadTaskInv ==
  ASSUME \A i \in 1..Len(tasks') : tasks'[i].kind # "read", IsOpen', call' # NoCall
  PROVE  TaskInv' /\ ~Queued("read")'
  BY DEF TaskInv, Queued

\* The handshake is answered, and the pipeline sent.
LEMMA HandshakeEffect ==
  ASSUME IInv, call # NoCall, ~handshake, handshake', call.taken < call.handled, UNCHANGED <<state, pipeline>>,
         call' = [[call EXCEPT !.taken = @ + 1] EXCEPT !.sent = @ \o pipeline],
         ~Queued("read")'
  PROVE  call' \in Call /\ CallInv'
<1>1. /\ InStep(call, pipeline) /\ IsOpen /\ IsOpen' /\ pipeline \in Seq(Write)
  BY CallInStep DEF IInv, TypeOK, IsOpen
<1>2. /\ call \in Call /\ call.sent \in Seq(Write \union {Handshake}) /\ call.taken = 0
      /\ call.handled \in Nat /\ Len(call.sent) = 1 /\ call.handled <= Len(call.sent)
      /\ HandshakeFirst(call.sent)
  BY <1>1, CallType DEF IInv, InStep
<1> DEFINE new == call.sent \o pipeline
<1>3. SubSeq(pipeline, 1, Len(pipeline)) = pipeline
  BY <1>1
<1>4. Prefix(<<>>, pipeline) /\ Follows(<<>>, call.sent, 1) /\ <<>> \in Seq(Write) /\ Len(<<>>) = 0
  BY <1>1, <1>2, EmptyPrefix DEF Follows
<1>5. /\ call.sent \o SubSeq(pipeline, 0 + 1, Len(pipeline)) \in Seq(Write \union {Handshake})
      /\ Len(call.sent) <= Len(call.sent \o SubSeq(pipeline, 0 + 1, Len(pipeline)))
      /\ HandshakeFirst(call.sent \o SubSeq(pipeline, 0 + 1, Len(pipeline)))
      /\ Follows(pipeline, call.sent \o SubSeq(pipeline, 0 + 1, Len(pipeline)), 1)
  <2> DEFINE e == <<>>
  <2>1. /\ e \in Seq(Write) /\ Len(e) = 0 /\ Prefix(e, pipeline) /\ Follows(e, call.sent, 1)
        /\ 1 \in Nat /\ 1 <= Len(call.sent) /\ 1 <= 1
    BY <1>2, <1>4
  <2> HIDE DEF e
  <2>2. /\ call.sent \o SubSeq(pipeline, Len(e) + 1, Len(pipeline)) \in Seq(Write \union {Handshake})
        /\ Len(call.sent) <= Len(call.sent \o SubSeq(pipeline, Len(e) + 1, Len(pipeline)))
        /\ HandshakeFirst(call.sent \o SubSeq(pipeline, Len(e) + 1, Len(pipeline)))
        /\ Follows(pipeline, call.sent \o SubSeq(pipeline, Len(e) + 1, Len(pipeline)), 1)
    BY <1>1, <1>2, <2>1, SentEffect
  <2> QED
    BY <2>1, <2>2
<1>6. new \in Seq(Write \union {Handshake}) /\ Len(call.sent) <= Len(new)
      /\ HandshakeFirst(new) /\ Follows(pipeline, new, 1)
  <2>1. 0 + 1 = 1
    OBVIOUS
  <2> QED
    BY <1>3, <1>5, <2>1
<1>7. /\ call' \in Call /\ call'.sent = new /\ call'.taken = 1 /\ call'.handled = call.handled
  <2>1. call' = [[call EXCEPT !.taken = @ + 1] EXCEPT !.sent = new]
    BY <1>2 DEF Call
  <2> HIDE DEF new
  <2>2. call.taken + 1 = 1 /\ 1 \in Nat
    BY <1>2
  <2> QED
    BY <1>2, <1>6, <2>1, <2>2 DEF Call, Handshake
<1> HIDE DEF new
<1>8. 1 <= call.handled /\ call.handled <= Len(new) /\ Len(new) \in Nat
  <2>1. Len(new) \in Nat
    BY <1>6
  <2> QED
    BY <1>2, <1>6, <2>1
<1>9. HandshakeFirst(call'.sent) /\ Follows(pipeline', call'.sent, call'.taken)
  BY <1>6, <1>7
<1>10. call'.taken <= call'.handled /\ call'.handled <= Len(call'.sent) /\ 1 <= call'.taken
  BY <1>2, <1>7, <1>8
<1> QED
  BY <1>7, <1>9, <1>10 DEF CallInv

\* An answer has been taken, and the pipeline loses its head.
LEMMA AnsweredInStep ==
  ASSUME IInv, call # NoCall, handshake, call.taken < call.handled
  PROVE  /\ pipeline # <<>>
         /\ [call EXCEPT !.taken = @ + 1] # NoCall
         /\ InStep([call EXCEPT !.taken = @ + 1], Tail(pipeline))
<1> DEFINE c == [call EXCEPT !.taken = @ + 1]
<1>1. /\ InStep(call, pipeline) /\ pipeline \in Seq(Write) /\ Len(pipeline) \in Nat
      /\ call \in Call /\ call.handled \in Nat /\ call.taken \in Nat /\ Len(call.sent) \in Nat
  <2>1. InStep(call, pipeline) /\ TypeOK
    BY CallInStep DEF IInv
  <2>2. pipeline \in Seq(Write) /\ Len(pipeline) \in Nat
    BY <2>1 DEF TypeOK
  <2> QED
    BY <2>1, <2>2, CallType
<1>2. /\ call.handled <= Len(call.sent) /\ 1 <= call.taken /\ Follows(pipeline, call.sent, call.taken)
      /\ HandshakeFirst(call.sent)
  BY <1>1 DEF InStep
<1>3. Len(pipeline) = Len(call.sent) - call.taken /\ \A i \in 1..Len(pipeline) : pipeline[i] = call.sent[call.taken + i]
  BY <1>2 DEF Follows
<1>4. Len(pipeline) > 0 /\ pipeline # <<>>
  BY <1>1, <1>2, <1>3
<1>5. c \in Call /\ c.taken = call.taken + 1 /\ c.handled = call.handled /\ c.sent = call.sent
  BY <1>1 DEF Call
<1> HIDE DEF c
<1>6. Follows(Tail(pipeline), call.sent, call.taken + 1)
  <2>1. /\ Len(Tail(pipeline)) = Len(pipeline) - 1
        /\ \A i \in 1..Len(Tail(pipeline)) : Tail(pipeline)[i] = pipeline[i + 1]
    BY <1>4, SettledPrefix
  <2>2. ASSUME NEW i \in 1..Len(Tail(pipeline)) PROVE Tail(pipeline)[i] = call.sent[call.taken + 1 + i]
    <3>1. i + 1 \in 1..Len(pipeline) /\ call.taken + (i + 1) = call.taken + 1 + i
      BY <1>1, <2>1
    <3> QED
      BY <1>3, <2>1, <3>1
  <2>3. Len(Tail(pipeline)) = Len(call.sent) - (call.taken + 1)
    BY <1>1, <1>3, <2>1
  <2> QED
    BY <2>2, <2>3 DEF Follows
<1>7. call.taken + 1 <= call.handled /\ 1 <= call.taken + 1
  BY <1>1, <1>2
<1>8. InStep(c, Tail(pipeline))
  BY <1>2, <1>5, <1>6, <1>7 DEF InStep
<1> QED
  BY <1>4, <1>5, <1>8, NoCallType DEF c

LEMMA RunReadInv == IInv /\ RunRead => IInv'
<1> SUFFICES ASSUME IInv, RunRead PROVE IInv'
  OBVIOUS
<1> DEFINE c == [call EXCEPT !.taken = @ + 1]
<1>1. /\ Runs("read") /\ tasks' = Tail(tasks) /\ UNCHANGED <<current, calls>>
      /\ TypeOK /\ QueueInv /\ PipeInv /\ current \in User
  BY DEF RunRead, appVars, IInv, TypeOK
<1>2. /\ tasks' \in Seq(Tasks) /\ Kept(1, {"write"})
      /\ \A i \in 1..Len(tasks') : tasks'[i].kind # "read"
      /\ IsOpen /\ call # NoCall /\ call.taken < call.handled
  BY <1>1, ReadTail
<1>3. ~Queued("read")'
  BY <1>2 DEF Queued
<1>4. CASE /\ ~handshake /\ handshake' = TRUE /\ call' = [c EXCEPT !.sent = @ \o pipeline]
           /\ idle' = (idle /\ pipeline = <<>>)
           /\ UNCHANGED <<fetches, pipeline, state, closes, storeVars, fate>>
  <2>1. UNCHANGED <<queue, pipeline, state>> /\ IsOpen'
    BY <1>2, <1>4 DEF storeVars, IsOpen
  <2>2. call' \in Call /\ CallInv' /\ call' # NoCall
    BY <1>2, <1>3, <1>4, <2>1, HandshakeEffect, NoCallType
  <2>3. TaskInv'
    BY <1>2, <2>1, <2>2, ReadTaskInv
  <2>4. QueueInv' /\ PipeInv'
    BY <1>1, <1>2, <2>1, QueueStays DEF PipeInv
  <2>5. TypeOK'
    BY <1>1, <1>2, <1>4, <2>2 DEF RunRead, TypeOK, storeVars, serverVars, appVars, boundVars
  <2> QED
    BY <2>2, <2>3, <2>4, <2>5 DEF IInv
<1>5. CASE /\ handshake /\ Settle("acked")
           /\ FillWritePipeline(Tail(pipeline), Tail(queue[current]), state, closes, c)
           /\ UNCHANGED handshake
  <2> DEFINE p == Tail(pipeline)
             q == Tail(queue[current])
  <2>1. /\ pipeline # <<>> /\ c # NoCall /\ InStep(c, p)
    BY <1>2, <1>5, AnsweredInStep
  <2>2. /\ queue[current] # <<>> /\ p \in Seq(Write) /\ Prefix(p, q) /\ Len(p) <= MaxPendingWrites
        /\ q \in Seq(Write) /\ Increasing(q)
    BY <1>1, <2>1, SettledPrefix, QueueTail
  <2>3. StoreType' /\ queue' = [queue EXCEPT ![current] = q]
    BY <1>5, <2>1, SettleEffect
  <2> HIDE DEF p, q, c
  <2>4. FillWritePipeline(p, q, state, closes, c)
    BY <1>5 DEF p, q
  <2>5. /\ pipeline' \in Seq(Write) /\ Prefix(pipeline', q) /\ Len(pipeline') <= MaxPendingWrites
        /\ closes' \in Nat /\ fetches' \subseteq Fetches /\ idle' \in BOOLEAN /\ state' \in States
        /\ call' \in Call \union {NoCall} /\ (IsOpen' <=> call' # NoCall) /\ IsOpen' = IsOpen
        /\ CallInv'
    BY <1>1, <1>2, <1>3, <1>5, <2>1, <2>2, <2>4, FilledCall
  <2>6. TaskInv'
    BY <1>2, <2>5, ReadTaskInv
  <2>7. queue'[current] = q
    BY <1>1, <2>3 DEF TypeOK
  <2>8. PipeInv'
    BY <1>1, <2>5, <2>7 DEF PipeInv
  <2>9. QueueInv'
    BY <1>1, <1>2, <2>2, <2>3, QueueSettles DEF q
  <2>10. TypeOK'
    BY <1>1, <1>2, <1>5, <2>3, <2>5
       DEF RunRead, TypeOK, StoreType, States, Fates, serverVars, appVars, boundVars
  <2> QED
    BY <2>5, <2>6, <2>8, <2>9, <2>10 DEF IInv
<1> QED
  BY <1>4, <1>5 DEF RunRead

LEMMA RunFailInv == IInv /\ RunFail => IInv'
<1> SUFFICES ASSUME IInv, RunFail PROVE IInv'
  OBVIOUS
<1> DEFINE todo == Cancelled(Tail(tasks), Completions)
           t == [kind |-> "finish"]
<1>1. /\ Runs("fail") /\ tasks' = Append(todo, t)
      /\ TypeOK /\ QueueInv /\ PipeInv /\ CallInv
      /\ UNCHANGED <<pipeline, state, handshake, queue, current, calls>>
  BY DEF RunFail, IInv, storeVars, appVars
<1>2. /\ tasks # <<>> /\ Tail(tasks) \in Seq(Tasks) /\ Len(Tail(tasks)) = Len(tasks) - 1
      /\ \A i \in 1..Len(Tail(tasks)) : Tail(tasks)[i] = tasks[i + 1]
      /\ Len(tasks) \in Nat \ {0} /\ call # NoCall /\ IsOpen
  BY <1>1, HeadTask DEF Completions
<1>3. /\ todo \in Seq(Tasks) /\ Len(todo) = Len(tasks) - 1
      /\ \A i \in 1..Len(todo) : todo[i] = Noop \/ (todo[i].kind \notin Completions /\ todo[i] = tasks[i + 1])
  BY <1>2, CancelledType
<1>4. t \in Tasks /\ t.kind = "finish"
  BY CompletionType
<1> HIDE DEF todo, t
<1>5. /\ tasks' \in Seq(Tasks) /\ Len(tasks') = Len(tasks) /\ tasks'[Len(tasks)] = t
      /\ \A i \in 1..Len(tasks') : i # Len(tasks) => i \in 1..Len(todo) /\ tasks'[i] = todo[i]
  <2>1. /\ tasks' \in Seq(Tasks) /\ Len(tasks') = Len(todo) + 1 /\ tasks'[Len(todo) + 1] = t
        /\ \A i \in 1..Len(todo) : tasks'[i] = todo[i]
    BY <1>1, <1>3, <1>4, AppendProperties
  <2>2. Len(todo) + 1 = Len(tasks)
    BY <1>2, <1>3
  <2>3. Len(tasks') = Len(tasks) /\ tasks'[Len(tasks)] = t
    BY <2>1, <2>2
  <2>4. \A i \in 1..Len(tasks') : i # Len(tasks) => i \in 1..Len(todo)
    <3>1. Len(todo) \in Nat
      BY <1>3
    <3> QED
      BY <2>2, <2>3, <3>1
  <2> QED
    BY <2>1, <2>3, <2>4
<1>6. \A i \in 1..Len(tasks') : tasks'[i].kind # "read"
  BY <1>3, <1>4, <1>5, NoopType DEF Completions
<1>7. Kept(1, {"write"})
  <2> SUFFICES ASSUME NEW i \in 1..Len(tasks'), tasks'[i].kind = "write"
               PROVE  i + 1 \in 1..Len(tasks) /\ tasks'[i] = tasks[i + 1]
    BY DEF Kept
  <2>1. i # Len(tasks)
    BY <1>4, <1>5
  <2>2. i \in 1..Len(todo) /\ tasks'[i] = todo[i]
    BY <1>5, <2>1
  <2>3. todo[i] = tasks[i + 1]
    BY <1>3, <2>2, NoopType
  <2> QED
    BY <1>2, <1>3, <2>2, <2>3
<1>8. /\ call' \in Call /\ call'.sent = call.sent /\ call'.taken = call.taken
      /\ call'.handled = call.handled /\ call' # NoCall /\ IsOpen'
  <2>1. call \in Call /\ call' = [call EXCEPT !.phase = "finishing"]
    BY <1>1, <1>2, CallType DEF RunFail
  <2> QED
    BY <1>1, <1>2, <2>1, NoCallType DEF Call, IsOpen
<1>9. TaskInv' /\ ~Queued("read")'
  BY <1>6, <1>8, ReadTaskInv
<1>10. CallInv' /\ PipeInv'
  BY <1>1, <1>2, <1>8, <1>9 DEF CallInv, PipeInv
<1>11. QueueInv'
  BY <1>1, <1>5, <1>7, QueueStays
<1>12. TypeOK'
  BY <1>1, <1>5, <1>8 DEF RunFail, TypeOK, credentialVars, storeVars, serverVars, appVars, boundVars
<1> QED
  BY <1>9, <1>10, <1>11, <1>12 DEF IInv

(***************************************************************************)
(* Timers and the process.                                                  *)
(***************************************************************************)

LEMMA BackoffElapsesInv == IInv /\ BackoffElapses => IInv'
<1> SUFFICES ASSUME IInv, BackoffElapses PROVE IInv'
  OBVIOUS
<1>1. /\ TypeOK /\ QueueInv /\ PipeInv /\ TaskInv /\ CallInv /\ closes \in Nat /\ ~IsOpen
      /\ Start("Initial", closes)
      /\ UNCHANGED <<call, pipeline, handshake, queue, current, calls, tasks>>
  BY DEF BackoffElapses, IInv, TypeOK, IsOpen, storeVars, appVars
<1>2. state' = "Starting" /\ ~IsOpen' /\ fetches' \subseteq Fetches
  BY <1>1, StartEffect DEF Start, IsOpen
<1>3. QueueInv' /\ PipeInv' /\ TaskInv' /\ CallInv'
  BY <1>1, <1>2 DEF QueueInv, PipeInv, TaskInv, CallInv, NoCompletions
<1>4. TypeOK'
  BY <1>1, <1>2 DEF BackoffElapses, TypeOK, storeVars, serverVars, appVars, boundVars
<1> QED
  BY <1>3, <1>4 DEF IInv

LEMMA IdleElapsesInv == IInv /\ IdleElapses => IInv'
<1> SUFFICES ASSUME IInv, IdleElapses PROVE IInv'
  OBVIOUS
<1>1. /\ TypeOK /\ QueueInv /\ PipeInv /\ TaskInv /\ CallInv
      /\ state' = "Initial" /\ handshake' = FALSE /\ call' = NoCall
      /\ tasks' = Cancelled(tasks, Completions) /\ stale' = stale \union Abandoned(call)
      /\ UNCHANGED <<pipeline, queue, current, calls>>
  BY DEF IdleElapses, IInv, storeVars, appVars
<1>2. Kept(0, Kinds) /\ NoCompletions' /\ tasks' \in Seq(Tasks)
  BY <1>1, CancelledKept DEF TypeOK
<1>3. TaskInv' /\ CallInv'
  BY <1>1, <1>2, ClosedCall DEF IsOpen
<1>4. QueueInv' /\ PipeInv'
  <2>1. Kept(0, {"write"})
    BY <1>2, KeptWrites
  <2>2. QueueInv'
    BY <1>1, <1>2, <2>1, QueueStays
  <2> QED
    BY <1>1, <2>2 DEF PipeInv
<1>5. stale' \subseteq Stales
  BY <1>1, AbandonedType DEF TypeOK, Stales
<1>6. idle' = FALSE /\ closes' = closes + 1
      /\ UNCHANGED <<auth, main, contents, fetches, callbacks, applied, refused, owner, fate, signIns, faults>>
  BY DEF IdleElapses, credentialVars, storeVars, appVars, boundVars
<1>7. closes' \in Nat /\ idle' \in BOOLEAN /\ handshake' \in BOOLEAN
  <2>1. closes' \in Nat
    BY <1>1, <1>6 DEF TypeOK
  <2>2. idle' \in BOOLEAN /\ handshake' \in BOOLEAN
    BY <1>1, <1>6
  <2> QED
    BY <2>1, <2>2
<1>8. TypeOK'
  <2>1. TypeOK /\ state' = "Initial" /\ call' = NoCall /\ UNCHANGED <<pipeline, queue, current, calls>>
    BY <1>1
  <2> QED
    BY <1>2, <1>5, <1>6, <1>7, <2>1 DEF TypeOK, Stales
<1> QED
  BY <1>3, <1>4, <1>8 DEF IInv

LEMMA KillInv == IInv /\ Kill => IInv'
<1> SUFFICES ASSUME IInv, Kill PROVE IInv'
  OBVIOUS
<1>1. /\ TypeOK /\ QueueInv /\ TaskInv /\ CallInv /\ auth \in User
      /\ tasks' = <<>> /\ handshake' = FALSE /\ call' = NoCall /\ current' = auth
      /\ pipeline' = Filled(<<>>, queue[auth])
      /\ stale' = stale \union Abandoned(call) /\ UNCHANGED <<queue, calls>>
      /\ state' \in {"Initial", "Starting"} /\ ~IsOpen'
  BY DEF Kill, IInv, TypeOK, appVars, IsOpen
<1>2. queue[auth] \in Seq(Write) /\ Increasing(queue[auth])
  BY <1>1 DEF TypeOK, QueueInv
<1>3. pipeline' \in Seq(Write) /\ Prefix(pipeline', queue[auth]) /\ Len(pipeline') <= MaxPendingWrites
  <2> DEFINE e == <<>>
  <2>1. e \in Seq(Write) /\ Prefix(e, queue[auth]) /\ Len(e) <= MaxPendingWrites
    BY <1>2, EmptyPrefix
  <2> HIDE DEF e
  <2>2. LET full == Filled(e, queue[auth]) IN
        full \in Seq(Write) /\ Prefix(full, queue[auth]) /\ Len(full) <= MaxPendingWrites
    BY <1>2, <2>1, FilledPrefix
  <2> QED
    BY <1>1, <2>2 DEF e
<1>4. tasks' \in Seq(Tasks) /\ Len(tasks') = 0 /\ NoCompletions'
  <2>1. tasks' \in Seq(Tasks) /\ Len(tasks') = 0
    BY <1>1
  <2> QED
    BY <2>1 DEF NoCompletions
<1>5. TaskInv' /\ CallInv'
  BY <1>1, <1>4, ClosedCall
<1>6. QueueInv'
  <2>1. Kept(0, {"write"})
    BY <1>4 DEF Kept
  <2> QED
    BY <1>1, <1>4, <2>1, QueueStays
<1>7. PipeInv'
  BY <1>1, <1>3 DEF PipeInv
<1>8. stale' \subseteq Stales
  BY <1>1, AbandonedType DEF TypeOK, Stales
<1>9. fetches' \subseteq Fetches /\ contents' \in [user : User, counter : Nat] /\ main' \in Seq(Messages)
  BY <1>1 DEF Kill, Fetch, Fetches
<1>10. faults' \in 0..MaxFaults
  BY <1>1, ConstantsAssumption DEF Kill, Fault, TypeOK
<1>11. callbacks' \in [User -> SUBSET Write] /\ closes' \in Nat /\ idle' \in BOOLEAN
  BY DEF Kill
<1>12. TypeOK'
  BY <1>1, <1>3, <1>4, <1>8, <1>9, <1>10, <1>11 DEF Kill, TypeOK, Stales, appVars
<1> QED
  BY <1>5, <1>6, <1>7, <1>12 DEF IInv

LEMMA InitInv == Init => IInv
<1> SUFFICES ASSUME Init PROVE IInv
  OBVIOUS
<1>1. /\ queue = [u \in User |-> <<>>] /\ tasks = <<>> /\ pipeline = <<>> /\ main = <<>>
      /\ state = "Initial" /\ handshake = FALSE /\ call = NoCall /\ calls = 0 /\ current \in User
      /\ auth \in User /\ contents = [user |-> auth, counter |-> 0] /\ current = auth
  BY DEF Init
<1>2. tasks \in Seq(Tasks) /\ Len(tasks) = 0 /\ main \in Seq(Messages) /\ Len(pipeline) = 0
      /\ pipeline \in Seq(Write) /\ queue \in [User -> Seq(Write)]
      /\ \A u \in User : Len(queue[u]) = 0
  BY <1>1
<1>3. QueueInv
  BY <1>1, <1>2 DEF QueueInv, Increasing
<1>4. PipeInv
  BY <1>1, <1>2, ConstantsAssumption DEF PipeInv, Prefix
<1>5. TaskInv /\ CallInv
  BY <1>1, <1>2 DEF TaskInv, CallInv, NoCompletions, IsOpen
<1>6. owner \in [Write -> User \union {NoUser}] /\ fate \in [Write -> {"unsaved", "saved", "acked", "rejected"}]
      /\ callbacks \in [User -> SUBSET Write]
  BY DEF Init
<1>7. contents \in [user : User, counter : Nat]
  BY <1>1
<1>8. stale = {} /\ fetches = {} /\ applied = {} /\ refused = {} /\ closes = 0 /\ signIns = 0 /\ faults = 0
      /\ idle = FALSE
  BY DEF Init
<1>10. 0 \in 0..MaxSignIns /\ 0 \in 0..MaxFaults /\ 0 \in 0..MaxWrites
  BY ConstantsAssumption
<1>9. TypeOK
  BY <1>1, <1>2, <1>6, <1>7, <1>8, <1>10 DEF TypeOK
<1> QED
  BY <1>3, <1>4, <1>5, <1>9 DEF IInv

(***************************************************************************)
(* Requests for a token.                                                    *)
(***************************************************************************)

\* The tokens on the main thread are those there were, o places further on.
KeptTokens(o) ==
    \A i \in 1..Len(main') :
        main'[i].kind = "token" => i + o \in 1..Len(main) /\ main'[i] = main[i + o]

\* No request has been made with a close count of n or later.
NoneAt(n) ==
    /\ \A f \in fetches : f.closes < n
    /\ \A i \in 1..Len(main) : main[i].kind = "token" => main[i].fetch.closes < n
    /\ \A i \in 1..Len(tasks) : tasks[i].kind = "resume" => tasks[i].closes < n

LEMMA RequestTypes ==
  ASSUME TypeOK
  PROVE  /\ closes \in Nat
         /\ \A f \in fetches : f.closes \in Nat
         /\ \A i \in 1..Len(main) : main[i].kind = "token" => main[i].fetch \in Fetches /\ main[i].fetch.closes \in Nat
         /\ \A i \in 1..Len(tasks) : tasks[i].kind = "resume" => tasks[i].closes \in Nat
         /\ main \in Seq(Messages) /\ tasks \in Seq(Tasks) /\ Len(main) \in Nat /\ Len(tasks) \in Nat
<1>1. /\ main \in Seq(Messages) /\ tasks \in Seq(Tasks) /\ fetches \subseteq Fetches /\ closes \in Nat
  BY DEF TypeOK
<1>2. \A f \in Fetches : f.closes \in Nat
  BY DEF Fetches
<1>3. \A m \in Messages : m.kind = "token" => m.fetch \in Fetches
  BY DEF Messages
<1>4. \A t \in Tasks : t.kind = "resume" => t.closes \in Nat
  BY DEF Tasks
<1> QED
  BY <1>1, <1>2, <1>3, <1>4

LEMMA NoneAtNext ==
  ASSUME TypeOK, RequestInv
  PROVE  NoneAt(closes + 1)
  BY RequestTypes DEF RequestInv, NoneAt

LEMMA NoneAtNow ==
  ASSUME TypeOK, RequestInv, state # "Starting"
  PROVE  NoneAt(closes)
<1>1. AskedFetches = {} /\ AskedMain = {} /\ AskedTasks = {}
  BY DEF RequestInv
<1>2. /\ \A f \in fetches : f.closes # closes
      /\ \A i \in 1..Len(main) : main[i].kind = "token" => main[i].fetch.closes # closes
      /\ \A i \in 1..Len(tasks) : tasks[i].kind = "resume" => tasks[i].closes # closes
  BY <1>1 DEF AskedFetches, AskedMain, AskedTasks
<1> QED
  BY <1>2, RequestTypes DEF RequestInv, NoneAt

\* Requests wait where they did.
LEMMA RequestsStay ==
  ASSUME TypeOK, RequestInv, UNCHANGED <<fetches, closes, state>>,
         NEW m \in {0, 1}, KeptTokens(m), NEW o \in {0, 1}, Kept(o, {"resume"})
  PROVE  RequestInv'
<1>1. AskedFetches' = AskedFetches
  BY DEF AskedFetches
<1>2. \A i \in AskedMain' : i \in Int /\ i + m \in AskedMain
  BY DEF AskedMain, KeptTokens
<1>3. \A i \in AskedTasks' : i \in Int /\ i + o \in AskedTasks
  BY DEF AskedTasks, Kept
<1>4. /\ \A f \in fetches' : f.closes <= closes'
      /\ \A i \in 1..Len(main') : main'[i].kind = "token" => main'[i].fetch.closes <= closes'
      /\ \A i \in 1..Len(tasks') : tasks'[i].kind = "resume" => tasks'[i].closes <= closes'
  BY DEF RequestInv, KeptTokens, Kept
<1>5. AtMostOne(AskedFetches')
  BY <1>1 DEF RequestInv
<1>6. AtMostOne(AskedMain')
  <2> SUFFICES ASSUME NEW a \in AskedMain', NEW b \in AskedMain' PROVE a = b
    BY DEF AtMostOne
  <2>1. a + m = b + m
    BY <1>2 DEF RequestInv, AtMostOne
  <2> QED
    BY <1>2, <2>1
<1>7. AtMostOne(AskedTasks')
  <2> SUFFICES ASSUME NEW a \in AskedTasks', NEW b \in AskedTasks' PROVE a = b
    BY DEF AtMostOne
  <2>1. a + o = b + o
    BY <1>3 DEF RequestInv, AtMostOne
  <2>2. a \in Int /\ b \in Int /\ o \in Int
    BY <1>3
  <2> QED
    BY <2>1, <2>2
<1>8. (AskedMain = {} => AskedMain' = {}) /\ (AskedTasks = {} => AskedTasks' = {})
  BY <1>2, <1>3
<1> QED
  BY <1>1, <1>4, <1>5, <1>6, <1>7, <1>8 DEF RequestInv

\* The stream has got another close count, or had none asked for with this;
\* it may have made a request.
LEMMA RequestsFresh ==
  ASSUME TypeOK, NEW n \in Nat, NoneAt(n), closes' = n, UNCHANGED main, NEW o \in {0, 1}, Kept(o, {"resume"}),
         NEW c, \/ UNCHANGED fetches
                \/ state' = "Starting" /\ fetches' = fetches \union {Fetch(n, c)}
  PROVE  RequestInv'
<1>1. /\ \A f \in fetches : f.closes < n /\ f.closes \in Nat
      /\ \A i \in 1..Len(main) : main[i].kind = "token" => main[i].fetch.closes < n /\ main[i].fetch.closes \in Nat
      /\ \A i \in 1..Len(tasks) : tasks[i].kind = "resume" => tasks[i].closes < n /\ tasks[i].closes \in Nat
  BY RequestTypes DEF NoneAt
<1>2. AskedMain' = {}
  BY <1>1 DEF AskedMain
<1>3. \A i \in 1..Len(tasks') : tasks'[i].kind = "resume" => tasks'[i].closes < n /\ tasks'[i].closes \in Nat
  BY <1>1 DEF Kept
<1>4. AskedTasks' = {}
  BY <1>3 DEF AskedTasks
<1>5. AskedFetches' \subseteq {Fetch(n, c)}
  BY <1>1 DEF AskedFetches
<1>6. UNCHANGED fetches => AskedFetches' = {}
  BY <1>1 DEF AskedFetches
<1>7. \A f \in fetches' : f.closes <= closes'
  <2>1. Fetch(n, c).closes = n
    BY DEF Fetch
  <2> QED
    BY <1>1, <2>1
<1>8. /\ \A i \in 1..Len(main') : main'[i].kind = "token" => main'[i].fetch.closes <= closes'
      /\ \A i \in 1..Len(tasks') : tasks'[i].kind = "resume" => tasks'[i].closes <= closes'
  BY <1>1, <1>3
<1>9. AtMostOne(AskedFetches') /\ AtMostOne(AskedMain') /\ AtMostOne(AskedTasks')
  BY <1>2, <1>4, <1>5 DEF AtMostOne
<1> QED
  BY <1>2, <1>4, <1>6, <1>7, <1>8, <1>9 DEF RequestInv

LEMMA StartRequests ==
  ASSUME NEW s, NEW n, Start(s, n)
  PROVE  UNCHANGED fetches \/ (state' = "Starting" /\ fetches' = fetches \union {Fetch(n, contents.counter)})
  BY DEF Start

LEMMA FillRequests ==
  ASSUME NEW p, NEW q, NEW s, NEW n, NEW c, FillWritePipeline(p, q, s, n, c)
  PROVE  /\ closes' = n
         /\ \/ state' = s /\ UNCHANGED fetches
            \/ /\ ~Started(s)
               /\ \/ UNCHANGED fetches
                  \/ state' = "Starting" /\ fetches' = fetches \union {Fetch(n, contents.counter)}
<1>1. closes' = n /\ ((state' = s /\ UNCHANGED fetches) \/ (~Started(s) /\ Start(s, n)))
  BY DEF FillWritePipeline
<1> QED
  BY <1>1, StartRequests

\* Filling the pipeline of a stream that goes on.
LEMMA FillStepRequests ==
  ASSUME TypeOK, RequestInv, NEW p, NEW q, NEW c, FillWritePipeline(p, q, state, closes, c),
         UNCHANGED main, NEW o \in {0, 1}, Kept(o, {"resume"})
  PROVE  RequestInv'
<1>1. KeptTokens(0) /\ closes \in Nat
  BY RequestTypes DEF KeptTokens
<1>2. CASE state' = state /\ UNCHANGED fetches /\ UNCHANGED closes
  BY <1>1, <1>2, RequestsStay
<1>3. CASE /\ ~Started(state) /\ closes' = closes
           /\ \/ UNCHANGED fetches
              \/ state' = "Starting" /\ fetches' = fetches \union {Fetch(closes, contents.counter)}
  <2>1. NoneAt(closes)
    BY <1>3, NoneAtNow DEF Started
  <2> QED
    BY <1>1, <1>3, <2>1, RequestsFresh
<1> QED
  BY <1>2, <1>3, FillRequests

LEMMA KeptResumes ==
  ASSUME NEW o, Kept(o, Kinds)
  PROVE  Kept(o, {"resume"})
  BY DEF Kept, Kinds

LEMMA RestartRequests ==
  ASSUME TypeOK, RequestInv, NEW q, NEW todo, RestartNetwork(q, todo),
         UNCHANGED main, NEW o \in {0, 1}, Kept(o, {"resume"})
  PROVE  RequestInv'
<1> DEFINE n == IF Started(state) THEN closes + 1 ELSE closes
<1>1. n \in Nat /\ NoneAt(n)
  BY RequestTypes, NoneAtNext, NoneAtNow DEF Started
<1>2. FillWritePipeline(<<>>, q, "Initial", n, NoCall)
  BY DEF RestartNetwork
<1> HIDE DEF n
<1>3. /\ closes' = n
      /\ \/ UNCHANGED fetches
         \/ state' = "Starting" /\ fetches' = fetches \union {Fetch(n, contents.counter)}
  BY <1>2, FillRequests
<1> QED
  BY <1>1, <1>3, RequestsFresh

LEMMA CloseRequests ==
  ASSUME TypeOK, RequestInv, NEW permanent, NEW todo, CloseWithError(permanent, todo),
         UNCHANGED main, NEW o \in {0, 1}, Kept(o, {"resume"})
  PROVE  RequestInv'
<1> DEFINE n == closes + 1
<1>1. n \in Nat /\ NoneAt(n)
  BY RequestTypes, NoneAtNext
<1>2. \/ FillWritePipeline(Tail(pipeline), Tail(queue[current]), "Initial", n, NoCall)
      \/ closes' = n /\ (Start("Error", n) \/ UNCHANGED fetches)
  BY DEF CloseWithError
<1> HIDE DEF n
<1>3. /\ closes' = n
      /\ \/ UNCHANGED fetches
         \/ state' = "Starting" /\ fetches' = fetches \union {Fetch(n, contents.counter)}
  BY <1>2, FillRequests, StartRequests
<1> QED
  BY <1>1, <1>3, RequestsFresh

LEMMA BeginTokenRequests ==
  ASSUME TypeOK, RequestInv, NEW f \in fetches, BeginToken(f)
  PROVE  RequestInv'
<1> DEFINE g == [f EXCEPT !.user = auth]
<1>1. fetches' = (fetches \ {f}) \union {g} /\ UNCHANGED <<main, tasks, closes, state>>
  BY DEF BeginToken, streamVars
<1>2. g.closes = f.closes
  <2>1. f \in Fetches
    BY DEF TypeOK
  <2> QED
    BY <2>1 DEF Fetches
<1> HIDE DEF g
<1>3. AskedMain' = AskedMain /\ AskedTasks' = AskedTasks
  BY <1>1 DEF AskedMain, AskedTasks
<1>4. /\ f.closes # closes => AskedFetches' \subseteq AskedFetches
      /\ f.closes = closes => AskedFetches' \subseteq (AskedFetches \ {f}) \union {g} /\ f \in AskedFetches
  BY <1>1, <1>2 DEF AskedFetches
<1>5. AtMostOne(AskedFetches') /\ (AskedFetches = {} => AskedFetches' = {})
  <2>1. CASE f.closes # closes
    BY <1>4, <2>1 DEF RequestInv, AtMostOne
  <2>2. CASE f.closes = closes
    <3>1. AskedFetches \ {f} = {}
      BY <1>4, <2>2 DEF RequestInv, AtMostOne
    <3> QED
      BY <1>4, <2>2, <3>1 DEF AtMostOne
  <2> QED
    BY <2>1, <2>2
<1>6. \A h \in fetches' : h.closes <= closes'
  BY <1>1, <1>2 DEF RequestInv
<1>7. /\ \A i \in 1..Len(main') : main'[i].kind = "token" => main'[i].fetch.closes <= closes'
      /\ \A i \in 1..Len(tasks') : tasks'[i].kind = "resume" => tasks'[i].closes <= closes'
  BY <1>1 DEF RequestInv
<1> QED
  BY <1>1, <1>3, <1>5, <1>6, <1>7 DEF RequestInv

LEMMA AnswerTokenRequests ==
  ASSUME TypeOK, RequestInv, NEW f \in fetches, AnswerToken(f)
  PROVE  RequestInv'
<1>1. PICK m \in Messages : main' = Append(main, m) /\ m.kind = "token" /\ m.fetch.closes = f.closes
  <2>1. f \in Fetches /\ [f EXCEPT !.user = NoUser] \in Fetches /\ [f EXCEPT !.user = NoUser].closes = f.closes
    <3>1. f \in Fetches
      BY DEF TypeOK
    <3> QED
      BY <3>1 DEF Fetches
  <2>2. \A h \in Fetches : /\ [kind |-> "token", fetch |-> h] \in Messages
                           /\ [kind |-> "token", fetch |-> h].kind = "token"
                           /\ [kind |-> "token", fetch |-> h].fetch = h
    BY DEF Messages
  <2>3. \E h \in Fetches : h.closes = f.closes /\ main' = Append(main, [kind |-> "token", fetch |-> h])
    BY <2>1 DEF AnswerToken
  <2> QED
    BY <2>2, <2>3
<1>2. fetches' = fetches \ {f} /\ UNCHANGED <<tasks, closes, state>>
  BY DEF AnswerToken, streamVars
<1>3. /\ Len(main') = Len(main) + 1 /\ Len(main) \in Nat /\ main'[Len(main) + 1] = m
      /\ \A i \in 1..Len(main) : main'[i] = main[i]
  BY <1>1, RequestTypes, AppendProperties
<1>4. AskedTasks' = AskedTasks /\ AskedFetches' = AskedFetches \ {f}
  BY <1>2 DEF AskedTasks, AskedFetches
<1>5. \A i \in 1..Len(main') : main'[i].kind = "token" => main'[i].fetch.closes <= closes'
  BY <1>1, <1>2, <1>3 DEF RequestInv
<1>6. /\ \A h \in fetches' : h.closes <= closes'
      /\ \A i \in 1..Len(tasks') : tasks'[i].kind = "resume" => tasks'[i].closes <= closes'
  BY <1>2 DEF RequestInv
<1>7. CASE f.closes = closes
  <2>1. f \in AskedFetches
    BY <1>7 DEF AskedFetches
  <2>2. AskedFetches' = {} /\ AskedMain = {} /\ AskedTasks = {} /\ state = "Starting"
    BY <1>4, <2>1 DEF RequestInv, AtMostOne
  <2>3. AskedMain' \subseteq {Len(main) + 1}
    <3> SUFFICES ASSUME NEW i \in AskedMain', i # Len(main) + 1 PROVE FALSE
      OBVIOUS
    <3>1. i \in 1..Len(main) /\ main'[i] = main[i]
      BY <1>3 DEF AskedMain
    <3>2. i \in AskedMain
      BY <1>2, <3>1 DEF AskedMain
    <3> QED
      BY <2>2, <3>2
  <2> QED
    BY <1>2, <1>4, <1>5, <1>6, <2>2, <2>3 DEF RequestInv, AtMostOne
<1>8. CASE f.closes # closes
  <2>1. AskedMain' = AskedMain
    BY <1>1, <1>2, <1>3, <1>8 DEF AskedMain
  <2>2. AskedFetches' = AskedFetches
    BY <1>4, <1>8 DEF AskedFetches
  <2> QED
    BY <1>2, <1>4, <1>5, <1>6, <2>1, <2>2 DEF RequestInv
<1> QED
  BY <1>7, <1>8

LEMMA TakeTokenRequests ==
  ASSUME TypeOK, RequestInv, TakeToken
  PROVE  RequestInv'
<1> DEFINE f == Head(main).fetch
           t == [kind |-> "resume", closes |-> f.closes, user |-> f.user]
           n == f.closes
<1>1. /\ Len(main') = Len(main) - 1 /\ Len(main) \in Nat \ {0}
      /\ \A i \in 1..Len(main') : i + 1 \in 1..Len(main) /\ main'[i] = main[i + 1]
      /\ 1 \in 1..Len(main) /\ main[1] = Head(main) /\ main[1].kind = "token" /\ main[1].fetch.closes = n
      /\ n \in Nat /\ f \in Fetches
  <2>1. main \in Seq(Messages) /\ main # <<>> /\ main' = Tail(main) /\ Head(main).kind = "token"
    BY DEF TakeToken, TypeOK
  <2>2. /\ Len(main') = Len(main) - 1 /\ Len(main) \in Nat \ {0} /\ main[1] = Head(main)
        /\ \A i \in 1..Len(main') : main'[i] = main[i + 1]
    BY <2>1, HeadTailProperties, EmptySeq
  <2>3. 1 \in 1..Len(main) /\ \A i \in 1..Len(main') : i + 1 \in 1..Len(main)
    BY <2>2
  <2> QED
    BY <2>1, <2>2, <2>3, RequestTypes
<1>2. UNCHANGED <<closes, state>>
  BY DEF TakeToken, streamVars
<1>3. KeptTokens(1)
  BY <1>1 DEF KeptTokens
<1>4. n <= closes
  BY <1>1 DEF RequestInv
<1>5. \A i \in AskedMain' : i + 1 \in AskedMain /\ i + 1 # 1
  BY <1>1, <1>2 DEF AskedMain
<1>6. \A i \in 1..Len(main') : main'[i].kind = "token" => main'[i].fetch.closes <= closes'
  BY <1>1, <1>2 DEF RequestInv
<1>7. n = closes => /\ 1 \in AskedMain /\ AskedMain' = {} /\ state = "Starting"
                    /\ AskedFetches = {} /\ AskedTasks = {}
  <2> SUFFICES ASSUME n = closes
               PROVE  /\ 1 \in AskedMain /\ AskedMain' = {} /\ state = "Starting"
                      /\ AskedFetches = {} /\ AskedTasks = {}
    OBVIOUS
  <2>1. 1 \in AskedMain
    BY <1>1 DEF AskedMain
  <2>2. AskedMain' = {}
    BY <1>5, <2>1 DEF RequestInv, AtMostOne
  <2> QED
    BY <2>1, <2>2 DEF RequestInv
<1>8. AtMostOne(AskedMain') /\ (AskedMain = {} => AskedMain' = {})
  <2>1. \A a, b \in AskedMain' : a + 1 = b + 1
    BY <1>5 DEF RequestInv, AtMostOne
  <2>2. \A a \in AskedMain' : a \in Int
    BY DEF AskedMain
  <2> QED
    BY <1>5, <2>1, <2>2 DEF AtMostOne
<1>9. CASE fetches' = fetches \union {Fetch(n, contents.counter)} /\ UNCHANGED tasks
  <2> DEFINE g == Fetch(n, contents.counter)
  <2>1. g.closes = n
    BY DEF Fetch
  <2> HIDE DEF g
  <2>2. AskedTasks' = AskedTasks
    BY <1>2, <1>9 DEF AskedTasks
  <2>3. /\ n = closes => AskedFetches' \subseteq AskedFetches \union {g}
        /\ n # closes => AskedFetches' = AskedFetches
    BY <1>2, <1>9, <2>1 DEF AskedFetches, g
  <2>4. AtMostOne(AskedFetches')
    BY <1>7, <2>3 DEF RequestInv, AtMostOne
  <2>5. /\ \A h \in fetches' : h.closes <= closes'
        /\ \A i \in 1..Len(tasks') : tasks'[i].kind = "resume" => tasks'[i].closes <= closes'
    BY <1>2, <1>4, <1>9, <2>1 DEF RequestInv, g
  <2> QED
    BY <1>2, <1>6, <1>7, <1>8, <2>2, <2>3, <2>4, <2>5 DEF RequestInv
<1>10. CASE tasks' = Append(tasks, t) /\ UNCHANGED fetches
  <2>1. t \in Tasks /\ t.kind = "resume" /\ t.closes = n
    BY <1>1 DEF Tasks, Fetches
  <2> HIDE DEF t, f, n
  <2>2. /\ Len(tasks') = Len(tasks) + 1 /\ Len(tasks) \in Nat /\ tasks'[Len(tasks')] = t
        /\ \A i \in 1..Len(tasks') : i # Len(tasks') => i \in 1..Len(tasks) /\ tasks'[i] = tasks[i]
    BY <1>10, <2>1, RequestTypes, AppendKept
  <2>3. AskedFetches' = AskedFetches
    BY <1>2, <1>10 DEF AskedFetches
  <2>4. \A i \in AskedTasks' : i # Len(tasks') => i \in AskedTasks
    BY <1>2, <2>2 DEF AskedTasks
  <2>5. n # closes => AskedTasks' \subseteq AskedTasks
    BY <1>2, <2>1, <2>2, <2>4 DEF AskedTasks
  <2>6. n = closes => AskedTasks' \subseteq {Len(tasks')}
    BY <1>7, <2>4
  <2>7. AtMostOne(AskedTasks')
    BY <2>5, <2>6 DEF RequestInv, AtMostOne
  <2>8. /\ \A h \in fetches' : h.closes <= closes'
        /\ \A i \in 1..Len(tasks') : tasks'[i].kind = "resume" => tasks'[i].closes <= closes'
    BY <1>2, <1>4, <1>10, <2>1, <2>2 DEF RequestInv
  <2> QED
    BY <1>2, <1>6, <1>7, <1>8, <2>3, <2>5, <2>7, <2>8 DEF RequestInv
<1> QED
  BY <1>9, <1>10 DEF TakeToken

LEMMA RunResumeRequests ==
  ASSUME IInv, RequestInv, RunResume
  PROVE  RequestInv'
<1> DEFINE t == Head(tasks)
<1>1. /\ Runs("resume") /\ UNCHANGED main /\ TypeOK /\ tasks # <<>> /\ tasks \in Seq(Tasks)
      /\ Head(tasks) = tasks[1] /\ 1 \in 1..Len(tasks) /\ t.kind = "resume"
  <2>1. Runs("resume")
    BY DEF RunResume
  <2> QED
    BY <2>1, HeadTask DEF RunResume, IInv
<1>2. KeptTokens(0)
  BY <1>1, RequestTypes DEF KeptTokens
<1>3. ASSUME tasks' = Tail(tasks) PROVE Kept(1, {"resume"})
  BY <1>1, <1>3, TailKept, KeptResumes
<1>4. CASE tasks' = Tail(tasks) /\ UNCHANGED <<fetches, streamVars>>
  BY <1>1, <1>2, <1>3, <1>4, RequestsStay DEF streamVars
<1>5. CASE t.closes = closes /\ state' = "Open" /\ tasks' = Tail(tasks) /\ UNCHANGED <<fetches, closes>>
  <2>1. 1 \in AskedTasks
    BY <1>1, <1>5 DEF AskedTasks
  <2>2. AskedMain = {} /\ AskedFetches = {} /\ \A i \in AskedTasks : i = 1
    BY <2>1 DEF RequestInv, AtMostOne
  <2>3. AskedMain' = {} /\ AskedFetches' = {}
    BY <1>1, <1>5, <2>2 DEF AskedMain, AskedFetches
  <2>4. \A i \in AskedTasks' : i + 1 \in AskedTasks /\ i + 1 # 1
    BY <1>3, <1>5 DEF AskedTasks, Kept
  <2>5. AskedTasks' = {}
    BY <2>2, <2>4
  <2>6. /\ \A h \in fetches' : h.closes <= closes'
        /\ \A i \in 1..Len(main') : main'[i].kind = "token" => main'[i].fetch.closes <= closes'
        /\ \A i \in 1..Len(tasks') : tasks'[i].kind = "resume" => tasks'[i].closes <= closes'
    BY <1>1, <1>3, <1>5 DEF RequestInv, Kept
  <2> QED
    BY <2>3, <2>5, <2>6 DEF RequestInv, AtMostOne
<1>6. CASE CloseWithError(FALSE, Tail(tasks))
  <2>1. tasks' = Cancelled(Tail(tasks), Completions)
    BY <1>6 DEF CloseWithError
  <2>2. Kept(1, {"resume"})
    BY <1>1, <2>1, CancelledTailKept, KeptResumes
  <2> QED
    BY <1>1, <1>6, <2>2, CloseRequests
<1> QED
  BY <1>4, <1>5, <1>6 DEF RunResume

\* A task that is no request joins the worker queue.
LEMMA AppendNoRequest ==
  ASSUME tasks \in Seq(Tasks), NEW t \in Tasks, t.kind # "resume", tasks' = Append(tasks, t)
  PROVE  Kept(0, {"resume"})
<1>1. /\ tasks'[Len(tasks')] = t
      /\ \A i \in 1..Len(tasks') : i # Len(tasks') => i \in 1..Len(tasks) /\ tasks'[i] = tasks[i]
  BY AppendKept
<1> QED
  BY <1>1 DEF Kept

LEMMA SameTasks ==
  ASSUME TypeOK, UNCHANGED tasks
  PROVE  Kept(0, {"resume"})
  BY RequestTypes DEF Kept

LEMMA SameMain ==
  ASSUME TypeOK, UNCHANGED main
  PROVE  KeptTokens(0)
  BY RequestTypes DEF KeptTokens

LEMMA RequestsMainThread == IInv /\ RequestInv /\ MainThread => RequestInv'
<1> SUFFICES ASSUME IInv, RequestInv, MainThread PROVE RequestInv'
  OBVIOUS
<1>1. TypeOK /\ tasks \in Seq(Tasks)
  BY DEF IInv, TypeOK
<1>2. CASE WriteMutations
  <2> DEFINE t == [kind |-> "write", write |-> calls + 1]
  <2>1. t \in Tasks /\ t.kind = "write"
    <3>1. calls + 1 \in Write
      BY <1>1, <1>2, ConstantsAssumption DEF WriteMutations, TypeOK, Write
    <3> QED
      BY <3>1 DEF Tasks
  <2>2. tasks' = Append(tasks, t) /\ UNCHANGED <<fetches, main, closes, state>>
    BY <1>2 DEF WriteMutations, credentialVars, streamVars
  <2> HIDE DEF t
  <2>3. Kept(0, {"resume"})
    BY <1>1, <2>1, <2>2, AppendNoRequest
  <2> QED
    BY <1>1, <2>2, <2>3, SameMain, RequestsStay
<1>3. CASE Announce
  <2> DEFINE t == [kind |-> "credential", user |-> Head(main).user]
  <2>1. t \in Tasks /\ t.kind = "credential"
    BY <1>1, <1>3, HeadMessage DEF Announce, Tasks
  <2>2. tasks' = Append(tasks, t) /\ UNCHANGED <<fetches, closes, state>> /\ main # <<>> /\ main' = Tail(main)
    BY <1>3 DEF Announce, streamVars
  <2> HIDE DEF t
  <2>3. Kept(0, {"resume"})
    BY <1>1, <2>1, <2>2, AppendNoRequest
  <2>4. KeptTokens(1)
    <3>1. /\ Len(main') = Len(main) - 1 /\ Len(main) \in Nat
          /\ \A i \in 1..Len(main') : main'[i] = main[i + 1]
      BY <1>1, <2>2, RequestTypes, HeadTailProperties
    <3> QED
      BY <3>1 DEF KeptTokens
  <2> QED
    BY <1>1, <2>2, <2>3, <2>4, RequestsStay
<1>4. CASE TakeToken
  BY <1>1, <1>4, TakeTokenRequests
<1>5. ASSUME NEW u \in User, SignIn(u) PROVE RequestInv'
  <2> DEFINE m == [kind |-> "announce", user |-> u]
  <2>1. m \in Messages /\ m.kind = "announce"
    BY DEF Messages
  <2>2. main' = Append(main, m) /\ UNCHANGED <<fetches, tasks, closes, state>>
    BY <1>5 DEF SignIn, streamVars
  <2> HIDE DEF m
  <2>3. KeptTokens(0)
    <3>1. /\ Len(main') = Len(main) + 1 /\ Len(main) \in Nat /\ main'[Len(main) + 1] = m
          /\ \A i \in 1..Len(main) : main'[i] = main[i]
      BY <1>1, <2>1, <2>2, RequestTypes, AppendProperties
    <3> QED
      BY <2>1, <3>1 DEF KeptTokens
  <2> QED
    BY <1>1, <2>2, <2>3, SameTasks, RequestsStay
<1>6. ASSUME NEW f \in fetches, BeginToken(f) \/ AnswerToken(f) PROVE RequestInv'
  BY <1>1, <1>6, BeginTokenRequests, AnswerTokenRequests
<1> QED
  BY <1>2, <1>3, <1>4, <1>5, <1>6 DEF MainThread

LEMMA RequestsNetwork == IInv /\ RequestInv /\ Network => RequestInv'
<1> SUFFICES ASSUME IInv, RequestInv, Network PROVE RequestInv'
  OBVIOUS
<1>1. TypeOK /\ tasks \in Seq(Tasks)
  BY DEF IInv, TypeOK
<1>2. UNCHANGED <<fetches, main, closes, state>>
  BY DEF Network, Handle, Refuse, Lose, CompleteRead, FailOperation, HandleStale, credentialVars, streamVars
<1>3. UNCHANGED tasks \/ \E k \in {"read", "fail"} : tasks' = Append(tasks, [kind |-> k])
  BY DEF Network, Handle, Refuse, Lose, CompleteRead, FailOperation, HandleStale
<1>4. Kept(0, {"resume"})
  <2>1. ASSUME NEW k \in {"read", "fail"}, tasks' = Append(tasks, [kind |-> k])
        PROVE  Kept(0, {"resume"})
    <3> DEFINE t == [kind |-> k]
    <3>1. t \in Tasks /\ t.kind # "resume" /\ tasks' = Append(tasks, t)
      BY <2>1, CompletionType
    <3> HIDE DEF t
    <3> QED
      BY <1>1, <3>1, AppendNoRequest
  <2> QED
    BY <1>1, <1>3, <2>1, SameTasks
<1> QED
  BY <1>1, <1>2, <1>4, SameMain, RequestsStay

LEMMA RequestsWorker == IInv /\ RequestInv /\ Worker => RequestInv'
<1> SUFFICES ASSUME IInv, RequestInv, Worker PROVE RequestInv'
  OBVIOUS
<1>1. TypeOK /\ tasks \in Seq(Tasks) /\ TaskInv
  BY DEF IInv, TypeOK
<1>2. ASSUME tasks # <<>>, tasks' = Tail(tasks) PROVE Kept(1, {"resume"})
  BY <1>1, <1>2, TailKept, KeptResumes
<1>3. ASSUME tasks # <<>>, tasks' = Cancelled(Tail(tasks), Completions) PROVE Kept(1, {"resume"})
  BY <1>1, <1>3, CancelledTailKept, KeptResumes
<1>4. ASSUME tasks' = Cancelled(tasks, Completions) PROVE Kept(0, {"resume"})
  BY <1>1, <1>4, CancelledKept, KeptResumes
<1>5. CASE RunNoop
  <2>1. Kept(1, {"resume"}) /\ UNCHANGED <<fetches, main, closes, state>>
    BY <1>2, <1>5 DEF RunNoop, Runs, credentialVars, streamVars
  <2> QED
    BY <1>1, <2>1, SameMain, RequestsStay
<1>6. CASE RunWrite
  <2>1. /\ Kept(1, {"resume"}) /\ UNCHANGED main
        /\ \E q : FillWritePipeline(pipeline, q, state, closes, call)
    BY <1>2, <1>6 DEF RunWrite, Runs
  <2> QED
    BY <1>1, <2>1, FillStepRequests
<1>7. CASE RunCredential
  <2>1. UNCHANGED main /\ tasks # <<>> /\ RestartNetwork(queue[Head(tasks).user], Tail(tasks))
    BY <1>7 DEF RunCredential, Runs
  <2>2. Kept(1, {"resume"})
    BY <1>3, <2>1 DEF RestartNetwork
  <2> QED
    BY <1>1, <2>1, <2>2, RestartRequests
<1>8. CASE RunResume
  BY <1>8, RunResumeRequests
<1>9. CASE RunRead
  <2>1. Kept(1, {"resume"}) /\ UNCHANGED main
    BY <1>2, <1>9 DEF RunRead, Runs
  <2>2. CASE UNCHANGED <<fetches, closes, state>>
    BY <1>1, <2>1, <2>2, SameMain, RequestsStay
  <2>3. ASSUME NEW c, FillWritePipeline(Tail(pipeline), Tail(queue[current]), state, closes, c)
        PROVE  RequestInv'
    BY <1>1, <2>1, <2>3, FillStepRequests
  <2> QED
    BY <1>9, <2>2, <2>3 DEF RunRead
<1>10. CASE RunFail
  <2> DEFINE todo == Cancelled(Tail(tasks), Completions)
             t == [kind |-> "finish"]
  <2>1. tasks # <<>> /\ tasks' = Append(todo, t) /\ UNCHANGED <<fetches, main, closes, state>>
    BY <1>10 DEF RunFail, Runs, credentialVars
  <2>2. /\ Tail(tasks) \in Seq(Tasks) /\ Len(Tail(tasks)) = Len(tasks) - 1 /\ Len(tasks) \in Nat \ {0}
        /\ \A i \in 1..Len(Tail(tasks)) : Tail(tasks)[i] = tasks[i + 1]
    BY <1>1, <2>1, TailType
  <2>3. /\ todo \in Seq(Tasks) /\ Len(todo) = Len(tasks) - 1
        /\ \A i \in 1..Len(todo) : todo[i] = Noop \/ todo[i] = tasks[i + 1]
    BY <2>2, CancelledType
  <2>4. t.kind = "finish" /\ t \in Tasks
    BY CompletionType
  <2> HIDE DEF todo, t
  <2>5. /\ Len(tasks') = Len(todo) + 1 /\ tasks'[Len(todo) + 1] = t /\ Len(todo) \in Nat
        /\ \A i \in 1..Len(todo) : tasks'[i] = todo[i]
    BY <2>1, <2>3, <2>4, AppendProperties
  <2>6. ASSUME NEW i \in 1..Len(tasks'), tasks'[i].kind = "resume"
        PROVE  i + 1 \in 1..Len(tasks) /\ tasks'[i] = tasks[i + 1]
    <3>1. i # Len(todo) + 1
      BY <2>4, <2>5, <2>6
    <3>2. i \in 1..Len(todo) /\ tasks'[i] = todo[i]
      BY <2>5, <3>1
    <3>3. todo[i] = tasks[i + 1]
      BY <2>3, <2>6, <3>2, NoopType
    <3> QED
      BY <2>2, <2>3, <3>2, <3>3
  <2>7. Kept(1, {"resume"})
    BY <2>6 DEF Kept
  <2> QED
    BY <1>1, <2>1, <2>7, SameMain, RequestsStay
<1>11. CASE RunFinish
  <2>1. UNCHANGED main /\ tasks # <<>> /\ CloseWithError(call.status = "permanent", Tail(tasks))
    BY <1>11 DEF RunFinish, Runs
  <2>2. Kept(1, {"resume"})
    BY <1>3, <2>1 DEF CloseWithError
  <2> QED
    BY <1>1, <2>1, <2>2, CloseRequests
<1>12. CASE BackoffElapses
  <2>1. /\ UNCHANGED <<main, tasks, closes>> /\ state = "Backoff" /\ closes \in Nat
        /\ state' = "Starting" /\ fetches' = fetches \union {Fetch(closes, contents.counter)}
    BY <1>1, <1>12 DEF BackoffElapses, Start, TypeOK
  <2>2. NoneAt(closes)
    BY <1>1, <2>1, NoneAtNow
  <2> QED
    BY <1>1, <2>1, <2>2, SameTasks, RequestsFresh
<1>13. CASE IdleElapses
  <2>1. UNCHANGED <<main, fetches>> /\ closes' = closes + 1 /\ tasks' = Cancelled(tasks, Completions)
    BY <1>13 DEF IdleElapses, credentialVars
  <2>2. closes + 1 \in Nat /\ NoneAt(closes + 1) /\ Kept(0, {"resume"})
    BY <1>1, <1>4, <2>1, RequestTypes, NoneAtNext
  <2> QED
    BY <1>1, <2>1, <2>2, RequestsFresh
<1>14. CASE ConnectivityChanges
  <2>1. UNCHANGED main /\ RestartNetwork(queue[current], tasks)
    BY <1>14 DEF ConnectivityChanges
  <2>2. Kept(0, {"resume"})
    BY <1>4, <2>1 DEF RestartNetwork
  <2> QED
    BY <1>1, <2>1, <2>2, RestartRequests
<1> QED
  BY <1>5, <1>6, <1>7, <1>8, <1>9, <1>10, <1>11, <1>12, <1>13, <1>14 DEF Worker

LEMMA RequestsKill == Kill => RequestInv'
<1> SUFFICES ASSUME Kill PROVE RequestInv'
  OBVIOUS
<1>1. /\ main' = <<>> /\ tasks' = <<>> /\ closes' = 0
      /\ \/ fetches' = {}
         \/ fetches' = {Fetch(0, 0)} /\ state' = "Starting"
  BY DEF Kill
<1>2. Len(main') = 0 /\ Len(tasks') = 0
  BY <1>1
<1>3. AskedMain' = {} /\ AskedTasks' = {} /\ AskedFetches' \subseteq fetches'
  BY <1>2 DEF AskedMain, AskedTasks, AskedFetches
<1>4. \A f \in fetches' : f.closes <= closes'
  BY <1>1 DEF Fetch
<1> QED
  BY <1>1, <1>2, <1>3, <1>4 DEF RequestInv, AtMostOne

(***************************************************************************)
(* The types hold at every step.                                            *)
(***************************************************************************)

Invariant == IInv /\ RequestInv

LEMMA InvariantInit == Init => Invariant
<1>1. ASSUME Init PROVE RequestInv
  <2>1. fetches = {} /\ main = <<>> /\ tasks = <<>>
    BY <1>1 DEF Init
  <2>2. Len(main) = 0 /\ Len(tasks) = 0
    BY <2>1
  <2>3. AskedMain = {} /\ AskedTasks = {} /\ AskedFetches = {}
    BY <2>1, <2>2 DEF AskedMain, AskedTasks, AskedFetches
  <2> QED
    BY <2>1, <2>2, <2>3 DEF RequestInv, AtMostOne
<1> QED
  BY <1>1, InitInv DEF Invariant

LEMMA InvariantStep == Invariant /\ [Next]_vars => Invariant'
<1> SUFFICES ASSUME IInv, RequestInv, [Next]_vars PROVE IInv' /\ RequestInv'
  BY DEF Invariant
<1>1. CASE MainThread
  <2>1. IInv'
    BY <1>1, WriteMutationsInv, AnnounceInv, TakeTokenInv, SignInInv, BeginTokenInv, AnswerTokenInv
       DEF MainThread
  <2> QED
    BY <1>1, <2>1, RequestsMainThread
<1>2. CASE Network
  <2>1. IInv'
    BY <1>2, HandleInv, RefuseInv, LoseInv, CompleteReadInv, FailOperationInv, HandleStaleInv DEF Network
  <2> QED
    BY <1>2, <2>1, RequestsNetwork
<1>3. CASE Worker
  <2>1. IInv'
    BY <1>3, RunNoopInv, RunWriteInv, RunCredentialInv, RunResumeInv, RunReadInv, RunFailInv, RunFinishInv,
       BackoffElapsesInv, IdleElapsesInv, ConnectivityChangesInv DEF Worker
  <2> QED
    BY <1>3, <2>1, RequestsWorker
<1>4. CASE Kill
  BY <1>4, KillInv, RequestsKill
<1>5. CASE UNCHANGED vars
  <2>1. IInv'
    <3>1. QueueInv' /\ PipeInv' /\ TaskInv' /\ CallInv'
      BY <1>5, SameStream DEF vars, storeVars, appVars
    <3>2. TypeOK'
      BY <1>5 DEF IInv, TypeOK, vars, credentialVars, storeVars, streamVars, serverVars, appVars, boundVars
    <3> QED
      BY <3>1, <3>2 DEF IInv
  <2>2. RequestInv'
    BY <1>5, SameMain, SameTasks, RequestsStay DEF IInv, vars, credentialVars, streamVars
  <2> QED
    BY <2>1, <2>2
<1> QED
  BY <1>1, <1>2, <1>3, <1>4, <1>5 DEF Next

\* Every variable has its type, whatever the users, the bounds and the length of
\* the pipeline: the process, the stream and a call stay well formed.
THEOREM TypeCorrect == Spec => []TypeOK
<1>1. Invariant => TypeOK
  BY DEF Invariant, IInv
<1> QED
  BY <1>1, InvariantInit, InvariantStep, PTL DEF Spec

(***************************************************************************)
(* The pipeline and the call keep in step.                                  *)
(***************************************************************************)

\* The idle timer runs only when there is nothing to send, and the stream is
\* started only when there is.
IdleInv ==
    /\ idle => handshake /\ pipeline = <<>>
    /\ Started(state) /\ ~handshake => pipeline # <<>>

\* After the stream has been stopped, with nothing sent yet.
LEMMA StoppedIdle ==
  ASSUME NEW p, NEW q, NEW n, NEW c, FillWritePipeline(p, q, "Initial", n, c), handshake' = FALSE
  PROVE  IdleInv'
<1>1. idle' = FALSE
  BY DEF FillWritePipeline
<1>2. pipeline' = <<>> => state' = "Initial"
  BY DEF FillWritePipeline
<1> QED
  BY <1>1, <1>2 DEF IdleInv, Started

LEMMA RestartIdle ==
  ASSUME NEW q, NEW todo, RestartNetwork(q, todo)
  PROVE  IdleInv'
<1>1. \E n : FillWritePipeline(<<>>, q, "Initial", n, NoCall)
  BY DEF RestartNetwork
<1>2. handshake' = FALSE
  BY DEF RestartNetwork
<1> QED
  BY <1>1, <1>2, StoppedIdle

LEMMA CloseIdle ==
  ASSUME NEW permanent, NEW todo, CloseWithError(permanent, todo)
  PROVE  IdleInv'
<1>1. handshake' = FALSE
  BY DEF CloseWithError
<1>2. CASE permanent /\ handshake /\ pipeline # <<>>
  <2>1. FillWritePipeline(Tail(pipeline), Tail(queue[current]), "Initial", closes + 1, NoCall)
    BY <1>2 DEF CloseWithError
  <2> QED
    BY <1>1, <2>1, StoppedIdle
<1>3. CASE ~(permanent /\ handshake /\ pipeline # <<>>)
  <2>1. idle' = FALSE /\ UNCHANGED pipeline /\ (pipeline = <<>> => state' = "Error")
    BY <1>3 DEF CloseWithError
  <2> QED
    BY <1>1, <2>1 DEF IdleInv, Started
<1> QED
  BY <1>2, <1>3

\* What has been added to a pipeline that was empty is all of it.
LEMMA AllIsNew ==
  ASSUME NEW full \in Seq(Write)
  PROVE  SubSeq(full, Len(<<>>) + 1, Len(full)) = full
<1>1. Len(<<>>) + 1 = 1 /\ SubSeq(full, 1, Len(full)) = full
  OBVIOUS
<1> QED
  BY <1>1

\* A pipeline that is filled does not lose anything.
LEMMA FillIdle ==
  ASSUME IdleInv, TaskInv, pipeline \in Seq(Write), pipeline' \in Seq(Write), NEW q,
         FillWritePipeline(pipeline, q, state, closes, call), UNCHANGED handshake,
         pipeline # <<>> => pipeline' # <<>>
  PROVE  IdleInv'
<1> DEFINE new == SubSeq(pipeline', Len(pipeline) + 1, Len(pipeline'))
<1>1. /\ idle' = CASE pipeline' = <<>> -> state = "Open"
                   [] state = "Open" /\ handshake /\ new # <<>> -> FALSE
                   [] OTHER -> idle /\ state = "Open"
      /\ (pipeline' # <<>> /\ ~Started(state)) \/ state' = state
  BY DEF FillWritePipeline
<1>2. CASE pipeline' = <<>>
  <2>1. pipeline = <<>> /\ state' = state
    BY <1>1, <1>2
  <2>2. state = "Open" => handshake
    BY <2>1 DEF IdleInv, Started
  <2> QED
    BY <1>1, <1>2, <2>1, <2>2 DEF IdleInv
<1>3. CASE pipeline' # <<>>
  <2>1. ASSUME idle' PROVE FALSE
    <3>1. idle /\ state = "Open" /\ ~(state = "Open" /\ handshake /\ new # <<>>)
      BY <1>1, <1>3, <2>1
    <3>2. handshake /\ pipeline = <<>>
      BY <3>1 DEF IdleInv
    <3>3. new = pipeline'
      BY <3>2, AllIsNew
    <3> QED
      BY <1>3, <3>1, <3>2, <3>3
  <2> QED
    BY <1>3, <2>1 DEF IdleInv
<1> QED
  BY <1>2, <1>3

LEMMA IdleStep == IInv /\ RequestInv /\ IdleInv /\ IInv' /\ [Next]_vars => IdleInv'
<1> SUFFICES ASSUME IInv, RequestInv, IdleInv, IInv', [Next]_vars PROVE IdleInv'
  OBVIOUS
<1>1. TypeOK /\ TaskInv /\ pipeline \in Seq(Write) /\ pipeline' \in Seq(Write) /\ closes \in Nat
  BY DEF IInv, TypeOK
<1>2. CASE UNCHANGED <<idle, handshake, pipeline, state>>
  BY <1>2 DEF IdleInv, Started
<1>3. CASE MainThread \/ Network \/ RunNoop \/ RunFail \/ UNCHANGED vars
  <2>1. UNCHANGED <<idle, handshake, pipeline, state>>
    BY <1>3 DEF MainThread, WriteMutations, Announce, TakeToken, SignIn, BeginToken, AnswerToken, Network, Handle,
                Refuse, Lose, CompleteRead, FailOperation, HandleStale, RunNoop, RunFail, vars, streamVars
  <2> QED
    BY <1>2, <2>1
<1>4. CASE RunWrite
  <2> DEFINE q == Append(queue[current], Head(tasks).write)
  <2>1. FillWritePipeline(pipeline, q, state, closes, call) /\ UNCHANGED <<handshake, current>>
        /\ queue' = [queue EXCEPT ![current] = q]
    BY <1>4 DEF RunWrite
  <2> HIDE DEF q
  <2>2. pipeline' = Filled(pipeline, q)
    BY <2>1 DEF FillWritePipeline
  <2>3. pipeline # <<>> => pipeline' # <<>>
    <3> SUFFICES ASSUME pipeline # <<>> PROVE pipeline' # <<>>
      OBVIOUS
    <3>1. \E more : pipeline' = pipeline \o more
      BY <2>2 DEF Filled
    <3>2. PICK more : pipeline' = pipeline \o more
      BY <3>1
    <3> QED
      BY <1>1, <3>2
  <2> QED
    BY <1>1, <2>1, <2>3, FillIdle
<1>5. CASE RunCredential \/ ConnectivityChanges
  BY <1>5, RestartIdle DEF RunCredential, ConnectivityChanges
<1>6. CASE RunFinish
  BY <1>6, CloseIdle DEF RunFinish
<1>7. CASE RunResume
  <2> DEFINE t == Head(tasks)
  <2>1. Runs("resume")
    BY <1>7 DEF RunResume
  <2>2. tasks[1] = t /\ 1 \in 1..Len(tasks) /\ t.kind = "resume"
    BY <2>1, HeadTask
  <2>3. CASE UNCHANGED streamVars
    BY <1>2, <2>3 DEF streamVars
  <2>4. CASE t.closes = closes /\ state' = "Open" /\ UNCHANGED <<pipeline, handshake, idle>>
    <3>1. state = "Starting"
      BY <2>2, <2>4 DEF RequestInv, AskedTasks
    <3> QED
      BY <2>4, <3>1 DEF IdleInv, Started
  <2>5. CASE CloseWithError(FALSE, Tail(tasks))
    BY <2>5, CloseIdle
  <2> QED
    BY <1>7, <2>3, <2>4, <2>5 DEF RunResume
<1>8. CASE RunRead
  <2>1. CASE handshake' = TRUE /\ idle' = (idle /\ pipeline = <<>>) /\ UNCHANGED <<pipeline, state>>
    BY <2>1 DEF IdleInv
  <2>2. ASSUME handshake, UNCHANGED handshake,
               NEW c, FillWritePipeline(Tail(pipeline), Tail(queue[current]), state, closes, c)
        PROVE  IdleInv'
    <3>1. pipeline # <<>>
      <4>1. call.taken < call.handled /\ call # NoCall
        BY <1>8, ReadTail DEF RunRead
      <4> QED
        BY <2>2, <4>1, AnsweredInStep
    <3>2. idle' => pipeline' = <<>>
      BY <2>2, <3>1 DEF FillWritePipeline, IdleInv
    <3> QED
      BY <2>2, <3>2 DEF IdleInv
  <2> QED
    BY <1>8, <2>1, <2>2 DEF RunRead
<1>9. CASE BackoffElapses
  <2>1. /\ state = "Backoff" /\ UNCHANGED <<idle, handshake, pipeline>> /\ state' = "Starting"
    BY <1>9 DEF BackoffElapses, Start
  <2> QED
    BY <2>1 DEF IdleInv, Started
<1>10. CASE IdleElapses
  BY <1>10 DEF IdleElapses, IdleInv, Started
<1>11. CASE Kill
  <2>1. /\ idle' = FALSE /\ handshake' = FALSE /\ pipeline' = Filled(<<>>, queue[auth])
        /\ queue[auth] = <<>> => state' = "Initial"
    BY <1>11 DEF Kill
  <2>2. pipeline' = <<>> => queue[auth] = <<>>
    <3> DEFINE e == <<>>
    <3>1. queue[auth] \in Seq(Write) /\ Increasing(queue[auth])
      BY DEF IInv, TypeOK, QueueInv
    <3>2. e \in Seq(Write) /\ Prefix(e, queue[auth]) /\ Len(e) <= MaxPendingWrites
      BY <3>1, EmptyPrefix
    <3>3. e = <<>>
      OBVIOUS
    <3> HIDE DEF e
    <3>4. LET full == Filled(e, queue[auth]) IN full = <<>> => queue[auth] = <<>>
      BY <3>1, <3>2, FilledPrefix
    <3> QED
      BY <2>1, <3>3, <3>4
  <2> QED
    BY <2>1, <2>2 DEF IdleInv, Started
<1> QED
  BY <1>3, <1>4, <1>5, <1>6, <1>7, <1>8, <1>9, <1>10, <1>11 DEF Next, Worker

\* What follows the first k elements of a sequence.
LEMMA RestOf ==
  ASSUME NEW S, NEW q \in Seq(S), NEW k \in Nat, k <= Len(q)
  PROVE  LET r == SubSeq(q, k + 1, Len(q)) IN
         /\ r \in Seq(S) /\ Len(r) = Len(q) - k
         /\ \A i \in 1..(Len(q) - k) : r[i] = q[k + i]
<1>1. Len(q) \in Nat /\ k + 1 \in 1..(Len(q) + 1) /\ Len(q) \in k..Len(q)
  OBVIOUS
<1> QED
  BY <1>1

LEMMA InStepNow == Invariant /\ IdleInv => PipelineInStep
<1> SUFFICES ASSUME IInv, RequestInv, IdleInv PROVE PipelineInStep
  BY DEF Invariant
<1>1. /\ TypeOK /\ PipeInv /\ TaskInv /\ CallInv /\ pipeline \in Seq(Write) /\ queue[current] \in Seq(Write)
  BY DEF IInv, TypeOK
<1>2. /\ Len(pipeline) <= MaxPendingWrites /\ Len(pipeline) <= Len(queue[current])
      /\ pipeline = SubSeq(queue[current], 1, Len(pipeline))
  BY <1>1, PrefixIsSubSeq DEF PipeInv
<1>3. ASSUME handshake
      PROVE  call # NoCall /\ pipeline = SubSeq(call.sent, call.taken + 1, Len(call.sent))
  <2>1. call # NoCall /\ IsOpen
    BY <1>1, <1>3 DEF TaskInv
  <2>2. /\ call.sent \in Seq(Write \union {Handshake}) /\ call.taken \in Nat /\ Len(call.sent) \in Nat
        /\ call.handled \in Nat
    BY <1>1, <2>1, CallType
  <2>3. Follows(pipeline, call.sent, call.taken) /\ call.taken <= Len(call.sent)
    BY <1>1, <1>3, <2>1, <2>2 DEF CallInv
  <2> DEFINE rest == SubSeq(call.sent, call.taken + 1, Len(call.sent))
  <2>4. /\ rest \in Seq(Write \union {Handshake}) /\ Len(rest) = Len(call.sent) - call.taken
        /\ \A i \in 1..(Len(call.sent) - call.taken) : rest[i] = call.sent[call.taken + i]
    BY <2>2, <2>3, RestOf
  <2>5. Len(pipeline) = Len(rest) /\ \A i \in 1..Len(pipeline) : pipeline[i] = rest[i]
    BY <2>3, <2>4 DEF Follows
  <2>6. pipeline \in Seq(Write \union {Handshake})
    BY <1>1, SeqMonotonic
  <2> HIDE DEF rest
  <2>7. pipeline = rest
    BY <2>4, <2>5, <2>6, SeqEqual
  <2> QED
    BY <2>1, <2>7 DEF rest
<1>4. ASSUME Runs("read") PROVE IsOpen /\ (handshake => pipeline # <<>>)
  <2>1. /\ IsOpen /\ call # NoCall /\ Queued("read")
    <3>1. tasks[1].kind = "read" /\ 1 \in 1..Len(tasks) /\ IsOpen /\ call # NoCall
      BY <1>4, HeadTask DEF Completions
    <3> QED
      BY <3>1 DEF Queued
  <2>2. call.taken < call.handled
    BY <1>1, <2>1 DEF CallInv
  <2> QED
    BY <2>1, <2>2, AnsweredInStep
<1>5. ASSUME Runs("resume"), Head(tasks).closes = closes PROVE state = "Starting"
  <2>1. tasks[1] = Head(tasks) /\ 1 \in 1..Len(tasks) /\ tasks[1].kind = "resume"
    BY <1>5, HeadTask
  <2> QED
    BY <1>5, <2>1 DEF RequestInv, AskedTasks
<1> QED
  BY <1>2, <1>3, <1>4, <1>5 DEF PipelineInStep, IdleInv

\* The next answer, which carries no name, is for the head of the pipeline, at
\* every step and for every length of the pipeline; the assertions of the client
\* hold.
THEOREM AnswersMatch == Spec => []PipelineInStep
<1>1. Init => IdleInv
  BY DEF Init, IdleInv, Started
<1>2. Invariant /\ IdleInv /\ [Next]_vars => Invariant' /\ IdleInv'
  BY InvariantStep, IdleStep DEF Invariant
<1> QED
  BY <1>1, <1>2, InvariantInit, InStepNow, PTL DEF Spec

(***************************************************************************)
(* Whose token.  A change of credentials is a task like the writes and the  *)
(* resumptions around it: each of these is for the user of the last change  *)
(* before it.  On the main thread an announcement is taken before any token *)
(* that was answered later, and makes the token counter of the others old.  *)
(***************************************************************************)

\* u is the user at work where place j of the worker queue q is reached, from cur.
InForce(q, cur, j, u) ==
    \A i \in 0..(j - 1) :
        /\ i = 0 \/ q[i].kind = "credential"
        /\ \A k \in (i + 1)..(j - 1) : q[k].kind # "credential"
        => u = IF i = 0 THEN cur ELSE q[i].user

Personal(t) == t.kind = "write" \/ (t.kind = "resume" /\ t.user # NoUser)
UserOf(own, t) == IF t.kind = "write" THEN own[t.write] ELSE t.user

ForceInv ==
    /\ \A j \in 1..Len(tasks) : Personal(tasks[j]) => InForce(tasks, current, j, UserOf(owner, tasks[j]))
    /\ InForce(tasks, current, Len(tasks) + 1, contents.user)

\* The worker queue is o places further on, but for completions and no-ops.
Shifted(o) ==
    /\ Len(tasks) - o <= Len(tasks')
    /\ \A i \in 1..Len(tasks') :
          IF i + o <= Len(tasks)
          THEN tasks'[i] = tasks[i + o] \/ {tasks'[i].kind, tasks[i + o].kind} \intersect Kinds = {}
          ELSE tasks'[i].kind \notin Kinds

LEMMA ShiftedPlace ==
  ASSUME tasks \in Seq(Tasks), tasks' \in Seq(Tasks), NEW o \in {0, 1}, o <= Len(tasks), Shifted(o),
         current' = IF o = 1 /\ tasks[1].kind = "credential" THEN tasks[1].user ELSE current,
         NEW j \in 1..(Len(tasks') + 1), NEW e \in 1..(Len(tasks) + 1),
         IF j + o <= Len(tasks) + 1 THEN e = j + o ELSE e = Len(tasks) + 1,
         NEW u, InForce(tasks, current, e, u)
  PROVE  InForce(tasks', current', j, u)
<1>1. Len(tasks) \in Nat /\ Len(tasks') \in Nat /\ "credential" \in Kinds
  BY DEF Kinds
<1>2. ASSUME NEW i \in 1..(j - 1), i + o <= Len(tasks)
      PROVE  tasks'[i].kind = "credential" <=> tasks[i + o].kind = "credential"
  <2>1. i \in 1..Len(tasks')
    BY <1>1
  <2>2. tasks'[i] = tasks[i + o] \/ {tasks'[i].kind, tasks[i + o].kind} \intersect Kinds = {}
    BY <1>2, <2>1 DEF Shifted
  <2> QED
    BY <1>1, <2>2
<1>3. ASSUME NEW i \in 0..(j - 1), \A k \in (i + 1)..(j - 1) : tasks'[k].kind # "credential",
             NEW k \in (i + o + 1)..(e - 1)
      PROVE  tasks[k].kind # "credential"
  <2>1. k - o \in (i + 1)..(j - 1) /\ k - o \in 1..(j - 1) /\ k - o + o = k /\ k <= Len(tasks)
    BY <1>1
  <2> QED
    BY <1>2, <1>3, <2>1
<1> SUFFICES ASSUME NEW i \in 0..(j - 1), i = 0 \/ tasks'[i].kind = "credential",
                    \A k \in (i + 1)..(j - 1) : tasks'[k].kind # "credential"
             PROVE  u = IF i = 0 THEN current' ELSE tasks'[i].user
  BY DEF InForce
<1>4. \A k \in (i + o + 1)..(e - 1) : tasks[k].kind # "credential"
  BY <1>3
<1>5. CASE i = 0 /\ o = 0
  <2>1. 0 \in 0..(e - 1) /\ \A k \in (0 + 1)..(e - 1) : tasks[k].kind # "credential"
    BY <1>1, <1>4, <1>5
  <2> QED
    BY <1>5, <2>1 DEF InForce
<1>6. CASE i = 0 /\ o = 1
  <2>1. 0 \in 0..(e - 1) /\ 1 \in 0..(e - 1)
    BY <1>1, <1>6
  <2>2. \A k \in (1 + 1)..(e - 1) : tasks[k].kind # "credential"
    BY <1>4, <1>6
  <2>3. CASE tasks[1].kind = "credential"
    BY <1>6, <2>1, <2>2, <2>3 DEF InForce
  <2>4. CASE tasks[1].kind # "credential"
    <3>1. \A k \in (0 + 1)..(e - 1) : tasks[k].kind # "credential"
      BY <1>1, <2>2, <2>4
    <3> QED
      BY <1>6, <2>1, <2>4, <3>1 DEF InForce
  <2> QED
    BY <2>3, <2>4
<1>7. CASE i # 0
  <2>1. i \in 1..Len(tasks') /\ tasks'[i].kind = "credential"
    BY <1>1, <1>7
  <2>2. i + o <= Len(tasks) /\ tasks'[i] = tasks[i + o]
    BY <1>1, <2>1 DEF Shifted
  <2>3. i + o \in 0..(e - 1) /\ i + o # 0
    BY <1>1, <1>7, <2>2, SMTT(20)
  <2> QED
    BY <1>4, <1>7, <2>1, <2>2, <2>3 DEF InForce
<1> QED
  BY <1>5, <1>6, <1>7

LEMMA ShiftedForce ==
  ASSUME tasks \in Seq(Tasks), tasks' \in Seq(Tasks), NEW o \in {0, 1}, o <= Len(tasks), Shifted(o),
         current' = IF o = 1 /\ tasks[1].kind = "credential" THEN tasks[1].user ELSE current,
         ForceInv, UNCHANGED <<owner, contents>>
  PROVE  ForceInv'
<1>1. Len(tasks) \in Nat /\ Len(tasks') \in Nat /\ {"write", "resume"} \subseteq Kinds
  BY DEF Kinds
<1>2. ASSUME NEW j \in 1..Len(tasks'), Personal(tasks'[j])
      PROVE  InForce(tasks', current', j, UserOf(owner', tasks'[j]))
  <2>1. tasks'[j].kind \in Kinds
    BY <1>1, <1>2 DEF Personal
  <2>2. j + o <= Len(tasks) /\ tasks'[j] = tasks[j + o]
    BY <2>1 DEF Shifted
  <2>3. j + o \in 1..Len(tasks) /\ Personal(tasks[j + o]) /\ UserOf(owner', tasks'[j]) = UserOf(owner, tasks[j + o])
    BY <1>1, <1>2, <2>2
  <2> DEFINE u == UserOf(owner', tasks'[j])
             e == j + o
  <2>4. InForce(tasks, current, e, u) /\ e \in 1..(Len(tasks) + 1) /\ j \in 1..(Len(tasks') + 1)
        /\ IF j + o <= Len(tasks) + 1 THEN e = j + o ELSE e = Len(tasks) + 1
    BY <1>1, <2>2, <2>3 DEF ForceInv
  <2> HIDE DEF e, u
  <2>5. InForce(tasks', current', j, u)
    BY <2>4, ShiftedPlace
  <2> QED
    BY <2>5 DEF u
<1>3. InForce(tasks', current', Len(tasks') + 1, contents'.user)
  <2> DEFINE j == Len(tasks') + 1
             e == Len(tasks) + 1
             u == contents.user
  <2>1. /\ j \in 1..(Len(tasks') + 1) /\ e \in 1..(Len(tasks) + 1)
        /\ IF j + o <= Len(tasks) + 1 THEN e = j + o ELSE e = Len(tasks) + 1
    BY <1>1 DEF Shifted
  <2>2. InForce(tasks, current, e, u)
    BY DEF ForceInv
  <2> HIDE DEF j, e, u
  <2>3. InForce(tasks', current', j, u)
    BY <2>1, <2>2, ShiftedPlace
  <2> QED
    BY <2>3 DEF j, u
<1> QED
  BY <1>2, <1>3 DEF ForceInv

LEMMA AppendedForce ==
  ASSUME tasks \in Seq(Tasks), NEW t \in Tasks, tasks' = Append(tasks, t), UNCHANGED current, ForceInv,
         \A j \in 1..Len(tasks) : tasks[j].kind = "write" => owner'[tasks[j].write] = owner[tasks[j].write],
         Personal(t) => UserOf(owner', t) = contents.user,
         contents'.user = IF t.kind = "credential" THEN t.user ELSE contents.user
  PROVE  ForceInv'
<1> DEFINE n == Len(tasks) + 1
<1>1. /\ Len(tasks') = n /\ Len(tasks) \in Nat /\ tasks'[n] = t
      /\ \A i \in 1..Len(tasks') : i # n => i \in 1..Len(tasks) /\ tasks'[i] = tasks[i]
  BY AppendKept
<1>2. ASSUME NEW j \in 1..n, NEW u, InForce(tasks, current, j, u)
      PROVE  InForce(tasks', current', j, u)
  <2>1. \A i \in 1..(j - 1) : tasks'[i] = tasks[i]
    BY <1>1
  <2>2. j - 1 \in Nat
    BY <1>1
  <2> SUFFICES ASSUME NEW i \in 0..(j - 1), i = 0 \/ tasks'[i].kind = "credential",
                      \A k \in (i + 1)..(j - 1) : tasks'[k].kind # "credential"
               PROVE  u = IF i = 0 THEN current' ELSE tasks'[i].user
    BY DEF InForce
  <2>3. i = 0 \/ (tasks'[i] = tasks[i] /\ tasks[i].kind = "credential")
    BY <2>1, <2>2
  <2>4. \A k \in (i + 1)..(j - 1) : tasks[k].kind # "credential"
    BY <2>1, <2>2
  <2> QED
    BY <1>2, <2>3, <2>4 DEF InForce
<1>3. ASSUME NEW j \in 1..Len(tasks'), Personal(tasks'[j])
      PROVE  InForce(tasks', current', j, UserOf(owner', tasks'[j]))
  <2> DEFINE u == UserOf(owner', tasks'[j])
  <2>1. CASE j = n
    <3>1. u = contents.user /\ InForce(tasks, current, j, contents.user)
      BY <1>1, <1>3, <2>1 DEF ForceInv
    <3> HIDE DEF u
    <3>2. InForce(tasks, current, j, u) /\ j \in 1..n
      BY <1>1, <2>1, <3>1
    <3>3. InForce(tasks', current', j, u)
      BY <1>2, <3>2
    <3> QED
      BY <3>3 DEF u
  <2>2. CASE j # n
    <3>1. j \in 1..Len(tasks) /\ tasks'[j] = tasks[j]
      BY <1>1, <2>2
    <3>2. u = UserOf(owner, tasks[j])
      BY <3>1 DEF UserOf
    <3>3. InForce(tasks, current, j, u) /\ j \in 1..n
      BY <1>1, <1>3, <3>1, <3>2 DEF ForceInv
    <3> HIDE DEF u
    <3>4. InForce(tasks', current', j, u)
      BY <1>2, <3>3
    <3> QED
      BY <3>4 DEF u
  <2> QED
    BY <2>1, <2>2
<1>4. InForce(tasks', current', Len(tasks') + 1, contents'.user)
  <2>1. n + 1 - 1 = n /\ n \in Nat \ {0}
    BY <1>1
  <2> SUFFICES ASSUME NEW i \in 0..n, i = 0 \/ tasks'[i].kind = "credential",
                      \A k \in (i + 1)..n : tasks'[k].kind # "credential"
               PROVE  contents'.user = IF i = 0 THEN current' ELSE tasks'[i].user
    BY <1>1, <2>1 DEF InForce
  <2>2. CASE t.kind = "credential"
    <3>1. i = n
      BY <1>1, <2>1, <2>2
    <3> QED
      BY <1>1, <2>1, <2>2, <3>1
  <2>3. CASE t.kind # "credential"
    <3>1. InForce(tasks, current, n, contents.user) /\ n \in 1..n
      BY <2>1 DEF ForceInv
    <3>2. InForce(tasks', current', n, contents.user)
      BY <1>2, <3>1
    <3>3. i \in 0..(n - 1) /\ \A k \in (i + 1)..(n - 1) : tasks'[k].kind # "credential"
      BY <1>1, <2>1, <2>3
    <3> QED
      BY <2>3, <3>2, <3>3 DEF InForce
  <2> QED
    BY <2>2, <2>3
<1> QED
  BY <1>3, <1>4 DEF ForceInv

\* Auth's user is that of the last announcement; a token that is not old by then
\* is of the user whom the client will know when the token is taken.
Announced(m, i) == \E k \in 1..i : m[k].kind = "announce"

GoodToken(c, f) == f.user # NoUser /\ f.counter = c.counter => f.user = c.user

LatestInv ==
    \A i \in 0..Len(main) :
        /\ i = 0 \/ main[i].kind = "announce"
        /\ \A k \in (i + 1)..Len(main) : main[k].kind # "announce"
        => auth = IF i = 0 THEN contents.user ELSE main[i].user

TokenInv ==
    /\ \A f \in fetches : f.counter <= contents.counter
    /\ \A f \in fetches : Announced(main, Len(main)) \/ GoodToken(contents, f)
    /\ \A i \in 1..Len(main) : main[i].kind = "token" =>
          /\ main[i].fetch.counter <= contents.counter
          /\ Announced(main, i - 1) \/ GoodToken(contents, main[i].fetch)

MainInv == LatestInv /\ TokenInv

LEMMA AuthNow ==
  ASSUME MainInv, ~Announced(main, Len(main)), Len(main) \in Nat
  PROVE  auth = contents.user
<1>1. \A k \in (0 + 1)..Len(main) : main[k].kind # "announce"
  BY DEF Announced
<1> QED
  BY <1>1 DEF MainInv, LatestInv

\* A message joins those on the main thread.
LEMMA AppendedMain ==
  ASSUME TypeOK, NEW m \in Messages, main' = Append(main, m)
  PROVE  /\ Len(main') = Len(main) + 1 /\ Len(main) \in Nat /\ main'[Len(main) + 1] = m
         /\ \A i \in 1..Len(main) : main'[i] = main[i]
         /\ \A i \in 0..Len(main) : Announced(main, i) => Announced(main', i)
         /\ m.kind = "announce" => Announced(main', Len(main'))
<1>1. /\ Len(main') = Len(main) + 1 /\ Len(main) \in Nat /\ main'[Len(main) + 1] = m
      /\ \A i \in 1..Len(main) : main'[i] = main[i]
  BY RequestTypes, AppendProperties
<1>2. ASSUME NEW i \in 0..Len(main), Announced(main, i) PROVE Announced(main', i)
  BY <1>1, <1>2 DEF Announced
<1>3. m.kind = "announce" => Announced(main', Len(main'))
  BY <1>1 DEF Announced
<1> QED
  BY <1>1, <1>2, <1>3

LEMMA SignInMain ==
  ASSUME TypeOK, MainInv, NEW u \in User, SignIn(u)
  PROVE  MainInv'
<1> DEFINE m == [kind |-> "announce", user |-> u]
           n == Len(main) + 1
<1>1. m \in Messages /\ m.kind = "announce" /\ m.user = u
  BY DEF Messages
<1>2. main' = Append(main, m) /\ auth' = u /\ UNCHANGED <<contents, fetches>>
  BY DEF SignIn
<1> HIDE DEF m
<1>3. /\ Len(main') = n /\ Len(main) \in Nat /\ main'[n] = m
      /\ \A i \in 1..Len(main) : main'[i] = main[i]
      /\ \A i \in 0..Len(main) : Announced(main, i) => Announced(main', i)
      /\ Announced(main', Len(main'))
  BY <1>1, <1>2, AppendedMain
<1>4. LatestInv'
  <2> SUFFICES ASSUME NEW i \in 0..n, i = 0 \/ main'[i].kind = "announce",
                      \A k \in (i + 1)..n : main'[k].kind # "announce"
               PROVE  u = IF i = 0 THEN contents.user ELSE main'[i].user
    BY <1>2, <1>3 DEF LatestInv
  <2>1. i = n
    BY <1>1, <1>3
  <2> QED
    BY <1>1, <1>3, <2>1
<1>5. ASSUME NEW i \in 1..Len(main'), main'[i].kind = "token"
      PROVE  /\ main'[i].fetch.counter <= contents.counter
             /\ Announced(main', i - 1) \/ GoodToken(contents, main'[i].fetch)
  <2>1. i \in 1..Len(main) /\ main'[i] = main[i] /\ i - 1 \in 0..Len(main)
    BY <1>1, <1>3, <1>5
  <2> QED
    BY <1>3, <1>5, <2>1 DEF MainInv, TokenInv
<1>6. TokenInv'
  BY <1>2, <1>3, <1>5 DEF MainInv, TokenInv
<1> QED
  BY <1>4, <1>6 DEF MainInv

LEMMA AnnounceMain ==
  ASSUME TypeOK, MainInv, Announce
  PROVE  MainInv'
<1>1. /\ main # <<>> /\ main' = Tail(main) /\ Head(main).kind = "announce"
      /\ contents' = [user |-> Head(main).user, counter |-> contents.counter + 1]
      /\ UNCHANGED <<auth, fetches>>
  BY DEF Announce
<1>2. /\ Len(main') = Len(main) - 1 /\ Len(main) \in Nat \ {0} /\ main[1] = Head(main)
      /\ \A i \in 1..Len(main') : main'[i] = main[i + 1]
  BY <1>1, RequestTypes, HeadTailProperties, EmptySeq
<1>3. contents'.user = main[1].user /\ contents'.counter = contents.counter + 1 /\ contents.counter \in Nat
  BY <1>1, <1>2 DEF TypeOK
<1>4. LatestInv'
  <2> SUFFICES ASSUME NEW i \in 0..Len(main'), i = 0 \/ main'[i].kind = "announce",
                      \A k \in (i + 1)..Len(main') : main'[k].kind # "announce"
               PROVE  auth = IF i = 0 THEN contents'.user ELSE main'[i].user
    BY <1>1 DEF LatestInv
  <2>1. i + 1 \in 0..Len(main) /\ i + 1 # 0 /\ main[i + 1].kind = "announce"
    BY <1>1, <1>2
  <2>2. \A k \in (i + 1 + 1)..Len(main) : main[k].kind # "announce"
    <3> SUFFICES ASSUME NEW k \in (i + 1 + 1)..Len(main) PROVE main[k].kind # "announce"
      OBVIOUS
    <3>1. k - 1 \in (i + 1)..Len(main') /\ k - 1 \in 1..Len(main') /\ k - 1 + 1 = k
      BY <1>2
    <3> QED
      BY <1>2, <3>1
  <2>3. auth = main[i + 1].user
    BY <2>1, <2>2 DEF MainInv, LatestInv
  <2>4. i # 0 => main'[i] = main[i + 1]
    BY <1>2
  <2> QED
    BY <1>3, <2>3, <2>4
<1>5. ASSUME NEW f \in Fetches, f.counter <= contents.counter
      PROVE  f.counter <= contents'.counter /\ GoodToken(contents', f)
  <2>1. f.counter \in Nat
    BY DEF Fetches
  <2> QED
    BY <1>3, <1>5, <2>1 DEF GoodToken
<1>6. \A f \in fetches : f \in Fetches /\ f.counter <= contents.counter
  BY DEF TypeOK, MainInv, TokenInv
<1>7. ASSUME NEW i \in 1..Len(main'), main'[i].kind = "token"
      PROVE  main'[i].fetch.counter <= contents'.counter /\ GoodToken(contents', main'[i].fetch)
  <2>1. i + 1 \in 1..Len(main) /\ main'[i] = main[i + 1]
    BY <1>2
  <2>2. main[i + 1].fetch \in Fetches /\ main[i + 1].fetch.counter <= contents.counter
    BY <1>7, <2>1, RequestTypes DEF MainInv, TokenInv
  <2> QED
    BY <1>5, <2>1, <2>2
<1>8. TokenInv'
  BY <1>1, <1>5, <1>6, <1>7 DEF TokenInv
<1> QED
  BY <1>4, <1>8 DEF MainInv

LEMMA BeginTokenMain ==
  ASSUME TypeOK, MainInv, NEW f \in fetches, BeginToken(f)
  PROVE  MainInv'
<1> DEFINE g == [f EXCEPT !.user = auth]
<1>1. fetches' = (fetches \ {f}) \union {g} /\ UNCHANGED <<main, contents, auth>>
  BY DEF BeginToken
<1>2. g.counter = f.counter /\ g.user = auth
  <2>1. f \in Fetches
    BY DEF TypeOK
  <2> QED
    BY <2>1 DEF Fetches
<1> HIDE DEF g
<1>3. Announced(main, Len(main)) \/ GoodToken(contents, g)
  BY <1>2, AuthNow, RequestTypes DEF GoodToken
<1>4. TokenInv'
  BY <1>1, <1>2, <1>3 DEF MainInv, TokenInv
<1>5. LatestInv'
  BY <1>1 DEF MainInv, LatestInv
<1> QED
  BY <1>4, <1>5 DEF MainInv

\* The token that has been answered waits behind the announcements made before.
LEMMA AnswerTokenMain ==
  ASSUME TypeOK, MainInv, NEW f \in fetches, AnswerToken(f)
  PROVE  MainInv'
<1>1. PICK g \in Fetches : /\ main' = Append(main, [kind |-> "token", fetch |-> g])
                           /\ g.counter = f.counter /\ g.user \in {f.user, NoUser}
  <2>1. f \in Fetches /\ [f EXCEPT !.user = NoUser] \in Fetches
        /\ [f EXCEPT !.user = NoUser].counter = f.counter /\ [f EXCEPT !.user = NoUser].user = NoUser
    <3>1. f \in Fetches
      BY DEF TypeOK
    <3> QED
      BY <3>1 DEF Fetches
  <2> QED
    BY <2>1 DEF AnswerToken
<1> DEFINE m == [kind |-> "token", fetch |-> g]
           n == Len(main) + 1
<1>2. m \in Messages /\ m.kind = "token" /\ m.fetch = g /\ main' = Append(main, m)
  BY <1>1 DEF Messages
<1>3. fetches' = fetches \ {f} /\ UNCHANGED <<contents, auth>>
  BY DEF AnswerToken
<1> HIDE DEF m
<1>4. /\ Len(main') = n /\ Len(main) \in Nat /\ main'[n] = m
      /\ \A i \in 1..Len(main) : main'[i] = main[i]
      /\ \A i \in 0..Len(main) : Announced(main, i) => Announced(main', i)
  BY <1>2, AppendedMain
<1>5. Announced(main, Len(main)) => Announced(main', n)
  BY <1>4 DEF Announced
<1>6. LatestInv'
  <2> SUFFICES ASSUME NEW i \in 0..n, i = 0 \/ main'[i].kind = "announce",
                      \A k \in (i + 1)..n : main'[k].kind # "announce"
               PROVE  auth = IF i = 0 THEN contents.user ELSE main'[i].user
    BY <1>3, <1>4 DEF LatestInv
  <2>1. i \in 0..Len(main) /\ (i # 0 => main'[i] = main[i])
    BY <1>2, <1>4
  <2>2. \A k \in (i + 1)..Len(main) : main[k].kind # "announce"
    BY <1>4, <2>1
  <2> QED
    BY <2>1, <2>2 DEF MainInv, LatestInv
<1>7. f.counter <= contents.counter /\ (Announced(main, Len(main)) \/ GoodToken(contents, f))
  BY DEF MainInv, TokenInv
<1>8. GoodToken(contents, f) => GoodToken(contents, g)
  BY <1>1 DEF GoodToken
<1>9. ASSUME NEW i \in 1..Len(main'), main'[i].kind = "token"
      PROVE  /\ main'[i].fetch.counter <= contents.counter
             /\ Announced(main', i - 1) \/ GoodToken(contents, main'[i].fetch)
  <2>1. CASE i = n
    <3>1. n - 1 = Len(main) /\ Len(main) \in 0..Len(main)
      BY <1>4
    <3> QED
      BY <1>1, <1>2, <1>4, <1>7, <1>8, <2>1, <3>1
  <2>2. CASE i # n
    <3>1. i \in 1..Len(main) /\ main'[i] = main[i] /\ i - 1 \in 0..Len(main)
      BY <1>4, <2>2
    <3> QED
      BY <1>4, <1>9, <3>1 DEF MainInv, TokenInv
  <2> QED
    BY <2>1, <2>2
<1>10. TokenInv'
  BY <1>3, <1>4, <1>5, <1>9 DEF MainInv, TokenInv
<1> QED
  BY <1>6, <1>10 DEF MainInv

\* The token that is taken is of the user the client knows, or is dropped.
LEMMA TakeTokenMain ==
  ASSUME TypeOK, MainInv, TakeToken
  PROVE  MainInv' /\ GoodToken(contents, Head(main).fetch)
<1>1. main # <<>> /\ main' = Tail(main) /\ Head(main).kind = "token" /\ UNCHANGED <<auth, contents>>
  BY DEF TakeToken
<1>2. /\ Len(main') = Len(main) - 1 /\ Len(main) \in Nat \ {0} /\ main[1] = Head(main)
      /\ \A i \in 1..Len(main') : main'[i] = main[i + 1]
  BY <1>1, RequestTypes, HeadTailProperties, EmptySeq
<1>3. ~Announced(main, 0)
  BY DEF Announced
<1>4. GoodToken(contents, Head(main).fetch)
  <2>1. 1 \in 1..Len(main) /\ 1 - 1 = 0
    BY <1>2
  <2>2. Announced(main, 1 - 1) \/ GoodToken(contents, main[1].fetch)
    BY <1>1, <1>2, <2>1 DEF MainInv, TokenInv
  <2> QED
    BY <1>2, <1>3, <2>1, <2>2
<1>5. ASSUME NEW i \in 0..Len(main'), Announced(main, i + 1) PROVE Announced(main', i)
  <2>1. PICK k \in 1..(i + 1) : main[k].kind = "announce"
    BY <1>5 DEF Announced
  <2>2. k - 1 \in 1..i /\ k - 1 \in 1..Len(main') /\ k - 1 + 1 = k
    BY <1>1, <1>2, <2>1
  <2> QED
    BY <1>2, <2>1, <2>2 DEF Announced
<1>6. LatestInv'
  <2> SUFFICES ASSUME NEW i \in 0..Len(main'), i = 0 \/ main'[i].kind = "announce",
                      \A k \in (i + 1)..Len(main') : main'[k].kind # "announce"
               PROVE  auth = IF i = 0 THEN contents.user ELSE main'[i].user
    BY <1>1 DEF LatestInv
  <2>1. \A k \in (i + 2)..Len(main) : main[k].kind # "announce"
    <3> SUFFICES ASSUME NEW k \in (i + 2)..Len(main) PROVE main[k].kind # "announce"
      OBVIOUS
    <3>1. k - 1 \in (i + 1)..Len(main') /\ k - 1 \in 1..Len(main') /\ k - 1 + 1 = k
      BY <1>2
    <3> QED
      BY <1>2, <3>1
  <2>2. CASE i = 0
    <3>1. 0 \in 0..Len(main) /\ \A k \in (0 + 1)..Len(main) : main[k].kind # "announce"
      BY <1>1, <1>2, <2>1, <2>2
    <3> QED
      BY <2>2, <3>1 DEF MainInv, LatestInv
  <2>3. CASE i # 0
    <3>1. /\ i + 1 \in 0..Len(main) /\ i + 1 # 0 /\ main'[i] = main[i + 1]
          /\ \A k \in (i + 1 + 1)..Len(main) : main[k].kind # "announce"
      BY <1>2, <2>1, <2>3
    <3> QED
      BY <2>3, <3>1 DEF MainInv, LatestInv
  <2> QED
    BY <2>2, <2>3
<1>7. ASSUME NEW i \in 1..Len(main'), main'[i].kind = "token"
      PROVE  /\ main'[i].fetch.counter <= contents.counter
             /\ Announced(main', i - 1) \/ GoodToken(contents, main'[i].fetch)
  <2>1. i + 1 \in 1..Len(main) /\ main'[i] = main[i + 1] /\ i + 1 - 1 = i /\ i - 1 \in 0..Len(main') /\ i - 1 + 1 = i
    BY <1>2
  <2>2. Announced(main, i + 1 - 1) \/ GoodToken(contents, main[i + 1].fetch)
    BY <1>7, <2>1 DEF MainInv, TokenInv
  <2>3. Announced(main, i) => Announced(main', i - 1)
    BY <1>5, <2>1
  <2> QED
    BY <1>7, <2>1, <2>2, <2>3 DEF MainInv, TokenInv
<1>8. ASSUME NEW f \in fetches'
      PROVE  f.counter <= contents.counter /\ (Announced(main', Len(main')) \/ GoodToken(contents, f))
  <2>1. CASE f \in fetches
    <3>1. Len(main') \in 0..Len(main') /\ Len(main') + 1 = Len(main)
      BY <1>2
    <3>2. Announced(main, Len(main)) => Announced(main', Len(main'))
      BY <1>5, <3>1
    <3> QED
      BY <2>1, <3>2 DEF MainInv, TokenInv
  <2>2. CASE f \notin fetches
    <3>1. f = Fetch(Head(main).fetch.closes, contents.counter)
      BY <2>2 DEF TakeToken
    <3>2. f.user = NoUser /\ f.counter = contents.counter /\ contents.counter \in Nat
      BY <3>1 DEF Fetch, TypeOK
    <3> QED
      BY <3>2 DEF GoodToken
  <2> QED
    BY <2>1, <2>2
<1>9. TokenInv'
  BY <1>1, <1>7, <1>8 DEF TokenInv
<1> QED
  BY <1>4, <1>6, <1>9 DEF MainInv

\* The stream has made a request, or none.
LEMMA RequestedMain ==
  ASSUME TypeOK, MainInv, UNCHANGED <<auth, main, contents>>, NEW n,
         fetches' \subseteq fetches \union {Fetch(n, contents.counter)}
  PROVE  MainInv'
<1>1. LatestInv'
  BY DEF MainInv, LatestInv
<1>2. ASSUME NEW f \in fetches'
      PROVE  f.counter <= contents.counter /\ (Announced(main, Len(main)) \/ GoodToken(contents, f))
  <2>1. CASE f \in fetches
    BY <2>1 DEF MainInv, TokenInv
  <2>2. CASE f = Fetch(n, contents.counter)
    <3>1. f.user = NoUser /\ f.counter = contents.counter /\ contents.counter \in Nat
      BY <2>2 DEF Fetch, TypeOK
    <3> QED
      BY <3>1 DEF GoodToken
  <2> QED
    BY <2>1, <2>2
<1>3. TokenInv'
  BY <1>2 DEF MainInv, TokenInv
<1> QED
  BY <1>1, <1>3 DEF MainInv

\* How the worker queue moves.
LEMMA TailShifted ==
  ASSUME tasks \in Seq(Tasks), tasks # <<>>, tasks' = Tail(tasks)
  PROVE  Shifted(1) /\ 1 <= Len(tasks)
<1>1. /\ Len(tasks') = Len(tasks) - 1 /\ Len(tasks) \in Nat \ {0}
      /\ \A i \in 1..Len(tasks') : tasks'[i] = tasks[i + 1]
  BY TailType
<1> QED
  BY <1>1 DEF Shifted

LEMMA CancelledShifted ==
  ASSUME tasks \in Seq(Tasks), tasks' = Cancelled(tasks, Completions)
  PROVE  Shifted(0) /\ 0 <= Len(tasks)
<1>1. /\ Len(tasks') = Len(tasks) /\ Len(tasks) \in Nat
      /\ \A i \in 1..Len(tasks) : IF tasks[i].kind \in Completions THEN tasks'[i] = Noop ELSE tasks'[i] = tasks[i]
  BY CancelledType
<1>2. \A i \in 1..Len(tasks) : tasks[i].kind \in Completions =>
         {tasks'[i].kind, tasks[i].kind} \intersect Kinds = {}
  BY <1>1, NoopType DEF Completions, Kinds
<1>3. \A i \in 1..Len(tasks') : tasks'[i] = tasks[i] \/ {tasks'[i].kind, tasks[i].kind} \intersect Kinds = {}
  BY <1>1, <1>2
<1> QED
  BY <1>1, <1>3 DEF Shifted

LEMMA CancelledTailShifted ==
  ASSUME tasks \in Seq(Tasks), tasks # <<>>, tasks' = Cancelled(Tail(tasks), Completions)
  PROVE  Shifted(1) /\ 1 <= Len(tasks)
<1> DEFINE q == Tail(tasks)
<1>1. q \in Seq(Tasks) /\ Len(q) = Len(tasks) - 1 /\ Len(tasks) \in Nat \ {0}
      /\ \A i \in 1..Len(q) : q[i] = tasks[i + 1]
  BY TailType
<1> HIDE DEF q
<1>2. /\ Len(tasks') = Len(q)
      /\ \A i \in 1..Len(q) : IF q[i].kind \in Completions THEN tasks'[i] = Noop ELSE tasks'[i] = q[i]
  BY <1>1, CancelledType DEF q
<1>3. \A i \in 1..Len(q) : q[i].kind \in Completions => {tasks'[i].kind, tasks[i + 1].kind} \intersect Kinds = {}
  BY <1>1, <1>2, NoopType DEF Completions, Kinds
<1>4. \A i \in 1..Len(tasks') :
         tasks'[i] = tasks[i + 1] \/ {tasks'[i].kind, tasks[i + 1].kind} \intersect Kinds = {}
  BY <1>1, <1>2, <1>3
<1> QED
  BY <1>1, <1>2, <1>4 DEF Shifted

LEMMA SameShifted ==
  ASSUME tasks \in Seq(Tasks), UNCHANGED tasks
  PROVE  Shifted(0) /\ 0 <= Len(tasks)
<1>1. Len(tasks) \in Nat
  OBVIOUS
<1> QED
  BY <1>1 DEF Shifted

LEMMA CompletedShifted ==
  ASSUME tasks \in Seq(Tasks), NEW t \in Tasks, t.kind \in Completions, tasks' = Append(tasks, t)
  PROVE  Shifted(0) /\ 0 <= Len(tasks)
<1>1. /\ Len(tasks') = Len(tasks) + 1 /\ tasks'[Len(tasks')] = t /\ Len(tasks) \in Nat
      /\ \A i \in 1..Len(tasks') : i # Len(tasks') => i \in 1..Len(tasks) /\ tasks'[i] = tasks[i]
  BY AppendKept
<1>2. t.kind \notin Kinds
  BY DEF Kinds, Completions
<1> QED
  BY <1>1, <1>2 DEF Shifted

LEMMA FailShifted ==
  ASSUME tasks \in Seq(Tasks), RunFail
  PROVE  Shifted(1) /\ 1 <= Len(tasks)
<1> DEFINE todo == Cancelled(Tail(tasks), Completions)
           t == [kind |-> "finish"]
<1>1. tasks # <<>> /\ tasks' = Append(todo, t)
  BY DEF RunFail, Runs
<1>2. /\ Tail(tasks) \in Seq(Tasks) /\ Len(Tail(tasks)) = Len(tasks) - 1 /\ Len(tasks) \in Nat \ {0}
      /\ \A i \in 1..Len(Tail(tasks)) : Tail(tasks)[i] = tasks[i + 1]
  BY <1>1, TailType
<1>3. /\ todo \in Seq(Tasks) /\ Len(todo) = Len(tasks) - 1
      /\ \A i \in 1..Len(todo) : IF tasks[i + 1].kind \in Completions THEN todo[i] = Noop ELSE todo[i] = tasks[i + 1]
  BY <1>2, CancelledType
<1>4. t.kind = "finish" /\ t \in Tasks
  BY CompletionType
<1> HIDE DEF todo, t
<1>5. /\ Len(tasks') = Len(todo) + 1 /\ tasks'[Len(todo) + 1] = t /\ Len(todo) \in Nat
      /\ \A i \in 1..Len(todo) : tasks'[i] = todo[i]
  BY <1>1, <1>3, <1>4, AppendProperties
<1>6. \A i \in 1..Len(todo) : tasks[i + 1].kind \in Completions =>
         {tasks'[i].kind, tasks[i + 1].kind} \intersect Kinds = {}
  BY <1>3, <1>5, NoopType DEF Completions, Kinds
<1>7. ASSUME NEW i \in 1..Len(tasks')
      PROVE  IF i + 1 <= Len(tasks)
             THEN tasks'[i] = tasks[i + 1] \/ {tasks'[i].kind, tasks[i + 1].kind} \intersect Kinds = {}
             ELSE tasks'[i].kind \notin Kinds
  <2>1. CASE i + 1 <= Len(tasks)
    <3>1. i \in 1..Len(todo)
      BY <1>2, <1>3, <1>5, <2>1
    <3> QED
      BY <1>3, <1>5, <1>6, <2>1, <3>1
  <2>2. CASE ~(i + 1 <= Len(tasks))
    <3>0. /\ Len(todo) = Len(tasks) - 1 /\ Len(tasks') = Len(todo) + 1
          /\ Len(tasks) \in Nat /\ Len(todo) \in Nat
      BY <1>2, <1>3, <1>5
    <3>1. i = Len(todo) + 1
      BY <2>2, <3>0
    <3> QED
      BY <1>4, <1>5, <2>2, <3>1 DEF Kinds
  <2> QED
    BY <2>1, <2>2
<1> QED
  BY <1>2, <1>3, <1>5, <1>7 DEF Shifted

(***************************************************************************)
(* Whose writes.                                                            *)
(***************************************************************************)

OwnedBy(own, q, u) == \A i \in 1..Len(q) : own[q[i]] = u

\* What was sent on a call, but for the handshake.
SentBy(own, sent, u) == \A i \in 2..Len(sent) : own[sent[i]] = u

OwnerInv ==
    /\ \A w \in Write : w > calls => owner[w] = NoUser
    /\ \A u \in User : OwnedBy(owner, queue[u], u)
    /\ IsOpen => call.user = current /\ SentBy(owner, call.sent, current)
    /\ \A s \in stale : OwnedBy(owner, s.rest, s.user)
    /\ OwnUserOnly

UserInv == ForceInv /\ MainInv /\ OwnerInv

LEMMA SameOwner ==
  ASSUME OwnerInv, UNCHANGED <<calls, owner, queue, current, state, stale, applied>>,
         IsOpen => call'.user = call.user /\ call'.sent = call.sent
  PROVE  OwnerInv'
<1>1. IsOpen' = IsOpen
  BY DEF IsOpen
<1>2. OwnUserOnly'
  BY DEF OwnerInv, OwnUserOnly
<1>3. \A s \in stale' : OwnedBy(owner', s.rest, s.user)
  BY DEF OwnerInv
<1> QED
  BY <1>1, <1>2, <1>3 DEF OwnerInv

\* What a call leaves to the server are writes of its user.
LEMMA AbandonedOwner ==
  ASSUME IInv, OwnerInv
  PROVE  \A s \in Abandoned(call) : OwnedBy(owner, s.rest, s.user)
<1> SUFFICES ASSUME call # NoCall, Rest(call) # <<>>
             PROVE  OwnedBy(owner, Rest(call), call.user)
  BY DEF Abandoned
<1>1. IsOpen /\ TypeOK /\ CallInv
  BY DEF IInv, TaskInv
<1>2. /\ call.handled \in Nat /\ call.sent \in Seq(Write \union {Handshake}) /\ Len(call.sent) \in Nat
      /\ call.handled <= Len(call.sent)
  BY <1>1, CallType DEF CallInv
<1>3. call.handled # 0 /\ Rest(call) = SubSeq(call.sent, call.handled + 1, Len(call.sent))
  BY DEF Rest
<1>4. /\ Len(Rest(call)) = Len(call.sent) - call.handled
      /\ \A i \in 1..(Len(call.sent) - call.handled) : Rest(call)[i] = call.sent[call.handled + i]
  <2> DEFINE sent == call.sent
             k == call.handled
  <2>1. sent \in Seq(Write \union {Handshake}) /\ k \in Nat /\ k <= Len(sent)
    BY <1>2
  <2> HIDE DEF sent, k
  <2>2. LET r == SubSeq(sent, k + 1, Len(sent)) IN
        Len(r) = Len(sent) - k /\ \A i \in 1..(Len(sent) - k) : r[i] = sent[k + i]
    BY <2>1, RestOf
  <2> QED
    BY <1>3, <2>2 DEF sent, k
<1>5. call.user = current /\ \A i \in 2..Len(call.sent) : owner[call.sent[i]] = current
  BY <1>1 DEF OwnerInv, SentBy
<1>6. ASSUME NEW i \in 1..Len(Rest(call)) PROVE owner[Rest(call)[i]] = call.user
  <2>1. call.handled + i \in 2..Len(call.sent) /\ i \in 1..(Len(call.sent) - call.handled)
    <3>1. /\ Len(Rest(call)) = Len(call.sent) - call.handled /\ call.handled \in Nat \ {0}
          /\ Len(call.sent) \in Nat
      BY <1>2, <1>3, <1>4
    <3> QED
      BY <3>1
  <2> QED
    BY <1>4, <1>5, <2>1
<1> QED
  BY <1>6 DEF OwnedBy

\* The stream has been closed.
LEMMA ClosedOwner ==
  ASSUME IInv, OwnerInv, ~IsOpen', UNCHANGED <<calls, owner, applied>>,
         stale' \subseteq stale \union Abandoned(call),
         \A u \in User : OwnedBy(owner, queue'[u], u)
  PROVE  OwnerInv'
<1>1. OwnUserOnly'
  BY DEF OwnerInv, OwnUserOnly
<1>2. \A s \in stale' : OwnedBy(owner', s.rest, s.user)
  BY AbandonedOwner DEF OwnerInv
<1> QED
  BY <1>1, <1>2 DEF OwnerInv

LEMMA TailOwned ==
  ASSUME IInv, OwnerInv, queue[current] # <<>>, queue' = [queue EXCEPT ![current] = Tail(@)]
  PROVE  /\ \A u \in User : OwnedBy(owner, queue'[u], u)
         /\ OwnedBy(owner, Tail(queue[current]), current)
<1>1. /\ Len(Tail(queue[current])) = Len(queue[current]) - 1 /\ Len(queue[current]) \in Nat
      /\ \A i \in 1..Len(Tail(queue[current])) : Tail(queue[current])[i] = queue[current][i + 1]
      /\ current \in User
  <2>1. queue[current] \in Seq(Write) /\ current \in User
    BY DEF IInv, TypeOK
  <2> QED
    BY <2>1, QueueTail DEF IInv
<1>2. OwnedBy(owner, Tail(queue[current]), current)
  <2> SUFFICES ASSUME NEW i \in 1..Len(Tail(queue[current])) PROVE owner[Tail(queue[current])[i]] = current
    BY DEF OwnedBy
  <2>1. i + 1 \in 1..Len(queue[current]) /\ Tail(queue[current])[i] = queue[current][i + 1]
    BY <1>1
  <2> QED
    BY <1>1, <2>1 DEF OwnerInv, OwnedBy
<1>3. \A u \in User : queue'[u] = IF u = current THEN Tail(queue[current]) ELSE queue[u]
  BY <1>1 DEF IInv, TypeOK
<1> QED
  BY <1>2, <1>3 DEF OwnerInv

LEMMA PrefixOwned ==
  ASSUME NEW own, NEW p \in Seq(Write), NEW q \in Seq(Write), Prefix(p, q), NEW u, OwnedBy(own, q, u)
  PROVE  OwnedBy(own, p, u)
<1>1. Len(p) \in Nat /\ Len(q) \in Nat
  OBVIOUS
<1> QED
  BY <1>1 DEF Prefix, OwnedBy

\* Requests are added to what has been sent.
LEMMA MoreSent ==
  ASSUME NEW own, NEW sent \in Seq(Write \union {Handshake}), Len(sent) >= 1, NEW u, SentBy(own, sent, u),
         NEW more \in Seq(Write), OwnedBy(own, more, u)
  PROVE  SentBy(own, sent \o more, u)
<1>1. more \in Seq(Write \union {Handshake}) /\ Len(more) \in Nat /\ Len(sent) \in Nat
  BY SeqMonotonic
<1>2. /\ Len(sent \o more) = Len(sent) + Len(more)
      /\ \A i \in 1..(Len(sent) + Len(more)) :
            (sent \o more)[i] = IF i <= Len(sent) THEN sent[i] ELSE more[i - Len(sent)]
  BY <1>1, ConcatProperties
<1> SUFFICES ASSUME NEW i \in 2..Len(sent \o more) PROVE own[(sent \o more)[i]] = u
  BY DEF SentBy
<1>3. CASE i <= Len(sent)
  BY <1>1, <1>2, <1>3 DEF SentBy
<1>4. CASE ~(i <= Len(sent))
  <2>1. i - Len(sent) \in 1..Len(more) /\ (sent \o more)[i] = more[i - Len(sent)]
    BY <1>1, <1>2, <1>4
  <2> QED
    BY <2>1 DEF OwnedBy
<1> QED
  BY <1>3, <1>4

LEMMA RestOwned ==
  ASSUME NEW own, NEW q \in Seq(Write), NEW k \in Nat, k <= Len(q), NEW u, OwnedBy(own, q, u)
  PROVE  SubSeq(q, k + 1, Len(q)) \in Seq(Write) /\ OwnedBy(own, SubSeq(q, k + 1, Len(q)), u)
<1> DEFINE r == SubSeq(q, k + 1, Len(q))
<1>1. r \in Seq(Write) /\ Len(r) = Len(q) - k /\ \A i \in 1..(Len(q) - k) : r[i] = q[k + i]
  BY RestOf
<1> HIDE DEF r
<1>2. ASSUME NEW i \in 1..Len(r) PROVE own[r[i]] = u
  <2>1. k + i \in 1..Len(q) /\ r[i] = q[k + i]
    BY <1>1
  <2> QED
    BY <2>1 DEF OwnedBy
<1> QED
  BY <1>1, <1>2 DEF OwnedBy, r

(***************************************************************************)
(* The main thread and the requests for a token, at every step.             *)
(***************************************************************************)

\* A task of the worker queue, or a timer, asks for one token at most.
LEMMA WorkerRequests ==
  ASSUME Worker
  PROVE  /\ UNCHANGED <<auth, main, contents>>
         /\ \E n : fetches' \subseteq fetches \union {Fetch(n, contents.counter)}
<1> DEFINE Asks(n) == fetches' \subseteq fetches \union {Fetch(n, contents.counter)}
<1>1. ASSUME NEW p, NEW q, NEW s, NEW n, NEW c, FillWritePipeline(p, q, s, n, c) PROVE \E m : Asks(m)
  BY <1>1, FillRequests
<1>2. ASSUME NEW s, NEW n, Start(s, n) PROVE \E m : Asks(m)
  BY <1>2, StartRequests
<1>3. ASSUME UNCHANGED fetches PROVE \E m : Asks(m)
  BY <1>3
<1>4. ASSUME NEW q, NEW todo, RestartNetwork(q, todo) PROVE \E m : Asks(m)
  BY <1>1, <1>4 DEF RestartNetwork
<1>5. ASSUME NEW permanent, NEW todo, CloseWithError(permanent, todo) PROVE \E m : Asks(m)
  BY <1>1, <1>2, <1>3, <1>5 DEF CloseWithError
<1> HIDE DEF Asks
<1>6. CASE RunNoop \/ RunFail \/ IdleElapses
  <2>1. UNCHANGED credentialVars
    BY <1>6 DEF RunNoop, RunFail, IdleElapses
  <2> QED
    BY <1>3, <2>1 DEF credentialVars, Asks
<1>7. CASE RunWrite
  BY <1>1, <1>7 DEF RunWrite, Asks
<1>8. CASE RunCredential
  BY <1>4, <1>8 DEF RunCredential, Asks
<1>9. CASE RunResume
  BY <1>3, <1>5, <1>9 DEF RunResume, Asks
<1>10. CASE RunRead
  BY <1>1, <1>3, <1>10 DEF RunRead, Asks
<1>11. CASE RunFinish
  BY <1>5, <1>11 DEF RunFinish, Asks
<1>12. CASE BackoffElapses
  BY <1>2, <1>12 DEF BackoffElapses, Asks
<1>13. CASE ConnectivityChanges
  BY <1>4, <1>13 DEF ConnectivityChanges, Asks
<1> QED
  BY <1>6, <1>7, <1>8, <1>9, <1>10, <1>11, <1>12, <1>13 DEF Worker

LEMMA MainStep == TypeOK /\ MainInv /\ [Next]_vars => MainInv'
<1> SUFFICES ASSUME TypeOK, MainInv, [Next]_vars PROVE MainInv'
  OBVIOUS
<1>1. CASE UNCHANGED <<auth, main, contents, fetches>>
  <2>1. fetches' \subseteq fetches \union {Fetch(closes, contents.counter)}
    BY <1>1
  <2> QED
    BY <1>1, <2>1, RequestedMain
<1>2. CASE MainThread
  <2>1. CASE WriteMutations
    BY <1>1, <2>1 DEF WriteMutations, credentialVars
  <2> QED
    BY <1>2, <2>1, AnnounceMain, TakeTokenMain, SignInMain, BeginTokenMain, AnswerTokenMain DEF MainThread
<1>3. CASE Network \/ UNCHANGED vars
  <2>1. UNCHANGED credentialVars
    BY <1>3 DEF Network, Handle, Refuse, Lose, CompleteRead, FailOperation, HandleStale, vars
  <2> QED
    BY <1>1, <2>1 DEF credentialVars
<1>4. CASE Worker
  <2>1. PICK n : fetches' \subseteq fetches \union {Fetch(n, contents.counter)}
    BY <1>4, WorkerRequests
  <2>2. UNCHANGED <<auth, main, contents>>
    BY <1>4, WorkerRequests
  <2> QED
    BY <2>1, <2>2, RequestedMain
<1>5. CASE Kill
  <2>1. /\ main' = <<>> /\ contents'.user = auth' /\ contents'.counter = 0
        /\ \A f \in fetches' : f.user = NoUser /\ f.counter = 0
    BY <1>5 DEF Kill, Fetch
  <2>2. Len(main') = 0
    BY <2>1
  <2>3. LatestInv'
    BY <2>1, <2>2 DEF LatestInv
  <2>4. TokenInv'
    BY <2>1, <2>2 DEF TokenInv, GoodToken
  <2> QED
    BY <2>3, <2>4 DEF MainInv
<1> QED
  BY <1>2, <1>3, <1>4, <1>5 DEF Next

(***************************************************************************)
(* The worker queue, at every step.                                         *)
(***************************************************************************)

LEMMA WriteMutationsForce ==
  ASSUME Invariant, ForceInv, WriteMutations
  PROVE  ForceInv'
<1> DEFINE t == [kind |-> "write", write |-> calls + 1]
<1>1. /\ tasks \in Seq(Tasks) /\ calls \in Nat /\ calls + 1 \in Write /\ contents.user \in User
      /\ owner \in [Write -> User \union {NoUser}]
  BY ConstantsAssumption DEF Invariant, IInv, TypeOK, WriteMutations, Write
<1>2. t \in Tasks /\ t.kind = "write" /\ t.write = calls + 1
  BY <1>1 DEF Tasks
<1>3. /\ tasks' = Append(tasks, t) /\ UNCHANGED <<current, contents>>
      /\ owner' = [owner EXCEPT ![calls + 1] = contents.user]
  BY DEF WriteMutations, credentialVars
<1>4. \A j \in 1..Len(tasks) : tasks[j].kind = "write" => owner'[tasks[j].write] = owner[tasks[j].write]
  <2> SUFFICES ASSUME NEW j \in 1..Len(tasks), tasks[j].kind = "write"
               PROVE  owner'[tasks[j].write] = owner[tasks[j].write]
    OBVIOUS
  <2>1. tasks[j] \in Tasks
    BY <1>1
  <2>2. tasks[j].write \in Write /\ tasks[j].write <= calls
    BY <2>1 DEF Tasks, Invariant, IInv, QueueInv
  <2>3. tasks[j].write # calls + 1
    BY <1>1, <2>2 DEF Write
  <2> QED
    BY <1>1, <1>3, <2>2, <2>3
<1>5. UserOf(owner', t) = contents.user
  BY <1>1, <1>2, <1>3 DEF UserOf
<1> HIDE DEF t
<1> QED
  BY <1>1, <1>2, <1>3, <1>4, <1>5, AppendedForce

LEMMA AnnounceForce ==
  ASSUME Invariant, ForceInv, Announce
  PROVE  ForceInv'
<1> DEFINE t == [kind |-> "credential", user |-> Head(main).user]
<1>1. tasks \in Seq(Tasks) /\ main # <<>> /\ Head(main).user \in User
  BY HeadMessage DEF Invariant, IInv, TypeOK, Announce
<1>2. t \in Tasks /\ t.kind = "credential" /\ t.user = Head(main).user /\ ~Personal(t)
  BY <1>1 DEF Tasks, Personal
<1>3. tasks' = Append(tasks, t) /\ UNCHANGED <<current, owner>> /\ contents'.user = t.user
  BY <1>2 DEF Announce, appVars
<1> HIDE DEF t
<1> QED
  BY <1>1, <1>2, <1>3, AppendedForce

LEMMA TakeTokenForce ==
  ASSUME Invariant, ForceInv, MainInv, TakeToken
  PROVE  ForceInv'
<1> DEFINE f == Head(main).fetch
           t == [kind |-> "resume", closes |-> f.closes, user |-> f.user]
<1>1. /\ TypeOK /\ tasks \in Seq(Tasks) /\ f \in Fetches /\ GoodToken(contents, f)
      /\ UNCHANGED <<current, contents, owner>>
  BY HeadMessage, TakeTokenMain DEF Invariant, IInv, TypeOK, TakeToken, appVars
<1>2. CASE UNCHANGED tasks
  <2>1. Shifted(0) /\ 0 <= Len(tasks) /\ tasks' \in Seq(Tasks)
    BY <1>1, <1>2, SameShifted
  <2> QED
    BY <1>1, <2>1, ShiftedForce
<1>3. CASE tasks' = Append(tasks, t) /\ f.counter = contents.counter
  <2>1. t \in Tasks /\ t.kind = "resume" /\ t.user = f.user
    BY <1>1 DEF Tasks, Fetches
  <2>2. Personal(t) => UserOf(owner', t) = contents.user
    BY <1>1, <1>3, <2>1 DEF Personal, UserOf, GoodToken
  <2> HIDE DEF t
  <2> QED
    BY <1>1, <1>3, <2>1, <2>2, AppendedForce
<1> QED
  BY <1>2, <1>3 DEF TakeToken

LEMMA SameForce ==
  ASSUME Invariant, ForceInv, UNCHANGED <<tasks, current, owner, contents>>
  PROVE  ForceInv'
<1>1. Shifted(0) /\ 0 <= Len(tasks) /\ tasks' \in Seq(Tasks) /\ tasks \in Seq(Tasks)
  BY SameShifted DEF Invariant, IInv, TypeOK
<1> QED
  BY <1>1, ShiftedForce

LEMMA NetworkForce ==
  ASSUME Invariant, ForceInv, Network
  PROVE  ForceInv'
<1>1. UNCHANGED <<current, owner, contents>> /\ tasks \in Seq(Tasks)
  BY DEF Network, Handle, Refuse, Lose, CompleteRead, FailOperation, HandleStale, credentialVars, appVars,
         Invariant, IInv, TypeOK
<1>2. UNCHANGED tasks \/ \E k \in {"read", "fail"} : tasks' = Append(tasks, [kind |-> k])
  BY DEF Network, Handle, Refuse, Lose, CompleteRead, FailOperation, HandleStale
<1>3. ASSUME NEW k \in {"read", "fail"}, tasks' = Append(tasks, [kind |-> k])
      PROVE  ForceInv'
  <2> DEFINE t == [kind |-> k]
  <2>1. t \in Tasks /\ t.kind \in Completions /\ tasks' = Append(tasks, t)
    BY <1>3, CompletionType DEF Completions
  <2> HIDE DEF t
  <2>2. Shifted(0) /\ 0 <= Len(tasks) /\ tasks' \in Seq(Tasks)
    BY <1>1, <2>1, CompletedShifted, AppendKept
  <2> QED
    BY <1>1, <2>2, ShiftedForce
<1> QED
  BY <1>1, <1>2, <1>3, SameForce

LEMMA WorkerForce ==
  ASSUME Invariant, ForceInv, Worker, tasks' \in Seq(Tasks)
  PROVE  ForceInv'
<1>1. tasks \in Seq(Tasks) /\ IInv
  BY DEF Invariant, IInv, TypeOK
<1>2. UNCHANGED <<owner, contents>>
  BY DEF Worker, RunNoop, RunWrite, RunCredential, RunResume, RunRead, RunFail, RunFinish, BackoffElapses,
         IdleElapses, ConnectivityChanges, credentialVars, appVars
<1>3. CASE /\ tasks # <<>>
           /\ tasks' = Tail(tasks) \/ tasks' = Cancelled(Tail(tasks), Completions) \/ RunFail
           /\ Head(tasks).kind # "credential" /\ UNCHANGED current
  <2>1. Shifted(1) /\ 1 <= Len(tasks)
    BY <1>1, <1>3, TailShifted, CancelledTailShifted, FailShifted
  <2>2. tasks[1].kind # "credential"
    BY <1>1, <1>3, TailType
  <2> QED
    BY <1>1, <1>2, <1>3, <2>1, <2>2, ShiftedForce
<1>4. CASE (UNCHANGED tasks \/ tasks' = Cancelled(tasks, Completions)) /\ UNCHANGED current
  <2>1. Shifted(0) /\ 0 <= Len(tasks)
    BY <1>1, <1>4, SameShifted, CancelledShifted
  <2> QED
    BY <1>1, <1>2, <1>4, <2>1, ShiftedForce
<1>5. CASE RunCredential
  <2>1. /\ tasks # <<>> /\ Head(tasks).kind = "credential" /\ current' = Head(tasks).user
        /\ tasks' = Cancelled(Tail(tasks), Completions)
    BY <1>5 DEF RunCredential, Runs, RestartNetwork
  <2>2. Shifted(1) /\ 1 <= Len(tasks) /\ Head(tasks) = tasks[1]
    BY <1>1, <2>1, TailType, CancelledTailShifted
  <2> QED
    BY <1>1, <1>2, <2>1, <2>2, ShiftedForce
<1>6. CASE RunNoop \/ RunWrite \/ RunRead
  <2>1. /\ tasks # <<>> /\ tasks' = Tail(tasks) /\ Head(tasks).kind # "credential" /\ UNCHANGED current
    BY <1>6 DEF RunNoop, RunWrite, RunRead, Runs
  <2> QED
    BY <1>3, <2>1
<1>7. CASE RunResume \/ RunFinish
  <2>1. /\ tasks # <<>> /\ Head(tasks).kind # "credential" /\ UNCHANGED current
        /\ tasks' = Tail(tasks) \/ tasks' = Cancelled(Tail(tasks), Completions)
    BY <1>7 DEF RunResume, RunFinish, Runs, CloseWithError
  <2> QED
    BY <1>3, <2>1
<1>8. CASE RunFail
  <2>1. tasks # <<>> /\ Head(tasks).kind # "credential" /\ UNCHANGED current
    BY <1>8 DEF RunFail, Runs
  <2> QED
    BY <1>3, <1>8, <2>1
<1>9. CASE BackoffElapses \/ IdleElapses \/ ConnectivityChanges
  BY <1>4, <1>9 DEF BackoffElapses, IdleElapses, ConnectivityChanges, RestartNetwork
<1> QED
  BY <1>5, <1>6, <1>7, <1>8, <1>9 DEF Worker

LEMMA EmptyForce ==
  ASSUME Len(tasks) = 0, current = contents.user
  PROVE  ForceInv
<1>1. InForce(tasks, current, Len(tasks) + 1, contents.user)
  BY DEF InForce
<1> QED
  BY <1>1 DEF ForceInv

LEMMA ForceStep == Invariant /\ ForceInv /\ MainInv /\ tasks' \in Seq(Tasks) /\ [Next]_vars => ForceInv'
<1> SUFFICES ASSUME Invariant, ForceInv, MainInv, tasks' \in Seq(Tasks), [Next]_vars PROVE ForceInv'
  OBVIOUS
<1>1. CASE MainThread
  <2>1. ASSUME (\E u \in User : SignIn(u)) \/ (\E f \in fetches : BeginToken(f) \/ AnswerToken(f))
        PROVE  ForceInv'
    <3>1. UNCHANGED <<tasks, current, owner, contents>>
      BY <2>1 DEF SignIn, BeginToken, AnswerToken, appVars
    <3> QED
      BY <3>1, SameForce
  <2> QED
    BY <1>1, <2>1, WriteMutationsForce, AnnounceForce, TakeTokenForce DEF MainThread
<1>2. CASE Network
  BY <1>2, NetworkForce
<1>3. CASE Worker
  BY <1>3, WorkerForce
<1>4. CASE Kill
  <2>1. tasks' = <<>> /\ current' = contents'.user
    BY <1>4 DEF Kill
  <2>2. Len(tasks') = 0
    BY <2>1
  <2>3. InForce(tasks', current', Len(tasks') + 1, contents'.user)
    BY <2>1, <2>2 DEF InForce
  <2> QED
    BY <2>2, <2>3 DEF ForceInv
<1>5. CASE UNCHANGED vars
  BY <1>5, SameForce DEF vars, credentialVars, appVars
<1> QED
  BY <1>1, <1>2, <1>3, <1>4, <1>5 DEF Next

(***************************************************************************)
(* The owners, at every step.                                               *)
(***************************************************************************)

\* The writes of an open call.
LEMMA SentWrites ==
  ASSUME IInv, IsOpen
  PROVE  /\ call \in Call /\ call.sent \in Seq(Write \union {Handshake}) /\ Len(call.sent) \in Nat \ {0}
         /\ HandshakeFirst(call.sent) /\ \A i \in 2..Len(call.sent) : call.sent[i] \in Write
<1>1. call # NoCall /\ HandshakeFirst(call.sent) /\ TypeOK
  BY DEF IInv, TaskInv, CallInv
<1>2. call \in Call /\ call.sent \in Seq(Write \union {Handshake}) /\ Len(call.sent) \in Nat
  BY <1>1, CallType DEF TypeOK
<1>3. Len(call.sent) # 0
  <2>1. CASE handshake
    <3>1. 1 <= call.taken /\ call.taken <= call.handled /\ call.handled <= Len(call.sent)
      BY <2>1 DEF IInv, CallInv
    <3>2. call.taken \in Nat /\ call.handled \in Nat
      BY <1>1, CallType
    <3> QED
      BY <1>2, <3>1, <3>2
  <2>2. CASE ~handshake
    <3>1. Len(call.sent) = 1
      BY <2>2 DEF IInv, CallInv
    <3> QED
      BY <3>1
  <2> QED
    BY <2>1, <2>2
<1>4. ASSUME NEW i \in 2..Len(call.sent) PROVE call.sent[i] \in Write
  <2>1. i \in 1..Len(call.sent) /\ i # 1
    BY <1>2
  <2>2. call.sent[i] \in Write \union {Handshake} /\ call.sent[i] # Handshake
    BY <1>1, <1>2, <2>1 DEF HandshakeFirst
  <2> QED
    BY <2>2
<1> QED
  BY <1>1, <1>2, <1>3, <1>4

LEMMA WriteMutationsOwner ==
  ASSUME IInv, OwnerInv, WriteMutations
  PROVE  OwnerInv'
<1>1. /\ calls' = calls + 1 /\ owner' = [owner EXCEPT ![calls + 1] = contents.user]
      /\ UNCHANGED <<queue, current, state, call, stale, applied>>
  BY DEF WriteMutations, storeVars, streamVars, serverVars
<1>2. /\ calls \in Nat /\ owner \in [Write -> User \union {NoUser}] /\ current \in User
      /\ queue \in [User -> Seq(Write)] /\ stale \subseteq Stales /\ applied \subseteq Write \X User
      /\ Write \subseteq Nat
  BY WriteNat DEF IInv, TypeOK, Stales
<1>3. ASSUME NEW w \in Write, owner[w] \in User PROVE owner'[w] = owner[w]
  <2>1. ~(w > calls)
    BY <1>3, ConstantsAssumption DEF OwnerInv
  <2>2. w # calls + 1
    BY <1>2, <2>1
  <2> QED
    BY <1>1, <1>2, <2>2
<1>4. \A w \in Write : w > calls' => owner'[w] = NoUser
  <2> SUFFICES ASSUME NEW w \in Write, w > calls + 1 PROVE owner'[w] = NoUser
    BY <1>1
  <2>1. w > calls /\ w # calls + 1
    BY <1>2
  <2> QED
    BY <1>1, <1>2, <2>1 DEF OwnerInv
<1>5. ASSUME NEW u \in User, NEW q \in Seq(Write), OwnedBy(owner, q, u) PROVE OwnedBy(owner', q, u)
  <2> SUFFICES ASSUME NEW i \in 1..Len(q) PROVE owner'[q[i]] = u
    BY DEF OwnedBy
  <2>1. q[i] \in Write /\ owner[q[i]] = u
    BY <1>5 DEF OwnedBy
  <2> QED
    BY <1>3, <2>1
<1>6. \A u \in User : OwnedBy(owner', queue'[u], u)
  BY <1>1, <1>2, <1>5 DEF OwnerInv
<1>7. ASSUME IsOpen PROVE call.user = current /\ SentBy(owner', call.sent, current)
  <2> SUFFICES ASSUME NEW i \in 2..Len(call.sent) PROVE owner'[call.sent[i]] = current
    BY <1>7 DEF OwnerInv, SentBy
  <2>1. call.sent[i] \in Write
    BY <1>7, SentWrites
  <2>2. owner[call.sent[i]] = current
    BY <1>7 DEF OwnerInv, SentBy
  <2> QED
    BY <1>2, <1>3, <2>1, <2>2
<1>8. \A s \in stale' : OwnedBy(owner', s.rest, s.user)
  <2> SUFFICES ASSUME NEW s \in stale PROVE OwnedBy(owner', s.rest, s.user)
    BY <1>1
  <2>1. s.user \in User /\ s.rest \in Seq(Write)
    BY <1>2 DEF Stales
  <2> QED
    BY <1>5, <2>1 DEF OwnerInv
<1>9. OwnUserOnly'
  <2> SUFFICES ASSUME NEW a \in applied PROVE a[2] = owner'[a[1]]
    BY <1>1 DEF OwnUserOnly
  <2>1. a[1] \in Write /\ a[2] \in User /\ a[2] = owner[a[1]]
    BY <1>2 DEF OwnerInv, OwnUserOnly
  <2> QED
    BY <1>3, <2>1
<1> QED
  BY <1>1, <1>4, <1>6, <1>7, <1>8, <1>9 DEF OwnerInv, IsOpen

LEMMA HandleOwner ==
  ASSUME IInv, OwnerInv, Handle
  PROVE  OwnerInv'
<1>1. /\ Live /\ call' = [call EXCEPT !.handled = @ + 1]
      /\ applied' = IF NextRequest = Handshake THEN applied ELSE applied \union {<<NextRequest, call.user>>}
      /\ UNCHANGED <<calls, owner, queue, current, state, stale>>
  BY DEF Handle, appVars, storeVars
<1>2. call # NoCall /\ IsOpen /\ call \in Call
  BY <1>1, SentWrites DEF Live, IInv, TaskInv
<1>3. call'.user = call.user /\ call'.sent = call.sent
  BY <1>1, <1>2 DEF Call
<1>4. ASSUME NextRequest # Handshake PROVE owner[NextRequest] = call.user
  <2>1. call.handled + 1 \in 1..Len(call.sent) /\ call.handled + 1 # 1
    BY <1>1, <1>2, <1>4, NextRequestType, SentWrites DEF IInv, NextRequest, HandshakeFirst
  <2>2. call.handled + 1 \in 2..Len(call.sent)
    BY <2>1
  <2> QED
    BY <1>2, <2>2 DEF OwnerInv, SentBy, NextRequest
<1>5. OwnUserOnly'
  BY <1>1, <1>4 DEF OwnerInv, OwnUserOnly
<1> QED
  BY <1>1, <1>3, <1>5 DEF OwnerInv, IsOpen

LEMMA LoseOwner ==
  ASSUME IInv, OwnerInv, Lose
  PROVE  OwnerInv'
<1>1. /\ call # NoCall /\ call' = [call EXCEPT !.status = "transient"] /\ stale' = stale \union Abandoned(call)
      /\ UNCHANGED <<calls, owner, queue, current, state, applied>>
  BY DEF Lose, appVars, storeVars
<1>2. call \in Call
  BY <1>1 DEF IInv, TypeOK
<1>3. call'.user = call.user /\ call'.sent = call.sent
  BY <1>1, <1>2 DEF Call
<1>4. \A s \in stale' : OwnedBy(owner, s.rest, s.user)
  BY <1>1, AbandonedOwner DEF OwnerInv
<1> QED
  BY <1>1, <1>3, <1>4 DEF OwnerInv, IsOpen, OwnUserOnly

LEMMA HandleStaleOwner ==
  ASSUME IInv, OwnerInv, NEW s \in stale, HandleStale(s)
  PROVE  OwnerInv'
<1> DEFINE r == s.rest
           t == [s EXCEPT !.rest = Tail(@)]
<1>1. /\ applied' = applied \union {<<Head(r), s.user>>}
      /\ stale' \subseteq stale \union {t}
      /\ UNCHANGED <<calls, owner, queue, current, state, call>>
  BY DEF HandleStale, appVars, storeVars, streamVars
<1>2. s \in Stales /\ r \in Seq(Write) /\ r # <<>> /\ OwnedBy(owner, r, s.user)
  BY DEF IInv, TypeOK, Stales, OwnerInv
<1>3. t.user = s.user /\ t.rest = Tail(r)
  BY <1>2 DEF Stales
<1> HIDE DEF r, t
<1>4. /\ Head(r) = r[1] /\ Len(r) \in Nat \ {0} /\ Len(Tail(r)) = Len(r) - 1
      /\ \A i \in 1..Len(Tail(r)) : Tail(r)[i] = r[i + 1]
  BY <1>2, HeadTailProperties, EmptySeq
<1>5. owner[Head(r)] = s.user
  BY <1>2, <1>4 DEF OwnedBy
<1>6. OwnedBy(owner, Tail(r), s.user)
  <2> SUFFICES ASSUME NEW i \in 1..Len(Tail(r)) PROVE owner[Tail(r)[i]] = s.user
    BY DEF OwnedBy
  <2>1. i + 1 \in 1..Len(r) /\ Tail(r)[i] = r[i + 1]
    BY <1>4
  <2> QED
    BY <1>2, <2>1 DEF OwnedBy
<1>7. OwnUserOnly'
  BY <1>1, <1>5 DEF OwnerInv, OwnUserOnly
<1>8. \A x \in stale' : OwnedBy(owner, x.rest, x.user)
  BY <1>1, <1>3, <1>6 DEF OwnerInv
<1> QED
  BY <1>1, <1>7, <1>8 DEF OwnerInv, IsOpen

\* The pipeline is filled on a stream that goes on.
LEMMA FilledOwner ==
  ASSUME IInv, OwnerInv, NEW p \in Seq(Write), NEW q \in Seq(Write), Prefix(p, q), Increasing(q),
         Len(p) <= MaxPendingWrites, OwnedBy(owner, q, current),
         NEW c, FillWritePipeline(p, q, state, closes, c),
         IsOpen => c \in Call /\ c.user = current /\ c.sent = call.sent
  PROVE  IsOpen' => call'.user = current /\ SentBy(owner, call'.sent, current)
<1> SUFFICES ASSUME IsOpen' PROVE call'.user = current /\ SentBy(owner, call'.sent, current)
  OBVIOUS
<1> DEFINE new == SubSeq(pipeline', Len(p) + 1, Len(pipeline'))
<1>1. TypeOK /\ state \in States /\ closes \in Nat /\ Len(p) \in Nat
  BY SMTT(20) DEF IInv, TypeOK, States
<1>2. /\ pipeline' \in Seq(Write) /\ Prefix(pipeline', q) /\ Prefix(p, pipeline') /\ state = "Open"
      /\ call' = [c EXCEPT !.sent = @ \o new] \/ call' = c
  BY <1>1, FillEffect
<1>3. /\ c \in Call /\ c.user = current /\ c.sent = call.sent /\ SentBy(owner, c.sent, current)
      /\ c.sent \in Seq(Write \union {Handshake}) /\ Len(c.sent) >= 1
  BY <1>2, SentWrites DEF IsOpen, OwnerInv
<1>4. Len(p) <= Len(pipeline') /\ OwnedBy(owner, pipeline', current)
  BY <1>2, PrefixOwned DEF Prefix
<1>5. new \in Seq(Write) /\ OwnedBy(owner, new, current)
  BY <1>1, <1>2, <1>4, RestOwned
<1> HIDE DEF new
<1>6. SentBy(owner, c.sent \o new, current)
  BY <1>3, <1>5, MoreSent
<1>7. CASE call' = c
  BY <1>3, <1>7
<1>8. CASE call' = [c EXCEPT !.sent = @ \o new]
  <2>1. call'.user = c.user /\ call'.sent = c.sent \o new
    BY <1>3, <1>8 DEF Call
  <2> QED
    BY <1>3, <1>6, <2>1
<1> QED
  BY <1>2, <1>7, <1>8

LEMMA RunWriteOwner ==
  ASSUME IInv, OwnerInv, ForceInv, RunWrite
  PROVE  OwnerInv'
<1> DEFINE w == Head(tasks).write
           q == Append(queue[current], w)
<1>1. /\ Runs("write") /\ queue' = [queue EXCEPT ![current] = q]
      /\ FillWritePipeline(pipeline, q, state, closes, call)
      /\ UNCHANGED <<calls, owner, current, stale, applied>>
  BY DEF RunWrite, appVars, serverVars
<1>2. /\ TypeOK /\ current \in User /\ queue[current] \in Seq(Write) /\ pipeline \in Seq(Write)
      /\ Len(queue[current]) \in Nat
  BY DEF IInv, TypeOK
<1>3. /\ Head(tasks) \in Tasks /\ Head(tasks).kind = "write" /\ Head(tasks) = tasks[1] /\ 1 \in 1..Len(tasks)
  BY <1>1, HeadTask
<1>4. w \in Write
  BY <1>3 DEF Tasks
<1>5. owner[w] = current
  <2>1. InForce(tasks, current, 1, owner[w])
    BY <1>3 DEF ForceInv, Personal, UserOf
  <2> QED
    BY <2>1 DEF InForce
<1>6. \A i \in 1..Len(queue[current]) : queue[current][i] < w
  BY <1>2, <1>3 DEF IInv, QueueInv
<1> HIDE DEF w
<1>7. /\ q \in Seq(Write) /\ Len(q) = Len(queue[current]) + 1 /\ q[Len(queue[current]) + 1] = w
      /\ \A i \in 1..Len(queue[current]) : q[i] = queue[current][i]
  BY <1>2, <1>4, AppendProperties
<1> HIDE DEF q
<1>8. Increasing(q)
  <2>1. Increasing(queue[current])
    BY <1>2 DEF IInv, QueueInv
  <2> QED
    BY <1>2, <1>6, <1>7, <2>1, AppendIncreasing
<1>9. Prefix(pipeline, q) /\ Len(pipeline) <= MaxPendingWrites
  <2>1. Prefix(pipeline, queue[current]) /\ Len(pipeline) \in Nat /\ Len(pipeline) <= MaxPendingWrites
    BY <1>2 DEF IInv, PipeInv
  <2> QED
    BY <1>2, <1>7, <2>1 DEF Prefix
<1>10. OwnedBy(owner, q, current)
  <2> SUFFICES ASSUME NEW i \in 1..Len(q) PROVE owner[q[i]] = current
    BY DEF OwnedBy
  <2>1. CASE i \in 1..Len(queue[current])
    <3>1. q[i] = queue[current][i] /\ OwnedBy(owner, queue[current], current)
      BY <1>2, <1>7, <2>1 DEF OwnerInv
    <3> QED
      BY <2>1, <3>1 DEF OwnedBy
  <2>2. CASE i = Len(queue[current]) + 1
    BY <1>5, <1>7, <2>2
  <2> QED
    BY <1>2, <1>7, <2>1, <2>2
<1>11. IsOpen => call \in Call /\ call.user = current /\ call.sent = call.sent
  BY SentWrites DEF OwnerInv
<1>12. IsOpen' => call'.user = current /\ SentBy(owner, call'.sent, current)
  BY <1>1, <1>2, <1>7, <1>8, <1>9, <1>10, <1>11, FilledOwner
<1>13. \A u \in User : OwnedBy(owner, queue'[u], u)
  <2>1. \A u \in User : queue'[u] = IF u = current THEN q ELSE queue[u]
    BY <1>1, <1>2 DEF TypeOK
  <2> QED
    BY <1>10, <2>1 DEF OwnerInv
<1>14. OwnUserOnly'
  BY <1>1 DEF OwnerInv, OwnUserOnly
<1> QED
  BY <1>1, <1>12, <1>13, <1>14 DEF OwnerInv

LEMMA RunReadOwner ==
  ASSUME IInv, OwnerInv, RunRead
  PROVE  OwnerInv'
<1> DEFINE c == [call EXCEPT !.taken = @ + 1]
<1>1. Runs("read") /\ UNCHANGED <<calls, owner, current, stale, applied>>
  BY DEF RunRead, appVars, serverVars
<1>2. /\ IsOpen /\ call \in Call /\ call.user = current /\ SentBy(owner, call.sent, current)
      /\ call.sent \in Seq(Write \union {Handshake}) /\ Len(call.sent) >= 1
  BY <1>1, HeadTask, SentWrites DEF Completions, OwnerInv
<1>3. c \in Call /\ c.user = current /\ c.sent = call.sent
  BY <1>2 DEF Call
<1>4. /\ TypeOK /\ current \in User /\ pipeline \in Seq(Write) /\ queue[current] \in Seq(Write)
      /\ OwnedBy(owner, queue[current], current) /\ Prefix(pipeline, queue[current])
  BY DEF IInv, TypeOK, OwnerInv, PipeInv
<1>5. OwnUserOnly'
  BY <1>1 DEF OwnerInv, OwnUserOnly
<1> HIDE DEF c
<1>6. CASE call' = [c EXCEPT !.sent = @ \o pipeline] /\ UNCHANGED <<state, storeVars>>
  <2>1. OwnedBy(owner, pipeline, current)
    BY <1>4, PrefixOwned
  <2>2. SentBy(owner, call.sent \o pipeline, current)
    BY <1>2, <1>4, <2>1, MoreSent
  <2>3. call'.user = current /\ call'.sent = call.sent \o pipeline
    BY <1>3, <1>6 DEF Call
  <2> QED
    BY <1>1, <1>5, <1>6, <2>2, <2>3 DEF OwnerInv, storeVars
<1>7. CASE /\ handshake /\ Settle("acked")
           /\ FillWritePipeline(Tail(pipeline), Tail(queue[current]), state, closes, c)
  <2>1. call # NoCall /\ call.taken < call.handled
    BY <1>1, <1>7, HeadTask DEF Completions, IInv, CallInv, Queued
  <2>2. pipeline # <<>>
    BY <1>7, <2>1, AnsweredInStep
  <2> DEFINE p == Tail(pipeline)
             q == Tail(queue[current])
  <2>3. /\ queue[current] # <<>> /\ p \in Seq(Write) /\ Prefix(p, q) /\ Len(p) <= MaxPendingWrites
        /\ q \in Seq(Write) /\ Increasing(q)
    BY <1>4, <2>2, SettledPrefix, QueueTail DEF IInv
  <2>4. queue' = [queue EXCEPT ![current] = Tail(@)]
    BY <1>7 DEF Settle
  <2>5. OwnedBy(owner, q, current) /\ \A u \in User : OwnedBy(owner, queue'[u], u)
    BY <2>3, <2>4, TailOwned
  <2>6. FillWritePipeline(p, q, state, closes, c)
    BY <1>7
  <2> HIDE DEF p, q
  <2>7. IsOpen' => call'.user = current /\ SentBy(owner, call'.sent, current)
    BY <1>3, <2>3, <2>5, <2>6, FilledOwner
  <2> QED
    BY <1>1, <1>5, <2>5, <2>7 DEF OwnerInv
<1> QED
  BY <1>6, <1>7 DEF RunRead, c

LEMMA CloseOwner ==
  ASSUME IInv, OwnerInv, tasks # <<>>, NEW permanent, CloseWithError(permanent, Tail(tasks)),
         UNCHANGED <<calls, owner, current, applied>>
  PROVE  OwnerInv'
<1>1. Closed(1)
  BY CloseEffect
<1>2. ~IsOpen'
  BY <1>1 DEF Closed, TaskInv
<1>3. stale' \subseteq stale \union Abandoned(call)
  BY DEF CloseWithError
<1>4. \A u \in User : OwnedBy(owner, queue'[u], u)
  <2>1. CASE UNCHANGED queue
    BY <2>1 DEF OwnerInv
  <2>2. CASE pipeline # <<>> /\ queue' = [queue EXCEPT ![current] = Tail(@)]
    BY <2>2, SettledPrefix, TailOwned
  <2> QED
    BY <2>1, <2>2 DEF CloseWithError, Settle, storeVars
<1> QED
  BY <1>2, <1>3, <1>4, ClosedOwner

LEMMA RunResumeOwner ==
  ASSUME IInv, OwnerInv, ForceInv, RunResume
  PROVE  OwnerInv'
<1> DEFINE t == Head(tasks)
<1>1. Runs("resume") /\ UNCHANGED <<calls, owner, current, applied>>
  BY DEF RunResume, appVars
<1>2. /\ t \in Tasks /\ t.kind = "resume" /\ t = tasks[1] /\ 1 \in 1..Len(tasks) /\ tasks # <<>>
  BY <1>1, HeadTask
<1>3. OwnUserOnly'
  BY <1>1 DEF OwnerInv, OwnUserOnly
<1>4. CASE UNCHANGED <<streamVars, storeVars, stale>>
  BY <1>1, <1>4, SameOwner DEF streamVars, storeVars
<1>5. CASE t.user # NoUser /\ call' = NewCall(t.user) /\ UNCHANGED <<storeVars, stale>>
  <2>1. t.user = current
    <3>1. InForce(tasks, current, 1, t.user)
      BY <1>2, <1>5 DEF ForceInv, Personal, UserOf
    <3> QED
      BY <3>1 DEF InForce
  <2>2. call'.user = current /\ call'.sent = <<Handshake>>
    BY <1>5, <2>1 DEF NewCall
  <2>3. SentBy(owner, call'.sent, current)
    <3>1. Len(call'.sent) = 1
      BY <2>2
    <3> QED
      BY <3>1 DEF SentBy
  <2> QED
    BY <1>1, <1>3, <1>5, <2>2, <2>3 DEF OwnerInv, storeVars
<1>6. CASE CloseWithError(FALSE, Tail(tasks))
  BY <1>1, <1>2, <1>6, CloseOwner
<1> QED
  BY <1>4, <1>5, <1>6 DEF RunResume

LEMMA StoppedOwner ==
  ASSUME IInv, OwnerInv,
         RunCredential \/ ConnectivityChanges \/ IdleElapses \/ BackoffElapses \/ Kill
  PROVE  OwnerInv'
<1>1. ~IsOpen'
  <2>1. ASSUME NEW q, NEW todo, RestartNetwork(q, todo) PROVE ~IsOpen'
    BY <2>1 DEF RestartNetwork, FillWritePipeline, Start, IsOpen, Started
  <2> QED
    BY <2>1 DEF RunCredential, ConnectivityChanges, IdleElapses, BackoffElapses, Kill, Start, IsOpen
<1>2. UNCHANGED <<calls, owner, applied, queue>> /\ stale' \subseteq stale \union Abandoned(call)
  BY DEF RunCredential, ConnectivityChanges, IdleElapses, BackoffElapses, Kill, RestartNetwork,
         appVars, storeVars, serverVars
<1> QED
  BY <1>1, <1>2, ClosedOwner DEF OwnerInv

LEMMA OwnerStep == IInv /\ OwnerInv /\ ForceInv /\ [Next]_vars => OwnerInv'
<1> SUFFICES ASSUME IInv, OwnerInv, ForceInv, [Next]_vars PROVE OwnerInv'
  OBVIOUS
<1>1. ASSUME UNCHANGED <<calls, owner, queue, current, state, stale, applied>>,
             IsOpen => call'.user = call.user /\ call'.sent = call.sent
      PROVE  OwnerInv'
  BY <1>1, SameOwner
<1>2. ASSUME call \in Call, NEW k, call' = [call EXCEPT !.status = k] \/ call' = [call EXCEPT !.phase = k]
      PROVE  call'.user = call.user /\ call'.sent = call.sent
  BY <1>2 DEF Call
<1>3. IsOpen => call \in Call
  BY SentWrites
<1>4. CASE MainThread
  <2>1. CASE WriteMutations
    BY <2>1, WriteMutationsOwner
  <2>2. CASE ~WriteMutations
    BY <1>1, <1>4, <2>2
       DEF MainThread, Announce, TakeToken, SignIn, BeginToken, AnswerToken, appVars, storeVars, streamVars, serverVars
  <2> QED
    BY <2>1, <2>2
<1>5. CASE Network
  <2>1. CASE Refuse
    BY <1>1, <1>2, <1>3, <2>1 DEF Refuse, appVars, storeVars
  <2>2. CASE FailOperation
    BY <1>1, <1>2, <1>3, <2>2 DEF FailOperation, appVars, storeVars, serverVars
  <2>3. CASE CompleteRead
    BY <1>1, <2>3 DEF CompleteRead, appVars, storeVars, streamVars, serverVars
  <2> QED
    BY <1>5, <2>1, <2>2, <2>3, HandleOwner, LoseOwner, HandleStaleOwner DEF Network
<1>6. CASE Worker
  <2>1. CASE RunNoop
    BY <1>1, <2>1 DEF RunNoop, appVars, storeVars, streamVars, serverVars
  <2>2. CASE RunFail
    BY <1>1, <1>2, <1>3, <2>2 DEF RunFail, appVars, storeVars, serverVars
  <2>3. CASE RunFinish
    <3>1. /\ tasks # <<>> /\ CloseWithError(call.status = "permanent", Tail(tasks))
          /\ UNCHANGED <<calls, owner, current, applied>>
      BY <2>3 DEF RunFinish, Runs, appVars
    <3> QED
      BY <3>1, CloseOwner
  <2> QED
    BY <1>6, <2>1, <2>2, <2>3, RunWriteOwner, RunReadOwner, RunResumeOwner, StoppedOwner DEF Worker
<1>7. CASE Kill
  BY <1>7, StoppedOwner
<1>8. CASE UNCHANGED vars
  BY <1>1, <1>8 DEF vars, appVars, storeVars, streamVars, serverVars
<1> QED
  BY <1>4, <1>5, <1>6, <1>7, <1>8 DEF Next

LEMMA UserInit == Init => UserInv
<1> SUFFICES ASSUME Init PROVE UserInv
  OBVIOUS
<1>1. /\ main = <<>> /\ tasks = <<>> /\ fetches = {} /\ auth = current /\ contents.user = current
      /\ queue = [u \in User |-> <<>>] /\ owner = [w \in Write |-> NoUser] /\ calls = 0
      /\ stale = {} /\ applied = {} /\ state = "Initial"
  BY DEF Init
<1>2. Len(main) = 0 /\ Len(tasks) = 0 /\ \A u \in User : Len(queue[u]) = 0
  BY <1>1
<1>3. ForceInv
  BY <1>1, <1>2, EmptyForce
<1>4. MainInv
  BY <1>1, <1>2 DEF MainInv, LatestInv, TokenInv
<1>5. OwnerInv
  BY <1>1, <1>2 DEF OwnerInv, OwnedBy, IsOpen, OwnUserOnly
<1> QED
  BY <1>3, <1>4, <1>5 DEF UserInv

\* No write is ever applied with the token of another user than its own, however
\* many users there are and however often they change.  The worker queue keeps
\* writes, resumptions and changes of credentials in the order of the main
\* thread, and a token that was asked for before a change of user is dropped.
THEOREM OwnTokens == Spec => []OwnUserOnly
<1>1. Init => Invariant /\ UserInv
  BY InvariantInit, UserInit
<1>2. Invariant /\ UserInv /\ [Next]_vars => (Invariant /\ UserInv)'
  <2> SUFFICES ASSUME Invariant, UserInv, [Next]_vars PROVE Invariant' /\ UserInv'
    OBVIOUS
  <2>1. Invariant'
    BY InvariantStep
  <2>2. TypeOK /\ IInv /\ tasks' \in Seq(Tasks)
    BY <2>1 DEF Invariant, IInv, TypeOK
  <2>3. ForceInv' /\ MainInv' /\ OwnerInv'
    BY <2>2, ForceStep, MainStep, OwnerStep DEF UserInv
  <2> QED
    BY <2>1, <2>3 DEF UserInv
<1>3. UserInv => OwnUserOnly
  BY DEF UserInv, OwnerInv
<1> QED
  BY <1>1, <1>2, <1>3, PTL DEF Spec

(***************************************************************************)
(* What becomes of a write.  Every write that has been saved and not        *)
(* settled is in the queue of its user, and nothing else is.  The answers a *)
(* call has given are applied writes; the request it was refused for is the *)
(* first of those it has not answered.                                      *)
(***************************************************************************)

Holds(q, w) == \E i \in 1..Len(q) : q[i] = w

SavedInv ==
    /\ \A w \in Write : w > calls => fate[w] = "unsaved"
    /\ \A w \in Write : fate[w] = "saved" => owner[w] \in User /\ Holds(queue[owner[w]], w)
    /\ \A u \in User : \A i \in 1..Len(queue[u]) : fate[queue[u][i]] = "saved"
    /\ \A u \in User : \A w \in callbacks[u] : fate[w] = "saved" /\ owner[w] = u
    /\ \A w \in Write : fate[w] = "acked" => w \in Applied
    /\ \A w \in Write : fate[w] = "rejected" => w \in Applied \union refused

\* What the server has made of the requests of a call.
Answered(c) ==
    /\ \A i \in 2..c.handled : c.sent[i] \in Applied
    /\ c.status = "permanent" => /\ c.handled < Len(c.sent)
                                 /\ c.handled >= 1 => c.sent[c.handled + 1] \in refused

AnswerInv == IsOpen => Answered(call)

\* The store stays as it is, but for callers that are forgotten.
LEMMA SavedFrame ==
  ASSUME SavedInv, UNCHANGED <<calls, owner, queue, fate>>,
         \A u \in User : callbacks'[u] \subseteq callbacks[u],
         Applied \subseteq Applied', refused \subseteq refused'
  PROVE  SavedInv'
<1>1. /\ \A w \in Write : w > calls' => fate'[w] = "unsaved"
      /\ \A w \in Write : fate'[w] = "saved" => owner'[w] \in User /\ Holds(queue'[owner'[w]], w)
      /\ \A u \in User : \A i \in 1..Len(queue'[u]) : fate'[queue'[u][i]] = "saved"
  BY DEF SavedInv
<1>2. \A u \in User : \A w \in callbacks'[u] : fate'[w] = "saved" /\ owner'[w] = u
  BY DEF SavedInv
<1>3. \A w \in Write : /\ fate'[w] = "acked" => w \in Applied'
                       /\ fate'[w] = "rejected" => w \in Applied' \union refused'
  BY DEF SavedInv
<1> QED
  BY <1>1, <1>2, <1>3 DEF SavedInv, Holds

LEMMA WriteMutationsSaved ==
  ASSUME IInv, SavedInv, WriteMutations
  PROVE  SavedInv'
<1>1. /\ calls' = calls + 1 /\ owner' = [owner EXCEPT ![calls + 1] = contents.user]
      /\ UNCHANGED <<queue, callbacks, fate, applied, refused>>
  BY DEF WriteMutations, storeVars, serverVars
<1>2. /\ calls \in Nat /\ owner \in [Write -> User \union {NoUser}] /\ Write \subseteq Nat
      /\ callbacks \in [User -> SUBSET Write]
  BY WriteNat DEF IInv, TypeOK
<1>3. ASSUME NEW w \in Write, fate[w] # "unsaved" PROVE owner'[w] = owner[w]
  <2>1. w # calls + 1
    BY <1>2, <1>3 DEF SavedInv
  <2> QED
    BY <1>1, <1>2, <2>1
<1>4. \A w \in Write : w > calls' => fate'[w] = "unsaved"
  BY <1>1, <1>2 DEF SavedInv
<1>5. \A w \in Write : fate[w] = "saved" => owner'[w] \in User /\ Holds(queue'[owner'[w]], w)
  BY <1>1, <1>3 DEF SavedInv, Holds
<1>6. \A u \in User : \A w \in callbacks[u] : fate[w] = "saved" /\ owner'[w] = u
  BY <1>2, <1>3 DEF SavedInv
<1>7. Applied' = Applied
  BY <1>1 DEF Applied
<1> QED
  BY <1>1, <1>4, <1>5, <1>6, <1>7 DEF SavedInv

\* The head of the pipeline leaves the one queue that holds it.
LEMMA SettleSaved ==
  ASSUME IInv, OwnerInv, SavedInv, pipeline # <<>>, NEW outcome \in {"acked", "rejected"}, Settle(outcome),
         UNCHANGED <<calls, owner, applied, refused>>,
         outcome = "acked" => Head(pipeline) \in Applied,
         outcome = "rejected" => Head(pipeline) \in Applied \union refused
  PROVE  SavedInv'
<1> DEFINE w == Head(pipeline)
           q == queue[current]
<1>1. /\ fate' = [fate EXCEPT ![w] = outcome]
      /\ callbacks' = [callbacks EXCEPT ![current] = @ \ {w}]
      /\ queue' = [queue EXCEPT ![current] = Tail(q)]
  BY DEF Settle
<1>2. w \in Write /\ w = q[1] /\ q # <<>> /\ q \in Seq(Write) /\ Len(q) \in Nat \ {0}
  <2>1. w \in Write /\ w = q[1] /\ q # <<>> /\ q \in Seq(Write)
    BY SettledPrefix
  <2> QED
    BY <2>1, EmptySeq
<1>3. /\ Increasing(q) /\ Len(Tail(q)) = Len(q) - 1
      /\ \A i \in 1..Len(Tail(q)) : Tail(q)[i] = q[i + 1]
  BY <1>2, QueueTail DEF IInv, QueueInv, TypeOK
<1>4. /\ current \in User /\ fate \in [Write -> Fates] /\ queue \in [User -> Seq(Write)]
      /\ callbacks \in [User -> SUBSET Write] /\ calls \in Nat /\ Write \subseteq Nat
  BY WriteNat DEF IInv, TypeOK, Fates
<1>5. \A u \in User : OwnedBy(owner, queue[u], u)
  BY DEF OwnerInv
<1> HIDE DEF w
<1>6. owner[w] = current /\ fate[w] = "saved"
  BY <1>2, <1>4, <1>5 DEF OwnedBy, SavedInv
<1>7. ASSUME NEW v \in Write PROVE fate'[v] = IF v = w THEN outcome ELSE fate[v]
  BY <1>1, <1>4
<1>8. ASSUME NEW u \in User PROVE queue'[u] = IF u = current THEN Tail(q) ELSE queue[u]
  BY <1>1, <1>4
<1>9. ASSUME NEW u \in User PROVE callbacks'[u] = IF u = current THEN callbacks[u] \ {w} ELSE callbacks[u]
  BY <1>1, <1>4
<1>10. \A v \in Write : v > calls' => fate'[v] = "unsaved"
  BY <1>6, <1>7 DEF SavedInv
<1>11. ASSUME NEW v \in Write, fate'[v] = "saved"
       PROVE  owner'[v] \in User /\ Holds(queue'[owner'[v]], v)
  <2>1. v # w /\ fate[v] = "saved" /\ owner'[v] = owner[v]
    BY <1>7, <1>11
  <2>2. owner[v] \in User /\ Holds(queue[owner[v]], v)
    BY <2>1 DEF SavedInv
  <2>3. CASE owner[v] # current
    BY <1>8, <2>1, <2>2, <2>3
  <2>4. CASE owner[v] = current
    <3>1. PICK i \in 1..Len(q) : q[i] = v
      BY <2>2, <2>4 DEF Holds
    <3>2. i - 1 \in 1..Len(Tail(q)) /\ i - 1 + 1 = i
      BY <1>2, <1>3, <2>1, <3>1
    <3>3. Tail(q)[i - 1] = v
      BY <1>3, <3>1, <3>2
    <3> QED
      BY <1>8, <2>1, <2>2, <2>4, <3>2, <3>3 DEF Holds
  <2> QED
    BY <2>3, <2>4
<1>12. ASSUME NEW u \in User, NEW i \in 1..Len(queue'[u])
       PROVE  fate'[queue'[u][i]] = "saved"
  <2>1. CASE u = current
    <3>0. queue'[u] = Tail(q) /\ i \in 1..(Len(q) - 1)
      BY <1>3, <1>8, <2>1
    <3>1. i + 1 \in 1..Len(q) /\ 1 \in 1..Len(q) /\ 1 < i + 1
      BY <1>2, <3>0
    <3>2. queue'[u][i] = q[i + 1] /\ q[i + 1] \in Write
      BY <1>2, <1>3, <3>0, <3>1
    <3>3. q[1] < q[i + 1] /\ q[1] \in Nat /\ q[i + 1] \in Nat
      BY <1>2, <1>3, <1>4, <3>1, <3>2 DEF Increasing
    <3>4. q[i + 1] # w /\ fate[q[i + 1]] = "saved"
      BY <1>2, <1>4, <3>1, <3>3 DEF SavedInv
    <3> QED
      BY <1>7, <3>2, <3>4
  <2>2. CASE u # current
    <3>1. queue'[u] = queue[u] /\ queue[u] \in Seq(Write)
      BY <1>4, <1>8, <2>2
    <3>2. queue[u][i] \in Write /\ owner[queue[u][i]] = u /\ fate[queue[u][i]] = "saved"
      BY <1>5, <3>1 DEF OwnedBy, SavedInv
    <3> QED
      BY <1>6, <1>7, <2>2, <3>1, <3>2
  <2> QED
    BY <2>1, <2>2
<1>13. ASSUME NEW u \in User, NEW v \in callbacks'[u]
       PROVE  fate'[v] = "saved" /\ owner'[v] = u
  <2>1. v \in Write /\ v \in callbacks[u] /\ (u = current => v # w)
    BY <1>4, <1>9
  <2>2. fate[v] = "saved" /\ owner[v] = u
    BY <2>1 DEF SavedInv
  <2>3. v # w
    BY <1>6, <2>1, <2>2
  <2> QED
    BY <1>7, <2>1, <2>2, <2>3
<1>14. Applied' = Applied
  BY DEF Applied
<1>15. ASSUME NEW v \in Write
       PROVE  /\ fate'[v] = "acked" => v \in Applied'
              /\ fate'[v] = "rejected" => v \in Applied' \union refused'
  <2>1. CASE v = w
    BY <1>7, <1>14, <2>1 DEF w
  <2>2. CASE v # w
    BY <1>7, <1>14, <2>2 DEF SavedInv
  <2> QED
    BY <2>1, <2>2
<1> QED
  BY <1>10, <1>11, <1>12, <1>13, <1>15 DEF SavedInv

LEMMA RunWriteSaved ==
  ASSUME IInv, ForceInv, SavedInv, RunWrite
  PROVE  SavedInv'
<1> DEFINE w == Head(tasks).write
           q == Append(queue[current], w)
<1>1. /\ Runs("write") /\ queue' = [queue EXCEPT ![current] = q]
      /\ callbacks' = [callbacks EXCEPT ![current] = @ \union {w}]
      /\ fate' = [fate EXCEPT ![w] = "saved"]
      /\ UNCHANGED <<calls, owner, applied, refused>>
  BY DEF RunWrite, appVars, serverVars
<1>2. /\ current \in User /\ fate \in [Write -> Fates] /\ queue \in [User -> Seq(Write)]
      /\ callbacks \in [User -> SUBSET Write] /\ calls \in Nat /\ Write \subseteq Nat
      /\ queue[current] \in Seq(Write) /\ Len(queue[current]) \in Nat
  BY WriteNat DEF IInv, TypeOK, Fates
<1>3. /\ Head(tasks) \in Tasks /\ Head(tasks).kind = "write" /\ Head(tasks) = tasks[1] /\ 1 \in 1..Len(tasks)
  BY <1>1, HeadTask
<1>4. w \in Write
  BY <1>3 DEF Tasks
<1>5. owner[w] = current
  <2>1. InForce(tasks, current, 1, owner[w])
    BY <1>3 DEF ForceInv, Personal, UserOf
  <2> QED
    BY <2>1 DEF InForce
<1>6. w <= calls
  BY <1>3 DEF IInv, QueueInv
<1> HIDE DEF w
<1>7. /\ Len(q) = Len(queue[current]) + 1 /\ q[Len(queue[current]) + 1] = w
      /\ \A i \in 1..Len(queue[current]) : q[i] = queue[current][i]
  BY <1>2, <1>4, AppendProperties
<1> HIDE DEF q
<1>8. ASSUME NEW v \in Write PROVE fate'[v] = IF v = w THEN "saved" ELSE fate[v]
  BY <1>1, <1>2
<1>9. ASSUME NEW u \in User PROVE queue'[u] = IF u = current THEN q ELSE queue[u]
  BY <1>1, <1>2
<1>10. ASSUME NEW u \in User PROVE callbacks'[u] = IF u = current THEN callbacks[u] \union {w} ELSE callbacks[u]
  BY <1>1, <1>2
<1>11. \A v \in Write : v > calls' => fate'[v] = "unsaved"
  <2>1. \A v \in Write : v > calls => v # w
    BY <1>2, <1>4, <1>6
  <2> QED
    BY <1>1, <1>8, <2>1 DEF SavedInv
<1>12. ASSUME NEW v \in Write, fate'[v] = "saved"
       PROVE  owner'[v] \in User /\ Holds(queue'[owner'[v]], v)
  <2>1. CASE v = w
    <3>1. Len(q) \in 1..Len(q) /\ q[Len(q)] = w
      BY <1>2, <1>7
    <3> QED
      BY <1>1, <1>2, <1>5, <1>9, <2>1, <3>1 DEF Holds
  <2>2. CASE v # w
    <3>1. fate[v] = "saved" /\ owner'[v] = owner[v] /\ owner[v] \in User /\ Holds(queue[owner[v]], v)
      BY <1>1, <1>8, <1>12, <2>2 DEF SavedInv
    <3>2. CASE owner[v] = current
      <4>1. PICK i \in 1..Len(queue[current]) : queue[current][i] = v
        BY <3>1, <3>2 DEF Holds
      <4>2. i \in 1..Len(q) /\ q[i] = v
        BY <1>2, <1>7, <4>1
      <4> QED
        BY <1>9, <3>1, <3>2, <4>2 DEF Holds
    <3>3. CASE owner[v] # current
      BY <1>9, <3>1, <3>3
    <3> QED
      BY <3>2, <3>3
  <2> QED
    BY <2>1, <2>2
<1>13. ASSUME NEW u \in User, NEW i \in 1..Len(queue'[u])
       PROVE  fate'[queue'[u][i]] = "saved"
  <2>1. CASE queue'[u][i] = w
    BY <1>4, <1>8, <2>1
  <2>2. CASE queue'[u][i] # w
    <3>1. i \in 1..Len(queue[u]) /\ queue'[u][i] = queue[u][i]
      BY <1>2, <1>7, <1>9, <2>2
    <3>2. queue[u][i] \in Write /\ fate[queue[u][i]] = "saved"
      BY <1>2, <3>1 DEF SavedInv
    <3> QED
      BY <1>8, <3>1, <3>2
  <2> QED
    BY <2>1, <2>2
<1>14. ASSUME NEW u \in User, NEW v \in callbacks'[u]
       PROVE  fate'[v] = "saved" /\ owner'[v] = u
  <2>1. CASE v = w /\ u = current
    BY <1>1, <1>4, <1>5, <1>8, <2>1
  <2>2. CASE v \in callbacks[u]
    <3>1. v \in Write /\ fate[v] = "saved" /\ owner[v] = u
      BY <1>2, <2>2 DEF SavedInv
    <3> QED
      BY <1>1, <1>8, <3>1
  <2> QED
    BY <1>10, <2>1, <2>2
<1>15. ASSUME NEW v \in Write
       PROVE  /\ fate'[v] = "acked" => v \in Applied'
              /\ fate'[v] = "rejected" => v \in Applied' \union refused'
  BY <1>1, <1>8 DEF SavedInv, Applied
<1> QED
  BY <1>11, <1>12, <1>13, <1>14, <1>15 DEF SavedInv

(***************************************************************************)
(* The answers, at every step.                                              *)
(***************************************************************************)

\* A call goes on as it is, but that it may have been sent more.
LEMMA AnswerFrame ==
  ASSUME IInv, AnswerInv, IsOpen' => IsOpen, Applied \subseteq Applied', refused \subseteq refused',
         IsOpen => /\ call'.handled = call.handled /\ call'.status = call.status
                   /\ Prefix(call.sent, call'.sent) /\ Len(call'.sent) \in Nat
  PROVE  AnswerInv'
<1> SUFFICES ASSUME IsOpen, IsOpen' PROVE Answered(call)'
  BY DEF AnswerInv
<1>1. /\ Answered(call) /\ call.handled \in Nat /\ Len(call.sent) \in Nat /\ call.handled <= Len(call.sent)
      /\ call'.handled = call.handled /\ call'.status = call.status
      /\ Len(call.sent) <= Len(call'.sent) /\ Len(call'.sent) \in Nat
      /\ \A i \in 1..Len(call.sent) : call'.sent[i] = call.sent[i]
  BY CallType DEF AnswerInv, IInv, TaskInv, CallInv, Prefix
<1>2. ASSUME NEW i \in 2..call'.handled PROVE call'.sent[i] \in Applied'
  <2>1. i \in 2..call.handled /\ call'.sent[i] = call.sent[i]
    BY <1>1
  <2> QED
    BY <1>1, <2>1 DEF Answered
<1>3. ASSUME call'.status = "permanent"
      PROVE  /\ call'.handled < Len(call'.sent)
             /\ call'.handled >= 1 => call'.sent[call'.handled + 1] \in refused'
  <2>1. call.handled < Len(call.sent) /\ (call.handled >= 1 => call.sent[call.handled + 1] \in refused)
    BY <1>1, <1>3 DEF Answered
  <2>2. call.handled + 1 \in 1..Len(call.sent)
    BY <1>1, <2>1
  <2> QED
    BY <1>1, <2>1, <2>2
<1> QED
  BY <1>2, <1>3 DEF Answered

LEMMA SamePrefix ==
  ASSUME IInv, IsOpen
  PROVE  Prefix(call.sent, call.sent) /\ Len(call.sent) \in Nat /\ call \in Call
  BY SentWrites DEF Prefix

LEMMA HandleAnswer ==
  ASSUME IInv, AnswerInv, Handle
  PROVE  AnswerInv'
<1>1. /\ Live /\ call' = [call EXCEPT !.handled = @ + 1]
      /\ applied' = IF NextRequest = Handshake THEN applied ELSE applied \union {<<NextRequest, call.user>>}
      /\ UNCHANGED <<state, refused>>
  BY DEF Handle
<1>2. call # NoCall /\ IsOpen /\ call \in Call /\ call.status = "live"
  BY <1>1, SentWrites DEF Live, IInv, TaskInv
<1>3. /\ call'.sent = call.sent /\ call'.handled = call.handled + 1 /\ call'.status = "live"
      /\ call.handled \in Nat
  BY <1>1, <1>2 DEF Call
<1>4. Applied \subseteq Applied' /\ (NextRequest # Handshake => NextRequest \in Applied')
  <2>1. CASE NextRequest = Handshake
    BY <1>1, <2>1 DEF Applied
  <2>2. CASE NextRequest # Handshake
    <3>1. applied' = applied \union {<<NextRequest, call.user>>}
      BY <1>1, <2>2
    <3>2. <<NextRequest, call.user>>[1] = NextRequest
      OBVIOUS
    <3> QED
      BY <3>1, <3>2 DEF Applied
  <2> QED
    BY <2>1, <2>2
<1>5. ASSUME NEW i \in 2..call'.handled PROVE call'.sent[i] \in Applied'
  <2>1. CASE i = call.handled + 1
    <3>1. i \in 1..Len(call.sent) /\ i # 1 /\ call.sent[i] = NextRequest
      BY <1>1, <1>3, <2>1, NextRequestType DEF IInv, NextRequest
    <3>2. NextRequest # Handshake
      BY <1>2, <3>1, SentWrites DEF HandshakeFirst
    <3> QED
      BY <1>3, <1>4, <3>1, <3>2
  <2>2. CASE i # call.handled + 1
    <3>1. i \in 2..call.handled
      BY <1>3, <2>2
    <3> QED
      BY <1>2, <1>3, <1>4, <3>1 DEF AnswerInv, Answered
  <2> QED
    BY <2>1, <2>2
<1>6. call'.status # "permanent"
  BY <1>3
<1> QED
  BY <1>5, <1>6 DEF AnswerInv, Answered

LEMMA RefuseAnswer ==
  ASSUME IInv, AnswerInv, Refuse
  PROVE  AnswerInv'
<1>1. /\ Live /\ call' = [call EXCEPT !.status = "permanent"]
      /\ refused' = IF NextRequest = Handshake THEN refused ELSE refused \union {NextRequest}
      /\ UNCHANGED <<state, applied>>
  BY DEF Refuse
<1>2. call # NoCall /\ IsOpen /\ call \in Call
  BY <1>1, SentWrites DEF Live, IInv, TaskInv
<1>3. /\ call'.sent = call.sent /\ call'.handled = call.handled /\ call.handled \in Nat
      /\ Len(call.sent) \in Nat
  BY <1>1, <1>2, SentWrites DEF Call
<1>4. call.handled + 1 \in 1..Len(call.sent) /\ NextRequest = call.sent[call.handled + 1]
  BY <1>1, NextRequestType DEF IInv, NextRequest
<1>5. ASSUME call.handled >= 1 PROVE NextRequest \in refused'
  <2>1. call.handled + 1 # 1
    BY <1>3, <1>5
  <2>2. NextRequest # Handshake
    BY <1>2, <1>4, <2>1, SentWrites DEF HandshakeFirst
  <2> QED
    BY <1>1, <2>2
<1>6. \A i \in 2..call.handled : call.sent[i] \in Applied'
  BY <1>1, <1>2 DEF AnswerInv, Answered, Applied
<1>7. call.handled < Len(call.sent)
  BY <1>3, <1>4
<1> QED
  BY <1>3, <1>4, <1>5, <1>6, <1>7 DEF AnswerInv, Answered

\* The pipeline is filled on a stream that goes on.
LEMMA FilledAnswer ==
  ASSUME IInv, AnswerInv, NEW p \in Seq(Write), NEW q \in Seq(Write), Prefix(p, q), Increasing(q),
         Len(p) <= MaxPendingWrites, NEW c, FillWritePipeline(p, q, state, closes, c),
         IsOpen => /\ c \in Call /\ c.handled = call.handled /\ c.status = call.status
                   /\ c.sent = call.sent,
         UNCHANGED <<applied, refused>>
  PROVE  AnswerInv'
<1> DEFINE new == SubSeq(pipeline', Len(p) + 1, Len(pipeline'))
<1>1. TypeOK /\ state \in States /\ closes \in Nat /\ Len(p) \in Nat
  BY SMTT(20) DEF IInv, TypeOK, States
<1>2. /\ pipeline' \in Seq(Write) /\ Prefix(p, pipeline') /\ (IsOpen' => IsOpen)
      /\ call' = [c EXCEPT !.sent = @ \o new] \/ call' = c
  BY <1>1, FillEffect DEF IsOpen
<1>3. new \in Seq(Write)
  <2>1. Len(p) <= Len(pipeline')
    BY <1>2 DEF Prefix
  <2> QED
    BY <1>1, <1>2, <2>1, RestOf
<1> HIDE DEF new
<1>4. ASSUME IsOpen
      PROVE  /\ call'.handled = call.handled /\ call'.status = call.status
             /\ Prefix(call.sent, call'.sent) /\ Len(call'.sent) \in Nat
  <2>1. /\ c \in Call /\ c.handled = call.handled /\ c.status = call.status /\ c.sent = call.sent
        /\ call.sent \in Seq(Write \union {Handshake})
    BY <1>4, SentWrites
  <2>2. CASE call' = c
    BY <1>4, <2>1, <2>2, SamePrefix
  <2>3. CASE call' = [c EXCEPT !.sent = @ \o new]
    <3>1. call'.handled = c.handled /\ call'.status = c.status /\ call'.sent = call.sent \o new
      BY <2>1, <2>3 DEF Call
    <3>2. new \in Seq(Write \union {Handshake})
      BY <1>3, SeqMonotonic
    <3>3. Len(call.sent \o new) = Len(call.sent) + Len(new) /\ Len(call.sent) \in Nat /\ Len(new) \in Nat
          /\ \A i \in 1..Len(call.sent) : (call.sent \o new)[i] = call.sent[i]
      BY <2>1, <3>2, ConcatProperties
    <3> QED
      BY <2>1, <3>1, <3>3 DEF Prefix
  <2> QED
    BY <1>2, <2>2, <2>3
<1>5. Applied' = Applied /\ refused' = refused
  BY DEF Applied
<1> QED
  BY <1>2, <1>4, <1>5, AnswerFrame

LEMMA RunWriteAnswer ==
  ASSUME IInv, AnswerInv, RunWrite
  PROVE  AnswerInv'
<1> DEFINE w == Head(tasks).write
           q == Append(queue[current], w)
<1>1. /\ Runs("write") /\ FillWritePipeline(pipeline, q, state, closes, call)
      /\ UNCHANGED <<applied, refused>>
  BY DEF RunWrite, serverVars
<1>2. /\ queue[current] \in Seq(Write) /\ pipeline \in Seq(Write) /\ Len(queue[current]) \in Nat
      /\ Prefix(pipeline, queue[current]) /\ Len(pipeline) <= MaxPendingWrites /\ current \in User
  BY DEF IInv, TypeOK, PipeInv
<1>3. /\ Head(tasks) \in Tasks /\ Head(tasks).kind = "write" /\ Head(tasks) = tasks[1] /\ 1 \in 1..Len(tasks)
  BY <1>1, HeadTask
<1>4. w \in Write /\ \A i \in 1..Len(queue[current]) : queue[current][i] < w
  BY <1>2, <1>3 DEF Tasks, IInv, QueueInv
<1> HIDE DEF w
<1>5. /\ q \in Seq(Write) /\ Len(q) = Len(queue[current]) + 1 /\ q[Len(queue[current]) + 1] = w
      /\ \A i \in 1..Len(queue[current]) : q[i] = queue[current][i]
  BY <1>2, <1>4, AppendProperties
<1> HIDE DEF q
<1>6. Increasing(q)
  <2>1. Increasing(queue[current])
    BY <1>2 DEF IInv, QueueInv
  <2> QED
    BY <1>2, <1>4, <1>5, <2>1, AppendIncreasing
<1>7. Prefix(pipeline, q)
  <2>1. Len(pipeline) \in Nat
    BY <1>2
  <2> QED
    BY <1>2, <1>5, <2>1 DEF Prefix
<1> QED
  BY <1>1, <1>2, <1>5, <1>6, <1>7, SamePrefix, FilledAnswer

LEMMA RunReadAnswer ==
  ASSUME IInv, AnswerInv, RunRead
  PROVE  AnswerInv'
<1> DEFINE c == [call EXCEPT !.taken = @ + 1]
<1>1. Runs("read") /\ UNCHANGED <<applied, refused>>
  BY DEF RunRead, serverVars
<1>2. /\ IsOpen /\ call \in Call /\ call.sent \in Seq(Write \union {Handshake})
  BY <1>1, HeadTask, SentWrites DEF Completions
<1>3. c \in Call /\ c.handled = call.handled /\ c.status = call.status /\ c.sent = call.sent
  BY <1>2 DEF Call
<1> HIDE DEF c
<1>4. CASE call' = [c EXCEPT !.sent = @ \o pipeline]
  <2>1. call'.handled = call.handled /\ call'.status = call.status /\ call'.sent = call.sent \o pipeline
    BY <1>3, <1>4 DEF Call
  <2>2. pipeline \in Seq(Write \union {Handshake})
    BY SeqMonotonic DEF IInv, TypeOK
  <2>3. /\ Len(call.sent \o pipeline) = Len(call.sent) + Len(pipeline)
        /\ Len(call.sent) \in Nat /\ Len(pipeline) \in Nat
        /\ \A i \in 1..Len(call.sent) : (call.sent \o pipeline)[i] = call.sent[i]
    BY <1>2, <2>2, ConcatProperties
  <2>4. Prefix(call.sent, call'.sent) /\ Len(call'.sent) \in Nat
    BY <2>1, <2>3 DEF Prefix
  <2>5. Applied' = Applied /\ refused' = refused
    BY <1>1 DEF Applied
  <2> QED
    BY <1>2, <2>1, <2>4, <2>5, AnswerFrame
<1>5. CASE /\ handshake
           /\ FillWritePipeline(Tail(pipeline), Tail(queue[current]), state, closes, c)
  <2>1. call # NoCall /\ call.taken < call.handled
    BY <1>1, <1>5, HeadTask DEF Completions, IInv, CallInv, Queued
  <2>2. pipeline # <<>>
    BY <1>5, <2>1, AnsweredInStep
  <2> DEFINE p == Tail(pipeline)
             q == Tail(queue[current])
  <2>3. /\ p \in Seq(Write) /\ Prefix(p, q) /\ Len(p) <= MaxPendingWrites
        /\ q \in Seq(Write) /\ Increasing(q)
    BY <2>2, SettledPrefix, QueueTail DEF IInv
  <2>4. FillWritePipeline(p, q, state, closes, c)
    BY <1>5
  <2> HIDE DEF p, q
  <2> QED
    BY <1>1, <1>3, <2>3, <2>4, FilledAnswer
<1> QED
  BY <1>4, <1>5 DEF RunRead, c

LEMMA AnswerStep == IInv /\ AnswerInv /\ [Next]_vars => AnswerInv'
<1> SUFFICES ASSUME IInv, AnswerInv, [Next]_vars PROVE AnswerInv'
  OBVIOUS
<1>1. ASSUME UNCHANGED <<applied, refused>>, IsOpen' => IsOpen,
             IsOpen => /\ call'.handled = call.handled /\ call'.status = call.status
                       /\ call'.sent = call.sent
      PROVE  AnswerInv'
  <2>1. Applied' = Applied /\ refused' = refused
    BY <1>1 DEF Applied
  <2> QED
    BY <1>1, <2>1, SamePrefix, AnswerFrame
<1>2. ASSUME UNCHANGED <<call, state, applied, refused>> PROVE AnswerInv'
  BY <1>1, <1>2 DEF IsOpen
<1>3. ASSUME ~IsOpen' PROVE AnswerInv'
  BY <1>3 DEF AnswerInv
<1>4. IsOpen => call \in Call
  BY SentWrites
<1>5. CASE MainThread
  <2>1. UNCHANGED <<call, state, applied, refused>>
    BY <1>5 DEF MainThread, WriteMutations, Announce, TakeToken, SignIn, BeginToken, AnswerToken,
               streamVars, serverVars
  <2> QED
    BY <1>2, <2>1
<1>6. CASE Network
  <2>1. CASE Handle
    BY <2>1, HandleAnswer
  <2>2. CASE Refuse
    BY <2>2, RefuseAnswer
  <2>3. CASE Lose
    <3>1. /\ call # NoCall /\ call' = [call EXCEPT !.status = "transient"]
          /\ UNCHANGED <<state, applied, refused>>
      BY <2>3 DEF Lose
    <3>2. IsOpen => /\ call'.sent = call.sent /\ call'.handled = call.handled
                    /\ call'.status = "transient"
      BY <1>4, <3>1 DEF Call
    <3>3. Applied' = Applied
      BY <3>1 DEF Applied
    <3> QED
      BY <3>1, <3>2, <3>3 DEF AnswerInv, Answered, IsOpen
  <2>4. CASE CompleteRead
    BY <1>2, <2>4 DEF CompleteRead, streamVars, serverVars
  <2>5. CASE FailOperation
    <3>1. call' = [call EXCEPT !.phase = "failed"] /\ UNCHANGED <<state, applied, refused>>
      BY <2>5 DEF FailOperation, serverVars
    <3> QED
      BY <1>1, <1>4, <3>1 DEF Call, IsOpen
  <2>6. ASSUME NEW s \in stale, HandleStale(s) PROVE AnswerInv'
    <3>1. UNCHANGED <<call, state, refused>> /\ applied \subseteq applied'
      BY <2>6 DEF HandleStale, streamVars
    <3>2. Applied \subseteq Applied' /\ refused \subseteq refused'
      BY <3>1 DEF Applied
    <3> QED
      BY <3>1, <3>2, SamePrefix, AnswerFrame DEF IsOpen
  <2> QED
    BY <1>6, <2>1, <2>2, <2>3, <2>4, <2>5, <2>6 DEF Network
<1>7. CASE Worker
  <2>1. CASE RunNoop
    BY <1>2, <2>1 DEF RunNoop, streamVars, serverVars
  <2>2. CASE RunWrite
    BY <2>2, RunWriteAnswer
  <2>3. CASE RunCredential \/ ConnectivityChanges
    <3>1. PICK q, todo : RestartNetwork(q, todo)
      BY <2>3 DEF RunCredential, ConnectivityChanges
    <3>2. ~IsOpen'
      BY <3>1 DEF RestartNetwork, FillWritePipeline, Start, IsOpen, Started
    <3> QED
      BY <1>3, <3>2
  <2>4. CASE RunResume
    <3>1. CASE UNCHANGED streamVars
      BY <1>2, <2>4, <3>1 DEF RunResume, streamVars
    <3>2. CASE call' = NewCall(Head(tasks).user)
      <4>1. call'.handled = 0 /\ call'.status = "live"
        BY <3>2 DEF NewCall
      <4> QED
        BY <4>1 DEF AnswerInv, Answered
    <3>3. CASE CloseWithError(FALSE, Tail(tasks))
      <4>1. tasks # <<>> /\ UNCHANGED <<calls, current>>
        BY <2>4 DEF RunResume, Runs, appVars
      <4> QED
        BY <1>3, <3>3, <4>1, CloseEffect DEF Closed, TaskInv
    <3> QED
      BY <2>4, <3>1, <3>2, <3>3 DEF RunResume
  <2>5. CASE RunRead
    BY <2>5, RunReadAnswer
  <2>6. CASE RunFail
    <3>1. call' = [call EXCEPT !.phase = "finishing"] /\ UNCHANGED <<state, applied, refused>>
      BY <2>6 DEF RunFail, serverVars
    <3> QED
      BY <1>1, <1>4, <3>1 DEF Call, IsOpen
  <2>7. CASE RunFinish
    <3>1. /\ tasks # <<>> /\ CloseWithError(call.status = "permanent", Tail(tasks))
          /\ UNCHANGED <<calls, current>>
      BY <2>7 DEF RunFinish, Runs, appVars
    <3> QED
      BY <1>3, <3>1, CloseEffect DEF Closed, TaskInv
  <2>8. CASE BackoffElapses \/ IdleElapses
    BY <1>3, <2>8 DEF BackoffElapses, IdleElapses, Start, IsOpen
  <2> QED
    BY <1>7, <2>1, <2>2, <2>3, <2>4, <2>5, <2>6, <2>7, <2>8 DEF Worker
<1>8. CASE Kill
  BY <1>3, <1>8 DEF Kill, IsOpen
<1>9. CASE UNCHANGED vars
  BY <1>2, <1>9 DEF vars, streamVars, serverVars
<1> QED
  BY <1>5, <1>6, <1>7, <1>8, <1>9 DEF Next

\* The head of the pipeline is the request after those whose answers have been
\* taken: it has been applied if there is another answer, and applied or refused
\* if the call has ended with a permanent error.
LEMMA HeadAnswered ==
  ASSUME IInv, AnswerInv, call # NoCall, handshake
  PROVE  /\ call.taken < call.handled => pipeline # <<>> /\ Head(pipeline) \in Applied
         /\ call.status = "permanent" => pipeline # <<>> /\ Head(pipeline) \in Applied \union refused
<1>1. /\ IsOpen /\ InStep(call, pipeline) /\ call \in Call /\ pipeline \in Seq(Write)
      /\ call.taken \in Nat /\ call.handled \in Nat /\ Len(call.sent) \in Nat
  BY CallInStep, CallType DEF IInv, TypeOK
<1>2. /\ call.taken <= call.handled /\ call.handled <= Len(call.sent) /\ 1 <= call.taken
      /\ Len(pipeline) = Len(call.sent) - call.taken
      /\ \A i \in 1..Len(pipeline) : pipeline[i] = call.sent[call.taken + i]
  BY <1>1 DEF InStep, Follows
<1>3. Answered(call)
  BY <1>1 DEF AnswerInv
<1>4. ASSUME call.taken < Len(call.sent)
      PROVE  pipeline # <<>> /\ Head(pipeline) = call.sent[call.taken + 1]
  <2>1. 1 \in 1..Len(pipeline) /\ pipeline # <<>>
    BY <1>1, <1>2, <1>4
  <2> QED
    BY <1>2, <2>1, SettledPrefix
<1>5. ASSUME call.taken < call.handled PROVE pipeline # <<>> /\ Head(pipeline) \in Applied
  <2>1. call.taken < Len(call.sent) /\ call.taken + 1 \in 2..call.handled
    BY <1>1, <1>2, <1>5
  <2> QED
    BY <1>3, <1>4, <2>1 DEF Answered
<1>6. ASSUME call.status = "permanent" PROVE pipeline # <<>> /\ Head(pipeline) \in Applied \union refused
  <2>1. /\ call.handled < Len(call.sent) /\ call.handled >= 1
        /\ call.sent[call.handled + 1] \in refused
    BY <1>1, <1>2, <1>3, <1>6 DEF Answered
  <2>2. CASE call.taken < call.handled
    BY <1>5, <2>2
  <2>3. CASE call.taken = call.handled
    BY <1>4, <2>1, <2>3
  <2> QED
    BY <1>1, <1>2, <2>2, <2>3
<1> QED
  BY <1>5, <1>6

LEMMA SavedStep == IInv /\ UserInv /\ AnswerInv /\ SavedInv /\ [Next]_vars => SavedInv'
<1> SUFFICES ASSUME IInv, OwnerInv, ForceInv, AnswerInv, SavedInv, [Next]_vars PROVE SavedInv'
  BY DEF UserInv
<1>1. ASSUME UNCHANGED <<calls, owner, queue, callbacks, fate>>, applied \subseteq applied', refused \subseteq refused'
      PROVE  SavedInv'
  <2>1. Applied \subseteq Applied'
    BY <1>1 DEF Applied
  <2> QED
    BY <1>1, <2>1, SavedFrame
<1>2. ASSUME NEW permanent, NEW todo, CloseWithError(permanent, todo), UNCHANGED <<calls, owner, applied, refused>>,
             permanent /\ handshake => call # NoCall /\ call.status = "permanent"
      PROVE  SavedInv'
  <2>1. CASE permanent /\ handshake /\ pipeline # <<>>
    <3>1. Settle("rejected") /\ Head(pipeline) \in Applied \union refused
      BY <1>2, <2>1, HeadAnswered DEF CloseWithError
    <3> QED
      BY <1>2, <2>1, <3>1, SettleSaved
  <2>2. CASE UNCHANGED <<fate, queue, callbacks>>
    BY <1>1, <1>2, <2>2
  <2> QED
    BY <1>2, <2>1, <2>2 DEF CloseWithError, storeVars
<1>3. CASE MainThread
  <2>1. CASE WriteMutations
    BY <2>1, WriteMutationsSaved
  <2>2. CASE ~WriteMutations
    BY <1>1, <1>3, <2>2
       DEF MainThread, Announce, TakeToken, SignIn, BeginToken, AnswerToken, appVars, storeVars, serverVars
  <2> QED
    BY <2>1, <2>2
<1>4. CASE Network
  BY <1>1, <1>4 DEF Network, Handle, Refuse, Lose, CompleteRead, FailOperation, HandleStale,
                    appVars, storeVars, serverVars
<1>5. CASE Worker
  <2>1. CASE RunWrite
    BY <2>1, RunWriteSaved
  <2>2. CASE RunRead
    <3>1. Runs("read") /\ UNCHANGED <<calls, owner, applied, refused>>
      BY <2>2 DEF RunRead, appVars, serverVars
    <3>2. CASE UNCHANGED <<queue, callbacks, fate>>
      BY <1>1, <3>1, <3>2
    <3>3. CASE handshake /\ Settle("acked")
      <4>1. call # NoCall /\ call.taken < call.handled
        BY <3>1, HeadTask DEF Completions, IInv, CallInv, Queued
      <4>2. pipeline # <<>> /\ Head(pipeline) \in Applied
        BY <3>3, <4>1, HeadAnswered
      <4> QED
        BY <3>1, <3>3, <4>2, SettleSaved
    <3> QED
      BY <2>2, <3>2, <3>3 DEF RunRead, storeVars
  <2>3. CASE RunResume
    <3>1. UNCHANGED <<calls, owner, applied, refused>>
      BY <2>3 DEF RunResume, appVars
    <3>2. CASE UNCHANGED <<queue, callbacks, fate>>
      BY <1>1, <3>1, <3>2
    <3>3. CASE CloseWithError(FALSE, Tail(tasks))
      BY <1>2, <3>1, <3>3
    <3> QED
      BY <2>3, <3>2, <3>3 DEF RunResume, storeVars
  <2>4. CASE RunFinish
    <3>1. /\ Runs("finish") /\ CloseWithError(call.status = "permanent", Tail(tasks))
          /\ UNCHANGED <<calls, owner, applied, refused>>
      BY <2>4 DEF RunFinish, appVars
    <3>2. call # NoCall
      BY <3>1, HeadTask DEF Completions
    <3> QED
      BY <1>2, <3>1, <3>2
  <2>5. CASE RunNoop \/ RunCredential \/ RunFail \/ BackoffElapses \/ IdleElapses \/ ConnectivityChanges
    BY <1>1, <2>5 DEF RunNoop, RunCredential, RunFail, BackoffElapses, IdleElapses, ConnectivityChanges,
                      appVars, storeVars, serverVars
  <2> QED
    BY <1>5, <2>1, <2>2, <2>3, <2>4, <2>5 DEF Worker
<1>6. CASE Kill
  <2>1. /\ UNCHANGED <<calls, owner, queue, fate, applied, refused>>
        /\ \A u \in User : callbacks'[u] = {}
    BY <1>6 DEF Kill, appVars
  <2>2. Applied' = Applied
    BY <2>1 DEF Applied
  <2> QED
    BY <2>1, <2>2, SavedFrame
<1>7. CASE UNCHANGED vars
  BY <1>1, <1>7 DEF vars, appVars, storeVars, serverVars
<1> QED
  BY <1>3, <1>4, <1>5, <1>6, <1>7 DEF Next

(***************************************************************************)
(* The order of a user's writes.  The writes of the worker queue are newer  *)
(* than any that has been saved.  What comes before a write of a call, or   *)
(* of what a call has left to the server, is settled or comes before it     *)
(* there as well.                                                           *)
(***************************************************************************)

Done == Applied \union refused

\* The writes of its user that were saved before a write.
Before(w) == {v \in Write : v < w /\ owner[v] = owner[w] /\ fate[v] # "unsaved"}

InOrder(r) ==
    \A i \in 1..Len(r) : /\ fate[r[i]] # "unsaved"
                         /\ Before(r[i]) \subseteq Done \union {r[j] : j \in 1..(i - 1)}

NewestInv ==
    \A j \in 1..Len(tasks) : tasks[j].kind = "write" =>
        \A w \in Write : fate[w] # "unsaved" => w < tasks[j].write

OrderInv ==
    /\ NewestInv
    /\ \A w \in Applied : fate[w] # "unsaved" /\ Before(w) \subseteq Done
    /\ \A s \in stale : InOrder(s.rest)

\* The writes of the worker queue were there before.
OldWrites ==
    \A j \in 1..Len(tasks') : tasks'[j].kind = "write" => \E k \in 1..Len(tasks) : tasks'[j] = tasks[k]

LEMMA ShiftedWrites ==
  ASSUME tasks \in Seq(Tasks), tasks' \in Seq(Tasks), NEW o \in {0, 1}, Shifted(o)
  PROVE  OldWrites
<1> SUFFICES ASSUME NEW j \in 1..Len(tasks'), tasks'[j].kind = "write"
             PROVE  \E k \in 1..Len(tasks) : tasks'[j] = tasks[k]
  BY DEF OldWrites
<1>1. Len(tasks) \in Nat /\ Len(tasks') \in Nat /\ "write" \in Kinds
  BY DEF Kinds
<1>2. j + o <= Len(tasks) /\ tasks'[j] = tasks[j + o]
  BY <1>1 DEF Shifted
<1> QED
  BY <1>1, <1>2

LEMMA AppendedWrites ==
  ASSUME tasks \in Seq(Tasks), NEW t \in Tasks, t.kind # "write", tasks' = Append(tasks, t)
  PROVE  OldWrites
BY AppendKept DEF OldWrites

LEMMA WritesStay ==
  ASSUME IInv, tasks' \in Seq(Tasks), [Next]_vars, ~WriteMutations
  PROVE  OldWrites
<1>1. tasks \in Seq(Tasks) /\ TypeOK
  BY DEF IInv, TypeOK
<1>2. CASE UNCHANGED tasks
  BY <1>1, <1>2, SameShifted, ShiftedWrites
<1>3. CASE tasks # <<>> /\ (tasks' = Tail(tasks) \/ tasks' = Cancelled(Tail(tasks), Completions) \/ RunFail)
  BY <1>1, <1>3, TailShifted, CancelledTailShifted, FailShifted, ShiftedWrites
<1>4. CASE tasks' = Cancelled(tasks, Completions)
  BY <1>1, <1>4, CancelledShifted, ShiftedWrites
<1>5. CASE MainThread
  <2>1. CASE Announce
    <3> DEFINE t == [kind |-> "credential", user |-> Head(main).user]
    <3>1. main # <<>> /\ Head(main).user \in User /\ tasks' = Append(tasks, t)
      BY <1>1, <2>1, HeadMessage DEF Announce
    <3>2. t \in Tasks /\ t.kind # "write"
      BY <3>1 DEF Tasks
    <3> HIDE DEF t
    <3> QED
      BY <1>1, <3>1, <3>2, AppendedWrites
  <2>2. CASE TakeToken
    <3> DEFINE f == Head(main).fetch
               t == [kind |-> "resume", closes |-> f.closes, user |-> f.user]
    <3>1. f \in Fetches /\ (UNCHANGED tasks \/ tasks' = Append(tasks, t))
      BY <1>1, <2>2, HeadMessage DEF TakeToken
    <3>2. t \in Tasks /\ t.kind # "write"
      BY <3>1 DEF Tasks, Fetches
    <3> HIDE DEF t
    <3> QED
      BY <1>1, <1>2, <3>1, <3>2, AppendedWrites
  <2>3. ASSUME (\E u \in User : SignIn(u)) \/ (\E f \in fetches : BeginToken(f) \/ AnswerToken(f))
        PROVE  UNCHANGED tasks
    BY <2>3 DEF SignIn, BeginToken, AnswerToken
  <2> QED
    BY <1>2, <1>5, <2>1, <2>2, <2>3 DEF MainThread
<1>6. CASE Network
  <2>1. UNCHANGED tasks \/ \E k \in {"read", "fail"} : tasks' = Append(tasks, [kind |-> k])
    BY <1>6 DEF Network, Handle, Refuse, Lose, CompleteRead, FailOperation, HandleStale
  <2>2. ASSUME NEW k \in {"read", "fail"}, tasks' = Append(tasks, [kind |-> k]) PROVE OldWrites
    <3> DEFINE t == [kind |-> k]
    <3>1. t \in Tasks /\ t.kind # "write" /\ tasks' = Append(tasks, t)
      BY <2>2, CompletionType
    <3> HIDE DEF t
    <3> QED
      BY <1>1, <3>1, AppendedWrites
  <2> QED
    BY <1>2, <2>1, <2>2
<1>7. CASE Worker
  <2>1. CASE RunNoop \/ RunWrite \/ RunRead
    BY <1>3, <2>1 DEF RunNoop, RunWrite, RunRead, Runs
  <2>2. CASE RunResume \/ RunFinish
    BY <1>3, <2>2 DEF RunResume, RunFinish, Runs, CloseWithError
  <2>3. CASE RunFail
    BY <1>3, <2>3 DEF RunFail, Runs
  <2>4. CASE RunCredential
    BY <1>3, <2>4 DEF RunCredential, Runs, RestartNetwork
  <2>5. CASE BackoffElapses \/ IdleElapses \/ ConnectivityChanges
    BY <1>2, <1>4, <2>5 DEF BackoffElapses, IdleElapses, ConnectivityChanges, RestartNetwork
  <2> QED
    BY <1>7, <2>1, <2>2, <2>3, <2>4, <2>5 DEF Worker
<1>8. CASE Kill
  <2>1. Len(tasks') = 0
    BY <1>8 DEF Kill
  <2> QED
    BY <2>1 DEF OldWrites
<1>9. CASE UNCHANGED vars
  BY <1>2, <1>9 DEF vars
<1> QED
  BY <1>5, <1>6, <1>7, <1>8, <1>9 DEF Next

\* What an open call has been sent and not been answered: what comes before a
\* write of it is settled, or is among what comes before it in the pipeline.
LEMMA SentInOrder ==
  ASSUME IInv, OwnerInv, SavedInv, AnswerInv, IsOpen, NEW i \in 2..Len(call.sent), i > call.handled
  PROVE  /\ fate[call.sent[i]] # "unsaved"
         /\ Before(call.sent[i]) \subseteq Done \union {call.sent[j] : j \in (call.handled + 1)..(i - 1)}
<1> DEFINE sent == call.sent
           q == queue[current]
<1>1. /\ call # NoCall /\ InStep(call, pipeline) /\ Answered(call) /\ call.taken \in Nat
      /\ call.handled \in Nat /\ Len(sent) \in Nat
  BY CallType DEF IInv, TaskInv, CallInv, InStep, AnswerInv
<1>2. handshake
  <2>1. Len(sent) # 1
    <3>1. \A m \in Nat : i \in 2..m => m # 1
      OBVIOUS
    <3> QED
      BY <1>1, <3>1
  <2>2. ASSUME ~handshake PROVE Len(sent) = 1
    BY <1>1, <2>2 DEF InStep
  <2> QED
    BY <2>1, <2>2
<1>3. /\ 1 <= call.taken /\ call.taken <= call.handled
      /\ Len(pipeline) = Len(sent) - call.taken
      /\ \A k \in 1..Len(pipeline) : pipeline[k] = sent[call.taken + k]
  BY <1>1, <1>2 DEF InStep, Follows
<1>4. /\ Len(pipeline) <= Len(q) /\ \A k \in 1..Len(pipeline) : pipeline[k] = q[k]
      /\ Increasing(q) /\ OwnedBy(owner, q, current) /\ current \in User
      /\ q \in Seq(Write) /\ Len(q) \in Nat /\ Len(pipeline) \in Nat /\ fate \in [Write -> Fates]
      /\ Write \subseteq Nat
  BY WriteNat, SMTT(20) DEF IInv, TypeOK, PipeInv, Prefix, QueueInv, OwnerInv, Fates
<1> DEFINE n == i - call.taken
<1>5. n \in 1..Len(pipeline) /\ call.taken + n = i /\ n \in 1..Len(q)
  BY <1>1, <1>3, <1>4, SMTT(20)
<1>6. sent[i] = q[n]
  BY <1>3, <1>4, <1>5
<1> HIDE DEF n, sent
<1>7. q[n] \in Write /\ owner[q[n]] = current /\ fate[q[n]] = "saved"
  BY <1>4, <1>5 DEF OwnedBy, SavedInv
<1>8. ASSUME NEW v \in Before(q[n]) PROVE v \in Done \union {sent[j] : j \in (call.handled + 1)..(i - 1)}
  <2>1. v \in Write /\ v < q[n] /\ owner[v] = current /\ fate[v] \in Fates /\ fate[v] # "unsaved"
    BY <1>4, <1>7, <1>8 DEF Before
  <2>2. CASE fate[v] = "acked" \/ fate[v] = "rejected"
    BY <2>1, <2>2 DEF SavedInv, Done
  <2>3. CASE fate[v] = "saved"
    <3>1. PICK k \in 1..Len(q) : q[k] = v
      BY <2>1, <2>3 DEF SavedInv, Holds
    <3>2. k < n
      <4>1. q[n] \in Nat /\ v \in Nat /\ v < q[n] /\ q[k] = v
        BY <1>4, <1>7, <2>1, <3>1
      <4>2. n < k => q[n] < q[k]
        BY <1>4, <1>5, <3>1 DEF Increasing
      <4>3. ~(n < k) /\ n # k
        BY <4>1, <4>2
      <4>4. n \in Nat /\ k \in Nat
        BY <1>4, <1>5, <3>1
      <4> QED
        BY <4>3, <4>4
    <3>3. k \in 1..Len(pipeline) /\ call.taken + k \in 2..(i - 1)
      <4>1. /\ k \in Nat /\ 1 <= k /\ k < n /\ n \in Nat /\ n <= Len(pipeline) /\ Len(pipeline) \in Nat
            /\ call.taken \in Nat /\ 1 <= call.taken
        BY <1>1, <1>3, <1>4, <1>5, <3>1, <3>2
      <4> QED
        BY <1>5, <4>1, SMTT(20)
    <3>4. sent[call.taken + k] = v
      BY <1>3, <1>4, <3>1, <3>3
    <3>5. CASE call.taken + k <= call.handled
      <4>1. call.taken + k \in 2..call.handled
        BY <1>1, <3>3, <3>5
      <4> QED
        BY <1>1, <3>4, <4>1 DEF Answered, Done, sent
    <3>6. CASE call.taken + k > call.handled
      <4>1. call.taken + k \in (call.handled + 1)..(i - 1)
        BY <1>1, <3>3, <3>6
      <4> QED
        BY <3>4, <4>1
    <3> QED
      BY <1>1, <3>3, <3>5, <3>6, SMTT(20)
  <2> QED
    BY <2>1, <2>2, <2>3 DEF Fates
<1> QED
  BY <1>6, <1>7, <1>8 DEF sent

LEMMA AbandonedInOrder ==
  ASSUME IInv, OwnerInv, SavedInv, AnswerInv
  PROVE  \A s \in Abandoned(call) : InOrder(s.rest)
<1> SUFFICES ASSUME call # NoCall, Rest(call) # <<>> PROVE InOrder(Rest(call))
  BY DEF Abandoned
<1>1. IsOpen /\ TypeOK /\ CallInv
  BY DEF IInv, TaskInv
<1>2. /\ call.handled \in Nat /\ call.sent \in Seq(Write \union {Handshake}) /\ Len(call.sent) \in Nat
      /\ call.handled <= Len(call.sent)
  BY <1>1, CallType DEF CallInv
<1>3. call.handled # 0 /\ Rest(call) = SubSeq(call.sent, call.handled + 1, Len(call.sent))
  BY DEF Rest
<1>4. /\ Len(Rest(call)) = Len(call.sent) - call.handled
      /\ \A i \in 1..(Len(call.sent) - call.handled) : Rest(call)[i] = call.sent[call.handled + i]
  <2> DEFINE sent == call.sent
             k == call.handled
  <2>1. sent \in Seq(Write \union {Handshake}) /\ k \in Nat /\ k <= Len(sent)
    BY <1>2
  <2> HIDE DEF sent, k
  <2>2. LET r == SubSeq(sent, k + 1, Len(sent)) IN
        Len(r) = Len(sent) - k /\ \A i \in 1..(Len(sent) - k) : r[i] = sent[k + i]
    BY <2>1, RestOf
  <2> QED
    BY <1>3, <2>2 DEF sent, k
<1> DEFINE r == Rest(call)
<1> HIDE DEF r
<1>5. ASSUME NEW i \in 1..Len(r)
      PROVE  /\ fate[r[i]] # "unsaved"
             /\ Before(r[i]) \subseteq Done \union {r[j] : j \in 1..(i - 1)}
  <2>0. i \in 1..(Len(call.sent) - call.handled)
    BY <1>4 DEF r
  <2> DEFINE m == call.handled + i
  <2>1. /\ m \in 2..Len(call.sent) /\ m > call.handled /\ r[i] = call.sent[m]
    <3>1. m \in 2..Len(call.sent) /\ m > call.handled
      BY <1>2, <1>3, <2>0, SMTT(20)
    <3>2. r[i] = call.sent[m]
      BY <1>4, <2>0 DEF r
    <3> QED
      BY <3>1, <3>2
  <2>2. m - 1 = call.handled + (i - 1)
    BY <1>2, <2>0
  <2> HIDE DEF m
  <2>3. /\ fate[call.sent[m]] # "unsaved"
        /\ Before(call.sent[m]) \subseteq Done \union {call.sent[j] : j \in (call.handled + 1)..(m - 1)}
    BY <1>1, <2>1, SentInOrder
  <2>4. ASSUME NEW j \in (call.handled + 1)..(m - 1)
        PROVE  call.sent[j] \in {r[k] : k \in 1..(i - 1)}
    <3>1. j - call.handled \in 1..(i - 1) /\ j - call.handled \in 1..(Len(call.sent) - call.handled)
          /\ call.handled + (j - call.handled) = j
      BY <1>2, <2>0, <2>2
    <3>2. r[j - call.handled] = call.sent[j]
      BY <1>4, <3>1 DEF r
    <3> QED
      BY <3>1, <3>2
  <2> QED
    BY <2>1, <2>3, <2>4
<1> QED
  BY <1>5 DEF InOrder, r

\* Writes that were saved stay saved, and none is saved before another.
LEMMA OrderFrame ==
  ASSUME IInv, OwnerInv, SavedInv, AnswerInv, OrderInv, NewestInv',
         \A w \in Write : fate[w] # "unsaved" => fate'[w] # "unsaved" /\ Before(w)' \subseteq Before(w),
         UNCHANGED applied, refused \subseteq refused', stale' \subseteq stale \union Abandoned(call)
  PROVE  OrderInv'
<1>1. Applied' = Applied /\ Done \subseteq Done' /\ Applied \subseteq Write
  BY DEF Applied, Done, IInv, TypeOK
<1>2. \A w \in Applied' : fate'[w] # "unsaved" /\ Before(w)' \subseteq Done'
  BY <1>1 DEF OrderInv
<1>3. ASSUME NEW s \in stale' PROVE InOrder(s.rest)'
  <2>1. InOrder(s.rest) /\ s.rest \in Seq(Write)
    <3>1. Abandoned(call) \subseteq Stales
      BY AbandonedType DEF IInv
    <3> QED
      BY <3>1, AbandonedInOrder DEF OrderInv, IInv, TypeOK, Stales
  <2>2. ASSUME NEW i \in 1..Len(s.rest)
        PROVE  /\ fate'[s.rest[i]] # "unsaved"
               /\ Before(s.rest[i])' \subseteq Done' \union {s.rest[j] : j \in 1..(i - 1)}
    <3>1. s.rest[i] \in Write /\ fate[s.rest[i]] # "unsaved"
          /\ Before(s.rest[i]) \subseteq Done \union {s.rest[j] : j \in 1..(i - 1)}
      BY <2>1 DEF InOrder
    <3> QED
      BY <1>1, <3>1
  <2> QED
    BY <2>2 DEF InOrder
<1> QED
  BY <1>2, <1>3 DEF OrderInv

\* The newest write is not saved yet, and no saved one comes after it.
LEMMA WriteMutationsOrder ==
  ASSUME IInv, OwnerInv, SavedInv, AnswerInv, OrderInv, WriteMutations
  PROVE  OrderInv'
<1> DEFINE t == [kind |-> "write", write |-> calls + 1]
<1>1. /\ calls' = calls + 1 /\ owner' = [owner EXCEPT ![calls + 1] = contents.user]
      /\ tasks' = Append(tasks, t)
      /\ UNCHANGED <<fate, applied, refused, stale>>
  BY DEF WriteMutations, serverVars
<1>2. /\ calls \in Nat /\ calls + 1 \in Write /\ owner \in [Write -> User \union {NoUser}]
      /\ Write \subseteq Nat /\ tasks \in Seq(Tasks)
  <2>1. calls \in 0..MaxWrites /\ MaxWrites \in Nat /\ calls < MaxWrites
    BY ConstantsAssumption DEF WriteMutations, IInv, TypeOK
  <2> QED
    BY <2>1, WriteNat DEF IInv, TypeOK, Write
<1>3. \A w \in Write : fate[w] # "unsaved" => w <= calls
  BY <1>2, SMTT(20) DEF SavedInv
<1>4. t \in Tasks /\ t.kind = "write" /\ t.write = calls + 1
  BY <1>2 DEF Tasks
<1> HIDE DEF t
<1>5. NewestInv'
  <2> SUFFICES ASSUME NEW j \in 1..Len(tasks'), tasks'[j].kind = "write",
                      NEW w \in Write, fate[w] # "unsaved"
               PROVE  w < tasks'[j].write
    BY <1>1 DEF NewestInv
  <2>1. /\ Len(tasks') = Len(tasks) + 1 /\ tasks'[Len(tasks')] = t
        /\ \A i \in 1..Len(tasks') : i # Len(tasks') => i \in 1..Len(tasks) /\ tasks'[i] = tasks[i]
    BY <1>1, <1>2, <1>4, AppendKept
  <2>2. CASE j = Len(tasks')
    <3>1. w <= calls /\ w \in Nat /\ tasks'[j].write = calls + 1
      BY <1>2, <1>3, <1>4, <2>1, <2>2
    <3> QED
      BY <1>2, <3>1
  <2>3. CASE j # Len(tasks')
    BY <2>1, <2>3 DEF OrderInv, NewestInv
  <2> QED
    BY <2>2, <2>3
<1>6. ASSUME NEW w \in Write, fate[w] # "unsaved" PROVE owner'[w] = owner[w]
  <2>1. w # calls + 1
    BY <1>2, <1>3, <1>6
  <2> QED
    BY <1>1, <1>2, <2>1
<1>7. \A w \in Write : fate[w] # "unsaved" => fate'[w] # "unsaved" /\ Before(w)' \subseteq Before(w)
  BY <1>1, <1>6 DEF Before
<1>8. UNCHANGED applied /\ refused \subseteq refused' /\ stale' \subseteq stale \union Abandoned(call)
  BY <1>1
<1> QED
  BY <1>5, <1>7, <1>8, OrderFrame

LEMMA RunWriteOrder ==
  ASSUME IInv, OwnerInv, SavedInv, AnswerInv, OrderInv, RunWrite
  PROVE  OrderInv'
<1> DEFINE w == Head(tasks).write
<1>1. /\ Runs("write") /\ tasks' = Tail(tasks) /\ fate' = [fate EXCEPT ![w] = "saved"]
      /\ UNCHANGED <<owner, applied, refused, stale>>
  BY DEF RunWrite, appVars, serverVars
<1>2. /\ Head(tasks) \in Tasks /\ Head(tasks).kind = "write" /\ Head(tasks) = tasks[1] /\ 1 \in 1..Len(tasks)
      /\ Len(tasks') = Len(tasks) - 1 /\ Len(tasks) \in Nat \ {0}
      /\ \A i \in 1..Len(tasks') : tasks'[i] = tasks[i + 1]
  BY <1>1, HeadTask
<1>3. w \in Write /\ Write \subseteq Nat /\ fate \in [Write -> Fates]
  BY <1>2, WriteNat DEF Tasks, IInv, TypeOK, Fates
<1>4. \A v \in Write : fate[v] # "unsaved" => v < w
  BY <1>2 DEF OrderInv, NewestInv
<1>5. \A j \in 2..Len(tasks) : tasks[j].kind = "write" => w < tasks[j].write
  BY <1>2 DEF IInv, QueueInv
<1> HIDE DEF w
<1>6. \A v \in Write : fate'[v] = IF v = w THEN "saved" ELSE fate[v]
  BY <1>1, <1>3
<1>7. NewestInv'
  <2> SUFFICES ASSUME NEW j \in 1..Len(tasks'), tasks'[j].kind = "write",
                      NEW v \in Write, fate'[v] # "unsaved"
               PROVE  v < tasks'[j].write
    BY DEF NewestInv
  <2>1. j + 1 \in 2..Len(tasks) /\ j + 1 \in 1..Len(tasks) /\ tasks'[j] = tasks[j + 1]
    BY <1>2
  <2>2. CASE v = w
    BY <1>5, <2>1, <2>2
  <2>3. CASE v # w
    BY <1>6, <2>1, <2>3 DEF OrderInv, NewestInv
  <2> QED
    BY <2>2, <2>3
<1>8. ASSUME NEW v \in Write, fate[v] # "unsaved"
      PROVE  fate'[v] # "unsaved" /\ Before(v)' \subseteq Before(v)
  <2>1. v < w /\ v \in Nat /\ w \in Nat
    BY <1>3, <1>4, <1>8
  <2>2. ASSUME NEW x \in Write, x < v PROVE x # w
    BY <1>3, <2>1, <2>2
  <2> QED
    BY <1>1, <1>6, <1>8, <2>2 DEF Before
<1>9. UNCHANGED applied /\ refused \subseteq refused' /\ stale' \subseteq stale \union Abandoned(call)
  BY <1>1
<1> QED
  BY <1>7, <1>8, <1>9, OrderFrame

\* The server applies the next request of the call.
LEMMA HandleOrder ==
  ASSUME IInv, OwnerInv, SavedInv, AnswerInv, OrderInv, NewestInv', Handle
  PROVE  OrderInv'
<1>1. /\ Live /\ applied' = IF NextRequest = Handshake THEN applied ELSE applied \union {<<NextRequest, call.user>>}
      /\ UNCHANGED <<owner, fate, refused, stale>>
  BY DEF Handle, appVars
<1>2. call # NoCall /\ IsOpen /\ HandshakeFirst(call.sent)
  BY <1>1, SentWrites DEF Live, IInv, TaskInv
<1>3. call.handled + 1 \in 1..Len(call.sent) /\ NextRequest = call.sent[call.handled + 1] /\ call.handled \in Nat
      /\ Len(call.sent) \in Nat
  BY <1>1, <1>2, NextRequestType, CallType DEF IInv, NextRequest
<1>4. CASE NextRequest = Handshake
  BY <1>1, <1>4, OrderFrame DEF Before
<1>5. CASE NextRequest # Handshake
  <2> DEFINE i == call.handled + 1
  <2>1. i \in 2..Len(call.sent) /\ i > call.handled /\ (call.handled + 1)..(i - 1) = {}
    <3>1. i # 1
      BY <1>2, <1>3, <1>5 DEF HandshakeFirst
    <3> QED
      BY <1>3, <3>1
  <2>2. NextRequest = call.sent[i]
    BY <1>3
  <2> HIDE DEF i
  <2>3. /\ fate[call.sent[i]] # "unsaved"
        /\ Before(call.sent[i]) \subseteq Done \union {call.sent[j] : j \in (call.handled + 1)..(i - 1)}
    BY <1>2, <2>1, SentInOrder
  <2>4. fate[NextRequest] # "unsaved" /\ Before(NextRequest) \subseteq Done
    BY <2>1, <2>2, <2>3
  <2>5. applied' = applied \union {<<NextRequest, call.user>>} /\ <<NextRequest, call.user>>[1] = NextRequest
    BY <1>1, <1>5
  <2>6. Applied' = Applied \union {NextRequest}
    BY <2>5 DEF Applied
  <2>7. Done \subseteq Done' /\ \A w : Before(w)' = Before(w)
    BY <1>1, <2>6 DEF Done, Before
  <2>8. \A w \in Applied' : fate'[w] # "unsaved" /\ Before(w)' \subseteq Done'
    BY <1>1, <2>4, <2>6, <2>7 DEF OrderInv
  <2>9. \A s \in stale' : InOrder(s.rest)'
    BY <1>1, <2>7 DEF OrderInv, InOrder
  <2> QED
    BY <2>8, <2>9 DEF OrderInv
<1> QED
  BY <1>4, <1>5

\* The server goes on with the first of what a call has left.
LEMMA HandleStaleOrder ==
  ASSUME IInv, OrderInv, NewestInv', NEW s \in stale, HandleStale(s)
  PROVE  OrderInv'
<1> DEFINE r == s.rest
           t == [s EXCEPT !.rest = Tail(@)]
<1>1. /\ applied' = applied \union {<<Head(r), s.user>>}
      /\ stale' \subseteq stale \union {t}
      /\ UNCHANGED <<owner, fate, refused>>
  BY DEF HandleStale, appVars
<1>2. s \in Stales /\ r \in Seq(Write) /\ r # <<>> /\ InOrder(r)
  BY DEF IInv, TypeOK, Stales, OrderInv
<1>3. t.rest = Tail(r)
  BY <1>2 DEF Stales
<1> HIDE DEF r, t
<1>4. /\ Head(r) = r[1] /\ Len(r) \in Nat \ {0} /\ Len(Tail(r)) = Len(r) - 1
      /\ \A i \in 1..Len(Tail(r)) : Tail(r)[i] = r[i + 1]
  BY <1>2, HeadTailProperties, EmptySeq
<1>5. fate[r[1]] # "unsaved" /\ Before(r[1]) \subseteq Done
  <2>1. 1 \in 1..Len(r) /\ 1..(1 - 1) = {}
    BY <1>4
  <2> QED
    BY <1>2, <2>1 DEF InOrder
<1>6. Applied' = Applied \union {r[1]}
  <2>1. <<Head(r), s.user>>[1] = r[1]
    BY <1>4
  <2> QED
    BY <1>1, <2>1 DEF Applied
<1>7. Done' = Done \union {r[1]} /\ \A w : Before(w)' = Before(w)
  BY <1>1, <1>6 DEF Done, Before
<1>8. \A w \in Applied' : fate'[w] # "unsaved" /\ Before(w)' \subseteq Done'
  BY <1>1, <1>5, <1>6, <1>7 DEF OrderInv
<1>9. InOrder(Tail(r))'
  <2> SUFFICES ASSUME NEW i \in 1..Len(Tail(r))
               PROVE  /\ fate[Tail(r)[i]] # "unsaved"
                      /\ Before(Tail(r)[i]) \subseteq Done' \union {Tail(r)[j] : j \in 1..(i - 1)}
    BY <1>1, <1>7 DEF InOrder
  <2>1. i + 1 \in 1..Len(r) /\ Tail(r)[i] = r[i + 1] /\ i + 1 - 1 = i
    BY <1>4
  <2>2. /\ fate[r[i + 1]] # "unsaved"
        /\ Before(r[i + 1]) \subseteq Done \union {r[j] : j \in 1..i}
    BY <1>2, <2>1 DEF InOrder
  <2>3. ASSUME NEW j \in 1..i, j # 1 PROVE r[j] \in {Tail(r)[k] : k \in 1..(i - 1)}
    <3>1. j - 1 \in 1..(i - 1) /\ j - 1 \in 1..Len(Tail(r)) /\ j - 1 + 1 = j
      BY <1>4, <2>3
    <3>2. Tail(r)[j - 1] = r[j]
      BY <1>4, <3>1
    <3> QED
      BY <3>1, <3>2
  <2> QED
    BY <1>7, <2>1, <2>2, <2>3
<1>10. \A x \in stale' : InOrder(x.rest)'
  <2>1. ASSUME NEW x \in stale PROVE InOrder(x.rest)'
    BY <1>1, <1>7 DEF OrderInv, InOrder
  <2> QED
    BY <1>1, <1>3, <1>9, <2>1
<1> QED
  BY <1>8, <1>10 DEF OrderInv

\* The head of the pipeline has been settled, which was saved already.
LEMMA SettleFates ==
  ASSUME IInv, SavedInv, pipeline # <<>>, NEW outcome \in {"acked", "rejected"}, Settle(outcome)
  PROVE  \A w \in Write : fate[w] # "unsaved" <=> fate'[w] # "unsaved"
<1> DEFINE h == Head(pipeline)
<1>1. fate' = [fate EXCEPT ![h] = outcome]
  BY DEF Settle
<1>2. h \in Write /\ h = queue[current][1] /\ queue[current] # <<>> /\ queue[current] \in Seq(Write)
  BY SettledPrefix
<1>3. 1 \in 1..Len(queue[current]) /\ current \in User /\ fate \in [Write -> Fates]
  BY <1>2, EmptySeq DEF IInv, TypeOK, Fates
<1>4. fate[h] = "saved"
  BY <1>2, <1>3 DEF SavedInv
<1> HIDE DEF h
<1> QED
  BY <1>1, <1>2, <1>3, <1>4

LEMMA OrderStep ==
  ASSUME IInv, tasks' \in Seq(Tasks), UserInv, SavedInv, AnswerInv, OrderInv, [Next]_vars
  PROVE  OrderInv'
<1>1. OwnerInv
  BY DEF UserInv
<1>2. ASSUME ~WriteMutations, \A w \in Write : fate[w] # "unsaved" <=> fate'[w] # "unsaved"
      PROVE  NewestInv'
  <2>1. OldWrites
    BY <1>2, WritesStay
  <2> QED
    BY <1>2, <2>1 DEF OldWrites, OrderInv, NewestInv
<1>3. ASSUME ~WriteMutations, \A w \in Write : fate[w] # "unsaved" <=> fate'[w] # "unsaved",
             UNCHANGED <<owner, applied>>, refused \subseteq refused', stale' \subseteq stale \union Abandoned(call)
      PROVE  OrderInv'
  <2>1. \A w \in Write : fate[w] # "unsaved" => fate'[w] # "unsaved" /\ Before(w)' \subseteq Before(w)
    BY <1>3 DEF Before
  <2> QED
    BY <1>1, <1>2, <1>3, <2>1, OrderFrame
<1>4. ASSUME ~WriteMutations,
             UNCHANGED <<owner, fate, applied>>, refused \subseteq refused', stale' \subseteq stale \union Abandoned(call)
      PROVE  OrderInv'
  BY <1>3, <1>4
<1>5. ASSUME ~WriteMutations, NEW permanent, NEW todo, CloseWithError(permanent, todo),
             UNCHANGED <<owner, applied, refused>>
      PROVE  OrderInv'
  <2>1. stale' \subseteq stale \union Abandoned(call)
    BY <1>5 DEF CloseWithError
  <2>2. CASE pipeline # <<>> /\ Settle("rejected")
    <3>1. \A w \in Write : fate[w] # "unsaved" <=> fate'[w] # "unsaved"
      BY <2>2, SettleFates
    <3> QED
      BY <1>3, <1>5, <2>1, <3>1
  <2>3. CASE UNCHANGED fate
    BY <1>4, <1>5, <2>1, <2>3
  <2> QED
    BY <1>5, <2>2, <2>3 DEF CloseWithError
<1>6. CASE WriteMutations
  BY <1>1, <1>6, WriteMutationsOrder
<1>7. CASE ~WriteMutations /\ MainThread
  BY <1>4, <1>7 DEF MainThread, Announce, TakeToken, SignIn, BeginToken, AnswerToken, appVars, serverVars
<1>8. CASE ~WriteMutations /\ Network
  <2>1. UNCHANGED fate
    BY <1>8 DEF Network, Handle, Refuse, Lose, CompleteRead, FailOperation, HandleStale
  <2>2. NewestInv'
    BY <1>2, <1>8, <2>1
  <2>3. CASE Refuse \/ Lose \/ CompleteRead \/ FailOperation
    BY <1>4, <1>8, <2>3 DEF Refuse, Lose, CompleteRead, FailOperation, appVars, serverVars
  <2> QED
    BY <1>1, <1>8, <2>2, <2>3, HandleOrder, HandleStaleOrder DEF Network
<1>9. CASE ~WriteMutations /\ Worker
  <2>1. CASE RunWrite
    BY <1>1, <2>1, RunWriteOrder
  <2>2. CASE RunRead
    <3>1. Runs("read") /\ UNCHANGED <<owner, applied, refused, stale>>
      BY <2>2 DEF RunRead, appVars, serverVars
    <3>2. CASE UNCHANGED fate
      BY <1>4, <1>9, <3>1, <3>2
    <3>3. CASE handshake /\ Settle("acked")
      <4>1. call # NoCall /\ call.taken < call.handled
        BY <3>1, HeadTask DEF Completions, IInv, CallInv, Queued
      <4>2. pipeline # <<>>
        BY <3>3, <4>1, HeadAnswered
      <4>3. \A w \in Write : fate[w] # "unsaved" <=> fate'[w] # "unsaved"
        BY <3>3, <4>2, SettleFates
      <4> QED
        BY <1>3, <1>9, <3>1, <4>3
    <3> QED
      BY <2>2, <3>2, <3>3 DEF RunRead
  <2>3. CASE RunResume
    <3>1. UNCHANGED <<owner, applied, refused>>
      BY <2>3 DEF RunResume, appVars
    <3>2. CASE UNCHANGED <<fate, stale>>
      BY <1>4, <1>9, <3>1, <3>2
    <3>3. CASE CloseWithError(FALSE, Tail(tasks))
      BY <1>5, <1>9, <3>1, <3>3
    <3> QED
      BY <2>3, <3>2, <3>3 DEF RunResume
  <2>4. CASE RunFinish
    BY <1>5, <1>9, <2>4 DEF RunFinish, appVars
  <2>5. CASE RunNoop \/ RunCredential \/ RunFail \/ BackoffElapses \/ IdleElapses \/ ConnectivityChanges
    BY <1>4, <1>9, <2>5 DEF RunNoop, RunCredential, RunFail, BackoffElapses, IdleElapses, ConnectivityChanges,
                            RestartNetwork, appVars, serverVars
  <2> QED
    BY <1>9, <2>1, <2>2, <2>3, <2>4, <2>5 DEF Worker
<1>10. CASE ~WriteMutations /\ Kill
  BY <1>4, <1>10 DEF Kill, appVars
<1>11. CASE ~WriteMutations /\ UNCHANGED vars
  BY <1>4, <1>11 DEF vars, appVars, serverVars
<1> QED
  BY <1>6, <1>7, <1>8, <1>9, <1>10, <1>11 DEF Next

(***************************************************************************)
(* The writes, at every step.                                               *)
(***************************************************************************)

WritesInv == Invariant /\ UserInv /\ SavedInv /\ AnswerInv /\ OrderInv

LEMMA WritesInit == Init => WritesInv
<1> SUFFICES ASSUME Init PROVE SavedInv /\ AnswerInv /\ OrderInv
  BY InvariantInit, UserInit DEF WritesInv
<1>1. /\ queue = [u \in User |-> <<>>] /\ callbacks = [u \in User |-> {}]
      /\ fate = [w \in Write |-> "unsaved"] /\ tasks = <<>>
      /\ state = "Initial" /\ stale = {} /\ applied = {}
  BY DEF Init
<1>2. /\ Len(tasks) = 0 /\ Applied = {}
      /\ \A u \in User : Len(queue[u]) = 0 /\ callbacks[u] = {}
  BY <1>1 DEF Applied
<1> QED
  BY <1>1, <1>2 DEF SavedInv, AnswerInv, OrderInv, NewestInv, IsOpen

LEMMA WritesStep == WritesInv /\ [Next]_vars => WritesInv'
<1> SUFFICES ASSUME Invariant, UserInv, SavedInv, AnswerInv, OrderInv, [Next]_vars
             PROVE  /\ Invariant' /\ UserInv' /\ SavedInv' /\ AnswerInv'
                    /\ OrderInv'
  BY DEF WritesInv
<1>1. Invariant'
  BY InvariantStep
<1>2. TypeOK /\ IInv /\ tasks' \in Seq(Tasks)
  BY <1>1 DEF Invariant, IInv, TypeOK
<1>3. ForceInv' /\ MainInv' /\ OwnerInv'
  BY <1>2, ForceStep, MainStep, OwnerStep DEF UserInv
<1> QED
  BY <1>1, <1>2, <1>3, SavedStep, AnswerStep, OrderStep DEF UserInv

\* No write is lost, however calls end, users change and the process is killed:
\* a write that has been saved is in the queue of its user until an answer for
\* it settles it, and whoever waits for the outcome waits for a write that is
\* there.  What Settle removes is what the answer is about, because the head of
\* the pipeline is the first request of the call without an answer.
THEOREM SavedWritesStay == Spec => []NothingLost
<1>1. WritesInv => NothingLost
  <2> SUFFICES ASSUME TypeOK, SavedInv PROVE NothingLost
    BY DEF WritesInv, Invariant, IInv
  <2>1. \A u \in User : DOMAIN queue[u] = 1..Len(queue[u])
    BY DEF TypeOK
  <2>2. \A w \in Write : fate[w] = "saved" => \E i \in DOMAIN queue[owner[w]] : queue[owner[w]][i] = w
    BY <2>1 DEF SavedInv, Holds
  <2> QED
    BY <2>2 DEF SavedInv, NothingLost
<1> QED
  BY <1>1, WritesInit, WritesStep, PTL DEF Spec

\* A user's writes reach the server in the order the app made them, whatever the
\* server still handles of calls that have ended: on every call, and in what a
\* call leaves, only settled writes come before the first that is not handled.
THEOREM AppliedAsMade == Spec => []AppliedInOrder
<1>1. WritesInv => AppliedInOrder
  <2> SUFFICES ASSUME OrderInv PROVE AppliedInOrder
    BY DEF WritesInv
  <2> QED
    BY DEF OrderInv, Before, Done, AppliedInOrder
<1> QED
  BY <1>1, WritesInit, WritesStep, PTL DEF Spec
=============================================================================
