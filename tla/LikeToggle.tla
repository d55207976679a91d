---------------------------- MODULE LikeToggle ----------------------------
(***************************************************************************)
(* The like button of one post.  A tap reads the user's like documents and  *)
(* then, by what it read, deletes them one by one or adds one: a check and  *)
(* an act with awaits between them.  LikeDislikeRequest has no ==, so every *)
(* tap is a provider of its own, no loading flag covers it, and the same    *)
(* user may be signed in on several devices: taps overlap.                  *)
(*                                                                          *)
(* Neither the check nor the act is the server's alone.  The get() of the   *)
(* check is a plain one: a device that is offline answers it from its       *)
(* cache, which holds any part of what the server ever held.  The writes of *)
(* the act are saved in the device's mutation queue, sent in order until    *)
(* they are answered, also after the process was killed; and the server may *)
(* still handle the copies that calls now ended had sent (WritePipeline has *)
(* all of this in detail).                                                  *)
(*                                                                          *)
(* A like document carries the name of the tap that added it.               *)
(*                                                                          *)
(* A definition marked Faulty is not part of the model: it is a form of the *)
(* definition after it with a plausible fault, which some property refutes. *)
(***************************************************************************)
EXTENDS Sequences

CONSTANTS
    User,   \* signed-in users
    Device, \* devices, each with the mutation queue of one user
    Owner,  \* the user of each device
    Tap     \* calls of likeDislikePostProvider

ASSUME ConstantsAssumption == Owner \in [Device -> User]

VARIABLES
    likes,      \* the like documents of the post the server has
    known,      \* those it has ever had, of which a cache may hold any
    queue,      \* mutation queue of each device, persisted
    late,       \* writes that ended calls have left to the server
    pc,         \* where each tap awaits
    at,         \* the device of each tap
    found,      \* the documents a tap read and has not deleted yet
    alone,      \* taps that read what the server had, with nothing of their
                \* user's beside them so far
    astray      \* users of whom nothing is promised, see Strays

vars == <<likes, known, queue, late, pc, at, found, alone, astray>>

Write == [op : {"add", "delete"}, doc : Tap, tap : Tap]

\* The user of a tap, and of the document it added.
By(t) == Owner[at[t]]

LikesOf(u) == {l \in likes : By(l) = u}

\* What the heart of u shows to whoever reads the server.
HasLiked(u) == LikesOf(u) # {}

Runs(t) == pc[t] \in {"get", "write"}

\* Every tap makes a request object of its own, so one user may have several.
Running(u) == {t \in Tap : Runs(t) /\ By(t) = u}

Queued(d) == {queue[d][i] : i \in DOMAIN queue[d]}

\* What a user's taps have not brought to an end: calls, and writes without
\* an answer, whose taps may have been killed.
Unsettled(u) ==
    Running(u) # {} \/ \E d \in Device : Owner[d] = u /\ queue[d] # <<>>

Init ==
    /\ likes = {} /\ known = {} /\ late = {}
    /\ queue = [d \in Device |-> <<>>]
    /\ pc = [t \in Tap |-> "new"]
    /\ at \in [Tap -> Device]
    /\ found = [t \in Tap |-> {}]
    /\ alone = {} /\ astray = {}

\* The promise to a user ends when he taps before the last tap has settled,
\* when a tap reads something else than the server has, and when a copy of a
\* write that was answered long ago changes his likes.
Strays(u) ==
    /\ astray' = astray \union {u}
    /\ alone' = {t \in alone : By(t) # u}

\* LikeButton.onPressed: a new request is read, whatever else is running.
Press(t) ==
    /\ pc[t] = "new"
    /\ pc' = [pc EXCEPT ![t] = "get"]
    /\ IF Unsettled(By(t))
       THEN Strays(By(t))
       ELSE /\ alone' = alone \union {t}
            /\ UNCHANGED astray
    /\ UNCHANGED <<likes, known, queue, late, at, found>>

Added(d) == {w.doc : w \in {v \in Queued(d) : v.op = "add"}}
Deleted(d) == {w.doc : w \in {v \in Queued(d) : v.op = "delete"}}

\* The write a tap makes once it knows which documents it has to delete.
NextWrite(t, docs, w) ==
    /\ w.tap = t
    /\ IF docs = {} THEN w.op = "add" /\ w.doc = t ELSE w.op = "delete" /\ w.doc \in docs

\* Faulty: does not look at the answer.
ReadNothing(t) ==
    /\ pc[t] = "get"
    /\ queue' = [queue EXCEPT ![at[t]] = Append(@, [op |-> "add", doc |-> t, tap |-> t])]
    /\ pc' = [pc EXCEPT ![t] = "write"]
    /\ UNCHANGED <<likes, known, late, at, found, alone, astray>>

\* The query answers, from the backend or from the cache, either one changed
\* by what the device has not sent yet; the first write is queued at once.
Read(t) ==
    /\ pc[t] = "get"
    /\ \E S \in SUBSET {l \in known : By(l) = By(t)}, w \in Write :
          LET docs == (S \union Added(at[t])) \ Deleted(at[t])
          IN  /\ NextWrite(t, docs, w)
              /\ found' = [found EXCEPT ![t] = docs]
              /\ queue' = [queue EXCEPT ![at[t]] = Append(@, w)]
              /\ IF S = LikesOf(By(t)) THEN UNCHANGED <<alone, astray>> ELSE Strays(By(t))
    /\ pc' = [pc EXCEPT ![t] = "write"]
    /\ UNCHANGED <<likes, known, late, at>>

\* What the server does with a write; deleting what is gone succeeds.
Effect(w) == IF w.op = "add" THEN likes \union {w.doc} ELSE likes \ {w.doc}

Apply(w) ==
    /\ likes' = Effect(w)
    /\ known' = known \union Effect(w)

\* Faulty: a dislike ends with the first document.
AnsweredOnce(w, d) ==
    IF Runs(w.tap)
    THEN /\ pc' = [pc EXCEPT ![w.tap] = "over"]
         /\ found' = [found EXCEPT ![w.tap] = {}]
         /\ queue' = [queue EXCEPT ![d] = Tail(@)]
         /\ alone' = alone \ {w.tap}
         /\ astray' = IF w.op = "delete" /\ w.tap \in alone THEN astray \ {By(w.tap)} ELSE astray
    ELSE /\ queue' = [queue EXCEPT ![d] = Tail(@)]
         /\ UNCHANGED <<pc, found, alone, astray>>

\* The answer to the write at the head of a queue reaches the tap that waits
\* for it, unless that was killed: the next deletion of its loop is queued,
\* or it is over.  A lone dislike that has come to its end has cleared all
\* its user had, and the promise holds again.
Answered(w, d) ==
    LET left == found[w.tap] \ {w.doc}
    IN  IF ~Runs(w.tap)
        THEN /\ queue' = [queue EXCEPT ![d] = Tail(@)]
             /\ UNCHANGED <<pc, found, alone, astray>>
        ELSE IF left # {}
        THEN /\ \E v \in Write :
                   /\ NextWrite(w.tap, left, v)
                   /\ queue' = [queue EXCEPT ![d] = Append(Tail(@), v)]
             /\ found' = [found EXCEPT ![w.tap] = left]
             /\ UNCHANGED <<pc, alone, astray>>
        ELSE /\ pc' = [pc EXCEPT ![w.tap] = "over"]
             /\ found' = [found EXCEPT ![w.tap] = {}]
             /\ queue' = [queue EXCEPT ![d] = Tail(@)]
             /\ alone' = alone \ {w.tap}
             /\ astray' = IF w.op = "delete" /\ w.tap \in alone
                          THEN astray \ {By(w.tap)} ELSE astray

\* The server handles the write at the head of a queue and its answer comes.
Handle(d) ==
    /\ queue[d] # <<>>
    /\ Apply(Head(queue[d]))
    /\ Answered(Head(queue[d]), d)
    /\ UNCHANGED <<late, at>>

\* The calls in S end with an error or with their process.
End(S) ==
    /\ pc' = [t \in Tap |-> IF t \in S THEN "over" ELSE pc[t]]
    /\ found' = [t \in Tap |-> IF t \in S THEN {} ELSE found[t]]
    /\ alone' = alone \ S

\* A permanent error: the write leaves the queue, and a tap that waits for it
\* catches the error and drops the rest of its loop.
Refuse(d) ==
    /\ queue[d] # <<>>
    /\ queue' = [queue EXCEPT ![d] = Tail(@)]
    /\ End({t \in Tap : Runs(t) /\ t = Head(queue[d]).tap})
    /\ UNCHANGED <<likes, known, late, at, astray>>

\* The query fails; nothing catches that.
ReadError(t) ==
    /\ pc[t] = "get"
    /\ End({t})
    /\ UNCHANGED <<likes, known, queue, late, at, astray>>

\* The process is killed: its taps end, its queue stays.
Kill(d) ==
    /\ \E t \in Tap : Runs(t) /\ at[t] = d
    /\ End({t \in Tap : Runs(t) /\ at[t] = d})
    /\ UNCHANGED <<likes, known, queue, late, at, astray>>

\* A call ends before it answered what was sent on it.  The writes are sent
\* again, and the server may handle the first copies too, whenever it likes.
Lose(d) ==
    /\ ~(Queued(d) \subseteq late)
    /\ late' = late \union Queued(d)
    /\ UNCHANGED <<likes, known, queue, pc, at, found, alone, astray>>

\* The server handles such a copy.  While the write is still in the queue
\* this only comes before the answer; afterwards it may undo what came since.
HandleLate(w) ==
    /\ w \in late
    /\ Apply(w)
    /\ IF Effect(w) = likes \/ \E d \in Device : w \in Queued(d)
       THEN UNCHANGED <<alone, astray>>
       ELSE Strays(By(w.doc))
    /\ UNCHANGED <<queue, late, pc, at, found>>

Next ==
    \/ \E t \in Tap : Press(t) \/ Read(t) \/ ReadError(t)
    \/ \E d \in Device : Handle(d) \/ Refuse(d) \/ Kill(d) \/ Lose(d)
    \/ \E w \in late : HandleLate(w)

Spec == Init /\ [][Next]_vars

----------------------------------------------------------------------------
(* Properties.                                                              *)

TypeOK ==
    /\ likes \subseteq known /\ known \subseteq Tap
    /\ queue \in [Device -> Seq(Write)]
    /\ late \subseteq Write
    /\ pc \in [Tap -> {"new", "get", "write", "over"}]
    /\ at \in [Tap -> Device]
    /\ found \in [Tap -> SUBSET Tap]
    /\ alone \subseteq Tap
    /\ astray \subseteq User

\* A user who waits for a tap to settle, on the server too, before the next
\* one, and whose taps read what the server has, has at most one like
\* document, whatever was killed, refused or sent twice.  After taps that
\* overlapped or read a stale cache, a lone dislike that runs to its end
\* brings this back: it has all the user's documents before it.
OneLikePerUser ==
    \A u \in User \ astray : \A k, l \in LikesOf(u) : k = l

\* For such a user a tap and the sending of its writes, however often and
\* however long after the tap itself was killed, amount to one flip of a
\* boolean, or to nothing.
Effective(w) == IF w.op = "add" THEN w.doc \in likes ELSE w.doc \notin likes

Phase(u) ==
    IF u \in astray \/ ~Unsettled(u) THEN "idle"
    ELSE IF \E d \in Device : Owner[d] = u /\ \E w \in Queued(d) : Effective(w) THEN "flipped"
    ELSE "pressed"

Flip == INSTANCE LikeFlip WITH
    liked <- [u \in User |-> u \notin astray /\ HasLiked(u)],
    phase <- [u \in User |-> Phase(u)],
    wild <- astray

FlipSpec == Flip!Spec
============================================================================
