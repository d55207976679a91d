--------------------------- MODULE PostLifecycle ---------------------------
(***************************************************************************)
(* The life of a post of one author: its media files are put into Firebase  *)
(* Storage one by one, the post document that names them is written to      *)
(* Firestore last; editImagePost puts new files and then rewrites the       *)
(* lists of the document; deletePost removes files, comments, likes and the *)
(* document, in that order.  None of the three is a transaction: between    *)
(* two awaits every other device, every commenter and every liker may run,  *)
(* an answer may be an error, and the process may be killed.                *)
(*                                                                          *)
(* A write of the document is kept by the device until it is answered, also *)
(* by one that was killed, and sent again whenever the stream that carried  *)
(* it has ended: the server may handle it more than once, and long after    *)
(* the call has returned (WritePipeline has the queue in detail).           *)
(*                                                                          *)
(* A session is one running call of a notifier: the author may be signed in *)
(* on several devices, and one device may start a second call when the      *)
(* first one's loading overlay is not up.                                   *)
(*                                                                          *)
(* A definition marked Faulty is not part of the model: it is a form of the *)
(* definition after it with a plausible fault, which some property refutes. *)
(***************************************************************************)
EXTENDS Naturals, Sequences, FiniteSets, Functions

CONSTANTS
    Session,    \* concurrent calls of upload / editImagePost / deletePost
    Post,       \* document ids of posts
    Name,       \* storage names (uuid v4), each generated once
    CommentId,  \* distinguishes the comments of one post
    LikeId,     \* distinguishes its likes
    MaxFiles,   \* media files of one call (the gallery picker takes 4)
    MaxCopies,  \* bound: writes the server may handle once more
    NoPost,     \* the target of a session that runs nothing
    NoDoc       \* the value of a document that does not exist

VARIABLES
    store,      \* objects in Firebase Storage
    posts,      \* the posts collection: document id -> its media lists
    children,   \* the comments and the likes collections
    copies,     \* writes of documents it may handle beside those of the calls
                \* that wait, each any number of times
    pc,         \* where each session awaits
    mode,       \* which call it runs
    target,     \* the post it works on
    files,      \* names of the files it has still to put
    media,      \* the lists it has built, or the ones of the post it deletes
    todo,       \* objects deletePost has still to delete
    seen,       \* documents its last children query returned
    used,       \* names generated so far
    versions,   \* media lists written to each post document: the author's
                \* devices show them before the server has them
    gone,       \* posts whose document has been removed
    doomed,     \* posts some deletePost has been called for
    missed,     \* children that some deletePost of their post did not see: added
                \* after it had looked, or absent from the cache it looked into
    disturbed   \* what has happened of "fault" and "edit"

storageVars == <<store, posts, children, copies>>
sessionVars == <<pc, mode, target, files, media, todo, seen>>
historyVars == <<used, versions, gone, doomed, missed, disturbed>>
vars == <<storageVars, sessionVars, historyVars>>

Folder == {"thumbnails", "originals"}
Object == Folder \X Name
Child == [in: {"comments"}, post: Post, id: CommentId]
         \union [in: {"likes"}, post: Post, id: LikeId]

Media == [thumbs: Seq(Name), origs: Seq(Name)]
NoMedia == [thumbs |-> <<>>, origs |-> <<>>]

ASSUME ConstantsAssumption ==
    /\ MaxFiles \in Nat \ {0}
    /\ NoPost \notin Post
    /\ NoDoc \notin Media

Building == {"thumb", "orig", "write"}
Deleting == {"delete", "comments", "commitComments", "likes", "commitLikes", "remove"}
Waiting == {"sent", "answer"}
PC == {"idle"} \union Building \union Deleting \union Waiting

\* The storage objects a post document with these lists points at.
Objects(m) == ({"thumbnails"} \X Range(m.thumbs)) \union ({"originals"} \X Range(m.origs))

\* Faulty: names without their folder.
DeleteListNames(m) == m.thumbs \o m.origs

\* Faulty: forgets the originals.
DeleteListThumbs(m) == [i \in 1..Len(m.thumbs) |-> <<"thumbnails", m.thumbs[i]>>]

\* The same objects in the order deletePost walks them: thumbnails first.
DeleteList(m) == [i \in 1..Len(m.thumbs) |-> <<"thumbnails", m.thumbs[i]>>]
                 \o [i \in 1..Len(m.origs) |-> <<"originals", m.origs[i]>>]

Published(p) == versions[p] # {}
Alive(p) == posts[p] # NoDoc

\* posts.add, reference.update or reference.delete.
DocWrite == [op: {"add", "update", "delete"}, post: Post, media: Media]
WriteOf(s) ==
    [op |-> IF mode[s] = "delete" THEN "delete" ELSE IF mode[s] = "edit" THEN "update" ELSE "add",
     post |-> target[s], media |-> media[s]]

\* What the server may be handling: what is waited for, and copies.
Outstanding == copies \union {WriteOf(s) : s \in {t \in Session : pc[t] \in Waiting}}

ChildrenOf(p, col) == {c \in children : c.in = col /\ c.post = p}

\* The names the files of a new call get: fresh and pairwise distinct.
FreshNames(n) == {s \in [1..n -> Name \ used] : IsInjective(s)}

Init ==
    /\ store = {}
    /\ posts = [p \in Post |-> NoDoc]
    /\ children = {}
    /\ copies = {}
    /\ pc = [s \in Session |-> "idle"]
    /\ mode = [s \in Session |-> "idle"]
    /\ target = [s \in Session |-> NoPost]
    /\ files = [s \in Session |-> <<>>]
    /\ media = [s \in Session |-> NoMedia]
    /\ todo = [s \in Session |-> <<>>]
    /\ seen = [s \in Session |-> {}]
    /\ used = {}
    /\ versions = [p \in Post |-> {}]
    /\ gone = {}
    /\ doomed = {}
    /\ missed = {}
    /\ disturbed = {}

----------------------------------------------------------------------------
(* What one call does to its own state.                                     *)

Begin(s, m, p, at) ==
    /\ pc[s] = "idle"
    /\ pc' = [pc EXCEPT ![s] = at]
    /\ mode' = [mode EXCEPT ![s] = m]
    /\ target' = [target EXCEPT ![s] = p]

\* The Future completes, or the process that ran it is gone.
Return(s) ==
    /\ pc' = [pc EXCEPT ![s] = "idle"]
    /\ mode' = [mode EXCEPT ![s] = "idle"]
    /\ target' = [target EXCEPT ![s] = NoPost]
    /\ files' = [files EXCEPT ![s] = <<>>]
    /\ media' = [media EXCEPT ![s] = NoMedia]
    /\ todo' = [todo EXCEPT ![s] = <<>>]
    /\ seen' = [seen EXCEPT ![s] = {}]

Goto(s, at) == pc' = [pc EXCEPT ![s] = at]

\* Future.forEach goes on with the next file, or the loop is over.
NextFile(s) ==
    /\ files' = [files EXCEPT ![s] = Tail(files[s])]
    /\ Goto(s, IF Len(files[s]) = 1 THEN "write" ELSE "thumb")

Fault == disturbed' = disturbed \union {"fault"}

----------------------------------------------------------------------------
(* upload, uploadMultipleImageFiles, editImagePost.                         *)

\* The file names are drawn one per file as the loop reaches it; nothing
\* observes the difference from drawing them here.
StartUpload(s, p, m, names) ==
    /\ ~Published(p) /\ p \notin Range(target)
    /\ m = "single" => Len(names) = 1
    /\ Len(names) >= 1
    /\ Begin(s, m, p, "thumb")
    /\ files' = [files EXCEPT ![s] = names]
    /\ used' = used \union Range(names)
    /\ UNCHANGED <<storageVars, media, todo, seen, versions, gone, doomed, missed, disturbed>>

\* Faulty: deletes the old files before the new ones are there, as the code
\* commented out in editImagePost would.
StartEditDeletes(s, p, names) ==
    /\ Published(p) /\ Alive(p)
    /\ Begin(s, "edit", p, IF names = <<>> THEN "write" ELSE "thumb")
    /\ files' = [files EXCEPT ![s] = names]
    /\ used' = used \union Range(names)
    /\ disturbed' = disturbed \union {"edit"}
    /\ store' = store \ Objects(posts[p])
    /\ UNCHANGED <<posts, children, copies, media, todo, seen, versions, gone, doomed, missed>>

\* The document was found by editImagePost's query, by the server or in the
\* device's cache, where it may not have been sent yet or be gone already.  The
\* edit screen can pass no file at all: a second gallery pick that is cancelled
\* empties mediaFile while thumbnailRequest keeps the first pick.
StartEdit(s, p, names) ==
    /\ Published(p)
    /\ Begin(s, "edit", p, IF names = <<>> THEN "write" ELSE "thumb")
    /\ files' = [files EXCEPT ![s] = names]
    /\ used' = used \union Range(names)
    /\ disturbed' = disturbed \union {"edit"}
    /\ UNCHANGED <<storageVars, media, todo, seen, versions, gone, doomed, missed>>

\* The file does not decode.  In the loops the callback returns and the loop
\* goes on; upload returns false.
SkipFile(s) ==
    /\ pc[s] = "thumb"
    /\ IF mode[s] = "single"
       THEN Return(s)
       ELSE /\ NextFile(s)
            /\ UNCHANGED <<mode, target, media, todo, seen>>
    /\ UNCHANGED <<storageVars, historyVars>>

\* Faulty: the thumbnail is put but not listed.
PutThumbUnlisted(s) ==
    /\ pc[s] = "thumb"
    /\ store' = store \union {<<"thumbnails", Head(files[s])>>}
    /\ Goto(s, "orig")
    /\ UNCHANGED <<posts, children, copies, mode, target, files, media, todo, seen, historyVars>>

PutThumb(s) ==
    /\ pc[s] = "thumb"
    /\ store' = store \union {<<"thumbnails", Head(files[s])>>}
    /\ media' = [media EXCEPT ![s].thumbs = Append(@, Head(files[s]))]
    /\ Goto(s, "orig")
    /\ UNCHANGED <<posts, children, copies, mode, target, files, todo, seen, historyVars>>

PutOriginal(s) ==
    /\ pc[s] = "orig"
    /\ store' = store \union {<<"originals", Head(files[s])>>}
    /\ media' = [media EXCEPT ![s].origs = Append(@, Head(files[s]))]
    /\ NextFile(s)
    /\ UNCHANGED <<posts, children, copies, mode, target, todo, seen, historyVars>>

\* A put, or the getDownloadURL after it, throws; the object may have reached
\* the bucket all the same.  uploadMultipleImageFiles catches it and goes on
\* with the next file; the other two return false.
PutError(s) ==
    /\ \/ /\ pc[s] = "thumb"
          /\ store' \in {store, store \union {<<"thumbnails", Head(files[s])>>}}
       \/ /\ pc[s] = "orig"
          /\ store' \in {store, store \union {<<"originals", Head(files[s])>>}}
    /\ IF mode[s] = "multi"
       THEN /\ NextFile(s)
            /\ UNCHANGED <<mode, target, media, todo, seen>>
       ELSE Return(s)
    /\ Fault
    /\ UNCHANGED <<posts, children, copies, used, versions, gone, doomed, missed>>

\* posts.add for an upload, reference.update for an edit.
WritePost(s) ==
    /\ pc[s] = "write"
    /\ versions' = [versions EXCEPT ![target[s]] = @ \union {media[s]}]
    /\ Goto(s, "sent")
    /\ UNCHANGED <<storageVars, mode, target, files, media, todo, seen,
                   used, gone, doomed, missed, disturbed>>

----------------------------------------------------------------------------
(* deletePost.                                                              *)

\* The page passes the Post it was opened with, which may be an earlier
\* version of the document, or one that is gone.
StartDelete(s, p, v) ==
    /\ v \in versions[p]
    /\ Begin(s, "delete", p, IF DeleteList(v) = <<>> THEN "comments" ELSE "delete")
    /\ media' = [media EXCEPT ![s] = v]
    /\ todo' = [todo EXCEPT ![s] = DeleteList(v)]
    /\ doomed' = doomed \union {p}
    /\ UNCHANGED <<storageVars, files, seen, used, versions, gone, missed, disturbed>>

\* Faulty: goes on when an object is gone already.
DeleteObjectTolerant(s) ==
    /\ pc[s] = "delete"
    /\ store' = store \ {Head(todo[s])}
    /\ todo' = [todo EXCEPT ![s] = Tail(todo[s])]
    /\ Goto(s, IF Len(todo[s]) = 1 THEN "comments" ELSE "delete")
    /\ UNCHANGED <<posts, children, copies, mode, target, files, media, seen, historyVars>>

\* Storage answers object-not-found for an object that is gone, and the
\* exception ends deletePost.
DeleteObject(s) ==
    /\ pc[s] = "delete"
    /\ IF Head(todo[s]) \in store
       THEN /\ store' = store \ {Head(todo[s])}
            /\ todo' = [todo EXCEPT ![s] = Tail(todo[s])]
            /\ Goto(s, IF Len(todo[s]) = 1 THEN "comments" ELSE "delete")
            /\ UNCHANGED <<mode, target, files, media, seen>>
       ELSE /\ Return(s)
            /\ UNCHANGED store
    /\ UNCHANGED <<posts, children, copies, historyVars>>

\* _deleteAllDocuments: a plain query, then a transaction that deletes what
\* the query returned.  A device that cannot reach the server answers the query
\* from its cache, which may lack some.
Query(s, at, col, next) ==
    /\ pc[s] = at
    /\ \E found \in SUBSET ChildrenOf(target[s], col) :
          /\ seen' = [seen EXCEPT ![s] = found]
          /\ missed' = missed \union (ChildrenOf(target[s], col) \ found)
    /\ Goto(s, next)
    /\ UNCHANGED <<storageVars, mode, target, files, media, todo,
                   used, versions, gone, doomed, disturbed>>

Commit(s, at, next) ==
    /\ pc[s] = at
    /\ children' = children \ seen[s]
    /\ seen' = [seen EXCEPT ![s] = {}]
    /\ missed' = missed \ seen[s]
    /\ Goto(s, next)
    /\ UNCHANGED <<store, posts, copies, mode, target, files, media, todo,
                   used, versions, gone, doomed, disturbed>>

QueryComments(s) == Query(s, "comments", "comments", "commitComments")
CommitComments(s) == Commit(s, "commitComments", "likes")
\* Faulty: queries the comments a second time.
QueryLikesAgain(s) == Query(s, "likes", "comments", "commitLikes")

QueryLikes(s) == Query(s, "likes", "likes", "commitLikes")
CommitLikes(s) == Commit(s, "commitLikes", "remove")

\* The query for the document finds it and reference.delete is called, or
\* finds none: it is gone, or not in the cache that answered.
RemovePost(s) ==
    /\ pc[s] = "remove"
    /\ \/ Goto(s, "sent") /\ UNCHANGED <<mode, target, files, media, todo, seen>>
       \/ Return(s)
    /\ UNCHANGED <<storageVars, historyVars>>

\* A call of deletePost throws, or its answer is lost after it took effect.
DeleteError(s) ==
    /\ pc[s] \in Deleting
    /\ \/ UNCHANGED <<store, children>>
       \/ /\ pc[s] = "delete"
          /\ store' = store \ {Head(todo[s])}
          /\ UNCHANGED children
       \/ /\ pc[s] \in {"commitComments", "commitLikes"}
          /\ children' = children \ seen[s]
          /\ UNCHANGED store
    /\ missed' = missed \intersect children'
    /\ Return(s)
    /\ Fault
    /\ UNCHANGED <<posts, copies, used, versions, gone, doomed>>

----------------------------------------------------------------------------
(* The writes of the document.                                              *)

\* Faulty: an update creates a document that is gone anew.
ApplySets(w) ==
    /\ posts' = [posts EXCEPT ![w.post] = IF w.op = "delete" THEN NoDoc ELSE w.media]
    /\ gone' = IF w.op = "delete" /\ Alive(w.post) THEN gone \union {w.post} ELSE gone

\* The server handles a write: an update fails when there is no document.
Apply(w) ==
    /\ posts' = IF w.op = "update" /\ ~Alive(w.post) THEN posts
                ELSE [posts EXCEPT ![w.post] = IF w.op = "delete" THEN NoDoc ELSE w.media]
    /\ gone' = IF w.op = "delete" /\ Alive(w.post) THEN gone \union {w.post} ELSE gone

Handle(s) ==
    /\ pc[s] = "sent"
    /\ Apply(WriteOf(s))
    /\ Goto(s, "answer")
    /\ UNCHANGED <<store, children, copies, mode, target, files, media, todo, seen,
                   used, versions, doomed, missed, disturbed>>

Answer(s) ==
    /\ pc[s] = "answer"
    /\ Return(s)
    /\ UNCHANGED <<storageVars, historyVars>>

\* The write may reach the server all the same.
Leave(s) ==
    /\ copies' = copies \union {WriteOf(s)}
    /\ Cardinality(copies') <= MaxCopies

\* The stream ends before the server has handled the write, which it still may,
\* or before its answer: the device sends the write again.
Lose(s) ==
    /\ \/ pc[s] = "sent" /\ Leave(s)
       \/ pc[s] = "answer" /\ UNCHANGED copies
    /\ Goto(s, "sent")
    /\ UNCHANGED <<store, posts, children, mode, target, files, media, todo, seen, historyVars>>

HandleCopy(w) ==
    /\ w \in copies
    /\ Apply(w)
    /\ UNCHANGED <<store, children, copies, sessionVars,
                   used, versions, doomed, missed, disturbed>>

\* The process is killed, and sends a write it had begun after its restart; or
\* the write is refused.
Kill(s) ==
    /\ pc[s] # "idle"
    /\ IF pc[s] \in Waiting THEN Leave(s) ELSE UNCHANGED copies
    /\ Return(s)
    /\ Fault
    /\ UNCHANGED <<store, posts, children, used, versions, gone, doomed, missed>>

----------------------------------------------------------------------------
(* Other users: comments and likes, from a page that may be out of date.    *)

\* Some deletePost of p has read the collection, or has removed the document.
Looked(p, col) ==
    \/ p \in gone /\ ~Alive(p)
    \/ \E w \in Outstanding : w.op = "delete" /\ w.post = p
    \/ \E s \in Session :
          /\ target[s] = p
          /\ \/ pc[s] \in {"commitComments", "likes"} /\ col = "comments"
             \/ pc[s] \in {"commitLikes", "remove"}

AddChild(c) ==
    /\ Alive(c.post) \/ c.post \in gone
    /\ c \notin children
    /\ children' = children \union {c}
    /\ missed' = IF Looked(c.post, c.in) THEN missed \union {c} ELSE missed \ {c}
    /\ UNCHANGED <<store, posts, copies, sessionVars, used, versions, gone, doomed, disturbed>>

\* deleteComment, or the second tap on the like button.
RemoveChild(c) ==
    /\ c \in children
    /\ children' = children \ {c}
    /\ missed' = missed \ {c}
    /\ UNCHANGED <<store, posts, copies, sessionVars, used, versions, gone, doomed, disturbed>>

----------------------------------------------------------------------------
StartStep(s) ==
    \/ \E p \in Post, m \in {"single", "multi"}, n \in 1..MaxFiles :
          \E names \in FreshNames(n) : StartUpload(s, p, m, names)
    \/ \E p \in Post, n \in 0..MaxFiles :
          \E names \in FreshNames(n) : StartEdit(s, p, names)
    \/ \E p \in Post : \E v \in versions[p] : StartDelete(s, p, v)

\* The answers of the server to a running call.
RunStep(s) ==
    \/ SkipFile(s) \/ PutThumb(s) \/ PutOriginal(s) \/ WritePost(s)
    \/ DeleteObject(s)
    \/ QueryComments(s) \/ CommitComments(s) \/ QueryLikes(s) \/ CommitLikes(s)
    \/ RemovePost(s) \/ Handle(s) \/ Answer(s)

FaultStep(s) == PutError(s) \/ DeleteError(s) \/ Lose(s) \/ Kill(s)

Next ==
    \/ \E s \in Session : StartStep(s) \/ RunStep(s) \/ FaultStep(s)
    \/ \E w \in copies : HandleCopy(w)
    \/ \E c \in Child : AddChild(c) \/ RemoveChild(c)

Spec == Init /\ [][Next]_vars

\* Every request is answered in the end, with a result or an error.
FairSpec == Spec /\ \A s \in Session : WF_vars(RunStep(s))

----------------------------------------------------------------------------
(* Properties.                                                              *)

TypeOK ==
    /\ store \subseteq Object
    /\ posts \in [Post -> Media \union {NoDoc}]
    /\ children \subseteq Child
    /\ copies \subseteq DocWrite
    /\ pc \in [Session -> PC]
    /\ mode \in [Session -> {"idle", "single", "multi", "edit", "delete"}]
    /\ target \in [Session -> Post \union {NoPost}]
    /\ files \in [Session -> Seq(Name)]
    /\ media \in [Session -> Media]
    /\ todo \in [Session -> Seq(Object)]
    /\ seen \in [Session -> SUBSET Child]
    /\ used \subseteq Name
    /\ versions \in [Post -> SUBSET Media]
    /\ gone \subseteq Post /\ doomed \subseteq Post
    /\ missed \subseteq Child
    /\ disturbed \subseteq {"fault", "edit"}

\* As long as nobody has asked to delete a post, every file its document
\* names is in the bucket: the document is written after its files, and no
\* other call - an edit that fails half way, the deletion of another post, or
\* one from a stale page - takes a file away from it.
LiveFilesExist ==
    \A p \in Post : Alive(p) /\ p \notin doomed => Objects(posts[p]) \subseteq store

\* Every original a post names has its thumbnail in the same post: deletePost
\* reaches both, whatever subset of a multiple upload failed.
OriginalHasThumbnail ==
    \A p \in Post : Alive(p) => Range(posts[p].origs) \subseteq Range(posts[p].thumbs)

\* A comment or like that outlives its post was added after a deletePost had
\* already looked for it, or the look was answered from a cache without it:
\* nothing a deletePost has seen is left behind.
OrphanChildWasMissed ==
    \A c \in children : c.post \in gone /\ ~Alive(c.post) => c \in missed

\* Without a fault and without an edit, every object in the bucket is named
\* by a post document or by a call still running.
NoOrphanFiles ==
    disturbed = {} =>
       \A o \in store : \/ \E p \in Post : Alive(p) /\ o \in Objects(posts[p])
                        \/ \E s \in Session : o \in Objects(media[s])

\* A post document goes away only when the server handles the last write of a
\* deletePost that has emptied the bucket of all it was told about, however late
\* that is: the document is the last to go.
DocumentGoesLast ==
    [][\A p \in Post : Alive(p) /\ ~Alive(p)' =>
          \E w \in Outstanding : /\ w.op = "delete" /\ w.post = p
                                 /\ Objects(w.media) \intersect store = {}]_vars

\* The document is gone, and the server has handled every copy of its add.
Final(p) ==
    /\ p \in gone /\ ~Alive(p)
    /\ \A w \in Outstanding : w.op = "add" => w.post # p

\* A deleted post comes back only by one more copy of the add of its own upload:
\* once none is left it is gone for good, whatever edits, of whatever calls and
\* however often, the server has still to handle.
DeletedStaysDeleted ==
    [][\A p \in Post : Final(p) => Final(p)']_vars

\* Every known version of the post has lost a file, no call that deletes it can
\* still delete all it has left, and none has asked for its document.
Stuck(p) ==
    /\ Alive(p)
    /\ \A v \in versions[p] : ~(Objects(v) \subseteq store)
    /\ \A s \in Session : target[s] = p /\ pc[s] \in Deleting =>
          pc[s] = "delete" /\ ~(Range(todo[s]) \subseteq store)
    /\ \A w \in Outstanding : w.post = p => w.op # "delete"

\* deletePost is not idempotent: a post that lost a file to a deletePost that
\* then failed stays for ever, however often the author tries again, unless
\* an edit gives it new files.
OnlyAnEditUnsticks ==
    [][\A p \in Post : Stuck(p) /\ versions'[p] = versions[p] => Stuck(p)']_vars

\* "delete the post thumbnail", "delete post original file"
\* (delete_post_state_notifier.dart:19, :31): the document does not go while a
\* file it names is in the bucket.
FilesGoWithDocument ==
    [][\A p \in Post : Alive(p) /\ ~Alive(p)' =>
          Objects(posts[p]) \intersect store = {}]_vars
============================================================================
