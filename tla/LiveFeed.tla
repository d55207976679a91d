------------------------------ MODULE LiveFeed ------------------------------
(***************************************************************************)
(* What the pages of one device show of the posts and comments that this    *)
(* device and others write.  A page listens to a Firestore query, and most  *)
(* of them leave out the documents with pending writes.  Firestore's client *)
(* raises no event when a write is merely confirmed (its metadata changes,  *)
(* its value does not), so a page that left a document out while its own    *)
(* update was under way hears nothing when it could be shown again: the     *)
(* pages make up for it by refreshing the provider after an update.         *)
(*                                                                          *)
(* The client is modelled from the SDK that is vendored with the iOS app;   *)
(* a document here is an id and the number of the write it holds.           *)
(*                                                                          *)
(* A definition marked Faulty is not part of the model: it is a form of the *)
(* definition after it with a plausible fault, which some property refutes. *)
(***************************************************************************)
EXTENDS Naturals

CONSTANTS
    Post, Comment,  \* document ids of the two collections
    ThePost,        \* the post of the details page; the comments are on it
    Page,           \* the listeners at work, see Query; one provider sets up
                    \* "post" and "thread"
    MaxWrites       \* bound: writes of all devices together

Doc == Post \union Comment

ASSUME ConstantsAssumption ==
    /\ Post \intersect Comment = {} /\ ThePost \in Post
    /\ Page \subseteq {"home", "profile", "comments", "post", "thread"}
    /\ "post" \in Page <=> "thread" \in Page
    /\ MaxWrites \in Nat \ {0}

VARIABLES
    server,     \* the write each document of the backend holds, 0 if none
    base,       \* what the device has last been sent of each document
    doc,        \* the document as the device's client has it
    view,       \* the documents of each listener's view
    on,         \* listeners that have raised their first event
    shown,      \* what each provider has last made of an event
    details,    \* what the details page shows
    call,       \* the write the device's app is making
    writes,     \* number of writes so far
    created,    \* documents that have ever existed
    confirmed,  \* writes the backend has taken
    touched,    \* documents this device has updated, or failed to delete
    early       \* whether a dialog was left before its update was done

clientVars == <<view, on, shown, details>>
historyVars == <<created, confirmed, touched, early>>
vars == <<server, base, doc, clientVars, call, writes, historyVars>>

NoCall == [kind |-> "none", id |-> ThePost, at |-> "idle", up |-> FALSE]

\* A document of the client: the write it holds, and how far that write is.
State == {"synced", "creating", "updating", "deleting", "committed"}
Synced(n) == [n |-> n, is |-> "synced"]
Absent == Synced(0)

\* allPostsProvider, authUserPostsProvider (and userPostsProvider),
\* postCommentsProvider, and the two queries of specificPostWithCommentsProvider.
Query(p) ==
    CASE p \in {"home", "profile"}    -> Post
      [] p \in {"comments", "thread"} -> Comment
      [] p = "post"                   -> {ThePost}

\* One more write keeps to the bound, with the one that is due.
Room == writes + (IF call.at \in {"query", "write"} THEN 1 ELSE 0) < MaxWrites

\* The device knows of ThePost, or its details page were not open.
Init ==
    /\ server = [d \in Doc |-> IF d = ThePost THEN 1 ELSE 0]
    /\ base = server
    /\ doc = [d \in Doc |-> Synced(server[d])]
    /\ view = [p \in Page |-> [d \in Doc |-> Absent]]
    /\ on = {}
    /\ shown = [p \in Page |-> {}]
    /\ details = [post |-> {}, comments |-> {}]
    /\ call = NoCall
    /\ writes = 1
    /\ created = {ThePost}
    /\ confirmed = {1}
    /\ touched = {}
    /\ early = FALSE

\* The device has heard of everything about d.
Quiet(d) == doc[d] = Synced(server[d])

----------------------------------------------------------------------------
(* The client.  A view holds the documents it has raised events about.      *)

Pending(r) == r.n # 0 /\ r.is \in {"creating", "updating"}

\* createdAt is an estimate until the backend sets it.
SameValue(old, new) == old.n = new.n /\ (old.is = "creating" <=> new.is = "creating")

\* After a confirmation the client waits for the backend to send the document.
Waits(old, new) == old.n # 0 /\ new.n # 0 /\ Pending(old) /\ new.is = "committed"

Applied(old, new) == IF Waits(old, new) THEN old ELSE new

\* Faulty: changed documents raise no event.
RaisesExistence(old, new) == (old.n = 0) # (new.n = 0)

\* A change of nothing but the pending flag raises no event.
Raises(old, new) == ~Waits(old, new) /\ ~SameValue(old, new)

\* allPostsProvider maps every document of a snapshot.
ShowsPending(p) == p = "home"

\* Faulty: shows what is pending.
RowsPending(p, v) == {[id |-> d, n |-> v[d].n] : d \in {e \in Query(p) : v[e].n # 0}}

\* Faulty: goes on showing documents that are gone.
RowsGone(p, v) ==
    {[id |-> d, n |-> v[d].n] : d \in {e \in Query(p) : ShowsPending(p) \/ ~Pending(v[e])}}

\* What a provider makes of the snapshot of an event.
Rows(p, v) ==
    {[id |-> d, n |-> v[d].n] :
        d \in {e \in Query(p) : v[e].n # 0 /\ (ShowsPending(p) \/ ~Pending(v[e]))}}

\* What each provider keeps after an event in raised: the post listener skips a
\* pending post, and forgets the comments with a post that is gone.
Heard(raised, v, p) ==
    CASE p = "thread" /\ "post" \in raised /\ v["post"][ThePost].n = 0 -> {}
      [] p = "post" /\ Pending(v[p][ThePost]) -> shown[p]
      [] p \in raised -> Rows(p, v[p])
      [] OTHER -> shown[p]

\* notify(): without a post nothing is sent to the page.
Notify(raised, s) ==
    IF raised \intersect {"post", "thread"} # {} /\ s["post"] # {}
    THEN [post |-> s["post"], comments |-> s["thread"]]
    ELSE details

\* The client's document d becomes r, and the listeners hear of it.
Change(d, r) ==
    LET listening == {p \in on : d \in Query(p)}
        raised == {p \in listening : Raises(view[p][d], r)}
        v == [p \in Page |-> IF p \in listening
                             THEN [view[p] EXCEPT ![d] = Applied(view[p][d], r)]
                             ELSE view[p]]
        s == [p \in Page |-> Heard(raised, v, p)]
    IN  /\ doc' = [doc EXCEPT ![d] = r]
        /\ view' = v
        /\ shown' = s
        /\ details' = Notify(raised, s)
        /\ UNCHANGED on

\* The first event of a listener: a view of its own, of what the client has.
\* The device is online: an empty view waits for the backend.
Deliver(p) ==
    /\ p \notin on
    /\ \/ \E d \in Query(p) : doc[d].n # 0
       \/ \A d \in Query(p) : Quiet(d)
    /\ on' = on \union {p}
    /\ LET v == [view EXCEPT ![p] = [d \in Doc |-> IF d \in Query(p) THEN doc[d] ELSE Absent]]
           s == [q \in Page |-> Heard({p}, v, q)]
       IN  /\ view' = v
           /\ shown' = s
           /\ details' = Notify({p}, s)
    /\ UNCHANGED <<server, base, doc, call, writes, historyVars>>

\* The listeners P are disposed of and listen anew.  A refreshed page goes on
\* showing what it showed; the variables of the details provider are new.
Listen(P) ==
    /\ on' = on \ P
    /\ view' = [p \in Page |-> IF p \in P THEN [d \in Doc |-> Absent] ELSE view[p]]
    /\ shown' = [p \in Page |-> IF p \in P \intersect {"post", "thread"} THEN {} ELSE shown[p]]
    /\ UNCHANGED details

\* Pulling down refreshes the home and the profile list, or the comments.
PullDown(p) ==
    /\ p \in {"home", "profile", "comments"} /\ call = NoCall /\ p \in on
    /\ Listen({p})
    /\ UNCHANGED <<server, base, doc, call, writes, historyVars>>

\* The backend sends the document.  While a write of the device is on its way
\* the client goes on showing that write.
Watch(d) ==
    /\ doc[d] # Synced(server[d]) /\ doc[d].is \in {"synced", "committed"}
    /\ base' = [base EXCEPT ![d] = server[d]]
    /\ Change(d, Synced(server[d]))
    /\ UNCHANGED <<server, call, writes, historyVars>>

\* Some other device adds, updates or deletes a document.
Foreign(d) ==
    /\ \/ d \notin created /\ server' = [server EXCEPT ![d] = writes + 1]
       \/ server[d] # 0 /\ server' = [server EXCEPT ![d] = writes + 1]
       \/ server[d] # 0 /\ server' = [server EXCEPT ![d] = 0]
    /\ Room
    /\ writes' = writes + 1
    /\ created' = created \union {d}
    /\ confirmed' = confirmed \union {writes + 1}
    /\ UNCHANGED <<base, doc, clientVars, call, touched, early>>

----------------------------------------------------------------------------
(* The writes of the device's app, one at a time under the loading overlay. *)

\* What the device's user can reach: a row of a list, or of the details page.
Reachable(d) ==
    \/ \E p \in Page \ {"post", "thread"} : \E r \in shown[p] : r.id = d
    \/ \E r \in details.post : r.id = d

\* sendComment, or the end of an upload.
Add(d) ==
    /\ call = NoCall /\ Room /\ d \notin created
    /\ call' = [kind |-> "add", id |-> d, at |-> "write", up |-> FALSE]
    /\ created' = created \union {d}
    /\ UNCHANGED <<server, base, doc, clientVars, writes, confirmed, touched, early>>

\* The update dialog of a comment, the edit screen of a post, or deleting
\* either: each looks for the document first.
Alter(d, kind) ==
    /\ call = NoCall /\ Room /\ Reachable(d)
    /\ call' = [kind |-> kind, id |-> d, at |-> "query", up |-> kind = "update"]
    /\ UNCHANGED <<server, base, doc, clientVars, writes, historyVars>>

\* A document that is gone is not written, and nobody is told.
Look ==
    /\ call.at = "query"
    /\ call' = [call EXCEPT !.at = IF server[call.id] # 0 THEN "write" ELSE "done"]
    /\ UNCHANGED <<server, base, doc, clientVars, writes, historyVars>>

\* The client applies the write; it cannot update what it knows to be gone.
Write ==
    /\ call.at = "write"
    /\ writes' = writes + 1
    /\ call' = [call EXCEPT !.at = "reply"]
    /\ \/ call.kind = "add" /\ Change(call.id, [n |-> writes', is |-> "creating"])
       \/ call.kind = "update" /\ doc[call.id].n # 0
            /\ Change(call.id, [n |-> writes', is |-> "updating"])
       \/ call.kind = "update" /\ doc[call.id].n = 0 /\ UNCHANGED <<doc, clientVars>>
       \/ call.kind = "delete" /\ Change(call.id, [n |-> 0, is |-> "deleting"])
    /\ touched' = IF call.kind = "update" THEN touched \union {call.id} ELSE touched
    /\ UNCHANGED <<server, base, created, confirmed, early>>

\* The backend takes the write, and the client hears of it.
Confirm ==
    /\ call.at = "reply"
    /\ \/ call.kind = "delete"
       \/ call.kind = "add"
       \/ call.kind = "update" /\ server[call.id] # 0 /\ doc[call.id].is = "updating"
    /\ LET n == doc[call.id].n
       IN  /\ server' = [server EXCEPT ![call.id] = n]
           /\ confirmed' = confirmed \union {n}
           /\ Change(call.id, [n |-> n, is |-> "committed"])
    /\ call' = [call EXCEPT !.at = "done"]
    /\ base' = [base EXCEPT ![call.id] = doc[call.id].n]
    /\ UNCHANGED <<writes, created, touched, early>>

\* The backend refuses it - there is nothing to update, or for a reason of its
\* own - and the client takes it back.  The app's call returns false.
Refuse ==
    /\ call.at = "reply"
    /\ Change(call.id, Synced(base[call.id]))
    /\ call' = [call EXCEPT !.at = "failed"]
    /\ touched' = IF call.kind = "delete" THEN touched \union {call.id} ELSE touched
    /\ UNCHANGED <<server, base, writes, created, confirmed, early>>

\* What is refreshed when the dialog or the edit screen closes.
Refreshed(d) == Page \intersect (IF d \in Comment THEN {"comments"} ELSE {"post", "thread"})

\* Faulty: closes and refreshes nothing.
FinishClosing ==
    /\ call.at \in {"done", "failed"} /\ ~(call.at = "failed" /\ call.up)
    /\ call' = NoCall
    /\ UNCHANGED <<server, base, doc, clientVars, writes, historyVars>>

\* The call has returned.  After an update the dialog closes, and the provider
\* is refreshed; after a failed one it stays.
Finish ==
    /\ call.at \in {"done", "failed"} /\ ~(call.at = "failed" /\ call.up)
    /\ call' = NoCall
    /\ IF call.up THEN Listen(Refreshed(call.id)) ELSE UNCHANGED clientVars
    /\ UNCHANGED <<server, base, doc, writes, historyVars>>

\* Pressing the button of the dialog that stayed.
Retry ==
    /\ call.at = "failed" /\ call.up /\ Room
    /\ call' = [call EXCEPT !.at = "query"]
    /\ UNCHANGED <<server, base, doc, clientVars, writes, historyVars>>

\* The user goes back while the dialog or the edit screen is up: the comments
\* are refreshed when the dialog closes, however it closes; the edit screen
\* refreshes nothing unless it is still mounted when the call returns.
Back ==
    /\ call.up
    /\ call' = [call EXCEPT !.up = FALSE]
    /\ early' = (early \/ call.at # "failed")
    /\ IF call.id \in Comment THEN Listen(Refreshed(call.id)) ELSE UNCHANGED clientVars
    /\ UNCHANGED <<server, base, doc, writes, created, confirmed, touched>>

----------------------------------------------------------------------------
Next ==
    \/ \E d \in Doc : Watch(d) \/ Foreign(d) \/ Add(d)
    \/ \E d \in Doc, kind \in {"update", "delete"} : Alter(d, kind)
    \/ \E p \in Page : Deliver(p) \/ PullDown(p)
    \/ Look \/ Write \/ Confirm \/ Refuse \/ Finish \/ Retry \/ Back

Spec == Init /\ [][Next]_vars

----------------------------------------------------------------------------
(* Properties.                                                              *)

Row == [id : Doc, n : 1..MaxWrites]

TypeOK ==
    /\ server \in [Doc -> 0..MaxWrites]
    /\ base \in [Doc -> 0..MaxWrites]
    /\ doc \in [Doc -> [n : 0..MaxWrites, is : State]]
    /\ view \in [Page -> [Doc -> [n : 0..MaxWrites, is : State]]]
    /\ on \subseteq Page
    /\ shown \in [Page -> SUBSET Row]
    /\ details \in [post : SUBSET Row, comments : SUBSET Row]
    /\ call \in [kind : {"none", "add", "update", "delete"}, id : Doc,
                 at : {"idle", "query", "write", "reply", "done", "failed"}, up : BOOLEAN]
    /\ writes \in 0..MaxWrites
    /\ created \subseteq Doc /\ touched \subseteq Doc
    /\ confirmed \subseteq 0..MaxWrites
    /\ early \in BOOLEAN

\* Listener p's page shows d as it is.
Right(p, d) == \A n \in 1..MaxWrites : [id |-> d, n |-> n] \in shown[p] <=> n = server[d]

\* hasPendingWrites is filtered out: but for the home list, a page shows
\* nothing that the backend may still refuse.
NothingUnconfirmedShown ==
    /\ \A p \in Page \ {"home"} : \A r \in shown[p] : r.n \in confirmed
    /\ \A r \in details.post \union details.comments : r.n \in confirmed

\* The home list does not filter, and never lags behind the client.
HomeIsCurrent ==
    "home" \in on =>
        shown["home"] = {[id |-> d, n |-> doc[d].n] : d \in {e \in Post : doc[e].n # 0}}

\* Whatever others write, and whatever this device adds or deletes, a page
\* shows once the client knows: only its own updates can go missing.
OnlyOwnUpdatesGoMissing ==
    \A p \in on : \A d \in Query(p) \ touched :
        /\ Quiet(d) /\ call = NoCall
        /\ p = "thread" => ThePost \notin touched /\ doc[ThePost].n # 0
        => Right(p, d)

\* The comments page shows every update too, and the details page every edit of
\* its post, because the dialog and the edit screen refresh them: provided
\* nobody left either while its update was under way.
RefreshShowsUpdates ==
    ~early /\ call = NoCall =>
        /\ "comments" \in on => \A d \in Comment : Quiet(d) => Right("comments", d)
        /\ "post" \in on /\ Quiet(ThePost) /\ server[ThePost] # 0 =>
               details.post = {[id |-> ThePost, n |-> server[ThePost]]}

\* "watch changes to the comments" (specific_post_with_comment_provider.dart:59):
\* the details page shows the comments of its post as they are, as long as
\* nobody tried to change the post itself.
CommentsAreWatched ==
    /\ {"post", "thread"} \subseteq on /\ call = NoCall /\ ThePost \notin touched
    /\ Quiet(ThePost) /\ server[ThePost] # 0
    => \A d \in Comment : Quiet(d) => Right("thread", d)
============================================================================
