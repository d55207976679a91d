# Formal models of tekk_gram

tekk_gram is a social app written in Flutter: posts with pictures and videos,
likes, comments, a chat between two users, and a profile. Its state lives in
Firebase (Auth, Firestore, Storage); the app has no server of its own. All of
its own code is in `lib/`, about 9,200 lines of Dart, a third of them in
`lib/state`; the platform directories are generated, and the one test is the
counter test of Flutter's template. `ios/Pods` is vendored. Of it, the parts of
the Firestore client that carry the app's writes and transactions, and that
decide what a listener hears, are modelled too: all the app's state goes
through them.

What is hard about this code is not in any one function. Every operation is a
chain of awaits - look a document up, put a file, write a document - with no
transaction around it, so other devices, other users, failures and kills come
between any two steps. The models here keep each await as a step of its own.

Nor is an await what it seems. A `get()` of a device that is offline is answered
from its cache, which may be empty or old (`query_listener.cc` 127-152,
`online_state_tracker.cc` 45-78). A write is saved in a queue on the device, sent
until it is answered, also after the process was killed, and the server may
handle it more than once (`sync_engine.cc` 208, `remote_store.cc` 437). A commit of a
transaction is repeated when its answer is lost (`transaction_runner.cc` 99).
`WritePipeline` and `TransactionRunner` model this in detail; the models of the app
take what follows from it: answers from a cache, writes without a caller, and
copies.

Paths below are relative to the repository; line numbers of each definition are
in `PROJECT.json` under `map`.

## 1. Inventory

| component | state | operations | correct when |
|---|---|---|---|
| **Posts** (`state/image_upload`, `state/posts/notifiers`) | objects in Storage; post documents with lists of their names; comments and likes of a post | `upload`, `uploadMultipleImageFiles`, `editImagePost`, `editPost`, `deletePost` | a live post has its files; deleting removes everything that was there, the document last; a deleted post stays deleted |
| **Likes** (`state/likes`, `like_button.dart`) | like documents | `likeDislikePostProvider` | one like per user; a tap flips it once |
| **Chat** (`state/chat`, `views/chat`) | message documents under a millisecond id; the screen's text and files | `sendMessage`, pick, type, close, submit | no message lost, shown to others, or out of order; a draft is cleared only once sent |
| **Account and profile** (`state/auth`, `state/user_info`) | Firebase's current user; `AuthState`; profile documents | `loginWithGoogle`, `logOut`, restart, `updateUserInfo`, photo upload | who sees the main view is signed in and has one profile |
| **Comments** (`state/comments`, `views/post_comments`) | comment documents | `sendComment`, `updateComment`, `deleteComment` | see live feeds |
| **Live feeds** (`state/posts/providers`, `state/comments/providers`) | a Firestore listener per page; the last event each made something of | listen, refresh, dispose | a page shows what the backend holds, and nothing the backend may refuse |
| **Loading overlay** (`is_loading_provider.dart`, `loading_screen.dart`, `splash_screen.dart`) | one flag per notifier; one overlay entry | show, hide | up while a call runs, gone afterwards |
| **Firestore client: writes** (`remote_store.cc`, `stream.cc`, `write_stream.cc`, `grpc_stream.cc`, `sync_engine.cc`, the mutation queue, the credentials provider) | a persisted queue of writes per user; the pipeline; the state of the stream and its call; the worker queue | `WriteMutations`, sign-in, tokens, answers, closes, restarts, timers, kill | answers meet their writes; each write is applied under its own user, in order, and is not lost; everything is sent in the end |
| **Firestore client: transactions** (`transaction.cc`, `transaction_runner.cc`, `FIRFirestore.mm`) | attempts left; versions read; mutations | `runTransaction`, `Lookup`, `Commit`, retry | takes effect in one instant; the outcome says whether it did |
| Search, lists of people | none of their own | live query and filter | not modelled |
| Creating a post: screens; post settings; bottom bar | a draft, two switches, an index | single assignments | not modelled |
| Decoding, thumbnails; widgets and text | none | pure | not modelled |

How they interact:

* Widgets call notifiers, notifiers await Firebase. Nothing calls back except
  the result of the call and Firestore's listeners.
* Components share the collections. `deletePost` removes comments and likes
  that the comment and like components are adding meanwhile (`PostLifecycle`
  has both sides). The live feeds show what all the writers write.
* What the app writes is a task of the Firestore client's worker queue; Auth, on
  the main thread, tells it who is signed in and hands it tokens (`WritePipeline`).
  The chat sends a message in a transaction and `deletePost` removes comments,
  likes and the document in transactions (`TransactionRunner`).
* All notifiers share one overlay, which is the only thing that keeps a user
  from starting a second call on a device. `LoadingOverlay` says when it does.
* The profile is written by `AuthStateNotifier` and, for the photo, by
  `ImageUploadNotifier` (`UserAccount` has both).

What is hard to test in it is listed line by line under `hazards` in
`PROJECT.json`: checks that are stale when acted on, failures half way through a
list, events that never come, flags shared by two calls, and calls that never
return.

## 2. Modules

| module | models | theorems in |
|---|---|---|
| `PostLifecycle` | uploading, editing and deleting posts, against comments and likes | `PostLifecycle_proofs` |
| `LikeFlip` | what a like button promises: one atomic flip | |
| `LikeToggle` | the taps of the button, step by step; refines `LikeFlip` | `LikeToggle_proofs` |
| `ChatSend` | the chat of pairs of users, with the screen's draft | `ChatSend_proofs` |
| `UserAccount` | one account on several devices | `UserAccount_proofs` |
| `LiveFeed` | what a device's pages show, on top of Firestore's client | `LiveFeed_proofs` |
| `LoadingOverlay` | flags, listener, overlay and frames | `LoadingOverlay_proofs` |
| `WritePipeline` | the client's writes, from the app to the server's answer | `WritePipeline_proofs` |
| `AtomicTransactions` | what `runTransaction` promises: all reads and writes in one instant | |
| `TransactionRunner` | attempts, lookups, commits and their answers; refines `AtomicTransactions` | `TransactionRunner_proofs` |

Each `MC*` module instantiates one of them; each `.cfg` is one run.

A definition whose comment starts with "Faulty:" is not part of any
specification. It is the definition that follows it with one plausible bug - a
guard dropped, a step swapped, a reset forgotten - and there is one for every
property of every passing run: with it in place TLC refutes the property. It
records which mistakes the property would notice.

### PostLifecycle

A *session* is one running call of a notifier: the author may be signed in on
several devices. `store` is the bucket, `posts` maps document ids to their
media lists (`thumbs`, `origs`), `children` holds comments and likes. `pc` says
at which await a session stands.

| actions | code |
|---|---|
| `StartUpload`, `StartEdit` | `image_upload_notifier.dart` 28-, 145-; `edit_post_notifier.dart` 61-92 |
| `PutThumb`, `PutOriginal`, `PutError`, `SkipFile` | one file of the loop; an error is swallowed in a multiple upload, ends the call otherwise; a file that cannot be decoded is skipped |
| `WritePost` | `add` of a new document, or `update` of the one looked up, is issued |
| `StartDelete`, `DeleteObject`, `QueryComments`, `CommitComments`, `QueryLikes`, `CommitLikes`, `RemovePost`, `DeleteError` | `deletePost` in its order; Storage throws for an object that is gone |
| `Handle`, `Answer` | the server handles the write of the document a call waits for; its answer comes |
| `Lose`, `HandleCopy` | the stream ends without the answer and the write is sent again; the server may handle the first copy at any time, any number of times |
| `Kill` | the process dies; a write it waited for is among the copies |
| `AddChild`, `RemoveChild` | comments and likes of anybody |

`StartDelete` takes any version the post has had: the page passes the `Post` it
was opened with. A version counts from the moment its write is issued, for the
author's own device shows it before the server has it; so an edit or a deletion
may also begin before the post is there. The queries of `deletePost` and
`editImagePost` may be answered from a cache: `Query` finds any part of the
children, `RemovePost` the document or none. `gone` and `missed` remember which
posts were removed and which children that are still there a deletion did not see. An error may come
before or after the effect of the request. A late commit of a transaction that
deletes children is not modelled apart: their ids are never used again, and
`RemoveChild` may remove any child at any time.
`upload` of one file is modelled as a list of one. `editPost` (text only) writes
no field a property tells apart and is left out, as are settings and dates. File
names are drawn at the start of a call instead of one by one; nothing observes
the difference. New file names never repeat (uuid v4).

### LikeToggle and LikeFlip

`likes` is the collection; a document carries the name of the tap that added
it. Several taps may run: `LikeDislikeRequest` has no `==`, so each is a
provider of its own, and a user may be signed in on several devices.

| actions | code |
|---|---|
| `Press` | `onPressed` |
| `Read`, `ReadError` | the `get()`: any part of the user's documents the server has ever had (`known`), changed by what the device has queued; then the first write is queued at once |
| `Handle`, `Refuse` | the server applies the write at the head of a device's `queue`, or refuses it; the tap that waits for it goes on with the next deletion, or is over |
| `Kill` | the taps of a device end; its queue stays and is sent |
| `Lose`, `HandleLate` | a call ends unanswered: its writes are sent again, and copies stay with the server (`late`), any number of times |

To the users in `astray` nothing is promised. A user gets there by pressing
before his last tap has settled (`Unsettled`: a call runs, or a write is still
queued), by a read that is not what the server has, and by a copy that changes
his likes after the write itself was answered. He comes back by a lone dislike
(`alone`) that runs to its end. The refinement maps `liked[u]` to "u has a like
document" for the others, `phase[u]` to what the server has done of the write in
the queue, and `wild` to `astray`; `LikeFlip`'s `Leave` and `Return` are the two
ways.

### ChatSend

`Me` and `Peer` give the two users of each open screen; `GroupChatId` is the id
both compute. A call's document id is a reading of its device's clock (`Ms`);
`createdAt` is the server's. `count`, `next`, `thumbs`, `origs` are the loop over
the files, which walks the very list the screen may clear (`shares`, `cleared`).
`Answer` clears text and files as the screen does, whatever they are by then;
`retyped` and `uneven` remember when that hurts. `Fail` may come after the
message has been stored. `Lose` ends the call of a commit without an answer, before
or after the server has handled it: the runner commits again, and `CommitCopy` is
the first one handled late, even after `sendMessage` has returned; `again` remembers
those. Every commit sets the document whatever it held, and stamps `createdAt`
anew. Messages of the device's own are written in
transactions, which a Firestore client does not show before they are confirmed,
so no pending message is ever filtered.

### UserAccount

`docs` are the profile documents of one account, `fbUser` Firebase's current
user on each device, `result`/`loading` its `AuthState`, `shown` the devices whose
page shows a profile, `form` the profile a call is to save: `saveUserInfo` writes all
fields. `queue` is the mutation queue of each device: `Query` ends with a write in
it (`Enqueue`), `Handle` and `Refuse` are the server's answers, which reach the call only
if it still waits; `Restart` ends the call and keeps the queue, which is sent while
somebody is signed in. `Lose` and `HandleLate` are the copies of calls that have ended.
Both looks at the profile, `Lookup` and `Query`, find what `Findable` says: any part
of the server's documents, as a cache would, and what the device itself has queued.
`blind` remembers that a call took an empty answer although there was a profile
or one on its way from elsewhere, `faulted` that a first profile was refused or its
sign-in ended before writing one.

Left out: Firebase signing the user out by itself when its token is no longer
valid (`FIRUser.m` 1496-1505), and the fields a profile has, of which only the whole
is compared. A device runs one
call at a time, which is the overlay's doing (see `LoadingOverlay` for when it
fails). An id stands for a random one, so a new document may come before or
after an old one in a query with `limit(1)`.

### LiveFeed

A device's client holds each document (`doc`) with how far its own write of it
is; each listener has a `view`, and `shown` is what its provider made of the
last event. `Waits`, `SameValue` and `Raises` are the rules of `view.cc` and
`query_listener.cc` in the vendored SDK: a change of nothing but metadata
raises no event, and a confirmed write waits for the backend to send the
document. `Rows` is the `hasPendingWrites` filter, which every list but the home
list has. `Heard` and `Notify` are the two listeners of
`specific_post_with_comment_provider.dart` with the variables they share: one
provider sets up both, so an instance has both or neither in `Page`.
`Add`, `Alter`, `Look`, `Write`, `Confirm`, `Refuse`, `Finish`, `Retry`, `Back`
are one write of the app from the tap to the refresh; `Foreign` is any other
device.

Left out: the limit of three comments and the order of the rows; an update with
the very text that was there; a first event while offline; the backend sending
a document while the device's own write of it is under way.

### LoadingOverlay

`flag` is the set of notifiers whose `isLoading` is set, `loading` what the
listener was last told, `entry` whether `LoadingScreen` has an overlay entry,
`drawn` whether it is on the screen yet. Text fields submit through the keyboard,
which lies above the overlay (`Submit`); the uploader and the chat reset their
flag at a file that cannot be decoded (`EarlyReset`); `logOut`,
`loginWithGoogle` and `upload` may throw outside of any `try` (`Throw`).
`covered`, `shared`, `reset` and `stuck` only remember.

### WritePipeline

Three threads meet in `tasks` (the worker queue) and `main` (the main queue).
`queue` is the persisted mutation queue of each user, `pipeline` is
`write_pipeline_`, `state`, `closes` (`close_count_`), `handshake` and `idle` are
the stream's, `call` is its gRPC call with what was sent, how much of it the
server has handled and how much of that the client has read. `stale` holds what
the server may still handle of calls that have ended. `contents` is the
credentials provider's user and token counter, `fetches` the tokens on their
way. `owner`, `fate`, `applied`, `refused` only remember.

| actions | code |
|---|---|
| `WriteMutations`, `SignIn`, `Announce`, `BeginToken`, `AnswerToken`, `TakeToken` | the app's write becomes a task; `FIRAuth` posts its notification; the provider notes the user and tells the client; the token, dropped if the counter has moved |
| `Handle`, `Refuse`, `Lose`, `HandleStale` | the server and the network (external) |
| `CompleteRead`, `FailOperation` | gRPC completions become tasks |
| `RunWrite`, `RunCredential`, `RunResume`, `RunRead`, `RunFail`, `RunFinish`, `RunNoop` | one task of the worker queue each, run to its end, with all it calls: `FillWritePipeline`, `RestartNetwork`, `CloseWithError` are operators these share |
| `BackoffElapses`, `IdleElapses`, `ConnectivityChanges` | the stream's timers and the connectivity monitor |
| `Kill` | the process dies and starts again with the saved queues |

A write that was applied on a call that ended unanswered is sent and applied
again on the next: `applied` is a set, and the contents of documents are left
out. `rejected` says what the client told the caller: the write may have
been applied on an earlier call whose answer was lost. Telling the caller and
removing the write from the queue (`NotifyUser`, `AcknowledgeBatch`, `sync_engine.cc`
363, 367) are one step here, as they are one task of the worker queue: left out is a
kill between the two, after which a write the caller was told of is sent once more.
Left out too: the stream token
and AppCheck, the `Healthy` state and the health timer, switching the network off
by the app, the reuse of batch ids after a restart, the server ending a call
with OK.

### TransactionRunner and AtomicTransactions

`Body` gives each call the documents its block reads, in order, and its writes.
A document is a `version` and a `content`; a write leaves in its document what
the transaction read and the time of the commit, so an update based on stale
reads would show. `trans` is the `Transaction` object of the attempt, `commits`
are the requests the server may still handle: a commit whose call has ended stays
there, and may be applied long after, while the next attempt runs.

| actions | code |
|---|---|
| `Call`, `Begin` | `Transaction` of `sync_engine.cc`, `Run`; the block of `FIRFirestore.mm` |
| `Lookup`, `FailAttempt`, `Commit` | `RecordVersion` and `Lookup`; a failed lookup or block; preconditions, verifications and the commit |
| `LoseAnswer`, `DispatchResult` | the call ends without an answer, with one; `HandleTransactionError` decides on another attempt |
| `Apply`, `Reject` | the server (external): all preconditions hold, or nothing is done |
| `Kill` | the process dies; a commit on its way stays on its way |

That the server takes a precondition with version `None` (an update time of zero)
as "must not exist" is an assumption about the server. The app's own uses are the set of a chat message
(`chat_message_notifier.dart` 143-148) and the deletions of `deletePost`
(`delete_post_state_notifier.dart` 64-77); both only write, and the model
covers every other block the API allows. The plugin between Dart and the SDK, with
its 20 s timeout, is not in the repository and is left out: a block that
it gives up is one that fails (`FailAttempt`).

## 3. Runs

| run | instance | shows |
|---|---|---|
| `post_files` | 2 sessions, 1 post, 2 names, 2 files, 2 versions, 1 copy, 1 like | a live post has its files and pairs them up; no orphans without a fault or an edit; a like that outlives its post was added after the query, or missing from its answer; the document goes last; a deleted post stays deleted once its add is done with; a half-deleted post is stuck until it is edited |
| `post_stale_page` | 1 session | violated, see 6 |
| `like_flip` | 2 users, 3 devices, 3 taps | one like per user who is not astray; the taps implement `LikeFlip` |
| `chat_room` | 3 screens of 3 users, 3 calls, 2 milliseconds, 2 copies of each commit, 4 writes, no files | who sees a message, the order, how one is lost |
| `chat_files` | 1 screen, 2 calls, 2 files | originals match thumbnails; drafts |
| `account_profile` | 2 devices, 2 ids, 2 profiles, queues of 1, 1 copy | main view, profile, when there is only one, who changes it |
| `account_twice` | 2 devices | violated, see 6 |
| `feed_pages` | home, details and comments page, 1 post, 1 comment, 4 writes | what pages show and hide, and what refreshes bring back |
| `feed_thread` | details and comments page | violated, see 6 |
| `overlay` | 2 calls, 4 notifiers, 2 keyboard submits, fair | when calls do not overlap; the overlay goes away |
| `write_pipeline` | 2 users, pipeline of 2, 3 writes, 1 sign-in, 1 fault, fair | answers meet writes; own user only; nothing lost; order; all is sent |
| `transactions` | 2 transactions, 3 documents, 2 attempts, fair | refinement of `AtomicTransactions`; the outcome tells the effect; aborts have a cause; every call returns |

**Bounds.** `Session`, `Call`, `Device`: two actors are enough for every race
named in `hazards` - each is a pair of calls, one acting between the check
and the act of the other. `like_flip` and `chat_room` have a third, so that
something may follow the race. `MaxFiles = 2` gives a list with a first and a last file, one failing without the
other; the picker takes four. `Name` bounds the number of files ever put: two
are an upload and an edit of one file, or an upload of two. `MaxCopies` bounds the
writes of documents that stay with the server beside those waited for: one is an
add that meets a deletion, or a deletion that meets an edit. Two copies, without
children (1.3 million states), a comment beside the like, with one file and name
(0.3 million), and any number of versions (1.5 million) were checked as well; the
constraint `FewVersions` keeps the run of the project short. That posts do not share names is
proved for any number of posts. `MaxWrites` counts all writes to the documents
of a `LiveFeed` run, the first of them the post the page is open on: an add, an
update and a delete, by either side, fit. `MaxSubmits` bounds calls from the
keyboard: one may overlap a button's call and one another of its own. `Ms`
needs two values, equal and different; `MaxTime` bounds the server's writes, one
more than the calls. `like_flip` has one user on two devices and one on a third, so
that two queues of one user meet. `MaxQueue` and `MaxLate` of `UserAccount` let a write of
a killed call wait before one of the next, and one write be handled again.
Queues of two were
checked as well, with one profile (2.9 million states). `MaxPendingWrites = 2` (10 in the code)
with `MaxWrites = 3` fills the pipeline and leaves one write outside of it;
`MaxFaults = 1` counts everything that goes wrong, so that one fault meets every
interleaving of three writes and a change of user (350,000 states); the theorems
hold for any number. `MaxAttempts = 2` (5 in the code) gives a retry and a last
attempt; the bodies of `transactions` read a document twice, write one twice,
rest a write on a document only read, and update and delete one unread. The profile lists are left out of
`feed_pages`: they treat an event as the comments page does. Symmetry is used over
sessions, names, calls and devices, which the specifications treat alike, and
only in runs without liveness properties.

**Deadlock** is checked in the runs of `UserAccount`, `LiveFeed` and
`LoadingOverlay`. The others really stop when names, taps, calls, writes or
transactions are used up, and say `CHECK_DEADLOCK FALSE`.

**Fairness.** Only the answers of the backend, and the framework's own steps, are
fair (weakly): `RunStep` and `Answer`, which only the counterexamples of
`post_stale_page` and `account_twice` use, and `End`, `Listen`, `Frame` of the
overlay. Firestore and Storage complete every future with a value or an error,
and Flutter draws frames. In `WritePipeline` the tasks of the worker queue and
of the main queue, tokens, the backoff timer and gRPC's completions are fair, and
the server answers what it was sent; in `TransactionRunner` the client's steps
are, and that a commit under way is handled or its call ends. The idle timer is
not fair: nothing depends on it. Nothing the user does is fair, and no error is:
`FinallySent` holds after any faults `MaxFaults` allows, if the network does not
fail for ever; `Returns` needs no such bound, for `MaxAttempts` is one.
`OverlayGoesAway` relies on `MaxSubmits`: a user who submits from the keyboard for
ever keeps the overlay up for ever.

## 4. Proofs

All for any number of sessions, users, devices, files and documents. Each rests
on the module's `ConstantsAssumption` alone, which TLC evaluates in every run.

* **PostLifecycle.** `TypeCorrect`, with `Control`: a loop stands at a file it
  has not handled. `LivePostsKeepTheirFiles` (`LiveFilesExist`) is not inductive:
  what protects a live post is that names are not shared. `FileInv` says that a
  running call's names are its own and in no version, that versions of two posts share
  none, that what a call has listed is in the bucket, and that a `deletePost`
  walks a version of its own, doomed, post. It speaks of the versions written, not of
  documents: `WriteInv` says that what a document or an outstanding write holds is a
  version. `DocumentIsRemovedLast` (`DocumentGoesLast`) follows from both: an outstanding
  deletion names a version of which nothing is left, and a name that is gone is never
  put again, so the deletion may come as late as it likes. `OriginalsHaveThumbnails`
  rests on `ThumbInv`: while an original is being put, the thumbnail of the same file is
  already listed. `DeletedPostsStayDeleted` rests on `UploadInv`: an upload that is not yet
  written works on an id that no document has had and no other call works on, so a
  post that is gone gets no new add; what is outstanding of updates creates nothing.
  `OrphansWereMissed` (`ChildInv`): a child that is not missed is in what a delete has seen
  until it is gone. `NoFileIsOrphaned` (`OrphanInv`): without a fault or an edit a post
  has one version, which its document or the call that waits names, or of which
  nothing is left. `StuckPostsStay` (`OnlyAnEditUnsticks`) needs `FileInv` and `WriteInv`: a
  stuck post has lost a file of every version, and nobody has asked for its document.
* **LikeToggle.** `AtMostOneLike` rests on `LikeInv`: for a user who is not astray
  at most one queue holds a write, it is the only one, it is of the tap that runs
  beside no other or of one that was killed, and applying it, once or more, leaves
  one document at most; a lone tap that deletes has all its user's documents in
  what it found. `ImplementsFlip` proves `Spec => FlipSpec`: `Press` maps to `Begin`
  or `Leave`, the first handling of a write that takes effect to `Flip` or, with
  the answer, to `Settle`, straying to `Leave`, the end of a lone dislike to `Return`.
* **ChatSend.** `NoMessageIsLost`, `NobodyElseIsShown`, `RealTimeOrder` rest on
  `ChatInv`: documents hold messages of their own name, a written message is in
  its document or replaced by a later one, times are past, and what had
  succeeded before a call is earlier, if no commit of it is handled again: the next
  write of any call is later than all there are. `GroupIsThePair` is the lemma that the id
  of a conversation determines the pair. `TapsOpenOriginals` rests on `ListsInv`:
  between two files the lists of a call are equal, and at an original the
  thumbnails are one ahead. `DraftGoesOnceSent` rests on `DraftInv`: a text nobody
  retyped is the text of every running call of its screen.
* **UserAccount.** `SignedInWhileShown` rests on `SessionInv`: a call past its
  sign-in has a user, and one that signs out has the overlay up. `OneProfile`
  (`OneProfileUnlessBlind`) rests on `OneAddPerDoc` and `SightInv`: until a look was
  blind, documents and outstanding adds together are of one id, and a device that has
  found none is alone in that. `ProfileWhileShown` (`MainViewHasProfile`) rests on
  `SignInInv`: without a fault and with neither a profile nor one in a queue, a device
  that has a user is between a sign-in and its write.
  `ProfileChangedByEdit` (`OnlyEditsChange`) rests on the same: a sign-in that was not
  blind saves only where there is no profile, so no update is a sign-in's.
* **LiveFeed.** `TypeCorrect` needs `CallInv`: a call under way keeps room for its
  write. `NothingShownIsTakenBack` (`NothingUnconfirmedShown`) rests on
  `ConfirmedInv`: a document that is not pending, wherever the client has it, holds
  a confirmed write. `HomeNeverLags` and `OthersUpdatesAreShown` rest on `FeedInv`:
  each view holds what the client has, or a pending write that is confirmed and
  still to be sent by the backend (`Tracks`), and each provider shows what is in
  its view (`Faithful`) - except, off the home list, for documents the device
  has updated and, on the details page, once its post was changed or is gone
  (`Kept`). `WaitingUsersSeeUpdates` (`RefreshShowsUpdates`) covers the updated ones:
  by `RefreshInv`, unless a dialog was left, a document that is not shown has its
  update under way or its refresh to come (`Excused`).
* **LoadingOverlay.** `CoverOutlastsCall` and `TapsWaitForCover` rest on
  `OverlayInv`: the flag of a call that shares its notifier with none and is not
  reset early (`Steady`) is set from its start to its end. The listener is told
  of each change, so once the entry is drawn it stays, and a tap needs it gone.
* **WritePipeline.** `TypeCorrect` and `AnswersMatch` (`PipelineInStep`) rest on
  one inductive invariant, `IInv`, with `RequestInv` and `IdleInv`. Its parts:
  queues are increasing, and what is still to be saved is newer (`QueueInv`); the
  pipeline is a prefix of the current queue (`PipeInv`); a completion on the
  worker queue belongs to the call of now, because closing cancels the others
  (`TaskInv`); after the handshake, what was sent and not yet answered is the
  pipeline (`CallInv`). `RequestInv` is why the assertion of
  `ResumeStartWithCredentials` holds: of the fetches, messages and tasks together
  at most one has the close count of now, and only while the stream is starting.
  `OwnTokens` (`OwnUserOnly`) adds `UserInv`: following the credential tasks on
  the worker queue gives, for each task, the user who will be at work when it
  runs, and a write or a token on the queue is of that user (`ForceInv`); a token
  whose counter is current is of the user last announced (`MainInv`); a
  queue, pipeline and call hold writes of one user (`OwnerInv`). Two guards
  protect this, the token counter and the close count; either alone
  would do, which is why the property's mutant is a restart that keeps the call.
  `SavedWritesStay` (`NothingLost`) and `AppliedAsMade` (`AppliedInOrder`) add
  three parts. `SavedInv`: a write is in the queue of its owner exactly while it is
  saved and not settled. `AnswerInv`: a call has answered requests that were applied,
  and a permanent error refused the first one not answered - which, by `CallInv`, is
  the head of the pipeline, the write the client then settles. `OrderInv`: what
  comes before a write in what an ended call left to the server is settled there,
  or comes before it in the same list; for the open call that is derived
  (`SentInOrder`), from increasing queues that hold all that is not settled.
* **TransactionRunner.** `ImplementsAtomic` (`ActsAtOnce`) is the refinement
  `Spec => Atomic!Spec`. It rests on `SnapInv`: a document whose version is the one
  that was read has the content that was read, versions never repeat, and an
  attempt that commits has recorded every document it read. So an accepted
  commit, which verifies all of them, maps to one `Effect`, and every other step
  to a stutter. `NoAbortWithoutChange` rests on `AttemptInv`: a commit of the
  attempt under way is the only one that can answer it, and unless something took
  effect since its attempt began its versions are current. `OutcomeTellsEffect`
  rests on a count (`CountInv`): effects plus commits still open are at most the
  answers lost plus one if the call waits or knows.

TLC checked each inductive invariant before it was proved, and checks each
property itself in the runs.

Every invariant, action property and refinement of the passing runs is a theorem.

**Model-checked only.** Liveness: `OverlayGoesAway`, `FinallySent` and `Returns`,
for fairness and `ENABLED` are out of the prover's reach. The three properties of
section 6 are false of the code, so there is nothing to prove.

## 5. What the properties say

The comment above each property says what it is about. Those that say the most:

* `OnlyAnEditUnsticks`: `deletePost` is not idempotent. If it fails after the
  first file, no number of retries deletes the post.
* `DeletedStaysDeleted`: only one more copy of its own add brings a deleted post back,
  never an edit, however late.
* `OrphanChildWasMissed`: what `deletePost` leaves behind was not there to see, or not in
  the cache it looked into.
* `OneLikePerUser` and `FlipSpec`: a killed tap, a refused or repeated write cost no one his
  single like; only overlapping taps, stale reads and late copies do, and a lone
  dislike mends that.
* `LostOnlyToSameMs`: the only way to lose a message is a second one of the same
  pair in the same millisecond of the senders' clocks.
* `ListedInRealTime`: a message moves only when a commit of it is handled after its
  call had returned.
* `OneProfileUnlessBlind` and `OnlyEditsChange`: there is a second profile, or a sign-in
  overwrites one, only after a look that came back empty though there was a
  profile or one on its way: two sign-ins that interleave, or one answered
  from an empty cache. The double check narrows this and excludes neither.
* `OnlyOwnUpdatesGoMissing` and `RefreshShowsUpdates`: the pending filter hides
  nothing but the device's own updates, and the refreshes bring those back unless
  a dialog was left early.
* `PipelineInStep` and `OwnUserOnly`: answers are matched by position and tokens
  by counters, over three threads; these say that it works out, whatever is
  cancelled, dropped or restarted in between.
* `AnswerTellsEffect`: a transaction may take effect more than once, but not more
  often than answers were lost. Why a message "failed" may still be there.
* `TapsTakeTurns`: two taps overlap only before the first frame, or after an
  early reset, or where two calls share a notifier.

## 6. Where the code and its comments disagree

| run | property | |
|---|---|---|
| `post_stale_page` | `FilesGoWithDocument` | the details page deletes the files of the version it was opened with, and the document of the current one |
| `account_twice` | `AddedForNewUser` | two first sign-ins add two profiles |
| `feed_thread` | `CommentsAreWatched` | a comment updated on the comments page is missing from the details page below it |

The lines and the counterexamples' stories are under `findings` in
`PROJECT.json`.

Some more things the models show of the code, though nothing in it promises
otherwise: a comment added after `deletePost`'s query outlives its post
(`OrphanChildWasMissed` is as far as it goes); two overlapping taps, or one that reads a
stale cache, leave two likes of one person, and `postLikesCountProvider` counts both
(`OneLikePerUser` speaks of the users not astray); the details page goes on showing a post that is gone
(`Notify` sends nothing without a post). And where a property has an exception, the
exception is what the code does: a kill or an error between a put and the write
leaves files (`disturbed` of `NoOrphanFiles`), an original that fails after its thumbnail
shifts those after it (`uneven` of `TapOpensItsOriginal`), a refused or unwritten first
profile leaves a main view without one (`faulted` of `MainViewHasProfile`), an exception
outside of any `try` leaves the overlay up (`stuck` of `OverlayGoesAway`), and an add or a
commit that is handled again brings a post back or moves a message. The hazards of
`PROJECT.json` that have a note say so line by line.

## 7. Plan

Done, in the order of importance: posts and files, likes, chat, account, live
feeds, overlay; then the Firestore client underneath: its write pipeline and its
transactions.

What would come next:

1. The watch stream (`watch_stream.cc`, `watch_change_aggregator.cc`), which
   feeds `LiveFeed`'s `Deliver`.
2. The parallel url lists of one post, their alignment under failures, and the
   orphans of a profile photo (`docs.first` of an empty query after the files
   were put, `image_upload_notifier.dart` 113).
3. `LiveFeed`: the limit and the order of comments (`post_comments_provider.dart`
   27 takes the limit before pending comments are filtered out), and a document
   sent while a write is pending.
4. A composition of `LoadingOverlay` with `UserAccount`, so that "one call at
   a time" is derived instead of assumed.

**Not modelled.** Search and lists of people are a query and a filter with no
state; layout and decoding, post settings and the bottom bar are single
assignments. The edit screen's picks, the text-only edit that takes `first` of an
empty list (`post_edit_screen.dart` 96, 185), the comment page's draft and the user a
reply names (`post_comments_view.dart` 295, 368) are single synchronous steps
of one actor, which a test reaches. Of the Firestore client, the watch stream,
the local cache and its collection, and serialization are left out; gRPC,
BoringSSL, abseil and the other pods are third-party code below the interfaces
modelled here, and the runners are generated.
