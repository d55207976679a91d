----------------------------- MODULE ChatSend -----------------------------
(***************************************************************************)
(* The chat of pairs of users.  A message is the document whose id is the   *)
(* millisecond at which sendMessage was called, by the clock of the device, *)
(* in a collection both users derive from their two ids; its pictures are   *)
(* put into Storage between the choice of that id and the write, and the    *)
(* list is shown in the order of the server's createdAt.  The write is a    *)
(* transaction that sets the document whatever it held: a commit without an *)
(* answer is sent again, the server may still handle the first one long     *)
(* after the call has returned, and each one stamps createdAt anew          *)
(* (TransactionRunner has the transaction in detail).                       *)
(*                                                                          *)
(* A screen is a ChatMessageScreen some user has open on another user, with *)
(* its text field and picked files.  sendMessage works on the screen's own  *)
(* list of files, and the screen clears its text and its files when the     *)
(* call has answered, whatever they are by then.                            *)
(*                                                                          *)
(* A definition marked Faulty is not part of the model: it is a form of the *)
(* definition after it with a plausible fault, which some property refutes. *)
(***************************************************************************)
EXTENDS Integers, Sequences

CONSTANTS
    Screen,     \* open chat screens
    Me, Peer,   \* the two users of each screen: user ids, ordered
    Call,       \* calls of sendMessage
    Draft,      \* texts
    Ms,         \* readings of a device's clock in milliseconds
    MaxFiles,   \* files of one message (the gallery picker takes 4)
    MaxCopies,  \* bound: commits of one call that ended without an answer
    MaxTime,    \* bound: writes the server makes
    NoText,     \* an empty text field
    NoCall      \* a document that does not exist

ASSUME ConstantsAssumption ==
    /\ Me \in [Screen -> Int] /\ Peer \in [Screen -> Int]
    /\ \A s \in Screen : Me[s] # Peer[s]
    /\ MaxFiles \in Nat
    /\ NoText \notin Draft /\ NoCall \notin Call

VARIABLES
    draft,      \* the text field of each screen
    picked,     \* how many files it has picked
    pc,         \* where each call awaits
    from,       \* the screen it was called by
    text,       \* its text
    id,         \* the millisecond that names its document
    count, next,    \* how many files it sends, and which is in hand
    thumbs, origs,  \* the url lists built so far, by number of file
    shares,     \* whether the list it walks is still the screen's
    cleared,    \* whether that list has been emptied under it
    chat,       \* the documents of all groups
    createdAt,  \* server time of the last write of each call, 0 before
    now,        \* server time of the last write
    copies,     \* commits of each call it may still handle beside the last one
    before,     \* calls that had succeeded when each call began
    retyped,    \* screens whose text was typed while a call of theirs ran
    uneven,     \* calls in which an original failed after its thumbnail
    again       \* calls with a commit handled after they had returned

screenVars == <<draft, picked>>
callVars == <<pc, from, text, id, count, next, thumbs, origs, shares, cleared>>
serverVars == <<chat, createdAt, now, copies>>
historyVars == <<before, retyped, uneven, again>>
vars == <<screenVars, callVars, serverVars, historyVars>>

\* Faulty: the two ids in the order sender, receiver.
GroupChatIdUnsorted(s) == <<Me[s], Peer[s]>>

\* Faulty: a group for each receiver.
GroupChatIdOfReceiver(s) == <<Peer[s], Peer[s]>>

\* Both users of a pair compute the same group.
GroupChatId(s) ==
    IF Me[s] > Peer[s] THEN <<Me[s], Peer[s]>> ELSE <<Peer[s], Me[s]>>

Group == {GroupChatId(s) : s \in Screen}
Doc(c) == <<GroupChatId(from[c]), id[c]>>

Uploading == {"thumb", "orig"}
Running == Uploading \union {"commit", "answer"}
Sent == {c \in Call : pc[c] = "sent"}
RunningOf(s) == {c \in Call : pc[c] \in Running /\ from[c] = s}

\* What chatMessageProvider shows on a screen.
Shown(s) == {chat[<<GroupChatId(s), m>>] : m \in Ms} \ {NoCall}

Init ==
    /\ draft = [s \in Screen |-> NoText]
    /\ picked = [s \in Screen |-> 0]
    /\ pc = [c \in Call |-> "idle"]
    /\ \E s \in Screen, m \in Ms : from = [c \in Call |-> s] /\ id = [c \in Call |-> m]
    /\ text = [c \in Call |-> NoText]
    /\ count = [c \in Call |-> 0]
    /\ next = [c \in Call |-> 1]
    /\ thumbs = [c \in Call |-> <<>>]
    /\ origs = [c \in Call |-> <<>>]
    /\ shares = [c \in Call |-> FALSE]
    /\ cleared = [c \in Call |-> FALSE]
    /\ chat = [d \in Group \X Ms |-> NoCall]
    /\ createdAt = [c \in Call |-> 0]
    /\ now = 0
    /\ copies = [c \in Call |-> 0]
    /\ before = [c \in Call |-> {}]
    /\ retyped = {}
    /\ uneven = {}
    /\ again = {}

----------------------------------------------------------------------------
(* The screen.                                                              *)

\* The loading overlay takes taps, not the keyboard, which stays up after a
\* tap on the send button.
Type(s, t) ==
    /\ draft' = [draft EXCEPT ![s] = t]
    /\ retyped' = IF RunningOf(s) = {} THEN retyped \ {s} ELSE retyped \union {s}
    /\ UNCHANGED <<picked, callVars, serverVars, before, uneven, again>>

\* A pick puts a new list in the place of the old one.
Pick(s, n) ==
    /\ picked' = [picked EXCEPT ![s] = n]
    /\ shares' = [c \in Call |-> shares[c] /\ from[c] # s]
    /\ UNCHANGED <<draft, pc, from, text, id, count, next, thumbs, origs, cleared,
                   serverVars, historyVars>>

\* mediaFile.value.clear() empties the list in place, under every call that
\* walks it.
ClearFiles(s) ==
    /\ picked' = [picked EXCEPT ![s] = 0]
    /\ cleared' = [c \in Call |-> cleared[c] \/ (shares[c] /\ from[c] = s)]

Close(s) ==
    /\ picked[s] > 0
    /\ ClearFiles(s)
    /\ UNCHANGED <<draft, pc, from, text, id, count, next, thumbs, origs, shares,
                   serverVars, historyVars>>

----------------------------------------------------------------------------
(* sendMessage.                                                             *)

Goto(c, at) == pc' = [pc EXCEPT ![c] = at]

\* The send button or the keyboard's send key.  Nothing synchronises the
\* clocks of devices, or keeps one from being set back.
Send(s, c, ms) ==
    /\ draft[s] # NoText
    /\ pc[c] = "idle"
    /\ from' = [from EXCEPT ![c] = s]
    /\ text' = [text EXCEPT ![c] = draft[s]]
    /\ id' = [id EXCEPT ![c] = ms]
    /\ count' = [count EXCEPT ![c] = picked[s]]
    /\ next' = [next EXCEPT ![c] = 1]
    /\ shares' = [shares EXCEPT ![c] = picked[s] > 0]
    /\ Goto(c, IF picked[s] = 0 THEN "commit" ELSE "thumb")
    /\ before' = [before EXCEPT ![c] = Sent]
    /\ UNCHANGED <<screenVars, thumbs, origs, cleared, serverVars, retyped, uneven, again>>

\* Future.forEach asks its iterator for the next file; the iterator throws
\* when the list has been cleared since.
NextFile(c) ==
    /\ next' = [next EXCEPT ![c] = @ + 1]
    /\ \/ cleared[c] /\ Goto(c, "failed")
       \/ ~cleared[c] /\ Goto(c, IF next[c] = count[c] THEN "commit" ELSE "thumb")

\* Faulty: the thumbnail is listed before it is known to decode.
SkipFileListed(c) ==
    /\ pc[c] = "thumb"
    /\ thumbs' = [thumbs EXCEPT ![c] = Append(@, next[c])]
    /\ NextFile(c)
    /\ UNCHANGED <<screenVars, from, text, id, count, origs, shares, cleared,
                   serverVars, historyVars>>

\* The file does not decode: the callback returns, the loop goes on.
SkipFile(c) ==
    /\ pc[c] = "thumb"
    /\ NextFile(c)
    /\ UNCHANGED <<screenVars, from, text, id, count, thumbs, origs, shares, cleared,
                   serverVars, historyVars>>

PutThumb(c) ==
    /\ pc[c] = "thumb"
    /\ thumbs' = [thumbs EXCEPT ![c] = Append(@, next[c])]
    /\ Goto(c, "orig")
    /\ UNCHANGED <<screenVars, from, text, id, count, next, origs, shares, cleared,
                   serverVars, historyVars>>

PutOriginal(c) ==
    /\ pc[c] = "orig"
    /\ origs' = [origs EXCEPT ![c] = Append(@, next[c])]
    /\ NextFile(c)
    /\ UNCHANGED <<screenVars, from, text, id, count, thumbs, shares, cleared,
                   serverVars, historyVars>>

\* The inner catch: a put or a getDownloadURL throws, and the loop goes on
\* without that file, or with its thumbnail only.
PutError(c) ==
    /\ pc[c] \in Uploading
    /\ NextFile(c)
    /\ uneven' = IF pc[c] = "orig" THEN uneven \union {c} ELSE uneven
    /\ UNCHANGED <<screenVars, from, text, id, count, thumbs, origs, shares, cleared,
                   serverVars, before, retyped, again>>

\* The server handles a commit: it sets the document, whatever it held.
Write(c) ==
    /\ now < MaxTime
    /\ chat' = [chat EXCEPT ![Doc(c)] = c]
    /\ now' = now + 1
    /\ createdAt' = [createdAt EXCEPT ![c] = now + 1]

\* Faulty: createdAt is the device's time.
CommitDeviceTime(c) ==
    /\ pc[c] = "commit" /\ now < MaxTime
    /\ chat' = [chat EXCEPT ![Doc(c)] = c]
    /\ now' = now + 1
    /\ createdAt' = [createdAt EXCEPT ![c] = id[c]]
    /\ Goto(c, "answer")
    /\ UNCHANGED <<screenVars, from, text, id, count, next, thumbs, origs, shares, cleared,
                   copies, historyVars>>

Commit(c) ==
    /\ pc[c] = "commit"
    /\ Write(c)
    /\ Goto(c, "answer")
    /\ UNCHANGED <<screenVars, from, text, id, count, next, thumbs, origs, shares, cleared,
                   copies, historyVars>>

\* The transaction's call ends without an answer, before the server has handled
\* it, which it still may, or after: the runner tries again.
Lose(c) ==
    /\ \/ /\ pc[c] = "commit" /\ copies[c] < MaxCopies
          /\ copies' = [copies EXCEPT ![c] = @ + 1]
       \/ pc[c] = "answer" /\ UNCHANGED copies
    /\ Goto(c, "commit")
    /\ UNCHANGED <<screenVars, from, text, id, count, next, thumbs, origs, shares, cleared,
                   chat, createdAt, now, historyVars>>

CommitCopy(c) ==
    /\ copies[c] > 0
    /\ copies' = [copies EXCEPT ![c] = @ - 1]
    /\ Write(c)
    /\ again' = IF pc[c] \in Running THEN again ELSE again \union {c}
    /\ UNCHANGED <<screenVars, callVars, before, retyped, uneven>>

\* sendMessage returns true, and the screen clears what it now holds.
Answer(c) ==
    /\ pc[c] = "answer"
    /\ Goto(c, "sent")
    /\ draft' = [draft EXCEPT ![from[c]] = NoText]
    /\ ClearFiles(from[c])
    /\ UNCHANGED <<from, text, id, count, next, thumbs, origs, shares, serverVars, historyVars>>

\* Faulty: the screen clears its text whatever the call returned.
FailCleared(c) ==
    /\ pc[c] \in {"thumb", "commit", "answer"}
    /\ Goto(c, "failed")
    /\ draft' = [draft EXCEPT ![from[c]] = NoText]
    /\ UNCHANGED <<picked, from, text, id, count, next, thumbs, origs, shares, cleared,
                   serverVars, historyVars>>

\* A file cannot be read, the transaction is refused, or the last of its
\* attempts ends without an answer, with or without effect: sendMessage returns
\* false and the screen keeps what it holds.
Fail(c) ==
    /\ pc[c] \in {"thumb", "commit", "answer"}
    /\ Goto(c, "failed")
    /\ UNCHANGED <<screenVars, from, text, id, count, next, thumbs, origs, shares, cleared,
                   serverVars, historyVars>>

Return(c) ==
    SkipFile(c) \/ PutThumb(c) \/ PutOriginal(c) \/ PutError(c) \/ Commit(c) \/ Answer(c)

Next ==
    \/ \E s \in Screen :
          \/ \E t \in Draft : Type(s, t)
          \/ \E n \in 1..MaxFiles : Pick(s, n)
          \/ Close(s)
          \/ \E c \in Call, ms \in Ms : Send(s, c, ms)
    \/ \E c \in Call : Return(c) \/ Fail(c) \/ Lose(c) \/ CommitCopy(c)

Spec == Init /\ [][Next]_vars

----------------------------------------------------------------------------
(* Properties.                                                              *)

TypeOK ==
    /\ draft \in [Screen -> Draft \union {NoText}]
    /\ picked \in [Screen -> 0..MaxFiles]
    /\ pc \in [Call -> Running \union {"idle", "sent", "failed"}]
    /\ from \in [Call -> Screen]
    /\ text \in [Call -> Draft \union {NoText}]
    /\ id \in [Call -> Ms]
    /\ count \in [Call -> 0..MaxFiles]
    /\ next \in [Call -> Nat]
    /\ thumbs \in [Call -> Seq(1..MaxFiles)]
    /\ origs \in [Call -> Seq(1..MaxFiles)]
    /\ shares \in [Call -> BOOLEAN]
    /\ cleared \in [Call -> BOOLEAN]
    /\ chat \in [Group \X Ms -> Call \union {NoCall}]
    /\ createdAt \in [Call -> Nat]
    /\ now \in Nat
    /\ copies \in [Call -> Nat]
    /\ before \in [Call -> SUBSET Call]
    /\ retyped \subseteq Screen
    /\ uneven \subseteq Call /\ again \subseteq Call

\* A message reported as sent is in the query of every screen open between
\* its two users, whoever of them opened it, unless another message of theirs
\* that was begun at a device time of the same millisecond was written later.
LostOnlyToSameMs ==
    \A c \in Sent : \A s \in Screen :
       {Me[s], Peer[s]} = {Me[from[c]], Peer[from[c]]} =>
          \/ c \in Shown(s)
          \/ \E e \in Shown(s) : id[e] = id[c] /\ createdAt[e] > createdAt[c]

\* No message is in the query of any other pair of users.
ShownToItsTwoUsers ==
    \A s \in Screen : \A c \in Shown(s) :
       {Me[s], Peer[s]} = {Me[from[c]], Peer[from[c]]}

\* A message that was begun after another had been reported as sent is listed
\* after it, however the clocks of the two devices differ and however often
\* their commits are handled, unless one more commit of the first was handled
\* after its call had returned: that moves it down the list.
ListedInRealTime ==
    \A c \in Call : createdAt[c] > 0 =>
       \A e \in before[c] \ again : createdAt[e] < createdAt[c]

\* Unless an original failed after its thumbnail, a tap on the i-th thumbnail
\* of a message opens the original of the same file (fileUrl[index]).
TapOpensItsOriginal ==
    \A s \in Screen : \A c \in Shown(s) \ uneven : origs[c] = thumbs[c]

\* The screen forgets a text nobody has typed meanwhile only when a call has
\* sent that text.
DraftClearedOnceSent ==
    [][\A s \in Screen : draft'[s] = NoText /\ draft[s] # NoText /\ s \notin retyped =>
          \E c \in Call : from[c] = s /\ pc'[c] = "sent" /\ text[c] = draft[s]]_vars
============================================================================
