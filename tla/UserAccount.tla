---------------------------- MODULE UserAccount ----------------------------
(***************************************************************************)
(* One person's account on several devices: who is signed in, what the app  *)
(* believes about it (AuthState), and the profile document in Firestore.    *)
(* Signing in looks for the profile and then asks saveUserInfo to add one;  *)
(* saveUserInfo looks again and then updates or adds: two checks and an act *)
(* with awaits between them, on every device.  An edit of the profile page  *)
(* saves all its fields, one of them changed, through the same second look. *)
(*                                                                          *)
(* Both looks are plain get()s, which a device that is offline answers from *)
(* its cache.  The act is a write saved in the device's mutation queue: it  *)
(* survives the process, it is sent again until it is answered, and the     *)
(* server may still handle the copies that calls now ended had sent         *)
(* (WritePipeline has all of this in detail).                               *)
(*                                                                          *)
(* The loading overlay lets a device run one of these calls at a time.      *)
(*                                                                          *)
(* A definition marked Faulty is not part of the model: it is a form of the *)
(* definition after it with a plausible fault, which some property refutes. *)
(***************************************************************************)
EXTENDS Integers, Sequences, FiniteSets

CONSTANTS
    Device,     \* installations of the app, signed in with one Google account
    DocId,      \* document ids of the users collection, ordered
    Profile,    \* what a profile document may hold
    Google,     \* what Google knows of the person, which a sign-in saves
    NoDoc,      \* a document that does not exist
    MaxQueue,   \* bound: writes a device has without an answer
    MaxLate     \* bound: writes of which the server may handle one more copy

ASSUME ConstantsAssumption ==
    /\ DocId \subseteq Nat /\ DocId # {}
    /\ \A S \in SUBSET DocId : S # {} => \E i \in S : \A j \in S : i <= j
    /\ Google \in Profile /\ NoDoc \notin Profile

VARIABLES
    docs,       \* the account's documents the server has
    queue,      \* mutation queue of each device, persisted
    late,       \* writes that ended calls have left to the server
    fbUser,     \* devices on which Firebase has a current user
    result,     \* AuthState.result of each device: success, or anything else
    loading,    \* devices whose AuthState.isLoading is set
    pc,         \* where the device's call awaits
    job,        \* which call it is
    form,       \* the profile it is to save, until the write is queued
    shown,      \* devices whose page shows a profile
    faulted,    \* whether a first profile was refused, or never written
    blind       \* whether a call took an empty answer though there was a
                \* profile, or one on its way from elsewhere

serverVars == <<docs, queue, late>>
callVars == <<pc, job, form>>
authVars == <<fbUser, result, loading>>
historyVars == <<faulted, blind>>
vars == <<serverVars, authVars, callVars, shown, historyVars>>

\* A write, and whether a sign-in made it.
Write == [op : {"add", "update"}, doc : DocId, form : Profile, login : BOOLEAN]

Existing == {i \in DocId : docs[i] # NoDoc}

Queued(d) == {queue[d][k] : k \in DOMAIN queue[d]}

\* Every write without an answer, and every copy left to the server.
Pending == late \union UNION {Queued(d) : d \in Device}

AddedBy(W) == {w.doc : w \in {v \in W : v.op = "add"}}

\* What limit(1) returns: documents come in the order of their ids.
First(S) == CHOOSE i \in S : \A j \in S : i <= j

\* The documents a query of a device may find: a part of those the server
\* has, from the cache, or all of them, and what the device adds itself.
Findable(d) == {S \union AddedBy(Queued(d)) : S \in SUBSET Existing}

Init ==
    /\ docs = [i \in DocId |-> NoDoc]
    /\ queue = [d \in Device |-> <<>>]
    /\ late = {}
    /\ fbUser = {}
    /\ result = [d \in Device |-> "none"]
    /\ loading = {}
    /\ pc = [d \in Device |-> "idle"]
    /\ job = [d \in Device |-> "none"]
    /\ form = [d \in Device |-> Google]
    /\ shown = {}
    /\ faulted = FALSE
    /\ blind = FALSE

----------------------------------------------------------------------------
Begin(d, j, at) ==
    /\ pc[d] = "idle"
    /\ pc' = [pc EXCEPT ![d] = at]
    /\ job' = [job EXCEPT ![d] = j]

Goto(d, at) == pc' = [pc EXCEPT ![d] = at]

Return(d) ==
    /\ pc' = [pc EXCEPT ![d] = "idle"]
    /\ job' = [job EXCEPT ![d] = "none"]
    /\ form' = [form EXCEPT ![d] = Google]

\* saveUserInfo has returned, with true or with false: nobody looks.
Saved(d) ==
    /\ Return(d)
    /\ loading' = IF job[d] = "photo" THEN loading ELSE loading \ {d}
    /\ result' = IF job[d] = "login" THEN [result EXCEPT ![d] = "success"] ELSE result

----------------------------------------------------------------------------
(* Signing in and out.                                                      *)

\* The login view is up as long as the result is not success.
Login(d) ==
    /\ result[d] # "success" /\ d \notin loading
    /\ Begin(d, "login", "google")
    /\ loading' = loading \union {d}
    /\ UNCHANGED <<serverVars, fbUser, result, form, shown, historyVars>>

\* Authenticator.loginWithGoogle returns.
SignIn(d) ==
    /\ pc[d] = "google"
    /\ fbUser' = fbUser \union {d}
    /\ Goto(d, "lookup")
    /\ UNCHANGED <<serverVars, result, loading, job, form, shown, historyVars>>

SignInRefused(d) ==
    /\ pc[d] = "google"
    /\ result' = [result EXCEPT ![d] = "none"]
    /\ loading' = loading \ {d}
    /\ Return(d)
    /\ UNCHANGED <<serverVars, fbUser, shown, historyVars>>

\* A profile that d does not see is about to be added: some other device has
\* looked in vain, or its add has not been answered, or a copy is left.
OnItsWay(d) ==
    \/ \E e \in Device \ {d} : job[e] = "login" /\ pc[e] = "query"
    \/ AddedBy(Pending) # {}

\* What an empty answer is worth.
FoundNone(d) == blind' = (blind \/ Existing # {} \/ OnItsWay(d))

\* Faulty: adds the profile at once.
LookupAdds(d) ==
    /\ pc[d] = "lookup"
    /\ \E i \in DocId \ (Existing \union AddedBy(Pending)) :
          queue' = [queue EXCEPT ![d] = Append(@,
                      [op |-> "add", doc |-> i, form |-> form[d], login |-> job[d] = "login"])]
    /\ Goto(d, "write")
    /\ UNCHANGED <<docs, late, authVars, job, form, shown, historyVars>>

\* Faulty: takes an empty answer for a profile.
LookupInverted(d) ==
    /\ pc[d] = "lookup"
    /\ \E found \in Findable(d) :
          IF found # {}
          THEN Goto(d, "query") /\ UNCHANGED <<result, loading, job, form>>
          ELSE Saved(d)
    /\ UNCHANGED <<serverVars, fbUser, shown, historyVars>>

\* Faulty: saves without looking at the answer.
LookupSaves(d) ==
    /\ pc[d] = "lookup"
    /\ \E found \in Findable(d) :
          IF found = {} THEN FoundNone(d) ELSE UNCHANGED blind
    /\ Goto(d, "query")
    /\ UNCHANGED <<serverVars, authVars, job, form, shown, faulted>>

\* The query of loginWithGoogle answers.
Lookup(d) ==
    /\ pc[d] = "lookup"
    /\ \E found \in Findable(d) :
          IF found = {}
          THEN /\ FoundNone(d)
               /\ Goto(d, "query")
               /\ UNCHANGED <<result, loading, job, form>>
          ELSE /\ Saved(d)
               /\ UNCHANGED blind
    /\ UNCHANGED <<serverVars, fbUser, shown, faulted>>

\* It throws, and nothing catches it: isLoading stays set.
LookupError(d) ==
    /\ pc[d] = "lookup"
    /\ Return(d)
    /\ faulted' = TRUE
    /\ UNCHANGED <<serverVars, authVars, shown, blind>>

LogOut(d) ==
    /\ result[d] = "success" /\ d \notin loading
    /\ Begin(d, "logout", "signOut")
    /\ loading' = loading \union {d}
    /\ UNCHANGED <<serverVars, fbUser, result, form, shown, historyVars>>

\* Firebase signs out first, Google after it.
SignOut(d) ==
    /\ pc[d] = "signOut"
    /\ fbUser' = fbUser \ {d}
    /\ Goto(d, "googleOut")
    /\ UNCHANGED <<serverVars, result, loading, job, form, shown, historyVars>>

GoogleSignOut(d) ==
    /\ pc[d] = "googleOut"
    /\ result' = [result EXCEPT ![d] = "none"]
    /\ loading' = loading \ {d}
    /\ shown' = shown \ {d}
    /\ Return(d)
    /\ UNCHANGED <<serverVars, fbUser, historyVars>>

\* Faulty: a finally clause resets isLoading.
LogOutErrorReset(d) ==
    /\ pc[d] \in {"signOut", "googleOut"}
    /\ loading' = loading \ {d}
    /\ Return(d)
    /\ UNCHANGED <<serverVars, fbUser, result, shown, historyVars>>

\* Either throws, and nothing catches it.
LogOutError(d) ==
    /\ pc[d] \in {"signOut", "googleOut"}
    /\ Return(d)
    /\ UNCHANGED <<serverVars, authVars, shown, historyVars>>

\* The process is killed and started again: AuthStateNotifier asks Firebase
\* whether there is a current user, and nothing else.  The queue stays.
Restart(d) ==
    /\ Return(d)
    /\ result' = [result EXCEPT ![d] = IF d \in fbUser THEN "success" ELSE "none"]
    /\ loading' = loading \ {d}
    /\ shown' = shown \ {d}
    /\ faulted' = (faulted \/ (job[d] = "login" /\ pc[d] \in {"lookup", "query"}))
    /\ UNCHANGED <<serverVars, fbUser, blind>>

----------------------------------------------------------------------------
(* The profile.                                                             *)

\* userInfoModelProvider hears of a profile, maybe of an old version or of one
\* that only the device has.
Deliver(d) ==
    /\ result[d] = "success"
    /\ \E found \in Findable(d) : found # {}
    /\ shown' = shown \union {d}
    /\ UNCHANGED <<serverVars, authVars, callVars, historyVars>>

\* A text field of the profile page is submitted, or the photo: upload looks
\* for the document after it has put the picture.
Edit(d, p) ==
    /\ result[d] = "success" /\ d \notin loading /\ d \in shown
    /\ form' = [form EXCEPT ![d] = p]
    /\ \/ Begin(d, "photo", "query") /\ UNCHANGED loading
       \/ Begin(d, "edit", "query") /\ loading' = loading \union {d}
    /\ UNCHANGED <<serverVars, fbUser, result, shown, historyVars>>

\* The call's write is saved in the mutation queue.
Enqueue(d, op, i) ==
    /\ Len(queue[d]) < MaxQueue
    /\ queue' = [queue EXCEPT ![d] = Append(@,
                    [op |-> op, doc |-> i, form |-> form[d], login |-> job[d] = "login"])]
    /\ Goto(d, "write")
    /\ form' = [form EXCEPT ![d] = Google]
    /\ UNCHANGED job

\* The query of saveUserInfo, or of upload, answers.  The id of a document to
\* add is random; upload adds none, it throws and returns false.
Query(d) ==
    /\ pc[d] = "query"
    /\ \E found \in Findable(d) :
          IF found # {}
          THEN Enqueue(d, "update", First(found)) /\ UNCHANGED blind
          ELSE IF job[d] = "photo"
          THEN Return(d) /\ UNCHANGED <<queue, blind>>
          ELSE /\ \E i \in DocId \ (Existing \union AddedBy(Pending)) : Enqueue(d, "add", i)
               /\ FoundNone(d)
    /\ UNCHANGED <<docs, late, authVars, shown, faulted>>

\* The query throws, or upload's getDownloadURL: caught, false is returned.
QueryError(d) ==
    /\ pc[d] = "query"
    /\ Saved(d)
    /\ faulted' = (faulted \/ job[d] = "login")
    /\ UNCHANGED <<serverVars, fbUser, shown, blind>>

\* An answer to the first write of the queue: to the call, if it is its own.
Answered(d) ==
    /\ queue' = [queue EXCEPT ![d] = Tail(@)]
    /\ IF pc[d] = "write" /\ Len(queue[d]) = 1
       THEN Saved(d)
       ELSE UNCHANGED <<callVars, result, loading>>

\* What the server does with a write: only an add makes a document.
Apply(w) ==
    IF w.op = "add" \/ w.doc \in Existing
    THEN docs' = [docs EXCEPT ![w.doc] = w.form]
    ELSE UNCHANGED docs

\* The queue is sent while its user is signed in.
Handle(d) ==
    /\ d \in fbUser /\ queue[d] # <<>>
    /\ Head(queue[d]).op = "update" => Head(queue[d]).doc \in Existing
    /\ Apply(Head(queue[d]))
    /\ Answered(d)
    /\ UNCHANGED <<late, fbUser, shown, historyVars>>

\* A permanent error, such as an update of no document: the write is dropped,
\* and saveUserInfo or upload catches the exception and returns false.
Refuse(d) ==
    /\ d \in fbUser /\ queue[d] # <<>>
    /\ Answered(d)
    /\ faulted' = (faulted \/ Head(queue[d]).op = "add")
    /\ UNCHANGED <<docs, late, fbUser, shown, blind>>

\* A call ends before it answered a write that was sent on it, which is sent
\* again: the server may handle the first copy too, whenever it likes.
Lose(d) ==
    /\ d \in fbUser
    /\ Cardinality(late) < MaxLate
    /\ \E w \in Queued(d) \ late : late' = late \union {w}
    /\ UNCHANGED <<docs, queue, authVars, callVars, shown, historyVars>>

HandleLate(w) ==
    /\ w \in late
    /\ Apply(w)
    /\ UNCHANGED <<queue, late, authVars, callVars, shown, historyVars>>

----------------------------------------------------------------------------
\* An answer to the call the device runs.
Answer(d) ==
    \/ SignIn(d) \/ SignInRefused(d) \/ Lookup(d)
    \/ SignOut(d) \/ GoogleSignOut(d)
    \/ Query(d) \/ Handle(d) \/ Refuse(d)

Next ==
    \/ \E d \in Device :
         \/ Login(d) \/ LogOut(d) \/ Restart(d) \/ Deliver(d)
         \/ \E p \in Profile : Edit(d, p)
         \/ Answer(d)
         \/ LookupError(d) \/ LogOutError(d) \/ QueryError(d) \/ Lose(d)
    \/ \E w \in late : HandleLate(w)

Spec == Init /\ [][Next]_vars

\* Every request is answered in the end.
FairSpec == Spec /\ \A d \in Device : WF_vars(Answer(d))

----------------------------------------------------------------------------
(* Properties.                                                              *)

TypeOK ==
    /\ docs \in [DocId -> Profile \union {NoDoc}]
    /\ queue \in [Device -> Seq(Write)]
    /\ late \subseteq Write
    /\ fbUser \subseteq Device
    /\ result \in [Device -> {"none", "success"}]
    /\ loading \subseteq Device
    /\ pc \in [Device -> {"idle", "google", "lookup", "query", "write",
                          "signOut", "googleOut"}]
    /\ job \in [Device -> {"none", "login", "logout", "edit", "photo"}]
    /\ form \in [Device -> Profile]
    /\ shown \subseteq Device
    /\ faulted \in BOOLEAN /\ blind \in BOOLEAN

\* The main view without the overlay is only up while Firebase has a current
\* user: a log-out that fails half way leaves the overlay, not a main view on
\* which currentUser! throws.
MainViewHasUser ==
    \A d \in Device : result[d] = "success" /\ d \notin loading => d \in fbUser

\* Whoever is in the main view has a profile, or one that is still to be sent
\* after its process was killed - unless the first profile was refused, which
\* nobody looks at, or the sign-in failed or was killed before it wrote one.
MainViewHasProfile ==
    (\E d \in Device : result[d] = "success") /\ ~faulted =>
        Existing # {} \/ \E d \in Device : AddedBy(Queued(d)) # {}

\* As long as no call took an empty answer while there was a profile, or one on
\* its way, there is one document, whatever was killed, refused or sent twice.
OneProfileUnlessBlind == ~blind => \A i, j \in Existing : i = j

\* Until then a profile that exists is changed by a person's edit only, to what
\* that edit was to save, or by one more copy of the add it began with: a
\* sign-in on one more device does not put Google's values back.
OnlyEditsChange ==
    [][~blind => \A i \in Existing : docs'[i] # docs[i] =>
          \E w \in Pending : /\ w.doc = i /\ w.form = docs'[i]
                             /\ w.op = "update" => ~w.login
                             /\ w.op = "add" => w \in late]_vars

\* "Check if we have this user's info before", "Is new user"
\* (user_info_storage.dart:20, :40): a profile is added for a new user only.
AddedForNewUser == [][\A i \in DocId : docs[i] = NoDoc /\ docs'[i] # NoDoc => Existing = {}]_vars
============================================================================
