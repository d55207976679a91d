---------------------------- MODULE WritePipeline ----------------------------
(***************************************************************************)
(* How the Firestore client of the iOS build gets the app's writes to the   *)
(* server.  A write is saved in the mutation queue of the user who is       *)
(* signed in, taken into a pipeline of bounded length, sent on the write    *)
(* stream and removed from the queue when the stream answers.  Answers      *)
(* carry no name: they are matched to writes by their position alone.       *)
(*                                                                          *)
(* Three threads meet here.  On the main thread Auth announces who is       *)
(* signed in and hands out tokens; gRPC completes reads and writes on its   *)
(* own; everything of the client runs as a task of one worker queue.  The   *)
(* server may have handled any part of what was sent on a call when that    *)
(* call ends, and may go on with the rest of it afterwards.  The process    *)
(* may be killed at any time; the mutation queues survive.                  *)
(*                                                                          *)
(* A definition marked Faulty is not part of the model: it is a form of the *)
(* definition after it with a plausible fault, which some property refutes. *)
(***************************************************************************)
EXTENDS Integers, Sequences, FiniteSets

CONSTANTS
    User,               \* users of the device; being signed out is one of them
    NoUser,             \* no user
    MaxPendingWrites,   \* kMaxPendingWrites (10 in the code)
    MaxWrites,          \* bound: writes of the app
    MaxSignIns,         \* bound: changes of credentials
    MaxFaults           \* bound: what goes wrong, see Fault

ASSUME ConstantsAssumption ==
    /\ NoUser \notin User
    /\ MaxPendingWrites \in Nat \ {0}
    /\ {MaxWrites, MaxSignIns, MaxFaults} \subseteq Nat

VARIABLES
    auth,       \* the user Auth has signed in
    main,       \* what waits on the main thread: announcements and tokens
    contents,   \* the credentials provider: its user and its token counter
    fetches,    \* requests for a token Auth has not answered
    tasks,      \* the worker queue
    current,    \* the user the sync engine works for
    queue,      \* mutation queue of each user, persisted
    callbacks,  \* writes of each user whose caller waits for the outcome
    pipeline,   \* write_pipeline_
    state,      \* state of the write stream
    closes,     \* its close count
    handshake,  \* handshake_complete_
    idle,       \* whether its idle timer runs
    call,       \* its gRPC call
    stale,      \* what the server may still handle of calls that have ended
    calls,      \* writes the app has made
    owner,      \* user signed in when each write was made
    fate,       \* what became of each write
    applied,    \* writes the server has applied, with the user of the token
    refused,    \* writes it has refused
    signIns, faults

credentialVars == <<auth, main, contents, fetches>>
storeVars == <<queue, callbacks>>
streamVars == <<pipeline, state, closes, handshake, idle, call>>
serverVars == <<stale, applied, refused>>
appVars == <<calls, owner>>
boundVars == <<signIns, faults>>
vars == <<credentialVars, tasks, current, storeVars, streamVars, serverVars, appVars,
          fate, boundVars>>

Write == 1..MaxWrites
Applied == {a[1] : a \in applied}

\* A call as its two ends see it: the requests sent, how many of them the
\* server has handled (each gives one answer), how many answers the client has
\* taken, how the server ended it, and how far the client has got with that.
Call == [user : User, sent : Seq(Write \union {0}), handled : Nat, taken : Nat,
         status : {"live", "transient", "permanent"}, phase : {"up", "failed", "finishing"}]
Handshake == 0
NoCall == [user |-> NoUser]

NewCall(u) == [user |-> u, sent |-> <<Handshake>>, handled |-> 0, taken |-> 0,
               status |-> "live", phase |-> "up"]

IsOpen == state = "Open"
Started(s) == s \in {"Starting", "Backoff", "Open"}

\* Completions that have been cancelled stay on the worker queue as no-ops.
Completions == {"read", "fail", "finish"}
Noop == [kind |-> "noop"]
Cancelled(q, kinds) == [i \in DOMAIN q |-> IF q[i].kind \in kinds THEN Noop ELSE q[i]]
Queued(kind) == \E i \in DOMAIN tasks : tasks[i].kind = kind

Fetch(n, c) == [closes |-> n, counter |-> c, user |-> NoUser]

\* How many writes of a queue come no later than a given one.
Passed(q, last) == Cardinality({j \in 1..Len(q) : q[j] <= last})

\* Faulty: skips a write.
FilledAfterNext(p, q) ==
    LET k == IF p = <<>> THEN 0 ELSE Passed(q, p[Len(p)]) + 1
        room == MaxPendingWrites - Len(p)
    IN  p \o SubSeq(q, k + 1, IF Len(q) < k + room THEN Len(q) ELSE k + room)

\* A pipeline to which the next writes of a queue have been added.
Filled(p, q) ==
    LET k == IF p = <<>> THEN 0 ELSE Passed(q, p[Len(p)])
        room == MaxPendingWrites - Len(p)
    IN  p \o SubSeq(q, k + 1, IF Len(q) < k + room THEN Len(q) ELSE k + room)

Init ==
    /\ \E u \in User : /\ auth = u
                       /\ contents = [user |-> u, counter |-> 0]
                       /\ current = u
    /\ main = <<>> /\ fetches = {} /\ tasks = <<>>
    /\ queue = [u \in User |-> <<>>]
    /\ callbacks = [u \in User |-> {}]
    /\ pipeline = <<>>
    /\ state = "Initial" /\ closes = 0 /\ handshake = FALSE /\ idle = FALSE
    /\ call = NoCall
    /\ stale = {} /\ applied = {} /\ refused = {}
    /\ calls = 0
    /\ owner = [w \in Write |-> NoUser]
    /\ fate = [w \in Write |-> "unsaved"]
    /\ signIns = 0 /\ faults = 0

\* A call or a token that fails, another network, or the end of the process.
Fault == faults < MaxFaults /\ faults' = faults + 1

----------------------------------------------------------------------------
(* The main thread.                                                         *)

\* The app's write becomes a task of the worker queue.
WriteMutations ==
    /\ calls < MaxWrites
    /\ calls' = calls + 1
    /\ owner' = [owner EXCEPT ![calls + 1] = contents.user]
    /\ tasks' = Append(tasks, [kind |-> "write", write |-> calls + 1])
    /\ UNCHANGED <<credentialVars, current, storeVars, streamVars, serverVars, fate, boundVars>>

\* Somebody signs in or out, or the token of the same user is renewed.
SignIn(u) ==
    /\ signIns < MaxSignIns
    /\ signIns' = signIns + 1
    /\ auth' = u
    /\ main' = Append(main, [kind |-> "announce", user |-> u])
    /\ UNCHANGED <<contents, fetches, tasks, current, storeVars, streamVars, serverVars,
                   appVars, fate, faults>>

\* The provider's listener takes note of the user and tells the client.
Announce ==
    /\ main # <<>> /\ Head(main).kind = "announce"
    /\ main' = Tail(main)
    /\ contents' = [user |-> Head(main).user, counter |-> contents.counter + 1]
    /\ tasks' = Append(tasks, [kind |-> "credential", user |-> Head(main).user])
    /\ UNCHANGED <<auth, fetches, current, storeVars, streamVars, serverVars, appVars, fate,
                   boundVars>>

\* Auth takes up a request for a token: the token will be of its user now.
BeginToken(f) ==
    /\ f.user = NoUser
    /\ fetches' = (fetches \ {f}) \union {[f EXCEPT !.user = auth]}
    /\ UNCHANGED <<auth, main, contents, tasks, current, storeVars, streamVars, serverVars,
                   appVars, fate, boundVars>>

\* The token, or (NoUser) an error, goes to the main thread.
AnswerToken(f) ==
    /\ f.user # NoUser
    /\ fetches' = fetches \ {f}
    /\ \/ /\ main' = Append(main, [kind |-> "token", fetch |-> f])
          /\ UNCHANGED faults
       \/ /\ main' = Append(main, [kind |-> "token", fetch |-> [f EXCEPT !.user = NoUser]])
          /\ Fault
    /\ UNCHANGED <<auth, contents, tasks, current, storeVars, streamVars, serverVars, appVars,
                   fate, signIns>>

\* The callback of GetToken asks again when the user has been announced anew
\* since it was called.
TakeToken ==
    /\ main # <<>> /\ Head(main).kind = "token"
    /\ main' = Tail(main)
    /\ LET f == Head(main).fetch IN
       IF f.counter # contents.counter
       THEN /\ fetches' = fetches \union {Fetch(f.closes, contents.counter)}
            /\ UNCHANGED tasks
       ELSE /\ tasks' = Append(tasks, [kind |-> "resume", closes |-> f.closes, user |-> f.user])
            /\ UNCHANGED fetches
    /\ UNCHANGED <<auth, contents, current, storeVars, streamVars, serverVars, appVars, fate,
                   boundVars>>

----------------------------------------------------------------------------
(* The server and gRPC.                                                     *)

Live == call # NoCall /\ call.status = "live" /\ call.handled < Len(call.sent)
NextRequest == call.sent[call.handled + 1]

\* What a call that ends leaves to the server, which may or may not go on.
Rest(c) == IF c.handled = 0 THEN <<>> ELSE SubSeq(c.sent, c.handled + 1, Len(c.sent))
Abandoned(c) ==
    IF c = NoCall \/ c.status # "live" \/ Rest(c) = <<>> THEN {}
    ELSE {[user |-> c.user, rest |-> Rest(c)]}

\* The server answers the handshake, or applies a write and answers it.
Handle ==
    /\ Live
    /\ call' = [call EXCEPT !.handled = @ + 1]
    /\ applied' = IF NextRequest = Handshake THEN applied
                  ELSE applied \union {<<NextRequest, call.user>>}
    /\ UNCHANGED <<credentialVars, tasks, current, storeVars, pipeline, state, closes, handshake,
                   idle, stale, refused, appVars, fate, boundVars>>

\* The server refuses a request for good: it ends the call with that error.
Refuse ==
    /\ Live
    /\ Fault
    /\ call' = [call EXCEPT !.status = "permanent"]
    /\ refused' = IF NextRequest = Handshake THEN refused ELSE refused \union {NextRequest}
    /\ UNCHANGED <<credentialVars, tasks, current, storeVars, pipeline, state, closes, handshake,
                   idle, stale, applied, appVars, fate, signIns>>

\* The connection is lost, or the server ends the call with a passing error.
Lose ==
    /\ call # NoCall /\ call.status = "live"
    /\ Fault
    /\ call' = [call EXCEPT !.status = "transient"]
    /\ stale' = stale \union Abandoned(call)
    /\ UNCHANGED <<credentialVars, tasks, current, storeVars, pipeline, state, closes, handshake,
                   idle, applied, refused, appVars, fate, signIns>>

\* The server goes on with a call that has ended.
HandleStale(s) ==
    /\ applied' = applied \union {<<Head(s.rest), s.user>>}
    /\ stale' = (stale \ {s}) \union
                IF Len(s.rest) = 1 THEN {} ELSE {[s EXCEPT !.rest = Tail(@)]}
    /\ UNCHANGED <<credentialVars, tasks, current, storeVars, streamVars, refused, appVars, fate,
                   boundVars>>

\* The one read a call has under way completes with the next answer.
CompleteRead ==
    /\ call # NoCall /\ call.phase # "finishing"
    /\ ~Queued("read") /\ call.taken < call.handled
    /\ tasks' = Append(tasks, [kind |-> "read"])
    /\ UNCHANGED <<credentialVars, current, storeVars, streamVars, serverVars, appVars, fate,
                   boundVars>>

\* After the end of a call its read fails once there are no more answers, and
\* a write the server has not handled may fail before that.
FailOperation ==
    /\ call # NoCall /\ call.phase = "up" /\ call.status # "live"
    /\ \/ ~Queued("read") /\ call.taken = call.handled
       \/ call.handled < Len(call.sent)
    /\ tasks' = Append(tasks, [kind |-> "fail"])
    /\ call' = [call EXCEPT !.phase = "failed"]
    /\ UNCHANGED <<credentialVars, current, storeVars, pipeline, state, closes, handshake, idle,
                   serverVars, appVars, fate, boundVars>>

----------------------------------------------------------------------------
(* The stream and the pipeline, as parts of the tasks below.                *)

\* Start: a stream that has failed waits out its backoff first.
Start(s, n) ==
    /\ state' = IF s = "Error" THEN "Backoff" ELSE "Starting"
    /\ fetches' = fetches \union (IF s = "Error" THEN {} ELSE {Fetch(n, contents.counter)})

\* FillWritePipeline, with the pipeline p, the queue q and the stream in state
\* s with close count n and call c.
FillWritePipeline(p, q, s, n, c) ==
    LET full == Filled(p, q)
        new == SubSeq(full, Len(p) + 1, Len(full))
        writes == s = "Open" /\ handshake
    IN  /\ pipeline' = full
        /\ closes' = n
        /\ call' = IF writes THEN [c EXCEPT !.sent = @ \o new] ELSE c
        /\ idle' = CASE full = <<>> -> s = "Open"
                     [] writes /\ new # <<>> -> FALSE
                     [] OTHER -> idle /\ s = "Open"
        /\ IF full # <<>> /\ ~Started(s) THEN Start(s, n)
           ELSE state' = s /\ UNCHANGED fetches

\* Faulty: the pipeline is not emptied.
RestartNetworkAsIs(q, todo) ==
    /\ FillWritePipeline(pipeline, q, "Initial", IF Started(state) THEN closes + 1 ELSE closes, NoCall)
    /\ handshake' = FALSE
    /\ stale' = stale \union Abandoned(call)
    /\ tasks' = Cancelled(todo, Completions)

\* RestartNetwork: the stream is stopped, the pipeline emptied and filled
\* again from a queue.  Stopping cancels what the call has on the worker queue.
RestartNetwork(q, todo) ==
    /\ FillWritePipeline(<<>>, q, "Initial", IF Started(state) THEN closes + 1 ELSE closes, NoCall)
    /\ handshake' = FALSE
    /\ stale' = stale \union Abandoned(call)
    /\ tasks' = Cancelled(todo, Completions)

\* The head of the pipeline is settled: its caller is told, the queue loses it.
Settle(outcome) ==
    LET w == Head(pipeline) IN
    /\ fate' = [fate EXCEPT ![w] = outcome]
    /\ callbacks' = [callbacks EXCEPT ![current] = @ \ {w}]
    /\ queue' = [queue EXCEPT ![current] = Tail(@)]

\* Faulty: any permanent error is about the head of the pipeline.
CloseWithAnyError(permanent, todo) ==
    /\ IF permanent /\ pipeline # <<>>
       THEN /\ Settle("rejected")
            /\ FillWritePipeline(Tail(pipeline), Tail(queue[current]), "Initial", closes + 1, NoCall)
       ELSE /\ IF pipeline # <<>> THEN Start("Error", closes + 1)
               ELSE state' = "Error" /\ UNCHANGED fetches
            /\ closes' = closes + 1
            /\ call' = NoCall
            /\ idle' = FALSE
            /\ UNCHANGED <<pipeline, fate, storeVars>>
    /\ handshake' = FALSE
    /\ stale' = stale \union Abandoned(call)
    /\ tasks' = Cancelled(todo, Completions)

\* Close with an error, told to OnWriteStreamClose.  A permanent error after
\* the handshake is taken to be about the head of the pipeline.
CloseWithError(permanent, todo) ==
    /\ IF permanent /\ handshake /\ pipeline # <<>>
       THEN /\ Settle("rejected")
            /\ FillWritePipeline(Tail(pipeline), Tail(queue[current]), "Initial", closes + 1, NoCall)
       ELSE /\ IF pipeline # <<>> THEN Start("Error", closes + 1)
               ELSE state' = "Error" /\ UNCHANGED fetches
            /\ closes' = closes + 1
            /\ call' = NoCall
            /\ idle' = FALSE
            /\ UNCHANGED <<pipeline, fate, storeVars>>
    /\ handshake' = FALSE
    /\ stale' = stale \union Abandoned(call)
    /\ tasks' = Cancelled(todo, Completions)

----------------------------------------------------------------------------
(* The tasks of the worker queue.                                           *)

Runs(kind) == tasks # <<>> /\ Head(tasks).kind = kind

RunNoop ==
    /\ Runs("noop")
    /\ tasks' = Tail(tasks)
    /\ UNCHANGED <<credentialVars, current, storeVars, streamVars, serverVars, appVars, fate,
                   boundVars>>

\* WriteMutations of the sync engine: the write is saved and its caller noted.
RunWrite ==
    /\ Runs("write")
    /\ LET w == Head(tasks).write
           q == Append(queue[current], w)
       IN  /\ queue' = [queue EXCEPT ![current] = q]
           /\ callbacks' = [callbacks EXCEPT ![current] = @ \union {w}]
           /\ fate' = [fate EXCEPT ![w] = "saved"]
           /\ FillWritePipeline(pipeline, q, state, closes, call)
    /\ tasks' = Tail(tasks)
    /\ UNCHANGED <<auth, main, contents, current, handshake, serverVars, appVars, boundVars>>

\* Faulty: the stream goes on for the other user.
RunCredentialInPlace ==
    /\ Runs("credential")
    /\ current' = Head(tasks).user
    /\ FillWritePipeline(<<>>, queue[Head(tasks).user], state, closes, call)
    /\ tasks' = Tail(tasks)
    /\ UNCHANGED <<auth, main, contents, handshake, storeVars, serverVars, appVars, fate, boundVars>>

\* HandleCredentialChange: another user has another mutation queue.
RunCredential ==
    /\ Runs("credential")
    /\ current' = Head(tasks).user
    /\ RestartNetwork(queue[Head(tasks).user], Tail(tasks))
    /\ UNCHANGED <<auth, main, contents, storeVars, applied, refused, appVars, fate, boundVars>>

\* Faulty: does not look at the status of the token.
RunResumeAnyway ==
    /\ Runs("resume")
    /\ LET t == Head(tasks) IN
       IF t.closes = closes
       THEN /\ state' = "Open"
            /\ call' = NewCall(t.user)
            /\ tasks' = Tail(tasks)
            /\ UNCHANGED <<fetches, pipeline, closes, handshake, idle, storeVars, stale, fate>>
       ELSE /\ tasks' = Tail(tasks)
            /\ UNCHANGED <<fetches, streamVars, storeVars, stale, fate>>
    /\ UNCHANGED <<auth, main, contents, current, applied, refused, appVars, boundVars>>

\* ResumeStartWithCredentials, unless the stream was closed meanwhile.
RunResume ==
    /\ Runs("resume")
    /\ LET t == Head(tasks) IN
       \/ /\ t.closes # closes
          /\ tasks' = Tail(tasks)
          /\ UNCHANGED <<fetches, streamVars, storeVars, stale, fate>>
       \/ /\ t.closes = closes /\ t.user # NoUser
          /\ state' = "Open"
          /\ call' = NewCall(t.user)
          /\ tasks' = Tail(tasks)
          /\ UNCHANGED <<fetches, pipeline, closes, handshake, idle, storeVars, stale, fate>>
       \/ /\ t.closes = closes /\ t.user = NoUser
          /\ CloseWithError(FALSE, Tail(tasks))
    /\ UNCHANGED <<auth, main, contents, current, applied, refused, appVars, boundVars>>

\* OnStreamRead: the first answer completes the handshake, and the pipeline is
\* sent; any other is for the write at the head of the pipeline.
RunRead ==
    /\ Runs("read")
    /\ tasks' = Tail(tasks)
    /\ LET c == [call EXCEPT !.taken = @ + 1] IN
       \/ /\ ~handshake
          /\ handshake' = TRUE
          /\ call' = [c EXCEPT !.sent = @ \o pipeline]
          /\ idle' = (idle /\ pipeline = <<>>)
          /\ UNCHANGED <<fetches, pipeline, state, closes, storeVars, fate>>
       \/ /\ handshake
          /\ Settle("acked")
          /\ FillWritePipeline(Tail(pipeline), Tail(queue[current]), state, closes, c)
          /\ UNCHANGED handshake
    /\ UNCHANGED <<auth, main, contents, current, serverVars, appVars, boundVars>>

\* OnOperationFailed: what the call still has on the worker queue is
\* cancelled, answers included, before it is asked for its status.
RunFail ==
    /\ Runs("fail")
    /\ call' = [call EXCEPT !.phase = "finishing"]
    /\ tasks' = Append(Cancelled(Tail(tasks), Completions), [kind |-> "finish"])
    /\ UNCHANGED <<credentialVars, current, storeVars, pipeline, state, closes, handshake, idle,
                   serverVars, appVars, fate, boundVars>>

\* OnStreamFinish, with the status of the call.
RunFinish ==
    /\ Runs("finish")
    /\ CloseWithError(call.status = "permanent", Tail(tasks))
    /\ UNCHANGED <<auth, main, contents, current, applied, refused, appVars, boundVars>>

----------------------------------------------------------------------------
(* Timers, connectivity and the process.                                    *)

\* Faulty: nobody asks for credentials again.
BackoffJustElapses ==
    /\ state = "Backoff"
    /\ state' = "Starting"
    /\ UNCHANGED <<credentialVars, tasks, current, storeVars, pipeline, closes, handshake, idle,
                   call, serverVars, appVars, fate, boundVars>>

\* The backoff is over.
BackoffElapses ==
    /\ state = "Backoff"
    /\ Start("Initial", closes)
    /\ UNCHANGED <<auth, main, contents, tasks, current, storeVars, pipeline, closes, handshake,
                   idle, call, serverVars, appVars, fate, boundVars>>

\* Stop, called by the idle timer.
IdleElapses ==
    /\ idle
    /\ idle' = FALSE
    /\ state' = "Initial"
    /\ closes' = closes + 1
    /\ handshake' = FALSE
    /\ call' = NoCall
    /\ stale' = stale \union Abandoned(call)
    /\ tasks' = Cancelled(tasks, Completions)
    /\ UNCHANGED <<credentialVars, current, storeVars, pipeline, applied, refused, appVars, fate,
                   boundVars>>

\* The connectivity monitor reports another network.
ConnectivityChanges ==
    /\ Fault
    /\ RestartNetwork(queue[current], tasks)
    /\ UNCHANGED <<auth, main, contents, current, storeVars, applied, refused, appVars, fate,
                   signIns>>

\* The process is killed and started again: the mutation queues are left.
Kill ==
    /\ Fault
    /\ main' = <<>> /\ tasks' = <<>>
    /\ contents' = [user |-> auth, counter |-> 0]
    /\ current' = auth
    /\ callbacks' = [u \in User |-> {}]
    /\ pipeline' = Filled(<<>>, queue[auth])
    /\ state' = IF queue[auth] = <<>> THEN "Initial" ELSE "Starting"
    /\ fetches' = IF queue[auth] = <<>> THEN {} ELSE {Fetch(0, 0)}
    /\ closes' = 0 /\ handshake' = FALSE /\ idle' = FALSE
    /\ call' = NoCall
    /\ stale' = stale \union Abandoned(call)
    /\ UNCHANGED <<auth, queue, applied, refused, appVars, fate, signIns>>

----------------------------------------------------------------------------

MainThread ==
    \/ WriteMutations \/ Announce \/ TakeToken
    \/ \E u \in User : SignIn(u)
    \/ \E f \in fetches : BeginToken(f) \/ AnswerToken(f)

Network ==
    \/ Handle \/ Refuse \/ Lose \/ CompleteRead \/ FailOperation
    \/ \E s \in stale : HandleStale(s)

Worker ==
    \/ RunNoop \/ RunWrite \/ RunCredential \/ RunResume \/ RunRead \/ RunFail \/ RunFinish
    \/ BackoffElapses \/ IdleElapses \/ ConnectivityChanges

Next == MainThread \/ Network \/ Worker \/ Kill

Spec == Init /\ [][Next]_vars

\* Threads and timers run; Auth, gRPC and a server that is reached answer.
Fairness ==
    /\ WF_vars(Announce) /\ WF_vars(TakeToken)
    /\ WF_vars(\E f \in fetches : BeginToken(f) \/ AnswerToken(f))
    /\ WF_vars(Handle) /\ WF_vars(CompleteRead) /\ WF_vars(FailOperation)
    /\ WF_vars(RunNoop \/ RunWrite \/ RunCredential \/ RunResume \/ RunRead \/ RunFail \/ RunFinish)
    /\ WF_vars(BackoffElapses)

FairSpec == Spec /\ Fairness

----------------------------------------------------------------------------
(* Properties.                                                              *)

Fetches == [closes : Nat, counter : Nat, user : User \union {NoUser}]
Messages == [kind : {"announce"}, user : User] \union [kind : {"token"}, fetch : Fetches]
Tasks ==
    [kind : {"write"}, write : Write] \union [kind : {"credential"}, user : User] \union
    [kind : {"resume"}, closes : Nat, user : User \union {NoUser}] \union
    [kind : {"noop", "read", "fail", "finish"}]

\* The types of the variables; a call that is open has a user.
TypeOK ==
    /\ auth \in User /\ current \in User
    /\ contents \in [user : User, counter : Nat]
    /\ main \in Seq(Messages) /\ fetches \subseteq Fetches /\ tasks \in Seq(Tasks)
    /\ queue \in [User -> Seq(Write)]
    /\ callbacks \in [User -> SUBSET Write]
    /\ pipeline \in Seq(Write)
    /\ state \in {"Initial", "Starting", "Backoff", "Open", "Error"}
    /\ closes \in Nat /\ handshake \in BOOLEAN /\ idle \in BOOLEAN
    /\ call \in Call \union {NoCall}
    /\ stale \subseteq [user : User, rest : Seq(Write) \ {<<>>}]
    /\ calls \in 0..MaxWrites
    /\ owner \in [Write -> User \union {NoUser}]
    /\ fate \in [Write -> {"unsaved", "saved", "acked", "rejected"}]
    /\ applied \subseteq Write \X User /\ refused \subseteq Write
    /\ signIns \in 0..MaxSignIns /\ faults \in 0..MaxFaults

\* The client and a call keep in step, however tasks, answers and closes
\* interleave: the pipeline is the beginning of the queue of the user at work,
\* and after the handshake it is what was sent and not answered yet, so that the
\* next answer, which carries no name, is for its head.  The assertions of
\* OnWriteStreamMutationResult, OnStreamRead and ResumeStartWithCredentials hold,
\* and the idle timer never runs while there is something to send.
PipelineInStep ==
    /\ Len(pipeline) <= MaxPendingWrites /\ Len(pipeline) <= Len(queue[current])
    /\ pipeline = SubSeq(queue[current], 1, Len(pipeline))
    /\ handshake => /\ call # NoCall
                    /\ pipeline = SubSeq(call.sent, call.taken + 1, Len(call.sent))
    /\ Runs("read") => IsOpen /\ (handshake => pipeline # <<>>)
    /\ Runs("resume") /\ Head(tasks).closes = closes => state = "Starting"
    /\ idle => pipeline = <<>>

\* A write is only ever applied with a token of the user it was made by,
\* although tokens are fetched on another thread, while somebody may sign in: a
\* change of user restarts the stream, and GetToken's token counter, or else the
\* close count, drops the token that was asked for before.
OwnUserOnly == \A a \in applied : a[2] = owner[a[1]]

\* A write that has been saved stays in the queue of its user until it is
\* settled, also through a kill.  An acknowledged write has been applied and a
\* rejected one refused, or applied on an earlier call that ended unanswered.
\* A caller that waits for the outcome waits for a write that is in a queue.
NothingLost ==
    /\ \A w \in Write :
           /\ fate[w] = "saved" => \E i \in DOMAIN queue[owner[w]] : queue[owner[w]][i] = w
           /\ fate[w] = "acked" => w \in Applied
           /\ fate[w] = "rejected" => w \in Applied \union refused
    /\ \A u \in User : \A w \in callbacks[u] : fate[w] = "saved"

\* The writes of a user reach the server in the order the app made them, over
\* lost calls, restarts and changes of user: FillWritePipeline goes on after the
\* last write of the pipeline, and the handshake sends the pipeline from its head.
AppliedInOrder ==
    \A w \in Applied : \A v \in Write :
        v < w /\ owner[v] = owner[w] /\ fate[v] # "unsaved" => v \in Applied \union refused

\* In the end nothing is left in the queue of the user who is signed in: every
\* way a stream can end begins another as long as there is something to send.
FinallySent == <>[](queue[auth] = <<>>)
=============================================================================
