--------------------------- MODULE ChatSend_proofs ---------------------------
(***************************************************************************)
(* Theorems about ChatSend, for any screens, users, calls, texts and device *)
(* times, and any number of files.                                          *)
(***************************************************************************)
EXTENDS ChatSend, SequenceTheorems, TLAPS

----------------------------------------------------------------------------
(* Groups.                                                                  *)

\* Two screens compute the same group exactly if they are between the same
\* two users.
LEMMA GroupIsThePair ==
  ASSUME NEW s \in Screen, NEW r \in Screen
  PROVE  GroupChatId(s) = GroupChatId(r) <=> {Me[s], Peer[s]} = {Me[r], Peer[r]}
<1>1. Me[s] \in Int /\ Peer[s] \in Int /\ Me[r] \in Int /\ Peer[r] \in Int
  BY ConstantsAssumption
<1>2. {Me[s], Peer[s]} = {Me[r], Peer[r]}
         <=> (Me[s] = Me[r] /\ Peer[s] = Peer[r]) \/ (Me[s] = Peer[r] /\ Peer[s] = Me[r])
  OBVIOUS
<1>3. GroupChatId(s) = GroupChatId(r)
         <=> (Me[s] = Me[r] /\ Peer[s] = Peer[r]) \/ (Me[s] = Peer[r] /\ Peer[s] = Me[r])
  BY <1>1, ConstantsAssumption DEF GroupChatId
<1> QED
  BY <1>2, <1>3

----------------------------------------------------------------------------
(* Types.                                                                   *)

\* A call has a file in hand while it uploads.
FileInHand == \A c \in Call : pc[c] \in Uploading => next[c] \in 1..count[c]

TypeInv == TypeOK /\ FileInHand

LEMMA InitTypeInv == Init => TypeInv
BY ConstantsAssumption DEF Init, TypeInv, TypeOK, FileInHand, Uploading, Running

LEMMA NextFileType ==
  ASSUME TypeInv, NEW c \in Call, pc[c] \in Uploading, NextFile(c), UNCHANGED count
  PROVE  /\ next' \in [Call -> Nat]
         /\ pc' \in [Call -> Running \union {"idle", "sent", "failed"}]
         /\ FileInHand'
<1>1. next[c] \in Nat /\ count[c] \in Nat /\ next[c] >= 1 /\ next[c] <= count[c]
  BY ConstantsAssumption DEF TypeInv, TypeOK, FileInHand
<1>2. next' \in [Call -> Nat]
  BY <1>1 DEF TypeInv, TypeOK, NextFile
<1>3. \/ pc' = [pc EXCEPT ![c] = "failed"]
      \/ pc' = [pc EXCEPT ![c] = "commit"]
      \/ pc' = [pc EXCEPT ![c] = "thumb"] /\ next[c] # count[c]
  BY DEF NextFile, Goto
<1>4. pc \in [Call -> Running \union {"idle", "sent", "failed"}]
  BY DEF TypeInv, TypeOK
<1>5. pc' \in [Call -> Running \union {"idle", "sent", "failed"}]
  BY <1>3, <1>4 DEF Running, Uploading
<1>6. next'[c] = next[c] + 1 /\ \A e \in Call : e # c => next'[e] = next[e]
  BY <1>1 DEF NextFile, TypeInv, TypeOK
<1>7. pc'[c] \in Uploading => next[c] < count[c]
  BY <1>1, <1>3, <1>4 DEF Uploading
<1>8. \A e \in Call : e # c => pc'[e] = pc[e]
  BY <1>3, <1>4
<1>9. FileInHand'
  BY <1>1, <1>6, <1>7, <1>8 DEF TypeInv, FileInHand
<1> QED
  BY <1>2, <1>5, <1>9

LEMMA StepTypeInv == TypeInv /\ [Next]_vars => TypeInv'
<1> SUFFICES ASSUME TypeInv, [Next]_vars PROVE TypeInv'
  OBVIOUS
<1> USE ConstantsAssumption DEF TypeInv
<1>1. ASSUME NEW s \in Screen, NEW t \in Draft, Type(s, t) PROVE TypeInv'
  BY <1>1 DEF Type, TypeOK, FileInHand, callVars, serverVars
<1>2. ASSUME NEW s \in Screen, NEW n \in 1..MaxFiles, Pick(s, n) PROVE TypeInv'
  BY <1>2 DEF Pick, TypeOK, FileInHand, serverVars, historyVars
<1>3. ASSUME NEW s \in Screen, Close(s) PROVE TypeInv'
  BY <1>3 DEF Close, ClearFiles, TypeOK, FileInHand, serverVars, historyVars
<1>4. ASSUME NEW s \in Screen, NEW c \in Call, NEW ms \in Ms, Send(s, c, ms) PROVE TypeInv'
  <2>1. picked[s] \in 0..MaxFiles /\ draft[s] \in Draft \union {NoText}
    BY DEF TypeOK
  <2>2. TypeOK'
    <3>1. /\ pc' \in [Call -> Running \union {"idle", "sent", "failed"}]
          /\ from' \in [Call -> Screen] /\ text' \in [Call -> Draft \union {NoText}]
          /\ id' \in [Call -> Ms] /\ count' \in [Call -> 0..MaxFiles] /\ next' \in [Call -> Nat]
      BY <1>4, <2>1 DEF Send, Goto, TypeOK, Running, Uploading
    <3>2. /\ shares' \in [Call -> BOOLEAN]
          /\ before' \in [Call -> SUBSET Call]
      BY <1>4, SMTT(20) DEF Send, TypeOK, Sent
    <3>3. /\ thumbs' \in [Call -> Seq(1..MaxFiles)] /\ origs' \in [Call -> Seq(1..MaxFiles)]
          /\ cleared' \in [Call -> BOOLEAN]
      BY <1>4 DEF Send, TypeOK
    <3>4. UNCHANGED <<screenVars, serverVars, retyped, uneven, again>>
      BY <1>4 DEF Send
    <3> QED
      BY <3>1, <3>2, <3>3, <3>4 DEF TypeOK, screenVars, serverVars
  <2>3. FileInHand'
    <3>1. /\ pc'[c] = IF picked[s] = 0 THEN "commit" ELSE "thumb"
          /\ next'[c] = 1 /\ count'[c] = picked[s]
          /\ \A e \in Call : e # c => /\ pc'[e] = pc[e] /\ count'[e] = count[e]
                                      /\ next'[e] = next[e]
      BY <1>4 DEF Send, Goto, TypeOK
    <3> QED
      BY <2>1, <3>1 DEF FileInHand, Uploading
  <2> QED
    BY <2>2, <2>3
<1>5. ASSUME NEW c \in Call, SkipFile(c) PROVE TypeInv'
  <2>1. pc[c] \in Uploading /\ NextFile(c) /\ count' = count
    BY <1>5 DEF SkipFile, Uploading
  <2> QED
    BY <1>5, <2>1, NextFileType DEF SkipFile, TypeOK, screenVars, serverVars, historyVars
<1>6. ASSUME NEW c \in Call, PutThumb(c) PROVE TypeInv'
  <2>1. next[c] \in 1..MaxFiles
    BY <1>6 DEF PutThumb, FileInHand, Uploading, TypeOK
  <2>2. thumbs' \in [Call -> Seq(1..MaxFiles)]
    BY <1>6, <2>1, AppendProperties DEF PutThumb, TypeOK
  <2>3. pc' \in [Call -> Running \union {"idle", "sent", "failed"}] /\ FileInHand'
    BY <1>6 DEF PutThumb, Goto, FileInHand, TypeOK, Running, Uploading
  <2> QED
    BY <1>6, <2>2, <2>3 DEF PutThumb, TypeOK, screenVars, serverVars, historyVars
<1>7. ASSUME NEW c \in Call, PutOriginal(c) PROVE TypeInv'
  <2>1. next[c] \in 1..MaxFiles
    BY <1>7 DEF PutOriginal, FileInHand, Uploading, TypeOK
  <2>2. origs' \in [Call -> Seq(1..MaxFiles)]
    BY <1>7, <2>1, AppendProperties DEF PutOriginal, TypeOK
  <2>3. pc[c] \in Uploading /\ NextFile(c) /\ count' = count
    BY <1>7 DEF PutOriginal, Uploading
  <2> QED
    BY <1>7, <2>2, <2>3, NextFileType DEF PutOriginal, TypeOK, screenVars, serverVars, historyVars
<1>8. ASSUME NEW c \in Call, PutError(c) PROVE TypeInv'
  <2>1. pc[c] \in Uploading /\ NextFile(c) /\ count' = count
    BY <1>8 DEF PutError
  <2> QED
    BY <1>8, <2>1, NextFileType DEF PutError, TypeOK, screenVars, serverVars
<1>w. ASSUME NEW c \in Call, Write(c)
      PROVE  /\ chat' \in [Group \X Ms -> Call \union {NoCall}]
             /\ now' \in Nat /\ createdAt' \in [Call -> Nat]
  <2>1. c \in Call \union {NoCall} /\ now \in Nat /\ now + 1 \in Nat
    BY DEF TypeOK
  <2>2. chat' \in [Group \X Ms -> Call \union {NoCall}]
    BY <1>w, <2>1 DEF Write, TypeOK
  <2>3. now' \in Nat /\ createdAt' \in [Call -> Nat]
    BY <1>w, <2>1 DEF Write, TypeOK
  <2> QED
    BY <2>2, <2>3
<1>9. ASSUME NEW c \in Call, Commit(c) PROVE TypeInv'
  <2>1. pc' \in [Call -> Running \union {"idle", "sent", "failed"}] /\ FileInHand'
    BY <1>9 DEF Commit, Goto, FileInHand, TypeOK, Running, Uploading
  <2>2. Write(c)
    BY <1>9 DEF Commit
  <2> QED
    BY <1>9, <1>w, <2>1, <2>2 DEF Commit, TypeOK, screenVars, historyVars
<1>10. ASSUME NEW c \in Call, Answer(c) PROVE TypeInv'
  <2>1. pc' \in [Call -> Running \union {"idle", "sent", "failed"}] /\ FileInHand'
    BY <1>10 DEF Answer, Goto, FileInHand, TypeOK, Uploading
  <2>2. /\ draft' \in [Screen -> Draft \union {NoText}]
        /\ picked' \in [Screen -> 0..MaxFiles] /\ cleared' \in [Call -> BOOLEAN]
    BY <1>10 DEF Answer, ClearFiles, TypeOK
  <2> QED
    BY <1>10, <2>1, <2>2 DEF Answer, TypeOK, serverVars, historyVars
<1>11. ASSUME NEW c \in Call, Fail(c) PROVE TypeInv'
  <2>1. pc' \in [Call -> Running \union {"idle", "sent", "failed"}] /\ FileInHand'
    BY <1>11 DEF Fail, Goto, FileInHand, TypeOK, Uploading
  <2> QED
    BY <1>11, <2>1 DEF Fail, TypeOK, screenVars, serverVars, historyVars
<1>12. ASSUME NEW c \in Call, Lose(c) PROVE TypeInv'
  <2>1. pc' \in [Call -> Running \union {"idle", "sent", "failed"}] /\ FileInHand'
    BY <1>12 DEF Lose, Goto, FileInHand, TypeOK, Running, Uploading
  <2>2. copies' \in [Call -> Nat]
    <3>1. copies \in [Call -> Nat] /\ copies[c] + 1 \in Nat
      BY DEF TypeOK
    <3> QED
      BY <1>12, <3>1 DEF Lose
  <2> QED
    BY <1>12, <2>1, <2>2 DEF Lose, TypeOK, screenVars, historyVars
<1>13. ASSUME NEW c \in Call, CommitCopy(c) PROVE TypeInv'
  <2>1. Write(c) /\ again' \subseteq Call
    BY <1>13 DEF CommitCopy, TypeOK
  <2>2. copies' \in [Call -> Nat]
    BY <1>13 DEF CommitCopy, TypeOK
  <2> QED
    BY <1>13, <1>w, <2>1, <2>2 DEF CommitCopy, TypeOK, FileInHand, screenVars, callVars
<1>14. CASE UNCHANGED vars
  BY <1>14 DEF vars, TypeOK, FileInHand, screenVars, callVars, serverVars, historyVars
<1> QED
  BY <1>1, <1>2, <1>3, <1>4, <1>5, <1>6, <1>7, <1>8, <1>9, <1>10, <1>11, <1>12, <1>13, <1>14
  DEF Next, Return

LEMMA TypeInvHolds == Spec => []TypeInv
BY InitTypeInv, StepTypeInv, PTL DEF Spec

\* The variables keep their types: a call never works on a file beyond its
\* list, whatever is cleared under it.
THEOREM TypeCorrect == Spec => []TypeOK
<1>1. TypeInv => TypeOK
  BY DEF TypeInv
<1> QED
  BY <1>1, TypeInvHolds, PTL

----------------------------------------------------------------------------
(* Documents and times.                                                     *)

BeforeWrite == {"idle", "thumb", "orig"}

\* A document holds a message that was written under its id.
DocsAreNamed ==
    \A d \in Group \X Ms :
       chat[d] # NoCall => Doc(chat[d]) = d /\ createdAt[chat[d]] > 0

\* A message that was written is in its document, or a later one is.
WrittenOrReplaced ==
    \A c \in Call : createdAt[c] > 0 =>
       /\ chat[Doc(c)] # NoCall
       /\ chat[Doc(c)] = c \/ createdAt[chat[Doc(c)]] > createdAt[c]

\* A call has a time once it has written, and none is in the future.
TimesArePast ==
    \A c \in Call : /\ createdAt[c] <= now
                    /\ pc[c] \in BeforeWrite => createdAt[c] = 0 /\ copies[c] = 0
                    /\ pc[c] \in {"answer", "sent"} => createdAt[c] > 0

\* What had succeeded when a call began was written before it, unless it was
\* written again.
BeforeIsEarlier ==
    \A c \in Call :
       /\ c \notin before[c]
       /\ \A e \in before[c] :
             /\ pc[e] = "sent" /\ createdAt[e] > 0
             /\ createdAt[c] > 0 => e \in again \/ createdAt[e] < createdAt[c]

ChatInv ==
    TypeInv /\ DocsAreNamed /\ WrittenOrReplaced /\ TimesArePast /\ BeforeIsEarlier

LEMMA DocType ==
  ASSUME TypeOK, NEW c \in Call
  PROVE  Doc(c) \in Group \X Ms
BY DEF TypeOK, Doc, Group

LEMMA InitChatInv == Init => ChatInv
<1> SUFFICES ASSUME Init PROVE ChatInv
  OBVIOUS
<1>1. TypeInv
  BY InitTypeInv
<1>2. DocsAreNamed /\ WrittenOrReplaced /\ TimesArePast /\ BeforeIsEarlier
  BY DEF Init, DocsAreNamed, WrittenOrReplaced, TimesArePast, BeforeIsEarlier
<1> QED
  BY <1>1, <1>2 DEF ChatInv

\* A step of a call other than Send and Commit moves its pc and nothing a
\* document or a time depends on.
LEMMA MoveChatInv ==
  ASSUME ChatInv, TypeInv', UNCHANGED <<from, id, chat, createdAt, now, before, again>>,
         \A c \in Call : \/ pc'[c] = pc[c] /\ copies'[c] = copies[c]
                         \/ pc[c] \in BeforeWrite /\ pc'[c] \in BeforeWrite
                               /\ copies'[c] = copies[c]
                         \/ pc[c] # "sent" /\ pc'[c] \in {"commit", "failed"}
                         \/ pc[c] = "answer" /\ pc'[c] = "sent"
  PROVE  ChatInv'
<1> USE DEF ChatInv
<1>1. DocsAreNamed'
  BY DEF DocsAreNamed, Doc, Group
<1>2. WrittenOrReplaced'
  BY DEF WrittenOrReplaced, Doc
<1>3. TimesArePast'
  BY DEF TimesArePast, BeforeWrite
<1>4. BeforeIsEarlier'
  <2>1. \A c \in Call : before[c] \subseteq Call
    BY DEF TypeInv, TypeOK
  <2>2. \A c \in Call : pc[c] = "sent" => pc'[c] = "sent"
    BY DEF BeforeWrite
  <2> QED
    BY <2>1, <2>2 DEF BeforeIsEarlier
<1> QED
  BY <1>1, <1>2, <1>3, <1>4

LEMMA SendChatInv ==
  ASSUME ChatInv, TypeInv', NEW s \in Screen, NEW c \in Call, NEW ms \in Ms, Send(s, c, ms)
  PROVE  ChatInv'
<1> USE DEF ChatInv
<1>1. /\ chat' = chat /\ createdAt' = createdAt /\ now' = now /\ copies' = copies
      /\ again' = again /\ before'[c] = Sent /\ pc[c] = "idle" /\ pc'[c] \in {"commit", "thumb"}
      /\ \A e \in Call : e # c => /\ pc'[e] = pc[e] /\ before'[e] = before[e]
                                  /\ from'[e] = from[e] /\ id'[e] = id[e]
  BY DEF Send, Goto, serverVars, TypeInv, TypeOK
<1>2. createdAt[c] = 0 /\ copies[c] = 0
  BY <1>1 DEF TimesArePast, BeforeWrite
<1>3. \A e \in Call : e # c => Doc(e)' = Doc(e)
  BY <1>1 DEF Doc, GroupChatId
<1>4. DocsAreNamed'
  <2>1. \A d \in Group \X Ms : chat[d] # NoCall => chat[d] \in Call /\ chat[d] # c
    BY <1>2 DEF DocsAreNamed, TypeInv, TypeOK
  <2> QED
    BY <1>1, <1>3, <2>1 DEF DocsAreNamed, Group
<1>5. WrittenOrReplaced'
  <2>1. \A e \in Call : createdAt'[e] > 0 => e # c
    BY <1>1, <1>2
  <2> QED
    BY <1>1, <1>3, <2>1 DEF WrittenOrReplaced
<1>6. TimesArePast'
  BY <1>1, <1>2 DEF TimesArePast, BeforeWrite
<1>7. BeforeIsEarlier'
  <2>1. c \notin before'[c] /\ \A e \in before'[c] : e \in Call /\ pc[e] = "sent" /\ createdAt[e] > 0
    BY <1>1 DEF Sent, TimesArePast
  <2>2. \A x \in Call : before[x] \subseteq Call /\ c \notin before[x]
    BY <1>1 DEF BeforeIsEarlier, TypeInv, TypeOK
  <2> QED
    BY <1>1, <1>2, <2>1, <2>2 DEF BeforeIsEarlier
<1> QED
  BY <1>4, <1>5, <1>6, <1>7

\* A commit, the call's own or a copy of it: the document holds the call, and
\* its time is the latest.  A call that has returned joins again.
LEMMA WriteChatInv ==
  ASSUME ChatInv, TypeInv', NEW c \in Call, Write(c),
         UNCHANGED <<from, id, before>>, pc[c] \notin BeforeWrite,
         \A e \in Call : e # c => pc'[e] = pc[e] /\ copies'[e] = copies[e],
         \/ pc[c] # "sent" /\ pc'[c] \in Running \ BeforeWrite /\ again' = again
         \/ pc'[c] = pc[c] /\ again' = again \union {c}
  PROVE  ChatInv'
<1> USE DEF ChatInv
<1>1. /\ now' = now + 1 /\ createdAt'[c] = now + 1
      /\ \A e \in Call : e # c => createdAt'[e] = createdAt[e]
      /\ now \in Nat /\ createdAt \in [Call -> Nat]
  BY DEF Write, TypeInv, TypeOK
<1>2. \A e \in Call : createdAt[e] <= now
  BY DEF TimesArePast
<1>3. \A e \in Call : Doc(e)' = Doc(e) /\ Doc(e) \in Group \X Ms
  BY <1>1, DocType DEF Doc, TypeInv
<1>4. chat'[Doc(c)] = c /\ \A d \in Group \X Ms : d # Doc(c) => chat'[d] = chat[d]
  BY <1>3 DEF Write, TypeInv, TypeOK
<1>5. c # NoCall
  BY ConstantsAssumption
<1>6. DocsAreNamed'
  <2>1. ASSUME NEW d \in Group \X Ms, chat'[d] # NoCall
        PROVE  Doc(chat'[d]) = d /\ createdAt'[chat'[d]] > 0
    <3>1. CASE d = Doc(c)
      BY <1>1, <1>4, <3>1
    <3>2. CASE d # Doc(c)
      <4>1. chat'[d] = chat[d] /\ chat[d] \in Call
        BY <1>4, <2>1, <3>2 DEF TypeInv, TypeOK
      <4>2. Doc(chat[d]) = d /\ createdAt[chat[d]] > 0
        BY <2>1, <4>1 DEF DocsAreNamed
      <4> QED
        BY <1>1, <4>1, <4>2
    <3> QED
      BY <3>1, <3>2
  <2>2. \A d \in Group \X Ms : chat'[d] # NoCall => chat'[d] \in Call
    BY DEF TypeInv, TypeOK, Group
  <2> QED
    BY <1>3, <2>1, <2>2 DEF DocsAreNamed, Group
<1>7. WrittenOrReplaced'
  <2>1. ASSUME NEW e \in Call, createdAt'[e] > 0
        PROVE  /\ chat'[Doc(e)] # NoCall
               /\ chat'[Doc(e)] = e \/ createdAt'[chat'[Doc(e)]] > createdAt'[e]
    <3>1. CASE e = c
      BY <1>4, <1>5, <3>1
    <3>2. CASE e # c /\ Doc(e) = Doc(c)
      BY <1>1, <1>2, <1>4, <1>5, <3>2
    <3>3. CASE e # c /\ Doc(e) # Doc(c)
      <4>1. chat'[Doc(e)] = chat[Doc(e)] /\ chat[Doc(e)] \in Call \union {NoCall}
        BY <1>3, <1>4, <3>3 DEF TypeInv, TypeOK
      <4>2. createdAt[e] > 0 /\ createdAt'[e] = createdAt[e]
        BY <1>1, <2>1, <3>3
      <4>3. chat[Doc(e)] # NoCall /\ (chat[Doc(e)] = e \/ createdAt[chat[Doc(e)]] > createdAt[e])
        BY <4>2 DEF WrittenOrReplaced
      <4>4. chat[Doc(e)] # c
        BY <1>3, <3>3, <4>3 DEF DocsAreNamed
      <4> QED
        BY <1>1, <4>1, <4>2, <4>3, <4>4
    <3> QED
      BY <3>1, <3>2, <3>3
  <2> QED
    BY <1>3, <2>1 DEF WrittenOrReplaced
<1>8. TimesArePast'
  BY <1>1, <1>2 DEF TimesArePast, BeforeWrite
<1>9. BeforeIsEarlier'
  <2>1. \A x \in Call : before[x] \subseteq Call /\ x \notin before[x]
    BY DEF BeforeIsEarlier, TypeInv, TypeOK
  <2>2. \A x \in Call : c \in before[x] => c \in again' /\ pc'[c] = "sent"
    BY DEF BeforeIsEarlier
  <2>3. again \subseteq again'
    OBVIOUS
  <2>4. \A x \in Call : \A e \in before[x] : pc'[e] = "sent" /\ createdAt'[e] > 0
    BY <1>1, <2>1, <2>2 DEF BeforeIsEarlier
  <2>5. ASSUME NEW x \in Call, NEW e \in before[x], createdAt'[x] > 0
        PROVE  e \in again' \/ createdAt'[e] < createdAt'[x]
    <3>1. CASE e = c
      BY <2>2, <3>1
    <3>2. CASE e # c /\ x = c
      BY <1>1, <1>2, <2>1, <3>2
    <3>3. CASE e # c /\ x # c
      BY <1>1, <2>1, <2>3, <2>5, <3>3 DEF BeforeIsEarlier
    <3> QED
      BY <3>1, <3>2, <3>3
  <2> QED
    BY <2>1, <2>4, <2>5 DEF BeforeIsEarlier
<1> QED
  BY <1>6, <1>7, <1>8, <1>9

LEMMA StepChatInv == ChatInv /\ [Next]_vars => ChatInv'
<1> SUFFICES ASSUME ChatInv, [Next]_vars PROVE ChatInv'
  OBVIOUS
<1>0. TypeInv /\ TypeInv'
  BY StepTypeInv DEF ChatInv
<1>pc. pc \in [Call -> Running \union {"idle", "sent", "failed"}]
  BY <1>0 DEF TypeInv, TypeOK
<1>1. ASSUME NEW s \in Screen, NEW t \in Draft, Type(s, t) PROVE ChatInv'
  BY <1>0, <1>1, MoveChatInv DEF Type, callVars, serverVars
<1>2. ASSUME NEW s \in Screen, NEW n \in 1..MaxFiles, Pick(s, n) PROVE ChatInv'
  BY <1>0, <1>2, MoveChatInv DEF Pick, serverVars, historyVars
<1>3. ASSUME NEW s \in Screen, Close(s) PROVE ChatInv'
  BY <1>0, <1>3, MoveChatInv DEF Close, serverVars, historyVars
<1>4. ASSUME NEW s \in Screen, NEW c \in Call, NEW ms \in Ms, Send(s, c, ms) PROVE ChatInv'
  BY <1>0, <1>4, SendChatInv
<1>5. ASSUME NEW c \in Call, pc[c] \in Uploading, NextFile(c),
             UNCHANGED <<from, id, serverVars, before, again>>
      PROVE  ChatInv'
  <2>1. \A e \in Call : \/ pc'[e] = pc[e]
                        \/ pc[e] \in BeforeWrite /\ pc'[e] \in BeforeWrite
                        \/ pc[e] # "sent" /\ pc'[e] \in {"commit", "failed"}
    BY <1>5, <1>pc DEF NextFile, Goto, Uploading, BeforeWrite
  <2> QED
    BY <1>0, <1>5, <2>1, MoveChatInv DEF serverVars
<1>6. ASSUME NEW c \in Call, PutThumb(c) PROVE ChatInv'
  <2>1. \A e \in Call : \/ pc'[e] = pc[e]
                        \/ pc[e] \in BeforeWrite /\ pc'[e] \in BeforeWrite
    BY <1>6, <1>pc DEF PutThumb, Goto, BeforeWrite
  <2> QED
    BY <1>0, <1>6, <2>1, MoveChatInv DEF PutThumb, serverVars, historyVars
<1>7. ASSUME NEW c \in Call, SkipFile(c) \/ PutOriginal(c) \/ PutError(c) PROVE ChatInv'
  BY <1>5, <1>7 DEF SkipFile, PutOriginal, PutError, Uploading, historyVars
<1>8. ASSUME NEW c \in Call, Commit(c) PROVE ChatInv'
  <2>1. /\ Write(c) /\ UNCHANGED <<from, id, before, again, copies>>
        /\ pc[c] = "commit" /\ pc'[c] = "answer"
        /\ \A e \in Call : e # c => pc'[e] = pc[e]
    BY <1>8, <1>pc DEF Commit, Goto, historyVars
  <2> QED
    BY <1>0, <2>1, WriteChatInv DEF BeforeWrite, Running
<1>9. ASSUME NEW c \in Call, Answer(c) PROVE ChatInv'
  <2>1. \A e \in Call : pc'[e] = pc[e] \/ (pc[e] = "answer" /\ pc'[e] = "sent")
    BY <1>9, <1>pc DEF Answer, Goto
  <2> QED
    BY <1>0, <1>9, <2>1, MoveChatInv DEF Answer, serverVars, historyVars
<1>10. ASSUME NEW c \in Call, Fail(c) PROVE ChatInv'
  <2>1. \A e \in Call : pc'[e] = pc[e] \/ (pc[e] # "sent" /\ pc'[e] = "failed")
    BY <1>10, <1>pc DEF Fail, Goto
  <2> QED
    BY <1>0, <1>10, <2>1, MoveChatInv DEF Fail, serverVars, historyVars
<1>11. ASSUME NEW c \in Call, Lose(c) PROVE ChatInv'
  <2>1. /\ pc[c] # "sent" /\ pc'[c] = "commit"
        /\ \A e \in Call : e # c => pc'[e] = pc[e] /\ copies'[e] = copies[e]
    BY <1>0, <1>11 DEF Lose, Goto, TypeInv, TypeOK
  <2> QED
    BY <1>0, <1>11, <2>1, MoveChatInv DEF Lose, historyVars
<1>12. ASSUME NEW c \in Call, CommitCopy(c) PROVE ChatInv'
  <2>1. /\ Write(c) /\ UNCHANGED <<pc, from, id, before>> /\ copies[c] > 0
        /\ again' = IF pc[c] \in Running THEN again ELSE again \union {c}
        /\ \A e \in Call : e # c => copies'[e] = copies[e]
    BY <1>0, <1>12 DEF CommitCopy, callVars, TypeInv, TypeOK
  <2>2. pc[c] \notin BeforeWrite
    BY <2>1 DEF ChatInv, TimesArePast
  <2>3. CASE pc[c] \in Running
    <3>1. pc[c] # "sent" /\ pc'[c] \in Running \ BeforeWrite /\ again' = again
      BY <2>1, <2>2, <2>3 DEF Running, Uploading
    <3> QED
      BY <1>0, <2>1, <2>2, <3>1, WriteChatInv
  <2>4. CASE pc[c] \notin Running
    BY <1>0, <2>1, <2>2, <2>4, WriteChatInv
  <2> QED
    BY <2>3, <2>4
<1>13. CASE UNCHANGED vars
  BY <1>0, <1>13, MoveChatInv DEF vars, callVars, serverVars, historyVars
<1> QED
  BY <1>1, <1>2, <1>3, <1>4, <1>6, <1>7, <1>8, <1>9, <1>10, <1>11, <1>12, <1>13 DEF Next, Return

LEMMA ChatInvHolds == Spec => []ChatInv
BY InitChatInv, StepChatInv, PTL DEF Spec, ChatInv

\* A message reported as sent is in the query of both its users, on every
\* screen they have open on each other, until a message of the same device
\* millisecond replaces it: no other race, failure, lost answer or repeated
\* commit loses one.
THEOREM NoMessageIsLost == Spec => []LostOnlyToSameMs
<1>1. ASSUME ChatInv PROVE LostOnlyToSameMs
  <2>1. SUFFICES ASSUME NEW c \in Sent, NEW s \in Screen,
                        {Me[s], Peer[s]} = {Me[from[c]], Peer[from[c]]}
                 PROVE  \/ c \in Shown(s)
                        \/ \E e \in Shown(s) : id[e] = id[c] /\ createdAt[e] > createdAt[c]
    BY DEF LostOnlyToSameMs
  <2>2. c \in Call /\ pc[c] = "sent" /\ createdAt[c] > 0
    BY <1>1 DEF Sent, ChatInv, TimesArePast
  <2>3. from[c] \in Screen /\ id[c] \in Ms /\ Doc(c) \in Group \X Ms
    BY <1>1, <2>2, DocType DEF ChatInv, TypeInv, TypeOK
  <2>4. Doc(c) = <<GroupChatId(s), id[c]>>
    BY <2>1, <2>3, GroupIsThePair DEF Doc
  <2> DEFINE e == chat[Doc(c)]
  <2>5. e # NoCall /\ (e = c \/ createdAt[e] > createdAt[c])
    BY <1>1, <2>2 DEF ChatInv, WrittenOrReplaced
  <2>6. e \in Shown(s)
    BY <2>3, <2>4, <2>5 DEF Shown
  <2>7. id[e] = id[c]
    BY <1>1, <2>3, <2>5 DEF ChatInv, DocsAreNamed, Doc
  <2> QED
    BY <2>5, <2>6, <2>7
<1> QED
  BY <1>1, ChatInvHolds, PTL

\* Nobody but its two users has a message in the query of his screen.
THEOREM NobodyElseIsShown == Spec => []ShownToItsTwoUsers
<1>1. ASSUME ChatInv PROVE ShownToItsTwoUsers
  <2>1. SUFFICES ASSUME NEW s \in Screen, NEW c \in Shown(s)
                 PROVE  {Me[s], Peer[s]} = {Me[from[c]], Peer[from[c]]}
    BY DEF ShownToItsTwoUsers
  <2>2. PICK m \in Ms : c = chat[<<GroupChatId(s), m>>] /\ c # NoCall
    BY DEF Shown
  <2>3. <<GroupChatId(s), m>> \in Group \X Ms
    BY DEF Group
  <2>4. c \in Call /\ Doc(c) = <<GroupChatId(s), m>>
    BY <1>1, <2>2, <2>3 DEF ChatInv, DocsAreNamed, TypeInv, TypeOK
  <2>5. from[c] \in Screen /\ GroupChatId(from[c]) = GroupChatId(s)
    BY <1>1, <2>4 DEF Doc, ChatInv, TypeInv, TypeOK
  <2> QED
    BY <2>5, GroupIsThePair
<1> QED
  BY <1>1, ChatInvHolds, PTL

\* The list is in real-time order: a message begun after another was reported
\* as sent has a later createdAt, whatever the devices' clocks say and however
\* often its commit is handled, unless one more commit of the earlier message
\* was handled after its call had returned.
THEOREM RealTimeOrder == Spec => []ListedInRealTime
<1>1. ChatInv => ListedInRealTime
  BY DEF ChatInv, BeforeIsEarlier, ListedInRealTime
<1> QED
  BY <1>1, ChatInvHolds, PTL

----------------------------------------------------------------------------
(* The two url lists.                                                       *)

\* Why TapOpensItsOriginal holds: between two files the lists are the same, and
\* while an original is being put its thumbnail is the last of the other list.
ListsInv ==
    \A c \in Call \ uneven :
       /\ pc[c] = "orig" => thumbs[c] = Append(origs[c], next[c])
       /\ pc[c] # "orig" => thumbs[c] = origs[c]

\* A step that leaves the lists alone and starts or ends no put of an original.
LEMMA SameLists ==
    ASSUME ListsInv, UNCHANGED <<thumbs, origs, uneven>>,
           \A c \in Call : (pc'[c] = pc[c] /\ next'[c] = next[c])
                            \/ (pc[c] # "orig" /\ pc'[c] # "orig")
    PROVE  ListsInv'
BY DEF ListsInv

LEMMA StepListsInv == TypeInv /\ ListsInv /\ [Next]_vars => ListsInv'
<1> SUFFICES ASSUME TypeInv, ListsInv, [Next]_vars PROVE ListsInv'
  OBVIOUS
<1> USE DEF TypeInv
<1>1. CASE UNCHANGED <<pc, next, thumbs, origs, uneven>>
  BY <1>1, SameLists
<1>2. ASSUME NEW s \in Screen, NEW c \in Call, NEW ms \in Ms, Send(s, c, ms) PROVE ListsInv'
  BY <1>2, SameLists DEF Send, Goto, TypeOK
<1>3. ASSUME NEW c \in Call, Commit(c) \/ Answer(c) \/ Fail(c) \/ Lose(c) PROVE ListsInv'
  BY <1>3, SameLists DEF Commit, Answer, Fail, Lose, Goto, TypeOK, historyVars
<1>4. ASSUME NEW c \in Call, SkipFile(c) PROVE ListsInv'
  BY <1>4, SameLists DEF SkipFile, NextFile, Goto, TypeOK, historyVars
<1>5. ASSUME NEW c \in Call, PutThumb(c) PROVE ListsInv'
  <2>1. /\ pc[c] = "thumb" /\ pc'[c] = "orig" /\ thumbs'[c] = Append(thumbs[c], next[c])
        /\ UNCHANGED <<origs, next, uneven>>
        /\ \A e \in Call \ {c} : pc'[e] = pc[e] /\ thumbs'[e] = thumbs[e]
    BY <1>5 DEF PutThumb, Goto, TypeOK, historyVars
  <2> QED
    BY <2>1 DEF ListsInv
<1>6. ASSUME NEW c \in Call, PutOriginal(c) PROVE ListsInv'
  <2>1. /\ pc[c] = "orig" /\ pc'[c] # "orig" /\ origs'[c] = Append(origs[c], next[c])
        /\ UNCHANGED <<thumbs, uneven>>
        /\ \A e \in Call \ {c} : pc'[e] = pc[e] /\ origs'[e] = origs[e] /\ next'[e] = next[e]
    BY <1>6 DEF PutOriginal, NextFile, Goto, TypeOK, historyVars
  <2> QED
    BY <2>1 DEF ListsInv
<1>7. ASSUME NEW c \in Call, PutError(c) PROVE ListsInv'
  <2>1. /\ pc'[c] # "orig" /\ UNCHANGED <<thumbs, origs>>
        /\ uneven \subseteq uneven' /\ (pc[c] = "orig" => c \in uneven')
        /\ \A e \in Call \ {c} : pc'[e] = pc[e] /\ next'[e] = next[e]
    BY <1>7 DEF PutError, NextFile, Goto, TypeOK
  <2> QED
    BY <2>1 DEF ListsInv
<1> QED
  BY <1>1, <1>2, <1>3, <1>4, <1>5, <1>6, <1>7
  DEF Next, Return, Type, Pick, Close, CommitCopy, vars, callVars, historyVars

\* TapOpensItsOriginal: whichever files fail to decode or to be put, and whatever
\* list is cleared under a call, the i-th thumbnail of a message and its i-th
\* original are of the same file, unless an original failed after its thumbnail.
THEOREM TapsOpenOriginals == Spec => []TapOpensItsOriginal
<1>1. Init => ListsInv
  BY DEF Init, ListsInv
<1>2. ASSUME ChatInv, ListsInv PROVE TapOpensItsOriginal
  <2>1. SUFFICES ASSUME NEW s \in Screen, NEW c \in Shown(s) \ uneven
                 PROVE  origs[c] = thumbs[c]
    BY DEF TapOpensItsOriginal
  <2>2. PICK m \in Ms : c = chat[<<GroupChatId(s), m>>] /\ c # NoCall
    BY DEF Shown
  <2>3. <<GroupChatId(s), m>> \in Group \X Ms
    BY DEF Group
  <2>4. c \in Call /\ createdAt[c] > 0
    BY <1>2, <2>2, <2>3 DEF ChatInv, DocsAreNamed, TypeInv, TypeOK
  <2>5. pc[c] # "orig"
    BY <1>2, <2>4 DEF ChatInv, TimesArePast, BeforeWrite
  <2> QED
    BY <1>2, <2>4, <2>5 DEF ListsInv
<1>3. ChatInv => TypeInv
  BY DEF ChatInv
<1> QED
  BY <1>1, <1>2, <1>3, StepListsInv, ChatInvHolds, PTL DEF Spec

----------------------------------------------------------------------------
(* The text field.                                                          *)

\* Why DraftClearedOnceSent holds: unless it was typed meanwhile, the text of a
\* screen is the text of every call of the screen that runs.
DraftInv ==
    \A s \in Screen \ retyped : draft[s] # NoText =>
       \A c \in RunningOf(s) : text[c] = draft[s]

\* A step that starts no call and writes into no text field.
LEMMA SameDrafts ==
    ASSUME DraftInv, UNCHANGED <<from, text, retyped>>,
           \A s \in Screen : draft'[s] = draft[s] \/ draft'[s] = NoText,
           \A c \in Call : pc'[c] \in Running => pc[c] \in Running
    PROVE  DraftInv'
BY DEF DraftInv, RunningOf

LEMMA StepDraftInv == TypeInv /\ DraftInv /\ [Next]_vars => DraftInv'
<1> SUFFICES ASSUME TypeInv, DraftInv, [Next]_vars PROVE DraftInv'
  OBVIOUS
<1> USE DEF TypeInv
<1>1. ASSUME NEW s \in Screen, NEW t \in Draft, Type(s, t) PROVE DraftInv'
  <2>1. /\ UNCHANGED <<pc, from, text>>
        /\ \A r \in Screen \ {s} : draft'[r] = draft[r]
        /\ retyped' = IF RunningOf(s) = {} THEN retyped \ {s} ELSE retyped \union {s}
    BY <1>1 DEF Type, TypeOK, callVars
  <2>2. \A r \in Screen : RunningOf(r)' = RunningOf(r)
    BY <2>1 DEF RunningOf
  <2> QED
    BY <2>1, <2>2 DEF DraftInv, RunningOf
<1>2. ASSUME NEW s \in Screen, NEW c \in Call, NEW ms \in Ms, Send(s, c, ms) PROVE DraftInv'
  <2>1. /\ UNCHANGED <<draft, retyped>> /\ from'[c] = s /\ text'[c] = draft[s]
        /\ \A e \in Call \ {c} : pc'[e] = pc[e] /\ from'[e] = from[e] /\ text'[e] = text[e]
    BY <1>2 DEF Send, Goto, TypeOK, screenVars
  <2> QED
    BY <2>1 DEF DraftInv, RunningOf
<1>3. ASSUME NEW c \in Call, Return(c) \/ Fail(c) \/ Lose(c) PROVE DraftInv'
  <2>1. pc[c] \in Running /\ \A e \in Call \ {c} : pc'[e] = pc[e]
    BY <1>3 DEF Return, SkipFile, PutThumb, PutOriginal, PutError, Commit, Answer, Fail, Lose, NextFile,
       Goto, Running, Uploading, TypeOK
  <2>2. UNCHANGED <<from, text, retyped>>
    BY <1>3 DEF Return, SkipFile, PutThumb, PutOriginal, PutError, Commit, Answer, Fail, Lose, historyVars
  <2>3. \A s \in Screen : draft'[s] = draft[s] \/ draft'[s] = NoText
    BY <1>3 DEF Return, SkipFile, PutThumb, PutOriginal, PutError, Commit, Answer, Fail, Lose, screenVars,
       TypeOK
  <2> QED
    BY <2>1, <2>2, <2>3, SameDrafts
<1>4. CASE UNCHANGED <<draft, pc, from, text, retyped>>
  BY <1>4, SameDrafts
<1> QED
  BY <1>1, <1>2, <1>3, <1>4
  DEF Next, Pick, Close, CommitCopy, vars, screenVars, callVars, historyVars

\* DraftClearedOnceSent: whichever of a screen's calls answers first, the text it
\* clears is the one that call has sent, unless it was typed while a call ran.
THEOREM DraftGoesOnceSent == Spec => DraftClearedOnceSent
<1>1. Init => DraftInv
  BY DEF Init, DraftInv
<1>2. TypeInv /\ DraftInv /\ [Next]_vars =>
        [\A s \in Screen : draft'[s] = NoText /\ draft[s] # NoText /\ s \notin retyped =>
          \E c \in Call : from[c] = s /\ pc'[c] = "sent" /\ text[c] = draft[s]]_vars
  <2> SUFFICES ASSUME TypeInv, DraftInv, Next, NEW s \in Screen,
                      draft'[s] = NoText, draft[s] # NoText, s \notin retyped
               PROVE  \E c \in Call : from[c] = s /\ pc'[c] = "sent" /\ text[c] = draft[s]
    OBVIOUS
  <2>1. PICK c \in Call : Answer(c)
    <3>1. \A r \in Screen, t \in Draft : ~Type(r, t)
      BY ConstantsAssumption DEF Type, TypeInv, TypeOK
    <3> QED
      BY <3>1 DEF Next, Return, Pick, Close, Send, SkipFile, PutThumb, PutOriginal, PutError,
         Commit, Fail, Lose, CommitCopy, screenVars
  <2>2. from[c] = s /\ pc[c] = "answer" /\ pc'[c] = "sent"
    BY <2>1 DEF Answer, Goto, TypeInv, TypeOK
  <2> QED
    BY <2>2 DEF DraftInv, RunningOf, Running
<1>3. ChatInv => TypeInv
  BY DEF ChatInv
<1> QED
  BY <1>1, <1>2, <1>3, StepDraftInv, ChatInvHolds, PTL DEF Spec, DraftClearedOnceSent
============================================================================
