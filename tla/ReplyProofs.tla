----------------------------- MODULE ReplyProofs -----------------------------
(***************************************************************************)
(* Proofs about the work on one message, for messages of any length and    *)
(* any number of times the server may act on one reply.                    *)
(***************************************************************************)
EXTENDS Reply, SequenceTheorems, TLAPS

-----------------------------------------------------------------------------
(***************************************************************************)
(* The inductive invariant.                                                *)
(***************************************************************************)
(* How many parts of the message have been processed.                      *)
Processed == Len(message) - Len(left)

(* The loop is at the end of what it has processed: left is the rest of    *)
(* the message.                                                            *)
LeftIsRest ==
  /\ Len(left) <= Len(message)
  /\ \A i \in 1 .. Len(left) : left[i] = message[Processed + i]

(* What is sent is in the order of the message, and no processed text is   *)
(* missing.                                                                *)
PartsInOrder ==
  /\ \A i \in 1 .. Len(parts) : parts[i] \in 1 .. Processed
  /\ \A i, j \in 1 .. Len(parts) : i < j => parts[i] < parts[j]
  /\ \A k \in 1 .. Processed : message[k] = "text" => \E i \in 1 .. Len(parts) : parts[i] = k

Texts == {"blank", "words", "media"}

(* An answer with content exists only after the agent, and then the client *)
(* was of the right type; it names a file while one is sent.               *)
AnswerKnown ==
  /\ pc = "agent" => left = <<>>
  /\ content \in Texts => pc \in AfterAnswer \cup {"end"}
  /\ pc \in AfterAnswer => content \in Texts /\ client = appType
  /\ posted # <<>> => client = appType
  /\ pc \in {"fileToken", "readFile", "upload", "fileReply"} => content = "media"

(* By the time the text is sent, the file has shown up or has failed.      *)
FileSettled ==
  pc = "textReply" /\ content = "media" => "file" \in ToSet(posted) \/ fileFailed

IInv ==
  /\ TypeOK /\ LeftIsRest /\ PartsInOrder /\ AnswerKnown /\ FileSettled
  /\ AnswerLostOnlyByFeishu

-----------------------------------------------------------------------------
(***************************************************************************)
(* The loop over the parts.                                                *)
(***************************************************************************)
PostTypes == {"file", "blank", "words", "media"}

(* Outside the loop, nothing is processed.                                 *)
LEMMA LoopKept ==
  ASSUME LeftIsRest, PartsInOrder, UNCHANGED <<message, left, parts>>
  PROVE  LeftIsRest' /\ PartsInOrder'
BY DEF LeftIsRest, PartsInOrder, Processed

(* One more part is processed, and it is the one Index names.              *)
LEMMA TailFacts ==
  ASSUME TypeOK, LeftIsRest, left # <<>>, left' = Tail(left), UNCHANGED message
  PROVE  /\ left' \in Seq({"text", "image"}) /\ LeftIsRest'
         /\ Processed \in Nat /\ Processed' = Processed + 1 /\ Index = Processed + 1
         /\ Index \in 1 .. Len(message) /\ message[Index] = Head(left)
<1>1. message \in Seq({"text", "image"}) /\ left \in Seq({"text", "image"})
  BY ReplyAssumption DEF TypeOK
<1>2. Len(message) \in Nat /\ Len(left) \in Nat \ {0}
  BY <1>1, LenProperties, EmptySeq
<1>3. /\ left' \in Seq({"text", "image"}) /\ Len(left') = Len(left) - 1
      /\ \A i \in 1 .. Len(left') : left'[i] = left[i + 1]
  BY <1>1, HeadTailProperties
<1>4. Len(left) <= Len(message) /\ \A i \in 1 .. Len(left) : left[i] = message[Processed + i]
  BY DEF LeftIsRest
<1>5. /\ Processed \in Nat /\ Processed' = Processed + 1 /\ Index = Processed + 1
      /\ Index \in 1 .. Len(message)
  BY <1>2, <1>3, <1>4 DEF Processed, Index
<1>6. message[Index] = Head(left)
  <2>1. Head(left) = left[1]  OBVIOUS
  <2> QED  BY <1>2, <1>4, <1>5, <2>1
<1>7. LeftIsRest'
  <2>1. Len(left') <= Len(message')  BY <1>2, <1>3, <1>4
  <2>2. ASSUME NEW i \in 1 .. Len(left')  PROVE left'[i] = message'[Processed' + i]
    <3>1. i + 1 \in 1 .. Len(left) /\ Processed' + i = Processed + (i + 1)
      BY <1>2, <1>3, <1>5
    <3> QED  BY <1>3, <1>4, <3>1
  <2> QED  BY <2>1, <2>2 DEF LeftIsRest
<1> QED  BY <1>3, <1>5, <1>6, <1>7

(* A text is copied, or an image was downloaded.                           *)
LEMMA AppendFacts ==
  ASSUME TypeOK, LeftIsRest, PartsInOrder, left # <<>>, left' = Tail(left), UNCHANGED message,
         parts' = Append(parts, Index)
  PROVE  parts' \in Seq(1 .. Len(message)) /\ PartsInOrder'
<1>1. /\ Processed \in Nat /\ Processed' = Processed + 1 /\ Index = Processed + 1
      /\ Index \in 1 .. Len(message)
  BY TailFacts
<1>2. /\ parts \in Seq(1 .. Len(message)) /\ Len(parts) \in Nat
      /\ \A i \in 1 .. Len(parts) : parts[i] \in 1 .. Processed
      /\ \A i, j \in 1 .. Len(parts) : i < j => parts[i] < parts[j]
      /\ \A k \in 1 .. Processed : message[k] = "text" => \E i \in 1 .. Len(parts) : parts[i] = k
  BY LenProperties DEF TypeOK, PartsInOrder
<1> DEFINE n == Len(parts)
<1>3. /\ parts' \in Seq(1 .. Len(message)) /\ Len(parts') = n + 1
      /\ \A i \in 1 .. n : parts'[i] = parts[i]
      /\ parts'[n + 1] = Index
  BY <1>1, <1>2, AppendProperties
<1> HIDE DEF n
<1>4. n \in Nat /\ \A i \in 1 .. n + 1 : i \in 1 .. n \/ i = n + 1  BY <1>2 DEF n
<1>5. \A i \in 1 .. n : parts[i] \in 1 .. Processed  BY <1>2 DEF n
<1>6. \A i \in 1 .. n + 1 : parts'[i] \in 1 .. Processed'
  BY <1>1, <1>3, <1>4, <1>5
<1>7. ASSUME NEW i \in 1 .. n + 1, NEW j \in 1 .. n + 1, i < j  PROVE parts'[i] < parts'[j]
  <2>1. i \in 1 .. n  BY <1>4, <1>7
  <2>2. CASE j \in 1 .. n  BY <1>2, <1>3, <1>7, <2>1, <2>2 DEF n
  <2>3. CASE j = n + 1  BY <1>1, <1>3, <1>5, <2>1, <2>3
  <2> QED  BY <1>4, <2>2, <2>3
<1>8. ASSUME NEW k \in 1 .. Processed', message[k] = "text"
      PROVE  \E i \in 1 .. n + 1 : parts'[i] = k
  <2>1. CASE k \in 1 .. Processed
    <3>1. PICK i \in 1 .. n : parts[i] = k  BY <1>2, <1>8, <2>1 DEF n
    <3>2. i \in 1 .. n + 1 /\ parts'[i] = k  BY <1>3, <1>4, <3>1
    <3> QED  BY <3>2
  <2>2. CASE k = Processed + 1
    <3>1. n + 1 \in 1 .. n + 1 /\ parts'[n + 1] = k  BY <1>1, <1>3, <1>4, <2>2
    <3> QED  BY <3>1
  <2>3. k \in 1 .. Processed \/ k = Processed + 1  BY <1>1
  <2> QED  BY <2>1, <2>2, <2>3
<1> QED  BY <1>3, <1>6, <1>7, <1>8 DEF PartsInOrder

(* An image is left out: only texts must be there.                         *)
LEMMA SkipFacts ==
  ASSUME TypeOK, LeftIsRest, PartsInOrder, left # <<>>, left' = Tail(left),
         UNCHANGED <<message, parts>>, Head(left) = "image"
  PROVE  PartsInOrder'
<1>1. /\ Processed \in Nat /\ Processed' = Processed + 1
      /\ Index = Processed + 1 /\ message[Index] = "image"
  BY TailFacts
<1>2. \A k \in 1 .. Processed' : k \in 1 .. Processed \/ k = Processed + 1  BY <1>1
<1>3. \A k \in 1 .. Processed : k \in 1 .. Processed'  BY <1>1
<1> QED  BY <1>1, <1>2, <1>3 DEF PartsInOrder

(* What a call of Reply adds to the chat.                                  *)
LEMMA PostFacts ==
  ASSUME posted \in Seq(PostTypes), NEW n \in Nat, NEW what \in PostTypes, Post(what, n)
  PROVE  /\ posted' \in Seq(PostTypes)
         /\ ToSet(posted) \subseteq ToSet(posted')
         /\ n > 0 => what \in ToSet(posted')
         /\ n = 0 => posted' = posted
<1> DEFINE new == [i \in 1 .. n |-> what]
<1>1. new \in Seq(PostTypes) /\ Len(new) = n
  <2>1. new \in [1 .. n -> PostTypes]  OBVIOUS
  <2>2. new \in Seq(PostTypes)  BY <2>1, SeqDef
  <2>3. DOMAIN new = 1 .. Len(new) /\ Len(new) \in Nat  BY <2>2, LenProperties
  <2>4. DOMAIN new = 1 .. n  OBVIOUS
  <2> QED  BY <2>2, <2>3, <2>4
<1>2. \A i \in 1 .. n : new[i] = what  OBVIOUS
<1> HIDE DEF new
<1>3. /\ posted' \in Seq(PostTypes) /\ Len(posted') = Len(posted) + n
      /\ \A i \in 1 .. Len(posted) + n :
           posted'[i] = IF i <= Len(posted) THEN posted[i] ELSE new[i - Len(posted)]
  BY <1>1, ConcatProperties DEF Post, new
<1>4. /\ Len(posted) \in Nat /\ DOMAIN posted = 1 .. Len(posted)
      /\ DOMAIN posted' = 1 .. Len(posted) + n
  BY <1>3, LenProperties
<1>5. ToSet(posted) \subseteq ToSet(posted')  BY <1>3, <1>4 DEF ToSet
<1>6. ASSUME n > 0  PROVE what \in ToSet(posted')
  <2>1. Len(posted) + n \in DOMAIN posted'  BY <1>4, <1>6
  <2>2. posted'[Len(posted) + n] = new[(Len(posted) + n) - Len(posted)]  BY <1>3, <1>4, <1>6
  <2>3. (Len(posted) + n) - Len(posted) = n  BY <1>4
  <2>4. posted'[Len(posted) + n] = what  BY <1>2, <1>6, <2>2, <2>3
  <2> QED  BY <2>1, <2>4 DEF ToSet
<1>7. ASSUME n = 0  PROVE posted' = posted
  <2>1. \A i \in 1 .. Len(posted) : posted'[i] = posted[i]  BY <1>3, <1>4, <1>7
  <2>2. Len(posted') = Len(posted)  BY <1>3, <1>4, <1>7
  <2> QED  BY <1>3, <2>1, <2>2, SeqEqual
<1> QED  BY <1>3, <1>5, <1>6, <1>7

-----------------------------------------------------------------------------
(***************************************************************************)
(* Each step keeps the invariant.                                          *)
(***************************************************************************)
(* The steps of the loop touch neither the answer nor the chat.            *)
LEMMA LoopStep ==
  ASSUME IInv, CopyText \/ Download \/ SkipImage
  PROVE  IInv'
<1>1. /\ TypeOK /\ LeftIsRest /\ PartsInOrder /\ AnswerKnown
      /\ pc = "parts" /\ left # <<>> /\ left' = Tail(left)
      /\ UNCHANGED <<job, pc, ctx1, ctx2, content, posted, fileFailed, failed>>
  BY DEF IInv, CopyText, Download, SkipImage
<1>2. left' \in Seq({"text", "image"}) /\ LeftIsRest'  BY <1>1, TailFacts DEF job
<1>3. parts' \in Seq(1 .. Len(message)) /\ PartsInOrder'
  <2>1. CASE CopyText \/ Download
    <3>1. parts' = Append(parts, Index)  BY <2>1 DEF CopyText, Download
    <3> QED  BY <1>1, <3>1, AppendFacts DEF job
  <2>2. CASE SkipImage
    <3>1. UNCHANGED parts /\ Head(left) = "image"  BY <2>2 DEF SkipImage
    <3> QED  BY <1>1, <3>1, SkipFacts DEF job, TypeOK
  <2> QED  BY <2>1, <2>2
<1>4. TypeOK'  BY <1>1, <1>2, <1>3 DEF TypeOK, job
<1>5. AnswerKnown' /\ FileSettled' /\ AnswerLostOnlyByFeishu'
  BY <1>1 DEF AnswerKnown, FileSettled, AnswerLostOnlyByFeishu, job, AfterAnswer
<1> QED  BY <1>2, <1>3, <1>4, <1>5 DEF IInv

(* The steps up to the agent's answer.                                     *)
LEMMA BeforeAnswerStep ==
  ASSUME IInv, Start \/ TenantToken \/ PartsDone \/ Expire1 \/ Expire2 \/ AgentFails
  PROVE  IInv'
<1>1. /\ TypeOK /\ LeftIsRest /\ PartsInOrder /\ AnswerKnown /\ FileSettled
      /\ AnswerLostOnlyByFeishu
      /\ UNCHANGED <<message, appType, client, left, parts, content, posted, fileFailed>>
  BY DEF IInv, Start, TenantToken, PartsDone, Expire1, Expire2, AgentFails, job
<1>2. LeftIsRest' /\ PartsInOrder'  BY <1>1, LoopKept
<1>3. CASE Expire1 \/ Expire2
  <2>1. /\ UNCHANGED <<pc, failed>> /\ ctx1' \in BOOLEAN /\ ctx2' \in BOOLEAN
    BY <1>1, <1>3 DEF Expire1, Expire2, TypeOK
  <2>2. TypeOK'  BY <1>1, <2>1 DEF TypeOK
  <2>3. AnswerKnown' /\ FileSettled' /\ AnswerLostOnlyByFeishu'
    BY <1>1, <2>1 DEF AnswerKnown, FileSettled, AnswerLostOnlyByFeishu
  <2> QED  BY <1>2, <2>2, <2>3 DEF IInv
<1>4. CASE Start \/ TenantToken \/ PartsDone \/ AgentFails
  <2>1. /\ pc \in {"start", "tenantToken", "parts", "agent"}
        /\ pc' \in {"tenantToken", "parts", "agent", "end"}
        /\ failed' \in {failed, pc} /\ UNCHANGED <<ctx1, ctx2>>
        /\ pc' = "agent" => left' = <<>>
    BY <1>4 DEF Start, TenantToken, PartsDone, AgentFails, GoTo, GiveUp
  <2>2. content \notin Texts  BY <1>1, <2>1 DEF AnswerKnown, AfterAnswer
  <2>3. TypeOK'
    <3>1. failed' \in Calls \cup {"none", "start"}  BY <1>1, <2>1 DEF TypeOK, Calls
    <3>2. pc' \in Calls \cup {"start", "end"}  BY <2>1 DEF Calls
    <3> QED  BY <1>1, <2>1, <3>1, <3>2 DEF TypeOK
  <2>4. AnswerKnown' /\ FileSettled' /\ AnswerLostOnlyByFeishu'
    BY <1>1, <2>1, <2>2
    DEF AnswerKnown, FileSettled, AnswerLostOnlyByFeishu, AfterAnswer, Texts
  <2> QED  BY <1>2, <2>3, <2>4 DEF IInv
<1> QED  BY <1>3, <1>4

(* Only a client of the right type turns an answer into content.           *)
LEMMA AskAgentStep ==
  ASSUME IInv, NEW answer \in AgentAnswers, AskAgent(answer)
  PROVE  IInv'
<1>1. /\ TypeOK /\ LeftIsRest /\ PartsInOrder /\ AnswerKnown /\ pc = "agent"
      /\ UNCHANGED <<message, appType, client, left, parts, ctx1, ctx2, posted, fileFailed>>
  BY DEF IInv, AskAgent, job
<1>2. LeftIsRest' /\ PartsInOrder'  BY <1>1, LoopKept
<1>3. content' = ContentOf(answer)  BY DEF AskAgent
<1>4. content' \in {"none", ""} \cup Texts /\ (content' \in Texts => client = appType)
  BY <1>3 DEF ContentOf, AgentAnswers, Texts
<1>5. CASE content' \in {"none", ""}
  <2>1. pc' = "end" /\ failed' = "agent"  BY <1>1, <1>5 DEF AskAgent, GiveUp
  <2>2. TypeOK'  BY <1>1, <1>5, <2>1 DEF TypeOK, Calls
  <2>3. AnswerKnown' /\ FileSettled' /\ AnswerLostOnlyByFeishu'
    BY <1>1, <1>5, <2>1 DEF AnswerKnown, FileSettled, AnswerLostOnlyByFeishu, AfterAnswer, Texts
  <2> QED  BY <1>2, <2>2, <2>3 DEF IInv
<1>6. CASE content' \in Texts
  <2>1. pc' = "accessToken" /\ failed' = failed
    BY <1>1, <1>6 DEF AskAgent, GoTo, Texts
  <2>2. TypeOK'  BY <1>1, <1>6, <2>1 DEF TypeOK, Calls, Texts
  <2>3. AnswerKnown' /\ FileSettled' /\ AnswerLostOnlyByFeishu'
    BY <1>1, <1>4, <1>6, <2>1 DEF AnswerKnown, FileSettled, AnswerLostOnlyByFeishu, AfterAnswer
  <2> QED  BY <1>2, <2>2, <2>3 DEF IInv
<1> QED  BY <1>4, <1>5, <1>6

(* The access token and the steps that prepare the file: nothing is posted *)
(* yet, and a failed file still leads to the text.                         *)
LEMMA BeforeFileStep ==
  ASSUME IInv, AccessToken \/ FileStep
  PROVE  IInv'
<1>1. /\ TypeOK /\ LeftIsRest /\ PartsInOrder /\ AnswerKnown
      /\ UNCHANGED <<message, appType, client, left, parts, ctx1, ctx2, content, posted>>
  BY DEF IInv, AccessToken, FileStep, job
<1>2. LeftIsRest' /\ PartsInOrder'  BY <1>1, LoopKept
<1>3. CASE AccessToken
  <2>1. /\ pc = "accessToken" /\ UNCHANGED fileFailed
        /\ \/ pc' = "fileToken" /\ content = "media" /\ failed' = failed
           \/ pc' = "textReply" /\ content # "media" /\ failed' = failed
           \/ pc' = "end" /\ failed' = "accessToken"
    BY <1>3 DEF AccessToken, GoTo, GiveUp
  <2>2. TypeOK'  BY <1>1, <2>1 DEF TypeOK, Calls
  <2>3. AnswerKnown' /\ FileSettled' /\ AnswerLostOnlyByFeishu'
    BY <1>1, <2>1 DEF AnswerKnown, FileSettled, AnswerLostOnlyByFeishu, AfterAnswer
  <2> QED  BY <1>2, <2>2, <2>3 DEF IInv
<1>4. CASE FileStep
  <2>1. /\ pc \in {"fileToken", "readFile", "upload"} /\ failed' = failed
        /\ \/ pc' \in {"readFile", "upload", "fileReply"} /\ UNCHANGED fileFailed
           \/ pc' = "textReply" /\ fileFailed' = TRUE
    <3>1. CASE pc = "fileToken"  BY <1>4, <3>1 DEF FileStep, GoTo, NextOfFile
    <3>2. CASE pc = "readFile"  BY <1>4, <3>2 DEF FileStep, GoTo, NextOfFile
    <3>3. CASE pc = "upload"  BY <1>4, <3>3 DEF FileStep, GoTo, NextOfFile
    <3> QED  BY <1>4, <3>1, <3>2, <3>3 DEF FileStep
  <2>2. content = "media"  BY <1>1, <2>1 DEF AnswerKnown
  <2>3. TypeOK'
    <3>1. pc' \in Calls /\ fileFailed' \in BOOLEAN  BY <1>1, <2>1 DEF TypeOK, Calls
    <3> QED  BY <1>1, <2>1, <3>1 DEF TypeOK
  <2>4. AnswerKnown' /\ FileSettled' /\ AnswerLostOnlyByFeishu'
    BY <1>1, <2>1, <2>2 DEF AnswerKnown, FileSettled, AnswerLostOnlyByFeishu, AfterAnswer
  <2> QED  BY <1>2, <2>3, <2>4 DEF IInv
<1> QED  BY <1>3, <1>4

(* The file is posted, which takes the job to the text if it fails.        *)
LEMMA FileReplyStep ==
  ASSUME IInv, NEW n \in 0 .. MaxApplied, FileReply(n)
  PROVE  IInv'
<1>1. /\ TypeOK /\ LeftIsRest /\ PartsInOrder /\ AnswerKnown /\ pc = "fileReply"
      /\ pc' = "textReply" /\ Post("file", n)
      /\ (n > 0 /\ UNCHANGED fileFailed) \/ fileFailed' = TRUE
      /\ UNCHANGED <<message, appType, client, left, parts, ctx1, ctx2, content, failed>>
  BY DEF IInv, FileReply, job, GoTo
<1>2. LeftIsRest' /\ PartsInOrder'  BY <1>1, LoopKept
<1>3. n \in Nat /\ "file" \in PostTypes /\ posted \in Seq(PostTypes)
  <2>1. n \in Nat  BY ReplyAssumption
  <2> QED  BY <1>1, <2>1 DEF TypeOK, PostTypes
<1>4. posted' \in Seq(PostTypes) /\ (n > 0 => "file" \in ToSet(posted'))
  BY <1>1, <1>3, PostFacts
<1>5. client = appType /\ content = "media"  BY <1>1 DEF AnswerKnown, AfterAnswer
<1>6. TypeOK'  BY <1>1, <1>4 DEF TypeOK, PostTypes, Calls
<1>7. AnswerKnown' /\ FileSettled' /\ AnswerLostOnlyByFeishu'
  BY <1>1, <1>4, <1>5
  DEF AnswerKnown, FileSettled, AnswerLostOnlyByFeishu, AfterAnswer, Texts
<1> QED  BY <1>2, <1>6, <1>7 DEF IInv

(* The text shows up, or the job fails at it; the file is settled by then. *)
LEMMA TextReplyStep ==
  ASSUME IInv, NEW n \in 0 .. MaxApplied, TextReply(n)
  PROVE  IInv'
<1>1. /\ TypeOK /\ LeftIsRest /\ PartsInOrder /\ AnswerKnown /\ FileSettled /\ pc = "textReply"
      /\ pc' = "end" /\ Post(content, n)
      /\ (n > 0 /\ UNCHANGED failed) \/ failed' = "textReply"
      /\ UNCHANGED <<message, appType, client, left, parts, ctx1, ctx2, content, fileFailed>>
  BY DEF IInv, TextReply, job, GoTo, GiveUp
<1>2. LeftIsRest' /\ PartsInOrder'  BY <1>1, LoopKept
<1>3. client = appType /\ content \in Texts  BY <1>1 DEF AnswerKnown, AfterAnswer
<1>4. n \in Nat /\ content \in PostTypes /\ posted \in Seq(PostTypes)
  <2>1. n \in Nat  BY ReplyAssumption
  <2> QED  BY <1>1, <1>3, <2>1 DEF TypeOK, PostTypes, Texts
<1>5. /\ posted' \in Seq(PostTypes) /\ ToSet(posted) \subseteq ToSet(posted')
      /\ n > 0 => content \in ToSet(posted')
  BY <1>1, <1>4, PostFacts
<1>6. TypeOK'  BY <1>1, <1>5 DEF TypeOK, PostTypes, Calls
<1>7. AnswerKnown' /\ FileSettled'
  BY <1>1, <1>3 DEF AnswerKnown, FileSettled, AfterAnswer
<1>8. AnswerLostOnlyByFeishu'
  BY <1>1, <1>3, <1>5 DEF FileSettled, AnswerLostOnlyByFeishu
<1> QED  BY <1>2, <1>6, <1>7, <1>8 DEF IInv

-----------------------------------------------------------------------------
(***************************************************************************)
(* The invariant and what follows from it.                                 *)
(***************************************************************************)
LEMMA InitIInv == Init => IInv
<1> SUFFICES ASSUME Init  PROVE IInv
  OBVIOUS
<1>1. message \in Seq({"text", "image"}) /\ Len(message) \in Nat
  BY ReplyAssumption, LenProperties DEF Init
<1>2. TypeOK
  <2>1. left \in Seq({"text", "image"}) /\ parts \in Seq(1 .. Len(message))
    BY <1>1, EmptySeq DEF Init
  <2>2. posted \in Seq({"file", "blank", "words", "media"})  BY EmptySeq DEF Init
  <2> QED  BY <2>1, <2>2 DEF Init, TypeOK
<1>3. LeftIsRest  BY <1>1 DEF Init, LeftIsRest, Processed
<1>4. PartsInOrder  BY <1>1 DEF Init, PartsInOrder, Processed
<1>5. AnswerKnown /\ FileSettled /\ AnswerLostOnlyByFeishu
  BY DEF Init, AnswerKnown, FileSettled, AnswerLostOnlyByFeishu, AfterAnswer, Texts
<1> QED  BY <1>2, <1>3, <1>4, <1>5 DEF IInv

(* Every step keeps the invariant.                                         *)
LEMMA NextIInv == IInv /\ [Next]_vars => IInv'
<1>1. ASSUME IInv, Work  PROVE IInv'
  BY <1>1, LoopStep, BeforeAnswerStep, AskAgentStep, BeforeFileStep, FileReplyStep,
     TextReplyStep DEF Work
<1>2. ASSUME IInv, Expire1 \/ Expire2  PROVE IInv'
  BY <1>2, BeforeAnswerStep
<1>3. ASSUME IInv, UNCHANGED vars  PROVE IInv'
  <2>1. LeftIsRest' /\ PartsInOrder'  BY <1>3, LoopKept DEF IInv, vars
  <2>2. TypeOK'  BY <1>3 DEF IInv, TypeOK, vars
  <2>3. AnswerKnown' /\ FileSettled' /\ AnswerLostOnlyByFeishu'
    BY <1>3 DEF IInv, AnswerKnown, FileSettled, AnswerLostOnlyByFeishu, vars
  <2> QED  BY <2>1, <2>2, <2>3 DEF IInv
<1> QED  BY <1>1, <1>2, <1>3 DEF Next, Ended

(* The invariant holds in every state the work can reach.                  *)
THEOREM Invariance == Spec => []IInv
<1> QED  BY InitIInv, NextIInv, PTL DEF Spec

(* The variables keep their types.                                         *)
THEOREM Typing == Spec => []TypeOK
<1>1. IInv => TypeOK  BY DEF IInv
<1> QED  BY <1>1, Invariance, PTL

(* For a message of any length, the agent sees every text and the images   *)
(* that could be had, in order (callback.go:401-447).                      *)
THEOREM AgentSeesOrder == Spec => []AgentSeesMessageInOrder
<1>1. IInv => AgentSeesMessageInOrder
  <2> SUFFICES ASSUME IInv, pc = "agent"  PROVE AgentSeesMessageInOrder
    BY DEF AgentSeesMessageInOrder
  <2>1. message \in Seq({"text", "image"}) /\ parts \in Seq(1 .. Len(message)) /\ left = <<>>
    BY ReplyAssumption DEF IInv, TypeOK, AnswerKnown
  <2>2. DOMAIN message = 1 .. Len(message) /\ DOMAIN parts = 1 .. Len(parts)
        /\ Processed = Len(message)
    BY <2>1, LenProperties, EmptySeq DEF Processed
  <2> QED  BY <2>2 DEF IInv, PartsInOrder, AgentSeesMessageInOrder, ToSet
<1> QED  BY <1>1, Invariance, PTL

(* Nothing is posted for an answer read through a client of another type   *)
(* (agent_http.go:267-276, 326-358).                                       *)
THEOREM PostsNeedMatchingClient == Spec => []RepliesNeedMatchingClient
<1>1. IInv => RepliesNeedMatchingClient
  BY DEF IInv, AnswerKnown, RepliesNeedMatchingClient
<1> QED  BY <1>1, Invariance, PTL

(* No branch of the code drops an answer that has content                  *)
(* (callback.go:365-385).                                                  *)
THEOREM OnlyFeishuLosesAnswers == Spec => []AnswerLostOnlyByFeishu
<1>1. IInv => AnswerLostOnlyByFeishu  BY DEF IInv
<1> QED  BY <1>1, Invariance, PTL
=============================================================================
