------------------------------- MODULE Reply --------------------------------
(***************************************************************************)
(* The work of the inner goroutine for one message (callback.go:274-387):  *)
(* from the agent client it got, over the download of the images and the   *)
(* request to the agent, to the file and the text posted in the chat.  The *)
(* calls to Feishu before the agent's answer share one deadline, those     *)
(* after it another one.  What retry.Do does inside a call is in Retry;    *)
(* here a call succeeds or fails, and may have been applied either way.    *)
(***************************************************************************)
EXTENDS Integers, SequencesExt

CONSTANTS Messages,   \* parsed messages: sequences of "text" and "image"
          MaxApplied  \* how often the server may act on one reply: 3 in the code

ASSUME ReplyAssumption ==
  /\ Messages \subseteq Seq({"text", "image"})
  /\ MaxApplied \in Nat \ {0}

Types == {"ChatCompletions", "OpenResponses"}

VARIABLES message,   \* contentParts
          appType,   \* app.Agent.Type of the job's configuration
          client,    \* the type the cached client was built for, "nil" for none
          pc,        \* the call the goroutine is at
          left,      \* parts not processed yet
          parts,     \* what is sent to the agent: "text" or the image's index
          ctx1,      \* app1Ctx is alive
          ctx2,      \* app2Ctx is alive, once it exists
          content,   \* the reply text: "none" before, then "", "blank", "words" or "media"
          posted,    \* what has appeared in the chat, in order
          fileFailed,\* SendFileMessage has returned an error
          failed     \* history: the call at which the goroutine gave up

vars == <<message, appType, client, pc, left, parts, ctx1, ctx2, content, posted,
          fileFailed, failed>>
job == <<message, appType, client>>

Calls == {"tenantToken", "parts", "agent", "accessToken", "fileToken", "readFile",
          "upload", "fileReply", "textReply"}

Init == /\ message \in Messages /\ appType \in Types /\ client \in Types \cup {"nil"}
        /\ pc = "start" /\ left = message /\ parts = <<>>
        /\ ctx1 = TRUE /\ ctx2 = TRUE
        /\ content = "none" /\ posted = <<>> /\ fileFailed = FALSE /\ failed = "none"

(* A deadline passes.  That of the second context runs from its creation.  *)
Expire1 == /\ pc \in {"tenantToken", "parts"} /\ ctx1 /\ ctx1' = FALSE
           /\ UNCHANGED <<job, pc, left, parts, ctx2, content, posted, fileFailed, failed>>

AfterAnswer == {"accessToken", "fileToken", "readFile", "upload", "fileReply", "textReply"}

Expire2 == /\ pc \in AfterAnswer /\ ctx2 /\ ctx2' = FALSE
           /\ UNCHANGED <<job, pc, left, parts, ctx1, content, posted, fileFailed, failed>>

GoTo(next) == pc' = next /\ UNCHANGED failed
GiveUp == pc' = "end" /\ failed' = pc

(* No client could be built or one is cached that could not. *)
Start == /\ pc = "start"
         /\ IF client = "nil" THEN GiveUp ELSE GoTo("tenantToken")
         /\ UNCHANGED <<job, left, parts, ctx1, ctx2, content, posted, fileFailed>>

(* A call to Feishu succeeds only in time. *)
TenantToken ==
  /\ pc = "tenantToken"
  /\ (ctx1 /\ GoTo("parts")) \/ GiveUp
  /\ UNCHANGED <<job, left, parts, ctx1, ctx2, content, posted, fileFailed>>

(* Mistake: parts are counted from 0. *)
IndexFromZero == Len(message) - Len(left)

(* The loop over the parts: a text is copied, an image downloaded, and     *)
(* left out when the download fails.                                       *)
Index == Len(message) - Len(left) + 1

CopyText ==
  /\ pc = "parts" /\ left # <<>> /\ Head(left) = "text"
  /\ parts' = Append(parts, Index) /\ left' = Tail(left)
  /\ UNCHANGED <<job, pc, ctx1, ctx2, content, posted, fileFailed, failed>>

Download ==
  /\ pc = "parts" /\ left # <<>> /\ Head(left) = "image" /\ ctx1
  /\ parts' = Append(parts, Index) /\ left' = Tail(left)
  /\ UNCHANGED <<job, pc, ctx1, ctx2, content, posted, fileFailed, failed>>

(* Mistakes: a failed download ends the loop, or is tried for ever. *)
SkipRest ==
  /\ pc = "parts" /\ left # <<>> /\ Head(left) = "image"
  /\ left' = <<>>
  /\ UNCHANGED <<job, pc, parts, ctx1, ctx2, content, posted, fileFailed, failed>>
RetryImage == pc = "parts" /\ left # <<>> /\ Head(left) = "image" /\ UNCHANGED vars

SkipImage ==
  /\ pc = "parts" /\ left # <<>> /\ Head(left) = "image"
  /\ left' = Tail(left)
  /\ UNCHANGED <<job, pc, parts, ctx1, ctx2, content, posted, fileFailed, failed>>

PartsDone ==
  /\ pc = "parts" /\ left = <<>>
  /\ GoTo("agent")
  /\ UNCHANGED <<job, left, parts, ctx1, ctx2, content, posted, fileFailed>>

(* Mistake: any client is good for any answer. *)
ContentOfAny(answer) == IF answer = "nothing" THEN "" ELSE answer

(* What an agent may answer: nothing of the assistant, or empty messages,  *)
(* or text, which may name a file.                                         *)
AgentAnswers == {"nothing", "", "words", "media"}

(* What GetContent makes of an agent's answer, "none" if the call fails    *)
(* before any request is made: a client for OpenResponses cannot encode    *)
(* the parts of a chat, and the parser of OpenResponses finds no output in *)
(* the answer to a chat.  In a chat every assistant message is preceded by *)
(* a newline, so that an empty one is not the empty text.                  *)
ContentOf(answer) ==
  IF client # appType THEN (IF appType = "ChatCompletions" THEN "none" ELSE "")
  ELSE IF answer = "nothing" THEN ""
  ELSE IF appType = "ChatCompletions" /\ answer = "" THEN "blank"
  ELSE answer

AskAgent(answer) ==
  /\ pc = "agent"
  /\ content' = ContentOf(answer)
  /\ IF content' \in {"none", ""} THEN GiveUp ELSE GoTo("accessToken")
  /\ UNCHANGED <<job, left, parts, ctx1, ctx2, posted, fileFailed>>

AgentFails ==
  /\ pc = "agent" /\ GiveUp
  /\ UNCHANGED <<job, left, parts, ctx1, ctx2, content, posted, fileFailed>>

AccessToken ==
  /\ pc = "accessToken"
  /\ \/ ctx2 /\ GoTo(IF content = "media" THEN "fileToken" ELSE "textReply")
     \/ GiveUp
  /\ UNCHANGED <<job, left, parts, ctx1, ctx2, content, posted, fileFailed>>

(* SendFileMessage.  After any failure the text is sent all the same, and  *)
(* so it is after success.                                                 *)
NextOfFile == [fileToken |-> "readFile", readFile |-> "upload", upload |-> "fileReply"]

(* Mistake: a failed file ends the job. *)
FileStepReturns ==
  /\ pc \in {"fileToken", "readFile", "upload"}
  /\ \/ GoTo(NextOfFile[pc]) /\ UNCHANGED fileFailed
     \/ GoTo("end") /\ fileFailed' = TRUE
  /\ UNCHANGED <<job, left, parts, ctx1, ctx2, content, posted>>

FileStep ==
  /\ pc \in {"fileToken", "readFile", "upload"}
  /\ \/ (ctx2 \/ pc = "readFile") /\ GoTo(NextOfFile[pc]) /\ UNCHANGED fileFailed
     \/ GoTo("textReply") /\ fileFailed' = TRUE
  /\ UNCHANGED <<job, left, parts, ctx1, ctx2, content, posted>>

(* A reply shows up n times: at least once if the call succeeds, and even  *)
(* if it fails, since an answer may be lost or be a 5xx; never without     *)
(* time.                                                                   *)
Post(what, n) == posted' = posted \o [i \in 1 .. n |-> what]

FileReply(n) ==
  /\ pc = "fileReply" /\ (~ctx2 => n = 0)
  /\ Post("file", n)
  /\ GoTo("textReply")
  /\ \/ n > 0 /\ UNCHANGED fileFailed
     \/ fileFailed' = TRUE
  /\ UNCHANGED <<job, left, parts, ctx1, ctx2, content>>

TextReply(n) ==
  /\ pc = "textReply" /\ (~ctx2 => n = 0)
  /\ Post(content, n)
  /\ (n > 0 /\ GoTo("end")) \/ GiveUp
  /\ UNCHANGED <<job, left, parts, ctx1, ctx2, content, fileFailed>>

Ended == pc = "end" /\ UNCHANGED vars

Work == \/ Start \/ TenantToken \/ CopyText \/ Download \/ SkipImage \/ PartsDone
        \/ \E answer \in AgentAnswers : AskAgent(answer)
        \/ AgentFails \/ AccessToken \/ FileStep
        \/ \E n \in 0 .. MaxApplied : FileReply(n) \/ TextReply(n)

Next == Work \/ Expire1 \/ Expire2 \/ Ended

Spec == Init /\ [][Next]_vars

(* Each call is under a context with a deadline and a client timeout.  The *)
(* one step that has neither is os.ReadFile (client.go:143); that a file   *)
(* can be read to its end is assumed.                                      *)
FairSpec == Spec /\ WF_vars(Work)

-----------------------------------------------------------------------------
TypeOK ==
  /\ message \in Messages /\ appType \in Types /\ client \in Types \cup {"nil"}
  /\ pc \in Calls \cup {"start", "end"}
  /\ left \in Seq({"text", "image"})
  /\ parts \in Seq(1 .. Len(message))
  /\ ctx1 \in BOOLEAN /\ ctx2 \in BOOLEAN
  /\ content \in {"none", "", "blank", "words", "media"}
  /\ posted \in Seq({"file", "blank", "words", "media"})
  /\ fileFailed \in BOOLEAN
  /\ failed \in Calls \cup {"none", "start"}

(* The agent is asked with every text of the message and with images of    *)
(* it, in the order of the message, however the downloads and the deadline *)
(* they share fare (callback.go:401-447).                                  *)
AgentSeesMessageInOrder ==
  pc = "agent" =>
    /\ \A i, j \in DOMAIN parts : i < j => parts[i] < parts[j]
    /\ {i \in DOMAIN message : message[i] = "text"} \subseteq ToSet(parts)

(* A reply is posted only for an answer obtained through a client of the   *)
(* type the job's configuration names: a client cached under an earlier    *)
(* type ends the job in silence (agent_http.go:267-276, 326-358).          *)
RepliesNeedMatchingClient == posted # <<>> => client = appType

(* An answer with content that never shows up in the chat was lost to a    *)
(* failed call to Feishu after it: no branch of the code drops it, a       *)
(* failed file reply in particular does not.  A file that never shows up   *)
(* was lost to a failure on its way (callback.go:365-385).                 *)
AnswerLostOnlyByFeishu ==
  pc = "end" /\ content \in {"blank", "words", "media"} =>
    /\ content \in ToSet(posted) \/ failed \in {"accessToken", "textReply"}
    /\ content = "media" => "file" \in ToSet(posted) \/ fileFailed \/ failed = "accessToken"

(* The job comes to its end, whatever Feishu and the agent do, so long as  *)
(* a file can be read to its end.                                          *)
JobEnds == <>(pc = "end")
=============================================================================
