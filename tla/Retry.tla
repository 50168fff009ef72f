------------------------------- MODULE Retry --------------------------------
(***************************************************************************)
(* One call made through retry.Do (pkg/retry/retry.go) by one of its four  *)
(* users: the agent client's executeWithRetry, and ReplyMessage,           *)
(* UploadMessageResource and DownloadMessageResource of the Feishu client. *)
(* The module follows the call from its first attempt to the return of its *)
(* user, with the context that may expire at any moment, the effect the    *)
(* request has on the server, and the response bodies left open.           *)
(***************************************************************************)
EXTENDS Integers

CONSTANTS Kinds,         \* the users of retry.Do to consider
          AgentRetries,  \* values of max_retries, 0 when it is not configured
          AgentDelays,   \* values of retry_base_delay in etcd, likewise
          Millisecond,   \* what the loader multiplies them by
          DefaultDelay,  \* 100 ms in the code, for the agent by default
          Timeouts,      \* of the callers' contexts, in the same unit
          Width          \* bits of a time.Duration, 64 in the code

(* 2 ^ n, as a function the proofs can unfold. *)
PowerOfTwo[n \in Nat] == IF n = 0 THEN 1 ELSE 2 * PowerOfTwo[n - 1]

(* int64 arithmetic. *)
HalfRange == PowerOfTwo[Width - 1]
Durations == -HalfRange .. HalfRange - 1
Wrap(x) == ((x + HalfRange) % (2 * HalfRange)) - HalfRange

OrDefault(value, default) == IF value = 0 THEN default ELSE value

(* The loader makes a duration of the number in etcd, which may overflow. *)
AgentDelay(d) == OrDefault(Wrap(d * Millisecond), DefaultDelay)

(* A timeout and the first delay are together well below 292 years. *)
ASSUME RetryAssumption ==
  /\ Kinds \subseteq {"agent", "reply", "upload", "download"}
  /\ AgentRetries \subseteq Int /\ AgentDelays \subseteq Int /\ Timeouts \subseteq Nat
  /\ Width \in Nat \ {0} /\ DefaultDelay \in Nat \ {0} /\ Millisecond \in Nat \ {0}
  /\ \A t \in Timeouts :
       /\ t + DefaultDelay \in Durations
       /\ \A d \in AgentDelays : t + AgentDelay(d) \in Durations

VARIABLES kind,        \* who calls
          maxRetries,  \* cfg.MaxRetries
          baseDelay,   \* cfg.BaseDelay
          timeout,     \* of the caller's context
          pc,          \* where the call is
          attempt,     \* the loop variable of Do
          ctxDone,     \* the context has expired
          last,        \* how the last call of fn went, "none" before the first
          result,      \* what Do returned
          verdict,     \* what its user returned
          waited,      \* history: time spent between attempts
          calls,       \* history: how often fn was called
          lateCalls,   \* history: how often after the context had expired
          applied,     \* history: how often the server did what was asked
          refused,     \* history: how many 5xx answers were received
          open         \* response bodies not closed

vars == <<kind, maxRetries, baseDelay, timeout, pc, attempt, ctxDone, last, result,
          verdict, waited, calls, lateCalls, applied, refused, open>>
config == <<kind, maxRetries, baseDelay, timeout>>
outcome == <<last, result, verdict>>
history == <<calls, lateCalls, applied, refused>>

(* How http.Client.Do can end: an error, or a response with some status.   *)
(* "200code" is a 200 with an error code, or a body that does not decode;  *)
(* "4xx" stands for every other status.                                    *)
Answers == {"error", "200", "200code", "429", "4xx", "5xx"}

(* What fn makes of the answer.  A retried reply or upload sends a request *)
(* whose body has been read, so it may well end in an error.               *)
AgentClass(a) == IF a \in {"error", "429", "5xx"} THEN "transient" ELSE "nil"

(* Mistake: a send error is transient for the reply as well. *)
ReplyClassSendErrors(a) == IF a \in {"200", "200code"} THEN "nil"
                           ELSE IF a \in {"error", "5xx"} THEN "transient" ELSE "fatal"

ReplyClass(a) == IF a \in {"200", "200code"} THEN "nil"
                 ELSE IF a = "5xx" THEN "transient" ELSE "fatal"

UploadClass(a) == IF a \in {"200", "200code"} THEN "nil"
                  ELSE IF a \in {"error", "5xx"} THEN "transient" ELSE "fatal"

DownloadClass(a) == IF a \in {"200", "200code"} THEN "nil"
                    ELSE IF a \in {"error", "5xx"} THEN "transient" ELSE "fatal"

Class(k, a) == IF k = "agent" THEN AgentClass(a)
               ELSE IF k = "reply" THEN ReplyClass(a)
               ELSE IF k = "upload" THEN UploadClass(a)
               ELSE DownloadClass(a)

LastErr == IF last = "none" THEN "nil" ELSE Class(kind, last)

(* Mistakes: fn closes every body, or the agent client's closes none. *)
LeavesNoneOpen(k, a) == FALSE
LeavesAgentOpen(k, a) ==
  a # "error" /\ (k \in {"agent", "download"} \/ (k = "upload" /\ Class(k, a) = "nil"))

(* Whether fn leaves the body of the response open: agent client and       *)
(* upload do for what they return, the download always.                    *)
LeavesOpen(k, a) ==
  /\ a # "error"
  /\ k \in {"agent", "upload"} => Class(k, a) = "nil"
  /\ k # "reply"

(* A 200 follows the effect; an error, a 5xx or an unreadable answer may   *)
(* have hidden it.                                                         *)
Effects(a) == IF a = "200" THEN {1}
              ELSE IF a \in {"error", "5xx", "200code"} THEN {0, 1}
              ELSE {0}

(* The shift and the product of the loop. *)
Delay == Wrap(baseDelay * Wrap(PowerOfTwo[attempt - 1]))

Init ==
  /\ kind \in Kinds /\ timeout \in Timeouts
  /\ IF kind = "agent"
       THEN /\ \E n \in AgentRetries : maxRetries = OrDefault(n, 3)
            /\ \E d \in AgentDelays : baseDelay = AgentDelay(d)
       ELSE maxRetries = 2 /\ baseDelay = DefaultDelay
  /\ pc = "loop" /\ attempt = 0 /\ last = "none" /\ result = "none" /\ verdict = "none"
  /\ ctxDone \in BOOLEAN /\ waited = 0
  /\ calls = 0 /\ lateCalls = 0 /\ applied = 0 /\ refused = 0 /\ open = 0

(* The deadline of the caller's context passes. *)
ContextExpires ==
  /\ ~ctxDone /\ ctxDone' = TRUE
  /\ UNCHANGED <<config, pc, attempt, outcome, waited, history, open>>

GoTo(next) == pc' = next /\ UNCHANGED <<config, attempt, outcome, history, open>>

(* The head of the loop; the context is not looked at before attempt 0.    *)
FirstAttempt ==
  /\ pc = "loop" /\ attempt = 0 /\ attempt <= maxRetries
  /\ GoTo("calling") /\ UNCHANGED <<ctxDone, waited>>

EndDo(r) == /\ pc' = "ended" /\ result' = r
            /\ UNCHANGED <<config, attempt, last, verdict, waited, history, open>>

(* Mistake: the last attempt is left out. *)
ExhaustedEarly == pc = "loop" /\ attempt >= maxRetries /\ EndDo(LastErr) /\ UNCHANGED ctxDone

Exhausted == pc = "loop" /\ attempt > maxRetries /\ EndDo(LastErr) /\ UNCHANGED ctxDone

(* BeforeRetry; that of ReplyMessage sleeps without regard to the context. *)
BeforeRetry ==
  /\ pc = "loop" /\ attempt > 0 /\ attempt <= maxRetries
  /\ GoTo(IF kind = "reply" THEN "sleeping" ELSE "selecting")
  /\ UNCHANGED <<ctxDone, waited>>

(* Mistake: the sleeper waits for the context. *)
WakeUpOnCancel ==
  pc = "sleeping" /\ ctxDone /\ GoTo("selecting") /\ UNCHANGED <<ctxDone, waited>>

WakeUp ==
  /\ pc = "sleeping" /\ GoTo("selecting")
  /\ waited' = waited + Delay
  /\ ctxDone' = (ctxDone \/ waited' > timeout)

(* Mistake: the context is not looked at before the wait. *)
EnterWait == pc = "selecting" /\ GoTo("waiting") /\ UNCHANGED <<ctxDone, waited>>

(* The select on ctx.Done and a fresh timer.  On entry an expired context  *)
(* is ready at once, a timer only when the delay is not positive: that the *)
(* goroutine is not stalled for a whole delay between the two is assumed   *)
(* ...                                                                     *)
EnterSelect ==
  pc = "selecting" /\ ~ctxDone /\ GoTo("waiting") /\ UNCHANGED <<ctxDone, waited>>

CancelledAtOnce == pc = "selecting" /\ ctxDone /\ EndDo("ctx") /\ UNCHANGED ctxDone

ElapsedAtOnce ==
  pc = "selecting" /\ Delay <= 0 /\ GoTo("calling") /\ UNCHANGED <<ctxDone, waited>>

(* ... and later whichever comes first, or any of the two.                 *)
CancelledWaiting == pc = "waiting" /\ ctxDone /\ EndDo("ctx") /\ UNCHANGED ctxDone

(* Mistake: the wait goes on past the deadline. *)
ElapsedLate ==
  /\ pc = "waiting" /\ GoTo("calling")
  /\ waited' = IF Delay > 0 THEN waited + Delay ELSE waited
  /\ UNCHANGED ctxDone

(* The timer can be the first only if the delay fits what is left of the   *)
(* timeout; what the calls took is not counted.                            *)
Elapsed ==
  /\ pc = "waiting" /\ Delay <= timeout - waited
  /\ GoTo("calling")
  /\ waited' = IF Delay > 0 THEN waited + Delay ELSE waited
  /\ UNCHANGED ctxDone

DeadlineFirst ==
  /\ pc = "waiting" /\ Delay > timeout - waited /\ ctxDone' = TRUE
  /\ EndDo("ctx")

(* fn is called and answers a; no request gets through with an expired     *)
(* context.                                                                *)
Call(a) ==
  LET class == Class(kind, a)
  IN  /\ pc = "calling"
      /\ ctxDone => a = "error"
      /\ calls' = calls + 1
      /\ lateCalls' = IF ctxDone THEN lateCalls + 1 ELSE lateCalls
      /\ \E e \in Effects(a) : applied' = applied + (IF ctxDone THEN 0 ELSE e)
      /\ refused' = IF a = "5xx" THEN refused + 1 ELSE refused
      /\ open' = IF LeavesOpen(kind, a) THEN open + 1 ELSE open
      /\ last' = a
      /\ IF class = "transient"
           THEN pc' = "loop" /\ attempt' = attempt + 1 /\ UNCHANGED result
           ELSE pc' = "ended" /\ result' = class /\ UNCHANGED attempt
      /\ UNCHANGED <<config, ctxDone, verdict, waited>>

-----------------------------------------------------------------------------
Return(v, bodies) ==
  /\ pc' = "returned" /\ verdict' = v /\ open' = bodies
  /\ UNCHANGED <<config, attempt, ctxDone, last, result, waited, history>>

(* Every user returns the error of Do. *)
ReturnError == pc = "ended" /\ result # "nil" /\ Return("error", open)

(* doCall closes the body, and takes no status but 200.  Reading the body  *)
(* or decoding it may fail.                                                *)
ReturnAgent ==
  /\ pc = "ended" /\ kind = "agent" /\ result = "nil" /\ calls > 0
  /\ (last = "200" /\ Return("ok", open - 1)) \/ Return("error", open - 1)

(* doCall uses the nil response of a call that was never made. *)
Panic ==
  /\ pc = "ended" /\ kind = "agent" /\ result = "nil" /\ calls = 0
  /\ pc' = "panicked"
  /\ UNCHANGED <<config, attempt, ctxDone, outcome, waited, history, open>>

(* Mistake: the code in the body of a 200 is not looked at. *)
ReturnReplyUnread ==
  pc = "ended" /\ kind = "reply" /\ result = "nil" /\ Return("ok", open)

(* The body has been read and closed by fn; its code decides. *)
ReturnReply ==
  /\ pc = "ended" /\ kind = "reply" /\ result = "nil"
  /\ Return(IF last = "200" THEN "ok" ELSE "error", open)

ReturnUpload ==
  /\ pc = "ended" /\ kind = "upload" /\ result = "nil"
  /\ Return(IF last = "200" THEN "ok" ELSE "error", open - 1)

(* The body of a download is the file, and stays open when reading fails.  *)
ReturnDownload ==
  /\ pc = "ended" /\ kind = "download" /\ result = "nil"
  /\ Return("ok", open - 1) \/ Return("error", open)

Ended == pc \in {"returned", "panicked"} /\ UNCHANGED vars

CallerStep == \/ FirstAttempt \/ Exhausted \/ BeforeRetry \/ WakeUp
              \/ EnterSelect \/ CancelledAtOnce \/ ElapsedAtOnce
              \/ CancelledWaiting \/ Elapsed \/ DeadlineFirst
              \/ \E a \in Answers : Call(a)
              \/ ReturnError \/ ReturnAgent \/ Panic \/ ReturnReply
              \/ ReturnUpload \/ ReturnDownload

Next == CallerStep \/ ContextExpires \/ Ended

Spec == Init /\ [][Next]_vars

(* Timers fire, and http.Client has a timeout, so every call of fn ends.   *)
FairSpec == Spec /\ WF_vars(CallerStep)

-----------------------------------------------------------------------------
TypeOK ==
  /\ kind \in Kinds /\ maxRetries \in Int /\ baseDelay \in Durations
  /\ timeout \in Timeouts /\ waited \in Nat
  /\ pc \in {"loop", "sleeping", "selecting", "waiting", "calling", "ended",
             "returned", "panicked"}
  /\ attempt \in Nat /\ ctxDone \in BOOLEAN
  /\ last \in Answers \cup {"none"}
  /\ result \in {"none", "nil", "ctx", "transient", "fatal"}
  /\ verdict \in {"none", "ok", "error"}
  /\ calls \in Nat /\ lateCalls \in Nat /\ applied \in Nat /\ refused \in Nat
  /\ open \in Nat

(* The answer the user acts upon is that of the last request: Do reports   *)
(* success only if fn succeeded, and a transient error only after all of   *)
(* its MaxRetries + 1 attempts (retry.go:21-46).  This is for a count of   *)
(* retries that is not negative.  Moreover a reply or an upload that is    *)
(* reported as done was done by the server, which may answer 200 and       *)
(* refuse it in the body (client.go:104-122, 308-335).                     *)
ResultIsEarned ==
  /\ maxRetries >= 0 =>
       /\ result = "nil" => calls > 0 /\ LastErr = "nil"
       /\ result = "transient" => calls = maxRetries + 1 /\ LastErr = "transient"
       /\ calls <= maxRetries + 1
  /\ kind \in {"reply", "upload"} /\ verdict = "ok" => applied > 0

(* The delays double and never overflow, however many retries are          *)
(* configured: the context's deadline ends the loop first, so long as the  *)
(* base delay is positive (retry.go:25).                                   *)
DelaysDouble ==
  baseDelay > 0 /\ pc \in {"sleeping", "selecting", "waiting"} =>
    Delay = baseDelay * PowerOfTwo[attempt - 1]

(* "only the successful response is returned to the caller": the agent     *)
(* client's caller gets a response whenever it gets no error.  With a      *)
(* negative max_retries it does not, and doCall panics on the nil response *)
(* (agent_http.go:118-122, 153-155).                                       *)
SuccessHasResponse == result = "nil" => calls > 0

(* Once the context has expired, at most one more request is tried, unless *)
(* the delay is not positive, when the select may go on picking the timer  *)
(* (retry.go:29-33).                                                       *)
AtMostOneLateCall == baseDelay > 0 => lateCalls <= 1

(* A reply the user sees more than once was posted again after a 5xx; a    *)
(* lost answer to a reply is never retried, since a send error is not      *)
(* transient there (client.go:87-102).                                     *)
RepliesRepeatOnlyAfter5xx == kind = "reply" => applied <= 1 + refused

(* A call of the agent, a reply or an upload that has returned leaves no   *)
(* response body open, whatever mix of answers it got; a download may      *)
(* leave those of all its attempts but the one it takes the data of        *)
(* (agent_http.go:122, 175; client.go:91, 302, 311, 354-376).              *)
BodiesClosed ==
  pc = "returned" =>
    open <= IF kind # "download" THEN 0 ELSE IF verdict = "ok" THEN calls - 1 ELSE calls

(* Every call comes back to its user, whatever the server answers and      *)
(* whenever the context expires.                                           *)
Returns == <>(pc \in {"returned", "panicked"})
=============================================================================
