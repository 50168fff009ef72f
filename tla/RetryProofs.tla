---------------------------- MODULE RetryProofs -----------------------------
(***************************************************************************)
(* Proofs about one call of retry.Do, for every width of a duration, every *)
(* number of retries and base delay an operator may configure, and every   *)
(* timeout that leaves room for one more delay.                            *)
(***************************************************************************)
EXTENDS Retry, WellFoundedInduction, TLAPS

-----------------------------------------------------------------------------
(***************************************************************************)
(* Powers of two.  The theorems on induction of the library take a         *)
(* predicate, which the provers cannot supply; that a set of numbers has a *)
(* least member is the same thing without one.                             *)
(***************************************************************************)
(* Every nonempty set of naturals has a least member.                      *)
LEMMA LeastMember ==
  ASSUME NEW T, T \subseteq Nat, T # {}
  PROVE  \E x \in T : \A y \in T : x <= y
<1>1. IsWellFoundedOn(OpToRel(<, Nat), Nat)
  BY NatLessThanWellFounded
<1>2. PICK x \in T : \A y \in T : <<y, x>> \notin OpToRel(<, Nat)
  BY <1>1, WFMin
<1>3. \A y \in T : ~(y < x)  BY <1>2 DEF OpToRel
<1> QED  BY <1>3

(* PowerOfTwo satisfies its recursive equation: partial solutions exist up *)
(* to every n, they agree, and so make up a function on all of Nat.        *)
LEMMA PowerDef ==
  PowerOfTwo = [n \in Nat |-> IF n = 0 THEN 1 ELSE 2 * PowerOfTwo[n - 1]]
<1> DEFINE Approx(n) == {g \in [0 .. n -> Nat] : g[0] = 1 /\ \A i \in 1 .. n : g[i] = 2 * g[i - 1]}
<1>1. ASSUME NEW n \in Nat PROVE Approx(n) # {}
  <2> DEFINE T == {k \in Nat : Approx(k) = {}}
  <2> HIDE DEF Approx
  <2> SUFFICES ASSUME T # {} PROVE FALSE  OBVIOUS
  <2>1. PICK k \in T : \A y \in T : k <= y  BY LeastMember
  <2>2. k # 0
    <3>1. [i \in 0 .. 0 |-> 1] \in Approx(0)  BY DEF Approx
    <3> QED  BY <3>1
  <2>3. PICK g : g \in Approx(k - 1)
    <3>1. k - 1 \in Nat /\ k - 1 \notin T  BY <2>1, <2>2
    <3> QED  BY <3>1
  <2>4. PICK h : h = [i \in 0 .. k |-> IF i = k THEN 2 * g[k - 1] ELSE g[i]]  OBVIOUS
  <2>5. h \in Approx(k)
    <3>1. /\ k \in Nat /\ g \in [0 .. k - 1 -> Nat] /\ g[0] = 1 
          /\ \A i \in 1 .. k - 1 : g[i] = 2 * g[i - 1]
      BY <2>3 DEF Approx
    <3>2. h \in [0 .. k -> Nat]  BY <2>2, <2>4, <3>1
    <3>3. h[0] = 1 /\ \A i \in 1 .. k : h[i] = 2 * h[i - 1]  BY <2>2, <2>4, <3>1
    <3> QED  BY <3>2, <3>3 DEF Approx
  <2> QED  BY <2>5
<1>2. ASSUME NEW m \in Nat, NEW n \in Nat, NEW g \in Approx(m), NEW h \in Approx(n), NEW i \in Nat,
             i <= m, i <= n
      PROVE  g[i] = h[i]
  <2> DEFINE T == {k \in Nat : k <= m /\ k <= n /\ g[k] # h[k]}
  <2> SUFFICES ASSUME T # {} PROVE FALSE  BY <1>2
  <2>1. PICK k \in T : \A y \in T : k <= y  BY LeastMember
  <2>2. k # 0  OBVIOUS
  <2>3. k - 1 \in Nat /\ g[k - 1] = h[k - 1]  BY <2>1, <2>2
  <2> QED  BY <2>2, <2>3
<1> DEFINE approx(n) == CHOOSE g : g \in Approx(n)
           f == [n \in Nat |-> approx(n)[n]]
<1>3. ASSUME NEW n \in Nat PROVE approx(n) \in Approx(n)
  BY <1>1
<1> HIDE DEF approx
<1>4. ASSUME NEW n \in Nat PROVE f[n] = IF n = 0 THEN 1 ELSE 2 * f[n - 1]
  <2>1. CASE n = 0  BY <2>1, <1>3
  <2>2. CASE n # 0
    <3>1. n - 1 \in Nat /\ approx(n) \in Approx(n) /\ approx(n - 1) \in Approx(n - 1)
      BY <2>2, <1>3
    <3>2. approx(n)[n] = 2 * approx(n)[n - 1]  BY <2>2, <3>1
    <3>3. n - 1 <= n /\ n - 1 <= n - 1  OBVIOUS
    <3> HIDE DEF Approx
    <3>4. approx(n)[n - 1] = approx(n - 1)[n - 1]  BY <1>2, <3>1, <3>3
    <3> QED  BY <2>2, <3>1, <3>2, <3>4
  <2> QED  BY <2>1, <2>2
<1>5. f = [n \in Nat |-> IF n = 0 THEN 1 ELSE 2 * f[n - 1]]
  <2> HIDE DEF f
  <2>1. \A n \in Nat : f[n] = IF n = 0 THEN 1 ELSE 2 * f[n - 1]  BY <1>4
  <2>2. f = [n \in Nat |-> f[n]]  BY DEF f
  <2> QED  BY <2>1, <2>2
<1> HIDE DEF f
<1> QED  BY <1>5 DEF PowerOfTwo

(* The equation as it is used: one step of doubling.                       *)
LEMMA PowerStep ==
  ASSUME NEW n \in Nat
  PROVE  PowerOfTwo[0] = 1 /\ PowerOfTwo[n + 1] = 2 * PowerOfTwo[n]
  BY PowerDef

(* Powers of two are positive numbers.                                     *)
LEMMA PowerType == ASSUME NEW n \in Nat PROVE PowerOfTwo[n] \in Nat \ {0}
<1> DEFINE T == {k \in Nat : PowerOfTwo[k] \notin Nat \ {0}}
<1> SUFFICES ASSUME T # {} PROVE FALSE  OBVIOUS
<1>1. PICK k \in T : \A y \in T : k <= y  BY LeastMember
<1>2. k # 0  BY PowerDef
<1>3. k - 1 \in Nat /\ PowerOfTwo[k - 1] \in Nat \ {0}  BY <1>1, <1>2
<1>4. PowerOfTwo[k] = 2 * PowerOfTwo[k - 1]  BY <1>3, PowerStep
<1> QED  BY <1>3, <1>4

-----------------------------------------------------------------------------
(***************************************************************************)
(* int64 arithmetic at its width.                                          *)
(***************************************************************************)
LEMMA HalfRangeType == HalfRange \in Nat \ {0}
  BY RetryAssumption, PowerType DEF HalfRange

(* A result in the range is what it would be with unbounded numbers.       *)
LEMMA WrapInRange == ASSUME NEW x \in Durations PROVE Wrap(x) = x
<1>1. HalfRange \in Nat \ {0} /\ x \in Int  BY HalfRangeType DEF Durations
<1>2. x + HalfRange \in Nat /\ x + HalfRange < 2 * HalfRange
  BY <1>1, HalfRangeType DEF Durations
<1>3. (x + HalfRange) % (2 * HalfRange) = x + HalfRange  BY <1>1, <1>2
<1> QED  BY <1>1, <1>3 DEF Wrap

(* Any other result is brought into the range.                             *)
LEMMA WrapType == ASSUME NEW x \in Int PROVE Wrap(x) \in Durations
<1>1. HalfRange \in Nat \ {0}  BY HalfRangeType
<1>2. (x + HalfRange) % (2 * HalfRange) \in 0 .. 2 * HalfRange - 1  BY <1>1
<1> QED  BY <1>1, <1>2 DEF Wrap, Durations
-----------------------------------------------------------------------------
(***************************************************************************)
(* The inductive invariant, in the order in which its parts rest on each   *)
(* other.                                                                  *)
(***************************************************************************)
Running == {"loop", "sleeping", "selecting", "waiting", "calling"}
BetweenCalls == {"sleeping", "selecting", "waiting"}

(* What is never changed, and what has a type whatever happens.            *)
Shape ==
  /\ kind \in Kinds /\ maxRetries \in Int /\ baseDelay \in Durations
  /\ timeout \in Timeouts /\ baseDelay + timeout < HalfRange
  /\ kind # "agent" => maxRetries = 2 /\ baseDelay > 0
  /\ pc \in Running \cup {"ended", "returned", "panicked"}
  /\ attempt \in Nat /\ ctxDone \in BOOLEAN
  /\ last \in Answers \cup {"none"}
  /\ result \in {"none", "nil", "ctx", "transient", "fatal"}
  /\ verdict \in {"none", "ok", "error"}
  /\ waited \in Int /\ open \in Int
  /\ calls \in Nat /\ lateCalls \in Nat /\ applied \in Nat /\ refused \in Nat

(* What the loop variable and the last answer say at each point.           *)
Control ==
  /\ pc = "sleeping" => kind = "reply"
  /\ pc \in BetweenCalls => attempt > 0
  /\ pc \in BetweenCalls \cup {"calling"} => attempt <= maxRetries
  /\ attempt > 0 => attempt <= maxRetries + 1
  /\ pc \in Running =>
       /\ result = "none" /\ verdict = "none" /\ calls = attempt
       /\ LastErr = IF attempt = 0 THEN "nil" ELSE "transient"
       /\ last = "none" <=> attempt = 0

(* The time spent waiting pays for the next delay: it has the sum of the   *)
(* earlier ones, which is one base delay short of the next, and fits the   *)
(* timeout.                                                                *)
Pace ==
  /\ waited >= 0
  /\ baseDelay > 0 /\ pc \in BetweenCalls \cup {"loop"} /\ attempt > 0 =>
       /\ baseDelay * PowerOfTwo[attempt - 1] <= waited + baseDelay
       /\ baseDelay * PowerOfTwo[attempt - 1] <= timeout + baseDelay
  /\ baseDelay > 0 /\ pc = "calling" =>
       baseDelay * PowerOfTwo[attempt] <= waited + baseDelay
  /\ kind # "reply" \/ pc \in {"loop", "calling"} => waited <= timeout

(* A request tried after the deadline is the last one.                     *)
LateCall ==
  baseDelay > 0 =>
    \/ lateCalls = 0
    \/ /\ lateCalls = 1 /\ ctxDone /\ pc \notin {"waiting", "calling"}
       /\ pc = "loop" => attempt > 0

(* What has been counted while the call runs, and how it ended.            *)
Earned ==
  /\ pc \in Running /\ kind = "reply" => applied <= refused
  /\ kind = "reply" => applied <= 1 + refused
  /\ last = "200" => applied > 0
  /\ pc \notin Running =>
       /\ calls = 0 => maxRetries < 0
       /\ result # "none"
       /\ result = "nil" => last = "none" \/ LastErr = "nil"
       /\ last = "none" <=> calls = 0
       /\ maxRetries >= 0 => calls <= maxRetries + 1
       /\ result = "transient" => calls = maxRetries + 1 /\ LastErr = "transient"
  /\ kind \in {"reply", "upload"} /\ verdict = "ok" => last = "200"

(* Response bodies left open, before and after the loop ends.              *)
Bodies ==
  /\ kind # "download" =>
       /\ pc \in Running \cup {"returned"} => open = 0
       /\ pc = "ended" => open = IF kind # "reply" /\ result = "nil" /\ calls > 0 THEN 1 ELSE 0
       /\ pc = "panicked" => open = 0
  /\ kind = "download" =>
       /\ 0 <= open /\ open <= calls
       /\ pc = "ended" /\ result = "nil" => open > 0
       /\ pc = "returned" /\ verdict = "ok" => open < calls

IInv == Shape /\ Control /\ Pace /\ LateCall /\ Earned /\ Bodies

(* A delay is a number, whatever it overflowed from.                       *)
LEMMA DelayType == ASSUME Shape, attempt > 0 PROVE Delay \in Durations /\ Delay \in Int
<1>1. PowerOfTwo[attempt - 1] \in Int  BY PowerType DEF Shape
<1>2. Wrap(PowerOfTwo[attempt - 1]) \in Int  BY <1>1, WrapType DEF Durations
<1>3. baseDelay * Wrap(PowerOfTwo[attempt - 1]) \in Int  BY <1>2 DEF Shape, Durations
<1> QED  BY <1>3, WrapType DEF Delay, Durations

(* A base delay paid for does not overflow: neither the shift nor the      *)
(* product does.                                                           *)
LEMMA DelayPaid ==
  ASSUME Shape, Pace, baseDelay > 0, pc \in BetweenCalls, attempt > 0
  PROVE  Delay = baseDelay * PowerOfTwo[attempt - 1] /\ Delay > 0
<1> DEFINE p == PowerOfTwo[attempt - 1]
<1>1. p \in Nat \ {0}  BY PowerType DEF Shape
<1>2. baseDelay \in Nat /\ timeout \in Nat /\ HalfRange \in Nat
  BY RetryAssumption, HalfRangeType DEF Shape, Durations
<1> HIDE DEF p
<1>3. p <= baseDelay * p /\ 0 < baseDelay * p  BY <1>1, <1>2
<1>4. baseDelay * p <= timeout + baseDelay  BY DEF Pace, p
<1>5. baseDelay * p < HalfRange  BY <1>1, <1>2, <1>4 DEF Shape
<1>6. p \in Durations /\ baseDelay * p \in Durations  BY <1>1, <1>2, <1>3, <1>5 DEF Durations
<1> QED  BY <1>3, <1>6, WrapInRange DEF Delay, p

-----------------------------------------------------------------------------
(***************************************************************************)
(* The initial states.                                                     *)
(***************************************************************************)
LEMMA InitIInv == Init => IInv
<1> SUFFICES ASSUME Init PROVE IInv  OBVIOUS
<1>1. /\ kind \in Kinds /\ timeout \in Timeouts /\ pc = "loop" /\ attempt = 0
      /\ last = "none" /\ result = "none" /\ verdict = "none" /\ waited = 0
      /\ calls = 0 /\ lateCalls = 0 /\ applied = 0 /\ refused = 0 /\ open = 0
      /\ ctxDone \in BOOLEAN
  BY DEF Init
<1>2. HalfRange \in Nat \ {0} /\ timeout \in Nat
  BY <1>1, RetryAssumption, HalfRangeType
<1>3. /\ maxRetries \in Int /\ baseDelay \in Durations /\ baseDelay + timeout < HalfRange
      /\ kind # "agent" => maxRetries = 2 /\ baseDelay > 0
  <2>1. CASE kind = "agent"
    <3>1. PICK n \in AgentRetries : maxRetries = OrDefault(n, 3)  BY <2>1 DEF Init
    <3>2. PICK d \in AgentDelays : baseDelay = AgentDelay(d)  BY <2>1 DEF Init
    <3>3. maxRetries \in Int  BY <3>1, RetryAssumption DEF OrDefault
    <3>4. timeout + AgentDelay(d) \in Durations /\ timeout + DefaultDelay \in Durations
      BY <1>1, RetryAssumption
    <3>5. Wrap(d * Millisecond) \in Durations  BY RetryAssumption, WrapType
    <3>6. DefaultDelay \in Durations  BY <1>2, <3>4, RetryAssumption DEF Durations
    <3>7. baseDelay \in Durations  BY <3>2, <3>5, <3>6 DEF AgentDelay, OrDefault
    <3> QED  BY <1>2, <2>1, <3>2, <3>3, <3>4, <3>7 DEF Durations
  <2>2. CASE kind # "agent"
    <3>1. maxRetries = 2 /\ baseDelay = DefaultDelay  BY <2>2 DEF Init
    <3>2. timeout + DefaultDelay \in Durations  BY <1>1, RetryAssumption
    <3> QED  BY <1>2, <2>2, <3>1, <3>2, RetryAssumption DEF Durations
  <2> QED  BY <2>1, <2>2
<1>4. Shape  BY <1>1, <1>3 DEF Shape, Running
<1>5. Control  BY <1>1 DEF Control, BetweenCalls, LastErr
<1>6. Pace  BY <1>1, <1>2 DEF Pace, BetweenCalls
<1>7. LateCall /\ Earned /\ Bodies  BY <1>1 DEF LateCall, Earned, Bodies, Running
<1> QED  BY <1>4, <1>5, <1>6, <1>7 DEF IInv

-----------------------------------------------------------------------------
(***************************************************************************)
(* The steps, for each part of the invariant; the cases are the actions in *)
(* the order of CallerStep.                                                *)
(***************************************************************************)
(* Every classification is total.                                          *)
LEMMA ClassType ==
  ASSUME Shape, NEW a \in Answers
  PROVE  /\ Class(kind, a) \in {"nil", "transient", "fatal"}
         /\ kind = "reply" /\ Class(kind, a) = "transient" => a = "5xx"
         /\ kind = "reply" /\ a = "5xx" => Class(kind, a) = "transient"
         /\ Class(kind, a) = "nil" => a # "error"
         /\ a = "200" => Class(kind, a) = "nil"
  BY RetryAssumption
  DEF Shape, Answers, Class, AgentClass, ReplyClass, UploadClass, DownloadClass

(* The step of what has its type whatever happens.                         *)
LEMMA ShapeStep == ASSUME IInv, [Next]_vars PROVE Shape'
<1> USE DEF IInv, Shape, Running, config, outcome, history, GoTo, EndDo, Return
<1>1. CASE FirstAttempt \/ BeforeRetry \/ EnterSelect \/ ElapsedAtOnce
  BY <1>1 DEF FirstAttempt, BeforeRetry, EnterSelect, ElapsedAtOnce
<1>2. CASE Exhausted \/ CancelledAtOnce \/ CancelledWaiting \/ DeadlineFirst
  <2>1. LastErr \in {"nil", "transient", "fatal"}
    BY ClassType DEF LastErr
  <2> QED  BY <1>2, <2>1 DEF Exhausted, CancelledAtOnce, CancelledWaiting, DeadlineFirst
<1>3. CASE WakeUp \/ Elapsed
  <2>1. Delay \in Int  BY <1>3, DelayType DEF WakeUp, Elapsed, Control, BetweenCalls
  <2>2. ctxDone' \in BOOLEAN  BY <1>3, Zenon DEF WakeUp, Elapsed
  <2>3. waited' \in Int /\ pc' \in {"selecting", "calling"}  BY <1>3, <2>1 DEF WakeUp, Elapsed
  <2> QED  BY <1>3, <2>2, <2>3 DEF WakeUp, Elapsed
<1>4. ASSUME NEW a \in Answers, Call(a) PROVE Shape'
  <2>1. Class(kind, a) \in {"nil", "transient", "fatal"}  BY ClassType
  <2>2. applied' \in Nat
    <3>1. \A e \in Effects(a) : e \in Nat  BY DEF Effects, Answers
    <3> QED  BY <1>4, <3>1 DEF Call
  <2> QED  BY <1>4, <2>1, <2>2 DEF Call
<1>5. CASE ReturnError \/ ReturnAgent \/ Panic \/ ReturnReply \/ ReturnUpload \/ ReturnDownload
  BY <1>5 DEF ReturnError, ReturnAgent, Panic, ReturnReply, ReturnUpload, ReturnDownload
<1>6. CASE ContextExpires \/ Ended \/ UNCHANGED vars
  BY <1>6 DEF ContextExpires, Ended, vars
<1> QED  BY <1>1, <1>2, <1>3, <1>4, <1>5, <1>6 DEF Next, CallerStep

(* The step of what is known at each place of the loop.                    *)
LEMMA ControlStep == ASSUME IInv, [Next]_vars PROVE Control'
<1> USE DEF IInv, Shape, Control, Running, BetweenCalls, LastErr, config, outcome, history,
            GoTo, EndDo, Return
<1>1. CASE FirstAttempt \/ BeforeRetry \/ EnterSelect \/ ElapsedAtOnce
  BY <1>1 DEF FirstAttempt, BeforeRetry, EnterSelect, ElapsedAtOnce
<1>2. CASE Exhausted \/ CancelledAtOnce \/ CancelledWaiting \/ DeadlineFirst
  BY <1>2 DEF Exhausted, CancelledAtOnce, CancelledWaiting, DeadlineFirst
<1>3. CASE WakeUp \/ Elapsed
  BY <1>3 DEF WakeUp, Elapsed
<1>4. ASSUME NEW a \in Answers, Call(a) PROVE Control'
  <2>1. a # "none" /\ last' = a /\ UNCHANGED kind /\ calls' = calls + 1
    BY <1>4 DEF Call, Answers
  <2>2. CASE Class(kind, a) = "transient"
    <3>1. pc' = "loop" /\ attempt' = attempt + 1 /\ UNCHANGED <<result, verdict, maxRetries>>
      BY <1>4, <2>2 DEF Call
    <3>2. LastErr' = "transient"  BY <2>1, <2>2
    <3>3. calls = attempt /\ result = "none" /\ verdict = "none" /\ attempt <= maxRetries
      BY <1>4 DEF Call
    <3> QED  BY <2>1, <3>1, <3>2, <3>3
  <2>3. CASE Class(kind, a) # "transient"
    <3>1. pc' = "ended" /\ UNCHANGED <<attempt, maxRetries>>  BY <1>4, <2>3 DEF Call
    <3> QED  BY <3>1
  <2> QED  BY <2>2, <2>3
<1>5. CASE ReturnError \/ ReturnAgent \/ Panic \/ ReturnReply \/ ReturnUpload \/ ReturnDownload
  BY <1>5 DEF ReturnError, ReturnAgent, Panic, ReturnReply, ReturnUpload, ReturnDownload
<1>6. CASE ContextExpires \/ Ended \/ UNCHANGED vars
  BY <1>6 DEF ContextExpires, Ended, vars
<1> QED  BY <1>1, <1>2, <1>3, <1>4, <1>5, <1>6 DEF Next, CallerStep

(* The step of the delays and of the time they take.                       *)
LEMMA PaceStep == ASSUME IInv, [Next]_vars PROVE Pace'
<1> USE DEF IInv, Running, BetweenCalls, config, outcome, history, GoTo, EndDo, Return
<1>0. /\ baseDelay \in Int /\ timeout \in Nat /\ waited \in Int /\ attempt \in Nat
      /\ PowerOfTwo[attempt] \in Nat \ {0}
      /\ attempt > 0 => /\ PowerOfTwo[attempt - 1] \in Nat \ {0}
                        /\ PowerOfTwo[attempt] = 2 * PowerOfTwo[attempt - 1]
  <2>1. attempt > 0 => attempt - 1 \in Nat /\ (attempt - 1) + 1 = attempt  BY DEF Shape
  <2> QED  BY <2>1, RetryAssumption, PowerType, PowerStep DEF Shape, Durations
<1>1. CASE FirstAttempt
  <2>1. PowerOfTwo[attempt] = 1 /\ attempt = 0  BY <1>1, PowerStep DEF FirstAttempt
  <2> QED  BY <1>0, <1>1, <2>1 DEF FirstAttempt, Pace
<1>2. CASE BeforeRetry \/ EnterSelect
  BY <1>2 DEF BeforeRetry, EnterSelect, Pace
<1>3. CASE Exhausted \/ CancelledAtOnce \/ CancelledWaiting \/ DeadlineFirst
  BY <1>3 DEF Exhausted, CancelledAtOnce, CancelledWaiting, DeadlineFirst, Pace
<1>4. CASE WakeUp
  <2>1. baseDelay > 0 /\ attempt > 0  BY <1>4 DEF WakeUp, Control, Shape
  <2>2. Delay > 0 /\ Delay \in Int  BY <1>4, <2>1, DelayPaid, DelayType DEF WakeUp
  <2>3. /\ baseDelay * PowerOfTwo[attempt - 1] <= waited + baseDelay
        /\ baseDelay * PowerOfTwo[attempt - 1] <= timeout + baseDelay
        /\ waited >= 0
    BY <1>4, <2>1 DEF WakeUp, Pace
  <2>4. baseDelay * PowerOfTwo[attempt - 1] \in Int  BY <1>0, <2>1
  <2>5. /\ pc' = "selecting" /\ waited' = waited + Delay /\ kind' = "reply"
        /\ UNCHANGED <<baseDelay, attempt, timeout>>
    BY <1>4 DEF WakeUp, Control
  <2>6. waited' >= 0 /\ baseDelay * PowerOfTwo[attempt - 1] <= waited' + baseDelay
    BY <1>0, <2>2, <2>3, <2>4, <2>5
  <2> QED  BY <2>3, <2>5, <2>6 DEF Pace
<1>5. CASE Elapsed
  <2>1. attempt > 0 /\ Delay \in Int /\ waited >= 0
    BY <1>5, DelayType DEF Elapsed, Control, Pace
  <2>2. pc' = "calling" /\ UNCHANGED <<kind, baseDelay, attempt, timeout>>  BY <1>5 DEF Elapsed
  <2>3. waited' = IF Delay > 0 THEN waited + Delay ELSE waited  BY <1>5 DEF Elapsed
  <2>4. waited' >= 0  BY <1>0, <2>1, <2>3
  <2>5. waited' <= timeout
    <3>1. Delay <= timeout - waited  BY <1>5 DEF Elapsed
    <3>2. CASE Delay > 0  BY <1>0, <2>1, <2>3, <3>1, <3>2
    <3>3. CASE ~(Delay > 0)
      <4>1. baseDelay <= 0  BY <1>0, <1>5, <2>1, <3>3, DelayPaid DEF Elapsed
      <4>2. waited' = waited /\ kind # "reply"  BY <2>3, <3>3, <4>1, <1>0 DEF Shape
      <4> QED  BY <4>2 DEF Pace
    <3> QED  BY <3>2, <3>3
  <2>6. ASSUME baseDelay > 0 PROVE baseDelay * PowerOfTwo[attempt] <= waited' + baseDelay
    <3>1. Delay = baseDelay * PowerOfTwo[attempt - 1] /\ Delay > 0
      BY <1>5, <2>1, <2>6, DelayPaid DEF Elapsed
    <3>2. baseDelay * PowerOfTwo[attempt - 1] <= waited + baseDelay
      BY <1>5, <2>1, <2>6 DEF Elapsed, Pace
    <3>3. baseDelay * PowerOfTwo[attempt] = 2 * (baseDelay * PowerOfTwo[attempt - 1])
      BY <1>0, <2>1
    <3>4. waited' = waited + Delay  BY <2>3, <3>1
    <3> QED  BY <1>0, <2>1, <3>1, <3>2, <3>3, <3>4
  <2> QED  BY <2>2, <2>4, <2>5, <2>6 DEF Pace
<1>6. CASE ElapsedAtOnce
  <2>1. attempt > 0 /\ Delay \in Int  BY <1>6, DelayType DEF ElapsedAtOnce, Control
  <2>2. ~(baseDelay > 0)  BY <1>6, <2>1, DelayPaid DEF ElapsedAtOnce
  <2>3. kind # "reply" /\ waited <= timeout  BY <2>2 DEF Pace, Shape
  <2>4. pc' = "calling" /\ UNCHANGED <<kind, baseDelay, attempt, timeout, waited>>
    BY <1>6 DEF ElapsedAtOnce
  <2> QED  BY <2>2, <2>3, <2>4 DEF Pace
<1>7. ASSUME NEW a \in Answers, Call(a) PROVE Pace'
  <2>1. /\ pc = "calling" /\ UNCHANGED <<baseDelay, waited, timeout>>
        /\ (pc' = "loop" /\ attempt' = attempt + 1) \/ pc' = "ended"
    BY <1>7 DEF Call
  <2>2. baseDelay > 0 => baseDelay * PowerOfTwo[attempt] <= waited + baseDelay  BY <2>1 DEF Pace
  <2>3. waited >= 0 /\ waited <= timeout  BY <2>1 DEF Pace
  <2>4. baseDelay * PowerOfTwo[attempt] \in Int  BY <1>0
  <2>5. baseDelay > 0 => baseDelay * PowerOfTwo[attempt] <= timeout + baseDelay
    BY <1>0, <2>2, <2>3, <2>4
  <2>6. CASE attempt' = attempt + 1
    <3>1. attempt' - 1 = attempt  BY <1>0, <2>6
    <3> QED  BY <2>1, <2>2, <2>3, <2>5, <3>1 DEF Pace
  <2>7. CASE pc' = "ended"  BY <2>1, <2>3, <2>7 DEF Pace
  <2> QED  BY <2>1, <2>6, <2>7
<1>8. CASE ReturnError \/ ReturnAgent \/ Panic \/ ReturnReply \/ ReturnUpload \/ ReturnDownload
  BY <1>8 DEF ReturnError, ReturnAgent, Panic, ReturnReply, ReturnUpload, ReturnDownload, Pace
<1>9. CASE ContextExpires \/ Ended \/ UNCHANGED vars
  BY <1>9 DEF ContextExpires, Ended, vars, Pace
<1> QED
  BY <1>1, <1>2, <1>3, <1>4, <1>5, <1>6, <1>7, <1>8, <1>9 DEF Next, CallerStep

(* The step of the calls made after the deadline.                          *)
LEMMA LateCallStep == ASSUME IInv, [Next]_vars PROVE LateCall'
<1> USE DEF IInv, Running, BetweenCalls, config, outcome, history, GoTo, EndDo, Return
<1>1. CASE FirstAttempt \/ BeforeRetry \/ EnterSelect
  BY <1>1 DEF FirstAttempt, BeforeRetry, EnterSelect, LateCall, Shape
<1>2. CASE Exhausted \/ CancelledAtOnce \/ CancelledWaiting \/ DeadlineFirst
  BY <1>2 DEF Exhausted, CancelledAtOnce, CancelledWaiting, DeadlineFirst, LateCall
<1>3. CASE WakeUp \/ Elapsed
  BY <1>3 DEF WakeUp, Elapsed, LateCall
<1>4. CASE ElapsedAtOnce
  <2>1. attempt > 0 /\ Delay \in Int  BY <1>4, DelayType DEF ElapsedAtOnce, Control
  <2>2. ~(baseDelay > 0)  BY <1>4, <2>1, DelayPaid DEF ElapsedAtOnce
  <2> QED  BY <1>4, <2>2 DEF ElapsedAtOnce, LateCall
<1>5. ASSUME NEW a \in Answers, Call(a) PROVE LateCall'
  <2>1. /\ pc = "calling" /\ UNCHANGED <<baseDelay, ctxDone>>
        /\ (pc' = "loop" /\ attempt' = attempt + 1) \/ pc' = "ended"
        /\ lateCalls' = IF ctxDone THEN lateCalls + 1 ELSE lateCalls
    BY <1>5 DEF Call
  <2>2. attempt \in Nat /\ ctxDone \in BOOLEAN  BY DEF Shape
  <2> QED  BY <2>1, <2>2 DEF LateCall
<1>6. CASE ReturnError \/ ReturnAgent \/ Panic \/ ReturnReply \/ ReturnUpload \/ ReturnDownload
  BY <1>6 DEF ReturnError, ReturnAgent, Panic, ReturnReply, ReturnUpload, ReturnDownload, LateCall
<1>7. CASE ContextExpires \/ Ended \/ UNCHANGED vars
  BY <1>7 DEF ContextExpires, Ended, vars, LateCall
<1> QED  BY <1>1, <1>2, <1>3, <1>4, <1>5, <1>6, <1>7 DEF Next, CallerStep

(* The step of what the result rests on.                                   *)
LEMMA EarnedStep == ASSUME IInv, [Next]_vars PROVE Earned'
<1> USE DEF IInv, Running, BetweenCalls, config, outcome, history, GoTo, EndDo, Return, LastErr
<1>1. CASE FirstAttempt \/ BeforeRetry \/ EnterSelect \/ WakeUp \/ Elapsed \/ ElapsedAtOnce
  BY <1>1 DEF FirstAttempt, BeforeRetry, EnterSelect, WakeUp, Elapsed, ElapsedAtOnce, Earned
<1>2. CASE Exhausted
  <2>1. /\ pc = "loop" /\ attempt > maxRetries /\ calls = attempt /\ maxRetries \in Int
        /\ attempt \in Nat /\ (attempt > 0 => attempt <= maxRetries + 1)
        /\ LastErr = IF attempt = 0 THEN "nil" ELSE "transient"
        /\ last = "none" <=> attempt = 0
    BY <1>2 DEF Exhausted, Control, Shape
  <2>2. pc' = "ended" /\ result' = LastErr
        /\ UNCHANGED <<kind, maxRetries, last, verdict, calls, applied, refused>>
    BY <1>2 DEF Exhausted
  <2>3. LastErr' = LastErr /\ LastErr # "none" BY <2>1, <2>2
  <2> QED  BY <2>1, <2>2, <2>3 DEF Earned
<1>3. CASE CancelledAtOnce \/ CancelledWaiting \/ DeadlineFirst
  BY <1>3 DEF CancelledAtOnce, CancelledWaiting, DeadlineFirst, Earned, Control, Shape
<1>4. ASSUME NEW a \in Answers, Call(a) PROVE Earned'
  <2>1. /\ pc = "calling" /\ attempt <= maxRetries /\ calls = attempt /\ verdict = "none"
        /\ attempt \in Nat /\ maxRetries \in Int /\ applied \in Nat /\ refused \in Nat
        /\ kind = "reply" => applied <= refused
    BY <1>4 DEF Call, Control, Shape, Earned
  <2>2. /\ calls' = calls + 1 /\ last' = a /\ a # "none"
        /\ refused' = IF a = "5xx" THEN refused + 1 ELSE refused
        /\ UNCHANGED <<kind, maxRetries, verdict>>
    BY <1>4 DEF Call, Answers
  <2>3. applied' \in applied .. applied + 1 /\ (a = "200" => applied' = applied + 1)
    <3>1. Effects(a) \subseteq {0, 1} /\ (a = "200" => Effects(a) = {1})  BY DEF Effects
    <3>2. PICK e \in Effects(a) : applied' = applied + (IF ctxDone THEN 0 ELSE e)
      BY <1>4 DEF Call
    <3>3. a = "200" => ~ctxDone  BY <1>4 DEF Call
    <3> QED  BY <2>1, <3>1, <3>2, <3>3
  <2>4. LastErr' = Class(kind, a)  BY <2>2
  <2>5. CASE Class(kind, a) = "transient"
    <3>1. pc' = "loop"  BY <1>4, <2>5 DEF Call
    <3>2. kind = "reply" => a = "5xx"  BY <2>5, ClassType
    <3> QED  BY <2>1, <2>2, <2>3, <3>1, <3>2 DEF Earned
  <2>6. CASE Class(kind, a) # "transient"
    <3>1. pc' = "ended" /\ result' = Class(kind, a)  BY <1>4, <2>6 DEF Call
    <3>2. Class(kind, a) \in {"nil", "fatal"}  BY <2>6, ClassType
    <3> QED  BY <2>1, <2>2, <2>3, <2>4, <3>1, <3>2 DEF Earned
  <2> QED  BY <2>5, <2>6
<1>5. CASE ReturnError \/ ReturnAgent \/ Panic \/ ReturnReply \/ ReturnUpload \/ ReturnDownload
  BY <1>5 DEF ReturnError, ReturnAgent, Panic, ReturnReply, ReturnUpload, ReturnDownload, Earned
<1>6. CASE ContextExpires \/ Ended \/ UNCHANGED vars
  BY <1>6 DEF ContextExpires, Ended, vars, Earned
<1> QED  BY <1>1, <1>2, <1>3, <1>4, <1>5, <1>6 DEF Next, CallerStep

(* The step of the open bodies.                                            *)
LEMMA BodiesStep == ASSUME IInv, [Next]_vars PROVE Bodies'
<1> USE DEF IInv, Running, BetweenCalls, config, outcome, history, GoTo, EndDo, Return
<1>1. CASE FirstAttempt \/ BeforeRetry \/ EnterSelect \/ WakeUp \/ Elapsed \/ ElapsedAtOnce
  BY <1>1 DEF FirstAttempt, BeforeRetry, EnterSelect, WakeUp, Elapsed, ElapsedAtOnce, Bodies
<1>2. CASE Exhausted
  <2>1. LastErr = IF attempt = 0 THEN "nil" ELSE "transient"  BY <1>2 DEF Exhausted, Control
  <2>2. calls = attempt /\ attempt > maxRetries  BY <1>2 DEF Exhausted, Control
  <2>3. kind # "agent" => attempt > 0  BY <2>2 DEF Shape
  <2> QED  BY <1>2, <2>1, <2>2, <2>3 DEF Exhausted, Bodies, Shape
<1>3. CASE CancelledAtOnce \/ CancelledWaiting \/ DeadlineFirst
  BY <1>3 DEF CancelledAtOnce, CancelledWaiting, DeadlineFirst, Bodies
<1>4. ASSUME NEW a \in Answers, Call(a) PROVE Bodies'
  <2>1. /\ pc = "calling" /\ calls' = calls + 1 /\ UNCHANGED <<kind, verdict>>
        /\ open' = IF LeavesOpen(kind, a) THEN open + 1 ELSE open
        /\ open \in Int /\ calls \in Nat
    BY <1>4 DEF Call, Shape
  <2>2. CASE Class(kind, a) = "transient"
    <3>1. pc' = "loop"  BY <1>4, <2>2 DEF Call
    <3>2. kind # "download" => ~LeavesOpen(kind, a)
      BY <2>2, RetryAssumption DEF LeavesOpen, Shape
    <3> QED  BY <2>1, <3>1, <3>2 DEF Bodies
  <2>3. CASE Class(kind, a) # "transient"
    <3>1. pc' = "ended" /\ result' = Class(kind, a)  BY <1>4, <2>3 DEF Call
    <3>2. Class(kind, a) = "nil" => a # "error"  BY ClassType
    <3>3. LeavesOpen(kind, a) <=> /\ a # "error" /\ kind # "reply"
                                  /\ kind = "download" \/ Class(kind, a) = "nil"
      BY RetryAssumption DEF LeavesOpen, Shape
    <3> QED  BY <2>1, <3>1, <3>2, <3>3 DEF Bodies
  <2> QED  BY <2>2, <2>3
<1>5. CASE ReturnError
  BY <1>5 DEF ReturnError, Bodies
<1>6. CASE ReturnAgent \/ ReturnReply
  BY <1>6 DEF ReturnAgent, ReturnReply, Bodies
<1>7. CASE ReturnUpload
  <2>1. maxRetries = 2 /\ pc = "ended" /\ kind = "upload"  BY <1>7 DEF ReturnUpload, Shape
  <2>2. calls > 0  BY <2>1 DEF Earned, Shape
  <2> QED  BY <1>7, <2>2 DEF ReturnUpload, Bodies
<1>8. CASE ReturnDownload
  <2>1. /\ pc = "ended" /\ kind = "download" /\ result = "nil" /\ pc' = "returned"
        /\ UNCHANGED <<kind, calls>>
        /\ (verdict' = "ok" /\ open' = open - 1) \/ (verdict' = "error" /\ open' = open)
    BY <1>8 DEF ReturnDownload
  <2> QED  BY <2>1 DEF Bodies, Shape
<1>9. CASE Panic \/ ContextExpires \/ Ended \/ UNCHANGED vars
  BY <1>9 DEF Panic, ContextExpires, Ended, vars, Bodies
<1> QED
  BY <1>1, <1>2, <1>3, <1>4, <1>5, <1>6, <1>7, <1>8, <1>9 DEF Next, CallerStep

-----------------------------------------------------------------------------
(***************************************************************************)
(* The theorems.                                                           *)
(***************************************************************************)
(* The six parts are kept by every step.                                   *)
THEOREM Invariance == Spec => []IInv
<1>1. IInv /\ [Next]_vars => IInv'
  BY ShapeStep, ControlStep, PaceStep, LateCallStep, EarnedStep, BodiesStep DEF IInv
<1> QED  BY InitIInv, <1>1, PTL DEF Spec

(* Every reachable state of a call is well typed; in particular the time   *)
(* spent waiting and the number of bodies left open are never negative.    *)
THEOREM Typing == Spec => []TypeOK
<1>1. IInv => TypeOK
  <2> SUFFICES ASSUME IInv PROVE TypeOK  OBVIOUS
  <2>1. waited \in Nat  BY DEF IInv, Shape, Pace
  <2>2. open \in Nat  BY DEF IInv, Shape, Bodies, Running
  <2> QED  BY <2>1, <2>2 DEF IInv, Shape, TypeOK, Running
<1> QED  BY Invariance, <1>1, PTL

(* The result a user acts upon is that of its last request, for any number *)
(* of retries that is not negative; what is reported as done was done.     *)
THEOREM ResultsAreEarned == Spec => []ResultIsEarned
<1>1. IInv => ResultIsEarned
  <2> SUFFICES ASSUME IInv PROVE ResultIsEarned  OBVIOUS
  <2> USE DEF IInv, Shape, Control, Earned, Running, LastErr
  <2>1. ASSUME maxRetries >= 0
        PROVE  /\ result = "nil" => calls > 0 /\ LastErr = "nil"
               /\ result = "transient" => calls = maxRetries + 1 /\ LastErr = "transient"
               /\ calls <= maxRetries + 1
    <3>1. CASE pc \in Running  BY <2>1, <3>1
    <3>2. CASE pc \notin Running  BY <2>1, <3>2
    <3> QED  BY <3>1, <3>2
  <2>2. kind \in {"reply", "upload"} /\ verdict = "ok" => applied > 0  OBVIOUS
  <2> QED  BY <2>1, <2>2 DEF ResultIsEarned
<1> QED  BY Invariance, <1>1, PTL

(* The delays double and do not overflow, however many retries are         *)
(* configured, for every width and every positive base delay.              *)
THEOREM DelaysNeverOverflow == Spec => []DelaysDouble
<1>1. IInv => DelaysDouble
  BY DelayPaid DEF IInv, Control, DelaysDouble, BetweenCalls
<1> QED  BY Invariance, <1>1, PTL

(* At most one request is tried after the deadline.                        *)
THEOREM DeadlineStopsTheLoop == Spec => []AtMostOneLateCall
<1>1. IInv => AtMostOneLateCall
  BY DEF IInv, Shape, LateCall, AtMostOneLateCall
<1> QED  BY Invariance, <1>1, PTL

(* A reply is posted again only after a 5xx.                               *)
THEOREM RepliesRepeatOnly5xx == Spec => []RepliesRepeatOnlyAfter5xx
<1>1. IInv => RepliesRepeatOnlyAfter5xx
  BY DEF IInv, Earned, RepliesRepeatOnlyAfter5xx
<1> QED  BY Invariance, <1>1, PTL

(* No body of a returned call stays open, those of downloads excepted.     *)
THEOREM BodiesAreClosed == Spec => []BodiesClosed
<1>1. IInv => BodiesClosed
  BY DEF IInv, Shape, Bodies, BodiesClosed
<1> QED  BY Invariance, <1>1, PTL
=============================================================================
