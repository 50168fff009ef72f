--------------------------- MODULE CallbackProofs ---------------------------
(***************************************************************************)
(* Proofs about the HTTP callback, for any number of deliveries, any       *)
(* configurations etcd may hold and any number of changes to them.         *)
(***************************************************************************)
EXTENDS Callback, FiniteSetTheorems, TLAPS

-----------------------------------------------------------------------------
(***************************************************************************)
(* The inductive invariant: what is true of each delivery ...              *)
(***************************************************************************)
(* Feishu and the handler are at matching points of the delivery, and only *)
(* a handler that has answered has an answer, or a job.                    *)
Steady(d) ==
  /\ pc[d] = "idle" <=> feishu[d] = "none"
  /\ pc[d] # "answered" => feishu[d] \in {"none", "waiting", "gaveup"}
  /\ pc[d] # "answered" => status[d] = 0 /\ jobs[d] = 0
  /\ feishu[d] = "accepted" => status[d] = 200

(* What etcd holds while a delivery is handled has been recorded.          *)
Seen(d) == Handled(d) => app \in seenApp[d] /\ user \in seenUser[d]

(* A value read for delivery d that was that of an enabled app.            *)
LiveApp(d, a) == a \in seenApp[d] /\ a # None /\ a.enabled

Past(d) == pc[d] \in {"check", "resolve", "user", "dispatch"}

Checked(d) == Past(d) => LiveApp(d, checked[d])

(* What a message would be processed with: see JobConfigWasLive.           *)
Live(d) ==
  /\ LiveApp(d, checked[d]) /\ LiveApp(d, resolved[d].app)
  /\ AgentError(resolved[d].agent) = 0
  /\ \/ resolved[d].agent = resolved[d].app.agent
     \/ \E u \in seenUser[d] \ {None} : u.enabled /\ u.agent.url /\ u.agent = resolved[d].agent
  /\ SenderKnown(checked[d], event) => \E u \in seenUser[d] : u = None \/ u.enabled

Resolved(d) ==
  /\ pc[d] = "user" => LiveApp(d, resolved[d].app)
  /\ pc[d] = "dispatch" => Live(d)

(* Why a message is acknowledged and not processed.                        *)
Lost(d) ==
  \/ event.body # None /\ \E a \in seenApp[d] \ {None} : a.key = None
  \/ /\ ~event.dm
     /\ \E a \in seenApp[d] \ {None} : a.botName = "" \/ a.botName \notin event.bots

(* Only a message is processed, and its delivery is answered 200; one that *)
(* is answered 200 and not processed has a reason for that.                *)
Processed(d) ==
  /\ jobs[d] > 0 => /\ Live(d) /\ Kind(checked[d], event) = "message"
                    /\ feishu[d] \in {"accepted", "gaveup"}
  /\ status[d] = 200 /\ jobs[d] = 0 /\ event.kind = "message" => Lost(d)

(* Why delivery d would be answered s.                                     *)
Reason(d, s) == Cause(d, s) \/ (outage[d] /\ s \in {404, 503})

Refusals == {400, 401, 403, 404, 500, 503}

Explained(d) == \A s \in Refusals : status[d] = s => Reason(d, s)

DeliveryInv(d) ==
  Steady(d) /\ Seen(d) /\ Checked(d) /\ Resolved(d) /\ Processed(d) /\ Explained(d)

(* ... and of them together: Feishu delivers again only what it has got no *)
(* 200 for.                                                                *)
InTurn ==
  \A d, e \in Delivery : e < d /\ feishu[d] # "none" => feishu[e] \in {"rejected", "gaveup"}

IInv == TypeOK /\ InTurn /\ \A d \in Delivery : DeliveryInv(d)

-----------------------------------------------------------------------------
(***************************************************************************)
(* What the steps have in common.                                          *)
(***************************************************************************)
(* Deliveries are counted from 1, without a gap.                           *)
LEMMA DeliveryFacts ==
  ASSUME NEW d \in Delivery
  PROVE  /\ d \in Nat /\ d >= 1
         /\ d > 1 => d - 1 \in Delivery
BY CallbackAssumption, FS_CardinalityType

(* History only grows, and holds what etcd holds now.                      *)
Grows(d) ==
  /\ seenApp[d] \subseteq seenApp'[d] /\ seenUser[d] \subseteq seenUser'[d]
  /\ Handled(d)' => app' \in seenApp'[d] /\ user' \in seenUser'[d]

(* What the deliveries have seen of the store: never less than before.     *)
LEMMA SeenGrows ==
  ASSUME TypeOK, RecordSeen, app' \in AppValues, user' \in UserValues
  PROVE  /\ seenApp' \in [Delivery -> SUBSET AppValues]
         /\ seenUser' \in [Delivery -> SUBSET UserValues]
         /\ \A d \in Delivery : Grows(d)
<1>1. seenApp \in [Delivery -> SUBSET AppValues] /\ seenUser \in [Delivery -> SUBSET UserValues]
  BY DEF TypeOK
<1> DEFINE h(d) == Handled(d)'
<1>2. /\ seenApp' = [d \in Delivery |-> IF h(d) THEN seenApp[d] \cup {app'} ELSE seenApp[d]]
      /\ seenUser' = [d \in Delivery |-> IF h(d) THEN seenUser[d] \cup {user'} ELSE seenUser[d]]
  BY DEF RecordSeen
<1>3. \A d \in Delivery : Handled(d)' => h(d)  OBVIOUS
<1> HIDE DEF h
<1>4. \A d \in Delivery : seenApp[d] \in SUBSET AppValues /\ seenUser[d] \in SUBSET UserValues
  BY <1>1
<1>5. \A d \in Delivery : /\ seenApp'[d] \in SUBSET AppValues
                          /\ seenApp[d] \subseteq seenApp'[d]
                          /\ h(d) => app' \in seenApp'[d]
  BY <1>2, <1>4
<1>6. \A d \in Delivery : /\ seenUser'[d] \in SUBSET UserValues
                          /\ seenUser[d] \subseteq seenUser'[d]
                          /\ h(d) => user' \in seenUser'[d]
  BY <1>2, <1>4
<1>7. \A d \in Delivery : Grows(d)  BY <1>3, <1>5, <1>6 DEF Grows
<1>8. /\ seenApp' = [d \in Delivery |-> seenApp'[d]]
      /\ seenUser' = [d \in Delivery |-> seenUser'[d]]
  BY <1>2
<1> QED  BY <1>5, <1>6, <1>7, <1>8

(* A reason that was there stays in the history.                           *)
LEMMA ReasonsStay ==
  ASSUME NEW d \in Delivery, NEW s, Grows(d), UNCHANGED event
  PROVE  /\ Cause(d, s) => Cause(d, s)'
         /\ Lost(d) => Lost(d)'
<1>1. AppsOf(d) \subseteq AppsOf(d)' /\ UsersOf(d) \subseteq UsersOf(d)'
  BY DEF Grows, AppsOf, UsersOf
<1>2. Cause(d, s) => Cause(d, s)'
  <2>1. Malformed(d) => Malformed(d)'  BY <1>1 DEF Malformed
  <2>2. Unverified(d) => Unverified(d)'  BY <1>1 DEF Unverified
  <2>3. Disabled(d) => Disabled(d)'  BY <1>1 DEF Disabled
  <2>4. Unreadable(d) => Unreadable(d)'  BY <1>1 DEF Unreadable, Grows
  <2>5. Panicking(d) => Panicking(d)'  BY <1>1 DEF Panicking
  <2>6. \A error \in {500, 503} : AgentWas(d, error) => AgentWas(d, error)'
    BY <1>1 DEF AgentWas
  <2>7. (\E u \in UsersOf(d) : ~Decodes(u)) => \E u \in UsersOf(d)' : ~Decodes(u)
    BY <1>1
  <2> QED  BY <2>1, <2>2, <2>3, <2>4, <2>5, <2>6, <2>7 DEF Cause
<1>3. Lost(d) => Lost(d)'  BY <1>1 DEF Lost, AppsOf
<1> QED  BY <1>2, <1>3

(* A delivery nothing happens to.                                          *)
Kept(d) ==
  /\ pc'[d] = pc[d] /\ feishu'[d] = feishu[d] /\ status'[d] = status[d] /\ jobs'[d] = jobs[d]
  /\ checked'[d] = checked[d] /\ resolved'[d] = resolved[d] /\ outage'[d] = outage[d]

(* A delivery about which nothing changes keeps its part of the invariant. *)
LEMMA KeptInv ==
  ASSUME NEW d \in Delivery, DeliveryInv(d), Grows(d), Kept(d), UNCHANGED event
  PROVE  DeliveryInv(d)'
<1>1. Steady(d)'  BY DEF DeliveryInv, Steady, Kept
<1>2. Seen(d)'  BY DEF Seen, Grows
<1>3. Checked(d)'  BY DEF DeliveryInv, Checked, Past, LiveApp, Kept, Grows
<1>4. Live(d) => Live(d)'  BY DEF Live, LiveApp, Kept, Grows
<1>5. Resolved(d)'  BY <1>4 DEF DeliveryInv, Resolved, LiveApp, Kept, Grows
<1>6. Processed(d)'  BY <1>4, ReasonsStay DEF DeliveryInv, Processed, Kept
<1>7. Explained(d)'  BY ReasonsStay DEF DeliveryInv, Explained, Reason, Kept
<1> QED  BY <1>1, <1>2, <1>3, <1>5, <1>6, <1>7 DEF DeliveryInv

(* Deliveries stay in turn unless one is made or a settled one moves.      *)
LEMMA TurnKept ==
  ASSUME InTurn, \A d \in Delivery : feishu[d] = "none" => feishu'[d] = "none",
         \A d \in Delivery : feishu[d] \in {"rejected", "gaveup"} => feishu'[d] = feishu[d]
  PROVE  InTurn'
BY DEF InTurn

(* What a read of etcd records.                                            *)
LEMMA ReadFacts ==
  ASSUME TypeOK, NEW d \in Delivery, NEW failed \in BOOLEAN, Read(d, failed)
  PROVE  /\ outage' \in [Delivery -> BOOLEAN]
         /\ outage[d] => outage'[d]
         /\ failed => outage'[d]
         /\ \A e \in Delivery \ {d} : outage'[e] = outage[e]
<1>1. outage \in [Delivery -> BOOLEAN]  BY DEF TypeOK
<1>2. outage' = [outage EXCEPT ![d] = outage[d] \/ failed]  BY DEF Read
<1>3. (outage[d] \/ failed) \in BOOLEAN  OBVIOUS
<1>4. outage'[d] = (outage[d] \/ failed)  BY <1>1, <1>2, Zenon
<1>5. outage' \in [Delivery -> BOOLEAN]  BY <1>1, <1>2, <1>3
<1>6. \A e \in Delivery \ {d} : outage'[e] = outage[e]  BY <1>1, <1>2
<1>7. outage[d] => outage'[d]  BY <1>4, Zenon
<1>8. failed => outage'[d]  BY <1>4, Zenon
<1> QED  BY <1>5, <1>6, <1>7, <1>8

(* A step of the handler of d that leaves the other deliveries alone.      *)
LEMMA HandlerMoves ==
  ASSUME IInv, RecordSeen, NEW d \in Delivery, TypeOK', InTurn', UNCHANGED <<app, user, event>>,
         \A e \in Delivery \ {d} : Kept(e),
         Steady(d)', Checked(d)', Resolved(d)', Processed(d)', Explained(d)'
  PROVE  IInv'
<1>1. \A e \in Delivery : Grows(e)  BY SeenGrows DEF IInv, TypeOK
<1>2. DeliveryInv(d)'  BY <1>1 DEF DeliveryInv, Seen, Grows
<1>3. \A e \in Delivery \ {d} : DeliveryInv(e)'  BY <1>1, KeptInv DEF IInv
<1> QED  BY <1>2, <1>3 DEF IInv

Statuses == {200, 400, 401, 403, 404, 500, 503}

(* What Answer does to a delivery that is being handled.                   *)
LEMMA AnswerFacts ==
  ASSUME IInv, NEW d \in Delivery, Handled(d), NEW s \in Statuses, Answer(d, s)
  PROVE  /\ pc' \in [Delivery -> HandlerStates] /\ pc'[d] = "answered"
         /\ status' \in [Delivery -> {0} \cup Statuses] /\ status'[d] = s
         /\ feishu' \in [Delivery -> {"none", "waiting", "accepted", "rejected", "gaveup"}]
         /\ feishu'[d] \in {"accepted", "rejected", "gaveup"}
         /\ feishu'[d] = "accepted" => s = 200
         /\ feishu'[d] = "rejected" => s # 200
         /\ \A e \in Delivery \ {d} :
              pc'[e] = pc[e] /\ status'[e] = status[e] /\ feishu'[e] = feishu[e]
         /\ InTurn'
<1>1. /\ pc \in [Delivery -> HandlerStates] /\ status \in [Delivery -> {0} \cup Statuses]
      /\ feishu \in [Delivery -> {"none", "waiting", "accepted", "rejected", "gaveup"}]
  BY DEF IInv, TypeOK, Statuses
<1>2. feishu[d] \in {"waiting", "gaveup"}
  BY DEF IInv, DeliveryInv, Steady, Handled
<1>3. pc' \in [Delivery -> HandlerStates] /\ pc'[d] = "answered"
  BY <1>1 DEF Answer, HandlerStates
<1>4. status' \in [Delivery -> {0} \cup Statuses] /\ status'[d] = s
  BY <1>1 DEF Answer
<1>5. /\ feishu' \in [Delivery -> {"none", "waiting", "accepted", "rejected", "gaveup"}]
      /\ feishu'[d] = IF feishu[d] # "waiting" THEN feishu[d]
                      ELSE IF s = 200 THEN "accepted" ELSE "rejected"
  BY <1>1 DEF Answer
<1>6. \A e \in Delivery \ {d} :
        pc'[e] = pc[e] /\ status'[e] = status[e] /\ feishu'[e] = feishu[e]
  BY <1>1 DEF Answer
<1>7. InTurn'  BY <1>2, <1>5, <1>6, TurnKept DEF IInv
<1> QED  BY <1>2, <1>3, <1>4, <1>5, <1>6, <1>7

(* The handler answers s, and no message is processed.                     *)
LEMMA Answers ==
  ASSUME IInv, RecordSeen, NEW d \in Delivery, Handled(d), NEW s \in Statuses, Answer(d, s),
         UNCHANGED <<etcd, event, checked, resolved, jobs>>,
         outage' \in [Delivery -> BOOLEAN], \A e \in Delivery \ {d} : outage'[e] = outage[e],
         s = 200 /\ event.kind = "message" => Lost(d),
         s # 200 => Cause(d, s) \/ (outage'[d] /\ s \in {404, 503})
  PROVE  IInv'
<1>1. /\ pc' \in [Delivery -> HandlerStates] /\ pc'[d] = "answered"
      /\ status' \in [Delivery -> {0} \cup Statuses] /\ status'[d] = s
      /\ feishu' \in [Delivery -> {"none", "waiting", "accepted", "rejected", "gaveup"}]
      /\ feishu'[d] \in {"accepted", "rejected", "gaveup"}
      /\ feishu'[d] = "accepted" => s = 200
      /\ \A e \in Delivery \ {d} :
           pc'[e] = pc[e] /\ status'[e] = status[e] /\ feishu'[e] = feishu[e]
      /\ InTurn'
  BY AnswerFacts
<1>2. /\ seenApp' \in [Delivery -> SUBSET AppValues]
      /\ seenUser' \in [Delivery -> SUBSET UserValues] /\ Grows(d)
  BY SeenGrows DEF IInv, TypeOK, etcd
<1>3. TypeOK'  BY <1>1, <1>2 DEF IInv, TypeOK, Statuses, etcd
<1>4. jobs[d] = 0  BY DEF IInv, DeliveryInv, Steady, Handled
<1>5. Steady(d)'  BY <1>1 DEF Steady
<1>6. Checked(d)' /\ Resolved(d)'  BY <1>1 DEF Checked, Resolved, Past
<1>7. Processed(d)'  BY <1>1, <1>2, <1>4, ReasonsStay DEF Processed
<1>8. Explained(d)'  BY <1>1, <1>2, ReasonsStay DEF Explained, Refusals, Reason
<1>9. \A e \in Delivery \ {d} : Kept(e)  BY <1>1 DEF Kept
<1> QED  BY <1>1, <1>3, <1>5, <1>6, <1>7, <1>8, <1>9, HandlerMoves DEF etcd

(* The handler goes on with what it has read.                              *)
LEMMA Continues ==
  ASSUME IInv, RecordSeen, NEW d \in Delivery, Handled(d),
         NEW next \in {"check", "resolve", "user", "dispatch"}, Continue(d, next),
         UNCHANGED <<etcd, event, jobs>>,
         checked' \in [Delivery -> AppValues \cup {None}],
         resolved' \in [Delivery -> [app : AppValues, agent : Agents] \cup {Nobody}],
         outage' \in [Delivery -> BOOLEAN],
         \A e \in Delivery \ {d} : /\ checked'[e] = checked[e] /\ resolved'[e] = resolved[e]
                                   /\ outage'[e] = outage[e],
         Checked(d)', Resolved(d)'
  PROVE  IInv'
<1>1. pc \in [Delivery -> HandlerStates]  BY DEF IInv, TypeOK
<1>2. /\ pc' \in [Delivery -> HandlerStates] /\ pc'[d] = next
      /\ \A e \in Delivery \ {d} : pc'[e] = pc[e]
  BY <1>1 DEF Continue, HandlerStates
<1>3. UNCHANGED <<status, feishu>>  BY DEF Continue
<1>4. /\ seenApp' \in [Delivery -> SUBSET AppValues]
      /\ seenUser' \in [Delivery -> SUBSET UserValues]
  BY SeenGrows DEF IInv, TypeOK, etcd
<1>5. TypeOK'  BY <1>2, <1>3, <1>4 DEF IInv, TypeOK, etcd
<1>6. /\ jobs[d] = 0 /\ status[d] = 0 /\ feishu[d] \in {"waiting", "gaveup"}
  BY DEF IInv, DeliveryInv, Steady, Handled
<1>7. Steady(d)'  BY <1>2, <1>3, <1>6 DEF Steady
<1>8. Processed(d)' /\ Explained(d)'  BY <1>3, <1>6 DEF Processed, Explained, Refusals
<1>9. InTurn'  BY <1>3, TurnKept DEF IInv
<1>10. \A e \in Delivery \ {d} : Kept(e)  BY <1>2, <1>3 DEF Kept
<1> QED  BY <1>5, <1>7, <1>8, <1>9, <1>10, HandlerMoves DEF etcd

-----------------------------------------------------------------------------
(***************************************************************************)
(* What the checks of the handler may answer, and why.                     *)
(***************************************************************************)
(* The app is refused for an outage, or for the value that was read.       *)
LEMMA AppErrorFacts ==
  ASSUME NEW d \in Delivery, NEW v \in seenApp[d], NEW failed \in BOOLEAN
  PROVE  /\ AppError(v, failed) \in {0, 403, 404}
         /\ AppError(v, failed) = 404 => failed \/ Cause(d, 404)
         /\ AppError(v, failed) = 403 => Cause(d, 403)
         /\ AppError(v, failed) = 0 => v # None /\ v.enabled
<1>1. v = None \/ ~Decodes(v) => Cause(d, 404)  BY DEF Cause, Unreadable, AppsOf
<1>2. v # None /\ ~v.enabled => Cause(d, 403)  BY DEF Cause, Disabled, AppsOf
<1> QED  BY <1>1, <1>2 DEF AppError

(* Each status of a user lookup has its cause.                             *)
LEMMA UserErrorFacts ==
  ASSUME NEW d \in Delivery, NEW v \in seenUser[d], NEW failed \in BOOLEAN
  PROVE  /\ UserError(v, failed) \in {0, 403, 503}
         /\ UserError(v, failed) = 503 => failed \/ Cause(d, 503)
         /\ UserError(v, failed) = 403 => Cause(d, 403)
         /\ UserError(v, failed) = 0 => v = None \/ v.enabled
<1>1. v # None /\ ~Decodes(v) => Cause(d, 503)  BY DEF Cause, UsersOf
<1>2. v # None /\ ~v.enabled => Cause(d, 403)  BY DEF Cause, Disabled, UsersOf
<1> QED  BY <1>1, <1>2 DEF UserError

(* The agent's settings are refused as 500 or 503 only, and those are of   *)
(* an app or a user that etcd held.                                        *)
LEMMA AgentErrorFacts ==
  ASSUME NEW d \in Delivery, NEW g,
         \/ \E a \in seenApp[d] \ {None} : g = a.agent
         \/ \E u \in seenUser[d] \ {None} : u.agent.url /\ g = u.agent
  PROVE  /\ AgentError(g) \in {0, 500, 503}
         /\ AgentError(g) # 0 => Cause(d, AgentError(g))
<1>1. AgentError(g) \in {0, 500, 503}  BY DEF AgentError
<1>2. AgentWas(d, AgentError(g))  BY DEF AgentWas, AppsOf, UsersOf
<1>3. AgentError(g) = 500 => Cause(d, 500)  BY <1>2 DEF Cause
<1>4. AgentError(g) = 503 => Cause(d, 503)  BY <1>2 DEF Cause
<1> QED  BY <1>1, <1>3, <1>4

(* Before the dispatch, 200 answers only a challenge, and a refusal has    *)
(* its cause in the request and the app.                                   *)
LEMMA CheckAnswerFacts ==
  ASSUME NEW d \in Delivery, NEW a \in seenApp[d] \ {None}
  PROVE  /\ CheckAnswer(a, event) \in {0, 200, 400, 401, 500}
         /\ CheckAnswer(a, event) = 200 /\ event.kind = "message" => Lost(d)
         /\ CheckAnswer(a, event) \notin {0, 200} => Cause(d, CheckAnswer(a, event))
<1>1. CheckAnswer(a, event) \in {0, 200, 400, 401, 500}  BY DEF CheckAnswer
<1>2. ASSUME CheckAnswer(a, event) = 200, event.kind = "message"  PROVE Lost(d)
  <2>1. Kind(a, event) = "challenge"  BY <1>2 DEF CheckAnswer
  <2>2. Opaque(a, event)  BY <1>2, <2>1 DEF Kind
  <2> QED  BY <2>2 DEF Opaque, Lost
<1>3. ASSUME CheckAnswer(a, event) = 400  PROVE Cause(d, 400)
  BY <1>3 DEF CheckAnswer, DecryptFails, Kind, Cause, Malformed, AppsOf
<1>4. ASSUME CheckAnswer(a, event) = 401  PROVE Cause(d, 401)
  <2>1. SignatureFails(a, event) \/ TokenMismatch(a, event)  BY <1>4 DEF CheckAnswer
  <2> QED  BY <2>1 DEF SignatureFails, TokenMismatch, Token, Opaque, Cause, Unverified,
                     AppsOf
<1>5. ASSUME CheckAnswer(a, event) = 500  PROVE Cause(d, 500)
  BY <1>5 DEF CheckAnswer, DecryptFails, Cause, Panicking, AppsOf
<1> QED  BY <1>1, <1>2, <1>3, <1>4, <1>5

-----------------------------------------------------------------------------
(***************************************************************************)
(* Each step keeps the invariant.                                          *)
(***************************************************************************)
(* Feishu delivers the event once more.                                    *)
LEMMA DeliverStep ==
  ASSUME IInv, RecordSeen, NEW d \in Delivery, Deliver(d)
  PROVE  IInv'
<1>1. /\ TypeOK /\ InTurn /\ Steady(d) /\ feishu[d] = "none"
      /\ UNCHANGED <<app, user, changes, event, checked, resolved, status, jobs, outage>>
  BY DEF IInv, DeliveryInv, Deliver, etcd
<1>2. /\ pc' \in [Delivery -> HandlerStates] /\ pc'[d] = "lookup"
      /\ feishu' \in [Delivery -> {"none", "waiting", "accepted", "rejected", "gaveup"}]
      /\ feishu'[d] = "waiting"
      /\ \A e \in Delivery \ {d} : pc'[e] = pc[e] /\ feishu'[e] = feishu[e]
  BY <1>1 DEF TypeOK, Deliver, HandlerStates
<1>3. /\ seenApp' \in [Delivery -> SUBSET AppValues]
      /\ seenUser' \in [Delivery -> SUBSET UserValues]
  BY <1>1, SeenGrows DEF TypeOK
<1>4. TypeOK'  BY <1>1, <1>2, <1>3 DEF TypeOK
<1>5. status[d] = 0 /\ jobs[d] = 0  BY <1>1 DEF Steady
<1>6. Steady(d)'  BY <1>1, <1>2, <1>5 DEF Steady
<1>7. Checked(d)' /\ Resolved(d)'  BY <1>2 DEF Checked, Past, Resolved
<1>8. Processed(d)' /\ Explained(d)'  BY <1>1, <1>5 DEF Processed, Explained, Refusals
<1>9. \A e \in Delivery \ {d} : Kept(e)  BY <1>1, <1>2 DEF Kept
<1>10. InTurn'
  <2> SUFFICES ASSUME NEW c \in Delivery, NEW e \in Delivery, e < c, feishu'[c] # "none"
               PROVE  feishu'[e] \in {"rejected", "gaveup"}
    BY DEF InTurn
  <2>1. c \in Nat /\ e \in Nat /\ e >= 1 /\ (c > 1 => c - 1 \in Delivery)
    BY DeliveryFacts
  <2>2. CASE c = d
    <3>1. c - 1 \in Delivery /\ feishu[c - 1] \in {"rejected", "gaveup"}
      BY <2>1, <2>2 DEF Deliver
    <3>2. e = c - 1 \/ e < c - 1  BY <2>1
    <3>3. feishu[e] \in {"rejected", "gaveup"}  BY <1>1, <3>1, <3>2 DEF InTurn
    <3> QED  BY <1>2, <2>1, <2>2, <3>3
  <2>3. CASE c # d
    <3>1. feishu[e] \in {"rejected", "gaveup"}  BY <1>1, <1>2, <2>3 DEF InTurn
    <3> QED  BY <1>1, <1>2, <3>1
  <2> QED  BY <2>2, <2>3
<1> QED  BY <1>1, <1>4, <1>6, <1>7, <1>8, <1>9, <1>10, HandlerMoves

(* Feishu stops waiting; the handler does not notice.                      *)
LEMMA GiveUpStep ==
  ASSUME IInv, RecordSeen, NEW d \in Delivery, GiveUp(d)
  PROVE  IInv'
<1>1. /\ TypeOK /\ InTurn /\ DeliveryInv(d) /\ feishu[d] = "waiting"
      /\ UNCHANGED <<app, user, changes, event, pc, checked, resolved, status, jobs, outage>>
  BY DEF IInv, GiveUp, etcd
<1>2. /\ feishu' \in [Delivery -> {"none", "waiting", "accepted", "rejected", "gaveup"}]
      /\ feishu'[d] = "gaveup" /\ \A e \in Delivery \ {d} : feishu'[e] = feishu[e]
  BY <1>1 DEF TypeOK, GiveUp
<1>3. /\ seenApp' \in [Delivery -> SUBSET AppValues]
      /\ seenUser' \in [Delivery -> SUBSET UserValues] /\ Grows(d)
  BY <1>1, SeenGrows DEF TypeOK
<1>4. TypeOK'  BY <1>1, <1>2, <1>3 DEF TypeOK
<1>5. Steady(d)'  BY <1>1, <1>2 DEF DeliveryInv, Steady
<1>6. Checked(d)'  BY <1>1, <1>3 DEF DeliveryInv, Checked, Past, LiveApp, Grows
<1>7. Live(d) => Live(d)'  BY <1>1, <1>3 DEF Live, LiveApp, Grows
<1>8. Resolved(d)'  BY <1>1, <1>3, <1>7 DEF DeliveryInv, Resolved, LiveApp, Grows
<1>9. Processed(d)'  BY <1>1, <1>2, <1>3, <1>7, ReasonsStay DEF DeliveryInv, Processed
<1>10. Explained(d)'  BY <1>1, <1>3, ReasonsStay DEF DeliveryInv, Explained, Reason
<1>11. \A e \in Delivery \ {d} : Kept(e)  BY <1>1, <1>2 DEF Kept
<1>12. InTurn'  BY <1>1, <1>2, TurnKept
<1> QED  BY <1>1, <1>4, <1>5, <1>6, <1>8, <1>9, <1>10, <1>11, <1>12, HandlerMoves

(* An operator writes to etcd: what is there is seen by every handler.     *)
LEMMA OperatorStep ==
  ASSUME IInv, RecordSeen, app' \in AppValues, user' \in UserValues, changes' \in 0 .. MaxChanges,
         UNCHANGED <<event, feishu, pc, checked, resolved, status, jobs, outage>>
  PROVE  IInv'
<1>1. /\ seenApp' \in [Delivery -> SUBSET AppValues]
      /\ seenUser' \in [Delivery -> SUBSET UserValues] /\ \A d \in Delivery : Grows(d)
  BY SeenGrows DEF IInv
<1>2. TypeOK'  BY <1>1 DEF IInv, TypeOK
<1>3. \A d \in Delivery : DeliveryInv(d)'  BY <1>1, KeptInv DEF IInv, Kept
<1>4. InTurn'  BY DEF IInv, InTurn
<1> QED  BY <1>2, <1>3, <1>4 DEF IInv

(* The first reading of the app.                                           *)
LEMMA LookupAppStep ==
  ASSUME IInv, RecordSeen, NEW d \in Delivery, LookupApp(d)
  PROVE  IInv'
<1>1. PICK failed \in BOOLEAN :
        /\ Read(d, failed)
        /\ IF AppError(app, failed) # 0
             THEN Answer(d, AppError(app, failed)) /\ UNCHANGED checked
             ELSE Continue(d, "check") /\ checked' = [checked EXCEPT ![d] = app]
  BY DEF LookupApp
<1>2. /\ TypeOK /\ DeliveryInv(d) /\ Handled(d) /\ UNCHANGED <<etcd, event, resolved, jobs>>
  BY DEF IInv, LookupApp, Handled
<1>3. app \in seenApp[d]  BY <1>2 DEF DeliveryInv, Seen
<1>4. /\ outage' \in [Delivery -> BOOLEAN] /\ (failed => outage'[d])
      /\ \A e \in Delivery \ {d} : outage'[e] = outage[e]
  BY <1>1, <1>2, ReadFacts
<1>5. CASE AppError(app, failed) # 0
  <2> DEFINE s == AppError(app, failed)
  <2>1. /\ s \in {403, 404} /\ Answer(d, s)
        /\ s = 404 => failed \/ Cause(d, 404)
        /\ s = 403 => Cause(d, 403)
    BY <1>1, <1>3, <1>5, AppErrorFacts
  <2>2. UNCHANGED checked  BY <1>1, <1>5
  <2> HIDE DEF s
  <2>3. Cause(d, s) \/ (outage'[d] /\ s \in {404, 503})  BY <1>4, <2>1
  <2>4. s \in Statuses /\ s # 200  BY <2>1 DEF Statuses
  <2> QED  BY <1>2, <1>4, <2>1, <2>2, <2>3, <2>4, Answers
<1>6. CASE AppError(app, failed) = 0
  <2>1. /\ Continue(d, "check") /\ checked' = [checked EXCEPT ![d] = app]
        /\ app # None /\ app.enabled
    BY <1>1, <1>3, <1>6, AppErrorFacts
  <2>2. /\ checked' \in [Delivery -> AppValues \cup {None}] /\ checked'[d] = app
        /\ \A e \in Delivery \ {d} : checked'[e] = checked[e]
    BY <1>2, <2>1 DEF TypeOK
  <2>3. Grows(d) /\ pc'[d] = "check"
    BY <1>2, <2>1, SeenGrows DEF TypeOK, etcd, Continue
  <2>4. Checked(d)' /\ Resolved(d)'
    BY <1>3, <2>1, <2>2, <2>3 DEF Checked, Resolved, LiveApp, Grows
  <2>5. resolved' \in [Delivery -> [app : AppValues, agent : Agents] \cup {Nobody}]
    BY <1>2 DEF TypeOK
  <2> QED  BY <1>2, <1>4, <2>1, <2>2, <2>4, <2>5, Continues
<1> QED  BY <1>5, <1>6

(* Signature, decryption and token are checked against that reading.       *)
LEMMA CheckStep ==
  ASSUME IInv, RecordSeen, NEW d \in Delivery, Check(d)
  PROVE  IInv'
<1> DEFINE s == CheckAnswer(checked[d], event)
<1>1. /\ TypeOK /\ DeliveryInv(d) /\ Handled(d) /\ Past(d)
      /\ UNCHANGED <<etcd, event, checked, resolved, jobs, outage>>
  BY DEF IInv, Check, Handled, Past
<1>2. IF s # 0 THEN Answer(d, s) ELSE Continue(d, "resolve")  BY DEF Check
<1>3. /\ s \in {0, 200, 400, 401, 500}
      /\ s = 200 /\ event.kind = "message" => Lost(d)
      /\ s \notin {0, 200} => Cause(d, s)
  BY <1>1, CheckAnswerFacts DEF DeliveryInv, Checked, LiveApp
<1> HIDE DEF s
<1>4. /\ checked' \in [Delivery -> AppValues \cup {None}]
      /\ resolved' \in [Delivery -> [app : AppValues, agent : Agents] \cup {Nobody}]
      /\ outage' \in [Delivery -> BOOLEAN]
  BY <1>1 DEF TypeOK
<1>5. CASE s # 0
  <2>1. s \in Statuses  BY <1>3, <1>5 DEF Statuses
  <2> QED  BY <1>1, <1>2, <1>3, <1>4, <1>5, <2>1, Answers
<1>6. CASE s = 0
  <2>1. Continue(d, "resolve")  BY <1>2, <1>6
  <2>2. Grows(d) /\ pc'[d] = "resolve"
    BY <1>1, <2>1, SeenGrows DEF TypeOK, etcd, Continue
  <2>3. Checked(d)' /\ Resolved(d)'
    BY <1>1, <2>2 DEF DeliveryInv, Checked, Resolved, LiveApp, Grows
  <2> QED  BY <1>1, <1>4, <2>1, <2>3, Continues
<1> QED  BY <1>5, <1>6

(* The resolution ends with an agent that was live, or an answer for it.   *)
LEMMA ResolveStep ==
  ASSUME IInv, RecordSeen, NEW d \in Delivery, pc[d] \in {"resolve", "user"}, NEW a, NEW g,
         a \in AppValues, LiveApp(d, a), g \in Agents,
         \/ g = a.agent
         \/ \E u \in seenUser[d] \ {None} : u.enabled /\ u.agent.url /\ u.agent = g,
         SenderKnown(checked[d], event) => \E u \in seenUser[d] : u = None \/ u.enabled,
         Resolve(d, a, g), UNCHANGED <<etcd, event, checked, jobs>>,
         outage' \in [Delivery -> BOOLEAN], \A e \in Delivery \ {d} : outage'[e] = outage[e]
  PROVE  IInv'
<1>1. /\ TypeOK /\ DeliveryInv(d) /\ Handled(d) /\ Past(d)
  BY DEF IInv, Handled, Past
<1>2. CASE AgentError(g) # 0
  <2>1. AgentError(g) \in {500, 503} /\ Cause(d, AgentError(g))
    BY <1>2, AgentErrorFacts DEF LiveApp
  <2>2. Answer(d, AgentError(g)) /\ UNCHANGED resolved  BY <1>2 DEF Resolve
  <2>3. AgentError(g) \in Statuses /\ AgentError(g) # 200  BY <2>1 DEF Statuses
  <2> QED  BY <1>1, <2>1, <2>2, <2>3, Answers
<1>3. CASE AgentError(g) = 0
  <2>1. /\ Continue(d, "dispatch")
        /\ resolved' = [resolved EXCEPT ![d] = [app |-> a, agent |-> g]]
    BY <1>3 DEF Resolve
  <2>2. /\ resolved' \in [Delivery -> [app : AppValues, agent : Agents] \cup {Nobody}]
        /\ resolved'[d] = [app |-> a, agent |-> g]
        /\ \A e \in Delivery \ {d} : resolved'[e] = resolved[e]
    BY <1>1, <2>1 DEF TypeOK
  <2>3. Grows(d) /\ pc'[d] = "dispatch" /\ UNCHANGED <<checked, event>>
    BY <1>1, <2>1, SeenGrows DEF TypeOK, etcd, Continue
  <2>4. LiveApp(d, checked[d])  BY <1>1 DEF DeliveryInv, Checked
  <2>5. Checked(d)'  BY <2>3, <2>4 DEF Checked, LiveApp, Grows
  <2>6. Live(d)'  BY <1>3, <2>2, <2>3, <2>4 DEF Live, LiveApp, Grows
  <2>7. Resolved(d)'  BY <2>3, <2>6 DEF Resolved
  <2>8. checked' \in [Delivery -> AppValues \cup {None}]  BY <1>1 DEF TypeOK
  <2> QED  BY <1>1, <2>1, <2>2, <2>3, <2>5, <2>7, <2>8, Continues
<1> QED  BY <1>2, <1>3

(* The app is read a second time.                                          *)
LEMMA ResolveAppStep ==
  ASSUME IInv, RecordSeen, NEW d \in Delivery, ResolveApp(d)
  PROVE  IInv'
<1>1. PICK failed \in BOOLEAN :
        /\ Read(d, failed)
        /\ IF AppError(app, failed) # 0
             THEN Answer(d, AppError(app, failed)) /\ UNCHANGED resolved
             ELSE IF SenderKnown(checked[d], event)
             THEN /\ Continue(d, "user")
                  /\ resolved' = [resolved EXCEPT ![d] = [app |-> app, agent |-> app.agent]]
             ELSE Resolve(d, app, app.agent)
  BY DEF ResolveApp
<1>2. /\ TypeOK /\ DeliveryInv(d) /\ Handled(d) /\ Past(d) /\ pc[d] = "resolve"
      /\ UNCHANGED <<etcd, event, checked, jobs>>
  BY DEF IInv, ResolveApp, Handled, Past
<1>3. app \in seenApp[d] /\ app \in AppValues  BY <1>2 DEF DeliveryInv, Seen, TypeOK
<1>4. /\ outage' \in [Delivery -> BOOLEAN] /\ (failed => outage'[d])
      /\ \A e \in Delivery \ {d} : outage'[e] = outage[e]
  BY <1>1, <1>2, ReadFacts
<1>5. CASE AppError(app, failed) # 0
  <2> DEFINE s == AppError(app, failed)
  <2>1. /\ s \in {403, 404} /\ Answer(d, s)
        /\ s = 404 => failed \/ Cause(d, 404)
        /\ s = 403 => Cause(d, 403)
    BY <1>1, <1>3, <1>5, AppErrorFacts
  <2>2. UNCHANGED resolved  BY <1>1, <1>5
  <2> HIDE DEF s
  <2>3. Cause(d, s) \/ (outage'[d] /\ s \in {404, 503})  BY <1>4, <2>1
  <2>4. s \in Statuses /\ s # 200  BY <2>1 DEF Statuses
  <2> QED  BY <1>2, <1>4, <2>1, <2>2, <2>3, <2>4, Answers
<1>6. CASE AppError(app, failed) = 0
  <2>1. app # None /\ app.enabled  BY <1>3, <1>6, AppErrorFacts
  <2>2. app.agent \in Agents /\ LiveApp(d, app)  BY <1>3, <2>1 DEF Agents, LiveApp
  <2>3. CASE SenderKnown(checked[d], event)
    <3>1. /\ Continue(d, "user")
          /\ resolved' = [resolved EXCEPT ![d] = [app |-> app, agent |-> app.agent]]
      BY <1>1, <1>6, <2>3
    <3>2. /\ resolved' \in [Delivery -> [app : AppValues, agent : Agents] \cup {Nobody}]
          /\ resolved'[d].app = app /\ \A e \in Delivery \ {d} : resolved'[e] = resolved[e]
      BY <1>2, <1>3, <2>2, <3>1 DEF TypeOK
    <3>3. Grows(d) /\ pc'[d] = "user" /\ checked' = checked
      BY <1>2, <3>1, SeenGrows DEF TypeOK, etcd, Continue
    <3>4. Checked(d)'  BY <1>2, <3>3 DEF DeliveryInv, Checked, LiveApp, Grows
    <3>5. Resolved(d)'  BY <2>2, <3>2, <3>3 DEF Resolved, LiveApp, Grows
    <3>6. checked' \in [Delivery -> AppValues \cup {None}]  BY <1>2 DEF TypeOK
    <3> QED  BY <1>2, <1>4, <3>1, <3>2, <3>4, <3>5, <3>6, Continues
  <2>4. CASE ~SenderKnown(checked[d], event)
    <3>1. Resolve(d, app, app.agent)  BY <1>1, <1>6, <2>4
    <3> QED  BY <1>2, <1>3, <1>4, <2>2, <2>4, <3>1, ResolveStep
  <2> QED  BY <2>3, <2>4
<1> QED  BY <1>5, <1>6

(* The user's agent replaces that of the app, or the app's stays.          *)
LEMMA ResolveUserStep ==
  ASSUME IInv, RecordSeen, NEW d \in Delivery, ResolveUser(d)
  PROVE  IInv'
<1> DEFINE a == resolved[d].app
           g == IF user # None /\ user.agent.url THEN user.agent ELSE a.agent
<1>1. PICK failed \in BOOLEAN :
        /\ Read(d, failed)
        /\ IF UserError(user, failed) # 0
             THEN Answer(d, UserError(user, failed)) /\ UNCHANGED resolved
             ELSE Resolve(d, a, g)
  BY DEF ResolveUser
<1>2. /\ TypeOK /\ DeliveryInv(d) /\ Handled(d) /\ Past(d) /\ pc[d] = "user"
      /\ UNCHANGED <<etcd, event, checked, jobs>>
  BY DEF IInv, ResolveUser, Handled, Past
<1>3. /\ user \in seenUser[d] /\ user \in UserValues
      /\ LiveApp(d, a) /\ seenApp[d] \subseteq AppValues
  BY <1>2 DEF DeliveryInv, Seen, TypeOK, Resolved
<1>4. /\ outage' \in [Delivery -> BOOLEAN] /\ (failed => outage'[d])
      /\ \A e \in Delivery \ {d} : outage'[e] = outage[e]
  BY <1>1, <1>2, ReadFacts
<1> HIDE DEF a
<1>5. CASE UserError(user, failed) # 0
  <2> DEFINE s == UserError(user, failed)
  <2>1. /\ s \in {403, 503} /\ Answer(d, s) /\ UNCHANGED resolved
        /\ s = 503 => failed \/ Cause(d, 503)
        /\ s = 403 => Cause(d, 403)
    BY <1>1, <1>3, <1>5, UserErrorFacts
  <2> HIDE DEF s
  <2>2. Cause(d, s) \/ (outage'[d] /\ s \in {404, 503})  BY <1>4, <2>1
  <2>3. s \in Statuses /\ s # 200  BY <2>1 DEF Statuses
  <2> QED  BY <1>2, <1>4, <2>1, <2>2, <2>3, Answers
<1>6. CASE UserError(user, failed) = 0
  <2>1. user = None \/ user.enabled  BY <1>3, <1>6, UserErrorFacts
  <2>2. Resolve(d, a, g)  BY <1>1, <1>6
  <2>3. a \in AppValues /\ a.agent \in Agents
    BY <1>3 DEF LiveApp, Agents
  <2>4. \E u \in seenUser[d] : u = None \/ u.enabled  BY <1>3, <2>1
  <2>5. CASE user # None /\ user.agent.url
    <3>1. g = user.agent /\ user.agent \in Agents  BY <1>3, <2>5 DEF Agents
    <3>2. \E u \in seenUser[d] \ {None} : u.enabled /\ u.agent.url /\ u.agent = user.agent
      BY <1>3, <2>1, <2>5
    <3>3. Resolve(d, a, user.agent)  BY <2>2, <3>1
    <3> QED  BY <1>2, <1>3, <1>4, <2>3, <2>4, <3>1, <3>2, <3>3, ResolveStep
  <2>6. CASE ~(user # None /\ user.agent.url)
    <3>1. Resolve(d, a, a.agent)  BY <2>2, <2>6
    <3> QED  BY <1>2, <1>3, <1>4, <2>3, <2>4, <3>1, ResolveStep
  <2> QED  BY <2>5, <2>6
<1> QED  BY <1>5, <1>6

(* The handler answers the event, and processes the message if it is one.  *)
LEMMA DispatchStep ==
  ASSUME IInv, RecordSeen, NEW d \in Delivery, Dispatch(d)
  PROVE  IInv'
<1> DEFINE s == IF ForBot(d) /\ ~HasContent(d) THEN 400 ELSE 200
           starts == ForBot(d) /\ HasContent(d)
<1>1. /\ TypeOK /\ DeliveryInv(d) /\ Handled(d) /\ pc[d] = "dispatch" /\ Answer(d, s)
      /\ jobs' = [jobs EXCEPT ![d] = IF starts THEN jobs[d] + 1 ELSE jobs[d]]
      /\ UNCHANGED <<app, user, changes, event, checked, resolved, outage>>
  BY DEF IInv, Dispatch, Handled, etcd
<1>2. s \in Statuses  BY DEF Statuses
<1>3. /\ pc' \in [Delivery -> HandlerStates] /\ pc'[d] = "answered"
      /\ status' \in [Delivery -> {0} \cup Statuses] /\ status'[d] = s
      /\ feishu' \in [Delivery -> {"none", "waiting", "accepted", "rejected", "gaveup"}]
      /\ feishu'[d] \in {"accepted", "rejected", "gaveup"}
      /\ feishu'[d] = "accepted" => s = 200
      /\ feishu'[d] = "rejected" => s # 200
      /\ \A e \in Delivery \ {d} :
           pc'[e] = pc[e] /\ status'[e] = status[e] /\ feishu'[e] = feishu[e]
      /\ InTurn'
  <2> HIDE DEF s
  <2> QED  BY <1>1, <1>2, AnswerFacts
<1>4. jobs[d] = 0 /\ Live(d)
  BY <1>1 DEF DeliveryInv, Steady, Handled, Resolved
<1>5. /\ jobs' \in [Delivery -> {0, 1}] /\ jobs'[d] = IF starts THEN 1 ELSE 0
      /\ \A e \in Delivery \ {d} : jobs'[e] = jobs[e]
  <2> HIDE DEF starts
  <2>1. (IF starts THEN jobs[d] + 1 ELSE jobs[d]) = (IF starts THEN 1 ELSE 0)  BY <1>4
  <2> QED  BY <1>1, <2>1 DEF TypeOK
<1>6. /\ seenApp' \in [Delivery -> SUBSET AppValues]
      /\ seenUser' \in [Delivery -> SUBSET UserValues] /\ Grows(d)
  BY <1>1, SeenGrows DEF TypeOK
<1>7. TypeOK'  BY <1>1, <1>3, <1>5, <1>6 DEF TypeOK, Statuses
<1>8. Steady(d)'  BY <1>3 DEF Steady
<1>9. Checked(d)' /\ Resolved(d)'  BY <1>3 DEF Checked, Resolved, Past
<1>10. Live(d)'  BY <1>1, <1>4, <1>6 DEF Live, LiveApp, Grows
<1>11. /\ resolved[d].app \in seenApp[d] \ {None} /\ checked[d] \in seenApp[d] \ {None}
  BY <1>4 DEF Live, LiveApp
<1>12. Processed(d)'
  <2>1. ASSUME jobs'[d] > 0
        PROVE  Kind(checked[d], event) = "message" /\ feishu'[d] \in {"accepted", "gaveup"}
    <3>1. starts  BY <1>5, <2>1
    <3> QED  BY <1>3, <3>1 DEF ForBot
  <2>2. ASSUME status'[d] = 200, jobs'[d] = 0, event.kind = "message"
        PROVE  Lost(d)
    <3>1. ~ForBot(d)  BY <1>3, <1>5, <2>2
    <3>2. CASE Kind(checked[d], event) # "message"
      <4>1. Opaque(checked[d], event)  BY <2>2, <3>2 DEF Kind
      <4> QED  BY <1>11, <4>1 DEF Opaque, Lost
    <3>3. CASE ~ShouldProcess(event, resolved[d].app.botName)
      BY <1>11, <3>3 DEF ShouldProcess, IsBotMentioned, Lost
    <3> QED  BY <3>1, <3>2, <3>3 DEF ForBot
  <2>3. Lost(d) => Lost(d)'  BY <1>1, <1>6, ReasonsStay
  <2> QED  BY <1>1, <1>10, <2>1, <2>2, <2>3 DEF Processed
<1>13. Explained(d)'
  <2> SUFFICES ASSUME status'[d] = 400  PROVE Cause(d, 400)'
    BY <1>3 DEF Explained, Reason, Refusals
  <2>1. ForBot(d) /\ ~HasContent(d)  BY <1>3
  <2>2. event.kind = "message"  BY <2>1 DEF ForBot, Kind
  <2>3. Cause(d, 400)  BY <1>11, <2>1, <2>2 DEF ForBot, HasContent, Cause, Malformed, AppsOf
  <2> QED  BY <1>1, <1>6, <2>3, ReasonsStay
<1>14. \A e \in Delivery \ {d} : Kept(e)  BY <1>1, <1>3, <1>5 DEF Kept
<1> QED  BY <1>1, <1>3, <1>7, <1>8, <1>9, <1>12, <1>13, <1>14, HandlerMoves

-----------------------------------------------------------------------------
(***************************************************************************)
(* The invariant and what follows from it.                                 *)
(***************************************************************************)
LEMMA InitIInv == Init => IInv
<1> SUFFICES ASSUME Init  PROVE IInv
  OBVIOUS
<1>1. TypeOK  BY CallbackAssumption DEF Init, TypeOK, HandlerStates
<1>2. InTurn  BY DEF Init, InTurn
<1>3. ASSUME NEW d \in Delivery  PROVE DeliveryInv(d)
  <2>1. /\ pc[d] = "idle" /\ feishu[d] = "none" /\ status[d] = 0 /\ jobs[d] = 0
    BY DEF Init
  <2> QED  BY <2>1 DEF DeliveryInv, Steady, Seen, Handled, Checked, Past, Resolved, Processed,
              Explained, Refusals
<1> QED  BY <1>1, <1>2, <1>3 DEF IInv

(* Every step keeps the invariant.                                         *)
LEMMA NextIInv == IInv /\ [Next]_vars => IInv'
<1>1. ASSUME IInv, Step, RecordSeen  PROVE IInv'
  <2>1. ASSUME NEW d \in Delivery, Deliver(d) \/ GiveUp(d) \/ HandlerStep(d)  PROVE IInv'
    BY <1>1, <2>1, DeliverStep, GiveUpStep, LookupAppStep, CheckStep, ResolveAppStep,
       ResolveUserStep, DispatchStep DEF HandlerStep
  <2>2. ASSUME NEW v \in AppValues, SetApp(v)  PROVE IInv'
    <3>1. /\ app' \in AppValues /\ user' \in UserValues /\ changes' \in 0 .. MaxChanges
          /\ UNCHANGED <<event, feishu, pc, checked, resolved, status, jobs, outage>>
      BY <1>1, <2>2, CallbackAssumption DEF SetApp, IInv, TypeOK
    <3> QED  BY <1>1, <3>1, OperatorStep
  <2>3. ASSUME NEW v \in UserValues, SetUser(v)  PROVE IInv'
    <3>1. /\ app' \in AppValues /\ user' \in UserValues /\ changes' \in 0 .. MaxChanges
          /\ UNCHANGED <<event, feishu, pc, checked, resolved, status, jobs, outage>>
      BY <1>1, <2>3, CallbackAssumption DEF SetUser, IInv, TypeOK
    <3> QED  BY <1>1, <3>1, OperatorStep
  <2> QED  BY <1>1, <2>1, <2>2, <2>3 DEF Step
<1>2. ASSUME IInv, UNCHANGED vars  PROVE IInv'
  <2>1. TypeOK' /\ InTurn'  BY <1>2 DEF IInv, TypeOK, InTurn, vars
  <2>2. \A d \in Delivery : Grows(d) /\ Kept(d)
    BY <1>2 DEF Grows, Kept, vars, IInv, DeliveryInv, Seen, Handled
  <2>3. UNCHANGED event  BY <1>2 DEF vars
  <2>4. \A d \in Delivery : DeliveryInv(d)'  BY <1>2, <2>2, <2>3, KeptInv DEF IInv
  <2> QED  BY <2>1, <2>4 DEF IInv
<1> QED  BY <1>1, <1>2 DEF Next, AllAnswered

(* The invariant holds in every state the callback can reach.              *)
THEOREM Invariance == Spec => []IInv
<1> QED  BY InitIInv, NextIInv, PTL DEF Spec

(* The variables keep their types; no delivery starts a second job.        *)
THEOREM Typing == Spec => []TypeOK
<1>1. IInv => TypeOK  BY DEF IInv
<1> QED  BY <1>1, Invariance, PTL

(* No answer but 200, be it 400, 401, 403, 404, 500 or 503, without a      *)
(* reason in the request or in what etcd held or failed to give while the  *)
(* request was handled, however operators change etcd between the three    *)
(* reads (callback.go:64-155, 225-238; etcd_loader.go:29-101).             *)
THEOREM EveryRefusalIsExplained == Spec => []RefusalsExplained
<1>1. IInv => RefusalsExplained
  <2> SUFFICES ASSUME IInv, NEW d \in Delivery, status[d] \notin {0, 200}
               PROVE  Reason(d, status[d])
    BY DEF RefusalsExplained, Reason
  <2>1. status[d] \in Refusals  BY DEF IInv, TypeOK, Refusals
  <2> QED  BY <2>1 DEF IInv, DeliveryInv, Explained
<1> QED  BY <1>1, Invariance, PTL

(* A message is never processed with a configuration that was not live     *)
(* while its request was handled (etcd_loader.go:52-101).                  *)
THEOREM JobsUseLiveConfigs == Spec => []JobConfigWasLive
<1>1. IInv => JobConfigWasLive
  <2> SUFFICES ASSUME IInv, NEW d \in Delivery, jobs[d] > 0
               PROVE  Live(d) /\ (event.hasUser => SenderKnown(checked[d], event))
    BY DEF JobConfigWasLive, Live, LiveApp
  <2>1. Live(d) /\ Kind(checked[d], event) = "message"  BY DEF IInv, DeliveryInv, Processed
  <2>2. ~Opaque(checked[d], event)  BY <2>1 DEF Kind
  <2> QED  BY <2>1, <2>2 DEF SenderKnown
<1> QED  BY <1>1, Invariance, PTL

(* The gateway remembers no event, yet a message is processed more than    *)
(* once only when Feishu gave up waiting (callback.go:240-246): of any two *)
(* deliveries with a job, Feishu has given up the earlier one.             *)
THEOREM NoDuplicateWithoutGivingUp == Spec => []DuplicatesOnlyAfterGivingUp
<1>1. IInv => DuplicatesOnlyAfterGivingUp
  <2> SUFFICES ASSUME IInv  PROVE DuplicatesOnlyAfterGivingUp
    OBVIOUS
  <2> DEFINE J == {d \in Delivery : jobs[d] > 0}
             G == {d \in Delivery : feishu[d] = "gaveup"}
  <2>1. IsFiniteSet(J) /\ IsFiniteSet(G)  BY CallbackAssumption, FS_Subset
  <2>2. Cardinality(J) \in Nat /\ Cardinality(G) \in Nat  BY <2>1, FS_CardinalityType
  <2>3. ASSUME NEW d \in J, NEW e \in J, d # e  PROVE d \in G \/ e \in G
    <3>1. d \in Nat /\ e \in Nat  BY DeliveryFacts
    <3>2. feishu[d] \in {"accepted", "gaveup"} /\ feishu[e] \in {"accepted", "gaveup"}
      BY DEF IInv, DeliveryInv, Processed
    <3>3. CASE d < e  BY <3>2, <3>3 DEF IInv, InTurn
    <3>4. CASE e < d  BY <3>2, <3>4 DEF IInv, InTurn
    <3> QED  BY <2>3, <3>1, <3>3, <3>4
  <2> HIDE DEF J, G
  <2>4. CASE J \subseteq G
    <3>1. Cardinality(J) <= Cardinality(G)  BY <2>1, <2>4, FS_Subset
    <3> QED  BY <2>2, <3>1 DEF DuplicatesOnlyAfterGivingUp, J, G
  <2>5. CASE ~(J \subseteq G)
    <3>1. PICK d \in J : d \notin G  BY <2>5
    <3>2. J \subseteq G \cup {d}  BY <2>3, <3>1
    <3>3. IsFiniteSet(G \cup {d}) /\ Cardinality(G \cup {d}) = Cardinality(G) + 1
      BY <2>1, <3>1, FS_AddElement
    <3>4. Cardinality(J) <= Cardinality(G) + 1  BY <3>2, <3>3, FS_Subset
    <3> QED  BY <2>2, <3>4 DEF DuplicatesOnlyAfterGivingUp, J, G
  <2> QED  BY <2>4, <2>5
<1> QED  BY <1>1, Invariance, PTL

(* An accepted message is lost only as the envelope of an app without a    *)
(* key, or in a group when the name etcd gives the bot is empty or not one *)
(* the message mentions (callback.go:90, 157-162, 185-188, 219-263;        *)
(* mentions.go:14-28).                                                     *)
THEOREM LostMessagesAreOpaqueOrUnnamed == Spec => []LostOnlyIfOpaqueOrUnnamed
<1>1. IInv => LostOnlyIfOpaqueOrUnnamed
  BY DEF IInv, DeliveryInv, Steady, Processed, Lost, LostOnlyIfOpaqueOrUnnamed
<1> QED  BY <1>1, Invariance, PTL
=============================================================================
