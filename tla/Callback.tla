------------------------------ MODULE Callback ------------------------------
(***************************************************************************)
(* The HTTP callback of one app and the configuration it reads from etcd   *)
(* (internal/handler/callback.go, internal/config/etcd_loader.go,          *)
(* internal/etcd/client.go).  Feishu delivers an event and delivers it     *)
(* again when it got no 200 in time.  Each delivery is handled on its own: *)
(* it reads the app, checks the request against what it read, reads the    *)
(* app a second time and the user, and then answers; operators may change  *)
(* etcd between any two of these reads.  Cryptography is abstracted to     *)
(* which key a body or a signature was made with.                          *)
(***************************************************************************)
EXTENDS Integers, FiniteSets

CONSTANTS Delivery,    \* 1 .. the number of times Feishu delivers the event
          Requests,    \* what the event may be
          AppValues,   \* what etcd may hold for the app
          UserValues,  \* what etcd may hold for the user
          MaxChanges,  \* bound on the changes operators make, for TLC
          None         \* no key, no token, no value

ASSUME CallbackAssumption ==
  /\ IsFiniteSet(Delivery) /\ Delivery = 1 .. Cardinality(Delivery)
  /\ MaxChanges \in Nat

(* A request: the key its body is encrypted with ("bad" for a ciphertext   *)
(* of odd length), the key it is signed with, its token, its kind, whether *)
(* the sender has a user ID, and of a message whether it is in a direct    *)
(* chat (dm), the names its mentions of bots give (bots), and what its     *)
(* content holds (says): "words", and the names whose placeholder stands   *)
(* in its text.                                                            *)
(* An app: key, token, enabled, agent, the form of its retry_base_delay as *)
(* JSON, and the name it gives its bot, "" if none; a user: enabled, agent *)
(* and that form.  An agent: type and whether it has a base URL.           *)

VARIABLES app,       \* the value at /changate/<app>, None if there is none
          user,      \* the value at /changate/<app>/<user>, None if none
          event,     \* the event Feishu delivers
          feishu,    \* feishu[d]: what Feishu makes of delivery d
          pc,        \* pc[d]: how far the handler of delivery d is
          checked,   \* checked[d]: the app as read first
          resolved,  \* resolved[d]: app and agent of the resolved configuration
          status,    \* status[d]: the answer, 0 before
          jobs,      \* jobs[d]: messages handed to processMessageAsync
          seenApp,   \* history: values of app while delivery d was handled
          seenUser,  \* history: values of user while delivery d was handled
          outage,    \* history: etcd failed to answer delivery d
          changes    \* number of changes made to etcd

etcd == <<app, user, changes>>
vars == <<app, user, event, feishu, pc, checked, resolved, status, jobs,
          seenApp, seenUser, outage, changes>>

Nobody == [app |-> None, agent |-> None]
HandlerStates == {"idle", "lookup", "check", "resolve", "user", "dispatch", "answered"}

Init == /\ app \in AppValues /\ user \in UserValues /\ event \in Requests
        /\ feishu = [d \in Delivery |-> "none"]
        /\ pc = [d \in Delivery |-> "idle"]
        /\ checked = [d \in Delivery |-> None]
        /\ resolved = [d \in Delivery |-> Nobody]
        /\ status = [d \in Delivery |-> 0]
        /\ jobs = [d \in Delivery |-> 0]
        /\ seenApp = [d \in Delivery |-> {}]
        /\ seenUser = [d \in Delivery |-> {}]
        /\ outage = [d \in Delivery |-> FALSE]
        /\ changes = 0

-----------------------------------------------------------------------------
(***************************************************************************)
(* Feishu and the operator                                                 *)
(***************************************************************************)
Deliver(d) ==
  /\ feishu[d] = "none"
  /\ d > 1 => feishu[d - 1] \in {"rejected", "gaveup"}
  /\ feishu' = [feishu EXCEPT ![d] = "waiting"]
  /\ pc' = [pc EXCEPT ![d] = "lookup"]
  /\ UNCHANGED <<etcd, event, checked, resolved, status, jobs, outage>>

(* Feishu waits a few seconds for an answer. *)
GiveUp(d) ==
  /\ feishu[d] = "waiting"
  /\ feishu' = [feishu EXCEPT ![d] = "gaveup"]
  /\ UNCHANGED <<etcd, event, pc, checked, resolved, status, jobs, outage>>

SetApp(v) == /\ changes < MaxChanges /\ changes' = changes + 1
             /\ app # v /\ app' = v
             /\ UNCHANGED <<user, event, feishu, pc, checked, resolved, status, jobs, outage>>

SetUser(v) == /\ changes < MaxChanges /\ changes' = changes + 1
              /\ user # v /\ user' = v
              /\ UNCHANGED <<app, event, feishu, pc, checked, resolved, status, jobs, outage>>

(***************************************************************************)
(* The handler.  Answer ends it; a 200 that Feishu still waits for settles *)
(* the event.                                                              *)
(***************************************************************************)
Answer(d, s) ==
  /\ pc' = [pc EXCEPT ![d] = "answered"]
  /\ status' = [status EXCEPT ![d] = s]
  /\ feishu' = [feishu EXCEPT ![d] = IF @ # "waiting" THEN @
                                     ELSE IF s = 200 THEN "accepted" ELSE "rejected"]

Continue(d, next) ==
  /\ pc' = [pc EXCEPT ![d] = next]
  /\ UNCHANGED <<status, feishu>>

(* json.Unmarshal accepts only a number for a time.Duration. *)
Decodes(v) == v.retryBaseDelay # "string"

(* What GetAppConfig followed by the test of Enabled says: every failure   *)
(* of the lookup is "app config lookup failed".                            *)
AppError(v, failed) == IF failed \/ v = None THEN 404
                       ELSE IF ~Decodes(v) THEN 404
                       ELSE IF ~v.enabled THEN 403
                       ELSE 0

(* etcd answers or it does not. *)
Read(d, failed) == outage' = [outage EXCEPT ![d] = @ \/ failed]

LookupApp(d) ==
  /\ pc[d] = "lookup"
  /\ \E failed \in BOOLEAN :
       /\ Read(d, failed)
       /\ IF AppError(app, failed) # 0
            THEN Answer(d, AppError(app, failed)) /\ UNCHANGED checked
            ELSE Continue(d, "check") /\ checked' = [checked EXCEPT ![d] = app]
  /\ UNCHANGED <<etcd, event, resolved, jobs>>

(* With a key, a body with an encrypt field must decrypt; a plain one is   *)
(* taken as it is.  Without a key, an encrypted body is read as it is, and *)
(* is then an event without type, token and sender.                        *)
DecryptFails(a, r) == a.key # None /\ r.body \notin {None, a.key}
Opaque(a, r) == a.key = None /\ r.body # None
Kind(a, r) == IF Opaque(a, r) THEN "other" ELSE r.kind
Token(a, r) == IF Opaque(a, r) THEN None ELSE r.token
SenderKnown(a, r) == ~Opaque(a, r) /\ r.hasUser

(* Mistake: a signature is asked for without a key to check it with. *)
SignatureAlwaysChecked(a, r) == r.signature # a.key

TokenMismatch(a, r) == a.token # None /\ Token(a, r) # a.token
SignatureFails(a, r) == a.key # None /\ r.signature # a.key

(* From the read of the body to the second test of the token; 0 goes on.   *)
(* A ciphertext that is no multiple of the block size panics.              *)
CheckAnswer(a, r) ==
  IF DecryptFails(a, r) THEN (IF r.body = "bad" THEN 500 ELSE 400)
  ELSE IF Kind(a, r) = "garbage" THEN 400
  ELSE IF Kind(a, r) = "challenge" THEN (IF TokenMismatch(a, r) THEN 401 ELSE 200)
  ELSE IF SignatureFails(a, r) \/ TokenMismatch(a, r) THEN 401
  ELSE 0

Check(d) ==
  /\ pc[d] = "check"
  /\ LET s == CheckAnswer(checked[d], event)
     IN  IF s # 0 THEN Answer(d, s) ELSE Continue(d, "resolve")
  /\ UNCHANGED <<etcd, event, checked, resolved, jobs, outage>>

(* GetResolvedConfig reads the app again ... *)
AgentError(g) == IF g.type = "" THEN 500
                 ELSE IF g.type \notin {"ChatCompletions", "OpenResponses"} THEN 503
                 ELSE 0

Resolve(d, a, g) ==
  IF AgentError(g) # 0
    THEN Answer(d, AgentError(g)) /\ UNCHANGED resolved
    ELSE /\ Continue(d, "dispatch")
         /\ resolved' = [resolved EXCEPT ![d] = [app |-> a, agent |-> g]]

ResolveApp(d) ==
  /\ pc[d] = "resolve"
  /\ \E failed \in BOOLEAN :
       /\ Read(d, failed)
       /\ IF AppError(app, failed) # 0
            THEN Answer(d, AppError(app, failed)) /\ UNCHANGED resolved
            ELSE IF SenderKnown(checked[d], event)
            THEN /\ Continue(d, "user")
                 /\ resolved' = [resolved EXCEPT ![d] = [app |-> app, agent |-> app.agent]]
            ELSE Resolve(d, app, app.agent)
  /\ UNCHANGED <<etcd, event, checked, jobs>>

(* Mistake: a disabled user is served. *)
UserErrorLax(v, failed) == IF failed THEN 503 ELSE IF v = None THEN 0
                           ELSE IF ~Decodes(v) THEN 503 ELSE 0

(* ... and the user, whose agent replaces that of the app as a whole if it *)
(* has a base URL.                                                         *)
UserError(v, failed) == IF failed THEN 503
                        ELSE IF v = None THEN 0
                        ELSE IF ~Decodes(v) THEN 503
                        ELSE IF ~v.enabled THEN 403
                        ELSE 0

ResolveUser(d) ==
  /\ pc[d] = "user"
  /\ \E failed \in BOOLEAN :
       /\ Read(d, failed)
       /\ LET a == resolved[d].app
          IN  IF UserError(user, failed) # 0
                THEN Answer(d, UserError(user, failed)) /\ UNCHANGED resolved
                ELSE Resolve(d, a, IF user # None /\ user.agent.url THEN user.agent ELSE a.agent)
  /\ UNCHANGED <<etcd, event, checked, jobs>>

(***************************************************************************)
(* handleMessageEvent, with the bot's name as the second reading of the    *)
(* app gave it.  In a direct chat every message is for the bot, elsewhere  *)
(* one that mentions it, and the bot's placeholder is cut from the text in *)
(* both.                                                                   *)
(***************************************************************************)
IsBotMentioned(r, name) == name # "" /\ name \in r.bots

ShouldProcess(r, name) == r.dm \/ IsBotMentioned(r, name)

Content(r, name) == IF IsBotMentioned(r, name) THEN r.says \ {name} ELSE r.says

ForBot(d) == /\ Kind(checked[d], event) = "message"
             /\ ShouldProcess(event, resolved[d].app.botName)
HasContent(d) == Content(event, resolved[d].app.botName) # {}

(* Mistakes: the handler goes on after it has started the job, it starts   *)
(* one for content it has refused, or it acknowledges such content.        *)
DispatchAgain(d) ==
  /\ pc[d] = "dispatch" /\ ForBot(d)
  /\ jobs' = [jobs EXCEPT ![d] = @ + 1]
  /\ UNCHANGED <<etcd, event, pc, feishu, status, checked, resolved, outage>>
DispatchRefused(d) ==
  /\ pc[d] = "dispatch" /\ Answer(d, IF HasContent(d) THEN 200 ELSE 400)
  /\ jobs' = [jobs EXCEPT ![d] = IF ForBot(d) THEN @ + 1 ELSE @]
  /\ UNCHANGED <<etcd, event, checked, resolved, outage>>
DispatchSilently(d) ==
  /\ pc[d] = "dispatch" /\ Answer(d, 200)
  /\ jobs' = [jobs EXCEPT ![d] = IF ForBot(d) /\ HasContent(d) THEN @ + 1 ELSE @]
  /\ UNCHANGED <<etcd, event, checked, resolved, outage>>

(* A message for the bot is refused or processed; any other event, and any *)
(* other message, is acknowledged.                                         *)
Dispatch(d) ==
  /\ pc[d] = "dispatch"
  /\ Answer(d, IF ForBot(d) /\ ~HasContent(d) THEN 400 ELSE 200)
  /\ jobs' = [jobs EXCEPT ![d] = IF ForBot(d) /\ HasContent(d) THEN @ + 1 ELSE @]
  /\ UNCHANGED <<etcd, event, checked, resolved, outage>>

HandlerStep(d) == LookupApp(d) \/ Check(d) \/ ResolveApp(d) \/ ResolveUser(d) \/ Dispatch(d)

(* History: what etcd held between the delivery and the answer. *)
Handled(d) == pc[d] \notin {"idle", "answered"}

RecordSeen ==
  /\ seenApp' = [d \in Delivery |-> IF Handled(d)' THEN seenApp[d] \cup {app'} ELSE seenApp[d]]
  /\ seenUser' = [d \in Delivery |-> IF Handled(d)' THEN seenUser[d] \cup {user'} ELSE seenUser[d]]

(* Nothing more is modelled once every delivery is answered. *)
AllAnswered == /\ \A d \in Delivery : pc[d] = "answered" \/ feishu[d] = "none"
               /\ UNCHANGED vars

Step == \/ \E d \in Delivery : Deliver(d) \/ GiveUp(d) \/ HandlerStep(d)
        \/ \E v \in AppValues : SetApp(v)
        \/ \E v \in UserValues : SetUser(v)

Next == (Step /\ RecordSeen) \/ AllAnswered

Spec == Init /\ [][Next]_vars

-----------------------------------------------------------------------------
Agents == {v.agent : v \in (AppValues \cup UserValues) \ {None}}

TypeOK ==
  /\ app \in AppValues /\ user \in UserValues /\ event \in Requests
  /\ feishu \in [Delivery -> {"none", "waiting", "accepted", "rejected", "gaveup"}]
  /\ pc \in [Delivery -> HandlerStates]
  /\ checked \in [Delivery -> AppValues \cup {None}]
  /\ resolved \in [Delivery -> [app : AppValues, agent : Agents] \cup {Nobody}]
  /\ status \in [Delivery -> {0, 200, 400, 401, 403, 404, 500, 503}]
  /\ jobs \in [Delivery -> {0, 1}]
  /\ seenApp \in [Delivery -> SUBSET AppValues]
  /\ seenUser \in [Delivery -> SUBSET UserValues]
  /\ outage \in [Delivery -> BOOLEAN]
  /\ changes \in 0 .. MaxChanges

(* What etcd must have held while delivery d was handled, or Feishu must   *)
(* have sent, for each answer.                                             *)
AppsOf(d) == seenApp[d] \ {None}
UsersOf(d) == seenUser[d] \ {None}

Malformed(d) ==
  \/ event.kind = "garbage"
  \/ \E a \in AppsOf(d) : a.key # None /\ event.body \notin {None, "bad", a.key}
  \/ /\ event.kind = "message"
     /\ \E a \in AppsOf(d) : ShouldProcess(event, a.botName) /\ Content(event, a.botName) = {}

Unverified(d) ==
  \E a \in AppsOf(d) : \/ a.key # None /\ event.signature # a.key
                       \/ a.token # None /\ event.token # a.token
                       \/ a.token # None /\ a.key = None /\ event.body # None

Disabled(d) == \E v \in AppsOf(d) \cup UsersOf(d) : ~v.enabled

Unreadable(d) == None \in seenApp[d] \/ \E a \in AppsOf(d) : ~Decodes(a)

Panicking(d) == event.body = "bad" /\ \E a \in AppsOf(d) : a.key # None

AgentWas(d, error) ==
  \/ \E a \in AppsOf(d) : AgentError(a.agent) = error
  \/ \E u \in UsersOf(d) : u.agent.url /\ AgentError(u.agent) = error

Cause(d, s) == \/ s = 400 /\ Malformed(d)
               \/ s = 401 /\ Unverified(d)
               \/ s = 403 /\ Disabled(d)
               \/ s = 404 /\ Unreadable(d)
               \/ s = 500 /\ (Panicking(d) \/ AgentWas(d, 500))
               \/ s = 503 /\ (AgentWas(d, 503) \/ \E u \in UsersOf(d) : ~Decodes(u))

(* Every answer but a 200 is explained by what the request was and by      *)
(* something etcd held, or by an outage, while it was handled, whichever   *)
(* of the three reads met it and however the configuration changed in      *)
(* between (callback.go:64-155, 225-238; etcd_loader.go:29-101).           *)
RefusalsExplained ==
  \A d \in Delivery :
    status[d] \notin {0, 200}
      => Cause(d, status[d]) \/ (outage[d] /\ status[d] \in {404, 503})

(* A message is processed only with the configuration of an app and a user *)
(* that etcd held, enabled, while the request was handled, and an agent of *)
(* a known type that comes whole from one of them; and the request was     *)
(* checked against an enabled app too (etcd_loader.go:52-101).             *)
JobConfigWasLive ==
  \A d \in Delivery :
    jobs[d] > 0 =>
      /\ checked[d] \in seenApp[d] /\ checked[d].enabled
      /\ resolved[d].app \in seenApp[d] /\ resolved[d].app.enabled
      /\ AgentError(resolved[d].agent) = 0
      /\ \/ resolved[d].agent = resolved[d].app.agent
         \/ \E u \in seenUser[d] \ {None} : u.enabled /\ u.agent.url /\ u.agent = resolved[d].agent
      /\ event.hasUser => \E u \in seenUser[d] : u = None \/ u.enabled

(* The handler keeps no record of the events it has seen; what limits the  *)
(* number of times a message is processed is that a delivery that started  *)
(* its processing is answered 200: there is at most one more job than      *)
(* there are answers Feishu did not wait for (callback.go:240-246).        *)
DuplicatesOnlyAfterGivingUp ==
  Cardinality({d \in Delivery : jobs[d] > 0})
    <= 1 + Cardinality({d \in Delivery : feishu[d] = "gaveup"})

(* A message that is answered 200 and never processed was either encrypted *)
(* while the app had no encrypt_key, so that the handler took its envelope *)
(* for an event of unknown type, or is of a group and mentions no bot by   *)
(* the name that etcd gave the app's while the request was handled: the    *)
(* name may be missing, or have changed since the message was written      *)
(* (callback.go:90, 157-162, 185-188, 219-263; mentions.go:14-28).         *)
LostOnlyIfOpaqueOrUnnamed ==
  \A d \in Delivery :
    feishu[d] = "accepted" /\ jobs[d] = 0 /\ event.kind = "message"
      => \/ event.body # None /\ \E a \in seenApp[d] \ {None} : a.key = None
         \/ /\ ~event.dm
            /\ \E a \in seenApp[d] \ {None} : a.botName = "" \/ a.botName \notin event.bots

(* The README shows an app configuration with "retry_base_delay": "100ms"; *)
(* an app so configured is found.  It is not: the decoder wants a number   *)
(* for time.Duration.                                                      *)
DocumentedAppIsFound ==
  \A d \in Delivery : status[d] = 404 => outage[d] \/ None \in seenApp[d]
=============================================================================
