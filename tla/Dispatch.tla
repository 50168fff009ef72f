------------------------------ MODULE Dispatch ------------------------------
(***************************************************************************)
(* How the gateway runs the messages it has accepted: the HTTP handler     *)
(* counts the message and starts an outer goroutine, which takes a token   *)
(* of the app's semaphore and starts the inner goroutine that does the     *)
(* work; on SIGTERM main drains the HTTP server and then waits for the     *)
(* counter of in-flight messages (internal/handler/callback.go,            *)
(* cmd/server/main.go).  The semaphore channel is represented by its       *)
(* capacity and the number of tokens in its buffer.                        *)
(***************************************************************************)
EXTENDS Integers, FiniteSets

CONSTANTS Msg,              \* messages Feishu may deliver
          App,              \* configured apps
          AppOf,            \* the app each message is delivered to
          MaxConcurrent,    \* the values max_concurrent takes in etcd over time
          DefaultCapacity   \* 100 in the code

ASSUME DispatchAssumption ==
  /\ IsFiniteSet(Msg)
  /\ AppOf \in [Msg -> App]
  /\ MaxConcurrent \subseteq Int
  /\ DefaultCapacity \in Nat \ {0}

VARIABLES main,      \* where the main goroutine is
          forced,    \* srv.Shutdown gave up waiting for handlers, or a panic
          handler,   \* handler[m]: the request's handler goroutine
          outer,     \* outer[m]: the goroutine started by handleMessageEvent
          inner,     \* inner[m]: the goroutine started by processMessageAsync
          active,    \* h.active
          capacity,  \* capacity[a]: cap(h.semaphores[a]), 0 when not in the map
          tokens     \* tokens[a]: len(h.semaphores[a])

vars == <<main, forced, handler, outer, inner, active, capacity, tokens>>

MainStates == {"serving", "draining", "waiting", "leaving", "exited"}
HandlerStates == {"idle", "handling", "counted", "returned"}
OuterStates == {"none", "start", "sending", "spawning", "returning", "done"}
InnerStates == {"none", "running", "releasing", "done"}

(* h.active is the size of OuterLive less the size of Finished. *)
OuterLive == {m \in Msg : handler[m] = "counted" \/ outer[m] \notin {"none", "done"}}
Finished == {m \in Msg : inner[m] \in {"releasing", "done"}}
(* Messages that own a token of their app's semaphore. *)
Holders(a) == {m \in Msg : /\ AppOf[m] = a
                           /\ outer[m] = "spawning" \/ inner[m] \in {"running", "releasing"}}
InFlight == {m \in Msg : handler[m] = "counted" \/ outer[m] \notin {"none", "done"}
                                               \/ inner[m] = "running"}

Init == /\ main = "serving" /\ forced = FALSE
        /\ handler = [m \in Msg |-> "idle"]
        /\ outer = [m \in Msg |-> "none"]
        /\ inner = [m \in Msg |-> "none"]
        /\ active = 0
        /\ capacity = [a \in App |-> 0]
        /\ tokens = [a \in App |-> 0]

(* Every goroutine dies with the process. *)
Alive == main # "exited"

(***************************************************************************)
(* The HTTP handler                                                        *)
(***************************************************************************)

(* The listener accepts connections until srv.Shutdown closes it. *)
Receive(m) ==
  /\ main = "serving" /\ handler[m] = "idle"
  /\ handler' = [handler EXCEPT ![m] = "handling"]
  /\ UNCHANGED <<main, forced, outer, inner, active, capacity, tokens>>

(* Every early return of HandleCallback and of handleMessageEvent. *)
Decline(m) ==
  /\ Alive /\ handler[m] = "handling"
  /\ handler' = [handler EXCEPT ![m] = "returned"]
  /\ UNCHANGED <<main, forced, outer, inner, active, capacity, tokens>>

(* Mistake: the message is not counted. *)
CountForgotten(m) ==
  /\ Alive /\ handler[m] = "handling"
  /\ handler' = [handler EXCEPT ![m] = "counted"]
  /\ UNCHANGED <<main, forced, outer, inner, active, capacity, tokens>>

Count(m) ==
  /\ Alive /\ handler[m] = "handling"
  /\ handler' = [handler EXCEPT ![m] = "counted"]
  /\ active' = active + 1
  /\ UNCHANGED <<main, forced, outer, inner, capacity, tokens>>

(* The handler returns with nothing left to do, and the buffered answer    *)
(* {"code": 0} leaves.                                                     *)
SpawnOuter(m) ==
  /\ Alive /\ handler[m] = "counted"
  /\ handler' = [handler EXCEPT ![m] = "returned"]
  /\ outer' = [outer EXCEPT ![m] = "start"]
  /\ UNCHANGED <<main, forced, inner, active, capacity, tokens>>

(***************************************************************************)
(* The outer goroutine                                                     *)
(***************************************************************************)

(* Mistake: an unusable limit is taken as it is. *)
CapacityUnchecked(k) == k

CapacityFor(k) == IF k <= 0 THEN DefaultCapacity ELSE k

(* Mistake: every message makes a new semaphore. *)
GetFreshSemaphore(m, k) ==
  /\ Alive /\ outer[m] = "start"
  /\ outer' = [outer EXCEPT ![m] = "sending"]
  /\ capacity' = [capacity EXCEPT ![AppOf[m]] = CapacityFor(k)]
  /\ UNCHANGED <<main, forced, handler, inner, active, tokens>>

(* getSemaphore: k is the max_concurrent of the configuration the request  *)
(* was resolved with, which counts only for the first message of the app.  *)
GetSemaphore(m, k) ==
  /\ Alive /\ outer[m] = "start"
  /\ outer' = [outer EXCEPT ![m] = "sending"]
  /\ capacity' = IF capacity[AppOf[m]] = 0
                   THEN [capacity EXCEPT ![AppOf[m]] = CapacityFor(k)]
                   ELSE capacity
  /\ UNCHANGED <<main, forced, handler, inner, active, tokens>>

(* Mistake: the send does not block. *)
AcquireUnbounded(m) ==
  /\ Alive /\ outer[m] = "sending"
  /\ tokens' = [tokens EXCEPT ![AppOf[m]] = @ + 1]
  /\ outer' = [outer EXCEPT ![m] = "spawning"]
  /\ UNCHANGED <<main, forced, handler, inner, active, capacity>>

Acquire(m) ==
  /\ Alive /\ outer[m] = "sending"
  /\ tokens[AppOf[m]] < capacity[AppOf[m]]
  /\ tokens' = [tokens EXCEPT ![AppOf[m]] = @ + 1]
  /\ outer' = [outer EXCEPT ![m] = "spawning"]
  /\ UNCHANGED <<main, forced, handler, inner, active, capacity>>

SpawnInner(m) ==
  /\ Alive /\ outer[m] = "spawning"
  /\ outer' = [outer EXCEPT ![m] = "returning"]
  /\ inner' = [inner EXCEPT ![m] = "running"]
  /\ UNCHANGED <<main, forced, handler, active, capacity, tokens>>

(* The deferred h.active.Add(-1) of the outer goroutine. *)
EndOuter(m) ==
  /\ Alive /\ outer[m] = "returning"
  /\ outer' = [outer EXCEPT ![m] = "done"]
  /\ active' = active - 1
  /\ UNCHANGED <<main, forced, handler, inner, capacity, tokens>>

(***************************************************************************)
(* The inner goroutine.  Its work ends at one of many returns; the         *)
(* deferred function then counts the message down once more and gives the  *)
(* token back.                                                             *)
(***************************************************************************)
EndInner(m) ==
  /\ Alive /\ inner[m] = "running"
  /\ inner' = [inner EXCEPT ![m] = "releasing"]
  /\ active' = active - 1
  /\ UNCHANGED <<main, forced, handler, outer, capacity, tokens>>

(* Mistake: the token is not given back. *)
ReleaseForgotten(m) ==
  /\ Alive /\ inner[m] = "releasing"
  /\ inner' = [inner EXCEPT ![m] = "done"]
  /\ UNCHANGED <<main, forced, handler, outer, active, capacity, tokens>>

(* A receive blocks while the buffer is empty. *)
Release(m) ==
  /\ Alive /\ inner[m] = "releasing"
  /\ tokens[AppOf[m]] > 0
  /\ tokens' = [tokens EXCEPT ![AppOf[m]] = @ - 1]
  /\ inner' = [inner EXCEPT ![m] = "done"]
  /\ UNCHANGED <<main, forced, handler, outer, active, capacity>>

(***************************************************************************)
(* The main goroutine                                                      *)
(***************************************************************************)
others == <<handler, outer, inner, active, capacity, tokens>>

Signal == main = "serving" /\ main' = "draining" /\ UNCHANGED <<forced, others>>

(* srv.Shutdown returns once no connection has a request in progress ... *)
ShutdownDone ==
  /\ main = "draining"
  /\ \A m \in Msg : handler[m] \in {"idle", "returned"}
  /\ main' = "waiting"
  /\ UNCHANGED <<forced, others>>

(* ... or after 30 seconds, leaving the handlers running. *)
ShutdownTimeout ==
  /\ main = "draining"
  /\ main' = "waiting" /\ forced' = TRUE
  /\ UNCHANGED others

(* Mistakes: the poll stops one short, or only at exactly 0. *)
WaitDoneEarly ==
  main = "waiting" /\ active <= 1 /\ main' = "leaving" /\ UNCHANGED <<forced, others>>
WaitForZero ==
  main = "waiting" /\ active = 0 /\ main' = "leaving" /\ UNCHANGED <<forced, others>>

(* The poll of WaitForCompletion that reads a counter not above 0. *)
WaitDone ==
  /\ main = "waiting" /\ active <= 0
  /\ main' = "leaving"
  /\ UNCHANGED <<forced, others>>

Exit == main = "leaving" /\ main' = "exited" /\ UNCHANGED <<forced, others>>

(* A panic in the work for a message, which no goroutine recovers, ends    *)
(* the process.                                                            *)
Panic == /\ Alive /\ (\E m \in Msg : inner[m] = "running")
         /\ main' = "exited" /\ forced' = TRUE
         /\ UNCHANGED others

Exited == main = "exited" /\ UNCHANGED vars

MainStep == ShutdownDone \/ ShutdownTimeout \/ WaitDone \/ Exit

MsgStep(m) == \/ Receive(m) \/ Decline(m) \/ Count(m) \/ SpawnOuter(m)
              \/ \E k \in MaxConcurrent : GetSemaphore(m, k)
              \/ Acquire(m) \/ SpawnInner(m) \/ EndOuter(m)
              \/ EndInner(m) \/ Release(m)

Next == (\E m \in Msg : MsgStep(m)) \/ Signal \/ MainStep \/ Panic \/ Exited

Spec == Init /\ [][Next]_vars

(***************************************************************************)
(* A runnable goroutine runs.  The work of the inner goroutine ends, since *)
(* each of its calls is under a context or client timeout.  Senders        *)
(* blocked on a channel are served first come first served, so none is     *)
(* passed over for ever: strong fairness of Acquire.  Main runs, and the   *)
(* timer of Shutdown fires.  Nothing is assumed of clients and of the      *)
(* operator: no fairness for Receive, Decline, Count or Signal.           *)
(***************************************************************************)
Fairness ==
  /\ WF_vars(MainStep)
  /\ \A m \in Msg :
       /\ WF_vars(SpawnOuter(m))
       /\ WF_vars(\E k \in MaxConcurrent : GetSemaphore(m, k))
       /\ SF_vars(Acquire(m))
       /\ WF_vars(SpawnInner(m)) /\ WF_vars(EndOuter(m))
       /\ WF_vars(EndInner(m)) /\ WF_vars(Release(m))

FairSpec == Spec /\ Fairness

-----------------------------------------------------------------------------
TypeOK ==
  /\ main \in MainStates
  /\ forced \in BOOLEAN
  /\ handler \in [Msg -> HandlerStates]
  /\ outer \in [Msg -> OuterStates]
  /\ inner \in [Msg -> InnerStates]
  /\ active \in Int
  /\ capacity \in [App -> Nat]
  /\ tokens \in [App -> Nat]

(* The buffer of every semaphore holds one token for each message of the   *)
(* app between the send in processMessageAsync and the deferred receive:   *)
(* whichever of its returns the worker takes, no token leaks and none is   *)
(* given back twice.  Hence the receive never blocks.                      *)
TokenAccounting == \A a \in App : tokens[a] = Cardinality(Holders(a))

(* No app has more messages at work than its semaphore has room for,       *)
(* however the handlers, the two goroutines per message and the first      *)
(* creation of the semaphore interleave (callback.go:45-58, 265-272).      *)
ConcurrencyBound ==
  \A a \in App : Cardinality({m \in Msg : AppOf[m] = a /\ inner[m] = "running"}) <= capacity[a]

(* What the counter of in-flight messages counts: it goes up once for a    *)
(* message and down twice, so it is the number of messages still on their  *)
(* way to a worker less the number of messages completed since the start   *)
(* of the process (callback.go:242, 244, 270).                             *)
ActiveAccounting == active = Cardinality(OuterLive) - Cardinality(Finished)

(* What a shutdown that was not forced does guarantee: when main leaves,   *)
(* no more messages are still on their way to a worker than have been      *)
(* completed in the life of the process (callback.go:395-399, main.go:58). *)
ExitBacklog ==
  main \in {"leaving", "exited"} /\ ~forced
    => Cardinality(OuterLive) <= Cardinality(Finished)

(* What the shutdown log line "Waiting for in-flight requests..." and the  *)
(* name WaitForCompletion say: unless the shutdown was forced, the process *)
(* exits with no accepted message unfinished.  The code does not.          *)
WaitsForInFlight == main = "exited" /\ ~forced => InFlight = {}

(* Every message the handler has handed over is worked off in the end,     *)
(* even when its app is at its limit, unless the process exits first.      *)
EveryMessageCompletes ==
  \A m \in Msg : handler[m] = "counted" ~> (inner[m] = "done" \/ main = "exited")

(* Shutdown always ends, with handlers stuck and messages queued: neither  *)
(* the counter nor the semaphores can keep the process from exiting.       *)
ShutdownTerminates == main = "draining" ~> main = "exited"

(***************************************************************************)
(* The dispatcher implements the bounded service.                          *)
(***************************************************************************)
Status(m) == IF inner[m] \in {"releasing", "done"} THEN "done"
             ELSE IF inner[m] = "running" THEN "running"
             ELSE IF handler[m] = "counted" \/ outer[m] # "none" THEN "accepted"
             ELSE "new"

ServiceState == IF main # "exited" THEN "up" ELSE IF forced THEN "killed" ELSE "stopped"

Service == INSTANCE BoundedService
             WITH status <- [m \in Msg |-> Status(m)],
                  room <- capacity,
                  service <- ServiceState

(* Every behaviour of the two goroutines, the counter and the semaphores   *)
(* is one of the bounded service, its fairness included.                   *)
ImplementsService == Service!FairSpec
=============================================================================
