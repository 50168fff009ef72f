--------------------------- MODULE BoundedService ---------------------------
(***************************************************************************)
(* What the message dispatcher of the gateway promises, without its        *)
(* goroutines, channels and counters.  A message is accepted (answered     *)
(* with code 0), later runs while its app has room for it, and is done.    *)
(* The room of an app is fixed by the first message that needs it.  The    *)
(* service may be stopped only when no more messages wait for their turn   *)
(* than have completed, and may be killed at any time.                     *)
(***************************************************************************)
EXTENDS Integers, FiniteSets

CONSTANTS Msg, App, AppOf

VARIABLES status,   \* status[m]: how far message m has come
          room,     \* room[a]: how many messages of app a may run; 0 = not fixed yet
          service   \* "up", "stopped" or "killed"

vars == <<status, room, service>>

Waiting == {m \in Msg : status[m] = "accepted"}
Running(a) == {m \in Msg : status[m] = "running" /\ AppOf[m] = a}
Done == {m \in Msg : status[m] = "done"}

Init == /\ status = [m \in Msg |-> "new"]
        /\ room = [a \in App |-> 0]
        /\ service = "up"

Accept(m) == /\ service = "up" /\ status[m] = "new"
             /\ status' = [status EXCEPT ![m] = "accepted"]
             /\ UNCHANGED <<room, service>>

FixRoom(a) == /\ service = "up" /\ room[a] = 0
              /\ room'[a] \in Nat \ {0}
              /\ room' = [room EXCEPT ![a] = room'[a]]
              /\ UNCHANGED <<status, service>>

HasRoom(a) == Cardinality(Running(a)) < room[a]

Start(m) == /\ service = "up" /\ status[m] = "accepted" /\ HasRoom(AppOf[m])
            /\ status' = [status EXCEPT ![m] = "running"]
            /\ UNCHANGED <<room, service>>

Finish(m) == /\ service = "up" /\ status[m] = "running"
             /\ status' = [status EXCEPT ![m] = "done"]
             /\ UNCHANGED <<room, service>>

Stop == /\ service = "up"
        /\ Cardinality(Waiting) <= Cardinality(Done)
        /\ service' = "stopped"
        /\ UNCHANGED <<status, room>>

Kill == service = "up" /\ service' = "killed" /\ UNCHANGED <<status, room>>

Next == \/ \E m \in Msg : Accept(m) \/ Start(m) \/ Finish(m)
        \/ \E a \in App : FixRoom(a)
        \/ Stop
        \/ Kill

Spec == Init /\ [][Next]_vars

(* A message with room gets its turn in the end, and a running message     *)
(* ends.  Nothing obliges the service to accept, or to stop.               *)
Fairness == \A m \in Msg : SF_vars(Start(m)) /\ WF_vars(Finish(m))

FairSpec == Spec /\ Fairness
=============================================================================
