------------------------------ MODULE Gateway -------------------------------
(***************************************************************************)
(* The life of the gateway's messages as one system: the configuration in  *)
(* etcd that an operator changes, the queueing for the room of an app, and *)
(* the cache of agent clients the messages share.  The dispatcher is taken *)
(* by its promise, BoundedService, which Dispatch implements; the cache is *)
(* AgentCache with the messages as its workers.  A message is queued for   *)
(* the cache from the moment it is accepted, so its configuration ages     *)
(* while it waits for room.                                                *)
(***************************************************************************)
EXTENDS Integers, FiniteSets

CONSTANTS Msg, App, AppOf,               \* as in BoundedService
          Char, Key, Version, Usable, NoClient, MaxSize, TTL, MaxTime,
                                         \* as in AgentCache
          UsersOf,                       \* UsersOf[a]: the keys of the users of app a
          RoomOf                         \* RoomOf[v]: the capacity for max_concurrent in v

VARIABLES status, room, service,                             \* BoundedService
          config, now, cache, lru, job, usedAfter, staleUntil   \* AgentCache

serviceVars == <<status, room, service>>
cacheVars == <<config, now, cache, lru, job, usedAfter, staleUntil>>
vars == <<serviceVars, cacheVars>>

Service == INSTANCE BoundedService
Cache == INSTANCE AgentCache WITH Job <- Msg

ASSUME GatewayAssumption ==
  /\ IsFiniteSet(Msg)
  /\ AppOf \in [Msg -> App] /\ UsersOf \in [App -> SUBSET Key]
  /\ RoomOf \in [Version -> Nat \ {0}]
  /\ Cache!CacheAssumption

Init == Service!Init /\ Cache!Init

Recorded == Cache!RecordUse /\ Cache!RecordStale

(* The message of user k is resolved, answered with code 0 and handed over. *)
AcceptMsg(m, k) == Service!Accept(m) /\ Cache!Accept(m, k) /\ Recorded

(* Mistake: the semaphore follows max_concurrent. *)
RemakeRoom(m) ==
  /\ service = "up" /\ status[m] = "accepted"
  /\ room' = [room EXCEPT ![AppOf[m]] = RoomOf[job[m].version]] /\ room' # room
  /\ UNCHANGED <<status, service, cacheVars>>

(* The first message of the app to get so far makes the semaphore, as large *)
(* as the configuration it was resolved with says.                          *)
MakeRoom(m) ==
  /\ service = "up" /\ status[m] = "accepted"
  /\ room' = [room EXCEPT ![AppOf[m]] = RoomOf[job[m].version]]
  /\ Service!FixRoom(AppOf[m])
  /\ UNCHANGED cacheVars

StartMsg(m) == Service!Start(m) /\ UNCHANGED cacheVars

(* GetOrCreate runs in the worker, with a token of the app's semaphore. *)
LookUp(m) ==
  /\ service = "up" /\ status[m] = "running"
  /\ \/ Cache!Miss(m) \/ Cache!Expire(m) \/ Cache!Hit(m)
     \/ Cache!Replace(m) \/ Cache!Insert(m)
  /\ Recorded /\ UNCHANGED serviceVars

(* The rest of the worker, from the tenant token to the reply. *)
FinishMsg(m) == Service!Finish(m) /\ Cache!Finish(m) /\ Recorded

(* Mistake: the worker without a client does not give its token back. *)
KeepToken(m) == FALSE

(* No client could be built for the message. *)
GiveUp(m) == Service!Finish(m) /\ job[m].pc = "idle" /\ UNCHANGED cacheVars

(* Configuration and time pass; without the process nobody sees them do.   *)
Operator ==
  /\ service = "up"
  /\ (\E k \in Key, v \in Version : Cache!ChangeConfig(k, v)) \/ Cache!Tick
  /\ Recorded /\ UNCHANGED serviceVars

(* The cache is gone with the process. *)
End == /\ Service!Stop \/ Service!Kill
       /\ cache' = {} /\ lru' = <<>> /\ usedAfter' = {}
       /\ job' = [m \in Msg |-> Cache!Idle]
       /\ UNCHANGED <<config, now, staleUntil>>

Ended == service # "up" /\ UNCHANGED vars

MsgStep(m) == \/ \E k \in UsersOf[AppOf[m]] : AcceptMsg(m, k)
              \/ MakeRoom(m) \/ StartMsg(m) \/ LookUp(m) \/ FinishMsg(m) \/ GiveUp(m)

Next == (\E m \in Msg : MsgStep(m)) \/ Operator \/ End \/ Ended

Spec == Init /\ [][Next]_vars

(* Workers run, their calls end, and senders on a full channel are served  *)
(* in turn.  Nothing is assumed of Feishu, the clock and the operator.     *)
Fairness ==
  \A m \in Msg : /\ WF_vars(MakeRoom(m)) /\ SF_vars(StartMsg(m))
                 /\ WF_vars(LookUp(m)) /\ WF_vars(FinishMsg(m)) /\ WF_vars(GiveUp(m))

FairSpec == Spec /\ Fairness

-----------------------------------------------------------------------------
TypeOK ==
  /\ status \in [Msg -> {"new", "accepted", "running", "done"}]
  /\ room \in [App -> Nat]
  /\ service \in {"up", "stopped", "killed"}
  /\ Cache!TypeOK

(* Through all changes of max_concurrent an app has no more messages that  *)
(* build or use a client than the room its first message made for it: a    *)
(* worker at the cache or at the agent holds one of the app's tokens until *)
(* it is done with the client (callback.go:45-57, 265-311).                *)
WorkersHaveRoom ==
  \A a \in App :
    Cardinality({m \in Msg : AppOf[m] = a /\ job[m].pc \in {"creating", "using"}}) <= room[a]

(* A message is served through an outdated client only within one TTL of   *)
(* the last moment the client's configuration was current, or was still    *)
(* carried by a message that waited for room or built its client: however  *)
(* long the queue in front of an app and however many hits, old clients    *)
(* die out (agent_cache.go:55-61, callback.go:265-291).                    *)
OutdatedClientServedBriefly ==
  [][\A m \in Msg, k \in Key :
         /\ job[m].pc = "queued" /\ job'[m].pc = "using" /\ job'[m].client.key = k
         /\ job'[m].client.version # config[k]
       => now <= staleUntil[k] + TTL]_vars

(* Every message that was answered with code 0 is worked off, with a       *)
(* client or without, unless the process ends first (callback.go:242-272,  *)
(* 309-311).                                                               *)
EveryMessageEnds ==
  \A m \in Msg : status[m] = "accepted" ~> (status[m] = "done" \/ service # "up")
=============================================================================
