---------------------------- MODULE GatewayProofs ----------------------------
(***************************************************************************)
(* Proofs about the gateway as one system, for any number of messages,     *)
(* apps and users.  What is proved of the cache on its own carries over:   *)
(* every step of the gateway is a step of the cache, leaves it alone, or   *)
(* ends the process and the cache with it.                                 *)
(***************************************************************************)
EXTENDS Gateway, Sequences, FiniteSetTheorems, TLAPS

Proved == INSTANCE AgentCacheProofs WITH Job <- Msg

(* The gateway's constants are such as the cache's proofs assume.          *)
LEMMA CacheConstants == Proved!CacheAssumption
BY GatewayAssumption DEF Cache!CacheAssumption, Proved!CacheAssumption

-----------------------------------------------------------------------------
(***************************************************************************)
(* The steps of the gateway as steps of the cache.                         *)
(***************************************************************************)
(* The workers and the world around them do what they do in AgentCache.    *)
LEMMA CacheActions ==
  ASSUME NEW m \in Msg
  PROVE  /\ \A k \in Key : Cache!Accept(m, k) => Proved!Accept(m, k)
         /\ Cache!Miss(m) => Proved!Miss(m)
         /\ Cache!Expire(m) => Proved!Expire(m)
         /\ Cache!Hit(m) => Proved!Hit(m)
         /\ Cache!Replace(m) => Proved!Replace(m)
         /\ Cache!Insert(m) => Proved!Insert(m)
         /\ Cache!Finish(m) => Proved!Finish(m)
<1>1. \A k \in Key : Cache!Accept(m, k) => Proved!Accept(m, k)
  BY DEF Cache!Accept, Proved!Accept
<1>2. Cache!Miss(m) => Proved!Miss(m)
  BY DEF Cache!Miss, Proved!Miss, Cache!KeyString, Proved!KeyString
<1>3. Cache!Expire(m) => Proved!Expire(m)
  BY DEF Cache!Expire, Proved!Expire, Cache!Position, Proved!Position, Cache!Expired,
     Proved!Expired, Cache!RemoveAt, Proved!RemoveAt, Cache!KeyString, Proved!KeyString
<1>4. Cache!Hit(m) => Proved!Hit(m)
  BY DEF Cache!Hit, Proved!Hit, Cache!Position, Proved!Position, Cache!Expired,
     Proved!Expired, Cache!ToFront, Proved!ToFront, Cache!RemoveAt, Proved!RemoveAt,
     Cache!KeyString, Proved!KeyString
<1>5. Cache!Replace(m) => Proved!Replace(m)
  BY DEF Cache!Replace, Proved!Replace, Cache!Position, Proved!Position, Cache!Created,
     Proved!Created, Cache!Factory, Proved!Factory, Cache!TakeCreated, Proved!TakeCreated,
     Cache!Idle, Proved!Idle, Cache!ToFront, Proved!ToFront, Cache!RemoveAt, Proved!RemoveAt,
     Cache!KeyString, Proved!KeyString
<1>6. Cache!Insert(m) => Proved!Insert(m)
  BY DEF Cache!Insert, Proved!Insert, Cache!Created, Proved!Created, Cache!Factory,
     Proved!Factory, Cache!TakeCreated, Proved!TakeCreated, Cache!Idle, Proved!Idle,
     Cache!Kept, Proved!Kept, Cache!KeptStrings, Proved!KeptStrings, Cache!Full, Proved!Full,
     Cache!Front, Proved!Front, Cache!Last, Proved!Last, Cache!KeyString, Proved!KeyString
<1>7. Cache!Finish(m) => Proved!Finish(m)
  BY DEF Cache!Finish, Proved!Finish, Cache!Idle, Proved!Idle
<1> QED  BY <1>1, <1>2, <1>3, <1>4, <1>5, <1>6, <1>7

(* The history variables are kept as in the cache alone.                   *)
LEMMA Recording == Recorded => Proved!RecordUse /\ Proved!RecordStale
BY DEF Recorded, Cache!RecordUse, Proved!RecordUse, Cache!RecordStale, Proved!RecordStale,
   Cache!Latest, Proved!Latest, Cache!Uses, Proved!Uses, Cache!Outdated, Proved!Outdated,
   Cache!KeyString, Proved!KeyString

(* The operator acts on the gateway's cache as on the cache alone.         *)
LEMMA Surroundings ==
  ASSUME NEW k \in Key, NEW v \in Version
  PROVE  Cache!ChangeConfig(k, v) => Proved!ChangeConfig(k, v)
BY DEF Cache!ChangeConfig, Proved!ChangeConfig

(* Time passes for the gateway as for the cache.                           *)
LEMMA Clock == Cache!Tick => Proved!Tick
BY DEF Cache!Tick, Proved!Tick

-----------------------------------------------------------------------------
(***************************************************************************)
(* The inductive invariant: that of the cache, the types of the rest, and  *)
(* what the tokens of the apps have to do with both.                       *)
(***************************************************************************)
ServiceTyped ==
  /\ status \in [Msg -> {"new", "accepted", "running", "done"}]
  /\ room \in [App -> Nat]
  /\ service \in {"up", "stopped", "killed"}

Running(a) == {m \in Msg : status[m] = "running" /\ AppOf[m] = a}
Serving(m) == job[m].pc \in {"creating", "using"}

RoomKept == \A a \in App : Cardinality(Running(a)) <= room[a]
ServingRuns == \A m \in Msg : Serving(m) => status[m] = "running"

IInv == ServiceTyped /\ RoomKept /\ ServingRuns /\ Proved!IInv

(* A step that leaves the cache alone, or is one of its steps.             *)
LEMMA CacheKept ==
  ASSUME Proved!IInv, [Proved!Next]_cacheVars
  PROVE  Proved!IInv'
<1>1. [Proved!Next]_(Proved!vars)  BY DEF cacheVars, Proved!vars
<1> QED  BY <1>1, CacheConstants, Proved!NextIInv

(* The next process starts with an empty cache.                            *)
LEMMA EndStep ==
  ASSUME Proved!IInv, End
  PROVE  Proved!IInv'
<1>1. /\ cache' = {} /\ lru' = <<>> /\ usedAfter' = {} /\ job' = [m \in Msg |-> Cache!Idle]
      /\ UNCHANGED <<config, now, staleUntil>>
  BY DEF End
<1>2. Len(lru') = 0 /\ DOMAIN lru' = {} /\ lru' \in Seq(Proved!Entry)  BY <1>1
<1>3. job' \in [Msg -> Proved!Busy \cup {Proved!Idle}] /\ \A m \in Msg : job'[m].pc = "idle"
  BY <1>1 DEF Cache!Idle, Proved!Idle
<1>4. Proved!Typed'  BY <1>1, <1>2, <1>3 DEF Proved!IInv, Proved!Typed
<1>5. Proved!Coherent'
  BY <1>1, <1>2, CacheConstants DEF Proved!Coherent, Proved!CacheAssumption
<1>6. Proved!LruOrder' /\ Proved!EntriesSound' /\ Proved!UsesCached'
  BY <1>1, <1>2 DEF Proved!LruOrder, Proved!EntriesSound, Proved!UsesCached
<1>7. Proved!WorkersFit'  BY <1>3 DEF Proved!WorkersFit, Proved!Fits
<1>8. Proved!StaleKnown'
  BY <1>1, <1>3 DEF Proved!IInv, Proved!StaleKnown, Proved!Outdated
<1> QED  BY <1>4, <1>5, <1>6, <1>7, <1>8 DEF Proved!IInv

(* Every step of the gateway is one of those two.                          *)
LEMMA StepsOfCache ==
  ASSUME Next
  PROVE  [Proved!Next]_cacheVars \/ End
<1> USE DEF Proved!Next, Proved!Step, Proved!JobStep
<1>1. ASSUME NEW m \in Msg, NEW k \in UsersOf[AppOf[m]], AcceptMsg(m, k)  PROVE Proved!Next
  <2>1. k \in Key  BY GatewayAssumption
  <2> QED  BY <1>1, <2>1, CacheActions, Recording DEF AcceptMsg
<1>2. ASSUME NEW m \in Msg, LookUp(m)  PROVE Proved!Next
  BY <1>2, CacheActions, Recording DEF LookUp
<1>3. ASSUME NEW m \in Msg, FinishMsg(m)  PROVE Proved!Next
  BY <1>3, CacheActions, Recording DEF FinishMsg
<1>4. ASSUME NEW m \in Msg, MakeRoom(m) \/ StartMsg(m) \/ GiveUp(m)  PROVE UNCHANGED cacheVars
  BY <1>4 DEF MakeRoom, StartMsg, GiveUp
<1>5. ASSUME Operator  PROVE Proved!Next
  BY <1>5, Surroundings, Clock, Recording DEF Operator
<1>6. ASSUME Ended  PROVE UNCHANGED cacheVars
  BY <1>6 DEF Ended, vars
<1> QED  BY <1>1, <1>2, <1>3, <1>4, <1>5, <1>6 DEF Next, MsgStep

(* The room of an app is what the semaphore is made for.                   *)
LEMMA ServiceTypedKept == ServiceTyped /\ [Next]_vars => ServiceTyped'
<1> SUFFICES ASSUME ServiceTyped, [Next]_vars  PROVE ServiceTyped'
  OBVIOUS
<1> USE DEF ServiceTyped
<1>1. ASSUME NEW m \in Msg, NEW k \in UsersOf[AppOf[m]], AcceptMsg(m, k)  PROVE ServiceTyped'
  BY <1>1 DEF AcceptMsg, Service!Accept
<1>2. ASSUME NEW m \in Msg, MakeRoom(m)  PROVE ServiceTyped'
  BY <1>2, GatewayAssumption DEF MakeRoom, Service!FixRoom
<1>3. ASSUME NEW m \in Msg, StartMsg(m) \/ FinishMsg(m) \/ GiveUp(m)  PROVE ServiceTyped'
  BY <1>3 DEF StartMsg, FinishMsg, GiveUp, Service!Start, Service!Finish
<1>4. ASSUME NEW m \in Msg, LookUp(m)  PROVE ServiceTyped'
  BY <1>4 DEF LookUp, serviceVars
<1>5. ASSUME Operator  PROVE ServiceTyped'
  BY <1>5 DEF Operator, serviceVars
<1>6. ASSUME End  PROVE ServiceTyped'
  BY <1>6 DEF End, Service!Stop, Service!Kill
<1>7. ASSUME Ended \/ UNCHANGED vars  PROVE ServiceTyped'
  BY <1>7 DEF Ended, vars, serviceVars
<1> QED  BY <1>1, <1>2, <1>3, <1>4, <1>5, <1>6, <1>7 DEF Next, MsgStep

(* The two modules count the same way.                                     *)
LEMMA SameCount == \A S : Service!Cardinality(S) = Cardinality(S)
BY DEF Service!Cardinality, Cardinality

(* A step after which no more messages run, and the rooms are as before.   *)
LEMMA RoomStays ==
  ASSUME ServiceTyped, RoomKept, room' = room, \A a \in App : Running(a)' \subseteq Running(a)
  PROVE  RoomKept'
<1> SUFFICES ASSUME NEW a \in App  PROVE Cardinality(Running(a)') <= room[a]
  BY DEF RoomKept
<1>1. IsFiniteSet(Running(a))  BY GatewayAssumption, FS_Subset DEF Running
<1>2. /\ Cardinality(Running(a)') <= Cardinality(Running(a))
      /\ IsFiniteSet(Running(a)')
  BY <1>1, FS_Subset
<1>3. Cardinality(Running(a)) <= room[a] /\ room[a] \in Nat  BY DEF RoomKept, ServiceTyped
<1>4. Cardinality(Running(a)) \in Nat /\ Cardinality(Running(a)') \in Nat
  BY <1>1, <1>2, FS_CardinalityType
<1> QED  BY <1>2, <1>3, <1>4

(* A message starts to run only where there is room; the room of an app is *)
(* made while none of its messages run, and does not change any more.      *)
LEMMA RoomKeptNext ==
  ASSUME ServiceTyped, RoomKept, [Next]_vars
  PROVE  RoomKept'
<1> USE DEF ServiceTyped
<1>1. ASSUME NEW m \in Msg, NEW k \in UsersOf[AppOf[m]], AcceptMsg(m, k)  PROVE RoomKept'
  <2>1. room' = room /\ \A a \in App : Running(a)' \subseteq Running(a)
    BY <1>1 DEF AcceptMsg, Service!Accept, Running
  <2> QED  BY <2>1, RoomStays
<1>2. ASSUME NEW m \in Msg, MakeRoom(m)  PROVE RoomKept'
  <2>1. /\ AppOf[m] \in App /\ room[AppOf[m]] = 0 /\ room'[AppOf[m]] \in Nat \ {0}
        /\ room' = [room EXCEPT ![AppOf[m]] = room'[AppOf[m]]] /\ status' = status
    BY <1>2, GatewayAssumption DEF MakeRoom, Service!FixRoom
  <2>2. \A a \in App : Running(a)' = Running(a) /\ room[a] <= room'[a] /\ room[a] \in Nat
                       /\ room'[a] \in Nat
    BY <2>1 DEF Running
  <2> SUFFICES ASSUME NEW a \in App  PROVE Cardinality(Running(a)') <= room'[a]
    BY DEF RoomKept
  <2>3. IsFiniteSet(Running(a))  BY GatewayAssumption, FS_Subset DEF Running
  <2>4. Cardinality(Running(a)) \in Nat /\ Cardinality(Running(a)) <= room[a]
    BY <2>3, FS_CardinalityType DEF RoomKept
  <2> QED  BY <2>2, <2>4
<1>3. ASSUME NEW m \in Msg, StartMsg(m)  PROVE RoomKept'
  <2>1. /\ room' = room /\ status[m] = "accepted"
        /\ status' = [status EXCEPT ![m] = "running"]
        /\ Service!Cardinality(Service!Running(AppOf[m])) < room[AppOf[m]]
    BY <1>3 DEF StartMsg, Service!Start, Service!HasRoom
  <2>2. Cardinality(Running(AppOf[m])) < room[AppOf[m]]
    <3>1. Service!Running(AppOf[m]) = Running(AppOf[m])  BY DEF Service!Running, Running
    <3> QED  BY <2>1, <3>1, SameCount
  <2> SUFFICES ASSUME NEW a \in App  PROVE Cardinality(Running(a)') <= room[a]
    BY <2>1 DEF RoomKept
  <2>3. IsFiniteSet(Running(a))  BY GatewayAssumption, FS_Subset DEF Running
  <2>4. Cardinality(Running(a)) \in Nat /\ Cardinality(Running(a)) <= room[a] /\ room[a] \in Nat
    BY <2>3, FS_CardinalityType DEF RoomKept
  <2>5. CASE a = AppOf[m]
    <3>1. Running(a)' = Running(a) \cup {m} /\ m \notin Running(a)
      BY <2>1, <2>5 DEF Running
    <3>2. Cardinality(Running(a)') = Cardinality(Running(a)) + 1
      BY <2>3, <3>1, FS_AddElement
    <3> QED  BY <2>2, <2>4, <2>5, <3>2
  <2>6. CASE a # AppOf[m]
    <3>1. Running(a)' = Running(a)  BY <2>1, <2>6 DEF Running
    <3> QED  BY <2>4, <3>1
  <2> QED  BY <2>5, <2>6
<1>4. ASSUME NEW m \in Msg, FinishMsg(m) \/ GiveUp(m)  PROVE RoomKept'
  <2>1. room' = room /\ \A a \in App : Running(a)' \subseteq Running(a)
    BY <1>4 DEF FinishMsg, GiveUp, Service!Finish, Running
  <2> QED  BY <2>1, RoomStays
<1>5. ASSUME UNCHANGED <<status, room>>  PROVE RoomKept'
  <2>1. room' = room /\ \A a \in App : Running(a)' \subseteq Running(a)
    BY <1>5 DEF Running
  <2> QED  BY <2>1, RoomStays
<1>6. ASSUME (\E m \in Msg : LookUp(m)) \/ Operator \/ End \/ Ended \/ UNCHANGED vars
      PROVE  UNCHANGED <<status, room>>
  BY <1>6 DEF LookUp, Operator, End, Ended, vars, serviceVars, Service!Stop, Service!Kill
<1> QED  BY <1>1, <1>2, <1>3, <1>4, <1>5, <1>6 DEF Next, MsgStep

(* A message is at the cache or the agent only while it runs.              *)
LEMMA ServingRunsNext ==
  ASSUME ServiceTyped, ServingRuns, Proved!Typed, [Next]_vars
  PROVE  ServingRuns'
<1> USE DEF ServingRuns, Serving
<1>0. /\ DOMAIN status = Msg /\ DOMAIN job = Msg
      /\ \A n \in Msg : job[n] \in Proved!Busy \cup {Proved!Idle}
  BY DEF ServiceTyped, Proved!Typed
<1>1. ASSUME NEW m \in Msg, NEW k \in UsersOf[AppOf[m]], AcceptMsg(m, k)  PROVE ServingRuns'
  BY <1>0, <1>1 DEF AcceptMsg, Service!Accept, Cache!Accept
<1>2. ASSUME NEW m \in Msg, MakeRoom(m)  PROVE ServingRuns'
  BY <1>2 DEF MakeRoom, Service!FixRoom, cacheVars
<1>3. ASSUME NEW m \in Msg, StartMsg(m)  PROVE ServingRuns'
  BY <1>0, <1>3 DEF StartMsg, Service!Start, cacheVars
<1>4. ASSUME NEW m \in Msg, LookUp(m)  PROVE ServingRuns'
  <2>1. status' = status /\ status[m] = "running"  BY <1>4 DEF LookUp, serviceVars
  <2>2. ASSUME NEW n \in Msg, n # m  PROVE job'[n] = job[n]
    BY <1>0, <1>4, <2>2
    DEF LookUp, Cache!Miss, Cache!Expire, Cache!Hit, Cache!Replace, Cache!Insert,
        Cache!TakeCreated
  <2> QED  BY <2>1, <2>2
<1>5. ASSUME NEW m \in Msg, FinishMsg(m)  PROVE ServingRuns'
  BY <1>0, <1>5 DEF FinishMsg, Service!Finish, Cache!Finish, Cache!Idle
<1>6. ASSUME NEW m \in Msg, GiveUp(m)  PROVE ServingRuns'
  BY <1>0, <1>6 DEF GiveUp, Service!Finish, cacheVars
<1>7. ASSUME Operator  PROVE ServingRuns'
  BY <1>7 DEF Operator, serviceVars, Cache!ChangeConfig, Cache!Tick
<1>8. ASSUME End  PROVE ServingRuns'
  BY <1>8 DEF End, Cache!Idle
<1>9. ASSUME Ended \/ UNCHANGED vars  PROVE ServingRuns'
  BY <1>9 DEF Ended, vars, serviceVars, cacheVars
<1> QED  BY <1>1, <1>2, <1>3, <1>4, <1>5, <1>6, <1>7, <1>8, <1>9 DEF Next, MsgStep

(* The gateway starts with an empty cache and nothing to do.               *)
LEMMA InitIInv == Init => IInv
<1> SUFFICES ASSUME Init  PROVE IInv
  OBVIOUS
<1>1. ServiceTyped  BY DEF Init, Service!Init, ServiceTyped
<1>2. Proved!Init  BY DEF Init, Cache!Init, Proved!Init, Cache!Idle, Proved!Idle
<1>3. RoomKept
  <2>1. \A a \in App : Running(a) = {} /\ room[a] = 0  BY DEF Init, Service!Init, Running
  <2> QED  BY <2>1, FS_EmptySet DEF RoomKept
<1>4. ServingRuns  BY DEF Init, Cache!Init, Cache!Idle, ServingRuns, Serving
<1> QED  BY <1>1, <1>2, <1>3, <1>4, CacheConstants, Proved!InitIInv DEF IInv

(* Every step keeps the invariant.                                         *)
LEMMA NextIInv == IInv /\ [Next]_vars => IInv'
<1> SUFFICES ASSUME IInv, [Next]_vars  PROVE IInv'
  OBVIOUS
<1>1. ServiceTyped' /\ RoomKept' /\ ServingRuns'
  <2>1. Proved!Typed  BY DEF IInv, Proved!IInv
  <2> QED  BY <2>1, ServiceTypedKept, RoomKeptNext, ServingRunsNext DEF IInv
<1>2. CASE Next  BY <1>1, <1>2, StepsOfCache, CacheKept, EndStep DEF IInv
<1>3. CASE UNCHANGED vars
  <2>1. UNCHANGED cacheVars  BY <1>3 DEF vars
  <2> QED  BY <1>1, <2>1, CacheKept DEF IInv
<1> QED  BY <1>2, <1>3

(* The invariant holds in every state the gateway can reach.               *)
THEOREM Invariance == Spec => []IInv
<1> QED  BY InitIInv, NextIInv, PTL DEF Spec

(* The variables keep their types.                                         *)
THEOREM Typing == Spec => []TypeOK
<1>1. IInv => TypeOK
  <2> SUFFICES ASSUME IInv  PROVE TypeOK
    OBVIOUS
  <2>1. Proved!TypeOK  BY CacheConstants, Proved!Consequences DEF IInv
  <2>2. Cache!TypeOK
    BY <2>1 DEF Proved!TypeOK, Cache!TypeOK, Proved!Entry, Cache!Entry, Proved!Client,
       Cache!Client, Proved!Busy, Cache!Busy, Proved!Idle, Cache!Idle, Proved!KeyStrings,
       Cache!KeyStrings, Proved!KeyString, Cache!KeyString
  <2> QED  BY <2>2 DEF IInv, ServiceTyped, TypeOK
<1> QED  BY <1>1, Invariance, PTL

(* An app never has more messages at the cache and the agent than the room *)
(* its first message made, whatever max_concurrent has become since and    *)
(* however many users and clients it has (callback.go:45-57, 265-311).     *)
THEOREM WorkersStayInRoom == Spec => []WorkersHaveRoom
<1>1. IInv => WorkersHaveRoom
  <2> SUFFICES ASSUME IInv, NEW a \in App
               PROVE  Cardinality({m \in Msg : AppOf[m] = a /\ Serving(m)}) <= room[a]
    BY DEF WorkersHaveRoom, Serving
  <2> DEFINE S == {m \in Msg : AppOf[m] = a /\ Serving(m)}
  <2>1. S \subseteq Running(a)  BY DEF IInv, ServingRuns, Running
  <2>2. IsFiniteSet(Running(a))  BY GatewayAssumption, FS_Subset DEF Running
  <2> HIDE DEF S
  <2>3. IsFiniteSet(S) /\ Cardinality(S) <= Cardinality(Running(a))  BY <2>1, <2>2, FS_Subset
  <2>4. Cardinality(Running(a)) <= room[a] /\ room[a] \in Nat
    BY DEF IInv, RoomKept, ServiceTyped
  <2>5. Cardinality(S) \in Nat /\ Cardinality(Running(a)) \in Nat
    BY <2>2, <2>3, FS_CardinalityType
  <2> QED  BY <2>3, <2>4, <2>5 DEF S
<1> QED  BY <1>1, Invariance, PTL

(* With clients, configurations and time in the picture, the gateway still *)
(* does what is promised of the dispatcher alone: every step that changes  *)
(* where a message stands is one of the bounded service, and the rooms     *)
(* that configurations ask for are rooms the service allows.               *)
THEOREM GatewayImplementsService == Spec => Service!Spec
<1>1. Init => Service!Init  BY DEF Init
<1>2. ASSUME [Next]_vars  PROVE [Service!Next]_(Service!vars)
  <2> USE DEF Service!Next, Service!vars
  <2>1. ASSUME NEW m \in Msg, NEW k \in UsersOf[AppOf[m]], AcceptMsg(m, k)  PROVE Service!Next
    BY <2>1 DEF AcceptMsg
  <2>2. ASSUME NEW m \in Msg, MakeRoom(m)  PROVE Service!Next
    BY <2>2, GatewayAssumption DEF MakeRoom
  <2>3. ASSUME NEW m \in Msg, StartMsg(m) \/ FinishMsg(m) \/ GiveUp(m)  PROVE Service!Next
    BY <2>3 DEF StartMsg, FinishMsg, GiveUp
  <2>4. ASSUME NEW m \in Msg, LookUp(m)  PROVE UNCHANGED Service!vars
    BY <2>4 DEF LookUp, serviceVars
  <2>5. ASSUME Operator \/ Ended \/ UNCHANGED vars  PROVE UNCHANGED Service!vars
    BY <2>5 DEF Operator, Ended, vars, serviceVars
  <2>6. ASSUME End  PROVE Service!Next  BY <2>6 DEF End
  <2> QED  BY <1>2, <2>1, <2>2, <2>3, <2>4, <2>5, <2>6 DEF Next, MsgStep
<1> QED  BY <1>1, <1>2, PTL DEF Spec, Service!Spec

(* However long messages queue for the room of their app and however often *)
(* a client is hit, nobody is served through an outdated client later than *)
(* one TTL after it was last current, or last carried by a message         *)
(* (agent_cache.go:55-61, callback.go:265-291).                            *)
THEOREM OutdatedClientsDieOut == Spec => OutdatedClientServedBriefly
<1> DEFINE A == \A m \in Msg, k \in Key :
                  /\ job[m].pc = "queued" /\ job'[m].pc = "using" /\ job'[m].client.key = k
                  /\ job'[m].client.version # config[k]
                => now <= staleUntil[k] + TTL
<1>1. ASSUME IInv, [Next]_vars  PROVE A
  <2> SUFFICES ASSUME NEW m \in Msg, job[m].pc = "queued", job'[m].pc = "using",
                      job'[m].client.version # config[job'[m].client.key]
               PROVE  now <= staleUntil[job'[m].client.key] + TTL
    OBVIOUS
  <2>1. Proved!IInv /\ job \in [Msg -> Proved!Busy \cup {Proved!Idle}]
    BY <1>1 DEF IInv, Proved!IInv, Proved!Typed
  <2>2. job' # job  OBVIOUS
  <2>3. ~End  BY DEF End, Cache!Idle
  <2>4. PICK n \in Msg : \/ \E k \in UsersOf[AppOf[n]] : AcceptMsg(n, k)
                         \/ LookUp(n) \/ FinishMsg(n)
    BY <1>1, <2>2, <2>3 DEF Next, MsgStep, MakeRoom, StartMsg, GiveUp, Operator, Ended,
       Cache!ChangeConfig, Cache!Tick, cacheVars, vars
  <2>5. n = m
    <3>1. ASSUME NEW k \in UsersOf[AppOf[n]], AcceptMsg(n, k)  PROVE n = m
      BY <2>1, <3>1 DEF AcceptMsg, Cache!Accept
    <3>2. ASSUME LookUp(n)  PROVE n = m
      BY <2>1, <3>2
      DEF LookUp, Cache!Miss, Cache!Expire, Cache!Hit, Cache!Replace, Cache!Insert,
          Cache!TakeCreated
    <3>3. ASSUME FinishMsg(n)  PROVE n = m
      BY <2>1, <3>3 DEF FinishMsg, Cache!Finish
    <3> QED  BY <2>4, <3>1, <3>2, <3>3
  <2>6. Cache!Hit(m) /\ Recorded
    <3>1. LookUp(m)
      BY <2>4, <2>5 DEF AcceptMsg, Cache!Accept, FinishMsg, Cache!Finish
    <3>2. ~Cache!Replace(m) /\ ~Cache!Insert(m)  BY DEF Cache!Replace, Cache!Insert
    <3>3. ~Cache!Miss(m) /\ ~Cache!Expire(m)
      <4>1. job[m] \in Proved!Busy  BY <2>1 DEF Proved!Idle
      <4>2. ASSUME Cache!Miss(m) \/ Cache!Expire(m)  PROVE job'[m].pc = "creating"
        BY <2>1, <4>1, <4>2 DEF Cache!Miss, Cache!Expire, Proved!Busy
      <4> QED  BY <4>2
    <3> QED  BY <3>1, <3>2, <3>3 DEF LookUp
  <2>7. Proved!Hit(m) /\ Proved!RecordUse /\ Proved!RecordStale
    BY <2>6, CacheActions, Recording
  <2> QED  BY <2>1, <2>7, CacheConstants, Proved!HitStep
<1>2. Spec => [][A]_vars  BY <1>1, Invariance, PTL DEF Spec
<1> QED  BY <1>2 DEF OutdatedClientServedBriefly
=============================================================================
