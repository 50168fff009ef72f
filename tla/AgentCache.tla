----------------------------- MODULE AgentCache -----------------------------
(***************************************************************************)
(* The LRU+TTL cache of agent clients (internal/handler/agent_cache.go)    *)
(* and the message workers that share it.  A worker carries the            *)
(* configuration its request was resolved with, may wait arbitrarily long  *)
(* before it looks its user's client up, and stores the client it built in *)
(* a second critical section.                                              *)
(***************************************************************************)
EXTENDS Integers, SequencesExt

CONSTANTS Job,        \* message workers
          Char,       \* characters of names
          Key,        \* cacheKey values: an app and a user
          Version,    \* what the configuration of a user may be over time
          Usable,     \* configurations agent.NewClient builds a client from
          NoClient,   \* the nil agent.Client
          MaxSize,    \* 1000 in the code
          TTL,        \* 30 s in the code, here in ticks of the clock
          MaxTime     \* bound of the clock, for TLC

(* Names are sequences of characters.  Nothing keeps a "|" out of them.    *)
ASSUME CacheAssumption ==
  /\ Key \subseteq [appName : Seq(Char), userID : Seq(Char)]
  /\ Usable \subseteq Version
  /\ MaxSize \in Nat \ {0} /\ TTL \in Nat /\ MaxTime \in Nat

VARIABLES config,     \* config[k]: the configuration of k in etcd
          now,        \* the clock
          cache,      \* the key strings in the map c.cache
          lru,        \* the list c.lru of cachedClient, front first
          job,        \* job[j]: what worker j is doing
          usedAfter,  \* history: pairs of cached key strings, the first used later
          staleUntil  \* history: last time a worker held an outdated config of k

vars == <<config, now, cache, lru, job, usedAfter, staleUntil>>

Client == [key : Key, version : Usable]
Entry == [key : Key, client : Client \cup {NoClient}, expires : Nat]
Idle == [pc |-> "idle"]
Busy == [pc : {"queued", "creating", "using"}, key : Key,
         version : Version, client : Client \cup {NoClient}]

(* Mistake: users of different apps share their clients. *)
UserString(k) == k.userID

(* String(): different keys may have the same one. *)
KeyString(k) == k.appName \o <<"|">> \o k.userID

KeyStrings == {KeyString(k) : k \in Key}

-----------------------------------------------------------------------------
(* elem, ok := c.cache[key.String()] *)
Position(s) == CHOOSE i \in DOMAIN lru : KeyString(lru[i].key) = s

(* Mistakes: the entry stays where it is, or its life starts anew. *)
InPlace(i, e) == [lru EXCEPT ![i] = e]
ToFrontRenewed(i, e) == <<[e EXCEPT !.expires = now + TTL]>> \o RemoveAt(lru, i)

ToFront(i, e) == <<e>> \o RemoveAt(lru, i)

Init == /\ config \in [Key -> Version]
        /\ now = 0 /\ cache = {} /\ lru = <<>> /\ usedAfter = {}
        /\ job = [j \in Job |-> Idle]
        /\ staleUntil = [k \in Key |-> 0]

(* An operator changes the configuration of a user or of its app in etcd. *)
ChangeConfig(k, v) ==
  /\ config[k] # v
  /\ config' = [config EXCEPT ![k] = v]
  /\ UNCHANGED <<now, cache, lru, job>>

Tick == now < MaxTime /\ now' = now + 1 /\ UNCHANGED <<config, cache, lru, job>>

(* The request is resolved; the worker may queue on the app's semaphore.   *)
Accept(j, k) ==
  /\ job[j].pc = "idle"
  /\ job' = [job EXCEPT ![j] = [pc |-> "queued", key |-> k,
                                version |-> config[k], client |-> NoClient]]
  /\ UNCHANGED <<config, now, cache, lru>>

(***************************************************************************)
(* GetOrCreate: one call of Get ...                                        *)
(***************************************************************************)
Miss(j) ==
  /\ job[j].pc = "queued" /\ KeyString(job[j].key) \notin cache
  /\ job' = [job EXCEPT ![j].pc = "creating"]
  /\ UNCHANGED <<config, now, cache, lru>>

Expired(e) == now > e.expires

Expire(j) ==
  LET s == KeyString(job[j].key)
  IN  /\ job[j].pc = "queued" /\ s \in cache /\ Expired(lru[Position(s)])
      /\ cache' = cache \ {s}
      /\ lru' = RemoveAt(lru, Position(s))
      /\ job' = [job EXCEPT ![j].pc = "creating"]
      /\ UNCHANGED <<config, now>>

(* A cached nil is moved to the front like any other client, but the       *)
(* caller takes it for a miss.                                             *)
Hit(j) ==
  LET s == KeyString(job[j].key)
      e == lru[Position(s)]
  IN  /\ job[j].pc = "queued" /\ s \in cache /\ ~Expired(e)
      /\ lru' = ToFront(Position(s), e)
      /\ job' = [job EXCEPT ![j].pc = IF e.client = NoClient THEN "creating" ELSE "using",
                            ![j].client = e.client]
      /\ UNCHANGED <<config, now, cache>>

(* Mistake: the factory never fails. *)
FactoryUnchecked(k, v) == [key |-> k, version |-> v]

(***************************************************************************)
(* ... then, without the lock, the factory, and then Set.  The worker      *)
(* gives up when the factory has failed.                                   *)
(***************************************************************************)
Factory(k, v) == IF v \in Usable THEN [key |-> k, version |-> v] ELSE NoClient

Created(j) == Factory(job[j].key, job[j].version)

TakeCreated(j) ==
  job' = [job EXCEPT ![j] = IF Created(j) = NoClient THEN Idle
                            ELSE [@ EXCEPT !.pc = "using", !.client = Created(j)]]

Replace(j) ==
  LET s == KeyString(job[j].key)
      i == Position(s)
  IN  /\ job[j].pc = "creating" /\ s \in cache
      /\ lru' = ToFront(i, [lru[i] EXCEPT !.client = Created(j), !.expires = now + TTL])
      /\ TakeCreated(j)
      /\ UNCHANGED <<config, now, cache>>

(* Mistake: room is made one entry early. *)
FullEarly == Len(lru) + 1 >= MaxSize

(* What is left after the eviction that makes room for one entry. *)
Full == Len(lru) >= MaxSize
Kept == IF Full THEN Front(lru) ELSE lru

(* Mistake: the evicted entry stays in the map. *)
KeptStringsStale == cache

KeptStrings == IF Full THEN cache \ {KeyString(Last(lru).key)} ELSE cache

Insert(j) ==
  LET s == KeyString(job[j].key)
      e == [key |-> job[j].key, client |-> Created(j), expires |-> now + TTL]
  IN  /\ job[j].pc = "creating" /\ s \notin cache
      /\ lru' = <<e>> \o Kept
      /\ cache' = KeptStrings \cup {s}
      /\ TakeCreated(j)
      /\ UNCHANGED <<config, now>>

Finish(j) ==
  /\ job[j].pc = "using"
  /\ job' = [job EXCEPT ![j] = Idle]
  /\ UNCHANGED <<config, now, cache, lru>>

JobStep(j) == \/ \E k \in Key : Accept(j, k)
              \/ Miss(j) \/ Expire(j) \/ Hit(j) \/ Replace(j) \/ Insert(j) \/ Finish(j)

-----------------------------------------------------------------------------
(* History: a key string is used by a hit, an update and an insertion.     *)
Uses(j) == /\ job[j].pc \in {"queued", "creating"} /\ job'[j].pc # job[j].pc
           /\ KeyString(job[j].key) \in cache'

Latest == {KeyString(job[j].key) : j \in {i \in Job : Uses(i)}}

RecordUse ==
  usedAfter' = {p \in cache' \X cache' : p[2] \notin Latest /\ (p[1] \in Latest \/ p \in usedAfter)}

(* History: some worker holds an outdated configuration of k after this    *)
(* step, or this step outdates the clients built so far.                   *)
Outdated(k) == \E j \in Job : /\ job[j].pc \in {"queued", "creating"}
                              /\ job[j].key = k /\ job[j].version # config[k]

RecordStale ==
  staleUntil' = [k \in Key |-> IF Outdated(k)' \/ config'[k] # config[k]
                                 THEN now' ELSE staleUntil[k]]

Step == \/ \E j \in Job : JobStep(j)
        \/ \E k \in Key, v \in Version : ChangeConfig(k, v)
        \/ Tick

Next == Step /\ RecordUse /\ RecordStale

Spec == Init /\ [][Next]_vars

-----------------------------------------------------------------------------
TypeOK ==
  /\ config \in [Key -> Version]
  /\ now \in 0 .. MaxTime
  /\ cache \subseteq KeyStrings
  /\ lru \in Seq(Entry)
  /\ job \in [Job -> Busy \cup {Idle}]
  /\ usedAfter \subseteq KeyStrings \X KeyStrings
  /\ staleUntil \in [Key -> 0 .. MaxTime]

(* The map and the list hold the same entries, each key string once, and   *)
(* never more than maxSize, through every mix of expiry, eviction, update  *)
(* in place and concurrent misses (agent_cache.go:45-104).                 *)
CacheCoherent ==
  /\ cache = {KeyString(lru[i].key) : i \in DOMAIN lru}
  /\ \A i, j \in DOMAIN lru : KeyString(lru[i].key) = KeyString(lru[j].key) => i = j
  /\ Len(lru) <= MaxSize

(* The list is the order of last use: by a hit, an update or an insertion  *)
(* (agent_cache.go:60, 72, 82).                                            *)
LruOrder ==
  \A i, j \in DOMAIN lru :
    i < j <=> <<KeyString(lru[i].key), KeyString(lru[j].key)>> \in usedAfter

(* A client leaves the cache only because it has outlived its TTL, or to   *)
(* make room in a full cache as the one that was used least recently       *)
(* (agent_cache.go:55-58, 76-80).                                          *)
LeavesOnlyOldOrExpired ==
  [][\A s \in cache \ cache' :
        \/ Expired(lru[Position(s)])
        \/ Len(lru) = MaxSize /\ \A t \in cache : Position(t) <= Position(s)]_vars

(* A client built from an outdated configuration is served for at most one *)
(* TTL after the last moment a worker still held that configuration: hits  *)
(* do not prolong its life (agent_cache.go:55-61, 71).  The entry may hold *)
(* the client of another key with the same string.                         *)
StalenessBound ==
  \A i \in DOMAIN lru :
    LET c == lru[i].client
    IN  c # NoClient /\ c.version # config[c.key]
          => lru[i].expires <= staleUntil[c.key] + TTL

(* The keys of a worker and of its client, in either order: a "|" in the   *)
(* app name of one and in the user ID of the other makes them collide.     *)
Collide(k, c) == Contains(k.appName, "|") /\ Contains(c.userID, "|")

(* A worker talks to the agent through the client of another app or user,  *)
(* which carries that user's identity, only if an app name and a user ID   *)
(* hold the separator, both of them: with plain app names no user ID gets  *)
(* anyone the client of another (agent_cache.go:18-20, callback.go:291-298). *)
OwnClient ==
  \A j \in Job :
    job[j].pc = "using" =>
      LET k == job[j].key
          c == job[j].client.key
      IN  c = k \/ Collide(k, c) \/ Collide(c, k)
=============================================================================
