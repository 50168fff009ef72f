-------------------------- MODULE AgentCacheProofs --------------------------
(***************************************************************************)
(* Proofs about the cache of agent clients, for any number of workers and  *)
(* keys, any configurations, any size and any TTL.                         *)
(***************************************************************************)
EXTENDS AgentCache, SequenceLemmas, TLAPS

-----------------------------------------------------------------------------
(***************************************************************************)
(* What the operations do to a list.                                       *)
(***************************************************************************)
(* Moving element i to the front moves the ones before it down by one.     *)
LEMMA ToFrontFacts ==
  ASSUME NEW S, lru \in Seq(S), NEW i \in 1 .. Len(lru), NEW e \in S
  PROVE  /\ ToFront(i, e) \in Seq(S)
         /\ Len(ToFront(i, e)) = Len(lru)
         /\ ToFront(i, e)[1] = e
         /\ \A k \in 2 .. Len(lru) : ToFront(i, e)[k] = lru[IF k <= i THEN k - 1 ELSE k]
<1> DEFINE r == RemoveAt(lru, i)
<1>1. Len(lru) \in Nat  BY LenProperties
<1>2. /\ r \in Seq(S) /\ Len(r) = Len(lru) - 1
      /\ \A k \in 1 .. Len(lru) - 1 : r[k] = lru[IF k < i THEN k ELSE k + 1]
  BY RemoveAtFacts
<1> HIDE DEF r
<1>3. /\ <<e>> \o r \in Seq(S) /\ Len(<<e>> \o r) = Len(r) + 1 /\ (<<e>> \o r)[1] = e
      /\ \A k \in 2 .. Len(r) + 1 : (<<e>> \o r)[k] = r[k - 1]
  BY <1>2, ConsFacts
<1>4. ToFront(i, e) = <<e>> \o r  BY DEF ToFront, r
<1>5. ASSUME NEW k \in 2 .. Len(lru)
      PROVE  ToFront(i, e)[k] = lru[IF k <= i THEN k - 1 ELSE k]
  <2>1. ToFront(i, e)[k] = r[k - 1]  BY <1>1, <1>2, <1>3, <1>4
  <2>2. k - 1 \in 1 .. Len(lru) - 1  BY <1>1
  <2>3. r[k - 1] = lru[IF k - 1 < i THEN k - 1 ELSE (k - 1) + 1]  BY <1>2, <2>2
  <2>4. (k - 1 < i <=> k <= i) /\ (k - 1) + 1 = k  OBVIOUS
  <2> QED  BY <2>1, <2>3, <2>4
<1> QED  BY <1>1, <1>2, <1>3, <1>4, <1>5

-----------------------------------------------------------------------------
(***************************************************************************)
(* Key strings.                                                            *)
(***************************************************************************)
(* Joining two sequences with one element between them.                    *)
LEMMA JoinFacts ==
  ASSUME NEW S, NEW s \in Seq(S), NEW t \in Seq(S), NEW e \in S
  PROVE  /\ Len(s \o <<e>> \o t) = Len(s) + 1 + Len(t)
         /\ \A i \in 1 .. Len(s) : (s \o <<e>> \o t)[i] = s[i]
         /\ (s \o <<e>> \o t)[Len(s) + 1] = e
         /\ \A i \in 1 .. Len(t) : (s \o <<e>> \o t)[Len(s) + 1 + i] = t[i]
<1> DEFINE p == s \o <<e>>
           n == Len(s)
           m == Len(t)
<1>1. <<e>> \in Seq(S) /\ Len(<<e>>) = 1 /\ <<e>>[1] = e /\ n \in Nat /\ m \in Nat
  BY LenProperties
<1>2. /\ p \in Seq(S) /\ Len(p) = n + 1
      /\ \A i \in 1 .. n + 1 : p[i] = IF i <= n THEN s[i] ELSE <<e>>[i - n]
  BY <1>1, ConcatProperties
<1> HIDE DEF p
<1>3. /\ Len(p \o t) = n + 1 + m
      /\ \A i \in 1 .. n + 1 + m : (p \o t)[i] = IF i <= n + 1 THEN p[i] ELSE t[i - (n + 1)]
  <2>1. /\ Len(p \o t) = Len(p) + Len(t)
        /\ \A i \in 1 .. Len(p) + Len(t) :
             (p \o t)[i] = IF i <= Len(p) THEN p[i] ELSE t[i - Len(p)]
    BY <1>2, ConcatProperties
  <2>2. Len(p) = n + 1 /\ Len(t) = m  BY <1>2
  <2> HIDE DEF m, n
  <2> QED  BY <2>1, <2>2
<1> HIDE DEF n, m
<1>4. \A i \in 1 .. n : (p \o t)[i] = s[i]  BY <1>1, <1>2, <1>3
<1>5. (p \o t)[n + 1] = e
  <2>1. n + 1 \in 1 .. n + 1 + m /\ n + 1 \in 1 .. n + 1 /\ ~(n + 1 <= n) /\ (n + 1) - n = 1
    BY <1>1
  <2> QED  BY <1>1, <1>2, <1>3, <2>1
<1>6. \A i \in 1 .. m : (p \o t)[n + 1 + i] = t[i]
  <2> SUFFICES ASSUME NEW i \in 1 .. m  PROVE (p \o t)[n + 1 + i] = t[i]
    OBVIOUS
  <2>1. /\ n + 1 + i \in 1 .. n + 1 + m /\ ~(n + 1 + i <= n + 1)
        /\ (n + 1 + i) - (n + 1) = i
    BY <1>1
  <2> QED  BY <1>3, <2>1
<1> QED  BY <1>3, <1>4, <1>5, <1>6 DEF p, n, m

(* The characters of a key string: those of the app name, the separator    *)
(* and those of the user ID.                                               *)
LEMMA StringFacts ==
  ASSUME NEW k \in Key
  PROVE  /\ Len(k.appName) \in Nat /\ Len(k.userID) \in Nat
         /\ Len(KeyString(k)) = Len(k.appName) + 1 + Len(k.userID)
         /\ \A i \in 1 .. Len(k.appName) : KeyString(k)[i] = k.appName[i]
         /\ KeyString(k)[Len(k.appName) + 1] = "|"
         /\ \A i \in 1 .. Len(k.userID) :
              KeyString(k)[Len(k.appName) + 1 + i] = k.userID[i]
<1> DEFINE S == Char \cup {"|"}
<1>1. k.appName \in Seq(S) /\ k.userID \in Seq(S) /\ "|" \in S
  <2>1. k \in [appName : Seq(Char), userID : Seq(Char)]  BY CacheAssumption
  <2> QED  BY <2>1
<1> HIDE DEF S
<1>2. KeyString(k) = k.appName \o <<"|">> \o k.userID  BY DEF KeyString
<1>3. Len(k.appName) \in Nat /\ Len(k.userID) \in Nat  BY <1>1, LenProperties
<1> DEFINE a == k.appName
           u == k.userID
           b == "|"
<1>4. a \in Seq(S) /\ u \in Seq(S) /\ b \in S /\ KeyString(k) = a \o <<b>> \o u
  BY <1>1, <1>2
<1> HIDE DEF a, u, b
<1>5. /\ Len(a \o <<b>> \o u) = Len(a) + 1 + Len(u)
      /\ \A i \in 1 .. Len(a) : (a \o <<b>> \o u)[i] = a[i]
      /\ (a \o <<b>> \o u)[Len(a) + 1] = b
      /\ \A i \in 1 .. Len(u) : (a \o <<b>> \o u)[Len(a) + 1 + i] = u[i]
  BY <1>4, JoinFacts
<1> QED  BY <1>3, <1>4, <1>5, Zenon DEF a, u, b

(* Of two keys with the same string the longer app name holds a separator, *)
(* and so does the user ID of the other.                                   *)
LEMMA LongerAppName ==
  ASSUME NEW k \in Key, NEW c \in Key, KeyString(k) = KeyString(c),
         Len(c.appName) < Len(k.appName)
  PROVE  Collide(k, c)
<1> DEFINE nk == Len(k.appName)
           mk == Len(k.userID)
           nc == Len(c.appName)
           mc == Len(c.userID)
           s == KeyString(k)
<1>1. /\ nk \in Nat /\ mk \in Nat /\ Len(s) = nk + 1 + mk /\ s[nk + 1] = "|"
      /\ \A i \in 1 .. nk : s[i] = k.appName[i]
  BY StringFacts
<1>2. /\ nc \in Nat /\ mc \in Nat /\ Len(s) = nc + 1 + mc /\ s[nc + 1] = "|"
      /\ \A i \in 1 .. mc : s[nc + 1 + i] = c.userID[i]
  <2>1. s = KeyString(c)  OBVIOUS
  <2> HIDE DEF s
  <2> QED  BY <2>1, StringFacts
<1>3. nc < nk  OBVIOUS
<1> HIDE DEF s, nk, mk, nc, mc
<1>4. nc + 1 \in 1 .. nk /\ k.appName[nc + 1] = "|"  BY <1>1, <1>2, <1>3
<1>5. nk - nc \in 1 .. mc /\ c.userID[nk - nc] = "|"
  <2>1. nk - nc \in 1 .. mc /\ nc + 1 + (nk - nc) = nk + 1  BY <1>1, <1>2, <1>3
  <2> QED  BY <1>1, <1>2, <2>1
<1>6. Contains(k.appName, "|")  BY <1>4 DEF Contains, nk
<1>7. Contains(c.userID, "|")  BY <1>5 DEF Contains, mc
<1> QED  BY <1>6, <1>7 DEF Collide

(* App names of one length leave no doubt about the key.                   *)
LEMMA EqualAppNames ==
  ASSUME NEW k \in Key, NEW c \in Key, KeyString(k) = KeyString(c),
         Len(c.appName) = Len(k.appName)
  PROVE  k = c
<1> DEFINE n == Len(k.appName)
           m == Len(k.userID)
           s == KeyString(k)
<1>1. /\ n \in Nat /\ m \in Nat /\ Len(s) = n + 1 + m
      /\ \A i \in 1 .. n : s[i] = k.appName[i]
      /\ \A i \in 1 .. m : s[n + 1 + i] = k.userID[i]
  BY StringFacts
<1>2. /\ Len(c.userID) \in Nat /\ Len(s) = n + 1 + Len(c.userID)
      /\ \A i \in 1 .. n : s[i] = c.appName[i]
      /\ \A i \in 1 .. Len(c.userID) : s[n + 1 + i] = c.userID[i]
  <2>1. s = KeyString(c) /\ n = Len(c.appName)  OBVIOUS
  <2> HIDE DEF s, n
  <2> QED  BY <2>1, StringFacts
<1>3. /\ k \in [appName : Seq(Char), userID : Seq(Char)]
      /\ c \in [appName : Seq(Char), userID : Seq(Char)]
  BY CacheAssumption
<1>4. n = Len(c.appName)  OBVIOUS
<1>5. m = Len(c.userID)
  <2> DEFINE mc == Len(c.userID)
             l == Len(s)
  <2>1. l = n + 1 + m /\ l = n + 1 + mc /\ n \in Nat /\ m \in Nat /\ mc \in Nat
    BY <1>1, <1>2
  <2> HIDE DEF s, n, m, mc, l
  <2>2. m = mc  BY <2>1
  <2> QED  BY <2>2 DEF mc
<1> HIDE DEF s
<1>6. k.appName = c.appName  BY <1>1, <1>2, <1>3, <1>4, SeqEqual
<1>7. k.userID = c.userID  BY <1>1, <1>2, <1>3, <1>5, SeqEqual
<1> QED  BY <1>3, <1>6, <1>7

(* The two together.                                                       *)
LEMMA SameString ==
  ASSUME NEW k \in Key, NEW c \in Key, KeyString(c) = KeyString(k), c # k
  PROVE  Collide(k, c) \/ Collide(c, k)
<1>1. Len(k.appName) \in Nat /\ Len(c.appName) \in Nat  BY StringFacts
<1>2. Len(c.appName) # Len(k.appName)  BY EqualAppNames
<1>3. Len(c.appName) < Len(k.appName) \/ Len(k.appName) < Len(c.appName)  BY <1>1, <1>2
<1> QED  BY <1>3, LongerAppName

-----------------------------------------------------------------------------
(***************************************************************************)
(* Typing.                                                                 *)
(***************************************************************************)
(* The worker of a record in Busy, with one of its fields changed.         *)
LEMMA BusyFacts ==
  ASSUME NEW w \in Busy \cup {Idle}, w.pc # "idle"
  PROVE  /\ w \in Busy /\ w.pc \in {"queued", "creating", "using"} /\ w.key \in Key
         /\ w.version \in Version /\ w.client \in Client \cup {NoClient}
  BY DEF Busy, Idle

(* What the factory returns is a client or nil.                            *)
LEMMA FactoryType ==
  ASSUME NEW k \in Key, NEW v \in Version
  PROVE  Factory(k, v) \in Client \cup {NoClient}
  BY DEF Factory, Client

(* The key string of an entry of the list, at its position.                *)
EntryString(i) == KeyString(lru[i].key)

Typed ==
  /\ config \in [Key -> Version]
  /\ now \in 0 .. MaxTime
  /\ lru \in Seq(Entry)
  /\ job \in [Job -> Busy \cup {Idle}]
  /\ staleUntil \in [Key -> 0 .. MaxTime]

(* The map and the list as CacheCoherent has them, and the room there is.  *)
Coherent ==
  /\ cache = {EntryString(i) : i \in DOMAIN lru}
  /\ \A i, j \in DOMAIN lru : EntryString(i) = EntryString(j) => i = j
  /\ Len(lru) <= MaxSize

(* Position finds the one entry of a cached key string.                    *)
LEMMA PositionFacts ==
  ASSUME Typed, Coherent, NEW s \in cache
  PROVE  /\ Position(s) \in 1 .. Len(lru) /\ EntryString(Position(s)) = s
         /\ \A i \in 1 .. Len(lru) : EntryString(i) = s => i = Position(s)
<1>1. DOMAIN lru = 1 .. Len(lru)  BY DEF Typed
<1>2. \E i \in DOMAIN lru : KeyString(lru[i].key) = s  BY DEF Coherent, EntryString
<1>3. Position(s) \in DOMAIN lru /\ KeyString(lru[Position(s)].key) = s
  BY <1>2 DEF Position
<1> QED  BY <1>1, <1>3 DEF Coherent, EntryString

(* The list an insertion keeps is the old one without its last entry, if   *)
(* that has to go (agent_cache.go:76-80).                                  *)
LEMMA KeptFacts ==
  ASSUME Typed
  PROVE  /\ Kept \in Seq(Entry)
         /\ Len(Kept) = IF Full THEN Len(lru) - 1 ELSE Len(lru)
         /\ \A k \in 1 .. Len(Kept) : Kept[k] = lru[k]
<1>1. Len(lru) \in Nat /\ \A k \in 1 .. Len(lru) : lru[k] \in Entry
  BY LenProperties, ElementOfSeq DEF Typed
<1>2. CASE Full
  <2>1. Len(lru) >= 1  BY <1>1, <1>2, CacheAssumption DEF Full
  <2>2. Kept = SubSeq(lru, 1, Len(lru) - 1)  BY <1>2 DEF Kept, Front
  <2>3. \A k \in 1 .. Len(lru) - 1 : lru[k] \in Entry  BY <1>1
  <2>4. /\ Kept \in Seq(Entry)
        /\ Len(Kept) = IF 1 <= Len(lru) - 1 THEN (Len(lru) - 1) - 1 + 1 ELSE 0
        /\ \A k \in 1 .. (Len(lru) - 1) - 1 + 1 : Kept[k] = lru[1 + k - 1]
    BY <1>1, <2>2, <2>3, SubSeqProperties
  <2>5. Len(Kept) = Len(lru) - 1
    <3>1. \A n \in Nat : n >= 1 => (IF 1 <= n - 1 THEN (n - 1) - 1 + 1 ELSE 0) = n - 1
      OBVIOUS
    <3> QED  BY <1>1, <2>1, <2>4, <3>1
  <2> QED  BY <1>1, <1>2, <2>4, <2>5
<1>3. CASE ~Full  BY <1>1, <1>3 DEF Kept, Typed
<1> QED  BY <1>2, <1>3

-----------------------------------------------------------------------------
(***************************************************************************)
(* The inductive invariant.                                                *)
(***************************************************************************)
(* A cached client belongs to the key string it is cached by, no entry     *)
(* lives longer than one TTL from now, and an outdated one no longer than  *)
(* StalenessBound allows.                                                  *)
Sound(e) ==
  /\ e.client # NoClient => KeyString(e.client.key) = KeyString(e.key)
  /\ e.expires <= now + TTL
  /\ e.client # NoClient /\ e.client.version # config[e.client.key]
       => e.expires <= staleUntil[e.client.key] + TTL

EntriesSound == \A i \in 1 .. Len(lru) : Sound(lru[i])

(* So does the client of a worker, to the worker's key string.             *)
Fits(w) ==
  w.pc = "using" => w.client \in Client /\ KeyString(w.client.key) = KeyString(w.key)

WorkersFit == \A j \in Job : Fits(job[j])

(* A worker that holds an outdated configuration of k does so now.         *)
StaleKnown ==
  \A k \in Key : staleUntil[k] <= now /\ (Outdated(k) => staleUntil[k] = now)

UsesCached == usedAfter \subseteq cache \X cache

IInv ==
  /\ Typed /\ Coherent /\ LruOrder /\ UsesCached
  /\ EntriesSound /\ WorkersFit /\ StaleKnown

-----------------------------------------------------------------------------
(***************************************************************************)
(* How a step moves the entries: but for n new ones in front, entry k of   *)
(* the new list was entry old[k], and the entries keep their order.        *)
(***************************************************************************)
Moved(n, old) ==
  /\ n \in {0, 1} /\ lru' \in Seq(Entry) /\ Len(lru') >= n
  /\ old \in [n + 1 .. Len(lru') -> 1 .. Len(lru)]
  /\ \A k \in n + 1 .. Len(lru') : lru'[k] = lru[old[k]]
  /\ \A k, l \in n + 1 .. Len(lru') : k < l => old[k] < old[l]

(* A hit and an update take the entry of a cached key to the front.        *)
LEMMA FrontMoves ==
  ASSUME Typed, Coherent, NEW s \in cache, NEW e \in Entry,
         e.key = lru[Position(s)].key, lru' = ToFront(Position(s), e), cache' = cache
  PROVE  /\ \E old : Moved(1, old)
         /\ Coherent' /\ lru'[1] = e /\ KeyString(lru'[1].key) = s
<1> DEFINE p == Position(s)
           n == Len(lru)
           old == [k \in 2 .. n |-> IF k <= p THEN k - 1 ELSE k]
<1>1. /\ p \in 1 .. n /\ EntryString(p) = s
      /\ \A i \in 1 .. n : EntryString(i) = s => i = p
  BY PositionFacts
<1>2. n \in Nat /\ lru \in Seq(Entry) /\ DOMAIN lru = 1 .. n  BY LenProperties DEF Typed
<1>3. /\ lru' \in Seq(Entry) /\ Len(lru') = n /\ lru'[1] = e
      /\ \A k \in 2 .. n : lru'[k] = lru[IF k <= p THEN k - 1 ELSE k]
  <2>1. /\ ToFront(p, e) \in Seq(Entry) /\ Len(ToFront(p, e)) = n /\ ToFront(p, e)[1] = e
        /\ \A k \in 2 .. n : ToFront(p, e)[k] = lru[IF k <= p THEN k - 1 ELSE k]
    <3>1. p \in 1 .. Len(lru) /\ lru \in Seq(Entry)  BY <1>1, <1>2
    <3> HIDE DEF p
    <3> QED  BY <3>1, ToFrontFacts
  <2>2. lru' = ToFront(p, e)  OBVIOUS
  <2> HIDE DEF p, n
  <2> QED  BY <2>1, <2>2
<1> HIDE DEF p, n
<1>4. /\ old \in [2 .. n -> 1 .. n] /\ \A k \in 2 .. n : old[k] # p
      /\ \A k, l \in 2 .. n : k < l => old[k] < old[l]
  BY <1>1, <1>2
<1>5. \A k \in 2 .. n : lru'[k] = lru[old[k]]  BY <1>3
<1>6. \A i \in 1 .. n : i # p => \E k \in 2 .. n : i = old[k]
  <2> SUFFICES ASSUME NEW i \in 1 .. n, i # p  PROVE \E k \in 2 .. n : i = old[k]
    OBVIOUS
  <2>1. CASE i < p
    <3>1. i + 1 \in 2 .. n /\ old[i + 1] = i  BY <1>1, <1>2, <2>1
    <3> QED  BY <3>1
  <2>2. CASE i > p
    <3>1. i \in 2 .. n /\ old[i] = i  BY <1>1, <1>2, <2>2
    <3> QED  BY <3>1
  <2> QED  BY <1>1, <1>2, <2>1, <2>2
<1> HIDE DEF old
<1>7. Moved(1, old)
  <2>1. 1 + 1 .. Len(lru') = 2 .. n /\ Len(lru') >= 1  BY <1>1, <1>2, <1>3
  <2> QED  BY <1>3, <1>4, <1>5, <2>1 DEF Moved, n
<1>8. DOMAIN lru' = 1 .. n /\ KeyString(lru'[1].key) = s
  BY <1>1, <1>3, LenProperties DEF p, EntryString
<1>9. \A k \in 2 .. n : KeyString(lru'[k].key) = EntryString(old[k])
  BY <1>5 DEF EntryString
<1>10. cache = {KeyString(lru'[k].key) : k \in DOMAIN lru'}
  <2>1. ASSUME NEW t \in cache  PROVE \E k \in 1 .. n : t = KeyString(lru'[k].key)
    <3>1. PICK i \in 1 .. n : t = EntryString(i)  BY <1>2, <2>1 DEF Coherent
    <3>2. CASE i = p  BY <1>1, <1>2, <1>8, <3>1, <3>2
    <3>3. CASE i # p
      <4>1. PICK k \in 2 .. n : i = old[k]  BY <1>6, <3>3
      <4> QED  BY <1>2, <1>9, <3>1, <4>1
    <3> QED  BY <3>2, <3>3
  <2>2. ASSUME NEW k \in 1 .. n  PROVE KeyString(lru'[k].key) \in cache
    <3>1. CASE k = 1  BY <1>8, <3>1
    <3>2. CASE k # 1
      <4>1. k \in 2 .. n  BY <3>2
      <4>2. old[k] \in DOMAIN lru  BY <1>2, <1>4, <4>1
      <4> QED  BY <1>9, <4>1, <4>2 DEF Coherent
    <3> QED  BY <3>1, <3>2
  <2> QED  BY <1>8, <2>1, <2>2
<1>11. ASSUME NEW k \in 1 .. n, NEW l \in 1 .. n, KeyString(lru'[k].key) = KeyString(lru'[l].key)
       PROVE  k = l
  <2>1. \A m \in 2 .. n : KeyString(lru'[m].key) # s  BY <1>1, <1>4, <1>9
  <2>2. CASE k = 1 \/ l = 1
    <3>1. k \in {1} \cup 2 .. n /\ l \in {1} \cup 2 .. n  BY <1>2
    <3> QED  BY <1>8, <1>11, <2>1, <2>2, <3>1
  <2>3. CASE k # 1 /\ l # 1
    <3>1. k \in 2 .. n /\ l \in 2 .. n  BY <2>3
    <3>2. EntryString(old[k]) = EntryString(old[l])  BY <1>9, <1>11, <3>1
    <3>3. old[k] = old[l]  BY <1>2, <1>4, <3>1, <3>2 DEF Coherent
    <3>4. k < l \/ k = l \/ l < k  BY <3>1
    <3>5. old[k] \in Int /\ old[l] \in Int  BY <1>4, <3>1
    <3> QED  BY <1>4, <3>1, <3>3, <3>4, <3>5
  <2> QED  BY <2>2, <2>3
<1>12. Coherent'
  <2>1. Len(lru') <= MaxSize  BY <1>3 DEF Coherent, n
  <2> QED  BY <1>8, <1>10, <1>11, <2>1 DEF Coherent, EntryString
<1> QED  BY <1>3, <1>7, <1>8, <1>12

(* Making room keeps the key strings of the entries it keeps.              *)
LEMMA KeptStringsFacts ==
  ASSUME Typed, Coherent
  PROVE  KeptStrings = {EntryString(i) : i \in 1 .. Len(Kept)}
<1>1. Len(lru) \in Nat /\ DOMAIN lru = 1 .. Len(lru)  BY LenProperties DEF Typed
<1>2. CASE Full
  <2>1. Len(lru) >= 1 /\ Len(Kept) = Len(lru) - 1
    <3>1. Len(lru) >= 1  BY <1>1, <1>2, CacheAssumption DEF Full
    <3> QED  BY <1>2, <3>1, KeptFacts
  <2>2. KeptStrings = cache \ {EntryString(Len(lru))}
    BY <1>2 DEF KeptStrings, EntryString, Last
  <2>3. \A i \in 1 .. Len(lru) : EntryString(i) # EntryString(Len(lru)) <=> i # Len(lru)
    <3>1. \A i, j \in 1 .. Len(lru) : EntryString(i) = EntryString(j) => i = j
      BY <1>1 DEF Coherent
    <3>2. Len(lru) \in 1 .. Len(lru)  BY <1>1, <2>1
    <3> QED  BY <3>1, <3>2
  <2>4. \A i \in 1 .. Len(lru) : i # Len(lru) <=> i \in 1 .. Len(Kept)
    <3>1. \A n \in Nat : \A i \in 1 .. n : i # n <=> i \in 1 .. n - 1  OBVIOUS
    <3> QED  BY <1>1, <2>1, <3>1
  <2>5. 1 .. Len(Kept) \subseteq 1 .. Len(lru)  BY <1>1, <2>1
  <2>6. cache = {EntryString(i) : i \in 1 .. Len(lru)}  BY <1>1 DEF Coherent
  <2> QED  BY <2>2, <2>3, <2>4, <2>5, <2>6
<1>3. CASE ~Full  BY <1>1, <1>3 DEF Kept, KeptStrings, Coherent
<1> QED  BY <1>2, <1>3

(* A new entry goes to the front of what is kept.                          *)
LEMMA InsertMoves ==
  ASSUME Typed, Coherent, NEW e \in Entry, KeyString(e.key) \notin cache,
         lru' = <<e>> \o Kept, cache' = KeptStrings \cup {KeyString(e.key)}
  PROVE  /\ \E old : Moved(1, old)
         /\ Coherent' /\ lru'[1] = e
<1> DEFINE m == Len(Kept)
           old == [k \in 2 .. m + 1 |-> k - 1]
           s == KeyString(e.key)
<1>1. /\ Kept \in Seq(Entry) /\ m = IF Full THEN Len(lru) - 1 ELSE Len(lru)
      /\ \A k \in 1 .. m : Kept[k] = lru[k]
  BY KeptFacts
<1>2. Len(lru) \in Nat /\ DOMAIN lru = 1 .. Len(lru) /\ m \in Nat
  BY <1>1, LenProperties DEF Typed
<1>3. /\ lru' \in Seq(Entry) /\ Len(lru') = m + 1 /\ lru'[1] = e
      /\ \A k \in 2 .. m + 1 : lru'[k] = Kept[k - 1]
  BY <1>1, ConsFacts
<1>4. KeptStrings = {EntryString(i) : i \in 1 .. m}  BY KeptStringsFacts
<1>5. m <= Len(lru) /\ m + 1 <= MaxSize
  <2>1. Len(lru) <= MaxSize  BY DEF Coherent
  <2>2. CASE Full  BY <1>1, <1>2, <2>1, <2>2
  <2>3. CASE ~Full  BY <1>1, <1>2, <2>1, <2>3, CacheAssumption DEF Full
  <2> QED  BY <2>2, <2>3
<1> HIDE DEF m
<1>6. /\ old \in [2 .. m + 1 -> 1 .. Len(lru)]
      /\ \A k \in 2 .. m + 1 : k - 1 \in 1 .. m /\ old[k] = k - 1
  BY <1>2, <1>5
<1>7. \A k \in 2 .. m + 1 : lru'[k] = lru[old[k]]  BY <1>1, <1>3, <1>6 DEF m
<1> HIDE DEF old
<1>8. Moved(1, old)
  <2>1. 1 + 1 .. Len(lru') = 2 .. m + 1 /\ Len(lru') >= 1  BY <1>2, <1>3
  <2>2. \A k, l \in 2 .. m + 1 : k < l => old[k] < old[l]  BY <1>2, <1>6
  <2> QED  BY <1>3, <1>6, <1>7, <2>1, <2>2 DEF Moved
<1>9. DOMAIN lru' = 1 .. m + 1  BY <1>3, LenProperties
<1>10. \A k \in 2 .. m + 1 : KeyString(lru'[k].key) = EntryString(k - 1)
  BY <1>6, <1>7 DEF EntryString
<1>11. cache' = {KeyString(lru'[k].key) : k \in 1 .. m + 1}
  <2>1. ASSUME NEW t \in cache'  PROVE \E k \in 1 .. m + 1 : t = KeyString(lru'[k].key)
    <3>1. CASE t = s  BY <1>2, <1>3, <3>1
    <3>2. CASE t # s
      <4>1. PICK i \in 1 .. m : t = EntryString(i)  BY <1>4, <2>1, <3>2
      <4>2. i + 1 \in 2 .. m + 1 /\ i + 1 \in 1 .. m + 1 /\ (i + 1) - 1 = i  BY <1>2
      <4> QED  BY <1>10, <4>1, <4>2
    <3> QED  BY <3>1, <3>2
  <2>2. ASSUME NEW k \in 1 .. m + 1  PROVE KeyString(lru'[k].key) \in cache'
    <3>1. CASE k = 1  BY <1>3, <3>1
    <3>2. CASE k # 1
      <4>1. k \in 2 .. m + 1  BY <1>2, <3>2
      <4> QED  BY <1>4, <1>6, <1>10, <4>1
    <3> QED  BY <3>1, <3>2
  <2> QED  BY <2>1, <2>2
<1>12. ASSUME NEW k \in 1 .. m + 1, NEW l \in 1 .. m + 1,
              KeyString(lru'[k].key) = KeyString(lru'[l].key)
       PROVE  k = l
  <2>1. \A i \in 1 .. m : i \in DOMAIN lru /\ EntryString(i) \in cache
    BY <1>2, <1>5 DEF Coherent
  <2>2. \A i \in 2 .. m + 1 : KeyString(lru'[i].key) # s  BY <1>6, <1>10, <2>1
  <2>3. k \in {1} \cup 2 .. m + 1 /\ l \in {1} \cup 2 .. m + 1  BY <1>2
  <2>4. CASE k = 1 \/ l = 1  BY <1>3, <1>12, <2>2, <2>3, <2>4
  <2>5. CASE k # 1 /\ l # 1
    <3>1. EntryString(k - 1) = EntryString(l - 1)  BY <1>10, <1>12, <2>3, <2>5
    <3>2. k - 1 \in 1 .. m /\ l - 1 \in 1 .. m  BY <1>6, <2>3, <2>5
    <3>3. k - 1 = l - 1  BY <2>1, <3>1, <3>2 DEF Coherent
    <3> QED  BY <3>3
  <2> QED  BY <2>4, <2>5
<1>13. Coherent'  BY <1>3, <1>5, <1>9, <1>11, <1>12 DEF Coherent, EntryString
<1> QED  BY <1>3, <1>8, <1>13

(* An expired entry leaves the list and the map.                           *)
LEMMA ExpireMoves ==
  ASSUME Typed, Coherent, NEW s \in cache,
         lru' = RemoveAt(lru, Position(s)), cache' = cache \ {s}
  PROVE  (\E old : Moved(0, old)) /\ Coherent'
<1> DEFINE p == Position(s)
           n == Len(lru)
           old == [k \in 1 .. n - 1 |-> IF k < p THEN k ELSE k + 1]
<1>1. /\ p \in 1 .. n /\ EntryString(p) = s
      /\ \A i \in 1 .. n : EntryString(i) = s => i = p
  BY PositionFacts
<1>2. n \in Nat /\ lru \in Seq(Entry) /\ DOMAIN lru = 1 .. n  BY LenProperties DEF Typed
<1>3. /\ lru' \in Seq(Entry) /\ Len(lru') = n - 1
      /\ \A k \in 1 .. n - 1 : lru'[k] = lru[IF k < p THEN k ELSE k + 1]
  <2>1. /\ RemoveAt(lru, p) \in Seq(Entry) /\ Len(RemoveAt(lru, p)) = n - 1
        /\ \A k \in 1 .. n - 1 : RemoveAt(lru, p)[k] = lru[IF k < p THEN k ELSE k + 1]
    BY <1>1, <1>2, RemoveAtFacts
  <2>2. lru' = RemoveAt(lru, p)  OBVIOUS
  <2> HIDE DEF p, n
  <2> QED  BY <2>1, <2>2
<1> HIDE DEF p, n
<1>4. /\ old \in [1 .. n - 1 -> 1 .. n] /\ \A k \in 1 .. n - 1 : old[k] # p
      /\ \A k, l \in 1 .. n - 1 : k < l => old[k] < old[l]
  BY <1>1, <1>2
<1>5. \A k \in 1 .. n - 1 : lru'[k] = lru[old[k]]  BY <1>3
<1>6. \A i \in 1 .. n : i # p => \E k \in 1 .. n - 1 : i = old[k]
  <2> SUFFICES ASSUME NEW i \in 1 .. n, i # p  PROVE \E k \in 1 .. n - 1 : i = old[k]
    OBVIOUS
  <2>1. CASE i < p
    <3>1. i \in 1 .. n - 1 /\ old[i] = i  BY <1>1, <1>2, <2>1
    <3> QED  BY <3>1
  <2>2. CASE i > p
    <3>1. i - 1 \in 1 .. n - 1 /\ old[i - 1] = i  BY <1>1, <1>2, <2>2
    <3> QED  BY <3>1
  <2> QED  BY <1>1, <1>2, <2>1, <2>2
<1> HIDE DEF old
<1>7. Moved(0, old)
  <2>1. 0 + 1 .. Len(lru') = 1 .. n - 1 /\ Len(lru') >= 0  BY <1>1, <1>2, <1>3
  <2> QED  BY <1>3, <1>4, <1>5, <2>1 DEF Moved, n
<1>8. DOMAIN lru' = 1 .. n - 1  BY <1>3, LenProperties
<1>9. \A k \in 1 .. n - 1 : KeyString(lru'[k].key) = EntryString(old[k])
  BY <1>5 DEF EntryString
<1>10. cache' = {KeyString(lru'[k].key) : k \in 1 .. n - 1}
  <2>1. ASSUME NEW t \in cache'  PROVE \E k \in 1 .. n - 1 : t = KeyString(lru'[k].key)
    <3>1. PICK i \in 1 .. n : t = EntryString(i)  BY <1>2, <2>1 DEF Coherent
    <3>2. i # p  BY <1>1, <2>1, <3>1
    <3>3. PICK k \in 1 .. n - 1 : i = old[k]  BY <1>6, <3>2
    <3> QED  BY <1>9, <3>1, <3>3
  <2>2. ASSUME NEW k \in 1 .. n - 1  PROVE KeyString(lru'[k].key) \in cache'
    <3>1. old[k] \in DOMAIN lru /\ old[k] # p  BY <1>2, <1>4
    <3>2. EntryString(old[k]) \in cache /\ EntryString(old[k]) # s
      BY <1>1, <1>2, <3>1 DEF Coherent
    <3> QED  BY <1>9, <3>2
  <2> QED  BY <2>1, <2>2
<1>11. ASSUME NEW k \in 1 .. n - 1, NEW l \in 1 .. n - 1,
              KeyString(lru'[k].key) = KeyString(lru'[l].key)
       PROVE  k = l
  <2>1. EntryString(old[k]) = EntryString(old[l])  BY <1>9, <1>11
  <2>2. old[k] = old[l]  BY <1>2, <1>4, <2>1 DEF Coherent
  <2>3. old[k] \in Int /\ old[l] \in Int /\ (k < l \/ k = l \/ l < k)  BY <1>4
  <2> QED  BY <1>4, <2>2, <2>3
<1>12. Coherent'
  <2>1. Len(lru') <= MaxSize  BY <1>2, <1>3, CacheAssumption DEF Coherent, n
  <2> QED  BY <1>8, <1>10, <1>11, <2>1 DEF Coherent, EntryString
<1> QED  BY <1>7, <1>12

(* A step that leaves the list alone moves every entry to its own place.   *)
LEMMA StaysMoved ==
  ASSUME Typed, UNCHANGED lru
  PROVE  \E old : Moved(0, old)
<1> DEFINE old == [k \in 1 .. Len(lru) |-> k]
<1>1. Len(lru) \in Nat  BY LenProperties DEF Typed
<1>2. 0 + 1 .. Len(lru') = 1 .. Len(lru) /\ lru' \in Seq(Entry)  BY DEF Typed
<1>3. Moved(0, old)  BY <1>1, <1>2 DEF Moved
<1> QED  BY <1>3

-----------------------------------------------------------------------------
(***************************************************************************)
(* What every step records.                                                *)
(***************************************************************************)
(* When one worker moves, its key string is the only one that is used.     *)
LEMMA LatestOfOne ==
  ASSUME NEW j \in Job, \A i \in Job \ {j} : job'[i] = job[i]
  PROVE  /\ Uses(j) => Latest = {KeyString(job[j].key)}
         /\ ~Uses(j) => Latest = {}
<1>1. \A i \in Job : Uses(i) => i = j  BY DEF Uses
<1> QED  BY <1>1 DEF Latest

(* The list stays in the order of last use when what moved to the front,   *)
(* or went in there, is what was used.                                     *)
LEMMA OrderMoves ==
  ASSUME Typed, LruOrder, Coherent', RecordUse,
         NEW n, NEW old, Moved(n, old),
         Latest = IF n = 1 THEN {KeyString(lru'[1].key)} ELSE {}
  PROVE  LruOrder'
<1> DEFINE m == Len(lru')
           str(i) == KeyString(lru'[i].key)
<1>1. /\ m \in Nat /\ DOMAIN lru' = 1 .. m /\ DOMAIN lru = 1 .. Len(lru) /\ Len(lru) \in Nat
      /\ n \in {0, 1}
  BY LenProperties DEF Typed, Moved
<1>2. /\ cache' = {str(i) : i \in 1 .. m}
      /\ \A i, k \in 1 .. m : str(i) = str(k) => i = k
  BY <1>1 DEF Coherent, EntryString
<1>3. ASSUME NEW i \in 1 .. m, NEW k \in 1 .. m
      PROVE  <<str(i), str(k)>> \in usedAfter'
               <=> str(k) \notin Latest /\ (str(i) \in Latest \/ <<str(i), str(k)>> \in usedAfter)
  BY <1>2 DEF RecordUse
<1>4. \A i \in 1 .. m : str(i) \in Latest <=> n = 1 /\ i = 1
  BY <1>1, <1>2
<1>5. /\ old \in [n + 1 .. m -> 1 .. Len(lru)]
      /\ \A i, k \in n + 1 .. m : i < k => old[i] < old[k]
      /\ \A i \in n + 1 .. m : str(i) = KeyString(lru[old[i]].key)
  BY DEF Moved
<1> HIDE DEF str, m
<1>6. ASSUME NEW i \in 1 .. m, NEW k \in 1 .. m
      PROVE  i < k <=> <<str(i), str(k)>> \in usedAfter'
  <2>1. CASE n = 1 /\ k = 1  BY <1>3, <1>4, <2>1
  <2>2. CASE n = 1 /\ i = 1 /\ k # 1  BY <1>3, <1>4, <2>2
  <2>3. CASE ~(n = 1 /\ (i = 1 \/ k = 1))
    <3>1. i \in n + 1 .. m /\ k \in n + 1 .. m  BY <1>1, <2>3
    <3>2. old[i] \in 1 .. Len(lru) /\ old[k] \in 1 .. Len(lru)  BY <1>5, <3>1
    <3>3. i < k <=> old[i] < old[k]
      <4>1. i < k \/ i = k \/ k < i  OBVIOUS
      <4> QED  BY <1>1, <1>5, <3>1, <3>2, <4>1
    <3>4. old[i] < old[k] <=> <<str(i), str(k)>> \in usedAfter
      BY <1>1, <1>5, <3>1, <3>2 DEF LruOrder
    <3> QED  BY <1>3, <1>4, <2>3, <3>3, <3>4
  <2> QED  BY <2>1, <2>2, <2>3
<1> QED  BY <1>1, <1>6 DEF LruOrder, str

(* staleUntil never goes back, and is now for what is outdated now.        *)
LEMMA StaleRecorded ==
  ASSUME Typed, StaleKnown, RecordStale, now' \in 0 .. MaxTime, now <= now'
  PROVE  /\ staleUntil' \in [Key -> 0 .. MaxTime]
         /\ StaleKnown'
         /\ \A k \in Key : staleUntil[k] <= staleUntil'[k]
         /\ \A k \in Key : config'[k] # config[k] => staleUntil'[k] = now'
<1>1. now \in 0 .. MaxTime /\ staleUntil \in [Key -> 0 .. MaxTime] /\ MaxTime \in Nat
  BY CacheAssumption DEF Typed
<1> DEFINE seen(k) == Outdated(k)' \/ config'[k] # config[k]
<1>2. staleUntil' = [k \in Key |-> IF seen(k) THEN now' ELSE staleUntil[k]]
  BY DEF RecordStale
<1>3. \A k \in Key : Outdated(k)' => seen(k)  OBVIOUS
<1>4. \A k \in Key : config'[k] # config[k] => seen(k)  OBVIOUS
<1>5. \A k \in Key : staleUntil[k] <= now  BY DEF StaleKnown
<1> HIDE DEF seen
<1>6. \A k \in Key : /\ staleUntil'[k] \in 0 .. MaxTime
                     /\ staleUntil[k] <= staleUntil'[k] /\ staleUntil'[k] <= now'
                     /\ seen(k) => staleUntil'[k] = now'
  BY <1>1, <1>2, <1>5
<1>7. staleUntil' \in [Key -> 0 .. MaxTime]  BY <1>1, <1>2
<1>8. StaleKnown'
  <2>1. \A k \in Key : staleUntil'[k] <= now'  BY <1>6
  <2>2. \A k \in Key : Outdated(k)' => staleUntil'[k] = now'  BY <1>3, <1>6
  <2> QED  BY <2>1, <2>2 DEF StaleKnown
<1>9. \A k \in Key : staleUntil[k] <= staleUntil'[k]  BY <1>6
<1>10. \A k \in Key : config'[k] # config[k] => staleUntil'[k] = now'  BY <1>4, <1>6
<1> QED  BY <1>7, <1>8, <1>9, <1>10

(* Entries stay sound when they move and when the staleness is recorded.   *)
LEMMA EntriesMove ==
  ASSUME Typed, EntriesSound, StaleKnown, RecordStale, UNCHANGED <<config, now>>,
         NEW n, NEW old, Moved(n, old), n = 1 => Sound(lru'[1])
  PROVE  EntriesSound'
<1>1. \A k \in Key : staleUntil[k] <= staleUntil'[k]
  <2>1. now' \in 0 .. MaxTime /\ now <= now'  BY CacheAssumption DEF Typed
  <2> QED  BY <2>1, StaleRecorded
<1>2. ASSUME NEW i \in 1 .. Len(lru')  PROVE Sound(lru'[i])
  <2>1. CASE n = 1 /\ i = 1  BY <2>1
  <2>2. CASE ~(n = 1 /\ i = 1)
    <3>1. i \in n + 1 .. Len(lru')  BY <2>2, LenProperties DEF Moved
    <3>2. lru'[i] = lru[old[i]] /\ old[i] \in 1 .. Len(lru)  BY <3>1 DEF Moved
    <3> QED  BY <3>2 DEF EntriesSound
  <2> QED  BY <2>1, <2>2
<1>3. ASSUME NEW e \in Entry, Sound(e)  PROVE Sound(e)'
  <2>1. /\ e.client # NoClient => e.client.key \in Key
        /\ e.expires \in Nat /\ TTL \in Int
    BY CacheAssumption DEF Entry, Client
  <2>2. \A k \in Key : staleUntil[k] \in Int /\ staleUntil'[k] \in Int
    BY StaleRecorded, CacheAssumption DEF Typed
  <2> QED  BY <1>1, <1>3, <2>1, <2>2 DEF Sound
<1>4. \A i \in 1 .. Len(lru') : lru'[i] \in Entry  BY ElementOfSeq DEF Moved
<1> QED  BY <1>2, <1>3, <1>4 DEF EntriesSound, Sound

-----------------------------------------------------------------------------
(***************************************************************************)
(* Each step keeps the invariant.                                          *)
(***************************************************************************)
(* Worker j goes on as w, and the others stay where they are.              *)
LEMMA JobMoves ==
  ASSUME Typed, WorkersFit, NEW j \in Job, NEW w \in Busy \cup {Idle},
         Fits(w), job' = [job EXCEPT ![j] = w]
  PROVE  /\ job' \in [Job -> Busy \cup {Idle}] /\ WorkersFit'
         /\ job'[j] = w /\ \A i \in Job \ {j} : job'[i] = job[i]
<1>1. job' \in [Job -> Busy \cup {Idle}]  BY DEF Typed
<1>2. job'[j] = w /\ \A i \in Job \ {j} : job'[i] = job[i]  BY DEF Typed
<1>3. WorkersFit'  BY <1>2 DEF WorkersFit, Fits
<1> QED  BY <1>1, <1>2, <1>3

(* What a step of one worker must show: where the entries went, and that   *)
(* the one it put in front is sound and of the key string it used.         *)
LEMMA WorkerStep ==
  ASSUME IInv, RecordUse, RecordStale, UNCHANGED <<config, now>>, Coherent', WorkersFit',
         NEW j \in Job, job' \in [Job -> Busy \cup {Idle}],
         \A i \in Job \ {j} : job'[i] = job[i],
         NEW n, NEW old, Moved(n, old), Uses(j) <=> n = 1,
         n = 1 => Sound(lru'[1]) /\ KeyString(lru'[1].key) = KeyString(job[j].key)
  PROVE  IInv'
<1>1. Typed /\ Coherent /\ LruOrder /\ EntriesSound /\ StaleKnown  BY DEF IInv
<1>2. now' \in 0 .. MaxTime /\ now <= now' /\ config' \in [Key -> Version]
  BY <1>1, CacheAssumption DEF Typed
<1>3. staleUntil' \in [Key -> 0 .. MaxTime] /\ StaleKnown'  BY <1>1, <1>2, StaleRecorded
<1>4. Latest = IF n = 1 THEN {KeyString(lru'[1].key)} ELSE {}
  BY LatestOfOne DEF Moved
<1>5. LruOrder'  BY <1>1, <1>4, OrderMoves
<1>6. EntriesSound'  BY <1>1, EntriesMove
<1>7. Typed'  BY <1>2, <1>3 DEF Typed, Moved
<1>8. UsesCached'  BY DEF UsesCached, RecordUse
<1> QED  BY <1>3, <1>5, <1>6, <1>7, <1>8 DEF IInv

(* A worker that goes on without the cache.                                *)
LEMMA IdleStep ==
  ASSUME IInv, RecordUse, RecordStale, UNCHANGED <<config, now, cache, lru>>,
         NEW j \in Job, NEW w \in Busy \cup {Idle},
         Fits(w), job' = [job EXCEPT ![j] = w], ~Uses(j)
  PROVE  IInv'
<1>1. Typed /\ Coherent /\ WorkersFit  BY DEF IInv
<1>2. Coherent'  BY <1>1 DEF Coherent, EntryString
<1>3. PICK old : Moved(0, old)  BY <1>1, StaysMoved
<1>4. /\ job' \in [Job -> Busy \cup {Idle}] /\ WorkersFit'
      /\ \A i \in Job \ {j} : job'[i] = job[i]
  BY <1>1, JobMoves
<1> QED  BY <1>2, <1>3, <1>4, WorkerStep

(* A message is accepted with the configuration of the moment.             *)
LEMMA AcceptStep ==
  ASSUME IInv, RecordUse, RecordStale, NEW j \in Job, NEW k \in Key, Accept(j, k)
  PROVE  IInv'
<1> DEFINE w == [pc |-> "queued", key |-> k, version |-> config[k], client |-> NoClient]
<1>1. w \in Busy /\ Fits(w)  BY DEF IInv, Typed, Busy, Fits
<1>2. job' = [job EXCEPT ![j] = w] /\ UNCHANGED <<config, now, cache, lru>>  BY DEF Accept
<1>3. ~Uses(j)  BY DEF Uses, Accept
<1> HIDE DEF w
<1> QED  BY <1>1, <1>2, <1>3, IdleStep

(* A lookup that finds nothing.                                            *)
LEMMA MissStep ==
  ASSUME IInv, RecordUse, RecordStale, NEW j \in Job, Miss(j)
  PROVE  IInv'
<1> DEFINE w == [job[j] EXCEPT !.pc = "creating"]
<1>1. job[j] \in Busy  BY BusyFacts DEF IInv, Typed, Miss
<1>2. w \in Busy /\ Fits(w)  BY <1>1 DEF Busy, Fits
<1>3. job' = [job EXCEPT ![j] = w] /\ UNCHANGED <<config, now, cache, lru>>  BY DEF Miss
<1>4. ~Uses(j)  BY DEF Uses, Miss
<1> HIDE DEF w
<1> QED  BY <1>2, <1>3, <1>4, IdleStep

(* A message is done with its client.                                      *)
LEMMA FinishStep ==
  ASSUME IInv, RecordUse, RecordStale, NEW j \in Job, Finish(j)
  PROVE  IInv'
<1>1. Idle \in Busy \cup {Idle} /\ Fits(Idle)  BY DEF Idle, Fits
<1>2. job' = [job EXCEPT ![j] = Idle] /\ UNCHANGED <<config, now, cache, lru>>  BY DEF Finish
<1>3. ~Uses(j)  BY DEF Uses, Finish
<1> QED  BY <1>1, <1>2, <1>3, IdleStep

(* A lookup that finds an expired entry, and drops it                      *)
(* (agent_cache.go:55-58).                                                 *)
LEMMA ExpireStep ==
  ASSUME IInv, RecordUse, RecordStale, NEW j \in Job, Expire(j)
  PROVE  IInv'
<1> DEFINE w == [job[j] EXCEPT !.pc = "creating"]
           s == KeyString(job[j].key)
<1>1. Typed /\ Coherent /\ WorkersFit  BY DEF IInv
<1>2. job[j] \in Busy  BY <1>1, BusyFacts DEF Typed, Expire
<1>3. w \in Busy /\ Fits(w)  BY <1>2 DEF Busy, Fits
<1>4. /\ job' = [job EXCEPT ![j] = w] /\ UNCHANGED <<config, now>> /\ s \in cache
      /\ lru' = RemoveAt(lru, Position(s)) /\ cache' = cache \ {s}
  BY DEF Expire
<1>5. ~Uses(j)  BY <1>4 DEF Uses
<1> HIDE DEF w, s
<1>6. (\E old : Moved(0, old)) /\ Coherent'  BY <1>1, <1>4, ExpireMoves
<1>7. PICK old : Moved(0, old)  BY <1>6
<1>8. /\ job' \in [Job -> Busy \cup {Idle}] /\ WorkersFit'
      /\ \A i \in Job \ {j} : job'[i] = job[i]
  BY <1>1, <1>3, <1>4, JobMoves
<1> QED  BY <1>4, <1>5, <1>6, <1>7, <1>8, WorkerStep

(* A hit serves a client of the worker's key string, outdated or not.      *)
LEMMA HitStep ==
  ASSUME IInv, RecordUse, RecordStale, NEW j \in Job, Hit(j)
  PROVE  /\ IInv'
         /\ job'[j].pc = "using"
              => /\ job'[j].client # NoClient
                 /\ job'[j].client.version # config[job'[j].client.key]
                      => now <= staleUntil[job'[j].client.key] + TTL
<1> DEFINE s == KeyString(job[j].key)
           e == lru[Position(s)]
           w == [job[j] EXCEPT !.pc = IF e.client = NoClient THEN "creating" ELSE "using",
                               !.client = e.client]
<1>1. Typed /\ Coherent /\ WorkersFit /\ EntriesSound  BY DEF IInv
<1>2. /\ job[j].pc = "queued" /\ s \in cache /\ ~Expired(e)
      /\ lru' = ToFront(Position(s), e) /\ job' = [job EXCEPT ![j] = w]
      /\ UNCHANGED <<config, now, cache>>
  BY DEF Hit
<1>3. job[j] \in Busy /\ job[j].key \in Key  BY <1>1, <1>2, BusyFacts DEF Typed
<1>4. Position(s) \in 1 .. Len(lru) /\ EntryString(Position(s)) = s
  BY <1>1, <1>2, PositionFacts
<1>5. e \in Entry /\ Sound(e)  BY <1>1, <1>4, ElementOfSeq DEF Typed, EntriesSound
<1>6. e.key \in Key /\ e.client \in Client \cup {NoClient} /\ e.expires \in Nat
  BY <1>5 DEF Entry
<1>7. KeyString(e.key) = KeyString(job[j].key)  BY <1>4 DEF EntryString
<1> HIDE DEF e
<1>8. /\ w \in Busy /\ w.key = job[j].key
      /\ w.pc = "using" => w.client # NoClient /\ w.client = e.client
  BY <1>3, <1>6 DEF Busy
<1>9. Fits(w)  BY <1>5, <1>6, <1>7, <1>8 DEF Sound, Fits
<1>10. w.pc \in {"creating", "using"}  BY <1>3 DEF Busy
<1> HIDE DEF w, s
<1>11. /\ job' \in [Job -> Busy \cup {Idle}] /\ WorkersFit' /\ job'[j] = w
       /\ \A i \in Job \ {j} : job'[i] = job[i]
  BY <1>1, <1>2, <1>8, <1>9, JobMoves
<1>12. Uses(j)  BY <1>2, <1>10, <1>11 DEF Uses, s
<1>13. /\ (\E old : Moved(1, old)) /\ Coherent' /\ lru'[1] = e /\ KeyString(lru'[1].key) = s
  BY <1>1, <1>2, <1>5, FrontMoves DEF e
<1>14. PICK old : Moved(1, old)  BY <1>13
<1>15. Sound(lru'[1]) /\ KeyString(lru'[1].key) = KeyString(job[j].key)
  BY <1>5, <1>13 DEF s
<1>16. IInv'  BY <1>2, <1>11, <1>12, <1>13, <1>14, <1>15, WorkerStep
<1>17. ASSUME w.pc = "using", w.client.version # config[w.client.key]
       PROVE  now <= staleUntil[w.client.key] + TTL
  <2>1. /\ w.client = e.client /\ e.client \in Client
        /\ e.client # NoClient /\ e.client.version # config[e.client.key]
    BY <1>6, <1>8, <1>17
  <2>2. e.expires <= staleUntil[e.client.key] + TTL  BY <1>5, <2>1 DEF Sound
  <2>3. ~(now > e.expires)  BY <1>2 DEF Expired
  <2>4. now \in Int /\ TTL \in Int /\ staleUntil[e.client.key] \in Int
    BY <1>1, <2>1, CacheAssumption DEF Typed, Client
  <2> QED  BY <1>6, <2>1, <2>2, <2>3, <2>4
<1> QED  BY <1>8, <1>11, <1>16, <1>17

(* The client a worker built, as an entry of the cache.                    *)
LEMMA CreatedFacts ==
  ASSUME IInv, NEW j \in Job, job[j].pc = "creating", NEW e \in Entry,
         KeyString(e.key) = KeyString(job[j].key), e.client = Created(j),
         e.expires = now + TTL
  PROVE  Sound(e)
<1>1. job[j] \in Busy /\ job[j].key \in Key /\ job[j].version \in Version
  BY BusyFacts DEF IInv, Typed
<1>2. ASSUME Created(j) # NoClient
      PROVE  Created(j).key = job[j].key /\ Created(j).version = job[j].version
  BY <1>2 DEF Created, Factory
<1>3. ASSUME job[j].version # config[job[j].key]  PROVE staleUntil[job[j].key] = now
  <2>1. Outdated(job[j].key)  BY <1>3 DEF Outdated
  <2> QED  BY <1>1, <2>1 DEF IInv, StaleKnown
<1>4. now + TTL \in Int  BY CacheAssumption DEF IInv, Typed
<1> QED  BY <1>2, <1>3, <1>4 DEF Sound

(* How a worker takes the client it built, or gives up.                    *)
LEMMA TakeCreatedFacts ==
  ASSUME IInv, NEW j \in Job, job[j].pc = "creating", TakeCreated(j)
  PROVE  /\ Created(j) \in Client \cup {NoClient}
         /\ job' \in [Job -> Busy \cup {Idle}] /\ WorkersFit' /\ job'[j].pc # job[j].pc
         /\ \A i \in Job \ {j} : job'[i] = job[i]
<1> DEFINE c == Created(j)
           w == IF c = NoClient THEN Idle ELSE [job[j] EXCEPT !.pc = "using", !.client = c]
<1>1. job[j] \in Busy /\ job[j].key \in Key /\ job[j].version \in Version
  BY BusyFacts DEF IInv, Typed
<1>2. c \in Client \cup {NoClient}  BY <1>1, FactoryType DEF Created
<1>3. c # NoClient => c.key = job[j].key  BY DEF Created, Factory
<1>4. job' = [job EXCEPT ![j] = w]  BY DEF TakeCreated
<1> HIDE DEF c
<1>5. CASE c = NoClient
  <2>1. w = Idle /\ w.pc = "idle" /\ Fits(w)  BY <1>5 DEF Idle, Fits
  <2> HIDE DEF w
  <2>2. w \in Busy \cup {Idle}  BY <2>1
  <2> QED  BY <1>2, <1>4, <2>1, <2>2, JobMoves DEF IInv, c
<1>6. CASE c # NoClient
  <2>1. /\ w \in Busy /\ w.pc = "using" /\ w.client = c /\ w.key = job[j].key
    BY <1>1, <1>2, <1>6 DEF Busy
  <2> HIDE DEF w
  <2>2. Fits(w)  BY <1>2, <1>3, <1>6, <2>1 DEF Fits
  <2> QED  BY <1>2, <1>4, <2>1, <2>2, JobMoves DEF IInv, c
<1> QED  BY <1>5, <1>6

(* Set on a key that another worker has set in the meantime                *)
(* (agent_cache.go:68-74).                                                 *)
LEMMA ReplaceStep ==
  ASSUME IInv, RecordUse, RecordStale, NEW j \in Job, Replace(j)
  PROVE  IInv'
<1> DEFINE s == KeyString(job[j].key)
           i == Position(s)
           e == [lru[i] EXCEPT !.client = Created(j), !.expires = now + TTL]
<1>1. Typed /\ Coherent  BY DEF IInv
<1>2. /\ job[j].pc = "creating" /\ s \in cache /\ lru' = ToFront(i, e)
      /\ TakeCreated(j) /\ UNCHANGED <<config, now, cache>>
  BY DEF Replace
<1>3. job[j].key \in Key  BY <1>1, <1>2, BusyFacts DEF Typed
<1>4. i \in 1 .. Len(lru) /\ EntryString(i) = s  BY <1>1, <1>2, PositionFacts
<1>5. lru[i] \in Entry  BY <1>1, <1>4, ElementOfSeq DEF Typed
<1>6. Created(j) \in Client \cup {NoClient} /\ now + TTL \in Nat
  BY <1>1, <1>2, TakeCreatedFacts, CacheAssumption DEF Typed
<1>7. /\ e \in Entry /\ e.key = lru[i].key /\ e.client = Created(j) /\ e.expires = now + TTL
  BY <1>5, <1>6 DEF Entry
<1>8. KeyString(e.key) = KeyString(job[j].key)  BY <1>4, <1>7 DEF EntryString
<1> HIDE DEF e
<1>9. Sound(e)  BY <1>2, <1>7, <1>8, CreatedFacts
<1>10. /\ (\E old : Moved(1, old)) /\ Coherent' /\ lru'[1] = e /\ KeyString(lru'[1].key) = s
  BY <1>1, <1>2, <1>7, FrontMoves
<1>11. PICK old : Moved(1, old)  BY <1>10
<1>12. /\ job' \in [Job -> Busy \cup {Idle}] /\ WorkersFit' /\ job'[j].pc # job[j].pc
       /\ \A l \in Job \ {j} : job'[l] = job[l]
  BY <1>2, TakeCreatedFacts
<1>13. Uses(j)  BY <1>2, <1>12 DEF Uses
<1> QED  BY <1>2, <1>9, <1>10, <1>11, <1>12, <1>13, WorkerStep

(* Set on a new key, which may cost the last entry its place               *)
(* (agent_cache.go:76-87).                                                 *)
LEMMA InsertStep ==
  ASSUME IInv, RecordUse, RecordStale, NEW j \in Job, Insert(j)
  PROVE  IInv'
<1> DEFINE s == KeyString(job[j].key)
           e == [key |-> job[j].key, client |-> Created(j), expires |-> now + TTL]
<1>1. Typed /\ Coherent  BY DEF IInv
<1>2. /\ job[j].pc = "creating" /\ s \notin cache /\ lru' = <<e>> \o Kept
      /\ cache' = KeptStrings \cup {s} /\ TakeCreated(j) /\ UNCHANGED <<config, now>>
  BY DEF Insert
<1>3. job[j].key \in Key  BY <1>1, <1>2, BusyFacts DEF Typed
<1>4. Created(j) \in Client \cup {NoClient} /\ now + TTL \in Nat
  BY <1>1, <1>2, TakeCreatedFacts, CacheAssumption DEF Typed
<1>5. /\ e \in Entry /\ e.key = job[j].key /\ e.client = Created(j) /\ e.expires = now + TTL
  BY <1>3, <1>4 DEF Entry
<1> HIDE DEF e
<1>6. Sound(e)  BY <1>2, <1>5, CreatedFacts
<1>7. (\E old : Moved(1, old)) /\ Coherent' /\ lru'[1] = e
  BY <1>1, <1>2, <1>5, InsertMoves
<1>8. PICK old : Moved(1, old)  BY <1>7
<1>9. /\ job' \in [Job -> Busy \cup {Idle}] /\ WorkersFit' /\ job'[j].pc # job[j].pc
      /\ \A l \in Job \ {j} : job'[l] = job[l]
  BY <1>2, TakeCreatedFacts
<1>10. Uses(j)  BY <1>2, <1>9 DEF Uses
<1> QED  BY <1>2, <1>5, <1>6, <1>7, <1>8, <1>9, <1>10, WorkerStep

(* A change of configuration or of the time: what it outdates is recorded. *)
LEMMA OutsideStep ==
  ASSUME IInv, RecordUse, RecordStale, UNCHANGED <<cache, lru, job>>,
         config' \in [Key -> Version], now' \in 0 .. MaxTime, now <= now'
  PROVE  IInv'
<1>1. Typed /\ Coherent /\ LruOrder /\ EntriesSound /\ WorkersFit /\ StaleKnown  BY DEF IInv
<1>2. /\ staleUntil' \in [Key -> 0 .. MaxTime] /\ StaleKnown'
      /\ \A k \in Key : staleUntil[k] <= staleUntil'[k]
      /\ \A k \in Key : config'[k] # config[k] => staleUntil'[k] = now'
  BY <1>1, StaleRecorded
<1>3. Typed' /\ Coherent' /\ WorkersFit'
  BY <1>1, <1>2 DEF Typed, Coherent, WorkersFit, Fits, EntryString
<1>4. LruOrder'
  <2>1. PICK old : Moved(0, old)  BY <1>1, StaysMoved
  <2>2. Latest = {}  BY DEF Latest, Uses
  <2> QED  BY <1>1, <1>3, <2>1, <2>2, OrderMoves
<1>5. ASSUME NEW e \in Entry, Sound(e)  PROVE Sound(e)'
  <2>1. /\ e.client # NoClient => e.client.key \in Key
        /\ e.expires \in Nat
    BY DEF Entry, Client
  <2>2. /\ now \in Int /\ now' \in Int /\ TTL \in Int
        /\ \A k \in Key : staleUntil[k] \in Int /\ staleUntil'[k] \in Int
    BY <1>1, <1>2, CacheAssumption DEF Typed
  <2>3. e.expires <= now' + TTL  BY <1>5, <2>1, <2>2 DEF Sound
  <2>4. ASSUME e.client # NoClient, e.client.version # config'[e.client.key]
        PROVE  e.expires <= staleUntil'[e.client.key] + TTL
    <3> DEFINE k == e.client.key
    <3>1. CASE config'[k] = config[k]
      BY <1>2, <1>5, <2>1, <2>2, <2>4, <3>1 DEF Sound
    <3>2. CASE config'[k] # config[k]  BY <1>2, <2>1, <2>3, <2>4, <3>2
    <3> QED  BY <3>1, <3>2
  <2> QED  BY <1>5, <2>3, <2>4 DEF Sound
<1>6. \A i \in 1 .. Len(lru) : lru[i] \in Entry  BY <1>1, ElementOfSeq DEF Typed
<1>7. EntriesSound'  BY <1>1, <1>5, <1>6 DEF EntriesSound, Sound
<1>8. UsesCached'  BY DEF UsesCached, RecordUse
<1> QED  BY <1>2, <1>3, <1>4, <1>7, <1>8 DEF IInv

(* The operator changes the configuration of an app or a user.             *)
LEMMA ChangeConfigStep ==
  ASSUME IInv, RecordUse, RecordStale, NEW k \in Key, NEW v \in Version, ChangeConfig(k, v)
  PROVE  IInv'
<1>1. now \in 0 .. MaxTime /\ config \in [Key -> Version]  BY DEF IInv, Typed
<1>2. config' \in [Key -> Version] /\ UNCHANGED <<now, cache, lru, job>>
  BY <1>1 DEF ChangeConfig
<1>3. now' \in 0 .. MaxTime /\ now <= now'  BY <1>1, <1>2, CacheAssumption
<1> QED  BY <1>2, <1>3, OutsideStep

(* Time passes.                                                            *)
LEMMA TickStep ==
  ASSUME IInv, RecordUse, RecordStale, Tick
  PROVE  IInv'
<1>1. now \in 0 .. MaxTime /\ config \in [Key -> Version]  BY DEF IInv, Typed
<1>2. now' \in 0 .. MaxTime /\ now <= now'  BY <1>1, CacheAssumption DEF Tick
<1>3. config' \in [Key -> Version] /\ UNCHANGED <<cache, lru, job>>  BY <1>1 DEF Tick
<1> QED  BY <1>2, <1>3, OutsideStep

-----------------------------------------------------------------------------
(***************************************************************************)
(* The invariant and what follows from it.                                 *)
(***************************************************************************)
LEMMA InitIInv == Init => IInv
<1> SUFFICES ASSUME Init  PROVE IInv
  OBVIOUS
<1>1. lru = <<>> /\ Len(lru) = 0 /\ DOMAIN lru = {} /\ cache = {} /\ usedAfter = {}
  BY DEF Init
<1>2. \A j \in Job : job[j].pc = "idle"  BY DEF Init, Idle
<1>3. Typed  BY <1>1, CacheAssumption DEF Init, Typed
<1>4. Coherent  BY <1>1, CacheAssumption DEF Coherent
<1>5. LruOrder /\ EntriesSound /\ UsesCached  BY <1>1 DEF LruOrder, EntriesSound, UsesCached
<1>6. WorkersFit /\ StaleKnown
  BY <1>2, CacheAssumption DEF WorkersFit, Fits, StaleKnown, Outdated, Init
<1> QED  BY <1>3, <1>4, <1>5, <1>6 DEF IInv

(* Every step keeps the invariant.                                         *)
LEMMA NextIInv == IInv /\ [Next]_vars => IInv'
<1>1. ASSUME IInv, Next  PROVE IInv'
  <2>1. RecordUse /\ RecordStale /\ Step  BY <1>1 DEF Next
  <2>2. ASSUME NEW j \in Job, JobStep(j)  PROVE IInv'
    BY <1>1, <2>1, <2>2, AcceptStep, MissStep, ExpireStep, HitStep, ReplaceStep, InsertStep,
       FinishStep DEF JobStep
  <2>3. ASSUME NEW k \in Key, NEW v \in Version, ChangeConfig(k, v)  PROVE IInv'
    BY <1>1, <2>1, <2>3, ChangeConfigStep
  <2>4. ASSUME Tick  PROVE IInv'
    BY <1>1, <2>1, <2>4, TickStep
  <2> QED  BY <2>1, <2>2, <2>3, <2>4 DEF Step
<1>2. ASSUME IInv, UNCHANGED vars  PROVE IInv'
  BY <1>2 DEF IInv, Typed, Coherent, LruOrder, EntriesSound, Sound, WorkersFit, Fits, StaleKnown,
     Outdated, UsesCached, EntryString, vars
<1> QED  BY <1>1, <1>2

(* The invariant holds in every state the cache can reach.                 *)
THEOREM Invariance == Spec => []IInv
<1> QED  BY InitIInv, NextIInv, PTL DEF Spec

(* IInv says at least as much as the invariants the runs check.            *)
LEMMA Consequences == IInv => TypeOK /\ CacheCoherent /\ StalenessBound /\ OwnClient
<1> SUFFICES ASSUME IInv  PROVE TypeOK /\ CacheCoherent /\ StalenessBound /\ OwnClient
  OBVIOUS
<1>1. Typed /\ Coherent /\ EntriesSound /\ UsesCached  BY DEF IInv
<1>2. DOMAIN lru = 1 .. Len(lru) /\ \A i \in 1 .. Len(lru) : lru[i] \in Entry
  BY <1>1, LenProperties, ElementOfSeq DEF Typed
<1>3. \A i \in 1 .. Len(lru) : lru[i].key \in Key  BY <1>2 DEF Entry
<1>4. cache \subseteq KeyStrings  BY <1>1, <1>2, <1>3 DEF Coherent, EntryString, KeyStrings
<1>5. TypeOK  BY <1>1, <1>4 DEF TypeOK, Typed, UsesCached
<1>6. CacheCoherent  BY <1>1 DEF CacheCoherent, Coherent, EntryString
<1>7. StalenessBound  BY <1>1, <1>2 DEF StalenessBound, EntriesSound, Sound
<1>8. OwnClient
  <2> SUFFICES ASSUME NEW j \in Job, job[j].pc = "using", job[j].client.key # job[j].key
               PROVE  \/ Collide(job[j].key, job[j].client.key)
                      \/ Collide(job[j].client.key, job[j].key)
    BY DEF OwnClient
  <2>1. job[j].client \in Client /\ KeyString(job[j].client.key) = KeyString(job[j].key)
    BY DEF IInv, WorkersFit, Fits
  <2>2. job[j].key \in Key /\ job[j].client.key \in Key
    BY <1>1, <2>1, BusyFacts DEF Typed, Client
  <2> QED  BY <2>1, <2>2, SameString
<1> QED  BY <1>5, <1>6, <1>7, <1>8

(* The variables keep their types.                                         *)
THEOREM Typing == Spec => []TypeOK
<1> QED  BY Invariance, Consequences, PTL

(* The map and the list never disagree, and never outgrow maxSize, however *)
(* many workers mix hits, expiries, updates and evictions                  *)
(* (agent_cache.go:45-104).                                                *)
THEOREM MapAndListAgree == Spec => []CacheCoherent
<1> QED  BY Invariance, Consequences, PTL

(* The list is in the order of last use (agent_cache.go:60, 72, 82).       *)
THEOREM ListIsOrderOfUse == Spec => []LruOrder
<1>1. IInv => LruOrder  BY DEF IInv
<1> QED  BY <1>1, Invariance, PTL

(* Hits do not prolong the life of an outdated client                      *)
(* (agent_cache.go:55-61, 71).                                             *)
THEOREM OutdatedClientsExpire == Spec => []StalenessBound
<1> QED  BY Invariance, Consequences, PTL

(* No worker talks to the agent as another user, unless an app name and a  *)
(* user ID both hold the separator (agent_cache.go:18-20,                  *)
(* callback.go:291-298).                                                   *)
THEOREM NobodyElsesClient == Spec => []OwnClient
<1> QED  BY Invariance, Consequences, PTL

(* A client leaves the cache expired, or as the least recently used one of *)
(* a full cache (agent_cache.go:55-58, 76-80).                             *)
THEOREM OnlyOldOrExpiredLeave == Spec => LeavesOnlyOldOrExpired
<1> DEFINE Fair(s) == \/ Expired(lru[Position(s)])
                      \/ Len(lru) = MaxSize /\ \A t \in cache : Position(t) <= Position(s)
           A == \A s \in cache \ cache' : Fair(s)
<1>1. ASSUME IInv, [Next]_vars  PROVE A
  <2> SUFFICES ASSUME NEW s \in cache, s \notin cache'  PROVE Fair(s)
    OBVIOUS
  <2>1. Typed /\ Coherent  BY <1>1 DEF IInv
  <2>2. PICK j \in Job : Expire(j) \/ Insert(j)
    BY <1>1 DEF Next, Step, JobStep, Accept, Miss, Hit, Replace, Finish, ChangeConfig, Tick, vars
  <2>3. CASE Expire(j)
    <3>1. s = KeyString(job[j].key) /\ Expired(lru[Position(s)])  BY <2>3 DEF Expire
    <3> QED  BY <3>1
  <2>4. CASE Insert(j)
    <3>1. Full /\ s = KeyString(Last(lru).key)  BY <2>4 DEF Insert, KeptStrings
    <3>2. Len(lru) \in Nat  BY <2>1, LenProperties DEF Typed
    <3>3. Len(lru) = MaxSize /\ Len(lru) \in 1 .. Len(lru)
      BY <2>1, <3>1, <3>2, CacheAssumption DEF Full, Coherent
    <3>4. EntryString(Len(lru)) = s  BY <3>1 DEF EntryString, Last
    <3>5. Position(s) = Len(lru)  BY <2>1, <3>3, <3>4, PositionFacts
    <3>6. \A t \in cache : Position(t) <= Len(lru)  BY <2>1, PositionFacts
    <3> QED  BY <3>3, <3>5, <3>6
  <2> QED  BY <2>2, <2>3, <2>4
<1>2. Spec => [][A]_vars  BY <1>1, Invariance, PTL DEF Spec
<1> QED  BY <1>2 DEF LeavesOnlyOldOrExpired
=============================================================================
