--------------------------- MODULE DispatchProofs ---------------------------
(***************************************************************************)
(* Proofs about the dispatcher for any number of messages and apps, any    *)
(* values of max_concurrent and any default capacity.                      *)
(***************************************************************************)
EXTENDS Dispatch, FiniteSetTheorems, TLAPS

USE DispatchAssumption

(* Every variable keeps its type. *)
THEOREM Typing == Spec => []TypeOK
<1>1. Init => TypeOK
  <2> SUFFICES ASSUME Init PROVE TypeOK  OBVIOUS
  <2>1. forced \in BOOLEAN  BY Zenon DEF Init
  <2>2. /\ handler \in [Msg -> HandlerStates] /\ outer \in [Msg -> OuterStates]
        /\ inner \in [Msg -> InnerStates]
    BY DEF Init, HandlerStates, OuterStates, InnerStates
  <2>3. main \in MainStates /\ active \in Int
    BY DEF Init, MainStates
  <2>4. capacity \in [App -> Nat] /\ tokens \in [App -> Nat]
    BY DEF Init
  <2> QED  BY <2>1, <2>2, <2>3, <2>4 DEF TypeOK
<1>2. ASSUME TypeOK, [Next]_vars PROVE TypeOK'
  <2> USE <1>2 DEF TypeOK, MainStates, HandlerStates, OuterStates, InnerStates
  <2>1. ASSUME NEW m \in Msg, Receive(m) \/ Decline(m) \/ Count(m) \/ SpawnOuter(m)
        PROVE  TypeOK'
    BY <2>1 DEF Receive, Decline, Count, SpawnOuter
  <2>2. ASSUME NEW m \in Msg, NEW k \in MaxConcurrent, GetSemaphore(m, k)
        PROVE  TypeOK'
    <3>1. CapacityFor(k) \in Nat  BY DEF CapacityFor
    <3>2. AppOf[m] \in App  OBVIOUS
    <3> QED  BY <2>2, <3>1, <3>2 DEF GetSemaphore
  <2>3. ASSUME NEW m \in Msg, Acquire(m) \/ SpawnInner(m) \/ EndOuter(m)
        PROVE  TypeOK'
    <3>1. AppOf[m] \in App  OBVIOUS
    <3> QED  BY <2>3, <3>1 DEF Acquire, SpawnInner, EndOuter
  <2>4. ASSUME NEW m \in Msg, EndInner(m) \/ Release(m)
        PROVE  TypeOK'
    <3>1. AppOf[m] \in App  OBVIOUS
    <3> QED  BY <2>4, <3>1 DEF EndInner, Release
  <2>5. ASSUME Signal \/ MainStep \/ Panic \/ Exited PROVE TypeOK'
    BY <2>5 DEF Signal, MainStep, ShutdownDone, ShutdownTimeout, WaitDone, Exit, Panic,
                Exited, vars, others
  <2>6. CASE UNCHANGED vars  BY <2>6 DEF vars
  <2> QED  BY <2>1, <2>2, <2>3, <2>4, <2>5, <2>6 DEF Next, MsgStep
<1> QED  BY <1>1, <1>2, PTL DEF Spec

-----------------------------------------------------------------------------
(***************************************************************************)
(* How the three goroutines of a message hand over to one another.         *)
(***************************************************************************)
HandOver ==
  \A m \in Msg :
    /\ outer[m] # "none" => handler[m] = "returned"
    /\ inner[m] # "none" <=> outer[m] \in {"returning", "done"}

(* The goroutines of a message start one after the other.                  *)
THEOREM HandOverInvariant == Spec => []HandOver
<1>1. Init => HandOver
  BY DEF Init, HandOver
<1>2. ASSUME TypeOK, HandOver, [Next]_vars PROVE HandOver'
  <2> USE <1>2 DEF TypeOK, HandOver, HandlerStates, OuterStates, InnerStates
  <2>1. ASSUME NEW m \in Msg, Receive(m) \/ Decline(m) \/ Count(m) \/ SpawnOuter(m)
        PROVE  HandOver'
    BY <2>1 DEF Receive, Decline, Count, SpawnOuter
  <2>2. ASSUME NEW m \in Msg, NEW k \in MaxConcurrent, GetSemaphore(m, k)
        PROVE  HandOver'
    BY <2>2 DEF GetSemaphore
  <2>3. ASSUME NEW m \in Msg, Acquire(m) \/ SpawnInner(m) \/ EndOuter(m)
        PROVE  HandOver'
    BY <2>3 DEF Acquire, SpawnInner, EndOuter
  <2>4. ASSUME NEW m \in Msg, EndInner(m) \/ Release(m)
        PROVE  HandOver'
    BY <2>4 DEF EndInner, Release
  <2>5. ASSUME Signal \/ MainStep \/ Panic \/ Exited PROVE HandOver'
    BY <2>5 DEF Signal, MainStep, ShutdownDone, ShutdownTimeout, WaitDone, Exit, Panic,
                Exited, vars, others
  <2>6. CASE UNCHANGED vars  BY <2>6 DEF vars
  <2> QED  BY <2>1, <2>2, <2>3, <2>4, <2>5, <2>6 DEF Next, MsgStep
<1> QED  BY <1>1, <1>2, Typing, PTL DEF Spec

-----------------------------------------------------------------------------
(***************************************************************************)
(* The counter.                                                            *)
(***************************************************************************)
(* A new member makes a finite set one larger.                             *)
LEMMA OneMore ==
  ASSUME NEW S, NEW x, IsFiniteSet(S), x \notin S
  PROVE  Cardinality(S \cup {x}) = Cardinality(S) + 1
  BY FS_AddElement

(* A lost member makes a finite set one smaller.                           *)
LEMMA OneLess ==
  ASSUME NEW S, NEW x, IsFiniteSet(S), x \in S
  PROVE  Cardinality(S \ {x}) = Cardinality(S) - 1
  BY FS_RemoveElement

(* What h.active counts can be counted.                                    *)
LEMMA CountedSetsFinite == IsFiniteSet(OuterLive) /\ IsFiniteSet(Finished)
  BY FS_Subset DEF OuterLive, Finished

(* h.active counts the messages on their way to a worker less the messages *)
(* that completed: one step up, two steps down for each of them.           *)
THEOREM ActiveIsAccounted == Spec => []ActiveAccounting
<1>1. Init => ActiveAccounting
  <2> SUFFICES ASSUME Init PROVE ActiveAccounting  OBVIOUS
  <2>1. OuterLive = {} /\ Finished = {}  BY DEF Init, OuterLive, Finished
  <2> QED  BY <2>1, FS_EmptySet DEF Init, ActiveAccounting
<1>2. ASSUME TypeOK, HandOver, ActiveAccounting, [Next]_vars
      PROVE  ActiveAccounting'
  <2> USE <1>2 DEF TypeOK, HandlerStates, OuterStates, InnerStates
  <2>0. /\ IsFiniteSet(OuterLive) /\ Cardinality(OuterLive) \in Nat
        /\ IsFiniteSet(Finished) /\ Cardinality(Finished) \in Nat
    BY CountedSetsFinite, FS_CardinalityType
  <2>1. ASSUME NEW m \in Msg, Receive(m) \/ Decline(m) \/ SpawnOuter(m)
        PROVE  ActiveAccounting'
    <3>1. OuterLive' = OuterLive /\ Finished' = Finished /\ active' = active
      BY <2>1 DEF Receive, Decline, SpawnOuter, OuterLive, Finished, HandOver
    <3> QED  BY <3>1 DEF ActiveAccounting
  <2>2. ASSUME NEW m \in Msg, Count(m) PROVE ActiveAccounting'
    <3>1. m \notin OuterLive  BY <2>2 DEF Count, OuterLive, HandOver
    <3>2. OuterLive' = OuterLive \cup {m} /\ Finished' = Finished
      BY <2>2 DEF Count, OuterLive, Finished
    <3>3. Cardinality(OuterLive \cup {m}) = Cardinality(OuterLive) + 1
      BY <2>0, <3>1, OneMore
    <3>4. active' = active + 1  BY <2>2 DEF Count
    <3> QED  BY <2>0, <3>2, <3>3, <3>4 DEF ActiveAccounting
  <2>3. ASSUME NEW m \in Msg,
               (\E k \in MaxConcurrent : GetSemaphore(m, k)) \/ Acquire(m) \/ SpawnInner(m)
        PROVE  ActiveAccounting'
    <3>1. OuterLive' = OuterLive /\ Finished' = Finished /\ active' = active
      BY <2>3 DEF GetSemaphore, Acquire, SpawnInner, OuterLive, Finished, HandOver
    <3> QED  BY <3>1 DEF ActiveAccounting
  <2>4. ASSUME NEW m \in Msg, EndOuter(m) PROVE ActiveAccounting'
    <3>1. m \in OuterLive  BY <2>4 DEF EndOuter, OuterLive
    <3>2. OuterLive' = OuterLive \ {m} /\ Finished' = Finished
      BY <2>4 DEF EndOuter, OuterLive, Finished, HandOver
    <3>3. Cardinality(OuterLive \ {m}) = Cardinality(OuterLive) - 1
      BY <2>0, <3>1, OneLess
    <3>4. active' = active - 1  BY <2>4 DEF EndOuter
    <3> QED  BY <2>0, <3>2, <3>3, <3>4 DEF ActiveAccounting
  <2>5. ASSUME NEW m \in Msg, EndInner(m) PROVE ActiveAccounting'
    <3>1. m \notin Finished  BY <2>5 DEF EndInner, Finished
    <3>2. OuterLive' = OuterLive /\ Finished' = Finished \cup {m}
      BY <2>5 DEF EndInner, OuterLive, Finished
    <3>3. Cardinality(Finished \cup {m}) = Cardinality(Finished) + 1
      BY <2>0, <3>1, OneMore
    <3>4. active' = active - 1  BY <2>5 DEF EndInner
    <3> QED  BY <2>0, <3>2, <3>3, <3>4 DEF ActiveAccounting
  <2>6. ASSUME NEW m \in Msg, Release(m) PROVE ActiveAccounting'
    <3>1. OuterLive' = OuterLive /\ Finished' = Finished /\ active' = active
      BY <2>6 DEF Release, OuterLive, Finished
    <3> QED  BY <3>1 DEF ActiveAccounting
  <2>7. ASSUME Signal \/ MainStep \/ Panic \/ Exited \/ UNCHANGED vars PROVE ActiveAccounting'
    <3>1. OuterLive' = OuterLive /\ Finished' = Finished /\ active' = active
      BY <2>7 DEF Signal, MainStep, ShutdownDone, ShutdownTimeout, WaitDone, Exit, Panic,
                  Exited, vars, others, OuterLive, Finished
    <3> QED  BY <3>1 DEF ActiveAccounting
  <2> QED  BY <2>1, <2>2, <2>3, <2>4, <2>5, <2>6, <2>7 DEF Next, MsgStep
<1> QED  BY <1>1, <1>2, Typing, HandOverInvariant, PTL DEF Spec

-----------------------------------------------------------------------------
(***************************************************************************)
(* The semaphores.                                                         *)
(***************************************************************************)
TokensFit == \A a \in App : tokens[a] <= capacity[a]

(* Finitely many messages hold a token of an app.                          *)
LEMMA HoldersFinite == \A a \in App : IsFiniteSet(Holders(a))
  BY FS_Subset DEF Holders

(* A step that moves no message in or out of the holders of a token keeps  *)
(* the accounts.                                                           *)
LEMMA TokensKept ==
  ASSUME TokenAccounting, tokens' = tokens,
         \A a \in App : Holders(a)' = Holders(a)
  PROVE  TokenAccounting'
  BY DEF TokenAccounting

(* A token is in the buffer exactly as long as its message holds it.       *)
THEOREM TokensAreAccounted == Spec => []TokenAccounting
<1>1. Init => TokenAccounting
  <2> SUFFICES ASSUME Init, NEW a \in App PROVE tokens[a] = Cardinality(Holders(a))
    BY DEF TokenAccounting
  <2>1. Holders(a) = {}  BY DEF Init, Holders
  <2> QED  BY <2>1, FS_EmptySet DEF Init
<1>2. ASSUME TypeOK, HandOver, TokenAccounting, [Next]_vars
      PROVE  TokenAccounting'
  <2> USE <1>2 DEF TypeOK, HandlerStates, OuterStates, InnerStates
  <2>0. \A a \in App : IsFiniteSet(Holders(a)) /\ Cardinality(Holders(a)) \in Nat
    BY HoldersFinite, FS_CardinalityType
  <2>1. ASSUME NEW m \in Msg,
               \/ Receive(m) \/ Decline(m) \/ Count(m) \/ SpawnOuter(m)
               \/ \E k \in MaxConcurrent : GetSemaphore(m, k)
        PROVE  TokenAccounting'
    <3>1. tokens' = tokens /\ \A a \in App : Holders(a)' = Holders(a)
      BY <2>1 DEF Receive, Decline, Count, SpawnOuter, GetSemaphore, Holders, HandOver
    <3> QED  BY <3>1, TokensKept
  <2>2. ASSUME NEW m \in Msg, Acquire(m) PROVE TokenAccounting'
    <3> SUFFICES ASSUME NEW a \in App PROVE tokens'[a] = Cardinality(Holders(a)')
      BY DEF TokenAccounting
    <3>1. CASE a = AppOf[m]
      <4>1. m \notin Holders(a)  BY <2>2 DEF Acquire, Holders, HandOver
      <4>2. Holders(a)' = Holders(a) \cup {m}  BY <2>2, <3>1 DEF Acquire, Holders
      <4>3. tokens'[a] = tokens[a] + 1  BY <2>2, <3>1 DEF Acquire
      <4>4. Cardinality(Holders(a) \cup {m}) = Cardinality(Holders(a)) + 1
        BY <2>0, <4>1, OneMore
      <4> QED  BY <4>2, <4>3, <4>4 DEF TokenAccounting
    <3>2. CASE a # AppOf[m]
      <4>1. Holders(a)' = Holders(a) /\ tokens'[a] = tokens[a]
        BY <2>2, <3>2 DEF Acquire, Holders
      <4> QED  BY <4>1 DEF TokenAccounting
    <3> QED  BY <3>1, <3>2
  <2>3. ASSUME NEW m \in Msg, SpawnInner(m) \/ EndOuter(m) \/ EndInner(m)
        PROVE  TokenAccounting'
    <3>1. tokens' = tokens /\ \A a \in App : Holders(a)' = Holders(a)
      BY <2>3 DEF SpawnInner, EndOuter, EndInner, Holders, HandOver
    <3> QED  BY <3>1, TokensKept
  <2>4. ASSUME NEW m \in Msg, Release(m) PROVE TokenAccounting'
    <3> SUFFICES ASSUME NEW a \in App PROVE tokens'[a] = Cardinality(Holders(a)')
      BY DEF TokenAccounting
    <3>1. CASE a = AppOf[m]
      <4>1. m \in Holders(a)  BY <2>4, <3>1 DEF Release, Holders
      <4>2. Holders(a)' = Holders(a) \ {m}  BY <2>4, <3>1 DEF Release, Holders, HandOver
      <4>3. tokens'[a] = tokens[a] - 1  BY <2>4, <3>1 DEF Release
      <4>4. Cardinality(Holders(a) \ {m}) = Cardinality(Holders(a)) - 1
        BY <2>0, <4>1, OneLess
      <4> QED  BY <4>2, <4>3, <4>4 DEF TokenAccounting
    <3>2. CASE a # AppOf[m]
      <4>1. Holders(a)' = Holders(a) /\ tokens'[a] = tokens[a]
        BY <2>4, <3>2 DEF Release, Holders
      <4> QED  BY <4>1 DEF TokenAccounting
    <3> QED  BY <3>1, <3>2
  <2>5. ASSUME Signal \/ MainStep \/ Panic \/ Exited \/ UNCHANGED vars PROVE TokenAccounting'
    <3>1. tokens' = tokens /\ \A a \in App : Holders(a)' = Holders(a)
      BY <2>5 DEF Signal, MainStep, ShutdownDone, ShutdownTimeout, WaitDone, Exit, Panic,
                  Exited, vars, others, Holders
    <3> QED  BY <3>1, TokensKept
  <2> QED  BY <2>1, <2>2, <2>3, <2>4, <2>5 DEF Next, MsgStep
<1> QED  BY <1>1, <1>2, Typing, HandOverInvariant, PTL DEF Spec

(* The buffer of a semaphore never holds more tokens than it has room for; *)
(* getSemaphore creates an empty one and never replaces it.                *)
THEOREM TokensFitInvariant == Spec => []TokensFit
<1>1. Init => TokensFit
  BY DEF Init, TokensFit
<1>2. ASSUME TypeOK, TokensFit, [Next]_vars PROVE TokensFit'
  <2> USE <1>2 DEF TypeOK, TokensFit
  <2>1. ASSUME NEW m \in Msg, NEW k \in MaxConcurrent, GetSemaphore(m, k)
        PROVE  TokensFit'
    <3>1. AppOf[m] \in App /\ CapacityFor(k) \in Nat  BY DEF CapacityFor
    <3> QED  BY <2>1, <3>1 DEF GetSemaphore
  <2>2. ASSUME NEW m \in Msg, Acquire(m) PROVE TokensFit'
    <3>1. AppOf[m] \in App  OBVIOUS
    <3> QED  BY <2>2, <3>1 DEF Acquire
  <2>3. ASSUME NEW m \in Msg, Release(m) PROVE TokensFit'
    <3>1. AppOf[m] \in App  OBVIOUS
    <3> QED  BY <2>3, <3>1 DEF Release
  <2>4. ASSUME NEW m \in Msg,
               \/ Receive(m) \/ Decline(m) \/ Count(m) \/ SpawnOuter(m)
               \/ SpawnInner(m) \/ EndOuter(m) \/ EndInner(m)
        PROVE  TokensFit'
    BY <2>4 DEF Receive, Decline, Count, SpawnOuter, SpawnInner, EndOuter, EndInner
  <2>5. ASSUME Signal \/ MainStep \/ Panic \/ Exited \/ UNCHANGED vars PROVE TokensFit'
    BY <2>5 DEF Signal, MainStep, ShutdownDone, ShutdownTimeout, WaitDone, Exit, Panic,
                Exited, vars, others
  <2> QED  BY <2>1, <2>2, <2>3, <2>4, <2>5 DEF Next, MsgStep
<1> QED  BY <1>1, <1>2, Typing, PTL DEF Spec

(* The messages at work in an app never exceed the capacity of its         *)
(* semaphore.                                                              *)
THEOREM AppsStayWithinLimit == Spec => []ConcurrencyBound
<1>1. TypeOK /\ TokenAccounting /\ TokensFit => ConcurrencyBound
  <2> SUFFICES ASSUME TypeOK, TokenAccounting, TokensFit, NEW a \in App
               PROVE  Cardinality({m \in Msg : AppOf[m] = a /\ inner[m] = "running"})
                        <= capacity[a]
    BY DEF ConcurrencyBound
  <2> DEFINE R == {m \in Msg : AppOf[m] = a /\ inner[m] = "running"}
  <2>1. R \in SUBSET Holders(a)  BY DEF Holders
  <2>2. IsFiniteSet(Holders(a))  BY HoldersFinite
  <2>3. IsFiniteSet(R) /\ Cardinality(R) <= Cardinality(Holders(a))
    BY <2>1, <2>2, FS_Subset
  <2>4. Cardinality(R) \in Nat  BY <2>3, FS_CardinalityType
  <2>5. Cardinality(Holders(a)) <= capacity[a]  BY DEF TokenAccounting, TokensFit
  <2>6. Cardinality(Holders(a)) \in Nat /\ capacity[a] \in Nat
    BY <2>2, FS_CardinalityType DEF TypeOK
  <2> HIDE DEF R
  <2>7. Cardinality(R) <= capacity[a]  BY <2>3, <2>4, <2>5, <2>6
  <2> QED  BY <2>7 DEF R
<1> QED  BY <1>1, Typing, TokensAreAccounted, TokensFitInvariant, PTL

-----------------------------------------------------------------------------
(***************************************************************************)
(* Shutdown.                                                               *)
(***************************************************************************)
AfterDrain ==
  ~forced => /\ main \in {"waiting", "leaving", "exited"}
                  => \A m \in Msg : handler[m] \in {"idle", "returned"}
             /\ main \in {"leaving", "exited"} => active <= 0

(* Once the server has drained, no handler can count another message, so   *)
(* the counter main has seen at 0 stays there.                             *)
THEOREM AfterDrainInvariant == Spec => []AfterDrain
<1>1. Init => AfterDrain
  BY DEF Init, AfterDrain
<1>2. ASSUME TypeOK, AfterDrain, [Next]_vars PROVE AfterDrain'
  <2> USE <1>2 DEF TypeOK, AfterDrain, MainStates
  <2>1. ASSUME NEW m \in Msg, Receive(m) \/ Decline(m) \/ Count(m) \/ SpawnOuter(m)
        PROVE  AfterDrain'
    BY <2>1 DEF Receive, Decline, Count, SpawnOuter
  <2>2. ASSUME NEW m \in Msg,
               \/ \E k \in MaxConcurrent : GetSemaphore(m, k)
               \/ Acquire(m) \/ SpawnInner(m) \/ EndOuter(m)
               \/ EndInner(m) \/ Release(m)
        PROVE  AfterDrain'
    BY <2>2 DEF GetSemaphore, Acquire, SpawnInner, EndOuter, EndInner, Release
  <2>3. ASSUME Signal \/ WaitDone \/ Exit \/ Panic \/ Exited \/ UNCHANGED vars
        PROVE  AfterDrain'
    BY <2>3 DEF Signal, WaitDone, Exit, Panic, Exited, vars, others
  <2>4. CASE ShutdownDone  BY <2>4 DEF ShutdownDone, others
  <2>5. CASE ShutdownTimeout  BY <2>5 DEF ShutdownTimeout, others
  <2> QED  BY <2>1, <2>2, <2>3, <2>4, <2>5 DEF Next, MsgStep, MainStep
<1> QED  BY <1>1, <1>2, Typing, PTL DEF Spec

(* Without a forced shutdown, main leaves no more messages on their way to *)
(* a worker behind than were completed.                                    *)
THEOREM ShutdownBacklog == Spec => []ExitBacklog
<1>1. TypeOK /\ ActiveAccounting /\ AfterDrain => ExitBacklog
  <2> SUFFICES ASSUME ActiveAccounting, AfterDrain, main \in {"leaving", "exited"}, ~forced
               PROVE  Cardinality(OuterLive) <= Cardinality(Finished)
    BY DEF ExitBacklog
  <2>1. active <= 0  BY DEF AfterDrain
  <2>2. Cardinality(OuterLive) \in Nat /\ Cardinality(Finished) \in Nat
    BY CountedSetsFinite, FS_CardinalityType
  <2> QED  BY <2>1, <2>2 DEF ActiveAccounting
<1> QED  BY <1>1, Typing, ActiveIsAccounted, AfterDrainInvariant, PTL

-----------------------------------------------------------------------------
(***************************************************************************)
(* Refinement.                                                             *)
(***************************************************************************)
(* The abstract module counts with the same operator.                      *)
LEMMA SameCardinality == \A S : Service!Cardinality(S) = Cardinality(S)
  BY DEF Service!Cardinality, Cardinality

(* A step that changes neither statuses nor rooms nor the service is a     *)
(* stutter of the bounded service.                                         *)
LEMMA StatusKept ==
  ASSUME \A n \in Msg : Status(n)' = Status(n), capacity' = capacity,
         ServiceState' = ServiceState
  PROVE  UNCHANGED Service!vars
  BY DEF Service!vars

(* A step that moves one message to st updates the abstract status there.  *)
LEMMA StatusMoved ==
  ASSUME NEW m \in Msg, NEW st,
         \A n \in Msg : Status(n)' = IF n = m THEN st ELSE Status(n)
  PROVE  [n \in Msg |-> Status(n)]' = [[n \in Msg |-> Status(n)] EXCEPT ![m] = st]
  OBVIOUS

(* Every step of the dispatcher is a step of the bounded service or leaves *)
(* it alone.                                                               *)
THEOREM DispatcherImplementsService == Spec => Service!Spec
<1>1. Init => Service!Init
  BY DEF Init, Service!Init, Status, ServiceState
<1>2. ASSUME TypeOK, HandOver, ActiveAccounting, TokenAccounting, TokensFit, AfterDrain,
             [Next]_vars
      PROVE  [Service!Next]_(Service!vars)
  <2> USE <1>2
  <2>1. ASSUME NEW m \in Msg,
               \/ Receive(m) \/ Decline(m) \/ SpawnOuter(m)
               \/ Acquire(m) \/ EndOuter(m) \/ Release(m)
        PROVE  UNCHANGED Service!vars
    <3>1. capacity' = capacity /\ ServiceState' = ServiceState
      BY <2>1 DEF Receive, Decline, SpawnOuter, Acquire, EndOuter, Release, ServiceState
    <3>2. \A n \in Msg : Status(n)' = Status(n)
      BY <2>1 DEF Receive, Decline, SpawnOuter, Acquire, EndOuter, Release, Status,
                  TypeOK, HandlerStates, OuterStates, InnerStates, HandOver
    <3> QED  BY <3>1, <3>2, StatusKept
  <2>2. ASSUME NEW m \in Msg, Count(m) PROVE Service!Accept(m)
    <3>1. capacity' = capacity /\ ServiceState' = ServiceState /\ ServiceState = "up"
      BY <2>2 DEF Count, Alive, ServiceState
    <3>2. Status(m) = "new"
      BY <2>2 DEF Count, Status, HandOver, TypeOK, OuterStates, InnerStates
    <3>3. \A n \in Msg : Status(n)' = IF n = m THEN "accepted" ELSE Status(n)
      BY <2>2 DEF Count, Status, HandOver, TypeOK, HandlerStates, OuterStates, InnerStates
    <3> QED  BY <3>1, <3>2, <3>3, StatusMoved DEF Service!Accept
  <2>3. ASSUME NEW m \in Msg, NEW k \in MaxConcurrent, GetSemaphore(m, k)
        PROVE  Service!FixRoom(AppOf[m]) \/ UNCHANGED Service!vars
    <3>1. ServiceState' = ServiceState /\ ServiceState = "up"
      BY <2>3 DEF GetSemaphore, Alive, ServiceState
    <3>2. \A n \in Msg : Status(n)' = Status(n)
      BY <2>3 DEF GetSemaphore, Status, TypeOK, OuterStates
    <3>3. CASE capacity[AppOf[m]] = 0
      <4>1. AppOf[m] \in App /\ CapacityFor(k) \in Nat \ {0}  BY DEF CapacityFor
      <4>2. /\ capacity' = [capacity EXCEPT ![AppOf[m]] = CapacityFor(k)]
            /\ capacity'[AppOf[m]] = CapacityFor(k)
        BY <2>3, <3>3, <4>1 DEF GetSemaphore, TypeOK
      <4>3. [n \in Msg |-> Status(n)]' = [n \in Msg |-> Status(n)]  BY <3>2
      <4> QED  BY <3>1, <3>3, <4>1, <4>2, <4>3 DEF Service!FixRoom
    <3>4. CASE capacity[AppOf[m]] # 0
      <4>1. capacity' = capacity  BY <2>3, <3>4 DEF GetSemaphore
      <4> QED  BY <3>1, <3>2, <4>1, StatusKept
    <3> QED  BY <3>3, <3>4
  <2>4. ASSUME NEW m \in Msg, SpawnInner(m) PROVE Service!Start(m)
    <3> DEFINE a == AppOf[m]
               R == {n \in Msg : [k \in Msg |-> Status(k)][n] = "running" /\ AppOf[n] = a}
    <3>1. capacity' = capacity /\ ServiceState' = ServiceState /\ ServiceState = "up"
      BY <2>4 DEF SpawnInner, Alive, ServiceState
    <3>2. Status(m) = "accepted"
      BY <2>4 DEF SpawnInner, Status, HandOver, TypeOK, InnerStates
    <3>3. \A n \in Msg : Status(n)' = IF n = m THEN "running" ELSE Status(n)
      BY <2>4 DEF SpawnInner, Status, TypeOK, OuterStates, InnerStates
    <3>4. Cardinality(R) < capacity[a]
      <4>1. m \notin R  BY <3>2
      <4>2. m \in Holders(a)  BY <2>4 DEF SpawnInner, Holders
      <4>3. R \in SUBSET (Holders(a) \ {m})  BY <4>1 DEF Holders, Status
      <4>4. a \in App  OBVIOUS
      <4>5. IsFiniteSet(Holders(a)) /\ Cardinality(Holders(a)) \in Nat
        BY <4>4, HoldersFinite, FS_CardinalityType
      <4>6. Cardinality(Holders(a) \ {m}) = Cardinality(Holders(a)) - 1
        BY <4>2, <4>5, OneLess
      <4>7. IsFiniteSet(Holders(a) \ {m})  BY <4>5, FS_RemoveElement
      <4>8. IsFiniteSet(R) /\ Cardinality(R) <= Cardinality(Holders(a) \ {m})
        BY <4>3, <4>7, FS_Subset
      <4>9. Cardinality(R) \in Nat  BY <4>8, FS_CardinalityType
      <4>10. Cardinality(Holders(a)) <= capacity[a] /\ capacity[a] \in Nat
        BY <4>4 DEF TokenAccounting, TokensFit, TypeOK
      <4> HIDE DEF R, a
      <4> QED  BY <4>5, <4>6, <4>8, <4>9, <4>10
    <3>5. Service!HasRoom(AppOf[m])
      BY <3>4, SameCardinality DEF Service!HasRoom, Service!Running
    <3> QED  BY <3>1, <3>2, <3>3, <3>5, StatusMoved DEF Service!Start
  <2>5. ASSUME NEW m \in Msg, EndInner(m) PROVE Service!Finish(m)
    <3>1. capacity' = capacity /\ ServiceState' = ServiceState /\ ServiceState = "up"
      BY <2>5 DEF EndInner, Alive, ServiceState
    <3>2. Status(m) = "running"  BY <2>5 DEF EndInner, Status
    <3>3. \A n \in Msg : Status(n)' = IF n = m THEN "done" ELSE Status(n)
      BY <2>5 DEF EndInner, Status, TypeOK, InnerStates
    <3> QED  BY <3>1, <3>2, <3>3, StatusMoved DEF Service!Finish
  <2>6. ASSUME Signal \/ ShutdownDone \/ ShutdownTimeout \/ WaitDone \/ Exited \/ UNCHANGED vars
        PROVE  UNCHANGED Service!vars
    <3>1. capacity' = capacity /\ ServiceState' = ServiceState
      BY <2>6 DEF Signal, ShutdownDone, ShutdownTimeout, WaitDone, Exited, vars, others,
                  ServiceState
    <3>2. \A n \in Msg : Status(n)' = Status(n)
      BY <2>6 DEF Signal, ShutdownDone, ShutdownTimeout, WaitDone, Exited, vars, others,
                  Status
    <3> QED  BY <3>1, <3>2, StatusKept
  <2>7. ASSUME Exit PROVE Service!Stop \/ Service!Kill
    <3>1. /\ capacity' = capacity /\ ServiceState = "up"
          /\ [n \in Msg |-> Status(n)]' = [n \in Msg |-> Status(n)]
      BY <2>7 DEF Exit, others, ServiceState, Status
    <3>2. CASE forced
      <4>1. ServiceState' = "killed"  BY <2>7, <3>2 DEF Exit, ServiceState
      <4> QED  BY <3>1, <4>1 DEF Service!Kill
    <3>3. CASE ~forced
      <4> DEFINE W == {n \in Msg : [k \in Msg |-> Status(k)][n] = "accepted"}
                 D == {n \in Msg : [k \in Msg |-> Status(k)][n] = "done"}
      <4>1. ServiceState' = "stopped"  BY <2>7, <3>3 DEF Exit, ServiceState
      <4>2. active <= 0  BY <2>7, <3>3 DEF Exit, AfterDrain
      <4>3. D = Finished  BY DEF Finished, Status
      <4>4. W \in SUBSET OuterLive
        BY DEF OuterLive, Status, HandOver, TypeOK, OuterStates, InnerStates
      <4>5. IsFiniteSet(W) /\ Cardinality(W) <= Cardinality(OuterLive)
        BY <4>4, CountedSetsFinite, FS_Subset
      <4>6. /\ Cardinality(OuterLive) \in Nat /\ Cardinality(Finished) \in Nat
            /\ Cardinality(W) \in Nat
        BY <4>5, CountedSetsFinite, FS_CardinalityType
      <4>7. Cardinality(W) <= Cardinality(D)
        <5> HIDE DEF W, D
        <5> QED  BY <4>2, <4>3, <4>5, <4>6 DEF ActiveAccounting
      <4> QED  BY <3>1, <4>1, <4>7, SameCardinality DEF Service!Stop, Service!Waiting, Service!Done
    <3> QED  BY <3>2, <3>3
  <2>8. ASSUME Panic PROVE Service!Kill
    <3>1. ServiceState = "up" /\ ServiceState' = "killed" /\ capacity' = capacity
      BY <2>8 DEF Panic, Alive, others, ServiceState
    <3>2. [n \in Msg |-> Status(n)]' = [n \in Msg |-> Status(n)]
      BY <2>8 DEF Panic, others, Status
    <3> QED  BY <3>1, <3>2 DEF Service!Kill
  <2> QED
    BY <2>1, <2>2, <2>3, <2>4, <2>5, <2>6, <2>7, <2>8
       DEF Next, MsgStep, MainStep, Service!Next
<1> QED
  BY <1>1, <1>2, Typing, HandOverInvariant, ActiveIsAccounted, TokensAreAccounted,
     TokensFitInvariant, AfterDrainInvariant, PTL DEF Spec, Service!Spec
=============================================================================
