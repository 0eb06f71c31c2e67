-------------------------- MODULE LinkQueueDB_proofs --------------------------
(***************************************************************************)
(* Proofs about LinkQueueDB for every pipeline: any links, inputs of task  *)
(* agents and Publish calls, any number of Ack handlers, and no bound on   *)
(* the restarts and failures that is not a constant.                       *)
(***************************************************************************)
EXTENDS LinkQueueDB, FiniteSetTheorems, TLAPS

-----------------------------------------------------------------------------
(* Type correctness.                                                       *)

\* A watcher that created a subscription never creates another one.
CreatedOnce ==
  /\ \A s \in 1..lastSub : subOf[creator[s]] # NoSub
  /\ \A s, t \in 1..lastSub : creator[s] = creator[t] => s = t

TypeInv == LinkQueueDBTypeOK /\ CreatedOnce

\* A set that is mapped into another one by an injection is not larger.
LEMMA InjectionBound ==
  ASSUME NEW S, IsFiniteSet(S), NEW T, IsFiniteSet(T), NEW f \in [S -> T],
         \A x, y \in S : f[x] = f[y] => x = y
  PROVE  Cardinality(S) <= Cardinality(T)
<1>1. f \in Injection(S, T)
  BY DEF Injection, IsInjective
<1>2. QED BY <1>1, FS_Injection

\* The first n numbers.
LEMMA FirstNumbers ==
  ASSUME NEW n \in Nat
  PROVE  IsFiniteSet(1..n) /\ Cardinality(1..n) = n
<1>1. 1 \in Int /\ n \in Int
  OBVIOUS
<1>2. IsFiniteSet(1..n)
  BY <1>1, FS_Interval, Zenon
<1>3. Cardinality(1..n) = IF 1 > n THEN 0 ELSE n - 1 + 1
  BY <1>1, FS_Interval, Zenon
<1>4. Cardinality(1..n) = n
  BY <1>3
<1>5. QED BY <1>2, <1>4

\* While some watcher has no subscription yet, an ID is left.
LEMMA FreeSubId ==
  ASSUME LinkQueueDBTypeOK, CreatedOnce, NEW w \in Watchers, subOf[w] = NoSub
  PROVE  lastSub < Cardinality(Watchers)
<1> USE LinkQueueDBAssumption DEF LinkQueueDBTypeOK
<1> DEFINE Creators == Watchers \ {w}
           Ids == 1..lastSub
           f == [s \in Ids |-> creator[s]]
<1>1. Cardinality(Watchers) \in Nat /\ lastSub \in Nat
  BY FS_CardinalityType DEF StoreTypeOK
<1>2. IsFiniteSet(Creators) /\ Cardinality(Creators) = Cardinality(Watchers) - 1
  BY FS_RemoveElement
<1>3. \A s \in Ids : creator[s] \in Creators
  <2> SUFFICES ASSUME NEW s \in Ids PROVE creator[s] \in Creators
    OBVIOUS
  <2>1. s \in SubIds /\ ~(s > lastSub)
    BY <1>1 DEF StoreTypeOK, SubIds
  <2>2. creator[s] \in Watchers
    BY <2>1 DEF StoreTypeOK
  <2>3. QED BY <2>2 DEF CreatedOnce
<1>4. f \in [Ids -> Creators]
  BY <1>3
<1>5. \A x, y \in Ids : f[x] = f[y] => x = y
  BY DEF CreatedOnce
<1>6. IsFiniteSet(Ids) /\ Cardinality(Ids) = lastSub
  BY <1>1, FirstNumbers
<1>7. Cardinality(Ids) <= Cardinality(Creators)
  <2> HIDE DEF f, Creators, Ids
  <2>1. QED BY <1>2, <1>4, <1>5, <1>6, InjectionBound, Zenon
<1>8. QED BY <1>1, <1>2, <1>6, <1>7

\* The agents start well typed, on an empty database.
LEMMA InitTypeInv == Init => TypeInv
<1> SUFFICES ASSUME Init PROVE TypeInv
  OBVIOUS
<1> USE LinkQueueDBAssumption DEF Init, SubIds, NoSub, NoAck
<1>1. Cardinality(Watchers) \in Nat
  BY FS_CardinalityType
<1>2. PublishTypeOK
  BY DEF PublishTypeOK, Stages
<1>3. StoreTypeOK
  BY <1>1 DEF StoreTypeOK
<1>4. WatcherTypeOK
  BY DEF WatcherTypeOK, FetchStates
<1>5. AgentTypeOK
  BY DEF AgentTypeOK
<1>6. CreatedOnce
  BY DEF CreatedOnce
<1>7. QED BY <1>2, <1>3, <1>4, <1>5, <1>6 DEF TypeInv, LinkQueueDBTypeOK

\* The number of unassigned documents is a natural number.
LEMMA CountInNat ==
  ASSUME StoreTypeOK, NEW l
  PROVE  UnassignedCount(l) \in Nat
<1>1. Unassigned(l) \in SUBSET Calls
  BY DEF StoreTypeOK, Unassigned
<1>2. QED BY <1>1, FS_Subset, FS_CardinalityType, LinkQueueDBAssumption
          DEF UnassignedCount

\* A fault stays within the bound on what is explored.
LEMMA FaultCounted ==
  ASSUME PublishTypeOK, faults \in 0..MaxTrouble, Fault
  PROVE  faults' \in 0..MaxTrouble /\ faults' = faults + 1
<1>1. Cardinality(abandoned) \in Nat
  BY FS_Subset, FS_CardinalityType, LinkQueueDBAssumption DEF PublishTypeOK
<1>2. QED BY <1>1, LinkQueueDBAssumption DEF Fault, Trouble

\* A publication, on the client and on the server, keeps the state well typed.
LEMMA PublishTypeInv == TypeInv /\ PublishNext => TypeInv'
<1> SUFFICES ASSUME TypeInv, PublishNext PROVE TypeInv'
  OBVIOUS
<1> USE LinkQueueDBAssumption
    DEF TypeInv, LinkQueueDBTypeOK, CreatedOnce, PublishTypeOK, StoreTypeOK,
        WatcherTypeOK, AgentTypeOK, publisherVars, publishVars, docVars, subVars,
        watchVars, gcVars, progressVars, Stages
<1>1. ASSUME NEW p \in Publishers, NEW v \in Values, CanPublish(p, v) PROVE TypeInv'
  BY <1>1 DEF CanPublish
<1>2. ASSUME NEW p \in Publishers, TurnDown(p) PROVE TypeInv'
  BY <1>2 DEF TurnDown
<1>3. ASSUME NEW p \in Publishers, NEW c \in Calls, PublishSend(p, c) PROVE TypeInv'
  BY <1>3 DEF PublishSend
<1>4. ASSUME NEW l \in Links, PublishReply(l) PROVE TypeInv'
  BY <1>4 DEF PublishReply, RunnerIdle
<1>5. ASSUME NEW l \in Links, PublishRetry(l) PROVE TypeInv'
  BY <1>5 DEF PublishRetry
<1>6. ASSUME NEW l \in Links, PublishGiveUp(l) PROVE TypeInv'
  BY <1>6 DEF PublishGiveUp, RunnerIdle
<1>7. ASSUME NEW c \in Calls, PublishFails(c) PROVE TypeInv'
  BY <1>7, FaultCounted DEF PublishFails
<1>8. ASSUME NEW c \in Calls, CreateDocument(c) PROVE TypeInv'
  BY <1>8 DEF CreateDocument
<1>9. ASSUME NEW c \in Calls, PublishCount(c) PROVE TypeInv'
  BY <1>9, CountInNat DEF PublishCount
<1>10. ASSUME NEW c \in Calls, PublishCountFails(c) PROVE TypeInv'
  BY <1>10, FaultCounted DEF PublishCountFails
<1>11. ASSUME NEW c \in Calls, PublishStore(c) PROVE TypeInv'
  BY <1>11 DEF PublishStore
<1>12. QED BY <1>1, <1>2, <1>3, <1>4, <1>5, <1>6, <1>7, <1>8, <1>9, <1>10, <1>11
           DEF PublishNext

\* A new subscription gets an ID that is within the bound, and its creator none
\* besides.
LEMMA SubscribeCreateTypeInv ==
  ASSUME TypeInv, NEW w \in Watchers, SubscribeCreate(w)
  PROVE  TypeInv'
<1> USE LinkQueueDBAssumption DEF TypeInv, LinkQueueDBTypeOK
<1>1. subOf[w] = NoSub
  BY DEF SubscribeCreate, WatcherTypeOK
<1>2. lastSub < Cardinality(Watchers) /\ Cardinality(Watchers) \in Nat
  BY <1>1, FreeSubId, FS_CardinalityType
<1>3. /\ lastSub' = lastSub + 1 /\ lastSub \in Nat /\ lastSub' \in Nat
      /\ lastSub' \in 0..Cardinality(Watchers) /\ lastSub' \in SubIds
  BY <1>2 DEF SubscribeCreate, SubIds, StoreTypeOK
<1>4. /\ creator' = [creator EXCEPT ![lastSub'] = w]
      /\ subOf' = [subOf EXCEPT ![w] = lastSub']
      /\ subs' = subs \cup {lastSub'} /\ fetch' = [fetch EXCEPT ![w] = "idle"]
      /\ UNCHANGED <<publishVars, docVars, expired, got, counted, received, acking,
                     gcVars, waiting, progressVars, faults>>
  BY DEF SubscribeCreate, Start
<1>5. 1..lastSub' = 1..lastSub \cup {lastSub'}
  BY <1>3
<1>6. StoreTypeOK'
  BY <1>3, <1>4 DEF StoreTypeOK, docVars, SubIds
<1>7. WatcherTypeOK'
  <2>1. got[w] = NoCall
    BY DEF SubscribeCreate, WatcherTypeOK
  <2>2. subOf \in [Watchers -> 0..lastSub] /\ subOf' \in [Watchers -> 0..lastSub']
    BY <1>3, <1>4 DEF WatcherTypeOK
  <2>3. fetch' \in [Watchers -> FetchStates] /\ fetch'[w] = "idle"
    BY <1>4 DEF WatcherTypeOK, FetchStates
  <2>4. \A x \in Watchers : x = w \/ (subOf'[x] = subOf[x] /\ fetch'[x] = fetch[x])
    BY <1>4, <2>2 DEF WatcherTypeOK
  <2>5. UNCHANGED <<got, counted, received>>
    BY <1>4
  <2>6. QED BY <2>1, <2>2, <2>3, <2>4, <2>5 DEF WatcherTypeOK
<1>8. PublishTypeOK' /\ AgentTypeOK'
  BY <1>3, <1>4 DEF PublishTypeOK, AgentTypeOK, publishVars, publisherVars, gcVars,
                    progressVars
<1>9. CreatedOnce'
  <2>1. \A s \in 1..lastSub : /\ creator'[s] = creator[s] /\ creator[s] # w
                             /\ subOf'[creator[s]] = subOf[creator[s]]
    BY <1>1, <1>3, <1>4 DEF CreatedOnce, StoreTypeOK, WatcherTypeOK, SubIds
  <2>2. creator'[lastSub'] = w /\ subOf'[w] # NoSub
    BY <1>3, <1>4 DEF StoreTypeOK, WatcherTypeOK, NoSub
  <2>3. QED BY <1>5, <2>1, <2>2 DEF CreatedOnce
<1>10. QED BY <1>6, <1>7, <1>8, <1>9

\* A watcher that subscribes or fetches keeps the state well typed.
LEMMA WatcherTypeInv == TypeInv /\ WatcherNext => TypeInv'
<1> SUFFICES ASSUME TypeInv, WatcherNext PROVE TypeInv'
  OBVIOUS
<1> USE LinkQueueDBAssumption
    DEF TypeInv, LinkQueueDBTypeOK, CreatedOnce, PublishTypeOK, StoreTypeOK,
        WatcherTypeOK, AgentTypeOK, publisherVars, publishVars, docVars, subVars,
        watchVars, gcVars, progressVars, FetchStates, NoSub, Start, Renew, Return
<1>1. ASSUME NEW w \in Watchers, NEW s \in SubIds, SubscribeAgain(w, s)
      PROVE  TypeInv'
  BY <1>1 DEF SubscribeAgain
<1>2. ASSUME NEW w \in Watchers, SubscribeFind(w) PROVE TypeInv'
  BY <1>2 DEF SubscribeFind
<1>3. ASSUME NEW w \in Watchers, SubscribeCreate(w) PROVE TypeInv'
  BY <1>3, SubscribeCreateTypeInv
<1>4. ASSUME NEW w \in Watchers, SubscribeConflict(w) PROVE TypeInv'
  BY <1>4 DEF SubscribeConflict
<1>5. ASSUME NEW w \in Watchers, NextRenew(w) PROVE TypeInv'
  BY <1>5 DEF NextRenew
<1>6. ASSUME NEW w \in Watchers, NextFindsNone(w) PROVE TypeInv'
  BY <1>6 DEF NextFindsNone
<1>7. ASSUME NEW w \in Watchers, NEW c \in Calls, NextAssign(w, c) PROVE TypeInv'
  <2>1. Available(w) \subseteq queue
    BY DEF Available, Unassigned
  <2>2. /\ inProgress' \in [Links -> Int] /\ got' = [got EXCEPT ![w] = c]
        /\ everAssigned' = everAssigned \cup Available(w)
    BY <1>7 DEF NextAssign
  <2>3. assigned' = [d \in Calls |-> IF d \in Available(w) THEN subOf[w]
                                                         ELSE assigned[d]]
    BY <1>7 DEF NextAssign
  <2>4. StoreTypeOK'
    BY <1>7, <2>1, <2>2, <2>3 DEF NextAssign
  <2>5. WatcherTypeOK'
    BY <1>7, <2>2 DEF NextAssign
  <2>6. PublishTypeOK' /\ AgentTypeOK' /\ CreatedOnce'
    BY <1>7, <2>2 DEF NextAssign
  <2>7. QED BY <2>4, <2>5, <2>6
<1>8. ASSUME NEW w \in Watchers, NextCount(w) PROVE TypeInv'
  BY <1>8, CountInNat DEF NextCount
<1>9. ASSUME NEW w \in Watchers, NextCountFails(w) PROVE TypeInv'
  BY <1>9, FaultCounted DEF NextCountFails
<1>10. ASSUME NEW w \in Watchers, NextStore(w) PROVE TypeInv'
  BY <1>10 DEF NextStore
<1>11. QED BY <1>1, <1>2, <1>3, <1>4, <1>5, <1>6, <1>7, <1>8, <1>9, <1>10
           DEF WatcherNext

\* An Ack call that removes a document keeps the state well typed.
LEMMA AckRemoveTypeInv ==
  ASSUME TypeInv, NEW h \in AckHandlers, AckRemove(h)
  PROVE  TypeInv'
<1> USE LinkQueueDBAssumption DEF TypeInv, LinkQueueDBTypeOK
<1>1. PICK w \in Watchers, c \in Calls : acking[h] = <<w, c>>
  BY DEF AckRemove, AgentTypeOK
<1>2. /\ queue' = queue \ {c} /\ everAssigned' = everAssigned \ {c}
      /\ assigned' = [assigned EXCEPT ![c] = NoSub]
      /\ inProgress' = [inProgress EXCEPT ![w.link] = @ - 1]
      /\ acknowledged' = [acknowledged EXCEPT ![w.link] = @ + 1]
      /\ acking' = [acking EXCEPT ![h] = NoAck]
  BY <1>1 DEF AckRemove
<1>3. UNCHANGED <<publishVars, subVars, expired, watchVars, gcVars, waiting, faults>>
  BY DEF AckRemove
<1>4. StoreTypeOK'
  BY <1>2, <1>3 DEF StoreTypeOK, subVars, NoSub
<1>5. AgentTypeOK'
  BY <1>2, <1>3 DEF AgentTypeOK, gcVars, subVars
<1>6. PublishTypeOK' /\ WatcherTypeOK' /\ CreatedOnce'
  BY <1>3 DEF PublishTypeOK, WatcherTypeOK, CreatedOnce, publishVars,
              publisherVars, watchVars, subVars
<1>7. QED BY <1>4, <1>5, <1>6

\* Ack calls keep the state well typed.
LEMMA AckTypeInv == TypeInv /\ AckNext => TypeInv'
<1> SUFFICES ASSUME TypeInv, AckNext PROVE TypeInv'
  OBVIOUS
<1> USE LinkQueueDBAssumption
    DEF TypeInv, LinkQueueDBTypeOK, CreatedOnce, PublishTypeOK, StoreTypeOK,
        WatcherTypeOK, AgentTypeOK, publisherVars, publishVars, docVars, subVars,
        watchVars, gcVars, progressVars, NoSub, NoAck, Renew
<1>1. ASSUME NEW h \in AckHandlers, NEW w \in Watchers, NEW c \in Calls,
             AckFind(h, w, c)
      PROVE  TypeInv'
  <2>1. /\ acking' = [acking EXCEPT ![h] = <<w, c>>] /\ expired' \subseteq expired
        /\ UNCHANGED <<publishVars, docVars, subVars, watchVars, gcVars, waiting,
                       progressVars, faults>>
    BY <1>1 DEF AckFind
  <2>2. acking' \in [AckHandlers -> {NoAck} \cup (Watchers \X Calls)]
    BY <2>1
  <2>3. PublishTypeOK' /\ StoreTypeOK' /\ WatcherTypeOK' /\ CreatedOnce'
    BY <2>1
  <2>4. AgentTypeOK'
    BY <2>1, <2>2
  <2>5. QED BY <2>3, <2>4
<1>2. ASSUME NEW h \in AckHandlers, AckRemove(h) PROVE TypeInv'
  BY <1>2, AckRemoveTypeInv
<1>3. ASSUME NEW h \in AckHandlers, AckRemoveFails(h) PROVE TypeInv'
  BY <1>3 DEF AckRemoveFails
<1>4. QED BY <1>1, <1>2, <1>3 DEF AckNext

\* Ping, Close and the collector keep the state well typed.
LEMMA SubscriptionTypeInv == TypeInv /\ SubscriptionNext => TypeInv'
<1> SUFFICES ASSUME TypeInv, SubscriptionNext PROVE TypeInv'
  OBVIOUS
<1> USE LinkQueueDBAssumption
    DEF TypeInv, LinkQueueDBTypeOK, CreatedOnce, PublishTypeOK, StoreTypeOK,
        WatcherTypeOK, AgentTypeOK, publisherVars, publishVars, docVars, subVars,
        watchVars, gcVars, progressVars, NoSub, Renew, Unassign,
        RemoveSubscription
<1>1. ASSUME NEW s \in SubIds, Ping(s) PROVE TypeInv'
  BY <1>1 DEF Ping
<1>2. ASSUME NEW s \in SubIds, TTLElapses(s) PROVE TypeInv'
  BY <1>2 DEF TTLElapses
<1>3. ASSUME NEW l \in Links, NEW s \in SubIds, CloseUnassign(l, s) PROVE TypeInv'
  BY <1>3 DEF CloseUnassign
<1>4. ASSUME NEW l \in Links, CloseRemove(l) PROVE TypeInv'
  BY <1>4 DEF CloseRemove
<1>5. ASSUME NEW l \in Links, CloseFails(l) PROVE TypeInv'
  BY <1>5, FaultCounted DEF CloseFails
<1>6. ASSUME NEW l \in Links, GCList(l) PROVE TypeInv'
  BY <1>6 DEF GCList
<1>7. ASSUME NEW l \in Links, NEW s \in SubIds, GCUnassign(l, s) PROVE TypeInv'
  BY <1>7 DEF GCUnassign
<1>8. ASSUME NEW l \in Links, NEW s \in SubIds, GCUnassignFails(l, s)
      PROVE  TypeInv'
  BY <1>8, FaultCounted DEF GCUnassignFails
<1>9. ASSUME NEW l \in Links, GCRemove(l) PROVE TypeInv'
  BY <1>9 DEF GCRemove
<1>10. ASSUME NEW l \in Links, GCRemoveFails(l) PROVE TypeInv'
  BY <1>10, FaultCounted DEF GCRemoveFails
<1>11. QED BY <1>1, <1>2, <1>3, <1>4, <1>5, <1>6, <1>7, <1>8, <1>9, <1>10
           DEF SubscriptionNext

\* The restart of an agent keeps the state well typed.
LEMMA RestartTypeInv ==
  ASSUME TypeInv, NEW l \in Links, Restart(l)
  PROVE  TypeInv'
<1> USE LinkQueueDBAssumption
    DEF TypeInv, LinkQueueDBTypeOK, publisherVars, docVars, subVars, Restart
<1>1. PublishTypeOK'
  BY DEF PublishTypeOK, Stages
<1>2. StoreTypeOK'
  BY DEF StoreTypeOK
<1>3. WatcherTypeOK'
  BY DEF WatcherTypeOK, StoreTypeOK, FetchStates, NoSub
<1>4. AgentTypeOK'
  <2>1. faults' \in 0..MaxTrouble
    BY FaultCounted DEF AgentTypeOK
  <2>2. acking' \in [AckHandlers -> {NoAck} \cup (Watchers \X Calls)]
    BY DEF AgentTypeOK
  <2>3. QED BY <2>1, <2>2 DEF AgentTypeOK, StoreTypeOK, NoSub
<1>5. CreatedOnce'
  BY DEF CreatedOnce
<1>6. QED BY <1>1, <1>2, <1>3, <1>4, <1>5

\* Every step of the agents and their clients keeps the state well typed.
LEMMA NextTypeInv == TypeInv /\ [Next]_vars => TypeInv'
<1> SUFFICES ASSUME TypeInv, [Next]_vars PROVE TypeInv'
  OBVIOUS
<1>1. CASE UNCHANGED vars
  BY <1>1 DEF TypeInv, LinkQueueDBTypeOK, CreatedOnce, PublishTypeOK, StoreTypeOK,
              WatcherTypeOK, AgentTypeOK, vars, publisherVars, publishVars,
              docVars, subVars, watchVars, gcVars, progressVars
<1>2. QED BY <1>1, PublishTypeInv, WatcherTypeInv, AckTypeInv,
             SubscriptionTypeInv, RestartTypeInv DEF Next

\* No history of calls, expiries, restarts and failing queries makes the agents or
\* their database ill typed: documents are assigned to IDs that were handed out,
\* and the IDs that exist suffice.
THEOREM TypeCorrect == Spec => []LinkQueueDBTypeOK
<1>1. TypeInv => LinkQueueDBTypeOK
  BY DEF TypeInv
<1>2. QED BY <1>1, InitTypeInv, NextTypeInv, PTL DEF Spec

-----------------------------------------------------------------------------
(* A client has one subscription.                                          *)

\* Only Subscribe adds to the collection of subscriptions.
LEMMA SubscriptionsShrink ==
  ASSUME [Next]_vars, ~ \E w \in Watchers : SubscribeCreate(w)
  PROVE  subs' \subseteq subs /\ creator' = creator
<1> USE DEF subVars, RemoveSubscription
<1>1. CASE PublishNext
  BY <1>1 DEF PublishNext, CanPublish, TurnDown, PublishSend, PublishReply,
              PublishRetry, PublishGiveUp, RunnerIdle, PublishFails, CreateDocument,
              PublishCount, PublishCountFails, PublishStore
<1>2. CASE WatcherNext
  BY <1>2 DEF WatcherNext, SubscribeAgain, SubscribeFind, SubscribeConflict,
              NextRenew, NextFindsNone, NextAssign, NextCount, NextCountFails,
              NextStore
<1>3. CASE AckNext
  BY <1>3 DEF AckNext, AckFind, AckRemove, AckRemoveFails
<1>4. CASE SubscriptionNext
  BY <1>4 DEF SubscriptionNext, Ping, TTLElapses, CloseUnassign, CloseRemove,
              CloseFails, GCList, GCUnassign, GCUnassignFails, GCRemove,
              GCRemoveFails
<1>5. ASSUME NEW l \in Links, Restart(l) PROVE subs' \subseteq subs /\ creator' = creator
  BY <1>5 DEF Restart
<1>6. CASE UNCHANGED vars
  BY <1>6 DEF vars
<1>7. QED BY <1>1, <1>2, <1>3, <1>4, <1>5, <1>6 DEF Next

\* However many inputs of a client subscribe at the same time, and whatever is
\* closed, collected or restarted, the client has at most one subscription.
THEOREM ClientHasOneSubscription == Spec => []OneSubscriptionPerClient
<1>1. Init => OneSubscriptionPerClient
  BY DEF Init, OneSubscriptionPerClient
<1>2. TypeInv /\ OneSubscriptionPerClient /\ [Next]_vars => OneSubscriptionPerClient'
  <2> SUFFICES ASSUME TypeInv, OneSubscriptionPerClient, [Next]_vars
               PROVE  OneSubscriptionPerClient'
    OBVIOUS
  <2>1. CASE ~ \E w \in Watchers : SubscribeCreate(w)
    BY <2>1, SubscriptionsShrink DEF OneSubscriptionPerClient
  <2>2. ASSUME NEW w \in Watchers, SubscribeCreate(w)
        PROVE  OneSubscriptionPerClient'
    <3>1. lastSub' = lastSub + 1 /\ lastSub \in Nat /\ subs \subseteq 1..lastSub
      BY <2>2 DEF SubscribeCreate, TypeInv, LinkQueueDBTypeOK, StoreTypeOK
    <3>2. lastSub' \notin subs
      BY <3>1
    <3>3. \A s \in subs : creator[s].client # w.client
      BY <2>2 DEF SubscribeCreate, HasSubscription
    <3>4. lastSub' \in SubIds
      BY <2>2, SubscribeCreateTypeInv, <3>1, LinkQueueDBAssumption, FS_CardinalityType
         DEF TypeInv, LinkQueueDBTypeOK, StoreTypeOK, SubIds
    <3>5. creator \in [SubIds -> Watchers \cup {NoWatcher}]
      BY DEF TypeInv, LinkQueueDBTypeOK, StoreTypeOK
    <3>6. /\ creator'[lastSub'] = w
          /\ \A s \in subs : creator'[s] = creator[s]
          /\ subs' = subs \cup {lastSub'}
      BY <2>2, <3>2, <3>4, <3>5 DEF SubscribeCreate
    <3>7. QED BY <3>3, <3>6 DEF OneSubscriptionPerClient
  <2>3. QED BY <2>1, <2>2
<1>3. QED BY <1>1, <1>2, InitTypeInv, NextTypeInv, PTL DEF Spec

-----------------------------------------------------------------------------
(* Acknowledgements.                                                       *)

\* A document leaves the queue in AckRemove only.
LEMMA OnlyAckRemoves ==
  ASSUME [Next]_vars, ~ \E h \in AckHandlers : AckRemove(h)
  PROVE  queue \subseteq queue'
<1> USE DEF docVars, Unassign
<1>1. CASE PublishNext
  BY <1>1 DEF PublishNext, CanPublish, TurnDown, PublishSend, PublishReply,
              PublishRetry, PublishGiveUp, RunnerIdle, PublishFails, CreateDocument,
              PublishCount, PublishCountFails, PublishStore
<1>2. CASE WatcherNext
  BY <1>2 DEF WatcherNext, SubscribeAgain, SubscribeFind, SubscribeCreate,
              SubscribeConflict, NextRenew, NextFindsNone, NextAssign, NextCount,
              NextCountFails, NextStore
<1>3. CASE AckNext
  BY <1>3 DEF AckNext, AckFind, AckRemoveFails
<1>4. CASE SubscriptionNext
  BY <1>4 DEF SubscriptionNext, Ping, TTLElapses, CloseUnassign, CloseRemove,
              CloseFails, GCList, GCUnassign, GCUnassignFails, GCRemove,
              GCRemoveFails
<1>5. ASSUME NEW l \in Links, Restart(l) PROVE queue \subseteq queue'
  BY <1>5 DEF Restart
<1>6. CASE UNCHANGED vars
  BY <1>6 DEF vars
<1>7. QED BY <1>1, <1>2, <1>3, <1>4, <1>5, <1>6 DEF Next

\* No other step raises a counter of acknowledgements.
LEMMA OnlyAckCounts ==
  ASSUME TypeInv, [Next]_vars, ~ \E h \in AckHandlers : AckRemove(h),
         NEW l \in Links
  PROVE  acknowledged'[l] # acknowledged[l] + 1
<1>0. acknowledged \in [Links -> Nat]
  BY DEF TypeInv, LinkQueueDBTypeOK, AgentTypeOK
<1> SUFFICES acknowledged'[l] = acknowledged[l] \/ acknowledged'[l] = 0
  BY <1>0
<1> USE <1>0 DEF progressVars
<1>1. CASE PublishNext
  BY <1>1 DEF PublishNext, CanPublish, TurnDown, PublishSend, PublishReply,
              PublishRetry, PublishGiveUp, RunnerIdle, PublishFails, CreateDocument,
              PublishCount, PublishCountFails, PublishStore
<1>2. CASE WatcherNext
  BY <1>2 DEF WatcherNext, SubscribeAgain, SubscribeFind, SubscribeCreate,
              SubscribeConflict, NextRenew, NextFindsNone, NextAssign, NextCount,
              NextCountFails, NextStore
<1>3. CASE AckNext
  BY <1>3 DEF AckNext, AckFind, AckRemoveFails
<1>4. CASE SubscriptionNext
  BY <1>4 DEF SubscriptionNext, Ping, TTLElapses, CloseUnassign, CloseRemove,
              CloseFails, GCList, GCUnassign, GCUnassignFails, GCRemove,
              GCRemoveFails
<1>5. ASSUME NEW k \in Links, Restart(k)
      PROVE  acknowledged'[l] = acknowledged[l] \/ acknowledged'[l] = 0
  BY <1>5 DEF Restart
<1>6. CASE UNCHANGED vars
  BY <1>6 DEF vars
<1>7. QED BY <1>1, <1>2, <1>3, <1>4, <1>5, <1>6 DEF Next

\* One acknowledgement is counted for each document that leaves the queue, for any
\* number of Ack calls that run at the same time or again after a failure.
THEOREM AcknowledgedOnce == Spec => AckCountsRemoval
<1> DEFINE Counted(c) ==
      (c \in queue /\ c \notin queue') <=>
         \E h \in AckHandlers, w \in Watchers :
           /\ acking[h] = <<w, c>> /\ acking'[h] = NoAck
           /\ acknowledged'[w.link] = acknowledged[w.link] + 1
<1>1. TypeInv /\ [Next]_vars => [\A c \in Calls : Counted(c)]_vars
  <2> SUFFICES ASSUME TypeInv, [Next]_vars, NEW c \in Calls PROVE Counted(c)
    OBVIOUS
  <2> USE LinkQueueDBAssumption
  <2>0. /\ acking \in [AckHandlers -> {NoAck} \cup (Watchers \X Calls)]
        /\ acknowledged \in [Links -> Nat] /\ queue \subseteq Calls
    BY DEF TypeInv, LinkQueueDBTypeOK, AgentTypeOK, StoreTypeOK
  <2>1. CASE ~ \E h \in AckHandlers : AckRemove(h)
    BY <2>1, OnlyAckRemoves, OnlyAckCounts
  <2>2. ASSUME NEW h \in AckHandlers, AckRemove(h) PROVE Counted(c)
    <3>1. PICK x \in Watchers, d \in Calls : acking[h] = <<x, d>>
      BY <2>0, <2>2 DEF AckRemove
    <3>2. /\ d \in queue /\ queue' = queue \ {d}
          /\ acknowledged' = [acknowledged EXCEPT ![x.link] = @ + 1]
          /\ acking' = [acking EXCEPT ![h] = NoAck]
      BY <2>2, <3>1 DEF AckRemove
    <3>3. c \in queue /\ c \notin queue' <=> c = d
      BY <3>2
    <3>4. acking'[h] = NoAck /\ acknowledged'[x.link] = acknowledged[x.link] + 1
      BY <2>0, <3>2
    <3>5. ASSUME NEW g \in AckHandlers, NEW w \in Watchers,
                 acking[g] = <<w, c>>, acking'[g] = NoAck
          PROVE  c = d
      <4>1. acking[g] # NoAck
        BY <3>5 DEF NoAck
      <4>2. g = h
        BY <2>0, <3>2, <3>5, <4>1
      <4>3. QED BY <3>1, <3>5, <4>2
    <3>6. QED BY <3>1, <3>3, <3>4, <3>5
  <2>3. QED BY <2>1, <2>2
<1>2. QED BY <1>1, InitTypeInv, NextTypeInv, PTL DEF Spec, AckCountsRemoval

-----------------------------------------------------------------------------
(* The link agents implement DurableQueue.                                 *)

\* What is in the queue was stored by its Publish call.
StoredInv == \A c \in queue : stage[c] \notin {"unused", "arriving"}

\* Whoever runs an Ack call has got the value.
AckingInv ==
  \A h \in AckHandlers, w \in Watchers, c \in Calls :
    acking[h] = <<w, c>> => c.value \in received[w]

DurableInv == StoredInv /\ AckingInv

LEMMA PlaceFacts ==
  /\ \A c : Place(c) = "queued" <=> c \in queue
  /\ \A c : Place(c) = "new" <=> c \notin queue /\ stage[c] \in {"unused", "arriving"}
  /\ \A c : Place(c) \in {"queued", "new", "gone"}
BY DEF Place

LEMMA PlaceFactsNext ==
  /\ \A c : Place(c)' = "queued" <=> c \in queue'
  /\ \A c : Place(c)' = "new" <=> c \notin queue' /\ stage'[c] \in {"unused", "arriving"}
  /\ \A c : Place(c)' \in {"queued", "new", "gone"}
BY DEF Place

LEMMA InitDurable == Init => DurableInv /\ AsDurableQueue!DurableInit
<1> SUFFICES ASSUME Init PROVE DurableInv /\ AsDurableQueue!DurableInit
  OBVIOUS
<1>1. DurableInv
  BY DEF Init, DurableInv, StoredInv, AckingInv, NoAck
<1>2. \A c \in Calls : Place(c) = "new"
  BY PlaceFacts DEF Init
<1>3. [c \in Calls |-> Place(c)] = [c \in Calls |-> "new"]
  BY <1>2
<1>4. QED BY <1>1, <1>3 DEF Init, AsDurableQueue!DurableInit

\* Nothing of what DurableQueue speaks of changes.
Hidden ==
  /\ \A c \in Calls : Place(c)' = Place(c)
  /\ UNCHANGED <<assigned, got, received, acknowledged>>

LEMMA HiddenStutters ==
  ASSUME Hidden
  PROVE  UNCHANGED AsDurableQueue!durableVars
<1>1. [c \in Calls |-> Place(c)'] = [c \in Calls |-> Place(c)]
  BY DEF Hidden
<1>2. QED BY <1>1 DEF Hidden, AsDurableQueue!durableVars

\* A single document changes its place.
LEMMA OneMoves ==
  ASSUME NEW c \in Calls, NEW from, NEW to, Place(c) = from, Place(c)' = to,
         \A d \in Calls : d # c => Place(d)' = Place(d)
  PROVE  AsDurableQueue!Moved(c, from, to)
<1>1. [d \in Calls |-> Place(d)'] = [[d \in Calls |-> Place(d)] EXCEPT ![c] = to]
  OBVIOUS
<1>2. QED BY <1>1 DEF AsDurableQueue!Moved

LEMMA PublishRefines ==
  ASSUME TypeInv, StoredInv, PublishNext
  PROVE  StoredInv' /\ (AsDurableQueue!DurableNext \/ Hidden)
<1>0. stage \in [Calls -> Stages] /\ queue \subseteq Calls
  BY DEF TypeInv, LinkQueueDBTypeOK, PublishTypeOK, StoreTypeOK
<1>1. UNCHANGED <<assigned, got, received, acknowledged>>
  BY DEF PublishNext, CanPublish, TurnDown, PublishSend, PublishReply, PublishRetry,
         PublishGiveUp, RunnerIdle, PublishFails, CreateDocument, PublishCount,
         PublishCountFails, PublishStore, docVars, watchVars, progressVars
<1>2. CASE UNCHANGED <<queue, stage>>
  <2>1. \A c \in Calls : Place(c)' = Place(c)
    BY <1>2 DEF Place
  <2>2. QED BY <1>1, <1>2, <2>1 DEF Hidden, StoredInv
<1>3. ASSUME NEW p \in Publishers, NEW c \in Calls, PublishSend(p, c)
      PROVE  StoredInv' /\ Hidden
  <2>1. /\ queue' = queue /\ stage[c] = "unused" /\ stage' = [stage EXCEPT ![c] = "arriving"]
    BY <1>3 DEF PublishSend, docVars
  <2>2. c \notin queue
    BY <2>1 DEF StoredInv
  <2>3. StoredInv' /\ \A d \in Calls : Place(d)' = Place(d)
    BY <1>0, <2>1, <2>2 DEF StoredInv, Place
  <2>4. QED BY <1>1, <2>3 DEF Hidden
<1>4. ASSUME NEW c \in Calls, PublishFails(c)
      PROVE  StoredInv' /\ AsDurableQueue!DurableNext
  <2>1. /\ queue' = queue /\ stage[c] = "arriving" /\ stage' = [stage EXCEPT ![c] = "failed"]
    BY <1>4 DEF PublishFails, docVars
  <2>2. c \notin queue
    BY <2>1 DEF StoredInv
  <2>3. /\ StoredInv' /\ Place(c) = "new" /\ Place(c)' = "gone"
        /\ \A d \in Calls : d # c => Place(d)' = Place(d)
    BY <1>0, <2>1, <2>2 DEF StoredInv, Place
  <2>4. AsDurableQueue!Refuse(c)
    BY <1>1, <2>3, OneMoves DEF AsDurableQueue!Refuse
  <2>5. QED BY <2>3, <2>4 DEF AsDurableQueue!DurableNext
<1>5. ASSUME NEW c \in Calls, CreateDocument(c)
      PROVE  StoredInv' /\ AsDurableQueue!DurableNext
  <2>1. /\ queue' = queue \cup {c} /\ stage[c] = "arriving"
        /\ stage' = [stage EXCEPT ![c] = "stored"]
    BY <1>5 DEF CreateDocument
  <2>2. c \notin queue
    BY <2>1 DEF StoredInv
  <2>3. /\ StoredInv' /\ Place(c) = "new" /\ Place(c)' = "queued"
        /\ \A d \in Calls : d # c => Place(d)' = Place(d)
    BY <1>0, <2>1, <2>2 DEF StoredInv, Place
  <2>4. AsDurableQueue!Store(c)
    BY <1>1, <2>3, OneMoves DEF AsDurableQueue!Store
  <2>5. QED BY <2>3, <2>4 DEF AsDurableQueue!DurableNext
<1>6. ASSUME NEW c \in Calls, PublishCount(c) \/ PublishCountFails(c) \/ PublishStore(c)
      PROVE  StoredInv' /\ Hidden
  <2>1. /\ queue' = queue /\ stage[c] \in {"stored", "counted"}
        /\ stage' = [stage EXCEPT ![c] = "counted"] \/ stage' = [stage EXCEPT ![c] = "done"]
    BY <1>6 DEF PublishCount, PublishCountFails, PublishStore, docVars
  <2>2. StoredInv' /\ \A d \in Calls : Place(d)' = Place(d)
    BY <1>0, <2>1 DEF StoredInv, Place
  <2>3. QED BY <1>1, <2>2 DEF Hidden
<1>7. QED
  BY <1>2, <1>3, <1>4, <1>5, <1>6
     DEF PublishNext, CanPublish, TurnDown, PublishReply, PublishRetry, PublishGiveUp,
         RunnerIdle, docVars

LEMMA WatcherRefines ==
  ASSUME TypeInv, WatcherNext
  PROVE  /\ UNCHANGED <<queue, stage, acking>> /\ \A w \in Watchers : received[w] \subseteq received'[w]
         /\ AsDurableQueue!DurableNext \/ Hidden
<1>0. /\ got \in [Watchers -> Calls \cup {NoCall}] /\ subOf \in [Watchers -> 0..lastSub]
      /\ received \in [Watchers -> SUBSET Values] /\ assigned \in [Calls -> 0..lastSub]
      /\ fetch \in [Watchers -> FetchStates] /\ queue \subseteq Calls
      /\ \A w \in Watchers : /\ got[w] # NoCall <=> fetch[w] \in {"assigned", "counted"}
                             /\ fetch[w] = "renewed" => subOf[w] # NoSub
      /\ lastSub \in 0..Cardinality(Watchers) /\ Cardinality(Watchers) \in Nat
  BY LinkQueueDBAssumption, FS_CardinalityType
     DEF TypeInv, LinkQueueDBTypeOK, WatcherTypeOK, StoreTypeOK
<1>1. UNCHANGED <<queue, stage, acking, acknowledged>>
  BY DEF WatcherNext, SubscribeAgain, SubscribeFind, SubscribeCreate, SubscribeConflict,
         NextRenew, NextFindsNone, NextAssign, NextCount, NextCountFails, NextStore, docVars,
         publishVars, progressVars
<1>2. \A c \in Calls : Place(c)' = Place(c)
  BY <1>1 DEF Place
<1>3. CASE UNCHANGED <<assigned, got, received>>
  BY <1>1, <1>2, <1>3 DEF Hidden
<1>4. ASSUME NEW w \in Watchers, NEW c \in Calls, NextAssign(w, c)
      PROVE  received' = received /\ AsDurableQueue!DurableNext
  <2>0. PICK s : s = subOf[w]
    OBVIOUS
  <2>1. /\ fetch[w] = "renewed" /\ c \in Available(w) /\ received' = received
        /\ assigned' = [d \in Calls |-> IF d \in Available(w) THEN s ELSE assigned[d]]
        /\ got' = [got EXCEPT ![w] = c]
    BY <1>4, <2>0 DEF NextAssign
  <2>2. got[w] = NoCall /\ s \in SubIds
    BY <1>0, <2>0, <2>1 DEF SubIds, NoSub
  <2>3. AsDurableQueue!Free(c.link) = Available(w)
    <3>1. c.link = creator[subOf[w]].link
      BY <2>1 DEF Available, Unassigned
    <3>2. \A d \in Calls : [e \in Calls |-> Place(e)][d] = "queued" <=> d \in queue
      BY PlaceFacts
    <3>3. QED BY <1>0, <3>1, <3>2 DEF Available, Unassigned, AsDurableQueue!Free
  <2>4. [d \in Calls |-> Place(d)'] = [d \in Calls |-> Place(d)]
    BY <1>2
  <2>5. AsDurableQueue!Take(w, c, s)
    BY <1>1, <2>1, <2>2, <2>3, <2>4 DEF AsDurableQueue!Take
  <2>6. QED BY <2>1, <2>2, <2>5 DEF AsDurableQueue!DurableNext
<1>5. ASSUME NEW w \in Watchers, NextCountFails(w) \/ NextStore(w)
      PROVE  /\ \A x \in Watchers : received[x] \subseteq received'[x]
             /\ AsDurableQueue!DurableNext
  <2>1. /\ fetch[w] \in {"assigned", "counted"} /\ assigned' = assigned
        /\ received' = [received EXCEPT ![w] = @ \cup {got[w].value}]
        /\ got' = [got EXCEPT ![w] = NoCall]
    BY <1>5 DEF NextCountFails, NextStore, Return, docVars
  <2>2. got[w] # NoCall
    BY <1>0, <2>1
  <2>3. [d \in Calls |-> Place(d)'] = [d \in Calls |-> Place(d)]
    BY <1>2
  <2>4. AsDurableQueue!Hand(w)
    BY <1>1, <2>1, <2>2, <2>3 DEF AsDurableQueue!Hand
  <2>5. \A x \in Watchers : received[x] \subseteq received'[x]
    BY <1>0, <2>1
  <2>6. QED BY <2>4, <2>5 DEF AsDurableQueue!DurableNext
<1>6. QED
  BY <1>1, <1>3, <1>4, <1>5
     DEF WatcherNext, SubscribeAgain, SubscribeFind, SubscribeCreate, SubscribeConflict,
         NextRenew, NextFindsNone, NextCount, docVars

LEMMA AckRefines ==
  ASSUME TypeInv, DurableInv, AckNext
  PROVE  DurableInv' /\ (AsDurableQueue!DurableNext \/ Hidden)
<1>0. /\ acking \in [AckHandlers -> {NoAck} \cup (Watchers \X Calls)]
      /\ queue \subseteq Calls
  BY DEF TypeInv, LinkQueueDBTypeOK, AgentTypeOK, StoreTypeOK
<1>1. UNCHANGED <<stage, got, received>>
  BY DEF AckNext, AckFind, AckRemove, AckRemoveFails, publishVars, watchVars
<1>2. queue' \subseteq queue /\ StoredInv'
  <2>1. queue' \subseteq queue
    BY DEF AckNext, AckFind, AckRemove, AckRemoveFails, docVars
  <2>2. QED BY <1>1, <2>1 DEF DurableInv, StoredInv
<1>3. ASSUME NEW h \in AckHandlers, NEW w \in Watchers, NEW c \in Calls, AckFind(h, w, c)
      PROVE  AckingInv' /\ Hidden
  <2>1. /\ UNCHANGED <<queue, assigned, acknowledged>> /\ c.value \in received[w]
        /\ acking' = [acking EXCEPT ![h] = <<w, c>>]
    BY <1>3 DEF AckFind, docVars, progressVars
  <2>2. ASSUME NEW g \in AckHandlers, NEW x \in Watchers, NEW d \in Calls,
               acking'[g] = <<x, d>>
        PROVE  d.value \in received'[x]
    <3>1. CASE g = h
      <4>1. acking'[h] = <<w, c>>
        BY <1>0, <2>1
      <4>2. x = w /\ d = c
        BY <2>2, <3>1, <4>1
      <4>3. QED BY <1>1, <2>1, <4>2
    <3>2. CASE g # h
      BY <1>0, <1>1, <2>1, <2>2, <3>2 DEF DurableInv, AckingInv
    <3>3. QED BY <3>1, <3>2
  <2>3. \A d \in Calls : Place(d)' = Place(d)
    BY <1>1, <2>1 DEF Place
  <2>4. QED BY <1>1, <2>1, <2>2, <2>3 DEF Hidden, AckingInv
<1>4. ASSUME NEW h \in AckHandlers, acking' = [acking EXCEPT ![h] = NoAck]
      PROVE  AckingInv'
  <2>1. \A g \in AckHandlers : acking'[g] = acking[g] \/ acking'[g] = NoAck
    BY <1>0, <1>4
  <2>2. QED BY <1>1, <2>1 DEF DurableInv, AckingInv, NoAck
<1>5. ASSUME NEW h \in AckHandlers, AckRemove(h)
      PROVE  AckingInv' /\ AsDurableQueue!DurableNext
  <2>1. PICK w \in Watchers, c \in Calls : acking[h] = <<w, c>>
    BY <1>0, <1>5 DEF AckRemove
  <2>2. /\ c \in queue /\ queue' = queue \ {c}
        /\ assigned' = [assigned EXCEPT ![c] = NoSub]
        /\ acknowledged' = [acknowledged EXCEPT ![w.link] = @ + 1]
        /\ acking' = [acking EXCEPT ![h] = NoAck]
    BY <1>5, <2>1 DEF AckRemove
  <2>3. c.value \in received[w] /\ stage[c] \notin {"unused", "arriving"}
    BY <2>1, <2>2 DEF DurableInv, AckingInv, StoredInv
  <2>4. Place(c) = "queued" /\ Place(c)' = "gone"
        /\ \A d \in Calls : d # c => Place(d)' = Place(d)
    BY <1>1, <2>2, <2>3 DEF Place
  <2>5. AsDurableQueue!Moved(c, "queued", "gone")
    BY <2>4, OneMoves
  <2>6. AsDurableQueue!Acknowledge(w, c)
    BY <1>1, <2>2, <2>3, <2>5 DEF AsDurableQueue!Acknowledge
  <2>7. QED BY <1>4, <2>2, <2>6 DEF AsDurableQueue!DurableNext
<1>6. ASSUME NEW h \in AckHandlers, AckRemoveFails(h)
      PROVE  AckingInv' /\ Hidden
  <2>1. /\ UNCHANGED <<queue, assigned, acknowledged>>
        /\ acking' = [acking EXCEPT ![h] = NoAck]
    BY <1>6 DEF AckRemoveFails, docVars, progressVars
  <2>2. \A d \in Calls : Place(d)' = Place(d)
    BY <1>1, <2>1 DEF Place
  <2>3. QED BY <1>1, <1>4, <2>1, <2>2 DEF Hidden
<1>7. QED BY <1>2, <1>3, <1>5, <1>6 DEF AckNext, DurableInv

LEMMA SubscriptionRefines ==
  ASSUME TypeInv, SubscriptionNext
  PROVE  /\ UNCHANGED <<queue, stage, acking, received>>
         /\ AsDurableQueue!DurableNext \/ Hidden
<1>1. UNCHANGED <<queue, stage, acking, got, received, acknowledged>>
  BY DEF SubscriptionNext, Ping, TTLElapses, CloseUnassign, CloseRemove, CloseFails, GCList,
         GCUnassign, GCUnassignFails, GCRemove, GCRemoveFails, Unassign, docVars,
         publishVars, watchVars, progressVars
<1>2. \A c \in Calls : Place(c)' = Place(c)
  BY <1>1 DEF Place
<1>3. CASE UNCHANGED assigned
  BY <1>1, <1>2, <1>3 DEF Hidden
<1>4. ASSUME NEW s \in SubIds, Unassign(s) PROVE AsDurableQueue!DurableNext
  <2>1. assigned' = [c \in Calls |-> IF assigned[c] = s THEN NoSub ELSE assigned[c]]
    BY <1>4 DEF Unassign
  <2>2. [d \in Calls |-> Place(d)'] = [d \in Calls |-> Place(d)]
    BY <1>2
  <2>3. AsDurableQueue!GiveBack(s)
    BY <1>1, <2>1, <2>2 DEF AsDurableQueue!GiveBack
  <2>4. QED BY <2>3 DEF AsDurableQueue!DurableNext
<1>5. QED
  BY <1>1, <1>3, <1>4
     DEF SubscriptionNext, Ping, TTLElapses, CloseUnassign, CloseRemove, CloseFails, GCList,
         GCUnassign, GCUnassignFails, GCRemove, GCRemoveFails, docVars

LEMMA RestartRefines ==
  ASSUME TypeInv, DurableInv, NEW l \in Links, Restart(l)
  PROVE  DurableInv' /\ AsDurableQueue!DurableNext
<1>0. /\ acking \in [AckHandlers -> {NoAck} \cup (Watchers \X Calls)]
      /\ queue \subseteq Calls
  BY DEF TypeInv, LinkQueueDBTypeOK, AgentTypeOK, StoreTypeOK
<1>1. /\ UNCHANGED <<queue, assigned, received>>
      /\ stage' = [c \in Calls |->
                 IF c.link = l /\ stage[c] \in {"arriving", "stored", "counted"}
                   THEN "failed" ELSE stage[c]]
      /\ got' = [w \in Watchers |-> IF w.link = l THEN NoCall ELSE got[w]]
      /\ acking' = [h \in AckHandlers |->
                  IF acking[h] # NoAck /\ acking[h][1].link = l
                    THEN NoAck ELSE acking[h]]
      /\ acknowledged' = [acknowledged EXCEPT ![l] = 0]
  BY DEF Restart, docVars
<1>2. StoredInv'
  BY <1>0, <1>1 DEF DurableInv, StoredInv
<1>3. AckingInv'
  <2>1. \A h \in AckHandlers : acking'[h] = acking[h] \/ acking'[h] = NoAck
    BY <1>1
  <2>2. QED BY <1>1, <2>1 DEF DurableInv, AckingInv, NoAck
<1>4. PICK lost : lost = {c \in Calls : c.link = l /\ c \notin queue /\ stage[c] = "arriving"}
  OBVIOUS
<1>5. lost \in SUBSET {c \in Calls : [d \in Calls |-> Place(d)][c] = "new" /\ c.link = l}
  BY <1>4, PlaceFacts
<1>6. ASSUME NEW c \in Calls
      PROVE  Place(c)' = IF c \in lost THEN "gone" ELSE Place(c)
  <2>1. stage'[c] = IF c.link = l /\ stage[c] \in {"arriving", "stored", "counted"}
                      THEN "failed" ELSE stage[c]
    BY <1>1
  <2>2. QED BY <1>1, <1>4, <2>1 DEF Place
<1>7. [c \in Calls |-> Place(c)'] =
        [c \in Calls |-> IF c \in lost THEN "gone" ELSE [d \in Calls |-> Place(d)][c]]
  BY <1>6
<1>8. AsDurableQueue!Restart(l)
  BY <1>1, <1>5, <1>7 DEF AsDurableQueue!Restart
<1>9. QED BY <1>2, <1>3, <1>8 DEF DurableInv, AsDurableQueue!DurableNext

LEMMA DurableStep ==
  TypeInv /\ DurableInv /\ [Next]_vars
    => DurableInv' /\ [AsDurableQueue!DurableNext]_(AsDurableQueue!durableVars)
<1> SUFFICES ASSUME TypeInv, DurableInv, [Next]_vars
             PROVE  DurableInv' /\ (AsDurableQueue!DurableNext
                                    \/ UNCHANGED AsDurableQueue!durableVars)
  OBVIOUS
<1>1. ASSUME UNCHANGED <<queue, stage, acking>>,
             \A w \in Watchers : received[w] \subseteq received'[w]
      PROVE  DurableInv'
  BY <1>1 DEF DurableInv, StoredInv, AckingInv
<1>2. CASE PublishNext
  <2>1. UNCHANGED <<acking, received>>
    BY <1>2 DEF PublishNext, CanPublish, TurnDown, PublishSend, PublishReply, PublishRetry,
         PublishGiveUp, RunnerIdle, PublishFails, CreateDocument, PublishCount,
         PublishCountFails, PublishStore, watchVars
  <2>2. StoredInv' /\ (AsDurableQueue!DurableNext \/ Hidden)
    BY <1>2, PublishRefines DEF DurableInv
  <2>3. QED BY <2>1, <2>2, HiddenStutters DEF DurableInv, AckingInv
<1>3. CASE WatcherNext
  BY <1>1, <1>3, WatcherRefines, HiddenStutters
<1>4. CASE AckNext
  BY <1>4, AckRefines, HiddenStutters
<1>5. CASE SubscriptionNext
  BY <1>1, <1>5, SubscriptionRefines, HiddenStutters
<1>6. CASE \E l \in Links : Restart(l)
  BY <1>6, RestartRefines
<1>7. CASE UNCHANGED vars
  <2>1. Hidden
    BY <1>7 DEF vars, Hidden, Place, docVars, publishVars, watchVars, progressVars
  <2>2. QED BY <1>1, <1>7, <2>1, HiddenStutters DEF vars, docVars, publishVars, watchVars
<1>8. QED BY <1>2, <1>3, <1>4, <1>5, <1>6, <1>7 DEF Next

\* The link agents with the database implement DurableQueue, for any number of links,
\* clients, documents and concurrent calls: a stored document leaves the queue only
\* when a client that got its value acknowledges it, and is counted then and only then,
\* and a restart loses nothing that was stored (db_source.go, db_documents.go).
THEOREM DatabaseKeepsPromise == Spec => ImplementsDurableQueue
<1>1. Spec => [](TypeInv /\ DurableInv)
  BY InitTypeInv, NextTypeInv, InitDurable, DurableStep, PTL DEF Spec
<1>2. Spec => AsDurableQueue!DurableInit
              /\ [][AsDurableQueue!DurableNext]_(AsDurableQueue!durableVars)
  BY <1>1, InitDurable, DurableStep, PTL DEF Spec
<1>3. QED BY <1>2 DEF ImplementsDurableQueue, AsDurableQueue!DurableSpec
=============================================================================
