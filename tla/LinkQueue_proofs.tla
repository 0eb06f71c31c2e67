--------------------------- MODULE LinkQueue_proofs ---------------------------
(***************************************************************************)
(* Proofs about LinkQueue for every number of publishers, copies, clients, *)
(* handlers and subscriptions and every capacity of the two channels.      *)
(***************************************************************************)
EXTENDS LinkQueue, SequenceTheorems, FiniteSetTheorems, TLAPS

-----------------------------------------------------------------------------
(* Sequences that hold each element at most once, as channels and inflight *)
(* lists do: what Append, Tail and RemoveAt do to their elements.           *)

\* Append adds one element.
LEMMA AppendElements ==
  ASSUME NEW S, NEW q \in Seq(S), NEW c \in S
  PROVE  Range(Append(q, c)) = Range(q) \cup {c}
<1> DEFINE a == Append(q, c)
<1>1. /\ a \in Seq(S) /\ Len(a) = Len(q) + 1
      /\ \A i \in 1..Len(q) : a[i] = q[i]
      /\ a[Len(q) + 1] = c
  OBVIOUS
<1>2. Len(q) \in Nat /\ DOMAIN q = 1..Len(q) /\ DOMAIN a = 1..(Len(q) + 1)
  BY <1>1
<1> HIDE DEF a
<1>3. ASSUME NEW x \in Range(a) PROVE x \in Range(q) \cup {c}
  BY <1>1, <1>2, <1>3 DEF Range
<1>4. ASSUME NEW x \in Range(q) PROVE x \in Range(a)
  <2>1. PICK i \in 1..Len(q) : q[i] = x
    BY <1>2, <1>4 DEF Range
  <2>2. i \in DOMAIN a /\ a[i] = x
    BY <1>1, <1>2, <2>1
  <2>3. QED BY <2>2 DEF Range
<1>5. c \in Range(a)
  BY <1>1, <1>2 DEF Range
<1>6. QED BY <1>3, <1>4, <1>5 DEF a

\* Append of a new element keeps a sequence injective and adds that element.
LEMMA AppendNew ==
  ASSUME NEW S, NEW q \in Seq(S), NEW c \in S, IsInjective(q), c \notin Range(q)
  PROVE  /\ Append(q, c) \in Seq(S)
         /\ IsInjective(Append(q, c))
         /\ Range(Append(q, c)) = Range(q) \cup {c}
         /\ Len(Append(q, c)) = Len(q) + 1
<1> DEFINE a == Append(q, c)
<1>1. /\ a \in Seq(S) /\ Len(a) = Len(q) + 1
      /\ \A i \in 1..Len(q) : a[i] = q[i]
      /\ a[Len(q) + 1] = c
  OBVIOUS
<1>2. Len(q) \in Nat /\ DOMAIN q = 1..Len(q) /\ DOMAIN a = 1..(Len(q) + 1)
  BY <1>1
<1>3. Range(a) = Range(q) \cup {c}
  BY AppendElements
<1> HIDE DEF a
<1>4. IsInjective(a)
  <2> SUFFICES ASSUME NEW i \in DOMAIN a, NEW j \in DOMAIN a, a[i] = a[j]
               PROVE  i = j
    BY DEF IsInjective
  <2>1. \A k \in 1..Len(q) : a[k] # c
    BY <1>1, <1>2 DEF Range
  <2>2. CASE i \in 1..Len(q) /\ j \in 1..Len(q)
    BY <1>1, <1>2, <2>2 DEF IsInjective
  <2>3. CASE i = Len(q) + 1
    BY <1>1, <1>2, <2>1, <2>3
  <2>4. CASE j = Len(q) + 1
    BY <1>1, <1>2, <2>1, <2>4
  <2>5. QED BY <1>2, <2>2, <2>3, <2>4
<1>5. QED BY <1>1, <1>3, <1>4 DEF a

\* RemoveAt(q, i) shifts what follows position i down by one.
LEMMA RemoveAtElements ==
  ASSUME NEW S, NEW q \in Seq(S), NEW i \in 1..Len(q)
  PROVE  /\ RemoveAt(q, i) \in Seq(S)
         /\ Len(RemoveAt(q, i)) = Len(q) - 1
         /\ \A j \in 1..(Len(q) - 1) :
              RemoveAt(q, i)[j] = q[IF j < i THEN j ELSE j + 1]
<1> DEFINE l == SubSeq(q, 1, i - 1)
           r == SubSeq(q, i + 1, Len(q))
<1>1. Len(q) \in Nat /\ i \in Nat
  OBVIOUS
<1>2. l \in Seq(S) /\ Len(l) = i - 1 /\ \A j \in 1..(i - 1) : l[j] = q[j]
  BY <1>1
<1>3. r \in Seq(S) /\ Len(r) = Len(q) - i /\ \A j \in 1..(Len(q) - i) : r[j] = q[i + j]
  BY <1>1
<1> HIDE DEF l, r
<1>4. /\ l \o r \in Seq(S)
      /\ Len(l \o r) = Len(q) - 1
      /\ \A j \in 1..(Len(q) - 1) : (l \o r)[j] = IF j < i THEN l[j] ELSE r[j - (i - 1)]
  <2>1. /\ l \o r \in Seq(S)
        /\ Len(l \o r) = Len(l) + Len(r)
        /\ \A j \in 1..(Len(l) + Len(r)) :
             (l \o r)[j] = IF j <= Len(l) THEN l[j] ELSE r[j - Len(l)]
    BY <1>2, <1>3, ConcatProperties
  <2>2. Len(l) + Len(r) = Len(q) - 1
    BY <1>1, <1>2, <1>3
  <2>3. \A j \in 1..(Len(q) - 1) : (j <= Len(l)) <=> (j < i)
    BY <1>1, <1>2
  <2>4. QED BY <1>2, <2>1, <2>2, <2>3
<1>5. \A j \in 1..(Len(q) - 1) : (l \o r)[j] = q[IF j < i THEN j ELSE j + 1]
  <2> SUFFICES ASSUME NEW j \in 1..(Len(q) - 1)
               PROVE  (l \o r)[j] = q[IF j < i THEN j ELSE j + 1]
    OBVIOUS
  <2>1. (l \o r)[j] = IF j < i THEN l[j] ELSE r[j - (i - 1)]
    BY <1>4
  <2>2. CASE j < i
    <3>1. j \in 1..(i - 1)
      BY <1>1, <2>2
    <3>2. QED BY <1>2, <2>1, <2>2, <3>1
  <2>3. CASE ~(j < i)
    <3>1. j - (i - 1) \in 1..(Len(q) - i) /\ i + (j - (i - 1)) = j + 1
      BY <1>1, <2>3
    <3>2. r[j - (i - 1)] = q[j + 1]
      BY <1>3, <3>1
    <3>3. QED BY <2>1, <2>3, <3>2
  <2>4. QED BY <2>2, <2>3
<1>6. RemoveAt(q, i) = l \o r
  BY DEF RemoveAt, l, r
<1>7. QED BY <1>4, <1>5, <1>6

\* RemoveAt removes exactly the element at that position.
LEMMA RemoveAtOfInjective ==
  ASSUME NEW S, NEW q \in Seq(S), IsInjective(q), NEW i \in DOMAIN q
  PROVE  /\ RemoveAt(q, i) \in Seq(S)
         /\ IsInjective(RemoveAt(q, i))
         /\ Range(RemoveAt(q, i)) = Range(q) \ {q[i]}
         /\ Len(RemoveAt(q, i)) = Len(q) - 1
<1> DEFINE w == RemoveAt(q, i)
           at(j) == IF j < i THEN j ELSE j + 1
<1>1. Len(q) \in Nat /\ DOMAIN q = 1..Len(q) /\ i \in 1..Len(q)
  OBVIOUS
<1>2. w \in Seq(S) /\ Len(w) = Len(q) - 1
  BY <1>1, RemoveAtElements
<1>3. \A j \in 1..(Len(q) - 1) : w[j] = q[at(j)]
  BY <1>1, RemoveAtElements
<1>4. DOMAIN w = 1..(Len(q) - 1)
  BY <1>1, <1>2
<1> HIDE DEF w
<1>5. Range(w) = Range(q) \ {q[i]}
  <2>1. ASSUME NEW x \in Range(w) PROVE x \in Range(q) /\ x # q[i]
    <3>1. PICK j \in 1..(Len(q) - 1) : w[j] = x
      BY <1>4, <2>1 DEF Range
    <3>2. at(j) \in 1..Len(q) /\ at(j) # i
      BY <1>1
    <3>3. x = q[at(j)]
      BY <1>3, <3>1
    <3>4. q[at(j)] # q[i]
      BY <1>1, <3>2 DEF IsInjective
    <3>5. QED BY <1>1, <3>2, <3>3, <3>4 DEF Range
  <2>2. ASSUME NEW x \in Range(q), x # q[i] PROVE x \in Range(w)
    <3>1. PICK k \in 1..Len(q) : q[k] = x
      BY <1>1, <2>2 DEF Range
    <3> DEFINE j == IF k < i THEN k ELSE k - 1
    <3>2. k # i
      BY <2>2, <3>1
    <3>3. j \in 1..(Len(q) - 1) /\ at(j) = k
      BY <1>1, <3>2
    <3>4. j \in DOMAIN w /\ w[j] = x
      BY <1>3, <1>4, <3>1, <3>3
    <3>5. QED BY <3>4 DEF Range
  <2>3. QED BY <2>1, <2>2
<1>6. IsInjective(w)
  <2> SUFFICES ASSUME NEW j \in DOMAIN w, NEW k \in DOMAIN w, w[j] = w[k]
               PROVE  j = k
    BY DEF IsInjective
  <2>1. j \in 1..(Len(q) - 1) /\ k \in 1..(Len(q) - 1)
    BY <1>4
  <2>2. at(j) \in 1..Len(q) /\ at(k) \in 1..Len(q)
    BY <1>1, <2>1
  <2>3. at(j) = at(k)
    BY <1>1, <1>3, <2>1, <2>2 DEF IsInjective
  <2>4. QED BY <1>1, <2>1, <2>3
<1>7. QED BY <1>2, <1>5, <1>6 DEF w

\* Taking the head removes exactly that element.
LEMMA TailOfInjective ==
  ASSUME NEW S, NEW q \in Seq(S), IsInjective(q), q # <<>>
  PROVE  /\ Tail(q) \in Seq(S)
         /\ Head(q) \in S
         /\ Head(q) \in Range(q)
         /\ IsInjective(Tail(q))
         /\ Range(Tail(q)) = Range(q) \ {Head(q)}
         /\ Len(Tail(q)) = Len(q) - 1
<1>1. /\ Len(q) \in Nat \ {0} /\ DOMAIN q = 1..Len(q)
      /\ Head(q) = q[1] /\ 1 \in DOMAIN q
      /\ Tail(q) \in Seq(S) /\ Len(Tail(q)) = Len(q) - 1
      /\ \A j \in 1..(Len(q) - 1) : Tail(q)[j] = q[j + 1]
  OBVIOUS
<1>2. /\ RemoveAt(q, 1) \in Seq(S)
      /\ Len(RemoveAt(q, 1)) = Len(q) - 1
      /\ \A j \in 1..(Len(q) - 1) : RemoveAt(q, 1)[j] = q[j + 1]
  <2>1. 1 \in 1..Len(q)
    BY <1>1
  <2>2. \A j \in 1..(Len(q) - 1) : ~(j < 1)
    BY <1>1
  <2>3. QED BY <2>1, <2>2, RemoveAtElements
<1>3. Tail(q) = RemoveAt(q, 1)
  BY <1>1, <1>2
<1>4. Head(q) \in S /\ Head(q) \in Range(q)
  BY <1>1 DEF Range
<1>5. QED BY <1>1, <1>3, <1>4, RemoveAtOfInjective

-----------------------------------------------------------------------------
(* Type correctness.                                                       *)

\* Close counts a copy it sent only while it still has it on the list.
CloseInv == handedBack => closing # NoSub /\ inflight[closing] # <<>>

TypeInv == TypeOK /\ CloseInv

\* The initial state is well typed.
LEMMA InitTypeInv == Init => TypeInv
<1> SUFFICES ASSUME Init PROVE TypeInv
  OBVIOUS
<1> USE LinkQueueAssumption DEF Init, SubIds, NoSub
<1>1. <<>> \in Seq(Copies)
  OBVIOUS
<1>2. inflight \in [SubIds -> Seq(Copies)]
  BY <1>1
<1>3. lastSubscriptionID \in 0..MaxSubs
  OBVIOUS
<1>4. /\ value \in [Publishers -> Values \cup {NoValue}]
      /\ call \in [Publishers -> Copies \cup {NoCopy}]
      /\ stage \in [Copies -> Stages]
      /\ valueOf \in [Copies -> Values \cup {NoValue}]
      /\ clientOf \in [1..MaxSubs -> Clients \cup {NoClient}]
      /\ waitingOn \in [Handlers -> 1..MaxSubs \cup {0}]
      /\ held \in [Handlers -> Copies \cup {NoCopy}]
  BY DEF Stages
<1>5. waiting \in Int /\ inProgress \in Int /\ acknowledged \in Int
  OBVIOUS
<1>6. /\ abandoned \subseteq Copies /\ subscriptions \subseteq 1..MaxSubs
      /\ expired \subseteq subscriptions /\ acked \subseteq Copies
      /\ dropped \subseteq Copies /\ closing \in subscriptions \cup {0}
      /\ handedBack \in BOOLEAN
  OBVIOUS
<1>7. TypeOK
  BY <1>1, <1>2, <1>3, <1>4, <1>5, <1>6 DEF TypeOK
<1>8. QED BY <1>7 DEF TypeInv, CloseInv

\* Every step of every handler keeps the state well typed; no Close ever counts
\* a copy that is not on its list.
LEMMA NextTypeInv == TypeInv /\ [Next]_vars => TypeInv'
<1> SUFFICES ASSUME TypeInv, [Next]_vars PROVE TypeInv'
  OBVIOUS
<1> USE LinkQueueAssumption
    DEF TypeInv, TypeOK, CloseInv, SubIds, NoSub, Stages, publishVars,
        publisherVars, subVars, nextVars, closeVars, statVars, historyVars
<1>1. ASSUME NEW p \in Publishers, PublisherStep(p) PROVE TypeInv'
  <2>1. ASSUME NEW v \in Values, CanPublish(p, v) PROVE TypeInv'
    BY <2>1 DEF CanPublish
  <2>2. ASSUME NEW c \in Copies, PublishSend(p, c) PROVE TypeInv'
    BY <2>2 DEF PublishSend
  <2>3. CASE PublishReply(p)
    BY <2>3 DEF PublishReply
  <2>4. CASE PublishRetry(p)
    BY <2>4 DEF PublishRetry
  <2>5. CASE PublishGiveUp(p)
    BY <2>5 DEF PublishGiveUp
  <2>6. QED BY <1>1, <2>1, <2>2, <2>3, <2>4, <2>5 DEF PublisherStep
<1>2. ASSUME NEW c \in Copies, PublishStep(c) PROVE TypeInv'
  <2>1. CASE PublishCount(c)
    BY <2>1 DEF PublishCount
  <2>2. CASE PublishRecordFails(c)
    BY <2>2 DEF PublishRecordFails
  <2>3. CASE PublishEnqueue(c)
    BY <2>3 DEF PublishEnqueue
  <2>4. CASE PublishCtxDone(c)
    BY <2>4 DEF PublishCtxDone
  <2>5. QED BY <1>2, <2>1, <2>2, <2>3, <2>4 DEF PublishStep
<1>3. ASSUME NEW k \in Clients, SubscribeNew(k) PROVE TypeInv'
  BY <1>3 DEF SubscribeNew, MutexFree
<1>4. ASSUME NEW s \in SubIds, SubscriptionStep(s) PROVE TypeInv'
  <2> USE DEF MutexFree, Renew
  <2>1. ASSUME NEW k \in Clients, SubscribeAgain(k, s) PROVE TypeInv'
    BY <2>1 DEF SubscribeAgain
  <2>2. CASE Ping(s)
    BY <2>2 DEF Ping
  <2>3. CASE TTLElapses(s)
    BY <2>3 DEF TTLElapses
  <2>4. CASE CloseBegin(s)
    BY <2>4 DEF CloseBegin
  <2>5. ASSUME NEW v \in Values, NEW i \in DOMAIN inflight[s], Ack(s, v, i)
        PROVE  TypeInv'
    <3>1. i \in 1..Len(inflight[s]) /\ inflight[s] \in Seq(Copies)
      OBVIOUS
    <3>2. RemoveAt(inflight[s], i) \in Seq(Copies) /\ inflight[s][i] \in Copies
      BY <3>1, RemoveAtElements
    <3>3. QED BY <2>5, <3>2 DEF Ack
  <2>6. ASSUME NEW v \in Values, AckUnknown(s, v) PROVE TypeInv'
    BY <2>6 DEF AckUnknown
  <2>7. QED BY <1>4, <2>1, <2>2, <2>3, <2>4, <2>5, <2>6 DEF SubscriptionStep
<1>5. ASSUME CloseStep PROVE TypeInv'
  <2>1. CASE CloseSend
    BY <2>1 DEF CloseSend
  <2>2. CASE CloseCount
    <3>1. closing \in SubIds /\ inflight[closing] \in Seq(Copies)
      BY <2>2 DEF CloseCount
    <3>2. Tail(inflight[closing]) \in Seq(Copies)
      BY <2>2, <3>1 DEF CloseCount
    <3>3. inflight' \in [SubIds -> Seq(Copies)]
      BY <2>2, <3>2 DEF CloseCount
    <3>4. waiting' \in Int /\ inProgress' \in Int /\ handedBack' = FALSE
      BY <2>2 DEF CloseCount
    <3>5. QED BY <2>2, <3>3, <3>4 DEF CloseCount
  <2>3. CASE CloseFails
    BY <2>3 DEF CloseFails
  <2>4. CASE CloseDone
    BY <2>4 DEF CloseDone
  <2>5. QED BY <1>5, <2>1, <2>2, <2>3, <2>4 DEF CloseStep
<1>6. ASSUME NEW h \in Handlers, NextStep(h) PROVE TypeInv'
  <2> USE DEF MutexFree, Renew, Polling
  <2>1. ASSUME NEW s \in SubIds, NextLookup(h, s) PROVE TypeInv'
    BY <2>1 DEF NextLookup
  <2>2. CASE NextFromRetryQueue(h)
    BY <2>2 DEF NextFromRetryQueue
  <2>3. CASE NextFromQueue(h)
    BY <2>3 DEF NextFromQueue
  <2>4. CASE NextTimeout(h)
    BY <2>4 DEF NextTimeout
  <2>5. CASE NextSetInflight(h)
    <3>1. waitingOn[h] \in SubIds /\ held[h] \in Copies
      BY <2>5 DEF NextSetInflight
    <3>2. Append(inflight[waitingOn[h]], held[h]) \in Seq(Copies)
      BY <3>1
    <3>3. inflight' \in [SubIds -> Seq(Copies)]
      BY <2>5, <3>2 DEF NextSetInflight
    <3>4. waiting' \in Int /\ inProgress' \in Int
      BY <2>5 DEF NextSetInflight
    <3>5. /\ waitingOn' \in [Handlers -> SubIds \cup {NoSub}]
          /\ held' \in [Handlers -> Copies \cup {NoCopy}]
      BY <2>5 DEF NextSetInflight
    <3>6. QED BY <2>5, <3>3, <3>4, <3>5 DEF NextSetInflight
  <2>6. CASE NextNoLongerFound(h)
    BY <2>6 DEF NextNoLongerFound
  <2>7. QED BY <1>6, <2>1, <2>2, <2>3, <2>4, <2>5, <2>6 DEF NextStep
<1>7. CASE UNCHANGED vars
  BY <1>7 DEF vars
<1>8. QED BY <1>1, <1>2, <1>3, <1>4, <1>5, <1>6, <1>7 DEF Next

\* The variables of the in-memory link keep their types, whatever the calls.
THEOREM TypeCorrect == Spec => []TypeOK
<1>1. Spec => []TypeInv
  BY InitTypeInv, NextTypeInv, PTL DEF Spec
<1>2. TypeInv => TypeOK
  BY DEF TypeInv
<1>3. QED BY <1>1, <1>2, PTL
-----------------------------------------------------------------------------
(* Conservation.                                                           *)

\* Where a copy is depends on the channels, the handlers and the lists only.
placeVars == <<queue, retryQueue, held, inflight, closing, handedBack, historyVars>>

\* A step that leaves these and the set of accepted copies alone changes nothing.
LEMMA PlacesUnchanged ==
  ASSUME Conservation, UNCHANGED placeVars, Entered' = Entered
  PROVE  Conservation'
<1>1. /\ queue' = queue /\ retryQueue' = retryQueue /\ held' = held
      /\ inflight' = inflight /\ closing' = closing /\ handedBack' = handedBack
      /\ acked' = acked /\ dropped' = dropped
  BY DEF placeVars, historyVars
<1>2. Holding' = Holding /\ HeldCopies' = HeldCopies
  BY <1>1 DEF Holding, HeldCopies
<1>3. \A s \in SubIds : InflightCopies(s)' = InflightCopies(s)
  BY <1>1 DEF InflightCopies
<1>4. WaitingCopies' = WaitingCopies
  BY <1>1, <1>2 DEF WaitingCopies
<1>5. NoDuplicates'
  BY <1>1, <1>2 DEF Conservation, NoDuplicates
<1>6. OnePlace'
  BY <1>1, <1>2, <1>3, <1>4 DEF Conservation, OnePlace
<1>7. NoneForgotten'
  <2>1. UNION {InflightCopies(s)' : s \in SubIds} = UNION {InflightCopies(s) : s \in SubIds}
    BY <1>3
  <2>2. QED BY <1>1, <1>4, <2>1 DEF Conservation, NoneForgotten
<1>8. QED BY <1>5, <1>6, <1>7 DEF Conservation

\* While nothing is handed back, which subscription is being closed does not
\* matter to where the copies are.
LEMMA CloseMarkConservation ==
  ASSUME Conservation, ~handedBack, ~handedBack', Entered' = Entered,
         UNCHANGED <<queue, retryQueue, held, inflight, historyVars>>
  PROVE  Conservation'
<1>1. /\ queue' = queue /\ retryQueue' = retryQueue /\ held' = held
      /\ inflight' = inflight /\ acked' = acked /\ dropped' = dropped
  BY DEF historyVars
<1>2. Holding' = Holding /\ HeldCopies' = HeldCopies
  BY <1>1 DEF Holding, HeldCopies
<1>3. \A s \in SubIds : InflightCopies(s)' = InflightCopies(s)
  BY <1>1 DEF InflightCopies
<1>4. WaitingCopies' = WaitingCopies
  BY <1>1, <1>2 DEF WaitingCopies
<1>5. NoDuplicates'
  BY <1>1, <1>2 DEF Conservation, NoDuplicates
<1>6. OnePlace'
  BY <1>1, <1>2, <1>3, <1>4 DEF Conservation, OnePlace
<1>7. NoneForgotten'
  <2>1. UNION {InflightCopies(s)' : s \in SubIds} = UNION {InflightCopies(s) : s \in SubIds}
    BY <1>3
  <2>2. QED BY <1>1, <1>4, <2>1 DEF Conservation, NoneForgotten
<1>8. QED BY <1>5, <1>6, <1>7 DEF Conservation

\* A handler that takes a copy from a channel is one more holder of one more copy.
LEMMA HeldAdd ==
  ASSUME TypeOK, NEW h \in Handlers, NEW c \in Copies, held[h] = NoCopy,
         held' = [held EXCEPT ![h] = c]
  PROVE  /\ Holding' = Holding \cup {h}
         /\ h \notin Holding
         /\ HeldCopies' = HeldCopies \cup {c}
         /\ held'[h] = c
         /\ \A g \in Holding : held'[g] = held[g]
<1>1. c # NoCopy
  BY LinkQueueAssumption
<1>2. held'[h] = c /\ \A g \in Handlers \ {h} : held'[g] = held[g]
  BY DEF TypeOK
<1>3. Holding' = Holding \cup {h} /\ h \notin Holding
  BY <1>1, <1>2 DEF Holding
<1>4. \A g \in Holding : held'[g] = held[g]
  BY <1>2, <1>3 DEF Holding
<1>5. HeldCopies' = HeldCopies \cup {c}
  BY <1>2, <1>3, <1>4 DEF HeldCopies
<1>6. QED BY <1>2, <1>3, <1>4, <1>5

\* A handler that is done with its copy was its only holder.
LEMMA HeldRemove ==
  ASSUME TypeOK, NoDuplicates, NEW h \in Handlers, held[h] # NoCopy,
         held' = [held EXCEPT ![h] = NoCopy]
  PROVE  /\ Holding' = Holding \ {h}
         /\ h \in Holding
         /\ HeldCopies' = HeldCopies \ {held[h]}
         /\ held[h] \in HeldCopies /\ held[h] \in Copies
         /\ \A g \in Holding' : held'[g] = held[g]
<1>1. held'[h] = NoCopy /\ \A g \in Handlers \ {h} : held'[g] = held[g]
  BY DEF TypeOK
<1>2. Holding' = Holding \ {h} /\ h \in Holding
  BY <1>1 DEF Holding
<1>3. \A g \in Holding' : held'[g] = held[g]
  BY <1>1, <1>2 DEF Holding
<1>4. \A g \in Holding' : held[g] # held[h]
  BY <1>2 DEF NoDuplicates
<1>5. HeldCopies' = HeldCopies \ {held[h]}
  BY <1>2, <1>3, <1>4 DEF HeldCopies
<1>6. held[h] \in HeldCopies /\ held[h] \in Copies
  BY <1>2 DEF HeldCopies, TypeOK
<1>7. QED BY <1>2, <1>3, <1>5, <1>6

\* Nothing is in the link at the start.
LEMMA InitConservation == Init => Conservation
<1> SUFFICES ASSUME Init PROVE Conservation
  OBVIOUS
<1>1. /\ Range(queue) = {} /\ Range(retryQueue) = {} /\ acked = {} /\ dropped = {}
      /\ \A s \in SubIds : inflight[s] = <<>> /\ Range(inflight[s]) = {}
      /\ handedBack = FALSE
  BY DEF Init, Range
<1>2. IsInjective(queue) /\ IsInjective(retryQueue)
      /\ \A s \in SubIds : IsInjective(inflight[s])
  BY DEF Init, IsInjective
<1>3. Holding = {} /\ HeldCopies = {} /\ Entered = {}
  BY DEF Init, Holding, HeldCopies, Entered
<1>4. WaitingCopies = {} /\ \A s \in SubIds : InflightCopies(s) = {}
  BY <1>1, <1>3 DEF WaitingCopies, InflightCopies
<1>5. NoDuplicates
  BY <1>2, <1>3 DEF NoDuplicates
<1>6. OnePlace
  BY <1>1, <1>3, <1>4 DEF OnePlace
<1>7. NoneForgotten
  BY <1>1, <1>3, <1>4 DEF NoneForgotten
<1>8. QED BY <1>5, <1>6, <1>7 DEF Conservation

\* Publish puts a new copy into the fresh channel.
LEMMA EnqueueConservation ==
  ASSUME TypeInv, Conservation, NEW c \in Copies, PublishEnqueue(c)
  PROVE  Conservation'
<1> USE DEF Conservation, historyVars, nextVars, closeVars
<1>1. Entered' = Entered \cup {c} /\ c \notin Entered
  BY DEF PublishEnqueue, Entered, TypeInv, TypeOK
<1>2. c \notin WaitingCopies /\ c \notin acked /\ c \notin dropped
      /\ \A s \in SubIds : c \notin InflightCopies(s)
  BY <1>1 DEF NoneForgotten
<1>3. c \notin Range(queue)
  BY <1>2 DEF WaitingCopies
<1>4. IsInjective(queue') /\ Range(queue') = Range(queue) \cup {c}
  BY <1>3, AppendNew DEF PublishEnqueue, TypeInv, TypeOK, NoDuplicates
<1>5. /\ retryQueue' = retryQueue /\ held' = held /\ inflight' = inflight
      /\ closing' = closing /\ handedBack' = handedBack
      /\ acked' = acked /\ dropped' = dropped
  BY DEF PublishEnqueue
<1>6. Holding' = Holding /\ HeldCopies' = HeldCopies
  BY <1>5 DEF Holding, HeldCopies
<1>7. \A s \in SubIds : InflightCopies(s)' = InflightCopies(s)
  BY <1>5 DEF InflightCopies
<1>8. WaitingCopies' = WaitingCopies \cup {c}
  BY <1>4, <1>5, <1>6 DEF WaitingCopies
<1>9. NoDuplicates'
  BY <1>4, <1>5, <1>6 DEF NoDuplicates
<1>10. OnePlace'
  BY <1>2, <1>4, <1>5, <1>6, <1>7, <1>8 DEF OnePlace, WaitingCopies
<1>11. NoneForgotten'
  BY <1>1, <1>5, <1>7, <1>8 DEF NoneForgotten
<1>12. QED BY <1>9, <1>10, <1>11

\* Close sends the head of its list to the retry channel: from that moment the
\* copy waits, although it is still on the list.
LEMMA CloseSendConservation ==
  ASSUME TypeInv, Conservation, CloseSend
  PROVE  Conservation'
<1> USE DEF Conservation, historyVars, nextVars, publishVars
<1> DEFINE q == inflight[closing]
           x == Head(q)
<1>1. /\ closing \in SubIds /\ ~handedBack /\ handedBack'
      /\ closing' = closing /\ inflight' = inflight /\ queue' = queue
      /\ held' = held /\ acked' = acked /\ dropped' = dropped /\ stage' = stage
      /\ retryQueue' = Append(retryQueue, x)
  BY DEF CloseSend, TypeInv, TypeOK
<1>2. /\ x \in Copies /\ x \in Range(q) /\ Range(Tail(q)) = Range(q) \ {x}
  BY <1>1, TailOfInjective DEF CloseSend, TypeInv, TypeOK, NoDuplicates
<1>3. InflightCopies(closing) = Range(q) /\ InflightCopies(closing)' = Range(q) \ {x}
  BY <1>1, <1>2 DEF InflightCopies
<1>4. \A s \in SubIds \ {closing} : InflightCopies(s)' = InflightCopies(s)
  BY <1>1 DEF InflightCopies
<1>5. x \notin WaitingCopies /\ x \notin acked /\ x \notin dropped
  BY <1>1, <1>2, <1>3 DEF OnePlace
<1>6. x \notin Range(retryQueue) /\ x \notin Range(queue) /\ x \notin HeldCopies
  BY <1>5 DEF WaitingCopies
<1>7. IsInjective(retryQueue') /\ Range(retryQueue') = Range(retryQueue) \cup {x}
  BY <1>1, <1>2, <1>6, AppendNew DEF TypeInv, TypeOK, NoDuplicates
<1>8. Holding' = Holding /\ HeldCopies' = HeldCopies /\ Entered' = Entered
  BY <1>1 DEF Holding, HeldCopies, Entered
<1>9. WaitingCopies' = WaitingCopies \cup {x}
  BY <1>1, <1>7, <1>8 DEF WaitingCopies
<1>10. \A s \in SubIds \ {closing} : x \notin InflightCopies(s)
  BY <1>1, <1>2, <1>3 DEF OnePlace
<1>11. \A s \in SubIds : InflightCopies(s)' = InflightCopies(s) \ {x}
  <2> TAKE s \in SubIds
  <2>1. CASE s = closing
    BY <1>1, <1>3, <2>1 DEF InflightCopies
  <2>2. CASE s # closing
    <3>1. s \in SubIds \ {closing}
      BY <2>2
    <3>2. InflightCopies(s)' = InflightCopies(s) /\ x \notin InflightCopies(s)
      BY <3>1, <1>4, <1>10
    <3>3. QED BY <3>2
  <2>3. QED BY <2>1, <2>2
<1> HIDE DEF x, q
<1>12. NoDuplicates'
  BY <1>1, <1>7, <1>8 DEF NoDuplicates
<1>13. OnePlace'
  <2>1. Range(queue') \cap Range(retryQueue') = {}
        /\ (Range(queue') \cup Range(retryQueue')) \cap HeldCopies' = {}
    BY <1>1, <1>6, <1>7, <1>8 DEF OnePlace
  <2>2. WaitingCopies' \cap (acked' \cup dropped') = {} /\ acked' \cap dropped' = {}
    BY <1>1, <1>5, <1>9 DEF OnePlace
  <2>3. \A s \in SubIds :
          /\ InflightCopies(s)' \cap (WaitingCopies' \cup acked' \cup dropped') = {}
          /\ \A t \in SubIds \ {s} : InflightCopies(s)' \cap InflightCopies(t)' = {}
    BY <1>1, <1>9, <1>11 DEF OnePlace
  <2>4. QED BY <2>1, <2>2, <2>3 DEF OnePlace
<1>14. NoneForgotten'
  <2>1. closing \in SubIds /\ x \in InflightCopies(closing)
    BY <1>1, <1>2, <1>3
  <2> DEFINE U == UNION {InflightCopies(s) : s \in SubIds}
             V == UNION {InflightCopies(s)' : s \in SubIds}
  <2>2. x \in U
    BY <2>1
  <2>3. V = U \ {x}
    BY <1>11
  <2>4. Entered = WaitingCopies \cup acked \cup dropped \cup U
    BY DEF NoneForgotten
  <2>5. Entered' = WaitingCopies' \cup acked' \cup dropped' \cup V
    <3> HIDE DEF U, V
    <3>1. QED BY <1>1, <1>8, <1>9, <2>2, <2>3, <2>4
  <2>6. QED BY <2>5 DEF NoneForgotten
<1>15. QED BY <1>12, <1>13, <1>14

\* Counting it afterwards moves nothing.
LEMMA CloseCountConservation ==
  ASSUME TypeInv, Conservation, CloseCount
  PROVE  Conservation'
<1> USE DEF Conservation, historyVars, nextVars, publishVars
<1> DEFINE q == inflight[closing]
<1>1. /\ closing \in SubIds /\ handedBack /\ ~handedBack' /\ q # <<>>
      /\ closing' = closing /\ queue' = queue /\ retryQueue' = retryQueue
      /\ held' = held /\ acked' = acked /\ dropped' = dropped /\ stage' = stage
      /\ inflight'[closing] = Tail(q)
      /\ \A s \in SubIds \ {closing} : inflight'[s] = inflight[s]
  BY DEF CloseCount, TypeInv, TypeOK, CloseInv, NoSub
<1>2. IsInjective(Tail(q))
  BY <1>1, TailOfInjective DEF TypeInv, TypeOK, NoDuplicates
<1>3. \A s \in SubIds : InflightCopies(s)' = InflightCopies(s)
  BY <1>1 DEF InflightCopies
<1>4. /\ Holding' = Holding /\ HeldCopies' = HeldCopies /\ Entered' = Entered
      /\ WaitingCopies' = WaitingCopies
  BY <1>1 DEF Holding, HeldCopies, Entered, WaitingCopies
<1>5. NoDuplicates'
  BY <1>1, <1>2, <1>4 DEF NoDuplicates
<1>6. OnePlace'
  BY <1>1, <1>3, <1>4 DEF OnePlace
<1>7. NoneForgotten'
  <2>1. UNION {InflightCopies(s)' : s \in SubIds} = UNION {InflightCopies(s) : s \in SubIds}
    BY <1>3
  <2>2. QED BY <1>1, <1>4, <2>1 DEF NoneForgotten
<1>8. QED BY <1>5, <1>6, <1>7

\* A Next handler takes the head of either channel into its hands.
LEMMA TakeConservation ==
  ASSUME TypeInv, Conservation, NEW h \in Handlers,
         NextFromQueue(h) \/ NextFromRetryQueue(h)
  PROVE  Conservation'
<1> USE DEF Conservation, historyVars, closeVars, publishVars
<1> DEFINE x == held'[h]
<1>1. /\ held[h] = NoCopy /\ inflight' = inflight /\ closing' = closing
      /\ handedBack' = handedBack /\ acked' = acked /\ dropped' = dropped
      /\ stage' = stage
  BY DEF NextFromQueue, NextFromRetryQueue, Polling
<1>2. /\ x \in Copies /\ held' = [held EXCEPT ![h] = x]
      /\ x \in Range(queue) \cup Range(retryQueue)
      /\ IsInjective(queue') /\ IsInjective(retryQueue')
      /\ Range(queue') = Range(queue) \ {x}
      /\ Range(retryQueue') = Range(retryQueue) \ {x}
  <2>1. CASE NextFromQueue(h)
    <3>1. x = Head(queue) /\ held' = [held EXCEPT ![h] = Head(queue)]
      BY <2>1 DEF NextFromQueue, TypeInv, TypeOK
    <3>2. /\ x \in Copies /\ x \in Range(queue) /\ IsInjective(queue')
          /\ Range(queue') = Range(queue) \ {x}
      BY <2>1, <3>1, TailOfInjective DEF NextFromQueue, TypeInv, TypeOK, NoDuplicates
    <3>3. x \notin Range(retryQueue) /\ retryQueue' = retryQueue
      BY <2>1, <3>2 DEF NextFromQueue, OnePlace
    <3>4. QED BY <3>1, <3>2, <3>3 DEF NoDuplicates
  <2>2. CASE NextFromRetryQueue(h)
    <3>1. x = Head(retryQueue) /\ held' = [held EXCEPT ![h] = Head(retryQueue)]
      BY <2>2 DEF NextFromRetryQueue, TypeInv, TypeOK
    <3>2. /\ x \in Copies /\ x \in Range(retryQueue) /\ IsInjective(retryQueue')
          /\ Range(retryQueue') = Range(retryQueue) \ {x}
      BY <2>2, <3>1, TailOfInjective DEF NextFromRetryQueue, TypeInv, TypeOK, NoDuplicates
    <3>3. x \notin Range(queue) /\ queue' = queue
      BY <2>2, <3>2 DEF NextFromRetryQueue, OnePlace
    <3>4. QED BY <3>1, <3>2, <3>3 DEF NoDuplicates
  <2>3. QED BY <2>1, <2>2
<1> HIDE DEF x
<1>3. /\ Holding' = Holding \cup {h} /\ h \notin Holding
      /\ HeldCopies' = HeldCopies \cup {x}
      /\ held'[h] = x /\ \A g \in Holding : held'[g] = held[g]
  BY <1>1, <1>2, HeldAdd DEF TypeInv
<1>4. x \notin HeldCopies
  BY <1>2 DEF OnePlace
<1>5. WaitingCopies' = WaitingCopies
  BY <1>2, <1>3 DEF WaitingCopies
<1>6. Entered' = Entered /\ \A s \in SubIds : InflightCopies(s)' = InflightCopies(s)
  BY <1>1 DEF Entered, InflightCopies
<1>7. NoDuplicates'
  <2>1. \A g \in Holding : held[g] # x
    BY <1>4 DEF HeldCopies
  <2>2. \A g, k \in Holding' : held'[g] = held'[k] => g = k
    BY <1>3, <2>1 DEF NoDuplicates
  <2>3. QED BY <1>1, <1>2, <2>2 DEF NoDuplicates
<1>8. OnePlace'
  BY <1>1, <1>2, <1>3, <1>4, <1>5, <1>6 DEF OnePlace
<1>9. NoneForgotten'
  <2>1. UNION {InflightCopies(s)' : s \in SubIds} = UNION {InflightCopies(s) : s \in SubIds}
    BY <1>6
  <2>2. QED BY <1>1, <1>5, <1>6, <2>1 DEF NoneForgotten
<1>10. QED BY <1>7, <1>8, <1>9

\* While no Close runs, what a subscription holds is its whole list.
LEMMA NoCloseNoLag ==
  ASSUME TypeInv, MutexFree, UNCHANGED closeVars
  PROVE  /\ \A s \in SubIds : InflightCopies(s) = Range(inflight[s])
         /\ \A s \in SubIds : InflightCopies(s)' = Range(inflight'[s])
BY DEF TypeInv, CloseInv, MutexFree, closeVars, InflightCopies

\* setInflight moves the copy from the handler to the list of its subscription.
LEMMA SetInflightConservation ==
  ASSUME TypeInv, Conservation, NEW h \in Handlers, NextSetInflight(h)
  PROVE  Conservation'
<1> USE DEF Conservation, historyVars, publishVars
<1>1. PICK x \in Copies, t \in SubIds : x = held[h] /\ t = waitingOn[h]
  BY DEF NextSetInflight, TypeInv, TypeOK
<1>2. /\ held[h] # NoCopy /\ held' = [held EXCEPT ![h] = NoCopy]
      /\ queue' = queue /\ retryQueue' = retryQueue
      /\ acked' = acked /\ dropped' = dropped /\ stage' = stage
      /\ inflight'[t] = Append(inflight[t], x)
      /\ \A s \in SubIds \ {t} : inflight'[s] = inflight[s]
  BY <1>1 DEF NextSetInflight, TypeInv, TypeOK
<1>3. /\ \A s \in SubIds : InflightCopies(s) = Range(inflight[s])
      /\ \A s \in SubIds : InflightCopies(s)' = Range(inflight'[s])
  BY NoCloseNoLag DEF NextSetInflight
<1>4. /\ Holding' = Holding \ {h}
      /\ HeldCopies' = HeldCopies \ {x} /\ x \in HeldCopies
      /\ \A g \in Holding' : held'[g] = held[g]
  BY <1>1, <1>2, HeldRemove DEF TypeInv
<1>5. /\ x \notin Range(queue) /\ x \notin Range(retryQueue)
      /\ x \in WaitingCopies /\ x \notin acked /\ x \notin dropped
      /\ \A s \in SubIds : x \notin InflightCopies(s)
  BY <1>4 DEF OnePlace, WaitingCopies
<1>6. IsInjective(inflight'[t]) /\ Range(inflight'[t]) = Range(inflight[t]) \cup {x}
  BY <1>2, <1>3, <1>5, AppendNew DEF TypeInv, TypeOK, NoDuplicates
<1>7. WaitingCopies' = WaitingCopies \ {x}
  BY <1>2, <1>4, <1>5 DEF WaitingCopies
<1>8. /\ InflightCopies(t)' = InflightCopies(t) \cup {x}
      /\ \A s \in SubIds \ {t} : InflightCopies(s)' = InflightCopies(s)
  BY <1>2, <1>3, <1>6
<1>9. Entered' = Entered
  BY <1>2 DEF Entered
<1>10. NoDuplicates'
  <2>1. \A s \in SubIds : IsInjective(inflight'[s])
    BY <1>2, <1>6 DEF NoDuplicates
  <2>2. \A g, k \in Holding' : held'[g] = held'[k] => g = k
    BY <1>4 DEF NoDuplicates
  <2>3. QED BY <1>2, <2>1, <2>2 DEF NoDuplicates
<1>11. OnePlace'
  <2>1. Range(queue') \cap Range(retryQueue') = {}
        /\ (Range(queue') \cup Range(retryQueue')) \cap HeldCopies' = {}
    BY <1>2, <1>4 DEF OnePlace
  <2>2. WaitingCopies' \cap (acked' \cup dropped') = {} /\ acked' \cap dropped' = {}
    BY <1>2, <1>7 DEF OnePlace
  <2>3. ASSUME NEW s \in SubIds
        PROVE  InflightCopies(s)' \cap (WaitingCopies' \cup acked' \cup dropped') = {}
    BY <1>2, <1>5, <1>7, <1>8 DEF OnePlace
  <2>4. ASSUME NEW s \in SubIds, NEW r \in SubIds \ {s}
        PROVE  InflightCopies(s)' \cap InflightCopies(r)' = {}
    BY <1>5, <1>8 DEF OnePlace
  <2>5. QED BY <2>1, <2>2, <2>3, <2>4 DEF OnePlace
<1>12. NoneForgotten'
  <2> DEFINE U == UNION {InflightCopies(s) : s \in SubIds}
             V == UNION {InflightCopies(s)' : s \in SubIds}
  <2>1. V = U \cup {x}
    BY <1>8
  <2>2. Entered = WaitingCopies \cup acked \cup dropped \cup U
    BY DEF NoneForgotten
  <2>3. Entered' = WaitingCopies' \cup acked' \cup dropped' \cup V
    <3> HIDE DEF U, V
    <3>1. QED BY <1>2, <1>5, <1>7, <1>9, <2>1, <2>2
  <2>4. QED BY <2>3 DEF NoneForgotten
<1>13. QED BY <1>10, <1>11, <1>12

\* A Next call whose subscription is gone loses the copy it held, and only that.
LEMMA NoLongerFoundConservation ==
  ASSUME TypeInv, Conservation, NEW h \in Handlers, NextNoLongerFound(h)
  PROVE  Conservation'
<1> USE DEF Conservation, closeVars, publishVars
<1>1. PICK x \in Copies : x = held[h]
  BY DEF NextNoLongerFound, TypeInv, TypeOK
<1>2. /\ held[h] # NoCopy /\ held' = [held EXCEPT ![h] = NoCopy]
      /\ queue' = queue /\ retryQueue' = retryQueue
      /\ acked' = acked /\ dropped' = dropped \cup {x} /\ stage' = stage
      /\ inflight' = inflight /\ closing' = closing /\ handedBack' = handedBack
  BY <1>1 DEF NextNoLongerFound
<1>3. /\ Holding' = Holding \ {h}
      /\ HeldCopies' = HeldCopies \ {x} /\ x \in HeldCopies
      /\ \A g \in Holding' : held'[g] = held[g]
  BY <1>1, <1>2, HeldRemove DEF TypeInv
<1>4. /\ x \notin Range(queue) /\ x \notin Range(retryQueue)
      /\ x \in WaitingCopies /\ x \notin acked
      /\ \A s \in SubIds : x \notin InflightCopies(s)
  BY <1>3 DEF OnePlace, WaitingCopies
<1>5. WaitingCopies' = WaitingCopies \ {x}
  BY <1>2, <1>3, <1>4 DEF WaitingCopies
<1>6. Entered' = Entered /\ \A s \in SubIds : InflightCopies(s)' = InflightCopies(s)
  BY <1>2 DEF Entered, InflightCopies
<1>7. NoDuplicates'
  BY <1>2, <1>3 DEF NoDuplicates
<1>8. OnePlace'
  <2>1. Range(queue') \cap Range(retryQueue') = {}
        /\ (Range(queue') \cup Range(retryQueue')) \cap HeldCopies' = {}
    BY <1>2, <1>3 DEF OnePlace
  <2>2. WaitingCopies' \cap (acked' \cup dropped') = {} /\ acked' \cap dropped' = {}
    BY <1>2, <1>4, <1>5 DEF OnePlace
  <2>3. \A s \in SubIds :
          /\ InflightCopies(s)' \cap (WaitingCopies' \cup acked' \cup dropped') = {}
          /\ \A t \in SubIds \ {s} : InflightCopies(s)' \cap InflightCopies(t)' = {}
    BY <1>2, <1>4, <1>5, <1>6 DEF OnePlace
  <2>4. QED BY <2>1, <2>2, <2>3 DEF OnePlace
<1>9. NoneForgotten'
  <2>1. UNION {InflightCopies(s)' : s \in SubIds} = UNION {InflightCopies(s) : s \in SubIds}
    BY <1>6
  <2>2. QED BY <1>2, <1>4, <1>5, <1>6, <2>1 DEF NoneForgotten
<1>10. QED BY <1>7, <1>8, <1>9

\* Ack takes exactly the acknowledged copy off the list of its subscription.
LEMMA AckConservation ==
  ASSUME TypeInv, Conservation, NEW t \in SubIds, NEW v \in Values,
         NEW i \in DOMAIN inflight[t], Ack(t, v, i)
  PROVE  Conservation'
<1> USE DEF Conservation, nextVars, publishVars
<1>1. PICK x \in Copies : x = inflight[t][i]
  BY DEF TypeInv, TypeOK
<1>2. /\ held' = held /\ queue' = queue /\ retryQueue' = retryQueue
      /\ acked' = acked \cup {x} /\ dropped' = dropped /\ stage' = stage
      /\ inflight'[t] = RemoveAt(inflight[t], i)
      /\ \A s \in SubIds \ {t} : inflight'[s] = inflight[s]
  BY <1>1 DEF Ack, TypeInv, TypeOK
<1>3. /\ \A s \in SubIds : InflightCopies(s) = Range(inflight[s])
      /\ \A s \in SubIds : InflightCopies(s)' = Range(inflight'[s])
  BY NoCloseNoLag DEF Ack
<1>4. /\ IsInjective(inflight'[t]) /\ Range(inflight'[t]) = Range(inflight[t]) \ {x}
      /\ x \in Range(inflight[t])
  <2>1. x \in Range(inflight[t])
    BY <1>1 DEF Range
  <2>2. inflight[t] \in Seq(Copies) /\ IsInjective(inflight[t])
    BY DEF TypeInv, TypeOK, NoDuplicates
  <2>3. QED BY <1>1, <1>2, <2>1, <2>2, RemoveAtOfInjective
<1>5. /\ x \in InflightCopies(t) /\ InflightCopies(t)' = InflightCopies(t) \ {x}
      /\ \A s \in SubIds \ {t} : InflightCopies(s)' = InflightCopies(s)
  BY <1>2, <1>3, <1>4
<1>6. /\ x \notin WaitingCopies /\ x \notin acked /\ x \notin dropped
      /\ \A s \in SubIds \ {t} : x \notin InflightCopies(s)
  BY <1>5 DEF OnePlace
<1>7. /\ Holding' = Holding /\ HeldCopies' = HeldCopies
      /\ WaitingCopies' = WaitingCopies /\ Entered' = Entered
  BY <1>2 DEF Holding, HeldCopies, WaitingCopies, Entered
<1>8. NoDuplicates'
  BY <1>2, <1>4, <1>7 DEF NoDuplicates
<1>9. OnePlace'
  <2>1. Range(queue') \cap Range(retryQueue') = {}
        /\ (Range(queue') \cup Range(retryQueue')) \cap HeldCopies' = {}
    BY <1>2, <1>7 DEF OnePlace
  <2>2. WaitingCopies' \cap (acked' \cup dropped') = {} /\ acked' \cap dropped' = {}
    BY <1>2, <1>6, <1>7 DEF OnePlace
  <2>3. ASSUME NEW s \in SubIds
        PROVE  InflightCopies(s)' \cap (WaitingCopies' \cup acked' \cup dropped') = {}
    BY <1>2, <1>5, <1>6, <1>7 DEF OnePlace
  <2>4. ASSUME NEW s \in SubIds, NEW r \in SubIds \ {s}
        PROVE  InflightCopies(s)' \cap InflightCopies(r)' = {}
    BY <1>5 DEF OnePlace
  <2>5. QED BY <2>1, <2>2, <2>3, <2>4 DEF OnePlace
<1>10. NoneForgotten'
  <2> DEFINE U == UNION {InflightCopies(s) : s \in SubIds}
             V == UNION {InflightCopies(s)' : s \in SubIds}
  <2>1. V = U \ {x} /\ x \in U
    BY <1>5, <1>6
  <2>2. Entered = WaitingCopies \cup acked \cup dropped \cup U
    BY DEF NoneForgotten
  <2>3. Entered' = WaitingCopies' \cup acked' \cup dropped' \cup V
    <3> HIDE DEF U, V
    <3>1. QED BY <1>2, <1>7, <2>1, <2>2
  <2>4. QED BY <2>3 DEF NoneForgotten
<1>11. QED BY <1>8, <1>9, <1>10

\* Every step of every handler keeps each accepted copy in exactly one place.
LEMMA NextConservation ==
  ASSUME TypeInv, Conservation, [Next]_vars
  PROVE  Conservation'
<1> USE DEF placeVars, publishVars, publisherVars, subVars, nextVars, closeVars,
            statVars, historyVars
<1>1. ASSUME NEW p \in Publishers, PublisherStep(p) PROVE Conservation'
  <2>1. ASSUME NEW v \in Values, CanPublish(p, v) PROVE Conservation'
    <3>1. Entered' = Entered /\ UNCHANGED placeVars
      BY <2>1 DEF CanPublish, Entered
    <3>2. QED BY <3>1, PlacesUnchanged
  <2>2. ASSUME NEW c \in Copies, PublishSend(p, c) PROVE Conservation'
    <3>1. Entered' = Entered /\ UNCHANGED placeVars
      BY <2>2 DEF PublishSend, Entered, TypeInv, TypeOK
    <3>2. QED BY <3>1, PlacesUnchanged
  <2>3. CASE PublishReply(p) \/ PublishRetry(p) \/ PublishGiveUp(p)
    <3>1. Entered' = Entered /\ UNCHANGED placeVars
      BY <2>3 DEF PublishReply, PublishRetry, PublishGiveUp, Entered
    <3>2. QED BY <3>1, PlacesUnchanged
  <2>4. QED BY <1>1, <2>1, <2>2, <2>3 DEF PublisherStep
<1>2. ASSUME NEW c \in Copies, PublishStep(c) PROVE Conservation'
  <2>1. CASE PublishCount(c) \/ PublishRecordFails(c) \/ PublishCtxDone(c)
    <3>1. Entered' = Entered /\ UNCHANGED placeVars
      BY <2>1 DEF PublishCount, PublishRecordFails, PublishCtxDone, Entered,
                  TypeInv, TypeOK
    <3>2. QED BY <3>1, PlacesUnchanged
  <2>2. CASE PublishEnqueue(c)
    BY <2>2, EnqueueConservation
  <2>3. QED BY <1>2, <2>1, <2>2 DEF PublishStep
<1>3. ASSUME NEW k \in Clients, SubscribeNew(k) PROVE Conservation'
  <2>1. Entered' = Entered /\ UNCHANGED placeVars
    BY <1>3 DEF SubscribeNew, Entered
  <2>2. QED BY <2>1, PlacesUnchanged
<1>4. ASSUME NEW s \in SubIds, SubscriptionStep(s) PROVE Conservation'
  <2>1. ASSUME \/ \E k \in Clients : SubscribeAgain(k, s)
               \/ Ping(s) \/ TTLElapses(s)
               \/ \E v \in Values : AckUnknown(s, v)
        PROVE  Conservation'
    <3>1. Entered' = Entered /\ UNCHANGED placeVars
      BY <2>1 DEF SubscribeAgain, Ping, TTLElapses, AckUnknown, Entered
    <3>2. QED BY <3>1, PlacesUnchanged
  <2>2. CASE CloseBegin(s)
    <3>1. ~handedBack /\ ~handedBack' /\ Entered' = Entered
      BY <2>2 DEF CloseBegin, MutexFree, TypeInv, CloseInv, Entered
    <3>2. QED BY <2>2, <3>1, CloseMarkConservation DEF CloseBegin
  <2>3. ASSUME NEW v \in Values, NEW i \in DOMAIN inflight[s], Ack(s, v, i)
        PROVE  Conservation'
    BY <2>3, AckConservation
  <2>4. QED BY <1>4, <2>1, <2>2, <2>3 DEF SubscriptionStep
<1>5. ASSUME CloseStep PROVE Conservation'
  <2>1. CASE CloseSend
    BY <2>1, CloseSendConservation
  <2>2. CASE CloseCount
    BY <2>2, CloseCountConservation
  <2>3. CASE CloseFails \/ CloseDone
    <3>1. ~handedBack /\ ~handedBack' /\ Entered' = Entered
      BY <2>3 DEF CloseFails, CloseDone, Entered
    <3>2. UNCHANGED <<queue, retryQueue, held, inflight, historyVars>>
      BY <2>3 DEF CloseFails, CloseDone
    <3>3. QED BY <3>1, <3>2, CloseMarkConservation
  <2>4. QED BY <1>5, <2>1, <2>2, <2>3 DEF CloseStep
<1>6. ASSUME NEW h \in Handlers, NextStep(h) PROVE Conservation'
  <2>1. ASSUME (\E s \in SubIds : NextLookup(h, s)) \/ NextTimeout(h)
        PROVE  Conservation'
    <3>1. Entered' = Entered /\ UNCHANGED placeVars
      BY <2>1 DEF NextLookup, NextTimeout, Entered
    <3>2. QED BY <3>1, PlacesUnchanged
  <2>2. CASE NextFromRetryQueue(h) \/ NextFromQueue(h)
    BY <2>2, TakeConservation
  <2>3. CASE NextSetInflight(h)
    BY <2>3, SetInflightConservation
  <2>4. CASE NextNoLongerFound(h)
    BY <2>4, NoLongerFoundConservation
  <2>5. QED BY <1>6, <2>1, <2>2, <2>3, <2>4 DEF NextStep
<1>7. CASE UNCHANGED vars
  <2>1. Entered' = Entered /\ UNCHANGED placeVars
    BY <1>7 DEF vars, Entered
  <2>2. QED BY <2>1, PlacesUnchanged
<1>8. QED BY <1>1, <1>2, <1>3, <1>4, <1>5, <1>6, <1>7 DEF Next

\* The in-memory link never forgets an accepted copy and never has it in two
\* hands: however Publish, Close, Next and Ack interleave, every copy that entered
\* waits in one place, is inflight on one subscription, was acknowledged, or was
\* lost by a Next call.
THEOREM CopiesConserved == Spec => []Conservation
<1>1. Init => TypeInv /\ Conservation
  BY InitTypeInv, InitConservation
<1>2. (TypeInv /\ Conservation) /\ [Next]_vars => (TypeInv /\ Conservation)'
  BY NextTypeInv, NextConservation
<1>3. QED BY <1>1, <1>2, PTL DEF Spec

-----------------------------------------------------------------------------
(* The counter CanPublish decides on.                                      *)

\* Everything that is counted is finite.
LEMMA FiniteCounts ==
  ASSUME TypeOK
  PROVE  /\ IsFiniteSet(Holding) /\ Cardinality(Holding) \in Nat
         /\ IsFiniteSet(Counted) /\ Cardinality(Counted) \in Nat
         /\ IsFiniteSet(Leaked) /\ Cardinality(Leaked) \in Nat
         /\ IsFiniteSet(dropped) /\ Cardinality(dropped) \in Nat
<1>1. /\ Holding \subseteq Handlers /\ Counted \subseteq Copies
      /\ Leaked \subseteq Copies /\ dropped \subseteq Copies
  BY DEF Holding, Counted, Leaked, TypeOK
<1>2. /\ IsFiniteSet(Holding) /\ IsFiniteSet(Counted)
      /\ IsFiniteSet(Leaked) /\ IsFiniteSet(dropped)
  BY <1>1, LinkQueueAssumption, FS_Subset
<1>3. QED BY <1>2, FS_CardinalityType

\* The counter's equation, with the numbers that it adds up.
Numbers ==
  /\ Cardinality(Holding) \in Nat /\ Cardinality(Counted) \in Nat
  /\ Cardinality(Leaked) \in Nat /\ Cardinality(dropped) \in Nat
  /\ Len(queue) \in Nat /\ Len(retryQueue) \in Nat /\ waiting \in Int

LEMMA NumbersOK == TypeOK => Numbers
BY FiniteCounts DEF Numbers, TypeOK

\* The channel lengths and the counter are numbers, before and after a step.
LEMMA LengthsInNat ==
  ASSUME TypeInv, [Next]_vars
  PROVE  /\ Len(queue) \in Nat /\ Len(retryQueue) \in Nat /\ waiting \in Int
         /\ Len(queue') \in Nat /\ Len(retryQueue') \in Nat /\ waiting' \in Int
<1>1. TypeInv'
  BY NextTypeInv
<1>2. QED BY <1>1 DEF TypeInv, TypeOK

\* A step that leaves all the counted sets and the counter alone.
LEMMA CounterUnchanged ==
  ASSUME WaitingCounter, Counted' = Counted, Leaked' = Leaked,
         UNCHANGED <<waiting, handedBack, queue, retryQueue, held, dropped>>
  PROVE  WaitingCounter'
<1>1. Holding' = Holding
  BY DEF Holding
<1>2. QED BY <1>1 DEF WaitingCounter

\* Publish counts a copy, then either queues it or leaks it.
LEMMA PublishCounter ==
  ASSUME TypeInv, WaitingCounter, NEW c \in Copies, PublishStep(c)
  PROVE  WaitingCounter'
<1> USE FiniteCounts DEF TypeInv, TypeOK, WaitingCounter, nextVars, closeVars,
                         statVars, historyVars
<1>1. CASE PublishCount(c)
  <2>1. Counted' = Counted \cup {c} /\ c \notin Counted /\ Leaked' = Leaked
        /\ Holding' = Holding
    BY <1>1 DEF PublishCount, Counted, Leaked, Holding
  <2>2. Cardinality(Counted') = Cardinality(Counted) + 1
    BY <2>1, FS_AddElement
  <2>3. waiting' = waiting + 1
        /\ UNCHANGED <<queue, retryQueue, dropped, handedBack>>
    BY <1>1 DEF PublishCount
  <2>4. WaitingCounter /\ Numbers
    BY NumbersOK
  <2>5. QED BY ONLY SMTT(30), <2>1, <2>2, <2>3, <2>4 DEF WaitingCounter, Numbers
<1>2. CASE PublishRecordFails(c)
  <2>1. Counted' = Counted /\ Leaked' = Leaked
    BY <1>2 DEF PublishRecordFails, Counted, Leaked
  <2>2. QED BY <1>2, <2>1, CounterUnchanged DEF PublishRecordFails
<1>3. CASE PublishEnqueue(c)
  <2>1. Counted' = Counted \ {c} /\ c \in Counted /\ Leaked' = Leaked
        /\ Holding' = Holding
    BY <1>3 DEF PublishEnqueue, Counted, Leaked, Holding
  <2>2. Cardinality(Counted') = Cardinality(Counted) - 1
    BY <2>1, FS_RemoveElement
  <2>3. Len(queue') = Len(queue) + 1
        /\ UNCHANGED <<retryQueue, dropped, handedBack, waiting>>
    BY <1>3 DEF PublishEnqueue
  <2>4. QED BY <2>1, <2>2, <2>3
<1>4. CASE PublishCtxDone(c)
  <2>1. Counted' = Counted \ {c} /\ c \in Counted
        /\ Leaked' = Leaked \cup {c} /\ c \notin Leaked /\ Holding' = Holding
    BY <1>4 DEF PublishCtxDone, Counted, Leaked, Holding
  <2>2. Cardinality(Counted') = Cardinality(Counted) - 1
        /\ Cardinality(Leaked') = Cardinality(Leaked) + 1
    BY <2>1, FS_RemoveElement, FS_AddElement
  <2>3. UNCHANGED <<queue, retryQueue, dropped, handedBack, waiting>>
    BY <1>4 DEF PublishCtxDone
  <2>4. QED BY <2>1, <2>2, <2>3
<1>5. QED BY <1>1, <1>2, <1>3, <1>4 DEF PublishStep

\* Close lags by one between sending a copy back and counting it.
LEMMA CloseCounter ==
  ASSUME TypeInv, WaitingCounter, CloseStep
  PROVE  WaitingCounter'
<1> USE FiniteCounts DEF TypeInv, TypeOK, WaitingCounter, publishVars, nextVars,
                         statVars, historyVars
<1>1. CASE CloseSend
  <2>1. Counted' = Counted /\ Leaked' = Leaked /\ Holding' = Holding
    BY <1>1 DEF CloseSend, Counted, Leaked, Holding
  <2>2. /\ Len(retryQueue') = Len(retryQueue) + 1 /\ ~handedBack /\ handedBack'
        /\ UNCHANGED <<queue, dropped, waiting>>
    BY <1>1 DEF CloseSend
  <2>3. WaitingCounter /\ Numbers
    BY NumbersOK
  <2>4. QED BY ONLY SMTT(30), <2>1, <2>2, <2>3 DEF WaitingCounter, Numbers
<1>2. CASE CloseCount
  <2>1. Counted' = Counted /\ Leaked' = Leaked /\ Holding' = Holding
    BY <1>2 DEF CloseCount, Counted, Leaked, Holding
  <2>2. waiting' = waiting + 1 /\ handedBack /\ ~handedBack'
        /\ UNCHANGED <<queue, retryQueue, dropped>>
    BY <1>2 DEF CloseCount
  <2>3. QED BY <2>1, <2>2
<1>3. CASE CloseFails \/ CloseDone
  <2>1. Counted' = Counted /\ Leaked' = Leaked
    BY <1>3 DEF CloseFails, CloseDone, Counted, Leaked
  <2>2. QED BY <1>3, <2>1, CounterUnchanged DEF CloseFails, CloseDone
<1>4. QED BY <1>1, <1>2, <1>3 DEF CloseStep

\* Next moves a copy from a channel to a handler, and from there to a list.
LEMMA NextCallCounter ==
  ASSUME TypeInv, Conservation, WaitingCounter, NEW h \in Handlers, NextStep(h)
  PROVE  WaitingCounter'
<1> USE FiniteCounts DEF TypeInv, WaitingCounter, publishVars, closeVars,
                         statVars, historyVars
<1>5. [Next]_vars
  BY DEF Next
<1>1. CASE (\E s \in SubIds : NextLookup(h, s)) \/ NextTimeout(h)
  <2>1. Counted' = Counted /\ Leaked' = Leaked
    BY <1>1 DEF NextLookup, NextTimeout, Counted, Leaked
  <2>2. QED BY <1>1, <2>1, CounterUnchanged DEF NextLookup, NextTimeout
<1>2. CASE NextFromRetryQueue(h) \/ NextFromQueue(h)
  <2>1. /\ Counted' = Counted /\ Leaked' = Leaked
        /\ UNCHANGED <<dropped, waiting, handedBack>>
    BY <1>2 DEF NextFromRetryQueue, NextFromQueue, Counted, Leaked
  <2>2. held[h] = NoCopy
    BY <1>2 DEF NextFromRetryQueue, NextFromQueue, Polling
  <2>3. \E x \in Copies : held' = [held EXCEPT ![h] = x]
    BY <1>2, TailOfInjective
       DEF NextFromRetryQueue, NextFromQueue, TypeOK, Conservation, NoDuplicates
  <2>4. Holding' = Holding \cup {h} /\ h \notin Holding
    BY <2>2, <2>3, HeldAdd
  <2>5. Cardinality(Holding') = Cardinality(Holding) + 1
    BY <2>4, FS_AddElement
  <2>6. Len(queue') + Len(retryQueue') = Len(queue) + Len(retryQueue) - 1
    <3>1. CASE NextFromRetryQueue(h)
      <4>1. Len(Tail(retryQueue)) = Len(retryQueue) - 1
        BY <3>1, TailOfInjective
           DEF NextFromRetryQueue, TypeOK, Conservation, NoDuplicates
      <4>2. QED BY <1>5, <3>1, <4>1, LengthsInNat DEF NextFromRetryQueue
    <3>2. CASE NextFromQueue(h)
      <4>1. Len(Tail(queue)) = Len(queue) - 1
        BY <3>2, TailOfInjective
           DEF NextFromQueue, TypeOK, Conservation, NoDuplicates
      <4>2. QED BY <1>5, <3>2, <4>1, LengthsInNat DEF NextFromQueue
    <3>3. QED BY <1>2, <3>1, <3>2
  <2>7. Len(queue') + Len(retryQueue') + Cardinality(Holding')
          = Len(queue) + Len(retryQueue) + Cardinality(Holding)
    <3>1. Len(queue') \in Nat /\ Len(retryQueue') \in Nat
          /\ Len(queue) \in Nat /\ Len(retryQueue) \in Nat
      BY <1>5, LengthsInNat
    <3>2. Cardinality(Holding) \in Nat
      OBVIOUS
    <3> HIDE DEF TypeInv, WaitingCounter
    <3>3. QED BY <2>5, <2>6, <3>1, <3>2
  <2>8. QED BY <2>1, <2>7
<1>3. CASE NextSetInflight(h)
  <2>1. /\ Counted' = Counted /\ Leaked' = Leaked /\ waiting' = waiting - 1
        /\ UNCHANGED <<dropped, queue, retryQueue, handedBack>>
    BY <1>3 DEF NextSetInflight, Counted, Leaked
  <2>2. Holding' = Holding \ {h} /\ h \in Holding
    BY <1>3, HeldRemove DEF NextSetInflight, Conservation
  <2>3. Cardinality(Holding') = Cardinality(Holding) - 1
    BY <2>2, FS_RemoveElement
  <2>4. WaitingCounter /\ Numbers
    BY NumbersOK DEF TypeInv
  <2>5. QED BY ONLY SMTT(30), <2>1, <2>3, <2>4 DEF WaitingCounter, Numbers
<1>4. CASE NextNoLongerFound(h)
  <2>1. /\ Counted' = Counted /\ Leaked' = Leaked
        /\ dropped' = dropped \cup {held[h]}
        /\ UNCHANGED <<queue, retryQueue, handedBack, waiting>>
    BY <1>4 DEF NextNoLongerFound, Counted, Leaked
  <2>2. Holding' = Holding \ {h} /\ h \in Holding /\ held[h] \in HeldCopies
    BY <1>4, HeldRemove DEF NextNoLongerFound, Conservation
  <2>3. held[h] \notin dropped
    BY <2>2 DEF Conservation, OnePlace, WaitingCopies
  <2>4. Cardinality(Holding') = Cardinality(Holding) - 1
        /\ Cardinality(dropped') = Cardinality(dropped) + 1
    BY <2>1, <2>2, <2>3, FS_RemoveElement, FS_AddElement
  <2>5. Cardinality(Holding') + Cardinality(dropped')
          = Cardinality(Holding) + Cardinality(dropped)
    <3>1. Cardinality(Holding) \in Nat /\ Cardinality(dropped) \in Nat
      OBVIOUS
    <3> HIDE DEF TypeInv, WaitingCounter
    <3>2. QED BY <2>4, <3>1
  <2>6. /\ Cardinality(Holding) \in Nat /\ Cardinality(Counted) \in Nat
        /\ Cardinality(Leaked) \in Nat /\ Cardinality(dropped) \in Nat
        /\ Cardinality(Holding') \in Int /\ Cardinality(dropped') \in Nat
    BY <2>4
  <2>7. Len(queue) \in Nat /\ Len(retryQueue) \in Nat /\ waiting \in Int
    BY <1>5, LengthsInNat
  <2> HIDE DEF TypeInv
  <2>8. QED BY SMTT(30), <2>1, <2>5, <2>6, <2>7
<1>6. QED BY <1>1, <1>2, <1>3, <1>4 DEF NextStep

\* Every step keeps the counter exact.
LEMMA NextWaitingCounter ==
  ASSUME TypeInv, Conservation, WaitingCounter, [Next]_vars
  PROVE  WaitingCounter'
<1> USE DEF publisherVars, publishVars, subVars, nextVars, closeVars, statVars,
            historyVars
<1>1. ASSUME NEW p \in Publishers, PublisherStep(p) PROVE WaitingCounter'
  <2>1. Counted' = Counted /\ Leaked' = Leaked
    BY <1>1 DEF PublisherStep, CanPublish, PublishSend, PublishReply,
                PublishRetry, PublishGiveUp, Counted, Leaked, TypeInv, TypeOK
  <2>2. UNCHANGED <<waiting, handedBack, queue, retryQueue, held, dropped>>
    BY <1>1 DEF PublisherStep, CanPublish, PublishSend, PublishReply,
                PublishRetry, PublishGiveUp
  <2>3. QED BY <2>1, <2>2, CounterUnchanged
<1>2. ASSUME NEW k \in Clients, SubscribeNew(k) PROVE WaitingCounter'
  <2>1. Counted' = Counted /\ Leaked' = Leaked
    BY <1>2 DEF SubscribeNew, Counted, Leaked
  <2>2. QED BY <1>2, <2>1, CounterUnchanged DEF SubscribeNew
<1>3. ASSUME NEW s \in SubIds, SubscriptionStep(s) PROVE WaitingCounter'
  <2>1. Counted' = Counted /\ Leaked' = Leaked
    BY <1>3 DEF SubscriptionStep, SubscribeAgain, Ping, TTLElapses, CloseBegin,
                Ack, AckUnknown, Counted, Leaked
  <2>2. UNCHANGED <<waiting, handedBack, queue, retryQueue, held, dropped>>
    BY <1>3 DEF SubscriptionStep, SubscribeAgain, Ping, TTLElapses, CloseBegin,
                Ack, AckUnknown
  <2>3. QED BY <2>1, <2>2, CounterUnchanged
<1>4. CASE UNCHANGED vars
  <2>1. Counted' = Counted /\ Leaked' = Leaked
    BY <1>4 DEF vars, Counted, Leaked
  <2>2. QED BY <1>4, <2>1, CounterUnchanged DEF vars
<1>5. QED BY <1>1, <1>2, <1>3, <1>4, PublishCounter, CloseCounter, NextCallCounter
          DEF Next

\* AnnotatedValuesWaiting is exact for any number of concurrent calls: it counts
\* the copies in the channels and in the handlers, and those that were leaked by
\* Publish or lost by Next, for ever; nothing else makes it drift.
THEOREM WaitingCounterExact == Spec => []WaitingCounter
<1>1. Init => WaitingCounter
  <2> SUFFICES ASSUME Init PROVE WaitingCounter
    OBVIOUS
  <2>1. Holding = {} /\ Counted = {} /\ Leaked = {} /\ dropped = {}
    BY DEF Init, Holding, Counted, Leaked
  <2>2. Cardinality({}) = 0
    BY FS_EmptySet
  <2>3. QED BY <2>1, <2>2 DEF Init, WaitingCounter
<1>2. Init => TypeInv /\ Conservation
  BY InitTypeInv, InitConservation
<1>3. (TypeInv /\ Conservation /\ WaitingCounter) /\ [Next]_vars
        => (TypeInv /\ Conservation /\ WaitingCounter)'
  BY NextTypeInv, NextConservation, NextWaitingCounter
<1>4. QED BY <1>1, <1>2, <1>3, PTL DEF Spec

-----------------------------------------------------------------------------
(* The link implements Delivery.                                           *)

\* A copy has moved only if one of these changed.
SamePlace(c) ==
  /\ stage'[c] = "entered" <=> stage[c] = "entered"
  /\ c \in acked' <=> c \in acked
  /\ c \in dropped' <=> c \in dropped
  /\ \A s \in SubIds : c \in InflightCopies(s)' <=> c \in InflightCopies(s)

\* Then Delivery sees it where it was.
LEMMA SameWhereabouts ==
  ASSUME NEW c \in Copies, SamePlace(c)
  PROVE  Whereabouts(c)' = Whereabouts(c) /\ Holder(c)' = Holder(c)
<1>1. HolderOf(c)' = HolderOf(c)
  BY DEF SamePlace, HolderOf
<1>2. Holder(c)' = Holder(c)
  BY <1>1 DEF Holder
<1>3. Whereabouts(c)' = Whereabouts(c)
  BY <1>1 DEF Whereabouts, SamePlace
<1>4. QED BY <1>2, <1>3

\* A step that moves no copy and leaves the subscriptions alone is invisible.
LEMMA InvisibleStep ==
  ASSUME \A c \in Copies : SamePlace(c), UNCHANGED subVars
  PROVE  UNCHANGED Promise!deliveryVars
<1>1. \A c \in Copies : Whereabouts(c)' = Whereabouts(c) /\ Holder(c)' = Holder(c)
  BY SameWhereabouts
<1>2. QED BY <1>1 DEF Promise!deliveryVars, subVars

\* A step that moves one copy is a Move of Delivery.
LEMMA MoveStep ==
  ASSUME NEW c \in Copies, \A d \in Copies \ {c} : SamePlace(d), UNCHANGED subVars,
         NEW from, NEW to, NEW s,
         Whereabouts(c) = from, Whereabouts(c)' = to, Holder(c)' = s
  PROVE  Promise!Move(c, from, to, s)
<1>1. \A d \in Copies \ {c} : Whereabouts(d)' = Whereabouts(d) /\ Holder(d)' = Holder(d)
  BY SameWhereabouts
<1>2. QED BY <1>1 DEF Promise!Move, subVars

\* Where Delivery sees a copy, and with whom.
Located ==
  \A c \in Copies :
    /\ stage[c] # "entered" => Whereabouts(c) = "new" /\ Holder(c) = NoSub
    /\ c \in acked => Whereabouts(c) = "acked" /\ Holder(c) = NoSub
    /\ c \in dropped => Whereabouts(c) = "lost" /\ Holder(c) = NoSub
    /\ c \in WaitingCopies => Whereabouts(c) = "waiting" /\ Holder(c) = NoSub
    /\ \A s \in SubIds : c \in InflightCopies(s) =>
         Whereabouts(c) = "inflight" /\ Holder(c) = s

\* Each copy is seen where it is, since it is in one place.
LEMMA WhereCopiesAre == TypeInv /\ Conservation => Located
<1> SUFFICES ASSUME TypeInv, Conservation, NEW c \in Copies
             PROVE  /\ stage[c] # "entered" => Whereabouts(c) = "new" /\ Holder(c) = NoSub
                    /\ c \in acked => Whereabouts(c) = "acked" /\ Holder(c) = NoSub
                    /\ c \in dropped => Whereabouts(c) = "lost" /\ Holder(c) = NoSub
                    /\ c \in WaitingCopies => Whereabouts(c) = "waiting" /\ Holder(c) = NoSub
                    /\ \A s \in SubIds : c \in InflightCopies(s) =>
                         Whereabouts(c) = "inflight" /\ Holder(c) = s
  BY DEF Located
<1>1. /\ c \in acked \/ c \in dropped \/ c \in WaitingCopies => stage[c] = "entered"
      /\ \A s \in SubIds : c \in InflightCopies(s) => stage[c] = "entered"
  BY DEF Conservation, NoneForgotten, Entered
<1>2. \A s \in SubIds : c \in InflightCopies(s) =>
        /\ c \notin acked /\ c \notin dropped /\ c \notin WaitingCopies
        /\ \A t \in SubIds : c \in InflightCopies(t) => t = s
  BY DEF Conservation, OnePlace
<1>3. (\A s \in SubIds : c \notin InflightCopies(s)) =>
        HolderOf(c) = {} /\ Holder(c) = NoSub
  BY DEF HolderOf, Holder
<1>4. ASSUME NEW s \in SubIds, c \in InflightCopies(s)
      PROVE  Whereabouts(c) = "inflight" /\ Holder(c) = s
  <2>1. HolderOf(c) = {s}
    BY <1>2, <1>4 DEF HolderOf
  <2>2. Holder(c) = s
    BY <2>1 DEF Holder
  <2>3. Whereabouts(c) = "inflight"
    BY <1>1, <1>2, <1>4, <2>1 DEF Whereabouts
  <2>4. QED BY <2>2, <2>3
<1>5. stage[c] # "entered" => Whereabouts(c) = "new" /\ Holder(c) = NoSub
  BY <1>1, <1>3 DEF Whereabouts
<1>6. c \in acked => Whereabouts(c) = "acked" /\ Holder(c) = NoSub
  BY <1>1, <1>2, <1>3 DEF Whereabouts, Conservation, OnePlace
<1>7. c \in dropped => Whereabouts(c) = "lost" /\ Holder(c) = NoSub
  BY <1>1, <1>2, <1>3 DEF Whereabouts, Conservation, OnePlace
<1>8. c \in WaitingCopies => Whereabouts(c) = "waiting" /\ Holder(c) = NoSub
  BY <1>1, <1>2, <1>3 DEF Whereabouts, Conservation, OnePlace
<1>9. QED BY <1>4, <1>5, <1>6, <1>7, <1>8


\* Subscriptions are numbered from 1; only those that live hold copies, and a Next
\* call waits on one that was created, also while it holds a copy.
SubInv ==
  /\ subscriptions \subseteq 1..lastSubscriptionID
  /\ \A h \in Handlers : waitingOn[h] # NoSub => waitingOn[h] \in 1..lastSubscriptionID
  /\ \A h \in Handlers : held[h] # NoCopy => waitingOn[h] # NoSub
  /\ \A s \in SubIds : inflight[s] # <<>> => s \in subscriptions

\* At first there is no subscription.
LEMMA InitSubInv == Init => SubInv
BY DEF Init, SubInv

\* Every step keeps that.
LEMMA NextSubInv == TypeInv /\ SubInv /\ [Next]_vars => SubInv'
<1> SUFFICES ASSUME TypeInv, SubInv, [Next]_vars PROVE SubInv'
  OBVIOUS
<1> USE DEF SubInv, publishVars, publisherVars, subVars, nextVars, closeVars, statVars,
            historyVars
<1>0. /\ lastSubscriptionID \in Nat /\ waitingOn \in [Handlers -> SubIds \cup {NoSub}]
      /\ held \in [Handlers -> Copies \cup {NoCopy}]
      /\ inflight \in [SubIds -> Seq(Copies)] /\ closing \in subscriptions \cup {NoSub}
      /\ subscriptions \subseteq SubIds /\ SubIds = 1..MaxSubs /\ NoSub \notin SubIds
  BY LinkQueueAssumption DEF TypeInv, TypeOK, SubIds, NoSub
<1>1. ASSUME UNCHANGED <<subscriptions, lastSubscriptionID, waitingOn, held, inflight>>
      PROVE  SubInv'
  BY <1>1
<1>2. ASSUME NEW p \in Publishers, PublisherStep(p) PROVE SubInv'
  BY <1>1, <1>2 DEF PublisherStep, CanPublish, PublishSend, PublishReply, PublishRetry,
                    PublishGiveUp
<1>3. ASSUME NEW c \in Copies, PublishStep(c) PROVE SubInv'
  BY <1>1, <1>3 DEF PublishStep, PublishCount, PublishRecordFails, PublishEnqueue,
                    PublishCtxDone
<1>4. ASSUME NEW k \in Clients, SubscribeNew(k) PROVE SubInv'
  <2>1. /\ lastSubscriptionID' = lastSubscriptionID + 1
        /\ subscriptions' = subscriptions \cup {lastSubscriptionID'}
        /\ waitingOn' = waitingOn /\ held' = held /\ inflight' = inflight
    BY <1>4 DEF SubscribeNew
  <2>2. /\ 1..lastSubscriptionID \subseteq 1..lastSubscriptionID'
        /\ lastSubscriptionID' \in 1..lastSubscriptionID'
    BY <1>0, <2>1
  <2>3. QED BY <2>1, <2>2
<1>5. ASSUME NEW s \in SubIds, SubscriptionStep(s) PROVE SubInv'
  <2>1. ASSUME NEW v \in Values, NEW i \in DOMAIN inflight[s], Ack(s, v, i)
        PROVE  SubInv'
    <3>1. /\ s \in subscriptions
          /\ UNCHANGED <<subscriptions, lastSubscriptionID, waitingOn, held>>
          /\ inflight' = [inflight EXCEPT ![s] = RemoveAt(@, i)]
      BY <2>1 DEF Ack
    <3>2. \A t \in SubIds : t # s => inflight'[t] = inflight[t]
      BY <1>0, <3>1
    <3>3. QED BY <3>1, <3>2
  <2>2. QED BY <1>1, <1>5, <2>1
            DEF SubscriptionStep, SubscribeAgain, Ping, TTLElapses, CloseBegin, AckUnknown
<1>6. ASSUME CloseStep PROVE SubInv'
  <2>1. CASE CloseSend \/ CloseFails
    BY <1>1, <2>1 DEF CloseSend, CloseFails
  <2>2. CASE CloseCount
    <3>1. /\ closing \in subscriptions
          /\ UNCHANGED <<subscriptions, lastSubscriptionID, waitingOn, held>>
          /\ inflight' = [inflight EXCEPT ![closing] = Tail(@)]
      BY <1>0, <2>2 DEF CloseCount, TypeInv, CloseInv
    <3>2. \A t \in SubIds : t # closing => inflight'[t] = inflight[t]
      BY <1>0, <3>1
    <3>3. QED BY <3>1, <3>2
  <2>3. CASE CloseDone
    <3>1. /\ inflight[closing] = <<>> /\ subscriptions' = subscriptions \ {closing}
          /\ UNCHANGED <<lastSubscriptionID, waitingOn, held, inflight>>
      BY <2>3 DEF CloseDone
    <3>2. QED BY <3>1
  <2>4. QED BY <1>6, <2>1, <2>2, <2>3 DEF CloseStep
<1>7. ASSUME NEW h \in Handlers, NextStep(h) PROVE SubInv'
  <2>1. ASSUME NEW s \in SubIds, NextLookup(h, s) PROVE SubInv'
    BY <1>0, <2>1 DEF NextLookup
  <2>2. CASE NextFromRetryQueue(h) \/ NextFromQueue(h)
    <3>1. /\ UNCHANGED <<subscriptions, lastSubscriptionID, waitingOn, inflight>>
          /\ waitingOn[h] # NoSub /\ \A g \in Handlers : g # h => held'[g] = held[g]
      BY <1>0, <2>2 DEF NextFromRetryQueue, NextFromQueue, Polling
    <3>2. QED BY <3>1
  <2>3. CASE NextTimeout(h) \/ NextNoLongerFound(h)
    <3>1. /\ UNCHANGED <<subscriptions, lastSubscriptionID, inflight>>
          /\ waitingOn'[h] = NoSub /\ held'[h] = NoCopy
          /\ \A g \in Handlers : g # h =>
               waitingOn'[g] = waitingOn[g] /\ held'[g] = held[g]
      BY <1>0, <2>3 DEF NextTimeout, NextNoLongerFound, Polling
    <3>2. QED BY <3>1
  <2>4. CASE NextSetInflight(h)
    <3>1. /\ waitingOn[h] \in subscriptions /\ held' = [held EXCEPT ![h] = NoCopy]
          /\ waitingOn' = [waitingOn EXCEPT ![h] = NoSub]
          /\ UNCHANGED <<subscriptions, lastSubscriptionID>>
          /\ inflight' = [inflight EXCEPT ![waitingOn[h]] = Append(@, held[h])]
      BY <2>4 DEF NextSetInflight
    <3>2. \A t \in SubIds : t # waitingOn[h] => inflight'[t] = inflight[t]
      BY <1>0, <3>1
    <3>3. /\ waitingOn'[h] = NoSub /\ held'[h] = NoCopy
          /\ \A g \in Handlers : g # h =>
               waitingOn'[g] = waitingOn[g] /\ held'[g] = held[g]
      BY <1>0, <3>1
    <3>4. QED BY <3>1, <3>2, <3>3
  <2>5. QED BY <1>7, <2>1, <2>2, <2>3, <2>4 DEF NextStep
<1>8. CASE UNCHANGED vars
  BY <1>1, <1>8 DEF vars
<1>9. QED BY <1>2, <1>3, <1>4, <1>5, <1>6, <1>7, <1>8 DEF Next

\* An accepted copy enters the link: Accept.
LEMMA EnqueueIsAccept ==
  ASSUME TypeInv, Located, Located', NEW c \in Copies, PublishEnqueue(c)
  PROVE  Promise!Accept(c)
<1>1. /\ stage[c] = "counted" /\ stage' = [stage EXCEPT ![c] = "entered"]
      /\ queue' = Append(queue, c) /\ UNCHANGED <<subVars, inflight, closing, handedBack>>
      /\ acked' = acked /\ dropped' = dropped
  BY DEF PublishEnqueue, closeVars, historyVars
<1>2. \A d \in Copies \ {c} : SamePlace(d)
  BY <1>1 DEF SamePlace, InflightCopies, TypeInv, TypeOK
<1>3. c \in Range(queue')
  <2>1. queue \in Seq(Copies) /\ Len(queue) \in Nat
    BY DEF TypeInv, TypeOK
  <2>2. Len(queue) + 1 \in DOMAIN queue' /\ queue'[Len(queue) + 1] = c
    BY <1>1, <2>1
  <2>3. QED BY <2>2 DEF Range
<1>4. Whereabouts(c) = "new" /\ Whereabouts(c)' = "waiting" /\ Holder(c)' = NoSub
  BY <1>1, <1>3 DEF Located, WaitingCopies
<1>5. Promise!Move(c, "new", "waiting", NoSub)
  BY <1>1, <1>2, <1>4, MoveStep
<1>6. QED BY <1>5 DEF Promise!Accept

\* setInflight: HandOut.
LEMMA SetInflightIsHandOut ==
  ASSUME TypeInv, Conservation, Located, Located', NEW h \in Handlers, NextSetInflight(h)
  PROVE  \E c \in Copies, s \in SubIds : Promise!HandOut(c, s)
<1>1. PICK c \in Copies, s \in SubIds : c = held[h] /\ s = waitingOn[h]
  BY DEF NextSetInflight, TypeInv, TypeOK
<1>2. /\ s \in subscriptions /\ inflight' = [inflight EXCEPT ![s] = Append(@, c)]
      /\ UNCHANGED <<stage, subVars, acked, dropped, closeVars>> /\ MutexFree
  BY <1>1 DEF NextSetInflight, publishVars, historyVars
<1>3. /\ \A t \in SubIds : InflightCopies(t) = Range(inflight[t])
      /\ \A t \in SubIds : InflightCopies(t)' = Range(inflight'[t])
  BY <1>2, NoCloseNoLag
<1>4. /\ \A t \in SubIds \ {s} : inflight'[t] = inflight[t]
      /\ Range(inflight'[s]) = Range(inflight[s]) \cup {c}
  <2>1. inflight[s] \in Seq(Copies) /\ inflight'[s] = Append(inflight[s], c)
        /\ \A t \in SubIds \ {s} : inflight'[t] = inflight[t]
    BY <1>2 DEF TypeInv, TypeOK
  <2>2. Range(Append(inflight[s], c)) = Range(inflight[s]) \cup {c}
    BY <2>1, AppendElements
  <2>3. QED BY <2>1, <2>2
<1>5. \A d \in Copies \ {c} : SamePlace(d)
  BY <1>2, <1>3, <1>4 DEF SamePlace
<1>6. c \in WaitingCopies /\ c \in InflightCopies(s)'
  BY <1>1, <1>3, <1>4, LinkQueueAssumption DEF WaitingCopies, HeldCopies, Holding
<1>7. Whereabouts(c) = "waiting" /\ Whereabouts(c)' = "inflight" /\ Holder(c)' = s
  BY <1>6 DEF Located
<1>8. Promise!Move(c, "waiting", "inflight", s)
  BY <1>2, <1>5, <1>7, MoveStep
<1>9. QED BY <1>2, <1>8 DEF Promise!HandOut

\* A Next call whose subscription is gone: Lose, after some subscription has ended.
LEMMA NoLongerFoundIsLose ==
  ASSUME TypeInv, SubInv, Located, Located', NEW h \in Handlers, NextNoLongerFound(h)
  PROVE  \E c \in Copies : Promise!Lose(c)
<1>1. PICK c \in Copies : c = held[h]
  BY DEF NextNoLongerFound, TypeInv, TypeOK
<1>2. /\ dropped' = dropped \cup {c} /\ acked' = acked
      /\ UNCHANGED <<stage, subVars, inflight, closing, handedBack>>
      /\ waitingOn[h] \notin subscriptions /\ held[h] # NoCopy
  BY <1>1 DEF NextNoLongerFound, publishVars, closeVars
<1>3. \A d \in Copies \ {c} : SamePlace(d)
  BY <1>2 DEF SamePlace, InflightCopies
<1>4. c \in WaitingCopies /\ c \in dropped'
  BY <1>1, <1>2, LinkQueueAssumption DEF WaitingCopies, HeldCopies, Holding
<1>5. Whereabouts(c) = "waiting" /\ Whereabouts(c)' = "lost" /\ Holder(c)' = NoSub
  BY <1>4 DEF Located
<1>6. Promise!Move(c, "waiting", "lost", NoSub)
  BY <1>2, <1>3, <1>5, MoveStep
<1>7. (1..lastSubscriptionID) \ subscriptions # {}
  BY <1>2 DEF SubInv
<1>8. QED BY <1>6, <1>7 DEF Promise!Lose

\* Ack: Finish.
LEMMA AckIsFinish ==
  ASSUME TypeInv, Conservation, Located, Located', NEW s \in SubIds, NEW v \in Values,
         NEW i \in DOMAIN inflight[s], Ack(s, v, i)
  PROVE  \E c \in Copies : Promise!Finish(c)
<1>1. PICK c \in Copies : c = inflight[s][i]
  BY DEF TypeInv, TypeOK
<1>2. /\ s \in subscriptions /\ inflight' = [inflight EXCEPT ![s] = RemoveAt(@, i)]
      /\ acked' = acked \cup {c} /\ dropped' = dropped
      /\ UNCHANGED <<stage, subVars, closeVars>> /\ MutexFree
  BY <1>1 DEF Ack, publishVars
<1>3. /\ \A t \in SubIds : InflightCopies(t) = Range(inflight[t])
      /\ \A t \in SubIds : InflightCopies(t)' = Range(inflight'[t])
  BY <1>2, NoCloseNoLag
<1>4. /\ \A t \in SubIds \ {s} : inflight'[t] = inflight[t]
      /\ Range(inflight'[s]) = Range(inflight[s]) \ {c} /\ c \in Range(inflight[s])
  <2>1. inflight[s] \in Seq(Copies) /\ inflight'[s] = RemoveAt(inflight[s], i)
        /\ \A t \in SubIds \ {s} : inflight'[t] = inflight[t]
    BY <1>2 DEF TypeInv, TypeOK
  <2>2. IsInjective(inflight[s])
    BY DEF Conservation, NoDuplicates
  <2>3. c \in Range(inflight[s])
    BY <1>1 DEF Range
  <2>4. QED BY <1>1, <2>1, <2>2, <2>3, RemoveAtOfInjective
<1>5. \A d \in Copies \ {c} : SamePlace(d)
  BY <1>2, <1>3, <1>4 DEF SamePlace
<1>6. c \in InflightCopies(s) /\ c \in acked'
  BY <1>2, <1>3, <1>4
<1>7. /\ Whereabouts(c) = "inflight" /\ Holder(c) = s
      /\ Whereabouts(c)' = "acked" /\ Holder(c)' = NoSub
  BY <1>6 DEF Located
<1>8. Promise!Move(c, "inflight", "acked", NoSub)
  BY <1>2, <1>5, <1>7, MoveStep
<1>9. QED BY <1>2, <1>7, <1>8 DEF Promise!Finish

\* Close sends a copy back: GiveBack.
LEMMA CloseSendIsGiveBack ==
  ASSUME TypeInv, Conservation, Located, Located', CloseSend
  PROVE  \E c \in Copies : Promise!GiveBack(c)
<1> DEFINE q == inflight[closing]
<1>1. /\ closing \in subscriptions /\ closing \in SubIds /\ closing' = closing
      /\ q # <<>> /\ ~handedBack /\ handedBack' /\ inflight' = inflight
      /\ retryQueue' = Append(retryQueue, Head(q))
      /\ UNCHANGED <<stage, subVars, acked, dropped>>
  BY DEF CloseSend, publishVars, historyVars, TypeInv, TypeOK
<1>2. q \in Seq(Copies) /\ IsInjective(q)
  BY <1>1 DEF TypeInv, TypeOK, Conservation, NoDuplicates
<1>3. /\ Head(q) \in Copies /\ Head(q) \in Range(q)
      /\ Range(Tail(q)) = Range(q) \ {Head(q)}
  BY <1>1, <1>2, TailOfInjective
<1>4. PICK c \in Copies : c = Head(q)
  BY <1>3
<1>5. /\ InflightCopies(closing) = Range(q) /\ InflightCopies(closing)' = Range(q) \ {c}
      /\ \A t \in SubIds \ {closing} : InflightCopies(t)' = InflightCopies(t)
  BY <1>1, <1>3, <1>4 DEF InflightCopies
<1>6. \A d \in Copies \ {c} : SamePlace(d)
  BY <1>1, <1>5 DEF SamePlace
<1>7. c \in InflightCopies(closing) /\ c \in WaitingCopies'
  <2>1. Range(Append(retryQueue, c)) = Range(retryQueue) \cup {c}
    BY AppendElements DEF TypeInv, TypeOK
  <2>2. QED BY <1>1, <1>3, <1>4, <1>5, <2>1 DEF WaitingCopies
<1>8. /\ Whereabouts(c) = "inflight" /\ Holder(c) = closing
      /\ Whereabouts(c)' = "waiting" /\ Holder(c)' = NoSub
  BY <1>1, <1>7 DEF Located
<1>9. Promise!Move(c, "inflight", "waiting", NoSub)
  BY <1>1, <1>6, <1>8, MoveStep
<1>10. QED BY <1>1, <1>8, <1>9 DEF Promise!GiveBack

\* A Close that is done: End.
LEMMA CloseDoneIsEnd ==
  ASSUME TypeInv, SubInv, CloseDone
  PROVE  Promise!End(closing)
<1>1. /\ closing \in subscriptions /\ closing \in SubIds /\ inflight[closing] = <<>>
      /\ ~handedBack /\ ~handedBack' /\ inflight' = inflight
      /\ subscriptions' = subscriptions \ {closing}
      /\ UNCHANGED <<lastSubscriptionID, stage, acked, dropped>>
  BY DEF CloseDone, publishVars, historyVars, TypeInv, TypeOK
<1>2. \A c \in Copies : SamePlace(c)
  BY <1>1 DEF SamePlace, InflightCopies
<1>3. \A c \in Copies : Whereabouts(c)' = Whereabouts(c) /\ Holder(c)' = Holder(c)
  BY <1>2, SameWhereabouts
<1>4. \A c \in Copies : Holder(c) # closing
  <2> SUFFICES ASSUME NEW c \in Copies PROVE Holder(c) # closing
    OBVIOUS
  <2>1. c \notin InflightCopies(closing)
    BY <1>1 DEF InflightCopies, Range
  <2>2. closing \notin HolderOf(c)
    BY <2>1 DEF HolderOf
  <2>3. closing # NoSub
    BY DEF CloseDone
  <2>4. QED BY <2>2, <2>3 DEF Holder
<1>5. (1..lastSubscriptionID) \ (subscriptions \ {closing})
        = ((1..lastSubscriptionID) \ subscriptions) \cup {closing}
  BY <1>1 DEF SubInv
<1>6. QED BY <1>1, <1>3, <1>4, <1>5 DEF Promise!End

\* A new subscription: Open.
LEMMA SubscribeIsOpen ==
  ASSUME TypeInv, SubInv, NEW k \in Clients, SubscribeNew(k)
  PROVE  \E s \in SubIds : Promise!Open(s)
<1>1. /\ lastSubscriptionID < MaxSubs /\ lastSubscriptionID' = lastSubscriptionID + 1
      /\ subscriptions' = subscriptions \cup {lastSubscriptionID'}
      /\ UNCHANGED <<stage, acked, dropped, inflight, closing, handedBack>>
  BY DEF SubscribeNew, publishVars, historyVars, closeVars
<1>2. PICK s : s = lastSubscriptionID + 1
  OBVIOUS
<1>3. /\ s \in SubIds /\ s \notin 1..lastSubscriptionID
      /\ \A t : t \in 1..(lastSubscriptionID + 1) <=> t \in 1..lastSubscriptionID \/ t = s
  <2>1. lastSubscriptionID \in Nat /\ MaxSubs \in Nat
    BY LinkQueueAssumption DEF TypeInv, TypeOK
  <2>2. QED BY <1>1, <1>2, <2>1 DEF SubIds
<1>4. \A c \in Copies : SamePlace(c)
  BY <1>1 DEF SamePlace, InflightCopies
<1>5. \A c \in Copies : Whereabouts(c)' = Whereabouts(c) /\ Holder(c)' = Holder(c)
  BY <1>4, SameWhereabouts
<1>6. s \notin subscriptions /\ s \notin (1..lastSubscriptionID) \ subscriptions
  BY <1>3 DEF SubInv
<1>7. (1..lastSubscriptionID') \ subscriptions' = (1..lastSubscriptionID) \ subscriptions
  BY <1>1, <1>2, <1>3
<1>8. Promise!Open(s)
  BY <1>1, <1>2, <1>5, <1>6, <1>7 DEF Promise!Open
<1>9. QED BY <1>3, <1>8

\* What Delivery sees changes only with these.
seenVars == <<stage, acked, dropped, inflight, closing, handedBack, subVars>>

\* Every step of the link is a step of Delivery or invisible to it.
LEMMA StepRefines ==
  ASSUME TypeInv, Conservation, SubInv, Located, Located', [Next]_vars
  PROVE  [Promise!DeliveryNext]_(Promise!deliveryVars)
<1> DEFINE Goal == [Promise!DeliveryNext]_(Promise!deliveryVars)
<1>0. ASSUME UNCHANGED subVars, UNCHANGED <<acked, dropped>>,
             \A c \in Copies : stage'[c] = "entered" <=> stage[c] = "entered",
             \A s \in SubIds : InflightCopies(s)' = InflightCopies(s)
      PROVE  Goal
  <2>1. \A c \in Copies : SamePlace(c)
    BY <1>0 DEF SamePlace
  <2>2. QED BY <1>0, <2>1, InvisibleStep
<1>1. ASSUME UNCHANGED seenVars PROVE Goal
  BY <1>0, <1>1 DEF seenVars, InflightCopies
<1> HIDE DEF Goal
<1> USE DEF publishVars, publisherVars, subVars, nextVars, closeVars, statVars,
            historyVars, seenVars
<1>2. ASSUME NEW p \in Publishers, PublisherStep(p) PROVE Goal
  <2>1. ASSUME NEW c \in Copies, PublishSend(p, c) PROVE Goal
    <3>1. /\ stage[c] = "unused" /\ stage' = [stage EXCEPT ![c] = "arriving"]
          /\ UNCHANGED <<acked, dropped, inflight, closing, handedBack, subVars>>
      BY <2>1 DEF PublishSend
    <3>2. \A d \in Copies : stage'[d] = "entered" <=> stage[d] = "entered"
      BY <3>1 DEF TypeInv, TypeOK
    <3>3. QED BY <1>0, <3>1, <3>2 DEF InflightCopies
  <2>2. QED BY <1>1, <1>2, <2>1
            DEF PublisherStep, CanPublish, PublishReply, PublishRetry, PublishGiveUp
<1>3. ASSUME NEW c \in Copies, PublishStep(c) PROVE Goal
  <2>1. CASE PublishEnqueue(c)
    BY <2>1, EnqueueIsAccept DEF Goal, Promise!DeliveryNext
  <2>2. CASE PublishCount(c) \/ PublishRecordFails(c) \/ PublishCtxDone(c)
    <3>1. /\ UNCHANGED <<acked, dropped, inflight, closing, handedBack, subVars>>
          /\ stage[c] # "entered"
          /\ \E st \in {"counted", "failed", "leaked"} : stage' = [stage EXCEPT ![c] = st]
      BY <2>2 DEF PublishCount, PublishRecordFails, PublishCtxDone
    <3>2. \A d \in Copies : stage'[d] = "entered" <=> stage[d] = "entered"
      BY <3>1 DEF TypeInv, TypeOK
    <3>3. QED BY <1>0, <3>1, <3>2 DEF InflightCopies
  <2>3. QED BY <1>3, <2>1, <2>2 DEF PublishStep
<1>4. ASSUME NEW k \in Clients, SubscribeNew(k) PROVE Goal
  BY <1>4, SubscribeIsOpen DEF Goal, Promise!DeliveryNext
<1>5. ASSUME NEW s \in SubIds, SubscriptionStep(s) PROVE Goal
  <2>1. ASSUME NEW v \in Values, NEW i \in DOMAIN inflight[s], Ack(s, v, i) PROVE Goal
    BY <2>1, AckIsFinish DEF Goal, Promise!DeliveryNext
  <2>2. CASE CloseBegin(s)
    <3>1. ~handedBack /\ handedBack' = handedBack /\ inflight' = inflight
          /\ UNCHANGED <<stage, acked, dropped, subVars>>
      BY <2>2 DEF CloseBegin, MutexFree, TypeInv, CloseInv
    <3>2. QED BY <1>0, <3>1 DEF InflightCopies
  <2>3. QED BY <1>1, <1>5, <2>1, <2>2
            DEF SubscriptionStep, SubscribeAgain, Ping, TTLElapses, AckUnknown
<1>6. ASSUME CloseStep PROVE Goal
  <2>1. CASE CloseSend
    BY <2>1, CloseSendIsGiveBack DEF Goal, Promise!DeliveryNext
  <2>2. CASE CloseCount
    <3>1. /\ closing \in SubIds /\ handedBack /\ ~handedBack' /\ closing' = closing
          /\ inflight' = [inflight EXCEPT ![closing] = Tail(@)]
          /\ UNCHANGED <<stage, acked, dropped, subVars>>
      BY <2>2 DEF CloseCount, TypeInv, TypeOK, CloseInv
    <3>2. \A s \in SubIds : InflightCopies(s)' = InflightCopies(s)
      BY <3>1 DEF InflightCopies, TypeInv, TypeOK
    <3>3. QED BY <1>0, <3>1, <3>2
  <2>3. CASE CloseFails
    <3>1. ~handedBack /\ handedBack' = handedBack /\ inflight' = inflight
          /\ UNCHANGED <<stage, acked, dropped, subVars>>
      BY <2>3 DEF CloseFails
    <3>2. QED BY <1>0, <3>1 DEF InflightCopies
  <2>4. CASE CloseDone
    <3>1. closing \in SubIds
      BY <2>4 DEF CloseDone, TypeInv, TypeOK
    <3>2. QED BY <2>4, <3>1, CloseDoneIsEnd DEF Goal, Promise!DeliveryNext
  <2>5. QED BY <1>6, <2>1, <2>2, <2>3, <2>4 DEF CloseStep
<1>7. ASSUME NEW h \in Handlers, NextStep(h) PROVE Goal
  <2>1. CASE NextSetInflight(h)
    BY <2>1, SetInflightIsHandOut DEF Goal, Promise!DeliveryNext
  <2>2. CASE NextNoLongerFound(h)
    BY <2>2, NoLongerFoundIsLose DEF Goal, Promise!DeliveryNext
  <2>3. QED BY <1>1, <1>7, <2>1, <2>2
            DEF NextStep, NextLookup, NextFromRetryQueue, NextFromQueue, NextTimeout
<1>8. ASSUME UNCHANGED vars PROVE Goal
  <2>1. UNCHANGED seenVars
    BY <1>8 DEF vars
  <2>2. QED BY <1>1, <2>1
<1>9. Goal
  BY <1>2, <1>3, <1>4, <1>5, <1>6, <1>7, <1>8 DEF Next
<1>10. QED BY <1>9 DEF Goal

\* At first every copy is new and there is no subscription.
LEMMA InitRefines == Init => Promise!DeliveryInit
<1> SUFFICES ASSUME Init PROVE Promise!DeliveryInit
  OBVIOUS
<1>1. TypeInv /\ Conservation
  BY InitTypeInv, InitConservation
<1>2. Located
  BY <1>1, WhereCopiesAre
<1>3. \A c \in Copies : Whereabouts(c) = "new" /\ Holder(c) = NoSub
  BY <1>2 DEF Init, Located
<1>4. (1..lastSubscriptionID) \ subscriptions = {} /\ subscriptions = {}
  BY DEF Init
<1>5. QED BY <1>3, <1>4 DEF Promise!DeliveryInit

\* The in-memory link implements what Delivery promises about every copy.
THEOREM LinkKeepsPromise == Spec => ImplementsDelivery
<1> DEFINE Inv == TypeInv /\ Conservation /\ SubInv
<1>1. Init => Inv
  BY InitTypeInv, InitConservation, InitSubInv
<1>2. Inv /\ [Next]_vars => Inv'
  BY NextTypeInv, NextConservation, NextSubInv
<1>3. Inv => Located
  BY WhereCopiesAre
<1>4. Inv /\ Located /\ Located' /\ [Next]_vars =>
        [Promise!DeliveryNext]_(Promise!deliveryVars)
  BY StepRefines
<1> HIDE DEF Inv
<1>5. Spec => [](Inv /\ Located)
  BY <1>1, <1>2, <1>3, PTL DEF Spec
<1>6. Spec => Promise!DeliveryInit /\ [][Promise!DeliveryNext]_(Promise!deliveryVars)
  BY <1>4, <1>5, InitRefines, PTL DEF Spec
<1>7. QED BY <1>6 DEF ImplementsDelivery, Promise!DeliverySpec
-----------------------------------------------------------------------------
(* Backpressure.                                                           *)

Arriving == {c \in Copies : stage[c] = "arriving"}

\* Calls on their way that were repeated.
Again == Arriving \cap abandoned

\* Publishers whose present attempt may still add a copy, or who may make a new one.
Pending ==
  {p \in Publishers : /\ value[p] # NoValue
                      /\ call[p] # NoCopy => stage[call[p]] \in {"arriving", "failed"}}

\* Every call on its way is awaited by one publisher, or was repeated.
CallInv ==
  /\ \A p \in Publishers : call[p] # NoCopy =>
       /\ value[p] # NoValue /\ call[p] \notin abandoned /\ stage[call[p]] # "unused"
       /\ \A q \in Publishers : call[q] = call[p] => q = p
  /\ \A c \in Arriving : c \in abandoned \/ \E p \in Publishers : call[p] = c
  /\ \A c \in abandoned : stage[c] # "unused"

\* The copy that Close sent back waits until Close has counted it.
SentBack == handedBack => retryQueue # <<>> \/ Holding # {}

\* The fresh copies and those that may still be added without a new CanPublish.
Room ==
  Len(queue) + Cardinality(Counted) + Cardinality(Pending) + Cardinality(Again)
    < MaxWaiting + Cardinality(Publishers) + Cardinality(abandoned)

BoundInv == CallInv /\ SentBack /\ Room

\* At first nobody publishes.
LEMMA InitBoundInv == Init => BoundInv
<1> SUFFICES ASSUME Init PROVE BoundInv
  OBVIOUS
<1>1. CallInv /\ SentBack
  BY DEF Init, CallInv, SentBack, Arriving
<1>2. Counted = {} /\ Pending = {} /\ Again = {} /\ abandoned = {}
  BY DEF Init, Counted, Pending, Again
<1>3. Cardinality({}) = 0 /\ Cardinality(Publishers) \in Nat /\ MaxWaiting \in Nat \ {0}
  BY FS_EmptySet, FS_CardinalityType, LinkQueueAssumption
<1>4. Len(queue) = 0
  BY DEF Init
<1>5. Room
  BY <1>2, <1>3, <1>4 DEF Room
<1>6. QED BY <1>1, <1>5 DEF BoundInv

\* Every step keeps the calls in order.
LEMMA CallStep == TypeInv /\ CallInv /\ [Next]_vars => CallInv'
<1> SUFFICES ASSUME TypeInv, CallInv, [Next]_vars PROVE CallInv'
  OBVIOUS
<1>0. /\ value \in [Publishers -> Values \cup {NoValue}]
      /\ call \in [Publishers -> Copies \cup {NoCopy}]
      /\ stage \in [Copies -> Stages] /\ abandoned \subseteq Copies
      /\ NoValue \notin Values /\ NoCopy \notin Copies
  BY LinkQueueAssumption DEF TypeInv, TypeOK
<1> USE DEF CallInv, Arriving
<1>1. ASSUME UNCHANGED <<value, call, stage, abandoned>> PROVE CallInv'
  BY <1>1
<1>2. ASSUME NEW p \in Publishers, PublisherStep(p) PROVE CallInv'
  <2>1. ASSUME NEW v \in Values, CanPublish(p, v) PROVE CallInv'
    <3>1. /\ UNCHANGED <<call, stage, abandoned>> /\ value'[p] # NoValue
          /\ \A q \in Publishers : q # p => value'[q] = value[q]
      BY <1>0, <2>1 DEF CanPublish
    <3>2. QED BY <3>1
  <2>2. ASSUME NEW c \in Copies, PublishSend(p, c) PROVE CallInv'
    <3>1. /\ UNCHANGED <<value, abandoned>> /\ value[p] # NoValue /\ stage[c] = "unused"
          /\ call'[p] = c /\ stage'[c] = "arriving" /\ c # NoCopy
          /\ \A q \in Publishers : q # p => call'[q] = call[q]
          /\ \A d \in Copies : d # c => stage'[d] = stage[d]
          /\ call[p] = NoCopy
      BY <1>0, <2>2 DEF PublishSend
    <3>2. c \notin abandoned /\ \A q \in Publishers : call[q] # c
      BY <3>1
    <3>3. \A d \in Copies : stage[d] # "unused" => stage'[d] # "unused"
      BY <3>1
    <3>4. ASSUME NEW q \in Publishers, call'[q] # NoCopy
          PROVE  /\ value'[q] # NoValue /\ call'[q] \notin abandoned'
                 /\ stage'[call'[q]] # "unused"
                 /\ \A r \in Publishers : call'[r] = call'[q] => r = q
      <4>1. CASE q = p
        BY <3>1, <3>2, <4>1
      <4>2. CASE q # p
        BY <1>0, <3>1, <3>2, <3>3, <3>4, <4>2
      <4>3. QED BY <4>1, <4>2
    <3>5. \A d \in Copies : stage'[d] = "arriving" =>
            d \in abandoned' \/ \E q \in Publishers : call'[q] = d
      <4> SUFFICES ASSUME NEW d \in Copies, stage'[d] = "arriving", d \notin abandoned, d # c
                   PROVE  \E q \in Publishers : call'[q] = d
        BY <3>1
      <4>1. PICK q \in Publishers : call[q] = d
        BY <3>1
      <4>2. QED BY <1>0, <3>1, <4>1
    <3>6. \A d \in abandoned' : stage'[d] # "unused"
      BY <1>0, <3>1, <3>3
    <3>7. QED BY <3>4, <3>5, <3>6
  <2>3. CASE PublishReply(p)
    <3>1. /\ UNCHANGED <<abandoned, stage>> /\ call[p] # NoCopy
          /\ stage[call[p]] = "entered" /\ call'[p] = NoCopy
          /\ \A q \in Publishers : q # p => call'[q] = call[q] /\ value'[q] = value[q]
      BY <1>0, <2>3 DEF PublishReply
    <3>2. QED BY <1>0, <3>1
  <2>4. CASE PublishRetry(p)
    <3>1. /\ UNCHANGED <<value, stage>> /\ call[p] # NoCopy /\ call[p] \in Copies
          /\ call'[p] = NoCopy
          /\ \A q \in Publishers : q # p => call'[q] = call[q]
          /\ abandoned \subseteq abandoned' /\ abandoned' \subseteq abandoned \cup {call[p]}
          /\ stage[call[p]] = "arriving" => call[p] \in abandoned'
      BY <1>0, <2>4 DEF PublishRetry
    <3>2. ASSUME NEW q \in Publishers, call'[q] # NoCopy
          PROVE  /\ value'[q] # NoValue /\ call'[q] \notin abandoned'
                 /\ stage'[call'[q]] # "unused"
                 /\ \A r \in Publishers : call'[r] = call'[q] => r = q
      BY <3>1, <3>2
    <3>3. \A d \in Arriving' : d \in abandoned' \/ \E q \in Publishers : call'[q] = d
      BY <3>1
    <3>4. \A d \in abandoned' : stage'[d] # "unused"
      BY <3>1
    <3>5. QED BY <3>2, <3>3, <3>4
  <2>5. CASE PublishGiveUp(p)
    <3>1. /\ UNCHANGED <<abandoned, stage, call>> /\ call[p] = NoCopy
          /\ \A q \in Publishers : q # p => value'[q] = value[q]
      BY <1>0, <2>5 DEF PublishGiveUp
    <3>2. QED BY <3>1
  <2>6. QED BY <1>2, <2>1, <2>2, <2>3, <2>4, <2>5 DEF PublisherStep
<1>3. ASSUME NEW c \in Copies, PublishStep(c) PROVE CallInv'
  <2>1. /\ UNCHANGED <<value, call, abandoned>> /\ stage'[c] \notin {"unused", "arriving"}
        /\ \A d \in Copies : d # c => stage'[d] = stage[d]
    BY <1>0, <1>3 DEF PublishStep, PublishCount, PublishRecordFails, PublishEnqueue,
                      PublishCtxDone, publisherVars
  <2>2. Arriving' \subseteq Arriving /\ \A d \in Copies : stage[d] # "unused" => stage'[d] # "unused"
    BY <2>1
  <2>3. QED BY <1>0, <2>1, <2>2
<1>4. CASE UNCHANGED publishVars
  BY <1>1, <1>4 DEF publishVars, publisherVars
<1>5. QED
  BY <1>2, <1>3, <1>4
     DEF Next, vars, SubscribeNew, SubscriptionStep, SubscribeAgain, Ping, TTLElapses,
         CloseBegin, Ack, AckUnknown, CloseStep, CloseSend, CloseCount, CloseFails,
         CloseDone, NextStep, NextLookup, NextFromRetryQueue, NextFromQueue, NextTimeout,
         NextSetInflight, NextNoLongerFound

\* Every step keeps the copy that Close sent back where it waits.
LEMMA SentBackStep == TypeInv /\ SentBack /\ [Next]_vars => SentBack'
<1> SUFFICES ASSUME TypeInv, SentBack, [Next]_vars PROVE SentBack'
  OBVIOUS
<1>0. held \in [Handlers -> Copies \cup {NoCopy}] /\ retryQueue \in Seq(Copies)
  BY DEF TypeInv, TypeOK
<1>1. ASSUME UNCHANGED <<handedBack, retryQueue, held>> PROVE SentBack'
  BY <1>1 DEF SentBack, Holding
<1>2. CASE CloseSend
  <2>1. retryQueue' # <<>>
    BY <1>0, <1>2 DEF CloseSend
  <2>2. QED BY <2>1 DEF SentBack
<1>3. CASE CloseCount
  BY <1>3 DEF CloseCount, SentBack
<1>4. ASSUME NEW h \in Handlers, NextFromRetryQueue(h) \/ NextFromQueue(h) PROVE SentBack'
  <2>1. \E x \in Copies : held' = [held EXCEPT ![h] = x]
    BY <1>0, <1>4 DEF NextFromRetryQueue, NextFromQueue, TypeInv, TypeOK
  <2>2. held'[h] # NoCopy
    BY <1>0, <2>1, LinkQueueAssumption
  <2>3. h \in Holding'
    BY <2>2 DEF Holding
  <2>4. QED BY <2>3 DEF SentBack
<1>5. ASSUME NEW h \in Handlers, NextSetInflight(h) \/ NextNoLongerFound(h) PROVE SentBack'
  BY <1>5 DEF NextSetInflight, NextNoLongerFound, MutexFree, TypeInv, CloseInv, closeVars,
              SentBack
<1>6. CASE UNCHANGED <<closeVars, retryQueue, held>>
  BY <1>1, <1>6 DEF closeVars
<1>7. CASE CloseFails \/ CloseDone
  BY <1>1, <1>7 DEF CloseFails, CloseDone, nextVars
<1>8. ASSUME NEW s \in SubIds, CloseBegin(s) PROVE SentBack'
  BY <1>1, <1>8 DEF CloseBegin, nextVars
<1>9. QED
  BY <1>2, <1>3, <1>4, <1>5, <1>6, <1>7, <1>8
     DEF Next, vars, PublisherStep, CanPublish, PublishSend, PublishReply, PublishRetry,
         PublishGiveUp, PublishStep, PublishCount, PublishRecordFails, PublishEnqueue,
         PublishCtxDone, SubscribeNew, SubscriptionStep, SubscribeAgain, Ping, TTLElapses,
         Ack, AckUnknown, CloseStep, NextStep, NextLookup, NextTimeout, nextVars

\* The counter that CanPublish reads is no less than the fresh copies.
LEMMA WaitingCovers ==
  ASSUME TypeInv, WaitingCounter, SentBack
  PROVE  Len(queue) + Cardinality(Counted) <= waiting
<1>1. /\ Cardinality(Holding) \in Nat /\ Cardinality(Counted) \in Nat
      /\ Cardinality(Leaked) \in Nat /\ Cardinality(dropped) \in Nat
      /\ Len(queue) \in Nat /\ Len(retryQueue) \in Nat /\ waiting \in Int
  BY NumbersOK DEF TypeInv, Numbers
<1>2. waiting + (IF handedBack THEN 1 ELSE 0)
        = Len(queue) + Len(retryQueue) + Cardinality(Holding)
          + Cardinality(Counted) + Cardinality(Leaked) + Cardinality(dropped)
  BY DEF WaitingCounter
<1>3. CASE ~handedBack
  <2>1. waiting + 0 = Len(queue) + Len(retryQueue) + Cardinality(Holding)
          + Cardinality(Counted) + Cardinality(Leaked) + Cardinality(dropped)
    BY <1>2, <1>3
  <2>2. QED BY <1>1, <2>1
<1>4. CASE handedBack
  <2>1. waiting + 1 = Len(queue) + Len(retryQueue) + Cardinality(Holding)
          + Cardinality(Counted) + Cardinality(Leaked) + Cardinality(dropped)
    BY <1>2, <1>4
  <2>2. Len(retryQueue) # 0 \/ Cardinality(Holding) # 0
    <3>1. retryQueue # <<>> => Len(retryQueue) # 0
      BY DEF TypeInv, TypeOK
    <3>2. Holding # {} => Cardinality(Holding) # 0
      BY FiniteCounts, FS_EmptySet DEF TypeInv
    <3>3. QED BY <1>4, <3>1, <3>2 DEF SentBack
  <2>3. QED BY <1>1, <2>1, <2>2
<1>5. QED BY <1>3, <1>4

\* What Room adds up, and its bounds.
Sizes ==
  /\ IsFiniteSet(Pending) /\ IsFiniteSet(abandoned) /\ IsFiniteSet(Again)
  /\ IsFiniteSet(Counted)
  /\ Len(queue) \in Nat /\ Cardinality(Counted) \in Nat /\ Cardinality(Pending) \in Nat
  /\ Cardinality(Publishers) \in Nat /\ Cardinality(Again) \in Nat
  /\ Cardinality(abandoned) \in Nat /\ MaxWaiting \in Nat \ {0}
  /\ Cardinality(Pending) <= Cardinality(Publishers)
  /\ Cardinality(Again) <= Cardinality(abandoned)

\* They are numbers.
LEMMA RoomNumbers == TypeInv => Sizes
<1> SUFFICES ASSUME TypeInv PROVE Sizes
  OBVIOUS
<1>1. IsFiniteSet(Publishers) /\ IsFiniteSet(Copies) /\ MaxWaiting \in Nat \ {0}
  BY LinkQueueAssumption
<1>2. Pending \subseteq Publishers /\ abandoned \subseteq Copies
      /\ Again \subseteq abandoned
  BY DEF Pending, Again, TypeInv, TypeOK
<1>3. /\ IsFiniteSet(Pending) /\ Cardinality(Pending) <= Cardinality(Publishers)
      /\ IsFiniteSet(abandoned)
  BY <1>1, <1>2, FS_Subset
<1>4. /\ IsFiniteSet(Again)
      /\ Cardinality(Again) <= Cardinality(abandoned)
  BY <1>2, <1>3, FS_Subset
<1>5. /\ IsFiniteSet(Counted) /\ Cardinality(Counted) \in Nat /\ Len(queue) \in Nat
  BY FiniteCounts DEF TypeInv, TypeOK
<1>6. /\ Cardinality(Pending) \in Nat /\ Cardinality(Publishers) \in Nat
      /\ Cardinality(abandoned) \in Nat /\ Cardinality(Again) \in Nat
  BY <1>1, <1>3, <1>4, FS_CardinalityType
<1>7. QED BY <1>1, <1>3, <1>4, <1>5, <1>6 DEF Sizes

\* A step after which no more can be added than before.
LEMMA RoomKept ==
  ASSUME TypeInv, TypeInv', Room, Pending' \subseteq Pending,
         Again' \subseteq Again,
         abandoned' = abandoned,
         Len(queue') + Cardinality(Counted') <= Len(queue) + Cardinality(Counted)
  PROVE  Room'
<1>1. Sizes /\ Sizes'
  <2>1. TypeInv' => Sizes'
    BY RoomNumbers, PTL
  <2>2. QED BY <2>1, RoomNumbers
<1>2. /\ Cardinality(Pending') <= Cardinality(Pending)
      /\ Cardinality(Again') <= Cardinality(Again)
  BY <1>1, FS_Subset DEF Sizes
<1>3. QED BY <1>1, <1>2 DEF Room, Sizes

\* CanPublish reads a counter below the limit, which covers the fresh copies.
LEMMA AllowedRoom ==
  ASSUME TypeInv, TypeInv', WaitingCounter, SentBack,
         NEW p \in Publishers, NEW v \in Values, CanPublish(p, v)
  PROVE  Room'
<1>1. Sizes /\ Sizes'
  <2>1. TypeInv' => Sizes'
    BY RoomNumbers, PTL
  <2>2. QED BY <2>1, RoomNumbers
<1>2. waiting < MaxWaiting /\ waiting \in Int /\ UNCHANGED <<queue, stage>>
  BY DEF CanPublish, publishVars, TypeInv, TypeOK
<1>3. Counted' = Counted
  BY <1>2 DEF Counted
<1>4. Len(queue) + Cardinality(Counted) <= waiting
  BY WaitingCovers
<1>5. QED BY <1>1, <1>2, <1>3, <1>4 DEF Room, Sizes

\* A step that adds no more calls and counted copies than abandoned ones.
LEMMA RoomBalance ==
  ASSUME TypeInv, TypeInv', Room, queue' = queue,
         Cardinality(Counted') + Cardinality(Pending') + Cardinality(Again')
             + Cardinality(abandoned)
           <= Cardinality(Counted) + Cardinality(Pending) + Cardinality(Again)
             + Cardinality(abandoned')
  PROVE  Room'
<1>2. Sizes /\ Sizes'
  <2>1. TypeInv' => Sizes'
    BY RoomNumbers, PTL
  <2>2. QED BY <2>1, RoomNumbers
<1>3. /\ Len(queue) \in Nat /\ Cardinality(Counted) \in Nat /\ Cardinality(Pending) \in Nat
      /\ Cardinality(Again) \in Nat /\ Cardinality(abandoned) \in Nat
      /\ MaxWaiting \in Nat /\ Cardinality(Publishers) \in Nat
  BY <1>2 DEF Sizes
<1>4. /\ Cardinality(Counted') \in Nat /\ Cardinality(Pending') \in Nat
      /\ Cardinality(Again') \in Nat /\ Cardinality(abandoned') \in Nat
  BY <1>2 DEF Sizes
<1> DEFINE q == Len(queue)
           n == Cardinality(Counted)
           m == Cardinality(Pending)
           k == Cardinality(Again)
           a == Cardinality(abandoned)
           n1 == Cardinality(Counted')
           m1 == Cardinality(Pending')
           k1 == Cardinality(Again')
           a1 == Cardinality(abandoned')
           g == Cardinality(Publishers)
<1>5. q + n + m + k < MaxWaiting + g + a /\ n1 + m1 + k1 + a <= n + m + k + a1
  BY DEF Room
<1>6. q + n1 + m1 + k1 < MaxWaiting + g + a1 => Room'
  BY DEF Room
<1>7. /\ q \in Nat /\ n \in Nat /\ m \in Nat /\ k \in Nat /\ a \in Nat /\ g \in Nat
      /\ n1 \in Nat /\ m1 \in Nat /\ k1 \in Nat /\ a1 \in Nat /\ MaxWaiting \in Nat
  BY <1>3, <1>4
<1> HIDE DEF q, n, m, k, a, n1, m1, k1, a1, g
<1>8. q + n1 + m1 + k1 < MaxWaiting + g + a1
  BY <1>5, <1>7
<1>9. QED BY <1>6, <1>8

\* A retry leaves one call behind, counted in abandoned, and may make another.
LEMMA RetryRoom ==
  ASSUME TypeInv, TypeInv', CallInv, Room, NEW p \in Publishers, PublishRetry(p)
  PROVE  Room'
<1> DEFINE c == call[p]
<1>1. Sizes /\ Sizes'
  <2>1. TypeInv' => Sizes'
    BY RoomNumbers, PTL
  <2>2. QED BY <2>1, RoomNumbers
<1>2. /\ UNCHANGED <<queue, stage, value>> /\ Counted' = Counted
      /\ c \in Copies /\ c \notin abandoned /\ value[p] # NoValue
      /\ call'[p] = NoCopy /\ \A q \in Publishers : q # p => call'[q] = call[q]
      /\ abandoned' = IF stage[c] = "failed" THEN abandoned ELSE abandoned \cup {c}
  BY DEF PublishRetry, Counted, CallInv, TypeInv, TypeOK
<1>3. Pending' \subseteq Pending \cup {p}
  BY <1>2 DEF Pending
<1>a. /\ Cardinality(Counted) \in Nat /\ Cardinality(Pending) \in Nat
      /\ Cardinality(Again) \in Nat /\ Cardinality(abandoned) \in Nat
      /\ Cardinality(Pending') \in Nat /\ Cardinality(Again') \in Nat
      /\ Cardinality(abandoned') \in Nat /\ Cardinality(Counted') \in Nat
  BY <1>1 DEF Sizes
<1>4. CASE stage[c] \in {"arriving", "failed"}
  <2>1. p \in Pending
    BY <1>2, <1>4 DEF Pending
  <2>2. Pending' \subseteq Pending
    BY <1>3, <2>1
  <2>3. CASE stage[c] = "failed"
    <3>1. abandoned' = abandoned /\ Again' = Again
      BY <1>2, <2>3 DEF Again, Arriving
    <3>2. QED BY <1>1, <1>2, <2>2, <3>1, RoomKept DEF Sizes
  <2>4. CASE stage[c] = "arriving"
    <3>1. abandoned' = abandoned \cup {c} /\ Again' = Again \cup {c} /\ c \notin Again
      BY <1>2, <2>4 DEF Again, Arriving
    <3>2. /\ Cardinality(abandoned') = Cardinality(abandoned) + 1
          /\ Cardinality(Again') = Cardinality(Again) + 1
      BY <1>1, <1>2, <3>1, FS_AddElement DEF Sizes
    <3>3. Cardinality(Pending') <= Cardinality(Pending)
      BY <1>1, <2>2, FS_Subset DEF Sizes
    <3>4. Cardinality(Counted') = Cardinality(Counted)
      BY <1>2
    <3>5. Cardinality(Counted') + Cardinality(Pending') + Cardinality(Again')
              + Cardinality(abandoned)
            <= Cardinality(Counted) + Cardinality(Pending) + Cardinality(Again)
              + Cardinality(abandoned')
      BY <1>a, <3>2, <3>3, <3>4
    <3>6. QED BY <1>2, <3>5, RoomBalance
  <2>5. QED BY <1>4, <2>3, <2>4
<1>5. CASE stage[c] \notin {"arriving", "failed"}
  <2>1. abandoned' = abandoned \cup {c} /\ Again' = Again
    BY <1>2, <1>5 DEF Again, Arriving
  <2>2. Cardinality(abandoned') = Cardinality(abandoned) + 1
    BY <1>1, <1>2, <2>1, FS_AddElement DEF Sizes
  <2>3. Cardinality(Pending') <= Cardinality(Pending) + 1
    <3>0. IsFiniteSet(Pending) /\ Cardinality(Pending) \in Nat
      BY <1>1 DEF Sizes
    <3>1. IsFiniteSet(Pending \cup {p})
          /\ Cardinality(Pending \cup {p}) <= Cardinality(Pending) + 1
      <4>1. CASE p \in Pending
        <5>1. Pending \cup {p} = Pending
          BY <4>1
        <5>2. QED BY <3>0, <5>1
      <4>2. CASE p \notin Pending
        <5>1. IsFiniteSet(Pending \cup {p})
              /\ Cardinality(Pending \cup {p}) = Cardinality(Pending) + 1
          BY <3>0, <4>2, FS_AddElement
        <5>2. QED BY <3>0, <5>1
      <4>3. QED BY <4>1, <4>2
    <3>2. Cardinality(Pending') <= Cardinality(Pending \cup {p})
      BY <1>3, <3>1, FS_Subset
    <3>3. Cardinality(Pending \cup {p}) \in Nat
      BY <3>1, FS_CardinalityType
    <3>4. QED BY <1>1, <3>1, <3>2, <3>3 DEF Sizes
  <2>4. Cardinality(Counted') = Cardinality(Counted)
        /\ Cardinality(Again') = Cardinality(Again)
    BY <1>2, <2>1
  <2>5. Cardinality(Counted') + Cardinality(Pending') + Cardinality(Again')
            + Cardinality(abandoned)
          <= Cardinality(Counted) + Cardinality(Pending) + Cardinality(Again)
            + Cardinality(abandoned')
    BY <1>a, <2>2, <2>3, <2>4
  <2>6. QED BY <1>2, <2>5, RoomBalance
<1>6. QED BY <1>4, <1>5

\* A call that is counted was on its way: of a waiting publisher, or repeated.
LEMMA CountRoom ==
  ASSUME TypeInv, TypeInv', CallInv, Room, NEW c \in Copies, PublishCount(c)
  PROVE  Room'
<1>1. Sizes /\ Sizes'
  <2>1. TypeInv' => Sizes'
    BY RoomNumbers, PTL
  <2>2. QED BY <2>1, RoomNumbers
<1>2. /\ UNCHANGED <<queue, value, call, abandoned>> /\ c \in Arriving
      /\ stage'[c] = "counted" /\ \A d \in Copies : d # c => stage'[d] = stage[d]
  BY DEF PublishCount, publisherVars, Arriving, TypeInv, TypeOK
<1>3. Counted' = Counted \cup {c} /\ c \notin Counted
  BY <1>2 DEF Counted, Arriving
<1>4. Cardinality(Counted') = Cardinality(Counted) + 1
  BY <1>1, <1>3, FS_AddElement DEF Sizes
<1>5. /\ Again' = Again \ {c}
      /\ Pending' \subseteq Pending \ {p \in Publishers : call[p] = c}
  <2>1. Again' = Again \ {c}
    BY <1>2 DEF Again, Arriving
  <2>2. ASSUME NEW p \in Pending' PROVE p \in Pending /\ call[p] # c
    <3>1. p \in Publishers /\ value[p] # NoValue
          /\ (call[p] # NoCopy => stage'[call[p]] \in {"arriving", "failed"})
      BY <1>2, <2>2 DEF Pending
    <3>2. call[p] # c
      BY <1>2, <3>1, LinkQueueAssumption
    <3>3. call[p] # NoCopy => stage[call[p]] = stage'[call[p]]
      BY <1>2, <3>1, <3>2 DEF TypeInv, TypeOK
    <3>4. QED BY <3>1, <3>2, <3>3 DEF Pending
  <2>3. QED BY <2>1, <2>2
<1>a. /\ Cardinality(Counted) \in Nat /\ Cardinality(Pending) \in Nat
      /\ Cardinality(Again) \in Nat /\ Cardinality(abandoned) \in Nat
      /\ Cardinality(Pending') \in Nat /\ Cardinality(Again') \in Nat
      /\ Cardinality(abandoned') \in Nat /\ Cardinality(Counted') \in Nat
  BY <1>1 DEF Sizes
<1>6. CASE c \in abandoned
  <2>1. c \in Again
    BY <1>2, <1>6 DEF Again
  <2>2. Cardinality(Again') = Cardinality(Again) - 1
    BY <1>1, <1>5, <2>1, FS_RemoveElement DEF Sizes
  <2>3. Cardinality(Pending') <= Cardinality(Pending)
    BY <1>1, <1>5, FS_Subset DEF Sizes
  <2>4. Cardinality(abandoned') = Cardinality(abandoned)
    BY <1>2
  <2>5. Cardinality(Counted') + Cardinality(Pending') + Cardinality(Again')
            + Cardinality(abandoned)
          <= Cardinality(Counted) + Cardinality(Pending) + Cardinality(Again)
            + Cardinality(abandoned')
    BY <1>a, <1>4, <2>2, <2>3, <2>4
  <2>6. QED BY <1>2, <2>5, RoomBalance
<1>7. CASE c \notin abandoned
  <2>1. PICK p \in Publishers : call[p] = c
    BY <1>2, <1>7 DEF CallInv
  <2>2. p \in Pending
    BY <1>2, <2>1, LinkQueueAssumption DEF CallInv, Pending, Arriving
  <2>3. Pending' \subseteq Pending \ {p}
    BY <1>5, <2>1
  <2>4. IsFiniteSet(Pending \ {p}) /\ Cardinality(Pending \ {p}) = Cardinality(Pending) - 1
    BY <1>1, <2>2, FS_RemoveElement DEF Sizes
  <2>5. Cardinality(Pending') <= Cardinality(Pending) - 1
    BY <2>3, <2>4, FS_Subset
  <2>6. Again' = Again
    BY <1>5, <1>7 DEF Again
  <2>7. Cardinality(Again') = Cardinality(Again) /\ Cardinality(abandoned') = Cardinality(abandoned)
    BY <1>2, <2>6
  <2>8. Cardinality(Counted') + Cardinality(Pending') + Cardinality(Again')
            + Cardinality(abandoned)
          <= Cardinality(Counted) + Cardinality(Pending) + Cardinality(Again)
            + Cardinality(abandoned')
    BY <1>a, <1>4, <2>5, <2>7
  <2>9. QED BY <1>2, <2>8, RoomBalance
<1>8. QED BY <1>6, <1>7

\* Every step keeps the room.
LEMMA RoomStep ==
  ASSUME TypeInv, TypeInv', Conservation, WaitingCounter, BoundInv, [Next]_vars
  PROVE  Room'
<1>0. /\ CallInv /\ SentBack /\ Room /\ stage \in [Copies -> Stages]
      /\ call \in [Publishers -> Copies \cup {NoCopy}] /\ queue \in Seq(Copies)
      /\ Sizes /\ NoCopy \notin Copies
  BY RoomNumbers, LinkQueueAssumption DEF BoundInv, TypeInv, TypeOK
<1>1. ASSUME UNCHANGED <<value, call, stage, abandoned>>, Len(queue') <= Len(queue)
      PROVE  Room'
  <2>1. Pending' = Pending /\ Again' = Again /\ Counted' = Counted
    BY <1>1 DEF Pending, Again, Arriving, Counted
  <2>2. Len(queue') \in Nat
    BY DEF TypeInv, TypeOK
  <2>3. Len(queue') + Cardinality(Counted') <= Len(queue) + Cardinality(Counted)
    BY <1>0, <1>1, <2>1, <2>2 DEF Sizes
  <2>4. QED BY <1>0, <1>1, <2>1, <2>3, RoomKept
<1>2. ASSUME NEW p \in Publishers, PublisherStep(p) PROVE Room'
  <2>1. ASSUME NEW v \in Values, CanPublish(p, v) PROVE Room'
    BY <1>0, <2>1, AllowedRoom
  <2>2. ASSUME NEW c \in Copies, PublishSend(p, c) PROVE Room'
    <3>1. /\ UNCHANGED <<value, abandoned, queue>> /\ value[p] # NoValue
          /\ call[p] = NoCopy /\ c \notin abandoned /\ stage[c] = "unused"
          /\ call'[p] = c /\ stage'[c] = "arriving"
          /\ \A q \in Publishers : q # p => call'[q] = call[q]
          /\ \A d \in Copies : d # c => stage'[d] = stage[d]
      BY <1>0, <2>2 DEF PublishSend, CallInv
    <3>2. Again' = Again /\ Counted' = Counted
      BY <3>1 DEF Again, Arriving, Counted
    <3>3. ASSUME NEW q \in Pending' PROVE q \in Pending
      <4>1. q \in Publishers /\ value[q] # NoValue
            /\ (call'[q] # NoCopy => stage'[call'[q]] \in {"arriving", "failed"})
        BY <3>1, <3>3 DEF Pending
      <4>2. CASE q = p
        BY <3>1, <4>2, <4>1 DEF Pending
      <4>3. CASE q # p
        <5>1. call'[q] = call[q] /\ call[q] # c
          BY <1>0, <3>1, <4>1, <4>3 DEF CallInv
        <5>2. call[q] # NoCopy => stage'[call[q]] = stage[call[q]]
          BY <1>0, <3>1, <4>1, <5>1
        <5>3. QED BY <4>1, <5>1, <5>2 DEF Pending
      <4>4. QED BY <4>2, <4>3
    <3>4. Len(queue') + Cardinality(Counted') <= Len(queue) + Cardinality(Counted)
      BY <1>0, <3>1, <3>2 DEF Sizes
    <3>5. QED BY <1>0, <3>1, <3>2, <3>3, <3>4, RoomKept
  <2>3. CASE PublishReply(p) \/ PublishGiveUp(p)
    <3>1. /\ UNCHANGED <<abandoned, stage, queue>> /\ value'[p] = NoValue
          /\ \A q \in Publishers : q # p => call'[q] = call[q] /\ value'[q] = value[q]
      BY <2>3 DEF PublishReply, PublishGiveUp, TypeInv, TypeOK
    <3>2. Again' = Again /\ Counted' = Counted
      BY <3>1 DEF Again, Arriving, Counted
    <3>3. Pending' \subseteq Pending
      BY <3>1 DEF Pending
    <3>4. Len(queue') + Cardinality(Counted') <= Len(queue) + Cardinality(Counted)
      BY <1>0, <3>1, <3>2 DEF Sizes
    <3>5. QED BY <1>0, <3>1, <3>2, <3>3, <3>4, RoomKept
  <2>4. CASE PublishRetry(p)
    BY <1>0, <2>4, RetryRoom
  <2>5. QED BY <1>2, <2>1, <2>2, <2>3, <2>4 DEF PublisherStep
<1>3. ASSUME NEW c \in Copies, PublishStep(c) PROVE Room'
  <2>1. CASE PublishCount(c)
    BY <1>0, <2>1, CountRoom
  <2>2. CASE PublishRecordFails(c) \/ PublishEnqueue(c) \/ PublishCtxDone(c)
    <3>1. /\ UNCHANGED <<value, call, abandoned>> /\ stage[c] \in {"arriving", "counted"}
          /\ stage'[c] = "failed" => stage[c] = "arriving"
          /\ stage'[c] \in {"failed", "entered", "leaked"}
          /\ \A d \in Copies : d # c => stage'[d] = stage[d]
      BY <1>0, <2>2 DEF PublishRecordFails, PublishEnqueue, PublishCtxDone, publisherVars
    <3>2. Again' \subseteq Again
      BY <3>1 DEF Again, Arriving
    <3>3. ASSUME NEW p \in Pending' PROVE p \in Pending
      <4>1. p \in Publishers /\ value[p] # NoValue
            /\ (call[p] # NoCopy => stage'[call[p]] \in {"arriving", "failed"})
        BY <3>1, <3>3 DEF Pending
      <4>2. call[p] # NoCopy => stage[call[p]] \in {"arriving", "failed"}
        BY <1>0, <3>1, <4>1
      <4>3. QED BY <4>1, <4>2 DEF Pending
    <3>4. Len(queue') + Cardinality(Counted') <= Len(queue) + Cardinality(Counted)
      <4>1. CASE PublishRecordFails(c)
        <5>1. Counted' = Counted /\ queue' = queue
          BY <4>1 DEF PublishRecordFails, Counted
        <5>2. QED BY <1>0, <5>1 DEF Sizes
      <4>2. CASE PublishEnqueue(c) \/ PublishCtxDone(c)
        <5>1. /\ Counted' = Counted \ {c} /\ c \in Counted
              /\ queue' = queue \/ queue' = Append(queue, c)
          BY <1>0, <4>2 DEF PublishEnqueue, PublishCtxDone, Counted
        <5>2. Cardinality(Counted') = Cardinality(Counted) - 1
          BY <1>0, <5>1, FS_RemoveElement DEF Sizes
        <5>3. Len(queue') = Len(queue) \/ Len(queue') = Len(queue) + 1
          BY <1>0, <5>1
        <5>4. Len(queue) \in Nat /\ Cardinality(Counted) \in Nat
          BY <1>0 DEF Sizes
        <5>5. QED BY <5>2, <5>3, <5>4
      <4>3. QED BY <2>2, <4>1, <4>2
    <3>5. QED BY <1>0, <3>1, <3>2, <3>3, <3>4, RoomKept
  <2>3. QED BY <1>3, <2>1, <2>2 DEF PublishStep
<1>4. ASSUME UNCHANGED publishVars, queue' = queue PROVE Room'
  BY <1>0, <1>1, <1>4 DEF publishVars, publisherVars, Sizes
<1>5. ASSUME NEW h \in Handlers, NextFromQueue(h) PROVE Room'
  <2>1. UNCHANGED <<value, call, stage, abandoned>> /\ queue # <<>> /\ queue' = Tail(queue)
    BY <1>5 DEF NextFromQueue, publishVars, publisherVars
  <2>2. Len(queue') <= Len(queue)
    BY <1>0, <2>1
  <2>3. QED BY <1>1, <2>1, <2>2
<1>6. QED
  BY <1>2, <1>3, <1>4, <1>5
     DEF Next, vars, SubscribeNew, SubscriptionStep, SubscribeAgain, Ping, TTLElapses,
         CloseBegin, Ack, AckUnknown, CloseStep, CloseSend, CloseCount, CloseFails,
         CloseDone, NextStep, NextLookup, NextFromRetryQueue, NextTimeout,
         NextSetInflight, NextNoLongerFound

\* Whatever calls are repeated and cut off, the fresh queue exceeds the limit by at
\* most the publications in progress and the calls repeated without knowing their
\* outcome.
THEOREM BackpressureHolds == Spec => []BackpressureBound
<1> DEFINE Inv == TypeInv /\ Conservation /\ WaitingCounter /\ BoundInv
<1>1. Spec => [](TypeInv /\ Conservation /\ WaitingCounter)
  <2>1. Spec => [](TypeInv /\ Conservation)
    BY InitTypeInv, InitConservation, NextTypeInv, NextConservation, PTL DEF Spec
  <2>2. QED BY <2>1, WaitingCounterExact, PTL
<1>2. BoundInv /\ (TypeInv /\ Conservation /\ WaitingCounter)
        /\ (TypeInv /\ Conservation /\ WaitingCounter)' /\ [Next]_vars => BoundInv'
  BY CallStep, SentBackStep, RoomStep DEF BoundInv
<1>3. TypeInv /\ BoundInv => BackpressureBound
  <2> SUFFICES ASSUME TypeInv, BoundInv PROVE BackpressureBound
    OBVIOUS
  <2>1. Sizes
    BY RoomNumbers
  <2>2. QED BY <2>1 DEF Sizes, BoundInv, Room, BackpressureBound
<1>4. QED BY <1>1, <1>2, <1>3, InitBoundInv, PTL DEF Spec
=============================================================================
