------------------------------ MODULE LinkQueue ------------------------------
(***************************************************************************)
(* The link agent with the in-memory storage (pkg/agent/link/stub), driven *)
(* by the publication protocol of the upstream task agent                  *)
(* (pkg/agent/task/output_publisher.go, runForOutput).                     *)
(*                                                                         *)
(* Every RPC of the link agent runs in a goroutine of its own.  An action  *)
(* is one stretch of a handler between two points where another goroutine  *)
(* can interfere: the subscriptions mutex, the two channels and the atomic *)
(* counters.  A "copy" is the AnnotatedValue struct that one call of       *)
(* Publish allocates (&av, stub.go:119); a publisher that retries enters   *)
(* several copies of one value, all with the same ID.                      *)
(***************************************************************************)
EXTENDS Integers, FiniteSets, Sequences, Functions, SequencesExt

CONSTANTS Publishers,      \* publications in progress at a time: the Publish
                           \* calls an output publisher serves concurrently
          Values,          \* IDs of annotated values
          Copies,          \* calls of Publish, and the struct each allocates
          Clients,         \* client IDs of the downstream task agents
          Handlers,        \* server goroutines that run a Next call
          MaxSubs,         \* bound: number of subscriptions ever created
          MaxWaiting,      \* maxAnnotatedValuesWaiting
          QueueSize,       \* capacity of queue
          RetryQueueSize,  \* capacity of retryQueue
          NoValue, NoCopy, NoClient

ASSUME LinkQueueAssumption ==
  /\ IsFiniteSet(Publishers) /\ IsFiniteSet(Copies) /\ IsFiniteSet(Handlers)
  /\ MaxSubs \in Nat /\ MaxWaiting \in Nat \ {0}
  /\ QueueSize \in Nat /\ RetryQueueSize \in Nat
  /\ NoValue \notin Values /\ NoCopy \notin Copies /\ NoClient \notin Clients

SubIds == 1..MaxSubs
NoSub == 0

VARIABLES
  value,         \* value[p]: the value p is publishing, NoValue when idle
  call,          \* call[p]: the Publish call p waits for
  abandoned,     \* calls repeated without knowing their outcome (history)
  stage,         \* stage[c]: how far Publish call c has come
  valueOf,       \* valueOf[c]: the ID in copy c
  queue,         \* the channel of fresh copies
  retryQueue,    \* the channel of copies given back by Close
  subscriptions, \* IDs of the live subscriptions
  lastSubscriptionID,
  clientOf,      \* clientOf[s]: the client that created s
  inflight,      \* inflight[s]: copies returned by Next, not acknowledged
  expired,       \* subscriptions whose expiresAt has passed
  waitingOn,     \* waitingOn[h]: subscription of the Next call run by h
  held,          \* held[h]: copy that h took from a channel
  closing,       \* subscription being closed; Close holds the mutex
  handedBack,    \* Close has sent the first inflight copy, not yet counted it
  waiting, inProgress, acknowledged,  \* the counters of LinkStatistics
  acked, dropped \* copies acknowledged, copies a Next call lost (history)

publisherVars == <<value, call, abandoned>>
publishVars == <<publisherVars, stage, valueOf>>
subVars == <<subscriptions, lastSubscriptionID, clientOf>>
nextVars == <<waitingOn, held>>
closeVars == <<closing, handedBack>>
statVars == <<waiting, inProgress, acknowledged>>
historyVars == <<acked, dropped>>
vars == <<publishVars, queue, retryQueue, subVars, inflight, expired,
          nextVars, closeVars, statVars, historyVars>>

Stages == {"unused", "arriving", "counted", "failed", "leaked", "entered"}

Init ==
  /\ value = [p \in Publishers |-> NoValue]
  /\ call = [p \in Publishers |-> NoCopy]
  /\ abandoned = {}
  /\ stage = [c \in Copies |-> "unused"]
  /\ valueOf = [c \in Copies |-> NoValue]
  /\ queue = <<>>
  /\ retryQueue = <<>>
  /\ subscriptions = {}
  /\ lastSubscriptionID = 0
  /\ clientOf = [s \in SubIds |-> NoClient]
  /\ inflight = [s \in SubIds |-> <<>>]
  /\ expired = {}
  /\ waitingOn = [h \in Handlers |-> NoSub]
  /\ held = [h \in Handlers |-> NoCopy]
  /\ closing = NoSub
  /\ handedBack = FALSE
  /\ waiting = 0
  /\ inProgress = 0
  /\ acknowledged = 0
  /\ acked = {}
  /\ dropped = {}

-----------------------------------------------------------------------------
(* A publication: what runForOutput does on one link for one value.        *)

\* A value gets a unique ID before it is published (uniuri.New).
Fresh(v) == v \notin Range(value) /\ v \notin Range(valueOf)

\* Mutant: one value too many is allowed.
CanPublishAtLimit(p, v) ==
  /\ value[p] = NoValue
  /\ waiting <= MaxWaiting
  /\ Fresh(v)
  /\ value' = [value EXCEPT ![p] = v]
  /\ UNCHANGED <<call, abandoned, stage, valueOf, queue, retryQueue, subVars,
                 inflight, expired, nextVars, closeVars, statVars, historyVars>>

\* The link allows publication; the caller goes on to publish a new value.
CanPublish(p, v) ==
  /\ value[p] = NoValue
  /\ waiting < MaxWaiting
  /\ Fresh(v)
  /\ value' = [value EXCEPT ![p] = v]
  /\ UNCHANGED <<call, abandoned, stage, valueOf, queue, retryQueue, subVars,
                 inflight, expired, nextVars, closeVars, statVars, historyVars>>

\* One attempt of the retry loop: the request reaches the link agent.
PublishSend(p, c) ==
  /\ value[p] # NoValue /\ call[p] = NoCopy
  /\ stage[c] = "unused"
  /\ call' = [call EXCEPT ![p] = c]
  /\ stage' = [stage EXCEPT ![c] = "arriving"]
  /\ valueOf' = [valueOf EXCEPT ![c] = value[p]]
  /\ UNCHANGED <<value, abandoned, queue, retryQueue, subVars, inflight,
                 expired, nextVars, closeVars, statVars, historyVars>>

\* The attempt succeeded; the publisher is ready for its next value.
PublishReply(p) ==
  /\ call[p] # NoCopy
  /\ stage[call[p]] = "entered"
  /\ call' = [call EXCEPT ![p] = NoCopy]
  /\ value' = [value EXCEPT ![p] = NoValue]
  /\ UNCHANGED <<abandoned, stage, valueOf, queue, retryQueue, subVars,
                 inflight, expired, nextVars, closeVars, statVars, historyVars>>

\* The attempt failed, or its deadline passed while the server still works on
\* it or after its reply was sent: the publisher tries again.
PublishRetry(p) ==
  /\ call[p] # NoCopy
  /\ call' = [call EXCEPT ![p] = NoCopy]
  /\ abandoned' = IF stage[call[p]] = "failed"
                    THEN abandoned ELSE abandoned \cup {call[p]}
  /\ UNCHANGED <<value, stage, valueOf, queue, retryQueue, subVars, inflight,
                 expired, nextVars, closeVars, statVars, historyVars>>

\* The retry loop gives up (TimeoutPublishAnnotatedValue): the value is dropped.
PublishGiveUp(p) ==
  /\ value[p] # NoValue /\ call[p] = NoCopy
  /\ value' = [value EXCEPT ![p] = NoValue]
  /\ UNCHANGED <<call, abandoned, stage, valueOf, queue, retryQueue, subVars,
                 inflight, expired, nextVars, closeVars, statVars, historyVars>>

-----------------------------------------------------------------------------
(* Publish, server side.                                                   *)

\* The registry has recorded the value; it is counted before it is queued.
PublishCount(c) ==
  /\ stage[c] = "arriving"
  /\ stage' = [stage EXCEPT ![c] = "counted"]
  /\ waiting' = waiting + 1
  /\ UNCHANGED <<publisherVars, valueOf, queue, retryQueue, subVars, inflight,
                 expired, nextVars, closeVars, inProgress, acknowledged,
                 historyVars>>

\* registry.Record failed: nothing was counted.
PublishRecordFails(c) ==
  /\ stage[c] = "arriving"
  /\ stage' = [stage EXCEPT ![c] = "failed"]
  /\ UNCHANGED <<publisherVars, valueOf, queue, retryQueue, subVars, inflight,
                 expired, nextVars, closeVars, statVars, historyVars>>

PublishEnqueue(c) ==
  /\ stage[c] = "counted"
  /\ Len(queue) < QueueSize
  /\ queue' = Append(queue, c)
  /\ stage' = [stage EXCEPT ![c] = "entered"]
  /\ UNCHANGED <<publisherVars, valueOf, retryQueue, subVars, inflight, expired,
                 nextVars, closeVars, statVars, historyVars>>

\* The select took the ctx.Done branch; the counter is not taken back.
PublishCtxDone(c) ==
  /\ stage[c] = "counted"
  /\ c \in abandoned
  /\ stage' = [stage EXCEPT ![c] = "leaked"]
  /\ UNCHANGED <<publisherVars, valueOf, queue, retryQueue, subVars, inflight,
                 expired, nextVars, closeVars, statVars, historyVars>>

-----------------------------------------------------------------------------
(* Subscriptions.  All but the two channel operations of Next run under    *)
(* subscriptionsMutex, which Close keeps while it hands copies back.       *)

MutexFree == closing = NoSub

\* RenewExpiresAt
Renew(s) == expired' = expired \ {s}

\* An existing subscription of the client is renewed and returned.
SubscribeAgain(k, s) ==
  /\ MutexFree
  /\ s \in subscriptions /\ clientOf[s] = k
  /\ Renew(s)
  /\ UNCHANGED <<publishVars, queue, retryQueue, subVars, inflight, nextVars,
                 closeVars, statVars, historyVars>>

SubscribeNew(k) ==
  /\ MutexFree
  /\ \A s \in subscriptions : clientOf[s] # k
  /\ lastSubscriptionID < MaxSubs
  /\ lastSubscriptionID' = lastSubscriptionID + 1
  /\ subscriptions' = subscriptions \cup {lastSubscriptionID'}
  /\ clientOf' = [clientOf EXCEPT ![lastSubscriptionID'] = k]
  /\ UNCHANGED <<publishVars, queue, retryQueue, inflight, expired, nextVars,
                 closeVars, statVars, historyVars>>

Ping(s) ==
  /\ MutexFree
  /\ s \in subscriptions
  /\ Renew(s)
  /\ UNCHANGED <<publishVars, queue, retryQueue, subVars, inflight, nextVars,
                 closeVars, statVars, historyVars>>

\* subscriptionTTL passes without a call on s.  Nothing in the stub reads
\* expiresAt, so no other action depends on it; only a subscription that still
\* holds copies is of interest.
TTLElapses(s) ==
  /\ s \in subscriptions /\ inflight[s] # <<>>
  /\ expired' = expired \cup {s}
  /\ UNCHANGED <<publishVars, queue, retryQueue, subVars, inflight, nextVars,
                 closeVars, statVars, historyVars>>

-----------------------------------------------------------------------------
(* Close: hands the inflight copies back, one by one.                      *)

\* Mutant: the subscription leaves the list before its copies are handed back.
CloseBeginRemoves(s) ==
  /\ MutexFree
  /\ s \in subscriptions
  /\ closing' = s
  /\ subscriptions' = subscriptions \ {s}
  /\ expired' = expired \ {s}
  /\ UNCHANGED <<publishVars, queue, retryQueue, lastSubscriptionID, clientOf,
                 inflight, nextVars, handedBack, statVars, historyVars>>

CloseBegin(s) ==
  /\ MutexFree
  /\ s \in subscriptions
  /\ closing' = s
  /\ UNCHANGED <<publishVars, queue, retryQueue, subVars, inflight, expired,
                 nextVars, handedBack, statVars, historyVars>>

\* retryQueue <- av.  From here a Next call may already take the copy.
CloseSend ==
  /\ closing # NoSub /\ ~handedBack
  /\ inflight[closing] # <<>>
  /\ Len(retryQueue) < RetryQueueSize
  /\ retryQueue' = Append(retryQueue, Head(inflight[closing]))
  /\ handedBack' = TRUE
  /\ UNCHANGED <<publishVars, queue, subVars, inflight, expired, nextVars,
                 closing, statVars, historyVars>>

\* Mutant: the copy sent back stays on the list.
CloseCountKeeps ==
  /\ handedBack
  /\ handedBack' = FALSE
  /\ inProgress' = inProgress - 1
  /\ waiting' = waiting + 1
  /\ UNCHANGED <<publishVars, queue, retryQueue, subVars, inflight, expired,
                 nextVars, closing, acknowledged, historyVars>>

CloseCount ==
  /\ handedBack
  /\ handedBack' = FALSE
  /\ inflight' = [inflight EXCEPT ![closing] = Tail(@)]
  /\ inProgress' = inProgress - 1
  /\ waiting' = waiting + 1
  /\ UNCHANGED <<publishVars, queue, retryQueue, subVars, expired, nextVars,
                 closing, acknowledged, historyVars>>

\* Mutant: a Close that fails half way drops the subscription all the same.
CloseFailsRemoves ==
  /\ closing # NoSub /\ ~handedBack
  /\ inflight[closing] # <<>>
  /\ subscriptions' = subscriptions \ {closing}
  /\ expired' = expired \ {closing}
  /\ closing' = NoSub
  /\ UNCHANGED <<publishVars, queue, retryQueue, lastSubscriptionID, clientOf,
                 inflight, nextVars, handedBack, statVars, historyVars>>

\* "Retry queue full", or the context ended: what was handed back stays handed
\* back, the rest stays inflight and the subscription stays alive.
CloseFails ==
  /\ closing # NoSub /\ ~handedBack
  /\ inflight[closing] # <<>>
  /\ closing' = NoSub
  /\ UNCHANGED <<publishVars, queue, retryQueue, subVars, inflight, expired,
                 nextVars, handedBack, statVars, historyVars>>

CloseDone ==
  /\ closing # NoSub /\ ~handedBack
  /\ inflight[closing] = <<>>
  /\ subscriptions' = subscriptions \ {closing}
  /\ expired' = expired \ {closing}
  /\ closing' = NoSub
  /\ UNCHANGED <<publishVars, queue, retryQueue, lastSubscriptionID, clientOf,
                 inflight, nextVars, handedBack, statVars, historyVars>>

-----------------------------------------------------------------------------
(* Next: look up under the mutex, select without it, record under it.      *)

Polling(h) == waitingOn[h] # NoSub /\ held[h] = NoCopy

NextLookup(h, s) ==
  /\ MutexFree
  /\ waitingOn[h] = NoSub
  /\ s \in subscriptions
  /\ Renew(s)
  /\ waitingOn' = [waitingOn EXCEPT ![h] = s]
  /\ UNCHANGED <<publishVars, queue, retryQueue, subVars, inflight, held,
                 closeVars, statVars, historyVars>>

NextFromRetryQueue(h) ==
  /\ Polling(h)
  /\ retryQueue # <<>>
  /\ held' = [held EXCEPT ![h] = Head(retryQueue)]
  /\ retryQueue' = Tail(retryQueue)
  /\ UNCHANGED <<publishVars, queue, subVars, inflight, expired, waitingOn,
                 closeVars, statVars, historyVars>>

NextFromQueue(h) ==
  /\ Polling(h)
  /\ queue # <<>>
  /\ held' = [held EXCEPT ![h] = Head(queue)]
  /\ queue' = Tail(queue)
  /\ UNCHANGED <<publishVars, retryQueue, subVars, inflight, expired, waitingOn,
                 closeVars, statVars, historyVars>>

\* waitTimeout passed, or the client cancelled the call.
NextTimeout(h) ==
  /\ Polling(h)
  /\ waitingOn' = [waitingOn EXCEPT ![h] = NoSub]
  /\ UNCHANGED <<publishVars, queue, retryQueue, subVars, inflight, expired,
                 held, closeVars, statVars, historyVars>>

\* Mutant: the copy handed out is still counted as waiting.
NextSetInflightUncounted(h) ==
  /\ MutexFree
  /\ held[h] # NoCopy
  /\ waitingOn[h] \in subscriptions
  /\ Renew(waitingOn[h])
  /\ inflight' = [inflight EXCEPT ![waitingOn[h]] = Append(@, held[h])]
  /\ inProgress' = inProgress + 1
  /\ waitingOn' = [waitingOn EXCEPT ![h] = NoSub]
  /\ held' = [held EXCEPT ![h] = NoCopy]
  /\ UNCHANGED <<publishVars, queue, retryQueue, subVars, closeVars, waiting,
                 acknowledged, historyVars>>

\* setInflight, the subscription is still there.
NextSetInflight(h) ==
  /\ MutexFree
  /\ held[h] # NoCopy
  /\ waitingOn[h] \in subscriptions
  /\ Renew(waitingOn[h])
  /\ inflight' = [inflight EXCEPT ![waitingOn[h]] = Append(@, held[h])]
  /\ inProgress' = inProgress + 1
  /\ waiting' = waiting - 1
  /\ waitingOn' = [waitingOn EXCEPT ![h] = NoSub]
  /\ held' = [held EXCEPT ![h] = NoCopy]
  /\ UNCHANGED <<publishVars, queue, retryQueue, subVars, closeVars,
                 acknowledged, historyVars>>

\* setInflight, "no longer found": the copy is not put back anywhere.
NextNoLongerFound(h) ==
  /\ MutexFree
  /\ held[h] # NoCopy
  /\ waitingOn[h] \notin subscriptions
  /\ dropped' = dropped \cup {held[h]}
  /\ waitingOn' = [waitingOn EXCEPT ![h] = NoSub]
  /\ held' = [held EXCEPT ![h] = NoCopy]
  /\ UNCHANGED <<publishVars, queue, retryQueue, subVars, inflight, expired,
                 closeVars, statVars, acked>>

-----------------------------------------------------------------------------
(* Ack.                                                                    *)

\* i is the position of the first inflight copy of s whose ID is v.
FirstWithID(s, v, i) ==
  /\ i \in DOMAIN inflight[s]
  /\ valueOf[inflight[s][i]] = v
  /\ \A j \in 1..(i - 1) : valueOf[inflight[s][j]] # v

Ack(s, v, i) ==
  /\ MutexFree
  /\ s \in subscriptions
  /\ FirstWithID(s, v, i)
  /\ Renew(s)
  /\ inflight' = [inflight EXCEPT ![s] = RemoveAt(@, i)]
  /\ inProgress' = inProgress - 1
  /\ acknowledged' = acknowledged + 1
  /\ acked' = acked \cup {inflight[s][i]}
  /\ UNCHANGED <<publishVars, queue, retryQueue, subVars, nextVars, closeVars,
                 waiting, dropped>>

\* "does not have inflight annotated value": only the lease is renewed.
AckUnknown(s, v) ==
  /\ MutexFree
  /\ s \in subscriptions
  /\ \A i \in DOMAIN inflight[s] : valueOf[inflight[s][i]] # v
  /\ Renew(s)
  /\ UNCHANGED <<publishVars, queue, retryQueue, subVars, inflight, nextVars,
                 closeVars, statVars, historyVars>>

-----------------------------------------------------------------------------
PublisherStep(p) ==
  \/ \E v \in Values : CanPublish(p, v)
  \/ \E c \in Copies : PublishSend(p, c)
  \/ PublishReply(p)
  \/ PublishRetry(p)
  \/ PublishGiveUp(p)

PublishStep(c) ==
  \/ PublishCount(c)
  \/ PublishRecordFails(c)
  \/ PublishEnqueue(c)
  \/ PublishCtxDone(c)

SubscriptionStep(s) ==
  \/ \E k \in Clients : SubscribeAgain(k, s)
  \/ Ping(s)
  \/ TTLElapses(s)
  \/ CloseBegin(s)
  \/ \E v \in Values, i \in DOMAIN inflight[s] : Ack(s, v, i)
  \/ \E v \in Values : AckUnknown(s, v)

CloseStep == CloseSend \/ CloseCount \/ CloseFails \/ CloseDone

NextStep(h) ==
  \/ \E s \in SubIds : NextLookup(h, s)
  \/ NextFromRetryQueue(h)
  \/ NextFromQueue(h)
  \/ NextTimeout(h)
  \/ NextSetInflight(h)
  \/ NextNoLongerFound(h)

Next ==
  \/ \E p \in Publishers : PublisherStep(p)
  \/ \E c \in Copies : PublishStep(c)
  \/ \E k \in Clients : SubscribeNew(k)
  \/ \E s \in SubIds : SubscriptionStep(s)
  \/ CloseStep
  \/ \E h \in Handlers : NextStep(h)

Spec == Init /\ [][Next]_vars

-----------------------------------------------------------------------------
(* Properties.                                                             *)

TypeOK ==
  /\ value \in [Publishers -> Values \cup {NoValue}]
  /\ call \in [Publishers -> Copies \cup {NoCopy}]
  /\ abandoned \subseteq Copies
  /\ stage \in [Copies -> Stages]
  /\ valueOf \in [Copies -> Values \cup {NoValue}]
  /\ queue \in Seq(Copies) /\ retryQueue \in Seq(Copies)
  /\ subscriptions \subseteq SubIds
  /\ lastSubscriptionID \in 0..MaxSubs
  /\ clientOf \in [SubIds -> Clients \cup {NoClient}]
  /\ inflight \in [SubIds -> Seq(Copies)]
  /\ expired \subseteq subscriptions
  /\ waitingOn \in [Handlers -> SubIds \cup {NoSub}]
  /\ held \in [Handlers -> Copies \cup {NoCopy}]
  /\ closing \in subscriptions \cup {NoSub}
  /\ handedBack \in BOOLEAN
  /\ waiting \in Int /\ inProgress \in Int /\ acknowledged \in Int
  /\ acked \subseteq Copies /\ dropped \subseteq Copies

Holding == {h \in Handlers : held[h] # NoCopy}
HeldCopies == {held[h] : h \in Holding}

\* The copies of inflight[s], without the one that Close has just sent to
\* retryQueue but not yet taken off the list.
InflightCopies(s) ==
  Range(IF handedBack /\ s = closing THEN Tail(inflight[s]) ELSE inflight[s])

WaitingCopies == Range(queue) \cup Range(retryQueue) \cup HeldCopies
Entered == {c \in Copies : stage[c] = "entered"}

NoDuplicates ==
  /\ IsInjective(queue)
  /\ IsInjective(retryQueue)
  /\ \A s \in SubIds : IsInjective(inflight[s])
  /\ \A g, h \in Holding : held[g] = held[h] => g = h

OnePlace ==
  /\ Range(queue) \cap Range(retryQueue) = {}
  /\ (Range(queue) \cup Range(retryQueue)) \cap HeldCopies = {}
  /\ \A s \in SubIds :
       /\ InflightCopies(s) \cap (WaitingCopies \cup acked \cup dropped) = {}
       /\ \A t \in SubIds \ {s} : InflightCopies(s) \cap InflightCopies(t) = {}
  /\ WaitingCopies \cap (acked \cup dropped) = {}
  /\ acked \cap dropped = {}

NoneForgotten ==
  Entered = WaitingCopies \cup acked \cup dropped
              \cup UNION {InflightCopies(s) : s \in SubIds}

\* An accepted copy is never forgotten and never in two hands: it waits in
\* exactly one channel or Next handler, or it is inflight on exactly one
\* subscription, or it was acknowledged, or a Next call lost it.  (Close moves
\* copies while Next handlers take them from the other end.)
Conservation == NoDuplicates /\ OnePlace /\ NoneForgotten

Counted == {c \in Copies : stage[c] = "counted"}
Leaked == {c \in Copies : stage[c] = "leaked"}

\* AnnotatedValuesWaiting is, at every instant, the number of copies in the
\* channels and in handlers, plus every copy that Publish counted and then
\* abandoned and every copy that a Next call lost; Close may lag by one.
\* CanPublish decides on this number.
WaitingCounter ==
  waiting + (IF handedBack THEN 1 ELSE 0)
    = Len(queue) + Len(retryQueue) + Cardinality(Holding)
      + Cardinality(Counted) + Cardinality(Leaked) + Cardinality(dropped)

\* Backpressure holds although CanPublish and Publish are separate calls: the
\* fresh queue exceeds the limit by at most the publications in progress and the
\* Publish calls that were repeated although they went through at the server.
\* With the limit of 10 and a channel of 1024, Publish blocks only after about a
\* thousand of them.
BackpressureBound ==
  Len(queue) + Cardinality(Counted)
    < MaxWaiting + Cardinality(Publishers) + Cardinality(abandoned)

-----------------------------------------------------------------------------
(* What the link promises about each copy (module Delivery).               *)

HolderOf(c) == {s \in SubIds : c \in InflightCopies(s)}
Whereabouts(c) ==
  CASE stage[c] # "entered" -> "new"
    [] c \in acked -> "acked"
    [] c \in dropped -> "lost"
    [] HolderOf(c) # {} -> "inflight"
    [] OTHER -> "waiting"
Holder(c) == IF HolderOf(c) = {} THEN NoSub ELSE CHOOSE s \in HolderOf(c) : TRUE

Promise == INSTANCE Delivery WITH
  at <- [c \in Copies |-> Whereabouts(c)],
  with <- [c \in Copies |-> Holder(c)],
  live <- subscriptions,
  ended <- (1..lastSubscriptionID) \ subscriptions

\* The stub implements Delivery: no interleaving of Publish, Close, Next and Ack
\* hands one copy to two subscriptions, takes a copy back from a subscription
\* other than by its Close or Ack, ends a subscription that still holds copies,
\* or loses a copy before any subscription was closed.
ImplementsDelivery == Promise!DeliverySpec

-----------------------------------------------------------------------------
(* Liveness.  Goroutines are scheduled fairly; a sync.Mutex starves no one  *)
(* and select picks at random among the ready channels, hence the strong   *)
(* fairness; the downstream task agent calls Next again and again.         *)

Fairness ==
  /\ \A c \in Copies : WF_vars(PublishStep(c))
  /\ WF_vars(CloseStep)
  /\ \A h \in Handlers : /\ SF_vars(\E s \in SubIds : NextLookup(h, s))
                         /\ SF_vars(NextFromRetryQueue(h))
                         /\ SF_vars(NextFromQueue(h))
                         /\ SF_vars(NextSetInflight(h) \/ NextNoLongerFound(h))

FairSpec == Spec /\ Fairness

Unrecoverable == Cardinality(Leaked) + Cardinality(dropped)

\* The limit is not a trap: as long as clients keep asking on some live
\* subscription, CanPublish is allowed again and again, unless Publish calls
\* that timed out and Next calls that lost their copy have used up the limit
\* (those are never subtracted from AnnotatedValuesWaiting).
PublishingResumes ==
  ([]<>(subscriptions # {})) =>
    []<>(waiting < MaxWaiting \/ Unrecoverable >= MaxWaiting)

=============================================================================
