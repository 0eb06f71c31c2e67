----------------------------- MODULE LinkQueueDB -----------------------------
(***************************************************************************)
(* The link agents of one pipeline with the ArangoDB storage               *)
(* (pkg/agent/link/arangodb), driven by output_publisher.go upstream and   *)
(* by the watchers of input_loop.go downstream.  A publisher is a series   *)
(* of OutputReady calls, one at a time; those of a link share its runner.  *)
(*                                                                         *)
(* Every link has an agent of its own, with statistics in memory; all      *)
(* agents share one collection of queued values and one of subscriptions.  *)
(* A handler is a sequence of queries, and an action is one of them: the   *)
(* database runs a single query atomically.  Loading a subscription and    *)
(* renewing it are one action, and so are loading, renewing and the lookup *)
(* of the value in Ack.  Time is abstract: see TTLElapses.                 *)
(***************************************************************************)
EXTENDS Integers, FiniteSets

CONSTANTS Links,
          Publishers,   \* callers of OutputReady, each with the link it feeds
          Values,       \* IDs of annotated values
          Calls,        \* calls of Publish; also the document a call creates
          Watchers,     \* inputs of task agents, each a client ID and a link
          ClosingClients, \* client IDs of clients that call Close; the input
                          \* loop does not
          AckHandlers,  \* server goroutines that run an Ack call
          Max,          \* maxAnnotatedValuesWaiting
          MaxTrouble,   \* bound: restarts of agents, queries that fail, and
                        \* calls given up with their outcome unknown
          NoPublisher, NoValue, NoCall, NoWatcher

ASSUME LinkQueueDBAssumption ==
  /\ IsFiniteSet(Links) /\ IsFiniteSet(Calls) /\ IsFiniteSet(Watchers)
  /\ IsFiniteSet(Publishers) /\ \A p \in Publishers : p.link \in Links
  /\ Calls \subseteq [link : Links, value : Values, attempt : Nat]
  /\ \A w \in Watchers : w = [client |-> w.client, link |-> w.link]
                         /\ w.link \in Links
  /\ Max \in Nat \ {0} /\ MaxTrouble \in Nat
  /\ NoPublisher \notin Publishers /\ NoValue \notin Values
  /\ NoCall \notin Calls /\ NoWatcher \notin Watchers

\* The key generator numbers subscriptions.  A watcher subscribes successfully
\* once, so no more IDs are used than there are watchers.
SubIds == 1..Cardinality(Watchers)
NoSub == 0

VARIABLES
  value,       \* value[p]: the value the link allowed p to publish, or NoValue
  runner,      \* runner[l]: the publisher whose value l's runner publishes
  call,        \* call[l]: the Publish call the runner waits for
  abandoned,   \* calls repeated without knowing their outcome (history)
  stage,       \* stage[c]: how far Publish call c has come
  seen,        \* seen[c]: the count of unassigned documents c has read
  queue,       \* documents of the queue collection
  assigned,    \* assigned[c]: the subscription_id of document c, 0 if none
  everAssigned,\* queued documents that were ever assigned (history)
  subs,        \* documents of the subscription collection
  lastSub,     \* the last key generated
  creator,     \* creator[s]: the watcher that created s, which stands for
               \* the client_id and the link_name of the document
  expired,     \* subscriptions whose expired_at has passed
  subOf,       \* subOf[w]: the subscription w got, 0 before that
  fetch,       \* fetch[w]: progress of the Subscribe or Next call of w
  got,         \* got[w]: the document that call returns
  counted,     \* counted[w]: the count of unassigned documents it has read
  received,    \* received[w]: values Next has returned to w
  acking,      \* acking[h]: watcher and document of the Ack call run by h
  gcList,      \* gcList[l]: expired subscriptions the collector of l listed
  gcSub,       \* gcSub[l]: the one it has unassigned and is about to remove
  closing,     \* closing[l]: the one a Close call on l is about to remove
  waiting, inProgress, acknowledged,  \* statistics of each link
  faults       \* number of restarts of agents and of queries that failed

publisherVars == <<value, runner, call, abandoned>>
publishVars == <<publisherVars, stage, seen>>
docVars == <<queue, assigned, everAssigned>>
subVars == <<subs, lastSub, creator>>
watchVars == <<subOf, fetch, got, counted, received>>
gcVars == <<gcList, gcSub, closing>>
progressVars == <<inProgress, acknowledged>>
vars == <<publishVars, docVars, subVars, expired, watchVars, acking, gcVars,
          waiting, progressVars, faults>>

NoAck == <<>>

Init ==
  /\ value = [p \in Publishers |-> NoValue]
  /\ runner = [l \in Links |-> NoPublisher]
  /\ call = [l \in Links |-> NoCall]
  /\ abandoned = {}
  /\ stage = [c \in Calls |-> "unused"]
  /\ seen = [c \in Calls |-> 0]
  /\ queue = {} /\ everAssigned = {}
  /\ assigned = [c \in Calls |-> NoSub]
  /\ subs = {} /\ lastSub = 0 /\ expired = {}
  /\ creator = [s \in SubIds |-> NoWatcher]
  /\ subOf = [w \in Watchers |-> NoSub]
  /\ fetch = [w \in Watchers |-> "idle"]
  /\ got = [w \in Watchers |-> NoCall]
  /\ counted = [w \in Watchers |-> 0]
  /\ received = [w \in Watchers |-> {}]
  /\ acking = [h \in AckHandlers |-> NoAck]
  /\ gcList = [l \in Links |-> {}]
  /\ gcSub = [l \in Links |-> NoSub]
  /\ closing = [l \in Links |-> NoSub]
  /\ waiting = [l \in Links |-> 0]
  /\ inProgress = [l \in Links |-> 0]
  /\ acknowledged = [l \in Links |-> 0]
  /\ faults = 0

\* MaxTrouble bounds how much is explored of what may go wrong.
Trouble == faults + Cardinality(abandoned) < MaxTrouble

\* A query fails, or an agent is restarted.
Fault == Trouble /\ faults' = faults + 1

-----------------------------------------------------------------------------
(* The queue collection.                                                   *)

Unassigned(l) == {c \in queue : c.link = l /\ assigned[c] = NoSub}

\* collectUnassignedQueueStats
UnassignedCount(l) == Cardinality(Unassigned(l))

\* UnassignQueueValues
Unassign(s) ==
  /\ assigned' = [c \in Calls |-> IF assigned[c] = s THEN NoSub ELSE assigned[c]]
  /\ UNCHANGED <<queue, everAssigned>>

-----------------------------------------------------------------------------
(* A publication: Publish and runForOutput upstream, CanPublish and        *)
(* Publish here.                                                           *)

\* A value has a unique ID; it is published once on every link.
Fresh(l, v) ==
  /\ \A c \in Calls : c.link = l /\ c.value = v => stage[c] = "unused"
  /\ \A p \in Publishers : p.link = l => value[p] # v

CanPublish(p, v) ==
  /\ runner[p.link] = NoPublisher /\ value[p] = NoValue /\ Fresh(p.link, v)
  /\ waiting[p.link] < Max
  /\ value' = [value EXCEPT ![p] = v]
  /\ UNCHANGED <<runner, call, abandoned, stage, seen, docVars, subVars, expired,
                 watchVars, acking, gcVars, waiting, progressVars, faults>>

\* Another link of the output refused, or the caller is gone.
TurnDown(p) ==
  /\ value[p] # NoValue /\ runner[p.link] # p
  /\ value' = [value EXCEPT ![p] = NoValue]
  /\ UNCHANGED <<runner, call, abandoned, stage, seen, docVars, subVars, expired,
                 watchVars, acking, gcVars, waiting, progressVars, faults>>

\* The runner takes the value, or repeats it, and calls Publish.
PublishSend(p, c) ==
  /\ value[p] # NoValue
  /\ runner[p.link] \in {NoPublisher, p} /\ call[p.link] = NoCall
  /\ c.link = p.link /\ c.value = value[p] /\ stage[c] = "unused"
  /\ runner' = [runner EXCEPT ![p.link] = p]
  /\ call' = [call EXCEPT ![p.link] = c]
  /\ stage' = [stage EXCEPT ![c] = "arriving"]
  /\ UNCHANGED <<value, abandoned, seen, docVars, subVars, expired, watchVars,
                 acking, gcVars, waiting, progressVars, faults>>

\* The runner is done with its value.
RunnerIdle(l) ==
  /\ runner' = [runner EXCEPT ![l] = NoPublisher]
  /\ value' = [value EXCEPT ![runner[l]] = NoValue]
  /\ UNCHANGED <<abandoned, stage, seen, docVars, subVars, expired, watchVars,
                 acking, gcVars, waiting, progressVars, faults>>

PublishReply(l) ==
  /\ call[l] # NoCall /\ stage[call[l]] = "done"
  /\ call' = [call EXCEPT ![l] = NoCall]
  /\ RunnerIdle(l)

\* The attempt failed, or its deadline passed with its outcome unknown.
PublishRetry(l) ==
  /\ call[l] # NoCall
  /\ call' = [call EXCEPT ![l] = NoCall]
  /\ \/ stage[call[l]] = "failed" /\ UNCHANGED abandoned
     \/ /\ stage[call[l]] # "failed" /\ Trouble
        /\ abandoned' = abandoned \cup {call[l]}
  /\ UNCHANGED <<value, runner, stage, seen, docVars, subVars, expired, watchVars,
                 acking, gcVars, waiting, progressVars, faults>>

\* TimeoutPublishAnnotatedValue: the value is dropped.
PublishGiveUp(l) ==
  /\ runner[l] # NoPublisher /\ call[l] = NoCall
  /\ UNCHANGED call
  /\ RunnerIdle(l)

\* The registry or CreateDocument reports an error.
PublishFails(c) ==
  /\ stage[c] = "arriving"
  /\ Fault
  /\ stage' = [stage EXCEPT ![c] = "failed"]
  /\ UNCHANGED <<publisherVars, seen, docVars, subVars, expired, watchVars,
                 acking, gcVars, waiting, progressVars>>

CreateDocument(c) ==
  /\ stage[c] = "arriving"
  /\ stage' = [stage EXCEPT ![c] = "stored"]
  /\ queue' = queue \cup {c}
  /\ UNCHANGED <<publisherVars, seen, assigned, everAssigned, subVars, expired,
                 watchVars, acking, gcVars, waiting, progressVars, faults>>

PublishCount(c) ==
  /\ stage[c] = "stored"
  /\ stage' = [stage EXCEPT ![c] = "counted"]
  /\ seen' = [seen EXCEPT ![c] = UnassignedCount(c.link)]
  /\ UNCHANGED <<publisherVars, docVars, subVars, expired, watchVars, acking,
                 gcVars, waiting, progressVars, faults>>

\* The count is skipped when its query fails; Publish succeeds all the same.
PublishCountFails(c) ==
  /\ stage[c] = "stored"
  /\ Fault
  /\ stage' = [stage EXCEPT ![c] = "done"]
  /\ UNCHANGED <<publisherVars, seen, docVars, subVars, expired, watchVars,
                 acking, gcVars, waiting, progressVars>>

\* Mutant: the count of waiting values is left as it is.
PublishStoreSkipped(c) ==
  /\ stage[c] = "counted"
  /\ stage' = [stage EXCEPT ![c] = "done"]
  /\ seen' = [seen EXCEPT ![c] = 0]
  /\ UNCHANGED <<publisherVars, docVars, subVars, expired, watchVars, acking,
                 gcVars, waiting, progressVars, faults>>

PublishStore(c) ==
  /\ stage[c] = "counted"
  /\ stage' = [stage EXCEPT ![c] = "done"]
  /\ waiting' = [waiting EXCEPT ![c.link] = seen[c]]
  /\ seen' = [seen EXCEPT ![c] = 0]
  /\ UNCHANGED <<publisherVars, docVars, subVars, expired, watchVars, acking,
                 gcVars, progressVars, faults>>

-----------------------------------------------------------------------------
(* Subscriptions.                                                          *)

\* RenewExpiresAt
Renew(s) == expired' = expired \ {s}

HasSubscription(k) == \E s \in subs : creator[s].client = k

Start(w, pc) == fetch' = [fetch EXCEPT ![w] = pc]

\* findSubscriptionByClientID found a subscription of the client, whatever its
\* link; it is renewed and returned.
SubscribeAgain(w, s) ==
  /\ subOf[w] = NoSub /\ fetch[w] = "idle"
  /\ s \in subs /\ creator[s].client = w.client
  /\ Renew(s)
  /\ subOf' = [subOf EXCEPT ![w] = s]
  /\ UNCHANGED <<publishVars, docVars, subVars, fetch, got, counted, received,
                 acking, gcVars, waiting, progressVars, faults>>

\* Mutant: a watcher that has a subscription subscribes once more.
SubscribeFindTwice(w) ==
  /\ fetch[w] = "idle"
  /\ ~HasSubscription(w.client)
  /\ Start(w, "creating")
  /\ UNCHANGED <<publishVars, docVars, subVars, expired, subOf, got, counted,
                 received, acking, gcVars, waiting, progressVars, faults>>

\* It found none.
SubscribeFind(w) ==
  /\ subOf[w] = NoSub /\ fetch[w] = "idle"
  /\ ~HasSubscription(w.client)
  /\ Start(w, "creating")
  /\ UNCHANGED <<publishVars, docVars, subVars, expired, subOf, got, counted,
                 received, acking, gcVars, waiting, progressVars, faults>>

\* Mutant: the collection has no unique index on client_id.
SubscribeCreateUnindexed(w) ==
  /\ fetch[w] = "creating"
  /\ lastSub < Cardinality(Watchers)
  /\ lastSub' = lastSub + 1
  /\ subs' = subs \cup {lastSub'}
  /\ creator' = [creator EXCEPT ![lastSub'] = w]
  /\ subOf' = [subOf EXCEPT ![w] = lastSub']
  /\ Start(w, "idle")
  /\ UNCHANGED <<publishVars, docVars, expired, got, counted, received, acking,
                 gcVars, waiting, progressVars, faults>>

SubscribeCreate(w) ==
  /\ fetch[w] = "creating"
  /\ ~HasSubscription(w.client)
  /\ lastSub' = lastSub + 1
  /\ subs' = subs \cup {lastSub'}
  /\ creator' = [creator EXCEPT ![lastSub'] = w]
  /\ subOf' = [subOf EXCEPT ![w] = lastSub']
  /\ Start(w, "idle")
  /\ UNCHANGED <<publishVars, docVars, expired, got, counted, received, acking,
                 gcVars, waiting, progressVars, faults>>

\* The unique index on client_id refuses the document: Subscribe fails.
SubscribeConflict(w) ==
  /\ fetch[w] = "creating"
  /\ HasSubscription(w.client)
  /\ Start(w, "idle")
  /\ UNCHANGED <<publishVars, docVars, subVars, expired, subOf, got, counted,
                 received, acking, gcVars, waiting, progressVars, faults>>

Ping(s) ==
  /\ s \in subs
  /\ Renew(s)
  /\ UNCHANGED <<publishVars, docVars, subVars, watchVars, acking, gcVars,
                 waiting, progressVars, faults>>

\* subscriptionTTL passes without a call on s.  A Next call in progress renews
\* its subscription ten times a second, so none is in progress.
TTLElapses(s) ==
  /\ s \in subs
  /\ \A w \in Watchers : subOf[w] = s => fetch[w] = "idle"
  /\ expired' = expired \cup {s}
  /\ UNCHANGED <<publishVars, docVars, subVars, watchVars, acking, gcVars,
                 waiting, progressVars, faults>>

\* Close of a subscription by a client that holds it, on the server of link l.
CloseUnassign(l, s) ==
  /\ closing[l] = NoSub /\ s \in subs
  /\ \E w \in Watchers : /\ w.link = l /\ subOf[w] = s
                        /\ w.client \in ClosingClients
  /\ Unassign(s)
  /\ closing' = [closing EXCEPT ![l] = s]
  /\ UNCHANGED <<publishVars, subVars, expired, watchVars, acking, gcList, gcSub,
                 waiting, progressVars, faults>>

RemoveSubscription(s) ==
  /\ subs' = subs \ {s}
  /\ expired' = expired \ {s}
  /\ UNCHANGED <<lastSub, creator>>

CloseRemove(l) ==
  /\ closing[l] # NoSub
  /\ RemoveSubscription(closing[l])
  /\ closing' = [closing EXCEPT ![l] = NoSub]
  /\ UNCHANGED <<publishVars, docVars, watchVars, acking, gcList, gcSub, waiting,
                 progressVars, faults>>

\* Remove failed: the values are unassigned, the subscription stays.
CloseFails(l) ==
  /\ closing[l] # NoSub
  /\ Fault
  /\ closing' = [closing EXCEPT ![l] = NoSub]
  /\ UNCHANGED <<publishVars, docVars, subVars, expired, watchVars, acking,
                 gcList, gcSub, waiting, progressVars>>

-----------------------------------------------------------------------------
(* runSubscriptionGC of link l.                                            *)

\* Mutant: IsExpired compares the wrong way round.
GCListUnexpired(l) ==
  /\ gcList[l] = {} /\ gcSub[l] = NoSub
  /\ gcList' = [gcList EXCEPT ![l] = {s \in subs \ expired : creator[s].link = l}]
  /\ UNCHANGED <<publishVars, docVars, subVars, expired, watchVars, acking, gcSub,
                 closing, waiting, progressVars, faults>>

\* getExpiredSubscriptions
GCList(l) ==
  /\ gcList[l] = {} /\ gcSub[l] = NoSub
  /\ gcList' = [gcList EXCEPT ![l] = {s \in expired : creator[s].link = l}]
  /\ UNCHANGED <<publishVars, docVars, subVars, expired, watchVars, acking, gcSub,
                 closing, waiting, progressVars, faults>>

GCUnassign(l, s) ==
  /\ s \in gcList[l] /\ gcSub[l] = NoSub
  /\ Unassign(s)
  /\ gcSub' = [gcSub EXCEPT ![l] = s]
  /\ gcList' = [gcList EXCEPT ![l] = @ \ {s}]
  /\ UNCHANGED <<publishVars, subVars, expired, watchVars, acking, closing,
                 waiting, progressVars, faults>>

\* The query fails: the subscription is left for the next round.
GCUnassignFails(l, s) ==
  /\ s \in gcList[l] /\ gcSub[l] = NoSub
  /\ Fault
  /\ gcList' = [gcList EXCEPT ![l] = @ \ {s}]
  /\ UNCHANGED <<publishVars, docVars, subVars, expired, watchVars, acking, gcSub,
                 closing, waiting, progressVars>>

GCRemove(l) ==
  /\ gcSub[l] # NoSub
  /\ RemoveSubscription(gcSub[l])
  /\ gcSub' = [gcSub EXCEPT ![l] = NoSub]
  /\ UNCHANGED <<publishVars, docVars, watchVars, acking, gcList, closing,
                 waiting, progressVars, faults>>

GCRemoveFails(l) ==
  /\ gcSub[l] # NoSub
  /\ Fault
  /\ gcSub' = [gcSub EXCEPT ![l] = NoSub]
  /\ UNCHANGED <<publishVars, docVars, subVars, expired, watchVars, acking,
                 gcList, closing, waiting, progressVars>>

-----------------------------------------------------------------------------
(* Next: one round of its loop.  A round that finds no value, or no        *)
(* subscription, leaves the watcher to its next round or its next call.    *)

NextRenew(w) ==
  /\ fetch[w] = "idle" /\ subOf[w] \in subs
  /\ Renew(subOf[w])
  /\ Start(w, "renewed")
  /\ UNCHANGED <<publishVars, docVars, subVars, subOf, got, counted, received,
                 acking, gcVars, waiting, progressVars, faults>>

\* The link name comes from the subscription, not from the server.
Available(w) == Unassigned(creator[subOf[w]].link)

NextFindsNone(w) ==
  /\ fetch[w] = "renewed" /\ Available(w) = {}
  /\ Start(w, "idle")
  /\ UNCHANGED <<publishVars, docVars, subVars, expired, subOf, got, counted,
                 received, acking, gcVars, waiting, progressVars, faults>>

\* AssignFirstValue: the query assigns every unassigned document of the link,
\* in no particular order, and the first one it reports is returned.
NextAssign(w, c) ==
  /\ fetch[w] = "renewed" /\ c \in Available(w)
  /\ assigned' = [d \in Calls |-> IF d \in Available(w) THEN subOf[w]
                                                       ELSE assigned[d]]
  /\ everAssigned' = everAssigned \cup Available(w)
  /\ got' = [got EXCEPT ![w] = c]
  /\ inProgress' = [inProgress EXCEPT ![w.link] = @ + 1]
  /\ Start(w, "assigned")
  /\ UNCHANGED <<publishVars, queue, subVars, expired, subOf, counted, received,
                 acking, gcVars, waiting, acknowledged, faults>>

NextCount(w) ==
  /\ fetch[w] = "assigned"
  /\ counted' = [counted EXCEPT ![w] = UnassignedCount(w.link)]
  /\ Start(w, "counted")
  /\ UNCHANGED <<publishVars, docVars, subVars, expired, subOf, got, received,
                 acking, gcVars, waiting, progressVars, faults>>

Return(w) ==
  /\ received' = [received EXCEPT ![w] = @ \cup {got[w].value}]
  /\ got' = [got EXCEPT ![w] = NoCall]
  /\ counted' = [counted EXCEPT ![w] = 0]
  /\ Start(w, "idle")

\* The count is skipped when its query fails.
NextCountFails(w) ==
  /\ fetch[w] = "assigned"
  /\ Fault
  /\ Return(w)
  /\ UNCHANGED <<publishVars, docVars, subVars, expired, subOf, acking, gcVars,
                 waiting, progressVars>>

NextStore(w) ==
  /\ fetch[w] = "counted"
  /\ waiting' = [waiting EXCEPT ![w.link] = counted[w]]
  /\ Return(w)
  /\ UNCHANGED <<publishVars, docVars, subVars, expired, subOf, acking, gcVars,
                 progressVars, faults>>

-----------------------------------------------------------------------------
(* Ack.  A watcher repeats it until it knows the outcome, so that several  *)
(* calls for one value may run.                                            *)

AckFind(h, w, c) ==
  /\ acking[h] = NoAck
  /\ subOf[w] \in subs
  /\ c.value \in received[w]
  /\ c \in queue /\ assigned[c] = subOf[w]
  /\ Renew(subOf[w])
  /\ acking' = [acking EXCEPT ![h] = <<w, c>>]
  /\ UNCHANGED <<publishVars, docVars, subVars, watchVars, gcVars, waiting,
                 progressVars, faults>>

AckRemove(h) ==
  /\ acking[h] # NoAck /\ acking[h][2] \in queue
  /\ queue' = queue \ {acking[h][2]}
  /\ assigned' = [assigned EXCEPT ![acking[h][2]] = NoSub]
  /\ everAssigned' = everAssigned \ {acking[h][2]}
  /\ inProgress' = [inProgress EXCEPT ![acking[h][1].link] = @ - 1]
  /\ acknowledged' = [acknowledged EXCEPT ![acking[h][1].link] = @ + 1]
  /\ acking' = [acking EXCEPT ![h] = NoAck]
  /\ UNCHANGED <<publishVars, subVars, expired, watchVars, gcVars, waiting,
                 faults>>

\* Mutant: as in the collector, NotFound is not an error.
AckRemoveFailsCounted(h) ==
  /\ acking[h] # NoAck /\ acking[h][2] \notin queue
  /\ inProgress' = [inProgress EXCEPT ![acking[h][1].link] = @ - 1]
  /\ acknowledged' = [acknowledged EXCEPT ![acking[h][1].link] = @ + 1]
  /\ acking' = [acking EXCEPT ![h] = NoAck]
  /\ UNCHANGED <<publishVars, docVars, subVars, expired, watchVars, gcVars,
                 waiting, faults>>

\* RemoveDocument reports NotFound: another Ack call was first.
AckRemoveFails(h) ==
  /\ acking[h] # NoAck /\ acking[h][2] \notin queue
  /\ acking' = [acking EXCEPT ![h] = NoAck]
  /\ UNCHANGED <<publishVars, docVars, subVars, expired, watchVars, gcVars,
                 waiting, progressVars, faults>>

-----------------------------------------------------------------------------
(* The agent of link l is restarted: its handlers end, its statistics are  *)
(* lost, the database keeps what it has.  Its clients connect again with   *)
(* the subscriptions they hold.                                            *)

Restart(l) ==
  /\ Fault
  /\ stage' = [c \in Calls |->
                 IF c.link = l /\ stage[c] \in {"arriving", "stored", "counted"}
                   THEN "failed" ELSE stage[c]]
  /\ seen' = [c \in Calls |-> IF c.link = l THEN 0 ELSE seen[c]]
  /\ fetch' = [w \in Watchers |-> IF w.link = l THEN "idle" ELSE fetch[w]]
  /\ got' = [w \in Watchers |-> IF w.link = l THEN NoCall ELSE got[w]]
  /\ counted' = [w \in Watchers |-> IF w.link = l THEN 0 ELSE counted[w]]
  /\ acking' = [h \in AckHandlers |->
                  IF acking[h] # NoAck /\ acking[h][1].link = l
                    THEN NoAck ELSE acking[h]]
  /\ gcList' = [gcList EXCEPT ![l] = {}]
  /\ gcSub' = [gcSub EXCEPT ![l] = NoSub]
  /\ closing' = [closing EXCEPT ![l] = NoSub]
  /\ waiting' = [waiting EXCEPT ![l] = 0]
  /\ inProgress' = [inProgress EXCEPT ![l] = 0]
  /\ acknowledged' = [acknowledged EXCEPT ![l] = 0]
  /\ UNCHANGED <<publisherVars, docVars, subVars, expired, subOf, received>>

-----------------------------------------------------------------------------
PublishNext ==
  \/ \E p \in Publishers : \/ \E v \in Values : CanPublish(p, v)
                           \/ TurnDown(p)
                           \/ \E c \in Calls : PublishSend(p, c)
  \/ \E l \in Links : PublishReply(l) \/ PublishRetry(l) \/ PublishGiveUp(l)
  \/ \E c \in Calls : \/ PublishFails(c) \/ CreateDocument(c)
                      \/ PublishCount(c) \/ PublishCountFails(c)
                      \/ PublishStore(c)

WatcherNext ==
  \E w \in Watchers :
    \/ \E s \in SubIds : SubscribeAgain(w, s)
    \/ SubscribeFind(w) \/ SubscribeCreate(w) \/ SubscribeConflict(w)
    \/ NextRenew(w) \/ NextFindsNone(w)
    \/ \E c \in Calls : NextAssign(w, c)
    \/ NextCount(w) \/ NextCountFails(w) \/ NextStore(w)

AckNext ==
  \E h \in AckHandlers :
    \/ \E w \in Watchers, c \in Calls : AckFind(h, w, c)
    \/ AckRemove(h) \/ AckRemoveFails(h)

SubscriptionNext ==
  \/ \E s \in SubIds : Ping(s) \/ TTLElapses(s)
  \/ \E l \in Links :
       \/ \E s \in SubIds : \/ CloseUnassign(l, s)
                            \/ GCUnassign(l, s) \/ GCUnassignFails(l, s)
       \/ CloseRemove(l) \/ CloseFails(l)
       \/ GCList(l) \/ GCRemove(l) \/ GCRemoveFails(l)

Next == PublishNext \/ WatcherNext \/ AckNext \/ SubscriptionNext
        \/ \E l \in Links : Restart(l)

Spec == Init /\ [][Next]_vars

\* The collector runs in a loop of its own, and its queries return.
Collects(l) ==
  /\ WF_vars(GCList(l))
  /\ WF_vars(\E s \in SubIds : GCUnassign(l, s) \/ GCUnassignFails(l, s))
  /\ WF_vars(GCRemove(l) \/ GCRemoveFails(l))

CollectorSpec == Spec /\ \A l \in Links : Collects(l)
-----------------------------------------------------------------------------
Stages == {"unused", "arriving", "stored", "counted", "done", "failed"}
FetchStates == {"idle", "creating", "renewed", "assigned", "counted"}

PublishTypeOK ==
  /\ value \in [Publishers -> Values \cup {NoValue}]
  /\ runner \in [Links -> Publishers \cup {NoPublisher}]
  /\ call \in [Links -> Calls \cup {NoCall}]
  /\ abandoned \subseteq Calls
  /\ stage \in [Calls -> Stages]
  /\ seen \in [Calls -> Nat]
  /\ \A l \in Links :
       /\ runner[l] # NoPublisher => runner[l].link = l /\ value[runner[l]] # NoValue
       /\ call[l] # NoCall => runner[l] # NoPublisher

\* Only stored documents are assigned, and only to IDs that were handed out.
StoreTypeOK ==
  /\ queue \subseteq Calls /\ everAssigned \subseteq queue
  /\ assigned \in [Calls -> 0..lastSub]
  /\ \A c \in Calls : assigned[c] # NoSub => c \in everAssigned
  /\ lastSub \in 0..Cardinality(Watchers)
  /\ subs \subseteq 1..lastSub /\ expired \subseteq subs
  /\ creator \in [SubIds -> Watchers \cup {NoWatcher}]
  /\ \A s \in SubIds : creator[s] = NoWatcher <=> s > lastSub

\* A watcher creates at most one subscription.  A Next call has a subscription,
\* and from its assignment on a document to return.
WatcherTypeOK ==
  /\ subOf \in [Watchers -> 0..lastSub]
  /\ fetch \in [Watchers -> FetchStates]
  /\ got \in [Watchers -> Calls \cup {NoCall}]
  /\ counted \in [Watchers -> Nat]
  /\ received \in [Watchers -> SUBSET Values]
  /\ \A w \in Watchers :
       /\ fetch[w] = "creating" => subOf[w] = NoSub
       /\ fetch[w] \in {"renewed", "assigned", "counted"} => subOf[w] # NoSub
       /\ got[w] # NoCall <=> fetch[w] \in {"assigned", "counted"}

AgentTypeOK ==
  /\ acking \in [AckHandlers -> {NoAck} \cup (Watchers \X Calls)]
  /\ gcList \in [Links -> SUBSET (1..lastSub)]
  /\ gcSub \in [Links -> 0..lastSub]
  /\ closing \in [Links -> 0..lastSub]
  /\ waiting \in [Links -> Nat]
  /\ inProgress \in [Links -> Int]
  /\ acknowledged \in [Links -> Nat]
  /\ faults \in 0..MaxTrouble

\* Type invariant of the link agents with the ArangoDB storage.
LinkQueueDBTypeOK ==
  PublishTypeOK /\ StoreTypeOK /\ WatcherTypeOK /\ AgentTypeOK

\* A client never has two subscriptions: findSubscriptionByClientID returns the
\* only one.  Two inputs of a task agent that subscribe at the same time, on
\* different links, both find none and both create one (db_source.go:100-125);
\* the unique index on client_id, not the query, decides.
OneSubscriptionPerClient ==
  \A s, t \in subs : creator[s].client = creator[t].client => s = t

\* The limit on waiting values of one link (CanPublish) holds up to the publishers
\* that are allowed one value each before the count is refreshed, once for the
\* limit itself and once for each handler that stores a count it read before
\* others published: at most one Next call per watcher, the Publish calls whose
\* runner did not wait for them, and one for each restart or failed count.
\* Documents taken back from a subscription are not limited; they are left out.
NeverAssigned(l) == Unassigned(l) \ everAssigned

FreshBacklogBound ==
  \A l \in Links :
    Cardinality(NeverAssigned(l)) <=
      Max - 1 + Cardinality({p \in Publishers : p.link = l})
                  * (1 + Cardinality({w \in Watchers : w.link = l})
                       + Cardinality({c \in abandoned : c.link = l}) + faults)

\* A link counts an acknowledgement exactly when a document leaves the queue,
\* though the client may repeat Ack while an earlier call still runs: of several
\* calls that found the document only one is counted (db_source.go:268-283).
AckCountsRemoval ==
  [][\A c \in Calls : (c \in queue /\ c \notin queue') <=>
       \E h \in AckHandlers, w \in Watchers :
         /\ acking[h] = <<w, c>> /\ acking'[h] = NoAck
         /\ acknowledged'[w.link] = acknowledged[w.link] + 1]_vars

\* Where document c is, for somebody who does not see the Publish calls.
Place(c) ==
  CASE c \in queue -> "queued"
    [] c \notin queue /\ stage[c] \in {"unused", "arriving"} -> "new"
    [] OTHER -> "gone"

AsDurableQueue == INSTANCE DurableQueue WITH
  Documents <- Calls, Clients <- Watchers, Subscriptions <- SubIds, NoDocument <- NoCall,
  place <- [c \in Calls |-> Place(c)], holder <- assigned, taken <- got,
  handed <- received

\* The link agents implement DurableQueue: whatever agents are restarted, queries
\* fail, subscriptions are closed or collected and calls are repeated or overlap, a
\* stored document leaves the queue only when a client that got its value
\* acknowledges it, and is counted then and only then; a client gets values of
\* stored documents only.
ImplementsDurableQueue == AsDurableQueue!DurableSpec

\* An expired subscription is collected, or its client turns up and renews it,
\* whatever queries of the collector fail and whenever the agent is restarted
\* (runSubscriptionGC, db_source.go:59-91).
ExpiredAreCollected == \A s \in SubIds : s \in expired ~> s \notin expired

-----------------------------------------------------------------------------
(* What the documentation says and the code does not do.                   *)

\* "Name of the link this subscription is part of" (db_documents.go:55): the
\* values a watcher gets come from the link it asked.
OwnLinkOnly == \A w \in Watchers : got[w] # NoCall => got[w].link = w.link

\* "AssignFirstValue assigns the first unassigned annotated value to this
\* subscription and returns it" (db_documents.go:167): a value that is assigned
\* to a subscription was handed to its client.
AssignedWasReturned ==
  \A c \in queue : assigned[c] # NoSub =>
    \E w \in Watchers : got[w] = c \/ c.value \in received[w]

=============================================================================
