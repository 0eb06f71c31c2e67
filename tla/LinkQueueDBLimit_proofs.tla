----------------------- MODULE LinkQueueDBLimit_proofs -----------------------
(***************************************************************************)
(* Proof that the limit on waiting values of LinkQueueDB holds up to stale *)
(* counts, for every number of publishers, inputs, links, values and       *)
(* failures.                                                               *)
(*                                                                         *)
(* The argument: while the statistic allows publication, there is room for *)
(* one value of every publisher, unless a handler stored a count that had  *)
(* become wrong.  Such a handler is spent: its next count below the limit  *)
(* is read in a state in which there is room again.                        *)
(***************************************************************************)
EXTENDS LinkQueueDB_proofs

PublishersOf(l) == {p \in Publishers : p.link = l}
WatchersOf(l) == {w \in Watchers : w.link = l}
AbandonedOn(l) == {c \in abandoned : c.link = l}

\* A Next call that has read a count below the limit.
HoldsCount(w) == fetch[w] = "counted" /\ counted[w] < Max

\* A Publish call that may still add a document or store a count below the limit.
Holds(c) == stage[c] = "arriving" \/ (stage[c] = "counted" /\ seen[c] < Max)

SpentWatchers(l) == {w \in WatchersOf(l) : ~HoldsCount(w)}
SpentCalls(l) == {c \in AbandonedOn(l) : ~Holds(c)}
Spent(l) == Cardinality(SpentWatchers(l)) + Cardinality(SpentCalls(l)) + faults

\* The call the runner waits for has stored its document.
Stored(l) == call[l] # NoCall /\ stage[call[l]] \in {"stored", "counted", "done"}

\* Publishers that were allowed a value which is not in the queue yet.
Pending(l) ==
  {p \in PublishersOf(l) : value[p] # NoValue /\ ~(runner[l] = p /\ Stored(l))}

\* The runner waits for no call that stored a document and not yet its count.
Settled(l) ==
  call[l] = NoCall \/ stage[call[l]] \in {"arriving", "failed", "done"}

\* The call the runner waits for is about to store a count below the limit.
CountedLow(l) ==
  call[l] # NoCall /\ stage[call[l]] = "counted" /\ seen[call[l]] < Max

Fill(l) == Cardinality(NeverAssigned(l))
Width(l) == Cardinality(PublishersOf(l))

\* Every publisher of the link can add one value.
Room(l) == Fill(l) <= Max - 1 + Width(l) * Spent(l)

\* The values that are allowed are covered, and nobody relies on a count below the
\* limit without there being room.
LimitInv(l) ==
  /\ Fill(l) + Cardinality(Pending(l)) <= Max - 1 + Width(l) * (1 + Spent(l))
  /\ waiting[l] < Max /\ Settled(l) => Room(l)
  /\ CountedLow(l) => Room(l)

\* The runner waits for a call of its link that it has sent; a call that runs is
\* that one or was abandoned.
CallInv ==
  /\ \A l \in Links : call[l] # NoCall =>
       /\ call[l].link = l /\ call[l] \notin abandoned
       /\ stage[call[l]] # "unused"
  /\ \A c \in Calls : stage[c] \in {"arriving", "stored", "counted"} =>
       c \in abandoned \/ call[c.link] = c
  /\ \A c \in abandoned : stage[c] # "unused"
  /\ \A c \in Calls : stage[c] # "unused" => PublishersOf(c.link) # {}

BacklogInv == TypeInv /\ CallInv /\ \A l \in Links : LimitInv(l)

-----------------------------------------------------------------------------
(* Counting.                                                               *)

\* Products of natural numbers grow with their factors.
LEMMA Product ==
  ASSUME NEW n \in Nat, NEW s \in Nat, NEW t \in Nat, s <= t
  PROVE  n * s \in Nat /\ n * s <= n * t /\ n * (1 + s) = n + n * s
OBVIOUS

\* A finite set with an element more is larger.
LEMMA OneMore ==
  ASSUME NEW T, IsFiniteSet(T), NEW S \in SUBSET T, NEW x \in T, x \notin S
  PROVE  Cardinality(S) + 1 <= Cardinality(T)
<1>1. IsFiniteSet(S) /\ (S \cup {x}) \in SUBSET T
  BY FS_Subset
<1>2. Cardinality(S \cup {x}) = Cardinality(S) + 1
  BY <1>1, FS_AddElement
<1>3. QED BY <1>1, <1>2, FS_Subset

\* The sets are finite, and no more values are pending than there are publishers.
Sizes ==
  \A l \in Links :
    /\ Fill(l) \in Nat /\ Fill(l) <= UnassignedCount(l)
    /\ IsFiniteSet(NeverAssigned(l)) /\ IsFiniteSet(Pending(l))
    /\ IsFiniteSet(SpentWatchers(l)) /\ IsFiniteSet(SpentCalls(l))
    /\ Width(l) \in Nat /\ Cardinality(Pending(l)) \in Nat
    /\ Cardinality(Pending(l)) <= Width(l)
    /\ Cardinality(SpentWatchers(l)) \in Nat /\ Cardinality(SpentCalls(l)) \in Nat
    /\ Spent(l) \in Nat

LEMMA SizesHold == TypeInv => Sizes
<1> SUFFICES ASSUME TypeInv, NEW l \in Links
             PROVE  /\ Fill(l) \in Nat /\ Fill(l) <= UnassignedCount(l)
                    /\ IsFiniteSet(NeverAssigned(l)) /\ IsFiniteSet(Pending(l))
                    /\ IsFiniteSet(SpentWatchers(l)) /\ IsFiniteSet(SpentCalls(l))
                    /\ Width(l) \in Nat /\ Cardinality(Pending(l)) \in Nat
                    /\ Cardinality(Pending(l)) <= Width(l)
                    /\ Cardinality(SpentWatchers(l)) \in Nat
                    /\ Cardinality(SpentCalls(l)) \in Nat
                    /\ Spent(l) \in Nat
  BY DEF Sizes
<1>1. /\ queue \subseteq Calls /\ abandoned \subseteq Calls /\ faults \in Nat
      /\ IsFiniteSet(Calls) /\ IsFiniteSet(Watchers) /\ IsFiniteSet(Publishers)
  BY LinkQueueDBAssumption DEF TypeInv, LinkQueueDBTypeOK, PublishTypeOK, StoreTypeOK,
     AgentTypeOK
<1>2. /\ Unassigned(l) \in SUBSET Calls
      /\ NeverAssigned(l) \in SUBSET Unassigned(l)
      /\ SpentCalls(l) \in SUBSET Calls /\ SpentWatchers(l) \in SUBSET Watchers
      /\ PublishersOf(l) \in SUBSET Publishers
      /\ Pending(l) \in SUBSET PublishersOf(l)
  BY <1>1 DEF Unassigned, NeverAssigned, SpentCalls, SpentWatchers, AbandonedOn,
              WatchersOf, PublishersOf, Pending
<1>3. /\ IsFiniteSet(Unassigned(l)) /\ IsFiniteSet(SpentCalls(l))
      /\ IsFiniteSet(SpentWatchers(l)) /\ IsFiniteSet(PublishersOf(l))
  BY <1>1, <1>2, FS_Subset
<1>4. /\ IsFiniteSet(NeverAssigned(l)) /\ IsFiniteSet(Pending(l))
      /\ Cardinality(NeverAssigned(l)) <= Cardinality(Unassigned(l))
      /\ Cardinality(Pending(l)) <= Cardinality(PublishersOf(l))
  BY <1>2, <1>3, FS_Subset
<1>5. /\ Cardinality(NeverAssigned(l)) \in Nat /\ Cardinality(Pending(l)) \in Nat
      /\ Cardinality(PublishersOf(l)) \in Nat
      /\ Cardinality(SpentWatchers(l)) \in Nat /\ Cardinality(SpentCalls(l)) \in Nat
  BY <1>3, <1>4, FS_CardinalityType
<1>6. QED BY <1>1, <1>3, <1>4, <1>5 DEF Fill, Width, Spent, UnassignedCount

\* With room for all publishers there is nothing else to show.
RoomIsEnough == \A l \in Links : Room(l) => LimitInv(l)

LEMMA RoomSuffices == TypeInv => RoomIsEnough
<1> SUFFICES ASSUME TypeInv, NEW l \in Links, Room(l) PROVE LimitInv(l)
  BY DEF RoomIsEnough
<1>1. /\ Fill(l) \in Nat /\ Width(l) \in Nat /\ Spent(l) \in Nat
      /\ Cardinality(Pending(l)) \in Nat /\ Cardinality(Pending(l)) <= Width(l)
  BY SizesHold DEF Sizes
<1>2. Width(l) * Spent(l) \in Nat /\ Width(l) * (1 + Spent(l)) = Width(l) + Width(l) * Spent(l)
  BY <1>1, Product
<1>3. Max \in Nat
  BY LinkQueueDBAssumption
<1>4. QED BY <1>1, <1>2, <1>3 DEF LimitInv, Room

-----------------------------------------------------------------------------
(* The three ways in which a step keeps LimitInv.                          *)

\* A handler or a fault is spent: there is room.
LEMMA SpendingMakesRoom ==
  ASSUME TypeInv, TypeInv', NEW l \in Links, LimitInv(l),
         Fill(l)' <= Fill(l), Spent(l)' >= Spent(l) + 1
  PROVE  LimitInv(l)'
<1>1. Sizes /\ Sizes'
  BY SizesHold, PTL
<1>2. /\ Fill(l) \in Nat /\ Width(l) \in Nat /\ Spent(l) \in Nat
      /\ Cardinality(Pending(l)) \in Nat
      /\ Fill(l)' \in Nat /\ Spent(l)' \in Nat
  BY <1>1 DEF Sizes
<1>3. /\ Width(l) * (1 + Spent(l)) <= Width(l) * Spent(l)'
      /\ Width(l) * (1 + Spent(l)) \in Nat /\ Width(l) * Spent(l)' \in Nat
  BY <1>2, Product
<1>4. Fill(l)' <= Max - 1 + Width(l) * Spent(l)'
  BY <1>2, <1>3, LinkQueueDBAssumption DEF LimitInv
<1>5. Width(l)' = Width(l)
  BY DEF Width, PublishersOf
<1>6. Room(l)'
  BY <1>4, <1>5 DEF Room
<1>7. RoomIsEnough'
  BY RoomSuffices, PTL
<1>8. QED BY <1>6, <1>7 DEF RoomIsEnough

\* A count below the limit was read: there is room.
LEMMA ReadingFindsRoom ==
  ASSUME TypeInv', NEW l \in Links, Fill(l)' < Max
  PROVE  LimitInv(l)'
<1>1. Sizes'
  BY SizesHold, PTL
<1>2. Width(l)' \in Nat /\ Spent(l)' \in Nat /\ Fill(l)' \in Nat
  BY <1>1 DEF Sizes
<1>3. Width(l)' * Spent(l)' \in Nat
  BY <1>2, Product
<1>4. Room(l)'
  BY <1>2, <1>3, LinkQueueDBAssumption DEF Room
<1>5. RoomIsEnough'
  BY RoomSuffices, PTL
<1>6. QED BY <1>4, <1>5 DEF RoomIsEnough

\* There was room before, and the step takes nothing.
LEMMA RoomStays ==
  ASSUME TypeInv, TypeInv', NEW l \in Links, Room(l),
         Fill(l)' <= Fill(l), Spent(l)' >= Spent(l)
  PROVE  LimitInv(l)'
<1>1. Sizes /\ Sizes'
  BY SizesHold, PTL
<1>2. /\ Fill(l) \in Nat /\ Width(l) \in Nat /\ Spent(l) \in Nat
      /\ Fill(l)' \in Nat /\ Spent(l)' \in Nat
  BY <1>1 DEF Sizes
<1>3. /\ Width(l) * Spent(l) <= Width(l) * Spent(l)'
      /\ Width(l) * Spent(l) \in Nat /\ Width(l) * Spent(l)' \in Nat
  BY <1>2, Product
<1>4. Width(l)' = Width(l)
  BY DEF Width, PublishersOf
<1>5. Room(l)'
  BY <1>2, <1>3, <1>4, LinkQueueDBAssumption DEF Room
<1>6. RoomIsEnough'
  BY RoomSuffices, PTL
<1>7. QED BY <1>5, <1>6 DEF RoomIsEnough

\* Nothing that matters grows, and no count below the limit appears.
LEMMA NothingGrows ==
  ASSUME TypeInv, TypeInv', NEW l \in Links, LimitInv(l),
         Fill(l)' <= Fill(l), Spent(l)' >= Spent(l),
         Cardinality(Pending(l))' <= Cardinality(Pending(l)),
         (waiting[l] < Max /\ Settled(l))' => waiting[l] < Max /\ Settled(l),
         CountedLow(l)' => CountedLow(l)
  PROVE  LimitInv(l)'
<1>1. Sizes /\ Sizes'
  BY SizesHold, PTL
<1>2. /\ Fill(l) \in Nat /\ Width(l) \in Nat /\ Spent(l) \in Nat
      /\ Cardinality(Pending(l)) \in Nat
      /\ Fill(l)' \in Nat /\ Spent(l)' \in Nat /\ Cardinality(Pending(l))' \in Nat
  BY <1>1 DEF Sizes
<1>3. /\ Width(l) * Spent(l) <= Width(l) * Spent(l)'
      /\ Width(l) * Spent(l) \in Nat /\ Width(l) * Spent(l)' \in Nat
      /\ Width(l) * (1 + Spent(l)) = Width(l) + Width(l) * Spent(l)
      /\ Width(l) * (1 + Spent(l)') = Width(l) + Width(l) * Spent(l)'
  BY <1>2, Product
<1>4. Width(l)' = Width(l)
  BY DEF Width, PublishersOf
<1>5. Max \in Nat
  BY LinkQueueDBAssumption
<1>6. CASE Room(l)
  BY <1>6, RoomStays
<1>7. CASE ~Room(l)
  <2>1. ~(waiting[l] < Max /\ Settled(l)) /\ ~CountedLow(l)
    BY <1>7 DEF LimitInv
  <2>2. ~(waiting[l] < Max /\ Settled(l))' /\ ~CountedLow(l)'
    BY <2>1
  <2>3. Fill(l)' + Cardinality(Pending(l))' <= Max - 1 + Width(l) * (1 + Spent(l)')
    BY <1>2, <1>3, <1>5 DEF LimitInv
  <2>4. QED BY <2>2, <2>3, <1>4 DEF LimitInv
<1>8. QED BY <1>6, <1>7

\* What is spent stays spent; faults are spent as well.
LEMMA SpentGrows ==
  ASSUME TypeInv, TypeInv', NEW l \in Links,
         SpentWatchers(l) \subseteq SpentWatchers(l)',
         SpentCalls(l) \subseteq SpentCalls(l)', faults' >= faults
  PROVE  /\ Spent(l)' >= Spent(l)
         /\ faults' = faults + 1 => Spent(l)' >= Spent(l) + 1
         /\ SpentWatchers(l)' # SpentWatchers(l) => Spent(l)' >= Spent(l) + 1
         /\ SpentCalls(l)' # SpentCalls(l) => Spent(l)' >= Spent(l) + 1
<1>1. Sizes /\ Sizes'
  BY SizesHold, PTL
<1>2. faults \in Nat /\ faults' \in Nat
  BY DEF TypeInv, LinkQueueDBTypeOK, AgentTypeOK
<1>3. /\ IsFiniteSet(SpentWatchers(l)') /\ IsFiniteSet(SpentCalls(l)')
      /\ Cardinality(SpentWatchers(l)) \in Nat /\ Cardinality(SpentCalls(l)) \in Nat
      /\ Cardinality(SpentWatchers(l)') \in Nat
      /\ Cardinality(SpentCalls(l)') \in Nat
  BY <1>1 DEF Sizes
<1>4. /\ Cardinality(SpentWatchers(l)) <= Cardinality(SpentWatchers(l)')
      /\ Cardinality(SpentCalls(l)) <= Cardinality(SpentCalls(l)')
  BY <1>3, FS_Subset
<1>5. /\ SpentWatchers(l)' # SpentWatchers(l) =>
           Cardinality(SpentWatchers(l)) + 1 <= Cardinality(SpentWatchers(l)')
      /\ SpentCalls(l)' # SpentCalls(l) =>
           Cardinality(SpentCalls(l)) + 1 <= Cardinality(SpentCalls(l)')
  BY <1>3, OneMore
<1>6. QED BY <1>2, <1>3, <1>4, <1>5 DEF Spent

\* A smaller set of documents fills less, a smaller set of publishers wants less.
LEMMA FillShrinks ==
  ASSUME TypeInv, NEW l \in Links, NeverAssigned(l)' \subseteq NeverAssigned(l)
  PROVE  Fill(l)' <= Fill(l)
<1>1. IsFiniteSet(NeverAssigned(l))
  BY SizesHold DEF Sizes
<1>2. QED BY <1>1, FS_Subset DEF Fill

LEMMA PendingShrinks ==
  ASSUME TypeInv, NEW l \in Links, Pending(l)' \subseteq Pending(l)
  PROVE  Cardinality(Pending(l))' <= Cardinality(Pending(l))
<1>1. IsFiniteSet(Pending(l))
  BY SizesHold DEF Sizes
<1>2. QED BY <1>1, FS_Subset

-----------------------------------------------------------------------------
(* Steps that have no part in publication.                                 *)

Quiet ==
  /\ UNCHANGED <<publishVars, waiting>> /\ faults' >= faults
  /\ \A l \in Links : NeverAssigned(l)' \subseteq NeverAssigned(l)
  /\ \A w \in Watchers : HoldsCount(w)' => HoldsCount(w)

LEMMA QuietKeepsLimit ==
  ASSUME TypeInv, TypeInv', Quiet, NEW l \in Links, LimitInv(l)
  PROVE  LimitInv(l)'
<1>1. Fill(l)' <= Fill(l)
  BY FillShrinks DEF Quiet
<1>2. SpentWatchers(l) \subseteq SpentWatchers(l)'
  BY DEF Quiet, SpentWatchers, WatchersOf
<1>3. SpentCalls(l)' = SpentCalls(l) /\ Pending(l)' = Pending(l)
  BY DEF Quiet, SpentCalls, AbandonedOn, Holds, Pending, PublishersOf, Stored,
         publishVars, publisherVars
<1>4. Spent(l)' >= Spent(l)
  BY <1>2, <1>3, SpentGrows DEF Quiet
<1>5. /\ (waiting[l] < Max /\ Settled(l))' => waiting[l] < Max /\ Settled(l)
      /\ CountedLow(l)' => CountedLow(l)
  BY DEF Quiet, Settled, CountedLow, publishVars, publisherVars
<1>6. Cardinality(Pending(l))' <= Cardinality(Pending(l))
  BY <1>3, PendingShrinks
<1>7. QED BY <1>1, <1>4, <1>5, <1>6, NothingGrows

\* A watcher subscribes, or its Next call comes to any point but its count.
LEMMA WatcherIsQuiet ==
  ASSUME TypeInv, NEW w \in Watchers,
         \/ \E s \in SubIds : SubscribeAgain(w, s)
         \/ SubscribeFind(w) \/ SubscribeCreate(w) \/ SubscribeConflict(w)
         \/ NextRenew(w) \/ NextFindsNone(w)
         \/ \E c \in Calls : NextAssign(w, c)
         \/ NextCountFails(w)
  PROVE  Quiet
<1> USE DEF docVars
<1>0. /\ fetch \in [Watchers -> FetchStates] /\ counted \in [Watchers -> Nat]
      /\ faults \in Nat /\ queue \subseteq Calls /\ assigned \in [Calls -> 0..lastSub]
      /\ subOf \in [Watchers -> 0..lastSub]
      /\ fetch[w] = "renewed" => subOf[w] # NoSub
  BY DEF TypeInv, LinkQueueDBTypeOK, WatcherTypeOK, StoreTypeOK, AgentTypeOK
<1>1. CASE \/ \E s \in SubIds : SubscribeAgain(w, s)
           \/ SubscribeFind(w) \/ SubscribeCreate(w) \/ SubscribeConflict(w)
           \/ NextRenew(w) \/ NextFindsNone(w)
  <2>1. /\ UNCHANGED <<publishVars, docVars, counted, waiting, faults>>
        /\ fetch' = fetch \/ \E pc \in {"idle", "creating", "renewed"} :
                               fetch' = [fetch EXCEPT ![w] = pc]
    BY <1>1 DEF SubscribeAgain, SubscribeFind, SubscribeCreate, SubscribeConflict,
                NextRenew, NextFindsNone, Start
  <2>2. \A l \in Links : NeverAssigned(l)' = NeverAssigned(l)
    BY <2>1 DEF NeverAssigned, Unassigned
  <2>3. \A x \in Watchers : HoldsCount(x)' => HoldsCount(x)
    BY <1>0, <2>1 DEF HoldsCount
  <2>4. QED BY <1>0, <2>1, <2>2, <2>3 DEF Quiet
<1>2. ASSUME NEW c \in Calls, NextAssign(w, c) PROVE Quiet
  <2>1. /\ UNCHANGED <<publishVars, queue, counted, waiting, faults>>
        /\ fetch' = [fetch EXCEPT ![w] = "assigned"]
        /\ everAssigned' = everAssigned \cup Available(w)
        /\ assigned' = [d \in Calls |-> IF d \in Available(w) THEN subOf[w]
                                                             ELSE assigned[d]]
    BY <1>2 DEF NextAssign, Start
  <2>2. \A l \in Links : NeverAssigned(l)' \subseteq NeverAssigned(l)
    BY <1>0, <2>1 DEF NeverAssigned, Unassigned
  <2>3. \A x \in Watchers : HoldsCount(x)' => HoldsCount(x)
    BY <1>0, <2>1 DEF HoldsCount
  <2>4. QED BY <1>0, <2>1, <2>2, <2>3 DEF Quiet
<1>3. CASE NextCountFails(w)
  <2>1. /\ UNCHANGED <<publishVars, docVars, waiting>> /\ faults' = faults + 1
        /\ fetch' = [fetch EXCEPT ![w] = "idle"]
        /\ counted' = [counted EXCEPT ![w] = 0]
    BY <1>3 DEF NextCountFails, Return, Start, Fault
  <2>2. \A l \in Links : NeverAssigned(l)' = NeverAssigned(l)
    BY <2>1 DEF NeverAssigned, Unassigned
  <2>3. \A x \in Watchers : HoldsCount(x)' => HoldsCount(x)
    BY <1>0, <2>1 DEF HoldsCount
  <2>4. QED BY <1>0, <2>1, <2>2, <2>3 DEF Quiet
<1>4. QED BY <1>1, <1>2, <1>3

\* Unassign gives back documents that were assigned, which are not counted.
LEMMA UnassignKeepsFresh ==
  ASSUME TypeInv, NEW s \in SubIds, Unassign(s), NEW l \in Links
  PROVE  NeverAssigned(l)' \subseteq NeverAssigned(l)
<1>1. /\ queue' = queue /\ everAssigned' = everAssigned
      /\ \A c \in Calls : assigned'[c] = NoSub => assigned[c] = s \/ assigned[c] = NoSub
  BY DEF Unassign
<1>2. s # NoSub /\ queue \subseteq Calls
      /\ \A c \in Calls : assigned[c] # NoSub => c \in everAssigned
  BY DEF TypeInv, LinkQueueDBTypeOK, StoreTypeOK, SubIds, NoSub
<1>3. QED BY <1>1, <1>2 DEF NeverAssigned, Unassigned

\* Ping, Close and the collector.
LEMMA SubscriptionIsQuiet ==
  ASSUME TypeInv, SubscriptionNext
  PROVE  Quiet
<1>0. faults \in Nat
  BY DEF TypeInv, LinkQueueDBTypeOK, AgentTypeOK
<1>1. /\ UNCHANGED <<publishVars, fetch, counted, waiting>>
      /\ faults' = faults \/ faults' = faults + 1
      /\ UNCHANGED docVars \/ \E s \in SubIds : Unassign(s)
  BY DEF SubscriptionNext, Ping, TTLElapses, CloseUnassign, CloseRemove, CloseFails,
         GCList, GCUnassign, GCUnassignFails, GCRemove, GCRemoveFails, Fault,
         watchVars, docVars
<1>2. \A l \in Links : NeverAssigned(l)' \subseteq NeverAssigned(l)
  BY <1>1, UnassignKeepsFresh DEF NeverAssigned, Unassigned, docVars
<1>3. \A w \in Watchers : HoldsCount(w)' => HoldsCount(w)
  BY <1>1 DEF HoldsCount
<1>4. QED BY <1>0, <1>1, <1>2, <1>3 DEF Quiet

\* Acknowledgements.
LEMMA AckIsQuiet ==
  ASSUME TypeInv, AckNext
  PROVE  Quiet
<1>0. faults \in Nat /\ queue \subseteq Calls /\ assigned \in [Calls -> 0..lastSub]
  BY DEF TypeInv, LinkQueueDBTypeOK, AgentTypeOK, StoreTypeOK
<1>1. UNCHANGED <<publishVars, fetch, counted, waiting, faults>>
  BY DEF AckNext, AckFind, AckRemove, AckRemoveFails, watchVars
<1>2. \/ UNCHANGED docVars
      \/ \E c : /\ queue' = queue \ {c} /\ everAssigned' = everAssigned \ {c}
                /\ assigned' = [assigned EXCEPT ![c] = NoSub]
  BY DEF AckNext, AckFind, AckRemove, AckRemoveFails
<1>3. \A l \in Links : NeverAssigned(l)' \subseteq NeverAssigned(l)
  BY <1>0, <1>2 DEF NeverAssigned, Unassigned, docVars
<1>4. \A w \in Watchers : HoldsCount(w)' => HoldsCount(w)
  BY <1>1 DEF HoldsCount
<1>5. QED BY <1>0, <1>1, <1>3, <1>4 DEF Quiet

-----------------------------------------------------------------------------
(* Counts that Next calls read and store.                                  *)

LEMMA NextCountKeepsLimit ==
  ASSUME TypeInv, TypeInv', NEW w \in Watchers, NextCount(w),
         NEW l \in Links, LimitInv(l)
  PROVE  LimitInv(l)'
<1>0. /\ fetch \in [Watchers -> FetchStates] /\ counted \in [Watchers -> Nat]
      /\ fetch[w] = "assigned"
  BY DEF TypeInv, LinkQueueDBTypeOK, WatcherTypeOK, NextCount
<1>1. /\ UNCHANGED <<publishVars, docVars, waiting, faults>>
      /\ fetch' = [fetch EXCEPT ![w] = "counted"]
      /\ counted' = [counted EXCEPT ![w] = UnassignedCount(w.link)]
  BY DEF NextCount, Start
<1>2. \A k : NeverAssigned(k)' = NeverAssigned(k)
  BY <1>1 DEF NeverAssigned, Unassigned, docVars
<1>3. CASE w.link = l /\ UnassignedCount(l) < Max
  <2>1. Fill(l)' = Fill(l)
    BY <1>2 DEF Fill
  <2>2. Fill(l) <= UnassignedCount(l) /\ Fill(l) \in Nat
    BY SizesHold DEF Sizes
  <2>3. UnassignedCount(l) \in Nat
    BY CountInNat DEF TypeInv, LinkQueueDBTypeOK
  <2>4. Fill(l)' < Max
    BY <1>3, <2>1, <2>2, <2>3, LinkQueueDBAssumption
  <2>5. QED BY <2>4, ReadingFindsRoom
<1>4. CASE ~(w.link = l /\ UnassignedCount(l) < Max)
  <2>1. Fill(l)' <= Fill(l)
    BY <1>2, FillShrinks
  <2>2. SpentWatchers(l) \subseteq SpentWatchers(l)'
    BY <1>0, <1>1, <1>4 DEF SpentWatchers, WatchersOf, HoldsCount
  <2>3. SpentCalls(l)' = SpentCalls(l) /\ Pending(l)' = Pending(l)
    BY <1>1 DEF SpentCalls, AbandonedOn, Holds, Pending, PublishersOf, Stored,
                publishVars, publisherVars
  <2>4. faults' >= faults
    BY <1>1 DEF TypeInv, LinkQueueDBTypeOK, AgentTypeOK
  <2>5. Spent(l)' >= Spent(l)
    BY <2>2, <2>3, <2>4, SpentGrows
  <2>6. /\ (waiting[l] < Max /\ Settled(l))' => waiting[l] < Max /\ Settled(l)
        /\ CountedLow(l)' => CountedLow(l)
    BY <1>1 DEF Settled, CountedLow, publishVars, publisherVars
  <2>7. Cardinality(Pending(l))' <= Cardinality(Pending(l))
    BY <2>3, PendingShrinks
  <2>8. QED BY <2>1, <2>5, <2>6, <2>7, NothingGrows
<1>5. QED BY <1>3, <1>4

LEMMA NextStoreKeepsLimit ==
  ASSUME TypeInv, TypeInv', NEW w \in Watchers, NextStore(w),
         NEW l \in Links, LimitInv(l)
  PROVE  LimitInv(l)'
<1>0. /\ fetch \in [Watchers -> FetchStates] /\ counted \in [Watchers -> Nat]
      /\ fetch[w] = "counted" /\ waiting \in [Links -> Nat] /\ w.link \in Links
      /\ faults \in Nat /\ Max \in Nat
  BY LinkQueueDBAssumption
     DEF TypeInv, LinkQueueDBTypeOK, WatcherTypeOK, AgentTypeOK, NextStore
<1>1. /\ UNCHANGED <<publishVars, docVars, faults>>
      /\ waiting' = [waiting EXCEPT ![w.link] = counted[w]]
      /\ fetch' = [fetch EXCEPT ![w] = "idle"]
      /\ counted' = [counted EXCEPT ![w] = 0]
  BY DEF NextStore, Return, Start
<1>2. Fill(l)' <= Fill(l)
  <2>1. NeverAssigned(l)' = NeverAssigned(l)
    BY <1>1 DEF NeverAssigned, Unassigned, docVars
  <2>2. QED BY <2>1, FillShrinks
<1>3. SpentWatchers(l) \subseteq SpentWatchers(l)'
  BY <1>0, <1>1 DEF SpentWatchers, WatchersOf, HoldsCount
<1>4. SpentCalls(l)' = SpentCalls(l) /\ Pending(l)' = Pending(l)
  BY <1>1 DEF SpentCalls, AbandonedOn, Holds, Pending, PublishersOf, Stored,
              publishVars, publisherVars
<1>5. faults' >= faults
  BY <1>0, <1>1
<1>6. CASE w.link = l /\ counted[w] < Max
  <2>1. w \notin SpentWatchers(l) /\ w \in SpentWatchers(l)'
    BY <1>0, <1>1, <1>6 DEF SpentWatchers, WatchersOf, HoldsCount
  <2>2. Spent(l)' >= Spent(l) + 1
    BY <1>3, <1>4, <1>5, <2>1, SpentGrows
  <2>3. QED BY <1>2, <2>2, SpendingMakesRoom
<1>7. CASE ~(w.link = l /\ counted[w] < Max)
  <2>1. waiting'[l] < Max => waiting[l] < Max
    BY <1>0, <1>1, <1>7
  <2>2. Settled(l)' = Settled(l) /\ CountedLow(l)' = CountedLow(l)
    BY <1>1 DEF Settled, CountedLow, publishVars, publisherVars
  <2>3. Spent(l)' >= Spent(l)
    BY <1>3, <1>4, <1>5, SpentGrows
  <2>4. Cardinality(Pending(l))' <= Cardinality(Pending(l))
    BY <1>4, PendingShrinks
  <2>5. QED BY <1>2, <2>1, <2>2, <2>3, <2>4, NothingGrows
<1>8. QED BY <1>6, <1>7

-----------------------------------------------------------------------------
(* The publishers and the runner of a link.                                *)

\* CanPublish relies on the statistic.
LEMMA CanPublishKeepsLimit ==
  ASSUME TypeInv, TypeInv', NEW p \in Publishers, NEW v \in Values,
         CanPublish(p, v), NEW l \in Links, LimitInv(l)
  PROVE  LimitInv(l)'
<1>1. /\ UNCHANGED <<runner, call, abandoned, stage, seen, docVars, fetch, counted,
                     waiting, faults>>
      /\ value' = [value EXCEPT ![p] = v]
  BY DEF CanPublish, watchVars
<1>2. Fill(l)' <= Fill(l)
  <2>1. NeverAssigned(l)' = NeverAssigned(l)
    BY <1>1 DEF NeverAssigned, Unassigned, docVars
  <2>2. QED BY <2>1, FillShrinks
<1>3. SpentWatchers(l)' = SpentWatchers(l) /\ SpentCalls(l)' = SpentCalls(l)
  BY <1>1 DEF SpentWatchers, WatchersOf, HoldsCount, SpentCalls, AbandonedOn, Holds
<1>4. faults' >= faults
  BY <1>1 DEF TypeInv, LinkQueueDBTypeOK, AgentTypeOK
<1>5. Spent(l)' >= Spent(l)
  BY <1>3, <1>4, SpentGrows
<1>6. CASE p.link = l
  <2>1. call[l] = NoCall
    BY <1>6 DEF CanPublish, TypeInv, LinkQueueDBTypeOK, PublishTypeOK
  <2>2. Room(l)
    BY <1>6, <2>1 DEF LimitInv, Settled, CanPublish
  <2>3. QED BY <1>2, <1>5, <2>2, RoomStays
<1>7. CASE p.link # l
  <2>1. Pending(l)' = Pending(l)
    BY <1>1, <1>7 DEF Pending, PublishersOf, Stored, TypeInv, LinkQueueDBTypeOK,
                      PublishTypeOK
  <2>2. Cardinality(Pending(l))' <= Cardinality(Pending(l))
    BY <2>1, PendingShrinks
  <2>3. /\ (waiting[l] < Max /\ Settled(l))' => waiting[l] < Max /\ Settled(l)
        /\ CountedLow(l)' => CountedLow(l)
    BY <1>1 DEF Settled, CountedLow
  <2>4. QED BY <1>2, <1>5, <2>2, <2>3, NothingGrows
<1>8. QED BY <1>6, <1>7

\* A value is turned down, sent, published or given up.
LEMMA RunnerKeepsLimit ==
  ASSUME TypeInv, TypeInv', CallInv,
         \/ \E p \in Publishers : TurnDown(p) \/ \E c \in Calls : PublishSend(p, c)
         \/ \E k \in Links : PublishReply(k) \/ PublishGiveUp(k),
         NEW l \in Links, LimitInv(l)
  PROVE  LimitInv(l)'
<1>0. /\ value \in [Publishers -> Values \cup {NoValue}]
      /\ runner \in [Links -> Publishers \cup {NoPublisher}]
      /\ call \in [Links -> Calls \cup {NoCall}] /\ NoCall \notin Calls
      /\ stage \in [Calls -> Stages] /\ abandoned \subseteq Calls
      /\ \A k \in Links : runner[k] # NoPublisher => runner[k].link = k
      /\ \A k \in Links : call[k] # NoCall => runner[k] # NoPublisher
      /\ \A p \in Publishers : p.link \in Links
  BY LinkQueueDBAssumption DEF TypeInv, LinkQueueDBTypeOK, PublishTypeOK
<1>1. /\ UNCHANGED <<abandoned, seen, docVars, fetch, counted, waiting, faults>>
  BY DEF TurnDown, PublishSend, PublishReply, PublishGiveUp, RunnerIdle, watchVars
<1>2. Fill(l)' <= Fill(l)
  <2>1. NeverAssigned(l)' = NeverAssigned(l)
    BY <1>1 DEF NeverAssigned, Unassigned, docVars
  <2>2. QED BY <2>1, FillShrinks
<1>3. SpentWatchers(l)' = SpentWatchers(l)
  BY <1>1 DEF SpentWatchers, WatchersOf, HoldsCount
<1>4. faults' >= faults
  BY <1>1 DEF TypeInv, LinkQueueDBTypeOK, AgentTypeOK
<1> SUFFICES /\ Pending(l)' \subseteq Pending(l)
             /\ SpentCalls(l) \subseteq SpentCalls(l)'
             /\ Settled(l)' => Settled(l)
             /\ CountedLow(l)' => CountedLow(l)
  <2>1. Spent(l)' >= Spent(l)
    BY <1>3, <1>4, SpentGrows
  <2>2. Cardinality(Pending(l))' <= Cardinality(Pending(l))
    BY PendingShrinks
  <2>3. (waiting[l] < Max /\ Settled(l))' => waiting[l] < Max /\ Settled(l)
    BY <1>1
  <2>4. QED BY <1>2, <2>1, <2>2, <2>3, NothingGrows
<1>5. ASSUME NEW p \in Publishers, TurnDown(p)
      PROVE  /\ Pending(l)' \subseteq Pending(l)
             /\ SpentCalls(l) \subseteq SpentCalls(l)'
             /\ Settled(l)' => Settled(l)
             /\ CountedLow(l)' => CountedLow(l)
  <2>1. /\ UNCHANGED <<runner, call, stage>>
        /\ value' = [value EXCEPT ![p] = NoValue]
    BY <1>5 DEF TurnDown
  <2>2. QED BY <1>0, <1>1, <2>1 DEF Pending, PublishersOf, Stored, SpentCalls,
               AbandonedOn, Holds, Settled, CountedLow
<1>6. ASSUME NEW p \in Publishers, NEW c \in Calls, PublishSend(p, c)
      PROVE  /\ Pending(l)' \subseteq Pending(l)
             /\ SpentCalls(l) \subseteq SpentCalls(l)'
             /\ Settled(l)' => Settled(l)
             /\ CountedLow(l)' => CountedLow(l)
  <2>1. /\ UNCHANGED value
        /\ runner' = [runner EXCEPT ![p.link] = p]
        /\ call' = [call EXCEPT ![p.link] = c]
        /\ stage' = [stage EXCEPT ![c] = "arriving"]
        /\ c.link = p.link /\ stage[c] = "unused" /\ call[p.link] = NoCall
    BY <1>6 DEF PublishSend
  <2>2. c \notin abandoned /\ \A k \in Links : k # p.link => call[k] # c
    BY <1>0, <2>1 DEF CallInv
  <2>3. SpentCalls(l) \subseteq SpentCalls(l)'
    BY <1>0, <1>1, <2>1, <2>2 DEF SpentCalls, AbandonedOn, Holds
  <2>4. CASE l = p.link
    <3>1. call'[l] = c /\ stage'[c] = "arriving"
      BY <1>0, <2>1, <2>4
    <3>2. QED BY <1>0, <2>1, <2>3, <2>4, <3>1 DEF Pending, PublishersOf, Stored,
                 Settled, CountedLow
  <2>5. CASE l # p.link
    <3>1. call'[l] = call[l] /\ (call[l] # NoCall => stage'[call[l]] = stage[call[l]])
      BY <1>0, <2>1, <2>2, <2>5
    <3>2. runner'[l] = runner[l]
      BY <1>0, <2>1, <2>5
    <3>3. QED BY <1>1, <2>1, <2>3, <3>1, <3>2 DEF Pending, PublishersOf, Stored,
                 Settled, CountedLow
  <2>6. QED BY <2>4, <2>5
<1>7. ASSUME NEW k \in Links, PublishReply(k) \/ PublishGiveUp(k)
      PROVE  /\ Pending(l)' \subseteq Pending(l)
             /\ SpentCalls(l) \subseteq SpentCalls(l)'
             /\ Settled(l)' => Settled(l)
             /\ CountedLow(l)' => CountedLow(l)
  <2>1. /\ UNCHANGED stage
        /\ value' = [value EXCEPT ![runner[k]] = NoValue]
        /\ runner' = [runner EXCEPT ![k] = NoPublisher]
        /\ call' = [call EXCEPT ![k] = NoCall]
        /\ call[k] = NoCall \/ stage[call[k]] = "done"
    BY <1>0, <1>7 DEF PublishReply, PublishGiveUp, RunnerIdle
  <2>2. runner[k] \in Publishers /\ runner[k].link = k
    BY <1>0, <1>7 DEF PublishReply, PublishGiveUp
  <2>3. SpentCalls(l) \subseteq SpentCalls(l)'
    BY <1>1, <2>1 DEF SpentCalls, AbandonedOn, Holds
  <2>4. CASE l = k
    BY <1>0, <2>1, <2>2, <2>3, <2>4 DEF Pending, PublishersOf, Stored, Settled, CountedLow
  <2>5. CASE l # k
    BY <1>0, <1>1, <2>1, <2>2, <2>3, <2>5 DEF Pending, PublishersOf, Stored, Settled,
       CountedLow
  <2>6. QED BY <2>4, <2>5
<1>8. QED BY <1>5, <1>6, <1>7

\* The runner does not wait for its call any longer: the call is abandoned, and
\* spent unless it may still store a document or a low count.
LEMMA RetryKeepsLimit ==
  ASSUME TypeInv, TypeInv', CallInv, NEW k \in Links, PublishRetry(k),
         NEW l \in Links, LimitInv(l)
  PROVE  LimitInv(l)'
<1>0. /\ call \in [Links -> Calls \cup {NoCall}] /\ NoCall \notin Calls
      /\ stage \in [Calls -> Stages] /\ abandoned \subseteq Calls /\ faults \in Nat
      /\ seen \in [Calls -> Nat] /\ Max \in Nat
  BY LinkQueueDBAssumption
     DEF TypeInv, LinkQueueDBTypeOK, PublishTypeOK, AgentTypeOK
<1>1. /\ UNCHANGED <<value, runner, stage, seen, docVars, fetch, counted, waiting, faults>>
      /\ call[k] # NoCall /\ call' = [call EXCEPT ![k] = NoCall]
      /\ \/ stage[call[k]] = "failed" /\ abandoned' = abandoned
         \/ stage[call[k]] # "failed" /\ abandoned' = abandoned \cup {call[k]}
  BY DEF PublishRetry, watchVars
<1>2. Fill(l)' <= Fill(l)
  <2>1. NeverAssigned(l)' = NeverAssigned(l)
    BY <1>1 DEF NeverAssigned, Unassigned, docVars
  <2>2. QED BY <2>1, FillShrinks
<1>3. SpentWatchers(l)' = SpentWatchers(l)
  BY <1>1 DEF SpentWatchers, WatchersOf, HoldsCount
<1>4. SpentCalls(l) \subseteq SpentCalls(l)'
  BY <1>1 DEF SpentCalls, AbandonedOn, Holds
<1>5. Spent(l)' >= Spent(l)
  BY <1>0, <1>1, <1>3, <1>4, SpentGrows
<1>6. call[k].link = k /\ call[k] \in Calls /\ call[k] \notin abandoned
      /\ stage[call[k]] # "unused"
  BY <1>0, <1>1 DEF CallInv
<1>7. CASE l = k /\ stage[call[k]] \in {"arriving", "failed"}
  <2>1. Pending(l)' \subseteq Pending(l)
    BY <1>0, <1>1, <1>7 DEF Pending, PublishersOf, Stored
  <2>2. Settled(l) /\ ~CountedLow(l)'
    BY <1>0, <1>1, <1>7 DEF Settled, CountedLow
  <2>3. Cardinality(Pending(l))' <= Cardinality(Pending(l))
    BY <2>1, PendingShrinks
  <2>4. QED BY <1>1, <1>2, <1>5, <2>2, <2>3, NothingGrows
<1>8. CASE l = k /\ CountedLow(l)
  <2>1. Room(l)
    BY <1>8 DEF LimitInv
  <2>2. QED BY <1>2, <1>5, <2>1, RoomStays
<1>9. CASE l = k /\ stage[call[k]] \in {"stored", "counted", "done"} /\ ~CountedLow(l)
  <2>1. call[k] \in SpentCalls(l)' /\ call[k] \notin SpentCalls(l)
    BY <1>0, <1>1, <1>6, <1>9 DEF SpentCalls, AbandonedOn, Holds, CountedLow
  <2>2. Spent(l)' >= Spent(l) + 1
    BY <1>0, <1>1, <1>3, <1>4, <2>1, SpentGrows
  <2>3. QED BY <1>2, <2>2, SpendingMakesRoom
<1>10. CASE l # k
  <2>1. call'[l] = call[l]
    BY <1>0, <1>1, <1>10
  <2>2. Pending(l)' = Pending(l)
    BY <1>1, <2>1 DEF Pending, PublishersOf, Stored
  <2>3. Settled(l)' = Settled(l) /\ CountedLow(l)' = CountedLow(l)
    BY <1>1, <2>1 DEF Settled, CountedLow
  <2>4. Cardinality(Pending(l))' <= Cardinality(Pending(l))
    BY <2>2, PendingShrinks
  <2>5. QED BY <1>1, <1>2, <1>5, <2>3, <2>4, NothingGrows
<1>11. QED BY <1>0, <1>6, <1>7, <1>8, <1>9, <1>10 DEF Stages

-----------------------------------------------------------------------------
(* The Publish handler.                                                    *)

\* A query fails, or the agent is restarted: there is room for the values that are
\* repeated or not counted.
LEMMA FaultKeepsLimit ==
  ASSUME TypeInv, TypeInv', NEW l \in Links, LimitInv(l),
         UNCHANGED <<abandoned, docVars>>, faults' = faults + 1,
         \A w \in Watchers : HoldsCount(w)' => HoldsCount(w),
         \A c \in Calls : Holds(c)' => Holds(c)
  PROVE  LimitInv(l)'
<1>1. Fill(l)' <= Fill(l)
  <2>1. NeverAssigned(l)' = NeverAssigned(l)
    BY DEF NeverAssigned, Unassigned, docVars
  <2>2. QED BY <2>1, FillShrinks
<1>2. SpentWatchers(l) \subseteq SpentWatchers(l)'
  BY DEF SpentWatchers, WatchersOf
<1>3. SpentCalls(l) \subseteq SpentCalls(l)'
  BY DEF SpentCalls, AbandonedOn, TypeInv, LinkQueueDBTypeOK, PublishTypeOK
<1>4. faults' >= faults
  BY DEF TypeInv, LinkQueueDBTypeOK, AgentTypeOK
<1>5. Spent(l)' >= Spent(l) + 1
  BY <1>2, <1>3, <1>4, SpentGrows
<1>6. QED BY <1>1, <1>5, SpendingMakesRoom

LEMMA PublishFailureKeepsLimit ==
  ASSUME TypeInv, TypeInv', NEW c \in Calls, PublishFails(c) \/ PublishCountFails(c),
         NEW l \in Links, LimitInv(l)
  PROVE  LimitInv(l)'
<1>0. stage \in [Calls -> Stages]
  BY DEF TypeInv, LinkQueueDBTypeOK, PublishTypeOK
<1>1. /\ UNCHANGED <<abandoned, seen, docVars, fetch, counted>> /\ faults' = faults + 1
      /\ \E st \in {"failed", "done"} : stage' = [stage EXCEPT ![c] = st]
  BY DEF PublishFails, PublishCountFails, Fault, publisherVars, watchVars
<1>2. \A w \in Watchers : HoldsCount(w)' => HoldsCount(w)
  BY <1>1 DEF HoldsCount
<1>3. \A d \in Calls : Holds(d)' => Holds(d)
  BY <1>0, <1>1 DEF Holds
<1>4. QED BY <1>1, <1>2, <1>3, FaultKeepsLimit

LEMMA RestartKeepsLimit ==
  ASSUME TypeInv, TypeInv', NEW k \in Links, Restart(k), NEW l \in Links, LimitInv(l)
  PROVE  LimitInv(l)'
<1>0. stage \in [Calls -> Stages]
  BY DEF TypeInv, LinkQueueDBTypeOK, PublishTypeOK
<1>1. /\ UNCHANGED <<abandoned, docVars>> /\ faults' = faults + 1
      /\ fetch' = [w \in Watchers |-> IF w.link = k THEN "idle" ELSE fetch[w]]
      /\ counted' = [w \in Watchers |-> IF w.link = k THEN 0 ELSE counted[w]]
      /\ stage' = [c \in Calls |->
                     IF c.link = k /\ stage[c] \in {"arriving", "stored", "counted"}
                       THEN "failed" ELSE stage[c]]
      /\ seen' = [c \in Calls |-> IF c.link = k THEN 0 ELSE seen[c]]
  BY DEF Restart, Fault, publisherVars
<1>2. \A w \in Watchers : HoldsCount(w)' => HoldsCount(w)
  BY <1>1 DEF HoldsCount
<1>3. \A d \in Calls : Holds(d)' => Holds(d)
  BY <1>0, <1>1 DEF Holds
<1>4. QED BY <1>1, <1>2, <1>3, FaultKeepsLimit

\* A Publish call reads the count.
LEMMA PublishCountKeepsLimit ==
  ASSUME TypeInv, TypeInv', CallInv, NEW c \in Calls, PublishCount(c),
         NEW l \in Links, LimitInv(l)
  PROVE  LimitInv(l)'
<1>0. /\ stage \in [Calls -> Stages] /\ stage[c] = "stored" /\ seen \in [Calls -> Nat]
      /\ call \in [Links -> Calls \cup {NoCall}] /\ abandoned \subseteq Calls
  BY DEF TypeInv, LinkQueueDBTypeOK, PublishTypeOK, PublishCount
<1>1. /\ UNCHANGED <<value, runner, call, abandoned, docVars, fetch, counted, waiting,
                     faults>>
      /\ stage' = [stage EXCEPT ![c] = "counted"]
      /\ seen' = [seen EXCEPT ![c] = UnassignedCount(c.link)]
  BY DEF PublishCount, publisherVars, watchVars
<1>2. NeverAssigned(l)' = NeverAssigned(l)
  BY <1>1 DEF NeverAssigned, Unassigned, docVars
<1>3. CASE c.link = l /\ UnassignedCount(l) < Max
  <2>1. Fill(l)' = Fill(l)
    BY <1>2 DEF Fill
  <2>2. Fill(l) <= UnassignedCount(l) /\ Fill(l) \in Nat
    BY SizesHold DEF Sizes
  <2>3. UnassignedCount(l) \in Nat
    BY CountInNat DEF TypeInv, LinkQueueDBTypeOK
  <2>4. Fill(l)' < Max
    BY <1>3, <2>1, <2>2, <2>3, LinkQueueDBAssumption
  <2>5. QED BY <2>4, ReadingFindsRoom
<1>4. CASE ~(c.link = l /\ UnassignedCount(l) < Max)
  <2>1. Fill(l)' <= Fill(l)
    BY <1>2, FillShrinks
  <2>2. SpentWatchers(l)' = SpentWatchers(l)
    BY <1>1 DEF SpentWatchers, WatchersOf, HoldsCount
  <2>3. SpentCalls(l) \subseteq SpentCalls(l)'
    BY <1>0, <1>1, <1>4 DEF SpentCalls, AbandonedOn, Holds
  <2>4. faults' >= faults
    BY <1>1 DEF TypeInv, LinkQueueDBTypeOK, AgentTypeOK
  <2>5. Spent(l)' >= Spent(l)
    BY <2>2, <2>3, <2>4, SpentGrows
  <2>6. call[l] # NoCall => call[l].link = l /\ call[l] \in Calls
    BY <1>0 DEF CallInv
  <2>7. Pending(l)' = Pending(l)
    BY <1>0, <1>1, <2>6 DEF Pending, PublishersOf, Stored
  <2>8. Settled(l)' => Settled(l)
    BY <1>0, <1>1, <2>6 DEF Settled
  <2>9. CountedLow(l)' => CountedLow(l)
    BY <1>0, <1>1, <1>4, <2>6 DEF CountedLow
  <2>10. Cardinality(Pending(l))' <= Cardinality(Pending(l))
    BY <2>7, PendingShrinks
  <2>11. QED BY <1>1, <2>1, <2>5, <2>8, <2>9, <2>10, NothingGrows
<1>5. QED BY <1>3, <1>4

\* A Publish call stores the count: the runner's call relies on the room there was
\* when it read it, an abandoned call is spent.
LEMMA PublishStoreKeepsLimit ==
  ASSUME TypeInv, TypeInv', CallInv, NEW c \in Calls, PublishStore(c),
         NEW l \in Links, LimitInv(l)
  PROVE  LimitInv(l)'
<1>0. /\ stage \in [Calls -> Stages] /\ stage[c] = "counted" /\ seen \in [Calls -> Nat]
      /\ call \in [Links -> Calls \cup {NoCall}] /\ NoCall \notin Calls
      /\ abandoned \subseteq Calls /\ waiting \in [Links -> Nat]
      /\ c.link \in Links /\ faults \in Nat /\ Max \in Nat
  BY LinkQueueDBAssumption
     DEF TypeInv, LinkQueueDBTypeOK, PublishTypeOK, AgentTypeOK, PublishStore
<1>1. /\ UNCHANGED <<value, runner, call, abandoned, docVars, fetch, counted, faults>>
      /\ stage' = [stage EXCEPT ![c] = "done"]
      /\ seen' = [seen EXCEPT ![c] = 0]
      /\ waiting' = [waiting EXCEPT ![c.link] = seen[c]]
  BY DEF PublishStore, publisherVars, watchVars
<1>2. Fill(l)' <= Fill(l)
  <2>1. NeverAssigned(l)' = NeverAssigned(l)
    BY <1>1 DEF NeverAssigned, Unassigned, docVars
  <2>2. QED BY <2>1, FillShrinks
<1>3. SpentWatchers(l)' = SpentWatchers(l)
  BY <1>1 DEF SpentWatchers, WatchersOf, HoldsCount
<1>4. SpentCalls(l) \subseteq SpentCalls(l)'
  BY <1>0, <1>1 DEF SpentCalls, AbandonedOn, Holds
<1>5. Spent(l)' >= Spent(l)
  BY <1>0, <1>1, <1>3, <1>4, SpentGrows
<1>6. c \in abandoned \/ call[c.link] = c
  BY <1>0 DEF CallInv
<1>7. call[l] # NoCall => call[l].link = l /\ call[l] \in Calls
  BY <1>0 DEF CallInv
<1>8. CASE c.link = l /\ seen[c] < Max /\ call[l] = c
  <2>1. Room(l)
    BY <1>0, <1>8 DEF LimitInv, CountedLow
  <2>2. QED BY <1>2, <1>5, <2>1, RoomStays
<1>9. CASE c.link = l /\ seen[c] < Max /\ c \in abandoned
  <2>1. c \in SpentCalls(l)' /\ c \notin SpentCalls(l)
    BY <1>0, <1>1, <1>9 DEF SpentCalls, AbandonedOn, Holds
  <2>2. Spent(l)' >= Spent(l) + 1
    BY <1>0, <1>1, <1>3, <1>4, <2>1, SpentGrows
  <2>3. QED BY <1>2, <2>2, SpendingMakesRoom
<1>10. CASE ~(c.link = l /\ seen[c] < Max)
  <2>1. (waiting[l] < Max /\ Settled(l))' => waiting[l] < Max /\ Settled(l)
    <3>1. CASE c.link = l
      BY <1>0, <1>1, <1>10, <3>1
    <3>2. CASE c.link # l
      BY <1>0, <1>1, <1>7, <3>2 DEF Settled
    <3>3. QED BY <3>1, <3>2
  <2>2. CountedLow(l)' => CountedLow(l)
    BY <1>0, <1>1, <1>7 DEF CountedLow
  <2>3. Pending(l)' = Pending(l)
    BY <1>0, <1>1, <1>7 DEF Pending, PublishersOf, Stored
  <2>4. Cardinality(Pending(l))' <= Cardinality(Pending(l))
    BY <2>3, PendingShrinks
  <2>5. QED BY <1>2, <1>5, <2>1, <2>2, <2>4, NothingGrows
<1>11. QED BY <1>6, <1>8, <1>9, <1>10

\* A Publish call adds its document: the value of the runner's publisher is not
\* pending any longer, or an abandoned call is spent.
LEMMA CreateDocumentKeepsLimit ==
  ASSUME TypeInv, TypeInv', CallInv, NEW c \in Calls, CreateDocument(c),
         NEW l \in Links, LimitInv(l)
  PROVE  LimitInv(l)'
<1>0. /\ stage \in [Calls -> Stages] /\ stage[c] = "arriving"
      /\ call \in [Links -> Calls \cup {NoCall}] /\ NoCall \notin Calls
      /\ abandoned \subseteq Calls /\ c.link \in Links /\ faults \in Nat /\ Max \in Nat
      /\ runner \in [Links -> Publishers \cup {NoPublisher}]
      /\ call[l] # NoCall => /\ runner[l] \in Publishers /\ runner[l].link = l
                             /\ value[runner[l]] # NoValue
  BY LinkQueueDBAssumption
     DEF TypeInv, LinkQueueDBTypeOK, PublishTypeOK, AgentTypeOK, CreateDocument
<1>1. /\ UNCHANGED <<value, runner, call, abandoned, seen, assigned, everAssigned, fetch,
                     counted, waiting, faults>>
      /\ stage' = [stage EXCEPT ![c] = "stored"]
      /\ queue' = queue \cup {c}
  BY DEF CreateDocument, publisherVars, watchVars
<1>2. SpentWatchers(l)' = SpentWatchers(l)
  BY <1>1 DEF SpentWatchers, WatchersOf, HoldsCount
<1>3. SpentCalls(l) \subseteq SpentCalls(l)'
  BY <1>0, <1>1 DEF SpentCalls, AbandonedOn, Holds
<1>4. Spent(l)' >= Spent(l)
  BY <1>0, <1>1, <1>2, <1>3, SpentGrows
<1>5. call[l] # NoCall => call[l].link = l /\ call[l] \in Calls
  BY <1>0 DEF CallInv
<1>6. CASE c.link # l
  <2>1. NeverAssigned(l)' \subseteq NeverAssigned(l)
    BY <1>1, <1>6 DEF NeverAssigned, Unassigned
  <2>2. Pending(l)' = Pending(l)
    BY <1>0, <1>1, <1>5, <1>6 DEF Pending, PublishersOf, Stored
  <2>3. Settled(l)' = Settled(l) /\ CountedLow(l)' = CountedLow(l)
    BY <1>0, <1>1, <1>5, <1>6 DEF Settled, CountedLow
  <2>4. Fill(l)' <= Fill(l) /\ Cardinality(Pending(l))' <= Cardinality(Pending(l))
    BY <2>1, <2>2, FillShrinks, PendingShrinks
  <2>5. QED BY <1>1, <1>4, <2>3, <2>4, NothingGrows
<1>7. Fill(l)' <= Fill(l) + 1
  <2>1. NeverAssigned(l)' \subseteq NeverAssigned(l) \cup {c}
    BY <1>1 DEF NeverAssigned, Unassigned
  <2>2. IsFiniteSet(NeverAssigned(l)) /\ Cardinality(NeverAssigned(l)) \in Nat
    BY SizesHold DEF Sizes, Fill
  <2>3. /\ IsFiniteSet(NeverAssigned(l) \cup {c})
        /\ Cardinality(NeverAssigned(l) \cup {c}) <= Cardinality(NeverAssigned(l)) + 1
    <3>1. /\ IsFiniteSet(NeverAssigned(l) \cup {c})
          /\ \/ Cardinality(NeverAssigned(l) \cup {c}) = Cardinality(NeverAssigned(l))
             \/ Cardinality(NeverAssigned(l) \cup {c}) = Cardinality(NeverAssigned(l)) + 1
      BY <2>2, FS_AddElement
    <3>2. QED BY <2>2, <3>1
  <2>4. Cardinality(NeverAssigned(l)') <= Cardinality(NeverAssigned(l) \cup {c})
    BY <2>1, <2>3, FS_Subset
  <2>5. Cardinality(NeverAssigned(l)') \in Nat
    <3>1. Sizes'
      BY SizesHold, PTL
    <3>2. QED BY <3>1 DEF Sizes, Fill
  <2>6. Cardinality(NeverAssigned(l) \cup {c}) \in Nat
    BY <2>3, FS_CardinalityType
  <2>7. QED BY <2>2, <2>3, <2>4, <2>5, <2>6 DEF Fill
<1>8. Sizes /\ Sizes'
  BY SizesHold, PTL
<1>9. /\ Fill(l) \in Nat /\ Width(l) \in Nat /\ Spent(l) \in Nat
      /\ Cardinality(Pending(l)) \in Nat
      /\ Fill(l)' \in Nat /\ Spent(l)' \in Nat /\ Cardinality(Pending(l))' \in Nat
  BY <1>8 DEF Sizes
<1>10. Width(l)' = Width(l)
  BY DEF Width, PublishersOf
<1>11. CASE c.link = l /\ call[l] = c
  <2>1. runner[l] \in Pending(l) /\ Pending(l)' \subseteq Pending(l) \ {runner[l]}
    BY <1>0, <1>1, <1>11 DEF Pending, PublishersOf, Stored
  <2>2. IsFiniteSet(Pending(l)) /\ Pending(l)' \in SUBSET Pending(l)
        /\ runner[l] \notin Pending(l)'
    BY <1>8, <2>1 DEF Sizes
  <2>3. Cardinality(Pending(l)') + 1 <= Cardinality(Pending(l))
    BY <2>1, <2>2, OneMore
  <2>4. ~Settled(l)' /\ ~CountedLow(l)'
    BY <1>0, <1>1, <1>11 DEF Settled, CountedLow
  <2>5. Width(l) * (1 + Spent(l)) <= Width(l) * (1 + Spent(l)')
        /\ Width(l) * (1 + Spent(l)) \in Nat /\ Width(l) * (1 + Spent(l)') \in Nat
    BY <1>4, <1>9, Product
  <2>6. Fill(l)' + Cardinality(Pending(l))' <= Max - 1 + Width(l) * (1 + Spent(l)')
    BY <1>0, <1>7, <1>9, <2>3, <2>5 DEF LimitInv
  <2>7. QED BY <1>10, <2>4, <2>6 DEF LimitInv
<1>12. CASE c.link = l /\ call[l] # c
  <2>1. c \in abandoned
    BY <1>0, <1>12 DEF CallInv
  <2>2. c \in SpentCalls(l)' /\ c \notin SpentCalls(l)
    BY <1>0, <1>1, <1>12, <2>1 DEF SpentCalls, AbandonedOn, Holds
  <2>3. Spent(l)' >= Spent(l) + 1
    BY <1>0, <1>1, <1>2, <1>3, <2>2, SpentGrows
  <2>4. Width(l) >= 1
    <3>1. PublishersOf(l) # {} /\ IsFiniteSet(PublishersOf(l))
      <4>1. PublishersOf(l) \in SUBSET Publishers /\ IsFiniteSet(Publishers)
        BY LinkQueueDBAssumption DEF PublishersOf
      <4>2. QED BY <1>0, <1>12, <4>1, FS_Subset DEF CallInv
    <3>2. QED BY <1>9, <3>1, FS_EmptySet DEF Width
  <2>5. /\ Width(l) * Spent(l) \in Nat /\ Width(l) * (1 + Spent(l)) \in Nat
        /\ Width(l) * (1 + Spent(l)) = Width(l) + Width(l) * Spent(l)
        /\ Width(l) * (1 + Spent(l)) <= Width(l) * Spent(l)'
        /\ Width(l) * Spent(l)' \in Nat
        /\ Width(l) * (1 + Spent(l)') = Width(l) + Width(l) * Spent(l)'
    BY <1>9, <2>3, Product
  <2>6. Pending(l)' = Pending(l)
    BY <1>0, <1>1, <1>5, <1>12 DEF Pending, PublishersOf, Stored
  <2>7. /\ (waiting[l] < Max /\ Settled(l))' => waiting[l] < Max /\ Settled(l)
        /\ CountedLow(l)' => CountedLow(l)
    BY <1>0, <1>1, <1>5, <1>12 DEF Settled, CountedLow
  <2>8. Fill(l)' + Cardinality(Pending(l))' <= Max - 1 + Width(l) * (1 + Spent(l)')
    BY <1>0, <1>7, <1>9, <2>4, <2>5, <2>6 DEF LimitInv
  <2>9. Room(l) => Room(l)'
    BY <1>0, <1>7, <1>9, <1>10, <2>4, <2>5 DEF Room
  <2>10. QED BY <1>10, <2>7, <2>8, <2>9 DEF LimitInv
<1>13. QED BY <1>6, <1>11, <1>12

-----------------------------------------------------------------------------
(* The calls of a link.                                                    *)

\* A call that runs is the one the runner waits for, or was abandoned.
LEMMA CallInvStep == TypeInv /\ CallInv /\ [Next]_vars => CallInv'
<1> SUFFICES ASSUME TypeInv, CallInv, [Next]_vars PROVE CallInv'
  OBVIOUS
<1>0. /\ call \in [Links -> Calls \cup {NoCall}] /\ NoCall \notin Calls
      /\ stage \in [Calls -> Stages] /\ abandoned \subseteq Calls
      /\ \A c \in Calls : c.link \in Links
  BY LinkQueueDBAssumption DEF TypeInv, LinkQueueDBTypeOK, PublishTypeOK
<1>1. CASE UNCHANGED <<call, abandoned, stage>>
  BY <1>1 DEF CallInv, PublishersOf
<1>2. ASSUME NEW p \in Publishers, NEW c \in Calls, PublishSend(p, c) PROVE CallInv'
  <2>1. /\ UNCHANGED abandoned /\ p.link \in Links
        /\ call' = [call EXCEPT ![p.link] = c]
        /\ stage' = [stage EXCEPT ![c] = "arriving"]
        /\ c.link = p.link /\ stage[c] = "unused" /\ call[p.link] = NoCall
    BY <1>2, LinkQueueDBAssumption DEF PublishSend
  <2>2. PublishersOf(c.link) # {}
    BY <2>1 DEF PublishersOf
  <2>3. \A k \in Links : call'[k] # NoCall =>
          /\ call'[k].link = k /\ call'[k] \notin abandoned'
          /\ stage'[call'[k]] # "unused"
    BY <1>0, <2>1 DEF CallInv
  <2>4. \A d \in Calls : stage'[d] \in {"arriving", "stored", "counted"} =>
          d \in abandoned' \/ call'[d.link] = d
    BY <1>0, <2>1 DEF CallInv
  <2>5. QED BY <1>0, <2>1, <2>2, <2>3, <2>4 DEF CallInv, PublishersOf
<1>3. ASSUME NEW k \in Links, PublishReply(k) \/ PublishRetry(k) \/ PublishGiveUp(k)
      PROVE  CallInv'
  <2>1. /\ UNCHANGED stage
        /\ call' = [call EXCEPT ![k] = NoCall]
        /\ \/ /\ abandoned' = abandoned
              /\ call[k] = NoCall \/ stage[call[k]] \in {"failed", "done"}
           \/ abandoned' = abandoned \cup {call[k]} /\ call[k] # NoCall
    BY <1>0, <1>3 DEF PublishReply, PublishRetry, PublishGiveUp, RunnerIdle
  <2>2. \A j \in Links : call'[j] # NoCall =>
          /\ call'[j].link = j /\ call'[j] \notin abandoned'
          /\ stage'[call'[j]] # "unused"
    BY <1>0, <2>1 DEF CallInv
  <2>3. \A d \in Calls : stage'[d] \in {"arriving", "stored", "counted"} =>
          d \in abandoned' \/ call'[d.link] = d
    BY <1>0, <2>1 DEF CallInv
  <2>4. QED BY <1>0, <2>1, <2>2, <2>3 DEF CallInv, PublishersOf
<1>4. ASSUME NEW c \in Calls,
             \/ PublishFails(c) \/ CreateDocument(c) \/ PublishCount(c)
             \/ PublishCountFails(c) \/ PublishStore(c)
      PROVE  CallInv'
  <2>1. /\ UNCHANGED <<call, abandoned>>
        /\ stage[c] \in {"arriving", "stored", "counted"}
        /\ \E st \in {"failed", "stored", "counted", "done"} :
             stage' = [stage EXCEPT ![c] = st]
    BY <1>4 DEF PublishFails, CreateDocument, PublishCount, PublishCountFails,
                PublishStore, publisherVars
  <2>2. QED BY <1>0, <2>1 DEF CallInv, PublishersOf
<1>5. ASSUME NEW k \in Links, Restart(k) PROVE CallInv'
  <2>1. /\ UNCHANGED <<call, abandoned>>
        /\ stage' = [c \in Calls |->
                       IF c.link = k /\ stage[c] \in {"arriving", "stored", "counted"}
                         THEN "failed" ELSE stage[c]]
    BY <1>5 DEF Restart, publisherVars
  <2>2. QED BY <1>0, <2>1 DEF CallInv, PublishersOf
<1>6. CASE \/ WatcherNext \/ AckNext \/ SubscriptionNext \/ UNCHANGED vars
           \/ \E p \in Publishers : TurnDown(p) \/ \E v \in Values : CanPublish(p, v)
  <2>1. UNCHANGED <<call, abandoned, stage>>
    BY <1>6 DEF WatcherNext, SubscribeAgain, SubscribeFind, SubscribeCreate,
       SubscribeConflict, NextRenew, NextFindsNone, NextAssign, NextCount,
       NextCountFails, NextStore, AckNext, AckFind, AckRemove, AckRemoveFails,
       SubscriptionNext, Ping, TTLElapses, CloseUnassign, CloseRemove, CloseFails,
       GCList, GCUnassign, GCUnassignFails, GCRemove, GCRemoveFails, TurnDown,
       CanPublish, vars, publishVars, publisherVars
  <2>2. QED BY <1>1, <2>1
<1>7. QED BY <1>2, <1>3, <1>4, <1>5, <1>6 DEF Next, PublishNext

-----------------------------------------------------------------------------
(* The limit.                                                              *)

\* The invariant holds initially: the queue is empty and nobody was allowed a value.
LEMMA InitBacklog == Init => BacklogInv
<1> SUFFICES ASSUME Init PROVE BacklogInv
  OBVIOUS
<1>1. TypeInv
  BY InitTypeInv
<1>2. CallInv
  BY LinkQueueDBAssumption DEF Init, CallInv
<1>3. ASSUME NEW l \in Links PROVE LimitInv(l)
  <2>1. Fill(l) = 0
    BY FS_EmptySet DEF Init, Fill, NeverAssigned, Unassigned
  <2>2. Width(l) \in Nat /\ Spent(l) \in Nat
    BY <1>1, SizesHold DEF Sizes
  <2>3. Width(l) * Spent(l) \in Nat
    BY <2>2, Product
  <2>4. Room(l)
    BY <2>1, <2>2, <2>3, LinkQueueDBAssumption DEF Room
  <2>5. QED BY <1>1, <2>4, RoomSuffices DEF RoomIsEnough
<1>4. QED BY <1>1, <1>2, <1>3 DEF BacklogInv

\* Every step keeps it.
LEMMA NextBacklog == BacklogInv /\ [Next]_vars => BacklogInv'
<1> SUFFICES ASSUME BacklogInv, [Next]_vars PROVE BacklogInv'
  OBVIOUS
<1>1. TypeInv /\ CallInv /\ TypeInv' /\ CallInv'
  BY NextTypeInv, CallInvStep DEF BacklogInv
<1>2. ASSUME NEW l \in Links PROVE LimitInv(l)'
  <2>0. LimitInv(l)
    BY DEF BacklogInv
  <2>1. CASE Quiet
    BY <1>1, <2>0, <2>1, QuietKeepsLimit
  <2>2. CASE PublishNext
    BY <1>1, <2>0, <2>2, CanPublishKeepsLimit, RunnerKeepsLimit, RetryKeepsLimit,
       PublishFailureKeepsLimit, CreateDocumentKeepsLimit, PublishCountKeepsLimit,
       PublishStoreKeepsLimit DEF PublishNext
  <2>3. CASE WatcherNext
    BY <1>1, <2>0, <2>1, <2>3, WatcherIsQuiet, NextCountKeepsLimit,
       NextStoreKeepsLimit DEF WatcherNext
  <2>4. CASE AckNext \/ SubscriptionNext
    BY <1>1, <2>1, <2>4, AckIsQuiet, SubscriptionIsQuiet
  <2>5. ASSUME NEW k \in Links, Restart(k) PROVE LimitInv(l)'
    BY <1>1, <2>0, <2>5, RestartKeepsLimit
  <2>6. CASE UNCHANGED vars
    <3>1. Quiet
      BY <1>1, <2>6 DEF Quiet, vars, publishVars, publisherVars, docVars, watchVars,
         NeverAssigned, Unassigned, HoldsCount, TypeInv, LinkQueueDBTypeOK, AgentTypeOK
    <3>2. QED BY <2>1, <3>1
  <2>7. QED BY <2>2, <2>3, <2>4, <2>5, <2>6 DEF Next
<1>3. QED BY <1>1, <1>2 DEF BacklogInv

\* The limit of a link holds for any number of publishers, inputs and handlers: it is
\* exceeded at most by what stale counts allow.
THEOREM BacklogIsBounded == Spec => []FreshBacklogBound
<1>1. BacklogInv => FreshBacklogBound
  <2> SUFFICES ASSUME BacklogInv, NEW l \in Links
               PROVE  Cardinality(NeverAssigned(l)) <=
                        Max - 1 + Cardinality(PublishersOf(l))
                          * (1 + Cardinality(WatchersOf(l))
                               + Cardinality(AbandonedOn(l)) + faults)
    BY DEF FreshBacklogBound, PublishersOf, WatchersOf, AbandonedOn
  <2> DEFINE all == Cardinality(WatchersOf(l)) + Cardinality(AbandonedOn(l)) + faults
  <2>1. TypeInv /\ LimitInv(l)
    BY DEF BacklogInv
  <2>2. /\ IsFiniteSet(WatchersOf(l)) /\ IsFiniteSet(AbandonedOn(l))
        /\ faults \in Nat
    <3>1. /\ WatchersOf(l) \in SUBSET Watchers /\ AbandonedOn(l) \in SUBSET Calls
          /\ IsFiniteSet(Watchers) /\ IsFiniteSet(Calls) /\ faults \in Nat
      BY <2>1, LinkQueueDBAssumption DEF WatchersOf, AbandonedOn, TypeInv,
         LinkQueueDBTypeOK, PublishTypeOK, AgentTypeOK
    <3>2. QED BY <3>1, FS_Subset
  <2>3. /\ Cardinality(SpentWatchers(l)) <= Cardinality(WatchersOf(l))
        /\ Cardinality(SpentCalls(l)) <= Cardinality(AbandonedOn(l))
    <3>1. /\ SpentWatchers(l) \in SUBSET WatchersOf(l)
          /\ SpentCalls(l) \in SUBSET AbandonedOn(l)
      BY DEF SpentWatchers, SpentCalls
    <3>2. QED BY <2>2, <3>1, FS_Subset
  <2>4. /\ Cardinality(WatchersOf(l)) \in Nat /\ Cardinality(AbandonedOn(l)) \in Nat
    BY <2>2, FS_CardinalityType
  <2>5. /\ Fill(l) \in Nat /\ Width(l) \in Nat /\ Cardinality(Pending(l)) \in Nat
        /\ Cardinality(SpentWatchers(l)) \in Nat
        /\ Cardinality(SpentCalls(l)) \in Nat /\ Spent(l) \in Nat
    BY <2>1, SizesHold DEF Sizes
  <2>6. Spent(l) <= all /\ all \in Nat
    BY <2>2, <2>3, <2>4, <2>5 DEF Spent
  <2>7. /\ Width(l) * (1 + Spent(l)) <= Width(l) * (1 + all)
        /\ Width(l) * (1 + Spent(l)) \in Nat /\ Width(l) * (1 + all) \in Nat
    <3> HIDE DEF all
    <3>1. 1 + Spent(l) \in Nat /\ 1 + all \in Nat /\ 1 + Spent(l) <= 1 + all
      BY <2>5, <2>6
    <3>2. QED BY <2>5, <3>1, Product
  <2>8. Fill(l) <= Max - 1 + Width(l) * (1 + all)
    <3> HIDE DEF all
    <3>1. QED BY <2>1, <2>5, <2>7, LinkQueueDBAssumption DEF LimitInv
  <2>9. 1 + all = 1 + Cardinality(WatchersOf(l)) + Cardinality(AbandonedOn(l)) + faults
    BY <2>2, <2>4
  <2>10. QED BY <2>8, <2>9 DEF Fill, Width
<1>2. QED BY <1>1, InitBacklog, NextBacklog, PTL DEF Spec
=============================================================================
