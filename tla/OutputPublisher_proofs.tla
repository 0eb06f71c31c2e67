------------------------ MODULE OutputPublisher_proofs ------------------------
(***************************************************************************)
(* Proofs about OutputPublisher, for any number of concurrent calls of     *)
(* Publish and any number of links.                                        *)
(***************************************************************************)
EXTENDS OutputPublisher, TLAPS

\* A runner at work serves a call.
ServesInv ==
  \A l \in Links :
    runner[l] \in {"querying", "yes", "no", "unknown", "publishing"} => serving[l] \in Calls

\* How far call c has come tells what its goroutines for link l have done; values are
\* handed over after every link was asked, and a value that was handed over reached the
\* link.  Goroutines give up only when the caller is gone.
CallInv(c, l) ==
  /\ phase[c] \in {"idle", "asking", "refused"} => hand[c][l] = "none"
  /\ phase[c] = "idle" => ask[c][l] = "none"
  /\ phase[c] = "accepted" => hand[c][l] = "handed"
  /\ phase[c] = "failed" => c \in gone
  /\ hand[c][l] # "none" \/ phase[c] = "handing" => \A m \in Links : ask[c][m] = "allowed"
  /\ ask[c][l] = "closed" \/ hand[c][l] = "withdrawn" => c \in gone
  /\ Reached(c, l) <=> hand[c][l] = "handed"

IndInv ==
  /\ OutputPublisherTypeOK /\ ServesInv
  /\ \A c \in Calls, l \in Links : CallInv(c, l)

LEMMA InitIndInv == Init => IndInv
<1> SUFFICES ASSUME Init PROVE IndInv
  OBVIOUS
<1>1. OutputPublisherTypeOK
  BY DEF Init, OutputPublisherTypeOK, Phases
<1>2. ServesInv
  BY DEF Init, ServesInv
<1>3. ASSUME NEW c \in Calls, NEW l \in Links PROVE CallInv(c, l)
  <2>1. ~Reached(c, l)
    BY DEF Init, Reached
  <2>2. QED BY <2>1 DEF Init, CallInv
<1>4. QED BY <1>1, <1>2, <1>3 DEF IndInv

\* Steps of Publish, one for each call.
CallStep(c) == Begin(c) \/ CallerGone(c) \/ Internal(c)
\* Steps of a goroutine of c for link l, or of the runner of l.
PairStep(c, l) == Ask(c, l) \/ Hand(c, l) \/ Leaving(c, l)
RunnerStep(l) == Working(l) \/ Answer(l)

\* Functions stay functions when a value of theirs is replaced.
LEMMA Replaced ==
  ASSUME NEW S, NEW V, NEW f \in [S -> V], NEW s \in S, NEW v \in V
  PROVE  [f EXCEPT ![s] = v] \in [S -> V]
OBVIOUS

LEMMA ReplacedIn ==
  ASSUME NEW S, NEW T, NEW V, NEW f \in [S -> [T -> V]], NEW s \in S, NEW t \in T, NEW v \in V
  PROVE  [f EXCEPT ![s][t] = v] \in [S -> [T -> V]]
<1>1. [f[s] EXCEPT ![t] = v] \in [T -> V]
  BY Replaced
<1>2. QED BY <1>1, Replaced

\* What the goroutines of Publish can be doing.
Asking == {"none", "offering", "sent", "allowed", "refused", "closed"}
Handing == {"none", "offering", "handed", "withdrawn"}

\* Types first.
LEMMA TypeStep ==
  ASSUME OutputPublisherTypeOK, ServesInv, [Next]_vars
  PROVE  OutputPublisherTypeOK' /\ ServesInv'
<1> USE OutputPublisherAssumption
<1>1. CASE UNCHANGED vars
  BY <1>1 DEF vars, callVars, requestVars, runnerVars, linkVars, OutputPublisherTypeOK, ServesInv
<1>2. ASSUME NEW c \in Calls, CallStep(c) PROVE OutputPublisherTypeOK' /\ ServesInv'
  <2>1. UNCHANGED <<runnerVars, linkVars, panicked>>
    BY <1>2 DEF CallStep, Begin, CallerGone, Internal, Proceed, TurnDown, Return
  <2>2. gone' = gone \/ gone' = gone \cup {c}
    BY <1>2 DEF CallStep, Begin, CallerGone, Internal, Proceed, TurnDown, Return
  <2>3. phase' = phase \/ \E q \in Phases : phase' = [phase EXCEPT ![c] = q]
    BY <1>2 DEF CallStep, Begin, CallerGone, Internal, Proceed, TurnDown, Return, Phases
  <2>4. /\ ask' = ask \/ ask' = [ask EXCEPT ![c] = [l \in Links |-> "offering"]]
        /\ hand' = hand \/ hand' = [hand EXCEPT ![c] = [l \in Links |-> "offering"]]
    BY <1>2 DEF CallStep, Begin, CallerGone, Internal, Proceed, TurnDown, Return, requestVars
  <2>5. phase' \in [Calls -> Phases] /\ gone' \subseteq Calls
    BY <2>2, <2>3 DEF OutputPublisherTypeOK
  <2>6. ask \in [Calls -> [Links -> Asking]] /\ hand \in [Calls -> [Links -> Handing]]
    BY DEF OutputPublisherTypeOK, Asking, Handing
  <2>7. [l \in Links |-> "offering"] \in [Links -> Asking]
        /\ [l \in Links |-> "offering"] \in [Links -> Handing]
    BY DEF Asking, Handing
  <2>8. ask' \in [Calls -> [Links -> Asking]] /\ hand' \in [Calls -> [Links -> Handing]]
    <3>1. [ask EXCEPT ![c] = [l \in Links |-> "offering"]] \in [Calls -> [Links -> Asking]]
      BY <2>6, <2>7, Replaced
    <3>2. [hand EXCEPT ![c] = [l \in Links |-> "offering"]] \in [Calls -> [Links -> Handing]]
      BY <2>6, <2>7, Replaced
    <3>3. QED BY <2>4, <2>6, <3>1, <3>2
  <2>9. QED BY <2>1, <2>5, <2>8
          DEF OutputPublisherTypeOK, ServesInv, runnerVars, linkVars, Asking, Handing
<1>3. ASSUME NEW c \in Calls, NEW l \in Links, PairStep(c, l)
      PROVE  OutputPublisherTypeOK' /\ ServesInv'
  <2>1. CASE Ask(c, l)
    BY <2>1 DEF Ask, callVars, linkVars, OutputPublisherTypeOK, ServesInv
  <2>2. CASE Hand(c, l)
    BY <2>2 DEF Hand, callVars, linkVars, OutputPublisherTypeOK, ServesInv
  <2>3. CASE Leaving(c, l)
    <3>1. UNCHANGED <<callVars, runnerVars, linkVars, panicked>>
          /\ (ask' = ask \/ ask' = [ask EXCEPT ![c][l] = "closed"])
          /\ (hand' = hand \/ hand' = [hand EXCEPT ![c][l] = "withdrawn"])
      BY <2>3 DEF Leaving, AskGivesUp, HandGivesUp
    <3>2. ask \in [Calls -> [Links -> Asking]] /\ hand \in [Calls -> [Links -> Handing]]
      BY DEF OutputPublisherTypeOK, Asking, Handing
    <3>3. "closed" \in Asking /\ "withdrawn" \in Handing
      BY DEF Asking, Handing
    <3>4. ask' \in [Calls -> [Links -> Asking]] /\ hand' \in [Calls -> [Links -> Handing]]
      <4>1. [ask EXCEPT ![c][l] = "closed"] \in [Calls -> [Links -> Asking]]
        BY <3>2, <3>3, ReplacedIn
      <4>2. [hand EXCEPT ![c][l] = "withdrawn"] \in [Calls -> [Links -> Handing]]
        BY <3>2, <3>3, ReplacedIn
      <4>3. QED BY <3>1, <3>2, <4>1, <4>2
    <3>5. QED BY <3>1, <3>4 DEF callVars, runnerVars, linkVars, OutputPublisherTypeOK,
                                ServesInv, Asking, Handing
  <2>4. QED BY <1>3, <2>1, <2>2, <2>3 DEF PairStep
<1>4. ASSUME NEW l \in Links, RunnerStep(l) PROVE OutputPublisherTypeOK' /\ ServesInv'
  <2>1. CASE QueryEnds(l) \/ Resume(l)
    BY <2>1 DEF QueryEnds, Resume, callVars, requestVars, linkVars, OutputPublisherTypeOK, ServesInv
  <2>2. CASE AnswerPanics(l)
    BY <2>2 DEF AnswerPanics, callVars, requestVars, runnerVars, linkVars,
                OutputPublisherTypeOK, ServesInv
  <2>3. CASE PublishSucceeds(l) \/ PublishFails(l)
    <3>1. serving[l] \in Calls
      BY <2>3 DEF PublishSucceeds, PublishFails, ServesInv
    <3>2. /\ published' = published
             \/ published' = [published EXCEPT ![l] = published[l] \cup {serving[l]}]
          /\ givenUp' = givenUp \/ givenUp' = [givenUp EXCEPT ![l] = givenUp[l] \cup {serving[l]}]
      BY <2>3 DEF PublishSucceeds, PublishFails
    <3>3. published' \in [Links -> SUBSET Calls] /\ givenUp' \in [Links -> SUBSET Calls]
      <4>1. /\ published \in [Links -> SUBSET Calls] /\ givenUp \in [Links -> SUBSET Calls]
            /\ published[l] \cup {serving[l]} \in SUBSET Calls
            /\ givenUp[l] \cup {serving[l]} \in SUBSET Calls
        BY <3>1 DEF OutputPublisherTypeOK
      <4>2. QED BY <3>2, <4>1, Replaced
    <3>4. /\ UNCHANGED <<callVars, requestVars, panicked>>
          /\ serving' = [serving EXCEPT ![l] = NoCall]
          /\ runner' = [runner EXCEPT ![l] = "selecting"] \/ runner' = [runner EXCEPT ![l] = "pausing"]
      BY <2>3 DEF PublishSucceeds, PublishFails
    <3>5. QED BY <3>3, <3>4 DEF OutputPublisherTypeOK, ServesInv, callVars, requestVars
  <2>4. CASE Answer(l)
    BY <2>4 DEF Answer, Answering, callVars, linkVars, OutputPublisherTypeOK, ServesInv
  <2>5. QED BY <1>4, <2>1, <2>2, <2>3, <2>4 DEF RunnerStep, Working
<1>5. QED BY <1>1, <1>2, <1>3, <1>4 DEF Next, CallStep, PairStep, RunnerStep

\* Publish.
LEMMA CallSteps ==
  ASSUME IndInv, NEW d \in Calls, CallStep(d), NEW c \in Calls, NEW l \in Links
  PROVE  CallInv(c, l)'
<1> USE DEF IndInv
<1>1. UNCHANGED <<runnerVars, linkVars>>
  BY DEF CallStep, Begin, CallerGone, Internal, Proceed, TurnDown, Return
<1>2. Reached(c, l)' <=> Reached(c, l)
  BY <1>1 DEF Reached, runnerVars, linkVars
<1>3. CASE Begin(d)
  BY <1>2, <1>3 DEF Begin, CallInv, OutputPublisherTypeOK
<1>4. CASE CallerGone(d)
  BY <1>2, <1>4 DEF CallerGone, CallInv, requestVars, OutputPublisherTypeOK
<1>5. CASE Proceed(d)
  BY <1>2, <1>5 DEF Proceed, Asked, CallInv, OutputPublisherTypeOK
<1>6. CASE TurnDown(d)
  BY <1>2, <1>6 DEF TurnDown, Asked, CallInv, requestVars, OutputPublisherTypeOK
<1>7. CASE Return(d)
  BY <1>2, <1>7 DEF Return, CallInv, requestVars, OutputPublisherTypeOK
<1>8. QED BY <1>3, <1>4, <1>5, <1>6, <1>7 DEF CallStep, Internal

\* The goroutines of Publish.
LEMMA PairSteps ==
  ASSUME IndInv, NEW d \in Calls, NEW k \in Links, PairStep(d, k),
         NEW c \in Calls, NEW l \in Links
  PROVE  CallInv(c, l)'
<1> USE DEF IndInv
<1>1. CASE Ask(d, k)
  <2>1. Reached(c, l)' <=> Reached(c, l)
    BY <1>1 DEF Ask, Reached, linkVars, OutputPublisherTypeOK
  <2>2. ask[d][k] = "offering" /\ ask' = [ask EXCEPT ![d][k] = "sent"]
        /\ UNCHANGED <<callVars, hand>>
    BY <1>1 DEF Ask
  <2>3. \A m \in Links : ask'[c][m] = IF c = d /\ m = k THEN "sent" ELSE ask[c][m]
    BY <2>2 DEF OutputPublisherTypeOK
  <2>4. CallInv(c, l)
    OBVIOUS
  <2>5. QED BY <2>1, <2>2, <2>3, <2>4 DEF CallInv, callVars
<1>2. CASE Hand(d, k)
  <2>1. Reached(c, l)' <=> Reached(c, l) \/ (c = d /\ l = k)
    BY <1>2 DEF Hand, Reached, linkVars, OutputPublisherTypeOK
  <2>2. hand[d][k] = "offering" /\ hand' = [hand EXCEPT ![d][k] = "handed"]
        /\ UNCHANGED <<callVars, ask>>
    BY <1>2 DEF Hand
  <2>3. hand'[c][l] = IF c = d /\ l = k THEN "handed" ELSE hand[c][l]
    BY <2>2 DEF OutputPublisherTypeOK
  <2>4. CallInv(c, l)
    OBVIOUS
  <2>5. QED BY <2>1, <2>2, <2>3, <2>4 DEF CallInv, callVars
<1>3. CASE Leaving(d, k)
  <2>1. Reached(c, l)' <=> Reached(c, l)
    BY <1>3 DEF Leaving, AskGivesUp, HandGivesUp, Reached, runnerVars, linkVars
  <2>2. /\ d \in gone /\ UNCHANGED callVars
        /\ \/ ask[d][k] \in {"offering", "sent"} /\ ask' = [ask EXCEPT ![d][k] = "closed"]
              /\ UNCHANGED hand
           \/ hand[d][k] = "offering" /\ hand' = [hand EXCEPT ![d][k] = "withdrawn"]
              /\ UNCHANGED ask
    BY <1>3 DEF Leaving, AskGivesUp, HandGivesUp
  <2>3. /\ \A m \in Links : ask'[c][m] # ask[c][m] =>
             c \in gone /\ ask[c][m] \in {"offering", "sent"} /\ ask'[c][m] = "closed"
        /\ hand'[c][l] # hand[c][l] =>
             c \in gone /\ hand[c][l] = "offering" /\ hand'[c][l] = "withdrawn"
    <3>1. /\ \A m \in Links : [ask EXCEPT ![d][k] = "closed"][c][m]
                                 = IF c = d /\ m = k THEN "closed" ELSE ask[c][m]
          /\ [hand EXCEPT ![d][k] = "withdrawn"][c][l]
               = IF c = d /\ l = k THEN "withdrawn" ELSE hand[c][l]
      BY DEF OutputPublisherTypeOK
    <3>2. QED BY ONLY c \in Calls, d \in Calls, k \in Links, l \in Links, <2>2, <3>1
  <2>4. CallInv(c, l)
    OBVIOUS
  <2>5. QED BY <2>1, <2>2, <2>3, <2>4 DEF CallInv, callVars
<1>4. QED BY <1>1, <1>2, <1>3 DEF PairStep

\* The runners.
LEMMA RunnerSteps ==
  ASSUME IndInv, NEW k \in Links, RunnerStep(k), NEW c \in Calls, NEW l \in Links
  PROVE  CallInv(c, l)'
<1> USE DEF IndInv
<1>1. UNCHANGED <<callVars, hand>>
  BY DEF RunnerStep, Working, QueryEnds, AnswerPanics, PublishSucceeds, PublishFails, Resume,
         Answer, requestVars
<1>2. Reached(c, l)' <=> Reached(c, l)
  BY DEF RunnerStep, Working, QueryEnds, AnswerPanics, PublishSucceeds, PublishFails, Resume,
         Answer, Answering, Reached, runnerVars, linkVars, OutputPublisherTypeOK
<1>3. CASE UNCHANGED ask
  BY <1>1, <1>2, <1>3 DEF CallInv, callVars
<1>4. CASE Answer(k)
  <2>1. serving[k] \in Calls /\ ask[serving[k]][k] = "sent"
    BY <1>4 DEF Answer, Answering, ServesInv
  <2>2. \A m \in Links : (ask[c][m] = "allowed" => ask'[c][m] = "allowed")
                         /\ (ask'[c][m] = "closed" => ask[c][m] = "closed")
                         /\ (ask'[c][m] # "none" \/ ask[c][m] = "none")
                         /\ (ask[c][m] = "none" => ask'[c][m] = "none")
    BY <1>4, <2>1 DEF Answer, OutputPublisherTypeOK
  <2>3. QED BY <1>1, <1>2, <2>2 DEF CallInv, callVars
<1>5. QED BY <1>3, <1>4 DEF RunnerStep, Working, QueryEnds, AnswerPanics, PublishSucceeds,
                            PublishFails, Resume, requestVars

LEMMA SpecIndInv == Spec => []IndInv
<1>1. IndInv /\ [Next]_vars => IndInv'
  <2>1. SUFFICES ASSUME IndInv, [Next]_vars, NEW c \in Calls, NEW l \in Links
                 PROVE  CallInv(c, l)'
    BY TypeStep DEF IndInv
  <2>2. CASE UNCHANGED vars
    BY <2>1, <2>2 DEF IndInv, CallInv, Reached, vars, callVars, requestVars, runnerVars, linkVars
  <2>3. CASE Next
    BY <2>1, <2>3, CallSteps, PairSteps, RunnerSteps DEF Next, CallStep, PairStep, RunnerStep
  <2>4. QED BY <2>1, <2>2, <2>3
<1>2. QED BY <1>1, InitIndInv, PTL DEF Spec

\* Every variable keeps its type.
THEOREM TypeCorrect == Spec => []OutputPublisherTypeOK
<1>1. IndInv => OutputPublisherTypeOK
  BY DEF IndInv
<1>2. QED BY <1>1, SpecIndInv, PTL

\* A call that is accepted reached every link, one that is refused none, and one that
\* fails lost its caller (Publish and runForOutput in output_publisher.go).
THEOREM AcceptedByAll == Spec => []AllLinksOrNone
<1>1. IndInv => AllLinksOrNone
  BY OutputPublisherAssumption DEF IndInv, CallInv, AllLinksOrNone
<1>2. QED BY <1>1, SpecIndInv, PTL

\* No link gets a value that another one has not allowed (canPublish and publish in
\* output_publisher.go).
THEOREM AskedBeforeHanded == Spec => []EveryLinkAsked
<1>1. IndInv => EveryLinkAsked
  BY DEF IndInv, CallInv, EveryLinkAsked
<1>2. QED BY <1>1, SpecIndInv, PTL

=============================================================================
