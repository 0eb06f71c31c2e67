--------------------------- MODULE OutputPublisher ---------------------------
(***************************************************************************)
(* The output publisher of a task agent for one output with several links  *)
(* (pkg/agent/task/output_publisher.go).                                   *)
(*                                                                         *)
(* Calls of Publish run concurrently: one from the processor of a finished *)
(* execution, others from OutputReady requests of running executors.  A    *)
(* call first asks the runner of every link whether publication is allowed *)
(* and then hands its value to every runner; each link has a goroutine on  *)
(* either side.  All channels are unbuffered, so a send and its receive    *)
(* are one step.                                                           *)
(***************************************************************************)
EXTENDS Naturals, FiniteSets

CONSTANTS Calls,     \* calls of Publish; each publishes a value of its own
          Requests,  \* those whose context can end: the OutputReady request
                     \* is cancelled, or Restart replaces the execution
          Links,     \* the links of the output
          NoCall

ASSUME OutputPublisherAssumption ==
  NoCall \notin Calls /\ Requests \subseteq Calls /\ Links # {}

VARIABLES
  phase,      \* phase[c]: how far call c has come
  gone,       \* calls whose context was cancelled by the caller
  ask,        \* ask[c][l]: the goroutine of c that asks the runner of l
  hand,       \* hand[c][l]: the goroutine of c that hands the value to it
  runner,     \* runner[l]: what runForOutput does for link l
  serving,    \* serving[l]: the call whose request or value it has in hand
  published,  \* published[l]: values the link accepted
  givenUp,    \* givenUp[l]: values whose publication failed until the timeout
  panicked    \* a send on, or close of, a closed channel ended the task agent

callVars == <<phase, gone>>
requestVars == <<ask, hand>>
runnerVars == <<runner, serving>>
linkVars == <<published, givenUp>>
vars == <<callVars, requestVars, runnerVars, linkVars, panicked>>

Init ==
  /\ phase = [c \in Calls |-> "idle"]
  /\ gone = {}
  /\ ask = [c \in Calls |-> [l \in Links |-> "none"]]
  /\ hand = [c \in Calls |-> [l \in Links |-> "none"]]
  /\ runner = [l \in Links |-> "selecting"]
  /\ serving = [l \in Links |-> NoCall]
  /\ published = [l \in Links |-> {}]
  /\ givenUp = [l \in Links |-> {}]
  /\ panicked = FALSE

-----------------------------------------------------------------------------
(* Publish.                                                                *)

Begin(c) ==
  /\ ~panicked
  /\ phase[c] = "idle"
  /\ phase' = [phase EXCEPT ![c] = "asking"]
  /\ ask' = [ask EXCEPT ![c] = [l \in Links |-> "offering"]]
  /\ UNCHANGED <<gone, hand, runnerVars, linkVars, panicked>>

\* canPublishChan <- canPublishResultChan
Ask(c, l) ==
  /\ ~panicked
  /\ ask[c][l] = "offering" /\ runner[l] = "selecting"
  /\ ask' = [ask EXCEPT ![c][l] = "sent"]
  /\ runner' = [runner EXCEPT ![l] = "querying"]
  /\ serving' = [serving EXCEPT ![l] = c]
  /\ UNCHANGED <<callVars, hand, linkVars, panicked>>

\* The context of the call is cancelled while Publish waits.
CallerGone(c) ==
  /\ ~panicked
  /\ c \in Requests /\ phase[c] \in {"asking", "handing"}
  /\ gone' = gone \cup {c}
  /\ UNCHANGED <<phase, requestVars, runnerVars, linkVars, panicked>>

\* lctx is done: the result channel is closed, also when the runner has it.
AskGivesUp(c, l) ==
  /\ ~panicked
  /\ c \in gone /\ ask[c][l] \in {"offering", "sent"}
  /\ ask' = [ask EXCEPT ![c][l] = "closed"]
  /\ UNCHANGED <<callVars, hand, runnerVars, linkVars, panicked>>

Asked(c) == phase[c] = "asking"
            /\ \A l \in Links : ask[c][l] \in {"allowed", "refused", "closed"}

\* Mutant: the last answer counts.
ProceedOnOne(c) ==
  /\ ~panicked
  /\ Asked(c)
  /\ \E l \in Links : ask[c][l] = "allowed"
  /\ phase' = [phase EXCEPT ![c] = "handing"]
  /\ hand' = [hand EXCEPT ![c] = [l \in Links |-> "offering"]]
  /\ UNCHANGED <<gone, ask, runnerVars, linkVars, panicked>>

\* All goroutines are back and all links allow it: hand the value over.
Proceed(c) ==
  /\ ~panicked
  /\ Asked(c)
  /\ \A l \in Links : ask[c][l] = "allowed"
  /\ phase' = [phase EXCEPT ![c] = "handing"]
  /\ hand' = [hand EXCEPT ![c] = [l \in Links |-> "offering"]]
  /\ UNCHANGED <<gone, ask, runnerVars, linkVars, panicked>>

\* "Publication is not allowed now", or the context's error.
TurnDown(c) ==
  /\ ~panicked
  /\ Asked(c)
  /\ \E l \in Links : ask[c][l] # "allowed"
  /\ phase' = [phase EXCEPT ![c] =
                 IF \E l \in Links : ask[c][l] = "closed" THEN "failed" ELSE "refused"]
  /\ UNCHANGED <<gone, requestVars, runnerVars, linkVars, panicked>>

\* publishChan <- &av
Hand(c, l) ==
  /\ ~panicked
  /\ hand[c][l] = "offering" /\ runner[l] = "selecting"
  /\ hand' = [hand EXCEPT ![c][l] = "handed"]
  /\ runner' = [runner EXCEPT ![l] = "publishing"]
  /\ serving' = [serving EXCEPT ![l] = c]
  /\ UNCHANGED <<callVars, ask, linkVars, panicked>>

HandGivesUp(c, l) ==
  /\ ~panicked
  /\ c \in gone /\ hand[c][l] = "offering"
  /\ hand' = [hand EXCEPT ![c][l] = "withdrawn"]
  /\ UNCHANGED <<callVars, ask, runnerVars, linkVars, panicked>>

\* Mutant: one link that took the value is enough.
ReturnOnOne(c) ==
  /\ ~panicked
  /\ phase[c] = "handing"
  /\ \A l \in Links : hand[c][l] \in {"handed", "withdrawn"}
  /\ phase' = [phase EXCEPT ![c] =
                 IF \E l \in Links : hand[c][l] = "handed" THEN "accepted" ELSE "failed"]
  /\ UNCHANGED <<gone, requestVars, runnerVars, linkVars, panicked>>

Return(c) ==
  /\ ~panicked
  /\ phase[c] = "handing"
  /\ \A l \in Links : hand[c][l] \in {"handed", "withdrawn"}
  /\ phase' = [phase EXCEPT ![c] =
                 IF \A l \in Links : hand[c][l] = "handed" THEN "accepted" ELSE "failed"]
  /\ UNCHANGED <<gone, requestVars, runnerVars, linkVars, panicked>>

-----------------------------------------------------------------------------
(* runForOutput.                                                           *)

\* CanPublish was answered, or failed until the timeout ("we don't know").
QueryEnds(l) ==
  /\ ~panicked
  /\ runner[l] = "querying"
  /\ \E answer \in {"yes", "no", "unknown"} :
       runner' = [runner EXCEPT ![l] = answer]
  /\ UNCHANGED <<callVars, requestVars, serving, linkVars, panicked>>

Answering(l) == runner[l] \in {"yes", "no", "unknown"}

\* Mutant: nothing is answered when the link could not be asked.
AnswerIfKnown(l) ==
  /\ ~panicked
  /\ Answering(l)
  /\ ask[serving[l]][l] = "sent"
  /\ ask' = IF runner[l] = "unknown" THEN ask
            ELSE [ask EXCEPT ![serving[l]][l] =
                    IF runner[l] = "yes" THEN "allowed" ELSE "refused"]
  /\ runner' = [runner EXCEPT ![l] =
                  IF runner[l] = "unknown" THEN "pausing" ELSE "selecting"]
  /\ serving' = [serving EXCEPT ![l] = NoCall]
  /\ UNCHANGED <<callVars, hand, linkVars, panicked>>

\* The answer is sent and the channel closed.  After an attempt that took too
\* long retry.Do queries again, although the answer was sent.
Answer(l) ==
  /\ ~panicked
  /\ Answering(l)
  /\ ask[serving[l]][l] = "sent"
  /\ ask' = [ask EXCEPT ![serving[l]][l] =
               IF runner[l] = "yes" THEN "allowed" ELSE "refused"]
  /\ \/ /\ runner' = [runner EXCEPT ![l] =
                        IF runner[l] = "unknown" THEN "pausing" ELSE "selecting"]
        /\ serving' = [serving EXCEPT ![l] = NoCall]
     \/ /\ runner[l] # "unknown"
        /\ runner' = [runner EXCEPT ![l] = "querying"]
        /\ UNCHANGED serving
  /\ UNCHANGED <<callVars, hand, linkVars, panicked>>

\* The channel was closed, by the asking goroutine or by the runner itself.
AnswerPanics(l) ==
  /\ ~panicked
  /\ Answering(l)
  /\ ask[serving[l]][l] # "sent"
  /\ panicked' = TRUE
  /\ UNCHANGED <<callVars, requestVars, runnerVars, linkVars>>

\* Mutant: the value in hand is forgotten first.
PublishSucceedsLate(l) ==
  /\ ~panicked
  /\ runner[l] = "publishing"
  /\ serving' = [serving EXCEPT ![l] = NoCall]
  /\ published' = [published EXCEPT ![l] = @ \cup {serving'[l]}]
  /\ runner' = [runner EXCEPT ![l] = "selecting"]
  /\ UNCHANGED <<callVars, requestVars, givenUp, panicked>>

\* The link accepted the value.
PublishSucceeds(l) ==
  /\ ~panicked
  /\ runner[l] = "publishing"
  /\ published' = [published EXCEPT ![l] = @ \cup {serving[l]}]
  /\ runner' = [runner EXCEPT ![l] = "selecting"]
  /\ serving' = [serving EXCEPT ![l] = NoCall]
  /\ UNCHANGED <<callVars, requestVars, givenUp, panicked>>

\* No attempt succeeded until the timeout: the value is dropped.
PublishFails(l) ==
  /\ ~panicked
  /\ runner[l] = "publishing"
  /\ givenUp' = [givenUp EXCEPT ![l] = @ \cup {serving[l]}]
  /\ runner' = [runner EXCEPT ![l] = "pausing"]
  /\ serving' = [serving EXCEPT ![l] = NoCall]
  /\ UNCHANGED <<callVars, requestVars, published, panicked>>

\* Two seconds later, with a new connection.
Resume(l) ==
  /\ ~panicked
  /\ runner[l] = "pausing"
  /\ runner' = [runner EXCEPT ![l] = "selecting"]
  /\ UNCHANGED <<callVars, requestVars, serving, linkVars, panicked>>

-----------------------------------------------------------------------------
Internal(c) == Proceed(c) \/ TurnDown(c) \/ Return(c)
Leaving(c, l) == AskGivesUp(c, l) \/ HandGivesUp(c, l)
Working(l) == \/ QueryEnds(l) \/ AnswerPanics(l) \/ PublishSucceeds(l)
              \/ PublishFails(l) \/ Resume(l)

Next ==
  \/ \E c \in Calls : Begin(c) \/ CallerGone(c) \/ Internal(c)
  \/ \E c \in Calls, l \in Links : Ask(c, l) \/ Hand(c, l) \/ Leaving(c, l)
  \/ \E l \in Links : Working(l) \/ Answer(l)

Spec == Init /\ [][Next]_vars

-----------------------------------------------------------------------------
(* Properties.                                                             *)

Phases == {"idle", "asking", "handing", "accepted", "refused", "failed"}

OutputPublisherTypeOK ==
  /\ phase \in [Calls -> Phases]
  /\ gone \subseteq Calls
  /\ ask \in [Calls -> [Links -> {"none", "offering", "sent", "allowed",
                                  "refused", "closed"}]]
  /\ hand \in [Calls -> [Links -> {"none", "offering", "handed", "withdrawn"}]]
  /\ runner \in [Links -> {"selecting", "querying", "yes", "no", "unknown",
                           "publishing", "pausing"}]
  /\ serving \in [Links -> Calls \cup {NoCall}]
  /\ published \in [Links -> SUBSET Calls]
  /\ givenUp \in [Links -> SUBSET Calls]
  /\ panicked \in BOOLEAN

\* The value of c has left Publish in the direction of link l.
Reached(c, l) == c \in published[l] \cup givenUp[l]
                 \/ (runner[l] = "publishing" /\ serving[l] = c)

\* Accepted means handed to every link; "publication is not allowed now" means
\* that no link has the value, so that the executor can offer it again without
\* making a second one.  Only a call whose caller went away leaves it on some
\* links and not on others.
AllLinksOrNone ==
  \A c \in Calls :
    /\ phase[c] = "accepted" => \A l \in Links : Reached(c, l)
    /\ phase[c] \in {"asking", "refused"} => \A l \in Links : ~Reached(c, l)
    /\ phase[c] = "failed" => c \in gone

\* No link gets a value before every link has said yes to it: a link that is
\* full holds the value back from all others too.
EveryLinkAsked ==
  \A c \in Calls, l \in Links :
    Reached(c, l) => \A m \in Links : ask[c][m] = "allowed"

-----------------------------------------------------------------------------
(* Liveness.  Goroutines run, RPCs end with an answer or at their deadline, *)
(* select is fair between its ready channels, and only finitely often does *)
(* an answer reach the asking goroutine but not retry.Do in time.          *)

Fairness ==
  /\ \A c \in Calls : WF_vars(Internal(c))
  /\ \A c \in Calls, l \in Links : SF_vars(Ask(c, l) \/ Hand(c, l) \/ Leaving(c, l))
  /\ \A l \in Links : WF_vars(Working(l) \/ Answer(l))

FairSpec == Spec /\ Fairness

\* Calls that compete for the runners of several links do not block each other
\* for ever: every call of Publish returns, unless the task agent panics.
PublishReturns ==
  \A c \in Calls :
    phase[c] # "idle" ~> panicked \/ phase[c] \in {"accepted", "refused", "failed"}

\* "canPublishResultChan has reached other go-routine and it will be closed there"
\* (output_publisher.go): once the runner has the channel, nobody else closes it,
\* and the runner does so once.
ChannelClosedByRunner == ~panicked
=============================================================================
