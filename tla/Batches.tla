------------------------------ MODULE Batches -------------------------------
(***************************************************************************)
(* What a task agent promises about the values it receives, without        *)
(* watchers, sequences, policies, channels or counters: every value enters *)
(* at most one batch; a batch takes all values that wait when it is built; *)
(* it is executed, and values of it are acknowledged, once, after a        *)
(* success only.  The concessions: a value may wait for ever, and the      *)
(* acknowledgement of a batch may be incomplete.                           *)
(***************************************************************************)
EXTENDS Naturals, Sequences

CONSTANT Values

VARIABLES arrived,   \* values that the links have handed to the agent
          pending,   \* those that wait for the next batch
          batch,     \* batch[n]: the values of the n-th batch
          progress,  \* progress[n]: how far its execution has come
          acked      \* values acknowledged to their link

batchesVars == <<arrived, pending, batch, progress, acked>>

BatchesInit ==
  /\ arrived = {} /\ pending = {} /\ acked = {}
  /\ batch = <<>> /\ progress = <<>>

\* Arrived, but not added yet.
Unplaced == arrived \ (pending \cup UNION {batch[n] : n \in DOMAIN batch})

Arrive(v) ==
  /\ v \notin arrived
  /\ arrived' = arrived \cup {v}
  /\ UNCHANGED <<pending, batch, progress, acked>>

Add(v) ==
  /\ v \in Unplaced
  /\ pending' = pending \cup {v}
  /\ UNCHANGED <<arrived, batch, progress, acked>>

Complete(v) ==
  /\ v \in Unplaced
  /\ batch' = Append(batch, pending \cup {v})
  /\ progress' = Append(progress, "queued")
  /\ pending' = {}
  /\ UNCHANGED <<arrived, acked>>

Progress(n, from, to) ==
  /\ progress[n] = from
  /\ progress' = [progress EXCEPT ![n] = to]
  /\ UNCHANGED <<arrived, pending, batch>>

Begin(n) == Progress(n, "queued", "running") /\ UNCHANGED acked
Fail(n) == Progress(n, "running", "failed") /\ UNCHANGED acked
Succeed(n) == Progress(n, "running", "succeeded") /\ UNCHANGED acked

Acknowledge(n) ==
  /\ Progress(n, "succeeded", "done")
  /\ \E done \in SUBSET batch[n] : acked' = acked \cup done

BatchesNext ==
  \/ \E v \in Values : Arrive(v) \/ Add(v) \/ Complete(v)
  \/ \E n \in DOMAIN batch : Begin(n) \/ Fail(n) \/ Succeed(n) \/ Acknowledge(n)

BatchesSpec == BatchesInit /\ [][BatchesNext]_batchesVars
=============================================================================
