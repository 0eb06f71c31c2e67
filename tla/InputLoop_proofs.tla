-------------------------- MODULE InputLoop_proofs --------------------------
(***************************************************************************)
(* Proofs about InputLoop for every finite set of inputs, every set of     *)
(* valid task specifications and every number of annotated values.         *)
(***************************************************************************)
EXTENDS InputLoop, SequenceTheorems, FiniteSetTheorems, TLAPS

-----------------------------------------------------------------------------
(* Sequences of the snapshot.                                              *)

\* What Validate guarantees of the task's specification.
LEMMA SpecFacts ==
  ASSUME spec \in Specs
  PROVE  /\ spec.policy \in {"AllNew", "SwapNew4Old", "SlidingWindow"}
         /\ \A i \in Inputs :
              /\ spec.min[i] \in Nat /\ spec.max[i] \in Nat /\ spec.slide[i] \in Nat
              /\ 1 <= spec.slide[i] /\ spec.slide[i] <= spec.min[i]
              /\ spec.min[i] <= spec.max[i]
              /\ spec.policy = "SlidingWindow" => spec.min[i] = spec.max[i]
              /\ spec.policy = "SwapNew4Old" => spec.min[i] = 1 /\ spec.max[i] = 1
              /\ Target(i) \in SnapshotInputs
<1>1. spec \in TaskSpec /\ Valid(spec)
  BY InputLoopAssumption
<1>2. /\ spec.policy \in {"AllNew", "SwapNew4Old", "SlidingWindow"}
      /\ spec.min \in [Inputs -> Nat] /\ spec.max \in [Inputs -> Nat]
      /\ spec.slide \in [Inputs -> Nat]
      /\ spec.mergeInto \in [Inputs -> Inputs \cup {NoInput}]
  BY <1>1 DEF TaskSpec
<1>3. ASSUME NEW i \in Inputs PROVE Target(i) \in SnapshotInputs
  BY <1>1, <1>2 DEF Valid, Target, SnapshotInputs
<1>4. QED BY <1>1, <1>2, <1>3 DEF Valid

\* WithValue adds one pair, with the duty to acknowledge, at the end of one sequence.
LEMMA WithValueFacts ==
  ASSUME spec \in Specs, snapshot \in [Inputs -> Seq(Pairs)],
         NEW i \in Inputs, received[i] \in 1..MaxArrivals
  PROVE  LET w == WithValue(i)
             t == Target(i)
         IN  /\ w \in [Inputs -> Seq(Pairs)] /\ t \in Inputs
             /\ Len(w[t]) = Len(snapshot[t]) + 1
             /\ \A k \in 1..Len(snapshot[t]) : w[t][k] = snapshot[t][k]
             /\ w[t][Len(snapshot[t]) + 1] = [av |-> <<i, received[i]>>, ack |-> TRUE]
             /\ \A j \in Inputs : j # t => w[j] = snapshot[j]
<1> DEFINE t == Target(i)
           p == [av |-> <<i, received[i]>>, ack |-> TRUE]
<1>1. t \in Inputs
  BY SpecFacts DEF SnapshotInputs
<1>2. p \in Pairs
  BY DEF Pairs, Values
<1>3. WithValue(i) = [snapshot EXCEPT ![t] = Append(@, p)]
  BY DEF WithValue
<1> HIDE DEF t, p
<1>4. /\ Append(snapshot[t], p) \in Seq(Pairs)
      /\ Len(Append(snapshot[t], p)) = Len(snapshot[t]) + 1
      /\ \A k \in 1..Len(snapshot[t]) : Append(snapshot[t], p)[k] = snapshot[t][k]
      /\ Append(snapshot[t], p)[Len(snapshot[t]) + 1] = p
  BY <1>1, <1>2, AppendProperties
<1>5. QED BY <1>1, <1>3, <1>4 DEF t, p

\* SubSeq takes the first m elements off a sequence, or all there are.
LEMMA DropFacts ==
  ASSUME NEW S, NEW q \in Seq(S), NEW m \in Nat
  PROVE  LET r == SubSeq(q, m + 1, Len(q))
             s == IF Len(q) < m THEN Len(q) ELSE m
         IN  /\ r \in Seq(S) /\ s \in 0..Len(q) /\ Len(r) = Len(q) - s
             /\ \A k \in 1..Len(r) : r[k] = q[k + s]
<1> DEFINE r == SubSeq(q, m + 1, Len(q))
           s == IF Len(q) < m THEN Len(q) ELSE m
<1>1. Len(q) \in Nat
  OBVIOUS
<1>2. \A k \in (m + 1)..Len(q) : q[k] \in S
  OBVIOUS
<1>3. /\ r \in Seq(S)
      /\ Len(r) = IF m + 1 <= Len(q) THEN Len(q) - (m + 1) + 1 ELSE 0
      /\ \A k \in 1..(Len(q) - (m + 1) + 1) : r[k] = q[m + 1 + k - 1]
  BY <1>1, <1>2, SubSeqProperties
<1> HIDE DEF r
<1>4. s \in 0..Len(q) /\ Len(r) = Len(q) - s
  <2>1. Len(r) = IF m + 1 <= Len(q) THEN Len(q) - (m + 1) + 1 ELSE 0
    BY <1>3
  <2>2. CASE Len(q) < m
    BY <1>1, <2>1, <2>2
  <2>3. CASE ~(Len(q) < m)
    BY <1>1, <2>1, <2>3
  <2>4. QED BY <2>2, <2>3
<1>5. ASSUME NEW k \in 1..Len(r) PROVE r[k] = q[k + s]
  <2>1. m < Len(q) /\ Len(r) = Len(q) - m
    BY <1>1, <1>3
  <2>2. k \in 1..(Len(q) - (m + 1) + 1) /\ m + 1 + k - 1 = k + m /\ s = m
    BY <1>1, <2>1
  <2>3. QED BY <1>3, <2>2
<1>6. QED BY <1>3, <1>4, <1>5 DEF r

\* How many values the policy takes from the front of a sequence of length n.
Shift(i, n) == CASE spec.policy = "AllNew" -> n
                 [] spec.policy = "SlidingWindow" -> IF n < spec.slide[i] THEN n
                                                     ELSE spec.slide[i]
                 [] spec.policy = "SwapNew4Old" -> 0

\* WithoutAck keeps the values and takes the duties from them.
LEMMA WithoutAckFacts ==
  ASSUME NEW q \in Seq(Pairs)
  PROVE  /\ WithoutAck(q) \in Seq(Pairs) /\ Len(WithoutAck(q)) = Len(q)
         /\ \A k \in 1..Len(q) : /\ WithoutAck(q)[k].av = q[k].av
                                 /\ WithoutAck(q)[k].ack = FALSE
<1>1. DOMAIN q = 1..Len(q) /\ Len(q) \in Nat
  OBVIOUS
<1>2. ASSUME NEW k \in 1..Len(q)
      PROVE  /\ [q[k] EXCEPT !.ack = FALSE] \in Pairs
             /\ [q[k] EXCEPT !.ack = FALSE].av = q[k].av
             /\ [q[k] EXCEPT !.ack = FALSE].ack = FALSE
  <2>1. q[k] \in Pairs
    BY <1>1
  <2>2. QED BY <2>1 DEF Pairs
<1>3. WithoutAck(q) = [k \in 1..Len(q) |-> [q[k] EXCEPT !.ack = FALSE]]
  BY <1>1 DEF WithoutAck
<1>4. WithoutAck(q) \in [1..Len(q) -> Pairs]
  BY <1>2, <1>3
<1>5. WithoutAck(q) \in Seq(Pairs) /\ Len(WithoutAck(q)) = Len(q)
  BY <1>1, <1>4, SeqDef
<1>6. QED BY <1>2, <1>3, <1>5

\* What the policy leaves of a sequence: its end, without duties.
LEMMA PreparedFacts ==
  ASSUME spec \in Specs, NEW i \in Inputs, NEW q \in Seq(Pairs)
  PROVE  LET r == Prepared(i, q)
             s == Shift(i, Len(q))
         IN  /\ r \in Seq(Pairs) /\ s \in 0..Len(q) /\ Len(r) = Len(q) - s
             /\ \A k \in 1..Len(r) : r[k].av = q[k + s].av /\ r[k].ack = FALSE
<1>1. Len(q) \in Nat /\ DOMAIN q = 1..Len(q)
  OBVIOUS
<1>2. CASE spec.policy = "AllNew"
  <2>1. Prepared(i, q) = <<>> /\ Shift(i, Len(q)) = Len(q)
    BY <1>2 DEF Prepared, Shift
  <2>2. QED BY <1>1, <2>1
<1>3. CASE spec.policy = "SlidingWindow"
  <2> DEFINE m == spec.slide[i]
             r == SubSeq(q, m + 1, Len(q))
             s == IF Len(q) < m THEN Len(q) ELSE m
             w == WithoutAck(r)
  <2>1. m \in Nat
    BY SpecFacts
  <2>2. Prepared(i, q) = w /\ Shift(i, Len(q)) = s
    BY <1>3 DEF Prepared, Shift
  <2> HIDE DEF m
  <2>3. /\ r \in Seq(Pairs) /\ s \in 0..Len(q) /\ Len(r) = Len(q) - s
        /\ \A k \in 1..Len(r) : r[k] = q[k + s]
    BY <2>1, DropFacts
  <2> HIDE DEF r
  <2>4. /\ w \in Seq(Pairs) /\ Len(w) = Len(r)
        /\ \A k \in 1..Len(r) : w[k].av = r[k].av /\ w[k].ack = FALSE
    BY <2>3, WithoutAckFacts
  <2> HIDE DEF s, w
  <2>5. QED BY <2>2, <2>3, <2>4
<1>4. CASE spec.policy = "SwapNew4Old"
  <2>1. Prepared(i, q) = WithoutAck(q) /\ Shift(i, Len(q)) = 0
    BY <1>4 DEF Prepared, Shift
  <2> DEFINE w == WithoutAck(q)
  <2>2. /\ w \in Seq(Pairs) /\ Len(w) = Len(q)
        /\ \A k \in 1..Len(q) : w[k].av = q[k].av /\ w[k].ack = FALSE
    BY WithoutAckFacts
  <2> HIDE DEF w
  <2>3. \A k \in 1..Len(w) : k + 0 = k
    BY <1>1, <2>2
  <2>4. Prepared(i, q) = w
    BY <2>1 DEF w
  <2>5. QED BY <1>1, <2>1, <2>2, <2>3, <2>4
<1>5. QED BY <1>2, <1>3, <1>4, SpecFacts

-----------------------------------------------------------------------------
(* Type correctness.                                                       *)

\* A watcher that waits for room has received a value.
TypeInv == InputLoopTypeOK /\ \A i \in Inputs : watcher[i] = "waiting" => received[i] # 0

\* The initial state is well typed.
LEMMA InitTypeInv == Init => TypeInv
<1> SUFFICES ASSUME Init PROVE TypeInv
  OBVIOUS
<1> USE InputLoopAssumption DEF Init
<1>1. <<>> \in Seq([Inputs -> Seq(Pairs)]) /\ <<>> \in Seq(Clones) /\ <<>> \in Seq(Pairs)
      /\ <<>> \in Seq({"sending", "starting", "running", "acking", "finished", "failed"})
  OBVIOUS
<1>2. snapshot \in [Inputs -> Seq(Pairs)]
  BY <1>1
<1>3. \A i \in Inputs : Len(snapshot[i]) <= spec.max[i]
  BY SpecFacts
<1>4. executionCount = Len(contents) /\ Len(stage) = executionCount
  OBVIOUS
<1>5. received \in [Inputs -> 0..MaxArrivals]
  OBVIOUS
<1>6. clone \in [Inputs -> 0..executionCount] /\ lastCancel \in 0..executionCount
  OBVIOUS
<1>7. {waiting, inProgress, succeeded, failed} \subseteq Int
  OBVIOUS
<1>8. acked \subseteq Values /\ stopped \subseteq Clones /\ cancelled \in BOOLEAN
      /\ processor \in {"idle", "executing", "returned"}
  OBVIOUS
<1>9. /\ watcher \in [Inputs -> {"fetching", "waiting", "sending", "returned"}]
      /\ \A i \in Inputs : watcher[i] = "fetching"
  OBVIOUS
<1>10. spec \in Specs /\ contents = <<>> /\ stage = <<>> /\ taken = <<>>
  OBVIOUS
<1> QED BY <1>1, <1>2, <1>3, <1>4, <1>5, <1>6, <1>7, <1>8, <1>9, <1>10
        DEF TypeInv, InputLoopTypeOK

\* Clones are numbered from 1, and clone i of a watcher that sends is one of them.
LEMMA TypeFacts ==
  ASSUME TypeInv
  PROVE  /\ executionCount \in Nat /\ Clones = 1..executionCount
         /\ DOMAIN stage = 1..executionCount
         /\ \A i \in Inputs : watcher[i] = "sending" => clone[i] \in Clones
         /\ \A i \in Inputs : watcher[i] = "waiting" => received[i] \in 1..MaxArrivals
<1>1. executionCount \in Nat /\ Clones = 1..executionCount
  BY DEF TypeInv, InputLoopTypeOK, Clones
<1>2. DOMAIN stage = 1..executionCount
  BY DEF TypeInv, InputLoopTypeOK
<1>3. ASSUME NEW i \in Inputs, watcher[i] = "sending" PROVE clone[i] \in Clones
  <2>1. clone[i] \in 0..executionCount /\ clone[i] # 0
    BY <1>3 DEF TypeInv, InputLoopTypeOK
  <2>2. QED BY <1>1, <2>1
<1>4. ASSUME NEW i \in Inputs, watcher[i] = "waiting"
      PROVE  received[i] \in 1..MaxArrivals
  <2>1. received[i] \in 0..MaxArrivals /\ received[i] # 0
    BY <1>4 DEF TypeInv, InputLoopTypeOK
  <2>2. QED BY <2>1
<1>5. QED BY <1>1, <1>2, <1>3, <1>4

\* What Build makes of the snapshot.
LEMMA BuildFacts ==
  ASSUME TypeInv, NEW i \in Inputs, Build(i)
  PROVE  LET w == WithValue(i)
         IN  /\ w \in [Inputs -> Seq(Pairs)] /\ Target(i) \in Inputs
             /\ \A j \in Inputs : Len(w[j]) \in Nat /\ Len(w[j]) <= spec.max[j]
             /\ executionCount' = executionCount + 1
             /\ contents' \in Seq([Inputs -> Seq(Pairs)])
             /\ Len(contents') = executionCount' /\ contents'[executionCount'] = w
             /\ \A n \in Clones : contents'[n] = contents[n] /\ stage'[n] = stage[n]
             /\ Clones' = 1..executionCount' /\ DOMAIN stage' = 1..executionCount'
             /\ stage'[executionCount'] = "sending"
             /\ snapshot' \in [Inputs -> Seq(Pairs)]
             /\ \A j \in Inputs :
                  /\ snapshot'[j] = Prepared(j, w[j])
                  /\ Len(snapshot'[j]) = Len(w[j]) - Shift(j, Len(w[j]))
                  /\ Shift(j, Len(w[j])) \in 0..Len(w[j])
                  /\ \A k \in 1..Len(snapshot'[j]) :
                       /\ snapshot'[j][k].av = w[j][k + Shift(j, Len(w[j]))].av
                       /\ snapshot'[j][k].ack = FALSE
<1> DEFINE w == WithValue(i)
           Stages == {"sending", "starting", "running", "acking", "finished", "failed"}
<1>1. /\ spec \in Specs /\ snapshot \in [Inputs -> Seq(Pairs)]
      /\ \A j \in Inputs : Len(snapshot[j]) <= spec.max[j]
      /\ executionCount = Len(contents) /\ contents \in Seq([Inputs -> Seq(Pairs)])
      /\ Len(stage) = executionCount /\ stage \in Seq(Stages)
  BY DEF TypeInv, InputLoopTypeOK
<1>2. /\ executionCount' = executionCount + 1 /\ contents' = Append(contents, w)
      /\ stage' = Append(stage, "sending")
      /\ snapshot' = [j \in Inputs |-> Prepared(j, w[j])]
      /\ watcher[i] = "waiting" /\ HasRoom(i)
  BY DEF Build
<1>3. received[i] \in 1..MaxArrivals
  BY <1>2, TypeFacts
<1>4. /\ w \in [Inputs -> Seq(Pairs)] /\ Target(i) \in Inputs
      /\ Len(w[Target(i)]) = Len(snapshot[Target(i)]) + 1
      /\ \A j \in Inputs : j # Target(i) => w[j] = snapshot[j]
  BY <1>1, <1>3, WithValueFacts
<1> HIDE DEF w
<1>5. ASSUME NEW j \in Inputs PROVE Len(w[j]) \in Nat /\ Len(w[j]) <= spec.max[j]
  <2>1. Len(snapshot[j]) \in Nat /\ spec.max[j] \in Nat /\ Len(w[j]) \in Nat
    BY <1>1, <1>4, SpecFacts
  <2>2. CASE j = Target(i)
    BY <1>2, <1>4, <2>1, <2>2 DEF HasRoom
  <2>3. CASE j # Target(i)
    BY <1>1, <1>4, <2>1, <2>3
  <2>4. QED BY <2>2, <2>3
<1>6. /\ contents' \in Seq([Inputs -> Seq(Pairs)])
      /\ Len(contents') = executionCount' /\ contents'[executionCount'] = w
      /\ \A n \in 1..executionCount : contents'[n] = contents[n]
      /\ Clones' = 1..executionCount'
  BY <1>1, <1>2, <1>4, AppendProperties DEF Clones
<1>7. /\ \A n \in 1..executionCount : stage'[n] = stage[n]
      /\ DOMAIN stage' = 1..executionCount' /\ stage'[executionCount'] = "sending"
  BY <1>1, <1>2
<1>8. ASSUME NEW j \in Inputs
      PROVE  LET s == Shift(j, Len(w[j]))
             IN  /\ snapshot'[j] = Prepared(j, w[j])
                 /\ snapshot'[j] \in Seq(Pairs) /\ s \in 0..Len(w[j])
                 /\ Len(snapshot'[j]) = Len(w[j]) - s
                 /\ \A k \in 1..Len(snapshot'[j]) :
                      snapshot'[j][k].av = w[j][k + s].av /\ snapshot'[j][k].ack = FALSE
  <2>1. w[j] \in Seq(Pairs) /\ snapshot'[j] = Prepared(j, w[j])
    BY <1>2, <1>4
  <2> DEFINE r == Prepared(j, w[j])
             s == Shift(j, Len(w[j]))
  <2>2. /\ r \in Seq(Pairs) /\ s \in 0..Len(w[j]) /\ Len(r) = Len(w[j]) - s
        /\ \A k \in 1..Len(r) : r[k].av = w[j][k + s].av /\ r[k].ack = FALSE
    BY <1>1, <2>1, PreparedFacts
  <2>3. snapshot'[j] = r
    BY <2>1
  <2> HIDE DEF r, s
  <2>4. QED BY <2>2, <2>3 DEF r, s
<1>9. snapshot' \in [Inputs -> Seq(Pairs)]
  BY <1>2, <1>8
<1>10. Clones = 1..executionCount
  BY TypeFacts
<1>11. QED BY <1>2, <1>4, <1>5, <1>6, <1>7, <1>8, <1>9, <1>10 DEF w

Stages == {"sending", "starting", "running", "acking", "finished", "failed"}

\* What an execution can do: it moves its own stage on, from one in which it is active.
LEMMA ExecutionFacts ==
  ASSUME TypeInv, NEW n \in DOMAIN stage, ExecutionStep(n)
  PROVE  /\ UNCHANGED <<spec, watchVars, buildVars, taken, lastCancel, stopped, cancelled>>
         /\ processor' \in {"idle", "executing", "returned"}
         /\ \E st \in {"running", "acking", "finished", "failed"} :
              stage' = [stage EXCEPT ![n] = st]
         /\ Active(n)
         /\ acked' # acked => stage' = [stage EXCEPT ![n] = "finished"]
         /\ \A v \in acked' : v \in acked \/ v \in AllToAck(n)
<1> USE DEF vars, execVars, statVars, Active
<1>0. processor \in {"idle", "executing", "returned"}
  BY DEF TypeInv, InputLoopTypeOK
<1>1. CASE ExecuteStarts(n)
  BY <1>0, <1>1 DEF ExecuteStarts
<1>2. CASE ExecuteFails(n)
  BY <1>0, <1>2 DEF ExecuteFails, AfterExecution
<1>3. CASE ExecuteSucceeds(n)
  BY <1>0, <1>3 DEF ExecuteSucceeds
<1>4. CASE AckAll(n)
  <2>1. \A before \in SUBSET SnapshotInputs, i \in SnapshotInputs :
          \A k \in 0..Len(contents[n][i]) :
            AckedUntil(n, before, i, k) \subseteq AllToAck(n)
    <3> SUFFICES ASSUME NEW before \in SUBSET SnapshotInputs, NEW i \in SnapshotInputs,
                        NEW k \in 0..Len(contents[n][i])
                 PROVE  AckedUntil(n, before, i, k) \subseteq AllToAck(n)
      OBVIOUS
    <3>1. Len(contents[n][i]) \in Nat
      <4>1. n \in 1..Len(contents) /\ contents \in Seq([Inputs -> Seq(Pairs)])
        BY TypeFacts DEF TypeInv, InputLoopTypeOK
      <4>2. QED BY <4>1 DEF SnapshotInputs
    <3>2. ToAck(n, i, k) \subseteq ToAck(n, i, Len(contents[n][i]))
      <4>1. 1..k \subseteq 1..Len(contents[n][i])
        BY <3>1
      <4>2. QED BY <4>1 DEF ToAck
    <3>3. ASSUME NEW v \in AckedUntil(n, before, i, k) PROVE v \in AllToAck(n)
      <4>0. v \in ToAck(n, i, k)
            \/ v \in UNION {ToAck(n, j, Len(contents[n][j])) : j \in before}
        BY <3>3 DEF AckedUntil
      <4>1. CASE v \in ToAck(n, i, k)
        BY <3>2, <4>1 DEF AllToAck
      <4>2. CASE v \in UNION {ToAck(n, j, Len(contents[n][j])) : j \in before}
        BY <4>2 DEF AllToAck
      <4>3. QED BY <4>0, <4>1, <4>2
    <3>4. QED BY <3>3
  <2>2. \A v \in acked' : v \in acked \/ v \in AllToAck(n)
    BY <1>4, <2>1 DEF AckAll
  <2>3. QED BY <1>0, <1>4, <2>2 DEF AckAll, AfterExecution
<1>5. QED BY <1>1, <1>2, <1>3, <1>4 DEF ExecutionStep

\* A value to acknowledge is one of the pairs that have the duty.
LEMMA ToAckFacts ==
  ASSUME TypeInv, NEW n \in Clones, NEW v \in AllToAck(n)
  PROVE  /\ v \in Values
         /\ \E i \in Inputs : [av |-> v, ack |-> TRUE] \in Range(contents[n][i])
<1>1. PICK i \in SnapshotInputs : v \in ToAck(n, i, Len(contents[n][i]))
  BY DEF AllToAck
<1>2. contents[n] \in [Inputs -> Seq(Pairs)] /\ i \in Inputs
  <2>1. n \in 1..Len(contents) /\ contents \in Seq([Inputs -> Seq(Pairs)])
    BY TypeFacts DEF TypeInv, InputLoopTypeOK
  <2>2. QED BY <2>1 DEF SnapshotInputs
<1>3. contents[n][i] \in Seq(Pairs)
  BY <1>2
<1>4. PICK j \in 1..Len(contents[n][i]) : contents[n][i][j].ack /\ contents[n][i][j].av = v
  BY <1>1 DEF ToAck
<1>5. contents[n][i][j] \in Pairs
  BY <1>3, <1>4
<1>6. v \in Values /\ contents[n][i][j] = [av |-> v, ack |-> TRUE]
  BY <1>4, <1>5 DEF Pairs
<1>7. j \in DOMAIN contents[n][i]
  BY <1>3, <1>4
<1>8. QED BY <1>2, <1>6, <1>7 DEF Range

\* Taking a part away from a number keeps it below a bound.
LEMMA LessIsAtMost ==
  ASSUME NEW a \in Nat, NEW b \in 0..a, NEW m \in Nat, a <= m, NEW c, c = a - b
  PROVE  c <= m
OBVIOUS

\* Every step keeps the types.
LEMMA TypeStep == TypeInv /\ [Next]_vars => TypeInv'
<1> SUFFICES ASSUME TypeInv, [Next]_vars PROVE TypeInv'
  OBVIOUS
<1>0. /\ InputLoopTypeOK /\ executionCount \in Nat /\ Clones = 1..executionCount
      /\ DOMAIN stage = 1..executionCount
      /\ \A i \in Inputs : watcher[i] = "waiting" => received[i] # 0
  BY TypeFacts DEF TypeInv
<1> USE DEF TypeInv, InputLoopTypeOK
<1>1. ASSUME NEW i \in Inputs, Receive(i) PROVE TypeInv'
  <2>1. received[i] \in 0..MaxArrivals /\ received[i] < MaxArrivals /\ MaxArrivals \in Nat
    BY <1>1, InputLoopAssumption DEF Receive
  <2>2. received[i] + 1 \in 1..MaxArrivals
    BY <2>1
  <2>3. received' \in [Inputs -> 0..MaxArrivals] /\ received'[i] # 0
    BY <1>1, <2>2 DEF Receive
  <2>4. Clones' = Clones
    BY <1>1 DEF Receive, buildVars, Clones
  <2>5. QED BY <1>0, <1>1, <2>3, <2>4 DEF Receive, buildVars, execVars, statVars
<1>2. ASSUME NEW i \in Inputs, Collect(i) PROVE TypeInv'
  <2> DEFINE w == WithValue(i)
  <2>1. received[i] \in 1..MaxArrivals
    BY <1>2, TypeFacts DEF Collect
  <2>2. /\ w \in [Inputs -> Seq(Pairs)] /\ Target(i) \in Inputs
        /\ Len(w[Target(i)]) = Len(snapshot[Target(i)]) + 1
        /\ \A j \in Inputs : j # Target(i) => w[j] = snapshot[j]
    BY <2>1, WithValueFacts
  <2>3. snapshot' = w /\ HasRoom(i) /\ spec' = spec
    BY <1>2 DEF Collect
  <2> HIDE DEF w
  <2>4. ASSUME NEW j \in Inputs PROVE Len(w[j]) <= spec.max[j]
    <3>1. Len(snapshot[j]) \in Nat /\ spec.max[j] \in Nat
      BY SpecFacts
    <3>2. CASE j = Target(i)
      <4>1. Len(snapshot[j]) < spec.max[j] /\ Len(w[j]) = Len(snapshot[j]) + 1
        BY <2>2, <2>3, <3>2 DEF HasRoom
      <4>2. QED BY <3>1, <4>1
    <3>3. CASE j # Target(i)
      BY <1>0, <2>2, <3>3
    <3>4. QED BY <3>2, <3>3
  <2>5. Clones' = Clones
    BY <1>2 DEF Collect, buildVars, Clones
  <2>6. QED BY <1>0, <1>2, <2>2, <2>3, <2>4, <2>5
            DEF Collect, buildVars, execVars, statVars
<1>3. ASSUME NEW i \in Inputs, Build(i) PROVE TypeInv'
  <2>1. /\ executionCount' = executionCount + 1 /\ Len(contents') = executionCount'
        /\ contents' \in Seq([Inputs -> Seq(Pairs)])
        /\ snapshot' \in [Inputs -> Seq(Pairs)] /\ Clones' = 1..executionCount'
    BY <1>3, BuildFacts
  <2>2. ASSUME NEW j \in Inputs PROVE Len(snapshot'[j]) <= spec.max[j]
    <3> DEFINE len == Len(WithValue(i)[j])
    <3>1. /\ len \in Nat /\ len <= spec.max[j] /\ Shift(j, len) \in 0..len
          /\ Len(snapshot'[j]) = len - Shift(j, len) /\ spec.max[j] \in Nat
      BY <1>3, BuildFacts, SpecFacts
    <3> HIDE DEF len
    <3>2. QED BY <3>1, LessIsAtMost
  <2>3. stage' \in Seq(Stages) /\ Len(stage') = executionCount'
    <3>1. stage' = Append(stage, "sending") /\ stage \in Seq(Stages)
          /\ Len(stage) = executionCount
      BY <1>0, <1>3 DEF Build, Stages
    <3>2. "sending" \in Stages
      BY DEF Stages
    <3>3. QED BY <2>1, <3>1, <3>2, AppendProperties
  <2>4. clone' \in [Inputs -> 0..executionCount'] /\ clone'[i] # 0
        /\ \A j \in Inputs : j # i => clone'[j] = clone[j]
    <3>1. clone' = [clone EXCEPT ![i] = executionCount'] /\ clone \in [Inputs -> 0..executionCount]
      BY <1>0, <1>3 DEF Build
    <3>2. /\ executionCount' \in 0..executionCount' /\ executionCount' # 0
          /\ 0..executionCount \subseteq 0..executionCount'
      BY <1>0, <2>1
    <3>3. QED BY <3>1, <3>2
  <2>5. taken' \in Seq(Clones') /\ stopped' \subseteq Clones'
        /\ lastCancel' \in 0..executionCount'
    <3>1. Clones \subseteq Clones'
      BY <1>0, <2>1
    <3>2. taken' = taken /\ stopped' = stopped /\ lastCancel' = lastCancel
      BY <1>3 DEF Build, execVars
    <3>3. QED BY <1>0, <2>1, <3>1, <3>2, SeqMonotonic
  <2>6. /\ UNCHANGED <<spec, received, processor, cancelled, acked, inProgress,
                         succeeded, failed>>
        /\ watcher' = [watcher EXCEPT ![i] = "sending"] /\ waiting' = waiting + 1
    BY <1>3 DEF Build, execVars
  <2>7. /\ watcher' \in [Inputs -> {"fetching", "waiting", "sending", "returned"}]
        /\ \A j \in Inputs : watcher'[j] = "waiting" => received'[j] # 0
        /\ \A j \in Inputs : watcher'[j] = "sending" => clone'[j] # 0
    BY <1>0, <2>4, <2>6
  <2>8. acked' \subseteq Values /\ {waiting, inProgress, succeeded, failed}' \subseteq Int
    BY <1>0, <2>6
  <2>9. QED BY <1>0, <2>1, <2>2, <2>3, <2>4, <2>5, <2>6, <2>7, <2>8 DEF Stages
<1>4. ASSUME NEW i \in Inputs, WatcherReturns(i) PROVE TypeInv'
  <2>1. Clones' = Clones
    BY <1>4 DEF WatcherReturns, buildVars, Clones
  <2>2. QED BY <1>0, <1>4, <2>1 DEF WatcherReturns, buildVars, execVars, statVars
<1>5. ASSUME NEW i \in Inputs, TakeSnapshot(i) PROVE TypeInv'
  <2>1. clone[i] \in 1..executionCount
    BY <1>0, <1>5, TypeFacts DEF TakeSnapshot
  <2>2. Clones' = Clones /\ executionCount' = executionCount
    BY <1>5 DEF TakeSnapshot, buildVars, Clones
  <2>3. stage' \in Seq(Stages) /\ Len(stage') = Len(stage)
    BY <1>0, <1>5, <2>1 DEF TakeSnapshot, Stages
  <2>4. taken' \in Seq(Clones)
    BY <1>0, <1>5, <2>1 DEF TakeSnapshot
  <2>5. lastCancel' \in 0..executionCount /\ stopped' \subseteq Clones
        /\ processor' \in {"idle", "executing", "returned"}
    <3>1. CASE spec.launch = "Auto"
      BY <1>0, <1>5, <3>1 DEF TakeSnapshot
    <3>2. CASE spec.launch # "Auto"
      <4>1. /\ stopped' = stopped \cup ({lastCancel} \ {0}) /\ lastCancel' = clone[i]
            /\ processor' = processor
        BY <1>5, <3>2 DEF TakeSnapshot
      <4>2. lastCancel = 0 \/ lastCancel \in Clones
        BY <1>0
      <4>3. clone[i] \in 0..executionCount
        BY <1>0, <2>1
      <4>4. stopped' \subseteq Clones
        BY <1>0, <4>1, <4>2
      <4>5. QED BY <1>0, <4>1, <4>3, <4>4
    <3>3. QED BY <3>1, <3>2
  <2>6. /\ UNCHANGED <<spec, received, snapshot, contents, cancelled, acked, waiting,
                         inProgress, succeeded, failed>>
        /\ watcher' = [watcher EXCEPT ![i] = "fetching"]
        /\ clone' = [clone EXCEPT ![i] = 0]
    BY <1>5 DEF TakeSnapshot, buildVars, statVars
  <2>7. /\ watcher' \in [Inputs -> {"fetching", "waiting", "sending", "returned"}]
        /\ \A j \in Inputs : watcher'[j] = "waiting" => received'[j] # 0
    BY <1>0, <2>6
  <2>8. /\ clone' \in [Inputs -> 0..executionCount]
        /\ \A j \in Inputs : watcher'[j] = "sending" => clone'[j] # 0
    BY <1>0, <2>6
  <2>9. QED BY <1>0, <2>2, <2>3, <2>4, <2>5, <2>6, <2>7, <2>8 DEF Stages
<1>6. ASSUME NEW n \in DOMAIN stage, ExecutionStep(n) PROVE TypeInv'
  <2>1. /\ UNCHANGED <<spec, watchVars, buildVars, taken, lastCancel, stopped, cancelled>>
        /\ processor' \in {"idle", "executing", "returned"}
        /\ \E st \in {"running", "acking", "finished", "failed"} :
             stage' = [stage EXCEPT ![n] = st]
        /\ \A v \in acked' : v \in acked \/ v \in AllToAck(n)
    BY <1>6, ExecutionFacts
  <2>2. stage' \in Seq(Stages) /\ Len(stage') = Len(stage)
    BY <1>0, <2>1 DEF Stages
  <2>3. acked' \subseteq Values
    BY <1>0, <2>1, ToAckFacts
  <2>4. {waiting, inProgress, succeeded, failed}' \subseteq Int
    BY <1>6 DEF ExecutionStep, ExecuteStarts, ExecuteFails, ExecuteSucceeds, AckAll
  <2>5. Clones' = Clones
    BY <2>1 DEF buildVars, Clones
  <2>6. QED BY <1>0, <2>1, <2>2, <2>3, <2>4, <2>5 DEF watchVars, buildVars, Stages
<1>7. CASE ProcessorReturns
  <2>1. Clones' = Clones
    BY <1>7 DEF ProcessorReturns, buildVars, Clones
  <2>2. QED BY <1>0, <1>7, <2>1 DEF ProcessorReturns, watchVars, buildVars, statVars
<1>8. CASE Cancel
  <2>1. Clones' = Clones
    BY <1>8 DEF Cancel, buildVars, Clones
  <2>2. QED BY <1>0, <1>8, <2>1 DEF Cancel, watchVars, buildVars, execVars, statVars
<1>9. CASE UNCHANGED vars
  <2>1. Clones' = Clones
    BY <1>9 DEF vars, buildVars, Clones
  <2>2. QED BY <1>0, <1>9, <2>1 DEF vars, watchVars, buildVars, execVars, statVars
<1>10. QED BY <1>1, <1>2, <1>3, <1>4, <1>5, <1>6, <1>7, <1>8, <1>9 DEF Next, WatcherStep

\* The input loop keeps the types of its state, for every task.
THEOREM TypeCorrect == Spec => []InputLoopTypeOK
<1>1. Spec => []TypeInv
  BY InitTypeInv, TypeStep, PTL DEF Spec
<1>2. TypeInv => InputLoopTypeOK
  BY DEF TypeInv
<1>3. QED BY <1>1, <1>2, PTL

-----------------------------------------------------------------------------
(* Every value is acknowledged by one snapshot.                            *)

\* Sequence i of clone n has the duty to acknowledge v (0: of the snapshot).
Places == {0} \cup Clones
Owes(n, i, v) == [av |-> v, ack |-> TRUE] \in Range(SequenceIn(n, i))

\* Value v was received and does not wait for room any more.
Arrived(v) == \/ v[2] < received[v[1]]
              \/ v[2] = received[v[1]] /\ watcher[v[1]] # "waiting"

OwedArrived == \A v \in Values, n \in Places, i \in Inputs : Owes(n, i, v) => Arrived(v)
OwedOnce == \A v \in Values, m \in Places, n \in Places, i \in Inputs, j \in Inputs :
              Owes(m, i, v) /\ Owes(n, j, v) => m = n /\ i = j
\* A watcher that was stopped while it waited for room has lost its value.
ArrivedOwed == \A v \in Values :
                 Arrived(v) /\ (v[2] = received[v[1]] => watcher[v[1]] # "returned")
                   => \E n \in Places, i \in Inputs : Owes(n, i, v)
DutyInv == OwedArrived /\ OwedOnce /\ ArrivedOwed

\* Most steps move no value from one sequence to another.
LEMMA SameOwes ==
  ASSUME snapshot' = snapshot, contents' = contents
  PROVE  /\ Places' = Places
         /\ \A n, i, v : Owes(n, i, v)' <=> Owes(n, i, v)
BY DEF Places, Clones, Owes, SequenceIn

\* The value that a watcher adds is the only new pair.
LEMMA WithValueOwes ==
  ASSUME TypeInv, NEW i \in Inputs, watcher[i] = "waiting"
  PROVE  \A j \in Inputs : \A p :
           p \in Range(WithValue(i)[j]) <=>
             \/ p \in Range(snapshot[j])
             \/ j = Target(i) /\ p = [av |-> <<i, received[i]>>, ack |-> TRUE]
<1> DEFINE w == WithValue(i)
           t == Target(i)
           e == [av |-> <<i, received[i]>>, ack |-> TRUE]
<1>0. spec \in Specs /\ snapshot \in [Inputs -> Seq(Pairs)] /\ received[i] \in 1..MaxArrivals
  BY TypeFacts DEF TypeInv, InputLoopTypeOK
<1>1. /\ w \in [Inputs -> Seq(Pairs)] /\ t \in Inputs
      /\ Len(w[t]) = Len(snapshot[t]) + 1
      /\ \A k \in 1..Len(snapshot[t]) : w[t][k] = snapshot[t][k]
      /\ w[t][Len(snapshot[t]) + 1] = e
      /\ \A j \in Inputs : j # t => w[j] = snapshot[j]
  BY <1>0, WithValueFacts
<1> HIDE DEF w, t, e
<1>2. ASSUME NEW j \in Inputs, NEW p
      PROVE  p \in Range(w[j]) <=> p \in Range(snapshot[j]) \/ (j = t /\ p = e)
  <2>1. CASE j = t
    <3>1. /\ Len(snapshot[t]) \in Nat /\ DOMAIN snapshot[t] = 1..Len(snapshot[t])
          /\ DOMAIN w[t] = 1..(Len(snapshot[t]) + 1)
      BY <1>0, <1>1
    <3>2. \A k \in DOMAIN w[t] : k \in DOMAIN snapshot[t] \/ k = Len(snapshot[t]) + 1
      BY <3>1
    <3>3. DOMAIN snapshot[t] \subseteq DOMAIN w[t] /\ Len(snapshot[t]) + 1 \in DOMAIN w[t]
      BY <3>1
    <3>4. \A k \in DOMAIN snapshot[t] : w[t][k] = snapshot[t][k]
      BY <1>1, <3>1
    <3>5. QED BY <1>1, <2>1, <3>2, <3>3, <3>4 DEF Range
  <2>2. CASE j # t
    BY <1>1, <2>2
  <2>3. QED BY <2>1, <2>2
<1>3. QED BY <1>2 DEF w, t, e

\* Building a clone moves all duties of the snapshot to the clone.
LEMMA BuildOwes ==
  ASSUME TypeInv, NEW i \in Inputs, Build(i), NEW c, c = executionCount'
  PROVE  /\ Places' = Places \cup {c} /\ c \notin Places
         /\ \A j \in Inputs, v \in Values :
              /\ ~Owes(0, j, v)'
              /\ Owes(c, j, v)' <=>
                   Owes(0, j, v) \/ (j = Target(i) /\ v = <<i, received[i]>>)
              /\ \A n \in Clones : Owes(n, j, v)' <=> Owes(n, j, v)
<1>1. /\ c = executionCount + 1 /\ executionCount \in Nat /\ Clones = 1..executionCount
      /\ Clones' = 1..c /\ contents'[c] = WithValue(i)
      /\ \A n \in Clones : contents'[n] = contents[n]
      /\ snapshot' \in [Inputs -> Seq(Pairs)]
      /\ \A j \in Inputs : \A k \in 1..Len(snapshot'[j]) : snapshot'[j][k].ack = FALSE
  BY BuildFacts, TypeFacts
<1>2. Places' = Places \cup {c} /\ c \notin Places /\ c # 0
  BY <1>1 DEF Places
<1>3. ASSUME NEW j \in Inputs, NEW v \in Values PROVE ~Owes(0, j, v)'
  <2>1. snapshot'[j] \in Seq(Pairs)
    BY <1>1
  <2>2. \A k \in DOMAIN snapshot'[j] : snapshot'[j][k].ack = FALSE
    BY <1>1, <2>1
  <2>3. QED BY <2>2 DEF Owes, SequenceIn, Range
<1>4. ASSUME NEW j \in Inputs, NEW v \in Values
      PROVE  Owes(c, j, v)' <=>
               Owes(0, j, v) \/ (j = Target(i) /\ v = <<i, received[i]>>)
  <2>1. Owes(c, j, v)' <=> [av |-> v, ack |-> TRUE] \in Range(WithValue(i)[j])
    BY <1>1, <1>2 DEF Owes, SequenceIn
  <2>2. Owes(0, j, v) <=> [av |-> v, ack |-> TRUE] \in Range(snapshot[j])
    BY DEF Owes, SequenceIn
  <2>3. watcher[i] = "waiting"
    BY DEF Build
  <2>4. \A u : [av |-> v, ack |-> TRUE] = [av |-> u, ack |-> TRUE] <=> v = u
    OBVIOUS
  <2>5. QED BY <2>1, <2>2, <2>3, <2>4, WithValueOwes
<1>5. ASSUME NEW j \in Inputs, NEW v \in Values, NEW n \in Clones
      PROVE  Owes(n, j, v)' <=> Owes(n, j, v)
  BY <1>1 DEF Owes, SequenceIn
<1>6. QED BY <1>2, <1>3, <1>4, <1>5

\* The step moves no value to another sequence, and what had arrived still has; what
\* is new among the arrived belongs to a watcher that returned.
LEMMA DutyStays ==
  ASSUME TypeInv, DutyInv, snapshot' = snapshot, contents' = contents,
         \A v \in Values : Arrived(v) => Arrived(v)',
         \A v \in Values :
           /\ Arrived(v)' /\ (v[2] = received'[v[1]] => watcher'[v[1]] # "returned")
           => Arrived(v) /\ (v[2] = received[v[1]] => watcher[v[1]] # "returned")
  PROVE  DutyInv'
<1>1. /\ Places' = Places
      /\ \A n, i, v : Owes(n, i, v)' <=> Owes(n, i, v)
  BY SameOwes
<1>2. OwedArrived'
  BY <1>1 DEF DutyInv, OwedArrived
<1>3. OwedOnce'
  BY <1>1 DEF DutyInv, OwedOnce
<1>4. ArrivedOwed'
  BY <1>1 DEF DutyInv, ArrivedOwed
<1>5. QED BY <1>2, <1>3, <1>4 DEF DutyInv

\* Every step keeps the duties right.
LEMMA DutyStep == TypeInv /\ DutyInv /\ [Next]_vars => DutyInv'
<1> SUFFICES ASSUME TypeInv, DutyInv, [Next]_vars PROVE DutyInv'
  OBVIOUS
<1>0. /\ received \in [Inputs -> 0..MaxArrivals] /\ MaxArrivals \in Nat
      /\ watcher \in [Inputs -> {"fetching", "waiting", "sending", "returned"}]
      /\ \A v \in Values : v[1] \in Inputs /\ v[2] \in 1..MaxArrivals /\ v = <<v[1], v[2]>>
  BY InputLoopAssumption DEF TypeInv, InputLoopTypeOK, Values
<1>1. ASSUME NEW i \in Inputs, Receive(i) PROVE DutyInv'
  <2>1. /\ received' = [received EXCEPT ![i] = @ + 1] /\ watcher[i] = "fetching"
        /\ watcher' = [watcher EXCEPT ![i] = "waiting"]
        /\ snapshot' = snapshot /\ contents' = contents
    BY <1>1 DEF Receive, buildVars
  <2>2. ASSUME NEW v \in Values
        PROVE  Arrived(v)' <=> Arrived(v)
    <3>1. received[v[1]] \in Nat /\ v[2] \in Nat
      BY <1>0
    <3>2. CASE v[1] = i
      <4>1. received'[v[1]] = received[v[1]] + 1 /\ watcher'[v[1]] = "waiting"
        BY <1>0, <2>1, <3>2
      <4>2. QED BY <2>1, <3>1, <3>2, <4>1 DEF Arrived
    <3>3. CASE v[1] # i
      BY <1>0, <2>1, <3>3 DEF Arrived
    <3>4. QED BY <3>2, <3>3
  <2>3. ASSUME NEW v \in Values, v[2] = received[v[1]], watcher[v[1]] = "returned"
        PROVE  v[2] = received'[v[1]] /\ watcher'[v[1]] = "returned"
    BY <1>0, <2>1, <2>3
  <2>4. QED BY <2>1, <2>2, <2>3, DutyStays
<1>2. ASSUME NEW i \in Inputs, Collect(i) PROVE DutyInv'
  <2> DEFINE u == <<i, received[i]>>
  <2>1. /\ received' = received /\ watcher[i] = "waiting"
        /\ watcher' = [watcher EXCEPT ![i] = "fetching"]
        /\ snapshot' = WithValue(i) /\ contents' = contents
    BY <1>2 DEF Collect, buildVars
  <2>2. u \in Values /\ ~Arrived(u) /\ Target(i) \in Inputs
    <3>1. received[i] \in 1..MaxArrivals
      BY <2>1, TypeFacts
    <3>2. QED BY <2>1, <3>1, SpecFacts DEF Values, Arrived, TypeInv, InputLoopTypeOK,
                                           SnapshotInputs
  <2>3. \A v \in Values : Arrived(v)' <=> Arrived(v) \/ v = u
    <3> SUFFICES ASSUME NEW v \in Values PROVE Arrived(v)' <=> Arrived(v) \/ v = u
      OBVIOUS
    <3>1. CASE v[1] = i
      BY <1>0, <2>1, <3>1 DEF Arrived
    <3>2. CASE v[1] # i
      BY <1>0, <2>1, <3>2 DEF Arrived
    <3>3. QED BY <3>1, <3>2
  <2>4. /\ Places' = Places /\ 0 \in Places
        /\ \A n \in Places, j \in Inputs, v \in Values :
             Owes(n, j, v)' <=> Owes(n, j, v) \/ (n = 0 /\ j = Target(i) /\ v = u)
    <3>1. Places' = Places /\ 0 \in Places
      BY <2>1 DEF Places, Clones
    <3>2. ASSUME NEW j \in Inputs, NEW v \in Values
          PROVE  Owes(0, j, v)' <=> Owes(0, j, v) \/ (j = Target(i) /\ v = u)
      <4>1. \A x, y : [av |-> x, ack |-> TRUE] = [av |-> y, ack |-> TRUE] <=> x = y
        OBVIOUS
      <4>2. QED BY <2>1, <4>1, WithValueOwes DEF Owes, SequenceIn
    <3>3. ASSUME NEW n \in Places, n # 0 PROVE \A j, v : Owes(n, j, v)' <=> Owes(n, j, v)
      BY <2>1, <3>3 DEF Owes, SequenceIn
    <3>4. QED BY <3>1, <3>2, <3>3
  <2> HIDE DEF u
  <2>5. OwedArrived'
    BY <2>3, <2>4 DEF DutyInv, OwedArrived
  <2>6. \A n \in Places, j \in Inputs : ~Owes(n, j, u)
    BY <2>2 DEF DutyInv, OwedArrived
  <2>7. OwedOnce'
    <3> SUFFICES ASSUME NEW v \in Values, NEW m \in Places, NEW n \in Places,
                        NEW j \in Inputs, NEW k \in Inputs,
                        Owes(m, j, v)', Owes(n, k, v)'
                 PROVE  m = n /\ j = k
      BY <2>4 DEF OwedOnce
    <3>1. CASE v = u
      BY <2>4, <2>6, <3>1
    <3>2. CASE v # u
      BY <2>4, <3>2 DEF DutyInv, OwedOnce
    <3>3. QED BY <3>1, <3>2
  <2>8. ArrivedOwed'
    <3> SUFFICES ASSUME NEW v \in Values, Arrived(v)',
                        v[2] = received'[v[1]] => watcher'[v[1]] # "returned"
                 PROVE  \E n \in Places, j \in Inputs : Owes(n, j, v)'
      BY <2>4 DEF ArrivedOwed
    <3>1. CASE v = u
      BY <2>2, <2>4, <3>1
    <3>2. CASE v # u
      <4>1. Arrived(v)
        BY <2>3, <3>2
      <4>2. v[2] = received[v[1]] => watcher[v[1]] # "returned"
        BY <1>0, <2>1
      <4>3. QED BY <2>4, <4>1, <4>2 DEF DutyInv, ArrivedOwed
    <3>3. QED BY <3>1, <3>2
  <2>9. QED BY <2>5, <2>7, <2>8 DEF DutyInv
<1>3. ASSUME NEW i \in Inputs, Build(i) PROVE DutyInv'
  <2> DEFINE u == <<i, received[i]>>
  <2>0. PICK c : c = executionCount'
    OBVIOUS
  <2>1. /\ received' = received /\ watcher[i] = "waiting"
        /\ watcher' = [watcher EXCEPT ![i] = "sending"]
    BY <1>3 DEF Build
  <2>2. u \in Values /\ ~Arrived(u) /\ Target(i) \in Inputs
    <3>1. received[i] \in 1..MaxArrivals
      BY <2>1, TypeFacts
    <3>2. QED BY <2>1, <3>1, SpecFacts DEF Values, Arrived, TypeInv, InputLoopTypeOK,
                                           SnapshotInputs
  <2>3. \A v \in Values : Arrived(v)' <=> Arrived(v) \/ v = u
    <3> SUFFICES ASSUME NEW v \in Values PROVE Arrived(v)' <=> Arrived(v) \/ v = u
      OBVIOUS
    <3>1. CASE v[1] = i
      BY <1>0, <2>1, <3>1 DEF Arrived
    <3>2. CASE v[1] # i
      BY <1>0, <2>1, <3>2 DEF Arrived
    <3>3. QED BY <3>1, <3>2
  <2>4. /\ Places' = Places \cup {c} /\ c \notin Places
        /\ Places = {0} \cup Clones
        /\ \A j \in Inputs, v \in Values :
             /\ ~Owes(0, j, v)'
             /\ Owes(c, j, v)' <=> Owes(0, j, v) \/ (j = Target(i) /\ v = u)
             /\ \A n \in Clones : Owes(n, j, v)' <=> Owes(n, j, v)
    BY <1>3, <2>0, BuildOwes DEF Places
  <2> HIDE DEF u
  <2>5. OwedArrived'
    BY <2>3, <2>4 DEF DutyInv, OwedArrived
  <2>6. \A n \in Places, j \in Inputs : ~Owes(n, j, u)
    BY <2>2 DEF DutyInv, OwedArrived
  <2>7. OwedOnce'
    <3> SUFFICES ASSUME NEW v \in Values, NEW m \in Places \cup {c},
                        NEW n \in Places \cup {c}, NEW j \in Inputs, NEW k \in Inputs,
                        Owes(m, j, v)', Owes(n, k, v)'
                 PROVE  m = n /\ j = k
      BY <2>4 DEF OwedOnce
    <3>1. m # 0 /\ n # 0
      BY <2>4
    <3>2. CASE v = u
      BY <2>4, <2>6, <3>1, <3>2
    <3>3. CASE v # u
      <4>1. CASE m = c /\ n = c
        BY <2>4, <3>3, <4>1 DEF DutyInv, OwedOnce
      <4>2. CASE m = c /\ n # c
        BY <2>4, <3>1, <3>3, <4>2 DEF DutyInv, OwedOnce
      <4>3. CASE m # c /\ n = c
        BY <2>4, <3>1, <3>3, <4>3 DEF DutyInv, OwedOnce
      <4>4. CASE m # c /\ n # c
        BY <2>4, <3>1, <3>3, <4>4 DEF DutyInv, OwedOnce
      <4>5. QED BY <4>1, <4>2, <4>3, <4>4
    <3>4. QED BY <3>2, <3>3
  <2>8. ArrivedOwed'
    <3> SUFFICES ASSUME NEW v \in Values, Arrived(v)',
                        v[2] = received'[v[1]] => watcher'[v[1]] # "returned"
                 PROVE  \E n \in Places \cup {c}, j \in Inputs : Owes(n, j, v)'
      BY <2>4 DEF ArrivedOwed
    <3>1. CASE v = u
      BY <2>2, <2>4, <3>1
    <3>2. CASE v # u
      <4>1. Arrived(v)
        BY <2>3, <3>2
      <4>2. v[2] = received[v[1]] => watcher[v[1]] # "returned"
        BY <1>0, <2>1
      <4>3. PICK n \in Places, j \in Inputs : Owes(n, j, v)
        BY <4>1, <4>2 DEF DutyInv, ArrivedOwed
      <4>4. CASE n = 0
        BY <2>4, <4>3, <4>4
      <4>5. CASE n # 0
        BY <2>4, <4>3, <4>5
      <4>6. QED BY <4>4, <4>5
    <3>3. QED BY <3>1, <3>2
  <2>9. QED BY <2>5, <2>7, <2>8 DEF DutyInv
<1>4. ASSUME NEW i \in Inputs, WatcherReturns(i) PROVE DutyInv'
  <2>1. /\ received' = received /\ watcher[i] # "returned"
        /\ watcher' = [watcher EXCEPT ![i] = "returned"]
        /\ snapshot' = snapshot /\ contents' = contents
    BY <1>4 DEF WatcherReturns, buildVars
  <2>2. \A v \in Values : Arrived(v) => Arrived(v)'
    BY <1>0, <2>1 DEF Arrived
  <2>3. ASSUME NEW v \in Values, Arrived(v)',
               v[2] = received'[v[1]] => watcher'[v[1]] # "returned"
        PROVE  Arrived(v) /\ (v[2] = received[v[1]] => watcher[v[1]] # "returned")
    BY <1>0, <2>1, <2>3 DEF Arrived
  <2>4. QED BY <2>1, <2>2, <2>3, DutyStays
<1>5. ASSUME NEW i \in Inputs, TakeSnapshot(i) PROVE DutyInv'
  <2>1. /\ received' = received /\ watcher[i] = "sending"
        /\ watcher' = [watcher EXCEPT ![i] = "fetching"]
        /\ snapshot' = snapshot /\ contents' = contents
    BY <1>5 DEF TakeSnapshot, buildVars
  <2>2. \A v \in Values : Arrived(v) <=> Arrived(v)'
    BY <1>0, <2>1 DEF Arrived
  <2>3. \A v \in Values : watcher'[v[1]] = "returned" <=> watcher[v[1]] = "returned"
    BY <1>0, <2>1
  <2>4. QED BY <2>1, <2>2, <2>3, DutyStays
<1>6. ASSUME UNCHANGED <<watchVars, buildVars>> PROVE DutyInv'
  <2>1. /\ received' = received /\ watcher' = watcher
        /\ snapshot' = snapshot /\ contents' = contents
    BY <1>6 DEF watchVars, buildVars
  <2>2. \A v \in Values : Arrived(v) <=> Arrived(v)'
    BY <2>1 DEF Arrived
  <2>3. QED BY <2>1, <2>2, DutyStays
<1>7. ASSUME NEW n \in DOMAIN stage, ExecutionStep(n) PROVE DutyInv'
  BY <1>6, <1>7, ExecutionFacts
<1>8. CASE ProcessorReturns \/ Cancel \/ UNCHANGED vars
  BY <1>6, <1>8 DEF ProcessorReturns, Cancel, vars
<1>9. QED BY <1>1, <1>2, <1>3, <1>4, <1>5, <1>7, <1>8 DEF Next, WatcherStep

\* At first no value has arrived.
LEMMA InitDutyInv == Init => DutyInv
<1> SUFFICES ASSUME Init PROVE DutyInv
  OBVIOUS
<1>1. \A i \in Inputs : received[i] = 0 /\ snapshot[i] = <<>>
  BY DEF Init
<1>2. Places = {0}
  BY DEF Init, Places, Clones
<1>3. \A n \in Places, i \in Inputs : \A v : ~Owes(n, i, v)
  BY <1>1, <1>2 DEF Owes, SequenceIn, Range
<1>4. \A v \in Values : ~Arrived(v)
  BY <1>1, InputLoopAssumption DEF Values, Arrived
<1>5. QED BY <1>3, <1>4 DEF DutyInv, OwedArrived, OwedOnce, ArrivedOwed

\* The duties are those that OneAckDuty counts.
LEMMA DutyInvImplies == TypeInv /\ DutyInv => OneAckDuty
<1> SUFFICES ASSUME TypeInv, DutyInv, NEW v \in Values
             PROVE  /\ Cardinality(Duty(v)) <= 1
                    /\ \/ v[2] < received[v[1]]
                       \/ v[2] = received[v[1]] /\ watcher[v[1]] \in {"fetching", "sending"}
                       => Duty(v) # {}
  BY DEF OneAckDuty
<1>1. Duty(v) = {d \in Places \X Inputs : Owes(d[1], d[2], v)}
  BY DEF Duty, Places, Owes
<1>2. Cardinality(Duty(v)) <= 1
  <2>1. \A d \in Duty(v), e \in Duty(v) : d = e
    <3> SUFFICES ASSUME NEW d \in Duty(v), NEW e \in Duty(v) PROVE d = e
      OBVIOUS
    <3>1. /\ d = <<d[1], d[2]>> /\ d[1] \in Places /\ d[2] \in Inputs /\ Owes(d[1], d[2], v)
          /\ e = <<e[1], e[2]>> /\ e[1] \in Places /\ e[2] \in Inputs /\ Owes(e[1], e[2], v)
      BY <1>1
    <3>2. d[1] = e[1] /\ d[2] = e[2]
      BY <3>1 DEF DutyInv, OwedOnce
    <3>3. QED BY <3>1, <3>2
  <2>2. CASE Duty(v) = {}
    BY <2>2, FS_EmptySet
  <2>3. CASE Duty(v) # {}
    <3>1. PICK d : Duty(v) = {d}
      BY <2>1, <2>3
    <3>2. Cardinality({d}) = 1
      BY FS_Singleton, Zenon
    <3>3. QED BY <3>1, <3>2
  <2>4. QED BY <2>2, <2>3
<1>3. ASSUME \/ v[2] < received[v[1]]
             \/ v[2] = received[v[1]] /\ watcher[v[1]] \in {"fetching", "sending"}
      PROVE  Duty(v) # {}
  <2>1. received[v[1]] \in Nat /\ v[2] \in Nat
    BY DEF TypeInv, InputLoopTypeOK, Values
  <2>2. PICK n \in Places, i \in Inputs : Owes(n, i, v)
    BY <1>3, <2>1 DEF DutyInv, ArrivedOwed, Arrived
  <2>3. <<n, i>> \in Duty(v)
    BY <1>1, <2>2
  <2>4. QED BY <2>3
<1>4. QED BY <1>2, <1>3

\* However snapshots overlap, every value has one that acknowledges it.
THEOREM DutyIsUnique == Spec => []OneAckDuty
<1>1. Spec => [](TypeInv /\ DutyInv)
  BY InitTypeInv, TypeStep, InitDutyInv, DutyStep, PTL DEF Spec
<1>2. QED BY <1>1, DutyInvImplies, PTL

-----------------------------------------------------------------------------
(* Acknowledgements follow success.                                        *)

\* A watcher that sends has a clone of its own, which nobody executes yet.
StageInv ==
  \A i \in Inputs : watcher[i] = "sending" =>
    /\ stage[clone[i]] = "sending"
    /\ \A j \in Inputs : watcher[j] = "sending" /\ clone[j] = clone[i] => i = j

\* Every step keeps that.
LEMMA StageStep == TypeInv /\ StageInv /\ [Next]_vars => StageInv'
<1> SUFFICES ASSUME TypeInv, StageInv, [Next]_vars PROVE StageInv'
  OBVIOUS
<1>0. /\ watcher \in [Inputs -> {"fetching", "waiting", "sending", "returned"}]
      /\ clone \in [Inputs -> 0..executionCount]
      /\ stage \in Seq(Stages) /\ DOMAIN stage = 1..executionCount
      /\ executionCount \in Nat /\ Clones = 1..executionCount
      /\ \A i \in Inputs : watcher[i] = "sending" => clone[i] \in Clones
  BY TypeFacts DEF TypeInv, InputLoopTypeOK, Stages
<1>1. ASSUME NEW i \in Inputs, Receive(i) \/ Collect(i) \/ WatcherReturns(i)
      PROVE  StageInv'
  <2>1. \A j \in Inputs : watcher'[j] = "sending" => watcher[j] = "sending"
    BY <1>0, <1>1 DEF Receive, Collect, WatcherReturns
  <2>2. clone' = clone /\ stage' = stage
    BY <1>1 DEF Receive, Collect, WatcherReturns
  <2>3. QED BY <2>1, <2>2 DEF StageInv
<1>2. ASSUME NEW i \in Inputs, Build(i) PROVE StageInv'
  <2>1. /\ watcher' = [watcher EXCEPT ![i] = "sending"]
        /\ clone' = [clone EXCEPT ![i] = executionCount']
        /\ executionCount' \notin Clones
        /\ \A n \in Clones : stage'[n] = stage[n]
        /\ stage'[executionCount'] = "sending"
    BY <1>0, <1>2, BuildFacts DEF Build
  <2>2. \A j \in Inputs : j # i /\ watcher'[j] = "sending" =>
          watcher[j] = "sending" /\ clone'[j] = clone[j] /\ clone[j] \in Clones
    BY <1>0, <2>1
  <2>3. clone'[i] = executionCount'
    BY <1>0, <2>1
  <2>4. QED BY <2>1, <2>2, <2>3 DEF StageInv
<1>3. ASSUME NEW i \in Inputs, TakeSnapshot(i) PROVE StageInv'
  <2>1. /\ watcher[i] = "sending" /\ watcher' = [watcher EXCEPT ![i] = "fetching"]
        /\ clone' = [clone EXCEPT ![i] = 0]
        /\ stage' = [stage EXCEPT ![clone[i]] = "starting"]
    BY <1>3 DEF TakeSnapshot
  <2>2. \A j \in Inputs : watcher'[j] = "sending" =>
          j # i /\ watcher[j] = "sending" /\ clone'[j] = clone[j] /\ clone[j] \in Clones
    BY <1>0, <2>1
  <2>3. \A j \in Inputs : watcher'[j] = "sending" => clone[j] # clone[i]
    BY <2>1, <2>2 DEF StageInv
  <2>4. \A n \in Clones : n # clone[i] => stage'[n] = stage[n]
    BY <1>0, <2>1
  <2>5. QED BY <2>2, <2>3, <2>4 DEF StageInv
<1>4. ASSUME NEW n \in DOMAIN stage, ExecutionStep(n) PROVE StageInv'
  <2>1. /\ UNCHANGED <<watcher, clone>> /\ Active(n)
        /\ \A m \in Clones : m # n => stage'[m] = stage[m]
    BY <1>0, <1>4, ExecutionFacts DEF watchVars
  <2>2. \A j \in Inputs : watcher[j] = "sending" => clone[j] # n
    BY <2>1 DEF StageInv, Active
  <2>3. QED BY <1>0, <2>1, <2>2 DEF StageInv
<1>5. CASE ProcessorReturns \/ Cancel \/ UNCHANGED vars
  BY <1>5 DEF ProcessorReturns, Cancel, vars, watchVars, StageInv
<1>6. QED BY <1>1, <1>2, <1>3, <1>4, <1>5 DEF Next, WatcherStep

\* A clone never changes, and an execution that ended stays so.
LEMMA ClonesStay ==
  ASSUME TypeInv, StageInv, [Next]_vars, NEW n \in Clones
  PROVE  /\ n \in Clones' /\ contents'[n] = contents[n]
         /\ stage[n] = "finished" => stage'[n] = "finished"
<1>0. /\ stage \in Seq(Stages) /\ DOMAIN stage = 1..executionCount
      /\ executionCount \in Nat /\ Clones = 1..executionCount
      /\ \A i \in Inputs : watcher[i] = "sending" => clone[i] \in Clones
  BY TypeFacts DEF TypeInv, InputLoopTypeOK, Stages
<1>1. CASE \E i \in Inputs : Build(i)
  <2>1. PICK i \in Inputs : Build(i)
    BY <1>1
  <2>2. Clones' = 1..(executionCount + 1) /\ contents'[n] = contents[n]
        /\ stage'[n] = stage[n]
    BY <2>1, BuildFacts
  <2>3. QED BY <1>0, <2>2
<1>2. CASE \E i \in Inputs : TakeSnapshot(i)
  <2>1. PICK i \in Inputs : TakeSnapshot(i)
    BY <1>2
  <2>2. /\ contents' = contents /\ stage' = [stage EXCEPT ![clone[i]] = "starting"]
        /\ watcher[i] = "sending"
    BY <2>1 DEF TakeSnapshot, buildVars
  <2>3. stage[clone[i]] = "sending"
    BY <2>2 DEF StageInv
  <2>4. QED BY <1>0, <2>2, <2>3 DEF Clones
<1>3. CASE \E m \in DOMAIN stage : ExecutionStep(m)
  <2>1. PICK m \in DOMAIN stage : ExecutionStep(m)
    BY <1>3
  <2>2. /\ contents' = contents /\ Active(m)
        /\ \E st \in {"running", "acking", "finished", "failed"} :
             stage' = [stage EXCEPT ![m] = st]
    BY <2>1, ExecutionFacts DEF buildVars
  <2>3. stage[n] = "finished" => n # m
    BY <2>2 DEF Active
  <2>4. QED BY <1>0, <2>2, <2>3 DEF Clones
<1>4. CASE contents' = contents /\ stage' = stage
  BY <1>4 DEF Clones
<1>5. QED
  BY <1>1, <1>2, <1>3, <1>4
     DEF Next, WatcherStep, Receive, Collect, WatcherReturns, ProcessorReturns, Cancel,
         vars, buildVars

\* AckedAfterSuccess, in terms of Owes.
AckedInv == \A v \in acked : \E n \in Clones, i \in Inputs :
              Owes(n, i, v) /\ stage[n] = "finished"

\* Only AckAll acknowledges, and what it acknowledges its clone owes.
LEMMA AckedStep == TypeInv /\ StageInv /\ AckedInv /\ [Next]_vars => AckedInv'
<1> SUFFICES ASSUME TypeInv, StageInv, AckedInv, [Next]_vars, NEW v \in acked'
             PROVE  \E n \in Clones', i \in Inputs :
                      Owes(n, i, v)' /\ stage'[n] = "finished"
  BY DEF AckedInv
<1>0. 0 \notin Clones
  BY TypeFacts
<1>1. ASSUME NEW n \in Clones, NEW i \in Inputs, Owes(n, i, v)
      PROVE  n \in Clones' /\ Owes(n, i, v)'
  <2>1. n # 0 /\ n \in Clones' /\ contents'[n] = contents[n]
    BY <1>0, ClonesStay
  <2>2. QED BY <1>1, <2>1 DEF Owes, SequenceIn
<1>2. CASE v \in acked
  <2>1. PICK n \in Clones, i \in Inputs : Owes(n, i, v) /\ stage[n] = "finished"
    BY <1>2 DEF AckedInv
  <2>2. QED BY <1>1, <2>1, ClonesStay
<1>3. CASE v \notin acked
  <2>1. acked' # acked
    BY <1>3
  <2>2. PICK n \in DOMAIN stage : ExecutionStep(n)
    BY <2>1 DEF Next, WatcherStep, Receive, Collect, Build, WatcherReturns, TakeSnapshot,
                ProcessorReturns, Cancel, vars
  <2>3. /\ v \in AllToAck(n) /\ stage' = [stage EXCEPT ![n] = "finished"]
    BY <1>3, <2>1, <2>2, ExecutionFacts
  <2>4. n \in Clones /\ n # 0
    BY TypeFacts
  <2>5. PICK i \in Inputs : [av |-> v, ack |-> TRUE] \in Range(contents[n][i])
    BY <2>3, <2>4, ToAckFacts
  <2>6. Owes(n, i, v)
    BY <2>4, <2>5 DEF Owes, SequenceIn
  <2>7. stage'[n] = "finished"
    BY <2>3
  <2>8. QED BY <1>1, <2>4, <2>6, <2>7
<1>4. QED BY <1>2, <1>3

\* No value is acknowledged before its snapshot was executed successfully.
THEOREM AcksFollowSuccess == Spec => []AckedAfterSuccess
<1>1. Init => StageInv /\ AckedInv
  BY DEF Init, StageInv, AckedInv
<1>2. Spec => [](TypeInv /\ StageInv /\ AckedInv)
  BY <1>1, InitTypeInv, TypeStep, StageStep, AckedStep, PTL DEF Spec
<1>3. AckedInv => AckedAfterSuccess
  BY DEF AckedInv, AckedAfterSuccess, Duty, Owes
<1>4. QED BY <1>2, <1>3, PTL

-----------------------------------------------------------------------------
(* The watchers do not wait for each other, and do not overtake.           *)

\* Input i misses values for the next execution.
Short(i) == Len(snapshot[i]) < spec.min[i]

\* The task's specification does not change.
LEMMA SpecStays == ASSUME TypeInv, [Next]_vars PROVE spec' = spec /\ NoMerge' = NoMerge
<1>1. ASSUME NEW n \in DOMAIN stage, ExecutionStep(n) PROVE spec' = spec
  BY <1>1, ExecutionFacts
<1>2. ASSUME NEW i \in Inputs, WatcherStep(i) PROVE spec' = spec
  BY <1>2 DEF WatcherStep, Receive, Collect, Build, WatcherReturns
<1>3. ASSUME NEW i \in Inputs, TakeSnapshot(i) PROVE spec' = spec
  BY <1>3 DEF TakeSnapshot
<1>4. spec' = spec
  BY <1>1, <1>2, <1>3 DEF Next, ProcessorReturns, Cancel, vars
<1>5. QED BY <1>4 DEF NoMerge, SnapshotInputs

\* After a clone was built every input misses values, or none can take one (SwapNew4Old).
LEMMA BuildLeavesShort ==
  ASSUME TypeInv, NEW i \in Inputs, Build(i), NEW j \in SnapshotInputs
  PROVE  IF spec.policy = "SwapNew4Old" THEN Len(snapshot'[j]) = spec.max[j]
         ELSE Len(snapshot'[j]) < spec.min[j]
<1> DEFINE len == Len(WithValue(i)[j])
<1>1. j \in Inputs
  BY DEF SnapshotInputs
<1>2. /\ len \in Nat /\ len <= spec.max[j] /\ Len(snapshot'[j]) = len - Shift(j, len)
      /\ spec.min[j] <= len
  BY <1>1, BuildFacts DEF Build, Ready
<1>3. /\ spec \in Specs
      /\ spec.policy \in {"AllNew", "SwapNew4Old", "SlidingWindow"}
      /\ spec.min[j] \in Nat /\ spec.max[j] \in Nat /\ spec.slide[j] \in Nat
      /\ 1 <= spec.slide[j] /\ spec.slide[j] <= spec.min[j]
      /\ spec.policy = "SlidingWindow" => spec.min[j] = spec.max[j]
      /\ spec.policy = "SwapNew4Old" => spec.min[j] = 1 /\ spec.max[j] = 1
  BY <1>1, SpecFacts DEF TypeInv, InputLoopTypeOK
<1> HIDE DEF len
<1>4. CASE spec.policy = "AllNew"
  <2>1. Shift(j, len) = len
    BY <1>4 DEF Shift
  <2>2. QED BY <1>2, <1>3, <1>4, <2>1
<1>5. CASE spec.policy = "SlidingWindow"
  <2>1. Shift(j, len) = IF len < spec.slide[j] THEN len ELSE spec.slide[j]
    BY <1>5 DEF Shift
  <2>2. Shift(j, len) = spec.slide[j]
    BY <1>2, <1>3, <2>1
  <2>3. QED BY <1>2, <1>3, <1>5, <2>2
<1>6. CASE spec.policy = "SwapNew4Old"
  <2>1. Shift(j, len) = 0
    BY <1>6 DEF Shift
  <2>2. QED BY <1>2, <1>3, <1>6, <2>1
<1>7. QED BY <1>3, <1>4, <1>5, <1>6

\* Some input that is not merged into another one misses values.
WedgeInv == spec.policy # "SwapNew4Old" /\ Inputs # {} => \E i \in SnapshotInputs : Short(i)

\* At first all inputs miss values.
LEMMA InitWedgeInv == Init => WedgeInv
<1> SUFFICES ASSUME Init, NEW i \in Inputs PROVE \E j \in SnapshotInputs : Short(j)
  BY DEF WedgeInv
<1>1. /\ Target(i) \in SnapshotInputs /\ Target(i) \in Inputs
      /\ spec.min[Target(i)] \in Nat /\ 1 <= spec.min[Target(i)]
  <2>1. Target(i) \in SnapshotInputs /\ Target(i) \in Inputs
    BY SpecFacts DEF Init, SnapshotInputs
  <2>2. QED
    BY <2>1, SpecFacts DEF Init
<1>2. Len(snapshot[Target(i)]) = 0
  BY <1>1 DEF Init
<1>3. QED BY <1>1, <1>2 DEF Short

\* A snapshot that misses nothing is built at once, and what is left of it does.
LEMMA WedgeStep == TypeInv /\ WedgeInv /\ [Next]_vars => WedgeInv'
<1> SUFFICES ASSUME TypeInv, WedgeInv, [Next]_vars PROVE WedgeInv'
  OBVIOUS
<1>0. spec' = spec /\ SnapshotInputs' = SnapshotInputs
  BY SpecStays DEF SnapshotInputs
<1> SUFFICES ASSUME spec.policy # "SwapNew4Old", NEW x \in Inputs
             PROVE  \E j \in SnapshotInputs : Short(j)'
  BY <1>0 DEF WedgeInv
<1>1. ASSUME NEW i \in Inputs, Collect(i) PROVE \E j \in SnapshotInputs : Short(j)'
  <2>1. snapshot' = WithValue(i) /\ ~Ready(WithValue(i)) /\ watcher[i] = "waiting"
    BY <1>1 DEF Collect
  <2>2. PICK j \in SnapshotInputs : ~(Len(WithValue(i)[j]) >= spec.min[j])
    BY <2>1 DEF Ready
  <2>3. Len(WithValue(i)[j]) \in Nat /\ spec.min[j] \in Nat
    <3>1. spec \in Specs /\ snapshot \in [Inputs -> Seq(Pairs)] /\ j \in Inputs
          /\ received[i] \in 1..MaxArrivals
      BY <2>1, TypeFacts DEF TypeInv, InputLoopTypeOK, SnapshotInputs
    <3>2. WithValue(i)[j] \in Seq(Pairs)
      BY <3>1, WithValueFacts
    <3>3. QED BY <3>1, <3>2, SpecFacts
  <2>4. QED BY <1>0, <2>1, <2>2, <2>3 DEF Short
<1>2. ASSUME NEW i \in Inputs, Build(i) PROVE \E j \in SnapshotInputs : Short(j)'
  <2>1. Target(x) \in SnapshotInputs
    BY SpecFacts DEF TypeInv, InputLoopTypeOK
  <2>2. Len(snapshot'[Target(x)]) < spec.min[Target(x)]
    BY <1>2, <2>1, BuildLeavesShort
  <2>3. QED BY <1>0, <2>1, <2>2 DEF Short
<1>3. CASE snapshot' = snapshot
  BY <1>0, <1>3 DEF WedgeInv, Short
<1>4. QED
  BY <1>1, <1>2, <1>3
     DEF Next, WatcherStep, Receive, WatcherReturns, TakeSnapshot, ExecutionStep,
         ExecuteStarts, ExecuteFails, ExecuteSucceeds, AckAll, ProcessorReturns, Cancel,
         vars, watchVars

\* Unless SwapNew4Old is used, some watcher can always go on.
THEOREM NeverWedged == Spec => []NoWedge
<1>1. TypeInv /\ WedgeInv => NoWedge
  <2> SUFFICES ASSUME TypeInv, NEW i \in SnapshotInputs, Short(i)
               PROVE  i \in Inputs /\ HasRoom(i)
    BY DEF WedgeInv, NoWedge
  <2>1. i \in Inputs /\ Target(i) = i
    BY DEF SnapshotInputs, Target
  <2>2. /\ Len(snapshot[i]) \in Nat /\ spec.min[i] \in Nat /\ spec.max[i] \in Nat
        /\ spec.min[i] <= spec.max[i]
    BY <2>1, SpecFacts DEF TypeInv, InputLoopTypeOK
  <2>3. QED BY <2>1, <2>2 DEF Short, HasRoom
<1>2. Spec => [](TypeInv /\ WedgeInv)
  BY InitTypeInv, TypeStep, InitWedgeInv, WedgeStep, PTL DEF Spec
<1>3. QED BY <1>1, <1>2, PTL

\* Without merging at most one watcher sends, and it sends the last clone: the next
\* one needs a value of its input, or (SwapNew4Old) room that there is not.
OneSender ==
  \A i \in Inputs : watcher[i] = "sending" =>
    /\ clone[i] = executionCount /\ Len(taken) + 1 = executionCount
    /\ \A j \in Inputs : watcher[j] = "sending" => i = j
    /\ Short(i) \/ \A j \in Inputs : ~HasRoom(j)
AllTaken == (\A i \in Inputs : watcher[i] # "sending") => Len(taken) = executionCount
OrderInv == /\ \A k \in DOMAIN taken : taken[k] = k
            /\ AllTaken /\ OneSender

\* While a watcher sends, no other one builds a clone.
LEMMA NoOtherBuild ==
  ASSUME TypeInv, OneSender, NoMerge, NEW i \in Inputs, Build(i), NEW j \in Inputs
  PROVE  watcher[j] # "sending"
<1> SUFFICES ASSUME watcher[j] = "sending" PROVE FALSE
  OBVIOUS
<1>1. /\ HasRoom(i) /\ watcher[i] = "waiting" /\ j # i
      /\ Len(WithValue(i)[j]) >= spec.min[j]
  BY DEF Build, Ready, NoMerge
<1>2. Target(i) = i
  BY DEF NoMerge, Target
<1>3. WithValue(i)[j] = snapshot[j]
  BY <1>1, <1>2, TypeFacts, WithValueFacts DEF TypeInv, InputLoopTypeOK
<1>4. Len(snapshot[j]) \in Nat /\ spec.min[j] \in Nat
  BY SpecFacts DEF TypeInv, InputLoopTypeOK
<1>5. QED BY <1>1, <1>3, <1>4 DEF OneSender, Short

\* Every step keeps clones in order, without merging.
LEMMA OrderStep == TypeInv /\ NoMerge /\ OrderInv /\ [Next]_vars => OrderInv'
<1> SUFFICES ASSUME TypeInv, NoMerge, OrderInv, [Next]_vars PROVE OrderInv'
  OBVIOUS
<1>0. /\ watcher \in [Inputs -> {"fetching", "waiting", "sending", "returned"}]
      /\ clone \in [Inputs -> 0..executionCount] /\ executionCount \in Nat
      /\ taken \in Seq(Clones) /\ Len(taken) \in Nat /\ DOMAIN taken = 1..Len(taken)
      /\ \A i \in Inputs : watcher[i] = "sending" => clone[i] \in Clones
      /\ \A i \in Inputs : Target(i) = i
      /\ spec' = spec /\ \A i \in Inputs : Target(i)' = i
  BY TypeFacts, SpecStays DEF TypeInv, InputLoopTypeOK, NoMerge, Target
<1>1. ASSUME NEW i \in Inputs, Receive(i) \/ WatcherReturns(i) PROVE OrderInv'
  <2>1. /\ \A j \in Inputs : watcher'[j] = "sending" <=> watcher[j] = "sending"
        /\ UNCHANGED <<clone, executionCount, taken, snapshot>>
    BY <1>0, <1>1 DEF Receive, WatcherReturns, buildVars, execVars
  <2>2. \A j \in Inputs : /\ Short(j)' <=> Short(j)
                          /\ HasRoom(j)' <=> HasRoom(j)
    BY <1>0, <2>1 DEF Short, HasRoom
  <2>3. QED BY <2>1, <2>2 DEF OrderInv, AllTaken, OneSender
<1>2. ASSUME NEW i \in Inputs, Collect(i) PROVE OrderInv'
  <2>1. /\ \A j \in Inputs : watcher'[j] = "sending" <=> watcher[j] = "sending" /\ j # i
        /\ watcher[i] = "waiting" /\ HasRoom(i) /\ snapshot' = WithValue(i)
        /\ UNCHANGED <<clone, executionCount, taken>>
    BY <1>0, <1>2 DEF Collect, buildVars, execVars
  <2>2. \A j \in Inputs : j # i => snapshot'[j] = snapshot[j]
    <3>1. spec \in Specs /\ snapshot \in [Inputs -> Seq(Pairs)]
          /\ received[i] \in 1..MaxArrivals
      BY <2>1, TypeFacts DEF TypeInv, InputLoopTypeOK
    <3>2. QED BY <1>0, <2>1, <3>1, WithValueFacts
  <2>3. \A j \in Inputs : watcher'[j] = "sending" => Short(j)'
    BY <1>0, <2>1, <2>2 DEF OrderInv, OneSender, Short
  <2>4. OneSender'
    BY <2>1, <2>3 DEF OrderInv, OneSender
  <2>5. AllTaken'
    BY <2>1 DEF OrderInv, AllTaken
  <2>6. QED BY <2>1, <2>4, <2>5 DEF OrderInv
<1>3. ASSUME NEW i \in Inputs, Build(i) PROVE OrderInv'
  <2>1. /\ watcher' = [watcher EXCEPT ![i] = "sending"]
        /\ clone' = [clone EXCEPT ![i] = executionCount'] /\ taken' = taken
        /\ executionCount' = executionCount + 1
    BY <1>3 DEF Build, execVars
  <2>2. \A j \in Inputs : watcher[j] # "sending"
    BY <1>3, NoOtherBuild DEF OrderInv
  <2>3. Len(taken) = executionCount
    BY <2>2 DEF OrderInv, AllTaken
  <2>4. \A j \in Inputs : watcher'[j] = "sending" <=> j = i
    BY <1>0, <2>1, <2>2
  <2>5. clone'[i] = executionCount'
    BY <1>0, <2>1
  <2>6. Short(i)' \/ \A j \in Inputs : ~HasRoom(j)'
    <3>1. CASE spec.policy = "SwapNew4Old"
      <4>1. ASSUME NEW j \in Inputs PROVE ~HasRoom(j)'
        <5>1. Len(snapshot'[j]) = spec.max[j] /\ spec.max[j] \in Nat
          BY <1>3, <3>1, BuildLeavesShort, SpecFacts DEF NoMerge, TypeInv, InputLoopTypeOK
        <5>2. QED BY <1>0, <5>1 DEF HasRoom
      <4>2. QED BY <4>1
    <3>2. CASE spec.policy # "SwapNew4Old"
      <4>1. Len(snapshot'[i]) < spec.min[i]
        BY <1>3, <3>2, BuildLeavesShort DEF NoMerge
      <4>2. QED BY <1>0, <4>1 DEF Short
    <3>3. QED BY <3>1, <3>2
  <2>7. OneSender'
    BY <2>1, <2>3, <2>4, <2>5, <2>6 DEF OneSender
  <2>8. AllTaken'
    BY <2>4 DEF AllTaken
  <2>9. QED BY <2>1, <2>7, <2>8 DEF OrderInv
<1>4. ASSUME NEW i \in Inputs, TakeSnapshot(i) PROVE OrderInv'
  <2>1. /\ watcher[i] = "sending" /\ watcher' = [watcher EXCEPT ![i] = "fetching"]
        /\ taken' = Append(taken, clone[i]) /\ executionCount' = executionCount
    BY <1>4 DEF TakeSnapshot, buildVars
  <2>2. clone[i] = Len(taken) + 1 /\ clone[i] = executionCount /\ clone[i] \in Clones
        /\ \A j \in Inputs : watcher[j] = "sending" => i = j
    BY <1>0, <2>1 DEF OrderInv, OneSender
  <2>3. \A j \in Inputs : watcher'[j] # "sending"
    BY <1>0, <2>1, <2>2
  <2>4. /\ Len(taken') = Len(taken) + 1 /\ DOMAIN taken' = 1..(Len(taken) + 1)
        /\ \A k \in 1..Len(taken) : taken'[k] = taken[k]
        /\ taken'[Len(taken) + 1] = clone[i]
    BY <1>0, <2>1, <2>2, AppendProperties
  <2>5. \A k \in DOMAIN taken' : taken'[k] = k
    BY <1>0, <2>2, <2>4 DEF OrderInv
  <2>6. QED BY <2>1, <2>2, <2>3, <2>4, <2>5 DEF OrderInv, AllTaken, OneSender
<1>5. ASSUME UNCHANGED <<watchVars, buildVars, taken>> PROVE OrderInv'
  <2>1. UNCHANGED <<watcher, clone, executionCount, taken, snapshot>>
    BY <1>5 DEF watchVars, buildVars
  <2>2. \A j \in Inputs : /\ Short(j)' <=> Short(j)
                          /\ HasRoom(j)' <=> HasRoom(j)
    BY <1>0, <2>1 DEF Short, HasRoom
  <2>3. QED BY <2>1, <2>2 DEF OrderInv, AllTaken, OneSender
<1>6. ASSUME NEW n \in DOMAIN stage, ExecutionStep(n) PROVE OrderInv'
  BY <1>5, <1>6, ExecutionFacts
<1>7. CASE ProcessorReturns \/ Cancel \/ UNCHANGED vars
  BY <1>5, <1>7 DEF ProcessorReturns, Cancel, vars, execVars
<1>8. QED BY <1>1, <1>2, <1>3, <1>4, <1>6, <1>7 DEF Next, WatcherStep

\* Without merging, clones are executed in the order in which they were built.
THEOREM ClonesInOrder == Spec => []TakenInOrder
<1> DEFINE Inv == TypeInv /\ (NoMerge => OrderInv)
<1>1. Init => (NoMerge => OrderInv)
  BY DEF Init, OrderInv, AllTaken, OneSender
<1>2. Inv /\ [Next]_vars => Inv'
  BY TypeStep, OrderStep, SpecStays
<1>3. Inv => TakenInOrder
  BY DEF OrderInv, TakenInOrder
<1> HIDE DEF Inv
<1>4. Init => Inv
  BY <1>1, InitTypeInv DEF Inv
<1>5. QED BY <1>2, <1>3, <1>4, PTL DEF Spec

-----------------------------------------------------------------------------
(* Clones are windows on the stream of values.                             *)

\* The window of clone n on input i, as in WindowsAdvance.
Window(n, i) ==
  /\ Len(contents[n][i]) \in spec.min[i]..spec.max[i]
  /\ \A j \in DOMAIN contents[n][i] : contents[n][i][j].av = <<i, Initial(n, i) + j - 1>>
  /\ n = 1 => Initial(n, i) = 1
  /\ n > 1 /\ spec.policy = "AllNew" => Initial(n, i) = Final(n - 1, i) + 1
  /\ n > 1 /\ spec.policy = "SlidingWindow" =>
       Initial(n, i) = Initial(n - 1, i) + spec.slide[i]
Windows == \A n \in Clones, i \in Inputs : Window(n, i)

\* The number that the first value in the sequence of input i has, or will have.
First(i) == IF executionCount = 0 THEN 1
            ELSE Initial(executionCount, i)
                   + Shift(i, Len(contents[executionCount][i]))
\* How many values the watcher of input i has received and handed in.
HandedIn(i) == IF watcher[i] = "waiting" THEN received[i] - 1 ELSE received[i]

Numbered == \A i \in Inputs : \A k \in DOMAIN snapshot[i] :
              snapshot[i][k].av = <<i, First(i) + k - 1>>
UpToDate == \A i \in Inputs : watcher[i] # "returned" =>
              HandedIn(i) + 1 = First(i) + Len(snapshot[i])
SwapIsFull == spec.policy = "SwapNew4Old" /\ executionCount > 0 =>
                \A i \in Inputs : ~HasRoom(i)
WindowInv == Numbered /\ UpToDate /\ SwapIsFull /\ Windows

\* No window is empty, so that its first number is one.
LEMMA WindowFacts ==
  ASSUME TypeInv, Windows, NEW i \in Inputs
  PROVE  /\ \A n \in Clones :
              /\ Initial(n, i) \in Nat /\ Len(contents[n][i]) \in Nat
              /\ spec.min[i] <= Len(contents[n][i])
              /\ Shift(i, Len(contents[n][i])) \in Nat
         /\ First(i) \in Nat
<1>0. /\ spec \in Specs /\ spec.min[i] \in Nat /\ spec.max[i] \in Nat /\ 1 <= spec.min[i]
      /\ spec.slide[i] \in Nat
      /\ spec.policy \in {"AllNew", "SwapNew4Old", "SlidingWindow"}
      /\ contents \in Seq([Inputs -> Seq(Pairs)]) /\ Clones = 1..Len(contents)
      /\ executionCount = Len(contents) /\ executionCount \in Nat
  <2>1. /\ spec \in Specs /\ contents \in Seq([Inputs -> Seq(Pairs)])
        /\ executionCount = Len(contents)
    BY DEF TypeInv, InputLoopTypeOK
  <2>2. executionCount \in Nat /\ Clones = 1..executionCount
    BY TypeFacts
  <2>3. /\ spec.min[i] \in Nat /\ spec.max[i] \in Nat /\ spec.slide[i] \in Nat
        /\ 1 <= spec.slide[i] /\ spec.slide[i] <= spec.min[i]
        /\ spec.policy \in {"AllNew", "SwapNew4Old", "SlidingWindow"}
    BY <2>1, SpecFacts
  <2>4. 1 <= spec.min[i]
    BY <2>3
  <2>5. QED BY <2>1, <2>2, <2>3, <2>4
<1>1. ASSUME NEW n \in Clones
      PROVE  /\ Initial(n, i) \in Nat /\ Len(contents[n][i]) \in Nat
             /\ spec.min[i] <= Len(contents[n][i])
             /\ Shift(i, Len(contents[n][i])) \in Nat
  <2>1. contents[n][i] \in Seq(Pairs)
    BY <1>0
  <2>2. Len(contents[n][i]) \in Nat /\ Len(contents[n][i]) \in spec.min[i]..spec.max[i]
    BY <2>1 DEF Windows, Window
  <2>3. spec.min[i] <= Len(contents[n][i]) /\ 1 \in 1..Len(contents[n][i])
    BY <1>0, <2>2
  <2>4. contents[n][i][1] \in Pairs
    BY <2>1, <2>3
  <2>5. Initial(n, i) \in Nat
    BY <2>4 DEF Pairs, Values, Initial
  <2>6. Shift(i, Len(contents[n][i])) \in Nat
    <3> DEFINE len == Len(contents[n][i])
    <3>1. len \in Nat
      BY <2>2
    <3> HIDE DEF len
    <3>2. Shift(i, len) \in Nat
      BY <1>0, <3>1 DEF Shift
    <3>3. QED BY <3>2 DEF len
  <2>7. QED BY <2>2, <2>3, <2>5, <2>6
<1>2. executionCount # 0 => executionCount \in Clones
  BY <1>0
<1>3. QED BY <1>1, <1>2 DEF First

\* Numbers go on with the value that the watcher adds.
LEMMA WithValueNumbers ==
  ASSUME TypeInv, NoMerge, WindowInv, NEW i \in Inputs, watcher[i] = "waiting",
         NEW j \in Inputs
  PROVE  LET q == WithValue(i)[j]
         IN  /\ q \in Seq(Pairs)
             /\ Len(q) = Len(snapshot[j]) + IF j = i THEN 1 ELSE 0
             /\ \A k \in 1..Len(q) : q[k].av = <<j, First(j) + k - 1>>
<1> DEFINE q == WithValue(i)[j]
           s == snapshot[j]
<1>0. /\ spec \in Specs /\ snapshot \in [Inputs -> Seq(Pairs)] /\ Target(i) = i
      /\ received[i] \in 1..MaxArrivals
  BY TypeFacts DEF TypeInv, InputLoopTypeOK, NoMerge, Target
<1>1. /\ s \in Seq(Pairs) /\ Len(s) \in Nat /\ DOMAIN s = 1..Len(s)
      /\ First(j) \in Nat /\ \A k \in 1..Len(s) : s[k].av = <<j, First(j) + k - 1>>
  BY <1>0, WindowFacts DEF WindowInv, Numbered
<1>2. CASE j # i
  <2>1. q = s
    BY <1>0, <1>2, WithValueFacts
  <2>2. QED BY <1>1, <1>2, <2>1
<1>3. CASE j = i
  <2>1. /\ q \in Seq(Pairs) /\ Len(q) = Len(s) + 1
        /\ \A k \in 1..Len(s) : q[k] = s[k]
        /\ q[Len(s) + 1] = [av |-> <<i, received[i]>>, ack |-> TRUE]
    BY <1>0, <1>3, WithValueFacts
  <2>2. received[i] = First(j) + Len(s)
    BY <1>0, <1>1, <1>3 DEF WindowInv, UpToDate, HandedIn
  <2>3. q[Len(s) + 1].av = <<j, First(j) + (Len(s) + 1) - 1>>
    BY <1>1, <1>3, <2>1, <2>2
  <2> HIDE DEF q, s
  <2>4. \A k \in 1..Len(q) : q[k].av = <<j, First(j) + k - 1>>
    <3> SUFFICES ASSUME NEW k \in 1..Len(q) PROVE q[k].av = <<j, First(j) + k - 1>>
      OBVIOUS
    <3>1. k \in 1..Len(s) \/ k = Len(s) + 1
      BY <1>1, <2>1
    <3>2. QED BY <1>1, <2>1, <2>3, <3>1
  <2>5. QED BY <1>3, <2>1, <2>4 DEF q, s
<1>4. QED BY <1>2, <1>3

\* The clone that is built continues the windows, and what is left of the snapshot
\* is numbered on.
LEMMA BuildWindow ==
  ASSUME TypeInv, NoMerge, WindowInv, NEW i \in Inputs, Build(i), NEW j \in Inputs,
         NEW c, c = executionCount'
  PROVE  /\ Window(c, j)'
         /\ \A k \in DOMAIN snapshot'[j] :
              snapshot'[j][k].av = <<j, First(j)' + k - 1>>
         /\ First(j)' + Len(snapshot'[j]) =
              First(j) + Len(snapshot[j]) + IF j = i THEN 1 ELSE 0
<1> DEFINE q == WithValue(i)[j]
           s == Shift(j, Len(q))
           r == snapshot'[j]
           d == contents'[c]
<1>1. /\ watcher[i] = "waiting" /\ Ready(WithValue(i)) /\ spec' = spec
      /\ SnapshotInputs = Inputs
  BY DEF Build, NoMerge
<1>2. /\ q \in Seq(Pairs) /\ Len(q) = Len(snapshot[j]) + (IF j = i THEN 1 ELSE 0)
      /\ \A k \in 1..Len(q) : q[k].av = <<j, First(j) + k - 1>>
  BY <1>1, WithValueNumbers
<1>3. /\ c = executionCount + 1 /\ executionCount \in Nat /\ Clones = 1..executionCount
      /\ d[j] = q /\ \A n \in Clones : contents'[n] = contents[n]
  BY BuildFacts, TypeFacts
<1>4. /\ r \in Seq(Pairs) /\ Len(q) <= spec.max[j] /\ s \in 0..Len(q)
      /\ Len(r) = Len(q) - s
      /\ \A k \in 1..Len(r) : r[k].av = q[k + s].av
  BY BuildFacts
<1>5. /\ spec.min[j] \in Nat /\ spec.max[j] \in Nat /\ 1 <= spec.min[j]
      /\ spec.slide[j] \in Nat /\ spec.slide[j] <= spec.min[j]
      /\ spec.policy \in {"AllNew", "SwapNew4Old", "SlidingWindow"}
  <2>1. spec \in Specs
    BY DEF TypeInv, InputLoopTypeOK
  <2>2. /\ spec.min[j] \in Nat /\ spec.max[j] \in Nat /\ spec.slide[j] \in Nat
        /\ 1 <= spec.slide[j] /\ spec.slide[j] <= spec.min[j]
        /\ spec.policy \in {"AllNew", "SwapNew4Old", "SlidingWindow"}
    BY <2>1, SpecFacts
  <2>3. 1 <= spec.min[j]
    BY <2>2
  <2>4. QED BY <2>2, <2>3
<1>6. First(j) \in Nat /\ Len(snapshot[j]) \in Nat
  BY WindowFacts DEF TypeInv, InputLoopTypeOK, WindowInv
<1>7. First(j)' = d[j][1].av[2] + Shift(j, Len(d[j]))
  <2>1. executionCount' # 0 /\ executionCount' = c
    BY <1>3
  <2> HIDE DEF d
  <2>2. First(j)' = Initial(c, j)' + Shift(j, Len(contents[executionCount][j]))'
    BY <2>1 DEF First
  <2>3. Initial(c, j)' = d[j][1].av[2]
    BY DEF Initial, d
  <2>4. Shift(j, Len(contents[executionCount][j]))' = Shift(j, Len(d[j]))
    BY <1>1, <2>1 DEF Shift, d
  <2>5. QED BY <2>2, <2>3, <2>4
<1>8. Ready(WithValue(i)) => Len(q) >= spec.min[j]
  BY <1>1 DEF Ready
<1> HIDE DEF q, r, d
<1>9. Len(q) \in Nat /\ DOMAIN q = 1..Len(q) /\ Len(r) \in Nat /\ DOMAIN r = 1..Len(r)
  <2>1. q \in Seq(Pairs) /\ r \in Seq(Pairs)
    BY <1>2, <1>4
  <2>2. QED BY <2>1
<1>10. spec.min[j] <= Len(q) /\ 1 \in 1..Len(q)
  BY <1>1, <1>5, <1>8, <1>9
<1> HIDE DEF s
<1>11. s \in Nat
  BY <1>4, <1>9
<1>12. q[1].av = <<j, First(j)>> /\ First(j)' = First(j) + s
  <2>1. q[1].av = <<j, First(j) + 1 - 1>>
    BY <1>2, <1>10
  <2>2. First(j) + 1 - 1 = First(j)
    BY <1>6
  <2>3. First(j)' = q[1].av[2] + s
    BY <1>3, <1>7 DEF s
  <2>4. QED BY <2>1, <2>2, <2>3
<1>13. ASSUME NEW k \in DOMAIN r PROVE r[k].av = <<j, First(j)' + k - 1>>
  <2>1. k \in Nat /\ k + s \in 1..Len(q) /\ k \in 1..Len(r)
    BY <1>4, <1>9, <1>11
  <2>2. r[k].av = q[k + s].av /\ q[k + s].av = <<j, First(j) + (k + s) - 1>>
    BY <1>2, <1>4, <2>1
  <2>3. First(j) + (k + s) - 1 = First(j)' + k - 1
    BY <1>6, <1>11, <1>12, <2>1
  <2>4. QED BY <2>2, <2>3
<1>14. First(j)' + Len(r) = First(j) + Len(snapshot[j]) + IF j = i THEN 1 ELSE 0
  <2>1. First(j)' + Len(r) = First(j) + Len(q)
    <3>1. Len(r) = Len(q) - s
      BY <1>4
    <3>2. QED BY <1>6, <1>9, <1>11, <1>12, <3>1
  <2> DEFINE a == IF j = i THEN 1 ELSE 0
  <2>2. Len(q) = Len(snapshot[j]) + a
    BY <1>2
  <2>3. a \in Nat
    OBVIOUS
  <2> HIDE DEF a
  <2>4. First(j)' + Len(r) = First(j) + Len(snapshot[j]) + a
    BY <1>6, <2>1, <2>2, <2>3
  <2>5. QED BY <2>4 DEF a
<1>15. Window(c, j)'
  <2>1. Initial(c, j)' = First(j)
    BY <1>3, <1>12 DEF Initial, d
  <2>2. \A k \in DOMAIN d[j] : d[j][k].av = <<j, Initial(c, j)' + k - 1>>
    BY <1>2, <1>3, <1>9, <2>1
  <2>3. Len(d[j]) \in spec.min[j]..spec.max[j]
    <3>1. Len(q) <= spec.max[j]
      BY <1>4
    <3>2. QED BY <1>3, <1>5, <1>9, <1>10, <3>1
  <2>4. CASE executionCount = 0
    <3>1. c = 1 /\ First(j) = 1 /\ ~(c > 1)
      BY <1>3, <2>4 DEF First
    <3>2. QED BY <1>1, <2>1, <2>2, <2>3, <3>1 DEF Window, d
  <2>5. CASE executionCount # 0
    <3> DEFINE n == executionCount
               len == Len(contents[n][j])
               p == Shift(j, len)
    <3>1. n \in Clones /\ c - 1 = n /\ c # 1 /\ contents'[c - 1] = contents[n]
      BY <1>3, <2>5
    <3>2. First(j) = Initial(n, j) + p
      BY <2>5 DEF First
    <3>3. Initial(n, j) \in Nat /\ len \in Nat /\ spec.min[j] <= len
      BY <3>1, WindowFacts DEF WindowInv
    <3>4. /\ Initial(c - 1, j)' = Initial(n, j)
          /\ Final(c - 1, j)' = Initial(n, j) + len - 1
      BY <3>1 DEF Initial, Final
    <3> HIDE DEF len
    <3>5. spec.policy = "AllNew" => p = len
      BY DEF Shift
    <3>6. spec.policy = "SlidingWindow" => p = spec.slide[j]
      BY <1>5, <3>3 DEF Shift
    <3> HIDE DEF p
    <3>7. spec.policy = "AllNew" => Initial(c, j)' = Final(c - 1, j)' + 1
      BY <2>1, <3>2, <3>3, <3>4, <3>5
    <3>8. spec.policy = "SlidingWindow" =>
            Initial(c, j)' = Initial(c - 1, j)' + spec.slide[j]
      BY <2>1, <3>2, <3>4, <3>6
    <3>9. QED BY <1>1, <2>2, <2>3, <3>1, <3>7, <3>8 DEF Window, d
  <2>6. QED BY <2>4, <2>5
<1>16. QED BY <1>13, <1>14, <1>15 DEF r

\* A step that builds nothing leaves the windows alone.
LEMMA WindowsStay ==
  ASSUME contents' = contents, executionCount' = executionCount, spec' = spec
  PROVE  /\ \A i : First(i)' = First(i)
         /\ Windows => Windows'
         /\ snapshot' = snapshot => (Numbered => Numbered') /\ (SwapIsFull => SwapIsFull')
<1>1. \A i : First(i)' = First(i)
  BY DEF First, Initial, Shift
<1>2. Windows => Windows'
  BY DEF Windows, Window, Clones, Initial, Final
<1>3. snapshot' = snapshot => (Numbered => Numbered')
  BY <1>1 DEF Numbered
<1>4. snapshot' = snapshot => (SwapIsFull => SwapIsFull')
  BY DEF SwapIsFull, HasRoom, Target, SnapshotInputs
<1>5. QED BY <1>1, <1>2, <1>3, <1>4

\* Every step keeps the windows, without merging.
LEMMA WindowStep == TypeInv /\ NoMerge /\ WindowInv /\ [Next]_vars => WindowInv'
<1> SUFFICES ASSUME TypeInv, NoMerge, WindowInv, [Next]_vars PROVE WindowInv'
  OBVIOUS
<1>0. /\ watcher \in [Inputs -> {"fetching", "waiting", "sending", "returned"}]
      /\ received \in [Inputs -> 0..MaxArrivals] /\ MaxArrivals \in Nat
      /\ spec' = spec /\ SnapshotInputs = Inputs
      /\ \A i \in Inputs : Target(i) = i /\ Target(i)' = i
      /\ \A i \in Inputs : First(i) \in Nat /\ Len(snapshot[i]) \in Nat
  <2>1. spec' = spec /\ NoMerge'
    BY SpecStays
  <2>2. \A i \in Inputs : First(i) \in Nat
    BY WindowFacts DEF WindowInv
  <2>3. QED BY <2>1, <2>2, InputLoopAssumption DEF TypeInv, InputLoopTypeOK, NoMerge, Target
<1> USE DEF WindowInv
<1>1. ASSUME NEW i \in Inputs, Receive(i) PROVE WindowInv'
  <2>1. /\ received' = [received EXCEPT ![i] = @ + 1] /\ watcher[i] = "fetching"
        /\ watcher' = [watcher EXCEPT ![i] = "waiting"]
        /\ UNCHANGED <<snapshot, contents, executionCount, spec>>
    BY <1>1 DEF Receive, buildVars
  <2>2. \A j \in Inputs : /\ HandedIn(j)' = HandedIn(j)
                          /\ watcher'[j] = "returned" <=> watcher[j] = "returned"
    <3> SUFFICES ASSUME NEW j \in Inputs
                 PROVE  /\ HandedIn(j)' = HandedIn(j)
                        /\ watcher'[j] = "returned" <=> watcher[j] = "returned"
      OBVIOUS
    <3>1. received[j] \in Nat
      BY <1>0
    <3>2. CASE j = i
      BY <1>0, <2>1, <3>1, <3>2 DEF HandedIn
    <3>3. CASE j # i
      BY <1>0, <2>1, <3>3 DEF HandedIn
    <3>4. QED BY <3>2, <3>3
  <2>3. UpToDate'
    BY <2>1, <2>2, WindowsStay DEF UpToDate
  <2>4. QED BY <2>1, <2>3, WindowsStay
<1>2. ASSUME NEW i \in Inputs, Collect(i) PROVE WindowInv'
  <2>1. /\ received' = received /\ watcher[i] = "waiting" /\ HasRoom(i)
        /\ watcher' = [watcher EXCEPT ![i] = "fetching"]
        /\ snapshot' = WithValue(i) /\ UNCHANGED <<contents, executionCount, spec>>
    BY <1>2 DEF Collect, buildVars
  <2>2. /\ \A j : First(j)' = First(j)
        /\ Windows'
    BY <2>1, WindowsStay
  <2>3. ASSUME NEW j \in Inputs
        PROVE  /\ DOMAIN snapshot'[j] = 1..Len(snapshot'[j])
               /\ j = i => Len(snapshot'[j]) = Len(snapshot[j]) + 1
               /\ j # i => Len(snapshot'[j]) = Len(snapshot[j])
               /\ \A k \in 1..Len(snapshot'[j]) :
                    snapshot'[j][k].av = <<j, First(j) + k - 1>>
    <3> DEFINE q == WithValue(i)[j]
    <3>1. /\ q \in Seq(Pairs) /\ Len(q) = Len(snapshot[j]) + (IF j = i THEN 1 ELSE 0)
          /\ \A k \in 1..Len(q) : q[k].av = <<j, First(j) + k - 1>>
      BY <2>1, WithValueNumbers
    <3>2. snapshot'[j] = q
      BY <2>1
    <3> HIDE DEF q
    <3>3. DOMAIN q = 1..Len(q)
      BY <3>1
    <3>4. j = i => Len(q) = Len(snapshot[j]) + 1
      BY <3>1
    <3>5. j # i => Len(q) = Len(snapshot[j])
      <4>1. j # i => Len(q) = Len(snapshot[j]) + 0
        BY <3>1
      <4>2. Len(snapshot[j]) \in Nat
        BY <1>0
      <4>3. QED BY <4>1, <4>2
    <3>6. QED BY <3>1, <3>2, <3>3, <3>4, <3>5
  <2>4. Numbered'
    BY <2>2, <2>3 DEF Numbered
  <2>5. UpToDate'
    <3> SUFFICES ASSUME NEW j \in Inputs, watcher'[j] # "returned"
                 PROVE  HandedIn(j)' + 1 = First(j) + Len(snapshot'[j])
      BY <2>2 DEF UpToDate
    <3>1. received[j] \in Nat /\ First(j) \in Nat /\ Len(snapshot[j]) \in Nat
      BY <1>0
    <3>2. HandedIn(j) + 1 = First(j) + Len(snapshot[j])
      BY <1>0, <2>1 DEF UpToDate
    <3>3. CASE j = i
      <4>1. HandedIn(j) = received[j] - 1 /\ HandedIn(j)' = received[j]
        BY <1>0, <2>1, <3>3 DEF HandedIn
      <4>2. Len(snapshot'[j]) = Len(snapshot[j]) + 1
        BY <2>3, <3>3
      <4>3. QED BY <3>1, <3>2, <4>1, <4>2
    <3>4. CASE j # i
      <4>1. HandedIn(j)' = HandedIn(j)
        BY <1>0, <2>1, <3>4 DEF HandedIn
      <4>2. Len(snapshot'[j]) = Len(snapshot[j])
        BY <2>3, <3>1, <3>4
      <4>3. QED BY <3>2, <4>1, <4>2
    <3>5. QED BY <3>3, <3>4
  <2>6. SwapIsFull'
    BY <2>1 DEF SwapIsFull
  <2>7. QED BY <2>2, <2>4, <2>5, <2>6
<1>3. ASSUME NEW i \in Inputs, Build(i) PROVE WindowInv'
  <2>0. PICK c : c = executionCount'
    OBVIOUS
  <2>1. /\ received' = received /\ watcher[i] = "waiting"
        /\ watcher' = [watcher EXCEPT ![i] = "sending"]
    BY <1>3 DEF Build
  <2>2. ASSUME NEW j \in Inputs
        PROVE  /\ Window(c, j)'
               /\ \A k \in DOMAIN snapshot'[j] :
                    snapshot'[j][k].av = <<j, First(j)' + k - 1>>
               /\ First(j)' + Len(snapshot'[j]) =
                    First(j) + Len(snapshot[j]) + IF j = i THEN 1 ELSE 0
    BY <1>3, <2>0, BuildWindow
  <2>3. Numbered'
    BY <2>2 DEF Numbered
  <2>4. UpToDate'
    <3> SUFFICES ASSUME NEW j \in Inputs, watcher'[j] # "returned"
                 PROVE  HandedIn(j)' + 1 = First(j)' + Len(snapshot'[j])
      BY DEF UpToDate
    <3>1. received[j] \in Nat /\ First(j) \in Nat /\ Len(snapshot[j]) \in Nat
      BY <1>0
    <3>2. HandedIn(j) + 1 = First(j) + Len(snapshot[j])
      BY <1>0, <2>1 DEF UpToDate
    <3>3. CASE j = i
      <4>1. HandedIn(j) = received[j] - 1 /\ HandedIn(j)' = received[j]
        BY <1>0, <2>1, <3>3 DEF HandedIn
      <4>2. First(j)' + Len(snapshot'[j]) = First(j) + Len(snapshot[j]) + 1
        BY <2>2, <3>3
      <4>3. QED BY <3>1, <3>2, <4>1, <4>2
    <3>4. CASE j # i
      <4>1. HandedIn(j)' = HandedIn(j)
        BY <1>0, <2>1, <3>4 DEF HandedIn
      <4>2. First(j)' + Len(snapshot'[j]) = First(j) + Len(snapshot[j])
        BY <2>2, <3>1, <3>4
      <4>3. QED BY <3>2, <4>1, <4>2
    <3>5. QED BY <3>3, <3>4
  <2>5. SwapIsFull'
    <3> SUFFICES ASSUME spec.policy = "SwapNew4Old", NEW j \in Inputs PROVE ~HasRoom(j)'
      BY <1>0 DEF SwapIsFull
    <3>1. Len(snapshot'[j]) = spec.max[j] /\ spec.max[j] \in Nat
      BY <1>0, <1>3, BuildLeavesShort, SpecFacts DEF TypeInv, InputLoopTypeOK
    <3>2. QED BY <1>0, <3>1 DEF HasRoom
  <2>6. Windows'
    <3> SUFFICES ASSUME NEW n \in Clones', NEW j \in Inputs PROVE Window(n, j)'
      BY DEF Windows
    <3>1. /\ c = executionCount + 1 /\ Clones' = 1..c /\ Clones = 1..executionCount
          /\ executionCount \in Nat /\ \A m \in Clones : contents'[m] = contents[m]
      BY <1>3, <2>0, BuildFacts, TypeFacts
    <3>2. CASE n = c
      BY <2>2, <3>2
    <3>3. CASE n # c
      <4>1. n \in Clones /\ contents'[n] = contents[n]
        BY <3>1, <3>3
      <4>2. n > 1 => contents'[n - 1] = contents[n - 1]
        BY <3>1, <4>1
      <4>3. Initial(n, j)' = Initial(n, j)
        BY <4>1 DEF Initial
      <4>4. n > 1 => Initial(n - 1, j)' = Initial(n - 1, j)
                     /\ Final(n - 1, j)' = Final(n - 1, j)
        BY <4>2 DEF Initial, Final
      <4>5. Window(n, j)
        BY <4>1 DEF Windows
      <4>6. QED BY <1>0, <4>1, <4>3, <4>4, <4>5 DEF Window
    <3>4. QED BY <3>2, <3>3
  <2>7. QED BY <2>3, <2>4, <2>5, <2>6
<1>4. ASSUME UNCHANGED <<received, snapshot, contents, executionCount, spec>>,
             \A j \in Inputs :
               \/ watcher'[j] = "returned"
               \/ /\ watcher[j] # "returned"
                  /\ watcher'[j] = "waiting" <=> watcher[j] = "waiting"
      PROVE  WindowInv'
  <2>1. \A j \in Inputs : watcher'[j] # "returned" =>
          watcher[j] # "returned" /\ HandedIn(j)' = HandedIn(j)
    BY <1>4 DEF HandedIn
  <2>2. UpToDate'
    BY <1>4, <2>1, WindowsStay DEF UpToDate
  <2>3. QED BY <1>4, <2>2, WindowsStay
<1>5. ASSUME NEW i \in Inputs, WatcherReturns(i) \/ TakeSnapshot(i) PROVE WindowInv'
  <2>1. /\ UNCHANGED <<received, snapshot, contents, executionCount, spec>>
        /\ \/ watcher' = [watcher EXCEPT ![i] = "returned"]
           \/ watcher[i] = "sending" /\ watcher' = [watcher EXCEPT ![i] = "fetching"]
    BY <1>5 DEF WatcherReturns, TakeSnapshot, buildVars
  <2>2. \A j \in Inputs :
          \/ watcher'[j] = "returned"
          \/ /\ watcher[j] # "returned"
             /\ watcher'[j] = "waiting" <=> watcher[j] = "waiting"
          \/ watcher'[j] = watcher[j]
    BY <1>0, <2>1
  <2>3. QED BY <1>4, <2>1, <2>2
<1>6. ASSUME UNCHANGED <<spec, watchVars, buildVars>> PROVE WindowInv'
  BY <1>4, <1>6 DEF watchVars, buildVars
<1>7. ASSUME NEW n \in DOMAIN stage, ExecutionStep(n) PROVE WindowInv'
  BY <1>6, <1>7, ExecutionFacts
<1>8. CASE ProcessorReturns \/ Cancel \/ UNCHANGED vars
  BY <1>6, <1>8 DEF ProcessorReturns, Cancel, vars
<1>9. QED BY <1>1, <1>2, <1>3, <1>5, <1>7, <1>8 DEF Next, WatcherStep

\* Without merging, clones are windows without gaps, as their policy says.
THEOREM WindowsAreRight == Spec => []WindowsAdvance
<1> DEFINE Inv == TypeInv /\ (NoMerge => WindowInv)
<1>1. Init => (NoMerge => WindowInv)
  <2> SUFFICES ASSUME Init PROVE WindowInv
    OBVIOUS
  <2>1. /\ Clones = {} /\ executionCount = 0
        /\ \A i \in Inputs : /\ First(i) = 1 /\ HandedIn(i) = 0
                             /\ snapshot[i] = <<>>
    BY DEF Init, Clones, First, HandedIn
  <2>2. QED BY <2>1 DEF WindowInv, Numbered, UpToDate, SwapIsFull, Windows
<1>2. Inv /\ [Next]_vars => Inv'
  BY TypeStep, WindowStep, SpecStays
<1>3. Inv => WindowsAdvance
  BY DEF WindowInv, Windows, Window, WindowsAdvance
<1> HIDE DEF Inv
<1>4. Init => Inv
  BY <1>1, InitTypeInv DEF Inv
<1>5. QED BY <1>2, <1>3, <1>4, PTL DEF Spec

-----------------------------------------------------------------------------
(* The counters of snapshots.                                              *)

\* The clones that Count counts.
At(S) == {n \in Clones : stage[n] \in S}

\* There are finitely many of them.
LEMMA CountFacts ==
  ASSUME TypeInv, NEW S
  PROVE  IsFiniteSet(At(S)) /\ Count(S) = Cardinality(At(S)) /\ Count(S) \in Nat
<1>1. executionCount \in Nat /\ Clones = 1..executionCount
  BY TypeFacts
<1>2. IsFiniteSet(Clones)
  BY <1>1, FS_Interval
<1>3. IsFiniteSet(At(S))
  BY <1>2, FS_Subset DEF At
<1>4. QED BY <1>3, FS_CardinalityType DEF At, Count

\* When clone n moves on, it leaves what counts its old stage and enters what
\* counts its new one.
LEMMA CountMove ==
  ASSUME TypeInv, TypeInv', Clones' = Clones, NEW n \in Clones, NEW st,
         stage' = [stage EXCEPT ![n] = st], NEW S
  PROVE  /\ (stage[n] \in S <=> st \in S) => Count(S)' = Count(S)
         /\ stage[n] \notin S /\ st \in S => Count(S)' = Count(S) + 1
         /\ stage[n] \in S /\ st \notin S => Count(S)' = Count(S) - 1
<1>1. /\ IsFiniteSet(At(S)) /\ Count(S) = Cardinality(At(S)) /\ Count(S) \in Nat
  BY CountFacts
<1>2. Count(S)' = Cardinality(At(S)')
  BY DEF Count, At
<1>3. DOMAIN stage = Clones
  BY TypeFacts
<1>4. stage'[n] = st /\ \A m \in Clones : m # n => stage'[m] = stage[m]
  BY <1>3
<1>5. ASSUME stage[n] \in S <=> st \in S PROVE At(S)' = At(S)
  BY <1>4, <1>5 DEF At
<1>6. ASSUME stage[n] \notin S, st \in S PROVE Count(S)' = Count(S) + 1
  <2>1. At(S)' = At(S) \cup {n} /\ n \notin At(S)
    BY <1>4, <1>6 DEF At
  <2>2. Cardinality(At(S) \cup {n}) = Cardinality(At(S)) + 1
    BY <1>1, <2>1, FS_AddElement
  <2>3. QED BY <1>1, <1>2, <2>1, <2>2
<1>7. ASSUME stage[n] \in S, st \notin S PROVE Count(S)' = Count(S) - 1
  <2>1. At(S)' = At(S) \ {n} /\ n \in At(S)
    BY <1>4, <1>7 DEF At
  <2>2. Cardinality(At(S) \ {n}) = Cardinality(At(S)) - 1
    BY <1>1, <2>1, FS_RemoveElement
  <2>3. QED BY <1>1, <1>2, <2>1, <2>2
<1>8. QED BY <1>1, <1>2, <1>5, <1>6, <1>7

\* A new clone starts in "sending".
LEMMA CountBuild ==
  ASSUME TypeInv, NEW i \in Inputs, Build(i), NEW S
  PROVE  /\ "sending" \in S => Count(S)' = Count(S) + 1
         /\ "sending" \notin S => Count(S)' = Count(S)
<1>1. /\ IsFiniteSet(At(S)) /\ Count(S) = Cardinality(At(S)) /\ Count(S) \in Nat
  BY CountFacts
<1>2. Count(S)' = Cardinality(At(S)')
  BY DEF Count, At
<1>3. /\ Clones' = Clones \cup {executionCount'} /\ executionCount' \notin Clones
      /\ \A n \in Clones : stage'[n] = stage[n]
      /\ stage'[executionCount'] = "sending"
  <2>1. executionCount \in Nat /\ Clones = 1..executionCount
    BY TypeFacts
  <2>2. /\ executionCount' = executionCount + 1 /\ Clones' = 1..executionCount'
        /\ \A n \in Clones : stage'[n] = stage[n]
        /\ stage'[executionCount'] = "sending"
    BY BuildFacts
  <2>3. QED BY <2>1, <2>2
<1>4. ASSUME "sending" \notin S PROVE At(S)' = At(S)
  BY <1>3, <1>4 DEF At
<1>5. ASSUME "sending" \in S PROVE Count(S)' = Count(S) + 1
  <2>1. At(S)' = At(S) \cup {executionCount'} /\ executionCount' \notin At(S)
    BY <1>3, <1>5 DEF At
  <2>2. Cardinality(At(S) \cup {executionCount'}) = Cardinality(At(S)) + 1
    BY <1>1, <2>1, FS_AddElement
  <2>3. QED BY <1>1, <1>2, <2>1, <2>2
<1>6. QED BY <1>1, <1>2, <1>4, <1>5

\* Every step keeps the counters.
LEMMA CounterStep ==
  TypeInv /\ TypeInv' /\ StageInv /\ SnapshotCounters /\ [Next]_vars => SnapshotCounters'
<1> SUFFICES ASSUME TypeInv, TypeInv', StageInv, SnapshotCounters, [Next]_vars
             PROVE  SnapshotCounters'
  OBVIOUS
<1> DEFINE W == {"sending", "starting"}
           P == {"running", "acking"}
           F == {"failed"}
           S == {"acking", "finished"}
<1>1. /\ waiting = Count(W) /\ inProgress = Count(P) /\ failed = Count(F)
      /\ succeeded = Count(S)
      /\ Count(W) \in Nat /\ Count(P) \in Nat /\ Count(F) \in Nat /\ Count(S) \in Nat
  BY CountFacts DEF SnapshotCounters
<1> DEFINE Goal == /\ waiting' = Count(W)' /\ inProgress' = Count(P)'
                   /\ failed' = Count(F)' /\ succeeded' = Count(S)'
<1>2. SUFFICES Goal
  BY DEF SnapshotCounters
<1> HIDE DEF W, P, F, S
<1>3. ASSUME UNCHANGED <<contents, stage, statVars>> PROVE Goal
  <2>1. Count(W)' = Count(W) /\ Count(P)' = Count(P)
        /\ Count(F)' = Count(F) /\ Count(S)' = Count(S)
    BY <1>3 DEF Count, Clones
  <2>2. QED BY <1>1, <1>3, <2>1 DEF statVars
<1>4. ASSUME NEW i \in Inputs, Build(i) PROVE Goal
  <2>1. waiting' = waiting + 1 /\ UNCHANGED <<inProgress, failed, succeeded>>
    BY <1>4 DEF Build
  <2>2. "sending" \in W /\ "sending" \notin P /\ "sending" \notin F /\ "sending" \notin S
    BY DEF W, P, F, S
  <2>3. Count(W)' = Count(W) + 1
    BY <1>4, <2>2, CountBuild
  <2>4. Count(P)' = Count(P)
    BY <1>4, <2>2, CountBuild
  <2>5. Count(F)' = Count(F)
    BY <1>4, <2>2, CountBuild
  <2>6. Count(S)' = Count(S)
    BY <1>4, <2>2, CountBuild
  <2>7. QED BY <1>1, <2>1, <2>3, <2>4, <2>5, <2>6
<1>5. ASSUME NEW i \in Inputs, TakeSnapshot(i) PROVE Goal
  <2> DEFINE n == clone[i]
  <2>1. /\ stage' = [stage EXCEPT ![n] = "starting"] /\ Clones' = Clones /\ n \in Clones
        /\ UNCHANGED <<waiting, inProgress, failed, succeeded>>
    BY <1>5, TypeFacts DEF TakeSnapshot, buildVars, statVars, Clones
  <2>2. stage[n] = "sending"
    BY <1>5 DEF TakeSnapshot, StageInv
  <2>3. /\ stage[n] \in W /\ "starting" \in W
        /\ stage[n] \notin P /\ "starting" \notin P
        /\ stage[n] \notin F /\ "starting" \notin F
        /\ stage[n] \notin S /\ "starting" \notin S
    BY <2>2 DEF W, P, F, S
  <2> HIDE DEF n
  <2>4. Count(W)' = Count(W)
    BY <2>1, <2>3, CountMove
  <2>5. Count(P)' = Count(P)
    BY <2>1, <2>3, CountMove
  <2>6. Count(F)' = Count(F)
    BY <2>1, <2>3, CountMove
  <2>7. Count(S)' = Count(S)
    BY <2>1, <2>3, CountMove
  <2>8. QED BY <1>1, <2>1, <2>4, <2>5, <2>6, <2>7
<1>6. ASSUME NEW n \in DOMAIN stage, ExecutionStep(n) PROVE Goal
  <2>0. n \in Clones
    BY TypeFacts
  <2>1. CASE ExecuteStarts(n)
    <3>1. /\ stage' = [stage EXCEPT ![n] = "running"] /\ Clones' = Clones
          /\ stage[n] = "starting" /\ waiting' = waiting - 1
          /\ inProgress' = inProgress + 1 /\ UNCHANGED <<failed, succeeded>>
      BY <2>1 DEF ExecuteStarts, buildVars, Clones
    <3>2. /\ stage[n] \in W /\ "running" \notin W
          /\ stage[n] \notin P /\ "running" \in P
          /\ stage[n] \notin F /\ "running" \notin F
          /\ stage[n] \notin S /\ "running" \notin S
      BY <3>1 DEF W, P, F, S
    <3>3. Count(W)' = Count(W) - 1
      BY <2>0, <3>1, <3>2, CountMove
    <3>4. Count(P)' = Count(P) + 1
      BY <2>0, <3>1, <3>2, CountMove
    <3>5. Count(F)' = Count(F)
      BY <2>0, <3>1, <3>2, CountMove
    <3>6. Count(S)' = Count(S)
      BY <2>0, <3>1, <3>2, CountMove
    <3>7. QED BY <1>1, <3>1, <3>3, <3>4, <3>5, <3>6
  <2>2. CASE ExecuteFails(n)
    <3>1. /\ stage' = [stage EXCEPT ![n] = "failed"] /\ Clones' = Clones
          /\ stage[n] = "running" /\ failed' = failed + 1
          /\ inProgress' = inProgress - 1 /\ UNCHANGED <<waiting, succeeded>>
      BY <2>2 DEF ExecuteFails, buildVars, Clones
    <3>2. /\ stage[n] \notin W /\ "failed" \notin W
          /\ stage[n] \in P /\ "failed" \notin P
          /\ stage[n] \notin F /\ "failed" \in F
          /\ stage[n] \notin S /\ "failed" \notin S
      BY <3>1 DEF W, P, F, S
    <3>3. Count(W)' = Count(W)
      BY <2>0, <3>1, <3>2, CountMove
    <3>4. Count(P)' = Count(P) - 1
      BY <2>0, <3>1, <3>2, CountMove
    <3>5. Count(F)' = Count(F) + 1
      BY <2>0, <3>1, <3>2, CountMove
    <3>6. Count(S)' = Count(S)
      BY <2>0, <3>1, <3>2, CountMove
    <3>7. QED BY <1>1, <3>1, <3>3, <3>4, <3>5, <3>6
  <2>3. CASE ExecuteSucceeds(n)
    <3>1. /\ stage' = [stage EXCEPT ![n] = "acking"] /\ Clones' = Clones
          /\ stage[n] = "running" /\ succeeded' = succeeded + 1
          /\ UNCHANGED <<waiting, inProgress, failed>>
      BY <2>3 DEF ExecuteSucceeds, buildVars, Clones
    <3>2. /\ stage[n] \notin W /\ "acking" \notin W
          /\ stage[n] \in P /\ "acking" \in P
          /\ stage[n] \notin F /\ "acking" \notin F
          /\ stage[n] \notin S /\ "acking" \in S
      BY <3>1 DEF W, P, F, S
    <3>3. Count(W)' = Count(W)
      BY <2>0, <3>1, <3>2, CountMove
    <3>4. Count(P)' = Count(P)
      BY <2>0, <3>1, <3>2, CountMove
    <3>5. Count(F)' = Count(F)
      BY <2>0, <3>1, <3>2, CountMove
    <3>6. Count(S)' = Count(S) + 1
      BY <2>0, <3>1, <3>2, CountMove
    <3>7. QED BY <1>1, <3>1, <3>3, <3>4, <3>5, <3>6
  <2>4. CASE AckAll(n)
    <3>1. /\ stage' = [stage EXCEPT ![n] = "finished"] /\ Clones' = Clones
          /\ stage[n] = "acking" /\ inProgress' = inProgress - 1
          /\ UNCHANGED <<waiting, failed, succeeded>>
      BY <2>4 DEF AckAll, buildVars, Clones
    <3>2. /\ stage[n] \notin W /\ "finished" \notin W
          /\ stage[n] \in P /\ "finished" \notin P
          /\ stage[n] \notin F /\ "finished" \notin F
          /\ stage[n] \in S /\ "finished" \in S
      BY <3>1 DEF W, P, F, S
    <3>3. Count(W)' = Count(W)
      BY <2>0, <3>1, <3>2, CountMove
    <3>4. Count(P)' = Count(P) - 1
      BY <2>0, <3>1, <3>2, CountMove
    <3>5. Count(F)' = Count(F)
      BY <2>0, <3>1, <3>2, CountMove
    <3>6. Count(S)' = Count(S)
      BY <2>0, <3>1, <3>2, CountMove
    <3>7. QED BY <1>1, <3>1, <3>3, <3>4, <3>5, <3>6
  <2>5. QED BY <1>6, <2>1, <2>2, <2>3, <2>4 DEF ExecutionStep
<1>7. CASE ProcessorReturns \/ Cancel \/ UNCHANGED vars
  BY <1>3, <1>7 DEF ProcessorReturns, Cancel, vars, buildVars
<1>8. ASSUME NEW i \in Inputs, Receive(i) \/ Collect(i) \/ WatcherReturns(i) PROVE Goal
  BY <1>3, <1>8 DEF Receive, Collect, WatcherReturns, buildVars
<1> HIDE DEF Goal
<1>9. QED BY <1>4, <1>5, <1>6, <1>7, <1>8 DEF Next, WatcherStep

\* SnapshotsWaiting and the other counters are exact at every instant, although
\* the processor and executions that overlap all change them.
THEOREM CountersAreExact == Spec => []SnapshotCounters
<1>1. Init => StageInv /\ SnapshotCounters
  <2> SUFFICES ASSUME Init PROVE StageInv /\ SnapshotCounters
    OBVIOUS
  <2>1. \A S : {n \in Clones : stage[n] \in S} = {}
    BY DEF Init, Clones
  <2>2. Cardinality({}) = 0
    BY FS_EmptySet
  <2>3. QED BY <2>1, <2>2 DEF Init, StageInv, SnapshotCounters, Count
<1>2. TypeInv /\ StageInv /\ SnapshotCounters /\ [Next]_vars
        => (TypeInv /\ StageInv /\ SnapshotCounters)'
  BY TypeStep, StageStep, CounterStep
<1>3. QED BY <1>1, <1>2, InitTypeInv, PTL DEF Spec

-----------------------------------------------------------------------------
(* The input loop implements Batches.                                      *)

\* What AsBatches substitutes for the variables of Batches.
ArrivedValues == {v \in Values : v[2] <= received[v[1]]}
BatchList == [n \in Clones |-> Owed(n)]
ProgressList == [n \in Clones |-> Outcome(stage[n])]

\* An element added to a sequence that is given as a function.
LEMMA AppendedFunction ==
  ASSUME NEW k \in Nat, NEW S, NEW s \in [1..k -> S], NEW x \in S,
         NEW t \in [1..(k + 1) -> S], t[k + 1] = x, \A n \in 1..k : t[n] = s[n]
  PROVE  t = Append(s, x)
<1>1. s \in Seq(S) /\ t \in Seq(S)
  <2>1. k + 1 \in Nat
    OBVIOUS
  <2>2. QED BY <2>1, SeqDef
<1>2. Len(s) = k /\ Len(t) = k + 1
  BY <1>1, LenProperties
<1>3. Append(s, x) \in Seq(S) /\ Len(Append(s, x)) = k + 1
  BY <1>1, <1>2
<1>4. \A n \in 1..(k + 1) : Append(s, x)[n] = t[n]
  BY <1>1, <1>2
<1>5. QED BY <1>1, <1>2, <1>3, <1>4, SeqEqual

LEMMA OwedFacts ==
  /\ \A n : Owed(n) \subseteq Values
  /\ \A n, v : v \in Owed(n) <=> v \in Values /\ \E i \in Inputs : Owes(n, i, v)
BY DEF Owed, Owes

LEMMA OwedFactsNext ==
  /\ \A n : Owed(n)' \subseteq Values
  /\ \A n, v : v \in Owed(n)' <=> v \in Values /\ \E i \in Inputs : Owes(n, i, v)'
BY DEF Owed, Owes

LEMMA SameOwed ==
  ASSUME snapshot' = snapshot, contents' = contents
  PROVE  Owed(0)' = Owed(0) /\ BatchList' = BatchList /\ Clones' = Clones
<1>1. Clones' = Clones
  BY DEF Clones
<1>2. \A n : Owed(n)' = Owed(n)
  BY DEF Owed, SequenceIn
<1>3. QED BY <1>1, <1>2 DEF BatchList

LEMMA InitRefines == Init => AsBatches!BatchesInit
<1> SUFFICES ASSUME Init PROVE AsBatches!BatchesInit
  OBVIOUS
<1>1. Clones = {}
  BY DEF Init, Clones
<1>2. \A S : \A f \in [{} -> S] : f = <<>>
  <2> SUFFICES ASSUME NEW S, NEW f \in [{} -> S] PROVE f = <<>>
    OBVIOUS
  <2>1. f \in [1..0 -> S]
    OBVIOUS
  <2>2. f \in Seq(S)
    BY <2>1, SeqDef
  <2>3. Len(f) = 0
    BY <2>1, <2>2, LenProperties
  <2>4. QED BY <2>2, <2>3, EmptySeq
<1>3. BatchList = <<>> /\ ProgressList = <<>>
  <2>1. BatchList \in [{} -> SUBSET Values]
    BY <1>1 DEF BatchList
  <2>2. ProgressList \in [{} -> {}]
    BY <1>1 DEF ProgressList
  <2>3. QED BY <1>2, <2>1, <2>2
<1>4. Owed(0) = {}
  BY DEF Init, Owed, SequenceIn, Range
<1>5. ArrivedValues = {}
  BY DEF Init, ArrivedValues, Values
<1>6. acked = {}
  BY DEF Init
<1>7. QED
  BY <1>3, <1>4, <1>5, <1>6 DEF AsBatches!BatchesInit, BatchList, ProgressList, ArrivedValues

\* The value that a watcher holds while it waits for room is in no batch.
LEMMA HeldIsUnplaced ==
  ASSUME TypeInv, DutyInv, NEW i \in Inputs, watcher[i] = "waiting"
  PROVE  <<i, received[i]>> \in Values /\ <<i, received[i]>> \in AsBatches!Unplaced
<1> DEFINE u == <<i, received[i]>>
<1>1. received[i] \in 1..MaxArrivals
  BY TypeFacts
<1>2. u \in Values /\ u[1] = i /\ u[2] = received[i]
  BY <1>1 DEF Values
<1>3. ~Arrived(u)
  BY <1>1, <1>2 DEF Arrived
<1> HIDE DEF u
<1>4. \A n \in Places : u \notin Owed(n)
  BY <1>2, <1>3, OwedFacts DEF DutyInv, OwedArrived
<1>5. u \in ArrivedValues
  BY <1>1, <1>2 DEF ArrivedValues
<1>6. u \notin Owed(0) /\ \A n \in DOMAIN BatchList : u \notin BatchList[n]
  BY <1>4 DEF Places, BatchList
<1>7. u \in AsBatches!Unplaced
  BY <1>5, <1>6 DEF AsBatches!Unplaced, ArrivedValues, BatchList
<1>8. QED BY <1>2, <1>7 DEF u

LEMMA ReceiveRefines ==
  ASSUME TypeInv, NEW i \in Inputs, Receive(i)
  PROVE  AsBatches!BatchesNext
<1>0. PICK u : u = <<i, received[i] + 1>>
  OBVIOUS
<1>1. /\ received' = [received EXCEPT ![i] = @ + 1] /\ received[i] < MaxArrivals
      /\ received \in [Inputs -> 0..MaxArrivals]
      /\ UNCHANGED <<snapshot, contents, stage, acked>>
  BY DEF Receive, buildVars, TypeInv, InputLoopTypeOK
<1>2. received[i] \in Nat /\ MaxArrivals \in Nat
  BY <1>1, InputLoopAssumption
<1>3. u \in Values /\ u[1] = i /\ u[2] = received[i] + 1
  BY <1>0, <1>1, <1>2 DEF Values
<1>4. u \notin ArrivedValues
  BY <1>2, <1>3 DEF ArrivedValues
<1>5. ArrivedValues' = ArrivedValues \cup {u}
  <2>1. ASSUME NEW v \in Values
        PROVE  v[2] <= received'[v[1]] <=> v[2] <= received[v[1]] \/ v = u
    <3>1. v[1] \in Inputs /\ v[2] \in Nat /\ v = <<v[1], v[2]>>
      BY DEF Values
    <3>2. CASE v[1] = i
      <4>1. received'[v[1]] = received[i] + 1
        BY <1>1, <3>2
      <4>2. v = u <=> v[2] = received[i] + 1
        BY <1>0, <3>1, <3>2
      <4>3. QED BY <1>2, <3>1, <3>2, <4>1, <4>2
    <3>3. CASE v[1] # i
      <4>1. received'[v[1]] = received[v[1]] /\ v # u
        BY <1>1, <1>3, <3>1, <3>3
      <4>2. QED BY <4>1
    <3>4. QED BY <3>2, <3>3
  <2>2. QED BY <1>3, <2>1 DEF ArrivedValues
<1>6. Owed(0)' = Owed(0) /\ BatchList' = BatchList /\ ProgressList' = ProgressList
  BY <1>1, SameOwed DEF ProgressList
<1>7. AsBatches!Arrive(u)
  BY <1>1, <1>4, <1>5, <1>6 DEF AsBatches!Arrive, ArrivedValues, BatchList, ProgressList
<1>8. QED BY <1>3, <1>7 DEF AsBatches!BatchesNext

LEMMA CollectRefines ==
  ASSUME TypeInv, DutyInv, NEW i \in Inputs, Collect(i)
  PROVE  AsBatches!BatchesNext
<1>0. PICK u : u = <<i, received[i]>>
  OBVIOUS
<1>1. /\ watcher[i] = "waiting" /\ snapshot' = WithValue(i)
      /\ UNCHANGED <<received, contents, stage, acked>>
  BY DEF Collect, buildVars
<1>2. u \in Values /\ u \in AsBatches!Unplaced
  BY <1>0, <1>1, HeldIsUnplaced
<1>3. Target(i) \in Inputs /\ 0 \notin Clones /\ Clones' = Clones
  BY <1>1, SpecFacts, TypeFacts DEF TypeInv, InputLoopTypeOK, SnapshotInputs, Clones
<1>4. Owed(0)' = Owed(0) \cup {u}
  <2>1. ASSUME NEW j \in Inputs, NEW v \in Values
        PROVE  Owes(0, j, v)' <=> Owes(0, j, v) \/ (j = Target(i) /\ v = u)
    <3>1. \A x, y : [av |-> x, ack |-> TRUE] = [av |-> y, ack |-> TRUE] <=> x = y
      OBVIOUS
    <3>2. QED BY <1>0, <1>1, <3>1, WithValueOwes DEF Owes, SequenceIn
  <2>2. \A v : v \in Owed(0)' <=> v \in Owed(0) \/ v = u
    BY <1>2, <1>3, <2>1, OwedFacts, OwedFactsNext
  <2>3. QED BY <2>2
<1>5. BatchList' = BatchList /\ ProgressList' = ProgressList /\ ArrivedValues' = ArrivedValues
  <2>1. \A n \in Clones : Owed(n)' = Owed(n)
    BY <1>1, <1>3 DEF Owed, SequenceIn
  <2>2. QED BY <1>1, <1>3, <2>1 DEF BatchList, ProgressList, ArrivedValues
<1>6. AsBatches!Add(u)
  BY <1>1, <1>2, <1>4, <1>5 DEF AsBatches!Add, ArrivedValues, BatchList, ProgressList
<1>7. QED BY <1>2, <1>6 DEF AsBatches!BatchesNext

LEMMA BuildRefines ==
  ASSUME TypeInv, DutyInv, NEW i \in Inputs, Build(i)
  PROVE  AsBatches!BatchesNext
<1>0. PICK c, u : c = executionCount' /\ u = <<i, received[i]>>
  OBVIOUS
<1>1. /\ watcher[i] = "waiting" /\ UNCHANGED <<received, acked>>
      /\ c = executionCount + 1 /\ executionCount \in Nat
      /\ Clones = 1..executionCount /\ Clones' = 1..(executionCount + 1)
      /\ \A n \in Clones : stage'[n] = stage[n]
      /\ stage'[c] = "sending"
  BY <1>0, BuildFacts, TypeFacts DEF Build
<1>2. u \in Values /\ u \in AsBatches!Unplaced
  BY <1>0, <1>1, HeldIsUnplaced
<1>3. /\ Target(i) \in Inputs
      /\ \A j \in Inputs, v \in Values :
              /\ ~Owes(0, j, v)'
              /\ Owes(c, j, v)' <=> Owes(0, j, v) \/ (j = Target(i) /\ v = u)
              /\ \A n \in Clones : Owes(n, j, v)' <=> Owes(n, j, v)
  BY <1>0, BuildOwes, SpecFacts DEF TypeInv, InputLoopTypeOK, SnapshotInputs
<1>4. Owed(0)' = {}
  BY <1>3, OwedFactsNext
<1>5. Owed(c)' = Owed(0) \cup {u}
  <2>1. \A v : v \in Owed(c)' <=> v \in Owed(0) \/ v = u
    BY <1>2, <1>3, OwedFacts, OwedFactsNext
  <2>2. QED BY <2>1
<1>6. \A n \in Clones : Owed(n)' = Owed(n)
  BY <1>3, OwedFacts, OwedFactsNext
<1>7. BatchList' = Append(BatchList, Owed(0) \cup {u})
  <2>1. BatchList \in [1..executionCount -> SUBSET Values]
    BY <1>1, OwedFacts DEF BatchList
  <2>2. BatchList' \in [1..(executionCount + 1) -> SUBSET Values]
    BY <1>1, OwedFactsNext DEF BatchList
  <2>3. BatchList'[executionCount + 1] = Owed(0) \cup {u}
    BY <1>1, <1>5 DEF BatchList
  <2>4. \A n \in 1..executionCount : BatchList'[n] = BatchList[n]
    BY <1>1, <1>6 DEF BatchList
  <2>5. Owed(0) \cup {u} \in SUBSET Values
    BY <1>2, OwedFacts
  <2>6. QED BY <1>1, <2>1, <2>2, <2>3, <2>4, <2>5, AppendedFunction
<1>8. ProgressList' = Append(ProgressList, "queued")
  <2> DEFINE S == {Outcome(stage[n]) : n \in Clones} \cup {"queued"}
  <2>1. ProgressList \in [1..executionCount -> S]
    BY <1>1 DEF ProgressList
  <2>2. ProgressList'[executionCount + 1] = "queued"
    BY <1>1 DEF ProgressList, Outcome
  <2>3. \A n \in 1..executionCount : ProgressList'[n] = ProgressList[n]
    BY <1>1 DEF ProgressList
  <2>4. ProgressList' \in [1..(executionCount + 1) -> S]
    <3>1. ASSUME NEW n \in 1..(executionCount + 1) PROVE ProgressList'[n] \in S
      <4>1. n \in 1..executionCount \/ n = executionCount + 1
        BY <1>1
      <4>2. QED BY <2>1, <2>2, <2>3, <4>1
    <3>2. DOMAIN ProgressList' = 1..(executionCount + 1)
          /\ ProgressList' = [n \in DOMAIN ProgressList' |-> ProgressList'[n]]
      BY <1>1 DEF ProgressList
    <3> HIDE DEF S
    <3>3. QED BY <3>1, <3>2
  <2>5. "queued" \in S
    OBVIOUS
  <2> HIDE DEF S
  <2>6. QED BY <1>1, <2>1, <2>2, <2>3, <2>4, <2>5, AppendedFunction
<1>9. ArrivedValues' = ArrivedValues
  BY <1>1 DEF ArrivedValues
<1>10. AsBatches!Complete(u)
  BY <1>1, <1>2, <1>4, <1>7, <1>8, <1>9
     DEF AsBatches!Complete, ArrivedValues, BatchList, ProgressList
<1>11. QED BY <1>2, <1>10 DEF AsBatches!BatchesNext

\* Nobody who sees Batches only sees the step.
StuttersInBatches ==
  /\ ArrivedValues' = ArrivedValues /\ Owed(0)' = Owed(0)
  /\ BatchList' = BatchList /\ ProgressList' = ProgressList /\ acked' = acked

LEMMA StutterRefines ==
  ASSUME StuttersInBatches
  PROVE  UNCHANGED AsBatches!batchesVars
BY DEF StuttersInBatches, AsBatches!batchesVars, ArrivedValues, BatchList, ProgressList

\* A step that shows at most in the stage of one clone.
LEMMA StageShows ==
  ASSUME TypeInv, UNCHANGED <<received, snapshot, contents>>, NEW n \in Clones, NEW st,
         stage' = [stage EXCEPT ![n] = st]
  PROVE  /\ ArrivedValues' = ArrivedValues /\ Owed(0)' = Owed(0)
         /\ BatchList' = BatchList
         /\ ProgressList' = [ProgressList EXCEPT ![n] = Outcome(st)]
         /\ ProgressList[n] = Outcome(stage[n])
         /\ n \in DOMAIN BatchList /\ BatchList[n] = Owed(n)
<1>1. DOMAIN stage = Clones
  BY TypeFacts
<1>2. ArrivedValues' = ArrivedValues
  BY DEF ArrivedValues
<1>3. Owed(0)' = Owed(0) /\ BatchList' = BatchList /\ Clones' = Clones
  BY SameOwed
<1>4. ASSUME NEW m \in Clones
      PROVE  Outcome(stage'[m]) = IF m = n THEN Outcome(st) ELSE Outcome(stage[m])
  BY <1>1
<1>5. ProgressList' = [ProgressList EXCEPT ![n] = Outcome(st)]
  BY <1>3, <1>4 DEF ProgressList
<1>6. QED BY <1>2, <1>3, <1>5 DEF ProgressList, BatchList

LEMMA TakeRefines ==
  ASSUME TypeInv, StageInv, NEW i \in Inputs, TakeSnapshot(i)
  PROVE  StuttersInBatches
<1>1. /\ UNCHANGED <<received, snapshot, contents, acked>> /\ watcher[i] = "sending"
      /\ stage' = [stage EXCEPT ![clone[i]] = "starting"]
  BY DEF TakeSnapshot, buildVars
<1>2. clone[i] \in Clones /\ stage[clone[i]] = "sending"
  BY <1>1, TypeFacts DEF StageInv
<1>3. /\ ArrivedValues' = ArrivedValues /\ Owed(0)' = Owed(0)
      /\ BatchList' = BatchList
      /\ ProgressList' = [ProgressList EXCEPT ![clone[i]] = Outcome("starting")]
      /\ ProgressList[clone[i]] = Outcome("sending")
  BY <1>1, <1>2, StageShows
<1>4. Outcome("starting") = Outcome("sending")
  BY DEF Outcome
<1>5. ProgressList' = ProgressList
  BY <1>2, <1>3, <1>4 DEF ProgressList
<1>6. QED BY <1>1, <1>3, <1>5 DEF StuttersInBatches

\* AckAll acknowledges values that its clone owes.
LEMMA AckAllOwed ==
  ASSUME TypeInv, NEW n \in Clones, ExecutionStep(n)
  PROVE  \E done \in SUBSET Owed(n) : acked' = acked \cup done
<1>1. n # 0 /\ n \in DOMAIN stage
  BY TypeFacts
<1>2. AllToAck(n) \subseteq Owed(n)
  <2>1. ASSUME NEW v \in AllToAck(n) PROVE v \in Owed(n)
    BY <1>1, ToAckFacts DEF Owed, SequenceIn
  <2>2. QED BY <2>1
<1>3. acked' \subseteq acked \cup AllToAck(n)
  BY <1>1, ExecutionFacts
<1>4. acked \subseteq acked'
  BY DEF ExecutionStep, ExecuteStarts, ExecuteFails, ExecuteSucceeds, AckAll
<1>5. (acked' \ acked) \in SUBSET Owed(n) /\ acked' = acked \cup (acked' \ acked)
  BY <1>2, <1>3, <1>4
<1>6. QED BY <1>5

LEMMA ExecutionRefines ==
  ASSUME TypeInv, NEW n \in DOMAIN stage, ExecutionStep(n)
  PROVE  AsBatches!BatchesNext
<1> USE DEF AsBatches!Progress
<1>1. n \in Clones
  BY TypeFacts
<1>2. UNCHANGED <<received, snapshot, contents>>
  BY ExecutionFacts DEF watchVars, buildVars
<1>3. /\ Outcome("starting") = "queued" /\ Outcome("running") = "running"
      /\ Outcome("failed") = "failed" /\ Outcome("acking") = "succeeded"
      /\ Outcome("finished") = "done"
  BY DEF Outcome
<1>4. ASSUME NEW from, NEW st, stage[n] = from, stage' = [stage EXCEPT ![n] = st]
      PROVE  /\ AsBatches!Progress(n, Outcome(from), Outcome(st))
             /\ n \in DOMAIN BatchList /\ BatchList[n] = Owed(n)
  <2>1. /\ ArrivedValues' = ArrivedValues /\ Owed(0)' = Owed(0)
        /\ BatchList' = BatchList
        /\ ProgressList' = [ProgressList EXCEPT ![n] = Outcome(st)]
        /\ ProgressList[n] = Outcome(from)
        /\ n \in DOMAIN BatchList /\ BatchList[n] = Owed(n)
    BY <1>1, <1>2, <1>4, StageShows
  <2>2. QED BY <2>1 DEF ArrivedValues, BatchList, ProgressList
<1> HIDE DEF AsBatches!Progress
<1>5. CASE ExecuteStarts(n)
  <2>1. stage[n] = "starting" /\ stage' = [stage EXCEPT ![n] = "running"] /\ acked' = acked
    BY <1>5 DEF ExecuteStarts
  <2>2. AsBatches!Progress(n, Outcome("starting"), Outcome("running")) /\ n \in DOMAIN BatchList
    BY <1>4, <2>1
  <2>3. AsBatches!Begin(n)
    BY <1>3, <2>1, <2>2 DEF AsBatches!Begin
  <2>4. QED BY <2>2, <2>3 DEF AsBatches!BatchesNext, BatchList
<1>6. CASE ExecuteFails(n)
  <2>1. stage[n] = "running" /\ stage' = [stage EXCEPT ![n] = "failed"] /\ acked' = acked
    BY <1>6 DEF ExecuteFails
  <2>2. AsBatches!Progress(n, Outcome("running"), Outcome("failed")) /\ n \in DOMAIN BatchList
    BY <1>4, <2>1
  <2>3. AsBatches!Fail(n)
    BY <1>3, <2>1, <2>2 DEF AsBatches!Fail
  <2>4. QED BY <2>2, <2>3 DEF AsBatches!BatchesNext, BatchList
<1>7. CASE ExecuteSucceeds(n)
  <2>1. stage[n] = "running" /\ stage' = [stage EXCEPT ![n] = "acking"] /\ acked' = acked
    BY <1>7 DEF ExecuteSucceeds
  <2>2. AsBatches!Progress(n, Outcome("running"), Outcome("acking")) /\ n \in DOMAIN BatchList
    BY <1>4, <2>1
  <2>3. AsBatches!Succeed(n)
    BY <1>3, <2>1, <2>2 DEF AsBatches!Succeed
  <2>4. QED BY <2>2, <2>3 DEF AsBatches!BatchesNext, BatchList
<1>8. CASE AckAll(n)
  <2>1. stage[n] = "acking" /\ stage' = [stage EXCEPT ![n] = "finished"]
    BY <1>8 DEF AckAll
  <2>2. /\ AsBatches!Progress(n, Outcome("acking"), Outcome("finished"))
        /\ n \in DOMAIN BatchList /\ BatchList[n] = Owed(n)
    BY <1>4, <2>1
  <2>3. \E done \in SUBSET BatchList[n] : acked' = acked \cup done
    BY <1>1, <2>2, AckAllOwed
  <2>4. AsBatches!Acknowledge(n)
    BY <1>3, <2>2, <2>3 DEF AsBatches!Acknowledge, BatchList
  <2>5. QED BY <2>2, <2>4 DEF AsBatches!BatchesNext, BatchList
<1>9. QED BY <1>5, <1>6, <1>7, <1>8 DEF ExecutionStep

LEMMA StepRefines ==
  TypeInv /\ DutyInv /\ StageInv /\ [Next]_vars
    => [AsBatches!BatchesNext]_(AsBatches!batchesVars)
<1> SUFFICES ASSUME TypeInv, DutyInv, StageInv, [Next]_vars
             PROVE  AsBatches!BatchesNext \/ UNCHANGED AsBatches!batchesVars
  OBVIOUS
<1>1. ASSUME UNCHANGED <<received, snapshot, contents, stage, acked>>
      PROVE  UNCHANGED AsBatches!batchesVars
  <2>1. Owed(0)' = Owed(0) /\ BatchList' = BatchList /\ Clones' = Clones
    BY <1>1, SameOwed
  <2>2. StuttersInBatches
    BY <1>1, <2>1 DEF StuttersInBatches, ArrivedValues, ProgressList
  <2>3. QED BY <2>2, StutterRefines
<1>2. CASE ProcessorReturns \/ Cancel \/ UNCHANGED vars
  BY <1>1, <1>2 DEF ProcessorReturns, Cancel, vars, watchVars, buildVars
<1>3. ASSUME NEW i \in Inputs, WatcherReturns(i) PROVE UNCHANGED AsBatches!batchesVars
  BY <1>1, <1>3 DEF WatcherReturns, buildVars
<1>4. ASSUME NEW i \in Inputs, TakeSnapshot(i) PROVE UNCHANGED AsBatches!batchesVars
  BY <1>4, TakeRefines, StutterRefines
<1>5. QED
  BY <1>2, <1>3, <1>4, ReceiveRefines, CollectRefines, BuildRefines, ExecutionRefines
     DEF Next, WatcherStep

\* The input loop implements Batches: whatever the snapshot policy, and however
\* watchers, executions, restarts and cancellation overlap, every value enters at
\* most one batch, which is all that waits when it is built and never changes, and it
\* is acknowledged only after that batch was executed with success (input_loop.go,
\* processAnnotatedValue and execOnSnapshot; input_snapshot.go).
THEOREM LoopKeepsPromise == Spec => ImplementsBatches
<1>1. Init => TypeInv /\ DutyInv /\ StageInv
  BY InitTypeInv, InitDutyInv DEF Init, StageInv
<1>2. Spec => [](TypeInv /\ DutyInv /\ StageInv)
  BY <1>1, TypeStep, DutyStep, StageStep, PTL DEF Spec
<1>3. Spec => AsBatches!BatchesInit /\ [][AsBatches!BatchesNext]_(AsBatches!batchesVars)
  BY <1>2, InitRefines, StepRefines, PTL DEF Spec
<1>4. QED BY <1>3 DEF ImplementsBatches, AsBatches!BatchesSpec
=============================================================================
