----------------------------- MODULE MCInputLoop -----------------------------
(* InputLoop for one task with two inputs under several specifications.      *)
EXTENDS InputLoop, TLC

CONSTANTS x, y  \* the inputs

Task(policy, launch, minX, maxX, slideX, minY, maxY, mergeY) ==
  [policy |-> policy, launch |-> launch,
   min |-> x :> minX @@ y :> minY, max |-> x :> maxX @@ y :> maxY,
   slide |-> x :> slideX @@ y :> 1, mergeInto |-> x :> NoInput @@ y :> mergeY]

SwapSpecs == {Task("SwapNew4Old", "Auto", 1, 1, 1, 1, 1, NoInput)}

\* Uneven sequences; overlapping windows; both inputs in one sequence; restarts.
MCSpecs == SwapSpecs \cup
  {Task("AllNew", "Auto", 1, 2, 1, 2, 2, NoInput),
   Task("SlidingWindow", "Auto", 2, 2, 1, 1, 1, NoInput),
   Task("SlidingWindow", "Restart", 2, 2, 1, 1, 1, NoInput),
   Task("AllNew", "Auto", 2, 2, 1, 1, 1, x),
   Task("AllNew", "Restart", 1, 1, 1, 1, 1, NoInput)}

=============================================================================
