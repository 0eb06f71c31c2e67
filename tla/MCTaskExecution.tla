-------------------------- MODULE MCTaskExecution --------------------------
(* TaskExecution for tasks of every launch policy.                           *)
EXTENDS TaskExecution

MCSettings == {[policy |-> "Auto", proxy |-> TRUE],
               [policy |-> "Restart", proxy |-> FALSE],
               [policy |-> "Custom", proxy |-> FALSE]}

=============================================================================
