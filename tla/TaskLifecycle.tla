---------------------------- MODULE TaskLifecycle ----------------------------
(***************************************************************************)
(* What the code keeps of the life of a Task that the public API tells a  *)
(* client of, without Executions, Processes, leases or messages: a Task    *)
(* runs its steps in order, each step is committed once, success means     *)
(* every step is committed, a cancellation stops all commits, and a retry  *)
(* starts a new generation from nothing.  Its moves are those S02-T009 and *)
(* S02-T010 name (docs/baseline/domain-truth/S02-task-api.md:158), and one *)
(* that they do not: FailUnstarted.                                        *)
(***************************************************************************)
EXTENDS Naturals

CONSTANTS
  Steps,        \* the number of steps on the Task's route
  Generations   \* bound: how often the Task may be created or retried

VARIABLES
  status,       \* the public status of the Task
  generation,   \* its current generation
  done          \* steps committed by the current generation, a prefix of the route

vars == <<status, generation, done>>

Init == status = "queued" /\ generation = 1 /\ done = {}

\* The first worker starts.
Start ==
  /\ status = "queued" /\ status' = "running"
  /\ UNCHANGED <<generation, done>>

\* The next step in order commits; the last one completes the Task.
CommitStep(s) ==
  /\ status = "running"
  /\ done = 1..(s - 1) /\ done' = 1..s
  /\ status' = IF s = Steps THEN "succeeded" ELSE "running"
  /\ UNCHANGED generation

\* A budget is exhausted, a deadline passes or a stage fails.
Fail ==
  /\ status = "running" /\ status' = "failed"
  /\ UNCHANGED <<generation, done>>

\* The same before the first worker started: the projection fails a queued Task
\* too, although S02-T009 lets one only start or be cancelled.
FailUnstarted ==
  /\ status = "queued" /\ status' = "failed"
  /\ UNCHANGED <<generation, done>>

\* The client cancels.
Cancel ==
  /\ status \in {"queued", "running"} /\ status' = "cancelling"
  /\ UNCHANGED <<generation, done>>

\* The cancellation has converged.
Cancelled ==
  /\ status = "cancelling" /\ status' = "cancelled"
  /\ UNCHANGED <<generation, done>>

\* The client retries the whole Task.
Retry ==
  /\ status \in {"failed", "cancelled"} /\ generation < Generations
  /\ status' = "queued" /\ generation' = generation + 1 /\ done' = {}

Next == Start \/ Fail \/ FailUnstarted \/ Cancel \/ Cancelled \/ Retry \/ \E s \in 1..Steps : CommitStep(s)

Spec == Init /\ [][Next]_vars
=============================================================================
