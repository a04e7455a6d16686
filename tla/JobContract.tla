----------------------------- MODULE JobContract -----------------------------
(***************************************************************************)
(* What the job queue promises to the API's callers, with no leases,        *)
(* tokens, workers or transactions: a bounded set of open tasks, at most    *)
(* one effect (proposal) per task however often it is attempted, an effect  *)
(* shown for every task reported done, final outcomes that stay final, and  *)
(* a bounded number of reviews of failed tasks.                             *)
(***************************************************************************)
EXTENDS Naturals, FiniteSets

CONSTANTS Job, Effect, NoEffect, MaxOpen, MaxReviews

VARIABLES
  task,      \* the fate of each task
  effect,    \* the effect recorded for it
  shown,     \* the effect reported to the owner
  reviews    \* how often the owner sent it back

cvars == <<task, effect, shown, reviews>>

Open == {j \in Job : task[j] = "open"}

ContractInit ==
  /\ task = [j \in Job |-> "none"]
  /\ effect = [j \in Job |-> NoEffect]
  /\ shown = [j \in Job |-> NoEffect]
  /\ reviews = [j \in Job |-> 0]

\* A task enters the bounded pool; a failed one may re-enter it.
Accept(j) ==
  /\ Cardinality(Open) < MaxOpen
  /\ \/ task[j] = "none" /\ UNCHANGED reviews
     \/ /\ task[j] = "failed" /\ reviews[j] < MaxReviews
        /\ reviews' = [reviews EXCEPT ![j] = @ + 1]
  /\ task' = [task EXCEPT ![j] = "open"]
  /\ UNCHANGED <<effect, shown>>

\* The effect happens at most once. Nothing ties it to an open task: an attempt
\* that was given up may still be running.
Record(j) ==
  /\ task[j] # "none" /\ effect[j] = NoEffect
  /\ \E e \in Effect : effect' = [effect EXCEPT ![j] = e]
  /\ UNCHANGED <<task, shown, reviews>>

Complete(j) ==
  /\ task[j] = "open" /\ effect[j] # NoEffect
  /\ task' = [task EXCEPT ![j] = "done"]
  /\ shown' = [shown EXCEPT ![j] = effect[j]]
  /\ UNCHANGED <<effect, reviews>>

Withdraw(j) ==
  /\ task[j] = "open"
  /\ task' = [task EXCEPT ![j] = "withdrawn"]
  /\ UNCHANGED <<effect, shown, reviews>>

\* Several tasks may be given up in one step.
GiveUp(S) ==
  /\ S # {} /\ S \subseteq Open
  /\ task' = [j \in Job |-> IF j \in S THEN "failed" ELSE task[j]]
  /\ UNCHANGED <<effect, shown, reviews>>

ContractNext ==
  \/ \E j \in Job : Accept(j) \/ Record(j) \/ Complete(j) \/ Withdraw(j)
  \/ \E S \in SUBSET Job : GiveUp(S)

ContractSafety == ContractInit /\ [][ContractNext]_cvars
=============================================================================
