---------------------------- MODULE MCSummaries ----------------------------
(* Summaries for TLC, in two scenes.  "cache": three requests of every kind, *)
(* two of them at once, or one beside a summary task (with private caches    *)
(* the task meets the first two only); one interval for each kind of summary *)
(* and tasks that end in time.  "tasks": two calls of one client, to post or *)
(* to delete, while Redis is down; intervals change from task to task, and   *)
(* one task outlives its lease.                                              *)
EXTENDS Summaries, TLC

CONSTANTS r1, r2, short, long, slow

VARIABLE scene

\* Every second message a short summary, every fourth a long one; or a long one more often.
Usual       == short :> 2 @@ long :> 4
MCIntervals == {Usual, short :> 2 @@ long :> 2}
MCKindOf    == slow :> short
Clients     == Permutations({r1, r2})

Saving   == \E k \in Saver : proc'[k] # Resting
OneByOne == ~\A r \in Request : proc'[r] # Resting
\* While Redis is down, who asks it goes on at once: this commutes with all other steps.
Asking == {p \in Process : At(p, "lookup") \/ At(p, "fill")}

InScene ==
  IF scene = "cache"
  THEN /\ task'.per \in {AnyTask.per, Usual} /\ sweeps' = 0
       /\ IF Saving THEN OneByOne /\ ops' <= (IF shared THEN 3 ELSE 2) ELSE TRUE
  ELSE /\ cache' = cache /\ ops' <= 2 /\ OneByOne
       /\ \A r \in Request : proc'[r].kind \in {"none", "post", "delete"}
       /\ IF Asking # {} THEN ~\A p \in Asking : proc'[p].pc = proc[p].pc ELSE TRUE

MCInit == SumInit /\ scene \in {"cache", "tasks"} /\ (scene = "tasks" => shared)
MCNext == Next /\ InScene /\ UNCHANGED scene
MCSpec == MCInit /\ [][MCNext]_<<allVars, scene>>
=============================================================================
