------------------------------- MODULE JobQueue -------------------------------
(***************************************************************************)
(* What the relay of the ChatGPT connector promises a client that posted a *)
(* job: the job is kept, it is handed to an agent, it is done once and for *)
(* all. The one way back is a recovery of the relay, which hands out again *)
(* every job that was running, so a command may run more than once. If the *)
(* log failed to take a row, a recovery may forget progress, or the job,   *)
(* but it never invents any.                                               *)
(***************************************************************************)
CONSTANT Jobs

VARIABLES
  st,      (* st[j]: none, queued, running or done *)
  intact   (* the log took every row               *)

vars == <<st, intact>>

Init == st = [j \in Jobs |-> "none"] /\ intact = TRUE

(* A client posts a job.                                                   *)
Accept(j) == st[j] = "none" /\ st' = [st EXCEPT ![j] = "queued"]

(* An agent is given a queued job.                                         *)
Hand(j) == st[j] = "queued" /\ st' = [st EXCEPT ![j] = "running"]

(* An agent reports a job's result: also a late report, of a job that was  *)
(* queued again meanwhile.                                                 *)
Complete(j) == st[j] # "none" /\ st' = [st EXCEPT ![j] = "done"]

(* The relay restarts and recovers.                                        *)
Again(s) == IF s = "running" THEN "queued" ELSE s
Behind(s) ==
  CASE s = "none" -> {"none"}
    [] s = "done" -> {"none", "queued", "done"}
    [] OTHER      -> {"none", "queued"}
Recover ==
  IF intact THEN st' = [j \in Jobs |-> Again(st[j])]
  ELSE /\ st' = [j \in Jobs |-> st'[j]]
       /\ \A j \in Jobs : st'[j] \in Behind(st[j])

Next ==
  /\ intact' => intact
  /\ \/ Recover \/ UNCHANGED st
     \/ \E j \in Jobs : Accept(j) \/ Hand(j) \/ Complete(j)

Spec == Init /\ [][Next]_vars
=============================================================================
