------------------------------ MODULE AgentRelay ------------------------------
(***************************************************************************)
(* The ChatGPT connector's relay (server.js over store.js) and its polling *)
(* agents. The relay keeps jobs in memory and appends an event per change  *)
(* to a log; an append that fails is swallowed, and a row cut short spoils *)
(* the row after it. A restarted relay replays the log and queues again    *)
(* what was running. Agents heartbeat, poll, run and complete; one that    *)
(* loses a reply dies and is started again by its service manager, and one *)
(* may hang for good in a request or in its command.                       *)
(*                                                                         *)
(* The log is represented by what replaying it builds: replay.js is a fold *)
(* of one row at a time. A job is its place in the order of creation,      *)
(* which is the order of the relay's map and of the log.                   *)
(***************************************************************************)
EXTENDS Naturals

CONSTANTS
  MaxJob,      (* bound: jobs 1..MaxJob                                     *)
  Agents,      (* the polling agents                                        *)
  None,        (* null                                                      *)
  MaxRestarts, (* bound: restarts of the relay                              *)
  MaxLost      (* bound: appends that fail                                  *)

ASSUME RelayAssumption ==
  /\ MaxJob \in Nat /\ MaxRestarts \in Nat /\ MaxLost \in Nat
  /\ None \notin Agents

VARIABLES
  state,     (* job.state, "none" for a job the relay does not know         *)
  owner,     (* job.agentId                                                 *)
  result,    (* job.result: the agent whose report it is, or None           *)
  known,     (* the ids in the agents map                                   *)
  disk,      (* replay of the log: its jobs' states, owners, and agents     *)
  torn,      (* the log ends in a row cut short                             *)
  created,   (* jobs ever created                                           *)
  handed,    (* history: times each job was handed out                      *)
  pc,        (* an agent is about to: beat, poll, or run a job              *)
  work,      (* the job it runs; 0 is none                                  *)
  hung,      (* agents that wait for ever                                   *)
  restarts,  (* relay restarts so far                                       *)
  lost       (* appends that failed so far                                  *)

jobVars  == <<state, owner, result>>
logVars  == <<disk, torn, lost>>
agtVars  == <<pc, work, hung>>
vars == <<jobVars, known, logVars, created, handed, agtVars, restarts>>

Jobs   == 1..MaxJob
States == {"none", "queued", "running", "done"}
Replay == [state: [Jobs -> States], owner: [Jobs -> Agents \cup {None}], known: SUBSET Agents]

TypeOK ==
  /\ state \in [Jobs -> States] /\ owner \in [Jobs -> Agents \cup {None}]
  /\ result \in [Jobs -> Agents \cup {None}] /\ known \in SUBSET Agents
  /\ disk \in Replay /\ torn \in BOOLEAN
  /\ created \in 0..MaxJob /\ handed \in [Jobs -> Nat]
  /\ pc \in [Agents -> {"beat", "poll", "run"}] /\ work \in [Agents -> 0..MaxJob]
  /\ hung \in SUBSET Agents
  /\ restarts \in 0..MaxRestarts /\ lost \in 0..MaxLost
  /\ \A a \in Agents : work[a] # 0 <=> pc[a] = "run"

Init ==
  /\ state = [j \in Jobs |-> "none"] /\ owner = [j \in Jobs |-> None]
  /\ result = [j \in Jobs |-> None] /\ known = {}
  /\ disk = [state |-> [j \in Jobs |-> "none"], owner |-> [j \in Jobs |-> None], known |-> {}]
  /\ torn = FALSE /\ created = 0 /\ handed = [j \in Jobs |-> 0]
  /\ pc = [a \in Agents |-> "beat"] /\ work = [a \in Agents |-> 0] /\ hung = {}
  /\ restarts = 0 /\ lost = 0

-----------------------------------------------------------------------------
(* appendEvent: d is what the log replays to once the row is in it. The    *)
(* row is written, or swallowed by the row cut short before it, or fails,  *)
(* with or without leaving a part of itself behind.                        *)
AppendEvent(d) ==
  \/ /\ disk' = IF torn THEN disk ELSE d
     /\ torn' = FALSE
     /\ UNCHANGED lost
  \/ /\ lost < MaxLost
     /\ lost' = lost + 1
     /\ torn' = TRUE \/ UNCHANGED torn
     /\ UNCHANGED disk

(* What the rows of each type replay to (an unknown id is ignored).        *)
Created(j) == [disk EXCEPT !.state[j] = "queued", !.owner[j] = None]
Started(j, a) ==
  IF disk.state[j] = "none" THEN disk
  ELSE [disk EXCEPT !.state[j] = "running", !.owner[j] = a]
CompletedDropped(j) == disk                        (* mutant: row not replayed *)
Completed(j) == IF disk.state[j] = "none" THEN disk ELSE [disk EXCEPT !.state[j] = "done"]
Beaten(a) == [disk EXCEPT !.known = @ \cup {a}]

-----------------------------------------------------------------------------
(* POST /execute: createJob. Whether the client sees the answer changes    *)
(* nothing here.                                                           *)
Execute ==
  /\ created < MaxJob
  /\ created' = created + 1
  /\ state' = [state EXCEPT ![created + 1] = "queued"]
  /\ AppendEvent(Created(created + 1))
  /\ UNCHANGED <<owner, result, known, handed, agtVars, restarts>>

(* POST /heartbeat.                                                        *)
Heartbeat(a) ==
  /\ pc[a] = "beat" /\ a \notin hung
  /\ known' = known \cup {a}
  /\ AppendEvent(Beaten(a))
  /\ pc' = [pc EXCEPT ![a] = "poll"]
  /\ UNCHANGED <<jobVars, created, handed, work, hung, restarts>>

(* POST /poll: nextJob hands out the oldest queued job. If the answer does *)
(* not reach the agent, the agent dies and starts over without the job.    *)
Queued == {j \in Jobs : state[j] = "queued"}

PollAgain(a) ==   (* mutant: a running job is handed out as well *)
  /\ pc[a] = "poll" /\ a \notin hung
  /\ \E j \in Jobs :
       /\ state[j] \in {"queued", "running"}
       /\ state' = [state EXCEPT ![j] = "running"]
       /\ owner' = [owner EXCEPT ![j] = a]
       /\ handed' = [handed EXCEPT ![j] = @ + 1]
       /\ AppendEvent(Started(j, a))
       /\ pc' = [pc EXCEPT ![a] = "run"] /\ work' = [work EXCEPT ![a] = j]
  /\ UNCHANGED <<result, known, created, hung, restarts>>
PollHead(a) ==    (* mutant: only the map's first job is looked at *)
  /\ pc[a] = "poll" /\ a \notin hung /\ state[1] = "queued"
  /\ state' = [state EXCEPT ![1] = "running"]
  /\ owner' = [owner EXCEPT ![1] = a]
  /\ handed' = [handed EXCEPT ![1] = @ + 1]
  /\ AppendEvent(Started(1, a))
  /\ pc' = [pc EXCEPT ![a] = "run"] /\ work' = [work EXCEPT ![a] = 1]
  /\ UNCHANGED <<result, known, created, hung, restarts>>
Poll(a) ==
  /\ pc[a] = "poll" /\ a \notin hung
  /\ \E j \in Queued :
       /\ \A k \in Queued : j <= k
       /\ state' = [state EXCEPT ![j] = "running"]
       /\ owner' = [owner EXCEPT ![j] = a]
       /\ handed' = [handed EXCEPT ![j] = @ + 1]
       /\ AppendEvent(Started(j, a))
       /\ \/ pc' = [pc EXCEPT ![a] = "run"] /\ work' = [work EXCEPT ![a] = j]
          \/ pc' = [pc EXCEPT ![a] = "beat"] /\ UNCHANGED work
  /\ UNCHANGED <<result, known, created, hung, restarts>>

PollNothing(a) ==
  /\ pc[a] = "poll" /\ a \notin hung /\ Queued = {}
  /\ pc' = [pc EXCEPT ![a] = "beat"]
  /\ UNCHANGED <<jobVars, known, logVars, created, handed, work, hung, restarts>>

(* POST /complete: completeJob, whatever the job's state and owner; 404 if *)
(* the relay does not know the job. A refused command completes at once.   *)
Complete(a) ==
  /\ pc[a] = "run" /\ a \notin hung
  /\ IF state[work[a]] = "none" THEN UNCHANGED <<state, result, logVars>>
     ELSE /\ state' = [state EXCEPT ![work[a]] = "done"]
          /\ result' = [result EXCEPT ![work[a]] = a]
          /\ AppendEvent(Completed(work[a]))
  /\ pc' = [pc EXCEPT ![a] = "beat"] /\ work' = [work EXCEPT ![a] = 0]
  /\ UNCHANGED <<owner, known, created, handed, hung, restarts>>

(* An agent dies (a request failed, or it was killed) and is started again.*)
AgentDies(a) ==
  /\ pc[a] # "beat" /\ a \notin hung
  /\ pc' = [pc EXCEPT ![a] = "beat"] /\ work' = [work EXCEPT ![a] = 0]
  /\ UNCHANGED <<jobVars, known, logVars, created, handed, hung, restarts>>

(* An agent stops for good without ending: the relay or the network keeps  *)
(* the answer of its request for ever (a request has no timeout), or its   *)
(* command does not end (the timeout sends one signal and goes on waiting  *)
(* for the pipes to close). One that goes on after all was merely slow.    *)
Hangs(a) ==
  /\ a \notin hung
  /\ hung' = hung \cup {a}
  /\ UNCHANGED <<jobVars, known, logVars, created, handed, pc, work, restarts>>

(* The relay dies and starts: loadBootstrapState over the replayed log.    *)
RequeuedAll(s) == [j \in Jobs |-> IF s[j] = "none" THEN "none" ELSE "queued"]   (* mutant *)
Requeued(s) == [j \in Jobs |-> IF s[j] = "running" THEN "queued" ELSE s[j]]

Restart ==
  /\ restarts < MaxRestarts
  /\ restarts' = restarts + 1
  /\ state' = Requeued(disk.state) /\ owner' = disk.owner
  /\ result' = [j \in Jobs |-> None]
  /\ known' = disk.known
  /\ UNCHANGED <<logVars, created, handed, agtVars>>

Next ==
  \/ Execute \/ Restart
  \/ \E a \in Agents :
       \/ Heartbeat(a) \/ Poll(a) \/ PollNothing(a) \/ Complete(a)
       \/ AgentDies(a) \/ Hangs(a)

Spec == Init /\ [][Next]_vars

(* An agent that does not hang keeps looping, its service manager restarts *)
(* it when it dies, and its deaths do not for ever come just before the    *)
(* same request. Nothing makes a command end: any agent may hang.          *)
AgentStep(a) == Heartbeat(a) \/ Poll(a) \/ PollNothing(a) \/ Complete(a)
FairSpec ==
  /\ Spec
  /\ \A a \in Agents : WF_vars(AgentStep(a)) /\ SF_vars(Poll(a)) /\ SF_vars(Complete(a))

-----------------------------------------------------------------------------
(* The books, as an inductive invariant: a job not created yet has left no *)
(* trace, every hand-out is paid for, a queued job's are all paid for by   *)
(* restarts already made, and the log is never ahead of the memory.        *)
BooksInv ==
  /\ \A j \in Jobs : j > created => state[j] = "none" /\ handed[j] = 0
  /\ \A j \in Jobs : handed[j] <= 1 + restarts
  /\ \A j \in Jobs : state[j] = "queued" => handed[j] <= restarts
  /\ \A j \in Jobs : state[j] = "none" => disk.state[j] = "none"
  /\ \A j \in Jobs : disk.state[j] = "done" => state[j] = "done"

(* Who holds a job, as an inductive invariant: one never handed out has no *)
(* holder and no result, one handed out once has one or the other, at one  *)
(* agent.                                                                  *)
HolderInv ==
  \A j \in Jobs :
    /\ handed[j] = 0 => result[j] = None /\ \A a \in Agents : work[a] # j
    /\ handed[j] = 1 => \A a, b \in Agents :
         work[a] = j => result[j] = None /\ (work[b] = j => a = b)

(* While no append has failed, a restart at any moment would rebuild what  *)
(* the relay holds in memory, running jobs queued again.                   *)
ReplayAgrees ==
  lost = 0 => /\ Requeued(disk.state) = Requeued(state)
              /\ \A j \in Jobs : state[j] = "running" => disk.owner[j] = owner[j]
              /\ disk.known = known /\ ~torn

(* Each hand-out of a job after its first is paid for by a restart of the  *)
(* relay: however agents come, go and lose answers, and whatever the log   *)
(* lost, a command runs at most once per life of the relay.                *)
HandedOncePerLife == \A j \in Jobs : handed[j] <= 1 + restarts

(* While the relay runs, a result its agent reported is replaced only by   *)
(* another agent's report of a job that was handed out more than once, and *)
(* so after a restart; only a restart forgets one. How agents die, poll    *)
(* again and report late makes no second report in one life of the relay.  *)
ResultStands ==
  [][\A j \in Jobs : result[j] # None /\ result'[j] # result[j] =>
       IF result'[j] = None THEN restarts' > restarts ELSE restarts > 0 /\ handed[j] > 1]_vars

(* What a client can rely on: while no append failed its job is kept, done *)
(* is final, and only a recovery turns running into queued; afterwards a   *)
(* recovery may forget progress or jobs, and still never invents any.      *)
Queue == INSTANCE JobQueue WITH st <- state, intact <- (lost = 0)
ImplementsQueue == Queue!Spec

(* A job the relay accepted is in the end done; or it is running in the    *)
(* relay's books with no agent that will ever report it (none at work on   *)
(* it, or only agents that hang in it), which only a restart frees; or a   *)
(* restart forgot it because the log had failed to take its row; or every  *)
(* agent hangs. A job behind one whose agent hangs is served by another.   *)
Stranded(j)  == state[j] = "running" /\ \A a \in Agents : work[a] = j => a \in hung
Forgotten(j) == state[j] = "none" /\ lost > 0
EveryJobEnds ==
  \A j \in Jobs : (state[j] = "queued") ~>
    (state[j] = "done" \/ Stranded(j) \/ Forgotten(j) \/ hung = Agents)
=============================================================================
