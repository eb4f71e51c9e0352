--------------------------- MODULE AgentRelay_proofs ---------------------------
(***************************************************************************)
(* Proofs about AgentRelay, for any number of jobs, agents, restarts and   *)
(* failed appends: its types, the bound on hand-outs, the agreement of the *)
(* log with the memory, and that it implements the job queue.              *)
(***************************************************************************)
EXTENDS AgentRelay, TLAPS

-----------------------------------------------------------------------------
(* What a row adds to the replayed log keeps the log's type.               *)
LEMMA AppendType ==
  ASSUME disk \in Replay, torn \in BOOLEAN, lost \in 0..MaxLost,
         NEW STATE d, d \in Replay, AppendEvent(d)
  PROVE  disk' \in Replay /\ torn' \in BOOLEAN /\ lost' \in 0..MaxLost
<1>1. disk' \in Replay
  BY DEF AppendEvent
<1>2. torn' \in BOOLEAN
  BY Zenon DEF AppendEvent
<1>3. lost' \in 0..MaxLost
  BY RelayAssumption DEF AppendEvent
<1> QED BY <1>1, <1>2, <1>3

LEMMA RowTypes ==
  ASSUME disk \in Replay, NEW j \in Jobs, NEW a \in Agents
  PROVE  Created(j) \in Replay /\ Started(j, a) \in Replay
         /\ Completed(j) \in Replay /\ Beaten(a) \in Replay
<1>1. Created(j) \in Replay
  BY DEF Created, Replay, States
<1>2. Started(j, a) \in Replay
  BY DEF Started, Replay, States
<1>3. Completed(j) \in Replay
  BY DEF Completed, Replay, States
<1>4. Beaten(a) \in Replay
  BY DEF Beaten, Replay
<1> QED BY <1>1, <1>2, <1>3, <1>4

LEMMA TypeInit == ASSUME Init PROVE TypeOK
<1> USE DEF Init
<1>1. disk \in Replay
  BY DEF Replay, States
<1>2. state \in [Jobs -> States] /\ handed \in [Jobs -> Nat]
  BY DEF States
<1>3. work \in [Agents -> 0..MaxJob] /\ created \in 0..MaxJob
      /\ restarts \in 0..MaxRestarts /\ lost \in 0..MaxLost
  BY RelayAssumption
<1>4. torn \in BOOLEAN
  BY Zenon
<1>5. /\ owner \in [Jobs -> Agents \cup {None}] /\ result \in [Jobs -> Agents \cup {None}]
      /\ known \in SUBSET Agents /\ hung \in SUBSET Agents
      /\ pc \in [Agents -> {"beat", "poll", "run"}]
      /\ \A a \in Agents : work[a] # 0 <=> pc[a] = "run"
  OBVIOUS
<1> QED BY <1>1, <1>2, <1>3, <1>4, <1>5 DEF TypeOK

(* Every step keeps the types.                                             *)
LEMMA TypeStep == ASSUME TypeOK, [Next]_vars PROVE TypeOK'
<1> USE DEF TypeOK
<1>1. CASE Execute
  <2>1. created + 1 \in Jobs /\ created' \in 0..MaxJob
    BY <1>1, RelayAssumption DEF Execute, Jobs
  <2>3. Created(created + 1) \in Replay
    BY <2>1 DEF Created, Replay, States
  <2>4. disk' \in Replay /\ torn' \in BOOLEAN /\ lost' \in 0..MaxLost
    BY <1>1, <2>3, AppendType DEF Execute
  <2>5. state' \in [Jobs -> States]
    BY <1>1, <2>1 DEF Execute, States
  <2> QED BY <1>1, <2>1, <2>4, <2>5 DEF Execute, agtVars
<1>2. CASE Restart
  <2>1. state' \in [Jobs -> States]
    BY <1>2 DEF Restart, Requeued, Replay, States
  <2>2. owner' \in [Jobs -> Agents \cup {None}] /\ known' \in SUBSET Agents
    BY <1>2 DEF Restart, Replay
  <2>3. restarts' \in 0..MaxRestarts
    BY <1>2, RelayAssumption DEF Restart
  <2> QED BY <1>2, <2>1, <2>2, <2>3 DEF Restart, logVars, agtVars
<1>3. ASSUME NEW a \in Agents, Heartbeat(a) PROVE TypeOK'
  <2>1. Beaten(a) \in Replay
    BY DEF Beaten, Replay
  <2>2. disk' \in Replay /\ torn' \in BOOLEAN /\ lost' \in 0..MaxLost
    BY <1>3, <2>1, AppendType DEF Heartbeat
  <2>3. pc' \in [Agents -> {"beat", "poll", "run"}]
        /\ \A b \in Agents : work'[b] # 0 <=> pc'[b] = "run"
    BY <1>3 DEF Heartbeat
  <2> QED BY <1>3, <2>2, <2>3 DEF Heartbeat, jobVars
<1>4. ASSUME NEW a \in Agents, Poll(a) PROVE TypeOK'
  <2>1. PICK j \in Jobs :
          /\ state' = [state EXCEPT ![j] = "running"]
          /\ owner' = [owner EXCEPT ![j] = a]
          /\ handed' = [handed EXCEPT ![j] = @ + 1]
          /\ AppendEvent(Started(j, a))
          /\ \/ pc' = [pc EXCEPT ![a] = "run"] /\ work' = [work EXCEPT ![a] = j]
             \/ pc' = [pc EXCEPT ![a] = "beat"] /\ UNCHANGED work
    BY <1>4 DEF Poll, Queued
  <2>2. disk' \in Replay /\ torn' \in BOOLEAN /\ lost' \in 0..MaxLost
    BY <2>1, RowTypes, AppendType
  <2>3. /\ pc' \in [Agents -> {"beat", "poll", "run"}] /\ work' \in [Agents -> 0..MaxJob]
        /\ \A b \in Agents : work'[b] # 0 <=> pc'[b] = "run"
    <3>0. j \in 0..MaxJob /\ j # 0 /\ pc[a] = "poll"
      BY <1>4, RelayAssumption DEF Poll, Jobs
    <3>1. CASE pc' = [pc EXCEPT ![a] = "run"] /\ work' = [work EXCEPT ![a] = j]
      BY <3>0, <3>1
    <3>2. CASE pc' = [pc EXCEPT ![a] = "beat"] /\ UNCHANGED work
      BY <3>0, <3>2
    <3> QED BY <2>1, <3>1, <3>2
  <2>4. state' \in [Jobs -> States] /\ owner' \in [Jobs -> Agents \cup {None}]
        /\ handed' \in [Jobs -> Nat]
    BY <2>1 DEF States
  <2> QED BY <1>4, <2>2, <2>3, <2>4 DEF Poll
<1>5. ASSUME NEW a \in Agents, PollNothing(a) PROVE TypeOK'
  BY <1>5 DEF PollNothing, jobVars, logVars
<1>6. ASSUME NEW a \in Agents, Complete(a) PROVE TypeOK'
  <2>1. work[a] \in Jobs
    BY <1>6, RelayAssumption DEF Complete, Jobs
  <2>2. /\ pc' \in [Agents -> {"beat", "poll", "run"}] /\ work' \in [Agents -> 0..MaxJob]
        /\ \A b \in Agents : work'[b] # 0 <=> pc'[b] = "run"
    BY <1>6, RelayAssumption DEF Complete
  <2>3. CASE state[work[a]] = "none"
    BY <1>6, <2>2, <2>3 DEF Complete, logVars
  <2>4. CASE state[work[a]] # "none"
    <3>1. disk' \in Replay /\ torn' \in BOOLEAN /\ lost' \in 0..MaxLost
      BY <1>6, <2>1, <2>4, RowTypes, AppendType DEF Complete
    <3>2. state' \in [Jobs -> States] /\ result' \in [Jobs -> Agents \cup {None}]
      BY <1>6, <2>1, <2>4 DEF Complete, States
    <3> QED BY <1>6, <2>2, <3>1, <3>2 DEF Complete
  <2> QED BY <2>3, <2>4
<1>7. ASSUME NEW a \in Agents, AgentDies(a) PROVE TypeOK'
  BY <1>7, RelayAssumption DEF AgentDies, jobVars, logVars
<1>8. ASSUME NEW a \in Agents, Hangs(a) PROVE TypeOK'
  BY <1>8 DEF Hangs, jobVars, logVars
<1>9. CASE UNCHANGED vars
  BY <1>9 DEF vars, jobVars, logVars, agtVars
<1> QED BY <1>1, <1>2, <1>3, <1>4, <1>5, <1>6, <1>7, <1>8, <1>9 DEF Next

(* Type correctness, for every value of the constants.                     *)
THEOREM TypeCorrect == Spec => []TypeOK
BY TypeInit, TypeStep, PTL DEF Spec

-----------------------------------------------------------------------------
(* How a row changes the log's view of a job: a started row of a job not   *)
(* finished keeps it so and creates none, a completion creates none.       *)
LEMMA RowEffect ==
  ASSUME disk \in Replay, NEW i \in Jobs, NEW j \in Jobs, NEW a \in Agents
  PROVE  /\ disk.state[i] = "none" => Started(j, a).state[i] = "none"
         /\ disk.state[i] = "none" => Completed(j).state[i] = "none"
         /\ Started(j, a).state[i] = "done" => disk.state[i] = "done"
         /\ Completed(j).state[i] = "done" => disk.state[i] = "done" \/ i = j
         /\ Beaten(a).state = disk.state
<1>1. disk.state[i] = "none" => Started(j, a).state[i] = "none"
  BY DEF Started, Replay
<1>2. disk.state[i] = "none" => Completed(j).state[i] = "none"
  BY DEF Completed, Replay
<1>3. Started(j, a).state[i] = "done" => disk.state[i] = "done"
  BY DEF Started, Replay
<1>4. Completed(j).state[i] = "done" => disk.state[i] = "done" \/ i = j
  BY DEF Completed, Replay
<1>5. Beaten(a).state = disk.state
  BY DEF Beaten, Replay
<1> QED BY <1>1, <1>2, <1>3, <1>4, <1>5

LEMMA BooksInit == ASSUME Init PROVE BooksInv
BY RelayAssumption DEF Init, BooksInv

(* Every step keeps the books.                                             *)
LEMMA BooksStep == ASSUME TypeOK, BooksInv, [Next]_vars PROVE BooksInv'
<1> USE DEF TypeOK, BooksInv
<1>1. CASE Execute
  <2>1. created + 1 \in Jobs /\ created' = created + 1 /\ handed' = handed
        /\ restarts' = restarts /\ state' = [state EXCEPT ![created + 1] = "queued"]
    BY <1>1, RelayAssumption DEF Execute, Jobs
  <2>2. state[created + 1] = "none" /\ handed[created + 1] = 0
    BY <2>1 DEF Jobs
  <2>3. disk' = disk \/ disk' = Created(created + 1)
    BY <1>1 DEF Execute, AppendEvent
  <2>4. ASSUME NEW i \in Jobs
        PROVE  disk'.state[i] \in {disk.state[i], IF i = created + 1 THEN "queued" ELSE disk.state[i]}
    <3>1. CASE disk' = disk
      BY <3>1
    <3>2. CASE disk' = Created(created + 1)
      <4>1. Created(created + 1).state[i] = IF i = created + 1 THEN "queued" ELSE disk.state[i]
        BY <2>1 DEF Created, Replay
      <4> QED BY <3>2, <4>1
    <3> QED BY <2>3, <3>1, <3>2
  <2>5. disk'.state[created + 1] \in {"none", "queued"}
        /\ \A i \in Jobs : i # created + 1 => disk'.state[i] = disk.state[i]
    BY <2>1, <2>2, <2>4
  <2>6. \A i \in Jobs : i > created' => state'[i] = "none" /\ handed'[i] = 0
    BY <2>1 DEF Jobs
  <2>7. \A i \in Jobs : handed'[i] <= 1 + restarts'
    BY <2>1
  <2>8. \A i \in Jobs : state'[i] = "queued" => handed'[i] <= restarts'
    BY <2>1, <2>2, RelayAssumption
  <2>9. \A i \in Jobs : state'[i] = "none" => disk'.state[i] = "none"
    BY <2>1, <2>5
  <2>10. \A i \in Jobs : disk'.state[i] = "done" => state'[i] = "done"
    BY <2>1, <2>5
  <2> QED BY <2>6, <2>7, <2>8, <2>9, <2>10
<1>2. CASE Restart
  <2>1. restarts' = restarts + 1 /\ handed' = handed /\ created' = created /\ disk' = disk
    BY <1>2 DEF Restart, logVars
  <2>2. \A i \in Jobs : state'[i] = IF disk.state[i] = "running" THEN "queued" ELSE disk.state[i]
    BY <1>2 DEF Restart, Requeued
  <2>3. \A i \in Jobs : i > created => state'[i] = "none"
    BY <2>2
  <2>4. \A i \in Jobs : handed[i] <= restarts + 1
    BY RelayAssumption
  <2> QED BY <2>1, <2>2, <2>3, <2>4
<1>3. ASSUME NEW a \in Agents, Heartbeat(a) PROVE BooksInv'
  <2>1. disk' = disk \/ disk' = Beaten(a)
    BY <1>3 DEF Heartbeat, AppendEvent
  <2>2. disk'.state = disk.state
    BY <2>1 DEF Beaten, Replay
  <2> QED BY <1>3, <2>2 DEF Heartbeat, jobVars
<1>4. ASSUME NEW a \in Agents, Poll(a) PROVE BooksInv'
  <2>1. PICK j \in Queued :
          /\ state' = [state EXCEPT ![j] = "running"]
          /\ handed' = [handed EXCEPT ![j] = @ + 1]
          /\ AppendEvent(Started(j, a))
    BY <1>4 DEF Poll
  <2>2. j \in Jobs /\ state[j] = "queued" /\ ~(j > created)
    BY DEF Queued
  <2>3. created' = created /\ restarts' = restarts
    BY <1>4 DEF Poll
  <2>4. disk' = disk \/ disk' = Started(j, a)
    BY <2>1 DEF AppendEvent
  <2>5. \A i \in Jobs : /\ disk.state[i] = "none" => disk'.state[i] = "none"
                        /\ disk'.state[i] = "done" => disk.state[i] = "done"
    BY <2>2, <2>4, RowEffect
  <2>6. \A i \in Jobs : i > created => state'[i] = "none" /\ handed'[i] = 0
    BY <2>1, <2>2
  <2>7. \A i \in Jobs : handed'[i] <= 1 + restarts
    BY <2>1, <2>2, RelayAssumption
  <2>8. \A i \in Jobs : state'[i] = "queued" => handed'[i] <= restarts
    BY <2>1, <2>2
  <2>9. \A i \in Jobs : state'[i] = "none" => disk'.state[i] = "none"
    BY <2>1, <2>2, <2>5
  <2>10. \A i \in Jobs : disk'.state[i] = "done" => state'[i] = "done"
    BY <2>1, <2>2, <2>5
  <2> QED BY <2>3, <2>6, <2>7, <2>8, <2>9, <2>10
<1>5. ASSUME NEW a \in Agents, PollNothing(a) PROVE BooksInv'
  BY <1>5 DEF PollNothing, jobVars, logVars
<1>6. ASSUME NEW a \in Agents, Complete(a) PROVE BooksInv'
  <2>1. work[a] \in Jobs /\ created' = created /\ restarts' = restarts /\ handed' = handed
    BY <1>6, RelayAssumption DEF Complete, Jobs
  <2>2. CASE state[work[a]] = "none"
    BY <1>6, <2>1, <2>2 DEF Complete, logVars
  <2>3. CASE state[work[a]] # "none"
    <3>1. state' = [state EXCEPT ![work[a]] = "done"] /\ AppendEvent(Completed(work[a]))
      BY <1>6, <2>3 DEF Complete
    <3>2. disk' = disk \/ disk' = Completed(work[a])
      BY <3>1 DEF AppendEvent
    <3>3. \A i \in Jobs : /\ disk.state[i] = "none" => disk'.state[i] = "none"
                          /\ disk'.state[i] = "done" => disk.state[i] = "done" \/ i = work[a]
      BY <2>1, <3>2, RowEffect
    <3>4. \A i \in Jobs : i # work[a] => state'[i] = state[i]
      BY <2>1, <3>1
    <3>5. state'[work[a]] = "done" /\ ~(work[a] > created)
      BY <2>1, <2>3, <3>1
    <3>6. \A i \in Jobs : i > created => state'[i] = "none"
      BY <3>4, <3>5
    <3>7. \A i \in Jobs : state'[i] = "queued" => state[i] = "queued"
      BY <3>4, <3>5
    <3>8. \A i \in Jobs : /\ state'[i] = "none" => disk'.state[i] = "none"
                          /\ disk'.state[i] = "done" => state'[i] = "done"
      BY <3>3, <3>4, <3>5
    <3> QED BY <2>1, <3>6, <3>7, <3>8
  <2> QED BY <2>2, <2>3
<1>7. ASSUME NEW a \in Agents, AgentDies(a) PROVE BooksInv'
  BY <1>7 DEF AgentDies, jobVars, logVars
<1>8. ASSUME NEW a \in Agents, Hangs(a) PROVE BooksInv'
  BY <1>8 DEF Hangs, jobVars, logVars
<1>9. CASE UNCHANGED vars
  BY <1>9 DEF vars, jobVars, logVars
<1> QED BY <1>1, <1>2, <1>3, <1>4, <1>5, <1>6, <1>7, <1>8, <1>9 DEF Next

(* The books stay right: no trace of a job not created, every hand-out     *)
(* paid for, for any number of agents, restarts and failed appends.        *)
THEOREM BooksInvariant == Spec => [](TypeOK /\ BooksInv)
<1>1. Init => TypeOK /\ BooksInv
  BY TypeInit, BooksInit
<1>2. TypeOK /\ BooksInv /\ [Next]_vars => (TypeOK /\ BooksInv)'
  BY TypeStep, BooksStep
<1> QED BY <1>1, <1>2, PTL DEF Spec

(* A command is handed out at most once per life of the relay.             *)
THEOREM HandOutBound == Spec => []HandedOncePerLife
<1>1. TypeOK /\ BooksInv => HandedOncePerLife
  BY DEF BooksInv, HandedOncePerLife
<1> QED BY <1>1, BooksInvariant, PTL

-----------------------------------------------------------------------------
LEMMA HolderInit == ASSUME Init PROVE HolderInv
BY RelayAssumption DEF Init, HolderInv, Jobs

(* A hand-out makes a holder only where there was none, or a second one of *)
(* a job handed out before; a report ends the holding it reports.          *)
LEMMA HolderStep == ASSUME TypeOK, HolderInv, [Next]_vars PROVE HolderInv'
<1> USE DEF TypeOK, HolderInv
<1>0. ASSUME UNCHANGED handed, \A j \in Jobs : result'[j] \in {result[j], None},
             \A a \in Agents : work'[a] \in {work[a], 0}
      PROVE  HolderInv'
  <2>1. \A j \in Jobs : j # 0
    BY DEF Jobs
  <2> QED BY <1>0, <2>1
<1>1. CASE Execute
  BY <1>0, <1>1 DEF Execute, agtVars
<1>2. CASE Restart
  BY <1>0, <1>2 DEF Restart, agtVars
<1>3. ASSUME NEW a \in Agents, Heartbeat(a) PROVE HolderInv'
  BY <1>0, <1>3 DEF Heartbeat, jobVars
<1>4. ASSUME NEW a \in Agents, Poll(a) PROVE HolderInv'
  <2>1. PICK j \in Jobs :
          /\ handed' = [handed EXCEPT ![j] = @ + 1]
          /\ work' = [work EXCEPT ![a] = j] \/ work' = work
    BY <1>4 DEF Poll, Queued
  <2>2. result' = result /\ work[a] = 0
    BY <1>4 DEF Poll
  <2>3. ASSUME NEW i \in Jobs, i # j
        PROVE  handed'[i] = handed[i] /\ \A b \in Agents : work'[b] = i => work[b] = i
    <3>1. i # 0
      BY DEF Jobs
    <3> QED BY <2>1, <2>3, <3>1
  <2>4. handed'[j] = handed[j] + 1 /\ handed[j] \in Nat
    BY <2>1
  <2>5. handed'[j] = 1 => \A b, c \in Agents :
          work'[b] = j => result'[j] = None /\ (work'[c] = j => b = c)
    <3> SUFFICES ASSUME handed[j] = 0
                 PROVE \A b, c \in Agents :
                         work'[b] = j => result'[j] = None /\ (work'[c] = j => b = c)
      BY <2>4
    <3>1. result[j] = None /\ \A b \in Agents : work[b] # j
      OBVIOUS
    <3>2. \A b \in Agents : work'[b] = j => b = a
      BY <2>1, <3>1
    <3> QED BY <2>2, <3>1, <3>2
  <2> QED BY <2>2, <2>3, <2>4, <2>5
<1>5. ASSUME NEW a \in Agents, PollNothing(a) PROVE HolderInv'
  BY <1>0, <1>5 DEF PollNothing, jobVars
<1>6. ASSUME NEW a \in Agents, Complete(a) PROVE HolderInv'
  <2>1. /\ work[a] \in Jobs /\ work' = [work EXCEPT ![a] = 0] /\ handed' = handed
        /\ result' = result \/ result' = [result EXCEPT ![work[a]] = a]
    BY <1>6, RelayAssumption DEF Complete, Jobs
  <2>2. \A b \in Agents : work'[b] = IF b = a THEN 0 ELSE work[b]
    BY <2>1
  <2>3. \A i \in Jobs : i # work[a] => result'[i] = result[i]
    BY <2>1
  <2>4. handed[work[a]] # 0
    BY <2>1
  <2>5. handed[work[a]] = 1 => \A b \in Agents : work'[b] # work[a]
    <3>1. work[a] # 0
      BY <2>1 DEF Jobs
    <3> QED BY <2>1, <2>2, <3>1
  <2>6. \A i \in Jobs, b \in Agents : work'[b] = i => work[b] = i
    <3>1. \A i \in Jobs : i # 0
      BY DEF Jobs
    <3> QED BY <2>2, <3>1
  <2> QED BY <2>1, <2>3, <2>4, <2>5, <2>6
<1>7. ASSUME NEW a \in Agents, AgentDies(a) PROVE HolderInv'
  BY <1>0, <1>7 DEF AgentDies, jobVars
<1>8. ASSUME NEW a \in Agents, Hangs(a) PROVE HolderInv'
  BY <1>0, <1>8 DEF Hangs, jobVars
<1>9. CASE UNCHANGED vars
  BY <1>0, <1>9 DEF vars, jobVars, agtVars
<1> QED BY <1>1, <1>2, <1>3, <1>4, <1>5, <1>6, <1>7, <1>8, <1>9 DEF Next

(* Hand-outs pay for holders and results: a job handed out once is held or *)
(* reported by one agent, not both.                                        *)
THEOREM HoldersPaidFor == Spec => []HolderInv
<1>1. Init => TypeOK /\ HolderInv
  BY TypeInit, HolderInit
<1>2. TypeOK /\ HolderInv /\ [Next]_vars => (TypeOK /\ HolderInv)'
  BY TypeStep, HolderStep
<1>3. TypeOK /\ HolderInv => HolderInv
  OBVIOUS
<1> QED BY <1>1, <1>2, <1>3, PTL DEF Spec

(* A result in the relay's books stands for the life of the relay, unless  *)
(* an earlier life had handed its job to another agent that reports late.  *)
THEOREM ResultsStand == Spec => ResultStands
<1> DEFINE Stands ==
      \A j \in Jobs : result[j] # None /\ result'[j] # result[j] =>
        IF result'[j] = None THEN restarts' > restarts ELSE restarts > 0 /\ handed[j] > 1
<1>1. TypeOK /\ BooksInv /\ HolderInv /\ [Next]_vars => [Stands]_vars
  <2> SUFFICES ASSUME TypeOK, BooksInv, HolderInv, [Next]_vars,
                      NEW j \in Jobs, result[j] # None, result'[j] # result[j]
               PROVE  IF result'[j] = None THEN restarts' > restarts
                      ELSE restarts > 0 /\ handed[j] > 1
    OBVIOUS
  <2> USE DEF TypeOK
  <2>1. CASE Restart
    BY <2>1, RelayAssumption DEF Restart
  <2>2. ASSUME NEW a \in Agents, Complete(a)
        PROVE  IF result'[j] = None THEN restarts' > restarts
               ELSE restarts > 0 /\ handed[j] > 1
    <3>1. work[a] = j /\ result'[j] = a
      BY <2>2 DEF Complete
    <3>2. handed[j] # 0 /\ handed[j] # 1
      BY <3>1 DEF HolderInv
    <3>3. handed[j] \in Nat /\ handed[j] <= 1 + restarts /\ restarts \in Nat
      BY RelayAssumption DEF BooksInv
    <3>4. handed[j] > 1 /\ restarts > 0
      BY <3>2, <3>3
    <3>5. result'[j] # None
      BY <3>1, RelayAssumption
    <3> QED BY <3>4, <3>5
  <2>3. ASSUME UNCHANGED result PROVE FALSE
    BY <2>3
  <2>4. CASE Execute
    BY <2>3, <2>4 DEF Execute
  <2>5. ASSUME NEW a \in Agents, Heartbeat(a) \/ PollNothing(a) \/ AgentDies(a) \/ Hangs(a)
        PROVE  FALSE
    BY <2>3, <2>5 DEF Heartbeat, PollNothing, AgentDies, Hangs, jobVars
  <2>6. ASSUME NEW a \in Agents, Poll(a) PROVE FALSE
    BY <2>3, <2>6 DEF Poll
  <2>7. CASE UNCHANGED vars
    BY <2>3, <2>7 DEF vars, jobVars
  <2> QED BY <2>1, <2>2, <2>4, <2>5, <2>6, <2>7 DEF Next
<1> QED BY <1>1, BooksInvariant, HoldersPaidFor, PTL DEF Spec, ResultStands

-----------------------------------------------------------------------------
(* While no append has failed, the log just takes the row.                 *)
LEMMA CleanAppend ==
  ASSUME TypeOK, ReplayAgrees, NEW STATE d, AppendEvent(d), lost' = 0
  PROVE  lost = 0 /\ ~torn /\ disk' = d /\ torn' = FALSE
<1>1. lost = 0
  BY DEF AppendEvent, TypeOK
<1>2. ~torn
  BY <1>1 DEF ReplayAgrees
<1>3. lost' # lost + 1
  BY <1>1
<1>4. disk' = IF torn THEN disk ELSE d
  BY <1>3 DEF AppendEvent
<1>5. torn' = FALSE
  BY <1>3, Zenon DEF AppendEvent
<1> QED BY <1>1, <1>2, <1>4, <1>5

(* Replay and memory agree on which jobs exist, are finished or are not.   *)
LEMMA SameKind ==
  ASSUME TypeOK, ReplayAgrees, lost = 0, NEW j \in Jobs
  PROVE  /\ disk.state[j] = "none" <=> state[j] = "none"
         /\ disk.state[j] = "done" <=> state[j] = "done"
<1>1. Requeued(disk.state)[j] = Requeued(state)[j]
  BY DEF ReplayAgrees
<1>2. Requeued(disk.state)[j] = (IF disk.state[j] = "running" THEN "queued" ELSE disk.state[j])
  BY DEF Requeued
<1>3. Requeued(state)[j] = (IF state[j] = "running" THEN "queued" ELSE state[j])
  BY DEF Requeued
<1> QED BY <1>1, <1>2, <1>3

LEMMA AgreeInit == ASSUME Init PROVE ReplayAgrees
<1>1. Requeued(disk.state) = Requeued(state) /\ disk.known = known
  BY DEF Init
<1>2. \A j \in Jobs : state[j] # "running"
  BY DEF Init
<1>3. ~torn
  BY DEF Init
<1> QED BY <1>1, <1>2, <1>3 DEF ReplayAgrees

(* Every step keeps log and memory in agreement until an append fails.     *)
LEMMA AgreeStep == ASSUME TypeOK, ReplayAgrees, [Next]_vars PROVE ReplayAgrees'
<1> SUFFICES ASSUME lost' = 0
             PROVE  /\ Requeued(disk'.state) = Requeued(state')
                    /\ \A j \in Jobs : state'[j] = "running" => disk'.owner[j] = owner'[j]
                    /\ disk'.known = known' /\ ~torn'
  BY DEF ReplayAgrees, Requeued
<1> USE DEF TypeOK, Replay
<1>1. CASE Execute
  <2>1. created + 1 \in Jobs
    BY <1>1, RelayAssumption DEF Execute, Jobs
  <2>2. lost = 0 /\ disk' = Created(created + 1) /\ ~torn'
    BY <1>1, CleanAppend DEF Execute
  <2>3. disk'.state = [disk.state EXCEPT ![created + 1] = "queued"]
        /\ disk'.owner = [disk.owner EXCEPT ![created + 1] = None]
        /\ disk'.known = disk.known
    BY <2>2 DEF Created
  <2>4. state' = [state EXCEPT ![created + 1] = "queued"] /\ UNCHANGED <<owner, known>>
    BY <1>1 DEF Execute
  <2>5. Requeued(disk.state) = Requeued(state) /\ disk.known = known
        /\ \A j \in Jobs : state[j] = "running" => disk.owner[j] = owner[j]
    BY <2>2 DEF ReplayAgrees
  <2>6. \A j \in Jobs : Requeued(disk.state)[j] = Requeued(state)[j]
    BY <2>5
  <2>7. \A j \in Jobs : Requeued(disk'.state)[j] = Requeued(state')[j]
    BY <2>1, <2>3, <2>4, <2>6 DEF Requeued
  <2>8. Requeued(disk'.state) = Requeued(state')
    BY <2>7 DEF Requeued
  <2>9. \A j \in Jobs : state'[j] = "running" => disk'.owner[j] = owner'[j]
    BY <2>1, <2>3, <2>4, <2>5
  <2> QED BY <2>2, <2>3, <2>4, <2>5, <2>8, <2>9
<1>2. CASE Restart
  <2>1. lost = 0 /\ UNCHANGED <<disk, torn>>
    BY <1>2 DEF Restart, logVars
  <2>2. state' = Requeued(disk.state) /\ known' = disk.known
    BY <1>2 DEF Restart
  <2>3. \A j \in Jobs : state'[j] # "running"
    BY <2>2 DEF Requeued
  <2>4. Requeued(state') = Requeued(disk.state)
    BY <2>2 DEF Requeued
  <2>5. ~torn'
    BY <2>1 DEF ReplayAgrees
  <2> QED BY <2>1, <2>2, <2>3, <2>4, <2>5
<1>3. ASSUME NEW a \in Agents, Heartbeat(a)
      PROVE  /\ Requeued(disk'.state) = Requeued(state')
             /\ \A j \in Jobs : state'[j] = "running" => disk'.owner[j] = owner'[j]
             /\ disk'.known = known' /\ ~torn'
  <2>1. lost = 0 /\ disk' = Beaten(a) /\ ~torn'
    BY <1>3, CleanAppend DEF Heartbeat
  <2>2. disk'.state = disk.state /\ disk'.owner = disk.owner
        /\ disk'.known = disk.known \cup {a}
    BY <2>1 DEF Beaten
  <2>3. UNCHANGED <<state, owner>> /\ known' = known \cup {a}
    BY <1>3 DEF Heartbeat, jobVars
  <2> QED BY <2>1, <2>2, <2>3 DEF ReplayAgrees
<1>4. ASSUME NEW a \in Agents, Poll(a)
      PROVE  /\ Requeued(disk'.state) = Requeued(state')
             /\ \A j \in Jobs : state'[j] = "running" => disk'.owner[j] = owner'[j]
             /\ disk'.known = known' /\ ~torn'
  <2>1. PICK j \in Queued : /\ state' = [state EXCEPT ![j] = "running"]
                            /\ owner' = [owner EXCEPT ![j] = a]
                            /\ AppendEvent(Started(j, a))
    BY <1>4 DEF Poll
  <2>2. j \in Jobs /\ state[j] = "queued"
    BY DEF Queued
  <2>3. lost = 0 /\ disk' = Started(j, a) /\ ~torn'
    BY <2>1, CleanAppend
  <2>4. disk.state[j] # "none"
    BY <2>2, <2>3, SameKind
  <2>5. disk'.state = [disk.state EXCEPT ![j] = "running"]
        /\ disk'.owner = [disk.owner EXCEPT ![j] = a] /\ disk'.known = disk.known
    BY <2>3, <2>4 DEF Started
  <2>6. Requeued(disk.state) = Requeued(state) /\ disk.known = known
        /\ \A i \in Jobs : state[i] = "running" => disk.owner[i] = owner[i]
    BY <2>3 DEF ReplayAgrees
  <2>7. \A i \in Jobs : Requeued(disk.state)[i] = Requeued(state)[i]
    BY <2>6
  <2>8. \A i \in Jobs : Requeued(disk'.state)[i] = Requeued(state')[i]
    BY <2>1, <2>2, <2>5, <2>7 DEF Requeued
  <2>9. Requeued(disk'.state) = Requeued(state')
    BY <2>8 DEF Requeued
  <2>10. \A i \in Jobs : state'[i] = "running" => disk'.owner[i] = owner'[i]
    BY <2>1, <2>2, <2>5, <2>6
  <2>11. known' = known
    BY <1>4 DEF Poll
  <2> QED BY <2>3, <2>5, <2>6, <2>9, <2>10, <2>11
<1>5. ASSUME NEW a \in Agents, Complete(a)
      PROVE  /\ Requeued(disk'.state) = Requeued(state')
             /\ \A j \in Jobs : state'[j] = "running" => disk'.owner[j] = owner'[j]
             /\ disk'.known = known' /\ ~torn'
  <2>1. work[a] \in Jobs /\ UNCHANGED <<owner, known>>
    BY <1>5, RelayAssumption DEF Complete, Jobs
  <2>2. CASE state[work[a]] = "none"
    BY <1>5, <2>1, <2>2 DEF Complete, logVars, ReplayAgrees
  <2>3. CASE state[work[a]] # "none"
    <3>1. state' = [state EXCEPT ![work[a]] = "done"] /\ AppendEvent(Completed(work[a]))
      BY <1>5, <2>3 DEF Complete
    <3>2. lost = 0 /\ disk' = Completed(work[a]) /\ ~torn'
      BY <3>1, CleanAppend
    <3>3. disk.state[work[a]] # "none"
      BY <2>1, <2>3, <3>2, SameKind
    <3>4. disk'.state = [disk.state EXCEPT ![work[a]] = "done"]
          /\ disk'.owner = disk.owner /\ disk'.known = disk.known
      BY <3>2, <3>3 DEF Completed
    <3>5. Requeued(disk.state) = Requeued(state) /\ disk.known = known
          /\ \A i \in Jobs : state[i] = "running" => disk.owner[i] = owner[i]
      BY <3>2 DEF ReplayAgrees
    <3>6. \A i \in Jobs : Requeued(disk.state)[i] = Requeued(state)[i]
      BY <3>5
    <3>7. \A i \in Jobs : Requeued(disk'.state)[i] = Requeued(state')[i]
      BY <2>1, <3>1, <3>4, <3>6 DEF Requeued
    <3>8. Requeued(disk'.state) = Requeued(state')
      BY <3>7 DEF Requeued
    <3>9. \A i \in Jobs : state'[i] = "running" => disk'.owner[i] = owner'[i]
      BY <2>1, <3>1, <3>4, <3>5
    <3> QED BY <2>1, <3>2, <3>4, <3>5, <3>8, <3>9
  <2> QED BY <2>2, <2>3
<1>6. ASSUME UNCHANGED <<jobVars, known, logVars>>
      PROVE  /\ Requeued(disk'.state) = Requeued(state')
             /\ \A j \in Jobs : state'[j] = "running" => disk'.owner[j] = owner'[j]
             /\ disk'.known = known' /\ ~torn'
  BY <1>6 DEF jobVars, logVars, ReplayAgrees
<1>7. ASSUME NEW a \in Agents, PollNothing(a) \/ AgentDies(a) \/ Hangs(a)
      PROVE  UNCHANGED <<jobVars, known, logVars>>
  BY <1>7 DEF PollNothing, AgentDies, Hangs
<1>8. CASE UNCHANGED vars
  BY <1>6, <1>8 DEF vars
<1> QED BY <1>1, <1>2, <1>3, <1>4, <1>5, <1>6, <1>7, <1>8 DEF Next

(* Until an append fails, a restart at any moment rebuilds what the relay  *)
(* holds in memory, whatever its agents do.                                *)
THEOREM ReplayAgreement == Spec => []ReplayAgrees
<1>1. Init => TypeOK /\ ReplayAgrees
  BY TypeInit, AgreeInit
<1>2. TypeOK /\ ReplayAgrees /\ [Next]_vars => (TypeOK /\ ReplayAgrees)'
  BY TypeStep, AgreeStep
<1>3. TypeOK /\ ReplayAgrees => ReplayAgrees
  OBVIOUS
<1> QED BY <1>1, <1>2, <1>3, PTL DEF Spec

-----------------------------------------------------------------------------
(* A failed append is never forgotten.                                     *)
LEMMA LostStays == ASSUME TypeOK, [Next]_vars, lost' = 0 PROVE lost = 0
<1> USE DEF TypeOK
<1>1. ASSUME NEW STATE d, AppendEvent(d) PROVE lost = 0
  BY <1>1 DEF AppendEvent
<1>2. CASE UNCHANGED lost
  BY <1>2
<1>3. CASE Execute
  BY <1>1, <1>3 DEF Execute
<1>4. CASE Restart
  BY <1>4, <1>2 DEF Restart, logVars
<1>5. ASSUME NEW a \in Agents, Heartbeat(a) PROVE lost = 0
  BY <1>1, <1>5 DEF Heartbeat
<1>6. ASSUME NEW a \in Agents, Poll(a) PROVE lost = 0
  BY <1>1, <1>6 DEF Poll
<1>7. ASSUME NEW a \in Agents, PollNothing(a) \/ AgentDies(a) \/ Hangs(a) PROVE lost = 0
  BY <1>2, <1>7 DEF PollNothing, AgentDies, Hangs, logVars
<1>8. ASSUME NEW a \in Agents, Complete(a) PROVE lost = 0
  BY <1>1, <1>2, <1>8 DEF Complete, logVars
<1>9. CASE UNCHANGED vars
  BY <1>2, <1>9 DEF vars, logVars
<1> QED BY <1>3, <1>4, <1>5, <1>6, <1>7, <1>8, <1>9 DEF Next

(* Each step of the relay is a step of the queue.                          *)
LEMMA QueueStep ==
  ASSUME TypeOK, BooksInv, ReplayAgrees, [Next]_vars
  PROVE  [Queue!Next]_(Queue!vars)
<1> USE DEF TypeOK
<1> DEFINE Step == \/ Queue!Recover \/ UNCHANGED state
                   \/ \E j \in Jobs : Queue!Accept(j) \/ Queue!Hand(j) \/ Queue!Complete(j)
<1>0. SUFFICES Step
  BY LostStays, Zenon DEF Queue!Next
<1>1. CASE Execute
  <2>1. created + 1 \in Jobs
    BY <1>1, RelayAssumption DEF Execute, Jobs
  <2>2. state[created + 1] = "none"
    BY <2>1 DEF BooksInv, Jobs
  <2>3. Queue!Accept(created + 1)
    BY <1>1, <2>2 DEF Execute, Queue!Accept
  <2> QED BY <2>1, <2>3
<1>2. CASE Restart
  <2>1. state' = Requeued(disk.state)
    BY <1>2 DEF Restart
  <2>2. CASE lost = 0
    <3>1. state' = Requeued(state)
      BY <2>1, <2>2 DEF ReplayAgrees
    <3>2. state' = [j \in Jobs |-> Queue!Again(state[j])]
      BY <3>1 DEF Requeued, Queue!Again
    <3> QED BY <2>2, <3>2 DEF Queue!Recover
  <2>3. CASE lost # 0
    <3>1. state' = [j \in Jobs |-> state'[j]]
      BY <2>1 DEF Requeued
    <3>2. ASSUME NEW j \in Jobs PROVE state'[j] \in Queue!Behind(state[j])
      <4>1. state'[j] = IF disk.state[j] = "running" THEN "queued" ELSE disk.state[j]
        BY <2>1 DEF Requeued
      <4>2. /\ disk.state[j] \in {"none", "queued", "running", "done"}
            /\ state[j] \in {"none", "queued", "running", "done"}
        BY DEF Replay, States
      <4>3. /\ state[j] = "none" => disk.state[j] = "none"
            /\ disk.state[j] = "done" => state[j] = "done"
        BY DEF BooksInv
      <4> QED BY <4>1, <4>2, <4>3 DEF Queue!Behind
    <3> QED BY <2>3, <3>1, <3>2 DEF Queue!Recover
  <2> QED BY <2>2, <2>3
<1>3. ASSUME NEW a \in Agents, Poll(a) PROVE Step
  <2>1. PICK j \in Queued : state' = [state EXCEPT ![j] = "running"]
    BY <1>3 DEF Poll
  <2>2. j \in Jobs /\ Queue!Hand(j)
    BY <2>1 DEF Queued, Queue!Hand
  <2> QED BY <2>2
<1>4. ASSUME NEW a \in Agents, Complete(a) PROVE Step
  <2>1. work[a] \in Jobs
    BY <1>4, RelayAssumption DEF Complete, Jobs
  <2>2. CASE state[work[a]] = "none"
    BY <1>4, <2>2 DEF Complete
  <2>3. CASE state[work[a]] # "none"
    <3>1. Queue!Complete(work[a])
      BY <1>4, <2>3 DEF Complete, Queue!Complete
    <3> QED BY <2>1, <3>1
  <2> QED BY <2>2, <2>3
<1>5. ASSUME NEW a \in Agents, Heartbeat(a) \/ PollNothing(a) \/ AgentDies(a) \/ Hangs(a)
      PROVE  UNCHANGED state
  BY <1>5 DEF Heartbeat, PollNothing, AgentDies, Hangs, jobVars
<1>6. CASE UNCHANGED vars
  BY <1>6 DEF vars, jobVars
<1> QED BY <1>1, <1>2, <1>3, <1>4, <1>5, <1>6 DEF Next

(* The relay, its log and its restarts implement the job queue a client    *)
(* relies on, for any number of jobs, agents, restarts and failed appends. *)
THEOREM RelayImplementsQueue == Spec => ImplementsQueue
<1>1. Init => Queue!Init
  BY DEF Init, Queue!Init
<1>2. TypeOK /\ BooksInv /\ ReplayAgrees /\ [Next]_vars => [Queue!Next]_(Queue!vars)
  BY QueueStep
<1> QED BY <1>1, <1>2, BooksInvariant, ReplayAgreement, PTL
        DEF Spec, ImplementsQueue, Queue!Spec
=============================================================================
