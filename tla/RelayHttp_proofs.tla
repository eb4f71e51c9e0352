-------------------------- MODULE RelayHttp_proofs --------------------------
(***************************************************************************)
(* Theorems about RelayHttp, for any number of requests, followers and     *)
(* restarts: what a reply tells is true in the books, and the last row a   *)
(* follower has on a job tells its state.                                  *)
(***************************************************************************)
EXTENDS RelayHttp, SequenceTheorems, TLAPS

Replies == {"none", "200", "400", "401", "404", "reset", "lost"}
Rows == [type : JobRows \cup {"agent_heartbeat"}, id : Requests]
ReqTypes == [op : Ops, body : Bodies, id : Requests]

(* What a reply, a row, a new job and an edited job do to their variables. *)
LEMMA SendEffect ==
  ASSUME TypeOK, NEW r \in Requests, NEW code \in Replies, Send(r, code)
  PROVE  /\ reply' \in [Requests -> Replies]
         /\ reply'[r] \in {code, "lost"} /\ (req[r].body = "cut" => reply'[r] = "lost")
         /\ \A q \in Requests : q # r => reply'[q] = reply[q]
<1>1. PICK answer \in {code, "lost"} : /\ reply' = [reply EXCEPT ![r] = answer]
                                       /\ req[r].body = "cut" => answer = "lost"
  BY DEF Send
<1> QED BY <1>1 DEF TypeOK, Replies

LEMMA RowAdded ==
  ASSUME NEW s \in Seq(Rows), NEW row \in Rows
  PROVE  /\ Append(s, row) \in Seq(Rows)
         /\ DOMAIN Append(s, row) = DOMAIN s \cup {Len(s) + 1}
         /\ \A n \in DOMAIN s : Append(s, row)[n] = s[n] /\ n < Len(s) + 1
         /\ Append(s, row)[Len(s) + 1] = row
<1>1. PICK n \in Nat : n = Len(s)
  OBVIOUS
<1>2. /\ Append(s, row) \in Seq(Rows) /\ Len(Append(s, row)) = n + 1
      /\ \A i \in 1..n : Append(s, row)[i] = s[i]
      /\ Append(s, row)[n + 1] = row
  BY <1>1, AppendProperties
<1>3. DOMAIN s = 1..n /\ DOMAIN Append(s, row) = 1..(n + 1)
  BY <1>1, <1>2
<1> QED BY <1>1, <1>2, <1>3

LEMMA JobAdded ==
  ASSUME NEW s \in Seq(Job), NEW job \in Job
  PROVE  /\ Append(s, job) \in Seq(Job)
         /\ DOMAIN Append(s, job) = DOMAIN s \cup {Len(s) + 1} /\ Len(s) + 1 \notin DOMAIN s
         /\ \A n \in DOMAIN s : Append(s, job)[n] = s[n]
         /\ Append(s, job)[Len(s) + 1] = job
<1>1. PICK n \in Nat : n = Len(s)
  OBVIOUS
<1>2. /\ Append(s, job) \in Seq(Job) /\ Len(Append(s, job)) = n + 1
      /\ \A i \in 1..n : Append(s, job)[i] = s[i]
      /\ Append(s, job)[n + 1] = job
  BY <1>1, AppendProperties
<1>3. DOMAIN s = 1..n /\ DOMAIN Append(s, job) = 1..(n + 1)
  BY <1>1, <1>2
<1> QED BY <1>1, <1>2, <1>3

LEMMA JobEdited ==
  ASSUME NEW s \in Seq(Job), NEW t, DOMAIN t = DOMAIN s, t = [n \in DOMAIN t |-> t[n]],
         \A n \in DOMAIN s : t[n] \in Job
  PROVE  t \in Seq(Job)
<1>1. PICK n \in Nat : n = Len(s) /\ DOMAIN s = 1..n
  OBVIOUS
<1>2. t \in [1..n -> Job]
  BY <1>1
<1> QED BY <1>2

(* A published row reaches every connected follower and no other.          *)
LEMMA PublishEffect ==
  ASSUME TypeOK, NEW type \in JobRows \cup {"agent_heartbeat"}, NEW id \in Requests,
         Publish(type, id)
  PROVE  /\ stream' \in [Followers -> Seq(Rows)]
         /\ \A f \in clients : stream'[f] = Append(stream[f], [type |-> type, id |-> id])
         /\ \A f \in Followers \ clients : stream'[f] = stream[f]
<1>1. [type |-> type, id |-> id] \in Rows
  BY DEF Rows
<1>2. stream \in [Followers -> Seq(Rows)] /\ clients \subseteq Followers
  BY DEF TypeOK, Rows
<1>3. \A f \in Followers : stream[f] \in Seq(Rows)
                           /\ Append(stream[f], [type |-> type, id |-> id]) \in Seq(Rows)
  BY <1>1, <1>2, RowAdded
<1>4. stream' = [f \in Followers |->
         IF f \in clients THEN Append(stream[f], [type |-> type, id |-> id]) ELSE stream[f]]
  BY DEF Publish
<1> QED BY <1>2, <1>3, <1>4

LEMMA JobFields ==
  ASSUME NEW job \in Job
  PROVE  /\ job.id \in Requests /\ job.state \in {"queued", "running", "done"}
         /\ job.taker \in Requests \cup {None} /\ job.by \in Requests \cup {None}
BY DEF Job

(* The three edits of the books, field by field: a job is taken, a job is  *)
(* reported, and a restart puts the running jobs back.                     *)
LEMMA TakenEffect ==
  ASSUME TypeOK, NEW r \in Requests, NEW i \in DOMAIN jobs,
         jobs' = [jobs EXCEPT ![i].state = "running", ![i].taker = r]
  PROVE  /\ jobs' \in Seq(Job) /\ DOMAIN jobs' = DOMAIN jobs
         /\ \A k \in DOMAIN jobs : k # i => jobs'[k] = jobs[k]
         /\ \A k \in DOMAIN jobs : jobs'[k].id = jobs[k].id
         /\ jobs'[i].state = "running" /\ jobs'[i].taker = r /\ jobs'[i].by = jobs[i].by
<1>1. jobs \in Seq(Job) /\ \A k \in DOMAIN jobs : jobs[k] \in Job
  BY ElementOfSeq DEF TypeOK
<1>2. DOMAIN jobs' = DOMAIN jobs /\ \A k \in DOMAIN jobs : k # i => jobs'[k] = jobs[k]
  OBVIOUS
<1>3. jobs'[i] = [id |-> jobs[i].id, state |-> "running", taker |-> r, by |-> jobs[i].by]
  BY <1>1 DEF Job
<1>4. jobs'[i] \in Job
  BY <1>1, <1>3, JobFields DEF Job
<1>5. jobs' \in Seq(Job)
  BY <1>1, <1>2, <1>4, JobEdited
<1> QED BY <1>2, <1>3, <1>5

LEMMA DoneEffect ==
  ASSUME TypeOK, NEW r \in Requests, NEW i \in DOMAIN jobs,
         jobs' = [jobs EXCEPT ![i].state = "done", ![i].by = r]
  PROVE  /\ jobs' \in Seq(Job) /\ DOMAIN jobs' = DOMAIN jobs
         /\ \A k \in DOMAIN jobs : k # i => jobs'[k] = jobs[k]
         /\ \A k \in DOMAIN jobs : jobs'[k].id = jobs[k].id
         /\ jobs'[i].state = "done" /\ jobs'[i].taker = jobs[i].taker /\ jobs'[i].by = r
<1>1. jobs \in Seq(Job) /\ \A k \in DOMAIN jobs : jobs[k] \in Job
  BY ElementOfSeq DEF TypeOK
<1>2. DOMAIN jobs' = DOMAIN jobs /\ \A k \in DOMAIN jobs : k # i => jobs'[k] = jobs[k]
  OBVIOUS
<1>3. jobs'[i] = [id |-> jobs[i].id, state |-> "done", taker |-> jobs[i].taker, by |-> r]
  BY <1>1 DEF Job
<1>4. jobs'[i] \in Job
  BY <1>1, <1>3, JobFields DEF Job
<1>5. jobs' \in Seq(Job)
  BY <1>1, <1>2, <1>4, JobEdited
<1> QED BY <1>2, <1>3, <1>5

LEMMA AgainEffect ==
  ASSUME TypeOK, Restart
  PROVE  /\ jobs' \in Seq(Job) /\ DOMAIN jobs' = DOMAIN jobs
         /\ \A k \in DOMAIN jobs :
              /\ jobs'[k].id = jobs[k].id /\ jobs'[k].taker = jobs[k].taker
              /\ jobs'[k].by = jobs[k].by
              /\ jobs'[k].state = IF jobs[k].state = "running" THEN "queued" ELSE jobs[k].state
<1>1. jobs \in Seq(Job) /\ \A k \in DOMAIN jobs : jobs[k] \in Job
  BY ElementOfSeq DEF TypeOK
<1>2. jobs' = [i \in DOMAIN jobs |->
        IF jobs[i].state = "running" THEN [jobs[i] EXCEPT !.state = "queued"] ELSE jobs[i]]
  BY DEF Restart
<1>3. ASSUME NEW k \in DOMAIN jobs
      PROVE  /\ jobs'[k].id = jobs[k].id /\ jobs'[k].taker = jobs[k].taker
             /\ jobs'[k].by = jobs[k].by /\ jobs'[k] \in Job
             /\ jobs'[k].state = IF jobs[k].state = "running" THEN "queued" ELSE jobs[k].state
  <2>1. jobs[k] \in Job
    BY <1>1
  <2>2. CASE jobs[k].state = "running"
    <3>1. jobs'[k] = [id |-> jobs[k].id, state |-> "queued", taker |-> jobs[k].taker, by |-> jobs[k].by]
      BY <1>2, <2>1, <2>2 DEF Job
    <3> QED BY <2>1, <2>2, <3>1, JobFields DEF Job
  <2>3. CASE jobs[k].state # "running"
    BY <1>2, <2>1, <2>3
  <2> QED BY <2>2, <2>3
<1>4. DOMAIN jobs' = DOMAIN jobs
  BY <1>2
<1>5. jobs' \in Seq(Job)
  BY <1>1, <1>2, <1>3, <1>4, JobEdited
<1> QED BY <1>3, <1>4, <1>5

(* The types, action by action.                                            *)
LEMMA TypeInit == ASSUME Init PROVE TypeOK
<1>1. jobs \in Seq(Job) /\ stream \in [Followers -> Seq([type : JobRows \cup {"agent_heartbeat"}, id : Requests])]
  BY EmptySeq DEF Init
<1>2. restarts \in 0..MaxRestarts
  BY HttpAssumption DEF Init
<1>3. DOMAIN sessions = {} /\ sessions \in [DOMAIN sessions -> Seq(Requests)]
  BY DEF Init
<1> QED BY <1>1, <1>2, <1>3 DEF Init, TypeOK

LEMMA TypeStep == ASSUME TypeOK, [Next]_vars PROVE TypeOK'
<1> USE DEF TypeOK
<1>1. ASSUME NEW r \in Requests, Arrive(r) PROVE TypeOK'
  <2>1. PICK op \in Ops, body \in Bodies, id \in Requests :
          /\ req' = [req EXCEPT ![r] = [op |-> op, body |-> body, id |-> id]]
          /\ reply' = IF body = "stranger" THEN [reply EXCEPT ![r] = "401"] ELSE reply
    BY <1>1 DEF Arrive
  <2>2. UNCHANGED <<given, jobs, sessions, clients, stream, restarts>>
    BY <1>1 DEF Arrive
  <2> QED BY <2>1, <2>2
<1>2. ASSUME NEW r \in Requests, TooLong(r) PROVE TypeOK'
  BY <1>2 DEF TooLong
<1>3. ASSUME NEW r \in Requests, Refuse(r) PROVE TypeOK'
  <2>1. reply' \in [Requests -> Replies]
    BY <1>3, SendEffect DEF Refuse, Replies
  <2> QED BY <1>3, <2>1 DEF Refuse, Replies
<1>4. ASSUME NEW r \in Requests, Execute(r) PROVE TypeOK'
  <2>1. reply' \in [Requests -> Replies]
    BY <1>4, SendEffect DEF Execute, Replies
  <2>2. stream' \in [Followers -> Seq(Rows)]
    BY <1>4, PublishEffect DEF Execute, JobRows
  <2>3. [id |-> r, state |-> "queued", taker |-> None, by |-> None] \in Job
    BY DEF Job
  <2>4. jobs' \in Seq(Job)
    BY <1>4, <2>3, JobAdded DEF Execute
  <2> QED BY <1>4, <2>1, <2>2, <2>4 DEF Execute, Replies, Rows
<1>5. ASSUME NEW r \in Requests, Poll(r) PROVE TypeOK'
  <2>1. reply' \in [Requests -> Replies] /\ UNCHANGED <<req, sessions, clients, restarts>>
    BY <1>5, SendEffect DEF Poll, Replies
  <2>2. CASE UNCHANGED <<jobs, stream, given>>
    BY <2>1, <2>2 DEF Replies
  <2>3. ASSUME NEW i \in DOMAIN jobs,
               jobs' = [jobs EXCEPT ![i].state = "running", ![i].taker = r],
               Publish("job_started", jobs[i].id), given' = [given EXCEPT ![r] = jobs[i].id]
        PROVE  TypeOK'
    <3>1. jobs' \in Seq(Job)
      BY <2>3, TakenEffect
    <3>2. jobs[i].id \in Requests
      BY ElementOfSeq, JobFields
    <3>3. stream' \in [Followers -> Seq(Rows)]
      BY <2>3, <3>2, PublishEffect DEF JobRows
    <3> QED BY <2>1, <2>3, <3>1, <3>2, <3>3 DEF Replies, Rows
  <2> QED BY <1>5, <2>2, <2>3 DEF Poll, Queued
<1>6. ASSUME NEW r \in Requests, Complete(r) PROVE TypeOK'
  <2>0. UNCHANGED <<req, given, sessions, clients, restarts>>
    BY <1>6 DEF Complete
  <2>1. CASE Send(r, "404") /\ UNCHANGED <<jobs, stream>>
    <3>1. reply' \in [Requests -> Replies]
      BY <2>1, SendEffect DEF Replies
    <3> QED BY <2>0, <2>1, <3>1 DEF Replies
  <2>2. ASSUME NEW i \in DOMAIN jobs, jobs[i].id = req[r].id, Report(r, i),
               Publish("job_completed", req[r].id)
        PROVE  TypeOK'
    <3>1. jobs' \in Seq(Job)
      BY <2>2, DoneEffect DEF Report
    <3>2. reply' \in [Requests -> Replies]
      BY <2>2, SendEffect DEF Report, Replies
    <3>3. req[r].id \in Requests
      BY <2>2, ElementOfSeq, JobFields
    <3>4. stream' \in [Followers -> Seq(Rows)]
      BY <2>2, <3>3, PublishEffect DEF JobRows
    <3> QED BY <2>0, <3>1, <3>2, <3>4 DEF Replies, Rows
  <2> QED BY <1>6, <2>1, <2>2 DEF Complete, Named
<1>7. ASSUME NEW r \in Requests, Heartbeat(r) PROVE TypeOK'
  <2>1. reply' \in [Requests -> Replies]
    BY <1>7, SendEffect DEF Heartbeat, Replies
  <2>2. stream' \in [Followers -> Seq(Rows)]
    BY <1>7, PublishEffect DEF Heartbeat
  <2> QED BY <1>7, <2>1, <2>2 DEF Heartbeat, Replies, Rows
<1>8. ASSUME NEW r \in Requests, CreateSession(r) PROVE TypeOK'
  <2>1. reply' \in [Requests -> Replies]
    BY <1>8, SendEffect DEF CreateSession, Replies
  <2>2. sessions' = [s \in DOMAIN sessions \cup {r} |-> IF s = r THEN <<>> ELSE sessions[s]]
    BY <1>8 DEF CreateSession
  <2>3. DOMAIN sessions' = DOMAIN sessions \cup {r}
    BY <2>2
  <2>4. sessions' \in [DOMAIN sessions' -> Seq(Requests)]
    BY <2>2, <2>3, EmptySeq
  <2> QED BY <1>8, <2>1, <2>3, <2>4 DEF CreateSession, Replies
<1>9. ASSUME NEW r \in Requests, AppendSession(r) PROVE TypeOK'
  <2>0. UNCHANGED <<req, given, jobs, clients, stream, restarts>>
    BY <1>9 DEF AppendSession
  <2>1. reply' \in [Requests -> Replies]
    BY <1>9, SendEffect DEF AppendSession, Replies
  <2>2. CASE UNCHANGED sessions
    BY <2>0, <2>1, <2>2 DEF Replies
  <2>3. CASE req[r].id \in DOMAIN sessions
             /\ sessions' = [sessions EXCEPT ![req[r].id] = Append(@, r)]
    <3>1. Append(sessions[req[r].id], r) \in Seq(Requests)
      BY <2>3, AppendProperties
    <3>2. DOMAIN sessions' = DOMAIN sessions /\ sessions' \in [DOMAIN sessions -> Seq(Requests)]
      BY <2>3, <3>1
    <3> QED BY <2>0, <2>1, <3>2 DEF Replies
  <2> QED BY <1>9, <2>2, <2>3 DEF AppendSession
<1>10. ASSUME NEW f \in Followers, AddClient(f) PROVE TypeOK'
  BY <1>10, EmptySeq DEF AddClient
<1>11. ASSUME NEW f \in Followers, RemoveClient(f) PROVE TypeOK'
  BY <1>11 DEF RemoveClient
<1>12. CASE Restart
  <2>1. jobs' \in Seq(Job)
    BY <1>12, AgainEffect
  <2>2. DOMAIN sessions' = {} /\ sessions' \in [DOMAIN sessions' -> Seq(Requests)]
    BY <1>12 DEF Restart
  <2>3. restarts' \in 0..MaxRestarts
    BY <1>12, HttpAssumption DEF Restart
  <2>4. reply' \in [Requests -> Replies]
    BY <1>12 DEF Restart, Replies
  <2> QED BY <1>12, <2>1, <2>2, <2>3, <2>4 DEF Restart, Replies
<1>13. CASE UNCHANGED vars
  BY <1>13 DEF vars
<1> QED BY <1>1, <1>2, <1>3, <1>4, <1>5, <1>6, <1>7, <1>8, <1>9, <1>10, <1>11, <1>12, <1>13
        DEF Next, Handle

(* The requests, the replies, the books and the streams keep their types.  *)
THEOREM TypeCorrect == Spec => []TypeOK
BY TypeInit, TypeStep, PTL DEF Spec

-----------------------------------------------------------------------------
(* The stream. When a job changes its state and the row that tells it goes *)
(* out at once, the last row on each job is true again: on this job it is  *)
(* the new row, on the others it is the row it was.                        *)
LEMMA RowTold ==
  ASSUME TypeOK, StreamTellsState, NEW type \in JobRows, NEW id \in Requests,
         Publish(type, id), clients' = clients,
         \E j \in DOMAIN jobs' : jobs'[j].id = id /\ jobs'[j].state = StateTold(type),
         \A k \in DOMAIN jobs : jobs[k].id # id => k \in DOMAIN jobs' /\ jobs'[k] = jobs[k]
  PROVE  StreamTellsState'
<1> SUFFICES ASSUME NEW f \in clients, NEW n \in DOMAIN stream'[f], LastOfItsJob(stream'[f], n)
             PROVE  \E i \in DOMAIN jobs' : jobs'[i].id = stream'[f][n].id
                                            /\ jobs'[i].state = StateTold(stream'[f][n].type)
  BY DEF StreamTellsState, Named, StateTold, LastOfItsJob, JobRows
<1> DEFINE old == stream[f]
           row == [type |-> type, id |-> id]
<1>1. old \in Seq(Rows) /\ row \in Rows /\ f \in Followers
  BY DEF TypeOK, Rows
<1>2. stream'[f] = Append(old, row)
  BY PublishEffect
<1>3. /\ DOMAIN Append(old, row) = DOMAIN old \cup {Len(old) + 1}
      /\ \A m \in DOMAIN old : Append(old, row)[m] = old[m] /\ m < Len(old) + 1
      /\ Append(old, row)[Len(old) + 1] = row
  BY <1>1, RowAdded
<1>4. CASE n = Len(old) + 1
  BY <1>2, <1>3, <1>4
<1>5. CASE n \in DOMAIN old
  <2>1. old[n] = stream'[f][n] /\ n < Len(old) + 1 /\ Len(old) + 1 \in DOMAIN stream'[f]
    BY <1>2, <1>3, <1>5
  <2>2. stream'[f][Len(old) + 1].id = id /\ stream'[f][Len(old) + 1].type \in JobRows
    BY <1>2, <1>3
  <2>3. old[n].id # id
    <3>1. n \in Nat /\ Len(old) + 1 > n
      BY <1>1, <1>5, <2>1
    <3> QED BY <2>1, <2>2, <3>1 DEF LastOfItsJob
  <2>4. LastOfItsJob(old, n)
    <3>1. \A k \in DOMAIN old : k \in DOMAIN stream'[f] /\ stream'[f][k] = old[k]
      BY <1>2, <1>3
    <3> QED BY <2>1, <3>1, <1>5 DEF LastOfItsJob
  <2>5. PICK i \in DOMAIN jobs : jobs[i].id = old[n].id /\ jobs[i].state = StateTold(old[n].type)
    BY <1>5, <2>4 DEF StreamTellsState, Named
  <2>6. i \in DOMAIN jobs' /\ jobs'[i] = jobs[i]
    BY <2>3, <2>5
  <2> QED BY <2>1, <2>5, <2>6
<1> QED BY <1>2, <1>3, <1>4, <1>5

LEMMA StreamStep == ASSUME TypeOK, JobsTold, StreamTellsState, [Next]_vars PROVE StreamTellsState'
<1>0. ASSUME UNCHANGED <<jobs, stream>>, clients' \subseteq clients PROVE StreamTellsState'
  BY <1>0 DEF StreamTellsState, Named
<1>1. ASSUME NEW r \in Requests, Arrive(r) \/ TooLong(r) \/ Refuse(r) \/ CreateSession(r) \/ AppendSession(r)
      PROVE  StreamTellsState'
  BY <1>0, <1>1 DEF Arrive, TooLong, Refuse, CreateSession, AppendSession
<1>2. ASSUME NEW r \in Requests, Execute(r) PROVE StreamTellsState'
  <2>1. /\ jobs' = Append(jobs, [id |-> r, state |-> "queued", taker |-> None, by |-> None])
        /\ Publish("job_created", r) /\ clients' = clients
    BY <1>2 DEF Execute
  <2>2. jobs \in Seq(Job) /\ [id |-> r, state |-> "queued", taker |-> None, by |-> None] \in Job
    BY DEF TypeOK, Job
  <2>3. /\ \A k \in DOMAIN jobs : k \in DOMAIN jobs' /\ jobs'[k] = jobs[k]
        /\ Len(jobs) + 1 \in DOMAIN jobs' /\ jobs'[Len(jobs) + 1].id = r
        /\ jobs'[Len(jobs) + 1].state = "queued"
    BY <2>1, <2>2, JobAdded
  <2>4. StateTold("job_created") = "queued" /\ "job_created" \in JobRows
    BY DEF StateTold, JobRows
  <2> QED BY <2>1, <2>3, <2>4, RowTold
<1>3. ASSUME NEW r \in Requests, Poll(r) PROVE StreamTellsState'
  <2>1. CASE UNCHANGED <<jobs, stream>>
    BY <1>0, <1>3, <2>1 DEF Poll
  <2>2. ASSUME NEW i \in DOMAIN jobs, Publish("job_started", jobs[i].id),
               jobs' = [jobs EXCEPT ![i].state = "running", ![i].taker = r]
        PROVE  StreamTellsState'
    <3>1. /\ DOMAIN jobs' = DOMAIN jobs /\ jobs'[i].id = jobs[i].id /\ jobs'[i].state = "running"
          /\ \A k \in DOMAIN jobs : k # i => jobs'[k] = jobs[k]
      BY <2>2, TakenEffect
    <3>2. StateTold("job_started") = "running" /\ "job_started" \in JobRows
      BY DEF StateTold, JobRows
    <3>3. clients' = clients /\ jobs[i].id \in Requests
      BY <1>3, ElementOfSeq, JobFields DEF Poll, TypeOK
    <3> QED BY <2>2, <3>1, <3>2, <3>3, RowTold
  <2> QED BY <1>3, <2>1, <2>2 DEF Poll, Queued
<1>4. ASSUME NEW r \in Requests, Complete(r) PROVE StreamTellsState'
  <2>1. CASE UNCHANGED <<jobs, stream>>
    BY <1>0, <1>4, <2>1 DEF Complete
  <2>2. ASSUME NEW i \in DOMAIN jobs, jobs[i].id = req[r].id, Report(r, i),
               Publish("job_completed", req[r].id)
        PROVE  StreamTellsState'
    <3>1. /\ DOMAIN jobs' = DOMAIN jobs /\ jobs'[i].id = jobs[i].id /\ jobs'[i].state = "done"
          /\ \A k \in DOMAIN jobs : k # i => jobs'[k] = jobs[k]
      BY <2>2, DoneEffect DEF Report
    <3>2. StateTold("job_completed") = "done" /\ "job_completed" \in JobRows
      BY DEF StateTold, JobRows
    <3>3. clients' = clients /\ req[r].id \in Requests
      BY <1>4, <2>2, ElementOfSeq, JobFields DEF Complete, TypeOK
    <3> QED BY <2>2, <3>1, <3>2, <3>3, RowTold
  <2> QED BY <1>4, <2>1, <2>2 DEF Complete, Named
<1>5. ASSUME NEW r \in Requests, Heartbeat(r) PROVE StreamTellsState'
  <2> SUFFICES ASSUME NEW f \in clients, NEW n \in DOMAIN stream'[f], LastOfItsJob(stream'[f], n)
               PROVE  \E i \in DOMAIN jobs : jobs[i].id = stream'[f][n].id
                                             /\ jobs[i].state = StateTold(stream'[f][n].type)
    BY <1>5 DEF StreamTellsState, Named, Heartbeat, StateTold, LastOfItsJob, JobRows
  <2> DEFINE old == stream[f]
             row == [type |-> "agent_heartbeat", id |-> r]
  <2>1. old \in Seq(Rows) /\ row \in Rows
    BY DEF TypeOK, Rows
  <2>2. stream'[f] = Append(old, row)
    BY <1>5, PublishEffect DEF Heartbeat
  <2>3. /\ DOMAIN Append(old, row) = DOMAIN old \cup {Len(old) + 1}
        /\ \A m \in DOMAIN old : Append(old, row)[m] = old[m]
        /\ Append(old, row)[Len(old) + 1] = row
    BY <2>1, RowAdded
  <2>4. n # Len(old) + 1
    BY <2>2, <2>3 DEF LastOfItsJob, JobRows
  <2>5. n \in DOMAIN old /\ LastOfItsJob(old, n) /\ stream'[f][n] = old[n]
    BY <2>2, <2>3, <2>4 DEF LastOfItsJob
  <2> QED BY <2>5 DEF StreamTellsState, Named
<1>6. ASSUME NEW f \in Followers, AddClient(f) PROVE StreamTellsState'
  <2>1. /\ clients' = clients \cup {f} /\ jobs' = jobs
        /\ stream' = [stream EXCEPT ![f] = <<>>]
    BY <1>6 DEF AddClient
  <2>2. stream'[f] = <<>> /\ \A g \in clients : g # f => stream'[g] = stream[g]
    BY <2>1 DEF TypeOK
  <2>3. DOMAIN stream'[f] = {}
    BY <2>2, EmptySeq
  <2> QED BY <2>1, <2>2, <2>3 DEF StreamTellsState, Named
<1>7. ASSUME NEW f \in Followers, RemoveClient(f) PROVE StreamTellsState'
  BY <1>0, <1>7 DEF RemoveClient
<1>8. CASE Restart
  BY <1>8 DEF Restart, StreamTellsState
<1>9. CASE UNCHANGED vars
  BY <1>0, <1>9 DEF vars
<1> QED BY <1>1, <1>2, <1>3, <1>4, <1>5, <1>6, <1>7, <1>8, <1>9 DEF Next, Handle

-----------------------------------------------------------------------------
(* The books. A reply once given stays, and so does what a request asked;  *)
(* jobs keep their place and their id.                                     *)
LEMMA AnswersStay ==
  ASSUME TypeOK, FreshInv, [Next]_vars, NEW q \in Requests, reply[q] # "none"
  PROVE  reply'[q] = reply[q] /\ given'[q] = given[q] /\ req'[q] = req[q]
<1> USE DEF TypeOK
<1>1. ASSUME NEW r \in Requests, NEW code \in Replies, Reading(r), Send(r, code)
      PROVE  r # q /\ reply'[q] = reply[q]
  BY <1>1, SendEffect DEF Reading
<1>2. ASSUME NEW r \in Requests, Arrive(r)
      PROVE  reply'[q] = reply[q] /\ given'[q] = given[q] /\ req'[q] = req[q]
  <2>1. r # q
    BY <1>2 DEF Arrive, FreshInv
  <2> QED BY <1>2, <2>1 DEF Arrive
<1>3. ASSUME NEW r \in Requests, TooLong(r) \/ Refuse(r)
      PROVE  reply'[q] = reply[q] /\ given'[q] = given[q] /\ req'[q] = req[q]
  BY <1>1, <1>3 DEF TooLong, Refuse, Reading, Replies
<1>4. ASSUME NEW r \in Requests,
             Execute(r) \/ Poll(r) \/ Complete(r) \/ Heartbeat(r) \/ CreateSession(r) \/ AppendSession(r)
      PROVE  reply'[q] = reply[q] /\ given'[q] = given[q] /\ req'[q] = req[q]
  <2>1. Reading(r) /\ r # q
    BY <1>4 DEF Execute, Poll, Complete, Heartbeat, CreateSession, AppendSession, Handles, Reading
  <2>2. Send(r, "200") \/ Send(r, "404")
    BY <1>4 DEF Execute, Poll, Complete, Report, Heartbeat, CreateSession, AppendSession
  <2>3. reply'[q] = reply[q]
    BY <1>1, <2>1, <2>2 DEF Replies
  <2>4. req' = req /\ (given' = given \/ \E id : given' = [given EXCEPT ![r] = id])
    BY <1>4 DEF Execute, Poll, Complete, Heartbeat, CreateSession, AppendSession
  <2> QED BY <2>1, <2>3, <2>4
<1>5. ASSUME NEW f \in Followers, AddClient(f) \/ RemoveClient(f)
      PROVE  reply'[q] = reply[q] /\ given'[q] = given[q] /\ req'[q] = req[q]
  BY <1>5 DEF AddClient, RemoveClient
<1>6. CASE Restart
  BY <1>6 DEF Restart, Reading
<1>7. CASE UNCHANGED vars
  BY <1>7 DEF vars
<1> QED BY <1>2, <1>3, <1>4, <1>5, <1>6, <1>7 DEF Next, Handle

LEMMA JobsKeepIds ==
  ASSUME TypeOK, [Next]_vars, \A r \in Requests : ~Execute(r)
  PROVE  DOMAIN jobs' = DOMAIN jobs /\ \A i \in DOMAIN jobs : jobs'[i].id = jobs[i].id
<1>1. CASE UNCHANGED jobs
  BY <1>1
<1>2. ASSUME NEW r \in Requests, Poll(r)
      PROVE  DOMAIN jobs' = DOMAIN jobs /\ \A i \in DOMAIN jobs : jobs'[i].id = jobs[i].id
  <2>1. \/ UNCHANGED jobs
        \/ \E i \in DOMAIN jobs : jobs' = [jobs EXCEPT ![i].state = "running", ![i].taker = r]
    BY <1>2 DEF Poll, Queued
  <2> QED BY <2>1, TakenEffect
<1>3. ASSUME NEW r \in Requests, Complete(r)
      PROVE  DOMAIN jobs' = DOMAIN jobs /\ \A i \in DOMAIN jobs : jobs'[i].id = jobs[i].id
  <2>1. \/ UNCHANGED jobs
        \/ \E i \in DOMAIN jobs : jobs' = [jobs EXCEPT ![i].state = "done", ![i].by = r]
    BY <1>3 DEF Complete, Named, Report
  <2> QED BY <2>1, DoneEffect
<1>4. CASE Restart
  BY <1>4, AgainEffect
<1>5. ASSUME NEW r \in Requests,
             Arrive(r) \/ TooLong(r) \/ Refuse(r) \/ Heartbeat(r) \/ CreateSession(r) \/ AppendSession(r)
      PROVE  UNCHANGED jobs
  BY <1>5 DEF Arrive, TooLong, Refuse, Heartbeat, CreateSession, AppendSession
<1>6. ASSUME NEW f \in Followers, AddClient(f) \/ RemoveClient(f) PROVE UNCHANGED jobs
  BY <1>6 DEF AddClient, RemoveClient
<1>7. CASE UNCHANGED vars
  BY <1>1, <1>7 DEF vars
<1> QED BY <1>1, <1>2, <1>3, <1>4, <1>5, <1>6, <1>7 DEF Next, Handle

(* An accepted /execute adds one job, under an id no job had: an /execute  *)
(* without a reply has no job yet.                                         *)
LEMMA ExecuteEffect ==
  ASSUME TypeOK, NEW r \in Requests, Execute(r)
  PROVE  /\ Reading(r) /\ req[r].op = "execute" /\ req[r].body = "good"
         /\ reply'[r] \in {"200", "lost"} /\ \A q \in Requests : q # r => reply'[q] = reply[q]
         /\ req' = req /\ given' = given /\ sessions' = sessions
         /\ DOMAIN jobs' = DOMAIN jobs \cup {Len(jobs) + 1} /\ Len(jobs) + 1 \notin DOMAIN jobs
         /\ \A i \in DOMAIN jobs : jobs'[i] = jobs[i]
         /\ jobs'[Len(jobs) + 1].id = r /\ jobs'[Len(jobs) + 1].state = "queued"
         /\ jobs'[Len(jobs) + 1].taker = None
<1>1. Reading(r) /\ req[r].op = "execute" /\ req[r].body = "good"
  BY DEF Execute, Handles, Accepts
<1>2. Send(r, "200") /\ req' = req /\ given' = given /\ sessions' = sessions
      /\ jobs' = Append(jobs, [id |-> r, state |-> "queued", taker |-> None, by |-> None])
  BY DEF Execute
<1>3. reply'[r] \in {"200", "lost"} /\ \A q \in Requests : q # r => reply'[q] = reply[q]
  BY <1>2, SendEffect DEF Replies
<1>4. jobs \in Seq(Job) /\ [id |-> r, state |-> "queued", taker |-> None, by |-> None] \in Job
  BY DEF TypeOK, Job
<1>5. jobs'[Len(jobs) + 1] = [id |-> r, state |-> "queued", taker |-> None, by |-> None]
  BY <1>2, <1>4, JobAdded
<1> QED BY <1>1, <1>2, <1>3, <1>4, <1>5, JobAdded

(* No other step answers an /execute with 200 or loses the reply of a whole*)
(* one.                                                                    *)
LEMMA NoOtherJob ==
  ASSUME TypeOK, [Next]_vars, NEW q \in Requests, ~Execute(q), reply[q] = "none",
         req'[q] # None, req'[q].op = "execute"
  PROVE  reply'[q] # "200" /\ ~(reply'[q] = "lost" /\ req'[q].body = "good")
<1> USE DEF TypeOK
<1> DEFINE Goal == reply'[q] # "200" /\ ~(reply'[q] = "lost" /\ req'[q].body = "good")
<1>1. CASE reply'[q] = reply[q]
  BY <1>1
<1>2. ASSUME NEW r \in Requests, r # q, NEW code \in Replies, Send(r, code)
      PROVE  Goal
  BY <1>2, SendEffect
<1>3. ASSUME NEW r \in Requests, Arrive(r) PROVE Goal
  BY <1>3 DEF Arrive
<1>4. ASSUME NEW r \in Requests, TooLong(r) PROVE Goal
  BY <1>4 DEF TooLong
<1>5. ASSUME NEW r \in Requests, Refuse(r) PROVE Goal
  <2>1. Send(r, "400") /\ req' = req
    BY <1>5 DEF Refuse
  <2>2. CASE r = q
    <3>1. req[q].body # "good"
      BY <1>5, <2>1, <2>2 DEF Refuse, Accepts
    <3>2. reply'[q] \in {"400", "lost"}
      BY <2>1, <2>2, SendEffect DEF Replies
    <3> QED BY <2>1, <3>1, <3>2
  <2>3. CASE r # q
    BY <1>2, <2>1, <2>3 DEF Replies
  <2> QED BY <2>2, <2>3
<1>6. ASSUME NEW r \in Requests, Execute(r) PROVE Goal
  <2>1. Send(r, "200") /\ r # q
    BY <1>6 DEF Execute
  <2> QED BY <1>2, <2>1 DEF Replies
<1>7. ASSUME NEW r \in Requests,
             Poll(r) \/ Complete(r) \/ Heartbeat(r) \/ CreateSession(r) \/ AppendSession(r)
      PROVE  Goal
  <2>1. req' = req /\ req[r].op # "execute"
    BY <1>7 DEF Poll, Complete, Heartbeat, CreateSession, AppendSession, Handles
  <2>2. Send(r, "200") \/ Send(r, "404")
    BY <1>7 DEF Poll, Complete, Report, Heartbeat, CreateSession, AppendSession
  <2> QED BY <1>2, <2>1, <2>2 DEF Replies
<1>8. ASSUME NEW f \in Followers, AddClient(f) \/ RemoveClient(f) PROVE Goal
  BY <1>8 DEF AddClient, RemoveClient
<1>9. CASE Restart
  BY <1>9 DEF Restart
<1>10. CASE UNCHANGED vars
  BY <1>10 DEF vars
<1> QED BY <1>3, <1>4, <1>5, <1>6, <1>7, <1>8, <1>9, <1>10 DEF Next, Handle

(* Each conjunct of RepliesInv is preserved; each lemma names the others it*)
(* needs.                                                                  *)
LEMMA FreshStep == ASSUME TypeOK, FreshInv, [Next]_vars PROVE FreshInv'
<1> SUFFICES ASSUME NEW q \in Requests, reply'[q] # "none" PROVE req'[q] # None
  BY DEF FreshInv
<1>1. CASE reply[q] # "none"
  BY <1>1, AnswersStay DEF FreshInv
<1>2. CASE reply[q] = "none"
  <2> USE DEF TypeOK
  <2>1. ASSUME NEW r \in Requests, Arrive(r) PROVE req'[q] # None
    <3>1. CASE r = q
      BY <2>1, <3>1, HttpAssumption DEF Arrive
    <3>2. CASE r # q
      BY <1>2, <2>1, <3>2 DEF Arrive
    <3> QED BY <3>1, <3>2
  <2>2. ASSUME NEW r \in Requests, Handle(r) PROVE req'[q] # None
    <3>1. Reading(r) /\ req' = req
      BY <2>2 DEF Handle, TooLong, Refuse, Execute, Poll, Complete, Heartbeat, CreateSession,
                  AppendSession, Handles
    <3>2. reply' = [reply EXCEPT ![r] = "reset"] \/ \E code \in Replies : Send(r, code)
      BY <2>2 DEF Handle, TooLong, Refuse, Execute, Poll, Complete, Report, Heartbeat,
                  CreateSession, AppendSession, Replies
    <3>3. \A p \in Requests : p # r => reply'[p] = reply[p]
      BY <3>2, SendEffect
    <3>4. q = r
      BY <1>2, <3>3
    <3> QED BY <3>1, <3>4 DEF Reading
  <2>3. CASE Restart
    BY <1>2, <2>3 DEF Restart, Reading
  <2>4. ASSUME NEW f \in Followers, AddClient(f) \/ RemoveClient(f) PROVE FALSE
    BY <1>2, <2>4 DEF AddClient, RemoveClient
  <2>5. CASE UNCHANGED vars
    BY <1>2, <2>5 DEF vars
  <2> QED BY <2>1, <2>2, <2>3, <2>4, <2>5 DEF Next
<1> QED BY <1>1, <1>2

LEMMA JobIds == ASSUME TypeOK PROVE \A i \in DOMAIN jobs : jobs[i] \in Job /\ jobs[i].id \in Requests
BY ElementOfSeq, JobFields DEF TypeOK

LEMMA OriginStep ==
  ASSUME TypeOK, FreshInv, OriginInv, [Next]_vars
  PROVE  OriginInv'
<1> DEFINE From(i) == LET q == jobs'[i].id IN
             /\ reply'[q] \in {"200", "lost"}
             /\ req'[q] # None /\ req'[q].op = "execute" /\ req'[q].body = "good"
<1> SUFFICES ASSUME NEW i \in DOMAIN jobs' PROVE From(i)
  BY DEF OriginInv, Answered
<1>1. ASSUME i \in DOMAIN jobs, jobs'[i].id = jobs[i].id PROVE From(i)
  <2>1. jobs[i].id \in Requests
    BY <1>1, JobIds
  <2>2. Answered(jobs[i].id) /\ req[jobs[i].id] # None /\ req[jobs[i].id].op = "execute"
        /\ req[jobs[i].id].body = "good"
    BY <1>1 DEF OriginInv
  <2> QED BY <1>1, <2>1, <2>2, AnswersStay DEF Answered
<1>2. ASSUME NEW r \in Requests, Execute(r) PROVE From(i)
  <2>1. i \in DOMAIN jobs \/ i = Len(jobs) + 1
    BY <1>2, ExecuteEffect
  <2>2. CASE i \in DOMAIN jobs
    BY <1>1, <1>2, <2>2, ExecuteEffect
  <2>3. CASE i = Len(jobs) + 1
    BY <1>2, <2>3, ExecuteEffect DEF Reading
  <2> QED BY <2>1, <2>2, <2>3
<1>3. CASE \A r \in Requests : ~Execute(r)
  BY <1>1, <1>3, JobsKeepIds
<1> QED BY <1>2, <1>3

LEMMA JobsToldStep ==
  ASSUME TypeOK, FreshInv, OriginInv, JobsTold, [Next]_vars
  PROVE  JobsTold'
<1> DEFINE Kept(q) == reply[q] = "200" \/ (reply[q] = "lost" /\ req[q].body = "good")
           Keeps(q) == reply'[q] = "200" \/ (reply'[q] = "lost" /\ req'[q].body = "good")
<1>0. ASSUME \A q \in Requests : req'[q] # None /\ req'[q].op = "execute" =>
               ((\E i \in DOMAIN jobs' : jobs'[i].id = q) <=> Keeps(q)),
             \A i, k \in DOMAIN jobs' : jobs'[i].id = jobs'[k].id => i = k
      PROVE  JobsTold'
  BY <1>0 DEF JobsTold, Named
<1>1. \A q \in Requests : req[q] # None /\ req[q].op = "execute" =>
        ((\E i \in DOMAIN jobs : jobs[i].id = q) <=> Kept(q))
  BY DEF JobsTold, Named
<1>2. \A i, k \in DOMAIN jobs : jobs[i].id = jobs[k].id => i = k
  BY DEF JobsTold
<1>3. ASSUME NEW q \in Requests, reply[q] # "none", req'[q].op = "execute"
      PROVE  (\E i \in DOMAIN jobs : jobs[i].id = q) <=> Keeps(q)
  <2>1. req'[q] = req[q] /\ reply'[q] = reply[q] /\ req[q] # None
    BY <1>3, AnswersStay DEF FreshInv
  <2> QED BY <1>1, <1>3, <2>1
<1>4. ASSUME NEW q \in Requests, reply[q] = "none"
      PROVE  \A i \in DOMAIN jobs : jobs[i].id # q
  BY <1>4 DEF OriginInv, Answered
<1>5. ASSUME NEW q \in Requests, ~Execute(q), req'[q] # None, req'[q].op = "execute"
      PROVE  (\E i \in DOMAIN jobs : jobs[i].id = q) <=> Keeps(q)
  <2>1. CASE reply[q] # "none"
    BY <1>3, <1>5, <2>1
  <2>2. CASE reply[q] = "none"
    BY <1>4, <1>5, <2>2, NoOtherJob
  <2> QED BY <2>1, <2>2
<1>6. CASE \A r \in Requests : ~Execute(r)
  <2>1. DOMAIN jobs' = DOMAIN jobs /\ \A i \in DOMAIN jobs : jobs'[i].id = jobs[i].id
    BY <1>6, JobsKeepIds
  <2> QED BY <1>0, <1>2, <1>5, <1>6, <2>1
<1>7. ASSUME NEW r \in Requests, Execute(r) PROVE JobsTold'
  <2>1. /\ reply[r] = "none" /\ req'[r].body = "good" /\ reply'[r] \in {"200", "lost"}
        /\ \A q \in Requests : q # r => reply'[q] = reply[q]
        /\ req' = req /\ DOMAIN jobs' = DOMAIN jobs \cup {Len(jobs) + 1}
        /\ \A i \in DOMAIN jobs : jobs'[i] = jobs[i]
        /\ jobs'[Len(jobs) + 1].id = r
    BY <1>7, ExecuteEffect DEF Reading
  <2>2. \A i \in DOMAIN jobs : jobs[i].id # r
    BY <1>4, <2>1
  <2>3. \A i, k \in DOMAIN jobs' : jobs'[i].id = jobs'[k].id => i = k
    BY <1>2, <2>1, <2>2
  <2>4. ASSUME NEW q \in Requests, req'[q] # None, req'[q].op = "execute"
        PROVE  (\E i \in DOMAIN jobs' : jobs'[i].id = q) <=> Keeps(q)
    <3>1. CASE q = r
      BY <2>1, <3>1
    <3>2. CASE q # r
      <4>1. (\E i \in DOMAIN jobs' : jobs'[i].id = q) <=> (\E i \in DOMAIN jobs : jobs[i].id = q)
        BY <2>1, <3>2
      <4> QED BY <1>1, <2>1, <2>4, <3>2, <4>1
    <3> QED BY <3>1, <3>2
  <2> QED BY <1>0, <2>3, <2>4
<1> QED BY <1>6, <1>7

LEMMA TakerStep ==
  ASSUME TypeOK, FreshInv, TakerInv, [Next]_vars
  PROVE  TakerInv'
<1> DEFINE Taken(i) ==
             /\ jobs'[i].state = "running" => jobs'[i].taker # None
             /\ jobs'[i].taker # None => /\ reply'[jobs'[i].taker] \in {"200", "lost"}
                                         /\ given'[jobs'[i].taker] = jobs'[i].id
<1> SUFFICES ASSUME NEW i \in DOMAIN jobs' PROVE Taken(i)
  BY DEF TakerInv, Answered
<1>1. ASSUME i \in DOMAIN jobs, jobs'[i].id = jobs[i].id, jobs'[i].taker = jobs[i].taker,
             jobs'[i].state = "running" => jobs[i].state = "running"
      PROVE  Taken(i)
  <2>1. CASE jobs[i].taker = None
    BY <1>1, <2>1 DEF TakerInv
  <2>2. CASE jobs[i].taker # None
    <3>1. jobs[i].taker \in Requests
      BY <1>1, <2>2, JobIds, JobFields
    <3>2. Answered(jobs[i].taker) /\ given[jobs[i].taker] = jobs[i].id
      BY <1>1, <2>2 DEF TakerInv
    <3> QED BY <1>1, <3>1, <3>2, AnswersStay DEF Answered, TakerInv
  <2> QED BY <2>1, <2>2
<1>2. CASE UNCHANGED jobs
  BY <1>1, <1>2
<1>3. ASSUME NEW r \in Requests, Execute(r) PROVE Taken(i)
  <2>1. i \in DOMAIN jobs \/ i = Len(jobs) + 1
    BY <1>3, ExecuteEffect
  <2>2. CASE i \in DOMAIN jobs
    BY <1>1, <1>3, <2>2, ExecuteEffect
  <2>3. CASE i = Len(jobs) + 1
    BY <1>3, <2>3, ExecuteEffect
  <2> QED BY <2>1, <2>2, <2>3
<1>4. ASSUME NEW r \in Requests, Poll(r) PROVE Taken(i)
  <2>1. CASE UNCHANGED jobs
    BY <1>2, <2>1
  <2>2. ASSUME NEW k \in DOMAIN jobs, given' = [given EXCEPT ![r] = jobs[k].id],
               jobs' = [jobs EXCEPT ![k].state = "running", ![k].taker = r]
        PROVE  Taken(i)
    <3>1. /\ DOMAIN jobs' = DOMAIN jobs /\ jobs'[k].id = jobs[k].id /\ jobs'[k].taker = r
          /\ \A n \in DOMAIN jobs : n # k => jobs'[n] = jobs[n]
      BY <2>2, TakenEffect
    <3>2. CASE i # k
      BY <1>1, <3>1, <3>2
    <3>3. CASE i = k
      <4>1. reply'[r] \in {"200", "lost"}
        BY <1>4, SendEffect DEF Poll, Replies
      <4>2. given'[r] = jobs[k].id
        BY <2>2 DEF TypeOK
      <4>3. r # None
        BY HttpAssumption
      <4> QED BY <3>1, <3>3, <4>1, <4>2, <4>3
    <3> QED BY <3>2, <3>3
  <2> QED BY <1>4, <2>1, <2>2 DEF Poll, Queued
<1>5. ASSUME NEW r \in Requests, Complete(r) PROVE Taken(i)
  <2>1. CASE UNCHANGED jobs
    BY <1>2, <2>1
  <2>2. ASSUME NEW k \in DOMAIN jobs, jobs' = [jobs EXCEPT ![k].state = "done", ![k].by = r]
        PROVE  Taken(i)
    <3>1. /\ DOMAIN jobs' = DOMAIN jobs /\ jobs'[k].id = jobs[k].id
          /\ jobs'[k].taker = jobs[k].taker /\ jobs'[k].state = "done"
          /\ \A n \in DOMAIN jobs : n # k => jobs'[n] = jobs[n]
      BY <2>2, DoneEffect
    <3> QED BY <1>1, <3>1
  <2> QED BY <1>5, <2>1, <2>2 DEF Complete, Named, Report
<1>6. CASE Restart
  BY <1>1, <1>6, AgainEffect
<1>7. ASSUME NEW r \in Requests,
             Arrive(r) \/ TooLong(r) \/ Refuse(r) \/ Heartbeat(r) \/ CreateSession(r) \/ AppendSession(r)
      PROVE  UNCHANGED jobs
  BY <1>7 DEF Arrive, TooLong, Refuse, Heartbeat, CreateSession, AppendSession
<1>8. ASSUME NEW f \in Followers, AddClient(f) \/ RemoveClient(f) PROVE UNCHANGED jobs
  BY <1>8 DEF AddClient, RemoveClient
<1>9. CASE UNCHANGED vars
  BY <1>2, <1>9 DEF vars
<1> QED BY <1>2, <1>3, <1>4, <1>5, <1>6, <1>7, <1>8, <1>9 DEF Next, Handle

LEMMA ReportsStep ==
  ASSUME TypeOK, FreshInv, ReportsTold, [Next]_vars
  PROVE  ReportsTold'
<1> DEFINE Reported(i) == jobs'[i].state = "done" =>
             /\ jobs'[i].by \in Requests /\ reply'[jobs'[i].by] \in {"200", "lost"}
             /\ req'[jobs'[i].by].body = "good"
<1> SUFFICES ASSUME NEW i \in DOMAIN jobs' PROVE Reported(i)
  BY DEF ReportsTold, Answered
<1>1. ASSUME i \in DOMAIN jobs, jobs'[i].by = jobs[i].by,
             jobs'[i].state = "done" => jobs[i].state = "done"
      PROVE  Reported(i)
  <2> SUFFICES ASSUME jobs[i].state = "done" PROVE Reported(i)
    BY <1>1
  <2>1. jobs[i].by \in Requests /\ Answered(jobs[i].by) /\ req[jobs[i].by].body = "good"
    BY <1>1 DEF ReportsTold
  <2> QED BY <1>1, <2>1, AnswersStay DEF Answered
<1>2. CASE UNCHANGED jobs
  BY <1>1, <1>2
<1>3. ASSUME NEW r \in Requests, Execute(r) PROVE Reported(i)
  <2>1. i \in DOMAIN jobs \/ i = Len(jobs) + 1
    BY <1>3, ExecuteEffect
  <2>2. CASE i \in DOMAIN jobs
    BY <1>1, <1>3, <2>2, ExecuteEffect
  <2>3. CASE i = Len(jobs) + 1
    BY <1>3, <2>3, ExecuteEffect
  <2> QED BY <2>1, <2>2, <2>3
<1>4. ASSUME NEW r \in Requests, Poll(r) PROVE Reported(i)
  <2>1. CASE UNCHANGED jobs
    BY <1>2, <2>1
  <2>2. ASSUME NEW k \in DOMAIN jobs,
               jobs' = [jobs EXCEPT ![k].state = "running", ![k].taker = r]
        PROVE  Reported(i)
    <3>1. /\ DOMAIN jobs' = DOMAIN jobs /\ jobs'[k].state = "running"
          /\ \A n \in DOMAIN jobs : n # k => jobs'[n] = jobs[n]
      BY <2>2, TakenEffect
    <3> QED BY <1>1, <3>1
  <2> QED BY <1>4, <2>1, <2>2 DEF Poll, Queued
<1>5. ASSUME NEW r \in Requests, Complete(r) PROVE Reported(i)
  <2>1. CASE UNCHANGED jobs
    BY <1>2, <2>1
  <2>2. ASSUME NEW k \in DOMAIN jobs, Send(r, "200"),
               jobs' = [jobs EXCEPT ![k].state = "done", ![k].by = r]
        PROVE  Reported(i)
    <3>1. /\ DOMAIN jobs' = DOMAIN jobs /\ jobs'[k].by = r
          /\ \A n \in DOMAIN jobs : n # k => jobs'[n] = jobs[n]
      BY <2>2, DoneEffect
    <3>2. reply'[r] \in {"200", "lost"}
      BY <2>2, SendEffect DEF Replies
    <3>3. req'[r].body = "good"
      BY <1>5 DEF Complete, Handles, Accepts
    <3> QED BY <1>1, <3>1, <3>2, <3>3
  <2> QED BY <1>5, <2>1, <2>2 DEF Complete, Named, Report
<1>6. CASE Restart
  BY <1>1, <1>6, AgainEffect
<1>7. ASSUME NEW r \in Requests,
             Arrive(r) \/ TooLong(r) \/ Refuse(r) \/ Heartbeat(r) \/ CreateSession(r) \/ AppendSession(r)
      PROVE  UNCHANGED jobs
  BY <1>7 DEF Arrive, TooLong, Refuse, Heartbeat, CreateSession, AppendSession
<1>8. ASSUME NEW f \in Followers, AddClient(f) \/ RemoveClient(f) PROVE UNCHANGED jobs
  BY <1>8 DEF AddClient, RemoveClient
<1>9. CASE UNCHANGED vars
  BY <1>2, <1>9 DEF vars
<1> QED BY <1>2, <1>3, <1>4, <1>5, <1>6, <1>7, <1>8, <1>9 DEF Next, Handle

(* A note is new to its session: its request had no reply yet, and every   *)
(* note in a session has one.                                              *)
LEMMA NoteAdded ==
  ASSUME NEW s \in Seq(Requests), NEW r \in Requests,
         \A i, k \in DOMAIN s : s[i] = s[k] => i = k, \A i \in DOMAIN s : s[i] # r
  PROVE  /\ \A i, k \in DOMAIN Append(s, r) : Append(s, r)[i] = Append(s, r)[k] => i = k
         /\ \A i \in DOMAIN Append(s, r) :
              Append(s, r)[i] = r \/ \E k \in DOMAIN s : Append(s, r)[i] = s[k]
<1> DEFINE t == Append(s, r)
<1>1. PICK n \in Nat : n = Len(s) /\ DOMAIN s = 1..n
  OBVIOUS
<1>2. /\ Len(t) = n + 1 /\ t \in Seq(Requests)
      /\ \A i \in 1..n : t[i] = s[i]
      /\ t[n + 1] = r
  BY <1>1, AppendProperties
<1>3. DOMAIN t = 1..(n + 1)
  BY <1>2
<1> HIDE DEF t
<1>4. \A i \in DOMAIN t : i \in 1..n \/ i = n + 1
  BY <1>3
<1>5. \A i \in 1..n : t[i] # t[n + 1]
  BY <1>1, <1>2
<1>6. \A i, k \in 1..n : t[i] = t[k] => i = k
  BY <1>1, <1>2
<1>7. \A i, k \in DOMAIN t : t[i] = t[k] => i = k
  BY <1>4, <1>5, <1>6
<1>8. \A i \in DOMAIN t : t[i] = r \/ \E k \in DOMAIN s : t[i] = s[k]
  BY <1>1, <1>2, <1>4
<1> QED BY <1>7, <1>8 DEF t

LEMMA NotesStep ==
  ASSUME TypeOK, FreshInv, NotesTold, [Next]_vars
  PROVE  NotesTold'
<1> USE DEF TypeOK
<1> DEFINE Good(s, notes) ==
             /\ \A i, k \in DOMAIN notes : notes[i] = notes[k] => i = k
             /\ \A i \in DOMAIN notes :
                  /\ notes[i] \in Requests
                  /\ reply'[notes[i]] \in {"200", "lost"} /\ req'[notes[i]].id = s
                  /\ req'[notes[i]].body # "cut"
<1>0. ASSUME \A s \in DOMAIN sessions' : Good(s, sessions'[s]) PROVE NotesTold'
  BY <1>0 DEF NotesTold, Answered, IsInjective
<1>1. ASSUME NEW s \in DOMAIN sessions PROVE Good(s, sessions[s])
  <2>1. sessions[s] \in Seq(Requests)
    OBVIOUS
  <2>2. \A i \in DOMAIN sessions[s] : sessions[s][i] \in Requests
    BY <2>1, ElementOfSeq
  <2>3. ASSUME NEW i \in DOMAIN sessions[s]
        PROVE  /\ reply'[sessions[s][i]] \in {"200", "lost"} /\ req'[sessions[s][i]].id = s
               /\ req'[sessions[s][i]].body # "cut"
    <3>1. /\ reply[sessions[s][i]] \in {"200", "lost"} /\ req[sessions[s][i]].id = s
          /\ req[sessions[s][i]].body # "cut"
      BY DEF NotesTold, Answered
    <3> QED BY <2>2, <3>1, AnswersStay
  <2> QED BY <2>2, <2>3 DEF NotesTold, IsInjective
<1>2. CASE UNCHANGED sessions
  BY <1>0, <1>1, <1>2
<1>3. ASSUME NEW r \in Requests, CreateSession(r) PROVE NotesTold'
  <2>1. sessions' = [s \in DOMAIN sessions \cup {r} |-> IF s = r THEN <<>> ELSE sessions[s]]
    BY <1>3 DEF CreateSession
  <2>2. ASSUME NEW s \in DOMAIN sessions' PROVE Good(s, sessions'[s])
    <3>1. CASE s = r
      <4>1. DOMAIN sessions'[s] = {}
        BY <2>1, <3>1, EmptySeq
      <4> QED BY <4>1
    <3>2. CASE s # r
      BY <1>1, <2>1, <3>2
    <3> QED BY <3>1, <3>2
  <2> QED BY <1>0, <2>2
<1>4. ASSUME NEW r \in Requests, AppendSession(r) PROVE NotesTold'
  <2>1. CASE UNCHANGED sessions
    BY <1>2, <2>1
  <2>2. CASE /\ req[r].id \in DOMAIN sessions /\ Send(r, "200")
             /\ sessions' = [sessions EXCEPT ![req[r].id] = Append(@, r)]
    <3> DEFINE old == sessions[req[r].id]
    <3>1. old \in Seq(Requests) /\ Good(req[r].id, old)
      BY <1>1, <2>2
    <3>2. reply[r] = "none" /\ req' = req /\ req[r].body # "cut"
      BY <1>4 DEF AppendSession, Handles, Reading, Accepts
    <3>3. ASSUME NEW i \in DOMAIN old PROVE old[i] # r
      <4>1. Answered(sessions[req[r].id][i])
        BY <2>2 DEF NotesTold
      <4> QED BY <3>2, <4>1 DEF Answered
    <3>4. reply'[r] \in {"200", "lost"}
      BY <2>2, SendEffect DEF Replies
    <3>5. /\ \A i, k \in DOMAIN Append(old, r) : Append(old, r)[i] = Append(old, r)[k] => i = k
          /\ \A i \in DOMAIN Append(old, r) :
               Append(old, r)[i] = r \/ \E k \in DOMAIN old : Append(old, r)[i] = old[k]
      BY <3>1, <3>3, NoteAdded
    <3>6. \A k \in DOMAIN old :
            /\ old[k] \in Requests
            /\ reply'[old[k]] \in {"200", "lost"} /\ req'[old[k]].id = req[r].id
            /\ req'[old[k]].body # "cut"
      BY <3>1
    <3>7. ASSUME NEW i \in DOMAIN Append(old, r)
          PROVE  /\ Append(old, r)[i] \in Requests
                 /\ reply'[Append(old, r)[i]] \in {"200", "lost"}
                 /\ req'[Append(old, r)[i]].id = req[r].id
                 /\ req'[Append(old, r)[i]].body # "cut"
      <4>1. CASE Append(old, r)[i] = r
        BY <3>2, <3>4, <4>1
      <4>2. CASE \E k \in DOMAIN old : Append(old, r)[i] = old[k]
        BY <3>6, <4>2
      <4> QED BY <3>5, <4>1, <4>2
    <3>8. Good(req[r].id, Append(old, r))
      BY <3>5, <3>7
    <3>9. /\ DOMAIN sessions' = DOMAIN sessions /\ sessions'[req[r].id] = Append(old, r)
          /\ \A s \in DOMAIN sessions : s # req[r].id => sessions'[s] = sessions[s]
      BY <2>2
    <3>10. ASSUME NEW s \in DOMAIN sessions' PROVE Good(s, sessions'[s])
      <4>1. CASE s = req[r].id
        BY <3>8, <3>9, <4>1
      <4>2. CASE s # req[r].id
        <5>1. s \in DOMAIN sessions /\ sessions'[s] = sessions[s]
          BY <3>9, <4>2
        <5>2. Good(s, sessions[s])
          BY <1>1, <5>1
        <5> HIDE DEF Good
        <5> QED BY <5>1, <5>2
      <4> QED BY <4>1, <4>2
    <3> QED BY <1>0, <3>10
  <2> QED BY <1>4, <2>1, <2>2 DEF AppendSession
<1>5. CASE Restart
  BY <1>0, <1>5 DEF Restart
<1>6. ASSUME NEW r \in Requests,
             Arrive(r) \/ TooLong(r) \/ Refuse(r) \/ Execute(r) \/ Poll(r) \/ Complete(r) \/ Heartbeat(r)
      PROVE  UNCHANGED sessions
  BY <1>6 DEF Arrive, TooLong, Refuse, Execute, Poll, Complete, Heartbeat
<1>7. ASSUME NEW f \in Followers, AddClient(f) \/ RemoveClient(f) PROVE UNCHANGED sessions
  BY <1>7 DEF AddClient, RemoveClient
<1>8. CASE UNCHANGED vars
  BY <1>2, <1>8 DEF vars
<1> QED BY <1>2, <1>3, <1>4, <1>5, <1>6, <1>7, <1>8 DEF Next, Handle

(* Together they are inductive.                                            *)
LEMMA RepliesInit == ASSUME Init PROVE RepliesInv /\ StreamTellsState
<1>1. DOMAIN jobs = {} /\ DOMAIN sessions = {} /\ clients = {}
  BY EmptySeq DEF Init
<1>2. FreshInv /\ OriginInv /\ TakerInv /\ ReportsTold /\ NotesTold /\ StreamTellsState
  BY <1>1 DEF Init, FreshInv, OriginInv, TakerInv, ReportsTold, NotesTold, StreamTellsState
<1>3. JobsTold
  BY <1>1 DEF Init, JobsTold
<1> QED BY <1>2, <1>3 DEF RepliesInv

LEMMA RepliesStep == ASSUME TypeOK, RepliesInv, [Next]_vars PROVE RepliesInv'
BY FreshStep, OriginStep, JobsToldStep, TakerStep, ReportsStep, NotesStep DEF RepliesInv

LEMMA RepliesInvariant == Spec => [](TypeOK /\ RepliesInv)
<1>1. Init => TypeOK /\ RepliesInv
  BY TypeInit, RepliesInit
<1>2. TypeOK /\ RepliesInv /\ [Next]_vars => (TypeOK /\ RepliesInv)'
  BY TypeStep, RepliesStep
<1> QED BY <1>1, <1>2, PTL DEF Spec

(* Two running jobs with one taker would both be the job that poll was     *)
(* given; ids are unique, so they are one job.                             *)
LEMMA TakersFollow == ASSUME TypeOK, RepliesInv PROVE TakersTold
<1> SUFFICES ASSUME NEW i \in DOMAIN jobs, jobs[i].state = "running"
             PROVE  /\ jobs[i].taker \in Requests /\ Answered(jobs[i].taker)
                    /\ given[jobs[i].taker] = jobs[i].id
                    /\ \A k \in DOMAIN jobs : k # i => jobs[k].taker # jobs[i].taker
  BY DEF TakersTold
<1>1. jobs[i].taker # None /\ jobs[i].taker \in Requests
  BY JobIds, JobFields DEF RepliesInv, TakerInv
<1>2. Answered(jobs[i].taker) /\ given[jobs[i].taker] = jobs[i].id
  BY <1>1 DEF RepliesInv, TakerInv
<1>3. ASSUME NEW k \in DOMAIN jobs, jobs[k].taker = jobs[i].taker PROVE k = i
  <2>1. given[jobs[k].taker] = jobs[k].id
    BY <1>1, <1>3 DEF RepliesInv, TakerInv
  <2> QED BY <1>2, <1>3, <2>1 DEF RepliesInv, JobsTold
<1> QED BY <1>1, <1>2, <1>3

(* What a client reads off its reply holds of the books after any later    *)
(* step, for any number of clients, restarts and lost replies.             *)
THEOREM RepliesAreHonest == Spec => []RepliesTellEffects
<1>1. TypeOK /\ RepliesInv => RepliesTellEffects
  BY TakersFollow DEF RepliesInv, RepliesTellEffects
<1> QED BY <1>1, RepliesInvariant, PTL

(* Whatever a follower missed before it connected, the last row it has on  *)
(* a job tells the state of the job.                                       *)
THEOREM StreamIsTrue == Spec => []StreamTellsState
<1>1. Init => StreamTellsState
  BY RepliesInit
<1>2. TypeOK /\ RepliesInv /\ StreamTellsState /\ [Next]_vars => StreamTellsState'
  BY StreamStep DEF RepliesInv
<1> QED BY <1>1, <1>2, RepliesInvariant, PTL DEF Spec
=============================================================================
