------------------------------ MODULE RelayHttp ------------------------------
(***************************************************************************)
(* The HTTP face of the connector's relay (server.js with session.js,      *)
(* stream.js, auth.js and validate.js) over its jobs: what a request does  *)
(* when its body is whole, wrong, too long or cut off, and what a follower *)
(* of GET /events is told. The relay handles a request in one turn once    *)
(* its body has ended. Jobs survive a restart (AgentRelay models the log   *)
(* they come back from, here taken to be whole); sessions do not.          *)
(***************************************************************************)
EXTENDS Naturals, Sequences, Functions

CONSTANTS Requests, Followers, None, MaxRestarts

Ops == {"execute", "poll", "complete", "heartbeat", "open", "note"}
(* good; invalid: JSON that validate.js refuses; garbled: no JSON; toolong: *)
(* over maxBodyBytes; cut: the connection broke first; stranger: bad token. *)
Bodies == {"good", "invalid", "garbled", "toolong", "cut", "stranger"}

(* null is none of the values it stands in for.                            *)
ASSUME HttpAssumption ==
  /\ MaxRestarts \in Nat
  /\ None \notin Requests /\ None \notin [op : Ops, body : Bodies, id : Requests]

VARIABLES
  req,       (* what each request asks: op, body, the id it names; or None *)
  reply,     (* none, 200, 400, 401, 404; reset: no reply was sent; lost:  *)
             (* a reply was sent to a connection that was gone             *)
  given,     (* the job a poll was answered with, or None                  *)
  jobs,      (* in order: the request that created it, state, last taker   *)
             (* and last reporter                                          *)
  sessions,  (* the request that opened it -> its history                  *)
  clients,   (* the followers connected to GET /events                     *)
  stream,    (* the rows each was sent over this connection                *)
  restarts

vars == <<req, reply, given, jobs, sessions, clients, stream, restarts>>

JobRows == {"job_created", "job_started", "job_completed"}
Job == [id : Requests, state : {"queued", "running", "done"},
        taker : Requests \cup {None}, by : Requests \cup {None}]

TypeOK ==
  /\ req \in [Requests -> [op : Ops, body : Bodies, id : Requests] \cup {None}]
  /\ reply \in [Requests -> {"none", "200", "400", "401", "404", "reset", "lost"}]
  /\ given \in [Requests -> Requests \cup {None}]
  /\ jobs \in Seq(Job)
  /\ DOMAIN sessions \subseteq Requests /\ sessions \in [DOMAIN sessions -> Seq(Requests)]
  /\ clients \subseteq Followers
  /\ stream \in [Followers -> Seq([type : JobRows \cup {"agent_heartbeat"}, id : Requests])]
  /\ restarts \in 0..MaxRestarts

Init ==
  /\ req = [r \in Requests |-> None] /\ reply = [r \in Requests |-> "none"]
  /\ given = [r \in Requests |-> None]
  /\ jobs = <<>> /\ sessions = [s \in {} |-> <<>>]
  /\ clients = {} /\ stream = [f \in Followers |-> <<>>] /\ restarts = 0

Reading(r) == req[r] # None /\ reply[r] = "none"

(* publish: a row to every connected follower.                             *)
Publish(type, id) ==
  stream' = [f \in Followers |->
               IF f \in clients THEN Append(stream[f], [type |-> type, id |-> id]) ELSE stream[f]]

(* send: a client may have gone without its request being cut.             *)
Send(r, code) ==
  \E answer \in IF req[r].body = "cut" THEN {"lost"} ELSE {code, "lost"} :
    reply' = [reply EXCEPT ![r] = answer]

(* The request arrives; a bad token is answered before the body is read.   *)
Arrive(r) ==
  /\ req[r] = None
  /\ \E op \in Ops, body \in Bodies, id \in Requests :
       /\ op \notin {"complete", "note"} => id = r
       /\ req' = [req EXCEPT ![r] = [op |-> op, body |-> body, id |-> id]]
       /\ reply' = IF body = "stranger" THEN [reply EXCEPT ![r] = "401"] ELSE reply
  /\ UNCHANGED <<given, jobs, sessions, clients, stream, restarts>>

(* A body over the limit: the socket is destroyed and no handler runs.     *)
TooLong(r) ==
  /\ Reading(r) /\ req[r].body = "toolong"
  /\ reply' = [reply EXCEPT ![r] = "reset"]
  /\ UNCHANGED <<req, given, jobs, sessions, clients, stream, restarts>>

(* readJson and validate.js: sessions take any JSON, and /poll looks at    *)
(* no error.                                                               *)
AcceptsCut(r) ==   (* mutant: /execute, too, looks at no error *)
  req[r].body \in IF req[r].op \in {"poll", "execute"} THEN {"good", "invalid", "garbled", "cut"}
                  ELSE IF req[r].op \in {"open", "note"} THEN {"good", "invalid"} ELSE {"good"}
Accepts(r) ==
  req[r].body \in CASE req[r].op = "poll" -> {"good", "invalid", "garbled", "cut"}
                    [] req[r].op \in {"open", "note"} -> {"good", "invalid"}
                    [] OTHER -> {"good"}
Handles(r, op) ==
  Reading(r) /\ req[r].body # "toolong" /\ req[r].op = op /\ Accepts(r)
Refuse(r) ==
  /\ Reading(r) /\ req[r].body # "toolong" /\ ~Accepts(r)
  /\ Send(r, "400")
  /\ UNCHANGED <<req, given, jobs, sessions, clients, stream, restarts>>

-----------------------------------------------------------------------------
Execute(r) ==
  /\ Handles(r, "execute")
  /\ jobs' = Append(jobs, [id |-> r, state |-> "queued", taker |-> None, by |-> None])
  /\ Publish("job_created", r) /\ Send(r, "200")
  /\ UNCHANGED <<req, given, sessions, clients, restarts>>

(* nextJob: the oldest queued job, or none.                                *)
Queued == {i \in DOMAIN jobs : jobs[i].state = "queued"}
Poll(r) ==
  /\ Handles(r, "poll")
  /\ \/ Queued = {} /\ UNCHANGED <<jobs, stream, given>>
     \/ \E i \in Queued :
          /\ \A k \in Queued : i <= k
          /\ jobs' = [jobs EXCEPT ![i].state = "running", ![i].taker = r]
          /\ Publish("job_started", jobs[i].id)
          /\ given' = [given EXCEPT ![r] = jobs[i].id]
  /\ Send(r, "200")
  /\ UNCHANGED <<req, sessions, clients, restarts>>

(* completeJob: the map's job of that id, if it is there.                  *)
Named(id) == {i \in DOMAIN jobs : jobs[i].id = id}
Report(r, i) ==
  /\ jobs' = [jobs EXCEPT ![i].state = "done", ![i].by = r]
  /\ Send(r, "200")
CompleteUnseen(r) ==   (* mutant: the row goes out before the job is looked up *)
  /\ Handles(r, "complete")
  /\ \/ Named(req[r].id) = {} /\ Send(r, "404") /\ UNCHANGED jobs
     \/ \E i \in Named(req[r].id) : Report(r, i)
  /\ Publish("job_completed", req[r].id)
  /\ UNCHANGED <<req, given, sessions, clients, restarts>>
Complete(r) ==
  /\ Handles(r, "complete")
  /\ \/ Named(req[r].id) = {} /\ Send(r, "404") /\ UNCHANGED <<jobs, stream>>
     \/ \E i \in Named(req[r].id) : Report(r, i) /\ Publish("job_completed", req[r].id)
  /\ UNCHANGED <<req, given, sessions, clients, restarts>>

Heartbeat(r) ==
  /\ Handles(r, "heartbeat")
  /\ Publish("agent_heartbeat", r) /\ Send(r, "200")
  /\ UNCHANGED <<req, given, jobs, sessions, clients, restarts>>

CreateSession(r) ==
  /\ Handles(r, "open")
  /\ sessions' = [s \in DOMAIN sessions \cup {r} |-> IF s = r THEN <<>> ELSE sessions[s]]
  /\ Send(r, "200")
  /\ UNCHANGED <<req, given, jobs, clients, stream, restarts>>

AppendSession(r) ==
  /\ Handles(r, "note")
  /\ IF req[r].id \notin DOMAIN sessions THEN Send(r, "404") /\ UNCHANGED sessions
     ELSE sessions' = [sessions EXCEPT ![req[r].id] = Append(@, r)] /\ Send(r, "200")
  /\ UNCHANGED <<req, given, jobs, clients, stream, restarts>>

-----------------------------------------------------------------------------
AddClient(f) ==
  /\ f \notin clients
  /\ clients' = clients \cup {f} /\ stream' = [stream EXCEPT ![f] = <<>>]
  /\ UNCHANGED <<req, reply, given, jobs, sessions, restarts>>
RemoveClient(f) ==
  /\ f \in clients /\ clients' = clients \ {f}
  /\ UNCHANGED <<req, reply, given, jobs, sessions, stream, restarts>>

(* The relay ends and starts: requests being read and followers lose their *)
(* connection, sessions are gone, running jobs are queued again.           *)
Restart ==
  /\ restarts < MaxRestarts /\ restarts' = restarts + 1
  /\ reply' = [r \in Requests |-> IF Reading(r) THEN "reset" ELSE reply[r]]
  /\ jobs' = [i \in DOMAIN jobs |->
                IF jobs[i].state = "running" THEN [jobs[i] EXCEPT !.state = "queued"] ELSE jobs[i]]
  /\ sessions' = [s \in {} |-> <<>>] /\ clients' = {}
  /\ UNCHANGED <<req, given, stream>>

Handle(r) ==
  \/ TooLong(r) \/ Refuse(r)
  \/ Execute(r) \/ Poll(r) \/ Complete(r) \/ Heartbeat(r) \/ CreateSession(r) \/ AppendSession(r)
Next ==
  \/ \E r \in Requests : Arrive(r) \/ Handle(r)
  \/ \E f \in Followers : AddClient(f) \/ RemoveClient(f)
  \/ Restart

Spec == Init /\ [][Next]_vars

-----------------------------------------------------------------------------
(* What a client may conclude from its reply, from the books after any     *)
(* later step: 200 to an /execute means one job in the books, a refusal or *)
(* a reset none, and a reply lost on a connection that broke after the     *)
(* body, one; one that broke within the body makes no job.                 *)
Answered(r) == reply[r] \in {"200", "lost"}
JobsTold ==
  /\ \A r \in Requests : req[r] # None /\ req[r].op = "execute" =>
       (Named(r) # {} <=> reply[r] = "200" \/ (reply[r] = "lost" /\ req[r].body = "good"))
  /\ \A i, k \in DOMAIN jobs : jobs[i].id = jobs[k].id => i = k
(* A job that runs was given to the poll that is its taker and to no other *)
(* job's, and that poll was answered with it or its answer lost.           *)
TakersTold ==
  \A i \in DOMAIN jobs : jobs[i].state = "running" =>
    /\ jobs[i].taker \in Requests /\ Answered(jobs[i].taker)
    /\ given[jobs[i].taker] = jobs[i].id
    /\ \A k \in DOMAIN jobs : k # i => jobs[k].taker # jobs[i].taker
ReportsTold ==
  \A i \in DOMAIN jobs : jobs[i].state = "done" =>
    jobs[i].by \in Requests /\ Answered(jobs[i].by) /\ req[jobs[i].by].body = "good"
(* A session holds the notes answered 200 or lost since it was opened, each*)
(* once.                                                                   *)
NotesTold ==
  \A s \in DOMAIN sessions :
    /\ IsInjective(sessions[s])
    /\ \A i \in DOMAIN sessions[s] : LET r == sessions[s][i] IN
         Answered(r) /\ req[r].id = s /\ req[r].body # "cut"
RepliesTellEffects == JobsTold /\ TakersTold /\ ReportsTold /\ NotesTold

(* The books behind it, as an inductive invariant: a reply is to a request *)
(* that came, a job comes from an /execute that was accepted, and a poll   *)
(* recorded as a taker was given that job.                                 *)
FreshInv == \A r \in Requests : reply[r] # "none" => req[r] # None
OriginInv ==
  \A i \in DOMAIN jobs : LET r == jobs[i].id IN
    Answered(r) /\ req[r] # None /\ req[r].op = "execute" /\ req[r].body = "good"
TakerInv ==
  \A i \in DOMAIN jobs :
    /\ jobs[i].state = "running" => jobs[i].taker # None
    /\ jobs[i].taker # None =>
         Answered(jobs[i].taker) /\ given[jobs[i].taker] = jobs[i].id
RepliesInv == FreshInv /\ JobsTold /\ OriginInv /\ TakerInv /\ ReportsTold /\ NotesTold

(* The last row a connected follower has on a job tells the job's state,   *)
(* whatever the follower missed before it connected and whoever polled,    *)
(* reported twice or reported a job nobody had taken.                      *)
StateTold(type) ==
  CASE type = "job_created" -> "queued"
    [] type = "job_started" -> "running"
    [] type = "job_completed" -> "done"
LastOfItsJob(rows, n) ==
  /\ rows[n].type \in JobRows
  /\ \A k \in DOMAIN rows : k > n /\ rows[k].type \in JobRows => rows[k].id # rows[n].id
StreamTellsState ==
  \A f \in clients : \A n \in DOMAIN stream[f] : LastOfItsJob(stream[f], n) =>
    \E i \in Named(stream[f][n].id) : jobs[i].state = StateTold(stream[f][n].type)
=============================================================================
