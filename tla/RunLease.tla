------------------------------- MODULE RunLease -------------------------------
(***************************************************************************)
(* The run loop of services/haiku-daemon: several workflow runs, one       *)
(* published status.json that doubles as the lease, the 30-minute watchdog *)
(* schedule, the takeover dispatched before the runner cap, and the        *)
(* conditional (sha-guarded) writes that let a predecessor notice that it  *)
(* was superseded.                                                         *)
(*                                                                         *)
(* Time is a set of ages advanced together by Tick: the age of the         *)
(* published record, the age of every run and of its last status write.    *)
(* Nothing forces a run to act before time passes, because a run may wait  *)
(* in its write pacer or in a model call for as long as it takes.          *)
(***************************************************************************)
EXTENDS Naturals

CONSTANTS
  Runs,            (* workflow runs; an id is reused only once nobody holds it *)
  NoRun,           (* status.json does not exist                              *)
  StaleAfter,      (* staleMs: a record this old belongs to a dead run        *)
  StatusEvery,     (* statusEveryMs: status period after new answers          *)
  IdleStatusEvery, (* idleStatusEveryMs: status period when nothing changed   *)
  HandoffAfter,    (* handoffAfterMs: age at which the successor is dispatched*)
  MaxRun,          (* maxRunMs: age at which a run stops by itself            *)
  ForceHonoured,   (* TRUE: LocalPublisher, whose force overwrites;
                      FALSE: GitHubPublisher, which ignores force             *)
  MaxFaults,       (* bound: crashes and failed lease reads                   *)
  MaxQueued        (* bound: dispatched successors not started yet            *)

ASSUME RunsAssumption  == NoRun \notin Runs
ASSUME TimesAssumption ==
  /\ StaleAfter \in Nat /\ StatusEvery \in Nat /\ IdleStatusEvery \in Nat
  /\ HandoffAfter \in Nat /\ MaxRun \in Nat
ASSUME BoundsAssumption ==
  /\ ForceHonoured \in BOOLEAN
  /\ MaxFaults \in Nat /\ MaxQueued \in Nat

VARIABLES
  record,     (* the published status.json: its run_id, whether its state is
                 `stopped`, and the age of its updated_at                     *)
  pc,         (* where each run is in the workflow steps and in runDaemon     *)
  holders,    (* the runs whose remembered sha is the sha of the current file *)
  takeover,   (* r was started with takeover=true                             *)
  elapsed,    (* age of the run, capped at MaxRun                             *)
  since,      (* age of its last status write, capped at IdleStatusEvery      *)
  dispatched, (* r has dispatched its successor                               *)
  queued,     (* takeover runs dispatched and not started yet                 *)
  faults

vars == <<record, pc, holders, takeover, elapsed, since, dispatched, queued, faults>>

Locations == {"off", "boot", "reset", "read", "claim",
              "loop", "tick", "look", "write", "reread", "drain"}

(* The run answers the queue: everything between its claim and its exit.   *)
Serving(r)   == pc[r] \in {"loop", "tick", "look", "write", "reread", "drain"}
(* service.accepting: it also pulls new requests from the wires.           *)
Accepting(r) == Serving(r) /\ pc[r] # "drain"

Min2(a, b) == IF a <= b THEN a ELSE b

(* Mutant: a lease that never goes stale.                                  *)
FreshForever == record.run # NoRun /\ ~record.stopped

Fresh == record.run # NoRun /\ record.age < StaleAfter /\ ~record.stopped

LeaseRecord == [run: Runs \cup {NoRun}, stopped: BOOLEAN, age: 0..StaleAfter]

TypeOK ==
  /\ record \in LeaseRecord
  /\ pc \in [Runs -> Locations]
  /\ holders \in SUBSET Runs
  /\ takeover \in [Runs -> BOOLEAN]
  /\ elapsed \in [Runs -> 0..MaxRun]
  /\ since \in [Runs -> 0..IdleStatusEvery]
  /\ dispatched \in [Runs -> BOOLEAN]
  /\ queued \in 0..MaxQueued
  /\ faults \in 0..MaxFaults

Init ==
  /\ record = [run |-> NoRun, stopped |-> FALSE, age |-> 0]
  /\ pc = [r \in Runs |-> "off"]
  /\ holders = {}
  /\ takeover = [r \in Runs |-> FALSE]
  /\ elapsed = [r \in Runs |-> 0]
  /\ since = [r \in Runs |-> 0]
  /\ dispatched = [r \in Runs |-> FALSE]
  /\ queued = 0
  /\ faults = 0

-----------------------------------------------------------------------------
(* The file as a store with a version: a successful write makes every      *)
(* remembered sha old but the writer's own.                                *)
Publish(r, stopped) ==
  /\ record' = [run |-> r, stopped |-> stopped, age |-> 0]
  /\ holders' = {r}

Goto(r, l) == pc' = [pc EXCEPT ![r] = l]

(* A new workflow run with an id no file and no process refers to.         *)
Start(r, asSuccessor) ==
  /\ pc[r] = "off" /\ record.run # r
  /\ Goto(r, "boot")
  /\ holders' = holders \ {r}
  /\ takeover' = [takeover EXCEPT ![r] = asSuccessor]
  /\ elapsed' = [elapsed EXCEPT ![r] = 0]
  /\ since' = [since EXCEPT ![r] = 0]
  /\ dispatched' = [dispatched EXCEPT ![r] = FALSE]
  /\ UNCHANGED <<record, faults>>

(* The `7,37 * * * *` schedule.                                            *)
Watchdog(r) == Start(r, FALSE) /\ UNCHANGED queued

(* The run a predecessor dispatched with takeover=true.                    *)
Successor(r) == queued > 0 /\ Start(r, TRUE) /\ queued' = queued - 1

(* Workflow step: is there a status branch, and is this a takeover? (A     *)
(* local publisher has no branch and no such step.)                        *)
CheckBranch(r) ==
  /\ pc[r] = "boot"
  /\ Goto(r, IF ~ForceHonoured /\ (takeover[r] \/ record.run = NoRun)
               THEN "reset" ELSE "read")
  /\ UNCHANGED <<record, holders, takeover, elapsed, since, dispatched, queued, faults>>

(* Workflow step: force-push a one-commit branch naming this run. The      *)
(* daemon has not read the file yet, so it remembers no sha.               *)
ResetBranch(r) ==
  /\ pc[r] = "reset"
  /\ Goto(r, "read")
  /\ record' = [run |-> r, stopped |-> FALSE, age |-> 0]
  /\ holders' = {}
  /\ UNCHANGED <<takeover, elapsed, since, dispatched, queued, faults>>

(* publisher.read(), then stand by while another run's lease is fresh.     *)
ReadLease(r) ==
  /\ pc[r] = "read"
  /\ holders' = holders \cup {r}
  /\ Goto(r, IF Fresh /\ record.run # r /\ ~takeover[r] THEN "off" ELSE "claim")
  /\ UNCHANGED <<record, takeover, elapsed, since, dispatched, queued, faults>>

(* publisher.read().catch(() => null): the run goes on without a sha.      *)
ReadLeaseFails(r) ==
  /\ pc[r] = "read" /\ faults < MaxFaults
  /\ holders' = IF record.run = NoRun THEN holders \cup {r} ELSE holders \ {r}
  /\ Goto(r, "claim")
  /\ faults' = faults + 1
  /\ UNCHANGED <<record, takeover, elapsed, since, dispatched, queued>>

(* Mutant: the claim ignores the sha under every publisher.                *)
ClaimForced(r) ==
  /\ pc[r] = "claim"
  /\ Publish(r, FALSE) /\ Goto(r, "loop")
  /\ since' = [since EXCEPT ![r] = 0]
  /\ UNCHANGED <<takeover, elapsed, dispatched, queued, faults>>

(* write(status, {force: true}). GitHubPublisher has no force: a sha that  *)
(* is not current is a Conflict, which leaves runDaemon and ends the run.  *)
Claim(r) ==
  /\ pc[r] = "claim"
  /\ IF r \in holders \/ ForceHonoured
       THEN Publish(r, FALSE) /\ Goto(r, "loop")
       ELSE Goto(r, "off") /\ UNCHANGED <<record, holders>>
  /\ since' = [since EXCEPT ![r] = 0]
  /\ UNCHANGED <<takeover, elapsed, dispatched, queued, faults>>

(* Top of the loop: dispatch the successor once; a failure is only logged. *)
Dispatch(r) ==
  /\ pc[r] = "loop" /\ ~dispatched[r] /\ elapsed[r] >= HandoffAfter
  /\ dispatched' = [dispatched EXCEPT ![r] = TRUE]
  /\ \/ queued < MaxQueued /\ queued' = queued + 1
     \/ UNCHANGED queued
  /\ UNCHANGED <<record, pc, holders, takeover, elapsed, since, faults>>

AtLoop(r) == pc[r] = "loop" /\ (dispatched[r] \/ elapsed[r] < HandoffAfter)

(* Mutant: the final `stopped` is written unconditionally.                 *)
StopForced(r) ==
  /\ AtLoop(r) /\ elapsed[r] >= MaxRun
  /\ Goto(r, "off") /\ Publish(r, TRUE)
  /\ UNCHANGED <<takeover, elapsed, since, dispatched, queued, faults>>

(* finish('stopped'): one conditional write, its errors swallowed.         *)
Stop(r) ==
  /\ AtLoop(r) /\ elapsed[r] >= MaxRun
  /\ Goto(r, "off")
  /\ IF r \in holders THEN Publish(r, TRUE) ELSE UNCHANGED <<record, holders>>
  /\ UNCHANGED <<takeover, elapsed, since, dispatched, queued, faults>>

(* service.tick() begins.                                                  *)
ServiceTick(r) ==
  /\ AtLoop(r) /\ elapsed[r] < MaxRun
  /\ Goto(r, "tick")
  /\ UNCHANGED <<record, holders, takeover, elapsed, since, dispatched, queued, faults>>

Due(r, changed) ==
  \/ since[r] >= IF changed THEN StatusEvery ELSE IdleStatusEvery
  \/ dispatched[r] /\ since[r] >= StatusEvery

(* After the tick: a status write may be due, and during an overlap the    *)
(* run first looks for its successor.                                      *)
AfterTick(r) ==
  /\ pc[r] = "tick"
  /\ \E changed \in BOOLEAN :
       Goto(r, IF ~Due(r, changed) THEN "loop"
               ELSE IF dispatched[r] THEN "look" ELSE "write")
  /\ UNCHANGED <<record, holders, takeover, elapsed, since, dispatched, queued, faults>>

Superseded(r) == record.run \notin {NoRun, r}

(* Mutant: the overlap read is made, its run_id is not compared.           *)
LookAndWrite(r) ==
  /\ pc[r] = "look"
  /\ holders' = holders \cup {r}
  /\ Goto(r, "write")
  /\ UNCHANGED <<record, takeover, elapsed, since, dispatched, queued, faults>>

(* The read before the write while a successor may be starting: it also    *)
(* refreshes the remembered sha.                                           *)
Look(r) ==
  /\ pc[r] = "look"
  /\ holders' = holders \cup {r}
  /\ Goto(r, IF Superseded(r) THEN "drain" ELSE "write")
  /\ UNCHANGED <<record, takeover, elapsed, since, dispatched, queued, faults>>

(* After writePacer.acquire(), which may have slept: the conditional write.*)
WriteStatus(r) ==
  /\ pc[r] = "write"
  /\ IF r \in holders
       THEN /\ Publish(r, FALSE) /\ Goto(r, "loop")
            /\ since' = [since EXCEPT ![r] = 0]
       ELSE Goto(r, "reread") /\ UNCHANGED <<record, holders, since>>
  /\ UNCHANGED <<takeover, elapsed, dispatched, queued, faults>>

(* Mutant: a Conflict only refreshes the sha.                              *)
RereadOnly(r) ==
  /\ pc[r] = "reread"
  /\ holders' = holders \cup {r}
  /\ Goto(r, "loop") /\ since' = [since EXCEPT ![r] = 0]
  /\ UNCHANGED <<record, takeover, elapsed, dispatched, queued, faults>>

(* A Conflict: read again; drain out if the record names another run.      *)
Reread(r) ==
  /\ pc[r] = "reread"
  /\ holders' = holders \cup {r}
  /\ IF Superseded(r)
       THEN Goto(r, "drain") /\ UNCHANGED since
       ELSE Goto(r, "loop") /\ since' = [since EXCEPT ![r] = 0]
  /\ UNCHANGED <<record, takeover, elapsed, dispatched, queued, faults>>

(* handedOff(): accepting is already false, drain the queue and exit. The  *)
(* state `handed_off` is never published.                                  *)
DrainOut(r) ==
  /\ pc[r] = "drain"
  /\ Goto(r, "off")
  /\ UNCHANGED <<record, holders, takeover, elapsed, since, dispatched, queued, faults>>

(* A lost runner, a failed workflow step, or an error runDaemon does not   *)
(* catch (a wire write, a poll, a status read or write).                   *)
Crash(r) ==
  /\ pc[r] # "off" /\ faults < MaxFaults
  /\ Goto(r, "off")
  /\ faults' = faults + 1
  /\ UNCHANGED <<record, holders, takeover, elapsed, since, dispatched, queued>>

Tick ==
  /\ record' = [record EXCEPT !.age = Min2(@ + 1, StaleAfter)]
  /\ elapsed' = [r \in Runs |-> Min2(elapsed[r] + 1, MaxRun)]
  /\ since' = [r \in Runs |-> Min2(since[r] + 1, IdleStatusEvery)]
  /\ UNCHANGED <<pc, holders, takeover, dispatched, queued, faults>>

RunStep(r) ==
  \/ CheckBranch(r) \/ ResetBranch(r) \/ ReadLease(r) \/ Claim(r)
  \/ Dispatch(r) \/ Stop(r) \/ ServiceTick(r) \/ AfterTick(r)
  \/ Look(r) \/ WriteStatus(r) \/ Reread(r) \/ DrainOut(r)

Next ==
  \/ Tick
  \/ \E r \in Runs : Watchdog(r) \/ Successor(r) \/ RunStep(r)
                     \/ ReadLeaseFails(r) \/ Crash(r)

(* A live process keeps executing, time passes, the schedule keeps firing. *)
Fairness ==
  /\ WF_vars(Tick)
  /\ WF_vars(\E r \in Runs : Watchdog(r))
  /\ \A r \in Runs : WF_vars(RunStep(r))

Spec     == Init /\ [][Next]_vars
FairSpec == Spec /\ Fairness

-----------------------------------------------------------------------------
(* A run between its claim and its exit whose next conditional write would *)
(* succeed is the run the record names: two live runs never both own the   *)
(* lease, whatever the resets, claims, stops and crashes around them.      *)
OwnerIsNamed == \A r \in Runs : Accepting(r) /\ r \in holders => record.run = r

(* The lease argument as an inductive invariant: ownership; the file is    *)
(* there as soon as any run serves; and a watchdog run that is about to    *)
(* claim another run's record with a live sha read it when it was dead, and*)
(* it is dead still (GitHubPublisher only, whose claim is conditional).    *)
LeaseInv ==
  /\ OwnerIsNamed
  /\ \A r \in Runs : Serving(r) => record.run # NoRun
  /\ \A r \in Runs :
       ~ForceHonoured /\ pc[r] = "claim" /\ ~takeover[r] /\ r \in holders
         /\ Superseded(r) => ~Fresh

(* A watchdog run replaces another run's record only if that record is     *)
(* stale or stopped at the moment of the write, not just when it was read. *)
ClaimRespectsLiveLease ==
  [][\A r \in Runs :
       pc[r] = "claim" /\ ~takeover[r] /\ Superseded(r) /\ record'.run = r
         => ~Fresh]_vars

(* A run that was superseded never writes its own name back: neither its   *)
(* periodic status, nor its final `stopped`, undoes a takeover.            *)
NeverTakesBack ==
  [][\A r \in Runs : Serving(r) /\ Superseded(r) => record'.run # r]_vars

(* A superseded run that gets to a status write drains out: it never       *)
(* returns to serving, whether it learns of its successor by looking first *)
(* or from the Conflict.                                                   *)
SupersededRunDrains ==
  [][\A r \in Runs :
       Superseded(r) /\ pc[r] \in {"look", "write", "reread"}
         => pc'[r] # "loop"]_vars

(* The watchdog and the handoff together keep the service up: infinitely   *)
(* often the run that the record names is serving.                         *)
ServiceComesBack == []<>(\E r \in Runs : Accepting(r) /\ record.run = r)
=============================================================================
