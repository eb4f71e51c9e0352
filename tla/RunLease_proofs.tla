--------------------------- MODULE RunLease_proofs ---------------------------
(***************************************************************************)
(* The lease of haiku-daemon, for every number of runs, every timing and   *)
(* both publishers: types, ownership, and what a superseded run can never  *)
(* do. The argument is that the remembered sha is a capability: every      *)
(* write takes it away from everyone but the writer.                       *)
(***************************************************************************)
EXTENDS RunLease, TLAPS

USE RunsAssumption, TimesAssumption, BoundsAssumption

(* A write of the status file leaves a well-typed record.                  *)
LEMMA PublishType ==
  ASSUME NEW r \in Runs, NEW stopped \in BOOLEAN, Publish(r, stopped)
  PROVE  record' \in LeaseRecord /\ holders' \in SUBSET Runs
BY DEF Publish, LeaseRecord

(* Every step of a run or of the clock keeps the types.                    *)
LEMMA TypeStep == TypeOK /\ [Next]_vars => TypeOK'
<1> SUFFICES ASSUME TypeOK, [Next]_vars PROVE TypeOK'
  OBVIOUS
<1> USE DEF TypeOK, Locations, Goto
<1>1. CASE Tick
  BY <1>1 DEF Tick, Min2, LeaseRecord
<1>2. ASSUME NEW r \in Runs, Watchdog(r) PROVE TypeOK'
  BY <1>2 DEF Watchdog, Start
<1>3. ASSUME NEW r \in Runs, Successor(r) PROVE TypeOK'
  BY <1>3 DEF Successor, Start
<1>4. ASSUME NEW r \in Runs, CheckBranch(r) PROVE TypeOK'
  BY <1>4 DEF CheckBranch
<1>5. ASSUME NEW r \in Runs, ResetBranch(r) PROVE TypeOK'
  BY <1>5 DEF ResetBranch, LeaseRecord
<1>6. ASSUME NEW r \in Runs, ReadLease(r) PROVE TypeOK'
  BY <1>6 DEF ReadLease
<1>7. ASSUME NEW r \in Runs, ReadLeaseFails(r) PROVE TypeOK'
  BY <1>7 DEF ReadLeaseFails
<1>8. ASSUME NEW r \in Runs, Claim(r) PROVE TypeOK'
  <2>1. record' \in LeaseRecord /\ holders' \in SUBSET Runs
    <3>1. CASE Publish(r, FALSE)
      BY <3>1, PublishType
    <3>2. CASE UNCHANGED <<record, holders>>
      BY <3>2
    <3> QED
      BY <1>8, <3>1, <3>2 DEF Claim
  <2>2. /\ pc' \in [Runs -> Locations]
        /\ since' \in [Runs -> 0..IdleStatusEvery]
    <3>1. pc' = [pc EXCEPT ![r] = "loop"] \/ pc' = [pc EXCEPT ![r] = "off"]
      BY <1>8 DEF Claim
    <3>2. since' = [since EXCEPT ![r] = 0]
      BY <1>8 DEF Claim
    <3> QED
      BY <3>1, <3>2
  <2> QED
    BY <1>8, <2>1, <2>2 DEF Claim
<1>9. ASSUME NEW r \in Runs, Dispatch(r) PROVE TypeOK'
  BY <1>9 DEF Dispatch
<1>10. ASSUME NEW r \in Runs, Stop(r) PROVE TypeOK'
  <2>1. record' \in LeaseRecord /\ holders' \in SUBSET Runs
    <3>1. CASE Publish(r, TRUE)
      BY <3>1, PublishType
    <3>2. CASE UNCHANGED <<record, holders>>
      BY <3>2
    <3> QED
      BY <1>10, <3>1, <3>2 DEF Stop
  <2>2. /\ pc' \in [Runs -> Locations]
        /\ since' \in [Runs -> 0..IdleStatusEvery]
    BY <1>10 DEF Stop
  <2> QED
    BY <1>10, <2>1, <2>2 DEF Stop
<1>11. ASSUME NEW r \in Runs, ServiceTick(r) PROVE TypeOK'
  BY <1>11 DEF ServiceTick, AtLoop
<1>12. ASSUME NEW r \in Runs, AfterTick(r) PROVE TypeOK'
  BY <1>12 DEF AfterTick
<1>13. ASSUME NEW r \in Runs, Look(r) PROVE TypeOK'
  BY <1>13 DEF Look
<1>14. ASSUME NEW r \in Runs, WriteStatus(r) PROVE TypeOK'
  <2>1. record' \in LeaseRecord /\ holders' \in SUBSET Runs
    <3>1. CASE Publish(r, FALSE)
      BY <3>1, PublishType
    <3>2. CASE UNCHANGED <<record, holders>>
      BY <3>2
    <3> QED
      BY <1>14, <3>1, <3>2 DEF WriteStatus
  <2>2. /\ pc' \in [Runs -> Locations]
        /\ since' \in [Runs -> 0..IdleStatusEvery]
    <3>1. pc' = [pc EXCEPT ![r] = "loop"] \/ pc' = [pc EXCEPT ![r] = "reread"]
      BY <1>14 DEF WriteStatus
    <3>2. since' = [since EXCEPT ![r] = 0] \/ UNCHANGED since
      BY <1>14 DEF WriteStatus
    <3> QED
      BY <3>1, <3>2
  <2> QED
    BY <1>14, <2>1, <2>2 DEF WriteStatus
<1>15. ASSUME NEW r \in Runs, Reread(r) PROVE TypeOK'
  BY <1>15 DEF Reread
<1>16. ASSUME NEW r \in Runs, DrainOut(r) PROVE TypeOK'
  BY <1>16 DEF DrainOut
<1>17. ASSUME NEW r \in Runs, Crash(r) PROVE TypeOK'
  BY <1>17 DEF Crash
<1>18. CASE UNCHANGED vars
  BY <1>18 DEF vars
<1> QED
  BY <1>1, <1>2, <1>3, <1>4, <1>5, <1>6, <1>7, <1>8, <1>9, <1>10, <1>11, <1>12, <1>13, <1>14, <1>15, <1>16, <1>17, <1>18
  DEF Next, RunStep

(* Every reachable state has the declared types.                           *)
THEOREM TypeCorrect == Spec => []TypeOK
<1>1. Init => TypeOK
  BY DEF Init, TypeOK, Locations, LeaseRecord
<1>2. QED
  BY <1>1, TypeStep, PTL DEF Spec

-----------------------------------------------------------------------------
(* What a step does to the file and to the remembered shas: either the     *)
(* file is untouched and every sha newly remembered comes from a read, or  *)
(* one run wrote it and only that run can remember the result.             *)
LEMMA FileStep ==
  ASSUME TypeOK, [Next]_vars
  PROVE  \/ /\ record'.run = record.run /\ record'.stopped = record.stopped
            /\ record'.age >= record.age
         \/ \E r \in Runs : record'.run = r /\ holders' \subseteq {r}
<1> USE DEF TypeOK, LeaseRecord
<1>1. CASE Tick
  BY <1>1 DEF Tick, Min2
<1>2. ASSUME NEW r \in Runs, Publish(r, TRUE) \/ Publish(r, FALSE) \/ ResetBranch(r)
      PROVE  \E q \in Runs : record'.run = q /\ holders' \subseteq {q}
  BY <1>2 DEF Publish, ResetBranch
<1>3. ASSUME NEW r \in Runs, Claim(r) \/ Stop(r) \/ WriteStatus(r)
      PROVE  UNCHANGED record \/ Publish(r, TRUE) \/ Publish(r, FALSE)
  BY <1>3 DEF Claim, Stop, WriteStatus
<1>4. ASSUME NEW r \in Runs,
             \/ Watchdog(r) \/ Successor(r) \/ CheckBranch(r) \/ ReadLease(r)
             \/ ReadLeaseFails(r) \/ Dispatch(r) \/ ServiceTick(r) \/ AfterTick(r)
             \/ Look(r) \/ Reread(r) \/ DrainOut(r) \/ Crash(r)
      PROVE  UNCHANGED record
  BY <1>4 DEF Watchdog, Successor, Start, CheckBranch, ReadLease, ReadLeaseFails,
              Dispatch, ServiceTick, AfterTick, Look, Reread, DrainOut, Crash
<1>5. CASE UNCHANGED vars
  BY <1>5 DEF vars
<1>6. CASE UNCHANGED record
  BY <1>6
<1> QED
  BY <1>1, <1>2, <1>3, <1>4, <1>5, <1>6 DEF Next, RunStep

(* Once any run serves, the status file exists, and it stays.              *)
LEMMA FileStaysStep ==
  ASSUME TypeOK, LeaseInv, [Next]_vars, NEW q \in Runs, Serving(q)'
  PROVE  record'.run # NoRun
<1>1. CASE record.run # NoRun
  BY <1>1, FileStep DEF TypeOK
<1>2. CASE record.run = NoRun
  <2>1. ~Serving(q)
    BY <1>2 DEF LeaseInv
  <2>2. \E r \in Runs : Claim(r)
    <3> USE DEF Serving, TypeOK, Goto
    <3>1. CASE Tick
      BY <2>1, <3>1 DEF Tick
    <3>2. ASSUME NEW r \in Runs,
                 \/ Watchdog(r) \/ Successor(r) \/ CheckBranch(r) \/ ResetBranch(r)
                 \/ ReadLease(r) \/ ReadLeaseFails(r) \/ DrainOut(r) \/ Crash(r)
          PROVE  FALSE
      BY <2>1, <3>2 DEF Watchdog, Successor, Start, CheckBranch, ResetBranch,
                        ReadLease, ReadLeaseFails, DrainOut, Crash
    <3>3. ASSUME NEW r \in Runs,
                 \/ Dispatch(r) \/ Stop(r) \/ ServiceTick(r) \/ AfterTick(r)
                 \/ Look(r) \/ WriteStatus(r) \/ Reread(r)
          PROVE  FALSE
      <4>1. Serving(r)
        BY <3>3 DEF Dispatch, Stop, AtLoop, ServiceTick, AfterTick, Look, WriteStatus, Reread
      <4> QED
        BY <1>2, <4>1 DEF LeaseInv
    <3>4. CASE UNCHANGED vars
      BY <2>1, <3>4 DEF vars
    <3> QED
      BY <3>1, <3>2, <3>3, <3>4 DEF Next, RunStep
  <2>3. PICK r \in Runs : Claim(r)
    BY <2>2
  <2>4. r \in holders \/ ForceHonoured
    BY <2>1, <2>3 DEF Claim, Goto, Serving, TypeOK
  <2> QED
    BY <2>3, <2>4 DEF Claim, Publish
<1> QED
  BY <1>1, <1>2

(* Ownership survives every step.                                          *)
LEMMA OwnerStep == TypeOK /\ LeaseInv /\ [Next]_vars => OwnerIsNamed'
<1> SUFFICES ASSUME TypeOK, LeaseInv, OwnerIsNamed, [Next]_vars,
                    NEW q \in Runs, Accepting(q)', q \in holders'
             PROVE  record'.run = q
  BY DEF OwnerIsNamed, LeaseInv
<1> USE DEF TypeOK, LeaseRecord, Accepting, Serving, Goto
<1>1. CASE Tick
  BY <1>1 DEF Tick, OwnerIsNamed
<1>2. ASSUME NEW r \in Runs, Publish(r, TRUE) \/ Publish(r, FALSE)
      PROVE  record'.run = q
  BY <1>2 DEF Publish
<1>3. ASSUME NEW r \in Runs, Claim(r)
      PROVE  record'.run = q
  <2>1. CASE r \in holders \/ ForceHonoured
    BY <1>2, <1>3, <2>1 DEF Claim
  <2>2. CASE ~(r \in holders \/ ForceHonoured)
    BY <1>3, <2>2 DEF Claim, OwnerIsNamed
  <2> QED
    BY <2>1, <2>2
<1>4. ASSUME NEW r \in Runs, Stop(r)
      PROVE  record'.run = q
  BY <1>2, <1>4 DEF Stop, AtLoop, OwnerIsNamed
<1>5. ASSUME NEW r \in Runs, WriteStatus(r)
      PROVE  record'.run = q
  <2>1. CASE r \in holders
    BY <1>2, <1>5, <2>1 DEF WriteStatus
  <2>2. CASE r \notin holders
    BY <1>5, <2>2 DEF WriteStatus, OwnerIsNamed
  <2> QED
    BY <2>1, <2>2
<1>6. ASSUME NEW r \in Runs, Watchdog(r) \/ Successor(r)
      PROVE  record'.run = q
  BY <1>6 DEF Watchdog, Successor, Start, OwnerIsNamed
<1>7. ASSUME NEW r \in Runs, CheckBranch(r) \/ ReadLease(r) \/ ReadLeaseFails(r)
      PROVE  record'.run = q
  BY <1>7 DEF CheckBranch, ReadLease, ReadLeaseFails, OwnerIsNamed
<1>8. ASSUME NEW r \in Runs, ResetBranch(r)
      PROVE  record'.run = q
  BY <1>8 DEF ResetBranch
<1>9. ASSUME NEW r \in Runs, Look(r) \/ Reread(r)
      PROVE  record'.run = q
  BY <1>9 DEF Look, Reread, Superseded, OwnerIsNamed, LeaseInv
<1>10. ASSUME NEW r \in Runs, Dispatch(r) \/ ServiceTick(r) \/ AfterTick(r)
                             \/ DrainOut(r) \/ Crash(r)
      PROVE  record'.run = q
  BY <1>10 DEF Dispatch, ServiceTick, AtLoop, AfterTick, DrainOut, Crash, OwnerIsNamed
<1>11. CASE UNCHANGED vars
  BY <1>11 DEF vars, OwnerIsNamed
<1> QED
  BY <1>1, <1>3, <1>4, <1>5, <1>6, <1>7, <1>8, <1>9, <1>10, <1>11 DEF Next, RunStep

(* A watchdog run about to replace a dead record with a live sha still     *)
(* finds it dead: a refreshed record is a new file, hence a new sha.       *)
LEMMA ClaimStep ==
  ASSUME TypeOK, LeaseInv, [Next]_vars, NEW q \in Runs, ~ForceHonoured,
         pc'[q] = "claim", ~takeover'[q], q \in holders', Superseded(q)'
  PROVE  ~Fresh'
<1> USE DEF TypeOK, LeaseRecord, Superseded, Fresh, Goto
<1>1. /\ record'.run = record.run /\ record'.stopped = record.stopped
      /\ record'.age >= record.age
  BY FileStep
<1>2. SUFFICES ~Fresh
  BY <1>1, TypeStep
<1>3. CASE pc[q] = "claim" /\ ~takeover[q] /\ q \in holders
  BY <1>1, <1>3 DEF LeaseInv
<1>4. CASE ReadLease(q)
  BY <1>1, <1>4 DEF ReadLease
<1>5. CASE ReadLeaseFails(q)
  BY <1>1, <1>5 DEF ReadLeaseFails
<1>6. CASE UNCHANGED vars \/ Tick
  BY <1>6, <1>3 DEF vars, Tick
<1>7. ASSUME NEW r \in Runs,
             Watchdog(r) \/ Successor(r) \/ RunStep(r) \/ ReadLeaseFails(r) \/ Crash(r),
             ~ReadLease(q), ~ReadLeaseFails(q)
      PROVE  pc[q] = "claim" /\ ~takeover[q] /\ q \in holders
  <2>1. CASE Watchdog(r) \/ Successor(r) \/ CheckBranch(r) \/ ResetBranch(r)
    BY <2>1 DEF Watchdog, Successor, Start, CheckBranch, ResetBranch
  <2>2. CASE ReadLease(r) \/ ReadLeaseFails(r)
    BY <2>2, <1>7 DEF ReadLease, ReadLeaseFails
  <2>3. CASE Claim(r)
    BY <2>3, <1>1 DEF Claim, Publish
  <2>4. CASE Stop(r) \/ WriteStatus(r)
    BY <2>4, <1>1 DEF Stop, AtLoop, WriteStatus, Publish
  <2>5. CASE Dispatch(r) \/ ServiceTick(r) \/ AfterTick(r) \/ DrainOut(r) \/ Crash(r)
    BY <2>5 DEF Dispatch, ServiceTick, AtLoop, AfterTick, DrainOut, Crash
  <2>6. CASE Look(r) \/ Reread(r)
    BY <2>6 DEF Look, Reread
  <2> QED
    BY <2>1, <2>2, <2>3, <2>4, <2>5, <2>6, <1>7 DEF RunStep
<1> QED
  BY <1>3, <1>4, <1>5, <1>6, <1>7 DEF Next

LEMMA LeaseStep == TypeOK /\ LeaseInv /\ [Next]_vars => LeaseInv'
BY OwnerStep, FileStaysStep, ClaimStep DEF LeaseInv

(* The inductive invariant of the lease holds in every reachable state.    *)
THEOREM LeaseInvariant == Spec => [](TypeOK /\ LeaseInv)
<1>1. Init => TypeOK /\ LeaseInv
  BY DEF Init, LeaseInv, OwnerIsNamed, Accepting, Serving, TypeOK, Locations, LeaseRecord
<1>2. QED
  BY <1>1, TypeStep, LeaseStep, PTL DEF Spec

(* Two live runs never both own the lease.                                 *)
THEOREM Ownership == Spec => []OwnerIsNamed
BY LeaseInvariant, PTL DEF LeaseInv

(* With GitHub's conditional writes a watchdog run never replaces the      *)
(* record of a run that is alive when the write lands.                     *)
THEOREM LiveLeaseIsRespected ==
  ASSUME ~ForceHonoured PROVE Spec => ClaimRespectsLiveLease
<1>1. ASSUME TypeOK, LeaseInv, [Next]_vars, NEW r \in Runs,
             pc[r] = "claim", ~takeover[r], Superseded(r), record'.run = r
      PROVE  ~Fresh
  <2>1. CASE r \in holders
    BY <1>1, <2>1 DEF LeaseInv
  <2>2. CASE r \notin holders
    <3> USE <1>1, <2>2 DEF TypeOK, LeaseRecord, Superseded
    <3>1. ~ResetBranch(r) /\ ~Claim(r) /\ ~Stop(r) /\ ~WriteStatus(r)
      BY DEF ResetBranch, Claim, Stop, AtLoop, WriteStatus
    <3>2. \A q \in Runs \ {r} : ~ResetBranch(q) /\ ~Claim(q) /\ ~Stop(q) /\ ~WriteStatus(q)
      BY DEF ResetBranch, Claim, Stop, WriteStatus, Publish
    <3>3. record'.run = record.run
      BY <3>1, <3>2 DEF Next, RunStep, vars, Tick, Watchdog, Successor, Start, CheckBranch,
        ReadLease, ReadLeaseFails, Dispatch, ServiceTick, AfterTick, Look, Reread, DrainOut, Crash
    <3> QED
      BY <3>3
  <2> QED
    BY <2>1, <2>2
<1>2. TypeOK /\ LeaseInv /\ [Next]_vars =>
        [\A r \in Runs :
           pc[r] = "claim" /\ ~takeover[r] /\ Superseded(r) /\ record'.run = r
             => ~Fresh]_vars
  BY <1>1
<1>3. QED
  BY <1>2, LeaseInvariant, PTL DEF Spec, ClaimRespectsLiveLease

(* A superseded run never writes its own name back over its successor's.   *)
THEOREM NoTakeBack == Spec => NeverTakesBack
<1>1. ASSUME TypeOK, LeaseInv, [Next]_vars, NEW r \in Runs,
             Serving(r), Superseded(r), record'.run = r
      PROVE  FALSE
  <2> USE <1>1 DEF TypeOK, LeaseRecord, Superseded, Serving, Accepting
  <2>1. ~ResetBranch(r) /\ ~Claim(r)
    BY DEF ResetBranch, Claim
  <2>2. ~Stop(r) /\ ~WriteStatus(r)
    <3>1. pc[r] # "drain" => r \notin holders
      BY DEF LeaseInv, OwnerIsNamed
    <3> QED
      BY <3>1 DEF Stop, AtLoop, WriteStatus
  <2>3. \A q \in Runs \ {r} : ~ResetBranch(q) /\ ~Claim(q) /\ ~Stop(q) /\ ~WriteStatus(q)
    BY DEF ResetBranch, Claim, Stop, WriteStatus, Publish
  <2>4. record'.run = record.run
    BY <2>1, <2>2, <2>3 DEF Next, RunStep, vars, Tick, Watchdog, Successor, Start, CheckBranch,
      ReadLease, ReadLeaseFails, Dispatch, ServiceTick, AfterTick, Look, Reread, DrainOut, Crash
  <2> QED
    BY <2>4
<1>2. TypeOK /\ LeaseInv /\ [Next]_vars =>
        [\A r \in Runs : Serving(r) /\ Superseded(r) => record'.run # r]_vars
  BY <1>1
<1>3. QED
  BY <1>2, LeaseInvariant, PTL DEF Spec, NeverTakesBack

(* A superseded run that reaches a status write drains out.                *)
THEOREM SupersededDrains == Spec => SupersededRunDrains
<1>1. ASSUME TypeOK, LeaseInv, [Next]_vars, NEW r \in Runs,
             Superseded(r), pc[r] \in {"look", "write", "reread"}, pc'[r] = "loop"
      PROVE  FALSE
  <2> USE <1>1 DEF TypeOK, Goto
  <2>1. r \notin holders
    BY DEF LeaseInv, OwnerIsNamed, Accepting, Serving, Superseded
  <2>2. ~WriteStatus(r) /\ ~Reread(r) /\ ~Look(r)
    BY <2>1 DEF WriteStatus, Reread, Look
  <2>3. ~Claim(r) /\ ~Dispatch(r) /\ ~Stop(r) /\ ~ServiceTick(r) /\ ~AfterTick(r)
    BY DEF Claim, Dispatch, Stop, ServiceTick, AtLoop, AfterTick
  <2>4. pc'[r] = pc[r] \/ pc'[r] # "loop"
    <3>1. ASSUME NEW q \in Runs, q # r,
                 Watchdog(q) \/ Successor(q) \/ RunStep(q) \/ ReadLeaseFails(q) \/ Crash(q)
          PROVE  pc'[r] = pc[r]
      <4>1. pc' = pc \/ \E l : pc' = [pc EXCEPT ![q] = l]
        BY <3>1 DEF RunStep, Watchdog, Successor, Start, CheckBranch, ResetBranch, ReadLease,
          ReadLeaseFails, Claim, Dispatch, Stop, ServiceTick, AfterTick, Look, WriteStatus,
          Reread, DrainOut, Crash
      <4> QED
        BY <3>1, <4>1
    <3>2. CASE Watchdog(r) \/ Successor(r) \/ CheckBranch(r) \/ ResetBranch(r)
      BY <3>2 DEF Watchdog, Successor, Start, CheckBranch, ResetBranch
    <3>3. CASE ReadLease(r) \/ ReadLeaseFails(r) \/ DrainOut(r) \/ Crash(r)
      BY <3>3 DEF ReadLease, ReadLeaseFails, DrainOut, Crash
    <3>4. CASE Tick \/ UNCHANGED vars
      BY <3>4 DEF Tick, vars
    <3> QED
      BY <2>2, <2>3, <3>1, <3>2, <3>3, <3>4 DEF Next, RunStep
  <2> QED
    BY <2>4
<1>2. TypeOK /\ LeaseInv /\ [Next]_vars =>
        [\A r \in Runs : Superseded(r) /\ pc[r] \in {"look", "write", "reread"}
                           => pc'[r] # "loop"]_vars
  BY <1>1
<1>3. QED
  BY <1>2, LeaseInvariant, PTL DEF Spec, SupersededRunDrains
=============================================================================
