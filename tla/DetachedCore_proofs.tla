-------------------------- MODULE DetachedCore_proofs --------------------------
(***************************************************************************)
(* Proofs about DetachedCore, for any number of cores, streams and lines:  *)
(* its types, that one core works at a time, that the launcher returns the *)
(* code of its last core, that it terminates no core that is working unless*)
(* that core found the exit event of an earlier one, and that typed lines  *)
(* are drained in order. At the end, proofs about EyeDelegate, the launch  *)
(* that Eye or an attached core answers.                                   *)
(***************************************************************************)
EXTENDS DetachedCore, EyeDelegate, SequenceTheorems, FiniteSetTheorems, TLAPS

runVars == <<main, result, deadline, gen, core, exitVars, stale>>

(* The steps that move the run of the core, and nothing else does.         *)
RunStep ==
  \/ Spawn \/ SpawnFails \/ DeadlinePasses \/ Notice \/ Timeout \/ Joined \/ ForwarderJoined
  \/ Collect \/ Kill \/ CoreCrashes
  \/ \E e \in Exits : CoreExits(e[1], e[2])
  \/ \E c \in Cores : CoreGone(c)

LEMMA RunFrame == ASSUME [Next]_vars PROVE RunStep \/ UNCHANGED runVars
<1> USE DEF runVars
<1>1. CASE MainStep \/ DeadlinePasses
  BY <1>1 DEF MainStep, RunStep
<1>2. CASE RelayStep
  BY <1>2 DEF RelayStep, RelayHead, RelayIdle, RelayChunk, RelayEof
<1>3. CASE ForwardStep
  BY <1>3 DEF ForwardStep, TakeLine, WriteLine, WriteFails, Cancelled, CloseForwarder
<1>4. CASE Drain
  BY <1>4 DEF Drain, DrainMove, DrainRead, DrainFails
<1>5. CASE Type \/ CloseInput \/ \E s \in Streams : CoreWrites(s)
  BY <1>5 DEF Type, CloseInput, CoreWrites
<1>6. CASE \E c \in Cores : ReadStep(c)
  BY <1>6 DEF ReadStep, ReadLine, AddLine
<1>7. CASE UNCHANGED vars
  BY <1>7 DEF vars
<1>8. CASE CoreCrashes \/ (\E e \in Exits : CoreExits(e[1], e[2])) \/ (\E c \in Cores : CoreGone(c))
  BY <1>8 DEF RunStep
<1> QED BY <1>1, <1>2, <1>3, <1>4, <1>5, <1>6, <1>7, <1>8 DEF Next

(* The run of the core keeps its types.                                    *)
LEMMA RunTypeStep == ASSUME RunType, RunStep \/ UNCHANGED runVars PROVE RunType'
<1> USE DEF RunType, exitVars
<1>1. CASE Spawn
  <2>1. gen + 1 \in Cores /\ gen' = gen + 1 /\ core' = [core EXCEPT ![gen + 1] = "run"]
    BY <1>1, CoreAssumption DEF Spawn, Cores
  <2>2. event' \in BOOLEAN
    BY <1>1, Zenon DEF Spawn
  <2>3. gen' \in 0..MaxCore /\ core' \in [Cores -> {"none", "run", "exited", "dying", "dead"}]
    BY <2>1 DEF Cores
  <2>4. \A c \in Cores : c > gen' <=> core'[c] = "none"
    BY <2>1 DEF Cores
  <2>5. stale' \in SUBSET (1..gen') /\ holds' \in SUBSET (1..gen')
    BY <1>1, <2>1 DEF Spawn
  <2> QED BY <1>1, <2>2, <2>3, <2>4, <2>5 DEF Spawn
<1>2. CASE SpawnFails
  <2>1. result' \in Codes \cup {"none", "timeout", "fallback"}
    BY <1>2 DEF SpawnFails, Codes
  <2> QED BY <1>2, <2>1 DEF SpawnFails
<1>9. CASE DeadlinePasses \/ Notice \/ Timeout \/ Joined \/ ForwarderJoined
  BY <1>9 DEF DeadlinePasses, Notice, Timeout, Joined, ForwarderJoined
<1>3. CASE Collect
  <2>1. gen \in Cores
    BY <1>3 DEF Collect, Cores
  <2>2. ProcessCode \in Codes \cup {"none"} /\ \A text \in Codes : Parsed(text) \in Codes
    BY <2>1 DEF ProcessCode, Parsed, Codes
  <2>3. result' \in Codes \cup {"none"}
    BY <1>3, <2>2 DEF Collect, Codes
  <2>4. exitFile' = "none"
    BY <1>3 DEF Collect
  <2> QED BY <1>3, <2>1, <2>3, <2>4 DEF Collect
<1>4. CASE Kill
  <2>1. gen \in Cores
    BY <1>4 DEF Kill, Cores
  <2> QED BY <1>4, <2>1 DEF Kill
<1>5. CASE CoreCrashes
  <2>1. gen \in Cores
    BY <1>5 DEF CoreCrashes, Cores
  <2> QED BY <1>5, <2>1 DEF CoreCrashes, Codes
<1>6. ASSUME NEW c \in Codes, NEW whose \in {"own", "torn"}, CoreExits(c, whose) PROVE RunType'
  <2>1. gen \in Cores /\ gen \in 1..gen
    BY <1>6 DEF CoreExits, Cores
  <2>2. event' = TRUE /\ holds' \in SUBSET (1..gen) /\ UNCHANGED <<main, result, deadline, gen, stale>>
    BY <1>6, <2>1 DEF CoreExits
  <2>3. core' = [core EXCEPT ![gen] = "exited"] /\ code' = [code EXCEPT ![gen] = c] /\ exitFile' = c
        /\ filed' = whose
    BY <1>6 DEF CoreExits
  <2>4. core' \in [Cores -> {"none", "run", "exited", "dying", "dead"}]
    BY <2>1, <2>3
  <2>5. \A d \in Cores : d > gen <=> core'[d] = "none"
    BY <2>1, <2>3 DEF Cores
  <2> QED BY <2>1, <2>2, <2>3, <2>4, <2>5
<1>7. ASSUME NEW c \in Cores, CoreGone(c) PROVE RunType'
  BY <1>7 DEF CoreGone
<1>8. CASE UNCHANGED runVars
  BY <1>8 DEF runVars
<1>10. CASE \E e \in Exits : CoreExits(e[1], e[2])
  BY <1>6, <1>10, CoreAssumption
<1> QED BY <1>1, <1>2, <1>3, <1>4, <1>5, <1>7, <1>8, <1>9, <1>10 DEF RunStep

-----------------------------------------------------------------------------
(* The relay's variables.                                                  *)
LEMMA RelayTypeStep == ASSUME RelayType, [Next]_vars PROVE RelayType'
<1> USE CoreAssumption DEF RelayType, relayVars
<1>1. CASE Spawn
  <2>1. stop' \in BOOLEAN
    BY <1>1, Zenon DEF Spawn
  <2>2. /\ pipe' = [s \in Streams |-> 0] /\ wrote' = [s \in Streams |-> 0]
        /\ relay' = "head" /\ eofs' = {}
    BY <1>1 DEF Spawn
  <2>3. pipe' \in [Streams -> 0..PipeCap] /\ wrote' \in [Streams -> 0..MaxChunk]
    BY <2>2
  <2> QED BY <2>1, <2>2, <2>3
<1>9. CASE Notice
  <2>1. stop' \in BOOLEAN
    BY <1>9, Zenon DEF Notice
  <2> QED BY <1>9, <2>1 DEF Notice
<1>2. CASE SpawnFails \/ DeadlinePasses \/ Timeout \/ Joined \/ ForwarderJoined \/ Collect \/ Kill
  BY <1>2 DEF SpawnFails, DeadlinePasses, Timeout, Joined, ForwarderJoined, Collect, Kill
<1>3. CASE RelayHead \/ RelayIdle
  BY <1>3 DEF RelayHead, RelayIdle
<1>4. ASSUME NEW s \in Streams, RelayChunk(s) \/ RelayEof(s) PROVE RelayType'
  BY <1>4 DEF RelayChunk, RelayEof
<1>5. ASSUME NEW s \in Streams, CoreWrites(s) PROVE RelayType'
  BY <1>5 DEF CoreWrites
<1>6. CASE ForwardStep \/ Drain \/ CoreCrashes \/ Type \/ CloseInput
  BY <1>6 DEF ForwardStep, TakeLine, WriteLine, WriteFails, Cancelled, CloseForwarder, Drain,
              DrainMove, DrainRead, DrainFails, CoreCrashes, Type, CloseInput
<1>7. CASE (\E e \in Exits : CoreExits(e[1], e[2])) \/ (\E c \in Cores : CoreGone(c) \/ ReadStep(c))
  BY <1>7 DEF CoreExits, CoreGone, ReadStep, ReadLine, AddLine
<1>8. CASE UNCHANGED vars
  BY <1>8 DEF vars
<1> QED BY <1>1, <1>2, <1>3, <1>4, <1>5, <1>6, <1>7, <1>8, <1>9
    DEF Next, MainStep, RelayStep

(* The interrupts' variables.                                              *)
LEMMA InterruptTypeStep ==
  ASSUME RunType, InterruptType, [Next]_vars PROVE InterruptType'
<1> USE CoreAssumption DEF InterruptType, interruptVars, readVars, chanVars, lostVars
<1>1. CASE Spawn
  <2>1. reader' \in [Cores -> {"none", "reading", "adding", "ended"}]
    BY <1>1 DEF Spawn
  <2>2. cancel' \in BOOLEAN
    BY <1>1, Zenon DEF Spawn
  <2>3. forward' = "idle" /\ draining' = <<>>
        /\ UNCHANGED <<typed, input, closed, line, queue, taken, file, seen, swallowed, failed>>
    BY <1>1 DEF Spawn
  <2> QED BY <2>1, <2>2, <2>3
<1>2. CASE Joined
  BY <1>2 DEF Joined
<1>3. CASE DrainMove
  BY <1>3 DEF DrainMove
<1>16. CASE DrainRead
  <2>1. seen' \in Seq(Lines) /\ draining' \in Seq(Lines)
    BY <1>16 DEF DrainRead
  <2> QED BY <1>16, <2>1 DEF DrainRead
<1>17. CASE DrainFails
  <2>1. Range(draining) \subseteq Lines
    BY DEF Range
  <2>2. failed' \in SUBSET Lines /\ draining' \in Seq(Lines)
    BY <1>17, <2>1 DEF DrainFails
  <2> QED BY <1>17, <2>2 DEF DrainFails
<1>18. CASE WriteFails
  <2>1. taken \in Lines
    BY <1>18 DEF WriteFails
  <2> QED BY <1>18, <2>1 DEF WriteFails
<1>4. CASE Type
  BY <1>4 DEF Type, Lines
<1>5. CASE CloseInput
  BY <1>5 DEF CloseInput
<1>6. ASSUME NEW c \in Cores, ReadLine(c) PROVE InterruptType'
  <2> DEFINE read == IF input # <<>> THEN Head(input) ELSE Eof
  <2>1. read \in Lines \cup {Eof} /\ (read # Eof => read \in Lines)
    BY DEF Eof
  <2>2. input' \in Seq(Lines)
    BY <1>6 DEF ReadLine
  <2>3. \/ reader' = [reader EXCEPT ![c] = "ended"]
           /\ swallowed' = (IF read = Eof THEN swallowed ELSE swallowed \cup {read})
           /\ line' = line
        \/ reader' = [reader EXCEPT ![c] = "adding"]
           /\ line' = [line EXCEPT ![c] = read] /\ swallowed' = swallowed
    BY <1>6 DEF ReadLine
  <2>4. UNCHANGED <<typed, closed, chanVars, failed>>
    BY <1>6 DEF ReadLine
  <2> HIDE DEF read
  <2>5. reader' \in [Cores -> {"none", "reading", "adding", "ended"}]
        /\ line' \in [Cores -> Lines \cup {Eof}] /\ swallowed' \in SUBSET Lines
    BY <2>1, <2>3
  <2> QED BY <2>2, <2>4, <2>5
<1>7. ASSUME NEW c \in Cores, AddLine(c) PROVE InterruptType'
  <2>1. queue' \in Seq(Lines \cup {Eof}) /\ Len(queue') <= QueueCap
    BY <1>7 DEF AddLine
  <2>2. reader' \in [Cores -> {"none", "reading", "adding", "ended"}]
        /\ line' \in [Cores -> Lines \cup {Eof}]
    BY <1>7 DEF AddLine
  <2> QED BY <1>7, <2>1, <2>2 DEF AddLine
<1>8. CASE TakeLine
  <2>1. Head(queue) \in Lines \cup {Eof} /\ Tail(queue) \in Seq(Lines \cup {Eof})
        /\ Len(Tail(queue)) <= QueueCap
    BY <1>8 DEF TakeLine
  <2> QED BY <1>8, <2>1 DEF TakeLine
<1>9. CASE WriteLine
  <2>1. taken \in Lines
    BY <1>9 DEF WriteLine
  <2> QED BY <1>9, <2>1 DEF WriteLine
<1>10. CASE Cancelled
  BY <1>10 DEF Cancelled
<1>11. CASE CloseForwarder
  <2>1. reader' \in [Cores -> {"none", "reading", "adding", "ended"}]
        /\ line' \in [Cores -> Lines \cup {Eof}]
    BY <1>11 DEF CloseForwarder
  <2> QED BY <1>11, <2>1 DEF CloseForwarder
<1>12. CASE SpawnFails \/ DeadlinePasses \/ Notice \/ Timeout \/ ForwarderJoined \/ Collect \/ Kill
  BY <1>12 DEF SpawnFails, DeadlinePasses, Notice, Timeout, ForwarderJoined, Collect, Kill
<1>13. CASE RelayStep \/ \E s \in Streams : CoreWrites(s)
  BY <1>13 DEF RelayStep, RelayHead, RelayIdle, RelayChunk, RelayEof, CoreWrites
<1>14. CASE CoreCrashes \/ (\E e \in Exits : CoreExits(e[1], e[2])) \/ (\E c \in Cores : CoreGone(c))
  BY <1>14 DEF CoreCrashes, CoreExits, CoreGone
<1>15. CASE UNCHANGED vars
  BY <1>15 DEF vars
<1> QED
  BY <1>1, <1>2, <1>3, <1>4, <1>5, <1>6, <1>7, <1>8, <1>9, <1>10, <1>11, <1>12, <1>13, <1>14,
     <1>15, <1>16, <1>17, <1>18 DEF Next, MainStep, ForwardStep, Drain, ReadStep

LEMMA TypeInit == ASSUME Init PROVE TypeOK
<1> USE CoreAssumption DEF Init
<1>1. RunType
  <2>1. event \in BOOLEAN /\ gen = 0 /\ main = "spawn"
    BY Zenon
  <2>2. \A c \in Cores : c > gen <=> core[c] = "none"
    BY DEF Cores
  <2>3. exitFile \in Codes \cup {"none"} /\ filed \in {"own", "torn", "foreign"}
    OBVIOUS
  <2> QED BY <2>1, <2>2, <2>3 DEF RunType, Codes
<1>2. RelayType
  <2>1. stop \in BOOLEAN
    BY Zenon
  <2>2. pipe \in [Streams -> 0..PipeCap] /\ wrote \in [Streams -> 0..MaxChunk]
    OBVIOUS
  <2> QED BY <2>1, <2>2 DEF RelayType
<1>3. InterruptType
  <2>1. closed \in BOOLEAN /\ cancel \in BOOLEAN
    BY Zenon
  <2>2. /\ reader \in [Cores -> {"none", "reading", "adding", "ended"}]
        /\ line \in [Cores -> Lines \cup {Eof}] /\ typed \in 0..MaxLine
        /\ queue \in Seq(Lines \cup {Eof}) /\ Len(queue) <= QueueCap
    OBVIOUS
  <2>3. /\ input = <<>> /\ forward = "off" /\ taken = Eof
        /\ file = <<>> /\ draining = <<>> /\ seen = <<>> /\ swallowed = {} /\ failed = {}
    OBVIOUS
  <2> QED BY <2>1, <2>2, <2>3 DEF InterruptType
<1> QED BY <1>1, <1>2, <1>3 DEF TypeOK

(* Type correctness, for every value of the constants.                     *)
THEOREM TypeCorrect == Spec => []TypeOK
<1>1. TypeOK /\ [Next]_vars => TypeOK'
  BY RunFrame, RunTypeStep, RelayTypeStep, InterruptTypeStep DEF TypeOK
<1> QED BY TypeInit, <1>1, PTL DEF Spec

-----------------------------------------------------------------------------
(* The run of the core as an inductive invariant. Only the newest core can *)
(* be working, and none is when the next is spawned. Until the code is     *)
(* collected the exit file is absent, or for the core's own code, whole or *)
(* torn, or one left from before, which a core that exits writes over, so  *)
(* that only a first core that crashes leaves it. A core that signalled has*)
(* left its own. A core that did not find the event set works only while it*)
(* is polled and the event is not set, so what is collected is accounted   *)
(* for.                                                                    *)
Watched == main \in {"poll", "join", "await", "collect"}

CoresInv ==
  /\ \A c \in Cores : Working(c) => c = gen
  /\ main = "spawn" => \A c \in Cores : ~Working(c)
  /\ main = "spawn" => exitFile = "none" \/ (filed = "foreign" /\ gen = 0)
  /\ main = "spawn" /\ gen > 0 /\ gen \notin stale => code[gen] \in {"swap", "error"}
  /\ Watched \/ main = "kill" => core[gen] \in {"run", "exited", "dead"}
  /\ Watched /\ exitFile # "none" =>
       IF filed = "foreign"
         THEN gen = 1 /\ (core[gen] = "run" \/ (core[gen] = "dead" /\ code[gen] = "error"))
         ELSE core[gen] # "run" /\ exitFile = code[gen]
  /\ Watched /\ core[gen] = "exited" => exitFile # "none"
  /\ (Watched \/ main = "kill") /\ gen \notin stale /\ core[gen] = "run"
       => main = "poll" /\ ~event
  /\ main = "kill" /\ gen \notin stale => Accounted
  /\ ExitCodeIsCores

LEMMA CoresInit == ASSUME Init PROVE CoresInv
BY CoreAssumption DEF Init, CoresInv, Watched, Working, ExitCodeIsCores, Cores

(* Spawning: the core before is not working and its exit file is gone.     *)
LEMMA SpawnKeeps == ASSUME RunType, CoresInv, Spawn PROVE CoresInv'
<1> USE DEF RunType, CoresInv, Watched, Working
<1>1. /\ main = "spawn" /\ main' = "poll" /\ gen' = gen + 1 /\ gen + 1 \in Cores
      /\ core' = [core EXCEPT ![gen + 1] = "run"] /\ exitFile' = exitFile /\ filed' = filed
  BY CoreAssumption DEF Spawn, Cores
<1>2. gen' \notin stale' => ~event'
  BY DEF Spawn
<1>3. core'[gen'] = "run" /\ \A c \in Cores : c # gen' => core'[c] = core[c]
  BY <1>1
<1>4. \A c \in Cores : Working(c)' => c = gen'
  BY <1>1, <1>3
<1>5. ExitCodeIsCores'
  BY <1>1 DEF ExitCodeIsCores
<1>6. exitFile' # "none" => filed' = "foreign" /\ gen' = 1
  BY <1>1
<1> QED BY <1>1, <1>2, <1>3, <1>4, <1>5, <1>6

(* Noticing the end: a core that did not find the event set has ended.     *)
LEMMA NoticeKeeps == ASSUME RunType, CoresInv, Notice PROVE CoresInv'
<1> USE DEF RunType, CoresInv, Watched, Working
<1>1. /\ main = "poll" /\ main' = "join" /\ (event \/ core[gen] = "dead")
      /\ UNCHANGED <<result, gen, core, code, exitFile, filed, event, stale>>
  BY DEF Notice, Ended, exitVars
<1>2. gen \notin stale => core[gen] # "run"
  BY <1>1
<1>3. ExitCodeIsCores'
  BY <1>1 DEF ExitCodeIsCores
<1> QED BY <1>1, <1>2, <1>3

(* Collecting: what the exit file or the process gives is accounted for.   *)
LEMMA CollectKeeps == ASSUME RunType, CoresInv, Collect PROVE CoresInv'
<1> USE DEF RunType, CoresInv, Watched, Working
<1>1. /\ main = "collect" /\ main' = "kill"
      /\ UNCHANGED <<gen, core, code, filed, event, stale>>
  BY DEF Collect
<1>2. gen \notin stale => core[gen] \in {"exited", "dead"}
  BY <1>1
<1>3. gen \notin stale => Accounted'
  <2> SUFFICES ASSUME gen \notin stale PROVE Accounted'
    OBVIOUS
  <2>1. CASE exitFile = "none"
    <3>1. core[gen] = "dead"
      BY <1>1, <1>2, <2>1
    <3>2. result' = code[gen]
      BY <2>1, <3>1 DEF Collect, ProcessCode
    <3> QED BY <1>1, <3>2 DEF Accounted
  <2>2. CASE exitFile # "none" /\ filed = "torn"
    <3>1. result' \in {"ok", "error", code[gen]}
      BY <1>2, <2>2 DEF Collect, ProcessCode
    <3> QED BY <1>1, <2>2, <3>1 DEF Accounted
  <2>3. CASE exitFile # "none" /\ filed = "own"
    <3>1. exitFile = code[gen] /\ result' = Parsed(exitFile)
      BY <1>1, <2>3 DEF Collect
    <3> QED BY <1>1, <3>1 DEF Accounted, Parsed
  <2>4. CASE exitFile # "none" /\ filed = "foreign"
    <3>1. gen = 1 /\ code[gen] = "error"
      BY <1>1, <1>2, <2>4
    <3> QED BY <1>1, <2>4, <3>1 DEF Accounted
  <2> QED BY <2>1, <2>2, <2>3, <2>4
<1>4. ExitCodeIsCores'
  BY <1>1 DEF ExitCodeIsCores
<1> QED BY <1>1, <1>2, <1>3, <1>4

(* Terminating: no core is working when the next is spawned.               *)
LEMMA KillKeeps == ASSUME RunType, CoresInv, Kill PROVE CoresInv'
<1> USE DEF RunType, CoresInv, Watched, Working
<1>1. /\ main = "kill" /\ main' = (IF result = "swap" THEN "spawn" ELSE "returned")
      /\ IF result = "swap" THEN exitFile' = "none" /\ filed' = "own"
         ELSE UNCHANGED <<exitFile, filed>>
      /\ UNCHANGED <<result, gen, code, event, stale>> /\ gen \in Cores
      /\ core' = [core EXCEPT ![gen] = IF @ = "dead" THEN @ ELSE "dying"]
  BY DEF Kill, Cores
<1>2. core'[gen] \in {"dead", "dying"} /\ \A c \in Cores : c # gen => core'[c] = core[c]
  BY <1>1
<1>3. \A c \in Cores : ~Working(c)'
  BY <1>1, <1>2
<1>4. gen \notin stale => (result = "swap" => code[gen] \in {"swap", "error"})
  BY <1>1 DEF Accounted
<1>5. gen \notin stale /\ result # "swap" => Accounted'
  BY <1>1 DEF Accounted
<1>6. ExitCodeIsCores'
  BY <1>1, <1>5 DEF ExitCodeIsCores
<1> QED BY <1>1, <1>2, <1>3, <1>4, <1>6

(* The end of a core, by itself or after being terminated.                 *)
LEMMA CoreEndKeeps ==
  ASSUME RunType, CoresInv, NEW d \in Codes, NEW whose \in {"own", "torn"},
         CoreExits(d, whose) \/ CoreCrashes
  PROVE  CoresInv'
<1> USE DEF RunType, CoresInv, Watched, Working
<1>1. /\ core[gen] = "run" /\ gen \in Cores /\ main # "returned"
      /\ UNCHANGED <<main, result, gen, stale>>
  BY DEF CoreExits, CoreCrashes, Up, Cores
<1>2. main # "spawn"
  BY <1>1
<1>3. \/ /\ core' = [core EXCEPT ![gen] = "exited"] /\ code' = [code EXCEPT ![gen] = d]
         /\ exitFile' = d /\ filed' = whose
      \/ /\ core' = [core EXCEPT ![gen] = "dead"] /\ code' = [code EXCEPT ![gen] = "error"]
         /\ \/ exitFile' = exitFile /\ filed' = filed
            \/ exitFile' = "error" /\ filed' = "torn"
  BY DEF CoreExits, CoreCrashes
<1>4. core'[gen] \in {"exited", "dead"} /\ \A c \in Cores : c # gen => core'[c] = core[c]
  BY <1>1, <1>3
<1>5. \/ core'[gen] = "exited" /\ code'[gen] = d /\ exitFile' = d /\ filed' # "foreign"
      \/ /\ core'[gen] = "dead" /\ code'[gen] = "error"
         /\ \/ exitFile' = exitFile /\ filed' = filed
            \/ exitFile' = "error" /\ filed' # "foreign"
  BY <1>1, <1>3
<1>6. main = "kill" => gen \in stale
  BY <1>1
<1>7. Watched /\ exitFile # "none" => filed = "foreign" /\ gen = 1
  BY <1>1
<1>8. ExitCodeIsCores'
  BY <1>1 DEF ExitCodeIsCores
<1>9. d # "none"
  BY DEF Codes
<1>10. \A c \in Cores : Working(c)' => c = gen'
  BY <1>1, <1>4
<1>11. Watched' /\ exitFile' # "none" =>
       IF filed' = "foreign"
         THEN gen' = 1 /\ core'[gen'] = "dead" /\ code'[gen'] = "error"
         ELSE core'[gen'] # "run" /\ exitFile' = code'[gen']
  BY <1>1, <1>5, <1>7
<1> QED BY <1>1, <1>2, <1>4, <1>5, <1>6, <1>8, <1>9, <1>10, <1>11

LEMMA CoreGoneKeeps ==
  ASSUME RunType, CoresInv, NEW d \in Cores, CoreGone(d) PROVE CoresInv'
<1> USE DEF RunType, CoresInv, Watched, Working
<1>1. /\ core[d] \in {"exited", "dying"} /\ core' = [core EXCEPT ![d] = "dead"]
      /\ main # "returned" /\ UNCHANGED <<main, result, gen, code, exitFile, filed, event, stale>>
  BY DEF CoreGone, Up
<1>2. core'[d] = "dead" /\ \A c \in Cores : c # d => core'[c] = core[c]
  BY <1>1
<1>3. ExitCodeIsCores'
  BY <1>1 DEF ExitCodeIsCores
<1>4. Watched \/ main = "kill" => gen \in Cores
  BY DEF Cores
<1>5. Accounted' = Accounted
  BY <1>1 DEF Accounted
<1> QED BY <1>1, <1>2, <1>3, <1>4, <1>5

LEMMA CoresStep == ASSUME RunType, CoresInv, [Next]_vars PROVE CoresInv'
<1>1. CASE SpawnFails
  <2>1. /\ main = "spawn" /\ main' = "returned" /\ UNCHANGED <<gen, core, code, exitVars, stale>>
        /\ gen = 0 => result' = "fallback"
        /\ result' \in {"fallback", "error"}
    BY <1>1 DEF SpawnFails, exitVars
  <2>2. ExitCodeIsCores'
    BY <2>1 DEF CoresInv, RunType, ExitCodeIsCores, Accounted
  <2> QED BY <2>1, <2>2 DEF CoresInv, Watched, Working, exitVars
<1>2. CASE DeadlinePasses \/ UNCHANGED runVars
  BY <1>2 DEF DeadlinePasses, runVars, exitVars, CoresInv, Watched, Working, ExitCodeIsCores,
              Accounted
<1>3. CASE Timeout
  BY <1>3 DEF Timeout, exitVars, CoresInv, Watched, Working, ExitCodeIsCores,
              Accounted
<1>4. CASE Joined
  BY <1>4 DEF Joined, exitVars, CoresInv, Watched, Working, ExitCodeIsCores,
              Accounted
<1>5. CASE ForwarderJoined
  BY <1>5 DEF ForwarderJoined, exitVars, CoresInv, Watched, Working, ExitCodeIsCores,
              Accounted
<1>6. CASE Spawn \/ Notice \/ Collect \/ Kill
  BY <1>6, SpawnKeeps, NoticeKeeps, CollectKeeps, KillKeeps
<1>7. CASE CoreCrashes \/ (\E e \in Exits : CoreExits(e[1], e[2])) \/ (\E c \in Cores : CoreGone(c))
  <2>1. \A e \in Exits : e[1] \in Codes /\ e[2] \in {"own", "torn"}
    BY CoreAssumption
  <2>2. "ok" \in Codes /\ "own" \in {"own", "torn"}
    BY DEF Codes
  <2> QED BY <1>7, <2>1, <2>2, CoreEndKeeps, CoreGoneKeeps
<1> QED BY <1>1, <1>2, <1>3, <1>4, <1>5, <1>6, <1>7, RunFrame DEF RunStep

(* The inductive invariant of the run of the core holds in every state.    *)
THEOREM CoresInvariant == Spec => [](TypeOK /\ CoresInv)
<1>1. CoresInv /\ TypeOK /\ [Next]_vars => CoresInv'
  BY CoresStep DEF TypeOK
<1> QED BY TypeCorrect, CoresInit, <1>1, PTL DEF Spec

(* However cores hang, crash, linger or are swapped, one works at a time.  *)
THEOREM OneWorkingCore == Spec => []OneCore
<1>1. CoresInv => OneCore
  BY DEF CoresInv, OneCore
<1> QED BY <1>1, CoresInvariant, PTL

(* The launcher returns the code of the core it ran last, unless it timed  *)
(* out, fell back, or that core found the event of an earlier one; but for *)
(* a negative code, a torn exit file, and one left from before.            *)
THEOREM ExitCode == Spec => []ExitCodeIsCores
<1>1. CoresInv => ExitCodeIsCores
  BY DEF CoresInv
<1> QED BY <1>1, CoresInvariant, PTL

(* A working core is terminated only if it found the event of an earlier   *)
(* core set when it was spawned.                                           *)
THEOREM WorkingCoreIsSpared == Spec => SparesWorkingCore
<1>1. ASSUME TypeOK, CoresInv, [Next]_vars, NEW c \in Cores, core[c] = "run", core'[c] = "dying"
      PROVE  c \in stale
  <2> USE DEF TypeOK, RunType
  <2>1. CASE Kill
    <3>1. main = "kill" /\ core' = [core EXCEPT ![gen] = IF @ = "dead" THEN @ ELSE "dying"]
      BY <2>1 DEF Kill
    <3>2. c = gen
      BY <1>1 DEF CoresInv, Working
    <3> QED BY <1>1, <3>1, <3>2 DEF CoresInv
  <2>2. CASE Spawn \/ CoreCrashes \/ (\E e \in Exits : CoreExits(e[1], e[2])) \/ (\E d \in Cores : CoreGone(d))
    BY <1>1, <2>2 DEF Spawn, CoreCrashes, CoreExits, CoreGone
  <2>3. CASE SpawnFails \/ DeadlinePasses \/ Notice \/ Timeout \/ Joined \/ ForwarderJoined \/ Collect
    BY <1>1, <2>3 DEF SpawnFails, DeadlinePasses, Notice, Timeout, Joined, ForwarderJoined, Collect
  <2>4. CASE UNCHANGED runVars
    BY <1>1, <2>4 DEF runVars
  <2> QED BY <1>1, <2>1, <2>2, <2>3, <2>4, RunFrame DEF RunStep
<1>2. TypeOK /\ CoresInv /\ [Next]_vars
        => (\A c \in Cores : core[c] = "run" /\ core'[c] = "dying" => c \in stale)
  BY <1>1
<1>3. TypeOK /\ CoresInv /\ [Next]_vars
        => [\A c \in Cores : core[c] = "run" /\ core'[c] = "dying" => c \in stale]_vars
  BY <1>2
<1> QED BY <1>3, CoresInvariant, PTL DEF Spec, SparesWorkingCore

-----------------------------------------------------------------------------
(* Sequences of numbers that go up, zeros (the sentinel) aside, and the    *)
(* numbers in them.                                                        *)
Vals(s)      == {v \in Nat \ {Eof} : \E i \in 1..Len(s) : s[i] = v}
Asc(s)       == \A i, j \in 1..Len(s) : i < j /\ s[j] # Eof => s[i] < s[j]
Before(A, B) == \A a \in A, b \in B : a < b

(* A later number may join what comes after.                              *)
LEMMA BeforeNext ==
  ASSUME NEW A, NEW B, NEW x, Before(A, B), \A a \in A : a < x
  PROVE  Before(A, B \cup {x})
  BY DEF Before

(* What an append, a tail and a concatenation make of such sequences.      *)
LEMMA AscAppend ==
  ASSUME NEW s \in Seq(Nat), Asc(s), NEW x \in Nat, Before(Vals(s), {x} \ {Eof})
  PROVE  Asc(Append(s, x)) /\ Vals(Append(s, x)) = Vals(s) \cup ({x} \ {Eof})
<1> DEFINE t == Append(s, x)
<1>1. Len(s) \in Nat /\ Len(t) = Len(s) + 1 /\ t[Len(s) + 1] = x /\ \A i \in 1..Len(s) : t[i] = s[i]
  BY AppendProperties, LenProperties
<1>2. \A i \in 1..Len(s) : s[i] \in Nat
  BY ElementOfSeq
<1> HIDE DEF t
<1>3. Asc(t)
  <2> SUFFICES ASSUME NEW i \in 1..Len(t), NEW j \in 1..Len(t), i < j, t[j] # Eof
               PROVE  t[i] < t[j]
    BY DEF Asc
  <2>1. CASE j <= Len(s)
    BY <1>1, <2>1 DEF Asc
  <2>2. CASE j = Len(s) + 1
    <3>1. i \in 1..Len(s) /\ t[i] = s[i] /\ t[j] = x /\ s[i] \in Nat
      BY <1>1, <1>2, <2>2
    <3>2. CASE s[i] = Eof
      BY <3>1, <3>2 DEF Eof
    <3>3. CASE s[i] # Eof
      <4>1. s[i] \in Vals(s) /\ x \in {x} \ {Eof}
        BY <3>1, <3>3 DEF Vals
      <4> QED BY <3>1, <4>1 DEF Before
    <3> QED BY <3>2, <3>3
  <2> QED BY <1>1, <2>1, <2>2
<1>4. Vals(t) = Vals(s) \cup ({x} \ {Eof})
  <2>1. ASSUME NEW v \in Nat
        PROVE  (\E i \in 1..Len(t) : t[i] = v) <=> (\E i \in 1..Len(s) : s[i] = v) \/ v = x
    <3>1. \A i \in 1..Len(t) : i \in 1..Len(s) \/ i = Len(s) + 1
      BY <1>1
    <3>2. Len(s) + 1 \in 1..Len(t) /\ \A i \in 1..Len(s) : i \in 1..Len(t)
      BY <1>1
    <3> QED BY <1>1, <3>1, <3>2
  <2> QED BY <2>1 DEF Vals
<1> QED BY <1>3, <1>4 DEF t

LEMMA AscTail ==
  ASSUME NEW s \in Seq(Nat), Asc(s), s # <<>>
  PROVE  /\ Asc(Tail(s)) /\ Vals(s) = Vals(Tail(s)) \cup ({Head(s)} \ {Eof})
         /\ Before({Head(s)} \ {Eof}, Vals(Tail(s)))
<1> DEFINE t == Tail(s)
<1>1. Len(s) \in Nat \ {0} /\ Len(t) = Len(s) - 1 /\ Head(s) = s[1]
  BY HeadTailProperties, EmptySeq
<1>2. \A i \in 1..Len(t) : t[i] = s[i + 1]
  BY HeadTailProperties
<1> HIDE DEF t
<1>3. \A i \in 1..Len(t) : i + 1 \in 1..Len(s)
  BY <1>1
<1>4. Asc(t)
  <2> SUFFICES ASSUME NEW i \in 1..Len(t), NEW j \in 1..Len(t), i < j, t[j] # Eof
               PROVE  t[i] < t[j]
    BY DEF Asc
  <2>1. i + 1 \in 1..Len(s) /\ j + 1 \in 1..Len(s) /\ i + 1 < j + 1
        /\ t[i] = s[i + 1] /\ t[j] = s[j + 1]
    BY <1>2, <1>3
  <2> QED BY <2>1 DEF Asc
<1>5. Before({Head(s)} \ {Eof}, Vals(t))
  <2> SUFFICES ASSUME NEW i \in 1..Len(t), t[i] # Eof PROVE Head(s) < t[i]
    BY DEF Before, Vals
  <2>1. 1 \in 1..Len(s) /\ i + 1 \in 1..Len(s) /\ 1 < i + 1 /\ s[i + 1] = t[i]
    BY <1>1, <1>2, <1>3
  <2> QED BY <1>1, <2>1 DEF Asc
<1>6. ASSUME NEW v PROVE (\E i \in 1..Len(s) : s[i] = v)
                          <=> (\E i \in 1..Len(t) : t[i] = v) \/ v = Head(s)
  <2>1. \A i \in 1..Len(s) : i = 1 \/ (i - 1 \in 1..Len(t) /\ s[i] = t[i - 1])
    <3> SUFFICES ASSUME NEW i \in 1..Len(s), i # 1 PROVE i - 1 \in 1..Len(t) /\ s[i] = t[i - 1]
      OBVIOUS
    <3>1. i - 1 \in 1..Len(t) /\ (i - 1) + 1 = i
      BY <1>1
    <3> QED BY <1>2, <3>1
  <2>2. 1 \in 1..Len(s)
    BY <1>1
  <2> QED BY <1>1, <1>2, <1>3, <2>1, <2>2
<1>7. Vals(s) = Vals(t) \cup ({Head(s)} \ {Eof})
  <2>1. Head(s) \in Nat
    BY HeadTailProperties
  <2> QED BY <1>6, <2>1 DEF Vals
<1> QED BY <1>4, <1>5, <1>7 DEF t

LEMMA AscConcat ==
  ASSUME NEW s \in Seq(Nat), NEW t \in Seq(Nat), Asc(s), Asc(t), Before(Vals(s), Vals(t))
  PROVE  Asc(s \o t) /\ Vals(s \o t) = Vals(s) \cup Vals(t)
<1> DEFINE u == s \o t
<1>1. /\ Len(s) \in Nat /\ Len(t) \in Nat /\ Len(u) = Len(s) + Len(t)
      /\ \A i \in 1..(Len(s) + Len(t)) : u[i] = IF i <= Len(s) THEN s[i] ELSE t[i - Len(s)]
  BY ConcatProperties, LenProperties
<1>2. \A i \in 1..Len(s) : s[i] \in Nat
  BY ElementOfSeq
<1>3. \A i \in 1..Len(t) : t[i] \in Nat
  BY ElementOfSeq
<1> HIDE DEF u
<1>4. Asc(u)
  <2> SUFFICES ASSUME NEW i \in 1..Len(u), NEW j \in 1..Len(u), i < j, u[j] # Eof
               PROVE  u[i] < u[j]
    BY DEF Asc
  <2>1. CASE j <= Len(s)
    BY <1>1, <2>1 DEF Asc
  <2>2. CASE i > Len(s)
    <3> DEFINE a == i - Len(s)
               b == j - Len(s)
    <3>1. j > Len(s)
      BY <1>1, <2>2
    <3>2. a \in 1..Len(t) /\ b \in 1..Len(t) /\ a < b
      BY <1>1, <2>2, <3>1
    <3>3. i \in 1..(Len(s) + Len(t)) /\ ~(i <= Len(s)) /\ u[i] = t[a]
      BY <1>1, <2>2
    <3>4. j \in 1..(Len(s) + Len(t)) /\ ~(j <= Len(s)) /\ u[j] = t[b]
      BY <1>1, <3>1
    <3> HIDE DEF a, b
    <3> QED BY <3>2, <3>3, <3>4 DEF Asc
  <2>3. CASE i <= Len(s) /\ j > Len(s)
    <3>1. i \in 1..Len(s) /\ j - Len(s) \in 1..Len(t) /\ u[i] = s[i] /\ u[j] = t[j - Len(s)]
      BY <1>1, <2>3
    <3>2. u[j] \in Vals(t) /\ u[j] \in Nat /\ u[i] \in Nat
      BY <1>2, <1>3, <3>1 DEF Vals
    <3>3. CASE s[i] = Eof
      BY <3>1, <3>2, <3>3 DEF Eof
    <3>4. CASE s[i] # Eof
      <4>1. u[i] \in Vals(s)
        BY <3>1, <3>4 DEF Vals
      <4> QED BY <3>2, <4>1 DEF Before
    <3> QED BY <3>3, <3>4
  <2> QED BY <1>1, <2>1, <2>2, <2>3
<1>5. ASSUME NEW v PROVE (\E i \in 1..Len(u) : u[i] = v)
                  <=> (\E i \in 1..Len(s) : s[i] = v) \/ (\E i \in 1..Len(t) : t[i] = v)
  <2>1. \A i \in 1..Len(u) : (i \in 1..Len(s) /\ u[i] = s[i])
                              \/ (i - Len(s) \in 1..Len(t) /\ u[i] = t[i - Len(s)])
    BY <1>1
  <2>2. \A i \in 1..Len(s) : i \in 1..Len(u) /\ u[i] = s[i]
    BY <1>1
  <2>3. \A i \in 1..Len(t) : i + Len(s) \in 1..Len(u) /\ u[i + Len(s)] = t[i]
    <3> SUFFICES ASSUME NEW i \in 1..Len(t) PROVE i + Len(s) \in 1..Len(u) /\ u[i + Len(s)] = t[i]
      OBVIOUS
    <3>1. i + Len(s) \in 1..(Len(s) + Len(t)) /\ ~(i + Len(s) <= Len(s)) /\ (i + Len(s)) - Len(s) = i
      BY <1>1
    <3> QED BY <1>1, <3>1
  <2> QED BY <2>1, <2>2, <2>3
<1>6. Vals(u) = Vals(s) \cup Vals(t)
  BY <1>5 DEF Vals
<1> QED BY <1>4, <1>6 DEF u

-----------------------------------------------------------------------------
(* Typed lines in order. On its way a line passes the terminal's input, the*)
(* reader's hand, its queue, the forwarder's hand, the core's file and the *)
(* copy a drain moved aside; what is further on was typed earlier.         *)
Hand        == {line[c] : c \in Cores} \ {Eof}
Taken       == {taken} \ {Eof}
FromHand    == Hand \cup Vals(input)
FromQueue   == Vals(queue) \cup FromHand
FromTaken   == Taken \cup FromQueue
FromFile    == Vals(file) \cup FromTaken
FromDrain   == Vals(draining) \cup FromFile
OrderInv ==
  /\ Asc(seen) /\ Asc(draining) /\ Asc(file) /\ Asc(queue) /\ Asc(input)
  /\ Before(Vals(seen), FromDrain) /\ Before(Vals(draining), FromFile)
  /\ Before(Vals(file), FromTaken) /\ Before(Taken, FromQueue)
  /\ Before(Vals(queue), FromHand) /\ Before(Hand, Vals(input))
  /\ \A l \in Vals(seen) \cup FromDrain : l <= typed

(* And the readers: only the current one has a line in hand, and none has  *)
(* while the forwarder is off, which it is between two cores; a swallowed  *)
(* line is the last of a disposed reader.                                  *)
Spent == {c \in 1..gen : Disposed(c) /\ reader[c] = "ended"}
ReaderInv ==
  /\ \A c \in Cores : c > gen => reader[c] = "none"
  /\ \A c \in Cores : line[c] # Eof => c = gen /\ forward # "off"
  /\ main \in {"spawn", "collect", "kill"} => forward = "off"
  /\ IsFiniteSet(swallowed) /\ Cardinality(swallowed) <= Cardinality(Spent)

(* Both hold at the start.                                                 *)
LEMMA OrderInit == ASSUME Init PROVE OrderInv /\ ReaderInv
<1>1. /\ line = [c \in Cores |-> Eof] /\ taken = Eof /\ gen = 0 /\ forward = "off"
      /\ reader = [c \in Cores |-> "none"] /\ swallowed = {}
      /\ input = <<>> /\ queue = <<>> /\ file = <<>> /\ draining = <<>> /\ seen = <<>>
  BY DEF Init
<1>2. Vals(<<>>) = {} /\ Asc(<<>>)
  BY DEF Vals, Asc
<1>3. Hand = {} /\ Taken = {}
  BY <1>1 DEF Hand, Taken
<1>4. OrderInv
  BY <1>1, <1>2, <1>3 DEF OrderInv, FromHand, FromQueue, FromTaken, FromFile, FromDrain, Before
<1>5. Spent = {}
  BY <1>1 DEF Spent
<1>6. ReaderInv
  BY <1>1, <1>5, FS_EmptySet DEF ReaderInv, Cores
<1> QED BY <1>4, <1>6

orderVars == <<typed, input, line, queue, taken, file, draining, seen>>

(* The order depends on these alone.                                       *)
LEMMA OrderFrame == ASSUME OrderInv, UNCHANGED orderVars PROVE OrderInv'
<1>1. /\ seen' = seen /\ draining' = draining /\ file' = file /\ queue' = queue /\ input' = input
      /\ taken' = taken /\ line' = line /\ typed' = typed
  BY DEF orderVars
<1>2. Hand' = Hand /\ Taken' = Taken
  BY <1>1 DEF Hand, Taken
<1>3. FromHand' = FromHand /\ FromQueue' = FromQueue /\ FromTaken' = FromTaken
      /\ FromFile' = FromFile /\ FromDrain' = FromDrain
  BY <1>1, <1>2 DEF FromHand, FromQueue, FromTaken, FromFile, FromDrain
<1> QED BY <1>1, <1>2, <1>3 DEF OrderInv

(* Lines, and the sentinel, are numbers.                                   *)
LEMMA OrderTypes == ASSUME InterruptType
  PROVE  /\ input \in Seq(Nat) /\ queue \in Seq(Nat) /\ file \in Seq(Nat) /\ draining \in Seq(Nat)
         /\ seen \in Seq(Nat) /\ taken \in Nat /\ typed \in Nat
         /\ \A c \in Cores : line[c] \in Nat
<1>1. Lines \subseteq Nat /\ Lines \cup {Eof} \subseteq Nat /\ 0..MaxLine \subseteq Nat
  BY CoreAssumption DEF Lines, Eof
<1>2. Seq(Lines) \subseteq Seq(Nat) /\ Seq(Lines \cup {Eof}) \subseteq Seq(Nat)
  <2>1. ASSUME NEW S \in SUBSET Nat, NEW s \in Seq(S) PROVE s \in Seq(Nat)
    <3>1. Len(s) \in Nat /\ s \in [1..Len(s) -> S]
      BY LenProperties
    <3>2. s \in [1..Len(s) -> Nat]
      BY <3>1
    <3> QED BY <3>1, <3>2
  <2> QED BY <1>1, <2>1
<1> QED BY <1>1, <1>2 DEF InterruptType

(* Every step that does not type, read, add, take, write, drain, close or  *)
(* spawn leaves the lines where they are.                                  *)
LineStep ==
  \/ Type \/ TakeLine \/ WriteLine \/ WriteFails \/ DrainMove \/ DrainRead \/ DrainFails
  \/ CloseForwarder \/ Spawn
  \/ \E c \in Cores : ReadLine(c) \/ AddLine(c)

LEMMA LineFrame == ASSUME [Next]_vars PROVE LineStep \/ UNCHANGED <<orderVars, lostVars>>
<1> USE DEF orderVars, lostVars
<1>1. CASE MainStep \/ DeadlinePasses
  BY <1>1 DEF MainStep, LineStep, SpawnFails, DeadlinePasses, Notice, Timeout, Joined,
              ForwarderJoined, Collect, Kill, interruptVars, readVars, chanVars
<1>2. CASE RelayStep \/ \E s \in Streams : CoreWrites(s)
  BY <1>2 DEF RelayStep, RelayHead, RelayIdle, RelayChunk, RelayEof, CoreWrites,
              interruptVars, readVars, chanVars
<1>3. CASE ForwardStep \/ Drain
  BY <1>3 DEF ForwardStep, Drain, LineStep, Cancelled, readVars, chanVars
<1>4. CASE Type \/ CloseInput \/ \E c \in Cores : ReadStep(c)
  BY <1>4 DEF LineStep, ReadStep, CloseInput, chanVars
<1>5. CASE CoreCrashes \/ (\E e \in Exits : CoreExits(e[1], e[2])) \/ (\E c \in Cores : CoreGone(c))
  BY <1>5 DEF CoreCrashes, CoreExits, CoreGone, interruptVars, readVars, chanVars
<1>6. CASE UNCHANGED vars
  BY <1>6 DEF vars, interruptVars, readVars, chanVars
<1> QED BY <1>1, <1>2, <1>3, <1>4, <1>5, <1>6 DEF Next

(* Every step keeps the order: a line moves on, or a new one comes last.   *)
LEMMA OrderStep ==
  ASSUME InterruptType, ReaderInv, OrderInv, [Next]_vars
  PROVE  OrderInv'
<1> USE OrderTypes
<1>0. /\ Vals(<<>>) = {} /\ Asc(<<>>) /\ Eof = 0
      /\ \A s \in Seq(Nat) : Vals(s) \subseteq Nat \ {Eof}
      /\ Hand \subseteq Nat \ {Eof} /\ Taken \subseteq Nat \ {Eof}
  BY DEF Vals, Asc, Hand, Taken, Eof
<1>1. CASE Type
  <2>1. typed' = typed + 1 /\ input' = Append(input, typed + 1)
        /\ UNCHANGED <<line, queue, taken, file, draining, seen>>
    BY <1>1 DEF Type, chanVars
  <2>2. Before(Vals(input), {typed + 1} \ {Eof})
    BY <1>0 DEF Before, OrderInv, FromDrain, FromFile, FromTaken, FromQueue, FromHand
  <2>3. Asc(input') /\ Vals(input') = Vals(input) \cup {typed + 1}
    BY <1>0, <2>1, <2>2, AscAppend DEF OrderInv
  <2>4. Hand' = Hand /\ Taken' = Taken
    BY <2>1 DEF Hand, Taken
  <2>5. /\ FromHand' = FromHand \cup {typed'} /\ FromQueue' = FromQueue \cup {typed'}
        /\ FromTaken' = FromTaken \cup {typed'} /\ FromFile' = FromFile \cup {typed'}
        /\ FromDrain' = FromDrain \cup {typed'}
    BY <2>1, <2>3, <2>4 DEF FromDrain, FromFile, FromTaken, FromQueue, FromHand
  <2>6. /\ Vals(seen) \subseteq Nat /\ FromDrain \subseteq Nat
        /\ Vals(draining) \subseteq FromDrain /\ Vals(file) \subseteq FromDrain
        /\ Taken \subseteq FromDrain /\ Vals(queue) \subseteq FromDrain /\ Hand \subseteq FromDrain
    BY <1>0 DEF FromDrain, FromFile, FromTaken, FromQueue, FromHand
  <2>7. \A l \in Vals(seen) \cup FromDrain : l < typed'
    <3>1. typed \in Nat /\ typed' = typed + 1
      BY <2>1
    <3>2. \A l \in Vals(seen) \cup FromDrain : l \in Nat /\ l <= typed
      BY <2>6 DEF OrderInv
    <3> QED BY <3>1, <3>2
  <2>8. /\ Before(Vals(seen), FromDrain') /\ Before(Vals(draining), FromFile')
        /\ Before(Vals(file), FromTaken') /\ Before(Taken, FromQueue')
        /\ Before(Vals(queue), FromHand') /\ Before(Hand, Vals(input'))
    <3>1. Vals(input') = Vals(input) \cup {typed'}
      BY <2>1, <2>3
    <3>2. Before(Vals(seen), FromDrain')
      BY <2>5, <2>7, BeforeNext DEF OrderInv
    <3>3. Before(Vals(draining), FromFile') /\ Before(Vals(file), FromTaken')
      BY <2>5, <2>6, <2>7, BeforeNext DEF OrderInv
    <3>4. Before(Taken, FromQueue') /\ Before(Vals(queue), FromHand')
      BY <2>5, <2>6, <2>7, BeforeNext DEF OrderInv
    <3>5. Before(Hand, Vals(input'))
      <4>1. Before(Hand, Vals(input)) /\ \A l \in Hand : l < typed'
        BY <2>6, <2>7 DEF OrderInv
      <4>2. Before(Hand, Vals(input) \cup {typed'})
        BY <4>1, BeforeNext
      <4> QED BY <3>1, <4>2
    <3> QED BY <3>2, <3>3, <3>4, <3>5
  <2>9. \A l \in Vals(seen) \cup FromDrain' : l <= typed'
    <3>1. typed' \in Nat
      BY <2>1
    <3> SUFFICES ASSUME NEW l \in Vals(seen) \cup FromDrain' PROVE l <= typed'
      OBVIOUS
    <3>2. CASE l = typed'
      BY <3>1, <3>2
    <3>3. CASE l \in Vals(seen) \cup FromDrain
      <4>1. l \in Nat /\ l < typed'
        BY <2>6, <2>7, <3>3
      <4> QED BY <3>1, <4>1
    <3> QED BY <2>5, <3>2, <3>3
  <2> QED BY <2>1, <2>3, <2>4, <2>8, <2>9 DEF OrderInv
<1>2. ASSUME NEW c \in Cores, ReadLine(c) PROVE OrderInv'
  <2> DEFINE read == IF input # <<>> THEN Head(input) ELSE Eof
  <2>1. UNCHANGED <<typed, queue, taken, file, draining, seen>>
        /\ input' = (IF input # <<>> THEN Tail(input) ELSE input)
        /\ (line' = line \/ line' = [line EXCEPT ![c] = read])
    BY <1>2 DEF ReadLine, chanVars
  <2>2. /\ Asc(input') /\ Vals(input) = Vals(input') \cup ({read} \ {Eof})
        /\ Before({read} \ {Eof}, Vals(input'))
    <3>1. CASE input = <<>>
      BY <1>0, <2>1, <3>1 DEF OrderInv, Before
    <3>2. CASE input # <<>>
      BY <2>1, <3>2, AscTail DEF OrderInv
    <3> QED BY <3>1, <3>2
  <2>3. read \in Nat
    BY HeadTailProperties, <1>0
  <2> HIDE DEF read
  <2>4. Taken' = Taken /\ Hand' \subseteq Hand \cup ({read} \ {Eof})
    BY <2>1 DEF Hand, Taken, InterruptType
  <2>5. /\ Vals(input') \subseteq Vals(input) /\ {read} \ {Eof} \subseteq Vals(input)
        /\ FromHand' \subseteq FromHand
    BY <2>2, <2>4 DEF FromHand
  <2>6. /\ FromQueue' \subseteq FromQueue /\ FromTaken' \subseteq FromTaken
        /\ FromFile' \subseteq FromFile /\ FromDrain' \subseteq FromDrain
    BY <2>1, <2>4, <2>5 DEF FromQueue, FromTaken, FromFile, FromDrain
  <2>7. Before(Hand', Vals(input'))
    BY <2>2, <2>4, <2>5 DEF OrderInv, Before
  <2> QED BY <2>1, <2>2, <2>4, <2>5, <2>6, <2>7 DEF OrderInv, Before
<1>3. ASSUME NEW c \in Cores, AddLine(c) PROVE OrderInv'
  <2>1. /\ UNCHANGED <<typed, input, taken, file, draining, seen>>
        /\ queue' = Append(queue, line[c]) /\ line' = [line EXCEPT ![c] = Eof]
    BY <1>3 DEF AddLine
  <2>2. {line[c]} \ {Eof} \subseteq Hand
    BY DEF Hand
  <2>3. /\ Before(Vals(queue), {line[c]} \ {Eof})
        /\ Before({line[c]} \ {Eof}, Vals(input))
    BY <2>2 DEF OrderInv, FromHand, Before
  <2>4. Asc(queue') /\ Vals(queue') = Vals(queue) \cup ({line[c]} \ {Eof})
    BY <2>1, <2>3, AscAppend DEF OrderInv
  <2>5. Taken' = Taken /\ Hand' \subseteq Hand /\ (line[c] # Eof => Hand' = {})
    BY <2>1 DEF Hand, Taken, InterruptType, ReaderInv
  <2>6. FromHand' \subseteq FromHand /\ FromQueue' \subseteq FromQueue
    BY <2>1, <2>2, <2>4, <2>5 DEF FromQueue, FromHand
  <2>7. /\ FromTaken' \subseteq FromTaken /\ FromFile' \subseteq FromFile
        /\ FromDrain' \subseteq FromDrain
    BY <2>1, <2>5, <2>6 DEF FromTaken, FromFile, FromDrain
  <2>8. Before(Vals(queue'), FromHand')
    <3>1. CASE line[c] = Eof
      BY <2>4, <2>6, <3>1 DEF OrderInv, Before
    <3>2. CASE line[c] # Eof
      <4>1. FromHand' = Vals(input)
        BY <2>1, <2>5, <3>2 DEF FromHand
      <4>2. Before(Vals(queue), Vals(input))
        BY DEF OrderInv, FromHand, Before
      <4> QED BY <2>3, <2>4, <4>1, <4>2 DEF Before
    <3> QED BY <3>1, <3>2
  <2>9. Before(Hand', Vals(input'))
    BY <2>1, <2>5 DEF OrderInv, Before
  <2> QED BY <2>1, <2>4, <2>5, <2>6, <2>7, <2>8, <2>9 DEF OrderInv, Before
<1>4. CASE TakeLine
  <2>1. /\ UNCHANGED <<typed, input, line, file, draining, seen>> /\ queue # <<>>
        /\ queue' = Tail(queue) /\ taken' = Head(queue)
    BY <1>4 DEF TakeLine, readVars
  <2>2. /\ Asc(queue') /\ Vals(queue) = Vals(queue') \cup ({taken'} \ {Eof})
        /\ Before({taken'} \ {Eof}, Vals(queue'))
    BY <2>1, AscTail DEF OrderInv
  <2>3. Taken' = {taken'} \ {Eof} /\ Hand' = Hand
    BY <2>1 DEF Hand, Taken
  <2>4. FromQueue' \subseteq FromQueue /\ Taken' \subseteq Vals(queue) /\ FromHand' = FromHand
    BY <2>1, <2>2, <2>3 DEF FromQueue, FromHand
  <2>5. /\ FromTaken' \subseteq FromTaken /\ FromFile' \subseteq FromFile
        /\ FromDrain' \subseteq FromDrain
    BY <2>1, <2>4 DEF FromQueue, FromTaken, FromFile, FromDrain
  <2>6. Before(Taken', FromQueue') /\ Before(Vals(queue'), FromHand')
    BY <2>2, <2>3, <2>4 DEF OrderInv, FromQueue, Before
  <2> QED BY <2>1, <2>2, <2>3, <2>5, <2>6 DEF OrderInv, Before
<1>5. CASE WriteLine
  <2>1. /\ UNCHANGED <<typed, input, line, queue, draining, seen>>
        /\ file' = Append(file, taken) /\ taken' = Eof
    BY <1>5 DEF WriteLine, readVars
  <2>2. Before(Vals(file), {taken} \ {Eof})
    BY DEF OrderInv, FromTaken, Taken, Before
  <2>3. Asc(file') /\ Vals(file') = Vals(file) \cup Taken
    BY <2>1, <2>2, AscAppend DEF OrderInv, Taken
  <2>4. Taken' = {} /\ Hand' = Hand
    BY <2>1 DEF Taken, Hand
  <2> QED BY <1>0, <2>1, <2>3, <2>4
       DEF OrderInv, FromDrain, FromFile, FromTaken, FromQueue, FromHand, Before
<1>11. CASE WriteFails
  <2>1. UNCHANGED <<typed, input, line, queue, file, draining, seen>> /\ taken' = Eof
    BY <1>11 DEF WriteFails, readVars
  <2>2. Taken' = {} /\ Hand' = Hand
    BY <2>1 DEF Taken, Hand
  <2> QED BY <1>0, <2>1, <2>2
       DEF OrderInv, FromDrain, FromFile, FromTaken, FromQueue, FromHand, Before
<1>12. CASE DrainFails
  <2>1. UNCHANGED <<typed, input, line, queue, taken, file, seen>> /\ draining' = <<>>
    BY <1>12 DEF DrainFails, readVars
  <2>2. Taken' = Taken /\ Hand' = Hand
    BY <2>1 DEF Taken, Hand
  <2> QED BY <1>0, <2>1, <2>2
       DEF OrderInv, FromDrain, FromFile, FromTaken, FromQueue, FromHand, Before
<1>6. CASE DrainMove
  <2>1. /\ UNCHANGED <<typed, input, line, queue, taken, seen>>
        /\ draining = <<>> /\ draining' = file /\ file' = <<>>
    BY <1>6 DEF DrainMove, readVars
  <2>2. Taken' = Taken /\ Hand' = Hand
    BY <2>1 DEF Taken, Hand
  <2> QED BY <1>0, <2>1, <2>2
       DEF OrderInv, FromDrain, FromFile, FromTaken, FromQueue, FromHand, Before
<1>7. CASE DrainRead
  <2>1. /\ UNCHANGED <<typed, input, line, queue, taken, file>>
        /\ seen' = seen \o draining /\ draining' = <<>>
    BY <1>7 DEF DrainRead, readVars
  <2>2. Before(Vals(seen), Vals(draining))
    BY DEF OrderInv, FromDrain, Before
  <2>3. Asc(seen') /\ Vals(seen') = Vals(seen) \cup Vals(draining)
    BY <2>1, <2>2, AscConcat DEF OrderInv
  <2>4. Taken' = Taken /\ Hand' = Hand
    BY <2>1 DEF Taken, Hand
  <2> QED BY <1>0, <2>1, <2>3, <2>4
       DEF OrderInv, FromDrain, FromFile, FromTaken, FromQueue, FromHand, Before
<1>8. CASE CloseForwarder
  <2>1. /\ UNCHANGED <<typed, input, taken, draining, seen>>
        /\ queue' = <<>> /\ file' = <<>> /\ line' = [line EXCEPT ![gen] = Eof]
    BY <1>8 DEF CloseForwarder
  <2>2. Taken' = Taken /\ Hand' \subseteq Hand
    BY <2>1 DEF Taken, Hand, InterruptType
  <2> QED BY <1>0, <2>1, <2>2
       DEF OrderInv, FromDrain, FromFile, FromTaken, FromQueue, FromHand, Before
<1>9. CASE Spawn
  <2>1. UNCHANGED <<typed, input, line, queue, taken, file, seen>> /\ draining' = <<>>
    BY <1>9 DEF Spawn
  <2>2. Taken' = Taken /\ Hand' = Hand
    BY <2>1 DEF Taken, Hand
  <2> QED BY <1>0, <2>1, <2>2
       DEF OrderInv, FromDrain, FromFile, FromTaken, FromQueue, FromHand, Before
<1>10. CASE UNCHANGED <<orderVars, lostVars>>
  BY <1>10, OrderFrame
<1> QED BY <1>1, <1>2, <1>3, <1>4, <1>5, <1>6, <1>7, <1>8, <1>9, <1>10, <1>11, <1>12, LineFrame
        DEF LineStep

-----------------------------------------------------------------------------
(* A reader that ends after it was disposed pays for the line it swallowed.*)
LEMMA SpentGrows ==
  ASSUME RunType, gen' \in 0..MaxCore, gen <= gen', Spent \subseteq Spent',
         IsFiniteSet(swallowed), Cardinality(swallowed) <= Cardinality(Spent),
         \/ swallowed' = swallowed
         \/ \E l \in Lines, c \in 1..gen' :
              swallowed' = swallowed \cup {l} /\ c \notin Spent /\ c \in Spent'
  PROVE  IsFiniteSet(swallowed') /\ Cardinality(swallowed') <= Cardinality(Spent')
<1>1. gen \in Nat /\ gen' \in Nat
  BY CoreAssumption DEF RunType
<1>2. IsFiniteSet(1..gen') /\ Spent' \subseteq 1..gen' 
  BY <1>1, FS_Interval DEF Spent
<1>3. IsFiniteSet(Spent') /\ IsFiniteSet(Spent)
  BY <1>2, FS_Subset
<1>4. Cardinality(Spent) \in Nat /\ Cardinality(Spent') \in Nat /\ Cardinality(swallowed) \in Nat
      /\ Cardinality(Spent) <= Cardinality(Spent')
  BY <1>3, FS_CardinalityType, FS_Subset
<1>5. CASE swallowed' = swallowed
  BY <1>4, <1>5
<1>6. ASSUME NEW l \in Lines, NEW c \in 1..gen',
             swallowed' = swallowed \cup {l}, c \notin Spent, c \in Spent'
      PROVE  IsFiniteSet(swallowed') /\ Cardinality(swallowed') <= Cardinality(Spent')
  <2>1. IsFiniteSet(Spent \cup {c}) /\ Cardinality(Spent \cup {c}) = Cardinality(Spent) + 1
    BY <1>3, <1>6, FS_AddElement
  <2>2. Cardinality(Spent \cup {c}) <= Cardinality(Spent')
    BY <1>3, <1>6, FS_Subset
  <2>3. IsFiniteSet(swallowed') /\ Cardinality(swallowed') <= Cardinality(swallowed) + 1
    <3>1. /\ IsFiniteSet(swallowed \cup {l})
          /\ Cardinality(swallowed \cup {l}) = IF l \in swallowed THEN Cardinality(swallowed)
                                                ELSE Cardinality(swallowed) + 1
      BY FS_AddElement
    <3> QED BY <1>4, <1>6, <3>1
  <2>4. Cardinality(swallowed') \in Nat
    BY <2>3, FS_CardinalityType
  <2> QED BY <1>4, <2>1, <2>2, <2>3, <2>4
<1> QED BY <1>5, <1>6

(* Every step keeps the readers' books.                                    *)
LEMMA ReaderStep ==
  ASSUME RunType, RunType', InterruptType, ReaderInv, [Next]_vars
  PROVE  ReaderInv'
<1>0. gen \in 0..MaxCore /\ gen' \in 0..MaxCore /\ MaxCore \in Nat /\ Eof \notin Lines
  BY CoreAssumption DEF RunType, Eof, Lines
<1> DEFINE Rest == IsFiniteSet(swallowed') /\ Cardinality(swallowed') <= Cardinality(Spent')
<1>1. CASE Spawn
  <2>1. /\ gen' = gen + 1 /\ reader' = [reader EXCEPT ![gen + 1] = "reading"]
        /\ UNCHANGED <<line, swallowed>> /\ forward' = "idle" /\ main' = "poll" /\ main = "spawn"
    BY <1>1 DEF Spawn, lostVars
  <2>2. \A c \in Cores : line[c] = Eof
    BY <2>1 DEF ReaderInv
  <2>3. Spent \subseteq Spent'
    BY <1>0, <2>1 DEF Spent, Disposed, InterruptType, Cores
  <2>4. Rest
    BY <1>0, <2>1, <2>3, SpentGrows DEF ReaderInv
  <2>5. \A c \in Cores : c > gen' => reader'[c] = "none"
    BY <1>0, <2>1 DEF ReaderInv, Cores, InterruptType
  <2> QED BY <2>1, <2>2, <2>4, <2>5 DEF ReaderInv
<1>2. ASSUME NEW c \in Cores, ReadLine(c) PROVE ReaderInv'
  <2> DEFINE read == IF input # <<>> THEN Head(input) ELSE Eof
  <2>1. /\ UNCHANGED <<gen, forward, main>> /\ reader[c] = "reading"
        /\ \/ /\ Disposed(c) /\ reader' = [reader EXCEPT ![c] = "ended"] /\ line' = line
              /\ swallowed' = (IF read = Eof THEN swallowed ELSE swallowed \cup {read})
           \/ /\ ~Disposed(c) /\ reader' = [reader EXCEPT ![c] = "adding"]
              /\ line' = [line EXCEPT ![c] = read] /\ swallowed' = swallowed
    BY <1>2 DEF ReadLine, chanVars
  <2>2. read \in Lines \cup {Eof}
    BY DEF InterruptType
  <2> HIDE DEF read
  <2>3. c \in 1..gen /\ c \in 1..gen'
    BY <1>0, <2>1 DEF ReaderInv, Cores
  <2>4. CASE Disposed(c) /\ reader' = [reader EXCEPT ![c] = "ended"] /\ line' = line
             /\ swallowed' = (IF read = Eof THEN swallowed ELSE swallowed \cup {read})
    <3>1. Spent \subseteq Spent' /\ c \notin Spent /\ c \in Spent'
      BY <2>1, <2>3, <2>4 DEF Spent, Disposed, InterruptType
    <3>2. swallowed' = swallowed
          \/ \E l \in Lines, d \in 1..gen' :
               swallowed' = swallowed \cup {l} /\ d \notin Spent /\ d \in Spent'
      <4>1. CASE read = Eof
        BY <2>4, <4>1
      <4>2. CASE read # Eof
        BY <2>2, <2>3, <2>4, <3>1, <4>2
      <4> QED BY <4>1, <4>2
    <3>3. gen <= gen' /\ IsFiniteSet(swallowed) /\ Cardinality(swallowed) <= Cardinality(Spent)
      BY <1>0, <2>1 DEF ReaderInv
    <3>4. Rest
      BY <1>0, <3>1, <3>2, <3>3, SpentGrows
    <3>5. \A d \in Cores : d > gen' => reader'[d] = "none"
      BY <1>0, <2>1, <2>3, <2>4 DEF ReaderInv, Cores, InterruptType
    <3> QED BY <2>1, <2>4, <3>4, <3>5 DEF ReaderInv
  <2>5. CASE ~Disposed(c) /\ reader' = [reader EXCEPT ![c] = "adding"]
             /\ line' = [line EXCEPT ![c] = read] /\ swallowed' = swallowed
    <3>1. Spent \subseteq Spent'
      BY <2>1, <2>3, <2>5 DEF Spent, Disposed, InterruptType
    <3>2. gen <= gen' /\ IsFiniteSet(swallowed) /\ Cardinality(swallowed) <= Cardinality(Spent)
      BY <1>0, <2>1 DEF ReaderInv
    <3>3. Rest
      BY <1>0, <2>5, <3>1, <3>2, SpentGrows
    <3>4. c = gen /\ forward # "off"
      BY <1>0, <2>3, <2>5 DEF Disposed
    <3>5. \A d \in Cores : d > gen' => reader'[d] = "none"
      BY <1>0, <2>1, <2>3, <2>5 DEF ReaderInv, Cores, InterruptType
    <3>6. \A d \in Cores : line'[d] # Eof => d = gen' /\ forward' # "off"
      BY <2>1, <2>5, <3>4 DEF ReaderInv, InterruptType
    <3> QED BY <2>1, <3>3, <3>5, <3>6 DEF ReaderInv
  <2> QED BY <2>1, <2>4, <2>5
<1>3. ASSUME NEW c \in Cores, AddLine(c) PROVE ReaderInv'
  <2>1. /\ UNCHANGED <<gen, forward, main, swallowed>> /\ reader[c] = "adding"
        /\ line' = [line EXCEPT ![c] = Eof]
        /\ \E r \in {"ended", "reading"} : reader' = [reader EXCEPT ![c] = r]
    BY <1>3 DEF AddLine, lostVars
  <2>2. c \in 1..gen
    BY <1>0, <2>1 DEF ReaderInv, Cores
  <2>3. Spent \subseteq Spent' /\ gen <= gen'
    BY <1>0, <2>1 DEF Spent, Disposed, InterruptType
  <2>4. Rest
    BY <1>0, <2>1, <2>3, SpentGrows DEF ReaderInv
  <2>5. \A d \in Cores : d > gen' => reader'[d] = "none"
    BY <1>0, <2>1, <2>2 DEF ReaderInv, Cores, InterruptType
  <2>6. \A d \in Cores : line'[d] # Eof => d = gen' /\ forward' # "off"
    BY <2>1 DEF ReaderInv, InterruptType
  <2> QED BY <2>1, <2>4, <2>5, <2>6 DEF ReaderInv
<1>4. CASE CloseForwarder
  <2>1. /\ UNCHANGED <<gen, main, swallowed>> /\ forward = "closing" /\ forward' = "off"
        /\ reader' = [reader EXCEPT ![gen] = IF @ = "adding" THEN "ended" ELSE @]
        /\ line' = [line EXCEPT ![gen] = Eof]
    BY <1>4 DEF CloseForwarder, lostVars
  <2>2. Spent \subseteq Spent' /\ gen <= gen'
    BY <1>0, <2>1 DEF Spent, Disposed, InterruptType
  <2>3. Rest
    BY <1>0, <2>1, <2>2, SpentGrows DEF ReaderInv
  <2>4. \A d \in Cores : d > gen' => reader'[d] = "none"
    BY <1>0, <2>1 DEF ReaderInv, Cores, InterruptType
  <2>5. \A d \in Cores : line'[d] = Eof
    BY <2>1 DEF ReaderInv, InterruptType
  <2> QED BY <2>1, <2>3, <2>4, <2>5 DEF ReaderInv
<1>5. ASSUME UNCHANGED <<gen, reader, line, swallowed>>,
             forward' = forward \/ (forward # "off" /\ forward' # "off"),
             main' \in {"spawn", "collect", "kill"} => forward' = "off"
      PROVE  ReaderInv'
  <2>1. Spent' = Spent
    BY <1>5 DEF Spent, Disposed
  <2> QED BY <1>5, <2>1 DEF ReaderInv
<1>6. CASE TakeLine \/ WriteLine \/ WriteFails \/ Cancelled
  BY <1>5, <1>6 DEF TakeLine, WriteLine, WriteFails, Cancelled, readVars, lostVars, ReaderInv
<1>7. CASE SpawnFails \/ DeadlinePasses \/ Notice \/ Timeout \/ Joined \/ ForwarderJoined
           \/ Collect \/ Kill
  BY <1>5, <1>7 DEF SpawnFails, DeadlinePasses, Notice, Timeout, Joined, ForwarderJoined,
                    Collect, Kill, interruptVars, readVars, chanVars, lostVars, ReaderInv
<1>8. CASE RelayStep \/ (\E s \in Streams : CoreWrites(s)) \/ Type \/ CloseInput \/ Drain
  BY <1>5, <1>8 DEF RelayStep, RelayHead, RelayIdle, RelayChunk, RelayEof, CoreWrites, Type,
                    CloseInput, Drain, DrainMove, DrainRead, DrainFails, interruptVars, readVars,
                    chanVars, lostVars, ReaderInv
<1>9. CASE CoreCrashes \/ (\E e \in Exits : CoreExits(e[1], e[2])) \/ (\E c \in Cores : CoreGone(c))
           \/ UNCHANGED vars
  BY <1>5, <1>9 DEF CoreCrashes, CoreExits, CoreGone, vars, interruptVars, readVars, chanVars,
                    lostVars, ReaderInv
<1> QED BY <1>1, <1>2, <1>3, <1>4, <1>6, <1>7, <1>8, <1>9
        DEF Next, MainStep, ForwardStep, ReadStep

(* Order and books together are the inductive invariant.                   *)
LEMMA LinesInvariant == Spec => [](OrderInv /\ ReaderInv)
<1>1. TypeOK /\ TypeOK' /\ OrderInv /\ ReaderInv /\ [Next]_vars => OrderInv' /\ ReaderInv'
  BY OrderStep, ReaderStep DEF TypeOK
<1> QED BY OrderInit, TypeCorrect, <1>1, PTL DEF Spec

(* Lines typed into the launcher are drained in order and once, and one is *)
(* lost at most to each reader left behind.                                *)
THEOREM TypedInOrder == Spec => []InterruptsInOrder
<1>1. TypeOK /\ OrderInv /\ ReaderInv => InterruptsInOrder
  <2> SUFFICES ASSUME TypeOK, OrderInv, ReaderInv PROVE InterruptsInOrder
    OBVIOUS
  <2>1. Len(seen) \in Nat /\ \A i \in 1..Len(seen) : seen[i] \in Lines
    BY LenProperties, ElementOfSeq DEF TypeOK, InterruptType
  <2>2. \A i \in 1..(Len(seen) - 1) : seen[i] < seen[i + 1]
    <3> SUFFICES ASSUME NEW i \in 1..(Len(seen) - 1) PROVE seen[i] < seen[i + 1]
      OBVIOUS
    <3>1. i \in 1..Len(seen) /\ i + 1 \in 1..Len(seen) /\ i < i + 1
      BY <2>1
    <3>2. seen[i + 1] # Eof
      BY <2>1, <3>1 DEF Lines, Eof
    <3> QED BY <3>1, <3>2 DEF OrderInv, Asc
  <2>3. gen \in Nat
    BY CoreAssumption DEF TypeOK, RunType
  <2> DEFINE Left == {c \in 1..gen : Disposed(c)}
  <2>4. IsFiniteSet(1..gen) /\ Left \subseteq 1..gen /\ Spent \subseteq Left
    BY <2>3, FS_Interval DEF Spent
  <2>5. IsFiniteSet(Left) /\ IsFiniteSet(Spent) /\ Cardinality(Spent) <= Cardinality(Left)
    BY <2>4, FS_Subset
  <2>6. Cardinality(Spent) \in Nat /\ Cardinality(Left) \in Nat /\ Cardinality(swallowed) \in Nat
        /\ Cardinality(swallowed) <= Cardinality(Spent)
    BY <2>5, FS_CardinalityType DEF ReaderInv
  <2>7. Cardinality(swallowed) <= Cardinality(Left)
    BY <2>5, <2>6
  <2> QED BY <2>2, <2>7 DEF InterruptsInOrder
<1> QED BY <1>1, TypeCorrect, LinesInvariant, PTL

-----------------------------------------------------------------------------
(* Typed lines that no place they pass holds, and no core or reader has    *)
(* taken: these are lost.                                                  *)
Kept      == Vals(seen) \cup FromDrain \cup swallowed
LostLines == (1..typed) \ Kept

(* A step loses no typed line, but for the two that clear what is on its   *)
(* way, the forwarder's close and the spawn of the next core, and but for  *)
(* the lines of an append or a drain that failed.                          *)
NoTypedLineLost ==
  [][gen' = gen /\ (forward' = "off" => forward = "off")
       => LostLines' \subseteq LostLines \cup failed']_vars

(* A hand holds a line only while it is being put down.                    *)
HandInv ==
  /\ \A c \in Cores : line[c] # Eof => reader[c] = "adding"
  /\ taken # Eof => forward = "write"

LEMMA HandStep == ASSUME InterruptType, ReaderInv, HandInv, [Next]_vars PROVE HandInv'
<1>1. ASSUME NEW c \in Cores, ReadLine(c) PROVE HandInv'
  BY <1>1 DEF ReadLine, HandInv, InterruptType, chanVars
<1>2. ASSUME NEW c \in Cores, AddLine(c) PROVE HandInv'
  <2>1. /\ line' = [line EXCEPT ![c] = Eof] /\ UNCHANGED <<forward, taken>>
        /\ reader' = [reader EXCEPT ![c] = IF line[c] = Eof THEN "ended" ELSE "reading"]
    BY <1>2 DEF AddLine
  <2> QED BY <2>1 DEF HandInv, InterruptType
<1>3. CASE CloseForwarder
  BY <1>3 DEF CloseForwarder, HandInv, InterruptType
<1>4. CASE TakeLine \/ WriteLine \/ WriteFails \/ Cancelled
  BY <1>4 DEF TakeLine, WriteLine, WriteFails, Cancelled, HandInv, readVars
<1>5. CASE Spawn
  <2>1. main = "spawn" /\ UNCHANGED <<line, taken>>
        /\ reader' = [reader EXCEPT ![gen + 1] = "reading"]
    BY <1>5 DEF Spawn
  <2>2. forward = "off" /\ \A c \in Cores : line[c] = Eof
    BY <2>1 DEF ReaderInv
  <2> QED BY <2>1, <2>2 DEF HandInv
<1>6. CASE SpawnFails \/ DeadlinePasses \/ Notice \/ Timeout \/ Joined \/ ForwarderJoined \/ Collect \/ Kill
  BY <1>6 DEF SpawnFails, DeadlinePasses, Notice, Timeout, Joined, ForwarderJoined, Collect, Kill,
              HandInv, interruptVars, readVars, chanVars
<1>7. CASE RelayStep \/ \E s \in Streams : CoreWrites(s)
  BY <1>7 DEF RelayStep, RelayHead, RelayIdle, RelayChunk, RelayEof, CoreWrites, HandInv,
              interruptVars, readVars, chanVars
<1>8. CASE Drain \/ Type \/ CloseInput
  BY <1>8 DEF Drain, DrainMove, DrainRead, DrainFails, Type, CloseInput, HandInv, readVars,
              chanVars
<1>9. CASE CoreCrashes \/ (\E e \in Exits : CoreExits(e[1], e[2])) \/ (\E c \in Cores : CoreGone(c))
  BY <1>9 DEF CoreCrashes, CoreExits, CoreGone, HandInv, interruptVars, readVars, chanVars
<1>10. CASE UNCHANGED vars
  BY <1>10 DEF vars, HandInv, interruptVars, readVars, chanVars
<1> QED BY <1>1, <1>2, <1>3, <1>4, <1>5, <1>6, <1>7, <1>8, <1>9, <1>10
        DEF Next, MainStep, ForwardStep, ReadStep

LEMMA HandInvariant == Spec => []HandInv
<1>1. Init => HandInv
  BY DEF Init, HandInv
<1>2. TypeOK /\ ReaderInv /\ HandInv /\ [Next]_vars => HandInv'
  BY HandStep DEF TypeOK
<1> QED BY <1>1, <1>2, TypeCorrect, LinesInvariant, PTL DEF Spec

(* What has left a place is in the next one.                               *)
LEMMA LinesStay ==
  ASSUME RunType, InterruptType, OrderInv, HandInv, [Next]_vars,
         gen' = gen, forward' = "off" => forward = "off"
  PROVE  Kept \subseteq Kept' \cup failed' /\ (typed' = typed \/ (typed' = typed + 1 /\ typed' \in Kept'))
<1> USE OrderTypes
<1>0. /\ Vals(<<>>) = {} /\ \A s \in Seq(Nat) : Vals(s) \subseteq Nat \ {Eof}
      /\ Hand \subseteq Nat \ {Eof} /\ Taken \subseteq Nat \ {Eof}
  BY DEF Vals, Hand, Taken, Eof
<1>k. Kept = Vals(seen) \cup Vals(draining) \cup Vals(file) \cup Taken \cup Vals(queue)
             \cup Hand \cup Vals(input) \cup swallowed
  BY DEF Kept, FromDrain, FromFile, FromTaken, FromQueue, FromHand
<1>l. Kept' = Vals(seen') \cup Vals(draining') \cup Vals(file') \cup Taken' \cup Vals(queue')
              \cup Hand' \cup Vals(input') \cup swallowed'
  BY DEF Kept, FromDrain, FromFile, FromTaken, FromQueue, FromHand
<1>1. CASE Type
  <2>1. typed' = typed + 1 /\ input' = Append(input, typed + 1)
        /\ UNCHANGED <<line, queue, taken, file, draining, seen, swallowed>>
    BY <1>1 DEF Type, chanVars, lostVars
  <2>2. Before(Vals(input), {typed + 1} \ {Eof})
    BY <1>0 DEF Before, OrderInv, FromDrain, FromFile, FromTaken, FromQueue, FromHand
  <2>3. typed + 1 \in Nat \ {Eof}
    BY DEF Eof
  <2>4. Vals(input') = Vals(input) \cup {typed + 1}
    BY <2>1, <2>2, <2>3, AscAppend DEF OrderInv
  <2>5. Hand' = Hand /\ Taken' = Taken
    BY <2>1 DEF Hand, Taken
  <2> QED BY <1>k, <1>l, <2>1, <2>4, <2>5
<1>2. ASSUME NEW c \in Cores, ReadLine(c) PROVE Kept \subseteq Kept' /\ typed' = typed
  <2> DEFINE read == IF input # <<>> THEN Head(input) ELSE Eof
  <2>1. /\ UNCHANGED <<typed, queue, taken, file, draining, seen>> /\ reader[c] = "reading"
        /\ input' = (IF input # <<>> THEN Tail(input) ELSE input)
        /\ \/ line' = [line EXCEPT ![c] = read] /\ swallowed' = swallowed
           \/ line' = line /\ swallowed' = IF read = Eof THEN swallowed ELSE swallowed \cup {read}
    BY <1>2 DEF ReadLine, chanVars
  <2>2. Vals(input) = Vals(input') \cup ({read} \ {Eof})
    <3>1. CASE input = <<>>
      BY <1>0, <2>1, <3>1
    <3>2. CASE input # <<>>
      BY <2>1, <3>2, AscTail DEF OrderInv
    <3> QED BY <3>1, <3>2
  <2> HIDE DEF read
  <2>3. line[c] = Eof
    BY <2>1 DEF HandInv
  <2>4. Taken' = Taken
    BY <2>1 DEF Taken
  <2>5. Hand \cup ({read} \ {Eof}) \subseteq Hand' \cup swallowed' /\ swallowed \subseteq swallowed'
    BY <2>1, <2>3 DEF Hand, InterruptType
  <2> QED BY <1>k, <1>l, <2>1, <2>2, <2>4, <2>5
<1>3. ASSUME NEW c \in Cores, AddLine(c) PROVE Kept \subseteq Kept' /\ typed' = typed
  <2>1. /\ UNCHANGED <<typed, input, taken, file, draining, seen, swallowed>>
        /\ queue' = Append(queue, line[c]) /\ line' = [line EXCEPT ![c] = Eof]
    BY <1>3 DEF AddLine, lostVars
  <2>2. {line[c]} \ {Eof} \subseteq Hand
    BY DEF Hand
  <2>3. Before(Vals(queue), {line[c]} \ {Eof})
    BY <2>2 DEF OrderInv, FromHand, Before
  <2>4. Vals(queue') = Vals(queue) \cup ({line[c]} \ {Eof})
    BY <2>1, <2>3, AscAppend DEF OrderInv
  <2>5. Taken' = Taken /\ Hand \subseteq Hand' \cup ({line[c]} \ {Eof})
    BY <2>1 DEF Hand, Taken, InterruptType
  <2> QED BY <1>k, <1>l, <2>1, <2>4, <2>5
<1>4. CASE TakeLine
  <2>1. /\ UNCHANGED <<typed, input, line, file, draining, seen, swallowed>> /\ queue # <<>>
        /\ queue' = Tail(queue) /\ taken' = Head(queue) /\ forward = "idle"
    BY <1>4 DEF TakeLine, readVars, lostVars
  <2>2. Vals(queue) = Vals(queue') \cup ({taken'} \ {Eof})
    BY <2>1, AscTail DEF OrderInv
  <2>3. Taken = {} /\ Taken' = {taken'} \ {Eof} /\ Hand' = Hand
    BY <2>1 DEF Hand, Taken, HandInv
  <2> QED BY <1>k, <1>l, <2>1, <2>2, <2>3
<1>5. CASE WriteLine
  <2>1. /\ UNCHANGED <<typed, input, line, queue, draining, seen, swallowed>>
        /\ file' = Append(file, taken) /\ taken' = Eof
    BY <1>5 DEF WriteLine, readVars, lostVars
  <2>2. Before(Vals(file), {taken} \ {Eof})
    BY DEF OrderInv, FromTaken, Taken, Before
  <2>3. Vals(file') = Vals(file) \cup Taken
    BY <2>1, <2>2, AscAppend DEF OrderInv, Taken
  <2>4. Hand' = Hand
    BY <2>1 DEF Hand
  <2> QED BY <1>k, <1>l, <2>1, <2>3, <2>4
<1>6. CASE DrainMove
  <2>1. /\ UNCHANGED <<typed, input, line, queue, taken, seen, swallowed>>
        /\ draining = <<>> /\ draining' = file /\ file' = <<>>
    BY <1>6 DEF DrainMove, readVars, lostVars
  <2>2. Taken' = Taken /\ Hand' = Hand
    BY <2>1 DEF Taken, Hand
  <2> QED BY <1>0, <1>k, <1>l, <2>1, <2>2
<1>7. CASE DrainRead
  <2>1. /\ UNCHANGED <<typed, input, line, queue, taken, file, swallowed>>
        /\ seen' = seen \o draining /\ draining' = <<>>
    BY <1>7 DEF DrainRead, readVars, lostVars
  <2>2. Before(Vals(seen), Vals(draining))
    BY DEF OrderInv, FromDrain, Before
  <2>3. Vals(seen') = Vals(seen) \cup Vals(draining)
    BY <2>1, <2>2, AscConcat DEF OrderInv
  <2>4. Taken' = Taken /\ Hand' = Hand
    BY <2>1 DEF Taken, Hand
  <2> QED BY <1>0, <1>k, <1>l, <2>1, <2>3, <2>4
<1>10. CASE WriteFails
  <2>1. /\ UNCHANGED <<typed, input, line, queue, file, draining, seen, swallowed>>
        /\ taken \in failed'
    BY <1>10 DEF WriteFails, readVars
  <2>2. Taken \subseteq failed' /\ Hand' = Hand
    BY <2>1 DEF Taken, Hand
  <2> QED BY <1>k, <1>l, <2>1, <2>2
<1>11. CASE DrainFails
  <2>1. /\ UNCHANGED <<typed, input, line, queue, taken, file, seen, swallowed>>
        /\ Range(draining) \subseteq failed'
    BY <1>11 DEF DrainFails, readVars
  <2>2. Vals(draining) \subseteq Range(draining)
    BY DEF Vals, Range
  <2>3. Taken' = Taken /\ Hand' = Hand
    BY <2>1 DEF Taken, Hand
  <2> QED BY <1>k, <1>l, <2>1, <2>2, <2>3
<1>8. ~CloseForwarder /\ ~Spawn
  <2>1. gen \in Nat
    BY CoreAssumption DEF RunType
  <2> QED BY <2>1 DEF CloseForwarder, Spawn
<1>9. CASE UNCHANGED <<orderVars, lostVars>>
  <2>1. Taken' = Taken /\ Hand' = Hand
    BY <1>9 DEF Taken, Hand, orderVars
  <2> QED BY <1>9, <1>k, <1>l, <2>1 DEF orderVars, lostVars
<1> QED BY <1>1, <1>2, <1>3, <1>4, <1>5, <1>6, <1>7, <1>8, <1>9, <1>10, <1>11, LineFrame
        DEF LineStep

(* However lines are typed and cores swapped, nothing else loses any.      *)
THEOREM NoTypedLineIsLost == Spec => NoTypedLineLost
<1>1. TypeOK /\ OrderInv /\ HandInv /\ [Next]_vars
        => (gen' = gen /\ (forward' = "off" => forward = "off")
              => LostLines' \subseteq LostLines \cup failed')
  <2> SUFFICES ASSUME TypeOK, OrderInv, HandInv, [Next]_vars,
                      gen' = gen, forward' = "off" => forward = "off"
               PROVE  LostLines' \subseteq LostLines \cup failed'
    OBVIOUS
  <2>1. Kept \subseteq Kept' \cup failed' /\ (typed' = typed \/ (typed' = typed + 1 /\ typed' \in Kept'))
    BY LinesStay DEF TypeOK
  <2>2. typed \in Nat
    BY OrderTypes DEF TypeOK
  <2>3. LostLines' = (1..typed') \ Kept'
    BY DEF LostLines
  <2>4. \A l \in 1..typed' : l \in 1..typed \/ (l = typed' /\ typed' \in Kept')
    BY <2>1, <2>2
  <2> QED BY <2>1, <2>3, <2>4 DEF LostLines
<1>2. TypeOK /\ OrderInv /\ HandInv /\ [Next]_vars
        => [gen' = gen /\ (forward' = "off" => forward = "off")
              => LostLines' \subseteq LostLines \cup failed']_vars
  BY <1>1
<1> QED BY <1>2, TypeCorrect, LinesInvariant, HandInvariant, PTL DEF Spec, NoTypedLineLost

(***************************************************************************)
(* The other run of a core, the attached one, and the Eye daemon that is   *)
(* tried before it: EyeDelegate, for any amount of output and whatever Eye *)
(* and the core do.                                                        *)
(***************************************************************************)

LEMMA TailOfLines ==
  ASSUME NEW s \in Seq(PipeLines), s # <<>>
  PROVE  /\ Tail(s) \in Seq(PipeLines) /\ Len(Tail(s)) = Len(s) - 1 /\ Head(s) = s[1]
         /\ \A i \in DOMAIN Tail(s) : \E j \in DOMAIN s : Tail(s)[i] = s[j]
         /\ 1 \in DOMAIN s
  <1>1. PICK n \in Nat : n = Len(s) OBVIOUS
  <1>2. n > 0 BY <1>1, EmptySeq
  <1>3. Tail(s) \in Seq(PipeLines) /\ Len(Tail(s)) = n - 1 /\ \A i \in 1..(n - 1) : Tail(s)[i] = s[i + 1]
    BY <1>1, HeadTailProperties
  <1>4. \A i \in 1..(n - 1) : i + 1 \in 1..n OBVIOUS
  <1>5. DOMAIN s = 1..n /\ DOMAIN Tail(s) = 1..(n - 1) BY <1>1, <1>3
  <1>6. 1 \in 1..n BY <1>2
  <1>7. ASSUME NEW i \in DOMAIN Tail(s) PROVE \E j \in DOMAIN s : Tail(s)[i] = s[j]
    <2>1. i \in 1..(n - 1) BY <1>5
    <2>2. i + 1 \in DOMAIN s BY <1>4, <1>5, <2>1
    <2> QED BY <1>3, <2>1, <2>2
  <1> QED BY <1>1, <1>3, <1>5, <1>6, <1>7

LEMMA AppendedLine ==
  ASSUME NEW s \in Seq(PipeLines), NEW new \in PipeLines
  PROVE  /\ Append(s, new) \in Seq(PipeLines) /\ Len(Append(s, new)) = Len(s) + 1
         /\ \A i \in DOMAIN Append(s, new) :
              Append(s, new)[i] = new \/ \E j \in DOMAIN s : Append(s, new)[i] = s[j]
  <1>1. PICK n \in Nat : n = Len(s) OBVIOUS
  <1>2. /\ Append(s, new) \in Seq(PipeLines) /\ Len(Append(s, new)) = n + 1
        /\ \A i \in 1..n : Append(s, new)[i] = s[i] /\ Append(s, new)[n + 1] = new
    BY <1>1, AppendProperties
  <1>3. Append(s, new)[n + 1] = new BY <1>1, AppendProperties
  <1>4. DOMAIN s = 1..n /\ DOMAIN Append(s, new) = 1..(n + 1) BY <1>1, <1>2
  <1>5. ASSUME NEW i \in DOMAIN Append(s, new)
        PROVE  Append(s, new)[i] = new \/ \E j \in DOMAIN s : Append(s, new)[i] = s[j]
    <2>1. i \in 1..n \/ i = n + 1 BY <1>4
    <2> QED BY <1>2, <1>3, <1>4, <2>1
  <1> QED BY <1>1, <1>2, <1>5

LEMMA FirstLines ==
  ASSUME NEW s \in Seq(PipeLines), NEW k \in 0..Len(s)
  PROVE  /\ SubSeq(s, 1, k) \in Seq(PipeLines) /\ Len(SubSeq(s, 1, k)) = k
         /\ \A i \in DOMAIN SubSeq(s, 1, k) : \E j \in DOMAIN s : SubSeq(s, 1, k)[i] = s[j]
  <1>1. PICK n \in Nat : n = Len(s) OBVIOUS
  <1>2. k \in Nat /\ k <= n BY <1>1
  <1>3. DOMAIN s = 1..n /\ \A i \in 1..n : s[i] \in PipeLines BY <1>1, ElementOfSeq
  <1>4. \A i \in 1..k : i \in 1..n /\ 1 + i - 1 = i BY <1>2
  <1>5. /\ SubSeq(s, 1, k) \in Seq(PipeLines) /\ Len(SubSeq(s, 1, k)) = IF 1 <= k THEN k - 1 + 1 ELSE 0
        /\ \A i \in 1..(k - 1 + 1) : SubSeq(s, 1, k)[i] = s[1 + i - 1]
    BY <1>2, <1>3, <1>4, SubSeqProperties
  <1>6. (IF 1 <= k THEN k - 1 + 1 ELSE 0) = k /\ k - 1 + 1 = k BY <1>2
  <1>7. Len(SubSeq(s, 1, k)) = k /\ \A i \in 1..k : SubSeq(s, 1, k)[i] = s[i]
    BY <1>4, <1>5, <1>6
  <1>8. DOMAIN SubSeq(s, 1, k) = 1..k BY <1>2, <1>5, <1>7
  <1> QED BY <1>3, <1>4, <1>5, <1>7, <1>8

(* Before the command is sent Eye does nothing for it; a line of the pipe   *)
(* that ends the command comes from an END Eye wrote, its code 0 from an   *)
(* END 0.                                                                  *)
OwnEnd(piece) == (piece \in Ends => work \in Ends) /\ (piece = "end0" => work = "end0")
LaunchTypeInv ==
  /\ LaunchTypeOK
  /\ \A i \in DOMAIN buf : OwnEnd(buf[i])
  /\ pc \in {"connect", "send"} => work = "none"

LEMMA LaunchTypeInvariant == LaunchSpec => []LaunchTypeInv
  <1>1. LaunchInit => LaunchTypeInv
    <2> SUFFICES ASSUME LaunchInit PROVE LaunchTypeInv OBVIOUS
    <2>1. buf = <<>> /\ buf \in Seq(PipeLines) /\ Len(buf) = 0 /\ DOMAIN buf = {}
      BY EmptySeq DEF LaunchInit
    <2>2. peeked \in 0..Len(buf) BY <2>1 DEF LaunchInit
    <2>3. \A i \in DOMAIN buf : OwnEnd(buf[i]) BY <2>1
    <2>4. LaunchTypeOK BY <2>1, <2>2 DEF LaunchInit, LaunchTypeOK, PipeLines
    <2> QED BY <2>3, <2>4 DEF LaunchInit, LaunchTypeInv
  <1>2. LaunchTypeInv /\ [LaunchNext]_launchVars => LaunchTypeInv'
    <2> SUFFICES ASSUME LaunchTypeInv, [LaunchNext]_launchVars PROVE LaunchTypeInv' OBVIOUS
    <2>0. buf \in Seq(PipeLines) /\ peeked \in 0..Len(buf) /\ Len(buf) \in Nat
      BY DEF LaunchTypeInv, LaunchTypeOK
    <2>1. CASE EyePrints
      <3>1. PICK new \in PipeLines :
              /\ buf' = Append(buf, new)
              /\ work' = IF new \in Ends THEN new ELSE "begun"
        BY <2>1 DEF EyePrints, PipeLines
      <3>2. work \in {"taken", "begun"} /\ UNCHANGED <<opts, pc, conn, peeked, shown, timedOut, coreVars, exit, blind>>
        BY <2>1 DEF EyePrints
      <3>3. /\ buf' \in Seq(PipeLines) /\ Len(buf') = Len(buf) + 1
            /\ \A i \in DOMAIN buf' : buf'[i] = new \/ \E j \in DOMAIN buf : buf'[i] = buf[j]
        BY <2>0, <3>1, AppendedLine
      <3>4. peeked' \in 0..Len(buf') BY <2>0, <3>2, <3>3
      <3>5. \A j \in DOMAIN buf : buf[j] \notin Ends BY <3>2 DEF LaunchTypeInv, OwnEnd, Ends
      <3>6. \A i \in DOMAIN buf' : buf'[i] \in Ends => buf'[i] = new BY <3>3, <3>5
      <3>7. work' \in {"begun"} \cup Ends /\ (new \in Ends => work' = new) BY <3>1
      <3>8. \A i \in DOMAIN buf' : OwnEnd(buf[i])' BY <3>6, <3>7 DEF OwnEnd, Ends
      <3>9. LaunchTypeOK' BY <3>2, <3>3, <3>4, <3>7 DEF LaunchTypeInv, LaunchTypeOK, coreVars
      <3> QED BY <3>2, <3>8, <3>9 DEF LaunchTypeInv
    <2>2. CASE EyeHangsUp
      <3>0. UNCHANGED <<opts, pc, work, peeked, shown, timedOut, coreVars, exit, blind>>
            /\ conn' = "shut"
        BY <2>2 DEF EyeHangsUp
      <3>1. /\ buf' \in Seq(PipeLines) /\ peeked \in 0..Len(buf')
            /\ \A i \in DOMAIN buf' : OwnEnd(buf'[i])
        <4>1. PICK k \in peeked..Len(buf) :
                \/ buf' = SubSeq(buf, 1, k)
                \/ k > peeked /\ \E piece \in CutOff(buf[k]) :
                     buf' = Append(SubSeq(buf, 1, k - 1), piece)
          BY <2>2 DEF EyeHangsUp
        <4>2. k \in 0..Len(buf) /\ k \in Nat /\ peeked \in 0..k BY <2>0
        <4>3. CASE buf' = SubSeq(buf, 1, k)
          <5>1. buf' \in Seq(PipeLines) /\ Len(buf') = k
                /\ \A i \in DOMAIN buf' : \E j \in DOMAIN buf : buf'[i] = buf[j]
            BY <2>0, <4>2, <4>3, FirstLines
          <5> QED BY <4>2, <5>1 DEF LaunchTypeInv
        <4>4. CASE k > peeked /\ \E piece \in CutOff(buf[k]) :
                     buf' = Append(SubSeq(buf, 1, k - 1), piece)
          <5>1. PICK piece \in CutOff(buf[k]) : buf' = Append(SubSeq(buf, 1, k - 1), piece)
            BY <4>4
          <5>2. k - 1 \in 0..Len(buf) /\ k \in 1..Len(buf) /\ peeked \in 0..k
            BY <2>0, <4>2, <4>4
          <5>3. k \in DOMAIN buf /\ buf[k] \in PipeLines BY <2>0, <5>2, ElementOfSeq
          <5>4. OwnEnd(buf[k]) BY <5>3 DEF LaunchTypeInv
          <5>5. piece \in PipeLines /\ OwnEnd(piece)
            BY <5>3, <5>4 DEF CutOff, OwnEnd, PipeLines, Ends
          <5> DEFINE kept == SubSeq(buf, 1, k - 1)
          <5>6. kept \in Seq(PipeLines) /\ Len(kept) = k - 1
                /\ \A i \in DOMAIN kept : \E j \in DOMAIN buf : kept[i] = buf[j]
            BY <2>0, <5>2, FirstLines
          <5>7. \A i \in DOMAIN kept : OwnEnd(kept[i]) BY <5>6 DEF LaunchTypeInv
          <5> HIDE DEF kept
          <5>8. buf' = Append(kept, piece) BY <5>1 DEF kept
          <5>9. buf' \in Seq(PipeLines) /\ Len(buf') = k - 1 + 1
                /\ \A i \in DOMAIN buf' : buf'[i] = piece \/ \E j \in DOMAIN kept : buf'[i] = kept[j]
            BY <5>5, <5>6, <5>8, AppendedLine
          <5>10. Len(buf') = k BY <4>2, <5>9
          <5> QED BY <5>2, <5>5, <5>7, <5>9, <5>10
        <4> QED BY <4>1, <4>3, <4>4
      <3>2. \A i \in DOMAIN buf' : OwnEnd(buf[i])' BY <3>0, <3>1 DEF OwnEnd
      <3>3. LaunchTypeOK' BY <3>0, <3>1 DEF LaunchTypeInv, LaunchTypeOK, coreVars
      <3> QED BY <3>0, <3>2, <3>3 DEF LaunchTypeInv
    <2>3. CASE ReadPipeLine
      <3>1. buf # <<>> /\ buf' = Tail(buf) /\ peeked' = IF peeked > 0 THEN peeked - 1 ELSE 0
        BY <2>3 DEF ReadPipeLine
      <3>2. /\ buf' \in Seq(PipeLines) /\ Len(buf') = Len(buf) - 1
            /\ \A i \in DOMAIN buf' : \E j \in DOMAIN buf : buf'[i] = buf[j]
        BY <2>0, <3>1, TailOfLines
      <3>3. Len(buf') \in Nat BY <3>2
      <3>4. peeked' \in 0..Len(buf') BY <2>0, <3>1, <3>2, <3>3
      <3>5. shown' \in Nat /\ exit' \in {"none", "zero", "bad", "timeout"} \cup {exit}
            /\ pc' \in {"read", "done"}
        BY <2>3 DEF ReadPipeLine, End, Goto, LaunchTypeInv, LaunchTypeOK
      <3>6. UNCHANGED <<opts, conn, work, timedOut, coreVars>> /\ blind' \in {blind, "garbled"}
        BY <2>3 DEF ReadPipeLine
      <3>7. \A i \in DOMAIN buf' : OwnEnd(buf[i])' BY <3>2, <3>6 DEF LaunchTypeInv, OwnEnd
      <3>8. LaunchTypeOK' BY <3>2, <3>4, <3>5, <3>6 DEF LaunchTypeInv, LaunchTypeOK, coreVars
      <3> QED BY <3>5, <3>7, <3>8 DEF LaunchTypeInv
    <2>4. CASE Peek
      <3>1. peeked' \in 0..Len(buf) BY <2>0, <2>4 DEF Peek
      <3> QED BY <2>4, <3>1 DEF Peek, Goto, LaunchTypeInv, OwnEnd, LaunchTypeOK, coreVars
    <2>5. CASE TimerFires BY <2>5 DEF TimerFires, LaunchTypeInv, OwnEnd, LaunchTypeOK, coreVars
    <2>6. CASE Connect
      BY <2>6 DEF Connect, Goto, LaunchTypeInv, OwnEnd, LaunchTypeOK, eyeVars, coreVars
    <2>7. CASE Send
      <3>1. work' = "taken" /\ pc' \in {"first", "read"} /\ UNCHANGED exit
        BY <2>7 DEF Send, Goto
      <3>2. UNCHANGED <<opts, conn, buf, peeked, shown, timedOut, coreVars, blind>>
        BY <2>7 DEF Send
      <3>3. \A i \in DOMAIN buf : buf[i] \notin Ends
        <4>1. work = "none" BY <2>7 DEF LaunchTypeInv, Send
        <4> QED BY <4>1 DEF LaunchTypeInv, OwnEnd, Ends
      <3>4. \A i \in DOMAIN buf' : OwnEnd(buf[i])' BY <3>2, <3>3 DEF OwnEnd, Ends
      <3>5. LaunchTypeOK' BY <3>1, <3>2 DEF LaunchTypeInv, OwnEnd, LaunchTypeOK, coreVars
      <3> QED BY <3>1, <3>4, <3>5 DEF LaunchTypeInv
    <2>8. CASE GuardExpires
      BY <2>8 DEF GuardExpires, Goto, LaunchTypeInv, OwnEnd, LaunchTypeOK, eyeVars, coreVars
    <2>9. CASE ReadEof
      BY <2>9 DEF ReadEof, Goto, LaunchTypeInv, OwnEnd, LaunchTypeOK, eyeVars, coreVars
    <2>10. CASE Incomplete
      BY <2>10 DEF Incomplete, End, Goto, LaunchTypeInv, OwnEnd, LaunchTypeOK, eyeVars,
         coreVars
    <2>11. CASE SendFails
      BY <2>11 DEF SendFails, CatchAll, End, LaunchTypeInv, OwnEnd, LaunchTypeOK, eyeVars,
         coreVars
    <2>12. CASE ReadFails
      BY <2>12 DEF ReadFails, CatchAll, End, LaunchTypeInv, OwnEnd, LaunchTypeOK, eyeVars,
         coreVars
    <2>13. CASE EofTimedOut
      BY <2>13 DEF EofTimedOut, CatchAll, End, LaunchTypeInv, OwnEnd, LaunchTypeOK,
         eyeVars, coreVars
    <2>14. CASE ReadTimesOut
      BY <2>14 DEF ReadTimesOut, End, LaunchTypeInv, OwnEnd, LaunchTypeOK, eyeVars, coreVars
    <2>15. CASE FallBack
      BY <2>15 DEF FallBack, End, Goto, LaunchTypeInv, OwnEnd, LaunchTypeOK, eyeVars,
         coreVars
    <2>16. CASE Core
      <3>1. /\ attached' \in {"up", "zero", "bad", "killed"} /\ coreOut' \in {"full", "empty", "shut"}
            /\ quit' \in BOOLEAN
        BY <2>16 DEF Core, LaunchTypeInv, OwnEnd, LaunchTypeOK
      <3>2. UNCHANGED <<opts, pc, eyeVars, shown, timedOut, late, exit, blind>>
        BY <2>16 DEF Core
      <3> QED BY <3>1, <3>2 DEF LaunchTypeInv, OwnEnd, LaunchTypeOK, eyeVars
    <2>17. CASE Clock
      BY <2>17 DEF Clock, LaunchTypeInv, OwnEnd, LaunchTypeOK, eyeVars, coreVars
    <2>18. CASE CoreRead
      BY <2>18 DEF CoreRead, AttachedCode, End, Goto, LaunchTypeInv, OwnEnd, LaunchTypeOK,
         eyeVars, coreVars
    <2>19. CASE CoreEof
      BY <2>19 DEF CoreEof, AttachedCode, End, Goto, LaunchTypeInv, OwnEnd, LaunchTypeOK,
         eyeVars, coreVars
    <2>20. CASE CoreLeft
      BY <2>20 DEF CoreLeft, AttachedCode, End, Goto, LaunchTypeInv, OwnEnd, LaunchTypeOK,
         eyeVars, coreVars
    <2>21. CASE CoreQuits
      BY <2>21 DEF CoreQuits, AttachedCode, End, Goto, LaunchTypeInv, OwnEnd, LaunchTypeOK,
         eyeVars, coreVars
    <2>22. CASE UNCHANGED launchVars
      BY <2>22 DEF launchVars, LaunchTypeInv, OwnEnd, LaunchTypeOK, eyeVars, coreVars
    <2> QED BY <2>1, <2>2, <2>3, <2>4, <2>5, <2>6, <2>7, <2>8, <2>9, <2>10, <2>11, <2>12,
               <2>13, <2>14, <2>15, <2>16, <2>17, <2>18, <2>19, <2>20, <2>21, <2>22
                  DEF LaunchNext, TryDelegate, RunCore
  <1> QED BY <1>1, <1>2, PTL DEF LaunchSpec

(* The launch stays within its types; the guard has read ahead no more than*)
(* the pipe holds.                                                         *)
THEOREM LaunchTypeCorrect == LaunchSpec => []LaunchTypeOK
  <1>1. LaunchTypeInv => LaunchTypeOK BY DEF LaunchTypeInv
  <1> QED BY <1>1, LaunchTypeInvariant, PTL

(***************************************************************************)
(* One outcome. Before anything of Eye's is read nothing is shown; a launch*)
(* that is past Eye has lost it; a core runs only there.                   *)
(***************************************************************************)
PastEye == pc \in {"fall", "core", "left"} \/ attached # "none"
LaunchInv ==
  /\ pc \notin {"read", "eof", "done"} \/ attached # "none" => shown = 0
  /\ pc \in {"first", "second"} => opts.guarded
  /\ pc = "eof" /\ ~timedOut => conn = "shut"
  /\ PastEye => (work # "none" => conn = "shut" \/ (opts.guarded /\ conn = "closed"))
  /\ pc \in {"core", "left"} => attached # "none"
  /\ attached # "none" => pc \in {"core", "left", "done"}
  /\ exit # "none" \/ blind # "no" => pc = "done"
  /\ OneOutcome

LEMMA LaunchInvariant == LaunchSpec => []LaunchInv
  <1>1. LaunchInit => LaunchInv BY DEF LaunchInit, LaunchInv, PastEye, OneOutcome
  <1>2. LaunchTypeInv /\ LaunchInv /\ [LaunchNext]_launchVars => LaunchInv'
    <2> SUFFICES ASSUME LaunchTypeInv, LaunchInv, [LaunchNext]_launchVars PROVE LaunchInv' OBVIOUS
    <2>1. CASE EyePrints
      <3>1. /\ conn = "open" /\ work \in {"taken", "begun"} /\ work' # "none"
            /\ UNCHANGED <<opts, pc, conn, shown, timedOut, attached, quit, exit, blind>>
        BY <2>1 DEF EyePrints, Ends, coreVars
      <3> QED BY <3>1 DEF LaunchInv, PastEye, OneOutcome, Ends
    <2>2. CASE EyeHangsUp
      <3>1. /\ conn = "open" /\ conn' = "shut"
            /\ UNCHANGED <<opts, pc, work, shown, timedOut, attached, quit, exit, blind>>
        BY <2>2 DEF EyeHangsUp, coreVars
      <3> QED BY <3>1 DEF LaunchInv, PastEye, OneOutcome
    <2>3. CASE ReadPipeLine
      <3>1. pc = "read" /\ attached = "none" /\ exit = "none"
        BY <2>3 DEF ReadPipeLine, LaunchInv
      <3>2. UNCHANGED <<opts, conn, work, timedOut, attached, quit>>
        BY <2>3 DEF ReadPipeLine, coreVars
      <3>3. \/ pc' = "read" /\ exit' = exit /\ blind' = blind
            \/ pc' = "done" /\ exit' \in {"timeout", "bad"} /\ blind' = blind
            \/ pc' = "done" /\ exit' = "zero" /\ Head(buf) = "end0" /\ blind' = blind
            \/ pc' = "done" /\ exit' = "zero" /\ Head(buf) \in Ends /\ blind' = "garbled"
        BY <2>3 DEF ReadPipeLine, End, Goto, Ends
      <3>4. OwnEnd(Head(buf))
        <4>1. buf # <<>> /\ buf \in Seq(PipeLines)
          BY <2>3 DEF ReadPipeLine, LaunchTypeInv, LaunchTypeOK
        <4>2. Head(buf) = buf[1] /\ 1 \in DOMAIN buf BY <4>1, TailOfLines
        <4> QED BY <4>2 DEF LaunchTypeInv
      <3> QED BY <3>1, <3>2, <3>3, <3>4 DEF OwnEnd, LaunchInv, PastEye, OneOutcome
    <2>4. CASE TimerFires
      BY <2>4 DEF TimerFires, LaunchInv, PastEye, OneOutcome, coreVars
    <2>5. CASE Connect
      BY <2>5 DEF Connect, Goto, LaunchTypeInv, LaunchInv, PastEye, OneOutcome,
         coreVars
    <2>6. CASE Send
      BY <2>6 DEF Send, Goto, LaunchTypeInv, LaunchInv, PastEye, OneOutcome, coreVars
    <2>7. CASE Peek
      BY <2>7 DEF Peek, Goto, LaunchInv, PastEye, OneOutcome, coreVars
    <2>8. CASE GuardExpires
      BY <2>8 DEF GuardExpires, Goto, LaunchInv, PastEye, OneOutcome, coreVars
    <2>9. CASE ReadEof
      BY <2>9 DEF ReadEof, Goto, LaunchInv, PastEye, OneOutcome, coreVars,
         eyeVars
    <2>10. CASE Incomplete
      <3>1. shown \in Nat BY DEF LaunchTypeInv, LaunchTypeOK
      <3> QED
        BY <2>10, <3>1 DEF Incomplete, Goto, End, LaunchInv, PastEye,
           OneOutcome, coreVars, eyeVars
    <2>11. CASE SendFails \/ ReadFails \/ EofTimedOut \/ ReadTimesOut
      BY <2>11 DEF SendFails, ReadFails, EofTimedOut, ReadTimesOut,
         CatchAll, End, LaunchInv,
         PastEye, OneOutcome, coreVars, eyeVars
    <2>12. CASE FallBack
      BY <2>12 DEF FallBack, End, Goto, LaunchInv, PastEye, OneOutcome,
         eyeVars
    <2>13. CASE Core
      <3>1. /\ attached # "none" /\ attached' # "none" /\ pc # "done" /\ exit = "none"
            /\ UNCHANGED <<opts, pc, conn, work, shown, timedOut, exit, blind>>
        BY <2>13 DEF Core, LaunchInv, eyeVars
      <3> QED BY <3>1 DEF LaunchInv, PastEye, OneOutcome
    <2>14. CASE Clock
      BY <2>14 DEF Clock, LaunchInv, PastEye, OneOutcome, eyeVars
    <2>15. CASE RunCore
      <3>1. pc \in {"core", "left"} /\ attached # "none" /\ shown = 0
        BY <2>15 DEF RunCore, CoreRead, CoreEof, CoreLeft, CoreQuits,
           LaunchInv
      <3>2. attached' # "none" /\ pc' \in {"core", "left", "done"}
            /\ UNCHANGED <<opts, conn, work, shown, timedOut, blind>>
        BY <2>15, <3>1 DEF RunCore, CoreRead, CoreEof, CoreLeft,
           CoreQuits, End, Goto, eyeVars, coreVars
      <3>3. /\ exit' # "none" => pc' = "done"
            /\ exit' = "zero" => attached' = "zero" \/ quit'
            /\ exit' # "partial"
        BY <2>15, <3>1 DEF RunCore, CoreRead, CoreEof, CoreLeft,
           CoreQuits, AttachedCode, End, Goto,
           LaunchInv, coreVars
      <3> QED BY <3>1, <3>2, <3>3 DEF LaunchInv, PastEye, OneOutcome
    <2>16. CASE UNCHANGED launchVars
      BY <2>16 DEF launchVars, LaunchInv, PastEye, OneOutcome, eyeVars, coreVars
    <2> QED BY <2>1, <2>2, <2>3, <2>4, <2>5, <2>6, <2>7, <2>8, <2>9, <2>10, <2>11, <2>12, <2>13,
               <2>14, <2>15, <2>16 DEF LaunchNext, TryDelegate
  <1> QED BY <1>1, <1>2, LaunchTypeInvariant, PTL DEF LaunchSpec

(* Output of Eye that was shown is the outcome: no core runs the command   *)
(* again, and exit code 0 is earned by the one run it reports, or is one of*)
(* the three leftovers of Eye's run.                                       *)
THEOREM OutcomeOfOneRun == LaunchSpec => []OneOutcome
  <1>1. LaunchInv => OneOutcome BY DEF LaunchInv
  <1> QED BY <1>1, LaunchInvariant, PTL
=============================================================================
