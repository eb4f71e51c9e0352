----------------------------- MODULE DetachedCore -----------------------------
(***************************************************************************)
(* The launcher's detached run of a core (IocpPipeRelay.cs): spawn it with *)
(* its output on two named pipes, relay them from a completion-port thread,*)
(* poll the exit event, the process and the deadline, stop the threads,    *)
(* take the exit code, terminate the core, and spawn again on code 99. At  *)
(* the side, lines typed into the launcher go through a reader thread      *)
(* (NonBlockingLineReader.cs) and a forwarder to the core's interrupt file *)
(* (InterruptChannel.cs), which the core drains.                           *)
(*                                                                         *)
(* The core is external: it writes, drains when it cares to, and exits by  *)
(* leaving its code in the exit file and setting the named event, which it *)
(* then holds open until its process is gone (up to 30 s later), or it just*)
(* crashes. The exit file is named for the launcher's pid, and an earlier  *)
(* launcher of that pid may have left one (its timeout path deletes none). *)
(* Writing to the terminal is part of a relay step and always ends.        *)
(***************************************************************************)
EXTENDS Naturals, Sequences, FiniteSets, Functions

CONSTANTS
  Streams,   (* its output streams, stdout and stderr                      *)
  MaxCore,   (* bound: cores one launcher spawns                           *)
  MaxChunk,  (* bound: writes of a core to each stream                     *)
  PipeCap,   (* writes a pipe buffers                                      *)
  MaxLine,   (* bound: lines typed, numbered in order                      *)
  QueueCap,  (* boundedCapacity of the reader's queue                      *)
  Exits,     (* how cores exit: the code, and "own" or, when the file is   *)
             (* half of it or empty, "torn"                                *)
  Leftovers  (* codes an exit file found at the start may have             *)

(* 0, another code, 99, and a negative one, which has no uint text.        *)
Codes == {"ok", "error", "swap", "negative"}

ASSUME CoreAssumption ==
  /\ IsFiniteSet(Streams) /\ MaxCore \in Nat \ {0} /\ MaxChunk \in Nat /\ PipeCap \in Nat \ {0}
  /\ MaxLine \in Nat /\ QueueCap \in Nat \ {0}
  /\ Exits \subseteq Codes \X {"own", "torn"} /\ Leftovers \subseteq Codes

Cores   == 1..MaxCore
Lines   == 1..MaxLine
Eof     == 0          (* the null sentinel in a reader's queue             *)

VARIABLES
  main,      (* spawn, poll, join, await, collect, kill, returned          *)
  result,    (* the code it returns, timeout, or fallback to RunCore       *)
  deadline,  (* --timeout: passed, or ahead, which it stays when none is set*)
  gen,       (* the current core; 0 before the first                       *)
  core,      (* none, run, exited (it signalled), dying (terminated), dead *)
  code,      (* each core's own exit code, none while it has not ended     *)
  exitFile,  (* the exit file: the code it was written for, or none        *)
  filed,     (* whose text it is or was: the core's own, torn (half of it  *)
             (* or nothing), or foreign (found at the start)               *)
  event,     (* the named exit event is set                                *)
  holds,     (* cores with a handle to the event                           *)
  stale,     (* history: cores spawned with the event already set          *)
  pipe,      (* writes in each pipe                                        *)
  wrote,     (* writes the current core made                               *)
  relay,     (* the relay thread: head, wait, done                         *)
  eofs,      (* streams whose end it saw                                   *)
  stop,      (* stopFlag                                                   *)
  typed,     (* lines typed so far                                         *)
  input,     (* typed lines no thread has read                             *)
  closed,    (* stdin reached its end                                      *)
  reader,    (* each core's reader thread: none, reading, adding, ended    *)
  line,      (* the line a reader is adding                                *)
  queue,     (* the current reader's queue                                 *)
  forward,   (* the current forwarder: off, idle, write, closing           *)
  taken,     (* the line it is writing                                     *)
  cancel,    (* interruptCts                                               *)
  file,      (* the current core's interrupt file                          *)
  draining,  (* and the copy its Drain() moved aside                       *)
  seen,      (* lines cores drained, in order                              *)
  swallowed, (* history: lines read by the reader of an earlier core       *)
  failed     (* history: lines whose append failed, or read by a drain     *)

exitVars   == <<code, exitFile, filed, event, holds>>
relayVars  == <<pipe, wrote, relay, eofs, stop>>
readVars   == <<typed, input, closed, reader, line>>
chanVars   == <<queue, forward, taken, cancel, file, draining, seen>>
lostVars   == <<swallowed, failed>>
interruptVars == <<readVars, chanVars, lostVars>>
vars == <<main, result, deadline, gen, core, exitVars, stale, relayVars, interruptVars>>

RunType ==
  /\ main \in {"spawn", "poll", "join", "await", "collect", "kill", "returned"}
  /\ result \in Codes \cup {"none", "timeout", "fallback"}
  /\ deadline \in {"ahead", "passed"}
  /\ gen \in 0..MaxCore
  /\ core \in [Cores -> {"none", "run", "exited", "dying", "dead"}]
  /\ \A c \in Cores : c > gen <=> core[c] = "none"
  /\ main \notin {"spawn", "returned"} => gen > 0
  /\ code \in [Cores -> Codes \cup {"none"}] /\ exitFile \in Codes \cup {"none"}
  /\ filed \in {"own", "torn", "foreign"}
  /\ event \in BOOLEAN /\ holds \in SUBSET (1..gen) /\ stale \in SUBSET (1..gen)
RelayType ==
  /\ pipe \in [Streams -> 0..PipeCap] /\ wrote \in [Streams -> 0..MaxChunk]
  /\ relay \in {"head", "wait", "done"} /\ eofs \in SUBSET Streams /\ stop \in BOOLEAN
InterruptType ==
  /\ typed \in 0..MaxLine /\ input \in Seq(Lines) /\ closed \in BOOLEAN
  /\ reader \in [Cores -> {"none", "reading", "adding", "ended"}]
  /\ line \in [Cores -> Lines \cup {Eof}]
  /\ queue \in Seq(Lines \cup {Eof}) /\ Len(queue) <= QueueCap
  /\ forward \in {"off", "idle", "write", "closing"} /\ taken \in Lines \cup {Eof}
  /\ forward = "write" => taken # Eof
  /\ cancel \in BOOLEAN
  /\ file \in Seq(Lines) /\ draining \in Seq(Lines) /\ seen \in Seq(Lines)
  /\ swallowed \in SUBSET Lines /\ failed \in SUBSET Lines
TypeOK == RunType /\ RelayType /\ InterruptType

Init ==
  /\ main = "spawn" /\ result = "none" /\ deadline = "ahead"
  /\ gen = 0 /\ core = [c \in Cores |-> "none"] /\ code = [c \in Cores |-> "none"]
  /\ exitFile \in {"none"} \cup Leftovers
  /\ filed = IF exitFile = "none" THEN "own" ELSE "foreign"
  /\ event = FALSE /\ holds = {} /\ stale = {}
  /\ pipe = [s \in Streams |-> 0] /\ wrote = [s \in Streams |-> 0]
  /\ relay = "done" /\ eofs = {} /\ stop = FALSE
  /\ typed = 0 /\ input = <<>> /\ closed = FALSE
  /\ reader = [c \in Cores |-> "none"] /\ line = [c \in Cores |-> Eof]
  /\ queue = <<>> /\ forward = "off" /\ taken = Eof /\ cancel = FALSE
  /\ file = <<>> /\ draining = <<>> /\ seen = <<>> /\ swallowed = {} /\ failed = {}

-----------------------------------------------------------------------------
(* The launcher's main thread.                                             *)
Up == main # "returned"

(* Pipes, event, process, forwarder and relay of the next core. CreateEvent*)
(* opens the event of that name, as it is, while anyone holds it.          *)
SpawnSignalled ==   (* mutant: the event is created signalled *)
  /\ main = "spawn" /\ gen < MaxCore
  /\ gen' = gen + 1 /\ core' = [core EXCEPT ![gen + 1] = "run"]
  /\ event' = TRUE
  /\ stale' = IF event /\ holds # {} THEN stale \cup {gen + 1} ELSE stale
  /\ pipe' = [s \in Streams |-> 0] /\ wrote' = [s \in Streams |-> 0]
  /\ relay' = "head" /\ eofs' = {} /\ stop' = FALSE
  /\ reader' = [reader EXCEPT ![gen + 1] = "reading"]
  /\ forward' = "idle" /\ cancel' = FALSE /\ draining' = <<>>
  /\ main' = "poll"
  /\ UNCHANGED <<result, deadline, code, exitFile, filed, holds, typed, input, closed, line,
                 queue, taken, file, seen, lostVars>>
Spawn ==
  /\ main = "spawn" /\ gen < MaxCore
  /\ gen' = gen + 1 /\ core' = [core EXCEPT ![gen + 1] = "run"]
  /\ event' = (holds # {} /\ event)
  /\ stale' = IF event' THEN stale \cup {gen + 1} ELSE stale
  /\ pipe' = [s \in Streams |-> 0] /\ wrote' = [s \in Streams |-> 0]
  /\ relay' = "head" /\ eofs' = {} /\ stop' = FALSE
  /\ reader' = [reader EXCEPT ![gen + 1] = "reading"]
  /\ forward' = "idle" /\ cancel' = FALSE /\ draining' = <<>>
  /\ main' = "poll"
  /\ UNCHANGED <<result, deadline, code, exitFile, filed, holds, typed, input, closed, line,
                 queue, taken, file, seen, lostVars>>

(* A pipe, a client handle or the process cannot be made: RunCore runs the *)
(* command instead. After a swap also: the new executable is not there.    *)
SpawnFails ==
  /\ main = "spawn" /\ main' = "returned"
  /\ result' \in IF gen = 0 THEN {"fallback"} ELSE {"fallback", "error"}
  /\ UNCHANGED <<deadline, gen, core, exitVars, stale, relayVars, interruptVars>>

DeadlinePasses ==
  /\ Up /\ deadline = "ahead" /\ deadline' = "passed"
  /\ UNCHANGED <<main, result, gen, core, exitVars, stale, relayVars, interruptVars>>

(* The poll sees the event or the end of the process and stops the relay.  *)
Ended == event \/ core[gen] = "dead"

Notice ==
  /\ main = "poll" /\ Ended
  /\ main' = "join" /\ stop' = TRUE
  /\ UNCHANGED <<result, deadline, gen, core, exitVars, stale, pipe, wrote, relay, eofs,
                 interruptVars>>

(* The deadline, counted from the launcher's start: it ends itself, and    *)
(* the core is left running.                                               *)
TimeoutUnlessRespawned ==   (* mutant: the deadline holds for the first core only *)
  /\ main = "poll" /\ ~Ended /\ deadline = "passed" /\ gen = 1
  /\ main' = "returned" /\ result' = "timeout"
  /\ UNCHANGED <<deadline, gen, core, exitVars, stale, relayVars, interruptVars>>
Timeout ==
  /\ main = "poll" /\ ~Ended /\ deadline = "passed"
  /\ main' = "returned" /\ result' = "timeout"
  /\ UNCHANGED <<deadline, gen, core, exitVars, stale, relayVars, interruptVars>>

(* iocpThread.Join, then the forwarder is cancelled and joined.            *)
Joined ==
  /\ main = "join" /\ relay = "done"
  /\ main' = "await" /\ cancel' = TRUE
  /\ UNCHANGED <<result, deadline, gen, core, exitVars, stale, relayVars, readVars, queue,
                 forward, taken, file, draining, seen, lostVars>>
ForwarderJoined ==
  /\ main = "await" /\ forward = "off"
  /\ main' = "collect"
  /\ UNCHANGED <<result, deadline, gen, core, exitVars, stale, relayVars, interruptVars>>

(* The exit code: that of the process, and a process still running counts  *)
(* as success; but when there is an exit file, what uint.TryParse makes of *)
(* it, 0 if it cannot. Of a torn one that is 0, another code, or the       *)
(* process's if the read fails. The file is deleted.                       *)
ProcessCode == IF core[gen] = "dead" THEN code[gen] ELSE "ok"
Parsed(text) == IF text = "negative" THEN "ok" ELSE text

CollectProcessCode ==   (* mutant: the exit file is not read *)
  /\ main = "collect"
  /\ result' = ProcessCode
  /\ exitFile' = "none"
  /\ main' = "kill"
  /\ UNCHANGED <<deadline, gen, core, code, filed, event, holds, stale, relayVars, interruptVars>>
Collect ==
  /\ main = "collect"
  /\ result' \in IF exitFile = "none" THEN {ProcessCode}
                 ELSE IF filed = "torn" THEN {"ok", "error", ProcessCode}
                 ELSE {Parsed(exitFile)}
  /\ exitFile' = "none"
  /\ main' = "kill"
  /\ UNCHANGED <<deadline, gen, core, code, filed, event, holds, stale, relayVars, interruptVars>>

(* TerminateProcess, which returns before the process is gone; on code 99  *)
(* the loop spawns again.                                                  *)
KillNot ==   (* mutant: a core that has not gone by itself is left *)
  /\ main = "kill"
  /\ main' = IF result = "swap" THEN "spawn" ELSE "returned"
  /\ IF result = "swap" THEN exitFile' = "none" /\ filed' = "own"
     ELSE UNCHANGED <<exitFile, filed>>
  /\ UNCHANGED <<result, deadline, gen, core, code, event, holds, stale, relayVars,
                 interruptVars>>
Kill ==
  /\ main = "kill"
  /\ core' = [core EXCEPT ![gen] = IF @ = "dead" THEN @ ELSE "dying"]
  /\ main' = IF result = "swap" THEN "spawn" ELSE "returned"
  /\ IF result = "swap" THEN exitFile' = "none" /\ filed' = "own"
     ELSE UNCHANGED <<exitFile, filed>>
  /\ UNCHANGED <<result, deadline, gen, code, event, holds, stale, relayVars, interruptVars>>

-----------------------------------------------------------------------------
(* The relay thread.                                                       *)
RelayHead ==
  /\ Up /\ relay = "head"
  /\ relay' = IF eofs = Streams \/ stop THEN "done" ELSE "wait"
  /\ UNCHANGED <<main, result, deadline, gen, core, exitVars, stale, pipe, wrote, eofs, stop,
                 interruptVars>>

(* A completion: a write of the core, relayed to the terminal; the end of  *)
(* a stream, once no process holds the client end; or 200 ms of nothing.   *)
RelayChunk(s) ==
  /\ Up /\ relay = "wait" /\ pipe[s] > 0
  /\ pipe' = [pipe EXCEPT ![s] = @ - 1] /\ relay' = "head"
  /\ UNCHANGED <<main, result, deadline, gen, core, exitVars, stale, wrote, eofs, stop,
                 interruptVars>>
RelayEof(s) ==
  /\ Up /\ relay = "wait" /\ pipe[s] = 0 /\ s \notin eofs /\ core[gen] = "dead"
  /\ eofs' = eofs \cup {s} /\ relay' = "head"
  /\ UNCHANGED <<main, result, deadline, gen, core, exitVars, stale, pipe, wrote, stop,
                 interruptVars>>
RelayIdle ==
  /\ Up /\ relay = "wait" /\ relay' = "head"
  /\ UNCHANGED <<main, result, deadline, gen, core, exitVars, stale, pipe, wrote, eofs, stop,
                 interruptVars>>

-----------------------------------------------------------------------------
(* The core.                                                               *)
CoreWrites(s) ==
  /\ Up /\ gen > 0 /\ core[gen] = "run" /\ wrote[s] < MaxChunk /\ pipe[s] < PipeCap
  /\ pipe' = [pipe EXCEPT ![s] = @ + 1] /\ wrote' = [wrote EXCEPT ![s] = @ + 1]
  /\ UNCHANGED <<main, result, deadline, gen, core, exitVars, stale, relay, eofs, stop,
                 interruptVars>>

CoreExits(c, whose) ==
  /\ Up /\ gen > 0 /\ core[gen] = "run" /\ (c = "swap" => gen < MaxCore)
  /\ core' = [core EXCEPT ![gen] = "exited"] /\ code' = [code EXCEPT ![gen] = c]
  /\ exitFile' = c /\ filed' = whose
  /\ event' = TRUE /\ holds' = holds \cup {gen}
  /\ UNCHANGED <<main, result, deadline, gen, stale, relayVars, interruptVars>>

CoreCrashes ==
  /\ Up /\ gen > 0 /\ core[gen] = "run"
  /\ core' = [core EXCEPT ![gen] = "dead"] /\ code' = [code EXCEPT ![gen] = "error"]
  /\ \/ UNCHANGED <<exitFile, filed>>
     \/ exitFile' = "error" /\ filed' = "torn"
  /\ UNCHANGED <<main, result, deadline, gen, event, holds, stale, relayVars, interruptVars>>

CoreGone(c) ==
  /\ Up /\ core[c] \in {"exited", "dying"}
  /\ core' = [core EXCEPT ![c] = "dead"] /\ holds' = holds \ {c}
  /\ UNCHANGED <<main, result, deadline, gen, code, exitFile, filed, event, stale, relayVars,
                 interruptVars>>

(* Drain(): move the file aside, then read and delete the copy, which is   *)
(* gone too when it cannot be read. A move that fails changes nothing.     *)
DrainCopies ==   (* mutant: the file is copied, not moved *)
  /\ Up /\ gen > 0 /\ core[gen] = "run" /\ file # <<>> /\ draining = <<>>
  /\ draining' = file
  /\ UNCHANGED <<main, result, deadline, gen, core, exitVars, stale, relayVars, readVars,
                 queue, forward, taken, cancel, file, seen, lostVars>>
DrainMove ==
  /\ Up /\ gen > 0 /\ core[gen] = "run" /\ file # <<>> /\ draining = <<>>
  /\ draining' = file /\ file' = <<>>
  /\ UNCHANGED <<main, result, deadline, gen, core, exitVars, stale, relayVars, readVars,
                 queue, forward, taken, cancel, seen, lostVars>>
DrainRead ==
  /\ Up /\ gen > 0 /\ core[gen] = "run" /\ draining # <<>>
  /\ seen' = seen \o draining /\ draining' = <<>>
  /\ UNCHANGED <<main, result, deadline, gen, core, exitVars, stale, relayVars, readVars,
                 queue, forward, taken, cancel, file, lostVars>>
DrainFails ==
  /\ Up /\ gen > 0 /\ core[gen] = "run" /\ draining # <<>>
  /\ failed' = failed \cup Range(draining) /\ draining' = <<>>
  /\ UNCHANGED <<main, result, deadline, gen, core, exitVars, stale, relayVars, readVars,
                 queue, forward, taken, cancel, file, seen, swallowed>>

-----------------------------------------------------------------------------
(* The user, and the reader threads. Console.ReadLine is one thread at a   *)
(* time, in the order they came; a reader is never ended from outside.     *)
Type ==
  /\ Up /\ ~closed /\ typed < MaxLine
  /\ typed' = typed + 1 /\ input' = Append(input, typed + 1)
  /\ UNCHANGED <<main, result, deadline, gen, core, exitVars, stale, relayVars, closed,
                 reader, line, chanVars, lostVars>>
CloseInput ==
  /\ Up /\ ~closed /\ closed' = TRUE
  /\ UNCHANGED <<main, result, deadline, gen, core, exitVars, stale, relayVars, typed, input,
                 reader, line, chanVars, lostVars>>

Disposed(c) == c < gen \/ forward = "off"

(* ReadLine returns a line, or null at the end. A reader that was disposed *)
(* meanwhile finds its queue gone and ends; the line is lost.              *)
ReadLine(c) ==
  /\ Up /\ reader[c] = "reading" /\ \A d \in 1..(c - 1) : reader[d] # "reading"
  /\ input # <<>> \/ closed
  /\ LET read == IF input # <<>> THEN Head(input) ELSE Eof
     IN  IF Disposed(c)
           THEN /\ reader' = [reader EXCEPT ![c] = "ended"]
                /\ swallowed' = IF read = Eof THEN swallowed ELSE swallowed \cup {read}
                /\ UNCHANGED line
           ELSE /\ reader' = [reader EXCEPT ![c] = "adding"]
                /\ line' = [line EXCEPT ![c] = read]
                /\ UNCHANGED swallowed
  /\ input' = IF input # <<>> THEN Tail(input) ELSE input
  /\ UNCHANGED <<main, result, deadline, gen, core, exitVars, stale, relayVars, typed, closed,
                 chanVars, failed>>

(* The line, or the sentinel, goes into the bounded queue when it has room.*)
AddLine(c) ==
  /\ Up /\ reader[c] = "adding" /\ ~Disposed(c) /\ Len(queue) < QueueCap
  /\ queue' = Append(queue, line[c])
  /\ reader' = [reader EXCEPT ![c] = IF line[c] = Eof THEN "ended" ELSE "reading"]
  /\ line' = [line EXCEPT ![c] = Eof]
  /\ UNCHANGED <<main, result, deadline, gen, core, exitVars, stale, relayVars, typed, input,
                 closed, forward, taken, cancel, file, draining, seen, lostVars>>

-----------------------------------------------------------------------------
(* The forwarder: take a line, append it to the core's file; at the end of *)
(* the input or when cancelled, dispose of the reader and delete the file. *)
TakeLine ==
  /\ Up /\ forward = "idle" /\ ~cancel /\ queue # <<>>
  /\ queue' = Tail(queue) /\ taken' = Head(queue)
  /\ forward' = IF Head(queue) = Eof THEN "closing" ELSE "write"
  /\ UNCHANGED <<main, result, deadline, gen, core, exitVars, stale, relayVars, readVars,
                 cancel, file, draining, seen, lostVars>>

(* Write: whatever fails in it, the line is dropped without a word.        *)
WriteLine ==
  /\ Up /\ forward = "write"
  /\ file' = Append(file, taken) /\ taken' = Eof /\ forward' = "idle"
  /\ UNCHANGED <<main, result, deadline, gen, core, exitVars, stale, relayVars, readVars,
                 queue, cancel, draining, seen, lostVars>>
WriteFails ==
  /\ Up /\ forward = "write"
  /\ failed' = failed \cup {taken} /\ taken' = Eof /\ forward' = "idle"
  /\ UNCHANGED <<main, result, deadline, gen, core, exitVars, stale, relayVars, readVars,
                 queue, cancel, file, draining, seen, swallowed>>

Cancelled ==
  /\ Up /\ forward = "idle" /\ cancel /\ forward' = "closing"
  /\ UNCHANGED <<main, result, deadline, gen, core, exitVars, stale, relayVars, readVars,
                 queue, taken, cancel, file, draining, seen, lostVars>>

CloseForwarderOnly ==   (* mutant: the reader's Add is not cancelled *)
  /\ Up /\ forward = "closing" /\ forward' = "off"
  /\ queue' = <<>> /\ file' = <<>>
  /\ UNCHANGED <<main, result, deadline, gen, core, exitVars, stale, relayVars, typed, input,
                 closed, reader, line, taken, cancel, draining, seen, lostVars>>
CloseForwarder ==
  /\ Up /\ forward = "closing" /\ forward' = "off"
  /\ queue' = <<>> /\ file' = <<>>
  /\ reader' = [reader EXCEPT ![gen] = IF @ = "adding" THEN "ended" ELSE @]
  /\ line' = [line EXCEPT ![gen] = Eof]
  /\ UNCHANGED <<main, result, deadline, gen, core, exitVars, stale, relayVars, typed, input,
                 closed, taken, cancel, draining, seen, lostVars>>

-----------------------------------------------------------------------------
MainStep ==
  \/ Spawn \/ SpawnFails \/ Notice \/ Timeout \/ Joined \/ ForwarderJoined
  \/ Collect \/ Kill
RelayStep   == RelayHead \/ RelayIdle \/ \E s \in Streams : RelayChunk(s) \/ RelayEof(s)
ForwardStep == TakeLine \/ WriteLine \/ WriteFails \/ Cancelled \/ CloseForwarder
ReadStep(c) == ReadLine(c) \/ AddLine(c)
Drain       == DrainMove \/ DrainRead \/ DrainFails

Next ==
  \/ MainStep \/ RelayStep \/ ForwardStep \/ Drain \/ CoreCrashes \/ Type \/ CloseInput
  \/ DeadlinePasses
  \/ \E s \in Streams : CoreWrites(s)
  \/ \E e \in Exits : CoreExits(e[1], e[2])
  \/ \E c \in Cores : CoreGone(c) \/ ReadStep(c)

Spec == Init /\ [][Next]_vars

(* The launcher's threads run. Nothing makes a core exit or drain: it looks*)
(* at its file when it comes to a checkpoint, if ever; and there may be no *)
(* timeout.                                                                *)
FairSpec ==
  /\ Spec /\ WF_vars(MainStep) /\ WF_vars(RelayStep) /\ WF_vars(ForwardStep)
  /\ \A c \in Cores : WF_vars(ReadStep(c))

-----------------------------------------------------------------------------
(* A core that nobody has terminated: it runs, or has set its exit event.  *)
Working(c) == core[c] \in {"run", "exited"}

(* A launcher never has two working cores: each is terminated before the   *)
(* next is spawned, whatever it was doing.                                 *)
OneCore == \A c, d \in Cores : Working(c) /\ Working(d) => c = d

(* A core that is still working is terminated only if it was spawned while *)
(* a core before it still held the exit event of the swap.                 *)
SparesWorkingCore ==
  [][\A c \in Cores : core[c] = "run" /\ core'[c] = "dying" => c \in stale]_vars

(* The code the launcher returns is the code of the core it ran last, also *)
(* after swaps and a slow process end, but for three ways: a negative code *)
(* is returned as 0; an exit file the core did not finish, as 0 or another *)
(* code; and a first core that crashes without one is given the code of a  *)
(* file left from before. The code of an earlier core never comes back.    *)
Accounted ==
  \/ result = code[gen]
  \/ result = "ok" /\ code[gen] = "negative"
  \/ result \in {"ok", "error"} /\ filed = "torn"
  \/ filed = "foreign" /\ gen = 1 /\ code[gen] = "error"

ExitCodeIsCores ==
  main = "returned" /\ result \notin {"timeout", "fallback"} /\ gen \notin stale
    => Accounted \/ (result = "error" /\ code[gen] = "swap")

(* What the cores drain is what the user typed, in that order, each line   *)
(* once, however reader, forwarder and drains interleave; and each reader  *)
(* left behind by a core takes at most one line with it.                   *)
InterruptsInOrder ==
  /\ \A i \in 1..(Len(seen) - 1) : seen[i] < seen[i + 1]
  /\ Cardinality(swallowed) <= Cardinality({c \in 1..gen : Disposed(c)})

(* When its timeout has passed the launcher ends, though a core may hang   *)
(* and though it swaps cores; or has gone over to running the command in a *)
(* core whose silence RunCore does not time.                               *)
TimeoutEnds == (deadline = "passed") ~> (main = "returned")

(* Typed lines do not stay on their way: while the core is polled, and once*)
(* the user stops typing, each reaches the interrupt file, unless its      *)
(* append fails or the reader of an earlier core swallows it; whether it is*)
(* drained is the core's choice. And no reader waits for ever to put its   *)
(* line into a full queue: with its forwarder gone, its Add is cancelled.  *)
OnTheWay == (Range(input) \cup Range(queue) \cup Range(line) \cup {taken}) \ {Eof}

DirectiveArrives ==
  /\ (OnTheWay # {}) ~> (OnTheWay = {} \/ main # "poll")
  /\ (\E c \in Cores : reader[c] = "adding") ~>
       ((\A c \in Cores : reader[c] # "adding") \/ ~Up)

=============================================================================
