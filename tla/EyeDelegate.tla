----------------------------- MODULE EyeDelegate -----------------------------
(***************************************************************************)
(* One command of the launcher that may be delegated: TryDelegate of       *)
(* EyeCmdPipeClient hands it to the Eye daemon over a pipe, and when that  *)
(* returns false a core is run, here the attached one of RunCore on its    *)
(* normal path (the detached one that is tried first is DetachedCore).     *)
(* Eye and the core are not in the repository: they print, end, hang up or *)
(* fall silent as they like.                                               *)
(***************************************************************************)
EXTENDS Naturals, Sequences

CONSTANT MaxText   (* lines of real output Eye prints at most *)

VARIABLES
  opts,      (* timed: --timeout; guarded: the first-output guard; onlyEye *)
  pc,        (* connect, send, first, second, read, eof (a pipe that ended *)
             (* without END, before it is judged), fall, core, left (core  *)
             (* stdout ended), done                                        *)
  conn,      (* none, open, shut by Eye, closed by the launcher            *)
  work,      (* of Eye: none, taken, begun (LAUNCH), or the END it wrote:  *)
             (* end0, end1, or endbad with a code int.TryParse cannot read *)
  buf,       (* the lines in the pipe: launch, text and the three ENDs     *)
  peeked,    (* how many of them the guard has read ahead                  *)
  shown,     (* lines of Eye's real output written to the terminal         *)
  timedOut,  (* the timer of TryDelegate fired                             *)
  attached,  (* the core: none, up, zero, bad, killed                      *)
  coreOut,   (* full, empty or shut: the core's stdout pipe                *)
  quit,      (* the core wrote the \0UIT sentinel                          *)
  late,      (* --timeout has passed since the launcher started            *)
  exit,      (* none, zero, bad, timeout, partial (-1), refused (3)        *)
  blind      (* why exit code 0 was left in place: left, by the catch-all, *)
             (* or by the timer firing on a pipe that had ended; garbled,  *)
             (* by an END whose code could not be read; or no              *)

eyeVars == <<conn, work, buf, peeked>>
coreVars == <<attached, coreOut, quit, late>>
launchVars == <<opts, pc, eyeVars, shown, timedOut, coreVars, exit, blind>>

Ends == {"end0", "end1", "endbad"}
PipeLines == {"launch", "text"} \cup Ends

LaunchTypeOK ==
  /\ opts \in [timed : BOOLEAN, guarded : BOOLEAN, onlyEye : BOOLEAN]
  /\ pc \in {"connect", "send", "first", "second", "read", "eof", "fall", "core", "left", "done"}
  /\ conn \in {"none", "open", "shut", "closed"}
  /\ work \in {"none", "taken", "begun"} \cup Ends
  /\ buf \in Seq(PipeLines) /\ peeked \in 0..Len(buf)
  /\ shown \in Nat /\ timedOut \in BOOLEAN
  /\ attached \in {"none", "up", "zero", "bad", "killed"} /\ coreOut \in {"full", "empty", "shut"}
  /\ quit \in BOOLEAN /\ late \in BOOLEAN
  /\ exit \in {"none", "zero", "bad", "timeout", "partial", "refused"}
  /\ blind \in {"no", "left", "garbled"}

LaunchInit ==
  /\ opts \in [timed : BOOLEAN, guarded : BOOLEAN, onlyEye : BOOLEAN]
  /\ pc = "connect" /\ conn = "none" /\ work = "none" /\ buf = <<>> /\ peeked = 0
  /\ shown = 0 /\ timedOut = FALSE /\ attached = "none" /\ coreOut = "empty"
  /\ quit = FALSE /\ late = FALSE /\ exit = "none" /\ blind = "no"

End(code) == pc' = "done" /\ exit' = code
Goto(next) == pc' = next /\ UNCHANGED exit

-----------------------------------------------------------------------------
(* Eye: takes the command, prints its LAUNCH header, output and END; hangs *)
(* up at any time, when what was not read may be lost, cut off in a line:  *)
(* the reader returns the rest of that line as the last one.               *)
EyePrints ==
  /\ conn = "open" /\ work \in {"taken", "begun"}
  /\ \E line \in {"text"} \cup Ends \cup (IF work = "taken" THEN {"launch"} ELSE {}) :
       /\ line = "text" => shown + Len(SelectSeq(buf, LAMBDA l : l = "text")) < MaxText
       /\ buf' = Append(buf, line)
       /\ work' = IF line \in Ends THEN line ELSE "begun"
  /\ UNCHANGED <<opts, pc, conn, peeked, shown, timedOut, coreVars, exit, blind>>

(* What a line can become: an END loses its code, a digit of it or its     *)
(* marker, the header what it is told by.                                  *)
CutOff(line) ==
  CASE line = "end0" -> {"endbad", "text"}
    [] line \in {"end1", "endbad"} -> {"end1", "endbad", "text"}
    [] OTHER -> {line, "text"}
EyeHangsUp ==
  /\ conn = "open" /\ conn' = "shut"
  /\ \E k \in peeked..Len(buf) :
       \/ buf' = SubSeq(buf, 1, k)
       \/ k > peeked /\ \E line \in CutOff(buf[k]) : buf' = Append(SubSeq(buf, 1, k - 1), line)
  /\ UNCHANGED <<opts, pc, work, peeked, shown, timedOut, coreVars, exit, blind>>

-----------------------------------------------------------------------------
(* TryDelegate. Eye answers the connect within 300 ms or is not there.     *)
Connect ==
  /\ pc = "connect"
  /\ \/ conn' = "open" /\ Goto("send")
     \/ Goto("fall") /\ UNCHANGED conn
  /\ UNCHANGED <<opts, work, buf, peeked, shown, timedOut, coreVars, blind>>

(* The catch-all after a connect: true, with the exit code still 0.        *)
CatchAll ==
  /\ End("zero") /\ blind' = "left"
  /\ UNCHANGED <<opts, eyeVars, shown, timedOut, coreVars>>

Send ==
  /\ pc = "send" /\ conn = "open"
  /\ work' = "taken" /\ Goto(IF opts.guarded THEN "first" ELSE "read")
  /\ UNCHANGED <<opts, conn, buf, peeked, shown, timedOut, coreVars, blind>>
SendFails == pc = "send" /\ conn = "shut" /\ CatchAll

(* The first-output guard: two lines, or the end of the pipe, each within  *)
(* firstOutputTimeoutMs; else the pipe is closed and a core takes over.    *)
Peek ==
  /\ pc \in {"first", "second"}
  /\ LET n == IF pc = "first" THEN 1 ELSE 2
     IN  /\ Len(buf) >= n \/ conn = "shut"
         /\ peeked' = IF Len(buf) >= n THEN n ELSE peeked
  /\ Goto(IF pc = "first" THEN "second" ELSE "read")
  /\ UNCHANGED <<opts, conn, work, buf, shown, timedOut, coreVars, blind>>
GuardExpires ==
  /\ pc \in {"first", "second"}
  /\ conn' = "closed" /\ Goto("fall")
  /\ UNCHANGED <<opts, work, buf, peeked, shown, timedOut, coreVars, blind>>

(* The timer closes the pipe. It is disposed after the pipe has ended, but *)
(* may be running then.                                                    *)
TimerFlagsOnly ==   (* mutant: the pipe is left open *)
  /\ opts.timed /\ pc \in {"read", "eof"} /\ ~timedOut
  /\ timedOut' = TRUE
  /\ UNCHANGED <<opts, pc, eyeVars, shown, coreVars, exit, blind>>
TimerFires ==
  /\ opts.timed /\ pc \in {"read", "eof"} /\ ~timedOut
  /\ timedOut' = TRUE /\ conn' = "closed"
  /\ UNCHANGED <<opts, pc, work, buf, peeked, shown, coreVars, exit, blind>>

(* A line is shown, or ends the command: a code that cannot be read leaves *)
(* the 0 the exit code starts from, as an END that was received.           *)
ReadPipeLine ==
  /\ pc = "read" /\ buf # <<>>
  /\ buf' = Tail(buf) /\ peeked' = IF peeked > 0 THEN peeked - 1 ELSE 0
  /\ shown' = IF Head(buf) = "text" THEN shown + 1 ELSE shown
  /\ IF Head(buf) \in Ends
       THEN End(IF timedOut THEN "timeout" ELSE IF Head(buf) = "end1" THEN "bad" ELSE "zero")
       ELSE Goto("read")
  /\ blind' = IF Head(buf) = "endbad" /\ ~timedOut THEN "garbled" ELSE blind
  /\ UNCHANGED <<opts, conn, work, timedOut, coreVars>>
ReadTimesOut ==
  /\ pc = "read" /\ timedOut /\ conn = "closed"
  /\ End("timeout")
  /\ UNCHANGED <<opts, eyeVars, shown, timedOut, coreVars, blind>>
ReadFails == pc \in {"first", "second", "read"} /\ conn = "shut" /\ CatchAll
ReadEof ==
  /\ pc = "read" /\ buf = <<>> /\ conn = "shut"
  /\ Goto("eof")
  /\ UNCHANGED <<opts, eyeVars, shown, timedOut, coreVars, blind>>

(* The incomplete-pipe guard: A, nothing but the header: a core runs the   *)
(* command; B, real output: an error. It does not apply after a timeout.   *)
RunAgain ==   (* mutant: a core runs the command whatever was shown *)
  /\ pc = "eof" /\ ~timedOut
  /\ Goto("fall") /\ UNCHANGED <<opts, eyeVars, shown, timedOut, coreVars, blind>>
Incomplete ==
  /\ pc = "eof" /\ ~timedOut
  /\ IF shown = 0 THEN Goto("fall") ELSE End("partial")
  /\ UNCHANGED <<opts, eyeVars, shown, timedOut, coreVars, blind>>
EofTimedOut == pc = "eof" /\ timedOut /\ CatchAll

-----------------------------------------------------------------------------
(* Back in Program: no core with --only-eye; else RunCore, which may find  *)
(* no executable.                                                          *)
FallBack ==
  /\ pc = "fall"
  /\ \/ opts.onlyEye /\ End("refused") /\ UNCHANGED attached
     \/ ~opts.onlyEye /\ End("bad") /\ UNCHANGED attached
     \/ ~opts.onlyEye /\ Goto("core") /\ attached' = "up"
  /\ UNCHANGED <<opts, eyeVars, shown, timedOut, coreOut, quit, late, blind>>

(* The core: prints, closes its stdout, writes the sentinel, exits; its    *)
(* stdout may stay open in a descendant.                                   *)
Core ==
  /\ attached # "none" /\ pc # "done"
  /\ \/ attached = "up" /\ coreOut = "empty" /\ coreOut' \in {"full", "shut"}
        /\ UNCHANGED <<attached, quit>>
     \/ attached = "up" /\ ~quit /\ quit' = TRUE /\ UNCHANGED <<attached, coreOut>>
     \/ attached = "up" /\ attached' \in {"zero", "bad"} /\ UNCHANGED <<coreOut, quit>>
     \/ attached \in {"zero", "bad"} /\ coreOut = "empty" /\ coreOut' = "shut"
        /\ UNCHANGED <<attached, quit>>
  /\ UNCHANGED <<opts, pc, eyeVars, shown, timedOut, late, exit, blind>>
Clock ==
  /\ opts.timed /\ pc = "core" /\ ~late /\ late' = TRUE
  /\ UNCHANGED <<opts, pc, eyeVars, shown, timedOut, attached, coreOut, quit, exit, blind>>

AttachedCode == IF attached = "zero" THEN "zero" ELSE "bad"

(* RunCore's relay loop: the timeout is looked at when a read returned.    *)
CoreRead ==
  /\ pc = "core" /\ coreOut = "full" /\ coreOut' = "empty"
  /\ IF late THEN attached' = "killed" /\ End("timeout") ELSE Goto("core") /\ UNCHANGED attached
  /\ UNCHANGED <<opts, eyeVars, shown, timedOut, quit, late, blind>>
CoreEof ==
  /\ pc = "core" /\ coreOut = "shut" /\ Goto("left")
  /\ UNCHANGED <<opts, eyeVars, shown, timedOut, coreVars, blind>>
(* It has 5 s to exit, and is killed then.                                 *)
CoreLeft ==
  /\ pc = "left" /\ End(AttachedCode)
  /\ attached' = IF attached = "up" THEN "killed" ELSE attached
  /\ UNCHANGED <<opts, eyeVars, shown, timedOut, coreOut, quit, late, blind>>
(* The relay of stderr saw the sentinel: 500 ms to exit, else code 0.      *)
CoreQuits ==
  /\ pc \in {"core", "left"} /\ quit
  /\ End(IF attached = "up" THEN "zero" ELSE AttachedCode)
  /\ UNCHANGED <<opts, eyeVars, shown, timedOut, coreVars, blind>>

TryDelegate ==
  \/ Connect \/ Send \/ SendFails \/ Peek \/ GuardExpires \/ ReadPipeLine \/ ReadTimesOut
  \/ ReadFails \/ ReadEof \/ Incomplete \/ EofTimedOut
RunCore == CoreRead \/ CoreEof \/ CoreLeft \/ CoreQuits
LaunchNext ==
  EyePrints \/ EyeHangsUp \/ TimerFires \/ TryDelegate \/ FallBack \/ Core \/ Clock \/ RunCore

LaunchSpec == LaunchInit /\ [][LaunchNext]_launchVars

(* The launcher runs, its timer fires and time passes; nothing is asked of *)
(* Eye and core.                                                           *)
FairLaunchSpec ==
  /\ LaunchSpec /\ WF_launchVars(TryDelegate) /\ WF_launchVars(TimerFires)
  /\ WF_launchVars(FallBack) /\ WF_launchVars(RunCore) /\ WF_launchVars(CoreQuits) /\ WF_launchVars(Clock)

-----------------------------------------------------------------------------
(* The outcome is that of one run: a command whose output from Eye was     *)
(* shown is not run again in a core; one that Eye had taken is run again   *)
(* only when the guard expired or Eye hung up; and exit code 0 is END 0 of *)
(* Eye, or the exit 0 or the sentinel of the core, but for the three ways  *)
(* (blind) it is left over from the start, all of Eye's run, and one of    *)
(* them only after Eye had ended the command.                              *)
OneOutcome ==
  /\ attached # "none" =>
       shown = 0 /\ (work # "none" => conn = "shut" \/ (opts.guarded /\ conn = "closed"))
  /\ exit = "zero" /\ blind = "no" =>
       IF attached = "none" THEN work = "end0" ELSE attached = "zero" \/ quit
  /\ blind # "no" => attached = "none" /\ (blind = "garbled" => work \in Ends)
  /\ exit = "partial" => shown > 0 /\ attached = "none"

(* Every launch ends, but for three waits without an end: without          *)
(* --timeout on an Eye that is silent or a core that goes on printing; and *)
(* on a core that neither prints nor closes its stdout with --timeout too: *)
(* the attached run looks at the time only after a read.                   *)
EveryLaunchEnds ==
  \/ <>(pc = "done")
  \/ <>[](pc = "read" /\ ~opts.timed /\ conn = "open" /\ buf = <<>>)
  \/ ~opts.timed /\ []<>(pc = "core" /\ coreOut = "full")
  \/ <>[](pc = "core" /\ coreOut = "empty" /\ ~quit)
=============================================================================
