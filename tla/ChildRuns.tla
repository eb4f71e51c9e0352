------------------------------ MODULE ChildRuns ------------------------------
(***************************************************************************)
(* The three ways the JavaScript of the repository runs a program and      *)
(* waits for it: askProvider (haiku-daemon; kind "ask"), runFile (the      *)
(* connector's agent; "run") and runCli (the webseat bridge; "cli"). Each  *)
(* turns the events of one Node child process into one promise. The calls  *)
(* of the bridge share its process; its HTTP reply is the promise's result.*)
(*                                                                         *)
(* Of a child only what decides the result is kept: whether it is there,   *)
(* how it exited, whether it printed, whether it read its stdin, and       *)
(* whether a descendant holds its pipes open: "close" comes after the last *)
(* of them closed, "exit" is not used.                                     *)
(***************************************************************************)
CONSTANTS Calls, Mixes   (* the kinds of the calls that may come together *)

Kinds == {"ask", "run", "cli"}
ASSUME MixesAssumption == Mixes \subseteq [Calls -> Kinds]

VARIABLES
  kind,
  call,    (* idle, pending, or how the promise was settled: ok, failed,   *)
           (* timeout; gone when the bridge ended first                    *)
  timer,   (* off, set, fired                                              *)
  child,   (* none, up, zero, bad (exit codes), unspawned                  *)
  printed, (* it wrote text to stdout (codex: to its output file)          *)
  input,   (* its stdin: none, sent, read, broken (EPIPE)                  *)
  pipeHeld, (* a descendant holds its stdout or stderr open                *)
  killed,  (* it was sent SIGKILL; no result depends on a SIGTERM          *)
  events,  (* the events of child still to be delivered                    *)
  bridge   (* up, down                                                     *)

callVars == <<kind, call, timer, child, printed, input, pipeHeld, killed, events, bridge>>
childVars == <<kind, child, printed, input, pipeHeld, killed, bridge>>

CallTypeOK ==
  /\ kind \in [Calls -> Kinds]
  /\ call \in [Calls -> {"idle", "pending", "ok", "failed", "timeout", "gone"}]
  /\ timer \in [Calls -> {"off", "set", "fired"}]
  /\ child \in [Calls -> {"none", "up", "zero", "bad", "unspawned"}]
  /\ printed \in [Calls -> BOOLEAN]
  /\ input \in [Calls -> {"none", "sent", "read", "broken"}]
  /\ pipeHeld \in [Calls -> BOOLEAN]
  /\ killed \in [Calls -> BOOLEAN]
  /\ events \in [Calls -> SUBSET {"error", "close"}]
  /\ bridge \in {"up", "down"}

CallInit ==
  /\ kind \in Mixes
  /\ call = [c \in Calls |-> "idle"] /\ timer = [c \in Calls |-> "off"]
  /\ child = [c \in Calls |-> "none"] /\ printed = [c \in Calls |-> FALSE]
  /\ input = [c \in Calls |-> "none"] /\ pipeHeld = [c \in Calls |-> FALSE]
  /\ killed = [c \in Calls |-> FALSE] /\ events = [c \in Calls |-> {}]
  /\ bridge = "up"

Unsettled(c) == call[c] = "pending"
Exited(c)  == child[c] \in {"zero", "bad", "unspawned"}
Runs(c)    == kind[c] = "cli" => bridge = "up"     (* its process lives *)

(* A promise keeps its first result (askProvider: done).                  *)
Finish(c, result) ==
  call' = IF Unsettled(c) THEN [call EXCEPT ![c] = result] ELSE call
(* A settled call of ask and cli clears its timer, runFile leaves it.      *)
ClearTimer(c) ==
  timer' = IF kind[c] = "run" \/ timer[c] = "fired" THEN timer
           ELSE [timer EXCEPT ![c] = "off"]

-----------------------------------------------------------------------------
(* spawn: either a child with its pipes, or the events of one that failed. *)
Start(c) ==
  /\ call[c] = "idle" /\ Runs(c)
  /\ call' = [call EXCEPT ![c] = "pending"]
  /\ timer' = [timer EXCEPT ![c] = "set"]
  /\ \/ /\ child' = [child EXCEPT ![c] = "up"]
        /\ input' = IF kind[c] = "run" THEN input ELSE [input EXCEPT ![c] = "sent"]
        /\ events' = [events EXCEPT ![c] = {"close"}]
     \/ /\ child' = [child EXCEPT ![c] = "unspawned"]
        /\ events' = [events EXCEPT ![c] = {"error", "close"}]
        /\ UNCHANGED input
  /\ UNCHANGED <<kind, printed, pipeHeld, killed, bridge>>

(* The child ends: its code, whether it printed, whether it had read its   *)
(* prompt and whether it leaves a descendant that holds its pipes. Those   *)
(* matter to no one before it ends. The descendant may close them later,   *)
(* or never.                                                               *)
Exit(c) ==
  /\ child[c] = "up"
  /\ \E code \in {"zero", "bad"}, text, left \in BOOLEAN :
       /\ killed[c] => code = "bad"
       /\ child' = [child EXCEPT ![c] = code]
       /\ printed' = [printed EXCEPT ![c] = text]
       /\ pipeHeld' = [pipeHeld EXCEPT ![c] = left]
  /\ \/ UNCHANGED input
     \/ input[c] = "sent" /\ input' = [input EXCEPT ![c] = "read"]
  /\ UNCHANGED <<kind, call, timer, killed, events, bridge>>
Release(c) ==
  /\ Exited(c) /\ pipeHeld[c]
  /\ pipeHeld' = [pipeHeld EXCEPT ![c] = FALSE]
  /\ UNCHANGED <<kind, call, timer, child, printed, input, killed, events, bridge>>

-----------------------------------------------------------------------------
(* "error": the child could not be spawned.                                *)
OnError(c) ==
  /\ Runs(c) /\ "error" \in events[c]
  /\ events' = [events EXCEPT ![c] = @ \ {"error"}]
  /\ Finish(c, "failed") /\ ClearTimer(c)
  /\ UNCHANGED childVars

(* "close": the result by the exit code, and for ask and cli by the text:  *)
(* runCli takes any text for an answer, whatever the code.                 *)
AskGoodText(c) == child[c] = "zero" \/ printed[c]   (* mutant: as runCli does *)
AskGood(c) == child[c] = "zero" /\ printed[c]
RunGood(c) == child[c] = "zero"
CliGood(c) == child[c] = "zero" \/ printed[c]
Good(c) ==
  CASE kind[c] = "ask" -> AskGood(c)
    [] kind[c] = "run" -> RunGood(c)
    [] kind[c] = "cli" -> CliGood(c)
OnClose(c) ==
  /\ Runs(c) /\ events[c] = {"close"} /\ Exited(c) /\ ~pipeHeld[c]
  /\ events' = [events EXCEPT ![c] = {}]
  /\ Finish(c, IF Good(c) THEN "ok" ELSE "failed") /\ ClearTimer(c)
  /\ UNCHANGED childVars

(* The timer: askProvider kills the child and settles at once, the others  *)
(* signal it and go on waiting for its close. The timer of runFile may     *)
(* find the child gone.                                                    *)
AskTimeoutWaiting(c) ==   (* mutant: askProvider, too, waits for the close *)
  killed' = [killed EXCEPT ![c] = child[c] = "up"] /\ UNCHANGED call
AskTimeout(c) ==
  /\ killed' = [killed EXCEPT ![c] = child[c] = "up"]
  /\ Finish(c, "timeout")
SignalTimeout(c) == UNCHANGED <<killed, call>>
OnTimeout(c) ==
  /\ Runs(c) /\ timer[c] = "set"
  /\ timer' = [timer EXCEPT ![c] = "fired"]
  /\ IF kind[c] = "ask" THEN AskTimeout(c) ELSE SignalTimeout(c)
  /\ UNCHANGED <<kind, child, printed, input, pipeHeld, events, bridge>>

(* The prompt meets the closed stdin of a child that exited without        *)
(* reading it. askProvider swallows the error; the bridge has no handler   *)
(* for it and ends, with every call it was running.                        *)
OnStdinError(c) ==
  /\ Runs(c) /\ Exited(c) /\ input[c] = "sent"
  /\ input' = [input EXCEPT ![c] = "broken"]
  /\ IF kind[c] = "cli"
     THEN /\ bridge' = "down"
          /\ call' = [d \in Calls |-> IF kind[d] = "cli" /\ Unsettled(d) THEN "gone" ELSE call[d]]
     ELSE UNCHANGED <<bridge, call>>
  /\ UNCHANGED <<kind, timer, child, printed, pipeHeld, killed, events>>

Node(c) == OnError(c) \/ OnClose(c) \/ OnTimeout(c)
CallNext ==
  \E c \in Calls : Start(c) \/ Exit(c) \/ Release(c) \/ Node(c) \/ OnStdinError(c)

CallSpec == CallInit /\ [][CallNext]_callVars

(* The event loops deliver their events and timers; a child that was sent  *)
(* SIGKILL exits. Nothing makes a child exit, heed SIGTERM or close pipes. *)
FairCallSpec ==
  CallSpec /\ \A c \in Calls : WF_callVars(Node(c)) /\ WF_callVars(killed[c] /\ Exit(c))

-----------------------------------------------------------------------------
(* A call that settled ok did what it says: the program of an ask exited 0 *)
(* with a text and before its time was up, that of a run exited 0. A cli   *)
(* is ok also with the text of a program that failed or was cut off by the *)
(* timer, but never without any text from one that failed.                 *)
OkIsHonest ==
  \A c \in Calls : call[c] = "ok" =>
    CASE kind[c] = "ask" -> child[c] = "zero" /\ printed[c] /\ ~killed[c]
      [] kind[c] = "run" -> child[c] = "zero"
      [] kind[c] = "cli" -> child[c] = "zero" \/ printed[c]

(* An ask always settles. A run or a cli settles, too, unless its child    *)
(* outlives the signal or leaves a descendant that keeps its pipes open    *)
(* for ever; a cli also goes when another child of the bridge exits        *)
(* without reading its prompt.                                             *)
CallsSettle ==
  \A c \in Calls :
    Unsettled(c) ~> \/ ~Unsettled(c)
                    \/ kind[c] # "ask" /\ [](child[c] = "up" \/ pipeHeld[c])
=============================================================================
