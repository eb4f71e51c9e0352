------------------------------- MODULE McpProxy -------------------------------
(***************************************************************************)
(* The launcher's MCP proxy (RunMcpProxy): the stdin router, one stdout    *)
(* relay per core, and the hot-swap that a new core executable triggers:   *)
(* the old core is moved to drain, a new one is spawned, the remembered    *)
(* handshake is replayed, what the old one does not answer in 60 s is      *)
(* routed again, and the old one's stdin is closed.                        *)
(*                                                                         *)
(* No request needs elevation here, so no admin core is ever spawned. A    *)
(* core is external: it answers each line it is given once, in any order,  *)
(* and exits when its stdin is closed and it owes nothing, or crashes. An  *)
(* answer counts as given when the relay reads it from the pipe.           *)
(***************************************************************************)
EXTENDS Naturals, FiniteSets

CONSTANTS
  Reqs,       (* request lines of the client, each with an id of its own    *)
  Handshake,  (* those the proxy remembers: initialize and tools/list       *)
  NoReq,      (* no line                                                    *)
  MaxCore,    (* bound: cores 1..MaxCore; 1 is the original                 *)
  MaxStamp,   (* bound: versions of the executable after the first          *)
  MaxCrash    (* bound: core crashes                                        *)

ASSUME ProxyAssumption ==
  /\ Handshake \subseteq Reqs /\ NoReq \notin Reqs
  /\ MaxCore \in Nat \ {0} /\ MaxStamp \in Nat /\ MaxCrash \in Nat

VARIABLES
  sent,        (* lines the client has written                              *)
  eof,         (* the client closed its end; the router has ended           *)
  replies,     (* replies[q]: answers the client was given                  *)
  inflight,    (* _inflight                                                 *)
  oldInflight, (* _oldInflight                                              *)
  remembered,  (* _initializeLine and _toolsListLine, when set              *)
  active, old, (* _activeStdinWrite and _oldCoreStdinWrite; 0 is ZERO       *)
  cores,       (* cores started so far                                      *)
  core,        (* core[c]: none, run, eof (stdin closed) or dead            *)
  todo,        (* todo[c][q]: copies of q core c has still to answer        *)
  hand,        (* the answer c's relay took out of the maps and not yet on  *)
  swap,        (* _swapInProgress: idle, move, spawn, drain, close          *)
  stamp,       (* currentSwapStamp                                          *)
  exe,         (* the executable's write time; versions are 1, 2, ...       *)
  present,     (* the executable is at its path                             *)
  armed,       (* the debounce timer runs                                   *)
  activeStamp, failedStamp,   (* _activeCoreStamp, _lastFailedSwapStamp     *)
  ended,       (* RunMcpProxy returned                                      *)
  dropped,     (* history: lines that found no stdin to go to               *)
  rerouted,    (* history: lines the drain timeout sent a second time       *)
  ver,         (* history: the version each core was spawned from           *)
  missed,      (* history: why no event of the executable on disk started a *)
               (* swap: a swap was running, or it came by a rename; or no   *)
  gaveUp,      (* history: a swap failed                                    *)
  crashes      (* core crashes so far                                       *)

clientVars == <<sent, eof, replies>>
mapVars    == <<inflight, oldInflight, remembered>>
coreVars   == <<cores, core, todo, crashes>>
stampVars  == <<exe, present, armed, missed, ver>>
swapVars   == <<swap, stamp, activeStamp, failedStamp>>
history    == <<dropped, rerouted, gaveUp>>
vars == <<clientVars, mapVars, active, old, coreVars, hand, swapVars, stampVars, ended, history>>

Cores == 1..MaxCore
Lines == [Reqs -> Nat]
NoLines == [q \in Reqs |-> 0]

TypeOK ==
  /\ sent \in SUBSET Reqs /\ eof \in BOOLEAN /\ replies \in Lines
  /\ inflight \in SUBSET sent /\ oldInflight \in SUBSET sent
  /\ remembered \in SUBSET (Handshake \cap sent)
  /\ active \in 0..cores /\ old \in 0..cores /\ cores \in Cores
  /\ core \in [Cores -> {"none", "run", "eof", "dead"}]
  /\ todo \in [Cores -> Lines]
  /\ hand \in [Cores -> Reqs \cup {NoReq}]
  /\ swap \in {"idle", "move", "spawn", "drain", "close"}
  /\ exe \in 1..(MaxStamp + 1) /\ stamp \in 0..exe
  /\ activeStamp \in 1..exe /\ failedStamp \in 0..exe
  /\ present \in BOOLEAN /\ armed \in BOOLEAN /\ missed \in {"no", "swap", "rename"}
  /\ ended \in BOOLEAN /\ gaveUp \in BOOLEAN
  /\ ver \in [Cores -> 0..exe]
  /\ dropped \in SUBSET sent /\ rerouted \in SUBSET sent /\ crashes \in 0..MaxCrash

Init ==
  /\ sent = {} /\ eof = FALSE /\ replies = NoLines
  /\ inflight = {} /\ oldInflight = {} /\ remembered = {}
  /\ active = 1 /\ old = 0 /\ cores = 1
  /\ core = [c \in Cores |-> IF c = 1 THEN "run" ELSE "none"]
  /\ todo = [c \in Cores |-> NoLines]
  /\ hand = [c \in Cores |-> NoReq]
  /\ swap = "idle" /\ stamp = 0 /\ exe = 1 /\ present = TRUE
  /\ armed = FALSE /\ missed = "no"
  /\ activeStamp = 1 /\ failedStamp = 0
  /\ ver = [c \in Cores |-> IF c = 1 THEN 1 ELSE 0]
  /\ ended = FALSE /\ dropped = {} /\ rerouted = {} /\ crashes = 0
  /\ gaveUp = FALSE

-----------------------------------------------------------------------------
(* WriteFile of a set of lines to a core's stdin: lost if it is dead.      *)
Given(c, S) ==
  IF c # 0 /\ core[c] = "run"
    THEN [todo EXCEPT ![c] = [q \in Reqs |-> @[q] + IF q \in S THEN 1 ELSE 0]]
    ELSE todo

(* The stdin router, one line: remember the handshake, track the id, write *)
(* to the active core, all under the gate. With no active core the line is *)
(* tracked and goes nowhere.                                               *)
Send(q) ==
  /\ ~ended /\ ~eof /\ q \notin sent
  /\ sent' = sent \cup {q}
  /\ remembered' = remembered \cup ({q} \cap Handshake)
  /\ inflight' = inflight \cup {q}
  /\ todo' = Given(active, {q})
  /\ dropped' = IF active = 0 THEN dropped \cup {q} ELSE dropped
  /\ UNCHANGED <<eof, replies, oldInflight, active, old, cores, core, crashes, hand,
                 swapVars, stampVars, ended, rerouted, gaveUp>>

Closed(c) == IF c # 0 /\ core[c] = "run" THEN [core EXCEPT ![c] = "eof"] ELSE core

(* The client closes stdin: the router closes the active core's and ends.  *)
StdinEofKeeps ==   (* mutant: the active core's stdin stays open *)
  /\ ~ended /\ ~eof
  /\ eof' = TRUE
  /\ UNCHANGED <<sent, replies, mapVars, active, old, coreVars, hand, swapVars, stampVars,
                 ended, history>>
StdinEof ==
  /\ ~ended /\ ~eof
  /\ eof' = TRUE
  /\ core' = Closed(active) /\ active' = 0
  /\ UNCHANGED <<sent, replies, mapVars, old, cores, todo, crashes, hand, swapVars,
                 stampVars, ended, history>>

-----------------------------------------------------------------------------
(* A core whose stdin is closed exits when it owes nothing; any may crash. *)
CoreExits(c) ==
  /\ core[c] = "eof" /\ todo[c] = NoLines
  /\ core' = [core EXCEPT ![c] = "dead"]
  /\ UNCHANGED <<clientVars, mapVars, active, old, cores, todo, crashes, hand, swapVars,
                 stampVars, ended, history>>

CoreCrashes(c) ==
  /\ ~ended /\ core[c] \in {"run", "eof"} /\ crashes < MaxCrash
  /\ core' = [core EXCEPT ![c] = "dead"] /\ crashes' = crashes + 1
  /\ UNCHANGED <<clientVars, mapVars, active, old, cores, todo, hand, swapVars,
                 stampVars, ended, history>>

-----------------------------------------------------------------------------
(* RelayStdout, one line: its id leaves both maps under the gate, then the *)
(* line is written to the client under the output lock.                    *)
RelayTakeCurrent(c) ==   (* mutant: answers of draining requests are not forwarded *)
  /\ ~ended /\ hand[c] = NoReq /\ core[c] \in {"run", "eof"}
  /\ \E q \in Reqs :
       /\ todo[c][q] > 0
       /\ todo' = [todo EXCEPT ![c][q] = @ - 1]
       /\ hand' = [hand EXCEPT ![c] = IF q \in inflight THEN q ELSE NoReq]
       /\ inflight' = inflight \ {q} /\ oldInflight' = oldInflight \ {q}
  /\ UNCHANGED <<clientVars, remembered, active, old, cores, core, crashes, swapVars,
                 stampVars, ended, history>>
RelayTake(c) ==
  /\ ~ended /\ hand[c] = NoReq /\ core[c] \in {"run", "eof"}
  /\ \E q \in Reqs :
       /\ todo[c][q] > 0
       /\ todo' = [todo EXCEPT ![c][q] = @ - 1]
       /\ hand' = [hand EXCEPT ![c] = q]
       /\ inflight' = inflight \ {q} /\ oldInflight' = oldInflight \ {q}
  /\ UNCHANGED <<clientVars, remembered, active, old, cores, core, crashes, swapVars,
                 stampVars, ended, history>>

RelayForward(c) ==
  /\ ~ended /\ hand[c] # NoReq
  /\ replies' = [replies EXCEPT ![hand[c]] = @ + 1]
  /\ hand' = [hand EXCEPT ![c] = NoReq]
  /\ UNCHANGED <<sent, eof, mapVars, active, old, coreVars, swapVars, stampVars, ended, history>>

(* The relay of the original core is the main thread: when that core's     *)
(* stdout ends, RunMcpProxy returns. Another core's relay ends silently.   *)
MainReturns ==
  /\ ~ended /\ core[1] = "dead" /\ hand[1] = NoReq
  /\ ended' = TRUE
  /\ UNCHANGED <<clientVars, mapVars, active, old, coreVars, hand, swapVars, stampVars, history>>

-----------------------------------------------------------------------------
(* The hot-swap.                                                           *)

(* A new executable is written at its path, over the one there or where    *)
(* none is: Created or Changed, and the watcher (re)arms the debounce.     *)
Publish ==
  /\ ~ended /\ exe <= MaxStamp
  /\ exe' = exe + 1 /\ present' = TRUE /\ armed' = TRUE /\ missed' = "no"
  /\ UNCHANGED <<clientVars, mapVars, active, old, coreVars, hand, swapVars, ver, ended, history>>

(* It is deleted or renamed away, and one staged beside it is renamed to   *)
(* its path (PromoteNewExeIfPending): Deleted and Renamed, to neither of   *)
(* which the watcher subscribes.                                           *)
MoveAway ==
  /\ ~ended /\ present
  /\ present' = FALSE
  /\ UNCHANGED <<clientVars, mapVars, active, old, coreVars, hand, swapVars, exe, armed, missed,
                 ver, ended, history>>
Promote ==
  /\ ~ended /\ ~present /\ exe <= MaxStamp
  /\ exe' = exe + 1 /\ present' = TRUE /\ missed' = "rename"
  /\ UNCHANGED <<clientVars, mapVars, active, old, coreVars, hand, swapVars, armed, ver, ended,
                 history>>

(* The timer fires, 500 ms after the last event: nothing comes of it if no *)
(* executable is there, its stamp is active or failed, or a swap runs.     *)
Fire ==
  /\ ~ended /\ armed
  /\ armed' = FALSE
  /\ IF ~present \/ exe \in {activeStamp, failedStamp} THEN UNCHANGED <<swap, stamp, missed>>
     ELSE IF swap # "idle" THEN missed' = "swap" /\ UNCHANGED <<swap, stamp>>
     ELSE swap' = "move" /\ stamp' = exe /\ missed' = "no"
  /\ UNCHANGED <<clientVars, mapVars, active, old, coreVars, hand, activeStamp, failedStamp,
                 exe, present, ver, ended, history>>

(* The active core becomes the draining one, with its open requests.       *)
Move ==
  /\ ~ended /\ swap = "move"
  /\ old' = active /\ active' = 0
  /\ oldInflight' = oldInflight \cup inflight /\ inflight' = {}
  /\ swap' = "spawn"
  /\ UNCHANGED <<clientVars, remembered, coreVars, hand, stamp, activeStamp, failedStamp,
                 stampVars, ended, history>>

(* CreatePipe fails: the swap gives up without restoring the old core.     *)
PipeFails ==
  /\ ~ended /\ swap = "spawn"
  /\ failedStamp' = stamp /\ swap' = "idle" /\ gaveUp' = TRUE
  /\ UNCHANGED <<clientVars, mapVars, active, old, coreVars, hand, stamp, activeStamp,
                 stampVars, ended, dropped, rerouted>>

(* CreateProcess fails, as it does while no executable is at its path: the *)
(* old core is active again, with its requests.                            *)
SpawnFailsForgets ==   (* mutant: the moved requests are not restored *)
  /\ ~ended /\ swap = "spawn"
  /\ failedStamp' = stamp /\ swap' = "idle" /\ gaveUp' = TRUE
  /\ active' = old /\ old' = 0 /\ oldInflight' = {}
  /\ UNCHANGED <<clientVars, inflight, remembered, coreVars, hand, stamp, activeStamp,
                 stampVars, ended, dropped, rerouted>>
SpawnFails ==
  /\ ~ended /\ swap = "spawn"
  /\ failedStamp' = stamp /\ swap' = "idle" /\ gaveUp' = TRUE
  /\ active' = old /\ old' = 0
  /\ inflight' = inflight \cup oldInflight /\ oldInflight' = {}
  /\ UNCHANGED <<clientVars, remembered, coreVars, hand, stamp, activeStamp, stampVars,
                 ended, dropped, rerouted>>

(* The new core runs, is active, and is replayed the handshake.            *)
ActivateReplaysAll ==   (* mutant: the open requests are replayed at once *)
  /\ ~ended /\ swap = "spawn" /\ present /\ cores < MaxCore
  /\ cores' = cores + 1 /\ active' = cores + 1
  /\ core' = [core EXCEPT ![cores + 1] = "run"]
  /\ todo' = [todo EXCEPT ![cores + 1] =
                [q \in Reqs |-> IF q \in remembered \cup oldInflight THEN 1 ELSE 0]]
  /\ ver' = [ver EXCEPT ![cores + 1] = exe]
  /\ swap' = "drain"
  /\ UNCHANGED <<clientVars, mapVars, old, crashes, hand, stamp, activeStamp,
                 failedStamp, exe, present, armed, missed, ended, history>>
Activate ==
  /\ ~ended /\ swap = "spawn" /\ present /\ cores < MaxCore
  /\ cores' = cores + 1 /\ active' = cores + 1
  /\ core' = [core EXCEPT ![cores + 1] = "run"]
  /\ todo' = [todo EXCEPT ![cores + 1] = [q \in Reqs |-> IF q \in remembered THEN 1 ELSE 0]]
  /\ ver' = [ver EXCEPT ![cores + 1] = exe]
  /\ swap' = "drain"
  /\ UNCHANGED <<clientVars, mapVars, old, crashes, hand, stamp, activeStamp,
                 failedStamp, exe, present, armed, missed, ended, history>>

(* The old core answered everything.                                       *)
Drained ==
  /\ ~ended /\ swap = "drain" /\ oldInflight = {}
  /\ swap' = "close"
  /\ UNCHANGED <<clientVars, mapVars, active, old, coreVars, hand, stamp, activeStamp,
                 failedStamp, stampVars, ended, history>>

(* 60 s passed: what it still owes is written to the new core.             *)
DrainTimeout ==
  /\ ~ended /\ swap = "drain" /\ oldInflight # {}
  /\ todo' = Given(active, oldInflight)
  /\ inflight' = inflight \cup oldInflight /\ oldInflight' = {}
  /\ rerouted' = rerouted \cup oldInflight
  /\ swap' = "close"
  /\ UNCHANGED <<clientVars, remembered, active, old, cores, core, crashes, hand, stamp,
                 activeStamp, failedStamp, stampVars, ended, dropped, gaveUp>>

(* The old core's stdin is closed; the swap is complete.                   *)
CloseOldRereads ==   (* mutant: the stamp is read again at the end *)
  /\ ~ended /\ swap = "close"
  /\ core' = Closed(old) /\ old' = 0
  /\ activeStamp' = exe /\ failedStamp' = 0 /\ swap' = "idle"
  /\ UNCHANGED <<clientVars, mapVars, active, cores, todo, crashes, hand, stamp,
                 stampVars, ended, history>>
CloseOld ==
  /\ ~ended /\ swap = "close"
  /\ core' = Closed(old) /\ old' = 0
  /\ activeStamp' = stamp /\ failedStamp' = 0 /\ swap' = "idle"
  /\ UNCHANGED <<clientVars, mapVars, active, cores, todo, crashes, hand, stamp,
                 stampVars, ended, history>>

SwapStep ==
  Fire \/ Move \/ PipeFails \/ SpawnFails \/ Activate \/ Drained \/ DrainTimeout \/ CloseOld

RelayStep(c) == RelayTake(c) \/ RelayForward(c)

Next ==
  \/ StdinEof \/ Publish \/ MoveAway \/ Promote \/ SwapStep \/ MainReturns
  \/ \E q \in Reqs : Send(q)
  \/ \E c \in Cores : CoreExits(c) \/ CoreCrashes(c) \/ RelayStep(c)

Spec == Init /\ [][Next]_vars

(* The proxy's threads run, and a core answers and exits in the end.       *)
FairSpec ==
  /\ Spec /\ WF_vars(SwapStep) /\ WF_vars(MainReturns)
  /\ \A c \in Cores : WF_vars(CoreExits(c)) /\ WF_vars(RelayStep(c))

-----------------------------------------------------------------------------
(* A request the client has no answer to is in one of the maps, or a relay *)
(* is about to write its answer: no swap, failed swap or reroute forgets   *)
(* one. And requests follow the core they were written to: one of the      *)
(* current map that found a stdin is owed by the active core, as long as no*)
(* core has crashed.                                                       *)
Tracked ==
  /\ \A q \in sent : replies[q] = 0 =>
       q \in inflight \cup oldInflight \/ \E c \in Cores : hand[c] = q
  /\ active # 0 /\ crashes = 0 =>
       \A q \in inflight \ dropped : todo[active][q] > 0

(* A request is answered twice only if it is the handshake, replayed to a  *)
(* new core, or the drain timeout sent it to one.                          *)
OnceUnlessSentAgain ==
  \A q \in Reqs \ Handshake : q \notin rerouted => replies[q] <= 1

(* When nothing is going on and the active core was not spawned from the   *)
(* executable on disk, that executable failed to start, or was put there by*)
(* a rename, or its event fell into a running swap and was ignored.        *)
StaleOnlyIfMissed ==
  present /\ swap = "idle" /\ ~armed /\ active # 0 /\ ver[active] # exe =>
    failedStamp = exe \/ missed # "no"

(* Every line that found a stdin is answered, unless the proxy returns, the*)
(* client leaves, or a core crashes.                                       *)
EveryLineAnswered ==
  \A q \in Reqs : (q \in sent) ~>
    (replies[q] > 0 \/ q \in dropped \/ ended \/ eof \/ crashes > 0)

(* When the client closes stdin the proxy returns, unless a swap failed: a *)
(* failed swap may leave the original core a stdin that nobody closes.     *)
EndsAfterEof == eof ~> (ended \/ gaveUp)

-----------------------------------------------------------------------------
(* What the documentation says and the code does not keep.                 *)

(* "MCP server survives binary replacement": the proxy does not return     *)
(* while the client is there and no core has crashed.                      *)
SurvivesSwap == ended => eof \/ crashes > 0
=============================================================================
