# WKAppBot SDK: TLA+ models and proofs

WKAppBot is a Windows UI automation SDK for AI agents. Its core executable is not in the repository; what is
here is the launcher that runs that core and the services around it. This directory holds TLA+ models of the
parts whose correctness depends on order, concurrency, crashes, conditional writes and time, TLC
configurations that check them on small instances, and TLAPS proofs of the properties that matter most for
every instance. `PROJECT.json` lists the components, runs, mutants, hazards, findings and theorems, and for
every definition the source lines it stands for.

```
tlc -workers 2 -config RunLease_lease.cfg MCRunLease      # one run: <name>.cfg and its MC module
tlapm AgentRelay_proofs.tla                               # the proofs of one module
```

## 1. The system

### haiku-daemon (`services/haiku-daemon`, `.github/workflows/haiku-service.yml`)

A question-answering service that lives in GitHub Actions runs. A run is capped in time, so it dispatches its
own successor; a watchdog schedule starts a run if none is alive.

| Part | State | Operations | Talks to | Module |
|---|---|---|---|---|
| Run loop and lease (`runner.mjs`, `publisher.mjs`) | `status.json` on a branch, the sha each run remembers, run age, time of the last status write | claim, stand by, periodic status, handoff, stop, drain out | GitHub contents API; the workflow's branch reset; the service's `tick` | `RunLease` |
| Service and signaler wire (`service.mjs`, `store.mjs`, `ghwire.mjs`) | drop store, write queue, UTC day and count of writes; a ring of answers in one comment, sequence number, last turn of each guest, dedupe set | pull, adopt, drain, answer, flush, roll the day | GitHub comments, the model | `SignalerHost` |
| Pacers (`pacer.mjs`) | windows of stamps, gap mode, backoff | acquire, backoff | every request of the two above | `Pacers` |
| Kill switch, internal inbox, visitor limit (`daemon.mjs`, `wire.mjs`, `ratelimit.mjs`, `store.mjs`) | a local copy of a file on main, inbox files, request and answer files, buckets per visitor | refresh every 30 s, poll and unlink, check | the service | `HaikuTick` |
| Answering (`answer.mjs`) | one child process per question | run it, settle one promise | the model's CLI | `ChildRuns` |
| Codec, status page, clock | none | formatting | all | - |

Hard: two runs overlap on purpose at a handoff; a run can end between any two writes and keeps nothing but
what is in the comment; the lease is a file written conditionally; everything waits in pacers.
Correct means: one owner of the lease; a live lease is not stolen; a superseded run goes; the service comes
back; an answer once in the ring is neither lost unread nor given again; every turn is settled; the daily cap,
the visitor limit, the request rates and a closed kill switch hold.

### ChatGPT connector (`connectors/chatgpt-wkappbot`)

A relay with an HTTP API, an append-only event log that is replayed at start, and polling agents.

| Part | State | Operations | Talks to | Module |
|---|---|---|---|---|
| Store, log, replay (`store.js`, `log.js`, `replay.js`, `bootstrap.js`) | jobs, agents; `events.jsonl` | create, hand out, complete, heartbeat; append (errors swallowed), replay, requeue of running jobs | the HTTP face | `AgentRelay` |
| Agent (`agent.js`) | the job it runs | beat, poll, run, complete, die | the relay | `AgentRelay` |
| The command an agent runs (`run.js`) | one child process | run it, settle one promise | the shell | `ChildRuns` |
| HTTP face (`server.js`, `session.js`, `stream.js`, `auth.js`, `validate.js`) | sessions, followers of `/events` | every POST, following | the store, clients | `RelayHttp` |
| Helpers, cloud workers | none | membership tests, single requests | GitHub API | - |

Hard: replies are lost, bodies are cut off, the relay restarts in the middle of jobs, rows are lost or torn,
late reports arrive. Correct means: the log rebuilds the memory; a command is handed out once per life of the
relay; a queued job ends; a client sees a job queue, and may trust what a reply or its absence tells it.

### Launcher (`csharp/src/WKAppBot.Launcher`, `csharp/src/Shared`)

| Part | State | Operations | Talks to | Module |
|---|---|---|---|---|
| MCP proxy (`McpProxy.cs`) | two in-flight maps, active and old core handles, stamps, swap flag | route a line, relay an answer, hot-swap (move, spawn, activate, drain, close), elevate | MCP client, cores, file watcher, admin core | `McpProxy` |
| Detached core run (`IocpPipeRelay.cs`, `NonBlockingLineReader.cs`, `InterruptChannel.cs`) | exit event and file, two pipes, stop flag, reader queue, interrupt file | spawn, relay, notice the end, timeout, collect the code, kill, spawn again on 99, forward typed lines | one core, the terminal | `DetachedCore` |
| Delegation to Eye, attached core run (`EyeCmdPipeClient.cs`, `CoreRunner.cs`) | a pipe, a peeked line or two, a timer; a core | delegate, fall back, relay, time out | Eye, a core | `EyeDelegate` |
| Executable promotion (`AppBotPipe.HotSwap.cs`) | the executable and its staged successor | delete, move | launchers and cores | as `McpProxy` sees it |
| Chat runtime (`ChatRuntime.cs`) | handoff and hot-swap files, provider | stage, consume, rotate | other launchers | - |
| Chrome placement, help, transcoding, licence | none of their own | I/O, text | Windows, Chrome | - |

Hard: relay threads, the router, the watcher callback and the main thread share state; a core is replaced
while requests are open; processes end slowly and signal early; a blocked console read cannot be cancelled.
Correct means: no request forgotten or doubled by a swap; one working core; the core's own exit code; the
outcome of a command is that of one run of it; the launcher ends; typed lines arrive once and in order.

### The rest

The webseat bridge (`docs/public/webseat/webseat-bridge.mjs`) is a local HTTP server that runs a CLI for each
request: its runs of the CLI are in `ChildRuns`. A Python scenario runner, Python UI automation, workflows,
scripts, documents and data are listed in `PROJECT.json` with the reason they are not modelled.

## 2. Modules

| Module | Models | Abstract specification | Theorems |
|---|---|---|---|
| `RunLease` | run loop, lease and handoff of haiku-daemon, both publishers | - | `RunLease_proofs` |
| `SignalerHost` | service and signaler wire over one host note, several runs | implements `AnswerBoard` | `SignalerHost_proofs` |
| `AnswerBoard` | what a guest relies on when it reads the host's note | | |
| `Pacers` | read and write pacer | - | `Pacers_proofs` |
| `HaikuTick` | kill switch, inbox, drop store, visitor limit, calls of the model | - | `HaikuTick_proofs` |
| `AgentRelay` | relay, log, replay, restarts and agents | implements `JobQueue` | `AgentRelay_proofs` |
| `JobQueue` | what a client of the relay relies on | | |
| `RelayHttp` | the relay's requests, sessions and event stream | - | `RelayHttp_proofs` |
| `ChildRuns` | the three places that run a child process and wait for it | - | `HaikuTick_proofs` |
| `McpProxy` | MCP proxy without elevation | - | `McpProxy_proofs` |
| `DetachedCore` | detached core run, line reader, interrupt channel | - | `DetachedCore_proofs` |
| `EyeDelegate` | delegation to Eye, its fallback, attached core run | - | `DetachedCore_proofs` |

Each `MC` module names the symmetry or the model values of its runs. The definitions marked "mutant" are
plausible mistakes: put in place of the definition that follows, they make a run fail, so the property that
fails says something about that code. Two modules of proofs hold the theorems of two components each, which they
both extend: `HaikuTick_proofs` those of the daemon's tick and of the child processes it asks, `DetachedCore_proofs`
those of the two ways the launcher runs a core. So that no name means two things there, `ChildRuns` calls its
specification `CallSpec` and `EyeDelegate` its own `LaunchSpec`.

### RunLease

`record` is `status.json` with the age of its `updated_at`; `holders` are the runs whose remembered sha is
current, which is all a conditional write depends on. `pc` is the place in the workflow steps (`boot`,
`reset`), in the claim (`read`, `claim`) and in the loop (`loop`, `tick`, `look`, `write`, `reread`, `drain`);
every await is a step boundary. Time is a set of ages that `Tick` advances together; nothing forces a run to
act before time passes, because a run may wait in its pacer or in a model call.

### SignalerHost and AnswerBoard

Runs have their own copies of the ring, sequence number, per-guest last turn and dedupe set, and adopt the
note's at their first poll. `queue` holds answers not yet written, `notes` the comments, `day` the UTC day.
`Pull`, `Answer`, the flush, its wait for the pacer and its write are separate steps; a run may end between
any two. Kill switch, visitor limit and model are one free outcome of a turn here: they are in `HaikuTick`,
which in turn leaves the wire at "posted" and "answered in the note". Sealing is data.

The board a guest reads is `HostNote`, the ring in the first of the host's comments, and `alone` is `~overlapped`.
While no run was started beside a live one, a write keeps the answers that are there and adds below them; it drops
the oldest only when the board is full. An overlap may put another run's copy in its place: even then the numbers
rise and nothing is answered that nobody asked. How a run restarts, which answers it holds and when it writes is
left to `SignalerHost`.

### Pacers

An array of stamps loses elements at its front only, so it is a history (`reads`, `writes`) and the index it
begins at. An acquire is one step when it need not wait, else it sleeps (`wake`) and wakes at that time or any
time later, and the write pacer's loop decides again. The run loop awaits its calls one after the other, so
one acquire is under way at a time; the clock does not go back.

### HaikuTick

One tick is refresh (`BeginTick`, `Fetch`, `Save`), `PollInbox`, `Pull`, then per request `Pick` (switch, cap,
limit), `Ask`, `PutAnswer`, `Publish`, and `Flush`: each a place where the clock, the owner's flip of the
switch, a writer of the inbox, or the end of the process can come between. A process that ends is followed by
one in the same directory. The limiter's window is the clock's, and its buckets are kept and evicted as in the
code.

### AgentRelay and JobQueue

The log is represented by the state replaying it builds (`disk`), because replay is a fold of one row at a
time; `torn` says that the last row was cut short and spoils the next. `Requeued` is the bootstrap. An agent may
hang (`Hangs`) at any place and for ever: its post to the relay has no timeout, and a command that was sent SIGTERM
once may never close. One that is killed before that is started again (`AgentDies`). The queue's `st` is `state`,
its `intact` is `lost = 0`. The queue lets a recovery forget only after a lost row, and never lets one invent
anything; a late report completes a job wherever it stands, as the code does.

### RelayHttp

A request has an operation, an id and one of six bodies; its handler is one turn of the event loop once the body has
ended. `reply` is what the client got, or `lost` when its connection was gone, or `reset` when none was sent (a
restart comes before or after a whole handler: a kill between its append and its reply, which would show as a reset
too, is not among the steps). `stream` is what each follower was sent. The store behind it is reduced to a list of
jobs, and the log is taken to be whole: what happens when it is not is `AgentRelay`'s.

### ChildRuns

A call is a child process with its timer, its `error` and `close` events, its stdin, and possibly a descendant that
keeps its pipes open. `askProvider`, `runFile` and `runCli` are the same machine with the differences the code has:
who clears the timer, what the timer does, which events settle the promise, what counts as success, and whether an
error of stdin is handled. `execFile`'s own limit on the output (`maxBuffer`) is left out. The calls of the bridge
share its process and go with it.

### McpProxy

One action per stretch of code between two points where another thread can see the state: the router's `Send`,
`RelayTake` (the maps, under the gate) and `RelayForward` (the write to the client), and the swap's `Fire`, `Move`,
`PipeFails`, `SpawnFails`, `Activate`, `Drained`, `DrainTimeout`, `CloseOld`. `todo` is what a core still owes. The
executable gets to its path in two ways: it is written there (`Publish`), or the one there is moved away and its
successor renamed to it (`MoveAway`, `Promote`), as the repository's promotion does. The watcher subscribes `Created`
and `Changed` (`McpProxy.cs:152`) and a rename raises `Renamed`, so only the first arms the debounce; a timer that
fires while nothing is at the path has no stamp to read and ignores the change. `missed` remembers why the executable
on disk started no swap. A core is external: it answers each line once in any order, exits when its stdin is closed
and it owes nothing, or crashes. No request here needs elevation, so the admin core is never spawned.

### DetachedCore

`main` is the launcher's main thread, `relay` the completion-port thread with the stop flag as its loop
condition, `reader` a reader thread per core (a disposed one may still be blocked in `ReadLine`), `forward` the
interrupt forwarder. The exit event is a named object: `holds` are the cores with a handle to it, and a new
launch opens it as it is while anyone holds it. The exit file is named for the launcher's pid: `filed` says whether
its text is the core's own, torn (half written or empty), or foreign, left by an earlier launcher of that pid, whose
timeout path deletes none. `Collect` takes what `uint.TryParse` makes of it, which is 0 when it cannot be parsed
(`IocpPipeRelay.cs:357`). The external core writes, drains or not, signals and lingers, or crashes. An append to the
interrupt file or a drain of it may fail, and loses its lines without a word (`failed`). One thread of a core drains:
two that poll at once could take each other's copy, which the comment at `InterruptChannel.cs:22` allows but the
delete at 72 does not keep safe, and this is not modelled, nor is an interrupt file that an earlier core of the same
pid left behind. The joins succeed in the model: their 2 s and 500 ms limits are left out, and the terminal always
takes what is written to it.

### EyeDelegate

`pc` is the place in `TryDelegate` (connect, send, the two reads of the first-output guard, the read loop, the
judgement of a pipe that ended), in the caller (`fall`) and in `RunCore` (`core`, `left`). `buf` are the lines in the
pipe, of which the guard has read ahead `peeked`. A pipe that breaks may cut off a line, and an end marker may carry a
code `int.TryParse` cannot read (`endbad`), which leaves exit code 0. Eye and the core do what they like: the timer,
the guard, the incomplete-pipe guard and the catch-all are what the launcher answers with. A launch that falls back
goes straight to the attached run, so `EveryLaunchEnds` says nothing of the detached run in between; `TimeoutEnds` of
`DetachedCore` does, and there a fallback to `RunCore` counts as an end.

## 3. Runs

| Run | Shows | Distinct states |
|---|---|---|
| `RunLease_lease` | two runs over GitHub's conditional writes, resets, watchdogs, handoffs, one crash or failed read: never two owners, no live lease taken by a watchdog, no takeover undone, a superseded run drains, the service comes back | 361,092 |
| `SignalerHost_runs` | two runs in sequence or overlapping, crashes, refusals, a midnight: numbers go up, cap overrun at most one; without an overlap no second answer; refinement of `AnswerBoard`: the note only grows at its end, and loses its oldest answers only when full | 1,109,392 |
| `SignalerHost_settles` | every turn is answered in the note or skipped as stale, across crashes, refusals and handoffs | 106,298 |
| `Pacers_windows` | no window is ever over its limit, no write in a backoff, a hammering reader keeps the gap, a write acquire sleeps twice at most | 4,853,683 |
| `HaikuTick_serve` | no model call for a guest behind a closed switch, the visitor limit, one call per request, no request lost but in the named ways | 7,597,224, symmetry over requests |
| `AgentRelay_relay` | two agents that may hang, two jobs, two restarts, a lost row: replay, hand-outs, results, refinement of `JobQueue`, every job ends unless the agents that hold it, or all, hang | 239,140 |
| `RelayHttp_replies` | what a reply, or its absence, says of jobs and sessions; what the last row of the stream says of a job | 3,380,458, symmetry |
| `ChildRuns_calls` | what an ok says of the program that ran, and which calls may never settle | 462,132 |
| `McpProxy_swap` | two executables written or renamed to the path, two cores, a crash, failures at both places of a swap, the drain timeout and the end of the client: requests tracked and answered once, a missed executable explained, every line answered, the proxy ends | 500,234 |
| `McpProxy_survives` | finding: a completed hot-swap ends the proxy | stops at the counterexample |
| `DetachedCore_swap` | two cores by code 99, timeout, crash, torn, negative and left-over exit files, typed lines, appends and drains that fail: one working core, its code but for three ways, lines once and in order, the launcher ends, no line stays on its way | 426,414 |
| `EyeDelegate_launch` | the outcome of a command is that of one run of it, but for three leftovers, and which launches never end | 22,073 |

### Bounds and why they are enough

- RunLease: two runs, which are re-used: a run that ended may be started again as watchdog or successor, so a
  predecessor, a successor and a watchdog run all occur, though not three at once (the theorems cover that). Ages
  run up to the largest threshold, above which nothing is compared. One fault is a crash or a failed read at any
  point. The run uses GitHub's publisher; the local one, whose claim is forced, is covered by the theorems.
- SignalerHost: three turns overflow a ring of two; two runs are a restart or an overlap; a cap of one is
  reached and, with one midnight, overrun. `EveryTurnSettles` takes two turns and a cap of two, so that the cap is
  not reached by the first answer. One guest: guests share nothing but the ring and the queue.
- Pacers: both windows of the write pacer are filled, one by itself and both together, by six calls; the clock
  passes the longer window; two backoffs overlap or follow each other.
- HaikuTick: a limit of one and two requests of one visitor reach it, a second visitor makes the first one's
  bucket be evicted at `MaxVisitors` one; four ticks of the clock pass a refresh interval and a window; two flips
  open the switch and close it again; one crash.
- AgentRelay: two jobs give an order, two agents a late report of one about the job of the other, two restarts
  a recovery from a recovered log, one lost row both a missing and a torn row.
- RelayHttp: three requests are a job, its poll and its report, or a session and two notes; one restart.
- ChildRuns: calls interact only through the process of the bridge, so two of its calls and one other.
- McpProxy: one remembered handshake line and one plain request; two cores are one swap, two further versions
  of the executable let a publish fall into a running swap; one crash.
- DetachedCore: two cores are one respawn; one stream, since streams share nothing but the count of ends; two
  typed lines and a queue of one fill the queue and give an order. Cores exit in three ways (`SomeExits`): with 99 or
  a negative code in a whole file, or with a torn one; a crash gives any other code; a file left from before says 0.
  The theorems cover every way.
- EyeDelegate: one command; two lines of output, of which the guard may have read one, both or none.

Deadlock is checked where the system never stops (RunLease). The others may really stop: the last run ends, the calls
of a bounded instance are used up, the agents hang, the proxy or the launcher returns.

### Fairness

Only what the code's scheduling guarantees. Weak fairness: a live process or thread goes on (`RunStep`, `AgentStep`,
`SwapStep`, `RelayStep`, `MainStep`, `ForwardStep`, `ReadStep`, `TryDelegate`, `RunCore`), an event loop delivers its
events and timers (`Node` of `ChildRuns`, `TimerFires`), time passes (`Tick`, `Clock`), the cron schedule fires
(`Watchdog`), a missing run or agent is started again by the scheduler or service manager, and a child that was sent
SIGKILL exits. Strong fairness where a request is tried again and again against a service that refuses or loses some:
the write of a signaler run (`Flush`), an agent's `Poll` and `Complete`. An agent that hangs has none of these:
`EveryJobEnds` names the jobs in its hands. They say that GitHub does not refuse every write for ever and that the
network does not lose every reply for ever. In `McpProxy` a core answers and exits; in `DetachedCore` nothing makes a
core drain its file, which it does at its own checkpoints if at all, or exit, which is what the timeout is for; in
`EyeDelegate` and `ChildRuns` nothing is asked of Eye, the core or a child. The liveness properties name what may keep
them from happening (a cap reached for ever, a descendant that keeps a pipe, a silent core) instead of assuming it
away. Faults, publishes, typed lines, flips of the switch and client actions are never fair.

## 4. Proofs

Each `_proofs` module proves its theorems for every value of the constants that the module's assumptions allow:
any number of runs, guests, turns, jobs, agents, cores, lines, requests, any limits, windows and times. The
invariants the runs check are seldom inductive; what each proof adds to them is this.

`RunLease_proofs`: `OwnerIsNamed` needs that the file exists once a run serves (else a run without a sha could
create it a second time) and that a claim with a current sha of another run's record is of a dead record (the age
only grows until somebody writes, and a write makes the sha old): together `LeaseInv`. `Ownership`,
`LiveLeaseIsRespected` (for conditional writes), `NoTakeBack` and `SupersededDrains` follow step by step.

`SignalerHost_proofs`: the cap (`CapInv`) needs the writes of a run that still counts for the day before: at most
one, at the end of the drain that began before midnight. Sequence numbers (`SeqInv`) need that a run's ring does
not pass the last number it used. `NeverAnsweredAgain` rests on `OneLife`: as long as no run was started beside a
live one, every run before the newest is gone, and a run that polled has the only note for its ring and knows every
turn it answers (`Knows`), by its own books (`OwnInv`) what it queues it has answered. The refinement of
`AnswerBoard` needs besides that what any ring, queue or note answers was posted (`AskedInv`), and that a queue
holds a turn once and none that its own ring answers (`OnceInv`), so that a flush adds only turns the board has not.
`NoSeenTurnLost` is the safety half of `EveryTurnSettles`: a turn that a run has passed over, and so will not see
again, waits in its drop store or its queue until it is settled, overlap or not, since what a run holds as answered
is settled (`KnownInv`); only a batch longer than the ring, or the end of the run, takes it away.

`Pacers_proofs`: `WindowsHold` needs that the stamps decide: what was pruned is an hour old, and an acquire that
slept once is past its backoff, one that slept twice past its windows (`WriteInv`), which is `AcquireEnds` too. A
write waits for the latest end of all backoffs (`BackoffInv`). A hammering reader stays in gap mode because gap
mode ends a window after the last read (`ReadInv`).

`HaikuTick_proofs`: a local switch that is open was open on main when, or after, the last refresh began
(`SwitchInv`); a request that is not answered was called no more often than crashes cut its calls off, until its
call returns (`AskInv`); what a visitor was allowed is what earlier processes could allow, what its bucket counts,
and a call carried over (`AllowInv`). `NothingVanishes` is nearly inductive (`KeptInv`).
For `ChildRuns`, `OkIsHonest` needs that what the child did cannot change under the result: a call that is ok has
a child that ended, and one that was killed never ends with 0 (`EndInv`).

`AgentRelay_proofs`: `BooksInvariant` (a job not created left no trace; a job is handed out at most once more than
there were restarts, and not at all in this life while it is queued; the log is never ahead of the memory),
`ReplayAgreement`, and `RelayImplementsQueue`, the refinement of `JobQueue` through `st <- state,
intact <- (lost = 0)`. The refinement needs both invariants at a restart: the agreement when the log is intact, the
log not being ahead of the memory when it is not. `ResultStands`, that a
reported result is replaced only after a restart and a second hand-out, needs who holds a job: one handed out once
has a result or a single holder, never both (`HolderInv`).

`RelayHttp_proofs`: replies and stream are read by clients long after the store moved on, so `RepliesTellEffects`
is proved with invariants that tie each message to the state it was made in: only a request that was made has a
reply (`FreshInv`), every job is that of a good create that was answered (`OriginInv`), and a job that runs was given
to a poll whose reply names it (`TakerInv`). `StreamTellsState` follows a row from `Publish` to every follower.

`McpProxy_proofs`: `Tracked` needs that the current and the draining core are two that run while none has crashed
(`HandlesInv`) and that the map of the old core holds only what it owes (`MapsInv`). `OnceUnlessSentAgain` needs a
single copy of a request in all cores, pipes and hands (`OnceInv`), `StaleOnlyIfMissed` what stamps and versions tell
in each phase of a swap, while the executable is there and while it is not (`StampInv`): a core at rest is not the
executable on disk only if that one failed to start, was renamed to its path, or had its event in a running swap.
`NoLineStranded` is the safety half of `EveryLineAnswered`: until a core crashes, each line that found a stdin is
answered, in the hand of a relay, or owed by a core that has not ended; it rests on the external core's promise to end
only when it owes nothing.

`DetachedCore_proofs`: `OneCore`, `ExitCodeIsCores` and `SparesWorkingCore` follow from `CoresInv`, which says what
holds between the exit event and the return: only the newest core may be working, and none is when the next is
spawned; until the code is collected the exit file is absent, or the core's own, whole or torn, or, for a first core
that has not exited by itself, one left from before; and a core that did not find the
event of an earlier one set works only while it is polled with the event clear. What is returned is then the core's
code but for the three ways `Accounted` names. `InterruptsInOrder` needs the
order of a line's whole way (`OrderInv`): terminal, reader's hand, queue, forwarder's hand, file, drained copy, seen;
and the readers' books (`ReaderInv`): only the current one has a line in hand, none has while the forwarder is
off, and a swallowed line is the last of a disposed reader. `NoTypedLineLost`, the safety half of
`DirectiveArrives`, adds that a hand is empty when the next line is put in it (`HandInv`): besides an append and a
drain that fail, only the close of the forwarder and the spawn of the next core clear what is on its way. For
`EyeDelegate`, `OneOutcome` needs that
nothing of Eye's is shown before the read loop, that a launch past Eye has lost it, and that the only end marker on
the way is the one Eye wrote, whole or with its code cut off (`OwnEnd`, `LaunchInv`).

Every safety property of the runs is proved. Only model-checked is what is out of the prover's reach, liveness under
fairness: `ServiceComesBack`, `EveryTurnSettles`, `EveryJobEnds`, `EveryLineAnswered`, `EndsAfterEof`, `TimeoutEnds`,
`DirectiveArrives`, `CallsSettle` and `EveryLaunchEnds`. Of three of these the safety half, that no step loses what
must still arrive, is a theorem: `NoSeenTurnLost`, `LinesAreOwed`, `NoTypedLineIsLost`. `SurvivesSwap`, which the code
does not keep, has a counterexample instead.

## 5. Where code and documents differ

One disagreement has a run. `McpProxy_survives`: a completed MCP hot-swap closes the original core, whose relay is
the proxy's main thread (`McpProxy.cs:471`), and so ends the proxy, while `docs/eye-card-policy.md:81` says that
the MCP server survives binary replacement.

Others were met while modelling. Where a property is named it holds with the exception stated in it:

- haiku-daemon's README (57) says that turns in the ring are never answered again; in an overlapping takeover each run
  has its own copy of the ring and may answer it (`NeverAnsweredAgain` holds as long as none overlapped).
- The daily cap counts from zero in each run, though the README (32) describes it per UTC day (`CapOverrunIsOne` is
  per run).
- haiku-daemon's README (13) says that the kill switch is read from main every 30 s; it is read at the start of a
  tick only, and a tick may take longer (`PublicAskUnderOpenSwitch` counts from the start of the tick).
- `McpProxy.cs:380`: a line read between the move of the old core and the start of the new one is remembered and
  written to no core, while the repository's README (298) speaks of zero downtime (`EveryLineAnswered` names such
  lines).
- `McpProxy.cs:151` names a rename swap by Eye among the triggers of a hot-swap, but lines 152 and 153 subscribe no
  `Renamed`: an executable that `AppBotPipe.HotSwap.cs:34-36` renames to the path starts none. Besides that, and one
  whose event falls into a running swap, every executable is taken or fails to start (`StaleOnlyIfMissed`).
- `IocpPipeRelay.cs:356-357`: the exit file is there for the "exact exit code from Main", but a text that
  `uint.TryParse` refuses, as of a negative code or a file half written, is returned as 0 (`ExitCodeIsCores`).
- `IocpPipeRelay.cs:343`: the exit event sets the relay's stop flag before the pipes are read out, so the last
  output of a core may be dropped; the comments at 264 and 342 say drain.
- `EyeCmdPipeClient.cs:187`: any failure after the connect counts as a delegation that ended with code 0, and so
  does a pipe that ended while the timer fired; the summary at line 20 says false is returned on failure
  (`OneOutcome` calls both `blind`). An end marker whose code cannot be parsed is taken for code 0 as well
  (line 146; `blind` is `garbled`).
- `server.js`: a body over the limit gets no 400 `body_too_large`: the socket is destroyed first (`reply` is
  `reset`). Nothing calls `mark` of `metrics.js`.
- The webseat bridge takes the text of a CLI that was cut off by its timer for the answer, and an error on the
  stdin of one CLI ends the bridge with the calls of all (`OkIsHonest`, `CallsSettle` name both).

Recorded as hazards only, since no document promises otherwise: a relay restart forgets a job's result; a core spawned
after code 99 while the core before it still holds the named exit event is taken for ended (`SparesWorkingCore` names
this exception); a reader left behind by a respawn takes one typed line; a launcher that times out leaves its core
running, and its exit file to a later launcher of the same pid; an interrupt line is dropped without a word when its
append fails; a visitor has a fresh allowance after each restart of the service; the attached run looks at its timeout
only after a read (`EveryLaunchEnds`).

## 6. Not modelled

- `McpProxy` with elevation (`SpawnAdminCore`, the `--sudo` gate): the admin thread, the saved request, the
  deferred swap. It would double the states of the swap; the component is listed as partly modelled.
- Executable promotion by several processes at once (`McpProxy` has its effect on one directory), and the chat
  runtime's handoff files: two small protocols of several processes over one file each. They are the next modules
  worth writing.
- The fast exit, relay file and follow mode of `RunCore`, the admin pipe, and the limits of the joins of
  `DetachedCore`.
- An abstract specification still worth stating: a request-reply channel that `McpProxy` implements in the absence
  of a failed swap.
- Sequential or stateless code: the Python scenario runner, cloud workers, GET handlers, the entry point and its
  watchdog loop; and code whose inputs a model would have to invent: Chrome placement, UI automation and vision.
- Codecs, sealing, transcoding, help, workflows other than what `haiku-service.yml` fixes for the lease, scripts,
  documents and data. The core's own command loop and Eye are not in the repository and are external.
