------------------------------ MODULE HaikuTick ------------------------------
(***************************************************************************)
(* One haiku-daemon (--serve) restarted in the same state directory: the   *)
(* kill switch it copies from main, its internal inbox, the drop store,    *)
(* the visitor limit and the calls of the model. The public wire is left   *)
(* at what its users see: the asks posted, and those its note answers (its *)
(* ring, pacing and daily cap are in SignalerHost).                        *)
(*                                                                         *)
(* A request is an id. pending() hands requests out in the order they were *)
(* received, which no property tells apart: any order here. Each await,    *)
(* file operation or call is a step of its own where another actor, the    *)
(* clock or the end of the process can come between.                       *)
(***************************************************************************)
EXTENDS Naturals, FiniteSets

CONSTANTS
  Internal, Public,  (* request ids                                        *)
  Visitors, VisitorOf,
  KsEvery,           (* 30 s between two looks at main's kill switch       *)
  Window,            (* windowMs of VisitorLimiter                         *)
  Max, MaxVisitors,  (* its max and maxVisitors                            *)
  NoRequest,
  MaxNow, MaxFlips, MaxCrashes   (* bounds                                 *)

ASSUME TickAssumption ==
  /\ Internal \cap Public = {} /\ NoRequest \notin Internal \cup Public
  /\ VisitorOf \in [Public -> Visitors]
  /\ KsEvery \in Nat \ {0} /\ Window \in Nat \ {0}
  /\ Max \in Nat /\ MaxVisitors \in Nat
  /\ MaxNow \in Nat /\ MaxFlips \in Nat /\ MaxCrashes \in Nat

VARIABLES
  now,
  main, closedAt, flips,  (* KILL_SWITCH on main; when it was closed last  *)
  inbox,      (* its files: none, half (no request parses from it), whole  *)
  posted,     (* asks in the guests' notes                                 *)
  note,       (* asks answered in the host's note                          *)
  req, ans,   (* req/<id>.json and ans/<id>.json                           *)
  file,       (* the local KILL_SWITCH                                     *)
  pc,         (* where the process is; "down" between two processes        *)
  ksAt, got,  (* when the last refresh began; what it fetched              *)
  tickAt,     (* when this tick began; 0 between ticks                     *)
  held,       (* requests poll() took from the inbox                       *)
  batch, cur, (* requests this drain still has to answer, the one it is at *)
  buckets,    (* VisitorLimiter.buckets                                    *)
  queue,      (* answers queued for the wire                               *)
  crashes,
  asks,       (* history: calls of the model for each request              *)
  cut,        (* history: those a crash cut off before their putAnswer     *)
  dropped,    (* history: requests whose file was written                  *)
  lost,       (* history: requests a crash, or a file read half, lost      *)
  asksIn,     (* history: calls of each visitor in the current window      *)
  carried,    (* history: visitors with a call allowed in the window before*)
  lives       (* history: processes that lived in the current window       *)

mainVars  == <<main, closedAt, flips>>
worldVars == <<mainVars, inbox, posted>>
storeVars == <<req, ans>>
ksVars    == <<file, ksAt, got>>
workVars  == <<held, batch, cur, buckets, queue>>
history   == <<asks, cut, dropped, lost, asksIn, carried, lives>>
vars == <<now, worldVars, note, storeVars, ksVars, pc, tickAt, workVars, crashes, history>>

Requests == Internal \cup Public
Win(t) == t \div Window

TypeOK ==
  /\ now \in Nat /\ closedAt \in Nat /\ flips \in Nat /\ crashes \in Nat
  /\ main \in {"open", "closed"} /\ file \in {"open", "closed"} /\ got \in {"open", "closed"}
  /\ inbox \in [Internal -> {"none", "half", "whole"}]
  /\ posted \subseteq Public /\ note \subseteq Public
  /\ req \subseteq Requests /\ ans \subseteq Requests
  /\ pc \in {"down", "tick", "fetch", "save", "inbox", "put", "drain", "ask",
             "record", "publish"}
  /\ ksAt \in Nat /\ tickAt \in Nat
  /\ held \subseteq Internal /\ queue \subseteq Public
  /\ batch \subseteq Requests /\ cur \in Requests \cup {NoRequest}
  /\ DOMAIN buckets \subseteq Visitors
  /\ \A v \in DOMAIN buckets : buckets[v] \in [win: Nat, n: 0..Max]
  /\ asks \in [Requests -> Nat] /\ cut \in [Requests -> Nat]
  /\ dropped \subseteq Internal /\ lost \subseteq Requests
  /\ asksIn \in [Visitors -> Nat] /\ carried \subseteq Visitors /\ lives \in Nat

(* The switch is closed by default; the owner may open it before the first *)
(* tick. The clock shows more than KsEvery when a process starts (ksAt 0). *)
Init ==
  /\ now = KsEvery
  /\ main = "closed" /\ file = "closed" /\ closedAt = 0 /\ flips = 0
  /\ inbox = [r \in Internal |-> "none"] /\ posted = {} /\ note = {}
  /\ req = {} /\ ans = {}
  /\ pc = "tick" /\ ksAt = 0 /\ got = "closed" /\ tickAt = 0
  /\ held = {} /\ batch = {} /\ cur = NoRequest
  /\ buckets = <<>> /\ queue = {} /\ crashes = 0
  /\ asks = [r \in Requests |-> 0] /\ cut = [r \in Requests |-> 0] /\ dropped = {} /\ lost = {}
  /\ asksIn = [v \in Visitors |-> 0] /\ carried = {} /\ lives = 1

-----------------------------------------------------------------------------
(* The world: the clock, the owner's switch, guests, writers of the inbox. *)
Tick ==
  /\ now < MaxNow
  /\ now' = now + 1
  /\ IF Win(now') = Win(now) THEN UNCHANGED <<asksIn, carried, lives>>
     ELSE /\ asksIn' = [v \in Visitors |-> 0]
          /\ carried' = IF pc = "ask" /\ cur \in Public THEN {VisitorOf[cur]} ELSE {}
          /\ lives' = IF pc = "down" THEN 0 ELSE 1
  /\ UNCHANGED <<worldVars, note, storeVars, ksVars, pc, tickAt, workVars, crashes, asks, cut, dropped, lost>>

Flip ==
  /\ flips < MaxFlips
  /\ flips' = flips + 1
  /\ IF main = "open" THEN main' = "closed" /\ closedAt' = now
     ELSE main' = "open" /\ closedAt' = 0
  /\ UNCHANGED <<now, inbox, posted, note, storeVars, ksVars, pc, tickAt, workVars, crashes, history>>

Post(r) ==
  /\ r \notin posted
  /\ posted' = posted \cup {r}
  /\ UNCHANGED <<now, mainVars, inbox, note, storeVars, ksVars, pc, tickAt, workVars, crashes, history>>

(* A writer creates the file and then fills it, or renames it into place.  *)
(* Once per request: it is not written again after poll() deleted it.      *)
Drop(r, content) ==
  /\ r \notin dropped
  /\ inbox' = [inbox EXCEPT ![r] = content] /\ dropped' = dropped \cup {r}
  /\ UNCHANGED <<now, mainVars, posted, note, storeVars, ksVars, pc, tickAt, workVars, crashes,
                 asks, cut, lost, asksIn, carried, lives>>
Fill(r) ==
  /\ inbox[r] = "half"
  /\ inbox' = [inbox EXCEPT ![r] = "whole"]
  /\ UNCHANGED <<now, mainVars, posted, note, storeVars, ksVars, pc, tickAt, workVars, crashes, history>>

-----------------------------------------------------------------------------
(* preTick: at most every KsEvery main's switch is fetched and written to  *)
(* the local file.                                                         *)
BeginTick ==
  /\ pc = "tick"
  /\ tickAt' = now
  /\ IF now - ksAt < KsEvery THEN pc' = "inbox" /\ UNCHANGED ksAt
     ELSE pc' = "fetch" /\ ksAt' = now
  /\ UNCHANGED <<now, worldVars, note, storeVars, file, got, workVars, crashes, history>>

(* The answer is what main holds (a 304 brings the cached body, which is   *)
(* the same) or an error, which counts as closed.                          *)
Fetch ==
  /\ pc = "fetch"
  /\ got' \in {main, "closed"}
  /\ pc' = "save"
  /\ UNCHANGED <<now, worldVars, note, storeVars, file, ksAt, tickAt, workVars, crashes, history>>

Saved(state) ==
  /\ pc = "save"
  /\ file' = state /\ got' = "closed"
  /\ pc' = "inbox"
  /\ UNCHANGED <<now, worldVars, note, storeVars, ksAt, tickAt, workVars, crashes, history>>
SaveUnlessClosed == Saved(IF got = "open" THEN "open" ELSE file)   (* mutant: an error is only logged *)
Save == Saved(got)

-----------------------------------------------------------------------------
(* pull(). LocalDirWire.poll reads and unlinks every file, whether or not  *)
(* a request parses from it; the requests are in memory only.              *)
PollInbox ==
  /\ pc = "inbox"
  /\ held' = {r \in Internal : inbox[r] = "whole"}
  /\ lost' = lost \cup {r \in Internal : inbox[r] = "half"}
  /\ inbox' = [r \in Internal |-> "none"]
  /\ pc' = "put"
  /\ UNCHANGED <<now, mainVars, posted, note, storeVars, ksVars, tickAt, batch, cur, buckets,
                 queue, crashes, asks, cut, dropped, asksIn, carried, lives>>

(* putRequest refuses a request whose file or answer exists.               *)
PutRequests(rs) == req' = req \cup (rs \ (req \cup ans))

PullAnsweredToo ==   (* mutant: pending() does not look for answers *)
  /\ pc = "put"
  /\ PutRequests(held \cup (posted \ note)) /\ held' = {}
  /\ batch' = req'
  /\ pc' = "drain"
  /\ UNCHANGED <<now, worldVars, note, ans, ksVars, tickAt, cur, buckets, queue, crashes, history>>
(* The asks the wire's cursors passed are in the store, which refuses them;*)
(* a new process is given old asks again, except those in its ring.        *)
Pull ==
  /\ pc = "put"
  /\ PutRequests(held \cup (posted \ note)) /\ held' = {}
  /\ batch' = req' \ ans     (* pending() *)
  /\ pc' = "drain"
  /\ UNCHANGED <<now, worldVars, note, ans, ksVars, tickAt, cur, buckets, queue, crashes, history>>

-----------------------------------------------------------------------------
(* VisitorLimiter.check(v): windows are aligned; at maxVisitors a new      *)
(* visitor's check removes the buckets of other windows.                   *)
Kept(v) ==
  IF v \notin DOMAIN buckets /\ Cardinality(DOMAIN buckets) >= MaxVisitors
  THEN {u \in DOMAIN buckets : buckets[u].win = Win(now)}
  ELSE DOMAIN buckets
Used(v) ==
  IF v \in DOMAIN buckets /\ buckets[v].win = Win(now) THEN buckets[v].n ELSE 0
WithinLimitLate(v) == Used(v) <= Max   (* mutant: one too many *)
WithinLimit(v) == Used(v) < Max
Check(v, n) ==
  buckets' = [u \in Kept(v) \cup {v} |->
                IF u = v THEN [win |-> Win(now), n |-> n] ELSE buckets[u]]

(* answerOne up to the call. Refused by the switch, by the daily cap, by   *)
(* the limit or by a simulated 429, or allowed to call the model.          *)
Refused(r)   == r \in Public /\ file = "closed"
Refuse(r) ==
  /\ \/ Refused(r) /\ UNCHANGED buckets
     \/ ~Refused(r) /\ r \in Public /\ UNCHANGED buckets              (* daily cap *)
     \/ /\ ~Refused(r) /\ r \in Public /\ ~WithinLimit(VisitorOf[r])
        /\ Check(VisitorOf[r], Used(VisitorOf[r]))
     \/ /\ r \in Public /\ ~Refused(r) /\ WithinLimit(VisitorOf[r])   (* 429 *)
        /\ Check(VisitorOf[r], Used(VisitorOf[r]) + 1)
     \/ r \in Internal /\ UNCHANGED buckets                           (* 429 *)
  /\ ans' = ans \cup {r} /\ pc' = "publish"
Allow(r) ==
  /\ ~Refused(r)
  /\ IF r \in Public
     THEN WithinLimit(VisitorOf[r]) /\ Check(VisitorOf[r], Used(VisitorOf[r]) + 1)
     ELSE UNCHANGED buckets
  /\ pc' = "ask" /\ UNCHANGED ans

Pick(r) ==
  /\ pc = "drain" /\ r \in batch
  /\ Refuse(r) \/ Allow(r)
  /\ batch' = batch \ {r} /\ cur' = r
  /\ UNCHANGED <<now, worldVars, note, req, ksVars, tickAt, held, queue, crashes, history>>

(* After the simulated latency: the call.                                  *)
Ask ==
  /\ pc = "ask"
  /\ asks' = [asks EXCEPT ![cur] = @ + 1]
  /\ asksIn' = IF cur \in Public THEN [asksIn EXCEPT ![VisitorOf[cur]] = @ + 1] ELSE asksIn
  /\ pc' = "record"
  /\ UNCHANGED <<now, worldVars, note, storeVars, ksVars, tickAt, workVars, crashes, cut, dropped, lost, carried,
                 lives>>

PutAnswer ==
  /\ pc = "record"
  /\ ans' = ans \cup {cur}
  /\ pc' = "publish"
  /\ UNCHANGED <<now, worldVars, note, req, ksVars, tickAt, workVars, crashes, history>>

(* publishAnswer and dropRequest. An internal answer stays in ans/: --serve*)
(* gives its inbox no outbox.                                              *)
PublishAsked ==   (* mutant: an answer that called no model is not published *)
  /\ pc = "publish"
  /\ queue' = IF cur \in Public /\ asks[cur] > 0 THEN queue \cup {cur} ELSE queue
  /\ req' = req \ {cur}
  /\ cur' = NoRequest /\ pc' = "drain"
  /\ UNCHANGED <<now, worldVars, note, ans, ksVars, tickAt, held, batch, buckets, crashes, history>>
Publish ==
  /\ pc = "publish"
  /\ queue' = IF cur \in Public THEN queue \cup {cur} ELSE queue
  /\ req' = req \ {cur}
  /\ cur' = NoRequest /\ pc' = "drain"
  /\ UNCHANGED <<now, worldVars, note, ans, ksVars, tickAt, held, batch, buckets, crashes, history>>

Flush ==
  /\ pc = "drain" /\ batch = {}
  /\ note' = note \cup queue /\ queue' = {}
  /\ pc' = "tick" /\ tickAt' = 0
  /\ UNCHANGED <<now, worldVars, storeVars, ksVars, held, batch, cur, buckets, crashes,
                 history>>

-----------------------------------------------------------------------------
(* The process ends anywhere. What it held in memory is gone: requests     *)
(* taken from the inbox, answers recorded but not in the note yet.         *)
Crash ==
  /\ pc # "down" /\ crashes < MaxCrashes
  /\ crashes' = crashes + 1
  /\ lost' = lost \cup held \cup ((ans \cap Public) \ note)
  /\ cut' = IF pc = "record" /\ asks[cur] > cut[cur] THEN [cut EXCEPT ![cur] = @ + 1] ELSE cut
  /\ held' = {} /\ batch' = {} /\ cur' = NoRequest /\ buckets' = <<>> /\ queue' = {}
  /\ pc' = "down" /\ tickAt' = 0
  /\ UNCHANGED <<now, worldVars, note, storeVars, ksVars, asks, dropped, asksIn, carried, lives>>

(* The next process, with the switch as it was left or checked out anew.   *)
Restart ==
  /\ pc = "down"
  /\ file' \in {file, main}
  /\ ksAt' = 0 /\ pc' = "tick" /\ lives' = lives + 1
  /\ UNCHANGED <<now, worldVars, note, storeVars, got, tickAt, workVars, crashes, asks, cut, dropped, lost, asksIn, carried>>

World == Tick \/ Flip \/ Crash \/ \E r \in Public : Post(r)
Writer == \E r \in Internal : Fill(r) \/ \E c \in {"half", "whole"} : Drop(r, c)
Daemon ==
  \/ BeginTick \/ Fetch \/ Save \/ PollInbox \/ Pull
  \/ \E r \in Requests : Pick(r)
  \/ Ask \/ PutAnswer \/ Publish \/ Flush \/ Restart
Next == World \/ Writer \/ Daemon

Spec == Init /\ [][Next]_vars

-----------------------------------------------------------------------------
LastOpen == IF main = "open" THEN now ELSE closedAt

(* A public request reaches the model only if main's switch was open when, *)
(* or after, a refresh began less than KsEvery before this tick: whatever  *)
(* refreshes fail, and wherever a restart falls.                           *)
PublicAskUnderOpenSwitch ==
  pc = "ask" /\ cur \in Public => LastOpen + KsEvery > tickAt

(* A visitor's calls in one window are at most Max per process, besides one*)
(* that was allowed at the end of the window before.                       *)
AllowanceHolds ==
  \A v \in Visitors : asksIn[v] <= Max * lives + (IF v \in carried THEN 1 ELSE 0)

(* A request calls the model once, and again only after a crash cut its    *)
(* call off: not after it was answered, however often it is delivered.     *)
AskedOnce == \A r \in Requests : asks[r] <= 1 + cut[r]

(* No request vanishes: one written whole to the inbox is there, in memory *)
(* or in the drop store until it is answered, and an answer to a guest is  *)
(* queued until it is in the note, also when the process that answers is   *)
(* not the one that took it; but for those lost to a crash between two     *)
(* such places or to a file read before it was whole.                      *)
NothingVanishes ==
  /\ \A r \in Internal :
       r \in dropped => inbox[r] # "none" \/ r \in held \cup req \cup ans \cup lost
  /\ \A r \in Public \cap ans :
       r \in queue \cup note \cup lost \/ (pc = "publish" /\ r = cur)
=============================================================================
