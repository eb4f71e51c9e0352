----------------------------- MODULE SignalerHost -----------------------------
(***************************************************************************)
(* haiku-daemon as the host of the signaler wire: HaikuService (pull,      *)
(* drop store, drain, daily cap, flush) over GitHubIssueWire (one issue,   *)
(* one comment per peer, the host's answers in a bounded ring).            *)
(*                                                                         *)
(* A guest's note holds its turns 1, 2, ...; the host's note holds a ring  *)
(* of answers with increasing sequence numbers. Runs follow one another:   *)
(* a run that ends loses its memory (cursors, queue, counters) and, on the *)
(* workflow runner, its state directory; the note is all that survives.    *)
(* What an answer says is left out: a refusal, a rate limit, an error and  *)
(* a model answer all settle a turn.                                       *)
(***************************************************************************)
EXTENDS Naturals, Sequences, SequencesExt

CONSTANTS
  Guests,   (* guest peers                                                 *)
  MaxTurn,  (* bound: turns of one guest                                   *)
  LastRun,  (* bound: runs 1..LastRun start in this order                  *)
  RingMax,  (* ringMax: answers kept in the host's note                    *)
  Cap,      (* daily_cap_writes: wire writes per UTC day                   *)
  MaxDay,   (* bound: UTC days                                             *)
  Overlap   (* TRUE: a run may start while its predecessor still serves    *)

ASSUME SignalerAssumption ==
  /\ MaxTurn \in Nat /\ LastRun \in Nat \ {0} /\ RingMax \in Nat \ {0}
  /\ Cap \in Nat \ {0} /\ MaxDay \in Nat /\ Overlap \in BOOLEAN

VARIABLES
  posted,    (* posted[g]: the turns in g's note are 1..posted[g]          *)
  old,       (* guests whose note was not touched for staleMs              *)
  notes,     (* host comments on the issue, in creation order: their rings *)
  day,       (* the UTC day                                                *)
  pc,        (* new, poll (top of the tick), drain, write, gone            *)
  accepting, (* service.accepting                                          *)
  noteId,    (* the comment the run edits; 0 is null                       *)
  ring, seq, (* its copy of the ring and the last sequence number it used  *)
  lastSeq,   (* last turn seen of each guest                               *)
  answered,  (* turns found in the adopted ring                            *)
  cold,      (* no poll has been processed yet                             *)
  req, ans,  (* the drop store: requests waiting, requests answered        *)
  queue,     (* answers queued for the wire                                *)
  ownDay,    (* service.day                                                *)
  writes,    (* status.wire_writes_today                                   *)
  asked,     (* history: turns answerOne handled, per run                  *)
  settled,   (* history: turns shown in a note, or skipped as stale        *)
  dayWrites, (* history: writes each run made in the current UTC day       *)
  overlapped (* history: a run started while its predecessor was live      *)

guestVars == <<posted, old>>
wireVars  == <<noteId, ring, seq, lastSeq, answered, cold>>
storeVars == <<req, ans, asked>>
capVars   == <<ownDay, writes, dayWrites>>
vars == <<guestVars, notes, day, pc, accepting, wireVars, storeVars, queue, capVars, settled,
          overlapped>>

Runs == 1..LastRun
Asks == Guests \X (1..MaxTurn)
Item == [seq: Nat, ask: Asks]

Live(r)     == pc[r] \in {"poll", "drain", "write"}
AsksOf(rg)  == {rg[i].ask : i \in DOMAIN rg}
LastOf(rg)  == IF rg = <<>> THEN 0 ELSE Last(rg).seq
Recent(rg)  == SubSeq(rg, IF Len(rg) > RingMax THEN Len(rg) - RingMax + 1 ELSE 1, Len(rg))
CappedLate(r) == writes[r] > Cap   (* mutant: one write too many *)
Capped(r)   == writes[r] >= Cap

TypeOK ==
  /\ posted \in [Guests -> 0..MaxTurn] /\ old \in SUBSET Guests
  /\ notes \in Seq(Seq(Item))
  /\ \A n \in DOMAIN notes : Len(notes[n]) \in 1..RingMax
  /\ day \in 0..MaxDay
  /\ pc \in [Runs -> {"new", "poll", "drain", "write", "gone"}]
  /\ accepting \in [Runs -> BOOLEAN] /\ cold \in [Runs -> BOOLEAN]
  /\ noteId \in [Runs -> 0..Len(notes)]
  /\ ring \in [Runs -> Seq(Item)] /\ seq \in [Runs -> Nat]
  /\ lastSeq \in [Runs -> [Guests -> 0..MaxTurn]]
  /\ answered \in [Runs -> SUBSET Asks]
  /\ req \in [Runs -> SUBSET Asks] /\ ans \in [Runs -> SUBSET Asks]
  /\ asked \in [Runs -> SUBSET Asks]
  /\ queue \in [Runs -> Seq(Asks)]
  /\ ownDay \in [Runs -> 0..MaxDay]
  /\ writes \in [Runs -> Nat] /\ dayWrites \in [Runs -> Nat]
  /\ settled \in SUBSET Asks /\ overlapped \in BOOLEAN

Init ==
  /\ posted = [g \in Guests |-> 0] /\ old = {}
  /\ notes = <<>> /\ day = 0
  /\ pc = [r \in Runs |-> "new"]
  /\ accepting = [r \in Runs |-> TRUE] /\ cold = [r \in Runs |-> TRUE]
  /\ noteId = [r \in Runs |-> 0]
  /\ ring = [r \in Runs |-> <<>>] /\ seq = [r \in Runs |-> 0]
  /\ lastSeq = [r \in Runs |-> [g \in Guests |-> 0]]
  /\ answered = [r \in Runs |-> {}]
  /\ req = [r \in Runs |-> {}] /\ ans = [r \in Runs |-> {}]
  /\ asked = [r \in Runs |-> {}]
  /\ queue = [r \in Runs |-> <<>>]
  /\ ownDay = [r \in Runs |-> 0]
  /\ writes = [r \in Runs |-> 0] /\ dayWrites = [r \in Runs |-> 0]
  /\ settled = {} /\ overlapped = FALSE

-----------------------------------------------------------------------------
(* The guests, the clock and the run loop around the service.              *)
Post(g) ==
  /\ posted[g] < MaxTurn
  /\ posted' = [posted EXCEPT ![g] = @ + 1]
  /\ old' = old \ {g}
  /\ UNCHANGED <<notes, day, pc, accepting, wireVars, storeVars, queue, capVars, settled, overlapped>>

GrowOld(g) ==
  /\ g \notin old /\ posted[g] > 0
  /\ old' = old \cup {g}
  /\ UNCHANGED <<posted, notes, day, pc, accepting, wireVars, storeVars, queue, capVars, settled, overlapped>>

NewDay ==
  /\ day < MaxDay
  /\ day' = day + 1
  /\ dayWrites' = [r \in Runs |-> 0]
  /\ UNCHANGED <<guestVars, notes, pc, accepting, wireVars, storeVars, queue, ownDay, writes, settled, overlapped>>

(* A run starts: with Overlap as its predecessor's takeover successor,     *)
(* without it only after its predecessor is gone.                          *)
StartRun(r) ==
  /\ pc[r] = "new"
  /\ r > 1 => pc[r - 1] = "gone" \/ (Overlap /\ pc[r - 1] # "new")
  /\ pc' = [pc EXCEPT ![r] = "poll"]
  /\ ownDay' = [ownDay EXCEPT ![r] = day]
  /\ overlapped' = (overlapped \/ (r > 1 /\ Live(r - 1)))
  /\ UNCHANGED <<guestVars, notes, day, accepting, wireVars, storeVars, queue, writes,
                 dayWrites, settled>>

(* The process ends: at maxRunMs, or because a poll, a flush or a status   *)
(* write threw. The bound keeps the last run.                              *)
EndRun(r) ==
  /\ Live(r) /\ r < LastRun
  /\ pc' = [pc EXCEPT ![r] = "gone"]
  /\ UNCHANGED <<guestVars, notes, day, accepting, wireVars, storeVars, queue, capVars, settled, overlapped>>

-----------------------------------------------------------------------------
(* _rollDay at the head of drain().                                        *)
RollDay(r) ==
  /\ ownDay' = [ownDay EXCEPT ![r] = day]
  /\ writes' = [writes EXCEPT ![r] = IF ownDay[r] # day THEN 0 ELSE @]

(* handedOff(): the run saw its successor in status.json.                  *)
HandedOff(r) ==
  /\ pc[r] = "poll" /\ accepting[r] /\ \E s \in Runs : s > r /\ pc[s] # "new"
  /\ accepting' = [accepting EXCEPT ![r] = FALSE]
  /\ RollDay(r)
  /\ pc' = [pc EXCEPT ![r] = "drain"]
  /\ UNCHANGED <<guestVars, notes, day, wireVars, storeVars, queue, dayWrites, settled, overlapped>>

(* Pass 1 of the wire's poll: with no note of its own yet, adopt the first *)
(* host comment, its ring, its last sequence number, its answered turns.   *)
AdoptedRingForgotten(r) == ring[r]   (* mutant: the id without its ring *)
AdoptedRing(r) ==
  IF noteId[r] = 0 /\ notes # <<>> THEN Recent(notes[1]) ELSE ring[r]

(* mutants: adoption without the sequence number or the answered turns     *)
AdoptNoteNoSeq(r) ==
  IF noteId[r] = 0 /\ notes # <<>>
    THEN /\ noteId' = [noteId EXCEPT ![r] = 1]
         /\ ring' = [ring EXCEPT ![r] = AdoptedRing(r)]
         /\ answered' = [answered EXCEPT ![r] = AsksOf(AdoptedRing(r))]
         /\ UNCHANGED seq
    ELSE UNCHANGED <<noteId, ring, seq, answered>>
AdoptNoteNoDedupe(r) ==
  IF noteId[r] = 0 /\ notes # <<>>
    THEN /\ noteId' = [noteId EXCEPT ![r] = 1]
         /\ ring' = [ring EXCEPT ![r] = AdoptedRing(r)]
         /\ seq' = [seq EXCEPT ![r] = LastOf(notes[1])]
         /\ UNCHANGED answered
    ELSE UNCHANGED <<noteId, ring, seq, answered>>
AdoptNote(r) ==
  IF noteId[r] = 0 /\ notes # <<>>
    THEN /\ noteId' = [noteId EXCEPT ![r] = 1]
         /\ ring' = [ring EXCEPT ![r] = AdoptedRing(r)]
         /\ seq' = [seq EXCEPT ![r] = LastOf(notes[1])]
         /\ answered' = [answered EXCEPT ![r] = AsksOf(AdoptedRing(r))]
    ELSE UNCHANGED <<noteId, ring, seq, answered>>

Unseen(r)  == {a \in Asks : a[2] \in (lastSeq[r][a[1]] + 1)..posted[a[1]]}
Skipped(r) == IF cold[r] THEN {a \in Unseen(r) : a[1] \in old} ELSE {}

(* tick(): pull() reads every guest's unseen turns, remembers them as seen,*)
(* and puts those neither stale nor already answered in the store; drain() *)
(* starts in the same breath.                                              *)
Pull(r) ==
  /\ pc[r] = "poll" /\ accepting[r]
  /\ AdoptNote(r)
  /\ lastSeq' = [lastSeq EXCEPT ![r] = posted]
  /\ cold' = [cold EXCEPT ![r] = FALSE]
  /\ LET new == (Unseen(r) \ Skipped(r)) \ answered'[r]
     IN  req' = [req EXCEPT ![r] = @ \cup (new \ ans[r])]
  /\ settled' = settled \cup Skipped(r)
  /\ RollDay(r)
  /\ pc' = [pc EXCEPT ![r] = "drain"]
  /\ UNCHANGED <<guestVars, notes, day, accepting, ans, asked, queue, dayWrites, overlapped>>

(* One turn of drain(): answerOne (kill switch, cap, visitor limit, model),*)
(* putAnswer, publishAnswer to the wire's queue, dropRequest.              *)
Answer(r) ==
  /\ pc[r] = "drain"
  /\ \E a \in req[r] :
       /\ req' = [req EXCEPT ![r] = @ \ {a}]
       /\ ans' = [ans EXCEPT ![r] = @ \cup {a}]
       /\ asked' = [asked EXCEPT ![r] = @ \cup {a}]
       /\ queue' = [queue EXCEPT ![r] = Append(@, a)]
  /\ UNCHANGED <<guestVars, notes, day, pc, accepting, wireVars, capVars, settled, overlapped>>

AfterDrain(r) == IF accepting[r] THEN "poll" ELSE "gone"

(* flushWires() with nothing queued, or at the cap: nothing is written.    *)
SkipFlush(r) ==
  /\ pc[r] = "drain" /\ req[r] = {} /\ (queue[r] = <<>> \/ Capped(r))
  /\ pc' = [pc EXCEPT ![r] = AfterDrain(r)]
  /\ UNCHANGED <<guestVars, notes, day, accepting, wireVars, storeVars, queue, capVars, settled, overlapped>>

(* flushWires() waits for the write pacer.                                 *)
BeginFlush(r) ==
  /\ pc[r] = "drain" /\ req[r] = {} /\ queue[r] # <<>> /\ ~Capped(r)
  /\ pc' = [pc EXCEPT ![r] = "write"]
  /\ UNCHANGED <<guestVars, notes, day, accepting, wireVars, storeVars, queue, capVars, settled, overlapped>>

(* The ring the write carries: the old one, the whole queue, cut to size.  *)
NextRing(r) ==
  Recent(ring[r] \o [i \in DOMAIN queue[r] |-> [seq |-> seq[r] + i, ask |-> queue[r][i]]])

(* flush(): one POST or PATCH with every queued answer.                    *)
Flush(r) ==
  /\ pc[r] = "write"
  /\ IF noteId[r] = 0
       THEN /\ notes' = Append(notes, NextRing(r))
            /\ noteId' = [noteId EXCEPT ![r] = Len(notes) + 1]
       ELSE /\ notes' = [notes EXCEPT ![noteId[r]] = NextRing(r)]
            /\ UNCHANGED noteId
  /\ ring' = [ring EXCEPT ![r] = NextRing(r)]
  /\ seq' = [seq EXCEPT ![r] = @ + Len(queue[r])]
  /\ queue' = [queue EXCEPT ![r] = <<>>]
  /\ writes' = [writes EXCEPT ![r] = @ + 1]
  /\ dayWrites' = [dayWrites EXCEPT ![r] = @ + 1]
  /\ settled' = settled \cup AsksOf(NextRing(r))
  /\ pc' = [pc EXCEPT ![r] = AfterDrain(r)]
  /\ UNCHANGED <<guestVars, day, accepting, lastSeq, answered, cold, storeVars, ownDay, overlapped>>

(* A 403 or 429: the pacer backs off, the answers stay queued.             *)
FlushRefusedDropping(r) ==   (* mutant: the batch left the queue before the write *)
  /\ pc[r] = "write"
  /\ pc' = [pc EXCEPT ![r] = AfterDrain(r)]
  /\ queue' = [queue EXCEPT ![r] = <<>>]
  /\ UNCHANGED <<guestVars, notes, day, accepting, wireVars, storeVars, capVars, settled, overlapped>>
FlushRefused(r) ==
  /\ pc[r] = "write"
  /\ pc' = [pc EXCEPT ![r] = AfterDrain(r)]
  /\ UNCHANGED <<guestVars, notes, day, accepting, wireVars, storeVars, queue, capVars, settled, overlapped>>

RunStep(r) ==
  Pull(r) \/ Answer(r) \/ SkipFlush(r) \/ BeginFlush(r) \/ Flush(r)

Next ==
  \/ NewDay
  \/ \E g \in Guests : Post(g) \/ GrowOld(g)
  \/ \E r \in Runs : StartRun(r) \/ EndRun(r) \/ HandedOff(r) \/ RunStep(r) \/ FlushRefused(r)

Spec == Init /\ [][Next]_vars

(* A live run keeps going, a missing run is started again (the watchdog),  *)
(* and GitHub does not refuse every write for ever.                        *)
Fairness ==
  \A r \in Runs : /\ WF_vars(StartRun(r)) /\ WF_vars(RunStep(r) \/ FlushRefused(r))
                  /\ SF_vars(Flush(r))
FairSpec == Spec /\ Fairness

-----------------------------------------------------------------------------
(* While runs follow one another without an overlap there is one host note *)
(* and no turn it answers is answered again, whatever ends and restarts in *)
(* between: what a run adopts is all the host ever said.                   *)
NeverAnsweredAgain ==
  [][~overlapped' => /\ Len(notes') <= 1
                     /\ \A r \in Runs, n \in DOMAIN notes :
                          (asked'[r] \ asked[r]) \cap AsksOf(notes[n]) = {}]_vars

(* The note keeps what its guests rely on, AnswerBoard: while no runs      *)
(* overlap a write only adds answers, with rising numbers, to posted turns *)
(* it had not answered, and what it drops was pushed out of a full ring, so*)
(* no unread answer is overwritten by another's, across adoption, crashes  *)
(* and refused writes.                                                     *)
HostNote == IF notes = <<>> THEN <<>> ELSE notes[1]
Board    == INSTANCE AnswerBoard WITH board <- HostNote, alone <- ~overlapped
ImplementsBoard == Board!Spec

(* Sequence numbers in a note go up, across restarts too: a guest takes an *)
(* item as new only if its number is above the last it saw.                *)
SeqIncreases ==
  \A n \in DOMAIN notes : \A i \in 1..(Len(notes[n]) - 1) :
    notes[n][i].seq < notes[n][i + 1].seq

(* A run overruns its daily cap by at most the one write whose drain began *)
(* before midnight and ended after it: the day is rolled only at the head  *)
(* of a drain, but counted at its end.                                     *)
CapOverrunIsOne == \A r \in Runs : dayWrites[r] <= Cap + 1

(* Every turn a guest posts is in the end answered in the note, or was     *)
(* skipped because the guest's note was stale at a cold start, though runs *)
(* end with answers unwritten and writes are refused: unless a live run    *)
(* stays at its daily cap for ever, or a batch outgrew the ring, which cuts*)
(* its oldest answers off in the write that was to carry them.             *)
EveryTurnSettles ==
  \/ <>[](\E r \in Runs : Live(r) /\ Capped(r))
  \/ <>(\E r \in Runs : Len(queue[r]) > RingMax)
  \/ \A a \in Asks : (posted[a[1]] >= a[2]) ~> (a \in settled)
=============================================================================
