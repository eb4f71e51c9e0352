-------------------------------- MODULE Pacers --------------------------------
(***************************************************************************)
(* The two pacers of haiku-daemon as its one thread uses them: before a    *)
(* read it awaits ReadPacer.acquire(), before a write WritePacer.acquire().*)
(* The run loop awaits one call after the other, so one acquire is under   *)
(* way at a time.                                                          *)
(*                                                                         *)
(* The arrays of stamps lose elements at the front only, so an array is the*)
(* history of all its calls (reads, writes) from an index on (readFrom,    *)
(* writeFrom). The clock never goes back; a sleep ends at its time or      *)
(* later.                                                                  *)
(***************************************************************************)
EXTENDS Naturals, Sequences

CONSTANTS
  Burst, ReadWindow, MinGap,         (* ReadPacer: burst, windowMs, minGapMs *)
  PerMinute, Minute, PerHour, Hour,  (* WritePacer: its two windows          *)
  DefaultRetry,                      (* 60 s, for a Retry-After of no use    *)
  Retries,                           (* Retry-After values GitHub answers    *)
  MaxNow, MaxCalls, MaxBackoffs      (* bounds                               *)

ASSUME ReadAssumption ==
  Burst \in Nat \ {0} /\ ReadWindow \in Nat /\ MinGap \in Nat /\ MinGap <= ReadWindow
ASSUME WriteAssumption ==
  /\ PerMinute \in Nat \ {0} /\ PerHour \in Nat \ {0}
  /\ Minute \in Nat /\ Hour \in Nat /\ Minute <= Hour
  /\ DefaultRetry \in Nat /\ Retries \subseteq Nat
ASSUME BoundsAssumption == MaxNow \in Nat /\ MaxCalls \in Nat /\ MaxBackoffs \in Nat

VARIABLES
  now,          (* clock.now()                                             *)
  pc,           (* idle, read (asleep in a read acquire), write (in the    *)
                (* loop of a write acquire)                                *)
  wake,         (* when the sleep of that acquire is over                  *)
  naps,         (* history: its sleeps                                     *)
  reads,        (* history: when the reads were let go                     *)
  readFrom,     (* ReadPacer.stamps is reads from here on                  *)
  hotUntil,     (* ReadPacer.hotUntil                                      *)
  writes,       (* history: when the writes were let go                    *)
  writeFrom,    (* WritePacer.stamps is writes from here on                *)
  blockedUntil, (* WritePacer.blockedUntil                                 *)
  barred        (* history: for each backoff the writes before it, its end *)

readVars  == <<reads, readFrom, hotUntil>>
writeVars == <<writes, writeFrom>>
backVars  == <<blockedUntil, barred>>
vars == <<now, pc, wake, naps, readVars, writeVars, backVars>>

TypeOK ==
  /\ now \in Nat /\ wake \in Nat /\ naps \in Nat
  /\ pc \in {"idle", "read", "write"}
  /\ reads \in Seq(Nat) /\ readFrom \in 1..(Len(reads) + 1) /\ hotUntil \in Nat
  /\ writes \in Seq(Nat) /\ writeFrom \in 1..(Len(writes) + 1)
  /\ blockedUntil \in Nat
  /\ barred \in Seq([after: Nat, until: Nat])

Init ==
  /\ now = 0 /\ pc = "idle" /\ wake = 0 /\ naps = 0
  /\ reads = <<>> /\ readFrom = 1 /\ hotUntil = 0
  /\ writes = <<>> /\ writeFrom = 1
  /\ blockedUntil = 0 /\ barred = <<>>

Tick ==
  /\ now < MaxNow
  /\ now' = now + 1
  /\ UNCHANGED <<pc, wake, naps, readVars, writeVars, backVars>>

(* f is where the array begins after its stamps as old as age were shifted *)
(* off its front.                                                          *)
Pruned(stamps, from, age, f) ==
  /\ f \in from..(Len(stamps) + 1)
  /\ \A i \in from..(f - 1) : now >= stamps[i] + age
  /\ f <= Len(stamps) => now < stamps[f] + age

-----------------------------------------------------------------------------
(* ReadPacer.acquire(): over the threshold, or in gap mode.                *)
ThrottledByCount(f) == Len(reads) - f + 1 >= Burst   (* mutant: no gap mode *)
Throttled(f) == Len(reads) - f + 1 >= Burst \/ now < hotUntil

(* The stamp is pushed; a throttled call starts or extends gap mode.       *)
LetRead(f, hot) ==
  /\ reads' = Append(reads, now)
  /\ readFrom' = f
  /\ hotUntil' = IF hot THEN now + ReadWindow ELSE hotUntil
  /\ pc' = "idle"
  /\ UNCHANGED <<now, wake, naps, writeVars, backVars>>

Gap(f) == IF f <= Len(reads) THEN reads[Len(reads)] + MinGap ELSE 0

(* The bound on the calls of both kinds.                                   *)
MoreCalls == Len(reads) + Len(writes) < MaxCalls

(* A call that need not wait.                                              *)
Read ==
  /\ pc = "idle" /\ MoreCalls
  /\ \E f \in readFrom..(Len(reads) + 1) :
       /\ Pruned(reads, readFrom, ReadWindow, f)
       /\ Throttled(f) => Gap(f) <= now
       /\ LetRead(f, Throttled(f))

(* A throttled call sleeps until the gap is over.                          *)
ReadNap ==
  /\ pc = "idle" /\ MoreCalls
  /\ \E f \in readFrom..(Len(reads) + 1) :
       /\ Pruned(reads, readFrom, ReadWindow, f)
       /\ Throttled(f) /\ Gap(f) > now
       /\ wake' = Gap(f)
       /\ readFrom' = f
  /\ pc' = "read" /\ naps' = 1
  /\ UNCHANGED <<now, reads, hotUntil, writeVars, backVars>>

ReadWoken ==
  /\ pc = "read" /\ now >= wake
  /\ \E f \in readFrom..(Len(reads) + 1) :
       Pruned(reads, readFrom, ReadWindow, f) /\ LetRead(f, TRUE)

-----------------------------------------------------------------------------
(* WritePacer.acquire() is called.                                         *)
AskWrite ==
  /\ pc = "idle" /\ MoreCalls
  /\ pc' = "write" /\ wake' = now /\ naps' = 0
  /\ UNCHANGED <<now, readVars, writeVars, backVars>>

(* One turn of its loop: in a backoff it sleeps until that is over.        *)
Blocked ==
  /\ pc = "write" /\ now >= wake /\ now < blockedUntil
  /\ wake' = blockedUntil /\ naps' = naps + 1
  /\ UNCHANGED <<now, pc, readVars, writeVars, backVars>>

PrunedByMinute(f) == Pruned(writes, writeFrom, Minute, f)  (* mutant: the first window *)
PrunedWrites(f) == Pruned(writes, writeFrom, Hour, f)

(* When a window that is full lets the next write go: ms after the stamp   *)
(* limit places from the end (stamps are in order, so those in the window  *)
(* are the last ones); 0 if it is not full.                                *)
Free(f, limit, ms) ==
  LET i == Len(writes) + 1 - limit
  IN  IF i >= f /\ now < writes[i] + ms THEN writes[i] + ms ELSE 0
Max2(a, b) == IF a >= b THEN a ELSE b
FreeOfFirst(f) ==   (* mutant: the wait of the first full window *)
  IF Free(f, PerMinute, Minute) > 0 THEN Free(f, PerMinute, Minute) ELSE Free(f, PerHour, Hour)
FreeAt(f) == Max2(Free(f, PerMinute, Minute), Free(f, PerHour, Hour))

(* Otherwise it prunes the stamps and sleeps while a window is full, ...   *)
Full ==
  /\ pc = "write" /\ now >= wake /\ now >= blockedUntil
  /\ \E f \in writeFrom..(Len(writes) + 1) :
       PrunedWrites(f) /\ FreeAt(f) > now /\ wake' = FreeAt(f) /\ writeFrom' = f
  /\ naps' = naps + 1
  /\ UNCHANGED <<now, pc, readVars, writes, backVars>>

(* ... and lets the write go when none is.                                 *)
Write ==
  /\ pc = "write" /\ now >= wake /\ now >= blockedUntil
  /\ \E f \in writeFrom..(Len(writes) + 1) :
       PrunedWrites(f) /\ FreeAt(f) <= now /\ writeFrom' = f
  /\ writes' = Append(writes, now)
  /\ pc' = "idle"
  /\ UNCHANGED <<now, wake, naps, readVars, backVars>>

(* backoff(): the write just let go was refused with a Retry-After.        *)
RetryMs(sec) == IF sec = 0 THEN DefaultRetry ELSE sec
Refused(sec) ==
  /\ pc = "idle" /\ writes # <<>> /\ Len(barred) < MaxBackoffs
  /\ barred # <<>> => barred[Len(barred)].after < Len(writes)
  /\ barred' = Append(barred, [after |-> Len(writes), until |-> now + RetryMs(sec)])
  /\ UNCHANGED <<now, pc, wake, naps, readVars, writeVars>>
BackoffZero ==   (* mutant: a Retry-After of 0 is taken as it is *)
  \E sec \in Retries : Refused(sec) /\ blockedUntil' = Max2(blockedUntil, now + sec)
Backoff ==
  \E sec \in Retries : Refused(sec) /\ blockedUntil' = Max2(blockedUntil, now + RetryMs(sec))

Next == Tick \/ Read \/ ReadNap \/ ReadWoken \/ AskWrite \/ Blocked \/ Full \/ Write \/ Backoff

Spec == Init /\ [][Next]_vars

-----------------------------------------------------------------------------
(* "At most 70 writes per 60 s and 450 per hour": of any limit + 1 writes  *)
(* in a row the last is at least a window after the first, wherever the    *)
(* window is laid and however often the stamps were pruned.                *)
Spaced(limit, ms) ==
  \A i \in 1..Len(writes) : i > limit => writes[i] >= writes[i - limit] + ms
WindowsHold == Spaced(PerMinute, Minute) /\ Spaced(PerHour, Hour)

(* "A 403/429 Retry-After blocks every later write until it passes", however*)
(* the sleeps for it and for the windows follow each other.                *)
BackoffHonoured ==
  \A k \in 1..Len(barred) : \A i \in 1..Len(writes) :
    i > barred[k].after => writes[i] >= barred[k].until

(* "Past that, every request keeps a 500 ms gap until a full second passes *)
(* unthrottled": once Burst + 1 reads fell into one window, reads keep the *)
(* gap for as long as no two of them are a window apart.                   *)
HammerFrom(i, k) ==
  /\ reads[i + Burst] < reads[i] + ReadWindow
  /\ \A j \in (i + Burst + 1)..k : reads[j] < reads[j - 1] + ReadWindow
HammerSettles ==
  \A k \in 1..Len(reads) : \A i \in 1..k :
    i + Burst <= k /\ HammerFrom(i, k) => reads[k] >= reads[k - 1] + MinGap

(* An acquire sleeps at most twice, once for a backoff and once for all    *)
(* the windows: then its loop lets the write go, so it ends.               *)
AcquireEnds == pc = "write" => naps <= 2
=============================================================================
