---------------------------- MODULE Pacers_proofs ----------------------------
(***************************************************************************)
(* Theorems about Pacers, for any limits, windows, gap and Retry-After     *)
(* values and any number of calls.                                         *)
(***************************************************************************)
EXTENDS Pacers, TLAPS

LEMMA AppendElements ==
  ASSUME NEW s \in Seq(Nat), NEW n \in Nat
  PROVE  /\ Append(s, n) \in Seq(Nat) /\ Len(Append(s, n)) = Len(s) + 1
         /\ \A i \in 1..Len(s) : Append(s, n)[i] = s[i]
         /\ Append(s, n)[Len(s) + 1] = n
  OBVIOUS

LEMMA FreeIsNat ==
  ASSUME TypeOK, NEW f \in 1..(Len(writes) + 1), NEW limit \in Nat \ {0}, NEW ms \in Nat
  PROVE  Free(f, limit, ms) \in Nat
  <1> DEFINE i == Len(writes) + 1 - limit
  <1>1. Len(writes) \in Nat BY DEF TypeOK
  <1>2. CASE i >= f
    <2>1. i \in 1..Len(writes) BY <1>1, <1>2
    <2>2. writes[i] \in Nat BY <2>1 DEF TypeOK
    <2> QED BY <2>2 DEF Free
  <1>3. CASE ~(i >= f) BY <1>3 DEF Free
  <1> QED BY <1>2, <1>3

(* Type correctness of both pacers.                                        *)
THEOREM TypeCorrect == Spec => []TypeOK
  <1>1. Init => TypeOK BY DEF Init, TypeOK
  <1>2. TypeOK /\ [Next]_vars => TypeOK'
    <2> SUFFICES ASSUME TypeOK, [Next]_vars PROVE TypeOK' OBVIOUS
    <2> USE ReadAssumption, WriteAssumption
    <2>0. ASSUME NEW f, NEW hot \in BOOLEAN, f \in readFrom..(Len(reads) + 1), LetRead(f, hot)
          PROVE  TypeOK'
      BY <2>0, AppendElements DEF LetRead, TypeOK, writeVars, backVars
    <2>1. CASE Tick BY <2>1 DEF Tick, TypeOK, readVars, writeVars, backVars
    <2>2. CASE Read
      <3>1. PICK f \in readFrom..(Len(reads) + 1) : LetRead(f, Throttled(f)) BY <2>2 DEF Read
      <3> QED BY <3>1, <2>0 DEF Throttled
    <2>3. CASE ReadNap
      <3>1. PICK f \in readFrom..(Len(reads) + 1) : Gap(f) > now /\ wake' = Gap(f) /\ readFrom' = f
        BY <2>3 DEF ReadNap
      <3>2. Gap(f) \in Nat BY <3>1 DEF Gap, TypeOK
      <3> QED BY <2>3, <3>1, <3>2 DEF ReadNap, TypeOK, writeVars, backVars
    <2>4. CASE ReadWoken
      <3>1. PICK f \in readFrom..(Len(reads) + 1) : LetRead(f, TRUE) BY <2>4 DEF ReadWoken
      <3> QED BY <3>1, <2>0
    <2>5. CASE AskWrite BY <2>5 DEF AskWrite, TypeOK, readVars, writeVars, backVars
    <2>6. CASE Blocked BY <2>6 DEF Blocked, TypeOK, readVars, writeVars, backVars
    <2>7. CASE Full
      <3>1. PICK f \in writeFrom..(Len(writes) + 1) : wake' = FreeAt(f) /\ writeFrom' = f
        BY <2>7 DEF Full
      <3>2. f \in 1..(Len(writes) + 1) BY <3>1 DEF TypeOK
      <3>3. FreeAt(f) \in Nat BY <3>2, FreeIsNat DEF FreeAt, Max2
      <3> QED BY <2>7, <3>1, <3>2, <3>3 DEF Full, TypeOK, readVars, backVars
    <2>8. CASE Write
      <3>1. PICK f \in writeFrom..(Len(writes) + 1) : writeFrom' = f BY <2>8 DEF Write
      <3> QED BY <2>8, <3>1, AppendElements DEF Write, TypeOK, readVars, backVars
    <2>9. CASE Backoff
      <3>1. PICK sec \in Retries : Refused(sec) /\ blockedUntil' = Max2(blockedUntil, now + RetryMs(sec))
        BY <2>9 DEF Backoff
      <3>2. now + RetryMs(sec) \in Nat BY DEF RetryMs, TypeOK
      <3>3. blockedUntil' \in Nat BY <3>1, <3>2 DEF Max2, TypeOK
      <3> QED BY <3>1, <3>2, <3>3 DEF Refused, TypeOK, readVars, writeVars
    <2>10. CASE UNCHANGED vars BY <2>10 DEF vars, TypeOK, readVars, writeVars, backVars
    <2> QED BY <2>1, <2>2, <2>3, <2>4, <2>5, <2>6, <2>7, <2>8, <2>9, <2>10 DEF Next
  <1> QED BY <1>1, <1>2, PTL DEF Spec

-----------------------------------------------------------------------------
(* The write pacer. Writes pruned from the stamps are an hour old, so the  *)
(* stamps decide about the windows; an acquire that slept once is past its *)
(* backoff, one that slept twice is past its windows too.                  *)
Past(limit, ms) ==
  LET i == Len(writes) + 1 - limit IN i >= writeFrom => wake >= writes[i] + ms
WriteInv ==
  /\ TypeOK
  /\ \A i \in 1..(writeFrom - 1) : now >= writes[i] + Hour
  /\ pc = "write" => /\ naps <= 2
                     /\ naps >= 1 => wake >= blockedUntil
                     /\ naps = 2 => Past(PerMinute, Minute) /\ Past(PerHour, Hour)
  /\ WindowsHold

LEMMA FreeDecides ==
  ASSUME WriteInv, NEW f \in writeFrom..(Len(writes) + 1), PrunedWrites(f),
         NEW limit \in Nat \ {0}, NEW ms \in Nat, ms <= Hour
  PROVE  /\ \A i \in 1..(f - 1) : now >= writes[i] + Hour
         /\ Free(f, limit, ms) <= now /\ limit <= Len(writes)
              => now >= writes[Len(writes) + 1 - limit] + ms
         /\ Free(f, limit, ms) > now
              => /\ Len(writes) + 1 - limit \in f..Len(writes)
                 /\ Free(f, limit, ms) = writes[Len(writes) + 1 - limit] + ms
  <1> USE WriteAssumption
  <1>1. Len(writes) \in Nat /\ writeFrom \in 1..(Len(writes) + 1) /\ now \in Nat
    BY DEF WriteInv, TypeOK
  <1>2. \A i \in 1..Len(writes) : writes[i] \in Nat BY DEF WriteInv, TypeOK
  <1>3. \A i \in 1..(f - 1) : now >= writes[i] + Hour
    BY <1>1 DEF WriteInv, PrunedWrites, Pruned
  <1> DEFINE i == Len(writes) + 1 - limit
  <1>4. CASE i >= f
    <2>1. i \in 1..Len(writes) /\ writes[i] \in Nat BY <1>1, <1>2, <1>4
    <2> QED BY <1>1, <1>3, <1>4, <2>1 DEF Free
  <1>5. CASE ~(i >= f)
    <2>1. Free(f, limit, ms) = 0 BY <1>5 DEF Free
    <2>2. limit <= Len(writes) => i \in 1..(f - 1) /\ writes[i] \in Nat BY <1>1, <1>2, <1>5
    <2>3. limit <= Len(writes) => now >= writes[i] + Hour BY <2>2, <1>3
    <2> QED BY <1>1, <1>3, <2>1, <2>2, <2>3
  <1> QED BY <1>4, <1>5

LEMMA SpacedAfter ==
  ASSUME TypeOK, TypeOK', writes' = Append(writes, now),
         NEW limit \in Nat \ {0}, NEW ms \in Nat, Spaced(limit, ms),
         limit <= Len(writes) => now >= writes[Len(writes) + 1 - limit] + ms
  PROVE  Spaced(limit, ms)'
  <1>1. writes \in Seq(Nat) /\ now \in Nat /\ Len(writes) \in Nat BY DEF TypeOK
  <1>2. /\ Len(writes') = Len(writes) + 1 /\ writes'[Len(writes) + 1] = now
        /\ \A i \in 1..Len(writes) : writes'[i] = writes[i]
    BY <1>1, AppendElements
  <1> SUFFICES ASSUME NEW i \in 1..(Len(writes) + 1), i > limit
               PROVE  writes'[i] >= writes'[i - limit] + ms
    BY <1>2 DEF Spaced
  <1>3. CASE i = Len(writes) + 1
    <2>1. i - limit \in 1..Len(writes) /\ limit <= Len(writes) /\ i - limit = Len(writes) + 1 - limit
      BY <1>1, <1>3
    <2> QED BY <2>1, <1>2, <1>3
  <1>4. CASE i # Len(writes) + 1
    <2>0. i \in Nat /\ i <= Len(writes) /\ i >= 1 BY <1>1, <1>4
    <2>1. i \in 1..Len(writes) /\ i - limit \in 1..Len(writes) BY <1>1, <2>0
    <2> QED BY <2>1, <1>2 DEF Spaced
  <1> QED BY <1>3, <1>4

LEMMA WriteInvariant == Spec => []WriteInv
  <1>1. Init => WriteInv
    BY ReadAssumption, WriteAssumption DEF Init, WriteInv, TypeOK, WindowsHold, Spaced
  <1>2. WriteInv /\ TypeOK' /\ [Next]_vars => WriteInv'
    <2> SUFFICES ASSUME WriteInv, TypeOK', [Next]_vars PROVE WriteInv' OBVIOUS
    <2> USE WriteAssumption
    <2>0. TypeOK BY DEF WriteInv
    <2>b. /\ now \in Nat /\ wake \in Nat /\ naps \in Nat /\ blockedUntil \in Nat
          /\ writes \in Seq(Nat) /\ writeFrom \in 1..(Len(writes) + 1)
      BY <2>0 DEF TypeOK
    <2>c. Len(writes) \in Nat /\ \A i \in 1..Len(writes) : writes[i] \in Nat BY <2>b
    <2>a. /\ now \in Nat /\ wake \in Nat /\ naps \in Nat /\ blockedUntil \in Nat
          /\ writes \in Seq(Nat) /\ Len(writes) \in Nat /\ writeFrom \in 1..(Len(writes) + 1)
          /\ \A i \in 1..Len(writes) : writes[i] \in Nat
      BY <2>b, <2>c
    <2>1. CASE Tick
      <3>1. now' = now + 1 /\ UNCHANGED <<pc, wake, naps, writes, writeFrom, blockedUntil>>
        BY <2>1 DEF Tick, writeVars, backVars
      <3> QED BY <2>a, <3>1 DEF WriteInv, WindowsHold, Spaced, Past
    <2>2. ASSUME UNCHANGED <<now, writes, writeFrom>>, pc' # "write" PROVE WriteInv'
      BY <2>2 DEF WriteInv, WindowsHold, Spaced
    <2>3. CASE Read \/ ReadNap \/ ReadWoken
      BY <2>2, <2>3 DEF Read, ReadNap, ReadWoken, LetRead, writeVars
    <2>4. CASE Backoff BY <2>2, <2>4 DEF Backoff, Refused, writeVars
    <2>5. CASE AskWrite
      <3>1. naps' = 0 /\ UNCHANGED <<now, writes, writeFrom>> BY <2>5 DEF AskWrite, writeVars
      <3> QED BY <3>1 DEF WriteInv, WindowsHold, Spaced
    <2>6. CASE Blocked
      <3>1. /\ pc = "write" /\ now >= wake /\ now < blockedUntil
            /\ wake' = blockedUntil /\ naps' = naps + 1
            /\ UNCHANGED <<now, pc, writes, writeFrom, blockedUntil>>
        BY <2>6 DEF Blocked, writeVars, backVars
      <3>2. naps = 0 BY <2>a, <3>1 DEF WriteInv
      <3> QED BY <2>a, <3>1, <3>2 DEF WriteInv, WindowsHold, Spaced
    <2>7. CASE Full
      <3>1. PICK f \in writeFrom..(Len(writes) + 1) :
              PrunedWrites(f) /\ FreeAt(f) > now /\ wake' = FreeAt(f) /\ writeFrom' = f
        BY <2>7 DEF Full
      <3>2. /\ pc = "write" /\ now >= wake /\ now >= blockedUntil /\ naps' = naps + 1
            /\ UNCHANGED <<now, pc, writes, blockedUntil>>
        BY <2>7 DEF Full, backVars
      <3> DEFINE m == Free(f, PerMinute, Minute)
                 h == Free(f, PerHour, Hour)
      <3>3. /\ \A i \in 1..(f - 1) : now >= writes[i] + Hour
            /\ m > now => /\ Len(writes) + 1 - PerMinute \in f..Len(writes)
                          /\ m = writes[Len(writes) + 1 - PerMinute] + Minute
            /\ h > now => /\ Len(writes) + 1 - PerHour \in f..Len(writes)
                          /\ h = writes[Len(writes) + 1 - PerHour] + Hour
        BY <3>1, FreeDecides
      <3>4. f \in 1..(Len(writes) + 1) BY <2>a, <3>1
      <3>5. m \in Nat /\ h \in Nat BY <2>0, <3>4, FreeIsNat
      <3>6. wake' \in Nat /\ wake' >= m /\ wake' >= h /\ wake' > now BY <3>1, <3>5 DEF FreeAt, Max2
      <3>7. naps <= 1
        <4> SUFFICES ASSUME naps = 2 PROVE FALSE BY <2>a, <3>2 DEF WriteInv
        <4>1. Past(PerMinute, Minute) /\ Past(PerHour, Hour) BY <3>2 DEF WriteInv
        <4>2. CASE m > now BY <2>a, <3>1, <3>2, <3>3, <4>1, <4>2 DEF Past
        <4>3. CASE h > now BY <2>a, <3>1, <3>2, <3>3, <4>1, <4>3 DEF Past
        <4> QED BY <3>1, <3>5, <4>2, <4>3 DEF FreeAt, Max2
      <3>8. wake' >= blockedUntil' BY <2>a, <3>2, <3>6
      <3>9. ASSUME NEW limit \in Nat \ {0}, NEW ms \in Nat, ms <= Hour, wake' >= Free(f, limit, ms)
            PROVE  Past(limit, ms)'
        <4> DEFINE i == Len(writes) + 1 - limit
        <4> SUFFICES ASSUME i >= f PROVE wake' >= writes[i] + ms BY <3>1, <3>2 DEF Past
        <4>1. i \in 1..Len(writes) /\ writes[i] \in Nat BY <2>a, <3>4
        <4>2. Free(f, limit, ms) = IF now < writes[i] + ms THEN writes[i] + ms ELSE 0 BY DEF Free
        <4>3. CASE now < writes[i] + ms BY <3>9, <4>2, <4>3
        <4> HIDE DEF i
        <4>4. CASE ~(now < writes[i] + ms)
          <5>1. writes[i] + ms \in Nat BY <4>1
          <5> QED BY <2>b, <3>6, <4>4, <5>1
        <4> QED BY <4>3, <4>4
      <3>10. Past(PerMinute, Minute)' /\ Past(PerHour, Hour)' BY <3>6, <3>9
      <3>11. \A i \in 1..(writeFrom' - 1) : now' >= writes'[i] + Hour BY <3>1, <3>2, <3>3
      <3>12. WindowsHold' BY <3>2 DEF WriteInv, WindowsHold, Spaced
      <3> QED BY <2>a, <3>2, <3>7, <3>8, <3>10, <3>11, <3>12 DEF WriteInv
    <2>8. CASE Write
      <3>1. PICK f \in writeFrom..(Len(writes) + 1) :
              PrunedWrites(f) /\ FreeAt(f) <= now /\ writeFrom' = f
        BY <2>8 DEF Write
      <3>2. writes' = Append(writes, now) /\ pc' = "idle" /\ UNCHANGED now BY <2>8 DEF Write
      <3>3. /\ \A i \in 1..(f - 1) : now >= writes[i] + Hour
            /\ Free(f, PerMinute, Minute) <= now /\ PerMinute <= Len(writes)
                 => now >= writes[Len(writes) + 1 - PerMinute] + Minute
            /\ Free(f, PerHour, Hour) <= now /\ PerHour <= Len(writes)
                 => now >= writes[Len(writes) + 1 - PerHour] + Hour
        BY <3>1, FreeDecides
      <3>4. f \in 1..(Len(writes) + 1) BY <2>a, <3>1
      <3>5. Free(f, PerMinute, Minute) \in Nat /\ Free(f, PerHour, Hour) \in Nat
        BY <2>0, <3>4, FreeIsNat
      <3>6. Free(f, PerMinute, Minute) <= now /\ Free(f, PerHour, Hour) <= now
        BY <2>a, <3>1, <3>5 DEF FreeAt, Max2
      <3>7. Spaced(PerMinute, Minute)' /\ Spaced(PerHour, Hour)'
        BY <2>0, <3>2, <3>3, <3>6, SpacedAfter DEF WriteInv, WindowsHold
      <3>8. \A i \in 1..(writeFrom' - 1) : now' >= writes'[i] + Hour
        BY <2>a, <3>1, <3>2, <3>3, <3>4, AppendElements
      <3> QED BY <3>2, <3>7, <3>8 DEF WriteInv, WindowsHold
    <2>9. CASE UNCHANGED vars
      BY <2>9 DEF vars, writeVars, backVars, WriteInv, WindowsHold, Spaced, Past
    <2> QED BY <2>1, <2>3, <2>4, <2>5, <2>6, <2>7, <2>8, <2>9 DEF Next
  <1> QED BY <1>1, <1>2, TypeCorrect, PTL DEF Spec

(* No minute and no hour, wherever laid, holds more writes than its limit. *)
THEOREM WriteWindows == Spec => []WindowsHold
  BY WriteInvariant, PTL DEF WriteInv

(* A write acquire sleeps at most twice.                                   *)
THEOREM WriteAcquireEnds == Spec => []AcquireEnds
  <1>1. WriteInv => AcquireEnds BY DEF WriteInv, AcquireEnds
  <1> QED BY <1>1, WriteInvariant, PTL

-----------------------------------------------------------------------------
LEMMA ElementOf ==
  ASSUME NEW S, NEW s \in Seq(S), NEW i \in 1..Len(s)
  PROVE  s[i] \in S
  OBVIOUS

(* The backoff. Every write waits for the latest end of all backoffs.      *)
BackoffInv ==
  /\ \A k \in 1..Len(barred) : barred[k].until <= blockedUntil /\ barred[k].after <= Len(writes)
  /\ BackoffHonoured

LEMMA BackoffInvariant == Spec => []BackoffInv
  <1>1. Init => BackoffInv BY DEF Init, BackoffInv, BackoffHonoured
  <1>2. TypeOK /\ BackoffInv /\ [Next]_vars => BackoffInv'
    <2> SUFFICES ASSUME TypeOK, BackoffInv, [Next]_vars PROVE BackoffInv' OBVIOUS
    <2>a. now \in Nat /\ blockedUntil \in Nat /\ writes \in Seq(Nat) /\ Len(writes) \in Nat
      BY DEF TypeOK
    <2>b. /\ barred \in Seq([after: Nat, until: Nat]) /\ Len(barred) \in Nat
          /\ \A k \in 1..Len(barred) : barred[k].until \in Nat /\ barred[k].after \in Nat
      <3>1. barred \in Seq([after: Nat, until: Nat]) BY DEF TypeOK
      <3>2. \A k \in 1..Len(barred) : barred[k] \in [after: Nat, until: Nat]
        BY <3>1, ElementOf
      <3> QED BY <3>1, <3>2
    <2>1. ASSUME UNCHANGED <<writes, blockedUntil, barred>> PROVE BackoffInv'
      BY <2>1 DEF BackoffInv, BackoffHonoured
    <2>2. CASE Tick \/ Read \/ ReadNap \/ ReadWoken \/ AskWrite \/ Blocked \/ Full \/ UNCHANGED vars
      BY <2>1, <2>2
      DEF Tick, Read, ReadNap, ReadWoken, LetRead, AskWrite, Blocked, Full, vars, writeVars, backVars
    <2>3. CASE Write
      <3>1. /\ now >= blockedUntil /\ writes' = Append(writes, now)
            /\ UNCHANGED <<blockedUntil, barred>>
        BY <2>3 DEF Write, backVars
      <3>2. /\ Len(writes') = Len(writes) + 1 /\ writes'[Len(writes) + 1] = now
            /\ \A i \in 1..Len(writes) : writes'[i] = writes[i]
        BY <2>a, <3>1, AppendElements
      <3>3. ASSUME NEW k \in 1..Len(barred) PROVE barred[k].until <= now
        BY <2>a, <2>b, <3>1 DEF BackoffInv
      <3>4. ASSUME NEW k \in 1..Len(barred), NEW i \in 1..(Len(writes) + 1), i > barred[k].after
            PROVE  writes'[i] >= barred[k].until
        <4>1. CASE i = Len(writes) + 1 BY <2>a, <2>b, <3>2, <3>3, <4>1
        <4>2. CASE i # Len(writes) + 1
          <5>1. i \in 1..Len(writes) BY <2>a, <4>2
          <5> QED BY <3>2, <3>4, <5>1 DEF BackoffInv, BackoffHonoured
        <4> QED BY <4>1, <4>2
      <3>5. BackoffHonoured' BY <3>1, <3>2, <3>4 DEF BackoffHonoured
      <3> QED BY <2>a, <2>b, <3>1, <3>2, <3>5 DEF BackoffInv
    <2>4. CASE Backoff
      <3>1. PICK sec \in Retries : Refused(sec) /\ blockedUntil' = Max2(blockedUntil, now + RetryMs(sec))
        BY <2>4 DEF Backoff
      <3> DEFINE b == [after |-> Len(writes), until |-> now + RetryMs(sec)]
      <3>2. b \in [after: Nat, until: Nat] BY <2>a, WriteAssumption DEF RetryMs
      <3>3. barred' = Append(barred, b) /\ UNCHANGED writes BY <3>1 DEF Refused, writeVars
      <3>4. blockedUntil' \in Nat /\ blockedUntil' >= blockedUntil /\ blockedUntil' >= b.until
        BY <2>a, <3>1, <3>2 DEF Max2
      <3> HIDE DEF b
      <3>5. /\ Len(barred') = Len(barred) + 1 /\ barred'[Len(barred) + 1] = b
            /\ \A k \in 1..Len(barred) : barred'[k] = barred[k]
        BY <2>b, <3>2, <3>3
      <3>6. b.after = Len(writes) BY DEF b
      <3>7. ASSUME NEW k \in 1..Len(barred')
            PROVE  /\ barred'[k].until <= blockedUntil' /\ barred'[k].after <= Len(writes)
                   /\ \A i \in 1..Len(writes) :
                        i > barred'[k].after => writes[i] >= barred'[k].until
        <4>1. CASE k \in 1..Len(barred)
          <5>1. /\ barred[k].until <= blockedUntil /\ barred[k].after <= Len(writes)
                /\ \A i \in 1..Len(writes) : i > barred[k].after => writes[i] >= barred[k].until
            BY <4>1 DEF BackoffInv, BackoffHonoured
          <5>2. barred'[k] = barred[k] /\ barred[k].until \in Nat BY <2>b, <3>5, <4>1
          <5>3. barred[k].until <= blockedUntil' BY <2>a, <3>4, <5>1, <5>2
          <5> QED BY <5>1, <5>2, <5>3
        <4>2. CASE k = Len(barred) + 1 BY <2>a, <3>2, <3>4, <3>5, <3>6, <4>2
        <4> QED BY <2>b, <3>5, <4>1, <4>2
      <3> QED BY <3>3, <3>7 DEF BackoffInv, BackoffHonoured
    <2> QED BY <2>2, <2>3, <2>4 DEF Next
  <1> QED BY <1>1, <1>2, TypeCorrect, PTL DEF Spec

(* No write falls into a backoff that was announced before it.             *)
THEOREM WriteBackoff == Spec => []BackoffHonoured
  BY BackoffInvariant, PTL DEF BackoffInv

-----------------------------------------------------------------------------
(* The read pacer. Gap mode ends a window after the last read at the       *)
(* latest, and lasts that long while the reads hammer.                     *)
ReadInv ==
  /\ \A i \in 1..Len(reads) : reads[i] <= now
  /\ \A i \in 1..(readFrom - 1) : now >= reads[i] + ReadWindow
  /\ hotUntil > 0 => Len(reads) > 0 /\ hotUntil <= reads[Len(reads)] + ReadWindow
  /\ pc = "read" => Len(reads) > 0 /\ wake >= reads[Len(reads)] + MinGap
  /\ \A i \in 1..Len(reads) :
       i + Burst <= Len(reads) /\ HammerFrom(i, Len(reads))
         => hotUntil >= reads[Len(reads)] + ReadWindow
  /\ HammerSettles

(* A throttled read has a read in the stamps to keep the gap from.         *)
LEMMA ThrottledHasStamp ==
  ASSUME TypeOK, ReadInv, NEW f \in readFrom..(Len(reads) + 1),
         Pruned(reads, readFrom, ReadWindow, f)
  PROVE  /\ \A i \in 1..(f - 1) : now >= reads[i] + ReadWindow
         /\ Throttled(f) /\ Len(reads) > 0 => f <= Len(reads)
  <1> USE ReadAssumption
  <1>1. /\ Len(reads) \in Nat /\ readFrom \in 1..(Len(reads) + 1) /\ now \in Nat /\ hotUntil \in Nat
        /\ \A i \in 1..Len(reads) : reads[i] \in Nat
    BY DEF TypeOK
  <1>2. \A i \in 1..(f - 1) : now >= reads[i] + ReadWindow BY <1>1 DEF ReadInv, Pruned
  <1>3. ASSUME Throttled(f), Len(reads) > 0, f = Len(reads) + 1 PROVE FALSE
    <2>1. now < hotUntil BY <1>1, <1>3 DEF Throttled
    <2>2. hotUntil <= reads[Len(reads)] + ReadWindow BY <1>1, <2>1 DEF ReadInv
    <2>3. Len(reads) \in 1..(f - 1) /\ reads[Len(reads)] \in Nat BY <1>1, <1>3
    <2> QED BY <1>1, <1>2, <2>1, <2>2, <2>3
  <1> QED BY <1>1, <1>2, <1>3

LEMMA LetReadKeeps ==
  ASSUME TypeOK, ReadInv, NEW f \in readFrom..(Len(reads) + 1),
         Pruned(reads, readFrom, ReadWindow, f),
         NEW hot \in BOOLEAN, Throttled(f) => hot,
         hot /\ Len(reads) > 0 => now >= reads[Len(reads)] + MinGap,
         LetRead(f, hot)
  PROVE  ReadInv'
  <1> USE ReadAssumption
  <1>0. PICK n \in Nat : n = Len(reads) BY DEF TypeOK
  <1>1. /\ n \in Nat /\ now \in Nat /\ hotUntil \in Nat /\ reads \in Seq(Nat)
        /\ readFrom \in 1..(n + 1) /\ f \in 1..(n + 1)
        /\ \A i \in 1..n : reads[i] \in Nat
    BY <1>0 DEF TypeOK
  <1>2. /\ reads' = Append(reads, now) /\ readFrom' = f /\ pc' = "idle" /\ now' = now
        /\ hotUntil' = IF hot THEN now + ReadWindow ELSE hotUntil
    BY DEF LetRead
  <1>3. /\ Len(reads') = n + 1 /\ reads'[n + 1] = now
        /\ \A i \in 1..n : reads'[i] = reads[i]
    BY <1>0, <1>1, <1>2, AppendElements
  <1>4. \A i \in 1..(f - 1) : now >= reads[i] + ReadWindow BY ThrottledHasStamp
  <1>5. ASSUME NEW i \in 1..(n + 1), NEW k \in 1..n, i + Burst <= k, HammerFrom(i, k)'
        PROVE  HammerFrom(i, k)
    <2>1. i \in 1..n /\ i + Burst \in 1..n BY <1>1, <1>5
    <2>2. \A j \in (i + Burst + 1)..k : j \in 1..n /\ j - 1 \in 1..n BY <1>1, <2>1
    <2> QED BY <1>3, <1>5, <2>1, <2>2 DEF HammerFrom
  <1>6. ASSUME NEW i \in 1..(n + 1), i + Burst <= n + 1, HammerFrom(i, n + 1)' PROVE hot
    <2>1. i \in 1..n /\ reads'[i] = reads[i] /\ reads[i] \in Nat BY <1>1, <1>3, <1>6
    <2>2. CASE i + Burst = n + 1
      <3>1. now < reads[i] + ReadWindow BY <1>3, <1>6, <2>1, <2>2 DEF HammerFrom
      <3>2. i >= f
        <4> SUFFICES ASSUME i < f PROVE FALSE BY <1>1, <2>1
        <4>1. i \in 1..(f - 1) BY <1>1, <2>1
        <4> QED BY <1>1, <1>4, <2>1, <3>1, <4>1
      <3>3. n - f + 1 >= Burst BY <1>1, <2>1, <2>2, <3>2
      <3> QED BY <1>0, <3>3 DEF Throttled
    <2>3. CASE i + Burst # n + 1
      <3>1. i + Burst <= n /\ n \in 1..n BY <1>1, <1>6, <2>1, <2>3
      <3>2. HammerFrom(i, n)'
        <4>1. \A j \in (i + Burst + 1)..n : j \in (i + Burst + 1)..(n + 1) BY <1>1, <2>1
        <4> QED BY <1>6, <4>1 DEF HammerFrom
      <3>3. HammerFrom(i, n) BY <1>1, <1>5, <3>1, <3>2
      <3>4. hotUntil >= reads[n] + ReadWindow BY <1>0, <2>1, <3>1, <3>3 DEF ReadInv
      <3>5. n + 1 \in (i + Burst + 1)..(n + 1) BY <1>1, <2>1, <3>1
      <3>6. reads'[n + 1] < reads'[(n + 1) - 1] + ReadWindow BY <1>6, <3>5 DEF HammerFrom
      <3>7. (n + 1) - 1 = n /\ reads[n] \in Nat BY <1>1, <3>1
      <3>8. now < reads[n] + ReadWindow BY <1>3, <3>1, <3>6, <3>7
      <3> QED BY <1>1, <3>4, <3>7, <3>8 DEF Throttled
    <2> QED BY <2>2, <2>3
  <1>7. ASSUME NEW i \in 1..(n + 1) PROVE reads'[i] <= now
    <2>1. CASE i = n + 1 BY <1>1, <1>3, <2>1
    <2>2. CASE i # n + 1
      <3>1. i \in 1..n BY <1>1, <2>2
      <3>2. reads[i] <= now BY <1>0, <3>1 DEF ReadInv
      <3> QED BY <1>3, <3>1, <3>2
    <2> QED BY <2>1, <2>2
  <1>8. hotUntil' > 0 => hotUntil' <= reads'[n + 1] + ReadWindow
    <2>1. CASE hot BY <1>1, <1>2, <1>3, <2>1
    <2>2. CASE ~hot
      <3>1. hotUntil > 0 => n \in 1..n /\ reads[n] <= now /\ hotUntil <= reads[n] + ReadWindow
        BY <1>0, <1>1 DEF ReadInv
      <3> QED BY <1>1, <1>2, <1>3, <2>2, <3>1
    <2> QED BY <2>1, <2>2
  <1>9. \A i \in 1..(n + 1) :
          i + Burst <= n + 1 /\ HammerFrom(i, n + 1)' => hotUntil' >= reads'[n + 1] + ReadWindow
    BY <1>1, <1>2, <1>3, <1>6
  <1>10. HammerSettles'
    <2> SUFFICES ASSUME NEW k \in 1..(n + 1), NEW i \in 1..k, i + Burst <= k, HammerFrom(i, k)'
                 PROVE  reads'[k] >= reads'[k - 1] + MinGap
      BY <1>3 DEF HammerSettles
    <2>1. k - 1 \in 1..n /\ i \in 1..(n + 1) BY <1>1
    <2>2. CASE k = n + 1
      <3>1. hot BY <1>6, <2>1, <2>2
      <3>2. k - 1 = n /\ n > 0 BY <1>1, <2>1, <2>2
      <3>3. now >= reads[n] + MinGap BY <1>0, <3>1, <3>2
      <3> QED BY <1>3, <2>1, <2>2, <3>2, <3>3
    <2>3. CASE k # n + 1
      <3>1. k \in 1..n BY <1>1, <2>3
      <3>2. HammerFrom(i, k) BY <1>5, <2>1, <3>1
      <3>3. reads[k] >= reads[k - 1] + MinGap BY <1>0, <3>1, <3>2 DEF ReadInv, HammerSettles
      <3> QED BY <1>3, <2>1, <3>1, <3>3
    <2> QED BY <2>2, <2>3
  <1>11. \A i \in 1..(readFrom' - 1) : now' >= reads'[i] + ReadWindow
    <2>1. \A i \in 1..(f - 1) : i \in 1..n BY <1>1
    <2> QED BY <1>2, <1>3, <1>4, <2>1
  <1> QED BY <1>1, <1>2, <1>3, <1>7, <1>8, <1>9, <1>10, <1>11 DEF ReadInv

LEMMA ReadInvariant == Spec => []ReadInv
  <1>1. Init => ReadInv BY ReadAssumption DEF Init, ReadInv, HammerSettles
  <1>2. TypeOK /\ ReadInv /\ [Next]_vars => ReadInv'
    <2> SUFFICES ASSUME TypeOK, ReadInv, [Next]_vars PROVE ReadInv' OBVIOUS
    <2> USE ReadAssumption
    <2>a. /\ Len(reads) \in Nat /\ readFrom \in 1..(Len(reads) + 1) /\ now \in Nat
          /\ \A i \in 1..Len(reads) : reads[i] \in Nat
      BY DEF TypeOK
    <2>1. CASE Tick
      <3>1. now' = now + 1 /\ UNCHANGED <<pc, wake, reads, readFrom, hotUntil>>
        BY <2>1 DEF Tick, readVars
      <3> QED BY <2>a, <3>1 DEF ReadInv, HammerSettles, HammerFrom
    <2>2. CASE Read
      <3>1. PICK f \in readFrom..(Len(reads) + 1) :
              /\ Pruned(reads, readFrom, ReadWindow, f)
              /\ Throttled(f) => Gap(f) <= now
              /\ LetRead(f, Throttled(f))
        BY <2>2 DEF Read
      <3>2. Throttled(f) /\ Len(reads) > 0 => now >= reads[Len(reads)] + MinGap
        BY <2>a, <3>1, ThrottledHasStamp DEF Gap
      <3>3. Throttled(f) \in BOOLEAN BY DEF Throttled
      <3> QED BY <3>1, <3>2, <3>3, LetReadKeeps
    <2>3. CASE ReadNap
      <3>1. PICK f \in readFrom..(Len(reads) + 1) :
              /\ Pruned(reads, readFrom, ReadWindow, f)
              /\ Gap(f) > now /\ wake' = Gap(f) /\ readFrom' = f
        BY <2>3 DEF ReadNap
      <3>2. UNCHANGED <<now, reads, hotUntil>> BY <2>3 DEF ReadNap
      <3>3. Len(reads) > 0 /\ wake' = reads[Len(reads)] + MinGap BY <2>a, <3>1 DEF Gap
      <3>4. \A i \in 1..(f - 1) : now >= reads[i] + ReadWindow BY <3>1, ThrottledHasStamp
      <3>5. wake' >= reads[Len(reads)] + MinGap BY <2>a, <3>3
      <3> QED BY <3>1, <3>2, <3>3, <3>4, <3>5 DEF ReadInv, HammerSettles, HammerFrom
    <2>4. CASE ReadWoken
      <3>1. PICK f \in readFrom..(Len(reads) + 1) :
              Pruned(reads, readFrom, ReadWindow, f) /\ LetRead(f, TRUE)
        BY <2>4 DEF ReadWoken
      <3>2. now >= wake /\ wake \in Nat /\ wake >= reads[Len(reads)] + MinGap /\ Len(reads) > 0
        BY <2>4 DEF ReadWoken, ReadInv, TypeOK
      <3>3. now >= reads[Len(reads)] + MinGap BY <2>a, <3>2
      <3> QED BY <3>1, <3>3, LetReadKeeps
    <2>5. CASE AskWrite \/ Blocked \/ Full \/ Write \/ Backoff
      <3>1. UNCHANGED <<now, reads, readFrom, hotUntil>> /\ pc' # "read"
        BY <2>5 DEF AskWrite, Blocked, Full, Write, Backoff, Refused, readVars
      <3> QED BY <3>1 DEF ReadInv, HammerSettles, HammerFrom
    <2>6. CASE UNCHANGED vars
      BY <2>6 DEF vars, readVars, ReadInv, HammerSettles, HammerFrom
    <2> QED BY <2>1, <2>2, <2>3, <2>4, <2>5, <2>6 DEF Next
  <1> QED BY <1>1, <1>2, TypeCorrect, PTL DEF Spec

(* Once more than Burst reads fell into one window, every read keeps the   *)
(* gap until a full window passes without one.                             *)
THEOREM ReadGap == Spec => []HammerSettles
  BY ReadInvariant, PTL DEF ReadInv
=============================================================================
