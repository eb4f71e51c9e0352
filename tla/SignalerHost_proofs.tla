-------------------------- MODULE SignalerHost_proofs --------------------------
(***************************************************************************)
(* Theorems about SignalerHost, for any set of guests, any number of turns,*)
(* runs and days, and any ring size and cap.                               *)
(***************************************************************************)
EXTENDS SignalerHost, SequenceTheorems, TLAPS

LEMMA RecentElements ==
  ASSUME NEW rg \in Seq(Item)
  PROVE  /\ Recent(rg) \in Seq(Item)
         /\ Len(Recent(rg)) = IF Len(rg) > RingMax THEN RingMax ELSE Len(rg)
         /\ \A i \in 1..Len(Recent(rg)) :
              Recent(rg)[i] = rg[i + IF Len(rg) > RingMax THEN Len(rg) - RingMax ELSE 0]
  <1>1. Len(rg) \in Nat /\ RingMax \in Nat /\ RingMax > 0 BY SignalerAssumption
  <1>2. PICK k \in Nat : k = IF Len(rg) > RingMax THEN Len(rg) - RingMax ELSE 0 BY <1>1
  <1>3. Recent(rg) = SubSeq(rg, k + 1, Len(rg)) BY <1>1, <1>2 DEF Recent
  <1>4. \A i \in (k + 1)..Len(rg) : rg[i] \in Item BY <1>1, ElementOfSeq
  <1>5. /\ SubSeq(rg, k + 1, Len(rg)) \in Seq(Item)
        /\ Len(SubSeq(rg, k + 1, Len(rg))) = IF k + 1 <= Len(rg) THEN Len(rg) - (k + 1) + 1 ELSE 0
        /\ \A i \in 1..(Len(rg) - (k + 1) + 1) :
             SubSeq(rg, k + 1, Len(rg))[i] = rg[(k + 1) + i - 1]
    BY <1>1, <1>4, SubSeqProperties
  <1>6. Len(Recent(rg)) = Len(rg) - k
    <2>1. k <= Len(rg) BY <1>1, <1>2
    <2>2. ASSUME NEW n \in Nat, k <= n
          PROVE  (IF k + 1 <= n THEN n - (k + 1) + 1 ELSE 0) = n - k
      BY <2>2
    <2> QED BY <1>1, <1>3, <1>5, <2>1, <2>2
  <1>7. \A i \in 1..(Len(rg) - k) : Recent(rg)[i] = rg[i + k]
    <2> SUFFICES ASSUME NEW i \in 1..(Len(rg) - k) PROVE Recent(rg)[i] = rg[i + k] OBVIOUS
    <2>1. i \in 1..(Len(rg) - (k + 1) + 1) /\ (k + 1) + i - 1 = i + k BY <1>1
    <2> QED BY <1>3, <1>5, <2>1
  <1>8. Len(Recent(rg)) = IF Len(rg) > RingMax THEN RingMax ELSE Len(rg) BY <1>1, <1>2, <1>6
  <1>9. Recent(rg) \in Seq(Item) BY <1>3, <1>5
  <1> QED BY <1>2, <1>6, <1>7, <1>8, <1>9

LEMMA NextRingElements ==
  ASSUME NEW r \in Runs, ring[r] \in Seq(Item), queue[r] \in Seq(Asks), seq[r] \in Nat
  PROVE  \E all \in Seq(Item) :
           /\ NextRing(r) = Recent(all)
           /\ Len(all) = Len(ring[r]) + Len(queue[r])
           /\ \A i \in 1..Len(ring[r]) : all[i] = ring[r][i]
           /\ \A i \in 1..Len(queue[r]) :
                all[Len(ring[r]) + i] = [seq |-> seq[r] + i, ask |-> queue[r][i]]
  <1> DEFINE items == [i \in DOMAIN queue[r] |-> [seq |-> seq[r] + i, ask |-> queue[r][i]]]
  <1>1. DOMAIN queue[r] = 1..Len(queue[r]) /\ Len(queue[r]) \in Nat OBVIOUS
  <1>2. \A i \in 1..Len(queue[r]) : [seq |-> seq[r] + i, ask |-> queue[r][i]] \in Item
    BY <1>1 DEF Item
  <1>3. items \in [1..Len(queue[r]) -> Item] BY <1>1, <1>2
  <1>4. items \in Seq(Item) /\ Len(items) = Len(queue[r]) BY <1>1, <1>3
  <1>5. \A i \in 1..Len(queue[r]) : items[i] = [seq |-> seq[r] + i, ask |-> queue[r][i]] BY <1>1
  <1>6. NextRing(r) = Recent(ring[r] \o items) BY DEF NextRing
  <1> HIDE DEF items
  <1>7. /\ ring[r] \o items \in Seq(Item)
        /\ Len(ring[r] \o items) = Len(ring[r]) + Len(queue[r])
        /\ \A i \in 1..Len(ring[r]) : (ring[r] \o items)[i] = ring[r][i]
        /\ \A i \in 1..Len(queue[r]) : (ring[r] \o items)[Len(ring[r]) + i] = items[i]
    <2>1. Len(ring[r]) \in Nat OBVIOUS
    <2>2. /\ ring[r] \o items \in Seq(Item)
          /\ Len(ring[r] \o items) = Len(ring[r]) + Len(items)
          /\ \A i \in 1..Len(ring[r]) + Len(items) :
               (ring[r] \o items)[i] = IF i <= Len(ring[r]) THEN ring[r][i] ELSE items[i - Len(ring[r])]
      BY <1>4, ConcatProperties
    <2>3. ASSUME NEW i \in 1..Len(queue[r])
          PROVE  (ring[r] \o items)[Len(ring[r]) + i] = items[i]
      <3>0. PICK m \in Nat : m = Len(ring[r]) BY <2>1
      <3>n. PICK n \in Nat : n = Len(items) /\ n = Len(queue[r]) BY <1>1, <1>4
      <3>a. m + i \in 1..(m + n) /\ ~(m + i <= m) /\ (m + i) - m = i BY <3>n
      <3>1. /\ Len(ring[r]) + i \in 1..Len(ring[r]) + Len(items)
            /\ ~(Len(ring[r]) + i <= Len(ring[r])) /\ (Len(ring[r]) + i) - Len(ring[r]) = i
        BY <3>0, <3>n, <3>a
      <3> QED BY <2>2, <3>1
    <2> QED BY <1>1, <1>4, <2>1, <2>2, <2>3
  <1> QED BY <1>5, <1>6, <1>7

(* What is in a flush about to be written is not nothing.                  *)
TypeInv == TypeOK /\ \A r \in Runs : pc[r] = "write" => queue[r] # <<>>

LEMMA AdoptedIsRing ==
  ASSUME TypeInv, NEW r \in Runs
  PROVE  AdoptedRing(r) \in Seq(Item)
  <1>1. notes # <<>> => 1 \in DOMAIN notes /\ notes[1] \in Seq(Item) BY DEF TypeInv, TypeOK
  <1> QED BY <1>1, RecentElements DEF AdoptedRing, TypeInv, TypeOK

LEMMA AsksAreAsks ==
  ASSUME NEW rg \in Seq(Item) PROVE AsksOf(rg) \subseteq Asks
  <1>1. \A i \in DOMAIN rg : rg[i] \in Item OBVIOUS
  <1> QED BY <1>1 DEF AsksOf, Item

LEMMA TypeInvariant == Spec => []TypeInv
  <1>1. Init => TypeInv
    <2> SUFFICES ASSUME Init PROVE TypeInv OBVIOUS
    <2>1. 0 \in 0..MaxDay /\ 0 \in 0..MaxTurn BY SignalerAssumption
    <2>2. notes = <<>> /\ notes \in Seq(Seq(Item)) /\ DOMAIN notes = {} /\ Len(notes) = 0
      BY DEF Init
    <2>3. /\ noteId \in [Runs -> 0..Len(notes)] /\ ring \in [Runs -> Seq(Item)]
          /\ queue \in [Runs -> Seq(Asks)] /\ seq \in [Runs -> Nat]
      BY <2>2 DEF Init
    <2> QED BY <2>1, <2>2, <2>3 DEF Init, TypeInv, TypeOK
  <1>2. TypeInv /\ [Next]_vars => TypeInv'
    <2> SUFFICES ASSUME TypeInv, [Next]_vars PROVE TypeInv' OBVIOUS
    <2> USE SignalerAssumption DEF TypeInv
    <2>1. CASE NewDay
      BY <2>1 DEF NewDay, TypeOK, guestVars, wireVars, storeVars
    <2>2. ASSUME NEW g \in Guests, Post(g) PROVE TypeInv'
      BY <2>2 DEF Post, TypeOK, wireVars, storeVars, capVars
    <2>3. ASSUME NEW g \in Guests, GrowOld(g) PROVE TypeInv'
      BY <2>3 DEF GrowOld, TypeOK, wireVars, storeVars, capVars
    <2>4. ASSUME NEW r \in Runs, StartRun(r) PROVE TypeInv'
      BY <2>4 DEF StartRun, TypeOK, guestVars, wireVars, storeVars
    <2>5. ASSUME NEW r \in Runs, EndRun(r) PROVE TypeInv'
      BY <2>5 DEF EndRun, TypeOK, guestVars, wireVars, storeVars, capVars
    <2>6. ASSUME NEW r \in Runs, HandedOff(r) PROVE TypeInv'
      BY <2>6 DEF HandedOff, RollDay, TypeOK, guestVars, wireVars, storeVars
    <2>7. ASSUME NEW r \in Runs, Pull(r) PROVE TypeInv'
      <3>1. /\ noteId' \in [Runs -> 0..Len(notes)] /\ ring' \in [Runs -> Seq(Item)]
            /\ seq' \in [Runs -> Nat] /\ answered' \in [Runs -> SUBSET Asks]
        <4>1. CASE noteId[r] = 0 /\ notes # <<>>
          <5>1. 1 \in 1..Len(notes) /\ notes[1] \in Seq(Item) /\ Len(notes[1]) \in 1..RingMax
            BY <4>1 DEF TypeOK
          <5>a. Len(notes[1]) \in 1..Len(notes[1]) BY <5>1
          <5>b. notes[1][Len(notes[1])] \in Item BY <5>1, <5>a, ElementOfSeq
          <5>2. Last(notes[1]).seq \in Nat BY <5>b DEF Last, Item
          <5>3. AdoptedRing(r) \in Seq(Item) BY AdoptedIsRing
          <5>4. AsksOf(AdoptedRing(r)) \subseteq Asks BY <5>3, AsksAreAsks
          <5>5. LastOf(notes[1]) \in Nat BY <5>2 DEF LastOf
          <5>6. /\ noteId' = [noteId EXCEPT ![r] = 1]
                /\ ring' = [ring EXCEPT ![r] = AdoptedRing(r)]
                /\ seq' = [seq EXCEPT ![r] = LastOf(notes[1])]
                /\ answered' = [answered EXCEPT ![r] = AsksOf(AdoptedRing(r))]
            BY <2>7, <4>1 DEF Pull, AdoptNote
          <5> QED BY <5>1, <5>3, <5>4, <5>5, <5>6 DEF TypeOK
        <4>2. CASE ~(noteId[r] = 0 /\ notes # <<>>)
          <5>1. UNCHANGED <<noteId, ring, seq, answered>> BY <2>7, <4>2 DEF Pull, AdoptNote
          <5> QED BY <5>1 DEF TypeOK
        <4> QED BY <4>1, <4>2
      <3>2. Unseen(r) \subseteq Asks /\ Skipped(r) \subseteq Asks BY DEF Unseen, Skipped
      <3>3. req' \in [Runs -> SUBSET Asks] /\ settled' \subseteq Asks
        BY <2>7, <3>2 DEF Pull, TypeOK
      <3>4. lastSeq' \in [Runs -> [Guests -> 0..MaxTurn]] /\ cold' \in [Runs -> BOOLEAN]
            /\ ownDay' \in [Runs -> 0..MaxDay] /\ writes' \in [Runs -> Nat]
        BY <2>7 DEF Pull, RollDay, TypeOK
      <3>5. pc' = [pc EXCEPT ![r] = "drain"]
            /\ UNCHANGED <<guestVars, notes, day, accepting, ans, asked, queue, dayWrites, overlapped>>
        BY <2>7 DEF Pull
      <3> QED BY <3>1, <3>3, <3>4, <3>5 DEF TypeOK, guestVars
    <2>8. ASSUME NEW r \in Runs, Answer(r) PROVE TypeInv'
      <3>1. PICK a \in req[r] :
              /\ req' = [req EXCEPT ![r] = @ \ {a}]
              /\ ans' = [ans EXCEPT ![r] = @ \cup {a}]
              /\ asked' = [asked EXCEPT ![r] = @ \cup {a}]
              /\ queue' = [queue EXCEPT ![r] = Append(@, a)]
        BY <2>8 DEF Answer
      <3>2. a \in Asks BY <3>1 DEF TypeOK
      <3>3. queue' \in [Runs -> Seq(Asks)] BY <3>1, <3>2 DEF TypeOK
      <3>4. pc' = pc /\ pc[r] # "write" BY <2>8 DEF Answer
      <3>5. \A s \in Runs : pc'[s] = "write" => queue'[s] # <<>> BY <3>1, <3>4 DEF TypeOK
      <3>6. /\ req' \in [Runs -> SUBSET Asks] /\ ans' \in [Runs -> SUBSET Asks]
            /\ asked' \in [Runs -> SUBSET Asks]
        BY <3>1, <3>2 DEF TypeOK
      <3>7. UNCHANGED <<guestVars, notes, day, pc, accepting, wireVars, capVars, settled, overlapped>>
        BY <2>8 DEF Answer
      <3> QED BY <3>3, <3>5, <3>6, <3>7 DEF TypeOK, guestVars, wireVars, capVars
    <2>9. ASSUME NEW r \in Runs, SkipFlush(r) PROVE TypeInv'
      BY <2>9 DEF SkipFlush, AfterDrain, TypeOK, guestVars, wireVars, storeVars, capVars
    <2>10. ASSUME NEW r \in Runs, BeginFlush(r) PROVE TypeInv'
      BY <2>10 DEF BeginFlush, TypeOK, guestVars, wireVars, storeVars, capVars
    <2>11. ASSUME NEW r \in Runs, Flush(r) PROVE TypeInv'
      <3>1. ring[r] \in Seq(Item) /\ queue[r] \in Seq(Asks) /\ seq[r] \in Nat /\ queue[r] # <<>>
        BY <2>11 DEF Flush, TypeOK
      <3>2. PICK all \in Seq(Item) :
              NextRing(r) = Recent(all) /\ Len(all) = Len(ring[r]) + Len(queue[r])
        BY <3>1, NextRingElements
      <3>3. Len(all) \in Nat /\ Len(all) >= 1
        <4>1. Len(queue[r]) \in Nat \ {0} BY <3>1, EmptySeq
        <4>2. Len(ring[r]) \in Nat BY <3>1
        <4>3. \A m, n \in Nat : n # 0 => m + n \in Nat /\ m + n >= 1 OBVIOUS
        <4> QED BY <3>2, <4>1, <4>2, <4>3
      <3>4. NextRing(r) \in Seq(Item) /\ Len(NextRing(r)) \in 1..RingMax
        <4>1. Recent(all) \in Seq(Item) /\ Len(Recent(all)) = IF Len(all) > RingMax THEN RingMax ELSE Len(all)
          BY RecentElements
        <4>2. RingMax \in Nat /\ RingMax >= 1 OBVIOUS
        <4>3. Len(Recent(all)) \in 1..RingMax BY <3>3, <4>1, <4>2
        <4> QED BY <3>2, <4>1, <4>3
      <3>5. /\ notes' \in Seq(Seq(Item)) /\ \A n \in DOMAIN notes' : Len(notes'[n]) \in 1..RingMax
            /\ noteId' \in [Runs -> 0..Len(notes')]
        <4>1. CASE noteId[r] = 0
          <5>1. notes' = Append(notes, NextRing(r)) /\ noteId' = [noteId EXCEPT ![r] = Len(notes) + 1]
            BY <2>11, <4>1 DEF Flush
          <5> HIDE DEF TypeInv
          <5>2. notes \in Seq(Seq(Item)) /\ \A n \in DOMAIN notes : Len(notes[n]) \in 1..RingMax
            BY DEF TypeInv, TypeOK
          <5>3. /\ notes' \in Seq(Seq(Item)) /\ Len(notes') = Len(notes) + 1
                /\ \A n \in 1..Len(notes) : notes'[n] = notes[n]
                /\ notes'[Len(notes) + 1] = NextRing(r)
            BY <3>4, <5>1, <5>2, AppendProperties
          <5>a. Len(notes) \in Nat /\ DOMAIN notes = 1..Len(notes) /\ DOMAIN notes' = 1..(Len(notes) + 1)
            BY <5>2, <5>3
          <5>4. ASSUME NEW n \in DOMAIN notes' PROVE Len(notes'[n]) \in 1..RingMax
            <6>1. CASE n = Len(notes) + 1 BY <3>4, <5>3, <6>1
            <6>2. CASE n # Len(notes) + 1
              <7>1. n \in 1..Len(notes) BY <5>a, <6>2
              <7> QED BY <5>2, <5>3, <5>a, <7>1
            <6> QED BY <6>1, <6>2
          <5>5. noteId \in [Runs -> 0..Len(notes)] BY DEF TypeInv, TypeOK
          <5>6. noteId' \in [Runs -> 0..Len(notes')] BY <5>1, <5>3, <5>5, <5>a
          <5> QED BY <5>3, <5>4, <5>6
        <4>2. CASE noteId[r] # 0
          <5>1. notes' = [notes EXCEPT ![noteId[r]] = NextRing(r)] /\ noteId' = noteId
            BY <2>11, <4>2 DEF Flush
          <5>2. /\ notes \in Seq(Seq(Item)) /\ \A n \in DOMAIN notes : Len(notes[n]) \in 1..RingMax
                /\ noteId[r] \in 1..Len(notes)
            BY <4>2 DEF TypeOK
          <5>3. notes' \in Seq(Seq(Item)) /\ Len(notes') = Len(notes) BY <3>4, <5>1, <5>2
          <5>4. \A n \in DOMAIN notes' : Len(notes'[n]) \in 1..RingMax BY <3>4, <5>1, <5>2
          <5> QED BY <5>1, <5>3, <5>4 DEF TypeOK
        <4> QED BY <4>1, <4>2
      <3>6. /\ ring' = [ring EXCEPT ![r] = NextRing(r)]
            /\ seq' = [seq EXCEPT ![r] = @ + Len(queue[r])]
            /\ queue' = [queue EXCEPT ![r] = <<>>]
            /\ writes' = [writes EXCEPT ![r] = @ + 1]
            /\ dayWrites' = [dayWrites EXCEPT ![r] = @ + 1]
            /\ settled' = settled \cup AsksOf(NextRing(r))
            /\ pc' = [pc EXCEPT ![r] = AfterDrain(r)]
            /\ UNCHANGED <<guestVars, day, accepting, lastSeq, answered, cold, storeVars, ownDay, overlapped>>
        BY <2>11 DEF Flush
      <3>7. settled' \subseteq Asks BY <3>4, <3>6, AsksAreAsks DEF TypeOK
      <3>8. Len(queue[r]) \in Nat BY <3>1
      <3>9. ring' \in [Runs -> Seq(Item)] /\ seq' \in [Runs -> Nat] /\ queue' \in [Runs -> Seq(Asks)]
            /\ writes' \in [Runs -> Nat] /\ dayWrites' \in [Runs -> Nat]
        <4>1. seq[r] + Len(queue[r]) \in Nat BY <3>1, <3>8
        <4>2. seq' \in [Runs -> Nat] BY <3>6, <4>1 DEF TypeOK
        <4>3. ring' \in [Runs -> Seq(Item)] /\ queue' \in [Runs -> Seq(Asks)] BY <3>4, <3>6 DEF TypeOK
        <4>4. writes' \in [Runs -> Nat] /\ dayWrites' \in [Runs -> Nat] BY <3>6 DEF TypeOK
        <4> QED BY <4>2, <4>3, <4>4
      <3>10. pc' \in [Runs -> {"new", "poll", "drain", "write", "gone"}]
             /\ \A s \in Runs : pc'[s] = "write" => s # r /\ pc[s] = "write"
        BY <3>6 DEF AfterDrain, TypeOK
      <3>11. \A s \in Runs : pc'[s] = "write" => queue'[s] # <<>> BY <3>6, <3>10 DEF TypeOK
      <3> QED BY <3>5, <3>6, <3>7, <3>9, <3>10, <3>11 DEF TypeOK, guestVars, storeVars
    <2>12. ASSUME NEW r \in Runs, FlushRefused(r) PROVE TypeInv'
      BY <2>12 DEF FlushRefused, AfterDrain, TypeOK, guestVars, wireVars, storeVars, capVars
    <2>13. CASE UNCHANGED vars
      BY <2>13 DEF vars, TypeOK, guestVars, wireVars, storeVars, capVars
    <2> QED BY <2>1, <2>2, <2>3, <2>4, <2>5, <2>6, <2>7, <2>8, <2>9, <2>10, <2>11, <2>12, <2>13
            DEF Next, RunStep
  <1> QED BY <1>1, <1>2, PTL DEF Spec

(* Type correctness of the service and its wire.                           *)
THEOREM TypeCorrect == Spec => []TypeOK
  <1>1. TypeInv => TypeOK BY DEF TypeInv
  <1> QED BY <1>1, TypeInvariant, PTL

-----------------------------------------------------------------------------
(* The cap. A run at or below the cap begins a flush only below it; its    *)
(* count is at most one behind the writes of the day, and a run that still *)
(* counts for an earlier day has written at most once in this one, at the  *)
(* end of the drain that began before midnight.                            *)
CapInv ==
  \A r \in Runs :
    /\ writes[r] <= Cap /\ (pc[r] = "write" => writes[r] < Cap)
    /\ ownDay[r] = day => dayWrites[r] <= writes[r] + 1
    /\ ownDay[r] # day => dayWrites[r] <= 1 /\ (pc[r] \in {"drain", "write"} => dayWrites[r] = 0)
    /\ pc[r] = "new" => dayWrites[r] = 0

LEMMA CapInvariant == Spec => []CapInv
  <1>1. Init => CapInv BY SignalerAssumption DEF Init, CapInv
  <1>2. TypeInv /\ CapInv /\ [Next]_vars => CapInv'
    <2> SUFFICES ASSUME TypeInv, CapInv, [Next]_vars PROVE CapInv' OBVIOUS
    <2>0. /\ Cap \in Nat /\ Cap > 0 /\ pc \in [Runs -> {"new", "poll", "drain", "write", "gone"}]
          /\ writes \in [Runs -> Nat] /\ dayWrites \in [Runs -> Nat] /\ ownDay \in [Runs -> 0..MaxDay]
      BY SignalerAssumption DEF TypeInv, TypeOK
    <2>1. CASE NewDay BY <2>0, <2>1 DEF NewDay, CapInv
    <2>2. ASSUME NEW g \in Guests, Post(g) PROVE CapInv' BY <2>2 DEF Post, CapInv, capVars
    <2>3. ASSUME NEW g \in Guests, GrowOld(g) PROVE CapInv' BY <2>3 DEF GrowOld, CapInv, capVars
    <2>4. ASSUME NEW r \in Runs, StartRun(r) PROVE CapInv' BY <2>0, <2>4 DEF StartRun, CapInv
    <2>5. ASSUME NEW r \in Runs, EndRun(r) PROVE CapInv' BY <2>0, <2>5 DEF EndRun, CapInv, capVars
    <2>6. ASSUME NEW r \in Runs, HandedOff(r) PROVE CapInv'
      BY <2>0, <2>6 DEF HandedOff, RollDay, CapInv
    <2>7. ASSUME NEW r \in Runs, Pull(r) PROVE CapInv' BY <2>0, <2>7 DEF Pull, RollDay, CapInv
    <2>8. ASSUME NEW r \in Runs, Answer(r) PROVE CapInv' BY <2>8 DEF Answer, CapInv, capVars
    <2>9. ASSUME NEW r \in Runs, SkipFlush(r) PROVE CapInv'
      BY <2>0, <2>9 DEF SkipFlush, AfterDrain, CapInv, capVars
    <2>10. ASSUME NEW r \in Runs, BeginFlush(r) PROVE CapInv'
      BY <2>0, <2>10 DEF BeginFlush, Capped, CapInv, capVars
    <2>11. ASSUME NEW r \in Runs, Flush(r) PROVE CapInv'
      BY <2>0, <2>11 DEF Flush, AfterDrain, CapInv
    <2>12. ASSUME NEW r \in Runs, FlushRefused(r) PROVE CapInv'
      BY <2>0, <2>12 DEF FlushRefused, AfterDrain, CapInv, capVars
    <2>13. CASE UNCHANGED vars BY <2>13 DEF vars, CapInv, capVars
    <2> QED BY <2>1, <2>2, <2>3, <2>4, <2>5, <2>6, <2>7, <2>8, <2>9, <2>10, <2>11, <2>12, <2>13
            DEF Next, RunStep
  <1> QED BY <1>1, <1>2, TypeInvariant, PTL DEF Spec

(* A run overruns its daily cap by one write at most.                      *)
THEOREM CapHolds == Spec => []CapOverrunIsOne
  <1>1. TypeInv /\ CapInv => CapOverrunIsOne
    <2> SUFFICES ASSUME TypeInv, CapInv, NEW r \in Runs PROVE dayWrites[r] <= Cap + 1
      BY DEF CapOverrunIsOne
    <2>1. Cap \in Nat /\ writes[r] \in Nat /\ dayWrites[r] \in Nat /\ writes[r] <= Cap
      BY SignalerAssumption DEF TypeInv, TypeOK, CapInv
    <2>2. CASE ownDay[r] = day BY <2>1, <2>2 DEF CapInv
    <2>3. CASE ownDay[r] # day BY <2>1, <2>3 DEF CapInv
    <2> QED BY <2>2, <2>3
  <1> QED BY <1>1, TypeInvariant, CapInvariant, PTL

-----------------------------------------------------------------------------
(* Sequence numbers. A ring goes up and does not pass the last number its  *)
(* run used; so the numbers a flush adds go on from it.                    *)
Rising(s) == \A i, j \in 1..Len(s) : i < j => s[i].seq < s[j].seq
SeqInv ==
  /\ \A n \in DOMAIN notes : Rising(notes[n])
  /\ \A r \in Runs :
       Rising(ring[r]) /\ \A i \in 1..Len(ring[r]) : ring[r][i].seq <= seq[r]

LEMMA RecentRises ==
  ASSUME NEW rg \in Seq(Item), Rising(rg), NEW top \in Nat, \A i \in 1..Len(rg) : rg[i].seq <= top
  PROVE  Rising(Recent(rg)) /\ \A i \in 1..Len(Recent(rg)) : Recent(rg)[i].seq <= top
  <1>1. PICK k \in Nat : k = IF Len(rg) > RingMax THEN Len(rg) - RingMax ELSE 0
    BY SignalerAssumption
  <1>2. PICK n \in Nat : n = Len(rg) OBVIOUS
  <1>3. Len(Recent(rg)) = n - k /\ \A i \in 1..(n - k) : Recent(rg)[i] = rg[i + k]
    <2>1. Len(Recent(rg)) = IF Len(rg) > RingMax THEN RingMax ELSE Len(rg) BY RecentElements
    <2>2. Len(Recent(rg)) = n - k BY <1>1, <1>2, <2>1, SignalerAssumption
    <2> QED BY <1>1, <2>2, RecentElements
  <1>4. \A i \in 1..(n - k) : i + k \in 1..n BY <1>1, <1>2
  <1>5. \A i, j \in 1..(n - k) : i < j => i + k < j + k BY <1>1, <1>2
  <1> QED BY <1>2, <1>3, <1>4, <1>5 DEF Rising

LEMMA NextRingRises ==
  ASSUME TypeInv, SeqInv, NEW r \in Runs
  PROVE  /\ Rising(NextRing(r))
         /\ \A i \in 1..Len(NextRing(r)) : NextRing(r)[i].seq <= seq[r] + Len(queue[r])
  <1>1. ring[r] \in Seq(Item) /\ queue[r] \in Seq(Asks) /\ seq[r] \in Nat BY DEF TypeInv, TypeOK
  <1>2. PICK all \in Seq(Item) :
          /\ NextRing(r) = Recent(all)
          /\ Len(all) = Len(ring[r]) + Len(queue[r])
          /\ \A i \in 1..Len(ring[r]) : all[i] = ring[r][i]
          /\ \A i \in 1..Len(queue[r]) :
               all[Len(ring[r]) + i] = [seq |-> seq[r] + i, ask |-> queue[r][i]]
    BY <1>1, NextRingElements
  <1>3. PICK m \in Nat : m = Len(ring[r]) BY <1>1
  <1>4. PICK q \in Nat : q = Len(queue[r]) BY <1>1
  <1>5. \A i \in 1..m : all[i].seq \in Nat /\ all[i].seq <= seq[r]
    <2>1. \A i \in 1..m : ring[r][i] \in Item BY <1>1, <1>3, ElementOfSeq
    <2> QED BY <1>2, <1>3, <2>1 DEF SeqInv, Item
  <1>t. PICK top \in Nat : top = seq[r] BY <1>1
  <1>6. \A i \in (m + 1)..(m + q) : all[i].seq = seq[r] + (i - m)
    <2> SUFFICES ASSUME NEW i \in (m + 1)..(m + q) PROVE all[i].seq = seq[r] + (i - m) OBVIOUS
    <2>1. i - m \in 1..q /\ m + (i - m) = i OBVIOUS
    <2>2. all[m + (i - m)] = [seq |-> seq[r] + (i - m), ask |-> queue[r][i - m]]
      BY <1>2, <1>3, <1>4, <2>1
    <2> QED BY <2>1, <2>2
  <1>7. Rising(all)
    <2> SUFFICES ASSUME NEW i \in 1..(m + q), NEW j \in 1..(m + q), i < j
                 PROVE  all[i].seq < all[j].seq
      BY <1>2, <1>3, <1>4 DEF Rising
    <2>1. CASE j <= m
      <3>1. i \in 1..m /\ j \in 1..m BY <2>1
      <3> QED BY <1>2, <1>3, <3>1 DEF SeqInv, Rising
    <2>2. CASE i <= m /\ j > m
      <3>1. i \in 1..m /\ j \in (m + 1)..(m + q) /\ j - m > 0 BY <2>2
      <3>2. all[i].seq \in Nat /\ all[i].seq <= top /\ all[j].seq = top + (j - m)
        BY <1>5, <1>6, <1>t, <3>1
      <3> QED BY <3>1, <3>2
    <2>3. CASE i > m /\ j > m
      <3>1. i \in (m + 1)..(m + q) /\ j \in (m + 1)..(m + q) BY <2>3
      <3>2. all[i].seq = top + (i - m) /\ all[j].seq = top + (j - m) BY <1>6, <1>t, <3>1
      <3> QED BY <3>1, <3>2
    <2> QED BY <2>1, <2>2, <2>3
  <1>8. \A i \in 1..(m + q) : all[i].seq <= seq[r] + q
    <2> SUFFICES ASSUME NEW i \in 1..(m + q) PROVE all[i].seq <= seq[r] + q OBVIOUS
    <2>1. CASE i <= m
      <3>1. i \in 1..m BY <2>1
      <3>2. all[i].seq \in Nat /\ all[i].seq <= top BY <1>5, <1>t, <3>1
      <3>3. all[i].seq <= top + q BY <3>2
      <3> QED BY <1>t, <3>3
    <2>2. CASE i > m
      <3>1. i \in (m + 1)..(m + q) BY <2>2
      <3>2. all[i].seq = top + (i - m) BY <1>6, <1>t, <3>1
      <3>3. all[i].seq <= top + q BY <3>1, <3>2
      <3> QED BY <1>t, <3>3
    <2> QED BY <2>1, <2>2
  <1>9. seq[r] + q \in Nat BY <1>1, <1>4
  <1> QED BY <1>2, <1>3, <1>4, <1>7, <1>8, <1>9, RecentRises

LEMMA SeqInvariant == Spec => []SeqInv
  <1>1. Init => SeqInv BY DEF Init, SeqInv, Rising
  <1>2. TypeInv /\ TypeInv' /\ SeqInv /\ [Next]_vars => SeqInv'
    <2> SUFFICES ASSUME TypeInv, TypeInv', SeqInv, [Next]_vars PROVE SeqInv' OBVIOUS
    <2>a. ASSUME UNCHANGED <<notes, ring, seq>> PROVE SeqInv' BY <2>a DEF SeqInv, Rising
    <2>1. ASSUME NEW r \in Runs, Pull(r) PROVE SeqInv'
      <3>1. CASE noteId[r] = 0 /\ notes # <<>>
        <4>1. /\ ring' = [ring EXCEPT ![r] = Recent(notes[1])]
              /\ seq' = [seq EXCEPT ![r] = LastOf(notes[1])] /\ notes' = notes
          BY <2>1, <3>1 DEF Pull, AdoptNote, AdoptedRing
        <4>a. notes \in Seq(Seq(Item)) /\ \A n \in DOMAIN notes : Len(notes[n]) \in 1..RingMax
          BY DEF TypeInv, TypeOK
        <4>b. 1 \in DOMAIN notes BY <3>1, <4>a
        <4>2. /\ 1 \in DOMAIN notes /\ notes[1] \in Seq(Item) /\ Len(notes[1]) \in 1..RingMax
              /\ Rising(notes[1])
          BY <4>a, <4>b DEF SeqInv
        <4>3. PICK n \in Nat : n = Len(notes[1]) BY <4>2
        <4>4. n \in 1..n /\ LastOf(notes[1]) = notes[1][n].seq
          BY <4>2, <4>3, SignalerAssumption, EmptySeq DEF LastOf, Last
        <4>5. \A i \in 1..n : notes[1][i] \in Item BY <4>2, <4>3, ElementOfSeq
        <4>6. LastOf(notes[1]) \in Nat /\ \A i \in 1..n : notes[1][i].seq <= LastOf(notes[1])
          BY <4>2, <4>3, <4>4, <4>5 DEF Rising, Item
        <4>7. /\ Rising(Recent(notes[1]))
              /\ \A i \in 1..Len(Recent(notes[1])) : Recent(notes[1])[i].seq <= LastOf(notes[1])
          BY <4>2, <4>3, <4>6, RecentRises
        <4>8. ring \in [Runs -> Seq(Item)] /\ seq \in [Runs -> Nat] BY DEF TypeInv, TypeOK
        <4>9. ring'[r] = Recent(notes[1]) /\ seq'[r] = LastOf(notes[1])
              /\ \A s \in Runs : s # r => ring'[s] = ring[s] /\ seq'[s] = seq[s]
          BY <4>1, <4>8
        <4>10. ASSUME NEW s \in Runs
               PROVE  Rising(ring'[s]) /\ \A i \in 1..Len(ring'[s]) : ring'[s][i].seq <= seq'[s]
          BY <4>7, <4>9 DEF SeqInv
        <4> QED BY <4>1, <4>10 DEF SeqInv, Rising
      <3>2. CASE ~(noteId[r] = 0 /\ notes # <<>>)
        BY <2>1, <2>a, <3>2 DEF Pull, AdoptNote
      <3> QED BY <3>1, <3>2
    <2>2. ASSUME NEW r \in Runs, Flush(r) PROVE SeqInv'
      <3>0. /\ Rising(NextRing(r))
            /\ \A i \in 1..Len(NextRing(r)) : NextRing(r)[i].seq <= seq[r] + Len(queue[r])
        BY NextRingRises
      <3>1. ring' = [ring EXCEPT ![r] = NextRing(r)] /\ seq' = [seq EXCEPT ![r] = @ + Len(queue[r])]
        BY <2>2 DEF Flush
      <3>2. ring \in [Runs -> Seq(Item)] /\ seq \in [Runs -> Nat] /\ notes \in Seq(Seq(Item))
            /\ noteId[r] \in 0..Len(notes)
        BY DEF TypeInv, TypeOK
      <3>3. ring'[r] = NextRing(r) /\ seq'[r] = seq[r] + Len(queue[r])
            /\ \A s \in Runs : s # r => ring'[s] = ring[s] /\ seq'[s] = seq[s]
        BY <3>1, <3>2
      <3>4. ASSUME NEW s \in Runs
            PROVE  Rising(ring'[s]) /\ \A i \in 1..Len(ring'[s]) : ring'[s][i].seq <= seq'[s]
        BY <3>0, <3>3 DEF SeqInv
      <3>5. ASSUME NEW n \in DOMAIN notes' PROVE Rising(notes'[n])
        <4>1. notes'[n] = NextRing(r) \/ (n \in DOMAIN notes /\ notes'[n] = notes[n])
          <5>1. CASE noteId[r] = 0
            <6>1. notes' = Append(notes, NextRing(r)) BY <2>2, <5>1 DEF Flush
            <6>2. NextRing(r) \in Seq(Item) BY <3>3 DEF TypeInv, TypeOK
            <6>3. /\ Len(notes') = Len(notes) + 1 /\ notes'[Len(notes) + 1] = NextRing(r)
                  /\ \A k \in 1..Len(notes) : notes'[k] = notes[k]
                  /\ notes' \in Seq(Seq(Item))
              BY <3>2, <6>1, <6>2, AppendProperties
            <6>4. DOMAIN notes' = 1..(Len(notes) + 1) /\ DOMAIN notes = 1..Len(notes) /\ Len(notes) \in Nat
              BY <3>2, <6>3
            <6> QED BY <3>5, <6>3, <6>4
          <5>2. CASE noteId[r] # 0
            <6>1. notes' = [notes EXCEPT ![noteId[r]] = NextRing(r)] BY <2>2, <5>2 DEF Flush
            <6> QED BY <3>2, <3>5, <6>1
          <5> QED BY <5>1, <5>2
        <4> QED BY <3>0, <4>1 DEF SeqInv
      <3> QED BY <3>4, <3>5 DEF SeqInv, Rising
    <2>3. CASE UNCHANGED <<notes, ring, seq>> BY <2>3, <2>a
    <2>4. \/ UNCHANGED <<notes, ring, seq>>
          \/ \E r \in Runs : Pull(r) \/ Flush(r)
      BY DEF Next, RunStep, NewDay, Post, GrowOld, StartRun, EndRun, HandedOff, Answer, SkipFlush,
             BeginFlush, FlushRefused, vars, wireVars
    <2> QED BY <2>1, <2>2, <2>3, <2>4
  <1> QED BY <1>1, <1>2, TypeInvariant, PTL DEF Spec

(* The sequence numbers in a note go up, also where a restart or an overlap*)
(* makes another run write it.                                             *)
THEOREM SequenceRises == Spec => []SeqIncreases
  <1>1. TypeInv /\ SeqInv => SeqIncreases
    <2> SUFFICES ASSUME TypeInv, SeqInv, NEW n \in DOMAIN notes, NEW i \in 1..(Len(notes[n]) - 1)
                 PROVE  notes[n][i].seq < notes[n][i + 1].seq
      BY DEF SeqIncreases
    <2>1. notes[n] \in Seq(Item) BY DEF TypeInv, TypeOK
    <2>2. PICK m \in Nat : m = Len(notes[n]) BY <2>1
    <2>3. i \in 1..m /\ i + 1 \in 1..m /\ i < i + 1 BY <2>2
    <2> QED BY <2>2, <2>3 DEF SeqInv, Rising
  <1> QED BY <1>1, TypeInvariant, SeqInvariant, PTL

-----------------------------------------------------------------------------
(* A run's own books: before its first poll it has nothing, without a note *)
(* its ring is empty, and what it queues it has answered.                  *)
QueueAsks(r) == {queue[r][i] : i \in DOMAIN queue[r]}
OwnInv ==
  \A r \in Runs :
    /\ pc[r] = "new" => cold[r]
    /\ cold[r] => noteId[r] = 0 /\ req[r] = {} /\ ans[r] = {} /\ queue[r] = <<>>
    /\ noteId[r] = 0 => ring[r] = <<>>
    /\ req[r] \cap ans[r] = {}
    /\ QueueAsks(r) \subseteq ans[r]

LEMMA OwnInvariant == Spec => []OwnInv
  <1>1. Init => OwnInv BY DEF Init, OwnInv, QueueAsks
  <1>2. TypeInv /\ OwnInv /\ [Next]_vars => OwnInv'
    <2> SUFFICES ASSUME TypeInv, OwnInv, [Next]_vars PROVE OwnInv' OBVIOUS
    <2>0. /\ pc \in [Runs -> {"new", "poll", "drain", "write", "gone"}] /\ cold \in [Runs -> BOOLEAN]
          /\ req \in [Runs -> SUBSET Asks] /\ ans \in [Runs -> SUBSET Asks]
          /\ queue \in [Runs -> Seq(Asks)] /\ ring \in [Runs -> Seq(Item)]
          /\ noteId \in [Runs -> 0..Len(notes)] /\ Len(notes) \in Nat
      BY DEF TypeInv, TypeOK
    <2>1. CASE NewDay
      BY <2>1 DEF NewDay, OwnInv, QueueAsks, wireVars, storeVars
    <2>2. ASSUME NEW g \in Guests, Post(g) PROVE OwnInv'
      BY <2>2 DEF Post, OwnInv, QueueAsks, wireVars, storeVars
    <2>3. ASSUME NEW g \in Guests, GrowOld(g) PROVE OwnInv'
      BY <2>3 DEF GrowOld, OwnInv, QueueAsks, wireVars, storeVars
    <2>4. ASSUME NEW r \in Runs, StartRun(r) PROVE OwnInv'
      BY <2>0, <2>4 DEF StartRun, OwnInv, QueueAsks, wireVars, storeVars
    <2>5. ASSUME NEW r \in Runs, EndRun(r) PROVE OwnInv'
      BY <2>0, <2>5 DEF EndRun, OwnInv, QueueAsks, wireVars, storeVars
    <2>6. ASSUME NEW r \in Runs, HandedOff(r) PROVE OwnInv'
      BY <2>0, <2>6 DEF HandedOff, OwnInv, QueueAsks, wireVars, storeVars
    <2>7. ASSUME NEW r \in Runs, Pull(r) PROVE OwnInv'
      <3>1. /\ cold' = [cold EXCEPT ![r] = FALSE] /\ pc' = [pc EXCEPT ![r] = "drain"]
            /\ ans' = ans /\ queue' = queue
            /\ req' = [req EXCEPT ![r] =
                         @ \cup (((Unseen(r) \ Skipped(r)) \ answered'[r]) \ ans[r])]
        BY <2>7 DEF Pull
      <3>2. \A s \in Runs : s # r => noteId'[s] = noteId[s] /\ ring'[s] = ring[s]
        BY <2>0, <2>7 DEF Pull, AdoptNote
      <3>3. noteId'[r] = 0 => noteId[r] = 0 /\ ring'[r] = ring[r]
        BY <2>0, <2>7 DEF Pull, AdoptNote
      <3> QED BY <2>0, <3>1, <3>2, <3>3 DEF OwnInv, QueueAsks
    <2>8. ASSUME NEW r \in Runs, Answer(r) PROVE OwnInv'
      <3>1. PICK a \in req[r] :
              /\ req' = [req EXCEPT ![r] = @ \ {a}]
              /\ ans' = [ans EXCEPT ![r] = @ \cup {a}]
              /\ queue' = [queue EXCEPT ![r] = Append(@, a)]
        BY <2>8 DEF Answer
      <3>2. UNCHANGED <<pc, wireVars>> /\ ~cold[r] BY <2>8, <3>1 DEF Answer, OwnInv
      <3>3. a \in Asks BY <2>0, <3>1
      <3>4. QueueAsks(r)' = QueueAsks(r) \cup {a}
        <4>1. queue'[r] = Append(queue[r], a) /\ queue[r] \in Seq(Asks) BY <2>0, <3>1
        <4>2. /\ Append(queue[r], a) \in Seq(Asks) /\ Len(Append(queue[r], a)) = Len(queue[r]) + 1
              /\ \A i \in 1..Len(queue[r]) : Append(queue[r], a)[i] = queue[r][i]
              /\ Append(queue[r], a)[Len(queue[r]) + 1] = a
          BY <3>3, <4>1, AppendProperties
        <4>3. DOMAIN queue[r] = 1..Len(queue[r]) /\ Len(queue[r]) \in Nat
              /\ DOMAIN queue'[r] = 1..(Len(queue[r]) + 1)
          BY <4>1, <4>2
        <4> QED BY <4>1, <4>2, <4>3 DEF QueueAsks
      <3>5. \A s \in Runs : s # r => QueueAsks(s)' = QueueAsks(s) /\ queue'[s] = queue[s]
        BY <2>0, <3>1 DEF QueueAsks
      <3> QED BY <2>0, <3>1, <3>2, <3>4, <3>5 DEF OwnInv, wireVars
    <2>9. ASSUME NEW r \in Runs, SkipFlush(r) PROVE OwnInv'
      BY <2>0, <2>9 DEF SkipFlush, AfterDrain, OwnInv, QueueAsks, wireVars, storeVars
    <2>10. ASSUME NEW r \in Runs, BeginFlush(r) PROVE OwnInv'
      BY <2>0, <2>10 DEF BeginFlush, OwnInv, QueueAsks, wireVars, storeVars
    <2>11. ASSUME NEW r \in Runs, Flush(r) PROVE OwnInv'
      <3>1. /\ queue' = [queue EXCEPT ![r] = <<>>] /\ UNCHANGED <<req, ans, cold>>
            /\ pc' = [pc EXCEPT ![r] = AfterDrain(r)] /\ pc[r] = "write"
            /\ ring' = [ring EXCEPT ![r] = NextRing(r)]
        BY <2>11 DEF Flush, storeVars
      <3>2. ~cold[r] /\ queue[r] # <<>> BY <3>1 DEF OwnInv, TypeInv
      <3>3. noteId'[r] # 0 /\ \A s \in Runs : s # r => noteId'[s] = noteId[s]
        BY <2>0, <2>11 DEF Flush
      <3>4. QueueAsks(r)' = {} BY <2>0, <3>1 DEF QueueAsks
      <3>5. \A s \in Runs : s # r => QueueAsks(s)' = QueueAsks(s) BY <2>0, <3>1 DEF QueueAsks
      <3> QED BY <2>0, <3>1, <3>2, <3>3, <3>4, <3>5 DEF OwnInv, AfterDrain
    <2>12. ASSUME NEW r \in Runs, FlushRefused(r) PROVE OwnInv'
      BY <2>0, <2>12 DEF FlushRefused, AfterDrain, OwnInv, QueueAsks, wireVars, storeVars
    <2>13. CASE UNCHANGED vars BY <2>13 DEF vars, OwnInv, QueueAsks, wireVars, storeVars
    <2> QED BY <2>1, <2>2, <2>3, <2>4, <2>5, <2>6, <2>7, <2>8, <2>9, <2>10, <2>11, <2>12, <2>13
            DEF Next, RunStep
  <1> QED BY <1>1, <1>2, TypeInvariant, PTL DEF Spec

LEMMA NextRingAsks ==
  ASSUME TypeInv, NEW r \in Runs
  PROVE  AsksOf(NextRing(r)) \subseteq AsksOf(ring[r]) \cup QueueAsks(r)
  <1>1. ring[r] \in Seq(Item) /\ queue[r] \in Seq(Asks) /\ seq[r] \in Nat BY DEF TypeInv, TypeOK
  <1>2. PICK all \in Seq(Item) :
          /\ NextRing(r) = Recent(all)
          /\ Len(all) = Len(ring[r]) + Len(queue[r])
          /\ \A i \in 1..Len(ring[r]) : all[i] = ring[r][i]
          /\ \A i \in 1..Len(queue[r]) :
               all[Len(ring[r]) + i] = [seq |-> seq[r] + i, ask |-> queue[r][i]]
    BY <1>1, NextRingElements
  <1>3. PICK m \in Nat : m = Len(ring[r]) BY <1>1
  <1>4. PICK q \in Nat : q = Len(queue[r]) BY <1>1
  <1>5. DOMAIN ring[r] = 1..m /\ DOMAIN queue[r] = 1..q BY <1>1, <1>3, <1>4
  <1>6. ASSUME NEW i \in 1..(m + q) PROVE all[i].ask \in AsksOf(ring[r]) \cup QueueAsks(r)
    <2>1. CASE i <= m
      <3>1. i \in 1..m BY <2>1
      <3> QED BY <1>2, <1>3, <1>5, <3>1 DEF AsksOf
    <2>2. CASE i > m
      <3>1. i - m \in 1..q /\ m + (i - m) = i BY <2>2
      <3>2. all[m + (i - m)] = [seq |-> seq[r] + (i - m), ask |-> queue[r][i - m]]
        BY <1>2, <1>3, <1>4, <3>1
      <3>3. all[i].ask = queue[r][i - m] BY <3>1, <3>2
      <3> QED BY <1>5, <3>1, <3>3 DEF QueueAsks
    <2> QED BY <2>1, <2>2
  <1>7. \A i \in DOMAIN Recent(all) : \E j \in 1..(m + q) : Recent(all)[i] = all[j]
    <2>0. m + q \in Nat OBVIOUS
    <2>1. PICK n \in Nat : n = m + q BY <2>0
    <2>a. Len(all) = n BY <1>2, <1>3, <1>4, <2>1
    <2>b. (IF n > RingMax THEN n - RingMax ELSE 0) \in Nat BY SignalerAssumption
    <2>2. PICK k \in Nat : k = IF n > RingMax THEN n - RingMax ELSE 0 BY <2>b
    <2>3. /\ Recent(all) \in Seq(Item) /\ Len(Recent(all)) = IF n > RingMax THEN RingMax ELSE n
          /\ \A i \in 1..Len(Recent(all)) : Recent(all)[i] = all[i + k]
      BY <2>a, <2>2, RecentElements
    <2>4. Len(Recent(all)) = n - k BY <2>2, <2>3, SignalerAssumption
    <2>5. DOMAIN Recent(all) = 1..(n - k) BY <2>3, <2>4
    <2>6. \A i \in 1..(n - k) : i + k \in 1..n BY <2>2
    <2>7. \A i \in 1..(n - k) : Recent(all)[i] = all[i + k] BY <2>3, <2>4
    <2>8. 1..n = 1..(m + q) BY <2>1
    <2>9. ASSUME NEW i \in DOMAIN Recent(all) PROVE \E j \in 1..(m + q) : Recent(all)[i] = all[j]
      <3>1. i \in 1..(n - k) BY <2>5
      <3>2. i + k \in 1..(m + q) BY ONLY <2>6, <2>8, <3>1
      <3>3. Recent(all)[i] = all[i + k] BY ONLY <2>7, <3>1
      <3> QED BY ONLY <3>2, <3>3
    <2> QED BY <2>9
  <1>8. \A i \in DOMAIN Recent(all) : Recent(all)[i].ask \in AsksOf(ring[r]) \cup QueueAsks(r)
    BY <1>6, <1>7
  <1> QED BY <1>2, <1>8 DEF AsksOf

(* While no run starts beside a live one, runs before a started one are    *)
(* gone, there is at most one note, and a run that has polled has that note*)
(* for its ring and knows every turn the note answers.                     *)
Knows(r) ==
  /\ noteId[r] = 0 => notes = <<>>
  /\ noteId[r] # 0 => Len(notes) = 1 /\ ring[r] = notes[1]
  /\ \A n \in DOMAIN notes : AsksOf(notes[n]) \subseteq answered[r] \cup ans[r]
  /\ \A n \in DOMAIN notes : req[r] \cap AsksOf(notes[n]) = {}
OneLife ==
  /\ \A s, t \in Runs : t < s /\ pc[s] # "new" => pc[t] = "gone"
  /\ Len(notes) <= 1
  /\ \A r \in Runs : Live(r) /\ ~cold[r] => Knows(r)
LifeInv == ~overlapped => OneLife

LEMMA LifeInvariant == Spec => []LifeInv
  <1>1. Init => LifeInv BY DEF Init, LifeInv, OneLife, Live
  <1>2. TypeInv /\ OwnInv /\ OwnInv' /\ TypeInv' /\ LifeInv /\ [Next]_vars => LifeInv'
    <2> SUFFICES ASSUME TypeInv, OwnInv, LifeInv, [Next]_vars, ~overlapped' PROVE OneLife'
      BY DEF LifeInv
    <2>0. /\ pc \in [Runs -> {"new", "poll", "drain", "write", "gone"}] /\ cold \in [Runs -> BOOLEAN]
          /\ req \in [Runs -> SUBSET Asks] /\ ans \in [Runs -> SUBSET Asks]
          /\ queue \in [Runs -> Seq(Asks)] /\ ring \in [Runs -> Seq(Item)]
          /\ answered \in [Runs -> SUBSET Asks]
          /\ noteId \in [Runs -> 0..Len(notes)] /\ notes \in Seq(Seq(Item))
          /\ \A n \in DOMAIN notes : Len(notes[n]) \in 1..RingMax
          /\ Runs \subseteq Nat /\ Len(notes) \in Nat /\ DOMAIN notes = 1..Len(notes)
      BY DEF TypeInv, TypeOK, Runs
    <2>l. OneLife
      BY DEF LifeInv, Next, RunStep, NewDay, Post, GrowOld, StartRun, EndRun, HandedOff, Pull, Answer,
             SkipFlush, BeginFlush, Flush, FlushRefused, vars
    <2>u. ASSUME NEW r \in Runs, NEW s \in Runs, pc[r] # "new", pc[r] # "gone", Live(s) PROVE s = r
      <3>1. ~(s < r) /\ ~(r < s) BY <2>l, <2>u DEF OneLife, Live
      <3> QED BY <2>0, <3>1
    <2>k. ASSUME UNCHANGED <<notes, cold, noteId, ring, answered, ans, req>>,
                 \A s, t \in Runs : t < s /\ pc'[s] # "new" => pc'[t] = "gone",
                 \A r \in Runs : Live(r)' /\ ~cold[r] => Live(r)
          PROVE  OneLife'
      BY <2>l, <2>k DEF OneLife, Knows
    <2>1. CASE NewDay BY <2>l, <2>1, <2>k DEF NewDay, OneLife, Live, wireVars, storeVars
    <2>2. ASSUME NEW g \in Guests, Post(g) PROVE OneLife'
      BY <2>l, <2>2, <2>k DEF Post, OneLife, Live, wireVars, storeVars
    <2>3. ASSUME NEW g \in Guests, GrowOld(g) PROVE OneLife'
      BY <2>l, <2>3, <2>k DEF GrowOld, OneLife, Live, wireVars, storeVars
    <2>4. ASSUME NEW r \in Runs, StartRun(r) PROVE OneLife'
      <3>1. /\ pc' = [pc EXCEPT ![r] = "poll"] /\ pc[r] = "new"
            /\ UNCHANGED <<notes, cold, noteId, ring, answered, ans, req>>
            /\ ~(r > 1 /\ Live(r - 1))
        BY <2>4 DEF StartRun, wireVars, storeVars
      <3>2. r > 1 => r - 1 \in Runs /\ pc[r - 1] = "gone"
        <4>1. r > 1 => r - 1 \in Runs BY SignalerAssumption DEF Runs
        <4>2. r > 1 => pc[r - 1] # "new" BY <2>4 DEF StartRun
        <4> QED BY <2>0, <3>1, <4>1, <4>2 DEF Live
      <3>3. cold[r] BY <3>1 DEF OwnInv
      <3>4. ASSUME NEW s \in Runs, NEW t \in Runs, t < s, pc'[s] # "new" PROVE pc'[t] = "gone"
        <4>1. CASE s = r
          <5>1. r > 1 /\ (t = r - 1 \/ t < r - 1) BY <3>4, <4>1 DEF Runs
          <5>2. pc[t] = "gone" BY <2>l, <3>2, <5>1 DEF OneLife
          <5> QED BY <2>0, <3>1, <3>4, <4>1, <5>2
        <4>2. CASE s # r
          <5>1. pc[t] = "gone" BY <2>0, <2>l, <3>1, <3>4, <4>2 DEF OneLife
          <5> QED BY <2>0, <3>1, <5>1
        <4> QED BY <4>1, <4>2
      <3>5. \A s \in Runs : Live(s)' /\ ~cold[s] => Live(s) BY <2>0, <3>1, <3>3 DEF Live
      <3> QED BY <2>k, <3>1, <3>4, <3>5
    <2>5. ASSUME NEW r \in Runs, EndRun(r) PROVE OneLife'
      BY <2>0, <2>l, <2>5, <2>k DEF EndRun, OneLife, Live, wireVars, storeVars
    <2>6. ASSUME NEW r \in Runs, HandedOff(r) PROVE OneLife'
      BY <2>0, <2>l, <2>6, <2>k DEF HandedOff, OneLife, Live, wireVars, storeVars
    <2>7. ASSUME NEW r \in Runs, Pull(r) PROVE OneLife'
      <3>1. /\ pc[r] = "poll" /\ pc' = [pc EXCEPT ![r] = "drain"] /\ UNCHANGED <<notes, ans>>
            /\ req' = [req EXCEPT ![r] =
                         @ \cup (((Unseen(r) \ Skipped(r)) \ answered'[r]) \ ans[r])]
        BY <2>7 DEF Pull
      <3>2. Knows(r)'
        <4>1. CASE noteId[r] = 0 /\ notes # <<>>
          <5>1. Len(notes) = 1 /\ DOMAIN notes = {1} BY <2>0, <2>l, <4>1, EmptySeq DEF OneLife
          <5>2. Recent(notes[1]) = notes[1]
            <6>1. notes[1] \in Seq(Item) /\ ~(Len(notes[1]) > RingMax)
              <7>1. 1 \in DOMAIN notes /\ Len(notes[1]) \in 1..RingMax BY <2>0, <5>1
              <7>2. RingMax \in Nat BY SignalerAssumption
              <7>3. ~(Len(notes[1]) > RingMax) BY <7>1, <7>2
              <7> QED BY <2>0, <7>1, <7>3
            <6>2. Recent(notes[1]) = SubSeq(notes[1], 1, Len(notes[1])) BY <6>1 DEF Recent
            <6> QED BY <6>1, <6>2, SubSeqFull
          <5>3. noteId'[r] = 1 /\ ring'[r] = notes[1] /\ answered'[r] = AsksOf(notes[1])
            BY <2>0, <2>7, <4>1, <5>2 DEF Pull, AdoptNote, AdoptedRing
          <5>4. cold[r]
            BY <2>l, <3>1, <4>1 DEF OneLife, Knows, Live
          <5>5. req'[r] \cap answered'[r] = {} BY <2>0, <3>1, <5>4 DEF OwnInv
          <5> QED BY <3>1, <5>1, <5>3, <5>5 DEF Knows
        <4>2. CASE ~(noteId[r] = 0 /\ notes # <<>>)
          <5>1. UNCHANGED <<noteId, ring, answered>> BY <2>7, <4>2 DEF Pull, AdoptNote
          <5>2. CASE notes = <<>> BY <2>0, <3>1, <4>2, <5>1, <5>2 DEF Knows
          <5>3. CASE notes # <<>>
            <6>1. ~cold[r] /\ Knows(r) BY <2>l, <3>1, <4>2, <5>3 DEF OneLife, Live, OwnInv
            <6>2. req'[r] \subseteq req[r] \cup (Asks \ (answered[r] \cup ans[r]))
              <7>1. Unseen(r) \subseteq Asks BY DEF Unseen
              <7> QED BY <2>0, <3>1, <5>1, <7>1
            <6> QED BY <3>1, <5>1, <6>1, <6>2 DEF Knows
          <5> QED BY <5>2, <5>3
        <4> QED BY <4>1, <4>2
      <3>3. \A s \in Runs : Live(s)' => s = r BY <2>0, <2>u, <3>1 DEF Live
      <3> QED BY <2>0, <2>l, <3>1, <3>2, <3>3 DEF OneLife
    <2>8. ASSUME NEW r \in Runs, Answer(r) PROVE OneLife'
      <3>1. PICK a \in req[r] :
              req' = [req EXCEPT ![r] = @ \ {a}] /\ ans' = [ans EXCEPT ![r] = @ \cup {a}]
        BY <2>8 DEF Answer
      <3>2. UNCHANGED <<notes, pc, wireVars>> BY <2>8 DEF Answer
      <3>3. \A s \in Runs : Knows(s) => Knows(s)' BY <2>0, <3>1, <3>2 DEF Knows, wireVars
      <3> QED BY <2>l, <3>2, <3>3 DEF OneLife, Live, wireVars
    <2>9. ASSUME NEW r \in Runs, SkipFlush(r) PROVE OneLife'
      BY <2>0, <2>l, <2>9, <2>k DEF SkipFlush, AfterDrain, OneLife, Live, wireVars, storeVars
    <2>10. ASSUME NEW r \in Runs, BeginFlush(r) PROVE OneLife'
      BY <2>0, <2>l, <2>10, <2>k DEF BeginFlush, OneLife, Live, wireVars, storeVars
    <2>11. ASSUME NEW r \in Runs, Flush(r) PROVE OneLife'
      <3>1. /\ pc[r] = "write" /\ pc' = [pc EXCEPT ![r] = AfterDrain(r)]
            /\ ring' = [ring EXCEPT ![r] = NextRing(r)]
            /\ UNCHANGED <<req, ans, cold, answered>>
        BY <2>11 DEF Flush, storeVars
      <3>2. ~cold[r] /\ Knows(r) BY <2>l, <3>1 DEF OneLife, Live, OwnInv, TypeInv
      <3>3. notes' = <<NextRing(r)>> /\ noteId'[r] = 1
        <4>1. CASE noteId[r] = 0
          <5>1. notes = <<>> BY <3>2, <4>1 DEF Knows
          <5>2. notes' = Append(notes, NextRing(r)) /\ noteId'[r] = Len(notes) + 1
            BY <2>0, <2>11, <4>1 DEF Flush
          <5> QED BY <5>1, <5>2
        <4>2. CASE noteId[r] # 0
          <5>1. noteId[r] = 1 /\ Len(notes) = 1 BY <2>0, <3>2, <4>2 DEF Knows
          <5>2. notes' = [notes EXCEPT ![1] = NextRing(r)] /\ noteId' = noteId
            BY <2>11, <4>2, <5>1 DEF Flush
          <5> QED BY <2>0, <5>1, <5>2
        <4> QED BY <4>1, <4>2
      <3>4. AsksOf(NextRing(r)) \subseteq answered[r] \cup ans[r] /\ req[r] \cap AsksOf(NextRing(r)) = {}
        <4>1. AsksOf(NextRing(r)) \subseteq AsksOf(ring[r]) \cup QueueAsks(r) BY NextRingAsks
        <4>2. AsksOf(ring[r]) \subseteq answered[r] \cup ans[r] /\ req[r] \cap AsksOf(ring[r]) = {}
          <5>1. CASE noteId[r] = 0
            <6>1. AsksOf(ring[r]) = {} BY <5>1 DEF OwnInv, AsksOf
            <6> QED BY <6>1
          <5>2. CASE noteId[r] # 0 BY <2>0, <3>2, <5>2 DEF Knows
          <5> QED BY <5>1, <5>2
        <4>3. QueueAsks(r) \subseteq ans[r] /\ req[r] \cap ans[r] = {} BY DEF OwnInv
        <4> QED BY <4>1, <4>2, <4>3
      <3>5. Knows(r)'
        <4>1. DOMAIN notes' = {1} /\ notes'[1] = NextRing(r) /\ Len(notes') = 1 BY <3>3
        <4>2. ring'[r] = NextRing(r) BY <2>0, <3>1
        <4> QED BY <3>1, <3>3, <3>4, <4>1, <4>2 DEF Knows
      <3>6. \A s \in Runs : Live(s)' => s = r BY <2>0, <2>u, <3>1 DEF Live
      <3>7. \A s, t \in Runs : t < s /\ pc'[s] # "new" => pc'[t] = "gone"
        <4> SUFFICES ASSUME NEW s \in Runs, NEW t \in Runs, t < s, pc'[s] # "new" PROVE pc'[t] = "gone"
          OBVIOUS
        <4>1. pc[s] # "new" BY <2>0, <3>1
        <4>2. pc[t] = "gone" BY <2>l, <4>1 DEF OneLife
        <4> QED BY <2>0, <3>1, <4>2
      <3> QED BY <3>3, <3>5, <3>6, <3>7 DEF OneLife
    <2>12. ASSUME NEW r \in Runs, FlushRefused(r) PROVE OneLife'
      BY <2>0, <2>l, <2>12, <2>k DEF FlushRefused, AfterDrain, OneLife, Live, wireVars, storeVars
    <2>13. CASE UNCHANGED vars
      BY <2>l, <2>13, <2>k DEF vars, OneLife, Live, wireVars, storeVars
    <2> QED BY <2>1, <2>2, <2>3, <2>4, <2>5, <2>6, <2>7, <2>8, <2>9, <2>10, <2>11, <2>12, <2>13
            DEF Next, RunStep
  <1> QED BY <1>1, <1>2, TypeInvariant, OwnInvariant, PTL DEF Spec

(* Only Answer handles a turn, one of a live run that has polled: that run *)
(* knows the one note there is, and none of its requests is in it.         *)
THEOREM AnsweredTurnsRest == Spec => NeverAnsweredAgain
  <1> DEFINE Rest == ~overlapped' => /\ Len(notes') <= 1
                                     /\ \A r \in Runs, n \in DOMAIN notes :
                                          (asked'[r] \ asked[r]) \cap AsksOf(notes[n]) = {}
  <1>1. TypeInv /\ OwnInv /\ LifeInv /\ LifeInv' /\ [Next]_vars => Rest
    <2> SUFFICES ASSUME TypeInv, OwnInv, LifeInv, LifeInv', [Next]_vars, ~overlapped'
                 PROVE  /\ Len(notes') <= 1
                        /\ \A r \in Runs, n \in DOMAIN notes :
                             (asked'[r] \ asked[r]) \cap AsksOf(notes[n]) = {}
      OBVIOUS
    <2>1. Len(notes') <= 1 BY DEF LifeInv, OneLife
    <2>2. asked \in [Runs -> SUBSET Asks] BY DEF TypeInv, TypeOK
    <2>3. CASE \E s \in Runs : Answer(s)
      <3>1. PICK s \in Runs : Answer(s) BY <2>3
      <3>2. pc[s] = "drain" /\ UNCHANGED overlapped BY <3>1 DEF Answer
      <3>3. PICK a \in req[s] : asked' = [asked EXCEPT ![s] = @ \cup {a}] BY <3>1 DEF Answer
      <3>4. ~cold[s] /\ Live(s) BY <3>2 DEF OwnInv, Live
      <3>5. Knows(s) BY <3>2, <3>4 DEF LifeInv, OneLife
      <3>6. \A n \in DOMAIN notes : req[s] \cap AsksOf(notes[n]) = {} BY <3>5 DEF Knows
      <3>7. \A r \in Runs : asked'[r] \ asked[r] \subseteq req[s] BY <2>2, <3>3
      <3> QED BY <2>1, <3>6, <3>7
    <2>4. CASE ~ \E s \in Runs : Answer(s)
      <3>1. UNCHANGED asked
        BY <2>4 DEF Next, RunStep, NewDay, Post, GrowOld, StartRun, EndRun, HandedOff, Pull,
           SkipFlush, BeginFlush, Flush, FlushRefused, storeVars, vars
      <3> QED BY <2>1, <3>1
    <2> QED BY <2>3, <2>4
  <1> QED BY <1>1, TypeInvariant, OwnInvariant, LifeInvariant, PTL DEF Spec, NeverAnsweredAgain

(* A cut ring shows nothing new.                                           *)
LEMMA RecentAsks ==
  ASSUME NEW rg \in Seq(Item) PROVE AsksOf(Recent(rg)) \subseteq AsksOf(rg)
  <1>1. PICK n \in Nat : n = Len(rg) OBVIOUS
  <1>2. (IF n > RingMax THEN n - RingMax ELSE 0) \in Nat BY SignalerAssumption
  <1>3. PICK k \in Nat : k = IF n > RingMax THEN n - RingMax ELSE 0 BY <1>2
  <1>4. /\ Recent(rg) \in Seq(Item) /\ Len(Recent(rg)) = IF n > RingMax THEN RingMax ELSE n
        /\ \A i \in 1..Len(Recent(rg)) : Recent(rg)[i] = rg[i + k]
    BY <1>1, <1>3, RecentElements
  <1>5. Len(Recent(rg)) = n - k BY <1>3, <1>4, SignalerAssumption
  <1>6. DOMAIN Recent(rg) = 1..(n - k) /\ DOMAIN rg = 1..n BY <1>1, <1>4, <1>5
  <1>7. \A i \in 1..(n - k) : i + k \in 1..n BY <1>3
  <1> QED BY <1>4, <1>5, <1>6, <1>7 DEF AsksOf

(* A write keeps the end of the ring it replaces, what it drops was pushed *)
(* out by a full ring, and below the end come answers of the queue.        *)
LEMMA RingKept ==
  ASSUME TypeInv, NEW r \in Runs
  PROVE  /\ NextRing(r) \in Seq(Item) /\ Len(NextRing(r)) <= RingMax
         /\ \E k \in 0..Len(ring[r]) :
              /\ SubSeq(NextRing(r), 1, Len(ring[r]) - k) = SubSeq(ring[r], k + 1, Len(ring[r]))
              /\ k > 0 => Len(NextRing(r)) = RingMax
              /\ \E o \in Int : \A j \in (Len(ring[r]) - k + 1)..Len(NextRing(r)) :
                   /\ j + o \in 1..Len(queue[r])
                   /\ NextRing(r)[j] = [seq |-> seq[r] + (j + o), ask |-> queue[r][j + o]]
  <1>1. ring[r] \in Seq(Item) /\ queue[r] \in Seq(Asks) /\ seq[r] \in Nat BY DEF TypeInv, TypeOK
  <1>2. PICK all \in Seq(Item) :
          /\ NextRing(r) = Recent(all)
          /\ Len(all) = Len(ring[r]) + Len(queue[r])
          /\ \A i \in 1..Len(ring[r]) : all[i] = ring[r][i]
          /\ \A i \in 1..Len(queue[r]) :
               all[Len(ring[r]) + i] = [seq |-> seq[r] + i, ask |-> queue[r][i]]
    BY <1>1, NextRingElements
  <1>3. PICK m \in Nat : m = Len(ring[r]) BY <1>1
  <1>4. PICK q \in Nat : q = Len(queue[r]) BY <1>1
  <1>0. m + q \in Nat OBVIOUS
  <1>5. PICK n \in Nat : n = m + q BY <1>0
  <1>6. Len(all) = n BY <1>2, <1>3, <1>4, <1>5
  <1>7. (IF n > RingMax THEN n - RingMax ELSE 0) \in Nat BY SignalerAssumption
  <1>8. PICK c \in Nat : c = IF n > RingMax THEN n - RingMax ELSE 0 BY <1>7
  <1>9. /\ Recent(all) \in Seq(Item) /\ Len(Recent(all)) = IF n > RingMax THEN RingMax ELSE n
        /\ \A i \in 1..Len(Recent(all)) : Recent(all)[i] = all[i + c]
    BY <1>6, <1>8, RecentElements
  <1>10. Len(Recent(all)) = n - c BY <1>8, <1>9, SignalerAssumption
  <1>11. c > 0 => Len(NextRing(r)) = RingMax BY <1>2, <1>8, <1>9
  <1>l. NextRing(r) \in Seq(Item) /\ Len(NextRing(r)) = n - c /\ Len(NextRing(r)) <= RingMax
    <2>1. (IF n > RingMax THEN RingMax ELSE n) <= RingMax BY SignalerAssumption
    <2> QED BY <1>2, <1>9, <1>10, <2>1
  <1>o. ASSUME NEW j \in 1..(n - c), j + c > m
        PROVE  /\ j + (c - m) \in 1..q
               /\ NextRing(r)[j] = [seq |-> seq[r] + (j + (c - m)), ask |-> queue[r][j + (c - m)]]
    <2>1. j + (c - m) \in 1..q /\ m + (j + (c - m)) = j + c BY <1>5, <1>8, <1>o
    <2>2. NextRing(r)[j] = all[j + c] BY <1>2, <1>9, <1>10
    <2> QED BY <1>2, <1>3, <1>4, <2>1, <2>2
  <1>12. CASE c <= m
    <2>1. c \in 0..m /\ m - c \in Nat /\ m - c <= n - c BY <1>5, <1>12
    <2> DEFINE kept == SubSeq(ring[r], c + 1, m)
               head == SubSeq(Recent(all), 1, m - c)
    <2>2. /\ kept \in Seq(Item) /\ Len(kept) = m - c
          /\ \A i \in 1..(m - c) : kept[i] = ring[r][c + i]
      <3>0. \A i \in (c + 1)..m : ring[r][i] \in Item
        <4>1. \A i \in 1..m : ring[r][i] \in Item BY <1>1, <1>3, ElementOfSeq
        <4>2. \A i \in (c + 1)..m : i \in 1..m OBVIOUS
        <4> QED BY <4>1, <4>2
      <3>1. /\ kept \in Seq(Item) /\ Len(kept) = IF c + 1 <= m THEN m - (c + 1) + 1 ELSE 0
            /\ \A i \in 1..(m - (c + 1) + 1) : kept[i] = ring[r][(c + 1) + i - 1]
        BY <3>0, SubSeqProperties
      <3>2. Len(kept) = m - c
        <4>1. (IF c + 1 <= m THEN m - (c + 1) + 1 ELSE 0) = m - c BY <2>1
        <4> QED BY <3>1, <4>1
      <3>3. \A i \in 1..(m - c) : i \in 1..(m - (c + 1) + 1) /\ (c + 1) + i - 1 = c + i OBVIOUS
      <3> QED BY <3>1, <3>2, <3>3
    <2>3. /\ head \in Seq(Item) /\ Len(head) = m - c
          /\ \A i \in 1..(m - c) : head[i] = Recent(all)[i]
      <3>0. \A i \in 1..(m - c) : Recent(all)[i] \in Item
        <4>1. \A i \in 1..(m - c) : i \in 1..(n - c) BY <2>1
        <4>2. \A i \in 1..(n - c) : Recent(all)[i] \in Item BY <1>9, <1>10, ElementOfSeq
        <4> QED BY <4>1, <4>2
      <3>1. /\ head \in Seq(Item) /\ Len(head) = IF 1 <= m - c THEN (m - c) - 1 + 1 ELSE 0
            /\ \A i \in 1..((m - c) - 1 + 1) : head[i] = Recent(all)[1 + i - 1]
        BY <2>1, <3>0, SubSeqProperties
      <3>2. Len(head) = m - c
        <4>1. (IF 1 <= m - c THEN (m - c) - 1 + 1 ELSE 0) = m - c BY <2>1
        <4> QED BY <3>1, <4>1
      <3>3. \A i \in 1..(m - c) : i \in 1..((m - c) - 1 + 1) /\ 1 + i - 1 = i OBVIOUS
      <3> QED BY <3>1, <3>2, <3>3
    <2>4. ASSUME NEW i \in 1..(m - c) PROVE head[i] = kept[i]
      <3>1. i \in 1..(n - c) /\ i + c \in 1..m /\ i + c = c + i BY <2>1, <2>4
      <3>2. head[i] = all[i + c] BY <1>9, <1>10, <2>3, <3>1
      <3> QED BY <1>2, <1>3, <2>2, <3>1, <3>2
    <2>5. head = kept BY <2>2, <2>3, <2>4, SeqEqual
    <2> HIDE DEF kept, head
    <2>6. \A j \in (m - c + 1)..(n - c) : j \in 1..(n - c) /\ j + c > m BY <2>1
    <2>7. c - m \in Int OBVIOUS
    <2>8. \A j \in (m - c + 1)..(n - c) :
            /\ j + (c - m) \in 1..q
            /\ NextRing(r)[j] = [seq |-> seq[r] + (j + (c - m)), ask |-> queue[r][j + (c - m)]]
      BY <1>o, <2>6
    <2>9. SubSeq(NextRing(r), 1, m - c) = SubSeq(ring[r], c + 1, m) BY <1>2, <2>5 DEF kept, head
    <2>10. \E o \in Int : \A j \in (m - c + 1)..(n - c) :
             /\ j + o \in 1..q
             /\ NextRing(r)[j] = [seq |-> seq[r] + (j + o), ask |-> queue[r][j + o]]
      BY <2>7, <2>8
    <2> QED BY <1>3, <1>4, <1>11, <1>l, <2>1, <2>9, <2>10
  <1>13. CASE c > m
    <2>1. SubSeq(ring[r], m + 1, m) = << >> BY <1>1, <1>3, SubSeqEmpty
    <2>2. SubSeq(NextRing(r), 1, 0) = << >> BY <1>l, SubSeqEmpty
    <2>3. m \in 0..m /\ c > 0 /\ m - m = 0 BY <1>13
    <2>6. \A j \in (m - m + 1)..(n - c) : j \in 1..(n - c) /\ j + c > m BY <1>13
    <2>7. c - m \in Int OBVIOUS
    <2>8. \A j \in (m - m + 1)..(n - c) :
            /\ j + (c - m) \in 1..q
            /\ NextRing(r)[j] = [seq |-> seq[r] + (j + (c - m)), ask |-> queue[r][j + (c - m)]]
      BY <1>o, <2>6
    <2>9. SubSeq(NextRing(r), 1, m - m) = SubSeq(ring[r], m + 1, m) BY <2>1, <2>2, <2>3
    <2>10. \E o \in Int : \A j \in (m - m + 1)..(n - c) :
             /\ j + o \in 1..q
             /\ NextRing(r)[j] = [seq |-> seq[r] + (j + o), ask |-> queue[r][j + o]]
      BY <2>7, <2>8
    <2> QED BY <1>3, <1>4, <1>11, <1>l, <2>3, <2>9, <2>10
  <1>14. c <= m \/ c > m OBVIOUS
  <1> QED BY ONLY <1>12, <1>13, <1>14

(* Everything that is in a store, a ring or a note was posted.             *)
PostedAsks == {a \in Asks : a[2] <= posted[a[1]]}
AskedInv ==
  /\ \A r \in Runs : req[r] \subseteq PostedAsks /\ ans[r] \subseteq PostedAsks
  /\ \A r \in Runs : AsksOf(ring[r]) \subseteq PostedAsks
  /\ \A n \in DOMAIN notes : AsksOf(notes[n]) \subseteq PostedAsks

(* A note that a write made is the writer's next ring.                     *)
LEMMA FlushedNotes ==
  ASSUME TypeInv, NEW r \in Runs, Flush(r)
  PROVE  \A n \in DOMAIN notes' :
           notes'[n] = NextRing(r) \/ (n \in DOMAIN notes /\ notes'[n] = notes[n])
  <1>0. notes \in Seq(Seq(Item)) /\ noteId[r] \in 0..Len(notes) BY DEF TypeInv, TypeOK
  <1>1. CASE noteId[r] = 0
    <2>1. notes' = Append(notes, NextRing(r)) BY <1>1 DEF Flush
    <2>2. NextRing(r) \in Seq(Item) BY RingKept
    <2>3. /\ Len(notes') = Len(notes) + 1 /\ notes'[Len(notes) + 1] = NextRing(r)
          /\ \A k \in 1..Len(notes) : notes'[k] = notes[k]
          /\ notes' \in Seq(Seq(Item))
      BY <1>0, <2>1, <2>2, AppendProperties
    <2>4. DOMAIN notes' = 1..(Len(notes) + 1) /\ DOMAIN notes = 1..Len(notes) /\ Len(notes) \in Nat
      BY <1>0, <2>3
    <2> QED BY <2>3, <2>4
  <1>2. CASE noteId[r] # 0
    <2>1. notes' = [notes EXCEPT ![noteId[r]] = NextRing(r)] BY <1>2 DEF Flush
    <2> QED BY <1>0, <2>1
  <1> QED BY <1>1, <1>2

LEMMA AskedInvariant == Spec => []AskedInv
  <1>1. Init => AskedInv BY DEF Init, AskedInv, AsksOf
  <1>2. TypeInv /\ OwnInv /\ AskedInv /\ [Next]_vars => AskedInv'
    <2> SUFFICES ASSUME TypeInv, OwnInv, AskedInv, [Next]_vars PROVE AskedInv' OBVIOUS
    <2>0. /\ req \in [Runs -> SUBSET Asks] /\ ans \in [Runs -> SUBSET Asks]
          /\ ring \in [Runs -> Seq(Item)] /\ posted \in [Guests -> 0..MaxTurn]
          /\ notes \in Seq(Seq(Item)) /\ MaxTurn \in Nat
      BY SignalerAssumption DEF TypeInv, TypeOK
    <2>1. ASSUME UNCHANGED <<req, ans, ring, notes, posted>> PROVE AskedInv'
      BY <2>1 DEF AskedInv, PostedAsks, AsksOf
    <2>2. ASSUME NEW g \in Guests, Post(g) PROVE AskedInv'
      <3>1. posted' = [posted EXCEPT ![g] = @ + 1] /\ UNCHANGED <<req, ans, ring, notes>>
        BY <2>2 DEF Post, wireVars, storeVars
      <3>2. \A h \in Guests : posted[h] \in Nat /\ posted[h] <= posted'[h] /\ posted'[h] \in Nat
        BY <2>0, <3>1
      <3>3. PostedAsks \subseteq PostedAsks'
        <4> SUFFICES ASSUME NEW a \in PostedAsks PROVE a \in PostedAsks' OBVIOUS
        <4>1. a \in Asks /\ a[1] \in Guests /\ a[2] \in Nat /\ a[2] <= posted[a[1]]
          BY <2>0 DEF PostedAsks, Asks
        <4>2. a[2] <= posted'[a[1]] BY <3>2, <4>1
        <4> QED BY <4>1, <4>2 DEF PostedAsks
      <3> QED BY <3>1, <3>3 DEF AskedInv, AsksOf
    <2>3. ASSUME NEW r \in Runs, Pull(r) PROVE AskedInv'
      <3>1. /\ req' = [req EXCEPT ![r] =
                         @ \cup (((Unseen(r) \ Skipped(r)) \ answered'[r]) \ ans[r])]
            /\ UNCHANGED <<posted, notes, ans>>
        BY <2>3 DEF Pull, guestVars
      <3>2. Unseen(r) \subseteq PostedAsks
        <4> SUFFICES ASSUME NEW a \in Asks, a[2] \in (lastSeq[r][a[1]] + 1)..posted[a[1]]
                     PROVE  a[2] <= posted[a[1]]
          BY DEF Unseen, PostedAsks
        <4> QED OBVIOUS
      <3>3. \A s \in Runs : AsksOf(ring'[s]) \subseteq PostedAsks
        <4>1. CASE noteId[r] = 0 /\ notes # <<>>
          <5>1. ring' = [ring EXCEPT ![r] = Recent(notes[1])]
            BY <2>3, <4>1 DEF Pull, AdoptNote, AdoptedRing
          <5>2. 1 \in DOMAIN notes /\ notes[1] \in Seq(Item) BY <2>0, <4>1
          <5>3. AsksOf(Recent(notes[1])) \subseteq AsksOf(notes[1]) BY <5>2, RecentAsks
          <5> QED BY <2>0, <5>1, <5>2, <5>3 DEF AskedInv
        <4>2. CASE ~(noteId[r] = 0 /\ notes # <<>>)
          <5>1. ring' = ring BY <2>3, <4>2 DEF Pull, AdoptNote
          <5> QED BY <5>1 DEF AskedInv
        <4> QED BY <4>1, <4>2
      <3>4. \A s \in Runs : req'[s] \subseteq PostedAsks BY <2>0, <3>1, <3>2 DEF AskedInv
      <3>5. PostedAsks' = PostedAsks BY <3>1 DEF PostedAsks
      <3> QED BY <3>1, <3>3, <3>4, <3>5 DEF AskedInv, AsksOf
    <2>4. ASSUME NEW r \in Runs, Answer(r) PROVE AskedInv'
      <3>1. PICK a \in req[r] :
              req' = [req EXCEPT ![r] = @ \ {a}] /\ ans' = [ans EXCEPT ![r] = @ \cup {a}]
        BY <2>4 DEF Answer
      <3>2. UNCHANGED <<posted, notes, ring>> BY <2>4 DEF Answer, guestVars, wireVars
      <3>3. \A s \in Runs : req'[s] \subseteq PostedAsks /\ ans'[s] \subseteq PostedAsks
        BY <2>0, <3>1 DEF AskedInv
      <3> QED BY <3>2, <3>3 DEF AskedInv, AsksOf, PostedAsks
    <2>5. ASSUME NEW r \in Runs, Flush(r) PROVE AskedInv'
      <3>1. ring' = [ring EXCEPT ![r] = NextRing(r)] /\ UNCHANGED <<posted, req, ans>>
        BY <2>5 DEF Flush, guestVars, storeVars
      <3>2. AsksOf(NextRing(r)) \subseteq PostedAsks BY NextRingAsks DEF AskedInv, OwnInv
      <3>3. \A n \in DOMAIN notes' : AsksOf(notes'[n]) \subseteq PostedAsks
        BY <2>5, <3>2, FlushedNotes DEF AskedInv
      <3>4. \A s \in Runs : AsksOf(ring'[s]) \subseteq PostedAsks BY <2>0, <3>1, <3>2 DEF AskedInv
      <3> QED BY <3>1, <3>3, <3>4 DEF AskedInv, AsksOf, PostedAsks
    <2>6. \/ UNCHANGED <<req, ans, ring, notes, posted>>
          \/ \E g \in Guests : Post(g)
          \/ \E r \in Runs : Pull(r) \/ Answer(r) \/ Flush(r)
      BY DEF Next, RunStep, NewDay, GrowOld, StartRun, EndRun, HandedOff, SkipFlush,
             BeginFlush, FlushRefused, vars, guestVars, wireVars, storeVars
    <2> QED BY <2>1, <2>2, <2>3, <2>4, <2>5, <2>6
  <1> QED BY <1>1, <1>2, TypeInvariant, OwnInvariant, PTL DEF Spec

(* Each turn is in a queue once, and while no runs overlap no live run     *)
(* queues a turn its ring already answers.                                 *)
QueuedOnce(r) == \A i, j \in 1..Len(queue[r]) : i # j => queue[r][i] # queue[r][j]
OnceInv ==
  \A r \in Runs :
    /\ QueuedOnce(r)
    /\ ~overlapped /\ Live(r) => QueueAsks(r) \cap AsksOf(ring[r]) = {}

LEMMA EmptyQueue == ASSUME NEW r, queue[r] = <<>> PROVE QueueAsks(r) = {}
  BY DEF QueueAsks

LEMMA OnceInvariant == Spec => []OnceInv
  <1>1. Init => OnceInv BY DEF Init, OnceInv, QueuedOnce, Live
  <1>2. TypeInv /\ OwnInv /\ LifeInv /\ OnceInv /\ [Next]_vars => OnceInv'
    <2> SUFFICES ASSUME TypeInv, OwnInv, LifeInv, OnceInv, [Next]_vars PROVE OnceInv' OBVIOUS
    <2>0. /\ queue \in [Runs -> Seq(Asks)] /\ ring \in [Runs -> Seq(Item)]
          /\ pc \in [Runs -> {"new", "poll", "drain", "write", "gone"}]
          /\ req \in [Runs -> SUBSET Asks] /\ noteId \in [Runs -> 0..Len(notes)]
      BY DEF TypeInv, TypeOK
    <2>1. ASSUME UNCHANGED <<queue, ring>>, ~overlapped' => ~overlapped,
                 \A r \in Runs : Live(r)' => Live(r) \/ queue[r] = <<>>
          PROVE  OnceInv'
      <3>1. \A r \in Runs : QueuedOnce(r)' BY <2>1 DEF OnceInv, QueuedOnce
      <3>2. ASSUME NEW r \in Runs, ~overlapped', Live(r)'
            PROVE  QueueAsks(r)' \cap AsksOf(ring'[r]) = {}
        <4>1. QueueAsks(r)' = QueueAsks(r) /\ ring'[r] = ring[r] BY <2>1 DEF QueueAsks
        <4>2. CASE Live(r) BY <2>1, <3>2, <4>1, <4>2 DEF OnceInv
        <4>3. CASE queue[r] = <<>> BY <4>1, <4>3, EmptyQueue
        <4> QED BY <2>1, <3>2, <4>2, <4>3
      <3> QED BY <3>1, <3>2 DEF OnceInv, AsksOf
    <2>2. ASSUME NEW r \in Runs, StartRun(r) PROVE OnceInv'
      <3>1. /\ UNCHANGED <<queue, ring>> /\ pc' = [pc EXCEPT ![r] = "poll"] /\ pc[r] = "new"
            /\ (~overlapped' => ~overlapped)
        BY <2>2 DEF StartRun, wireVars
      <3>2. queue[r] = <<>> BY <3>1 DEF OwnInv
      <3>3. \A s \in Runs : Live(s)' => Live(s) \/ queue[s] = <<>> BY <2>0, <3>1, <3>2 DEF Live
      <3> QED BY <2>1, <3>1, <3>3
    <2>3. ASSUME NEW r \in Runs, Pull(r) PROVE OnceInv'
      <3>1. /\ UNCHANGED <<queue, overlapped>> /\ pc' = [pc EXCEPT ![r] = "drain"] /\ pc[r] = "poll"
            /\ \A s \in Runs : s # r => ring'[s] = ring[s]
        BY <2>0, <2>3 DEF Pull, AdoptNote
      <3>2. \A s \in Runs : Live(s)' => Live(s) BY <2>0, <3>1 DEF Live
      <3>3. ASSUME ~overlapped PROVE ring'[r] = ring[r] \/ queue[r] = <<>>
        <4>1. CASE cold[r] BY <4>1 DEF OwnInv
        <4>2. CASE ~cold[r]
          <5>1. Live(r) BY <3>1 DEF Live
          <5>2. Knows(r) BY <3>3, <4>2, <5>1 DEF LifeInv, OneLife
          <5>3. ~(noteId[r] = 0 /\ notes # <<>>) BY <5>2 DEF Knows
          <5> QED BY <2>3, <5>3 DEF Pull, AdoptNote
        <4> QED BY <4>1, <4>2
      <3>4. ASSUME NEW s \in Runs, ~overlapped', Live(s)'
            PROVE  QueueAsks(s)' \cap AsksOf(ring'[s]) = {}
        <4>1. QueueAsks(s)' = QueueAsks(s) /\ Live(s) /\ ~overlapped
          BY <3>1, <3>2, <3>4 DEF QueueAsks
        <4>2. CASE ring'[s] = ring[s] BY <4>1, <4>2 DEF OnceInv
        <4>3. CASE queue[s] = <<>> BY <4>1, <4>3, EmptyQueue
        <4> QED BY <3>1, <3>3, <4>1, <4>2, <4>3
      <3>5. \A s \in Runs : QueuedOnce(s)' BY <3>1 DEF OnceInv, QueuedOnce
      <3> QED BY <3>4, <3>5 DEF OnceInv, AsksOf
    <2>4. ASSUME NEW r \in Runs, Answer(r) PROVE OnceInv'
      <3>1. PICK a \in req[r] : queue' = [queue EXCEPT ![r] = Append(@, a)]
        BY <2>4 DEF Answer
      <3>2. UNCHANGED <<pc, ring, overlapped>> /\ pc[r] = "drain" BY <2>4 DEF Answer, wireVars
      <3>3. a \in Asks /\ a \notin QueueAsks(r) BY <2>0, <3>1 DEF OwnInv
      <3>4. PICK m \in Nat : m = Len(queue[r]) BY <2>0
      <3>5. /\ Len(queue'[r]) = m + 1 /\ queue'[r][m + 1] = a
            /\ \A i \in 1..m : queue'[r][i] = queue[r][i]
            /\ DOMAIN queue[r] = 1..m /\ DOMAIN queue'[r] = 1..(m + 1)
        <4>1. queue'[r] = Append(queue[r], a) /\ queue[r] \in Seq(Asks) BY <2>0, <3>1
        <4>2. /\ Append(queue[r], a) \in Seq(Asks) /\ Len(Append(queue[r], a)) = Len(queue[r]) + 1
              /\ \A i \in 1..Len(queue[r]) : Append(queue[r], a)[i] = queue[r][i]
              /\ Append(queue[r], a)[Len(queue[r]) + 1] = a
          BY <3>3, <4>1, AppendProperties
        <4> QED BY <3>4, <4>1, <4>2
      <3>6. \A i \in 1..m : queue[r][i] # a BY <3>3, <3>5 DEF QueueAsks
      <3>7. QueuedOnce(r)'
        <4> SUFFICES ASSUME NEW i \in 1..(m + 1), NEW j \in 1..(m + 1), i # j
                     PROVE  queue'[r][i] # queue'[r][j]
          BY <3>5 DEF QueuedOnce
        <4>1. CASE i \in 1..m /\ j \in 1..m BY <3>4, <3>5, <4>1 DEF OnceInv, QueuedOnce
        <4>2. CASE i = m + 1 /\ j \in 1..m BY <3>5, <3>6, <4>2
        <4>3. CASE j = m + 1 /\ i \in 1..m BY <3>5, <3>6, <4>3
        <4> QED BY <4>1, <4>2, <4>3
      <3>8. QueueAsks(r)' = QueueAsks(r) \cup {a} BY <3>5 DEF QueueAsks
      <3>9. \A s \in Runs : s # r => queue'[s] = queue[s] BY <2>0, <3>1
      <3>10. ASSUME ~overlapped PROVE a \notin AsksOf(ring[r])
        <4>1. Live(r) /\ ~cold[r] BY <3>1, <3>2 DEF Live, OwnInv
        <4>2. Knows(r) BY <3>10, <4>1 DEF LifeInv, OneLife
        <4>3. CASE noteId[r] = 0 BY <4>3 DEF OwnInv, AsksOf
        <4>4. CASE noteId[r] # 0
          <5>1. ring[r] = notes[1] /\ 1 \in DOMAIN notes BY <2>0, <4>2, <4>4 DEF Knows, TypeInv, TypeOK
          <5> QED BY <3>1, <4>2, <5>1 DEF Knows
        <4> QED BY <4>3, <4>4
      <3>11. ASSUME NEW s \in Runs, ~overlapped', Live(s)'
             PROVE  QueueAsks(s)' \cap AsksOf(ring'[s]) = {}
        <4>1. Live(s) /\ ~overlapped /\ ring'[s] = ring[s] BY <3>2, <3>11 DEF Live
        <4>2. CASE s = r BY <3>8, <3>10, <4>1, <4>2 DEF OnceInv
        <4>3. CASE s # r BY <3>9, <4>1, <4>3 DEF OnceInv, QueueAsks
        <4> QED BY <4>2, <4>3
      <3>12. \A s \in Runs : QueuedOnce(s)' BY <3>7, <3>9 DEF OnceInv, QueuedOnce
      <3> QED BY <3>11, <3>12 DEF OnceInv, AsksOf
    <2>5. ASSUME NEW r \in Runs, Flush(r) PROVE OnceInv'
      <3>1. /\ queue' = [queue EXCEPT ![r] = <<>>] /\ ring' = [ring EXCEPT ![r] = NextRing(r)]
            /\ UNCHANGED overlapped /\ pc[r] = "write" /\ pc' = [pc EXCEPT ![r] = AfterDrain(r)]
        BY <2>5 DEF Flush
      <3>2. queue'[r] = <<>> /\ \A s \in Runs : s # r => queue'[s] = queue[s] /\ ring'[s] = ring[s]
        BY <2>0, <3>1
      <3>3. \A s \in Runs : Live(s)' => Live(s) BY <2>0, <3>1 DEF Live
      <3>4. ASSUME NEW s \in Runs, ~overlapped', Live(s)'
            PROVE  QueueAsks(s)' \cap AsksOf(ring'[s]) = {}
        <4>1. CASE s = r BY <3>2, <4>1 DEF QueueAsks
        <4>2. CASE s # r BY <3>1, <3>2, <3>3, <3>4, <4>2 DEF OnceInv, QueueAsks
        <4> QED BY <4>1, <4>2
      <3>5. \A s \in Runs : QueuedOnce(s)' BY <3>2 DEF OnceInv, QueuedOnce
      <3> QED BY <3>4, <3>5 DEF OnceInv, AsksOf
    <2>6. ASSUME UNCHANGED <<queue, ring, overlapped>>, \A r \in Runs : Live(r)' => Live(r)
          PROVE  OnceInv'
      BY <2>1, <2>6
    <2>7. CASE NewDay BY <2>6, <2>7 DEF NewDay, wireVars, Live
    <2>8. ASSUME NEW g \in Guests, Post(g) \/ GrowOld(g) PROVE OnceInv'
      BY <2>6, <2>8 DEF Post, GrowOld, wireVars, Live
    <2>9. ASSUME NEW r \in Runs, EndRun(r) PROVE OnceInv'
      BY <2>0, <2>6, <2>9 DEF EndRun, wireVars, Live
    <2>10. ASSUME NEW r \in Runs, HandedOff(r) PROVE OnceInv'
      BY <2>0, <2>6, <2>10 DEF HandedOff, wireVars, Live
    <2>11. ASSUME NEW r \in Runs, SkipFlush(r) \/ BeginFlush(r) PROVE OnceInv'
      BY <2>0, <2>6, <2>11 DEF SkipFlush, BeginFlush, AfterDrain, wireVars, Live
    <2>12. ASSUME NEW r \in Runs, FlushRefused(r) PROVE OnceInv'
      BY <2>0, <2>6, <2>12 DEF FlushRefused, AfterDrain, wireVars, Live
    <2>13. CASE UNCHANGED vars BY <2>6, <2>13 DEF vars, wireVars, Live
    <2> QED BY <2>2, <2>3, <2>4, <2>5, <2>7, <2>8, <2>9, <2>10, <2>11, <2>12, <2>13
            DEF Next, RunStep
  <1> QED BY <1>1, <1>2, TypeInvariant, OwnInvariant, LifeInvariant, PTL DEF Spec

(* A write leaves the first note as it was or makes it the writer's next   *)
(* ring; while no runs overlap it was the writer's ring.                   *)
LEMMA FlushedBoard ==
  ASSUME TypeInv, OwnInv, LifeInv, NEW r \in Runs, Flush(r)
  PROVE  /\ HostNote' = HostNote \/ HostNote' = NextRing(r)
         /\ ~overlapped => HostNote = ring[r] /\ HostNote' = NextRing(r)
  <1>0. notes \in Seq(Seq(Item)) /\ noteId[r] \in 0..Len(notes) BY DEF TypeInv, TypeOK
  <1>1. CASE noteId[r] = 0
    <2>1. notes' = Append(notes, NextRing(r)) BY <1>1 DEF Flush
    <2>2. CASE notes = <<>>
      <3>1. notes' = <<NextRing(r)>> BY <2>1, <2>2
      <3>2. HostNote' = NextRing(r) /\ HostNote = <<>> BY <2>2, <3>1 DEF HostNote
      <3>3. ring[r] = <<>> BY <1>1 DEF OwnInv
      <3> QED BY <3>2, <3>3
    <2>3. CASE notes # <<>>
      <3>1. notes' # <<>> /\ notes'[1] = notes[1]
        <4>1. NextRing(r) \in Seq(Item) BY RingKept
        <4>2. /\ Len(notes') = Len(notes) + 1 /\ notes' \in Seq(Seq(Item))
              /\ \A k \in 1..Len(notes) : notes'[k] = notes[k]
          BY <1>0, <2>1, <4>1, AppendProperties
        <4>3. Len(notes) \in Nat \ {0} BY <1>0, <2>3, EmptySeq
        <4> QED BY <4>2, <4>3
      <3>2. HostNote' = HostNote BY <2>3, <3>1 DEF HostNote
      <3>3. overlapped
        <4>1. Live(r) /\ ~cold[r] BY DEF Flush, Live, OwnInv, TypeInv
        <4>2. ~overlapped => Knows(r) BY <4>1 DEF LifeInv, OneLife
        <4> QED BY <1>1, <2>3, <4>2 DEF Knows
      <3> QED BY <3>2, <3>3
    <2> QED BY <2>2, <2>3
  <1>2. CASE noteId[r] # 0
    <2>1. notes' = [notes EXCEPT ![noteId[r]] = NextRing(r)] BY <1>2 DEF Flush
    <2>2. noteId[r] \in 1..Len(notes) /\ Len(notes) \in Nat /\ DOMAIN notes = 1..Len(notes)
      BY <1>0, <1>2
    <2>3. notes # <<>> /\ notes' # <<>> /\ 1 \in DOMAIN notes
      <3>1. notes # <<>> /\ 1 \in DOMAIN notes BY <2>2
      <3>2. DOMAIN notes' = DOMAIN notes BY <2>1
      <3> QED BY <3>1, <3>2
    <2>4. HostNote = notes[1] /\ HostNote' = notes'[1] BY <2>3 DEF HostNote
    <2>5. notes'[1] = NextRing(r) \/ notes'[1] = notes[1] BY <2>1, <2>3
    <2>6. ASSUME ~overlapped PROVE notes[1] = ring[r] /\ notes'[1] = NextRing(r)
      <3>1. Live(r) /\ ~cold[r] BY DEF Flush, Live, OwnInv, TypeInv
      <3>2. Knows(r) BY <2>6, <3>1 DEF LifeInv, OneLife
      <3>3. Len(notes) = 1 /\ ring[r] = notes[1] BY <1>2, <3>2 DEF Knows
      <3>4. noteId[r] = 1 BY <2>2, <3>3
      <3> QED BY <2>1, <2>3, <3>3, <3>4
    <2> QED BY <2>4, <2>5, <2>6
  <1> QED BY <1>1, <1>2

(* The note keeps the board: every step is a post, a write that only adds, *)
(* one of overlapping runs that may replace, or leaves both alone.         *)
THEOREM HostKeepsBoard == Spec => ImplementsBoard
  <1>1. Init => Board!Init
    BY DEF Init, Board!Init, HostNote
  <1>2. TypeInv /\ OwnInv /\ LifeInv /\ SeqInv /\ AskedInv /\ AskedInv' /\ OnceInv /\ [Next]_vars
          => [Board!Next]_Board!vars
    <2> SUFFICES ASSUME TypeInv, OwnInv, LifeInv, SeqInv, AskedInv, AskedInv', OnceInv, [Next]_vars
                 PROVE  Board!Next \/ UNCHANGED Board!vars
      OBVIOUS
    <2>0. /\ notes \in Seq(Seq(Item)) /\ ring \in [Runs -> Seq(Item)] /\ seq \in [Runs -> Nat]
          /\ queue \in [Runs -> Seq(Asks)] /\ ans \in [Runs -> SUBSET Asks]
          /\ posted \in [Guests -> 0..MaxTurn]
      BY DEF TypeInv, TypeOK
    <2>1. ASSUME NEW g \in Guests, Post(g) PROVE Board!Next
      <3>1. posted' = [posted EXCEPT ![g] = @ + 1] /\ UNCHANGED <<notes, overlapped>>
        BY <2>1 DEF Post
      <3>2. Board!Post(g) BY <3>1 DEF Board!Post, HostNote
      <3> QED BY <3>1, <3>2 DEF Board!Next
    <2>2. ASSUME NEW r \in Runs, StartRun(r) PROVE Board!Next
      BY <2>2 DEF StartRun, Board!Next, HostNote, guestVars
    <2>3. ASSUME NEW r \in Runs, Flush(r) PROVE Board!Next
      <3>1. UNCHANGED <<posted, overlapped>> BY <2>3 DEF Flush, guestVars
      <3>2. /\ HostNote' = HostNote \/ HostNote' = NextRing(r)
            /\ ~overlapped => HostNote = ring[r] /\ HostNote' = NextRing(r)
        BY <2>3, FlushedBoard
      <3>3. NextRing(r) \in Seq(Item) /\ Len(NextRing(r)) <= RingMax BY RingKept
      <3>4. \A a \in PostedAsks : Board!IsPosted(a)
        <4> SUFFICES ASSUME NEW a \in Asks, a[2] <= posted[a[1]] PROVE Board!IsPosted(a)
          BY DEF PostedAsks
        <4>1. a[1] \in Guests /\ a[2] \in 1..MaxTurn BY DEF Asks
        <4> QED BY <2>0, <4>1, SignalerAssumption DEF Board!IsPosted
      <3>5. CASE HostNote' = HostNote BY <3>1, <3>5 DEF Board!Next
      <3>6. CASE overlapped /\ HostNote' = NextRing(r)
        <4>1. AsksOf(NextRing(r)) \subseteq PostedAsks BY NextRingAsks DEF AskedInv, OwnInv
        <4>2. \A i \in DOMAIN NextRing(r) : Board!IsPosted(NextRing(r)[i].ask)
          BY <3>4, <4>1 DEF AsksOf
        <4>3. \A i, j \in DOMAIN NextRing(r) : i < j => NextRing(r)[i].seq < NextRing(r)[j].seq
          BY <3>3, NextRingRises DEF Rising
        <4>4. \A a : Board!IsPosted(a)' <=> Board!IsPosted(a) BY <3>1 DEF Board!IsPosted
        <4>5. Board!Replace BY <3>1, <3>3, <3>6, <4>2, <4>3 DEF Board!Replace
        <4> QED BY <3>1, <3>3, <3>6, <4>5 DEF Board!Next
      <3>7. CASE ~overlapped
        <4>0. HostNote = ring[r] /\ HostNote' = NextRing(r) BY <3>2, <3>7
        <4>1. PICK k \in 0..Len(ring[r]) :
                /\ SubSeq(NextRing(r), 1, Len(ring[r]) - k) = SubSeq(ring[r], k + 1, Len(ring[r]))
                /\ k > 0 => Len(NextRing(r)) = RingMax
                /\ \E o \in Int : \A j \in (Len(ring[r]) - k + 1)..Len(NextRing(r)) :
                     /\ j + o \in 1..Len(queue[r])
                     /\ NextRing(r)[j] = [seq |-> seq[r] + (j + o), ask |-> queue[r][j + o]]
          BY RingKept
        <4>2. PICK o \in Int : \A j \in (Len(ring[r]) - k + 1)..Len(NextRing(r)) :
                /\ j + o \in 1..Len(queue[r])
                /\ NextRing(r)[j] = [seq |-> seq[r] + (j + o), ask |-> queue[r][j + o]]
          BY <4>1
        <4>a. PICK m \in Nat : m = Len(ring[r]) BY <2>0
        <4>b. m - k \in Nat BY <4>a
        <4>3. PICK n \in Nat : n = Len(ring[r]) - k BY <4>a, <4>b
        <4>4. PICK len \in Nat : len = Len(NextRing(r)) BY <3>3
        <4>5. PICK top \in Nat : top = seq[r] BY <2>0
        <4>6. ASSUME NEW j \in (n + 1)..len
              PROVE  /\ j + o \in 1..Len(queue[r]) /\ j + o > 0
                     /\ NextRing(r)[j].seq = top + (j + o) /\ NextRing(r)[j].ask = queue[r][j + o]
          <5>1. j \in (Len(ring[r]) - k + 1)..Len(NextRing(r)) BY <4>3, <4>4
          <5>2. /\ j + o \in 1..Len(queue[r])
                /\ NextRing(r)[j] = [seq |-> top + (j + o), ask |-> queue[r][j + o]]
            BY <4>2, <4>5, <5>1
          <5>3. j + o > 0 BY <5>2
          <5> QED BY <5>2, <5>3
        <4>7. Live(r) BY <2>3 DEF Flush, Live
        <4>8. ASSUME NEW j \in (n + 1)..len
              PROVE  Board!IsPosted(NextRing(r)[j].ask) /\ ~Board!OnBoard(NextRing(r)[j].ask)
          <5>1. NextRing(r)[j].ask \in QueueAsks(r)
            <6>1. DOMAIN queue[r] = 1..Len(queue[r]) BY <2>0
            <6> QED BY <4>6, <6>1 DEF QueueAsks
          <5>2. NextRing(r)[j].ask \in PostedAsks BY <5>1 DEF OwnInv, AskedInv
          <5>3. NextRing(r)[j].ask \notin AsksOf(ring[r]) BY <3>7, <4>7, <5>1 DEF OnceInv
          <5> QED BY <3>4, <4>0, <5>2, <5>3 DEF Board!OnBoard, AsksOf
        <4>9. ASSUME NEW j \in (n + 1)..len, NEW i \in DOMAIN ring[r]
              PROVE  ring[r][i].seq < NextRing(r)[j].seq
          <5>1. ring[r][i] \in Item /\ i \in 1..Len(ring[r]) BY <2>0
          <5>2. ring[r][i].seq \in Nat /\ ring[r][i].seq <= top
            BY <4>5, <5>1 DEF SeqInv, Item
          <5>3. NextRing(r)[j].seq = top + (j + o) /\ j + o > 0 BY <4>6
          <5> QED BY <5>2, <5>3
        <4>10. ASSUME NEW j \in (n + 1)..len, NEW i \in (n + 1)..(j - 1)
               PROVE  /\ NextRing(r)[i].seq < NextRing(r)[j].seq
                      /\ NextRing(r)[i].ask # NextRing(r)[j].ask
          <5>1. i \in (n + 1)..len /\ i < j /\ i + o # j + o OBVIOUS
          <5>2. NextRing(r)[i].seq < NextRing(r)[j].seq
            <6>1. NextRing(r)[i].seq = top + (i + o) /\ NextRing(r)[j].seq = top + (j + o)
              BY <4>6, <5>1
            <6> QED BY <5>1, <6>1
          <5>3. NextRing(r)[i].ask # NextRing(r)[j].ask
            <6>1. /\ i + o \in 1..Len(queue[r]) /\ j + o \in 1..Len(queue[r])
                  /\ NextRing(r)[i].ask = queue[r][i + o] /\ NextRing(r)[j].ask = queue[r][j + o]
              BY <4>6, <5>1
            <6> QED BY <5>1, <6>1 DEF OnceInv, QueuedOnce
          <5> QED BY <5>2, <5>3
        <4>11. Board!Adds(n)
          BY <4>0, <4>4, <4>8, <4>9, <4>10 DEF Board!Adds
        <4>12. Board!Write
          <5>1. /\ SubSeq(HostNote', 1, Len(HostNote) - k) = SubSeq(HostNote, k + 1, Len(HostNote))
                /\ k > 0 => Len(HostNote') = RingMax
                /\ k \in 0..Len(HostNote) /\ n = Len(HostNote) - k
            BY <4>0, <4>1, <4>3
          <5> QED BY <4>11, <5>1 DEF Board!Write
        <4> QED BY <3>1, <3>3, <4>0, <4>12 DEF Board!Next
      <3> QED BY <3>2, <3>5, <3>6, <3>7
    <2>4. ASSUME UNCHANGED <<posted, notes, overlapped>> PROVE UNCHANGED Board!vars
      BY <2>4 DEF Board!vars, HostNote
    <2>5. \/ UNCHANGED <<posted, notes, overlapped>>
          \/ \E g \in Guests : Post(g)
          \/ \E r \in Runs : StartRun(r) \/ Flush(r)
      BY DEF Next, RunStep, NewDay, GrowOld, EndRun, HandedOff, Pull, Answer, SkipFlush,
             BeginFlush, FlushRefused, vars, guestVars
    <2> QED BY <2>1, <2>2, <2>3, <2>4, <2>5
  <1> QED BY <1>1, <1>2, TypeInvariant, OwnInvariant, LifeInvariant, SeqInvariant, AskedInvariant,
             OnceInvariant, PTL DEF Spec, ImplementsBoard, Board!Spec

-----------------------------------------------------------------------------
(* No run loses a turn it has seen: a turn that a poll passes over, and so *)
(* will not see again, is waiting in the drop store or in the queue of the *)
(* wire, or it is settled, and it stays so through answering, refused      *)
(* writes, midnights, adoption and handover. Only a batch longer than the  *)
(* ring, or the end of the run, takes it away.                             *)
Seen(r)      == {a \in Asks : a[2] <= lastSeq[r][a[1]]}
Accounted(r) == req[r] \cup QueueAsks(r) \cup settled
SeenTurnsKept ==
  [][\A r \in Runs : Len(queue[r]) <= RingMax =>
       (Seen(r)' \ Accounted(r)') \subseteq (Seen(r) \ Accounted(r))]_vars

(* What a run holds to be answered is settled, and what it has answered it *)
(* has seen.                                                               *)
KnownInv ==
  /\ \A n \in DOMAIN notes : AsksOf(notes[n]) \subseteq settled
  /\ \A r \in Runs : answered[r] \subseteq settled
  /\ \A r \in Runs : req[r] \subseteq Seen(r) /\ ans[r] \subseteq Seen(r)
  /\ \A r \in Runs, g \in Guests : lastSeq[r][g] <= posted[g]

(* What a poll has not seen is above what it has; it sees all that is      *)
(* posted. And what it adopts as answered is settled.                      *)
LEMMA UnseenIsNew ==
  ASSUME TypeInv, NEW r \in Runs PROVE Unseen(r) \cap Seen(r) = {}
  <1> SUFFICES ASSUME NEW a \in Asks, a[2] \in (lastSeq[r][a[1]] + 1)..posted[a[1]],
                      a[2] <= lastSeq[r][a[1]]
               PROVE  FALSE
    BY DEF Unseen, Seen
  <1>1. a[1] \in Guests BY DEF Asks
  <1>2. lastSeq[r][a[1]] \in Nat /\ posted[a[1]] \in Nat
    BY <1>1, SignalerAssumption DEF TypeInv, TypeOK
  <1> QED BY <1>2

LEMMA SeenGrows ==
  ASSUME TypeInv, KnownInv, NEW r \in Runs, Pull(r)
  PROVE  /\ Seen(r)' \subseteq Seen(r) \cup Unseen(r)
         /\ Unseen(r) \subseteq Seen(r)' /\ Seen(r) \subseteq Seen(r)'
         /\ \A s \in Runs : s # r => Seen(s)' = Seen(s)
  <1>0. lastSeq \in [Runs -> [Guests -> 0..MaxTurn]] /\ posted \in [Guests -> 0..MaxTurn]
        /\ MaxTurn \in Nat
    BY SignalerAssumption DEF TypeInv, TypeOK
  <1>1. lastSeq' = [lastSeq EXCEPT ![r] = posted] BY DEF Pull
  <1>2. lastSeq'[r] = posted /\ \A s \in Runs : s # r => lastSeq'[s] = lastSeq[s] BY <1>0, <1>1
  <1>3. Seen(r)' = {a \in Asks : a[2] <= posted[a[1]]} BY <1>2 DEF Seen
  <1>4. ASSUME NEW a \in Asks
        PROVE  a[2] \in Nat /\ lastSeq[r][a[1]] \in Nat /\ posted[a[1]] \in Nat
               /\ lastSeq[r][a[1]] <= posted[a[1]]
    <2>1. a[1] \in Guests /\ a[2] \in 1..MaxTurn BY DEF Asks
    <2> QED BY <1>0, <2>1 DEF KnownInv
  <1>5. ASSUME NEW a \in Asks
        PROVE  /\ a[2] <= posted[a[1]]
                    => a[2] <= lastSeq[r][a[1]] \/ a[2] \in (lastSeq[r][a[1]] + 1)..posted[a[1]]
               /\ a[2] \in (lastSeq[r][a[1]] + 1)..posted[a[1]] => a[2] <= posted[a[1]]
               /\ a[2] <= lastSeq[r][a[1]] => a[2] <= posted[a[1]]
    BY <1>4
  <1>6. \A s \in Runs : s # r => Seen(s)' = Seen(s) BY <1>2 DEF Seen
  <1> QED BY <1>3, <1>5, <1>6 DEF Seen, Unseen

LEMMA AnsweredSettled ==
  ASSUME TypeInv, KnownInv, NEW r \in Runs, Pull(r), settled \subseteq settled'
  PROVE  \A s \in Runs : answered'[s] \subseteq settled'
  <1>0. answered \in [Runs -> SUBSET Asks] /\ notes \in Seq(Seq(Item)) BY DEF TypeInv, TypeOK
  <1>1. CASE noteId[r] = 0 /\ notes # <<>>
    <2>1. answered' = [answered EXCEPT ![r] = AsksOf(Recent(notes[1]))]
      BY <1>1 DEF Pull, AdoptNote, AdoptedRing
    <2>2. 1 \in DOMAIN notes /\ notes[1] \in Seq(Item) BY <1>0, <1>1
    <2>3. AsksOf(Recent(notes[1])) \subseteq settled BY <2>2, RecentAsks DEF KnownInv
    <2> QED BY <1>0, <2>1, <2>3 DEF KnownInv
  <1>2. CASE ~(noteId[r] = 0 /\ notes # <<>>)
    <2>1. answered' = answered BY <1>2 DEF Pull, AdoptNote
    <2> QED BY <2>1 DEF KnownInv
  <1> QED BY <1>1, <1>2

LEMMA QueueAppend ==
  ASSUME NEW r \in Runs, NEW a \in Asks, queue[r] \in Seq(Asks), queue'[r] = Append(queue[r], a)
  PROVE  QueueAsks(r)' = QueueAsks(r) \cup {a}
  <1>1. PICK m \in Nat : m = Len(queue[r]) OBVIOUS
  <1>2. /\ Append(queue[r], a) \in Seq(Asks) /\ Len(Append(queue[r], a)) = m + 1
        /\ \A i \in 1..m : Append(queue[r], a)[i] = queue[r][i]
        /\ Append(queue[r], a)[m + 1] = a
    BY <1>1, AppendProperties
  <1>3. DOMAIN queue[r] = 1..m /\ DOMAIN queue'[r] = 1..(m + 1) BY <1>1, <1>2
  <1> QED BY <1>2, <1>3 DEF QueueAsks

LEMMA KnownInvariant == Spec => []KnownInv
  <1>1. Init => KnownInv
    <2> SUFFICES ASSUME Init PROVE KnownInv OBVIOUS
    <2>1. notes = <<>> /\ DOMAIN notes = {} BY DEF Init
    <2>2. \A r \in Runs : answered[r] = {} /\ req[r] = {} /\ ans[r] = {} BY DEF Init
    <2>3. \A r \in Runs, g \in Guests : lastSeq[r][g] = 0 /\ posted[g] = 0 BY DEF Init
    <2> QED BY <2>1, <2>2, <2>3 DEF KnownInv
  <1>2. TypeInv /\ KnownInv /\ [Next]_vars => KnownInv'
    <2> SUFFICES ASSUME TypeInv, KnownInv, [Next]_vars PROVE KnownInv' OBVIOUS
    <2>0. /\ req \in [Runs -> SUBSET Asks] /\ ans \in [Runs -> SUBSET Asks]
          /\ answered \in [Runs -> SUBSET Asks] /\ notes \in Seq(Seq(Item))
          /\ posted \in [Guests -> 0..MaxTurn] /\ lastSeq \in [Runs -> [Guests -> 0..MaxTurn]]
          /\ MaxTurn \in Nat
      BY SignalerAssumption DEF TypeInv, TypeOK
    <2>1. ASSUME UNCHANGED <<notes, answered, req, ans, lastSeq, posted, settled>> PROVE KnownInv'
      BY <2>1 DEF KnownInv, Seen, AsksOf
    <2>2. ASSUME NEW g \in Guests, Post(g) PROVE KnownInv'
      <3>1. /\ posted' = [posted EXCEPT ![g] = @ + 1]
            /\ UNCHANGED <<notes, answered, req, ans, lastSeq, settled>>
        BY <2>2 DEF Post, wireVars, storeVars
      <3>2. \A h \in Guests : posted[h] \in Nat /\ posted[h] <= posted'[h] /\ posted'[h] \in Nat
        BY <2>0, <3>1
      <3>3. ASSUME NEW s \in Runs, NEW h \in Guests PROVE lastSeq[s][h] <= posted'[h]
        <4>1. lastSeq[s][h] \in Nat /\ lastSeq[s][h] <= posted[h] BY <2>0 DEF KnownInv
        <4> QED BY <3>2, <4>1
      <3> QED BY <3>1, <3>3 DEF KnownInv, Seen, AsksOf
    <2>3. ASSUME NEW r \in Runs, Pull(r) PROVE KnownInv'
      <3>1. /\ lastSeq' = [lastSeq EXCEPT ![r] = posted] /\ UNCHANGED <<posted, notes, ans>>
            /\ req' = [req EXCEPT ![r] =
                         @ \cup (((Unseen(r) \ Skipped(r)) \ answered'[r]) \ ans[r])]
            /\ settled' = settled \cup Skipped(r)
        BY <2>3 DEF Pull, guestVars
      <3>2. Unseen(r) \subseteq Seen(r)' /\ Seen(r) \subseteq Seen(r)'
            /\ \A s \in Runs : s # r => Seen(s)' = Seen(s)
        BY <2>3, SeenGrows
      <3>3. \A s \in Runs : req'[s] \subseteq Seen(s)' /\ ans'[s] \subseteq Seen(s)'
        BY <2>0, <3>1, <3>2 DEF KnownInv
      <3>4. \A s \in Runs : answered'[s] \subseteq settled'
        BY <2>3, <3>1, AnsweredSettled
      <3>5. \A s \in Runs, g \in Guests : lastSeq'[s][g] <= posted'[g]
        BY <2>0, <3>1 DEF KnownInv
      <3>6. \A n \in DOMAIN notes' : AsksOf(notes'[n]) \subseteq settled' BY <3>1 DEF KnownInv
      <3> QED BY <3>3, <3>4, <3>5, <3>6 DEF KnownInv, AsksOf
    <2>4. ASSUME NEW r \in Runs, Answer(r) PROVE KnownInv'
      <3>1. PICK a \in req[r] :
              req' = [req EXCEPT ![r] = @ \ {a}] /\ ans' = [ans EXCEPT ![r] = @ \cup {a}]
        BY <2>4 DEF Answer
      <3>2. UNCHANGED <<notes, answered, lastSeq, posted, settled>>
        BY <2>4 DEF Answer, guestVars, wireVars
      <3>3. \A s \in Runs : req'[s] \subseteq Seen(s) /\ ans'[s] \subseteq Seen(s)
        BY <2>0, <3>1 DEF KnownInv
      <3>4. \A s \in Runs : Seen(s)' = Seen(s) BY <3>2 DEF Seen
      <3> QED BY <3>2, <3>3, <3>4 DEF KnownInv, AsksOf
    <2>5. ASSUME NEW r \in Runs, Flush(r) PROVE KnownInv'
      <3>1. /\ settled' = settled \cup AsksOf(NextRing(r))
            /\ UNCHANGED <<posted, req, ans, lastSeq, answered>>
        BY <2>5 DEF Flush, guestVars, storeVars
      <3>2. \A n \in DOMAIN notes' : AsksOf(notes'[n]) \subseteq settled'
        BY <2>5, <3>1, FlushedNotes DEF KnownInv
      <3>3. \A s \in Runs : Seen(s)' = Seen(s) BY <3>1 DEF Seen
      <3> QED BY <3>1, <3>2, <3>3 DEF KnownInv, AsksOf
    <2>6. \/ UNCHANGED <<notes, answered, req, ans, lastSeq, posted, settled>>
          \/ \E g \in Guests : Post(g)
          \/ \E r \in Runs : Pull(r) \/ Answer(r) \/ Flush(r)
      BY DEF Next, RunStep, NewDay, GrowOld, StartRun, EndRun, HandedOff, SkipFlush,
             BeginFlush, FlushRefused, vars, guestVars, wireVars, storeVars
    <2> QED BY <2>1, <2>2, <2>3, <2>4, <2>5, <2>6
  <1> QED BY <1>1, <1>2, TypeInvariant, PTL DEF Spec

(* A batch that fits the ring is in the note it is written to, whole.      *)
LEMMA BatchShown ==
  ASSUME TypeInv, NEW r \in Runs, Len(queue[r]) <= RingMax
  PROVE  QueueAsks(r) \subseteq AsksOf(NextRing(r))
  <1>1. ring[r] \in Seq(Item) /\ queue[r] \in Seq(Asks) /\ seq[r] \in Nat BY DEF TypeInv, TypeOK
  <1>2. PICK all \in Seq(Item) :
          /\ NextRing(r) = Recent(all)
          /\ Len(all) = Len(ring[r]) + Len(queue[r])
          /\ \A i \in 1..Len(queue[r]) :
               all[Len(ring[r]) + i] = [seq |-> seq[r] + i, ask |-> queue[r][i]]
    BY <1>1, NextRingElements
  <1>3. PICK m \in Nat : m = Len(ring[r]) BY <1>1
  <1>4. PICK q \in Nat : q = Len(queue[r]) BY <1>1
  <1>5. PICK n \in Nat : n = m + q OBVIOUS
  <1>n. Len(all) = n BY <1>2, <1>3, <1>4, <1>5
  <1>6. (IF n > RingMax THEN n - RingMax ELSE 0) \in Nat BY SignalerAssumption
  <1>7. PICK c \in Nat : c = IF n > RingMax THEN n - RingMax ELSE 0 BY <1>6
  <1>8. /\ Recent(all) \in Seq(Item) /\ Len(Recent(all)) = IF n > RingMax THEN RingMax ELSE n
        /\ \A i \in 1..Len(Recent(all)) : Recent(all)[i] = all[i + c]
    BY <1>n, <1>7, RecentElements
  <1>9. Len(Recent(all)) = n - c /\ c <= m
    BY <1>4, <1>5, <1>7, <1>8, SignalerAssumption
  <1>10. ASSUME NEW i \in 1..q PROVE queue[r][i] \in AsksOf(NextRing(r))
    <2>1. m + i - c \in 1..(n - c) /\ (m + i - c) + c = m + i BY <1>5, <1>9
    <2>2. m + i - c \in DOMAIN NextRing(r) BY <1>2, <1>8, <1>9, <2>1
    <2>3. NextRing(r)[m + i - c] = [seq |-> seq[r] + i, ask |-> queue[r][i]]
      <3>1. Recent(all)[m + i - c] = all[(m + i - c) + c] BY <1>8, <1>9, <2>1
      <3>2. all[m + i] = [seq |-> seq[r] + i, ask |-> queue[r][i]] BY <1>2, <1>3, <1>4
      <3> QED BY <1>2, <2>1, <3>1, <3>2
    <2>4. NextRing(r)[m + i - c].ask = queue[r][i] BY <2>3
    <2> QED BY <2>2, <2>4 DEF AsksOf
  <1>11. DOMAIN queue[r] = 1..q BY <1>1, <1>4
  <1> QED BY <1>10, <1>11 DEF QueueAsks

(* A poll takes every unseen turn into the store unless it is skipped, or  *)
(* answered already; an answer moves it to the queue, a write to the note. *)
THEOREM NoSeenTurnLost == Spec => SeenTurnsKept
  <1> DEFINE Kept == \A r \in Runs : Len(queue[r]) <= RingMax =>
                       (Seen(r)' \ Accounted(r)') \subseteq (Seen(r) \ Accounted(r))
  <1>1. TypeInv /\ KnownInv /\ [Next]_vars => Kept
    <2> SUFFICES ASSUME TypeInv, KnownInv, [Next]_vars, NEW r \in Runs, Len(queue[r]) <= RingMax
                 PROVE  (Seen(r)' \ Accounted(r)') \subseteq (Seen(r) \ Accounted(r))
      OBVIOUS
    <2>0. /\ req \in [Runs -> SUBSET Asks] /\ ans \in [Runs -> SUBSET Asks]
          /\ queue \in [Runs -> Seq(Asks)]
          /\ posted \in [Guests -> 0..MaxTurn] /\ lastSeq \in [Runs -> [Guests -> 0..MaxTurn]]
      BY DEF TypeInv, TypeOK
    <2>1. ASSUME Seen(r)' = Seen(r), Accounted(r) \subseteq Accounted(r)'
          PROVE  (Seen(r)' \ Accounted(r)') \subseteq (Seen(r) \ Accounted(r))
      BY <2>1
    <2>2. ASSUME UNCHANGED <<lastSeq, req, queue>>, settled \subseteq settled'
          PROVE  (Seen(r)' \ Accounted(r)') \subseteq (Seen(r) \ Accounted(r))
      <3>1. Seen(r)' = Seen(r) /\ QueueAsks(r)' = QueueAsks(r) BY <2>2 DEF Seen, QueueAsks
      <3>2. Accounted(r) \subseteq Accounted(r)' BY <2>2, <3>1 DEF Accounted
      <3> QED BY <2>1, <3>1, <3>2
    <2>3. ASSUME NEW s \in Runs, Pull(s)
          PROVE  (Seen(r)' \ Accounted(r)') \subseteq (Seen(r) \ Accounted(r))
      <3>1. /\ lastSeq' = [lastSeq EXCEPT ![s] = posted] /\ UNCHANGED queue
            /\ req' = [req EXCEPT ![s] =
                         @ \cup (((Unseen(s) \ Skipped(s)) \ answered'[s]) \ ans[s])]
            /\ settled' = settled \cup Skipped(s)
        BY <2>3 DEF Pull
      <3>2. QueueAsks(r)' = QueueAsks(r) /\ req[r] \subseteq req'[r] BY <2>0, <3>1 DEF QueueAsks
      <3>3. Accounted(r) \subseteq Accounted(r)' BY <3>1, <3>2 DEF Accounted
      <3>4. CASE s # r
        <4>1. Seen(r)' = Seen(r) BY <2>0, <3>1, <3>4 DEF Seen
        <4> QED BY <2>1, <3>3, <4>1
      <3>5. CASE s = r
        <4>1. answered'[r] \subseteq settled' BY <2>3, <3>1, <3>5, AnsweredSettled
        <4>2. Unseen(r) \cap ans[r] = {} BY UnseenIsNew DEF KnownInv
        <4>3. Unseen(r) \subseteq Accounted(r)'
          BY <2>0, <3>1, <3>5, <4>1, <4>2 DEF Accounted
        <4>4. Seen(r)' \subseteq Seen(r) \cup Unseen(r) BY <2>3, <3>5, SeenGrows
        <4> QED BY <3>3, <4>3, <4>4
      <3> QED BY <3>4, <3>5
    <2>4. ASSUME NEW s \in Runs, Answer(s)
          PROVE  (Seen(r)' \ Accounted(r)') \subseteq (Seen(r) \ Accounted(r))
      <3>1. PICK a \in req[s] :
              /\ req' = [req EXCEPT ![s] = @ \ {a}]
              /\ queue' = [queue EXCEPT ![s] = Append(@, a)]
        BY <2>4 DEF Answer
      <3>2. UNCHANGED <<lastSeq, settled>> BY <2>4 DEF Answer, wireVars
      <3>3. Seen(r)' = Seen(r) BY <3>2 DEF Seen
      <3>4. CASE s # r
        <4>1. req'[r] = req[r] /\ queue'[r] = queue[r] BY <2>0, <3>1, <3>4
        <4>2. QueueAsks(r)' = QueueAsks(r) BY <4>1 DEF QueueAsks
        <4> QED BY <2>1, <3>2, <3>3, <4>1, <4>2 DEF Accounted
      <3>5. CASE s = r
        <4>1. a \in Asks /\ queue'[r] = Append(queue[r], a) /\ req'[r] = req[r] \ {a}
          BY <2>0, <3>1, <3>5
        <4>2. QueueAsks(r)' = QueueAsks(r) \cup {a} BY <2>0, <4>1, QueueAppend
        <4>3. Accounted(r) \subseteq Accounted(r)' BY <3>2, <4>1, <4>2 DEF Accounted
        <4> QED BY <2>1, <3>3, <4>3
      <3> QED BY <3>4, <3>5
    <2>5. ASSUME NEW s \in Runs, Flush(s)
          PROVE  (Seen(r)' \ Accounted(r)') \subseteq (Seen(r) \ Accounted(r))
      <3>1. /\ settled' = settled \cup AsksOf(NextRing(s)) /\ UNCHANGED <<req, lastSeq>>
            /\ queue' = [queue EXCEPT ![s] = <<>>]
        BY <2>5 DEF Flush, storeVars
      <3>2. Seen(r)' = Seen(r) BY <3>1 DEF Seen
      <3>3. CASE s # r
        <4>1. QueueAsks(r)' = QueueAsks(r)
          <5>1. queue'[r] = queue[r] BY <2>0, <3>1, <3>3
          <5> QED BY <5>1 DEF QueueAsks
        <4> QED BY <2>1, <3>1, <3>2, <4>1 DEF Accounted
      <3>4. CASE s = r
        <4>1. QueueAsks(r) \subseteq settled' BY <3>1, <3>4, BatchShown
        <4>2. Accounted(r) \subseteq Accounted(r)' BY <3>1, <4>1 DEF Accounted
        <4> QED BY <2>1, <3>2, <4>2
      <3> QED BY <3>3, <3>4
    <2>6. \/ UNCHANGED <<lastSeq, req, queue, settled>>
          \/ \E s \in Runs : Pull(s) \/ Answer(s) \/ Flush(s)
      BY DEF Next, RunStep, NewDay, Post, GrowOld, StartRun, EndRun, HandedOff, SkipFlush,
             BeginFlush, FlushRefused, vars, wireVars, storeVars
    <2> QED BY <2>2, <2>3, <2>4, <2>5, <2>6
  <1> QED BY <1>1, TypeInvariant, KnownInvariant, PTL DEF Spec, SeenTurnsKept
=============================================================================
