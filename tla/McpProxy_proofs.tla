---------------------------- MODULE McpProxy_proofs ----------------------------
(***************************************************************************)
(* Theorems about McpProxy, for any set of lines and any number of cores,  *)
(* executables and crashes.                                                *)
(***************************************************************************)
EXTENDS McpProxy, TLAPS

(* A swap works with the stamp of some executable.                         *)
TypeInv == TypeOK /\ (swap # "idle" => stamp >= 1)

LEMMA Types ==
  ASSUME TypeInv
  PROVE  /\ core \in [Cores -> {"none", "run", "eof", "dead"}]
         /\ active \in 0..cores /\ old \in 0..cores /\ cores \in Cores
         /\ active # 0 => active \in Cores
         /\ old # 0 => old \in Cores
         /\ todo \in [Cores -> Lines] /\ hand \in [Cores -> Reqs \cup {NoReq}]
         /\ replies \in Lines /\ sent \subseteq Reqs
         /\ inflight \subseteq sent /\ oldInflight \subseteq sent
         /\ inflight \subseteq Reqs /\ oldInflight \subseteq Reqs
         /\ \A c \in Cores, q \in Reqs : todo[c][q] \in Nat /\ replies[q] \in Nat
  <1>1. /\ active \in 0..cores /\ old \in 0..cores /\ cores \in Cores
        /\ active # 0 => active \in Cores
        /\ old # 0 => old \in Cores
    BY ProxyAssumption DEF TypeInv, TypeOK, Cores
  <1>2. todo \in [Cores -> Lines] /\ replies \in Lines BY DEF TypeInv, TypeOK
  <1>3. \A c \in Cores, q \in Reqs : todo[c][q] \in Nat /\ replies[q] \in Nat
    BY <1>2 DEF Lines
  <1> QED BY <1>1, <1>2, <1>3 DEF TypeInv, TypeOK

LEMMA GivenLines ==
  ASSUME TypeInv, NEW c \in 0..cores, NEW S \in SUBSET Reqs
  PROVE  /\ Given(c, S) \in [Cores -> Lines]
         /\ \A d \in Cores, q \in Reqs :
              /\ Given(c, S)[d][q] >= todo[d][q]
              /\ q \notin S => Given(c, S)[d][q] = todo[d][q]
              /\ d # c => Given(c, S)[d][q] = todo[d][q]
              /\ Given(c, S)[d][q] <= todo[d][q] + 1
              /\ d = c /\ core[c] = "run" /\ q \in S => Given(c, S)[d][q] > 0
  <1>1. \A d \in Cores, q \in Reqs : todo[d][q] \in Nat BY Types
  <1>2. c # 0 => c \in Cores BY ProxyAssumption DEF TypeInv, TypeOK, Cores
  <1>3. CASE c # 0 /\ core[c] = "run"
    <2> DEFINE row == [q \in Reqs |-> todo[c][q] + IF q \in S THEN 1 ELSE 0]
    <2>1. Given(c, S) = [todo EXCEPT ![c] = row] BY <1>3 DEF Given
    <2>a. \A q \in Reqs : todo[c][q] + (IF q \in S THEN 1 ELSE 0) \in Nat BY <1>1, <1>2, <1>3
    <2>2. row \in Lines BY <2>a DEF Lines
    <2>3. Given(c, S) \in [Cores -> Lines] BY <2>1, <2>2 DEF TypeInv, TypeOK
    <2>4. ASSUME NEW d \in Cores, d # c PROVE Given(c, S)[d] = todo[d]
      BY <2>1, <2>4 DEF TypeInv, TypeOK
    <2>5. Given(c, S)[c] = row BY <1>2, <1>3, <2>1 DEF TypeInv, TypeOK
    <2>6. \A q \in Reqs : row[q] = IF q \in S THEN todo[c][q] + 1 ELSE todo[c][q]
      BY <1>1, <1>2, <1>3
    <2> HIDE DEF row
    <2> QED BY <1>1, <2>3, <2>4, <2>5, <2>6
  <1>4. CASE ~(c # 0 /\ core[c] = "run")
    <2>1. Given(c, S) = todo BY <1>4 DEF Given
    <2>2. \A d \in Cores : d # 0 BY DEF Cores
    <2> QED BY <1>1, <1>4, <2>1, <2>2 DEF TypeInv, TypeOK
  <1> QED BY <1>3, <1>4

LEMMA TypeInvariant == Spec => []TypeInv
  <1>1. Init => TypeInv
    <2> SUFFICES ASSUME Init PROVE TypeInv OBVIOUS
    <2>1. NoLines \in Lines BY DEF NoLines, Lines
    <2>2. todo \in [Cores -> Lines] /\ replies \in Lines BY <2>1 DEF Init
    <2>3. 1 \in Cores /\ cores = 1 BY ProxyAssumption DEF Init, Cores
    <2>4. core \in [Cores -> {"none", "run", "eof", "dead"}] BY DEF Init
    <2>5. hand \in [Cores -> Reqs \cup {NoReq}] BY DEF Init
    <2>6. exe \in 1..(MaxStamp + 1) /\ stamp \in 0..exe /\ activeStamp \in 1..exe
          /\ failedStamp \in 0..exe /\ crashes \in 0..MaxCrash
      BY ProxyAssumption DEF Init
    <2>7. ver \in [Cores -> 0..exe] BY DEF Init
    <2> QED BY <2>2, <2>3, <2>4, <2>5, <2>6, <2>7 DEF Init, TypeInv, TypeOK
  <1>2. TypeInv /\ [Next]_vars => TypeInv'
    <2> SUFFICES ASSUME TypeInv, [Next]_vars PROVE TypeInv' OBVIOUS
    <2> USE ProxyAssumption DEF TypeInv, Cores
    <2>1. ASSUME NEW q \in Reqs, Send(q) PROVE TypeInv'
      <3>1. Given(active, {q}) \in [Cores -> Lines] BY GivenLines DEF TypeOK
      <3> QED BY <2>1, <3>1 DEF Send, TypeOK, swapVars, stampVars
    <2>2. CASE StdinEof
      BY <2>2 DEF StdinEof, Closed, TypeOK, mapVars, swapVars, stampVars, history
    <2>3. ASSUME NEW c \in Cores, CoreExits(c) PROVE TypeInv'
      BY <2>3 DEF CoreExits, TypeOK, clientVars, mapVars, swapVars, stampVars, history
    <2>4. ASSUME NEW c \in Cores, CoreCrashes(c) PROVE TypeInv'
      BY <2>4 DEF CoreCrashes, TypeOK, clientVars, mapVars, swapVars, stampVars, history
    <2>5. ASSUME NEW c \in Cores, RelayTake(c) PROVE TypeInv'
      <3>1. PICK q \in Reqs :
              /\ todo[c][q] > 0
              /\ todo' = [todo EXCEPT ![c][q] = @ - 1]
              /\ hand' = [hand EXCEPT ![c] = q]
              /\ inflight' = inflight \ {q} /\ oldInflight' = oldInflight \ {q}
        BY <2>5 DEF RelayTake
      <3>2. todo[c] \in Lines /\ todo[c][q] - 1 \in Nat BY <3>1 DEF TypeOK, Lines
      <3>3. [todo[c] EXCEPT ![q] = todo[c][q] - 1] \in Lines BY <3>2 DEF Lines
      <3>4. todo' = [todo EXCEPT ![c] = [todo[c] EXCEPT ![q] = todo[c][q] - 1]]
        BY <3>1 DEF TypeOK
      <3>5. todo' \in [Cores -> Lines] BY <3>3, <3>4 DEF TypeOK
      <3> HIDE DEF Cores
      <3>6. hand' \in [Cores -> Reqs \cup {NoReq}] BY <3>1 DEF TypeOK
      <3>7. inflight' \subseteq sent /\ oldInflight' \subseteq sent BY <3>1 DEF TypeOK
      <3> QED BY <2>5, <3>5, <3>6, <3>7 DEF RelayTake, TypeOK, clientVars, swapVars, stampVars, history
    <2>6. ASSUME NEW c \in Cores, RelayForward(c) PROVE TypeInv'
      <3>1. replies' \in Lines BY <2>6 DEF RelayForward, TypeOK, Lines
      <3> QED BY <2>6, <3>1 DEF RelayForward, TypeOK, mapVars, coreVars, swapVars, stampVars, history
    <2>7. CASE MainReturns
      BY <2>7 DEF MainReturns, TypeOK, clientVars, mapVars, coreVars, swapVars, stampVars, history
    <2>8. CASE Publish
      BY <2>8 DEF Publish, TypeOK, clientVars, mapVars, coreVars, swapVars, history
    <2>18. CASE MoveAway
      BY <2>18 DEF MoveAway, TypeOK, clientVars, mapVars, coreVars, swapVars, history
    <2>19. CASE Promote
      BY <2>19 DEF Promote, TypeOK, clientVars, mapVars, coreVars, swapVars, history
    <2>9. CASE Fire
      <3> HIDE DEF Cores
      <3>1. \/ swap' = swap /\ stamp' = stamp
            \/ swap' = "move" /\ stamp' = exe
        <4>1. CASE ~present \/ exe \in {activeStamp, failedStamp} BY <2>9, <4>1 DEF Fire
        <4>2. CASE ~(~present \/ exe \in {activeStamp, failedStamp}) /\ swap # "idle"
          BY <2>9, <4>2 DEF Fire
        <4>3. CASE ~(~present \/ exe \in {activeStamp, failedStamp}) /\ swap = "idle"
          BY <2>9, <4>3 DEF Fire
        <4> QED BY <4>1, <4>2, <4>3
      <3>2. swap' \in {"idle", "move", "spawn", "drain", "close"} BY <3>1 DEF TypeOK
      <3>3. exe' = exe /\ stamp' \in 0..exe /\ (swap' # "idle" => stamp' >= 1)
        BY <2>9, <3>1 DEF Fire, TypeOK
      <3>4. missed' \in {"no", "swap", "rename"} /\ armed' \in BOOLEAN BY <2>9 DEF Fire, TypeOK
      <3>5. UNCHANGED <<clientVars, mapVars, active, old, coreVars, hand, activeStamp, failedStamp,
                        exe, present, ver, ended, history>>
        BY <2>9 DEF Fire
      <3>6. TypeOK' BY <3>2, <3>3, <3>4, <3>5 DEF TypeOK, clientVars, mapVars, coreVars, history
      <3> QED BY <3>3, <3>6
    <2>10. CASE Move
      BY <2>10 DEF Move, TypeOK, clientVars, coreVars, stampVars, history
    <2>11. CASE PipeFails
      BY <2>11 DEF PipeFails, TypeOK, clientVars, mapVars, coreVars, stampVars
    <2>12. CASE SpawnFails
      BY <2>12 DEF SpawnFails, TypeOK, clientVars, coreVars, stampVars
    <2>13. CASE Activate
      <3>1. [q \in Reqs |-> IF q \in remembered THEN 1 ELSE 0] \in Lines BY DEF Lines
      <3>2. todo' \in [Cores -> Lines] BY <2>13, <3>1 DEF Activate, TypeOK
      <3> QED BY <2>13, <3>2 DEF Activate, TypeOK, clientVars, mapVars, history
    <2>14. CASE Drained
      BY <2>14 DEF Drained, TypeOK, clientVars, mapVars, coreVars, stampVars, history
    <2>15. CASE DrainTimeout
      <3>1. Given(active, oldInflight) \in [Cores -> Lines] BY GivenLines DEF TypeOK
      <3> QED BY <2>15, <3>1 DEF DrainTimeout, TypeOK, clientVars, stampVars
    <2>16. CASE CloseOld
      BY <2>16 DEF CloseOld, Closed, TypeOK, clientVars, mapVars, stampVars, history
    <2>17. CASE UNCHANGED vars
      BY <2>17 DEF vars, TypeOK, clientVars, mapVars, coreVars, swapVars, stampVars, history
    <2> QED BY <2>1, <2>2, <2>3, <2>4, <2>5, <2>6, <2>7, <2>8, <2>9, <2>10, <2>11, <2>12, <2>13,
               <2>14, <2>15, <2>16, <2>17, <2>18, <2>19 DEF Next, SwapStep, RelayStep
  <1> QED BY <1>1, <1>2, PTL DEF Spec

(* Type correctness of the proxy's maps, handles and stamps.               *)
THEOREM TypeCorrect == Spec => []TypeOK
  <1>1. TypeInv => TypeOK BY DEF TypeInv
  <1> QED BY <1>1, TypeInvariant, PTL

-----------------------------------------------------------------------------
(* What Tracked rests on. The handles: the current and the draining core   *)
(* are two, they run as long as none has crashed, and while a new one is   *)
(* being started there is no current one.                                  *)
HandlesInv ==
  /\ active # 0 => active # old
  /\ crashes = 0 => \A c \in {active, old} : c # 0 => core[c] = "run"
  /\ swap = "spawn" => active = 0

(* And the maps: a line read while a new core is being started went        *)
(* nowhere; the draining core owes what was moved with it; with a current  *)
(* core and no drain going on nothing is left in the map of the old one.   *)
MapsInv ==
  /\ swap = "spawn" => inflight \subseteq dropped
  /\ swap = "spawn" /\ old # 0 /\ crashes = 0 =>
       \A q \in oldInflight \ dropped : todo[old][q] > 0
  /\ swap \in {"idle", "move", "close"} /\ active # 0 => oldInflight = {}

LEMMA HandlesInvariant == Spec => []HandlesInv
  <1>1. Init => HandlesInv BY ProxyAssumption DEF Init, HandlesInv, Cores
  <1>2. TypeInv /\ HandlesInv /\ [Next]_vars => HandlesInv'
    <2> SUFFICES ASSUME TypeInv, HandlesInv, [Next]_vars PROVE HandlesInv' OBVIOUS
    <2> USE ProxyAssumption
    <2>0. /\ core \in [Cores -> {"none", "run", "eof", "dead"}] /\ crashes \in Nat
          /\ active \in 0..cores /\ old \in 0..cores /\ cores \in Cores
          /\ active # 0 => active \in Cores
          /\ old # 0 => old \in Cores
      BY DEF TypeInv, TypeOK, Cores
    <2>1. ASSUME NEW q \in Reqs, Send(q) PROVE HandlesInv'
      BY <2>1 DEF Send, HandlesInv, swapVars
    <2>2. CASE StdinEof
      BY <2>0, <2>2 DEF StdinEof, Closed, HandlesInv, swapVars
    <2>3. ASSUME NEW c \in Cores, CoreExits(c) PROVE HandlesInv'
      BY <2>0, <2>3 DEF CoreExits, HandlesInv, swapVars
    <2>4. ASSUME NEW c \in Cores, CoreCrashes(c) PROVE HandlesInv'
      BY <2>0, <2>4 DEF CoreCrashes, HandlesInv, swapVars
    <2>5. ASSUME NEW c \in Cores, RelayTake(c) PROVE HandlesInv'
      BY <2>5 DEF RelayTake, HandlesInv, swapVars
    <2>6. ASSUME NEW c \in Cores, RelayForward(c) PROVE HandlesInv'
      BY <2>6 DEF RelayForward, HandlesInv, coreVars, swapVars
    <2>7. CASE MainReturns BY <2>7 DEF MainReturns, HandlesInv, coreVars, swapVars
    <2>8. CASE Publish BY <2>8 DEF Publish, HandlesInv, coreVars, swapVars
    <2>18. CASE MoveAway BY <2>18 DEF MoveAway, HandlesInv, coreVars, swapVars
    <2>19. CASE Promote BY <2>19 DEF Promote, HandlesInv, coreVars, swapVars
    <2>9. CASE Fire BY <2>9 DEF Fire, HandlesInv, coreVars
    <2>10. CASE Move BY <2>10 DEF Move, HandlesInv, coreVars
    <2>11. CASE PipeFails BY <2>11 DEF PipeFails, HandlesInv, coreVars
    <2>12. CASE SpawnFails BY <2>12 DEF SpawnFails, HandlesInv, coreVars
    <2>13. CASE Activate
      <3>1. cores + 1 \in Cores /\ old # cores + 1 /\ swap' = "drain" /\ old' = old
            /\ active' = cores + 1 /\ core' = [core EXCEPT ![cores + 1] = "run"]
            /\ crashes' = crashes
        BY <2>0, <2>13 DEF Activate, Cores
      <3>2. core'[cores + 1] = "run" /\ (old # 0 => core'[old] = core[old]) BY <2>0, <3>1
      <3> QED BY <3>1, <3>2 DEF HandlesInv
    <2>14. CASE Drained BY <2>14 DEF Drained, HandlesInv, coreVars
    <2>15. CASE DrainTimeout BY <2>15 DEF DrainTimeout, HandlesInv
    <2>16. CASE CloseOld
      BY <2>0, <2>16 DEF CloseOld, Closed, HandlesInv
    <2>17. CASE UNCHANGED vars BY <2>17 DEF vars, HandlesInv, coreVars, swapVars
    <2> QED BY <2>1, <2>2, <2>3, <2>4, <2>5, <2>6, <2>7, <2>8, <2>9, <2>10, <2>11, <2>12, <2>13,
               <2>14, <2>15, <2>16, <2>17, <2>18, <2>19 DEF Next, SwapStep, RelayStep
  <1> QED BY <1>1, <1>2, TypeInvariant, PTL DEF Spec

TrackInv == TypeInv /\ HandlesInv /\ MapsInv /\ Tracked

LEMMA TrackInvariant == Spec => []TrackInv
  <1>1. Init => MapsInv /\ Tracked BY DEF Init, MapsInv, Tracked
  <1>2. TrackInv /\ TypeInv' /\ HandlesInv' /\ [Next]_vars => (MapsInv /\ Tracked)'
    <2> SUFFICES ASSUME TrackInv, TypeInv', HandlesInv', [Next]_vars
                 PROVE  MapsInv' /\ Tracked'
      OBVIOUS
    <2> USE ProxyAssumption
    <2>i. TypeInv BY DEF TrackInv
    <2>0. /\ core \in [Cores -> {"none", "run", "eof", "dead"}]
          /\ active # 0 => active \in Cores
          /\ old # 0 => old \in Cores
      BY <2>i, Types
    <2>t. /\ todo \in [Cores -> Lines] /\ hand \in [Cores -> Reqs \cup {NoReq}]
          /\ replies \in Lines /\ sent \subseteq Reqs /\ inflight \subseteq sent
          /\ oldInflight \subseteq sent
      BY <2>i, Types
    <2>a. \A c \in Cores, q \in Reqs : todo[c][q] \in Nat /\ replies[q] \in Nat BY <2>i, Types
    <2>b. \A c \in Cores, q \in Reqs : todo'[c][q] \in Nat BY DEF TypeInv, TypeOK, Lines
    <2>1. ASSUME NEW q \in Reqs, Send(q) PROVE MapsInv' /\ Tracked'
      <3>1. \A d \in Cores, p \in Reqs :
              /\ todo[d][p] > 0 => todo'[d][p] > 0
              /\ d = active /\ core[active] = "run" /\ p = q => todo'[d][p] > 0
        <4>1. todo' = Given(active, {q}) /\ active \in 0..cores /\ {q} \in SUBSET Reqs
          BY <2>1, <2>i, Types DEF Send
        <4> HIDE DEF TrackInv
        <4>2. ASSUME NEW d \in Cores, NEW p \in Reqs
              PROVE  /\ todo'[d][p] >= todo[d][p]
                     /\ d = active /\ core[active] = "run" /\ p = q => todo'[d][p] > 0
          BY <2>i, <4>1, <4>2, GivenLines
        <4> QED BY <2>a, <2>b, <4>2
      <3>2. Tracked'
        <4>1. ASSUME NEW p \in sent', replies'[p] = 0
              PROVE  p \in inflight' \cup oldInflight' \/ \E c \in Cores : hand'[c] = p
          BY <2>1, <4>1 DEF Send, TrackInv, Tracked
        <4>2. ASSUME active' # 0, crashes' = 0, NEW p \in inflight' \ dropped'
              PROVE  todo'[active'][p] > 0
          <5>1. active # 0 /\ active \in Cores /\ crashes = 0 /\ core[active] = "run" /\ active' = active
            BY <2>0, <2>t, <2>1, <4>2 DEF Send, TrackInv, HandlesInv
          <5>a. q \in Reqs BY <2>1
          <5>b. todo'[active][q] > 0 BY <3>1, <5>1, <5>a
          <5>2. CASE p = q BY <5>1, <5>2, <5>b
          <5>3. CASE p # q
            <6>1. p \in inflight \ dropped BY <2>1, <4>2, <5>3 DEF Send
            <6>2. todo[active][p] > 0 BY <5>1, <6>1 DEF TrackInv, Tracked
            <6> QED BY <2>t, <3>1, <5>1, <6>1, <6>2
          <5> QED BY <5>2, <5>3
        <4> QED BY <4>1, <4>2 DEF Tracked
      <3>3. MapsInv'
        <4>1. UNCHANGED <<swap, old, active, crashes, oldInflight>> /\ dropped \subseteq dropped'
          BY <2>1 DEF Send, swapVars
        <4>2. swap = "spawn" => inflight' \subseteq dropped'
          BY <2>1 DEF Send, TrackInv, MapsInv, HandlesInv
        <4> QED BY <2>0, <2>t, <3>1, <4>1, <4>2 DEF TrackInv, MapsInv
      <3> QED BY <3>2, <3>3
    <2>2. CASE StdinEof
      BY <2>2 DEF StdinEof, TrackInv, MapsInv, Tracked, mapVars, swapVars, history
    <2>3. ASSUME NEW c \in Cores, CoreExits(c) PROVE MapsInv' /\ Tracked'
      BY <2>3 DEF CoreExits, TrackInv, MapsInv, Tracked, clientVars, mapVars, swapVars, history
    <2>4. ASSUME NEW c \in Cores, CoreCrashes(c) PROVE MapsInv' /\ Tracked'
      <3>1. crashes' # 0 BY <2>4 DEF CoreCrashes, TrackInv, TypeInv, TypeOK
      <3> QED
        BY <2>4, <3>1 DEF CoreCrashes, TrackInv, MapsInv, Tracked, clientVars, mapVars, swapVars, history
    <2>5. ASSUME NEW c \in Cores, RelayTake(c) PROVE MapsInv' /\ Tracked'
      <3>1. PICK q \in Reqs :
              /\ todo[c][q] > 0
              /\ todo' = [todo EXCEPT ![c][q] = @ - 1]
              /\ hand' = [hand EXCEPT ![c] = q]
              /\ inflight' = inflight \ {q} /\ oldInflight' = oldInflight \ {q}
        BY <2>5 DEF RelayTake
      <3>2. \A d \in Cores, p \in Reqs : p # q => todo'[d][p] = todo[d][p]
        BY <2>0, <2>t, <3>1 DEF Lines
      <3>3. Tracked'
        <4>1. ASSUME NEW p \in sent', replies'[p] = 0
              PROVE  p \in inflight' \cup oldInflight' \/ \E d \in Cores : hand'[d] = p
          <5>1. CASE p = q BY <2>0, <2>t, <3>1, <5>1
          <5>2. CASE p # q
            <6>1. p \in inflight \cup oldInflight \/ \E d \in Cores : hand[d] = p
              BY <2>5, <4>1 DEF RelayTake, TrackInv, Tracked, clientVars
            <6>2. ASSUME NEW d \in Cores, hand[d] = p PROVE hand'[d] = p
              <7>1. hand[c] = NoReq /\ p \in Reqs BY <2>0, <2>t, <2>5, <4>1 DEF RelayTake, clientVars
              <7>2. d # c BY <6>2, <7>1 DEF ProxyAssumption
              <7> QED BY <2>0, <2>t, <3>1, <6>2, <7>2
            <6> QED BY <3>1, <5>2, <6>1, <6>2
          <5> QED BY <5>1, <5>2
        <4>2. ASSUME active' # 0, crashes' = 0, NEW p \in inflight' \ dropped'
              PROVE  todo'[active'][p] > 0
          BY <2>0, <2>t, <2>5, <3>1, <3>2, <4>2 DEF RelayTake, TrackInv, Tracked, history
        <4> QED BY <4>1, <4>2 DEF Tracked
      <3>4. MapsInv'
        BY <2>0, <2>t, <2>5, <3>1, <3>2 DEF RelayTake, TrackInv, MapsInv, swapVars, history
      <3> QED BY <3>3, <3>4
    <2>6. ASSUME NEW c \in Cores, RelayForward(c) PROVE MapsInv' /\ Tracked'
      <3>0. hand[c] \in Reqs BY <2>0, <2>t, <2>6 DEF RelayForward
      <3>1. /\ replies'[hand[c]] > 0
            /\ \A p \in Reqs : p # hand[c] => replies'[p] = replies[p]
            /\ \A d \in Cores : d # c => hand'[d] = hand[d]
        BY <2>0, <2>t, <2>6, <3>0 DEF RelayForward, Lines
      <3>2. Tracked'
        <4>1. ASSUME NEW p \in sent', replies'[p] = 0
              PROVE  p \in inflight' \cup oldInflight' \/ \E d \in Cores : hand'[d] = p
          <5>1. p \in sent /\ p # hand[c] /\ replies[p] = 0 BY <2>0, <2>t, <2>6, <3>1, <4>1 DEF RelayForward
          <5>2. p \in inflight \cup oldInflight \/ \E d \in Cores : hand[d] = p
            BY <5>1 DEF TrackInv, Tracked
          <5> QED BY <2>6, <3>1, <5>1, <5>2 DEF RelayForward, mapVars
        <4> QED BY <2>6, <4>1 DEF RelayForward, TrackInv, Tracked, mapVars, coreVars, history
      <3> QED BY <2>6, <3>2 DEF RelayForward, TrackInv, MapsInv, mapVars, coreVars, swapVars, history
    <2>7. CASE MainReturns
      BY <2>7 DEF MainReturns, TrackInv, MapsInv, Tracked, clientVars, mapVars, coreVars, swapVars, history
    <2>8. CASE Publish
      BY <2>8 DEF Publish, TrackInv, MapsInv, Tracked, clientVars, mapVars, coreVars, swapVars, history
    <2>18. CASE MoveAway
      BY <2>18 DEF MoveAway, TrackInv, MapsInv, Tracked, clientVars, mapVars, coreVars, swapVars,
                   history
    <2>19. CASE Promote
      BY <2>19 DEF Promote, TrackInv, MapsInv, Tracked, clientVars, mapVars, coreVars, swapVars,
                   history
    <2>9. CASE Fire
      BY <2>9 DEF Fire, TrackInv, MapsInv, Tracked, clientVars, mapVars, coreVars, history
    <2>10. CASE Move
      BY <2>0, <2>t, <2>10 DEF Move, TrackInv, MapsInv, Tracked, clientVars, coreVars, history
    <2>11. CASE PipeFails
      BY <2>11 DEF PipeFails, TrackInv, MapsInv, Tracked, HandlesInv, clientVars, mapVars, coreVars
    <2>12. CASE SpawnFails
      BY <2>0, <2>t, <2>12 DEF SpawnFails, TrackInv, MapsInv, Tracked, clientVars, coreVars
    <2>13. CASE Activate
      BY <2>13 DEF Activate, TrackInv, MapsInv, Tracked, clientVars, mapVars, history
    <2>14. CASE Drained
      BY <2>14 DEF Drained, TrackInv, MapsInv, Tracked, clientVars, mapVars, coreVars, history
    <2>15. CASE DrainTimeout
      <3>1. \A d \in Cores, p \in Reqs :
              /\ todo[d][p] > 0 => todo'[d][p] > 0
              /\ d = active /\ core[active] = "run" /\ p \in oldInflight => todo'[d][p] > 0
        <4>1. todo' = Given(active, oldInflight) /\ active \in 0..cores /\ oldInflight \in SUBSET Reqs
          BY <2>15, <2>i, Types DEF DrainTimeout
        <4> QED BY <2>a, <2>b, <2>i, <4>1, GivenLines
      <3>2. ASSUME active # 0, crashes = 0, NEW p \in (inflight \cup oldInflight) \ dropped
            PROVE  todo'[active][p] > 0
        <4>1. active \in Cores /\ core[active] = "run" BY <2>0, <2>t, <3>2 DEF TrackInv, HandlesInv
        <4>2. CASE p \in oldInflight BY <2>0, <2>t, <3>1, <4>1, <4>2
        <4>3. CASE p \in inflight BY <2>0, <2>t, <3>1, <3>2, <4>1, <4>3 DEF TrackInv, Tracked
        <4> QED BY <3>2, <4>2, <4>3
      <3> QED BY <2>15, <3>2 DEF DrainTimeout, TrackInv, MapsInv, Tracked, clientVars
    <2>16. CASE CloseOld
      BY <2>16 DEF CloseOld, TrackInv, MapsInv, Tracked, clientVars, mapVars, history
    <2>17. CASE UNCHANGED vars
      BY <2>17 DEF vars, TrackInv, MapsInv, Tracked, clientVars, mapVars, coreVars, swapVars, history
    <2> QED BY <2>1, <2>2, <2>3, <2>4, <2>5, <2>6, <2>7, <2>8, <2>9, <2>10, <2>11, <2>12, <2>13,
               <2>14, <2>15, <2>16, <2>17, <2>18, <2>19 DEF Next, SwapStep, RelayStep
  <1>3. TrackInv <=> TypeInv /\ HandlesInv /\ (MapsInv /\ Tracked) BY DEF TrackInv
  <1> QED BY <1>1, <1>2, <1>3, TypeInvariant, HandlesInvariant, PTL DEF Spec

(* No swap, failed swap or reroute forgets a request, and requests follow  *)
(* the core they were written to.                                          *)
THEOREM RequestsTracked == Spec => []Tracked
  <1>1. TrackInv => Tracked BY DEF TrackInv
  <1> QED BY <1>1, TrackInvariant, PTL

-----------------------------------------------------------------------------
(* A line that is not sent again exists once: at the core that owes it, in *)
(* the hand of the relay that took its answer, or at the client.           *)
Once(q) ==
  /\ replies[q] <= 1
  /\ \A c \in Cores : todo[c][q] <= 1
  /\ \A c, d \in Cores : todo[c][q] > 0 /\ todo[d][q] > 0 => c = d
  /\ \A c, d \in Cores : hand[c] = q /\ hand[d] = q => c = d
  /\ \A c, d \in Cores : hand[c] = q => todo[d][q] = 0
  /\ replies[q] > 0 => \A c \in Cores : todo[c][q] = 0 /\ hand[c] # q
  /\ q \notin sent => replies[q] = 0 /\ \A c \in Cores : todo[c][q] = 0 /\ hand[c] # q
OnceInv == \A q \in Reqs \ Handshake : q \notin rerouted => Once(q)

LEMMA OnceInvariant == Spec => []OnceInv
  <1>1. Init => OnceInv
    <2> SUFFICES ASSUME Init, NEW q \in Reqs PROVE Once(q) BY DEF OnceInv
    <2>1. NoLines[q] = 0 /\ q # NoReq BY ProxyAssumption DEF NoLines
    <2> QED BY <2>1 DEF Init, Once
  <1>2. TypeInv /\ OnceInv /\ [Next]_vars => OnceInv'
    <2> SUFFICES ASSUME TypeInv, OnceInv, [Next]_vars, NEW p \in Reqs \ Handshake, p \notin rerouted'
                 PROVE  Once(p)'
      BY DEF OnceInv
    <2>t. /\ \A c \in Cores : todo[c][p] \in Nat /\ replies[p] \in Nat
          /\ todo \in [Cores -> Lines] /\ hand \in [Cores -> Reqs \cup {NoReq}]
          /\ replies \in Lines
      BY Types
    <2>n. p # NoReq BY ProxyAssumption
    <2>r. rerouted \subseteq rerouted'
      BY DEF Next, SwapStep, RelayStep, Send, StdinEof, CoreExits, CoreCrashes, RelayTake,
             RelayForward, MainReturns, Publish, MoveAway, Promote, Fire, Move, PipeFails, SpawnFails, Activate,
             Drained, DrainTimeout, CloseOld, vars, history
    <2>o. Once(p) BY <2>r DEF OnceInv
    <2>1. ASSUME NEW q \in Reqs, Send(q) PROVE Once(p)'
      <3>1. todo' = Given(active, {q}) /\ active \in 0..cores /\ {q} \in SUBSET Reqs
        BY <2>1, Types DEF Send
      <3>2. ASSUME NEW d \in Cores
            PROVE  /\ d # active \/ p # q => todo'[d][p] = todo[d][p]
                   /\ todo'[d][p] <= todo[d][p] + 1
        BY <3>1, GivenLines
      <3>3. UNCHANGED <<hand, replies>> /\ sent' = sent \cup {q} /\ q \notin sent
        BY <2>1 DEF Send
      <3>4. CASE p = q
        <4>1. replies[p] = 0 /\ \A c \in Cores : todo[c][p] = 0 /\ hand[c] # p
          BY <2>o, <3>3, <3>4 DEF Once
        <4>2. \A c \in Cores : todo'[c][p] <= 1 /\ (c # active => todo'[c][p] = 0)
          BY <3>2, <4>1
        <4>3. \A c, d \in Cores : todo'[c][p] > 0 /\ todo'[d][p] > 0 => c = d BY <4>2
        <4> QED BY <3>3, <3>4, <4>1, <4>2, <4>3 DEF Once
      <3>5. CASE p # q BY <2>o, <3>2, <3>3, <3>5 DEF Once
      <3> QED BY <3>4, <3>5
    <2>2. CASE StdinEof BY <2>o, <2>2 DEF StdinEof, Once, coreVars
    <2>3. ASSUME NEW c \in Cores, CoreExits(c) PROVE Once(p)'
      BY <2>o, <2>3 DEF CoreExits, Once, clientVars
    <2>4. ASSUME NEW c \in Cores, CoreCrashes(c) PROVE Once(p)'
      BY <2>o, <2>4 DEF CoreCrashes, Once, clientVars
    <2>5. ASSUME NEW c \in Cores, RelayTake(c) PROVE Once(p)'
      <3>1. PICK q \in Reqs :
              /\ todo[c][q] > 0
              /\ todo' = [todo EXCEPT ![c][q] = @ - 1]
              /\ hand' = [hand EXCEPT ![c] = q]
        BY <2>5 DEF RelayTake
      <3>2. UNCHANGED <<sent, replies>> /\ hand[c] = NoReq BY <2>5 DEF RelayTake, clientVars
      <3>3. CASE p = q
        <4>1. todo'[c][p] = todo[c][p] - 1 /\ \A d \in Cores : d # c => todo'[d][p] = todo[d][p]
          BY <2>t, <3>1, <3>3 DEF Lines
        <4>2. hand'[c] = p /\ \A d \in Cores : d # c => hand'[d] = hand[d] BY <2>t, <3>1, <3>3
        <4>3. /\ todo[c][p] = 1 /\ replies[p] = 0 /\ p \in sent
              /\ \A d \in Cores : d # c => todo[d][p] = 0 /\ hand[d] # p
          BY <2>o, <2>t, <3>1, <3>3 DEF Once
        <4>4. \A d \in Cores : todo'[d][p] = 0 /\ (d # c => hand'[d] # p) BY <4>1, <4>2, <4>3
        <4> QED BY <3>2, <4>2, <4>3, <4>4 DEF Once
      <3>4. CASE p # q
        <4>1. \A d \in Cores : todo'[d][p] = todo[d][p] BY <2>t, <3>1, <3>4 DEF Lines
        <4>2. \A d \in Cores : hand'[d] = p => hand[d] = p BY <2>t, <3>1, <3>4
        <4> QED BY <2>o, <3>2, <4>1, <4>2 DEF Once
      <3> QED BY <3>3, <3>4
    <2>6. ASSUME NEW c \in Cores, RelayForward(c) PROVE Once(p)'
      <3>1. /\ hand' = [hand EXCEPT ![c] = NoReq]
            /\ replies' = [replies EXCEPT ![hand[c]] = @ + 1] /\ UNCHANGED <<sent, todo>>
        BY <2>6 DEF RelayForward, coreVars
      <3>2. \A d \in Cores : hand'[d] = p => hand[d] = p /\ d # c BY <2>t, <2>n, <3>1
      <3>3. CASE hand[c] = p
        <4>1. replies[p] = 0 /\ p \in sent /\ \A d \in Cores : todo[d][p] = 0 /\ (d # c => hand[d] # p)
          BY <2>o, <2>t, <3>3 DEF Once
        <4>2. replies'[p] = 1 BY <2>t, <3>1, <3>3, <4>1 DEF Lines
        <4> QED BY <3>1, <3>2, <4>1, <4>2 DEF Once
      <3>4. CASE hand[c] # p
        <4>1. replies'[p] = replies[p] BY <2>t, <3>1, <3>4 DEF Lines
        <4> QED BY <2>o, <3>1, <3>2, <4>1 DEF Once
      <3> QED BY <3>3, <3>4
    <2>7. CASE MainReturns BY <2>o, <2>7 DEF MainReturns, Once, clientVars, coreVars
    <2>8. CASE Publish BY <2>o, <2>8 DEF Publish, Once, clientVars, coreVars
    <2>18. CASE MoveAway BY <2>o, <2>18 DEF MoveAway, Once, clientVars, coreVars
    <2>19. CASE Promote BY <2>o, <2>19 DEF Promote, Once, clientVars, coreVars
    <2>9. CASE Fire BY <2>o, <2>9 DEF Fire, Once, clientVars, coreVars
    <2>10. CASE Move BY <2>o, <2>10 DEF Move, Once, clientVars, coreVars
    <2>11. CASE PipeFails BY <2>o, <2>11 DEF PipeFails, Once, clientVars, coreVars
    <2>12. CASE SpawnFails BY <2>o, <2>12 DEF SpawnFails, Once, clientVars, coreVars
    <2>13. CASE Activate
      <3>1. cores + 1 \in Cores BY <2>13, ProxyAssumption, Types DEF Activate, Cores
      <3>2. p \notin remembered BY DEF TypeInv, TypeOK
      <3>3. todo' = [todo EXCEPT ![cores + 1] = [q \in Reqs |-> IF q \in remembered THEN 1 ELSE 0]]
        BY <2>13 DEF Activate
      <3>4. \A d \in Cores : todo'[d][p] = IF d = cores + 1 THEN 0 ELSE todo[d][p]
        BY <2>t, <3>1, <3>2, <3>3
      <3>5. UNCHANGED <<sent, replies, hand>> BY <2>13 DEF Activate, clientVars
      <3> QED BY <2>o, <3>4, <3>5 DEF Once
    <2>14. CASE Drained BY <2>o, <2>14 DEF Drained, Once, clientVars, coreVars
    <2>15. CASE DrainTimeout
      <3>1. todo' = Given(active, oldInflight) /\ active \in 0..cores /\ oldInflight \in SUBSET Reqs
        BY <2>15, Types DEF DrainTimeout
      <3>2. p \notin oldInflight BY <2>15 DEF DrainTimeout
      <3>3. \A d \in Cores : todo'[d][p] = todo[d][p] BY <3>1, <3>2, GivenLines
      <3>4. UNCHANGED <<sent, replies, hand>> BY <2>15 DEF DrainTimeout, clientVars
      <3> QED BY <2>o, <3>3, <3>4 DEF Once
    <2>16. CASE CloseOld BY <2>o, <2>16 DEF CloseOld, Once, clientVars
    <2>17. CASE UNCHANGED vars BY <2>o, <2>17 DEF vars, Once, clientVars, coreVars
    <2> QED BY <2>1, <2>2, <2>3, <2>4, <2>5, <2>6, <2>7, <2>8, <2>9, <2>10, <2>11, <2>12, <2>13,
               <2>14, <2>15, <2>16, <2>17, <2>18, <2>19 DEF Next, SwapStep, RelayStep
  <1> QED BY <1>1, <1>2, TypeInvariant, PTL DEF Spec

(* A request is answered twice only if it is the handshake or the drain    *)
(* timeout sent it again.                                                  *)
THEOREM AnsweredOnce == Spec => []OnceUnlessSentAgain
  <1>1. OnceInv => OnceUnlessSentAgain BY DEF OnceInv, Once, OnceUnlessSentAgain
  <1> QED BY <1>1, OnceInvariant, PTL

-----------------------------------------------------------------------------
(* What the stamps and the versions of the cores tell: a swap works with a *)
(* newer stamp than the two it compares with; when no event is due, an     *)
(* executable at its path is active, failed, or that of the running swap,  *)
(* unless a running swap or a rename kept it from being noticed; and a core*)
(* is at least as new as the stamp it is known under.                      *)
StampInv ==
  /\ swap # "idle" => failedStamp < stamp /\ activeStamp < stamp
  /\ present /\ missed = "no" /\ ~armed =>
       exe = activeStamp \/ exe = failedStamp \/ (swap # "idle" /\ stamp = exe)
  /\ active # 0 /\ swap \in {"idle", "move"} => ver[active] >= activeStamp
  /\ active # 0 /\ swap \in {"drain", "close"} => ver[active] >= stamp
  /\ old # 0 /\ swap = "spawn" => ver[old] >= activeStamp

LEMMA StampInvariant == Spec => []StampInv
  <1>1. Init => StampInv BY ProxyAssumption DEF Init, StampInv, Cores
  <1>2. TypeInv /\ HandlesInv /\ StampInv /\ [Next]_vars => StampInv'
    <2> SUFFICES ASSUME TypeInv, HandlesInv, StampInv, [Next]_vars PROVE StampInv' OBVIOUS
    <2>0. /\ active # 0 => active \in Cores
          /\ old # 0 => old \in Cores
          /\ active <= cores /\ old <= cores /\ cores \in Nat
      BY Types DEF Cores
    <2>t. /\ exe \in Nat /\ stamp \in 0..exe /\ activeStamp \in 1..exe /\ failedStamp \in 0..exe
          /\ ver \in [Cores -> 0..exe]
      BY ProxyAssumption DEF TypeInv, TypeOK
    <2>v. \A c \in Cores : ver[c] \in Nat /\ ver[c] <= exe BY <2>t
    <2>1. ASSUME NEW q \in Reqs, Send(q) PROVE StampInv'
      BY <2>1 DEF Send, StampInv, swapVars, stampVars
    <2>2. CASE StdinEof BY <2>2 DEF StdinEof, StampInv, swapVars, stampVars
    <2>3. ASSUME NEW c \in Cores, CoreExits(c) PROVE StampInv'
      BY <2>3 DEF CoreExits, StampInv, swapVars, stampVars
    <2>4. ASSUME NEW c \in Cores, CoreCrashes(c) PROVE StampInv'
      BY <2>4 DEF CoreCrashes, StampInv, swapVars, stampVars
    <2>5. ASSUME NEW c \in Cores, RelayTake(c) PROVE StampInv'
      BY <2>5 DEF RelayTake, StampInv, swapVars, stampVars
    <2>6. ASSUME NEW c \in Cores, RelayForward(c) PROVE StampInv'
      BY <2>6 DEF RelayForward, StampInv, swapVars, stampVars
    <2>7. CASE MainReturns BY <2>7 DEF MainReturns, StampInv, swapVars, stampVars
    <2>8. CASE Publish BY <2>8 DEF Publish, StampInv, swapVars
    <2>18. CASE MoveAway BY <2>18 DEF MoveAway, StampInv, swapVars
    <2>19. CASE Promote BY <2>19 DEF Promote, StampInv, swapVars
    <2>9. CASE Fire
      <3>0. /\ armed' = FALSE
            /\ UNCHANGED <<active, old, activeStamp, failedStamp, exe, present, ver>>
        BY <2>9 DEF Fire
      <3>1. CASE ~present \/ exe \in {activeStamp, failedStamp}
        <4>1. UNCHANGED <<swap, stamp, missed>> BY <2>9, <3>1 DEF Fire
        <4> QED BY <3>0, <3>1, <4>1 DEF StampInv
      <3>2. CASE ~(~present \/ exe \in {activeStamp, failedStamp}) /\ swap # "idle"
        <4>1. missed' = "swap" /\ UNCHANGED <<swap, stamp>> BY <2>9, <3>2 DEF Fire
        <4> QED BY <3>0, <4>1 DEF StampInv
      <3>3. CASE ~(~present \/ exe \in {activeStamp, failedStamp}) /\ swap = "idle"
        <4>1. swap' = "move" /\ stamp' = exe BY <2>9, <3>3 DEF Fire
        <4> QED BY <2>t, <3>0, <3>3, <4>1 DEF StampInv
      <3> QED BY <3>1, <3>2, <3>3
    <2>10. CASE Move BY <2>10 DEF Move, StampInv, stampVars
    <2>11. CASE PipeFails
      <3>1. active = 0 BY <2>11 DEF PipeFails, HandlesInv
      <3> QED BY <2>t, <2>11, <3>1 DEF PipeFails, StampInv, stampVars
    <2>12. CASE SpawnFails BY <2>t, <2>12 DEF SpawnFails, StampInv, stampVars
    <2>13. CASE Activate
      <3>1. cores + 1 \in Cores BY <2>0, <2>13, ProxyAssumption DEF Activate, Cores
      <3>2. /\ active' = cores + 1 /\ swap' = "drain" /\ swap = "spawn"
            /\ ver' = [ver EXCEPT ![cores + 1] = exe]
            /\ UNCHANGED <<old, stamp, activeStamp, failedStamp, exe, present, armed, missed>>
        BY <2>13 DEF Activate
      <3>3. ver'[active'] = exe /\ stamp' <= exe BY <2>t, <3>1, <3>2
      <3> QED BY <2>t, <3>2, <3>3 DEF StampInv
    <2>14. CASE Drained BY <2>14 DEF Drained, StampInv, stampVars
    <2>15. CASE DrainTimeout BY <2>15 DEF DrainTimeout, StampInv, stampVars
    <2>16. CASE CloseOld BY <2>t, <2>16 DEF CloseOld, StampInv, stampVars
    <2>17. CASE UNCHANGED vars BY <2>17 DEF vars, StampInv, swapVars, stampVars
    <2> QED BY <2>1, <2>2, <2>3, <2>4, <2>5, <2>6, <2>7, <2>8, <2>9, <2>10, <2>11, <2>12, <2>13,
               <2>14, <2>15, <2>16, <2>17, <2>18, <2>19 DEF Next, SwapStep, RelayStep
  <1> QED BY <1>1, <1>2, TypeInvariant, HandlesInvariant, PTL DEF Spec

(* A resting proxy runs the executable on disk, unless that one failed to  *)
(* start, was renamed to its path, or had its event in a running swap.     *)
THEOREM StaleCoreExplained == Spec => []StaleOnlyIfMissed
  <1>1. TypeInv /\ StampInv => StaleOnlyIfMissed
    <2> SUFFICES ASSUME TypeInv, StampInv, present, swap = "idle", ~armed, active # 0,
                        ver[active] # exe, missed = "no"
                 PROVE  failedStamp = exe
      BY DEF StaleOnlyIfMissed
    <2>1. active \in Cores /\ ver \in [Cores -> 0..exe] /\ exe \in Nat
      BY Types, ProxyAssumption DEF TypeInv, TypeOK
    <2>2. ver[active] \in 0..exe BY <2>1
    <2>3. ver[active] >= activeStamp BY DEF StampInv
    <2>4. exe = activeStamp \/ exe = failedStamp BY DEF StampInv
    <2> QED BY <2>1, <2>2, <2>3, <2>4
  <1> QED BY <1>1, TypeInvariant, StampInvariant, PTL

-----------------------------------------------------------------------------
(* As long as no core crashed, a line that found a stdin is answered, its  *)
(* answer is in the hand of a relay, or a core that has not ended owes it: *)
(* no publish, swap, failed swap, reroute or end of the client leaves a    *)
(* line with nobody to answer it.                                          *)
Owed(q) == \E c \in Cores : hand[c] = q \/ (core[c] \in {"run", "eof"} /\ todo[c][q] > 0)
NoLineStranded == crashes = 0 => \A q \in sent \ dropped : replies[q] > 0 \/ Owed(q)

(* A core not started yet is not there.                                    *)
StrandInv == NoLineStranded /\ \A c \in Cores : c > cores => core[c] = "none"

LEMMA OwedStays ==
  ASSUME NEW q \in Reqs,
         \A c \in Cores : hand[c] = q => hand'[c] = q,
         \A c \in Cores : core[c] \in {"run", "eof"} /\ todo[c][q] > 0
                            => core'[c] \in {"run", "eof"} /\ todo'[c][q] > 0
  PROVE  Owed(q) => Owed(q)'
  BY DEF Owed

LEMMA StrandInvariant == Spec => []StrandInv
  <1>1. Init => StrandInv BY ProxyAssumption DEF Init, StrandInv, NoLineStranded, Cores
  <1>2. TypeInv /\ HandlesInv /\ StrandInv /\ [Next]_vars => StrandInv'
    <2> SUFFICES ASSUME TypeInv, HandlesInv, StrandInv, [Next]_vars PROVE StrandInv' OBVIOUS
    <2> USE ProxyAssumption
    <2>0. /\ core \in [Cores -> {"none", "run", "eof", "dead"}] /\ cores \in Cores
          /\ todo \in [Cores -> Lines] /\ hand \in [Cores -> Reqs \cup {NoReq}]
          /\ replies \in Lines /\ sent \subseteq Reqs
          /\ active # 0 => active \in Cores
          /\ old # 0 => old \in Cores
          /\ \A c \in Cores, q \in Reqs : todo[c][q] \in Nat /\ replies[q] \in Nat
          /\ crashes \in Nat /\ Cores \subseteq Nat
      BY Types DEF TypeInv, TypeOK, Cores
    <2>f. ASSUME UNCHANGED <<sent, replies, hand, todo, crashes, cores>>, dropped \subseteq dropped',
                 core' = core \/ (\E d \in Cores : core[d] = "run" /\ core' = [core EXCEPT ![d] = "eof"])
          PROVE  StrandInv'
      <3>1. \A c \in Cores : /\ core[c] \in {"run", "eof"} => core'[c] \in {"run", "eof"}
                             /\ core[c] = "none" => core'[c] = "none"
        BY <2>0, <2>f
      <3>2. \A q \in Reqs : Owed(q) => Owed(q)' BY <2>f, <3>1, OwedStays
      <3> QED BY <2>0, <2>f, <3>1, <3>2 DEF StrandInv, NoLineStranded
    <2>1. ASSUME NEW q \in Reqs, Send(q) PROVE StrandInv'
      <3>1. /\ sent' = sent \cup {q} /\ todo' = Given(active, {q})
            /\ dropped' = IF active = 0 THEN dropped \cup {q} ELSE dropped
            /\ UNCHANGED <<replies, hand, core, cores, crashes>>
        BY <2>1 DEF Send
      <3>2. active \in 0..cores /\ {q} \in SUBSET Reqs BY Types
      <3>3. ASSUME NEW d \in Cores, NEW p \in Reqs
            PROVE  /\ todo'[d][p] >= todo[d][p] /\ todo'[d][p] <= todo[d][p] + 1
                   /\ p \notin {q} => todo'[d][p] = todo[d][p]
                   /\ d = active /\ core[active] = "run" /\ p = q => todo'[d][p] > 0
        BY <3>1, <3>2, GivenLines
      <3>t. todo' \in [Cores -> Lines] BY <3>1, <3>2, GivenLines
      <3>4. \A d \in Cores, p \in Reqs : todo[d][p] > 0 => todo'[d][p] > 0
        BY <2>0, <3>3, <3>t DEF Lines
      <3>5. \A p \in Reqs : Owed(p) => Owed(p)' BY <3>1, <3>4, OwedStays
      <3>6. ASSUME crashes = 0, active # 0 PROVE Owed(q)'
        <4>1. core[active] = "run" /\ active \in Cores BY <2>0, <3>6 DEF HandlesInv
        <4>2. todo'[active][q] > 0 BY <3>3, <4>1
        <4> QED BY <3>1, <4>1, <4>2 DEF Owed
      <3>7. ASSUME crashes' = 0, NEW p \in sent' \ dropped' PROVE replies'[p] > 0 \/ Owed(p)'
        <4>1. CASE p = q /\ active # 0 BY <3>1, <3>6, <3>7, <4>1
        <4>2. CASE p \in sent /\ p \notin dropped
          BY <2>0, <3>1, <3>5, <3>7, <4>2 DEF StrandInv, NoLineStranded
        <4> QED BY <3>1, <3>7, <4>1, <4>2
      <3> QED BY <3>1, <3>7 DEF StrandInv, NoLineStranded
    <2>2. CASE StdinEof
      BY <2>0, <2>2, <2>f DEF StdinEof, Closed, mapVars, history
    <2>3. ASSUME NEW c \in Cores, CoreExits(c) PROVE StrandInv'
      <3>1. /\ core[c] = "eof" /\ todo[c] = NoLines /\ core' = [core EXCEPT ![c] = "dead"]
            /\ UNCHANGED <<sent, replies, hand, todo, dropped, crashes, cores>>
        BY <2>3 DEF CoreExits, clientVars, history
      <3>2. \A q \in Reqs : todo[c][q] = 0 BY <3>1 DEF NoLines
      <3>3. \A d \in Cores : d # c => core'[d] = core[d] BY <2>0, <3>1
      <3>4. \A q \in Reqs : Owed(q) => Owed(q)' BY <3>1, <3>2, <3>3, OwedStays
      <3>5. \A d \in Cores : d > cores' => core'[d] = "none"
        BY <3>1, <3>3 DEF StrandInv
      <3> QED BY <2>0, <3>1, <3>4, <3>5 DEF StrandInv, NoLineStranded
    <2>4. ASSUME NEW c \in Cores, CoreCrashes(c) PROVE StrandInv'
      <3>1. /\ core[c] \in {"run", "eof"} /\ core' = [core EXCEPT ![c] = "dead"]
            /\ crashes' = crashes + 1 /\ cores' = cores
        BY <2>4 DEF CoreCrashes
      <3>2. crashes' # 0 BY <2>0, <3>1
      <3>3. \A d \in Cores : d > cores' => core'[d] = "none" BY <2>0, <3>1 DEF StrandInv
      <3> QED BY <3>2, <3>3 DEF StrandInv, NoLineStranded
    <2>5. ASSUME NEW c \in Cores, RelayTake(c) PROVE StrandInv'
      <3>1. PICK q \in Reqs : /\ todo[c][q] > 0 /\ todo' = [todo EXCEPT ![c][q] = @ - 1]
                              /\ hand' = [hand EXCEPT ![c] = q]
        BY <2>5 DEF RelayTake
      <3>2. hand[c] = NoReq /\ UNCHANGED <<sent, replies, core, cores, crashes, dropped>>
        BY <2>5 DEF RelayTake, clientVars, history
      <3>3. \A d \in Cores, p \in Reqs : p # q => todo'[d][p] = todo[d][p] BY <2>0, <3>1 DEF Lines
      <3>4. Owed(q)' BY <2>0, <3>1 DEF Owed
      <3>5. ASSUME NEW p \in Reqs, p # q PROVE Owed(p) => Owed(p)'
        <4>1. \A d \in Cores : hand[d] = p => hand'[d] = p BY <2>0, <3>1, <3>2, <3>5
        <4> QED BY <3>2, <3>3, <3>5, <4>1, OwedStays
      <3> QED BY <2>0, <3>2, <3>4, <3>5 DEF StrandInv, NoLineStranded
    <2>6. ASSUME NEW c \in Cores, RelayForward(c) PROVE StrandInv'
      <3>1. /\ replies' = [replies EXCEPT ![hand[c]] = @ + 1] /\ hand' = [hand EXCEPT ![c] = NoReq]
            /\ hand[c] # NoReq /\ UNCHANGED <<sent, todo, core, cores, crashes, dropped>>
        BY <2>6 DEF RelayForward, coreVars, history
      <3>2. hand[c] \in Reqs BY <2>0, <3>1
      <3>3. /\ replies'[hand[c]] > 0
            /\ \A p \in Reqs : p # hand[c] => replies'[p] = replies[p]
        BY <2>0, <3>1, <3>2 DEF Lines
      <3>4. ASSUME NEW p \in Reqs, p # hand[c] PROVE Owed(p) => Owed(p)'
        <4>1. \A d \in Cores : hand[d] = p => hand'[d] = p BY <2>0, <3>1, <3>4
        <4> QED BY <3>1, <4>1, OwedStays
      <3> QED BY <2>0, <3>1, <3>3, <3>4 DEF StrandInv, NoLineStranded
    <2>7. CASE MainReturns BY <2>7, <2>f DEF MainReturns, clientVars, coreVars, history
    <2>8. CASE Publish BY <2>8, <2>f DEF Publish, clientVars, coreVars, history
    <2>18. CASE MoveAway BY <2>18, <2>f DEF MoveAway, clientVars, coreVars, history
    <2>19. CASE Promote BY <2>19, <2>f DEF Promote, clientVars, coreVars, history
    <2>9. CASE Fire BY <2>9, <2>f DEF Fire, clientVars, coreVars, history
    <2>10. CASE Move BY <2>10, <2>f DEF Move, clientVars, coreVars, history
    <2>11. CASE PipeFails BY <2>11, <2>f DEF PipeFails, clientVars, coreVars
    <2>12. CASE SpawnFails BY <2>12, <2>f DEF SpawnFails, clientVars, coreVars
    <2>13. CASE Activate
      <3> DEFINE row == [q \in Reqs |-> IF q \in remembered THEN 1 ELSE 0]
      <3>1. /\ cores' = cores + 1 /\ core' = [core EXCEPT ![cores + 1] = "run"]
            /\ todo' = [todo EXCEPT ![cores + 1] = row]
            /\ cores < MaxCore /\ UNCHANGED <<sent, replies, hand, dropped, crashes>>
        BY <2>13 DEF Activate, clientVars, history
      <3> HIDE DEF row
      <3>2. cores + 1 \in Cores /\ core[cores + 1] = "none"
        <4>1. cores + 1 \in Cores /\ cores + 1 > cores BY <2>0, <3>1 DEF Cores
        <4> QED BY <4>1 DEF StrandInv
      <3>3. \A d \in Cores : d # cores + 1 => core'[d] = core[d] /\ todo'[d] = todo[d]
        BY <2>0, <3>1
      <3>4. \A q \in Reqs : Owed(q) => Owed(q)' BY <3>1, <3>2, <3>3, OwedStays
      <3>5. ASSUME NEW d \in Cores, d > cores' PROVE core'[d] = "none"
        <4>1. d # cores + 1 /\ d > cores BY <2>0, <3>1, <3>5
        <4> QED BY <3>3, <4>1 DEF StrandInv
      <3> QED BY <2>0, <3>1, <3>4, <3>5 DEF StrandInv, NoLineStranded
    <2>14. CASE Drained BY <2>14, <2>f DEF Drained, clientVars, coreVars, history
    <2>15. CASE DrainTimeout
      <3>1. /\ todo' = Given(active, oldInflight)
            /\ UNCHANGED <<sent, replies, hand, core, cores, crashes, dropped>>
        BY <2>15 DEF DrainTimeout, clientVars
      <3>2. active \in 0..cores /\ oldInflight \in SUBSET Reqs BY Types
      <3>3. \A d \in Cores, p \in Reqs : todo'[d][p] >= todo[d][p] BY <3>1, <3>2, GivenLines
      <3>t. todo' \in [Cores -> Lines] BY <3>1, <3>2, GivenLines
      <3>4. \A d \in Cores, p \in Reqs : todo[d][p] > 0 => todo'[d][p] > 0
        BY <2>0, <3>3, <3>t DEF Lines
      <3>5. \A p \in Reqs : Owed(p) => Owed(p)' BY <3>1, <3>4, OwedStays
      <3> QED BY <2>0, <3>1, <3>5 DEF StrandInv, NoLineStranded
    <2>16. CASE CloseOld
      BY <2>0, <2>16, <2>f DEF CloseOld, Closed, clientVars, mapVars, history
    <2>17. CASE UNCHANGED vars BY <2>17, <2>f DEF vars, clientVars, coreVars, history
    <2> QED BY <2>1, <2>2, <2>3, <2>4, <2>5, <2>6, <2>7, <2>8, <2>9, <2>10, <2>11, <2>12, <2>13,
               <2>14, <2>15, <2>16, <2>17, <2>18, <2>19 DEF Next, SwapStep, RelayStep
  <1> QED BY <1>1, <1>2, TypeInvariant, HandlesInvariant, PTL DEF Spec

(* No line is stranded while no core crashes.                              *)
THEOREM LinesAreOwed == Spec => []NoLineStranded
  <1>1. StrandInv => NoLineStranded BY DEF StrandInv
  <1> QED BY <1>1, StrandInvariant, PTL
=============================================================================
