--------------------------- MODULE HaikuTick_proofs ---------------------------
(***************************************************************************)
(* Theorems about HaikuTick, for any requests, visitors, windows and limits*)
(* and for any number of crashes and flips of the switch; and, at the end, *)
(* about ChildRuns, the child process that answers a request.              *)
(***************************************************************************)
EXTENDS HaikuTick, ChildRuns, TLAPS

(* The types, and where the request in hand and the requests taken from    *)
(* the inbox are.                                                          *)
TypeInv ==
  /\ TypeOK
  /\ cur # NoRequest <=> pc \in {"ask", "record", "publish"}
  /\ held # {} => pc = "put"

LEMMA Types ==
  ASSUME TypeInv
  PROVE  /\ now \in Nat /\ closedAt \in Nat /\ ksAt \in Nat /\ tickAt \in Nat
         /\ cur \in Requests \cup {NoRequest} /\ NoRequest \notin Requests
         /\ batch \subseteq Requests /\ req \subseteq Requests /\ ans \subseteq Requests
         /\ asks \in [Requests -> Nat] /\ cut \in [Requests -> Nat]
         /\ asksIn \in [Visitors -> Nat] /\ lives \in Nat /\ carried \subseteq Visitors
         /\ inbox \in [Internal -> {"none", "half", "whole"}]
         /\ \A r \in Public : VisitorOf[r] \in Visitors
         /\ pc \in {"ask", "record", "publish"} => cur \in Requests
         /\ \A v \in DOMAIN buckets : buckets[v].win \in Nat /\ buckets[v].n \in 0..Max
  BY TickAssumption DEF TypeInv, TypeOK, Requests

LEMMA UsedBound ==
  ASSUME TypeInv, NEW v \in Visitors
  PROVE  Used(v) \in 0..Max
  <1>1. 0 \in 0..Max BY TickAssumption
  <1> QED BY <1>1, Types DEF Used

LEMMA CheckTypes ==
  ASSUME TypeInv, NEW v \in Visitors, NEW n \in 0..Max, Check(v, n)
  PROVE  /\ DOMAIN buckets' \subseteq Visitors
         /\ \A u \in DOMAIN buckets' : buckets'[u] \in [win: Nat, n: 0..Max]
  <1>1. Kept(v) \subseteq DOMAIN buckets BY DEF Kept
  <1>2. DOMAIN buckets \subseteq Visitors BY DEF TypeInv, TypeOK
  <1>3. Win(now) \in Nat BY Types, TickAssumption DEF Win
  <1>4. \A u \in DOMAIN buckets : buckets[u] \in [win: Nat, n: 0..Max] BY DEF TypeInv, TypeOK
  <1>5. DOMAIN buckets' = Kept(v) \cup {v} BY DEF Check
  <1>6. \A u \in Kept(v) \cup {v} :
          buckets'[u] = IF u = v THEN [win |-> Win(now), n |-> n] ELSE buckets[u]
    BY DEF Check
  <1> QED BY <1>1, <1>2, <1>3, <1>4, <1>5, <1>6

(* What answerOne does with the buckets.                                   *)
LEMMA PickBuckets ==
  ASSUME TypeInv, NEW r \in Requests, Refuse(r) \/ Allow(r)
  PROVE  /\ \/ UNCHANGED buckets
            \/ \E n \in 0..Max : r \in Public /\ n >= Used(VisitorOf[r]) /\ Check(VisitorOf[r], n)
         /\ ~Refuse(r) /\ r \in Public =>
              /\ Used(VisitorOf[r]) + 1 \in 0..Max
              /\ Check(VisitorOf[r], Used(VisitorOf[r]) + 1)
  <1>1. r \in Public => Used(VisitorOf[r]) \in 0..Max BY Types, UsedBound
  <1>2. r \in Public /\ WithinLimit(VisitorOf[r]) => Used(VisitorOf[r]) + 1 \in 0..Max
    BY <1>1, TickAssumption DEF WithinLimit
  <1>3. r \in Public => Used(VisitorOf[r]) >= Used(VisitorOf[r])
                        /\ Used(VisitorOf[r]) + 1 >= Used(VisitorOf[r])
    BY <1>1
  <1> QED BY <1>1, <1>2, <1>3 DEF Refuse, Allow

LEMMA TypeInvariant == Spec => []TypeInv
  <1>1. Init => TypeInv
    BY TickAssumption DEF Init, TypeInv, TypeOK, Requests
  <1>2. TypeInv /\ [Next]_vars => TypeInv'
    <2> SUFFICES ASSUME TypeInv, [Next]_vars PROVE TypeInv' OBVIOUS
    <2>0. NoRequest \notin Requests /\ (pc \in {"ask", "record", "publish"} => cur \in Requests)
      BY Types
    <2>1. CASE Tick
      <3>1. carried' \subseteq Visitors BY <2>1, Types DEF Tick
      <3>2. asksIn' \in [Visitors -> Nat] /\ lives' \in Nat /\ now' \in Nat BY <2>1, Types DEF Tick
      <3> QED BY <2>1, <3>1, <3>2
          DEF Tick, TypeInv, TypeOK, worldVars, mainVars, storeVars, ksVars, workVars
    <2>2. CASE Flip
      BY <2>2 DEF Flip, TypeInv, TypeOK, storeVars, ksVars, workVars, history
    <2>3. CASE Crash
      <3>1. cut' \in [Requests -> Nat] BY <2>0, <2>3, Types DEF Crash
      <3>2. DOMAIN buckets' = {} BY <2>3 DEF Crash
      <3> QED BY <2>3, <3>1, <3>2 DEF Crash, TypeInv, TypeOK, worldVars, mainVars, storeVars, ksVars, Requests
    <2>4. ASSUME NEW r \in Public, Post(r) PROVE TypeInv'
      BY <2>4 DEF Post, TypeInv, TypeOK, mainVars, storeVars, ksVars, workVars, history
    <2>5. ASSUME NEW r \in Internal, Fill(r) PROVE TypeInv'
      BY <2>5 DEF Fill, TypeInv, TypeOK, mainVars, storeVars, ksVars, workVars, history
    <2>6. ASSUME NEW r \in Internal, NEW c \in {"half", "whole"}, Drop(r, c) PROVE TypeInv'
      BY <2>6 DEF Drop, TypeInv, TypeOK, mainVars, storeVars, ksVars, workVars
    <2>7. CASE BeginTick
      BY <2>7 DEF BeginTick, TypeInv, TypeOK, worldVars, mainVars, storeVars, workVars, history
    <2>8. CASE Fetch
      BY <2>8 DEF Fetch, TypeInv, TypeOK, worldVars, mainVars, storeVars, workVars, history
    <2>9. CASE Save
      BY <2>9 DEF Save, Saved, TypeInv, TypeOK, worldVars, mainVars, storeVars, workVars, history
    <2>10. CASE PollInbox
      BY <2>10 DEF PollInbox, TypeInv, TypeOK, mainVars, storeVars, ksVars, Requests
    <2>11. CASE Pull
      BY <2>11 DEF Pull, PutRequests, TypeInv, TypeOK, worldVars, mainVars, ksVars, history, Requests
    <2>12. ASSUME NEW r \in Requests, Pick(r) PROVE TypeInv'
      <3>1. Refuse(r) \/ Allow(r) BY <2>12 DEF Pick
      <3>2. /\ DOMAIN buckets' \subseteq Visitors
            /\ \A u \in DOMAIN buckets' : buckets'[u] \in [win: Nat, n: 0..Max]
        <4>1. CASE UNCHANGED buckets BY <4>1 DEF TypeInv, TypeOK
        <4>2. CASE ~UNCHANGED buckets
          <5>1. PICK n \in 0..Max : r \in Public /\ Check(VisitorOf[r], n) BY <3>1, <4>2, PickBuckets
          <5> QED BY <5>1, Types, CheckTypes
        <4> QED BY <4>1, <4>2
      <3>3. ans' \subseteq Requests /\ pc' \in {"ask", "publish"}
        BY <3>1, Types DEF Refuse, Allow
      <3> QED BY <2>0, <2>12, <3>2, <3>3
          DEF Pick, TypeInv, TypeOK, worldVars, mainVars, ksVars, history
    <2>13. CASE Ask
      <3>1. asks' \in [Requests -> Nat] BY <2>13, Types DEF Ask
      <3>2. asksIn' \in [Visitors -> Nat] BY <2>13, Types DEF Ask
      <3> QED BY <2>13, <3>1, <3>2
          DEF Ask, TypeInv, TypeOK, worldVars, mainVars, storeVars, ksVars, workVars
    <2>14. CASE PutAnswer
      BY <2>0, <2>14 DEF PutAnswer, TypeInv, TypeOK, worldVars, mainVars, ksVars, workVars, history
    <2>15. CASE Publish
      BY <2>0, <2>15 DEF Publish, TypeInv, TypeOK, worldVars, mainVars, ksVars, history
    <2>16. CASE Flush
      BY <2>16 DEF Flush, TypeInv, TypeOK, worldVars, mainVars, storeVars, ksVars, history
    <2>17. CASE Restart
      BY <2>17 DEF Restart, TypeInv, TypeOK, worldVars, mainVars, storeVars, workVars
    <2>18. CASE UNCHANGED vars
      BY <2>18 DEF vars, TypeInv, TypeOK, worldVars, mainVars, storeVars, ksVars, workVars, history
    <2> QED BY <2>1, <2>2, <2>3, <2>4, <2>5, <2>6, <2>7, <2>8, <2>9, <2>10, <2>11, <2>12, <2>13,
               <2>14, <2>15, <2>16, <2>17, <2>18 DEF Next, World, Writer, Daemon
  <1> QED BY <1>1, <1>2, PTL DEF Spec

(* The state stays within its types, for any constants.                    *)
THEOREM TypeCorrect == Spec => []TypeOK
  <1>1. TypeInv => TypeOK BY DEF TypeInv
  <1> QED BY <1>1, TypeInvariant, PTL

(***************************************************************************)
(* Calls of the model. A request of the batch, and one on its way to the   *)
(* call, is not answered; one that is not answered was called no more often*)
(* than crashes cut its calls off, until its call returns.                 *)
(***************************************************************************)
AskInv ==
  /\ batch \cap ans = {} /\ cur \notin batch
  /\ pc \in {"ask", "record"} => cur \notin ans
  /\ \A r \in Requests : asks[r] <= 1 + cut[r]
  /\ \A r \in Requests \ ans : asks[r] <= cut[r] \/ (pc = "record" /\ r = cur)

LEMMA AskInvariant == Spec => []AskInv
  <1>1. Init => AskInv BY DEF Init, AskInv, Requests
  <1>2. TypeInv /\ TypeInv' /\ AskInv /\ [Next]_vars => AskInv'
    <2> SUFFICES ASSUME TypeInv, TypeInv', AskInv, [Next]_vars PROVE AskInv' OBVIOUS
    <2>0. /\ asks \in [Requests -> Nat] /\ cut \in [Requests -> Nat] /\ NoRequest \notin Requests
          /\ pc \in {"ask", "record", "publish"} => cur \in Requests
      BY Types
    <2>b. batch \subseteq Requests /\ batch' \subseteq Requests BY DEF TypeInv, TypeOK
    <2>k. ASSUME UNCHANGED <<asks, cut, ans, batch, cur>>,
                 pc' \in {"ask", "record"} => pc \in {"ask", "record"},
                 pc = "record" => pc' = "record"
          PROVE  AskInv'
      BY <2>k DEF AskInv
    <2>1. CASE Tick \/ Flip \/ (\E r \in Public : Post(r)) \/ Writer
      BY <2>1, <2>k DEF Writer, Tick, Flip, Post, Fill, Drop, storeVars, workVars, history
    <2>2. CASE BeginTick \/ Fetch \/ Save \/ PollInbox \/ Flush \/ Restart
      BY <2>2, <2>k DEF BeginTick, Fetch, Save, Saved, PollInbox, Flush, Restart, storeVars,
         workVars, history
    <2>3. CASE Crash
      <3>1. /\ cut' = IF pc = "record" /\ asks[cur] > cut[cur] THEN [cut EXCEPT ![cur] = @ + 1] ELSE cut
            /\ batch' = {} /\ pc' = "down" /\ UNCHANGED <<ans, asks>>
        BY <2>3 DEF Crash, storeVars
      <3>2. \A r \in Requests : cut'[r] >= cut[r] BY <2>0, <3>1
      <3>3. ASSUME NEW r \in Requests \ ans PROVE asks[r] <= cut'[r]
        <4>1. CASE pc = "record" /\ r = cur BY <2>0, <3>1, <4>1 DEF AskInv
        <4>2. CASE ~(pc = "record" /\ r = cur)
          <5>1. asks[r] <= cut[r] BY <4>2 DEF AskInv
          <5>2. cut'[r] >= cut[r] BY <3>2
          <5>3. asks[r] \in Nat /\ cut[r] \in Nat /\ cut'[r] \in Nat
            BY <2>0 DEF TypeInv, TypeOK
          <5> QED BY <5>1, <5>2, <5>3
        <4> QED BY <4>1, <4>2
      <3>4. \A r \in Requests : asks[r] <= 1 + cut'[r] BY <2>0, <3>1, <3>2 DEF AskInv
      <3> QED BY <3>1, <3>3, <3>4 DEF AskInv
    <2>4. CASE Pull
      <3>1. pc = "put" /\ pc' = "drain" /\ batch' = req' \ ans /\ UNCHANGED <<ans, asks, cut, cur>>
        BY <2>4 DEF Pull, history
      <3>2. cur = NoRequest BY <3>1 DEF TypeInv
      <3> QED BY <2>0, <2>b, <3>1, <3>2 DEF AskInv
    <2>5. ASSUME NEW r \in Requests, Pick(r) PROVE AskInv'
      <3>1. /\ r \in batch /\ batch' = batch \ {r} /\ cur' = r /\ UNCHANGED <<asks, cut>>
            /\ pc = "drain" /\ pc' \in {"ask", "publish"}
            /\ ans' \in {ans, ans \cup {r}} /\ (pc' = "ask" => ans' = ans)
        BY <2>5 DEF Pick, Refuse, Allow, history
      <3>2. r \notin ans /\ batch' \cap ans' = {} /\ cur' \notin batch' BY <3>1 DEF AskInv
      <3>3. \A q \in Requests \ ans : asks[q] <= cut[q] BY <3>1 DEF AskInv
      <3>4. \A q \in Requests \ ans' : asks'[q] <= cut'[q] BY <3>1, <3>3
      <3>5. \A q \in Requests : asks'[q] <= 1 + cut'[q] BY <3>1 DEF AskInv
      <3>6. pc' \in {"ask", "record"} => cur' \notin ans' BY <3>1, <3>2
      <3> QED BY <3>2, <3>4, <3>5, <3>6 DEF AskInv
    <2>6. CASE Ask
      <3>1. /\ asks' = [asks EXCEPT ![cur] = @ + 1] /\ pc = "ask" /\ pc' = "record"
            /\ UNCHANGED <<ans, cut, batch, cur>>
        BY <2>6 DEF Ask, storeVars, workVars
      <3>2. cur \in Requests \ ans /\ asks[cur] <= cut[cur] BY <2>0, <3>1 DEF AskInv
      <3>3. asks'[cur] <= 1 + cut[cur] BY <2>0, <3>1, <3>2
      <3>4. \A r \in Requests : r # cur => asks'[r] = asks[r] BY <2>0, <3>1
      <3> QED BY <2>0, <3>1, <3>2, <3>3, <3>4 DEF AskInv
    <2>7. CASE PutAnswer
      <3>1. /\ ans' = ans \cup {cur} /\ pc = "record" /\ pc' = "publish"
            /\ UNCHANGED <<asks, cut, batch, cur>>
        BY <2>7 DEF PutAnswer, workVars, history
      <3> QED BY <3>1 DEF AskInv
    <2>8. CASE Publish
      <3>1. /\ pc = "publish" /\ pc' = "drain" /\ cur' = NoRequest
            /\ UNCHANGED <<ans, asks, cut, batch>>
        BY <2>8 DEF Publish, history
      <3>2. NoRequest \notin batch BY <2>0, <2>b
      <3> QED BY <3>1, <3>2 DEF AskInv
    <2>9. CASE UNCHANGED vars BY <2>9, <2>k DEF vars, storeVars, workVars, history
    <2> QED BY <2>1, <2>2, <2>3, <2>4, <2>5, <2>6, <2>7, <2>8, <2>9 DEF Next, World, Daemon
  <1> QED BY <1>1, <1>2, TypeInvariant, PTL DEF Spec

(* However often a request is delivered, and whatever crashes, it calls the*)
(* model once, and again only when a crash cut its call off.               *)
THEOREM CallsOnce == Spec => []AskedOnce
  <1>1. AskInv => AskedOnce BY DEF AskInv, AskedOnce
  <1> QED BY <1>1, AskInvariant, PTL

(***************************************************************************)
(* Where requests and answers are.                                         *)
(***************************************************************************)
KeptInv == NothingVanishes /\ (pc = "publish" => cur \in ans)

LEMMA KeptInvariant == Spec => []KeptInv
  <1>1. Init => KeptInv BY DEF Init, KeptInv, NothingVanishes
  <1>2. TypeInv /\ KeptInv /\ [Next]_vars => KeptInv'
    <2> SUFFICES ASSUME TypeInv, KeptInv, [Next]_vars PROVE KeptInv' OBVIOUS
    <2>0. inbox \in [Internal -> {"none", "half", "whole"}] /\ NoRequest \notin Requests
      BY Types
    <2>k. ASSUME UNCHANGED <<inbox, dropped, held, req, ans, lost, queue, note, cur>>,
                 pc = "publish" <=> pc' = "publish"
          PROVE  KeptInv'
      BY <2>k DEF KeptInv, NothingVanishes
    <2>1. CASE Tick \/ Flip \/ \E r \in Public : Post(r)
      BY <2>1, <2>k DEF Tick, Flip, Post, worldVars, mainVars, storeVars, workVars, history
    <2>2. CASE BeginTick \/ Fetch \/ Save \/ Restart
      BY <2>2, <2>k DEF BeginTick, Fetch, Save, Saved, Restart, worldVars, storeVars,
         workVars, history
    <2>3. ASSUME NEW r \in Internal, Fill(r) PROVE KeptInv'
      BY <2>0, <2>3 DEF Fill, KeptInv, NothingVanishes, storeVars, workVars, history
    <2>4. ASSUME NEW r \in Internal, NEW c \in {"half", "whole"}, Drop(r, c) PROVE KeptInv'
      BY <2>0, <2>4 DEF Drop, KeptInv, NothingVanishes, storeVars, workVars
    <2>5. CASE Crash
      BY <2>0, <2>5 DEF Crash, KeptInv, NothingVanishes, worldVars, storeVars
    <2>6. CASE PollInbox
      <3>1. held = {} BY <2>6 DEF PollInbox, TypeInv
      <3> QED BY <2>0, <2>6, <3>1 DEF PollInbox, KeptInv, NothingVanishes, storeVars
    <2>7. CASE Pull
      BY <2>0, <2>7 DEF Pull, PutRequests, KeptInv, NothingVanishes, worldVars, history
    <2>8. ASSUME NEW r \in Requests, Pick(r) PROVE KeptInv'
      <3>1. /\ cur' = r /\ pc = "drain" /\ (Refuse(r) \/ Allow(r))
            /\ UNCHANGED <<inbox, dropped, held, req, lost, queue, note>>
        BY <2>8 DEF Pick, worldVars, history
      <3>2. (pc' = "publish" /\ ans' = ans \cup {r}) \/ (pc' = "ask" /\ ans' = ans)
        BY <3>1 DEF Refuse, Allow
      <3>3. CASE pc' = "publish" /\ ans' = ans \cup {r} BY <3>1, <3>3 DEF KeptInv, NothingVanishes
      <3>4. CASE pc' = "ask" /\ ans' = ans BY <3>1, <3>4 DEF KeptInv, NothingVanishes
      <3> QED BY <3>2, <3>3, <3>4
    <2>9. CASE Ask
      BY <2>9, <2>k DEF Ask, worldVars, storeVars, workVars
    <2>10. CASE PutAnswer
      BY <2>10 DEF PutAnswer, KeptInv, NothingVanishes, worldVars, workVars, history
    <2>11. CASE Publish
      BY <2>0, <2>11 DEF Publish, KeptInv, NothingVanishes, worldVars, history, Requests
    <2>12. CASE Flush
      BY <2>12 DEF Flush, KeptInv, NothingVanishes, worldVars, storeVars, history
    <2>13. CASE UNCHANGED vars
      BY <2>13, <2>k DEF vars, worldVars, storeVars, workVars, history
    <2> QED BY <2>1, <2>2, <2>3, <2>4, <2>5, <2>6, <2>7, <2>8, <2>9, <2>10, <2>11, <2>12, <2>13
            DEF Next, World, Writer, Daemon
  <1> QED BY <1>1, <1>2, TypeInvariant, PTL DEF Spec

(* Every request, and every answer owed to a guest, is somewhere, or was   *)
(* lost in one of the ways named.                                          *)
THEOREM NothingIsLostSilently == Spec => []NothingVanishes
  <1>1. KeptInv => NothingVanishes BY DEF KeptInv
  <1> QED BY <1>1, KeptInvariant, PTL

(***************************************************************************)
(* The kill switch. A local switch that is open was open on main when, or  *)
(* after, the last refresh began, unless one is under way; a tick began    *)
(* less than KsEvery after that.                                           *)
(***************************************************************************)
Working == {"inbox", "put", "drain", "ask", "record", "publish"}
SwitchInv ==
  /\ ksAt <= now /\ closedAt <= now
  /\ pc = "save" /\ got = "open" => LastOpen >= ksAt
  /\ pc \in Working \cup {"tick"} /\ file = "open" => LastOpen >= ksAt
  /\ pc \in Working \cup {"fetch", "save"} => ksAt + KsEvery > tickAt
  /\ pc = "ask" /\ cur \in Public => file = "open"

LEMMA SwitchInvariant == Spec => []SwitchInv
  <1>1. Init => SwitchInv
    BY TickAssumption DEF Init, SwitchInv, Working
  <1>2. TypeInv /\ SwitchInv /\ [Next]_vars => SwitchInv'
    <2> SUFFICES ASSUME TypeInv, SwitchInv, [Next]_vars PROVE SwitchInv' OBVIOUS
    <2>0. /\ now \in Nat /\ closedAt \in Nat /\ ksAt \in Nat /\ tickAt \in Nat
          /\ main \in {"open", "closed"} /\ file \in {"open", "closed"} /\ got \in {"open", "closed"}
          /\ KsEvery \in Nat \ {0} /\ LastOpen \in Nat
      BY TickAssumption DEF TypeInv, TypeOK, LastOpen
    <2>k. ASSUME UNCHANGED <<now, main, closedAt, file, got, ksAt, tickAt>>,
                 pc' \in Working => pc \in Working,
                 pc' \in Working \cup {"tick"} => pc \in Working \cup {"tick"},
                 pc' \in Working \cup {"fetch", "save"} => pc \in Working \cup {"fetch", "save"},
                 pc' = "save" => pc = "save",
                 pc' = "ask" /\ cur' \in Public => file = "open"
          PROVE  SwitchInv'
      BY <2>k DEF SwitchInv, LastOpen
    <2>1. CASE Tick
      <3>1. now' = now + 1 /\ UNCHANGED <<main, closedAt, file, got, ksAt, tickAt, pc, cur>>
        BY <2>1 DEF Tick, worldVars, mainVars, ksVars, workVars
      <3>2. LastOpen' >= LastOpen /\ LastOpen' \in Nat BY <2>0, <3>1 DEF LastOpen
      <3> QED BY <2>0, <3>1, <3>2 DEF SwitchInv, Working
    <2>2. CASE Flip
      <3>1. /\ IF main = "open" THEN main' = "closed" /\ closedAt' = now
                                ELSE main' = "open" /\ closedAt' = 0
            /\ UNCHANGED <<now, file, got, ksAt, tickAt, pc, cur>>
        BY <2>2 DEF Flip, ksVars, workVars
      <3>2. LastOpen' >= LastOpen /\ LastOpen' \in Nat
        <4>1. CASE main = "open"
          <5>1. main' = "closed" /\ closedAt' = now BY <3>1, <4>1
          <5>2. LastOpen = now /\ LastOpen' = now BY <4>1, <5>1 DEF LastOpen
          <5> QED BY <2>0, <5>2
        <4>2. CASE main # "open"
          <5>1. main' = "open" BY <3>1, <4>2
          <5>2. LastOpen = closedAt /\ LastOpen' = now BY <3>1, <4>2, <5>1 DEF LastOpen
          <5> QED BY <2>0, <5>2 DEF SwitchInv
        <4> QED BY <4>1, <4>2
      <3>3. closedAt' <= now BY <2>0, <3>1
      <3> QED BY <2>0, <3>1, <3>2, <3>3 DEF SwitchInv, Working
    <2>3. CASE Crash
      <3>1. /\ pc' = "down" /\ UNCHANGED <<now, main, closedAt, file, got, ksAt>>
        BY <2>3 DEF Crash, worldVars, mainVars, ksVars
      <3> QED BY <3>1 DEF SwitchInv, LastOpen, Working
    <2>4. CASE (\E r \in Public : Post(r)) \/ Writer
      <3>1. UNCHANGED <<now, main, closedAt, file, got, ksAt, tickAt, pc, cur>>
        BY <2>4 DEF Writer, Post, Fill, Drop, mainVars, ksVars, workVars
      <3> QED BY <2>k, <3>1 DEF SwitchInv
    <2>5. CASE BeginTick
      <3>1. /\ tickAt' = now /\ pc = "tick"
            /\ IF now - ksAt < KsEvery THEN pc' = "inbox" /\ UNCHANGED ksAt
               ELSE pc' = "fetch" /\ ksAt' = now
            /\ UNCHANGED <<now, main, closedAt, file, got, cur>>
        BY <2>5 DEF BeginTick, worldVars, mainVars, workVars
      <3>2. UNCHANGED LastOpen BY <3>1 DEF LastOpen
      <3>3. CASE now - ksAt < KsEvery
        <4>1. ksAt + KsEvery > now BY <2>0, <3>3
        <4> QED BY <3>1, <3>2, <3>3, <4>1 DEF SwitchInv, Working
      <3>4. CASE ~(now - ksAt < KsEvery)
        <4>1. now + KsEvery > now BY <2>0
        <4> QED BY <2>0, <3>1, <3>2, <3>4, <4>1 DEF SwitchInv, Working
      <3> QED BY <3>3, <3>4
    <2>6. CASE Fetch
      <3>1. /\ got' \in {main, "closed"} /\ pc = "fetch" /\ pc' = "save"
            /\ UNCHANGED <<now, main, closedAt, file, ksAt, tickAt>>
        BY <2>6 DEF Fetch, worldVars, mainVars
      <3>2. UNCHANGED LastOpen /\ (main = "open" => LastOpen = now) BY <3>1 DEF LastOpen
      <3> QED BY <3>1, <3>2 DEF SwitchInv, Working
    <2>7. CASE Save
      <3>1. /\ file' = got /\ got' = "closed" /\ pc = "save" /\ pc' = "inbox"
            /\ UNCHANGED <<now, main, closedAt, ksAt, tickAt>>
        BY <2>7 DEF Save, Saved, worldVars, mainVars
      <3>2. UNCHANGED LastOpen BY <3>1 DEF LastOpen
      <3> QED BY <3>1, <3>2 DEF SwitchInv, Working
    <2>8. CASE PollInbox \/ Pull \/ Ask \/ PutAnswer \/ Publish
      BY <2>8, <2>k DEF PollInbox, Pull, Ask, PutAnswer, Publish, Working, worldVars, mainVars, ksVars
    <2>9. ASSUME NEW r \in Requests, Pick(r) PROVE SwitchInv'
      <3>1. /\ pc = "drain" /\ pc' \in {"ask", "publish"} /\ cur' = r
            /\ pc' = "ask" => ~Refused(r)
            /\ UNCHANGED <<now, main, closedAt, file, got, ksAt, tickAt>>
        BY <2>9 DEF Pick, Refuse, Allow, worldVars, mainVars, ksVars
      <3>2. pc' = "ask" /\ cur' \in Public => file = "open" BY <2>0, <3>1 DEF Refused
      <3> QED BY <2>k, <3>1, <3>2 DEF Working
    <2>10. CASE Flush
      <3>1. /\ pc = "drain" /\ pc' = "tick"
            /\ UNCHANGED <<now, main, closedAt, file, got, ksAt>>
        BY <2>10 DEF Flush, worldVars, mainVars, ksVars
      <3> QED BY <3>1 DEF SwitchInv, LastOpen, Working
    <2>11. CASE Restart
      <3>1. /\ pc' = "tick" /\ ksAt' = 0 /\ UNCHANGED <<now, main, closedAt, got>>
        BY <2>11 DEF Restart, worldVars, mainVars
      <3>2. UNCHANGED LastOpen /\ LastOpen >= 0 /\ 0 <= now BY <2>0, <3>1 DEF LastOpen
      <3> QED BY <3>1, <3>2 DEF SwitchInv, Working
    <2>12. CASE UNCHANGED vars
      <3>1. UNCHANGED <<now, main, closedAt, file, got, ksAt, tickAt, pc, cur>>
        BY <2>12 DEF vars, worldVars, mainVars, ksVars, workVars
      <3> QED BY <2>k, <3>1 DEF SwitchInv
    <2> QED BY <2>1, <2>2, <2>3, <2>4, <2>5, <2>6, <2>7, <2>8, <2>9, <2>10, <2>11, <2>12
            DEF Next, World, Daemon
  <1> QED BY <1>1, <1>2, TypeInvariant, PTL DEF Spec

(* No call for a guest is made on a switch that was closed for longer than *)
(* KsEvery when the tick began.                                            *)
THEOREM SwitchIsHonoured == Spec => []PublicAskUnderOpenSwitch
  <1>1. TypeInv /\ SwitchInv => PublicAskUnderOpenSwitch
    <2> SUFFICES ASSUME TypeInv, SwitchInv, pc = "ask", cur \in Public
                 PROVE  LastOpen + KsEvery > tickAt
      BY DEF PublicAskUnderOpenSwitch
    <2>1. LastOpen >= ksAt /\ ksAt + KsEvery > tickAt BY DEF SwitchInv, Working
    <2>2. LastOpen \in Nat /\ ksAt \in Nat /\ tickAt \in Nat /\ KsEvery \in Nat
      BY Types, TickAssumption DEF LastOpen
    <2> QED BY <2>1, <2>2
  <1> QED BY <1>1, TypeInvariant, SwitchInvariant, PTL

(***************************************************************************)
(* The visitor limit. What a visitor was allowed in this window is what the*)
(* processes before this one could allow, what this one's bucket counts,   *)
(* and a call carried over from the window before.                         *)
(***************************************************************************)
Pending(v) == IF pc = "ask" /\ cur \in Public /\ VisitorOf[cur] = v THEN 1 ELSE 0
Extra(v)   == IF v \in carried THEN 1 ELSE 0
Before     == IF pc = "down" THEN lives ELSE lives - 1
AllowInv ==
  /\ pc = "down" => DOMAIN buckets = {}
  /\ pc # "down" => lives > 0
  /\ \A v \in Visitors : asksIn[v] + Pending(v) <= Max * Before + Used(v) + Extra(v)

LEMMA CheckUsed ==
  ASSUME TypeInv, NEW v \in Visitors, NEW n \in 0..Max, Check(v, n), UNCHANGED now
  PROVE  Used(v)' = n /\ \A u \in Visitors \ {v} : Used(u)' = Used(u)
  <1>1. DOMAIN buckets' = Kept(v) \cup {v} BY DEF Check
  <1>2. buckets'[v] = [win |-> Win(now), n |-> n] BY DEF Check
  <1>3. \A u \in Kept(v) \ {v} : buckets'[u] = buckets[u] BY DEF Check
  <1>4. Win(now)' = Win(now) BY DEF Win
  <1>5. Used(v)' = n BY <1>1, <1>2, <1>4 DEF Used
  <1>6. ASSUME NEW u \in Visitors \ {v} PROVE Used(u)' = Used(u)
    <2>1. CASE u \in Kept(v)
      <3>1. u \in DOMAIN buckets BY <2>1 DEF Kept
      <3>2. u \in DOMAIN buckets' /\ buckets'[u] = buckets[u] BY <1>1, <1>3, <2>1
      <3> QED BY <1>4, <3>1, <3>2 DEF Used
    <2>2. CASE u \notin Kept(v)
      <3>1. u \notin DOMAIN buckets \/ buckets[u].win # Win(now) BY <2>2 DEF Kept
      <3>2. u \notin DOMAIN buckets' BY <1>1, <2>2
      <3> QED BY <3>1, <3>2 DEF Used
    <2> QED BY <2>1, <2>2
  <1> QED BY <1>5, <1>6

LEMMA Product == \A k \in Nat : Max * k \in Nat /\ Max * (k + 1) = Max * k + Max /\ Max * 0 = 0
  BY TickAssumption

LEMMA Counts ==
  ASSUME TypeInv, AllowInv
  PROVE  /\ Before \in Nat /\ Max * Before \in Nat /\ Max \in Nat
         /\ \A v \in Visitors : /\ asksIn[v] \in Nat /\ Pending(v) \in 0..1
                               /\ Used(v) \in 0..Max /\ Extra(v) \in 0..1
  <1>1. Before \in Nat BY Types DEF AllowInv, Before
  <1>2. \A v \in Visitors : Used(v) \in 0..Max BY UsedBound
  <1>3. \A v \in Visitors : Pending(v) \in 0..1 /\ Extra(v) \in 0..1 BY DEF Pending, Extra
  <1> QED BY <1>1, <1>2, <1>3, Product, Types, TickAssumption

LEMMA AllowInvariant == Spec => []AllowInv
  <1>1. Init => AllowInv
    <2> SUFFICES ASSUME Init PROVE AllowInv OBVIOUS
    <2>1. /\ pc = "tick" /\ lives = 1 /\ DOMAIN buckets = {} /\ carried = {}
          /\ \A v \in Visitors : asksIn[v] = 0
      BY DEF Init
    <2>2. Before = 0 /\ Max * Before = 0 BY <2>1, Product DEF Before
    <2>3. \A v \in Visitors : Pending(v) = 0 /\ Extra(v) = 0 /\ Used(v) = 0
      BY <2>1 DEF Pending, Extra, Used
    <2> QED BY <2>1, <2>2, <2>3 DEF AllowInv
  <1>2. TypeInv /\ TypeInv' /\ AllowInv /\ [Next]_vars => AllowInv'
    <2> SUFFICES ASSUME TypeInv, TypeInv', AllowInv, [Next]_vars PROVE AllowInv' OBVIOUS
    <2>0. /\ Before \in Nat /\ Max * Before \in Nat /\ Max \in Nat
          /\ \A v \in Visitors : /\ asksIn[v] \in Nat /\ Pending(v) \in 0..1
                                /\ Used(v) \in 0..Max /\ Extra(v) \in 0..1
      BY Counts
    <2>n. \A v \in Visitors : Used(v)' \in 0..Max
      BY TickAssumption DEF TypeInv, TypeOK, Used
    <2>a. \A v \in Visitors : asksIn[v] + Pending(v) <= Max * Before + Used(v) + Extra(v)
      BY DEF AllowInv
    <2>k. ASSUME UNCHANGED <<now, buckets, asksIn, carried, lives>>,
                 pc = "down" <=> pc' = "down",
                 pc' = "ask" => pc = "ask" /\ UNCHANGED cur
          PROVE  AllowInv'
      <3>1. UNCHANGED Before BY <2>k DEF Before
      <3>2. \A v \in Visitors : Used(v)' = Used(v) /\ Extra(v)' = Extra(v) BY <2>k DEF Used, Win, Extra
      <3>3. \A v \in Visitors : Pending(v)' \in 0..1 /\ Pending(v)' <= Pending(v) BY <2>k DEF Pending
      <3>4. ASSUME NEW v \in Visitors
            PROVE  asksIn[v] + Pending(v)' <= Max * Before + Used(v) + Extra(v)
        BY <2>0, <2>a, <3>3
      <3> QED BY <2>k, <3>1, <3>2, <3>4 DEF AllowInv
    <2>1. CASE Tick
      <3>1. /\ now' = now + 1 /\ UNCHANGED <<pc, cur, buckets>>
            /\ IF Win(now') = Win(now) THEN UNCHANGED <<asksIn, carried, lives>>
               ELSE /\ asksIn' = [v \in Visitors |-> 0]
                    /\ carried' = IF pc = "ask" /\ cur \in Public THEN {VisitorOf[cur]} ELSE {}
                    /\ lives' = IF pc = "down" THEN 0 ELSE 1
        BY <2>1 DEF Tick, workVars
      <3>2. CASE Win(now') = Win(now)
        <4>1. UNCHANGED <<pc, cur, asksIn, carried, lives>> BY <3>1, <3>2
        <4>2. \A v \in Visitors : UNCHANGED <<Used(v), Extra(v), Pending(v)>>
          BY <3>1, <3>2, <4>1 DEF Used, Win, Extra, Pending
        <4>3. UNCHANGED Before BY <4>1 DEF Before
        <4> QED BY <3>1, <4>1, <4>2, <4>3 DEF AllowInv
      <3>3. CASE Win(now') # Win(now)
        <4>1. Before' = 0 /\ Max * Before' = 0 BY <3>1, <3>3, Product DEF Before
        <4>2. \A v \in Visitors : Used(v)' \in 0..Max BY <2>n
        <4>3. \A v \in Visitors : Pending(v)' = Extra(v)' /\ Extra(v)' \in 0..1 /\ asksIn'[v] = 0
          BY <3>1, <3>3 DEF Pending, Extra
        <4>4. ASSUME NEW v \in Visitors
              PROVE  asksIn'[v] + Pending(v)' <= Max * Before' + Used(v)' + Extra(v)'
          BY <2>0, <4>1, <4>2, <4>3
        <4>5. pc # "down" => lives' > 0 BY <3>1, <3>3
        <4> QED BY <3>1, <4>4, <4>5 DEF AllowInv
      <3> QED BY <3>2, <3>3
    <2>2. CASE Flip \/ (\E r \in Public : Post(r)) \/ Writer
      BY <2>2, <2>k DEF Writer, Flip, Post, Fill, Drop, workVars, history
    <2>3. CASE Crash
      <3>1. /\ pc # "down" /\ pc' = "down" /\ DOMAIN buckets' = {}
            /\ UNCHANGED <<asksIn, carried, lives>>
        BY <2>3 DEF Crash
      <3>2. Before' = Before + 1 BY <3>1, Types DEF Before
      <3>3. Max * Before' = Max * Before + Max BY <2>0, <3>2, Product
      <3>4. \A v \in Visitors : Pending(v)' = 0 /\ Extra(v)' = Extra(v) /\ Used(v)' = 0
        BY <3>1 DEF Pending, Extra, Used
      <3>5. ASSUME NEW v \in Visitors
            PROVE  asksIn'[v] + Pending(v)' <= Max * Before' + Used(v)' + Extra(v)'
        <4>1. asksIn[v] <= Max * Before + Max + Extra(v) BY <2>0, <2>a
        <4> QED BY <2>0, <3>1, <3>3, <3>4, <4>1
      <3> QED BY <3>1, <3>5 DEF AllowInv
    <2>4. CASE Restart
      <3>1. /\ pc = "down" /\ pc' = "tick" /\ lives' = lives + 1
            /\ UNCHANGED <<now, buckets, asksIn, carried>>
        BY <2>4 DEF Restart, workVars
      <3>2. Before' = Before BY <3>1, Types DEF Before
      <3>3. \A v \in Visitors : Pending(v)' = Pending(v) /\ Extra(v)' = Extra(v) /\ Used(v)' = Used(v)
        BY <3>1 DEF Pending, Extra, Used, Win
      <3>4. lives' > 0 BY <3>1, Types
      <3> QED BY <2>a, <3>1, <3>2, <3>3, <3>4 DEF AllowInv
    <2>5. ASSUME NEW r \in Requests, Pick(r) PROVE AllowInv'
      <3>1. /\ pc = "drain" /\ cur' = r /\ (Refuse(r) \/ Allow(r)) /\ pc' \in {"ask", "publish"}
            /\ Refuse(r) => pc' = "publish"
            /\ UNCHANGED <<now, asksIn, carried, lives>>
        BY <2>5 DEF Pick, Refuse, Allow, history
      <3>2. /\ Before' = Before /\ \A v \in Visitors : Extra(v)' = Extra(v) /\ Pending(v) = 0
        BY <3>1 DEF Before, Extra, Pending
      <3>3. ASSUME NEW v \in Visitors
            PROVE  asksIn[v] + Pending(v)' <= Max * Before + Used(v)' + Extra(v)
        <4>1. CASE pc' = "ask" /\ r \in Public /\ VisitorOf[r] = v
          <5>1. Used(v) + 1 \in 0..Max /\ Check(v, Used(v) + 1) BY <3>1, <4>1, PickBuckets
          <5>2. Used(v)' = Used(v) + 1 BY <3>1, <5>1, CheckUsed
          <5>3. Pending(v)' = 1 BY <3>1, <4>1 DEF Pending
          <5> QED BY <2>0, <2>a, <3>2, <5>2, <5>3
        <4>2. CASE ~(pc' = "ask" /\ r \in Public /\ VisitorOf[r] = v)
          <5>1. Pending(v)' = 0 BY <3>1, <4>2 DEF Pending
          <5>2. Used(v)' \in Nat /\ Used(v)' >= Used(v)
            <6>1. CASE UNCHANGED buckets
              <7>1. Used(v)' = Used(v) BY <3>1, <6>1 DEF Used, Win
              <7> QED BY <2>0, <7>1
            <6>2. CASE ~UNCHANGED buckets
              <7>1. PICK n \in 0..Max :
                      r \in Public /\ n >= Used(VisitorOf[r]) /\ Check(VisitorOf[r], n)
                BY <3>1, <6>2, PickBuckets
              <7>2. VisitorOf[r] \in Visitors BY <7>1, Types
              <7>3. /\ Used(VisitorOf[r])' = n
                    /\ \A u \in Visitors \ {VisitorOf[r]} : Used(u)' = Used(u)
                BY <3>1, <7>1, <7>2, CheckUsed
              <7>4. CASE v = VisitorOf[r] BY <7>1, <7>3, <7>4
              <7>5. CASE v # VisitorOf[r] BY <2>0, <7>3, <7>5
              <7> QED BY <7>4, <7>5
            <6> QED BY <6>1, <6>2
          <5> QED BY <2>0, <2>a, <3>2, <5>1, <5>2
        <4> QED BY <4>1, <4>2
      <3> QED BY <3>1, <3>2, <3>3 DEF AllowInv
    <2>6. CASE Ask
      <3>1. /\ pc = "ask" /\ pc' = "record" /\ UNCHANGED <<now, buckets, carried, lives>>
            /\ asksIn' = IF cur \in Public THEN [asksIn EXCEPT ![VisitorOf[cur]] = @ + 1] ELSE asksIn
        BY <2>6 DEF Ask, workVars
      <3>2. /\ Before' = Before
            /\ \A v \in Visitors : Pending(v)' = 0 /\ Extra(v)' = Extra(v) /\ Used(v)' = Used(v)
        BY <3>1 DEF Before, Pending, Extra, Used, Win
      <3>3. ASSUME NEW v \in Visitors PROVE asksIn'[v] = asksIn[v] + Pending(v)
        BY <2>0, <3>1, Types DEF Pending
      <3> QED BY <2>0, <2>a, <3>1, <3>2, <3>3 DEF AllowInv
    <2>7. CASE BeginTick \/ Fetch \/ Save \/ PollInbox \/ Pull \/ PutAnswer \/ Publish \/ Flush
      BY <2>7, <2>k DEF BeginTick, Fetch, Save, Saved, PollInbox, Pull, PutAnswer, Publish, Flush,
         workVars, history
    <2>8. CASE UNCHANGED vars BY <2>8, <2>k DEF vars, workVars, history
    <2> QED BY <2>1, <2>2, <2>3, <2>4, <2>5, <2>6, <2>7, <2>8 DEF Next, World, Daemon
  <1> QED BY <1>1, <1>2, TypeInvariant, PTL DEF Spec

(* No visitor gets more calls in a window than the limit allows per        *)
(* process, for any limit, window and number of restarts.                  *)
THEOREM AllowanceIsKept == Spec => []AllowanceHolds
  <1>1. TypeInv /\ AllowInv => AllowanceHolds
    <2> SUFFICES ASSUME TypeInv, AllowInv, NEW v \in Visitors
                 PROVE  asksIn[v] <= Max * lives + Extra(v)
      BY DEF AllowanceHolds, Extra
    <2>0. /\ Before \in Nat /\ Max * Before \in Nat /\ Max \in Nat
          /\ asksIn[v] \in Nat /\ Pending(v) \in 0..1 /\ Used(v) \in 0..Max /\ Extra(v) \in 0..1
      BY Counts
    <2>1. asksIn[v] + Pending(v) <= Max * Before + Used(v) + Extra(v) BY DEF AllowInv
    <2>2. CASE pc = "down"
      <3>1. Used(v) = 0 /\ Before = lives BY <2>2 DEF AllowInv, Used, Before
      <3> QED BY <2>0, <2>1, <3>1
    <2>3. CASE pc # "down"
      <3>1. lives = Before + 1 BY <2>3, Types DEF Before
      <3>2. Max * lives = Max * Before + Max BY <2>0, <3>1, Product
      <3> QED BY <2>0, <2>1, <3>2
    <2> QED BY <2>2, <2>3
  <1> QED BY <1>1, TypeInvariant, AllowInvariant, PTL

(***************************************************************************)
(* The call a run of the service makes (step Ask), and the other two users *)
(* of a child process: ChildRuns, for any calls and any mix of the kinds   *)
(* that MixesAssumption allows.                                            *)
(***************************************************************************)

(* The calls and the children stay within their types.                     *)
THEOREM CallTypeCorrect == CallSpec => []CallTypeOK
  <1>1. CallInit => CallTypeOK BY MixesAssumption DEF CallInit, CallTypeOK
  <1>2. CallTypeOK /\ [CallNext]_callVars => CallTypeOK'
    <2> SUFFICES ASSUME CallTypeOK, [CallNext]_callVars PROVE CallTypeOK' OBVIOUS
    <2>1. ASSUME NEW c \in Calls, Start(c) PROVE CallTypeOK'
      BY <2>1 DEF Start, CallTypeOK
    <2>2. ASSUME NEW c \in Calls, Exit(c) PROVE CallTypeOK'
      BY <2>2 DEF Exit, CallTypeOK
    <2>3. ASSUME NEW c \in Calls, Release(c) PROVE CallTypeOK'
      BY <2>3 DEF Release, CallTypeOK
    <2>4. ASSUME NEW c \in Calls, OnError(c) PROVE CallTypeOK'
      BY <2>4 DEF OnError, Finish, ClearTimer, childVars, CallTypeOK
    <2>5. ASSUME NEW c \in Calls, OnClose(c) PROVE CallTypeOK'
      BY <2>5 DEF OnClose, Finish, ClearTimer, childVars, CallTypeOK
    <2>6. ASSUME NEW c \in Calls, OnTimeout(c) PROVE CallTypeOK'
      BY <2>6 DEF OnTimeout, AskTimeout, SignalTimeout, Finish,
         CallTypeOK
    <2>7. ASSUME NEW c \in Calls, OnStdinError(c) PROVE CallTypeOK'
      BY <2>7 DEF OnStdinError, CallTypeOK
    <2>8. CASE UNCHANGED callVars BY <2>8 DEF callVars, CallTypeOK
    <2> QED BY <2>1, <2>2, <2>3, <2>4, <2>5, <2>6, <2>7, <2>8 DEF CallNext, Node
  <1> QED BY <1>1, <1>2, PTL DEF CallSpec

(***************************************************************************)
(* A call that is ok has a child that ended, and one that was killed never *)
(* ends with 0: what the child did cannot change under the result.         *)
(***************************************************************************)
EndInv ==
  /\ \A c \in Calls : call[c] = "ok" => Exited(c)
  /\ \A c \in Calls : call[c] = "idle" => child[c] = "none"
  /\ \A c \in Calls : killed[c] => child[c] # "zero"
  /\ OkIsHonest

LEMMA EndInvariant == CallSpec => []EndInv
  <1>1. CallInit => EndInv BY DEF CallInit, EndInv, OkIsHonest
  <1>2. CallTypeOK /\ EndInv /\ [CallNext]_callVars => EndInv'
    <2> SUFFICES ASSUME CallTypeOK, EndInv, [CallNext]_callVars PROVE EndInv' OBVIOUS
    <2>0. /\ kind \in [Calls -> Kinds] /\ child \in [Calls -> {"none", "up", "zero", "bad", "unspawned"}]
          /\ call \in [Calls -> {"idle", "pending", "ok", "failed", "timeout", "gone"}]
          /\ printed \in [Calls -> BOOLEAN] /\ killed \in [Calls -> BOOLEAN]
      BY DEF CallTypeOK
    <2>k. ASSUME UNCHANGED <<kind, child, printed, killed>>,
                 \A c \in Calls : call'[c] \in {"ok", "idle"} => call[c] = call'[c]
          PROVE  EndInv'
      BY <2>k DEF EndInv, OkIsHonest, Exited
    <2>1. ASSUME NEW c \in Calls, Start(c) PROVE EndInv'
      <3>1. /\ call[c] = "idle" /\ call' = [call EXCEPT ![c] = "pending"]
            /\ \E new \in {"up", "unspawned"} : child' = [child EXCEPT ![c] = new]
            /\ UNCHANGED <<kind, printed, killed>>
        BY <2>1 DEF Start
      <3> QED BY <2>0, <3>1 DEF EndInv, OkIsHonest, Exited
    <2>2. ASSUME NEW c \in Calls, Exit(c) PROVE EndInv'
      <3>1. PICK code \in {"zero", "bad"}, text \in BOOLEAN :
              /\ killed[c] => code = "bad"
              /\ child' = [child EXCEPT ![c] = code] /\ printed' = [printed EXCEPT ![c] = text]
        BY <2>2 DEF Exit
      <3>2. child[c] = "up" /\ UNCHANGED <<kind, call, killed>> BY <2>2 DEF Exit
      <3>3. call[c] \notin {"ok", "idle"} BY <3>2 DEF EndInv, Exited
      <3> QED BY <2>0, <3>1, <3>2, <3>3 DEF EndInv, OkIsHonest, Exited
    <2>3. ASSUME NEW c \in Calls, Release(c) PROVE EndInv' BY <2>3, <2>k DEF Release
    <2>4. ASSUME NEW c \in Calls, OnError(c) PROVE EndInv'
      BY <2>0, <2>4, <2>k DEF OnError, Finish, childVars
    <2>5. ASSUME NEW c \in Calls, OnClose(c) PROVE EndInv'
      <3>1. Exited(c) /\ UNCHANGED childVars BY <2>5 DEF OnClose
      <3>2. \A d \in Calls \ {c} : call'[d] = call[d]
        BY <2>0, <2>5 DEF OnClose, Finish
      <3>3. call'[c] = call[c] \/ call'[c] = IF Good(c) THEN "ok" ELSE "failed"
        BY <2>0, <2>5 DEF OnClose, Finish
      <3>4. CASE call'[c] # "ok" \/ call'[c] = call[c]
        <4>1. call'[c] # "idle" \/ call'[c] = call[c] BY <3>3
        <4> QED BY <3>1, <3>2, <3>4, <4>1, <2>k DEF childVars
      <3>5. CASE call'[c] = "ok" /\ call'[c] # call[c]
        <4>1. Good(c) BY <3>3, <3>5
        <4>2. kind[c] \in {"ask", "run", "cli"} BY <2>0 DEF Kinds
        <4>3. /\ kind[c] = "ask" => child[c] = "zero" /\ printed[c] /\ ~killed[c]
              /\ kind[c] = "run" => child[c] = "zero"
              /\ kind[c] = "cli" => child[c] = "zero" \/ printed[c]
          BY <4>1 DEF Good, AskGood, RunGood, CliGood, EndInv
        <4>4. ASSUME NEW d \in Calls, call'[d] = "ok"
              PROVE  /\ kind[d] = "ask" => child[d] = "zero" /\ printed[d] /\ ~killed[d]
                     /\ kind[d] = "run" => child[d] = "zero"
                     /\ kind[d] = "cli" => child[d] = "zero" \/ printed[d]
                     /\ Exited(d)
          BY <3>1, <3>2, <4>3, <4>4 DEF EndInv, OkIsHonest
        <4>5. \A d \in Calls : call'[d] = "idle" => call[d] = "idle" BY <3>2, <3>5
        <4>6. \A d \in Calls : kind[d] \in {"ask", "run", "cli"} BY <2>0 DEF Kinds
        <4> QED
          BY <3>1, <4>4, <4>5, <4>6 DEF EndInv, OkIsHonest, Exited, childVars
      <3> QED BY <3>4, <3>5
    <2>6. ASSUME NEW c \in Calls, OnTimeout(c) PROVE EndInv'
      <3>1. UNCHANGED <<kind, child, printed>> BY <2>6 DEF OnTimeout
      <3>2. killed' = killed \/ killed' = [killed EXCEPT ![c] = child[c] = "up"]
        BY <2>6 DEF OnTimeout, AskTimeout, SignalTimeout
      <3>3. \A d \in Calls : call'[d] \in {"ok", "idle"} => call[d] = call'[d]
        BY <2>0, <2>6 DEF OnTimeout, AskTimeout, SignalTimeout, Finish
      <3>4. \A d \in Calls : killed'[d] => killed[d] \/ child[d] = "up" BY <2>0, <3>2
      <3> QED BY <2>0, <3>1, <3>3, <3>4 DEF EndInv, OkIsHonest, Exited
    <2>7. ASSUME NEW c \in Calls, OnStdinError(c) PROVE EndInv'
      BY <2>0, <2>7, <2>k DEF OnStdinError
    <2>8. CASE UNCHANGED callVars BY <2>8, <2>k DEF callVars
    <2> QED BY <2>1, <2>2, <2>3, <2>4, <2>5, <2>6, <2>7, <2>8 DEF CallNext, Node
  <1> QED BY <1>1, <1>2, CallTypeCorrect, PTL DEF CallSpec

(* A result of ok is earned by the child's exit code and text, whatever    *)
(* timers, signals and other calls do.                                     *)
THEOREM OkIsEarned == CallSpec => []OkIsHonest
  <1>1. EndInv => OkIsHonest BY DEF EndInv
  <1> QED BY <1>1, EndInvariant, PTL
=============================================================================
