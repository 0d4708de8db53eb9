--------------------------- MODULE PipelineProofs ---------------------------
(***************************************************************************)
(* Proofs about Pipeline, for any number of calls, tools and fingerprints  *)
(* and any policy, in three parts.                                         *)
(*                                                                         *)
(* The first is about coalescing in Apply, from FlightInv.                 *)
(*                                                                         *)
(* The second is about what a call leaves behind: its audit records, its   *)
(* Result, the entry it caches and the execution it caused.  The           *)
(* properties speak of returned calls; the invariant (Trail) says what a   *)
(* call has written, executed and been given at every place it can stand   *)
(* in Apply.  It is about one call at a time, so a step is judged by what  *)
(* it does to its own call.  What passes between calls, cached entries,    *)
(* replays and coalesced answers, is traced to the execution it came from  *)
(* (CacheHoldsAnswers, ReplayProvenance).                                  *)
(*                                                                         *)
(* The third shows, with that invariant, that Apply implements Coalescing. *)
(***************************************************************************)
EXTENDS Adapters, FiniteSetTheorems, TLAPS

\* The policy, the key and the bucket of a call have their types.
LEMMA PolicyTypes ==
  /\ \A t \in Tools :
       /\ Policy[t].mode \in Modes /\ Policy[t].ttl \in Nat
       /\ Policy[t].threshold \in Nat /\ Policy[t].confirm \in BOOLEAN
       /\ Policy[t].ack \in BOOLEAN /\ Policy[t].allowed \in SUBSET Callers
       /\ Policy[t].rps \in Nat /\ Policy[t].burst \in Nat
       /\ Burst(t) \in Nat
  /\ \A r \in Requests : r.tool \in Tools /\ r.body \in Hashes \cup {BadBody}
<1>1. \A t \in Tools :
       /\ Policy[t].mode \in Modes /\ Policy[t].ttl \in Nat
       /\ Policy[t].threshold \in Nat /\ Policy[t].confirm \in BOOLEAN
       /\ Policy[t].ack \in BOOLEAN /\ Policy[t].allowed \in SUBSET Callers
       /\ Policy[t].rps \in Nat /\ Policy[t].burst \in Nat
  BY PolicyAssumption
<1>2. \A t \in Tools : Burst(t) \in Nat
  BY <1>1 DEF Burst
<1>3. \A r \in Requests : r.tool \in Tools /\ r.body \in Hashes \cup {BadBody}
  BY RequestAssumption DEF RequestSet
<1> QED
  BY <1>1, <1>2, <1>3

\* The pipeline starts within FlightInv.
LEMMA FlightInit == Init => FlightInv
<1> SUFFICES ASSUME Init PROVE FlightInv
  OBVIOUS
<1>1. TypeOK
  <2>1. entries \in [Keys -> Entries \cup {NoEntry}]
    <3> SUFFICES ASSUME NEW k \in Keys
                 PROVE  [by |-> NoCall, body |-> TRUE, created |-> 0,
                         ttl |-> Policy[k[1]].ttl, emb |-> TRUE, replays |-> 0]
                          \in Entries
      BY DEF Init
    <3>1. Policy[k[1]].ttl \in Nat
      BY PolicyTypes DEF Keys
    <3> QED
      BY <3>1 DEF Entries, EntriesOf, Writers
  <2>2. result \in [Calls -> Results]
    BY DEF Init, Results, NoResult, Bare, Answer, Writers, Matches
  <2>3. audit \in [Calls -> Seq(AuditRecords)]
    BY DEF Init
  <2>4. tokens \in [Tools -> Nat]
    BY PolicyTypes DEF Init
  <2> QED
    BY <2>1, <2>2, <2>3, <2>4 DEF Init, TypeOK, Writers
<1>2. LeadersAreInflight
  BY DEF Init, LeadersAreInflight, Forwarding
<1>3. CallsInOrder
  BY DEF Init, CallsInOrder, Forwarding, Undecided
<1>4. WaitersAttached
  BY DEF Init, WaitersAttached
<1> QED
  BY <1>1, <1>2, <1>3, <1>4 DEF FlightInv

-----------------------------------------------------------------------------
(* The building blocks of the actions keep their types.                    *)

\* Writing an audit record (writeAudit) keeps the logs well formed.
LEMMA AuditType ==
  ASSUME TypeOK, NEW c \in Calls, NEW d \in Decisions, NEW m \in Matches,
         WriteAudit(c, d, m)
  PROVE  audit' \in [Calls -> Seq(AuditRecords)]
<1> DEFINE r == IF Shadow THEN [decision |-> "forward", would |-> d, match |-> m]
                          ELSE [decision |-> d, would |-> "none", match |-> m]
<1>1. r \in AuditRecords
  BY DEF AuditRecords, Decisions
<1>2. audit[c] \in Seq(AuditRecords)
  BY DEF TypeOK
<1>3. Append(audit[c], r) \in Seq(AuditRecords)
  BY <1>1, <1>2
<1> QED
  BY <1>3 DEF WriteAudit, TypeOK

\* What a call's own forward() gives it is a Result.
LEMMA ForwardResultType ==
  ASSUME TypeOK, NEW c \in Calls, NEW o
  PROVE  ForwardResult(c, o) \in Results
BY DEF ForwardResult, Answer, Results, TypeOK, Decisions, Matches, Writers

\* A Result without a response is a Result.
LEMMA BareType ==
  ASSUME NEW d \in Decisions \cup {"none"}, NEW m \in Matches,
         NEW err \in {"none", "analyse", "error", "panic", "leader", "ctx"}
  PROVE  Bare(d, m, err) \in Results
BY DEF Bare, Answer, Results, Writers

\* A replay or a block (decide on a hit, and Apply's branch) keeps the types.
LEMMA HitType ==
  ASSUME TypeOK, NEW c \in Calls, NEW h \in Hashes,
         NEW m \in {"exact", "semantic"},
         entries[<<Tool(c), h>>] # NoEntry, DecideHit(c, h, m)
  PROVE  /\ pc' \in [Calls -> Running \cup {"idle", "returned", "dead"}]
         /\ audit' \in [Calls -> Seq(AuditRecords)]
         /\ result' \in [Calls -> Results]
<1> DEFINE e == entries[<<Tool(c), h>>]
           confirm == Pol(c).mode = "strict" /\ Pol(c).confirm
           d == IF confirm THEN "block" ELSE "replay"
           r == Answer(d, m, h, IF confirm THEN NoCall ELSE e.by,
                       IF confirm THEN "none" ELSE RenderReplayBody(e), "none")
<1>1. Tool(c) \in Tools
  BY PolicyTypes DEF TypeOK, Tool
<1>2. e \in Entries
  BY <1>1 DEF TypeOK, Keys
<1>3. e.by \in Writers /\ RenderReplayBody(e) \in {"raw", "ack"}
  BY <1>2 DEF Entries, EntriesOf, RenderReplayBody
<1>4. r \in Results
  BY <1>3 DEF Answer, Results, Decisions, Matches, Writers
<1>5. d \in Decisions /\ m \in Matches
  BY DEF Decisions, Matches
<1>6. WriteAudit(c, d, m)
  BY DEF DecideHit
<1>7. audit' \in [Calls -> Seq(AuditRecords)]
  BY <1>5, <1>6, AuditType
<1>8. /\ \/ result' = result
         \/ result' = [result EXCEPT ![c] = r]
      /\ \/ Goto(c, "send")
         \/ Goto(c, IF confirm THEN "returned" ELSE "increment")
  BY DEF DecideHit
<1> HIDE DEF r, d, confirm
<1>9. result' \in [Calls -> Results]
  BY <1>4, <1>8 DEF TypeOK
<1>10. pc' \in [Calls -> Running \cup {"idle", "returned", "dead"}]
  BY <1>8 DEF TypeOK, Goto, Running
<1> QED
  BY <1>7, <1>9, <1>10

\* Apply's forward branch keeps the types.
LEMMA DecideForwardType ==
  ASSUME TypeOK, NEW c \in Calls, DecideForward(c)
  PROVE  /\ pc' \in [Calls -> Running \cup {"idle", "returned", "dead"}]
         /\ audit' \in [Calls -> Seq(AuditRecords)]
         /\ result' \in [Calls -> Results]
<1>1. audit' = audit \/ WriteAudit(c, "forward", "none")
  BY DEF DecideForward
<1>2. audit' \in [Calls -> Seq(AuditRecords)]
  BY <1>1, AuditType DEF TypeOK, Decisions, Matches
<1> QED
  BY <1>2 DEF DecideForward, Goto, TypeOK, Running

\* decide after an exact miss keeps the types.
LEMMA MissedType ==
  ASSUME TypeOK, NEW c \in Calls, Missed(c)
  PROVE  /\ pc' \in [Calls -> Running \cup {"idle", "returned", "dead"}]
         /\ audit' \in [Calls -> Seq(AuditRecords)]
         /\ result' \in [Calls -> Results]
<1>1. CASE DecideForward(c)
  BY <1>1, DecideForwardType
<1>2. CASE Goto(c, "scan") /\ UNCHANGED <<audit, result>>
  BY <1>2 DEF Goto, TypeOK, Running
<1> QED
  BY <1>1, <1>2 DEF Missed

\* The end of doForward keeps the types.
LEMMA FinishType ==
  ASSUME TypeOK, NEW c \in Calls, NEW o, Finish(c, o)
  PROVE  /\ pc' \in [Calls -> Running \cup {"idle", "returned", "dead"}]
         /\ handle' \in [Calls -> {"unset", "result", "error"}]
         /\ result' \in [Calls -> Results]
<1>1. ForwardResult(c, o) \in Results
  BY ForwardResultType
<1>2. result' = result \/ result' = [result EXCEPT ![c] = ForwardResult(c, o)]
  BY DEF Finish
<1>3. result' \in [Calls -> Results]
  BY <1>1, <1>2 DEF TypeOK
<1>4. HandleOf(o) \in {"result", "error"}
  BY DEF HandleOf
<1>5. handle' = handle \/ handle' = [handle EXCEPT ![c] = HandleOf(o)]
  BY DEF Finish
<1>6. handle' \in [Calls -> {"unset", "result", "error"}]
  BY <1>4, <1>5 DEF TypeOK
<1>7. Goto(c, "release") \/ Goto(c, "returned")
  BY DEF Finish
<1>8. pc' \in [Calls -> Running \cup {"idle", "returned", "dead"}]
  BY <1>7 DEF Goto, TypeOK, Running
<1> QED
  BY <1>3, <1>6, <1>8

-----------------------------------------------------------------------------
(* TypeOK.  It is not inductive alone: that a waiter's leader is a call and *)
(* that a call past analyse has a fingerprint come from FlightInv.          *)

\* The head of Apply (mode, ACL, limiter, analyse) keeps every type.
LEMMA BeginType ==
  ASSUME TypeOK, NEW c \in Calls, Begin(c)
  PROVE  TypeOK'
<1>0. Tool(c) \in Tools
  BY PolicyTypes DEF TypeOK, Tool
<1>1. CASE ApplyOff(c)
  BY <1>1 DEF ApplyOff, TypeOK, Goto, Running, flightVars, histVars
<1>2. ASSUME NEW d \in {"forbidden", "ratelimited"}, Reject(c, d)
      PROVE  TypeOK'
  <2>1. audit' \in [Calls -> Seq(AuditRecords)]
    BY <1>2, AuditType DEF Reject, Decisions, Matches
  <2>2. Bare(d, "none", "none") \in Results
    BY BareType DEF Decisions, Matches
  <2>3. result' \in [Calls -> Results]
    BY <1>2, <2>2 DEF Reject, TypeOK
  <2> QED
    BY <1>2, <2>1, <2>3 DEF Reject, TypeOK, Goto, Running, flightVars, histVars
<1>3. CASE ApplyForbidden(c)
  BY <1>2, <1>3 DEF ApplyForbidden
<1>4. CASE ApplyRateLimited(c)
  BY <1>2, <1>4 DEF ApplyRateLimited
<1>5. ASSUME PassGates(c) PROVE tokens' \in [Tools -> Nat]
  BY <1>0, <1>5, PolicyTypes DEF PassGates, Allow, TakeToken, TypeOK
<1>6. CASE ApplyBadBody(c)
  <2>1. tokens' \in [Tools -> Nat]
    BY <1>5, <1>6 DEF ApplyBadBody
  <2>2. Bare("none", "none", "analyse") \in Results
    BY BareType DEF Matches
  <2>3. result' \in [Calls -> Results]
    BY <1>6, <2>2 DEF ApplyBadBody, TypeOK
  <2> QED
    BY <1>6, <2>1, <2>3 DEF ApplyBadBody, TypeOK, Goto, Running, flightVars, histVars
<1>7. CASE ApplyAnalysed(c)
  <2>1. tokens' \in [Tools -> Nat]
    BY <1>5, <1>7 DEF ApplyAnalysed
  <2>2. hash' \in [Calls -> Hashes \cup {NoHash}]
    BY <1>7, PolicyTypes DEF ApplyAnalysed, TypeOK
  <2>3. owed' \in [Calls -> BOOLEAN]
    BY <1>7 DEF ApplyAnalysed, TypeOK, Dedupes, Live, Expired
  <2> QED
    BY <1>7, <2>1, <2>2, <2>3 DEF ApplyAnalysed, TypeOK, Goto, Running, flightVars
<1> QED
  BY <1>1, <1>3, <1>4, <1>6, <1>7 DEF Begin

\* Every step a call's goroutine takes keeps every type.
LEMMA StepType ==
  ASSUME FlightInv, NEW c \in Calls, Step(c)
  PROVE  TypeOK'
<1>0. TypeOK /\ Tool(c) \in Tools
  BY PolicyTypes DEF FlightInv, TypeOK, Tool
<1>h. pc[c] \in Undecided \cup {"wait"} => hash[c] \in Hashes
  BY DEF FlightInv, CallsInOrder
<1> DEFINE Decided == /\ pc' \in [Calls -> Running \cup {"idle", "returned", "dead"}]
                      /\ audit' \in [Calls -> Seq(AuditRecords)]
                      /\ result' \in [Calls -> Results]
<1>d. ASSUME UNCHANGED <<entries, decideFrame>>, owed' = owed, Decided
      PROVE  TypeOK'
  BY <1>0, <1>d DEF TypeOK, decideFrame, flightVars
<1>1. CASE GetError(c)
  <2>1. Decided
    BY <1>0, <1>1, DecideForwardType DEF GetError
  <2> QED
    BY <1>0, <1>1, <2>1 DEF GetError, TypeOK, decideFrame, flightVars
<1>2. CASE GetMiss(c)
  BY <1>0, <1>2, <1>d, MissedType DEF GetMiss
<1>3. CASE GetExpired(c)
  BY <1>0, <1>3, <1>d DEF GetExpired, TypeOK, Goto, Running
<1>4. CASE LazyDelete(c)
  <2>1. Decided
    BY <1>0, <1>4, MissedType DEF LazyDelete
  <2> QED
    BY <1>0, <1>4, <2>1 DEF LazyDelete, Removed, TypeOK, decideFrame, flightVars
<1>5. CASE GetHit(c)
  <2>1. CASE DecideForward(c)
    BY <1>0, <1>5, <2>1, <1>d, DecideForwardType DEF GetHit
  <2>2. CASE DecideHit(c, hash[c], "exact")
    <3>1. hash[c] \in Hashes /\ entries[<<Tool(c), hash[c]>>] # NoEntry
      BY <1>5, <1>h DEF GetHit, Undecided, Live, Key
    <3>2. Decided
      BY <1>0, <2>2, <3>1, HitType
    <3> QED
      BY <1>5, <3>2, <1>d DEF GetHit
  <2> QED
    BY <1>5, <2>1, <2>2 DEF GetHit
<1>6. CASE ScanNothing(c)
  BY <1>0, <1>6, <1>d, DecideForwardType DEF ScanNothing
<1>7. CASE ScanHit(c)
  <2>1. PICK h \in Best(c) : DecideHit(c, h, "semantic")
    BY <1>7 DEF ScanHit
  <2>2. h \in Hashes /\ entries[<<Tool(c), h>>] # NoEntry
    BY DEF Best, Candidates, Live
  <2>3. Decided
    BY <1>0, <2>1, <2>2, HitType
  <2> QED
    BY <1>7, <2>3, <1>d DEF ScanHit
<1>8. CASE IncrementReplay(c)
  <2>1. entries' \in [Keys -> Entries \cup {NoEntry}]
    <3> DEFINE k == <<Tool(c), result[c].hash>>
    <3>1. CASE entries' = entries
      BY <1>0, <3>1 DEF TypeOK
    <3>2. CASE entries[k] # NoEntry /\ entries' = [entries EXCEPT ![k].replays = @ + 1]
      <4>1. CASE k \in Keys
        <5>1. entries[k] \in Entries
          BY <1>0, <3>2, <4>1 DEF TypeOK
        <5>2. [entries[k] EXCEPT !.replays = @ + 1] \in Entries
          BY <5>1 DEF Entries, EntriesOf
        <5> QED
          BY <1>0, <3>2, <4>1, <5>2 DEF TypeOK
      <4>2. CASE k \notin Keys
        BY <1>0, <3>2, <4>2 DEF TypeOK
      <4> QED
        BY <4>1, <4>2
    <3> QED
      BY <1>8, <3>1, <3>2 DEF IncrementReplay, Counted
  <2> QED
    BY <1>0, <1>8, <2>1 DEF IncrementReplay, TypeOK, Goto, Running, decideFrame, flightVars
<1>9. CASE Lead(c)
  <2>1. audit' \in [Calls -> Seq(AuditRecords)]
    BY <1>0, <1>9, AuditType DEF Lead, Decisions, Matches
  <2>2. inflight' \in [Hashes -> Writers] /\ leader' \in [Calls -> Writers]
    BY <1>0, <1>9 DEF Lead, TypeOK, Writers
  <2> QED
    BY <1>0, <1>9, <2>1, <2>2 DEF Lead, TypeOK, Goto, Running, histVars
<1>10. CASE Follow(c)
  <2>1. hash[c] \in Hashes
    BY <1>10, <1>h DEF Follow, Undecided
  <2>2. leader' \in [Calls -> Writers]
    BY <1>0, <1>10, <2>1 DEF Follow, TypeOK, Writers
  <2> QED
    BY <1>0, <1>10, <2>2 DEF Follow, TypeOK, Goto, Running, flightVars, histVars
<1>11. CASE WaitDone(c)
  <2> DEFINE l == leader[c]
             fr == ForwardResult(l, outcome[l])
             r == CoalescedResult(c)
  <2>1. l \in Calls
    BY <1>11 DEF WaitDone, FlightInv, WaitersAttached
  <2>2. fr \in Results
    BY <1>0, <2>1, ForwardResultType
  <2>3. Answer("replay", "coalesced", fr.hash, fr.of, fr.body, "none") \in Results
    <3> HIDE DEF fr
    <3> QED
      BY <2>2 DEF Answer, Results, Decisions, Matches
  <2>4. /\ Bare("forward", "none", "leader") \in Results
        /\ Bare("replay", "coalesced", "none") \in Results
    BY BareType DEF Decisions, Matches
  <2>5. r \in Results
    BY <2>3, <2>4 DEF CoalescedResult
  <2>6. r.decision \in Decisions /\ r.match \in Matches
    <3>1. r.decision \in {"forward", "replay"} /\ r.match \in {"none", "coalesced"}
      BY DEF CoalescedResult, Bare, Answer
    <3> QED
      BY <3>1 DEF Decisions, Matches
  <2> HIDE DEF r
  <2>7. WriteAudit(c, r.decision, r.match) /\ result' = [result EXCEPT ![c] = r]
    BY <1>11 DEF WaitDone, r
  <2>8. audit' \in [Calls -> Seq(AuditRecords)]
    BY <1>0, <2>6, <2>7, AuditType
  <2>9. result' \in [Calls -> Results]
    BY <1>0, <2>5, <2>7 DEF TypeOK
  <2>10. pc' \in [Calls -> Running \cup {"idle", "returned", "dead"}]
    BY <1>0, <1>11 DEF WaitDone, TypeOK, Goto
  <2> QED
    BY <1>11, <1>d, <2>8, <2>9, <2>10 DEF WaitDone
<1>12. CASE WaitCancelled(c)
  <2>1. audit' \in [Calls -> Seq(AuditRecords)]
    BY <1>0, <1>12, AuditType DEF WaitCancelled, Decisions, Matches
  <2>2. Bare("forward", "none", "ctx") \in Results
    BY BareType DEF Decisions, Matches
  <2>3. result' \in [Calls -> Results]
    BY <1>0, <1>12, <2>2 DEF WaitCancelled, TypeOK
  <2>4. pc' \in [Calls -> Running \cup {"idle", "returned", "dead"}]
    BY <1>0, <1>12 DEF WaitCancelled, TypeOK, Goto
  <2> QED
    BY <1>12, <1>d, <2>1, <2>3, <2>4 DEF WaitCancelled
<1>13. CASE Send(c)
  BY <1>0, <1>13 DEF Send, TypeOK, Goto, Running, flightVars
<1>14. CASE Put(c)
  <2>1. Finish(c, outcome[c])
    BY <1>14 DEF Put
  <2>2. entries' \in [Keys -> Entries \cup {NoEntry}]
    <3>1. CASE entries' = entries
      BY <1>0, <3>1 DEF TypeOK
    <3>2. ASSUME NEW emb \in BOOLEAN,
                 entries' = Stored(entries, Key(c), BuildEntry(c, emb))
          PROVE  entries' \in [Keys -> Entries \cup {NoEntry}]
      <4>1. BuildEntry(c, emb) \in Entries
        BY <1>0, PolicyTypes DEF BuildEntry, Entries, EntriesOf, Writers, TypeOK, Pol
      <4> QED
        BY <1>0, <3>2, <4>1 DEF Stored, TypeOK
    <3>3. Searches(c) \in BOOLEAN
      BY DEF Searches
    <3> QED
      BY <1>14, <3>1, <3>2, <3>3 DEF Put
  <2> QED
    BY <1>0, <1>14, <2>1, <2>2, FinishType DEF Put, TypeOK, histVars
<1>15. CASE Release(c)
  BY <1>0, <1>15 DEF Release, TypeOK, Goto, Running, histVars, Writers
<1>16. CASE Close(c)
  <2>1. ForwardResult(c, outcome[c]) \in Results
    BY <1>0, ForwardResultType
  <2>2. result' \in [Calls -> Results]
    BY <1>0, <1>16, <2>1 DEF Close, TypeOK
  <2> QED
    BY <1>0, <1>16, <2>2 DEF Close, TypeOK, Goto, Running, histVars
<1> QED
  BY <1>1, <1>2, <1>3, <1>4, <1>5, <1>6, <1>7, <1>8, <1>9, <1>10, <1>11,
     <1>12, <1>13, <1>14, <1>15, <1>16 DEF Step

\* The return of forward() keeps every type.
LEMMA UpstreamType ==
  ASSUME TypeOK, NEW c \in Calls, Upstream(c)
  PROVE  TypeOK'
<1>1. PICK o \in (IF c \in executed THEN Outcomes ELSE {}) \cup
                 (IF c \notin executed \/ ctxDone[c] THEN Unanswered ELSE {}) :
        /\ outcome' = [outcome EXCEPT ![c] = o]
        /\ \/ Cacheable(c, o) /\ Goto(c, "put") /\ UNCHANGED <<handle, result>>
           \/ ~Cacheable(c, o) /\ Finish(c, o)
  BY DEF Upstream
<1>2. o \in AllOutcomes
  BY EnvironmentAssumption DEF AllOutcomes, Unanswered
<1>3. outcome' \in [Calls -> AllOutcomes \cup {"none"}]
  BY <1>1, <1>2 DEF TypeOK
<1>4. /\ pc' \in [Calls -> Running \cup {"idle", "returned", "dead"}]
      /\ handle' \in [Calls -> {"unset", "result", "error"}]
      /\ result' \in [Calls -> Results]
  <2>1. CASE Finish(c, o)
    BY <2>1, FinishType
  <2>2. CASE Goto(c, "put") /\ UNCHANGED <<handle, result>>
    BY <2>2 DEF Goto, TypeOK, Running
  <2> QED
    BY <1>1, <2>1, <2>2
<1> QED
  BY <1>3, <1>4 DEF Upstream, TypeOK, histVars

\* Clock, cancellation, admin delete and restart keep every type.
LEMMA EnvironmentType ==
  ASSUME TypeOK,
         \/ \E c \in Calls : Cancel(c)
         \/ \E k \in Keys : AdminDelete(k)
         \/ Tick
         \/ Restart
  PROVE  TypeOK'
<1>1. ASSUME NEW c \in Calls, Cancel(c) PROVE TypeOK'
  BY <1>1 DEF Cancel, TypeOK, callVars, flightVars
<1>2. ASSUME NEW k \in Keys, AdminDelete(k) PROVE TypeOK'
  BY <1>2 DEF AdminDelete, Removed, TypeOK, callVars, flightVars
<1>3. CASE Tick
  <2>1. tokens' \in [Tools -> Nat]
    BY <1>3, PolicyTypes DEF Tick, Refill, TypeOK
  <2>2. owed' \in [Calls -> BOOLEAN]
    BY <1>3 DEF Tick, Live, TypeOK
  <2>3. now' \in Nat
    BY <1>3 DEF Tick, TypeOK
  <2> QED
    BY <1>3, <2>1, <2>2, <2>3 DEF Tick, TypeOK, callVars, flightVars
<1>4. CASE Restart
  <2>1. tokens' \in [Tools -> Nat]
    BY <1>4, PolicyTypes DEF Restart
  <2>2. inflight' \in [Hashes -> Writers]
    BY <1>4 DEF Restart, Writers
  <2>3. entries' \in [Keys -> Entries \cup {NoEntry}]
    BY <1>4 DEF Restart, TypeOK
  <2>4. pc' \in [Calls -> Running \cup {"idle", "returned", "dead"}]
    BY <1>4 DEF Restart, TypeOK
  <2> QED
    BY <1>4, <2>1, <2>2, <2>3, <2>4 DEF Restart, TypeOK, histVars
<1> QED
  BY <1>1, <1>2, <1>3, <1>4

\* Every step of the pipeline keeps every type.
LEMMA NextType ==
  ASSUME FlightInv, [Next]_vars
  PROVE  TypeOK'
<1>0. TypeOK
  BY DEF FlightInv
<1>1. CASE UNCHANGED vars
  BY <1>0, <1>1 DEF TypeOK, vars
<1>2. ASSUME NEW c \in Calls, Begin(c) \/ Step(c) \/ Upstream(c) PROVE TypeOK'
  BY <1>0, <1>2, BeginType, StepType, UpstreamType
<1>3. CASE \/ \E c \in Calls : Cancel(c)
           \/ \E k \in Keys : AdminDelete(k)
           \/ Tick
           \/ Restart
  BY <1>0, <1>3, EnvironmentType
<1> QED
  BY <1>1, <1>2, <1>3 DEF Next

-----------------------------------------------------------------------------
(* The inflight map, the handles and the waiters.                          *)

FlightLinks == LeadersAreInflight /\ CallsInOrder /\ WaitersAttached

\* CallsInOrder and WaitersAttached, one call at a time.
InOrder(c) ==
  /\ pc[c] \in Undecided \cup {"idle"} => leader[c] = NoCall
  /\ pc[c] \in Undecided \cup {"wait"} => hash[c] \in Hashes
  /\ pc[c] \in {"release", "close"} =>
       Leads(c) /\ handle[c] = HandleOf(outcome[c])
  /\ ~Shadow /\ Forwarding(c) /\ Dedupes(Tool(c)) => Leads(c)
  /\ c \in done => pc[c] = "returned" /\ handle[c] = HandleOf(outcome[c])

Attached(c) ==
  LET l == leader[c] IN
  /\ l \in Calls /\ l # c /\ Leads(l) /\ hash[l] = hash[c]
  /\ l \in done \/ Forwarding(l) \/ pc[l] = "close"
  /\ l \in done => handle[l] = HandleOf(outcome[l])

\* CallsInOrder, call by call, before and after a step.
LEMMA OrderPerCall == (CallsInOrder <=> \A c \in Calls : InOrder(c))
                      /\ (CallsInOrder' <=> \A c \in Calls : InOrder(c)')
BY DEF CallsInOrder, InOrder

\* WaitersAttached, call by call, before and after a step.
LEMMA AttachedPerCall ==
  /\ WaitersAttached <=> \A c \in Calls : pc[c] = "wait" => Attached(c)
  /\ WaitersAttached' <=> \A c \in Calls : pc'[c] = "wait" => Attached(c)'
BY DEF WaitersAttached, Attached

\* A step that leaves the map, the handles and every leader alone.
LEMMA StandStill ==
  ASSUME FlightInv, UNCHANGED <<pc, req, hash, leader, outcome, flightVars>>
  PROVE  FlightLinks'
BY DEF FlightInv, FlightLinks, LeadersAreInflight, CallsInOrder,
       WaitersAttached, flightVars, Forwarding, Leads, Tool

\* A call that holds no handle of its own moves on without taking one.
LEMMA QuietMove ==
  ASSUME FlightInv, NEW c \in Calls,
         NEW from \in Undecided \cup {"idle", "wait"}, pc[c] = from,
         NEW to \in Undecided \cup {"send", "returned"}, Goto(c, to),
         UNCHANGED <<req, leader, outcome, flightVars>>,
         NEW h \in Hashes \cup {NoHash}, hash' = [hash EXCEPT ![c] = h],
         from # "idle" => h = hash[c],
         to \in Undecided => h \in Hashes,
         from = "wait" => to = "returned",
         to = "send" => Shadow \/ ~Dedupes(Tool(c))
  PROVE  FlightLinks'
<1>0. TypeOK /\ LeadersAreInflight /\ CallsInOrder /\ WaitersAttached
  BY DEF FlightInv
<1>1. ~Forwarding(c) /\ pc[c] # "close" /\ c \notin done
  BY <1>0 DEF CallsInOrder, Forwarding, Undecided
<1>2. pc' = [pc EXCEPT ![c] = to] /\ pc'[c] = to /\ hash'[c] = h
  BY <1>0 DEF Goto, TypeOK
<1>3. \A d \in Calls : d # c => pc'[d] = pc[d] /\ hash'[d] = hash[d]
  BY <1>0, <1>2 DEF TypeOK
<1>4. from # "wait" => leader[c] = NoCall
  BY <1>0 DEF CallsInOrder
<1>5. leader[c] # c
  BY <1>0, <1>4, SentinelAssumption DEF WaitersAttached
<1>6. LeadersAreInflight'
  BY <1>0, <1>1, <1>2, <1>3, <1>5, SentinelAssumption
  DEF LeadersAreInflight, Forwarding, Leads, flightVars, TypeOK, Writers
<1>7. CallsInOrder'
  <2> SUFFICES ASSUME NEW d \in Calls PROVE InOrder(d)'
    BY OrderPerCall
  <2>1. CASE d = c
    BY <2>1, <1>1, <1>2, <1>4 DEF InOrder, Undecided, Forwarding, flightVars, Tool, Dedupes
  <2>2. CASE d # c
    BY <2>2, <1>0, <1>3 DEF CallsInOrder, InOrder, Forwarding, Leads, flightVars, Tool, Dedupes
  <2> QED
    BY <2>1, <2>2
<1>8. WaitersAttached'
  <2> SUFFICES ASSUME NEW d \in Calls, pc'[d] = "wait" PROVE Attached(d)'
    BY AttachedPerCall
  <2>1. d # c /\ pc[d] = "wait"
    BY <1>2, <1>3 DEF Undecided
  <2>2. leader[d] \in Calls /\ leader[d] # c
    BY <1>0, <1>1, <2>1 DEF WaitersAttached
  <2> QED
    BY <1>0, <1>3, <2>1, <2>2 DEF WaitersAttached, Attached, Forwarding, Leads, flightVars
<1> QED
  BY <1>6, <1>7, <1>8 DEF FlightLinks

\* acquireLeader with an empty slot: the new leader is what the map holds.
LEMMA LeadLinks ==
  ASSUME FlightInv, NEW c \in Calls, Lead(c)
  PROVE  FlightLinks'
<1>0. TypeOK /\ LeadersAreInflight /\ CallsInOrder /\ WaitersAttached
  BY DEF FlightInv
<1>1. /\ pc[c] = "acquire" /\ inflight[hash[c]] = NoCall
      /\ pc' = [pc EXCEPT ![c] = "send"] /\ leader' = [leader EXCEPT ![c] = c]
      /\ inflight' = [inflight EXCEPT ![hash[c]] = c]
      /\ UNCHANGED <<req, hash, outcome, handle, done>>
  BY DEF Lead, Goto
<1>2. hash[c] \in Hashes /\ c \notin done
  BY <1>0, <1>1 DEF CallsInOrder, Undecided
<1>3. LeadersAreInflight'
  BY <1>0, <1>1, <1>2, SentinelAssumption
  DEF LeadersAreInflight, Forwarding, Leads, TypeOK, Writers
<1>4. CallsInOrder'
  <2> SUFFICES ASSUME NEW d \in Calls PROVE InOrder(d)'
    BY OrderPerCall
  <2>1. CASE d = c
    BY <2>1, <1>0, <1>1, <1>2 DEF InOrder, Undecided, Forwarding, Leads, TypeOK
  <2>2. CASE d # c
    BY <2>2, <1>0, <1>1 DEF CallsInOrder, InOrder, Forwarding, Leads, Tool, TypeOK, Dedupes
  <2> QED
    BY <2>1, <2>2
<1>5. WaitersAttached'
  <2> SUFFICES ASSUME NEW d \in Calls, pc'[d] = "wait" PROVE Attached(d)'
    BY AttachedPerCall
  <2>1. d # c /\ pc[d] = "wait"
    BY <1>0, <1>1 DEF TypeOK
  <2>2. leader[d] \in Calls /\ leader[d] # c
    BY <1>0, <1>1, <1>2, <2>1 DEF WaitersAttached, Forwarding
  <2> QED
    BY <1>0, <1>1, <2>1, <2>2 DEF WaitersAttached, Attached, Forwarding, Leads, TypeOK
<1> QED
  BY <1>3, <1>4, <1>5 DEF FlightLinks

\* acquireLeader with a sibling in flight: the waiter's leader has not settled.
LEMMA FollowLinks ==
  ASSUME FlightInv, NEW c \in Calls, Follow(c)
  PROVE  FlightLinks'
<1>0. TypeOK /\ LeadersAreInflight /\ CallsInOrder /\ WaitersAttached
  BY DEF FlightInv
<1> DEFINE l == inflight[hash[c]]
<1>1. /\ pc[c] = "acquire" /\ l # NoCall
      /\ pc' = [pc EXCEPT ![c] = "wait"] /\ leader' = [leader EXCEPT ![c] = l]
      /\ UNCHANGED <<req, hash, outcome, inflight, handle, done>>
  BY DEF Follow, Goto, flightVars
<1>2. hash[c] \in Hashes /\ c \notin done
  BY <1>0, <1>1 DEF CallsInOrder, Undecided
<1>3. l \in Calls /\ Forwarding(l) /\ Leads(l) /\ hash[l] = hash[c] /\ l # c
  BY <1>0, <1>1, <1>2 DEF LeadersAreInflight, TypeOK, Writers, Forwarding
<1>3a. l \notin done
  BY <1>0, <1>3 DEF CallsInOrder, Forwarding
<1>4. LeadersAreInflight'
  BY <1>0, <1>1, <1>2, <1>3 DEF LeadersAreInflight, Forwarding, Leads, TypeOK, Writers
<1>5. CallsInOrder'
  <2> SUFFICES ASSUME NEW d \in Calls PROVE InOrder(d)'
    BY OrderPerCall
  <2>1. CASE d = c
    BY <2>1, <1>0, <1>1, <1>2 DEF InOrder, Undecided, Forwarding, TypeOK
  <2>2. CASE d # c
    BY <2>2, <1>0, <1>1 DEF CallsInOrder, InOrder, Forwarding, Leads, Tool, TypeOK, Dedupes
  <2> QED
    BY <2>1, <2>2
<1>6. WaitersAttached'
  <2> SUFFICES ASSUME NEW d \in Calls, pc'[d] = "wait" PROVE Attached(d)'
    BY AttachedPerCall
  <2>1. CASE d = c
    BY <2>1, <1>0, <1>1, <1>3, <1>3a DEF Attached, Forwarding, Leads, TypeOK
  <2>2. CASE d # c
    <3>1. pc[d] = "wait" /\ leader[d] \in Calls /\ leader[d] # c
      BY <2>2, <1>0, <1>1, <1>2 DEF WaitersAttached, Forwarding, TypeOK
    <3> QED
      BY <2>2, <3>1, <1>0, <1>1 DEF WaitersAttached, Attached, Forwarding, Leads, TypeOK
  <2> QED
    BY <2>1, <2>2
<1> QED
  BY <1>4, <1>5, <1>6 DEF FlightLinks

\* A forwarding call advances: within its flight, to the release of its
\* handle, or, without a handle, straight to its return.
LEMMA FlightMove ==
  ASSUME FlightInv, NEW c \in Calls, pc[c] \in {"send", "upstream", "put"},
         NEW to \in {"upstream", "put", "release", "returned"}, Goto(c, to),
         UNCHANGED <<req, hash, leader, inflight, done>>,
         NEW o, outcome' = [outcome EXCEPT ![c] = o],
         handle' = IF to = "release" THEN [handle EXCEPT ![c] = HandleOf(o)]
                                     ELSE handle,
         to = "release" => Leads(c),
         to = "returned" => ~Leads(c)
  PROVE  FlightLinks'
<1>0. TypeOK /\ LeadersAreInflight /\ CallsInOrder /\ WaitersAttached
  BY DEF FlightInv
<1>1. /\ pc' = [pc EXCEPT ![c] = to] /\ pc'[c] = to /\ outcome'[c] = o
      /\ \A d \in Calls : d # c =>
           /\ pc'[d] = pc[d] /\ outcome'[d] = outcome[d]
           /\ handle'[d] = handle[d]
  BY <1>0 DEF TypeOK, Goto
<1>2. c \notin done /\ Forwarding(c)
  BY <1>0 DEF CallsInOrder, Forwarding
<1>3. LeadersAreInflight'
  BY <1>0, <1>1, <1>2 DEF LeadersAreInflight, Forwarding, Leads, TypeOK, Writers
<1>4. CallsInOrder'
  <2> SUFFICES ASSUME NEW d \in Calls PROVE InOrder(d)'
    BY OrderPerCall
  <2>1. CASE d = c
    <3>1. to = "release" => handle'[c] = HandleOf(o)
      BY <1>0 DEF TypeOK
    <3> QED
      BY <2>1, <3>1, <1>0, <1>1, <1>2
      DEF CallsInOrder, InOrder, Undecided, Forwarding, Leads, Tool, Dedupes
  <2>2. CASE d # c
    BY <2>2, <1>0, <1>1 DEF CallsInOrder, InOrder, Forwarding, Leads, Tool, Dedupes
  <2> QED
    BY <2>1, <2>2
<1>5. WaitersAttached'
  <2> SUFFICES ASSUME NEW d \in Calls, pc'[d] = "wait" PROVE Attached(d)'
    BY AttachedPerCall
  <2>1. d # c /\ pc[d] = "wait" /\ leader[d] \in Calls
    BY <1>0, <1>1 DEF WaitersAttached
  <2>2. CASE leader[d] = c
    <3>1. hash[d] \in Hashes /\ hash[c] = hash[d]
      BY <1>0, <2>1, <2>2 DEF CallsInOrder, WaitersAttached
    <3>2. Leads(c)
      BY <1>0, <2>1, <2>2 DEF WaitersAttached
    <3> QED
      BY <2>1, <2>2, <3>1, <3>2, <1>1, <1>2 DEF Attached, Forwarding, Leads
  <2>3. CASE leader[d] # c
    BY <1>0, <1>1, <2>1, <2>3 DEF WaitersAttached, Attached, Forwarding, Leads
  <2> QED
    BY <2>2, <2>3
<1> QED
  BY <1>3, <1>4, <1>5 DEF FlightLinks

\* releaseLeader takes the leader's own handle out of the map.
LEMMA ReleaseLinks ==
  ASSUME FlightInv, NEW c \in Calls, Release(c)
  PROVE  FlightLinks'
<1>0. TypeOK /\ LeadersAreInflight /\ CallsInOrder /\ WaitersAttached
  BY DEF FlightInv
<1>1. /\ pc[c] = "release" /\ pc' = [pc EXCEPT ![c] = "close"]
      /\ UNCHANGED <<req, hash, leader, outcome, handle, done>>
  BY DEF Release, Goto
<1>2. Leads(c) /\ hash[c] \in Hashes /\ inflight[hash[c]] = c
  BY <1>0, <1>1 DEF CallsInOrder, LeadersAreInflight, Forwarding
<1>3. inflight' = [inflight EXCEPT ![hash[c]] = NoCall]
  BY <1>2 DEF Release
<1>4. LeadersAreInflight'
  BY <1>0, <1>1, <1>2, <1>3 DEF LeadersAreInflight, Forwarding, Leads, TypeOK, Writers
<1>5. CallsInOrder'
  <2> SUFFICES ASSUME NEW d \in Calls PROVE InOrder(d)'
    BY OrderPerCall
  <2> QED
    BY <1>0, <1>1, <1>2
    DEF CallsInOrder, InOrder, Undecided, Forwarding, Leads, Tool, TypeOK, Dedupes
<1>6. WaitersAttached'
  <2> SUFFICES ASSUME NEW d \in Calls, pc'[d] = "wait" PROVE Attached(d)'
    BY AttachedPerCall
  <2>1. d # c /\ pc[d] = "wait" /\ leader[d] \in Calls
    BY <1>0, <1>1 DEF WaitersAttached, TypeOK
  <2> QED
    BY <1>0, <1>1, <2>1 DEF WaitersAttached, Attached, Forwarding, Leads, TypeOK
<1> QED
  BY <1>4, <1>5, <1>6 DEF FlightLinks

\* close(done) publishes a filled handle.
LEMMA CloseLinks ==
  ASSUME FlightInv, NEW c \in Calls, Close(c)
  PROVE  FlightLinks'
<1>0. TypeOK /\ LeadersAreInflight /\ CallsInOrder /\ WaitersAttached
  BY DEF FlightInv
<1>1. /\ pc[c] = "close" /\ pc' = [pc EXCEPT ![c] = "returned"]
      /\ done' = done \cup {c}
      /\ UNCHANGED <<req, hash, leader, outcome, inflight, handle>>
  BY DEF Close, Goto
<1>2. Leads(c) /\ handle[c] = HandleOf(outcome[c])
  BY <1>0, <1>1 DEF CallsInOrder
<1>3. LeadersAreInflight'
  BY <1>0, <1>1 DEF LeadersAreInflight, Forwarding, Leads, TypeOK, Writers
<1>4. CallsInOrder'
  <2> SUFFICES ASSUME NEW d \in Calls PROVE InOrder(d)'
    BY OrderPerCall
  <2> QED
    BY <1>0, <1>1, <1>2
    DEF CallsInOrder, InOrder, Undecided, Forwarding, Leads, Tool, TypeOK, Dedupes
<1>5. WaitersAttached'
  <2> SUFFICES ASSUME NEW d \in Calls, pc'[d] = "wait" PROVE Attached(d)'
    BY AttachedPerCall
  <2>1. d # c /\ pc[d] = "wait" /\ leader[d] \in Calls
    BY <1>0, <1>1 DEF WaitersAttached, TypeOK
  <2> QED
    BY <1>0, <1>1, <1>2, <2>1 DEF WaitersAttached, Attached, Forwarding, Leads, TypeOK
<1> QED
  BY <1>3, <1>4, <1>5 DEF FlightLinks

\* The end of the process takes the map, its leaders and their waiters at once.
LEMMA RestartLinks ==
  ASSUME FlightInv, Restart
  PROVE  FlightLinks'
<1>0. TypeOK /\ LeadersAreInflight /\ CallsInOrder /\ WaitersAttached
  BY DEF FlightInv
<1>1. /\ pc' = [c \in Calls |-> IF pc[c] \in Running THEN "dead" ELSE pc[c]]
      /\ inflight' = [h \in Hashes |-> NoCall]
      /\ UNCHANGED <<req, hash, leader, outcome, handle, done>>
  BY DEF Restart
<1>2. \A c \in Calls : pc'[c] \in {"idle", "returned", "dead"}
  BY <1>0, <1>1 DEF TypeOK
<1>2a. \A c \in Calls : pc'[c] # "dead" => pc'[c] = pc[c]
  BY <1>0, <1>1 DEF TypeOK
<1>2b. \A c \in Calls : pc[c] = "returned" => pc'[c] = "returned"
  BY <1>0, <1>1 DEF TypeOK, Running
<1>3. LeadersAreInflight'
  BY <1>1, <1>2 DEF LeadersAreInflight, Forwarding
<1>4. CallsInOrder'
  <2> SUFFICES ASSUME NEW d \in Calls PROVE InOrder(d)'
    BY OrderPerCall
  <2> QED
    BY <1>0, <1>1, <1>2, <1>2a, <1>2b
    DEF CallsInOrder, InOrder, Undecided, Forwarding
<1>5. WaitersAttached'
  BY <1>2 DEF WaitersAttached
<1> QED
  BY <1>3, <1>4, <1>5 DEF FlightLinks

\* The end of doForward keeps the links, from wherever in the flight.
LEMMA FinishLinks ==
  ASSUME FlightInv, NEW c \in Calls, pc[c] \in {"upstream", "put"},
         NEW o, Finish(c, o), outcome' = [outcome EXCEPT ![c] = o],
         UNCHANGED <<req, hash, leader, inflight, done>>
  PROVE  FlightLinks'
<1>1. CASE Leads(c)
  <2>1. Goto(c, "release") /\ handle' = [handle EXCEPT ![c] = HandleOf(o)]
    BY <1>1 DEF Finish
  <2> QED
    BY <1>1, <2>1, FlightMove
<1>2. CASE ~Leads(c)
  <2>1. Goto(c, "returned") /\ handle' = handle
    BY <1>2 DEF Finish
  <2> QED
    BY <1>2, <2>1, FlightMove
<1> QED
  BY <1>1, <1>2

\* The decisions and the misses of decide take no handle.
LEMMA DecideLinks ==
  ASSUME FlightInv, NEW c \in Calls, pc[c] \in {"get", "lazydel", "scan"},
         UNCHANGED decideFrame,
         \/ DecideForward(c)
         \/ Missed(c)
         \/ \E h, m : DecideHit(c, h, m)
  PROVE  FlightLinks'
<1>0. hash[c] \in Hashes /\ hash' = [hash EXCEPT ![c] = hash[c]]
  BY DEF FlightInv, CallsInOrder, Undecided, decideFrame, TypeOK
<1>1. UNCHANGED <<req, leader, outcome, flightVars>>
  BY DEF decideFrame
<1>2. PICK to \in {"send", "acquire", "scan", "returned", "increment"} :
         Goto(c, to) /\ (to = "send" => Shadow \/ ~Dedupes(Tool(c)))
  BY DEF DecideForward, Missed, DecideHit
<1> QED
  BY <1>0, <1>1, <1>2, QuietMove DEF Undecided

\* The head of Apply takes no handle and keeps the links.
LEMMA BeginLinks ==
  ASSUME FlightInv, NEW c \in Calls, Begin(c)
  PROVE  FlightLinks'
<1>0. TypeOK /\ pc[c] = "idle" /\ UNCHANGED <<req, leader, outcome, flightVars>>
  BY DEF FlightInv, Begin, ApplyOff, ApplyForbidden, ApplyRateLimited, Reject,
         ApplyBadBody, ApplyAnalysed, PassGates
<1>1. CASE ApplyAnalysed(c)
  <2>1. PICK h \in Hashes : h = req[c].body
    BY <1>0, <1>1, PolicyTypes DEF ApplyAnalysed, TypeOK
  <2>2. PICK to \in {"get"} : Goto(c, to)
    BY <1>1 DEF ApplyAnalysed
  <2>3. hash' = [hash EXCEPT ![c] = h]
    BY <1>1, <2>1 DEF ApplyAnalysed
  <2> QED
    BY <1>0, <2>2, <2>3, QuietMove DEF Undecided
<1>2. CASE ApplyOff(c) \/ ApplyForbidden(c) \/ ApplyRateLimited(c) \/ ApplyBadBody(c)
  <2>1. PICK to \in {"send", "returned"} :
          Goto(c, to) /\ (to = "send" => Shadow \/ ~Dedupes(Tool(c)))
    BY <1>2 DEF ApplyOff, ApplyForbidden, ApplyRateLimited, Reject, ApplyBadBody,
                Pol, Dedupes
  <2>2. hash' = [hash EXCEPT ![c] = hash[c]] /\ hash[c] \in Hashes \cup {NoHash}
    BY <1>0, <1>2 DEF ApplyOff, ApplyForbidden, ApplyRateLimited, Reject,
                      ApplyBadBody, TypeOK
  <2> QED
    BY <1>0, <2>1, <2>2, QuietMove DEF Undecided
<1> QED
  BY <1>1, <1>2 DEF Begin

\* A goroutine's own step keeps the links.
LEMMA StepLinks ==
  ASSUME FlightInv, NEW c \in Calls, Step(c)
  PROVE  FlightLinks'
<1>0. TypeOK
  BY DEF FlightInv
<1>1. CASE GetError(c)
  BY <1>1, DecideLinks DEF GetError
<1>2. CASE GetMiss(c)
  BY <1>2, DecideLinks DEF GetMiss
<1>3. CASE LazyDelete(c)
  BY <1>3, DecideLinks DEF LazyDelete
<1>4. CASE GetHit(c)
  BY <1>4, DecideLinks DEF GetHit
<1>5. CASE ScanNothing(c)
  BY <1>5, DecideLinks DEF ScanNothing
<1>6. CASE ScanHit(c)
  BY <1>6, DecideLinks DEF ScanHit
<1>7. CASE GetExpired(c) \/ IncrementReplay(c)
  <2>1. PICK from \in {"get", "increment"}, to \in {"lazydel", "returned"} :
          pc[c] = from /\ Goto(c, to)
    BY <1>7 DEF GetExpired, IncrementReplay
  <2>2. UNCHANGED decideFrame
    BY <1>7 DEF GetExpired, IncrementReplay
  <2>3. hash[c] \in Hashes /\ hash' = [hash EXCEPT ![c] = hash[c]]
    BY <2>1, <2>2 DEF FlightInv, CallsInOrder, Undecided, decideFrame, TypeOK
  <2> QED
    BY <2>1, <2>2, <2>3, QuietMove DEF decideFrame, Undecided
<1>8. CASE WaitDone(c) \/ WaitCancelled(c)
  <2>1. pc[c] = "wait" /\ Goto(c, "returned") /\ UNCHANGED decideFrame
    BY <1>8 DEF WaitDone, WaitCancelled
  <2>2. hash[c] \in Hashes /\ hash' = [hash EXCEPT ![c] = hash[c]]
    BY <2>1 DEF FlightInv, CallsInOrder, decideFrame, TypeOK
  <2> QED
    BY <2>1, <2>2, QuietMove DEF decideFrame, Undecided
<1>9. CASE Lead(c)
  BY <1>9, LeadLinks
<1>10. CASE Follow(c)
  BY <1>10, FollowLinks
<1>11. CASE Send(c)
  <2>1. /\ pc[c] = "send" /\ Goto(c, "upstream")
        /\ UNCHANGED <<req, hash, leader, inflight, done, handle>>
        /\ outcome' = [outcome EXCEPT ![c] = outcome[c]]
    BY <1>0, <1>11 DEF Send, flightVars, TypeOK
  <2> QED
    BY <2>1, FlightMove
<1>12. CASE Put(c)
  <2>1. /\ pc[c] = "put" /\ Finish(c, outcome[c])
        /\ UNCHANGED <<req, hash, leader, inflight, done>>
        /\ outcome' = [outcome EXCEPT ![c] = outcome[c]]
    BY <1>0, <1>12 DEF Put, TypeOK
  <2> QED
    BY <2>1, FinishLinks
<1>13. CASE Release(c)
  BY <1>13, ReleaseLinks
<1>14. CASE Close(c)
  BY <1>14, CloseLinks
<1> QED
  BY <1>1, <1>2, <1>3, <1>4, <1>5, <1>6, <1>7, <1>8, <1>9, <1>10, <1>11,
     <1>12, <1>13, <1>14 DEF Step

\* forward()'s return keeps the links.
LEMMA UpstreamLinks ==
  ASSUME FlightInv, NEW c \in Calls, Upstream(c)
  PROVE  FlightLinks'
<1>1. PICK o :
        /\ outcome' = [outcome EXCEPT ![c] = o]
        /\ \/ Goto(c, "put") /\ UNCHANGED <<handle, result>>
           \/ Finish(c, o)
  BY DEF Upstream
<1>2. pc[c] = "upstream" /\ UNCHANGED <<req, hash, leader, inflight, done>>
  BY DEF Upstream
<1>3. CASE Goto(c, "put") /\ UNCHANGED <<handle, result>>
  BY <1>1, <1>2, <1>3, FlightMove
<1>4. CASE Finish(c, o)
  BY <1>1, <1>2, <1>4, FinishLinks
<1> QED
  BY <1>1, <1>3, <1>4

\* FlightInv is inductive.
LEMMA FlightStep == FlightInv /\ [Next]_vars => FlightInv'
<1> SUFFICES ASSUME FlightInv, [Next]_vars PROVE FlightInv'
  OBVIOUS
<1>1. TypeOK'
  BY NextType
<1>2. FlightLinks'
  <2>1. ASSUME UNCHANGED <<pc, req, hash, leader, outcome, flightVars>>
        PROVE  FlightLinks'
    BY <2>1, StandStill
  <2>2. CASE UNCHANGED vars
    BY <2>1, <2>2 DEF vars, flightVars
  <2>3. ASSUME NEW c \in Calls, Begin(c) \/ Step(c) \/ Upstream(c)
        PROVE  FlightLinks'
    BY <2>3, BeginLinks, StepLinks, UpstreamLinks
  <2>4. ASSUME NEW c \in Calls, Cancel(c) PROVE FlightLinks'
    BY <2>1, <2>4 DEF Cancel, callVars
  <2>5. ASSUME NEW k \in Keys, AdminDelete(k) PROVE FlightLinks'
    BY <2>1, <2>5 DEF AdminDelete, callVars
  <2>6. CASE Tick
    BY <2>1, <2>6 DEF Tick, callVars
  <2>7. CASE Restart
    BY <2>7, RestartLinks
  <2> QED
    BY <2>2, <2>3, <2>4, <2>5, <2>6, <2>7 DEF Next
<1> QED
  BY <1>1, <1>2 DEF FlightInv, FlightLinks

-----------------------------------------------------------------------------
(* The theorems.                                                           *)

\* FlightInv holds in every reachable state of the pipeline, however many
\* calls, tools and fingerprints there are and whatever fails.
THEOREM FlightInvariant == Spec => []FlightInv
<1>1. Init => FlightInv
  BY FlightInit
<1>2. FlightInv /\ [Next]_vars => FlightInv'
  BY FlightStep
<1> QED
  BY <1>1, <1>2, PTL DEF Spec

\* Every variable of the pipeline keeps its type.
THEOREM TypeCorrect == Spec => []TypeOK
<1>1. FlightInv => TypeOK
  BY DEF FlightInv
<1> QED
  BY <1>1, FlightInvariant, PTL

\* The upstream never works on two duplicates of deduplicated tools at once.
THEOREM SingleFlightHolds == Spec => []SingleFlight
<1>1. FlightInv => SingleFlight
  <2> SUFFICES ASSUME FlightInv, ~Shadow, NEW c \in Calls, NEW d \in Calls,
                      Forwarding(c), Dedupes(Tool(c)),
                      Forwarding(d), Dedupes(Tool(d)), hash[c] = hash[d]
               PROVE  c = d
    BY DEF SingleFlight
  <2>1. Leads(c) /\ Leads(d)
    BY DEF FlightInv, CallsInOrder
  <2> QED
    BY <2>1 DEF FlightInv, LeadersAreInflight
<1> QED
  BY <1>1, FlightInvariant, PTL

\* No waiter is left on a handle nobody will close, and none reads a handle
\* its leader did not fill.
THEOREM WaitersAttachedHolds == Spec => []WaitersAttached
<1>1. FlightInv => WaitersAttached
  BY DEF FlightInv
<1> QED
  BY <1>1, FlightInvariant, PTL

\* The action of InflightOwned.
Owned ==
  \A h \in Hashes :
    inflight[h] # NoCall /\ inflight'[h] # inflight[h] =>
      /\ inflight'[h] = NoCall
      /\ \/ pc[inflight[h]] = "release" /\ pc'[inflight[h]] = "close"
         \/ pc'[inflight[h]] = "dead"

\* Every step of the pipeline leaves other calls' handles in the map.
LEMMA OwnedStep == FlightInv /\ [Next]_vars => Owned
<1> SUFFICES ASSUME FlightInv, [Next]_vars PROVE Owned
  OBVIOUS
<1>0. TypeOK /\ LeadersAreInflight /\ CallsInOrder
  BY DEF FlightInv
<1>1. CASE inflight' = inflight
  BY <1>1 DEF Owned
<1>2. ASSUME NEW c \in Calls, Lead(c) PROVE Owned
  BY <1>0, <1>2 DEF Lead, Owned, TypeOK
<1>3. ASSUME NEW c \in Calls, Release(c) PROVE Owned
  <2>1. inflight' = inflight \/ inflight' = [inflight EXCEPT ![hash[c]] = NoCall]
    BY <1>3 DEF Release
  <2>2. pc[c] = "release" /\ pc'[c] = "close"
    BY <1>0, <1>3 DEF Release, Goto, TypeOK
  <2>3. inflight[hash[c]] = c
    BY <1>0, <2>2 DEF CallsInOrder, LeadersAreInflight, Forwarding
  <2> QED
    BY <1>0, <2>1, <2>2, <2>3 DEF Owned, TypeOK
<1>4. CASE Restart
  <2> SUFFICES ASSUME NEW h \in Hashes, inflight[h] # NoCall
               PROVE  inflight'[h] = NoCall /\ pc'[inflight[h]] = "dead"
    BY DEF Owned
  <2>1. inflight[h] \in Calls /\ pc[inflight[h]] \in Running
    BY <1>0 DEF LeadersAreInflight, TypeOK, Writers, Forwarding, Running
  <2> QED
    BY <1>4, <2>1 DEF Restart
<1>5. ASSUME NEW c \in Calls, Begin(c) PROVE inflight' = inflight
  BY <1>5 DEF Begin, ApplyOff, ApplyForbidden, ApplyRateLimited, Reject,
              ApplyBadBody, ApplyAnalysed, flightVars
<1>6. ASSUME NEW c \in Calls, Step(c), ~Lead(c), ~Release(c)
      PROVE  inflight' = inflight
  BY <1>6 DEF Step, GetError, GetMiss, GetExpired, LazyDelete, GetHit,
              ScanNothing, ScanHit, IncrementReplay, Follow, WaitDone,
              WaitCancelled, Send, Put, Close, decideFrame, flightVars
<1>7. ASSUME \/ \E c \in Calls : Upstream(c) \/ Cancel(c)
             \/ \E k \in Keys : AdminDelete(k)
             \/ Tick
             \/ UNCHANGED vars
      PROVE  inflight' = inflight
  BY <1>7 DEF Upstream, Cancel, AdminDelete, Tick, flightVars, vars
<1> QED
  BY <1>1, <1>2, <1>3, <1>4, <1>5, <1>6, <1>7 DEF Next

\* A handle leaves the inflight map only by its own leader's release or with
\* the process, and is never replaced by another.
THEOREM InflightOwnedHolds == Spec => InflightOwned
<1>1. FlightInv /\ [Next]_vars => [Owned]_vars
  BY OwnedStep
<1>2. Spec => [][Owned]_vars
  BY <1>1, FlightInvariant, PTL DEF Spec
<1> QED
  BY <1>2 DEF InflightOwned, Owned

-----------------------------------------------------------------------------
(* What a call leaves behind.                                              *)

\* Before these points of Apply nothing was written or returned.
Silent == {"idle", "get", "lazydel", "scan", "acquire", "wait"}

\* On the way of a forward, from its audit record to its Result.
Underway == {"send", "upstream", "put", "release", "close"}

\* The one record of a forward; none in mode off.
ForwardRecord(c) ==
  IF Pol(c).mode = "off"
    THEN audit[c] = <<>>
    ELSE Len(audit[c]) = 1 /\ audit[c][1].decision = "forward"

\* forward() heard nothing from the upstream, which it may not have reached.
Unsent(c) == outcome[c] \in Unanswered

\* Call c returns what its own forward() gave it.
Own(c) ==
  /\ outcome[c] # "none" /\ result[c] = ForwardResult(c, outcome[c])
  /\ c \in executed \/ Unsent(c)

\* What call c has written to the audit log, by where it stands.
AuditTrail(c) ==
  /\ pc[c] \in Silent => audit[c] = <<>>
  /\ pc[c] \in Underway \/ c \in executed => ForwardRecord(c)
  /\ pc[c] = "increment" => Len(audit[c]) = 1
  /\ pc[c] = "returned" =>
       Len(audit[c]) = IF Pol(c).mode = "off" \/ result[c].err = "analyse"
                         THEN 0 ELSE 1
  /\ pc[c] \in (Silent \ {"idle"}) \cup {"increment"} => Pol(c).mode # "off"

\* When call c has reached the upstream, and what it got from there.
ExecutionTrail(c) ==
  /\ c \in executed => pc[c] \in (Underway \ {"send"}) \cup {"returned", "dead"}
  /\ pc[c] \in Silent \cup {"increment", "send", "upstream"} =>
       outcome[c] = "none"
  /\ pc[c] \in {"put", "release", "close"} \/ c \in done => outcome[c] # "none"
  /\ outcome[c] # "none" => c \in executed \/ Unsent(c)
  /\ pc[c] = "put" => hash[c] \in Hashes /\ outcome[c] \in Success

\* What call c returns, or is about to.
ResultTrail(c) ==
  /\ pc[c] \in Silent \cup Underway => result[c] = NoResult
  /\ pc[c] = "increment" => result[c].decision = "replay" /\ ~Shadow
  /\ result[c].decision = "replay" => result[c].err = "none"
  /\ result[c].decision \in {"replay"} \cup Refusals => c \notin executed
  /\ Shadow => pc[c] \notin {"acquire", "wait"}
  /\ pc[c] = "returned" =>
       \/ result[c].decision = "none" /\ result[c].err = "analyse"
       \/ /\ result[c].decision = "forward" /\ result[c].err # "analyse"
          /\ result[c].err = "none" => result[c].of = c
          /\ result[c].err = "none" \/ Shadow => Own(c)
       \/ result[c].decision \in {"replay"} \cup Refusals /\ ~Shadow
          /\ result[c].err = "none"

Trail(c) == AuditTrail(c) /\ ExecutionTrail(c) /\ ResultTrail(c)

\* The inductive invariant of this module.
TrailInv == FlightInv /\ \A c \in Calls : Trail(c)

-----------------------------------------------------------------------------
(* A step is about one call.                                               *)

\* What the trail of call c is made of does not change.
Kept(c) ==
  /\ pc'[c] = pc[c] /\ req'[c] = req[c] /\ hash'[c] = hash[c]
  /\ ctxDone'[c] = ctxDone[c] /\ outcome'[c] = outcome[c]
  /\ result'[c] = result[c] /\ audit'[c] = audit[c]
  /\ c \in executed' <=> c \in executed
  /\ c \in done' <=> c \in done

\* A call that is left alone keeps its trail.
LEMMA KeptTrail ==
  ASSUME NEW c \in Calls, Trail(c), Kept(c)
  PROVE  Trail(c)'
BY DEF Trail, AuditTrail, ExecutionTrail, ResultTrail, Kept, ForwardRecord,
       Unsent, Own, ForwardResult, Pol, Tool

\* writeAudit and Goto touch the log and the place of their own call only.
LEMMA OwnAudit ==
  ASSUME TypeOK, NEW c \in Calls, NEW d, NEW m, WriteAudit(c, d, m)
  PROVE  /\ \A b \in Calls \ {c} : audit'[b] = audit[b]
         /\ audit[c] = <<>> =>
              /\ Len(audit'[c]) = 1
              /\ Shadow \/ d = "forward" => audit'[c][1].decision = "forward"
<1> DEFINE r == IF Shadow THEN [decision |-> "forward", would |-> d, match |-> m]
                          ELSE [decision |-> d, would |-> "none", match |-> m]
<1>1. audit' = [audit EXCEPT ![c] = Append(@, r)]
  BY DEF WriteAudit
<1>2. Shadow \/ d = "forward" => r.decision = "forward"
  OBVIOUS
<1> HIDE DEF r
<1>3. audit'[c] = Append(audit[c], r)
  BY <1>1 DEF TypeOK
<1>4. audit[c] = <<>> => Len(audit'[c]) = 1 /\ audit'[c][1] = r
  BY <1>3
<1> QED
  BY <1>1, <1>2, <1>4 DEF TypeOK

\* A call's step leaves every other call's trail alone.
LEMMA OthersKept ==
  ASSUME TypeOK, NEW c \in Calls, NEW b \in Calls, b # c,
         Begin(c) \/ Step(c) \/ Upstream(c) \/ Cancel(c)
  PROVE  Kept(b)
<1> DEFINE Same == /\ pc'[b] = pc[b] /\ result'[b] = result[b]
                   /\ audit'[b] = audit[b]
<1>a. ASSUME NEW d, NEW m, WriteAudit(c, d, m) PROVE audit'[b] = audit[b]
  BY <1>a, OwnAudit
<1>g. ASSUME NEW to, Goto(c, to) PROVE pc'[b] = pc[b]
  BY <1>g DEF Goto, TypeOK
<1>f. ASSUME UNCHANGED decideFrame, Same PROVE Kept(b)
  BY <1>f DEF Kept, decideFrame, flightVars
<1>df. ASSUME DecideForward(c) PROVE Same
  BY <1>df, <1>a, <1>g DEF DecideForward
<1>m. ASSUME Missed(c) PROVE Same
  BY <1>m, <1>df, <1>g DEF Missed
<1>h. ASSUME NEW h, NEW m, DecideHit(c, h, m) PROVE Same
  BY <1>h, <1>a, <1>g DEF DecideHit, TypeOK
<1>fin. ASSUME NEW o, Finish(c, o)
        PROVE  pc'[b] = pc[b] /\ result'[b] = result[b]
  BY <1>fin, <1>g DEF Finish, TypeOK
<1>1. CASE Begin(c)
  <2>1. CASE ApplyOff(c)
    BY <2>1, <1>g DEF ApplyOff, Kept, flightVars, histVars
  <2>2. ASSUME NEW d, Reject(c, d) PROVE Kept(b)
    <3>1. audit'[b] = audit[b] /\ pc'[b] = pc[b]
      BY <2>2, <1>a, <1>g DEF Reject
    <3>2. result'[b] = result[b]
      BY <2>2 DEF Reject, TypeOK
    <3> QED
      BY <2>2, <3>1, <3>2 DEF Reject, Kept, flightVars, histVars
  <2>3. CASE ApplyBadBody(c)
    <3>1. pc'[b] = pc[b] /\ result'[b] = result[b]
      BY <2>3, <1>g DEF ApplyBadBody, TypeOK
    <3> QED
      BY <2>3, <3>1 DEF ApplyBadBody, Kept, flightVars, histVars
  <2>4. CASE ApplyAnalysed(c)
    <3>1. pc'[b] = pc[b] /\ hash'[b] = hash[b]
      BY <2>4, <1>g DEF ApplyAnalysed, TypeOK
    <3> QED
      BY <2>4, <3>1 DEF ApplyAnalysed, Kept, flightVars
  <2> QED
    BY <1>1, <2>1, <2>2, <2>3, <2>4 DEF Begin, ApplyForbidden, ApplyRateLimited
<1>2. CASE Step(c)
  <2>1. CASE GetError(c) \/ GetMiss(c) \/ LazyDelete(c) \/ GetHit(c)
             \/ ScanNothing(c) \/ ScanHit(c)
    <3>1. UNCHANGED decideFrame
      BY <2>1 DEF GetError, GetMiss, LazyDelete, GetHit, ScanNothing, ScanHit
    <3>2. Same
      BY <2>1, <1>df, <1>m, <1>h
      DEF GetError, GetMiss, LazyDelete, GetHit, ScanNothing, ScanHit
    <3> QED
      BY <3>1, <3>2, <1>f
  <2>2. CASE GetExpired(c) \/ IncrementReplay(c)
    BY <2>2, <1>f, <1>g DEF GetExpired, IncrementReplay
  <2>3. CASE WaitDone(c) \/ WaitCancelled(c)
    <3>1. PICK r, d, m : /\ result' = [result EXCEPT ![c] = r]
                         /\ WriteAudit(c, d, m) /\ Goto(c, "returned")
                         /\ UNCHANGED decideFrame
      BY <2>3 DEF WaitDone, WaitCancelled
    <3>2. result'[b] = result[b]
      BY <3>1 DEF TypeOK
    <3> QED
      BY <3>1, <3>2, <1>a, <1>g, <1>f
  <2>4. CASE Lead(c)
    BY <2>4, <1>a, <1>g DEF Lead, Kept, histVars
  <2>5. CASE Follow(c)
    BY <2>5, <1>g DEF Follow, Kept, flightVars, histVars
  <2>6. CASE Send(c)
    BY <2>6, <1>g DEF Send, Kept, flightVars
  <2>7. CASE Put(c)
    BY <2>7, <1>fin DEF Put, Kept, histVars
  <2>8. CASE Release(c)
    BY <2>8, <1>g DEF Release, Kept, histVars
  <2>9. CASE Close(c)
    <3>1. pc'[b] = pc[b] /\ result'[b] = result[b]
      BY <2>9, <1>g DEF Close, TypeOK
    <3> QED
      BY <2>9, <3>1 DEF Close, Kept, histVars
  <2> QED
    BY <1>2, <2>1, <2>2, <2>3, <2>4, <2>5, <2>6, <2>7, <2>8, <2>9 DEF Step
<1>3. CASE Upstream(c)
  <2>1. PICK o : /\ outcome' = [outcome EXCEPT ![c] = o]
                 /\ \/ Goto(c, "put") /\ UNCHANGED <<handle, result>>
                    \/ Finish(c, o)
    BY <1>3 DEF Upstream
  <2>2. outcome'[b] = outcome[b] /\ pc'[b] = pc[b] /\ result'[b] = result[b]
    BY <2>1, <1>g, <1>fin DEF TypeOK
  <2> QED
    BY <1>3, <2>2 DEF Upstream, Kept, histVars
<1>4. CASE Cancel(c)
  BY <1>4 DEF Cancel, Kept, callVars, flightVars, TypeOK
<1> QED
  BY <1>1, <1>2, <1>3, <1>4

-----------------------------------------------------------------------------
(* What a step does to its own call.                                       *)

\* The parts of the Results the gateway makes itself.
LEMMA BareFields ==
  ASSUME NEW d, NEW m, NEW err
  PROVE  /\ Bare(d, m, err).decision = d /\ Bare(d, m, err).match = m
         /\ Bare(d, m, err).err = err /\ Bare(d, m, err).of = NoCall
BY DEF Bare, Answer

\* A call that goes on to send has its forward on record and nothing else.
LEMMA ToSend ==
  ASSUME NEW c \in Calls, Trail(c), pc[c] \in Silent, pc'[c] = "send",
         ForwardRecord(c)', UNCHANGED <<req, ctxDone, outcome, executed>>,
         c \in done' <=> c \in done, result'[c] = result[c]
  PROVE  Trail(c)'
<1>1. c \notin executed /\ outcome[c] = "none" /\ result[c] = NoResult
  BY DEF Trail, ExecutionTrail, ResultTrail, Silent, Underway
<1>2. AuditTrail(c)'
  BY <1>1 DEF Trail, AuditTrail, Silent, Underway
<1>3. ExecutionTrail(c)'
  BY <1>1 DEF Trail, ExecutionTrail, Silent, Underway
<1>4. ResultTrail(c)'
  BY <1>1, BareFields DEF Trail, ResultTrail, Silent, Underway, NoResult, Refusals
<1> QED
  BY <1>2, <1>3, <1>4 DEF Trail

\* A call that has written nothing yet goes on to another such place.
LEMMA ToSilent ==
  ASSUME NEW c \in Calls, Trail(c), pc[c] \in Silent,
         pc'[c] \in {"get", "lazydel", "scan", "acquire", "wait"},
         Pol(c).mode # "off", audit'[c] = audit[c],
         Shadow => pc'[c] \notin {"acquire", "wait"},
         UNCHANGED <<req, ctxDone, outcome, executed>>,
         c \in done' <=> c \in done, result'[c] = result[c]
  PROVE  Trail(c)'
<1>1. /\ c \notin executed /\ outcome[c] = "none" /\ result[c] = NoResult
      /\ audit[c] = <<>>
  BY DEF Trail, AuditTrail, ExecutionTrail, ResultTrail, Silent, Underway
<1>2. AuditTrail(c)'
  BY <1>1 DEF AuditTrail, Silent, Underway, Pol, Tool
<1>3. ExecutionTrail(c)'
  BY <1>1 DEF Trail, ExecutionTrail, Silent, Underway
<1>4. ResultTrail(c)'
  BY <1>1, BareFields DEF ResultTrail, Silent, Underway, NoResult, Refusals
<1> QED
  BY <1>2, <1>3, <1>4 DEF Trail

\* A call that never reached the upstream gets its Result: with an audit
\* record, or without one when analyse failed.
LEMMA ToAnswer ==
  ASSUME TypeOK, NEW c \in Calls, Trail(c), pc[c] \in Silent,
         Pol(c).mode # "off", NEW r, result' = [result EXCEPT ![c] = r],
         UNCHANGED <<req, ctxDone, outcome, executed, done>>,
         \/ /\ pc'[c] \in {"returned", "increment"} /\ Len(audit'[c]) = 1
            /\ r.decision = "replay" /\ r.err = "none" /\ ~Shadow
         \/ /\ pc'[c] = "returned" /\ Len(audit'[c]) = 1 /\ ~Shadow
            /\ r.decision \in Refusals /\ r.err = "none"
         \/ /\ pc'[c] = "returned" /\ Len(audit'[c]) = 1 /\ ~Shadow
            /\ r.decision = "forward" /\ r.err \in {"leader", "ctx"}
         \/ /\ pc'[c] = "returned" /\ audit'[c] = audit[c]
            /\ r.decision = "none" /\ r.err = "analyse"
  PROVE  Trail(c)'
<1>1. /\ c \notin executed /\ outcome[c] = "none" /\ audit[c] = <<>>
      /\ result'[c] = r
  BY DEF Trail, AuditTrail, ExecutionTrail, Silent, Underway, TypeOK
<1>2. AuditTrail(c)'
  <2>1. /\ pc'[c] \in {"returned", "increment"} /\ c \notin executed'
        /\ Pol(c)'.mode # "off"
    BY <1>1 DEF Pol, Tool
  <2>2. IF r.err = "analyse" THEN pc'[c] = "returned" /\ Len(audit'[c]) = 0
                             ELSE Len(audit'[c]) = 1
    BY <1>1
  <2> QED
    BY <1>1, <2>1, <2>2 DEF AuditTrail, Silent, Underway
<1>3. ExecutionTrail(c)'
  BY <1>1 DEF Trail, ExecutionTrail, Silent, Underway
<1>4. ResultTrail(c)'
  BY <1>1 DEF ResultTrail, Silent, Underway, Refusals
<1> QED
  BY <1>2, <1>3, <1>4 DEF Trail

\* The forward branch of Apply.
LEMMA ForwardTrail ==
  ASSUME TypeOK, NEW c \in Calls, Trail(c), pc[c] \in {"get", "lazydel", "scan"},
         DecideForward(c), UNCHANGED decideFrame
  PROVE  Trail(c)'
<1>1. Pol(c).mode # "off" /\ audit[c] = <<>>
  BY DEF Trail, AuditTrail, Silent
<1>2. UNCHANGED <<req, ctxDone, outcome, executed, done, result>>
  BY DEF DecideForward, decideFrame, flightVars
<1>3. CASE Goto(c, "acquire") /\ ~Shadow /\ UNCHANGED audit
  <2>1. pc'[c] = "acquire"
    BY <1>3 DEF Goto, TypeOK
  <2> QED
    BY <1>1, <1>2, <1>3, <2>1, ToSilent DEF Silent
<1>4. CASE Goto(c, "send") /\ WriteAudit(c, "forward", "none")
  <2>1. pc'[c] = "send"
    BY <1>4 DEF Goto, TypeOK
  <2>2. ForwardRecord(c)'
    BY <1>1, <1>2, <1>4, OwnAudit DEF ForwardRecord, Pol, Tool
  <2> QED
    BY <1>2, <2>1, <2>2, ToSend DEF Silent
<1> QED
  BY <1>3, <1>4 DEF DecideForward

\* decide after a miss.
LEMMA MissedTrail ==
  ASSUME TypeOK, NEW c \in Calls, Trail(c), pc[c] \in {"get", "lazydel", "scan"},
         Missed(c), UNCHANGED decideFrame
  PROVE  Trail(c)'
<1>1. CASE DecideForward(c)
  BY <1>1, ForwardTrail
<1>2. CASE Goto(c, "scan") /\ UNCHANGED <<audit, result>>
  <2>1. pc'[c] = "scan"
    BY <1>2 DEF Goto, TypeOK
  <2>2. Pol(c).mode # "off"
    BY DEF Trail, AuditTrail, Silent
  <2>3. UNCHANGED <<req, ctxDone, outcome, executed, done>>
    BY DEF decideFrame, flightVars
  <2> QED
    BY <1>2, <2>1, <2>2, <2>3, ToSilent DEF Silent
<1> QED
  BY <1>1, <1>2 DEF Missed

\* A hit: the block or replay goes to the client, in shadow mode only to the
\* log.
LEMMA HitTrail ==
  ASSUME TypeOK, NEW c \in Calls, Trail(c), pc[c] \in {"get", "scan"},
         NEW h, NEW m, DecideHit(c, h, m), UNCHANGED decideFrame
  PROVE  Trail(c)'
<1> DEFINE e == entries[<<Tool(c), h>>]
           confirm == Pol(c).mode = "strict" /\ Pol(c).confirm
           d == IF confirm THEN "block" ELSE "replay"
           r == Answer(d, m, h, IF confirm THEN NoCall ELSE e.by,
                       IF confirm THEN "none" ELSE RenderReplayBody(e), "none")
<1>1. Pol(c).mode # "off" /\ audit[c] = <<>>
  BY DEF Trail, AuditTrail, Silent
<1>2. UNCHANGED <<req, ctxDone, outcome, executed, done>>
  BY DEF decideFrame, flightVars
<1>3. WriteAudit(c, d, m)
  BY DEF DecideHit
<1>4. /\ Len(audit'[c]) = 1
      /\ Shadow => audit'[c][1].decision = "forward"
  BY <1>1, <1>3, OwnAudit
<1>5. r.decision = d /\ r.err = "none"
  BY DEF Answer
<1>6. \/ Shadow /\ Goto(c, "send") /\ UNCHANGED result
      \/ /\ ~Shadow /\ result' = [result EXCEPT ![c] = r]
         /\ Goto(c, IF confirm THEN "returned" ELSE "increment")
  BY DEF DecideHit
<1>7. CASE Shadow /\ Goto(c, "send") /\ UNCHANGED result
  <2>1. pc'[c] = "send"
    BY <1>7 DEF Goto, TypeOK
  <2>2. ForwardRecord(c)'
    BY <1>1, <1>2, <1>4, <1>7 DEF ForwardRecord, Pol, Tool
  <2> QED
    BY <1>2, <1>7, <2>1, <2>2, ToSend DEF Silent
<1>8. CASE /\ ~Shadow /\ result' = [result EXCEPT ![c] = r]
           /\ Goto(c, IF confirm THEN "returned" ELSE "increment")
  <2>1. \/ d = "block" /\ pc'[c] = "returned"
        \/ d = "replay" /\ pc'[c] = "increment"
    BY <1>8 DEF Goto, TypeOK
  <2> HIDE DEF r, d
  <2> QED
    BY <1>1, <1>2, <1>4, <1>5, <1>8, <2>1, ToAnswer DEF Silent, Refusals
<1> QED
  BY <1>6, <1>7, <1>8

\* The head of Apply: a refused, rejected or unanalysable call is on record.
LEMMA BeginTrail ==
  ASSUME TypeOK, NEW c \in Calls, Trail(c), Begin(c)
  PROVE  Trail(c)'
<1>0. pc[c] = "idle" /\ pc[c] \in Silent /\ audit[c] = <<>>
  BY DEF Begin, ApplyOff, ApplyForbidden, ApplyRateLimited, ApplyBadBody,
         ApplyAnalysed, PassGates, Silent, Trail, AuditTrail
<1>1. UNCHANGED <<req, ctxDone, outcome, executed, done>>
  BY DEF Begin, ApplyOff, ApplyForbidden, ApplyRateLimited, Reject,
         ApplyBadBody, ApplyAnalysed, flightVars, histVars
<1>2. CASE ApplyOff(c)
  <2>1. pc'[c] = "send" /\ UNCHANGED <<result, audit>>
    BY <1>2 DEF ApplyOff, Goto, TypeOK
  <2>2. ForwardRecord(c)'
    BY <1>0, <1>1, <1>2, <2>1 DEF ApplyOff, ForwardRecord, Pol, Tool
  <2> QED
    BY <1>0, <1>1, <2>1, <2>2, ToSend
<1>3. ASSUME NEW d \in {"forbidden", "ratelimited"}, Reject(c, d),
             Pol(c).mode # "off"
      PROVE  Trail(c)'
  <2>1. /\ Len(audit'[c]) = 1
        /\ Shadow => audit'[c][1].decision = "forward"
    BY <1>0, <1>3, OwnAudit DEF Reject
  <2>2. CASE Shadow /\ Goto(c, "send") /\ UNCHANGED result
    <3>1. pc'[c] = "send"
      BY <2>2 DEF Goto, TypeOK
    <3>2. ForwardRecord(c)'
      BY <1>1, <1>3, <2>1, <2>2 DEF ForwardRecord, Pol, Tool
    <3> QED
      BY <1>0, <1>1, <2>2, <3>1, <3>2, ToSend
  <2>3. CASE /\ ~Shadow /\ Goto(c, "returned")
             /\ result' = [result EXCEPT ![c] = Bare(d, "none", "none")]
    <3>1. pc'[c] = "returned"
      BY <2>3 DEF Goto, TypeOK
    <3> DEFINE r == Bare(d, "none", "none")
    <3>2. r.decision = d /\ r.err = "none" /\ d \in Refusals
      BY BareFields DEF Refusals
    <3>3. result' = [result EXCEPT ![c] = r]
      BY <2>3
    <3> HIDE DEF r
    <3> QED
      BY <1>0, <1>1, <1>3, <2>1, <2>3, <3>1, <3>2, <3>3, ToAnswer
  <2> QED
    BY <1>3, <2>2, <2>3 DEF Reject
<1>4. CASE ApplyForbidden(c) \/ ApplyRateLimited(c)
  BY <1>3, <1>4 DEF ApplyForbidden, ApplyRateLimited
<1>5. CASE ApplyBadBody(c)
  <2>1. /\ pc'[c] = "returned" /\ UNCHANGED audit /\ Pol(c).mode # "off"
        /\ result' = [result EXCEPT ![c] = Bare("none", "none", "analyse")]
    BY <1>5 DEF ApplyBadBody, PassGates, Goto, TypeOK
  <2> DEFINE r == Bare("none", "none", "analyse")
  <2>2. r.decision = "none" /\ r.err = "analyse"
    BY BareFields
  <2>3. result' = [result EXCEPT ![c] = r]
    BY <2>1
  <2> HIDE DEF r
  <2> QED
    BY <1>0, <1>1, <2>1, <2>2, <2>3, ToAnswer
<1>6. CASE ApplyAnalysed(c)
  <2>1. pc'[c] = "get" /\ UNCHANGED <<audit, result>> /\ Pol(c).mode # "off"
    BY <1>6 DEF ApplyAnalysed, PassGates, Goto, TypeOK
  <2> QED
    BY <1>0, <1>1, <2>1, ToSilent
<1> QED
  BY <1>2, <1>4, <1>5, <1>6 DEF Begin

\* doForward's end gives the call its own answer.
LEMMA ReturnTrail ==
  ASSUME TypeOK, NEW c \in Calls, Trail(c),
         pc[c] \in {"upstream", "put", "close"}, pc'[c] = "returned",
         outcome'[c] \in AllOutcomes, c \in executed \/ Unsent(c)',
         result'[c] = ForwardResult(c, outcome'[c]),
         UNCHANGED <<req, hash, ctxDone, audit, executed>>
  PROVE  Trail(c)'
<1>1. ForwardRecord(c)'
  BY DEF Trail, AuditTrail, Underway, ForwardRecord, Pol, Tool
<1>2. /\ result'[c].decision = "forward"
      /\ result'[c].err # "analyse"
      /\ result'[c].err = "none" => result'[c].of = c
  BY DEF ForwardResult, Answer, AllOutcomes, Success, Unanswered
<1>own. Own(c)'
  BY DEF Own, ForwardResult, AllOutcomes, Success, Unanswered
<1>3. AuditTrail(c)'
  <2>1. Len(audit'[c]) = IF Pol(c)'.mode = "off" THEN 0 ELSE 1
    <3>1. CASE (Pol(c).mode = "off")'
      BY <1>1, <3>1 DEF ForwardRecord
    <3>2. CASE (Pol(c).mode # "off")'
      BY <1>1, <3>2 DEF ForwardRecord
    <3> QED
      BY <3>1, <3>2
  <2> QED
    BY <1>1, <1>2, <2>1 DEF AuditTrail, Silent, Underway
<1>4. ExecutionTrail(c)'
  BY DEF ExecutionTrail, AllOutcomes, Success, Unanswered, Silent, Underway
<1>5. ResultTrail(c)'
  BY <1>2, <1>own DEF ResultTrail, Silent, Underway, Refusals
<1> QED
  BY <1>3, <1>4, <1>5 DEF Trail

\* A call under way goes on to another such place.
LEMMA Onwards ==
  ASSUME TypeOK, NEW c \in Calls, Trail(c), pc[c] \in Underway,
         pc'[c] \in {"upstream", "put", "release", "close"},
         executed \subseteq executed',
         outcome[c] # "none" => outcome'[c] = outcome[c],
         outcome'[c] # "none" => c \in executed' \/ Unsent(c)',
         pc'[c] = "upstream" => outcome'[c] = "none",
         pc'[c] # "upstream" => outcome'[c] # "none",
         pc'[c] = "put" => hash[c] \in Hashes /\ outcome'[c] \in Success,
         UNCHANGED <<req, hash, ctxDone, audit, result, done>>
  PROVE  Trail(c)'
<1>1. ForwardRecord(c)' /\ result[c] = NoResult
  BY DEF Trail, AuditTrail, ResultTrail, ForwardRecord, Pol, Tool
<1>2. AuditTrail(c)'
  BY <1>1 DEF AuditTrail, Silent, Underway
<1>3. ExecutionTrail(c)'
  BY DEF Trail, ExecutionTrail, Silent, Underway
<1>4. ResultTrail(c)'
  BY <1>1, BareFields DEF ResultTrail, Silent, Underway, NoResult, Refusals
<1> QED
  BY <1>2, <1>3, <1>4 DEF Trail

\* The end of doForward, from the upstream's answer or after the Put.
LEMMA FinishTrail ==
  ASSUME TypeOK, NEW c \in Calls, Trail(c), pc[c] \in {"upstream", "put"},
         NEW o \in AllOutcomes, Finish(c, o),
         outcome' = [outcome EXCEPT ![c] = o],
         outcome[c] # "none" => o = outcome[c],
         c \in executed \/ Unsent(c)',
         UNCHANGED <<req, hash, ctxDone, audit, done, executed>>
  PROVE  Trail(c)'
<1>1. outcome'[c] = o
  BY DEF TypeOK
<1>2. CASE Goto(c, "release") /\ UNCHANGED result
  <2>1. pc'[c] = "release"
    BY <1>2 DEF Goto, TypeOK
  <2> QED
    BY <1>1, <1>2, <2>1, Onwards DEF Underway, AllOutcomes, Success, Unanswered
<1>3. CASE /\ Goto(c, "returned")
           /\ result' = [result EXCEPT ![c] = ForwardResult(c, o)]
  <2>1. pc'[c] = "returned" /\ result'[c] = ForwardResult(c, o)
    BY <1>3 DEF Goto, TypeOK
  <2>2. result'[c] = ForwardResult(c, outcome'[c])
    BY <1>1, <2>1
  <2> QED
    BY <1>1, <2>1, <2>2, ReturnTrail
<1> QED
  BY <1>2, <1>3 DEF Finish

\* The return of forward().
LEMMA UpstreamTrail ==
  ASSUME TypeOK, NEW c \in Calls, Trail(c), Upstream(c)
  PROVE  Trail(c)'
<1>1. PICK o \in (IF c \in executed THEN Outcomes ELSE {}) \cup
                 (IF c \notin executed \/ ctxDone[c] THEN Unanswered ELSE {}) :
        /\ outcome' = [outcome EXCEPT ![c] = o]
        /\ \/ Cacheable(c, o) /\ Goto(c, "put") /\ UNCHANGED <<handle, result>>
           \/ ~Cacheable(c, o) /\ Finish(c, o)
  BY DEF Upstream
<1>2. o \in AllOutcomes
  BY EnvironmentAssumption DEF AllOutcomes, Unanswered
<1>3. /\ pc[c] = "upstream" /\ outcome[c] = "none"
      /\ UNCHANGED <<req, hash, ctxDone, audit, done, executed>>
  BY DEF Upstream, histVars, Trail, ExecutionTrail
<1>4. outcome'[c] = o /\ (c \in executed \/ Unsent(c)')
  BY <1>1, <1>3 DEF TypeOK, Unsent
<1>5. CASE Cacheable(c, o) /\ Goto(c, "put") /\ UNCHANGED <<handle, result>>
  <2>1. pc'[c] = "put" /\ hash[c] \in Hashes /\ o \in Success
    BY <1>5 DEF Goto, Cacheable, TypeOK
  <2> QED
    BY <1>3, <1>4, <1>5, <2>1, Onwards DEF Underway, Success
<1>6. CASE Finish(c, o)
  BY <1>1, <1>2, <1>3, <1>4, <1>6, FinishTrail
<1> QED
  BY <1>1, <1>5, <1>6

\* Every step of a call's goroutine.
LEMMA StepTrail ==
  ASSUME FlightInv, NEW c \in Calls, Trail(c), Step(c)
  PROVE  Trail(c)'
<1>0. TypeOK
  BY DEF FlightInv
<1>1. CASE GetError(c) \/ ScanNothing(c)
  BY <1>0, <1>1, ForwardTrail DEF GetError, ScanNothing
<1>2. CASE GetMiss(c) \/ LazyDelete(c)
  BY <1>0, <1>2, MissedTrail DEF GetMiss, LazyDelete
<1>3. CASE GetHit(c)
  BY <1>0, <1>3, ForwardTrail, HitTrail DEF GetHit
<1>4. CASE ScanHit(c)
  BY <1>0, <1>4, HitTrail DEF ScanHit
<1>5. CASE GetExpired(c)
  <2>1. /\ pc[c] = "get" /\ pc'[c] = "lazydel"
        /\ UNCHANGED <<req, ctxDone, outcome, executed, done, audit, result>>
    BY <1>0, <1>5 DEF GetExpired, Goto, TypeOK, decideFrame, flightVars
  <2>2. Pol(c).mode # "off"
    BY <2>1 DEF Trail, AuditTrail, Silent
  <2> QED
    BY <2>1, <2>2, ToSilent DEF Silent
<1>6. CASE IncrementReplay(c)
  <2>1. /\ pc[c] = "increment" /\ pc'[c] = "returned"
        /\ UNCHANGED <<req, ctxDone, outcome, executed, done, audit, result>>
    BY <1>0, <1>6 DEF IncrementReplay, Goto, TypeOK, decideFrame, flightVars
  <2>2. /\ Len(audit[c]) = 1 /\ Pol(c).mode # "off" /\ c \notin executed
        /\ outcome[c] = "none" /\ ~Shadow
        /\ result[c].decision = "replay" /\ result[c].err = "none"
    BY <2>1 DEF Trail, AuditTrail, ExecutionTrail, ResultTrail, Underway
  <2>3. AuditTrail(c)'
    BY <2>1, <2>2 DEF AuditTrail, Silent, Underway, Pol, Tool
  <2>4. ExecutionTrail(c)'
    BY <2>1, <2>2 DEF Trail, ExecutionTrail, Silent, Underway
  <2>5. ResultTrail(c)'
    BY <2>1, <2>2 DEF ResultTrail, Silent, Underway, Refusals
  <2> QED
    BY <2>3, <2>4, <2>5 DEF Trail
<1>7. CASE Lead(c)
  <2>1. /\ pc[c] = "acquire" /\ pc'[c] = "send"
        /\ UNCHANGED <<req, ctxDone, outcome, executed, done, result>>
    BY <1>0, <1>7 DEF Lead, Goto, TypeOK, histVars
  <2>2. Pol(c).mode # "off" /\ audit[c] = <<>>
    BY <2>1 DEF Trail, AuditTrail, Silent
  <2>3. ForwardRecord(c)'
    BY <1>0, <1>7, <2>1, <2>2, OwnAudit DEF Lead, ForwardRecord, Pol, Tool
  <2> QED
    BY <2>1, <2>3, ToSend DEF Silent
<1>8. CASE Follow(c)
  <2>1. /\ pc[c] = "acquire" /\ pc'[c] = "wait"
        /\ UNCHANGED <<req, ctxDone, outcome, executed, done, audit, result>>
    BY <1>0, <1>8 DEF Follow, Goto, TypeOK, flightVars, histVars
  <2>2. Pol(c).mode # "off" /\ ~Shadow
    BY <2>1 DEF Trail, AuditTrail, ResultTrail, Silent
  <2> QED
    BY <2>1, <2>2, ToSilent DEF Silent
<1>9. CASE WaitDone(c) \/ WaitCancelled(c)
  <2>1. PICK r, d, m : /\ result' = [result EXCEPT ![c] = r]
                       /\ WriteAudit(c, d, m)
                       /\ \/ r.decision = "replay" /\ r.err = "none"
                          \/ /\ r.decision = "forward"
                             /\ r.err \in {"leader", "ctx"}
    <3>1. CASE WaitDone(c)
      <4> DEFINE r == CoalescedResult(c)
      <4>1. /\ result' = [result EXCEPT ![c] = r]
            /\ WriteAudit(c, r.decision, r.match)
        BY <3>1 DEF WaitDone
      <4>2. \/ r.decision = "replay" /\ r.err = "none"
            \/ r.decision = "forward" /\ r.err = "leader"
        BY BareFields DEF CoalescedResult, Answer
      <4> HIDE DEF r
      <4> QED
        BY <4>1, <4>2
    <3>2. CASE WaitCancelled(c)
      <4> DEFINE r == Bare("forward", "none", "ctx")
      <4>1. /\ result' = [result EXCEPT ![c] = r]
            /\ WriteAudit(c, "forward", "none")
        BY <3>2 DEF WaitCancelled
      <4>2. r.decision = "forward" /\ r.err = "ctx"
        BY BareFields
      <4> HIDE DEF r
      <4> QED
        BY <4>1, <4>2
    <3> QED
      BY <1>9, <3>1, <3>2
  <2>2. /\ pc[c] = "wait" /\ pc'[c] = "returned"
        /\ UNCHANGED <<req, ctxDone, outcome, executed, done>>
    BY <1>0, <1>9 DEF WaitDone, WaitCancelled, Goto, TypeOK, decideFrame,
                      flightVars
  <2>3. Pol(c).mode # "off" /\ ~Shadow /\ audit[c] = <<>>
    BY <2>2 DEF Trail, AuditTrail, ResultTrail, Silent
  <2>4. Len(audit'[c]) = 1
    BY <1>0, <2>1, <2>3, OwnAudit
  <2> QED
    BY <1>0, <2>1, <2>2, <2>3, <2>4, ToAnswer DEF Silent
<1>10. CASE Send(c)
  <2>1. /\ pc[c] = "send" /\ pc'[c] = "upstream"
        /\ executed \subseteq executed'
        /\ UNCHANGED <<req, hash, ctxDone, outcome, audit, result, done>>
    BY <1>0, <1>10 DEF Send, Goto, TypeOK, flightVars
  <2>2. outcome[c] = "none"
    BY <2>1 DEF Trail, ExecutionTrail
  <2> QED
    BY <1>0, <2>1, <2>2, Onwards DEF Underway
<1>11. CASE Put(c)
  <2>1. /\ pc[c] = "put" /\ Finish(c, outcome[c])
        /\ UNCHANGED <<req, hash, ctxDone, outcome, audit, done, executed>>
    BY <1>11 DEF Put, histVars
  <2>2. /\ outcome[c] \in AllOutcomes
        /\ outcome' = [outcome EXCEPT ![c] = outcome[c]]
    BY <1>0, <2>1 DEF Trail, ExecutionTrail, TypeOK, AllOutcomes, Success
  <2>3. c \in executed \/ Unsent(c)'
    BY <2>1 DEF Trail, ExecutionTrail, Unsent
  <2> QED
    BY <1>0, <2>1, <2>2, <2>3, FinishTrail
<1>12. CASE Release(c)
  <2>1. /\ pc[c] = "release" /\ pc'[c] = "close"
        /\ UNCHANGED <<req, hash, ctxDone, outcome, audit, result, done, executed>>
    BY <1>0, <1>12 DEF Release, Goto, TypeOK, histVars
  <2>2. outcome[c] # "none" /\ (c \in executed \/ Unsent(c)')
    BY <2>1 DEF Trail, ExecutionTrail, Unsent
  <2> QED
    BY <1>0, <2>1, <2>2, Onwards DEF Underway
<1>13. CASE Close(c)
  <2>1. /\ pc[c] = "close" /\ pc'[c] = "returned"
        /\ result'[c] = ForwardResult(c, outcome[c])
        /\ UNCHANGED <<req, hash, ctxDone, outcome, audit, executed>>
    BY <1>0, <1>13 DEF Close, Goto, TypeOK, histVars
  <2>2. outcome[c] \in AllOutcomes /\ (c \in executed \/ Unsent(c)')
    BY <1>0, <2>1 DEF Trail, ExecutionTrail, Unsent, TypeOK
  <2>3. result'[c] = ForwardResult(c, outcome'[c])
    BY <2>1
  <2> QED
    BY <1>0, <2>1, <2>2, <2>3, ReturnTrail
<1> QED
  BY <1>1, <1>2, <1>3, <1>4, <1>5, <1>6, <1>7, <1>8, <1>9, <1>10, <1>11,
     <1>12, <1>13 DEF Step

-----------------------------------------------------------------------------
(* The invariant.                                                          *)

\* A client that leaves: nothing it did becomes undone.
LEMMA CancelTrail ==
  ASSUME TypeOK, NEW c \in Calls, Trail(c), Cancel(c)
  PROVE  Trail(c)'
<1>1. /\ UNCHANGED <<pc, req, hash, outcome, result, audit, executed, done>>
      /\ ctxDone'[c] = TRUE
  BY DEF Cancel, callVars, flightVars, TypeOK
<1>2. AuditTrail(c)'
  BY <1>1 DEF Trail, AuditTrail, ForwardRecord, Pol, Tool
<1>3. ExecutionTrail(c)'
  BY <1>1 DEF Trail, ExecutionTrail, Unsent
<1>4. ResultTrail(c)'
  BY <1>1 DEF Trail, ResultTrail, Own, Unsent, ForwardResult
<1> QED
  BY <1>2, <1>3, <1>4 DEF Trail

\* The end of the process stops a call where it stands.
LEMMA RestartTrail ==
  ASSUME TypeOK, NEW c \in Calls, Trail(c), Restart
  PROVE  Trail(c)'
<1>1. /\ pc'[c] = (IF pc[c] \in Running THEN "dead" ELSE pc[c])
      /\ UNCHANGED <<req, hash, ctxDone, outcome, result, audit, executed, done>>
  BY DEF Restart, histVars
<1>2. CASE pc'[c] = pc[c]
  BY <1>1, <1>2, KeptTrail DEF Kept
<1>3. CASE pc'[c] = "dead"
  <2>1. AuditTrail(c)'
    BY <1>1, <1>3 DEF Trail, AuditTrail, ForwardRecord, Pol, Tool, Silent, Underway
  <2>2. ExecutionTrail(c)'
    BY <1>1, <1>3 DEF Trail, ExecutionTrail, Unsent, Silent, Underway
  <2>3. ResultTrail(c)'
    BY <1>1, <1>3 DEF Trail, ResultTrail, Silent, Underway
  <2> QED
    BY <2>1, <2>2, <2>3 DEF Trail
<1> QED
  BY <1>1, <1>2, <1>3

\* A call's own steps.
LEMMA OwnTrail ==
  ASSUME FlightInv, NEW c \in Calls, Trail(c),
         Begin(c) \/ Step(c) \/ Upstream(c) \/ Cancel(c)
  PROVE  Trail(c)'
<1>1. TypeOK
  BY DEF FlightInv
<1> QED
  BY <1>1, BeginTrail, StepTrail, UpstreamTrail, CancelTrail

\* TrailInv is inductive.
LEMMA TrailStep == TrailInv /\ [Next]_vars => TrailInv'
<1> SUFFICES ASSUME TrailInv, [Next]_vars PROVE TrailInv'
  OBVIOUS
<1>0. FlightInv /\ TypeOK /\ \A b \in Calls : Trail(b)
  BY DEF TrailInv, FlightInv
<1>1. FlightInv'
  BY <1>0, FlightStep
<1>2. ASSUME NEW b \in Calls PROVE Trail(b)'
  <2>0. Trail(b)
    BY <1>0
  <2>1. ASSUME NEW c \in Calls,
               Begin(c) \/ Step(c) \/ Upstream(c) \/ Cancel(c)
        PROVE  Trail(b)'
    <3>1. CASE b = c
      BY <1>0, <2>0, <2>1, <3>1, OwnTrail
    <3>2. CASE b # c
      BY <1>0, <2>0, <2>1, <3>2, OthersKept, KeptTrail
    <3> QED
      BY <3>1, <3>2
  <2>2. CASE (\E k \in Keys : AdminDelete(k)) \/ Tick \/ UNCHANGED vars
    <3>1. Kept(b)
      BY <2>2 DEF AdminDelete, Tick, vars, callVars, flightVars, Kept
    <3> QED
      BY <2>0, <3>1, KeptTrail
  <2>3. CASE Restart
    BY <1>0, <2>0, <2>3, RestartTrail
  <2> QED
    BY <2>1, <2>2, <2>3 DEF Next
<1> QED
  BY <1>1, <1>2 DEF TrailInv

\* TrailInv holds in every reachable state of the pipeline.
THEOREM TrailInvariant == Spec => []TrailInv
<1>1. Init => TrailInv
  <2> SUFFICES ASSUME Init PROVE TrailInv
    OBVIOUS
  <2>1. ASSUME NEW c \in Calls PROVE Trail(c)
    <3>1. /\ pc[c] = "idle" /\ outcome[c] = "none" /\ result[c] = NoResult
          /\ audit[c] = <<>> /\ c \notin executed /\ c \notin done
      BY DEF Init
    <3>2. NoResult.decision = "none"
      BY BareFields DEF NoResult
    <3> QED
      BY <3>1, <3>2 DEF Trail, AuditTrail, ExecutionTrail, ResultTrail, Silent,
                        Underway, Refusals
  <2> QED
    BY <2>1, FlightInit DEF TrailInv
<1> QED
  BY <1>1, TrailStep, PTL DEF Spec

-----------------------------------------------------------------------------
(* The audit log, shadow mode and the wire.                                *)

\* A returned call left exactly one audit record, and no call whose request
\* reached the upstream is on record as anything but a forward: whatever the
\* interleaving, the failure or the moment of a crash.
THEOREM AuditNeverHidesExecutionHolds == Spec => []AuditNeverHidesExecution
<1>1. TrailInv => AuditNeverHidesExecution
  BY DEF TrailInv, Trail, AuditTrail, ForwardRecord, AuditNeverHidesExecution
<1> QED
  BY <1>1, TrailInvariant, PTL

\* In shadow mode every analysable call is forwarded and answered with what its
\* own forward gave it, whatever the policy would have decided.
THEOREM ShadowForwardsHolds == Spec => []ShadowForwards
<1>1. TrailInv => ShadowForwards
  BY DEF TrailInv, Trail, ResultTrail, Own, Unsent, ShadowForwards
<1> QED
  BY <1>1, TrailInvariant, PTL

\* The mark, status, body and provenance of both adapters' replies, by the
\* Result they are made of.
LEMMA ReplyFields ==
  ASSUME NEW c \in Calls, NEW r, r = result[c],
         NEW m \in {HttpReply(c), McpReply(c)}
  PROVE  /\ m.mark = "replayed" => r.err = "none" /\ r.decision = "replay"
         /\ \/ m.status \in {"403", "409", "429"}
            \/ /\ m.body \in {"-32000", "-32003", "-32005"}
               /\ r.body \notin {"-32000", "-32003", "-32005"}
            => r.err = "none" /\ r.decision \in Refusals
         /\ m.mark = "fresh"
              => /\ r.err = "none" /\ r.decision \notin Refusals \cup {"replay"}
                 /\ m.of = r.of /\ m.status = StatusCode(r)
<1>1. CASE r.err # "none"
  BY <1>1 DEF HttpReply, McpReply, Reply, RpcError, Aborted
<1>2. CASE r.err = "none" /\ r.decision \in Refusals
  BY <1>2 DEF HttpReply, McpReply, Reply, RpcError, Aborted, Refusals
<1>3. CASE r.err = "none" /\ r.decision = "replay"
  <2>1. HttpReply(c) = Reply(StatusCode(r), "replayed", r.body, r.of,
                             WrittenId(r.body, r.of))
    BY <1>3 DEF HttpReply, Mark, Refusals
  <2>2. McpReply(c) = ReframeWithID(c, r.body, r.of)
    BY <1>3 DEF McpReply, Refusals
  <2>3. StatusCode(r) \notin {"403", "409", "429"}
    BY DEF StatusCode
  <2> QED
    BY <1>3, <2>1, <2>2, <2>3 DEF ReframeWithID, Reply, Refusals
<1>4. CASE r.err = "none" /\ r.decision \notin Refusals \cup {"replay"}
  <2>1. /\ HttpReply(c) = Reply(StatusCode(r), "fresh", r.body, r.of,
                                WrittenId(r.body, r.of))
        /\ McpReply(c) = HttpReply(c)
    BY <1>4 DEF HttpReply, McpReply, Mark
  <2>2. StatusCode(r) \notin {"403", "409", "429"}
    BY DEF StatusCode
  <2> QED
    BY <1>4, <2>1, <2>2 DEF Reply
<1> QED
  BY <1>1, <1>2, <1>3, <1>4

\* What the HTTP and the mcp-http adapter tell their clients is true: no call
\* marked as replayed or refused reached the upstream, and one marked fresh
\* carries its own answer and, unless that is a 502, did reach it.
THEOREM RepliesTellTheTruthHolds == Spec => []RepliesTellTheTruth
<1>1. TrailInv => RepliesTellTheTruth
  <2> SUFFICES ASSUME TrailInv, NEW c \in Calls, pc[c] = "returned",
                      NEW m \in {HttpReply(c), McpReply(c)}
               PROVE  /\ \/ m.mark = "replayed"
                         \/ m.status \in {"403", "409", "429"}
                         \/ m.body \in {"-32000", "-32003", "-32005"}
                         => c \notin executed
                      /\ m.mark = "fresh" => m.of = c
                      /\ m.mark = "fresh" /\ m.status # "502" => c \in executed
    BY DEF RepliesTellTheTruth
  <2> DEFINE r == result[c]
  <2>0. r.body \in {"none", "raw", "ack"} /\ outcome[c] \in AllOutcomes \cup {"none"}
    BY DEF TrailInv, FlightInv, TypeOK, Results
  <2>1. /\ r.decision \in {"replay"} \cup Refusals => c \notin executed
        /\ r.err = "none" /\ r.decision \notin Refusals \cup {"replay"}
             => r.of = c /\ Own(c)
    BY DEF TrailInv, Trail, ResultTrail
  <2>2. ASSUME r.err = "none", r.of = c, Own(c), c \notin executed
        PROVE  StatusCode(r) = "502"
    <3>1. outcome[c] # "error"
      BY <2>2 DEF Own, ForwardResult, Answer
    <3>2. outcome[c] = "badgateway"
      BY <2>2, <3>1 DEF Own, Unsent, Unanswered
    <3> QED
      BY <2>2, <3>2, SentinelAssumption DEF StatusCode
  <2> HIDE DEF r
  <2>3. /\ m.mark = "replayed" => r.err = "none" /\ r.decision = "replay"
        /\ \/ m.status \in {"403", "409", "429"}
           \/ m.body \in {"-32000", "-32003", "-32005"}
           => r.err = "none" /\ r.decision \in Refusals
        /\ m.mark = "fresh"
             => /\ r.err = "none" /\ r.decision \notin Refusals \cup {"replay"}
                /\ m.of = r.of /\ m.status = StatusCode(r)
    BY <2>0, ReplyFields DEF r
  <2> QED
    BY <2>1, <2>2, <2>3
<1> QED
  BY <1>1, TrailInvariant, PTL

\* A JSON-RPC client that gave its request an id finds that id, and no other,
\* in every frame mcp-http sends it; a body that is no frame is sent without.
THEOREM RepliesCorrelateHolds == Spec => []RepliesCorrelate
<1>1. TrailInv => RepliesCorrelate
  <2> SUFFICES ASSUME TrailInv, NEW c \in Calls, pc[c] = "returned", req[c].id,
                      NEW m, m = McpReply(c)
               PROVE  m.id = IF \/ m.body \in {"none", "ack"}
                                \/ m.body = "raw" /\ ~Framed(m.body, m.of)
                               THEN NoCall ELSE c
    BY DEF RepliesCorrelate
  <2> DEFINE r == result[c]
  <2>0. r.body \in {"none", "raw", "ack"}
    BY DEF TrailInv, FlightInv, TypeOK, Results
  <2>1. r.err = "none" /\ r.decision \notin Refusals \cup {"replay"}
          => r.of = c /\ r.body # "ack"
    <3>1. r.err = "none" /\ r.decision \notin Refusals \cup {"replay"}
            => r.of = c /\ Own(c)
      BY DEF TrailInv, Trail, ResultTrail
    <3>2. Own(c) => r.body # "ack"
      BY DEF Own, ForwardResult, Answer
    <3> QED
      BY <3>1, <3>2
  <2>2. CASE r.err = "panic"
    BY <2>2 DEF McpReply, Aborted, Reply
  <2>3. CASE r.err \notin {"panic", "none"}
    BY <2>3 DEF McpReply, RpcError, Reply
  <2>4. CASE r.err = "none" /\ r.decision \in Refusals
    BY <2>4 DEF McpReply, RpcError, RpcRefusal, Reply, Refusals
  <2>5. CASE r.err = "none" /\ r.decision = "replay"
    <3>1. m = ReframeWithID(c, r.body, r.of)
      BY <2>5 DEF McpReply, Refusals
    <3>2. CASE r.body = "ack" \/ Framed(r.body, r.of)
      BY <3>1, <3>2 DEF ReframeWithID, Reply, Framed
    <3>3. CASE ~(r.body = "ack" \/ Framed(r.body, r.of))
      BY <2>0, <3>1, <3>3 DEF ReframeWithID, Reply, WrittenId, Framed
    <3> QED
      BY <3>2, <3>3
  <2>6. CASE r.err = "none" /\ r.decision \notin Refusals \cup {"replay"}
    <3>1. m = Reply(StatusCode(r), "fresh", r.body, c, WrittenId(r.body, c))
      BY <2>1, <2>6 DEF McpReply
    <3> QED
      BY <2>0, <2>1, <2>6, <3>1, SentinelAssumption DEF Reply, WrittenId, Framed
  <2> QED
    BY <2>2, <2>3, <2>4, <2>5, <2>6
<1> QED
  BY <1>1, TrailInvariant, PTL

-----------------------------------------------------------------------------
(* Where cached and replayed answers come from.                            *)

\* What is settled stays settled: a call's request, its fingerprint once it
\* has begun, its outcome once it has one, and that it was executed.
Settled ==
  /\ req' = req /\ executed \subseteq executed'
  /\ \A w \in Calls : pc[w] # "idle" => hash'[w] = hash[w]
  /\ \A w \in Calls : outcome[w] # "none" => outcome'[w] = outcome[w]

\* No step takes back what is settled.
LEMMA SettledStep ==
  ASSUME TrailInv, [Next]_vars
  PROVE  Settled
<1>0. TypeOK /\ \A w \in Calls : Trail(w)
  BY DEF TrailInv, FlightInv
<1>1. ASSUME NEW c \in Calls, ApplyAnalysed(c) PROVE Settled
  BY <1>0, <1>1 DEF ApplyAnalysed, PassGates, Settled, TypeOK
<1>2. ASSUME NEW c \in Calls, Upstream(c) PROVE Settled
  <2>1. PICK o : outcome' = [outcome EXCEPT ![c] = o]
    BY <1>2 DEF Upstream
  <2>2. pc[c] = "upstream" /\ outcome[c] = "none"
    BY <1>0, <1>2 DEF Upstream, Trail, ExecutionTrail
  <2>3. UNCHANGED <<req, hash, executed>>
    BY <1>2 DEF Upstream, histVars
  <2> QED
    BY <1>0, <2>1, <2>2, <2>3 DEF Settled, TypeOK
<1>3. ASSUME NEW c \in Calls, Send(c) PROVE Settled
  BY <1>3 DEF Send, Settled
<1>4. ASSUME UNCHANGED <<req, hash, outcome, executed>> PROVE Settled
  BY <1>4 DEF Settled
<1>5. ASSUME NEW c \in Calls, Begin(c), ~ApplyAnalysed(c) PROVE Settled
  BY <1>4, <1>5 DEF Begin, ApplyOff, ApplyForbidden, ApplyRateLimited, Reject,
                    ApplyBadBody, histVars
<1>6. ASSUME NEW c \in Calls, Step(c), ~Send(c) PROVE Settled
  BY <1>4, <1>6 DEF Step, GetError, GetMiss, GetExpired, LazyDelete, GetHit,
       ScanNothing, ScanHit, IncrementReplay, Lead, Follow, WaitDone,
       WaitCancelled, Put, Release, Close, decideFrame, histVars
<1>7. ASSUME \/ \E c \in Calls : Cancel(c)
             \/ \E k \in Keys : AdminDelete(k)
             \/ Tick \/ Restart \/ UNCHANGED vars
      PROVE  Settled
  BY <1>4, <1>7 DEF Cancel, AdminDelete, Tick, Restart, callVars, histVars, vars
<1> QED
  BY <1>1, <1>2, <1>3, <1>5, <1>6, <1>7 DEF Next

\* Call w, or the store the process started with, gave the answer under k.
Gave(w, k) ==
  \/ w = NoCall /\ k \in Seeded
  \/ w \in executed /\ Key(w) = k /\ outcome[w] \in Success

\* Once an answer was given, it stays given.
LEMMA GaveStable ==
  ASSUME TrailInv, Settled, NEW w, NEW k, Gave(w, k)
  PROVE  Gave(w, k)'
<1>1. CASE w = NoCall /\ k \in Seeded
  BY <1>1 DEF Gave
<1>2. CASE w \in executed /\ Key(w) = k /\ outcome[w] \in Success
  <2>1. w \in Calls /\ pc[w] # "idle"
    BY <1>2 DEF TrailInv, FlightInv, TypeOK, Trail, ExecutionTrail, Underway
  <2>2. hash'[w] = hash[w] /\ outcome'[w] = outcome[w] /\ w \in executed'
    BY <1>2, <2>1 DEF Settled, Success
  <2> QED
    BY <1>2, <2>2 DEF Gave, Key, Tool, Settled
<1> QED
  BY <1>1, <1>2 DEF Gave

\* The entry buildEntry makes names its call and, for a synthesized_ack tool,
\* holds no response bytes.
LEMMA BuiltEntry ==
  ASSUME NEW c, NEW emb, NEW e, e = BuildEntry(c, emb)
  PROVE  e.by = c /\ (Pol(c).ack => ~e.body)
<1>1. e.by = c
  BY DEF BuildEntry
<1>2. Pol(c).ack => ~e.body
  BY DEF BuildEntry
<1> QED
  BY <1>1, <1>2

\* An entry found after a step was there before, counted or not, or has just
\* been put by its writer.
LEMMA EntryOrigin ==
  ASSUME TrailInv, [Next]_vars, NEW k \in Keys, entries'[k] # NoEntry
  PROVE  \/ /\ entries[k] # NoEntry
            /\ entries'[k].by = entries[k].by /\ entries'[k].body = entries[k].body
         \/ \E c \in Calls :
              /\ pc[c] = "put" /\ Key(c) = k
              /\ entries'[k].by = c
              /\ Pol(c).ack => ~entries'[k].body
<1> DEFINE Origin == \/ /\ entries[k] # NoEntry
                        /\ entries'[k].by = entries[k].by
                        /\ entries'[k].body = entries[k].body
                     \/ \E c \in Calls :
                          /\ pc[c] = "put" /\ Key(c) = k
                          /\ entries'[k].by = c
                          /\ Pol(c).ack => ~entries'[k].body
<1>0. TypeOK
  BY DEF TrailInv, FlightInv
<1>1. CASE entries'[k] = entries[k]
  BY <1>1
<1>2. ASSUME NEW j, entries' = Removed(entries, j) PROVE Origin
  <2>1. entries'[k] = entries[k]
    BY <1>0, <1>2 DEF Removed, TypeOK
  <2> QED
    BY <2>1, <1>1
<1>3. ASSUME NEW j, entries' = Counted(entries, j) PROVE Origin
  <2>1. CASE entries' = entries \/ j # k
    BY <1>0, <1>1, <1>3, <2>1 DEF Counted, TypeOK
  <2>2. CASE j = k /\ entries[k] # NoEntry
    <3>1. entries'[k] = [entries[k] EXCEPT !.replays = @ + 1]
      BY <1>0, <1>3, <2>2 DEF Counted, TypeOK
    <3>2. entries[k] \in Entries
      BY <1>0, <2>2 DEF TypeOK
    <3>3. entries'[k].by = entries[k].by /\ entries'[k].body = entries[k].body
      BY <3>1, <3>2 DEF Entries, EntriesOf
    <3> QED
      BY <2>2, <3>3
  <2> QED
    BY <1>3, <2>1, <2>2 DEF Counted
<1>4. ASSUME NEW c \in Calls, Put(c) PROVE Origin
  <2>1. CASE entries' = entries
    BY <2>1, <1>1
  <2>2. ASSUME NEW emb, entries' = Stored(entries, Key(c), BuildEntry(c, emb))
        PROVE  Origin
    <3>1. CASE k # Key(c)
      BY <1>0, <1>1, <2>2, <3>1 DEF Stored, TypeOK
    <3>2. CASE k = Key(c)
      <4>1. entries'[k] = BuildEntry(c, emb)
        BY <1>0, <2>2, <3>2 DEF Stored, TypeOK
      <4>2. entries'[k].by = c /\ (Pol(c).ack => ~entries'[k].body)
        BY <4>1, BuiltEntry
      <4> QED
        BY <1>4, <3>2, <4>2 DEF Put
    <3> QED
      BY <3>1, <3>2
  <2> QED
    BY <1>4, <2>1, <2>2 DEF Put
<1>5. CASE Restart
  BY <1>1, <1>5 DEF Restart
<1>6. ASSUME NEW c \in Calls, Begin(c) \/ Upstream(c) \/ Cancel(c)
      PROVE  entries' = entries
  BY <1>6 DEF Begin, ApplyOff, ApplyForbidden, ApplyRateLimited, Reject,
       ApplyBadBody, ApplyAnalysed, Upstream, Cancel
<1>7. ASSUME NEW c \in Calls, Step(c), ~Put(c) PROVE Origin
  <2>1. \/ entries' = entries
        \/ entries' = Removed(entries, Key(c))
        \/ entries' = Counted(entries, <<Tool(c), result[c].hash>>)
    BY <1>7 DEF Step, GetError, GetMiss, GetExpired, LazyDelete, GetHit,
         ScanNothing, ScanHit, IncrementReplay, Lead, Follow, WaitDone,
         WaitCancelled, Send, Release, Close
  <2> QED
    BY <2>1, <1>1, <1>2, <1>3
<1>8. CASE Tick \/ UNCHANGED vars
  BY <1>1, <1>8 DEF Tick, vars
<1>9. ASSUME NEW j \in Keys, AdminDelete(j) PROVE Origin
  BY <1>2, <1>9 DEF AdminDelete
<1> QED
  BY <1>1, <1>4, <1>5, <1>6, <1>7, <1>8, <1>9 DEF Next

\* A step keeps the cache honest: what it adds was answered 2xx.
LEMMA CacheStep ==
  ASSUME TrailInv, CacheHoldsAnswers, [Next]_vars
  PROVE  CacheHoldsAnswers'
<1>0. Settled
  BY SettledStep
<1> SUFFICES ASSUME NEW k \in Keys, entries'[k] # NoEntry,
                    NEW w, w = entries'[k].by
             PROVE  \/ w = NoCall /\ k \in Seeded
                    \/ /\ w \in executed' /\ Key(w)' = k
                       /\ outcome'[w] \in Success
                       /\ Pol(w)'.ack => ~entries'[k].body
  BY DEF CacheHoldsAnswers, Key, Pol, Tool
<1>1. CASE /\ entries[k] # NoEntry
           /\ entries'[k].by = entries[k].by /\ entries'[k].body = entries[k].body
  <2>1. Gave(w, k) /\ ((w = NoCall /\ k \in Seeded) \/ (Pol(w).ack => ~entries[k].body))
    BY <1>1 DEF CacheHoldsAnswers, Gave
  <2>2. Gave(w, k)'
    BY <1>0, <2>1, GaveStable
  <2>3. Pol(w)' = Pol(w)
    BY <1>0 DEF Pol, Tool, Settled
  <2> QED
    BY <1>1, <2>1, <2>2, <2>3 DEF Gave
<1>2. ASSUME NEW c \in Calls, pc[c] = "put", Key(c) = k, entries'[k].by = c,
             Pol(c).ack => ~entries'[k].body
      PROVE  /\ c \in executed' /\ Key(c)' = k /\ outcome'[c] \in Success
             /\ Pol(c)'.ack => ~entries'[k].body
  <2>1. c \in executed /\ outcome[c] \in Success
    BY <1>2 DEF TrailInv, Trail, ExecutionTrail, Unsent, Success, Unanswered
  <2> QED
    BY <1>0, <1>2, <2>1 DEF Settled, Key, Tool, Pol, Success
<1> QED
  BY <1>1, <1>2, EntryOrigin

\* Result r, given to call c, is an answer c may have.
Explains(c, r) ==
  /\ r.match = "exact" => r.hash = hash[c] /\ Gave(r.of, <<Tool(c), r.hash>>)
  /\ r.match = "semantic" =>
       /\ Score[hash[c], r.hash] >= Pol(c).threshold
       /\ Gave(r.of, <<Tool(c), r.hash>>)
  /\ r.match = "coalesced" =>
       /\ r.of \in Calls \ {c} /\ hash[r.of] = hash[c]
       /\ r.of \in executed \/ outcome[r.of] = "badgateway"

\* ReplayProvenance, call by call.
LEMMA ProvenancePerCall ==
  ReplayProvenance <=>
    \A c \in Calls : result[c].decision = "replay"
                       => c \notin executed /\ Explains(c, result[c])
BY DEF ReplayProvenance, Explains, Gave

\* An explanation stays one.
LEMMA ExplainsStable ==
  ASSUME TrailInv, Settled, NEW c \in Calls, pc[c] # "idle", NEW r, Explains(c, r)
  PROVE  Explains(c, r)'
<1>1. hash'[c] = hash[c] /\ Tool(c)' = Tool(c) /\ Pol(c)' = Pol(c)
  BY DEF Settled, Tool, Pol
<1>2. Gave(r.of, <<Tool(c), r.hash>>) => Gave(r.of, <<Tool(c), r.hash>>)'
  <2>1. PICK w, k : w = r.of /\ k = <<Tool(c), r.hash>>
    OBVIOUS
  <2>2. k = <<Tool(c), r.hash>>'
    BY <1>1, <2>1
  <2>3. Gave(w, k) => Gave(w, k)'
    BY GaveStable
  <2> QED
    BY <2>1, <2>2, <2>3 DEF Gave
<1>3. ASSUME r.of \in Calls, r.of \in executed \/ outcome[r.of] = "badgateway"
      PROVE  /\ hash'[r.of] = hash[r.of]
             /\ r.of \in executed' \/ outcome'[r.of] = "badgateway"
  <2>1. pc[r.of] # "idle"
    BY <1>3 DEF TrailInv, Trail, ExecutionTrail, Underway, Silent
  <2> QED
    BY <1>3, <2>1 DEF Settled
<1> QED
  BY <1>1, <1>2, <1>3 DEF Explains

\* An exact or semantic hit replays an entry, and the entry explains it.
LEMMA HitExplained ==
  ASSUME TrailInv, CacheHoldsAnswers, NEW c \in Calls, NEW h \in Hashes,
         NEW m \in {"exact", "semantic"}, DecideHit(c, h, m),
         entries[<<Tool(c), h>>] # NoEntry,
         m = "exact" => h = hash[c],
         m = "semantic" => Score[hash[c], h] >= Pol(c).threshold,
         result'[c] # result[c], result'[c].decision = "replay"
  PROVE  Explains(c, result'[c])
<1> DEFINE e == entries[<<Tool(c), h>>]
           confirm == Pol(c).mode = "strict" /\ Pol(c).confirm
           d == IF confirm THEN "block" ELSE "replay"
           r == Answer(d, m, h, IF confirm THEN NoCall ELSE e.by,
                       IF confirm THEN "none" ELSE RenderReplayBody(e), "none")
<1>0. TypeOK /\ <<Tool(c), h>> \in Keys
  BY PolicyTypes DEF TrailInv, FlightInv, TypeOK, Tool, Keys
<1>1. result' = [result EXCEPT ![c] = r]
  BY DEF DecideHit
<1>2. result'[c] = r
  BY <1>0, <1>1 DEF TypeOK
<1>3. r.decision = d /\ r.match = m /\ r.hash = h
  BY DEF Answer
<1>4. ~confirm
  BY <1>2, <1>3
<1>5. r.of = e.by
  BY <1>4 DEF Answer
<1>6. Gave(e.by, <<Tool(c), h>>)
  BY <1>0 DEF CacheHoldsAnswers, Gave
<1> HIDE DEF r, e
<1> QED
  BY <1>2, <1>3, <1>5, <1>6 DEF Explains

\* A waiter's answer is its leader's, which executed or is the proxy's own 502.
LEMMA WaitExplained ==
  ASSUME TrailInv, NEW c \in Calls, WaitDone(c),
         result'[c].decision = "replay"
  PROVE  Explains(c, result'[c])
<1> DEFINE l == leader[c]
           fr == ForwardResult(l, outcome[l])
           r == CoalescedResult(c)
<1>0. TypeOK /\ pc[c] = "wait" /\ l \in done
  BY DEF TrailInv, FlightInv, WaitDone
<1>1. /\ l \in Calls /\ l # c /\ hash[l] = hash[c]
      /\ handle[l] = HandleOf(outcome[l])
  BY <1>0 DEF TrailInv, FlightInv, WaitersAttached
<1>2. /\ outcome[l] # "none" /\ outcome[l] \in AllOutcomes
      /\ l \in executed \/ outcome[l] \in Unanswered
  BY <1>0, <1>1 DEF TrailInv, Trail, ExecutionTrail, Unsent, TypeOK
<1>3. result'[c] = r
  BY <1>0 DEF WaitDone, TypeOK
<1>4. CASE outcome[l] \in {"error", "panic"}
  <2>1. r = Bare("forward", "none", "leader")
    BY <1>1, <1>4 DEF CoalescedResult, HandleOf
  <2> QED
    BY <1>3, <2>1, BareFields
<1>5. CASE outcome[l] \notin {"error", "panic"}
  <2>1. r = Answer("replay", "coalesced", fr.hash, fr.of, fr.body, "none")
    BY <1>1, <1>5 DEF CoalescedResult, HandleOf
  <2>2. fr.of = l
    BY <1>2, <1>5 DEF ForwardResult, Answer
  <2>3. r.match = "coalesced" /\ r.of = l
    BY <2>1, <2>2 DEF Answer
  <2>4. l \in executed \/ outcome[l] = "badgateway"
    BY <1>2, <1>5 DEF Unanswered
  <2> HIDE DEF r, l
  <2> QED
    BY <1>1, <1>3, <2>3, <2>4 DEF Explains
<1> QED
  BY <1>4, <1>5

\* A call that gets a replay in a step gets one that is explained.
LEMMA ReplayExplained ==
  ASSUME TrailInv, CacheHoldsAnswers, NEW c \in Calls,
         Begin(c) \/ Step(c) \/ Upstream(c) \/ Cancel(c),
         result'[c] # result[c], result'[c].decision = "replay"
  PROVE  pc[c] # "idle" /\ Explains(c, result'[c])
<1>0. TypeOK /\ CallsInOrder
  BY DEF TrailInv, FlightInv
<1>fw. \A o : ForwardResult(c, o).decision = "forward"
  BY DEF ForwardResult, Answer
<1>1. ASSUME NEW r, result' = [result EXCEPT ![c] = r], r.decision # "replay"
      PROVE  FALSE
  BY <1>0, <1>1 DEF TypeOK
<1>2. ASSUME Begin(c) PROVE FALSE
  <2>1. ASSUME NEW d \in {"forbidden", "ratelimited"}, Reject(c, d) PROVE FALSE
    <3>1. PICK r : r = Bare(d, "none", "none")
      OBVIOUS
    <3>2. r.decision # "replay"
      BY <3>1, BareFields
    <3> QED
      BY <2>1, <3>1, <3>2, <1>1 DEF Reject
  <2>2. ASSUME ApplyBadBody(c) PROVE FALSE
    <3>1. PICK r : r = Bare("none", "none", "analyse")
      OBVIOUS
    <3>2. r.decision # "replay"
      BY <3>1, BareFields
    <3> QED
      BY <2>2, <3>1, <3>2, <1>1 DEF ApplyBadBody
  <2> QED
    BY <1>2, <2>1, <2>2 DEF Begin, ApplyOff, ApplyForbidden, ApplyRateLimited,
                            ApplyAnalysed
<1>3. ASSUME NEW o, Finish(c, o) PROVE FALSE
  <2>1. PICK r : r = ForwardResult(c, o)
    OBVIOUS
  <2> QED
    BY <1>3, <2>1, <1>fw, <1>1 DEF Finish
<1>4. ASSUME Upstream(c) \/ Cancel(c) PROVE FALSE
  BY <1>3, <1>4 DEF Upstream, Cancel, callVars
<1>5. CASE GetHit(c)
  <2>1. DecideHit(c, hash[c], "exact")
    BY <1>5 DEF GetHit, DecideForward
  <2>2. /\ pc[c] = "get" /\ hash[c] \in Hashes
        /\ entries[<<Tool(c), hash[c]>>] # NoEntry
    BY <1>0, <1>5 DEF GetHit, Live, Key, CallsInOrder, Undecided
  <2> QED
    BY <2>1, <2>2, HitExplained
<1>6. CASE ScanHit(c)
  <2>1. PICK h \in Best(c) : DecideHit(c, h, "semantic")
    BY <1>6 DEF ScanHit
  <2>2. /\ h \in Hashes /\ entries[<<Tool(c), h>>] # NoEntry
        /\ Score[hash[c], h] >= Pol(c).threshold
    BY DEF Best, Candidates, Live
  <2>3. pc[c] = "scan"
    BY <1>6 DEF ScanHit
  <2> QED
    BY <2>1, <2>2, <2>3, HitExplained
<1>7. CASE WaitDone(c)
  <2>1. pc[c] = "wait"
    BY <1>7 DEF WaitDone
  <2> QED
    BY <1>7, <2>1, WaitExplained
<1>8. ASSUME WaitCancelled(c) PROVE FALSE
  <2>1. PICK r : r = Bare("forward", "none", "ctx")
    OBVIOUS
  <2>2. r.decision # "replay"
    BY <2>1, BareFields
  <2> QED
    BY <1>8, <2>1, <2>2, <1>1 DEF WaitCancelled
<1>9. ASSUME Close(c) PROVE FALSE
  <2>1. PICK r : r = ForwardResult(c, outcome[c])
    OBVIOUS
  <2> QED
    BY <1>9, <2>1, <1>fw, <1>1 DEF Close
<1>10. ASSUME Step(c), ~GetHit(c), ~ScanHit(c), ~WaitDone(c) PROVE FALSE
  <2>1. CASE Put(c)
    BY <2>1, <1>3 DEF Put
  <2>2. CASE WaitCancelled(c) \/ Close(c)
    BY <2>2, <1>8, <1>9
  <2>3. result' = result \/ Put(c) \/ WaitCancelled(c) \/ Close(c)
    BY <1>10 DEF Step, GetError, GetMiss, Missed, DecideForward, GetExpired,
         LazyDelete, ScanNothing, IncrementReplay, Lead, Follow, Send, Release
  <2> QED
    BY <2>1, <2>2, <2>3
<1> QED
  BY <1>2, <1>4, <1>5, <1>6, <1>7, <1>10

\* A step keeps every replay explained.
LEMMA ProvenanceStep ==
  ASSUME TrailInv, CacheHoldsAnswers, ReplayProvenance, [Next]_vars
  PROVE  ReplayProvenance'
<1>0. Settled /\ TrailInv' /\ TypeOK
  BY SettledStep, TrailStep DEF TrailInv, FlightInv
<1>1. ASSUME NEW b \in Calls, result'[b].decision = "replay"
      PROVE  b \notin executed' /\ Explains(b, result[b])'
  <2>1. b \notin executed'
    BY <1>0, <1>1 DEF TrailInv, Trail, ResultTrail
  <2>2. PICK r : r = result'[b]
    OBVIOUS
  <2>3. pc[b] # "idle" /\ Explains(b, r)
    <3>1. CASE result'[b] = result[b]
      <4>1. Explains(b, result[b])
        BY <1>1, <3>1, ProvenancePerCall
      <4>2. result[b] # NoResult
        BY <1>1, <3>1, BareFields DEF NoResult
      <4>3. pc[b] # "idle"
        BY <4>2 DEF TrailInv, Trail, ResultTrail, Silent
      <4> QED
        BY <2>2, <3>1, <4>1, <4>3
    <3>2. CASE result'[b] # result[b]
      <4>1. Begin(b) \/ Step(b) \/ Upstream(b) \/ Cancel(b)
        <5>1. ASSUME NEW c \in Calls,
                     Begin(c) \/ Step(c) \/ Upstream(c) \/ Cancel(c), b # c
              PROVE  FALSE
          BY <1>0, <3>2, <5>1, OthersKept DEF Kept
        <5>2. ASSUME (\E k \in Keys : AdminDelete(k)) \/ Tick \/ Restart
                     \/ UNCHANGED vars
              PROVE  FALSE
          BY <3>2, <5>2 DEF AdminDelete, Tick, Restart, vars, callVars
        <5> QED
          BY <5>1, <5>2 DEF Next
      <4> QED
        BY <1>1, <2>2, <3>2, <4>1, ReplayExplained
    <3> QED
      BY <3>1, <3>2
  <2>4. Explains(b, r)'
    BY <1>0, <2>3, ExplainsStable
  <2>5. Explains(b, result[b])'
    BY <2>2, <2>4 DEF Explains, Gave
  <2> QED
    BY <2>1, <2>5
<1> QED
  BY <1>1, ProvenancePerCall DEF ReplayProvenance, Explains, Gave

\* The inductive invariant behind the cache and the replays.
SourceInv == TrailInv /\ CacheHoldsAnswers /\ ReplayProvenance

\* SourceInv holds in every reachable state of the pipeline.
THEOREM SourceInvariant == Spec => []SourceInv
<1>1. Init => CacheHoldsAnswers /\ ReplayProvenance
  <2> SUFFICES ASSUME Init PROVE CacheHoldsAnswers /\ ReplayProvenance
    OBVIOUS
  <2>1. CacheHoldsAnswers
    BY DEF Init, CacheHoldsAnswers
  <2>2. \A c \in Calls : result[c].decision = "none"
    BY BareFields DEF Init, NoResult
  <2> QED
    BY <2>1, <2>2 DEF ReplayProvenance
<1>2. /\ TrailInv /\ CacheHoldsAnswers /\ ReplayProvenance /\ [Next]_vars
      => CacheHoldsAnswers' /\ ReplayProvenance'
  BY CacheStep, ProvenanceStep
<1> QED
  BY <1>1, <1>2, TrailInvariant, PTL DEF Spec, SourceInv

\* Whatever the store holds was there at the start or is a 2xx answer the
\* upstream gave to a call with exactly that tool and fingerprint.
THEOREM CacheHoldsAnswersHolds == Spec => []CacheHoldsAnswers
<1>1. SourceInv => CacheHoldsAnswers
  BY DEF SourceInv
<1> QED
  BY <1>1, SourceInvariant, PTL

\* Every replayed answer is traced to the execution it came from, and the
\* replayed call itself never reached the upstream.
THEOREM ReplayProvenanceHolds == Spec => []ReplayProvenance
<1>1. SourceInv => ReplayProvenance
  BY DEF SourceInv
<1> QED
  BY <1>1, SourceInvariant, PTL

-----------------------------------------------------------------------------
(* The rate limit.                                                         *)

\* No audit record of call c says that the limiter turned it away.
Unlimited(c) ==
  \A i \in DOMAIN audit[c] :
    "ratelimited" \notin {audit[c][i].decision, audit[c][i].would}

\* What the limiter of tool t has given away and what it has left never
\* exceed its burst and the refill so far.
RateInv(t) ==
  /\ IsFiniteSet(Admitted(t))
  /\ Cardinality(Admitted(t)) + tokens[t] <= Burst(t) + Policy[t].rps * now

\* A record of another decision does not change who counts as limited.
LEMMA UnlimitedAppend ==
  ASSUME TypeOK, NEW c \in Calls, NEW d, NEW m, WriteAudit(c, d, m)
  PROVE  /\ d # "ratelimited" => (Unlimited(c)' <=> Unlimited(c))
         /\ d = "ratelimited" => ~Unlimited(c)'
<1> DEFINE r == IF Shadow THEN [decision |-> "forward", would |-> d, match |-> m]
                          ELSE [decision |-> d, would |-> "none", match |-> m]
<1>1. audit'[c] = Append(audit[c], r)
  BY DEF WriteAudit, TypeOK
<1>2. (d = "ratelimited") <=> "ratelimited" \in {r.decision, r.would}
  BY SwitchAssumption
<1> HIDE DEF r
<1>3. audit[c] \in Seq(AuditRecords)
  BY DEF TypeOK
<1>4. /\ DOMAIN audit'[c] = DOMAIN audit[c] \cup {Len(audit[c]) + 1}
      /\ audit'[c][Len(audit[c]) + 1] = r
      /\ \A i \in DOMAIN audit[c] : audit'[c][i] = audit[c][i]
  BY <1>1, <1>3
<1> QED
  BY <1>2, <1>4 DEF Unlimited

\* What a call that has begun writes is never a rate limit, so it stays
\* admitted or not admitted.
LEMMA BegunUnlimited ==
  ASSUME TypeOK, NEW c \in Calls, Step(c) \/ Upstream(c) \/ Cancel(c)
  PROVE  /\ pc[c] # "idle" /\ pc'[c] # "idle"
         /\ Unlimited(c)' <=> Unlimited(c)
         /\ UNCHANGED <<req, tokens, now>>
<1>a. ASSUME NEW d, NEW m, WriteAudit(c, d, m), d # "ratelimited"
      PROVE  Unlimited(c)' <=> Unlimited(c)
  BY <1>a, UnlimitedAppend
<1>u. ASSUME audit' = audit PROVE Unlimited(c)' <=> Unlimited(c)
  BY <1>u DEF Unlimited
<1>1. UNCHANGED <<req, tokens, now>>
  BY DEF Step, GetError, GetMiss, GetExpired, LazyDelete, GetHit, ScanNothing,
       ScanHit, IncrementReplay, Lead, Follow, WaitDone, WaitCancelled, Send,
       Put, Release, Close, Upstream, Cancel, decideFrame, callVars
<1>2. pc[c] # "idle"
  BY DEF Step, GetError, GetMiss, GetExpired, LazyDelete, GetHit, ScanNothing,
       ScanHit, IncrementReplay, Lead, Follow, WaitDone, WaitCancelled, Send,
       Put, Release, Close, Upstream, Cancel, Running
<1>3. pc' = pc \/ \E to \in Running \cup {"returned"} : Goto(c, to)
  BY DEF Step, GetError, GetMiss, GetExpired, LazyDelete, GetHit, ScanNothing,
       ScanHit, IncrementReplay, Lead, Follow, WaitDone, WaitCancelled, Send,
       Put, Release, Close, Upstream, Cancel, Running, DecideForward, DecideHit,
       Missed, Finish, callVars
<1>4. pc'[c] # "idle"
  BY <1>2, <1>3 DEF Goto, TypeOK, Running
<1>5. \/ audit' = audit
      \/ \E d, m : WriteAudit(c, d, m) /\ d # "ratelimited"
  <2>1. CASE WaitDone(c)
    <3>1. PICK d, m : d = CoalescedResult(c).decision /\ m = CoalescedResult(c).match
      OBVIOUS
    <3>2. d # "ratelimited"
      BY <3>1, BareFields DEF CoalescedResult, Answer
    <3> QED
      BY <2>1, <3>1, <3>2 DEF WaitDone
  <2>2. ASSUME NEW h, NEW m, DecideHit(c, h, m)
        PROVE  \E d : WriteAudit(c, d, m) /\ d # "ratelimited"
    BY <2>2 DEF DecideHit
  <2>3. ASSUME DecideForward(c)
        PROVE  audit' = audit \/ WriteAudit(c, "forward", "none")
    BY <2>3 DEF DecideForward
  <2>4. CASE GetHit(c) \/ ScanHit(c)
    BY <2>2, <2>3, <2>4 DEF GetHit, ScanHit
  <2>5. CASE GetError(c) \/ GetMiss(c) \/ LazyDelete(c) \/ ScanNothing(c)
    BY <2>3, <2>5 DEF GetError, GetMiss, LazyDelete, ScanNothing, Missed
  <2>6. CASE Lead(c) \/ WaitCancelled(c)
    BY <2>6 DEF Lead, WaitCancelled
  <2>7. CASE \/ GetExpired(c) \/ IncrementReplay(c) \/ Follow(c) \/ Send(c)
             \/ Put(c) \/ Release(c) \/ Close(c) \/ Upstream(c) \/ Cancel(c)
    BY <2>7 DEF GetExpired, IncrementReplay, Follow, Send, Put, Release, Close,
                Upstream, Cancel, callVars
  <2> QED
    BY <2>1, <2>4, <2>5, <2>6, <2>7 DEF Step
<1> QED
  BY <1>1, <1>2, <1>4, <1>5, <1>a, <1>u

\* Who is admitted, in terms of Unlimited.
LEMMA AdmittedPerCall ==
  ASSUME NEW t
  PROVE  /\ Admitted(t) = {c \in Calls : /\ pc[c] # "idle" /\ Tool(c) = t
                                         /\ AllowsCaller(t, req[c].caller)
                                         /\ Unlimited(c)}
         /\ Admitted(t)' = {c \in Calls : /\ pc'[c] # "idle" /\ Tool(c)' = t
                                          /\ AllowsCaller(t, req'[c].caller)
                                          /\ Unlimited(c)'}
BY DEF Admitted, Unlimited, AllowsCaller

\* A step of a call that changes nothing the limiter of t knows.
LEMMA AdmittedSame ==
  ASSUME TypeOK, NEW t \in Tools, NEW c \in Calls, RateInv(t),
         Begin(c) \/ Step(c) \/ Upstream(c) \/ Cancel(c),
         req'[c] = req[c], now' = now, tokens'[t] = tokens[t],
         c \in Admitted(t)' <=> c \in Admitted(t)
  PROVE  RateInv(t)'
<1>1. ASSUME NEW b \in Calls, b # c
      PROVE  b \in Admitted(t)' <=> b \in Admitted(t)
  <2>1. Kept(b)
    BY <1>1, OthersKept
  <2> QED
    BY <2>1 DEF Kept, Admitted, Tool, AllowsCaller
<1>2. Admitted(t)' = Admitted(t)
  <2>1. Admitted(t) \subseteq Calls /\ Admitted(t)' \subseteq Calls
    BY DEF Admitted
  <2> QED
    BY <1>1, <2>1
<1> QED
  BY <1>2 DEF RateInv, Burst

\* A call that passes the gates of tool t is admitted and costs a token; one
\* that is turned away, by the access list or the limiter, is not.
LEMMA BeginRate ==
  ASSUME TrailInv, NEW t \in Tools, Policy[t].rps > 0, Policy[t].mode # "off",
         RateInv(t), NEW c \in Calls, Begin(c)
  PROVE  RateInv(t)'
<1>0. TypeOK /\ pc[c] = "idle" /\ audit[c] = <<>>
  BY DEF TrailInv, FlightInv, Trail, AuditTrail, Silent, Begin, ApplyOff,
         ApplyForbidden, ApplyRateLimited, ApplyBadBody, ApplyAnalysed, PassGates
<1>1. req' = req /\ now' = now /\ c \notin Admitted(t)
  BY <1>0 DEF Begin, ApplyOff, ApplyForbidden, ApplyRateLimited, Reject,
              ApplyBadBody, ApplyAnalysed, Admitted
<1>2. CASE Tool(c) # t
  <2>1. c \notin Admitted(t)'
    BY <1>1, <1>2 DEF Admitted, Tool
  <2>2. tokens'[t] = tokens[t]
    BY <1>0, <1>2 DEF Begin, ApplyOff, ApplyForbidden, ApplyRateLimited, Reject,
         ApplyBadBody, ApplyAnalysed, PassGates, TakeToken, TypeOK
  <2> QED
    BY <1>0, <1>1, <2>1, <2>2, AdmittedSame
<1>3. CASE Tool(c) = t /\ ApplyForbidden(c)
  <2>1. c \notin Admitted(t)'
    BY <1>1, <1>3 DEF ApplyForbidden, Admitted, AllowsCaller
  <2>2. tokens'[t] = tokens[t]
    BY <1>3 DEF ApplyForbidden, Reject
  <2> QED
    BY <1>0, <1>1, <2>1, <2>2, AdmittedSame
<1>4. CASE Tool(c) = t /\ ApplyRateLimited(c)
  <2>1. ~Unlimited(c)' /\ tokens'[t] = tokens[t]
    BY <1>0, <1>4, UnlimitedAppend DEF ApplyRateLimited, Reject
  <2>2. c \notin Admitted(t)'
    BY <2>1, AdmittedPerCall
  <2> QED
    BY <1>0, <1>1, <2>1, <2>2, AdmittedSame
<1>5. CASE Tool(c) = t /\ (ApplyBadBody(c) \/ ApplyAnalysed(c))
  <2>1. PassGates(c) /\ audit' = audit
    BY <1>5 DEF ApplyBadBody, ApplyAnalysed
  <2>2. tokens[t] > 0 /\ tokens'[t] = tokens[t] - 1
    BY <1>0, <1>5, <2>1, PolicyTypes DEF PassGates, Allow, TakeToken, TypeOK
  <2>3. pc'[c] # "idle"
    BY <1>0, <1>5 DEF ApplyBadBody, ApplyAnalysed, Goto, TypeOK
  <2>4. Admitted(t)' = Admitted(t) \cup {c}
    <3>1. c \in Admitted(t)'
      BY <1>0, <1>1, <1>5, <2>1, <2>3 DEF Admitted, PassGates, Tool, AllowsCaller
    <3>2. ASSUME NEW b \in Calls, b # c
          PROVE  b \in Admitted(t)' <=> b \in Admitted(t)
      <4>1. Kept(b)
        BY <1>0, <3>2, OthersKept
      <4> QED
        BY <4>1 DEF Kept, Admitted, Tool, AllowsCaller
    <3>3. Admitted(t) \subseteq Calls /\ Admitted(t)' \subseteq Calls
      BY DEF Admitted
    <3> QED
      BY <3>1, <3>2, <3>3
  <2>5. IsFiniteSet(Admitted(t)) /\ Cardinality(Admitted(t)) \in Nat
    BY FS_CardinalityType DEF RateInv
  <2>6. /\ IsFiniteSet(Admitted(t)')
        /\ Cardinality(Admitted(t)') = Cardinality(Admitted(t)) + 1
    BY <1>1, <2>4, <2>5, FS_AddElement
  <2>7. Burst(t)' = Burst(t) /\ Burst(t) \in Nat /\ tokens[t] \in Nat
    BY <1>0, PolicyTypes DEF Burst, TypeOK
  <2>8. PICK n \in Int : n = Policy[t].rps * now
    BY <1>0, PolicyTypes DEF TypeOK
  <2> QED
    BY <1>1, <2>2, <2>5, <2>6, <2>7, <2>8 DEF RateInv
<1> QED
  BY <1>2, <1>3, <1>4, <1>5 DEF Begin, ApplyOff, Pol

\* A tick refills at most rps tokens.
LEMMA TickRate ==
  ASSUME TypeOK, NEW t \in Tools, RateInv(t), Tick
  PROVE  RateInv(t)'
<1>1. now \in Nat /\ now' = now + 1 /\ tokens'[t] = Refill(t)
  BY DEF Tick, TypeOK
<1>2. Admitted(t)' = Admitted(t) /\ Burst(t)' = Burst(t)
  BY DEF Tick, callVars, Admitted, Tool, AllowsCaller, Burst
<1>3. tokens[t] \in Nat /\ Policy[t].rps \in Nat /\ Burst(t) \in Nat
  BY PolicyTypes DEF TypeOK
<1>4. tokens'[t] \in Nat /\ tokens'[t] <= tokens[t] + Policy[t].rps
  BY <1>1, <1>3 DEF Refill
<1>5. Policy[t].rps * (now + 1) = Policy[t].rps * now + Policy[t].rps
  BY <1>1, <1>3
<1>6. PICK n \in Int : n = Policy[t].rps * now
  BY <1>1, <1>3
<1>7. Cardinality(Admitted(t)) \in Nat
  BY FS_CardinalityType DEF RateInv
<1> QED
  BY <1>1, <1>2, <1>3, <1>4, <1>5, <1>6, <1>7 DEF RateInv

\* Without a crash, every step keeps within the limiters' allowance.
LEMMA RateStep ==
  ASSUME TrailInv, [Next]_vars, "crash" \notin Faults, NEW t \in Tools,
         Policy[t].rps > 0, Policy[t].mode # "off", RateInv(t)
  PROVE  RateInv(t)'
<1>0. TypeOK
  BY DEF TrailInv, FlightInv
<1>1. ASSUME NEW c \in Calls, Begin(c) PROVE RateInv(t)'
  BY <1>1, BeginRate
<1>2. ASSUME NEW c \in Calls, Step(c) \/ Upstream(c) \/ Cancel(c)
      PROVE  RateInv(t)'
  <2>1. /\ pc[c] # "idle" /\ pc'[c] # "idle"
        /\ Unlimited(c)' <=> Unlimited(c)
        /\ UNCHANGED <<req, tokens, now>>
    BY <1>0, <1>2, BegunUnlimited
  <2>2. c \in Admitted(t)' <=> c \in Admitted(t)
    <3>1. Tool(c)' = Tool(c) /\ req'[c] = req[c]
      BY <2>1 DEF Tool
    <3> QED
      BY <2>1, <3>1, AdmittedPerCall
  <2> QED
    BY <1>0, <1>2, <2>1, <2>2, AdmittedSame
<1>3. CASE (\E k \in Keys : AdminDelete(k)) \/ UNCHANGED vars
  <2>1. UNCHANGED <<pc, req, audit, tokens, now>>
    BY <1>3 DEF AdminDelete, callVars, vars
  <2>2. Admitted(t)' = Admitted(t)
    BY <2>1 DEF Admitted, Tool, AllowsCaller
  <2> QED
    BY <2>1, <2>2 DEF RateInv, Burst
<1>4. CASE Tick
  BY <1>0, <1>4, TickRate
<1> QED
  BY <1>1, <1>2, <1>3, <1>4 DEF Next, Restart

\* The invariant of all limiters that are in force.
RatesInv ==
  "crash" \notin Faults =>
    \A t \in Tools : Policy[t].rps > 0 /\ Policy[t].mode # "off" => RateInv(t)

\* Over any time a tool's limiter admits at most its burst and the refill,
\* however many calls ask for it at once.
THEOREM RateBoundedHolds == Spec => []RateBounded
<1>1. Init => RatesInv
  <2> SUFFICES ASSUME Init, NEW t \in Tools PROVE RateInv(t)
    BY DEF RatesInv
  <2>1. Admitted(t) = {}
    BY DEF Init, Admitted
  <2>2. tokens[t] = Burst(t) /\ Burst(t) \in Nat /\ now = 0 /\ Policy[t].rps \in Nat
    BY PolicyTypes DEF Init
  <2>3. Policy[t].rps * 0 = 0
    BY <2>2
  <2>4. IsFiniteSet({}) /\ Cardinality({}) = 0
    BY FS_EmptySet
  <2> QED
    BY <2>1, <2>2, <2>3, <2>4 DEF RateInv
<1>2. TrailInv /\ RatesInv /\ [Next]_vars => RatesInv'
  BY RateStep DEF RatesInv
<1>3. TrailInv /\ RatesInv => RateBounded
  <2> SUFFICES ASSUME TrailInv, NEW t \in Tools, RateInv(t)
               PROVE  Cardinality(Admitted(t)) <= Burst(t) + Policy[t].rps * now
    BY DEF RatesInv, RateBounded
  <2>1. /\ tokens[t] \in Nat /\ now \in Nat /\ Policy[t].rps \in Nat
        /\ Burst(t) \in Nat /\ Cardinality(Admitted(t)) \in Nat
    BY PolicyTypes, FS_CardinalityType DEF TrailInv, FlightInv, TypeOK, RateInv
  <2>2. PICK n \in Int : n = Policy[t].rps * now
    BY <2>1
  <2> QED
    BY <2>1, <2>2 DEF RateInv
<1> QED
  BY <1>1, <1>2, <1>3, TrailInvariant, PTL DEF Spec

-----------------------------------------------------------------------------
(* Duplicates.  With a TTL, Get's delete of an expired entry can hit a new *)
(* one (Pipeline_v_lazydelete.cfg), so that a duplicate of an answered     *)
(* call is suppressed is proved of tools whose answers do not expire.      *)

\* An entry has the TTL of its tool's policy.
EntryTTL ==
  \A k \in Keys : entries[k] # NoEntry => entries[k].ttl = Policy[k[1]].ttl

\* Only an entry with a TTL is ever found expired.
LazyDeletesExpire == \A c \in Calls : pc[c] = "lazydel" => Pol(c).ttl # 0

\* A call that found its answer cached, for a tool without a TTL, still finds
\* it, or has been answered from the cache.
Owes(c) ==
  owed[c] /\ Pol(c).ttl = 0 =>
    /\ c \notin executed /\ Dedupes(Tool(c))
    /\ pc[c] \in {"get", "increment", "returned", "dead"}
    /\ pc[c] = "get" => hash[c] \in Hashes /\ entries[Key(c)] # NoEntry

OwedInv ==
  EntryTTL /\ LazyDeletesExpire /\ (~Shadow => \A c \in Calls : Owes(c))

\* Entries keep their tool's TTL.
LEMMA EntryTTLStep ==
  ASSUME TrailInv, EntryTTL, [Next]_vars
  PROVE  EntryTTL'
<1>0. TypeOK
  BY DEF TrailInv, FlightInv
<1>1. CASE entries' = entries
  BY <1>1 DEF EntryTTL
<1>2. ASSUME NEW j, entries' = Removed(entries, j) PROVE EntryTTL'
  BY <1>0, <1>2 DEF EntryTTL, Removed, TypeOK
<1>3. ASSUME NEW j, entries' = Counted(entries, j) PROVE EntryTTL'
  <2>1. ASSUME NEW k \in Keys, entries'[k] # NoEntry
        PROVE  entries[k] # NoEntry /\ entries'[k].ttl = entries[k].ttl
    <3>1. CASE entries'[k] = entries[k]
      BY <2>1, <3>1
    <3>2. CASE j = k /\ entries[k] # NoEntry
      <4>1. entries'[k] = [entries[k] EXCEPT !.replays = @ + 1]
        BY <1>0, <1>3, <3>2 DEF Counted, TypeOK
      <4>2. entries[k] \in Entries
        BY <1>0, <3>2 DEF TypeOK
      <4> QED
        BY <3>2, <4>1, <4>2 DEF Entries, EntriesOf
    <3> QED
      BY <1>0, <1>3, <3>1, <3>2 DEF Counted, TypeOK
  <2> QED
    BY <2>1 DEF EntryTTL
<1>4. ASSUME NEW c \in Calls, Put(c) PROVE EntryTTL'
  <2>1. ASSUME NEW emb, entries' = Stored(entries, Key(c), BuildEntry(c, emb))
        PROVE  EntryTTL'
    <3>1. BuildEntry(c, emb).ttl = Pol(c).ttl
      BY DEF BuildEntry
    <3>2. Key(c)[1] = Tool(c)
      BY DEF Key
    <3>3. ASSUME NEW k \in Keys, entries'[k] # NoEntry
          PROVE  entries'[k].ttl = Policy[k[1]].ttl
      <4>1. CASE k # Key(c)
        BY <1>0, <2>1, <3>3, <4>1 DEF Stored, EntryTTL, TypeOK
      <4>2. CASE k = Key(c)
        BY <1>0, <2>1, <3>1, <3>2, <4>2 DEF Stored, Pol, TypeOK
      <4> QED
        BY <4>1, <4>2
    <3> QED
      BY <3>3 DEF EntryTTL
  <2> QED
    BY <1>1, <1>4, <2>1 DEF Put
<1>5. CASE Restart
  BY <1>1, <1>5 DEF Restart, EntryTTL
<1>6. ASSUME NEW c \in Calls, Begin(c) \/ Upstream(c) \/ Cancel(c)
      PROVE  entries' = entries
  BY <1>6 DEF Begin, ApplyOff, ApplyForbidden, ApplyRateLimited, Reject,
       ApplyBadBody, ApplyAnalysed, Upstream, Cancel
<1>7. ASSUME NEW c \in Calls, Step(c), ~Put(c) PROVE EntryTTL'
  <2>1. \/ entries' = entries
        \/ entries' = Removed(entries, Key(c))
        \/ entries' = Counted(entries, <<Tool(c), result[c].hash>>)
    BY <1>7 DEF Step, GetError, GetMiss, GetExpired, LazyDelete, GetHit,
         ScanNothing, ScanHit, IncrementReplay, Lead, Follow, WaitDone,
         WaitCancelled, Send, Release, Close
  <2> QED
    BY <2>1, <1>1, <1>2, <1>3
<1>8. CASE Tick \/ UNCHANGED vars
  BY <1>1, <1>8 DEF Tick, vars
<1>9. ASSUME NEW j \in Keys, AdminDelete(j) PROVE EntryTTL'
  BY <1>2, <1>9 DEF AdminDelete
<1> QED
  BY <1>1, <1>4, <1>5, <1>6, <1>7, <1>8, <1>9 DEF Next

\* Get goes on to delete only where there is a TTL.
LEMMA LazyDeletesStep ==
  ASSUME TrailInv, EntryTTL, LazyDeletesExpire, [Next]_vars
  PROVE  LazyDeletesExpire'
<1>0. TypeOK /\ CallsInOrder /\ req' = req
  BY SettledStep DEF TrailInv, FlightInv, Settled
<1> SUFFICES ASSUME NEW b \in Calls, pc'[b] = "lazydel", pc[b] # "lazydel"
             PROVE  Pol(b).ttl # 0
  BY <1>0 DEF LazyDeletesExpire, Pol, Tool
<1>1. ASSUME NEW c \in Calls,
             Begin(c) \/ Step(c) \/ Upstream(c) \/ Cancel(c)
      PROVE  GetExpired(b)
  <2>1. b = c
    BY <1>0, <1>1, OthersKept DEF Kept
  <2>2. \/ pc' = pc \/ GetExpired(c)
        \/ \E to \in (Running \ {"lazydel"}) \cup {"returned"} : Goto(c, to)
    BY <1>1 DEF Begin, ApplyOff, ApplyForbidden, ApplyRateLimited, Reject,
       ApplyBadBody, ApplyAnalysed, Step, GetError, GetMiss, LazyDelete, GetHit,
       ScanNothing, ScanHit, IncrementReplay, Lead, Follow, WaitDone,
       WaitCancelled, Send, Put, Release, Close, Upstream, Cancel, Running,
       DecideForward, DecideHit, Missed, Finish, callVars
  <2> QED
    BY <1>0, <2>1, <2>2 DEF Goto, TypeOK, Running
<1>2. ASSUME (\E k \in Keys : AdminDelete(k)) \/ Tick \/ Restart \/ UNCHANGED vars
      PROVE  FALSE
  BY <1>0, <1>2 DEF AdminDelete, Tick, Restart, vars, callVars
<1>3. GetExpired(b)
  BY <1>1, <1>2 DEF Next
<1>4. /\ Key(b) \in Keys /\ entries[Key(b)] # NoEntry
      /\ Expired(entries[Key(b)], now)
  BY <1>0, <1>3, PolicyTypes
  DEF GetExpired, Key, Keys, CallsInOrder, Undecided, TypeOK, Tool
<1>5. Key(b)[1] = Tool(b)
  BY DEF Key
<1> QED
  BY <1>4, <1>5 DEF EntryTTL, Expired, Pol

\* A cached answer of a tool without a TTL goes only by the administrator's
\* hand or with the process.
LEMMA AnswerStays ==
  ASSUME TrailInv, LazyDeletesExpire, [Next]_vars, NEW k \in Keys,
         Policy[k[1]].ttl = 0, entries[k] # NoEntry, ~Restart, ~AdminDelete(k)
  PROVE  entries'[k] # NoEntry
<1>0. TypeOK /\ entries[k] \in Entries /\ NoEntry \notin Entries
  BY SentinelAssumption DEF TrailInv, FlightInv, TypeOK
<1>1. ASSUME NEW c \in Calls, LazyDelete(c) PROVE entries'[k] # NoEntry
  <2>1. Policy[Tool(c)].ttl # 0 /\ Key(c)[1] = Tool(c)
    BY <1>1 DEF LazyDelete, LazyDeletesExpire, Pol, Key
  <2>2. Key(c) # k
    BY <2>1
  <2> QED
    BY <1>0, <1>1, <2>2 DEF LazyDelete, Removed, TypeOK
<1>2. ASSUME NEW c \in Calls, IncrementReplay(c) PROVE entries'[k] # NoEntry
  <2> DEFINE j == <<Tool(c), result[c].hash>>
  <2>1. CASE entries' = entries
    BY <2>1
  <2>2. CASE entries' = [entries EXCEPT ![j].replays = @ + 1]
    <3>1. [entries[k] EXCEPT !.replays = @ + 1] \in Entries
      BY <1>0 DEF Entries, EntriesOf
    <3>2. entries'[k] \in {entries[k], [entries[k] EXCEPT !.replays = @ + 1]}
      BY <1>0, <2>2 DEF TypeOK
    <3> QED
      BY <1>0, <3>1, <3>2
  <2> QED
    BY <1>2, <2>1, <2>2 DEF IncrementReplay, Counted
<1>3. ASSUME NEW c \in Calls, Put(c) PROVE entries'[k] # NoEntry
  <2>1. ASSUME NEW emb \in BOOLEAN,
               entries' = Stored(entries, Key(c), BuildEntry(c, emb))
        PROVE  entries'[k] # NoEntry
    <3>1. BuildEntry(c, emb) \in Entries
      BY <1>0, PolicyTypes DEF BuildEntry, Entries, EntriesOf, Writers, TypeOK,
                               Pol, Tool
    <3> QED
      BY <1>0, <2>1, <3>1 DEF Stored, TypeOK
  <2>2. Searches(c) \in BOOLEAN
    BY DEF Searches
  <2> QED
    BY <1>3, <2>1, <2>2 DEF Put
<1>4. ASSUME NEW c \in Calls, Begin(c) \/ Upstream(c) \/ Cancel(c)
      PROVE  entries' = entries
  BY <1>4 DEF Begin, ApplyOff, ApplyForbidden, ApplyRateLimited, Reject,
       ApplyBadBody, ApplyAnalysed, Upstream, Cancel
<1>5. ASSUME NEW c \in Calls, Step(c), ~Put(c), ~LazyDelete(c),
             ~IncrementReplay(c)
      PROVE  entries' = entries
  BY <1>5 DEF Step, GetError, GetMiss, GetExpired, GetHit, ScanNothing, ScanHit,
       Lead, Follow, WaitDone, WaitCancelled, Send, Release, Close
<1>6. CASE Tick \/ UNCHANGED vars
  BY <1>6 DEF Tick, vars
<1>7. ASSUME NEW j \in Keys, AdminDelete(j) PROVE entries'[k] # NoEntry
  <2>1. j # k
    BY <1>7
  <2> QED
    BY <1>0, <1>7, <2>1 DEF AdminDelete, Removed, TypeOK
<1> QED
  BY <1>1, <1>2, <1>3, <1>4, <1>5, <1>6, <1>7 DEF Next

\* A call keeps finding what it is owed while others move.
LEMMA OwesOthers ==
  ASSUME TrailInv, LazyDeletesExpire, [Next]_vars, NEW b \in Calls, Owes(b),
         pc'[b] = pc[b] \/ pc'[b] = "dead", hash'[b] = hash[b], req' = req,
         b \in executed' <=> b \in executed, owed'[b] => owed[b],
         pc'[b] = "get" => ~Restart /\ (owed'[b] => ~AdminDelete(Key(b)))
  PROVE  Owes(b)'
<1> SUFFICES ASSUME owed'[b], Pol(b)'.ttl = 0
             PROVE  /\ b \notin executed' /\ Dedupes(Tool(b))'
                    /\ pc'[b] \in {"get", "increment", "returned", "dead"}
                    /\ pc'[b] = "get"
                         => hash'[b] \in Hashes /\ entries'[Key(b)'] # NoEntry
  BY DEF Owes
<1>1. Tool(b)' = Tool(b) /\ Pol(b)' = Pol(b) /\ Key(b)' = Key(b)
  BY DEF Tool, Pol, Key
<1>2. /\ owed[b] /\ Pol(b).ttl = 0 /\ b \notin executed /\ Dedupes(Tool(b))
      /\ pc[b] \in {"get", "increment", "returned", "dead"}
      /\ pc[b] = "get" => hash[b] \in Hashes /\ entries[Key(b)] # NoEntry
  BY <1>1 DEF Owes
<1>3. CASE pc'[b] = "get"
  <2>1. pc[b] = "get" /\ hash[b] \in Hashes /\ entries[Key(b)] # NoEntry
    BY <1>2, <1>3
  <2>2. Key(b) \in Keys /\ Key(b)[1] = Tool(b)
    BY <2>1, PolicyTypes DEF Key, Keys, Tool, TrailInv, FlightInv, TypeOK
  <2>3. entries'[Key(b)] # NoEntry
    BY <1>2, <1>3, <2>1, <2>2, AnswerStays DEF Pol
  <2> QED
    BY <1>1, <1>2, <1>3, <2>1, <2>3 DEF Dedupes
<1>4. CASE pc'[b] # "get"
  BY <1>1, <1>2, <1>4 DEF Dedupes
<1> QED
  BY <1>3, <1>4

\* What a call's own step makes of what it is owed: a live entry is a hit.
LEMMA OwesOwn ==
  ASSUME TrailInv, OwedInv, ~Shadow, NEW c \in Calls, [Next]_vars,
         Begin(c) \/ Step(c) \/ Upstream(c) \/ Cancel(c)
  PROVE  Owes(c)'
<1>0. TypeOK /\ CallsInOrder /\ Owes(c) /\ Settled /\ Trail(c)
  BY SettledStep DEF TrailInv, FlightInv, OwedInv
<1> SUFFICES ASSUME owed'[c], Pol(c)'.ttl = 0
             PROVE  /\ c \notin executed' /\ Dedupes(Tool(c))'
                    /\ pc'[c] \in {"get", "increment", "returned", "dead"}
                    /\ pc'[c] = "get"
                         => hash'[c] \in Hashes /\ entries'[Key(c)'] # NoEntry
  BY DEF Owes
<1>1. Tool(c)' = Tool(c) /\ Pol(c)' = Pol(c) /\ Tool(c) \in Tools
  BY <1>0, PolicyTypes DEF Settled, Tool, Pol, TypeOK
<1>2. CASE ApplyAnalysed(c)
  <2>1. /\ pc[c] = "idle" /\ pc'[c] = "get" /\ hash'[c] = req[c].body
        /\ req[c].body \in Hashes /\ UNCHANGED <<req, entries, executed>>
    BY <1>0, <1>2, PolicyTypes DEF ApplyAnalysed, PassGates, Goto, TypeOK
  <2>2. Dedupes(Tool(c)) /\ entries[<<Tool(c), req[c].body>>] # NoEntry
    BY <1>0, <1>2 DEF ApplyAnalysed, Live, TypeOK
  <2>3. c \notin executed
    BY <1>0, <2>1 DEF Trail, ExecutionTrail, Underway
  <2>4. Key(c)' = <<Tool(c), req[c].body>>
    BY <1>1, <2>1 DEF Key
  <2> QED
    BY <1>1, <2>1, <2>2, <2>3, <2>4 DEF Dedupes
<1>3. CASE Begin(c) /\ ~ApplyAnalysed(c)
  <2>1. owed'[c] = owed[c] /\ pc[c] = "idle"
    BY <1>3 DEF Begin, ApplyOff, ApplyForbidden, ApplyRateLimited, Reject,
                ApplyBadBody, PassGates, histVars
  <2> QED
    BY <1>0, <1>1, <2>1 DEF Owes
<1>4. CASE Cancel(c) \/ GetError(c)
  <2>1. owed'[c] = FALSE
    BY <1>0, <1>4 DEF Cancel, GetError, TypeOK
  <2> QED
    BY <2>1
<1>5. CASE GetHit(c)
  <2>1. owed'[c] = owed[c] /\ pc[c] = "get" /\ UNCHANGED <<req, executed>>
    BY <1>5 DEF GetHit, decideFrame
  <2>2. c \notin executed /\ Dedupes(Tool(c))
    BY <1>0, <1>1, <2>1 DEF Owes
  <2>3. DecideHit(c, hash[c], "exact")
    BY <1>5, <2>2 DEF GetHit
  <2>4. \E to \in {"returned", "increment"} : Goto(c, to)
    BY <2>3 DEF DecideHit
  <2>5. pc'[c] \in {"returned", "increment"}
    BY <1>0, <2>4 DEF Goto, TypeOK
  <2> QED
    BY <1>1, <2>1, <2>2, <2>5 DEF Dedupes
<1>6. CASE GetMiss(c) \/ GetExpired(c)
  <2>1. owed'[c] = owed[c] /\ pc[c] = "get"
    BY <1>6 DEF GetMiss, GetExpired
  <2>2. Pol(c).ttl = 0 /\ hash[c] \in Hashes /\ entries[Key(c)] # NoEntry
    BY <1>0, <1>1, <2>1 DEF Owes
  <2>3. Key(c) \in Keys /\ Key(c)[1] = Tool(c)
    BY <1>1, <2>2 DEF Key, Keys
  <2>4. entries[Key(c)].ttl = 0
    BY <2>2, <2>3 DEF OwedInv, EntryTTL, Pol
  <2> QED
    BY <1>6, <2>2, <2>4 DEF GetMiss, GetExpired, Expired
<1>7. CASE IncrementReplay(c)
  <2>1. /\ owed'[c] = owed[c] /\ pc'[c] = "returned"
        /\ UNCHANGED <<req, executed>>
    BY <1>0, <1>7 DEF IncrementReplay, Goto, TypeOK, decideFrame
  <2> QED
    BY <1>0, <1>1, <2>1 DEF Owes, Dedupes
<1>8. CASE \/ LazyDelete(c) \/ ScanNothing(c) \/ ScanHit(c) \/ Lead(c)
           \/ Follow(c) \/ WaitDone(c) \/ WaitCancelled(c) \/ Send(c)
           \/ Put(c) \/ Release(c) \/ Close(c) \/ Upstream(c)
  <2>1. /\ owed'[c] = owed[c]
        /\ pc[c] \notin {"get", "increment", "returned", "dead"}
    BY <1>8 DEF LazyDelete, ScanNothing, ScanHit, Lead, Follow, WaitDone,
                WaitCancelled, Send, Put, Release, Close, Upstream, histVars
  <2> QED
    BY <1>0, <1>1, <2>1 DEF Owes
<1> QED
  BY <1>2, <1>3, <1>4, <1>5, <1>6, <1>7, <1>8 DEF Step

\* OwedInv is kept by every step.
LEMMA OwedStep ==
  ASSUME TrailInv, OwedInv, [Next]_vars
  PROVE  OwedInv'
<1>0. TypeOK /\ Settled /\ EntryTTL /\ LazyDeletesExpire
  BY SettledStep DEF TrailInv, FlightInv, OwedInv
<1>1. ASSUME ~Shadow, NEW b \in Calls PROVE Owes(b)'
  <2>0. Owes(b) /\ req' = req
    BY <1>0, <1>1 DEF OwedInv, Settled
  <2>1. ASSUME NEW c \in Calls,
               Begin(c) \/ Step(c) \/ Upstream(c) \/ Cancel(c)
        PROVE  Owes(b)'
    <3>1. CASE b = c
      BY <1>1, <2>1, <3>1, OwesOwn
    <3>2. CASE b # c
      <4>1. Kept(b)
        BY <1>0, <2>1, <3>2, OthersKept
      <4>2. owed'[b] = owed[b]
        BY <1>0, <2>1, <3>2 DEF TypeOK, Begin, ApplyOff, ApplyForbidden,
           ApplyRateLimited, Reject, ApplyBadBody, ApplyAnalysed, Step, GetError,
           GetMiss, GetExpired, LazyDelete, GetHit, ScanNothing, ScanHit,
           IncrementReplay, Lead, Follow, WaitDone, WaitCancelled, Send, Put,
           Release, Close, Upstream, Cancel, histVars
      <4>3. CASE ~Restart /\ ~AdminDelete(Key(b))
        BY <1>0, <2>0, <4>1, <4>2, <4>3, OwesOthers DEF Kept
      <4>4. CASE Restart
        <5>1. pc[b] # "get"
          BY <4>1, <4>4 DEF Kept, Restart, Running
        <5> QED
          BY <1>0, <2>0, <4>1, <4>2, <5>1, OwesOthers DEF Kept
      <4>5. CASE AdminDelete(Key(b))
        <5>1. ~owed'[b]
          BY <4>5 DEF AdminDelete
        <5> QED
          BY <5>1 DEF Owes
      <4> QED
        BY <4>3, <4>4, <4>5
    <3> QED
      BY <3>1, <3>2
  <2>2. ASSUME NEW k \in Keys, AdminDelete(k) PROVE Owes(b)'
    <3>1. /\ UNCHANGED <<pc, hash, executed>>
          /\ owed'[b] = (owed[b] /\ Key(b) # k)
      BY <2>2 DEF AdminDelete, callVars
    <3>2. CASE Key(b) = k \/ ~owed'[b]
      BY <3>1, <3>2, Zenon DEF Owes
    <3>3. CASE Key(b) # k /\ owed'[b] /\ ~Restart /\ ~AdminDelete(Key(b))
      BY <1>0, <2>0, <3>1, <3>3, OwesOthers
    <3>4. CASE AdminDelete(Key(b))
      BY <3>4, Zenon DEF AdminDelete, Owes
    <3>5. CASE Restart
      <4>1. pc[b] # "get"
        BY <3>1, <3>5 DEF Restart, Running
      <4> QED
        BY <1>0, <2>0, <3>1, <4>1, OwesOthers
    <3> QED
      BY <3>2, <3>3, <3>4, <3>5
  <2>3. CASE Tick \/ UNCHANGED vars
    <3>1. /\ UNCHANGED <<pc, hash, executed, entries>>
          /\ owed'[b] => owed[b]
      BY <2>3 DEF Tick, callVars, vars
    <3> QED
      BY <2>0, <3>1 DEF Owes, Key, Tool, Pol, Dedupes
  <2>4. CASE Restart
    <3>1. /\ pc'[b] = pc[b] \/ pc'[b] = "dead"
          /\ pc'[b] # "get" /\ UNCHANGED <<hash, executed, owed>>
      BY <2>4 DEF Restart, Running, histVars
    <3> QED
      BY <1>0, <2>0, <3>1, OwesOthers
  <2> QED
    BY <2>1, <2>2, <2>3, <2>4 DEF Next
<1> QED
  BY <1>0, <1>1, EntryTTLStep, LazyDeletesStep DEF OwedInv

\* A call that came while its answer was cached, for a tool whose answers do
\* not expire, does not reach the upstream again.
KeptAnswersSuppress ==
  ~Shadow => \A c \in executed : Pol(c).ttl = 0 => ~owed[c]

\* Duplicates of an answered call are suppressed for every tool without a
\* TTL, whatever the other tools' policies are.
THEOREM KeptAnswersSuppressHolds == Spec => []KeptAnswersSuppress
<1>1. Init => OwedInv
  <2> SUFFICES ASSUME Init PROVE OwedInv
    OBVIOUS
  <2>1. EntryTTL
    BY DEF Init, EntryTTL
  <2> QED
    BY <2>1 DEF Init, OwedInv, LazyDeletesExpire, Owes
<1>2. TrailInv /\ OwedInv /\ [Next]_vars => OwedInv'
  BY OwedStep
<1>3. TrailInv /\ OwedInv => KeptAnswersSuppress
  BY DEF TrailInv, FlightInv, TypeOK, OwedInv, Owes, KeptAnswersSuppress
<1> QED
  BY <1>1, <1>2, <1>3, TrailInvariant, PTL DEF Spec

\* Where no tool has a TTL, DuplicateSuppressed holds of every call: README's
\* "the email does NOT get sent again".
THEOREM DuplicateSuppressedHolds ==
  ASSUME \A t \in Tools : Policy[t].ttl = 0
  PROVE  Spec => []DuplicateSuppressed
<1>1. TypeOK /\ KeptAnswersSuppress => DuplicateSuppressed
  BY PolicyTypes DEF TypeOK, KeptAnswersSuppress, DuplicateSuppressed, Pol, Tool
<1> QED
  BY <1>1, TypeCorrect, KeptAnswersSuppressHolds, PTL

-----------------------------------------------------------------------------
(* The refinement: Apply implements the abstract specification of          *)
(* coalescing.  The mapping of PipelineProperties sees four things of the  *)
(* pipeline: who executes, under which key, who waits for whom, and who    *)
(* was given whose answer.  Lead is a Start, Follow a Join, Release an     *)
(* End, a waiter that comes back a Take or a Leave, and Restart a Die; no  *)
(* other step changes what the mapping sees.                               *)

\* What the mapping makes of the state.
Runs == {c \in Calls : Forwarding(c) /\ Dedupes(Tool(c)) /\ ~Shadow}

KeyOf == [c \in Calls |-> IF leader[c] = NoCall THEN NoHash ELSE hash[c]]

WaitsOn == [c \in Calls |-> IF pc[c] = "wait" THEN leader[c] ELSE NoCall]

Took == [c \in Calls |-> IF result[c].match = "coalesced"
                           THEN result[c].of ELSE NoCall]

\* Only calls of strict and cache tools come to acquireLeader, and none in
\* shadow mode.
CoalescersOnly ==
  \A c \in Calls :
    pc[c] = "acquire" \/ leader[c] # NoCall => ~Shadow /\ Dedupes(Tool(c))

\* The inductive invariant of the refinement.
RefinementInv == TrailInv /\ CoalescersOnly

-----------------------------------------------------------------------------
(* Who comes to acquireLeader.                                             *)

\* Steps that leave the handles alone: all but acquireLeader's.
LEMMA LeaderKept ==
  ASSUME TypeOK, NEW c \in Calls,
         Begin(c) \/ Step(c) \/ Upstream(c) \/ Cancel(c),
         ~Lead(c), ~Follow(c)
  PROVE  leader' = leader
BY DEF Begin, ApplyOff, ApplyForbidden, ApplyRateLimited, Reject, ApplyBadBody,
       ApplyAnalysed, Step, GetError, GetMiss, GetExpired, LazyDelete, GetHit,
       ScanNothing, ScanHit, IncrementReplay, WaitDone, WaitCancelled, Send, Put,
       Release, Close, Upstream, Cancel, decideFrame, callVars

\* decide's forward comes to acquireLeader for strict and cache tools only.
LEMMA DecideGoes ==
  ASSUME TypeOK, NEW c \in Calls, DecideForward(c) \/ Missed(c)
  PROVE  \/ pc'[c] = "acquire" /\ ~Shadow /\ Dedupes(Tool(c))
         \/ pc'[c] = "send" /\ (Shadow \/ ~Dedupes(Tool(c)))
         \/ pc'[c] = "scan"
BY DEF DecideForward, Missed, Goto, TypeOK

\* Where a call's own step takes it, but for acquireLeader and releaseLeader:
\* what executes goes on executing, and nothing sets out to execute.
LEMMA OwnPlace ==
  ASSUME FlightInv, NEW c \in Calls,
         Begin(c) \/ Step(c) \/ Upstream(c) \/ Cancel(c),
         ~Lead(c), ~Follow(c), ~Release(c)
  PROVE  /\ pc'[c] = "acquire" => \/ pc[c] = "acquire"
                                  \/ ~Shadow /\ Dedupes(Tool(c))
         /\ pc'[c] = "wait" => pc[c] = "wait"
         /\ ~Shadow /\ Dedupes(Tool(c)) =>
              (Forwarding(c)' <=> Forwarding(c))
<1> DEFINE Place == /\ pc'[c] = "acquire" => \/ pc[c] = "acquire"
                                             \/ ~Shadow /\ Dedupes(Tool(c))
                    /\ pc'[c] = "wait" => pc[c] = "wait"
                    /\ ~Shadow /\ Dedupes(Tool(c)) =>
                         (Forwarding(c)' <=> Forwarding(c))
<1>0. TypeOK /\ CallsInOrder
  BY DEF FlightInv
<1>g. ASSUME NEW to, Goto(c, to) PROVE pc'[c] = to
  BY <1>0, <1>g DEF Goto, TypeOK
<1>1. CASE Begin(c)
  <2>1. CASE ApplyOff(c)
    BY <1>g, <2>1 DEF ApplyOff, Forwarding, Dedupes, Pol
  <2>2. ASSUME NEW d, Reject(c, d), pc[c] = "idle" PROVE Place
    BY <1>g, <2>2 DEF Reject, Forwarding
  <2>3. CASE ApplyBadBody(c) \/ ApplyAnalysed(c)
    BY <1>g, <2>3 DEF ApplyBadBody, ApplyAnalysed, PassGates, Forwarding
  <2> QED
    BY <1>1, <2>1, <2>2, <2>3 DEF Begin, ApplyForbidden, ApplyRateLimited
<1>2. CASE GetError(c) \/ GetMiss(c) \/ LazyDelete(c) \/ ScanNothing(c)
  <2>1. pc[c] \in {"get", "lazydel", "scan"} /\ (DecideForward(c) \/ Missed(c))
    BY <1>2 DEF GetError, GetMiss, LazyDelete, ScanNothing
  <2> QED
    BY <1>0, <2>1, DecideGoes DEF Forwarding
<1>3. ASSUME NEW h, NEW m, pc[c] \in {"get", "scan"}, DecideHit(c, h, m)
      PROVE  Place
  BY <1>g, <1>3 DEF DecideHit, Forwarding
<1>4. CASE GetHit(c)
  <2>1. CASE DecideForward(c)
    BY <1>0, <1>4, <2>1, DecideGoes DEF GetHit, Forwarding
  <2> QED
    BY <1>3, <1>4, <2>1 DEF GetHit
<1>5. CASE ScanHit(c)
  BY <1>3, <1>5 DEF ScanHit
<1>6. CASE GetExpired(c) \/ IncrementReplay(c) \/ WaitDone(c) \/ WaitCancelled(c)
  BY <1>g, <1>6 DEF GetExpired, IncrementReplay, WaitDone, WaitCancelled, Forwarding
<1>7. CASE Send(c) \/ Close(c)
  BY <1>g, <1>7 DEF Send, Close, Forwarding
<1>8. ASSUME NEW o, Finish(c, o), pc[c] \in {"upstream", "put"} PROVE Place
  BY <1>0, <1>g, <1>8 DEF Finish, CallsInOrder, Forwarding
<1>9. CASE Put(c) \/ Upstream(c)
  BY <1>g, <1>8, <1>9 DEF Put, Upstream, Forwarding
<1>10. CASE Cancel(c)
  BY <1>10 DEF Cancel, callVars, Forwarding
<1> QED
  BY <1>1, <1>2, <1>4, <1>5, <1>6, <1>7, <1>9, <1>10 DEF Step

\* Every step keeps CoalescersOnly.
LEMMA CoalescersStep == RefinementInv /\ [Next]_vars => CoalescersOnly'
<1> SUFFICES ASSUME RefinementInv, [Next]_vars, NEW b \in Calls,
                    pc'[b] = "acquire" \/ leader'[b] # NoCall
             PROVE  ~Shadow /\ Dedupes(req'[b].tool)
  BY DEF CoalescersOnly, Tool
<1>0. FlightInv /\ TypeOK /\ CoalescersOnly
  BY DEF RefinementInv, TrailInv, FlightInv
<1>1. req' = req
  BY SettledStep DEF RefinementInv, Settled
<1>2. SUFFICES pc[b] = "acquire" \/ leader[b] # NoCall \/ (~Shadow /\ Dedupes(Tool(b)))
  BY <1>0, <1>1, <1>2 DEF CoalescersOnly, Tool
<1>3. ASSUME NEW c \in Calls, Begin(c) \/ Step(c) \/ Upstream(c) \/ Cancel(c)
      PROVE  pc[b] = "acquire" \/ leader[b] # NoCall \/ (~Shadow /\ Dedupes(Tool(b)))
  <2>1. CASE b # c
    <3>1. pc'[b] = pc[b]
      BY <1>0, <1>3, <2>1, OthersKept DEF Kept
    <3>2. leader'[b] = leader[b]
      BY <1>0, <1>3, <2>1, LeaderKept DEF Lead, Follow, TypeOK
    <3> QED
      BY <3>1, <3>2
  <2>2. CASE b = c /\ (Lead(c) \/ Follow(c))
    BY <2>2 DEF Lead, Follow
  <2>3. CASE b = c /\ ~Lead(c) /\ ~Follow(c)
    <3>1. leader' = leader
      BY <1>0, <1>3, <2>3, LeaderKept
    <3>2. CASE Release(c)
      BY <1>0, <2>3, <3>1, <3>2 DEF Release, Goto, TypeOK
    <3>3. CASE ~Release(c)
      BY <1>0, <1>3, <2>3, <3>1, <3>3, OwnPlace
    <3> QED
      BY <3>2, <3>3
  <2> QED
    BY <2>1, <2>2, <2>3
<1>4. CASE Restart
  BY <1>0, <1>4 DEF Restart, TypeOK
<1>5. CASE Tick \/ (\E k \in Keys : AdminDelete(k)) \/ UNCHANGED vars
  BY <1>5 DEF Tick, AdminDelete, callVars, vars
<1> QED
  BY <1>3, <1>4, <1>5 DEF Next

\* The refinement's invariant holds for ever.
THEOREM RefinementInvariant == Spec => []RefinementInv
<1>1. Init => CoalescersOnly
  BY DEF Init, CoalescersOnly
<1>2. TrailInv /\ CoalescersOnly /\ [Next]_vars => CoalescersOnly'
  BY CoalescersStep DEF RefinementInv
<1>3. Spec => []TrailInv
  BY TrailInvariant
<1>4. Spec => [](TrailInv /\ CoalescersOnly)
  BY <1>1, <1>2, <1>3, PTL DEF Spec
<1> QED
  BY <1>4 DEF RefinementInv

-----------------------------------------------------------------------------
(* What each step is to the mapping.                                       *)

\* Nothing the mapping sees of call b changes.
Unseen(b) ==
  /\ b \in Runs' <=> b \in Runs
  /\ KeyOf'[b] = KeyOf[b] /\ WaitsOn'[b] = WaitsOn[b] /\ Took'[b] = Took[b]

\* What the mapping sees of each call.
LEMMA Sees ==
  ASSUME NEW b \in Calls
  PROVE  /\ b \in Runs <=> Forwarding(b) /\ Dedupes(Tool(b)) /\ ~Shadow
         /\ KeyOf[b] = IF leader[b] = NoCall THEN NoHash ELSE hash[b]
         /\ WaitsOn[b] = IF pc[b] = "wait" THEN leader[b] ELSE NoCall
         /\ Took[b] = IF result[b].match = "coalesced" THEN result[b].of ELSE NoCall
BY DEF Runs, KeyOf, WaitsOn, Took

\* The same after the step.
LEMMA SeesNext ==
  ASSUME NEW b \in Calls
  PROVE  /\ b \in Runs' <=> Forwarding(b)' /\ Dedupes(req'[b].tool) /\ ~Shadow
         /\ KeyOf'[b] = IF leader'[b] = NoCall THEN NoHash ELSE hash'[b]
         /\ WaitsOn'[b] = IF pc'[b] = "wait" THEN leader'[b] ELSE NoCall
         /\ Took'[b] = IF result'[b].match = "coalesced" THEN result'[b].of ELSE NoCall
BY DEF Runs, KeyOf, WaitsOn, Took, Tool

\* A call whose place, handle, fingerprint and Result stay is not seen.
LEMMA KeptUnseen ==
  ASSUME NEW b \in Calls, Kept(b), leader'[b] = leader[b]
  PROVE  Unseen(b)
<1>1. pc'[b] = pc[b] /\ req'[b] = req[b] /\ hash'[b] = hash[b] /\ result'[b] = result[b]
  BY DEF Kept
<1>2. b \in Runs' <=> b \in Runs
  BY <1>1, Sees, SeesNext DEF Forwarding, Tool
<1> QED
  BY <1>1, <1>2, Sees, SeesNext DEF Unseen

\* When no call is seen to change, the abstract state does not.
LEMMA AllUnseen ==
  ASSUME \A b \in Calls : Unseen(b)
  PROVE  UNCHANGED Flights!coalescingVars
<1>1. Runs' = Runs
  BY DEF Unseen, Runs
<1>2. KeyOf' = KeyOf /\ WaitsOn' = WaitsOn /\ Took' = Took
  BY DEF Unseen, KeyOf, WaitsOn, Took
<1> QED
  BY <1>1, <1>2 DEF Flights!coalescingVars, Runs, KeyOf, WaitsOn, Took

\* Nothing but a waiter's return gives a coalesced Result.
LEMMA CoalescedByWaiting ==
  ASSUME TrailInv, NEW c \in Calls,
         Begin(c) \/ Step(c) \/ Upstream(c) \/ Cancel(c), ~WaitDone(c)
  PROVE  Took'[c] = Took[c]
<1>0. TypeOK /\ Trail(c)
  BY DEF TrailInv, FlightInv
<1>1. CASE result'[c] = result[c]
  BY <1>1, Sees, SeesNext
<1>2. ASSUME NEW r, result' = [result EXCEPT ![c] = r], r.match # "coalesced",
             pc[c] \in Silent \cup Underway
      PROVE  Took'[c] = Took[c]
  <2>1. result[c] = NoResult /\ result'[c] = r
    BY <1>0, <1>2 DEF Trail, ResultTrail, TypeOK
  <2>2. result[c].match # "coalesced"
    BY <2>1, BareFields DEF NoResult
  <2> QED
    BY <1>2, <2>1, <2>2, Sees, SeesNext
<1>b. ASSUME NEW d, NEW e PROVE Bare(d, "none", e).match # "coalesced"
  BY BareFields
<1>f. ASSUME NEW o PROVE ForwardResult(c, o).match # "coalesced"
  BY DEF ForwardResult, Answer
<1>3. CASE Begin(c)
  <2>1. \/ result' = result
        \/ \E d, e : pc[c] = "idle" /\ result' = [result EXCEPT ![c] = Bare(d, "none", e)]
    BY <1>3 DEF Begin, ApplyOff, ApplyForbidden, ApplyRateLimited, Reject,
                ApplyBadBody, ApplyAnalysed, PassGates
  <2> QED
    BY <1>1, <1>2, <1>b, <2>1 DEF Silent
<1>4. ASSUME NEW h, NEW m \in {"exact", "semantic"}, DecideHit(c, h, m),
             pc[c] \in {"get", "scan"}
      PROVE  Took'[c] = Took[c]
  <2>1. \/ result' = result
        \/ \E d, o, y : result' = [result EXCEPT ![c] = Answer(d, m, h, o, y, "none")]
    BY <1>4 DEF DecideHit
  <2>2. ASSUME NEW d, NEW o, NEW y PROVE Answer(d, m, h, o, y, "none").match # "coalesced"
    BY DEF Answer
  <2> QED
    BY <1>1, <1>2, <1>4, <2>1, <2>2 DEF Silent
<1>5. CASE GetError(c) \/ GetMiss(c) \/ GetExpired(c) \/ LazyDelete(c)
           \/ ScanNothing(c) \/ IncrementReplay(c) \/ Lead(c) \/ Follow(c)
           \/ Send(c) \/ Release(c) \/ Cancel(c)
  BY <1>1, <1>5 DEF GetError, GetMiss, GetExpired, LazyDelete, ScanNothing,
       IncrementReplay, Lead, Follow, Send, Release, Cancel, DecideForward, Missed,
       callVars
<1>6. CASE GetHit(c) \/ ScanHit(c)
  BY <1>1, <1>4, <1>6 DEF GetHit, ScanHit, DecideForward
<1>7. CASE WaitCancelled(c)
  BY <1>2, <1>7, <1>b DEF WaitCancelled, Silent
<1>8. CASE Close(c) \/ Put(c) \/ Upstream(c)
  <2>1. /\ pc[c] \in Underway
        /\ \/ result' = result
           \/ \E o : result' = [result EXCEPT ![c] = ForwardResult(c, o)]
    BY <1>8 DEF Close, Put, Upstream, Finish, Underway
  <2> QED
    BY <1>1, <1>2, <1>f, <2>1
<1> QED
  BY <1>3, <1>5, <1>6, <1>7, <1>8 DEF Step

\* A step that is none of the five the mapping sees changes nothing it sees.
LEMMA QuietStep ==
  ASSUME RefinementInv, NEW c \in Calls,
         Begin(c) \/ Step(c) \/ Upstream(c) \/ Cancel(c),
         ~Lead(c), ~Follow(c), ~Release(c), ~WaitDone(c), ~WaitCancelled(c)
  PROVE  UNCHANGED Flights!coalescingVars
<1>0. TrailInv /\ FlightInv /\ TypeOK /\ CoalescersOnly /\ CallsInOrder
  BY DEF RefinementInv, TrailInv, FlightInv
<1>1. leader' = leader /\ req' = req
  <2>1. [Next]_vars
    BY DEF Next
  <2> QED
    BY <1>0, <2>1, LeaderKept, SettledStep DEF Settled
<1>2. ASSUME NEW b \in Calls, b # c PROVE Unseen(b)
  BY <1>0, <1>1, <1>2, OthersKept, KeptUnseen
<1>3. Unseen(c)
  <2>1. Took'[c] = Took[c]
    BY <1>0, CoalescedByWaiting
  <2>2. c \in Runs' <=> c \in Runs
    BY <1>0, <1>1, OwnPlace, Sees, SeesNext DEF Tool
  <2>3. WaitsOn'[c] = WaitsOn[c]
    <3>1. pc[c] # "wait" \/ Cancel(c)
      BY DEF Begin, ApplyOff, ApplyForbidden, ApplyRateLimited, ApplyBadBody,
             ApplyAnalysed, PassGates, Step, GetError, GetMiss, GetExpired,
             LazyDelete, GetHit, ScanNothing, ScanHit, IncrementReplay, Send, Put,
             Close, Upstream
    <3>2. pc'[c] = "wait" <=> pc[c] = "wait"
      BY <1>0, <3>1, OwnPlace DEF Cancel, callVars
    <3> QED
      BY <1>1, <3>2, Sees, SeesNext
  <2>4. KeyOf'[c] = KeyOf[c]
    <3>1. CASE leader[c] = NoCall
      BY <1>1, <3>1, Sees, SeesNext
    <3>2. CASE leader[c] # NoCall
      <4>1. pc[c] # "idle"
        BY <1>0, <3>2 DEF CallsInOrder
      <4>2. hash'[c] = hash[c]
        BY <1>0, <4>1, SettledStep DEF Settled, Next
      <4> QED
        BY <1>1, <4>2, Sees, SeesNext
    <3> QED
      BY <3>1, <3>2
  <2> QED
    BY <2>1, <2>2, <2>3, <2>4 DEF Unseen
<1> QED
  BY <1>2, <1>3, AllUnseen

\* acquireLeader that registers a handle is a Start.
LEMMA LeadStarts ==
  ASSUME RefinementInv, NEW c \in Calls, Lead(c)
  PROVE  \E h \in Hashes : Flights!Start(c, h)
<1>0. /\ TrailInv /\ TypeOK /\ CoalescersOnly /\ CallsInOrder /\ LeadersAreInflight
      /\ pc[c] = "acquire" /\ inflight[hash[c]] = NoCall /\ leader[c] = NoCall
      /\ hash[c] \in Hashes /\ c # NoCall
  BY SentinelAssumption
  DEF RefinementInv, TrailInv, FlightInv, Lead, CallsInOrder, Undecided
<1>1. /\ pc'[c] = "send" /\ leader' = [leader EXCEPT ![c] = c]
      /\ UNCHANGED <<req, hash, result>>
  BY <1>0 DEF Lead, Goto, TypeOK
<1>2. ASSUME NEW b \in Calls, b # c PROVE Unseen(b)
  BY <1>0, <1>1, <1>2, OthersKept, KeptUnseen DEF Step, TypeOK
<1>3. ~Shadow /\ Dedupes(Tool(c))
  BY <1>0 DEF CoalescersOnly
<1>4. KeyOf[c] = NoHash /\ c \notin Runs /\ WaitsOn[c] = NoCall
  BY <1>0, Sees DEF Forwarding
<1>5. c \in Runs' /\ KeyOf'[c] = hash[c] /\ WaitsOn'[c] = NoCall /\ Took'[c] = Took[c]
  <2>1. leader'[c] = c
    BY <1>0, <1>1 DEF TypeOK
  <2> QED
    BY <1>0, <1>1, <1>3, <2>1, Sees, SeesNext DEF Forwarding, Tool
<1>6. ASSUME NEW d \in Runs PROVE KeyOf[d] # hash[c]
  <2>1. d \in Calls /\ Forwarding(d) /\ Leads(d) /\ d # NoCall
    BY <1>0, <1>6, SentinelAssumption DEF Runs, CallsInOrder
  <2>2. KeyOf[d] = hash[d] /\ inflight[hash[d]] = d
    BY <1>0, <2>1, Sees DEF Leads, LeadersAreInflight
  <2> QED
    BY <1>0, <2>1, <2>2
<1>7. Runs' = Runs \cup {c}
  BY <1>2, <1>5 DEF Unseen, Runs
<1>8. KeyOf' = [KeyOf EXCEPT ![c] = hash[c]]
  BY <1>2, <1>5 DEF Unseen, KeyOf
<1>9. WaitsOn' = WaitsOn /\ Took' = Took
  BY <1>2, <1>4, <1>5 DEF Unseen, WaitsOn, Took
<1>10. PICK h \in Hashes : h = hash[c]
  BY <1>0
<1>11. Flights!Start(c, h)
  BY <1>4, <1>6, <1>7, <1>8, <1>9, <1>10
  DEF Flights!Start, Runs, KeyOf, WaitsOn, Took
<1> QED
  BY <1>11

\* acquireLeader that finds a sibling is a Join of the sibling's execution.
LEMMA FollowJoins ==
  ASSUME RefinementInv, NEW c \in Calls, Follow(c)
  PROVE  \E l \in Calls : Flights!Join(c, l)
<1>0. /\ TrailInv /\ TypeOK /\ CoalescersOnly /\ CallsInOrder /\ LeadersAreInflight
      /\ pc[c] = "acquire" /\ inflight[hash[c]] # NoCall /\ leader[c] = NoCall
      /\ hash[c] \in Hashes
  BY DEF RefinementInv, TrailInv, FlightInv, Follow, CallsInOrder, Undecided
<1>1. PICK l \in Calls : l = inflight[hash[c]]
  BY <1>0 DEF TypeOK, Writers
<1>2. Forwarding(l) /\ hash[l] = hash[c] /\ Leads(l) /\ l # NoCall
  BY <1>0, <1>1 DEF LeadersAreInflight
<1>3. /\ pc'[c] = "wait" /\ leader' = [leader EXCEPT ![c] = l]
      /\ UNCHANGED <<req, hash, result>>
  BY <1>0, <1>1 DEF Follow, Goto, TypeOK
<1>4. ASSUME NEW b \in Calls, b # c PROVE Unseen(b)
  BY <1>0, <1>3, <1>4, OthersKept, KeptUnseen DEF Step, Follow, TypeOK
<1>5. KeyOf[c] = NoHash /\ c \notin Runs /\ l \in Runs /\ KeyOf[l] = hash[c]
  <2>1. ~Shadow /\ Dedupes(Tool(l))
    BY <1>0, <1>2 DEF CoalescersOnly, Leads
  <2> QED
    BY <1>0, <1>2, <2>1, Sees DEF Forwarding, Leads
<1>6. c \notin Runs' /\ KeyOf'[c] = hash[c] /\ WaitsOn'[c] = l /\ Took'[c] = Took[c]
  <2>1. leader'[c] = l
    BY <1>0, <1>3 DEF TypeOK
  <2> QED
    BY <1>2, <1>3, <2>1, Sees, SeesNext DEF Forwarding
<1>7. Runs' = Runs /\ Took' = Took
  BY <1>4, <1>5, <1>6 DEF Unseen, Runs, Took
<1>8. KeyOf' = [KeyOf EXCEPT ![c] = KeyOf[l]]
  BY <1>4, <1>5, <1>6 DEF Unseen, KeyOf
<1>9. WaitsOn' = [WaitsOn EXCEPT ![c] = l]
  BY <1>4, <1>6 DEF Unseen, WaitsOn
<1> QED
  BY <1>5, <1>7, <1>8, <1>9 DEF Flights!Join, Runs, KeyOf, WaitsOn, Took

\* releaseLeader's step under the lock is an End.
LEMMA ReleaseEnds ==
  ASSUME RefinementInv, NEW c \in Calls, Release(c)
  PROVE  Flights!End(c)
<1>0. /\ TrailInv /\ TypeOK /\ CoalescersOnly /\ CallsInOrder
      /\ pc[c] = "release" /\ Leads(c) /\ c # NoCall
  BY SentinelAssumption DEF RefinementInv, TrailInv, FlightInv, Release, CallsInOrder
<1>1. pc'[c] = "close" /\ UNCHANGED <<req, hash, leader, result>>
  BY <1>0 DEF Release, Goto, TypeOK
<1>2. ASSUME NEW b \in Calls, b # c PROVE Unseen(b)
  BY <1>0, <1>1, <1>2, OthersKept, KeptUnseen DEF Step
<1>3. ~Shadow /\ Dedupes(Tool(c))
  BY <1>0 DEF CoalescersOnly, Leads
<1>4. c \in Runs /\ c \notin Runs'
  BY <1>0, <1>1, <1>3, Sees, SeesNext DEF Forwarding
<1>5. KeyOf'[c] = KeyOf[c] /\ WaitsOn'[c] = WaitsOn[c] /\ Took'[c] = Took[c]
  BY <1>0, <1>1, Sees, SeesNext
<1>6. Runs' = Runs \ {c}
  BY <1>2, <1>4 DEF Unseen, Runs
<1>7. KeyOf' = KeyOf /\ WaitsOn' = WaitsOn /\ Took' = Took
  BY <1>2, <1>5 DEF Unseen, KeyOf, WaitsOn, Took
<1> QED
  BY <1>4, <1>6, <1>7 DEF Flights!End, Runs, KeyOf, WaitsOn, Took

\* What both ways out of a wait have in common: the waiter has its handle, its
\* leader is another call, and only what it waits for and takes changes.
LEMMA WaitReturns ==
  ASSUME RefinementInv, NEW c \in Calls, WaitDone(c) \/ WaitCancelled(c)
  PROVE  /\ Runs' = Runs /\ KeyOf' = KeyOf
         /\ leader[c] \in Calls /\ leader[c] # NoCall
         /\ WaitsOn[c] = leader[c] /\ Took[c] = NoCall
         /\ WaitsOn' = [WaitsOn EXCEPT ![c] = NoCall]
         /\ \A b \in Calls \ {c} : Took'[b] = Took[b]
<1>0. TrailInv /\ TypeOK /\ WaitersAttached /\ pc[c] = "wait"
  BY DEF RefinementInv, TrailInv, FlightInv, WaitDone, WaitCancelled
<1>1. pc'[c] = "returned" /\ UNCHANGED <<req, hash, leader>>
  BY <1>0 DEF WaitDone, WaitCancelled, Goto, decideFrame, TypeOK
<1>2. ASSUME NEW b \in Calls, b # c PROVE Unseen(b)
  BY <1>0, <1>1, <1>2, OthersKept, KeptUnseen DEF Step
<1>3. leader[c] \in Calls /\ leader[c] # NoCall
  BY <1>0, SentinelAssumption DEF WaitersAttached
<1>4. result[c].match # "coalesced"
  <2>1. result[c] = NoResult
    BY <1>0 DEF TrailInv, Trail, ResultTrail, Silent
  <2> QED
    BY <2>1, BareFields DEF NoResult
<1>5. /\ c \notin Runs /\ c \notin Runs' /\ KeyOf'[c] = KeyOf[c]
      /\ WaitsOn[c] = leader[c] /\ WaitsOn'[c] = NoCall /\ Took[c] = NoCall
  BY <1>0, <1>1, <1>4, Sees, SeesNext DEF Forwarding
<1>6. Runs' = Runs
  BY <1>2, <1>5 DEF Unseen, Runs
<1>7. KeyOf' = KeyOf
  BY <1>2, <1>5 DEF Unseen, KeyOf
<1>8. WaitsOn' = [WaitsOn EXCEPT ![c] = NoCall]
  BY <1>2, <1>5 DEF Unseen, WaitsOn
<1> QED
  BY <1>2, <1>3, <1>5, <1>6, <1>7, <1>8 DEF Unseen

\* A waiter that comes back without a coalesced Result has left.
LEMMA EmptyHanded ==
  ASSUME RefinementInv, NEW c \in Calls, WaitDone(c) \/ WaitCancelled(c),
         result'[c].match # "coalesced"
  PROVE  Flights!Leave(c)
<1>1. Took'[c] = NoCall
  BY SeesNext
<1>2. Took' = Took
  BY <1>1, WaitReturns DEF Took
<1> QED
  BY <1>2, WaitReturns DEF Flights!Leave, Runs, KeyOf, WaitsOn, Took

\* A waiter that comes back with one has taken its leader's answer, and the
\* leader's execution has ended.
LEMMA AnswerTaken ==
  ASSUME RefinementInv, NEW c \in Calls, WaitDone(c),
         result'[c].match = "coalesced"
  PROVE  Flights!Take(leader[c], {c})
<1> DEFINE l == leader[c]
           fr == ForwardResult(l, outcome[l])
           r == CoalescedResult(c)
<1>0. /\ TrailInv /\ TypeOK /\ CallsInOrder /\ WaitersAttached
      /\ pc[c] = "wait" /\ l \in done
  BY DEF RefinementInv, TrailInv, FlightInv, WaitDone
<1>1. l \in Calls /\ handle[l] = HandleOf(outcome[l]) /\ pc[l] = "returned"
  BY <1>0 DEF WaitersAttached, CallsInOrder
<1>2. outcome[l] # "none" /\ outcome[l] \in AllOutcomes
  BY <1>0, <1>1 DEF TrailInv, Trail, ExecutionTrail, TypeOK
<1>3. result'[c] = r
  BY <1>0 DEF WaitDone, TypeOK
<1>4. outcome[l] \notin {"error", "panic"}
  <2>1. ASSUME outcome[l] \in {"error", "panic"} PROVE FALSE
    <3>1. r = Bare("forward", "none", "leader")
      BY <1>1, <2>1 DEF CoalescedResult, HandleOf
    <3> QED
      BY <1>3, <3>1, BareFields
  <2> QED
    BY <2>1
<1>5. r.of = l
  <2>1. r = Answer("replay", "coalesced", fr.hash, fr.of, fr.body, "none")
    BY <1>1, <1>4 DEF CoalescedResult, HandleOf
  <2>2. fr.of = l
    BY <1>2, <1>4 DEF ForwardResult, Answer, AllOutcomes
  <2> QED
    BY <2>1, <2>2 DEF Answer
<1>6. Took'[c] = l
  <2> HIDE DEF r, l
  <2> QED
    BY <1>3, <1>5, SeesNext
<1>7. l \notin Runs
  BY <1>1, Sees DEF Forwarding
<1>8. Took' = [b \in Calls |-> IF b \in {c} THEN l ELSE Took[b]]
  BY <1>6, WaitReturns DEF Took
<1>9. WaitsOn' = [b \in Calls |-> IF b \in {c} THEN NoCall ELSE WaitsOn[b]]
  BY WaitReturns DEF WaitsOn
<1> QED
  BY <1>7, <1>8, <1>9, WaitReturns DEF Flights!Take, Runs, KeyOf, WaitsOn, Took

\* The end of the process is the end of every execution and wait.
LEMMA RestartDies ==
  ASSUME RefinementInv, Restart
  PROVE  Flights!Die
<1>0. TypeOK
  BY DEF RefinementInv, TrailInv, FlightInv
<1>1. /\ UNCHANGED <<req, hash, leader, result>>
      /\ \A c \in Calls : pc'[c] = IF pc[c] \in Running THEN "dead" ELSE pc[c]
  BY DEF Restart
<1>2. ASSUME NEW c \in Calls
      PROVE  c \notin Runs' /\ WaitsOn'[c] = NoCall /\ KeyOf'[c] = KeyOf[c]
             /\ Took'[c] = Took[c]
  BY <1>1, Sees, SeesNext DEF Forwarding, Running
<1>3. Runs' = {}
  BY <1>2 DEF Runs
<1>4. WaitsOn' = [c \in Calls |-> NoCall] /\ KeyOf' = KeyOf /\ Took' = Took
  BY <1>2 DEF WaitsOn, KeyOf, Took
<1> QED
  BY <1>3, <1>4 DEF Flights!Die, Runs, KeyOf, WaitsOn, Took

\* Every step of the pipeline is a step of coalescing or none to it.
LEMMA CoalescingStep ==
  RefinementInv /\ [Next]_vars => [Flights!CoalescingNext]_(Flights!coalescingVars)
<1> SUFFICES ASSUME RefinementInv, [Next]_vars
             PROVE  Flights!CoalescingNext \/ UNCHANGED Flights!coalescingVars
  OBVIOUS
<1>1. ASSUME NEW c \in Calls, Lead(c) PROVE Flights!CoalescingNext
  BY <1>1, LeadStarts DEF Flights!CoalescingNext
<1>2. ASSUME NEW c \in Calls, Follow(c) PROVE Flights!CoalescingNext
  BY <1>2, FollowJoins DEF Flights!CoalescingNext
<1>3. ASSUME NEW c \in Calls, Release(c) PROVE Flights!CoalescingNext
  BY <1>3, ReleaseEnds DEF Flights!CoalescingNext
<1>4. ASSUME NEW c \in Calls, WaitDone(c) \/ WaitCancelled(c)
      PROVE  Flights!CoalescingNext
  <2>1. CASE result'[c].match # "coalesced"
    BY <1>4, <2>1, EmptyHanded DEF Flights!CoalescingNext
  <2>2. CASE WaitDone(c) /\ result'[c].match = "coalesced"
    <3>1. leader[c] \in Calls /\ {c} \in SUBSET Calls
      BY <1>4, WaitReturns
    <3> QED
      BY <2>2, <3>1, AnswerTaken DEF Flights!CoalescingNext
  <2>3. ASSUME WaitCancelled(c) PROVE result'[c].match # "coalesced"
    <3>1. result'[c] = Bare("forward", "none", "ctx")
      BY <2>3 DEF WaitCancelled, RefinementInv, TrailInv, FlightInv, TypeOK
    <3> QED
      BY <3>1, BareFields
  <2> QED
    BY <1>4, <2>1, <2>2, <2>3
<1>5. ASSUME NEW c \in Calls, Begin(c) \/ Step(c) \/ Upstream(c) \/ Cancel(c),
             ~Lead(c), ~Follow(c), ~Release(c), ~WaitDone(c), ~WaitCancelled(c)
      PROVE  UNCHANGED Flights!coalescingVars
  BY <1>5, QuietStep
<1>6. CASE Restart
  BY <1>6, RestartDies DEF Flights!CoalescingNext
<1>7. CASE Tick \/ (\E k \in Keys : AdminDelete(k)) \/ UNCHANGED vars
  <2>1. UNCHANGED <<pc, req, hash, leader, result>>
    BY <1>7 DEF Tick, AdminDelete, callVars, vars
  <2> QED
    BY <2>1 DEF Flights!coalescingVars, Forwarding, Tool
<1> QED
  BY <1>1, <1>2, <1>3, <1>4, <1>5, <1>6, <1>7 DEF Next

\* Apply implements the abstract specification of coalescing: one execution
\* per fingerprint at a time, and a waiter only ever takes the answer of the
\* execution it joined, after it has ended.
THEOREM ImplementsCoalescingHolds == Spec => ImplementsCoalescing
<1>1. Init => Flights!CoalescingInit
  <2> SUFFICES ASSUME Init PROVE Flights!CoalescingInit
    OBVIOUS
  <2>1. ASSUME NEW c \in Calls
        PROVE  ~Forwarding(c) /\ leader[c] = NoCall /\ pc[c] # "wait"
               /\ result[c].match # "coalesced"
    BY BareFields DEF Init, Forwarding, NoResult
  <2> QED
    BY <2>1 DEF Flights!CoalescingInit
<1>2. RefinementInv /\ [Next]_vars
        => [Flights!CoalescingNext]_(Flights!coalescingVars)
  BY CoalescingStep
<1>3. Spec => Flights!CoalescingSpec
  BY <1>1, <1>2, RefinementInvariant, PTL DEF Spec, Flights!CoalescingSpec
<1> QED
  BY <1>3 DEF ImplementsCoalescing
=============================================================================
