--------------------------- MODULE ProcessProofs ---------------------------
(***************************************************************************)
(* Proofs about the process around the gateway, for any set of setups, any *)
(* number of handlers and any sinks of the audit log.                      *)
(*                                                                         *)
(* Every step of the process is a step of the audit log or leaves it       *)
(* alone, so that the invariant of AuditSinkProofs holds here too.  What   *)
(* is added (ProcLinks) ties the phase run() is in to what is open, who is *)
(* at work and what is still deferred: as long as handlers are at work and *)
(* run() has not left them behind, nothing has been closed.                *)
(***************************************************************************)
EXTENDS Process, AuditSinkProofs

-----------------------------------------------------------------------------
(* The stages of the start.                                                *)

\* The stages by name.
LEMMA StageSet ==
  ToSet(Stages) = {"tokens", "upstream", "policy", "store", "compactor", "embedder",
                   "audit", "admin", "exposure", "oidc", "tls", "serve"}
<1>1. DOMAIN Stages = 1..12
  BY DEF Stages
<1>2. /\ Stages[1] = "tokens" /\ Stages[2] = "upstream" /\ Stages[3] = "policy"
      /\ Stages[4] = "store" /\ Stages[5] = "compactor" /\ Stages[6] = "embedder"
      /\ Stages[7] = "audit" /\ Stages[8] = "admin" /\ Stages[9] = "exposure"
      /\ Stages[10] = "oidc" /\ Stages[11] = "tls" /\ Stages[12] = "serve"
  BY DEF Stages
<1>3. ASSUME NEW x PROVE x \in ToSet(Stages) <=> \E i \in 1..12 : Stages[i] = x
  BY <1>1 DEF ToSet
<1> QED
  BY <1>2, <1>3

\* Which stage follows which.
LEMMA AfterStage ==
  ASSUME NEW i \in 1..11
  PROVE  After(Stages[i]) = Stages[i + 1]
<1>1. DOMAIN Stages = 1..12
  BY DEF Stages
<1>2. \A m, n \in 1..12 : Stages[m] = Stages[n] => m = n
  BY DEF Stages
<1>3. (CHOOSE j \in DOMAIN Stages : Stages[j] = Stages[i]) = i
  BY <1>1, <1>2
<1> QED
  BY <1>3 DEF After

\* The same, by name.
LEMMA AfterName ==
  ASSUME NEW s \in ToSet(Stages) \ {"serve"}
  PROVE  /\ After(s) \in ToSet(Stages)
         /\ After(s) \in {"compactor"} <=> s = "store"
         /\ After(s) \in {"embedder", "audit", "admin", "exposure", "oidc", "tls", "serve"}
              <=> s \in {"compactor", "embedder", "audit", "admin", "exposure", "oidc", "tls"}
         /\ After(s) \in {"admin", "exposure", "oidc", "tls", "serve"}
              <=> s \in {"audit", "admin", "exposure", "oidc", "tls"}
         /\ After(s) \in {"oidc", "tls", "serve"} <=> s \in {"exposure", "oidc", "tls"}
<1>1. /\ Stages[1] = "tokens" /\ Stages[2] = "upstream" /\ Stages[3] = "policy"
      /\ Stages[4] = "store" /\ Stages[5] = "compactor" /\ Stages[6] = "embedder"
      /\ Stages[7] = "audit" /\ Stages[8] = "admin" /\ Stages[9] = "exposure"
      /\ Stages[10] = "oidc" /\ Stages[11] = "tls" /\ Stages[12] = "serve"
  BY DEF Stages
<1>2. /\ After("tokens") = "upstream" /\ After("upstream") = "policy"
      /\ After("policy") = "store" /\ After("store") = "compactor"
      /\ After("compactor") = "embedder" /\ After("embedder") = "audit"
  BY <1>1, AfterStage
<1>3. /\ After("audit") = "admin" /\ After("admin") = "exposure"
      /\ After("exposure") = "oidc" /\ After("oidc") = "tls" /\ After("tls") = "serve"
  BY <1>1, AfterStage
<1>4. s \in {"tokens", "upstream", "policy", "store", "compactor", "embedder",
             "audit", "admin", "exposure", "oidc", "tls"}
  BY StageSet
<1> QED
  BY <1>2, <1>3, <1>4, StageSet

-----------------------------------------------------------------------------
(* The audit log within the process.                                       *)

\* Before Close begins, a writer has left its record with every sink it has
\* passed.
Recorded ==
  cl.at = "open" =>
    /\ ~shut /\ closed = {} /\ chClosed = {}
    /\ \A w \in Writers, i \in 1..N : Passed(wr[w], i) => w \in accepted[i]

\* The place after sink i has passed no sink after it.
LEMMA NextSinkPassed ==
  ASSUME NEW i \in 0..N, NEW j \in 1..N, Passed(NextSink(i), j)
  PROVE  j <= i
<1>1. N \in Nat
  BY SinkCount
<1>2. CASE i >= N
  BY <1>1, <1>2
<1>3. CASE ~(i >= N)
  <2>1. NextSink(i) = At("check", i + 1)
    BY <1>3 DEF NextSink
  <2> QED
    BY <1>1, <2>1 DEF At, Passed
<1> QED
  BY <1>2, <1>3

\* Every step of the audit log keeps Recorded.
LEMMA RecordedStep ==
  ASSUME AuditInv, Recorded, [Next]_vars
  PROVE  Recorded'
<1>0. /\ AuditTypes /\ N \in Nat /\ wr \in [Writers -> Spots] /\ cl \in CloseSpots
      /\ (\A w \in Writers : Placed(wr[w])) /\ accepted \in [1..N -> SUBSET Writers]
  BY SinkCount, AuditFacts DEF AuditInv, AuditTypes
<1>1. CASE cl'.at # "open"
  BY <1>1 DEF Recorded
<1>2. CASE UNCHANGED <<wr, shut, closed, chClosed, cl, accepted>>
  BY <1>2 DEF Recorded
<1>3. CASE CloseWriter \/ CloseStep
  <2>1. \E a \in {"flag", "chan", "wait", "closed"} :
          (\E i : cl' = At(a, i)) \/ cl' = [cl EXCEPT !.at = a]
    BY <1>3 DEF CloseWriter, CloseStep, CloseFlag, CloseChan, CloseWait
  <2>2. cl'.at # "open"
    BY <1>0, <2>1 DEF At, CloseSpots
  <2> QED
    BY <1>1, <2>2
<1>4. ASSUME NEW w \in Writers, WriterStep(w), cl.at = "open" PROVE Recorded'
  <2>0. /\ ~shut /\ closed = {} /\ chClosed = {} /\ wr[w] \in Spots
        /\ wr[w].sink \in 0..N
        /\ \A v \in Writers, j \in 1..N : Passed(wr[v], j) => v \in accepted[j]
    BY <1>0, <1>4 DEF Recorded, Spots
  <2>1. UNCHANGED <<shut, closed, chClosed, cl>>
    BY <1>4 DEF WriterStep, Write, Check, Send, Park, SendRefused, SendPanics
  <2>2. ASSUME NEW p, wr' = [wr EXCEPT ![w] = p],
               \A j \in 1..N : accepted[j] \subseteq accepted'[j],
               \A j \in 1..N : Passed(p, j) => Passed(wr[w], j) \/ w \in accepted'[j]
        PROVE  Recorded'
    <3>1. ASSUME NEW v \in Writers, NEW j \in 1..N, Passed(wr'[v], j)
          PROVE  v \in accepted'[j]
      BY <1>0, <2>0, <2>2, <3>1
    <3>2. (\A v \in Writers, j \in 1..N : Passed(wr[v], j) => v \in accepted[j])'
      BY <3>1 DEF Passed
    <3> QED
      BY <2>0, <2>1, <3>2 DEF Recorded
  <2>3. CASE Write(w)
    <3>1. wr' = [wr EXCEPT ![w] = NextSink(0)] /\ accepted' = accepted
      BY <2>0, <2>3 DEF Write
    <3>2. \A j \in 1..N : ~Passed(NextSink(0), j)
      BY <1>0, NextSinkPassed
    <3> QED
      BY <2>2, <3>1, <3>2
  <2>4. CASE Check(w) \/ Park(w)
    <3>1. PICK a \in {"send", "parked"} :
            wr' = [wr EXCEPT ![w] = At(a, wr[w].sink)] /\ accepted' = accepted
      BY <2>0, <2>4 DEF Check, Park
    <3>2. \A j \in 1..N : Passed(At(a, wr[w].sink), j) => Passed(wr[w], j)
      BY DEF At, Passed
    <3> QED
      BY <2>2, <3>1, <3>2
  <2>5. CASE Send(w)
    <3>1. PICK i \in 1..N : i = wr[w].sink
      BY <1>0, <2>5 DEF Send, Placed
    <3>2. /\ wr' = [wr EXCEPT ![w] = NextSink(i)]
          /\ accepted' = [accepted EXCEPT ![i] = @ \cup {w}]
      BY <2>5, <3>1 DEF Send
    <3>3. /\ \A j \in 1..N : accepted[j] \subseteq accepted'[j]
          /\ w \in accepted'[i]
      BY <1>0, <3>2
    <3>4. ASSUME NEW j \in 1..N, Passed(NextSink(i), j)
          PROVE  Passed(wr[w], j) \/ w \in accepted'[j]
      <4>1. j <= i
        BY <1>0, <3>4, NextSinkPassed
      <4> QED
        BY <1>0, <3>1, <3>3, <4>1 DEF Passed
    <3> QED
      BY <2>2, <3>2, <3>3, <3>4
  <2>6. ~SendRefused(w) /\ ~SendPanics(w)
    BY <2>0 DEF SendRefused, SendPanics
  <2> QED
    BY <1>4, <2>3, <2>4, <2>5, <2>6 DEF WriterStep
<1>5. ASSUME NEW w \in Writers, WriterStep(w), cl.at # "open" PROVE Recorded'
  BY <1>1, <1>5 DEF WriterStep, Write, Check, Send, Park, SendRefused, SendPanics
<1>6. ASSUME NEW i \in 1..N, Drain(i) \/ S3Tick(i) PROVE Recorded'
  BY <1>2, <1>6 DEF Drain, FileTake, FileEnd, S3Take, S3End, S3Tick
<1>7. CASE Expire \/ Tick \/ UNCHANGED vars
  BY <1>2, <1>7 DEF Expire, Tick, vars
<1> QED
  BY <1>3, <1>4, <1>5, <1>6, <1>7 DEF Next

\* Every step of the process is one of the audit log, or none to it.
LEMMA AuditLogSteps == [ProcNext]_allVars => [Next]_vars
<1> SUFFICES ASSUME [ProcNext]_allVars PROVE [Next]_vars
  OBVIOUS
<1>1. ASSUME NEW w \in Writers, Arrive(w) \/ Handle(w) PROVE [Next]_vars
  BY <1>1 DEF Handle, Arrive, Got, Audit, Audited, Answered, PassedOn, Put, Next, vars
<1>2. CASE Leave
  BY <1>2 DEF Leave, CancelContext, CloseAudit, AuditClosed, CloseStore, StoreClosed, Exit,
              Next, vars
<1>3. CASE Background
  BY <1>3 DEF Background, Next
<1>4. CASE \/ Succeed \/ Fail \/ Serve \/ PipesEnd \/ ListenerFails \/ Signal
           \/ SignalLost \/ Kill \/ MetricsDown \/ TimeOver \/ Drained
           \/ UNCHANGED allVars
  BY <1>4 DEF Succeed, Fail, Serve, PipesEnd, ListenerFails, Signal, SignalLost, Kill,
              MetricsDown, TimeOver, Drained, allVars, vars
<1> QED
  BY <1>1, <1>2, <1>3, <1>4 DEF ProcNext

-----------------------------------------------------------------------------
(* Types.                                                                  *)

Names == {"store", "compactor", "audit", "oidc"}

Spans == {"none", "refused", "get", "audit", "upstream", "put", "done", "bypass", "passed",
          "panicked"}

\* What the process itself keeps has its type.
ProcTypes ==
  /\ setup \in Setups
  /\ main \in ToSet(Stages) \cup {"serving", "piping", "metrics", "draining", "leaving",
                                  "exited", "killed"}
  /\ defers \in Seq(Names)
  /\ storeOpen \in BOOLEAN /\ listening \in BOOLEAN /\ over \in BOOLEAN
  /\ told \in BOOLEAN /\ forced \in BOOLEAN
  /\ h \in [Writers -> Spans]
  /\ strangers \subseteq Writers /\ ran \subseteq Writers /\ lost \subseteq Writers

\* Every step of the process keeps the types.
LEMMA ProcTypesStep == ProcTypes /\ [ProcNext]_allVars => ProcTypes'
<1> SUFFICES ASSUME ProcTypes, [ProcNext]_allVars PROVE ProcTypes'
  OBVIOUS
<1>1. CASE Succeed
  <2>1. main' \in ToSet(Stages)
    BY <1>1, AfterName DEF Succeed
  <2>2. Deferred(main) \in Seq(Names)
    <3>1. CASE main \in Names
      <4>1. <<main>> \in Seq(Names) /\ <<>> \in Seq(Names)
        BY <3>1
      <4> QED
        BY <4>1 DEF Deferred
    <3>2. CASE main \notin Names
      <4>1. Deferred(main) = <<>>
        BY <3>2 DEF Deferred, Names
      <4> QED
        BY <4>1
    <3> QED
      BY <3>1, <3>2
  <2>3. defers' \in Seq(Names)
    BY <1>1, <2>2 DEF Succeed, ProcTypes
  <2>4. storeOpen' \in BOOLEAN
    BY <1>1 DEF Succeed
  <2> QED
    BY <1>1, <2>1, <2>3, <2>4 DEF Succeed, ProcTypes
<1>2. CASE \/ Fail \/ PipesEnd \/ Signal \/ SignalLost \/ Kill \/ MetricsDown \/ TimeOver
           \/ CloseStore \/ Exit
  BY <1>2 DEF Fail, PipesEnd, Signal, SignalLost, Kill, MetricsDown, TimeOver, CloseStore,
              Exit, ProcTypes
<1>3. CASE Serve \/ ListenerFails \/ Drained
  BY <1>3 DEF Serve, ListenerFails, Drained, ProcTypes
<1>4. ASSUME NEW w \in Writers, Arrive(w) PROVE ProcTypes'
  BY <1>4 DEF Arrive, ProcTypes, Spans
<1>5. ASSUME NEW w \in Writers, Handle(w) PROVE ProcTypes'
  BY <1>5 DEF Handle, Got, Audit, Audited, Answered, PassedOn, Put, ProcTypes, Spans
<1>6. CASE CancelContext \/ AuditClosed \/ StoreClosed
  <2>1. defers # <<>> /\ defers' = Tail(defers)
    BY <1>6 DEF CancelContext, AuditClosed, StoreClosed, Leaving
  <2>2. defers' \in Seq(Names)
    BY <2>1 DEF ProcTypes
  <2> QED
    BY <1>6, <2>2 DEF CancelContext, AuditClosed, StoreClosed, ProcTypes
<1>7. CASE CloseAudit \/ Background \/ UNCHANGED allVars
  BY <1>7 DEF CloseAudit, Background, allVars, procVars, ProcTypes
<1> QED
  BY <1>1, <1>2, <1>3, <1>4, <1>5, <1>6, <1>7 DEF ProcNext, Leave

-----------------------------------------------------------------------------
(* What the phase of run() says about everything else.                     *)

\* The phases in which handlers are served.
Up == {"serving", "metrics", "draining"}

\* The phases in which the deferred calls run or have run.
Down == {"leaving", "exited", "killed"}

\* Nobody was ever let in, and nobody will be.
Untouched == (\A w \in Writers : h[w] = "none") /\ ran = {} /\ ~listening

\* main has refused open setups before it listens.
Guarded ==
  /\ main \in {"oidc", "tls", "serve"} => ~Refused("exposure")
  /\ listening => /\ setup.mode = "http" /\ ~Refused("exposure")
                  /\ main \in {"serving", "metrics", "leaving"}
  /\ main = "serving" => listening
  /\ strangers # {} => IsLoopbackBind

\* Nothing is closed before the deferred calls, and nobody is served before
\* the servers are up.
Before ==
  /\ main \notin Up \cup Down => Untouched
  /\ main \notin Down => ~forced /\ cl.at = "open"
  /\ main \in {"compactor", "embedder", "audit", "admin", "exposure", "oidc", "tls",
               "serve"} \cup Up => storeOpen
  /\ main \in {"admin", "exposure", "oidc", "tls", "serve"} \cup Up =>
       "audit" \in Recs(defers)

\* Unless handlers are left behind, none is at work when the deferred calls
\* run; the audit log is closed among them if anybody was served.
Afterwards ==
  /\ main \in Down /\ ~forced => Active = {} /\ ~listening
  /\ main \in Down => Untouched \/ "audit" \in Recs(defers) \/ cl.at = "closed"
  /\ main = "exited" => defers = <<>>

\* What the handlers have met and left.
Served ==
  /\ HandlersUndisturbed
  /\ ~forced => \A i \in 1..N : ran \ Off \subseteq accepted[i]

ProcLinks == Guarded /\ Before /\ Afterwards /\ Served

\* The inductive invariant of this module.
ProcInv == AuditInv /\ Recorded /\ ProcTypes /\ ProcLinks

\* The command line does not change, nor what main makes of it.
LEMMA SetupStays ==
  ASSUME [ProcNext]_allVars
  PROVE  /\ setup' = setup /\ IsLoopbackBind' = IsLoopbackBind
         /\ Refused("exposure")' = Refused("exposure")
<1>1. setup' = setup
  BY DEF ProcNext, Succeed, Fail, Serve, PipesEnd, Arrive, Handle, Got, Audit, Audited,
         Answered, PassedOn, Put, ListenerFails, Signal, SignalLost, Kill, MetricsDown,
         TimeOver, Drained, Leave, CancelContext, CloseAudit, AuditClosed, CloseStore,
         StoreClosed, Exit, Background, procVars, allVars
<1> QED
  BY <1>1 DEF IsLoopbackBind, Refused, Authenticated, HasTokens

\* What a stage defers is added to what is deferred.
LEMMA DeferredAdded ==
  ASSUME NEW m, NEW s \in Seq(Names), m \in Names \/ Deferred(m) = <<>>
  PROVE  /\ Recs(s) \subseteq Recs(Deferred(m) \o s)
         /\ m = "audit" => "audit" \in Recs(Deferred(m) \o s)
<1>1. CASE Deferred(m) = <<>> /\ m # "audit"
  <2>1. Deferred(m) \o s = s
    BY <1>1
  <2> QED
    BY <1>1, <2>1
<1>2. CASE Deferred(m) = <<m>> /\ m \in Names
  <2> DEFINE t == <<m>> \o s
  <2>1. /\ DOMAIN t = 1..(Len(s) + 1) /\ t[1] = m /\ Len(s) \in Nat
        /\ DOMAIN s = 1..Len(s) /\ \A n \in 1..Len(s) : t[n + 1] = s[n]
    BY <1>2
  <2> HIDE DEF t
  <2>2. m \in Recs(t)
    BY <2>1 DEF Recs
  <2>3. ASSUME NEW n \in DOMAIN s PROVE s[n] \in Recs(t)
    <3>1. n + 1 \in DOMAIN t /\ t[n + 1] = s[n]
      BY <2>1
    <3> QED
      BY <3>1 DEF Recs
  <2>4. Recs(s) \subseteq Recs(t)
    BY <2>3 DEF Recs
  <2> QED
    BY <1>2, <2>2, <2>4 DEF t
<1>3. Deferred(m) \in {<<m>>, <<>>} /\ (m = "audit" => Deferred(m) = <<m>>)
  BY DEF Deferred
<1> QED
  BY <1>1, <1>2, <1>3

\* The stages of the start, and of leaving it.
LEMMA StartLinks ==
  ASSUME ProcInv, [ProcNext]_allVars, Succeed \/ Fail \/ Serve \/ PipesEnd
  PROVE  ProcLinks'
<1>0. /\ ProcTypes /\ Guarded /\ Before /\ Afterwards /\ Served
      /\ setup' = setup /\ IsLoopbackBind' = IsLoopbackBind
      /\ Refused("exposure")' = Refused("exposure")
  BY SetupStays DEF ProcInv, ProcLinks
<1>1. /\ main \notin Up \cup Down
      /\ UNCHANGED <<cl, h, forced, strangers, ran, lost, accepted>>
  <2>1. CASE Succeed \/ Serve \/ PipesEnd
    BY <2>1, StageSet DEF Succeed, Serve, PipesEnd, vars, Up, Down
  <2>2. CASE Fail
    BY <2>2 DEF Fail, MayFail, Refused, vars, Up, Down
  <2> QED
    BY <2>1, <2>2
<1>2. Untouched /\ ~forced /\ cl.at = "open" /\ Active = {}
  BY <1>0, <1>1 DEF Before, Untouched, Active
<1>3. Served' /\ Active' = {}
  BY <1>0, <1>1, <1>2 DEF Served, HandlersUndisturbed, Active, Off
<1>4. CASE Succeed
  <2>1. /\ main \in ToSet(Stages) \ {"serve"} /\ ~Refused(main) /\ main' = After(main)
        /\ defers' = Deferred(main) \o defers /\ storeOpen' = (storeOpen \/ main = "store")
        /\ listening' = listening
    BY <1>4 DEF Succeed
  <2>2. main' \in ToSet(Stages) /\ main' \notin Up \cup Down /\ main' # "serving"
    BY <2>1, AfterName, StageSet DEF Up, Down
  <2>3. Guarded'
    <3>1. main' \in {"oidc", "tls", "serve"} => main \in {"exposure", "oidc", "tls"}
      BY <2>1, AfterName
    <3> QED
      BY <1>0, <1>1, <1>2, <2>1, <2>2, <3>1 DEF Guarded, Untouched
  <2>4. Before'
    <3>1. Untouched'
      BY <1>1, <1>2, <2>1 DEF Untouched
    <3>2. main' \in {"compactor", "embedder", "audit", "admin", "exposure", "oidc", "tls",
                     "serve"} => storeOpen'
      <4>1. main' = "compactor" => main = "store"
        BY <2>1, AfterName
      <4>2. main' \in {"embedder", "audit", "admin", "exposure", "oidc", "tls", "serve"} =>
              main \in {"compactor", "embedder", "audit", "admin", "exposure", "oidc", "tls"}
        BY <2>1, AfterName
      <4> QED
        BY <1>0, <2>1, <4>1, <4>2 DEF Before
    <3>3. main' \in {"admin", "exposure", "oidc", "tls", "serve"} => "audit" \in Recs(defers')
      <4>1. main' \in {"admin", "exposure", "oidc", "tls", "serve"} =>
              main \in {"audit", "admin", "exposure", "oidc", "tls"}
        BY <2>1, AfterName
      <4>2. /\ Recs(defers) \subseteq Recs(defers')
            /\ main = "audit" => "audit" \in Recs(defers')
        <5>1. main \in Names \/ Deferred(main) = <<>>
          BY DEF Names, Deferred
        <5> QED
          BY <1>0, <2>1, <5>1, DeferredAdded DEF ProcTypes
      <4> QED
        BY <1>0, <4>1, <4>2 DEF Before
    <3> QED
      BY <1>1, <1>2, <2>2, <3>1, <3>2, <3>3 DEF Before, Recs
  <2>5. Afterwards'
    BY <2>2 DEF Afterwards, Down
  <2> QED
    BY <1>3, <2>3, <2>4, <2>5 DEF ProcLinks
<1>5. CASE Fail \/ PipesEnd
  <2>1. main' = "leaving" /\ UNCHANGED <<listening, defers, storeOpen>>
    BY <1>5 DEF Fail, PipesEnd
  <2>2. Untouched'
    BY <1>1, <1>2, <2>1 DEF Untouched
  <2>3. Guarded'
    BY <1>0, <1>1, <1>2, <2>1 DEF Guarded, Untouched
  <2>4. Before' /\ Afterwards'
    BY <1>2, <1>3, <2>1, <2>2 DEF Before, Afterwards, Untouched, Up, Down
  <2> QED
    BY <1>3, <2>3, <2>4 DEF ProcLinks
<1>6. CASE Serve
  <2>1. /\ main = "serve" /\ main' = IF setup.mode = "http" THEN "serving" ELSE "piping"
        /\ listening' = (setup.mode = "http") /\ UNCHANGED <<defers, storeOpen>>
    BY <1>6 DEF Serve
  <2>2. Guarded'
    BY <1>0, <1>1, <2>1 DEF Guarded
  <2>3. main' = "piping" => Untouched'
    BY <1>1, <1>2, <2>1 DEF Untouched
  <2>4. Before' /\ Afterwards'
    BY <1>0, <1>1, <1>2, <2>1, <2>3 DEF Before, Afterwards, Up, Down, Recs
  <2> QED
    BY <1>3, <2>2, <2>4 DEF ProcLinks
<1> QED
  BY <1>4, <1>5, <1>6

\* The middleware in front of the adapter lets a stranger in only where main
\* has found no credentials either.
LEMMA StrangersAdmitted ==
  ASSUME setup \in Setups, Admits(FALSE)
  PROVE  ~Authenticated
<1>1. setup.oidc \in BOOLEAN /\ setup.token \in BOOLEAN
  BY SetupAssumption
<1>2. CASE setup.oidc
  BY <1>2 DEF Admits, RequireBearerVerifier
<1>3. CASE ~setup.oidc /\ HasTokens
  BY <1>3 DEF Admits, RequireBearerCallers
<1>4. CASE ~setup.oidc /\ ~HasTokens
  <2>1. ~setup.token
    BY <1>4 DEF Admits, RequireBearer
  <2> QED
    BY <1>4, <2>1 DEF Authenticated
<1> QED
  BY <1>1, <1>2, <1>3, <1>4

\* A handler at work: unless it was left behind, nothing has been closed.
LEMMA AtWork ==
  ASSUME ProcInv, NEW w \in Writers, Alive, h[w] \in {"get", "audit", "upstream", "put", "bypass"}
  PROVE  /\ main \in Up \cup {"leaving"} /\ ~Untouched
         /\ ~forced => main \in Up /\ cl.at = "open" /\ storeOpen
<1>0. ProcTypes /\ Before /\ Afterwards
  BY DEF ProcInv, ProcLinks
<1>1. ~Untouched /\ w \in Active
  BY DEF Untouched, Active
<1>2. main \in Up \cup {"leaving"}
  BY <1>0, <1>1 DEF Before, Afterwards, Alive, Ended, Up, Down
<1>3. ~forced => main \in Up
  BY <1>0, <1>1, <1>2 DEF Afterwards, Down
<1> QED
  BY <1>0, <1>1, <1>2, <1>3 DEF Before, Up, Down

\* Before Close begins, a Write does not panic.
LEMMA NoPanic ==
  ASSUME ProcInv, NEW w \in Writers, WriterStep(w), cl.at = "open"
  PROVE  wr'[w].at # "panicked"
<1>0. wr \in [Writers -> Spots] /\ N \in Nat /\ chClosed = {} /\ Placed(wr[w])
  BY AuditFacts, SinkCount DEF ProcInv, AuditInv, AuditTypes, Recorded
<1>1. \A i : NextSink(i).at # "panicked"
  BY DEF NextSink, At
<1>2. \A i : At("returned", i).at # "panicked" /\ At("send", i).at # "panicked"
             /\ At("parked", i).at # "panicked"
  BY DEF At
<1>3. ~SendPanics(w)
  BY <1>0 DEF SendPanics
<1>4. PICK p : wr' = [wr EXCEPT ![w] = p] /\ p.at # "panicked"
  BY <1>1, <1>2, <1>3 DEF WriterStep, Write, Check, Send, Park, SendRefused
<1> QED
  BY <1>0, <1>4

\* What the steps of a handler at work have in common.
LEMMA WorkLinks ==
  ASSUME ProcInv, [ProcNext]_allVars, NEW w \in Writers, Alive,
         h[w] \in {"get", "audit", "upstream", "put", "bypass"},
         UNCHANGED <<cl, main, defers, storeOpen, listening, forced, strangers>>,
         NEW s \in Spans, h' = [h EXCEPT ![w] = s], s # "none",
         Served'
  PROVE  ProcLinks'
<1>0. /\ ProcTypes /\ Guarded /\ Before /\ Afterwards
      /\ setup' = setup /\ IsLoopbackBind' = IsLoopbackBind
      /\ Refused("exposure")' = Refused("exposure")
  BY SetupStays DEF ProcInv, ProcLinks
<1>1. /\ main \in Up \cup {"leaving"} /\ ~Untouched
      /\ ~forced => main \in Up /\ cl.at = "open" /\ storeOpen
  BY AtWork
<1>2. Guarded'
  BY <1>0 DEF Guarded
<1>3. Before'
  BY <1>0, <1>1 DEF Before, Up, Down, Recs
<1>4. Afterwards'
  BY <1>0, <1>1 DEF Afterwards, Up, Down, Recs
<1> QED
  BY <1>2, <1>3, <1>4 DEF ProcLinks

\* The handlers' steps.
LEMMA HandlerLinks ==
  ASSUME ProcInv, [ProcNext]_allVars, NEW w \in Writers, Arrive(w) \/ Handle(w)
  PROVE  ProcLinks'
<1>0. /\ AuditInv /\ Recorded /\ ProcTypes /\ Guarded /\ Before /\ Afterwards /\ Served
      /\ setup' = setup /\ IsLoopbackBind' = IsLoopbackBind
      /\ Refused("exposure")' = Refused("exposure")
      /\ h \in [Writers -> Spans] /\ accepted \in [1..N -> SUBSET Writers]
  BY SetupStays, AuditFacts DEF ProcInv, ProcLinks, AuditInv, ProcTypes
<1>1. CASE Arrive(w)
  <2>1. PICK known \in BOOLEAN, s \in {"refused", "get", "audit", "bypass"} :
          /\ h' = [h EXCEPT ![w] = s]
          /\ \/ strangers' = strangers
             \/ Admits(known) /\ ~known /\ strangers' = strangers \cup {w}
          /\ ran' = IF s = "bypass" THEN ran \cup {w} ELSE ran
    BY <1>1 DEF Arrive
  <2>2. /\ listening /\ Alive /\ h[w] = "none"
        /\ UNCHANGED <<cl, accepted, main, defers, storeOpen, listening, forced, lost>>
    BY <1>1 DEF Arrive, vars
  <2>3. /\ main \in {"serving", "metrics", "leaving"} /\ setup.mode = "http"
        /\ ~Refused("exposure") /\ ~Untouched
    BY <1>0, <2>2 DEF Guarded, Untouched
  <2>4. main = "leaving" => forced /\ ("audit" \in Recs(defers) \/ cl.at = "closed")
    BY <1>0, <2>2, <2>3 DEF Afterwards, Down
  <2>5. strangers' # {} => IsLoopbackBind
    <3>1. CASE Admits(known) /\ ~known
      <4>1. ~Authenticated
        BY <1>0, <3>1, StrangersAdmitted DEF ProcTypes
      <4> QED
        BY <2>3, <4>1 DEF Refused
    <3>2. CASE strangers' = strangers
      BY <1>0, <2>1, <3>2 DEF Guarded
    <3> QED
      BY <2>1, <3>1, <3>2
  <2>6. Guarded'
    BY <1>0, <2>2, <2>3, <2>5 DEF Guarded
  <2>7. Before'
    BY <1>0, <2>2, <2>3 DEF Before, Up, Down, Recs
  <2>8. Afterwards'
    BY <2>2, <2>3, <2>4 DEF Afterwards, Up, Down, Recs
  <2>9. Served'
    <3>1. \A v \in Writers : h'[v] = "panicked" => h[v] = "panicked"
      BY <1>0, <2>1
    <3>2. ran' \ Off' \subseteq ran \ Off
      BY <1>0, <2>1, <2>2 DEF Off
    <3> QED
      BY <1>0, <2>2, <3>1, <3>2 DEF Served, HandlersUndisturbed
  <2> QED
    BY <2>6, <2>7, <2>8, <2>9 DEF ProcLinks
<1>2. CASE Audit(w)
  <2>1. /\ Alive /\ h[w] = "audit" /\ WriterStep(w)
        /\ h' = IF wr'[w].at = "panicked" THEN [h EXCEPT ![w] = "panicked"] ELSE h
        /\ UNCHANGED <<main, defers, storeOpen, listening, forced, strangers, ran, lost>>
    BY <1>2 DEF Audit
  <2>2. UNCHANGED cl /\ \A i \in 1..N : accepted[i] \subseteq accepted'[i]
    <3>1. CASE Send(w)
      <4>1. PICK i : accepted' = [accepted EXCEPT ![i] = @ \cup {w}]
        BY <3>1 DEF Send
      <4> QED
        BY <1>0, <3>1, <4>1 DEF Send
    <3> QED
      BY <2>1, <3>1 DEF WriterStep, Write, Check, Park, SendRefused, SendPanics
  <2>3. ~forced => wr'[w].at # "panicked"
    BY <2>1, AtWork, NoPanic
  <2>4. Served'
    <3>1. ~forced => h' = h
      BY <2>1, <2>3
    <3> QED
      BY <1>0, <2>1, <2>2, <3>1 DEF Served, HandlersUndisturbed, Off
  <2>5. \E s \in Spans : h' = [h EXCEPT ![w] = s] /\ s # "none"
    <3>1. h = [h EXCEPT ![w] = "audit"]
      BY <1>0, <2>1
    <3> QED
      BY <2>1, <3>1 DEF Spans
  <2> QED
    BY <2>1, <2>2, <2>4, <2>5, WorkLinks
<1>3. CASE Got(w) \/ Audited(w) \/ Answered(w) \/ PassedOn(w) \/ Put(w)
  <2>1. /\ Alive /\ h[w] \in {"get", "audit", "upstream", "put", "bypass"}
        /\ UNCHANGED <<cl, accepted, main, defers, storeOpen, listening, forced, strangers>>
    BY <1>3 DEF Got, Audited, Answered, PassedOn, Put, vars
  <2>2. PICK s \in {"audit", "done", "upstream", "put", "passed"} :
          h' = [h EXCEPT ![w] = s] /\ (s = "passed" <=> h[w] = "bypass")
    BY <1>3 DEF Got, Audited, Answered, PassedOn, Put
  <2>3. ~forced => ran' \subseteq ran \cup {w} /\ (ran' # ran => wr[w].at = "returned")
    BY <1>3 DEF Got, Audited, Answered, PassedOn, Put
  <2>4. ~forced => lost' = lost
    BY <1>3, <2>1, AtWork DEF Got, Audited, Answered, PassedOn, Put
  <2>5. Served'
    <3>1. ASSUME ~forced, wr[w].at = "returned", NEW i \in 1..N PROVE w \in accepted[i]
      BY <1>0, <2>1, <3>1, AtWork DEF Recorded, Passed
    <3>a. Off' = Off
      BY <1>0, <2>1, <2>2 DEF Off
    <3>2. ASSUME ~forced, NEW i \in 1..N PROVE ran' \ Off' \subseteq accepted'[i]
      BY <1>0, <2>1, <2>3, <3>1, <3>2, <3>a DEF Served
    <3>3. \A v \in Writers : h'[v] = "panicked" => h[v] = "panicked"
      BY <1>0, <2>2
    <3> QED
      BY <1>0, <2>1, <2>4, <3>2, <3>3 DEF Served, HandlersUndisturbed
  <2>6. s \in Spans /\ s # "none"
    BY DEF Spans
  <2> QED
    BY <2>1, <2>2, <2>5, <2>6, WorkLinks
<1> QED
  BY <1>1, <1>2, <1>3 DEF Handle

\* serveDual's end.
LEMMA ShutdownLinks ==
  ASSUME ProcInv, [ProcNext]_allVars,
         ListenerFails \/ Signal \/ MetricsDown \/ TimeOver \/ Drained
  PROVE  ProcLinks'
<1>0. /\ ProcTypes /\ Guarded /\ Before /\ Afterwards /\ Served
      /\ setup' = setup /\ IsLoopbackBind' = IsLoopbackBind
      /\ Refused("exposure")' = Refused("exposure")
  BY SetupStays DEF ProcInv, ProcLinks
<1>1. /\ main \in Up
      /\ UNCHANGED <<cl, accepted, h, defers, storeOpen, strangers, ran, lost>>
  BY DEF ListenerFails, Signal, MetricsDown, TimeOver, Drained, vars, Up
<1>2. ~forced /\ cl.at = "open" /\ storeOpen /\ "audit" \in Recs(defers)
  BY <1>0, <1>1 DEF Before, Up, Down
<1>3. Served' /\ Active' = Active
  BY <1>0, <1>1, <1>2 DEF Served, HandlersUndisturbed, Active, Off
<1>4. /\ main' \in Up \cup {"leaving"} /\ (main' = "serving" => listening')
      /\ main' \in Up => ~forced'
      /\ main' = "leaving" /\ ~forced' => Active = {} /\ ~listening'
      /\ listening' => main' # "draining" /\ (listening \/ main = "serving")
  <2>1. CASE ListenerFails
    BY <1>1, <1>2, <2>1 DEF ListenerFails, Up
  <2>2. CASE Signal \/ MetricsDown
    BY <1>0, <1>1, <1>2, <2>2 DEF Signal, MetricsDown, Up
  <2>3. CASE TimeOver \/ Drained
    <3>1. main = "draining" => ~listening
      BY <1>0 DEF Guarded
    <3>2. CASE TimeOver
      BY <1>2, <3>1, <3>2 DEF TimeOver, Up
    <3>3. CASE Drained
      BY <3>1, <3>3 DEF Drained, Up
    <3> QED
      BY <2>3, <3>2, <3>3
  <2> QED
    BY <2>1, <2>2, <2>3
<1>5. Guarded'
  <2>1. main = "serving" => setup.mode = "http" /\ ~Refused("exposure")
    BY <1>0 DEF Guarded
  <2> QED
    BY <1>0, <1>1, <1>4, <2>1 DEF Guarded, Up
<1>6. Before' /\ Afterwards'
  BY <1>1, <1>2, <1>3, <1>4 DEF Before, Afterwards, Up, Down, Recs
<1> QED
  BY <1>3, <1>5, <1>6 DEF ProcLinks

\* A signal that is lost, or that ends the process as it stands.
LEMMA SignalLinks ==
  ASSUME ProcInv, [ProcNext]_allVars, SignalLost \/ Kill
  PROVE  ProcLinks'
<1>0. /\ ProcTypes /\ Guarded /\ Before /\ Afterwards /\ Served
      /\ setup' = setup /\ IsLoopbackBind' = IsLoopbackBind
      /\ Refused("exposure")' = Refused("exposure")
  BY SetupStays DEF ProcInv, ProcLinks
<1>1. UNCHANGED <<cl, accepted, h, defers, storeOpen, forced, strangers, ran, lost>>
  BY DEF SignalLost, Kill, vars
<1>2. Served' /\ Active' = Active
  BY <1>0, <1>1 DEF Served, HandlersUndisturbed, Active, Off
<1>3. CASE SignalLost
  <2>1. UNCHANGED <<main, listening>>
    BY <1>3 DEF SignalLost
  <2> QED
    BY <1>0, <1>1, <1>2, <2>1
    DEF ProcLinks, Guarded, Before, Afterwards, Untouched, Recs
<1>4. CASE Kill
  <2>1. /\ main' = "killed" /\ listening' = FALSE
        /\ main \notin Up /\ main \notin {"exited", "killed"}
    BY <1>4 DEF Kill, Notified, Alive, Ended, Up
  <2>2. Guarded'
    BY <1>0, <1>1, <2>1 DEF Guarded
  <2>3. Untouched => Untouched'
    BY <1>1, <2>1 DEF Untouched
  <2>4. main \notin Down => Untouched /\ ~forced /\ Active = {}
    BY <1>0, <2>1 DEF Before, Untouched, Active
  <2>5. Before' /\ Afterwards'
    BY <1>0, <1>1, <1>2, <2>1, <2>3, <2>4 DEF Before, Afterwards, Up, Down, Recs
  <2> QED
    BY <1>2, <2>2, <2>5 DEF ProcLinks
<1> QED
  BY <1>3, <1>4

\* The deferred calls, the end, and what goes on in the background.
LEMMA LeaveLinks ==
  ASSUME ProcInv, [ProcNext]_allVars, Leave \/ Background \/ UNCHANGED allVars
  PROVE  ProcLinks'
<1>0. /\ AuditInv /\ ProcTypes /\ Guarded /\ Before /\ Afterwards /\ Served
      /\ setup' = setup /\ IsLoopbackBind' = IsLoopbackBind
      /\ Refused("exposure")' = Refused("exposure")
      /\ cl \in CloseSpots /\ defers \in Seq(Names)
  BY SetupStays, AuditFacts DEF ProcInv, ProcLinks, AuditInv, ProcTypes
<1>1. UNCHANGED <<h, forced, strangers, ran, lost, accepted>>
  BY DEF Leave, CancelContext, CloseAudit, AuditClosed, CloseStore, StoreClosed, Exit,
         Background,
         CloseWriter, CloseStep, CloseFlag, CloseChan, CloseWait, Expire, Tick, Drain,
         FileTake, FileEnd, S3Take, S3End, S3Tick, procVars, vars, allVars
<1>2. Served' /\ Active' = Active
  BY <1>0, <1>1 DEF Served, HandlersUndisturbed, Active, Off
<1>3. CASE UNCHANGED <<cl, main, defers, storeOpen, listening>>
  BY <1>0, <1>1, <1>2, <1>3
  DEF ProcLinks, Guarded, Before, Afterwards, Untouched, Recs
<1>4. CASE Background \/ UNCHANGED allVars
  BY <1>3, <1>4 DEF Background, Expire, Tick, Drain, FileTake, FileEnd, S3Take, S3End,
                    S3Tick, procVars, vars, allVars
<1>5. CASE CloseAudit
  <2>1. /\ main = "leaving" /\ "audit" \in Recs(defers)
        /\ UNCHANGED <<main, defers, storeOpen, listening>>
    <3>1. main = "leaving" /\ defers # <<>> /\ Head(defers) = "audit"
      BY <1>5 DEF CloseAudit, Leaving
    <3>2. "audit" \in Recs(defers)
      BY <1>0, <3>1, RecsTail
    <3> QED
      BY <1>5, <3>1, <3>2 DEF CloseAudit, procVars
  <2>2. Guarded'
    BY <1>0, <1>1, <2>1 DEF Guarded
  <2>3. Before' /\ Afterwards'
    BY <1>0, <1>2, <2>1, <1>1 DEF Before, Afterwards, Up, Down, Recs
  <2> QED
    BY <1>2, <2>2, <2>3 DEF ProcLinks
<1>6. CASE CancelContext \/ AuditClosed \/ StoreClosed
  <2>1. /\ main = "leaving" /\ defers # <<>> /\ defers' = Tail(defers)
        /\ Head(defers) = "audit" => cl.at = "closed"
        /\ UNCHANGED <<cl, main, listening>>
    BY <1>6 DEF CancelContext, AuditClosed, StoreClosed, Leaving, vars
  <2>2. "audit" \in Recs(defers) => "audit" \in Recs(defers') \/ cl.at = "closed"
    BY <1>0, <2>1, RecsTail
  <2>3. Guarded'
    BY <1>0, <1>1, <2>1 DEF Guarded
  <2>4. Untouched => Untouched'
    BY <1>1, <2>1 DEF Untouched
  <2>5. Before'
    BY <2>1 DEF Before, Up, Down
  <2>6. Recs(defers)' = Recs(defers')
    BY DEF Recs
  <2>7. Afterwards'
    BY <1>0, <1>1, <1>2, <2>1, <2>2, <2>4, <2>6 DEF Afterwards, Down
  <2> QED
    BY <1>2, <2>3, <2>5, <2>7 DEF ProcLinks
<1>8. CASE CloseStore
  <2>1. main = "leaving" /\ UNCHANGED <<cl, main, defers, listening>>
    BY <1>8 DEF CloseStore, Leaving, vars
  <2>2. Guarded'
    BY <1>0, <1>1, <2>1 DEF Guarded
  <2>3. Before' /\ Afterwards'
    BY <1>0, <1>1, <1>2, <2>1 DEF Before, Afterwards, Untouched, Up, Down, Recs
  <2> QED
    BY <1>2, <2>2, <2>3 DEF ProcLinks
<1>7. CASE Exit
  <2>1. /\ main = "leaving" /\ defers = <<>> /\ main' = "exited" /\ listening' = FALSE
        /\ UNCHANGED <<cl, defers>>
    BY <1>7 DEF Exit, vars
  <2>2. Guarded'
    BY <1>0, <1>1, <2>1 DEF Guarded
  <2>3. Untouched => Untouched'
    BY <1>1, <2>1 DEF Untouched
  <2>4. Before' /\ Afterwards'
    BY <1>0, <1>1, <1>2, <2>1, <2>3 DEF Before, Afterwards, Up, Down, Recs
  <2> QED
    BY <1>2, <2>2, <2>4 DEF ProcLinks
<1> QED
  BY <1>4, <1>5, <1>6, <1>7, <1>8 DEF Leave

-----------------------------------------------------------------------------
(* The theorems.                                                           *)

\* The process starts with the invariant.
LEMMA ProcStarts == ProcInit => ProcInv
<1> SUFFICES ASSUME ProcInit PROVE ProcInv
  OBVIOUS
<1>0. AuditInv /\ N \in Nat
  BY AuditInit, SinkCount DEF ProcInit
<1>1. Recorded
  <2>1. ASSUME NEW w \in Writers, NEW i \in 1..N PROVE ~Passed(wr[w], i)
    BY <1>0 DEF ProcInit, Init, At, Passed
  <2> QED
    BY <2>1 DEF ProcInit, Init, Recorded
<1>2. ProcTypes
  <2>1. defers \in Seq(Names) /\ main \in ToSet(Stages) /\ setup \in Setups
    BY StageSet DEF ProcInit
  <2>2. h \in [Writers -> Spans]
    BY DEF ProcInit, Spans
  <2> QED
    BY <2>1, <2>2 DEF ProcInit, ProcTypes
<1>3. cl.at = "open"
  BY DEF ProcInit, Init, At
<1>4. ProcLinks
  BY <1>3 DEF ProcInit, ProcLinks, Guarded, Before, Afterwards, Served, Untouched, Up,
              Down, HandlersUndisturbed, Refused, Off
<1> QED
  BY <1>0, <1>1, <1>2, <1>4 DEF ProcInv

\* Every step of the process keeps it.
LEMMA ProcStep == ProcInv /\ [ProcNext]_allVars => ProcInv'
<1> SUFFICES ASSUME ProcInv, [ProcNext]_allVars PROVE ProcInv'
  OBVIOUS
<1>1. [Next]_vars /\ AuditInv /\ Recorded /\ ProcTypes
  BY AuditLogSteps DEF ProcInv
<1>2. AuditInv' /\ Recorded' /\ ProcTypes'
  BY <1>1, AuditStep, RecordedStep, ProcTypesStep
<1>3. ProcLinks'
  BY StartLinks, HandlerLinks, ShutdownLinks, SignalLinks, LeaveLinks DEF ProcNext
<1> QED
  BY <1>2, <1>3 DEF ProcInv

\* The process keeps its invariant, the audit log's within it.
THEOREM ProcInvariant == ProcSpec => []ProcInv
BY ProcStarts, ProcStep, PTL DEF ProcSpec

\* Every variable of the process and of its audit log keeps its type.
THEOREM ProcTypeCorrect == ProcSpec => []ProcTypeOK
<1>1. ProcInv => ProcTypeOK
  BY DEF ProcInv, AuditInv, AuditTypes, ProcTypes, ProcTypeOK, Names, Spans
<1> QED
  BY <1>1, ProcInvariant, PTL

\* No handler meets a closed audit log or a closed store, unless run() left it
\* behind.
THEOREM HandlersUndisturbedHolds == ProcSpec => []HandlersUndisturbed
<1>1. ProcInv => HandlersUndisturbed
  BY DEF ProcInv, ProcLinks, Served
<1> QED
  BY <1>1, ProcInvariant, PTL

\* Every executed call that is not of a tool in mode off is on record before it
\* executes, and written or uploaded, or an error to its sink, by the end of the
\* process, unless handlers were left behind or Close ran out of time.
THEOREM ExecutionsOnRecordHolds == ProcSpec => []ExecutionsOnRecord
<1>1. ProcInv => ExecutionsOnRecord
  <2> SUFFICES ASSUME ProcInv, ~forced, NEW i \in 1..N
               PROVE  /\ ran \ Off \subseteq accepted[i]
                      /\ main = "exited" /\ ~expired =>
                           ran \ Off \subseteq Recs(lines[i]) \cup Uploaded(i) \cup GivenUp(i)
    BY DEF ExecutionsOnRecord
  <2>1. ran \ Off \subseteq accepted[i]
    BY DEF ProcInv, ProcLinks, Served
  <2>2. ASSUME main = "exited", ~expired
        PROVE  ran \ Off \subseteq Recs(lines[i]) \cup Uploaded(i) \cup GivenUp(i)
    <3>1. Afterwards /\ AuditInv
      BY DEF ProcInv, ProcLinks
    <3>2. ran = {} \/ cl.at = "closed"
      BY <2>2, <3>1 DEF Afterwards, Down, Untouched, Recs
    <3>3. cl.at = "closed" =>
            accepted[i] \subseteq Recs(lines[i]) \cup Uploaded(i) \cup GivenUp(i)
      BY <2>2, <3>1, LedgersDrained DEF CloseDrains
    <3> QED
      BY <2>1, <3>2, <3>3
  <2> QED
    BY <2>1, <2>2
<1> QED
  BY <1>1, ProcInvariant, PTL

\* Nobody gets in without credentials on an address that is not loopback:
\* main's refusal covers every middleware Handler() may choose.
THEOREM NoOpenProxyHolds == ProcSpec => []NoOpenProxy
<1>1. ProcInv => NoOpenProxy
  BY DEF ProcInv, ProcLinks, Guarded, NoOpenProxy, IsLoopbackBind
<1> QED
  BY <1>1, ProcInvariant, PTL
=============================================================================
