------------------------------ MODULE Pipeline ------------------------------
(***************************************************************************)
(* Concurrent calls of Pipeline.Apply (internal/pipeline/pipeline.go): the *)
(* policy gates, the cache decision, and the coalescing of concurrent      *)
(* duplicates behind one leader.                                           *)
(*                                                                         *)
(* A call is one invocation of Apply.  Its steps are the places where the  *)
(* code touches state that another goroutine can see: the store, the       *)
(* inflight map, a handle's done channel, the upstream.  What lies between *)
(* two such places is one action.  The response of a call's own forward()  *)
(* is identified by the call itself, so that every replay carries its      *)
(* provenance.                                                             *)
(***************************************************************************)
EXTENDS StoreOps, Sequences, FiniteSets

CONSTANTS
  Calls,        \* invocations of Apply
  Tools,
  Hashes,       \* fingerprints; two bodies with one fingerprint are one hash
  Callers,
  BadBody,      \* a body analyse rejects
  Policy,       \* Config.For: the merged ToolPolicy of each tool
  Requests,     \* the requests the clients may send
  Score,        \* embed.Cosine between two intents, in percent; 0 if it fails
  NoIntent,     \* the hashes whose intent is empty
  Embedder,     \* whether WithEmbedder was given
  Shadow,       \* WithShadow
  Seeded,       \* keys the store already holds when the process starts
  Outcomes,     \* what the upstream may answer, a subset of AllOutcomes
  Faults,       \* what may go wrong around the pipeline, a subset of AllFaults
  MaxTime,      \* bound on the clock
  NoCall, NoHash

Modes == {"strict", "cache", "log_only", "off"}

AllFaults == {"cancel", "store", "embed", "crash", "delete", "dial"}

\* 2xx answers: a JSON object, a body that is none, no body.
Success == {"ok", "text", "empty"}

\* What forward() makes of an upstream it has no answer from: an error of the
\* MCP client, or the reverse proxy's own 502 without a body.
Unanswered == {"error", "badgateway"}

\* The same bodies under another status; nothing heard; a panic.
AllOutcomes == Success \cup {"fail", "failtext", "panic"} \cup Unanswered

Keys == Tools \X Hashes

\* id tells whether a JSON-RPC client gave its frame an id.
RequestSet == [tool : Tools, body : Hashes \cup {BadBody}, caller : Callers,
               id : BOOLEAN]

Writers == Calls \cup {NoCall}

Entries == EntriesOf(Writers)

ASSUME PolicyAssumption ==
  Policy \in [Tools -> [mode : Modes, ttl : Nat, threshold : Nat,
                        confirm : BOOLEAN, ack : BOOLEAN,
                        allowed : SUBSET Callers, rps : Nat, burst : Nat]]

ASSUME RequestAssumption == Requests \subseteq RequestSet

ASSUME ScoreAssumption ==
  Score \in [Hashes \X Hashes -> Nat] /\ NoIntent \subseteq Hashes

ASSUME SwitchAssumption == Embedder \in BOOLEAN /\ Shadow \in BOOLEAN

ASSUME EnvironmentAssumption ==
  /\ Seeded \subseteq Keys
  /\ Outcomes \subseteq AllOutcomes
  /\ Faults \subseteq AllFaults
  /\ MaxTime \in Nat

ASSUME SentinelAssumption ==
  /\ NoCall \notin Calls
  /\ NoHash \notin Hashes
  /\ BadBody \notin Hashes
  /\ NoEntry \notin Entries

VARIABLES
  pc,        \* where each call stands in Apply
  req,       \* the request it serves, meaningful once it has started
  hash,      \* its fingerprint; NoHash until analyse has run
  ctxDone,   \* whether its context is cancelled
  leader,    \* whose handle it holds: its own when it leads, else the awaited
  outcome,   \* what its forward() returned, "none" before
  result,    \* the Result (and error) it returns
  audit,     \* the audit records it wrote, in order
  entries,   \* the fingerprint store
  inflight,  \* Pipeline.inflight
  handle,    \* applyInflight.result and .err of each leader
  done,      \* the leaders whose done channel is closed
  tokens,    \* the limiters' buckets
  now,       \* Pipeline.now
  executed,  \* history: the calls whose request reached the upstream
  owed       \* history: the calls that came while their answer was cached

callVars   == <<pc, req, hash, leader, outcome, result, audit>>
flightVars == <<inflight, handle, done>>
histVars   == <<executed, owed>>
vars       == <<pc, req, hash, ctxDone, leader, outcome, result, audit, entries,
                inflight, handle, done, tokens, now, executed, owed>>

Running == {"get", "lazydel", "scan", "increment", "acquire", "wait", "send",
            "upstream", "put", "release", "close"}

Decisions == {"forward", "replay", "block", "ratelimited", "forbidden"}

Matches == {"none", "exact", "semantic", "coalesced"}

Results ==
  [decision : Decisions \cup {"none"}, match : Matches,
   hash : Hashes \cup {NoHash}, of : Writers,
   body : {"none", "raw", "ack"},
   err : {"none", "analyse", "error", "panic", "leader", "ctx"}]

Answer(d, m, h, of, body, err) ==
  [decision |-> d, match |-> m, hash |-> h, of |-> of, body |-> body, err |-> err]

\* A Result without a response.
Bare(d, m, err) == Answer(d, m, NoHash, NoCall, "none", err)

NoResult == Bare("none", "none", "none")

AuditRecords == [decision : Decisions, would : Decisions \cup {"none"},
                 match : Matches]

-----------------------------------------------------------------------------
(* The policy's view of a tool and the parts the actions are made of.      *)

Tool(c) == req[c].tool

Pol(c) == Policy[Tool(c)]

Key(c) == <<Tool(c), hash[c]>>

\* Strict and cache modes look the store up, coalesce and write it.
Dedupes(t) == Policy[t].mode \in {"strict", "cache"}

\* ToolPolicy.AllowsCaller: an empty list admits everyone.
AllowsCaller(t, caller) ==
  Policy[t].allowed = {} \/ caller \in Policy[t].allowed

\* limiterFor: the bucket's size, rps rounded up (at least 1) when unset.
Burst(t) == IF Policy[t].burst > 0 THEN Policy[t].burst ELSE Policy[t].rps

\* A mutant of Allow: the bucket is not consulted.
AllowAlways(t) == TRUE

\* rate.Limiter.Allow, external: a tool without a rate is never limited.
Allow(t) == Policy[t].rps = 0 \/ tokens[t] > 0

\* A mutant of TakeToken: asking does not use up the allowance.
TakeNoToken(t) == UNCHANGED tokens

\* The token Allow consumes.
TakeToken(t) ==
  tokens' = IF Policy[t].rps = 0 THEN tokens ELSE [tokens EXCEPT ![t] = @ - 1]

\* rate.Limiter's refill by one clock unit, capped at the bucket's size.
Refill(t) == IF tokens[t] + Policy[t].rps > Burst(t)
               THEN Burst(t) ELSE tokens[t] + Policy[t].rps

\* writeAudit: in shadow mode the wire decision is always forward.
WriteAudit(c, d, m) ==
  audit' = [audit EXCEPT ![c] = Append(@,
    IF Shadow THEN [decision |-> "forward", would |-> d, match |-> m]
              ELSE [decision |-> d, would |-> "none", match |-> m])]

Goto(c, label) == pc' = [pc EXCEPT ![c] = label]

\* buildEntry: synthesized_ack drops the response bytes.
BuildEntry(c, emb) ==
  [by |-> c, body |-> (outcome[c] \in {"ok", "text"} /\ ~Pol(c).ack),
   created |-> now, ttl |-> Pol(c).ttl, emb |-> emb, replays |-> 0]

\* renderReplayBody: stored bytes, or the synthesized acknowledgement.
RenderReplayBody(e) == IF e.body THEN "raw" ELSE "ack"

\* The Result a call's own forward() gives it.
ForwardResult(c, o) ==
  Answer("forward", "none", hash[c],
         IF o \in AllOutcomes \ {"error", "panic"} THEN c ELSE NoCall,
         IF o \in {"ok", "text", "fail", "failtext"} THEN "raw" ELSE "none",
         IF o \in {"error", "panic"} THEN o ELSE "none")

\* A failed store operation: a cancelled context, or the adapter's I/O.
StoreFails(c) == ctxDone[c] \/ "store" \in Faults

-----------------------------------------------------------------------------
Init ==
  /\ pc       = [c \in Calls |-> "idle"]
  /\ req      \in [Calls -> Requests]
  /\ hash     = [c \in Calls |-> NoHash]
  /\ ctxDone  = [c \in Calls |-> FALSE]
  /\ leader   = [c \in Calls |-> NoCall]
  /\ outcome  = [c \in Calls |-> "none"]
  /\ result   = [c \in Calls |-> NoResult]
  /\ audit    = [c \in Calls |-> <<>>]
  /\ entries  = [k \in Keys |->
                   IF k \in Seeded
                     THEN [by |-> NoCall, body |-> TRUE, created |-> 0,
                           ttl |-> Policy[k[1]].ttl, emb |-> TRUE, replays |-> 0]
                     ELSE NoEntry]
  /\ inflight = [h \in Hashes |-> NoCall]
  /\ handle   = [c \in Calls |-> "unset"]
  /\ done     = {}
  /\ tokens   = [t \in Tools |-> Burst(t)]
  /\ now      = 0
  /\ executed = {}
  /\ owed     = [c \in Calls |-> FALSE]

-----------------------------------------------------------------------------
(* The head of Apply: mode off, the ACL, the rate limit, analyse.          *)

\* Mode off: straight to forward(), no gate and no audit record.
ApplyOff(c) ==
  /\ pc[c] = "idle" /\ Pol(c).mode = "off"
  /\ Goto(c, "send")
  /\ UNCHANGED <<req, hash, ctxDone, leader, outcome, result, audit, entries,
                 flightVars, tokens, now, histVars>>

\* A mutant of Reject: shadow mode still rejects.
RejectInShadow(c, d) ==
  /\ WriteAudit(c, d, "none")
  /\ Goto(c, "returned")
  /\ result' = [result EXCEPT ![c] = Bare(d, "none", "none")]
  /\ UNCHANGED <<req, hash, ctxDone, leader, outcome, entries, flightVars,
                 tokens, now, histVars>>

\* A failed gate answers d, or in shadow mode only records it.
Reject(c, d) ==
  /\ WriteAudit(c, d, "none")
  /\ \/ Shadow /\ Goto(c, "send") /\ UNCHANGED result
     \/ /\ ~Shadow /\ Goto(c, "returned")
        /\ result' = [result EXCEPT ![c] = Bare(d, "none", "none")]
  /\ UNCHANGED <<req, hash, ctxDone, leader, outcome, entries, flightVars,
                 tokens, now, histVars>>

ApplyForbidden(c) ==
  /\ pc[c] = "idle" /\ Pol(c).mode # "off"
  /\ ~AllowsCaller(Tool(c), req[c].caller)
  /\ Reject(c, "forbidden")

ApplyRateLimited(c) ==
  /\ pc[c] = "idle" /\ Pol(c).mode # "off"
  /\ AllowsCaller(Tool(c), req[c].caller)
  /\ ~Allow(Tool(c))
  /\ Reject(c, "ratelimited")

\* The gates are passed and a token is spent.
PassGates(c) ==
  /\ pc[c] = "idle" /\ Pol(c).mode # "off"
  /\ AllowsCaller(Tool(c), req[c].caller)
  /\ Allow(Tool(c))
  /\ TakeToken(Tool(c))

\* analyse fails: the error goes back, nothing is audited.
ApplyBadBody(c) ==
  /\ PassGates(c)
  /\ req[c].body = BadBody
  /\ result' = [result EXCEPT ![c] = Bare("none", "none", "analyse")]
  /\ Goto(c, "returned")
  /\ UNCHANGED <<req, hash, ctxDone, leader, outcome, audit, entries,
                 flightVars, now, histVars>>

ApplyAnalysed(c) ==
  /\ PassGates(c)
  /\ req[c].body # BadBody
  /\ hash' = [hash EXCEPT ![c] = req[c].body]
  /\ owed' = [owed EXCEPT ![c] =
                Dedupes(Tool(c)) /\ Live(entries[<<Tool(c), req[c].body>>], now)]
  /\ Goto(c, "get")
  /\ UNCHANGED <<req, ctxDone, leader, outcome, result, audit, entries,
                 flightVars, now, executed>>

-----------------------------------------------------------------------------
(* decide, and the branch of Apply its decision takes.                     *)

\* A mutant of DecideForward: the record is written before coalescing settles
\* what happens (the order CHANGELOG.md reports as fixed).
DecideForwardAudited(c) ==
  /\ UNCHANGED result
  /\ WriteAudit(c, "forward", "none")
  /\ Goto(c, IF ~Shadow /\ Dedupes(Tool(c)) THEN "acquire" ELSE "send")

DecideForward(c) ==
  /\ UNCHANGED result
  /\ \/ Shadow /\ WriteAudit(c, "forward", "none") /\ Goto(c, "send")
     \/ ~Shadow /\ Dedupes(Tool(c)) /\ UNCHANGED audit /\ Goto(c, "acquire")
     \/ /\ ~Shadow /\ ~Dedupes(Tool(c))
        /\ WriteAudit(c, "forward", "none") /\ Goto(c, "send")

\* The entry under hash h answers the call: a block where a human must
\* confirm, a replay otherwise.
DecideHit(c, h, m) ==
  LET e       == entries[<<Tool(c), h>>]
      confirm == Pol(c).mode = "strict" /\ Pol(c).confirm
      d       == IF confirm THEN "block" ELSE "replay"
  IN  /\ WriteAudit(c, d, m)
      /\ \/ Shadow /\ Goto(c, "send") /\ UNCHANGED result
         \/ /\ ~Shadow
            /\ Goto(c, IF confirm THEN "returned" ELSE "increment")
            /\ result' = [result EXCEPT ![c] =
                 Answer(d, m, h, IF confirm THEN NoCall ELSE e.by,
                        IF confirm THEN "none" ELSE RenderReplayBody(e), "none")]

\* decide goes on to the semantic tier after an exact miss.
Searches(c) ==
  /\ Embedder /\ Dedupes(Tool(c))
  /\ Pol(c).threshold > 0 /\ hash[c] \notin NoIntent

Missed(c) ==
  \/ Searches(c) /\ Goto(c, "scan") /\ UNCHANGED <<audit, result>>
  \/ ~Searches(c) /\ DecideForward(c)

decideFrame == <<req, hash, ctxDone, leader, outcome, flightVars, tokens, now,
                 executed>>

GetError(c) ==
  /\ pc[c] = "get" /\ StoreFails(c)
  /\ DecideForward(c)
  /\ owed' = [owed EXCEPT ![c] = FALSE]
  /\ UNCHANGED <<entries, decideFrame>>

GetMiss(c) ==
  /\ pc[c] = "get" /\ ~ctxDone[c] /\ entries[Key(c)] = NoEntry
  /\ Missed(c)
  /\ UNCHANGED <<entries, owed, decideFrame>>

\* The expired entry is read under one lock and deleted under another.
GetExpired(c) ==
  /\ pc[c] = "get" /\ ~ctxDone[c] /\ entries[Key(c)] # NoEntry
  /\ Expired(entries[Key(c)], now)
  /\ Goto(c, "lazydel")
  /\ UNCHANGED <<audit, result, entries, owed, decideFrame>>

\* The second half of Get on an expired entry: whatever is there goes.
LazyDelete(c) ==
  /\ pc[c] = "lazydel"
  /\ entries' = Removed(entries, Key(c))
  /\ Missed(c)
  /\ UNCHANGED <<owed, decideFrame>>

\* A mutant of GetHit: an entry without response bytes counts as a miss.
GetHitWithBody(c) ==
  /\ pc[c] = "get" /\ ~ctxDone[c] /\ Live(entries[Key(c)], now)
  /\ \/ /\ Dedupes(Tool(c)) /\ entries[Key(c)].body
        /\ DecideHit(c, hash[c], "exact")
     \/ ~(Dedupes(Tool(c)) /\ entries[Key(c)].body) /\ DecideForward(c)
  /\ UNCHANGED <<entries, owed, decideFrame>>

\* log_only looks the key up and forwards whatever it finds.
GetHit(c) ==
  /\ pc[c] = "get" /\ ~ctxDone[c] /\ Live(entries[Key(c)], now)
  /\ \/ Dedupes(Tool(c)) /\ DecideHit(c, hash[c], "exact")
     \/ ~Dedupes(Tool(c)) /\ DecideForward(c)
  /\ UNCHANGED <<entries, owed, decideFrame>>

-----------------------------------------------------------------------------
(* semanticSearch: one Scan over the tool's live, embedded entries.        *)

\* A mutant of Candidates: the score is not compared with the threshold.
CandidatesAnyScore(c) ==
  {h \in Hashes :
     /\ Live(entries[<<Tool(c), h>>], now) /\ entries[<<Tool(c), h>>].emb}

\* A candidate whose vector Cosine cannot compare, or that is not closer than
\* nothing at all, is skipped.
Candidates(c) ==
  {h \in Hashes :
     /\ Live(entries[<<Tool(c), h>>], now) /\ entries[<<Tool(c), h>>].emb
     /\ Score[hash[c], h] > 0 /\ Score[hash[c], h] >= Pol(c).threshold}

\* The highest score wins; the scan's order, which is arbitrary, breaks ties.
Best(c) ==
  {h \in Candidates(c) :
     \A g \in Candidates(c) : Score[hash[c], h] >= Score[hash[c], g]}

\* No candidate, or the embedder or the scan failed.
ScanNothing(c) ==
  /\ pc[c] = "scan"
  /\ Best(c) = {} \/ StoreFails(c) \/ "embed" \in Faults
  /\ DecideForward(c)
  /\ UNCHANGED <<entries, owed, decideFrame>>

ScanHit(c) ==
  /\ pc[c] = "scan" /\ ~ctxDone[c]
  /\ \E h \in Best(c) : DecideHit(c, h, "semantic")
  /\ UNCHANGED <<entries, owed, decideFrame>>

\* IncrementReplay, whose failure only costs a metric.
IncrementReplay(c) ==
  /\ pc[c] = "increment"
  /\ \/ ~ctxDone[c] /\ entries' = Counted(entries, <<Tool(c), result[c].hash>>)
     \/ StoreFails(c) /\ UNCHANGED entries
  /\ Goto(c, "returned")
  /\ UNCHANGED <<audit, result, owed, decideFrame>>

-----------------------------------------------------------------------------
(* Coalescing: acquireLeader, waitForLeader, runLeader, releaseLeader.     *)

\* A mutant of Lead: the map is not looked up first.
LeadBlindly(c) ==
  /\ pc[c] = "acquire"
  /\ inflight' = [inflight EXCEPT ![hash[c]] = c]
  /\ leader' = [leader EXCEPT ![c] = c]
  /\ WriteAudit(c, "forward", "none")
  /\ Goto(c, "send")
  /\ UNCHANGED <<req, hash, ctxDone, outcome, result, entries, handle, done,
                 tokens, now, histVars>>

\* acquireLeader registers a new handle; the leader audits a forward.
Lead(c) ==
  /\ pc[c] = "acquire" /\ inflight[hash[c]] = NoCall
  /\ inflight' = [inflight EXCEPT ![hash[c]] = c]
  /\ leader' = [leader EXCEPT ![c] = c]
  /\ WriteAudit(c, "forward", "none")
  /\ Goto(c, "send")
  /\ UNCHANGED <<req, hash, ctxDone, outcome, result, entries, handle, done,
                 tokens, now, histVars>>

\* acquireLeader finds a sibling in flight.
Follow(c) ==
  /\ pc[c] = "acquire" /\ inflight[hash[c]] # NoCall
  /\ leader' = [leader EXCEPT ![c] = inflight[hash[c]]]
  /\ Goto(c, "wait")
  /\ UNCHANGED <<req, hash, ctxDone, outcome, result, audit, entries,
                 flightVars, tokens, now, histVars>>

\* What a waiter makes of a closed handle.  An unset handle would be the
\* silent zero Result.
CoalescedResult(c) ==
  LET l == leader[c]
      r == ForwardResult(l, outcome[l])
  IN  IF handle[l] = "error" THEN Bare("forward", "none", "leader")
      ELSE IF handle[l] = "result"
        THEN Answer("replay", "coalesced", r.hash, r.of, r.body, "none")
        ELSE Bare("replay", "coalesced", "none")

\* A mutant of WaitDone: the waiter goes by the handle, not by its channel.
WaitFilled(c) ==
  /\ pc[c] = "wait" /\ handle[leader[c]] # "unset"
  /\ LET r == CoalescedResult(c)
     IN  result' = [result EXCEPT ![c] = r] /\ WriteAudit(c, r.decision, r.match)
  /\ Goto(c, "returned")
  /\ UNCHANGED <<entries, owed, decideFrame>>

\* The leader has closed its handle: the waiter takes what is in it.
WaitDone(c) ==
  /\ pc[c] = "wait" /\ leader[c] \in done
  /\ LET r == CoalescedResult(c)
     IN  result' = [result EXCEPT ![c] = r] /\ WriteAudit(c, r.decision, r.match)
  /\ Goto(c, "returned")
  /\ UNCHANGED <<entries, owed, decideFrame>>

\* A mutant of WaitCancelled: the leaving waiter clears the map as well.
WaitCancelledReleases(c) ==
  /\ pc[c] = "wait" /\ ctxDone[c]
  /\ result' = [result EXCEPT ![c] = Bare("forward", "none", "ctx")]
  /\ WriteAudit(c, "forward", "none")
  /\ Goto(c, "returned")
  /\ inflight' = [inflight EXCEPT ![hash[c]] = NoCall]
  /\ UNCHANGED <<req, hash, ctxDone, leader, outcome, entries, handle, done,
                 tokens, now, histVars>>

WaitCancelled(c) ==
  /\ pc[c] = "wait" /\ ctxDone[c]
  /\ result' = [result EXCEPT ![c] = Bare("forward", "none", "ctx")]
  /\ WriteAudit(c, "forward", "none")
  /\ Goto(c, "returned")
  /\ UNCHANGED <<entries, owed, decideFrame>>

-----------------------------------------------------------------------------
(* doForward and shadowForward.                                            *)

Leads(c) == leader[c] = c

\* The request reaches the upstream, unless its context is already done or
\* the upstream cannot be dialled.
Send(c) ==
  /\ pc[c] = "send"
  /\ \/ ~ctxDone[c] /\ executed' = executed \cup {c}
     \/ (ctxDone[c] \/ "dial" \in Faults) /\ UNCHANGED executed
  /\ Goto(c, "upstream")
  /\ UNCHANGED <<req, hash, ctxDone, leader, outcome, result, audit, entries,
                 flightVars, tokens, now, owed>>

\* A mutant of Cacheable: every answer is written, whatever its status.
CacheableAnyStatus(c, o) ==
  hash[c] # NoHash /\ Dedupes(Tool(c)) /\ o \notin {"error", "panic"}

\* A 2xx answer to an analysed call of a strict or cache tool is written.
Cacheable(c, o) ==
  hash[c] # NoHash /\ Dedupes(Tool(c)) /\ o \in Success

\* What a handle holds once its leader's forward has returned o.
HandleOf(o) == IF o \in {"error", "panic"} THEN "error" ELSE "result"

\* A mutant of Finish: a panic is not captured on the handle.
FinishPanicUnset(c, o) ==
  \/ /\ Leads(c) /\ Goto(c, "release") /\ UNCHANGED result
     /\ handle' = [handle EXCEPT ![c] =
                     IF o = "panic" THEN "unset" ELSE HandleOf(o)]
  \/ /\ ~Leads(c) /\ Goto(c, "returned") /\ UNCHANGED handle
     /\ result' = [result EXCEPT ![c] = ForwardResult(c, o)]

\* A mutant of Finish: a panicking leader unwinds past releaseLeader.
FinishPanicLeaks(c, o) ==
  \/ /\ Leads(c) /\ o # "panic" /\ Goto(c, "release") /\ UNCHANGED result
     /\ handle' = [handle EXCEPT ![c] = IF o = "error" THEN "error" ELSE "result"]
  \/ /\ ~Leads(c) \/ o = "panic"
     /\ Goto(c, "returned") /\ UNCHANGED handle
     /\ result' = [result EXCEPT ![c] = ForwardResult(c, o)]

\* The end of doForward: the leader fills its handle and goes on to release
\* it; any other call returns.
Finish(c, o) ==
  \/ /\ Leads(c) /\ Goto(c, "release") /\ UNCHANGED result
     /\ handle' = [handle EXCEPT ![c] = HandleOf(o)]
  \/ /\ ~Leads(c) /\ Goto(c, "returned") /\ UNCHANGED handle
     /\ result' = [result EXCEPT ![c] = ForwardResult(c, o)]

\* forward() returns o.  A request that did not get there, or whose client
\* leaves, is answered by the gateway's own transport.
Upstream(c) ==
  /\ pc[c] = "upstream"
  /\ \E o \in (IF c \in executed THEN Outcomes ELSE {}) \cup
              (IF c \notin executed \/ ctxDone[c] THEN Unanswered ELSE {}) :
       /\ outcome' = [outcome EXCEPT ![c] = o]
       /\ \/ Cacheable(c, o) /\ Goto(c, "put") /\ UNCHANGED <<handle, result>>
          \/ ~Cacheable(c, o) /\ Finish(c, o)
  /\ UNCHANGED <<req, hash, ctxDone, leader, audit, entries, inflight, done,
                 tokens, now, histVars>>

\* store.Put of the answer, embedded when the semantic tier is on and the
\* embedder works; its failure only costs a metric.
Put(c) ==
  /\ pc[c] = "put"
  /\ \/ /\ ~ctxDone[c]
        /\ \E emb \in {Searches(c)} \cup
                      (IF "embed" \in Faults THEN {FALSE} ELSE {}) :
             entries' = Stored(entries, Key(c), BuildEntry(c, emb))
     \/ StoreFails(c) /\ UNCHANGED entries
  /\ Finish(c, outcome[c])
  /\ UNCHANGED <<req, hash, ctxDone, leader, outcome, audit, inflight, done,
                 tokens, now, histVars>>

\* releaseLeader, under inflightMu: only the leader's own handle is removed.
Release(c) ==
  /\ pc[c] = "release"
  /\ inflight' = IF inflight[hash[c]] = c
                   THEN [inflight EXCEPT ![hash[c]] = NoCall] ELSE inflight
  /\ Goto(c, "close")
  /\ UNCHANGED <<req, hash, ctxDone, leader, outcome, result, audit, entries,
                 handle, done, tokens, now, histVars>>

\* releaseLeader closes done; a captured panic is raised again.
Close(c) ==
  /\ pc[c] = "close"
  /\ done' = done \cup {c}
  /\ result' = [result EXCEPT ![c] = ForwardResult(c, outcome[c])]
  /\ Goto(c, "returned")
  /\ UNCHANGED <<req, hash, ctxDone, leader, outcome, audit, entries, inflight,
                 handle, tokens, now, histVars>>

-----------------------------------------------------------------------------
(* The surroundings: clock, clients, administrator, process.               *)

Tick ==
  /\ now < MaxTime
  /\ now' = now + 1
  /\ tokens' = [t \in Tools |-> Refill(t)]
  /\ owed' = [c \in Calls |-> owed[c] /\ Live(entries[Key(c)], now')]
  /\ UNCHANGED <<callVars, ctxDone, entries, flightVars, executed>>

Cancel(c) ==
  /\ "cancel" \in Faults /\ pc[c] \in Running /\ ~ctxDone[c]
  /\ ctxDone' = [ctxDone EXCEPT ![c] = TRUE]
  /\ owed' = [owed EXCEPT ![c] = FALSE]
  /\ UNCHANGED <<callVars, entries, flightVars, tokens, now, executed>>

\* DELETE of a fingerprint through the admin API.
AdminDelete(k) ==
  /\ "delete" \in Faults /\ entries[k] # NoEntry
  /\ entries' = Removed(entries, k)
  /\ owed' = [c \in Calls |-> owed[c] /\ Key(c) # k]
  /\ UNCHANGED <<callVars, ctxDone, flightVars, tokens, now, executed>>

\* The process dies and starts again over a durable or a lost store.
Restart ==
  /\ "crash" \in Faults
  /\ pc' = [c \in Calls |-> IF pc[c] \in Running THEN "dead" ELSE pc[c]]
  /\ inflight' = [h \in Hashes |-> NoCall]
  /\ tokens' = [t \in Tools |-> Burst(t)]
  /\ \/ UNCHANGED entries
     \/ entries' = [k \in Keys |-> NoEntry]
  /\ UNCHANGED <<req, hash, ctxDone, leader, outcome, result, audit, handle,
                 done, now, histVars>>

-----------------------------------------------------------------------------
Begin(c) ==
  \/ ApplyOff(c) \/ ApplyForbidden(c) \/ ApplyRateLimited(c)
  \/ ApplyBadBody(c) \/ ApplyAnalysed(c)

\* What the gateway's own goroutine does, given that it is scheduled.
Step(c) ==
  \/ GetError(c) \/ GetMiss(c) \/ GetExpired(c) \/ LazyDelete(c) \/ GetHit(c)
  \/ ScanNothing(c) \/ ScanHit(c) \/ IncrementReplay(c)
  \/ Lead(c) \/ Follow(c) \/ WaitDone(c) \/ WaitCancelled(c)
  \/ Send(c) \/ Put(c) \/ Release(c) \/ Close(c)

Next ==
  \/ \E c \in Calls : Begin(c) \/ Step(c) \/ Upstream(c) \/ Cancel(c)
  \/ \E k \in Keys : AdminDelete(k)
  \/ Tick
  \/ Restart

Spec == Init /\ [][Next]_vars

\* Goroutines are scheduled; the upstream may hang for ever.
GatewayFairSpec == Spec /\ \A c \in Calls : WF_vars(Step(c))

\* The upstream answers, too.
FairSpec == GatewayFairSpec /\ \A c \in Calls : WF_vars(Upstream(c))
=============================================================================
