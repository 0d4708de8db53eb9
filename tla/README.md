# A TLA+ verification of potent

potent is a gateway between an AI agent and the tools it calls. It recognises
a tool call that repeats an earlier one and answers it from a cache instead of
letting the side effect happen twice. This directory holds TLA+ models of its
concurrent parts, the TLC configurations that check them, and TLAPS proofs
of their safety properties. `PROJECT.json` ties every definition to the lines of Go it
models.

## 1. The system

| Component | Source | State | Operations | Modelled by |
|---|---|---|---|---|
| Idempotency pipeline | `internal/pipeline` | inflight map, rate limiters | `Apply`; `Lookup` and `Cache` (its halves for stdio) | `Pipeline`, `PipelineProperties`; `Lookup`/`Cache` in `Stdio` |
| Fingerprint store | `internal/store` | entries by tool and fingerprint | Get, Put, Delete, Scan, IncrementReplay, Compact; three adapters | `StoreOps`, `Store` |
| mcp-stdio adapter | `internal/mcp/stdio.go`, `jsonrpc.go` | pending and inflight maps | client pump, child pump, sweeper, Run | `Stdio` |
| Audit log | `internal/audit` | a channel and a goroutine per sink, the S3 buffer | Write, Close, the sinks' loops | `AuditSink` |
| OIDC verifier and its middleware | `internal/oidc`, `internal/auth` | the key cache | Refresh, Run, Verify | `Oidc` |
| HTTP and mcp-http adapters | `internal/proxy`, `internal/mcp/http.go` | none across requests | build `forward`, render a Result | `forward` in `Pipeline`, replies in `Adapters`; passthrough of other requests is not modelled |
| Policy | `internal/policy` | the parser's stack and Config; read-only after load | Load, Validate, For, AllowsCaller | `Policy`, `PolicyLoader`; AllowsCaller in `Pipeline` |
| Fingerprint, normalizer | `internal/fingerprint`, `internal/normalizer` | none | decode, normalise, select, hash | `Policy`; elsewhere a fingerprint is a model value |
| Admin API | `internal/admin` | none | list, show, DELETE | DELETE in `Pipeline` and `Store`; the reads change nothing |
| Process wiring | `cmd/potent` | resources, deferred calls, contexts | run, serveDual, runMCPStdio | `Process`; the stdio shutdown in `Stdio` |
| Static bearer tokens | `internal/auth` | none | compare a header | the middlewares and their choice in `Process` |
| Embedder | `internal/embed` | none | floating-point vectors, an HTTP call | not modelled: a similarity in percent, or a failure, in `Pipeline` |
| Tracing, metrics, potent-eval | | | observability, an offline tool | not modelled |

How they interact. An adapter calls `Pipeline.Apply(ctx, tool, caller, body,
forward)` in a goroutine per request. Apply checks the caller and the rate,
fingerprints the body, reads the store, and either answers (replay, block,
reject) or competes for the inflight map: the first call with a fingerprint
leads, forwards, stores the answer and closes its handle; the others wait on
that handle. The stdio adapter has its own pending and inflight maps over the
same store, because one pipe carries all requests. Each decision becomes an
audit record, which goes through a bounded channel to each sink's goroutine.
The stores are read and written by all of these, by the administrator and by a
compactor. The OIDC middleware sits in front of the HTTP adapters.

What is hard about it, and where the properties aim:

- concurrent duplicates, leaders that fail, panic or lose their client, and
  waiters that give up (`SingleFlight`, `WaitersAttached`, `InflightOwned`,
  `CallsReturn`);
- reads under one lock or transaction used after the next (`Memory.Get`,
  `Bolt.Compact`, `Postgres.Get`; `SafePutSurvives`, `OnlyExpiredRemoved`,
  `DuplicateSuppressed`);
- what may become a replay, and of what (`CacheHoldsAnswers`,
  `ReplayProvenance`);
- a crash between the upstream's answer and the Put;
- three goroutines over two maps in stdio, with timeouts that race late answers
  (`FlightOwned`, `CallsAccounted`, `RoutedAnswered`);
- channels closed under writers, batches lost at shutdown (`CloseDrains`,
  `AcceptedAccounted`, `UploadsApart`, `CloseReturns`);
- handlers still at work while the deferred calls close the audit log and the
  store, and a shutdown where something hangs (`HandlersUndisturbed`,
  `ExecutionsOnRecord`, `StopsInTime`);
- a hand-written parser whose blocks are kept by indentation, and a merge in
  which zero means unset (`ReadAsIndented`, `EffectiveAsWritten`,
  `FingerprintsTell`);
- answers of one call given to another, in frames that carry ids
  (`RepliesTellTheTruth`, `RepliesCorrelate`);
- keys rotated during verification (`CacheIsOneDocument`, `ServedBySeenKey`), and
  a start that must not serve strangers (`NoOpenProxy`).

The full list, each at its line, is `hazards` in `PROJECT.json`.

## 2. The modules

### StoreOps
An entry, its expiry and the pure effect of each store operation, shared by
`Pipeline` and `Store`.

### Pipeline
A call is one invocation of `Apply`. `pc[c]` says where it stands; an action
runs from one access of shared state to the next:

| pc | code | actions |
|---|---|---|
| idle | gates, `analyse` | ApplyOff, ApplyForbidden, ApplyRateLimited, ApplyBadBody, ApplyAnalysed |
| get, lazydel | `decide`: `store.Get` and its lazy delete | GetHit, GetMiss, GetExpired, LazyDelete, GetError |
| scan | `semanticSearch` | ScanHit, ScanNothing |
| increment | `IncrementReplay` on a replay | IncrementReplay |
| acquire, wait | `acquireLeader`, `waitForLeader` | Lead, Follow, WaitDone, WaitCancelled |
| send, upstream | `forward(ctx)` | Send, Upstream |
| put, release, close | `doForward`'s Put, `releaseLeader` | Put, Release, Close |

The environment is Tick (clock and limiter refill), Cancel (the client leaves),
AdminDelete and Restart (the process ends; the store survives, or is lost if it
was in memory). Responses are identified by the call whose
`forward` obtained them, so a replay carries its provenance. `Send` may fail to
reach the upstream (the `dial` fault), or the client may leave: then the
reverse proxy makes up a 502, which `forward` returns like an answer, and the
MCP client returns an error (`Unanswered`). A 502 is never cached, but the
leader's followers replay it: `ReplayProvenance` states that as the one answer no
upstream gave, and `RepliesTellTheTruth` does not take it for an execution.

Panics: `runLeader`'s deferred release runs on a panic, so a panicking leader
still fills, removes and closes its handle (`HandleOf`, `Finish`).

### PipelineProperties, MCPipeline
The properties, and the instances for TLC. The proofs about a component are in
modules of their own, which section 4 describes.

### Coalescing
The abstract specification of what both request paths promise: a set of running
executions, at most one per key, and calls that wait for one of them, take its
answer once it has ended, or leave. It knows no map, handle, channel or lock.
Two detailed specifications implement it:

- `Pipeline` (in `PipelineProperties`): what runs is what may reach the upstream
  (`Forwarding`), not what the inflight map holds; a waiter waits for the call
  whose handle it has; what it took is the provenance of its result.
- `Stdio`: what runs is what pending and inflight say is with the child; the
  waiters the child pump has collected and not yet answered still wait.

Leaders that panic, fail or lose their client end an execution like any other;
a timed-out flight of stdio is an `Abandon`, a restart is a `Die`.

### Adapters
What `Proxy.ServeHTTP` and `HTTPHandler.ServeHTTP` make of a Result: status,
`X-Potent-Status` and body, and for mcp-http the JSON-RPC id after
`reframeWithID`. Replies are functions of a returned call, so both adapters are
judged on the same behaviours of `Pipeline`. `reframeWithID` leaves the bytes
alone for a request without an id and for a body that is no JSON object;
otherwise it is modelled by what the round trip through `Message` keeps: the
acknowledgement has no member of a frame, and is hollow afterwards. The id in a
body an upstream wrote is that of the request it answered (`WrittenId`), so a
frame that is not reframed shows.

### Policy, PolicyLoader, MCPolicy
`Policy` is the effective policy of a tool (`For`) and what `analyse` does with
it: decode (an integer becomes the nearest float), normalise, select, hash. `PolicyLoader` is
the parser: one action per case of its switch, the stack of open blocks popped
by indentation, the error that ends it, the validation. The file is any
sequence of lines. The properties do not use the stack: they read a file off its
indentation (`Around`, `Home`, `BlockOf`, `Said`) and compare. A `rate_limit`
or `normalize` block of the defaults is filed under the tool named `""`, as in
the code. The key of a line ends at its first colon, the name of a tool before
the last one of its heading, so a tool's name may hold colons.
`EffectiveAsWritten` says which section decides each setting; it leaves open what
a section's own `ttl` or threshold of 0 means, on which code and documents
disagree (`ZeroDisablesSemantic`).

### Process, MCProcess
`Process` EXTENDS `AuditSink` and puts run() around it: `main` goes through the
stages of opening (each may fail, and what is open by then is closed again),
serves, and leaves through `defers`. A handler (`h`) passes the middleware,
reads the store, writes its record with AuditSink's own actions, goes to the
upstream and puts; a call of a tool in mode off goes to the upstream at once and
leaves no record (`Off`). The Close of Bolt and of the Postgres pool turns new
transactions away and then waits for the handlers that are in one (`Holding`);
that of the memory store does nothing. A signal ends serveDual's wait; before
that it is taken by the compactor's or the verifier's context and forgotten
(`SignalLost`), or, where there is neither, kills the process (`Kill`).
`forced` records that run() went on to its deferred calls with handlers at work:
the five seconds were over, or a listener failed. Handlers go on until the
process exits.

### Store
The three adapters; `adapter` is the one the process was started with. A mutex section, a bbolt transaction
and an SQL statement are atomic; Get's lazy delete, Postgres's background
DELETE (an orphan that may run any time later) and Bolt.Compact's two passes
are not. TTLs are truncated to milliseconds in Postgres (`StoredTTL`).

### Stdio
Client pump (`cp`), child pump (`pp`), sweeper (`sp`), the pending and inflight
maps, the child process and the client's pipe. Deadlines count down (`left`),
so no clock is needed. Frames of the child that are no responses pass through
and are left out. A lookup that misses the exact key may be answered from an
entry of the same tool whose intent is near enough (`Hits`, by the relation
`Similar` of each tool, which stands for embedder and threshold); which entry is
the best, and the races inside Lookup, are Pipeline's subject.

### AuditSink
Writers in `Writer.Write`, stopped between its two selects or blocked on a full
channel; the sinks' goroutines with failing I/O; `Close` sink by sink with a
context that may expire. S3 batches flush by size, by ticker and at the end,
under a key with the resolution of a second. An upload is a batch with the key it
went under. Records an I/O or encoding error costs are kept apart by what becomes
of them: the S3 sink logs the error (`failed`), the file sink drops the record
without a word (`dropped`), and its encoder, once a write has failed, drops every
later one (`stuck`).

### Oidc
The refresher (`loop`), the key cache, and requests that look a key up and check
the signature in separate steps while the provider rotates. A JWKS document is
a sequence of keys each of which parseJWKS takes, skips or fails on.

## 3. The runs

Passing (each cfg is run with its component's MC module):

| cfg | Properties | Shows |
|---|---|---|
| Pipeline_coalesce | TypeOK, SingleFlight, WaitersAttached, DuplicateSuppressed, RateBounded, AuditNeverHidesExecution, RepliesTellTheTruth, InflightOwned, ImplementsCoalescing | three concurrent calls of a strict, a cached and limited, and an off tool, cancellations and every outcome: one forward per flight, no stranded waiter, the map touched only by its owner, no execution past a cached answer or the limiter, none hidden from the audit log; what both adapters tell the client is true of the call, also when the upstream cannot be reached; Apply implements `Coalescing` |
| Pipeline_lifecycle | CacheHoldsAnswers, ReplayProvenance, RepliesCorrelate, FlightInv | expiry, paraphrases, store and embedder failures, deletes and restarts: the cache holds only successful answers to its own keys, and every replay is an answer to the same fingerprint or one the threshold accepts; mcp-http's frames carry the id of the request they answer |
| Pipeline_shadow | ShadowForwards | in shadow mode policy decisions do not show on the wire |
| Pipeline_liveness | CallsReturn | every started call returns |
| Store_adapters | TypeOK, SafePutSurvives, ExpiredReclaimed | for each adapter: an entry put with no delete of its key pending lives until it expires; on disk no expired entry stays for ever |
| Stdio_flights | TypeOK, FlightOwned, CallsAccounted, AnswersMatch | pending and inflight agree; no call is lost or answered twice, but for a leader the child answers after its timeout; a replay comes from the same tool and the same or near enough arguments, a fan-out reaches only calls of the leader's key |
| Stdio_liveness | RoutedAnswered, ImplementsCoalescing | with a timeout, every leader and waiter is answered whatever the child does; the pumps and the sweeper implement `Coalescing` |
| AuditSink_drain | TypeOK, AcceptedAccounted, CloseDrains, UploadsApart, CloseReturns | an accepted record is in the channel, the buffer, the file or an uploaded batch, or met an error, and is nowhere twice; an uploaded record stays in the bucket unless the sink takes another one in the second of its key; after a Close in time none is left waiting; Close returns, and frees blocked writers, though the I/O hangs |
| Oidc_rotation | CacheIsOneDocument, ServedBySeenKey, RotationPickedUp | the cache is one whole published document; a retired key lets no later request in; the refresher recovers from failures and catches up |
| Process_shutdown | HandlersUndisturbed, ExecutionsOnRecord, NoOpenProxy, StopsInTime | on an orderly shutdown no handler meets a closed log or store, and what was executed is on record, but for tools in mode off; no start serves strangers beyond loopback; once serveDual has taken a signal the process ends, unless a handler hangs inside the store |
| Policy_load | TypeOK, ReadAsIndented, EffectiveAsWritten, FingerprintsTell | an accepted file means what its indentation says; each setting of a tool is decided by the section that should decide it, and so are its fingerprints |

The type invariant of `Process` is in no run: `ProcessProofs.ProcTypeCorrect`
proves it.
Each module also holds, just before the definition it changes, a "mutant" of an
action for each property: the plausible bug that the property catches.

Disagreements between the code and what the repository says of it. TLC refutes
the stated property in each; the first one is listed as a finding, with the
quotation, in `PROJECT.json`, the others are kept as further configurations
(`Adapters_v`, `Policy_v`, `AuditSink_v_file` and `Process_v` refute several
each: run them with `-continue`):

| cfg | Property refuted | The code |
|---|---|---|
| Pipeline_v_confirm | ConfirmNeverReplays | answers a waiter of a confirm-on-replay tool with a replay (README: "never silently replay money") |
| Store_v_compact | OnlyExpiredRemoved | Bolt.Compact deletes an entry that was put after its read pass ("deletes those whose TTL has lapsed") |
| Stdio_v_off | OffBypasses | coalesces calls of off tools under the empty hash (operating.md: "bypass the pipeline entirely") |
| Pipeline_v_tool | CoalescedWithinTool | coalesces calls of different tools that share a fingerprint |
| Pipeline_v_race | NoLeaderOverLiveEntry | forwards again when a miss read before the Put reaches acquireLeader after the release ("siblings that arrive after this point hit the cache instead") |
| Pipeline_v_ack | AckHidesResponse | answers a waiter of a synthesized_ack tool with the raw response |
| Pipeline_v_audit | AuditedForwardHappened | audits a waiter of a failed leader as a forward |
| Pipeline_v_lazydelete | DuplicateSuppressed | loses a fresh entry to the lazy delete of the expired one, in Memory |
| Pipeline_v_shadow | ShadowForwardsEveryCall | does not forward, in shadow mode, a call whose body analyse rejects |
| Pipeline_v_hang | FollowersReleased | never releases followers of a hanging upstream in the HTTP modes (architecture.md: "rather than blocking indefinitely") |
| Store_v_async | OnlyExpiredRemoved | Postgres.Get's background DELETE removes a row that was put again |
| Stdio_v_shadow | ShadowForwardsToChild | coalesces pipelined duplicates in shadow mode |
| Stdio_v_rate | RateLimitedHeldBack | forwards a call the limiter refused |
| Stdio_v_run | RunEnds | Run does not return until the client closes its pipe |
| AuditSink_v_file | WriteNeverPanics | a Write may send on the channel Close has closed |
| AuditSink_v_file | SinksReport | the file sink drops what it cannot write without a log line (audit.go: sinks "are responsible for their own error reporting") |
| AuditSink_v_key | UploadsKept | two S3 uploads of one second share a key; also a tick's flush and the batch begun in the same second |
| Oidc_v_additions | AdditionsDontBreak | one key of an unknown curve fails the whole refresh ("so JWKS additions don't break us") |
| Adapters_v | ReplayLooksFresh | mcp-http replays every answer under status 200 (http.go: "cannot tell the cache hit from a fresh response besides the X-Potent-Status header") |
| Adapters_v | AckReachesClient | reframing leaves nothing of a synthesized acknowledgement |
| Policy_v | ZeroDisablesSemantic | takes a tool's threshold of 0 for unset (docs/eval/results.md: "exact only") |
| Policy_v | LoadedModesKnown | does not validate the mode of the defaults ("returns a validated Config") |
| Policy_v | DefaultRateHolds | files a rate limit of the defaults under the tool `""` |
| Policy_v | NumbersTold | hashes numbers beyond 2^53 as equal floats ("Different values, different hashes") |
| Process_v | SignalHeeded | forgets a SIGTERM that comes while the start is between the compactor and serveDual |
| Process_v | EveryExecutionLogged | serves requests without a record after a listener failed (blog-post.md: "JSONL audit log of every decision") |

Two things that look like disagreements and are documented: the audit log's
backpressure on the request path, and that mcp-stdio has no access lists. The
races of `v_lazydelete` and `v_race` are why `DuplicateSuppressed` is checked
for answers that do not expire, and speaks of calls that arrived after the Put.

### Bounds
- Three calls are enough for a leader, a waiter and a late arrival, and for two
  waiters of one leader. `lifecycle` takes two: its interest is one call, and
  what another left in the store, against expiry, deletes, failures and
  restarts. Two or three tools and one or two fingerprints give every relation between
  two calls (same tool or not, same fingerprint or not, paraphrase or not).
- `MaxTime` exceeds the longest TTL used in a run, so that entries expire and are
  put again. Where it is 0 the question is about a single instant.
- `Store`: two clients, since every race is between one stale delete and one Put;
  `MaxTime` covers put, expiry, second put, second expiry.
- `Stdio`: three ids give a leader, a waiter and a call of another kind; two
  fingerprints are paraphrases of each other for two tools.
- `AuditSink`: two writers over channels of capacity 1 and batches of two fill a
  channel, block a writer, fill a batch and leave a partial one.
- `Oidc`: requests share only the cache and never write it, so one connection
  with repeated requests suffices; two rotations retire a key and bring it back.
- `Policy`: six lines out of fourteen reach a tool's second section, a block in a
  section in `tools`, and lines that fit in several places; `Mantissa` 2 puts
  the edge of exact floats between the two numbers of the bodies.
- `Process`: two handlers, one of which can be at work while the other blocks
  on the log; one S3 sink of capacity 1. Six setups: three that the start
  refuses, one that serves pipes, one open on loopback, one with a verifier
  on every address, over Postgres and with a compactor. Failing I/O is left to `AuditSink_drain`; here it is slow.
- Symmetry is used over calls, clients, ids and writers, in safety runs only.
- Runs whose system may stop (all calls returned, Run returned, log closed)
  set `CHECK_DEADLOCK FALSE`.

### Fairness
- `Pipeline.GatewayFairSpec`: weak fairness of each call's own steps: goroutines
  are scheduled and mutexes are held briefly. `FairSpec` adds that the upstream
  answers, which no code guarantees; `CallsReturn` needs it, and `v_hang` shows
  what happens without.
- `Store.FairSpec`: RunCompactor's ticker keeps firing; strong fairness of the
  write pass because a restart may interrupt it.
- `Stdio.FairSpec`: the pumps, the sweeper and the clock run. Nothing is assumed
  of the client or the child, except that the child ends once its stdin is closed
  or its context cancelled (exec.CommandContext).
- `AuditSink.SlowSpec`: writers and Close run and Close's context expires; nothing
  is assumed of the sinks' I/O.
- `Process.ProcFairSpec`: run() goes on, and its two deadlines pass; nothing is
  assumed of the upstream, the handlers, a scrape or the I/O, and hence nothing
  of a Close of the store that waits for a handler. `StopsInTime` starts where
  serveDual has taken a signal: one that comes earlier may be lost, and
  mcp-stdio, which waits for its client (`Stdio_v_run`), is left out.
- `Oidc.FairSpec`: the refresher runs, its HTTP client's timeout ends each fetch,
  and a provider asked again and again answers again and again.

## 4. The proofs

Eight modules hold theorems. Each is proved for every value of the constants:
any calls, tools, fingerprints, policies, requests, sinks, capacities, timeouts,
outcomes and faults. The only assumptions are the named `ASSUME`s of the
component's module: types of the constants, positive sizes, and sentinels that
differ from what they stand beside.

| Module | Theorems about a property some run checks | Rest on |
|---|---|---|
| CoalescingProofs | OnePerKey and SharedWithinKey of the abstract specification | CoalescingInv |
| PipelineProofs, coalescing | TypeOK, SingleFlight, WaitersAttached, InflightOwned | FlightInv |
| PipelineProofs, what a call leaves behind | AuditNeverHidesExecution, ShadowForwards, RepliesTellTheTruth, RepliesCorrelate, CacheHoldsAnswers, ReplayProvenance, RateBounded, DuplicateSuppressed | TrailInv, SourceInv |
| PipelineProofs, refinement | ImplementsCoalescing | RefinementInv |
| StoreProofs | TypeOK, SafePutSurvives; and SafeRemovals | SafeInv |
| StdioProofs | TypeOK, FlightOwned, CallsAccounted, AnswersMatch, ImplementsCoalescing | StdioInv |
| AuditSinkProofs | TypeOK, AcceptedAccounted, CloseDrains, UploadsApart | AuditInv |
| OidcProofs | CacheIsOneDocument, ServedBySeenKey | OidcInv |
| ProcessProofs | HandlersUndisturbed, ExecutionsOnRecord, NoOpenProxy | ProcInv |
| PolicyProofs | TypeOK, ReadAsIndented, EffectiveAsWritten, FingerprintsTell | PolicyInv |

**FlightInv (coalescing in Apply).** `SingleFlight` alone is not inductive: from
"no two duplicates are forwarding" nothing follows about what `Lead` finds in
the map. `FlightInv` adds what relates calls and map. `LeadersAreInflight` says
the map holds exactly the leaders between acquire and release, so `Lead`, which
requires an empty slot, cannot create a second one. `CallsInOrder` says what a
call holds at each stage: no handle before acquire, a filled one from release
on, and that outside shadow mode a call of a deduplicating tool forwards only
as a leader, which turns the statement about leaders into one about executions.
`WaitersAttached` says a waiter's leader is on its way to closing the handle or
has filled and closed it. The type part is proved action by action; the rest
through lemmas about kinds of moves (`StandStill`, `QuietMove`, `LeadLinks`,
`FollowLinks`, `FlightMove`, `ReleaseLinks`, `CloseLinks`, `RestartLinks`).

**TrailInv and SourceInv (what a call leaves behind).** The properties speak of
returned calls; `Trail(c)` says, for every place in Apply, which records c has
written, whether it reached the upstream and what it was given. It is about one
call at a time, so a step is judged by what it does to its own call
(`OthersKept`). `SourceInv` adds what passes between calls: entries, replays and
coalesced answers are traced to the execution they came from. `RateBounded` is
proved by a sum over tools of admissions, tokens and refills that no step
raises. `DuplicateSuppressed` is proved under the hypothesis that no tool has a
TTL, and `KeptAnswersSuppress`, without hypothesis, for each tool that has none:
with a TTL it is false, as `Pipeline_v_lazydelete.cfg` shows.

**SafeInv (store).** That a safely put entry survives is not inductive; that in
addition no delete decided on an older entry is pending is. `SafeRemovals` is
the action property behind it: only the administrator, or the end of a process
that holds its store in memory, removes a safe key's entry.

**StdioInv (mcp-stdio).** `Standing(i)` lists where a routed call can be
between the two pumps and the sweeper, with how many answers and whether the
child may still answer it; it contains the late answer that races its timeout,
which is the one way to a second answer. `Maps` says that pending, inflight and
the waiters' lists agree; `Matches`, that keys, cached answers and answers on
their way belong together. `CallsAccounted` follows by counting
(`PlacesCounted`).

**AuditInv (audit log).** A ledger per sink: what was accepted is in the
channel, in the buffer or settled, each record in one column and once, and the
cardinalities add up. For `UploadsApart` the invariant adds what the
bucket and the open batch hold of the records taken so far (`Window`):
the open batch began no later than its records, and no earlier than anything
uploaded before it. `ClosedInTime` is the order of Close: a sink whose
goroutine has returned holds nothing and takes nothing any more.

**OidcInv.** What Refresh has read is a published document no older than the
cached one; the key a request holds comes from a document that was cached after
the request began.

**ProcInv.** Every step of the process is a step of the audit log or leaves it
alone, so `AuditInv` holds within the process. `ProcLinks` ties the phase of
run() to what is open, who is at work and what is still deferred.

**PolicyInv (the loader).** The parser keeps a stack; `ReadAsIndented` speaks of
the lines a line is indented under, and says nothing about stacks, so it is not
inductive. `Standing` adds which line opened each block on the stack. The parser
accepts so little that there are four cases: nothing read; `tools:` open; a
tool's section open, perhaps with a block in it; `defaults:` open, perhaps with
a block. In each of them the lines after the one that opened a block are
indented further, so what the next line is indented under is what is left of
the stack after the pops (`Located`). What an older line is indented under
never changes (`Homes`: a line belongs to a section that an earlier line heads),
so one more line changes what the file says of one key of one section at most,
and the Config in the same place. The second conjunct of `PolicyInv` is a fact
about the code worth knowing: the `normalize` of the defaults is always empty,
since the parser files it under the tool `""`. `EffectiveAsWritten` follows from
the merge: of the values a tool may inherit only an empty text and a 0 are zero
values (`ZeroValues`).

`FingerprintsTell` says in addition what the transforms do, for lists of any
length and order. `Apply` is a fold, hence a recursion over data. It is unrolled
(`ApplyRuns`) into the run of values it goes through; that such a run exists,
and that two strings stay in step along it (`PairApplied`), is shown without an
induction scheme: the set of positions where it fails would have a least
element (`LeastNat`, from the well-foundedness of the naturals).

The assumptions: a line has an indentation, a key and a text (`LineAssumption`);
bodies bind fields to strings and numbers in the form decoding gives them
(`BodyAssumption`); and no tool is called `""` (`ToolAssumption`). The last one
is needed: with a tool of that name the blocks of the defaults would be its
section. Any other name is allowed, `tools` and `normalize`
included.

**CoalescingInv (the abstract specification).** What `Coalescing` promises whoever
implements it: `OnePerKey` and `SharedWithinKey`. The invariant adds that who
waits, waits for another call with its own key. Both implementations meet the
two hypotheses, that no call is `NoCall` and no key `NoKey`, by their `ASSUME`s.

**The refinements.** That `Pipeline` and `Stdio` implement `Coalescing` is
proved step by step from their invariants:

| Coalescing | Pipeline | Stdio |
|---|---|---|
| Start | Lead | Lead |
| Join | Follow | Join |
| End | Release | Collect |
| Take, Leave | WaitDone, WaitCancelled | FanOut (all waiters at once) |
| Abandon | | Sweep |
| Die | Restart | |

Every other step leaves the mapped state as it is. `Coalescing` has no fairness,
so the refinement is a safety statement.

Only model-checked:

- liveness (`CallsReturn`, `ExpiredReclaimed`, `RoutedAnswered`, `CloseReturns`,
  `RotationPickedUp`, `StopsInTime`): fairness and ENABLED are outside the
  prover's reach;
- the disagreements of section 3, where a counterexample is the result.

## 5. Plan

Done, in this order: `StoreOps`, `Pipeline` with its proofs, `Store`, `Stdio`,
`AuditSink`, `Oidc`; then `Coalescing` and its two implementations, `Adapters`,
`Policy` and `PolicyLoader`, and `Process` composed with `AuditSink`;
then the proofs of section 4, component by component, the two refinements, and
the loader and the fingerprints. Every invariant and action property of a run is
a theorem, `DuplicateSuppressed` under the hypothesis section 4 names.

Left:

1. `Replicas`: two pipelines over one Postgres store, where concurrent
   duplicates on two replicas both execute.
2. The HTTP embedder's discovery of its dimension.

## 6. Running

    tlc -workers 2 -config Pipeline_coalesce.cfg MCPipeline
    tlapm PipelineProofs.tla      (and the other modules named *Proofs)

Each cfg is run with the MC module of its component.

## 7. Not modelled

Metrics, logs and traces; the bytes of requests, responses and keys; JSON,
YAML, SQL and HTTP syntax; TLS; the evaluation tool. A body's fields are strings
and integers: nested values are hashed as they are, and neither normalised nor
selected from. The embedder is floating-point arithmetic and an HTTP call; its
result is a similarity in percent or a failure. Requests that are no tool calls
pass through the adapters without touching state, and are left out. One process
is modelled; the documents promise a shared cache between replicas, not shared
coalescing.
