------------------------------- MODULE Stdio -------------------------------
(***************************************************************************)
(* The mcp-stdio adapter (internal/mcp/stdio.go): two pumps and a sweeper  *)
(* that share the pending and inflight maps of StdioHandler.               *)
(*                                                                         *)
(* The client pump reads a request, asks Pipeline.Lookup, and answers it,  *)
(* attaches it to a forward already in flight, or makes it a leader and    *)
(* writes it to the child.  The child pump turns each answer of the child  *)
(* into a cache write and a fan-out to the leader's waiters.  The sweeper  *)
(* times out what the child has not answered.  An action is what a         *)
(* goroutine does between two points where another one can interfere.      *)
(* Lookup answers from the exact entry or, where it misses, from one of    *)
(* the entries near enough; which of those is best, and the races inside   *)
(* Lookup and Cache, are Pipeline's subject.                               *)
(***************************************************************************)
EXTENDS Naturals, Sequences, FiniteSets

CONSTANTS
  Ids,        \* JSON-RPC request ids, each used once by the client
  Tools,
  Hashes,     \* fingerprints
  BadArgs,    \* arguments analyse rejects
  NoTool,     \* the "tool" of a frame that is not a well-formed tools/call
  Mode,       \* the mode of each tool
  Similar,    \* per tool, the pairs of fingerprints whose intents reach its
              \* semantic_threshold; none where the threshold is 0
  Confirm,    \* tools with require_human_confirm_on_replay
  Closed,     \* tools whose allowed_callers excludes the anonymous caller
  Limited,    \* tools with a rate limit
  Requests,   \* what the client may send
  Shadow,     \* WithShadow
  Faults,     \* what may go wrong, a subset of AllFaults
  Timeout,    \* requestTimeout in clock units, 0 for never
  NoId, NoHash

AllFaults == {"store", "embed", "forget", "exit", "cancel", "eof"}

RequestSet == [tool : Tools \cup {NoTool}, args : Hashes \cup {BadArgs}]

\* What the inflight map is keyed by: Result.Hash, "" where Lookup left it so.
FlightKeys == Hashes \cup {NoHash}

\* The key of an id that is in neither map.
Untracked == "untracked"

ASSUME ToolAssumption ==
  /\ Mode \in [Tools -> {"strict", "cache", "log_only", "off"}]
  /\ Similar \in [Tools -> SUBSET (Hashes \X Hashes)]
  /\ Confirm \subseteq Tools /\ Closed \subseteq Tools /\ Limited \subseteq Tools
  /\ Shadow \in BOOLEAN

ASSUME InputAssumption ==
  Requests \subseteq RequestSet /\ Faults \subseteq AllFaults /\ Timeout \in Nat

ASSUME SentinelAssumption ==
  /\ NoId \notin Ids /\ NoHash \notin Hashes /\ BadArgs \notin Hashes
  /\ NoTool \notin Tools
  /\ Untracked \notin FlightKeys

VARIABLES
  unread,    \* requests the client has not sent yet
  req,       \* the request under each id
  cp,        \* the client pump: where it is, with which id and Result.Hash
  pending,   \* the ids in StdioHandler.pending
  key,       \* the inflight key of each id once routed, Untracked before
  left,      \* clock units to each pending call's deadline
  flights,   \* the keys in StdioHandler.inflight
  waiters,   \* the waiters of each flight
  child,     \* requests in the child's hands
  up,        \* whether the child runs
  pp,        \* the child pump: where it is, with which answer and waiters
  sp,        \* ids the sweeper has taken out and not yet notified
  cache,     \* the store: whose answer each key holds
  answers,   \* the frames written to the client under each id, in order
  cancelled, \* Run's context
  eof,       \* whether the client has closed its pipe
  running    \* whether Run has not returned

vars == <<unread, req, cp, pending, key, left, flights, waiters, child, up, pp,
          sp, cache, answers, cancelled, eof, running>>

mapVars == <<pending, key, left, flights, waiters>>
envVars == <<req, cancelled, eof, running>>

Keys == Tools \X Hashes

Reading  == [at |-> "read", id |-> NoId, hash |-> NoHash]
Scanning == [at |-> "scan", id |-> NoId, waiters |-> {}]

Frame(kind, of) == [kind |-> kind, of |-> of]

Frames == [kind : {"own", "replay", "coalesced", "blocked", "timeout"},
           of : Ids \cup {NoId}]

\* writeClient of one frame to each id of S.
WriteClient(S, kind, of) ==
  answers' = [i \in Ids |-> IF i \in S THEN Append(answers[i], Frame(kind, of))
                                       ELSE answers[i]]

-----------------------------------------------------------------------------
Init ==
  /\ unread = Ids
  /\ req \in [Ids -> Requests]
  /\ cp = Reading
  /\ pending = {}
  /\ key = [i \in Ids |-> Untracked]
  /\ left = [i \in Ids |-> 0]
  /\ flights = {}
  /\ waiters = [h \in FlightKeys |-> {}]
  /\ child = {} /\ up = TRUE
  /\ pp = Scanning /\ sp = {}
  /\ cache = [k \in Keys |-> NoId]
  /\ answers = [i \in Ids |-> <<>>]
  /\ cancelled = FALSE /\ eof = FALSE /\ running = TRUE

-----------------------------------------------------------------------------
(* pumpClientToChild: one line of input, and Pipeline.Lookup on it.        *)

\* The pump has scanned the frame with id i.
Scans(i) ==
  /\ running /\ ~eof /\ cp.at = "read" /\ i \in unread
  /\ unread' = unread \ {i}

\* The gates of Lookup that return an empty hash: mode off, a caller that is
\* not allowed, a limiter that may be out of tokens.
GateStops(t) == Mode[t] = "off" \/ t \in Closed \/ t \in Limited

GatePasses(t) == Mode[t] # "off" /\ t \notin Closed

\* A frame that is no tools/call, or whose arguments analyse rejects, goes to
\* the child and is not tracked.
PassThrough(i) ==
  /\ Scans(i)
  /\ \/ req[i].tool = NoTool
     \/ req[i].tool # NoTool /\ GatePasses(req[i].tool) /\ req[i].args = BadArgs
  /\ cp' = [at |-> "write", id |-> i, hash |-> NoHash]
  /\ UNCHANGED <<mapVars, child, up, pp, sp, cache, answers, envVars>>

\* A Result without a hash.  Forbidden and rate-limited are no cases of the
\* pump's switch: they share the default branch with forward.
LookupGated(i) ==
  /\ Scans(i)
  /\ req[i].tool # NoTool /\ GateStops(req[i].tool)
  /\ cp' = [at |-> "route", id |-> i, hash |-> NoHash]
  /\ UNCHANGED <<mapVars, child, up, pp, sp, cache, answers, envVars>>

Analysed(i) ==
  /\ Scans(i)
  /\ req[i].tool # NoTool /\ req[i].args # BadArgs /\ GatePasses(req[i].tool)

\* The fingerprints whose entry decide may answer i from: its own, or, where
\* the exact key misses, those semanticSearch finds.  Shadow mode overrules it.
Hits(i) ==
  LET t    == req[i].tool
      held == {h \in Hashes : cache[<<t, h>>] # NoId}
  IN  IF Mode[t] \notin {"strict", "cache"} \/ Shadow THEN {}
      ELSE IF req[i].args \in held THEN {req[i].args}
      ELSE {h \in held : <<req[i].args, h>> \in Similar[t]}

\* A miss, or a Get or a Scan that fails; where only the semantic tier could
\* hit, also an embedder that fails now or failed when the entry was stored.
LookupForward(i) ==
  /\ Analysed(i)
  /\ \/ Hits(i) = {} \/ "store" \in Faults \/ cancelled
     \/ "embed" \in Faults /\ req[i].args \notin Hits(i)
  /\ cp' = [at |-> "route", id |-> i, hash |-> req[i].args]
  /\ UNCHANGED <<mapVars, child, up, pp, sp, cache, answers, envVars>>

\* A mutant of LookupReplay: the entry is found by its fingerprint alone.
LookupReplayAnyTool(i) ==
  /\ Analysed(i)
  /\ \E t \in Tools : /\ cache[<<t, req[i].args>>] # NoId
                      /\ WriteClient({i}, "replay", cache[<<t, req[i].args>>])
  /\ UNCHANGED <<cp, mapVars, child, up, pp, sp, cache, envVars>>

\* A replay or a block is answered at once.
LookupReplay(i) ==
  /\ Analysed(i)
  /\ ~(Mode[req[i].tool] = "strict" /\ req[i].tool \in Confirm)
  /\ \E h \in Hits(i) : WriteClient({i}, "replay", cache[<<req[i].tool, h>>])
  /\ UNCHANGED <<cp, mapVars, child, up, pp, sp, cache, envVars>>

LookupBlock(i) ==
  /\ Analysed(i) /\ Hits(i) # {}
  /\ Mode[req[i].tool] = "strict" /\ req[i].tool \in Confirm
  /\ WriteClient({i}, "blocked", NoId)
  /\ UNCHANGED <<cp, mapVars, child, up, pp, sp, cache, envVars>>

\* Under mu: a flight with the same key takes the request as a waiter.
Join ==
  /\ cp.at = "route" /\ cp.hash \in flights
  /\ key' = [key EXCEPT ![cp.id] = cp.hash]
  /\ waiters' = [waiters EXCEPT ![cp.hash] = @ \cup {cp.id}]
  /\ cp' = Reading
  /\ UNCHANGED <<unread, pending, left, flights, child, up, pp, sp, cache,
                 answers, envVars>>

\* A mutant of Lead: the inflight map is not looked up first.
LeadBlindly ==
  /\ cp.at = "route"
  /\ key' = [key EXCEPT ![cp.id] = cp.hash]
  /\ pending' = pending \cup {cp.id}
  /\ left' = [left EXCEPT ![cp.id] = Timeout]
  /\ flights' = flights \cup {cp.hash}
  /\ waiters' = [waiters EXCEPT ![cp.hash] = {}]
  /\ cp' = [cp EXCEPT !.at = "write"]
  /\ UNCHANGED <<unread, child, up, pp, sp, cache, answers, envVars>>

\* A mutant of Lead: the deadline is one unit more than the timeout away.
LeadLate ==
  /\ cp.at = "route" /\ cp.hash \notin flights
  /\ key' = [key EXCEPT ![cp.id] = cp.hash]
  /\ pending' = pending \cup {cp.id}
  /\ left' = [left EXCEPT ![cp.id] = Timeout + 1]
  /\ flights' = flights \cup {cp.hash}
  /\ waiters' = [waiters EXCEPT ![cp.hash] = {}]
  /\ cp' = [cp EXCEPT !.at = "write"]
  /\ UNCHANGED <<unread, child, up, pp, sp, cache, answers, envVars>>

\* Under mu: no such flight, the request becomes its leader.
Lead ==
  /\ cp.at = "route" /\ cp.hash \notin flights
  /\ key' = [key EXCEPT ![cp.id] = cp.hash]
  /\ pending' = pending \cup {cp.id}
  /\ left' = [left EXCEPT ![cp.id] = Timeout]
  /\ flights' = flights \cup {cp.hash}
  /\ waiters' = [waiters EXCEPT ![cp.hash] = {}]
  /\ cp' = [cp EXCEPT !.at = "write"]
  /\ UNCHANGED <<unread, child, up, pp, sp, cache, answers, envVars>>

\* writeLine to the child, whose error is ignored.
WriteChild ==
  /\ cp.at = "write"
  /\ child' = IF up THEN child \cup {cp.id} ELSE child
  /\ cp' = Reading
  /\ UNCHANGED <<unread, mapVars, up, pp, sp, cache, answers, envVars>>

-----------------------------------------------------------------------------
(* pumpChildToClient and maybeCacheResponse.                               *)

\* The child answers i and the pump takes the frame: a pending call leaves
\* the map, any other answer is passed on as it is.
Respond(i) ==
  /\ up /\ pp.at = "scan" /\ i \in child
  /\ child' = child \ {i}
  /\ pp' = [at |-> IF i \in pending THEN "cache" ELSE "fanout", id |-> i,
            waiters |-> {}]
  /\ pending' = pending \ {i}
  /\ UNCHANGED <<unread, cp, key, left, flights, waiters, up, sp, cache,
                 answers, envVars>>

\* Pipeline.Cache, with the status 200, outside the lock.  It analyses the
\* arguments again, so that a call routed without a hash is stored too.
CacheResponse ==
  /\ pp.at = "cache"
  /\ LET r == req[pp.id]
         writes == Mode[r.tool] \in {"strict", "cache"} /\ r.args # BadArgs
     IN  \/ writes /\ cache' = [cache EXCEPT ![<<r.tool, r.args>>] = pp.id]
         \/ (~writes \/ "store" \in Faults) /\ UNCHANGED cache
  /\ pp' = [pp EXCEPT !.at = "collect"]
  /\ UNCHANGED <<unread, cp, mapVars, child, up, sp, answers, envVars>>

\* A mutant of Collect: the flight stays open for later duplicates.
CollectKeepsFlight ==
  /\ pp.at = "collect"
  /\ pp' = [pp EXCEPT !.at = "fanout",
                      !.waiters = IF key[pp.id] \in flights
                                    THEN waiters[key[pp.id]] ELSE {}]
  /\ waiters' = [waiters EXCEPT ![key[pp.id]] = {}]
  /\ UNCHANGED <<unread, cp, pending, key, left, flights, child, up, sp, cache,
                 answers, envVars>>

\* Under mu again: the flight is closed and its waiters are taken.
Collect ==
  /\ pp.at = "collect"
  /\ pp' = [pp EXCEPT !.at = "fanout",
                      !.waiters = IF key[pp.id] \in flights
                                    THEN waiters[key[pp.id]] ELSE {}]
  /\ flights' = flights \ {key[pp.id]}
  /\ waiters' = [waiters EXCEPT ![key[pp.id]] = {}]
  /\ UNCHANGED <<unread, cp, pending, key, left, child, up, sp, cache, answers,
                 envVars>>

\* The answer goes to its own id and, reframed, to each waiter.
FanOut ==
  /\ pp.at = "fanout"
  /\ answers' = [i \in Ids |->
       IF i = pp.id THEN Append(answers[i], Frame("own", i))
       ELSE IF i \in pp.waiters
         THEN Append(answers[i], Frame("coalesced", pp.id)) ELSE answers[i]]
  /\ pp' = Scanning
  /\ UNCHANGED <<unread, cp, mapVars, child, up, sp, cache, envVars>>

-----------------------------------------------------------------------------
(* sweepExpired and expireAt.                                              *)

\* The clock; a deadline is past when nothing is left.
Tick ==
  /\ running /\ \E i \in pending : left[i] > 0
  /\ left' = [i \in Ids |-> IF i \in pending /\ left[i] > 0 THEN left[i] - 1
                                                            ELSE left[i]]
  /\ UNCHANGED <<unread, cp, pending, key, flights, waiters, child, up, pp, sp,
                 cache, answers, envVars>>

Overdue == {i \in pending : left[i] = 0}

\* A mutant of Sweep: the waiters are not notified with their leader.
SweepLeadersOnly ==
  /\ running /\ ~cancelled /\ Timeout > 0 /\ sp = {} /\ Overdue # {}
  /\ sp' = Overdue
  /\ pending' = pending \ Overdue
  /\ flights' = flights \ {key[i] : i \in Overdue}
  /\ waiters' = [h \in FlightKeys |->
                   IF \E i \in Overdue : key[i] = h THEN {} ELSE waiters[h]]
  /\ UNCHANGED <<unread, cp, key, left, child, up, pp, cache, answers, envVars>>

\* A mutant of Sweep: the flight of an overdue leader stays in the map.
SweepKeepsFlight ==
  /\ running /\ ~cancelled /\ Timeout > 0 /\ sp = {} /\ Overdue # {}
  /\ sp' = Overdue \cup UNION {waiters[key[i]] : i \in Overdue}
  /\ pending' = pending \ Overdue
  /\ waiters' = [h \in FlightKeys |->
                   IF \E i \in Overdue : key[i] = h THEN {} ELSE waiters[h]]
  /\ UNCHANGED <<unread, cp, key, left, flights, child, up, pp, cache, answers,
                 envVars>>

\* Under mu: every overdue leader leaves with its flight and its waiters.
Sweep ==
  /\ running /\ ~cancelled /\ Timeout > 0 /\ sp = {} /\ Overdue # {}
  /\ sp' = Overdue \cup
           UNION {waiters[key[i]] : i \in {j \in Overdue : key[j] \in flights}}
  /\ pending' = pending \ Overdue
  /\ flights' = flights \ {key[i] : i \in Overdue}
  /\ waiters' = [h \in FlightKeys |->
                   IF \E i \in Overdue : key[i] = h THEN {} ELSE waiters[h]]
  /\ UNCHANGED <<unread, cp, key, left, child, up, pp, cache, answers, envVars>>

\* After the unlock: the timeout errors.
Notify ==
  /\ sp # {}
  /\ WriteClient(sp, "timeout", NoId)
  /\ sp' = {}
  /\ UNCHANGED <<unread, cp, mapVars, child, up, pp, cache, envVars>>

-----------------------------------------------------------------------------
(* The surroundings: store, child, process, client.                        *)

\* An entry expires or is deleted.
Forget(k) ==
  /\ "forget" \in Faults /\ cache[k] # NoId
  /\ cache' = [cache EXCEPT ![k] = NoId]
  /\ UNCHANGED <<unread, cp, mapVars, child, up, pp, sp, answers, envVars>>

\* The client pump has ended, which closes the child's stdin.
PumpEnded == eof /\ cp.at = "read"

\* The child exits, of itself or because its stdin was closed.
ChildExit ==
  /\ up
  /\ "exit" \in Faults \/ PumpEnded
  /\ up' = FALSE /\ child' = {}
  /\ UNCHANGED <<unread, cp, mapVars, pp, sp, cache, answers, envVars>>

\* A signal cancels Run's context, which kills the child and ends the sweeper.
Cancel ==
  /\ "cancel" \in Faults /\ running /\ ~cancelled
  /\ cancelled' = TRUE /\ up' = FALSE /\ child' = {}
  /\ UNCHANGED <<unread, req, cp, mapVars, pp, sp, cache, answers, eof, running>>

\* The client closes its pipe; the pump ends after the line it is on.
Eof ==
  /\ "eof" \in Faults /\ running /\ ~eof
  /\ eof' = TRUE
  /\ UNCHANGED <<unread, req, cp, mapVars, child, up, pp, sp, cache, answers,
                 cancelled, running>>

\* wg.Wait: both pumps have ended.  Run stops the sweeper and returns.
Return ==
  /\ running /\ PumpEnded /\ ~up /\ pp.at = "scan"
  /\ running' = FALSE
  /\ UNCHANGED <<unread, req, cp, mapVars, child, up, pp, sp, cache, answers,
                 cancelled, eof>>

-----------------------------------------------------------------------------
ClientPump ==
  \/ \E i \in Ids : \/ PassThrough(i) \/ LookupGated(i) \/ LookupForward(i)
                    \/ LookupReplay(i) \/ LookupBlock(i)
  \/ Join \/ Lead \/ WriteChild

\* What the child pump does with an answer it holds.
ChildPump == CacheResponse \/ Collect \/ FanOut

Sweeper == Sweep \/ Notify

Next ==
  \/ ClientPump
  \/ ChildPump
  \/ \E i \in Ids : Respond(i)
  \/ Tick \/ Sweeper
  \/ \E k \in Keys : Forget(k)
  \/ ChildExit \/ Cancel \/ Eof \/ Return

Spec == Init /\ [][Next]_vars

\* Goroutines are scheduled and time passes.  Nothing is assumed of the
\* client; the child may leave requests unanswered and its stdin unread, but
\* exits once its stdin is closed.
FairSpec ==
  /\ Spec
  /\ WF_vars(Join \/ Lead) /\ WF_vars(WriteChild /\ ~up) /\ WF_vars(ChildPump)
  /\ WF_vars(Tick) /\ WF_vars(Sweep) /\ WF_vars(Notify)
  /\ WF_vars(ChildExit /\ PumpEnded) /\ WF_vars(Return)

-----------------------------------------------------------------------------
(* Properties.                                                             *)

TypeOK ==
  /\ unread \subseteq Ids /\ pending \subseteq Ids /\ child \subseteq Ids
  /\ req \in [Ids -> Requests]
  /\ cp \in [at : {"read", "route", "write"}, id : Ids \cup {NoId},
             hash : FlightKeys]
  /\ key \in [Ids -> FlightKeys \cup {Untracked}]
  /\ left \in [Ids -> 0..Timeout]
  /\ flights \subseteq FlightKeys /\ waiters \in [FlightKeys -> SUBSET Ids]
  /\ pp \in [at : {"scan", "cache", "collect", "fanout"}, id : Ids \cup {NoId},
             waiters : SUBSET Ids]
  /\ sp \subseteq Ids
  /\ cache \in [Keys -> Ids \cup {NoId}]
  /\ answers \in [Ids -> Seq(Frames)]
  /\ {up, cancelled, eof, running} \subseteq BOOLEAN

\* Whose forward a flight stands for: pending calls, and the one whose answer
\* the child pump is caching.
Leaders(h) ==
  {i \in pending : key[i] = h} \cup
  (IF pp.at \in {"cache", "collect"} /\ key[pp.id] = h THEN {pp.id} ELSE {})

\* The two maps agree: a flight has exactly one leader, a key without a flight
\* has none, and no waiter is left on a key without a flight.
FlightOwned ==
  \A h \in FlightKeys :
    /\ Cardinality(Leaders(h)) = IF h \in flights THEN 1 ELSE 0
    /\ h \notin flights => waiters[h] = {}

\* The places where a call that has been read and not answered can be.
Places(i) ==
  Cardinality({h \in FlightKeys : i \in waiters[h]}) +
  Cardinality({p \in {"cp", "pending", "pp", "waiter", "sp"} :
    \/ p = "cp" /\ cp.at = "route" /\ cp.id = i
    \/ p = "pending" /\ i \in pending
    \/ p = "pp" /\ pp.at # "scan" /\ pp.id = i
    \/ p = "waiter" /\ i \in pp.waiters
    \/ p = "sp" /\ i \in sp})

\* No call is lost or answered twice: a call the maps track is in one place
\* until its one answer is written.  The exception the code allows is a
\* leader that timed out and that the child answers late, after or while the
\* error is written.
CallsAccounted ==
  \A i \in Ids :
    key[i] # Untracked =>
      \/ Places(i) + Len(answers[i]) = 1
      \/ /\ Places(i) + Len(answers[i]) = 2
         /\ i \in sp \/ \E n \in DOMAIN answers[i] : answers[i][n].kind = "timeout"
         /\ pp.id = i \/ \E n \in DOMAIN answers[i] : answers[i][n].kind = "own"

\* Whether the answer to request r serves q too: the same tool, and arguments
\* with one fingerprint or near enough for that tool.
Near(r, q) ==
  /\ r.tool = q.tool
  /\ r.args = q.args \/ <<q.args, r.args>> \in Similar[q.tool]

\* Whose answer a call may get in place of its own.  A replay comes from a
\* call of the same tool whose arguments have the same fingerprint or are near
\* enough for that tool; a waiter of a flight with a fingerprint gets the
\* answer of a call with that very fingerprint, never a merely similar one.
\* (Calls routed without a hash share one key, whatever they ask.)
AnswersMatch ==
  \A i \in Ids :
    \A n \in DOMAIN answers[i] :
      LET f == answers[i][n]
      IN  /\ f.kind = "replay" => Near(req[f.of], req[i])
          /\ f.kind = "coalesced" => key[f.of] = key[i]
          /\ f.kind = "coalesced" /\ key[i] # NoHash => req[f.of].args = req[i].args

\* With a request timeout, every call that became a leader or a waiter gets an
\* answer, whatever the child does, unless Run is being stopped.
RoutedAnswered ==
  Timeout > 0 =>
    \A i \in Ids :
      key[i] # Untracked ~> answers[i] # <<>> \/ cancelled \/ ~running

-----------------------------------------------------------------------------
(* The two pumps implement the abstract specification of coalescing.       *)

\* Whom the waiters of key h wait for.
LeaderOf(h) == IF Leaders(h) = {} THEN NoId ELSE CHOOSE i \in Leaders(h) : TRUE

\* The execution whose answer waiter i was given.
Taken(i) ==
  LET given == {n \in DOMAIN answers[i] : answers[i][n].kind = "coalesced"}
  IN  IF given = {} THEN NoId ELSE answers[i][CHOOSE n \in given : TRUE].of

Flights == INSTANCE Coalescing WITH
  Calls   <- Ids,
  Keys    <- FlightKeys,
  NoCall  <- NoId,
  NoKey   <- Untracked,
  running <- UNION {Leaders(h) : h \in FlightKeys},
  key     <- key,
  waits   <- [i \in Ids |->
                IF i \in pp.waiters THEN pp.id
                ELSE IF \E h \in FlightKeys : i \in waiters[h]
                  THEN LeaderOf(key[i]) ELSE NoId],
  took    <- [i \in Ids |-> Taken(i)]

\* Every step of the pumps and the sweeper is one Coalescing allows: a key has
\* one open flight at a time, a duplicate joins it while it is open, takes its
\* leader's answer once it is closed, or is given up with it.  A leader swept
\* for its timeout may still be with the child when the next one is sent.
ImplementsCoalescing == Flights!CoalescingSpec

-----------------------------------------------------------------------------
(* What the documentation says and the code does not do.                   *)

\* operating.md: off is to "bypass the pipeline entirely".  A call of such a
\* tool is answered by the child and by nobody else's answer.
OffBypasses ==
  \A i \in Ids :
    req[i].tool \in Tools /\ Mode[req[i].tool] = "off" =>
      \A n \in DOMAIN answers[i] : answers[i][n].kind # "coalesced"

\* Lookup: "In shadow mode the mcp-stdio adapter must always forward to the
\* child server".
ShadowForwardsToChild ==
  Shadow =>
    \A i \in Ids :
      \A n \in DOMAIN answers[i] : answers[i][n].kind # "coalesced"

\* policy.go, RateLimit: it "caps the rate at which tool calls reach the
\* upstream".  A call the limiter refused (the only way a call of such a tool
\* comes by an empty hash) is not handed to the child.
RateLimitedHeldBack ==
  \A i \in child :
    key[i] = NoHash /\ ~Shadow => ~GatePasses(req[i].tool)

\* Run: frames are pumped "until ctx is cancelled or either side closes its
\* pipe".
RunEnds == cancelled \/ ~up ~> ~running
=============================================================================
