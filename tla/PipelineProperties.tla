------------------------- MODULE PipelineProperties -------------------------
(***************************************************************************)
(* What Pipeline promises: type, safety, action and liveness properties,   *)
(* and, at the end, what the documentation says and the code does not do.  *)
(***************************************************************************)
EXTENDS Pipeline

\* Every variable of the pipeline keeps its type.
TypeOK ==
  /\ pc \in [Calls -> Running \cup {"idle", "returned", "dead"}]
  /\ req \in [Calls -> Requests]
  /\ hash \in [Calls -> Hashes \cup {NoHash}]
  /\ ctxDone \in [Calls -> BOOLEAN]
  /\ leader \in [Calls -> Writers]
  /\ outcome \in [Calls -> AllOutcomes \cup {"none"}]
  /\ result \in [Calls -> Results]
  /\ audit \in [Calls -> Seq(AuditRecords)]
  /\ entries \in [Keys -> Entries \cup {NoEntry}]
  /\ inflight \in [Hashes -> Writers]
  /\ handle \in [Calls -> {"unset", "result", "error"}]
  /\ done \subseteq Calls
  /\ tokens \in [Tools -> Nat]
  /\ now \in Nat
  /\ executed \subseteq Calls
  /\ owed \in [Calls -> BOOLEAN]

\* A call that may reach, or has reached, the upstream and has not settled.
Forwarding(c) == pc[c] \in {"send", "upstream", "put", "release"}

\* Two concurrent duplicates of strict or cache tools are never both between
\* acquireLeader and releaseLeader: the upstream works on one of them.
SingleFlight ==
  ~Shadow =>
    \A c, d \in Calls :
      ( /\ Forwarding(c) /\ Dedupes(Tool(c))
        /\ Forwarding(d) /\ Dedupes(Tool(d))
        /\ hash[c] = hash[d] ) => c = d

\* The calls that hold a fingerprint but no handle yet.
Undecided == {"get", "lazydel", "scan", "increment", "acquire"}

\* The inflight map and the leaders are two views of one thing: a leader
\* between acquireLeader and releaseLeader is what the map holds under its
\* fingerprint, and the map holds nothing else.
LeadersAreInflight ==
  /\ \A c \in Calls : Forwarding(c) /\ Leads(c) =>
       hash[c] \in Hashes /\ inflight[hash[c]] = c
  /\ \A h \in Hashes : inflight[h] # NoCall =>
       LET l == inflight[h] IN Forwarding(l) /\ hash[l] = h /\ Leads(l)

\* Where a call stands tells what it holds.
CallsInOrder ==
  \A c \in Calls :
    /\ pc[c] \in Undecided \cup {"idle"} => leader[c] = NoCall
    /\ pc[c] \in Undecided \cup {"wait"} => hash[c] \in Hashes
    /\ pc[c] \in {"release", "close"} =>
         Leads(c) /\ handle[c] = HandleOf(outcome[c])
    /\ ~Shadow /\ Forwarding(c) /\ Dedupes(Tool(c)) => Leads(c)
    /\ c \in done => pc[c] = "returned" /\ handle[c] = HandleOf(outcome[c])

\* A waiter's leader is still on its way to close(done), or has closed it
\* after filling the handle with what its forward returned: nobody waits on
\* a handle that no one will close, and nobody reads an unfilled one.
WaitersAttached ==
  \A c \in Calls :
    pc[c] = "wait" =>
      LET l == leader[c] IN
      /\ l \in Calls /\ l # c /\ Leads(l) /\ hash[l] = hash[c]
      /\ l \in done \/ Forwarding(l) \/ pc[l] = "close"
      /\ l \in done => handle[l] = HandleOf(outcome[l])

\* The inductive invariant behind SingleFlight, WaitersAttached and
\* InflightOwned.
FlightInv == TypeOK /\ LeadersAreInflight /\ CallsInOrder /\ WaitersAttached

\* What the store holds was answered 2xx by the upstream to a call with
\* exactly that tool and fingerprint, and holds no response bytes of a
\* synthesized_ack tool.
CacheHoldsAnswers ==
  \A k \in Keys :
    entries[k] # NoEntry =>
      LET w == entries[k].by IN
      \/ w = NoCall /\ k \in Seeded
      \/ /\ w \in executed /\ Key(w) = k /\ outcome[w] \in Success
         /\ Pol(w).ack => ~entries[k].body

\* A replayed call did not execute, and its answer is the upstream's answer to
\* a call with the same fingerprint, or, in the semantic tier, to one of the
\* same tool at or above the threshold.  Only a waiter can be handed an answer
\* no upstream gave: the reverse proxy's own 502, of a leader whose client had
\* left or whose dial failed.
ReplayProvenance ==
  \A c \in Calls :
    result[c].decision = "replay" =>
      LET o == result[c].of
          h == result[c].hash
          cached == \/ o = NoCall /\ <<Tool(c), h>> \in Seeded
                    \/ /\ o \in executed /\ Key(o) = <<Tool(c), h>>
                       /\ outcome[o] \in Success
      IN  /\ c \notin executed
          /\ result[c].match = "exact" => h = hash[c] /\ cached
          /\ result[c].match = "semantic" =>
               Score[hash[c], h] >= Pol(c).threshold /\ cached
          /\ result[c].match = "coalesced" =>
               /\ o \in Calls \ {c} /\ hash[o] = hash[c]
               /\ o \in executed \/ outcome[o] = "badgateway"

\* A returned call left exactly one audit record (none in mode off or for a
\* body analyse rejects), and a call whose request reached the upstream is
\* never audited as anything but a forward.
AuditNeverHidesExecution ==
  \A c \in Calls :
    /\ pc[c] = "returned" =>
         Len(audit[c]) = IF Pol(c).mode = "off" \/ result[c].err = "analyse"
                           THEN 0 ELSE 1
    /\ c \in executed /\ Pol(c).mode # "off" =>
         Len(audit[c]) = 1 /\ audit[c][1].decision = "forward"

\* A call that arrived while a live entry held its answer, and kept it, does
\* not reach the upstream again (README, "the email does NOT get sent again").
DuplicateSuppressed == ~Shadow => \A c \in executed : ~owed[c]

\* In shadow mode no policy decision shows on the wire: a returned call whose
\* body parses was forwarded, and what it returns is what its own forward gave
\* it, from the upstream unless the gateway heard nothing from there.
ShadowForwards ==
  Shadow =>
    \A c \in Calls :
      pc[c] = "returned" /\ result[c].err # "analyse" =>
        /\ result[c] = ForwardResult(c, outcome[c])
        /\ outcome[c] # "none"
        /\ c \in executed \/ outcome[c] \in Unanswered

\* The calls of a tool that passed its rate limit.
Admitted(t) ==
  {c \in Calls : /\ pc[c] # "idle" /\ Tool(c) = t
                 /\ AllowsCaller(t, req[c].caller)
                 /\ \A i \in DOMAIN audit[c] :
                      "ratelimited" \notin {audit[c][i].decision, audit[c][i].would}}

\* Over any time the limiter admits at most its burst and the refill.
RateBounded ==
  "crash" \notin Faults =>
    \A t \in Tools :
      Policy[t].rps > 0 /\ Policy[t].mode # "off" =>
        Cardinality(Admitted(t)) <= Burst(t) + Policy[t].rps * now

\* An entry of the inflight map is only ever removed, never replaced, and
\* only by its own leader's release (or by the end of the process).
InflightOwned ==
  [][\A h \in Hashes :
       inflight[h] # NoCall /\ inflight'[h] # inflight[h] =>
         /\ inflight'[h] = NoCall
         /\ \/ pc[inflight[h]] = "release" /\ pc'[inflight[h]] = "close"
            \/ pc'[inflight[h]] = "dead"]_vars

\* Under fair scheduling and an upstream that answers, every call returns: no
\* leader's failure or panic leaves a waiter behind.
CallsReturn ==
  \A c \in Calls : pc[c] \in Running ~> pc[c] \in {"returned", "dead"}

-----------------------------------------------------------------------------
(* Apply implements the abstract specification of coalescing.  The mapping *)
(* does not mention the inflight map: what executes is what may reach the  *)
(* upstream, and what was taken is what a waiter returns.                  *)

Flights == INSTANCE Coalescing WITH
  Keys    <- Hashes,
  NoKey   <- NoHash,
  running <- {c \in Calls : Forwarding(c) /\ Dedupes(Tool(c)) /\ ~Shadow},
  key     <- [c \in Calls |-> IF leader[c] = NoCall THEN NoHash ELSE hash[c]],
  waits   <- [c \in Calls |-> IF pc[c] = "wait" THEN leader[c] ELSE NoCall],
  took    <- [c \in Calls |-> IF result[c].match = "coalesced"
                                THEN result[c].of ELSE NoCall]

\* Every step of Apply's coalescing is one Coalescing allows: a call executes
\* only if no other executes its fingerprint, and a waiter joins an execution
\* under way and takes that one's answer only once it has ended.
ImplementsCoalescing == Flights!CoalescingSpec

-----------------------------------------------------------------------------
(* What the documentation says and the code does not do.                   *)

\* pipeline_test.go: calls "with the same body and tool" share one forward.
\* A waiter is answered with the response of a call of its own tool.
CoalescedWithinTool ==
  \A c \in Calls :
    result[c].match = "coalesced" => Tool(result[c].of) = Tool(c)

\* releaseLeader: "siblings that arrive after this point hit the cache
\* instead".  No leader sets out while a live entry holds its answer.
NoLeaderOverLiveEntry ==
  \A c \in Calls :
    pc[c] = "send" /\ Leads(c) => ~Live(entries[Key(c)], now)

\* README, policy example: "never silently replay money".
ConfirmNeverReplays ==
  \A c \in Calls :
    Pol(c).mode = "strict" /\ Pol(c).confirm => result[c].decision # "replay"

\* policy.go: on replay "potent returns a generated acknowledgement".
AckHidesResponse ==
  \A c \in Calls :
    Pol(c).ack /\ result[c].decision = "replay" => result[c].body # "raw"

\* Apply: the audit log shows no "forward that never happened".
AuditedForwardHappened ==
  \A c \in Calls :
    \A i \in DOMAIN audit[c] :
      pc[c] = "returned" /\ audit[c][i].decision = "forward" => c \in executed

\* WithShadow: "In shadow mode every tool call is forwarded to upstream".
ShadowForwardsEveryCall ==
  Shadow => \A c \in Calls :
              pc[c] = "returned" /\ ~ctxDone[c] => c \in executed

\* architecture.md: followers are released "rather than blocking
\* indefinitely", whatever the upstream does.
FollowersReleased == \A c \in Calls : pc[c] = "wait" ~> pc[c] # "wait"
=============================================================================
