------------------------------ MODULE Process -------------------------------
(***************************************************************************)
(* The process around the gateway (cmd/potent): run() opens its resources  *)
(* one after the other and defers their release, serveDual serves requests *)
(* and shuts the servers down on a signal, and the deferred calls run in   *)
(* the reverse order while handlers may still be at work.  Composes with   *)
(* AuditSink: a handler writes its record through the audit log's Writer,  *)
(* and the deferred Close is AuditSink's.                                  *)
(*                                                                         *)
(* A handler is a request of its own fingerprint: it leads, or is answered *)
(* from the cache.  Coalescing is Pipeline's subject.                      *)
(***************************************************************************)
EXTENDS AuditSink, SequencesExt

CONSTANT Setups   \* command lines and environments the process is started with

\* Among others the host of -addr, what the file of -api-tokens-file holds, and
\* whether -bolt-compact-interval is positive.
ASSUME SetupAssumption ==
  Setups \subseteq [mode : {"http", "mcp-stdio"},
                    host : {"127.0.0.1", "::1", "localhost", "[::1]", "0.0.0.0", ""},
                    token : BOOLEAN, tokens : {"absent", "empty", "some"},
                    oidc : BOOLEAN, admin : {"absent", "bare", "token"},
                    store : {"memory", "bolt", "postgres"}, compact : BOOLEAN]

VARIABLES
  setup,     \* the one this process has
  main,      \* where run() is: a stage, or the phases of serving and leaving
  defers,    \* the deferred calls, the next one first
  storeOpen, \* the store takes Puts
  listening, \* the proxy's listener accepts
  over,      \* serveDual's five seconds
  h,         \* where each handler is
  told,      \* history: a SIGTERM or SIGINT has come
  forced,    \* history: run() left serveDual with handlers at work
  strangers, \* history: handlers that got in without credentials
  ran,       \* history: handlers that reached the upstream
  lost       \* history: handlers whose Put found the store closed

procVars == <<setup, main, defers, storeOpen, listening, over, h, told, forced,
              strangers, ran, lost>>

allVars == <<vars, procVars>>

ProcInit ==
  /\ Init
  /\ setup \in Setups
  /\ main = "tokens" /\ defers = <<>>
  /\ storeOpen = FALSE /\ listening = FALSE /\ over = FALSE
  /\ told = FALSE /\ forced = FALSE
  /\ h = [w \in Writers |-> "none"]
  /\ strangers = {} /\ ran = {} /\ lost = {}

-----------------------------------------------------------------------------
(* run(): the stages of the start, in order.                               *)

Stages == <<"tokens", "upstream", "policy", "store", "compactor", "embedder",
            "audit", "admin", "exposure", "oidc", "tls", "serve">>

After(stage) ==
  Stages[(CHOOSE i \in DOMAIN Stages : Stages[i] = stage) + 1]

\* What a stage defers once it has succeeded.
Deferred(stage) ==
  IF \/ stage \in {"store", "audit"}
     \/ stage = "compactor" /\ setup.compact
     \/ stage = "oidc" /\ setup.oidc
    THEN <<stage>> ELSE <<>>

\* The hosts isLoopbackBind knows, which are not all there are.
IsLoopbackBind == setup.host \in {"127.0.0.1", "::1", "localhost"}

\* loadAPITokens returns a map with something in it.
HasTokens == setup.tokens = "some"

\* A mutant of Authenticated: naming a tokens file is enough.
AuthenticatedByFile == setup.token \/ setup.tokens # "absent" \/ setup.oidc

\* The credentials main looks for before it listens on every interface.
Authenticated == setup.token \/ HasTokens \/ setup.oidc

\* The two stages that refuse a setup; the others fail on the outside world.
Refused(stage) ==
  \/ stage = "admin" /\ setup.admin = "bare"
  \/ stage = "exposure" /\ setup.mode = "http" /\ ~Authenticated /\ ~IsLoopbackBind

MayFail == {"tokens", "upstream", "policy", "store", "embedder", "audit", "oidc", "tls"}

Succeed ==
  /\ main \in ToSet(Stages) \ {"serve"} /\ ~Refused(main)
  /\ main' = After(main)
  /\ defers' = Deferred(main) \o defers
  /\ storeOpen' = (storeOpen \/ main = "store")
  /\ UNCHANGED <<vars, setup, listening, over, h, told, forced, strangers, ran, lost>>

\* An error of a stage returns from run(), through the deferred calls.
Fail ==
  /\ main \in MayFail \/ Refused(main)
  /\ main' = "leaving"
  /\ UNCHANGED <<vars, setup, defers, storeOpen, listening, over, h, told, forced,
                 strangers, ran, lost>>

\* runHTTP and runMCPHTTP come to serveDual, runMCPStdio to the pumps.
Serve ==
  /\ main = "serve"
  /\ main' = IF setup.mode = "http" THEN "serving" ELSE "piping"
  /\ listening' = (setup.mode = "http")
  /\ UNCHANGED <<vars, setup, defers, storeOpen, over, h, told, forced, strangers, ran, lost>>

\* StdioHandler.Run returns.
PipesEnd ==
  /\ main = "piping"
  /\ main' = "leaving"
  /\ UNCHANGED <<vars, setup, defers, storeOpen, listening, over, h, told, forced,
                 strangers, ran, lost>>

-----------------------------------------------------------------------------
(* The handlers.                                                           *)

Ended == main \in {"exited", "killed"}

Alive == ~Ended

Active == {w \in Writers : h[w] \in {"get", "audit", "upstream", "put", "bypass"}}

\* The handlers that are in a transaction, or hold a connection, of the store.
Holding == {w \in Writers : h[w] \in {"get", "put"}}

\* The calls of tools in mode off, which never come to the audit or the store.
Off == {w \in Writers : h[w] \in {"bypass", "passed"}}

(* The three middlewares, given a request with credentials they know or    *)
(* one without.  An empty token or map lets everyone in.                   *)

RequireBearer(known) == ~setup.token \/ known

RequireBearerCallers(known) == ~HasTokens \/ known

RequireBearerVerifier(known) == known

\* The one that Handler() puts in front of the adapter.
Admits(known) ==
  CASE setup.oidc -> RequireBearerVerifier(known)
    [] ~setup.oidc /\ HasTokens -> RequireBearerCallers(known)
    [] ~setup.oidc /\ ~HasTokens -> RequireBearer(known)

\* A request arrives, with credentials or without, and comes to Apply: a call of
\* a tool in mode off goes to the upstream at once; one that the ACL or the
\* limiter holds back, or that finds the store closed, goes on to the audit.
Arrive(w) ==
  /\ Alive /\ listening /\ h[w] = "none"
  /\ \E known \in BOOLEAN :
       \/ /\ ~Admits(known) /\ h' = [h EXCEPT ![w] = "refused"]
          /\ UNCHANGED <<strangers, ran>>
       \/ /\ Admits(known)
          /\ \E to \in {"get", "audit", "bypass"} :
               /\ to = "get" => storeOpen
               /\ h' = [h EXCEPT ![w] = to]
               /\ ran' = IF to = "bypass" THEN ran \cup {w} ELSE ran
          /\ strangers' = IF known THEN strangers ELSE strangers \cup {w}
  /\ UNCHANGED <<vars, setup, main, defers, storeOpen, listening, over, told, forced, lost>>

\* The store answers the lookup.
Got(w) ==
  /\ Alive /\ h[w] = "get"
  /\ h' = [h EXCEPT ![w] = "audit"]
  /\ UNCHANGED <<vars, setup, main, defers, storeOpen, listening, over, told, forced,
                 strangers, ran, lost>>

\* The audit record is written; a panic in Write ends the handler, and with it
\* nobody releases the handle it leads under.
Audit(w) ==
  /\ Alive /\ h[w] = "audit" /\ WriterStep(w)
  /\ h' = IF wr'[w].at = "panicked" THEN [h EXCEPT ![w] = "panicked"] ELSE h
  /\ UNCHANGED <<setup, main, defers, storeOpen, listening, over, told, forced, strangers,
                 ran, lost>>

\* A replay or a block ends here; a leader goes to the upstream.
Audited(w) ==
  /\ Alive /\ h[w] = "audit" /\ wr[w].at = "returned"
  /\ \/ h' = [h EXCEPT ![w] = "done"] /\ UNCHANGED ran
     \/ h' = [h EXCEPT ![w] = "upstream"] /\ ran' = ran \cup {w}
  /\ UNCHANGED <<vars, setup, main, defers, storeOpen, listening, over, told, forced,
                 strangers, lost>>

\* The upstream's answer: only a successful one is put, and the Put into a closed
\* store returns an error, which is counted and no more.
Answered(w) ==
  /\ Alive /\ h[w] = "upstream"
  /\ \/ h' = [h EXCEPT ![w] = "done"] /\ UNCHANGED lost
     \/ storeOpen /\ h' = [h EXCEPT ![w] = "put"] /\ UNCHANGED lost
     \/ ~storeOpen /\ h' = [h EXCEPT ![w] = "done"] /\ lost' = lost \cup {w}
  /\ UNCHANGED <<vars, setup, main, defers, storeOpen, listening, over, told, forced,
                 strangers, ran>>

\* The answer to a call of a tool in mode off is passed on.
PassedOn(w) ==
  /\ Alive /\ h[w] = "bypass"
  /\ h' = [h EXCEPT ![w] = "passed"]
  /\ UNCHANGED <<vars, setup, main, defers, storeOpen, listening, over, told, forced,
                 strangers, ran, lost>>

\* The store has done with a Put.
Put(w) ==
  /\ Alive /\ h[w] = "put"
  /\ h' = [h EXCEPT ![w] = "done"]
  /\ UNCHANGED <<vars, setup, main, defers, storeOpen, listening, over, told, forced,
                 strangers, ran, lost>>

-----------------------------------------------------------------------------
(* serveDual's end.                                                        *)

\* A listener fails, the metrics' or the proxy's own, and no server is shut down.
ListenerFails ==
  /\ main = "serving"
  /\ main' = "leaving"
  /\ listening' \in BOOLEAN
  /\ forced' = (listening' \/ Active # {})
  /\ UNCHANGED <<vars, setup, defers, storeOpen, over, h, told, strangers, ran, lost>>

\* A mutant of Signal: the store is closed before the servers are drained.
SignalClosesStore ==
  /\ main = "serving"
  /\ main' = "metrics" /\ storeOpen' = FALSE /\ told' = TRUE
  /\ UNCHANGED <<vars, setup, defers, listening, over, h, forced, strangers, ran, lost>>

\* SIGTERM: the metrics server goes first, within the same five seconds.
Signal ==
  /\ main = "serving"
  /\ main' = "metrics" /\ told' = TRUE
  /\ UNCHANGED <<vars, setup, defers, storeOpen, listening, over, h, forced,
                 strangers, ran, lost>>

\* Some NotifyContext takes the signals: serveDual's or the pumps' own, or those
\* of the compactor and the verifier, from their stage to their deferred stop.
Notified ==
  \/ main \in {"serving", "piping", "metrics", "draining"}
  \/ {"compactor", "oidc"} \cap ToSet(defers) # {}

\* A signal outside serveDual's select: it ends the compactor or the verifier,
\* and run() goes on.  (The pumps' context is Stdio's subject.)
SignalLost ==
  /\ Alive /\ main # "serving" /\ Notified
  /\ told' = TRUE
  /\ UNCHANGED <<vars, setup, main, defers, storeOpen, listening, over, h, forced,
                 strangers, ran, lost>>

\* A signal that nobody takes ends the process as it stands.
Kill ==
  /\ Alive /\ ~Notified
  /\ main' = "killed" /\ told' = TRUE /\ listening' = FALSE
  /\ UNCHANGED <<vars, setup, defers, storeOpen, over, h, forced, strangers, ran, lost>>

\* Its last scrape has ended, or the context has; the proxy stops listening.
MetricsDown ==
  /\ main = "metrics"
  /\ main' = "draining" /\ listening' = FALSE
  /\ UNCHANGED <<vars, setup, defers, storeOpen, over, h, told, forced, strangers, ran, lost>>

TimeOver ==
  /\ main \in {"metrics", "draining"} /\ ~over
  /\ over' = TRUE
  /\ UNCHANGED <<vars, setup, main, defers, storeOpen, listening, h, told, forced,
                 strangers, ran, lost>>

\* A mutant of Drained: the shutdown does not wait for the handlers.
DrainedAtOnce ==
  /\ main = "draining"
  /\ main' = "leaving"
  /\ UNCHANGED <<vars, setup, defers, storeOpen, listening, over, h, told, forced,
                 strangers, ran, lost>>

\* srv.Shutdown returns when no handler is left, or with the context.
Drained ==
  /\ main = "draining" /\ (Active = {} \/ over)
  /\ main' = "leaving"
  /\ forced' = (Active # {})
  /\ UNCHANGED <<vars, setup, defers, storeOpen, listening, over, h, told, strangers, ran, lost>>

-----------------------------------------------------------------------------
(* The deferred calls, last opened first closed.                           *)

Leaving(what) == main = "leaving" /\ defers # <<>> /\ Head(defers) = what

\* The compactor's and the verifier's contexts: their goroutines end by themselves.
CancelContext ==
  /\ Leaving("oidc") \/ Leaving("compactor")
  /\ defers' = Tail(defers)
  /\ UNCHANGED <<vars, setup, main, storeOpen, listening, over, h, told, forced,
                 strangers, ran, lost>>

\* auditWriter.Close, with thirty seconds of its own.
CloseAudit ==
  /\ Leaving("audit")
  /\ CloseWriter \/ CloseStep
  /\ UNCHANGED procVars

AuditClosed ==
  /\ Leaving("audit") /\ cl.at = "closed"
  /\ defers' = Tail(defers)
  /\ UNCHANGED <<vars, setup, main, storeOpen, listening, over, h, told, forced,
                 strangers, ran, lost>>

\* The Close of Bolt and of the Postgres pool first turns new transactions away;
\* that of the memory store is empty.
CloseStore ==
  /\ Leaving("store") /\ setup.store # "memory" /\ storeOpen
  /\ storeOpen' = FALSE
  /\ UNCHANGED <<vars, setup, main, defers, listening, over, h, told, forced,
                 strangers, ran, lost>>

\* Then it waits for the handlers that are in one; only theirs are modelled.
StoreClosed ==
  /\ Leaving("store")
  /\ setup.store = "memory" \/ (~storeOpen /\ Holding = {})
  /\ defers' = Tail(defers)
  /\ UNCHANGED <<vars, setup, main, storeOpen, listening, over, h, told, forced,
                 strangers, ran, lost>>

\* main returns or exits, and every goroutine ends with it.
Exit ==
  /\ main = "leaving" /\ defers = <<>>
  /\ main' = "exited" /\ listening' = FALSE
  /\ UNCHANGED <<vars, setup, defers, storeOpen, over, h, told, forced, strangers, ran, lost>>

\* The sinks' goroutines and Close's deadline go on until then.
Background ==
  /\ Alive
  /\ Expire \/ Tick \/ \E i \in 1..N : Drain(i) \/ S3Tick(i)
  /\ UNCHANGED procVars

-----------------------------------------------------------------------------
Handle(w) ==
  Got(w) \/ Audit(w) \/ Audited(w) \/ Answered(w) \/ PassedOn(w) \/ Put(w)

Leave ==
  CancelContext \/ CloseAudit \/ AuditClosed \/ CloseStore \/ StoreClosed \/ Exit

ProcNext ==
  \/ Succeed \/ Fail \/ Serve \/ PipesEnd
  \/ \E w \in Writers : Arrive(w) \/ Handle(w)
  \/ ListenerFails \/ Signal \/ SignalLost \/ Kill \/ MetricsDown \/ TimeOver \/ Drained
  \/ Leave \/ Background

ProcSpec == ProcInit /\ [][ProcNext]_allVars

\* run() goes on, and its two deadlines pass; nothing is assumed of the
\* upstream, of the handlers or of the sinks' I/O.
ProcFairSpec ==
  /\ ProcSpec
  /\ WF_allVars(MetricsDown) /\ WF_allVars(TimeOver) /\ WF_allVars(Drained)
  /\ WF_allVars(Leave) /\ WF_allVars(Alive /\ Expire /\ UNCHANGED procVars)

-----------------------------------------------------------------------------
(* Properties.                                                             *)

\* Every variable of the process and its audit log keeps its type.
ProcTypeOK ==
  /\ TypeOK
  /\ setup \in Setups
  /\ main \in ToSet(Stages) \cup {"serving", "piping", "metrics", "draining", "leaving",
                                  "exited", "killed"}
  /\ defers \in Seq({"store", "compactor", "audit", "oidc"})
  /\ {storeOpen, listening, over, told, forced} \subseteq BOOLEAN
  /\ h \in [Writers -> {"none", "refused", "get", "audit", "upstream", "put", "done",
                       "bypass", "passed", "panicked"}]
  /\ {strangers, ran, lost} \subseteq SUBSET Writers

\* Unless run() left handlers at work behind, none of them meets a closed audit
\* log or a closed store: no panic in Write, hence no leader's handle left in
\* the map, and no answer that is executed and not cached.
HandlersUndisturbed ==
  ~forced => lost = {} /\ \A w \in Writers : h[w] # "panicked"

\* Every call that reached the upstream, except those of tools in mode off, which
\* leave no record, is on record with every sink before it does; by the time the
\* process exits the sinks have written or uploaded it, or met an error with it,
\* unless handlers were left behind or Close ran out of time.
ExecutionsOnRecord ==
  ~forced =>
    \A i \in 1..N :
      /\ ran \ Off \subseteq accepted[i]
      /\ main = "exited" /\ ~expired =>
           ran \ Off \subseteq Recs(lines[i]) \cup Uploaded(i) \cup GivenUp(i)

\* main's refusal and the adapters' choice of middleware agree: nobody gets in
\* without credentials on an address that is not loopback.
NoOpenProxy ==
  strangers # {} => setup.host \in {"127.0.0.1", "::1", "[::1]", "localhost"}

\* Once serveDual has taken a signal, or run() returns for another reason, the
\* process ends, whatever hangs of a scrape, a handler, the upstream or the
\* sinks' I/O; it may only wait in the store's Close for a handler that is
\* itself waiting for the store.
StopsInTime ==
  main \in {"metrics", "leaving"} ~> Ended \/ (Leaving("store") /\ Holding # {})

-----------------------------------------------------------------------------
(* What the repository says and the code does not do.                      *)

\* blog-post.md: "JSONL audit log of every decision", which "drains on
\* shutdown".  After a failed listener, requests are served without a record.
EveryExecutionLogged == \A i \in 1..N : ran \ Off \subseteq accepted[i]

\* serveDual: a signal shuts the servers down.  A process that is told to stop
\* between the compactor's stage and serveDual's own NotifyContext serves on.
SignalHeeded == told => main # "serving"
=============================================================================
