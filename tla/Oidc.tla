-------------------------------- MODULE Oidc --------------------------------
(***************************************************************************)
(* The OIDC verifier (internal/oidc) behind the bearer middleware          *)
(* (internal/auth): a cache of the identity provider's signing keys, one   *)
(* goroutine (Run) that refreshes it, and requests whose token is verified *)
(* against it while the provider rotates its keys.                         *)
(*                                                                         *)
(* A JWKS document is a sequence of keys.  Cryptography is abstracted to   *)
(* "this key signed it", a token's registered claims to "they hold".       *)
(***************************************************************************)
EXTENDS Naturals, Sequences, FiniteSets

CONSTANTS
  Requests,    \* inbound requests, each handled by a goroutine of its own
  Documents,   \* the JWKS documents the provider may publish
  Tokens,      \* bearer tokens: [kid, key, valid, caller]
  NoBearer,    \* an Authorization header without the "Bearer " prefix
  NoCaller,    \* a caller claim that is absent, empty or no string
  MaxRotations \* bound on the documents published after the first

\* What parseJWKS does with a key: take it, skip it (another use than "sig",
\* or a type other than RSA and EC), or fail on it (undecodable numbers, or
\* an EC curve it does not know).
Forms == {"taken", "skipped", "bad"}

ASSUME DocumentAssumption ==
  \A d \in Documents :
    /\ d \in Seq([kid : {d[i].kid : i \in DOMAIN d},
                  key : {d[i].key : i \in DOMAIN d},
                  form : Forms])

ASSUME RotationAssumption == MaxRotations \in Nat

VARIABLES
  published,  \* every document published so far; the last one is served
  keys,       \* Verifier.keys
  loop,       \* where Run is
  body,       \* the document Refresh has read
  cancelled,  \* Run's context
  req,        \* where each request is
  token,      \* its token
  key,        \* the key its keyfunc returned
  seen,       \* history: which document the cache holds, 0 before the first
  reading,    \* history: which document body is
  began       \* history: seen when a request's verification began

vars == <<published, keys, loop, body, cancelled, req, token, key, seen,
          reading, began>>

refreshVars == <<keys, loop, body, seen, reading>>
requestVars == <<req, token, key, began>>

Served == published[Len(published)]

-----------------------------------------------------------------------------
(* parseJWKS.                                                              *)

\* One key it fails on fails the document.
Parses(doc) == \A i \in DOMAIN doc : doc[i].form # "bad"

\* The keys it takes, indexed by kid; of two with one kid the later one wins.
TakenAt(doc, kid) ==
  {i \in DOMAIN doc : doc[i].form = "taken" /\ doc[i].kid = kid}

KidsOf(doc) == {doc[i].kid : i \in {j \in DOMAIN doc : doc[j].form = "taken"}}

LastTaken(doc, kid) ==
  CHOOSE i \in TakenAt(doc, kid) : \A j \in TakenAt(doc, kid) : j <= i

ParseJWKS(doc) == [kid \in KidsOf(doc) |-> doc[LastTaken(doc, kid)].key]

NoKeys == [kid \in {} |-> NoCaller]

Init ==
  /\ published \in {<<d>> : d \in Documents}
  /\ keys = NoKeys
  /\ loop = "refresh"
  /\ body = <<>>
  /\ cancelled = FALSE
  /\ req = [r \in Requests |-> "idle"]
  /\ token = [r \in Requests |-> NoBearer]
  /\ key = [r \in Requests |-> NoCaller]
  /\ seen = 0
  /\ reading = 0
  /\ began = [r \in Requests |-> 0]

-----------------------------------------------------------------------------
(* Run and Refresh.                                                        *)

\* The endpoint answers 200 and the body is read whole.
Fetch ==
  /\ loop = "refresh"
  /\ ~cancelled
  /\ body' = Served
  /\ reading' = Len(published)
  /\ loop' = "parse"
  /\ UNCHANGED <<published, keys, cancelled, seen, requestVars>>

\* A mutant of FetchFails: Run gives up when a refresh fails.
FetchFailsAndEnds ==
  /\ loop = "refresh"
  /\ loop' = "returned"
  /\ UNCHANGED <<published, keys, body, cancelled, seen, reading, requestVars>>

\* The request, its status or the read of its body fails; Run logs it.
FetchFails ==
  /\ loop = "refresh"
  /\ loop' = "wait"
  /\ UNCHANGED <<published, keys, body, cancelled, seen, reading, requestVars>>

\* A mutant of Install: new keys are added to the map, none is dropped.
InstallMerged ==
  /\ loop = "parse"
  /\ Parses(body)
  /\ keys' = [kid \in DOMAIN keys \cup KidsOf(body) |->
                IF kid \in KidsOf(body) THEN ParseJWKS(body)[kid] ELSE keys[kid]]
  /\ seen' = reading
  /\ loop' = "wait"
  /\ UNCHANGED <<published, body, cancelled, reading, requestVars>>

\* The new keys replace the old map under the lock.
Install ==
  /\ loop = "parse"
  /\ Parses(body)
  /\ keys' = ParseJWKS(body)
  /\ seen' = reading
  /\ loop' = "wait"
  /\ UNCHANGED <<published, body, cancelled, reading, requestVars>>

\* A mutant of ParseFails: the keys are cleared before the parse.
ParseFailsCleared ==
  /\ loop = "parse"
  /\ ~Parses(body)
  /\ keys' = NoKeys
  /\ loop' = "wait"
  /\ UNCHANGED <<published, body, cancelled, seen, reading, requestVars>>

\* The document does not parse: the keys stay.
ParseFails ==
  /\ loop = "parse"
  /\ ~Parses(body)
  /\ loop' = "wait"
  /\ UNCHANGED <<published, keys, body, cancelled, seen, reading, requestVars>>

\* The ticker; it may still win against a context that is done.
TickRefresh ==
  /\ loop = "wait"
  /\ loop' = "refresh"
  /\ UNCHANGED <<published, keys, body, cancelled, seen, reading, requestVars>>

RunReturns ==
  /\ loop = "wait"
  /\ cancelled
  /\ loop' = "returned"
  /\ UNCHANGED <<published, keys, body, cancelled, seen, reading, requestVars>>

\* SIGINT or SIGTERM; requests in progress go on.
Cancel ==
  /\ ~cancelled
  /\ cancelled' = TRUE
  /\ UNCHANGED <<published, refreshVars, requestVars>>

\* The provider publishes another document.
Rotate(d) ==
  /\ Len(published) <= MaxRotations
  /\ published' = Append(published, d)
  /\ UNCHANGED <<cancelled, refreshVars, requestVars>>

-----------------------------------------------------------------------------
(* RequireBearerVerifier and Verify.                                       *)

Unauthorized(r) == req' = [req EXCEPT ![r] = "unauthorized"]

\* A request arrives with its header.
Arrive(r, t) ==
  /\ req[r] = "idle"
  /\ token' = [token EXCEPT ![r] = t]
  /\ began' = [began EXCEPT ![r] = seen]
  /\ IF t = NoBearer THEN Unauthorized(r)
                     ELSE req' = [req EXCEPT ![r] = "verify"]
  /\ UNCHANGED <<published, cancelled, key, refreshVars>>

\* The keyfunc reads the cache under the read lock.
KeyFunc(r) ==
  /\ req[r] = "verify"
  /\ IF token[r].kid \in DOMAIN keys
       THEN /\ key' = [key EXCEPT ![r] = keys[token[r].kid]]
            /\ req' = [req EXCEPT ![r] = "keyed"]
       ELSE Unauthorized(r) /\ UNCHANGED key
  /\ UNCHANGED <<published, cancelled, token, began, refreshVars>>

\* jwt.Parser checks the signature and the claims (iss, aud, exp, nbf).
SignatureHolds(r) == token[r].key = key[r] /\ token[r].valid

\* Verify returns the caller claim, and the middleware calls the proxy.
Check(r) ==
  /\ req[r] = "keyed"
  /\ IF SignatureHolds(r) /\ token[r].caller # NoCaller
       THEN req' = [req EXCEPT ![r] = "served"]
       ELSE Unauthorized(r)
  /\ UNCHANGED <<published, cancelled, token, key, began, refreshVars>>

\* The connection's next request.
Finish(r) ==
  /\ req[r] \in {"served", "unauthorized"}
  /\ req' = [req EXCEPT ![r] = "idle"]
  /\ token' = [token EXCEPT ![r] = NoBearer]
  /\ key' = [key EXCEPT ![r] = NoCaller]
  /\ began' = [began EXCEPT ![r] = 0]
  /\ UNCHANGED <<published, cancelled, refreshVars>>

Refresher == Fetch \/ FetchFails \/ Install \/ ParseFails \/ TickRefresh \/ RunReturns

Handler(r) ==
  \/ \E t \in Tokens \cup {NoBearer} : Arrive(r, t)
  \/ KeyFunc(r) \/ Check(r) \/ Finish(r)

Next ==
  \/ Refresher
  \/ Cancel
  \/ \E d \in Documents : Rotate(d)
  \/ \E r \in Requests : Handler(r)

Spec == Init /\ [][Next]_vars

\* Run's goroutine and its ticker are scheduled and the client's timeout ends
\* every fetch; a provider that is asked for ever answers now and then.
FairSpec == Spec /\ WF_vars(Refresher) /\ SF_vars(Fetch)

-----------------------------------------------------------------------------
(* Properties.                                                             *)

\* The cache is one published document as a whole, or empty before the first
\* refresh: failed refreshes, whatever failed in them, leave the cached keys
\* working, and no key of an older document outlives a successful one.
CacheIsOneDocument ==
  keys = IF seen = 0 THEN NoKeys ELSE ParseJWKS(published[seen])

\* A request is served only for a caller whose token was signed by a key of a
\* document that was cached during its verification: once a refresh has
\* retired a key, no later request gets in with it, also when the refresh runs
\* between a request's key lookup and its signature check.
ServedBySeenKey ==
  \A r \in Requests :
    req[r] = "served" =>
      /\ token[r] # NoBearer /\ token[r].valid /\ token[r].caller # NoCaller
      /\ \E i \in began[r]..seen :
           /\ i > 0
           /\ token[r].kid \in KidsOf(published[i])
           /\ ParseJWKS(published[i])[token[r].kid] = token[r].key

\* The cache catches up: when the provider stops rotating, on a document that
\* parses, the refresher ends up with its keys however many fetches fail, the
\* first one included, unless the process is told to stop.
RotationPickedUp ==
  <>[](cancelled \/ ~Parses(Served) \/ keys = ParseJWKS(Served))

\* "silently skip unsupported types so JWKS additions don't break us": after a
\* refresh has read a document, the keys of it that are supported are cached.
AdditionsDontBreak ==
  (loop = "wait" /\ seen < reading) =>
    \A kid \in KidsOf(body) : kid \in DOMAIN keys
=============================================================================
