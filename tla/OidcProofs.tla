----------------------------- MODULE OidcProofs ------------------------------
(***************************************************************************)
(* Proofs about the OIDC verifier (internal/oidc, internal/auth), for      *)
(* every set of requests, tokens and documents and any number of           *)
(* rotations.                                                              *)
(*                                                                         *)
(* Both properties relate the key cache to the history of published        *)
(* documents, so the invariant follows a document on its way: what Refresh *)
(* has read is a published document no older than the cached one           *)
(* (FetchInv), the cache is the document seen says (CacheIsOneDocument),   *)
(* and the key a request holds came from a document that was cached after  *)
(* the request began (RequestInv).                                         *)
(***************************************************************************)
EXTENDS Oidc, TLAPS

\* The history variables count published documents.
HistoryType ==
  /\ published \in Seq(Documents) /\ Len(published) > 0
  /\ seen \in Nat /\ reading \in Nat
  /\ seen <= reading /\ reading <= Len(published)
  /\ req \in [Requests ->
                {"idle", "verify", "keyed", "served", "unauthorized"}]
  /\ token \in [Requests -> Tokens \cup {NoBearer}]
  /\ key = [r \in Requests |-> key[r]]
  /\ began \in [Requests -> Nat]

\* Between the read of the body and the swap of the map, Refresh holds a
\* published document.
FetchInv ==
  loop = "parse" => reading > 0 /\ body = published[reading]

\* The document that gave request r its key: one that was in the cache at
\* some time since r began.
KeyFrom(r, k) ==
  \E i \in began[r]..seen :
    /\ i > 0
    /\ token[r].kid \in KidsOf(published[i])
    /\ ParseJWKS(published[i])[token[r].kid] = k

\* What request r knows at each stage of its verification.
Knows(r) ==
  /\ req[r] \in {"verify", "keyed", "served"}
       => token[r] # NoBearer /\ began[r] <= seen
  /\ req[r] \in {"keyed", "served"} => KeyFrom(r, key[r])
  /\ req[r] = "served"
       => /\ token[r].key = key[r] /\ token[r].valid
          /\ token[r].caller # NoCaller

RequestInv == \A r \in Requests : Knows(r)

OidcInv == HistoryType /\ FetchInv /\ CacheIsOneDocument /\ RequestInv

-----------------------------------------------------------------------------
\* What was published stays published: a rotation only appends.
LEMMA RotateKeeps ==
  ASSUME HistoryType, NEW d \in Documents, Rotate(d)
  PROVE  /\ published' \in Seq(Documents)
         /\ Len(published') = Len(published) + 1
         /\ \A i \in 1..Len(published) : published'[i] = published[i]
BY DEF HistoryType, Rotate

\* A step that neither touches request r nor withdraws a document, and that
\* only moves the cache forward, leaves r's key explained.
LEMMA KeyFromStable ==
  ASSUME HistoryType, NEW r \in Requests, NEW k,
         KeyFrom(r, k), seen' \in Nat, seen <= seen',
         \A i \in 1..Len(published) : published'[i] = published[i],
         token'[r] = token[r], began'[r] = began[r]
  PROVE  KeyFrom(r, k)'
<1>1. PICK i \in began[r]..seen :
        /\ i > 0
        /\ token[r].kid \in KidsOf(published[i])
        /\ ParseJWKS(published[i])[token[r].kid] = k
  BY DEF KeyFrom
<1>2. began[r] \in Nat /\ i \in 1..Len(published)
  BY <1>1 DEF HistoryType
<1>3. published'[i] = published[i] /\ i \in began'[r]..seen'
  BY <1>1, <1>2 DEF HistoryType, Knows
<1> QED
  BY <1>1, <1>3 DEF KeyFrom

\* A request keeps what it knows when another actor moves.
LEMMA RequestUndisturbed ==
  ASSUME OidcInv, UNCHANGED requestVars, seen' \in Nat, seen <= seen',
         \A i \in 1..Len(published) : published'[i] = published[i]
  PROVE  RequestInv'
<1> SUFFICES ASSUME NEW r \in Requests PROVE Knows(r)'
  BY DEF RequestInv
<1>1. HistoryType /\ UNCHANGED <<req, token, key, began>>
  BY DEF OidcInv, requestVars
<1>2. Knows(r)
  BY DEF OidcInv, RequestInv
<1>3. req[r] \in {"keyed", "served"} => KeyFrom(r, key[r])'
  BY <1>1, <1>2, KeyFromStable DEF Knows
<1>4. req[r] \in {"verify", "keyed", "served"} => began'[r] <= seen'
  BY <1>1, <1>2 DEF HistoryType, Knows
<1> QED
  BY <1>1, <1>2, <1>3, <1>4 DEF Knows

-----------------------------------------------------------------------------
(* The refresher and the provider.                                         *)

\* Fetching, failing, parsing, swapping the map, waiting and rotating keep
\* the invariant, whatever the requests are doing.
LEMMA RefreshStep ==
  ASSUME OidcInv,
         Refresher \/ Cancel \/ \E d \in Documents : Rotate(d)
  PROVE  OidcInv'
<1>h. HistoryType /\ FetchInv /\ CacheIsOneDocument
  BY DEF OidcInv
<1>0. UNCHANGED requestVars
  BY DEF Refresher, Fetch, FetchFails, Install, ParseFails, TickRefresh,
         RunReturns, Cancel, Rotate
<1>1. CASE Fetch
  <2>1. /\ reading' = Len(published) /\ loop' = "parse"
        /\ body' = published[Len(published)]
        /\ UNCHANGED <<published, keys, seen>>
    BY <1>1 DEF Fetch, Served
  <2>2. Len(published) \in Nat
    BY <1>h DEF HistoryType
  <2>3. HistoryType'
    BY <1>h, <1>0, <2>1, <2>2 DEF HistoryType, requestVars
  <2>4. FetchInv' /\ CacheIsOneDocument'
    BY <1>h, <2>1, <2>2 DEF FetchInv, CacheIsOneDocument, HistoryType
  <2>5. RequestInv'
    BY <1>0, <1>h, <2>1, RequestUndisturbed DEF HistoryType
  <2> QED
    BY <2>3, <2>4, <2>5 DEF OidcInv
<1>2. CASE FetchFails \/ ParseFails \/ TickRefresh \/ RunReturns \/ Cancel
  <2>1. /\ loop' # "parse" \/ UNCHANGED loop
        /\ UNCHANGED <<published, keys, body, seen, reading>>
    BY <1>2 DEF FetchFails, ParseFails, TickRefresh, RunReturns, Cancel,
                refreshVars
  <2>2. HistoryType'
    BY <1>h, <1>0, <2>1 DEF HistoryType, requestVars
  <2>3. FetchInv' /\ CacheIsOneDocument'
    BY <1>h, <2>1 DEF FetchInv, CacheIsOneDocument
  <2>4. RequestInv'
    BY <1>0, <1>h, <2>1, RequestUndisturbed DEF HistoryType
  <2> QED
    BY <2>2, <2>3, <2>4 DEF OidcInv
<1>3. CASE Install
  <2>1. /\ loop = "parse" /\ loop' = "wait"
        /\ keys' = ParseJWKS(body) /\ seen' = reading
        /\ UNCHANGED <<published, reading>>
    BY <1>3 DEF Install
  <2>2. reading > 0 /\ body = published[reading]
    BY <1>h, <2>1 DEF FetchInv
  <2>3. HistoryType'
    BY <1>h, <1>0, <2>1 DEF HistoryType, requestVars
  <2>4. FetchInv' /\ CacheIsOneDocument'
    BY <1>h, <2>1, <2>2 DEF FetchInv, CacheIsOneDocument, HistoryType
  <2>5. RequestInv'
    BY <1>0, <1>h, <2>1, RequestUndisturbed DEF HistoryType
  <2> QED
    BY <2>3, <2>4, <2>5 DEF OidcInv
<1>4. ASSUME NEW d \in Documents, Rotate(d) PROVE OidcInv'
  <2>1. /\ published' \in Seq(Documents)
        /\ Len(published') = Len(published) + 1
        /\ \A i \in 1..Len(published) : published'[i] = published[i]
    BY <1>4, <1>h, RotateKeeps
  <2>2. UNCHANGED <<keys, loop, body, seen, reading>>
    BY <1>4 DEF Rotate, refreshVars
  <2>3. HistoryType'
    BY <1>h, <1>0, <2>1, <2>2 DEF HistoryType, requestVars
  <2>4. FetchInv' /\ CacheIsOneDocument'
    <3>1. reading > 0 => published'[reading] = published[reading]
      BY <1>h, <2>1 DEF HistoryType
    <3>2. seen > 0 => published'[seen] = published[seen]
      BY <1>h, <2>1 DEF HistoryType
    <3> QED
      BY <1>h, <2>2, <3>1, <3>2 DEF FetchInv, CacheIsOneDocument, HistoryType
  <2>5. RequestInv'
    BY <1>0, <1>h, <2>1, <2>2, RequestUndisturbed DEF HistoryType
  <2> QED
    BY <2>3, <2>4, <2>5 DEF OidcInv
<1> QED
  BY <1>1, <1>2, <1>3, <1>4 DEF Refresher

-----------------------------------------------------------------------------
(* Requests.                                                               *)

\* The key a keyfunc finds in the cache is one of the cached document's.
LEMMA LookupFromCache ==
  ASSUME OidcInv, NEW r \in Requests, began[r] <= seen,
         token[r].kid \in DOMAIN keys
  PROVE  KeyFrom(r, keys[token[r].kid])
<1>1. HistoryType /\ CacheIsOneDocument
  BY DEF OidcInv
<1>2. seen # 0
  BY <1>1 DEF CacheIsOneDocument, NoKeys
<1>3. keys = ParseJWKS(published[seen])
  BY <1>1, <1>2 DEF CacheIsOneDocument
<1>4. token[r].kid \in KidsOf(published[seen])
  BY <1>3 DEF ParseJWKS
<1>5. seen \in began[r]..seen /\ seen > 0
  BY <1>1, <1>2 DEF HistoryType
<1> QED
  BY <1>3, <1>4, <1>5 DEF KeyFrom

\* A handler's step keeps the invariant: the key it looked up stays
\* explained although the cache may be swapped before the signature check.
LEMMA HandlerStep ==
  ASSUME OidcInv, NEW r \in Requests, Handler(r)
  PROVE  OidcInv'
<1>h. HistoryType /\ FetchInv /\ CacheIsOneDocument /\ RequestInv
  BY DEF OidcInv
<1>0. UNCHANGED <<published, keys, loop, body, seen, reading>>
  BY DEF Handler, Arrive, KeyFunc, Check, Finish, refreshVars
<1>1. \A q \in Requests \ {r} :
        /\ req'[q] = req[q] /\ token'[q] = token[q]
        /\ key'[q] = key[q] /\ began'[q] = began[q]
  BY <1>h DEF HistoryType, Handler, Arrive, KeyFunc, Check, Finish,
              Unauthorized
<1>2. HistoryType'
  <2>1. ASSUME NEW t \in Tokens \cup {NoBearer}, Arrive(r, t)
        PROVE  HistoryType'
    BY <2>1, <1>h, <1>0 DEF HistoryType, Arrive, Unauthorized
  <2>2. CASE KeyFunc(r)
    BY <2>2, <1>h, <1>0 DEF HistoryType, KeyFunc, Unauthorized
  <2>3. CASE Check(r)
    BY <2>3, <1>h, <1>0 DEF HistoryType, Check, Unauthorized
  <2>4. CASE Finish(r)
    BY <2>4, <1>h, <1>0 DEF HistoryType, Finish
  <2> QED
    BY <2>1, <2>2, <2>3, <2>4 DEF Handler
<1>3. FetchInv' /\ CacheIsOneDocument'
  BY <1>h, <1>0 DEF FetchInv, CacheIsOneDocument
<1>4. Knows(r)
  BY <1>h DEF RequestInv, Knows
<1>5. Knows(r)'
  <2>1. ASSUME NEW t \in Tokens \cup {NoBearer}, Arrive(r, t) PROVE Knows(r)'
    BY <2>1, <1>h, <1>0 DEF Arrive, Unauthorized, HistoryType, Knows
  <2>2. CASE KeyFunc(r)
    <3>1. CASE token[r].kid \in DOMAIN keys
      <4>1. token[r] # NoBearer /\ began[r] <= seen
        BY <2>2, <1>4 DEF KeyFunc, Knows
      <4>2. KeyFrom(r, keys[token[r].kid])
        BY <3>1, <4>1, LookupFromCache
      <4>3. /\ key'[r] = keys[token[r].kid] /\ req'[r] = "keyed"
            /\ UNCHANGED <<token, began>>
        BY <2>2, <3>1, <1>h DEF KeyFunc, HistoryType
      <4>4. KeyFrom(r, key[r])'
        BY <4>2, <4>3, <1>0 DEF KeyFrom
      <4> QED
        BY <4>1, <4>3, <4>4, <1>0 DEF Knows
    <3>2. CASE token[r].kid \notin DOMAIN keys
      BY <2>2, <3>2, <1>h DEF KeyFunc, Unauthorized, HistoryType, Knows
    <3> QED
      BY <3>1, <3>2
  <2>3. CASE Check(r)
    <3>1. req[r] = "keyed" /\ UNCHANGED <<token, key, began>>
      BY <2>3 DEF Check
    <3>2. KeyFrom(r, key[r])'
      BY <1>4, <3>1, <1>0 DEF Knows, KeyFrom
    <3>3. /\ req'[r] \in {"served", "unauthorized"}
          /\ req'[r] = "served"
               => SignatureHolds(r) /\ token[r].caller # NoCaller
      BY <2>3, <1>h DEF Check, Unauthorized, HistoryType
    <3> QED
      BY <1>4, <3>1, <3>2, <3>3, <1>0 DEF Knows, SignatureHolds
  <2>4. CASE Finish(r)
    BY <2>4, <1>h DEF Finish, HistoryType, Knows
  <2> QED
    BY <2>1, <2>2, <2>3, <2>4 DEF Handler
<1>6. ASSUME NEW q \in Requests \ {r} PROVE Knows(q)'
  <2>1. Knows(q)
    BY <1>h DEF RequestInv, Knows
  <2>2. KeyFrom(q, key[q]) => KeyFrom(q, key[q])'
    BY <1>0, <1>1 DEF KeyFrom
  <2> QED
    BY <2>1, <2>2, <1>0, <1>1 DEF Knows
<1>7. RequestInv'
  BY <1>5, <1>6 DEF RequestInv, Knows
<1> QED
  BY <1>2, <1>3, <1>7 DEF OidcInv

-----------------------------------------------------------------------------
(* The theorems.                                                           *)

\* OidcInv holds in every reachable state.
THEOREM OidcInvariant == Spec => []OidcInv
<1>1. Init => OidcInv
  <2> SUFFICES ASSUME Init PROVE OidcInv
    OBVIOUS
  <2>1. PICK d \in Documents : published = <<d>>
    BY DEF Init
  <2>2. HistoryType
    BY <2>1 DEF Init, HistoryType
  <2> QED
    BY <2>2 DEF Init, OidcInv, FetchInv, CacheIsOneDocument, RequestInv,
                   Knows
<1>2. OidcInv /\ [Next]_vars => OidcInv'
  <2> SUFFICES ASSUME OidcInv, [Next]_vars PROVE OidcInv'
    OBVIOUS
  <2>1. CASE UNCHANGED vars
    BY <2>1 DEF vars, OidcInv, HistoryType, FetchInv, CacheIsOneDocument,
                RequestInv, Knows, KeyFrom
  <2> QED
    BY <2>1, RefreshStep, HandlerStep DEF Next
<1> QED
  BY <1>1, <1>2, PTL DEF Spec

\* Whatever fails in a refresh and however requests interleave with it, the
\* cache is exactly one published document: no mixture, no key of an older
\* document left behind.
THEOREM CacheIsOneDocumentHolds == Spec => []CacheIsOneDocument
<1>1. OidcInv => CacheIsOneDocument
  BY DEF OidcInv
<1> QED
  BY <1>1, OidcInvariant, PTL

\* Whoever is served has a token signed by a key of a document that was
\* cached between the request's arrival and its answer.
THEOREM ServedBySeenKeyHolds == Spec => []ServedBySeenKey
<1>1. OidcInv => ServedBySeenKey
  BY DEF OidcInv, RequestInv, Knows, KeyFrom, ServedBySeenKey
<1> QED
  BY <1>1, OidcInvariant, PTL
==============================================================================
