---------------------------- MODULE StdioProofs ----------------------------
(***************************************************************************)
(* Proofs about the mcp-stdio adapter, for any requests, tools, faults and *)
(* timeout: the pending and inflight maps agree, no call is lost, and an   *)
(* answer goes to calls it belongs to.                                     *)
(*                                                                         *)
(* None of the three is inductive as it stands.  What the two pumps and    *)
(* the sweeper may do to a call depends on where the call is, so the       *)
(* invariant says where a call can be (Standing), and how the maps, the    *)
(* keys and the answers on their way hang together (Maps, Matches).        *)
(***************************************************************************)
EXTENDS Stdio, FiniteSetTheorems, TLAPS

-----------------------------------------------------------------------------
(* The inductive invariant.                                                *)

\* The child pump holds the child's answer to i.
Held(i) == pp.at # "scan" /\ pp.id = i

\* Request i is with the child, or about to be written to it.
Out(i) == i \in child \/ (cp.at = "write" /\ cp.id = i)

\* A call waits on some flight.
Attached(i) == \E h \in FlightKeys : i \in waiters[h]

\* A flight stands for the forward of i.
Holder(i) == i \in pending \/ (pp.at \in {"cache", "collect"} /\ pp.id = i)

\* Not routed: still with the client, or between Lookup and the lock.
Fresh(i) == i \in unread \/ (cp.at = "route" /\ cp.id = i)

\* The pumps know which call they are working on.
Pumps ==
  /\ cp.at # "read" => cp.id \in Ids /\ cp.id \notin unread /\ cp.id \notin child
  /\ pp.at # "scan" => pp.id \in Ids
  /\ pp.waiters # {} => pp.at = "fanout"
  /\ pp.at \in {"cache", "collect"} => key[pp.id] # Untracked

\* The pending map, the inflight map and the waiters' lists agree.
Maps ==
  /\ \A i \in Ids : Holder(i) => key[i] \in flights
  /\ \A h \in flights : \E i \in Ids : Holder(i) /\ key[i] = h
  /\ \A i, j \in Ids : Holder(i) /\ Holder(j) /\ key[i] = key[j] => i = j
  /\ \A h \in FlightKeys : h \notin flights => waiters[h] = {}

Single(i, k) == Len(answers[i]) = 1 /\ answers[i][1].kind = k

\* A timeout error and a late answer, in either order.
Double(i) ==
  /\ Len(answers[i]) = 2
  /\ \/ answers[i][1].kind = "timeout" /\ answers[i][2].kind = "own"
     \/ answers[i][1].kind = "own" /\ answers[i][2].kind = "timeout"

\* How often a call has been answered and may still be: with one answer due,
\* or swept with a late answer possible, or through.
Standing(i) ==
  LET nowhere == i \notin pending /\ ~Attached(i) /\ i \notin pp.waiters
  IN  \/ /\ answers[i] = <<>> /\ i \in pending
         /\ ~Attached(i) /\ i \notin pp.waiters /\ i \notin sp /\ ~Held(i)
      \/ /\ answers[i] = <<>> /\ Attached(i)
         /\ i \notin pending /\ i \notin pp.waiters /\ i \notin sp /\ ~Held(i)
         /\ ~Out(i)
      \/ /\ answers[i] = <<>> /\ i \in pp.waiters
         /\ i \notin pending /\ ~Attached(i) /\ i \notin sp /\ ~Held(i) /\ ~Out(i)
      \/ /\ answers[i] = <<>> /\ Held(i) /\ i \notin sp
         /\ nowhere /\ ~Out(i)
      \/ /\ i \in sp /\ nowhere
         /\ \/ answers[i] = <<>> /\ ~Held(i)
            \/ answers[i] = <<>> /\ Held(i) /\ pp.at = "fanout" /\ ~Out(i)
            \/ Single(i, "own") /\ ~Held(i) /\ ~Out(i)
      \/ /\ i \notin sp /\ nowhere
         /\ \/ Single(i, "timeout") /\ ~Held(i)
            \/ Single(i, "timeout") /\ Held(i) /\ pp.at = "fanout" /\ ~Out(i)
            \/ (Single(i, "own") \/ Single(i, "coalesced") \/ Double(i))
               /\ ~Held(i) /\ ~Out(i)

\* A call the maps do not know is in none of them, and one not yet routed is
\* nowhere at all and has no answer.
Apart(i) ==
  /\ key[i] = Untracked =>
       /\ i \notin pending /\ ~Attached(i) /\ i \notin pp.waiters /\ i \notin sp
       /\ Held(i) => pp.at = "fanout"
  /\ Fresh(i) => /\ key[i] = Untracked /\ ~Out(i) /\ ~Held(i)
                 /\ answers[i] = <<>>

Accounts ==
  \A i \in Ids : Apart(i) /\ (key[i] # Untracked => Standing(i))

\* What was asked under a key, and what each answer given or kept belongs to.
Matches ==
  /\ cp.at = "route" =>
       cp.hash = NoHash \/ cp.hash = req[cp.id].args
  /\ \A i \in Ids : key[i] \in Hashes => req[i].args = key[i]
  /\ \A h \in FlightKeys : \A i \in waiters[h] : key[i] = h
  /\ \A i \in pp.waiters : key[i] = key[pp.id]
  /\ \A k \in Keys : cache[k] # NoId =>
       cache[k] \in Ids /\ req[cache[k]].tool = k[1] /\ req[cache[k]].args = k[2]
  /\ \A i \in Ids : \A n \in DOMAIN answers[i] :
       LET f == answers[i][n]
       IN  /\ f.kind = "replay" => f.of \in Ids /\ Near(req[f.of], req[i])
           /\ f.kind = "coalesced" => /\ f.of \in Ids /\ key[i] \in FlightKeys
                                      /\ key[f.of] = key[i]

StdioInv == TypeOK /\ Pumps /\ Maps /\ Accounts /\ Matches

-----------------------------------------------------------------------------
(* The steps: what each leaves alone.                                      *)

\* A step that only looks a request up.
Looking(i) == PassThrough(i) \/ LookupGated(i) \/ LookupForward(i)

\* A step that answers a request from the store.
Answering(i) == LookupReplay(i) \/ LookupBlock(i)

\* Frames written to the client are frames.
LEMMA FramesWritten ==
  ASSUME answers \in [Ids -> Seq(Frames)], NEW S,
         NEW kind \in {"own", "replay", "coalesced", "blocked", "timeout"},
         NEW of \in Ids \cup {NoId}, WriteClient(S, kind, of)
  PROVE  /\ answers' \in [Ids -> Seq(Frames)]
         /\ \A i \in Ids \ S : answers'[i] = answers[i]
         /\ \A i \in Ids \cap S : answers'[i] = Append(answers[i], Frame(kind, of))
<1>1. Frame(kind, of) \in Frames
  BY DEF Frame, Frames
<1>2. ASSUME NEW i \in Ids PROVE Append(answers[i], Frame(kind, of)) \in Seq(Frames)
  BY <1>1
<1> QED
  BY <1>2 DEF WriteClient

\* What a request of the client can be.
LEMMA RequestFields ==
  ASSUME req \in [Ids -> Requests], NEW i \in Ids
  PROVE  /\ req[i] = [tool |-> req[i].tool, args |-> req[i].args]
         /\ req[i].tool \in Tools \cup {NoTool}
         /\ req[i].args \in Hashes \cup {BadArgs}
<1>1. req[i] \in RequestSet
  BY InputAssumption
<1> QED
  BY <1>1 DEF RequestSet

\* What decide answers from is kept, and is the request's own or near enough.
LEMMA HitsFound ==
  ASSUME NEW i \in Ids, NEW h \in Hits(i)
  PROVE  /\ h \in Hashes
         /\ cache[<<req[i].tool, h>>] # NoId
         /\ h = req[i].args \/ <<req[i].args, h>> \in Similar[req[i].tool]
BY DEF Hits

\* The initial states satisfy the invariant.
LEMMA InitInv == Init => StdioInv
<1> SUFFICES ASSUME Init PROVE StdioInv
  OBVIOUS
<1>1. TypeOK
  <2>1. cp \in [at : {"read", "route", "write"}, id : Ids \cup {NoId},
               hash : FlightKeys]
    BY DEF Init, Reading, FlightKeys
  <2>2. pp \in [at : {"scan", "cache", "collect", "fanout"}, id : Ids \cup {NoId},
               waiters : SUBSET Ids]
    BY DEF Init, Scanning
  <2>3. left \in [Ids -> 0..Timeout]
    BY InputAssumption DEF Init
  <2>4. answers \in [Ids -> Seq(Frames)]
    BY DEF Init
  <2> QED
    BY <2>1, <2>2, <2>3, <2>4 DEF Init, TypeOK
<1>2. Pumps
  BY DEF Init, Pumps, Reading, Scanning
<1>3. Maps
  BY DEF Init, Maps, Holder, Reading, Scanning
<1>4. Accounts
  BY DEF Init, Accounts, Apart, Fresh, Out, Held, Attached, Reading, Scanning
<1>5. Matches
  <2>1. \A i \in Ids : key[i] \notin Hashes
    BY SentinelAssumption DEF Init, FlightKeys
  <2> QED
    BY <2>1 DEF Init, Matches, Reading, Scanning
<1> QED
  BY <1>1, <1>2, <1>3, <1>4, <1>5 DEF StdioInv

-----------------------------------------------------------------------------
(* Type correctness.                                                       *)

\* Reading and looking up keep the types.
LEMMA LookupType ==
  ASSUME TypeOK, NEW i \in Ids, Looking(i) \/ Answering(i)
  PROVE  TypeOK'
<1>0. req[i].args \in Hashes \cup {BadArgs}
  BY RequestFields DEF TypeOK
<1>1. CASE Looking(i)
  <2>1. cp' \in [at : {"read", "route", "write"}, id : Ids \cup {NoId},
                 hash : FlightKeys]
    BY <1>0, <1>1 DEF Looking, PassThrough, LookupGated, LookupForward, Analysed,
       FlightKeys
  <2> QED
    BY <1>1, <2>1 DEF Looking, PassThrough, LookupGated, LookupForward, Analysed,
       Scans, TypeOK, mapVars, envVars
<1>2. CASE Answering(i)
  <2>1. answers' \in [Ids -> Seq(Frames)]
    <3>1. CASE LookupBlock(i)
      BY <3>1, FramesWritten DEF LookupBlock, TypeOK
    <3>2. CASE LookupReplay(i)
      <4>0. PICK h \in Hashes : WriteClient({i}, "replay", cache[<<req[i].tool, h>>])
        BY <3>2, HitsFound DEF LookupReplay
      <4>1. cache[<<req[i].tool, h>>] \in Ids \cup {NoId}
        <5>1. <<req[i].tool, h>> \in Keys
          BY <3>2, <4>0, RequestFields DEF LookupReplay, Analysed, Keys, TypeOK
        <5> QED
          BY <5>1 DEF TypeOK
      <4> QED
        BY <4>0, <4>1, FramesWritten DEF TypeOK
    <3> QED
      BY <1>2, <3>1, <3>2 DEF Answering
  <2> QED
    BY <1>2, <2>1 DEF Answering, LookupReplay, LookupBlock, Analysed,
       Scans, TypeOK, mapVars, envVars
<1> QED
  BY <1>1, <1>2

\* Routing and writing keep the types.
LEMMA RouteType ==
  ASSUME TypeOK, Pumps, Join \/ Lead \/ WriteChild
  PROVE  TypeOK'
<1>0. /\ cp \in [at : {"read", "route", "write"}, id : Ids \cup {NoId},
                 hash : FlightKeys]
      /\ cp.hash \in FlightKeys /\ cp.id \in Ids
  BY DEF TypeOK, Pumps, Join, Lead, WriteChild
<1>1. cp' \in [at : {"read", "route", "write"}, id : Ids \cup {NoId},
               hash : FlightKeys]
  BY <1>0 DEF Join, Lead, WriteChild, Reading, FlightKeys
<1>2. CASE Join
  BY <1>0, <1>1, <1>2 DEF Join, TypeOK, envVars
<1>3. CASE Lead
  <2>1. left' \in [Ids -> 0..Timeout]
    BY <1>0, <1>3, InputAssumption DEF Lead, TypeOK
  <2>2. key' \in [Ids -> FlightKeys \cup {Untracked}]
        /\ waiters' \in [FlightKeys -> SUBSET Ids]
    BY <1>0, <1>3 DEF Lead, TypeOK
  <2> QED
    BY <1>0, <1>1, <1>3, <2>1, <2>2 DEF Lead, TypeOK, envVars
<1>4. CASE WriteChild
  BY <1>0, <1>1, <1>4 DEF WriteChild, TypeOK, mapVars, envVars
<1> QED
  BY <1>2, <1>3, <1>4

\* The child pump keeps the types.
LEMMA PumpType ==
  ASSUME TypeOK, Pumps,
         (\E i \in Ids : Respond(i)) \/ CacheResponse \/ Collect \/ FanOut
  PROVE  TypeOK'
<1> DEFINE PP == [at : {"scan", "cache", "collect", "fanout"}, id : Ids \cup {NoId},
                  waiters : SUBSET Ids]
<1>0. pp \in PP
  BY DEF TypeOK
<1>1. ASSUME NEW i \in Ids, Respond(i) PROVE TypeOK'
  <2>1. pp' \in PP
    BY <1>1 DEF Respond
  <2> QED
    BY <1>1, <2>1 DEF Respond, TypeOK, envVars
<1>2. CASE CacheResponse
  <2>1. pp' \in PP /\ pp.id \in Ids
    BY <1>0, <1>2 DEF CacheResponse, Pumps
  <2>2. cache' \in [Keys -> Ids \cup {NoId}]
    BY <1>2, <2>1 DEF CacheResponse, TypeOK
  <2> QED
    BY <1>2, <2>1, <2>2 DEF CacheResponse, TypeOK, mapVars, envVars
<1>3. CASE Collect
  <2>1. pp.id \in Ids
    BY <1>0, <1>3 DEF Collect, Pumps
  <2>2. (IF key[pp.id] \in flights THEN waiters[key[pp.id]] ELSE {}) \in SUBSET Ids
    BY DEF TypeOK
  <2>3. pp' \in PP
    BY <1>0, <1>3, <2>2 DEF Collect
  <2>4. waiters' \in [FlightKeys -> SUBSET Ids]
    BY <1>3 DEF Collect, TypeOK
  <2> QED
    BY <1>3, <2>3, <2>4 DEF Collect, TypeOK, envVars
<1>4. CASE FanOut
  <2>1. pp' \in PP /\ pp.id \in Ids
    BY <1>0, <1>4 DEF FanOut, Pumps, Scanning
  <2>2. ASSUME NEW i \in Ids
        PROVE  /\ Append(answers[i], Frame("own", i)) \in Seq(Frames)
               /\ Append(answers[i], Frame("coalesced", pp.id)) \in Seq(Frames)
    <3>1. Frame("own", i) \in Frames /\ Frame("coalesced", pp.id) \in Frames
      BY <2>1 DEF Frame, Frames
    <3>2. answers[i] \in Seq(Frames)
      BY DEF TypeOK
    <3> QED
      BY <3>1, <3>2
  <2>3. answers' \in [Ids -> Seq(Frames)]
    BY <1>4, <2>2 DEF FanOut, TypeOK
  <2> QED
    BY <1>4, <2>1, <2>3 DEF FanOut, TypeOK, mapVars, envVars
<1> QED
  BY <1>1, <1>2, <1>3, <1>4

\* The clock, the sweeper and the surroundings keep the types.
LEMMA RestType ==
  ASSUME TypeOK,
         \/ Tick \/ Sweep \/ Notify \/ (\E k \in Keys : Forget(k))
         \/ ChildExit \/ Cancel \/ Eof \/ Return \/ UNCHANGED vars
  PROVE  TypeOK'
<1>1. CASE Tick
  <2>1. ASSUME NEW i \in Ids, left[i] > 0 PROVE left[i] - 1 \in 0..Timeout
    BY <2>1, InputAssumption DEF TypeOK
  <2>2. left' \in [Ids -> 0..Timeout]
    BY <1>1, <2>1 DEF Tick, TypeOK
  <2> QED
    BY <1>1, <2>2 DEF Tick, TypeOK, envVars
<1>2. CASE Sweep
  <2>1. \A i \in {j \in Overdue : key[j] \in flights} : waiters[key[i]] \subseteq Ids
    BY DEF TypeOK
  <2>2. sp' \subseteq Ids
    BY <1>2, <2>1 DEF Sweep, Overdue, TypeOK
  <2>3. waiters' \in [FlightKeys -> SUBSET Ids]
    BY <1>2 DEF Sweep, TypeOK
  <2> QED
    BY <1>2, <2>2, <2>3 DEF Sweep, TypeOK, envVars
<1>3. CASE Notify
  <2>1. answers' \in [Ids -> Seq(Frames)]
    BY <1>3, FramesWritten DEF Notify, TypeOK
  <2> QED
    BY <1>3, <2>1 DEF Notify, TypeOK, mapVars, envVars
<1>4. ASSUME NEW k \in Keys, Forget(k) PROVE TypeOK'
  BY <1>4 DEF Forget, TypeOK, mapVars, envVars
<1>5. CASE ChildExit \/ Cancel \/ Eof \/ Return
  BY <1>5 DEF ChildExit, Cancel, Eof, Return, TypeOK, mapVars, envVars
<1>6. CASE UNCHANGED vars
  BY <1>6 DEF TypeOK, vars
<1> QED
  BY <1>1, <1>2, <1>3, <1>4, <1>5, <1>6

-----------------------------------------------------------------------------
(* The steps that move no call.                                            *)

\* What the invariant is about, but for the child's hands.
boundVars == <<unread, req, cp, pending, key, flights, waiters, pp, sp, answers>>

\* A step that moves no call, though the child may be gone with what it had
\* and the store may forget.
LEMMA QuietStep ==
  ASSUME StdioInv, TypeOK', UNCHANGED boundVars, child' \subseteq child,
         \A k \in Keys : cache'[k] = cache[k] \/ cache'[k] = NoId
  PROVE  StdioInv'
<1>0. /\ unread' = unread /\ req' = req /\ cp' = cp /\ pending' = pending
      /\ key' = key /\ flights' = flights /\ waiters' = waiters /\ pp' = pp
      /\ sp' = sp /\ answers' = answers
  BY DEF boundVars
<1>1. Pumps'
  BY <1>0 DEF StdioInv, Pumps
<1>2. Maps'
  BY <1>0 DEF StdioInv, Maps, Holder
<1>3. Accounts'
  <2> SUFFICES ASSUME NEW j \in Ids
               PROVE  Apart(j)' /\ (key'[j] # Untracked => Standing(j)')
    BY DEF Accounts
  <2>1. /\ Held(j)' <=> Held(j)
        /\ Attached(j)' <=> Attached(j)
        /\ Fresh(j)' <=> Fresh(j)
        /\ Single(j, "own")' <=> Single(j, "own")
        /\ Single(j, "timeout")' <=> Single(j, "timeout")
        /\ Single(j, "coalesced")' <=> Single(j, "coalesced")
        /\ Double(j)' <=> Double(j)
    BY <1>0 DEF Held, Attached, Fresh, Single, Double
  <2>2. Out(j)' => Out(j)
    BY <1>0 DEF Out
  <2>3. Apart(j) /\ (key[j] # Untracked => Standing(j))
    BY DEF StdioInv, Accounts
  <2> QED
    BY <1>0, <2>1, <2>2, <2>3 DEF Apart, Standing
<1>4. Matches'
  <2>1. ASSUME NEW k \in Keys, cache'[k] # NoId
        PROVE  cache'[k] \in Ids /\ req'[cache'[k]].tool = k[1]
               /\ req'[cache'[k]].args = k[2]
    <3>1. cache'[k] = cache[k]
      BY <2>1
    <3> QED
      BY <1>0, <2>1, <3>1 DEF StdioInv, Matches
  <2> QED
    BY <1>0, <2>1 DEF StdioInv, Matches
<1> QED
  BY <1>1, <1>2, <1>3, <1>4 DEF StdioInv

\* The clock, the store, the child and the client's pipe move no call.
LEMMA SurroundingsInv ==
  ASSUME StdioInv,
         \/ Tick \/ (\E k \in Keys : Forget(k)) \/ ChildExit \/ Cancel \/ Eof
         \/ Return \/ UNCHANGED vars
  PROVE  StdioInv'
<1>1. TypeOK'
  BY RestType DEF StdioInv
<1>2. UNCHANGED boundVars
  BY DEF boundVars, Tick, Forget, ChildExit, Cancel, Eof, Return, vars, mapVars,
     envVars
<1>3. child' \subseteq child
  BY DEF Tick, Forget, ChildExit, Cancel, Eof, Return, vars
<1>4. \A k \in Keys : cache'[k] = cache[k] \/ cache'[k] = NoId
  BY DEF Tick, Forget, ChildExit, Cancel, Eof, Return, vars, StdioInv, TypeOK
<1> QED
  BY <1>1, <1>2, <1>3, <1>4, QuietStep

-----------------------------------------------------------------------------
(* The client pump.                                                        *)

\* A request that is looked up is fresh, or is handed to the child untracked.
LEMMA LookingInv ==
  ASSUME StdioInv, NEW i \in Ids, Looking(i)
  PROVE  StdioInv'
<1> USE DEF StdioInv
<1>0. /\ i \in unread /\ unread' = unread \ {i} /\ cp.at = "read"
      /\ cp'.at \in {"route", "write"} /\ cp'.id = i
      /\ UNCHANGED <<req, pending, key, flights, waiters, pp, sp, answers, child,
                     cache>>
  BY DEF Looking, PassThrough, LookupGated, LookupForward, Analysed, Scans,
     mapVars, envVars
<1>1. Apart(i) /\ Fresh(i)
  BY <1>0 DEF Accounts, Fresh
<1>2. i \notin child /\ key[i] = Untracked /\ ~Held(i) /\ answers[i] = <<>>
  BY <1>1 DEF Apart, Out
<1>3. TypeOK'
  BY LookupType
<1>4. Pumps'
  BY <1>0, <1>2 DEF Pumps
<1>5. Maps'
  BY <1>0 DEF Maps, Holder
<1>6. Accounts'
  <2> SUFFICES ASSUME NEW j \in Ids
               PROVE  Apart(j)' /\ (key'[j] # Untracked => Standing(j)')
    BY DEF Accounts
  <2>1. /\ Held(j)' <=> Held(j)
        /\ Attached(j)' <=> Attached(j)
        /\ Single(j, "own")' <=> Single(j, "own")
        /\ Single(j, "timeout")' <=> Single(j, "timeout")
        /\ Single(j, "coalesced")' <=> Single(j, "coalesced")
        /\ Double(j)' <=> Double(j)
    BY <1>0 DEF Held, Attached, Single, Double
  <2>2. Apart(j) /\ (key[j] # Untracked => Standing(j))
    BY DEF Accounts
  <2>3. CASE j # i
    <3>1. (Out(j)' <=> Out(j)) /\ (Fresh(j)' <=> Fresh(j))
      BY <1>0, <2>3 DEF Out, Fresh
    <3> QED
      BY <1>0, <2>1, <2>2, <3>1 DEF Apart, Standing
  <2>4. CASE j = i
    <3>1. Fresh(j)' => ~Out(j)'
      BY <1>0, <1>2, <2>4 DEF Out, Fresh
    <3> QED
      BY <1>0, <1>2, <2>1, <2>2, <2>4, <3>1 DEF Apart
  <2> QED
    BY <2>3, <2>4
<1>7. Matches'
  <2>1. cp'.at = "route" => cp'.hash = NoHash \/ cp'.hash = req'[cp'.id].args
    BY <1>0 DEF Looking, PassThrough, LookupGated, LookupForward
  <2> QED
    BY <1>0, <2>1 DEF Matches
<1> QED
  BY <1>3, <1>4, <1>5, <1>6, <1>7

\* A request answered from the store is answered with what was kept for the
\* same tool, under its fingerprint or one near enough.
LEMMA AnsweringInv ==
  ASSUME StdioInv, NEW i \in Ids, Answering(i)
  PROVE  StdioInv'
<1> USE DEF StdioInv
<1>0. /\ i \in unread /\ unread' = unread \ {i} /\ cp.at = "read"
      /\ UNCHANGED <<req, cp, pending, key, flights, waiters, pp, sp, child, cache>>
  BY DEF Answering, LookupReplay, LookupBlock, Analysed, Scans, mapVars, envVars
<1>1. Apart(i) /\ Fresh(i)
  BY <1>0 DEF Accounts, Fresh
<1>2. i \notin child /\ key[i] = Untracked /\ ~Held(i) /\ answers[i] = <<>>
  BY <1>1 DEF Apart, Out
<1>3. TypeOK'
  BY LookupType
<1>4. PICK f \in Frames :
        /\ answers'[i] = Append(answers[i], f)
        /\ \A j \in Ids \ {i} : answers'[j] = answers[j]
        /\ f.kind \in {"replay", "blocked"}
        /\ f.kind = "replay" => f.of \in Ids /\ Near(req[f.of], req[i])
  <2>1. CASE LookupBlock(i)
    <3>1. Frame("blocked", NoId) \in Frames /\ Frame("blocked", NoId).kind = "blocked"
      BY DEF Frame, Frames
    <3>2. /\ answers'[i] = Append(answers[i], Frame("blocked", NoId))
          /\ \A j \in Ids \ {i} : answers'[j] = answers[j]
      BY <2>1 DEF LookupBlock, WriteClient
    <3> QED
      BY <3>1, <3>2
  <2>2. CASE LookupReplay(i)
    <3>0. PICK h \in Hits(i) : WriteClient({i}, "replay", cache[<<req[i].tool, h>>])
      BY <2>2 DEF LookupReplay
    <3> DEFINE k == <<req[i].tool, h>>
    <3>1. /\ k \in Keys /\ cache[k] # NoId
          /\ h = req[i].args \/ <<req[i].args, h>> \in Similar[req[i].tool]
      <4>1. req[i].tool \in Tools
        BY <2>2, RequestFields DEF LookupReplay, Analysed, TypeOK
      <4> QED
        BY <3>0, <4>1, HitsFound DEF Keys
    <3>2. cache[k] \in Ids /\ req[cache[k]].tool = k[1] /\ req[cache[k]].args = k[2]
      BY <3>1 DEF Matches
    <3>3. Near(req[cache[k]], req[i])
      BY <3>1, <3>2 DEF Near
    <3>4. /\ answers'[i] = Append(answers[i], Frame("replay", cache[k]))
          /\ \A j \in Ids \ {i} : answers'[j] = answers[j]
      BY <3>0 DEF WriteClient
    <3>5. /\ Frame("replay", cache[k]) \in Frames
          /\ Frame("replay", cache[k]).kind = "replay"
          /\ Frame("replay", cache[k]).of = cache[k]
      BY <3>2 DEF Frame, Frames
    <3> HIDE DEF k
    <3> QED
      BY <3>2, <3>3, <3>4, <3>5
  <2> QED
    BY <2>1, <2>2 DEF Answering
<1>5. answers'[i] = <<f>>
  BY <1>2, <1>4
<1>6. Pumps'
  BY <1>0 DEF Pumps
<1>7. Maps'
  BY <1>0 DEF Maps, Holder
<1>8. Accounts'
  <2> SUFFICES ASSUME NEW j \in Ids
               PROVE  Apart(j)' /\ (key'[j] # Untracked => Standing(j)')
    BY DEF Accounts
  <2>1. /\ Held(j)' <=> Held(j)
        /\ Attached(j)' <=> Attached(j)
        /\ Out(j)' <=> Out(j)
    BY <1>0 DEF Held, Attached, Out
  <2>2. Apart(j) /\ (key[j] # Untracked => Standing(j))
    BY DEF Accounts
  <2>3. CASE j # i
    <3>1. /\ Single(j, "own")' <=> Single(j, "own")
          /\ Single(j, "timeout")' <=> Single(j, "timeout")
          /\ Single(j, "coalesced")' <=> Single(j, "coalesced")
          /\ Double(j)' <=> Double(j)
          /\ answers'[j] = answers[j]
      BY <1>4, <2>3 DEF Single, Double
    <3>2. Fresh(j)' <=> Fresh(j)
      BY <1>0, <2>3 DEF Fresh
    <3> QED
      BY <1>0, <2>1, <2>2, <3>1, <3>2 DEF Apart, Standing
  <2>4. CASE j = i
    <3>1. ~Fresh(j)'
      BY <1>0, <2>4 DEF Fresh
    <3> QED
      BY <1>0, <1>2, <2>1, <2>2, <2>4, <3>1 DEF Apart
  <2> QED
    BY <2>3, <2>4
<1>9. Matches'
  <2>1. ASSUME NEW j \in Ids, NEW n \in DOMAIN answers'[j]
        PROVE  LET g == answers'[j][n]
               IN  /\ g.kind = "replay" => g.of \in Ids /\ Near(req'[g.of], req'[j])
                   /\ g.kind = "coalesced" => /\ g.of \in Ids
                                              /\ key'[j] \in FlightKeys
                                              /\ key'[g.of] = key'[j]
    <3>1. CASE j # i
      BY <1>0, <1>4, <2>1, <3>1 DEF Matches
    <3>2. CASE j = i
      <4>1. answers'[j][n] = f
        BY <1>5, <2>1, <3>2
      <4> QED
        BY <1>0, <1>4, <3>2, <4>1
    <3> QED
      BY <3>1, <3>2
  <2> QED
    BY <1>0, <2>1 DEF Matches
<1> QED
  BY <1>3, <1>6, <1>7, <1>8, <1>9

\* The request the client pump is about to route is in no map and nowhere
\* else.
LEMMA RouteFresh ==
  ASSUME StdioInv, cp.at = "route"
  PROVE  /\ cp.id \in Ids /\ cp.hash \in FlightKeys
         /\ key[cp.id] = Untracked /\ answers[cp.id] = <<>>
         /\ ~Held(cp.id) /\ ~Attached(cp.id) /\ ~Holder(cp.id)
         /\ cp.id \notin child /\ cp.id \notin pending /\ cp.id \notin unread
         /\ cp.id \notin pp.waiters /\ cp.id \notin sp
         /\ cp.hash \in Hashes => req[cp.id].args = cp.hash
<1>1. cp.id \in Ids /\ cp.hash \in FlightKeys /\ cp.id \notin unread
  BY DEF StdioInv, TypeOK, Pumps
<1>2. Apart(cp.id) /\ Fresh(cp.id)
  BY <1>1 DEF StdioInv, Accounts, Fresh
<1>3. /\ key[cp.id] = Untracked /\ answers[cp.id] = <<>> /\ ~Held(cp.id)
      /\ ~Attached(cp.id) /\ cp.id \notin pending /\ cp.id \notin pp.waiters
      /\ cp.id \notin sp /\ ~Out(cp.id)
  BY <1>2 DEF Apart
<1>4. ~Holder(cp.id) /\ cp.id \notin child
  BY <1>3 DEF Holder, Held, Out
<1>5. cp.hash \in Hashes => req[cp.id].args = cp.hash
  BY SentinelAssumption DEF StdioInv, Matches
<1> QED
  BY <1>1, <1>3, <1>4, <1>5

\* Giving a fresh request its key leaves every answer and wait where it
\* belongs.
LEMMA KeyGiven ==
  ASSUME StdioInv, cp.at = "route",
         key' = [key EXCEPT ![cp.id] = cp.hash],
         UNCHANGED <<req, pp, cache, answers>>, cp'.at # "route",
         \A h \in FlightKeys : \A j \in waiters'[h] :
           j \in waiters[h] \/ (j = cp.id /\ h = cp.hash)
  PROVE  Matches'
<1> DEFINE i == cp.id
<1>0. /\ i \in Ids /\ cp.hash \in FlightKeys /\ key[i] = Untracked
      /\ answers[i] = <<>> /\ ~Held(i) /\ ~Attached(i) /\ i \notin pp.waiters
      /\ cp.hash \in Hashes => req[i].args = cp.hash
  BY RouteFresh
<1> HIDE DEF i
<1>1. key'[i] = cp.hash /\ \A j \in Ids \ {i} : key'[j] = key[j]
  BY <1>0 DEF StdioInv, TypeOK, i
<1>2. \A j \in Ids : key'[j] \in Hashes => req'[j].args = key'[j]
  <2> SUFFICES ASSUME NEW j \in Ids, key'[j] \in Hashes
               PROVE  req'[j].args = key'[j]
    OBVIOUS
  <2> QED
    BY <1>0, <1>1 DEF StdioInv, Matches
<1>3. ASSUME NEW h \in FlightKeys, NEW j \in waiters'[h] PROVE key'[j] = h
  <2>1. CASE j \in waiters[h]
    <3>1. j # i /\ j \in Ids
      BY <1>0, <2>1 DEF Attached, StdioInv, TypeOK
    <3> QED
      BY <1>1, <2>1, <3>1 DEF StdioInv, Matches
  <2>2. CASE j = cp.id /\ h = cp.hash
    BY <1>1, <2>2 DEF i
  <2> QED
    BY <2>1, <2>2
<1>4. ASSUME NEW j \in pp.waiters PROVE key'[j] = key'[pp.id]
  <2>1. pp.at = "fanout" /\ pp.id \in Ids /\ pp.id # i /\ j # i /\ j \in Ids
    BY <1>0 DEF StdioInv, Pumps, Held, TypeOK
  <2> QED
    BY <1>1, <2>1 DEF StdioInv, Matches
<1>5. ASSUME NEW j \in Ids, NEW n \in DOMAIN answers[j]
      PROVE  LET f == answers[j][n]
             IN  /\ f.kind = "replay" => f.of \in Ids /\ Near(req[f.of], req[j])
                 /\ f.kind = "coalesced" => /\ f.of \in Ids /\ key'[j] \in FlightKeys
                                            /\ key'[f.of] = key'[j]
  <2> DEFINE f == answers[j][n]
  <2>1. /\ f.kind = "replay" => f.of \in Ids /\ Near(req[f.of], req[j])
        /\ f.kind = "coalesced" => /\ f.of \in Ids /\ key[j] \in FlightKeys
                                   /\ key[f.of] = key[j]
    BY DEF StdioInv, Matches
  <2>2. j # i
    BY <1>0
  <2>3. f.kind = "coalesced" => f.of # i
    BY <1>0, <2>1, SentinelAssumption
  <2> HIDE DEF f
  <2>4. /\ f.kind = "replay" => f.of \in Ids /\ Near(req[f.of], req[j])
        /\ f.kind = "coalesced" => /\ f.of \in Ids /\ key'[j] \in FlightKeys
                                   /\ key'[f.of] = key'[j]
    BY <1>1, <2>1, <2>2, <2>3
  <2> QED
    BY <2>4 DEF f
<1> QED
  BY <1>2, <1>3, <1>4, <1>5 DEF StdioInv, Matches

\* The calls other than the one being routed stand as they stood.
LEMMA OthersStand ==
  ASSUME StdioInv, NEW j \in Ids, j # cp.id, cp.at = "route",
         key'[j] = key[j], UNCHANGED <<unread, child, pp, sp, answers>>,
         cp'.at # "route", cp'.at = "write" => cp'.id = cp.id,
         pending' = pending \/ pending' = pending \cup {cp.id},
         Attached(j)' <=> Attached(j)
  PROVE  Apart(j)' /\ (key'[j] # Untracked => Standing(j)')
<1>1. Apart(j) /\ (key[j] # Untracked => Standing(j))
  BY DEF StdioInv, Accounts
<1>2. /\ Held(j)' <=> Held(j)
      /\ Out(j)' <=> Out(j)
      /\ Fresh(j)' <=> Fresh(j)
      /\ Single(j, "own")' <=> Single(j, "own")
      /\ Single(j, "timeout")' <=> Single(j, "timeout")
      /\ Single(j, "coalesced")' <=> Single(j, "coalesced")
      /\ Double(j)' <=> Double(j)
      /\ j \in pending' <=> j \in pending
  BY DEF Held, Out, Fresh, Single, Double
<1> QED
  BY <1>1, <1>2 DEF Apart, Standing

\* A duplicate joins the flight of its key.
LEMMA JoinInv ==
  ASSUME StdioInv, Join
  PROVE  StdioInv'
<1> DEFINE i == cp.id
<1>0. /\ cp.at = "route" /\ cp.hash \in flights
      /\ key' = [key EXCEPT ![cp.id] = cp.hash]
      /\ waiters' = [waiters EXCEPT ![cp.hash] = @ \cup {cp.id}]
      /\ cp'.at = "read"
      /\ UNCHANGED <<unread, pending, flights, child, pp, sp, cache, answers, req>>
  BY DEF Join, Reading, envVars
<1>1. /\ i \in Ids /\ cp.hash \in FlightKeys /\ key[i] = Untracked
      /\ answers[i] = <<>> /\ ~Held(i) /\ ~Attached(i) /\ ~Holder(i)
      /\ i \notin child /\ i \notin pending /\ i \notin unread
      /\ i \notin pp.waiters /\ i \notin sp
  BY <1>0, RouteFresh
<1> HIDE DEF i
<1>2. key'[i] = cp.hash /\ \A j \in Ids \ {i} : key'[j] = key[j]
  BY <1>0, <1>1 DEF StdioInv, TypeOK, i
<1>3. \A h \in FlightKeys : waiters'[h] = IF h = cp.hash THEN waiters[h] \cup {i}
                                                         ELSE waiters[h]
  BY <1>0 DEF StdioInv, TypeOK, i
<1>4. TypeOK'
  BY RouteType DEF StdioInv
<1>5. Pumps'
  <2>1. pp.at \in {"cache", "collect"} => key'[pp.id] # Untracked
    BY <1>1, <1>2 DEF StdioInv, Pumps, Held
  <2> QED
    BY <1>0, <2>1 DEF StdioInv, Pumps
<1>6. Maps'
  <2>1. \A j \in Ids : (Holder(j)' <=> Holder(j)) /\ (Holder(j) => j # i)
    BY <1>0, <1>1 DEF Holder
  <2> QED
    BY <1>0, <1>2, <1>3, <2>1 DEF StdioInv, Maps
<1>7. Accounts'
  <2> SUFFICES ASSUME NEW j \in Ids
               PROVE  Apart(j)' /\ (key'[j] # Untracked => Standing(j)')
    BY DEF Accounts
  <2>1. CASE j # i
    <3>1. Attached(j)' <=> Attached(j)
      BY <1>3, <2>1 DEF Attached
    <3> QED
      BY <1>0, <1>2, <2>1, <3>1, OthersStand DEF i
  <2>2. CASE j = i
    <3>1. Attached(j)'
      BY <1>1, <1>3, <2>2 DEF Attached
    <3>2. ~Held(j)' /\ ~Out(j)' /\ ~Fresh(j)'
      BY <1>0, <1>1, <2>2 DEF Held, Out, Fresh
    <3>3. key'[i] # Untracked
      BY <1>1, <1>2, SentinelAssumption
    <3> QED
      BY <1>0, <1>1, <2>2, <3>1, <3>2, <3>3 DEF Apart, Standing
  <2> QED
    BY <2>1, <2>2
<1>8. Matches'
  <2>1. \A h \in FlightKeys : \A j \in waiters'[h] :
          j \in waiters[h] \/ (j = cp.id /\ h = cp.hash)
    BY <1>3 DEF i
  <2> QED
    BY <1>0, <2>1, KeyGiven
<1> QED
  BY <1>4, <1>5, <1>6, <1>7, <1>8 DEF StdioInv

\* The first call with a key opens its flight.
LEMMA LeadInv ==
  ASSUME StdioInv, Lead
  PROVE  StdioInv'
<1> DEFINE i == cp.id
<1>0. /\ cp.at = "route" /\ cp.hash \notin flights
      /\ key' = [key EXCEPT ![cp.id] = cp.hash]
      /\ pending' = pending \cup {cp.id} /\ flights' = flights \cup {cp.hash}
      /\ waiters' = [waiters EXCEPT ![cp.hash] = {}]
      /\ cp'.at = "write" /\ cp'.id = cp.id
      /\ UNCHANGED <<unread, child, pp, sp, cache, answers, req>>
  BY DEF Lead, StdioInv, TypeOK, envVars
<1>1. /\ i \in Ids /\ cp.hash \in FlightKeys /\ key[i] = Untracked
      /\ answers[i] = <<>> /\ ~Held(i) /\ ~Attached(i) /\ ~Holder(i)
      /\ i \notin child /\ i \notin pending /\ i \notin unread
      /\ i \notin pp.waiters /\ i \notin sp
  BY <1>0, RouteFresh
<1> HIDE DEF i
<1>2. key'[i] = cp.hash /\ \A j \in Ids \ {i} : key'[j] = key[j]
  BY <1>0, <1>1 DEF StdioInv, TypeOK, i
<1>3. \A h \in FlightKeys : waiters'[h] = waiters[h]
  BY <1>0, <1>1 DEF StdioInv, TypeOK, Maps
<1>4. TypeOK'
  BY RouteType DEF StdioInv
<1>5. Pumps'
  <2>1. pp.at \in {"cache", "collect"} => key'[pp.id] # Untracked
    BY <1>1, <1>2 DEF StdioInv, Pumps, Held
  <2> QED
    BY <1>0, <1>1, <2>1 DEF StdioInv, Pumps, i
<1>6. Maps'
  <2>1. \A j \in Ids : Holder(j)' <=> (Holder(j) \/ j = i)
    BY <1>0, <1>1 DEF Holder, i
  <2>2. \A j \in Ids : Holder(j) => j # i /\ key'[j] = key[j] /\ key[j] \in flights
    BY <1>1, <1>2 DEF StdioInv, Maps
  <2>3. \A j \in Ids : Holder(j)' => key'[j] \in flights'
    BY <1>0, <1>2, <2>1, <2>2
  <2>4. ASSUME NEW h \in flights' PROVE \E j \in Ids : Holder(j)' /\ key'[j] = h
    <3>1. CASE h = cp.hash
      BY <1>1, <1>2, <2>1, <3>1
    <3>2. CASE h \in flights
      BY <2>1, <2>2, <3>2 DEF StdioInv, Maps
    <3> QED
      BY <1>0, <3>1, <3>2
  <2>5. ASSUME NEW j \in Ids, NEW k \in Ids, Holder(j)', Holder(k)',
               key'[j] = key'[k]
        PROVE  j = k
    BY <1>0, <1>2, <2>1, <2>2, <2>5 DEF StdioInv, Maps
  <2> QED
    BY <1>0, <1>3, <2>3, <2>4, <2>5 DEF StdioInv, Maps
<1>7. Accounts'
  <2> SUFFICES ASSUME NEW j \in Ids
               PROVE  Apart(j)' /\ (key'[j] # Untracked => Standing(j)')
    BY DEF Accounts
  <2>0. Attached(j)' <=> Attached(j)
    BY <1>3 DEF Attached
  <2>1. CASE j # i
    BY <1>0, <1>2, <2>0, <2>1, OthersStand DEF i
  <2>2. CASE j = i
    <3>1. ~Held(j)' /\ ~Fresh(j)' /\ j \in pending'
      BY <1>0, <1>1, <2>2 DEF Held, Fresh, i
    <3>2. key'[i] # Untracked
      BY <1>1, <1>2, SentinelAssumption
    <3> QED
      BY <1>0, <1>1, <2>0, <2>2, <3>1, <3>2 DEF Apart, Standing
  <2> QED
    BY <2>1, <2>2
<1>8. Matches'
  <2>1. \A h \in FlightKeys : \A j \in waiters'[h] :
          j \in waiters[h] \/ (j = cp.id /\ h = cp.hash)
    BY <1>3
  <2> QED
    BY <1>0, <2>1, KeyGiven
<1> QED
  BY <1>4, <1>5, <1>6, <1>7, <1>8 DEF StdioInv

\* Writing a request to the child moves it from one hand to the other.
LEMMA WriteChildInv ==
  ASSUME StdioInv, WriteChild
  PROVE  StdioInv'
<1>0. /\ cp.at = "write" /\ cp'.at = "read"
      /\ child' = child \/ child' = child \cup {cp.id}
      /\ UNCHANGED <<unread, req, pending, key, flights, waiters, pp, sp, cache,
                     answers>>
  BY DEF WriteChild, Reading, mapVars, envVars
<1>1. TypeOK'
  BY RouteType DEF StdioInv
<1>2. Pumps'
  BY <1>0 DEF StdioInv, Pumps
<1>3. Maps'
  BY <1>0 DEF StdioInv, Maps, Holder
<1>4. Accounts'
  <2> SUFFICES ASSUME NEW j \in Ids
               PROVE  Apart(j)' /\ (key'[j] # Untracked => Standing(j)')
    BY DEF Accounts
  <2>1. /\ Held(j)' <=> Held(j)
        /\ Attached(j)' <=> Attached(j)
        /\ Fresh(j)' <=> Fresh(j)
        /\ Single(j, "own")' <=> Single(j, "own")
        /\ Single(j, "timeout")' <=> Single(j, "timeout")
        /\ Single(j, "coalesced")' <=> Single(j, "coalesced")
        /\ Double(j)' <=> Double(j)
    BY <1>0 DEF Held, Attached, Fresh, Single, Double
  <2>2. Out(j)' => Out(j)
    BY <1>0 DEF Out
  <2>3. Apart(j) /\ (key[j] # Untracked => Standing(j))
    BY DEF StdioInv, Accounts
  <2> QED
    BY <1>0, <2>1, <2>2, <2>3 DEF Apart, Standing
<1>5. Matches'
  BY <1>0 DEF StdioInv, Matches
<1> QED
  BY <1>1, <1>2, <1>3, <1>4, <1>5 DEF StdioInv

-----------------------------------------------------------------------------
(* The child pump.                                                         *)

\* The child's answer to a pending call takes it out of the map; any other
\* answer is passed on.
LEMMA RespondInv ==
  ASSUME StdioInv, NEW i \in Ids, Respond(i)
  PROVE  StdioInv'
<1>0. /\ pp.at = "scan" /\ i \in child /\ child' = child \ {i}
      /\ pp'.at = (IF i \in pending THEN "cache" ELSE "fanout") /\ pp'.id = i
      /\ pp'.waiters = {} /\ pending' = pending \ {i}
      /\ UNCHANGED <<unread, req, cp, key, flights, waiters, sp, cache, answers>>
  BY DEF Respond, envVars
<1>1. Apart(i) /\ (key[i] # Untracked => Standing(i)) /\ pp.waiters = {}
  BY <1>0 DEF StdioInv, Accounts, Pumps
<1>2. ~Fresh(i) /\ Out(i) /\ (i \in pending => key[i] # Untracked)
  BY <1>0, <1>1 DEF Apart, Out
<1>3. TypeOK'
  BY PumpType DEF StdioInv
<1>4. Pumps'
  BY <1>0, <1>2 DEF StdioInv, Pumps
<1>5. Maps'
  <2>1. \A j \in Ids : Holder(j)' <=> Holder(j)
    BY <1>0 DEF Holder
  <2> QED
    BY <1>0, <2>1 DEF StdioInv, Maps
<1>6. Accounts'
  <2> SUFFICES ASSUME NEW j \in Ids
               PROVE  Apart(j)' /\ (key'[j] # Untracked => Standing(j)')
    BY DEF Accounts
  <2>1. /\ Attached(j)' <=> Attached(j)
        /\ Fresh(j)' <=> Fresh(j)
        /\ Single(j, "own")' <=> Single(j, "own")
        /\ Single(j, "timeout")' <=> Single(j, "timeout")
        /\ Single(j, "coalesced")' <=> Single(j, "coalesced")
        /\ Double(j)' <=> Double(j)
        /\ ~Held(j)
    BY <1>0 DEF Held, Attached, Fresh, Single, Double
  <2>2. Apart(j) /\ (key[j] # Untracked => Standing(j))
    BY DEF StdioInv, Accounts
  <2>3. CASE j # i
    <3>1. ~Held(j)' /\ (Out(j)' <=> Out(j))
      BY <1>0, <2>3 DEF Held, Out
    <3> QED
      BY <1>0, <1>1, <2>1, <2>2, <2>3, <3>1 DEF Apart, Standing
  <2>4. CASE j = i
    <3>1. Held(j)' /\ ~Out(j)'
      BY <1>0, <2>4 DEF Held, Out, StdioInv, Pumps
    <3> QED
      BY <1>0, <1>1, <1>2, <2>1, <2>4, <3>1 DEF Apart, Standing
  <2> QED
    BY <2>3, <2>4
<1>7. Matches'
  BY <1>0 DEF StdioInv, Matches
<1> QED
  BY <1>3, <1>4, <1>5, <1>6, <1>7 DEF StdioInv

\* What Pipeline.Cache writes is the answer to the call whose tool and
\* fingerprint it is filed under.
LEMMA CacheResponseInv ==
  ASSUME StdioInv, CacheResponse
  PROVE  StdioInv'
<1> DEFINE r == req[pp.id]
<1>0. /\ pp.at = "cache" /\ pp'.at = "collect" /\ pp'.id = pp.id
      /\ pp'.waiters = pp.waiters
      /\ UNCHANGED <<unread, req, cp, pending, key, flights, waiters, child, sp,
                     answers>>
  BY DEF CacheResponse, StdioInv, TypeOK, mapVars, envVars
<1>1. TypeOK'
  BY PumpType DEF StdioInv
<1>2. Pumps'
  BY <1>0 DEF StdioInv, Pumps
<1>3. Maps'
  <2>1. \A j \in Ids : Holder(j)' <=> Holder(j)
    BY <1>0 DEF Holder
  <2> QED
    BY <1>0, <2>1 DEF StdioInv, Maps
<1>4. Accounts'
  <2> SUFFICES ASSUME NEW j \in Ids
               PROVE  Apart(j)' /\ (key'[j] # Untracked => Standing(j)')
    BY DEF Accounts
  <2>1. /\ Held(j)' <=> Held(j)
        /\ Attached(j)' <=> Attached(j)
        /\ Out(j)' <=> Out(j)
        /\ Fresh(j)' <=> Fresh(j)
        /\ Single(j, "own")' <=> Single(j, "own")
        /\ Single(j, "timeout")' <=> Single(j, "timeout")
        /\ Single(j, "coalesced")' <=> Single(j, "coalesced")
        /\ Double(j)' <=> Double(j)
    BY <1>0 DEF Held, Attached, Out, Fresh, Single, Double
  <2>2. Apart(j) /\ (key[j] # Untracked => Standing(j))
    BY DEF StdioInv, Accounts
  <2> QED
    BY <1>0, <2>1, <2>2 DEF Apart, Standing
<1>5. Matches'
  <2>1. ASSUME NEW k \in Keys, cache'[k] # NoId
        PROVE  cache'[k] \in Ids /\ req[cache'[k]].tool = k[1]
               /\ req[cache'[k]].args = k[2]
    <3>1. CASE cache'[k] = cache[k]
      BY <2>1, <3>1 DEF StdioInv, Matches
    <3>2. CASE cache'[k] # cache[k]
      <4>1. cache' = [cache EXCEPT ![<<r.tool, r.args>>] = pp.id]
        BY <3>2 DEF CacheResponse
      <4>2. k = <<r.tool, r.args>> /\ cache'[k] = pp.id
        BY <2>1, <3>2, <4>1 DEF StdioInv, TypeOK
      <4> QED
        BY <1>0, <4>2 DEF StdioInv, Pumps
    <3> QED
      BY <3>1, <3>2
  <2> QED
    BY <1>0, <2>1 DEF StdioInv, Matches
<1> QED
  BY <1>1, <1>2, <1>3, <1>4, <1>5 DEF StdioInv

\* Whoever waits, waits under its own key.
LEMMA AttachedByKey ==
  ASSUME StdioInv, NEW j \in Ids
  PROVE  /\ Attached(j) <=> (key[j] \in FlightKeys /\ j \in waiters[key[j]])
         /\ \A h \in FlightKeys : j \in waiters[h] => key[j] = h
BY DEF StdioInv, Matches, Attached

\* The child pump closes the flight and takes over its waiters.
LEMMA CollectInv ==
  ASSUME StdioInv, Collect
  PROVE  StdioInv'
<1>1. PICK l \in Ids, k \in FlightKeys : pp.id = l /\ key[l] = k /\ k \in flights
  <2>1. pp.id \in Ids /\ Holder(pp.id)
    BY DEF Collect, StdioInv, Pumps, Holder
  <2>2. key[pp.id] \in flights /\ key[pp.id] \in FlightKeys
    BY <2>1 DEF StdioInv, Maps, TypeOK
  <2> QED
    BY <2>1, <2>2
<1>0. /\ pp.at = "collect" /\ pp'.at = "fanout" /\ pp'.id = l
      /\ pp'.waiters = waiters[k] /\ flights' = flights \ {k}
      /\ waiters' = [waiters EXCEPT ![k] = {}]
      /\ UNCHANGED <<unread, req, cp, pending, key, child, sp, cache, answers>>
  BY <1>1 DEF Collect, StdioInv, TypeOK, envVars
<1>2. \A h \in FlightKeys : waiters'[h] = IF h = k THEN {} ELSE waiters[h]
  BY <1>0 DEF StdioInv, TypeOK
<1>3. key[l] # Untracked /\ Standing(l) /\ Held(l) /\ pp.waiters = {}
  BY <1>0, <1>1, SentinelAssumption DEF StdioInv, Accounts, Held, Pumps
<1>4. l \notin pending /\ ~Attached(l) /\ l \notin waiters[k]
  BY <1>0, <1>3 DEF Standing, Attached
<1>5. TypeOK'
  BY PumpType DEF StdioInv
<1>6. Pumps'
  BY <1>0 DEF StdioInv, Pumps
<1>7. Maps'
  <2>1. \A j \in Ids : Holder(j)' => Holder(j) /\ j # l
    BY <1>0, <1>4 DEF Holder
  <2>2. Holder(l) /\ \A j \in Ids : Holder(j) /\ j # l => Holder(j)'
    BY <1>0, <1>1 DEF Holder
  <2>3. \A j \in Ids : Holder(j)' => key[j] \in flights'
    BY <1>0, <1>1, <2>1, <2>2 DEF StdioInv, Maps
  <2>4. \A h \in flights' : \E j \in Ids : Holder(j)' /\ key[j] = h
    BY <1>0, <1>1, <2>2 DEF StdioInv, Maps
  <2>5. \A h \in FlightKeys : h \notin flights' => waiters'[h] = {}
    BY <1>0, <1>2 DEF StdioInv, Maps
  <2> QED
    BY <1>0, <2>1, <2>3, <2>4, <2>5 DEF StdioInv, Maps
<1>8. Accounts'
  <2> SUFFICES ASSUME NEW j \in Ids
               PROVE  Apart(j)' /\ (key'[j] # Untracked => Standing(j)')
    BY DEF Accounts
  <2>1. /\ Held(j)' <=> Held(j)
        /\ Out(j)' <=> Out(j)
        /\ Fresh(j)' <=> Fresh(j)
        /\ Single(j, "own")' <=> Single(j, "own")
        /\ Single(j, "timeout")' <=> Single(j, "timeout")
        /\ Single(j, "coalesced")' <=> Single(j, "coalesced")
        /\ Double(j)' <=> Double(j)
    BY <1>0, <1>1 DEF Held, Out, Fresh, Single, Double
  <2>2. Apart(j) /\ (key[j] # Untracked => Standing(j))
    BY DEF StdioInv, Accounts
  <2>3. CASE j \in waiters[k]
    <3>1. Attached(j) /\ key[j] = k /\ ~Attached(j)' /\ j \in pp'.waiters
      BY <1>0, <1>2, <2>3, AttachedByKey DEF Attached
    <3> QED
      BY <1>0, <1>1, <1>3, <2>1, <2>2, <3>1 DEF Apart, Standing
  <2>4. CASE j \notin waiters[k]
    <3>1. (Attached(j)' <=> Attached(j)) /\ j \notin pp'.waiters
      BY <1>0, <1>2, <2>4 DEF Attached
    <3> QED
      BY <1>0, <1>3, <2>1, <2>2, <3>1 DEF Apart, Standing
  <2> QED
    BY <2>3, <2>4
<1>9. Matches'
  <2>1. \A h \in FlightKeys : \A j \in waiters'[h] : key'[j] = h
    BY <1>0, <1>2 DEF StdioInv, Matches
  <2>2. \A j \in pp'.waiters : key'[j] = key'[pp'.id]
    BY <1>0, <1>1 DEF StdioInv, Matches
  <2> QED
    BY <1>0, <2>1, <2>2 DEF StdioInv, Matches
<1> QED
  BY <1>5, <1>6, <1>7, <1>8, <1>9 DEF StdioInv

\* One more frame, after none or after one of the other kind.
LEMMA FrameAdded ==
  ASSUME NEW j \in Ids, answers[j] \in Seq(Frames), NEW f \in Frames,
         answers'[j] = Append(answers[j], f)
  PROVE  /\ \A k : answers[j] = <<>> /\ f.kind = k => Single(j, k)'
         /\ Single(j, "own") /\ f.kind = "timeout" => Double(j)'
         /\ Single(j, "timeout") /\ f.kind = "own" => Double(j)'
<1>1. /\ Len(answers'[j]) = Len(answers[j]) + 1
      /\ answers'[j][Len(answers[j]) + 1] = f
      /\ \A n \in 1..Len(answers[j]) : answers'[j][n] = answers[j][n]
  OBVIOUS
<1>2. answers[j] = <<>> => Len(answers[j]) = 0
  OBVIOUS
<1>3. \A k : answers[j] = <<>> /\ f.kind = k => Single(j, k)'
  BY <1>1, <1>2 DEF Single
<1>4. ASSUME Len(answers[j]) = 1
      PROVE  /\ Len(answers'[j]) = 2 /\ answers'[j][2] = f
             /\ answers'[j][1] = answers[j][1]
  BY <1>1, <1>4
<1> QED
  BY <1>3, <1>4 DEF Single, Double

\* A frame added to those of j belongs there if it is no replay and, where it
\* is another call's answer, that call has the same key.
LEMMA FrameMatches ==
  ASSUME StdioInv, NEW j \in Ids, NEW f \in Frames, UNCHANGED <<req, key>>,
         answers'[j] = answers[j] \/ answers'[j] = Append(answers[j], f),
         f.kind # "replay",
         f.kind = "coalesced" => /\ f.of \in Ids /\ key[j] \in FlightKeys
                                 /\ key[f.of] = key[j]
  PROVE  \A n \in DOMAIN answers'[j] :
           LET g == answers'[j][n]
           IN  /\ g.kind = "replay" => g.of \in Ids /\ Near(req'[g.of], req'[j])
               /\ g.kind = "coalesced" => /\ g.of \in Ids /\ key'[j] \in FlightKeys
                                          /\ key'[g.of] = key'[j]
<1> SUFFICES ASSUME NEW n \in DOMAIN answers'[j]
             PROVE  LET g == answers'[j][n]
                    IN  /\ g.kind = "replay" => g.of \in Ids /\ Near(req[g.of], req[j])
                        /\ g.kind = "coalesced" => /\ g.of \in Ids
                                                   /\ key[j] \in FlightKeys
                                                   /\ key[g.of] = key[j]
  OBVIOUS
<1>1. answers[j] \in Seq(Frames)
  BY DEF StdioInv, TypeOK
<1>2. (n \in DOMAIN answers[j] /\ answers'[j][n] = answers[j][n])
      \/ answers'[j][n] = f
  BY <1>1
<1>3. CASE n \in DOMAIN answers[j] /\ answers'[j][n] = answers[j][n]
  BY <1>3 DEF StdioInv, Matches
<1>4. CASE answers'[j][n] = f
  BY <1>4
<1> QED
  BY <1>2, <1>3, <1>4

\* The fan-out answers the leader with its own answer and the waiters it took
\* over with the same one.
LEMMA FanOutInv ==
  ASSUME StdioInv, FanOut
  PROVE  StdioInv'
<1>1. PICK l \in Ids : pp.id = l
  BY DEF FanOut, StdioInv, Pumps
<1>0. /\ pp.at = "fanout" /\ pp'.at = "scan" /\ pp'.waiters = {}
      /\ UNCHANGED <<unread, req, cp, pending, key, flights, waiters, child, sp,
                     cache>>
  BY DEF FanOut, Scanning, mapVars, envVars
<1>2. /\ answers'[l] = Append(answers[l], Frame("own", l))
      /\ \A j \in pp.waiters \ {l} :
           answers'[j] = Append(answers[j], Frame("coalesced", l))
      /\ \A j \in Ids \ (pp.waiters \cup {l}) : answers'[j] = answers[j]
  <2>1. pp.waiters \subseteq Ids
    BY DEF StdioInv, TypeOK
  <2> QED
    BY <1>1, <2>1 DEF FanOut
<1>3. /\ Frame("own", l) \in Frames /\ Frame("own", l).kind = "own"
      /\ Frame("coalesced", l) \in Frames /\ Frame("coalesced", l).kind = "coalesced"
      /\ Frame("coalesced", l).of = l
  BY DEF Frame, Frames
<1>4. TypeOK'
  BY PumpType DEF StdioInv
<1>5. Pumps'
  BY <1>0 DEF StdioInv, Pumps
<1>6. Maps'
  <2>1. \A j \in Ids : Holder(j)' <=> Holder(j)
    BY <1>0 DEF Holder
  <2> QED
    BY <1>0, <2>1 DEF StdioInv, Maps
<1>7. Accounts'
  <2> SUFFICES ASSUME NEW j \in Ids
               PROVE  Apart(j)' /\ (key'[j] # Untracked => Standing(j)')
    BY DEF Accounts
  <2>1. /\ Attached(j)' <=> Attached(j)
        /\ Out(j)' <=> Out(j)
        /\ Fresh(j)' <=> Fresh(j)
        /\ ~Held(j)'
        /\ Held(j) <=> j = l
    BY <1>0, <1>1 DEF Held, Attached, Out, Fresh
  <2>2. Apart(j) /\ (key[j] # Untracked => Standing(j)) /\ answers[j] \in Seq(Frames)
    BY DEF StdioInv, Accounts, TypeOK
  <2>3. CASE j = l
    <3>1. /\ answers[j] = <<>> => Single(j, "own")'
          /\ Single(j, "timeout") => Double(j)'
      BY <1>2, <1>3, <2>2, <2>3, FrameAdded
    <3> QED
      BY <1>0, <2>1, <2>2, <2>3, <3>1 DEF Apart, Standing
  <2>4. CASE j # l /\ j \in pp.waiters
    <3>1. answers[j] = <<>> => Single(j, "coalesced")'
      BY <1>2, <1>3, <2>2, <2>4, FrameAdded
    <3> QED
      BY <1>0, <2>1, <2>2, <2>4, <3>1 DEF Apart, Standing
  <2>5. CASE j # l /\ j \notin pp.waiters
    <3>0. answers'[j] = answers[j]
      BY <1>2, <2>5
    <3>1. /\ Single(j, "own")' <=> Single(j, "own")
          /\ Single(j, "timeout")' <=> Single(j, "timeout")
          /\ Single(j, "coalesced")' <=> Single(j, "coalesced")
          /\ Double(j)' <=> Double(j)
      BY <3>0 DEF Single, Double
    <3> QED
      BY <1>0, <2>1, <2>2, <2>5, <3>0, <3>1 DEF Apart, Standing
  <2> QED
    BY <2>3, <2>4, <2>5
<1>8. Matches'
  <2>1. ASSUME NEW j \in Ids
        PROVE  \A n \in DOMAIN answers'[j] :
                 LET g == answers'[j][n]
                 IN  /\ g.kind = "replay" => g.of \in Ids /\ Near(req'[g.of], req'[j])
                     /\ g.kind = "coalesced" => /\ g.of \in Ids
                                                /\ key'[j] \in FlightKeys
                                                /\ key'[g.of] = key'[j]
    <3>1. CASE j \in pp.waiters \ {l}
      <4>1. key[l] = key[j] /\ key[j] # Untracked /\ key[j] \in FlightKeys
        BY <1>1, <3>1 DEF StdioInv, Matches, Accounts, Apart, TypeOK
      <4> QED
        BY <1>0, <1>2, <1>3, <3>1, <4>1, FrameMatches
    <3>2. CASE j \notin pp.waiters \ {l}
      BY <1>0, <1>2, <1>3, <3>2, FrameMatches
    <3> QED
      BY <3>1, <3>2
  <2> QED
    BY <1>0, <2>1 DEF StdioInv, Matches
<1> QED
  BY <1>4, <1>5, <1>6, <1>7, <1>8 DEF StdioInv

-----------------------------------------------------------------------------
(* The sweeper.                                                            *)

\* Overdue leaders leave with their flights and all their waiters.
LEMMA SweepInv ==
  ASSUME StdioInv, Sweep
  PROVE  StdioInv'
<1> DEFINE over == {key[i] : i \in Overdue}
<1>0. /\ sp = {} /\ pending' = pending \ Overdue /\ flights' = flights \ over
      /\ UNCHANGED <<unread, req, cp, key, child, pp, cache, answers>>
      /\ Overdue \subseteq pending /\ pending \subseteq Ids
  BY DEF Sweep, envVars, Overdue, StdioInv, TypeOK
<1>1. \A h \in FlightKeys : waiters'[h] = IF h \in over THEN {} ELSE waiters[h]
  BY DEF Sweep
<1>2. \A i \in Overdue : key[i] \in flights /\ key[i] \in FlightKeys
  BY <1>0 DEF StdioInv, Maps, Holder, TypeOK
<1>3. \A j \in Ids : j \in sp' <=> \/ j \in Overdue
                                   \/ Attached(j) /\ key[j] \in over
  <2> SUFFICES ASSUME NEW j \in Ids
               PROVE  j \in sp' <=> \/ j \in Overdue
                                    \/ Attached(j) /\ key[j] \in over
    OBVIOUS
  <2>1. j \in sp' <=> \/ j \in Overdue
                      \/ \E i \in Overdue : key[i] \in flights /\ j \in waiters[key[i]]
    BY DEF Sweep
  <2>2. (\E i \in Overdue : key[i] \in flights /\ j \in waiters[key[i]])
          <=> Attached(j) /\ key[j] \in over
    BY <1>2, AttachedByKey
  <2> QED
    BY <2>1, <2>2
<1>4. TypeOK'
  BY RestType DEF StdioInv
<1> HIDE DEF over
<1>5. Pumps'
  BY <1>0 DEF StdioInv, Pumps
<1>6. Maps'
  <2>1. \A j \in Ids : Holder(j)' => Holder(j)
    BY <1>0 DEF Holder
  <2>2. \A j \in Ids : Holder(j) /\ j \notin Overdue => Holder(j)'
    BY <1>0 DEF Holder
  <2>3. \A j \in Overdue : Holder(j) /\ j \in Ids
    BY <1>0 DEF Holder
  <2>4. ASSUME NEW j \in Ids, Holder(j)' PROVE key[j] \notin over
    <3>1. ASSUME NEW i \in Overdue, key[i] = key[j] PROVE FALSE
      <4>1. i = j
        BY <2>1, <2>3, <2>4, <3>1 DEF StdioInv, Maps
      <4>2. j \in pending /\ key[j] # Untracked /\ Standing(j)
        BY <1>0, <1>2, <4>1, SentinelAssumption DEF StdioInv, Accounts
      <4>3. ~Held(j) /\ j \notin pending'
        BY <1>0, <4>1, <4>2 DEF Standing
      <4> QED
        BY <1>0, <2>4, <4>3 DEF Holder, Held
    <3> QED
      BY <3>1 DEF over
  <2>5. \A j \in Ids : Holder(j)' => key'[j] \in flights'
    BY <1>0, <2>1, <2>4 DEF StdioInv, Maps
  <2>6. ASSUME NEW h \in flights' PROVE \E j \in Ids : Holder(j)' /\ key'[j] = h
    <3>1. PICK j \in Ids : Holder(j) /\ key[j] = h
      BY <1>0, <2>6 DEF StdioInv, Maps
    <3>2. j \notin Overdue
      BY <1>0, <2>6, <3>1 DEF over
    <3> QED
      BY <1>0, <2>2, <3>1, <3>2
  <2>7. \A h \in FlightKeys : h \notin flights' => waiters'[h] = {}
    BY <1>0, <1>1 DEF StdioInv, Maps
  <2> QED
    BY <1>0, <2>1, <2>5, <2>6, <2>7 DEF StdioInv, Maps
<1>7. Accounts'
  <2> SUFFICES ASSUME NEW j \in Ids
               PROVE  Apart(j)' /\ (key'[j] # Untracked => Standing(j)')
    BY DEF Accounts
  <2>1. /\ Held(j)' <=> Held(j)
        /\ Out(j)' <=> Out(j)
        /\ Fresh(j)' <=> Fresh(j)
        /\ Single(j, "own")' <=> Single(j, "own")
        /\ Single(j, "timeout")' <=> Single(j, "timeout")
        /\ Single(j, "coalesced")' <=> Single(j, "coalesced")
        /\ Double(j)' <=> Double(j)
    BY <1>0 DEF Held, Out, Fresh, Single, Double
  <2>2. Attached(j)' <=> (Attached(j) /\ key[j] \notin over)
    BY <1>1, AttachedByKey DEF Attached
  <2>3. Apart(j) /\ (key[j] # Untracked => Standing(j))
    BY DEF StdioInv, Accounts
  <2>4. j \in sp' <=> (j \in Overdue \/ (Attached(j) /\ key[j] \in over))
    BY <1>3
  <2>5. j \in pending' <=> (j \in pending /\ j \notin Overdue)
    BY <1>0
  <2>6. j \in Overdue => j \in pending
    BY <1>0
  <2> QED
    BY <1>0, <2>1, <2>2, <2>3, <2>4, <2>5, <2>6 DEF Apart, Standing
<1>8. Matches'
  <2>1. \A h \in FlightKeys : \A j \in waiters'[h] : key'[j] = h
    BY <1>0, <1>1 DEF StdioInv, Matches
  <2> QED
    BY <1>0, <2>1 DEF StdioInv, Matches
<1> QED
  BY <1>4, <1>5, <1>6, <1>7, <1>8 DEF StdioInv

\* The timeout errors are the first or, after a late answer, the last that
\* the calls taken out hear.
LEMMA NotifyInv ==
  ASSUME StdioInv, Notify
  PROVE  StdioInv'
<1>0. /\ sp' = {}
      /\ UNCHANGED <<unread, req, cp, pending, key, flights, waiters, child, pp,
                     cache>>
  BY DEF Notify, mapVars, envVars
<1>1. /\ Frame("timeout", NoId) \in Frames
      /\ Frame("timeout", NoId).kind = "timeout"
  BY DEF Frame, Frames
<1>2. \A j \in Ids : answers'[j] = IF j \in sp
                                     THEN Append(answers[j], Frame("timeout", NoId))
                                     ELSE answers[j]
  BY DEF Notify, WriteClient
<1>3. TypeOK'
  BY RestType DEF StdioInv
<1>4. Pumps'
  BY <1>0 DEF StdioInv, Pumps
<1>5. Maps'
  BY <1>0 DEF StdioInv, Maps, Holder
<1>6. Accounts'
  <2> SUFFICES ASSUME NEW j \in Ids
               PROVE  Apart(j)' /\ (key'[j] # Untracked => Standing(j)')
    BY DEF Accounts
  <2>1. /\ Held(j)' <=> Held(j)
        /\ Attached(j)' <=> Attached(j)
        /\ Out(j)' <=> Out(j)
        /\ Fresh(j)' <=> Fresh(j)
    BY <1>0 DEF Held, Attached, Out, Fresh
  <2>2. Apart(j) /\ (key[j] # Untracked => Standing(j)) /\ answers[j] \in Seq(Frames)
    BY DEF StdioInv, Accounts, TypeOK
  <2>3. CASE j \in sp
    <3>1. /\ answers[j] = <<>> => Single(j, "timeout")'
          /\ Single(j, "own") => Double(j)'
      BY <1>1, <1>2, <2>2, <2>3, FrameAdded
    <3> QED
      BY <1>0, <2>1, <2>2, <2>3, <3>1 DEF Apart, Standing
  <2>4. CASE j \notin sp
    <3>0. answers'[j] = answers[j]
      BY <1>2, <2>4
    <3>1. /\ Single(j, "own")' <=> Single(j, "own")
          /\ Single(j, "timeout")' <=> Single(j, "timeout")
          /\ Single(j, "coalesced")' <=> Single(j, "coalesced")
          /\ Double(j)' <=> Double(j)
      BY <3>0 DEF Single, Double
    <3> QED
      BY <1>0, <2>1, <2>2, <2>4, <3>0, <3>1 DEF Apart, Standing
  <2> QED
    BY <2>3, <2>4
<1>7. Matches'
  <2>1. ASSUME NEW j \in Ids
        PROVE  \A n \in DOMAIN answers'[j] :
                 LET g == answers'[j][n]
                 IN  /\ g.kind = "replay" => g.of \in Ids /\ Near(req'[g.of], req'[j])
                     /\ g.kind = "coalesced" => /\ g.of \in Ids
                                                /\ key'[j] \in FlightKeys
                                                /\ key'[g.of] = key'[j]
    BY <1>0, <1>1, <1>2, FrameMatches
  <2> QED
    BY <1>0, <2>1 DEF StdioInv, Matches
<1> QED
  BY <1>3, <1>4, <1>5, <1>6, <1>7 DEF StdioInv

-----------------------------------------------------------------------------
(* The theorems.                                                           *)

\* The inductive invariant of the mcp-stdio adapter holds in every reachable
\* state.
THEOREM StdioInvariant == Spec => []StdioInv
<1>1. StdioInv /\ [Next]_vars => StdioInv'
  <2> SUFFICES ASSUME StdioInv, [Next]_vars PROVE StdioInv'
    OBVIOUS
  <2>1. ASSUME NEW i \in Ids,
               \/ PassThrough(i) \/ LookupGated(i) \/ LookupForward(i)
               \/ LookupReplay(i) \/ LookupBlock(i)
        PROVE  StdioInv'
    BY <2>1, LookingInv, AnsweringInv DEF Looking, Answering
  <2>2. CASE ClientPump
    BY <2>1, <2>2, JoinInv, LeadInv, WriteChildInv DEF ClientPump
  <2>3. CASE ChildPump \/ \E i \in Ids : Respond(i)
    BY <2>3, RespondInv, CacheResponseInv, CollectInv, FanOutInv DEF ChildPump
  <2>4. CASE Sweeper
    BY <2>4, SweepInv, NotifyInv DEF Sweeper
  <2>5. CASE \/ Tick \/ (\E k \in Keys : Forget(k)) \/ ChildExit \/ Cancel \/ Eof
             \/ Return \/ UNCHANGED vars
    BY <2>5, SurroundingsInv
  <2> QED
    BY <2>2, <2>3, <2>4, <2>5 DEF Next
<1> QED
  BY <1>1, InitInv, PTL DEF Spec

\* Every variable of the adapter keeps its type, whatever the client sends and
\* the child does.
THEOREM StdioTypeCorrect == Spec => []TypeOK
<1>1. StdioInv => TypeOK
  BY DEF StdioInv
<1> QED
  BY <1>1, StdioInvariant, PTL

\* Pending and inflight agree whatever the interleaving of the pumps and the
\* sweeper: a flight has exactly one leader, and no waiter outlives it.
THEOREM FlightOwnedHolds == Spec => []FlightOwned
<1>1. StdioInv => FlightOwned
  <2> SUFFICES ASSUME StdioInv, NEW h \in FlightKeys
               PROVE  /\ Cardinality(Leaders(h)) = IF h \in flights THEN 1 ELSE 0
                      /\ h \notin flights => waiters[h] = {}
    BY DEF FlightOwned
  <2>1. \A i : i \in Leaders(h) <=> i \in Ids /\ Holder(i) /\ key[i] = h
    BY DEF Leaders, Holder, StdioInv, TypeOK, Pumps
  <2>2. CASE h \in flights
    <3>1. PICK i \in Ids : Holder(i) /\ key[i] = h
      BY <2>2 DEF StdioInv, Maps
    <3>2. Leaders(h) = {i}
      BY <2>1, <3>1 DEF StdioInv, Maps
    <3> QED
      BY <2>2, <3>2, FS_Singleton
  <2>3. CASE h \notin flights
    <3>1. Leaders(h) = {}
      BY <2>1, <2>3 DEF StdioInv, Maps
    <3> QED
      BY <2>3, <3>1, FS_EmptySet DEF StdioInv, Maps
  <2> QED
    BY <2>2, <2>3
<1> QED
  BY <1>1, StdioInvariant, PTL

\* An answer goes to the call it belongs to: a replay to a request of the same
\* tool with the same arguments or near enough ones (AnswersMatch), a fan-out to calls of the same key and, where there is one, fingerprint.
THEOREM AnswersMatchHolds == Spec => []AnswersMatch
<1>1. StdioInv => AnswersMatch
  <2> SUFFICES ASSUME StdioInv, NEW i \in Ids, NEW n \in DOMAIN answers[i]
               PROVE  LET f == answers[i][n]
                      IN  /\ f.kind = "replay" => Near(req[f.of], req[i])
                          /\ f.kind = "coalesced" => key[f.of] = key[i]
                          /\ f.kind = "coalesced" /\ key[i] # NoHash =>
                               req[f.of].args = req[i].args
    BY DEF AnswersMatch
  <2> DEFINE f == answers[i][n]
  <2>1. /\ f.kind = "replay" => f.of \in Ids /\ Near(req[f.of], req[i])
        /\ f.kind = "coalesced" => /\ f.of \in Ids /\ key[i] \in FlightKeys
                                   /\ key[f.of] = key[i]
    BY DEF StdioInv, Matches
  <2>2. \A j \in Ids : key[j] \in Hashes => req[j].args = key[j]
    BY DEF StdioInv, Matches
  <2> QED
    BY <2>1, <2>2 DEF FlightKeys
<1> QED
  BY <1>1, StdioInvariant, PTL

\* The places of a routed call, counted: the flight it waits on, and where the
\* pumps and the sweeper have it.
LEMMA PlacesCounted ==
  ASSUME StdioInv, NEW i \in Ids, key[i] # Untracked,
         NEW W \in {0, 1}, Attached(i) <=> W = 1,
         NEW T \in SUBSET {"pending", "pp", "waiter", "sp"},
         "pending" \in T <=> i \in pending,
         "pp" \in T <=> Held(i),
         "waiter" \in T <=> i \in pp.waiters,
         "sp" \in T <=> i \in sp
  PROVE  Places(i) = W + Cardinality(T)
<1> DEFINE on == {h \in FlightKeys : i \in waiters[h]}
           at == {p \in {"cp", "pending", "pp", "waiter", "sp"} :
                    \/ p = "cp" /\ cp.at = "route" /\ cp.id = i
                    \/ p = "pending" /\ i \in pending
                    \/ p = "pp" /\ pp.at # "scan" /\ pp.id = i
                    \/ p = "waiter" /\ i \in pp.waiters
                    \/ p = "sp" /\ i \in sp}
<1>1. Places(i) = Cardinality(on) + Cardinality(at)
  BY DEF Places
<1>2. ~(cp.at = "route" /\ cp.id = i)
  BY RouteFresh
<1>3. \A p : p \in at <=> p \in T
  BY <1>2 DEF Held
<1>4. at = T
  BY <1>3
<1>5. Cardinality(on) = W
  <2>1. CASE Attached(i)
    <3>1. on = {key[i]}
      BY <2>1, AttachedByKey
    <3> QED
      BY <2>1, <3>1, FS_Singleton
  <2>2. CASE ~Attached(i)
    <3>1. on = {}
      BY <2>2 DEF Attached
    <3> QED
      BY <2>2, <3>1, FS_EmptySet
  <2> QED
    BY <2>1, <2>2
<1> HIDE DEF on, at
<1> QED
  BY <1>1, <1>4, <1>5

\* No call the maps track is lost or answered twice, but for a leader that
\* timed out and that the child answers late.
THEOREM CallsAccountedHolds == Spec => []CallsAccounted
<1>1. StdioInv => CallsAccounted
  <2> SUFFICES ASSUME StdioInv, NEW i \in Ids, key[i] # Untracked
               PROVE  \/ Places(i) + Len(answers[i]) = 1
                      \/ /\ Places(i) + Len(answers[i]) = 2
                         /\ \/ i \in sp
                            \/ \E n \in DOMAIN answers[i] :
                                 answers[i][n].kind = "timeout"
                         /\ \/ pp.id = i
                            \/ \E n \in DOMAIN answers[i] : answers[i][n].kind = "own"
    BY DEF CallsAccounted
  <2>0. Standing(i) /\ answers[i] \in Seq(Frames)
    BY DEF StdioInv, Accounts, TypeOK
  <2> DEFINE told(k) == \E n \in DOMAIN answers[i] : answers[i][n].kind = k
             count(W, T) == /\ Attached(i) <=> W = 1
                            /\ "pending" \in T <=> i \in pending
                            /\ "pp" \in T <=> Held(i)
                            /\ "waiter" \in T <=> i \in pp.waiters
                            /\ "sp" \in T <=> i \in sp
  <2>1. ASSUME NEW W \in {0, 1}, NEW T \in SUBSET {"pending", "pp", "waiter", "sp"},
               count(W, T)
        PROVE  Places(i) = W + Cardinality(T)
    BY <2>1, PlacesCounted
  <2>2. /\ count(0, {}) => Places(i) = 0
        /\ count(1, {}) => Places(i) = 1
    BY <2>1, FS_EmptySet
  <2>3. ASSUME NEW p \in {"pending", "pp", "waiter", "sp"}, count(0, {p})
        PROVE  Places(i) = 1
    <3>1. Cardinality({p}) = 1
      BY FS_Singleton
    <3>2. {p} \in SUBSET {"pending", "pp", "waiter", "sp"}
      OBVIOUS
    <3>3. Places(i) = 0 + Cardinality({p})
      BY <2>1, <2>3, <3>2
    <3> QED
      BY <3>1, <3>3
  <2>4. count(0, {"pp", "sp"}) => Places(i) = 2
    <3>1. Cardinality({"pp", "sp"}) = 2
      <4>1. Cardinality({"pp"}) = 1 /\ IsFiniteSet({"pp"})
        BY FS_Singleton
      <4>2. Cardinality({"pp"} \cup {"sp"}) = Cardinality({"pp"}) + 1
        BY <4>1, FS_AddElement
      <4>3. {"pp"} \cup {"sp"} = {"pp", "sp"}
        OBVIOUS
      <4> QED
        BY <4>1, <4>2, <4>3
    <3> QED
      BY <2>1, <3>1
  <2>5. answers[i] = <<>> => Len(answers[i]) = 0
    OBVIOUS
  <2>6. ASSUME NEW k, Single(i, k) PROVE Len(answers[i]) = 1 /\ told(k)
    <3>1. 1 \in DOMAIN answers[i]
      BY <2>0, <2>6 DEF Single
    <3> QED
      BY <2>6, <3>1 DEF Single
  <2>7. Double(i) => Len(answers[i]) = 2 /\ told("own") /\ told("timeout")
    <3>1. Double(i) => 1 \in DOMAIN answers[i] /\ 2 \in DOMAIN answers[i]
      BY <2>0 DEF Double
    <3> QED
      BY <3>1 DEF Double
  <2>8. Held(i) => pp.id = i
    BY DEF Held
  <2>a. /\ count(0, {"pending"}) => Places(i) = 1
        /\ count(0, {"pp"}) => Places(i) = 1
        /\ count(0, {"waiter"}) => Places(i) = 1
        /\ count(0, {"sp"}) => Places(i) = 1
    BY <2>3
  <2>b. /\ Single(i, "own") => Len(answers[i]) = 1
        /\ Single(i, "timeout") => Len(answers[i]) = 1
        /\ Single(i, "coalesced") => Len(answers[i]) = 1
    BY <2>6
  <2>c. /\ Single(i, "own") => told("own")
        /\ Single(i, "timeout") => told("timeout")
    BY <2>6
  <2>9. \/ answers[i] = <<>> /\ Places(i) = 1
        \/ answers[i] = <<>> /\ Places(i) = 2 /\ Held(i) /\ i \in sp
        \/ Single(i, "own") /\ Places(i) = 1 /\ i \in sp
        \/ Single(i, "timeout") /\ Places(i) = 1 /\ Held(i)
        \/ /\ Single(i, "timeout") \/ Single(i, "own") \/ Single(i, "coalesced")
           /\ Places(i) = 0
        \/ Double(i) /\ Places(i) = 0
    <3>1. CASE Attached(i)
      <4>1. answers[i] = <<>> /\ count(1, {})
        BY <2>0, <3>1 DEF Standing
      <4> QED
        BY <2>2, <4>1
    <3>2. CASE i \in pending
      <4>1. answers[i] = <<>> /\ count(0, {"pending"})
        BY <2>0, <3>2 DEF Standing
      <4> QED
        BY <2>a, <4>1
    <3>3. CASE i \in pp.waiters
      <4>1. answers[i] = <<>> /\ count(0, {"waiter"})
        BY <2>0, <3>3 DEF Standing
      <4> QED
        BY <2>a, <4>1
    <3> DEFINE nowhere == i \notin pending /\ ~Attached(i) /\ i \notin pp.waiters
    <3>4. CASE nowhere /\ Held(i) /\ i \in sp
      <4>1. answers[i] = <<>> /\ count(0, {"pp", "sp"})
        BY <2>0, <3>4 DEF Standing
      <4> QED
        BY <2>4, <3>4, <4>1
    <3>5. CASE nowhere /\ Held(i) /\ i \notin sp
      <4>1. count(0, {"pp"}) /\ (answers[i] = <<>> \/ Single(i, "timeout"))
        BY <2>0, <3>5 DEF Standing
      <4> QED
        BY <2>a, <3>5, <4>1
    <3>6. CASE nowhere /\ ~Held(i) /\ i \in sp
      <4>1. count(0, {"sp"}) /\ (answers[i] = <<>> \/ Single(i, "own"))
        BY <2>0, <3>6 DEF Standing
      <4> QED
        BY <2>a, <3>6, <4>1
    <3>7. CASE nowhere /\ ~Held(i) /\ i \notin sp
      <4>1. /\ count(0, {})
            /\ \/ Single(i, "timeout") \/ Single(i, "own")
               \/ Single(i, "coalesced") \/ Double(i)
        BY <2>0, <3>7 DEF Standing
      <4> QED
        BY <2>2, <4>1
    <3> QED
      BY <3>1, <3>2, <3>3, <3>4, <3>5, <3>6, <3>7
  <2> HIDE DEF told, count
  <2>10. \/ Places(i) + Len(answers[i]) = 1
         \/ /\ Places(i) + Len(answers[i]) = 2
            /\ i \in sp \/ told("timeout")
            /\ pp.id = i \/ told("own")
    <3>1. CASE answers[i] = <<>> /\ Places(i) = 1
      BY <2>5, <3>1
    <3>2. CASE answers[i] = <<>> /\ Places(i) = 2 /\ Held(i) /\ i \in sp
      BY <2>5, <2>8, <3>2
    <3>3. CASE Single(i, "own") /\ Places(i) = 1 /\ i \in sp
      <4>0. Places(i) = 1 /\ Len(answers[i]) = 1
        BY <2>b, <3>3
      <4>1. Places(i) + Len(answers[i]) = 2
        BY <4>0
      <4>2. told("own")
        BY <2>c, <3>3
      <4> QED
        BY <3>3, <4>1, <4>2
    <3>4. CASE Single(i, "timeout") /\ Places(i) = 1 /\ Held(i)
      <4>0. Places(i) = 1 /\ Len(answers[i]) = 1
        BY <2>b, <3>4
      <4>1. Places(i) + Len(answers[i]) = 2
        BY <4>0
      <4>2. told("timeout")
        BY <2>c, <3>4
      <4> QED
        BY <2>8, <3>4, <4>1, <4>2
    <3>5. CASE /\ Single(i, "timeout") \/ Single(i, "own") \/ Single(i, "coalesced")
               /\ Places(i) = 0
      BY <2>b, <3>5
    <3>6. CASE Double(i) /\ Places(i) = 0
      BY <2>7, <3>6
    <3> QED
      BY <2>9, <3>1, <3>2, <3>3, <3>4, <3>5, <3>6
  <2> QED
    BY <2>10 DEF told
<1> QED
  BY <1>1, StdioInvariant, PTL

-----------------------------------------------------------------------------
(* The pumps and the sweeper implement Coalescing.  Lead is a Start, Join a *)
(* Join, Collect an End, FanOut a Take, Sweep an Abandon; no other step    *)
(* changes what the mapping sees.                                          *)

\* What the mapping makes of the state.
Executes == UNION {Leaders(h) : h \in FlightKeys}

WaitsFor == [i \in Ids |->
               IF i \in pp.waiters THEN pp.id
               ELSE IF \E h \in FlightKeys : i \in waiters[h]
                 THEN LeaderOf(key[i]) ELSE NoId]

TookFrom == [i \in Ids |-> Taken(i)]

\* The fan-outs among a call's frames, and whose answer the call took.
SharedIn(a) == {n \in DOMAIN a : a[n].kind = "coalesced"}

TakenIn(a) == IF SharedIn(a) = {} THEN NoId ELSE a[CHOOSE n \in SharedIn(a) : TRUE].of

\* The same in the terms of the invariant.
Seen ==
  /\ Executes = {i \in Ids : Holder(i)}
  /\ \A i \in Ids : i \in pp.waiters => WaitsFor[i] = pp.id
  /\ \A i \in Ids : i \notin pp.waiters /\ ~Attached(i) => WaitsFor[i] = NoId
  /\ \A i, l \in Ids :
       /\ i \notin pp.waiters /\ Attached(i)
       /\ Holder(l) /\ key[l] = key[i]
       => WaitsFor[i] = l
  /\ \A i \in Ids : TookFrom[i] = TakenIn(answers[i])

\* The leaders of a key are those who hold it.
LEMMA LeadersHold ==
  ASSUME StdioInv, NEW h \in FlightKeys
  PROVE  \A i : i \in Leaders(h) <=> i \in Ids /\ Holder(i) /\ key[i] = h
BY DEF Leaders, Holder, StdioInv, TypeOK, Pumps

\* What the mapping sees of a state.
LEMMA SeenNow == StdioInv => Seen
<1> SUFFICES ASSUME StdioInv PROVE Seen
  OBVIOUS
<1>1. Executes = {i \in Ids : Holder(i)}
  <2>1. \A i \in Ids : Holder(i) => key[i] \in FlightKeys
    BY DEF StdioInv, Maps, TypeOK
  <2>2. \A i : i \in Executes <=> i \in Ids /\ Holder(i)
    BY <2>1, LeadersHold DEF Executes
  <2> QED
    BY <2>2
<1>2. ASSUME NEW i \in Ids, NEW l \in Ids, i \notin pp.waiters, Attached(i),
             Holder(l), key[l] = key[i]
      PROVE  WaitsFor[i] = l
  <2>1. key[i] \in FlightKeys
    BY <1>2, AttachedByKey
  <2>2. Leaders(key[i]) = {l}
    BY <1>2, <2>1, LeadersHold DEF StdioInv, Maps
  <2>3. LeaderOf(key[i]) = l
    BY <2>2 DEF LeaderOf
  <2> QED
    BY <1>2, <2>3 DEF WaitsFor, Attached
<1>3. ASSUME NEW i \in Ids PROVE TookFrom[i] = TakenIn(answers[i])
  BY DEF TookFrom, Taken, TakenIn, SharedIn
<1>4. ASSUME NEW i \in Ids
      PROVE  /\ i \in pp.waiters => WaitsFor[i] = pp.id
             /\ i \notin pp.waiters /\ ~Attached(i) => WaitsFor[i] = NoId
  BY DEF WaitsFor, Attached
<1> QED
  BY <1>1, <1>2, <1>3, <1>4 DEF Seen

\* The same after a step.
LEMMA SeenNext == StdioInv' => Seen'
BY SeenNow, PTL

\* Whoever is attached has a leader to wait for.
LEMMA LeaderThere ==
  ASSUME StdioInv, NEW i \in Ids, Attached(i)
  PROVE  \E l \in Ids : Holder(l) /\ key[l] = key[i]
BY AttachedByKey DEF StdioInv, Maps

\* A frame that is no fan-out leaves what the call took.
LEMMA TakenKept ==
  ASSUME NEW a \in Seq(Frames), NEW f \in Frames, f.kind # "coalesced"
  PROVE  TakenIn(Append(a, f)) = TakenIn(a)
<1> DEFINE b == Append(a, f)
<1>1. /\ DOMAIN b = 1..(Len(a) + 1) /\ DOMAIN a = 1..Len(a)
      /\ \A n \in 1..Len(a) : b[n] = a[n]
      /\ b[Len(a) + 1] = f
  OBVIOUS
<1>2. \A n : n \in 1..(Len(a) + 1) <=> n \in 1..Len(a) \/ n = Len(a) + 1
  OBVIOUS
<1> HIDE DEF b
<1>3. SharedIn(b) = SharedIn(a)
  BY <1>1, <1>2 DEF SharedIn
<1>4. ASSUME SharedIn(a) # {} PROVE TakenIn(b) = TakenIn(a)
  <2> DEFINE n == CHOOSE m \in SharedIn(a) : TRUE
  <2>1. n \in SharedIn(a)
    BY <1>4
  <2>2. b[n] = a[n]
    BY <1>1, <2>1 DEF SharedIn
  <2> QED
    BY <1>3, <1>4, <2>2 DEF TakenIn
<1> QED
  BY <1>3, <1>4 DEF TakenIn, b

\* Before any frame, a call took nothing; the first fan-out is what it took.
LEMMA TakenFirst ==
  ASSUME NEW f \in Frames, f.kind = "coalesced"
  PROVE  TakenIn(<<>>) = NoId /\ TakenIn(Append(<<>>, f)) = f.of
<1>1. Append(<<>>, f) = <<f>>
  OBVIOUS
<1>2. SharedIn(<<f>>) = {1} /\ SharedIn(<<>>) = {}
  BY DEF SharedIn
<1>3. <<f>>[CHOOSE n \in {1} : TRUE] = f
  OBVIOUS
<1> QED
  BY <1>1, <1>2, <1>3 DEF TakenIn

\* A step the mapping does not see.
LEMMA Unseen ==
  ASSUME StdioInv, StdioInv', key' = key, pp'.waiters = pp.waiters,
         pp.waiters # {} => pp'.id = pp.id,
         \A i \in Ids : Holder(i)' <=> Holder(i),
         \A i \in Ids : Attached(i)' <=> Attached(i),
         \A i \in Ids : TakenIn(answers'[i]) = TakenIn(answers[i])
  PROVE  UNCHANGED Flights!coalescingVars
<1>0. Seen /\ Seen'
  BY SeenNow, SeenNext
<1>1. Executes' = Executes
  BY <1>0 DEF Seen
<1>2. ASSUME NEW i \in Ids PROVE WaitsFor'[i] = WaitsFor[i]
  <2>1. CASE i \in pp.waiters
    BY <1>0, <2>1 DEF Seen
  <2>2. CASE i \notin pp.waiters /\ ~Attached(i)
    BY <1>0, <2>2 DEF Seen
  <2>3. CASE i \notin pp.waiters /\ Attached(i)
    <3>1. PICK l \in Ids : Holder(l) /\ key[l] = key[i]
      BY <2>3, LeaderThere
    <3>2. Holder(l)' /\ key'[l] = key'[i] /\ Attached(i)' /\ i \notin pp'.waiters
      BY <2>3, <3>1
    <3> QED
      BY <1>0, <2>3, <3>1, <3>2 DEF Seen
  <2> QED
    BY <2>1, <2>2, <2>3
<1>3. WaitsFor' = WaitsFor
  BY <1>2 DEF WaitsFor
<1>4. TookFrom' = TookFrom
  <2>1. ASSUME NEW i \in Ids PROVE TookFrom'[i] = TookFrom[i]
    BY <1>0 DEF Seen
  <2> QED
    BY <2>1 DEF TookFrom
<1> QED
  BY <1>1, <1>3, <1>4 DEF Flights!coalescingVars, Executes, WaitsFor, TookFrom

\* The first call of a key starts its execution.
LEMMA LeadStarts ==
  ASSUME StdioInv, StdioInv', Lead
  PROVE  \E c \in Ids, k \in FlightKeys : Flights!Start(c, k)
<1>1. PICK c \in Ids, k \in FlightKeys : cp.id = c /\ cp.hash = k
  BY RouteFresh DEF Lead
<1>0. /\ k \notin flights /\ key' = [key EXCEPT ![c] = k]
      /\ pending' = pending \cup {c} /\ UNCHANGED <<pp, answers>>
      /\ key[c] = Untracked /\ ~Attached(c) /\ ~Holder(c) /\ c \notin pp.waiters
  BY <1>1, RouteFresh DEF Lead
<1>2. \A h \in FlightKeys : waiters'[h] = waiters[h]
  BY <1>0, <1>1 DEF Lead, StdioInv, TypeOK, Maps
<1>3. key'[c] = k /\ \A j \in Ids \ {c} : key'[j] = key[j]
  BY <1>0 DEF StdioInv, TypeOK
<1>4. Seen /\ Seen'
  BY SeenNow, SeenNext
<1>5. \A j \in Ids : Holder(j)' <=> (Holder(j) \/ j = c)
  BY <1>0 DEF Holder
<1>6. Executes' = Executes \cup {c}
  BY <1>4, <1>5 DEF Seen
<1>7. \A d \in Executes : key[d] # k
  BY <1>0, <1>4 DEF Seen, StdioInv, Maps
<1>8. ASSUME NEW j \in Ids PROVE WaitsFor'[j] = WaitsFor[j]
  <2>0. Attached(j)' <=> Attached(j)
    BY <1>2 DEF Attached
  <2>1. CASE j \in pp.waiters
    BY <1>0, <1>4, <2>1 DEF Seen
  <2>2. CASE j \notin pp.waiters /\ ~Attached(j)
    BY <1>0, <1>4, <2>0, <2>2 DEF Seen
  <2>3. CASE j \notin pp.waiters /\ Attached(j)
    <3>1. PICK l \in Ids : Holder(l) /\ key[l] = key[j]
      BY <2>3, LeaderThere
    <3>2. Holder(l)' /\ key'[l] = key'[j] /\ Attached(j)' /\ j \notin pp'.waiters
      BY <1>0, <1>3, <1>5, <2>0, <2>3, <3>1
    <3> QED
      BY <1>4, <2>3, <3>1, <3>2 DEF Seen
  <2> QED
    BY <2>1, <2>2, <2>3
<1>9. WaitsFor' = WaitsFor
  BY <1>8 DEF WaitsFor
<1>10. TookFrom' = TookFrom
  BY <1>0 DEF TookFrom, Taken
<1>11. Flights!Start(c, k)
  BY <1>0, <1>6, <1>7, <1>9, <1>10 DEF Flights!Start, Executes, WaitsFor, TookFrom
<1> QED
  BY <1>11

\* A duplicate joins the execution its key has under way.
LEMMA JoinJoins ==
  ASSUME StdioInv, StdioInv', Join
  PROVE  \E c, l \in Ids : Flights!Join(c, l)
<1>1. PICK c \in Ids, k \in FlightKeys : cp.id = c /\ cp.hash = k
  BY RouteFresh DEF Join
<1>0. /\ k \in flights /\ key' = [key EXCEPT ![c] = k]
      /\ waiters' = [waiters EXCEPT ![k] = @ \cup {c}]
      /\ UNCHANGED <<pp, pending, answers>>
      /\ key[c] = Untracked /\ ~Attached(c) /\ ~Holder(c) /\ c \notin pp.waiters
  BY <1>1, RouteFresh DEF Join
<1>2. \A h \in FlightKeys : waiters'[h] = IF h = k THEN waiters[h] \cup {c}
                                                   ELSE waiters[h]
  BY <1>0 DEF StdioInv, TypeOK
<1>3. key'[c] = k /\ \A j \in Ids \ {c} : key'[j] = key[j]
  BY <1>0 DEF StdioInv, TypeOK
<1>4. Seen /\ Seen'
  BY SeenNow, SeenNext
<1>5. \A j \in Ids : Holder(j)' <=> Holder(j)
  BY <1>0 DEF Holder
<1>6. Executes' = Executes
  BY <1>4, <1>5 DEF Seen
<1>7. PICK l \in Ids : Holder(l) /\ key[l] = k
  BY <1>0 DEF StdioInv, Maps
<1>8. ASSUME NEW j \in Ids
      PROVE  WaitsFor'[j] = IF j = c THEN l ELSE WaitsFor[j]
  <2>1. CASE j = c
    <3>1. Attached(j)'
      BY <1>2, <2>1 DEF Attached
    <3>2. Holder(l)' /\ key'[l] = key'[j]
      BY <1>0, <1>3, <1>5, <1>7, <2>1
    <3> QED
      BY <1>0, <1>4, <2>1, <3>1, <3>2 DEF Seen
  <2>2. CASE j # c
    <3>0. Attached(j)' <=> Attached(j)
      BY <1>2, <2>2 DEF Attached
    <3>1. CASE j \in pp.waiters
      BY <1>0, <1>4, <2>2, <3>1 DEF Seen
    <3>2. CASE j \notin pp.waiters /\ ~Attached(j)
      BY <1>0, <1>4, <2>2, <3>0, <3>2 DEF Seen
    <3>3. CASE j \notin pp.waiters /\ Attached(j)
      <4>1. PICK m \in Ids : Holder(m) /\ key[m] = key[j]
        BY <3>3, LeaderThere
      <4>2. Holder(m)' /\ key'[m] = key'[j] /\ Attached(j)' /\ j \notin pp'.waiters
        BY <1>0, <1>3, <1>5, <2>2, <3>0, <3>3, <4>1
      <4> QED
        BY <1>4, <2>2, <3>3, <4>1, <4>2 DEF Seen
    <3> QED
      BY <3>1, <3>2, <3>3
  <2> QED
    BY <2>1, <2>2
<1>9. WaitsFor' = [WaitsFor EXCEPT ![c] = l]
  BY <1>8 DEF WaitsFor
<1>10. TookFrom' = TookFrom
  BY <1>0 DEF TookFrom, Taken
<1>11. l \in Executes
  BY <1>4, <1>7 DEF Seen
<1>12. Flights!Join(c, l)
  BY <1>0, <1>6, <1>7, <1>9, <1>10, <1>11 DEF Flights!Join, Executes, WaitsFor,
     TookFrom
<1> QED
  BY <1>12

\* An execution ends when the child pump closes its flight.
LEMMA CollectEnds ==
  ASSUME StdioInv, StdioInv', Collect
  PROVE  \E c \in Ids : Flights!End(c)
<1>1. PICK l \in Ids, k \in FlightKeys : pp.id = l /\ key[l] = k /\ k \in flights
  <2>1. pp.id \in Ids /\ Holder(pp.id)
    BY DEF Collect, StdioInv, Pumps, Holder
  <2>2. key[pp.id] \in flights /\ key[pp.id] \in FlightKeys
    BY <2>1 DEF StdioInv, Maps, TypeOK
  <2> QED
    BY <2>1, <2>2
<1>0. /\ pp.at = "collect" /\ pp'.at = "fanout" /\ pp'.id = l
      /\ pp'.waiters = waiters[k]
      /\ waiters' = [waiters EXCEPT ![k] = {}]
      /\ UNCHANGED <<pending, key, answers>>
  BY <1>1 DEF Collect, StdioInv, TypeOK
<1>2. \A h \in FlightKeys : waiters'[h] = IF h = k THEN {} ELSE waiters[h]
  BY <1>0 DEF StdioInv, TypeOK
<1>3. l \notin pending /\ Holder(l) /\ pp.waiters = {}
  <2>1. key[l] # Untracked /\ Standing(l) /\ Held(l) /\ pp.waiters = {}
    BY <1>0, <1>1, SentinelAssumption DEF StdioInv, Accounts, Held, Pumps
  <2> QED
    BY <1>0, <1>1, <2>1 DEF Standing, Holder
<1>4. Seen /\ Seen'
  BY SeenNow, SeenNext
<1>5. \A j \in Ids : Holder(j)' <=> (Holder(j) /\ j # l)
  BY <1>0, <1>1, <1>3 DEF Holder
<1>6. Executes' = Executes \ {l} /\ l \in Executes
  BY <1>3, <1>4, <1>5 DEF Seen
<1>7. ASSUME NEW j \in Ids PROVE WaitsFor'[j] = WaitsFor[j]
  <2>1. CASE j \in waiters[k]
    <3>1. Attached(j) /\ key[j] = k
      BY <2>1, AttachedByKey DEF Attached
    <3>2. WaitsFor[j] = l
      BY <1>1, <1>3, <1>4, <3>1 DEF Seen
    <3> QED
      BY <1>0, <1>4, <2>1, <3>2 DEF Seen
  <2>2. CASE j \notin waiters[k] /\ ~Attached(j)
    <3>1. ~Attached(j)'
      BY <1>2, <2>2 DEF Attached
    <3> QED
      BY <1>0, <1>3, <1>4, <2>2, <3>1 DEF Seen
  <2>3. CASE j \notin waiters[k] /\ Attached(j)
    <3>1. Attached(j)' /\ key[j] # k
      BY <1>2, <2>3, AttachedByKey DEF Attached
    <3>2. PICK m \in Ids : Holder(m) /\ key[m] = key[j]
      BY <2>3, LeaderThere
    <3>3. Holder(m)' /\ key'[m] = key'[j]
      BY <1>0, <1>1, <1>5, <3>1, <3>2
    <3> QED
      BY <1>0, <1>3, <1>4, <2>3, <3>1, <3>2, <3>3 DEF Seen
  <2> QED
    BY <2>1, <2>2, <2>3
<1>8. WaitsFor' = WaitsFor
  BY <1>7 DEF WaitsFor
<1>9. TookFrom' = TookFrom
  BY <1>0 DEF TookFrom, Taken
<1>10. Flights!End(l)
  BY <1>0, <1>6, <1>8, <1>9 DEF Flights!End, Executes, WaitsFor, TookFrom
<1> QED
  BY <1>10

\* The waiters taken over are given the ended execution's answer, together.
LEMMA FanOutTakes ==
  ASSUME StdioInv, StdioInv', FanOut
  PROVE  \/ \E l \in Ids, S \in SUBSET Ids : Flights!Take(l, S)
         \/ UNCHANGED Flights!coalescingVars
<1>1. PICK l \in Ids, S \in SUBSET Ids : pp.id = l /\ pp.waiters = S
  BY DEF FanOut, StdioInv, Pumps, TypeOK
<1>0. /\ pp.at = "fanout" /\ pp'.at = "scan" /\ pp'.waiters = {}
      /\ UNCHANGED <<pending, key, waiters>>
  BY DEF FanOut, Scanning, mapVars
<1>2. /\ answers'[l] = Append(answers[l], Frame("own", l))
      /\ \A j \in S \ {l} : answers'[j] = Append(answers[j], Frame("coalesced", l))
      /\ \A j \in Ids \ (S \cup {l}) : answers'[j] = answers[j]
  BY <1>1 DEF FanOut
<1>3. /\ Frame("own", l) \in Frames /\ Frame("own", l).kind = "own"
      /\ Frame("coalesced", l) \in Frames /\ Frame("coalesced", l).kind = "coalesced"
      /\ Frame("coalesced", l).of = l
  BY DEF Frame, Frames
<1>4. \A j \in Ids : (Holder(j)' <=> Holder(j)) /\ (Attached(j)' <=> Attached(j))
  BY <1>0 DEF Holder, Attached
<1>5. ASSUME NEW j \in Ids, j \notin S \/ j = l
      PROVE  TakenIn(answers'[j]) = TakenIn(answers[j])
  <2>1. answers[j] \in Seq(Frames)
    BY DEF StdioInv, TypeOK
  <2> QED
    BY <1>2, <1>3, <1>5, <2>1, TakenKept
<1>6. CASE S = {}
  BY <1>0, <1>1, <1>4, <1>5, <1>6, Unseen
<1>7. CASE S # {}
  <2>0. Seen /\ Seen'
    BY SeenNow, SeenNext
  <2>1. ASSUME NEW j \in S
        PROVE  /\ j \in Ids /\ key[j] = key[l] /\ key[j] # Untracked
               /\ answers[j] = <<>> /\ ~Attached(j) /\ j # l
    <3>1. j \in Ids /\ key[j] = key[l] /\ key[j] # Untracked
      BY <1>1, <2>1 DEF StdioInv, Matches, Accounts, Apart
    <3>2. Standing(j) /\ Held(l)
      BY <1>0, <1>1, <3>1 DEF StdioInv, Accounts, Held
    <3> QED
      BY <1>1, <3>1, <3>2 DEF Standing
  <2>2. l \notin pending /\ l \notin S
    <3>1. key[l] # Untracked
      BY <1>7, <2>1
    <3>2. Standing(l) /\ Held(l)
      BY <1>0, <1>1, <3>1 DEF StdioInv, Accounts, Held
    <3> QED
      BY <2>1, <3>2 DEF Standing
  <2>3. Executes' = Executes /\ l \notin Executes
    BY <1>0, <1>4, <2>0, <2>2 DEF Seen, Holder
  <2>4. \A j \in S : WaitsFor[j] = l
    BY <1>1, <2>0, <2>1 DEF Seen
  <2>5. ASSUME NEW j \in Ids
        PROVE  WaitsFor'[j] = IF j \in S THEN NoId ELSE WaitsFor[j]
    <3>1. CASE j \in S
      BY <1>0, <1>4, <2>0, <2>1, <3>1 DEF Seen
    <3>2. CASE j \notin S /\ ~Attached(j)
      BY <1>0, <1>1, <1>4, <2>0, <3>2 DEF Seen
    <3>3. CASE j \notin S /\ Attached(j)
      <4>1. PICK m \in Ids : Holder(m) /\ key[m] = key[j]
        BY <3>3, LeaderThere
      <4>2. /\ Holder(m)' /\ key'[m] = key'[j] /\ Attached(j)'
            /\ j \notin pp'.waiters /\ j \notin pp.waiters
        BY <1>0, <1>1, <1>4, <3>3, <4>1
      <4> QED
        BY <2>0, <3>3, <4>1, <4>2 DEF Seen
    <3> QED
      BY <3>1, <3>2, <3>3
  <2>6. ASSUME NEW j \in Ids
        PROVE  TookFrom'[j] = IF j \in S THEN l ELSE TookFrom[j]
    <3>1. CASE j \in S
      <4>1. TakenIn(answers'[j]) = l
        <5>1. answers[j] = <<>> /\ j # l
          BY <2>1, <3>1
        <5>2. answers'[j] = Append(<<>>, Frame("coalesced", l))
          BY <1>2, <3>1, <5>1
        <5>3. TakenIn(Append(<<>>, Frame("coalesced", l))) = l
          BY <1>3, TakenFirst
        <5> QED
          BY <5>2, <5>3
      <4> QED
        BY <2>0, <3>1, <4>1 DEF Seen
    <3>2. CASE j \notin S
      BY <1>5, <2>0, <3>2 DEF Seen
    <3> QED
      BY <3>1, <3>2
  <2>7. WaitsFor' = [j \in Ids |-> IF j \in S THEN NoId ELSE WaitsFor[j]]
    BY <2>5 DEF WaitsFor
  <2>8. TookFrom' = [j \in Ids |-> IF j \in S THEN l ELSE TookFrom[j]]
    BY <2>6 DEF TookFrom
  <2>9. Flights!Take(l, S)
    BY <1>0, <1>7, <2>3, <2>4, <2>7, <2>8 DEF Flights!Take, Executes, WaitsFor,
       TookFrom
  <2> QED
    BY <2>9
<1> QED
  BY <1>6, <1>7

\* The sweeper gives overdue executions up, and everyone who waits for them.
LEMMA SweepAbandons ==
  ASSUME StdioInv, StdioInv', Sweep
  PROVE  \E S \in SUBSET Ids : Flights!Abandon(S)
<1>1. PICK S \in SUBSET Ids : S = Overdue
  BY DEF Overdue, StdioInv, TypeOK
<1> DEFINE over == {key[i] : i \in S}
<1>0. /\ S # {} /\ S \subseteq pending /\ pending' = pending \ S
      /\ UNCHANGED <<key, pp, answers>>
      /\ \A h \in FlightKeys : waiters'[h] = IF h \in over THEN {} ELSE waiters[h]
  BY <1>1 DEF Sweep, Overdue
<1> HIDE DEF over
<1>2. \A j \in S : Holder(j) /\ ~Held(j) /\ key[j] \in FlightKeys
  <2> SUFFICES ASSUME NEW j \in S PROVE Holder(j) /\ ~Held(j) /\ key[j] \in FlightKeys
    OBVIOUS
  <2>1. Holder(j) /\ j \in pending
    BY <1>0 DEF Holder
  <2>2. key[j] \in FlightKeys
    BY <2>1 DEF StdioInv, Maps, TypeOK
  <2>3. Standing(j)
    BY <2>2, SentinelAssumption DEF StdioInv, Accounts
  <2> QED
    BY <2>1, <2>2, <2>3 DEF Standing
<1>3. Seen /\ Seen'
  BY SeenNow, SeenNext
<1>4. \A j \in Ids : Holder(j)' <=> (Holder(j) /\ j \notin S)
  BY <1>0, <1>2 DEF Holder, Held
<1>5. Executes' = Executes \ S /\ S \subseteq Executes
  BY <1>2, <1>3, <1>4 DEF Seen
<1>6. ASSUME NEW j \in Ids
      PROVE  WaitsFor'[j] = IF WaitsFor[j] \in S THEN NoId ELSE WaitsFor[j]
  <2>1. CASE j \in pp.waiters
    <3>1. Held(pp.id)
      BY <2>1 DEF StdioInv, Pumps, Held
    <3>2. pp.id \notin S
      BY <1>2, <3>1
    <3> QED
      BY <1>0, <1>3, <2>1, <3>2 DEF Seen
  <2>2. CASE j \notin pp.waiters /\ ~Attached(j)
    <3>1. ~Attached(j)'
      BY <1>0, <2>2 DEF Attached
    <3> QED
      BY <1>0, <1>3, <2>2, <3>1, SentinelAssumption DEF Seen
  <2>3. CASE j \notin pp.waiters /\ Attached(j)
    <3>1. PICK m \in Ids : Holder(m) /\ key[m] = key[j]
      BY <2>3, LeaderThere
    <3>2. WaitsFor[j] = m
      BY <1>3, <2>3, <3>1 DEF Seen
    <3>3. key[j] \in over <=> m \in S
      BY <1>0, <1>2, <3>1 DEF over, StdioInv, Maps
    <3>4. Attached(j)' <=> key[j] \notin over
      BY <1>0, <2>3, AttachedByKey DEF Attached
    <3>5. CASE m \in S
      BY <1>0, <1>3, <2>3, <3>2, <3>3, <3>4, <3>5 DEF Seen
    <3>6. CASE m \notin S
      <4>1. Holder(m)' /\ key'[m] = key'[j] /\ Attached(j)' /\ j \notin pp'.waiters
        BY <1>0, <1>4, <2>3, <3>1, <3>3, <3>4, <3>6
      <4> QED
        BY <1>3, <3>2, <3>6, <4>1 DEF Seen
    <3> QED
      BY <3>5, <3>6
  <2> QED
    BY <2>1, <2>2, <2>3
<1>7. WaitsFor' = [j \in Ids |-> IF WaitsFor[j] \in S THEN NoId ELSE WaitsFor[j]]
  BY <1>6 DEF WaitsFor
<1>8. TookFrom' = TookFrom
  BY <1>0 DEF TookFrom, Taken
<1>9. Flights!Abandon(S)
  BY <1>0, <1>5, <1>7, <1>8 DEF Flights!Abandon, Executes, WaitsFor, TookFrom
<1> QED
  BY <1>9

\* The steps that change no flight, no wait and no fan-out.
LEMMA OtherSteps ==
  ASSUME StdioInv, StdioInv',
         \/ \E i \in Ids : Looking(i) \/ Answering(i) \/ Respond(i)
         \/ WriteChild \/ CacheResponse \/ Tick \/ Notify
         \/ \E k \in Keys : Forget(k)
         \/ ChildExit \/ Cancel \/ Eof \/ Return \/ UNCHANGED vars
  PROVE  UNCHANGED Flights!coalescingVars
<1>1. key' = key /\ waiters' = waiters
  BY DEF Looking, PassThrough, LookupGated, LookupForward, Answering, LookupReplay,
     LookupBlock, Respond, WriteChild, CacheResponse, Tick, Notify, Forget,
     ChildExit, Cancel, Eof, Return, vars, mapVars
<1>2. \A j \in Ids : Attached(j)' <=> Attached(j)
  BY <1>1 DEF Attached
<1>3. ASSUME UNCHANGED <<pp, pending, answers>>
      PROVE  UNCHANGED Flights!coalescingVars
  <2>1. \A j \in Ids : Holder(j)' <=> Holder(j)
    BY <1>3 DEF Holder
  <2> QED
    BY <1>1, <1>2, <1>3, <2>1, Unseen
<1>4. CASE (\E i \in Ids : Looking(i)) \/ WriteChild \/ Tick
           \/ (\E k \in Keys : Forget(k)) \/ ChildExit \/ Cancel \/ Eof \/ Return
           \/ UNCHANGED vars
  <2>1. UNCHANGED <<pp, pending, answers>>
    BY <1>4 DEF Looking, PassThrough, LookupGated, LookupForward, WriteChild, Tick,
       Forget, ChildExit, Cancel, Eof, Return, vars, mapVars
  <2> QED
    BY <1>3, <2>1
<1>5. ASSUME NEW S, NEW kind \in {"replay", "blocked", "timeout"},
             NEW of \in Ids \cup {NoId}, WriteClient(S, kind, of),
             UNCHANGED <<pp, pending>>
      PROVE  UNCHANGED Flights!coalescingVars
  <2>1. \A j \in Ids : Holder(j)' <=> Holder(j)
    BY <1>5 DEF Holder
  <2>2. Frame(kind, of) \in Frames /\ Frame(kind, of).kind # "coalesced"
    BY DEF Frame, Frames
  <2>3. ASSUME NEW j \in Ids PROVE TakenIn(answers'[j]) = TakenIn(answers[j])
    <3>1. answers[j] \in Seq(Frames)
      BY DEF StdioInv, TypeOK
    <3>2. answers'[j] = answers[j] \/ answers'[j] = Append(answers[j], Frame(kind, of))
      BY <1>5 DEF WriteClient
    <3> QED
      BY <2>2, <3>1, <3>2, TakenKept
  <2> QED
    BY <1>1, <1>2, <1>5, <2>1, <2>3, Unseen
<1>6. CASE Notify
  <2>1. PICK S : S = sp
    OBVIOUS
  <2>2. WriteClient(S, "timeout", NoId) /\ UNCHANGED <<pp, pending>>
    BY <1>6, <2>1 DEF Notify, mapVars, WriteClient
  <2> QED
    BY <1>5, <2>2
<1>7. ASSUME NEW i \in Ids, LookupBlock(i) PROVE UNCHANGED Flights!coalescingVars
  BY <1>5, <1>7 DEF LookupBlock, mapVars
<1>8. ASSUME NEW i \in Ids, LookupReplay(i) PROVE UNCHANGED Flights!coalescingVars
  <2>0. PICK h \in Hashes : WriteClient({i}, "replay", cache[<<req[i].tool, h>>])
    BY <1>8, HitsFound DEF LookupReplay
  <2>1. <<req[i].tool, h>> \in Keys
    BY <1>8, RequestFields DEF LookupReplay, Analysed, Keys, StdioInv, TypeOK
  <2>2. PICK of \in Ids \cup {NoId} : of = cache[<<req[i].tool, h>>]
    BY <2>1 DEF StdioInv, TypeOK
  <2>3. WriteClient({i}, "replay", of) /\ UNCHANGED <<pp, pending>>
    BY <1>8, <2>0, <2>2 DEF LookupReplay, mapVars
  <2> QED
    BY <1>5, <2>3
<1>9. ASSUME NEW i \in Ids, Respond(i) PROVE UNCHANGED Flights!coalescingVars
  <2>1. /\ pp.at = "scan" /\ pp'.id = i /\ pending' = pending \ {i}
        /\ pp'.at = (IF i \in pending THEN "cache" ELSE "fanout")
        /\ pp'.waiters = {} /\ pp.waiters = {} /\ answers' = answers
    BY <1>9 DEF Respond, StdioInv, Pumps
  <2>2. \A j \in Ids : Holder(j)' <=> Holder(j)
    BY <2>1 DEF Holder
  <2> QED
    BY <1>1, <1>2, <2>1, <2>2, Unseen
<1>10. CASE CacheResponse
  <2>1. /\ pp.at = "cache" /\ pp'.at = "collect" /\ pp'.id = pp.id
        /\ pp'.waiters = pp.waiters /\ pending' = pending /\ answers' = answers
    BY <1>10 DEF CacheResponse, StdioInv, TypeOK, mapVars
  <2>2. \A j \in Ids : Holder(j)' <=> Holder(j)
    BY <2>1 DEF Holder
  <2> QED
    BY <1>1, <1>2, <2>1, <2>2, Unseen
<1> QED
  BY <1>4, <1>6, <1>7, <1>8, <1>9, <1>10 DEF Answering

\* The two pumps and the sweeper implement the abstract specification of
\* coalescing: one call per key is with the child at a time, and a duplicate
\* takes the answer of the call it joined, or is given up with it.
THEOREM StdioImplementsCoalescing == Spec => ImplementsCoalescing
<1>1. Init => Flights!CoalescingInit
  <2> SUFFICES ASSUME Init PROVE Flights!CoalescingInit
    OBVIOUS
  <2>0. StdioInv
    BY InitInv
  <2>1. Seen
    BY <2>0, SeenNow
  <2>2. ASSUME NEW i \in Ids
        PROVE  ~Holder(i) /\ ~Attached(i) /\ i \notin pp.waiters
    BY DEF Init, Holder, Attached, Scanning
  <2>3. ASSUME NEW i \in Ids PROVE Taken(i) = NoId
    BY DEF Taken, Init
  <2>4. Executes = {}
    BY <2>1, <2>2 DEF Seen
  <2>5. WaitsFor = [i \in Ids |-> NoId]
    BY <2>1, <2>2 DEF WaitsFor, Attached
  <2>6. TookFrom = [i \in Ids |-> NoId]
    BY <2>3 DEF TookFrom
  <2>7. key = [i \in Ids |-> Untracked]
    BY DEF Init
  <2> QED
    BY <2>4, <2>5, <2>6, <2>7 DEF Flights!CoalescingInit, Executes, WaitsFor, TookFrom
<1>2. StdioInv /\ StdioInv' /\ [Next]_vars
        => [Flights!CoalescingNext]_(Flights!coalescingVars)
  <2> SUFFICES ASSUME StdioInv, StdioInv', [Next]_vars
               PROVE  Flights!CoalescingNext \/ UNCHANGED Flights!coalescingVars
    OBVIOUS
  <2>1. CASE Lead \/ Join \/ Collect
    BY <2>1, LeadStarts, JoinJoins, CollectEnds DEF Flights!CoalescingNext
  <2>2. CASE FanOut
    BY <2>2, FanOutTakes DEF Flights!CoalescingNext
  <2>3. CASE Sweep
    BY <2>3, SweepAbandons DEF Flights!CoalescingNext
  <2>4. CASE \/ \E i \in Ids : Looking(i) \/ Answering(i) \/ Respond(i)
             \/ WriteChild \/ CacheResponse \/ Tick \/ Notify
             \/ \E k \in Keys : Forget(k)
             \/ ChildExit \/ Cancel \/ Eof \/ Return \/ UNCHANGED vars
    BY <2>4, OtherSteps
  <2> QED
    BY <2>1, <2>2, <2>3, <2>4 DEF Next, ClientPump, ChildPump, Sweeper, Looking,
       Answering
<1>3. Spec => Flights!CoalescingSpec
  BY <1>1, <1>2, StdioInvariant, PTL DEF Spec, Flights!CoalescingSpec
<1> QED
  BY <1>3 DEF ImplementsCoalescing
=============================================================================
