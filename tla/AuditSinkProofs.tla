-------------------------- MODULE AuditSinkProofs --------------------------
(***************************************************************************)
(* Proofs about the audit log, for any number of writers, any sequence of  *)
(* sinks and any channel capacity, flush size and fault.                   *)
(*                                                                         *)
(* The invariant is a ledger per sink (Ledger): what the sink accepted is  *)
(* what is in the channel, in the buffer, or settled, each record in one   *)
(* of the three and once.  Records move from one column to the next and    *)
(* the balance stays.  A second part is the order of Close: a sink whose   *)
(* goroutine has returned holds nothing and takes nothing any more, and    *)
(* Close has passed, in time, only sinks that have returned.  The third is *)
(* the clock of an S3 sink (Window): the batch that is open began no later *)
(* than its records and no earlier than anything uploaded before it, and   *)
(* a record that is in no uploaded batch was taken when it began.          *)
(***************************************************************************)
EXTENDS AuditSink, FiniteSetTheorems, TLAPS

\* No record is in s twice.
Distinct(s) == \A m, n \in DOMAIN s : s[m] = s[n] => m = n

\* The columns of a sink: accepted, in the channel, buffered, in the file,
\* uploaded, given up.
Balance(acc, c, b, l, u, f) ==
  /\ IsFiniteSet(acc)
  /\ Distinct(c)
  /\ acc = Recs(c) \cup b \cup Recs(l) \cup u \cup f
  /\ Recs(c) \cap (b \cup Recs(l) \cup u \cup f) = {}
  /\ b \cap (Recs(l) \cup u \cup f) = {}
  /\ Cardinality(acc) = Len(c) + Cardinality(b) + Len(l)
                        + Cardinality(u) + Cardinality(f)

-----------------------------------------------------------------------------
(* Records of sequences.                                                   *)

\* A record appended to a sequence is one more of its records.
LEMMA RecsAppend ==
  ASSUME NEW S, NEW s \in Seq(S), NEW x \in S
  PROVE  Recs(Append(s, x)) = Recs(s) \cup {x} /\ Len(Append(s, x)) = Len(s) + 1
<1>1. /\ DOMAIN Append(s, x) = 1..(Len(s) + 1) /\ DOMAIN s = 1..Len(s)
      /\ Append(s, x)[Len(s) + 1] = x
      /\ \A n \in 1..Len(s) : Append(s, x)[n] = s[n]
  OBVIOUS
<1>2. ASSUME NEW y PROVE y \in Recs(Append(s, x)) <=> y \in Recs(s) \/ y = x
  BY <1>1 DEF Recs
<1> QED
  BY <1>2

\* The head is the one record a tail leaves out.
LEMMA RecsTail ==
  ASSUME NEW S, NEW s \in Seq(S), s # <<>>
  PROVE  /\ Recs(s) = Recs(Tail(s)) \cup {Head(s)}
         /\ Tail(s) \in Seq(S) /\ Head(s) \in S
         /\ Len(s) \in Nat \ {0} /\ Len(Tail(s)) = Len(s) - 1
<1>1. /\ Tail(s) \in Seq(S) /\ Head(s) \in S /\ Head(s) = s[1]
      /\ Len(s) \in Nat \ {0} /\ Len(Tail(s)) = Len(s) - 1
      /\ DOMAIN s = 1..Len(s) /\ DOMAIN Tail(s) = 1..(Len(s) - 1)
      /\ \A n \in 1..(Len(s) - 1) : Tail(s)[n] = s[n + 1]
  OBVIOUS
<1>2. ASSUME NEW y PROVE y \in Recs(s) => y \in Recs(Tail(s)) \/ y = Head(s)
  <2>1. SUFFICES ASSUME NEW n \in DOMAIN s, y = s[n], n # 1 PROVE y \in Recs(Tail(s))
    BY <1>1 DEF Recs
  <2>2. n - 1 \in DOMAIN Tail(s) /\ Tail(s)[n - 1] = y
    BY <1>1, <2>1
  <2> QED
    BY <2>2 DEF Recs
<1>3. ASSUME NEW y PROVE y \in Recs(Tail(s)) \/ y = Head(s) => y \in Recs(s)
  <2>1. 1 \in DOMAIN s /\ \A n \in DOMAIN Tail(s) : n + 1 \in DOMAIN s
    BY <1>1
  <2> QED
    BY <1>1, <2>1 DEF Recs
<1> QED
  BY <1>1, <1>2, <1>3

\* A sequence without duplicates stays one when a new record is appended and
\* when its head is taken off.
LEMMA DistinctAppend ==
  ASSUME NEW S, NEW s \in Seq(S), NEW x \in S, Distinct(s), x \notin Recs(s)
  PROVE  Distinct(Append(s, x))
<1>1. /\ DOMAIN Append(s, x) = 1..(Len(s) + 1) /\ DOMAIN s = 1..Len(s)
      /\ Append(s, x)[Len(s) + 1] = x
      /\ \A n \in 1..Len(s) : Append(s, x)[n] = s[n]
  OBVIOUS
<1> QED
  BY <1>1 DEF Distinct, Recs

\* The head of a sequence without duplicates is not in its tail.
LEMMA DistinctTail ==
  ASSUME NEW S, NEW s \in Seq(S), s # <<>>, Distinct(s)
  PROVE  Distinct(Tail(s)) /\ Head(s) \notin Recs(Tail(s))
<1>1. /\ Head(s) = s[1] /\ Len(s) \in Nat \ {0}
      /\ DOMAIN s = 1..Len(s) /\ DOMAIN Tail(s) = 1..(Len(s) - 1)
      /\ \A n \in 1..(Len(s) - 1) : Tail(s)[n] = s[n + 1]
  OBVIOUS
<1>2. Distinct(Tail(s))
  BY <1>1 DEF Distinct
<1>3. ASSUME NEW n \in DOMAIN Tail(s), Tail(s)[n] = Head(s) PROVE FALSE
  <2>1. n + 1 \in DOMAIN s /\ 1 \in DOMAIN s /\ s[n + 1] = s[1]
    BY <1>1, <1>3
  <2>2. n + 1 = 1
    BY <2>1 DEF Distinct
  <2> QED
    BY <1>1, <1>3, <2>2
<1> QED
  BY <1>2, <1>3 DEF Recs

-----------------------------------------------------------------------------
(* The moves a record can make in the ledger.                              *)

\* What a balance says of the sizes of its columns.
LEMMA BalanceFinite ==
  ASSUME NEW acc, NEW S, NEW c \in Seq(S), NEW b, NEW l \in Seq(S), NEW u, NEW f,
         Balance(acc, c, b, l, u, f)
  PROVE  /\ IsFiniteSet(b) /\ IsFiniteSet(u) /\ IsFiniteSet(f)
         /\ Cardinality(b) \in Nat /\ Cardinality(u) \in Nat /\ Cardinality(f) \in Nat
         /\ Cardinality(acc) \in Nat /\ Len(c) \in Nat /\ Len(l) \in Nat
<1>1. IsFiniteSet(acc) /\ b \in SUBSET acc /\ u \in SUBSET acc /\ f \in SUBSET acc
  BY DEF Balance
<1>2. IsFiniteSet(b) /\ IsFiniteSet(u) /\ IsFiniteSet(f)
  BY <1>1, FS_Subset
<1> QED
  BY <1>1, <1>2, FS_CardinalityType

\* A Write: the record is new to the sink and enters the channel.
LEMMA Admitted ==
  ASSUME NEW acc, NEW S, NEW c \in Seq(S), NEW b, NEW l \in Seq(S), NEW u, NEW f,
         Balance(acc, c, b, l, u, f), NEW w \in S, w \notin acc
  PROVE  Balance(acc \cup {w}, Append(c, w), b, l, u, f)
<1>0. /\ IsFiniteSet(b) /\ IsFiniteSet(u) /\ IsFiniteSet(f)
      /\ Cardinality(b) \in Nat /\ Cardinality(u) \in Nat /\ Cardinality(f) \in Nat
      /\ Cardinality(acc) \in Nat /\ Len(c) \in Nat /\ Len(l) \in Nat
  BY BalanceFinite
<1>1. /\ IsFiniteSet(acc \cup {w})
      /\ Cardinality(acc \cup {w}) = Cardinality(acc) + 1
  BY FS_AddElement DEF Balance
<1>2. Recs(Append(c, w)) = Recs(c) \cup {w} /\ Len(Append(c, w)) = Len(c) + 1
  BY RecsAppend
<1>3. w \notin Recs(c)
  BY DEF Balance
<1>4. Distinct(Append(c, w))
  BY <1>3, DistinctAppend DEF Balance
<1> QED
  BY <1>1, <1>2, <1>4, <1>0 DEF Balance

\* The file sink writes the next record.
LEMMA Written ==
  ASSUME NEW acc, NEW S, NEW c \in Seq(S), NEW b, NEW l \in Seq(S), NEW u, NEW f,
         Balance(acc, c, b, l, u, f), c # <<>>
  PROVE  Balance(acc, Tail(c), b, Append(l, Head(c)), u, f)
<1>0. /\ IsFiniteSet(b) /\ IsFiniteSet(u) /\ IsFiniteSet(f)
      /\ Cardinality(b) \in Nat /\ Cardinality(u) \in Nat /\ Cardinality(f) \in Nat
      /\ Cardinality(acc) \in Nat /\ Len(c) \in Nat /\ Len(l) \in Nat
  BY BalanceFinite
<1>1. Distinct(Tail(c)) /\ Head(c) \notin Recs(Tail(c))
  BY DistinctTail DEF Balance
<1>2. /\ Recs(c) = Recs(Tail(c)) \cup {Head(c)} /\ Len(Tail(c)) = Len(c) - 1
      /\ Head(c) \in S
  BY RecsTail
<1>3. /\ Recs(Append(l, Head(c))) = Recs(l) \cup {Head(c)}
      /\ Len(Append(l, Head(c))) = Len(l) + 1
  BY <1>2, RecsAppend
<1> QED
  BY <1>1, <1>2, <1>3, <1>0 DEF Balance

\* The file sink fails to write the next record.
LEMMA NotWritten ==
  ASSUME NEW acc, NEW S, NEW c \in Seq(S), NEW b, NEW l \in Seq(S), NEW u, NEW f,
         Balance(acc, c, b, l, u, f), c # <<>>
  PROVE  Balance(acc, Tail(c), b, l, u, f \cup {Head(c)})
<1>0. /\ IsFiniteSet(b) /\ IsFiniteSet(u) /\ IsFiniteSet(f)
      /\ Cardinality(b) \in Nat /\ Cardinality(u) \in Nat /\ Cardinality(f) \in Nat
      /\ Cardinality(acc) \in Nat /\ Len(c) \in Nat /\ Len(l) \in Nat
  BY BalanceFinite
<1>1. Distinct(Tail(c)) /\ Head(c) \notin Recs(Tail(c))
  BY DistinctTail DEF Balance
<1>2. Recs(c) = Recs(Tail(c)) \cup {Head(c)} /\ Len(Tail(c)) = Len(c) - 1
  BY RecsTail
<1>3. Head(c) \notin f
  BY <1>2 DEF Balance
<1>4. Cardinality(f \cup {Head(c)}) = Cardinality(f) + 1
  BY <1>3, <1>0, FS_AddElement
<1>5. /\ acc = Recs(Tail(c)) \cup b \cup Recs(l) \cup u \cup (f \cup {Head(c)})
      /\ Recs(Tail(c)) \cap (b \cup Recs(l) \cup u \cup (f \cup {Head(c)})) = {}
      /\ b \cap (Recs(l) \cup u \cup (f \cup {Head(c)})) = {}
  BY <1>1, <1>2 DEF Balance
<1>6. Cardinality(acc) = Len(Tail(c)) + Cardinality(b) + Len(l)
                         + Cardinality(u) + Cardinality(f \cup {Head(c)})
  BY <1>0, <1>2, <1>4 DEF Balance
<1> QED
  BY <1>1, <1>5, <1>6 DEF Balance

\* The S3 sink takes the next record into its buffer.
LEMMA Buffered ==
  ASSUME NEW acc, NEW S, NEW c \in Seq(S), NEW b, NEW l \in Seq(S), NEW u, NEW f,
         Balance(acc, c, b, l, u, f), c # <<>>
  PROVE  Balance(acc, Tail(c), b \cup {Head(c)}, l, u, f)
<1>0. /\ IsFiniteSet(b) /\ IsFiniteSet(u) /\ IsFiniteSet(f)
      /\ Cardinality(b) \in Nat /\ Cardinality(u) \in Nat /\ Cardinality(f) \in Nat
      /\ Cardinality(acc) \in Nat /\ Len(c) \in Nat /\ Len(l) \in Nat
  BY BalanceFinite
<1>1. Distinct(Tail(c)) /\ Head(c) \notin Recs(Tail(c))
  BY DistinctTail DEF Balance
<1>2. Recs(c) = Recs(Tail(c)) \cup {Head(c)} /\ Len(Tail(c)) = Len(c) - 1
  BY RecsTail
<1>3. Head(c) \notin b
  BY <1>2 DEF Balance
<1>4. Cardinality(b \cup {Head(c)}) = Cardinality(b) + 1
  BY <1>3, <1>0, FS_AddElement
<1> QED
  BY <1>1, <1>2, <1>4, <1>0 DEF Balance

\* A flush settles the buffer, as an upload or as a failure.
LEMMA Flushed ==
  ASSUME NEW acc, NEW S, NEW c \in Seq(S), NEW b, NEW l \in Seq(S), NEW u, NEW f,
         Balance(acc, c, b, l, u, f)
  PROVE  /\ Balance(acc, c, {}, l, u \cup b, f)
         /\ Balance(acc, c, {}, l, u, f \cup b)
<1>0. /\ IsFiniteSet(b) /\ IsFiniteSet(u) /\ IsFiniteSet(f)
      /\ Cardinality(b) \in Nat /\ Cardinality(u) \in Nat /\ Cardinality(f) \in Nat
      /\ Cardinality(acc) \in Nat /\ Len(c) \in Nat /\ Len(l) \in Nat
  BY BalanceFinite
<1>1. u \cap b = {} /\ f \cap b = {}
  BY DEF Balance
<1>2. /\ Cardinality(u \cup b) = Cardinality(u) + Cardinality(b)
      /\ Cardinality(f \cup b) = Cardinality(f) + Cardinality(b)
  <2>1. /\ Cardinality(u \cup b) = Cardinality(u) + Cardinality(b) - Cardinality(u \cap b)
        /\ Cardinality(f \cup b) = Cardinality(f) + Cardinality(b) - Cardinality(f \cap b)
    BY <1>0, FS_Union
  <2>2. Cardinality(u \cap b) = 0 /\ Cardinality(f \cap b) = 0
    BY <1>1, FS_EmptySet
  <2> QED
    BY <1>0, <2>1, <2>2
<1> QED
  BY <1>2, <1>0, FS_EmptySet DEF Balance

-----------------------------------------------------------------------------
(* The invariant.                                                          *)

\* A writer at p has left sink i behind.
Passed(p, i) == p.at = "returned" \/ p.sink > i

\* The channels and the upload histories are functions on the sinks.
Shaped == /\ ch = [i \in 1..N |-> ch[i]]
          /\ uploaded = [i \in 1..N |-> uploaded[i]]

\* A writer in a sink's Write is at a sink that exists, an idle one at none.
Placed(p) == /\ p.at \in {"check", "send", "parked"} => p.sink \in 1..N
             /\ p.at = "idle" => p.sink = 0

\* Close is at a sink, whose closed channel it closes first.
CloseAt ==
  /\ cl.at \in {"flag", "chan", "wait"} => cl.sink \in 1..N
  /\ cl.at \in {"chan", "wait"} => cl.sink \in closed
  /\ cl.at = "wait" => cl.sink \in chClosed

\* Before its context expires, Close has passed only sinks that have ended.
ClosedInTime ==
  ~expired =>
    /\ cl.at \in {"flag", "chan", "wait"} =>
         \A i \in 1..N : i < cl.sink => i \in ended
    /\ cl.at = "closed" => \A i \in 1..N : i \in ended

\* The books of sink i: its columns balance, its batches are disjoint, only
\* writers past it have a record with it, and once its goroutine has returned
\* it holds nothing.  A file sink has no buffer and gives up in silence, an S3
\* sink does not.
Ledger(i) ==
  /\ Balance(accepted[i], ch[i], buf[i], lines[i], Uploaded(i), GivenUp(i))
  /\ \A b, c \in uploaded[i] : b = c \/ b.recs \cap c.recs = {}
  /\ \A w \in accepted[i] : Passed(wr[w], i)
  /\ i \in ended => ch[i] = <<>> /\ buf[i] = {}
  /\ Sinks[i] = "file" => buf[i] = {}
  /\ failed[i] # {} => Sinks[i] = "s3"
  /\ dropped[i] # {} => Sinks[i] = "file" /\ Faults \cap {"io", "encode"} # {}
  /\ i \in stuck => "io" \in Faults

\* An open batch S that began at t, where T are the times of the takes, U the
\* records uploaded and n the time: no record of S was taken before t, none of
\* U after it, and one that is not in U was taken at t.
Ready(T, U, S, t, n) ==
  /\ t \in 0..MaxTime /\ t <= n
  /\ \A w \in S : t <= T[w]
  /\ \A x \in U : T[x] <= t
  /\ \E q \in Writers \ U : T[q] = t

\* A record of the batches up is in the bucket ob, or another one, which is not
\* in its batch, was taken at the same time; no batch is older than its key.
Kept(T, up, ob) ==
  \A b \in up : \A x \in b.recs :
    /\ b.at <= T[x]
    /\ x \in ob[b.at] \/ \E q \in Writers \ b.recs : T[q] = T[x]

\* The clock of sink i.
Window(i) ==
  /\ \A w \in Writers : takenAt[i][w] <= now
  /\ \A w \in Recs(ch[i]) \cup (Writers \ accepted[i]) : takenAt[i][w] = NoTime
  /\ buf[i] # {} => firstAt[i] # NoTime
  /\ firstAt[i] # NoTime => Ready(takenAt[i], Uploaded(i), buf[i], firstAt[i], now)
  /\ Kept(takenAt[i], uploaded[i], objects[i])

AuditTypes == TypeOK /\ Shaped /\ (\A w \in Writers : Placed(wr[w])) /\ CloseAt

\* The inductive invariant of this module.
AuditInv == AuditTypes /\ ClosedInTime /\ \A i \in 1..N : Ledger(i) /\ Window(i)

\* The places of writers and of Close.
Spots == [at : {"idle", "check", "send", "parked", "returned", "panicked"}, sink : 0..N]

CloseSpots == [at : {"open", "flag", "chan", "wait", "closed"}, sink : 0..N]

\* The sinks are counted by a natural number.
LEMMA SinkCount == N \in Nat
BY SinkAssumption DEF N

\* The fields of a place.
LEMMA AtFields ==
  ASSUME NEW a, NEW i
  PROVE  At(a, i).at = a /\ At(a, i).sink = i
BY DEF At

\* The place after sink i has passed it, and exists.
LEMMA NextSinkType ==
  ASSUME NEW i \in 0..N
  PROVE  /\ NextSink(i) \in Spots /\ Placed(NextSink(i))
         /\ Passed(NextSink(i), i)
         /\ \A j \in 1..N : j < i => Passed(NextSink(i), j)
<1>1. N \in Nat
  BY SinkCount
<1>2. CASE i >= N
  <2>1. NextSink(i) = At("returned", N)
    BY <1>2 DEF NextSink
  <2> QED
    BY <1>1, <2>1 DEF At, Spots, Placed, Passed
<1>3. CASE ~(i >= N)
  <2>1. NextSink(i) = At("check", i + 1) /\ i + 1 \in 1..N
    BY <1>1, <1>3 DEF NextSink
  <2> QED
    BY <1>1, <2>1 DEF At, Spots, Placed, Passed
<1> QED
  BY <1>2, <1>3

\* The parts of the types that the steps need.
LEMMA AuditFacts ==
  ASSUME AuditTypes
  PROVE  /\ wr \in [Writers -> Spots] /\ shut \in BOOLEAN /\ expired \in BOOLEAN
         /\ closed \subseteq 1..N /\ chClosed \subseteq closed /\ ended \subseteq chClosed
         /\ ch \in [1..N -> Seq(Writers)] /\ \A i \in 1..N : Len(ch[i]) <= Capacity
         /\ cl \in CloseSpots
         /\ lines \in [1..N -> Seq(Writers)] /\ buf \in [1..N -> SUBSET Writers]
         /\ firstAt \in [1..N -> Times]
         /\ objects \in [1..N -> [0..MaxTime -> SUBSET Writers]]
         /\ stuck \subseteq 1..N
         /\ failed \in [1..N -> SUBSET Writers] /\ dropped \in [1..N -> SUBSET Writers]
         /\ accepted \in [1..N -> SUBSET Writers]
         /\ takenAt \in [1..N -> [Writers -> Times]]
         /\ uploaded \in [1..N -> SUBSET [at : 0..MaxTime, recs : SUBSET Writers]]
         /\ now \in 0..MaxTime
<1>1. ch \in [1..N -> Seq(Writers)]
  BY DEF AuditTypes, TypeOK, Shaped
<1>2. uploaded \in [1..N -> SUBSET [at : 0..MaxTime, recs : SUBSET Writers]]
  BY DEF AuditTypes, TypeOK, Shaped
<1> QED
  BY <1>1, <1>2 DEF AuditTypes, TypeOK, Spots, CloseSpots

\* The same facts make the types.
LEMMA AuditTypesFrom ==
  ASSUME wr' \in [Writers -> Spots], \A w \in Writers : Placed(wr'[w]),
         shut' \in BOOLEAN, expired' \in BOOLEAN,
         closed' \subseteq 1..N, chClosed' \subseteq closed', ended' \subseteq chClosed',
         ch' \in [1..N -> Seq(Writers)], \A i \in 1..N : Len(ch'[i]) <= Capacity,
         cl' \in CloseSpots, CloseAt',
         lines' \in [1..N -> Seq(Writers)], buf' \in [1..N -> SUBSET Writers],
         firstAt' \in [1..N -> Times],
         objects' \in [1..N -> [0..MaxTime -> SUBSET Writers]],
         stuck' \subseteq 1..N,
         failed' \in [1..N -> SUBSET Writers], dropped' \in [1..N -> SUBSET Writers],
         accepted' \in [1..N -> SUBSET Writers],
         takenAt' \in [1..N -> [Writers -> Times]],
         uploaded' \in [1..N -> SUBSET [at : 0..MaxTime, recs : SUBSET Writers]],
         now' \in 0..MaxTime
  PROVE  AuditTypes'
<1>1. Shaped'
  BY DEF Shaped
<1>2. (\A w \in Writers : Placed(wr[w]))'
  BY DEF Placed
<1>3. TypeOK'
  BY DEF TypeOK, Spots, CloseSpots
<1> QED
  BY <1>1, <1>2, <1>3 DEF AuditTypes

\* The books after a step balance when the new columns do.
LEMMA NewBalance ==
  ASSUME NEW i \in 1..N, NEW acc, NEW c, NEW b, NEW l, NEW u, NEW f,
         Balance(acc, c, b, l, u, f), accepted'[i] = acc, ch'[i] = c, buf'[i] = b,
         lines'[i] = l, Uploaded(i)' = u, GivenUp(i)' = f
  PROVE  Balance(accepted[i], ch[i], buf[i], lines[i], Uploaded(i), GivenUp(i))'
BY DEF Balance, Distinct, Recs

\* A sink nothing happens to keeps its books and its clock.
LEMMA SinkStays ==
  ASSUME NEW i \in 1..N, AuditTypes, Ledger(i), Window(i),
         ch'[i] = ch[i], buf'[i] = buf[i], lines'[i] = lines[i],
         uploaded'[i] = uploaded[i], failed'[i] = failed[i], dropped'[i] = dropped[i],
         objects'[i] = objects[i], accepted'[i] = accepted[i],
         firstAt'[i] = firstAt[i], takenAt'[i] = takenAt[i],
         now' \in 0..MaxTime, now <= now',
         i \in ended' => i \in ended, i \in stuck' => i \in stuck,
         \A w \in Writers : Passed(wr[w], i) => Passed(wr'[w], i)
  PROVE  Ledger(i)' /\ Window(i)'
<1>0. /\ accepted[i] \subseteq Writers /\ takenAt[i] \in [Writers -> Times]
      /\ now \in 0..MaxTime /\ MaxTime \in Nat
  BY AuditFacts, NumbersAssumption
<1>1. Uploaded(i)' = Uploaded(i) /\ GivenUp(i)' = GivenUp(i)
  BY DEF Uploaded, GivenUp
<1>2. Balance(accepted[i], ch[i], buf[i], lines[i], Uploaded(i), GivenUp(i))'
  BY <1>1, NewBalance DEF Ledger
<1>3. (\A w \in accepted[i] : Passed(wr[w], i))'
  BY <1>0 DEF Ledger, Passed
<1>4. Ledger(i)'
  BY <1>2, <1>3 DEF Ledger
<1>5. (\A w \in Writers : takenAt[i][w] <= now)'
  BY <1>0 DEF Window, Times, NoTime
<1>6. (firstAt[i] # NoTime => Ready(takenAt[i], Uploaded(i), buf[i], firstAt[i], now))'
  BY <1>0, <1>1 DEF Window, Ready
<1>7. Window(i)'
  BY <1>5, <1>6 DEF Window, Recs, Kept
<1> QED
  BY <1>4, <1>7

\* The audit log starts with empty books.
LEMMA AuditInit == Init => AuditInv
<1> SUFFICES ASSUME Init PROVE AuditInv
  OBVIOUS
<1>0. N \in Nat /\ MaxTime \in Nat /\ Capacity \in Nat
  BY SinkCount, NumbersAssumption
<1>1. At("idle", 0) \in Spots /\ Placed(At("idle", 0)) /\ cl \in CloseSpots
      /\ cl.at = "open"
  BY <1>0 DEF Init, At, Spots, CloseSpots, Placed
<1>2. AuditTypes
  <2>a. /\ wr \in [Writers -> Spots] /\ shut \in BOOLEAN /\ expired \in BOOLEAN
        /\ closed = {} /\ chClosed = {} /\ ended = {} /\ now = 0
    BY <1>1 DEF Init
  <2>b. /\ ch \in [1..N -> Seq(Writers)] /\ lines \in [1..N -> Seq(Writers)]
        /\ \A i \in 1..N : Len(ch[i]) <= Capacity
    BY <1>0 DEF Init
  <2>c. /\ buf \in [1..N -> SUBSET Writers] /\ failed \in [1..N -> SUBSET Writers]
        /\ dropped \in [1..N -> SUBSET Writers] /\ stuck \subseteq 1..N
        /\ accepted \in [1..N -> SUBSET Writers]
        /\ \A i \in 1..N : uploaded[i] = {}
    BY DEF Init
  <2>d. /\ firstAt \in [1..N -> Times]
        /\ objects \in [1..N -> [0..MaxTime -> SUBSET Writers]]
        /\ takenAt \in [1..N -> [Writers -> Times]]
    BY <1>0 DEF Init, Times
  <2>e. /\ closed \subseteq 1..N /\ chClosed \subseteq closed /\ ended \subseteq chClosed
        /\ now \in 0..MaxTime
        /\ \A i \in 1..N : uploaded[i] \subseteq [at : 0..MaxTime, recs : SUBSET Writers]
    BY <1>0, <2>a, <2>c
  <2>1. TypeOK
    BY <1>1, <2>a, <2>b, <2>c, <2>d, <2>e DEF TypeOK, Spots, CloseSpots
  <2> QED
    BY <1>1, <2>1 DEF Init, AuditTypes, Shaped, CloseAt
<1>3. ASSUME NEW i \in 1..N PROVE Ledger(i) /\ Window(i)
  <2>1. /\ accepted[i] = {} /\ ch[i] = <<>> /\ buf[i] = {} /\ lines[i] = <<>>
        /\ failed[i] = {} /\ dropped[i] = {} /\ uploaded[i] = {} /\ stuck = {}
        /\ firstAt[i] = NoTime /\ ended = {} /\ now = 0
        /\ \A w \in Writers : takenAt[i][w] = NoTime
    BY DEF Init
  <2>2. /\ Uploaded(i) = {} /\ GivenUp(i) = {} /\ Recs(<<>>) = {} /\ Distinct(<<>>)
    BY <2>1 DEF Uploaded, GivenUp, Recs, Distinct
  <2>3. Balance({}, <<>>, {}, <<>>, {}, {})
    BY <2>2, FS_EmptySet DEF Balance
  <2>4. Ledger(i)
    BY <2>1, <2>2, <2>3 DEF Ledger
  <2>5. Window(i)
    BY <2>1, <2>2 DEF Window, Kept, NoTime
  <2> QED
    BY <2>4, <2>5
<1> QED
  BY <1>1, <1>2, <1>3 DEF AuditInv, ClosedInTime

-----------------------------------------------------------------------------
(* The writers and Close.                                                  *)

\* A writer that only moves on disturbs no books.
LEMMA WriterMoves ==
  ASSUME AuditInv, NEW w \in Writers, NEW p \in Spots, Placed(p),
         \A i \in 1..N : Passed(wr[w], i) => Passed(p, i),
         wr' = [wr EXCEPT ![w] = p],
         UNCHANGED <<shut, closed, chClosed, ch, ended, cl, expired, ioVars, now,
                     accepted>>
  PROVE  AuditInv'
<1>0. AuditTypes /\ ClosedInTime /\ \A i \in 1..N : Ledger(i) /\ Window(i)
  BY DEF AuditInv
<1>1. wr \in [Writers -> Spots] /\ now \in 0..MaxTime /\ MaxTime \in Nat
  BY <1>0, AuditFacts, NumbersAssumption
<1>2. /\ wr' \in [Writers -> Spots] /\ \A v \in Writers : Placed(wr'[v])
      /\ \A i \in 1..N, v \in Writers : Passed(wr[v], i) => Passed(wr'[v], i)
  BY <1>0, <1>1 DEF AuditTypes
<1>3. AuditTypes'
  <2>1. CloseAt'
    BY <1>0 DEF AuditTypes, CloseAt
  <2>2. TypeOK'
    BY <1>0, <1>2 DEF AuditTypes, TypeOK, ioVars, Spots
  <2>3. Shaped'
    BY <1>0 DEF AuditTypes, Shaped, ioVars
  <2>4. (\A v \in Writers : Placed(wr[v]))'
    BY <1>2 DEF Placed
  <2> QED
    BY <2>1, <2>2, <2>3, <2>4 DEF AuditTypes
<1>4. ASSUME NEW i \in 1..N PROVE Ledger(i)' /\ Window(i)'
  BY <1>0, <1>1, <1>2, SinkStays DEF ioVars
<1>5. ClosedInTime'
  BY <1>0 DEF ClosedInTime
<1> QED
  BY <1>3, <1>4, <1>5 DEF AuditInv

\* The steps of Write that send nothing.
LEMMA MovesOnly ==
  ASSUME AuditInv, NEW w \in Writers,
         Write(w) \/ Check(w) \/ Park(w) \/ SendRefused(w) \/ SendPanics(w)
  PROVE  AuditInv'
<1>0. N \in Nat /\ wr \in [Writers -> Spots] /\ Placed(wr[w])
  BY SinkCount, AuditFacts DEF AuditInv, AuditTypes
<1>1. wr[w] \in Spots /\ wr[w].sink \in 0..N
  BY <1>0 DEF Spots
<1>2. CASE Write(w)
  <2>1. \A i \in 1..N : ~Passed(wr[w], i)
    BY <1>0, <1>2 DEF Write, Passed, Placed
  <2>2. At("returned", 0) \in Spots /\ Placed(At("returned", 0))
    BY <1>0 DEF At, Spots, Placed
  <2>3. NextSink(0) \in Spots /\ Placed(NextSink(0))
    BY <1>0, NextSinkType
  <2> QED
    BY <1>2, <2>1, <2>2, <2>3, WriterMoves DEF Write
<1>3. ASSUME NEW i \in 1..N, wr[w].sink = i, wr[w].at # "returned"
      PROVE  /\ NextSink(i) \in Spots /\ Placed(NextSink(i))
             /\ \A j \in 1..N : Passed(wr[w], j) => Passed(NextSink(i), j)
  BY <1>0, <1>3, NextSinkType DEF Passed
<1>4. ASSUME NEW i \in 1..N, wr[w].sink = i, wr[w].at # "returned",
             NEW a \in {"send", "parked", "panicked"}
      PROVE  /\ At(a, i) \in Spots /\ Placed(At(a, i))
             /\ \A j \in 1..N : Passed(wr[w], j) => Passed(At(a, i), j)
  BY <1>0, <1>4 DEF At, Spots, Placed, Passed
<1>5. CASE Check(w) \/ Park(w) \/ SendRefused(w) \/ SendPanics(w)
  <2>1. PICK i \in 1..N : i = wr[w].sink
    BY <1>0, <1>5 DEF Check, Park, SendRefused, SendPanics, Placed
  <2>2. /\ wr[w].at # "returned"
        /\ UNCHANGED <<shut, closed, chClosed, ch, ended, cl, expired, ioVars, now,
                       accepted>>
    BY <1>5 DEF Check, Park, SendRefused, SendPanics
  <2>3. \/ wr' = [wr EXCEPT ![w] = NextSink(i)]
        \/ \E a \in {"send", "parked", "panicked"} : wr' = [wr EXCEPT ![w] = At(a, i)]
    BY <1>5, <2>1 DEF Check, Park, SendRefused, SendPanics
  <2> QED
    BY <1>3, <1>4, <2>1, <2>2, <2>3, WriterMoves
<1> QED
  BY <1>2, <1>5

\* A send enters the record into the books of its sink, for the first time.
LEMMA SendKeeps ==
  ASSUME AuditInv, NEW w \in Writers, Send(w)
  PROVE  AuditInv'
<1>0. /\ AuditTypes /\ ClosedInTime /\ \A i \in 1..N : Ledger(i) /\ Window(i)
      /\ N \in Nat /\ Capacity \in Nat
  BY SinkCount, NumbersAssumption DEF AuditInv
<1>1. /\ wr \in [Writers -> Spots] /\ ch \in [1..N -> Seq(Writers)]
      /\ \A i \in 1..N : Len(ch[i]) <= Capacity
      /\ accepted \in [1..N -> SUBSET Writers] /\ lines \in [1..N -> Seq(Writers)]
      /\ ended \subseteq chClosed /\ now \in 0..MaxTime /\ MaxTime \in Nat
  BY <1>0, AuditFacts, NumbersAssumption
<1>2. PICK i \in 1..N : i = wr[w].sink
  BY <1>0 DEF Send, AuditTypes, Placed
<1>3. /\ wr[w].at \in {"send", "parked"} /\ i \notin chClosed
      /\ Len(ch[i]) < Capacity
      /\ ch' = [ch EXCEPT ![i] = Append(@, w)]
      /\ accepted' = [accepted EXCEPT ![i] = @ \cup {w}]
      /\ wr' = [wr EXCEPT ![w] = NextSink(i)]
      /\ UNCHANGED <<shut, closed, chClosed, ended, cl, expired, lines, buf, firstAt,
                     objects, stuck, failed, dropped, takenAt, uploaded, now>>
  BY <1>2 DEF Send, ioVars
<1>4. /\ NextSink(i) \in Spots /\ Placed(NextSink(i)) /\ Passed(NextSink(i), i)
      /\ \A j \in 1..N : Passed(wr[w], j) => Passed(NextSink(i), j)
  BY <1>0, <1>2, <1>3, NextSinkType DEF Passed
<1>5. /\ wr' \in [Writers -> Spots] /\ \A v \in Writers : Placed(wr'[v])
      /\ \A j \in 1..N, v \in Writers : Passed(wr[v], j) => Passed(wr'[v], j)
      /\ Passed(wr'[w], i)
  BY <1>0, <1>1, <1>3, <1>4 DEF AuditTypes
<1>6. AuditTypes'
  <2>1. /\ Append(ch[i], w) \in Seq(Writers) /\ Len(ch[i]) \in Nat
        /\ Len(Append(ch[i], w)) = Len(ch[i]) + 1
    BY <1>1
  <2>2. /\ ch' \in [1..N -> Seq(Writers)]
        /\ \A j \in 1..N : Len(ch'[j]) <= Capacity
    BY <1>0, <1>1, <1>3, <2>1
  <2>3. accepted' \in [1..N -> SUBSET Writers]
    BY <1>1, <1>3
  <2>4. CloseAt'
    BY <1>0, <1>3 DEF AuditTypes, CloseAt
  <2> QED
    BY <1>0, <1>3, <1>5, <2>2, <2>3, <2>4, AuditFacts, AuditTypesFrom
<1>7. ASSUME NEW j \in 1..N, j # i PROVE Ledger(j)' /\ Window(j)'
  BY <1>0, <1>1, <1>3, <1>5, <1>7, SinkStays
<1>8. Ledger(i)' /\ Window(i)'
  <2>1. w \notin accepted[i]
    BY <1>0, <1>2, <1>3 DEF Ledger, Passed
  <2>2. Balance(accepted[i] \cup {w}, Append(ch[i], w), buf[i], lines[i], Uploaded(i),
                GivenUp(i))
    BY <1>0, <1>1, <2>1, Admitted DEF Ledger
  <2>3. /\ accepted'[i] = accepted[i] \cup {w} /\ ch'[i] = Append(ch[i], w)
        /\ Uploaded(i)' = Uploaded(i) /\ GivenUp(i)' = GivenUp(i)
    BY <1>1, <1>3 DEF Uploaded, GivenUp
  <2>4. Balance(accepted[i], ch[i], buf[i], lines[i], Uploaded(i), GivenUp(i))'
    BY <1>3, <2>2, <2>3, NewBalance
  <2>5. \A v \in accepted'[i] : Passed(wr'[v], i)
    BY <1>0, <1>1, <1>5, <2>3 DEF Ledger
  <2>6. i \notin ended'
    BY <1>1, <1>3
  <2>7. Ledger(i)'
    BY <1>0, <1>3, <2>4, <2>5, <2>6 DEF Ledger, Passed
  <2>8. Recs(ch'[i]) = Recs(ch[i]) \cup {w}
    BY <1>1, <2>3, RecsAppend
  <2>9. \A v \in Recs(ch'[i]) \cup (Writers \ accepted'[i]) : takenAt[i][v] = NoTime
    BY <1>0, <2>1, <2>3, <2>8 DEF Window
  <2>10. (\A v \in Recs(ch[i]) \cup (Writers \ accepted[i]) : takenAt[i][v] = NoTime)'
    BY <1>3, <2>9 DEF Recs
  <2>11. Window(i)'
    BY <1>0, <1>3, <2>3, <2>10 DEF Window, Ready, Kept
  <2> QED
    BY <2>7, <2>11
<1>9. ClosedInTime'
  BY <1>0, <1>3 DEF ClosedInTime
<1> QED
  BY <1>6, <1>7, <1>8, <1>9 DEF AuditInv

\* Steps of Close, its deadline and the clock: no record moves.
LEMMA CloseKeeps ==
  ASSUME AuditInv, CloseWriter \/ CloseStep \/ Expire \/ Tick
  PROVE  AuditInv'
<1>0. /\ AuditTypes /\ ClosedInTime /\ (\A i \in 1..N : Ledger(i) /\ Window(i)) /\ CloseAt
      /\ N \in Nat /\ MaxTime \in Nat
  BY SinkCount, NumbersAssumption DEF AuditInv, AuditTypes
<1>1. /\ wr \in [Writers -> Spots] /\ now \in 0..MaxTime
      /\ cl \in CloseSpots /\ cl.sink \in 0..N
      /\ \A w \in Writers : Placed(wr[w])
  BY <1>0, AuditFacts DEF AuditTypes, CloseSpots
<1>2. UNCHANGED <<ch, ended, ioVars, accepted>> /\ now' \in 0..MaxTime /\ now <= now'
  BY <1>0, <1>1 DEF CloseWriter, CloseStep, CloseFlag, CloseChan, CloseWait, Expire, Tick
<1>3. /\ wr' \in [Writers -> Spots] /\ \A w \in Writers : Placed(wr'[w])
      /\ \A i \in 1..N, w \in Writers : Passed(wr[w], i) => Passed(wr'[w], i)
  <2>1. CASE wr' = wr
    BY <1>1, <2>1
  <2>2. CASE CloseFlag
    <3>1. PICK s \in 1..N : s = cl.sink
      BY <1>0, <2>2 DEF CloseFlag, CloseAt
    <3>2. /\ NextSink(s) \in Spots /\ Placed(NextSink(s))
          /\ \A i \in 1..N : Passed(At("parked", s), i) => Passed(NextSink(s), i)
      BY <1>0, <3>1, NextSinkType DEF Passed, At
    <3>3. wr' = [w \in Writers |-> IF wr[w] = At("parked", s)
                                     THEN NextSink(s) ELSE wr[w]]
      BY <2>2, <3>1 DEF CloseFlag
    <3> QED
      BY <1>1, <3>2, <3>3
  <2> QED
    BY <2>1, <2>2 DEF CloseWriter, CloseStep, CloseChan, CloseWait, Expire, Tick
<1>4. ASSUME NEW i \in 1..N PROVE Ledger(i)' /\ Window(i)'
  BY <1>0, <1>1, <1>2, <1>3, SinkStays DEF ioVars
<1>5. /\ shut' \in BOOLEAN /\ expired' \in BOOLEAN /\ now' \in 0..MaxTime
      /\ closed' \subseteq 1..N /\ chClosed' \subseteq closed' /\ ended' \subseteq chClosed'
      /\ cl' \in CloseSpots /\ CloseAt' /\ ClosedInTime'
  <2>0. /\ shut \in BOOLEAN /\ expired \in BOOLEAN /\ now \in 0..MaxTime
        /\ closed \subseteq 1..N /\ chClosed \subseteq closed /\ ended \subseteq chClosed
    BY <1>0, AuditFacts
  <2>1. CASE CloseWriter
    <3>1. CASE N = 0
      <4>1. cl' = At("closed", 0)
        BY <2>1, <3>1 DEF CloseWriter
      <4>2. cl' \in CloseSpots /\ cl'.at = "closed"
        BY <1>0, <4>1 DEF At, CloseSpots
      <4> QED
        BY <2>0, <2>1, <3>1, <4>2 DEF CloseWriter, CloseAt, ClosedInTime
    <3>2. CASE N # 0
      <4>1. cl' = At("flag", 1)
        BY <2>1, <3>2 DEF CloseWriter
      <4>2. cl' \in CloseSpots /\ cl'.at = "flag" /\ cl'.sink = 1 /\ 1 \in 1..N
        BY <1>0, <3>2, <4>1 DEF At, CloseSpots
      <4> QED
        BY <2>0, <2>1, <4>2 DEF CloseWriter, CloseAt, ClosedInTime
    <3> QED
      BY <3>1, <3>2
  <2>2. CASE CloseFlag
    <3>1. cl' \in CloseSpots /\ cl'.at = "chan" /\ cl'.sink = cl.sink
      BY <1>1, <2>2 DEF CloseFlag, CloseSpots
    <3> QED
      BY <1>0, <2>0, <2>2, <3>1 DEF CloseFlag, CloseAt, ClosedInTime
  <2>3. CASE CloseChan
    <3>1. cl' \in CloseSpots /\ cl'.at = "wait" /\ cl'.sink = cl.sink
      BY <1>1, <2>3 DEF CloseChan, CloseSpots
    <3> QED
      BY <1>0, <2>0, <2>3, <3>1 DEF CloseChan, CloseAt, ClosedInTime
  <2>4. CASE CloseWait
    <3>0. cl.at = "wait" /\ cl.sink \in 1..N /\ (cl.sink \in ended \/ expired)
      BY <1>0, <2>4 DEF CloseWait, CloseAt
    <3>1. CASE cl.sink = N
      <4>1. cl' = At("closed", N)
        BY <2>4, <3>1 DEF CloseWait
      <4>2. cl' \in CloseSpots /\ cl'.at = "closed"
        BY <1>0, <4>1 DEF At, CloseSpots
      <4>3. ~expired => \A i \in 1..N : i \in ended
        BY <1>0, <3>0, <3>1 DEF ClosedInTime
      <4> QED
        BY <2>0, <2>4, <4>2, <4>3 DEF CloseWait, CloseAt, ClosedInTime
    <3>2. CASE cl.sink # N
      <4>1. cl' = At("flag", cl.sink + 1)
        BY <2>4, <3>2 DEF CloseWait
      <4>2. /\ cl' \in CloseSpots /\ cl'.at = "flag" /\ cl'.sink = cl.sink + 1
            /\ cl.sink + 1 \in 1..N
        BY <1>0, <3>0, <3>2, <4>1 DEF At, CloseSpots
      <4>3. ~expired => \A i \in 1..N : i < cl.sink + 1 => i \in ended
        BY <1>0, <3>0 DEF ClosedInTime
      <4> QED
        BY <2>0, <2>4, <4>2, <4>3 DEF CloseWait, CloseAt, ClosedInTime
    <3> QED
      BY <3>1, <3>2
  <2>5. CASE Expire
    BY <1>0, <1>1, <2>0, <2>5 DEF Expire, CloseAt, ClosedInTime
  <2>6. CASE Tick
    <3>1. now' \in 0..MaxTime
      BY <1>0, <2>0, <2>6 DEF Tick
    <3>2. UNCHANGED <<shut, expired, closed, chClosed, ended, cl>>
      BY <2>6 DEF Tick
    <3> QED
      BY <1>0, <1>1, <2>0, <3>1, <3>2 DEF CloseAt, ClosedInTime
  <2> QED
    BY <2>1, <2>2, <2>3, <2>4, <2>5, <2>6 DEF CloseStep
<1>6. AuditTypes'
  BY <1>0, <1>2, <1>3, <1>5, AuditFacts, AuditTypesFrom DEF ioVars
<1> QED
  BY <1>4, <1>5, <1>6 DEF AuditInv

-----------------------------------------------------------------------------
(* The sinks' goroutines.                                                  *)

\* What a step of sink i's goroutine leaves alone, and that it moves records
\* rightly within its own books, is all there is to show.
LEMMA SinkMoves ==
  ASSUME AuditInv, NEW i \in 1..N,
         UNCHANGED <<wr, shut, closed, chClosed, cl, expired, now, accepted>>,
         \A j \in 1..N \ {i} :
           /\ ch'[j] = ch[j] /\ buf'[j] = buf[j] /\ lines'[j] = lines[j]
           /\ uploaded'[j] = uploaded[j] /\ failed'[j] = failed[j]
           /\ dropped'[j] = dropped[j] /\ takenAt'[j] = takenAt[j]
           /\ objects'[j] = objects[j] /\ firstAt'[j] = firstAt[j],
         ch' \in [1..N -> Seq(Writers)], Len(ch'[i]) <= Capacity,
         lines' \in [1..N -> Seq(Writers)], buf' \in [1..N -> SUBSET Writers],
         firstAt' \in [1..N -> Times],
         objects' \in [1..N -> [0..MaxTime -> SUBSET Writers]],
         stuck' \subseteq stuck \cup {i},
         failed' \in [1..N -> SUBSET Writers], dropped' \in [1..N -> SUBSET Writers],
         takenAt' \in [1..N -> [Writers -> Times]],
         uploaded' \in [1..N -> SUBSET [at : 0..MaxTime, recs : SUBSET Writers]],
         ended \subseteq ended', ended' \subseteq ended \cup {i},
         i \in ended' => i \in chClosed,
         Ledger(i)', Window(i)'
  PROVE  AuditInv'
<1>0. /\ AuditTypes /\ ClosedInTime /\ (\A j \in 1..N : Ledger(j) /\ Window(j))
      /\ CloseAt
  BY DEF AuditInv, AuditTypes
<1>1. /\ \A j \in 1..N : Len(ch'[j]) <= Capacity
      /\ now' \in 0..MaxTime /\ now <= now' /\ stuck' \subseteq 1..N
  BY <1>0, AuditFacts, NumbersAssumption
<1>2. ASSUME NEW j \in 1..N, j # i PROVE Ledger(j)' /\ Window(j)'
  BY <1>0, <1>1, <1>2, SinkStays
<1>3. AuditTypes'
  <2>1. ended' \subseteq chClosed' /\ CloseAt' /\ \A w \in Writers : Placed(wr'[w])
    BY <1>0, AuditFacts DEF CloseAt, AuditTypes
  <2> QED
    BY <1>0, <1>1, <2>1, AuditFacts, AuditTypesFrom
<1>4. ClosedInTime'
  BY <1>0 DEF ClosedInTime
<1> QED
  BY <1>2, <1>3, <1>4 DEF AuditInv

\* A sink whose channel loses its head, and whose clock stands, keeps its window.
LEMMA WindowStays ==
  ASSUME AuditTypes, NEW i \in 1..N, Window(i),
         ch'[i] = ch[i] \/ (ch[i] # <<>> /\ ch'[i] = Tail(ch[i])),
         buf'[i] = buf[i], uploaded'[i] = uploaded[i], objects'[i] = objects[i],
         firstAt'[i] = firstAt[i], takenAt'[i] = takenAt[i], accepted'[i] = accepted[i],
         now' = now
  PROVE  Window(i)'
<1>1. Uploaded(i)' = Uploaded(i)
  BY DEF Uploaded
<1>2. ch \in [1..N -> Seq(Writers)]
  BY AuditFacts
<1>3. Recs(ch'[i]) \subseteq Recs(ch[i])
  BY <1>2, RecsTail
<1>4. (\A w \in Recs(ch[i]) \cup (Writers \ accepted[i]) : takenAt[i][w] = NoTime)'
  <2>1. \A w \in Recs(ch'[i]) \cup (Writers \ accepted[i]) : takenAt[i][w] = NoTime
    BY <1>3 DEF Window
  <2> QED
    BY <2>1 DEF Recs
<1> QED
  BY <1>1, <1>4 DEF Window, Ready, Kept

\* The file sink's goroutine.
LEMMA FileKeeps ==
  ASSUME AuditInv, NEW i \in 1..N, FileTake(i) \/ FileEnd(i)
  PROVE  AuditInv'
<1>0. /\ AuditTypes /\ Ledger(i) /\ Window(i) /\ Capacity \in Nat
  BY NumbersAssumption DEF AuditInv
<1>1. /\ ch \in [1..N -> Seq(Writers)] /\ (\A j \in 1..N : Len(ch[j]) <= Capacity)
      /\ lines \in [1..N -> Seq(Writers)] /\ buf \in [1..N -> SUBSET Writers]
      /\ firstAt \in [1..N -> Times]
      /\ objects \in [1..N -> [0..MaxTime -> SUBSET Writers]]
      /\ failed \in [1..N -> SUBSET Writers] /\ dropped \in [1..N -> SUBSET Writers]
      /\ takenAt \in [1..N -> [Writers -> Times]]
      /\ uploaded \in [1..N -> SUBSET [at : 0..MaxTime, recs : SUBSET Writers]]
      /\ ended \subseteq chClosed
  BY <1>0, AuditFacts
<1>2. CASE FileTake(i)
  <2>0. /\ Sinks[i] = "file" /\ ch[i] # <<>> /\ ch' = [ch EXCEPT ![i] = Tail(@)]
        /\ UNCHANGED <<wr, shut, closed, chClosed, ended, cl, expired, buf, firstAt,
                       objects, failed, now, accepted, takenAt, uploaded>>
        /\ \/ /\ lines' = [lines EXCEPT ![i] = Append(@, Head(ch[i]))]
              /\ dropped' = dropped
           \/ /\ dropped' = [dropped EXCEPT ![i] = @ \cup {Head(ch[i])}]
              /\ lines' = lines /\ Faults \cap {"io", "encode"} # {}
        /\ stuck' \subseteq stuck \cup {i} /\ (i \in stuck' => "io" \in Faults)
    BY <1>0, <1>2 DEF FileTake, Takes, Ledger
  <2>1. /\ Tail(ch[i]) \in Seq(Writers) /\ Head(ch[i]) \in Writers
        /\ Len(ch[i]) \in Nat /\ Len(Tail(ch[i])) = Len(ch[i]) - 1
    BY <1>1, <2>0, RecsTail
  <2>2. /\ ch' \in [1..N -> Seq(Writers)] /\ Len(ch'[i]) <= Capacity
        /\ ch'[i] = Tail(ch[i])
    BY <1>0, <1>1, <2>0, <2>1
  <2>3. lines' \in [1..N -> Seq(Writers)] /\ dropped' \in [1..N -> SUBSET Writers]
    <3>1. Append(lines[i], Head(ch[i])) \in Seq(Writers)
      BY <1>1, <2>1
    <3>2. dropped[i] \cup {Head(ch[i])} \in SUBSET Writers
      BY <1>1, <2>1
    <3> QED
      BY <1>1, <2>0, <3>1, <3>2
  <2>4. i \notin ended /\ Uploaded(i)' = Uploaded(i)
    BY <1>0, <2>0 DEF Ledger, Uploaded
  <2>5. Balance(accepted[i], ch[i], buf[i], lines[i], Uploaded(i), GivenUp(i))'
    <3>0. Balance(accepted[i], ch[i], buf[i], lines[i], Uploaded(i), GivenUp(i))
      BY <1>0 DEF Ledger
    <3>1. CASE lines' = [lines EXCEPT ![i] = Append(@, Head(ch[i]))] /\ dropped' = dropped
      <4>1. Balance(accepted[i], Tail(ch[i]), buf[i], Append(lines[i], Head(ch[i])),
                    Uploaded(i), GivenUp(i))
        BY <1>1, <2>0, <3>0, Written
      <4>2. lines'[i] = Append(lines[i], Head(ch[i]))
        BY <1>1, <3>1
      <4>3. GivenUp(i)' = GivenUp(i)
        BY <2>0, <3>1 DEF GivenUp
      <4> QED
        BY <2>0, <2>2, <2>4, <4>1, <4>2, <4>3, NewBalance
    <3>2. CASE dropped' = [dropped EXCEPT ![i] = @ \cup {Head(ch[i])}] /\ lines' = lines
      <4>1. Balance(accepted[i], Tail(ch[i]), buf[i], lines[i], Uploaded(i),
                    GivenUp(i) \cup {Head(ch[i])})
        BY <1>1, <2>0, <3>0, NotWritten
      <4>2. dropped'[i] = dropped[i] \cup {Head(ch[i])}
        BY <1>1, <3>2
      <4>3. GivenUp(i)' = GivenUp(i) \cup {Head(ch[i])}
        BY <2>0, <4>2 DEF GivenUp
      <4> QED
        BY <2>0, <2>2, <2>4, <3>2, <4>1, <4>3, NewBalance
    <3> QED
      BY <2>0, <3>1, <3>2
  <2>6. Ledger(i)'
    <3>1. dropped'[i] # {} => Faults \cap {"io", "encode"} # {}
      BY <1>0, <2>0 DEF Ledger
    <3> QED
      BY <1>0, <2>0, <2>4, <2>5, <3>1 DEF Ledger, Passed
  <2>7. \A j \in 1..N \ {i} :
          ch'[j] = ch[j] /\ lines'[j] = lines[j] /\ dropped'[j] = dropped[j]
    BY <1>1, <2>0
  <2>8. Window(i)'
    BY <1>0, <2>0, <2>2, WindowStays
  <2> QED
    BY <1>1, <2>0, <2>2, <2>3, <2>4, <2>6, <2>7, <2>8, SinkMoves
<1>3. CASE FileEnd(i)
  <2>0. /\ ch[i] = <<>> /\ i \in chClosed /\ ended' = ended \cup {i} /\ Sinks[i] = "file"
        /\ UNCHANGED <<wr, shut, closed, chClosed, ch, cl, expired, lines, buf, firstAt,
                       objects, stuck, failed, dropped, takenAt, uploaded, now, accepted>>
    BY <1>3 DEF FileEnd, ioVars
  <2>4. Uploaded(i)' = Uploaded(i) /\ GivenUp(i)' = GivenUp(i)
    BY <2>0 DEF Uploaded, GivenUp
  <2>1. Balance(accepted[i], ch[i], buf[i], lines[i], Uploaded(i), GivenUp(i))'
    BY <1>0, <2>0, <2>4, NewBalance DEF Ledger
  <2>2. buf[i] = {}
    BY <1>0, <2>0 DEF Ledger
  <2>3. Ledger(i)' /\ Window(i)'
    BY <1>0, <2>0, <2>1, <2>2, WindowStays DEF Ledger, Passed
  <2> QED
    BY <1>1, <2>0, <2>3, SinkMoves
<1> QED
  BY <1>2, <1>3

\* What a flush of S, which began at t, does to the books of sink i.
Filed(i, S, t) ==
  /\ objects' \in [1..N -> [0..MaxTime -> SUBSET Writers]]
  /\ uploaded' \in [1..N -> SUBSET [at : 0..MaxTime, recs : SUBSET Writers]]
  /\ failed' \in [1..N -> SUBSET Writers]
  /\ buf' \in [1..N -> SUBSET Writers] /\ buf'[i] = {}
  /\ firstAt' \in [1..N -> Times] /\ firstAt'[i] = NoTime
  /\ \A j \in 1..N \ {i} : /\ objects'[j] = objects[j] /\ buf'[j] = buf[j]
                           /\ uploaded'[j] = uploaded[j] /\ failed'[j] = failed[j]
                           /\ firstAt'[j] = firstAt[j]
  /\ \/ Uploaded(i)' = Uploaded(i) \cup S /\ GivenUp(i)' = GivenUp(i)
     \/ Uploaded(i)' = Uploaded(i) /\ GivenUp(i)' = GivenUp(i) \cup S
  /\ \A b, c \in uploaded'[i] : b = c \/ b.recs \cap c.recs = {}
  /\ \/ uploaded'[i] = uploaded[i] /\ objects'[i] = objects[i]
     \/ /\ uploaded'[i] = uploaded[i] \cup {[at |-> t, recs |-> S]}
        /\ objects'[i] = [objects[i] EXCEPT ![t] = S]

\* A flush adds its records to what was uploaded or given up, as one batch
\* that shares no record with the others.
LEMMA FlushBooks ==
  ASSUME AuditTypes, NEW i \in 1..N, NEW S \in SUBSET Writers, NEW t \in 0..MaxTime,
         Flush(i, S, t), S \cap Uploaded(i) = {}, dropped' = dropped,
         \A b, c \in uploaded[i] : b = c \/ b.recs \cap c.recs = {}
  PROVE  Filed(i, S, t)
<1>0. /\ objects \in [1..N -> [0..MaxTime -> SUBSET Writers]]
      /\ uploaded \in [1..N -> SUBSET [at : 0..MaxTime, recs : SUBSET Writers]]
      /\ failed \in [1..N -> SUBSET Writers] /\ buf \in [1..N -> SUBSET Writers]
      /\ firstAt \in [1..N -> Times]
  BY AuditFacts
<1>a. /\ buf' \in [1..N -> SUBSET Writers] /\ buf'[i] = {}
      /\ firstAt' \in [1..N -> Times] /\ firstAt'[i] = NoTime
      /\ \A j \in 1..N \ {i} : buf'[j] = buf[j] /\ firstAt'[j] = firstAt[j]
  BY <1>0 DEF Flush, Times
<1>1. CASE /\ objects' = [objects EXCEPT ![i][t] = S]
           /\ uploaded' = [uploaded EXCEPT ![i] = @ \cup {[at |-> t, recs |-> S]}]
           /\ UNCHANGED failed
  <2> DEFINE batch == [at |-> t, recs |-> S]
  <2>1. batch.at = t /\ batch.recs = S /\ batch \in [at : 0..MaxTime, recs : SUBSET Writers]
    OBVIOUS
  <2> HIDE DEF batch
  <2>2. uploaded' = [uploaded EXCEPT ![i] = @ \cup {batch}]
    BY <1>1 DEF batch
  <2>3. uploaded'[i] = uploaded[i] \cup {batch}
    BY <1>0, <2>2
  <2>4. objects'[i] = [objects[i] EXCEPT ![t] = S]
    BY <1>0, <1>1
  <2>5. objects' \in [1..N -> [0..MaxTime -> SUBSET Writers]]
    BY <1>0, <1>1
  <2>6. uploaded' \in [1..N -> SUBSET [at : 0..MaxTime, recs : SUBSET Writers]]
    BY <1>0, <2>1, <2>2
  <2>7. Uploaded(i)' = Uploaded(i) \cup S /\ GivenUp(i)' = GivenUp(i)
    BY <1>1, <2>1, <2>3 DEF Uploaded, GivenUp
  <2>8. \A b \in uploaded[i] : b.recs \cap S = {}
    BY DEF Uploaded
  <2>9. \A b, c \in uploaded'[i] : b = c \/ b.recs \cap c.recs = {}
    BY <2>1, <2>3, <2>8
  <2>10. uploaded'[i] = uploaded[i] \cup {[at |-> t, recs |-> S]}
    BY <2>3 DEF batch
  <2>11. \A j \in 1..N \ {i} : objects'[j] = objects[j] /\ uploaded'[j] = uploaded[j]
    BY <1>0, <1>1, <2>2
  <2> QED
    BY <1>0, <1>1, <1>a, <2>4, <2>5, <2>6, <2>7, <2>9, <2>10, <2>11 DEF Filed
<1>2. CASE /\ UNCHANGED <<objects, uploaded>>
           /\ failed' = [failed EXCEPT ![i] = @ \cup S]
  <2>1. /\ failed' \in [1..N -> SUBSET Writers] /\ failed'[i] = failed[i] \cup S
        /\ \A j \in 1..N \ {i} : failed'[j] = failed[j]
    BY <1>0, <1>2
  <2>2. Uploaded(i)' = Uploaded(i) /\ GivenUp(i)' = GivenUp(i) \cup S
    BY <1>2, <2>1 DEF Uploaded, GivenUp
  <2> QED
    BY <1>0, <1>2, <1>a, <2>1, <2>2 DEF Filed
<1> QED
  BY <1>1, <1>2 DEF Flush

\* A flush of columns that balance leaves columns that balance.
LEMMA FlushBalance ==
  ASSUME AuditTypes, NEW i \in 1..N, NEW acc, NEW c \in Seq(Writers), NEW S,
         NEW l \in Seq(Writers),
         Balance(acc, c, S, l, Uploaded(i), GivenUp(i)),
         \/ Uploaded(i)' = Uploaded(i) \cup S /\ GivenUp(i)' = GivenUp(i)
         \/ Uploaded(i)' = Uploaded(i) /\ GivenUp(i)' = GivenUp(i) \cup S,
         accepted'[i] = acc, ch'[i] = c, buf'[i] = {}, lines'[i] = l
  PROVE  Balance(accepted[i], ch[i], buf[i], lines[i], Uploaded(i), GivenUp(i))'
<1>1. /\ Balance(acc, c, {}, l, Uploaded(i) \cup S, GivenUp(i))
      /\ Balance(acc, c, {}, l, Uploaded(i), GivenUp(i) \cup S)
  BY Flushed
<1> QED
  BY <1>1, NewBalance

\* An upload of an open batch: what shares its key was taken at the very second
\* in which the batch began, and so was a record that is in none of them.
LEMMA UploadKept ==
  ASSUME NEW T \in [Writers -> Times], NEW U, NEW S \in SUBSET Writers,
         NEW t \in 0..MaxTime, NEW n \in 0..MaxTime,
         NEW up \in SUBSET [at : 0..MaxTime, recs : SUBSET Writers],
         NEW ob \in [0..MaxTime -> SUBSET Writers],
         \A b \in up : b.recs \subseteq U, Kept(T, up, ob), Ready(T, U, S, t, n)
  PROVE  Kept(T, up \cup {[at |-> t, recs |-> S]}, [ob EXCEPT ![t] = S])
<1> DEFINE batch == [at |-> t, recs |-> S]
           ob2 == [ob EXCEPT ![t] = S]
<1>1. batch.at = t /\ batch.recs = S
  OBVIOUS
<1>2. ob2[t] = S /\ \A u \in 0..MaxTime : u # t => ob2[u] = ob[u]
  OBVIOUS
<1> HIDE DEF batch, ob2
<1>3. ASSUME NEW b \in up \cup {batch}, NEW x \in b.recs
      PROVE  /\ b.at <= T[x]
             /\ x \in ob2[b.at] \/ \E q \in Writers \ b.recs : T[q] = T[x]
  <2>1. CASE b = batch
    BY <1>1, <1>2, <1>3, <2>1 DEF Ready
  <2>2. CASE b # batch
    <3>1. b \in up /\ b.at \in 0..MaxTime /\ b.recs \subseteq Writers /\ x \in U
      BY <1>3, <2>2
    <3>2. /\ b.at <= T[x]
          /\ x \in ob[b.at] \/ \E q \in Writers \ b.recs : T[q] = T[x]
      BY <3>1 DEF Kept
    <3>3. CASE b.at # t
      BY <1>2, <3>1, <3>2, <3>3
    <3>4. CASE b.at = t
      <4>1. PICK q \in Writers \ U : T[q] = t
        BY DEF Ready
      <4>2. T[x] = t
        <5>1. T[x] <= t /\ T[x] \in Times /\ MaxTime \in Nat
          BY <3>1, NumbersAssumption DEF Ready
        <5> QED
          BY <3>2, <3>4, <5>1 DEF Times, NoTime
      <4>3. q \notin b.recs
        BY <3>1, <4>1
      <4> QED
        BY <3>2, <4>1, <4>2, <4>3
    <3> QED
      BY <3>3, <3>4
  <2> QED
    BY <2>1, <2>2
<1>4. Kept(T, up \cup {batch}, ob2)
  BY <1>3 DEF Kept
<1> QED
  BY <1>4 DEF batch, ob2

\* The record at the head of an S3 sink's channel is taken: the batch it falls
\* into, with it or without it, is open.
LEMMA TakeReady ==
  ASSUME AuditTypes, NEW i \in 1..N, Ledger(i), Window(i), ch[i] # <<>>,
         NEW r, r = Head(ch[i]),
         takenAt' = [takenAt EXCEPT ![i][r] = now]
  PROVE  LET t == IF firstAt[i] = NoTime THEN now ELSE firstAt[i]
         IN  /\ takenAt' \in [1..N -> [Writers -> Times]]
             /\ \A j \in 1..N \ {i} : takenAt'[j] = takenAt[j]
             /\ \A w \in Writers : takenAt'[i][w] <= now
             /\ \A w \in Recs(Tail(ch[i])) \cup (Writers \ accepted[i]) :
                  takenAt'[i][w] = NoTime
             /\ Ready(takenAt'[i], Uploaded(i), buf[i] \cup {r}, t, now)
             /\ Kept(takenAt'[i], uploaded[i], objects[i])
<1> DEFINE t == IF firstAt[i] = NoTime THEN now ELSE firstAt[i]
           T == takenAt[i]
           U == takenAt'[i]
<1>0. /\ ch \in [1..N -> Seq(Writers)] /\ buf \in [1..N -> SUBSET Writers]
      /\ takenAt \in [1..N -> [Writers -> Times]] /\ now \in 0..MaxTime
      /\ firstAt \in [1..N -> Times] /\ MaxTime \in Nat
      /\ uploaded \in [1..N -> SUBSET [at : 0..MaxTime, recs : SUBSET Writers]]
  BY AuditFacts, NumbersAssumption
<1>1. /\ Recs(ch[i]) = Recs(Tail(ch[i])) \cup {r} /\ r \in Writers
  BY <1>0, RecsTail
<1>2. r \notin Recs(Tail(ch[i])) /\ r \in accepted[i] /\ r \notin Uploaded(i)
      /\ r \notin buf[i]
  BY <1>0, <1>1, DistinctTail DEF Ledger, Balance
<1>3. takenAt' \in [1..N -> [Writers -> Times]]
  BY <1>0, <1>1 DEF Times
<1>4. /\ \A j \in 1..N \ {i} : takenAt'[j] = takenAt[j]
      /\ U[r] = now /\ \A w \in Writers : w # r => U[w] = T[w]
  BY <1>0, <1>1
<1>5. T[r] = NoTime /\ T \in [Writers -> Times] /\ \A w \in Writers : T[w] <= now
  BY <1>0, <1>1 DEF Window
<1> HIDE DEF T, U
<1>6. \A w \in Writers : U[w] <= now
  BY <1>0, <1>4, <1>5
<1>7. \A w \in Recs(Tail(ch[i])) \cup (Writers \ accepted[i]) : U[w] = NoTime
  <2>1. \A w \in Recs(Tail(ch[i])) \cup (Writers \ accepted[i]) :
          w # r /\ w \in Writers /\ T[w] = NoTime
    <3>1. Recs(ch[i]) \subseteq Writers
      BY <1>0 DEF Recs
    <3> QED
      BY <1>1, <1>2, <3>1 DEF Window, T
  <2> QED
    BY <1>4, <2>1
<1>8. Uploaded(i) \subseteq Writers /\ \A b \in uploaded[i] : b.recs \subseteq Uploaded(i)
  BY <1>0 DEF Uploaded
<1>9. Ready(U, Uploaded(i), buf[i] \cup {r}, t, now)
  <2>1. CASE firstAt[i] = NoTime
    <3>1. t = now /\ buf[i] = {}
      BY <2>1 DEF Window
    <3> QED
      BY <1>0, <1>1, <1>2, <1>4, <1>6, <1>8, <3>1 DEF Ready
  <2>2. CASE firstAt[i] # NoTime
    <3>1. t = firstAt[i] /\ Ready(T, Uploaded(i), buf[i], t, now)
      BY <2>2 DEF Window, T
    <3>2. t \in 0..MaxTime /\ t # NoTime
      BY <2>2, <3>1 DEF Ready
    <3> HIDE DEF t
    <3>3. PICK q \in Writers \ Uploaded(i) : T[q] = t
      BY <3>1 DEF Ready
    <3>4. q # r
      BY <1>5, <3>2, <3>3
    <3>5. \A w \in buf[i] \cup {r} : t <= U[w]
      BY <1>0, <1>2, <1>4, <3>1 DEF Ready
    <3>6. \A x \in Uploaded(i) : U[x] <= t
      BY <1>2, <1>4, <1>8, <3>1 DEF Ready
    <3> QED
      BY <1>4, <3>1, <3>3, <3>4, <3>5, <3>6 DEF Ready
  <2> QED
    BY <2>1, <2>2
<1>10. Kept(U, uploaded[i], objects[i])
  <2>1. ASSUME NEW b \in uploaded[i], NEW x \in b.recs
        PROVE  /\ b.at <= U[x]
               /\ x \in objects[i][b.at] \/ \E q \in Writers \ b.recs : U[q] = U[x]
    <3>1. x \in Writers /\ x # r /\ b.at \in 0..MaxTime
      BY <1>0, <1>2, <1>8, <2>1
    <3>2. /\ b.at <= T[x]
          /\ x \in objects[i][b.at] \/ \E q \in Writers \ b.recs : T[q] = T[x]
      BY <2>1 DEF Window, Kept, T
    <3>3. U[x] = T[x] /\ T[x] # NoTime
      BY <1>4, <1>5, <3>1, <3>2 DEF NoTime
    <3> QED
      BY <1>4, <1>5, <3>2, <3>3
  <2> QED
    BY <2>1 DEF Kept
<1> QED
  BY <1>3, <1>4, <1>6, <1>7, <1>9, <1>10 DEF U

\* After a flush no batch is open, and the bucket keeps what it must.
LEMMA FlushWindow ==
  ASSUME AuditTypes, NEW i \in 1..N, NEW S \in SUBSET Writers, NEW t \in 0..MaxTime,
         NEW T, T \in [Writers -> Times], takenAt'[i] = T, now' = now,
         \A w \in Writers : T[w] <= now,
         \A w \in Recs(ch'[i]) \cup (Writers \ accepted'[i]) : T[w] = NoTime,
         Ready(T, Uploaded(i), S, t, now), Kept(T, uploaded[i], objects[i]),
         buf'[i] = {}, firstAt'[i] = NoTime,
         \/ uploaded'[i] = uploaded[i] /\ objects'[i] = objects[i]
         \/ /\ uploaded'[i] = uploaded[i] \cup {[at |-> t, recs |-> S]}
            /\ objects'[i] = [objects[i] EXCEPT ![t] = S]
  PROVE  Window(i)'
<1>0. /\ objects[i] \in [0..MaxTime -> SUBSET Writers] /\ now \in 0..MaxTime
      /\ uploaded[i] \in SUBSET [at : 0..MaxTime, recs : SUBSET Writers]
  BY AuditFacts
<1>1. \A b \in uploaded[i] : b.recs \subseteq Uploaded(i)
  BY DEF Uploaded
<1>2. Kept(T, uploaded[i] \cup {[at |-> t, recs |-> S]}, [objects[i] EXCEPT ![t] = S])
  BY <1>0, <1>1, UploadKept
<1>3. Kept(takenAt'[i], uploaded'[i], objects'[i])
  BY <1>2
<1>4. (\A w \in Recs(ch[i]) \cup (Writers \ accepted[i]) : takenAt[i][w] = NoTime)'
  BY DEF Recs
<1>5. Kept(takenAt[i], uploaded[i], objects[i])'
  BY <1>3 DEF Kept
<1> QED
  BY <1>4, <1>5 DEF Window

\* The S3 sink's goroutine.
LEMMA S3Keeps ==
  ASSUME AuditInv, NEW i \in 1..N, S3Take(i) \/ S3Tick(i) \/ S3End(i)
  PROVE  AuditInv'
<1>0. /\ AuditTypes /\ Ledger(i) /\ Window(i) /\ Capacity \in Nat
  BY NumbersAssumption DEF AuditInv
<1>1. /\ ch \in [1..N -> Seq(Writers)] /\ (\A j \in 1..N : Len(ch[j]) <= Capacity)
      /\ lines \in [1..N -> Seq(Writers)] /\ buf \in [1..N -> SUBSET Writers]
      /\ firstAt \in [1..N -> Times]
      /\ objects \in [1..N -> [0..MaxTime -> SUBSET Writers]]
      /\ failed \in [1..N -> SUBSET Writers] /\ dropped \in [1..N -> SUBSET Writers]
      /\ takenAt \in [1..N -> [Writers -> Times]]
      /\ uploaded \in [1..N -> SUBSET [at : 0..MaxTime, recs : SUBSET Writers]]
      /\ ended \subseteq chClosed /\ now \in 0..MaxTime
  BY <1>0, AuditFacts
<1>2. /\ Balance(accepted[i], ch[i], buf[i], lines[i], Uploaded(i), GivenUp(i))
      /\ \A b, c \in uploaded[i] : b = c \/ b.recs \cap c.recs = {}
  BY <1>0 DEF Ledger
<1>3. CASE S3Take(i)
  <2> DEFINE r == Head(ch[i])
             S == buf[i] \cup {r}
             t == IF firstAt[i] = NoTime THEN now ELSE firstAt[i]
  <2>0. /\ ch[i] # <<>> /\ ch' = [ch EXCEPT ![i] = Tail(@)] /\ Sinks[i] = "s3"
        /\ takenAt' = [takenAt EXCEPT ![i][r] = now]
        /\ UNCHANGED <<wr, shut, closed, chClosed, ended, cl, expired, lines, stuck,
                       dropped, now, accepted>>
    BY <1>3 DEF S3Take, Takes
  <2>1. /\ Tail(ch[i]) \in Seq(Writers) /\ r \in Writers
        /\ Len(ch[i]) \in Nat /\ Len(Tail(ch[i])) = Len(ch[i]) - 1
    BY <1>1, <2>0, RecsTail
  <2>2. /\ ch' \in [1..N -> Seq(Writers)] /\ Len(ch'[i]) <= Capacity
        /\ ch'[i] = Tail(ch[i]) /\ \A j \in 1..N \ {i} : ch'[j] = ch[j]
    BY <1>0, <1>1, <2>0, <2>1
  <2>3. S \in SUBSET Writers /\ i \notin ended
    BY <1>0, <1>1, <2>0, <2>1 DEF Ledger
  <2>4. /\ Balance(accepted[i], Tail(ch[i]), S, lines[i], Uploaded(i), GivenUp(i))
        /\ Balance(accepted[i], Tail(ch[i]), buf[i], lines[i], Uploaded(i),
                   GivenUp(i) \cup {r})
    BY <1>1, <1>2, <2>0, Buffered, NotWritten
  <2>5. \/ /\ buf' = [buf EXCEPT ![i] = S] /\ firstAt' = [firstAt EXCEPT ![i] = t]
           /\ UNCHANGED <<objects, uploaded, failed>>
        \/ Flush(i, S, t)
        \/ /\ firstAt' = [firstAt EXCEPT ![i] = t]
           /\ failed' = [failed EXCEPT ![i] = @ \cup {r}]
           /\ UNCHANGED <<buf, objects, uploaded>>
    BY <1>3 DEF S3Take
  <2>6. /\ takenAt' \in [1..N -> [Writers -> Times]]
        /\ \A j \in 1..N \ {i} : takenAt'[j] = takenAt[j]
        /\ \A w \in Writers : takenAt'[i][w] <= now
        /\ \A w \in Recs(Tail(ch[i])) \cup (Writers \ accepted[i]) :
             takenAt'[i][w] = NoTime
        /\ Ready(takenAt'[i], Uploaded(i), S, t, now)
        /\ Kept(takenAt'[i], uploaded[i], objects[i])
    <3>1. PICK x : x = Head(ch[i])
      OBVIOUS
    <3>2. takenAt' = [takenAt EXCEPT ![i][x] = now]
      BY <2>0, <3>1
    <3> QED
      BY <1>0, <2>0, <3>1, <3>2, TakeReady
  <2>7. t \in 0..MaxTime /\ t \in Times /\ t # NoTime
    BY <2>6, NumbersAssumption DEF Ready, Times, NoTime
  <2> HIDE DEF S, t, r
  <2>8. CASE /\ buf' = [buf EXCEPT ![i] = S] /\ firstAt' = [firstAt EXCEPT ![i] = t]
             /\ UNCHANGED <<objects, uploaded, failed>>
    <3>1. /\ buf' \in [1..N -> SUBSET Writers] /\ firstAt' \in [1..N -> Times]
          /\ buf'[i] = S /\ firstAt'[i] = t
          /\ \A j \in 1..N \ {i} : buf'[j] = buf[j] /\ firstAt'[j] = firstAt[j]
      BY <1>1, <2>3, <2>7, <2>8
    <3>2. Uploaded(i)' = Uploaded(i) /\ GivenUp(i)' = GivenUp(i)
      BY <2>0, <2>8 DEF Uploaded, GivenUp
    <3>3. Balance(accepted[i], ch[i], buf[i], lines[i], Uploaded(i), GivenUp(i))'
      BY <2>0, <2>2, <2>4, <3>1, <3>2, NewBalance
    <3>4. Ledger(i)'
      BY <1>0, <2>0, <2>3, <2>8, <3>3 DEF Ledger, Passed
    <3>5. Window(i)'
      <4>1. (\A w \in Recs(ch[i]) \cup (Writers \ accepted[i]) : takenAt[i][w] = NoTime)'
        BY <2>0, <2>2, <2>6 DEF Recs
      <4>2. Ready(takenAt[i], Uploaded(i), buf[i], firstAt[i], now)'
        BY <2>0, <2>6, <3>1, <3>2 DEF Ready
      <4>3. Kept(takenAt[i], uploaded[i], objects[i])'
        BY <2>6, <2>8 DEF Kept
      <4> QED
        BY <2>0, <2>6, <2>7, <3>1, <4>1, <4>2, <4>3 DEF Window
    <3> QED
      BY <1>1, <2>0, <2>2, <2>3, <2>6, <2>8, <3>1, <3>4, <3>5, SinkMoves
  <2>9. CASE Flush(i, S, t)
    <3>0. S \cap Uploaded(i) = {}
      BY <2>4 DEF Balance
    <3>1. /\ objects' \in [1..N -> [0..MaxTime -> SUBSET Writers]]
          /\ uploaded' \in [1..N -> SUBSET [at : 0..MaxTime, recs : SUBSET Writers]]
          /\ failed' \in [1..N -> SUBSET Writers]
          /\ buf' \in [1..N -> SUBSET Writers] /\ buf'[i] = {}
          /\ firstAt' \in [1..N -> Times] /\ firstAt'[i] = NoTime
          /\ \A j \in 1..N \ {i} : /\ objects'[j] = objects[j] /\ buf'[j] = buf[j]
                                   /\ uploaded'[j] = uploaded[j] /\ failed'[j] = failed[j]
                                   /\ firstAt'[j] = firstAt[j]
          /\ \/ Uploaded(i)' = Uploaded(i) \cup S /\ GivenUp(i)' = GivenUp(i)
             \/ Uploaded(i)' = Uploaded(i) /\ GivenUp(i)' = GivenUp(i) \cup S
          /\ \A b, c \in uploaded'[i] : b = c \/ b.recs \cap c.recs = {}
          /\ \/ uploaded'[i] = uploaded[i] /\ objects'[i] = objects[i]
             \/ /\ uploaded'[i] = uploaded[i] \cup {[at |-> t, recs |-> S]}
                /\ objects'[i] = [objects[i] EXCEPT ![t] = S]
      <4>1. /\ AuditTypes /\ dropped' = dropped
            /\ \A b, c \in uploaded[i] : b = c \/ b.recs \cap c.recs = {}
        BY <1>0, <1>2, <2>0
      <4>2. Filed(i, S, t)
        BY <2>3, <2>7, <2>9, <3>0, <4>1, FlushBooks
      <4> QED
        BY <4>2 DEF Filed
    <3>3. Balance(accepted[i], ch[i], buf[i], lines[i], Uploaded(i), GivenUp(i))'
      BY <1>0, <1>1, <2>0, <2>1, <2>2, <2>4, <3>1, FlushBalance
    <3>4. Ledger(i)'
      BY <1>0, <2>0, <2>3, <3>1, <3>3 DEF Ledger, Passed
    <3>5. Window(i)'
      <4>1. \A w \in Recs(ch'[i]) \cup (Writers \ accepted'[i]) : takenAt'[i][w] = NoTime
        BY <2>0, <2>2, <2>6
      <4>2. takenAt'[i] \in [Writers -> Times]
        BY <2>6
      <4> QED
        BY <1>0, <2>0, <2>3, <2>6, <2>7, <3>1, <4>1, <4>2, FlushWindow
    <3> QED
      BY <1>1, <2>0, <2>2, <2>3, <2>6, <3>1, <3>4, <3>5, SinkMoves
  <2>10. CASE /\ firstAt' = [firstAt EXCEPT ![i] = t]
              /\ failed' = [failed EXCEPT ![i] = @ \cup {r}]
              /\ UNCHANGED <<buf, objects, uploaded>>
    <3>1. /\ failed' \in [1..N -> SUBSET Writers] /\ firstAt' \in [1..N -> Times]
          /\ failed'[i] = failed[i] \cup {r} /\ firstAt'[i] = t
          /\ \A j \in 1..N \ {i} : failed'[j] = failed[j] /\ firstAt'[j] = firstAt[j]
      BY <1>1, <2>1, <2>7, <2>10
    <3>2. Uploaded(i)' = Uploaded(i) /\ GivenUp(i)' = GivenUp(i) \cup {r}
      BY <2>0, <2>10, <3>1 DEF Uploaded, GivenUp
    <3>3. Balance(accepted[i], ch[i], buf[i], lines[i], Uploaded(i), GivenUp(i))'
      BY <2>0, <2>2, <2>4, <2>10, <3>2, NewBalance
    <3>4. Ledger(i)'
      BY <1>0, <2>0, <2>3, <2>10, <3>3 DEF Ledger, Passed
    <3>5. Window(i)'
      <4>1. (\A w \in Recs(ch[i]) \cup (Writers \ accepted[i]) : takenAt[i][w] = NoTime)'
        BY <2>0, <2>2, <2>6 DEF Recs
      <4>2. Ready(takenAt[i], Uploaded(i), buf[i], firstAt[i], now)'
        BY <2>0, <2>6, <2>10, <3>1, <3>2 DEF Ready, S
      <4>3. Kept(takenAt[i], uploaded[i], objects[i])'
        BY <2>6, <2>10 DEF Kept
      <4> QED
        BY <2>0, <2>6, <2>7, <3>1, <4>1, <4>2, <4>3 DEF Window
    <3> QED
      BY <1>1, <2>0, <2>2, <2>3, <2>6, <2>10, <3>1, <3>4, <3>5, SinkMoves
  <2> QED
    BY <2>5, <2>8, <2>9, <2>10
<1>4. CASE S3Tick(i) \/ S3End(i)
  <2>0. /\ Sinks[i] = "s3"
        /\ \/ ended' = ended /\ i \notin ended
           \/ ended' = ended \cup {i} /\ i \in chClosed /\ ch[i] = <<>>
        /\ UNCHANGED <<wr, shut, closed, chClosed, ch, cl, expired, lines, stuck, dropped,
                       now, accepted, takenAt>>
        /\ \/ buf[i] # {} /\ Flush(i, buf[i], firstAt[i])
           \/ buf[i] = {} /\ UNCHANGED <<buf, firstAt, objects, uploaded, failed>>
    BY <1>4 DEF S3Tick, S3End
  <2>1. /\ ended \subseteq ended' /\ ended' \subseteq ended \cup {i}
        /\ i \in ended' => i \in chClosed
    BY <1>1, <2>0
  <2>2. CASE buf[i] # {} /\ Flush(i, buf[i], firstAt[i])
    <3>0. /\ buf[i] \cap Uploaded(i) = {} /\ buf[i] \in SUBSET Writers
          /\ Ready(takenAt[i], Uploaded(i), buf[i], firstAt[i], now)
      BY <1>0, <1>1, <1>2, <2>2 DEF Balance, Window
    <3>a. firstAt[i] \in 0..MaxTime
      BY <3>0 DEF Ready
    <3>1. /\ objects' \in [1..N -> [0..MaxTime -> SUBSET Writers]]
          /\ uploaded' \in [1..N -> SUBSET [at : 0..MaxTime, recs : SUBSET Writers]]
          /\ failed' \in [1..N -> SUBSET Writers]
          /\ buf' \in [1..N -> SUBSET Writers] /\ buf'[i] = {}
          /\ firstAt' \in [1..N -> Times] /\ firstAt'[i] = NoTime
          /\ \A j \in 1..N \ {i} : /\ objects'[j] = objects[j] /\ buf'[j] = buf[j]
                                   /\ uploaded'[j] = uploaded[j] /\ failed'[j] = failed[j]
                                   /\ firstAt'[j] = firstAt[j]
          /\ \/ Uploaded(i)' = Uploaded(i) \cup buf[i] /\ GivenUp(i)' = GivenUp(i)
             \/ Uploaded(i)' = Uploaded(i) /\ GivenUp(i)' = GivenUp(i) \cup buf[i]
          /\ \A b, c \in uploaded'[i] : b = c \/ b.recs \cap c.recs = {}
          /\ \/ uploaded'[i] = uploaded[i] /\ objects'[i] = objects[i]
             \/ /\ uploaded'[i] = uploaded[i] \cup {[at |-> firstAt[i], recs |-> buf[i]]}
                /\ objects'[i] = [objects[i] EXCEPT ![firstAt[i]] = buf[i]]
      <4>1. /\ AuditTypes /\ dropped' = dropped
            /\ \A b, c \in uploaded[i] : b = c \/ b.recs \cap c.recs = {}
        BY <1>0, <1>2, <2>0
      <4>2. Filed(i, buf[i], firstAt[i])
        BY <2>2, <3>0, <3>a, <4>1, FlushBooks
      <4> QED
        BY <4>2 DEF Filed
    <3>2. Balance(accepted[i], ch[i], buf[i], lines[i], Uploaded(i), GivenUp(i))'
      BY <1>0, <1>1, <1>2, <2>0, <3>1, FlushBalance
    <3>3. Ledger(i)'
      BY <1>0, <2>0, <3>1, <3>2 DEF Ledger, Passed
    <3>4. Window(i)'
      <4>1. /\ \A w \in Writers : takenAt[i][w] <= now
            /\ \A w \in Recs(ch'[i]) \cup (Writers \ accepted'[i]) : takenAt[i][w] = NoTime
            /\ Kept(takenAt[i], uploaded[i], objects[i])
            /\ takenAt[i] \in [Writers -> Times] /\ takenAt'[i] = takenAt[i]
        BY <1>0, <1>1, <2>0 DEF Window
      <4> QED
        BY <1>0, <2>0, <3>0, <3>a, <3>1, <4>1, FlushWindow
    <3> QED
      BY <1>1, <2>0, <2>1, <3>1, <3>3, <3>4, SinkMoves
  <2>3. CASE buf[i] = {} /\ UNCHANGED <<buf, firstAt, objects, uploaded, failed>>
    <3>1. Uploaded(i)' = Uploaded(i) /\ GivenUp(i)' = GivenUp(i)
      BY <2>0, <2>3 DEF Uploaded, GivenUp
    <3>2. Balance(accepted[i], ch[i], buf[i], lines[i], Uploaded(i), GivenUp(i))'
      BY <1>2, <2>0, <2>3, <3>1, NewBalance
    <3>3. Ledger(i)'
      BY <1>0, <2>0, <2>3, <3>2 DEF Ledger, Passed
    <3>4. Window(i)'
      BY <1>0, <2>0, <2>3, WindowStays
    <3> QED
      BY <1>1, <2>0, <2>1, <2>3, <3>3, <3>4, SinkMoves
  <2> QED
    BY <2>0, <2>2, <2>3
<1> QED
  BY <1>3, <1>4

-----------------------------------------------------------------------------
(* The theorems.                                                           *)

\* Every step of the audit log keeps the invariant.
LEMMA AuditStep == AuditInv /\ [Next]_vars => AuditInv'
<1> SUFFICES ASSUME AuditInv, [Next]_vars PROVE AuditInv'
  OBVIOUS
<1>1. ASSUME NEW w \in Writers, WriterStep(w) PROVE AuditInv'
  BY <1>1, MovesOnly, SendKeeps DEF WriterStep
<1>2. CASE CloseWriter \/ CloseStep \/ Expire \/ Tick
  BY <1>2, CloseKeeps
<1>3. ASSUME NEW i \in 1..N, Drain(i) \/ S3Tick(i) PROVE AuditInv'
  BY <1>3, FileKeeps, S3Keeps DEF Drain
<1>4. CASE UNCHANGED vars
  <2>0. AuditTypes /\ ClosedInTime /\ \A i \in 1..N : Ledger(i) /\ Window(i)
    BY DEF AuditInv
  <2>1. ASSUME NEW i \in 1..N PROVE Ledger(i)' /\ Window(i)'
    <3>1. now \in 0..MaxTime /\ MaxTime \in Nat
      BY <2>0, AuditFacts, NumbersAssumption
    <3> QED
      BY <1>4, <2>0, <3>1, SinkStays DEF vars
  <2>2. AuditTypes' /\ ClosedInTime'
    BY <1>4, <2>0 DEF vars, AuditTypes, TypeOK, Shaped, CloseAt, ClosedInTime, Placed
  <2> QED
    BY <2>1, <2>2 DEF AuditInv
<1> QED
  BY <1>1, <1>2, <1>3, <1>4 DEF Next

\* The books of every sink balance for ever.
THEOREM AuditInvariant == Spec => []AuditInv
BY AuditInit, AuditStep, PTL DEF Spec

\* Every variable of the audit log keeps its type; among others no channel
\* ever holds more than its capacity.
THEOREM AuditTypeCorrect == Spec => []TypeOK
<1>1. AuditInv => TypeOK
  BY DEF AuditInv, AuditTypes
<1> QED
  BY <1>1, AuditInvariant, PTL

\* In balanced books a record is accounted for exactly once.
LEMMA LedgersAccount == AuditInv => AcceptedAccounted
<1> SUFFICES ASSUME AuditInv, NEW i \in 1..N
             PROVE  /\ Cardinality(accepted[i]) =
                         Len(ch[i]) + Cardinality(buf[i]) + Len(lines[i])
                         + Cardinality(Uploaded(i)) + Cardinality(GivenUp(i))
                    /\ accepted[i] = Recs(ch[i]) \cup buf[i] \cup Recs(lines[i])
                                     \cup Uploaded(i) \cup GivenUp(i)
                    /\ \A b, c \in uploaded[i] : b = c \/ b.recs \cap c.recs = {}
                    /\ failed[i] # {} => Sinks[i] = "s3"
                    /\ dropped[i] # {} => /\ Sinks[i] = "file"
                                          /\ Faults \cap {"io", "encode"} # {}
  BY DEF AcceptedAccounted
<1> QED
  BY DEF AuditInv, Ledger, Balance

\* A record a sink accepted is never in two places and never in none on its way
\* from the channel through the buffer to the file or the bucket.  What an S3
\* sink gives up is in the log; a file sink gives up in silence, when the disk
\* or the encoder fails.
THEOREM AcceptedAccountedHolds == Spec => []AcceptedAccounted
BY LedgersAccount, AuditInvariant, PTL

\* A Close that returned in time has passed ended sinks only, which hold
\* nothing.
LEMMA LedgersDrained == AuditInv => CloseDrains
<1> SUFFICES ASSUME AuditInv, cl.at = "closed", ~expired, NEW i \in 1..N
             PROVE  accepted[i] \subseteq Recs(lines[i]) \cup Uploaded(i) \cup GivenUp(i)
  BY DEF CloseDrains
<1>1. i \in ended /\ Ledger(i)
  BY DEF AuditInv, ClosedInTime
<1>2. ch[i] = <<>> /\ buf[i] = {}
  BY <1>1 DEF Ledger
<1>3. Recs(ch[i]) = {}
  BY <1>2 DEF Recs
<1> QED
  BY <1>1, <1>2, <1>3 DEF Ledger, Balance

\* When Close returns in time, every accepted record, even of a Write that
\* overlapped with it, has been written or uploaded, or met an error there.
THEOREM CloseDrainsHolds == Spec => []CloseDrains
BY LedgersDrained, AuditInvariant, PTL

\* An uploaded record is lost again only to another record that its sink took
\* in the same second, since a batch that shares a key with an older one began
\* when the last of its records had been taken.
THEOREM UploadsApartHolds == Spec => []UploadsApart
<1>1. AuditInv => UploadsApart
  BY DEF AuditInv, Window, Kept, UploadsApart
<1> QED
  BY <1>1, AuditInvariant, PTL
=============================================================================
