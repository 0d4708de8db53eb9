----------------------------- MODULE StoreProofs -----------------------------
(***************************************************************************)
(* Proofs about the three store adapters (internal/store), for every set   *)
(* of clients and keys and every adapter.                                  *)
(*                                                                         *)
(* That a safely put entry survives is not inductive: a delete that was    *)
(* decided on an older, expired entry would take it away.  What is         *)
(* inductive is that no delete of such a key is pending (SafeInv): a       *)
(* delete is only ever decided on an expired entry, which a safe key does  *)
(* not hold.                                                               *)
(***************************************************************************)
EXTENDS Store, TLAPS

\* The inductive invariant: a safe key holds a live entry, and no delete
\* decided earlier is still on its way to it.
Guarded == \A k \in safe : Live(entries[k], now) /\ ~Pending(k)

SafeInv == TypeOK /\ Guarded

-----------------------------------------------------------------------------
(* What the operations on entries preserve.                                *)

\* Postgres rounds a TTL down to its resolution; what is stored is a TTL.
LEMMA StoredTTLType ==
  ASSUME NEW ttl \in TTLs
  PROVE  StoredTTL(ttl) \in Nat
<1>1. ttl \in Nat /\ MsUnits \in Nat /\ MsUnits > 0
  BY NumbersAssumption
<1>2. ttl \div MsUnits \in Nat
  BY <1>1
<1>3. (ttl \div MsUnits) * MsUnits \in Nat
  BY <1>1, <1>2
<1> QED
  BY <1>1, <1>3 DEF StoredTTL

\* The entry Put writes is an entry, and it is live at the time it is put
\* (Entry.Expired compares with a strict inequality).
LEMMA PutEntry ==
  ASSUME NEW c \in Clients, NEW n \in Nat, NEW ttl \in Nat
  PROVE  LET e == [by |-> c, body |-> TRUE, created |-> n, ttl |-> ttl,
                   emb |-> FALSE, replays |-> 0]
         IN  e \in EntriesOf(Clients) /\ Live(e, n)
<1> DEFINE e == [by |-> c, body |-> TRUE, created |-> n, ttl |-> ttl,
                 emb |-> FALSE, replays |-> 0]
<1>1. e \in EntriesOf(Clients)
  BY DEF EntriesOf
<1>2. e # NoEntry
  BY <1>1, NoEntryAssumption
<1>3. ~Expired(e, n)
  BY DEF Expired
<1> QED
  BY <1>1, <1>2, <1>3 DEF Live

\* Counting a replay changes neither the type nor the life of an entry.
LEMMA CountedEntry ==
  ASSUME NEW e \in EntriesOf(Clients), NEW n \in Nat
  PROVE  LET f == [e EXCEPT !.replays = @ + 1]
         IN  /\ f \in EntriesOf(Clients)
             /\ Live(e, n) => Live(f, n)
<1> DEFINE f == [e EXCEPT !.replays = @ + 1]
<1>1. /\ f \in EntriesOf(Clients)
      /\ f.ttl = e.ttl /\ f.created = e.created
  BY DEF EntriesOf
<1>2. f # NoEntry
  BY <1>1, NoEntryAssumption
<1> QED
  BY <1>1, <1>2 DEF Live, Expired

-----------------------------------------------------------------------------
(* Type correctness.                                                       *)

\* Every operation, compaction, tick and restart keeps the types.
LEMMA TypeStep == TypeOK /\ [Next]_vars => TypeOK'
<1> SUFFICES ASSUME TypeOK, [Next]_vars PROVE TypeOK'
  OBVIOUS
<1> USE DEF TypeOK
<1>1. ASSUME NEW c \in Clients, NEW k \in Keys, NEW ttl \in TTLs, Put(c, k, ttl)
      PROVE  TypeOK'
  <2> DEFINE e == [by |-> c, body |-> TRUE, created |-> now,
                   ttl |-> StoredTTL(ttl), emb |-> FALSE, replays |-> 0]
  <2>1. e \in EntriesOf(Clients)
    BY StoredTTLType, PutEntry
  <2>2. entries' = [entries EXCEPT ![k] = e]
    BY <1>1 DEF Put, Stored
  <2>3. entries' \in [Keys -> EntriesOf(Clients) \cup {NoEntry}]
    BY <2>1, <2>2
  <2> QED
    BY <1>1, <2>3 DEF Put
<1>2. ASSUME NEW c \in Clients, NEW k \in Keys, GetExpired(c, k)
      PROVE  TypeOK'
  BY <1>2 DEF GetExpired
<1>3. ASSUME NEW c \in Clients, LazyDelete(c) PROVE TypeOK'
  BY <1>3 DEF LazyDelete, Removed
<1>4. ASSUME NEW k \in Keys, OrphanDelete(k) PROVE TypeOK'
  BY <1>4 DEF OrphanDelete, Removed
<1>5. ASSUME NEW k \in Keys, IncrementReplay(k) PROVE TypeOK'
  <2>1. entries[k] \in EntriesOf(Clients)
    BY <1>5 DEF IncrementReplay
  <2>2. entries' = [entries EXCEPT ![k] = [entries[k] EXCEPT !.replays = @ + 1]]
    BY <1>5, <2>1 DEF IncrementReplay, Counted
  <2>3. [entries[k] EXCEPT !.replays = @ + 1] \in EntriesOf(Clients)
    BY <2>1, CountedEntry
  <2>4. entries' \in [Keys -> EntriesOf(Clients) \cup {NoEntry}]
    BY <2>2, <2>3
  <2> QED
    BY <1>5, <2>4 DEF IncrementReplay
<1>6. ASSUME NEW k \in Keys, Delete(k) PROVE TypeOK'
  BY <1>6 DEF Delete, Removed
<1>7. CASE CompactRead
  BY <1>7 DEF CompactRead, ExpiredKeys
<1>8. CASE CompactWrite
  BY <1>8 DEF CompactWrite
<1>9. CASE CompactStatement
  BY <1>9 DEF CompactStatement
<1>10. CASE Tick
  BY <1>10 DEF Tick
<1>11. CASE Restart
  BY <1>11 DEF Restart
<1>12. CASE UNCHANGED vars
  BY <1>12 DEF vars
<1> QED
  BY <1>1, <1>2, <1>3, <1>4, <1>5, <1>6, <1>7, <1>8, <1>9, <1>10, <1>11,
     <1>12 DEF Next

-----------------------------------------------------------------------------
(* Safe keys.                                                              *)

\* A key whose entry has expired is not safe, so a Get or a Compact that
\* decides on a delete decides on it for a key that is not.
LEMMA ExpiredUnsafe ==
  ASSUME SafeInv, NEW k \in Keys, Expired(entries[k], now)
  PROVE  k \notin safe
BY DEF SafeInv, Guarded, Live

\* A delete that was decided hits a key that is not safe by then either.
LEMMA PendingUnsafe ==
  ASSUME SafeInv, NEW k \in Keys, Pending(k)
  PROVE  k \notin safe
BY DEF SafeInv, Guarded

\* Every step of clients, administrator and compactors keeps safe keys
\* guarded.
LEMMA GuardedStep == SafeInv /\ [Next]_vars => Guarded'
<1> SUFFICES ASSUME SafeInv, [Next]_vars PROVE Guarded'
  OBVIOUS
<1>t. TypeOK /\ TypeOK'
  BY TypeStep DEF SafeInv
<1>g. \A k \in safe : Live(entries[k], now) /\ ~Pending(k)
  BY DEF SafeInv, Guarded
<1>1. ASSUME NEW c \in Clients, NEW k \in Keys, NEW ttl \in TTLs, Put(c, k, ttl)
      PROVE  Guarded'
  <2> DEFINE e == [by |-> c, body |-> TRUE, created |-> now,
                   ttl |-> StoredTTL(ttl), emb |-> FALSE, replays |-> 0]
  <2>1. Live(e, now)
    BY <1>t, StoredTTLType, PutEntry DEF TypeOK
  <2>2. entries' = [entries EXCEPT ![k] = e]
    BY <1>1 DEF Put, Stored
  <2>3. ASSUME NEW j \in safe' PROVE Live(entries'[j], now') /\ ~Pending(j)'
    <3>1. CASE j = k
      <4>1. ~Pending(k)
        BY <1>1, <2>3, <3>1, <1>t DEF Put, TypeOK
      <4>2. ~Pending(k)'
        BY <4>1, <1>1 DEF Put, Pending
      <4> QED
        BY <2>1, <2>2, <3>1, <4>2, <1>1, <1>t DEF Put, TypeOK
    <3>2. CASE j # k
      <4>1. j \in safe /\ j \in Keys
        BY <1>1, <2>3, <3>2, <1>t DEF Put, TypeOK
      <4>2. entries'[j] = entries[j]
        BY <2>2, <3>2, <4>1, <1>t DEF TypeOK
      <4> QED
        BY <1>1, <1>g, <4>1, <4>2 DEF Put, Pending
    <3> QED
      BY <3>1, <3>2
  <2> QED
    BY <2>3 DEF Guarded
<1>2. ASSUME NEW c \in Clients, NEW k \in Keys, GetExpired(c, k)
      PROVE  Guarded'
  <2>1. k \notin safe
    BY <1>2, ExpiredUnsafe DEF GetExpired
  <2>2. ASSUME NEW j \in safe PROVE ~Pending(j)'
    <3>1. ~Pending(j) /\ j # k /\ j \in Keys
      BY <1>g, <2>1, <1>t DEF TypeOK
    <3> QED
      BY <3>1, <1>2, <1>t DEF GetExpired, Pending, TypeOK
  <2> QED
    BY <1>2, <1>g, <2>2 DEF GetExpired, Guarded
<1>3. ASSUME NEW c \in Clients, LazyDelete(c) PROVE Guarded'
  <2>1. PICK k \in deleting[c] :
          /\ entries' = Removed(entries, k)
          /\ deleting' = [deleting EXCEPT ![c] = {}]
          /\ UNCHANGED <<adapter, orphans, sweep, now, safe>>
    BY <1>3 DEF LazyDelete
  <2>2. k \in Keys /\ k \notin safe
    BY <1>t, PendingUnsafe DEF TypeOK, Pending
  <2>3. ASSUME NEW j \in safe PROVE Live(entries'[j], now') /\ ~Pending(j)'
    <3>1. j # k /\ j \in Keys /\ Live(entries[j], now) /\ ~Pending(j)
      BY <2>2, <1>g, <1>t DEF TypeOK
    <3>2. entries'[j] = entries[j]
      BY <2>1, <2>2, <3>1, <1>t DEF Removed, TypeOK
    <3>3. ~Pending(j)'
      BY <2>1, <3>1, <1>t DEF Pending, TypeOK
    <3> QED
      BY <2>1, <3>1, <3>2, <3>3
  <2> QED
    BY <2>1, <2>3 DEF Guarded
<1>4. ASSUME NEW k \in Keys, OrphanDelete(k) PROVE Guarded'
  <2>1. k \notin safe
    BY <1>4, PendingUnsafe DEF OrphanDelete, Pending
  <2>2. ASSUME NEW j \in safe PROVE Live(entries'[j], now') /\ ~Pending(j)'
    <3>1. j # k /\ j \in Keys /\ Live(entries[j], now) /\ ~Pending(j)
      BY <2>1, <1>g, <1>t DEF TypeOK
    <3>2. entries'[j] = entries[j]
      BY <1>4, <3>1, <1>t DEF OrphanDelete, Removed, TypeOK
    <3>3. ~Pending(j)'
      BY <1>4, <3>1, <1>t DEF OrphanDelete, Pending, TypeOK
    <3> QED
      BY <1>4, <3>1, <3>2, <3>3 DEF OrphanDelete
  <2> QED
    BY <1>4, <2>2 DEF OrphanDelete, Guarded
<1>5. ASSUME NEW k \in Keys, IncrementReplay(k) PROVE Guarded'
  <2>1. entries[k] \in EntriesOf(Clients)
    BY <1>5, <1>t DEF IncrementReplay, TypeOK
  <2>2. entries' = [entries EXCEPT ![k] = [entries[k] EXCEPT !.replays = @ + 1]]
    BY <1>5, <1>t DEF IncrementReplay, Counted, TypeOK
  <2>3. Live(entries[k], now) => Live(entries'[k], now)
    BY <2>1, <2>2, <1>t, CountedEntry DEF TypeOK
  <2>4. \A j \in safe : Live(entries'[j], now)
    BY <2>2, <2>3, <1>g, <1>t DEF TypeOK
  <2> QED
    BY <1>5, <1>g, <2>4 DEF IncrementReplay, Guarded, Pending
<1>6. ASSUME NEW k \in Keys, Delete(k) PROVE Guarded'
  <2>1. \A j \in safe' : j \in safe /\ entries'[j] = entries[j]
    BY <1>6, <1>t DEF Delete, Removed, TypeOK
  <2> QED
    BY <1>6, <1>g, <2>1 DEF Delete, Guarded, Pending
<1>7. CASE CompactRead
  <2>1. ASSUME NEW j \in safe PROVE j \notin sweep'
    BY <1>7, <1>t, ExpiredUnsafe DEF CompactRead, ExpiredKeys, TypeOK
  <2> QED
    BY <1>7, <1>g, <2>1 DEF CompactRead, Guarded, Pending
<1>8. CASE CompactWrite
  <2>1. \A j \in safe : entries'[j] = entries[j]
    BY <1>8, <1>g, <1>t DEF CompactWrite, Pending, TypeOK
  <2> QED
    BY <1>8, <1>g, <2>1 DEF CompactWrite, Guarded, Pending
<1>9. CASE CompactStatement
  <2>1. \A j \in safe : entries'[j] = entries[j]
    BY <1>9, <1>t, ExpiredUnsafe DEF CompactStatement, ExpiredKeys, TypeOK
  <2> QED
    BY <1>9, <1>g, <2>1 DEF CompactStatement, Guarded, Pending
<1>10. CASE Tick
  BY <1>10, <1>g DEF Tick, Guarded, Pending
<1>11. CASE Restart
  <2>1. \A j \in Keys : ~Pending(j)'
    BY <1>11 DEF Restart, Pending
  <2> QED
    BY <1>11, <1>g, <2>1, <1>t DEF Restart, Guarded, TypeOK
<1>12. CASE UNCHANGED vars
  BY <1>12, <1>g DEF vars, Guarded, Pending
<1> QED
  BY <1>1, <1>2, <1>3, <1>4, <1>5, <1>6, <1>7, <1>8, <1>9, <1>10, <1>11,
     <1>12 DEF Next

-----------------------------------------------------------------------------
(* The theorems.                                                           *)

\* SafeInv holds in every reachable state of every adapter.
THEOREM SafeInvariant == Spec => []SafeInv
<1>1. Init => SafeInv
  BY DEF Init, SafeInv, TypeOK, Guarded
<1>2. SafeInv /\ [Next]_vars => SafeInv'
  BY TypeStep, GuardedStep DEF SafeInv
<1> QED
  BY <1>1, <1>2, PTL DEF Spec

\* The map, bucket or table, the pending deletes, the compactor's sweep and
\* the clock keep their types under every interleaving of clients,
\* administrator, compactor and restarts.
THEOREM StoreTypeCorrect == Spec => []TypeOK
<1>1. SafeInv => TypeOK
  BY DEF SafeInv
<1> QED
  BY <1>1, SafeInvariant, PTL

\* An entry put while no delete of its key was under way is served until it
\* expires, is deleted by the administrator or goes with the process: the
\* lazy deletes of Get and Bolt's two-transaction Compact cannot reach it.
THEOREM SafePutSurvivesHolds == Spec => []SafePutSurvives
<1>1. SafeInv => SafePutSurvives
  BY DEF SafeInv, Guarded, SafePutSurvives
<1> QED
  BY <1>1, SafeInvariant, PTL

\* A step that takes the entry of a safe key away is the administrator's
\* Delete or the end of a process that kept it in memory: what a doc comment
\* promises of all live entries (OnlyExpiredRemoved) does hold of safe ones.
SafeRemovals ==
  [][\A k \in safe :
       entries'[k] = NoEntry => Delete(k) \/ (Restart /\ adapter = "memory")]_vars

\* No lazy delete, background delete or compaction removes a safe key's entry.
THEOREM SafeRemovalsHold == Spec => SafeRemovals
<1>1. SafeInv /\ [Next]_vars =>
        [\A k \in safe : entries'[k] = NoEntry
           => Delete(k) \/ (Restart /\ adapter = "memory")]_vars
  <2> SUFFICES ASSUME SafeInv, [Next]_vars, NEW k \in safe,
                      entries'[k] = NoEntry, ~(UNCHANGED vars)
               PROVE  Delete(k) \/ (Restart /\ adapter = "memory")
    OBVIOUS
  <2>1. k \in Keys /\ Live(entries[k], now)
    BY DEF SafeInv, TypeOK, Guarded
  <2>2. SafeInv'
    BY TypeStep, GuardedStep DEF SafeInv
  <2>3. k \notin safe'
    BY <2>2 DEF SafeInv, Guarded, Live
  <2>4. CASE \E c \in Clients, j \in Keys, ttl \in TTLs : Put(c, j, ttl)
    <3>1. PICK c \in Clients, j \in Keys, ttl \in TTLs : Put(c, j, ttl)
      BY <2>4
    <3>2. j = k /\ Pending(k)
      BY <3>1, <2>3 DEF Put
    <3> QED
      BY <3>2, <2>1, PendingUnsafe
  <2>5. CASE \E j \in Keys : Delete(j)
    BY <2>5, <2>3 DEF Delete
  <2>6. CASE Tick
    BY <2>6, <2>1 DEF Tick, Live
  <2>7. CASE Restart
    BY <2>7, <2>3 DEF Restart
  <2> QED
    BY <2>3, <2>4, <2>5, <2>6, <2>7 DEF Next, GetExpired, LazyDelete,
       OrphanDelete, IncrementReplay, CompactRead, CompactWrite, CompactStatement
<1> QED
  BY <1>1, SafeInvariant, PTL DEF Spec, SafeRemovals
==============================================================================
