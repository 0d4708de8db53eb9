-------------------------------- MODULE Store --------------------------------
(***************************************************************************)
(* The three adapters of the fingerprint store (internal/store): Memory,   *)
(* Bolt and Postgres, each used by concurrent clients, an administrator    *)
(* and, on disk, a periodic compactor.                                     *)
(*                                                                         *)
(* The map's mutex, a bbolt transaction and an SQL statement are atomic.   *)
(* What is not is everything that reads an entry in one of them and        *)
(* deletes its key in the next: Get on an expired entry, and Bolt.Compact. *)
(* Operations that leave no trace (Get of a live or an absent key, Scan)   *)
(* are not actions.                                                        *)
(***************************************************************************)
EXTENDS StoreOps, FiniteSets

CONSTANTS
  Clients,
  Keys,
  TTLs,        \* the TTLs policies ask for, in clock units
  Adapters,    \* the stores the operator may choose
  MsUnits,     \* clock units per millisecond, Postgres's resolution of a TTL
  MaxTime,     \* bound on the clock
  MaxReplays   \* bound on an entry's replay counter

ASSUME AdapterAssumption == Adapters \subseteq {"memory", "bolt", "postgres"}

ASSUME NumbersAssumption ==
  /\ TTLs \subseteq Nat
  /\ MsUnits \in Nat \ {0}
  /\ MaxTime \in Nat
  /\ MaxReplays \in Nat

ASSUME NoEntryAssumption == NoEntry \notin EntriesOf(Clients)

VARIABLES
  adapter,   \* the store this process was started with
  entries,   \* the map, the bucket or the table
  deleting,  \* the key each client's Get is about to delete, {} if none
  orphans,   \* the background DELETEs Postgres.Get has started, by key
  sweep,     \* the keys Bolt.Compact has collected and not yet deleted
  now,
  safe       \* history: keys whose live entry was Put with no delete pending

vars == <<adapter, entries, deleting, orphans, sweep, now, safe>>

\* Deletes of k that were decided on an entry that may be gone by now.
Pending(k) ==
  \/ \E c \in Clients : k \in deleting[c]
  \/ orphans[k] > 0
  \/ k \in sweep

Init ==
  /\ adapter \in Adapters
  /\ entries = [k \in Keys |-> NoEntry]
  /\ deleting = [c \in Clients |-> {}]
  /\ orphans = [k \in Keys |-> 0]
  /\ sweep = {}
  /\ now = 0
  /\ safe = {}

-----------------------------------------------------------------------------
(* The operations of store.Store.                                          *)

\* Postgres keeps a TTL in whole milliseconds; the others keep it as it is.
StoredTTL(ttl) ==
  IF adapter = "postgres" THEN (ttl \div MsUnits) * MsUnits ELSE ttl

Put(c, k, ttl) ==
  /\ deleting[c] = {}
  /\ entries' = Stored(entries, k,
       [by |-> c, body |-> TRUE, created |-> now, ttl |-> StoredTTL(ttl),
        emb |-> FALSE, replays |-> 0])
  /\ safe' = IF Pending(k) THEN safe \ {k} ELSE safe \cup {k}
  /\ UNCHANGED <<adapter, deleting, orphans, sweep, now>>

\* Get reads an expired entry: Memory and Bolt go on to delete the key
\* themselves, Postgres leaves that to a goroutine.
GetExpired(c, k) ==
  /\ deleting[c] = {} /\ entries[k] # NoEntry
  /\ Expired(entries[k], now)
  /\ \/ /\ adapter # "postgres"
        /\ deleting' = [deleting EXCEPT ![c] = {k}] /\ UNCHANGED orphans
     \/ /\ adapter = "postgres" /\ orphans[k] < Cardinality(Clients)
        /\ orphans' = [orphans EXCEPT ![k] = @ + 1] /\ UNCHANGED deleting
  /\ UNCHANGED <<adapter, entries, sweep, now, safe>>

\* The lazy delete, whatever the key holds by then.
LazyDelete(c) ==
  \E k \in deleting[c] :
    /\ entries' = Removed(entries, k)
    /\ deleting' = [deleting EXCEPT ![c] = {}]
    /\ UNCHANGED <<adapter, orphans, sweep, now, safe>>

\* The goroutine's DELETE, or its two-second timeout.
OrphanDelete(k) ==
  /\ orphans[k] > 0
  /\ orphans' = [orphans EXCEPT ![k] = @ - 1]
  /\ entries' \in {Removed(entries, k), entries}
  /\ UNCHANGED <<adapter, deleting, sweep, now, safe>>

\* A mutant of IncrementReplay: the missing-key check is gone, and counting an
\* absent key stores the zero Entry, which nobody wrote.
IncrementReplayAbsent(k) ==
  /\ entries' = [entries EXCEPT ![k] =
       IF @ = NoEntry
         THEN [by |-> NoEntry, body |-> FALSE, created |-> 0, ttl |-> 0,
               emb |-> FALSE, replays |-> 1]
         ELSE [@ EXCEPT !.replays = (@ + 1) % (MaxReplays + 1)]]
  /\ UNCHANGED <<adapter, deleting, orphans, sweep, now, safe>>

\* ErrNotFound where there is nothing to count.
IncrementReplay(k) ==
  /\ entries[k] # NoEntry /\ entries[k].replays < MaxReplays
  /\ entries' = Counted(entries, k)
  /\ UNCHANGED <<adapter, deleting, orphans, sweep, now, safe>>

\* The administrator's Delete; an absent key is ErrNotFound.
Delete(k) ==
  /\ entries[k] # NoEntry
  /\ entries' = Removed(entries, k)
  /\ safe' = safe \ {k}
  /\ UNCHANGED <<adapter, deleting, orphans, sweep, now>>

-----------------------------------------------------------------------------
(* The compactors, run by RunCompactor's ticker.                           *)

ExpiredKeys == {k \in Keys : entries[k] # NoEntry /\ Expired(entries[k], now)}

\* Bolt.Compact's read-only transaction.
CompactRead ==
  /\ adapter = "bolt" /\ sweep = {} /\ ExpiredKeys # {}
  /\ sweep' = ExpiredKeys
  /\ UNCHANGED <<adapter, entries, deleting, orphans, now, safe>>

\* A mutant of CompactWrite: the write transaction is never committed.
CompactWriteUncommitted ==
  /\ sweep # {} /\ sweep' = {}
  /\ UNCHANGED <<adapter, entries, deleting, orphans, now, safe>>

\* Bolt.Compact's write transaction deletes the collected keys unseen.
CompactWrite ==
  /\ sweep # {}
  /\ entries' = [k \in Keys |-> IF k \in sweep THEN NoEntry ELSE entries[k]]
  /\ sweep' = {}
  /\ UNCHANGED <<adapter, deleting, orphans, now, safe>>

\* A mutant of CompactStatement: <= where the row's end is compared.
CompactInclusive ==
  /\ adapter = "postgres"
  /\ entries' = [k \in Keys |->
       IF /\ entries[k] # NoEntry /\ entries[k].ttl > 0
          /\ entries[k].created + entries[k].ttl <= now
         THEN NoEntry ELSE entries[k]]
  /\ UNCHANGED <<adapter, deleting, orphans, sweep, now, safe>>

\* Postgres.Compact: one statement that tests and deletes.
CompactStatement ==
  /\ adapter = "postgres" /\ ExpiredKeys # {}
  /\ entries' = [k \in Keys |-> IF k \in ExpiredKeys THEN NoEntry ELSE entries[k]]
  /\ UNCHANGED <<adapter, deleting, orphans, sweep, now, safe>>

-----------------------------------------------------------------------------
Tick ==
  /\ now < MaxTime
  /\ now' = now + 1
  /\ safe' = {k \in safe : Live(entries[k], now')}
  /\ UNCHANGED <<adapter, entries, deleting, orphans, sweep>>

\* The process ends.  Memory forgets; the file and the table stay.
Restart ==
  /\ deleting' = [c \in Clients |-> {}]
  /\ orphans' = [k \in Keys |-> 0]
  /\ sweep' = {}
  /\ IF adapter = "memory"
       THEN entries' = [k \in Keys |-> NoEntry] /\ safe' = {}
       ELSE UNCHANGED <<entries, safe>>
  /\ UNCHANGED <<adapter, now>>

Next ==
  \/ \E c \in Clients, k \in Keys, ttl \in TTLs : Put(c, k, ttl)
  \/ \E c \in Clients, k \in Keys : GetExpired(c, k)
  \/ \E c \in Clients : LazyDelete(c)
  \/ \E k \in Keys : OrphanDelete(k) \/ IncrementReplay(k) \/ Delete(k)
  \/ CompactRead \/ CompactWrite \/ CompactStatement
  \/ Tick \/ Restart

Spec == Init /\ [][Next]_vars

\* RunCompactor's ticker keeps firing, and the process does not always die
\* between Bolt's two transactions.
FairSpec == Spec /\ WF_vars(CompactRead) /\ SF_vars(CompactWrite)
                 /\ WF_vars(CompactStatement)

-----------------------------------------------------------------------------
\* Every variable of the store keeps its type; in particular, an entry is one
\* that some client put.
TypeOK ==
  /\ adapter \in Adapters
  /\ entries \in [Keys -> EntriesOf(Clients) \cup {NoEntry}]
  /\ deleting \in [Clients -> SUBSET Keys]
  /\ orphans \in [Keys -> Nat]
  /\ sweep \subseteq Keys
  /\ now \in Nat
  /\ safe \subseteq Keys

\* An entry that was Put while no earlier delete of its key was under way
\* stays until it expires, is deleted by the administrator or goes with the
\* process's memory: lazy deletes and compaction only ever hit such keys late.
SafePutSurvives == \A k \in safe : Live(entries[k], now)

\* Once the compactor runs, an entry whose TTL has lapsed does not stay for
\* ever (bolt.go: without Compact "the file grows without bound").
ExpiredReclaimed ==
  adapter # "memory" =>
    \A k \in Keys : [](k \in ExpiredKeys => <>(k \notin ExpiredKeys))

\* Compact "deletes those whose TTL has lapsed" and Get's lazy delete removes
\* "expired entries": no step but the administrator's Delete, an upsert or
\* the end of the process takes away a live entry.
OnlyExpiredRemoved ==
  [][\A k \in Keys :
       Live(entries[k], now) /\ entries'[k] = NoEntry => Delete(k) \/ Restart]_vars
==============================================================================
