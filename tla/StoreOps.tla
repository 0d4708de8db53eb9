------------------------------ MODULE StoreOps ------------------------------
(***************************************************************************)
(* What every adapter of the fingerprint store does to one cached entry    *)
(* (internal/store).  A store is a function from keys <<tool, hash>> to    *)
(* entries; NoEntry stands for an absent key, the code's ErrNotFound.      *)
(* Response bytes are abstracted to whether any are stored (body); a TTL   *)
(* and a clock reading are natural numbers of one unit.                    *)
(***************************************************************************)
EXTENDS Integers

CONSTANT NoEntry

\* store.Entry with the provenance (by) that the properties follow.
EntriesOf(writers) ==
  [by : writers, body : BOOLEAN, created : Nat, ttl : Nat,
   emb : BOOLEAN, replays : Nat]

\* Entry.Expired: a zero TTL never expires.
Expired(e, now) == e.ttl # 0 /\ now - e.created > e.ttl

\* What Get reports as present and Scan visits.
Live(e, now) == e # NoEntry /\ ~Expired(e, now)

\* Memory.Put, Bolt.Put, Postgres.Put: an upsert of the whole entry.
Stored(entries, k, e) == [entries EXCEPT ![k] = e]

\* A blind delete by key: the lazy delete of Get, the admin's Delete.
Removed(entries, k) == [entries EXCEPT ![k] = NoEntry]

\* IncrementReplay: nothing to count when the key is gone (ErrNotFound).
Counted(entries, k) ==
  IF entries[k] = NoEntry
    THEN entries
    ELSE [entries EXCEPT ![k].replays = @ + 1]
=============================================================================
