----------------------------- MODULE Coalescing -----------------------------
(***************************************************************************)
(* What coalescing promises, whoever implements it: for each key at most   *)
(* one execution at a time, and a call that finds one under way waits for  *)
(* that very execution and takes its answer, or none.  Pipeline (Apply)    *)
(* and Stdio (the two pumps) are shown to implement it.                    *)
(***************************************************************************)
CONSTANTS Calls, Keys, NoCall, NoKey

VARIABLES
  running,  \* the calls that are executing
  key,      \* the key under which each call executes or waits, NoKey before
  waits,    \* the execution each waiting call waits for
  took      \* the execution whose answer a call was given

coalescingVars == <<running, key, waits, took>>

CoalescingInit ==
  /\ running = {}
  /\ key = [c \in Calls |-> NoKey]
  /\ waits = [c \in Calls |-> NoCall]
  /\ took = [c \in Calls |-> NoCall]

\* A call sets out when nobody executes its key.
Start(c, k) ==
  /\ key[c] = NoKey /\ \A d \in running : key[d] # k
  /\ running' = running \cup {c}
  /\ key' = [key EXCEPT ![c] = k]
  /\ UNCHANGED <<waits, took>>

\* A call attaches itself to an execution under way.
Join(c, l) ==
  /\ key[c] = NoKey /\ l \in running
  /\ key' = [key EXCEPT ![c] = key[l]]
  /\ waits' = [waits EXCEPT ![c] = l]
  /\ UNCHANGED <<running, took>>

\* An execution has an answer, or a failure, to give.
End(c) ==
  /\ c \in running
  /\ running' = running \ {c}
  /\ UNCHANGED <<key, waits, took>>

\* Calls that waited for l are given its answer.
Take(l, S) ==
  /\ l \notin running /\ S # {} /\ \A c \in S : waits[c] = l
  /\ took' = [c \in Calls |-> IF c \in S THEN l ELSE took[c]]
  /\ waits' = [c \in Calls |-> IF c \in S THEN NoCall ELSE waits[c]]
  /\ UNCHANGED <<running, key>>

\* A waiting call goes away without an answer.
Leave(c) ==
  /\ waits[c] # NoCall
  /\ waits' = [waits EXCEPT ![c] = NoCall]
  /\ UNCHANGED <<running, key, took>>

\* Executions are given up, and with them everyone who waited for them.
Abandon(S) ==
  /\ S # {} /\ S \subseteq running
  /\ running' = running \ S
  /\ waits' = [c \in Calls |-> IF waits[c] \in S THEN NoCall ELSE waits[c]]
  /\ UNCHANGED <<key, took>>

\* The process ends, and nobody in it gets anything any more.
Die ==
  /\ running' = {}
  /\ waits' = [c \in Calls |-> NoCall]
  /\ UNCHANGED <<key, took>>

CoalescingNext ==
  \/ \E c \in Calls, k \in Keys : Start(c, k)
  \/ \E c, l \in Calls : Join(c, l)
  \/ \E c \in Calls : End(c) \/ Leave(c)
  \/ \E l \in Calls, S \in SUBSET Calls : Take(l, S)
  \/ \E S \in SUBSET Calls : Abandon(S)
  \/ Die

CoalescingSpec == CoalescingInit /\ [][CoalescingNext]_coalescingVars

-----------------------------------------------------------------------------
(* What follows from it for every implementation.                          *)

\* Two executions under way never have the same key.
OnePerKey == \A c, d \in running : key[c] = key[d] => c = d

\* Whoever was given an answer never executed at the time, and the answer is
\* another call's with the same key.
SharedWithinKey ==
  \A c \in Calls :
    took[c] # NoCall =>
      /\ took[c] \in Calls \ {c} /\ key[took[c]] = key[c]
      /\ c \notin running
=============================================================================
