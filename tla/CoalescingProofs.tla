-------------------------- MODULE CoalescingProofs --------------------------
(***************************************************************************)
(* What the abstract specification of coalescing promises, and with it     *)
(* every implementation: Pipeline and Stdio are shown to be ones in        *)
(* PipelineProofs and StdioProofs.                                         *)
(***************************************************************************)
EXTENDS Coalescing, TLAPS

\* A call that waits, waits for another one with its key.  A call that was
\* given an answer has its key already, which is never changed: that is why
\* a key, once shared, stays shared.
CoalescingInv ==
  /\ running \subseteq Calls
  /\ key \in [Calls -> Keys \cup {NoKey}]
  /\ waits \in [Calls -> Calls \cup {NoCall}]
  /\ took \in [Calls -> Calls \cup {NoCall}]
  /\ \A c \in running : key[c] # NoKey /\ waits[c] = NoCall
  /\ \A c \in Calls :
       waits[c] # NoCall => waits[c] # c /\ key[c] # NoKey /\ key[waits[c]] = key[c]
  /\ \A c \in Calls : took[c] # NoCall => key[c] # NoKey
  /\ OnePerKey
  /\ SharedWithinKey

\* Every step keeps the invariant.
LEMMA CoalescingKept ==
  ASSUME NoCall \notin Calls, NoKey \notin Keys,
         CoalescingInv, [CoalescingNext]_coalescingVars
  PROVE  CoalescingInv'
<1> USE DEF CoalescingInv, OnePerKey, SharedWithinKey
<1>1. ASSUME NEW c \in Calls, NEW k \in Keys, Start(c, k) PROVE CoalescingInv'
  BY <1>1 DEF Start
<1>2. ASSUME NEW c \in Calls, NEW l \in Calls, Join(c, l) PROVE CoalescingInv'
  BY <1>2 DEF Join
<1>3. ASSUME NEW c \in Calls, End(c) PROVE CoalescingInv'
  BY <1>3 DEF End
<1>4. ASSUME NEW c \in Calls, Leave(c) PROVE CoalescingInv'
  BY <1>4 DEF Leave
<1>5. ASSUME NEW l \in Calls, NEW S \in SUBSET Calls, Take(l, S) PROVE CoalescingInv'
  BY <1>5 DEF Take
<1>6. ASSUME NEW S \in SUBSET Calls, Abandon(S) PROVE CoalescingInv'
  BY <1>6 DEF Abandon
<1>7. CASE Die
  BY <1>7 DEF Die
<1>8. CASE UNCHANGED coalescingVars
  BY <1>8 DEF coalescingVars
<1> QED
  BY <1>1, <1>2, <1>3, <1>4, <1>5, <1>6, <1>7, <1>8 DEF CoalescingNext

\* The invariant holds in every state of every implementation.
THEOREM CoalescingInvariant ==
  ASSUME NoCall \notin Calls, NoKey \notin Keys
  PROVE  CoalescingSpec => []CoalescingInv
<1>1. CoalescingInit => CoalescingInv
  BY DEF CoalescingInit, CoalescingInv, OnePerKey, SharedWithinKey
<1>2. CoalescingInv /\ [CoalescingNext]_coalescingVars => CoalescingInv'
  BY CoalescingKept
<1> QED
  BY <1>1, <1>2, PTL DEF CoalescingSpec

\* Two executions under way never have the same key: acquireLeader and the
\* client pump let one call per fingerprint through at a time.
THEOREM OnePerKeyHolds ==
  ASSUME NoCall \notin Calls, NoKey \notin Keys
  PROVE  CoalescingSpec => []OnePerKey
<1>1. CoalescingInv => OnePerKey
  BY DEF CoalescingInv
<1> QED
  BY <1>1, CoalescingInvariant, PTL

\* Whoever was given a leader's answer did not execute at the time, and the
\* leader is another call with the same fingerprint.
THEOREM SharedWithinKeyHolds ==
  ASSUME NoCall \notin Calls, NoKey \notin Keys
  PROVE  CoalescingSpec => []SharedWithinKey
<1>1. CoalescingInv => SharedWithinKey
  BY DEF CoalescingInv
<1> QED
  BY <1>1, CoalescingInvariant, PTL
=============================================================================
