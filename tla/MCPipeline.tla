----------------------------- MODULE MCPipeline -----------------------------
(***************************************************************************)
(* Instances of Pipeline for TLC.  Each run's cfg picks the policies, the  *)
(* requests and the faults of the question it asks.                        *)
(***************************************************************************)
EXTENDS Adapters, TLC

CONSTANTS c1, c2, c3, t1, t2, t3, h1, h2, alice, bob

CallSymmetry == Permutations(Calls)

Nothing == {}

\* A strict tool that never expires its answers and limits nobody.
Plain == [mode |-> "strict", ttl |-> 0, threshold |-> 0, confirm |-> FALSE,
          ack |-> FALSE, allowed |-> {}, rps |-> 0, burst |-> 0]

Ask(t, b) == [tool |-> t, body |-> b, caller |-> alice, id |-> TRUE]
BobAsks(t, b) == [Ask(t, b) EXCEPT !.caller = bob]
Notifies(t, b) == [Ask(t, b) EXCEPT !.id = FALSE]

\* Two intents of which one tool takes the other's for its own.
Paraphrase == [p \in Hashes \X Hashes |-> IF p[1] = p[2] THEN 100 ELSE 80]

\* coalesce: a strict tool with confirmation, a cached one with an access list and a rate limit
\* that caches acknowledgements only, and one in mode off.
Gates ==
  (t1 :> [Plain EXCEPT !.confirm = TRUE]) @@
  (t2 :> [Plain EXCEPT !.mode = "cache", !.ack = TRUE, !.allowed = {alice},
                       !.rps = 1]) @@
  (t3 :> [Plain EXCEPT !.mode = "off"])

AskGates == {Ask(t1, h1), Ask(t2, h1), BobAsks(t2, h1), Ask(t2, BadBody),
             Ask(t3, h1)}

\* lifecycle: answers that expire, of a tool that accepts paraphrases and of
\* one that does not and whose replays are acknowledgements.
Expiring ==
  (t1 :> [Plain EXCEPT !.ttl = 1, !.threshold = 70]) @@
  (t2 :> [Plain EXCEPT !.ttl = 1, !.threshold = 90, !.ack = TRUE])

AskExpiring == {Ask(t1, h1), Notifies(t1, h2), Ask(t2, h1)}

SeedExpiring == {<<t1, h2>>, <<t2, h2>>}

\* shadow: one tool only logs, one has an access list and a rate limit.
GatesLogOnly ==
  (t1 :> [Plain EXCEPT !.mode = "log_only", !.ttl = 1]) @@
  (t2 :> [Plain EXCEPT !.allowed = {alice}, !.rps = 1, !.burst = 2])

AskLogOnly == {Ask(t1, h1), Ask(t1, BadBody), Ask(t2, h1), BobAsks(t1, h1),
               BobAsks(t2, h1)}

SeedBoth == {<<t1, h1>>, <<t2, h1>>}

\* One tool, for the disagreements.
PlainTool == t1 :> Plain

ConfirmingTool == t1 :> [Plain EXCEPT !.confirm = TRUE]

AcknowledgingTool == t1 :> [Plain EXCEPT !.ack = TRUE]

ExpiringTool == t1 :> [Plain EXCEPT !.ttl = 1]

TwoTools == (t1 :> Plain) @@ (t2 :> [Plain EXCEPT !.mode = "cache"])

AskOne == {Ask(t1, h1)}

AskTwo == {Ask(t1, h1), Ask(t2, h1)}

SeedOne == {<<t1, h1>>}
=============================================================================
