------------------------------- MODULE MCStdio -------------------------------
(***************************************************************************)
(* Instances of Stdio for TLC: three requests over one or two tools.       *)
(***************************************************************************)
EXTENDS Stdio, TLC

CONSTANTS t1, t2, t3, h1, h2, r1, r2, r3

IdSymmetry == Permutations(Ids)

Call(t, a) == [tool |-> t, args |-> a]

\* A cached tool, a strict one and one that is off.
Modes == (t1 :> "cache") @@ (t2 :> "strict") @@ (t3 :> "off")

\* Two fingerprints of paraphrases, for the cached tool and the strict one.
Paraphrases ==
  LET near == {<<h1, h2>>, <<h2, h1>>}
  IN  (t1 :> near) @@ (t2 :> near) @@ (t3 :> {})

\* Calls of two tools with one fingerprint, a paraphrase of the first,
\* arguments analyse rejects, and a frame that is no tools/call.
AskMixed == {Call(t1, h1), Call(t1, h2), Call(t2, h1), Call(t2, BadArgs),
             Call(NoTool, BadArgs)}

AskBoth == {Call(t1, h1), Call(t2, h1)}

AskOne == {Call(t1, h1)}

AskOff == {Call(t3, h1), Call(t3, BadArgs)}
==============================================================================
