------------------------------ MODULE MCPolicy ------------------------------
(***************************************************************************)
(* Instances of PolicyLoader for TLC: files of a few lines that nest,      *)
(* repeat, inherit and misplace the keys of the policy file.               *)
(***************************************************************************)
EXTENDS PolicyLoader

L(n, k, text) ==
  [indent |-> n, key |-> k, colon |-> TRUE, text |-> text, ends |-> text = <<>>,
   name |-> k]

MCNumerals ==
  [ttl |-> {"0", "1h"}, semantic_threshold |-> {"0", "0.9", "2"}, rps |-> {"0", "5"},
   burst |-> {"0", "1"}]

\* Headings, and lines that fit in several places by their indentation alone.
Skeleton ==
  {L(0, "defaults", <<>>), L(0, "tools", <<>>), L(2, "a", <<>>)}

ManyLines ==
  Skeleton \cup
  {L(2, "semantic_threshold", <<"0.9">>), L(4, "semantic_threshold", <<"0">>),
   L(4, "fingerprint_fields", <<"f">>), L(2, "allowed_callers", <<"ops">>),
   L(4, "normalize", <<>>), L(6, "f", <<"trim", "lowercase">>),
   L(2, "rate_limit", <<>>), L(6, "rps", <<"5">>), L(4, "mode", <<"strict", "x">>),
   [indent |-> 4, key |-> "junk", colon |-> FALSE, text |-> <<>>, ends |-> FALSE,
    name |-> "junk"],
   [indent |-> 2, key |-> "mcp", colon |-> TRUE, text |-> <<"b:">>, ends |-> TRUE,
    name |-> "mcp:b"]}

\* For the counterexamples.
OddLines ==
  Skeleton \cup
  {L(2, "semantic_threshold", <<"0.9">>), L(4, "semantic_threshold", <<"0">>),
   L(2, "mode", <<"bogus">>), L(2, "rate_limit", <<>>), L(4, "rps", <<"5">>)}

Str(w, l, p, g) == [type |-> "string", word |-> w, letters |-> l, pad |-> p, gap |-> g]

Num(n) == [type |-> "number", n |-> n]

MCBodies ==
  {[f |-> Str("x", "lower", FALSE, FALSE)], [f |-> Str("x", "mixed", TRUE, FALSE)],
   [f |-> Str("x", "lower", FALSE, TRUE)], [f |-> Num(4)], [f |-> Num(5)],
   [f |-> Str("x", "upper", FALSE, FALSE), g |-> Num(1)], [g |-> Num(1)]}
=============================================================================
