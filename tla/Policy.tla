------------------------------- MODULE Policy -------------------------------
(***************************************************************************)
(* The policy of a tool and what it makes of a request's body: the merge   *)
(* with the defaults (internal/policy), the transforms of a field          *)
(* (internal/normalizer), the choice of fields and the fingerprint         *)
(* (internal/fingerprint and the pipeline's analyse).  Pure functions.     *)
(*                                                                         *)
(* A text of the policy file is the sequence of its tokens, and <<>> is    *)
(* both "nothing written" and the zero value of Go that stands for it.     *)
(***************************************************************************)
EXTENDS Integers, Sequences, SequencesExt

CONSTANTS
  Tools,      \* names of tools
  Fields,     \* names of the fields of a body
  Numerals,   \* for ttl, semantic_threshold, rps, burst: the texts that parse
  OutOfRange, \* the thresholds outside [0, 1]
  Mantissa    \* binary digits of a float's significand

ASSUME NumeralAssumption ==
  /\ \A k \in {"ttl", "semantic_threshold", "rps", "burst"} : "0" \in Numerals[k]
  /\ OutOfRange \subseteq Numerals["semantic_threshold"] \ {"0"}

ASSUME MantissaAssumption == Mantissa \in Nat \ {0}

\* The keys applyScalarOrOpenBlock knows.
Scalars ==
  {"mode", "ttl", "semantic_threshold", "require_human_confirm_on_replay",
   "fingerprint_fields", "allowed_callers", "replay_strategy",
   "synthesized_response", "redact_request_body"}

Modes == {"strict", "cache", "log_only", "off"}

\* A number of the file, 0 being the zero value of its field.
Number(text) == IF text = <<"0">> THEN <<>> ELSE text

\* Whether the value of a key parses.
ScalarParses(k, text) ==
  /\ k \in {"ttl", "semantic_threshold"} =>
       Len(text) = 1 /\ Head(text) \in Numerals[k]
  /\ k = "replay_strategy" =>
       text \in {<<>>, <<"cached_response">>, <<"synthesized_ack">>}

\* The value of a key, once parsed: any text but true is false.
ScalarValue(k, text) ==
  CASE k \in {"ttl", "semantic_threshold"} -> Number(text)
    [] k \in {"require_human_confirm_on_replay", "redact_request_body"} ->
         IF text = <<"true">> THEN text ELSE <<>>
    [] OTHER -> text

\* ToolPolicy{}: scalar values, transforms by field, the rate limit.
ZeroPolicy ==
  [scalar |-> [k \in Scalars |-> <<>>], normalize |-> <<>>,
   rate |-> [k \in {"rps", "burst"} |-> <<>>]]

\* The map f with k bound to v.
Bind(f, k, v) == [x \in DOMAIN f \cup {k} |-> IF x = k THEN v ELSE f[x]]

-----------------------------------------------------------------------------
(* Config.For.                                                             *)

\* The keys a tool's section takes from the defaults when it has none.
Inherited == {"mode", "ttl", "semantic_threshold"}

\* A mutant of MergeDefaults: the access list is inherited as well.
MergeDefaultsAll(p, d) ==
  [p EXCEPT !.scalar = [k \in Scalars |-> IF @[k] = <<>> THEN d.scalar[k] ELSE @[k]]]

\* 0 and "" count as unset.
MergeDefaults(p, d) ==
  [p EXCEPT !.scalar = [k \in Scalars |->
     IF k \in Inherited /\ @[k] = <<>> THEN d.scalar[k] ELSE @[k]]]

For(config, tool) ==
  IF tool \in DOMAIN config.tools
    THEN MergeDefaults(config.tools[tool], config.defaults)
    ELSE config.defaults

\* Config.Validate looks at the sections of the tools.
Valid(config) ==
  \A t \in DOMAIN config.tools :
    LET s == config.tools[t].scalar
    IN  /\ s["mode"] \in {<<>>} \cup {<<m>> : m \in Modes}
        /\ s["semantic_threshold"] \notin {<<n>> : n \in OutOfRange}

-----------------------------------------------------------------------------
(* analyse.  A body binds fields to values: a string is a word, the case   *)
(* of its letters, whether it has blanks around it and longer gaps between *)
(* its words; a number is an integer, and becomes a float64 on decoding.   *)

\* The nearest number with Mantissa binary digits, of two the one that is an
\* even multiple of the last digit's weight.
ToFloat(n) ==
  LET size   == IF n < 0 THEN -n ELSE n
      weight == 2^Min({e \in 0..size : size < 2^(Mantissa + e)})
      rest   == size % weight
      down   == size - rest
      up     == 2 * rest > weight \/ (2 * rest = weight /\ (down \div weight) % 2 = 1)
      float  == IF up THEN down + weight ELSE down
  IN  IF n < 0 THEN -float ELSE float

Decode(v) == IF v.type = "number" THEN [v EXCEPT !.n = ToFloat(@)] ELSE v

\* Every run of blanks becomes one, and those at the ends go.
CollapseWhitespace(s) == [s EXCEPT !.pad = FALSE, !.gap = FALSE]

\* The registry of transforms; a name it does not know does nothing.
Transform(s, name) ==
  CASE name = "trim" -> [s EXCEPT !.pad = FALSE]
    [] name = "lowercase" -> [s EXCEPT !.letters = "lower"]
    [] name = "uppercase" -> [s EXCEPT !.letters = "upper"]
    [] name = "collapse_whitespace" -> CollapseWhitespace(s)
    [] OTHER -> s

\* A mutant of Apply: only the first transform of the list is applied.
ApplyFirst(v, transforms) ==
  IF transforms = <<>> THEN v ELSE Transform(v, Head(transforms))

Apply(v, transforms) == FoldLeft(Transform, v, transforms)

\* Only the strings are normalised.
Normalised(body, normalize) ==
  [f \in DOMAIN body |->
     IF f \in DOMAIN normalize /\ Decode(body[f]).type = "string"
       THEN Apply(Decode(body[f]), normalize[f])
       ELSE Decode(body[f])]

\* All fields, or the chosen ones that are there.
Select(body, fields) ==
  IF fields = <<>> THEN body ELSE Restrict(body, ToSet(fields) \cap DOMAIN body)

\* The canonical form has the keys in one order whatever order they came in,
\* and SHA-256 is taken to be injective: what counts is the set of bindings.
Exact(v) == {<<f, v[f]>> : f \in DOMAIN v}

Analyse(body, pol) ==
  Exact(Select(Normalised(body, pol.normalize), pol.scalar["fingerprint_fields"]))
=============================================================================
