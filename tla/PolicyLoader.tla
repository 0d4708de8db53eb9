---------------------------- MODULE PolicyLoader ----------------------------
(***************************************************************************)
(* policy.Load: the parser of the policy file, line by line with its stack *)
(* of open blocks, and the validation at the end.  The file is whatever    *)
(* lines the environment supplies; blank lines and comments are skipped by *)
(* the parser and left out.  A line is its indentation, the text before    *)
(* its first colon, whether there is one, and the tokens after it (of an   *)
(* inline list its elements, for a key that takes one); and whether it     *)
(* ends in a colon, with the name before that one, which is what it heads  *)
(* where the tools are listed.                                             *)
(***************************************************************************)
EXTENDS Policy, FiniteSetsExt

CONSTANTS
  Lines,     \* the lines a file is made of
  MaxLines,  \* bound on their number
  Bodies     \* bodies of requests, to compare their fingerprints

ASSUME LineAssumption ==
  /\ \A l \in Lines :
       /\ l.indent \in Nat /\ l.key \in STRING /\ l.colon \in BOOLEAN /\ l.text \in Seq(STRING)
       /\ l.ends \in BOOLEAN /\ l.name \in STRING
       /\ l.colon /\ l.text = <<>> => l.ends /\ l.name = l.key
  /\ MaxLines \in Nat

\* A body binds fields to strings and numbers, in the form Decode gives them.
ASSUME BodyAssumption ==
  \A b \in Bodies :
    /\ DOMAIN b \subseteq Fields /\ b = [f \in DOMAIN b |-> b[f]]
    /\ \A f \in DOMAIN b :
         \/ b[f].type = "number" /\ b[f] = [type |-> "number", n |-> b[f].n]
         \/ /\ b[f].type = "string"
            /\ b[f] = [type |-> "string", word |-> b[f].word, letters |-> b[f].letters,
                       pad |-> b[f].pad, gap |-> b[f].gap]

\* The loader files the blocks of the defaults under the tool "".
ASSUME ToolAssumption == "" \notin Tools

VARIABLES
  seen,      \* the lines read so far
  stack,     \* the open blocks, outermost first
  config,    \* the Config under construction
  status     \* "reading", "failed" or "loaded"

vars == <<seen, stack, config, status>>

Frame(indent, kind, tool) == [indent |-> indent, kind |-> kind, tool |-> tool]

Init ==
  /\ seen = <<>> /\ stack = <<>> /\ status = "reading"
  /\ config = [defaults |-> ZeroPolicy, tools |-> <<>>]

\* A mutant of Popped: a block stays open for lines of its own indentation.
PoppedBelow(l) ==
  SubSeq(stack, 1, Max({0} \cup {n \in DOMAIN stack : stack[n].indent <= l.indent}))

\* The blocks still open at line l: the stack is popped until its top is
\* indented less than l.
Popped(l) ==
  SubSeq(stack, 1, Max({0} \cup {n \in DOMAIN stack : stack[n].indent < l.indent}))

Kind(l) == IF Popped(l) = <<>> THEN "none" ELSE Last(Popped(l)).kind

\* "" for the defaults, and for the blocks inside them.
ToolOf(l) == Last(Popped(l)).tool

\* The line is a key and a colon.
Bare(l) == l.colon /\ l.text = <<>>

\* The section a block writes to; a missing one is the zero policy.
Section(tool) == IF tool \in DOMAIN config.tools THEN config.tools[tool] ELSE ZeroPolicy

\* Line l opens a block.
Push(l, kind, tool) ==
  /\ stack' = Append(Popped(l), Frame(l.indent, kind, tool))
  /\ seen' = Append(seen, l)
  /\ UNCHANGED status

\* Line l changes the section of a tool, which "" may be, or the defaults.
Write(l, new) ==
  /\ config' = new
  /\ stack' = Popped(l)
  /\ seen' = Append(seen, l)
  /\ UNCHANGED status

WriteTool(l, tool, pol) == Write(l, [config EXCEPT !.tools = Bind(@, tool, pol)])

-----------------------------------------------------------------------------
(* The cases of parse's switch.                                            *)

OpensTop(l) == l.indent = 0 /\ Bare(l) /\ l.key \in {"defaults", "tools"}

OpenTop(l) ==
  /\ OpensTop(l)
  /\ Push(l, l.key, "")
  /\ UNCHANGED config

\* Any line that ends in a colon; the name may hold colons of its own.
OpensTool(l) == Kind(l) = "tools" /\ l.ends

\* A mutant of OpenTool: a second section of a tool adds to the first.
OpenToolAgain(l) ==
  /\ OpensTool(l)
  /\ Push(l, "tool", l.name)
  /\ config' = [config EXCEPT !.tools = Bind(@, l.name, Section(l.name))]

\* A tool's section starts empty, also when it is a second one.
OpenTool(l) ==
  /\ OpensTool(l)
  /\ Push(l, "tool", l.name)
  /\ config' = [config EXCEPT !.tools = Bind(@, l.name, ZeroPolicy)]

OpensBlock(l) ==
  Kind(l) \in {"defaults", "tool"} /\ Bare(l) /\ l.key \in {"normalize", "rate_limit"}

OpenBlock(l) ==
  /\ OpensBlock(l)
  /\ Push(l, l.key, ToolOf(l))
  /\ UNCHANGED config

SetsScalar(l) ==
  /\ Kind(l) \in {"defaults", "tool"} /\ l.colon /\ l.key \in Scalars
  /\ ScalarParses(l.key, l.text)

SetScalar(l) ==
  /\ SetsScalar(l)
  /\ LET v == ScalarValue(l.key, l.text)
     IN  \/ /\ Kind(l) = "defaults"
            /\ Write(l, [config EXCEPT !.defaults.scalar[l.key] = v])
         \/ /\ Kind(l) = "tool"
            /\ WriteTool(l, ToolOf(l), [Section(ToolOf(l)) EXCEPT !.scalar[l.key] = v])

SetsTransforms(l) == Kind(l) = "normalize" /\ l.colon

SetTransforms(l) ==
  /\ SetsTransforms(l)
  /\ WriteTool(l, ToolOf(l), [Section(ToolOf(l)) EXCEPT !.normalize = Bind(@, l.key, l.text)])

SetsRate(l) ==
  /\ Kind(l) = "rate_limit" /\ l.colon /\ l.key \in {"rps", "burst"}
  /\ Len(l.text) = 1 /\ Head(l.text) \in Numerals[l.key]

SetRate(l) ==
  /\ SetsRate(l)
  /\ WriteTool(l, ToolOf(l), [Section(ToolOf(l)) EXCEPT !.rate[l.key] = Number(l.text)])

\* Whatever else a line is, it ends the parse with an error.
Reject(l) ==
  /\ ~(OpensTop(l) \/ OpensTool(l) \/ OpensBlock(l) \/ SetsScalar(l)
       \/ SetsTransforms(l) \/ SetsRate(l))
  /\ seen' = Append(seen, l) /\ stack' = Popped(l)
  /\ status' = "failed"
  /\ UNCHANGED config

ReadLine ==
  /\ status = "reading" /\ Len(seen) < MaxLines
  /\ \E l \in Lines :
       OpenTop(l) \/ OpenTool(l) \/ OpenBlock(l) \/ SetScalar(l) \/ SetTransforms(l)
       \/ SetRate(l) \/ Reject(l)

\* The end of the file.
Validate ==
  /\ status = "reading"
  /\ status' = IF Valid(config) THEN "loaded" ELSE "failed"
  /\ UNCHANGED <<seen, stack, config>>

Next == ReadLine \/ Validate

Spec == Init /\ [][Next]_vars
-----------------------------------------------------------------------------
(* What a file says, read off its indentation without a stack.             *)

\* The lines that line i is indented under.
Around(file, i) ==
  {j \in 1..(i - 1) : \A k \in (j + 1)..i : file[k].indent > file[j].indent}

\* The outermost of them is "tools:" or "defaults:".
Under(file, i, top) == Around(file, i) # {} /\ file[Min(Around(file, i))].key = top

\* Line i is a tool's heading: under "tools:" and under nothing else.
IsHeading(file, i) == Under(file, i, "tools") /\ Cardinality(Around(file, i)) = 1

\* The line that heads the section of line i, the tool's or "defaults:".
Home(file, i) ==
  LET around == Around(file, i)
  IN  IF Under(file, i, "tools") THEN Min(around \ {Min(around)}) ELSE Min(around)

\* Line l opens a block of a section.
HeadsBlock(l) == Bare(l) /\ l.key \in {"normalize", "rate_limit"}

\* The block of the section that line i is in: the first it is indented under.
BlockOf(file, i) ==
  LET open == {j \in Around(file, i) : j > Home(file, i) /\ HeadsBlock(file[j])}
  IN  IF open = {} THEN "scalars" ELSE file[Min(open)].key

\* Line i gives a key a value in a section.
IsSetting(file, i) == file[i].indent > 0 /\ ~IsHeading(file, i)

\* The lines that give key k a value in a block of the sections at homes.
Settings(file, homes, block, k) ==
  {i \in 1..Len(file) : /\ file[i].key = k /\ IsSetting(file, i)
                         /\ Home(file, i) \in homes /\ BlockOf(file, i) = block}

\* The last of them counts.
Said(file, homes, block, k) ==
  LET at == Settings(file, homes, block, k)
  IN  IF at = {} THEN <<>> ELSE file[Max(at)].text

Headings(file, t) == {i \in 1..Len(file) : IsHeading(file, i) /\ file[i].name = t}

\* The section of a tool that counts is its last one.
SectionOf(file, t) == IF Headings(file, t) = {} THEN {} ELSE {Max(Headings(file, t))}

DefaultSections(file) ==
  {i \in 1..Len(file) : file[i].indent = 0 /\ file[i].key = "defaults"}

\* What the lines read so far say of key k, for tool t and in the defaults.
OwnText(t, block, k) == Said(seen, SectionOf(seen, t), block, k)

DefaultText(block, k) == Said(seen, DefaultSections(seen), block, k)

-----------------------------------------------------------------------------
(* Properties.                                                             *)

\* Every variable of the loader keeps its type, and indentation grows along
\* the stack.
TypeOK ==
  /\ seen \in Seq(Lines) /\ Len(seen) <= MaxLines
  /\ status \in {"reading", "failed", "loaded"}
  /\ \A i \in DOMAIN stack :
       /\ stack[i].kind \in {"defaults", "tools", "tool", "normalize", "rate_limit"}
       /\ stack[i].tool \in {l.name : l \in Lines} \cup {""}
       /\ i > 1 => stack[i].indent > stack[i - 1].indent
  /\ DOMAIN config.tools \subseteq {l.name : l \in Lines} \cup {""}

\* While parse accepts the file, the Config is what the indentation says: each
\* value of a tool and each scalar of the defaults belongs to the section and
\* the block it is indented under, the last setting counts, and a tool's second
\* section replaces its first.  (The blocks under the defaults, which the loader
\* files under the tool "", are DefaultRateHolds' subject.)
ReadAsIndented ==
  status # "failed" =>
    /\ \A k \in Scalars :
         config.defaults.scalar[k] = ScalarValue(k, DefaultText("scalars", k))
    /\ \A t \in Tools :
         /\ t \in DOMAIN config.tools <=> Headings(seen, t) # {}
         /\ t \in DOMAIN config.tools =>
              /\ \A k \in Scalars :
                   config.tools[t].scalar[k] = ScalarValue(k, OwnText(t, "scalars", k))
              /\ \A k \in {"rps", "burst"} :
                   config.tools[t].rate[k] = Number(OwnText(t, "rate_limit", k))
              /\ \A f \in Fields :
                   /\ f \in DOMAIN config.tools[t].normalize
                        <=> Settings(seen, SectionOf(seen, t), "normalize", f) # {}
                   /\ f \in DOMAIN config.tools[t].normalize =>
                        config.tools[t].normalize[f] = OwnText(t, "normalize", f)

\* Which line of a loaded file decides each setting of a tool.  What the tool's
\* section says counts, whatever the defaults say; where it is silent, mode, ttl
\* and threshold come from the defaults, and access list, fields and replay
\* behaviour from nowhere; a tool without a section gets every scalar of the
\* defaults.  A ttl or threshold of 0 in a section is left to
\* ZeroDisablesSemantic.
EffectiveAsWritten ==
  status = "loaded" =>
    \A t \in Tools, k \in Scalars :
      LET own == OwnText(t, "scalars", k)
          decides == IF \/ Headings(seen, t) = {}
                        \/ own = <<>> /\ k \in {"mode", "ttl", "semantic_threshold"}
                       THEN DefaultText("scalars", k) ELSE own
      IN  \/ own = <<"0">> /\ k \in {"ttl", "semantic_threshold"}
          \/ For(config, t).scalar[k] = ScalarValue(k, decides)

\* Two values of a field that the transforms listed for it make equal.
SameValue(v, w, transforms) ==
  LET listed == ToSet(transforms)
  IN  IF v.type = "string" /\ w.type = "string"
        THEN /\ v.word = w.word
             /\ {"lowercase", "uppercase"} \cap listed # {} \/ v.letters = w.letters
             /\ {"trim", "collapse_whitespace"} \cap listed # {} \/ v.pad = w.pad
             /\ "collapse_whitespace" \in listed \/ v.gap = w.gap
        ELSE v.type = w.type /\ ToFloat(v.n) = ToFloat(w.n)

\* The fields a request of tool t is told apart by.
Telling(t) ==
  LET fields == IF Headings(seen, t) = {} THEN DefaultText("scalars", "fingerprint_fields")
                ELSE OwnText(t, "scalars", "fingerprint_fields")
  IN  IF fields = <<>> THEN Fields ELSE ToSet(fields)

\* Once loaded, two requests of a tool have the same fingerprint just when the
\* fields its section chooses are present in both or neither and agree up to
\* the transforms the section lists for them, and up to float64.
FingerprintsTell ==
  status = "loaded" =>
    \A t \in Tools :
      LET hash == [b \in Bodies |-> Analyse(b, For(config, t))]
          listed == [f \in Telling(t) |-> OwnText(t, "normalize", f)]
      IN  \A b, d \in Bodies :
            hash[b] = hash[d] <=>
              \A f \in DOMAIN listed :
                /\ f \in DOMAIN b <=> f \in DOMAIN d
                /\ f \in DOMAIN b \cap DOMAIN d => SameValue(b[f], d[f], listed[f])

-----------------------------------------------------------------------------
(* What the repository says and the code does not do.                      *)

\* results.md, of a tool's "semantic_threshold: 0": "exact only".
ZeroDisablesSemantic ==
  status = "loaded" =>
    \A t \in Tools : OwnText(t, "scalars", "semantic_threshold") = <<"0">>
                       => For(config, t).scalar["semantic_threshold"] = <<>>

\* Load "returns a validated Config": the mode of every tool is a known one.
LoadedModesKnown ==
  status = "loaded" =>
    \A t \in Tools : For(config, t).scalar["mode"] \in {<<>>} \cup {<<m>> : m \in Modes}

\* "Different values, different hashes": numbers that differ are told apart.
NumbersTold ==
  status = "loaded" =>
    \A t \in Tools, b, d \in Bodies :
      (\E f \in Telling(t) \cap DOMAIN b \cap DOMAIN d :
         b[f].type = "number" /\ d[f].type = "number" /\ b[f].n # d[f].n)
        => Analyse(b, For(config, t)) # Analyse(d, For(config, t))

\* "RateLimit caps the rate at which tool calls reach the upstream": a rate
\* limit of the defaults holds for the tools without a section.
DefaultRateHolds ==
  status = "loaded" =>
    \A t \in Tools : Headings(seen, t) = {} =>
      For(config, t).rate["rps"] = Number(DefaultText("rate_limit", "rps"))
=============================================================================
