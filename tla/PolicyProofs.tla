---------------------------- MODULE PolicyProofs ----------------------------
(***************************************************************************)
(* Proofs about the policy loader and the fingerprints, for files of any   *)
(* length, any tools, fields, lists of transforms and bodies.              *)
(*                                                                         *)
(* The parser keeps a stack, the properties read a file off its            *)
(* indentation.  The invariant (Standing) says which line of the file      *)
(* opened each block of the stack, and why no line in between can take its *)
(* place: this is enough to tell what the next line is indented under, and *)
(* what older lines are indented under never changes.                      *)
(*                                                                         *)
(* The transforms of a field are a fold; it is unrolled into the run of    *)
(* values it goes through, and what holds along a run is shown by its      *)
(* least counterexample.                                                   *)
(***************************************************************************)
EXTENDS PolicyLoader, WellFoundedInduction, FiniteSetTheorems, TLAPS

-----------------------------------------------------------------------------
(* Least and greatest numbers of a set: the induction all else rests on.   *)

\* The order of the naturals as a relation.
Below == {ss \in Nat \X Nat : ss[1] < ss[2]}

\* A set of naturals has a least element.
LEMMA LeastNat ==
  ASSUME NEW T, T \subseteq Nat, T # {}
  PROVE  \E x \in T : \A y \in T : x <= y
<1>1. IsWellFoundedOn(Below, Nat)
  BY NatLessThanWellFounded, Zenon DEF OpToRel, Below
<1>2. PICK x \in T : \A y \in T : ~ (<<y, x>> \in Below)
  BY <1>1, WFMin, Zenon
<1>3. \A y \in T : ~(y < x)
  <2> SUFFICES ASSUME NEW y \in T, y < x PROVE FALSE
    OBVIOUS
  <2>1. <<y, x>> \in Below
    BY DEF Below
  <2> QED
    BY <1>2, <2>1
<1>4. \A y \in T : y \in Nat /\ x \in Nat
  OBVIOUS
<1>5. \A y \in T : x <= y
  BY <1>3, <1>4
<1> QED
  BY <1>5

\* A set of naturals with a bound has a greatest element.
LEMMA GreatestBelow ==
  ASSUME NEW n \in Nat, NEW T, T \subseteq 0..n, T # {}
  PROVE  \E x \in T : \A y \in T : y <= x
<1> DEFINE U == {m \in Nat : \A y \in T : y <= m}
<1>1. \A y \in T : y \in Nat /\ y <= n
  OBVIOUS
<1>2. n \in U
  BY <1>1
<1>3. PICK u \in U : \A v \in U : u <= v
  BY <1>2, LeastNat
<1>4. u \in T
  <2> SUFFICES ASSUME u \notin T PROVE FALSE
    OBVIOUS
  <2>1. \A y \in T : y <= u - 1
    BY <1>1
  <2>2. PICK y \in T : y <= u - 1
    BY <2>1
  <2>3. u - 1 \in U
    BY <1>1, <2>1, <2>2
  <2> QED
    BY <1>3, <2>3
<1> QED
  BY <1>4

\* Min is the least element of a set of naturals.
LEMMA MinOf ==
  ASSUME NEW T, T \subseteq Nat, T # {}
  PROVE  Min(T) \in T /\ \A y \in T : Min(T) <= y
BY LeastNat DEF Min

\* Max is the greatest element of a bounded set of naturals.
LEMMA MaxOf ==
  ASSUME NEW n \in Nat, NEW T, T \subseteq 0..n, T # {}
  PROVE  Max(T) \in T /\ \A y \in T : y <= Max(T)
<1>1. \E x \in T : \A y \in T : x >= y
  BY GreatestBelow
<1> QED
  BY <1>1 DEF Max

\* An element that is at most every other one is the least.
LEMMA MinIs ==
  ASSUME NEW T, T \subseteq Nat, NEW x \in T, \A y \in T : x <= y
  PROVE  Min(T) = x
<1>1. Min(T) \in T /\ Min(T) <= x
  BY MinOf
<1>2. x \in Nat /\ Min(T) \in Nat /\ x <= Min(T)
  BY <1>1
<1> QED
  BY <1>1, <1>2

\* An element that is at least every other one is the greatest.
LEMMA MaxIs ==
  ASSUME NEW T, T \subseteq Nat, NEW x \in T, \A y \in T : y <= x
  PROVE  Max(T) = x
<1>1. T \subseteq 0..x
  OBVIOUS
<1>2. Max(T) \in T /\ x <= Max(T)
  BY <1>1, MaxOf
<1>3. x \in Nat /\ Max(T) \in Nat /\ Max(T) <= x
  BY <1>2
<1> QED
  BY <1>2, <1>3

-----------------------------------------------------------------------------
(* A file and the file with one more line.                                 *)

\* The lines of a file have their types.
LEMMA LineTypes ==
  ASSUME NEW s \in Seq(Lines), NEW i \in 1..Len(s)
  PROVE  /\ s[i] \in Lines /\ s[i].indent \in Nat /\ s[i].key \in STRING
         /\ s[i].colon \in BOOLEAN /\ s[i].text \in Seq(STRING)
<1>1. s[i] \in Lines
  OBVIOUS
<1> QED
  BY <1>1, LineAssumption

\* The file t is the file s with line l after it.
More(s, l, t) == s \in Seq(Lines) /\ l \in Lines /\ t = Append(s, l)

\* What a further line leaves alone.
LEMMA OneMore ==
  ASSUME NEW s, NEW l, NEW t, More(s, l, t)
  PROVE  /\ s \in Seq(Lines) /\ l \in Lines /\ t \in Seq(Lines)
         /\ Len(s) \in Nat /\ Len(t) = Len(s) + 1
         /\ (\A i \in 1..Len(s) : t[i] = s[i]) /\ t[Len(s) + 1] = l
BY DEF More

\* The lines around a line come before it.
LEMMA AroundBefore ==
  ASSUME NEW s, NEW i \in Nat
  PROVE  Around(s, i) \subseteq 1..(i - 1) /\ Around(s, i) \subseteq Nat
BY DEF Around

\* A further line changes nothing that is said of the older ones.
LEMMA OlderLines ==
  ASSUME NEW s, NEW l, NEW t, More(s, l, t), NEW i \in 1..Len(s)
  PROVE  /\ Around(t, i) = Around(s, i) /\ IsHeading(t, i) = IsHeading(s, i)
         /\ Home(t, i) = Home(s, i) /\ BlockOf(t, i) = BlockOf(s, i)
         /\ IsSetting(t, i) = IsSetting(s, i)
<1>0. Len(s) \in Nat /\ \A j \in 1..Len(s) : t[j] = s[j]
  BY OneMore
<1>1. Around(t, i) = Around(s, i)
  <2>1. \A j \in 1..(i - 1) : t[j] = s[j] /\ \A k \in (j + 1)..i : t[k] = s[k]
    BY <1>0
  <2> QED
    BY <2>1 DEF Around
<1>2. \A j \in Around(s, i) : t[j] = s[j]
  BY <1>0, AroundBefore
<1>3. \A top : Under(t, i, top) = Under(s, i, top)
  <2>1. CASE Around(s, i) = {}
    BY <1>1, <2>1 DEF Under
  <2>2. CASE Around(s, i) # {}
    <3>1. Min(Around(s, i)) \in Around(s, i)
      BY <2>2, AroundBefore, MinOf
    <3> QED
      BY <1>1, <1>2, <3>1 DEF Under
  <2> QED
    BY <2>1, <2>2
<1>4. IsHeading(t, i) = IsHeading(s, i) /\ Home(t, i) = Home(s, i)
  BY <1>1, <1>3 DEF IsHeading, Home
<1>5. BlockOf(t, i) = BlockOf(s, i)
  <2> DEFINE O(f) == {j \in Around(s, i) : j > Home(s, i) /\ HeadsBlock(f[j])}
  <2>1. O(t) = O(s)
    BY <1>2
  <2>2. CASE O(s) = {}
    BY <1>1, <1>4, <2>1, <2>2 DEF BlockOf
  <2>3. CASE O(s) # {}
    <3>0. O(s) \subseteq Nat
      BY AroundBefore
    <3>1. Min(O(s)) \in O(s)
      BY <2>3, <3>0, MinOf
    <3>2. t[Min(O(s))] = s[Min(O(s))]
      BY <3>1, <1>2
    <3> QED
      BY <1>1, <1>4, <2>1, <3>2 DEF BlockOf
  <2> QED
    BY <2>2, <2>3
<1>6. IsSetting(t, i) = IsSetting(s, i)
  BY <1>0, <1>4 DEF IsSetting
<1> QED
  BY <1>1, <1>4, <1>5, <1>6

\* The line after the last one of s sets key k in a block of the sections H.
Hits(t, H, block, k) ==
  LET n == Len(t)
  IN  t[n].key = k /\ IsSetting(t, n) /\ Home(t, n) \in H /\ BlockOf(t, n) = block

\* The settings of a file with one more line.
LEMMA SettingsMore ==
  ASSUME NEW s, NEW l, NEW t, More(s, l, t),
         NEW H, NEW block, NEW k
  PROVE  /\ Hits(t, H, block, k) =>
              Settings(t, H, block, k) = Settings(s, H, block, k) \cup {Len(s) + 1}
         /\ ~Hits(t, H, block, k) => Settings(t, H, block, k) = Settings(s, H, block, k)
<1>0. Len(s) \in Nat /\ Len(t) = Len(s) + 1 /\ \A j \in 1..Len(s) : t[j] = s[j]
  BY OneMore
<1> DEFINE In(f, i) == f[i].key = k /\ IsSetting(f, i) /\ Home(f, i) \in H
                         /\ BlockOf(f, i) = block
<1>1. \A i \in 1..Len(s) : In(t, i) <=> In(s, i)
  BY <1>0, OlderLines
<1>2. In(t, Len(s) + 1) <=> Hits(t, H, block, k)
  BY <1>0 DEF Hits
<1>3. \A f : Settings(f, H, block, k) = {i \in 1..Len(f) : In(f, i)}
  BY DEF Settings
<1> HIDE DEF In
<1>4. 1..Len(t) = 1..Len(s) \cup {Len(s) + 1}
  BY <1>0
<1>5. /\ In(t, Len(s) + 1) => {i \in 1..Len(t) : In(t, i)} =
                                {i \in 1..Len(s) : In(s, i)} \cup {Len(s) + 1}
      /\ ~In(t, Len(s) + 1) => {i \in 1..Len(t) : In(t, i)} = {i \in 1..Len(s) : In(s, i)}
  BY <1>1, <1>4
<1> QED
  BY <1>2, <1>3, <1>5

\* The last setting of a key is one of its settings.
LEMMA LastSetting ==
  ASSUME NEW s \in Seq(Lines), NEW H, NEW block, NEW k, Settings(s, H, block, k) # {}
  PROVE  /\ Max(Settings(s, H, block, k)) \in Settings(s, H, block, k)
         /\ Max(Settings(s, H, block, k)) \in 1..Len(s)
<1>1. Len(s) \in Nat /\ Settings(s, H, block, k) \subseteq 1..Len(s)
  BY DEF Settings
<1>2. Settings(s, H, block, k) \subseteq 0..Len(s)
  BY <1>1
<1> QED
  BY <1>1, <1>2, MaxOf

\* What is said of a key is a text.
LEMMA SaidType ==
  ASSUME NEW s \in Seq(Lines), NEW H, NEW block, NEW k
  PROVE  Said(s, H, block, k) \in Seq(STRING)
<1>1. CASE Settings(s, H, block, k) = {}
  BY <1>1 DEF Said
<1>2. CASE Settings(s, H, block, k) # {}
  BY <1>2, LastSetting, LineTypes DEF Said
<1> QED
  BY <1>1, <1>2

\* The last line that sets a key counts.
LEMMA SaidMore ==
  ASSUME NEW s, NEW l, NEW t, More(s, l, t),
         NEW H, NEW block, NEW k
  PROVE  Said(t, H, block, k) =
           IF Hits(t, H, block, k) THEN l.text ELSE Said(s, H, block, k)
<1> DEFINE S == Settings(s, H, block, k)
           T == Settings(t, H, block, k)
<1>0. /\ Len(s) \in Nat /\ Len(t) = Len(s) + 1 /\ \A j \in 1..Len(s) : t[j] = s[j]
      /\ t[Len(s) + 1] = l /\ S \subseteq 1..Len(s)
  BY OneMore DEF Settings
<1>1. CASE Hits(t, H, block, k)
  <2>1. T = S \cup {Len(s) + 1}
    BY <1>1, SettingsMore
  <2>2. T \subseteq Nat /\ Len(s) + 1 \in T /\ \A y \in T : y <= Len(s) + 1
    BY <1>0, <2>1
  <2>3. Max(T) = Len(s) + 1
    BY <2>2, MaxIs
  <2>4. T # {}
    BY <2>2
  <2> QED
    BY <1>0, <1>1, <2>3, <2>4 DEF Said
<1>2. CASE ~Hits(t, H, block, k)
  <2>1. T = S
    BY <1>2, SettingsMore
  <2>2. S # {} => t[Max(S)] = s[Max(S)]
    BY <1>0, LastSetting, OneMore
  <2> QED
    BY <1>2, <2>1, <2>2 DEF Said
<1> QED
  BY <1>1, <1>2

\* The headings of a file with one more line.
LEMMA HeadingsMore ==
  ASSUME NEW s, NEW l, NEW t, More(s, l, t), NEW x
  PROVE  /\ IsHeading(t, Len(s) + 1) /\ l.name = x =>
              Headings(t, x) = Headings(s, x) \cup {Len(s) + 1}
         /\ ~(IsHeading(t, Len(s) + 1) /\ l.name = x) => Headings(t, x) = Headings(s, x)
<1>0. /\ Len(s) \in Nat /\ Len(t) = Len(s) + 1 /\ \A j \in 1..Len(s) : t[j] = s[j]
      /\ t[Len(s) + 1] = l
  BY OneMore
<1> DEFINE In(f, i) == IsHeading(f, i) /\ f[i].name = x
<1>1. \A i \in 1..Len(s) : In(t, i) <=> In(s, i)
  BY <1>0, OlderLines
<1>2. In(t, Len(s) + 1) <=> IsHeading(t, Len(s) + 1) /\ l.name = x
  BY <1>0
<1>3. \A f : Headings(f, x) = {i \in 1..Len(f) : In(f, i)}
  BY DEF Headings
<1> HIDE DEF In
<1>4. 1..Len(t) = 1..Len(s) \cup {Len(s) + 1}
  BY <1>0
<1>5. /\ In(t, Len(s) + 1) => {i \in 1..Len(t) : In(t, i)} =
                                {i \in 1..Len(s) : In(s, i)} \cup {Len(s) + 1}
      /\ ~In(t, Len(s) + 1) => {i \in 1..Len(t) : In(t, i)} = {i \in 1..Len(s) : In(s, i)}
  BY <1>1, <1>4
<1> QED
  BY <1>2, <1>3, <1>5

\* The last heading of a tool is one of its headings.
LEMMA LastHeading ==
  ASSUME NEW s \in Seq(Lines), NEW x, Headings(s, x) # {}
  PROVE  /\ Max(Headings(s, x)) \in Headings(s, x)
         /\ \A i \in Headings(s, x) : i <= Max(Headings(s, x))
<1>1. Len(s) \in Nat /\ Headings(s, x) \subseteq 1..Len(s)
  BY DEF Headings
<1>2. Headings(s, x) \subseteq 0..Len(s)
  BY <1>1
<1> QED
  BY <1>1, <1>2, MaxOf

\* The section of a tool is headed by a line of the file that has its name.
LEMMA SectionLine ==
  ASSUME NEW s \in Seq(Lines), NEW x, NEW i \in SectionOf(s, x)
  PROVE  i \in 1..Len(s) /\ IsHeading(s, i) /\ s[i].name = x
<1>1. Headings(s, x) # {} /\ i = Max(Headings(s, x))
  BY DEF SectionOf
<1>2. i \in Headings(s, x)
  BY <1>1, LastHeading
<1> QED
  BY <1>2 DEF Headings

\* A further section of a tool replaces the others.
LEMMA SectionMore ==
  ASSUME NEW s, NEW l, NEW t, More(s, l, t), NEW x
  PROVE  SectionOf(t, x) =
           IF IsHeading(t, Len(s) + 1) /\ l.name = x THEN {Len(s) + 1} ELSE SectionOf(s, x)
<1>0. Len(s) \in Nat /\ Headings(s, x) \subseteq 1..Len(s)
  BY DEF Headings
<1>1. CASE IsHeading(t, Len(s) + 1) /\ l.name = x
  <2>1. Headings(t, x) = Headings(s, x) \cup {Len(s) + 1}
    BY <1>1, HeadingsMore
  <2>2. /\ Headings(t, x) \subseteq Nat /\ Len(s) + 1 \in Headings(t, x)
        /\ \A y \in Headings(t, x) : y <= Len(s) + 1
    BY <1>0, <2>1
  <2>3. Max(Headings(t, x)) = Len(s) + 1
    BY <2>2, MaxIs
  <2> QED
    BY <1>1, <2>2, <2>3 DEF SectionOf
<1>2. CASE ~(IsHeading(t, Len(s) + 1) /\ l.name = x)
  <2>1. Headings(t, x) = Headings(s, x)
    BY <1>2, HeadingsMore
  <2> QED
    BY <1>2, <2>1 DEF SectionOf
<1> QED
  BY <1>1, <1>2

\* The sections of the defaults in a file with one more line.
LEMMA DefaultsMore ==
  ASSUME NEW s, NEW l, NEW t, More(s, l, t)
  PROVE  DefaultSections(t) =
           DefaultSections(s) \cup
             (IF l.indent = 0 /\ l.key = "defaults" THEN {Len(s) + 1} ELSE {})
<1>0. /\ Len(s) \in Nat /\ Len(t) = Len(s) + 1 /\ \A j \in 1..Len(s) : t[j] = s[j]
      /\ t[Len(s) + 1] = l
  BY OneMore
<1>1. 1..Len(t) = 1..Len(s) \cup {Len(s) + 1}
  BY <1>0
<1> QED
  BY <1>0, <1>1 DEF DefaultSections

-----------------------------------------------------------------------------
(* What the next line is indented under.                                   *)

\* Line j of s has every later line indented under it.
StaysOpen(s, j) == \A k \in (j + 1)..Len(s) : s[k].indent > s[j].indent

\* Line a is the last one of the top level.
TopAt(s, a) == a \in 1..Len(s) /\ s[a].indent = 0 /\ StaysOpen(s, a)

\* Line b is the last heading under line a; the lines between them are not
\* indented less than b.
HeadingAt(s, a, b) ==
  /\ b \in (a + 1)..Len(s) /\ StaysOpen(s, b) /\ IsHeading(s, b)
  /\ \A j \in (a + 1)..(b - 1) : s[j].indent >= s[b].indent
  /\ \A j \in (b + 1)..Len(s) : ~IsHeading(s, j)

\* Line c opens the block of section b that the last lines are in, if there
\* is one; it is the first of the open lines that look like it.
BlockAt(s, b, c) ==
  /\ c # 0 => c \in (b + 1)..Len(s) /\ HeadsBlock(s[c]) /\ StaysOpen(s, c)
  /\ \A j \in (b + 1)..Len(s) : HeadsBlock(s[j]) /\ StaysOpen(s, j) => c # 0 /\ c <= j

\* The lines that stay open under a further line.
LEMMA OpenMore ==
  ASSUME NEW s, NEW l, NEW t, More(s, l, t)
  PROVE  /\ \A j \in 1..Len(s) :
              StaysOpen(t, j) <=> StaysOpen(s, j) /\ l.indent > s[j].indent
         /\ StaysOpen(t, Len(s) + 1)
         /\ Around(t, Len(s) + 1) =
              {j \in 1..Len(s) : StaysOpen(s, j) /\ l.indent > s[j].indent}
         /\ Around(t, Len(s) + 1) \subseteq 1..Len(s)
         /\ Around(t, Len(s) + 1) \subseteq Nat
         /\ IsFiniteSet(Around(t, Len(s) + 1))
<1>0. /\ Len(s) \in Nat /\ Len(t) = Len(s) + 1 /\ \A j \in 1..Len(s) : t[j] = s[j]
      /\ t[Len(s) + 1] = l
  BY OneMore
<1>1. ASSUME NEW j \in 1..Len(s)
      PROVE  StaysOpen(t, j) <=> StaysOpen(s, j) /\ l.indent > s[j].indent
  <2>1. (j + 1)..Len(t) = (j + 1)..Len(s) \cup {Len(s) + 1}
    BY <1>0
  <2>2. t[j] = s[j] /\ \A k \in (j + 1)..Len(s) : t[k] = s[k]
    BY <1>0
  <2> QED
    BY <1>0, <2>1, <2>2 DEF StaysOpen
<1>2. StaysOpen(t, Len(s) + 1)
  BY <1>0 DEF StaysOpen
<1>3. Around(t, Len(s) + 1) = {j \in 1..Len(s) : StaysOpen(t, j)}
  BY <1>0 DEF Around, StaysOpen
<1>4. /\ Around(t, Len(s) + 1) \subseteq 1..Len(s)
      /\ Around(t, Len(s) + 1) \subseteq Nat
  BY <1>0, <1>3
<1>5. IsFiniteSet(1..Len(s))
  BY <1>0, FS_Interval
<1>6. IsFiniteSet(Around(t, Len(s) + 1))
  BY <1>4, <1>5, FS_Subset
<1> QED
  BY <1>1, <1>2, <1>3, <1>4, <1>6

\* A line of the top level is under nothing.
LEMMA NextTop ==
  ASSUME NEW s, NEW l, NEW t, More(s, l, t), l.indent = 0
  PROVE  /\ Around(t, Len(s) + 1) = {} /\ ~IsHeading(t, Len(s) + 1)
         /\ ~IsSetting(t, Len(s) + 1) /\ TopAt(t, Len(s) + 1)
<1>0. /\ s \in Seq(Lines) /\ Len(s) \in Nat /\ Len(t) = Len(s) + 1
      /\ t[Len(s) + 1] = l
  BY OneMore
<1>1. \A j \in 1..Len(s) : s[j].indent \in Nat
  BY <1>0, LineTypes
<1>2. Around(t, Len(s) + 1) = {}
  BY <1>1, OpenMore
<1> QED
  BY <1>0, <1>2, OpenMore DEF IsHeading, Under, IsSetting, TopAt

\* An indented line is under the last line of the top level first of all.
LEMMA NextUnder ==
  ASSUME NEW s, NEW l, NEW t, More(s, l, t), l.indent > 0, NEW a, TopAt(s, a)
  PROVE  /\ a \in Around(t, Len(s) + 1) /\ Min(Around(t, Len(s) + 1)) = a
         /\ \A top : Under(t, Len(s) + 1, top) <=> s[a].key = top
         /\ TopAt(t, a)
<1>0. /\ s \in Seq(Lines) /\ l \in Lines /\ Len(s) \in Nat /\ Len(t) = Len(s) + 1
      /\ a \in 1..Len(s) /\ a \in 1..Len(t) /\ t[a] = s[a]
  BY OneMore DEF TopAt
<1>1. \A j \in 1..Len(s) : s[j].indent \in Nat
  BY <1>0, LineTypes
<1>2. a \in Around(t, Len(s) + 1)
  BY <1>0, OpenMore DEF TopAt
<1>3. \A j \in Around(t, Len(s) + 1) : j \in Nat /\ a <= j
  <2>0. \A j \in Around(t, Len(s) + 1) : j \in 1..Len(s) /\ StaysOpen(s, j)
    BY OpenMore
  <2> SUFFICES ASSUME NEW j \in Around(t, Len(s) + 1), j < a PROVE FALSE
    BY <1>0, <2>0
  <2>1. j \in 1..Len(s) /\ a \in (j + 1)..Len(s) /\ StaysOpen(s, j)
    BY <1>0, <2>0
  <2>2. s[a].indent > s[j].indent
    BY <2>1 DEF StaysOpen
  <2> QED
    BY <1>1, <2>1, <2>2 DEF TopAt
<1>4. Min(Around(t, Len(s) + 1)) = a
  BY <1>2, <1>3, MinIs
<1>5. \A top : Under(t, Len(s) + 1, top) <=> s[a].key = top
  BY <1>0, <1>2, <1>4 DEF Under
<1>6. TopAt(t, a)
  BY <1>0, OpenMore DEF TopAt
<1> QED
  BY <1>2, <1>4, <1>5, <1>6

\* A line under "tools:" that is not indented under the last heading is the
\* next heading.
LEMMA NextHeading ==
  ASSUME NEW s, NEW l, NEW t, More(s, l, t), l.indent > 0, NEW a, TopAt(s, a),
         s[a].key = "tools",
         a = Len(s) \/ \E b : HeadingAt(s, a, b) /\ s[b].indent >= l.indent
  PROVE  /\ IsHeading(t, Len(s) + 1) /\ ~IsSetting(t, Len(s) + 1)
         /\ HeadingAt(t, a, Len(s) + 1)
<1>0. /\ s \in Seq(Lines) /\ l \in Lines /\ Len(s) \in Nat /\ Len(t) = Len(s) + 1
      /\ a \in 1..Len(s) /\ l.indent \in Nat /\ t[Len(s) + 1] = l
      /\ \A j \in 1..Len(s) : t[j] = s[j] /\ s[j].indent \in Nat
  BY OneMore, LineTypes, LineAssumption DEF TopAt
<1>1. \A j \in (a + 1)..Len(s) : s[j].indent >= l.indent
  <2>1. CASE a = Len(s)
    BY <1>0, <2>1
  <2>2. ASSUME NEW b, HeadingAt(s, a, b), s[b].indent >= l.indent
        PROVE  \A j \in (a + 1)..Len(s) : s[j].indent >= l.indent
    <3>1. b \in 1..Len(s) /\ b > a
      BY <1>0, <2>2 DEF HeadingAt
    <3>2. ASSUME NEW j \in (a + 1)..Len(s) PROVE s[j].indent >= s[b].indent
      <4>1. j < b => s[j].indent >= s[b].indent
        BY <1>0, <2>2, <3>1 DEF HeadingAt
      <4>2. j > b => s[j].indent > s[b].indent
        BY <1>0, <2>2, <3>1 DEF HeadingAt, StaysOpen
      <4>3. j \in 1..Len(s) /\ s[j].indent \in Nat /\ s[b].indent \in Nat
        BY <1>0, <3>1
      <4> QED
        BY <3>1, <4>1, <4>2, <4>3
    <3> QED
      BY <1>0, <2>2, <3>1, <3>2
  <2> QED
    BY <2>1, <2>2
<1>2. Around(t, Len(s) + 1) = {a}
  <2>1. a \in Around(t, Len(s) + 1) /\ Min(Around(t, Len(s) + 1)) = a
    BY NextUnder
  <2>2. Around(t, Len(s) + 1) \subseteq Nat /\ Around(t, Len(s) + 1) \subseteq 1..Len(s)
    BY <1>0, OpenMore
  <2>3. \A j \in Around(t, Len(s) + 1) : a <= j
    BY <2>1, <2>2, MinOf
  <2>4. \A j \in Around(t, Len(s) + 1) : l.indent > s[j].indent
    BY OpenMore
  <2>5. \A j \in Around(t, Len(s) + 1) : ~(j > a)
    BY <1>0, <1>1, <2>2, <2>4
  <2> QED
    BY <1>0, <2>1, <2>2, <2>3, <2>5
<1>3. IsHeading(t, Len(s) + 1)
  BY <1>2, NextUnder, FS_Singleton DEF IsHeading
<1>4. HeadingAt(t, a, Len(s) + 1)
  <2>1. StaysOpen(t, Len(s) + 1)
    BY OpenMore
  <2>2. Len(s) + 1 \in (a + 1)..Len(t) /\ (Len(s) + 2)..Len(t) = {}
    BY <1>0
  <2>3. \A j \in (a + 1)..Len(s) : t[j].indent >= t[Len(s) + 1].indent
    BY <1>0, <1>1
  <2> QED
    BY <1>0, <1>3, <2>1, <2>2, <2>3 DEF HeadingAt
<1> QED
  BY <1>3, <1>4 DEF IsSetting

\* A line indented under the last heading is in its section.
LEMMA NextInTool ==
  ASSUME NEW s, NEW l, NEW t, More(s, l, t), NEW a, TopAt(s, a), s[a].key = "tools",
         NEW b, HeadingAt(s, a, b), s[b].indent < l.indent
  PROVE  /\ ~IsHeading(t, Len(s) + 1) /\ IsSetting(t, Len(s) + 1)
         /\ Home(t, Len(s) + 1) = b /\ HeadingAt(t, a, b)
<1>0. /\ s \in Seq(Lines) /\ l \in Lines /\ Len(s) \in Nat /\ Len(t) = Len(s) + 1
      /\ a \in 1..Len(s) /\ l.indent \in Nat /\ t[Len(s) + 1] = l
      /\ b \in 1..Len(s) /\ b > a
      /\ \A j \in 1..Len(s) : t[j] = s[j] /\ s[j].indent \in Nat
  BY OneMore, LineTypes, LineAssumption DEF TopAt, HeadingAt
<1>1. l.indent > 0
  BY <1>0
<1> DEFINE A == Around(t, Len(s) + 1)
<1>2. a \in A /\ Min(A) = a /\ Under(t, Len(s) + 1, "tools")
  BY <1>1, NextUnder
<1>3. b \in A /\ A \subseteq 1..Len(s) /\ A \subseteq Nat
  <2>1. StaysOpen(s, b)
    BY DEF HeadingAt
  <2> QED
    BY <1>0, <2>1, OpenMore
<1>4. ~IsHeading(t, Len(s) + 1)
  <2>1. IsFiniteSet(A)
    BY OpenMore
  <2>2. ~ \E x : A = {x}
    BY <1>0, <1>2, <1>3
  <2> QED
    BY <2>1, <2>2, FS_Singleton DEF IsHeading
<1>5. \A j \in A \ {a} : b <= j
  <2> SUFFICES ASSUME NEW j \in A, j # a, j < b PROVE FALSE
    BY <1>0, <1>3
  <2>1. j \in 1..Len(s) /\ a <= j
    BY <1>2, <1>3, MinOf
  <2>2. j \in (a + 1)..(b - 1) /\ b \in (j + 1)..Len(s)
    BY <1>0, <2>1
  <2>3. s[j].indent >= s[b].indent
    BY <2>2 DEF HeadingAt
  <2>4. StaysOpen(s, j)
    BY OpenMore
  <2>5. s[b].indent > s[j].indent
    BY <2>2, <2>4 DEF StaysOpen
  <2> QED
    BY <1>0, <2>1, <2>3, <2>5
<1>6. Min(A \ {a}) = b
  <2>1. A \ {a} \subseteq Nat /\ b \in A \ {a}
    BY <1>0, <1>3
  <2> HIDE DEF A
  <2> QED
    BY <1>5, <2>1, MinIs
<1>7. Home(t, Len(s) + 1) = b
  BY <1>2, <1>6 DEF Home
<1>8. HeadingAt(t, a, b)
  <2>1. IsHeading(t, b) /\ \A j \in (b + 1)..Len(s) : ~IsHeading(t, j)
    BY <1>0, OlderLines DEF HeadingAt
  <2>2. \A j \in (b + 1)..Len(t) : ~IsHeading(t, j)
    BY <1>0, <1>4, <2>1
  <2>3. StaysOpen(t, b)
    BY <1>0, OpenMore DEF HeadingAt
  <2> QED
    BY <1>0, <2>1, <2>2, <2>3 DEF HeadingAt
<1> QED
  BY <1>0, <1>1, <1>4, <1>7, <1>8 DEF IsSetting

\* A line indented under "defaults:" is in the section of the defaults.
LEMMA NextInDefaults ==
  ASSUME NEW s, NEW l, NEW t, More(s, l, t), l.indent > 0, NEW a, TopAt(s, a),
         s[a].key = "defaults"
  PROVE  /\ ~IsHeading(t, Len(s) + 1) /\ IsSetting(t, Len(s) + 1)
         /\ Home(t, Len(s) + 1) = a
<1>0. t[Len(s) + 1] = l
  BY OneMore
<1>1. Min(Around(t, Len(s) + 1)) = a /\ ~Under(t, Len(s) + 1, "tools")
  BY NextUnder
<1> QED
  BY <1>0, <1>1 DEF IsHeading, IsSetting, Home

\* The open lines that look like the head of a block come with the block.
LEMMA OpenHeads ==
  ASSUME NEW s, NEW l, NEW t, More(s, l, t), NEW b \in 1..Len(s), NEW c \in Nat,
         BlockAt(s, b, c),
         NEW j \in (b + 1)..Len(s), HeadsBlock(s[j]), StaysOpen(s, j),
         l.indent > s[j].indent
  PROVE  c # 0 /\ c <= j /\ s[c].indent < l.indent
<1>0. /\ s \in Seq(Lines) /\ l \in Lines /\ Len(s) \in Nat /\ l.indent \in Nat
      /\ \A i \in 1..Len(s) : s[i].indent \in Nat
  BY OneMore, LineTypes, LineAssumption
<1>1. c # 0 /\ c <= j
  BY DEF BlockAt
<1>2. c \in (b + 1)..Len(s) /\ StaysOpen(s, c)
  BY <1>1 DEF BlockAt
<1>3. c < j => s[j].indent > s[c].indent
  BY <1>2 DEF StaysOpen
<1>4. s[c].indent \in Nat /\ s[j].indent \in Nat /\ s[c].indent <= s[j].indent
  BY <1>0, <1>1, <1>2, <1>3
<1> QED
  BY <1>0, <1>1, <1>4

\* The next line of a section is in the block that is open around it.
LEMMA NextBlock ==
  ASSUME NEW s, NEW l, NEW t, More(s, l, t), NEW b \in 1..Len(s), NEW c \in Nat,
         BlockAt(s, b, c), Home(t, Len(s) + 1) = b
  PROVE  /\ c # 0 /\ s[c].indent < l.indent => BlockOf(t, Len(s) + 1) = s[c].key
         /\ ~(c # 0 /\ s[c].indent < l.indent) => BlockOf(t, Len(s) + 1) = "scalars"
<1>0. /\ s \in Seq(Lines) /\ Len(s) \in Nat /\ \A i \in 1..Len(s) : t[i] = s[i]
  BY OneMore
<1> DEFINE A == Around(t, Len(s) + 1)
           O == {j \in A : j > b /\ HeadsBlock(t[j])}
<1>1. A = {j \in 1..Len(s) : StaysOpen(s, j) /\ l.indent > s[j].indent}
  BY OpenMore
<1>2. ASSUME NEW j \in O
      PROVE  j \in Nat /\ c # 0 /\ c <= j /\ s[c].indent < l.indent
  <2>1. /\ j \in (b + 1)..Len(s) /\ HeadsBlock(s[j]) /\ StaysOpen(s, j)
        /\ l.indent > s[j].indent
    BY <1>0, <1>1
  <2> QED
    BY <2>1, OpenHeads
<1>3. CASE c # 0 /\ s[c].indent < l.indent
  <2>1. c \in (b + 1)..Len(s) /\ HeadsBlock(s[c]) /\ StaysOpen(s, c)
    BY <1>3 DEF BlockAt
  <2>2. c \in 1..Len(s) /\ c > b /\ t[c] = s[c]
    BY <1>0, <2>1
  <2>3. c \in O
    BY <1>1, <1>3, <2>1, <2>2
  <2>4. O \subseteq Nat /\ O # {}
    BY <1>2, <2>3
  <2>5. Min(O) = c
    <3> HIDE DEF O
    <3> QED
      BY <1>2, <2>3, <2>4, MinIs
  <2> QED
    BY <1>3, <2>2, <2>4, <2>5 DEF BlockOf
<1>4. CASE ~(c # 0 /\ s[c].indent < l.indent)
  <2>1. O = {}
    BY <1>2, <1>4
  <2> QED
    BY <1>4, <2>1 DEF BlockOf
<1> QED
  BY <1>3, <1>4

\* The block that is open after the next line of a section.
LEMMA BlockMore ==
  ASSUME NEW s, NEW l, NEW t, More(s, l, t), NEW b \in 1..Len(s), NEW c \in Nat,
         BlockAt(s, b, c)
  PROVE  /\ c # 0 /\ s[c].indent < l.indent => BlockAt(t, b, c)
         /\ ~(c # 0 /\ s[c].indent < l.indent) /\ HeadsBlock(l) => BlockAt(t, b, Len(s) + 1)
         /\ ~(c # 0 /\ s[c].indent < l.indent) /\ ~HeadsBlock(l) => BlockAt(t, b, 0)
<1>0. /\ s \in Seq(Lines) /\ Len(s) \in Nat /\ Len(t) = Len(s) + 1
      /\ \A i \in 1..Len(s) : t[i] = s[i]
      /\ t[Len(s) + 1] = l
  BY OneMore
<1>1. ASSUME NEW j \in (b + 1)..Len(s), HeadsBlock(t[j]), StaysOpen(t, j)
      PROVE  c # 0 /\ c <= j /\ s[c].indent < l.indent
  <2>1. j \in 1..Len(s) /\ t[j] = s[j]
    BY <1>0
  <2>2. StaysOpen(s, j) /\ l.indent > s[j].indent
    BY <1>1, <2>1, OpenMore
  <2> QED
    BY <1>1, <2>1, <2>2, OpenHeads
<1>2. (b + 1)..Len(t) = (b + 1)..Len(s) \cup {Len(s) + 1}
  BY <1>0
<1>3. CASE c # 0 /\ s[c].indent < l.indent
  <2>1. c \in (b + 1)..Len(s) /\ HeadsBlock(s[c]) /\ StaysOpen(s, c)
    BY <1>3 DEF BlockAt
  <2>2. c \in 1..Len(s) /\ t[c] = s[c] /\ c <= Len(s) + 1
    BY <1>0, <2>1
  <2>3. StaysOpen(t, c)
    BY <1>3, <2>1, <2>2, OpenMore
  <2>4. \A j \in (b + 1)..Len(t) : HeadsBlock(t[j]) /\ StaysOpen(t, j) => c # 0 /\ c <= j
    BY <1>1, <1>2, <1>3, <2>2
  <2>5. BlockAt(t, b, c)
    BY <1>2, <2>1, <2>2, <2>3, <2>4 DEF BlockAt
  <2> QED
    BY <1>3, <2>5
<1>4. CASE ~(c # 0 /\ s[c].indent < l.indent)
  <2>1. \A j \in (b + 1)..Len(s) : ~(HeadsBlock(t[j]) /\ StaysOpen(t, j))
    BY <1>1, <1>4
  <2>2. HeadsBlock(l) => BlockAt(t, b, Len(s) + 1)
    <3>1. StaysOpen(t, Len(s) + 1)
      BY OpenMore
    <3> QED
      BY <1>0, <1>2, <2>1, <3>1 DEF BlockAt
  <2>3. ~HeadsBlock(l) => BlockAt(t, b, 0)
    BY <1>0, <1>2, <2>1 DEF BlockAt
  <2> QED
    BY <1>4, <2>2, <2>3
<1> QED
  BY <1>3, <1>4

\* A section that starts has no block yet.
LEMMA NoBlockYet ==
  ASSUME NEW s \in Seq(Lines)
  PROVE  BlockAt(s, Len(s), 0)
BY DEF BlockAt

-----------------------------------------------------------------------------
(* The loader's variables have their types.                                *)

Keys == {l.name : l \in Lines} \cup {""}

Frames ==
  [indent : Nat, kind : {"defaults", "tools", "tool", "normalize", "rate_limit"}, tool : Keys]

Texts == Seq(STRING)

Maps == UNION {[D -> Texts] : D \in SUBSET STRING}

Policies == [scalar : [Scalars -> Texts], normalize : Maps, rate : [{"rps", "burst"} -> Texts]]

Sections == UNION {[D -> Policies] : D \in SUBSET Keys}

Configs == [defaults : Policies, tools : Sections]

\* Indentation grows along a stack.
Growing(st) == \A i \in 2..Len(st) : st[i].indent > st[i - 1].indent

LoaderTypes ==
  /\ seen \in Seq(Lines) /\ Len(seen) <= MaxLines
  /\ status \in {"reading", "failed", "loaded"}
  /\ stack \in Seq(Frames) /\ Growing(stack)
  /\ config \in Configs

\* A map of transforms stays one.
LEMMA BindMap ==
  ASSUME NEW f \in Maps, NEW k \in STRING, NEW v \in Texts
  PROVE  Bind(f, k, v) \in Maps
<1>1. PICK D \in SUBSET STRING : f \in [D -> Texts]
  BY DEF Maps
<1>2. Bind(f, k, v) \in [D \cup {k} -> Texts]
  BY <1>1 DEF Bind
<1>3. D \cup {k} \in SUBSET STRING
  OBVIOUS
<1> QED
  BY <1>2, <1>3 DEF Maps

\* The sections of a configuration stay sections.
LEMMA BindSection ==
  ASSUME NEW f \in Sections, NEW k \in Keys, NEW v \in Policies
  PROVE  Bind(f, k, v) \in Sections
<1>1. PICK D \in SUBSET Keys : f \in [D -> Policies]
  BY DEF Sections
<1>2. Bind(f, k, v) \in [D \cup {k} -> Policies]
  BY <1>1 DEF Bind
<1>3. D \cup {k} \in SUBSET Keys
  OBVIOUS
<1> QED
  BY <1>2, <1>3 DEF Sections

\* A section of the configuration is a policy.
LEMMA SectionTypes ==
  ASSUME NEW f \in Sections
  PROVE  DOMAIN f \subseteq Keys /\ \A x \in DOMAIN f : f[x] \in Policies
<1>1. PICK D \in SUBSET Keys : f \in [D -> Policies]
  BY DEF Sections
<1> QED
  BY <1>1

\* The empty map and the zero policy.
LEMMA ZeroTypes ==
  /\ <<>> \in Maps /\ <<>> \in Texts /\ <<>> \in Sections /\ ZeroPolicy \in Policies
  /\ DOMAIN (<<>>) = {}
<1>1. <<>> \in Texts /\ DOMAIN (<<>>) = {}
  BY DEF Texts
<1>2. <<>> \in [{} -> Texts] /\ <<>> \in [{} -> Policies]
  BY <1>1
<1>3. {} \in SUBSET STRING /\ {} \in SUBSET Keys
  OBVIOUS
<1>4. <<>> \in Maps /\ <<>> \in Sections
  BY <1>2, <1>3 DEF Maps, Sections
<1>5. ZeroPolicy \in Policies
  BY <1>1, <1>4 DEF ZeroPolicy, Policies
<1> QED
  BY <1>1, <1>4, <1>5

\* The value of a key is a text.
LEMMA ValueTypes ==
  ASSUME NEW k, NEW text \in Texts
  PROVE  ScalarValue(k, text) \in Texts /\ Number(text) \in Texts
BY ZeroTypes DEF ScalarValue, Number

\* The blocks that a line leaves open are those at the bottom of the stack.
LEMMA PoppedIs ==
  ASSUME LoaderTypes, NEW l \in Lines
  PROVE  \E k \in 0..Len(stack) :
           /\ Popped(l) \in Seq(Frames) /\ Len(Popped(l)) = k
           /\ \A i \in 1..k : Popped(l)[i] = stack[i]
           /\ k > 0 => stack[k].indent < l.indent
           /\ \A i \in (k + 1)..Len(stack) : stack[i].indent >= l.indent
<1> DEFINE N == {0} \cup {n \in DOMAIN stack : stack[n].indent < l.indent}
           k == Max(N)
<1>0. stack \in Seq(Frames) /\ Len(stack) \in Nat /\ DOMAIN stack = 1..Len(stack)
  BY DEF LoaderTypes
<1>1. N \subseteq 0..Len(stack) /\ N # {}
  BY <1>0
<1>2. k \in N /\ \A y \in N : y <= k
  <2> HIDE DEF N
  <2> QED
    BY <1>0, <1>1, MaxOf
<1>3. Popped(l) = SubSeq(stack, 1, k)
  BY DEF Popped
<1>4. \A i \in 1..Len(stack) : stack[i].indent \in Nat /\ l.indent \in Nat
  <2>1. \A i \in 1..Len(stack) : stack[i] \in Frames
    BY <1>0
  <2>2. \A f \in Frames : f.indent \in Nat
    BY DEF Frames
  <2> QED
    BY <2>1, <2>2, LineAssumption
<1>5. k \in 0..Len(stack) /\ (k > 0 => stack[k].indent < l.indent)
  BY <1>0, <1>1, <1>2
<1>6. \A i \in (k + 1)..Len(stack) : stack[i].indent >= l.indent
  <2> SUFFICES ASSUME NEW i \in (k + 1)..Len(stack), ~(stack[i].indent >= l.indent)
               PROVE  FALSE
    OBVIOUS
  <2>1. i \in 1..Len(stack) /\ i > k
    BY <1>0, <1>5
  <2>2. i \in N
    BY <1>0, <1>4, <2>1
  <2> QED
    BY <1>2, <1>5, <2>1, <2>2
<1> HIDE DEF k
<1>7. /\ Popped(l) \in Seq(Frames) /\ Len(Popped(l)) = k
      /\ \A i \in 1..k : Popped(l)[i] = stack[i]
  BY <1>0, <1>3, <1>5
<1> QED
  BY <1>5, <1>6, <1>7

\* The stack after a line has its type, whether the line opens a block or not.
LEMMA StackTypes ==
  ASSUME LoaderTypes, NEW l \in Lines
  PROVE  /\ Popped(l) \in Seq(Frames) /\ Growing(Popped(l))
         /\ \A kind \in {"defaults", "tools", "tool", "normalize", "rate_limit"}, tool \in Keys :
              /\ Append(Popped(l), Frame(l.indent, kind, tool)) \in Seq(Frames)
              /\ Growing(Append(Popped(l), Frame(l.indent, kind, tool)))
         /\ Kind(l) # "none" =>
              ToolOf(l) \in Keys /\ Popped(l) # <<>>
<1>1. PICK k \in 0..Len(stack) :
           /\ Popped(l) \in Seq(Frames) /\ Len(Popped(l)) = k
           /\ \A i \in 1..k : Popped(l)[i] = stack[i]
           /\ k > 0 => stack[k].indent < l.indent
           /\ \A i \in (k + 1)..Len(stack) : stack[i].indent >= l.indent
  BY PoppedIs
<1>2. stack \in Seq(Frames) /\ Len(stack) \in Nat /\ Growing(stack) /\ l.indent \in Nat
  BY LineAssumption DEF LoaderTypes
<1>3. Growing(Popped(l))
  <2>1. \A i \in 2..k : Popped(l)[i] = stack[i] /\ Popped(l)[i - 1] = stack[i - 1]
    BY <1>1, <1>2
  <2>2. \A i \in 2..k : stack[i].indent > stack[i - 1].indent
    BY <1>2 DEF Growing
  <2> QED
    BY <1>1, <2>1, <2>2 DEF Growing
<1>4. ASSUME NEW kind \in {"defaults", "tools", "tool", "normalize", "rate_limit"},
             NEW tool \in Keys
      PROVE  /\ Append(Popped(l), Frame(l.indent, kind, tool)) \in Seq(Frames)
             /\ Growing(Append(Popped(l), Frame(l.indent, kind, tool)))
  <2> DEFINE f == Frame(l.indent, kind, tool)
             P == Append(Popped(l), f)
  <2>1. f \in Frames /\ f.indent = l.indent
    BY <1>2 DEF Frame, Frames
  <2> HIDE DEF f
  <2>2. /\ P \in Seq(Frames) /\ Len(P) = k + 1 /\ P[k + 1] = f
        /\ \A i \in 1..k : P[i] = Popped(l)[i]
    BY <1>1, <2>1
  <2>3. \A i \in 2..k : P[i].indent > P[i - 1].indent
    BY <1>1, <1>2, <1>3, <2>2 DEF Growing
  <2>4. k > 0 => P[k + 1].indent > P[k].indent
    <3> SUFFICES ASSUME k > 0 PROVE P[k + 1].indent > P[k].indent
      OBVIOUS
    <3>1. P[k] = stack[k] /\ stack[k] \in Frames
      BY <1>1, <1>2, <2>2
    <3> QED
      BY <1>1, <1>2, <2>1, <2>2, <3>1 DEF Frames
  <2>5. Growing(P)
    <3>1. \A i \in 2..(k + 1) : i \in 2..k \/ (i = k + 1 /\ k > 0 /\ i - 1 = k)
      BY <1>2
    <3> QED
      BY <2>2, <2>3, <2>4, <3>1 DEF Growing
  <2> QED
    BY <2>2, <2>5 DEF f
<1>5. ASSUME Kind(l) # "none" PROVE ToolOf(l) \in Keys /\ Popped(l) # <<>>
  <2>1. Popped(l) # <<>>
    BY <1>5 DEF Kind
  <2>2. Popped(l)[Len(Popped(l))] \in Frames
    BY <1>1, <2>1
  <2> QED
    BY <2>1, <2>2 DEF ToolOf, Last, Frames
<1> QED
  BY <1>1, <1>3, <1>4, <1>5

\* The changes a line makes to a policy and to the configuration.
PutScalar(p, k, v) == [p EXCEPT !.scalar[k] = v]

PutTransforms(p, f, v) == [p EXCEPT !.normalize = Bind(@, f, v)]

PutRate(p, k, v) == [p EXCEPT !.rate[k] = v]

PutSection(cf, x, pol) == [cf EXCEPT !.tools = Bind(@, x, pol)]

PutDefault(cf, k, v) == [cf EXCEPT !.defaults.scalar[k] = v]

\* What writing a section does to a configuration.
LEMMA WithSection ==
  ASSUME NEW cf \in Configs, NEW x \in Keys, NEW pol \in Policies
  PROVE  LET new == PutSection(cf, x, pol)
         IN  /\ new \in Configs /\ new.defaults = cf.defaults
             /\ DOMAIN new.tools = DOMAIN cf.tools \cup {x} /\ new.tools[x] = pol
             /\ \A y \in DOMAIN cf.tools : y # x => new.tools[y] = cf.tools[y]
<1> DEFINE B == Bind(cf.tools, x, pol)
<1>1. cf.defaults \in Policies /\ cf.tools \in Sections
  BY DEF Configs
<1>2. B \in Sections
  BY <1>1, BindSection
<1>3. /\ DOMAIN B = DOMAIN cf.tools \cup {x} /\ B[x] = pol
      /\ \A y \in DOMAIN cf.tools : y # x => B[y] = cf.tools[y]
  BY DEF Bind
<1>4. PutSection(cf, x, pol) = [cf EXCEPT !.tools = B]
  BY DEF PutSection
<1> HIDE DEF B
<1>5. /\ PutSection(cf, x, pol).tools = B /\ PutSection(cf, x, pol).defaults = cf.defaults
      /\ PutSection(cf, x, pol) \in Configs
  BY <1>1, <1>2, <1>4 DEF Configs
<1> QED
  BY <1>3, <1>5

\* What setting a scalar does to a policy.
LEMMA WithScalar ==
  ASSUME NEW p \in Policies, NEW k \in Scalars, NEW v \in Texts
  PROVE  LET q == PutScalar(p, k, v)
         IN  /\ q \in Policies /\ q.scalar[k] = v
             /\ \A j \in Scalars : j # k => q.scalar[j] = p.scalar[j]
             /\ q.normalize = p.normalize /\ q.rate = p.rate
BY DEF Policies, PutScalar

\* What setting a scalar does to the defaults.
LEMMA WithDefault ==
  ASSUME NEW cf \in Configs, NEW k \in Scalars, NEW v \in Texts
  PROVE  LET new == PutDefault(cf, k, v)
         IN  /\ new \in Configs /\ new.tools = cf.tools /\ new.defaults.scalar[k] = v
             /\ \A j \in Scalars : j # k => new.defaults.scalar[j] = cf.defaults.scalar[j]
             /\ new.defaults.normalize = cf.defaults.normalize
<1> DEFINE q == PutScalar(cf.defaults, k, v)
<1>1. cf.defaults \in Policies /\ cf.tools \in Sections
  BY DEF Configs
<1>2. PutDefault(cf, k, v) = [cf EXCEPT !.defaults = q]
  BY DEF PutDefault, PutScalar, Configs
<1>3. /\ q \in Policies /\ q.scalar[k] = v /\ q.normalize = cf.defaults.normalize
      /\ \A j \in Scalars : j # k => q.scalar[j] = cf.defaults.scalar[j]
  BY <1>1, WithScalar
<1> HIDE DEF q
<1>4. /\ PutDefault(cf, k, v).defaults = q /\ PutDefault(cf, k, v).tools = cf.tools
      /\ PutDefault(cf, k, v) \in Configs
  BY <1>1, <1>2, <1>3 DEF Configs
<1> QED
  BY <1>3, <1>4

\* What listing transforms does to a policy.
LEMMA WithTransforms ==
  ASSUME NEW p \in Policies, NEW f \in STRING, NEW v \in Texts
  PROVE  LET q == PutTransforms(p, f, v)
         IN  /\ q \in Policies /\ q.scalar = p.scalar /\ q.rate = p.rate
             /\ DOMAIN q.normalize = DOMAIN p.normalize \cup {f} /\ q.normalize[f] = v
             /\ \A g \in DOMAIN p.normalize : g # f => q.normalize[g] = p.normalize[g]
<1> DEFINE B == Bind(p.normalize, f, v)
<1>1. p.normalize \in Maps
  BY DEF Policies
<1>2. B \in Maps
  BY <1>1, BindMap
<1>3. /\ DOMAIN B = DOMAIN p.normalize \cup {f} /\ B[f] = v
      /\ \A g \in DOMAIN p.normalize : g # f => B[g] = p.normalize[g]
  BY DEF Bind
<1>4. PutTransforms(p, f, v) = [p EXCEPT !.normalize = B]
  BY DEF PutTransforms
<1> HIDE DEF B
<1>5. /\ PutTransforms(p, f, v).normalize = B /\ PutTransforms(p, f, v).scalar = p.scalar
      /\ PutTransforms(p, f, v).rate = p.rate /\ PutTransforms(p, f, v) \in Policies
  BY <1>2, <1>4 DEF Policies
<1> QED
  BY <1>3, <1>5

\* What setting a rate does to a policy.
LEMMA WithRate ==
  ASSUME NEW p \in Policies, NEW k \in {"rps", "burst"}, NEW v \in Texts
  PROVE  LET q == PutRate(p, k, v)
         IN  /\ q \in Policies /\ q.rate[k] = v
             /\ \A j \in {"rps", "burst"} : j # k => q.rate[j] = p.rate[j]
             /\ q.normalize = p.normalize /\ q.scalar = p.scalar
BY DEF Policies, PutRate

\* The section a line writes to is a policy.
LEMMA SectionType ==
  ASSUME config \in Configs, NEW x
  PROVE  Section(x) \in Policies
<1>1. config.tools \in Sections
  BY DEF Configs
<1> QED
  BY <1>1, SectionTypes, ZeroTypes DEF Section

\* A line that opens a block, writes a section or is refused, as the parser
\* sees it.
LEMMA LineTypeStep ==
  ASSUME LoaderTypes, NEW l \in Lines, Len(seen) < MaxLines,
         \/ OpenTop(l) \/ OpenTool(l) \/ OpenBlock(l) \/ SetScalar(l) \/ SetTransforms(l)
         \/ SetRate(l) \/ Reject(l)
  PROVE  LoaderTypes' /\ More(seen, l, seen')
<1>0. /\ seen \in Seq(Lines) /\ status \in {"reading", "failed", "loaded"} /\ config \in Configs
      /\ l.key \in STRING /\ l.text \in Texts /\ MaxLines \in Nat /\ l.name \in Keys /\ "" \in Keys
  BY LineAssumption DEF LoaderTypes, Texts, Keys
<1>1. seen' = Append(seen, l)
  BY DEF OpenTop, OpenTool, OpenBlock, SetScalar, SetTransforms, SetRate, Reject, Push,
         WriteTool, Write
<1>2. seen' \in Seq(Lines) /\ Len(seen') <= MaxLines /\ More(seen, l, seen')
  <2>1. More(seen, l, seen')
    BY <1>0, <1>1 DEF More
  <2>2. seen' \in Seq(Lines) /\ Len(seen') = Len(seen) + 1 /\ Len(seen) \in Nat
    BY <2>1, OneMore
  <2>3. Len(seen') <= MaxLines
    BY <2>2, LineAssumption
  <2> QED
    BY <2>1, <2>2, <2>3
<1>3. status' \in {"reading", "failed", "loaded"}
  BY <1>0 DEF OpenTop, OpenTool, OpenBlock, SetScalar, SetTransforms, SetRate, Reject, Push,
              WriteTool, Write
<1>4. CASE OpenTop(l)
  <2>1. stack' = Append(Popped(l), Frame(l.indent, l.key, "")) /\ config' = config
        /\ l.key \in {"defaults", "tools"}
    BY <1>4 DEF OpenTop, OpensTop, Push
  <2> QED
    BY <1>0, <1>2, <1>3, <2>1, StackTypes DEF LoaderTypes
<1>5. CASE OpenTool(l)
  <2>1. /\ stack' = Append(Popped(l), Frame(l.indent, "tool", l.name))
        /\ config' = PutSection(config, l.name, ZeroPolicy)
    BY <1>5 DEF OpenTool, Push, PutSection
  <2>2. config' \in Configs
    BY <1>0, <2>1, ZeroTypes, WithSection
  <2> QED
    BY <1>0, <1>2, <1>3, <2>1, <2>2, StackTypes DEF LoaderTypes
<1>6. CASE OpenBlock(l)
  <2>1. /\ stack' = Append(Popped(l), Frame(l.indent, l.key, ToolOf(l))) /\ config' = config
        /\ l.key \in {"normalize", "rate_limit"} /\ Kind(l) # "none"
    BY <1>6 DEF OpenBlock, OpensBlock, Push
  <2>2. ToolOf(l) \in Keys
    BY <2>1, StackTypes
  <2> QED
    BY <1>0, <1>2, <1>3, <2>1, <2>2, StackTypes DEF LoaderTypes
<1>7. CASE SetScalar(l)
  <2> DEFINE v == ScalarValue(l.key, l.text)
  <2>1. l.key \in Scalars /\ Kind(l) # "none" /\ stack' = Popped(l)
    BY <1>7 DEF SetScalar, SetsScalar, WriteTool, Write
  <2>2. v \in Texts /\ ToolOf(l) \in Keys
    BY <1>0, <2>1, ValueTypes, StackTypes
  <2>3. \/ config' = PutDefault(config, l.key, v)
        \/ config' = PutSection(config, ToolOf(l), PutScalar(Section(ToolOf(l)), l.key, v))
    BY <1>7 DEF SetScalar, WriteTool, Write, PutDefault, PutSection, PutScalar
  <2> HIDE DEF v
  <2>4. PutScalar(Section(ToolOf(l)), l.key, v) \in Policies
    BY <1>0, <2>1, <2>2, SectionType, WithScalar
  <2>5. /\ PutDefault(config, l.key, v) \in Configs
        /\ PutSection(config, ToolOf(l), PutScalar(Section(ToolOf(l)), l.key, v)) \in Configs
    BY <1>0, <2>1, <2>2, <2>4, WithDefault, WithSection
  <2>6. config' \in Configs
    BY <2>3, <2>5
  <2> QED
    BY <1>2, <1>3, <2>1, <2>6, StackTypes DEF LoaderTypes
<1>8. CASE SetTransforms(l)
  <2> DEFINE pol == PutTransforms(Section(ToolOf(l)), l.key, l.text)
  <2>1. /\ Kind(l) # "none" /\ stack' = Popped(l)
        /\ config' = PutSection(config, ToolOf(l), pol)
    BY <1>8 DEF SetTransforms, SetsTransforms, WriteTool, Write, PutSection, PutTransforms
  <2>2. pol \in Policies /\ ToolOf(l) \in Keys
    BY <1>0, <2>1, SectionType, WithTransforms, StackTypes
  <2> HIDE DEF pol
  <2>3. config' \in Configs
    BY <1>0, <2>1, <2>2, WithSection
  <2> QED
    BY <1>2, <1>3, <2>1, <2>3, StackTypes DEF LoaderTypes
<1>9. CASE SetRate(l)
  <2> DEFINE pol == PutRate(Section(ToolOf(l)), l.key, Number(l.text))
  <2>1. /\ Kind(l) # "none" /\ stack' = Popped(l) /\ l.key \in {"rps", "burst"}
        /\ config' = PutSection(config, ToolOf(l), pol)
    BY <1>9 DEF SetRate, SetsRate, WriteTool, Write, PutSection, PutRate
  <2>2. pol \in Policies /\ ToolOf(l) \in Keys
    BY <1>0, <2>1, ValueTypes, SectionType, WithRate, StackTypes
  <2> HIDE DEF pol
  <2>3. config' \in Configs
    BY <1>0, <2>1, <2>2, WithSection
  <2> QED
    BY <1>2, <1>3, <2>1, <2>3, StackTypes DEF LoaderTypes
<1>10. CASE Reject(l)
  BY <1>0, <1>2, <1>3, <1>10, StackTypes DEF Reject, LoaderTypes
<1> QED
  BY <1>4, <1>5, <1>6, <1>7, <1>8, <1>9, <1>10

-----------------------------------------------------------------------------
(* Which lines opened the blocks of the stack.                             *)

\* The frames of "tools:", of "defaults:", of the section headed by line h and
\* of the block that h opens.
ToolsFrame(f) == f.indent = 0 /\ f.kind = "tools"

NoTool(f) == f.tool = ""

DefaultsFrame(f) == f.indent = 0 /\ f.kind = "defaults" /\ NoTool(f)

SectionFrame(f, h) == f.indent = h.indent /\ f.kind = "tool" /\ f.tool = h.name

BlockFrame(f, h) == f.indent = h.indent /\ f.kind = h.key

\* "tools:" was read, and no heading yet.
AfterTools(s, st, a) ==
  /\ TopAt(s, a) /\ s[a].key = "tools" /\ a = Len(s)
  /\ Len(st) = 1 /\ ToolsFrame(st[1])

\* The last line belongs to the section of the tool headed at b.
InTool(s, st, a, b, c) ==
  /\ TopAt(s, a) /\ s[a].key = "tools" /\ HeadingAt(s, a, b) /\ BlockAt(s, b, c)
  /\ ToolsFrame(st[1]) /\ SectionFrame(st[2], s[b])
  /\ c = 0 => Len(st) = 2
  /\ c # 0 => Len(st) = 3 /\ BlockFrame(st[3], s[c]) /\ st[3].tool = s[b].name

\* The last line belongs to the defaults.
InDefaults(s, st, a, c) ==
  /\ TopAt(s, a) /\ s[a].key = "defaults" /\ BlockAt(s, a, c)
  /\ DefaultsFrame(st[1])
  /\ c = 0 => Len(st) = 1
  /\ c # 0 => Len(st) = 2 /\ BlockFrame(st[2], s[c]) /\ NoTool(st[2])

\* A file that was accepted so far, and its stack.
Standing(s, st) ==
  \/ s = <<>> /\ st = <<>>
  \/ \E a \in Nat : AfterTools(s, st, a)
  \/ \E a, b, c \in Nat : InTool(s, st, a, b, c)
  \/ \E a, c \in Nat : InDefaults(s, st, a, c)

\* The last line of t is a setting in the section at line b.
SetsIn(t, b) ==
  /\ IsSetting(t, Len(t)) /\ ~IsHeading(t, Len(t))
  /\ b \in 1..(Len(t) - 1) /\ Home(t, Len(t)) = b

\* The places where the parser can find the last line l of t.
HeadingPlace(l, t) ==
  \E a \in Nat :
    /\ TopAt(t, a) /\ t[a].key = "tools" /\ HeadingAt(t, a, Len(t))
    /\ ~IsSetting(t, Len(t))
    /\ Len(Popped(l)) = 1 /\ ToolsFrame(Popped(l)[1])

SectionPlace(l, t, a, b) ==
  /\ TopAt(t, a) /\ t[a].key = "tools" /\ HeadingAt(t, a, b) /\ SetsIn(t, b)
  /\ BlockOf(t, Len(t)) = "scalars"
  /\ HeadsBlock(l) => BlockAt(t, b, Len(t))
  /\ ~HeadsBlock(l) => BlockAt(t, b, 0)
  /\ Len(Popped(l)) = 2 /\ ToolsFrame(Popped(l)[1]) /\ SectionFrame(Popped(l)[2], t[b])

DefaultsPlace(l, t, a) ==
  /\ TopAt(t, a) /\ t[a].key = "defaults" /\ SetsIn(t, a) /\ BlockOf(t, Len(t)) = "scalars"
  /\ HeadsBlock(l) => BlockAt(t, a, Len(t))
  /\ ~HeadsBlock(l) => BlockAt(t, a, 0)
  /\ Len(Popped(l)) = 1 /\ DefaultsFrame(Popped(l)[1])

ToolBlockPlace(l, t, a, b, c) ==
  InTool(t, Popped(l), a, b, c) /\ c # 0 /\ SetsIn(t, b) /\ BlockOf(t, Len(t)) = t[c].key

DefaultsBlockPlace(l, t, a, c) ==
  InDefaults(t, Popped(l), a, c) /\ c # 0 /\ SetsIn(t, a) /\ BlockOf(t, Len(t)) = t[c].key

Place(l, t) ==
  \/ Popped(l) = <<>>
  \/ HeadingPlace(l, t)
  \/ \E a, b \in Nat : SectionPlace(l, t, a, b)
  \/ \E a \in Nat : DefaultsPlace(l, t, a)
  \/ \E a, b, c \in Nat : ToolBlockPlace(l, t, a, b, c)
  \/ \E a, c \in Nat : DefaultsBlockPlace(l, t, a, c)

\* A line of the top level closes every block.
LEMMA TopPlace ==
  ASSUME LoaderTypes, NEW l \in Lines, l.indent = 0
  PROVE  Popped(l) = <<>>
<1>1. PICK k \in 0..Len(stack) :
           /\ Popped(l) \in Seq(Frames) /\ Len(Popped(l)) = k
           /\ \A i \in 1..k : Popped(l)[i] = stack[i]
           /\ k > 0 => stack[k].indent < l.indent
           /\ \A i \in (k + 1)..Len(stack) : stack[i].indent >= l.indent
  BY PoppedIs
<1>2. stack \in Seq(Frames)
  BY DEF LoaderTypes
<1>3. k > 0 => stack[k] \in Frames
  BY <1>2
<1>4. k > 0 => stack[k].indent \in Nat
  BY <1>3 DEF Frames
<1>5. k = 0
  BY <1>1, <1>4
<1> QED
  BY <1>1, <1>5

\* The place of an indented line after "tools:".
LEMMA PlaceAfterTools ==
  ASSUME LoaderTypes, NEW l \in Lines, NEW t, More(seen, l, t), l.indent > 0,
         NEW a \in Nat, AfterTools(seen, stack, a)
  PROVE  HeadingPlace(l, t)
<1>1. PICK k \in 0..Len(stack) :
           /\ Popped(l) \in Seq(Frames) /\ Len(Popped(l)) = k
           /\ \A i \in 1..k : Popped(l)[i] = stack[i]
           /\ k > 0 => stack[k].indent < l.indent
           /\ \A i \in (k + 1)..Len(stack) : stack[i].indent >= l.indent
  BY PoppedIs
<1>2. l.indent \in Nat /\ Len(stack) = 1 /\ stack[1].indent = 0
  BY LineAssumption DEF AfterTools, ToolsFrame
<1>3. k = 1
  BY <1>1, <1>2
<1>4. /\ IsHeading(t, Len(seen) + 1) /\ ~IsSetting(t, Len(seen) + 1)
      /\ HeadingAt(t, a, Len(seen) + 1) /\ TopAt(t, a)
  BY NextHeading, NextUnder DEF AfterTools
<1>5. Len(t) = Len(seen) + 1 /\ t[a] = seen[a]
  BY OneMore DEF AfterTools, TopAt
<1>6. Popped(l)[1] = stack[1]
  BY <1>1, <1>3
<1> QED
  BY <1>1, <1>3, <1>4, <1>5, <1>6 DEF HeadingPlace, AfterTools

\* The place of an indented line after the heading of a tool.
LEMMA PlaceInTool ==
  ASSUME LoaderTypes, NEW l \in Lines, NEW t, More(seen, l, t), l.indent > 0,
         NEW a \in Nat, NEW b \in Nat, NEW c \in Nat, InTool(seen, stack, a, b, c)
  PROVE  \/ HeadingPlace(l, t)
         \/ SectionPlace(l, t, a, b)
         \/ ToolBlockPlace(l, t, a, b, c)
<1>1. PICK k \in 0..Len(stack) :
           /\ Popped(l) \in Seq(Frames) /\ Len(Popped(l)) = k
           /\ \A i \in 1..k : Popped(l)[i] = stack[i]
           /\ k > 0 => stack[k].indent < l.indent
           /\ \A i \in (k + 1)..Len(stack) : stack[i].indent >= l.indent
  BY PoppedIs
<1>2. /\ TopAt(seen, a) /\ seen[a].key = "tools" /\ HeadingAt(seen, a, b)
      /\ BlockAt(seen, b, c)
      /\ ToolsFrame(stack[1]) /\ SectionFrame(stack[2], seen[b])
      /\ c = 0 => Len(stack) = 2
      /\ c # 0 => Len(stack) = 3 /\ BlockFrame(stack[3], seen[c]) /\ stack[3].tool = seen[b].name
  BY DEF InTool
<1>3. /\ l.indent \in Nat /\ stack[1].indent = 0 /\ stack[2].indent = seen[b].indent
      /\ c # 0 => stack[3].indent = seen[c].indent
  BY <1>2, LineAssumption DEF ToolsFrame, SectionFrame, BlockFrame
<1>4. /\ seen \in Seq(Lines) /\ Len(seen) \in Nat /\ Len(t) = Len(seen) + 1
      /\ \A i \in 1..Len(seen) : t[i] = seen[i]
  BY OneMore
<1>5. a \in 1..Len(seen) /\ b \in 1..Len(seen) /\ b > a /\ (c # 0 => c \in 1..Len(seen))
  BY <1>2, <1>4 DEF TopAt, HeadingAt, BlockAt
<1>6. t[a] = seen[a] /\ t[b] = seen[b] /\ (c # 0 => t[c] = seen[c])
  BY <1>4, <1>5
<1>7. seen[b].indent \in Nat /\ (c # 0 => seen[c].indent \in Nat)
  BY <1>4, <1>5, LineTypes
<1>8. TopAt(t, a)
  BY <1>2, NextUnder
<1>9. k \in Nat /\ k <= Len(stack) /\ k # 0
  BY <1>1, <1>2, <1>3
<1>10. CASE k = 1
  <2>1. seen[b].indent >= l.indent
    BY <1>1, <1>2, <1>3, <1>10
  <2>2. /\ ~IsSetting(t, Len(seen) + 1) /\ HeadingAt(t, a, Len(seen) + 1)
    BY <1>2, <2>1, NextHeading
  <2>3. Popped(l)[1] = stack[1] /\ Len(Popped(l)) = 1
    BY <1>1, <1>10
  <2>4. HeadingPlace(l, t)
    BY <1>2, <1>4, <1>6, <1>8, <2>2, <2>3 DEF HeadingPlace
  <2> QED
    BY <2>4
<1>11. CASE k >= 2
  <2>0. Popped(l)[1] = stack[1] /\ Popped(l)[2] = stack[2] /\ Len(Popped(l)) = k
    BY <1>1, <1>11
  <2>a. k = 2 \/ (k = 3 /\ c # 0)
    <3>1. CASE c = 0
      <4>1. Len(stack) = 2
        BY <1>2, <3>1
      <4> QED
        BY <1>9, <1>11, <4>1
    <3>2. CASE c # 0
      <4>1. Len(stack) = 3
        BY <1>2, <3>2
      <4> QED
        BY <1>9, <1>11, <3>2, <4>1
    <3> QED
      BY <3>1, <3>2
  <2>1. seen[b].indent < l.indent
    <3>1. CASE k = 2
      BY <1>1, <1>3, <3>1
    <3>2. CASE k = 3 /\ c # 0
      <4>0. Growing(stack) /\ Len(stack) = 3
        BY <1>2, <3>2 DEF LoaderTypes
      <4>1. stack[3].indent > stack[2].indent
        BY <4>0 DEF Growing
      <4> QED
        BY <1>1, <1>3, <1>7, <3>2, <4>1
    <3> QED
      BY <2>a, <3>1, <3>2
  <2>2. /\ ~IsHeading(t, Len(t)) /\ IsSetting(t, Len(t)) /\ Home(t, Len(t)) = b
        /\ HeadingAt(t, a, b)
    BY <1>2, <1>4, <2>1, NextInTool
  <2>3. CASE k = 2
    <3>1. ~(c # 0 /\ seen[c].indent < l.indent)
      BY <1>1, <1>2, <1>3, <1>7, <2>3
    <3>2. BlockOf(t, Len(t)) = "scalars"
      BY <1>2, <1>4, <1>5, <2>2, <3>1, NextBlock
    <3>3. /\ HeadsBlock(l) => BlockAt(t, b, Len(t))
          /\ ~HeadsBlock(l) => BlockAt(t, b, 0)
      BY <1>2, <1>4, <1>5, <3>1, BlockMore
    <3>4. SetsIn(t, b)
      BY <1>4, <1>5, <2>2, <3>2 DEF SetsIn
    <3>5. SectionPlace(l, t, a, b)
      BY <1>2, <1>6, <1>8, <2>0, <2>2, <2>3, <3>2, <3>3, <3>4 DEF SectionPlace
    <3> QED
      BY <3>5
  <2>4. CASE k = 3
    <3>1. c # 0 /\ seen[c].indent < l.indent
      BY <1>1, <1>2, <1>3, <2>4
    <3>2. BlockOf(t, Len(t)) = seen[c].key
      BY <1>2, <1>4, <1>5, <2>2, <3>1, NextBlock
    <3>3. BlockAt(t, b, c)
      BY <1>2, <1>5, <3>1, BlockMore
    <3>4. SetsIn(t, b)
      BY <1>4, <1>5, <2>2 DEF SetsIn
    <3>5. Popped(l)[3] = stack[3]
      BY <1>1, <2>4
    <3>6. InTool(t, Popped(l), a, b, c)
      BY <1>2, <1>6, <1>8, <2>0, <2>2, <2>4, <3>1, <3>3, <3>5 DEF InTool
    <3>7. ToolBlockPlace(l, t, a, b, c)
      BY <1>6, <3>1, <3>2, <3>4, <3>6 DEF ToolBlockPlace
    <3> QED
      BY <3>7
  <2> QED
    BY <2>a, <2>3, <2>4
<1> QED
  BY <1>9, <1>10, <1>11

\* The place of an indented line after "defaults:".
LEMMA PlaceInDefaults ==
  ASSUME LoaderTypes, NEW l \in Lines, NEW t, More(seen, l, t), l.indent > 0,
         NEW a \in Nat, NEW c \in Nat, InDefaults(seen, stack, a, c)
  PROVE  DefaultsPlace(l, t, a) \/ DefaultsBlockPlace(l, t, a, c)
<1>1. PICK k \in 0..Len(stack) :
           /\ Popped(l) \in Seq(Frames) /\ Len(Popped(l)) = k
           /\ \A i \in 1..k : Popped(l)[i] = stack[i]
           /\ k > 0 => stack[k].indent < l.indent
           /\ \A i \in (k + 1)..Len(stack) : stack[i].indent >= l.indent
  BY PoppedIs
<1>2. /\ TopAt(seen, a) /\ seen[a].key = "defaults" /\ BlockAt(seen, a, c)
      /\ DefaultsFrame(stack[1])
      /\ c = 0 => Len(stack) = 1
      /\ c # 0 => Len(stack) = 2 /\ BlockFrame(stack[2], seen[c]) /\ NoTool(stack[2])
  BY DEF InDefaults
<1>3. /\ l.indent \in Nat /\ stack[1].indent = 0
      /\ c # 0 => stack[2].indent = seen[c].indent
  BY <1>2, LineAssumption DEF DefaultsFrame, BlockFrame
<1>4. /\ seen \in Seq(Lines) /\ Len(seen) \in Nat /\ Len(t) = Len(seen) + 1
      /\ \A i \in 1..Len(seen) : t[i] = seen[i]
  BY OneMore
<1>5. a \in 1..Len(seen) /\ (c # 0 => c \in 1..Len(seen))
  BY <1>2, <1>4 DEF TopAt, BlockAt
<1>6. t[a] = seen[a] /\ (c # 0 => t[c] = seen[c])
  BY <1>4, <1>5
<1>7. c # 0 => seen[c].indent \in Nat
  BY <1>4, <1>5, LineTypes
<1>8. TopAt(t, a)
  BY <1>2, NextUnder
<1>9. /\ ~IsHeading(t, Len(t)) /\ IsSetting(t, Len(t)) /\ Home(t, Len(t)) = a
  BY <1>2, <1>4, NextInDefaults
<1>10. k \in Nat /\ k <= Len(stack) /\ k # 0
  BY <1>1, <1>2, <1>3
<1>a. Popped(l)[1] = stack[1] /\ Len(Popped(l)) = k
  BY <1>1, <1>10
<1>11. CASE k = 1
  <2>1. ~(c # 0 /\ seen[c].indent < l.indent)
    BY <1>1, <1>2, <1>3, <1>7, <1>11
  <2>2. BlockOf(t, Len(t)) = "scalars"
    BY <1>2, <1>4, <1>5, <1>9, <2>1, NextBlock
  <2>3. /\ HeadsBlock(l) => BlockAt(t, a, Len(t))
        /\ ~HeadsBlock(l) => BlockAt(t, a, 0)
    BY <1>2, <1>4, <1>5, <2>1, BlockMore
  <2>4. SetsIn(t, a)
    BY <1>4, <1>5, <1>9 DEF SetsIn
  <2>5. DefaultsPlace(l, t, a)
    BY <1>2, <1>6, <1>8, <1>a, <1>11, <2>2, <2>3, <2>4 DEF DefaultsPlace
  <2> QED
    BY <2>5
<1>12. CASE k = 2
  <2>1. c # 0 /\ seen[c].indent < l.indent
    BY <1>1, <1>2, <1>3, <1>12
  <2>2. BlockOf(t, Len(t)) = seen[c].key
    BY <1>2, <1>4, <1>5, <1>9, <2>1, NextBlock
  <2>3. BlockAt(t, a, c)
    BY <1>2, <1>5, <2>1, BlockMore
  <2>4. SetsIn(t, a)
    BY <1>4, <1>5, <1>9 DEF SetsIn
  <2>5. Popped(l)[2] = stack[2]
    BY <1>1, <1>12
  <2>6. InDefaults(t, Popped(l), a, c)
    BY <1>2, <1>6, <1>8, <1>a, <1>12, <2>1, <2>3, <2>5 DEF InDefaults
  <2>7. DefaultsBlockPlace(l, t, a, c)
    BY <1>6, <2>1, <2>2, <2>4, <2>6 DEF DefaultsBlockPlace
  <2> QED
    BY <2>7
<1>13. Len(stack) = 1 \/ Len(stack) = 2
  BY <1>2
<1>14. k = 1 \/ k = 2
  <2>1. CASE Len(stack) = 1
    BY <1>10, <2>1
  <2>2. CASE Len(stack) = 2
    BY <1>10, <2>2
  <2> QED
    BY <1>13, <2>1, <2>2
<1> QED
  BY <1>11, <1>12, <1>14

\* The parser finds every line in its place.
LEMMA Placed ==
  ASSUME LoaderTypes, Standing(seen, stack), NEW l \in Lines, NEW t, More(seen, l, t)
  PROVE  Place(l, t)
<1>1. l.indent \in Nat
  BY LineAssumption
<1>2. CASE l.indent = 0
  BY <1>2, TopPlace DEF Place
<1>3. CASE l.indent > 0
  <2>1. CASE stack = <<>>
    <3>1. Popped(l) = <<>>
      BY <2>1, PoppedIs
    <3> QED
      BY <3>1 DEF Place
  <2>2. ASSUME NEW a \in Nat, AfterTools(seen, stack, a) PROVE Place(l, t)
    BY <1>3, <2>2, PlaceAfterTools DEF Place
  <2>3. ASSUME NEW a \in Nat, NEW b \in Nat, NEW c \in Nat, InTool(seen, stack, a, b, c)
        PROVE  Place(l, t)
    BY <1>3, <2>3, PlaceInTool DEF Place
  <2>4. ASSUME NEW a \in Nat, NEW c \in Nat, InDefaults(seen, stack, a, c) PROVE Place(l, t)
    BY <1>3, <2>4, PlaceInDefaults DEF Place
  <2> QED
    BY <2>1, <2>2, <2>3, <2>4 DEF Standing
<1> QED
  BY <1>1, <1>2, <1>3

\* The top of the stack tells where a line is.
LEMMA Located ==
  ASSUME LoaderTypes, NEW l \in Lines, NEW t, Place(l, t)
  PROVE  /\ Kind(l) = "tools" => HeadingPlace(l, t)
         /\ Kind(l) = "tool" =>
              \E a, b \in Nat : SectionPlace(l, t, a, b) /\ ToolOf(l) = t[b].name
         /\ Kind(l) = "defaults" => \E a \in Nat : DefaultsPlace(l, t, a)
         /\ Kind(l) \in {"normalize", "rate_limit"} =>
              \/ \E a, b, c \in Nat : /\ ToolBlockPlace(l, t, a, b, c)
                                      /\ ToolOf(l) = t[b].name /\ Kind(l) = t[c].key
              \/ \E a, c \in Nat : /\ DefaultsBlockPlace(l, t, a, c)
                                   /\ ToolOf(l) \notin Tools /\ Kind(l) = t[c].key
<1> DEFINE P == Popped(l)
           top == P[Len(P)]
<1>0. P \in Seq(Frames)
  BY StackTypes
<1>1. P # <<>> => Kind(l) = top.kind /\ ToolOf(l) = top.tool
  BY DEF Kind, ToolOf, Last
<1>2. P = <<>> => Kind(l) = "none"
  BY DEF Kind
<1>3. ASSUME HeadingPlace(l, t) PROVE Kind(l) = "tools"
  <2>1. Len(P) = 1 /\ P[1].kind = "tools"
    BY <1>3 DEF HeadingPlace, ToolsFrame
  <2>2. P # <<>>
    <3>1. Len(P) = 1
      BY <2>1
    <3> QED
      BY <3>1
  <2> QED
    BY <1>1, <2>1, <2>2
<1>4. ASSUME NEW a \in Nat, NEW b \in Nat, SectionPlace(l, t, a, b)
      PROVE  Kind(l) = "tool" /\ ToolOf(l) = t[b].name
  <2>1. Len(P) = 2 /\ P[2].kind = "tool" /\ P[2].tool = t[b].name
    BY <1>4 DEF SectionPlace, SectionFrame
  <2>2. P # <<>>
    <3>1. Len(P) = 2
      BY <2>1
    <3> QED
      BY <3>1
  <2> QED
    BY <1>1, <2>1, <2>2
<1>5. ASSUME NEW a \in Nat, DefaultsPlace(l, t, a) PROVE Kind(l) = "defaults"
  <2>1. Len(P) = 1 /\ P[1].kind = "defaults"
    BY <1>5 DEF DefaultsPlace, DefaultsFrame
  <2>2. P # <<>>
    <3>1. Len(P) = 1
      BY <2>1
    <3> QED
      BY <3>1
  <2> QED
    BY <1>1, <2>1, <2>2
<1>6. ASSUME NEW a \in Nat, NEW b \in Nat, NEW c \in Nat, ToolBlockPlace(l, t, a, b, c)
      PROVE  /\ Kind(l) = t[c].key /\ ToolOf(l) = t[b].name
             /\ Kind(l) \in {"normalize", "rate_limit"}
  <2>1. /\ Len(P) = 3 /\ P[3].kind = t[c].key /\ P[3].tool = t[b].name
        /\ BlockAt(t, b, c) /\ c # 0
    BY <1>6 DEF ToolBlockPlace, InTool, BlockFrame
  <2>2. P # <<>>
    <3>1. Len(P) = 3
      BY <2>1
    <3> QED
      BY <3>1
  <2>3. t[c].key \in {"normalize", "rate_limit"}
    BY <2>1 DEF BlockAt, HeadsBlock
  <2> QED
    BY <1>1, <2>1, <2>2, <2>3
<1>7. ASSUME NEW a \in Nat, NEW c \in Nat, DefaultsBlockPlace(l, t, a, c)
      PROVE  /\ Kind(l) = t[c].key /\ ToolOf(l) \notin Tools
             /\ Kind(l) \in {"normalize", "rate_limit"}
  <2>1. /\ Len(P) = 2 /\ P[2].kind = t[c].key /\ NoTool(P[2])
        /\ BlockAt(t, a, c) /\ c # 0
    BY <1>7 DEF DefaultsBlockPlace, InDefaults, BlockFrame
  <2>2. P # <<>>
    <3>1. Len(P) = 2
      BY <2>1
    <3> QED
      BY <3>1
  <2>3. t[c].key \in {"normalize", "rate_limit"}
    BY <2>1 DEF BlockAt, HeadsBlock
  <2>4. P[2].tool \notin Tools
    BY <2>1, ToolAssumption, Zenon DEF NoTool
  <2> QED
    BY <1>1, <2>1, <2>2, <2>3, <2>4
<1>8. CASE P = <<>>
  BY <1>2, <1>8
<1>9. CASE HeadingPlace(l, t)
  BY <1>3, <1>9
<1>10. CASE \E a, b \in Nat : SectionPlace(l, t, a, b)
  BY <1>4, <1>10
<1>11. CASE \E a \in Nat : DefaultsPlace(l, t, a)
  BY <1>5, <1>11
<1>12. CASE \E a, b, c \in Nat : ToolBlockPlace(l, t, a, b, c)
  <2>1. PICK a, b, c \in Nat : ToolBlockPlace(l, t, a, b, c)
    BY <1>12
  <2>2. /\ Kind(l) = t[c].key /\ ToolOf(l) = t[b].name
        /\ Kind(l) \in {"normalize", "rate_limit"}
    BY <1>6, <2>1
  <2> QED
    BY <2>1, <2>2
<1>13. CASE \E a, c \in Nat : DefaultsBlockPlace(l, t, a, c)
  <2>1. PICK a, c \in Nat : DefaultsBlockPlace(l, t, a, c)
    BY <1>13
  <2>2. /\ Kind(l) = t[c].key /\ ToolOf(l) \notin Tools
        /\ Kind(l) \in {"normalize", "rate_limit"}
    BY <1>7, <2>1
  <2> QED
    BY <2>1, <2>2
<1> QED
  BY <1>8, <1>9, <1>10, <1>11, <1>12, <1>13 DEF Place

\* The stack with one more frame.
LEMMA PushIs ==
  ASSUME NEW p \in Seq(Frames), NEW f
  PROVE  /\ Len(Append(p, f)) = Len(p) + 1 /\ Append(p, f)[Len(p) + 1] = f
         /\ \A i \in 1..Len(p) : Append(p, f)[i] = p[i]
<1>1. p \in Seq(Frames \cup {f}) /\ f \in Frames \cup {f}
  OBVIOUS
<1> QED
  BY <1>1

\* A line of the top level starts a standing file anew.
LEMMA StandingTop ==
  ASSUME LoaderTypes, NEW l \in Lines, NEW t, More(seen, l, t), OpensTop(l),
         NEW f, BlockFrame(f, l), NoTool(f), NEW st, st = Append(Popped(l), f)
  PROVE  Standing(t, st)
<1> DEFINE n == Len(t)
<1>0. l.indent = 0 /\ l.key \in {"defaults", "tools"}
  BY DEF OpensTop
<1>1. Popped(l) = <<>>
  BY <1>0, TopPlace
<1>2. Len(st) = 1 /\ st[1] = f
  BY <1>1
<1>a. t[n] = l /\ n \in Nat /\ n = Len(seen) + 1 /\ t \in Seq(Lines)
  BY OneMore
<1>b. TopAt(t, n)
  BY <1>0, <1>a, NextTop
<1>3. TopAt(t, n) /\ t[n] = l /\ n \in Nat /\ BlockAt(t, n, 0)
  BY <1>a, <1>b, NoBlockYet
<1>4. CASE l.key = "tools"
  <2>1. AfterTools(t, st, n)
    BY <1>0, <1>2, <1>3, <1>4 DEF AfterTools, ToolsFrame, BlockFrame
  <2> QED
    BY <1>3, <2>1 DEF Standing
<1>5. CASE l.key = "defaults"
  <2>1. InDefaults(t, st, n, 0)
    BY <1>0, <1>2, <1>3, <1>5 DEF InDefaults, DefaultsFrame, BlockFrame
  <2> QED
    BY <1>3, <2>1 DEF Standing
<1> QED
  BY <1>0, <1>4, <1>5

\* So does the heading of a tool.
LEMMA StandingTool ==
  ASSUME LoaderTypes, NEW l \in Lines, NEW t, More(seen, l, t), HeadingPlace(l, t),
         NEW f, SectionFrame(f, l), NEW st, st = Append(Popped(l), f)
  PROVE  Standing(t, st)
<1> DEFINE n == Len(t)
<1>0. Popped(l) \in Seq(Frames) /\ n \in Nat /\ t[n] = l /\ t \in Seq(Lines)
  BY StackTypes, OneMore
<1>1. PICK a \in Nat : /\ TopAt(t, a) /\ t[a].key = "tools" /\ HeadingAt(t, a, n)
                       /\ Len(Popped(l)) = 1 /\ ToolsFrame(Popped(l)[1])
  BY DEF HeadingPlace
<1>3. Len(st) = 2 /\ st[1] = Popped(l)[1] /\ st[2] = f
  <2>1. Popped(l) \in Seq(Frames) /\ st = Append(Popped(l), f)
    BY <1>0, <1>1
  <2>2. /\ Len(st) = Len(Popped(l)) + 1 /\ st[Len(Popped(l)) + 1] = f
      /\ \A i \in 1..Len(Popped(l)) : st[i] = Popped(l)[i]
    BY <2>1, PushIs
  <2>3. Len(Popped(l)) = 1
    BY <1>1
  <2> QED
    BY <2>2, <2>3
<1>4. BlockAt(t, n, 0)
  BY <1>0, NoBlockYet
<1>5. InTool(t, st, a, n, 0)
  BY <1>0, <1>1, <1>3, <1>4 DEF InTool
<1> QED
  BY <1>0, <1>5 DEF Standing

\* A block of a section, or a setting of it, in the section of a tool.
LEMMA StandingSection ==
  ASSUME LoaderTypes, NEW l \in Lines, NEW t, More(seen, l, t),
         NEW a \in Nat, NEW b \in Nat, SectionPlace(l, t, a, b), NEW st,
         NEW f, BlockFrame(f, l), f.tool = t[b].name,
         \/ HeadsBlock(l) /\ st = Append(Popped(l), f)
         \/ ~HeadsBlock(l) /\ st = Popped(l)
  PROVE  Standing(t, st)
<1> DEFINE n == Len(t)
<1>0. Popped(l) \in Seq(Frames) /\ n \in Nat /\ n # 0 /\ t[n] = l /\ t \in Seq(Lines)
  BY StackTypes, OneMore
<1>1. /\ TopAt(t, a) /\ t[a].key = "tools" /\ HeadingAt(t, a, b)
      /\ Len(Popped(l)) = 2 /\ ToolsFrame(Popped(l)[1]) /\ SectionFrame(Popped(l)[2], t[b])
  BY DEF SectionPlace
<1>2. CASE HeadsBlock(l) /\ st = Append(Popped(l), f)
  <2>2. Len(st) = 3 /\ st[1] = Popped(l)[1] /\ st[2] = Popped(l)[2] /\ st[3] = f
    <3>1. Popped(l) \in Seq(Frames) /\ st = Append(Popped(l), f)
      BY <1>0, <1>1, <1>2
    <3>2. /\ Len(st) = Len(Popped(l)) + 1 /\ st[Len(Popped(l)) + 1] = f
        /\ \A i \in 1..Len(Popped(l)) : st[i] = Popped(l)[i]
      BY <3>1, PushIs
    <3>3. Len(Popped(l)) = 2
      BY <1>1
    <3> QED
      BY <3>2, <3>3
  <2>3. BlockAt(t, b, n)
    BY <1>2 DEF SectionPlace
  <2>4. InTool(t, st, a, b, n)
    BY <1>0, <1>1, <2>2, <2>3 DEF InTool
  <2> QED
    BY <1>0, <2>4 DEF Standing
<1>3. CASE ~HeadsBlock(l) /\ st = Popped(l)
  <2>1. BlockAt(t, b, 0)
    BY <1>3 DEF SectionPlace
  <2>2. InTool(t, st, a, b, 0)
    BY <1>1, <1>3, <2>1 DEF InTool
  <2> QED
    BY <2>2 DEF Standing
<1> QED
  BY <1>2, <1>3

\* The same in the defaults.
LEMMA StandingDefaults ==
  ASSUME LoaderTypes, NEW l \in Lines, NEW t, More(seen, l, t),
         NEW a \in Nat, DefaultsPlace(l, t, a), NEW st,
         NEW f, BlockFrame(f, l), f.tool = ToolOf(l),
         \/ HeadsBlock(l) /\ st = Append(Popped(l), f)
         \/ ~HeadsBlock(l) /\ st = Popped(l)
  PROVE  Standing(t, st)
<1> DEFINE n == Len(t)
<1>0. Popped(l) \in Seq(Frames) /\ n \in Nat /\ n # 0 /\ t[n] = l /\ t \in Seq(Lines)
  BY StackTypes, OneMore
<1>1. /\ TopAt(t, a) /\ t[a].key = "defaults"
      /\ Len(Popped(l)) = 1 /\ DefaultsFrame(Popped(l)[1])
  BY DEF DefaultsPlace
<1>2. CASE HeadsBlock(l) /\ st = Append(Popped(l), f)
  <2>1. f.tool = Popped(l)[1].tool
    BY <1>1 DEF ToolOf, Last
  <2>a. NoTool(f)
    BY <1>1, <2>1, Zenon DEF NoTool, DefaultsFrame
  <2>2. Len(st) = 2 /\ st[1] = Popped(l)[1] /\ st[2] = f
    <3>1. Popped(l) \in Seq(Frames) /\ st = Append(Popped(l), f)
      BY <1>0, <1>1, <1>2
    <3>2. /\ Len(st) = Len(Popped(l)) + 1 /\ st[Len(Popped(l)) + 1] = f
        /\ \A i \in 1..Len(Popped(l)) : st[i] = Popped(l)[i]
      BY <3>1, PushIs
    <3>3. Len(Popped(l)) = 1
      BY <1>1
    <3> QED
      BY <3>2, <3>3
  <2>3. BlockAt(t, a, n)
    BY <1>2 DEF DefaultsPlace
  <2>4. InDefaults(t, st, a, n)
    BY <1>0, <1>1, <2>1, <2>a, <2>2, <2>3 DEF InDefaults
  <2> QED
    BY <1>0, <2>4 DEF Standing
<1>3. CASE ~HeadsBlock(l) /\ st = Popped(l)
  <2>1. BlockAt(t, a, 0)
    BY <1>3 DEF DefaultsPlace
  <2>2. InDefaults(t, st, a, 0)
    BY <1>1, <1>3, <2>1 DEF InDefaults
  <2> QED
    BY <2>2 DEF Standing
<1> QED
  BY <1>2, <1>3

-----------------------------------------------------------------------------
(* What one more line adds to what a file says.                            *)

\* Every setting is in a section that an older line heads.
Homes(s) == \A i \in 1..Len(s) : IsSetting(s, i) => Home(s, i) \in 1..(i - 1)

\* The file t says of the sections at H what s says.
Same(s, t, H) ==
  \A block, k : /\ Said(t, H, block, k) = Said(s, H, block, k)
                /\ Settings(t, H, block, k) = Settings(s, H, block, k)

\* The sections at H are empty.
Blank(s, H) == \A block, k : Settings(s, H, block, k) = {} /\ Said(s, H, block, k) = <<>>

\* A line that sets nothing leaves everything as it is.
LEMMA NoSetting ==
  ASSUME NEW s, NEW l, NEW t, More(s, l, t), ~IsSetting(t, Len(t)), NEW H
  PROVE  Same(s, t, H)
<1>1. \A block, k : ~Hits(t, H, block, k)
  BY DEF Hits
<1>2. \A block, k : Settings(t, H, block, k) = Settings(s, H, block, k)
  BY <1>1, SettingsMore
<1>3. \A block, k : Said(t, H, block, k) = Said(s, H, block, k)
  BY <1>1, SaidMore
<1> QED
  BY <1>2, <1>3 DEF Same

\* A setting of another section does neither.
LEMMA OtherSetting ==
  ASSUME NEW s, NEW l, NEW t, More(s, l, t), NEW b, SetsIn(t, b), NEW H, b \notin H
  PROVE  Same(s, t, H)
<1>1. \A block, k : ~Hits(t, H, block, k)
  BY DEF Hits, SetsIn
<1>2. \A block, k : Settings(t, H, block, k) = Settings(s, H, block, k)
  BY <1>1, SettingsMore
<1>3. \A block, k : Said(t, H, block, k) = Said(s, H, block, k)
  BY <1>1, SaidMore
<1> QED
  BY <1>2, <1>3 DEF Same

\* What a setting of the section changes.
LEMMA OwnSetting ==
  ASSUME NEW s, NEW l, NEW t, More(s, l, t), NEW b, SetsIn(t, b), NEW H, b \in H,
         NEW block, NEW k
  PROVE  /\ BlockOf(t, Len(t)) = block /\ l.key = k =>
              /\ Said(t, H, block, k) = l.text
              /\ Settings(t, H, block, k) = Settings(s, H, block, k) \cup {Len(s) + 1}
         /\ ~(BlockOf(t, Len(t)) = block /\ l.key = k) =>
              /\ Said(t, H, block, k) = Said(s, H, block, k)
              /\ Settings(t, H, block, k) = Settings(s, H, block, k)
<1>1. t[Len(t)] = l
  BY OneMore
<1>2. Hits(t, H, block, k) <=> BlockOf(t, Len(t)) = block /\ l.key = k
  BY <1>1 DEF Hits, SetsIn
<1> QED
  BY <1>2, SettingsMore, SaidMore

\* What the line l says of the sections at H that s does not.
Extended(s, l, t, H) ==
  \A block, k :
    /\ BlockOf(t, Len(t)) = block /\ l.key = k =>
         /\ Said(t, H, block, k) = l.text
         /\ Settings(t, H, block, k) = Settings(s, H, block, k) \cup {Len(s) + 1}
    /\ ~(BlockOf(t, Len(t)) = block /\ l.key = k) =>
         /\ Said(t, H, block, k) = Said(s, H, block, k)
         /\ Settings(t, H, block, k) = Settings(s, H, block, k)

\* The same for all blocks and keys.
LEMMA OwnSettings ==
  ASSUME NEW s, NEW l, NEW t, More(s, l, t), NEW b, SetsIn(t, b), NEW H, b \in H
  PROVE  Extended(s, l, t, H)
BY OwnSetting DEF Extended

\* A section headed at n says nothing in s.
Silent(s, n) ==
  \A H, block, k :
    /\ Said(s, H \cup {n}, block, k) = Said(s, H, block, k)
    /\ Settings(s, {n}, block, k) = {} /\ Said(s, {n}, block, k) = <<>>

\* A section that starts is empty, and adds nothing to the others.
LEMMA FreshHomes ==
  ASSUME NEW s \in Seq(Lines), Homes(s)
  PROVE  Silent(s, Len(s) + 1)
<1> DEFINE n == Len(s) + 1
<1>1. \A i \in 1..Len(s) : IsSetting(s, i) => Home(s, i) # n
  <2> SUFFICES ASSUME NEW i \in 1..Len(s), IsSetting(s, i) PROVE Home(s, i) # n
    OBVIOUS
  <2>1. Home(s, i) \in 1..(i - 1) /\ Len(s) \in Nat
    BY DEF Homes
  <2> QED
    BY <2>1
<1> HIDE DEF n
<1>2. \A H, block, k : Settings(s, H \cup {n}, block, k) = Settings(s, H, block, k)
  BY <1>1 DEF Settings
<1>3. \A block, k : Settings(s, {n}, block, k) = {}
  BY <1>1 DEF Settings
<1>4. \A H, block, k : Said(s, H \cup {n}, block, k) = Said(s, H, block, k)
  BY <1>2, Zenon DEF Said
<1>5. \A block, k : Said(s, {n}, block, k) = <<>>
  BY <1>3, Zenon DEF Said
<1> QED
  BY <1>3, <1>4, <1>5, Zenon DEF Silent, n

\* A further line keeps every setting in its section.
LEMMA HomesMore ==
  ASSUME NEW s, NEW l, NEW t, More(s, l, t), Homes(s),
         ~IsSetting(t, Len(t)) \/ \E b : SetsIn(t, b)
  PROVE  Homes(t)
<1>0. Len(s) \in Nat /\ Len(t) = Len(s) + 1
  BY OneMore
<1>1. \A i \in 1..Len(s) : IsSetting(t, i) => Home(t, i) \in 1..(i - 1)
  BY OlderLines DEF Homes
<1>2. IsSetting(t, Len(t)) => Home(t, Len(t)) \in 1..(Len(t) - 1)
  BY DEF SetsIn
<1>3. 1..Len(t) = 1..Len(s) \cup {Len(t)}
  BY <1>0
<1> QED
  BY <1>1, <1>2, <1>3 DEF Homes

\* The section of the last heading is that of the tool it names, and none of
\* the defaults.
LEMMA SectionAt ==
  ASSUME NEW t \in Seq(Lines), NEW a \in Nat, NEW b \in Nat, TopAt(t, a), HeadingAt(t, a, b),
         NEW x
  PROVE  /\ b \in SectionOf(t, x) <=> t[b].name = x
         /\ t[b].name = x => Headings(t, x) # {}
         /\ b \notin DefaultSections(t)
<1>0. b \in 1..Len(t) /\ a \in 1..Len(t) /\ b \in (a + 1)..Len(t) /\ Len(t) \in Nat
  BY DEF HeadingAt, TopAt
<1>1. ASSUME t[b].name = x PROVE b \in SectionOf(t, x) /\ Headings(t, x) # {}
  <2>1. b \in Headings(t, x)
    BY <1>0, <1>1 DEF HeadingAt, Headings
  <2>2. Headings(t, x) \subseteq Nat
    BY DEF Headings
  <2>3. \A i \in Headings(t, x) : i <= b
    <3> SUFFICES ASSUME NEW i \in Headings(t, x), i > b PROVE FALSE
      BY <1>0, <2>2
    <3>1. i \in (b + 1)..Len(t) /\ IsHeading(t, i)
      BY <1>0 DEF Headings
    <3> QED
      BY <3>1 DEF HeadingAt
  <2>4. Max(Headings(t, x)) = b
    BY <2>1, <2>2, <2>3, MaxIs
  <2> QED
    BY <2>1, <2>4 DEF SectionOf
<1>2. b \in SectionOf(t, x) => t[b].name = x
  BY SectionLine
<1>3. b \notin DefaultSections(t)
  <2>1. t[b].indent > t[a].indent /\ t[a].indent = 0
    BY <1>0 DEF TopAt, StaysOpen
  <2>2. t[b].indent # 0
    BY <2>1
  <2> QED
    BY <2>2 DEF DefaultSections
<1> QED
  BY <1>1, <1>2, <1>3

\* A line of the top level is the heading of no tool.
LEMMA DefaultsAt ==
  ASSUME NEW t \in Seq(Lines), NEW a \in Nat, TopAt(t, a), t[a].key = "defaults", NEW x
  PROVE  a \in DefaultSections(t) /\ a \notin SectionOf(t, x)
<1>1. a \in DefaultSections(t)
  BY DEF DefaultSections, TopAt
<1>2. a \in 1..Len(t) /\ t[a].indent = 0
  BY DEF TopAt
<1>3. ~IsHeading(t, a)
  <2>1. Around(t, a) = {}
    <3> SUFFICES ASSUME NEW j \in Around(t, a) PROVE FALSE
      OBVIOUS
    <3>1. j \in 1..(a - 1) /\ \A k \in (j + 1)..a : t[k].indent > t[j].indent
      BY DEF Around
    <3>2. j \in 1..Len(t) /\ a \in (j + 1)..a
      BY <1>2, <3>1
    <3>3. t[a].indent > t[j].indent /\ t[j].indent \in Nat
      BY <3>1, <3>2, LineTypes
    <3> QED
      BY <1>2, <3>3
  <2> QED
    BY <2>1 DEF IsHeading, Under
<1> QED
  BY <1>1, <1>3, SectionLine

-----------------------------------------------------------------------------
(* A policy that agrees with what a file says of the sections at H.        *)

ScalarsAgree(s, H, p) ==
  \A k \in Scalars : p.scalar[k] = ScalarValue(k, Said(s, H, "scalars", k))

RatesAgree(s, H, p) ==
  \A k \in {"rps", "burst"} : p.rate[k] = Number(Said(s, H, "rate_limit", k))

ListsAgree(s, H, p) ==
  \A f \in Fields :
    /\ f \in DOMAIN p.normalize <=> Settings(s, H, "normalize", f) # {}
    /\ f \in DOMAIN p.normalize => p.normalize[f] = Said(s, H, "normalize", f)

Agrees(s, H, p) == ScalarsAgree(s, H, p) /\ RatesAgree(s, H, p) /\ ListsAgree(s, H, p)

\* A policy agrees with every file that says the same.
LEMMA AgreesSame ==
  ASSUME NEW s, NEW t, NEW H, NEW p, Same(s, t, H)
  PROVE  /\ ScalarsAgree(s, H, p) => ScalarsAgree(t, H, p)
         /\ Agrees(s, H, p) => Agrees(t, H, p)
<1>1. \A k : /\ Said(t, H, "scalars", k) = Said(s, H, "scalars", k)
             /\ Said(t, H, "rate_limit", k) = Said(s, H, "rate_limit", k)
             /\ Said(t, H, "normalize", k) = Said(s, H, "normalize", k)
             /\ Settings(t, H, "normalize", k) = Settings(s, H, "normalize", k)
  BY Zenon DEF Same
<1>2. ScalarsAgree(s, H, p) => ScalarsAgree(t, H, p)
  BY <1>1, Zenon DEF ScalarsAgree
<1>3. RatesAgree(s, H, p) => RatesAgree(t, H, p)
  BY <1>1, Zenon DEF RatesAgree
<1>4. ListsAgree(s, H, p) => ListsAgree(t, H, p)
  BY <1>1, Zenon DEF ListsAgree
<1> QED
  BY <1>2, <1>3, <1>4 DEF Agrees

\* Nothing said is the zero value.
LEMMA ZeroValue ==
  ASSUME NEW k
  PROVE  ScalarValue(k, <<>>) = <<>> /\ Number(<<>>) = <<>>
<1>1. <<>> # <<"0">> /\ <<>> # <<"true">>
  OBVIOUS
<1>2. Number(<<>>) = <<>>
  BY <1>1 DEF Number
<1>3. ScalarValue(k, <<>>) = <<>>
  BY <1>1, <1>2, Zenon DEF ScalarValue
<1> QED
  BY <1>2, <1>3

\* The zero policy agrees with an empty section.
LEMMA ZeroAgrees ==
  ASSUME NEW s, NEW H, Blank(s, H)
  PROVE  Agrees(s, H, ZeroPolicy)
<1>1. \A k : /\ Said(s, H, "scalars", k) = <<>> /\ Said(s, H, "rate_limit", k) = <<>>
             /\ Settings(s, H, "normalize", k) = {}
  BY Zenon DEF Blank
<1>2. /\ \A k \in Scalars : ZeroPolicy.scalar[k] = <<>>
      /\ \A k \in {"rps", "burst"} : ZeroPolicy.rate[k] = <<>>
      /\ ZeroPolicy.normalize = <<>>
  BY DEF ZeroPolicy
<1>3. ScalarsAgree(s, H, ZeroPolicy)
  BY <1>1, <1>2, ZeroValue, Zenon DEF ScalarsAgree
<1>4. RatesAgree(s, H, ZeroPolicy)
  BY <1>1, <1>2, ZeroValue, Zenon DEF RatesAgree
<1>5. ListsAgree(s, H, ZeroPolicy)
  BY <1>1, <1>2, ZeroTypes, Zenon DEF ListsAgree
<1> QED
  BY <1>3, <1>4, <1>5 DEF Agrees

\* A scalar set in a section.
LEMMA AgreesScalar ==
  ASSUME NEW s, NEW l, NEW t, More(s, l, t), NEW b, SetsIn(t, b), NEW H, b \in H,
         BlockOf(t, Len(t)) = "scalars", l.key \in Scalars, NEW p \in Policies, NEW v \in Texts,
         v = ScalarValue(l.key, l.text)
  PROVE  /\ ScalarsAgree(s, H, p) => ScalarsAgree(t, H, PutScalar(p, l.key, v))
         /\ Agrees(s, H, p) => Agrees(t, H, PutScalar(p, l.key, v))
<1> DEFINE q == PutScalar(p, l.key, v)
<1>1. /\ q.scalar[l.key] = v /\ \A j \in Scalars : j # l.key => q.scalar[j] = p.scalar[j]
      /\ q.normalize = p.normalize /\ q.rate = p.rate
  BY WithScalar
<1> HIDE DEF q
<1>z. Extended(s, l, t, H)
  BY OwnSettings
<1>2. /\ Said(t, H, "scalars", l.key) = l.text
      /\ \A k : k # l.key => Said(t, H, "scalars", k) = Said(s, H, "scalars", k)
  BY <1>z, Zenon DEF Extended
<1>3. \A k : /\ Said(t, H, "rate_limit", k) = Said(s, H, "rate_limit", k)
             /\ Said(t, H, "normalize", k) = Said(s, H, "normalize", k)
             /\ Settings(t, H, "normalize", k) = Settings(s, H, "normalize", k)
  <2>1. BlockOf(t, Len(t)) # "rate_limit" /\ BlockOf(t, Len(t)) # "normalize"
    OBVIOUS
  <2> QED
    BY <1>z, <2>1, Zenon DEF Extended
<1>4. ScalarsAgree(s, H, p) => ScalarsAgree(t, H, q)
  BY <1>1, <1>2, Zenon DEF ScalarsAgree
<1>5. RatesAgree(s, H, p) => RatesAgree(t, H, q)
  BY <1>1, <1>3, Zenon DEF RatesAgree
<1>6. ListsAgree(s, H, p) => ListsAgree(t, H, q)
  BY <1>1, <1>3, Zenon DEF ListsAgree
<1> QED
  BY <1>4, <1>5, <1>6 DEF Agrees, q

\* A block opened in a section.
LEMMA AgreesHead ==
  ASSUME NEW s, NEW l, NEW t, More(s, l, t), NEW b, SetsIn(t, b), NEW H, b \in H,
         BlockOf(t, Len(t)) = "scalars", l.key \notin Scalars, NEW p
  PROVE  /\ ScalarsAgree(s, H, p) => ScalarsAgree(t, H, p)
         /\ Agrees(s, H, p) => Agrees(t, H, p)
<1>z. Extended(s, l, t, H)
  BY OwnSettings
<1>2. \A k : k # l.key => Said(t, H, "scalars", k) = Said(s, H, "scalars", k)
  BY <1>z, Zenon DEF Extended
<1>3. \A k : /\ Said(t, H, "rate_limit", k) = Said(s, H, "rate_limit", k)
             /\ Said(t, H, "normalize", k) = Said(s, H, "normalize", k)
             /\ Settings(t, H, "normalize", k) = Settings(s, H, "normalize", k)
  <2>1. BlockOf(t, Len(t)) # "rate_limit" /\ BlockOf(t, Len(t)) # "normalize"
    OBVIOUS
  <2> QED
    BY <1>z, <2>1, Zenon DEF Extended
<1>4. ScalarsAgree(s, H, p) => ScalarsAgree(t, H, p)
  BY <1>2, Zenon DEF ScalarsAgree
<1>5. RatesAgree(s, H, p) => RatesAgree(t, H, p)
  BY <1>3, Zenon DEF RatesAgree
<1>6. ListsAgree(s, H, p) => ListsAgree(t, H, p)
  BY <1>3, Zenon DEF ListsAgree
<1> QED
  BY <1>4, <1>5, <1>6 DEF Agrees

\* Transforms listed for a field.
LEMMA AgreesTransforms ==
  ASSUME NEW s, NEW l, NEW t, More(s, l, t), NEW b, SetsIn(t, b), NEW H, b \in H,
         BlockOf(t, Len(t)) = "normalize", NEW p \in Policies
  PROVE  /\ ScalarsAgree(s, H, p) => ScalarsAgree(t, H, p)
         /\ Agrees(s, H, p) => Agrees(t, H, PutTransforms(p, l.key, l.text))
<1> DEFINE q == PutTransforms(p, l.key, l.text)
<1>0. l.key \in STRING /\ l.text \in Texts
  BY OneMore, LineAssumption DEF Texts
<1>1. /\ q.scalar = p.scalar /\ q.rate = p.rate
      /\ DOMAIN q.normalize = DOMAIN p.normalize \cup {l.key} /\ q.normalize[l.key] = l.text
      /\ \A g \in DOMAIN p.normalize : g # l.key => q.normalize[g] = p.normalize[g]
  <2>1. ASSUME NEW x \in STRING, NEW v \in Texts
        PROVE  LET r == PutTransforms(p, x, v)
               IN  /\ r.scalar = p.scalar /\ r.rate = p.rate
                   /\ DOMAIN r.normalize = DOMAIN p.normalize \cup {x} /\ r.normalize[x] = v
                   /\ \A g \in DOMAIN p.normalize : g # x => r.normalize[g] = p.normalize[g]
    BY WithTransforms
  <2> QED
    BY <1>0, <2>1, Zenon
<1> HIDE DEF q
<1>z. Extended(s, l, t, H)
  BY OwnSettings
<1>2. /\ Said(t, H, "normalize", l.key) = l.text
      /\ Settings(t, H, "normalize", l.key) = Settings(s, H, "normalize", l.key) \cup {Len(s) + 1}
      /\ \A k : k # l.key => /\ Said(t, H, "normalize", k) = Said(s, H, "normalize", k)
                             /\ Settings(t, H, "normalize", k) = Settings(s, H, "normalize", k)
  BY <1>z, Zenon DEF Extended
<1>a. Settings(t, H, "normalize", l.key) # {}
  <2> SUFFICES ASSUME Settings(t, H, "normalize", l.key) = {} PROVE FALSE
    OBVIOUS
  <2>1. Len(s) + 1 \in Settings(s, H, "normalize", l.key) \cup {Len(s) + 1}
    BY Zenon
  <2> QED
    BY <1>2, <2>1, Zenon
<1>3. \A k : /\ Said(t, H, "rate_limit", k) = Said(s, H, "rate_limit", k)
             /\ Said(t, H, "scalars", k) = Said(s, H, "scalars", k)
  <2>1. BlockOf(t, Len(t)) # "rate_limit" /\ BlockOf(t, Len(t)) # "scalars"
    OBVIOUS
  <2> QED
    BY <1>z, <2>1, Zenon DEF Extended
<1>4. ASSUME NEW x, x.scalar = p.scalar, ScalarsAgree(s, H, p) PROVE ScalarsAgree(t, H, x)
  BY <1>3, <1>4, Zenon DEF ScalarsAgree
<1>5. RatesAgree(s, H, p) => RatesAgree(t, H, q)
  BY <1>1, <1>3, Zenon DEF RatesAgree
<1>6. ListsAgree(s, H, p) => ListsAgree(t, H, q)
  <2> SUFFICES ASSUME ListsAgree(s, H, p), NEW f \in Fields
               PROVE  /\ f \in DOMAIN q.normalize <=> Settings(t, H, "normalize", f) # {}
                      /\ f \in DOMAIN q.normalize => q.normalize[f] = Said(t, H, "normalize", f)
    BY Zenon DEF ListsAgree
  <2>1. /\ f \in DOMAIN p.normalize <=> Settings(s, H, "normalize", f) # {}
        /\ f \in DOMAIN p.normalize => p.normalize[f] = Said(s, H, "normalize", f)
    BY Zenon DEF ListsAgree
  <2>2. CASE f = l.key
    <3>1. f \in DOMAIN q.normalize
      BY <1>1, <2>2, Zenon
    <3> QED
      BY <1>1, <1>2, <1>a, <2>2, <3>1, Zenon
  <2>3. CASE f # l.key
    <3>1. f \in DOMAIN q.normalize <=> f \in DOMAIN p.normalize
      BY <1>1, <2>3, Zenon
    <3> QED
      BY <1>1, <1>2, <2>1, <2>3, <3>1, Zenon
  <2> QED
    BY <2>2, <2>3
<1> QED
  BY <1>1, <1>4, <1>5, <1>6 DEF Agrees, q

\* A rate set in a section.
LEMMA AgreesRate ==
  ASSUME NEW s, NEW l, NEW t, More(s, l, t), NEW b, SetsIn(t, b), NEW H, b \in H,
         BlockOf(t, Len(t)) = "rate_limit", NEW p \in Policies, l.key \in {"rps", "burst"},
         NEW v \in Texts, v = Number(l.text)
  PROVE  /\ ScalarsAgree(s, H, p) => ScalarsAgree(t, H, p)
         /\ Agrees(s, H, p) => Agrees(t, H, PutRate(p, l.key, v))
<1> DEFINE q == PutRate(p, l.key, v)
<1>1. /\ q.scalar = p.scalar /\ q.normalize = p.normalize /\ q.rate[l.key] = v
      /\ \A j \in {"rps", "burst"} : j # l.key => q.rate[j] = p.rate[j]
  BY WithRate
<1> HIDE DEF q
<1>z. Extended(s, l, t, H)
  BY OwnSettings
<1>2. /\ Said(t, H, "rate_limit", l.key) = l.text
      /\ \A k : k # l.key => Said(t, H, "rate_limit", k) = Said(s, H, "rate_limit", k)
  BY <1>z, Zenon DEF Extended
<1>3. \A k : /\ Said(t, H, "scalars", k) = Said(s, H, "scalars", k)
             /\ Said(t, H, "normalize", k) = Said(s, H, "normalize", k)
             /\ Settings(t, H, "normalize", k) = Settings(s, H, "normalize", k)
  <2>1. BlockOf(t, Len(t)) # "scalars" /\ BlockOf(t, Len(t)) # "normalize"
    OBVIOUS
  <2> QED
    BY <1>z, <2>1, Zenon DEF Extended
<1>4. ASSUME NEW x, x.scalar = p.scalar, ScalarsAgree(s, H, p) PROVE ScalarsAgree(t, H, x)
  BY <1>3, <1>4, Zenon DEF ScalarsAgree
<1>5. RatesAgree(s, H, p) => RatesAgree(t, H, q)
  BY <1>1, <1>2, Zenon DEF RatesAgree
<1>6. ListsAgree(s, H, p) => ListsAgree(t, H, q)
  BY <1>1, <1>3, Zenon DEF ListsAgree
<1> QED
  BY <1>1, <1>4, <1>5, <1>6 DEF Agrees, q

-----------------------------------------------------------------------------
(* A configuration that agrees with a file.                                *)

ToolAgrees(s, cf, x) ==
  /\ x \in DOMAIN cf.tools <=> Headings(s, x) # {}
  /\ x \in DOMAIN cf.tools => Agrees(s, SectionOf(s, x), cf.tools[x])

FileAgrees(s, cf) ==
  /\ ScalarsAgree(s, DefaultSections(s), cf.defaults)
  /\ \A x \in Tools : ToolAgrees(s, cf, x)

\* Two configurations give tool x the same section.
SameTool(cf, new, x) ==
  /\ x \in DOMAIN new.tools <=> x \in DOMAIN cf.tools
  /\ x \in DOMAIN cf.tools => new.tools[x] = cf.tools[x]

\* The property the runs check, in these terms.
LEMMA ReadIs == ReadAsIndented <=> (status # "failed" => FileAgrees(seen, config))
BY Zenon DEF ReadAsIndented, FileAgrees, ToolAgrees, Agrees, ScalarsAgree, RatesAgree,
             ListsAgree, OwnText, DefaultText

\* A tool whose section neither the file nor the parser touches.
LEMMA ToolKept ==
  ASSUME NEW s, NEW l, NEW t, More(s, l, t), NEW x, ~(IsHeading(t, Len(t)) /\ l.name = x),
         Same(s, t, SectionOf(s, x)), NEW cf, NEW new, SameTool(cf, new, x),
         ToolAgrees(s, cf, x)
  PROVE  ToolAgrees(t, new, x)
<1>0. Len(t) = Len(s) + 1
  BY OneMore
<1>1. ~(IsHeading(t, Len(s) + 1) /\ l.name = x)
  BY <1>0
<1>2. Headings(t, x) = Headings(s, x) /\ SectionOf(t, x) = SectionOf(s, x)
  BY <1>1, HeadingsMore, SectionMore
<1>3. \A p : Agrees(s, SectionOf(s, x), p) => Agrees(t, SectionOf(s, x), p)
  BY AgreesSame
<1> QED
  BY <1>2, <1>3, Zenon DEF ToolAgrees, SameTool

\* The sections of the defaults, when the line heads none.
LEMMA DefaultsSame ==
  ASSUME NEW s, NEW l, NEW t, More(s, l, t), ~(l.indent = 0 /\ l.key = "defaults")
  PROVE  DefaultSections(t) = DefaultSections(s)
BY DefaultsMore

\* The defaults, when the file says nothing of them.
LEMMA DefaultsKept ==
  ASSUME NEW s, NEW l, NEW t, More(s, l, t), ~(l.indent = 0 /\ l.key = "defaults"),
         Same(s, t, DefaultSections(s)), NEW p, ScalarsAgree(s, DefaultSections(s), p)
  PROVE  DefaultSections(t) = DefaultSections(s) /\ ScalarsAgree(t, DefaultSections(t), p)
<1>1. DefaultSections(t) = DefaultSections(s)
  BY DefaultsSame
<1> QED
  BY <1>1, AgreesSame

\* A line of the top level.
LEMMA AgreesTop ==
  ASSUME NEW s, NEW l, NEW t, More(s, l, t), Homes(s), l.indent = 0, NEW cf, FileAgrees(s, cf)
  PROVE  FileAgrees(t, cf)
<1>0. Len(t) = Len(s) + 1 /\ s \in Seq(Lines)
  BY OneMore
<1>1. ~IsHeading(t, Len(t)) /\ ~IsSetting(t, Len(t))
  BY <1>0, NextTop
<1>2. \A H : Same(s, t, H)
  BY <1>1, NoSetting
<1>3. ASSUME NEW x \in Tools PROVE ToolAgrees(t, cf, x)
  <2>1. ToolAgrees(s, cf, x)
    BY DEF FileAgrees
  <2>2. SameTool(cf, cf, x)
    BY Zenon DEF SameTool
  <2> QED
    BY <1>1, <1>2, <2>1, <2>2, ToolKept
<1>4. ScalarsAgree(t, DefaultSections(t), cf.defaults)
  <2>0. ScalarsAgree(s, DefaultSections(s), cf.defaults)
    BY DEF FileAgrees
  <2>1. CASE l.key = "defaults"
    <3> DEFINE D == DefaultSections(s) \cup {Len(s) + 1}
    <3>1. DefaultSections(t) = D
      BY <2>1, DefaultsMore
    <3>2. \A block, k : Said(s, D, block, k) = Said(s, DefaultSections(s), block, k)
      <4>1. Silent(s, Len(s) + 1)
        BY <1>0, FreshHomes
      <4> QED
        BY <4>1, Zenon DEF Silent
    <3> HIDE DEF D
    <3>3. ScalarsAgree(s, D, cf.defaults)
      BY <2>0, <3>2, Zenon DEF ScalarsAgree
    <3> QED
      BY <1>2, <3>1, <3>3, AgreesSame
  <2>2. CASE l.key # "defaults"
    BY <1>2, <2>0, <2>2, DefaultsKept
  <2> QED
    BY <2>1, <2>2
<1> QED
  BY <1>3, <1>4 DEF FileAgrees

\* The heading of a tool.
LEMMA AgreesHeading ==
  ASSUME NEW s, NEW l, NEW t, More(s, l, t), Homes(s), NEW a \in Nat, TopAt(t, a),
         HeadingAt(t, a, Len(t)), ~IsSetting(t, Len(t)),
         NEW cf \in Configs, FileAgrees(s, cf)
  PROVE  FileAgrees(t, PutSection(cf, l.name, ZeroPolicy))
<1> DEFINE new == PutSection(cf, l.name, ZeroPolicy)
<1>0. /\ Len(t) = Len(s) + 1 /\ s \in Seq(Lines) /\ t \in Seq(Lines) /\ Len(t) \in Nat
      /\ t[Len(t)] = l /\ Len(t) \in 1..Len(t) /\ IsHeading(t, Len(t))
  BY OneMore DEF HeadingAt
<1>1. l.name \in Keys
  BY OneMore DEF Keys
<1>2. /\ new.defaults = cf.defaults /\ DOMAIN new.tools = DOMAIN cf.tools \cup {l.name}
      /\ new.tools[l.name] = ZeroPolicy
      /\ \A y \in DOMAIN cf.tools : y # l.name => new.tools[y] = cf.tools[y]
  BY <1>1, WithSection, ZeroTypes
<1> HIDE DEF new
<1>3. \A H : Same(s, t, H)
  BY NoSetting
<1>4. ASSUME NEW x \in Tools, x # l.name PROVE ToolAgrees(t, new, x)
  <2>1. ToolAgrees(s, cf, x)
    BY DEF FileAgrees
  <2>2. SameTool(cf, new, x)
    BY <1>2, <1>4, Zenon DEF SameTool
  <2> QED
    BY <1>3, <1>4, <2>1, <2>2, ToolKept
<1>5. ToolAgrees(t, new, l.name)
  <2>1. SectionOf(t, l.name) = {Len(s) + 1} /\ Headings(t, l.name) # {}
    <3>1. SectionOf(t, l.name) = {Len(s) + 1}
      BY <1>0, SectionMore
    <3>2. Headings(t, l.name) = Headings(s, l.name) \cup {Len(s) + 1}
      BY <1>0, HeadingsMore
    <3> QED
      BY <3>1, <3>2
  <2>3. Blank(s, {Len(s) + 1})
    <3>1. Silent(s, Len(s) + 1)
      BY <1>0, FreshHomes
    <3> QED
      BY <3>1, Zenon DEF Silent, Blank
  <2>4. Agrees(s, {Len(s) + 1}, ZeroPolicy)
    BY <2>3, ZeroAgrees
  <2>5. Agrees(t, {Len(s) + 1}, ZeroPolicy)
    BY <1>3, <2>4, AgreesSame
  <2> QED
    BY <1>2, <2>1, <2>5, Zenon DEF ToolAgrees
<1>6. ScalarsAgree(t, DefaultSections(t), new.defaults)
  <2>1. Len(t) \notin DefaultSections(t)
    BY <1>0, SectionAt
  <2>2. ~(l.indent = 0 /\ l.key = "defaults")
    BY <1>0, <2>1 DEF DefaultSections
  <2>3. ScalarsAgree(s, DefaultSections(s), cf.defaults)
    BY DEF FileAgrees
  <2> QED
    BY <1>2, <1>3, <2>2, <2>3, DefaultsKept
<1>7. \A x \in Tools : ToolAgrees(t, new, x)
  BY <1>4, <1>5
<1> QED
  BY <1>6, <1>7 DEF FileAgrees, new

\* A line in the section of a tool.
LEMMA AgreesSection ==
  ASSUME NEW s, NEW l, NEW t, More(s, l, t), NEW a \in Nat, NEW b \in Nat, TopAt(t, a),
         HeadingAt(t, a, b), SetsIn(t, b), NEW cf, NEW new, FileAgrees(s, cf),
         new.defaults = cf.defaults, DOMAIN new.tools \subseteq DOMAIN cf.tools \cup {t[b].name},
         DOMAIN cf.tools \subseteq DOMAIN new.tools,
         \A x \in DOMAIN cf.tools : x # t[b].name => new.tools[x] = cf.tools[x],
         t[b].name \in DOMAIN cf.tools /\ Agrees(s, SectionOf(t, t[b].name), cf.tools[t[b].name]) =>
           Agrees(t, SectionOf(t, t[b].name), new.tools[t[b].name])
  PROVE  FileAgrees(t, new)
<1> DEFINE y == t[b].name
<1>0. /\ Len(t) = Len(s) + 1 /\ s \in Seq(Lines) /\ t \in Seq(Lines) /\ Len(t) \in Nat
      /\ t[Len(t)] = l /\ ~IsHeading(t, Len(t)) /\ ~IsHeading(t, Len(s) + 1)
      /\ IsSetting(t, Len(t))
  BY OneMore DEF SetsIn
<1>1. \A x : SectionOf(t, x) = SectionOf(s, x) /\ Headings(t, x) = Headings(s, x)
  BY <1>0, SectionMore, HeadingsMore
<1>2. ASSUME NEW x \in Tools, x # y PROVE ToolAgrees(t, new, x)
  <2>1. ToolAgrees(s, cf, x)
    BY DEF FileAgrees
  <2>2. SameTool(cf, new, x)
    BY <1>2, Zenon DEF SameTool
  <2>3. b \notin SectionOf(t, x)
    BY <1>0, <1>2, SectionAt
  <2>4. b \notin SectionOf(s, x)
    BY <1>1, <2>3
  <2>5. Same(s, t, SectionOf(s, x))
    BY <2>4, OtherSetting
  <2> QED
    BY <1>0, <2>1, <2>2, <2>5, ToolKept
<1>3. ASSUME y \in Tools PROVE ToolAgrees(t, new, y)
  <2>1. ToolAgrees(s, cf, y)
    BY <1>3 DEF FileAgrees
  <2>2. Headings(t, y) # {}
    BY <1>0, SectionAt
  <2>3. y \in DOMAIN cf.tools /\ y \in DOMAIN new.tools
    BY <1>1, <2>1, <2>2, Zenon DEF ToolAgrees
  <2>4. Agrees(s, SectionOf(t, y), cf.tools[y])
    BY <1>1, <2>1, <2>3, Zenon DEF ToolAgrees
  <2> QED
    BY <2>2, <2>3, <2>4, Zenon DEF ToolAgrees
<1>4. ScalarsAgree(t, DefaultSections(t), new.defaults)
  <2>1. l.indent > 0
    BY <1>0 DEF IsSetting
  <2>2. ~(l.indent = 0 /\ l.key = "defaults")
    BY <2>1
  <2>3. DefaultSections(t) = DefaultSections(s)
    BY <2>2, DefaultsSame
  <2>4. b \notin DefaultSections(t)
    BY <1>0, SectionAt
  <2>5. Same(s, t, DefaultSections(s))
    BY <2>3, <2>4, OtherSetting
  <2>6. ScalarsAgree(s, DefaultSections(s), cf.defaults)
    BY DEF FileAgrees
  <2> QED
    BY <2>2, <2>5, <2>6, DefaultsKept
<1>5. \A x \in Tools : ToolAgrees(t, new, x)
  BY <1>2, <1>3
<1> QED
  BY <1>4, <1>5 DEF FileAgrees

\* A line in the section of the defaults.
LEMMA AgreesDefaults ==
  ASSUME NEW s, NEW l, NEW t, More(s, l, t), NEW a \in Nat, TopAt(t, a), t[a].key = "defaults",
         SetsIn(t, a), NEW cf, NEW new, FileAgrees(s, cf),
         \A x \in Tools : SameTool(cf, new, x),
         ScalarsAgree(s, DefaultSections(t), cf.defaults) =>
           ScalarsAgree(t, DefaultSections(t), new.defaults)
  PROVE  FileAgrees(t, new)
<1>0. /\ Len(t) = Len(s) + 1 /\ s \in Seq(Lines) /\ t \in Seq(Lines) /\ Len(t) \in Nat
      /\ t[Len(t)] = l /\ ~IsHeading(t, Len(t)) /\ ~IsHeading(t, Len(s) + 1)
      /\ IsSetting(t, Len(t))
  BY OneMore DEF SetsIn
<1>1. \A x : SectionOf(t, x) = SectionOf(s, x)
  BY <1>0, SectionMore
<1>2. ASSUME NEW x \in Tools PROVE ToolAgrees(t, new, x)
  <2>1. ToolAgrees(s, cf, x)
    BY DEF FileAgrees
  <2>2. a \notin SectionOf(s, x)
    BY <1>0, <1>1, DefaultsAt
  <2>3. Same(s, t, SectionOf(s, x))
    BY <2>2, OtherSetting
  <2> QED
    BY <1>0, <2>1, <2>3, ToolKept
<1>3. DefaultSections(t) = DefaultSections(s)
  <2>1. l.indent > 0
    BY <1>0 DEF IsSetting
  <2>2. ~(l.indent = 0 /\ l.key = "defaults")
    BY <2>1
  <2> QED
    BY <2>2, DefaultsSame
<1>4. ScalarsAgree(s, DefaultSections(s), cf.defaults)
  BY DEF FileAgrees
<1> QED
  BY <1>2, <1>3, <1>4 DEF FileAgrees

-----------------------------------------------------------------------------
(* What the parser accepts keeps the configuration in agreement.           *)

Kept(s, st, cf) == Standing(s, st) /\ Homes(s) /\ FileAgrees(s, cf)

\* "defaults:" or "tools:".
LEMMA TopStep ==
  ASSUME LoaderTypes, Kept(seen, stack, config), NEW l \in Lines, More(seen, l, seen'),
         OpenTop(l)
  PROVE  Kept(seen', stack', config')
<1>1. /\ OpensTop(l) /\ stack' = Append(Popped(l), Frame(l.indent, l.key, ""))
      /\ config' = config /\ l.indent = 0
  BY DEF OpenTop, Push, OpensTop
<1> DEFINE f == Frame(l.indent, l.key, "")
<1>2. BlockFrame(f, l) /\ NoTool(f)
  BY Zenon DEF Frame, BlockFrame, NoTool
<1>3. stack' = Append(Popped(l), f)
  BY <1>1
<1> HIDE DEF f
<1>4. Standing(seen', stack')
  BY <1>1, <1>2, <1>3, StandingTop
<1>5. ~IsSetting(seen', Len(seen'))
  BY <1>1, NextTop, OneMore
<1>6. Homes(seen')
  BY <1>5, HomesMore DEF Kept
<1>7. FileAgrees(seen', config)
  BY <1>1, AgreesTop DEF Kept
<1>8. FileAgrees(seen', config')
  BY <1>1, <1>7
<1> QED
  BY <1>4, <1>6, <1>8 DEF Kept

\* The heading of a tool.
LEMMA ToolStep ==
  ASSUME LoaderTypes, Kept(seen, stack, config), NEW l \in Lines, More(seen, l, seen'),
         OpenTool(l)
  PROVE  Kept(seen', stack', config')
<1> DEFINE f == Frame(l.indent, "tool", l.name)
<1>1. /\ Kind(l) = "tools" /\ stack' = Append(Popped(l), f)
      /\ config' = PutSection(config, l.name, ZeroPolicy)
  BY DEF OpenTool, Push, OpensTool, PutSection
<1>2. SectionFrame(f, l)
  BY Zenon DEF Frame, SectionFrame
<1> HIDE DEF f
<1>3. Place(l, seen')
  BY Placed DEF Kept
<1>4. HeadingPlace(l, seen')
  BY <1>1, <1>3, Located
<1>5. Standing(seen', stack')
  BY <1>1, <1>2, <1>4, StandingTool
<1>6. PICK a \in Nat : TopAt(seen', a) /\ HeadingAt(seen', a, Len(seen'))
                         /\ ~IsSetting(seen', Len(seen'))
  BY <1>4 DEF HeadingPlace
<1>7. Homes(seen')
  BY <1>6, HomesMore DEF Kept
<1>8. config \in Configs
  BY DEF LoaderTypes
<1>9. FileAgrees(seen', PutSection(config, l.name, ZeroPolicy))
  BY <1>6, <1>8, AgreesHeading DEF Kept
<1>10. FileAgrees(seen', config')
  BY <1>1, <1>9
<1> QED
  BY <1>5, <1>7, <1>10 DEF Kept

\* The head of a block of a section.
LEMMA BlockStep ==
  ASSUME LoaderTypes, Kept(seen, stack, config), NEW l \in Lines, More(seen, l, seen'),
         OpenBlock(l)
  PROVE  Kept(seen', stack', config')
<1> DEFINE f == Frame(l.indent, l.key, ToolOf(l))
<1>1. /\ Kind(l) \in {"defaults", "tool"} /\ stack' = Append(Popped(l), f)
      /\ config' = config /\ HeadsBlock(l) /\ l.key \in {"normalize", "rate_limit"}
  BY DEF OpenBlock, Push, OpensBlock, HeadsBlock
<1>2. BlockFrame(f, l) /\ f.tool = ToolOf(l)
  BY Zenon DEF Frame, BlockFrame
<1> HIDE DEF f
<1>3. Place(l, seen')
  BY Placed DEF Kept
<1>4. l.key \notin Scalars
  BY <1>1 DEF Scalars
<1>5. CASE Kind(l) = "tool"
  <2>1. PICK a, b \in Nat : SectionPlace(l, seen', a, b) /\ ToolOf(l) = seen'[b].name
    BY <1>3, <1>5, Located
  <2>2. Standing(seen', stack')
    BY <1>1, <1>2, <2>1, StandingSection
  <2>3. /\ TopAt(seen', a) /\ HeadingAt(seen', a, b) /\ SetsIn(seen', b)
        /\ BlockOf(seen', Len(seen')) = "scalars"
    BY <2>1 DEF SectionPlace
  <2>4. Homes(seen')
    BY <2>3, HomesMore DEF Kept
  <2> DEFINE y == seen'[b].name
             H == SectionOf(seen', y)
  <2>5. b \in H
    BY <2>3, OneMore, SectionAt
  <2>6. Agrees(seen, H, config.tools[y]) => Agrees(seen', H, config.tools[y])
    BY <1>4, <2>3, <2>5, AgreesHead
  <2>7. FileAgrees(seen', config)
    BY <2>3, <2>6, AgreesSection DEF Kept
  <2>8. FileAgrees(seen', config')
    BY <1>1, <2>7
  <2> QED
    BY <2>2, <2>4, <2>8 DEF Kept
<1>6. CASE Kind(l) = "defaults"
  <2>1. PICK a \in Nat : DefaultsPlace(l, seen', a)
    BY <1>3, <1>6, Located
  <2>2. Standing(seen', stack')
    BY <1>1, <1>2, <2>1, StandingDefaults
  <2>3. /\ TopAt(seen', a) /\ seen'[a].key = "defaults" /\ SetsIn(seen', a)
        /\ BlockOf(seen', Len(seen')) = "scalars"
    BY <2>1 DEF DefaultsPlace
  <2>4. Homes(seen')
    BY <2>3, HomesMore DEF Kept
  <2>5. a \in DefaultSections(seen')
    BY <2>3, OneMore, DefaultsAt
  <2>6. ScalarsAgree(seen, DefaultSections(seen'), config.defaults) =>
          ScalarsAgree(seen', DefaultSections(seen'), config.defaults)
    BY <1>4, <2>3, <2>5, AgreesHead
  <2>7. \A x \in Tools : SameTool(config, config, x)
    BY Zenon DEF SameTool
  <2>8. FileAgrees(seen', config)
    BY <2>3, <2>6, <2>7, AgreesDefaults DEF Kept
  <2>9. FileAgrees(seen', config')
    BY <1>1, <2>8
  <2> QED
    BY <2>2, <2>4, <2>9 DEF Kept
<1> QED
  BY <1>1, <1>5, <1>6

\* A tool's section replaced by another one.
LEMMA SectionPut ==
  ASSUME config \in Configs, NEW y \in Keys, NEW pol \in Policies
  PROVE  /\ PutSection(config, y, pol).defaults = config.defaults
         /\ DOMAIN PutSection(config, y, pol).tools \subseteq DOMAIN config.tools \cup {y}
         /\ DOMAIN config.tools \subseteq DOMAIN PutSection(config, y, pol).tools
         /\ \A x \in DOMAIN config.tools :
              x # y => PutSection(config, y, pol).tools[x] = config.tools[x]
         /\ PutSection(config, y, pol).tools[y] = pol
         /\ y \notin Tools => \A x \in Tools : SameTool(config, PutSection(config, y, pol), x)
         /\ y \in DOMAIN config.tools => Section(y) = config.tools[y]
<1> DEFINE new == PutSection(config, y, pol)
<1>1. /\ new.defaults = config.defaults
      /\ DOMAIN new.tools = DOMAIN config.tools \cup {y} /\ new.tools[y] = pol
      /\ \A x \in DOMAIN config.tools : x # y => new.tools[x] = config.tools[x]
  BY WithSection
<1> HIDE DEF new
<1>2. ASSUME y \notin Tools, NEW x \in Tools PROVE SameTool(config, new, x)
  BY <1>1, <1>2, Zenon DEF SameTool
<1>3. y \in DOMAIN config.tools => Section(y) = config.tools[y]
  BY Zenon DEF Section
<1>4. /\ DOMAIN new.tools \subseteq DOMAIN config.tools \cup {y}
      /\ DOMAIN config.tools \subseteq DOMAIN new.tools
  BY <1>1, Zenon
<1>5. y \notin Tools => \A x \in Tools : SameTool(config, new, x)
  BY <1>2
<1> QED
  BY <1>1, <1>3, <1>4, <1>5, Zenon DEF new

\* A setting in the section of a tool opens no block.
LEMMA StandingHere ==
  ASSUME LoaderTypes, NEW l \in Lines, NEW t, More(seen, l, t),
         NEW a \in Nat, NEW b \in Nat, SectionPlace(l, t, a, b), ~HeadsBlock(l)
  PROVE  Standing(t, Popped(l))
<1> DEFINE f == Frame(l.indent, l.key, t[b].name)
<1>1. BlockFrame(f, l) /\ f.tool = t[b].name
  BY Zenon DEF Frame, BlockFrame
<1> HIDE DEF f
<1> QED
  BY <1>1, StandingSection

\* Nor does one in the defaults.
LEMMA StandingThere ==
  ASSUME LoaderTypes, NEW l \in Lines, NEW t, More(seen, l, t),
         NEW a \in Nat, DefaultsPlace(l, t, a), ~HeadsBlock(l)
  PROVE  Standing(t, Popped(l))
<1> DEFINE f == Frame(l.indent, l.key, ToolOf(l))
<1>1. BlockFrame(f, l) /\ f.tool = ToolOf(l)
  BY Zenon DEF Frame, BlockFrame
<1> HIDE DEF f
<1> QED
  BY <1>1, StandingDefaults

\* A scalar of a section.
LEMMA ScalarStep ==
  ASSUME LoaderTypes, Kept(seen, stack, config), NEW l \in Lines, More(seen, l, seen'),
         SetScalar(l)
  PROVE  Kept(seen', stack', config')
<1> DEFINE v == ScalarValue(l.key, l.text)
<1>0. config \in Configs /\ l.text \in Texts /\ v \in Texts
  BY LineAssumption, ValueTypes DEF LoaderTypes, Texts
<1>1. l.key \in Scalars /\ Kind(l) \in {"defaults", "tool"} /\ stack' = Popped(l)
  BY DEF SetScalar, SetsScalar, WriteTool, Write
<1>2. /\ Kind(l) = "defaults" => config' = PutDefault(config, l.key, v)
      /\ Kind(l) = "tool" =>
           config' = PutSection(config, ToolOf(l), PutScalar(Section(ToolOf(l)), l.key, v))
  BY DEF SetScalar, WriteTool, Write, PutDefault, PutSection, PutScalar
<1>3. Place(l, seen')
  BY Placed DEF Kept
<1>4. ~HeadsBlock(l)
  BY <1>1 DEF Scalars, HeadsBlock
<1>a. v = ScalarValue(l.key, l.text)
  OBVIOUS
<1> HIDE DEF v
<1>5. CASE Kind(l) = "tool"
  <2>1. PICK a, b \in Nat : SectionPlace(l, seen', a, b) /\ ToolOf(l) = seen'[b].name
    BY <1>3, <1>5, Located
  <2>2. /\ TopAt(seen', a) /\ HeadingAt(seen', a, b) /\ SetsIn(seen', b)
        /\ BlockOf(seen', Len(seen')) = "scalars"
    BY <2>1 DEF SectionPlace
  <2>3. Standing(seen', stack')
    BY <1>1, <1>4, <2>1, StandingHere
  <2>4. Homes(seen')
    BY <2>2, HomesMore DEF Kept
  <2> DEFINE y == seen'[b].name
             H == SectionOf(seen', y)
             pol == PutScalar(Section(y), l.key, v)
             new == PutSection(config, y, pol)
  <2>5. b \in H /\ y \in Keys /\ Section(y) \in Policies /\ pol \in Policies
    <3>1. b \in H
      BY <2>2, OneMore, SectionAt
    <3>2. y \in Keys /\ Section(y) \in Policies
      <4>1. ToolOf(l) \in Keys
        BY <1>1, StackTypes
      <4> QED
        BY <1>0, <2>1, <4>1, SectionType
    <3> QED
      BY <1>0, <1>1, <3>1, <3>2, WithScalar
  <2>6. Agrees(seen, H, Section(y)) => Agrees(seen', H, pol)
    BY <1>0, <1>1, <2>2, <2>5, <1>a, AgreesScalar
  <2>7. config' = new
    BY <2>1, <1>2, <1>5
  <2>8. FileAgrees(seen', new)
    <3> HIDE DEF pol
    <3>1. /\ new.defaults = config.defaults /\ DOMAIN new.tools \subseteq DOMAIN config.tools \cup {y}
          /\ DOMAIN config.tools \subseteq DOMAIN new.tools /\ new.tools[y] = pol
          /\ \A x \in DOMAIN config.tools : x # y => new.tools[x] = config.tools[x]
          /\ y \in DOMAIN config.tools => Section(y) = config.tools[y]
      BY <1>0, <2>5, SectionPut
    <3> HIDE DEF new
    <3>2. y \in DOMAIN config.tools /\ Agrees(seen, H, config.tools[y]) =>
            Agrees(seen', H, new.tools[y])
      BY <2>6, <3>1
    <3> QED
      BY <2>2, <3>1, <3>2, AgreesSection DEF Kept
  <2>9. FileAgrees(seen', config')
    BY <2>7, <2>8
  <2> QED
    BY <2>3, <2>4, <2>9 DEF Kept
<1>6. CASE Kind(l) = "defaults"
  <2>1. PICK a \in Nat : DefaultsPlace(l, seen', a)
    BY <1>3, <1>6, Located
  <2>2. /\ TopAt(seen', a) /\ seen'[a].key = "defaults" /\ SetsIn(seen', a)
        /\ BlockOf(seen', Len(seen')) = "scalars"
    BY <2>1 DEF DefaultsPlace
  <2>3. Standing(seen', stack')
    BY <1>1, <1>4, <2>1, StandingThere
  <2>4. Homes(seen')
    BY <2>2, HomesMore DEF Kept
  <2> DEFINE new == PutDefault(config, l.key, v)
             pol == PutScalar(config.defaults, l.key, v)
             H == DefaultSections(seen')
  <2>5. a \in H /\ config.defaults \in Policies
    BY <1>0, <2>2, OneMore, DefaultsAt DEF Configs
  <2>6. ScalarsAgree(seen, H, config.defaults) => ScalarsAgree(seen', H, pol)
    BY <1>0, <1>1, <1>a, <2>2, <2>5, AgreesScalar
  <2>7. /\ new.tools = config.tools
        /\ \A k \in Scalars : new.defaults.scalar[k] = pol.scalar[k]
    <3>1. /\ new.tools = config.tools /\ new.defaults.scalar[l.key] = v
          /\ \A k \in Scalars : k # l.key => new.defaults.scalar[k] = config.defaults.scalar[k]
      BY <1>0, <1>1, WithDefault
    <3>2. /\ pol.scalar[l.key] = v
          /\ \A k \in Scalars : k # l.key => pol.scalar[k] = config.defaults.scalar[k]
      BY <1>0, <1>1, <2>5, WithScalar
    <3> HIDE DEF new, pol
    <3> QED
      BY <3>1, <3>2, Zenon
  <2> HIDE DEF new, pol
  <2>8. \A x \in Tools : SameTool(config, new, x)
    BY <2>7, Zenon DEF SameTool
  <2>9. ScalarsAgree(seen', H, pol) => ScalarsAgree(seen', H, new.defaults)
    BY <2>7, Zenon DEF ScalarsAgree
  <2>10. FileAgrees(seen', new)
    BY <2>2, <2>6, <2>8, <2>9, AgreesDefaults DEF Kept
  <2>11. config' = new
    BY <1>2, <1>6 DEF new
  <2>12. FileAgrees(seen', config')
    BY <2>10, <2>11
  <2> QED
    BY <2>3, <2>4, <2>12 DEF Kept
<1> QED
  BY <1>1, <1>5, <1>6

\* The transforms of a field.
LEMMA TransformsStep ==
  ASSUME LoaderTypes, Kept(seen, stack, config), NEW l \in Lines, More(seen, l, seen'),
         SetTransforms(l)
  PROVE  Kept(seen', stack', config')
<1>0. config \in Configs /\ l.text \in Texts /\ l.key \in STRING
  BY LineAssumption DEF LoaderTypes, Texts
<1>1. Kind(l) = "normalize" /\ stack' = Popped(l)
  BY DEF SetTransforms, SetsTransforms, WriteTool, Write
<1>2. config' = PutSection(config, ToolOf(l), PutTransforms(Section(ToolOf(l)), l.key, l.text))
  BY DEF SetTransforms, WriteTool, Write, PutSection, PutTransforms
<1>3. Place(l, seen')
  BY Placed DEF Kept
<1>4. ASSUME NEW a \in Nat, NEW b \in Nat, NEW c \in Nat, ToolBlockPlace(l, seen', a, b, c),
             ToolOf(l) = seen'[b].name, Kind(l) = seen'[c].key
      PROVE  Kept(seen', stack', config')
  <2>1. ToolBlockPlace(l, seen', a, b, c) /\ ToolOf(l) = seen'[b].name /\ Kind(l) = seen'[c].key
    BY <1>4
  <2>2. /\ TopAt(seen', a) /\ HeadingAt(seen', a, b) /\ SetsIn(seen', b)
        /\ BlockOf(seen', Len(seen')) = "normalize"
    BY <2>1, <1>1 DEF ToolBlockPlace, InTool
  <2>3. Standing(seen', stack')
    BY <1>1, <2>1 DEF Standing, ToolBlockPlace
  <2>4. Homes(seen')
    BY <2>2, HomesMore DEF Kept
  <2> DEFINE y == seen'[b].name
             H == SectionOf(seen', y)
             pol == PutTransforms(Section(y), l.key, l.text)
             new == PutSection(config, y, pol)
  <2>5. b \in H /\ y \in Keys /\ Section(y) \in Policies /\ pol \in Policies
    <3>1. b \in H
      BY <2>2, OneMore, SectionAt
    <3>2. y \in Keys /\ Section(y) \in Policies
      <4>1. ToolOf(l) \in Keys
        BY <1>1, StackTypes
      <4> QED
        BY <1>0, <2>1, <4>1, SectionType
    <3> QED
      BY <1>0, <1>1, <3>1, <3>2, WithTransforms
  <2>6. Agrees(seen, H, Section(y)) => Agrees(seen', H, pol)
    BY <1>0, <1>1, <2>2, <2>5, AgreesTransforms
  <2>7. config' = new
    BY <2>1, <1>2
  <2>8. FileAgrees(seen', new)
    <3> HIDE DEF pol
    <3>1. /\ new.defaults = config.defaults /\ DOMAIN new.tools \subseteq DOMAIN config.tools \cup {y}
          /\ DOMAIN config.tools \subseteq DOMAIN new.tools /\ new.tools[y] = pol
          /\ \A x \in DOMAIN config.tools : x # y => new.tools[x] = config.tools[x]
          /\ y \in DOMAIN config.tools => Section(y) = config.tools[y]
      BY <1>0, <2>5, SectionPut
    <3> HIDE DEF new
    <3>2. y \in DOMAIN config.tools /\ Agrees(seen, H, config.tools[y]) =>
            Agrees(seen', H, new.tools[y])
      BY <2>6, <3>1
    <3> QED
      BY <2>2, <3>1, <3>2, AgreesSection DEF Kept
  <2>9. FileAgrees(seen', config')
    BY <2>7, <2>8
  <2> QED
    BY <2>3, <2>4, <2>9 DEF Kept
<1>5. ASSUME NEW a \in Nat, NEW c \in Nat, DefaultsBlockPlace(l, seen', a, c),
             ToolOf(l) \notin Tools, Kind(l) = seen'[c].key
      PROVE  Kept(seen', stack', config')
  <2>1. /\ DefaultsBlockPlace(l, seen', a, c) /\ ToolOf(l) \notin Tools
        /\ Kind(l) = seen'[c].key
    BY <1>5
  <2>2. /\ TopAt(seen', a) /\ seen'[a].key = "defaults" /\ SetsIn(seen', a)
        /\ BlockOf(seen', Len(seen')) = "normalize" /\ InDefaults(seen', Popped(l), a, c)
    BY <1>1, <2>1 DEF DefaultsBlockPlace, InDefaults
  <2>3. Standing(seen', stack')
    BY <1>1, <2>2 DEF Standing
  <2>4. Homes(seen')
    BY <2>2, HomesMore DEF Kept
  <2> DEFINE y == ToolOf(l)
             pol == PutTransforms(Section(y), l.key, l.text)
             new == PutSection(config, y, pol)
             H == DefaultSections(seen')
  <2>5. /\ a \in H /\ y \in Keys /\ pol \in Policies /\ y \notin Tools
        /\ config.defaults \in Policies
    <3>1. a \in H
      BY <2>2, OneMore, DefaultsAt
    <3>2. y \in Keys /\ Section(y) \in Policies
      BY <1>0, <1>1, SectionType, StackTypes
    <3>3. config.defaults \in Policies
      BY <1>0 DEF Configs
    <3>4. pol \in Policies
      BY <1>0, <1>1, <3>2, WithTransforms
    <3> QED
      BY <2>1, <3>1, <3>2, <3>3, <3>4
  <2>6. ScalarsAgree(seen, H, config.defaults) => ScalarsAgree(seen', H, config.defaults)
    BY <1>0, <1>1, <2>2, <2>5, AgreesTransforms
  <2>7. config' = new
    BY <1>2
  <2>8. FileAgrees(seen', new)
    <3> HIDE DEF pol
    <3>1. new.defaults = config.defaults /\ \A x \in Tools : SameTool(config, new, x)
      BY <1>0, <2>5, SectionPut
    <3> HIDE DEF new
    <3> QED
      BY <2>2, <2>6, <3>1, AgreesDefaults DEF Kept
  <2>9. FileAgrees(seen', config')
    BY <2>7, <2>8
  <2> QED
    BY <2>3, <2>4, <2>9 DEF Kept
<1> QED
  BY <1>1, <1>3, <1>4, <1>5, Located

\* A number of a rate limit.
LEMMA RateStep ==
  ASSUME LoaderTypes, Kept(seen, stack, config), NEW l \in Lines, More(seen, l, seen'),
         SetRate(l)
  PROVE  Kept(seen', stack', config')
<1> DEFINE v == Number(l.text)
<1>0. config \in Configs /\ l.text \in Texts /\ v \in Texts
  BY LineAssumption, ValueTypes DEF LoaderTypes, Texts
<1>1. Kind(l) = "rate_limit" /\ stack' = Popped(l) /\ l.key \in {"rps", "burst"}
  BY DEF SetRate, SetsRate, WriteTool, Write
<1>2. config' = PutSection(config, ToolOf(l), PutRate(Section(ToolOf(l)), l.key, v))
  BY DEF SetRate, WriteTool, Write, PutSection, PutRate
<1>3. Place(l, seen')
  BY Placed DEF Kept
<1>a. v = Number(l.text)
  OBVIOUS
<1> HIDE DEF v
<1>4. ASSUME NEW a \in Nat, NEW b \in Nat, NEW c \in Nat, ToolBlockPlace(l, seen', a, b, c),
             ToolOf(l) = seen'[b].name, Kind(l) = seen'[c].key
      PROVE  Kept(seen', stack', config')
  <2>1. ToolBlockPlace(l, seen', a, b, c) /\ ToolOf(l) = seen'[b].name /\ Kind(l) = seen'[c].key
    BY <1>4
  <2>2. /\ TopAt(seen', a) /\ HeadingAt(seen', a, b) /\ SetsIn(seen', b)
        /\ BlockOf(seen', Len(seen')) = "rate_limit"
    BY <2>1, <1>1 DEF ToolBlockPlace, InTool
  <2>3. Standing(seen', stack')
    BY <1>1, <2>1 DEF Standing, ToolBlockPlace
  <2>4. Homes(seen')
    BY <2>2, HomesMore DEF Kept
  <2> DEFINE y == seen'[b].name
             H == SectionOf(seen', y)
             pol == PutRate(Section(y), l.key, v)
             new == PutSection(config, y, pol)
  <2>5. b \in H /\ y \in Keys /\ Section(y) \in Policies /\ pol \in Policies
    <3>1. b \in H
      BY <2>2, OneMore, SectionAt
    <3>2. y \in Keys /\ Section(y) \in Policies
      <4>1. ToolOf(l) \in Keys
        BY <1>1, StackTypes
      <4> QED
        BY <1>0, <2>1, <4>1, SectionType
    <3> QED
      BY <1>0, <1>1, <3>1, <3>2, WithRate
  <2>6. Agrees(seen, H, Section(y)) => Agrees(seen', H, pol)
    BY <1>0, <1>1, <2>2, <2>5, <1>a, AgreesRate
  <2>7. config' = new
    BY <2>1, <1>2
  <2>8. FileAgrees(seen', new)
    <3> HIDE DEF pol
    <3>1. /\ new.defaults = config.defaults /\ DOMAIN new.tools \subseteq DOMAIN config.tools \cup {y}
          /\ DOMAIN config.tools \subseteq DOMAIN new.tools /\ new.tools[y] = pol
          /\ \A x \in DOMAIN config.tools : x # y => new.tools[x] = config.tools[x]
          /\ y \in DOMAIN config.tools => Section(y) = config.tools[y]
      BY <1>0, <2>5, SectionPut
    <3> HIDE DEF new
    <3>2. y \in DOMAIN config.tools /\ Agrees(seen, H, config.tools[y]) =>
            Agrees(seen', H, new.tools[y])
      BY <2>6, <3>1
    <3> QED
      BY <2>2, <3>1, <3>2, AgreesSection DEF Kept
  <2>9. FileAgrees(seen', config')
    BY <2>7, <2>8
  <2> QED
    BY <2>3, <2>4, <2>9 DEF Kept
<1>5. ASSUME NEW a \in Nat, NEW c \in Nat, DefaultsBlockPlace(l, seen', a, c),
             ToolOf(l) \notin Tools, Kind(l) = seen'[c].key
      PROVE  Kept(seen', stack', config')
  <2>1. /\ DefaultsBlockPlace(l, seen', a, c) /\ ToolOf(l) \notin Tools
        /\ Kind(l) = seen'[c].key
    BY <1>5
  <2>2. /\ TopAt(seen', a) /\ seen'[a].key = "defaults" /\ SetsIn(seen', a)
        /\ BlockOf(seen', Len(seen')) = "rate_limit" /\ InDefaults(seen', Popped(l), a, c)
    BY <1>1, <2>1 DEF DefaultsBlockPlace, InDefaults
  <2>3. Standing(seen', stack')
    BY <1>1, <2>2 DEF Standing
  <2>4. Homes(seen')
    BY <2>2, HomesMore DEF Kept
  <2> DEFINE y == ToolOf(l)
             pol == PutRate(Section(y), l.key, v)
             new == PutSection(config, y, pol)
             H == DefaultSections(seen')
  <2>5. /\ a \in H /\ y \in Keys /\ pol \in Policies /\ y \notin Tools
        /\ config.defaults \in Policies
    <3>1. a \in H
      BY <2>2, OneMore, DefaultsAt
    <3>2. y \in Keys /\ Section(y) \in Policies
      BY <1>0, <1>1, SectionType, StackTypes
    <3>3. config.defaults \in Policies
      BY <1>0 DEF Configs
    <3>4. pol \in Policies
      BY <1>0, <1>1, <3>2, WithRate
    <3> QED
      BY <2>1, <3>1, <3>2, <3>3, <3>4
  <2>6. ScalarsAgree(seen, H, config.defaults) => ScalarsAgree(seen', H, config.defaults)
    BY <1>0, <1>1, <2>2, <2>5, <1>a, AgreesRate
  <2>7. config' = new
    BY <1>2
  <2>8. FileAgrees(seen', new)
    <3> HIDE DEF pol
    <3>1. new.defaults = config.defaults /\ \A x \in Tools : SameTool(config, new, x)
      BY <1>0, <2>5, SectionPut
    <3> HIDE DEF new
    <3> QED
      BY <2>2, <2>6, <3>1, AgreesDefaults DEF Kept
  <2>9. FileAgrees(seen', config')
    BY <2>7, <2>8
  <2> QED
    BY <2>3, <2>4, <2>9 DEF Kept
<1> QED
  BY <1>1, <1>3, <1>4, <1>5, Located

-----------------------------------------------------------------------------
(* The invariant.                                                          *)

\* The parser has no place for the transforms of the defaults: they go to
\* the section of the tool "".
PolicyInv ==
  /\ LoaderTypes
  /\ config.defaults.normalize = <<>>
  /\ status # "failed" => Kept(seen, stack, config)

\* Only a scalar changes the defaults.
LEMMA DefaultTransforms ==
  ASSUME LoaderTypes, NEW l \in Lines,
         \/ OpenTop(l) \/ OpenTool(l) \/ OpenBlock(l) \/ SetScalar(l) \/ SetTransforms(l)
         \/ SetRate(l) \/ Reject(l)
  PROVE  config'.defaults.normalize = config.defaults.normalize
<1>0. /\ config \in Configs /\ l.name \in Keys /\ l.key \in STRING /\ l.text \in Texts
  BY LineAssumption DEF LoaderTypes, Keys, Texts
<1>1. ASSUME NEW y \in Keys, NEW pol \in Policies
      PROVE  PutSection(config, y, pol).defaults.normalize = config.defaults.normalize
  BY <1>0, WithSection
<1>2. CASE OpenTop(l) \/ OpenBlock(l) \/ Reject(l)
  BY <1>2 DEF OpenTop, OpenBlock, Reject
<1>3. CASE OpenTool(l)
  <2>1. config' = PutSection(config, l.name, ZeroPolicy)
    BY <1>3 DEF OpenTool, PutSection
  <2>2. ZeroPolicy \in Policies
    BY ZeroTypes
  <2> QED
    BY <1>0, <1>1, <2>1, <2>2
<1>4. CASE SetScalar(l)
  <2> DEFINE v == ScalarValue(l.key, l.text)
             pol == PutScalar(Section(ToolOf(l)), l.key, v)
  <2>1. l.key \in Scalars /\ Kind(l) # "none"
    BY <1>4 DEF SetScalar, SetsScalar
  <2>2. \/ config' = PutDefault(config, l.key, v) \/ config' = PutSection(config, ToolOf(l), pol)
    BY <1>4 DEF SetScalar, WriteTool, Write, PutDefault, PutSection, PutScalar
  <2>3. v \in Texts
    BY <1>0, ValueTypes
  <2> HIDE DEF v
  <2>4. ToolOf(l) \in Keys /\ pol \in Policies
    BY <1>0, <2>1, <2>3, SectionType, WithScalar, StackTypes
  <2>5. PutDefault(config, l.key, v).defaults.normalize = config.defaults.normalize
    BY <1>0, <2>1, <2>3, WithDefault
  <2> HIDE DEF pol
  <2> QED
    BY <1>1, <2>2, <2>4, <2>5
<1>5. CASE SetTransforms(l)
  <2> DEFINE pol == PutTransforms(Section(ToolOf(l)), l.key, l.text)
  <2>1. Kind(l) # "none" /\ config' = PutSection(config, ToolOf(l), pol)
    BY <1>5 DEF SetTransforms, SetsTransforms, WriteTool, Write, PutSection, PutTransforms
  <2>2. pol \in Policies /\ ToolOf(l) \in Keys
    BY <1>0, <2>1, SectionType, WithTransforms, StackTypes
  <2> HIDE DEF pol
  <2> QED
    BY <1>1, <2>1, <2>2
<1>6. CASE SetRate(l)
  <2> DEFINE pol == PutRate(Section(ToolOf(l)), l.key, Number(l.text))
  <2>1. Kind(l) # "none" /\ l.key \in {"rps", "burst"} /\ config' = PutSection(config, ToolOf(l), pol)
    BY <1>6 DEF SetRate, SetsRate, WriteTool, Write, PutSection, PutRate
  <2>2. pol \in Policies /\ ToolOf(l) \in Keys
    BY <1>0, <2>1, ValueTypes, SectionType, WithRate, StackTypes
  <2> HIDE DEF pol
  <2> QED
    BY <1>1, <2>1, <2>2
<1> QED
  BY <1>2, <1>3, <1>4, <1>5, <1>6

\* A line the parser accepts.
LEMMA LineStep ==
  ASSUME LoaderTypes, Kept(seen, stack, config), NEW l \in Lines, More(seen, l, seen'),
         \/ OpenTop(l) \/ OpenTool(l) \/ OpenBlock(l) \/ SetScalar(l) \/ SetTransforms(l)
         \/ SetRate(l)
  PROVE  Kept(seen', stack', config')
BY TopStep, ToolStep, BlockStep, ScalarStep, TransformsStep, RateStep

\* An empty file says nothing.
LEMMA InitPolicy ==
  ASSUME Init
  PROVE  PolicyInv
<1>1. seen = <<>> /\ stack = <<>> /\ status = "reading"
      /\ config = [defaults |-> ZeroPolicy, tools |-> <<>>]
  BY DEF Init
<1>2. /\ seen \in Seq(Lines) /\ stack \in Seq(Frames) /\ Len(seen) = 0 /\ Len(stack) = 0
      /\ MaxLines \in Nat
  BY <1>1, LineAssumption
<1>3. config.defaults = ZeroPolicy /\ config.tools = <<>> /\ config \in Configs
  BY <1>1, ZeroTypes DEF Configs
<1>4. LoaderTypes
  BY <1>1, <1>2, <1>3 DEF LoaderTypes, Growing
<1>5. config.defaults.normalize = <<>>
  BY <1>3 DEF ZeroPolicy
<1>6. Standing(seen, stack) /\ Homes(seen)
  BY <1>1, <1>2 DEF Standing, Homes
<1>7. /\ \A x : Headings(seen, x) = {}
      /\ \A H, block, k : Settings(seen, H, block, k) = {}
  BY <1>2 DEF Headings, Settings
<1>8. \A H : Blank(seen, H)
  BY <1>7, Zenon DEF Blank, Said
<1>9. ScalarsAgree(seen, DefaultSections(seen), config.defaults)
  BY <1>3, <1>8, ZeroAgrees DEF Agrees
<1>10. \A x \in Tools : ToolAgrees(seen, config, x)
  BY <1>3, <1>7, ZeroTypes, Zenon DEF ToolAgrees
<1> QED
  BY <1>4, <1>5, <1>6, <1>9, <1>10 DEF PolicyInv, Kept, FileAgrees

\* Every step keeps the invariant.
LEMMA NextPolicy ==
  ASSUME PolicyInv, [Next]_vars
  PROVE  PolicyInv'
<1>0. LoaderTypes /\ config.defaults.normalize = <<>>
  BY DEF PolicyInv
<1>1. CASE ReadLine
  <2>1. status = "reading" /\ Len(seen) < MaxLines /\ Kept(seen, stack, config)
    BY <1>1 DEF ReadLine, PolicyInv
  <2>2. PICK l \in Lines :
          \/ OpenTop(l) \/ OpenTool(l) \/ OpenBlock(l) \/ SetScalar(l) \/ SetTransforms(l)
          \/ SetRate(l) \/ Reject(l)
    BY <1>1 DEF ReadLine
  <2>3. LoaderTypes' /\ More(seen, l, seen')
    BY <1>0, <2>1, <2>2, LineTypeStep
  <2>4. config'.defaults.normalize = <<>>
    BY <1>0, <2>2, DefaultTransforms
  <2>5. CASE Reject(l)
    <3>1. status' = "failed"
      BY <2>5 DEF Reject
    <3> QED
      BY <2>3, <2>4, <3>1 DEF PolicyInv
  <2>6. CASE ~Reject(l)
    <3>1. Kept(seen', stack', config')
      BY <1>0, <2>1, <2>2, <2>3, <2>6, LineStep
    <3> QED
      BY <2>3, <2>4, <3>1 DEF PolicyInv
  <2> QED
    BY <2>5, <2>6
<1>2. CASE Validate
  <2>1. /\ status = "reading" /\ status' \in {"loaded", "failed"}
        /\ seen' = seen /\ stack' = stack /\ config' = config
    BY <1>2 DEF Validate
  <2>2. LoaderTypes'
    BY <1>0, <2>1 DEF LoaderTypes
  <2>3. Kept(seen', stack', config')
    BY <2>1 DEF PolicyInv
  <2> QED
    BY <1>0, <2>1, <2>2, <2>3 DEF PolicyInv
<1>3. CASE UNCHANGED vars
  <2>1. seen' = seen /\ stack' = stack /\ config' = config /\ status' = status
    BY <1>3 DEF vars
  <2>2. LoaderTypes'
    BY <1>0, <2>1 DEF LoaderTypes
  <2> QED
    BY <2>1, <2>2 DEF PolicyInv
<1> QED
  BY <1>1, <1>2, <1>3 DEF Next

\* The invariant holds in every state of the loader.
THEOREM PolicyInvariant == Spec => []PolicyInv
BY InitPolicy, NextPolicy, PTL DEF Spec

\* The variables of the loader keep their types, and indentation grows along
\* the stack, for every file.
THEOREM PolicyTypeCorrect == Spec => []TypeOK
<1>1. ASSUME LoaderTypes PROVE TypeOK
  <2>1. /\ stack \in Seq(Frames) /\ Growing(stack) /\ Len(stack) \in Nat
        /\ DOMAIN stack = 1..Len(stack)
    BY <1>1 DEF LoaderTypes
  <2>2. \A i \in DOMAIN stack :
          /\ stack[i].kind \in {"defaults", "tools", "tool", "normalize", "rate_limit"}
          /\ stack[i].tool \in Keys
    <3>1. \A i \in DOMAIN stack : stack[i] \in Frames
      BY <2>1
    <3> QED
      BY <3>1 DEF Frames
  <2>3. \A i \in DOMAIN stack : i > 1 => stack[i].indent > stack[i - 1].indent
    BY <2>1 DEF Growing
  <2>4. DOMAIN config.tools \subseteq Keys
    <3>1. config.tools \in Sections
      BY <1>1 DEF LoaderTypes, Configs
    <3> QED
      BY <3>1, SectionTypes
  <2>5. /\ seen \in Seq(Lines) /\ Len(seen) <= MaxLines
        /\ status \in {"reading", "failed", "loaded"}
    BY <1>1 DEF LoaderTypes
  <2> QED
    BY <2>2, <2>3, <2>4, <2>5, Zenon DEF TypeOK, Keys
<1>2. PolicyInv => TypeOK
  BY <1>1 DEF PolicyInv
<1> QED
  BY <1>2, PolicyInvariant, PTL

\* While parse accepts the file, the Config is what the indentation says.
THEOREM ReadAsIndentedHolds == Spec => []ReadAsIndented
<1>1. PolicyInv => ReadAsIndented
  BY ReadIs DEF PolicyInv, Kept
<1> QED
  BY <1>1, PolicyInvariant, PTL

\* The scalars of the policy For gives a tool are those of its section and of
\* the defaults, as they are written in the file.
LEMMA ForScalars ==
  ASSUME config \in Configs, FileAgrees(seen, config), NEW t \in Tools, NEW k \in Scalars,
         NEW own, own = ScalarValue(k, OwnText(t, "scalars", k)),
         NEW default, default = ScalarValue(k, DefaultText("scalars", k))
  PROVE  /\ Headings(seen, t) = {} => For(config, t).scalar[k] = default
         /\ Headings(seen, t) # {} /\ own = <<>> /\ k \in {"mode", "ttl", "semantic_threshold"}
              => For(config, t).scalar[k] = default
         /\ Headings(seen, t) # {} /\ ~(own = <<>> /\ k \in {"mode", "ttl", "semantic_threshold"})
              => For(config, t).scalar[k] = own
<1>1. config.defaults.scalar[k] = default
  BY Zenon DEF FileAgrees, ScalarsAgree, DefaultText
<1>2. t \in DOMAIN config.tools <=> Headings(seen, t) # {}
  BY DEF FileAgrees, ToolAgrees
<1>3. CASE Headings(seen, t) = {}
  <2>1. For(config, t) = config.defaults
    BY <1>2, <1>3, Zenon DEF For
  <2> QED
    BY <1>1, <1>3, <2>1, Zenon
<1>4. CASE Headings(seen, t) # {}
  <2> DEFINE p == config.tools[t]
  <2>1. p.scalar[k] = own
    BY <1>2, <1>4, Zenon DEF FileAgrees, ToolAgrees, Agrees, ScalarsAgree, OwnText
  <2>2. p \in Policies
    <3>1. config.tools \in Sections
      BY DEF Configs
    <3> QED
      BY <1>2, <1>4, <3>1, SectionTypes
  <2>3. For(config, t) = MergeDefaults(p, config.defaults)
    BY <1>2, <1>4, Zenon DEF For
  <2> HIDE DEF p
  <2> DEFINE m == [j \in Scalars |-> IF j \in Inherited /\ p.scalar[j] = <<>>
                                       THEN config.defaults.scalar[j] ELSE p.scalar[j]]
  <2>4. MergeDefaults(p, config.defaults) = [p EXCEPT !.scalar = m]
    BY Zenon DEF MergeDefaults
  <2>5. /\ k \in Inherited /\ p.scalar[k] = <<>> => m[k] = config.defaults.scalar[k]
        /\ ~(k \in Inherited /\ p.scalar[k] = <<>>) => m[k] = p.scalar[k]
    OBVIOUS
  <2> HIDE DEF m
  <2>6. [p EXCEPT !.scalar = m].scalar = m
    BY <2>2 DEF Policies
  <2>7. Inherited = {"mode", "ttl", "semantic_threshold"}
    BY DEF Inherited
  <2>8. For(config, t).scalar = m
    BY <2>3, <2>4, <2>6, Zenon
  <2> QED
    BY <1>1, <1>4, <2>1, <2>5, <2>7, <2>8, Zenon
<1> QED
  BY <1>3, <1>4

\* Of the values a tool may inherit, only an empty text and the number 0 are
\* zero values.
LEMMA ZeroValues ==
  ASSUME NEW k \in {"mode", "ttl", "semantic_threshold"}, NEW text
  PROVE  ScalarValue(k, text) = <<>> <=>
           text = <<>> \/ (text = <<"0">> /\ k \in {"ttl", "semantic_threshold"})
<1>1. CASE k = "mode"
  <2>1. ScalarValue(k, text) = text
    BY <1>1, Zenon DEF ScalarValue
  <2> QED
    BY <1>1, <2>1
<1>2. CASE k \in {"ttl", "semantic_threshold"}
  <2>1. ScalarValue(k, text) = Number(text)
    BY <1>2, Zenon DEF ScalarValue
  <2> QED
    BY <1>2, <2>1 DEF Number
<1> QED
  BY <1>1, <1>2

\* A loaded file gives a tool what its own section says, mode, ttl and
\* threshold of the defaults where it is silent, and nothing else of them.
THEOREM EffectiveAsWrittenHolds == Spec => []EffectiveAsWritten
<1>1. PolicyInv => EffectiveAsWritten
  <2> SUFFICES ASSUME PolicyInv, status = "loaded", NEW t \in Tools, NEW k \in Scalars,
                      ~(OwnText(t, "scalars", k) = <<"0">> /\ k \in {"ttl", "semantic_threshold"})
               PROVE  LET own == OwnText(t, "scalars", k)
                          decides == IF \/ Headings(seen, t) = {}
                                        \/ own = <<>> /\ k \in {"mode", "ttl", "semantic_threshold"}
                                       THEN DefaultText("scalars", k) ELSE own
                      IN  For(config, t).scalar[k] = ScalarValue(k, decides)
    BY Zenon DEF EffectiveAsWritten
  <2> DEFINE text == OwnText(t, "scalars", k)
             own == ScalarValue(k, OwnText(t, "scalars", k))
             default == ScalarValue(k, DefaultText("scalars", k))
             fallsBack == k \in {"mode", "ttl", "semantic_threshold"}
  <2>1. config \in Configs /\ FileAgrees(seen, config)
    BY DEF PolicyInv, LoaderTypes, Kept
  <2>2. /\ own = ScalarValue(k, OwnText(t, "scalars", k))
        /\ default = ScalarValue(k, DefaultText("scalars", k))
    OBVIOUS
  <2>3. fallsBack => (own = <<>> <=> text = <<>>)
    BY ZeroValues, Zenon
  <2> HIDE DEF own, default
  <2>4. /\ Headings(seen, t) = {} => For(config, t).scalar[k] = default
        /\ Headings(seen, t) # {} /\ own = <<>> /\ fallsBack
             => For(config, t).scalar[k] = default
        /\ Headings(seen, t) # {} /\ ~(own = <<>> /\ fallsBack)
             => For(config, t).scalar[k] = own
    BY <2>1, <2>2, ForScalars, Zenon
  <2> DEFINE inherits == Headings(seen, t) = {} \/ (text = <<>> /\ fallsBack)
  <2>5. CASE inherits
    <3>1. For(config, t).scalar[k] = default
      BY <2>3, <2>4, <2>5, Zenon
    <3> QED
      BY <2>5, <3>1, Zenon DEF default
  <2>6. CASE ~inherits
    <3>1. For(config, t).scalar[k] = own
      BY <2>3, <2>4, <2>6, Zenon
    <3> QED
      BY <2>6, <3>1, Zenon DEF own
  <2> QED
    BY <2>5, <2>6
<1> QED
  BY <1>1, PolicyInvariant, PTL

-----------------------------------------------------------------------------
(* The transforms of a field, one after the other.                         *)

\* The function that computes Apply on the first n transforms, by the sets of
\* their positions.
Folds(h, v, ts, n) ==
  h = [s \in SUBSET (1..n) |->
         IF s = {} THEN v ELSE Transform(h[s \ {Max(s)}], ts[Max(s)])]

\* What that function does on the sets it is defined on.
LEMMA FoldsAt ==
  ASSUME NEW h, NEW v, NEW ts, NEW n \in Nat, Folds(h, v, ts, n)
  PROVE  /\ h[{}] = v
         /\ \A s \in SUBSET (1..n) : s # {} => h[s] = Transform(h[s \ {Max(s)}], ts[Max(s)])
<1> DEFINE F(s) == IF s = {} THEN v ELSE Transform(h[s \ {Max(s)}], ts[Max(s)])
<1>1. h = [s \in SUBSET (1..n) |-> F(s)]
  BY Zenon DEF Folds
<1>2. \A s \in SUBSET (1..n) : F(s) = IF s = {} THEN v ELSE Transform(h[s \ {Max(s)}], ts[Max(s)])
  OBVIOUS
<1> HIDE DEF F
<1>3. \A s \in SUBSET (1..n) : h[s] = F(s)
  BY <1>1, Zenon
<1>4. {} \in SUBSET (1..n)
  OBVIOUS
<1> QED
  BY <1>2, <1>3, <1>4, Zenon

\* There is such a function for one more transform.
LEMMA FoldsMore ==
  ASSUME NEW g, NEW v, NEW ts, NEW n \in Nat, Folds(g, v, ts, n)
  PROVE  \E h : Folds(h, v, ts, n + 1)
<1> DEFINE G(s) == IF n + 1 \in s THEN Transform(g[s \ {n + 1}], ts[n + 1]) ELSE g[s]
           h == [s \in SUBSET (1..(n + 1)) |-> G(s)]
           F(s) == IF s = {} THEN v ELSE Transform(h[s \ {Max(s)}], ts[Max(s)])
<1>1. /\ g[{}] = v
      /\ \A s \in SUBSET (1..n) : s # {} => g[s] = Transform(g[s \ {Max(s)}], ts[Max(s)])
  BY FoldsAt
<1>2. \A s \in SUBSET (1..(n + 1)) : /\ n + 1 \in s => h[s] = Transform(g[s \ {n + 1}], ts[n + 1])
                                     /\ n + 1 \notin s => h[s] = g[s]
  BY Zenon
<1> HIDE DEF h
<1>3. ASSUME NEW s \in SUBSET (1..(n + 1)) PROVE h[s] = F(s)
  <2>1. CASE n + 1 \in s
    <3>1. s \subseteq Nat /\ \A y \in s : y <= n + 1
      OBVIOUS
    <3>2. Max(s) = n + 1 /\ s # {}
      BY <2>1, <3>1, MaxIs
    <3>3. s \ {n + 1} \in SUBSET (1..(n + 1)) /\ n + 1 \notin s \ {n + 1}
      OBVIOUS
    <3>4. h[s \ {n + 1}] = g[s \ {n + 1}]
      BY <1>2, <3>3, Zenon
    <3> QED
      BY <1>2, <2>1, <3>2, <3>4, Zenon
  <2>2. CASE n + 1 \notin s
    <3>1. s \in SUBSET (1..n)
      BY <2>2
    <3>2. h[s] = g[s]
      BY <1>2, <2>2, Zenon
    <3>3. CASE s = {}
      BY <1>1, <3>2, <3>3, Zenon
    <3>4. CASE s # {}
      <4>1. s \ {Max(s)} \in SUBSET (1..(n + 1)) /\ n + 1 \notin s \ {Max(s)}
        BY <2>2
      <4>2. h[s \ {Max(s)}] = g[s \ {Max(s)}]
        BY <1>2, <4>1, Zenon
      <4> QED
        BY <1>1, <3>1, <3>2, <3>4, <4>2, Zenon
    <3> QED
      BY <3>3, <3>4
  <2> QED
    BY <2>1, <2>2
<1>4. h = [s \in SUBSET (1..(n + 1)) |-> h[s]]
  BY Zenon DEF h
<1>5. h = [s \in SUBSET (1..(n + 1)) |-> F(s)]
  BY <1>3, <1>4, Zenon
<1>6. Folds(h, v, ts, n + 1)
  BY <1>5, Zenon DEF Folds
<1> QED
  BY <1>6

\* There is one for every number of transforms.
LEMMA FoldsExist ==
  ASSUME NEW v, NEW ts, NEW n \in Nat
  PROVE  \E h : Folds(h, v, ts, n)
<1> DEFINE Bad == {m \in Nat : ~ \E h : Folds(h, v, ts, m)}
<1> SUFFICES ASSUME Bad # {} PROVE FALSE
  OBVIOUS
<1>1. PICK m \in Bad : \A y \in Bad : m <= y
  <2>1. Bad \subseteq Nat
    OBVIOUS
  <2> HIDE DEF Bad
  <2> QED
    BY <2>1, LeastNat
<1>2. CASE m = 0
  <2> DEFINE h == [s \in SUBSET (1..0) |-> v]
             F(s) == IF s = {} THEN v ELSE Transform(h[s \ {Max(s)}], ts[Max(s)])
  <2>1. \A s \in SUBSET (1..0) : F(s) = v
    <3>1. \A s \in SUBSET (1..0) : s = {}
      OBVIOUS
    <3> QED
      BY <3>1, Zenon
  <2>2. h = [s \in SUBSET (1..0) |-> F(s)]
    <3>1. [s \in SUBSET (1..0) |-> v] = [s \in SUBSET (1..0) |-> F(s)]
      BY <2>1, Zenon
    <3> QED
      BY <3>1
  <2> HIDE DEF h
  <2>3. Folds(h, v, ts, 0)
    BY <2>2, Zenon DEF Folds
  <2> QED
    BY <1>1, <1>2, <2>3
<1>3. CASE m # 0
  <2>1. m - 1 \in Nat /\ ~(m <= m - 1)
    BY <1>1, <1>3
  <2>2. m - 1 \notin Bad
    BY <1>1, <2>1
  <2>3. PICK g : Folds(g, v, ts, m - 1)
    BY <2>1, <2>2
  <2>4. \E h : Folds(h, v, ts, (m - 1) + 1)
    BY <2>1, <2>3, FoldsMore
  <2>5. (m - 1) + 1 = m
    BY <1>1
  <2>6. \E h : Folds(h, v, ts, m)
    BY <2>4, <2>5
  <2> QED
    BY <1>1, <2>6
<1> QED
  BY <1>2, <1>3

\* r goes from v through the transforms of ts.
Runs(r, v, ts) ==
  /\ r[0] = v /\ r[Len(ts)] = Apply(v, ts)
  /\ \A k \in 0..(Len(ts) - 1) : r[k + 1] = Transform(r[k], ts[k + 1])

\* Apply takes the transforms in their order.
LEMMA ApplyRuns ==
  ASSUME NEW v, NEW ts \in Seq(STRING)
  PROVE  \E r : Runs(r, v, ts)
<1> DEFINE N == Len(ts)
           h == CHOOSE f : f = [s \in SUBSET DOMAIN ts |->
                  IF s = {} THEN v ELSE Transform(f[s \ {Max(s)}], ts[Max(s)])]
           r == [k \in 0..N |-> h[1..k]]
<1>1. N \in Nat /\ DOMAIN ts = 1..N
  OBVIOUS
<1>2. Apply(v, ts) = h[DOMAIN ts]
  BY Zenon DEF Apply, FoldLeft, MapThenFoldSet
<1>3. Folds(h, v, ts, N)
  <2>1. \E f : Folds(f, v, ts, N)
    BY <1>1, FoldsExist
  <2>2. h = CHOOSE f : Folds(f, v, ts, N)
    BY <1>1, Zenon DEF Folds
  <2> HIDE DEF h
  <2> QED
    BY <2>1, <2>2, Zenon
<1> HIDE DEF h
<1>4. /\ h[{}] = v
      /\ \A s \in SUBSET (1..N) : s # {} => h[s] = Transform(h[s \ {Max(s)}], ts[Max(s)])
  BY <1>1, <1>3, FoldsAt
<1> HIDE DEF N
<1>5. r[0] = v
  <2>1. 0 \in 0..N /\ 1..0 = {}
    BY <1>1
  <2>2. r[0] = h[1..0]
    BY <2>1, Zenon
  <2> QED
    BY <1>4, <2>1, <2>2, Zenon
<1>6. r[N] = Apply(v, ts)
  <2>1. N \in 0..N
    BY <1>1
  <2> QED
    BY <1>1, <1>2, <2>1, Zenon
<1>7. ASSUME NEW k \in 0..(N - 1) PROVE r[k + 1] = Transform(r[k], ts[k + 1])
  <2>1. k \in 0..N /\ k + 1 \in 0..N
    BY <1>1
  <2>2. r[k] = h[1..k] /\ r[k + 1] = h[1..(k + 1)]
    BY <2>1, Zenon
  <2> DEFINE s == 1..(k + 1)
  <2>3. s \subseteq Nat /\ k + 1 \in s /\ \A y \in s : y <= k + 1
    BY <1>1
  <2>4. s \in SUBSET (1..N) /\ s # {} /\ s \ {k + 1} = 1..k
    <3>0. k \in Nat /\ N \in Nat /\ k + 1 <= N
      BY <1>1
    <3>1. s \in SUBSET (1..N)
      BY <3>0
    <3>2. s # {}
      BY <2>3
    <3>3. \A i : i \in s \ {k + 1} <=> i \in 1..k
      BY <3>0
    <3> QED
      BY <3>1, <3>2, <3>3, Zenon
  <2> HIDE DEF s
  <2>5. Max(s) = k + 1
    BY <2>3, MaxIs
  <2>6. h[s] = Transform(h[s \ {Max(s)}], ts[Max(s)])
    BY <1>4, <2>4, Zenon
  <2> QED
    BY <2>2, <2>4, <2>5, <2>6, Zenon DEF s
<1> HIDE DEF r
<1>8. Runs(r, v, ts)
  BY <1>5, <1>6, <1>7, Zenon DEF Runs, N
<1> QED
  BY <1>8

-----------------------------------------------------------------------------
(* Two strings under the same transforms.                                  *)

Str(word, letters, pad, gap) ==
  [type |-> "string", word |-> word, letters |-> letters, pad |-> pad, gap |-> gap]

LettersAfter(letters, n) ==
  IF n = "lowercase" THEN "lower" ELSE IF n = "uppercase" THEN "upper" ELSE letters

PadAfter(pad, n) == IF n = "trim" \/ n = "collapse_whitespace" THEN FALSE ELSE pad

GapAfter(gap, n) == IF n = "collapse_whitespace" THEN FALSE ELSE gap

\* What a transform does to each part of a string.
LEMMA TransformIs ==
  ASSUME NEW word, NEW letters, NEW pad, NEW gap, NEW n
  PROVE  Transform(Str(word, letters, pad, gap), n) =
           Str(word, LettersAfter(letters, n), PadAfter(pad, n), GapAfter(gap, n))
<1>0. /\ "trim" # "lowercase" /\ "trim" # "uppercase" /\ "trim" # "collapse_whitespace"
      /\ "lowercase" # "uppercase" /\ "lowercase" # "collapse_whitespace"
      /\ "uppercase" # "collapse_whitespace"
  OBVIOUS
<1>1. CASE n = "trim"
  <2>1. Transform(Str(word, letters, pad, gap), "trim") = Str(word, letters, FALSE, gap)
    BY Zenon DEF Transform, Str
  <2>2. LettersAfter(letters, n) = letters /\ PadAfter(pad, n) = FALSE /\ GapAfter(gap, n) = gap
    BY <1>0, <1>1, Zenon DEF LettersAfter, PadAfter, GapAfter
  <2> QED
    BY <1>1, <2>1, <2>2, Zenon
<1>2. CASE n = "lowercase"
  <2>1. Transform(Str(word, letters, pad, gap), "lowercase") = Str(word, "lower", pad, gap)
    BY Zenon DEF Transform, Str
  <2>2. LettersAfter(letters, n) = "lower" /\ PadAfter(pad, n) = pad /\ GapAfter(gap, n) = gap
    BY <1>0, <1>2, Zenon DEF LettersAfter, PadAfter, GapAfter
  <2> QED
    BY <1>2, <2>1, <2>2, Zenon
<1>3. CASE n = "uppercase"
  <2>1. Transform(Str(word, letters, pad, gap), "uppercase") = Str(word, "upper", pad, gap)
    BY Zenon DEF Transform, Str
  <2>2. LettersAfter(letters, n) = "upper" /\ PadAfter(pad, n) = pad /\ GapAfter(gap, n) = gap
    BY <1>0, <1>3, Zenon DEF LettersAfter, PadAfter, GapAfter
  <2> QED
    BY <1>3, <2>1, <2>2, Zenon
<1>4. CASE n = "collapse_whitespace"
  <2>1. Transform(Str(word, letters, pad, gap), "collapse_whitespace") =
          Str(word, letters, FALSE, FALSE)
    BY Zenon DEF Transform, Str, CollapseWhitespace
  <2>2. LettersAfter(letters, n) = letters /\ PadAfter(pad, n) = FALSE /\ GapAfter(gap, n) = FALSE
    BY <1>0, <1>4, Zenon DEF LettersAfter, PadAfter, GapAfter
  <2> QED
    BY <1>4, <2>1, <2>2, Zenon
<1>5. CASE n # "trim" /\ n # "lowercase" /\ n # "uppercase" /\ n # "collapse_whitespace"
  <2>1. Transform(Str(word, letters, pad, gap), n) = Str(word, letters, pad, gap)
    BY <1>5, Zenon DEF Transform
  <2>2. LettersAfter(letters, n) = letters /\ PadAfter(pad, n) = pad /\ GapAfter(gap, n) = gap
    BY <1>5, Zenon DEF LettersAfter, PadAfter, GapAfter
  <2> QED
    BY <2>1, <2>2, Zenon
<1> QED
  BY <1>1, <1>2, <1>3, <1>4, <1>5

\* The parts x and y of two strings, once transforms that set the part were
\* applied (c) or not: they started as a and b.
Fate(c, a, b, x, y) == (c => x = y) /\ (~c => x = a /\ y = b)

\* One of the first k transforms sets the case; the blanks around; the gaps.
CaseSet(ts, k) == \E i \in 1..k : ts[i] = "lowercase" \/ ts[i] = "uppercase"

PadSet(ts, k) == \E i \in 1..k : ts[i] = "trim" \/ ts[i] = "collapse_whitespace"

GapSet(ts, k) == \E i \in 1..k : ts[i] = "collapse_whitespace"

\* What one more transform sets.
LEMMA SetMore ==
  ASSUME NEW ts, NEW k \in Nat
  PROVE  /\ ~CaseSet(ts, 0) /\ ~PadSet(ts, 0) /\ ~GapSet(ts, 0)
         /\ CaseSet(ts, k + 1) <=>
              CaseSet(ts, k) \/ ts[k + 1] = "lowercase" \/ ts[k + 1] = "uppercase"
         /\ PadSet(ts, k + 1) <=>
              PadSet(ts, k) \/ ts[k + 1] = "trim" \/ ts[k + 1] = "collapse_whitespace"
         /\ GapSet(ts, k + 1) <=> GapSet(ts, k) \/ ts[k + 1] = "collapse_whitespace"
<1>1. \A i : i \in 1..(k + 1) <=> i \in 1..k \/ i = k + 1
  OBVIOUS
<1>2. \A i : i \notin 1..0
  OBVIOUS
<1> QED
  BY <1>1, <1>2, Zenon DEF CaseSet, PadSet, GapSet

\* Two strings after the first k transforms.
Pair(v, w, x, y, ts, k) ==
  \E a, b, p, q, g, h :
    /\ x = Str(v.word, a, p, g) /\ y = Str(w.word, b, q, h)
    /\ Fate(CaseSet(ts, k), v.letters, w.letters, a, b)
    /\ Fate(PadSet(ts, k), v.pad, w.pad, p, q)
    /\ Fate(GapSet(ts, k), v.gap, w.gap, g, h)

\* One more transform for both.
LEMMA PairMore ==
  ASSUME NEW v, NEW w, NEW x, NEW y, NEW ts, NEW k \in Nat, Pair(v, w, x, y, ts, k)
  PROVE  Pair(v, w, Transform(x, ts[k + 1]), Transform(y, ts[k + 1]), ts, k + 1)
<1> DEFINE n == ts[k + 1]
<1>1. PICK a, b, p, q, g, h :
        /\ x = Str(v.word, a, p, g) /\ y = Str(w.word, b, q, h)
        /\ Fate(CaseSet(ts, k), v.letters, w.letters, a, b)
        /\ Fate(PadSet(ts, k), v.pad, w.pad, p, q)
        /\ Fate(GapSet(ts, k), v.gap, w.gap, g, h)
  BY Zenon DEF Pair
<1>2. /\ Transform(x, n) = Str(v.word, LettersAfter(a, n), PadAfter(p, n), GapAfter(g, n))
      /\ Transform(y, n) = Str(w.word, LettersAfter(b, n), PadAfter(q, n), GapAfter(h, n))
  <2> HIDE DEF n
  <2>1. Transform(Str(v.word, a, p, g), n) =
          Str(v.word, LettersAfter(a, n), PadAfter(p, n), GapAfter(g, n))
    BY TransformIs
  <2>2. Transform(Str(w.word, b, q, h), n) =
          Str(w.word, LettersAfter(b, n), PadAfter(q, n), GapAfter(h, n))
    BY TransformIs
  <2> QED
    BY <1>1, <2>1, <2>2, Zenon
<1>3. Fate(CaseSet(ts, k + 1), v.letters, w.letters, LettersAfter(a, n), LettersAfter(b, n))
  BY <1>1, SetMore, Zenon DEF Fate, LettersAfter
<1>4. Fate(PadSet(ts, k + 1), v.pad, w.pad, PadAfter(p, n), PadAfter(q, n))
  BY <1>1, SetMore, Zenon DEF Fate, PadAfter
<1>5. Fate(GapSet(ts, k + 1), v.gap, w.gap, GapAfter(g, n), GapAfter(h, n))
  BY <1>1, SetMore, Zenon DEF Fate, GapAfter
<1> QED
  BY <1>2, <1>3, <1>4, <1>5, Zenon DEF Pair

\* A string in the form Decode gives it.
IsString(v) == v = Str(v.word, v.letters, v.pad, v.gap)

\* Two strings after all the transforms of a list.
LEMMA PairApplied ==
  ASSUME NEW v, NEW w, IsString(v), IsString(w), NEW ts \in Seq(STRING)
  PROVE  Pair(v, w, Apply(v, ts), Apply(w, ts), ts, Len(ts))
<1>0. Len(ts) \in Nat
  OBVIOUS
<1>1. PICK r : Runs(r, v, ts)
  BY ApplyRuns
<1>2. PICK q : Runs(q, w, ts)
  BY ApplyRuns
<1> DEFINE Bad == {k \in 0..Len(ts) : ~Pair(v, w, r[k], q[k], ts, k)}
<1>3. Bad = {}
  <2> SUFFICES ASSUME Bad # {} PROVE FALSE
    OBVIOUS
  <2>1. PICK m \in Bad : \A y \in Bad : m <= y
    <3>1. Bad \subseteq Nat
      BY <1>0
    <3> HIDE DEF Bad
    <3> QED
      BY <3>1, LeastNat
  <2>2. m \in 0..Len(ts) /\ ~Pair(v, w, r[m], q[m], ts, m)
    BY <2>1
  <2>3. CASE m = 0
    <3>1. r[0] = v /\ q[0] = w
      BY <1>1, <1>2, Zenon DEF Runs
    <3>2. ~CaseSet(ts, 0) /\ ~PadSet(ts, 0) /\ ~GapSet(ts, 0)
      BY <1>0, SetMore
    <3>3. v = Str(v.word, v.letters, v.pad, v.gap) /\ w = Str(w.word, w.letters, w.pad, w.gap)
      BY Zenon DEF IsString
    <3>4. /\ Fate(CaseSet(ts, 0), v.letters, w.letters, v.letters, w.letters)
          /\ Fate(PadSet(ts, 0), v.pad, w.pad, v.pad, w.pad)
          /\ Fate(GapSet(ts, 0), v.gap, w.gap, v.gap, w.gap)
      BY <3>2, Zenon DEF Fate
    <3>5. Pair(v, w, v, w, ts, 0)
      BY <3>3, <3>4, Zenon DEF Pair
    <3> QED
      BY <2>2, <2>3, <3>1, <3>5, Zenon
  <2>4. CASE m # 0
    <3> DEFINE k == m - 1
    <3>1. k \in 0..(Len(ts) - 1) /\ k \in 0..Len(ts) /\ k \in Nat /\ k + 1 = m /\ ~(m <= k)
      BY <1>0, <2>2, <2>4
    <3> HIDE DEF k
    <3>2. Pair(v, w, r[k], q[k], ts, k)
      BY <2>1, <3>1, Zenon
    <3>3. r[k + 1] = Transform(r[k], ts[k + 1]) /\ q[k + 1] = Transform(q[k], ts[k + 1])
      BY <1>1, <1>2, <3>1, Zenon DEF Runs
    <3>4. Pair(v, w, Transform(r[k], ts[k + 1]), Transform(q[k], ts[k + 1]), ts, k + 1)
      BY <3>1, <3>2, PairMore
    <3> QED
      BY <2>2, <3>1, <3>3, <3>4, Zenon
  <2> QED
    BY <2>3, <2>4
<1>4. Len(ts) \in 0..Len(ts)
  BY <1>0
<1>5. Pair(v, w, r[Len(ts)], q[Len(ts)], ts, Len(ts))
  BY <1>3, <1>4, Zenon
<1>6. r[Len(ts)] = Apply(v, ts) /\ q[Len(ts)] = Apply(w, ts)
  BY <1>1, <1>2, Zenon DEF Runs
<1> QED
  BY <1>5, <1>6, Zenon

\* Two strings become equal just when the transforms level their differences.
LEMMA SameStrings ==
  ASSUME NEW v, NEW w, IsString(v), IsString(w), NEW ts \in Seq(STRING)
  PROVE  /\ Apply(v, ts) = Apply(w, ts) <=> SameValue(v, w, ts)
         /\ Apply(v, ts).type = "string"
<1> DEFINE N == Len(ts)
<1>1. PICK a, b, p, q, g, h :
        /\ Apply(v, ts) = Str(v.word, a, p, g) /\ Apply(w, ts) = Str(w.word, b, q, h)
        /\ Fate(CaseSet(ts, N), v.letters, w.letters, a, b)
        /\ Fate(PadSet(ts, N), v.pad, w.pad, p, q)
        /\ Fate(GapSet(ts, N), v.gap, w.gap, g, h)
  BY PairApplied, Zenon DEF Pair
<1>2. Apply(v, ts) = Apply(w, ts) <=> v.word = w.word /\ a = b /\ p = q /\ g = h
  <2>1. ASSUME Str(v.word, a, p, g) = Str(w.word, b, q, h)
        PROVE  v.word = w.word /\ a = b /\ p = q /\ g = h
    BY <2>1 DEF Str
  <2> QED
    BY <1>1, <2>1, Zenon
<1>3. /\ a = b <=> CaseSet(ts, N) \/ v.letters = w.letters
      /\ p = q <=> PadSet(ts, N) \/ v.pad = w.pad
      /\ g = h <=> GapSet(ts, N) \/ v.gap = w.gap
  BY <1>1, Zenon DEF Fate
<1>4. ToSet(ts) = {ts[i] : i \in 1..N}
  BY DEF ToSet
<1>5. /\ {"lowercase", "uppercase"} \cap ToSet(ts) # {} <=> CaseSet(ts, N)
      /\ {"trim", "collapse_whitespace"} \cap ToSet(ts) # {} <=> PadSet(ts, N)
      /\ "collapse_whitespace" \in ToSet(ts) <=> GapSet(ts, N)
  BY <1>4, Zenon DEF CaseSet, PadSet, GapSet
<1>6. v.type = "string" /\ w.type = "string"
  BY DEF IsString, Str
<1>7. SameValue(v, w, ts) <=>
        /\ v.word = w.word
        /\ CaseSet(ts, N) \/ v.letters = w.letters
        /\ PadSet(ts, N) \/ v.pad = w.pad
        /\ GapSet(ts, N) \/ v.gap = w.gap
  BY <1>5, <1>6, Zenon DEF SameValue
<1>8. Str(v.word, a, p, g).type = "string"
  BY DEF Str
<1> QED
  BY <1>1, <1>2, <1>3, <1>7, <1>8, Zenon

-----------------------------------------------------------------------------
(* The fingerprints.                                                       *)

\* The value of field f of body b that is hashed.
Hashed(b, f, normalize) ==
  IF f \in DOMAIN normalize /\ Decode(b[f]).type = "string"
    THEN Apply(Decode(b[f]), normalize[f])
    ELSE Decode(b[f])

\* The values of a body are numbers and strings.
LEMMA ValueShape ==
  ASSUME NEW b \in Bodies, NEW f \in DOMAIN b
  PROVE  /\ f \in Fields
         /\ b[f].type = "number" \/ IsString(b[f])
         /\ b[f].type = "number" => Decode(b[f]) = [type |-> "number", n |-> ToFloat(b[f].n)]
         /\ IsString(b[f]) => b[f].type = "string" /\ Decode(b[f]) = b[f]
<1>1. f \in Fields
  BY BodyAssumption, Zenon
<1>2. \/ b[f].type = "number" /\ b[f] = [type |-> "number", n |-> b[f].n]
      \/ /\ b[f].type = "string"
         /\ b[f] = [type |-> "string", word |-> b[f].word, letters |-> b[f].letters,
                    pad |-> b[f].pad, gap |-> b[f].gap]
  BY BodyAssumption, Zenon
<1>3. b[f].type = "number" \/ IsString(b[f])
  BY <1>2, Zenon DEF IsString, Str
<1>4. IsString(b[f]) => b[f].type = "string"
  BY DEF IsString, Str
<1>5. IsString(b[f]) => Decode(b[f]) = b[f]
  <2>1. "string" # "number"
    OBVIOUS
  <2> QED
    BY <1>4, <2>1, Zenon DEF Decode
<1>6. ASSUME b[f].type = "number"
      PROVE  Decode(b[f]) = [type |-> "number", n |-> ToFloat(b[f].n)]
  <2> DEFINE v == b[f]
             x == v.n
             m == ToFloat(x)
  <2>1. "string" # "number"
    OBVIOUS
  <2>2. v = [type |-> "number", n |-> x]
    BY <1>2, <1>6, <2>1, Zenon
  <2>3. Decode(v) = [v EXCEPT !.n = m]
    BY <1>6, Zenon DEF Decode
  <2> HIDE DEF v, x, m
  <2>4. [v EXCEPT !.n = m] = [type |-> "number", n |-> m]
    BY <2>2
  <2> QED
    BY <2>3, <2>4, Zenon DEF v, x, m
<1> QED
  BY <1>1, <1>3, <1>4, <1>5, <1>6

\* Two values of a field are hashed alike just when they are the same up to
\* the transforms and up to float64.
LEMMA SameHashed ==
  ASSUME NEW b \in Bodies, NEW d \in Bodies, NEW f, f \in DOMAIN b, f \in DOMAIN d,
         NEW N, NEW ts \in Seq(STRING),
         f \in DOMAIN N => N[f] = ts, f \notin DOMAIN N => ts = <<>>
  PROVE  Hashed(b, f, N) = Hashed(d, f, N) <=> SameValue(b[f], d[f], ts)
<1> DEFINE v == b[f]
           w == d[f]
<1>1. /\ v.type = "number" \/ IsString(v)
      /\ v.type = "number" => Decode(v) = [type |-> "number", n |-> ToFloat(v.n)]
      /\ IsString(v) => v.type = "string" /\ Decode(v) = v
  BY ValueShape
<1>2. /\ w.type = "number" \/ IsString(w)
      /\ w.type = "number" => Decode(w) = [type |-> "number", n |-> ToFloat(w.n)]
      /\ IsString(w) => w.type = "string" /\ Decode(w) = w
  BY ValueShape
<1>3. /\ Hashed(b, f, N) = IF f \in DOMAIN N /\ Decode(v).type = "string"
                             THEN Apply(Decode(v), N[f]) ELSE Decode(v)
      /\ Hashed(d, f, N) = IF f \in DOMAIN N /\ Decode(w).type = "string"
                             THEN Apply(Decode(w), N[f]) ELSE Decode(w)
  BY Zenon DEF Hashed
<1> HIDE DEF v, w
<1>0. "string" # "number"
  OBVIOUS
<1>4. Apply(v, <<>>) = v /\ Apply(w, <<>>) = w
  <2>1. <<>> \in Seq(STRING) /\ Len(<<>>) = 0
    OBVIOUS
  <2>2. \A x : \E r : Runs(r, x, <<>>)
    BY <2>1, ApplyRuns
  <2>3. ASSUME NEW x PROVE Apply(x, <<>>) = x
    <3>1. PICK r : Runs(r, x, <<>>)
      BY <2>2
    <3> QED
      BY <2>1, <3>1, Zenon DEF Runs
  <2> QED
    BY <2>3
<1>5. ASSUME IsString(v) PROVE Hashed(b, f, N) = Apply(v, ts) /\ v.type = "string"
  <2>1. v.type = "string" /\ Decode(v) = v
    BY <1>1, <1>5
  <2>2. CASE f \in DOMAIN N
    BY <1>3, <2>1, <2>2, Zenon
  <2>3. CASE f \notin DOMAIN N
    BY <1>3, <1>4, <2>1, <2>3, Zenon
  <2> QED
    BY <2>1, <2>2, <2>3
<1>6. ASSUME IsString(w) PROVE Hashed(d, f, N) = Apply(w, ts) /\ w.type = "string"
  <2>1. w.type = "string" /\ Decode(w) = w
    BY <1>2, <1>6
  <2>2. CASE f \in DOMAIN N
    BY <1>3, <2>1, <2>2, Zenon
  <2>3. CASE f \notin DOMAIN N
    BY <1>3, <1>4, <2>1, <2>3, Zenon
  <2> QED
    BY <2>1, <2>2, <2>3
<1>7. \A n : [type |-> "number", n |-> n].type = "number"
  OBVIOUS
<1>8. ASSUME v.type = "number"
      PROVE  Hashed(b, f, N) = [type |-> "number", n |-> ToFloat(v.n)]
  BY <1>0, <1>1, <1>3, <1>7, <1>8, Zenon
<1>9. ASSUME w.type = "number"
      PROVE  Hashed(d, f, N) = [type |-> "number", n |-> ToFloat(w.n)]
  BY <1>0, <1>2, <1>3, <1>7, <1>9, Zenon
<1>10. CASE IsString(v) /\ IsString(w)
  <2>1. Apply(v, ts) = Apply(w, ts) <=> SameValue(v, w, ts)
    BY <1>10, SameStrings
  <2> QED
    BY <1>5, <1>6, <1>10, <2>1, Zenon DEF v, w
<1>11. CASE IsString(v) /\ w.type = "number"
  <2>1. Apply(v, ts).type = "string"
    BY <1>11, SameStrings
  <2>2. Hashed(b, f, N) # Hashed(d, f, N)
    BY <1>0, <1>5, <1>7, <1>9, <1>11, <2>1, Zenon
  <2>3. ~SameValue(v, w, ts)
    BY <1>0, <1>5, <1>11, Zenon DEF SameValue
  <2> QED
    BY <2>2, <2>3 DEF v, w
<1>12. CASE v.type = "number" /\ IsString(w)
  <2>1. Apply(w, ts).type = "string"
    BY <1>12, SameStrings
  <2>2. Hashed(b, f, N) # Hashed(d, f, N)
    BY <1>0, <1>6, <1>7, <1>8, <1>12, <2>1, Zenon
  <2>3. ~SameValue(v, w, ts)
    BY <1>0, <1>6, <1>12, Zenon DEF SameValue
  <2> QED
    BY <2>2, <2>3 DEF v, w
<1>13. CASE v.type = "number" /\ w.type = "number"
  <2>1. \A m, n : [type |-> "number", n |-> m] = [type |-> "number", n |-> n] => m = n
    OBVIOUS
  <2>2. Hashed(b, f, N) = Hashed(d, f, N) <=> ToFloat(v.n) = ToFloat(w.n)
    BY <1>8, <1>9, <1>13, <2>1, Zenon
  <2>3. SameValue(v, w, ts) <=> ToFloat(v.n) = ToFloat(w.n)
    BY <1>0, <1>13, Zenon DEF SameValue
  <2> QED
    BY <2>2, <2>3 DEF v, w
<1> QED
  BY <1>1, <1>2, <1>10, <1>11, <1>12, <1>13

\* The set of bindings determines a body.
LEMMA ExactSame ==
  ASSUME NEW x, NEW y
  PROVE  Exact(x) = Exact(y) <=>
           DOMAIN x = DOMAIN y /\ \A f \in DOMAIN x : x[f] = y[f]
<1>1. ASSUME NEW p, NEW q, Exact(p) = Exact(q), NEW f \in DOMAIN p
      PROVE  f \in DOMAIN q /\ p[f] = q[f]
  <2>1. <<f, p[f]>> \in Exact(q)
    <3>1. <<f, p[f]>> \in Exact(p)
      BY Zenon DEF Exact
    <3> QED
      BY <1>1, <3>1, Zenon
  <2>2. PICK g \in DOMAIN q : <<f, p[f]>> = <<g, q[g]>>
    BY <2>1, Zenon DEF Exact
  <2>3. \A u1, u2, u3, u4 : <<u1, u2>> = <<u3, u4>> => u1 = u3 /\ u2 = u4
    OBVIOUS
  <2>4. f = g /\ p[f] = q[g]
    BY <2>2, <2>3, Zenon
  <2> QED
    BY <2>4, Zenon
<1>2. ASSUME Exact(x) = Exact(y) PROVE DOMAIN x = DOMAIN y /\ \A f \in DOMAIN x : x[f] = y[f]
  <2>1. \A f \in DOMAIN x : f \in DOMAIN y /\ x[f] = y[f]
    BY <1>1, <1>2
  <2>2. \A f \in DOMAIN y : f \in DOMAIN x
    BY <1>1, <1>2
  <2> QED
    BY <2>1, <2>2, Zenon
<1>3. ASSUME DOMAIN x = DOMAIN y, \A f \in DOMAIN x : x[f] = y[f] PROVE Exact(x) = Exact(y)
  BY <1>3, Zenon DEF Exact
<1> QED
  BY <1>2, <1>3

\* What is hashed of a body: the chosen fields that are there.
LEMMA AnalyseIs ==
  ASSUME NEW b, NEW pol, NEW T,
         pol.scalar["fingerprint_fields"] = <<>> => DOMAIN b \subseteq T,
         pol.scalar["fingerprint_fields"] # <<>> => T = ToSet(pol.scalar["fingerprint_fields"])
  PROVE  Analyse(b, pol) = Exact([f \in T \cap DOMAIN b |-> Hashed(b, f, pol.normalize)])
<1> DEFINE F == pol.scalar["fingerprint_fields"]
           B == Normalised(b, pol.normalize)
           C == [f \in T \cap DOMAIN b |-> Hashed(b, f, pol.normalize)]
<1>1. B = [f \in DOMAIN b |-> Hashed(b, f, pol.normalize)]
  BY Zenon DEF Normalised, Hashed
<1>2. DOMAIN B = DOMAIN b /\ \A f \in DOMAIN b : B[f] = Hashed(b, f, pol.normalize)
  BY <1>1, Zenon
<1>3. Analyse(b, pol) = Exact(Select(B, F))
  BY Zenon DEF Analyse
<1> HIDE DEF B, F
<1>4. CASE F = <<>>
  <2>1. Select(B, F) = B
    BY <1>4, Zenon DEF Select
  <2>2. T \cap DOMAIN b = DOMAIN b
    BY <1>4, Zenon DEF F
  <2>3. B = C
    BY <1>1, <2>2, Zenon
  <2> QED
    BY <1>3, <2>1, <2>3, Zenon
<1>5. CASE F # <<>>
  <2>1. Select(B, F) = [f \in ToSet(F) \cap DOMAIN B |-> B[f]]
    BY <1>5, Zenon DEF Select, Restrict
  <2>2. ToSet(F) \cap DOMAIN B = T \cap DOMAIN b
    BY <1>2, <1>5, Zenon DEF F
  <2>3. Select(B, F) = [f \in T \cap DOMAIN b |-> B[f]]
    BY <2>1, <2>2, Zenon
  <2>4. [f \in T \cap DOMAIN b |-> B[f]] = C
    BY <1>2, Zenon
  <2> QED
    BY <1>3, <2>3, <2>4, Zenon
<1> QED
  BY <1>4, <1>5


\* The map N lists the transforms ts for field f.
Lists(N, f, ts) == (f \in DOMAIN N => N[f] = ts) /\ (f \notin DOMAIN N => ts = <<>>)

\* The transforms For gives a tool for a field are those its section lists.
LEMMA ForTransforms ==
  ASSUME config \in Configs, FileAgrees(seen, config), config.defaults.normalize = <<>>,
         NEW t \in Tools, NEW f \in Fields
  PROVE  Lists(For(config, t).normalize, f, OwnText(t, "normalize", f))
<1> DEFINE H == SectionOf(seen, t)
           N == For(config, t).normalize
           ts == OwnText(t, "normalize", f)
<1>0. ts = Said(seen, H, "normalize", f)
  BY Zenon DEF OwnText
<1>1. Settings(seen, H, "normalize", f) = {} => ts = <<>>
  BY <1>0, Zenon DEF Said
<1>2. t \in DOMAIN config.tools <=> Headings(seen, t) # {}
  BY DEF FileAgrees, ToolAgrees
<1>3. CASE Headings(seen, t) = {}
  <2>1. N = <<>>
    BY <1>2, <1>3, Zenon DEF For
  <2>2. DOMAIN N = {}
    BY <2>1
  <2>3. H = {}
    BY <1>3, Zenon DEF SectionOf
  <2>4. Settings(seen, H, "normalize", f) = {}
    BY <2>3, Zenon DEF Settings
  <2> QED
    BY <1>1, <2>2, <2>4, Zenon DEF Lists
<1>4. CASE Headings(seen, t) # {}
  <2> DEFINE p == config.tools[t]
  <2>1. ListsAgree(seen, H, p)
    BY <1>2, <1>4, Zenon DEF FileAgrees, ToolAgrees, Agrees
  <2>2. p \in Policies
    <3>1. config.tools \in Sections
      BY DEF Configs
    <3> QED
      BY <1>2, <1>4, <3>1, SectionTypes
  <2>3. For(config, t) = MergeDefaults(p, config.defaults)
    BY <1>2, <1>4, Zenon DEF For
  <2> HIDE DEF p
  <2> DEFINE m == [j \in Scalars |-> IF j \in Inherited /\ p.scalar[j] = <<>>
                                       THEN config.defaults.scalar[j] ELSE p.scalar[j]]
  <2>4. MergeDefaults(p, config.defaults) = [p EXCEPT !.scalar = m]
    BY Zenon DEF MergeDefaults
  <2> HIDE DEF m
  <2>5. [p EXCEPT !.scalar = m].normalize = p.normalize
    BY <2>2 DEF Policies
  <2>6. N = p.normalize
    BY <2>3, <2>4, <2>5, Zenon
  <2>7. /\ f \in DOMAIN p.normalize <=> Settings(seen, H, "normalize", f) # {}
        /\ f \in DOMAIN p.normalize => p.normalize[f] = Said(seen, H, "normalize", f)
    BY <2>1, Zenon DEF ListsAgree
  <2> QED
    BY <1>0, <1>1, <2>6, <2>7, Zenon DEF Lists
<1> QED
  BY <1>3, <1>4

\* Two bodies are hashed alike just when their chosen fields are.
LEMMA SameAnalysed ==
  ASSUME NEW b \in Bodies, NEW d \in Bodies, NEW pol, NEW T,
         pol.scalar["fingerprint_fields"] = <<>> => T = Fields,
         pol.scalar["fingerprint_fields"] # <<>> => T = ToSet(pol.scalar["fingerprint_fields"])
  PROVE  Analyse(b, pol) = Analyse(d, pol) <=>
           /\ \A f \in T : f \in DOMAIN b <=> f \in DOMAIN d
           /\ \A f \in T : f \in DOMAIN b /\ f \in DOMAIN d =>
                Hashed(b, f, pol.normalize) = Hashed(d, f, pol.normalize)
<1> DEFINE N == pol.normalize
           x == [f \in T \cap DOMAIN b |-> Hashed(b, f, N)]
           y == [f \in T \cap DOMAIN d |-> Hashed(d, f, N)]
<1>1. DOMAIN b \subseteq Fields /\ DOMAIN d \subseteq Fields
  BY BodyAssumption, Zenon
<1>2. Analyse(b, pol) = Exact(x)
  BY <1>1, AnalyseIs
<1>3. Analyse(d, pol) = Exact(y)
  BY <1>1, AnalyseIs
<1>4. /\ DOMAIN x = T \cap DOMAIN b /\ DOMAIN y = T \cap DOMAIN d
      /\ \A f \in T \cap DOMAIN b : x[f] = Hashed(b, f, N)
      /\ \A f \in T \cap DOMAIN d : y[f] = Hashed(d, f, N)
  BY Zenon
<1> HIDE DEF x, y
<1>5. Exact(x) = Exact(y) <=> DOMAIN x = DOMAIN y /\ \A f \in DOMAIN x : x[f] = y[f]
  BY ExactSame
<1>6. DOMAIN x = DOMAIN y <=> \A f \in T : f \in DOMAIN b <=> f \in DOMAIN d
  BY <1>4, Zenon
<1>7. ASSUME DOMAIN x = DOMAIN y
      PROVE  (\A f \in DOMAIN x : x[f] = y[f]) <=>
               \A f \in T : f \in DOMAIN b /\ f \in DOMAIN d => Hashed(b, f, N) = Hashed(d, f, N)
  BY <1>4, <1>7, Zenon
<1> QED
  BY <1>2, <1>3, <1>5, <1>6, <1>7, Zenon

\* The fields For chooses for a tool are those it is told apart by.
LEMMA TellingIs ==
  ASSUME config \in Configs, FileAgrees(seen, config), NEW t \in Tools,
         NEW F, F = For(config, t).scalar["fingerprint_fields"]
  PROVE  (F = <<>> => Telling(t) = Fields) /\ (F # <<>> => Telling(t) = ToSet(F))
<1> DEFINE own == OwnText(t, "scalars", "fingerprint_fields")
           default == DefaultText("scalars", "fingerprint_fields")
           k == "fingerprint_fields"
<1>1. \A x : ScalarValue("fingerprint_fields", x) = x
  BY Zenon DEF ScalarValue
<1>2. "fingerprint_fields" \in Scalars
  BY DEF Scalars
<1>3. "fingerprint_fields" \notin {"mode", "ttl", "semantic_threshold"}
  OBVIOUS
<1>4. own = ScalarValue(k, OwnText(t, "scalars", k))
  BY <1>1, Zenon
<1>5. default = ScalarValue(k, DefaultText("scalars", k))
  BY <1>1, Zenon
<1>6. Telling(t) = IF (IF Headings(seen, t) = {} THEN default ELSE own) = <<>> THEN Fields
                   ELSE ToSet(IF Headings(seen, t) = {} THEN default ELSE own)
  BY Zenon DEF Telling
<1> HIDE DEF own, default
<1>7. /\ Headings(seen, t) = {} => F = default
      /\ Headings(seen, t) # {} => F = own
  BY <1>2, <1>3, <1>4, <1>5, ForScalars, Zenon
<1> QED
  BY <1>6, <1>7, Zenon

\* Once loaded, two requests of a tool have the same fingerprint just when the
\* fields its section chooses are present in both or neither and agree up to
\* the transforms the section lists for them, and up to float64.
THEOREM FingerprintsTellHolds == Spec => []FingerprintsTell
<1>1. PolicyInv => FingerprintsTell
  <2> SUFFICES ASSUME PolicyInv, status = "loaded", NEW t \in Tools,
                      NEW b \in Bodies, NEW d \in Bodies
               PROVE  Analyse(b, For(config, t)) = Analyse(d, For(config, t)) <=>
                        \A f \in Telling(t) :
                          /\ f \in DOMAIN b <=> f \in DOMAIN d
                          /\ f \in DOMAIN b \cap DOMAIN d =>
                               SameValue(b[f], d[f], OwnText(t, "normalize", f))
    BY Zenon DEF FingerprintsTell
  <2> DEFINE pol == For(config, t)
             T == Telling(t)
  <2>1. /\ config \in Configs /\ FileAgrees(seen, config) /\ seen \in Seq(Lines)
        /\ config.defaults.normalize = <<>>
    BY DEF PolicyInv, LoaderTypes, Kept
  <2>2. /\ pol.scalar["fingerprint_fields"] = <<>> => T = Fields
        /\ pol.scalar["fingerprint_fields"] # <<>> => T = ToSet(pol.scalar["fingerprint_fields"])
    BY <2>1, TellingIs, Zenon
  <2>3. DOMAIN b \subseteq Fields /\ DOMAIN d \subseteq Fields
    BY BodyAssumption, Zenon
  <2>4. ASSUME NEW f, f \in DOMAIN b, f \in DOMAIN d
        PROVE  Hashed(b, f, pol.normalize) = Hashed(d, f, pol.normalize) <=>
                 SameValue(b[f], d[f], OwnText(t, "normalize", f))
    <3> DEFINE N == pol.normalize
               ts == OwnText(t, "normalize", f)
    <3>1. f \in Fields
      BY <2>3, <2>4, Zenon
    <3>2. N = For(config, t).normalize /\ ts = OwnText(t, "normalize", f)
      OBVIOUS
    <3>3. ts \in Seq(STRING)
      BY <2>1, SaidType DEF OwnText
    <3>4. Lists(N, f, ts)
      BY <2>1, <3>1, ForTransforms
    <3> HIDE DEF N, ts
    <3>5. Hashed(b, f, N) = Hashed(d, f, N) <=> SameValue(b[f], d[f], ts)
      BY <2>4, <3>3, <3>4, SameHashed DEF Lists
    <3> QED
      BY <3>2, <3>5, Zenon
  <2> HIDE DEF pol, T
  <2>5. Analyse(b, pol) = Analyse(d, pol) <=>
          /\ \A f \in T : f \in DOMAIN b <=> f \in DOMAIN d
          /\ \A f \in T : f \in DOMAIN b /\ f \in DOMAIN d =>
               Hashed(b, f, pol.normalize) = Hashed(d, f, pol.normalize)
    BY <2>2, SameAnalysed
  <2>6. Analyse(b, pol) = Analyse(d, pol) <=>
          \A f \in T : /\ f \in DOMAIN b <=> f \in DOMAIN d
                       /\ f \in DOMAIN b \cap DOMAIN d =>
                            SameValue(b[f], d[f], OwnText(t, "normalize", f))
    BY <2>4, <2>5, Zenon
  <2> QED
    BY <2>6, Zenon DEF pol, T
<1> QED
  BY <1>1, PolicyInvariant, PTL
=============================================================================
