------------------------- MODULE MsgCommentsProofs -------------------------
(***************************************************************************)
(* The attribution of comments and the text made of them, for .msg files   *)
(* of any length over any kinds of line: the walk with its three variables *)
(* gives each comment to the owner that the layout of the file says; the   *)
(* text shows each line once and in order, in well formed markup.  Each    *)
(* step of the text's making is a lemma: what lines it drops (Lines), that *)
(* their numbers still rise (Rising), and that every item of the result is *)
(* open or shut by what stands before it (Chained).                        *)
(***************************************************************************)
EXTENDS MsgComments, SequenceTheorems, FiniteSetTheorems, WellFoundedInduction, TLAPS

-----------------------------------------------------------------------------
(* The layout of a file, one more line at a time *)

\* Without a declaration, what is no comment is blank.
LEMMA LinesOfThreeKinds ==
  ASSUME TypeOK, NEW n \in DOMAIN file
  PROVE  IsComment(n) \/ IsDeclaration(n) \/ file[n] = "blank"
<1>1. file[n] \in Kinds
  BY DEF TypeOK
<1> QED BY <1>1, KindsAssumption DEF IsComment, IsDeclaration, LineKinds

LEMMA KindsAreDisjoint ==
  ASSUME NEW n
  PROVE  /\ IsComment(n) => ~IsDeclaration(n) /\ file[n] # "blank"
         /\ IsDeclaration(n) => file[n] # "blank"
BY DEF IsComment, IsDeclaration, CommentKinds

LEMMA RunAboveNext ==
  ASSUME NEW n \in Nat, n >= 1
  PROVE  RunAbove(n + 1) = IF IsComment(n) THEN RunAbove(n) \cup {n} ELSE {}
<1> HIDE DEF IsComment
<1>1. CASE IsComment(n)
  <2>1. ASSUME NEW m \in RunAbove(n + 1) PROVE m \in RunAbove(n) \cup {n}
    BY <2>1 DEF RunAbove
  <2>2. ASSUME NEW m \in RunAbove(n) \cup {n} PROVE m \in RunAbove(n + 1)
    BY <1>1, <2>2 DEF RunAbove
  <2> QED BY <1>1, <2>1, <2>2
<1>2. CASE ~IsComment(n)
  <2>1. ASSUME NEW m \in RunAbove(n + 1) PROVE FALSE
    BY <1>2, <2>1 DEF RunAbove
  <2> QED BY <1>2, <2>1
<1> QED BY <1>1, <1>2

LEMMA RunAboveFirst == RunAbove(1) = {}
BY DEF RunAbove

\* A line adds to the leading comments only when it is the blank line below
\* a run of comments that no declaration precedes.
LEMMA LeadingNext ==
  ASSUME TypeOK, NEW n \in Nat, n + 1 \in DOMAIN file
  PROVE  Leading(n + 1) =
           IF file[n + 1] = "blank" /\ (\A k \in 1..n : ~IsDeclaration(k)) THEN Leading(n) \cup RunAbove(n + 1) ELSE Leading(n)
<1> DEFINE Set(m, b) == file[b] = "blank" /\ \A k \in 1..b : ~IsDeclaration(k)
<1>0. \A l : Leading(l) = {m \in 1..l : IsComment(m) /\ \E b \in m + 1..l : Set(m, b)}
  BY DEF Leading
<1>1. Leading(n) \subseteq Leading(n + 1)
  <2> HIDE DEF Set
  <2> SUFFICES ASSUME NEW m \in Leading(n) PROVE m \in Leading(n + 1)
    OBVIOUS
  <2>1. m \in 1..n /\ IsComment(m)
    BY <1>0
  <2>2. PICK b \in m + 1..n : Set(m, b)
    BY <1>0
  <2>3. m \in 1..n + 1 /\ b \in m + 1..n + 1
    BY <2>1
  <2> QED BY <1>0, <2>1, <2>2, <2>3
<1>2. ASSUME NEW m \in Leading(n + 1), m \notin Leading(n)
      PROVE  /\ file[n + 1] = "blank" /\ (\A k \in 1..n : ~IsDeclaration(k))
             /\ m \in RunAbove(n + 1)
  <2>1. m \in 1..n + 1 /\ IsComment(m)
    BY <1>0, <1>2
  <2>2. PICK b \in m + 1..n + 1 : Set(m, b)
    BY <1>0, <1>2
  <2>3. b = n + 1 /\ m \in 1..n
    <3>1. b \notin m + 1..n
      <4>1. CASE m \in 1..n
        BY <1>0, <1>2, <2>1, <2>2, <4>1
      <4>2. CASE m = n + 1
        BY <4>2
      <4> QED BY <2>1, <4>1, <4>2
    <3> QED BY <2>1, <2>2, <3>1
  <2>4. file[n + 1] = "blank" /\ \A k \in 1..n : ~IsDeclaration(k)
    BY <2>2, <2>3
  <2>5. ASSUME NEW k \in m..n, ~IsComment(k) PROVE FALSE
    <3>1. k \in DOMAIN file /\ k \in 1..n
      BY <2>3, <2>5 DEF TypeOK
    <3>2. file[k] = "blank"
      BY <2>4, <2>5, <3>1, LinesOfThreeKinds
    <3>3. k \in m + 1..n
      BY <2>1, <2>3, <2>5
    <3>4. Set(m, k)
      BY <2>4, <3>1, <3>2
    <3> HIDE DEF Set
    <3> QED BY <1>0, <1>2, <2>1, <2>3, <3>3, <3>4
  <2> QED BY <2>3, <2>4, <2>5 DEF RunAbove
<1>3. ASSUME file[n + 1] = "blank", \A k \in 1..n : ~IsDeclaration(k), NEW m \in RunAbove(n + 1)
      PROVE  m \in Leading(n + 1)
  <2>1. m \in 1..n /\ IsComment(m)
    BY <1>3 DEF RunAbove
  <2>2. ~IsDeclaration(n + 1)
    BY <1>3 DEF IsDeclaration
  <2>3. Set(m, n + 1)
    <3>1. \A k \in 1..n + 1 : k \in 1..n \/ k = n + 1
      OBVIOUS
    <3> QED BY <1>3, <2>2, <3>1
  <2>4. n + 1 \in m + 1..n + 1 /\ m \in 1..n + 1
    BY <2>1
  <2> HIDE DEF Set
  <2> QED BY <1>0, <2>1, <2>3, <2>4
<1> QED BY <1>1, <1>2, <1>3

-----------------------------------------------------------------------------
(* Types *)

LEMMA TypeInit == Init => TypeOK
<1> SUFFICES ASSUME Init PROVE TypeOK
  OBVIOUS
<1>1. file \in Seq(Kinds)
  <2>1. PICK n \in 0..MaxLines : file \in [1..n -> Kinds]
    BY DEF Init
  <2> QED BY <2>1, MaxLinesAssumption, SeqDef
<1>2. DOMAIN file = 1..Len(file) /\ Len(file) \in Nat
  BY <1>1
<1>3. at \in 0..Len(file) /\ pending \subseteq 1..Len(file) /\ struct \subseteq 1..Len(file)
  BY <1>2 DEF Init
<1>4. docs \in [1..Len(file) -> SUBSET (1..Len(file))]
  BY <1>2 DEF Init
<1> QED BY <1>1, <1>3, <1>4 DEF Init, TypeOK

LEMMA TypeStep == TypeOK /\ [Next]_vars => TypeOK'
<1> SUFFICES ASSUME TypeOK, [Next]_vars PROVE TypeOK'
  OBVIOUS
<1> USE DEF TypeOK
<1>0. Len(file) \in Nat
  OBVIOUS
<1>1. CASE BlankLine
  BY <1>0, <1>1 DEF BlankLine, Reads
<1>2. CASE CommentLine
  BY <1>0, <1>2 DEF CommentLine, Reads
<1>3. CASE ConstantLine
  BY <1>0, <1>3 DEF ConstantLine, Reads
<1>4. CASE FieldLine
  BY <1>0, <1>4 DEF FieldLine, Reads
<1>5. CASE ExtractDocInfo
  <2>1. DOMAIN doc' = {"brief", "continuation", "details", "fields", "made"}
    BY <1>5 DEF ExtractDocInfo
  <2>2. DOMAIN NoDoc = {"brief", "continuation", "details", "fields", "made"}
    BY DEF NoDoc
  <2> QED BY <1>5, <2>1, <2>2 DEF ExtractDocInfo
<1>6. CASE UNCHANGED vars
  BY <1>6 DEF vars
<1> QED BY <1>1, <1>2, <1>3, <1>4, <1>5, <1>6 DEF Next

\* Comments are lines of the file, whatever the file.
THEOREM TypeCorrect == Spec => []TypeOK
BY TypeInit, TypeStep, PTL DEF Spec

-----------------------------------------------------------------------------
(* Attribution *)

LEMMA AttributionInit == Init => Attribution
<1> SUFFICES ASSUME Init PROVE Attribution
  OBVIOUS
<1>1. RunAbove(at + 1) = {}
  BY RunAboveFirst DEF Init
<1>2. at = 0 /\ Leading(0) = {} /\ {g \in 1..0 : Yields(g)} = {}
  BY DEF Init, Leading
<1>3. struct = Leading(at) \cup UNION {RunAbove(f) : f \in {g \in 1..at : Yields(g)}}
  BY <1>2 DEF Init
<1>4. ASSUME NEW f \in DOMAIN file PROVE docs[f] = {} /\ ~(f <= at)
  <2>1. f \in Nat /\ f >= 1
    BY DEF Init
  <2> QED BY <2>1 DEF Init
<1> QED BY <1>1, <1>2, <1>3, <1>4 DEF Attribution, Init

\* The layout belongs to the file, which nothing changes.
LEMMA LayoutFixed ==
  ASSUME UNCHANGED file
  PROVE  \A n : /\ RunAbove(n)' = RunAbove(n) /\ Leading(n)' = Leading(n)
                /\ (Yields(n)' <=> Yields(n)) /\ (IsDeclaration(n)' <=> IsDeclaration(n))
BY DEF RunAbove, Leading, Yields, IsComment, IsDeclaration

\* What one more line means for the layout that the walk has seen.
LEMMA LineRead ==
  ASSUME TypeOK, Attribution, at < Len(file)
  PROVE  /\ at + 1 \in DOMAIN file
         /\ RunAbove(at + 2) = IF IsComment(at + 1) THEN RunAbove(at + 1) \cup {at + 1} ELSE {}
         /\ (\E k \in 1..at + 1 : IsDeclaration(k)) <=> seenField \/ IsDeclaration(at + 1)
         /\ Leading(at + 1) = IF file[at + 1] = "blank" /\ ~seenField THEN Leading(at) \cup RunAbove(at + 1) ELSE Leading(at)
         /\ {g \in 1..at + 1 : Yields(g)} = {g \in 1..at : Yields(g)} \cup (IF Yields(at + 1) THEN {at + 1} ELSE {})
         /\ Yields(at + 1) <=> file[at + 1] = "field" /\ ~seenField /\ struct = {}
         /\ ~seenField => struct = Leading(at)
<1>1. at \in Nat /\ at + 1 \in DOMAIN file
  BY DEF TypeOK
<1>2. RunAbove(at + 2) = IF IsComment(at + 1) THEN RunAbove(at + 1) \cup {at + 1} ELSE {}
  <2> DEFINE k == at + 1
  <2>1. k \in Nat /\ k >= 1 /\ k + 1 = at + 2
    BY <1>1
  <2> HIDE DEF k
  <2>2. RunAbove(k + 1) = IF IsComment(k) THEN RunAbove(k) \cup {k} ELSE {}
    BY <2>1, RunAboveNext
  <2> QED BY <2>1, <2>2 DEF k
<1>3. seenField <=> \E k \in 1..at : IsDeclaration(k)
  BY DEF Attribution
<1>4. 1..at + 1 = 1..at \cup {at + 1}
  BY <1>1
<1>5. (\E k \in 1..at + 1 : IsDeclaration(k)) <=> seenField \/ IsDeclaration(at + 1)
  BY <1>3, <1>4
<1>6. Leading(at + 1) = IF file[at + 1] = "blank" /\ ~seenField THEN Leading(at) \cup RunAbove(at + 1) ELSE Leading(at)
  BY <1>1, <1>3, LeadingNext
<1>7. {g \in 1..at + 1 : Yields(g)} = {g \in 1..at : Yields(g)} \cup (IF Yields(at + 1) THEN {at + 1} ELSE {})
  BY <1>4
<1>8. ~seenField => struct = Leading(at)
  <2>1. ASSUME ~seenField, NEW g \in 1..at PROVE ~Yields(g)
    BY <1>3, <2>1 DEF Yields, IsDeclaration
  <2>2. ~seenField => {g \in 1..at : Yields(g)} = {}
    BY <2>1
  <2> QED BY <2>2 DEF Attribution
<1>9. Yields(at + 1) <=> file[at + 1] = "field" /\ ~seenField /\ Leading(at) = {}
  <2>1. (at + 1) - 1 = at
    BY <1>1
  <2> QED BY <1>3, <2>1 DEF Yields
<1> QED BY <1>1, <1>2, <1>5, <1>6, <1>7, <1>8, <1>9

\* A line that is no field leaves the fields' comments alone.
LEMMA DocsOfOtherLine ==
  ASSUME TypeOK, Attribution, at < Len(file), file[at + 1] # "field", UNCHANGED <<file, docs>>, at' = at + 1
  PROVE  (\A f \in DOMAIN file : docs[f] = IF f <= at /\ file[f] = "field" /\ ~Yields(f) THEN RunAbove(f) ELSE {})'
<1>1. ASSUME NEW f \in DOMAIN file
      PROVE  docs[f] = IF f <= at + 1 /\ file[f] = "field" /\ ~Yields(f) THEN RunAbove(f) ELSE {}
  <2>1. f <= at + 1 <=> f <= at \/ f = at + 1
    BY DEF TypeOK
  <2> QED BY <2>1 DEF Attribution
<1> QED BY <1>1, LayoutFixed

LEMMA AttributionStep == TypeOK /\ Attribution /\ [Next]_vars => Attribution'
<1> SUFFICES ASSUME TypeOK, Attribution, [Next]_vars PROVE Attribution'
  OBVIOUS
<1> DEFINE n == at + 1
           fields(k) == {g \in 1..k : Yields(g)}
           Runs(k) == UNION {RunAbove(f) : f \in fields(k)}
<1>0. n + 1 = at + 2
  BY DEF TypeOK
<1>1. CASE BlankLine
  <2>1. at < Len(file) /\ at' = n /\ file[n] = "blank" /\ UNCHANGED <<file, docs, seenField>>
    BY <1>1 DEF BlankLine, Reads
  <2>2. ~IsComment(n) /\ ~IsDeclaration(n) /\ ~Yields(n)
    BY <2>1, KindsAreDisjoint DEF Yields
  <2>3. pending' = RunAbove(n + 1)
    BY <1>0, <1>1, <2>1, <2>2, LineRead DEF BlankLine
  <2>4. fields(n) = fields(at)
    BY <2>1, <2>2, LineRead
  <2>5. struct' = Leading(n) \cup Runs(n)
    <3>1. CASE seenField
      BY <1>1, <2>1, <2>4, <3>1, LineRead DEF BlankLine, Attribution
    <3>2. CASE ~seenField
      <4>1. struct' = struct \cup RunAbove(n)
        BY <1>1, <3>2 DEF BlankLine, Attribution
      <4>2. Leading(n) = Leading(at) \cup RunAbove(n)
        BY <2>1, <3>2, LineRead
      <4>3. struct = Leading(at) \cup Runs(at)
        BY DEF Attribution
      <4> QED BY <2>4, <4>1, <4>2, <4>3
    <3> QED BY <3>1, <3>2
  <2> QED BY <2>1, <2>2, <2>3, <2>5, LineRead, LayoutFixed, DocsOfOtherLine DEF Attribution
<1>2. CASE CommentLine
  <2>1. at < Len(file) /\ at' = n /\ IsComment(n) /\ UNCHANGED <<file, struct, docs, seenField>>
    BY <1>2 DEF CommentLine, Reads, IsComment
  <2>2. ~IsDeclaration(n) /\ file[n] # "blank" /\ file[n] # "field" /\ ~Yields(n)
    BY <2>1, KindsAreDisjoint DEF Yields, IsDeclaration
  <2>3. pending' = RunAbove(n + 1)
    BY <1>0, <1>2, <2>1, LineRead DEF CommentLine, Attribution
  <2>4. struct' = Leading(n) \cup Runs(n)
    <3>1. fields(n) = fields(at) /\ Leading(n) = Leading(at)
      BY <2>1, <2>2, LineRead
    <3> QED BY <2>1, <3>1 DEF Attribution
  <2> QED BY <2>1, <2>2, <2>3, <2>4, LineRead, LayoutFixed, DocsOfOtherLine DEF Attribution
<1>3. CASE ConstantLine
  <2>1. at < Len(file) /\ at' = n /\ file[n] = "constant" /\ seenField' /\ UNCHANGED <<file, struct, docs>>
    BY <1>3 DEF ConstantLine, Reads
  <2>2. IsDeclaration(n) /\ ~IsComment(n) /\ ~Yields(n)
    BY <2>1, KindsAreDisjoint DEF Yields, IsDeclaration
  <2>3. pending' = RunAbove(n + 1)
    BY <1>0, <1>3, <2>1, <2>2, LineRead DEF ConstantLine
  <2>4. struct' = Leading(n) \cup Runs(n)
    <3>1. fields(n) = fields(at) /\ Leading(n) = Leading(at)
      BY <2>1, <2>2, LineRead
    <3> QED BY <2>1, <3>1 DEF Attribution
  <2> QED BY <2>1, <2>2, <2>3, <2>4, LineRead, LayoutFixed, DocsOfOtherLine DEF Attribution
<1>4. CASE FieldLine
  <2>1. at < Len(file) /\ at' = n /\ file[n] = "field" /\ seenField' /\ UNCHANGED file /\ n \in DOMAIN file
    BY <1>4, LineRead DEF FieldLine, Reads
  <2>2. IsDeclaration(n) /\ ~IsComment(n)
    BY <2>1, KindsAreDisjoint DEF IsDeclaration
  <2>3. pending' = RunAbove(n + 1)
    BY <1>0, <1>4, <2>1, <2>2, LineRead DEF FieldLine
  <2>4. ForStruct <=> Yields(n)
    BY <2>1, LineRead DEF ForStruct
  <2>5. Leading(n) = Leading(at) /\ pending = RunAbove(n)
    BY <2>1, LineRead DEF Attribution
  <2>6. struct' = Leading(n) \cup Runs(n)
    <3>1. CASE Yields(n)
      <4>1. struct' = RunAbove(n) /\ struct = {} /\ Leading(at) = {}
        BY <1>4, <2>1, <2>4, <2>5, <3>1, LineRead DEF FieldLine, ForStruct
      <4>2. fields(n) = fields(at) \cup {n}
        BY <2>1, <3>1, LineRead
      <4>3. Runs(at) = {}
        BY <4>1 DEF Attribution
      <4> QED BY <2>5, <4>1, <4>2, <4>3
    <3>2. CASE ~Yields(n)
      <4>1. struct' = struct /\ fields(n) = fields(at)
        BY <1>4, <2>1, <2>4, <3>2, LineRead DEF FieldLine
      <4> QED BY <2>5, <4>1 DEF Attribution
    <3> QED BY <3>1, <3>2
  <2>7. ASSUME NEW f \in DOMAIN file
        PROVE  docs'[f] = IF f <= n /\ file[f] = "field" /\ ~Yields(f) THEN RunAbove(f) ELSE {}
    <3>1. f \in DOMAIN docs
      BY DEF TypeOK
    <3>2. CASE f = n
      <4>1. docs'[n] = IF ForStruct THEN {} ELSE pending
        BY <1>4, <3>1, <3>2 DEF FieldLine
      <4> QED BY <2>1, <2>4, <2>5, <3>2, <4>1 DEF TypeOK
    <3>3. CASE f # n
      <4>1. docs'[f] = docs[f]
        BY <1>4, <3>1, <3>3 DEF FieldLine
      <4>2. f <= n <=> f <= at
        BY <3>3 DEF TypeOK
      <4> QED BY <4>1, <4>2 DEF Attribution
    <3> QED BY <3>2, <3>3
  <2> QED BY <2>1, <2>2, <2>3, <2>6, <2>7, LineRead, LayoutFixed DEF Attribution
<1>5. CASE ExtractDocInfo
  BY <1>5, LayoutFixed DEF ExtractDocInfo, Attribution
<1>6. CASE UNCHANGED vars
  BY <1>6, LayoutFixed DEF vars, Attribution
<1> QED BY <1>1, <1>2, <1>3, <1>4, <1>5, <1>6 DEF Next

\* At every line of every file, each comment has the owner that the layout
\* gives it.  _parse_msg_comments().
THEOREM AttributionCorrect == Spec => []Attribution
<1>1. Init => TypeOK /\ Attribution
  BY TypeInit, AttributionInit
<1>2. TypeOK /\ Attribution /\ [Next]_vars => (TypeOK /\ Attribution)'
  BY TypeStep, AttributionStep
<1> QED BY <1>1, <1>2, PTL DEF Spec

-----------------------------------------------------------------------------
(* Least elements and induction.  The library's induction theorem is about *)
(* operators; a set of numbers says the same, as the order of the numbers  *)
(* is well founded.                                                        *)

Below == {ss \in Nat \X Nat : ss[1] < ss[2]}
LEMMA LeastNat ==
  ASSUME NEW T, T \subseteq Nat, T # {}
  PROVE \E x \in T : \A y \in T : x <= y
<1>1. IsWellFoundedOn(Below, Nat)
  <2>1. OpToRel(<, Nat) = Below
    BY DEF OpToRel, Below
  <2> QED BY <2>1, NatLessThanWellFounded
<1>4. PICK x \in T : \A y \in T : ~(<<y, x>> \in Below)
  BY <1>1, WFMin
<1>5. ASSUME NEW y \in T PROVE x <= y
  <2>1. x \in Nat /\ y \in Nat
    OBVIOUS
  <2>2. ~(<<y, x>> \in Below)
    BY <1>4
  <2>3. <<y, x>> \in Nat \X Nat 
    BY <2>1
  <2>4. ~(y < x)
    BY <2>2, <2>3 DEF Below
  <2> QED BY <2>1, <2>4
<1> QED BY <1>5

LEMMA Induct ==
  ASSUME NEW S, 0 \in S, \A n \in Nat : n \in S => n + 1 \in S
  PROVE  \A n \in Nat : n \in S
<1> DEFINE T == Nat \ S
<1>1. ASSUME T # {} PROVE FALSE
  <2>1. PICK x \in T : \A y \in T : x <= y
    BY <1>1, LeastNat
  <2>2. x # 0 /\ x - 1 \in Nat /\ x - 1 \notin T
    BY <2>1
  <2> QED BY <2>2
<1> QED BY <1>1

\* A set of numbers up to n has a greatest.
LEMMA GreatestNat ==
  ASSUME NEW n \in Nat, NEW T, T \subseteq 0..n, T # {}
  PROVE  \E x \in T : \A y \in T : x >= y
<1> DEFINE U == {n - x : x \in T}
<1>0. \A x \in T : x \in 0..n /\ n - x \in Nat
  OBVIOUS
<1>1. U \subseteq Nat /\ U # {}
  BY <1>0
<1>2. PICK u \in U : \A y \in U : u <= y
  <2> HIDE DEF U
  <2> QED BY <1>1, LeastNat
<1>3. PICK x \in T : u = n - x
  OBVIOUS
<1>4. ASSUME NEW y \in T PROVE x >= y
  <2>1. n - y \in U
    OBVIOUS
  <2> QED BY <1>2, <1>3, <2>1
<1> QED BY <1>4

-----------------------------------------------------------------------------
(* Sequences in a sequence *)

\* A function on 1..n that is defined from its value one below.
Flat(seqs, n, g) == g = [i \in 1..n |-> IF i = 1 THEN seqs[i] ELSE g[i - 1] \o seqs[i]]

LEMMA FlatExists ==
  ASSUME NEW seqs
  PROVE  \A n \in Nat : \E g : Flat(seqs, n, g)
<1> DEFINE S == {n \in Nat : \E g : Flat(seqs, n, g)}
<1>1. 0 \in S
  <2>1. Flat(seqs, 0, [i \in 1..0 |-> 0])
    BY DEF Flat
  <2> QED BY <2>1
<1>2. ASSUME NEW n \in Nat, n \in S PROVE n + 1 \in S
  <2>1. PICK g : Flat(seqs, n, g)
    BY <1>2
  <2> DEFINE h == [i \in 1..(n + 1) |-> IF i = 1 THEN seqs[i] ELSE g[i - 1] \o seqs[i]]
  <2>1a. \A i \in 1..n : g[i] = IF i = 1 THEN seqs[i] ELSE g[i - 1] \o seqs[i]
    BY <2>1 DEF Flat
  <2>2. \A i \in 1..n : h[i] = g[i]
    BY <2>1a
  <2>3. \A i \in 1..(n + 1) : i # 1 => i - 1 \in 1..n
    OBVIOUS
  <2>4. \A i \in 1..(n + 1) : h[i] = IF i = 1 THEN seqs[i] ELSE h[i - 1] \o seqs[i]
    BY <2>2, <2>3
  <2>5. h = [i \in 1..(n + 1) |-> IF i = 1 THEN seqs[i] ELSE h[i - 1] \o seqs[i]]
    BY <2>4
  <2>6. Flat(seqs, n + 1, h)
    BY <2>5 DEF Flat
  <2>7. \E x : Flat(seqs, n + 1, x)
    BY <2>6
  <2> QED BY <2>7
<1> HIDE DEF S
<1>3. \A n \in Nat : n \in S
  BY <1>1, <1>2, Induct
<1> QED BY <1>3 DEF S

LEMMA FlattenIsFlat ==
  ASSUME NEW A, NEW seqs \in Seq(A), seqs # <<>>
  PROVE  \E g : Flat(seqs, Len(seqs), g) /\ FlattenSeq(seqs) = g[Len(seqs)]
<1> DEFINE g == CHOOSE x : Flat(seqs, Len(seqs), x)
<1>1. Flat(seqs, Len(seqs), g)
  <2>1. Len(seqs) \in Nat
    OBVIOUS
  <2>2. \E x : Flat(seqs, Len(seqs), x)
    BY <2>1, FlatExists
  <2> QED BY <2>2
<1>2. FlattenSeq(seqs) = g[Len(seqs)]
  BY DEF FlattenSeq, Flat
<1> QED BY <1>1, <1>2


\* The stages of putting sequences behind each other.
LEMMA FlattenStages ==
  ASSUME NEW A, NEW seqs \in Seq(Seq(A))
  PROVE  \E g : /\ g[0] = <<>> /\ FlattenSeq(seqs) = g[Len(seqs)]
                /\ \A n \in 0..Len(seqs) : g[n] \in Seq(A)
                /\ \A n \in 0..Len(seqs) : n # 0 => g[n] = g[n - 1] \o seqs[n]
<1>0. Len(seqs) \in Nat /\ \A n \in 1..Len(seqs) : seqs[n] \in Seq(A)
  OBVIOUS
<1>1. CASE seqs = <<>>
  <2> DEFINE g == [n \in {0} |-> <<>>]
  <2>1. FlattenSeq(seqs) = <<>> /\ Len(seqs) = 0
    BY <1>1 DEF FlattenSeq
  <2>2. g[0] = <<>> /\ <<>> \in Seq(A) /\ \A n \in 0..0 : n = 0
    OBVIOUS
  <2>3. \A n \in 0..Len(seqs) : g[n] \in Seq(A) /\ n = 0
    BY <2>1, <2>2
  <2> HIDE DEF g
  <2> QED BY <2>1, <2>2, <2>3
<1>2. CASE seqs # <<>>
  <2>1. PICK h : Flat(seqs, Len(seqs), h) /\ FlattenSeq(seqs) = h[Len(seqs)]
    BY <1>2, FlattenIsFlat
  <2>2. \A i \in 1..Len(seqs) : h[i] = IF i = 1 THEN seqs[i] ELSE h[i - 1] \o seqs[i]
    BY <2>1 DEF Flat
  <2> DEFINE g == [i \in 0..Len(seqs) |-> IF i = 0 THEN <<>> ELSE h[i]]
  <2>3. g[0] = <<>> /\ \A i \in 1..Len(seqs) : g[i] = h[i]
    BY <1>0
  <2>4. g[Len(seqs)] = h[Len(seqs)]
    BY <1>0, <1>2, <2>3
  <2>5. ASSUME NEW n \in 1..Len(seqs) PROVE g[n] = g[n - 1] \o seqs[n]
    <3>1. CASE n = 1
      <4>1. <<>> \o seqs[1] = seqs[1]
        BY <1>0, <2>5, <3>1
      <4>2. g[1] = seqs[1]
        BY <2>2, <2>3, <2>5, <3>1
      <4>3. n - 1 = 0
        BY <3>1
      <4> HIDE DEF g
      <4> QED BY <2>3, <3>1, <4>1, <4>2, <4>3
    <3>2. CASE n # 1
      <4>1. n - 1 \in 1..Len(seqs)
        BY <1>0, <3>2
      <4> HIDE DEF g
      <4> QED BY <2>2, <2>3, <3>2, <4>1
    <3> QED BY <3>1, <3>2
  <2> HIDE DEF g
  <2> DEFINE T == {n \in Nat : n \in 0..Len(seqs) => g[n] \in Seq(A)}
  <2>6. 0 \in T
    <3>1. <<>> \in Seq(A)
      OBVIOUS
    <3> QED BY <2>3, <3>1
  <2>7. ASSUME NEW n \in Nat, n \in T PROVE n + 1 \in T
    <3> SUFFICES ASSUME n + 1 \in 0..Len(seqs) PROVE g[n + 1] \in Seq(A)
      OBVIOUS
    <3>1. n + 1 \in 1..Len(seqs) /\ n \in 0..Len(seqs) /\ n + 1 - 1 = n
      BY <1>0
    <3>2. g[n] \in Seq(A)
      BY <2>7, <3>1
    <3>3. g[n + 1] = g[n + 1 - 1] \o seqs[n + 1] /\ seqs[n + 1] \in Seq(A)
      <4>1. seqs[n + 1] \in Seq(A)
        BY <1>0, <3>1
      <4>2. PICK m \in 1..Len(seqs) : m = n + 1
        BY <3>1
      <4>3. g[m] = g[m - 1] \o seqs[m]
        BY <2>5
      <4> QED BY <4>1, <4>2, <4>3
    <3>4. g[n + 1] = g[n] \o seqs[n + 1]
      BY <3>1, <3>3
    <3> HIDE DEF T
    <3> QED BY <3>2, <3>3, <3>4
  <2> HIDE DEF T
  <2>8. \A n \in Nat : n \in T
    BY <2>6, <2>7, Induct
  <2>9. \A n \in 0..Len(seqs) : g[n] \in Seq(A)
    BY <2>8 DEF T
  <2>10. \A n \in 0..Len(seqs) : n # 0 => n \in 1..Len(seqs)
    BY <1>0
  <2> QED BY <2>1, <2>3, <2>4, <2>5, <2>9, <2>10
<1> QED BY <1>1, <1>2

-----------------------------------------------------------------------------
(* Balanced markup.  What is open behind an item of the text can be told    *)
(* from the item alone, so the text is well formed when each item fits to   *)
(* the one before it.                                                       *)

Texts == {"text", "section"} \X Nat
Items == {"text", "section", "list", "endlist", "li", "code", "endcode"} \X Nat

Marks == {"list", "endlist", "code", "endcode"}

ModeOf(t) == IF t[1] \in {"list", "li"} THEN "list" ELSE IF t[1] = "code" \/ KindOf(t) = "code" THEN "code" ELSE ""

Fits(mode, t) ==
    /\ t[1] \in Marks => t[2] = 0
    /\ t[1] \in {"list", "code"} => mode = ""
    /\ t[1] = "endlist" => mode = "list"
    /\ t[1] = "endcode" => mode = "code"
    /\ t[1] \notin Marks => mode = ModeOf(t)
    /\ KindOf(t) = "item" => t[1] = "li"
    /\ KindOf(t) = "code" => t[1] # "li"

Before(s, k) == IF k = 1 THEN "" ELSE ModeOf(s[k - 1])
Chained(s) == \A k \in 1..Len(s) : Fits(Before(s, k), s[k])
After(s) == Before(s, Len(s) + 1)

LEMMA ChainEmpty == Chained(<<>>) /\ After(<<>>) = ""
BY DEF Chained, After, Before

LEMMA ChainNext ==
  ASSUME NEW S, NEW s \in Seq(S), NEW t \in S, Chained(s), Fits(After(s), t)
  PROVE  /\ s \o <<t>> \in Seq(S) /\ Chained(s \o <<t>>) /\ After(s \o <<t>>) = ModeOf(t)
<1> DEFINE r == s \o <<t>>
<1>1. /\ Len(s) \in Nat /\ r \in Seq(S) /\ Len(r) = Len(s) + 1
      /\ r[Len(s) + 1] = t /\ \A k \in 1..Len(s) : r[k] = s[k]
  OBVIOUS
<1> HIDE DEF r
<1>2. \A k \in 1..Len(s) + 1 : Before(r, k) = Before(s, k)
  <2>1. \A k \in 1..Len(s) + 1 : k # 1 => k - 1 \in 1..Len(s)
    BY <1>1
  <2> QED BY <1>1, <2>1 DEF Before
<1>3. ASSUME NEW k \in 1..Len(r) PROVE Fits(Before(r, k), r[k])
  <2>1. CASE k \in 1..Len(s)
    <3>1. Before(r, k) = Before(s, k) /\ r[k] = s[k]
      BY <1>1, <1>2, <2>1
    <3> QED BY <2>1, <3>1 DEF Chained
  <2>2. CASE k = Len(s) + 1
    <3>1. Before(r, k) = After(s) /\ r[k] = t
      BY <1>1, <1>2, <2>2 DEF After
    <3> QED BY <3>1
  <2> QED BY <1>1, <2>1, <2>2
<1>4. After(r) = ModeOf(t)
  <2>1. Len(r) + 1 # 1 /\ Len(r) + 1 - 1 = Len(s) + 1
    BY <1>1
  <2>2. PICK k : k = Len(r) + 1
    OBVIOUS
  <2>3. After(r) = Before(r, k)
    BY <2>2, Zenon DEF After
  <2>4. k # 1 /\ r[k - 1] = t
    BY <1>1, <2>1, <2>2
  <2>5. Before(r, k) = ModeOf(r[k - 1])
    BY <2>4, Zenon DEF Before
  <2> QED BY <2>3, <2>4, <2>5
<1> QED BY <1>1, <1>3, <1>4 DEF Chained, r

\* How often a tag occurs, one item at a time.
Count(s, tag, n) == Cardinality({k \in 1..n : s[k][1] = tag})

LEMMA CountNext ==
  ASSUME NEW s, NEW tag, NEW n \in Nat
  PROVE  /\ Count(s, tag, n) \in Nat
         /\ Count(s, tag, n + 1) = IF s[n + 1][1] = tag THEN Count(s, tag, n) + 1 ELSE Count(s, tag, n)
<1> DEFINE C(m) == {k \in 1..m : s[k][1] = tag}
<1>1. IsFiniteSet(C(n))
  <2>1. IsFiniteSet(1..n) /\ C(n) \subseteq 1..n
    BY FS_Interval
  <2> HIDE DEF C
  <2> QED BY <2>1, FS_Subset
<1>2. C(n + 1) = IF s[n + 1][1] = tag THEN C(n) \cup {n + 1} ELSE C(n)
  <2>1. \A k : k \in 1..n + 1 <=> k \in 1..n \/ k = n + 1
    OBVIOUS
  <2> QED BY <2>1
<1>3. n + 1 \notin C(n)
  OBVIOUS
<1>4. Count(s, tag, n) = Cardinality(C(n)) /\ Count(s, tag, n + 1) = Cardinality(C(n + 1))
  BY DEF Count
<1> HIDE DEF C
<1>5. Cardinality(C(n)) \in Nat /\ Cardinality(C(n) \cup {n + 1}) = Cardinality(C(n)) + 1
  BY <1>1, <1>3, FS_AddElement, FS_CardinalityType
<1> QED BY <1>2, <1>4, <1>5

LEMMA CountNone ==
  ASSUME NEW s, NEW tag
  PROVE  Count(s, tag, 0) = 0
<1>1. {k \in 1..0 : s[k][1] = tag} = {}
  OBVIOUS
<1> QED BY <1>1, FS_EmptySet DEF Count

LEMMA OpenIsCount ==
  ASSUME NEW s, NEW n
  PROVE  /\ Open(s, "list", n) = Count(s, "list", n) - Count(s, "endlist", n)
         /\ Open(s, "code", n) = Count(s, "code", n) - Count(s, "endcode", n)
BY DEF Open, EndOf, Count

\* What is open behind n items is what the last of them says.
LEMMA ChainCounts ==
  ASSUME NEW S, NEW s \in Seq(S), Chained(s)
  PROVE  \A n \in 0..Len(s) : /\ Open(s, "list", n) = IF Before(s, n + 1) = "list" THEN 1 ELSE 0
                              /\ Open(s, "code", n) = IF Before(s, n + 1) = "code" THEN 1 ELSE 0
<1> DEFINE Held(n) == /\ Open(s, "list", n) = IF Before(s, n + 1) = "list" THEN 1 ELSE 0
                      /\ Open(s, "code", n) = IF Before(s, n + 1) = "code" THEN 1 ELSE 0
           T == {n \in Nat : n \in 0..Len(s) => Held(n)}
<1>1. Held(0)
  <2>1. Before(s, 0 + 1) = ""
    BY DEF Before
  <2>2. Open(s, "list", 0) = 0 /\ Open(s, "code", 0) = 0
    BY CountNone, OpenIsCount
  <2> QED BY <2>1, <2>2
<1> HIDE DEF Held
<1>2. ASSUME NEW n \in Nat, n \in T PROVE n + 1 \in T
  <2> SUFFICES ASSUME n + 1 \in 0..Len(s) PROVE Held(n + 1)
    OBVIOUS
  <2>1. n + 1 \in 1..Len(s) /\ n \in 0..Len(s)
    OBVIOUS
  <2>2. Held(n)
    BY <1>2, <2>1
  <2> HIDE DEF T
  <2>3. PICK t : t = s[n + 1]
    OBVIOUS
  <2>4. Fits(Before(s, n + 1), t)
    BY <2>1, <2>3 DEF Chained
  <2>5. Before(s, n + 1 + 1) = ModeOf(t)
    <3>1. n + 1 + 1 # 1 /\ n + 1 + 1 - 1 = n + 1
      OBVIOUS
    <3> QED BY <2>3, <3>1 DEF Before
  <2>6. /\ Count(s, "list", n) \in Nat /\ Count(s, "endlist", n) \in Nat
        /\ Count(s, "code", n) \in Nat /\ Count(s, "endcode", n) \in Nat
        /\ Count(s, "list", n + 1) = IF t[1] = "list" THEN Count(s, "list", n) + 1 ELSE Count(s, "list", n)
        /\ Count(s, "endlist", n + 1) = IF t[1] = "endlist" THEN Count(s, "endlist", n) + 1 ELSE Count(s, "endlist", n)
        /\ Count(s, "code", n + 1) = IF t[1] = "code" THEN Count(s, "code", n) + 1 ELSE Count(s, "code", n)
        /\ Count(s, "endcode", n + 1) = IF t[1] = "endcode" THEN Count(s, "endcode", n) + 1 ELSE Count(s, "endcode", n)
    BY <2>3, CountNext
  <2>7. /\ Open(s, "list", n + 1) = IF t[1] = "list" THEN Open(s, "list", n) + 1
                                    ELSE IF t[1] = "endlist" THEN Open(s, "list", n) - 1 ELSE Open(s, "list", n)
        /\ Open(s, "code", n + 1) = IF t[1] = "code" THEN Open(s, "code", n) + 1
                                    ELSE IF t[1] = "endcode" THEN Open(s, "code", n) - 1 ELSE Open(s, "code", n)
        /\ Open(s, "list", n) \in Int /\ Open(s, "code", n) \in Int
    <3>0. \A m : /\ Open(s, "list", m) = Count(s, "list", m) - Count(s, "endlist", m)
                 /\ Open(s, "code", m) = Count(s, "code", m) - Count(s, "endcode", m)
      BY OpenIsCount, Zenon
    <3>1. /\ Open(s, "list", n) = Count(s, "list", n) - Count(s, "endlist", n)
          /\ Open(s, "code", n) = Count(s, "code", n) - Count(s, "endcode", n)
          /\ Open(s, "list", n + 1) = Count(s, "list", n + 1) - Count(s, "endlist", n + 1)
          /\ Open(s, "code", n + 1) = Count(s, "code", n + 1) - Count(s, "endcode", n + 1)
      BY <3>0, Zenon
    <3>2. PICK a, b, c, d, a1, b1, c1, d1 :
             /\ a = Count(s, "list", n) /\ b = Count(s, "endlist", n)
             /\ c = Count(s, "code", n) /\ d = Count(s, "endcode", n)
             /\ a1 = Count(s, "list", n + 1) /\ b1 = Count(s, "endlist", n + 1)
             /\ c1 = Count(s, "code", n + 1) /\ d1 = Count(s, "endcode", n + 1)
      OBVIOUS
    <3>3. a \in Nat /\ b \in Nat /\ c \in Nat /\ d \in Nat
      BY <2>6, <3>2
    <3>4. /\ a1 = IF t[1] = "list" THEN a + 1 ELSE a
          /\ b1 = IF t[1] = "endlist" THEN b + 1 ELSE b
      BY <2>6, <3>2, Zenon
    <3>5. /\ c1 = IF t[1] = "code" THEN c + 1 ELSE c
          /\ d1 = IF t[1] = "endcode" THEN d + 1 ELSE d
      BY <2>6, <3>2, Zenon
    <3>6. /\ Open(s, "list", n) = a - b /\ Open(s, "code", n) = c - d
          /\ Open(s, "list", n + 1) = a1 - b1 /\ Open(s, "code", n + 1) = c1 - d1
      BY <3>1, <3>2, Zenon
    <3>7. a1 - b1 = IF t[1] = "list" THEN a - b + 1 ELSE IF t[1] = "endlist" THEN a - b - 1 ELSE a - b
      BY <3>3, <3>4
    <3>8. c1 - d1 = IF t[1] = "code" THEN c - d + 1 ELSE IF t[1] = "endcode" THEN c - d - 1 ELSE c - d
      BY <3>3, <3>5
    <3>9. a - b \in Int /\ c - d \in Int
      BY <3>3
    <3> QED BY <3>6, <3>7, <3>8, <3>9, Zenon
  <2>8. t[1] \in Marks => KindOf(t) = "empty"
    BY <2>4 DEF Fits, KindOf
  <2>9. /\ Open(s, "list", n + 1) = IF ModeOf(t) = "list" THEN 1 ELSE 0
        /\ Open(s, "code", n + 1) = IF ModeOf(t) = "code" THEN 1 ELSE 0
    <3>1. CASE t[1] \notin Marks
      BY <2>2, <2>4, <2>7, <3>1 DEF Held, Fits, Marks
    <3>2. CASE t[1] \in Marks
      <4>1. ModeOf(t) = IF t[1] = "list" THEN "list" ELSE IF t[1] = "code" THEN "code" ELSE ""
        BY <2>8, <3>2 DEF ModeOf, Marks
      <4>2. /\ t[1] \in {"list", "code"} => Before(s, n + 1) = ""
            /\ t[1] = "endlist" => Before(s, n + 1) = "list"
            /\ t[1] = "endcode" => Before(s, n + 1) = "code"
        BY <2>4 DEF Fits
      <4>3. t[1] = "list" \/ t[1] = "endlist" \/ t[1] = "code" \/ t[1] = "endcode"
        BY <3>2 DEF Marks
      <4>4. /\ Open(s, "list", n) = IF Before(s, n + 1) = "list" THEN 1 ELSE 0
            /\ Open(s, "code", n) = IF Before(s, n + 1) = "code" THEN 1 ELSE 0
        BY <2>2 DEF Held
      <4>5. CASE t[1] = "list"
        <5>1. ModeOf(t) = "list" /\ Before(s, n + 1) = ""
          BY <4>1, <4>2, <4>5
        <5>2. Open(s, "list", n) = 0 /\ Open(s, "code", n) = 0
          BY <4>4, <5>1
        <5>3. Open(s, "list", n + 1) = 1 /\ Open(s, "code", n + 1) = 0
          BY <2>7, <4>5, <5>2
        <5> QED BY <5>1, <5>3
      <4>6. CASE t[1] = "endlist"
        <5>1. ModeOf(t) = "" /\ Before(s, n + 1) = "list"
          BY <4>1, <4>2, <4>6
        <5>2. Open(s, "list", n) = 1 /\ Open(s, "code", n) = 0
          BY <4>4, <5>1
        <5>3. Open(s, "list", n + 1) = 0 /\ Open(s, "code", n + 1) = 0
          BY <2>7, <4>6, <5>2
        <5> QED BY <5>1, <5>3
      <4>7. CASE t[1] = "code"
        <5>1. ModeOf(t) = "code" /\ Before(s, n + 1) = ""
          BY <4>1, <4>2, <4>7
        <5>2. Open(s, "list", n) = 0 /\ Open(s, "code", n) = 0
          BY <4>4, <5>1
        <5>3. Open(s, "list", n + 1) = 0 /\ Open(s, "code", n + 1) = 1
          BY <2>7, <4>7, <5>2
        <5> QED BY <5>1, <5>3
      <4>8. CASE t[1] = "endcode"
        <5>1. ModeOf(t) = "" /\ Before(s, n + 1) = "code"
          BY <4>1, <4>2, <4>8
        <5>2. Open(s, "list", n) = 0 /\ Open(s, "code", n) = 1
          BY <4>4, <5>1
        <5>3. Open(s, "list", n + 1) = 0 /\ Open(s, "code", n + 1) = 0
          BY <2>7, <4>8, <5>2
        <5> QED BY <5>1, <5>3
      <4> QED BY <4>3, <4>5, <4>6, <4>7, <4>8
    <3> QED BY <3>1, <3>2
  <2> QED BY <2>5, <2>9 DEF Held
<1> HIDE DEF T
<1>3. \A n \in Nat : n \in T
  <2>1. 0 \in T
    BY <1>1 DEF T
  <2> QED BY <1>2, <2>1, Induct
<1>4. \A n \in 0..Len(s) : n \in Nat
  OBVIOUS
<1> QED BY <1>3, <1>4 DEF T, Held

Closed(s) == Chained(s) /\ After(s) = ""

LEMMA ClosedIsWellFormed ==
  ASSUME NEW S, NEW s \in Seq(S), Closed(s)
  PROVE  WellFormed(s)
<1>0. Len(s) \in Nat
  OBVIOUS
<1>1. \A n \in 0..Len(s) : /\ Open(s, "list", n) = IF Before(s, n + 1) = "list" THEN 1 ELSE 0
                           /\ Open(s, "code", n) = IF Before(s, n + 1) = "code" THEN 1 ELSE 0
  BY ChainCounts DEF Closed
<1>2. ASSUME NEW n \in 1..Len(s)
      PROVE  /\ Open(s, "list", n) = 1 <=> s[n][1] \in {"list", "li"}
             /\ Open(s, "code", n) = 1 <=> s[n][1] = "code" \/ KindOf(s[n]) = "code"
             /\ KindOf(s[n]) = "item" => s[n][1] = "li"
  <2>1. n \in 0..Len(s) /\ n + 1 # 1 /\ n + 1 - 1 = n
    OBVIOUS
  <2>2. Before(s, n + 1) = ModeOf(s[n])
    BY <2>1 DEF Before
  <2>3. Fits(Before(s, n), s[n])
    BY DEF Chained, Closed
  <2>4. /\ Open(s, "list", n) = IF ModeOf(s[n]) = "list" THEN 1 ELSE 0
        /\ Open(s, "code", n) = IF ModeOf(s[n]) = "code" THEN 1 ELSE 0
    BY <1>1, <2>1, <2>2
  <2>5. ModeOf(s[n]) = "list" <=> s[n][1] \in {"list", "li"}
    BY DEF ModeOf
  <2>6. ModeOf(s[n]) = "code" <=> s[n][1] = "code" \/ KindOf(s[n]) = "code"
    <3>1. s[n][1] = "list" => KindOf(s[n]) = "empty"
      BY <2>3 DEF Fits, Marks, KindOf
    <3> QED BY <2>3, <3>1 DEF ModeOf, Fits
  <2>7. /\ Open(s, "list", n) = 1 <=> ModeOf(s[n]) = "list"
        /\ Open(s, "code", n) = 1 <=> ModeOf(s[n]) = "code"
    BY <2>4
  <2> QED BY <2>3, <2>5, <2>6, <2>7, Zenon DEF Fits
<1>3. Open(s, "list", Len(s)) = 0 /\ Open(s, "code", Len(s)) = 0
  <2>1. Len(s) \in 0..Len(s)
    BY <1>0
  <2>2. Before(s, Len(s) + 1) = ""
    BY Zenon DEF After, Closed
  <2> QED BY <1>1, <2>1, <2>2
<1>4. \A n \in 0..Len(s) : Open(s, "list", n) \in 0..1 /\ Open(s, "code", n) \in 0..1
  BY <1>1
<1> QED BY <1>2, <1>3, <1>4 DEF WellFormed

LEMMA OneIsSequence ==
  ASSUME NEW S, NEW t \in S
  PROVE  <<t>> \in Seq(S)
OBVIOUS

\* The markup of a run fits where the run begins and where it has ended.
LEMMA MarksFit ==
  ASSUME NEW tag \in {"list", "code"}
  PROVE  /\ <<tag, 0>> \in Items /\ Fits("", <<tag, 0>>) /\ ModeOf(<<tag, 0>>) = tag
         /\ <<EndOf(tag), 0>> \in Items /\ Fits(tag, <<EndOf(tag), 0>>) /\ ModeOf(<<EndOf(tag), 0>>) = ""
<1>1. \A t : t[2] = 0 => KindOf(t) = "empty"
  BY DEF KindOf
<1>2. CASE tag = "list"
  BY <1>1, <1>2 DEF Items, Fits, ModeOf, EndOf, Marks
<1>3. CASE tag = "code"
  BY <1>1, <1>3 DEF Items, Fits, ModeOf, EndOf, Marks
<1> QED BY <1>2, <1>3

\* A line fits into its run.
Listed(t) == IF RunOf(t) = "list" THEN <<"li", t[2]>> ELSE t

LEMMA LineFits ==
  ASSUME NEW t \in Texts
  PROVE  /\ RunOf(t) \in {"", "list", "code"}
         /\ Listed(t) \in Items /\ Fits(RunOf(t), Listed(t)) /\ ModeOf(Listed(t)) = RunOf(t)
<1>1. t = <<t[1], t[2]>> /\ t[1] \in {"text", "section"} /\ t[2] \in Nat
  BY DEF Texts
<1>2. t[1] \notin Marks /\ t[1] # "li"
  BY <1>1 DEF Marks
<1>3. CASE KindOf(t) = "item"
  <2>1. t[2] # 0 /\ file[t[2]] = "item"
    BY <1>3 DEF KindOf
  <2>2. Listed(t) = <<"li", t[2]>> /\ RunOf(t) = "list"
    BY <1>3 DEF Listed, RunOf
  <2>3. KindOf(<<"li", t[2]>>) = "item"
    BY <2>1 DEF KindOf
  <2>4. <<"li", t[2]>> \in Items
    BY <1>1 DEF Items
  <2> QED BY <2>2, <2>3, <2>4 DEF Fits, ModeOf, Marks
<1>4. CASE KindOf(t) # "item"
  <2>1. Listed(t) = t /\ RunOf(t) = IF KindOf(t) = "code" THEN "code" ELSE ""
    BY <1>4 DEF Listed, RunOf
  <2>2. ModeOf(t) = RunOf(t)
    BY <1>2, <2>1 DEF ModeOf, Marks
  <2>3. Fits(RunOf(t), t)
    BY <1>2, <1>4, <2>2 DEF Fits, Marks
  <2>4. t \in Items
    BY DEF Texts, Items
  <2> QED BY <2>1, <2>2, <2>3, <2>4
<1> QED BY <1>3, <1>4

Run(s, k) == IF k \in DOMAIN s THEN RunOf(s[k]) ELSE ""
Closes(s, n) == IF Run(s, n - 1) \in {"", Run(s, n)} THEN <<>> ELSE <<<<EndOf(Run(s, n - 1)), 0>>>>
Opens(s, n) == IF Run(s, n) \in {"", Run(s, n - 1)} THEN <<>> ELSE <<<<Run(s, n), 0>>>>
Line(s, n) == IF n \notin DOMAIN s THEN <<>> ELSE <<Listed(s[n])>>

LEMMA WrappedPieces ==
  ASSUME NEW s, NEW n
  PROVE  Wrapped(s, n) = Closes(s, n) \o Opens(s, n) \o Line(s, n)
<1>1. Line(s, n) = IF n \notin DOMAIN s THEN <<>> ELSE IF Run(s, n) = "list" THEN <<<<"li", s[n][2]>>>> ELSE <<s[n]>>
  BY DEF Line, Listed, Run
<1> QED BY <1>1, Zenon DEF Wrapped, Closes, Opens, Run

LEMMA RunIsTag ==
  ASSUME NEW s \in Seq(Texts), NEW k
  PROVE  Run(s, k) \in {"", "list", "code"}
<1>1. CASE k \in DOMAIN s
  <2>1. s[k] \in Texts
    BY <1>1
  <2> QED BY <2>1, LineFits DEF Run
<1>2. CASE k \notin DOMAIN s
  BY <1>2 DEF Run
<1> QED BY <1>1, <1>2

LEMMA ConcatItems == \A a, b, c \in Seq(Items) : (a \o b) \o c = a \o (b \o c)
BY ConcatAssociative

\* One more line with its markup.
LEMMA WrappedFits ==
  ASSUME NEW s \in Seq(Texts), NEW n \in 1..Len(s) + 1, NEW g \in Seq(Items),
         Chained(g), After(g) = Run(s, n - 1)
  PROVE  /\ Wrapped(s, n) \in Seq(Items)
         /\ Chained(g \o Wrapped(s, n)) /\ After(g \o Wrapped(s, n)) = Run(s, n)
<1> DEFINE a == Run(s, n - 1)
           b == Run(s, n)
           g1 == g \o Closes(s, n)
           g2 == g1 \o Opens(s, n)
           g3 == g2 \o Line(s, n)
<1>1. a \in {"", "list", "code"} /\ b \in {"", "list", "code"}
  BY RunIsTag
<1>2. Closes(s, n) = (IF a \in {"", b} THEN <<>> ELSE <<<<EndOf(a), 0>>>>) /\ Opens(s, n) = (IF b \in {"", a} THEN <<>> ELSE <<<<b, 0>>>>)
  BY DEF Closes, Opens
<1>3. After(g) = a
  OBVIOUS
<1> HIDE DEF a, b
<1>4. Closes(s, n) \in Seq(Items) /\ Chained(g1) /\ After(g1) = IF a \in {"", b} THEN a ELSE ""
  <2>1. CASE a \in {"", b}
    <3>1. Closes(s, n) = <<>>
      BY <1>2, <2>1
    <3>2. g1 = g /\ <<>> \in Seq(Items)
      BY <3>1
    <3> HIDE DEF g1
    <3> QED BY <1>3, <2>1, <3>1, <3>2
  <2>2. CASE a \notin {"", b}
    <3>1. a \in {"list", "code"}
      BY <1>1, <2>2
    <3>2. Closes(s, n) = <<<<EndOf(a), 0>>>>
      BY <1>2, <2>2
    <3>3. <<EndOf(a), 0>> \in Items /\ Fits(After(g), <<EndOf(a), 0>>) /\ ModeOf(<<EndOf(a), 0>>) = ""
      BY <1>3, <3>1, MarksFit
    <3>4. PICK t : t = <<EndOf(a), 0>>
      OBVIOUS
    <3>5. t \in Items /\ Fits(After(g), t) /\ ModeOf(t) = "" /\ Closes(s, n) = <<t>>
      BY <3>2, <3>3, <3>4
    <3>6. Chained(g \o <<t>>) /\ After(g \o <<t>>) = ""
      BY <3>5, ChainNext
    <3>7. Closes(s, n) \in Seq(Items) /\ g1 = g \o <<t>>
      <4>1. <<t>> \in Seq(Items)
        BY <3>5, OneIsSequence
      <4>2. g1 = g \o Closes(s, n)
        OBVIOUS
      <4> QED BY <3>5, <4>1, <4>2, Zenon
    <3>8. (IF a \in {"", b} THEN a ELSE "") = ""
      BY <2>2, Zenon
    <3> QED BY <3>6, <3>7, <3>8, Zenon
  <2> QED BY <2>1, <2>2
<1>5. g1 \in Seq(Items)
  <2>1. PICK c \in Seq(Items) : c = Closes(s, n)
    BY <1>4
  <2> QED BY <2>1
<1> HIDE DEF g1
<1>6. Opens(s, n) \in Seq(Items) /\ Chained(g2) /\ After(g2) = b
  <2>1. CASE b \in {"", a}
    <3>1. Opens(s, n) = <<>>
      BY <1>2, <2>1
    <3>2. g2 = g1 /\ <<>> \in Seq(Items)
      BY <1>5, <3>1
    <3>3. After(g1) = b
      <4>1. CASE a \in {"", b}
        <5>1. After(g1) = a
          BY <1>4, <4>1, Zenon
        <5> QED BY <2>1, <4>1, <5>1
      <4>2. CASE a \notin {"", b}
        <5>1. After(g1) = ""
          BY <1>4, <4>2, Zenon
        <5> QED BY <2>1, <4>2, <5>1
      <4> QED BY <4>1, <4>2
    <3> HIDE DEF g2
    <3> QED BY <1>4, <3>1, <3>2, <3>3
  <2>2. CASE b \notin {"", a}
    <3>1. b \in {"list", "code"} /\ After(g1) = ""
      BY <1>1, <1>4, <2>2
    <3>2. Opens(s, n) = <<<<b, 0>>>>
      BY <1>2, <2>2
    <3>3. <<b, 0>> \in Items /\ Fits(After(g1), <<b, 0>>) /\ ModeOf(<<b, 0>>) = b
      BY <3>1, MarksFit
    <3>4. PICK t : t = <<b, 0>>
      OBVIOUS
    <3>5. t \in Items /\ Fits(After(g1), t) /\ ModeOf(t) = b /\ Opens(s, n) = <<t>>
      BY <3>2, <3>3, <3>4
    <3>6. Chained(g1 \o <<t>>) /\ After(g1 \o <<t>>) = b
      BY <1>4, <1>5, <3>5, ChainNext
    <3> QED BY <3>5, <3>6
  <2> QED BY <2>1, <2>2
<1>7. g2 \in Seq(Items)
  <2>1. PICK o \in Seq(Items) : o = Opens(s, n)
    BY <1>6
  <2> QED BY <1>5, <2>1
<1> HIDE DEF g2
<1>8. Line(s, n) \in Seq(Items) /\ Chained(g3) /\ After(g3) = b
  <2>1. CASE n \notin DOMAIN s
    <3>1. Line(s, n) = <<>>
      BY <2>1 DEF Line
    <3>2. g3 = g2 /\ <<>> \in Seq(Items)
      BY <1>7, <3>1
    <3> HIDE DEF g3
    <3> QED BY <1>6, <3>1, <3>2
  <2>2. CASE n \in DOMAIN s
    <3>0. s[n] \in Texts
      BY <2>2
    <3>1. s[n] \in Texts /\ b = RunOf(s[n])
      BY <2>2, <3>0, Zenon DEF b, Run
    <3>2. PICK t : t = Listed(s[n])
      OBVIOUS
    <3>3. t \in Items /\ Fits(After(g2), t) /\ ModeOf(t) = b
      BY <1>6, <3>1, <3>2, LineFits
    <3>4. Line(s, n) = <<t>>
      BY <2>2, <3>2 DEF Line
    <3>5. Chained(g2 \o <<t>>) /\ After(g2 \o <<t>>) = b
      BY <1>6, <1>7, <3>3, ChainNext
    <3> QED BY <3>3, <3>4, <3>5
  <2> QED BY <2>1, <2>2
<1>9. Wrapped(s, n) = Closes(s, n) \o Opens(s, n) \o Line(s, n)
  BY WrappedPieces
<1>10. Wrapped(s, n) \in Seq(Items) /\ g \o Wrapped(s, n) = g3
  <2>1. PICK c, o, l \in Seq(Items) : c = Closes(s, n) /\ o = Opens(s, n) /\ l = Line(s, n)
    BY <1>4, <1>6, <1>8
  <2>2. c \o o \o l \in Seq(Items) /\ g \o (c \o o \o l) = ((g \o c) \o o) \o l
    <3>1. PICK co : co = c \o o
      OBVIOUS
    <3>2. co \in Seq(Items)
      BY <2>1, <3>1
    <3>3. co \o l \in Seq(Items)
      BY <2>1, <3>2
    <3>4. \A e \in Seq(Items) : (g \o co) \o e = g \o (co \o e)
      BY <3>2, ConcatItems, Zenon
    <3>5. (g \o co) \o l = g \o (co \o l)
      BY <2>1, <3>4, Zenon
    <3>6. \A e \in Seq(Items) : (g \o c) \o e = g \o (c \o e)
      BY <2>1, ConcatItems, Zenon
    <3>7. (g \o c) \o o = g \o (c \o o)
      BY <2>1, <3>6, Zenon
    <3> QED BY <3>1, <3>3, <3>5, <3>7
  <2> QED BY <1>9, <2>1, <2>2 DEF g1, g2
<1> QED BY <1>8, <1>10 DEF b

\* Every list and every code block is closed, whatever the text.
LEMMA FormatIsWellFormed ==
  ASSUME NEW s \in Seq(Texts)
  PROVE  WellFormed(FormatListItems(s))
<1> DEFINE seqs == [n \in 1..Len(s) + 1 |-> Wrapped(s, n)]
<1>0. Len(s) \in Nat
  OBVIOUS
<1>1. ASSUME NEW n \in 1..Len(s) + 1 PROVE Wrapped(s, n) \in Seq(Items)
  <2>1. Run(s, n - 1) \in {"", "list", "code"}
    BY RunIsTag
  <2>2. CASE Run(s, n - 1) = ""
    <3>1. <<>> \in Seq(Items)
      OBVIOUS
    <3>2. Chained(<<>>) /\ After(<<>>) = Run(s, n - 1)
      BY <2>2, ChainEmpty
    <3> QED BY <3>1, <3>2, WrappedFits
  <2>3. CASE Run(s, n - 1) # ""
    <3>1. PICK t : t = <<Run(s, n - 1), 0>>
      OBVIOUS
    <3>2. t \in Items /\ Fits("", t) /\ ModeOf(t) = Run(s, n - 1)
      BY <2>1, <2>3, <3>1, MarksFit
    <3>0. <<>> \in Seq(Items)
      OBVIOUS
    <3>3. <<>> \in Seq(Items) /\ Chained(<<>>) /\ After(<<>>) = ""
      BY <3>0, ChainEmpty, Zenon
    <3>4. Chained(<<>> \o <<t>>) /\ After(<<>> \o <<t>>) = Run(s, n - 1) /\ <<>> \o <<t>> \in Seq(Items)
      BY <3>2, <3>3, ChainNext
    <3> QED BY <3>4, WrappedFits
  <2> QED BY <2>2, <2>3
<1>2. seqs \in Seq(Seq(Items)) /\ Len(seqs) = Len(s) + 1
  BY <1>0, <1>1
<1>3. FormatListItems(s) = FlattenSeq(seqs) /\ \A n \in 1..Len(s) + 1 : seqs[n] = Wrapped(s, n)
  BY DEF FormatListItems
<1> HIDE DEF seqs
<1>4. PICK g : /\ g[0] = <<>> /\ FlattenSeq(seqs) = g[Len(s) + 1]
               /\ \A n \in 0..Len(s) + 1 : g[n] \in Seq(Items)
               /\ \A n \in 0..Len(s) + 1 : n # 0 => g[n] = g[n - 1] \o seqs[n]
  <2>1. \E f : /\ f[0] = <<>> /\ FlattenSeq(seqs) = f[Len(seqs)]
               /\ \A n \in 0..Len(seqs) : f[n] \in Seq(Items)
               /\ \A n \in 0..Len(seqs) : n # 0 => f[n] = f[n - 1] \o seqs[n]
    BY <1>2, FlattenStages
  <2> QED BY <1>2, <2>1, Zenon
<1> DEFINE T == {n \in Nat : n \in 0..Len(s) + 1 => Chained(g[n]) /\ After(g[n]) = Run(s, n)}
<1>5. 0 \in T
  <2>0. 0 \notin DOMAIN s
    OBVIOUS
  <2>1. Run(s, 0) = ""
    BY <2>0, Zenon DEF Run
  <2> QED BY <1>4, <2>1, ChainEmpty
<1>6. ASSUME NEW n \in Nat, n \in T PROVE n + 1 \in T
  <2> SUFFICES ASSUME n + 1 \in 0..Len(s) + 1 PROVE Chained(g[n + 1]) /\ After(g[n + 1]) = Run(s, n + 1)
    OBVIOUS
  <2>1. n \in 0..Len(s) + 1
    BY <1>0
  <2>2. Chained(g[n]) /\ After(g[n]) = Run(s, n) /\ g[n] \in Seq(Items)
    BY <1>4, <1>6, <2>1
  <2> HIDE DEF T
  <2>3. PICK m \in 1..Len(s) + 1 : m = n + 1 /\ m - 1 = n /\ m # 0 /\ m \in 0..Len(s) + 1
    BY <1>0
  <2>4. g[m] = g[n] \o Wrapped(s, m)
    BY <1>3, <1>4, <2>3
  <2>5. After(g[n]) = Run(s, m - 1)
    BY <2>2, <2>3
  <2>6. Chained(g[n] \o Wrapped(s, m)) /\ After(g[n] \o Wrapped(s, m)) = Run(s, m)
    BY <2>2, <2>5, WrappedFits
  <2> QED BY <2>3, <2>4, <2>6
<1> HIDE DEF T
<1>7. Chained(g[Len(s) + 1]) /\ After(g[Len(s) + 1]) = Run(s, Len(s) + 1)
  <2>1. \A n \in Nat : n \in T
    BY <1>5, <1>6, Induct
  <2>2. Len(s) + 1 \in Nat /\ Len(s) + 1 \in 0..Len(s) + 1
    BY <1>0
  <2> QED BY <2>1, <2>2 DEF T
<1>8. Run(s, Len(s) + 1) = ""
  <2>1. Len(s) + 1 \notin DOMAIN s
    BY <1>0
  <2> QED BY <2>1 DEF Run
<1>9. g[Len(s) + 1] \in Seq(Items) /\ Closed(g[Len(s) + 1])
  <2>1. Len(s) + 1 \in 0..Len(s) + 1
    BY <1>0
  <2> QED BY <1>4, <1>7, <1>8, <2>1, Zenon DEF Closed
<1> QED BY <1>3, <1>4, <1>9, ClosedIsWellFormed

-----------------------------------------------------------------------------
(* The lines of a text.  Every line stands once and the lines rise, whatever *)
(* the text goes through; what remains to be told of each step is which      *)
(* lines it drops.                                                           *)

Lines(s) == {s[k][2] : k \in 1..Len(s)} \ {0}
Rising(s) == \A k, l \in 1..Len(s) : k < l /\ s[k][2] # 0 /\ s[l][2] # 0 => s[k][2] < s[l][2]

LEMMA LinesEmpty == Lines(<<>>) = {} /\ Rising(<<>>)
BY DEF Lines, Rising

LEMMA LineIsListed ==
  ASSUME NEW s, NEW k \in 1..Len(s), s[k][2] # 0
  PROVE  s[k][2] \in Lines(s)
BY DEF Lines

LEMMA OneRises ==
  ASSUME NEW t
  PROVE  Rising(<<t>>) /\ Lines(<<t>>) = {t[2]} \ {0}
<1>1. Len(<<t>>) = 1 /\ <<t>>[1] = t /\ \A k \in 1..1 : k = 1
  OBVIOUS
<1> QED BY <1>1 DEF Rising, Lines

LEMMA ConcatRises ==
  ASSUME NEW A, \A t \in A : t[2] \in Nat, NEW a \in Seq(A), NEW b \in Seq(A),
         Rising(a), Rising(b), \A m \in Lines(a), n \in Lines(b) : m < n
  PROVE  a \o b \in Seq(A) /\ Rising(a \o b) /\ Lines(a \o b) = Lines(a) \cup Lines(b)
<1> DEFINE r == a \o b
<1>1. /\ Len(a) \in Nat /\ Len(b) \in Nat /\ r \in Seq(A) /\ Len(r) = Len(a) + Len(b)
      /\ \A k \in 1..Len(a) : r[k] = a[k]
      /\ \A k \in 1..Len(b) : r[Len(a) + k] = b[k]
  OBVIOUS
<1> HIDE DEF r
<1>2. \A k \in 1..Len(r) : k \in 1..Len(a) \/ \E l \in 1..Len(b) : k = Len(a) + l
  <2> SUFFICES ASSUME NEW k \in 1..Len(r), k \notin 1..Len(a) PROVE \E l \in 1..Len(b) : k = Len(a) + l
    OBVIOUS
  <2>1. k - Len(a) \in 1..Len(b) /\ k = Len(a) + (k - Len(a))
    BY <1>1
  <2> QED BY <2>1
<1>3. ASSUME NEW k \in 1..Len(r), NEW l \in 1..Len(r), k < l, r[k][2] # 0, r[l][2] # 0
      PROVE  r[k][2] < r[l][2]
  <2>1. CASE l \in 1..Len(a)
    <3>1. k \in 1..Len(a)
      BY <1>1, <1>3, <2>1
    <3> QED BY <1>1, <1>3, <2>1, <3>1 DEF Rising
  <2>2. CASE k \in 1..Len(a) /\ l \notin 1..Len(a)
    <3>1. PICK j \in 1..Len(b) : l = Len(a) + j
      BY <1>2, <2>2
    <3>2. r[k] = a[k] /\ r[l] = b[j]
      BY <1>1, <2>2, <3>1
    <3>3. a[k][2] \in Lines(a) /\ b[j][2] \in Lines(b)
      BY <1>3, <2>2, <3>2, LineIsListed
    <3> QED BY <3>2, <3>3
  <2>3. CASE k \notin 1..Len(a) /\ l \notin 1..Len(a)
    <3>1. PICK i \in 1..Len(b), j \in 1..Len(b) : k = Len(a) + i /\ l = Len(a) + j
      BY <1>2, <2>3
    <3>2. r[k] = b[i] /\ r[l] = b[j] /\ i < j
      BY <1>1, <1>3, <3>1
    <3> QED BY <1>3, <3>2 DEF Rising
  <2> QED BY <2>1, <2>2, <2>3
<1>4. ASSUME NEW n PROVE n \in Lines(r) <=> n \in Lines(a) \/ n \in Lines(b)
  <2>1. ASSUME n \in Lines(r) PROVE n \in Lines(a) \/ n \in Lines(b)
    <3>1. PICK k \in 1..Len(r) : n = r[k][2] /\ n # 0
      BY <2>1 DEF Lines
    <3>2. CASE k \in 1..Len(a)
      BY <1>1, <3>1, <3>2 DEF Lines
    <3>3. CASE k \notin 1..Len(a)
      <4>1. PICK j \in 1..Len(b) : k = Len(a) + j
        BY <1>2, <3>3
      <4> QED BY <1>1, <3>1, <4>1 DEF Lines
    <3> QED BY <3>2, <3>3
  <2>2. ASSUME n \in Lines(a) PROVE n \in Lines(r)
    <3>1. PICK k \in 1..Len(a) : n = a[k][2] /\ n # 0
      BY <2>2 DEF Lines
    <3>2. k \in 1..Len(r) /\ r[k] = a[k]
      BY <1>1
    <3> QED BY <3>1, <3>2 DEF Lines
  <2>3. ASSUME n \in Lines(b) PROVE n \in Lines(r)
    <3>1. PICK k \in 1..Len(b) : n = b[k][2] /\ n # 0
      BY <2>3 DEF Lines
    <3>2. Len(a) + k \in 1..Len(r) /\ r[Len(a) + k] = b[k]
      BY <1>1
    <3> QED BY <3>1, <3>2 DEF Lines
  <2> QED BY <2>1, <2>2, <2>3
<1> QED BY <1>1, <1>3, <1>4 DEF Rising, r

LEMMA AllConcatRise ==
  ASSUME NEW A, \A t \in A : t[2] \in Nat
  PROVE  \A a, b \in Seq(A) : Rising(a) /\ Rising(b) /\ (\A m \in Lines(a), n \in Lines(b) : m < n)
             => a \o b \in Seq(A) /\ Rising(a \o b) /\ Lines(a \o b) = Lines(a) \cup Lines(b)
BY ConcatRises

\* Pieces whose lines follow each other make a text with the lines of all.
LEMMA FlattenRises ==
  ASSUME NEW A, \A t \in A : t[2] \in Nat, NEW seqs \in Seq(Seq(A)),
         \A n \in 1..Len(seqs) : Rising(seqs[n]),
         \A i, j \in 1..Len(seqs) : i < j => \A m \in Lines(seqs[i]), n \in Lines(seqs[j]) : m < n
  PROVE  /\ FlattenSeq(seqs) \in Seq(A) /\ Rising(FlattenSeq(seqs))
         /\ Lines(FlattenSeq(seqs)) = UNION {Lines(seqs[n]) : n \in 1..Len(seqs)}
<1>0. Len(seqs) \in Nat /\ \A n \in 1..Len(seqs) : seqs[n] \in Seq(A)
  OBVIOUS
<1>1. PICK g : /\ g[0] = <<>> /\ FlattenSeq(seqs) = g[Len(seqs)]
               /\ \A n \in 0..Len(seqs) : g[n] \in Seq(A)
               /\ \A n \in 0..Len(seqs) : n # 0 => g[n] = g[n - 1] \o seqs[n]
  BY FlattenStages
<1>7. \A a, b \in Seq(A) : Rising(a) /\ Rising(b) /\ (\A m \in Lines(a), n \in Lines(b) : m < n)
         => a \o b \in Seq(A) /\ Rising(a \o b) /\ Lines(a \o b) = Lines(a) \cup Lines(b)
  BY AllConcatRise
<1> DEFINE Upto(n) == UNION {Lines(seqs[k]) : k \in 1..n}
           T == {n \in Nat : n \in 0..Len(seqs) => Rising(g[n]) /\ Lines(g[n]) = Upto(n)}
<1>2. 0 \in T
  <2>1. Upto(0) = {}
    OBVIOUS
  <2> QED BY <1>1, <2>1, LinesEmpty
<1>3. ASSUME NEW n \in Nat, n \in T PROVE n + 1 \in T
  <2> SUFFICES ASSUME n + 1 \in 0..Len(seqs) PROVE Rising(g[n + 1]) /\ Lines(g[n + 1]) = Upto(n + 1)
    OBVIOUS
  <2>1. n \in 0..Len(seqs)
    BY <1>0
  <2>2. Rising(g[n]) /\ Lines(g[n]) = Upto(n) /\ g[n] \in Seq(A)
    BY <1>1, <1>3, <2>1
  <2> HIDE DEF T
  <2>3. PICK m \in 1..Len(seqs) : m = n + 1 /\ m - 1 = n /\ m # 0 /\ m \in 0..Len(seqs)
    BY <1>0
  <2>4. g[m] = g[n] \o seqs[m]
    BY <1>1, <2>3
  <2>5. \A k : k \in 1..m <=> k \in 1..n \/ k = m
    BY <2>3
  <2>6. Upto(m) = Upto(n) \cup Lines(seqs[m])
    BY <2>5
  <2>7. \A k \in 1..n : k \in 1..Len(seqs) /\ k < m
    BY <2>3
  <2>8. ASSUME NEW l \in Lines(g[n]), NEW j \in Lines(seqs[m]) PROVE l < j
    <3>1. PICK k \in 1..n : l \in Lines(seqs[k])
      BY <2>2
    <3> QED BY <2>3, <2>7, <3>1
  <2> HIDE DEF Upto
  <2>9. seqs[m] \in Seq(A) /\ Rising(seqs[m])
    BY <1>0
  <2>10. Rising(g[n] \o seqs[m]) /\ Lines(g[n] \o seqs[m]) = Lines(g[n]) \cup Lines(seqs[m])
    <3>1. PICK p \in Seq(A), q \in Seq(A) : p = g[n] /\ q = seqs[m]
      BY <2>2, <2>9
    <3>2. Rising(p) /\ Rising(q) /\ \A l \in Lines(p), j \in Lines(q) : l < j
      BY <2>2, <2>8, <2>9, <3>1
    <3>3. Rising(p \o q) /\ Lines(p \o q) = Lines(p) \cup Lines(q)
      BY <1>7, <3>1, <3>2, Zenon
    <3> QED BY <3>1, <3>3
  <2> QED BY <2>2, <2>3, <2>4, <2>6, <2>10
<1> HIDE DEF T
<1>4. \A n \in Nat : n \in T
  BY <1>2, <1>3, Induct
<1>5. Len(seqs) \in Nat /\ Len(seqs) \in 0..Len(seqs)
  BY <1>0
<1>6. Rising(g[Len(seqs)]) /\ Lines(g[Len(seqs)]) = Upto(Len(seqs))
  BY <1>4, <1>5 DEF T
<1> QED BY <1>1, <1>5, <1>6

\* A piece of a text.
LEMMA PieceRises ==
  ASSUME NEW A, \A t \in A : t[2] \in Nat, NEW s \in Seq(A), Rising(s), NEW a \in 1..Len(s) + 1, NEW b \in a - 1..Len(s)
  PROVE  /\ SubSeq(s, a, b) \in Seq(A) /\ Len(SubSeq(s, a, b)) = b - a + 1
         /\ \A k \in 1..b - a + 1 : SubSeq(s, a, b)[k] = s[a + k - 1]
         /\ Rising(SubSeq(s, a, b))
         /\ Lines(SubSeq(s, a, b)) = {s[k][2] : k \in a..b} \ {0}
<1> DEFINE r == SubSeq(s, a, b)
<1>0. a \in Int /\ b \in Int /\ Len(s) \in Nat /\ \A i \in a..b : i \in 1..Len(s) /\ s[i] \in A
  OBVIOUS
<1>1. r \in Seq(A) /\ Len(r) = (IF a <= b THEN b - a + 1 ELSE 0) /\ \A k \in 1..b - a + 1 : r[k] = s[a + k - 1]
  BY <1>0, SubSeqProperties
<1>2. Len(r) = b - a + 1
  BY <1>0, <1>1
<1> HIDE DEF r
<1>3. ASSUME NEW k \in 1..Len(r), NEW l \in 1..Len(r), k < l, r[k][2] # 0, r[l][2] # 0
      PROVE  r[k][2] < r[l][2]
  <2>1. PICK i \in 1..Len(s), j \in 1..Len(s) : i = a + k - 1 /\ j = a + l - 1 /\ i < j
    <3>1. a + k - 1 \in 1..Len(s) /\ a + l - 1 \in 1..Len(s) /\ a + k - 1 < a + l - 1
      BY <1>0, <1>2, <1>3
    <3> QED BY <3>1
  <2>2. r[k] = s[i] /\ r[l] = s[j]
    BY <1>1, <1>2, <2>1
  <2> QED BY <1>3, <2>1, <2>2 DEF Rising
<1>4. ASSUME NEW n PROVE n \in Lines(r) <=> n \in {s[k][2] : k \in a..b} \ {0}
  <2>1. ASSUME n \in Lines(r) PROVE n \in {s[k][2] : k \in a..b} \ {0}
    <3>1. PICK k \in 1..Len(r) : n = r[k][2] /\ n # 0
      BY <2>1 DEF Lines
    <3>2. PICK i \in a..b : i = a + k - 1
      BY <1>0, <1>2
    <3>3. r[k] = s[i]
      BY <1>1, <1>2, <3>2
    <3> QED BY <3>1, <3>3
  <2>2. ASSUME n \in {s[k][2] : k \in a..b} \ {0} PROVE n \in Lines(r)
    <3>1. PICK i \in a..b : n = s[i][2] /\ n # 0
      BY <2>2
    <3>2. PICK k \in 1..Len(r) : i = a + k - 1
      <4>1. i - a + 1 \in 1..Len(r) /\ i = a + (i - a + 1) - 1
        BY <1>0, <1>2
      <4> QED BY <4>1
    <3>3. r[k] = s[i]
      BY <1>1, <1>2, <3>2
    <3> QED BY <3>1, <3>3 DEF Lines
  <2> QED BY <2>1, <2>2
<1> QED BY <1>1, <1>2, <1>3, <1>4 DEF Rising, r

-----------------------------------------------------------------------------
(* What each step drops *)

Plain == {"text"} \X Nat

LEMMA TextOfOwner ==
  ASSUME TypeOK, NEW owner, owner \subseteq 1..Len(file)
  PROVE  TextOf(owner) \in Seq(Plain) /\ Rising(TextOf(owner)) /\ Lines(TextOf(owner)) = owner
<1> DEFINE First(n) == \A m \in owner : n <= m
           t(n) == <<"text", n>>
           Piece(n) == IF n \notin owner THEN <<>>
                       ELSE IF First(n) \/ n - 1 \in owner THEN <<t(n)>> ELSE <<Gap, t(n)>>
           seqs == [n \in DOMAIN file |-> Piece(n)]
<1>0. Len(file) \in Nat /\ DOMAIN file = 1..Len(file)
  BY DEF TypeOK
<1>1. TextOf(owner) = FlattenSeq(seqs)
  BY DEF TextOf
<1> HIDE DEF First
<1>2. \A x \in Plain : x[2] \in Nat
  BY DEF Plain
<1>3. ASSUME NEW n \in 1..Len(file)
      PROVE  Piece(n) \in Seq(Plain) /\ Rising(Piece(n)) /\ Lines(Piece(n)) = {n} \cap owner
  <2>1. t(n) \in Plain /\ Gap \in Plain /\ t(n)[2] = n /\ Gap[2] = 0 /\ n # 0
    BY <1>0 DEF Plain, Gap
  <2>2. CASE n \notin owner
    <3>1. Piece(n) = <<>> /\ <<>> \in Seq(Plain) /\ {n} \cap owner = {}
      BY <2>2
    <3> HIDE DEF Piece
    <3> QED BY <3>1, LinesEmpty
  <2>3. CASE n \in owner /\ (First(n) \/ n - 1 \in owner)
    <3>1. Piece(n) = <<t(n)>>
      BY <2>3
    <3>2. <<t(n)>> \in Seq(Plain)
      BY <2>1, OneIsSequence
    <3>3. Rising(<<t(n)>>) /\ Lines(<<t(n)>>) = {n} \ {0}
      BY <2>1, OneRises
    <3> HIDE DEF Piece, t
    <3> QED BY <2>1, <2>3, <3>1, <3>2, <3>3
  <2>4. CASE n \in owner /\ ~(First(n) \/ n - 1 \in owner)
    <3> HIDE DEF t
    <3>1. Piece(n) = <<Gap, t(n)>>
      BY <2>4
    <3>2. <<t(n)>> \in Seq(Plain) /\ <<Gap>> \in Seq(Plain)
      BY <2>1, OneIsSequence
    <3>3. /\ Rising(<<t(n)>>) /\ Lines(<<t(n)>>) = {n} \ {0}
          /\ Rising(<<Gap>>) /\ Lines(<<Gap>>) = {}
      BY <2>1, OneRises
    <3>4. PICK p \in Seq(Plain), q \in Seq(Plain) : p = <<Gap>> /\ q = <<t(n)>>
      BY <3>2
    <3>5. p \o q \in Seq(Plain) /\ Rising(p \o q) /\ Lines(p \o q) = Lines(p) \cup Lines(q)
      <4>1. \A m \in Lines(p), k \in Lines(q) : m < k
        BY <3>3, <3>4
      <4>2. Rising(p) /\ Rising(q)
        BY <3>3, <3>4
      <4> QED BY <1>2, <4>1, <4>2, ConcatRises
    <3>6. <<Gap, t(n)>> = p \o q
      BY <3>4
    <3>7. Lines(p) \cup Lines(q) = {n}
      BY <2>1, <3>3, <3>4
    <3>8. {n} \cap owner = {n}
      BY <2>4
    <3> HIDE DEF Piece
    <3> QED BY <3>1, <3>5, <3>6, <3>7, <3>8
  <2> QED BY <2>2, <2>3, <2>4
<1> HIDE DEF Piece
<1>4. seqs \in Seq(Seq(Plain)) /\ Len(seqs) = Len(file) /\ \A n \in 1..Len(file) : seqs[n] = Piece(n)
  BY <1>0, <1>3
<1> HIDE DEF seqs
<1>5. \A n \in 1..Len(seqs) : Rising(seqs[n])
  BY <1>3, <1>4
<1>6. \A i, j \in 1..Len(seqs) : i < j => \A m \in Lines(seqs[i]), n \in Lines(seqs[j]) : m < n
  BY <1>3, <1>4
<1>7. /\ FlattenSeq(seqs) \in Seq(Plain) /\ Rising(FlattenSeq(seqs))
      /\ Lines(FlattenSeq(seqs)) = UNION {Lines(seqs[n]) : n \in 1..Len(seqs)}
  BY <1>2, <1>4, <1>5, <1>6, FlattenRises
<1>8. UNION {Lines(seqs[n]) : n \in 1..Len(seqs)} = owner
  <2>1. \A n \in 1..Len(seqs) : Lines(seqs[n]) = {n} \cap owner
    BY <1>3, <1>4
  <2>2. owner \subseteq 1..Len(seqs)
    BY <1>4
  <2>3. ASSUME NEW n \in owner PROVE n \in UNION {Lines(seqs[k]) : k \in 1..Len(seqs)}
    <3>1. n \in Lines(seqs[n]) /\ n \in 1..Len(seqs)
      BY <2>1, <2>2
    <3> QED BY <3>1
  <2>4. ASSUME NEW n \in UNION {Lines(seqs[k]) : k \in 1..Len(seqs)} PROVE n \in owner
    <3>1. PICK k \in 1..Len(seqs) : n \in Lines(seqs[k])
      OBVIOUS
    <3> QED BY <2>1, <3>1
  <2> QED BY <2>3, <2>4
<1> QED BY <1>1, <1>7, <1>8

\* The walk over the banners, from one line to the next.
Walk(s, n, w) == w = [k \in 0..n |-> IF k = 0 THEN [skip |-> 0, out |-> <<>>] ELSE BannerStep(s, w[k - 1], k)]

LEMMA WalkExists ==
  ASSUME NEW s
  PROVE  \A n \in Nat : \E w : Walk(s, n, w)
<1> DEFINE T == {n \in Nat : \E w : Walk(s, n, w)}
           Start == [skip |-> 0, out |-> <<>>]
<1>1. 0 \in T
  <2> DEFINE w == [k \in 0..0 |-> Start]
  <2>1. \A k \in 0..0 : k = 0
    OBVIOUS
  <2>2. w = [k \in 0..0 |-> IF k = 0 THEN Start ELSE BannerStep(s, w[k - 1], k)]
    BY <2>1
  <2>3. Walk(s, 0, w)
    BY <2>2 DEF Walk
  <2> QED BY <2>3
<1>2. ASSUME NEW n \in Nat, n \in T PROVE n + 1 \in T
  <2>1. PICK w : Walk(s, n, w)
    BY <1>2
  <2> DEFINE h == [k \in 0..n + 1 |-> IF k = 0 THEN Start ELSE BannerStep(s, w[k - 1], k)]
  <2>2. \A k \in 0..n : w[k] = IF k = 0 THEN Start ELSE BannerStep(s, w[k - 1], k)
    BY <2>1 DEF Walk
  <2> HIDE DEF Start
  <2>3. \A k \in 0..n : h[k] = w[k]
    BY <2>2
  <2>4. \A k \in 0..n + 1 : k # 0 => k - 1 \in 0..n
    OBVIOUS
  <2>5. \A k \in 0..n + 1 : h[k] = IF k = 0 THEN Start ELSE BannerStep(s, h[k - 1], k)
    BY <2>3, <2>4
  <2>6. h = [k \in 0..n + 1 |-> IF k = 0 THEN Start ELSE BannerStep(s, h[k - 1], k)]
    BY <2>5
  <2>7. Walk(s, n + 1, h)
    BY <2>6 DEF Walk, Start
  <2>8. \E x : Walk(s, n + 1, x)
    BY <2>7
  <2> QED BY <2>8
<1> HIDE DEF T
<1>3. \A n \in Nat : n \in T
  BY <1>1, <1>2, Induct
<1> QED BY <1>3 DEF T

LEMMA StripBannerWalks ==
  ASSUME NEW A, NEW s \in Seq(A)
  PROVE  \E w : /\ StripBanner(s) = w[Len(s)].out
                /\ w[0] = [skip |-> 0, out |-> <<>>]
                /\ \A n \in 1..Len(s) : w[n] = BannerStep(s, w[n - 1], n)
<1> DEFINE w == CHOOSE x : Walk(s, Len(s), x)
<1>0. Len(s) \in Nat
  OBVIOUS
<1>1. Walk(s, Len(s), w)
  <2>1. \E x : Walk(s, Len(s), x)
    BY <1>0, WalkExists
  <2> QED BY <2>1
<1>2. StripBanner(s) = w[Len(s)].out
  BY DEF StripBanner, Walk
<1> HIDE DEF w
<1>3. \A k \in 0..Len(s) : w[k] = IF k = 0 THEN [skip |-> 0, out |-> <<>>] ELSE BannerStep(s, w[k - 1], k)
  BY <1>1 DEF Walk
<1>4. 0 \in 0..Len(s) /\ \A n \in 1..Len(s) : n \in 0..Len(s) /\ n # 0
  BY <1>0
<1> QED BY <1>2, <1>3, <1>4

\* Whether a line of plain text is a ruler can be told from the file.
LEMMA PlainKind ==
  ASSUME NEW t \in Plain
  PROVE  /\ t \in Texts /\ t[2] \in Nat
         /\ t[2] = 0 => KindOf(t) = "empty"
         /\ t[2] # 0 => KindOf(t) = file[t[2]]
BY DEF Plain, Texts, KindOf

\* What the walk has written once it has dealt with the first n lines.
Taken(s, n) == {s[k][2] : k \in {l \in 1..n : KindOf(s[l]) # "banner"}} \ {0}

LEMMA TakenNext ==
  ASSUME NEW s, NEW n \in Nat
  PROVE  Taken(s, n + 1) = IF KindOf(s[n + 1]) = "banner" THEN Taken(s, n) ELSE Taken(s, n) \cup ({s[n + 1][2]} \ {0})
<1>1. \A l : l \in 1..n + 1 <=> l \in 1..n \/ l = n + 1
  OBVIOUS
<1>2. {l \in 1..n + 1 : KindOf(s[l]) # "banner"} =
        {l \in 1..n : KindOf(s[l]) # "banner"} \cup (IF KindOf(s[n + 1]) = "banner" THEN {} ELSE {n + 1})
  BY <1>1
<1> QED BY <1>2 DEF Taken

LEMMA TakenBelow ==
  ASSUME NEW s \in Seq(Plain), Rising(s), NEW n \in Nat, NEW k \in 1..Len(s), n < k, s[k][2] # 0
  PROVE  \A m \in Taken(s, n) : m < s[k][2]
<1> SUFFICES ASSUME NEW m \in Taken(s, n) PROVE m < s[k][2]
  OBVIOUS
<1>1. PICK l \in 1..n : m = s[l][2] /\ m # 0
  BY DEF Taken
<1>2. l \in 1..Len(s) /\ l < k
  OBVIOUS
<1> QED BY <1>1, <1>2 DEF Rising

\* A text grows by one item.
LEMMA AppendRises ==
  ASSUME NEW A, \A t \in A : t[2] \in Nat, NEW s \in Seq(A), NEW x \in A, Rising(s),
         x[2] # 0 => \A m \in Lines(s) : m < x[2]
  PROVE  /\ Append(s, x) \in Seq(A) /\ Append(s, x) = s \o <<x>> /\ Rising(Append(s, x))
         /\ Lines(Append(s, x)) = Lines(s) \cup ({x[2]} \ {0})
<1>1. Append(s, x) = s \o <<x>>
  OBVIOUS
<1>2. <<x>> \in Seq(A)
  BY OneIsSequence
<1>3. Rising(<<x>>) /\ Lines(<<x>>) = {x[2]} \ {0}
  BY OneRises
<1>4. PICK q \in Seq(A) : q = <<x>>
  BY <1>2
<1>5. Rising(q) /\ \A m \in Lines(s), n \in Lines(q) : m < n
  BY <1>3, <1>4
<1>6. s \o q \in Seq(A) /\ Rising(s \o q) /\ Lines(s \o q) = Lines(s) \cup Lines(q)
  BY <1>5, ConcatRises
<1> QED BY <1>1, <1>3, <1>4, <1>6

LEMMA AppendTextRises ==
  \A s \in Seq(Texts), x \in Texts : Rising(s) /\ (x[2] # 0 => \A m \in Lines(s) : m < x[2])
      => /\ Append(s, x) \in Seq(Texts) /\ Append(s, x) = s \o <<x>> /\ Rising(Append(s, x))
         /\ Lines(Append(s, x)) = Lines(s) \cup ({x[2]} \ {0})
<1>1. \A t \in Texts : t[2] \in Nat
  BY DEF Texts
<1> QED BY <1>1, AppendRises

\* Rulers go, and nothing else.
LEMMA StripBannerDrops ==
  ASSUME NEW s \in Seq(Plain), Rising(s)
  PROVE  /\ StripBanner(s) \in Seq(Texts) /\ Rising(StripBanner(s))
         /\ Lines(StripBanner(s)) = Taken(s, Len(s))
<1>1. PICK w : /\ StripBanner(s) = w[Len(s)].out
               /\ w[0] = [skip |-> 0, out |-> <<>>]
               /\ \A n \in 1..Len(s) : w[n] = BannerStep(s, w[n - 1], n)
  BY StripBannerWalks
<1>2. Len(s) \in Nat /\ DOMAIN s = 1..Len(s) /\ \A n \in 1..Len(s) : s[n] \in Plain
  OBVIOUS
<1>3. \A t \in Texts : t[2] \in Nat
  BY DEF Texts
<1> DEFINE Held(n) == /\ w[n].skip \in Nat /\ n + w[n].skip <= Len(s)
                      /\ w[n].out \in Seq(Texts) /\ Rising(w[n].out)
                      /\ Lines(w[n].out) = Taken(s, n + w[n].skip)
           T == {n \in Nat : n \in 0..Len(s) => Held(n)}
<1>10. ASSUME NEW n \in Nat, NEW k \in Nat, NEW o \in Seq(Texts), w[n].skip = k, w[n].out = o,
              n + k <= Len(s), Rising(o), Lines(o) = Taken(s, n + k)
       PROVE  Held(n)
  BY <1>10
<1>4. 0 \in T
  <2>1. w[0].skip = 0 /\ w[0].out = <<>> /\ <<>> \in Seq(Texts)
    BY <1>1
  <2>2. Taken(s, 0) = {}
    BY DEF Taken
  <2>3. Held(0)
    <3>1. 0 + 0 = 0 /\ 0 <= Len(s) /\ 0 \in Nat
      BY <1>2
    <3>2. Rising(<<>>) /\ Lines(<<>>) = Taken(s, 0 + 0)
      BY <2>2, <3>1, LinesEmpty
    <3> HIDE DEF Held
    <3> QED BY <1>10, <2>1, <3>1, <3>2
  <2> QED BY <2>3
<1> HIDE DEF Held
<1>5. ASSUME NEW n \in Nat, n \in T PROVE n + 1 \in T
  <2> SUFFICES ASSUME n + 1 \in 0..Len(s) PROVE Held(n + 1)
    OBVIOUS
  <2>1. PICK m \in 1..Len(s) : m = n + 1 /\ m - 1 = n /\ n \in 0..Len(s)
    BY <1>2
  <2>2. Held(n)
    BY <1>5, <2>1
  <2> HIDE DEF T
  <2>3. PICK acc : acc = w[n]
    OBVIOUS
  <2>4. /\ acc.skip \in Nat /\ n + acc.skip <= Len(s) /\ acc.out \in Seq(Texts) /\ Rising(acc.out)
        /\ Lines(acc.out) = Taken(s, n + acc.skip)
    BY <2>2, <2>3 DEF Held
  <2>5. w[m] = BannerStep(s, acc, m)
    BY <1>1, <2>1, <2>3
  <2>6. s[m] \in Plain /\ s[m] \in Texts
    BY <1>2, PlainKind
  <2>7. CASE acc.skip > 0
    <3>1. w[m].skip = acc.skip - 1 /\ w[m].out = acc.out
      BY <2>5, <2>7 DEF BannerStep
    <3>2. acc.skip - 1 \in Nat /\ m + (acc.skip - 1) = n + acc.skip
      BY <2>1, <2>4, <2>7
    <3>3. Held(m)
      BY <2>4, <3>1, <3>2 DEF Held
    <3> QED BY <2>1, <3>3
  <2>8. CASE ~(acc.skip > 0) /\ ~Trio(s, m)
    <3>1. acc.skip = 0 /\ n + 0 = n /\ m + 0 = m
      BY <2>1, <2>4, <2>8
    <3>2. w[m].skip = 0 /\ w[m].out = IF Banner(s, m) THEN acc.out ELSE Append(acc.out, s[m])
      BY <2>5, <2>8 DEF BannerStep
    <3>3. Banner(s, m) <=> KindOf(s[m]) = "banner"
      BY <1>2 DEF Banner
    <3>4. Lines(acc.out) = Taken(s, n)
      BY <2>4, <3>1
    <3>5. CASE Banner(s, m)
      <4>1. Taken(s, m) = Taken(s, n)
        BY <2>1, <3>3, <3>5, TakenNext
      <4>2. Held(m)
        BY <2>4, <3>1, <3>2, <3>4, <3>5, <4>1 DEF Held
      <4> QED BY <2>1, <4>2
    <3>6. CASE ~Banner(s, m)
      <4>1. Taken(s, m) = Taken(s, n) \cup ({s[m][2]} \ {0})
        BY <2>1, <3>3, <3>6, TakenNext
      <4>2. s[m][2] # 0 => \A k \in Taken(s, n) : k < s[m][2]
        BY <2>1, TakenBelow
      <4>3. PICK out : out = acc.out
        OBVIOUS
      <4>4. PICK x \in Texts : x = s[m]
        BY <2>6
      <4>5. out \in Seq(Texts) /\ Rising(out) /\ (x[2] # 0 => \A k \in Lines(out) : k < x[2])
        BY <2>4, <3>4, <4>2, <4>3, <4>4
      <4>6. Append(out, x) \in Seq(Texts) /\ Rising(Append(out, x)) /\ Lines(Append(out, x)) = Lines(out) \cup ({x[2]} \ {0})
        BY <4>4, <4>5, AppendTextRises, Zenon
      <4>7. w[m].out = Append(out, x)
        BY <3>2, <3>6, <4>3, <4>4
      <4>8. Lines(w[m].out) = Taken(s, m)
        BY <3>4, <4>1, <4>3, <4>4, <4>6, <4>7
      <4>9. Held(m)
        <5>1. PICK o \in Seq(Texts) : o = Append(out, x)
          BY <4>6
        <5>2. w[m].out = o /\ w[m].skip = 0 /\ m + 0 = m /\ m <= Len(s) /\ m \in Nat
          <6>1. w[m].out = o /\ w[m].skip = 0
            BY <3>2, <4>7, <5>1, Zenon
          <6>2. m + 0 = m /\ m <= Len(s) /\ m \in Nat
            BY <1>2
          <6> QED BY <6>1, <6>2
        <5>3. Rising(o) /\ Lines(o) = Taken(s, m + 0)
          BY <4>6, <4>7, <4>8, <5>1, <5>2
        <5> QED BY <1>10, <5>2, <5>3
      <4> QED BY <2>1, <4>9
    <3> QED BY <3>5, <3>6
  <2>9. CASE ~(acc.skip > 0) /\ Trio(s, m)
    <3>1. acc.skip = 0 /\ n + 0 = n
      BY <2>1, <2>4, <2>9
    <3>2. w[m].skip = 2 /\ w[m].out = Parted(acc.out) \o <<<<"section", s[m + 1][2]>>, Gap>>
      BY <2>5, <2>9 DEF BannerStep
    <3>3. /\ KindOf(s[m]) = "banner" /\ m + 2 \in 1..Len(s) /\ KindOf(s[m + 2]) = "banner"
          /\ KindOf(s[m + 1]) # "banner" /\ KindOf(s[m + 1]) # "empty"
      BY <1>2, <2>9 DEF Trio, Banner
    <3>4. m + 1 \in 1..Len(s) /\ s[m + 1] \in Plain
      BY <1>2, <3>3
    <3>5. s[m + 1][2] \in Nat /\ s[m + 1][2] # 0
      BY <3>3, <3>4, PlainKind
    <3>6. Taken(s, m + 2) = Taken(s, n) \cup {s[m + 1][2]}
      <4>1. Taken(s, m) = Taken(s, n)
        BY <2>1, <3>3, TakenNext
      <4>0. m \in Nat /\ m + 1 \in Nat
        OBVIOUS
      <4>2. Taken(s, m + 1) = Taken(s, m) \cup ({s[m + 1][2]} \ {0})
        BY <3>3, <4>0, TakenNext
      <4>3. Taken(s, m + 1 + 1) = Taken(s, m + 1)
        <5>1. m + 1 \in Nat /\ m + 1 + 1 = m + 2
          OBVIOUS
        <5> QED BY <3>3, <5>1, TakenNext
      <4>4. m + 1 + 1 = m + 2
        OBVIOUS
      <4> QED BY <3>5, <4>1, <4>2, <4>3, <4>4
    <3>7. \A k \in Taken(s, n) : k < s[m + 1][2]
      BY <2>1, <3>4, <3>5, TakenBelow
    <3>8. PICK x \in Texts : x = <<"section", s[m + 1][2]>>
      BY <3>5 DEF Texts
    <3>9. PICK y \in Texts : y = Gap
      BY DEF Texts, Gap
    <3>10. PICK out \in Seq(Texts) : out = acc.out
      BY <2>4
    <3>11. PICK p : p = Parted(out)
      OBVIOUS
    <3>12. p \in Seq(Texts) /\ Rising(p) /\ Lines(p) = Taken(s, n)
      <4>1. Rising(out) /\ Lines(out) = Taken(s, n)
        BY <2>4, <3>1, <3>10
      <4>2. y[2] = 0
        BY <3>9 DEF Gap
      <4>3. Append(out, y) \in Seq(Texts) /\ Rising(Append(out, y)) /\ Lines(Append(out, y)) = Lines(out) \cup ({y[2]} \ {0})
        BY <4>1, <4>2, AppendTextRises, Zenon
      <4>4. p = out \/ p = Append(out, y)
        BY <3>9, <3>11 DEF Parted
      <4> QED BY <4>1, <4>2, <4>3, <4>4
    <3>13. x[2] = s[m + 1][2] /\ y[2] = 0
      BY <3>8, <3>9 DEF Gap
    <3>14. /\ Append(p, x) \in Seq(Texts) /\ Append(p, x) = p \o <<x>> /\ Rising(Append(p, x))
           /\ Lines(Append(p, x)) = Taken(s, n) \cup {s[m + 1][2]}
      <4>1. x[2] # 0 => \A k \in Lines(p) : k < x[2]
        BY <3>7, <3>12, <3>13
      <4>2. {x[2]} \ {0} = {s[m + 1][2]}
        BY <3>5, <3>13
      <4>3. /\ Append(p, x) \in Seq(Texts) /\ Append(p, x) = p \o <<x>> /\ Rising(Append(p, x))
            /\ Lines(Append(p, x)) = Lines(p) \cup ({x[2]} \ {0})
        BY <1>3, <3>12, <4>1, AppendRises
      <4> QED BY <3>12, <4>2, <4>3
    <3>15. PICK p1 \in Seq(Texts) : p1 = Append(p, x)
      BY <3>14
    <3>16. /\ Append(p1, y) \in Seq(Texts) /\ Append(p1, y) = p1 \o <<y>> /\ Rising(Append(p1, y))
           /\ Lines(Append(p1, y)) = Taken(s, n) \cup {s[m + 1][2]}
      <4>1. Rising(p1) /\ (y[2] # 0 => \A k \in Lines(p1) : k < y[2])
        BY <3>13, <3>14, <3>15
      <4>2. Lines(p1) \cup ({y[2]} \ {0}) = Lines(p1)
        BY <3>13
      <4>3. /\ Append(p1, y) \in Seq(Texts) /\ Append(p1, y) = p1 \o <<y>> /\ Rising(Append(p1, y))
            /\ Lines(Append(p1, y)) = Lines(p1) \cup ({y[2]} \ {0})
        BY <1>3, <4>1, AppendRises
      <4> QED BY <3>14, <3>15, <4>2, <4>3
    <3>17. w[m].out = Append(p1, y)
      <4>1. w[m].out = p \o <<x, y>>
        BY <3>2, <3>8, <3>9, <3>10, <3>11
      <4>2. p \o <<x, y>> = (p \o <<x>>) \o <<y>>
        <5>1. p \in Seq(Texts)
          BY <3>12
        <5> QED BY <5>1
      <4> QED BY <3>14, <3>15, <3>16, <4>1, <4>2
    <3>18. Held(m)
      <4>1. PICK o \in Seq(Texts) : o = Append(p1, y)
        BY <3>16
      <4>2. w[m].out = o /\ w[m].skip = 2 /\ m + 2 <= Len(s) /\ m \in Nat /\ 2 \in Nat
        <5>1. w[m].out = o /\ w[m].skip = 2
          BY <3>2, <3>17, <4>1, Zenon
        <5>2. m + 2 <= Len(s) /\ m \in Nat /\ 2 \in Nat
          BY <1>2, <3>3
        <5> QED BY <5>1, <5>2
      <4>3. Rising(o) /\ Lines(o) = Taken(s, m + 2)
        BY <3>6, <3>16, <4>1
      <4> QED BY <1>10, <4>2, <4>3
    <3> QED BY <2>1, <3>18
  <2> QED BY <2>7, <2>8, <2>9
<1> HIDE DEF T
<1>6. \A n \in Nat : n \in T
  BY <1>4, <1>5, Induct
<1>7. Len(s) \in Nat /\ Len(s) \in 0..Len(s)
  BY <1>2
<1>8. Held(Len(s))
  BY <1>6, <1>7 DEF T
<1>9. w[Len(s)].skip = 0 /\ Len(s) + 0 = Len(s)
  BY <1>2, <1>8 DEF Held
<1> QED BY <1>1, <1>8, <1>9 DEF Held

LEMMA TextsNumbered ==
  /\ \A t \in Texts : t[2] \in Nat
  /\ \A t \in Items : t[2] \in Nat
  /\ Texts \subseteq Items
BY DEF Texts, Items

\* What a text shows is what its lines hold.
LEMMA ShownLines ==
  ASSUME NEW A, \A t \in A : t[2] \in Nat, NEW s \in Seq(A)
  PROVE  \A n : n \in Shown(s) <=> n \in Lines(s) /\ file[n] # "empty"
<1>0. DOMAIN s = 1..Len(s) /\ \A k \in 1..Len(s) : s[k] \in A
  OBVIOUS
<1>1. \A k \in 1..Len(s) : s[k][2] \in Nat
  BY <1>0
<1>2. ASSUME NEW n PROVE n \in Shown(s) <=> n \in Lines(s) /\ file[n] # "empty"
  <2>1. ASSUME n \in Shown(s) PROVE n \in Lines(s) /\ file[n] # "empty"
    <3>1. PICK k \in 1..Len(s) : n = s[k][2] /\ n > 0 /\ file[n] # "empty"
      BY <1>0, <2>1 DEF Shown
    <3>2. n # 0
      BY <1>1, <3>1
    <3> QED BY <3>1, <3>2 DEF Lines
  <2>2. ASSUME n \in Lines(s), file[n] # "empty" PROVE n \in Shown(s)
    <3>1. PICK k \in 1..Len(s) : n = s[k][2] /\ n # 0
      BY <2>2 DEF Lines
    <3>2. n > 0
      BY <1>1, <3>1
    <3> QED BY <1>0, <2>2, <3>1, <3>2 DEF Shown
  <2> QED BY <2>1, <2>2
<1> QED BY <1>2

LEMMA KindInFile ==
  ASSUME NEW t \in Texts, t[2] # 0
  PROVE  /\ KindOf(t) = "empty" <=> file[t[2]] = "empty"
         /\ KindOf(t) = "deprecated" <=> file[t[2]] = "deprecated"
BY DEF Texts, KindOf

\* Blank edges go, and nothing that shows.
LEMMA StripBlankEdgesDrops ==
  ASSUME NEW s \in Seq(Texts), Rising(s)
  PROVE  /\ StripBlankEdges(s) \in Seq(Texts) /\ Rising(StripBlankEdges(s))
         /\ Lines(StripBlankEdges(s)) \subseteq Lines(s)
         /\ Shown(StripBlankEdges(s)) = Shown(s)
<1> DEFINE solid == {n \in DOMAIN s : ~IsBlank(s[n])}
           first == CHOOSE n \in solid : \A m \in solid : n <= m
           last == CHOOSE n \in solid : \A m \in solid : n >= m
<1>0. Len(s) \in Nat /\ DOMAIN s = 1..Len(s) /\ \A k \in 1..Len(s) : s[k] \in Texts
  OBVIOUS
<1>1. StripBlankEdges(s) = IF solid = {} THEN <<>> ELSE SubSeq(s, first, last)
  BY DEF StripBlankEdges
<1>2. solid \subseteq 1..Len(s) /\ \A k \in 1..Len(s) : k \notin solid => IsBlank(s[k])
  BY <1>0
<1>3. ASSUME NEW k \in 1..Len(s), k \notin solid, s[k][2] # 0 PROVE file[s[k][2]] = "empty"
  BY <1>0, <1>2, <1>3, KindInFile DEF IsBlank
<1>4. \A n : n \in Shown(s) <=> n \in Lines(s) /\ file[n] # "empty"
  BY TextsNumbered, ShownLines
<1> HIDE DEF solid
<1>5. CASE solid = {}
  <2>1. StripBlankEdges(s) = <<>> /\ <<>> \in Seq(Texts)
    BY <1>1, <1>5
  <2>2. \A n : n \in Shown(<<>>) <=> n \in Lines(<<>>) /\ file[n] # "empty"
    BY <2>1, TextsNumbered, ShownLines
  <2>3. Shown(<<>>) = {}
    BY <2>2, LinesEmpty
  <2>4. ASSUME NEW n \in Shown(s) PROVE FALSE
    <3>1. PICK k \in 1..Len(s) : n = s[k][2] /\ n # 0 /\ file[n] # "empty"
      BY <1>4 DEF Lines
    <3> QED BY <1>3, <1>5, <3>1
  <2> QED BY <2>1, <2>3, <2>4, LinesEmpty
<1>6. CASE solid # {}
  <2>1. first \in solid /\ \A m \in solid : first <= m
    <3>1. solid \subseteq Nat
      BY <1>0, <1>2
    <3> QED BY <1>6, <3>1, LeastNat
  <2>2. last \in solid /\ \A m \in solid : last >= m
    <3>1. solid \subseteq 0..Len(s)
      BY <1>0, <1>2
    <3> QED BY <1>0, <1>6, <3>1, GreatestNat
  <2> HIDE DEF first, last
  <2>3. first \in 1..Len(s) + 1 /\ last \in first - 1..Len(s)
    BY <1>0, <1>2, <2>1, <2>2
  <2>4. PICK r : r = SubSeq(s, first, last)
    OBVIOUS
  <2>5. r \in Seq(Texts) /\ Rising(r) /\ Lines(r) = {s[k][2] : k \in first..last} \ {0}
    <3>1. PICK a, b : a = first /\ b = last
      OBVIOUS
    <3>2. a \in 1..Len(s) + 1 /\ b \in a - 1..Len(s)
      BY <2>3, <3>1
    <3>3. \A t \in Texts : t[2] \in Nat
      BY TextsNumbered
    <3>4. /\ SubSeq(s, a, b) \in Seq(Texts) /\ Rising(SubSeq(s, a, b))
          /\ Lines(SubSeq(s, a, b)) = {s[k][2] : k \in a..b} \ {0}
      BY <3>2, <3>3, PieceRises
    <3> QED BY <2>4, <3>1, <3>4
  <2>6. Lines(r) \subseteq Lines(s)
    <3>1. \A k \in first..last : k \in 1..Len(s)
      BY <2>3
    <3> QED BY <2>5, <3>1 DEF Lines
  <2>7. \A n : n \in Shown(r) <=> n \in Lines(r) /\ file[n] # "empty"
    BY <2>5, TextsNumbered, ShownLines
  <2>8. ASSUME NEW n, n \in Lines(s), file[n] # "empty" PROVE n \in Lines(r)
    <3>1. PICK k \in 1..Len(s) : n = s[k][2] /\ n # 0
      BY <2>8 DEF Lines
    <3>2. k \in solid
      BY <1>3, <2>8, <3>1
    <3>3. k \in first..last
      BY <1>2, <2>1, <2>2, <2>3, <3>2
    <3> QED BY <2>5, <3>1, <3>3
  <2>9. Shown(r) = Shown(s)
    BY <1>4, <2>6, <2>7, <2>8
  <2> QED BY <1>1, <1>6, <2>4, <2>5, <2>6, <2>9
<1> QED BY <1>5, <1>6

\* Bare deprecation notices go.
LEMMA StripDeprecationDrops ==
  ASSUME NEW s \in Seq(Texts), Rising(s)
  PROVE  /\ StripDeprecation(s) \in Seq(Texts) /\ Rising(StripDeprecation(s))
         /\ \A n : n \in Shown(StripDeprecation(s)) <=> n \in Shown(s) /\ file[n] # "deprecated"
<1> DEFINE Keep(n) == IF KindOf(s[n]) = "deprecated" THEN <<>> ELSE <<s[n]>>
           seqs == [n \in DOMAIN s |-> Keep(n)]
<1>0. Len(s) \in Nat /\ DOMAIN s = 1..Len(s) /\ \A k \in 1..Len(s) : s[k] \in Texts
  OBVIOUS
<1>1. \A n : n \in Shown(s) <=> n \in Lines(s) /\ file[n] # "empty"
  BY TextsNumbered, ShownLines
<1>2. CASE ~\E n \in DOMAIN s : KindOf(s[n]) \in {"deprecated", "favour"}
  <2>1. StripDeprecation(s) = s
    BY <1>2 DEF StripDeprecation
  <2>2. ASSUME NEW n \in Shown(s) PROVE file[n] # "deprecated"
    <3>1. PICK k \in 1..Len(s) : n = s[k][2] /\ n # 0
      BY <1>1 DEF Lines
    <3>2. KindOf(s[k]) # "deprecated"
      BY <1>0, <1>2
    <3> QED BY <1>0, <3>1, <3>2, KindInFile
  <2> QED BY <2>1, <2>2
<1>3. CASE \E n \in DOMAIN s : KindOf(s[n]) \in {"deprecated", "favour"}
  <2>1. StripDeprecation(s) = StripBlankEdges(FlattenSeq(seqs))
    BY <1>3 DEF StripDeprecation
  <2>2. ASSUME NEW n \in 1..Len(s)
        PROVE  Keep(n) \in Seq(Texts) /\ Rising(Keep(n))
               /\ Lines(Keep(n)) = IF KindOf(s[n]) = "deprecated" THEN {} ELSE {s[n][2]} \ {0}
    <3>1. CASE KindOf(s[n]) = "deprecated"
      <4>1. Keep(n) = <<>> /\ <<>> \in Seq(Texts)
        BY <3>1
      <4> HIDE DEF Keep
      <4> QED BY <3>1, <4>1, LinesEmpty
    <3>2. CASE KindOf(s[n]) # "deprecated"
      <4>1. Keep(n) = <<s[n]>>
        BY <3>2
      <4>2. <<s[n]>> \in Seq(Texts)
        BY <1>0, OneIsSequence
      <4>3. Rising(<<s[n]>>) /\ Lines(<<s[n]>>) = {s[n][2]} \ {0}
        BY OneRises
      <4> HIDE DEF Keep
      <4> QED BY <3>2, <4>1, <4>2, <4>3
    <3> QED BY <3>1, <3>2
  <2> HIDE DEF Keep
  <2>3. seqs \in Seq(Seq(Texts)) /\ Len(seqs) = Len(s) /\ \A n \in 1..Len(s) : seqs[n] = Keep(n)
    BY <1>0, <2>2
  <2> HIDE DEF seqs
  <2>4. \A n \in 1..Len(seqs) : Rising(seqs[n])
    BY <2>2, <2>3
  <2>5. \A i, j \in 1..Len(seqs) : i < j => \A m \in Lines(seqs[i]), n \in Lines(seqs[j]) : m < n
    <3> SUFFICES ASSUME NEW i \in 1..Len(seqs), NEW j \in 1..Len(seqs), i < j,
                        NEW m \in Lines(seqs[i]), NEW n \in Lines(seqs[j])
                 PROVE  m < n
      OBVIOUS
    <3>1. i \in 1..Len(s) /\ j \in 1..Len(s) /\ m \in Lines(Keep(i)) /\ n \in Lines(Keep(j))
      BY <2>3
    <3>2. m = s[i][2] /\ m # 0
      BY <2>2, <3>1
    <3>3. n = s[j][2] /\ n # 0
      BY <2>2, <3>1
    <3> QED BY <3>1, <3>2, <3>3 DEF Rising
  <2>6. PICK r : r = FlattenSeq(seqs)
    OBVIOUS
  <2>7. r \in Seq(Texts) /\ Rising(r) /\ Lines(r) = UNION {Lines(seqs[n]) : n \in 1..Len(seqs)}
    BY <2>3, <2>4, <2>5, <2>6, TextsNumbered, FlattenRises
  <2>8. ASSUME NEW n PROVE n \in Lines(r) <=> n \in Lines(s) /\ file[n] # "deprecated"
    <3>1. ASSUME n \in Lines(r) PROVE n \in Lines(s) /\ file[n] # "deprecated"
      <4>1. PICK k \in 1..Len(seqs) : n \in Lines(seqs[k])
        BY <2>7, <3>1
      <4>2. k \in 1..Len(s) /\ KindOf(s[k]) # "deprecated" /\ n = s[k][2] /\ n # 0
        BY <2>2, <2>3, <4>1
      <4>3. file[n] # "deprecated"
        BY <1>0, <4>2, KindInFile
      <4> QED BY <4>2, <4>3 DEF Lines
    <3>2. ASSUME n \in Lines(s), file[n] # "deprecated" PROVE n \in Lines(r)
      <4>1. PICK k \in 1..Len(s) : n = s[k][2] /\ n # 0
        BY <3>2 DEF Lines
      <4>2. KindOf(s[k]) # "deprecated"
        BY <1>0, <3>2, <4>1, KindInFile
      <4>3. n \in Lines(seqs[k]) /\ k \in 1..Len(seqs)
        BY <2>2, <2>3, <4>1, <4>2
      <4> QED BY <2>7, <4>3
    <3> QED BY <3>1, <3>2
  <2>9. \A n : n \in Shown(r) <=> n \in Lines(r) /\ file[n] # "empty"
    BY <2>7, TextsNumbered, ShownLines
  <2>10. StripBlankEdges(r) \in Seq(Texts) /\ Rising(StripBlankEdges(r)) /\ Shown(StripBlankEdges(r)) = Shown(r)
    BY <2>7, StripBlankEdgesDrops
  <2> QED BY <1>1, <2>1, <2>6, <2>8, <2>9, <2>10
<1> QED BY <1>2, <1>3

LEMMA ConcatItemsRises ==
  \A a, b \in Seq(Items) : Rising(a) /\ Rising(b) /\ (\A m \in Lines(a), n \in Lines(b) : m < n)
      => a \o b \in Seq(Items) /\ Rising(a \o b) /\ Lines(a \o b) = Lines(a) \cup Lines(b)
BY TextsNumbered, AllConcatRise

\* A line of the text and what wraps it: only the line has a number.
LEMMA WrappedRises ==
  ASSUME NEW s \in Seq(Texts), NEW n \in 1..Len(s) + 1
  PROVE  /\ Wrapped(s, n) \in Seq(Items) /\ Rising(Wrapped(s, n))
         /\ Lines(Wrapped(s, n)) = IF n <= Len(s) THEN {s[n][2]} \ {0} ELSE {}
<1>0. Len(s) \in Nat /\ DOMAIN s = 1..Len(s) /\ \A k \in 1..Len(s) : s[k] \in Texts
  OBVIOUS
<1>1. \A t \in Items : t[2] \in Nat
  BY TextsNumbered
<1>2. ASSUME NEW t, t \in Items, t[2] = 0
      PROVE  <<t>> \in Seq(Items) /\ Rising(<<t>>) /\ Lines(<<t>>) = {}
  BY <1>2, OneIsSequence, OneRises
<1>3. <<>> \in Seq(Items)
  OBVIOUS
<1>4. Closes(s, n) \in Seq(Items) /\ Rising(Closes(s, n)) /\ Lines(Closes(s, n)) = {}
  <2>1. CASE Run(s, n - 1) \in {"", Run(s, n)}
    <3>1. Closes(s, n) = <<>>
      BY <2>1 DEF Closes
    <3> QED BY <1>3, <3>1, LinesEmpty
  <2>2. CASE Run(s, n - 1) \notin {"", Run(s, n)}
    <3>1. PICK t : t = <<EndOf(Run(s, n - 1)), 0>>
      OBVIOUS
    <3>2. t \in Items /\ t[2] = 0
      BY <2>2, <3>1, RunIsTag, MarksFit
    <3>3. Closes(s, n) = <<t>>
      BY <2>2, <3>1 DEF Closes
    <3> QED BY <1>2, <3>2, <3>3
  <2> QED BY <2>1, <2>2
<1>5. Opens(s, n) \in Seq(Items) /\ Rising(Opens(s, n)) /\ Lines(Opens(s, n)) = {}
  <2>1. CASE Run(s, n) \in {"", Run(s, n - 1)}
    <3>1. Opens(s, n) = <<>>
      BY <2>1 DEF Opens
    <3> QED BY <1>3, <3>1, LinesEmpty
  <2>2. CASE Run(s, n) \notin {"", Run(s, n - 1)}
    <3>1. PICK t : t = <<Run(s, n), 0>>
      OBVIOUS
    <3>2. t \in Items /\ t[2] = 0
      BY <2>2, <3>1, RunIsTag, MarksFit
    <3>3. Opens(s, n) = <<t>>
      BY <2>2, <3>1 DEF Opens
    <3> QED BY <1>2, <3>2, <3>3
  <2> QED BY <2>1, <2>2
<1>6. /\ Line(s, n) \in Seq(Items) /\ Rising(Line(s, n))
      /\ Lines(Line(s, n)) = IF n <= Len(s) THEN {s[n][2]} \ {0} ELSE {}
  <2>1. CASE n \notin DOMAIN s
    <3>1. Line(s, n) = <<>> /\ ~(n <= Len(s))
      BY <1>0, <2>1 DEF Line
    <3> QED BY <1>3, <3>1, LinesEmpty
  <2>2. CASE n \in DOMAIN s
    <3>1. s[n] \in Texts /\ n <= Len(s)
      BY <1>0, <2>2
    <3>2. PICK t : t = Listed(s[n])
      OBVIOUS
    <3>3. t \in Items /\ t[2] = s[n][2]
      <4>1. t \in Items
        BY <3>1, <3>2, LineFits
      <4> QED BY <3>2, <4>1 DEF Listed
    <3>4. Line(s, n) = <<t>>
      BY <2>2, <3>2 DEF Line
    <3>5. <<t>> \in Seq(Items) /\ Rising(<<t>>) /\ Lines(<<t>>) = {t[2]} \ {0}
      BY <3>3, OneIsSequence, OneRises
    <3> QED BY <3>1, <3>3, <3>4, <3>5
  <2> QED BY <2>1, <2>2
<1>7. PICK c, o, l \in Seq(Items) : c = Closes(s, n) /\ o = Opens(s, n) /\ l = Line(s, n)
  BY <1>4, <1>5, <1>6
<1>8. PICK co : co = c \o o
  OBVIOUS
<1>9. co \in Seq(Items) /\ Rising(co) /\ Lines(co) = {}
  <2>1. Rising(c) /\ Rising(o) /\ Lines(c) = {} /\ Lines(o) = {}
    BY <1>4, <1>5, <1>7
  <2>2. \A i \in Lines(c), j \in Lines(o) : i < j
    BY <2>1
  <2>3. c \o o \in Seq(Items) /\ Rising(c \o o) /\ Lines(c \o o) = Lines(c) \cup Lines(o)
    BY <1>7, <2>1, <2>2, ConcatItemsRises, Zenon
  <2> QED BY <1>8, <2>1, <2>3
<1>10. co \o l \in Seq(Items) /\ Rising(co \o l) /\ Lines(co \o l) = Lines(l)
  <2>1. Rising(l)
    BY <1>6, <1>7
  <2>2. \A i \in Lines(co), j \in Lines(l) : i < j
    BY <1>9
  <2>3. co \in Seq(Items) /\ l \in Seq(Items) /\ Rising(co)
    BY <1>7, <1>9
  <2>4. co \o l \in Seq(Items) /\ Rising(co \o l) /\ Lines(co \o l) = Lines(co) \cup Lines(l)
    BY <1>1, <2>1, <2>2, <2>3, ConcatRises
  <2> QED BY <1>9, <2>4
<1>11. Wrapped(s, n) = co \o l
  BY <1>7, <1>8, WrappedPieces
<1> QED BY <1>6, <1>7, <1>10, <1>11

\* The wrapping adds no line, loses none and keeps their order.
LEMMA FormatKeepsLines ==
  ASSUME NEW s \in Seq(Texts), Rising(s)
  PROVE  /\ FormatListItems(s) \in Seq(Items) /\ Rising(FormatListItems(s))
         /\ Lines(FormatListItems(s)) = Lines(s)
<1> DEFINE blocks == [n \in 1..Len(s) + 1 |-> Wrapped(s, n)]
<1>0. Len(s) \in Nat
  OBVIOUS
<1>1. ASSUME NEW n \in 1..Len(s) + 1
      PROVE  /\ Wrapped(s, n) \in Seq(Items) /\ Rising(Wrapped(s, n))
             /\ Lines(Wrapped(s, n)) = IF n <= Len(s) THEN {s[n][2]} \ {0} ELSE {}
  BY WrappedRises
<1>2. blocks \in Seq(Seq(Items)) /\ Len(blocks) = Len(s) + 1 /\ \A n \in 1..Len(s) + 1 : blocks[n] = Wrapped(s, n)
  BY <1>0, <1>1
<1>3. FormatListItems(s) = FlattenSeq(blocks)
  BY DEF FormatListItems
<1> HIDE DEF blocks
<1>4. \A n \in 1..Len(blocks) : Rising(blocks[n])
  BY <1>1, <1>2
<1>5. \A i, j \in 1..Len(blocks) : i < j => \A m \in Lines(blocks[i]), n \in Lines(blocks[j]) : m < n
  <2> SUFFICES ASSUME NEW i \in 1..Len(blocks), NEW j \in 1..Len(blocks), i < j,
                      NEW m \in Lines(blocks[i]), NEW n \in Lines(blocks[j])
               PROVE  m < n
    OBVIOUS
  <2>1. i \in 1..Len(s) + 1 /\ j \in 1..Len(s) + 1
    BY <1>2
  <2>2. i <= Len(s) /\ m = s[i][2] /\ m # 0
    BY <1>1, <1>2, <2>1
  <2>3. j <= Len(s) /\ n = s[j][2] /\ n # 0
    BY <1>1, <1>2, <2>1
  <2> QED BY <1>0, <2>1, <2>2, <2>3 DEF Rising
<1>6. /\ FlattenSeq(blocks) \in Seq(Items) /\ Rising(FlattenSeq(blocks))
      /\ Lines(FlattenSeq(blocks)) = UNION {Lines(blocks[n]) : n \in 1..Len(blocks)}
  <2>1. \A t \in Items : t[2] \in Nat
    BY TextsNumbered
  <2> QED BY <1>2, <1>4, <1>5, <2>1, FlattenRises
<1>7. Lines(FlattenSeq(blocks)) = Lines(s)
  <2>1. ASSUME NEW x \in Lines(FlattenSeq(blocks)) PROVE x \in Lines(s)
    <3>1. PICK n \in 1..Len(s) + 1 : x \in Lines(Wrapped(s, n))
      BY <1>2, <1>6
    <3>2. n \in 1..Len(s) /\ x = s[n][2] /\ x # 0
      BY <1>0, <1>1, <3>1
    <3> QED BY <3>2 DEF Lines
  <2>2. ASSUME NEW x \in Lines(s) PROVE x \in Lines(FlattenSeq(blocks))
    <3>1. PICK n \in 1..Len(s) : x = s[n][2] /\ x # 0
      BY DEF Lines
    <3>2. n \in 1..Len(blocks) /\ x \in Lines(blocks[n])
      BY <1>0, <1>1, <1>2, <3>1
    <3> QED BY <1>6, <3>2
  <2> QED BY <2>1, <2>2
<1> QED BY <1>3, <1>6, <1>7

LEMMA RisingInOrder ==
  ASSUME NEW A, \A t \in A : t[2] \in Nat, NEW s \in Seq(A), Rising(s)
  PROVE  InOrder(s)
<1>1. DOMAIN s = 1..Len(s) /\ \A k \in 1..Len(s) : s[k][2] \in Nat
  OBVIOUS
<1>2. ASSUME NEW k \in 1..Len(s), s[k][2] \in Shown(s) PROVE s[k][2] # 0
  BY <1>2 DEF Shown
<1> QED BY <1>1, <1>2 DEF InOrder, Rising

\* The cleaned comments of an owner are its comments without the rulers.
LEMMA CleanedShows ==
  ASSUME TypeOK, NEW owner, owner \subseteq 1..Len(file)
  PROVE  /\ Cleaned(owner) \in Seq(Texts) /\ Rising(Cleaned(owner))
         /\ Shown(Cleaned(owner)) = {n \in owner : file[n] \notin {"empty", "banner"}}
<1>1. PICK t \in Seq(Plain) : t = TextOf(owner) /\ Rising(t) /\ Lines(t) = owner
  BY TextOfOwner
<1>2. PICK b \in Seq(Texts) : b = StripBanner(t) /\ Rising(b) /\ Lines(b) = Taken(t, Len(t))
  BY <1>1, StripBannerDrops
<1>3. Cleaned(owner) = StripBlankEdges(b)
  BY <1>1, <1>2 DEF Cleaned
<1>4. /\ StripBlankEdges(b) \in Seq(Texts) /\ Rising(StripBlankEdges(b))
      /\ Shown(StripBlankEdges(b)) = Shown(b)
  BY <1>2, StripBlankEdgesDrops
<1>5. \A n : n \in Shown(b) <=> n \in Lines(b) /\ file[n] # "empty"
  BY <1>2, TextsNumbered, ShownLines
<1>6. \A k \in 1..Len(t) : t[k] \in Plain
  BY <1>1
<1>7. ASSUME NEW n PROVE n \in Taken(t, Len(t)) <=> n \in owner /\ file[n] # "banner"
  <2>1. ASSUME n \in Taken(t, Len(t)) PROVE n \in owner /\ file[n] # "banner"
    <3>1. PICK k \in 1..Len(t) : KindOf(t[k]) # "banner" /\ n = t[k][2] /\ n # 0
      BY <2>1 DEF Taken
    <3>2. KindOf(t[k]) = file[n]
      BY <1>6, <3>1, PlainKind
    <3>3. n \in Lines(t)
      BY <3>1 DEF Lines
    <3> QED BY <1>1, <3>1, <3>2, <3>3
  <2>2. ASSUME n \in owner, file[n] # "banner" PROVE n \in Taken(t, Len(t))
    <3>1. PICK k \in 1..Len(t) : n = t[k][2] /\ n # 0
      BY <1>1, <2>2 DEF Lines
    <3>2. KindOf(t[k]) # "banner"
      BY <1>6, <2>2, <3>1, PlainKind
    <3> QED BY <3>1, <3>2 DEF Taken
  <2> QED BY <2>1, <2>2
<1>8. ASSUME NEW n PROVE n \in Shown(b) <=> n \in owner /\ file[n] \notin {"empty", "banner"}
  BY <1>2, <1>5, <1>7
<1>9. Shown(b) = {n \in owner : file[n] \notin {"empty", "banner"}}
  BY <1>8
<1> QED BY <1>3, <1>4, <1>9

LEMMA BriefWithinParagraph ==
  ASSUME NEW s \in Seq(Texts)
  PROVE  BriefLength(s) \in 0..Len(s)
<1> DEFINE stops == {n \in DOMAIN s : KindOf(s[n]) = "sentence"}
<1>0. Len(s) \in Nat /\ stops \subseteq 1..Len(s)
  OBVIOUS
<1>1. BriefLength(s) = IF stops = {} THEN Len(s) ELSE CHOOSE n \in stops : \A m \in stops : n <= m
  BY DEF BriefLength
<1> HIDE DEF stops
<1>2. CASE stops = {}
  BY <1>0, <1>1, <1>2
<1>3. CASE stops # {}
  <2>1. stops \subseteq Nat
    BY <1>0
  <2>2. PICK x \in stops : \A y \in stops : x <= y
    BY <1>3, <2>1, LeastNat
  <2>3. BriefLength(s) \in stops
    BY <1>1, <1>3, <2>2
  <2>4. \A n \in stops : n \in 0..Len(s)
    BY <1>0
  <2> QED BY <2>3, <2>4
<1> QED BY <1>2, <1>3

\* Cutting the text at its first gap, and the first paragraph after its first
\* sentence, loses no line, and each piece stands before the next.
LEMMA StructDocShows ==
  ASSUME NEW s \in Seq(Texts), Rising(s), NEW d, d = StructDoc(s)
  PROVE  /\ WellFormed(d.details)
         /\ d.brief \o d.continuation \o d.details \in Seq(Items)
         /\ Rising(d.brief \o d.continuation \o d.details)
         /\ Shown(d.brief \o d.continuation \o d.details) = Shown(s)
<1> DEFINE gaps == {n \in DOMAIN s : IsBlank(s[n])}
           first == IF gaps = {} THEN Len(s) + 1 ELSE CHOOSE n \in gaps : \A m \in gaps : n <= m
           paragraph == SubSeq(s, 1, first - 1)
           brief == BriefLength(paragraph)
           b == SubSeq(paragraph, 1, brief)
           c == SubSeq(paragraph, brief + 1, Len(paragraph))
           rest == SubSeq(s, first + 1, Len(s))
<1>0. Len(s) \in Nat /\ DOMAIN s = 1..Len(s) /\ \A k \in 1..Len(s) : s[k] \in Texts
  OBVIOUS
<1>1. \A t \in Texts : t[2] \in Nat
  BY TextsNumbered
<1>2. \A t \in Items : t[2] \in Nat
  BY TextsNumbered
<1>3. Seq(Texts) \subseteq Seq(Items)
  BY TextsNumbered
<1>4. StructDoc(s) = [brief |-> b, continuation |-> c, details |-> FormatListItems(StripBlankEdges(rest))]
  BY DEF StructDoc
<1>5. gaps \subseteq 1..Len(s)
  BY <1>0
<1>6. ASSUME NEW k \in gaps, s[k][2] # 0 PROVE file[s[k][2]] = "empty"
  BY <1>0, <1>5, <1>6, KindInFile DEF IsBlank
<1> HIDE DEF gaps
<1>7. first \in 1..Len(s) + 1 /\ (first <= Len(s) => first \in gaps)
  <2>1. CASE gaps = {}
    BY <1>0, <2>1
  <2>2. CASE gaps # {}
    <3>1. gaps \subseteq Nat
      BY <1>0, <1>5
    <3>2. PICK x \in gaps : \A y \in gaps : x <= y
      BY <2>2, <3>1, LeastNat
    <3>3. first \in gaps
      BY <2>2, <3>2
    <3> HIDE DEF first
    <3>4. \A n \in gaps : n \in 1..Len(s) + 1
      BY <1>0, <1>5
    <3> QED BY <3>3, <3>4
  <2> QED BY <2>1, <2>2
<1> HIDE DEF first
<1>8. PICK f : f = first
  OBVIOUS
<1>9. PICK p, r : p = paragraph /\ r = rest
  OBVIOUS
<1>10. f \in 1..Len(s) + 1 /\ f - 1 \in 0..Len(s)
  BY <1>0, <1>7, <1>8
<1>11. p \in Seq(Texts) /\ Rising(p) /\ Lines(p) = {s[k][2] : k \in 1..f - 1} \ {0}
  <2>1. p = SubSeq(s, 1, f - 1) /\ 1 \in 1..Len(s) + 1 /\ f - 1 \in 1 - 1..Len(s)
    BY <1>0, <1>8, <1>9, <1>10
  <2> QED BY <1>1, <2>1, PieceRises
<1>12. r \in Seq(Texts) /\ Rising(r) /\ Lines(r) = {s[k][2] : k \in f + 1..Len(s)} \ {0}
  <2>1. r = SubSeq(s, f + 1, Len(s))
    BY <1>8, <1>9
  <2>2. CASE f <= Len(s)
    <3>1. PICK a, e : a = f + 1 /\ e = Len(s)
      OBVIOUS
    <3>2. a \in 1..Len(s) + 1 /\ e \in a - 1..Len(s)
      BY <1>0, <1>10, <2>2, <3>1
    <3>3. /\ SubSeq(s, a, e) \in Seq(Texts) /\ Rising(SubSeq(s, a, e))
          /\ Lines(SubSeq(s, a, e)) = {s[k][2] : k \in a..e} \ {0}
      BY <1>1, <3>2, PieceRises
    <3> QED BY <2>1, <3>1, <3>3
  <2>3. CASE ~(f <= Len(s))
    <3>1. f + 1 > Len(s) /\ f + 1 \in Int /\ f + 1..Len(s) = {}
      BY <1>0, <1>10, <2>3
    <3>2. r = <<>> /\ <<>> \in Seq(Texts)
      BY <1>0, <2>1, <3>1
    <3>3. {s[k][2] : k \in f + 1..Len(s)} \ {0} = {}
      BY <3>1
    <3> QED BY <3>2, <3>3, LinesEmpty
  <2> QED BY <2>2, <2>3
<1>13. b \in Seq(Texts) /\ c \in Seq(Texts) /\ b \o c = p
  <2>1. PICK e : e = brief
    OBVIOUS
  <2>2. Len(p) \in Nat /\ e \in 0..Len(p)
    <3>1. BriefLength(p) \in 0..Len(p)
      BY <1>11, BriefWithinParagraph
    <3> QED BY <1>9, <1>11, <2>1, <3>1
  <2>3. b = SubSeq(p, 1, e) /\ c = SubSeq(p, e + 1, Len(p))
    BY <1>9, <2>1
  <2>4. SubSeq(p, 1, e) \in Seq(Texts) /\ SubSeq(p, e + 1, Len(p)) \in Seq(Texts)
    BY <1>11, <2>2
  <2>5. SubSeq(p, 1, e) \o SubSeq(p, e + 1, Len(p)) = p
    <3>1. SubSeq(p, 1, e) \o SubSeq(p, e + 1, Len(p)) = SubSeq(p, 1, Len(p))
      <4>1. PICK m, n : m = 1 /\ n = Len(p)
        OBVIOUS
      <4>2. p \in Seq(Texts) /\ m \in 1..Len(p) + 1 /\ e \in m - 1..Len(p) /\ n \in e..Len(p)
        BY <1>11, <2>2, <4>1
      <4>3. SubSeq(p, m, e) \o SubSeq(p, e + 1, n) = SubSeq(p, m, n)
        BY <4>2, ConcatAdjacentSubSeq
      <4> QED BY <4>1, <4>3
    <3> QED BY <1>11, <3>1, SubSeqFull
  <2> QED BY <2>3, <2>4, <2>5
<1>14. PICK g : g = StripBlankEdges(r)
  OBVIOUS
<1>15. g \in Seq(Texts) /\ Rising(g) /\ Lines(g) \subseteq Lines(r) /\ Shown(g) = Shown(r)
  BY <1>12, <1>14, StripBlankEdgesDrops
<1>16. PICK h : h = FormatListItems(g)
  OBVIOUS
<1>17. h \in Seq(Items) /\ Rising(h) /\ Lines(h) = Lines(g) /\ WellFormed(h)
  BY <1>15, <1>16, FormatKeepsLines, FormatIsWellFormed
<1> HIDE DEF b, c, rest, paragraph, brief
<1>18. d.brief = b /\ d.continuation = c /\ d.details = h
  <2>1. d.brief = b /\ d.continuation = c /\ d.details = FormatListItems(StripBlankEdges(rest))
    BY <1>4
  <2> QED BY <1>9, <1>14, <1>16, <2>1
<1>19. d.brief \o d.continuation \o d.details = p \o h
  BY <1>13, <1>18
<1>20. p \in Seq(Items)
  BY <1>3, <1>11
<1>21. \A i \in Lines(p), j \in Lines(h) : i < j
  <2> SUFFICES ASSUME NEW i \in Lines(p), NEW j \in Lines(h) PROVE i < j
    OBVIOUS
  <2>1. PICK k \in 1..f - 1 : i = s[k][2] /\ i # 0
    BY <1>11
  <2>2. PICK l \in f + 1..Len(s) : j = s[l][2] /\ j # 0
    BY <1>12, <1>15, <1>17
  <2>3. k \in 1..Len(s) /\ l \in 1..Len(s) /\ k < l
    BY <1>0, <1>10, <2>1, <2>2
  <2> QED BY <2>1, <2>2, <2>3 DEF Rising
<1>22. p \o h \in Seq(Items) /\ Rising(p \o h) /\ Lines(p \o h) = Lines(p) \cup Lines(h)
  <2>1. h \in Seq(Items) /\ Rising(h) /\ Rising(p)
    BY <1>11, <1>17
  <2> QED BY <1>2, <1>20, <1>21, <2>1, ConcatRises
<1>23. Shown(p \o h) = Shown(s)
  <2>1. \A n : n \in Shown(p \o h) <=> n \in Lines(p \o h) /\ file[n] # "empty"
    BY <1>2, <1>22, ShownLines
  <2>2. \A n : n \in Shown(s) <=> n \in Lines(s) /\ file[n] # "empty"
    BY <1>1, ShownLines
  <2>3. \A n : n \in Shown(r) <=> n \in Lines(r) /\ file[n] # "empty"
    BY <1>1, <1>12, ShownLines
  <2>4. \A n : n \in Shown(g) <=> n \in Lines(g) /\ file[n] # "empty"
    BY <1>1, <1>15, ShownLines
  <2>5. ASSUME NEW n \in Shown(p \o h) PROVE n \in Shown(s)
    <3>1. n \in Lines(p) \/ n \in Lines(r)
      BY <1>15, <1>17, <1>22, <2>1, <2>5
    <3>2. PICK k \in 1..Len(s) : n = s[k][2] /\ n # 0
      <4>1. 1..f - 1 \subseteq 1..Len(s) /\ f + 1..Len(s) \subseteq 1..Len(s)
        BY <1>0, <1>10
      <4> QED BY <1>11, <1>12, <3>1, <4>1
    <3>3. n \in Lines(s)
      BY <3>2 DEF Lines
    <3> QED BY <2>1, <2>2, <2>5, <3>3
  <2>6. ASSUME NEW n \in Shown(s) PROVE n \in Shown(p \o h)
    <3>1. n \in Lines(s) /\ file[n] # "empty"
      BY <2>2, <2>6
    <3>2. PICK k \in 1..Len(s) : n = s[k][2] /\ n # 0
      BY <3>1 DEF Lines
    <3>3. k # f
      <4>1. ASSUME k = f PROVE FALSE
        <5>1. k \in gaps
          BY <1>0, <1>7, <1>8, <3>2, <4>1
        <5> QED BY <1>6, <3>1, <3>2, <5>1
      <4> QED BY <4>1
    <3>4. k \in 1..f - 1 \/ k \in f + 1..Len(s)
      BY <1>0, <1>10, <3>2, <3>3
    <3>5. n \in Lines(p) \/ n \in Lines(r)
      BY <1>11, <1>12, <3>2, <3>4
    <3>6. n \in Lines(p) \/ n \in Lines(h)
      BY <1>15, <1>17, <2>3, <2>4, <3>1, <3>5
    <3> QED BY <1>22, <2>1, <3>1, <3>6
  <2> QED BY <2>5, <2>6
<1> QED BY <1>17, <1>18, <1>19, <1>22, <1>23

-----------------------------------------------------------------------------
(* The result of extract_doc_info() *)

LEMMA DocMade ==
  ASSUME TypeOK, ExtractDocInfo
  PROVE  \E d : /\ d = StructDoc(StripDeprecation(Cleaned(struct)))
                /\ doc'.brief = d.brief /\ doc'.continuation = d.continuation /\ doc'.details = d.details
                /\ \A f \in DOMAIN file : doc'.fields[f] = FormatListItems(Cleaned(Documented(f)))
BY DEF ExtractDocInfo

\* Once the text is made, nothing is read any more.
Done == doc.made => at = Len(file)

LEMMA DoneInit == Init => Done
BY DEF Init, NoDoc, Done

LEMMA DocKept ==
  ASSUME TypeOK, Done, [Next]_vars
  PROVE  /\ UNCHANGED file
         /\ Done'
         /\ ExtractDocInfo \/ (UNCHANGED doc /\ (doc.made => UNCHANGED <<struct, docs>>))
<1>1. CASE ExtractDocInfo
  BY <1>1 DEF ExtractDocInfo, Done
<1>2. CASE UNCHANGED vars
  BY <1>2 DEF vars, Done
<1>3. CASE BlankLine \/ CommentLine \/ ConstantLine \/ FieldLine
  <2>1. at < Len(file) /\ UNCHANGED <<file, doc>>
    BY <1>3 DEF BlankLine, CommentLine, ConstantLine, FieldLine, Reads
  <2>2. ~doc.made
    BY <2>1 DEF Done, TypeOK
  <2> QED BY <2>1, <2>2 DEF Done
<1> QED BY <1>1, <1>2, <1>3 DEF Next

\* The markup and the lines of a text depend on the file, which stays.
LEMMA FileFixed ==
  ASSUME UNCHANGED file
  PROVE  /\ \A s : WellFormed(s) => WellFormed(s)'
         /\ \A s : Shown(s)' = Shown(s)
         /\ \A s : InOrder(s) => InOrder(s)'
<1>1. ASSUME NEW t PROVE KindOf(t)' = KindOf(t)
  BY DEF KindOf
<1>2. ASSUME NEW s, WellFormed(s) PROVE WellFormed(s)'
  BY <1>1, <1>2 DEF WellFormed
<1>3. ASSUME NEW s PROVE Shown(s)' = Shown(s)
  BY DEF Shown
<1>4. ASSUME NEW s, InOrder(s) PROVE InOrder(s)'
  BY <1>3, <1>4 DEF InOrder
<1> QED BY <1>2, <1>3, <1>4

\* extract_doc_info() makes well formed markup and loses no line.
LEMMA DocIsRight ==
  ASSUME TypeOK, ExtractDocInfo
  PROVE  MarkupBalanced' /\ EveryLineDocumented'
<1>0. UNCHANGED <<file, struct, docs>>
  BY DEF ExtractDocInfo
<1>1. struct \subseteq 1..Len(file) /\ DOMAIN file = 1..Len(file)
      /\ \A f \in DOMAIN file : Documented(f) \subseteq 1..Len(file) /\ Documented(f)' = Documented(f)
  BY <1>0 DEF TypeOK, Documented
<1>2. PICK d : /\ d = StructDoc(StripDeprecation(Cleaned(struct)))
               /\ doc'.brief = d.brief /\ doc'.continuation = d.continuation /\ doc'.details = d.details
               /\ \A f \in DOMAIN file : doc'.fields[f] = FormatListItems(Cleaned(Documented(f)))
  BY DocMade
<1>3. PICK s : s = StripDeprecation(Cleaned(struct))
  OBVIOUS
<1>4. /\ Cleaned(struct) \in Seq(Texts) /\ Rising(Cleaned(struct))
      /\ Shown(Cleaned(struct)) = {n \in struct : file[n] \notin {"empty", "banner"}}
  BY <1>1, CleanedShows
<1>5. /\ s \in Seq(Texts) /\ Rising(s)
      /\ \A n : n \in Shown(s) <=> n \in Shown(Cleaned(struct)) /\ file[n] # "deprecated"
  BY <1>3, <1>4, StripDeprecationDrops
<1>6. PICK t : t = d.brief \o d.continuation \o d.details
  OBVIOUS
<1>7. WellFormed(d.details) /\ t \in Seq(Items) /\ Rising(t) /\ Shown(t) = Shown(s)
  BY <1>2, <1>3, <1>5, <1>6, StructDocShows
<1>8. Shown(t) = {n \in struct : file[n] \notin {"empty", "banner", "deprecated"}}
  BY <1>4, <1>5, <1>7
<1>9. InOrder(t)
  BY <1>7, TextsNumbered, RisingInOrder
<1>10. ASSUME NEW f \in DOMAIN file
       PROVE  /\ WellFormed(FormatListItems(Cleaned(Documented(f))))
              /\ Shown(FormatListItems(Cleaned(Documented(f)))) = {n \in Documented(f) : file[n] \notin {"empty", "banner"}}
              /\ InOrder(FormatListItems(Cleaned(Documented(f))))
  <2>1. PICK o : o = Documented(f)
    OBVIOUS
  <2>2. /\ Cleaned(o) \in Seq(Texts) /\ Rising(Cleaned(o))
        /\ Shown(Cleaned(o)) = {n \in o : file[n] \notin {"empty", "banner"}}
    BY <1>1, <2>1, CleanedShows
  <2>3. PICK g : g = FormatListItems(Cleaned(o))
    OBVIOUS
  <2>4. g \in Seq(Items) /\ Rising(g) /\ Lines(g) = Lines(Cleaned(o)) /\ WellFormed(g)
    BY <2>2, <2>3, FormatKeepsLines, FormatIsWellFormed
  <2>5. \A n : n \in Shown(g) <=> n \in Lines(g) /\ file[n] # "empty"
    BY <2>4, TextsNumbered, ShownLines
  <2>6. \A n : n \in Shown(Cleaned(o)) <=> n \in Lines(Cleaned(o)) /\ file[n] # "empty"
    BY <2>2, TextsNumbered, ShownLines
  <2>7. Shown(g) \subseteq Shown(Cleaned(o)) /\ Shown(Cleaned(o)) \subseteq Shown(g)
    BY <2>4, <2>5, <2>6
  <2>8. InOrder(g)
    BY <2>4, TextsNumbered, RisingInOrder
  <2> QED BY <2>1, <2>2, <2>3, <2>4, <2>7, <2>8
<1>11. MarkupBalanced'
  <2>1. WellFormed(doc.details)'
    BY <1>0, <1>2, <1>7, FileFixed
  <2>2. ASSUME NEW f \in DOMAIN file PROVE WellFormed(doc.fields[f])'
    <3>1. PICK g : g = FormatListItems(Cleaned(Documented(f)))
      OBVIOUS
    <3>2. WellFormed(g)'
      BY <1>0, <1>10, <3>1, FileFixed
    <3>3. doc'.fields[f] = g
      BY <1>2, <3>1
    <3> QED BY <3>2, <3>3
  <2> QED BY <1>0, <2>1, <2>2 DEF MarkupBalanced
<1>12. EveryLineDocumented'
  <2>1. Shows(doc.brief \o doc.continuation \o doc.details, struct, {"empty", "banner", "deprecated"})'
    <3>1. Shown(t)' = Shown(t) /\ InOrder(t)'
      BY <1>0, <1>9, FileFixed
    <3>2. doc'.brief \o doc'.continuation \o doc'.details = t
      BY <1>2, <1>6
    <3>3. Shown(t)' = {n \in struct : file[n] \notin {"empty", "banner", "deprecated"}}'
      BY <1>0, <1>8, <3>1
    <3> QED BY <3>1, <3>2, <3>3 DEF Shows
  <2>2. ASSUME NEW f \in DOMAIN file PROVE Shows(doc.fields[f], Documented(f), {"empty", "banner"})'
    <3>1. PICK g : g = FormatListItems(Cleaned(Documented(f)))
      OBVIOUS
    <3>2. Shown(g)' = Shown(g) /\ InOrder(g)'
      BY <1>0, <1>10, <3>1, FileFixed
    <3>3. doc'.fields[f] = g
      BY <1>2, <3>1
    <3>4. Shown(g)' = {n \in Documented(f) : file[n] \notin {"empty", "banner"}}'
      BY <1>0, <1>1, <1>10, <3>1, <3>2
    <3> QED BY <3>2, <3>3, <3>4 DEF Shows
  <2> QED BY <1>0, <2>1, <2>2 DEF EveryLineDocumented
<1> QED BY <1>11, <1>12

\* What extract_doc_info() made stays as it is.
LEMMA DocStays ==
  ASSUME UNCHANGED <<file, doc>>, doc.made => UNCHANGED <<struct, docs>>
  PROVE  (MarkupBalanced => MarkupBalanced') /\ (EveryLineDocumented => EveryLineDocumented')
<1>1. MarkupBalanced => MarkupBalanced'
  <2>1. \A s : WellFormed(s) => WellFormed(s)'
    BY FileFixed
  <2> QED BY <2>1 DEF MarkupBalanced
<1>2. EveryLineDocumented => EveryLineDocumented'
  <2>1. \A s : Shown(s)' = Shown(s) /\ (InOrder(s) => InOrder(s)')
    BY FileFixed
  <2> QED BY <2>1 DEF EveryLineDocumented, Shows, Documented
<1> QED BY <1>1, <1>2

LEMMA DocInit == Init => MarkupBalanced /\ EveryLineDocumented
BY DEF Init, NoDoc, MarkupBalanced, EveryLineDocumented

LEMMA DocStep ==
  TypeOK /\ Done /\ [Next]_vars =>
      /\ Done'
      /\ MarkupBalanced => MarkupBalanced'
      /\ EveryLineDocumented => EveryLineDocumented'
<1> SUFFICES ASSUME TypeOK, Done, [Next]_vars
             PROVE  Done' /\ (MarkupBalanced => MarkupBalanced') /\ (EveryLineDocumented => EveryLineDocumented')
  OBVIOUS
<1>1. CASE ExtractDocInfo
  BY <1>1, DocKept, DocIsRight
<1>2. CASE ~ExtractDocInfo
  BY <1>2, DocKept, DocStays
<1> QED BY <1>1, <1>2

\* The qdoc markup of every comment is well formed whatever the .msg file:
\* lists and code blocks are opened and closed in turn, never nested and
\* hold what belongs in them.  _format_list_items().
THEOREM MarkupCorrect == Spec => []MarkupBalanced
<1>1. Init => MarkupBalanced /\ Done
  BY DocInit, DoneInit
<1>2. TypeOK /\ Done /\ MarkupBalanced /\ [Next]_vars => Done' /\ MarkupBalanced'
  BY DocStep
<1> QED BY TypeCorrect, <1>1, <1>2, PTL DEF Spec

\* The text made of a .msg file's comments shows every line once, in file
\* order and to its owner; only rulers and bare deprecation notices go, and
\* the comments of a field whose text is overridden.  extract_doc_info().
THEOREM LinesCorrect == Spec => []EveryLineDocumented
<1>1. Init => EveryLineDocumented /\ Done
  BY DocInit, DoneInit
<1>2. TypeOK /\ Done /\ EveryLineDocumented /\ [Next]_vars => Done' /\ EveryLineDocumented'
  BY DocStep
<1> QED BY TypeCorrect, <1>1, <1>2, PTL DEF Spec

=============================================================================
