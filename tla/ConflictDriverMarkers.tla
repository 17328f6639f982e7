------------------------ MODULE ConflictDriverMarkers ------------------------
(***************************************************************************)
(* Proofs that resolve_file's loop only ever removes opening sentinels     *)
(* (MarkersDecrease), for pick_branch and resolve_smart's resolver, every  *)
(* file, every budget and every set of text lines.                         *)
(***************************************************************************)
EXTENDS ConflictDriverProofs

USE TextAssumption

(* The positions of the opening sentinels of a sequence of lines.          *)
OpenAt(f) == {i \in 1 .. Len(f) : f[i] = OpenLine}

(* content.count('<<<<<<<') is a natural number.                           *)
LEMMA OpenCountType ==
  ASSUME NEW f \in Seq(Line)
  PROVE  /\ IsFiniteSet(OpenAt(f))
         /\ OpenCount(f) = Cardinality(OpenAt(f))
         /\ OpenCount(f) \in Nat
<1>1. IsFiniteSet(OpenAt(f))
  BY FS_Interval, FS_Subset DEF OpenAt
<1>2. QED
  BY <1>1, FS_CardinalityType DEF OpenCount, OpenAt

(* A text without an opening sentinel counts none.                         *)
LEMMA OpenCountZero ==
  ASSUME NEW f \in Seq(Line), \A i \in 1 .. Len(f) : f[i] # OpenLine
  PROVE  OpenCount(f) = 0
<1>1. OpenAt(f) = {}
  BY DEF OpenAt
<1>2. QED
  BY <1>1, FS_EmptySet, OpenCountType

(* A text that starts with an opening sentinel counts at least one.        *)
LEMMA OpenCountFirst ==
  ASSUME NEW f \in Seq(Line), Len(f) >= 1, f[1] = OpenLine
  PROVE  OpenCount(f) >= 1
<1>1. {1} \subseteq OpenAt(f)
  BY DEF OpenAt
<1>2. Cardinality({1}) <= Cardinality(OpenAt(f))
  BY <1>1, OpenCountType, FS_Subset
<1>3. QED
  BY <1>2, FS_Singleton, OpenCountType

(* count is additive over concatenation: the sentinels of s \o t are     *)
(* those of s and those of t shifted by Len(s).                            *)
LEMMA OpenCountConcat ==
  ASSUME NEW s \in Seq(Line), NEW t \in Seq(Line)
  PROVE  OpenCount(s \o t) = OpenCount(s) + OpenCount(t)
<1> DEFINE A == OpenAt(s)
           B == OpenAt(t)
           C == {i \in Len(s) + 1 .. Len(s) + Len(t) : t[i - Len(s)] = OpenLine}
<1>1. OpenAt(s \o t) = A \cup C
  BY ConcatProperties DEF OpenAt
<1>2. A \cap C = {}
  BY DEF OpenAt
<1>3. ExistsBijection(B, C)
  <2> DEFINE g == [i \in B |-> i + Len(s)]
  <2>1. g \in Bijection(B, C)
    BY DEF Bijection, Injection, Surjection, IsInjective, OpenAt
  <2>2. QED
    BY <2>1 DEF ExistsBijection
<1>4. IsFiniteSet(C) /\ Cardinality(C) = Cardinality(B)
  BY <1>3, OpenCountType, FS_Bijection
<1>5. Cardinality(A \cup C) = Cardinality(A) + Cardinality(C)
  <2>1. IsFiniteSet(A) /\ IsFiniteSet(C)
    BY <1>4, OpenCountType DEF A
  <2>2. Cardinality(A \cup C) =
          Cardinality(A) + Cardinality(C) - Cardinality(A \cap C)
    BY <2>1, FS_Union
  <2>3. Cardinality(A) \in Nat /\ Cardinality(C) \in Nat /\ Cardinality(A \cap C) = 0
    BY <1>2, <2>1, FS_CardinalityType, FS_EmptySet
  <2>4. QED
    BY <2>2, <2>3
<1>6. s \o t \in Seq(Line)
  BY ConcatProperties
<1>7. OpenCount(s \o t) = Cardinality(A \cup C)
  BY <1>1, <1>6, OpenCountType
<1>8. QED
  BY <1>4, <1>5, <1>7, OpenCountType DEF A, B

(***************************************************************************)
(* The invariant behind MarkersDecrease.  During a pass, the text re.sub   *)
(* has produced is either a copy of the part of content it has scanned,    *)
(* or holds fewer opening sentinels than that part: a match consumes the   *)
(* block's opening line and puts back text without one.  At the end of a  *)
(* pass the scanned part is the whole content, so a pass whose result      *)
(* differs from content has fewer sentinels.                               *)
(***************************************************************************)
ScanOK(c, o, p) ==
  o = SubSeq(c, 1, p - 1) \/ OpenCount(o) < OpenCount(SubSeq(c, 1, p - 1))

MarkInv == pc = "scan" => ScanOK(content, out, pos)

(***************************************************************************)
(* resolve_file never runs more iterations than the file it read had       *)
(* conflict blocks: each iteration that goes on removes an opening         *)
(* sentinel, so a budget of OpenCount(original) iterations is never what   *)
(* stops the loop early.                                                   *)
(***************************************************************************)
IterMarkers == iter + OpenCount(content) <= OpenCount(original)

(***************************************************************************)
(* A match at line p of c that ends at line k and is replaced by text r    *)
(* without sentinels: the output then has fewer sentinels than the         *)
(* scanned part, which now reaches k.                                      *)
(***************************************************************************)
LEMMA MatchStep ==
  ASSUME NEW c \in Seq(Line), NEW o \in Seq(Line), NEW r \in Seq(Line),
         NEW p \in 1 .. Len(c), NEW k \in p .. Len(c),
         c[p] = OpenLine, OpenCount(r) = 0,
         o = SubSeq(c, 1, p - 1) \/ OpenCount(o) < OpenCount(SubSeq(c, 1, p - 1))
  PROVE  OpenCount(o \o r) < OpenCount(SubSeq(c, 1, k))
<1> DEFINE pre == SubSeq(c, 1, p - 1)
           blk == SubSeq(c, p, k)
<1> USE DEF pre, blk
<1>1. pre \in Seq(Line) /\ blk \in Seq(Line) /\ Len(blk) = k - p + 1
      /\ blk[1] = OpenLine
  BY SubSeqProperties
<1>2. SubSeq(c, 1, k) = pre \o blk
  BY ConcatAdjacentSubSeq
<1>3. OpenCount(SubSeq(c, 1, k)) = OpenCount(pre) + OpenCount(blk)
  <2>1. OpenCount(pre \o blk) = OpenCount(pre) + OpenCount(blk)
    BY <1>1, OpenCountConcat, Zenon
  <2>2. QED
    BY <1>2, <2>1, Zenon
<1>4. OpenCount(blk) >= 1
  <2>1. Len(blk) >= 1
    BY <1>1
  <2>2. QED
    BY <1>1, <2>1, OpenCountFirst, Zenon
<1>5. OpenCount(o \o r) = OpenCount(o)
  <2>1. OpenCount(o \o r) = OpenCount(o) + OpenCount(r)
    BY OpenCountConcat, Zenon
  <2>2. OpenCount(o) \in Nat
    BY OpenCountType, Zenon
  <2>3. QED
    BY <2>1, <2>2
<1>6. OpenCount(pre) \in Nat /\ OpenCount(blk) \in Nat /\ OpenCount(o) \in Nat
  BY <1>1, OpenCountType, Zenon
<1>7. OpenCount(o) <= OpenCount(pre)
  <2>1. CASE o = pre
    BY <2>1, <1>6
  <2>2. CASE OpenCount(o) < OpenCount(pre)
    BY <2>2, <1>6
  <2>3. QED
    BY <2>1, <2>2
<1>8. QED
  BY <1>3, <1>4, <1>5, <1>6, <1>7

(***************************************************************************)
(* A line copied by the scan: output and scanned part grow by the same     *)
(* line, so the output stays a copy or stays short of sentinels.           *)
(***************************************************************************)
LEMMA CopyStep ==
  ASSUME NEW c \in Seq(Line), NEW o \in Seq(Line), NEW p \in 1 .. Len(c),
         o = SubSeq(c, 1, p - 1) \/ OpenCount(o) < OpenCount(SubSeq(c, 1, p - 1))
  PROVE  \/ Append(o, c[p]) = SubSeq(c, 1, p)
         \/ OpenCount(Append(o, c[p])) < OpenCount(SubSeq(c, 1, p))
<1> DEFINE pre == SubSeq(c, 1, p - 1)
           x == << c[p] >>
<1> USE DEF pre, x
<1>1. pre \in Seq(Line) /\ x \in Seq(Line)
  BY SubSeqProperties
<1>2. SubSeq(c, 1, p) = pre \o x /\ Append(o, c[p]) = o \o x
  BY ConcatAdjacentSubSeq, SubSeqProperties
<1>3. CASE o = pre
  BY <1>2, <1>3
<1>4. CASE OpenCount(o) < OpenCount(pre)
  <2>1. OpenCount(o \o x) = OpenCount(o) + OpenCount(x)
        /\ OpenCount(pre \o x) = OpenCount(pre) + OpenCount(x)
    BY <1>1, OpenCountConcat, Zenon
  <2>2. OpenCount(o) \in Nat /\ OpenCount(x) \in Nat /\ OpenCount(pre) \in Nat
    BY <1>1, OpenCountType, Zenon
  <2>3. OpenCount(o \o x) < OpenCount(pre \o x)
    BY <1>4, <2>1, <2>2
  <2>4. QED
    BY <1>2, <2>3, Zenon
<1>5. QED
  BY <1>3, <1>4

-----------------------------------------------------------------------------
LEMMA InitMarkInv == Init => MarkInv
BY DEF Init, MarkInv

(* A side of a block holds text lines only, so no sentinel.                *)
LEMMA TextOnlyZero ==
  ASSUME NEW c \in Seq(Line), NEW a \in Int, NEW b \in Int,
         \A m \in a .. b : c[m] \in Text \cup {SepLine}
  PROVE  /\ SubSeq(c, a, b) \in Seq(Line)
         /\ OpenCount(SubSeq(c, a, b)) = 0
<1>1. \A m \in a .. b : c[m] \in Line /\ c[m] # OpenLine
  BY DEF Line, Markers, OpenLine, SepLine
<1>2. SubSeq(c, a, b) \in Seq(Line)
      /\ \A i \in 1 .. Len(SubSeq(c, a, b)) : SubSeq(c, a, b)[i] # OpenLine
  BY <1>1, SubSeqProperties
<1>3. QED
  BY <1>2, OpenCountZero

LEMMA NextMarkInv ==
  ASSUME PicksASide, IInv, MarkInv, [Next]_vars
  PROVE  MarkInv'
<1>0. /\ disk \in Seq(Line) /\ content \in Seq(Line) /\ out \in Seq(Line)
      /\ pos \in 1 .. Len(content) + 1
  BY DEF IInv, TypeOK
<1>1. CASE Read
  BY <1>1, <1>0 DEF Read, IInv, ReadInv, MarkInv, ScanOK
<1>2. CASE ScanWellFormed
  <2>1. PICK j, k \in 1 .. Len(content) :
          /\ WellFormedBlock(content, pos, j, k)
          /\ out' = out \o Resolve(SubSeq(content, pos + 1, j - 1),
                                   SubSeq(content, j + 1, k - 1))
          /\ pos' = k + 1
    BY <1>2 DEF ScanWellFormed
  <2> DEFINE h == SubSeq(content, pos + 1, j - 1)
             b == SubSeq(content, j + 1, k - 1)
  <2> USE DEF h, b
  <2>2. pos < j /\ j < k /\ k <= Len(content) /\ content[pos] = OpenLine
    BY <2>1 DEF WellFormedBlock
  <2>3. h \in Seq(Line) /\ OpenCount(h) = 0 /\ b \in Seq(Line) /\ OpenCount(b) = 0
    <3>1. /\ \A m \in pos + 1 .. j - 1 : content[m] \in Text \cup {SepLine}
          /\ \A m \in j + 1 .. k - 1 : content[m] \in Text \cup {SepLine}
      BY <2>1 DEF WellFormedBlock
    <3>2. pos + 1 \in Int /\ j - 1 \in Int /\ j + 1 \in Int /\ k - 1 \in Int
      BY <1>0
    <3>3. QED
      BY <3>1, <3>2, <1>0, TextOnlyZero, Zenon
  <2>4. Resolve(h, b) \in Seq(Line) /\ OpenCount(Resolve(h, b)) = 0
    BY <2>3, ResolveIsASide
  <2>5. ScanOK(content, out, pos)
    BY <1>2 DEF ScanWellFormed, MarkInv
  <2>6. OpenCount(out \o Resolve(h, b)) < OpenCount(SubSeq(content, 1, k))
    <3>1. pos \in 1 .. Len(content) /\ k \in pos .. Len(content)
      BY <2>2, <1>0
    <3>2. QED
      BY <3>1, <2>2, <2>4, <2>5, <1>0, MatchStep, Zenon DEF ScanOK
  <2>7. QED
    BY <2>1, <2>6, <1>2 DEF ScanWellFormed, MarkInv, ScanOK
<1>3. CASE ScanMalformed
  <2>1. PICK k \in 1 .. Len(content) :
          /\ MalformedBlock(content, pos, k)
          /\ out' = out \o SubSeq(content, pos + 1, k - 1)
          /\ pos' = k + 1
    BY <1>3 DEF ScanMalformed
  <2>2. pos < k /\ k <= Len(content) /\ content[pos] = OpenLine
    BY <2>1 DEF MalformedBlock
  <2>3. /\ SubSeq(content, pos + 1, k - 1) \in Seq(Line)
        /\ OpenCount(SubSeq(content, pos + 1, k - 1)) = 0
    <3>1. \A m \in pos + 1 .. k - 1 : content[m] \in Text \cup {SepLine}
      BY <2>1 DEF MalformedBlock
    <3>2. pos + 1 \in Int /\ k - 1 \in Int
      BY <1>0
    <3>3. QED
      BY <3>1, <3>2, <1>0, TextOnlyZero, Zenon
  <2>4. ScanOK(content, out, pos)
    BY <1>3 DEF ScanMalformed, MarkInv
  <2>5. OpenCount(out \o SubSeq(content, pos + 1, k - 1))
          < OpenCount(SubSeq(content, 1, k))
    <3>1. pos \in 1 .. Len(content) /\ k \in pos .. Len(content)
      BY <2>2, <1>0
    <3>2. QED
      BY <3>1, <2>2, <2>3, <2>4, <1>0, MatchStep, Zenon DEF ScanOK
  <2>6. QED
    BY <2>1, <2>5, <1>3 DEF ScanMalformed, MarkInv, ScanOK
<1>4. CASE ScanCopy
  <2>1. pos <= Len(content) /\ out' = Append(out, content[pos]) /\ pos' = pos + 1
        /\ pc = "scan" /\ UNCHANGED <<content, pc>>
    BY <1>4 DEF ScanCopy
  <2>2. ScanOK(content, out, pos)
    BY <2>1 DEF MarkInv
  <2>3. QED
    BY <2>1, <2>2, <1>0, CopyStep DEF MarkInv, ScanOK
<1>5. CASE StartFallback
  BY <1>5, <1>0 DEF StartFallback, MarkInv, ScanOK
<1>6. CASE Converge
  BY <1>6 DEF Converge, MarkInv
<1>7. CASE Advance
  BY <1>7, <1>0 DEF Advance, MarkInv, ScanOK
<1>8. CASE WriteBack
  BY <1>8 DEF WriteBack, MarkInv
<1>9. CASE UNCHANGED vars
  BY <1>9 DEF vars, MarkInv, ScanOK
<1>10. QED
  BY <1>1, <1>2, <1>3, <1>4, <1>5, <1>6, <1>7, <1>8, <1>9 DEF Next

(* At the end of a pass whose result differs from content, the result has *)
(* fewer opening sentinels than content.                                   *)
LEMMA AdvanceDecreases ==
  ASSUME IInv, MarkInv, Advance
  PROVE  OpenCount(content') < OpenCount(content)
<1>1. pc = "scan" /\ pos = Len(content) + 1 /\ out # content /\ content' = out
  BY DEF Advance
<1>2. content \in Seq(Line)
  BY DEF IInv, TypeOK
<1>3. SubSeq(content, 1, pos - 1) = content
  BY <1>1, <1>2, SubSeqFull
<1>4. QED
  BY <1>1, <1>3 DEF MarkInv, ScanOK

(***************************************************************************)
(* Marker monotonicity of resolve_file, for pick_branch and resolve_smart: *)
(* whatever the file and the budget, every iteration of the loop that      *)
(* changes the text leaves fewer opening sentinels than it found, so no    *)
(* pass can resolve one block by introducing another.                      *)
(***************************************************************************)
THEOREM LoopRemovesMarkers == PicksASide => (Spec => MarkersDecrease)
<1> SUFFICES ASSUME PicksASide PROVE Spec => MarkersDecrease
  OBVIOUS
<1>1. Init => IInv /\ MarkInv
  BY InitIInv, InitMarkInv
<1>2. IInv /\ MarkInv /\ [Next]_vars => (IInv /\ MarkInv)'
  BY NextIInv, NextMarkInv
<1>3. IInv /\ MarkInv /\ [Next]_vars
        => [Advance => OpenCount(content') < OpenCount(content)]_vars
  BY AdvanceDecreases
<1>4. QED
  BY <1>1, <1>2, <1>3, PTL DEF Spec, MarkersDecrease

LEMMA NextIterMarkers ==
  ASSUME IInv, MarkInv, IterMarkers, [Next]_vars
  PROVE  IterMarkers'
<1>0. /\ disk \in Seq(Line) /\ content \in Seq(Line) /\ original \in Seq(Line)
      /\ out \in Seq(Line) /\ iter \in Nat
  BY DEF IInv, TypeOK
<1>1. OpenCount(content) \in Nat /\ OpenCount(original) \in Nat
  BY <1>0, OpenCountType
<1>2. CASE Read
  <2>1. content' = disk /\ original' = disk /\ iter' = iter /\ iter = 0
    BY <1>2 DEF Read, IInv, ReadInv
  <2>2. OpenCount(disk) \in Nat
    BY <1>0, OpenCountType
  <2>3. QED
    BY <2>1, <2>2 DEF IterMarkers
<1>3. CASE Advance
  <2>1. OpenCount(content') < OpenCount(content)
    BY <1>3, AdvanceDecreases
  <2>2. iter' = iter + 1 /\ original' = original /\ content' = out
    BY <1>3 DEF Advance
  <2>3. OpenCount(out) \in Nat
    BY <1>0, OpenCountType
  <2>4. QED
    BY <1>0, <1>1, <2>1, <2>2, <2>3 DEF IterMarkers
<1>4. CASE ~Read /\ ~Advance
  <2>1. UNCHANGED <<content, original, iter>>
    BY <1>4 DEF Next, vars, ScanWellFormed, ScanMalformed, ScanCopy,
                StartFallback, Converge, WriteBack
  <2>2. QED
    BY <2>1 DEF IterMarkers
<1>5. QED
  BY <1>2, <1>3, <1>4

(***************************************************************************)
(* resolve_file runs at most one iteration per conflict block of the file  *)
(* it read, for pick_branch and resolve_smart, every file and every        *)
(* budget: max_iterations only matters for files with more blocks than it. *)
(***************************************************************************)
THEOREM IterationsWithinMarkers == PicksASide => (Spec => []IterMarkers)
<1> SUFFICES ASSUME PicksASide PROVE Spec => []IterMarkers
  OBVIOUS
<1>1. Init => IInv /\ MarkInv /\ IterMarkers
  <2> SUFFICES ASSUME Init PROVE IInv /\ MarkInv /\ IterMarkers
    OBVIOUS
  <2>1. content = << >> /\ original = << >> /\ iter = 0
    BY DEF Init
  <2>2. OpenCount(<< >>) = 0
    <3>1. << >> \in Seq(Line) /\ \A i \in 1 .. Len(<< >>) : << >>[i] # OpenLine
      OBVIOUS
    <3>2. QED
      BY <3>1, OpenCountZero, Zenon
  <2>3. QED
    BY <2>1, <2>2, InitIInv, InitMarkInv DEF IterMarkers
<1>2. IInv /\ MarkInv /\ IterMarkers /\ [Next]_vars
        => (IInv /\ MarkInv /\ IterMarkers)'
  BY NextIInv, NextMarkInv, NextIterMarkers
<1>3. QED
  BY <1>1, <1>2, PTL DEF Spec

=============================================================================
