------------------------ MODULE ConflictDriverProofs ------------------------
(***************************************************************************)
(* Proofs about resolve_file (module ConflictDriver), for every file, every *)
(* budget and every set of text lines.                                     *)
(***************************************************************************)
EXTENDS ConflictDriver, SequenceTheorems, FiniteSetTheorems, TLAPS

(***************************************************************************)
(* The proofs are about the two scripts whose resolver returns one of the  *)
(* two sides of the block: pick_branch and resolve_smart's                 *)
(* resolve_conflict (whose _graft_logging keeps HEAD) never build new      *)
(* text.  resolve_09's merge builds lines with SelectSeq and a fold over   *)
(* the branch, recursive functions the prover cannot unfold.               *)
(***************************************************************************)
PicksASide == Variant \in {"fix_preexisting", "resolve_smart"}

LEMMA ResolveIsASide ==
  ASSUME NEW h, NEW b, PicksASide
  PROVE  Resolve(h, b) \in {h, b}
<1>1. PickBranch(h, b) \in {h, b}
  BY DEF PickBranch
<1>2. ResolveSmart(h, b) \in {h, b}
  BY DEF ResolveSmart, GraftLogging
<1>3. QED
  BY <1>1, <1>2 DEF Resolve, PicksASide

(* Hence the resolver's text is a sequence of lines no longer than the two *)
(* sides together.                                                         *)
LEMMA ResolveBound ==
  ASSUME NEW h \in Seq(Line), NEW b \in Seq(Line), PicksASide
  PROVE  /\ Resolve(h, b) \in Seq(Line)
         /\ Len(Resolve(h, b)) <= Len(h) + Len(b)
BY ResolveIsASide

(* Appending the next line to a prefix of s gives the next prefix.         *)
LEMMA AppendPrefix ==
  ASSUME NEW S, NEW s \in Seq(S), NEW n \in 0 .. Len(s) - 1
  PROVE  Append(SubSeq(s, 1, n), s[n + 1]) = SubSeq(s, 1, n + 1)
OBVIOUS

-----------------------------------------------------------------------------
(***************************************************************************)
(* The inductive invariant.  IterBound alone is not inductive: an Advance  *)
(* step replaces content by out, and IterBound says nothing of out.  The   *)
(* scan keeps out no longer than the part of content it has consumed, and  *)
(* equal to it as long as no block has matched; so a pass whose result     *)
(* differs from content is strictly shorter.  The loop runs only while the *)
(* budget is not spent, and before the read nothing has happened.          *)
(***************************************************************************)
ScanInv ==
  pc = "scan" =>
    /\ Len(out) <= pos - 1
    /\ out = SubSeq(content, 1, pos - 1) \/ Len(out) < pos - 1

ReadInv ==
  pc = "read" => out = << >> /\ pos = 1 /\ iter = 0 /\ original = << >>
                               /\ content = << >>

BudgetInv == pc = "scan" => iter < MaxIterations

IInv == TypeOK /\ IterBound /\ ScanInv /\ ReadInv /\ BudgetInv

USE DriverAssumption

LEMMA InitIInv == Init => IInv
BY DEF Init, IInv, TypeOK, IterBound, ScanInv, ReadInv, BudgetInv

LEMMA NextIInv == PicksASide => (IInv /\ [Next]_vars => IInv')
<1> SUFFICES ASSUME PicksASide, IInv, [Next]_vars PROVE IInv'
  OBVIOUS
<1>0. /\ disk \in Seq(Line) /\ original \in Seq(Line)
      /\ content \in Seq(Line) /\ out \in Seq(Line)
      /\ pos \in 1 .. Len(content) + 1 /\ iter \in 0 .. MaxIterations
  BY DEF IInv, TypeOK
<1>1. CASE Read
  <2>1. disk \in InputFiles \/ disk \in Seq(Line)
    BY <1>0
  <2>2. QED
    BY <1>1, <1>0 DEF Read, IInv, TypeOK, IterBound, ScanInv, ReadInv, BudgetInv
<1>2. CASE ScanWellFormed
  <2>1. PICK j, k \in 1 .. Len(content) :
          /\ WellFormedBlock(content, pos, j, k)
          /\ out' = out \o Resolve(SubSeq(content, pos + 1, j - 1),
                                   SubSeq(content, j + 1, k - 1))
          /\ pos' = k + 1
    BY <1>2 DEF ScanWellFormed
  <2> DEFINE h == SubSeq(content, pos + 1, j - 1)
             b == SubSeq(content, j + 1, k - 1)
  <2>2. pos < j /\ j < k /\ k <= Len(content)
    BY <2>1 DEF WellFormedBlock
  <2>3. h \in Seq(Line) /\ Len(h) = j - 1 - pos
        /\ b \in Seq(Line) /\ Len(b) = k - 1 - j
    BY <2>2, <1>0
  <2>4. Resolve(h, b) \in Seq(Line) /\ Len(Resolve(h, b)) <= Len(h) + Len(b)
    BY <2>3, ResolveBound DEF PicksASide
  <2>5. out' \in Seq(Line) /\ Len(out') <= k - 3
    <3>1. Len(out) <= pos - 1
      BY <1>2 DEF ScanWellFormed, IInv, ScanInv
    <3>2. out' \in Seq(Line) /\ Len(out') = Len(out) + Len(Resolve(h, b))
      BY <2>1, <2>4, <1>0, ConcatProperties
    <3>3. Len(Resolve(h, b)) <= k - 2 - pos
      BY <2>3, <2>4, <1>0
    <3>4. Len(out) \in Nat /\ Len(Resolve(h, b)) \in Nat /\ pos \in Nat
      BY <2>4, <1>0
    <3>5. Len(out') <= k - 3
      BY <3>1, <3>2, <3>3, <3>4
    <3>6. QED
      BY <3>2, <3>5
  <2>6. UNCHANGED <<disk, original, content, mode, iter, pc, remaining>>
    BY <1>2 DEF ScanWellFormed
  <2>7. TypeOK'
    BY <2>1, <2>2, <2>5, <2>6, <1>0 DEF IInv, TypeOK
  <2>8. ScanInv'
    BY <2>1, <2>2, <2>5, <2>6 DEF ScanInv
  <2>9. QED
    BY <2>6, <2>7, <2>8 DEF IInv, IterBound, ReadInv, BudgetInv, ScanWellFormed
<1>3. CASE ScanMalformed
  <2>1. PICK k \in 1 .. Len(content) :
          /\ MalformedBlock(content, pos, k)
          /\ out' = out \o SubSeq(content, pos + 1, k - 1)
          /\ pos' = k + 1
    BY <1>3 DEF ScanMalformed
  <2>2. pos < k /\ k <= Len(content)
    BY <2>1 DEF MalformedBlock
  <2>3. out' \in Seq(Line) /\ Len(out') <= k - 2
    <3>1. Len(out) <= pos - 1
      BY <1>3 DEF ScanMalformed, IInv, ScanInv
    <3>2. SubSeq(content, pos + 1, k - 1) \in Seq(Line)
          /\ Len(SubSeq(content, pos + 1, k - 1)) = k - 1 - pos
      BY <2>2, <1>0
    <3>3. QED
      BY <2>1, <3>1, <3>2, <1>0, ConcatProperties
  <2>4. QED
    BY <2>1, <2>2, <2>3, <1>0, <1>3
    DEF ScanMalformed, IInv, TypeOK, IterBound, ScanInv, ReadInv, BudgetInv
<1>4. CASE ScanCopy
  <2>1. pos <= Len(content) /\ out' = Append(out, content[pos]) /\ pos' = pos + 1
    BY <1>4 DEF ScanCopy
  <2>2. content[pos] \in Line
    BY <2>1, <1>0
  <2>3. out' \in Seq(Line) /\ Len(out') = Len(out) + 1
    BY <2>1, <2>2, <1>0
  <2>4. ScanInv'
    <3>1. CASE out = SubSeq(content, 1, pos - 1)
      BY <3>1, <2>1, <1>0, AppendPrefix, <1>4 DEF ScanCopy, ScanInv
    <3>2. CASE Len(out) < pos - 1
      BY <3>2, <2>3, <2>1, <1>0, <1>4 DEF ScanCopy, ScanInv
    <3>3. QED
      BY <3>1, <3>2, <1>4 DEF ScanCopy, IInv, ScanInv
  <2>5. QED
    BY <2>1, <2>3, <2>4, <1>0, <1>4
    DEF ScanCopy, IInv, TypeOK, IterBound, ReadInv, BudgetInv
<1>5. CASE StartFallback
  BY <1>5, <1>0 DEF StartFallback, IInv, TypeOK, IterBound, ScanInv, ReadInv,
                    BudgetInv
<1>6. CASE Converge
  BY <1>6, <1>0 DEF Converge, IInv, TypeOK, IterBound, ScanInv, ReadInv,
                    BudgetInv
<1>7. CASE Advance
  <2>1. pos = Len(content) + 1 /\ out # content /\ pc = "scan"
    BY <1>7 DEF Advance
  <2>2. SubSeq(content, 1, Len(content)) = content
    BY <1>0
  <2>3. Len(out) < Len(content)
    BY <2>1, <2>2 DEF IInv, ScanInv
  <2>4. iter + 1 <= MaxIterations
    BY <2>1, <1>0 DEF IInv, BudgetInv
  <2>5. QED
    BY <1>7, <2>3, <2>4, <1>0
    DEF Advance, IInv, TypeOK, IterBound, ScanInv, ReadInv, BudgetInv
<1>8. CASE WriteBack
  <2>1. OpenCount(content) \in Nat
    <3>0. IsFiniteSet(1 .. Len(content))
      BY <1>0, FS_Interval
    <3>1. IsFiniteSet({i \in 1 .. Len(content) : content[i] = OpenLine})
      BY <3>0, FS_Subset
    <3>2. QED
      BY <3>1, FS_CardinalityType DEF OpenCount
  <2>2. QED
    BY <1>8, <2>1, <1>0 DEF WriteBack, IInv, TypeOK, IterBound, ScanInv,
                           ReadInv, BudgetInv
<1>9. CASE UNCHANGED vars
  BY <1>9 DEF vars, IInv, TypeOK, IterBound, ScanInv, ReadInv, BudgetInv
<1>10. QED
  BY <1>1, <1>2, <1>3, <1>4, <1>5, <1>6, <1>7, <1>8, <1>9 DEF Next

(***************************************************************************)
(* Type correctness of resolve_file: the file, the text of the loop and    *)
(* the output of re.sub are always sequences of lines, the scan stays in   *)
(* the text and the loop counter within max_iterations.                    *)
(***************************************************************************)
THEOREM TypeCorrect == PicksASide => (Spec => []TypeOK)
<1> SUFFICES ASSUME PicksASide PROVE Spec => []TypeOK
  OBVIOUS
<1>1. IInv => TypeOK
  BY DEF IInv
<1>2. IInv /\ [Next]_vars => IInv'
  BY NextIInv
<1>3. QED
  BY InitIInv, <1>1, <1>2, PTL DEF Spec

(***************************************************************************)
(* Termination of resolve_file without its budget: every iteration of the  *)
(* loop that changes the text shortens it, so no input makes the loop      *)
(* cycle and the number of iterations never exceeds the file's length.     *)
(***************************************************************************)
THEOREM IterationsBounded == PicksASide => (Spec => []IterBound)
<1> SUFFICES ASSUME PicksASide PROVE Spec => []IterBound
  OBVIOUS
<1>1. IInv => IterBound
  BY DEF IInv
<1>2. IInv /\ [Next]_vars => IInv'
  BY NextIInv
<1>3. QED
  BY InitIInv, <1>1, <1>2, PTL DEF Spec

=============================================================================
