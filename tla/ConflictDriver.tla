-------------------------- MODULE ConflictDriver --------------------------
(***************************************************************************)
(* resolve_file: the fixed-point loop that rewrites one conflicted file.   *)
(* Each iteration runs re.sub with the standard pattern over the whole     *)
(* text, calling the resolver on every block it matches; when that changes *)
(* nothing it runs re.sub with the fallback pattern (resolve_09 and        *)
(* fix_preexisting only); an iteration that changes nothing ends the loop, *)
(* and so does the iteration budget.  The file is then written back and    *)
(* the opening sentinels left are counted.                                 *)
(*                                                                         *)
(* re.sub scans its subject from left to right, trying the pattern at the  *)
(* scan position: a match is replaced by the resolver's text and the scan  *)
(* resumes after it, otherwise one line is copied.  The scan is modelled   *)
(* step by step (pos, out), which is how the matches of one pass are seen  *)
(* in order.                                                               *)
(***************************************************************************)
EXTENDS Integers, ConflictMarkers, LogMerge

CONSTANTS Variant,        \* which script: "fix_preexisting", "resolve_smart"
                          \* or "resolve_09"
          MaxIterations,  \* max_iterations
          InputFiles      \* the texts a conflicted file may hold when read

Variants == {"fix_preexisting", "resolve_smart", "resolve_09"}

ASSUME DriverAssumption ==
  /\ Variant \in Variants
  /\ MaxIterations \in Nat \ {0}
  /\ InputFiles \subseteq Seq(Line)

(* Only resolve_09 and fix_preexisting try the separator-less pattern.     *)
HasFallback == Variant \in {"fix_preexisting", "resolve_09"}

(* The resolver that re.sub calls with m.group(1) and m.group(2).          *)
Resolve(h, b) ==
  CASE Variant = "fix_preexisting" -> PickBranch(h, b)
    [] Variant = "resolve_smart"   -> ResolveSmart(h, b)
    [] Variant = "resolve_09"      -> Resolve09(h, b)

VARIABLES disk,      \* the file on disk
          original,  \* the text read at the start of resolve_file
          content,   \* content: the subject of the current iteration
          out,       \* the text re.sub has produced so far in this pass
          pos,       \* the line re.sub's scan has reached
          mode,      \* "wf": standard pattern, "mal": fallback pattern
          iter,      \* completed iterations of the loop
          pc,        \* "read", "scan", "write" or "done"
          remaining  \* remaining = content.count('<<<<<<<')

vars == <<disk, original, content, out, pos, mode, iter, pc, remaining>>

Init ==
  /\ disk \in InputFiles
  /\ original = << >>
  /\ content = << >>
  /\ out = << >>
  /\ pos = 1
  /\ mode = "wf"
  /\ iter = 0
  /\ pc = "read"
  /\ remaining = 0

(* Read the file.  fix_file returns at once when no opening sentinel is    *)
(* present, without writing.                                               *)
Read ==
  /\ pc = "read"
  /\ original' = disk
  /\ content' = disk
  /\ pc' = IF Variant = "fix_preexisting" /\ OpenCount(disk) = 0
             THEN "done" ELSE "scan"
  /\ UNCHANGED <<disk, out, pos, mode, iter, remaining>>

MatchAt(f, i, m) ==
  IF m = "wf" THEN \E j, k \in 1 .. Len(f) : WellFormedBlock(f, i, j, k)
              ELSE \E k \in 1 .. Len(f) : MalformedBlock(f, i, k)

(* The standard pattern matches at the scan position: the resolver's text  *)
(* replaces the block.                                                     *)
ScanWellFormed ==
  /\ pc = "scan" /\ mode = "wf"
  /\ \E j, k \in 1 .. Len(content) :
       /\ WellFormedBlock(content, pos, j, k)
       /\ out' = out \o Resolve(SubSeq(content, pos + 1, j - 1),
                                SubSeq(content, j + 1, k - 1))
       /\ pos' = k + 1
  /\ UNCHANGED <<disk, original, content, mode, iter, pc, remaining>>

(* Mutant: the replacement keeps the opening marker line.                  *)
ScanMalformedKeepOpen ==
  /\ pc = "scan" /\ mode = "mal"
  /\ \E k \in 1 .. Len(content) :
       /\ MalformedBlock(content, pos, k)
       /\ out' = out \o SubSeq(content, pos, k - 1)
       /\ pos' = k + 1
  /\ UNCHANGED <<disk, original, content, mode, iter, pc, remaining>>

(* The fallback pattern matches: the interior (group 1) replaces it.       *)
ScanMalformed ==
  /\ pc = "scan" /\ mode = "mal"
  /\ \E k \in 1 .. Len(content) :
       /\ MalformedBlock(content, pos, k)
       /\ out' = out \o SubSeq(content, pos + 1, k - 1)
       /\ pos' = k + 1
  /\ UNCHANGED <<disk, original, content, mode, iter, pc, remaining>>

(* No match at the scan position: the line is copied.                      *)
ScanCopy ==
  /\ pc = "scan"
  /\ pos <= Len(content)
  /\ ~MatchAt(content, pos, mode)
  /\ out' = Append(out, content[pos])
  /\ pos' = pos + 1
  /\ UNCHANGED <<disk, original, content, mode, iter, pc, remaining>>

(* The standard pass changed nothing: rescan content with the fallback.    *)
StartFallback ==
  /\ pc = "scan" /\ mode = "wf"
  /\ pos = Len(content) + 1
  /\ out = content
  /\ HasFallback
  /\ mode' = "mal"
  /\ out' = << >>
  /\ pos' = 1
  /\ UNCHANGED <<disk, original, content, iter, pc, remaining>>

(* Mutant: the loop ends after the fallback pass whatever it changed.      *)
ConvergeEarly ==
  /\ pc = "scan"
  /\ pos = Len(content) + 1
  /\ mode = "mal" \/ ~HasFallback
  /\ pc' = "write"
  /\ UNCHANGED <<disk, original, content, out, pos, mode, iter, remaining>>

(* Mutant: the loop breaks on an unchanged standard pass before trying    *)
(* the fallback.                                                           *)
ConvergeSkipFallback ==
  /\ pc = "scan"
  /\ pos = Len(content) + 1
  /\ out = content
  /\ pc' = "write"
  /\ UNCHANGED <<disk, original, content, out, pos, mode, iter, remaining>>

(* if new_content == content: break                                        *)
Converge ==
  /\ pc = "scan"
  /\ pos = Len(content) + 1
  /\ out = content
  /\ mode = "mal" \/ ~HasFallback
  /\ pc' = "write"
  /\ UNCHANGED <<disk, original, content, out, pos, mode, iter, remaining>>

(* Mutants: the new text is dropped; the loop breaks after one iteration;  *)
(* the budget is one iteration short.                                      *)
AdvanceKeepText ==
  /\ pc = "scan"
  /\ pos = Len(content) + 1
  /\ out # content
  /\ iter' = iter + 1
  /\ out' = << >>
  /\ pos' = 1
  /\ mode' = "wf"
  /\ pc' = IF iter + 1 = MaxIterations THEN "write" ELSE "scan"
  /\ UNCHANGED <<disk, original, content, remaining>>

AdvanceOnce ==
  /\ pc = "scan"
  /\ pos = Len(content) + 1
  /\ out # content
  /\ content' = out
  /\ iter' = iter + 1
  /\ out' = << >>
  /\ pos' = 1
  /\ mode' = "wf"
  /\ pc' = "write"
  /\ UNCHANGED <<disk, original, remaining>>

AdvanceShortBudget ==
  /\ pc = "scan"
  /\ pos = Len(content) + 1
  /\ out # content
  /\ content' = out
  /\ iter' = iter + 1
  /\ out' = << >>
  /\ pos' = 1
  /\ mode' = "wf"
  /\ pc' = IF iter + 2 >= MaxIterations THEN "write" ELSE "scan"
  /\ UNCHANGED <<disk, original, remaining>>

(* content = new_content, and the next iteration unless the budget of      *)
(* max_iterations is spent.                                                *)
Advance ==
  /\ pc = "scan"
  /\ pos = Len(content) + 1
  /\ out # content
  /\ content' = out
  /\ iter' = iter + 1
  /\ out' = << >>
  /\ pos' = 1
  /\ mode' = "wf"
  /\ pc' = IF iter + 1 = MaxIterations THEN "write" ELSE "scan"
  /\ UNCHANGED <<disk, original, remaining>>

(* Mutant: the count of remaining sentinels is one short.                  *)
WriteBackMiscount ==
  /\ pc = "write"
  /\ disk' = content
  /\ remaining' = OpenCount(content) - 1
  /\ pc' = "done"
  /\ UNCHANGED <<original, content, out, pos, mode, iter>>

(* Write the text back and count the opening sentinels left.               *)
WriteBack ==
  /\ pc = "write"
  /\ disk' = content
  /\ remaining' = OpenCount(content)
  /\ pc' = "done"
  /\ UNCHANGED <<original, content, out, pos, mode, iter>>

Next ==
  \/ Read
  \/ ScanWellFormed
  \/ ScanMalformed
  \/ ScanCopy
  \/ StartFallback
  \/ Converge
  \/ Advance
  \/ WriteBack

Spec == Init /\ [][Next]_vars

-----------------------------------------------------------------------------
TypeOK ==
  /\ disk \in Seq(Line)
  /\ original \in Seq(Line)
  /\ content \in Seq(Line)
  /\ out \in Seq(Line)
  /\ pos \in 1 .. Len(content) + 1
  /\ mode \in {"wf", "mal"}
  /\ iter \in 0 .. MaxIterations
  /\ pc \in {"read", "scan", "write", "done"}
  /\ remaining \in Nat

(***************************************************************************)
(* Every iteration that changes the text makes it shorter, so the loop     *)
(* stops on its own within Len(original) iterations: the budget of         *)
(* resolve_file is never what ends a loop that would otherwise cycle.      *)
(***************************************************************************)
IterBound == iter + Len(content) <= Len(original)

(* The file as git leaves it can be resolved by this script: every region *)
(* has exactly one separator of its own, or none where the script has the *)
(* fallback.                                                               *)
Resolvable(f) ==
  /\ Shaped(f)
  /\ \A i \in 1 .. Len(f) :
       f[i] = OpenLine =>
         \/ Cardinality(SepsOf(f, i)) = 1
         \/ Cardinality(SepsOf(f, i)) = 0 /\ HasFallback

(***************************************************************************)
(* The iterations a resolvable file may need.  The patterns only match     *)
(* innermost blocks, so nested regions take one iteration per level; and   *)
(* the fallback only runs in an iteration where the standard pattern       *)
(* matched nowhere in the file, so a region without a separator can wait   *)
(* for every well-formed region: then only one iteration per region is     *)
(* certain.                                                                *)
(***************************************************************************)
IterationsNeeded(f) == IF HasFallback THEN OpenCount(f) ELSE NestDepth(f)

(***************************************************************************)
(* Completeness of resolve_file: a file whose regions are all resolvable   *)
(* and that needs no more iterations than the budget ends with no marker   *)
(* line of any kind on disk and is reported resolved.                      *)
(***************************************************************************)
Complete ==
  (pc = "done" /\ Resolvable(original)
               /\ IterationsNeeded(original) <= MaxIterations)
    => /\ remaining = 0
       /\ \A i \in 1 .. Len(disk) : disk[i] \in Text

(***************************************************************************)
(* Soundness of the report: a conflicted file that resolve_file reports    *)
(* resolved (no opening sentinel left) holds no separator or closing       *)
(* marker line either.                                                     *)
(***************************************************************************)
ReportSound ==
  (pc = "done" /\ remaining = 0 /\ Shaped(original))
    => \A i \in 1 .. Len(disk) : disk[i] \in Text

(***************************************************************************)
(* Marker monotonicity (spec section 8), strictly: every iteration of      *)
(* resolve_file's loop that changes the text removes an opening sentinel,  *)
(* whichever pattern matched, so the loop never trades one region for      *)
(* another.                                                                *)
(***************************************************************************)
MarkersDecrease ==
  [][Advance => OpenCount(content') < OpenCount(content)]_vars

(***************************************************************************)
(* The budget is the only thing that leaves a resolvable file half done:   *)
(* when resolve_file breaks out of its loop before max_iterations          *)
(* iterations, because a pass (and the fallback after it) changed nothing, *)
(* no marker line of any kind is left and the file is reported resolved.   *)
(* So no region the patterns can resolve is ever stranded by the break,    *)
(* whatever the nesting and the order of the two patterns.                 *)
(***************************************************************************)
BudgetOnlyCutoff ==
  (pc = "done" /\ Resolvable(original) /\ iter < MaxIterations)
    => /\ remaining = 0
       /\ \A i \in 1 .. Len(disk) : disk[i] \in Text

=============================================================================
