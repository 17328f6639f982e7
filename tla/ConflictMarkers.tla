-------------------------- MODULE ConflictMarkers --------------------------
(***************************************************************************)
(* The marker grammar of the conflict resolvers (src/resolve_09.py,        *)
(* src/resolve_smart.py, src/fix_preexisting.py).  A file is a sequence of *)
(* lines.  A line is either one of the three conflict sentinels or a text  *)
(* line drawn from the constant set Text.  The regular expressions of the  *)
(* scripts are read at the level of lines: a line that starts with seven   *)
(* '<' and a space is an opening marker, a line of seven '=' a separator,  *)
(* a line of seven '>' and a space a closing marker.                       *)
(***************************************************************************)
EXTENDS Naturals, Sequences, FiniteSets

CONSTANT Text

OpenLine  == [kind |-> "open"]
SepLine   == [kind |-> "sep"]
CloseLine == [kind |-> "close"]
Markers   == {OpenLine, SepLine, CloseLine}

Line == Markers \cup Text

ASSUME TextAssumption == \A m \in Markers : m \notin Text

(***************************************************************************)
(* The standard pattern                                                    *)
(*   <{7} [^\n]*\n (interior) ={7}[^\n]*\n (interior) >{7} [^\n]*\n        *)
(* where an interior may contain no sentinel at all, matches at line i     *)
(* with its separator at j and its closing marker at k.                    *)
(***************************************************************************)
WellFormedBlock(f, i, j, k) ==
  /\ 1 <= i /\ i < j /\ j < k /\ k <= Len(f)
  /\ f[i] = OpenLine /\ f[j] = SepLine /\ f[k] = CloseLine
  /\ \A m \in (i + 1 .. j - 1) \cup (j + 1 .. k - 1) : f[m] \in Text

(***************************************************************************)
(* The fallback pattern for markers without a separator                    *)
(*   <{7} [^\n]*\n (interior) >{7} [^\n]*\n                                *)
(* whose interior excludes opening and closing sentinels only: a           *)
(* separator line may occur inside it.                                     *)
(***************************************************************************)
MalformedBlock(f, i, k) ==
  /\ 1 <= i /\ i < k /\ k <= Len(f)
  /\ f[i] = OpenLine /\ f[k] = CloseLine
  /\ \A m \in i + 1 .. k - 1 : f[m] \in Text \cup {SepLine}

(* content.count('<<<<<<<'): the number of opening sentinels left.         *)
OpenCount(f) == Cardinality({i \in 1 .. Len(f) : f[i] = OpenLine})

-----------------------------------------------------------------------------
(***************************************************************************)
(* Shapes of files, used only to state properties.  Depth(f, p) is the     *)
(* nesting depth after line p.  A file is conflict-shaped when its         *)
(* opening and closing markers nest properly and every separator lies      *)
(* inside a region: that is what a merge leaves behind, a side of a region *)
(* possibly holding a text line that reads like a separator.               *)
(***************************************************************************)
CountIn(f, p, l) == Cardinality({q \in 1 .. p : f[q] = l})

Depth(f, p) == CountIn(f, p, OpenLine) - CountIn(f, p, CloseLine)

Shaped(f) ==
  /\ \A p \in 1 .. Len(f) : Depth(f, p) >= 0
  /\ Depth(f, Len(f)) = 0
  /\ \A p \in 1 .. Len(f) : f[p] = SepLine => Depth(f, p) >= 1

(* The closing marker of the region opened at line i of a shaped file.     *)
CloseOf(f, i) ==
  CHOOSE k \in i + 1 .. Len(f) :
    /\ Depth(f, k) = Depth(f, i) - 1
    /\ \A m \in i + 1 .. k - 1 : Depth(f, m) >= Depth(f, i)

(* The separators that belong to the region opened at line i itself.       *)
SepsOf(f, i) ==
  {j \in i + 1 .. CloseOf(f, i) - 1 : f[j] = SepLine /\ Depth(f, j) = Depth(f, i)}

NestDepth(f) ==
  IF Len(f) = 0 THEN 0
  ELSE CHOOSE d \in {Depth(f, p) : p \in 1 .. Len(f)} :
         \A p \in 1 .. Len(f) : Depth(f, p) <= d

=============================================================================
