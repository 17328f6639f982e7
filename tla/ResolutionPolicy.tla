------------------------- MODULE ResolutionPolicy -------------------------
(***************************************************************************)
(* The policies that turn the two sides of one conflict block into its     *)
(* replacement: pick_branch of src/fix_preexisting.py and                  *)
(* resolve_conflict / analyze_side of src/resolve_smart.py.  A side is a   *)
(* sequence of text lines; a text line is a record whose Boolean fields    *)
(* say which of analyze_side's keyword classes the lowered, stripped line  *)
(* hits, and whether the line is whitespace only:                          *)
(*   blank   line.strip() == ''                                            *)
(*   sec     'sanitize', 'validate', 'limit', 'cap', 'bound', ...          *)
(*   bnd     one of the bounds-check substrings ('if len(', ...)           *)
(*   err     'err != nil', 'error', 'fmt.errorf', ...                      *)
(*   logctx  '.str(', '.int(' or '.bool('                                  *)
(*   helper  'closeconn' or 'decodepayload'                                *)
(***************************************************************************)
EXTENDS Naturals, Sequences, FiniteSets

(* not side.strip(): every line of the side is whitespace only.            *)
Blank(s) == \A i \in 1 .. Len(s) : s[i].blank

(* pick_branch: an empty branch keeps HEAD, an empty HEAD takes the        *)
(* branch, and otherwise the branch side wins.                             *)
PickBranch(h, b) ==
  IF Blank(b) THEN h
  ELSE IF Blank(h) THEN b
  ELSE b

CountLines(s, feature) == Cardinality({i \in 1 .. Len(s) : s[i][feature]})

(* len(content.strip().split('\n')): the lines from the first to the last  *)
(* non-blank one.                                                          *)
StrippedLines(s) ==
  LET nb    == {i \in 1 .. Len(s) : ~s[i].blank}
      first == CHOOSE i \in nb : \A j \in nb : i <= j
      last  == CHOOSE i \in nb : \A j \in nb : j <= i
  IN  IF nb = {} THEN 0 ELSE last - first + 1

(* analyze_side: a helper reference weighs two error-handling signals.     *)
AnalyzeSide(s) ==
  [security        |-> CountLines(s, "sec"),
   bounds_check    |-> CountLines(s, "bnd"),
   error_handling  |-> CountLines(s, "err") + 2 * CountLines(s, "helper"),
   logging_context |-> CountLines(s, "logctx"),
   lines           |-> StrippedLines(s)]

(* _graft_logging keeps HEAD: field grafting is not implemented.           *)
GraftLogging(h, b) == h

(***************************************************************************)
(* resolve_conflict of resolve_smart.py.  The branch wins on a security    *)
(* score at least two higher, whatever HEAD's error handling; HEAD wins on *)
(* strictly more error handling; otherwise the side more than 1.5 times    *)
(* longer wins, and the branch by default.                                 *)
(***************************************************************************)
ResolveSmart(h, b) ==
  LET hi == AnalyzeSide(h)
      bi == AnalyzeSide(b)
  IN  IF Blank(h) THEN b
      ELSE IF Blank(b) THEN h
      ELSE IF bi.security + bi.bounds_check > hi.security + hi.bounds_check + 1
             THEN IF hi.error_handling > bi.error_handling + 2 THEN b ELSE b
      ELSE IF hi.error_handling > bi.error_handling
             THEN IF bi.logging_context > hi.logging_context
                    THEN GraftLogging(h, b) ELSE h
      ELSE IF 2 * hi.lines > 3 * bi.lines THEN h
      ELSE IF 2 * bi.lines > 3 * hi.lines THEN b
      ELSE b

=============================================================================
