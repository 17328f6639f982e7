---------------------------- MODULE LogMergeCall ----------------------------
(***************************************************************************)
(* One call of resolve_09.py's resolve_conflict on the two sides of a      *)
(* conflict block, with the properties its result should have.  The sides  *)
(* range over the constant set Sides.                                      *)
(***************************************************************************)
EXTENDS LogMerge

CONSTANT Sides

VARIABLES head, branch, result, called

vars == <<head, branch, result, called>>

Init ==
  /\ head \in Sides
  /\ branch \in Sides
  /\ result = << >>
  /\ called = FALSE

(* resolver(m): resolve_conflict(m.group(1), m.group(2)).                  *)
Call ==
  /\ ~called
  /\ result' = Resolve09(head, branch)
  /\ called' = TRUE
  /\ UNCHANGED <<head, branch>>

Spec == Init /\ [][Call]_vars

-----------------------------------------------------------------------------
(* Branch line j is the first of B whose message matches HEAD line hl's.  *)
FirstMatch(hl, B, j) ==
  LET match(k) == hl.log /\ hl.msgcall /\ B[k].msgcall
                  /\ MsgsMatch(hl.msg, B[k].msg)
  IN  match(j) /\ \A k \in 1 .. j - 1 : ~match(k)

ResultHas(f) == \E r \in 1 .. Len(result) : f \in FieldsOf(result[r])

(***************************************************************************)
(* No logging context is lost (the docstring of resolve_09.py: keep HEAD   *)
(* and graft in the branch's fields): every field call of a HEAD line is   *)
(* in the result, and when both sides log and the result has a .Msg( line  *)
(* to insert before, so is every field of a branch field line and of the   *)
(* first branch log line whose message matches a HEAD log line's.          *)
(***************************************************************************)
FieldsKept ==
  LET H == StripLines(head)
      B == StripLines(branch)
  IN  called =>
        /\ \A i \in 1 .. Len(head) : \A f \in FieldsOf(head[i]) :
             ~Blank(head) => ResultHas(f)
        /\ (~Blank(head) /\ HasLog(H) /\ HasLog(B)
            /\ \E r \in 1 .. Len(result) : result[r].msgcall)
             => \A j \in 1 .. Len(B) :
                  /\ B[j].fline # NoField => ResultHas(B[j].fline)
                  /\ (\E i \in 1 .. Len(H) : FirstMatch(H[i], B, j))
                       => \A f \in FieldsOf(B[j]) : ResultHas(f)

NoDup(l) == Len(l.fields) = Cardinality(FieldsOf(l))

(***************************************************************************)
(* spec section 8: a merged line holds the union of both sides' fields     *)
(* with no duplicates.  No line of the result repeats a field call when no *)
(* input line does.                                                        *)
(***************************************************************************)
NoDuplicateFields ==
  (called /\ \A i \in 1 .. Len(head) : NoDup(head[i])
          /\ \A j \in 1 .. Len(branch) : NoDup(branch[j]))
    => \A r \in 1 .. Len(result) : NoDup(result[r])

=============================================================================
