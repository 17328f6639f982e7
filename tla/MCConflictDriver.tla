------------------------- MODULE MCConflictDriver -------------------------
(***************************************************************************)
(* Model-checking instance of ConflictDriver: the files are all the        *)
(* conflict-shaped texts of at most MaxLen lines over a blank and a        *)
(* non-blank text line.                                                    *)
(***************************************************************************)
EXTENDS ConflictDriver

MaxLen == 7

TextLine(b) == [kind |-> "text", blank |-> b, sec |-> FALSE, bnd |-> FALSE,
                err |-> FALSE, logctx |-> FALSE, helper |-> FALSE]

MCText == {TextLine(TRUE), TextLine(FALSE)}

MCInputFiles ==
  {f \in UNION {[1 .. n -> Line] : n \in 0 .. MaxLen} : Shaped(f)}

(***************************************************************************)
(* For resolve_09: any line record is a text line, and the files are the   *)
(* conflict-shaped texts over a log line without fields, a field line and *)
(* a whitespace-only line: enough for a merge that grafts the field, and   *)
(* for one whose re-indentation copies the whitespace line.                *)
(***************************************************************************)
MaxLen09 == 7

MC09Lines ==
  {LogLn(<< >>, Msg(<<"a">>, FALSE)), FieldLn("fa"), WsLn}

MC09InputFiles ==
  {f \in UNION {[1 .. n -> Markers \cup MC09Lines] : n \in 0 .. MaxLen09} :
     Shaped(f)}

=============================================================================
