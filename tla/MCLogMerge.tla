---------------------------- MODULE MCLogMerge ----------------------------
(***************************************************************************)
(* Model-checking instance of LogMergeCall: the sides are all sequences of *)
(* one or two lines over a set of lines of each kind resolve_conflict      *)
(* tells apart: log lines with .Msg( and zero, one or two fields, a log    *)
(* call opening a multi-line chain, stand-alone field lines, a plain line, *)
(* a whitespace-only line and an empty line.  Messages "a", "A" and "ab"   *)
(* give equal, case-different and prefix-related texts.                    *)
(***************************************************************************)
EXTENDS LogMergeCall

MCLines ==
  { LogLn(<< >>, Msg(<<"a">>, FALSE)),
    LogLn(<<"fa">>, Msg(<<"a">>, TRUE)),
    LogLn(<<"fb">>, Msg(<<"a", "b">>, FALSE)),
    LogLn(<<"fa", "fb">>, Msg(<<"a">>, FALSE)),
    Ln(FALSE, FALSE, TRUE, FALSE, NoMsg, << >>, NoField),   \* log.Info().
    FieldLn("fa"),
    FieldLn("fb"),
    Ln(FALSE, FALSE, FALSE, FALSE, NoMsg, << >>, NoField),  \* plain code
    Ln(TRUE, FALSE, FALSE, FALSE, NoMsg, << >>, NoField),   \* whitespace
    Ln(TRUE, TRUE, FALSE, FALSE, NoMsg, << >>, NoField) }   \* empty

MCSides == UNION {[1 .. n -> MCLines] : n \in 1 .. 2}

=============================================================================
