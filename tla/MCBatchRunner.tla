--------------------------- MODULE MCBatchRunner ---------------------------
(***************************************************************************)
(* Model-checking instance of BatchRunner: three listed paths, each        *)
(* missing or holding any of the four kinds of text.                       *)
(***************************************************************************)
EXTENDS BatchRunner

MCFiles == <<"a.go", "b.go", "c.go">>

=============================================================================
