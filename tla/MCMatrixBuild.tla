--------------------------- MODULE MCMatrixBuild ---------------------------
(***************************************************************************)
(* Model-checking instance of MatrixBuild: one model, one excluded model,  *)
(* two scenarios, and every list of up to three reports drawn from a set   *)
(* covering each filter, each kind of time and two instants.               *)
(***************************************************************************)
EXTENDS MatrixBuild

MCModels == {"m", "x"}

Raw(k, a) == [kind |-> k, at |-> a]

Rep(m, s, p, g) ==
  [parses |-> TRUE, model |-> m, scenario |-> s, transient |-> FALSE,
   passed |-> p, generated_at |-> g]

(* The reports; TimeKinds says which kinds of time stamps occur.           *)
MCReportSet(TimeKinds) ==
  {Rep("m", "smoke", p, g) :
     p \in BOOLEAN,
     g \in {Raw("absent", 0)} \cup {Raw(k, a) : k \in TimeKinds, a \in 1 .. 2}}
  \cup {Rep("m", "ro", TRUE, Raw("int", 1)),
        Rep("x", "smoke", TRUE, Raw("int", 2)),
        Rep("m", NoScenario, TRUE, Raw("int", 2)),
        Rep("", "smoke", TRUE, Raw("int", 2)),
        [Rep("m", "smoke", TRUE, Raw("int", 2)) EXCEPT !.transient = TRUE],
        [Rep("m", "smoke", TRUE, Raw("int", 2)) EXCEPT !.parses = FALSE]}

ReportLists(TimeKinds) ==
  UNION {[1 .. n -> MCReportSet(TimeKinds)] : n \in 0 .. 3}

(* Every report stamped the same way, as one tool writes them.             *)
MCReportsUniform == ReportLists({"int", "naive", "bad"})

(* Reports from writers that stamp times differently.                      *)
MCReportsMixed == ReportLists({"int", "zulu"})

=============================================================================
