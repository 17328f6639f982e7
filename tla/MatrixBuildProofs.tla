------------------------- MODULE MatrixBuildProofs -------------------------
(***************************************************************************)
(* Proofs about build_matrix (module MatrixBuild), for every set of models *)
(* and scenarios and every list of reports.                                *)
(***************************************************************************)
EXTENDS MatrixBuild, TLAPS

USE MatrixAssumption

(***************************************************************************)
(* What the loop has seen after its first n reports: the reports of a      *)
(* cell, the reports of a model, and the times of the latter.              *)
(***************************************************************************)
CellRuns(rs, m, s, n) == {j \in 1 .. n : Eligible(rs[j]) /\ rs[j].model = m
                                         /\ rs[j].scenario = s}

ModelRuns(rs, m, n) == {j \in 1 .. n : Eligible(rs[j]) /\ rs[j].model = m}

TimeIn(rs, j) == ParseTime(rs[j].generated_at)

Times(rs, m, n) == {TimeIn(rs, j) : j \in ModelRuns(rs, m, n)} \ {NoTime}

(***************************************************************************)
(* The inductive invariant.  LatestWins and LastRunIsMax speak only of the *)
(* end of the loop; during it the cells and the last runs are the latest   *)
(* of the reports read so far, 1 .. i - 1.  The step that reads report i   *)
(* then needs only the comparison of its time with the cell's and the      *)
(* last run's.  A crash ends the loop and the claim with it.  The helpers  *)
(* take the state as arguments, so that a primed use reads the next one.   *)
(***************************************************************************)
CellOK(rs, c, m, s, n) ==
  /\ c[<<m, s>>] = NoEntry <=> CellRuns(rs, m, s, n) = {}
  /\ c[<<m, s>>] # NoEntry =>
       /\ \E j \in CellRuns(rs, m, s, n) :
            c[<<m, s>>] = [passed |-> rs[j].passed, time |-> TimeIn(rs, j)]
       /\ \A j \in CellRuns(rs, m, s, n) :
            TimeIn(rs, j) # NoTime =>
              c[<<m, s>>].time # NoTime /\ ~Later(TimeIn(rs, j), c[<<m, s>>].time)

LastOK(rs, lr, m, n) ==
  /\ lr[m] = NoTime <=> Times(rs, m, n) = {}
  /\ lr[m] # NoTime =>
       lr[m] \in Times(rs, m, n) /\ \A t \in Times(rs, m, n) : ~Later(t, lr[m])

SoFar == status # "crashed" =>
           /\ \A m \in Models, s \in Scenarios : CellOK(reports, cells, m, s, i - 1)
           /\ \A m \in Models : LastOK(reports, lastRun, m, i - 1)

DoneInv == status = "done" =>
             i = Len(reports) + 1 /\ table = RenderTable(cells, lastRun)

IInv == TypeOK /\ SoFar /\ DoneInv

Time == [at : Nat, aware : BOOLEAN]

(* parse_time gives None or a datetime.                                    *)
LEMMA ParseTimeType ==
  ASSUME NEW v \in [kind : TimeKind, at : Nat]
  PROVE  ParseTime(v) \in Time \cup {NoTime}
BY DEF ParseTime, Time, NoTime

LEMMA TimeNotNone ==
  ASSUME NEW t \in Time PROVE t # NoTime
BY DEF Time, NoTime

LEMMA RenderTableType ==
  ASSUME NEW c \in [Models \X Scenarios -> Entry \cup {NoEntry}],
         NEW lr \in [Models -> Time \cup {NoTime}]
  PROVE  RenderTable(c, lr) \subseteq
           [model : Models, status : [Scenarios -> {"dash", "pass", "fail"}],
            last : Time \cup {NoTime}] \cup {NoResultsRow}
<1> DEFINE Row == [model : Models, status : [Scenarios -> {"dash", "pass", "fail"}],
                   last : Time \cup {NoTime}]
<1>1. ASSUME NEW m \in Models PROVE
        [model |-> m, status |-> [s \in Scenarios |-> FormatStatus(c[<<m, s>>])],
         last |-> lr[m]] \in Row
  <2>1. \A s \in Scenarios : FormatStatus(c[<<m, s>>]) \in {"dash", "pass", "fail"}
    BY DEF FormatStatus
  <2>2. lr[m] \in Time \cup {NoTime}
    OBVIOUS
  <2>3. QED
    BY <2>1, <2>2
<1> DEFINE shown == {m \in Models : \E s \in Scenarios : c[<<m, s>>] # NoEntry}
          rows  == {[model |-> m, status |-> [s \in Scenarios |-> FormatStatus(c[<<m, s>>])],
                     last |-> lr[m]] : m \in shown}
<1>2. rows \subseteq Row
  BY <1>1
<1>3. RenderTable(c, lr) = IF rows = {} THEN {NoResultsRow} ELSE rows
  BY DEF RenderTable
<1>4. QED
  BY <1>2, <1>3

LEMMA InitIInv == Init => IInv
<1> SUFFICES ASSUME Init PROVE IInv
  OBVIOUS
<1>1. TypeOK
  <2>1. reports \in Seq(Report)
    BY DEF Init
  <2>2. cells \in [Models \X Scenarios -> Entry \cup {NoEntry}]
    BY DEF Init
  <2>3. lastRun \in [Models -> [at : Nat, aware : BOOLEAN] \cup {NoTime}]
    BY DEF Init
  <2>4. QED
    BY <2>1, <2>2, <2>3 DEF Init, TypeOK
<1>2. SoFar
  BY DEF Init, SoFar, CellOK, LastOK, CellRuns, ModelRuns, Times
<1>3. QED
  BY <1>1, <1>2 DEF Init, IInv, DoneInv

(* A report of the list lies in Report; an eligible one names a model and  *)
(* a scenario column.                                                      *)
LEMMA ReportFacts ==
  ASSUME TypeOK, NEW j \in 1 .. Len(reports)
  PROVE  /\ reports[j] \in Report
         /\ TimeIn(reports, j) \in Time \cup {NoTime}
         /\ Eligible(reports[j]) => reports[j].model \in Models
                                    /\ reports[j].scenario \in Scenarios
<1>1. reports[j] \in Report
  BY DEF TypeOK
<1>2. TimeIn(reports, j) \in Time \cup {NoTime}
  BY <1>1, ParseTimeType DEF TimeIn, Report
<1>3. QED
  BY <1>1, <1>2 DEF Eligible, Report

(* Reading report n + 1 adds it to its cell's and its model's runs, when   *)
(* it is eligible, and to no other.                                        *)
LEMMA RunsStep ==
  ASSUME NEW rs, NEW k \in Nat \ {0}, NEW m, NEW s
  PROVE  /\ CellRuns(rs, m, s, k) =
              CellRuns(rs, m, s, k - 1) \cup
                {j \in {k} : Eligible(rs[j]) /\ rs[j].model = m /\ rs[j].scenario = s}
         /\ ModelRuns(rs, m, k) =
              ModelRuns(rs, m, k - 1) \cup {j \in {k} : Eligible(rs[j]) /\ rs[j].model = m}
BY DEF CellRuns, ModelRuns

(* A dropped report changes no run set.                                    *)
LEMMA DropStep ==
  ASSUME IInv, Drop
  PROVE  IInv'
<1>1. i \in 1 .. Len(reports) /\ ~Eligible(reports[i]) /\ i' - 1 = i
  BY DEF Drop, IInv, TypeOK
<1>2. TypeOK'
  BY <1>1 DEF Drop, IInv, TypeOK
<1>3. ASSUME NEW m, NEW s
      PROVE  /\ CellRuns(reports, m, s, i) = CellRuns(reports, m, s, i - 1)
             /\ Times(reports, m, i) = Times(reports, m, i - 1)
  <2>1. i \in Nat \ {0}
    BY <1>1 DEF IInv, TypeOK
  <2>2. /\ CellRuns(reports, m, s, i) =
             CellRuns(reports, m, s, i - 1) \cup
               {j \in {i} : Eligible(reports[j]) /\ reports[j].model = m
                                                /\ reports[j].scenario = s}
        /\ ModelRuns(reports, m, i) =
             ModelRuns(reports, m, i - 1) \cup
               {j \in {i} : Eligible(reports[j]) /\ reports[j].model = m}
    BY <2>1, RunsStep
  <2>3. /\ CellRuns(reports, m, s, i) = CellRuns(reports, m, s, i - 1)
        /\ ModelRuns(reports, m, i) = ModelRuns(reports, m, i - 1)
    BY <1>1, <2>2
  <2>4. QED
    BY <2>3 DEF Times
<1>4. SoFar'
  <2>1. ASSUME NEW m \in Models, NEW s \in Scenarios
        PROVE  CellOK(reports, cells, m, s, i)
    BY <1>3 DEF IInv, SoFar, Drop, CellOK
  <2>2. ASSUME NEW m \in Models PROVE LastOK(reports, lastRun, m, i)
    <3>1. Times(reports, m, i) = Times(reports, m, i - 1)
      BY <1>3
    <3>2. QED
      BY <3>1 DEF IInv, SoFar, Drop, LastOK
  <2>3. QED
    BY <1>1, <2>1, <2>2 DEF Drop, SoFar
<1>5. DoneInv'
  BY DEF Drop, DoneInv
<1>6. QED
  BY <1>2, <1>4, <1>5 DEF IInv

(* Finish renders the table of the cells the loop has built.               *)
LEMMA FinishStep ==
  ASSUME IInv, Finish
  PROVE  IInv'
<1>1. i = Len(reports) + 1
  BY DEF Finish, IInv, TypeOK
<1>2. TypeOK'
  BY RenderTableType DEF Finish, IInv, TypeOK, Time
<1>3. SoFar'
  BY DEF Finish, IInv, SoFar
<1>4. QED
  BY <1>1, <1>2, <1>3 DEF Finish, IInv, DoneInv
(***************************************************************************)
(* A report that passes the filters: either comparison may raise, which    *)
(* ends the claim; else its cell takes it when line 105 says so, and its   *)
(* model's last run when lines 112-115 do.  Each branch keeps the cell the *)
(* latest of its runs, because the times compared are ordered by .at.      *)
(***************************************************************************)
LEMMA TakeStep ==
  ASSUME IInv, Take
  PROVE  IInv'
<1> DEFINE rep  == reports[i]
           tm   == ParseTime(rep.generated_at)
           cell == cells[<<rep.model, rep.scenario>>]
           lrun == lastRun[rep.model]
           new  == [passed |-> rep.passed, time |-> tm]
<1> USE DEF rep, tm, cell, lrun, new
<1>1. /\ i \in Nat \ {0} /\ i \in 1 .. Len(reports)
      /\ Eligible(rep) /\ rep.model \in Models /\ rep.scenario \in Scenarios
      /\ rep \in Report /\ rep.passed \in BOOLEAN
      /\ tm \in Time \cup {NoTime} /\ tm = TimeIn(reports, i)
      /\ cell \in Entry \cup {NoEntry} /\ lrun \in Time \cup {NoTime}
      /\ reports' = reports /\ table' = table /\ status = "run"
  <2>1. i \in 1 .. Len(reports) /\ Eligible(rep) /\ TypeOK
    BY DEF Take, IInv, TypeOK
  <2>2. rep \in Report /\ tm \in Time \cup {NoTime}
         /\ rep.model \in Models /\ rep.scenario \in Scenarios
    BY <2>1, ReportFacts DEF TimeIn
  <2>3. rep.passed \in BOOLEAN
    BY <2>2 DEF Report
  <2>4. cell \in Entry \cup {NoEntry} /\ lrun \in Time \cup {NoTime}
    BY <2>1, <2>2 DEF TypeOK, Time
  <2>5. reports' = reports /\ table' = table /\ status = "run"
    BY DEF Take
  <2>6. QED
    BY <2>1, <2>2, <2>3, <2>4, <2>5 DEF TimeIn
<1>2. CASE cell # NoEntry /\ tm # NoTime /\ cell.time # NoTime /\ ~Comparable(tm, cell.time)
  <2>1. status' = "crashed" /\ UNCHANGED <<i, cells, lastRun>>
    BY <1>2 DEF Take
  <2>2. QED
    BY <1>1, <2>1 DEF IInv, TypeOK, SoFar, DoneInv
<1>3. CASE ~(cell # NoEntry /\ tm # NoTime /\ cell.time # NoTime /\ ~Comparable(tm, cell.time))
  <2>1. cells' = IF Replaces(tm, cell)
                   THEN [cells EXCEPT ![<<rep.model, rep.scenario>>] = new]
                   ELSE cells
    BY <1>3 DEF Take
  <2>2. cells' \in [Models \X Scenarios -> Entry \cup {NoEntry}]
    BY <1>1, <2>1 DEF IInv, TypeOK, Entry, Time
  <2>3. CASE tm # NoTime /\ lrun # NoTime /\ ~Comparable(tm, lrun)
    <3>1. status' = "crashed" /\ UNCHANGED <<i, lastRun>>
      BY <1>3, <2>3 DEF Take
    <3>2. QED
      BY <1>1, <2>2, <3>1 DEF IInv, TypeOK, SoFar, DoneInv
  <2>4. CASE ~(tm # NoTime /\ lrun # NoTime /\ ~Comparable(tm, lrun))
    <3>1. /\ lastRun' = IF Advances(tm, lrun) THEN [lastRun EXCEPT ![rep.model] = tm]
                                              ELSE lastRun
          /\ i' = i + 1 /\ status' = status
      BY <1>3, <2>4 DEF Take
    <3>2. TypeOK'
      BY <1>1, <2>2, <3>1 DEF IInv, TypeOK, Time
    <3>3. ASSUME NEW m \in Models, NEW s \in Scenarios
          PROVE  CellOK(reports, cells', m, s, i)
      <4>1. CellOK(reports, cells, m, s, i - 1)
        BY <1>1 DEF IInv, SoFar
      <4>2. CellRuns(reports, m, s, i) =
              CellRuns(reports, m, s, i - 1) \cup
                {j \in {i} : Eligible(reports[j]) /\ reports[j].model = m
                                                 /\ reports[j].scenario = s}
        BY <1>1, RunsStep
      <4>3. CASE <<m, s>> # <<rep.model, rep.scenario>>
        <5>1. cells'[<<m, s>>] = cells[<<m, s>>]
          BY <2>1, <4>3 DEF IInv, TypeOK
        <5>2. CellRuns(reports, m, s, i) = CellRuns(reports, m, s, i - 1)
          BY <4>2, <4>3
        <5>3. QED
          BY <4>1, <5>1, <5>2 DEF CellOK
      <4>4. CASE <<m, s>> = <<rep.model, rep.scenario>>
        <5>0. m = rep.model /\ s = rep.scenario
          BY <4>4
        <5>1. CellRuns(reports, m, s, i) = CellRuns(reports, m, s, i - 1) \cup {i}
          BY <4>2, <5>0, <1>1
        <5>2. /\ new # NoEntry
              /\ new = [passed |-> reports[i].passed, time |-> TimeIn(reports, i)]
              /\ tm # NoTime => ~Later(tm, tm)
          <6>1. new # NoEntry
            BY DEF NoEntry
          <6>2. tm # NoTime => tm.at \in Nat
            BY <1>1 DEF Time
          <6>3. QED
            BY <1>1, <6>1, <6>2 DEF Later
        <5>3. CASE cell = NoEntry
          <6>1. CellRuns(reports, m, s, i - 1) = {}
            BY <4>1, <5>0, <5>3 DEF CellOK
          <6>2. cells'[<<m, s>>] = new
            BY <2>1, <5>0, <5>3 DEF Replaces, IInv, TypeOK
          <6>3. QED
            BY <5>1, <5>2, <6>1, <6>2 DEF CellOK
        <5>4. CASE cell # NoEntry /\ tm # NoTime /\ cell.time # NoTime /\ Later(tm, cell.time)
          <6>1. cells'[<<m, s>>] = new
            BY <2>1, <5>0, <5>4 DEF Replaces, IInv, TypeOK
          <6>2. ASSUME NEW j \in CellRuns(reports, m, s, i - 1), TimeIn(reports, j) # NoTime
                PROVE  ~Later(TimeIn(reports, j), tm)
            <7>1. j \in 1 .. Len(reports)
              BY <1>1 DEF CellRuns
            <7>2. TimeIn(reports, j) \in Time
              BY <6>2, <7>1, ReportFacts DEF IInv
            <7>3. ~Later(TimeIn(reports, j), cell.time)
              BY <4>1, <5>0, <5>4, <6>2 DEF CellOK
            <7>4. cell.time \in Time /\ tm \in Time
              BY <1>1, <5>4 DEF Entry, Time
            <7>5. QED
              BY <5>4, <7>2, <7>3, <7>4 DEF Later, Time
          <6>3. QED
            BY <5>1, <5>2, <5>4, <6>1, <6>2 DEF CellOK
        <5>5. CASE cell # NoEntry /\ tm # NoTime /\ cell.time = NoTime
          <6>1. cells'[<<m, s>>] = new
            BY <2>1, <5>0, <5>5 DEF Replaces, IInv, TypeOK
          <6>2. \A j \in CellRuns(reports, m, s, i - 1) : TimeIn(reports, j) = NoTime
            BY <4>1, <5>0, <5>5 DEF CellOK
          <6>3. QED
            BY <5>1, <5>2, <6>1, <6>2 DEF CellOK
        <5>6. CASE cell # NoEntry /\ ~Replaces(tm, cell)
          <6>1. cells' = cells
            BY <2>1, <5>6
          <6>2. tm = NoTime \/ (cell.time # NoTime /\ ~Later(tm, cell.time))
            BY <5>6 DEF Replaces
          <6>3. QED
            BY <1>1, <4>1, <5>0, <5>1, <5>6, <6>1, <6>2 DEF CellOK
        <5>7. QED
          BY <5>3, <5>4, <5>5, <5>6 DEF Replaces
      <4>5. QED
        BY <4>3, <4>4
    <3>4. ASSUME NEW m \in Models
          PROVE  LastOK(reports, lastRun', m, i)
      <4>1. LastOK(reports, lastRun, m, i - 1)
        BY <1>1 DEF IInv, SoFar
      <4>2. ModelRuns(reports, m, i) =
              ModelRuns(reports, m, i - 1) \cup
                {j \in {i} : Eligible(reports[j]) /\ reports[j].model = m}
        BY <1>1 DEF ModelRuns
      <4>3. CASE m # rep.model
        <5>1. lastRun'[m] = lastRun[m]
          BY <3>1, <4>3 DEF IInv, TypeOK
        <5>2. Times(reports, m, i) = Times(reports, m, i - 1)
          BY <4>2, <4>3 DEF Times
        <5>3. QED
          BY <4>1, <5>1, <5>2 DEF LastOK
      <4>4. CASE m = rep.model
        <5>1. Times(reports, m, i) = Times(reports, m, i - 1) \cup ({tm} \ {NoTime})
          BY <1>1, <4>2, <4>4 DEF Times
        <5>2. Times(reports, m, i - 1) \subseteq Time
          <6>1. SUFFICES ASSUME NEW j \in ModelRuns(reports, m, i - 1)
                         PROVE  TimeIn(reports, j) \in Time \cup {NoTime}
            BY DEF Times
          <6>2. j \in 1 .. Len(reports)
            BY <1>1 DEF ModelRuns
          <6>3. QED
            BY <6>2, ReportFacts DEF IInv
        <5>3. CASE Advances(tm, lrun)
          <6>1. lastRun'[m] = tm /\ tm # NoTime /\ tm \in Time
            BY <1>1, <3>1, <4>4, <5>3 DEF IInv, TypeOK, Advances
          <6>2. ASSUME NEW t \in Times(reports, m, i - 1) PROVE ~Later(t, tm)
            <7>1. lrun # NoTime /\ Later(tm, lrun) /\ ~Later(t, lrun)
              BY <4>1, <4>4, <5>3, <6>2 DEF LastOK, Advances
            <7>2. lrun \in Time /\ t \in Time
              BY <1>1, <5>2, <7>1
            <7>3. QED
              BY <6>1, <7>1, <7>2 DEF Later, Time
          <6>3. ~Later(tm, tm)
            BY <6>1 DEF Later, Time
          <6>4. QED
            BY <5>1, <6>1, <6>2, <6>3 DEF LastOK
        <5>4. CASE ~Advances(tm, lrun)
          <6>1. lastRun' = lastRun
            BY <3>1, <5>4
          <6>2. tm = NoTime \/ (lrun # NoTime /\ ~Later(tm, lrun))
            BY <5>4 DEF Advances
          <6>3. QED
            BY <4>1, <4>4, <5>1, <6>1, <6>2 DEF LastOK
        <5>5. QED
          BY <5>3, <5>4
      <4>5. QED
        BY <4>3, <4>4
    <3>5. SoFar'
      <4>1. reports' = reports /\ i' - 1 = i
        BY <1>1, <3>1
      <4>2. \A m \in Models, s \in Scenarios : CellOK(reports', cells', m, s, i' - 1)
        BY <3>3, <4>1
      <4>3. \A m \in Models : LastOK(reports', lastRun', m, i' - 1)
        BY <3>4, <4>1
      <4>4. QED
        BY <4>2, <4>3 DEF SoFar
    <3>6. DoneInv'
      BY <1>1, <3>1 DEF DoneInv
    <3>7. QED
      BY <3>2, <3>5, <3>6 DEF IInv
  <2>5. QED
    BY <2>3, <2>4
<1>4. QED
  BY <1>2, <1>3

LEMMA NextIInv == IInv /\ [Next]_vars => IInv'
<1> SUFFICES ASSUME IInv, [Next]_vars PROVE IInv'
  OBVIOUS
<1>1. CASE Drop
  BY <1>1, DropStep
<1>2. CASE Take
  BY <1>2, TakeStep
<1>3. CASE Finish
  BY <1>3, FinishStep
<1>4. CASE UNCHANGED vars
  BY <1>4 DEF vars, IInv, TypeOK, SoFar, DoneInv
<1>5. QED
  BY <1>1, <1>2, <1>3, <1>4 DEF Next

(* Every state build_matrix and main reach is well typed.                  *)
THEOREM TypeCorrect == Spec => []TypeOK
<1>1. IInv => TypeOK
  BY DEF IInv
<1>2. QED
  BY <1>1, InitIInv, NextIInv, PTL DEF Spec

(* At the end the run sets are the reports of the whole list.              *)
LEMMA AtEnd ==
  ASSUME IInv, status = "done"
  PROVE  /\ i - 1 = Len(reports)
         /\ \A m \in Models, s \in Scenarios : CellOK(reports, cells, m, s, Len(reports))
         /\ \A m \in Models : LastOK(reports, lastRun, m, Len(reports))
         /\ table = RenderTable(cells, lastRun)
<1>1. i = Len(reports) + 1 /\ table = RenderTable(cells, lastRun)
  BY DEF IInv, DoneInv
<1>2. QED
  BY <1>1 DEF IInv, SoFar

(***************************************************************************)
(* LatestWins for every model set, scenario set and report list: whatever  *)
(* the order of the files, the matrix holds each cell's latest report.     *)
(***************************************************************************)
THEOREM CellsHoldLatest == Spec => []LatestWins
<1>1. IInv => LatestWins
  <2> SUFFICES ASSUME IInv, status = "done",
                      NEW m \in Models, NEW s \in Scenarios
               PROVE  /\ cells[<<m, s>>] = NoEntry <=> For(m, s) = {}
                      /\ cells[<<m, s>>] # NoEntry =>
                           /\ \E j \in For(m, s) :
                                cells[<<m, s>>] = [passed |-> reports[j].passed,
                                                   time |-> TimeOf(j)]
                           /\ \A j \in For(m, s) :
                                TimeOf(j) # NoTime =>
                                  /\ cells[<<m, s>>].time # NoTime
                                  /\ ~Later(TimeOf(j), cells[<<m, s>>].time)
    BY DEF LatestWins
  <2>1. CellOK(reports, cells, m, s, Len(reports))
    BY AtEnd
  <2>2. CellRuns(reports, m, s, Len(reports)) = For(m, s)
    BY DEF CellRuns, For
  <2>3. \A j : TimeIn(reports, j) = TimeOf(j)
    BY DEF TimeIn, TimeOf
  <2>4. QED
    BY <2>1, <2>2, <2>3 DEF CellOK
<1>2. QED
  BY <1>1, InitIInv, NextIInv, PTL DEF Spec

(* An eligible report has a scenario column, so a model's reports are the *)
(* union of its cells' reports.                                            *)
LEMMA ModelRunsAreCells ==
  ASSUME TypeOK, NEW m
  PROVE  ModelRuns(reports, m, Len(reports)) = UNION {For(m, s) : s \in Scenarios}
<1>1. ASSUME NEW j \in ModelRuns(reports, m, Len(reports))
      PROVE  j \in For(m, reports[j].scenario) /\ reports[j].scenario \in Scenarios
  <2>1. j \in 1 .. Len(reports) /\ Eligible(reports[j]) /\ reports[j].model = m
    BY DEF ModelRuns
  <2>2. reports[j].scenario \in Scenarios
    BY <2>1, ReportFacts
  <2>3. QED
    BY <2>1, <2>2 DEF For
<1>2. QED
  BY <1>1 DEF ModelRuns, For

(***************************************************************************)
(* LastRunIsMax for every model set, scenario set and report list: the     *)
(* "Last run" column is the latest time among all of a model's reports.    *)
(***************************************************************************)
THEOREM LastRunIsLatest == Spec => []LastRunIsMax
<1>1. IInv => LastRunIsMax
  <2> SUFFICES ASSUME IInv, status = "done", NEW m \in Models
               PROVE  LET ts == {TimeOf(j) : j \in UNION {For(m, s) : s \in Scenarios}}
                                  \ {NoTime}
                      IN  /\ lastRun[m] = NoTime <=> ts = {}
                          /\ lastRun[m] # NoTime =>
                               lastRun[m] \in ts /\ \A t \in ts : ~Later(t, lastRun[m])
    BY DEF LastRunIsMax
  <2>1. LastOK(reports, lastRun, m, Len(reports))
    BY AtEnd
  <2>2. Times(reports, m, Len(reports)) =
          {TimeOf(j) : j \in UNION {For(m, s) : s \in Scenarios}} \ {NoTime}
    <3>1. ModelRuns(reports, m, Len(reports)) = UNION {For(m, s) : s \in Scenarios}
      BY ModelRunsAreCells DEF IInv
    <3>2. QED
      BY <3>1 DEF Times, TimeIn, TimeOf
  <2>3. QED
    BY <2>1, <2>2 DEF LastOK
<1>2. QED
  BY <1>1, InitIInv, NextIInv, PTL DEF Spec

(***************************************************************************)
(* TableListsModels for every model set, scenario set and report list: the *)
(* printed matrix has a row for exactly the models with an eligible        *)
(* report, and the "No results yet" row exactly when there is none.        *)
(***************************************************************************)
THEOREM TableRowsAreModels == Spec => []TableListsModels
<1>1. IInv => TableListsModels
  <2> SUFFICES ASSUME IInv, status = "done"
               PROVE  /\ NoResultsRow \in table <=>
                           \A m \in Models, s \in Scenarios : For(m, s) = {}
                      /\ \A m \in Models :
                           (\E row \in table \ {NoResultsRow} : row.model = m)
                             <=> \E s \in Scenarios : For(m, s) # {}
    BY DEF TableListsModels
  <2> DEFINE shown == {m \in Models : \E s \in Scenarios : cells[<<m, s>>] # NoEntry}
             rowOf(m) == [model |-> m,
                        status |-> [s \in Scenarios |-> FormatStatus(cells[<<m, s>>])],
                        last |-> lastRun[m]]
             rows  == {rowOf(m) : m \in shown}
  <2>1. \A m \in Models, s \in Scenarios : cells[<<m, s>>] # NoEntry <=> For(m, s) # {}
    <3>1. \A m \in Models, s \in Scenarios : CellOK(reports, cells, m, s, Len(reports))
      BY AtEnd
    <3>2. \A m, s : CellRuns(reports, m, s, Len(reports)) = For(m, s)
      BY DEF CellRuns, For
    <3>3. QED
      BY <3>1, <3>2 DEF CellOK
  <2>2. table = IF rows = {} THEN {NoResultsRow} ELSE rows
    BY AtEnd DEF RenderTable
  <2>3. NoResultsRow \notin rows
    <3>1. \A m : DOMAIN rowOf(m) = {"model", "status", "last"}
      OBVIOUS
    <3>2. DOMAIN NoResultsRow = {"model"}
      BY DEF NoResultsRow
    <3>3. QED
      BY <3>1, <3>2
  <2>4. \A m \in Models : (\E r \in rows : r.model = m) <=> m \in shown
    <3>1. \A m : rowOf(m).model = m
      BY DEF rowOf
    <3>2. ASSUME NEW m PROVE m \in shown => rowOf(m) \in rows
      BY DEF rows
    <3>3. \A r \in rows : r.model \in shown
      BY <3>1 DEF rows
    <3>4. QED
      BY <3>1, <3>2, <3>3
  <2>5. table \ {NoResultsRow} = rows
    BY <2>2, <2>3
  <2>6. NoResultsRow \in table <=> shown = {}
    BY <2>2, <2>3
  <2>7. shown = {} <=> \A m \in Models, s \in Scenarios : For(m, s) = {}
    BY <2>1 DEF shown
  <2>8. \A m \in Models : m \in shown <=> \E s \in Scenarios : For(m, s) # {}
    BY <2>1 DEF shown
  <2>9. QED
    BY <2>4, <2>5, <2>6, <2>7, <2>8
<1>2. QED
  BY <1>1, InitIInv, NextIInv, PTL DEF Spec
=============================================================================
