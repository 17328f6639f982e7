---------------------------- MODULE MatrixBuild ----------------------------
(***************************************************************************)
(* build_matrix of src/scripts/eval/render_model_matrix.py: fold the eval  *)
(* reports, in sorted path order, into one cell per (model, scenario)      *)
(* holding the latest report, and the latest run per model.                *)
(*                                                                         *)
(* A report keeps what build_matrix reads: whether its JSON parses, its    *)
(* model id, its scenario after normalize_scenario, whether a step carries *)
(* a transient error, whether it passed, and its raw generated_at.  A raw  *)
(* time is a kind (absent, unparseable, a number, an ISO string ending in  *)
(* Z, with an offset, or with neither) and an instant.                     *)
(***************************************************************************)
EXTENDS Naturals, Sequences

CONSTANTS Models,     \* model ids ("" is a report without one)
          Excluded,   \* the ids should_exclude_model rejects
          Scenarios,  \* the scenario columns
          Reports     \* the report lists the directory may hold

NoScenario == "none"
NoTime     == [none |-> TRUE]
NoEntry    == [empty |-> TRUE]

TimeKind == {"absent", "bad", "int", "naive", "zulu", "offset"}

Report == [parses : BOOLEAN, model : Models \cup {""},
           scenario : Scenarios \cup {NoScenario}, transient : BOOLEAN,
           passed : BOOLEAN, generated_at : [kind : TimeKind, at : Nat]]

ASSUME MatrixAssumption ==
  /\ Reports \subseteq Seq(Report)
  /\ NoScenario \notin Scenarios

(***************************************************************************)
(* parse_time: a number becomes a naive datetime (utcfromtimestamp), a     *)
(* string is read by fromisoformat after 'Z' becomes '+00:00', so it is    *)
(* offset-aware exactly when it ends in Z or carries an offset; absent or  *)
(* unparseable values give None.                                           *)
(***************************************************************************)
ParseTime(v) ==
  IF v.kind \in {"absent", "bad"} THEN NoTime
  ELSE [at |-> v.at, aware |-> v.kind \in {"zulu", "offset"}]

(* datetime's >: comparing a naive with an aware datetime raises.          *)
Comparable(a, b) == a.aware = b.aware
Later(a, b) == a.at > b.at

(* should_exclude_model: the id is listed or holds an excluded keyword;    *)
(* Excluded is the set of ids either test rejects.                         *)
ShouldExcludeModel(model) == model \in Excluded

(* has_transient_error: some step's error text or error event names a     *)
(* rate limit or quota; a report records whether one does.                 *)
HasTransientError(r) == r.transient

(* The filters of the loop, in order: json.loads, an empty model, an       *)
(* excluded model, no scenario, a transient error.                         *)
Eligible(r) ==
  /\ r.parses
  /\ r.model # ""
  /\ ~ShouldExcludeModel(r.model)
  /\ r.scenario # NoScenario
  /\ ~HasTransientError(r)

(* format_status: a cell shows passed, failed, or a dash when empty.       *)
FormatStatus(e) ==
  IF e = NoEntry THEN "dash" ELSE IF e.passed THEN "pass" ELSE "fail"

(* The row render_table adds when records is empty.                        *)
NoResultsRow == [model |-> "none"]

(* Mutant: only models with a last run get a row.                          *)
RenderTableTimedOnly(c, lr) ==
  LET shown == {m \in Models : (\E s \in Scenarios : c[<<m, s>>] # NoEntry)
                               /\ lr[m] # NoTime}
      rows  == {[model |-> m, status |-> [s \in Scenarios |-> FormatStatus(c[<<m, s>>])],
                 last |-> lr[m]] : m \in shown}
  IN  IF rows = {} THEN {NoResultsRow} ELSE rows

(***************************************************************************)
(* render_table: one row per key of records (a model with a filled cell),  *)
(* its two scenario statuses and its last run; the placeholder row when    *)
(* there is none.  The sort order, durations, tokens and the markdown are  *)
(* layout and are left out.                                                *)
(***************************************************************************)
RenderTable(c, lr) ==
  LET shown == {m \in Models : \E s \in Scenarios : c[<<m, s>>] # NoEntry}
      rows  == {[model |-> m, status |-> [s \in Scenarios |-> FormatStatus(c[<<m, s>>])],
                 last |-> lr[m]] : m \in shown}
  IN  IF rows = {} THEN {NoResultsRow} ELSE rows

(* Mutant: a timed report no longer replaces an untimed cell.              *)
ReplacesNoUpgrade(t, old) ==
  \/ old = NoEntry
  \/ t # NoTime /\ old.time # NoTime /\ Later(t, old.time)

(* Line 105: the report replaces the cell when the cell is empty, when     *)
(* both times are set and the report's is later, or when only the          *)
(* report's is set.                                                        *)
Replaces(t, old) ==
  \/ old = NoEntry
  \/ t # NoTime /\ old.time # NoTime /\ Later(t, old.time)
  \/ t # NoTime /\ old.time = NoTime

(* Mutant: the last run is overwritten without comparing.                  *)
AdvancesAlways(t, lr) == t # NoTime

(* Lines 112-115: the last run moves to a later time.                      *)
Advances(t, lr) == t # NoTime /\ (lr = NoTime \/ Later(t, lr))

VARIABLES reports,  \* report_paths, read in order
          i,        \* the loop's position
          cells,    \* records[model]["scenarios"][scenario]
          lastRun,  \* records[model]["last_run"]
          status,   \* "run", "done", or "crashed" on a TypeError
          table     \* the rows main() prints, once rendered

vars == <<reports, i, cells, lastRun, status, table>>

Init ==
  /\ reports \in Reports
  /\ i = 1
  /\ cells = [p \in Models \X Scenarios |-> NoEntry]
  /\ lastRun = [m \in Models |-> NoTime]
  /\ status = "run"
  /\ table = {}

(* Mutant: a dropped report also skips the next one.                       *)
DropSkipTwo ==
  /\ status = "run" /\ i <= Len(reports)
  /\ ~Eligible(reports[i])
  /\ i' = i + 2
  /\ UNCHANGED <<reports, cells, lastRun, status, table>>

(* A report one of the filters drops: continue.                            *)
Drop ==
  /\ status = "run" /\ i <= Len(reports)
  /\ ~Eligible(reports[i])
  /\ i' = i + 1
  /\ UNCHANGED <<reports, cells, lastRun, status, table>>

(***************************************************************************)
(* A report that passes the filters updates its cell and its model's last  *)
(* run.  Either comparison of a naive with an aware time raises and ends   *)
(* the script.                                                             *)
(***************************************************************************)
Take ==
  /\ status = "run" /\ i <= Len(reports)
  /\ Eligible(reports[i])
  /\ LET r    == reports[i]
         t    == ParseTime(r.generated_at)
         old  == cells[<<r.model, r.scenario>>]
         cmp1 == old # NoEntry /\ t # NoTime /\ old.time # NoTime
         lr   == lastRun[r.model]
         cmp2 == t # NoTime /\ lr # NoTime
     IN  IF cmp1 /\ ~Comparable(t, old.time)
           THEN status' = "crashed" /\ UNCHANGED <<i, cells, lastRun>>
         ELSE
           /\ cells' = IF Replaces(t, old)
                         THEN [cells EXCEPT ![<<r.model, r.scenario>>] =
                                 [passed |-> r.passed, time |-> t]]
                         ELSE cells
           /\ IF cmp2 /\ ~Comparable(t, lr)
                THEN status' = "crashed" /\ UNCHANGED <<i, lastRun>>
              ELSE /\ lastRun' = IF Advances(t, lr)
                                   THEN [lastRun EXCEPT ![r.model] = t]
                                   ELSE lastRun
                   /\ i' = i + 1
                   /\ UNCHANGED status
  /\ UNCHANGED <<reports, table>>

(* return records; main() renders them with render_table and prints.       *)
Finish ==
  /\ status = "run" /\ i > Len(reports)
  /\ status' = "done"
  /\ table' = RenderTable(cells, lastRun)
  /\ UNCHANGED <<reports, i, cells, lastRun>>

Next == Drop \/ Take \/ Finish

Spec == Init /\ [][Next]_vars

-----------------------------------------------------------------------------
Entry == [passed : BOOLEAN, time : [at : Nat, aware : BOOLEAN] \cup {NoTime}]

TypeOK ==
  /\ reports \in Reports
  /\ i \in 1 .. Len(reports) + 1
  /\ cells \in [Models \X Scenarios -> Entry \cup {NoEntry}]
  /\ lastRun \in [Models -> [at : Nat, aware : BOOLEAN] \cup {NoTime}]
  /\ status \in {"run", "done", "crashed"}
  /\ table \subseteq [model : Models, status : [Scenarios -> {"dash", "pass", "fail"}],
                      last : [at : Nat, aware : BOOLEAN] \cup {NoTime}]
                     \cup {NoResultsRow}

(* The reports of a cell, and their times.                                 *)
For(m, s) == {j \in 1 .. Len(reports) : Eligible(reports[j])
                                       /\ reports[j].model = m
                                       /\ reports[j].scenario = s}

TimeOf(j) == ParseTime(reports[j].generated_at)

(***************************************************************************)
(* The matrix shows the latest run of each model on each scenario: a cell  *)
(* is filled exactly when some report of it passes the filters, it is one  *)
(* of those reports, and no report of it with a time is later, whatever    *)
(* the order of the files and however many lack a time.                   *)
(***************************************************************************)
LatestWins ==
  status = "done" =>
    \A m \in Models, s \in Scenarios :
      /\ cells[<<m, s>>] = NoEntry <=> For(m, s) = {}
      /\ cells[<<m, s>>] # NoEntry =>
           /\ \E j \in For(m, s) :
                cells[<<m, s>>] = [passed |-> reports[j].passed, time |-> TimeOf(j)]
           /\ \A j \in For(m, s) :
                TimeOf(j) # NoTime =>
                  cells[<<m, s>>].time # NoTime /\ ~Later(TimeOf(j), cells[<<m, s>>].time)

(***************************************************************************)
(* The "Last run" column is the latest time of any report of the model     *)
(* that passes the filters, including reports older than their cell's.     *)
(***************************************************************************)
LastRunIsMax ==
  status = "done" =>
    \A m \in Models :
      LET ts == {TimeOf(j) : j \in UNION {For(m, s) : s \in Scenarios}} \ {NoTime}
      IN  /\ lastRun[m] = NoTime <=> ts = {}
          /\ lastRun[m] # NoTime =>
               lastRun[m] \in ts /\ \A t \in ts : ~Later(t, lastRun[m])

(***************************************************************************)
(* build_matrix never raises on the reports it accepts: parse_time turns   *)
(* numbers, 'Z' strings and offset-free strings into datetimes that its    *)
(* comparisons at lines 105 and 114 must be able to order.                 *)
(***************************************************************************)
NoTypeError == status # "crashed"

(***************************************************************************)
(* The printed matrix lists every model that has a report passing the      *)
(* filters, timed or not, and no other, and says "No results yet" exactly  *)
(* when there is none.                                                     *)
(***************************************************************************)
TableListsModels ==
  status = "done" =>
    /\ NoResultsRow \in table <=> \A m \in Models, s \in Scenarios : For(m, s) = {}
    /\ \A m \in Models :
         (\E row \in table \ {NoResultsRow} : row.model = m)
           <=> \E s \in Scenarios : For(m, s) # {}

=============================================================================
