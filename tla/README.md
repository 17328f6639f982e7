# Formal models of Pulse's merge-conflict resolvers and model-matrix renderer

This directory holds TLA+ models of the Python maintenance scripts in `src/`, the TLC configurations that check them, and TLAPS proofs for three of them.

The main subject is three conflict-resolving scripts:
- `resolve_09.py`
- `resolve_smart.py`
- `fix_preexisting.py`

The second subject is the model-matrix builder `scripts/eval/render_model_matrix.py`. The third is the Telegram setup wizard `telegram-auto-setup.py`.

## The system

The three resolver scripts are built from the same parts:

1. **Marker grammar.** A file can hold three kinds of sentinel line: `<<<<<<< x`, `=======` and `>>>>>>> x`. There are two regular expressions:
   - The *standard* pattern matches an innermost block with a separator.
   - The *fallback* pattern matches a block with no separator.
2. **Resolution policy.** This is the function that `re.sub` calls with the two sides of a block.
   - `fix_preexisting` uses `pick_branch`.
   - `resolve_smart` uses a keyword-scoring `resolve_conflict`.
   - `resolve_09` uses a log-line merger that grafts the branch's `.Str(...)` fields onto HEAD's log lines.
3. **Fixed-point driver.** This is `resolve_file` / `fix_file`. It reads the file and repeats `re.sub` until nothing changes or 50 iterations have run. `fix_preexisting` and `resolve_09` try the fallback pattern when the standard pass changed nothing. The driver then truncates and writes the file, counts the `<<<<<<<` left, and reports success when the count is 0.
4. **Batch runner.** This is `main`. It walks the files: a fixed list in `fix_preexisting`, `git diff --diff-filter=U` in the other two. It counts successes and failures and exits 0 only when nothing failed.

`render_model_matrix.py` does three things:
- it folds eval reports (in path order) into one cell per model and scenario, which holds the latest report;
- it keeps each model's latest run;
- it renders a markdown table.

`telegram-auto-setup.py` is an interactive wizard that a user may run several times. Three files under `/opt/pulse` outlive a run: the bot token, the chat id and the webhook configuration. A run reads the token file or prompts for a token, saves it, verifies it with `getMe` (exiting 1 if it is rejected), finds a chat id (the chat file, `getUpdates`, or manual entry), sends a test message, and saves the configuration. Each save is `open(.., 'w')` followed by `write`.

## Modules

| Module | Models | State and actions |
|---|---|---|
| `ConflictMarkers` | sentinel lines and both patterns | A text is a sequence of lines. `OpenLine`, `SepLine` and `CloseLine` are the marker lines, and `Text` is a constant set of other lines. `WellFormedBlock` and `MalformedBlock` say where the two patterns match. `OpenCount` is `content.count('<<<<<<<')`. |
| `ResolutionPolicy` | `pick_branch`; `analyze_side`, `resolve_conflict` and `_graft_logging` of `resolve_smart` | Pure operators. A line is a record of the keyword classes that `analyze_side` counts. |
| `LogMerge` | `resolve_09`'s `merge_log_line`, message matching and `resolve_conflict` | Pure operators over line records. A record holds blankness, `log.`, `.Msg(`, the message (its words and its case), the field calls and the field-line text. |
| `LogMergeCall` | one call of the resolver | Variables `head`, `branch` and `result`. The single action is `Call`. |
| `ConflictDriver` | `resolve_file` / `fix_file` | `re.sub` is a scan with a position `pos` and an output `out`. The actions are `ScanWellFormed`, `ScanMalformed` and `ScanCopy`. Then come `StartFallback`, `Converge` (the break), `Advance` (`content = new_content`, with the budget), `Read` and `WriteBack` (the write and the count). `Variant` selects the script. |
| `BatchRunner` | `main` of the three scripts | A file's text is abstracted to `markers`, `stuck`, `clean`, `empty` or `absent`. The actions are `Start`, `Skip` (fix's exists check), `Abort` (the unguarded `open`), `Unchanged` (fix's early return), `Truncate` (`open(.., 'w')`) and `Write` (`f.write` plus the outcome). Then come `Finish`, `Crash` (the process dies between truncate and write) and `Rerun`. |
| `MatrixBuild` | `parse_time`, `build_matrix`, the filters, `format_status` and `render_table` | A report records its parse result, model, scenario, transient flag, `passed` and its raw `generated_at` (a kind and an instant). The actions `Drop` and `Take` cover one loop iteration each, and `Finish` renders the table. Cells are indexed by a `<<model, scenario>>` pair. |
| `TelegramSetup` | `setup_telegram_bot` | The variables are the three files (`NoFile`, `Empty` after a truncation, or their content), the run's `pc`, `botToken` and `chatId`, and counters of typos and dead runs. The actions are `ReadToken`, `PromptToken`, `TruncateToken` and `WriteToken`, then `Verify` (`getMe`) and `GetChat` (file, `getUpdates` or manual entry). Then come `TruncateChat`, `WriteChat`, `SendTest`, `TruncateConfig` and `WriteConfig`. `Die` is a run killed at any step, and `Rerun` is the user starting again. |

The `MC*` modules give the constants small values.

`PROJECT.json` `map` names the source lines behind every definition.

## Runs

| Run | What it shows |
|---|---|
| `driver_fix`, `driver_smart`, `driver_09` | These check the properties below, for every conflict-shaped file of up to 7 lines. The fix and 09 runs use a budget of 2, which is enough for nesting depth 2 and for a region that is stripped after a standard one. The smart run uses a budget of 1, so that the budget is sometimes what stops the loop. |
| `report_sound` (violation) | A file reported resolved still holds an orphan `=======` or `>>>>>>>` line. |
| `logmerge` | `FieldsKept`: no HEAD field is lost, and the fields of branch field lines and of the first-matching branch log line are grafted. The sides are all 1–2-line sequences over 10 kinds of line, including messages `a`, `A` and `ab`. |
| `logmerge_dup` (violation) | The garbled field line from the stale `h_line`. |
| `batch_fix`, `batch_git` | 3 files in every initial content, 2 runs, with 0 or 1 crash. `ExitCodeSound` holds. In fix without crashes, `NoSilentLoss` and `BestEffort` hold too. |
| `batch_crash` (violation) | A crash between truncate and write loses the file, and a rerun reports it resolved. |
| `matrix` | Every list of up to 3 reports drawn from a set that hits every filter and every time kind (int, naive, bad) at 2 instants. This gives `LatestWins`, `LastRunIsMax` and `TableListsModels`. |
| `matrix_mixed` (violation) | Number and `Z` timestamps in one cell raise `TypeError`. |
| `telegram_stuck` (violation) | `EventuallyConfigured` fails under fairness. The counterexample is a lasso: the user types one bad token, it is saved, `getMe` rejects it, and every rerun reads it back and exits before prompting. One typo and one dead run are enough; 143 states. |

The driver runs check these properties:
- `TypeOK`.
- `IterBound`: the iterations so far plus the text's length never exceed the original length.
- `Complete`: a file whose regions are resolvable within the budget ends with no marker line and is reported resolved.
- `MarkersDecrease` (fix and 09 only): every changing iteration removes a `<<<<<<<`.
- `BudgetOnlyCutoff` (fix and 09 only): a resolvable file that the loop leaves before spending its budget has no marker line left and is reported resolved. A pass and its fallback change nothing only when no region is left, so the budget is the only thing that strands a region (the hazard at `resolve_smart.py:114`). The mutants break too early: after any fallback pass (`ConvergeEarly`), or on an unchanged standard pass before the fallback is tried (`ConvergeSkipFallback`). The smart run leaves it out. With a budget of 1, the property would only speak of files that the first pass leaves unchanged.

No liveness property is checked on the driver. The loop is `for iteration in range(max_iterations)`, and `re.sub` always returns, so `resolve_file` ends whatever the loop body does. The model's `iter` bound makes this hold by construction. The budget that matters is checked by the safety properties above instead.

The three driver runs reach 38,000 to 408,000 distinct states.

Every property of a passing run has a mutant in `PROJECT.json`. A mutant is a plausible bug in a mapped definition, and TLC finds the property violated when the mutant replaces that definition.

**Fairness.** Only the telegram run checks liveness; the other runs check safety under `Spec`. The telegram run uses `WF_vars(Step)`: the script always proceeds and the user reruns it after a failure. `Die` is not fair, and it and the typos are bounded (`MaxFaults`, `MaxTypos`), which models a user who eventually types a valid token. Every cfg sets `CHECK_DEADLOCK FALSE`, because a finished run is a final state, not a deadlock.

## Findings

These are the five violation runs, plus two divergences found while modelling (items 3 and 4). `PROJECT.json` `findings` gives the detail of the five.

1. Success counts only `<<<<<<<`, so orphan separators or closers survive into a file that is reported resolved. See `resolve_09.py:177` and `fix_preexisting.py:53`.
2. `resolve_09.py:143` re-indents the inserted field line with `h_line`, which is the HEAD loop's last value. When that value is whitespace, `replace('', field)` repeats the field.
3. `resolve_09.py:74-75` adopts the branch message whenever fields are added, even when the messages are not equal up to case. Spec section 4.5 says it should not. No run checks this: it shows on a head `a` and a branch `ab` carrying a new field.
4. `resolve_smart` and `resolve_09` abort the whole batch on a listed file that is missing (`resolve_smart.py:111`, `resolve_09.py:155`). Spec section 7 says processing is best effort. `BestEffort` is checked for `fix_preexisting` only (`batch_fix`), whose exists check makes it hold. No run checks the other two: the abort is plain from the unguarded `open`.
5. The write is `open('w')` followed by `write`, so a crash between the two empties the file, and a rerun reports success.
6. `parse_time` mixes naive and aware datetimes, and the comparison raises `TypeError`. See `render_model_matrix.py:105`.
7. `telegram-auto-setup.py:109` saves the token before line 116 verifies it. A mistyped token, or the empty file left by a run killed between `open` and `write`, is read back at line 39 by every rerun, which exits 1 at line 123 before any prompt. Only deleting the file by hand recovers.

Divergences that are not checked:
- The budget is 50 iterations; the spec says 30.
- `resolve_smart`'s separator pattern `={7}\n` rejects a labelled separator. The model's `SepLine` abstracts the label away.
- Only the first matching branch log line merges (line 120).
- `telegram-auto-setup.py:149` takes `list(chat_ids)[0]`, an arbitrary chat among those that messaged the bot; `GetChat` lets it be any of them.
- `telegram-auto-setup.py:176-181`: the configuration is saved even when the test message failed.
- `telegram-auto-setup.py:126`: an existing chat file is reused after the token file is replaced by a new bot's.

## Proofs (TLAPS)

**`BatchRunnerProofs`** proves, for every file list, `MaxRuns` and `MaxCrashes` (under `BatchAssumption`):
- `TypeCorrect: Spec => []TypeOK`
- `ExitCodeHonest: Spec => []ExitCodeSound`

The inductive invariant is `IInv == TypeOK /\ Passed /\ WriteInv /\ ExitInv /\ CountInv`:
- `Passed`: every file the loop has passed holds no markers, or is in `failed`.
- `WriteInv`: during a write, the current file is the truncated one.
- `ExitInv`: the property itself.
- `CountInv`: `success <= idx - 1`.

`ExitCodeSound` alone is not inductive, because `Finish` needs to know what the loop saw. `Passed` carries that knowledge. The proof has one step per action, and the `Write` step is split on whether the written text has markers.

**`ConflictDriverProofs`** proves `TypeCorrect` (`TypeOK`) and `IterationsBounded` (`IterBound`) for any budget, any set of text lines and any input files. Both are stated under `PicksASide`, which means the resolver is `pick_branch` or `resolve_smart`; either one returns one of the two sides.

The invariant is `TypeOK /\ IterBound /\ ScanInv /\ ReadInv /\ BudgetInv`. `ScanInv` is needed because `Advance` replaces `content` by `out`. It says that during a scan `out` is no longer than the consumed prefix of `content`, and equals that prefix until a block has matched.

`resolve_09`'s merger is built with `SelectSeq` and a recursive function (a fold over the branch lines). TLAPS cannot unfold either of them, so for that variant these properties are checked by TLC only (`driver_09`).

**`MatrixBuildProofs`** proves, for every set of models and scenarios and every report list in `Reports` (under `MatrixAssumption`: reports are records of `Report`, and the no-scenario marker is not a column):
- `TypeCorrect: Spec => []TypeOK`
- `CellsHoldLatest: Spec => []LatestWins`
- `LastRunIsLatest: Spec => []LastRunIsMax`
- `TableRowsAreModels: Spec => []TableListsModels`

All four follow from `IInv == TypeOK /\ SoFar /\ DoneInv`. The three properties speak only of the end of the loop, so they are not inductive. `SoFar` states them of the reports read so far (`1 .. i - 1`), unless the run has crashed. It is stated with helpers (`CellOK`, `LastOK`) that take the report list, cells and last runs as arguments, so that a primed use reads the next state. `DoneInv` says that at the end `i` is past the list and the table is the rendering of the cells.

The `Take` step is split on the two `TypeError` exits, then on the three disjuncts of the line-105 test and the line-114 test. Each branch keeps the cell the latest of its runs, because `Later` compares instants and `<` on naturals is transitive. `LastRunIsMax` also needs the fact that an eligible report names a scenario column, so a model's reports are the union of its cells' (`ModelRunsAreCells`).

**`BatchFixProofs`** proves three results about `main()` (module `BatchRunner`), for every file list (a path listed twice included) and any number of reruns:
- `NoCrashKeepsResolutions: Spec => []NoSilentLoss`, for all three scripts, under `MaxCrashes = 0`. With one crash between truncate and write it fails (`batch_crash`).
- `FixBestEffort: Spec => []BestEffort`, under `Variant = "fix_preexisting"`, crashes included. For the other two scripts it fails, because their `open` aborts the loop on a missing file.
- `CrashDamageBounded: Spec => [](DamageEmpty /\ DamageBounded)`, for all three scripts and any number of crashes. It bounds what `batch_crash` shows can happen:
  - a file that holds neither its original text nor its resolution (`Damaged`) is empty;
  - there are at most `crashes` such files.

  A file being written counts as damaged when the text about to be written is neither. A later run reads the empty text and writes it back, so damage never spreads and is never repaired. No run checks these two properties. TLC checked them with `MaxCrashes = 2` for `resolve_09` and `fix_preexisting`, with three distinct paths and with a repeated path.

`NoSilentLoss` speaks of `ok` only at exit, but `ok` is built up during the loop, so it is not inductive as it stands. Its invariant `LossInv` adds three conjuncts to `BatchRunnerProofs`' `IInv`:
- `DiskInv`: every file holds its original text or the resolution of it, except the one being written.
- `PendAll`: the text being written is the resolution of the original.
- `OkAll`: a file in `ok` holds its resolution, unless it is being written. A script without fix's checks truncates a file it already resolved when its path is listed twice, and writes the same resolution back.

The lemma `ResolvedFacts` states that `Resolved` is idempotent. `Truncate` needs it when it truncates a file that is already resolved.

`BestEffort`'s invariant is `IInv /\ SeenInv`. `SeenInv` says that every existing file the loop has passed is in `ok` or `failed`, and that a run exits only past the end of the list. A crash restarts at `start`, where nothing is claimed, so no hypothesis on crashes is needed.

`CrashDamageBounded`'s invariant adds `IsFiniteSet(Damaged)` to the two properties. The only step that can damage a file is `Crash`: `Damaged` grows by at most the current file (`FS_AddElement`, `FS_Subset`) while `crashes` grows by one. `Truncate` and `Write` move the current file between the pending text and the disk without changing `Damaged`. Every other step leaves it alone (`QuietStep`).

**`ConflictDriverMarkers`** proves `LoopRemovesMarkers: Spec => MarkersDecrease` under `PicksASide`, for every file and budget. `MarkersDecrease` is an action property: every `Advance` step leaves fewer opening sentinels than it found.

The invariant `MarkInv` says that during a scan, `out` is either a copy of the scanned prefix of `content`, or has fewer sentinels than that prefix. At the end of a pass the prefix is the whole text, so a result that differs from `content` has fewer sentinels. The step lemmas are:
- `MatchStep`: a match consumes the block's opening line and puts back text without one.
- `CopyStep`: a copied line is added to both sides.

From the same invariant, `IterationsWithinMarkers: Spec => []IterMarkers` follows. `IterMarkers` is `iter + OpenCount(content) <= OpenCount(original)`: the loop runs at most one iteration per conflict block of the file it read. So a budget (30 in the spec, 50 in `resolve_smart`) only matters for files with more blocks than the budget. This is sharper than `IterBound`, which bounds the iterations by the number of lines. No run checks `IterMarkers`; it holds on the `driver_fix` and `driver_smart` instances with a budget of 3.

`MatchStep` and `CopyStep` rest on lemmas about `OpenCount`:
- `OpenCountConcat`: the count is additive over `\o`. The proof shifts positions by a bijection and uses `FS_Bijection` and `FS_Union`.
- `OpenCountZero` and `OpenCountFirst`: the count is zero for a text without sentinels, and at least one for a text that starts with one.
- `TextOnlyZero`: a side of a block has no sentinel.

**`TelegramSetupProofs`** proves `TypeCorrect` and `ConfigHasVerifiedToken: Spec => []ConfigVerified`, over any history of reruns, typos and killed runs. Both are stated under `ConstantsOK`: the bounds are naturals, `ValidTokens \subseteq Tokens`, and the file markers `NoFile` and `Empty` are not tokens or chats. `ConfigVerified` says that a written configuration holds a token `getMe` accepted. Its invariant `Verified` says that after `Verify` in a run, `botToken` is valid. A token file left empty by a killed run, or a saved typo, makes every later run exit at `Verify`. No run checks `ConfigVerified`, because the telegram run is spent on the liveness question. The proof covers every value of the constants.

These are checked by TLC only:
- `Complete`
- every `LogMerge` property
- `MarkersDecrease` for `resolve_09`
- `BudgetOnlyCutoff`: its invariant would have to say that a resolvable text with a marker left always has a match for one of the patterns, a fact about every text that needs induction over its lines
- `EventuallyConfigured` (liveness)

Most of these are about what a recursive or sequence-valued computation returns for every input, which needs induction over data that the installed provers cannot instantiate. Liveness and `ENABLED` are out of TLAPS' reach here, so `EventuallyConfigured` is checked by TLC only.

## Not modelled

- `test-update-server/server.py`, `test-proxmox-*.py`, `test-nodes-endpoint.py`: sequential HTTP I/O with no state to check.
- `analyze_coverage.py`: arithmetic over a file.
- `flatten_all.py`: file moves.
- In `render_model_matrix.py`:
  - argparse;
  - `load_reports`' glob (the report list is an input);
  - `update_doc`'s splice;
  - duration and token totals and `format_duration` (layout).
- In `telegram-auto-setup.py`: the telethon install fallback, what BotFather's reply text holds (the model keeps only whether a token came back, or the user typed one), `chmod`, and the printed payload.
- `normalize_scenario`'s substring matching is abstracted to a scenario or `NoScenario`.
