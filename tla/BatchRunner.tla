---------------------------- MODULE BatchRunner ----------------------------
(***************************************************************************)
(* main() of src/resolve_09.py, src/resolve_smart.py and                   *)
(* src/fix_preexisting.py: walk the list of files, resolve each with       *)
(* resolve_file / fix_file, count the outcomes and exit 0 only when no     *)
(* file failed.                                                            *)
(*                                                                         *)
(* A file's text is abstracted to what the driver (module ConflictDriver)  *)
(* tells apart: "markers" (conflict regions the script resolves), "stuck"  *)
(* (regions it cannot resolve: markers remain), "clean" (no markers) and   *)
(* "empty"; Absent is a listed path with no file.  Writing is two steps,   *)
(* as open(filepath, 'w') truncates the file before f.write(content): the  *)
(* process may die between them.  The script may be run again, after it    *)
(* exits or dies; git keeps listing the files as unmerged because the      *)
(* scripts never stage them.                                               *)
(***************************************************************************)
EXTENDS Naturals, Sequences, FiniteSets

CONSTANTS Variant,     \* "fix_preexisting", "resolve_smart" or "resolve_09"
          Files,       \* the list of paths main() walks
          MaxRuns,     \* how many times the script is started
          MaxCrashes   \* how many of those runs die while writing a file

Absent   == "absent"
Contents == {"markers", "stuck", "clean", "empty"}

ASSUME BatchAssumption ==
  /\ Variant \in {"fix_preexisting", "resolve_smart", "resolve_09"}
  /\ Files \in Seq(STRING)
  /\ MaxRuns \in Nat \ {0}
  /\ MaxCrashes \in Nat

Paths == {Files[i] : i \in 1 .. Len(Files)}

HasMarkers(c) == c \in {"markers", "stuck"}

(* What resolve_file writes for a text (ConflictDriver's Complete).        *)
Resolved(c) == IF c = "markers" THEN "clean" ELSE c

VARIABLES disk,      \* the files
          orig,      \* the files before the first run
          pc,        \* "start", "loop", "write" or "exited"
          idx,       \* the position of main()'s for loop in Files
          pending,   \* the text being written
          success,   \* success
          failed,    \* failed
          ok,        \* the files this run reported resolved
          exitcode,  \* main()'s return value, or 1 on an uncaught exception
          runs,      \* runs started
          crashes    \* runs that died

vars == <<disk, orig, pc, idx, pending, success, failed, ok, exitcode, runs,
          crashes>>

Init ==
  /\ disk \in [Paths -> Contents \cup {Absent}]
  /\ orig = disk
  /\ pc = "start"
  /\ idx = 1
  /\ pending = "empty"
  /\ success = 0
  /\ failed = {}
  /\ ok = {}
  /\ exitcode = 0
  /\ runs = 1
  /\ crashes = 0

(* files = ...; success = 0; failed = []                                   *)
Start ==
  /\ pc = "start"
  /\ pc' = "loop"
  /\ idx' = 1
  /\ success' = 0
  /\ failed' = {}
  /\ ok' = {}
  /\ UNCHANGED <<disk, orig, pending, exitcode, runs, crashes>>

Cur == Files[idx]

(* Mutant: a missing file ends the loop (break for continue).              *)
SkipBreak ==
  /\ pc = "loop" /\ idx <= Len(Files)
  /\ Variant = "fix_preexisting"
  /\ disk[Cur] = Absent
  /\ idx' = Len(Files) + 1
  /\ UNCHANGED <<disk, orig, pc, pending, success, failed, ok, exitcode, runs,
                 crashes>>

(* fix_preexisting: if not os.path.exists(f): continue                     *)
Skip ==
  /\ pc = "loop" /\ idx <= Len(Files)
  /\ Variant = "fix_preexisting"
  /\ disk[Cur] = Absent
  /\ idx' = idx + 1
  /\ UNCHANGED <<disk, orig, pc, pending, success, failed, ok, exitcode, runs,
                 crashes>>

(* resolve_file's open(filepath, 'r') raises on a missing file and the     *)
(* exception ends the script.                                              *)
Abort ==
  /\ pc = "loop" /\ idx <= Len(Files)
  /\ Variant # "fix_preexisting"
  /\ disk[Cur] = Absent
  /\ pc' = "exited"
  /\ exitcode' = 1
  /\ UNCHANGED <<disk, orig, idx, pending, success, failed, ok, runs, crashes>>

(* Mutant: fix_file returns early whatever the count.                      *)
UnchangedAny ==
  /\ pc = "loop" /\ idx <= Len(Files)
  /\ Variant = "fix_preexisting"
  /\ disk[Cur] \in Contents
  /\ success' = success + 1
  /\ ok' = ok \cup {Cur}
  /\ idx' = idx + 1
  /\ UNCHANGED <<disk, orig, pc, pending, failed, exitcode, runs, crashes>>

(* fix_file: no opening sentinel, return True without writing.             *)
Unchanged ==
  /\ pc = "loop" /\ idx <= Len(Files)
  /\ Variant = "fix_preexisting"
  /\ disk[Cur] \in {"clean", "empty"}
  /\ success' = success + 1
  /\ ok' = ok \cup {Cur}
  /\ idx' = idx + 1
  /\ UNCHANGED <<disk, orig, pc, pending, failed, exitcode, runs, crashes>>

(* Read, resolve, and open(filepath, 'w'): the file is now empty.          *)
Truncate ==
  /\ pc = "loop" /\ idx <= Len(Files)
  /\ disk[Cur] \in Contents
  /\ Variant = "fix_preexisting" => HasMarkers(disk[Cur])
  /\ pending' = Resolved(disk[Cur])
  /\ disk' = [disk EXCEPT ![Cur] = "empty"]
  /\ pc' = "write"
  /\ UNCHANGED <<orig, idx, success, failed, ok, exitcode, runs, crashes>>

(* Mutants: every file counted a success; the loop index moved twice.      *)
WriteAllSucceed ==
  /\ pc = "write"
  /\ disk' = [disk EXCEPT ![Cur] = pending]
  /\ success' = success + 1
  /\ ok' = ok \cup {Cur}
  /\ idx' = idx + 1
  /\ pc' = "loop"
  /\ UNCHANGED <<orig, pending, failed, exitcode, runs, crashes>>

WriteSkipNext ==
  /\ pc = "write"
  /\ disk' = [disk EXCEPT ![Cur] = pending]
  /\ IF HasMarkers(pending)
       THEN /\ failed' = failed \cup {Cur}
            /\ UNCHANGED <<success, ok>>
       ELSE /\ success' = success + 1
            /\ ok' = ok \cup {Cur}
            /\ UNCHANGED failed
  /\ idx' = idx + 2
  /\ pc' = "loop"
  /\ UNCHANGED <<orig, pending, exitcode, runs, crashes>>

(* f.write(content), then the outcome: remaining > 0 fails the file.       *)
Write ==
  /\ pc = "write"
  /\ disk' = [disk EXCEPT ![Cur] = pending]
  /\ IF HasMarkers(pending)
       THEN /\ failed' = failed \cup {Cur}
            /\ UNCHANGED <<success, ok>>
       ELSE /\ success' = success + 1
            /\ ok' = ok \cup {Cur}
            /\ UNCHANGED failed
  /\ idx' = idx + 1
  /\ pc' = "loop"
  /\ UNCHANGED <<orig, pending, exitcode, runs, crashes>>

(* return 0 if not failed else 1                                           *)
Finish ==
  /\ pc = "loop" /\ idx > Len(Files)
  /\ pc' = "exited"
  /\ exitcode' = IF failed = {} THEN 0 ELSE 1
  /\ UNCHANGED <<disk, orig, idx, pending, success, failed, ok, runs, crashes>>

(* The process dies while writing a file (a full disk, a kill) and the     *)
(* script is started again.                                                *)
Crash ==
  /\ pc = "write"
  /\ crashes < MaxCrashes /\ runs < MaxRuns
  /\ crashes' = crashes + 1
  /\ runs' = runs + 1
  /\ pc' = "start"
  /\ exitcode' = 1
  /\ UNCHANGED <<disk, orig, idx, pending, success, failed, ok>>

(* The script is run again after it exited.                                *)
Rerun ==
  /\ pc = "exited" /\ runs < MaxRuns
  /\ runs' = runs + 1
  /\ pc' = "start"
  /\ UNCHANGED <<disk, orig, idx, pending, success, failed, ok, exitcode,
                 crashes>>

Next == Start \/ Skip \/ Abort \/ Unchanged \/ Truncate \/ Write \/ Finish
          \/ Crash \/ Rerun

Spec == Init /\ [][Next]_vars

-----------------------------------------------------------------------------
TypeOK ==
  /\ disk \in [Paths -> Contents \cup {Absent}]
  /\ orig \in [Paths -> Contents \cup {Absent}]
  /\ pc \in {"start", "loop", "write", "exited"}
  /\ idx \in 1 .. Len(Files) + 1
  /\ pending \in Contents
  /\ success \in 0 .. Len(Files)
  /\ failed \subseteq Paths /\ ok \subseteq Paths
  /\ exitcode \in {0, 1}
  /\ runs \in 1 .. MaxRuns /\ crashes \in 0 .. MaxCrashes

(***************************************************************************)
(* The exit code (spec section 6): a run that exits 0 leaves no listed     *)
(* file with conflict markers, over any number of earlier runs.            *)
(***************************************************************************)
ExitCodeSound ==
  (pc = "exited" /\ exitcode = 0) => \A p \in Paths : ~HasMarkers(disk[p])

(***************************************************************************)
(* Every file a run reports resolved holds the resolution of the text it   *)
(* had before the scripts ran: nothing is lost (spec section 5: each file  *)
(* is read, then replaced in a single write).                              *)
(***************************************************************************)
NoSilentLoss ==
  pc = "exited" => \A p \in ok : disk[p] = Resolved(orig[p])

(***************************************************************************)
(* Best effort (spec section 7): a missing file is skipped and does not    *)
(* stop the batch, so a run that exits has processed every listed file     *)
(* that exists.                                                            *)
(***************************************************************************)
BestEffort ==
  pc = "exited" => \A p \in Paths : disk[p] # Absent => p \in ok \cup failed

=============================================================================
