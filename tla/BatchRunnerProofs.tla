------------------------- MODULE BatchRunnerProofs -------------------------
(***************************************************************************)
(* Proofs about main() (module BatchRunner), for every list of files,      *)
(* every number of runs and every number of crashes.                       *)
(***************************************************************************)
EXTENDS BatchRunner, TLAPS

USE BatchAssumption

(***************************************************************************)
(* The inductive invariant behind ExitCodeSound.  During a run, every file *)
(* the loop has passed either holds no markers or is in failed: the loop   *)
(* changes only the current file, and a write of a text with markers puts *)
(* it in failed.  A run that exits 0 has passed every file with failed     *)
(* empty.                                                                  *)
(***************************************************************************)
Passed == pc \in {"loop", "write"} =>
            \A i \in 1 .. idx - 1 :
              HasMarkers(disk[Files[i]]) => Files[i] \in failed

WriteInv == pc = "write" => idx <= Len(Files) /\ disk[Files[idx]] = "empty"

ExitInv == (pc = "exited" /\ exitcode = 0) =>
             \A p \in Paths : ~HasMarkers(disk[p])

CountInv == success <= idx - 1

IInv == TypeOK /\ Passed /\ WriteInv /\ ExitInv /\ CountInv

LEMMA InitIInv == Init => IInv
BY DEF Init, IInv, TypeOK, Passed, WriteInv, ExitInv, CountInv, Paths, Contents, Absent,
       HasMarkers

LEMMA NextIInv == IInv /\ [Next]_vars => IInv'
<1> SUFFICES ASSUME IInv, [Next]_vars PROVE IInv'
  OBVIOUS
<1>0. /\ disk \in [Paths -> Contents \cup {Absent}]
      /\ idx \in 1 .. Len(Files) + 1
      /\ \A i \in 1 .. Len(Files) : Files[i] \in Paths
  BY DEF IInv, TypeOK, Paths
<1>1. CASE Start
  BY <1>1, <1>0 DEF Start, IInv, TypeOK, Passed, WriteInv, ExitInv, CountInv
<1>2. CASE Skip
  BY <1>2, <1>0 DEF Skip, Cur, IInv, TypeOK, Passed, WriteInv, ExitInv, CountInv,
                    HasMarkers, Absent
<1>3. CASE Abort
  BY <1>3, <1>0 DEF Abort, IInv, TypeOK, Passed, WriteInv, ExitInv, CountInv
<1>4. CASE Unchanged
  BY <1>4, <1>0 DEF Unchanged, Cur, IInv, TypeOK, Passed, WriteInv, ExitInv, CountInv,
                    HasMarkers
<1>5. CASE Truncate
  BY <1>5, <1>0 DEF Truncate, Cur, Resolved, IInv, TypeOK, Passed, WriteInv,
                    ExitInv, CountInv, HasMarkers, Contents
<1>6. CASE Write
  <2>1. /\ pc = "write" /\ idx <= Len(Files)
        /\ disk' = [disk EXCEPT ![Cur] = pending]
        /\ idx' = idx + 1 /\ pc' = "loop"
        /\ UNCHANGED <<orig, pending, exitcode, runs, crashes>>
    BY <1>6 DEF Write, IInv, WriteInv
  <2>2. Cur \in Paths
    BY <2>1, <1>0 DEF Cur
  <2>3. CASE HasMarkers(pending)
    <3>1. failed' = failed \cup {Cur} /\ success' = success /\ ok' = ok
      BY <1>6, <2>3 DEF Write
    <3>2. Passed'
      <4>1. SUFFICES ASSUME NEW i \in 1 .. idx' - 1, HasMarkers(disk'[Files[i]])
                     PROVE  Files[i] \in failed'
        BY <2>1 DEF Passed
      <4>2. Files[i] \in Paths
        BY <2>1, <1>0
      <4>3. CASE Files[i] = Cur
        BY <3>1, <4>3
      <4>4. CASE Files[i] # Cur
        <5>1. disk'[Files[i]] = disk[Files[i]] /\ i \in 1 .. idx - 1
          BY <2>1, <4>2, <4>4, <1>0 DEF Cur
        <5>2. QED
          BY <3>1, <4>1, <5>1, <2>1 DEF IInv, Passed
      <4>5. QED
        BY <4>3, <4>4
    <3>3. QED
      BY <2>1, <2>2, <3>1, <3>2, <1>0
      DEF IInv, TypeOK, WriteInv, ExitInv, CountInv
  <2>4. CASE ~HasMarkers(pending)
    <3>1. failed' = failed /\ success' = success + 1 /\ ok' = ok \cup {Cur}
      BY <1>6, <2>4 DEF Write
    <3>2. Passed'
      <4>1. SUFFICES ASSUME NEW i \in 1 .. idx' - 1, HasMarkers(disk'[Files[i]])
                     PROVE  Files[i] \in failed'
        BY <2>1 DEF Passed
      <4>2. Files[i] \in Paths
        BY <2>1, <1>0
      <4>3. Files[i] # Cur
        BY <2>1, <2>2, <2>4, <4>1, <1>0
      <4>4. disk'[Files[i]] = disk[Files[i]] /\ i \in 1 .. idx - 1
        BY <2>1, <4>2, <4>3, <1>0 DEF Cur
      <4>5. QED
        BY <3>1, <4>1, <4>4, <2>1 DEF IInv, Passed
    <3>3. QED
      BY <2>1, <2>2, <3>1, <3>2, <1>0
      DEF IInv, TypeOK, WriteInv, ExitInv, CountInv
  <2>5. QED
    BY <2>3, <2>4
<1>7. CASE Finish
  <2>1. /\ pc = "loop" /\ idx = Len(Files) + 1 /\ pc' = "exited"
        /\ exitcode' = IF failed = {} THEN 0 ELSE 1
        /\ UNCHANGED <<disk, orig, idx, pending, success, failed, ok, runs,
                       crashes>>
    BY <1>7, <1>0 DEF Finish
  <2>2. ExitInv'
    <3>1. SUFFICES ASSUME exitcode' = 0, NEW p \in Paths PROVE ~HasMarkers(disk[p])
      BY <2>1 DEF ExitInv
    <3>2. PICK i \in 1 .. Len(Files) : p = Files[i]
      BY DEF Paths
    <3>3. failed = {}
      BY <2>1, <3>1
    <3>4. QED
      BY <2>1, <3>2, <3>3 DEF IInv, Passed
  <2>3. QED
    BY <2>1, <2>2, <1>0 DEF IInv, TypeOK, Passed, WriteInv, CountInv
<1>8. CASE Crash
  BY <1>8, <1>0 DEF Crash, IInv, TypeOK, Passed, WriteInv, ExitInv, CountInv
<1>9. CASE Rerun
  BY <1>9, <1>0 DEF Rerun, IInv, TypeOK, Passed, WriteInv, ExitInv, CountInv
<1>10. CASE UNCHANGED vars
  BY <1>10 DEF vars, IInv, TypeOK, Passed, WriteInv, ExitInv, CountInv
<1>11. QED
  BY <1>1, <1>2, <1>3, <1>4, <1>5, <1>6, <1>7, <1>8, <1>9, <1>10 DEF Next


(***************************************************************************)
(* Type correctness of main(): the loop index stays within the list, the   *)
(* success count within its length, the outcome sets within the listed     *)
(* paths, over any number of runs and crashes.                             *)
(***************************************************************************)
THEOREM TypeCorrect == Spec => []TypeOK
<1>1. IInv => TypeOK
  BY DEF IInv
<1>2. QED
  BY InitIInv, NextIInv, <1>1, PTL DEF Spec

(***************************************************************************)
(* The exit code of main() is honest: whenever a run exits 0, no listed    *)
(* file holds conflict markers, whichever script, however many runs and    *)
(* crashes came before.                                                    *)
(***************************************************************************)
THEOREM ExitCodeHonest == Spec => []ExitCodeSound
<1>1. IInv => ExitCodeSound
  BY DEF IInv, ExitInv, ExitCodeSound
<1>2. QED
  BY InitIInv, NextIInv, <1>1, PTL DEF Spec

=============================================================================
