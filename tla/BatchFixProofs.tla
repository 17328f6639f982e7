--------------------------- MODULE BatchFixProofs ---------------------------
(***************************************************************************)
(* Proofs of the two properties of run batch_fix, for every list of files  *)
(* and every number of runs.  NoSilentLoss holds for all three scripts     *)
(* when no run dies between open(filepath, 'w') and f.write; with a crash  *)
(* it fails (run batch_crash).  BestEffort holds for fix_preexisting,      *)
(* crashes included; for the other two scripts it fails, their open        *)
(* raising on a missing file.  So these are the hypotheses they need.      *)
(***************************************************************************)
EXTENDS BatchRunnerProofs, FiniteSetTheorems

(***************************************************************************)
(* The invariant behind NoSilentLoss.  Every file holds its original text  *)
(* or the resolution of it, except the one being written, and the text     *)
(* being written is the resolution of the original: a write never loses    *)
(* anything.  A file reported resolved holds its resolution, unless it is  *)
(* being written again: a script without fix's checks truncates a file it  *)
(* already resolved when its path is listed twice, and writes the same     *)
(* resolution back.                                                        *)
(***************************************************************************)
DiskInv == \A p \in Paths :
             (pc = "write" /\ p = Cur) \/ disk[p] \in {orig[p], Resolved(orig[p])}

PendAll == pc = "write" => pending = Resolved(orig[Cur])

OkAll == \A p \in ok : (pc = "write" /\ p = Cur) \/ disk[p] = Resolved(orig[p])

LossInv == IInv /\ DiskInv /\ PendAll /\ OkAll

(***************************************************************************)
(* The invariant behind BestEffort.  Every existing file the loop has      *)
(* passed has an outcome, and a run exits only after the whole list (fix's *)
(* exists check means it never aborts).  A crash restarts at "start",      *)
(* where nothing is claimed.                                               *)
(***************************************************************************)
SeenInv == /\ pc \in {"loop", "write", "exited"} =>
                \A k \in 1 .. idx - 1 :
                  disk[Files[k]] # Absent => Files[k] \in ok \cup failed
           /\ pc = "exited" => idx = Len(Files) + 1

FixInv == IInv /\ SeenInv

(***************************************************************************)
(* What a crash can do.  A file is damaged when it holds neither its       *)
(* original text nor the resolution of it; the file being written counts   *)
(* as damaged when the text about to be written is neither.  A damaged     *)
(* file is always empty, and there are never more damaged files than runs  *)
(* that died: each crash between open(filepath, 'w') and f.write empties   *)
(* one file, and no later run repairs or spreads that.                     *)
(***************************************************************************)
Damaged ==
  {p \in Paths : IF pc = "write" /\ p = Cur
                   THEN pending \notin {orig[p], Resolved(orig[p])}
                   ELSE disk[p] \notin {orig[p], Resolved(orig[p])}}

DamageEmpty ==
  \A p \in Damaged : disk[p] = "empty" /\ (pc = "write" /\ p = Cur => pending = "empty")

DamageBounded == Cardinality(Damaged) <= crashes

CrashInv == IInv /\ DamageEmpty /\ IsFiniteSet(Damaged) /\ DamageBounded

(* resolve_file's result is a fixed point of it, and has markers only when *)
(* the text had regions it cannot resolve.                                 *)
LEMMA ResolvedFacts ==
  ASSUME NEW c \in Contents \cup {Absent}
  PROVE  /\ Resolved(Resolved(c)) = Resolved(c)
         /\ Resolved(c) \in Contents \cup {Absent}
         /\ (Resolved(c) = Absent) <=> (c = Absent)
         /\ HasMarkers(Resolved(c)) <=> c = "stuck"
BY DEF Resolved, Contents, Absent, HasMarkers

LEMMA LossInit == Init => LossInv
<1> SUFFICES ASSUME Init PROVE LossInv
  OBVIOUS
<1>1. IInv
  BY InitIInv
<1>2. QED
  BY <1>1 DEF Init, LossInv, DiskInv, PendAll, OkAll

LEMMA LossNext ==
  ASSUME MaxCrashes = 0, LossInv, [Next]_vars
  PROVE  LossInv'
<1>0. /\ disk \in [Paths -> Contents \cup {Absent}]
      /\ orig \in [Paths -> Contents \cup {Absent}]
      /\ idx \in 1 .. Len(Files) + 1
      /\ \A i \in 1 .. Len(Files) : Files[i] \in Paths
      /\ crashes \in 0 .. 0
  BY DEF LossInv, IInv, TypeOK, Paths
<1>1. IInv'
  BY NextIInv DEF LossInv
<1> USE DEF LossInv
<1>2. CASE Start
  BY <1>1, <1>2 DEF Start, DiskInv, PendAll, OkAll
<1>3. CASE Skip
  BY <1>1, <1>3 DEF Skip, DiskInv, PendAll, OkAll
<1>4. CASE Abort
  BY <1>1, <1>4 DEF Abort, DiskInv, PendAll, OkAll
<1>5. CASE Unchanged
  <2>1. /\ pc = "loop" /\ idx <= Len(Files) /\ Cur \in Paths
        /\ disk[Cur] \in {"clean", "empty"}
        /\ ok' = ok \cup {Cur} /\ idx' = idx + 1
        /\ UNCHANGED <<disk, orig, pc>>
    BY <1>5, <1>0 DEF Unchanged, Cur
  <2>2. disk[Cur] = Resolved(orig[Cur])
    BY <2>1, <1>0 DEF DiskInv, Resolved
  <2>3. QED
    BY <1>1, <2>1, <2>2 DEF DiskInv, PendAll, OkAll
<1>6. CASE Truncate
  <2>1. /\ pc = "loop" /\ idx <= Len(Files) /\ Cur \in Paths
        /\ pending' = Resolved(disk[Cur])
        /\ disk' = [disk EXCEPT ![Cur] = "empty"]
        /\ pc' = "write"
        /\ UNCHANGED <<orig, idx, ok>>
    BY <1>6, <1>0 DEF Truncate, Cur
  <2>2. pending' = Resolved(orig[Cur])
    BY <2>1, <1>0, ResolvedFacts DEF DiskInv
  <2>3. QED
    BY <1>1, <2>1, <2>2, <1>0 DEF DiskInv, PendAll, OkAll, Cur
<1>7. CASE Write
  <2>1. /\ pc = "write" /\ idx <= Len(Files) /\ Cur \in Paths
        /\ disk' = [disk EXCEPT ![Cur] = pending]
        /\ pc' = "loop"
        /\ pending = Resolved(orig[Cur])
        /\ ok' \subseteq ok \cup {Cur}
        /\ UNCHANGED orig
    BY <1>7, <1>0 DEF Write, IInv, WriteInv, PendAll, Cur
  <2>2. DiskInv'
    BY <2>1, <1>0 DEF DiskInv
  <2>3. OkAll'
    BY <2>1, <1>0 DEF OkAll
  <2>4. QED
    BY <1>1, <2>1, <2>2, <2>3 DEF PendAll
<1>8. CASE Finish
  BY <1>1, <1>8 DEF Finish, DiskInv, PendAll, OkAll
<1>9. CASE Crash
  BY <1>9, <1>0 DEF Crash
<1>10. CASE Rerun
  BY <1>1, <1>10 DEF Rerun, DiskInv, PendAll, OkAll
<1>11. CASE UNCHANGED vars
  BY <1>1, <1>11 DEF vars, DiskInv, PendAll, OkAll, Cur
<1>12. QED
  BY <1>2, <1>3, <1>4, <1>5, <1>6, <1>7, <1>8, <1>9, <1>10, <1>11 DEF Next

LEMMA FixInit == Init => FixInv
<1> SUFFICES ASSUME Init PROVE FixInv
  OBVIOUS
<1>1. IInv
  BY InitIInv
<1>2. QED
  BY <1>1 DEF Init, FixInv, SeenInv

LEMMA FixNext ==
  ASSUME Variant = "fix_preexisting", FixInv, [Next]_vars
  PROVE  FixInv'
<1>0. /\ disk \in [Paths -> Contents \cup {Absent}]
      /\ idx \in 1 .. Len(Files) + 1
      /\ \A i \in 1 .. Len(Files) : Files[i] \in Paths
  BY DEF FixInv, IInv, TypeOK, Paths
<1>1. IInv'
  BY NextIInv DEF FixInv
<1> USE DEF FixInv
<1>2. CASE Start
  BY <1>1, <1>2 DEF Start, SeenInv
<1>3. CASE Skip
  BY <1>1, <1>3, <1>0 DEF Skip, Cur, SeenInv
<1>4. CASE Abort
  BY <1>4 DEF Abort
<1>5. CASE Unchanged
  BY <1>1, <1>5, <1>0 DEF Unchanged, Cur, SeenInv
<1>6. CASE Truncate
  <2>1. /\ pc = "loop" /\ idx <= Len(Files) /\ Cur \in Paths
        /\ disk[Cur] \in Contents
        /\ disk' = [disk EXCEPT ![Cur] = "empty"]
        /\ pc' = "write"
        /\ UNCHANGED <<idx, failed, ok>>
    BY <1>6, <1>0 DEF Truncate, Cur
  <2>2. Cur \in ok \cup failed \/ \A k \in 1 .. idx - 1 : Files[k] # Cur
    BY <2>1 DEF SeenInv, Contents, Absent
  <2>3. QED
    BY <1>1, <2>1, <2>2, <1>0 DEF SeenInv, Absent, Cur
<1>7. CASE Write
  <2>1. /\ pc = "write" /\ idx <= Len(Files) /\ Cur \in Paths
        /\ disk' = [disk EXCEPT ![Cur] = pending]
        /\ idx' = idx + 1 /\ pc' = "loop"
    BY <1>7, <1>0 DEF Write, IInv, WriteInv, Cur
  <2>2. ok' \cup failed' = ok \cup failed \cup {Cur}
    BY <1>7 DEF Write
  <2>3. SeenInv'
    <3>1. SUFFICES ASSUME NEW k \in 1 .. idx' - 1, disk'[Files[k]] # Absent
                   PROVE  Files[k] \in ok' \cup failed'
      BY <2>1 DEF SeenInv
    <3>2. CASE Files[k] = Cur
      BY <3>2, <2>2
    <3>3. CASE Files[k] # Cur
      <4>1. k \in 1 .. idx - 1 /\ disk'[Files[k]] = disk[Files[k]]
        BY <3>3, <2>1, <1>0 DEF Cur
      <4>2. QED
        BY <3>1, <4>1, <2>1, <2>2 DEF SeenInv
    <3>4. QED
      BY <3>2, <3>3
  <2>4. QED
    BY <1>1, <2>3
<1>8. CASE Finish
  BY <1>1, <1>8, <1>0 DEF Finish, SeenInv
<1>9. CASE Crash
  BY <1>1, <1>9 DEF Crash, SeenInv
<1>10. CASE Rerun
  BY <1>1, <1>10 DEF Rerun, SeenInv
<1>11. CASE UNCHANGED vars
  BY <1>1, <1>11 DEF vars, SeenInv, Cur
<1>12. QED
  BY <1>2, <1>3, <1>4, <1>5, <1>6, <1>7, <1>8, <1>9, <1>10, <1>11 DEF Next

(***************************************************************************)
(* No script loses a resolution unless a run dies mid-write: whenever a    *)
(* run of any of the three main()s has exited, every file it reported      *)
(* resolved holds the resolution of the text it had before the first run,  *)
(* whatever the list (a path listed twice included) and however many      *)
(* reruns came before.  With one crash it fails (run batch_crash).         *)
(***************************************************************************)
THEOREM NoCrashKeepsResolutions ==
  ASSUME MaxCrashes = 0 PROVE Spec => []NoSilentLoss
<1>1. LossInv => NoSilentLoss
  BY DEF LossInv, OkAll, NoSilentLoss
<1>2. LossInv /\ [Next]_vars => LossInv'
  BY LossNext
<1>3. QED
  BY <1>1, <1>2, LossInit, PTL DEF Spec

(***************************************************************************)
(* fix_preexisting is best effort: a run that exits has an outcome for     *)
(* every listed file that exists; missing files are skipped, not fatal,    *)
(* however many runs died before.                                          *)
(***************************************************************************)
THEOREM FixBestEffort ==
  ASSUME Variant = "fix_preexisting" PROVE Spec => []BestEffort
<1>1. FixInv => BestEffort
  <2> SUFFICES ASSUME FixInv, pc = "exited", NEW p \in Paths, disk[p] # Absent
               PROVE  p \in ok \cup failed
    BY DEF BestEffort
  <2>1. PICK k \in 1 .. Len(Files) : p = Files[k]
    BY DEF Paths
  <2>2. QED
    BY <2>1 DEF FixInv, SeenInv
<1>2. FixInv /\ [Next]_vars => FixInv'
  BY FixNext
<1>3. QED
  BY <1>1, <1>2, FixInit, PTL DEF Spec

(***************************************************************************)
(* A step that neither starts nor ends a write, and leaves the files       *)
(* alone, leaves the damaged files as they are.                            *)
(***************************************************************************)
LEMMA QuietStep ==
  ASSUME pc # "write", pc' # "write", UNCHANGED <<disk, orig>>
  PROVE  Damaged' = Damaged
BY DEF Damaged

LEMMA CrashInit == Init => CrashInv
<1> SUFFICES ASSUME Init PROVE CrashInv
  OBVIOUS
<1>1. Damaged = {}
  BY DEF Init, Damaged
<1>2. QED
  BY <1>1, InitIInv, FS_EmptySet DEF Init, CrashInv, DamageEmpty, DamageBounded

LEMMA CrashNext == CrashInv /\ [Next]_vars => CrashInv'
<1> SUFFICES ASSUME CrashInv, [Next]_vars PROVE CrashInv'
  OBVIOUS
<1>0. /\ disk \in [Paths -> Contents \cup {Absent}]
      /\ orig \in [Paths -> Contents \cup {Absent}]
      /\ idx \in 1 .. Len(Files) + 1
      /\ \A i \in 1 .. Len(Files) : Files[i] \in Paths
      /\ crashes \in Nat
      /\ IsFiniteSet(Damaged) /\ Cardinality(Damaged) <= crashes
  BY DEF CrashInv, IInv, TypeOK, Paths, DamageBounded
<1>1. IInv'
  BY NextIInv DEF CrashInv
<1>2. ASSUME Damaged' = Damaged, UNCHANGED <<disk, crashes>>,
             pc' = "write" => pc = "write" /\ pending' = pending /\ Cur' = Cur
      PROVE  CrashInv'
  <2>1. DamageEmpty'
    <3> SUFFICES ASSUME NEW p \in Damaged' 
                 PROVE  disk'[p] = "empty" /\ (pc' = "write" /\ p = Cur' => pending' = "empty")
      BY DEF DamageEmpty
    <3>1. p \in Damaged
      BY <1>2
    <3>2. QED
      BY <3>1, <1>2 DEF CrashInv, DamageEmpty
  <2>2. IsFiniteSet(Damaged') /\ DamageBounded'
    BY <1>0, <1>2 DEF DamageBounded
  <2>3. QED
    BY <1>1, <2>1, <2>2 DEF CrashInv
<1>3. CASE Start \/ Skip \/ Abort \/ Unchanged \/ Finish \/ Rerun
  <2>1. pc # "write" /\ pc' # "write" /\ UNCHANGED <<disk, orig, crashes>>
    BY <1>3 DEF Start, Skip, Abort, Unchanged, Finish, Rerun
  <2>2. QED
    BY <2>1, <1>2, QuietStep
<1>4. CASE Truncate
  <2>1. /\ pc = "loop" /\ idx <= Len(Files) /\ Cur \in Paths
        /\ disk[Cur] \in Contents
        /\ pending' = Resolved(disk[Cur])
        /\ disk' = [disk EXCEPT ![Cur] = "empty"]
        /\ pc' = "write" /\ Cur' = Cur
        /\ UNCHANGED <<orig, crashes>>
    BY <1>4, <1>0 DEF Truncate, Cur
  <2>3. Cur \in Damaged => pending' = "empty"
    BY <2>1, <1>0 DEF CrashInv, DamageEmpty, Resolved
  <2>2. Cur \in Damaged <=> pending' \notin {orig[Cur], Resolved(orig[Cur])}
    <3>1. Cur \in Damaged <=> disk[Cur] \notin {orig[Cur], Resolved(orig[Cur])}
      BY <2>1 DEF Damaged
    <3>2. disk[Cur] \in {orig[Cur], Resolved(orig[Cur])}
            => pending' = Resolved(orig[Cur])
      BY <2>1, <1>0, ResolvedFacts
    <3>3. Cur \in Damaged => "empty" \notin {orig[Cur], Resolved(orig[Cur])}
      BY <3>1, <2>1 DEF CrashInv, DamageEmpty
    <3>4. QED
      BY <3>1, <3>2, <3>3, <2>3
  <2>4. Damaged' = Damaged
    BY <2>1, <2>2 DEF Damaged
  <2>5. QED
    BY <1>0, <1>1, <2>1, <2>3, <2>4 DEF CrashInv, DamageEmpty, DamageBounded
<1>5. CASE Write
  <2>0. pc = "write" /\ idx <= Len(Files)
    BY <1>5 DEF Write, CrashInv, IInv, WriteInv
  <2>1. /\ pc = "write" /\ Cur \in Paths
        /\ disk' = [disk EXCEPT ![Cur] = pending]
        /\ pc' = "loop"
        /\ UNCHANGED <<orig, pending, crashes>>
    BY <2>0, <1>5, <1>0 DEF Write, Cur
  <2>2. Damaged' = Damaged
    BY <2>1, <1>0 DEF Damaged
  <2>3. DamageEmpty'
    BY <2>1, <2>2 DEF CrashInv, DamageEmpty
  <2>4. QED
    BY <1>0, <1>1, <2>1, <2>2, <2>3 DEF CrashInv, DamageBounded
<1>6. CASE Crash
  <2>1. /\ pc = "write" /\ idx <= Len(Files) /\ Cur \in Paths
        /\ disk[Cur] = "empty"
        /\ pc' = "start" /\ crashes' = crashes + 1
        /\ UNCHANGED <<disk, orig>>
    BY <1>6, <1>0 DEF Crash, CrashInv, IInv, WriteInv, Cur
  <2>2. Damaged' \subseteq Damaged \cup {Cur}
    BY <2>1 DEF Damaged
  <2>3. DamageEmpty'
    BY <2>1, <2>2 DEF CrashInv, DamageEmpty
  <2>4. /\ IsFiniteSet(Damaged \cup {Cur})
        /\ Cardinality(Damaged \cup {Cur}) <= Cardinality(Damaged) + 1
    <3>1. IsFiniteSet(Damaged)
      BY <1>0
    <3>2. /\ IsFiniteSet(Damaged \cup {Cur})
          /\ Cardinality(Damaged \cup {Cur}) =
               IF Cur \in Damaged THEN Cardinality(Damaged) ELSE Cardinality(Damaged) + 1
      BY <3>1, FS_AddElement, Zenon
    <3>3. Cardinality(Damaged) \in Nat
      BY <3>1, FS_CardinalityType, Zenon
    <3>4. QED
      BY <3>2, <3>3
  <2>5. /\ IsFiniteSet(Damaged')
        /\ Cardinality(Damaged') <= Cardinality(Damaged \cup {Cur})
    <3>1. IsFiniteSet(Damaged \cup {Cur}) /\ Damaged' \in SUBSET (Damaged \cup {Cur})
      BY <2>2, <2>4
    <3>2. QED
      BY <3>1, FS_Subset, Zenon
  <2>6. Cardinality(Damaged') \in Nat /\ Cardinality(Damaged) \in Nat
    <3>1. IsFiniteSet(Damaged') /\ IsFiniteSet(Damaged)
      BY <1>0, <2>5
    <3>2. Cardinality(Damaged') \in Nat
      BY <3>1, FS_CardinalityType, Zenon
    <3>3. Cardinality(Damaged) \in Nat
      BY <3>1, FS_CardinalityType, Zenon
    <3>4. QED
      BY <3>2, <3>3
  <2>7. Cardinality(Damaged') <= crashes'
    <3>1. Cardinality(Damaged \cup {Cur}) \in Nat
      BY <2>4, FS_CardinalityType, Zenon
    <3>2. Cardinality(Damaged) <= crashes /\ crashes \in Nat
      BY <1>0
    <3>3. QED
      BY <3>1, <3>2, <2>1, <2>4, <2>5, <2>6
  <2>8. QED
    BY <1>1, <2>3, <2>5, <2>7 DEF CrashInv, DamageBounded
<1>8. CASE UNCHANGED vars
  <2>1. Damaged' = Damaged
    BY <1>8 DEF vars, Damaged, Cur
  <2>2. QED
    BY <1>2, <1>8, <2>1 DEF vars, Cur
<1>9. QED
  BY <1>3, <1>4, <1>5, <1>6, <1>8 DEF Next

(***************************************************************************)
(* What a run that dies mid-write costs, for all three scripts and any     *)
(* number of crashes: a file that holds neither its original text nor its  *)
(* resolution is empty, and there are at most as many such files as runs   *)
(* that died between open(filepath, 'w') and f.write.  A later run never  *)
(* writes anything else over a lost file: it reads the empty text and      *)
(* writes it back.                                                         *)
(***************************************************************************)
THEOREM CrashDamageBounded == Spec => [](DamageEmpty /\ DamageBounded)
<1>1. CrashInv => DamageEmpty /\ DamageBounded
  BY DEF CrashInv
<1>2. QED
  BY <1>1, CrashInit, CrashNext, PTL DEF Spec

=============================================================================
