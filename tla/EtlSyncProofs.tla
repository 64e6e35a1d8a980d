--------------------------- MODULE EtlSyncProofs ---------------------------
(* Theorems about EtlSync, for every length of the chain, every set of      *)
(* batch sizes and every number of runs.                                    *)
EXTENDS EtlSync, FiniteSetTheorems, TLAPS

(***************************************************************************)
(* The inductive invariant                                                 *)
(***************************************************************************)
\* A run begins at 0 until it has read its arguments.  Between batches nothing
\* is under way; a batch does not pass the target.
BatchInRange ==
    /\ pc = "connect" => current = 0
    /\ pc # "build" => upto = current
    /\ pc = "build" => upto <= target

\* A block requested by its number is the block built; 0 is the latest.
BuiltAsRequested == \A n \in DOMAIN built : n > 0 => built[n] = n

\* A run that has not failed.
Alive == pc \in {"sync", "build"} \/ (pc = "exit" /\ exitCode = 0)

\* It works from bn on towards the target that -t has given.
OnItsWay ==
    Alive => /\ current >= args.bn
             /\ args.tn > 0 => target = args.tn + 1

\* Exit code 0 is kept until the target is reached.
CodeIsTrue ==
    /\ pc # "exit" => exitCode = 0
    /\ pc = "exit" /\ exitCode = 0 => current >= target

IndInv == /\ TypeOK /\ BatchInRange /\ BuiltAsRequested
          /\ OnItsWay /\ CodeIsTrue /\ SavedUpToCurrent

(***************************************************************************)
(* Saving                                                                  *)
(***************************************************************************)
LEMMA Bounds ==
  ASSUME TypeOK
  PROVE  /\ args.bn \in Int /\ args.bn >= 0 /\ args.bn <= MaxBlock
         /\ args.workers \in Int /\ args.workers >= 1
         /\ args.tn \in Int /\ args.tn <= MaxBlock
         /\ MaxBlock \in Int /\ MaxBlock >= 0
         /\ target \in Int /\ target >= 0 /\ target <= MaxBlock + 1
         /\ current \in Int /\ current >= 0 /\ current <= MaxBlock + 1
         /\ upto \in Int /\ upto >= current /\ upto <= MaxBlock + 1
         /\ head \in Int /\ head >= 0 /\ head <= MaxBlock
<1>1. MaxBlock \in Nat
  BY BoundAssumption
<1>2. /\ args.bn \in 0..MaxBlock /\ args.workers \in Concurrency
      /\ args.tn \in 0..MaxBlock \cup {-1, -2}
  BY DEF TypeOK, Arguments, Numbers, NoTarget, ToLatest
<1>3. args.workers \in Int /\ args.workers >= 1
  <2>1. \A c \in Concurrency : c \in Int /\ c >= 1
    BY ConcurrencyAssumption
  <2>2. QED
    BY <1>2, <2>1
<1>4. target \in 0..MaxBlock + 1 /\ head \in 0..MaxBlock /\ current \in 0..MaxBlock + 1
  BY <1>1 DEF TypeOK, Numbers
<1>5. upto \in current..MaxBlock + 1
  BY DEF TypeOK
<1>6. QED
  BY <1>1, <1>2, <1>3, <1>4, <1>5

\* How many blocks of the batch are block n.
Copies(n) == {m \in DOMAIN built : built[m] = n}

LEMMA RowsReplacedIs ==
  RowsReplaced = [n \in Numbers |->
                    IF Cardinality(Copies(n)) = 0 THEN saved[n] ELSE Cardinality(Copies(n))]
  BY DEF RowsReplaced, Copies

LEMMA RowsReplacedType ==
  ASSUME TypeOK
  PROVE  RowsReplaced \in [Numbers -> Nat]
<1>1. ASSUME NEW n \in Numbers PROVE Cardinality(Copies(n)) \in Nat
  <2>1. Copies(n) \in SUBSET (current..(upto - 1)) /\ current \in Int /\ upto - 1 \in Int
    BY Bounds DEF Copies, TypeOK, Batch
  <2>2. IsFiniteSet(Copies(n))
    BY <2>1, FS_Interval, FS_Subset
  <2>3. QED
    BY <2>2, FS_CardinalityType
<1>2. QED
  BY <1>1, RowsReplacedIs DEF TypeOK

\* Saving a batch built as requested leaves one copy of each of its blocks, and
\* the others as they were.
LEMMA BatchSavedOnce ==
  ASSUME TypeOK, BuiltAsRequested, AllBuilt, current > 0, NEW n \in Numbers
  PROVE  RowsReplaced[n] = IF n \in Batch THEN 1 ELSE saved[n]
<1>1. \A m \in DOMAIN built : built[m] = m
  BY Bounds DEF AllBuilt, Batch, BuiltAsRequested
<1>2. Copies(n) = IF n \in Batch THEN {n} ELSE {}
  BY <1>1 DEF AllBuilt, Copies
<1>3. Cardinality(Copies(n)) = IF n \in Batch THEN 1 ELSE 0
  BY <1>2, FS_Singleton, FS_EmptySet
<1>4. QED
  BY <1>3, RowsReplacedIs

(***************************************************************************)
(* The steps                                                               *)
(***************************************************************************)
LEMMA NothingUnderWay ==
  ASSUME TypeOK, BatchInRange, pc # "build"
  PROVE  DOMAIN built = {}
<1>1. DOMAIN built \subseteq current..(upto - 1) /\ upto = current /\ current \in Int
  BY Bounds DEF TypeOK, Batch, BatchInRange
<1>2. current..(current - 1) = {}
  BY <1>1
<1>3. QED
  BY <1>1, <1>2

LEMMA BatchType ==
  ASSUME TypeOK, StartBatch
  PROVE  upto' \in current..MaxBlock + 1
<1>1. upto' = NextBatch /\ current < target
  BY DEF StartBatch
<1>2. NextBatch >= current /\ NextBatch <= target /\ NextBatch \in Int
  BY <1>1, Bounds DEF NextBatch
<1>3. QED
  BY <1>1, <1>2, Bounds

\* The target of any arguments is at most one above the chain.
LEMMA TargetType ==
  ASSUME TypeOK
  PROVE  TargetNumber(args) \in 0..MaxBlock + 1
<1>1. CASE args.tn = ToLatest
  BY <1>1, Bounds DEF TargetNumber
<1>2. CASE args.tn # ToLatest /\ args.tn > 0
  BY <1>2, Bounds DEF TargetNumber
<1>3. CASE args.tn # ToLatest /\ ~(args.tn > 0)
  BY <1>3, Bounds DEF TargetNumber
<1>4. QED
  BY <1>1, <1>2, <1>3

LEMMA TypeNext == TypeOK /\ BatchInRange /\ [Next]_vars => TypeOK'
<1> SUFFICES ASSUME TypeOK, BatchInRange, [Next]_vars PROVE TypeOK'
  OBVIOUS
<1>0. /\ args.bn \in Int /\ args.bn >= 0 /\ args.bn <= MaxBlock
      /\ args.workers \in Int /\ args.workers >= 1 /\ MaxBlock \in Int
      /\ target \in Int /\ target <= MaxBlock + 1
      /\ current \in Int /\ current >= 0
      /\ upto \in Int /\ upto >= current /\ upto <= MaxBlock + 1
  BY Bounds
<1> USE DEF TypeOK, BatchInRange, Batch, Numbers, NothingBuilt, NoTarget, ToLatest
<1>1. CASE HeadGrows
  BY <1>1, <1>0, BoundAssumption DEF HeadGrows
<1>2. CASE Start
  <2>1. target' \in 0..MaxBlock + 1
    BY <1>2, TargetType DEF Start
  <2>2. current' \in 0..MaxBlock /\ upto' = current' /\ built' = built
    BY <1>0, <1>2 DEF Start
  <2>3. DOMAIN built' = {}
    BY <1>2, <2>2, NothingUnderWay DEF Start
  <2>4. QED
    BY <1>0, <1>2, <2>1, <2>2, <2>3 DEF Start
<1>3. CASE ConnectFails
  BY <1>3, <1>0, BoundAssumption DEF ConnectFails, Fail
<1>4. CASE StartBatch
  <2>1. upto' \in current..MaxBlock + 1
    BY <1>4, BatchType
  <2>2. DOMAIN built = {}
    BY <1>4, NothingUnderWay DEF StartBatch
  <2>3. QED
    BY <1>0, <1>4, <2>1, <2>2 DEF StartBatch
<1>5. CASE Finish
  BY <1>5, <1>0, BoundAssumption DEF Finish
<1>6. ASSUME NEW n \in Numbers, BuildTask(n) PROVE TypeOK'
  BY <1>6, <1>0, BoundAssumption DEF BuildTask, GetBlock
<1>7. CASE Save
  <2>1. saved' \in [Numbers -> Nat]
    BY <1>7, RowsReplacedType DEF Save
  <2>2. current' \in 0..MaxBlock + 1 /\ upto' \in current'..MaxBlock + 1
    BY <1>7, <1>0 DEF Save
  <2>3. QED
    BY <1>0, <1>7, <2>1, <2>2 DEF Save
<1>8. CASE BatchFails
  BY <1>8, <1>0, RowsReplacedType, SMTT(30) DEF BatchFails, Fail
<1>9. CASE Killed
  BY <1>9, <1>0, BoundAssumption DEF Killed, Fail
<1>10. ASSUME NEW a \in Arguments, Rerun(a) PROVE TypeOK'
  BY <1>10, <1>0, BoundAssumption DEF Rerun
<1>11. CASE UNCHANGED vars
  BY <1>11 DEF vars
<1>12. QED
  BY <1>1, <1>2, <1>3, <1>4, <1>5, <1>6, <1>7, <1>8, <1>9, <1>10, <1>11 DEF Next, Sync

LEMMA RangeNext == TypeOK /\ BatchInRange /\ [Next]_vars => BatchInRange'
<1> SUFFICES ASSUME TypeOK, BatchInRange, [Next]_vars PROVE BatchInRange'
  OBVIOUS
<1> USE DEF BatchInRange
<1>1. CASE HeadGrows
  BY <1>1 DEF HeadGrows
<1>2. CASE Start
  BY <1>2 DEF Start, TargetNumber
<1>3. CASE ConnectFails
  BY <1>3 DEF ConnectFails, Fail
<1>4. CASE StartBatch
  BY <1>4, Bounds DEF StartBatch, NextBatch
<1>5. CASE Finish
  BY <1>5 DEF Finish
<1>6. ASSUME NEW n \in Numbers, BuildTask(n) PROVE BatchInRange'
  BY <1>6 DEF BuildTask, GetBlock
<1>7. CASE Save
  BY <1>7 DEF Save
<1>8. CASE BatchFails
  BY <1>8 DEF BatchFails, Fail
<1>9. CASE Killed
  BY <1>9 DEF Killed, Fail
<1>10. ASSUME NEW a \in Arguments, Rerun(a) PROVE BatchInRange'
  BY <1>10 DEF Rerun
<1>11. CASE UNCHANGED vars
  BY <1>11 DEF vars
<1>12. QED
  BY <1>1, <1>2, <1>3, <1>4, <1>5, <1>6, <1>7, <1>8, <1>9, <1>10, <1>11 DEF Next, Sync

LEMMA BuiltNext ==
  TypeOK /\ BatchInRange /\ BuiltAsRequested /\ [Next]_vars => BuiltAsRequested'
<1> SUFFICES ASSUME TypeOK, BatchInRange, BuiltAsRequested, [Next]_vars PROVE BuiltAsRequested'
  OBVIOUS
<1> USE DEF BuiltAsRequested, NothingBuilt
<1>1. CASE HeadGrows
  BY <1>1 DEF HeadGrows
<1>2. CASE Start
  BY <1>2 DEF Start, TargetNumber
<1>3. CASE ConnectFails
  BY <1>3 DEF ConnectFails, Fail
<1>4. CASE StartBatch
  BY <1>4 DEF StartBatch, NextBatch
<1>5. CASE Finish
  BY <1>5 DEF Finish
<1>6. ASSUME NEW n \in Numbers, BuildTask(n) PROVE BuiltAsRequested'
  BY <1>6 DEF BuildTask, GetBlock
<1>7. CASE Save
  BY <1>7 DEF Save
<1>8. CASE BatchFails
  BY <1>8 DEF BatchFails, Fail
<1>9. CASE Killed
  BY <1>9 DEF Killed, Fail
<1>10. ASSUME NEW a \in Arguments, Rerun(a) PROVE BuiltAsRequested'
  BY <1>10 DEF Rerun
<1>11. CASE UNCHANGED vars
  BY <1>11 DEF vars
<1>12. QED
  BY <1>1, <1>2, <1>3, <1>4, <1>5, <1>6, <1>7, <1>8, <1>9, <1>10, <1>11 DEF Next, Sync

LEMMA WayNext == TypeOK /\ BatchInRange /\ OnItsWay /\ CodeIsTrue /\ [Next]_vars => OnItsWay'
<1> SUFFICES ASSUME TypeOK, BatchInRange, OnItsWay, CodeIsTrue, [Next]_vars PROVE OnItsWay'
  OBVIOUS
<1> USE DEF OnItsWay, CodeIsTrue, BatchInRange, Alive
<1>1. CASE HeadGrows
  BY <1>1 DEF HeadGrows
<1>2. CASE Start
  BY <1>2, Bounds DEF Start, TargetNumber, ToLatest
<1>3. CASE ConnectFails
  BY <1>3 DEF ConnectFails, Fail
<1>4. CASE StartBatch
  BY <1>4 DEF StartBatch, NextBatch
<1>5. CASE Finish
  BY <1>5 DEF Finish
<1>6. ASSUME NEW n \in Numbers, BuildTask(n) PROVE OnItsWay'
  BY <1>6 DEF BuildTask, GetBlock
<1>7. CASE Save
  BY <1>7, Bounds DEF Save
<1>8. CASE BatchFails
  BY <1>8 DEF BatchFails, Fail
<1>9. CASE Killed
  BY <1>9 DEF Killed, Fail
<1>10. ASSUME NEW a \in Arguments, Rerun(a) PROVE OnItsWay'
  BY <1>10 DEF Rerun
<1>11. CASE UNCHANGED vars
  BY <1>11 DEF vars
<1>12. QED
  BY <1>1, <1>2, <1>3, <1>4, <1>5, <1>6, <1>7, <1>8, <1>9, <1>10, <1>11 DEF Next, Sync

LEMMA CodeNext == TypeOK /\ CodeIsTrue /\ [Next]_vars => CodeIsTrue'
<1> SUFFICES ASSUME TypeOK, CodeIsTrue, [Next]_vars PROVE CodeIsTrue'
  OBVIOUS
<1> USE DEF CodeIsTrue
<1>1. CASE HeadGrows
  BY <1>1 DEF HeadGrows
<1>2. CASE Start
  BY <1>2 DEF Start, TargetNumber
<1>3. CASE ConnectFails
  BY <1>3 DEF ConnectFails, Fail
<1>4. CASE StartBatch
  BY <1>4 DEF StartBatch, NextBatch
<1>5. CASE Finish
  BY <1>5 DEF Finish
<1>6. ASSUME NEW n \in Numbers, BuildTask(n) PROVE CodeIsTrue'
  BY <1>6 DEF BuildTask, GetBlock
<1>7. CASE Save
  BY <1>7 DEF Save
<1>8. CASE BatchFails
  BY <1>8 DEF BatchFails, Fail
<1>9. CASE Killed
  BY <1>9 DEF Killed, Fail
<1>10. ASSUME NEW a \in Arguments, Rerun(a) PROVE CodeIsTrue'
  BY <1>10 DEF Rerun
<1>11. CASE UNCHANGED vars
  BY <1>11 DEF vars
<1>12. QED
  BY <1>1, <1>2, <1>3, <1>4, <1>5, <1>6, <1>7, <1>8, <1>9, <1>10, <1>11 DEF Next, Sync

LEMMA SavedNext ==
  TypeOK /\ BatchInRange /\ BuiltAsRequested /\ OnItsWay /\ SavedUpToCurrent /\ [Next]_vars => SavedUpToCurrent'
<1> SUFFICES ASSUME TypeOK, BatchInRange, BuiltAsRequested, OnItsWay, SavedUpToCurrent, [Next]_vars PROVE SavedUpToCurrent'
  OBVIOUS
<1> USE DEF SavedUpToCurrent, Running
<1>1. CASE HeadGrows
  BY <1>1 DEF HeadGrows
<1>2. CASE Start
  BY <1>2, Bounds DEF Start, TargetNumber
<1>3. CASE ConnectFails
  BY <1>3, Bounds DEF ConnectFails, Fail, BatchInRange
<1>4. CASE StartBatch
  BY <1>4 DEF StartBatch, NextBatch
<1>5. CASE Finish
  BY <1>5 DEF Finish
<1>6. ASSUME NEW n \in Numbers, BuildTask(n) PROVE SavedUpToCurrent'
  BY <1>6 DEF BuildTask, GetBlock
<1>7. CASE Save
  <2> SUFFICES ASSUME args.bn > 0, NEW n \in args.bn..upto - 1 PROVE saved'[n] = 1
    BY <1>7 DEF Save
  <2>1. /\ current >= args.bn /\ current > 0 /\ n \in Numbers
        /\ n \in Batch \/ n \in args.bn..current - 1
    BY <1>7, Bounds DEF Save, OnItsWay, Alive, Batch, Numbers
  <2>2. saved'[n] = IF n \in Batch THEN 1 ELSE saved[n]
    BY <1>7, <2>1, BatchSavedOnce DEF Save
  <2>3. QED
    BY <1>7, <2>1, <2>2 DEF Save
<1>8. CASE BatchFails
  <2> SUFFICES ASSUME args.bn > 0, NEW n \in args.bn..current - 1 PROVE saved'[n] = 1
    BY <1>8 DEF BatchFails, Fail
  <2>1. saved[n] = 1 /\ current > 0 /\ n \in Numbers /\ n \notin Batch
    BY <1>8, Bounds DEF BatchFails, OnItsWay, Alive, Batch, Numbers
  <2>2. CASE saved' = saved
    BY <2>1, <2>2
  <2>3. CASE AllBuilt /\ saved' = RowsReplaced
    BY <2>1, <2>3, BatchSavedOnce
  <2>4. QED
    BY <1>8, <2>2, <2>3 DEF BatchFails
<1>9. CASE Killed
  <2>1. saved' = saved /\ current' = current /\ args' = args
    BY <1>9 DEF Killed, Fail
  <2>2. CASE pc = "connect"
    BY <2>1, <2>2, Bounds DEF BatchInRange
  <2>3. CASE pc # "connect"
    <3>1. pc \in {"sync", "build", "exit"}
      BY <2>3 DEF TypeOK
    <3>2. QED
      BY <2>1, <3>1
  <2>4. QED
    BY <2>2, <2>3
<1>10. ASSUME NEW a \in Arguments, Rerun(a) PROVE SavedUpToCurrent'
  BY <1>10 DEF Rerun
<1>11. CASE UNCHANGED vars
  BY <1>11 DEF vars
<1>12. QED
  BY <1>1, <1>2, <1>3, <1>4, <1>5, <1>6, <1>7, <1>8, <1>9, <1>10, <1>11 DEF Next, Sync

(***************************************************************************)
(* The invariant, and what follows from it                                 *)
(***************************************************************************)
LEMMA IndInvInit == Init => IndInv
  BY BoundAssumption DEF Init, IndInv, TypeOK, Numbers, NothingBuilt, Batch, BatchInRange,
     BuiltAsRequested, OnItsWay, Alive, CodeIsTrue, SavedUpToCurrent, Running

LEMMA IndInvNext == IndInv /\ [Next]_vars => IndInv'
  BY TypeNext, RangeNext, BuiltNext, WayNext, CodeNext, SavedNext DEF IndInv

LEMMA IndInvInvariant == Spec => []IndInv
  BY IndInvInit, IndInvNext, PTL DEF Spec

\* Whatever arguments, failures and re-runs, a batch stays in the range and the
\* target on the chain.
THEOREM TypesInvariant == Spec => []TypeOK
<1>1. IndInv => TypeOK
  BY DEF IndInv
<1>2. QED
  BY <1>1, IndInvInvariant, PTL

\* A run that begins above 0 has saved each of its blocks up to current once.
THEOREM SavedInvariant == Spec => []SavedUpToCurrent
<1>1. IndInv => SavedUpToCurrent
  BY DEF IndInv
<1>2. QED
  BY <1>1, IndInvInvariant, PTL

\* Exit code 0 means that the whole range is saved once, the target of -t
\* included.
THEOREM SuccessInvariant == Spec => []SuccessIsComplete
<1>1. IndInv => SuccessIsComplete
  <2> SUFFICES ASSUME IndInv, pc = "exit", exitCode = 0, args.bn > 0
               PROVE  /\ \A n \in args.bn..target - 1 : saved[n] = 1
                      /\ args.tn > 0 => \A n \in args.bn..args.tn : saved[n] = 1
    BY DEF SuccessIsComplete
  <2>1. /\ current >= target
        /\ args.tn > 0 => target = args.tn + 1
        /\ \A n \in args.bn..current - 1 : saved[n] = 1
    BY DEF IndInv, CodeIsTrue, OnItsWay, Alive, SavedUpToCurrent, Running
  <2>2. /\ args.bn \in Int /\ args.tn \in Int /\ target \in Int /\ current \in Int
    BY Bounds DEF IndInv
  <2>3. \A n \in args.bn..target - 1 : saved[n] = 1
    BY <2>1, <2>2
  <2>4. QED
    BY <2>1, <2>2, <2>3
<1>2. QED
  BY <1>1, IndInvInvariant, PTL

\* A run that begins above 0 changes only what its batch replaces, and leaves
\* one copy of it.
THEOREM BatchOnly == Spec => OnlyItsBatch
<1> DEFINE Own == \A n \in Numbers : saved'[n] # saved[n] /\ args.bn > 0 =>
                     n \in Batch /\ n < target /\ saved'[n] = 1
<1>1. IndInv /\ [Next]_vars => [Own]_vars
  <2> SUFFICES ASSUME IndInv, [Next]_vars,
                      NEW n \in Numbers, saved'[n] # saved[n], args.bn > 0
               PROVE  n \in Batch /\ n < target /\ saved'[n] = 1
    OBVIOUS
  <2>1. pc = "build" /\ AllBuilt /\ saved' = RowsReplaced
    BY DEF Next, Sync, HeadGrows, Start, ConnectFails, StartBatch, Finish, BuildTask, Save,
           BatchFails, Killed, Fail, Rerun, vars
  <2>2. /\ current >= args.bn /\ args.bn \in Int /\ current \in Int /\ upto \in Int
        /\ target \in Int /\ upto <= target
    BY <2>1, Bounds DEF IndInv, OnItsWay, Alive, BatchInRange
  <2>3. saved'[n] = IF n \in Batch THEN 1 ELSE saved[n]
    BY <2>1, <2>2, BatchSavedOnce DEF IndInv
  <2>4. QED
    BY <2>2, <2>3 DEF Batch
<1>2. Spec => [][Own]_vars
  BY <1>1, IndInvInvariant, PTL DEF Spec
<1>3. QED
  BY <1>2 DEF OnlyItsBatch
=============================================================================
