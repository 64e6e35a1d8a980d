------------------------------ MODULE EtlSync ------------------------------
(***************************************************************************)
(* One export_all process (etl/src/export_all.ts): main reads the block    *)
(* range from its arguments, sync works it off batch by batch, fetching    *)
(* the blocks of a batch at the same time (Promise.all) and saving them in *)
(* one transaction.  A failure ends the process with exit code 1; someone  *)
(* may start it again, with any arguments, on the same database.           *)
(*                                                                         *)
(* The transaction, taken apart in BlockStore, is one step here: processes *)
(* that run at the same time are not this module's subject.                *)
(***************************************************************************)
EXTENDS Integers, FiniteSets

CONSTANTS
    MaxBlock,     \* bound: the highest block of the chain
    Concurrency,  \* values of -w, the size of a batch
    MaxRuns       \* bound: runs of the program

ASSUME ConcurrencyAssumption == Concurrency \subseteq Nat \ {0}
ASSUME BoundAssumption == MaxBlock \in Nat /\ MaxRuns \in Nat \ {0}

Numbers == 0..MaxBlock
NoTarget == -1     \* neither -t nor -l
ToLatest == -2     \* -l

\* The arguments -b, -t or -l, and -w.
Arguments == [bn : Numbers, tn : Numbers \cup {NoTarget, ToLatest}, workers : Concurrency]

VARIABLES
    head,      \* the node's best block
    args,      \* the arguments of the run
    pc,        \* "connect", "sync", "build", "exit"
    target,    \* targetBlockNumber: the run ends before this block
    current,   \* currentBlockNumber: the next block to save
    upto,      \* the batch under way ends before this block
    built,     \* number requested -> number of the block built, of the batch
    exitCode,
    saved,     \* block -> how many copies of its rows the database holds
    latest,    \* auxiliary: the head when main read its arguments
    runs       \* runs so far

vars == <<head, args, pc, target, current, upto, built, exitCode, saved, latest, runs>>

Batch == current..(upto - 1)

TypeOK ==
    /\ head \in Numbers /\ latest \in Numbers
    /\ args \in Arguments
    /\ pc \in {"connect", "sync", "build", "exit"}
    /\ target \in 0..MaxBlock + 1 /\ current \in Numbers \cup {MaxBlock + 1}
    /\ upto \in current..MaxBlock + 1
    /\ DOMAIN built \subseteq Batch
    /\ \A n \in DOMAIN built : built[n] \in Numbers
    /\ exitCode \in {0, 1}
    /\ saved \in [Numbers -> Nat]
    /\ runs \in 1..MaxRuns

NothingBuilt == [n \in {} |-> n]

Init ==
    /\ head \in Numbers
    /\ args \in Arguments
    /\ pc = "connect" /\ exitCode = 0
    /\ target = 0 /\ current = 0 /\ upto = 0
    /\ built = NothingBuilt
    /\ saved = [n \in Numbers |-> 0]
    /\ latest = head
    /\ runs = 1

HeadGrows ==
    /\ head < MaxBlock
    /\ head' = head + 1
    /\ UNCHANGED <<args, pc, target, current, upto, built, exitCode, saved, latest, runs>>
-----------------------------------------------------------------------------
(* main                                                                    *)

\* tn ? tn + 1 : bn + 1, so -t 0 counts as none; -l overrides both, and ends
\* before the latest block.
TargetNumber(a) ==
    IF a.tn = ToLatest THEN head
    ELSE IF a.tn > 0 THEN a.tn + 1
    ELSE a.bn + 1

Start ==
    /\ pc = "connect"
    /\ target' = TargetNumber(args)
    /\ current' = args.bn /\ upto' = args.bn
    /\ latest' = head
    /\ pc' = "sync"
    /\ UNCHANGED <<head, args, built, exitCode, saved, runs>>

\* Exit with code 1, from the catch of main or of sync.
Fail ==
    /\ pc' = "exit" /\ exitCode' = 1
    /\ upto' = current /\ built' = NothingBuilt
    /\ UNCHANGED <<head, args, target, current, latest, runs>>

\* The node or its latest block cannot be reached.
ConnectFails ==
    /\ pc = "connect"
    /\ Fail
    /\ UNCHANGED saved
-----------------------------------------------------------------------------
(* sync                                                                    *)

\* Mutant: a batch is as long as there are workers, whatever is left.
FullBatch == current + args.workers

\* The end of the next batch: at most -w blocks, never past the target.
NextBatch == IF target - current > args.workers THEN current + args.workers ELSE target

StartBatch ==
    /\ pc = "sync" /\ current < target
    /\ upto' = NextBatch
    /\ pc' = "build"
    /\ UNCHANGED <<head, args, target, current, built, exitCode, saved, latest, runs>>

Finish ==
    /\ pc = "sync" /\ current >= target
    /\ pc' = "exit"
    /\ UNCHANGED <<head, args, target, current, upto, built, exitCode, saved, latest, runs>>

\* api.getBlock(n): n ? getBlockHash(n) : getBlockHash(), so 0 is the latest block.
GetBlock(n) == IF n = 0 THEN head ELSE n

\* One more buildTask of the batch is fulfilled, in any order.  The node has no
\* block above its head.
BuildTask(n) ==
    /\ pc = "build" /\ n \in Batch \ DOMAIN built
    /\ n <= head
    /\ built' = [m \in DOMAIN built \cup {n} |-> IF m = n THEN GetBlock(n) ELSE built[m]]
    /\ UNCHANGED <<head, args, pc, target, current, upto, exitCode, saved, latest, runs>>

AllBuilt == DOMAIN built = Batch

\* Mutant: the rows of the blocks are not deleted first.
AddedToRows == [n \in Numbers |-> saved[n] + Cardinality({m \in DOMAIN built : built[m] = n})]

\* The rows of every block built are deleted, then those built are inserted.
RowsReplaced ==
    LET copies(n) == Cardinality({m \in DOMAIN built : built[m] = n})
    IN  [n \in Numbers |-> IF copies(n) = 0 THEN saved[n] ELSE copies(n)]

Save ==
    /\ pc = "build" /\ AllBuilt
    /\ saved' = RowsReplaced
    /\ current' = upto
    /\ built' = NothingBuilt
    /\ pc' = "sync"
    /\ UNCHANGED <<head, args, target, upto, exitCode, latest, runs>>

\* Mutants: the error is logged and the batch is tried again, or passed over,
\* or the run ends as if it had succeeded.
BatchRetried ==
    /\ pc = "build"
    /\ pc' = "sync"
    /\ upto' = current /\ built' = NothingBuilt
    /\ UNCHANGED <<head, args, target, current, exitCode, saved, latest, runs>>

BatchSkipped ==
    /\ pc = "build"
    /\ pc' = "sync"
    /\ current' = upto /\ built' = NothingBuilt
    /\ UNCHANGED <<head, args, target, upto, exitCode, saved, latest, runs>>

BatchFailsQuietly ==
    /\ pc = "build"
    /\ pc' = "exit"
    /\ upto' = current /\ built' = NothingBuilt
    /\ UNCHANGED <<head, args, target, current, exitCode, saved, latest, runs>>

\* One buildTask is rejected, or saving fails; the commit may have got through
\* although its answer did not.
BatchFails ==
    /\ pc = "build"
    /\ saved' \in {saved} \cup (IF AllBuilt THEN {RowsReplaced} ELSE {})
    /\ Fail
-----------------------------------------------------------------------------
\* The process is killed: the exit is not a clean one.
Killed ==
    /\ pc # "exit"
    /\ Fail
    /\ UNCHANGED saved

\* The program is run again; exitCode is per process, the database is not.
Rerun(a) ==
    /\ pc = "exit" /\ runs < MaxRuns
    /\ runs' = runs + 1
    /\ args' = a
    /\ pc' = "connect" /\ exitCode' = 0
    /\ target' = 0 /\ current' = 0 /\ upto' = 0
    /\ latest' = head
    /\ UNCHANGED <<head, built, saved>>

Sync ==
    \/ Start \/ ConnectFails
    \/ StartBatch \/ Finish
    \/ \E n \in Numbers : BuildTask(n)
    \/ Save \/ BatchFails

Next ==
    \/ HeadGrows
    \/ Sync
    \/ Killed
    \/ \E a \in Arguments : Rerun(a)

Spec == Init /\ [][Next]_vars

\* Every request to the node or the database is answered or refused.
FairSpec == Spec /\ WF_vars(Sync)
-----------------------------------------------------------------------------
(* Properties.  0 names the latest block, so runs from 0 are set apart.    *)

Running == pc \in {"sync", "build", "exit"} /\ args.bn > 0

\* Whatever failed, in this run or before, the run has saved its blocks up to
\* current without a hole and without a second copy.
SavedUpToCurrent == Running => \A n \in args.bn..current - 1 : saved[n] = 1

\* Exit code 0, which the orchestrator takes for success, means that the whole
\* range has been saved once: with -t that includes the target.
SuccessIsComplete ==
    pc = "exit" /\ exitCode = 0 /\ args.bn > 0 =>
        /\ \A n \in args.bn..target - 1 : saved[n] = 1
        /\ args.tn > 0 => \A n \in args.bn..args.tn : saved[n] = 1

\* A run touches the rows of its own range only, one batch at a time, and never
\* removes a block without saving it.
OnlyItsBatch ==
    [][\A n \in Numbers : saved'[n] # saved[n] /\ args.bn > 0 =>
          n \in Batch /\ n < target /\ saved'[n] = 1]_vars

\* Every run ends: sync does not retry, and each batch moves it on.
RunEnds == pc # "exit" ~> pc = "exit"

\* etl/README.md: "-l Set target_block to be lateset block."
LatestIsExported ==
    pc = "exit" /\ exitCode = 0 /\ args.tn = ToLatest /\ args.bn > 0 =>
        \A n \in args.bn..latest : saved[n] > 0
=============================================================================
