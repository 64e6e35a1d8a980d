------------------------- MODULE OrchestratorProofs -------------------------
(* Theorems about Orchestrator, for every number of workers, tasks, blocks *)
(* and clients and every bound.                                            *)
EXTENDS Orchestrator, TLAPS

USE DEF StateReady, StateStarted, StateFailed, StateSuccessful

LEMMA FreshPCType == /\ FreshPC \in [Procs -> StarterPC \cup RunnerPC]
                     /\ FreshPC[Starter] = "check"
                     /\ \A r \in Runners : FreshPC[r] \in {"recv", "closed"}
                     /\ \A w \in Workers : FreshPC[w] = "recv"
  BY WorkerAssumption DEF FreshPC, Procs, Runners, StarterPC, RunnerPC

(***************************************************************************)
(* What the updates of the collection do to the other documents and to the *)
(* other fields.  The later proofs use these three relations instead of    *)
(* the records.                                                            *)
(***************************************************************************)
\* r is q with the state of task t set to s.
Restated(q, r, t, s) ==
  /\ r \in Queue /\ Present(r) = Present(q)
  /\ \A u \in Present(q) : /\ r[u].block = q[u].block
                           /\ r[u].by = q[u].by
                           /\ r[u].order = q[u].order
                           /\ r[u].state = IF u = t THEN s ELSE q[u].state

\* r is q with task t in state s on behalf of order o.
Armed(q, r, t, s, o) ==
  /\ r \in Queue /\ Present(r) = Present(q)
  /\ \A u \in Present(q) : /\ r[u].block = q[u].block
                           /\ r[u].by = q[u].by
                           /\ r[u].order = IF u = t THEN o ELSE q[u].order
                           /\ r[u].state = IF u = t THEN s ELSE q[u].state

\* r is q and a new document t of block b by client c, in state s on behalf of o.
Inserted(q, r, t, b, s, o, c) ==
  /\ r \in Queue /\ t \notin Present(q) /\ Present(r) = Present(q) \cup {t}
  /\ \A u \in Present(q) : /\ r[u].block = q[u].block
                           /\ r[u].by = q[u].by
                           /\ r[u].order = q[u].order
                           /\ r[u].state = q[u].state
  /\ r[t].block = b /\ r[t].by = c /\ r[t].order = o /\ r[t].state = s

LEMMA MarkRestates ==
  ASSUME NEW q \in Queue, NEW t \in Present(q)
  PROVE  /\ Restated(q, MarkAsStarted(q, t), t, StateStarted)
         /\ Restated(q, MarkAsFailed(q, t), t, StateFailed)
         /\ Restated(q, MarkAsSuccessful(q, t), t, StateSuccessful)
  <1> USE NoneIsNoTask
  <1>1. t \in Oids /\ q[t] \in Task
    BY DEF Present, Queue
  <1>2. ASSUME NEW s \in States, NEW r, r = [q EXCEPT ![t].state = s]
        PROVE  Restated(q, r, t, s)
    <2>1. r \in Queue
      BY <1>1, <1>2 DEF Queue, Task
    <2>2. \A u \in Oids \ {t} : r[u] = q[u]
      BY <1>2 DEF Queue
    <2>3. /\ r[t] # None /\ r[t].state = s /\ r[t].block = q[t].block
          /\ r[t].by = q[t].by /\ r[t].order = q[t].order
      BY <1>1, <1>2 DEF Queue, Task
    <2> QED
      BY <1>1, <2>1, <2>2, <2>3 DEF Restated, Present
  <1> QED
    BY <1>2 DEF States, MarkAsStarted, MarkAsFailed, MarkAsSuccessful

LEMMA UpsertArms ==
  ASSUME NEW q \in Queue, NEW t \in Present(q), NEW s \in States, NEW o \in Nat
  PROVE  Armed(q, UpsertExisting(q, t, s, o), t, s, o)
  <1> USE NoneIsNoTask
  <1> DEFINE r == UpsertExisting(q, t, s, o)
  <1>1. t \in Oids /\ q[t] \in Task
    BY DEF Present, Queue
  <1>2. r \in Queue
    BY <1>1 DEF Queue, Task, UpsertExisting
  <1>3. \A u \in Oids \ {t} : r[u] = q[u]
    BY DEF Queue, UpsertExisting
  <1>4. /\ r[t] # None /\ r[t].state = s /\ r[t].block = q[t].block
        /\ r[t].by = q[t].by /\ r[t].order = o
    BY <1>1 DEF Queue, Task, UpsertExisting
  <1> QED
    BY <1>1, <1>2, <1>3, <1>4 DEF Armed, Present

LEMMA UpsertInserts ==
  ASSUME NEW q \in Queue, NEW t \in Free(q), NEW p \in Priorities, NEW b \in Blocks,
         NEW s \in States, NEW o \in Nat, NEW c \in Clients
  PROVE  Inserted(q, UpsertNew(q, t, NewBkTask(p, b, s, o, c)), t, b, s, o, c)
  <1> USE NoneIsNoTask
  <1> DEFINE d == NewBkTask(p, b, s, o, c)
             r == UpsertNew(q, t, d)
  <1>1. t \in Oids /\ t \notin Present(q)
    BY DEF Free
  <1>2. d \in Task /\ d.block = b /\ d.by = c /\ d.order = o /\ d.state = s /\ d # None
    BY DEF Task, NewBkTask
  <1> HIDE DEF d
  <1>3. r \in Queue /\ r[t] = d /\ \A u \in Oids \ {t} : r[u] = q[u]
    BY <1>1, <1>2 DEF Queue, UpsertNew
  <1> HIDE DEF r
  <1>4. Inserted(q, r, t, b, s, o, c)
    BY <1>1, <1>2, <1>3 DEF Inserted, Present
  <1> QED
    BY <1>4 DEF r, d
-----------------------------------------------------------------------------
(* Type correctness.  The updates of a document are typed only because a   *)
(* goroutine that writes an outcome holds a claim on an existing document. *)

USE WorkerAssumption, ClientAssumption, RtPriorityAssumption,
    RealTimeAssumption, BoundAssumption, NoneIsNoRecord

LEMMA InitTypeOK == Init => TypeOK
  BY FreshPCType DEF Init, TypeOK, Queue, EmptyQueue, NoClaims, Runners, StarterPC, RunnerPC

LEMMA FoundIsPresent ==
  ASSUME NEW b \in Blocks
  PROVE  FindByBlockNumber(queue, b) \subseteq Present(queue)
  BY DEF FindByBlockNumber

LEMMA FirstIsReady ==
  ASSUME NEW t \in FirstReady(queue)
  PROVE  t \in Present(queue) /\ queue[t].state = StateReady
  BY DEF FirstReady, FindReady

\* The outcome written by a runner restates the task it holds.
LEMMA OutcomeRestates ==
  ASSUME TypeOK, PcClaim, ClaimsOnTasks, NEW r \in Runners, pc[r] \in {"succeeded", "failed"}
  PROVE  /\ r \in Holders
         /\ claim[r].task \in Present(queue)
         /\ Restated(queue, Outcome(r), claim[r].task,
                IF pc[r] = "succeeded" THEN StateSuccessful ELSE StateFailed)
  <1>1. r \in Holders
    BY DEF PcClaim, Working
  <1>2. claim[r].task \in Present(queue)
    BY <1>1 DEF ClaimsOnTasks
  <1>3. queue \in Queue
    BY DEF TypeOK
  <1> QED
    BY <1>1, <1>2, <1>3, MarkRestates DEF Outcome

\* An insert by client c, which is pending, adds a document.
LEMMA InsertInserts ==
  ASSUME TypeOK, NEW c \in Clients, pending[c] # None, NEW t \in Oids, NEW s \in States,
         InsertPending(c, t, s)
  PROVE  /\ Inserted(queue, queue', t, pending[c].block, s, orders + 1, c)
         /\ pending' = [pending EXCEPT ![c] = None]
         /\ orders' = orders + 1 /\ lost' = lost /\ cut' = cut
  <1>1. pending[c].priority \in Priorities /\ pending[c].block \in Blocks
    BY DEF TypeOK, Request
  <1>2. queue \in Queue /\ orders + 1 \in Nat /\ t \in Free(queue)
    BY DEF TypeOK, InsertPending
  <1> QED
    BY <1>1, <1>2, UpsertInserts DEF InsertPending, PlaceOrder

LEMMA HeldOrders ==
  ASSUME TypeOK, NEW P
  PROVE  HeldBy(P) \subseteq Nat
  BY DEF HeldBy, Holders, TypeOK, Claim, Procs

\* An upsert of the extractor whose reply is lost arms a task all the same.
LEMMA LostUpsert ==
  ASSUME TypeOK, RtUpsertLost
  PROVE  \/ /\ \E t \in Present(queue) : Armed(queue, queue', t, StateStarted, orders + 1)
            /\ pending' = pending
         \/ /\ pending[RT] # None
            /\ \E t \in Oids :
                 Inserted(queue, queue', t, pending[RT].block, StateStarted, orders + 1, RT)
            /\ pending' = [pending EXCEPT ![RT] = None]
  <1>1. queue \in Queue /\ orders + 1 \in Nat /\ StateStarted \in States /\ RT \in Clients
    BY DEF TypeOK, States
  <1>2. CASE UNCHANGED pending /\ \E t \in Present(queue) :
                queue' = UpsertExisting(queue, t, StateStarted, orders + 1)
    BY <1>1, <1>2, UpsertArms
  <1>3. CASE /\ pending[RT] # None
             /\ \E t \in Free(queue) : queue' = UpsertNew(queue, t,
                   NewBkTask(1, pending[RT].block, StateStarted, orders + 1, RT))
             /\ pending' = [pending EXCEPT ![RT] = None]
    <2>1. pending[RT].block \in Blocks
      BY <1>1, <1>3 DEF TypeOK, Request
    <2> QED
      BY <1>1, <1>3, <2>1, UpsertInserts DEF Free
  <1> QED
    BY <1>2, <1>3 DEF RtUpsertLost

LEMMA TypeStep ==
  ASSUME TypeOK, PcClaim, ClaimsOnTasks, [Next]_vars
  PROVE  TypeOK'
  <1>1. ASSUME NEW c \in Generators, NEW b \in Blocks, TaskgenUpdate(c, b) PROVE TypeOK'
    <2>1. PICK t \in FindByBlockNumber(queue, b) :
             queue' = UpsertExisting(queue, t, StateReady, orders + 1)
      BY <1>1 DEF TaskgenUpdate
    <2>2. queue' \in Queue
      BY <2>1, FoundIsPresent, UpsertArms DEF Armed, States, TypeOK
    <2>3. orders' \in Nat /\ UNCHANGED <<stored, pending, proc, lost, cut, faults, starts>>
      BY <1>1 DEF TaskgenUpdate, PlaceOrder, TypeOK
    <2> QED
      BY <2>2, <2>3 DEF TypeOK, proc
  <1>2. ASSUME NEW c \in Generators, NEW b \in Blocks, NEW p \in Priorities, TaskgenLookup(c, b, p) PROVE TypeOK'
    BY <1>2 DEF TaskgenLookup, Request, TypeOK, Procs, Runners, StarterPC, RunnerPC, proc, aux
  <1>3. ASSUME NEW c \in Generators, TaskgenInsert(c) PROVE TypeOK'
    <2>1. PICK t \in Oids : InsertPending(c, t, StateReady)
      BY <1>3 DEF TaskgenInsert
    <2>2. Inserted(queue, queue', t, pending[c].block, StateReady, orders + 1, c)
          /\ pending' = [pending EXCEPT ![c] = None]
          /\ orders' = orders + 1 /\ lost' = lost /\ cut' = cut
      BY <1>3, <2>1, InsertInserts DEF TaskgenInsert, States
    <2>3. queue' \in Queue
      BY <2>2 DEF Inserted
    <2> QED
      BY <1>3, <2>2, <2>3 DEF TaskgenInsert, TypeOK, Procs, Runners, StarterPC, RunnerPC, proc, aux
  <1>4. ASSUME StarterCheck PROVE TypeOK'
    BY <1>4 DEF StarterCheck, TypeOK, Procs, Runners, StarterPC, RunnerPC, proc, aux
  <1>5. ASSUME StarterClaim PROVE TypeOK'
    BY <1>5, FirstIsReady, MarkRestates DEF StarterClaim, Restated, Present, Claim, Queue, Task, TypeOK, Procs, Runners, StarterPC, RunnerPC, proc, aux
  <1>6. ASSUME StarterIdle PROVE TypeOK'
    BY <1>6 DEF StarterIdle, TypeOK, Procs, Runners, StarterPC, RunnerPC, proc, aux
  <1>7. ASSUME StarterClaimLost PROVE TypeOK'
    <2>1. PICK t \in FirstReady(queue) : /\ queue' = MarkAsStarted(queue, t)
                                       /\ lost' = lost \cup {queue[t].order}
      BY <1>7 DEF StarterClaimLost
    <2>2. queue' \in Queue /\ queue[t].order \in Nat
      BY <2>1, FirstIsReady, MarkRestates DEF Restated, TypeOK, Present, Queue, Task
    <2>3. /\ pc' \in [Procs -> StarterPC \cup RunnerPC]
          /\ pc'[Starter] \in StarterPC /\ \A r \in Runners : pc'[r] \in RunnerPC
      BY <1>7, WorkerAssumption DEF StarterClaimLost, TypeOK, Procs, Runners, StarterPC
    <2>4. lost \cup {queue[t].order} \in SUBSET Nat
      BY <2>2 DEF TypeOK
    <2>5. lost' \in SUBSET Nat
      BY <2>1, <2>4
    <2>6. /\ faults' \in Nat
          /\ UNCHANGED <<stored, pending, claim, fwd, main, shutdown, feed, orders, cut, starts>>
      BY <1>7 DEF StarterClaimLost, TypeOK
    <2> QED
      BY <2>2, <2>3, <2>5, <2>6 DEF TypeOK
  <1>8. ASSUME NEW w \in Workers, Handoff(w) PROVE TypeOK'
    BY <1>8 DEF Handoff, PcClaim, Holders, Claim, TypeOK, Procs, Runners, StarterPC, RunnerPC, proc, aux
  <1>9. ASSUME NEW w \in Workers, WorkerClose(w) PROVE TypeOK'
    BY <1>9 DEF WorkerClose, TypeOK, Procs, Runners, StarterPC, RunnerPC, proc, aux
  <1>10. ASSUME NEW r \in Runners, Extracted(r) PROVE TypeOK'
    BY <1>10 DEF Extracted, PcClaim, Working, Holders, Claim, TypeOK, Procs, Runners, StarterPC, RunnerPC, proc, aux
  <1>11. ASSUME NEW r \in Runners, ExtractFailed(r) PROVE TypeOK'
    BY <1>11 DEF ExtractFailed, PcClaim, Working, Holders, Claim, TypeOK, Procs, Runners, StarterPC, RunnerPC, proc, aux
  <1>12. ASSUME NEW r \in Runners, Mark(r) PROVE TypeOK'
    BY <1>12, OutcomeRestates DEF Mark, Restated, Holders, Claim, TypeOK, Procs, Runners, StarterPC, RunnerPC, proc, aux
  <1>13. ASSUME NEW r \in Runners, MarkError(r) PROVE TypeOK'
    <2>1. r \in Holders /\ Outcome(r) \in Queue
      BY <1>13, OutcomeRestates DEF MarkError, Restated
    <2>2. queue' \in Queue /\ lost' \in SUBSET Nat
      BY <1>13, <2>1 DEF MarkError, Holders, Claim, TypeOK, Procs
    <2> QED
      BY <1>13, <2>2 DEF MarkError, TypeOK, Procs, Runners, StarterPC, RunnerPC, proc, aux
  <1>14. ASSUME NEW w \in Workers, Forward(w) PROVE TypeOK'
    BY <1>14 DEF Forward, TypeOK, Procs, Runners, StarterPC, RunnerPC, proc, aux
  <1>15. ASSUME NEW w \in Workers, Summarise(w) PROVE TypeOK'
    BY <1>15 DEF Summarise, TypeOK, Procs, Runners, StarterPC, RunnerPC, proc, aux
  <1>16. ASSUME NEW w \in Workers, ForwardClose(w) PROVE TypeOK'
    BY <1>16 DEF ForwardClose, TypeOK, Procs, Runners, StarterPC, RunnerPC, proc, aux
  <1>17. ASSUME NEW b \in Blocks, RtUpdate(b) PROVE TypeOK'
    <2>1. PICK t \in FindByBlockNumber(queue, b) :
             queue' = UpsertExisting(queue, t, StateStarted, orders + 1) /\ RtTakes(t)
      BY <1>17 DEF RtUpdate
    <2>2. t \in Oids /\ queue' \in Queue
      BY <2>1, FoundIsPresent, UpsertArms DEF Armed, States, TypeOK, Present
    <2> QED
      BY <1>17, <2>1, <2>2 DEF RtUpdate, RtTakes, PlaceOrder, Claim, TypeOK, Procs, Runners, StarterPC, RunnerPC, proc, aux
  <1>18. ASSUME NEW b \in Blocks, RtLookup(b) PROVE TypeOK'
    BY <1>18 DEF RtLookup, Request, TypeOK, Procs, Runners, StarterPC, RunnerPC, proc, aux
  <1>19. ASSUME RtInsert PROVE TypeOK'
    <2>1. PICK t \in Oids : InsertPending(RT, t, StateStarted) /\ RtTakes(t)
      BY <1>19 DEF RtInsert
    <2>2. Inserted(queue, queue', t, pending[RT].block, StateStarted, orders + 1, RT)
          /\ pending' = [pending EXCEPT ![RT] = None]
          /\ orders' = orders + 1 /\ lost' = lost /\ cut' = cut
      BY <1>19, <2>1, InsertInserts DEF RtInsert, States
    <2>3. queue' \in Queue
      BY <2>2 DEF Inserted
    <2> QED
      BY <1>19, <2>1, <2>2, <2>3 DEF RtInsert, RtTakes, Claim, TypeOK, Procs, Runners, StarterPC, RunnerPC, proc, aux
  <1>20. ASSUME RtUpsertLost PROVE TypeOK'
    <2>1. queue' \in Queue
      BY <1>20, LostUpsert DEF Armed, Inserted
    <2>2. pending' \in [Clients -> Request \cup {None}]
      BY <1>20 DEF RtUpsertLost, TypeOK
    <2> QED
      BY <1>20, <2>1, <2>2 DEF RtUpsertLost, TypeOK, Procs, Runners, StarterPC, RunnerPC, proc, aux
  <1>21. ASSUME RtClose PROVE TypeOK'
    BY <1>21 DEF RtClose, TypeOK, Procs, Runners, StarterPC, RunnerPC, proc, aux
  <1>22. ASSUME FeedClose PROVE TypeOK'
    BY <1>22 DEF FeedClose, TypeOK, Procs, Runners, StarterPC, RunnerPC, proc, aux
  <1>23. ASSUME Interrupt PROVE TypeOK'
    BY <1>23 DEF Interrupt, TypeOK, Procs, Runners, StarterPC, RunnerPC, proc, aux
  <1>24. ASSUME SoftShutdownOver PROVE TypeOK'
    BY <1>24 DEF SoftShutdownOver, TypeOK, Procs, Runners, StarterPC, RunnerPC, proc, aux
  <1>25. ASSUME RealTimeDone PROVE TypeOK'
    BY <1>25 DEF RealTimeDone, TypeOK, Procs, Runners, StarterPC, RunnerPC, proc, aux
  <1>26. ASSUME Exit PROVE TypeOK'
    <2>1. cut' \in SUBSET Nat
      BY <1>26, HeldOrders DEF Exit, TypeOK
    <2> QED
      BY <1>26, <2>1 DEF Exit, ProcessGone, TypeOK, Procs, Runners, StarterPC, RunnerPC, proc, aux
  <1>27. ASSUME Crash PROVE TypeOK'
    <2>1. lost' \in SUBSET Nat
      BY <1>27, HeldOrders DEF Crash, TypeOK
    <2>2. claim' \in [Procs -> Claim \cup {None}]
      BY <1>27 DEF Crash, NoClaims
    <2>3. /\ pc' \in [Procs -> StarterPC \cup RunnerPC]
          /\ pc'[Starter] \in StarterPC /\ \A r \in Runners : pc'[r] \in RunnerPC
      BY <1>27 DEF Crash, ProcessGone, Procs, Runners, StarterPC, RunnerPC
    <2>4. /\ pending' \in [Clients -> Request \cup {None}]
          /\ fwd' \in [Workers -> {"recv", "send", "closed"}]
          /\ shutdown' = "done" /\ feed' = FALSE
      BY <1>27 DEF Crash, ProcessGone, TypeOK
    <2>5. /\ main' = "crashed" /\ faults' \in Nat
          /\ UNCHANGED <<queue, stored, orders, cut, starts>>
      BY <1>27 DEF Crash, TypeOK
    <2> QED
      BY <2>1, <2>2, <2>3, <2>4, <2>5 DEF TypeOK
  <1>28. ASSUME Restart PROVE TypeOK'
    BY <1>28, FreshPCType DEF Restart, NoClaims, TypeOK, Procs, Runners, StarterPC, RunnerPC, proc, aux
  <1>29. CASE UNCHANGED vars
    BY <1>29 DEF TypeOK, vars, Procs, Runners, StarterPC, RunnerPC, proc, aux
  <1>30. ASSUME CallRefused PROVE TypeOK'
    BY <1>30 DEF CallRefused, TypeOK, Procs, Runners, StarterPC, RunnerPC, proc, aux
  <1> QED
    BY <1>1, <1>2, <1>3, <1>4, <1>5, <1>6, <1>7, <1>8, <1>9, <1>10, <1>11, <1>12, <1>13, <1>14, <1>15, <1>16, <1>17, <1>18, <1>19, <1>20, <1>21, <1>22, <1>23, <1>24, <1>25, <1>26, <1>27, <1>28, <1>29, <1>30
    DEF Next, Taskgen, StarterStep, RunTask, WorkerStep, MergeStep, RtReceive, RtStep, Shutdown, Fault, Runners

-----------------------------------------------------------------------------
(* Where the goroutines stand and what they hold.                          *)

LEMMA ClaimIsSome ==
  ASSUME NEW t \in Oids, NEW o \in Nat, NEW s \in Nat
  PROVE  [task |-> t, order |-> o, since |-> s] # None
  BY DEF Claim

LEMMA ReadyTyped ==
  ASSUME TypeOK, NEW t \in FirstReady(queue)
  PROVE  t \in Oids /\ queue[t].order \in Nat
  BY FirstIsReady DEF TypeOK, Present, Queue, Task

LEMMA PcClaimStep ==
  ASSUME TypeOK, PcClaim, Drain, [Next]_vars
  PROVE  PcClaim'
  <1>1. ASSUME NEW c \in Generators, NEW b \in Blocks, TaskgenUpdate(c, b) PROVE PcClaim'
    BY <1>1 DEF TaskgenUpdate, TypeOK, PcClaim, Holders, Working, Procs, Runners, StarterPC, RunnerPC, proc, aux
  <1>2. ASSUME NEW c \in Generators, NEW b \in Blocks, NEW p \in Priorities, TaskgenLookup(c, b, p) PROVE PcClaim'
    BY <1>2 DEF TaskgenLookup, TypeOK, PcClaim, Holders, Working, Procs, Runners, StarterPC, RunnerPC, proc, aux
  <1>3. ASSUME NEW c \in Generators, TaskgenInsert(c) PROVE PcClaim'
    BY <1>3 DEF TaskgenInsert, InsertPending, TypeOK, PcClaim, Holders, Working, Procs, Runners, StarterPC, RunnerPC, proc, aux
  <1>4. ASSUME StarterCheck PROVE PcClaim'
    BY <1>4 DEF StarterCheck, TypeOK, PcClaim, Holders, Working, Procs, Runners, StarterPC, RunnerPC, proc, aux
  <1>5. ASSUME StarterClaim PROVE PcClaim'
    <2>1. PICK t \in FirstReady(queue) : claim' = [claim EXCEPT ![Starter] =
                          [task |-> t, order |-> queue[t].order, since |-> 0]]
      BY <1>5 DEF StarterClaim
    <2>2. claim'[Starter] # None /\ \A r \in Runners : claim'[r] = claim[r]
      BY <2>1, ReadyTyped, ClaimIsSome DEF TypeOK, Procs, Runners
    <2> QED
      BY <1>5, <2>2 DEF StarterClaim, TypeOK, PcClaim, Holders, Working, Procs, Runners, StarterPC, RunnerPC, proc, aux
  <1>6. ASSUME StarterIdle PROVE PcClaim'
    BY <1>6 DEF StarterIdle, TypeOK, PcClaim, Holders, Working, Procs, Runners, StarterPC, RunnerPC, proc, aux
  <1>7. ASSUME StarterClaimLost PROVE PcClaim'
    BY <1>7 DEF StarterClaimLost, TypeOK, PcClaim, Holders, Working, Procs, Runners, StarterPC, RunnerPC, proc, aux
  <1>8. ASSUME NEW w \in Workers, Handoff(w) PROVE PcClaim'
    BY <1>8, NoneIsNoRecord DEF Handoff, Claim, TypeOK, PcClaim, Holders, Working, Procs, Runners, StarterPC, RunnerPC, proc, aux
  <1>9. ASSUME NEW w \in Workers, WorkerClose(w) PROVE PcClaim'
    BY <1>9 DEF WorkerClose, TypeOK, PcClaim, Holders, Working, Procs, Runners, StarterPC, RunnerPC, proc, aux
  <1>10. ASSUME NEW r \in Runners, Extracted(r) PROVE PcClaim'
    BY <1>10 DEF Extracted, TypeOK, PcClaim, Holders, Working, Procs, Runners, StarterPC, RunnerPC, proc, aux
  <1>11. ASSUME NEW r \in Runners, ExtractFailed(r) PROVE PcClaim'
    BY <1>11 DEF ExtractFailed, TypeOK, PcClaim, Holders, Working, Procs, Runners, StarterPC, RunnerPC, proc, aux
  <1>12. ASSUME NEW r \in Runners, Mark(r) PROVE PcClaim'
    BY <1>12 DEF Mark, TypeOK, PcClaim, Holders, Working, Procs, Runners, StarterPC, RunnerPC, proc, aux
  <1>13. ASSUME NEW r \in Runners, MarkError(r) PROVE PcClaim'
    BY <1>13 DEF MarkError, TypeOK, PcClaim, Holders, Working, Procs, Runners, StarterPC, RunnerPC, proc, aux
  <1>14. ASSUME NEW w \in Workers, Forward(w) PROVE PcClaim'
    BY <1>14 DEF Forward, TypeOK, PcClaim, Holders, Working, Procs, Runners, StarterPC, RunnerPC, proc, aux
  <1>15. ASSUME NEW w \in Workers, Summarise(w) PROVE PcClaim'
    BY <1>15 DEF Summarise, TypeOK, PcClaim, Holders, Working, Procs, Runners, StarterPC, RunnerPC, proc, aux
  <1>16. ASSUME NEW w \in Workers, ForwardClose(w) PROVE PcClaim'
    BY <1>16 DEF ForwardClose, TypeOK, PcClaim, Holders, Working, Procs, Runners, StarterPC, RunnerPC, proc, aux
  <1>17. ASSUME NEW b \in Blocks, RtUpdate(b) PROVE PcClaim'
    <2>1. PICK t \in Present(queue) : RtTakes(t)
      BY <1>17, FoundIsPresent DEF RtUpdate
    <2>2. claim'[RT] # None /\ \A p \in Procs \ {RT} : claim'[p] = claim[p]
      BY <2>1, ClaimIsSome DEF RtTakes, TypeOK, Procs, Runners, Present
    <2> QED
      BY <1>17, <2>1, <2>2 DEF RtUpdate, RtTakes, TypeOK, PcClaim, Holders, Working, Procs, Runners, StarterPC, RunnerPC, proc, aux
  <1>18. ASSUME NEW b \in Blocks, RtLookup(b) PROVE PcClaim'
    BY <1>18 DEF RtLookup, TypeOK, PcClaim, Holders, Working, Procs, Runners, StarterPC, RunnerPC, proc, aux
  <1>19. ASSUME RtInsert PROVE PcClaim'
    BY <1>19, NoneIsNoRecord DEF RtInsert, InsertPending, RtTakes, Claim, TypeOK, PcClaim, Holders, Working, Procs, Runners, StarterPC, RunnerPC, proc, aux
  <1>20. ASSUME RtUpsertLost PROVE PcClaim'
    BY <1>20 DEF RtUpsertLost, TypeOK, PcClaim, Holders, Working, Procs, Runners, StarterPC, RunnerPC, proc, aux
  <1>21. ASSUME RtClose PROVE PcClaim'
    BY <1>21 DEF RtClose, TypeOK, PcClaim, Holders, Working, Procs, Runners, StarterPC, RunnerPC, proc, aux
  <1>22. ASSUME FeedClose PROVE PcClaim'
    BY <1>22 DEF FeedClose, TypeOK, PcClaim, Holders, Working, Procs, Runners, StarterPC, RunnerPC, proc, aux
  <1>23. ASSUME Interrupt PROVE PcClaim'
    BY <1>23 DEF Interrupt, TypeOK, PcClaim, Holders, Working, Procs, Runners, StarterPC, RunnerPC, proc, aux
  <1>24. ASSUME SoftShutdownOver PROVE PcClaim'
    BY <1>24 DEF SoftShutdownOver, TypeOK, PcClaim, Holders, Working, Procs, Runners, StarterPC, RunnerPC, proc, aux
  <1>25. ASSUME RealTimeDone PROVE PcClaim'
    BY <1>25 DEF RealTimeDone, TypeOK, PcClaim, Holders, Working, Procs, Runners, StarterPC, RunnerPC, proc, aux
  <1>26. ASSUME Exit PROVE PcClaim'
    <2>1. \A p \in Procs \ {RT} : pc[p] = "closed"
      BY <1>26 DEF Exit, MergedClosed, Drain, Procs, Runners
    <2>2. \A p \in Procs : claim'[p] = None /\ pc'[p] = "down"
      BY <1>26, <2>1 DEF Exit, ProcessGone, TypeOK, PcClaim, Holders, Working, Procs, Runners, StarterPC, RunnerPC, proc, aux
    <2> QED
      BY <1>26, <2>2 DEF Exit, ProcessGone, TypeOK, PcClaim, Holders, Working, Procs, Runners, StarterPC, RunnerPC, proc, aux
  <1>27. ASSUME Crash PROVE PcClaim'
    BY <1>27 DEF Crash, ProcessGone, NoClaims, TypeOK, PcClaim, Holders, Working, Procs, Runners, StarterPC, RunnerPC, proc, aux
  <1>28. ASSUME Restart PROVE PcClaim'
    <2>1. pending[RT] = None
      BY <1>28 DEF Restart, Drain, PcClaim, Procs, Runners
    <2>2. \A p \in Procs : claim'[p] = None
      BY <1>28 DEF Restart, NoClaims
    <2> QED
      BY <1>28, <2>1, <2>2, FreshPCType DEF Restart, TypeOK, PcClaim, Holders, Working, Procs, Runners, StarterPC, RunnerPC, proc, aux
  <1>29. CASE UNCHANGED vars
    BY <1>29 DEF vars, TypeOK, PcClaim, Holders, Working, Procs, Runners, StarterPC, RunnerPC, proc, aux
  <1>30. ASSUME CallRefused PROVE PcClaim'
    BY <1>30 DEF CallRefused, TypeOK, PcClaim, Holders, Working, Procs, Runners, StarterPC, RunnerPC, proc, aux
  <1> QED
    BY <1>1, <1>2, <1>3, <1>4, <1>5, <1>6, <1>7, <1>8, <1>9, <1>10, <1>11, <1>12, <1>13, <1>14, <1>15, <1>16, <1>17, <1>18, <1>19, <1>20, <1>21, <1>22, <1>23, <1>24, <1>25, <1>26, <1>27, <1>28, <1>29, <1>30
    DEF Next, Taskgen, StarterStep, RunTask, WorkerStep, MergeStep, RtReceive, RtStep, Shutdown, Fault, Runners

LEMMA DrainStep ==
  ASSUME TypeOK, PcClaim, Drain, [Next]_vars
  PROVE  Drain'
  <1>1. ASSUME NEW c \in Generators, NEW b \in Blocks, TaskgenUpdate(c, b) PROVE Drain'
    BY <1>1 DEF TaskgenUpdate, PlaceOrder, TypeOK, PcClaim, Drain, Procs, Runners, proc, aux
  <1>2. ASSUME NEW c \in Generators, NEW b \in Blocks, NEW p \in Priorities, TaskgenLookup(c, b, p) PROVE Drain'
    BY <1>2 DEF TaskgenLookup, TypeOK, PcClaim, Drain, Procs, Runners, proc, aux
  <1>3. ASSUME NEW c \in Generators, TaskgenInsert(c) PROVE Drain'
    BY <1>3 DEF TaskgenInsert, InsertPending, PlaceOrder, TypeOK, PcClaim, Drain, Procs, Runners, proc, aux
  <1>4. ASSUME StarterCheck PROVE Drain'
    BY <1>4 DEF StarterCheck, TypeOK, PcClaim, Drain, Procs, Runners, proc, aux
  <1>5. ASSUME StarterClaim PROVE Drain'
    BY <1>5 DEF StarterClaim, TypeOK, PcClaim, Drain, Procs, Runners, proc, aux
  <1>6. ASSUME StarterIdle PROVE Drain'
    BY <1>6 DEF StarterIdle, TypeOK, PcClaim, Drain, Procs, Runners, proc, aux
  <1>7. ASSUME StarterClaimLost PROVE Drain'
    BY <1>7 DEF StarterClaimLost, TypeOK, PcClaim, Drain, Procs, Runners, proc, aux
  <1>8. ASSUME NEW w \in Workers, Handoff(w) PROVE Drain'
    BY <1>8 DEF Handoff, TypeOK, PcClaim, Drain, Procs, Runners, proc, aux
  <1>9. ASSUME NEW w \in Workers, WorkerClose(w) PROVE Drain'
    BY <1>9 DEF WorkerClose, TypeOK, PcClaim, Drain, Procs, Runners, proc, aux
  <1>10. ASSUME NEW r \in Runners, Extracted(r) PROVE Drain'
    BY <1>10 DEF Extracted, TypeOK, PcClaim, Drain, Procs, Runners, proc, aux
  <1>11. ASSUME NEW r \in Runners, ExtractFailed(r) PROVE Drain'
    BY <1>11 DEF ExtractFailed, TypeOK, PcClaim, Drain, Procs, Runners, proc, aux
  <1>12. ASSUME NEW r \in Runners, Mark(r) PROVE Drain'
    BY <1>12 DEF Mark, TypeOK, PcClaim, Drain, Procs, Runners, proc, aux
  <1>13. ASSUME NEW r \in Runners, MarkError(r) PROVE Drain'
    BY <1>13 DEF MarkError, TypeOK, PcClaim, Drain, Procs, Runners, proc, aux
  <1>14. ASSUME NEW w \in Workers, Forward(w) PROVE Drain'
    BY <1>14 DEF Forward, TypeOK, PcClaim, Drain, Procs, Runners, proc, aux
  <1>15. ASSUME NEW w \in Workers, Summarise(w) PROVE Drain'
    BY <1>15 DEF Summarise, TypeOK, PcClaim, Drain, Procs, Runners, proc, aux
  <1>16. ASSUME NEW w \in Workers, ForwardClose(w) PROVE Drain'
    BY <1>16 DEF ForwardClose, TypeOK, PcClaim, Drain, Procs, Runners, proc, aux
  <1>17. ASSUME NEW b \in Blocks, RtUpdate(b) PROVE Drain'
    BY <1>17 DEF RtUpdate, RtTakes, TypeOK, PcClaim, Drain, Procs, Runners, proc, aux
  <1>18. ASSUME NEW b \in Blocks, RtLookup(b) PROVE Drain'
    BY <1>18 DEF RtLookup, TypeOK, PcClaim, Drain, Procs, Runners, proc, aux
  <1>19. ASSUME RtInsert PROVE Drain'
    BY <1>19 DEF RtInsert, RtTakes, TypeOK, PcClaim, Drain, Procs, Runners, proc, aux
  <1>20. ASSUME RtUpsertLost PROVE Drain'
    BY <1>20 DEF RtUpsertLost, TypeOK, PcClaim, Drain, Procs, Runners, proc, aux
  <1>21. ASSUME RtClose PROVE Drain'
    BY <1>21 DEF RtClose, TypeOK, PcClaim, Drain, Procs, Runners, proc, aux
  <1>22. ASSUME FeedClose PROVE Drain'
    BY <1>22 DEF FeedClose, TypeOK, PcClaim, Drain, Procs, Runners, proc, aux
  <1>23. ASSUME Interrupt PROVE Drain'
    BY <1>23 DEF Interrupt, TypeOK, PcClaim, Drain, Procs, Runners, proc, aux
  <1>24. ASSUME SoftShutdownOver PROVE Drain'
    BY <1>24 DEF SoftShutdownOver, TypeOK, PcClaim, Drain, Procs, Runners, proc, aux
  <1>25. ASSUME RealTimeDone PROVE Drain'
    BY <1>25 DEF RealTimeDone, TypeOK, PcClaim, Drain, Procs, Runners, proc, aux
  <1>26. ASSUME Exit PROVE Drain'
    BY <1>26 DEF Exit, ProcessGone, TypeOK, PcClaim, Drain, Procs, Runners, proc, aux
  <1>27. ASSUME Crash PROVE Drain'
    BY <1>27 DEF Crash, ProcessGone, TypeOK, PcClaim, Drain, Procs, Runners, proc, aux
  <1>28. ASSUME Restart PROVE Drain'
    BY <1>28, FreshPCType DEF Restart, TypeOK, PcClaim, Drain, Procs, Runners, proc, aux
  <1>29. CASE UNCHANGED vars
    BY <1>29 DEF vars, TypeOK, PcClaim, Drain, Procs, Runners, proc, aux
  <1>30. ASSUME CallRefused PROVE Drain'
    BY <1>30 DEF CallRefused, TypeOK, PcClaim, Drain, Procs, Runners, proc, aux
  <1> QED
    BY <1>1, <1>2, <1>3, <1>4, <1>5, <1>6, <1>7, <1>8, <1>9, <1>10, <1>11, <1>12, <1>13, <1>14, <1>15, <1>16, <1>17, <1>18, <1>19, <1>20, <1>21, <1>22, <1>23, <1>24, <1>25, <1>26, <1>27, <1>28, <1>29, <1>30
    DEF Next, Taskgen, StarterStep, RunTask, WorkerStep, MergeStep, RtReceive, RtStep, Shutdown, Fault, Runners

-----------------------------------------------------------------------------
(***************************************************************************)
(* What a step does to tasks, claims and orders.  Every step of Next is    *)
(* one of the following, whatever else it changes; the invariants about    *)
(* orders are proved kind by kind.                                         *)
(***************************************************************************)
LeavesTasks == UNCHANGED <<queue, claim, orders, lost, cut>>

\* A task, found or new, is put in state s for the next order.
Arms(t, s) ==
  /\ orders' = orders + 1 /\ cut' = cut
  /\ \/ t \in Present(queue) /\ Armed(queue, queue', t, s, orders + 1)
     \/ \E b \in Blocks, c \in Clients : Inserted(queue, queue', t, b, s, orders + 1, c)

ArmsReady(t) == Arms(t, StateReady) /\ UNCHANGED <<claim, lost>>
ArmsLost(t)  == Arms(t, StateStarted) /\ lost' = lost \cup {orders + 1} /\ UNCHANGED claim
ArmsHeld(t)  ==
  /\ Arms(t, StateStarted) /\ UNCHANGED lost
  /\ claim[RT] = None
  /\ claim' = [claim EXCEPT ![RT] = [task |-> t, order |-> orders + 1, since |-> orders + 1]]

Claims(t) ==
  /\ t \in Present(queue) /\ queue[t].state = StateReady
  /\ Restated(queue, queue', t, StateStarted)
  /\ claim[Starter] = None
  /\ claim' = [claim EXCEPT ![Starter] = [task |-> t, order |-> queue[t].order, since |-> 0]]
  /\ UNCHANGED <<orders, lost, cut>>

ClaimsLost(t) ==
  /\ t \in Present(queue) /\ queue[t].state = StateReady
  /\ Restated(queue, queue', t, StateStarted)
  /\ lost' = lost \cup {queue[t].order}
  /\ UNCHANGED <<claim, orders, cut>>

HandsOver(w) ==
  /\ claim[Starter] # None /\ claim[w] = None
  /\ claim' = [claim EXCEPT ![Starter] = None, ![w] = [claim[Starter] EXCEPT !.since = orders]]
  /\ UNCHANGED <<queue, orders, lost, cut>>

Settles(p) ==
  /\ p \in Holders
  /\ \E s \in Terminal : Restated(queue, queue', claim[p].task, s)
  /\ claim' = [claim EXCEPT ![p] = None]
  /\ UNCHANGED <<orders, lost, cut>>

Drops(p) ==
  /\ p \in Holders
  /\ claim' = [claim EXCEPT ![p] = None]
  /\ lost' = lost \cup {claim[p].order}
  /\ UNCHANGED <<queue, orders, cut>>

DropsAll ==
  /\ claim' = NoClaims
  /\ HeldBy(Procs) \subseteq lost' \cup cut'
  /\ lost \subseteq lost' /\ cut \subseteq cut'
  /\ UNCHANGED <<queue, orders>>

TaskStep ==
  \/ LeavesTasks
  \/ \E t \in Oids : ArmsReady(t) \/ ArmsLost(t) \/ ArmsHeld(t) \/ Claims(t) \/ ClaimsLost(t)
  \/ \E w \in Workers : HandsOver(w)
  \/ \E r \in Runners : Settles(r) \/ Drops(r)
  \/ DropsAll

LEMMA NoneHeld ==
  ASSUME TypeOK, Holders = {}
  PROVE  claim = NoClaims
  BY DEF TypeOK, Holders, NoClaims

LEMMA StepsAreTaskSteps ==
  ASSUME TypeOK, PcClaim, ClaimsOnTasks, Drain, [Next]_vars
  PROVE  TaskStep
  <1>1. ASSUME NEW c \in Generators, NEW b \in Blocks, TaskgenUpdate(c, b) PROVE TaskStep
    <2>1. PICK t \in FindByBlockNumber(queue, b) :
             queue' = UpsertExisting(queue, t, StateReady, orders + 1)
      BY <1>1 DEF TaskgenUpdate
    <2>2. t \in Present(queue) /\ t \in Oids /\ Armed(queue, queue', t, StateReady, orders + 1)
      BY <2>1, FoundIsPresent, UpsertArms DEF TypeOK, States, Present
    <2>3. ArmsReady(t)
      BY <1>1, <2>2 DEF TaskgenUpdate, PlaceOrder, proc, ArmsReady, Arms
    <2> QED
      BY <2>2, <2>3 DEF TaskStep
  <1>2. ASSUME NEW c \in Generators, NEW b \in Blocks, NEW p \in Priorities, TaskgenLookup(c, b, p) PROVE TaskStep
    BY <1>2 DEF TaskgenLookup, aux, proc, LeavesTasks, TaskStep
  <1>3. ASSUME NEW c \in Generators, TaskgenInsert(c) PROVE TaskStep
    <2>1. PICK t \in Oids : InsertPending(c, t, StateReady)
      BY <1>3 DEF TaskgenInsert
    <2>2. /\ Inserted(queue, queue', t, pending[c].block, StateReady, orders + 1, c)
          /\ orders' = orders + 1 /\ lost' = lost /\ cut' = cut
          /\ pending[c].block \in Blocks /\ c \in Clients
      BY <1>3, <2>1, InsertInserts DEF TaskgenInsert, States, TypeOK, Request
    <2>3. ArmsReady(t)
      BY <1>3, <2>2 DEF TaskgenInsert, proc, ArmsReady, Arms
    <2> QED
      BY <2>3 DEF TaskStep
  <1>4. ASSUME StarterCheck PROVE TaskStep
    BY <1>4 DEF StarterCheck, aux, LeavesTasks, TaskStep
  <1>5. ASSUME StarterClaim PROVE TaskStep
    <2>1. PICK t \in FirstReady(queue) :
             /\ queue' = MarkAsStarted(queue, t)
             /\ claim' = [claim EXCEPT ![Starter] =
                             [task |-> t, order |-> queue[t].order, since |-> 0]]
      BY <1>5 DEF StarterClaim
    <2>2. t \in Oids /\ t \in Present(queue) /\ queue[t].state = StateReady
      BY FirstIsReady, ReadyTyped
    <2>3. Restated(queue, queue', t, StateStarted)
      BY <2>1, <2>2, MarkRestates DEF TypeOK
    <2>4. claim[Starter] = None
      BY <1>5 DEF StarterClaim, PcClaim, Holders, Procs
    <2>5. Claims(t)
      BY <1>5, <2>1, <2>2, <2>3, <2>4 DEF StarterClaim, aux, Claims
    <2> QED
      BY <2>2, <2>5 DEF TaskStep
  <1>6. ASSUME StarterIdle PROVE TaskStep
    BY <1>6 DEF StarterIdle, aux, LeavesTasks, TaskStep
  <1>7. ASSUME StarterClaimLost PROVE TaskStep
    <2>1. PICK t \in FirstReady(queue) : /\ queue' = MarkAsStarted(queue, t)
                                       /\ lost' = lost \cup {queue[t].order}
      BY <1>7 DEF StarterClaimLost
    <2>2. t \in Oids /\ t \in Present(queue) /\ queue[t].state = StateReady
      BY FirstIsReady, ReadyTyped
    <2>3. Restated(queue, queue', t, StateStarted)
      BY <2>1, <2>2, MarkRestates DEF TypeOK
    <2>4. ClaimsLost(t)
      BY <1>7, <2>1, <2>2, <2>3 DEF StarterClaimLost, ClaimsLost
    <2> QED
      BY <2>2, <2>4 DEF TaskStep
  <1>8. ASSUME NEW w \in Workers, Handoff(w) PROVE TaskStep
    <2>1. claim[Starter] # None /\ claim[w] = None
      BY <1>8 DEF Handoff, PcClaim, Working, Holders, Procs, Runners
    <2>2. HandsOver(w)
      BY <1>8, <2>1 DEF Handoff, aux, HandsOver
    <2> QED
      BY <2>2 DEF TaskStep
  <1>9. ASSUME NEW w \in Workers, WorkerClose(w) PROVE TaskStep
    BY <1>9 DEF WorkerClose, aux, LeavesTasks, TaskStep
  <1>10. ASSUME NEW r \in Runners, Extracted(r) PROVE TaskStep
    BY <1>10 DEF Extracted, aux, LeavesTasks, TaskStep
  <1>11. ASSUME NEW r \in Runners, ExtractFailed(r) PROVE TaskStep
    BY <1>11 DEF ExtractFailed, aux, LeavesTasks, TaskStep
  <1>12. ASSUME NEW r \in Runners, Mark(r) PROVE TaskStep
    <2>1. r \in Holders /\ \E s \in Terminal : Restated(queue, queue', claim[r].task, s)
      BY <1>12, OutcomeRestates DEF Mark, Terminal
    <2>2. Settles(r)
      BY <1>12, <2>1 DEF Mark, aux, Settles
    <2> QED
      BY <2>2 DEF TaskStep
  <1>13. ASSUME NEW r \in Runners, MarkError(r) PROVE TaskStep
    <2>1. r \in Holders
      BY <1>13, OutcomeRestates DEF MarkError
    <2>2. CASE queue' = Outcome(r) /\ UNCHANGED lost
      <3>1. \E s \in Terminal : Restated(queue, queue', claim[r].task, s)
        BY <1>13, <2>2, OutcomeRestates DEF MarkError, Terminal
      <3>2. Settles(r)
        BY <1>13, <2>1, <2>2, <3>1 DEF MarkError, Settles
      <3> QED
        BY <3>2 DEF TaskStep
    <2>3. CASE lost' = lost \cup {claim[r].order} /\ UNCHANGED queue
      <3>1. Drops(r)
        BY <1>13, <2>1, <2>3 DEF MarkError, Drops
      <3> QED
        BY <3>1 DEF TaskStep
    <2> QED
      BY <1>13, <2>2, <2>3 DEF MarkError
  <1>14. ASSUME NEW w \in Workers, Forward(w) PROVE TaskStep
    BY <1>14 DEF Forward, aux, LeavesTasks, TaskStep
  <1>15. ASSUME NEW w \in Workers, Summarise(w) PROVE TaskStep
    BY <1>15 DEF Summarise, aux, LeavesTasks, TaskStep
  <1>16. ASSUME NEW w \in Workers, ForwardClose(w) PROVE TaskStep
    BY <1>16 DEF ForwardClose, aux, LeavesTasks, TaskStep
  <1>17. ASSUME NEW b \in Blocks, RtUpdate(b) PROVE TaskStep
    <2>1. PICK t \in FindByBlockNumber(queue, b) :
             queue' = UpsertExisting(queue, t, StateStarted, orders + 1) /\ RtTakes(t)
      BY <1>17 DEF RtUpdate
    <2>2. t \in Present(queue) /\ t \in Oids /\ Armed(queue, queue', t, StateStarted, orders + 1)
      BY <2>1, FoundIsPresent, UpsertArms DEF TypeOK, States, Present
    <2>3. claim[RT] = None
      BY <1>17 DEF RtUpdate, PcClaim, Working, Holders, Procs, Runners
    <2>4. ArmsHeld(t)
      BY <1>17, <2>1, <2>2, <2>3 DEF RtUpdate, RtTakes, PlaceOrder, ArmsHeld, Arms
    <2> QED
      BY <2>2, <2>4 DEF TaskStep
  <1>18. ASSUME NEW b \in Blocks, RtLookup(b) PROVE TaskStep
    BY <1>18 DEF RtLookup, aux, proc, LeavesTasks, TaskStep
  <1>19. ASSUME RtInsert PROVE TaskStep
    <2>1. PICK t \in Oids : InsertPending(RT, t, StateStarted) /\ RtTakes(t)
      BY <1>19 DEF RtInsert
    <2>2. /\ Inserted(queue, queue', t, pending[RT].block, StateStarted, orders + 1, RT)
          /\ orders' = orders + 1 /\ lost' = lost /\ cut' = cut
          /\ pending[RT].block \in Blocks /\ RT \in Clients
      BY <1>19, <2>1, InsertInserts DEF RtInsert, States, TypeOK, Request
    <2>3. claim[RT] = None
      BY <1>19 DEF RtInsert, PcClaim, Working, Holders, Procs, Runners
    <2>4. ArmsHeld(t)
      BY <1>19, <2>1, <2>2, <2>3 DEF RtTakes, ArmsHeld, Arms
    <2> QED
      BY <2>4 DEF TaskStep
  <1>20. ASSUME RtUpsertLost PROVE TaskStep
    <2>1. /\ orders' = orders + 1 /\ lost' = lost \cup {orders + 1}
          /\ cut' = cut /\ claim' = claim
      BY <1>20 DEF RtUpsertLost, proc
    <2>2. CASE \E t \in Present(queue) : Armed(queue, queue', t, StateStarted, orders + 1)
      <3>1. PICK t \in Present(queue) : Armed(queue, queue', t, StateStarted, orders + 1)
        BY <2>2
      <3>2. ArmsLost(t) /\ t \in Oids
        BY <2>1, <3>1 DEF ArmsLost, Arms, Present
      <3> QED
        BY <3>2 DEF TaskStep
    <2>3. CASE /\ pending[RT] # None
               /\ \E t \in Oids :
                 Inserted(queue, queue', t, pending[RT].block, StateStarted, orders + 1, RT)
      <3>1. PICK t \in Oids :
               Inserted(queue, queue', t, pending[RT].block, StateStarted, orders + 1, RT)
        BY <2>3
      <3>2. pending[RT].block \in Blocks /\ RT \in Clients
        BY <2>3 DEF TypeOK, Request
      <3>3. ArmsLost(t)
        BY <2>1, <3>1, <3>2 DEF ArmsLost, Arms
      <3> QED
        BY <3>3 DEF TaskStep
    <2> QED
      BY <1>20, <2>2, <2>3, LostUpsert
  <1>21. ASSUME RtClose PROVE TaskStep
    BY <1>21 DEF RtClose, aux, LeavesTasks, TaskStep
  <1>22. ASSUME FeedClose PROVE TaskStep
    BY <1>22 DEF FeedClose, aux, LeavesTasks, TaskStep
  <1>23. ASSUME Interrupt PROVE TaskStep
    BY <1>23 DEF Interrupt, aux, LeavesTasks, TaskStep
  <1>24. ASSUME SoftShutdownOver PROVE TaskStep
    BY <1>24 DEF SoftShutdownOver, aux, LeavesTasks, TaskStep
  <1>25. ASSUME RealTimeDone PROVE TaskStep
    BY <1>25 DEF RealTimeDone, aux, LeavesTasks, TaskStep
  <1>26. ASSUME Exit PROVE TaskStep
    <2>1. \A p \in Procs \ {RT} : pc[p] = "closed"
      BY <1>26 DEF Exit, MergedClosed, Drain, Procs, Runners
    <2>2. Holders \subseteq {RT}
      BY <2>1 DEF PcClaim, Working, Holders, Procs, Runners
    <2>3. claim' = NoClaims
      <3>1. \A p \in Procs \ {RT} : claim[p] = None
        BY <2>2 DEF Holders
      <3>2. claim' = [claim EXCEPT ![RT] = None]
        BY <1>26 DEF Exit
      <3>3. /\ claim' \in [Procs -> Claim \cup {None}]
            /\ \A p \in Procs : claim'[p] = None
        BY <3>1, <3>2 DEF TypeOK
      <3> QED
        BY <3>3 DEF NoClaims
    <2>4. HeldBy(Procs) \subseteq cut'
      BY <1>26, <2>2 DEF Exit, HeldBy
    <2>5. DropsAll
      BY <1>26, <2>3, <2>4 DEF Exit, DropsAll
    <2> QED
      BY <2>5 DEF TaskStep
  <1>27. ASSUME Crash PROVE TaskStep
    <2>1. DropsAll
      BY <1>27 DEF Crash, DropsAll
    <2> QED
      BY <2>1 DEF TaskStep
  <1>28. ASSUME Restart PROVE TaskStep
    <2>1. Holders = {}
      BY <1>28 DEF Restart, Drain, PcClaim, Working, Holders, Procs
    <2>2. LeavesTasks
      BY <1>28, <2>1, NoneHeld DEF Restart, aux, LeavesTasks
    <2> QED
      BY <2>2 DEF TaskStep
  <1>29. CASE UNCHANGED vars
    BY <1>29 DEF vars, proc, aux, LeavesTasks, TaskStep
  <1>30. ASSUME CallRefused PROVE TaskStep
    BY <1>30 DEF CallRefused, aux, LeavesTasks, TaskStep
  <1> QED
    BY <1>1, <1>2, <1>3, <1>4, <1>5, <1>6, <1>7, <1>8, <1>9, <1>10, <1>11, <1>12, <1>13, <1>14, <1>15, <1>16, <1>17, <1>18, <1>19, <1>20, <1>21, <1>22, <1>23, <1>24, <1>25, <1>26, <1>27, <1>28, <1>29, <1>30
    DEF Next, Taskgen, StarterStep, RunTask, WorkerStep, MergeStep, RtReceive, RtStep, Shutdown, Fault, Runners

-----------------------------------------------------------------------------
(* How the set of claims changes.                                          *)

\* Goroutine p comes to hold task t for order o.
Takes(p, t, o) ==
  /\ p \notin Holders /\ Holders' = Holders \cup {p}
  /\ \A x \in Holders : x # p /\ claim'[x] = claim[x]
  /\ claim'[p].task = t /\ claim'[p].order = o

\* Goroutine p no longer holds its task.
LetsGo(p) ==
  /\ p \in Holders /\ Holders' = Holders \ {p}
  /\ \A x \in Holders \ {p} : claim'[x] = claim[x]

\* Worker w holds what the starter held.
Passes(w) ==
  /\ Starter \in Holders /\ w \notin Holders /\ w # Starter
  /\ Holders' = (Holders \ {Starter}) \cup {w}
  /\ \A x \in Holders \ {Starter} : claim'[x] = claim[x]
  /\ claim'[w].task = claim[Starter].task /\ claim'[w].order = claim[Starter].order

LEMMA ClaimArmed ==
  ASSUME TypeOK, NEW t \in Oids, ArmsHeld(t)
  PROVE  Takes(RT, t, orders + 1) /\ claim'[RT].since = orders + 1
  <1> DEFINE c == [task |-> t, order |-> orders + 1, since |-> orders + 1]
  <1>1. c # None /\ c.task = t /\ c.order = orders + 1 /\ c.since = orders + 1
    BY ClaimIsSome DEF TypeOK
  <1>2. claim' = [claim EXCEPT ![RT] = c] /\ claim[RT] = None
    BY DEF ArmsHeld
  <1> HIDE DEF c
  <1>3. claim'[RT] = c /\ \A x \in Procs \ {RT} : claim'[x] = claim[x]
    BY <1>2 DEF TypeOK, Procs, Runners
  <1> QED
    BY <1>1, <1>2, <1>3 DEF Takes, Holders, Procs, Runners

LEMMA ClaimTaken ==
  ASSUME TypeOK, NEW t \in Oids, Claims(t)
  PROVE  Takes(Starter, t, queue[t].order)
  <1> DEFINE c == [task |-> t, order |-> queue[t].order, since |-> 0]
  <1>1. c # None /\ c.task = t /\ c.order = queue[t].order
    BY ClaimIsSome DEF Claims, TypeOK, Present, Queue, Task
  <1>2. claim' = [claim EXCEPT ![Starter] = c] /\ claim[Starter] = None
    BY DEF Claims
  <1> HIDE DEF c
  <1>3. claim'[Starter] = c /\ \A x \in Procs \ {Starter} : claim'[x] = claim[x]
    BY <1>2 DEF TypeOK, Procs, Runners
  <1> QED
    BY <1>1, <1>2, <1>3 DEF Takes, Holders, Procs, Runners

LEMMA ClaimLetGo ==
  ASSUME TypeOK, NEW p \in Runners, Settles(p) \/ Drops(p)
  PROVE  LetsGo(p)
  BY DEF Settles, Drops, LetsGo, Holders, TypeOK

LEMMA ClaimPassed ==
  ASSUME TypeOK, NEW w \in Workers, HandsOver(w)
  PROVE  Passes(w) /\ claim'[w].since = orders
  <1>1. Starter \in Procs /\ w \in Procs /\ Starter # w
    BY DEF Procs, Runners
  <1>2. claim[Starter] \in Claim /\ claim[w] = None
    BY <1>1 DEF HandsOver, TypeOK
  <1>3. /\ claim'[w] = [claim[Starter] EXCEPT !.since = orders] /\ claim'[Starter] = None
        /\ \A x \in Procs \ {Starter, w} : claim'[x] = claim[x]
    BY <1>1 DEF HandsOver, TypeOK
  <1>4. /\ claim'[w] \in Claim /\ claim'[w].task = claim[Starter].task
        /\ claim'[w].order = claim[Starter].order /\ claim'[w].since = orders
    BY <1>2, <1>3 DEF Claim, TypeOK
  <1> QED
    BY <1>1, <1>2, <1>3, <1>4, NoneIsNoRecord DEF Passes, Holders

LEMMA NoClaimsHeld ==
  ASSUME DropsAll
  PROVE  Holders' = {}
  BY DEF DropsAll, Holders, NoClaims

LEMMA PresentTyped ==
  ASSUME TypeOK, NEW t \in Present(queue)
  PROVE  t \in Oids /\ queue[t].order \in Nat
  BY DEF TypeOK, Present, Queue, Task

LEMMA HolderTyped ==
  ASSUME TypeOK, NEW p \in Holders
  PROVE  /\ p \in Procs /\ claim[p].order \in Nat /\ claim[p].since \in Nat
         /\ claim[p].task \in Oids
  BY DEF TypeOK, Holders, Claim

-----------------------------------------------------------------------------
(* The invariants about orders, kind of step by kind of step.              *)

LEMMA ClaimsOnTasksStep ==
  ASSUME TypeOK, ClaimsOnTasks, OrdersNumbered, TaskStep
  PROVE  ClaimsOnTasks'
  <1>a. orders \in Nat /\ \A p \in Holders : claim[p].order \in Nat
    BY HolderTyped DEF TypeOK
  <1>b. \A t \in Present(queue) : queue[t].order \in Nat
    BY PresentTyped
  <1>1. CASE LeavesTasks
    BY <1>1, <1>a, <1>b DEF LeavesTasks, Holders, HeldBy, FindReady, Present, ClaimsOnTasks, OrdersNumbered
  <1>2. ASSUME NEW t \in Oids, ArmsReady(t) PROVE ClaimsOnTasks'
    BY <1>2, <1>a, <1>b DEF ArmsReady, Arms, Armed, Inserted, Holders, ClaimsOnTasks, OrdersNumbered
  <1>3. ASSUME NEW t \in Oids, ArmsLost(t) PROVE ClaimsOnTasks'
    BY <1>3, <1>a, <1>b DEF ArmsLost, Arms, Armed, Inserted, Holders, ClaimsOnTasks, OrdersNumbered
  <1>4. ASSUME NEW t \in Oids, ArmsHeld(t) PROVE ClaimsOnTasks'
    <2>1. Takes(RT, t, orders + 1)
      BY <1>4, ClaimArmed
    <2> QED
      BY <1>4, <2>1, <1>a, <1>b DEF Takes, ArmsHeld, Arms, Armed, Inserted, ClaimsOnTasks, OrdersNumbered
  <1>5. ASSUME NEW t \in Oids, Claims(t) PROVE ClaimsOnTasks'
    <2>1. Takes(Starter, t, queue[t].order)
      BY <1>5, ClaimTaken
    <2> QED
      BY <1>5, <2>1, <1>a, <1>b DEF Takes, Claims, Restated, ClaimsOnTasks, OrdersNumbered
  <1>6. ASSUME NEW t \in Oids, ClaimsLost(t) PROVE ClaimsOnTasks'
    BY <1>6, <1>a, <1>b DEF ClaimsLost, Restated, Holders, ClaimsOnTasks, OrdersNumbered
  <1>7. ASSUME NEW w \in Workers, HandsOver(w) PROVE ClaimsOnTasks'
    <2>1. Passes(w) /\ UNCHANGED <<queue, orders, lost, cut>>
      BY <1>7, ClaimPassed DEF HandsOver
    <2> QED
      BY <2>1, <1>a, <1>b DEF Passes, Present, FindReady, ClaimsOnTasks, OrdersNumbered
  <1>8. ASSUME NEW r \in Runners, Settles(r) PROVE ClaimsOnTasks'
    <2>1. LetsGo(r)
      BY <1>8, ClaimLetGo
    <2> QED
      BY <1>8, <2>1, <1>a, <1>b DEF LetsGo, Settles, Restated, Terminal, ClaimsOnTasks, OrdersNumbered
  <1>9. ASSUME NEW r \in Runners, Drops(r) PROVE ClaimsOnTasks'
    <2>1. LetsGo(r) /\ UNCHANGED <<queue, orders, cut>> /\ lost' = lost \cup {claim[r].order}
      BY <1>9, ClaimLetGo DEF Drops
    <2> QED
      BY <2>1, <1>a, <1>b DEF LetsGo, Present, FindReady, ClaimsOnTasks, OrdersNumbered
  <1>10. ASSUME DropsAll PROVE ClaimsOnTasks'
    <2>1. Holders' = {}
      BY <1>10, NoClaimsHeld
    <2> QED
      BY <1>10, <2>1, <1>a, <1>b DEF DropsAll, Present, FindReady, ClaimsOnTasks, OrdersNumbered
  <1> QED
    BY <1>1, <1>2, <1>3, <1>4, <1>5, <1>6, <1>7, <1>8, <1>9, <1>10 DEF TaskStep

LEMMA OrdersNumberedStep ==
  ASSUME TypeOK, ClaimsOnTasks, OrdersNumbered, TaskStep
  PROVE  OrdersNumbered'
  <1>a. orders \in Nat /\ \A p \in Holders : claim[p].order \in Nat
    BY HolderTyped DEF TypeOK
  <1>b. \A t \in Present(queue) : queue[t].order \in Nat
    BY PresentTyped
  <1>c. orders > 0 \/ Holders = {}
    BY HolderTyped DEF OrdersNumbered, TypeOK
  <1>1. CASE LeavesTasks
    BY <1>1, <1>a, <1>b DEF LeavesTasks, Holders, HeldBy, FindReady, Present, OrdersNumbered
  <1>2. ASSUME NEW t \in Oids, ArmsReady(t) PROVE OrdersNumbered'
    BY <1>2, <1>a, <1>b DEF ArmsReady, Arms, Armed, Inserted, Holders, OrdersNumbered
  <1>3. ASSUME NEW t \in Oids, ArmsLost(t) PROVE OrdersNumbered'
    BY <1>3, <1>a, <1>b DEF ArmsLost, Arms, Armed, Inserted, Holders, OrdersNumbered
  <1>4. ASSUME NEW t \in Oids, ArmsHeld(t) PROVE OrdersNumbered'
    <2>1. Takes(RT, t, orders + 1) /\ orders' = orders + 1 /\ claim'[RT].since = orders + 1
      BY <1>4, ClaimArmed DEF ArmsHeld, Arms, Runners
    <2>2. /\ \A t1 \in Present(queue') : queue'[t1].order \in 1..orders'
          /\ \A t1, t2 \in Present(queue') : queue'[t1].order = queue'[t2].order => t1 = t2
      BY <1>4, <2>1, <1>a, <1>b DEF ArmsHeld, Arms, Armed, Inserted, OrdersNumbered
    <2>3. \A p \in Holders' : claim'[p].order \in 1..orders'
      BY <1>4, <2>1, <1>a, <1>b DEF Takes, OrdersNumbered
    <2>4. \A p \in Runners \cap Holders' : claim'[p].since \in 1..orders'
      BY <2>1, <1>a, <1>c DEF Takes, OrdersNumbered
    <2> QED
      BY <2>2, <2>3, <2>4 DEF OrdersNumbered, Present
  <1>5. ASSUME NEW t \in Oids, Claims(t) PROVE OrdersNumbered'
    <2>1. Takes(Starter, t, queue[t].order) /\ orders' = orders /\ Starter \notin Runners
      BY <1>5, ClaimTaken DEF Claims, Arms, Runners
    <2>2. /\ \A t1 \in Present(queue') : queue'[t1].order \in 1..orders'
          /\ \A t1, t2 \in Present(queue') : queue'[t1].order = queue'[t2].order => t1 = t2
      BY <1>5, <2>1, <1>a, <1>b DEF Claims, Restated, OrdersNumbered
    <2>3. \A p \in Holders' : claim'[p].order \in 1..orders'
      BY <1>5, <2>1, <1>a, <1>b DEF Takes, OrdersNumbered, Claims
    <2>4. \A p \in Runners \cap Holders' : claim'[p].since \in 1..orders'
      BY <2>1, <1>a, <1>c DEF Takes, OrdersNumbered
    <2> QED
      BY <2>2, <2>3, <2>4 DEF OrdersNumbered, Present
  <1>6. ASSUME NEW t \in Oids, ClaimsLost(t) PROVE OrdersNumbered'
    BY <1>6, <1>a, <1>b DEF ClaimsLost, Restated, Holders, OrdersNumbered
  <1>7. ASSUME NEW w \in Workers, HandsOver(w) PROVE OrdersNumbered'
    <2>1. Passes(w) /\ orders' = orders /\ queue' = queue /\ claim'[w].since = orders
      BY <1>7, ClaimPassed DEF HandsOver, Arms, Runners
    <2>2. /\ \A t1 \in Present(queue') : queue'[t1].order \in 1..orders'
          /\ \A t1, t2 \in Present(queue') : queue'[t1].order = queue'[t2].order => t1 = t2
      BY <1>7, <2>1, <1>a, <1>b DEF HandsOver, Present, FindReady, OrdersNumbered
    <2>3. \A p \in Holders' : claim'[p].order \in 1..orders'
      BY <1>7, <2>1, <1>a, <1>b DEF Passes, OrdersNumbered
    <2>4. \A p \in Runners \cap Holders' : claim'[p].since \in 1..orders'
      BY <2>1, <1>a, <1>c DEF Passes, OrdersNumbered
    <2> QED
      BY <2>2, <2>3, <2>4 DEF OrdersNumbered, Present
  <1>8. ASSUME NEW r \in Runners, Settles(r) PROVE OrdersNumbered'
    <2>1. LetsGo(r) /\ orders' = orders
      BY <1>8, ClaimLetGo DEF Settles, Arms, Runners
    <2>2. /\ \A t1 \in Present(queue') : queue'[t1].order \in 1..orders'
          /\ \A t1, t2 \in Present(queue') : queue'[t1].order = queue'[t2].order => t1 = t2
      BY <1>8, <2>1, <1>a, <1>b DEF Settles, Restated, Terminal, OrdersNumbered
    <2>3. \A p \in Holders' : claim'[p].order \in 1..orders'
      BY <1>8, <2>1, <1>a, <1>b DEF LetsGo, OrdersNumbered
    <2>4. \A p \in Runners \cap Holders' : claim'[p].since \in 1..orders'
      BY <2>1, <1>a, <1>c DEF LetsGo, OrdersNumbered
    <2> QED
      BY <2>2, <2>3, <2>4 DEF OrdersNumbered, Present
  <1>9. ASSUME NEW r \in Runners, Drops(r) PROVE OrdersNumbered'
    <2>1. LetsGo(r) /\ orders' = orders /\ queue' = queue
      BY <1>9, ClaimLetGo DEF Drops, Arms, Runners
    <2>2. /\ \A t1 \in Present(queue') : queue'[t1].order \in 1..orders'
          /\ \A t1, t2 \in Present(queue') : queue'[t1].order = queue'[t2].order => t1 = t2
      BY <1>9, <2>1, <1>a, <1>b DEF Drops, Present, FindReady, OrdersNumbered
    <2>3. \A p \in Holders' : claim'[p].order \in 1..orders'
      BY <1>9, <2>1, <1>a, <1>b DEF LetsGo, OrdersNumbered
    <2>4. \A p \in Runners \cap Holders' : claim'[p].since \in 1..orders'
      BY <2>1, <1>a, <1>c DEF LetsGo, OrdersNumbered
    <2> QED
      BY <2>2, <2>3, <2>4 DEF OrdersNumbered, Present
  <1>10. ASSUME DropsAll PROVE OrdersNumbered'
    <2>1. Holders' = {}
      BY <1>10, NoClaimsHeld
    <2> QED
      BY <1>10, <2>1, <1>a, <1>b DEF DropsAll, Present, FindReady, OrdersNumbered
  <1> QED
    BY <1>1, <1>2, <1>3, <1>4, <1>5, <1>6, <1>7, <1>8, <1>9, <1>10 DEF TaskStep


LEMMA ClaimExclusiveStep ==
  ASSUME TypeOK, ClaimsOnTasks, OrdersNumbered, ClaimExclusive, TaskStep
  PROVE  ClaimExclusive'
  <1>a. orders \in Nat /\ \A p \in Holders : claim[p].order \in Nat
    BY HolderTyped DEF TypeOK
  <1>b. \A t \in Present(queue) : queue[t].order \in Nat
    BY PresentTyped
  <1>c. Holders \subseteq Procs /\ Holders' \subseteq Procs
    BY DEF Holders
  <1>1. CASE LeavesTasks
    BY <1>1, <1>a, <1>b, <1>c DEF LeavesTasks, Holders, HeldBy, FindReady, Present, ClaimExclusive, OrdersNumbered, ClaimsOnTasks, HeldBy, FindReady
  <1>2. ASSUME NEW t \in Oids, ArmsReady(t) PROVE ClaimExclusive'
    BY <1>2, <1>a, <1>b, <1>c DEF ArmsReady, Arms, Armed, Inserted, Holders, ClaimExclusive, OrdersNumbered, ClaimsOnTasks, HeldBy, FindReady
  <1>3. ASSUME NEW t \in Oids, ArmsLost(t) PROVE ClaimExclusive'
    BY <1>3, <1>a, <1>b, <1>c DEF ArmsLost, Arms, Armed, Inserted, Holders, ClaimExclusive, OrdersNumbered, ClaimsOnTasks, HeldBy, FindReady
  <1>4. ASSUME NEW t \in Oids, ArmsHeld(t) PROVE ClaimExclusive'
    <2>1. Takes(RT, t, orders + 1)
      BY <1>4, ClaimArmed
    <2> QED
      BY <1>4, <2>1, <1>a, <1>b, <1>c DEF Takes, ArmsHeld, Arms, Armed, Inserted, ClaimExclusive, OrdersNumbered, ClaimsOnTasks, HeldBy, FindReady
  <1>5. ASSUME NEW t \in Oids, Claims(t) PROVE ClaimExclusive'
    <2>1. Takes(Starter, t, queue[t].order)
      BY <1>5, ClaimTaken
    <2> QED
      BY <1>5, <2>1, <1>a, <1>b, <1>c DEF Takes, Claims, Restated, ClaimExclusive, OrdersNumbered, ClaimsOnTasks, HeldBy, FindReady
  <1>6. ASSUME NEW t \in Oids, ClaimsLost(t) PROVE ClaimExclusive'
    BY <1>6, <1>a, <1>b, <1>c DEF ClaimsLost, Restated, Holders, ClaimExclusive, OrdersNumbered, ClaimsOnTasks, HeldBy, FindReady
  <1>7. ASSUME NEW w \in Workers, HandsOver(w) PROVE ClaimExclusive'
    <2>1. Passes(w) /\ UNCHANGED <<queue, orders, lost, cut>>
      BY <1>7, ClaimPassed DEF HandsOver
    <2> QED
      BY <2>1, <1>a, <1>b, <1>c DEF Passes, Present, FindReady, ClaimExclusive, OrdersNumbered, ClaimsOnTasks, HeldBy, FindReady
  <1>8. ASSUME NEW r \in Runners, Settles(r) PROVE ClaimExclusive'
    <2>1. LetsGo(r)
      BY <1>8, ClaimLetGo
    <2> QED
      BY <1>8, <2>1, <1>a, <1>b, <1>c DEF LetsGo, Settles, Restated, Terminal, ClaimExclusive, OrdersNumbered, ClaimsOnTasks, HeldBy, FindReady
  <1>9. ASSUME NEW r \in Runners, Drops(r) PROVE ClaimExclusive'
    <2>1. LetsGo(r) /\ UNCHANGED <<queue, orders, cut>> /\ lost' = lost \cup {claim[r].order}
      BY <1>9, ClaimLetGo DEF Drops
    <2> QED
      BY <2>1, <1>a, <1>b, <1>c DEF LetsGo, Present, FindReady, ClaimExclusive, OrdersNumbered, ClaimsOnTasks, HeldBy, FindReady
  <1>10. ASSUME DropsAll PROVE ClaimExclusive'
    <2>1. Holders' = {}
      BY <1>10, NoClaimsHeld
    <2> QED
      BY <1>10, <2>1, <1>a, <1>b, <1>c DEF DropsAll, Present, FindReady, ClaimExclusive, OrdersNumbered, ClaimsOnTasks, HeldBy, FindReady
  <1> QED
    BY <1>1, <1>2, <1>3, <1>4, <1>5, <1>6, <1>7, <1>8, <1>9, <1>10 DEF TaskStep

LEMMA StartedIsHeldStep ==
  ASSUME TypeOK, ClaimsOnTasks, OrdersNumbered, StartedIsHeld, TaskStep
  PROVE  StartedIsHeld'
  <1>a. orders \in Nat /\ \A p \in Holders : claim[p].order \in Nat
    BY HolderTyped DEF TypeOK
  <1>b. \A t \in Present(queue) : queue[t].order \in Nat
    BY PresentTyped
  <1>c. Holders \subseteq Procs /\ Holders' \subseteq Procs
    BY DEF Holders
  <1>1. CASE LeavesTasks
    BY <1>1, <1>a, <1>b, <1>c DEF LeavesTasks, Holders, HeldBy, FindReady, Present, StartedIsHeld, OrdersNumbered, ClaimsOnTasks, HeldBy
  <1>2. ASSUME NEW t \in Oids, ArmsReady(t) PROVE StartedIsHeld'
    BY <1>2, <1>a, <1>b, <1>c DEF ArmsReady, Arms, Armed, Inserted, Holders, StartedIsHeld, OrdersNumbered, ClaimsOnTasks, HeldBy
  <1>3. ASSUME NEW t \in Oids, ArmsLost(t) PROVE StartedIsHeld'
    BY <1>3, <1>a, <1>b, <1>c DEF ArmsLost, Arms, Armed, Inserted, Holders, StartedIsHeld, OrdersNumbered, ClaimsOnTasks, HeldBy
  <1>4. ASSUME NEW t \in Oids, ArmsHeld(t) PROVE StartedIsHeld'
    <2>1. Takes(RT, t, orders + 1)
      BY <1>4, ClaimArmed
    <2> QED
      BY <1>4, <2>1, <1>a, <1>b, <1>c DEF Takes, ArmsHeld, Arms, Armed, Inserted, StartedIsHeld, OrdersNumbered, ClaimsOnTasks, HeldBy
  <1>5. ASSUME NEW t \in Oids, Claims(t) PROVE StartedIsHeld'
    <2>1. Takes(Starter, t, queue[t].order)
      BY <1>5, ClaimTaken
    <2> QED
      BY <1>5, <2>1, <1>a, <1>b, <1>c DEF Takes, Claims, Restated, StartedIsHeld, OrdersNumbered, ClaimsOnTasks, HeldBy
  <1>6. ASSUME NEW t \in Oids, ClaimsLost(t) PROVE StartedIsHeld'
    BY <1>6, <1>a, <1>b, <1>c DEF ClaimsLost, Restated, Holders, StartedIsHeld, OrdersNumbered, ClaimsOnTasks, HeldBy
  <1>7. ASSUME NEW w \in Workers, HandsOver(w) PROVE StartedIsHeld'
    <2>1. Passes(w) /\ UNCHANGED <<queue, orders, lost, cut>>
      BY <1>7, ClaimPassed DEF HandsOver
    <2> QED
      BY <2>1, <1>a, <1>b, <1>c DEF Passes, Present, FindReady, StartedIsHeld, OrdersNumbered, ClaimsOnTasks, HeldBy
  <1>8. ASSUME NEW r \in Runners, Settles(r) PROVE StartedIsHeld'
    <2>1. LetsGo(r)
      BY <1>8, ClaimLetGo
    <2> QED
      BY <1>8, <2>1, <1>a, <1>b, <1>c DEF LetsGo, Settles, Restated, Terminal, StartedIsHeld, OrdersNumbered, ClaimsOnTasks, HeldBy
  <1>9. ASSUME NEW r \in Runners, Drops(r) PROVE StartedIsHeld'
    <2>1. LetsGo(r) /\ UNCHANGED <<queue, orders, cut>> /\ lost' = lost \cup {claim[r].order}
      BY <1>9, ClaimLetGo DEF Drops
    <2> QED
      BY <2>1, <1>a, <1>b, <1>c DEF LetsGo, Present, FindReady, StartedIsHeld, OrdersNumbered, ClaimsOnTasks, HeldBy
  <1>10. ASSUME DropsAll PROVE StartedIsHeld'
    <2>1. Holders' = {}
      BY <1>10, NoClaimsHeld
    <2> QED
      BY <1>10, <2>1, <1>a, <1>b, <1>c DEF DropsAll, Present, FindReady, StartedIsHeld, OrdersNumbered, ClaimsOnTasks, HeldBy
  <1> QED
    BY <1>1, <1>2, <1>3, <1>4, <1>5, <1>6, <1>7, <1>8, <1>9, <1>10 DEF TaskStep


-----------------------------------------------------------------------------
(* What a step does to the documents, their states aside, and to the       *)
(* upserts under way.                                                      *)

KeepsDocuments ==
  /\ Present(queue') = Present(queue)
  /\ \A t \in Present(queue) : queue'[t].block = queue[t].block /\ queue'[t].by = queue[t].by
  /\ \A c \in Clients : pending'[c] \in {pending[c], None}

LooksUp(c, b) ==
  /\ queue' = queue
  /\ \A t \in Present(queue) : queue[t].block # b
  /\ pending'[c].block = b
  /\ \A x \in Clients \ {c} : pending'[x] = pending[x]

Inserts(c, t) ==
  /\ pending[c] # None
  /\ \E s \in States : Inserted(queue, queue', t, pending[c].block, s, orders + 1, c)
  /\ pending'[c] = None
  /\ \A x \in Clients \ {c} : pending'[x] = pending[x]

DocumentStep ==
  \/ KeepsDocuments
  \/ \E c \in Clients, b \in Blocks : LooksUp(c, b)
  \/ \E c \in Clients, t \in Oids : Inserts(c, t)

LEMMA UnchangedKeeps ==
  ASSUME UNCHANGED queue, \A c \in Clients : pending'[c] \in {pending[c], None}
  PROVE  DocumentStep
  BY DEF KeepsDocuments, DocumentStep, Present

LEMMA RestatedKeeps ==
  ASSUME NEW t, NEW s, Restated(queue, queue', t, s), UNCHANGED pending
  PROVE  DocumentStep
  BY DEF Restated, KeepsDocuments, DocumentStep

LEMMA ArmedKeeps ==
  ASSUME NEW t, NEW s, NEW o, Armed(queue, queue', t, s, o), UNCHANGED pending
  PROVE  DocumentStep
  BY DEF Armed, KeepsDocuments, DocumentStep

LEMMA StepsAreDocumentSteps ==
  ASSUME TypeOK, PcClaim, ClaimsOnTasks, [Next]_vars
  PROVE  DocumentStep
  <1>1. ASSUME NEW c \in Generators, NEW b \in Blocks, TaskgenUpdate(c, b) PROVE DocumentStep
    <2>1. PICK t \in FindByBlockNumber(queue, b) :
             queue' = UpsertExisting(queue, t, StateReady, orders + 1)
      BY <1>1 DEF TaskgenUpdate
    <2>2. Armed(queue, queue', t, StateReady, orders + 1)
      BY <2>1, FoundIsPresent, UpsertArms DEF TypeOK, States
    <2> QED
      BY <1>1, <2>2, ArmedKeeps DEF TaskgenUpdate
  <1>2. ASSUME NEW c \in Generators, NEW b \in Blocks, NEW p \in Priorities, TaskgenLookup(c, b, p) PROVE DocumentStep
    <2>1. LooksUp(c, b)
      BY <1>2 DEF TaskgenLookup, LooksUp, FindByBlockNumber, TypeOK
    <2> QED
      BY <2>1 DEF DocumentStep
  <1>3. ASSUME NEW c \in Generators, TaskgenInsert(c) PROVE DocumentStep
    <2>1. PICK t \in Oids : InsertPending(c, t, StateReady)
      BY <1>3 DEF TaskgenInsert
    <2>2. /\ Inserted(queue, queue', t, pending[c].block, StateReady, orders + 1, c)
          /\ pending' = [pending EXCEPT ![c] = None]
      BY <1>3, <2>1, InsertInserts DEF TaskgenInsert, States
    <2>3. Inserts(c, t)
      BY <1>3, <2>2 DEF TaskgenInsert, Inserts, States, TypeOK
    <2> QED
      BY <2>3 DEF DocumentStep
  <1>4. ASSUME StarterCheck PROVE DocumentStep
    BY <1>4, UnchangedKeeps DEF StarterCheck
  <1>5. ASSUME StarterClaim PROVE DocumentStep
    <2>1. PICK t \in FirstReady(queue) : queue' = MarkAsStarted(queue, t)
      BY <1>5 DEF StarterClaim
    <2>2. Restated(queue, queue', t, StateStarted)
      BY <2>1, FirstIsReady, MarkRestates DEF TypeOK
    <2> QED
      BY <1>5, <2>2, RestatedKeeps DEF StarterClaim
  <1>6. ASSUME StarterIdle PROVE DocumentStep
    BY <1>6, UnchangedKeeps DEF StarterIdle
  <1>7. ASSUME StarterClaimLost PROVE DocumentStep
    <2>1. PICK t \in FirstReady(queue) : queue' = MarkAsStarted(queue, t)
      BY <1>7 DEF StarterClaimLost
    <2>2. Restated(queue, queue', t, StateStarted)
      BY <2>1, FirstIsReady, MarkRestates DEF TypeOK
    <2> QED
      BY <1>7, <2>2, RestatedKeeps DEF StarterClaimLost
  <1>8. ASSUME NEW w \in Workers, Handoff(w) PROVE DocumentStep
    BY <1>8, UnchangedKeeps DEF Handoff
  <1>9. ASSUME NEW w \in Workers, WorkerClose(w) PROVE DocumentStep
    BY <1>9, UnchangedKeeps DEF WorkerClose
  <1>10. ASSUME NEW r \in Runners, Extracted(r) PROVE DocumentStep
    BY <1>10, UnchangedKeeps DEF Extracted
  <1>11. ASSUME NEW r \in Runners, ExtractFailed(r) PROVE DocumentStep
    BY <1>11, UnchangedKeeps DEF ExtractFailed
  <1>12. ASSUME NEW r \in Runners, Mark(r) PROVE DocumentStep
    BY <1>12, OutcomeRestates, RestatedKeeps DEF Mark
  <1>13. ASSUME NEW r \in Runners, MarkError(r) PROVE DocumentStep
    <2>1. CASE queue' = Outcome(r)
      BY <1>13, <2>1, OutcomeRestates, RestatedKeeps DEF MarkError
    <2>2. CASE UNCHANGED queue
      BY <1>13, <2>2, UnchangedKeeps DEF MarkError
    <2> QED
      BY <1>13, <2>1, <2>2 DEF MarkError
  <1>14. ASSUME NEW w \in Workers, Forward(w) PROVE DocumentStep
    BY <1>14, UnchangedKeeps DEF Forward
  <1>15. ASSUME NEW w \in Workers, Summarise(w) PROVE DocumentStep
    BY <1>15, UnchangedKeeps DEF Summarise
  <1>16. ASSUME NEW w \in Workers, ForwardClose(w) PROVE DocumentStep
    BY <1>16, UnchangedKeeps DEF ForwardClose
  <1>17. ASSUME NEW b \in Blocks, RtUpdate(b) PROVE DocumentStep
    <2>1. PICK t \in FindByBlockNumber(queue, b) :
             queue' = UpsertExisting(queue, t, StateStarted, orders + 1)
      BY <1>17 DEF RtUpdate
    <2>2. Armed(queue, queue', t, StateStarted, orders + 1)
      BY <2>1, FoundIsPresent, UpsertArms DEF TypeOK, States
    <2> QED
      BY <1>17, <2>2, ArmedKeeps DEF RtUpdate
  <1>18. ASSUME NEW b \in Blocks, RtLookup(b) PROVE DocumentStep
    <2>1. LooksUp(RT, b)
      BY <1>18 DEF RtLookup, LooksUp, FindByBlockNumber, TypeOK
    <2> QED
      BY <2>1 DEF DocumentStep
  <1>19. ASSUME RtInsert PROVE DocumentStep
    <2>1. PICK t \in Oids : InsertPending(RT, t, StateStarted)
      BY <1>19 DEF RtInsert
    <2>2. /\ Inserted(queue, queue', t, pending[RT].block, StateStarted, orders + 1, RT)
          /\ pending' = [pending EXCEPT ![RT] = None]
      BY <1>19, <2>1, InsertInserts DEF RtInsert, States
    <2>3. Inserts(RT, t)
      BY <1>19, <2>2 DEF RtInsert, Inserts, States, TypeOK
    <2> QED
      BY <2>3 DEF DocumentStep
  <1>20. ASSUME RtUpsertLost PROVE DocumentStep
    <2>1. CASE pending' = pending /\ \E t \in Present(queue) :
                  Armed(queue, queue', t, StateStarted, orders + 1)
      BY <2>1, ArmedKeeps
    <2>2. CASE /\ pending[RT] # None
               /\ \E t \in Oids :
                 Inserted(queue, queue', t, pending[RT].block, StateStarted, orders + 1, RT)
               /\ pending' = [pending EXCEPT ![RT] = None]
      <3>1. \E t \in Oids : Inserts(RT, t)
        BY <2>2 DEF Inserts, States, TypeOK
      <3> QED
        BY <3>1 DEF DocumentStep
    <2> QED
      BY <1>20, <2>1, <2>2, LostUpsert
  <1>21. ASSUME RtClose PROVE DocumentStep
    BY <1>21, UnchangedKeeps DEF RtClose
  <1>22. ASSUME FeedClose PROVE DocumentStep
    BY <1>22, UnchangedKeeps DEF FeedClose
  <1>23. ASSUME Interrupt PROVE DocumentStep
    BY <1>23, UnchangedKeeps DEF Interrupt
  <1>24. ASSUME SoftShutdownOver PROVE DocumentStep
    BY <1>24, UnchangedKeeps DEF SoftShutdownOver
  <1>25. ASSUME RealTimeDone PROVE DocumentStep
    BY <1>25, UnchangedKeeps DEF RealTimeDone
  <1>26. ASSUME Exit PROVE DocumentStep
    BY <1>26, UnchangedKeeps DEF Exit, ProcessGone, TypeOK
  <1>27. ASSUME Crash PROVE DocumentStep
    BY <1>27, UnchangedKeeps DEF Crash, ProcessGone, TypeOK
  <1>28. ASSUME Restart PROVE DocumentStep
    BY <1>28, UnchangedKeeps DEF Restart
  <1>29. CASE UNCHANGED vars
    BY <1>29, UnchangedKeeps DEF vars
  <1>30. ASSUME CallRefused PROVE DocumentStep
    BY <1>30, UnchangedKeeps DEF CallRefused, TypeOK
  <1> QED
    BY <1>1, <1>2, <1>3, <1>4, <1>5, <1>6, <1>7, <1>8, <1>9, <1>10, <1>11, <1>12, <1>13, <1>14, <1>15, <1>16, <1>17, <1>18, <1>19, <1>20, <1>21, <1>22, <1>23, <1>24, <1>25, <1>26, <1>27, <1>28, <1>29, <1>30
    DEF Next, Taskgen, StarterStep, RunTask, WorkerStep, MergeStep, RtReceive, RtStep, Shutdown, Fault, Runners

LEMMA OneTaskPerClientStep ==
  ASSUME TypeOK, OneTaskPerClient, PendingIsNew, DocumentStep
  PROVE  OneTaskPerClient' /\ PendingIsNew'
  <1>1. CASE KeepsDocuments
    BY <1>1 DEF KeepsDocuments, OneTaskPerClient, PendingIsNew
  <1>2. ASSUME NEW c \in Clients, NEW b \in Blocks, LooksUp(c, b)
        PROVE  OneTaskPerClient' /\ PendingIsNew'
    BY <1>2 DEF LooksUp, OneTaskPerClient, PendingIsNew, Present
  <1>3. ASSUME NEW c \in Clients, NEW t \in Oids, Inserts(c, t)
        PROVE  OneTaskPerClient' /\ PendingIsNew'
    <2>1. OneTaskPerClient'
      BY <1>3 DEF Inserts, Inserted, OneTaskPerClient, PendingIsNew
    <2>2. PendingIsNew'
      BY <1>3 DEF Inserts, Inserted, PendingIsNew
    <2> QED
      BY <2>1, <2>2
  <1> QED
    BY <1>1, <1>2, <1>3 DEF DocumentStep


-----------------------------------------------------------------------------
(* Success and the store.                                                  *)

StoredInv == SuccessIsStored /\ SucceededIsStored

\* The step makes no task successful and lets no runner succeed.
NoNewSuccess ==
  /\ stored' = stored
  /\ Present(queue) \subseteq Present(queue')
  /\ \A t \in Present(queue) : queue'[t].block = queue[t].block
  /\ \A t \in Present(queue') : queue'[t].state = StateSuccessful =>
        t \in Present(queue) /\ queue[t].state = StateSuccessful
  /\ \A r \in Runners : pc'[r] = "succeeded" => pc[r] = "succeeded" /\ claim'[r] = claim[r]

LEMMA SucceededHolds ==
  ASSUME PcClaim, ClaimsOnTasks, NEW r \in Runners, pc[r] \in Working
  PROVE  r \in Holders /\ claim[r].task \in Present(queue)
  BY DEF PcClaim, Working, ClaimsOnTasks

LEMMA NoNewSuccessKeeps ==
  ASSUME PcClaim, ClaimsOnTasks, StoredInv, NoNewSuccess
  PROVE  StoredInv'
  BY SucceededHolds DEF StoredInv, NoNewSuccess, SuccessIsStored, SucceededIsStored, Block, Working

LEMMA UnchangedNoNewSuccess ==
  ASSUME UNCHANGED <<queue, stored>>,
         \A r \in Runners : pc'[r] = "succeeded" => pc[r] = "succeeded" /\ claim'[r] = claim[r]
  PROVE  NoNewSuccess
  BY DEF NoNewSuccess, Present

LEMMA RestatedNoNewSuccess ==
  ASSUME NEW t, NEW s, s # StateSuccessful, Restated(queue, queue', t, s), UNCHANGED stored,
         \A r \in Runners : pc'[r] = "succeeded" => pc[r] = "succeeded" /\ claim'[r] = claim[r]
  PROVE  NoNewSuccess
  BY DEF NoNewSuccess, Restated

LEMMA ArmedNoNewSuccess ==
  ASSUME NEW t, NEW s, NEW o, s # StateSuccessful, Armed(queue, queue', t, s, o), UNCHANGED stored,
         \A r \in Runners : pc'[r] = "succeeded" => pc[r] = "succeeded" /\ claim'[r] = claim[r]
  PROVE  NoNewSuccess
  BY DEF NoNewSuccess, Armed

LEMMA InsertedNoNewSuccess ==
  ASSUME NEW t, NEW b, NEW s, NEW o, NEW c, s # StateSuccessful,
         Inserted(queue, queue', t, b, s, o, c), UNCHANGED stored,
         \A r \in Runners : pc'[r] = "succeeded" => pc[r] = "succeeded" /\ claim'[r] = claim[r]
  PROVE  NoNewSuccess
  BY DEF NoNewSuccess, Inserted

LEMMA StoredStep ==
  ASSUME TypeOK, PcClaim, ClaimsOnTasks, OrdersNumbered, StoredInv, [Next]_vars
  PROVE  StoredInv'
  <1>1. ASSUME NEW c \in Generators, NEW b \in Blocks, TaskgenUpdate(c, b) PROVE StoredInv'
    <2>1. PICK t \in FindByBlockNumber(queue, b) :
             queue' = UpsertExisting(queue, t, StateReady, orders + 1)
      BY <1>1 DEF TaskgenUpdate
    <2>2. Armed(queue, queue', t, StateReady, orders + 1)
      BY <2>1, FoundIsPresent, UpsertArms DEF TypeOK, States
    <2>3. \A r \in Runners : pc'[r] = "succeeded" => pc[r] = "succeeded" /\ claim'[r] = claim[r]
      BY <1>1, <2>1 DEF TaskgenUpdate, proc
    <2>4. NoNewSuccess
      BY <1>1, <2>2, <2>3, ArmedNoNewSuccess DEF TaskgenUpdate
    <2> QED
      BY <2>4, NoNewSuccessKeeps
  <1>2. ASSUME NEW c \in Generators, NEW b \in Blocks, NEW p \in Priorities, TaskgenLookup(c, b, p) PROVE StoredInv'
    <2>1. \A r \in Runners : pc'[r] = "succeeded" => pc[r] = "succeeded" /\ claim'[r] = claim[r]
      BY <1>2 DEF TaskgenLookup, proc
    <2>2. NoNewSuccess
      BY <1>2, <2>1, UnchangedNoNewSuccess DEF TaskgenLookup
    <2> QED
      BY <2>2, NoNewSuccessKeeps
  <1>3. ASSUME NEW c \in Generators, TaskgenInsert(c) PROVE StoredInv'
    <2>1. PICK t \in Oids : InsertPending(c, t, StateReady)
      BY <1>3 DEF TaskgenInsert
    <2>2. Inserted(queue, queue', t, pending[c].block, StateReady, orders + 1, c)
      BY <1>3, <2>1, InsertInserts DEF TaskgenInsert, States
    <2>3. \A r \in Runners : pc'[r] = "succeeded" => pc[r] = "succeeded" /\ claim'[r] = claim[r]
      BY <1>3, <2>1 DEF TaskgenInsert, proc
    <2>4. NoNewSuccess
      BY <1>3, <2>2, <2>3, InsertedNoNewSuccess DEF TaskgenInsert
    <2> QED
      BY <2>4, NoNewSuccessKeeps
  <1>4. ASSUME StarterCheck PROVE StoredInv'
    <2>1. \A r \in Runners : pc'[r] = "succeeded" => pc[r] = "succeeded" /\ claim'[r] = claim[r]
      BY <1>4 DEF StarterCheck, TypeOK, Procs, Runners
    <2>2. NoNewSuccess
      BY <1>4, <2>1, UnchangedNoNewSuccess DEF StarterCheck
    <2> QED
      BY <2>2, NoNewSuccessKeeps
  <1>5. ASSUME StarterClaim PROVE StoredInv'
    <2>1. PICK t \in FirstReady(queue) : queue' = MarkAsStarted(queue, t)
      BY <1>5 DEF StarterClaim
    <2>2. Restated(queue, queue', t, StateStarted)
      BY <2>1, FirstIsReady, MarkRestates DEF TypeOK
    <2>3. \A r \in Runners : pc'[r] = "succeeded" => pc[r] = "succeeded" /\ claim'[r] = claim[r]
      BY <1>5 DEF StarterClaim, TypeOK, Procs, Runners
    <2>4. NoNewSuccess
      BY <1>5, <2>2, <2>3, RestatedNoNewSuccess DEF StarterClaim
    <2> QED
      BY <2>4, NoNewSuccessKeeps
  <1>6. ASSUME StarterIdle PROVE StoredInv'
    <2>1. \A r \in Runners : pc'[r] = "succeeded" => pc[r] = "succeeded" /\ claim'[r] = claim[r]
      BY <1>6 DEF StarterIdle, TypeOK, Procs, Runners
    <2>2. NoNewSuccess
      BY <1>6, <2>1, UnchangedNoNewSuccess DEF StarterIdle
    <2> QED
      BY <2>2, NoNewSuccessKeeps
  <1>7. ASSUME StarterClaimLost PROVE StoredInv'
    <2>1. PICK t \in FirstReady(queue) : queue' = MarkAsStarted(queue, t)
      BY <1>7 DEF StarterClaimLost
    <2>2. Restated(queue, queue', t, StateStarted)
      BY <2>1, FirstIsReady, MarkRestates DEF TypeOK
    <2>3. \A r \in Runners : pc'[r] = "succeeded" => pc[r] = "succeeded" /\ claim'[r] = claim[r]
      BY <1>7 DEF StarterClaimLost, TypeOK, Procs, Runners
    <2>4. NoNewSuccess
      BY <1>7, <2>2, <2>3, RestatedNoNewSuccess DEF StarterClaimLost
    <2> QED
      BY <2>4, NoNewSuccessKeeps
  <1>8. ASSUME NEW w \in Workers, Handoff(w) PROVE StoredInv'
    <2>1. \A r \in Runners : pc'[r] = "succeeded" => pc[r] = "succeeded" /\ claim'[r] = claim[r]
      BY <1>8 DEF Handoff, TypeOK, Procs, Runners
    <2>2. NoNewSuccess
      BY <1>8, <2>1, UnchangedNoNewSuccess DEF Handoff
    <2> QED
      BY <2>2, NoNewSuccessKeeps
  <1>9. ASSUME NEW w \in Workers, WorkerClose(w) PROVE StoredInv'
    <2>1. \A r \in Runners : pc'[r] = "succeeded" => pc[r] = "succeeded" /\ claim'[r] = claim[r]
      BY <1>9 DEF WorkerClose, TypeOK, Procs, Runners
    <2>2. NoNewSuccess
      BY <1>9, <2>1, UnchangedNoNewSuccess DEF WorkerClose
    <2> QED
      BY <2>2, NoNewSuccessKeeps
  <1>10. ASSUME NEW r \in Runners, Extracted(r) PROVE StoredInv'
    <2>1. r \in Holders /\ claim[r].since \in 1..orders /\ orders \in Nat
      BY <1>10, SucceededHolds DEF Extracted, OrdersNumbered, Working, TypeOK
    <2>2. \A b \in Blocks : stored[b] > 0 => stored'[b] > 0
      BY <1>10, <2>1 DEF Extracted, TypeOK
    <2>3. claim[r].task \in Oids /\ claim[r].task \in Present(queue) /\ Block(r) \in Blocks
      BY <1>10, SucceededHolds DEF Extracted, Working, Block, TypeOK, Present, Queue, Task
    <2>4. \A t \in Present(queue) : queue[t].block \in Blocks
      BY DEF TypeOK, Present, Queue, Task
    <2>5. /\ stored'[Block(r)] > 0 /\ queue' = queue /\ claim' = claim
          /\ \A x \in Runners \ {r} : pc'[x] = pc[x]
      BY <1>10, <2>1, <2>3 DEF Extracted, TypeOK, Procs
    <2>6. SuccessIsStored'
      BY <2>2, <2>4, <2>5 DEF StoredInv, SuccessIsStored, Present
    <2>7. SucceededIsStored'
      BY <2>2, <2>4, <2>5, SucceededHolds DEF StoredInv, SucceededIsStored, Block, Working
    <2> QED
      BY <2>6, <2>7 DEF StoredInv
  <1>11. ASSUME NEW r \in Runners, ExtractFailed(r) PROVE StoredInv'
    <2>1. r \in Holders /\ claim[r].since \in 1..orders /\ orders \in Nat
      BY <1>11, SucceededHolds DEF ExtractFailed, OrdersNumbered, Working, TypeOK
    <2>2. \A b \in Blocks : stored[b] > 0 => stored'[b] > 0
      BY <1>11, <2>1 DEF ExtractFailed, TypeOK
    <2>3. claim[r].task \in Oids /\ claim[r].task \in Present(queue) /\ Block(r) \in Blocks
      BY <1>11, SucceededHolds DEF ExtractFailed, Working, Block, TypeOK, Present, Queue, Task
    <2>4. \A t \in Present(queue) : queue[t].block \in Blocks
      BY DEF TypeOK, Present, Queue, Task
    <2>5. /\ queue' = queue /\ claim' = claim
          /\ \A x \in Runners \ {r} : pc'[x] = pc[x]
          /\ pc'[r] # "succeeded"
      BY <1>11, <2>1, <2>3 DEF ExtractFailed, TypeOK, Procs
    <2>6. SuccessIsStored'
      BY <2>2, <2>4, <2>5 DEF StoredInv, SuccessIsStored, Present
    <2>7. SucceededIsStored'
      BY <2>2, <2>4, <2>5, SucceededHolds DEF StoredInv, SucceededIsStored, Block, Working
    <2> QED
      BY <2>6, <2>7 DEF StoredInv
  <1>12. ASSUME NEW r \in Runners, Mark(r) PROVE StoredInv'
    <2>1. /\ r \in Holders /\ claim[r].task \in Present(queue) /\ stored' = stored
          /\ \A x \in Runners \ {r} : pc'[x] = pc[x] /\ claim'[x] = claim[x]
          /\ pc'[r] # "succeeded"
      BY <1>12, OutcomeRestates DEF Mark, TypeOK, Procs, Runners
    <2>2. CASE queue' = Outcome(r)
      <3>1. /\ pc[r] = "succeeded" => Restated(queue, queue', claim[r].task, StateSuccessful)
            /\ pc[r] # "succeeded" => Restated(queue, queue', claim[r].task, StateFailed)
        BY <1>12, <2>2, OutcomeRestates DEF Mark
      <3>2. SuccessIsStored'
        BY <2>1, <3>1 DEF Restated, StoredInv, SuccessIsStored, SucceededIsStored, Block
      <3>3. SucceededIsStored'
        BY <2>1, <3>1, SucceededHolds DEF Restated, StoredInv, SucceededIsStored, Block, Working
      <3> QED
        BY <3>2, <3>3 DEF StoredInv
    <2> QED
      BY <1>12, <2>2 DEF Mark
  <1>13. ASSUME NEW r \in Runners, MarkError(r) PROVE StoredInv'
    <2>1. /\ r \in Holders /\ claim[r].task \in Present(queue) /\ stored' = stored
          /\ \A x \in Runners \ {r} : pc'[x] = pc[x] /\ claim'[x] = claim[x]
          /\ pc'[r] # "succeeded"
      BY <1>13, OutcomeRestates DEF MarkError, TypeOK, Procs, Runners
    <2>2. CASE queue' = Outcome(r)
      <3>1. /\ pc[r] = "succeeded" => Restated(queue, queue', claim[r].task, StateSuccessful)
            /\ pc[r] # "succeeded" => Restated(queue, queue', claim[r].task, StateFailed)
        BY <1>13, <2>2, OutcomeRestates DEF MarkError
      <3>2. SuccessIsStored'
        BY <2>1, <3>1 DEF Restated, StoredInv, SuccessIsStored, SucceededIsStored, Block
      <3>3. SucceededIsStored'
        BY <2>1, <3>1, SucceededHolds DEF Restated, StoredInv, SucceededIsStored, Block, Working
      <3> QED
        BY <3>2, <3>3 DEF StoredInv
    <2>3. CASE UNCHANGED queue
      <3>1. NoNewSuccess
        BY <2>1, <2>3, UnchangedNoNewSuccess
      <3> QED
        BY <3>1, NoNewSuccessKeeps
    <2> QED
      BY <1>13, <2>2, <2>3 DEF MarkError
  <1>14. ASSUME NEW w \in Workers, Forward(w) PROVE StoredInv'
    <2>1. \A r \in Runners : pc'[r] = "succeeded" => pc[r] = "succeeded" /\ claim'[r] = claim[r]
      BY <1>14 DEF Forward, TypeOK, Procs, Runners
    <2>2. NoNewSuccess
      BY <1>14, <2>1, UnchangedNoNewSuccess DEF Forward
    <2> QED
      BY <2>2, NoNewSuccessKeeps
  <1>15. ASSUME NEW w \in Workers, Summarise(w) PROVE StoredInv'
    <2>1. \A r \in Runners : pc'[r] = "succeeded" => pc[r] = "succeeded" /\ claim'[r] = claim[r]
      BY <1>15 DEF Summarise, TypeOK, Procs, Runners
    <2>2. NoNewSuccess
      BY <1>15, <2>1, UnchangedNoNewSuccess DEF Summarise
    <2> QED
      BY <2>2, NoNewSuccessKeeps
  <1>16. ASSUME NEW w \in Workers, ForwardClose(w) PROVE StoredInv'
    <2>1. \A r \in Runners : pc'[r] = "succeeded" => pc[r] = "succeeded" /\ claim'[r] = claim[r]
      BY <1>16 DEF ForwardClose, TypeOK, Procs, Runners
    <2>2. NoNewSuccess
      BY <1>16, <2>1, UnchangedNoNewSuccess DEF ForwardClose
    <2> QED
      BY <2>2, NoNewSuccessKeeps
  <1>17. ASSUME NEW b \in Blocks, RtUpdate(b) PROVE StoredInv'
    <2>1. PICK t \in FindByBlockNumber(queue, b) :
             queue' = UpsertExisting(queue, t, StateStarted, orders + 1) /\ RtTakes(t)
      BY <1>17 DEF RtUpdate
    <2>2. Armed(queue, queue', t, StateStarted, orders + 1)
      BY <2>1, FoundIsPresent, UpsertArms DEF TypeOK, States
    <2>3. \A r \in Runners : pc'[r] = "succeeded" => pc[r] = "succeeded" /\ claim'[r] = claim[r]
      BY <1>17, <2>1 DEF RtUpdate, RtTakes, TypeOK, Procs, Runners
    <2>4. NoNewSuccess
      BY <1>17, <2>2, <2>3, ArmedNoNewSuccess DEF RtUpdate
    <2> QED
      BY <2>4, NoNewSuccessKeeps
  <1>18. ASSUME NEW b \in Blocks, RtLookup(b) PROVE StoredInv'
    <2>1. \A r \in Runners : pc'[r] = "succeeded" => pc[r] = "succeeded" /\ claim'[r] = claim[r]
      BY <1>18 DEF RtLookup, proc
    <2>2. NoNewSuccess
      BY <1>18, <2>1, UnchangedNoNewSuccess DEF RtLookup
    <2> QED
      BY <2>2, NoNewSuccessKeeps
  <1>19. ASSUME RtInsert PROVE StoredInv'
    <2>1. PICK t \in Oids : InsertPending(RT, t, StateStarted) /\ RtTakes(t)
      BY <1>19 DEF RtInsert
    <2>2. Inserted(queue, queue', t, pending[RT].block, StateStarted, orders + 1, RT)
      BY <1>19, <2>1, InsertInserts DEF RtInsert, States
    <2>3. \A r \in Runners : pc'[r] = "succeeded" => pc[r] = "succeeded" /\ claim'[r] = claim[r]
      BY <1>19, <2>1 DEF RtInsert, RtTakes, TypeOK, Procs, Runners
    <2>4. NoNewSuccess
      BY <1>19, <2>2, <2>3, InsertedNoNewSuccess DEF RtInsert
    <2> QED
      BY <2>4, NoNewSuccessKeeps
  <1>20. ASSUME RtUpsertLost PROVE StoredInv'
    <2>1. \A r \in Runners : pc'[r] = "succeeded" => pc[r] = "succeeded" /\ claim'[r] = claim[r]
      BY <1>20 DEF RtUpsertLost, proc
    <2>2. NoNewSuccess
      BY <1>20, <2>1, LostUpsert, ArmedNoNewSuccess, InsertedNoNewSuccess DEF RtUpsertLost
    <2> QED
      BY <2>2, NoNewSuccessKeeps
  <1>21. ASSUME RtClose PROVE StoredInv'
    <2>1. \A r \in Runners : pc'[r] = "succeeded" => pc[r] = "succeeded" /\ claim'[r] = claim[r]
      BY <1>21 DEF RtClose, TypeOK, Procs, Runners
    <2>2. NoNewSuccess
      BY <1>21, <2>1, UnchangedNoNewSuccess DEF RtClose
    <2> QED
      BY <2>2, NoNewSuccessKeeps
  <1>22. ASSUME FeedClose PROVE StoredInv'
    <2>1. \A r \in Runners : pc'[r] = "succeeded" => pc[r] = "succeeded" /\ claim'[r] = claim[r]
      BY <1>22 DEF FeedClose, TypeOK, Procs, Runners
    <2>2. NoNewSuccess
      BY <1>22, <2>1, UnchangedNoNewSuccess DEF FeedClose
    <2> QED
      BY <2>2, NoNewSuccessKeeps
  <1>23. ASSUME Interrupt PROVE StoredInv'
    <2>1. \A r \in Runners : pc'[r] = "succeeded" => pc[r] = "succeeded" /\ claim'[r] = claim[r]
      BY <1>23 DEF Interrupt, TypeOK, Procs, Runners
    <2>2. NoNewSuccess
      BY <1>23, <2>1, UnchangedNoNewSuccess DEF Interrupt
    <2> QED
      BY <2>2, NoNewSuccessKeeps
  <1>24. ASSUME SoftShutdownOver PROVE StoredInv'
    <2>1. \A r \in Runners : pc'[r] = "succeeded" => pc[r] = "succeeded" /\ claim'[r] = claim[r]
      BY <1>24 DEF SoftShutdownOver, TypeOK, Procs, Runners
    <2>2. NoNewSuccess
      BY <1>24, <2>1, UnchangedNoNewSuccess DEF SoftShutdownOver
    <2> QED
      BY <2>2, NoNewSuccessKeeps
  <1>25. ASSUME RealTimeDone PROVE StoredInv'
    <2>1. \A r \in Runners : pc'[r] = "succeeded" => pc[r] = "succeeded" /\ claim'[r] = claim[r]
      BY <1>25 DEF RealTimeDone, TypeOK, Procs, Runners
    <2>2. NoNewSuccess
      BY <1>25, <2>1, UnchangedNoNewSuccess DEF RealTimeDone
    <2> QED
      BY <2>2, NoNewSuccessKeeps
  <1>26. ASSUME Exit PROVE StoredInv'
    <2>1. \A r \in Runners : pc'[r] = "succeeded" => pc[r] = "succeeded" /\ claim'[r] = claim[r]
      BY <1>26 DEF Exit, ProcessGone, TypeOK, Procs, Runners
    <2>2. NoNewSuccess
      BY <1>26, <2>1, UnchangedNoNewSuccess DEF Exit
    <2> QED
      BY <2>2, NoNewSuccessKeeps
  <1>27. ASSUME Crash PROVE StoredInv'
    <2>1. \A r \in Runners : pc'[r] = "succeeded" => pc[r] = "succeeded" /\ claim'[r] = claim[r]
      BY <1>27 DEF Crash, ProcessGone, TypeOK, Procs, Runners
    <2>2. NoNewSuccess
      BY <1>27, <2>1, UnchangedNoNewSuccess DEF Crash
    <2> QED
      BY <2>2, NoNewSuccessKeeps
  <1>28. ASSUME Restart PROVE StoredInv'
    <2>1. \A r \in Runners : pc'[r] = "succeeded" => pc[r] = "succeeded" /\ claim'[r] = claim[r]
      BY <1>28, FreshPCType DEF Restart, TypeOK, Procs, Runners
    <2>2. NoNewSuccess
      BY <1>28, <2>1, UnchangedNoNewSuccess DEF Restart
    <2> QED
      BY <2>2, NoNewSuccessKeeps
  <1>29. CASE UNCHANGED vars
    <2>1. NoNewSuccess
      BY <1>29, UnchangedNoNewSuccess DEF vars, proc
    <2> QED
      BY <2>1, NoNewSuccessKeeps
  <1>30. ASSUME CallRefused PROVE StoredInv'
    <2>1. \A r \in Runners : pc'[r] = "succeeded" => pc[r] = "succeeded" /\ claim'[r] = claim[r]
      BY <1>30 DEF CallRefused, TypeOK, Procs, Runners
    <2>2. NoNewSuccess
      BY <1>30, <2>1, UnchangedNoNewSuccess DEF CallRefused
    <2> QED
      BY <2>2, NoNewSuccessKeeps
  <1> QED
    BY <1>1, <1>2, <1>3, <1>4, <1>5, <1>6, <1>7, <1>8, <1>9, <1>10, <1>11, <1>12, <1>13, <1>14, <1>15, <1>16, <1>17, <1>18, <1>19, <1>20, <1>21, <1>22, <1>23, <1>24, <1>25, <1>26, <1>27, <1>28, <1>29, <1>30
    DEF Next, Taskgen, StarterStep, RunTask, WorkerStep, MergeStep, RtReceive, RtStep, Shutdown, Fault, Runners


-----------------------------------------------------------------------------
(* The invariant is inductive, and what follows from it.                   *)

USE DEF IndInv, Typing

LEMMA InitIndInv == Init => IndInv
  <1> SUFFICES ASSUME Init PROVE IndInv
    OBVIOUS
  <1>1. TypeOK
    BY InitTypeOK
  <1>2. Present(queue) = {} /\ Holders = {}
    BY DEF Init, Present, EmptyQueue, Holders, NoClaims
  <1>3. PcClaim
    BY <1>2, FreshPCType DEF Init, PcClaim, Working
  <1>4. ClaimsOnTasks /\ OrdersNumbered /\ ClaimExclusive /\ StartedIsHeld
    BY <1>2 DEF ClaimsOnTasks, OrdersNumbered, ClaimExclusive, StartedIsHeld, FindReady
  <1>5. OneTaskPerClient /\ PendingIsNew
    BY <1>2 DEF Init, OneTaskPerClient, PendingIsNew
  <1>6. SuccessIsStored /\ SucceededIsStored
    BY <1>2, FreshPCType DEF Init, SuccessIsStored, SucceededIsStored
  <1>7. Drain
    BY FreshPCType DEF Init, Drain
  <1> QED
    BY <1>1, <1>3, <1>4, <1>5, <1>6, <1>7

LEMMA IndInvStep == IndInv /\ [Next]_vars => IndInv'
  <1> SUFFICES ASSUME IndInv, [Next]_vars PROVE IndInv'
    OBVIOUS
  <1>1. TypeOK' /\ PcClaim' /\ Drain'
    BY TypeStep, PcClaimStep, DrainStep
  <1>2. TaskStep
    BY StepsAreTaskSteps
  <1>3. ClaimsOnTasks' /\ OrdersNumbered'
    BY <1>2, ClaimsOnTasksStep, OrdersNumberedStep
  <1>4. ClaimExclusive' /\ StartedIsHeld'
    BY <1>2, ClaimExclusiveStep, StartedIsHeldStep
  <1>5. OneTaskPerClient' /\ PendingIsNew'
    BY StepsAreDocumentSteps, OneTaskPerClientStep
  <1>6. SuccessIsStored' /\ SucceededIsStored'
    BY StoredStep DEF StoredInv
  <1> QED
    BY <1>1, <1>3, <1>4, <1>5, <1>6

\* The inductive invariant holds throughout.
THEOREM Invariance == Spec => []IndInv
  BY InitIndInv, IndInvStep, PTL DEF Spec

\* Type correctness.
THEOREM TypeCorrect == Spec => []TypeOK
  <1>1. IndInv => TypeOK
    OBVIOUS
  <1> QED
    BY <1>1, Invariance, PTL

\* However many workers, processes and upserts there are, StartBkTask, core.Run
\* and Extract never let two goroutines answer one order.
THEOREM Exclusion == Spec => []ClaimExclusive
  <1>1. IndInv => ClaimExclusive
    OBVIOUS
  <1> QED
    BY <1>1, Invariance, PTL

\* Whatever is in state started has a holder, or a fault or the end of main
\* took it: the pipeline itself strands nothing.
THEOREM NothingStranded == Spec => []StartedIsHeld
  <1>1. IndInv => StartedIsHeld
    OBVIOUS
  <1> QED
    BY <1>1, Invariance, PTL

\* One client never inserts two documents for a block.
THEOREM UpsertOnce == Spec => []OneTaskPerClient
  <1>1. IndInv => OneTaskPerClient
    OBVIOUS
  <1> QED
    BY <1>1, Invariance, PTL

\* A successful task's block has been committed, whatever failed on the way.
THEOREM SuccessStored == Spec => []SuccessIsStored
  <1>1. IndInv => SuccessIsStored
    OBVIOUS
  <1> QED
    BY <1>1, Invariance, PTL

\* When main returns, the workers hold nothing and have left nothing started.
THEOREM CleanShutdown == Spec => []CleanExit
  <1>1. IndInv => CleanExit
    <2> SUFFICES ASSUME IndInv, main = "exited" PROVE
                   /\ Holders = {}
                   /\ \A t \in Present(queue) :
                        queue[t].state = StateStarted => queue[t].order \in lost \cup cut
      BY DEF CleanExit
    <2>1. \A p \in Procs : pc[p] = "down"
      BY DEF Drain
    <2>2. Holders = {}
      BY <2>1 DEF PcClaim, Holders, Working, Procs
    <2> QED
      BY <2>2 DEF StartedIsHeld, HeldBy
  <1> QED
    BY <1>1, Invariance, PTL
=============================================================================
