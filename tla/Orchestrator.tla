---------------------------- MODULE Orchestrator ----------------------------
(***************************************************************************)
(* The orchestrator process (orc/main.go) on the task queue it shares with *)
(* taskgen: one goroutine claims ready tasks (core.Start), Workers run     *)
(* them (core.Run around RunBkTask), a forwarder per worker hands results  *)
(* to main (core.Merge), and the real-time extractor (extractionRT.Extract)*)
(* upserts and runs the blocks of the node's head subscription itself.     *)
(* Each access to MongoDB, each channel operation and each extraction is a *)
(* step of its own; a crash, an interrupt or a lost reply falls between.   *)
(*                                                                         *)
(* Channels are unbuffered: a send and its receive are one joint step.     *)
(***************************************************************************)
EXTENDS TaskQueue

CONSTANTS
    Workers,          \* the cfg.TaskWorkers.Block goroutines of core.Run
    Starter, RT,      \* the goroutine of core.Start, the real-time extractor
    Generators,       \* taskgen processes
    RealTimeEnabled,  \* cfg.RealTimeEnabled
    MaxOrders,        \* bound: upserts, by taskgen and by the extractor
    MaxFaults,        \* bound: lost or refused MongoDB calls, and crashes
    MaxStarts         \* bound: starts of the process

Runners == Workers \cup {RT}
Procs   == Runners \cup {Starter}

ASSUME WorkerAssumption ==
    /\ Workers # {}
    /\ Starter # RT /\ Starter \notin Workers /\ RT \notin Workers
ASSUME ClientAssumption == Clients = Generators \cup {RT} /\ RT \notin Generators
ASSUME RtPriorityAssumption == 1 \in Priorities
ASSUME RealTimeAssumption == RealTimeEnabled \in BOOLEAN
ASSUME BoundAssumption == MaxOrders \in Nat /\ MaxFaults \in Nat /\ MaxStarts \in Nat

VARIABLES
    queue,     \* the collection; it outlives the process
    stored,    \* block -> the orders placed when its committed extraction began, 0 if none
    pending,   \* client -> the upsert that matched nothing and is about to insert
    pc,        \* where each goroutine stands
    claim,     \* the task each goroutine holds
    fwd,       \* the forwarders of core.Merge: "recv", "send" or "closed"
    main,      \* "range" over the merged channel, "exited" or "crashed"
    shutdown,  \* "up", "interrupted" (the 5 second wait) or "done" (done2 closed)
    feed,      \* the channel of blocks into Extract is open
    orders,    \* auxiliary: orders placed so far
    lost,      \* auxiliary: orders whose claim a fault took from its holder
    cut,       \* auxiliary: orders the extractor held when main returned
    faults,    \* faults so far
    starts     \* starts of the process so far

proc == <<pc, claim, fwd, main, shutdown, feed>>
aux  == <<orders, lost, cut>>
vars == <<queue, stored, pending, proc, aux, faults, starts>>

\* A claim is the task document a goroutine holds: its order when it was
\* taken, and the orders placed when the extraction began.
Claim   == [task : Oids, order : Nat, since : Nat]
Request == [block : Blocks, priority : Priorities]
ASSUME NoneIsNoRecord == None \notin Claim /\ None \notin Request

StarterPC == {"check", "claim", "offer", "closed", "down"}
RunnerPC  == {"recv", "run", "succeeded", "failed", "report", "closed", "down"}

TypeOK ==
    /\ queue \in Queue
    /\ stored \in [Blocks -> Nat]
    /\ pending \in [Clients -> Request \cup {None}]
    /\ pc \in [Procs -> StarterPC \cup RunnerPC]
    /\ pc[Starter] \in StarterPC /\ \A r \in Runners : pc[r] \in RunnerPC
    /\ claim \in [Procs -> Claim \cup {None}]
    /\ fwd \in [Workers -> {"recv", "send", "closed"}]
    /\ main \in {"range", "exited", "crashed"}
    /\ shutdown \in {"up", "interrupted", "done"}
    /\ feed \in BOOLEAN
    /\ orders \in Nat /\ lost \in SUBSET Nat /\ cut \in SUBSET Nat
    /\ faults \in Nat /\ starts \in Nat

\* The process just after main has started its goroutines.
FreshPC  == [p \in Procs |-> IF p = Starter THEN "check"
                             ELSE IF p = RT /\ ~RealTimeEnabled THEN "closed" ELSE "recv"]
NoClaims == [p \in Procs |-> None]

Init ==
    /\ queue = EmptyQueue
    /\ stored = [b \in Blocks |-> 0]
    /\ pending = [c \in Clients |-> None]
    /\ pc = FreshPC
    /\ claim = NoClaims
    /\ fwd = [w \in Workers |-> "recv"]
    /\ main = "range"
    /\ shutdown = "up"
    /\ feed = RealTimeEnabled
    /\ orders = 0 /\ lost = {} /\ cut = {}
    /\ faults = 0 /\ starts = 1

Holders  == {p \in Procs : claim[p] # None}
HeldBy(P) == {claim[p].order : p \in P \cap Holders}
Block(p) == queue[claim[p].task].block

\* The next order: every upsert places one.
PlaceOrder == orders < MaxOrders /\ orders' = orders + 1 /\ UNCHANGED <<lost, cut>>
-----------------------------------------------------------------------------
(* taskgen: upsertTask, an upsert without a unique index on args.b.  It     *)
(* updates a document it finds in one step, and inserts in a second step.   *)

TaskgenUpdate(c, b) ==
    /\ pending[c] = None
    /\ \E t \in FindByBlockNumber(queue, b) :
          queue' = UpsertExisting(queue, t, StateReady, orders + 1)
    /\ PlaceOrder
    /\ UNCHANGED <<stored, pending, proc, faults, starts>>

TaskgenLookup(c, b, p) ==
    /\ pending[c] = None
    /\ orders < MaxOrders
    /\ FindByBlockNumber(queue, b) = {}
    /\ pending' = [pending EXCEPT ![c] = [block |-> b, priority |-> p]]
    /\ UNCHANGED <<queue, stored, proc, aux, faults, starts>>

\* Inserts what client c is about to insert, in state s.
InsertPending(c, t, s) ==
    /\ t \in Free(queue)
    /\ queue' = UpsertNew(queue, t,
            NewBkTask(pending[c].priority, pending[c].block, s, orders + 1, c))
    /\ pending' = [pending EXCEPT ![c] = None]
    /\ PlaceOrder

\* Mutant: taskgen inserts tasks as the extractor does.
TaskgenInsertStarted(c) ==
    /\ pending[c] # None
    /\ \E t \in Oids : InsertPending(c, t, StateStarted)
    /\ UNCHANGED <<stored, proc, faults, starts>>

TaskgenInsert(c) ==
    /\ pending[c] # None
    /\ \E t \in Oids : InsertPending(c, t, StateReady)
    /\ UNCHANGED <<stored, proc, faults, starts>>
-----------------------------------------------------------------------------
(* core.Start: done2 is polled, then a task claimed, then offered to the   *)
(* workers; nothing polls done2 between the claim and the offer.           *)

\* Mutant: done2 is never polled.
StarterIgnoresDone ==
    /\ pc[Starter] = "check"
    /\ pc' = [pc EXCEPT ![Starter] = "claim"]
    /\ UNCHANGED <<queue, stored, pending, claim, fwd, main, shutdown, feed, aux, faults, starts>>

StarterCheck ==
    /\ pc[Starter] = "check"
    /\ pc' = [pc EXCEPT ![Starter] = IF shutdown = "done" THEN "closed" ELSE "claim"]
    /\ UNCHANGED <<queue, stored, pending, claim, fwd, main, shutdown, feed, aux, faults, starts>>

\* FindOneAndUpdate: the document read after the update is the claim.
StarterClaim ==
    /\ pc[Starter] = "claim"
    /\ \E t \in FirstReady(queue) :
          /\ queue' = MarkAsStarted(queue, t)
          /\ claim' = [claim EXCEPT ![Starter] =
                          [task |-> t, order |-> queue[t].order, since |-> 0]]
    /\ pc' = [pc EXCEPT ![Starter] = "offer"]
    /\ UNCHANGED <<stored, pending, fwd, main, shutdown, feed, aux, faults, starts>>

\* "mongo: no documents in result": sleep, then poll again.
StarterIdle ==
    /\ pc[Starter] = "claim"
    /\ FindReady(queue) = {}
    /\ pc' = [pc EXCEPT ![Starter] = "check"]
    /\ UNCHANGED <<queue, stored, pending, claim, fwd, main, shutdown, feed, aux, faults, starts>>

\* The call fails after MongoDB applied it: the task is started, nobody has it.
StarterClaimLost ==
    /\ pc[Starter] = "claim" /\ faults < MaxFaults
    /\ \E t \in FirstReady(queue) :
          /\ queue' = MarkAsStarted(queue, t)
          /\ lost' = lost \cup {queue[t].order}
    /\ pc' = [pc EXCEPT ![Starter] = "check"]
    /\ faults' = faults + 1
    /\ UNCHANGED <<stored, pending, claim, fwd, main, shutdown, feed, orders, cut, starts>>

\* out <- d in core.Start meets "range in" in core.Run.
Handoff(w) ==
    /\ pc[Starter] = "offer" /\ pc[w] = "recv"
    /\ pc' = [pc EXCEPT ![Starter] = "check", ![w] = "run"]
    /\ claim' = [claim EXCEPT ![Starter] = None, ![w] = [claim[Starter] EXCEPT !.since = orders]]
    /\ UNCHANGED <<queue, stored, pending, fwd, main, shutdown, feed, aux, faults, starts>>

\* Mutant: a worker watches done2 instead of the closing of its input.
WorkerCloseOnDone(w) ==
    /\ pc[w] = "recv" /\ shutdown = "done"
    /\ pc' = [pc EXCEPT ![w] = "closed"]
    /\ UNCHANGED <<queue, stored, pending, claim, fwd, main, shutdown, feed, aux, faults, starts>>

WorkerClose(w) ==
    /\ pc[w] = "recv" /\ pc[Starter] = "closed"
    /\ pc' = [pc EXCEPT ![w] = "closed"]
    /\ UNCHANGED <<queue, stored, pending, claim, fwd, main, shutdown, feed, aux, faults, starts>>
-----------------------------------------------------------------------------
(* RunBkTask, by a worker or by the real-time extractor: the extraction    *)
(* program exits, then its outcome is written by object id.                *)

Extracted(p) ==
    /\ pc[p] = "run"
    /\ pc' = [pc EXCEPT ![p] = "succeeded"]
    /\ stored' = [stored EXCEPT ![Block(p)] = claim[p].since]
    /\ UNCHANGED <<queue, pending, claim, fwd, main, shutdown, feed, aux, faults, starts>>

\* It may fail, or be killed, after its transaction has committed.
ExtractFailed(p) ==
    /\ pc[p] = "run"
    /\ pc' = [pc EXCEPT ![p] = "failed"]
    /\ stored' \in {stored, [stored EXCEPT ![Block(p)] = claim[p].since]}
    /\ UNCHANGED <<queue, pending, claim, fwd, main, shutdown, feed, aux, faults, starts>>

\* Mutant: an outcome is written as successful whatever it was.
OutcomeAlwaysSuccessful(p) == MarkAsSuccessful(queue, claim[p].task)

Outcome(p) ==
    IF pc[p] = "succeeded" THEN MarkAsSuccessful(queue, claim[p].task)
                           ELSE MarkAsFailed(queue, claim[p].task)

\* A worker reports the updated document, the extractor takes the next block.
Mark(p) ==
    /\ pc[p] \in {"succeeded", "failed"}
    /\ queue' = Outcome(p)
    /\ claim' = [claim EXCEPT ![p] = None]
    /\ pc' = [pc EXCEPT ![p] = IF p = RT THEN "recv" ELSE "report"]
    /\ UNCHANGED <<stored, pending, fwd, main, shutdown, feed, aux, faults, starts>>

\* The update fails, applied or not; core.Run and Extract log and go on.
MarkError(p) ==
    /\ pc[p] \in {"succeeded", "failed"} /\ faults < MaxFaults
    /\ \/ queue' = Outcome(p) /\ UNCHANGED lost
       \/ lost' = lost \cup {claim[p].order} /\ UNCHANGED queue
    /\ claim' = [claim EXCEPT ![p] = None]
    /\ pc' = [pc EXCEPT ![p] = "recv"]
    /\ faults' = faults + 1
    /\ UNCHANGED <<stored, pending, fwd, main, shutdown, feed, orders, cut, starts>>
-----------------------------------------------------------------------------
(* core.Merge and the loop of main over the merged channel.                *)

Forward(w) ==
    /\ pc[w] = "report" /\ fwd[w] = "recv"
    /\ pc' = [pc EXCEPT ![w] = "recv"]
    /\ fwd' = [fwd EXCEPT ![w] = "send"]
    /\ UNCHANGED <<queue, stored, pending, claim, main, shutdown, feed, aux, faults, starts>>

Summarise(w) ==
    /\ fwd[w] = "send" /\ main = "range"
    /\ fwd' = [fwd EXCEPT ![w] = "recv"]
    /\ UNCHANGED <<queue, stored, pending, pc, claim, main, shutdown, feed, aux, faults, starts>>

ForwardClose(w) ==
    /\ fwd[w] = "recv" /\ pc[w] = "closed"
    /\ fwd' = [fwd EXCEPT ![w] = "closed"]
    /\ UNCHANGED <<queue, stored, pending, pc, claim, main, shutdown, feed, aux, faults, starts>>

\* Mutant: main returns as soon as one forwarder has closed.
OneForwarderClosed == \E w \in Workers : fwd[w] = "closed"

MergedClosed == \A w \in Workers : fwd[w] = "closed"

\* Nothing of the process is left, nor an insert it had under way.
ProcessGone ==
    /\ pc' = [p \in Procs |-> "down"]
    /\ pending' = [pending EXCEPT ![RT] = None]
    /\ fwd' = [w \in Workers |-> "closed"]
    /\ shutdown' = "done"
    /\ feed' = FALSE

\* All workers terminated: main returns, and the extractor dies where it stands.
Exit ==
    /\ main = "range" /\ MergedClosed
    /\ main' = "exited"
    /\ cut' = cut \cup HeldBy({RT})
    /\ claim' = [claim EXCEPT ![RT] = None]
    /\ ProcessGone
    /\ UNCHANGED <<queue, stored, orders, lost, faults, starts>>
-----------------------------------------------------------------------------
(* extractionRT.Extract: a block of the head subscription is upserted as   *)
(* started, bypassing the ready state, and run by the same goroutine.      *)

\* The document an upsert returned becomes the claim.
RtTakes(t) ==
    /\ claim' = [claim EXCEPT ![RT] = [task |-> t, order |-> orders + 1, since |-> orders + 1]]
    /\ pc' = [pc EXCEPT ![RT] = "run"]

RtUpdate(b) ==
    /\ feed /\ pc[RT] = "recv" /\ pending[RT] = None
    /\ \E t \in FindByBlockNumber(queue, b) :
          queue' = UpsertExisting(queue, t, StateStarted, orders + 1) /\ RtTakes(t)
    /\ PlaceOrder
    /\ UNCHANGED <<stored, pending, fwd, main, shutdown, feed, faults, starts>>

RtLookup(b) ==
    /\ feed /\ pc[RT] = "recv" /\ pending[RT] = None
    /\ orders < MaxOrders
    /\ FindByBlockNumber(queue, b) = {}
    /\ pending' = [pending EXCEPT ![RT] = [block |-> b, priority |-> 1]]
    /\ UNCHANGED <<queue, stored, proc, aux, faults, starts>>

RtInsert ==
    /\ pending[RT] # None
    /\ \E t \in Oids : InsertPending(RT, t, StateStarted) /\ RtTakes(t)
    /\ UNCHANGED <<stored, fwd, main, shutdown, feed, faults, starts>>

\* The upsert fails after MongoDB applied it; Extract logs and takes the next.
RtUpsertLost ==
    /\ faults < MaxFaults /\ orders < MaxOrders
    /\ \/ /\ feed /\ pc[RT] = "recv" /\ pending[RT] = None
          /\ \E t \in Present(queue) :
                queue' = UpsertExisting(queue, t, StateStarted, orders + 1)
          /\ UNCHANGED pending
       \/ /\ pending[RT] # None
          /\ \E t \in Free(queue) : queue' = UpsertNew(queue, t,
                NewBkTask(1, pending[RT].block, StateStarted, orders + 1, RT))
          /\ pending' = [pending EXCEPT ![RT] = None]
    /\ orders' = orders + 1
    /\ lost' = lost \cup {orders + 1}
    /\ faults' = faults + 1
    /\ UNCHANGED <<stored, proc, cut, starts>>

\* The subscription ends, and Schedule has passed on what it had received.
FeedClose ==
    /\ feed /\ main = "range"
    /\ feed' = FALSE
    /\ UNCHANGED <<queue, stored, pending, pc, claim, fwd, main, shutdown, aux, faults, starts>>

RtClose ==
    /\ ~feed /\ pc[RT] = "recv" /\ pending[RT] = None
    /\ pc' = [pc EXCEPT ![RT] = "closed"]
    /\ UNCHANGED <<queue, stored, pending, claim, fwd, main, shutdown, feed, aux, faults, starts>>
-----------------------------------------------------------------------------
(* The goroutine of main that closes done2, crashes and restarts.          *)

Interrupt ==
    /\ shutdown = "up" /\ main = "range"
    /\ shutdown' = "interrupted"
    /\ UNCHANGED <<queue, stored, pending, pc, claim, fwd, main, feed, aux, faults, starts>>

\* The wait of 5 seconds is over, or the close message could not be written.
SoftShutdownOver ==
    /\ shutdown = "interrupted" /\ main = "range"
    /\ shutdown' = "done"
    /\ UNCHANGED <<queue, stored, pending, pc, claim, fwd, main, feed, aux, faults, starts>>

\* The channel "done" of Notify is closed once Extract has closed its own.
RealTimeDone ==
    /\ RealTimeEnabled /\ pc[RT] = "closed" /\ shutdown = "up"
    /\ shutdown' = "done"
    /\ UNCHANGED <<queue, stored, pending, pc, claim, fwd, main, feed, aux, faults, starts>>

\* A call is refused without effect: Start sleeps and polls again, Extract goes
\* on to its next block, taskgen ends.  A refused update of a document changes
\* nothing but the time.
CallRefused ==
    /\ faults < MaxFaults
    /\ \/ /\ pc[Starter] = "claim"
          /\ pc' = [pc EXCEPT ![Starter] = "check"]
          /\ UNCHANGED pending
       \/ /\ \E c \in Clients : pending[c] # None /\ pending' = [pending EXCEPT ![c] = None]
          /\ UNCHANGED pc
    /\ faults' = faults + 1
    /\ UNCHANGED <<queue, stored, claim, fwd, main, shutdown, feed, aux, starts>>

Crash ==
    /\ main = "range" /\ faults < MaxFaults
    /\ main' = "crashed"
    /\ lost' = lost \cup HeldBy(Procs)
    /\ claim' = NoClaims
    /\ ProcessGone
    /\ faults' = faults + 1
    /\ UNCHANGED <<queue, stored, orders, cut, starts>>

\* A new process on the old queue; nothing in it looks at started tasks.
Restart ==
    /\ main # "range" /\ starts < MaxStarts
    /\ pc' = FreshPC
    /\ claim' = NoClaims
    /\ fwd' = [w \in Workers |-> "recv"]
    /\ main' = "range"
    /\ shutdown' = "up"
    /\ feed' = RealTimeEnabled
    /\ starts' = starts + 1
    /\ UNCHANGED <<queue, stored, pending, aux, faults>>
-----------------------------------------------------------------------------
Taskgen(c) == \/ \E b \in Blocks : TaskgenUpdate(c, b)
              \/ \E b \in Blocks, p \in Priorities : TaskgenLookup(c, b, p)
              \/ TaskgenInsert(c)

StarterStep == StarterCheck \/ StarterClaim \/ StarterIdle

RunTask(p)    == Extracted(p) \/ ExtractFailed(p) \/ Mark(p)
WorkerStep(w) == Handoff(w) \/ WorkerClose(w) \/ RunTask(w)
MergeStep(w)  == Forward(w) \/ Summarise(w) \/ ForwardClose(w)
RtReceive     == \E b \in Blocks : RtUpdate(b) \/ RtLookup(b)
RtStep        == RtInsert \/ RunTask(RT) \/ RtClose

Shutdown == SoftShutdownOver \/ RealTimeDone
Fault    == StarterClaimLost \/ RtUpsertLost \/ (\E p \in Runners : MarkError(p)) \/ CallRefused \/ Crash

Next ==
    \/ \E c \in Generators : Taskgen(c)
    \/ StarterStep
    \/ \E w \in Workers : WorkerStep(w) \/ MergeStep(w)
    \/ RtReceive \/ RtStep
    \/ FeedClose \/ Interrupt \/ Shutdown \/ Exit
    \/ Fault \/ Restart

Spec == Init /\ [][Next]_vars

\* Goroutines run, the extraction program ends and the timer fires.  Nothing
\* obliges taskgen, the node, the operator or a fault to act.
Fairness ==
    /\ WF_vars(StarterStep)
    /\ \A w \in Workers : WF_vars(WorkerStep(w)) /\ WF_vars(MergeStep(w))
    /\ WF_vars(RtStep)
    /\ WF_vars(Shutdown)
    /\ WF_vars(Exit)

FairSpec == Spec /\ Fairness
-----------------------------------------------------------------------------
(* Properties                                                              *)

\* Two goroutines never answer the same order, and a task waiting in state
\* ready is held by none of them for its present order: FindOneAndUpdate in
\* StartBkTask is what keeps Workers and the real-time extractor apart.
ClaimExclusive ==
    /\ \A p, r \in Holders : claim[p].order = claim[r].order => p = r
    /\ \A t \in FindReady(queue) : queue[t].order \notin HeldBy(Procs)

\* A task in state started has a goroutine that will write its outcome, unless
\* a fault or the end of main took it: started is never reached, handed over
\* or kept by the pipeline itself without a holder (Start, Run, Extract).
StartedIsHeld ==
    \A t \in Present(queue) : queue[t].state = StateStarted
        => queue[t].order \in HeldBy(Procs) \cup lost \cup cut

\* Upserts race because args.b has no unique index, yet one client inserts at
\* most one document per block, so a block has at most one per client.
OneTaskPerClient ==
    \A t, u \in Present(queue) :
        queue[t].block = queue[u].block /\ queue[t].by = queue[u].by => t = u

\* A task is successful only if its block has been extracted and committed,
\* through any number of crashes, restarts, retries and stale writes.
SuccessIsStored ==
    \A t \in Present(queue) : queue[t].state = StateSuccessful => stored[queue[t].block] > 0

\* "All workers terminated": when main returns, every task the workers took is
\* settled; what stays started was lost to a fault or cut from the extractor.
CleanExit ==
    main = "exited" =>
        /\ Holders = {}
        /\ \A t \in Present(queue) :
              queue[t].state = StateStarted => queue[t].order \in lost \cup cut

\* README.md: scheduling a task re-extracts its block.  An order reported
\* successful was followed by an extraction.
OrderHonoured ==
    \A t \in Present(queue) : queue[t].state = StateSuccessful
        => stored[queue[t].block] >= queue[t].order

\* taskgen.go: "the lower the higher".  The task a worker will get next is one
\* of the highest priority among those ready when it was claimed.
PriorityRespected ==
    [][claim[Starter] = None /\ claim'[Starter] # None =>
          \A t \in FindReady(queue) :
              queue[claim'[Starter].task].priority <= queue[t].priority]_vars

\* Once interrupted or cut off from the node, the process comes to its end.
ShutdownCompletes == shutdown # "up" ~> main # "range"

\* A ready task is taken, unless the process is shut down or crashes.
ReadyIsTaken ==
    \A t \in Oids : (t \in FindReady(queue)) ~>
        (t \notin FindReady(queue) \/ shutdown # "up" \/ main # "range")

\* What a goroutine holds is settled, cut at the exit or lost to a fault.
ClaimIsSettled ==
    \A o \in 1..MaxOrders : (o \in HeldBy(Procs)) ~> (o \notin HeldBy(Procs))
-----------------------------------------------------------------------------
(* The inductive invariant behind the properties above.                    *)

Working == {"run", "succeeded", "failed"}

\* A goroutine holds a claim exactly where it has one to answer.
PcClaim ==
    /\ Starter \in Holders <=> pc[Starter] = "offer"
    /\ \A r \in Runners : r \in Holders <=> pc[r] \in Working
    /\ pending[RT] # None => pc[RT] = "recv"

\* Claims name documents of the collection, of an order not newer than theirs.
ClaimsOnTasks ==
    \A p \in Holders :
        /\ claim[p].task \in Present(queue)
        /\ claim[p].order <= queue[claim[p].task].order
        /\ \A t \in Present(queue) : queue[t].order = claim[p].order => t = claim[p].task

\* Orders are numbered from 1, each places one task.
OrdersNumbered ==
    /\ \A t \in Present(queue) : queue[t].order \in 1..orders
    /\ \A p \in Holders : claim[p].order \in 1..orders
    /\ \A r \in Runners \cap Holders : claim[r].since \in 1..orders
    /\ \A t, u \in Present(queue) : queue[t].order = queue[u].order => t = u

\* A client about to insert has not inserted that block before.
PendingIsNew ==
    \A c \in Clients : pending[c] # None =>
        \A t \in Present(queue) : queue[t].block = pending[c].block => queue[t].by # c

SucceededIsStored ==
    \A r \in Runners : pc[r] = "succeeded" => stored[Block(r)] > 0

\* The channels close in the order starter, workers, forwarders; then main ends.
Drain ==
    /\ main = "range" =>
          /\ \A w \in Workers : fwd[w] = "closed" => pc[w] = "closed"
          /\ (\E w \in Workers : pc[w] = "closed") => pc[Starter] = "closed"
    /\ main # "range" => \A p \in Procs : pc[p] = "down"

Typing == TypeOK /\ PcClaim /\ ClaimsOnTasks /\ OrdersNumbered

IndInv ==
    /\ Typing
    /\ ClaimExclusive
    /\ StartedIsHeld
    /\ OneTaskPerClient /\ PendingIsNew
    /\ SuccessIsStored /\ SucceededIsStored
    /\ Drain
=============================================================================
