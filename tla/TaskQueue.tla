------------------------------ MODULE TaskQueue ------------------------------
(***************************************************************************)
(* The "blockTask" collection of MongoDB and the updates the orchestrator  *)
(* and taskgen apply to it (orc/core/core.go, orc/model, orc/service).     *)
(*                                                                         *)
(* A queue q maps each object id to a task document, or to None while no   *)
(* document has that id.  No code deletes a document.  Two fields are      *)
(* auxiliary:                                                              *)
(*   order  the number of the last request that armed the task, i.e. of    *)
(*          the last upsert; a claim remembers the order it answers, so a  *)
(*          stale claim can be told from the current one;                  *)
(*   by     the client whose upsert inserted the document.                 *)
(* Timestamps and errorReason are left out, but for processAfter, here     *)
(* after: the time of the insertion, told by the order that inserted the   *)
(* document, as if the clocks of all clients agreed.  It is never written  *)
(* again, so a document is due from then on.                               *)
(***************************************************************************)
EXTENDS Integers, FiniteSets

CONSTANTS
    Oids,        \* object ids, bounding the documents the collection holds
    Blocks,      \* block numbers
    Priorities,  \* "the lower the higher"
    Clients,     \* processes that upsert tasks
    None         \* no document, no claim, no upsert under way

ASSUME PriorityAssumption == Priorities \subseteq Nat

-----------------------------------------------------------------------------
StateReady      == "ready"
StateStarted    == "started"
StateFailed     == "failed"
StateSuccessful == "successful"

States   == {StateReady, StateStarted, StateFailed, StateSuccessful}
Terminal == {StateFailed, StateSuccessful}

Task == [state: States, block: Blocks, priority: Priorities, after: Nat,
         order: Nat, by: Clients]

ASSUME NoneIsNoTask == None \notin Task

Queue == [Oids -> Task \cup {None}]

EmptyQueue == [t \in Oids |-> None]
-----------------------------------------------------------------------------
Present(q) == {t \in Oids : q[t] # None}
Free(q)    == Oids \ Present(q)

\* Mutant: an upsert that also filters by state.
FindReadyByBlockNumber(q, b) ==
    {t \in Present(q) : q[t].block = b /\ q[t].state = StateReady}

\* The documents an upsert of block b matches: its filter is args.b alone.
FindByBlockNumber(q, b) == {t \in Present(q) : q[t].block = b}

FindReady(q) == {t \in Present(q) : q[t].state = StateReady}

\* Mutant: only the tasks of the highest priority are claimed.
TopPriorityOnly(q) == {t \in FindReady(q) : q[t].priority = 1}

Before(k, l) == k[1] < l[1] \/ (k[1] = l[1] /\ k[2] <= l[2])

\* The ready tasks FindOneAndUpdate may take first.  StartBkTask gives its three
\* sort keys in a Go map, which keeps no order: the sort is by priority, then
\* processAfter, or the other way round.
FirstReady(q) == {t \in FindReady(q) :
    \/ \A u \in FindReady(q) :
          Before(<<q[t].priority, q[t].after>>, <<q[u].priority, q[u].after>>)
    \/ \A u \in FindReady(q) :
          Before(<<q[t].after, q[t].priority>>, <<q[u].after, q[u].priority>>)}

\* Mutants: a claim that leaves the state alone, a state of no known name.
MarkAsStartedForgotten(q, t) == q
MarkAsErrored(q, t) == [q EXCEPT ![t].state = "error"]

MarkAsStarted(q, t)    == [q EXCEPT ![t].state = StateStarted]
MarkAsFailed(q, t)     == [q EXCEPT ![t].state = StateFailed]
MarkAsSuccessful(q, t) == [q EXCEPT ![t].state = StateSuccessful]

\* The document an upsert inserts when its filter matched nothing.
NewBkTask(p, b, s, o, c) ==
    [state |-> s, block |-> b, priority |-> p, after |-> o, order |-> o, by |-> c]

\* $set writes the state whatever it was; $setOnInsert leaves the priority of
\* an existing document alone.
UpsertExisting(q, t, s, o) == [q EXCEPT ![t].state = s, ![t].order = o]
UpsertNew(q, t, d)         == [q EXCEPT ![t] = d]
=============================================================================
