----------------------------- MODULE BlockStore -----------------------------
(***************************************************************************)
(* saveBlockTasks (etl/src/service/db.service.ts) in PostgreSQL, statement *)
(* by statement: each writer, one export_all process saving one batch,     *)
(* opens a transaction, deletes the rows of its blocks table by table,     *)
(* inserts its own table by table, and commits or rolls back.              *)
(*                                                                         *)
(* The tables have no unique constraint (api/ddl/01_ddl_definitions.sql)   *)
(* and the transaction runs at PostgreSQL's default, READ COMMITTED: each  *)
(* statement sees the rows committed when it started; a DELETE locks them  *)
(* one by one, waits for a row another open transaction has deleted, and   *)
(* skips it if that transaction commits.                                   *)
(*                                                                         *)
(* One row stands for all the rows of a block in a table by one writer.    *)
(***************************************************************************)
EXTENDS Integers, FiniteSets

CONSTANTS
    Writers,   \* export_all processes
    Blocks,
    NTables,   \* the number of tables, saved in the order 1..NTables
    Batch,     \* writer -> the blocks it saves
    Before     \* pairs <<u, w>> of writers: w starts only once u has ended

Tables == 1..NTables

ASSUME TableAssumption == NTables \in Nat \ {0}
ASSUME BatchAssumption == Batch \in [Writers -> SUBSET Blocks]
ASSUME BeforeAssumption == Before \subseteq Writers \X Writers

VARIABLES
    rows,      \* committed rows
    pc,        \* writer -> what it does next
    tab,       \* writer -> the table of its current statement
    seen,      \* writer -> rows the current DELETE has found and not yet locked
    deleted,   \* writer -> committed rows its open transaction has deleted
    inserted,  \* writer -> rows its open transaction has inserted
    overlap    \* auxiliary: pairs of writers whose transactions were open together

vars == <<rows, pc, tab, seen, deleted, inserted, overlap>>

Row == [table : Tables, block : Blocks, by : Writers]

Open  == {"delete", "lock", "insert", "commit"}
Ended == {"committed", "rolledback"}

TypeOK ==
    /\ rows \subseteq Row
    /\ pc \in [Writers -> {"start"} \cup Open \cup Ended]
    /\ tab \in [Writers -> Tables]
    /\ seen \in [Writers -> SUBSET Row]
    /\ deleted \in [Writers -> SUBSET Row]
    /\ inserted \in [Writers -> SUBSET Row]
    /\ overlap \subseteq Writers \X Writers

Init ==
    /\ rows = {}
    /\ pc = [w \in Writers |-> "start"]
    /\ tab = [w \in Writers |-> 1]
    /\ seen = [w \in Writers |-> {}]
    /\ deleted = [w \in Writers |-> {}]
    /\ inserted = [w \in Writers |-> {}]
    /\ overlap = {}

OpenWriters == {w \in Writers : pc[w] \in Open}

\* Mutant: the delete of the last table is missing.
RowsButOfLastTable(t, B) == {r \in rows : r.table = t /\ r.block \in B /\ t < NTables}

RowsOf(t, B) == {r \in rows : r.table = t /\ r.block \in B}

\* Mutant: one statement too many.
NextStatementPastLast(w, here, next) ==
    IF tab[w] <= NTables
    THEN pc' = [pc EXCEPT ![w] = here] /\ tab' = [tab EXCEPT ![w] = @ + 1]
    ELSE pc' = [pc EXCEPT ![w] = next] /\ tab' = [tab EXCEPT ![w] = 1]

\* The next table of the current loop of statements, or the next phase.
NextStatement(w, here, next) ==
    IF tab[w] < NTables
    THEN pc' = [pc EXCEPT ![w] = here] /\ tab' = [tab EXCEPT ![w] = @ + 1]
    ELSE pc' = [pc EXCEPT ![w] = next] /\ tab' = [tab EXCEPT ![w] = 1]
-----------------------------------------------------------------------------
Begin(w) ==
    /\ pc[w] = "start"
    /\ \A u \in Writers : <<u, w>> \in Before => pc[u] \in Ended
    /\ pc' = [pc EXCEPT ![w] = "delete"]
    /\ overlap' = overlap \cup (OpenWriters \X {w}) \cup ({w} \X OpenWriters)
    /\ UNCHANGED <<rows, tab, seen, deleted, inserted>>

\* A DELETE starts: its snapshot decides which rows it will consider.
Delete(w) ==
    /\ pc[w] = "delete"
    /\ seen' = [seen EXCEPT ![w] = RowsOf(tab[w], Batch[w])]
    /\ pc' = [pc EXCEPT ![w] = "lock"]
    /\ UNCHANGED <<rows, tab, deleted, inserted, overlap>>

\* It locks one more row, once no other open transaction holds it; the row is
\* deleted unless it has gone in the meantime.
LockRow(w, r) ==
    /\ pc[w] = "lock" /\ r \in seen[w]
    /\ \A u \in Writers \ {w} : r \notin deleted[u]
    /\ seen' = [seen EXCEPT ![w] = @ \ {r}]
    /\ deleted' = [deleted EXCEPT ![w] = @ \cup ({r} \cap rows)]
    /\ UNCHANGED <<rows, pc, tab, inserted, overlap>>

Deleted(w) ==
    /\ pc[w] = "lock" /\ seen[w] = {}
    /\ NextStatement(w, "delete", "insert")
    /\ UNCHANGED <<rows, seen, deleted, inserted, overlap>>

\* Mutant: the rows are inserted beside the transaction, not in it.
InsertOutsideTransaction(w) ==
    /\ pc[w] = "insert"
    /\ rows' = rows \cup [table : {tab[w]}, block : Batch[w], by : {w}]
    /\ NextStatement(w, "insert", "commit")
    /\ UNCHANGED <<seen, deleted, inserted, overlap>>

Insert(w) ==
    /\ pc[w] = "insert"
    /\ inserted' = [inserted EXCEPT ![w] =
                       @ \cup [table : {tab[w]}, block : Batch[w], by : {w}]]
    /\ NextStatement(w, "insert", "commit")
    /\ UNCHANGED <<rows, seen, deleted, overlap>>

\* The transaction ends, and with it its locks.
End(w, outcome) ==
    /\ pc' = [pc EXCEPT ![w] = outcome]
    /\ tab' = [tab EXCEPT ![w] = 1]
    /\ seen' = [seen EXCEPT ![w] = {}]
    /\ deleted' = [deleted EXCEPT ![w] = {}]
    /\ inserted' = [inserted EXCEPT ![w] = {}]
    /\ UNCHANGED overlap

Commit(w) ==
    /\ pc[w] = "commit"
    /\ rows' = (rows \ deleted[w]) \cup inserted[w]
    /\ End(w, "committed")

\* Mutant: a failed transaction keeps the deletes it has made.
RollbackKeepsDeletes(w) ==
    /\ pc[w] \in Open
    /\ rows' = rows \ deleted[w]
    /\ End(w, "rolledback")

\* A statement fails, the process dies or PostgreSQL breaks a lock cycle.
Rollback(w) ==
    /\ pc[w] \in Open
    /\ End(w, "rolledback")
    /\ UNCHANGED rows

Step(w) ==
    \/ Begin(w) \/ Delete(w) \/ Deleted(w) \/ Insert(w) \/ Commit(w) \/ Rollback(w)
    \/ \E r \in Row : LockRow(w, r)

Next == \E w \in Writers : Step(w)

Spec == Init /\ [][Next]_vars
-----------------------------------------------------------------------------
(* Properties                                                              *)

Versions(t, b) == {r.by : r \in RowsOf(t, {b})}

\* Once a block has been saved, every table has its rows, whichever writers
\* overlap, fail or repeat it: saveBlockTasks never leaves a table without.
NothingLost ==
    \A w \in Writers : pc[w] = "committed" =>
        \A b \in Batch[w], t \in Tables : Versions(t, b) # {}

\* A later extraction replaces an earlier one completely: rows of two writers
\* stand side by side, in a table or in different ones, only if their
\* transactions were open together.
TablesAgreeUnlessOverlapping ==
    \A r, s \in rows : r.block = s.block => r.by = s.by \/ <<r.by, s.by>> \in overlap

\* Rows are written and removed by their transaction's commit alone: a reader
\* never sees the deletes of a batch without its inserts.
OneCommitAtATime ==
    [][rows' # rows => \E w \in Writers :
          /\ pc[w] = "commit" /\ pc'[w] = "committed"
          /\ \A r \in rows' \ rows : r.by = w
          /\ \A t \in Tables, b \in Batch[w] : w \in Versions(t, b)']_vars

\* Without overlapping writers, readers cannot tell it from AtomicStore.
Atomic == INSTANCE AtomicStore WITH
    store <- [t \in Tables |-> [b \in Blocks |-> Versions(t, b)]]
AtomicSpec == Atomic!Spec
=============================================================================
