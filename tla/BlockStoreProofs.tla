-------------------------- MODULE BlockStoreProofs --------------------------
(* Theorems about BlockStore, for every number of writers, blocks and       *)
(* tables, every assignment of batches and every order of the writers.      *)
EXTENDS BlockStore, TLAPS

(***************************************************************************)
(* The inductive invariant                                                 *)
(***************************************************************************)
\* A transaction that is not open holds nothing, and begins with the first table.
ClosedIsEmpty ==
    \A w \in Writers : pc[w] \notin Open =>
        seen[w] = {} /\ deleted[w] = {} /\ inserted[w] = {} /\ tab[w] = 1

\* What a writer deletes is of its own blocks, and there until it commits.
DeletesOwnBlocks ==
    \A w \in Writers :
        /\ deleted[w] \subseteq rows
        /\ \A r \in deleted[w] \cup seen[w] : r.block \in Batch[w]

\* Two open transactions never hold the same row.
LocksExclusive ==
    \A u, w \in Writers : u # w => deleted[u] \cap deleted[w] = {}

\* Rows are committed by their writer, and of its batch.
RowsAreCommitted == \A r \in rows : pc[r.by] = "committed" /\ r.block \in Batch[r.by]

\* What a transaction has inserted: the tables it has come to, for its batch.
InsertedSoFar ==
    \A w \in Writers :
        /\ \A r \in inserted[w] : r.by = w /\ r.block \in Batch[w]
        /\ pc[w] = "insert" =>
             \A t \in Tables, b \in Batch[w] :
                 t < tab[w] => [table |-> t, block |-> b, by |-> w] \in inserted[w]
        /\ pc[w] = "commit" =>
             \A t \in Tables, b \in Batch[w] : [table |-> t, block |-> b, by |-> w] \in inserted[w]

\* Open together is recorded, and of both.
OverlapRecorded ==
    /\ \A u, w \in Writers : u # w /\ pc[u] \in Open /\ pc[w] \in Open => <<u, w>> \in overlap
    /\ \A u, w \in Writers : <<u, w>> \in overlap => <<w, u>> \in overlap

\* A row of a writer that had ended before w began is found by w's DELETE.
EarlierAreFound ==
    \A w \in Writers, r \in rows :
        r.block \in Batch[w] /\ <<r.by, w>> \notin overlap =>
            /\ pc[w] \in {"delete", "lock"} /\ r.table < tab[w] => r \in deleted[w]
            /\ pc[w] = "lock" /\ r.table = tab[w] => r \in seen[w] \cup deleted[w]
            /\ pc[w] \in {"insert", "commit"} => r \in deleted[w]

Inserts  == TypeOK /\ InsertedSoFar
Deletes  == ClosedIsEmpty /\ DeletesOwnBlocks /\ LocksExclusive /\ RowsAreCommitted
IndInv   == Inserts /\ Deletes /\ OverlapRecorded /\ EarlierAreFound /\ NothingLost
            /\ TablesAgreeUnlessOverlapping

(***************************************************************************)
(* Types and inserts                                                       *)
(***************************************************************************)
LEMMA InitTypes == Init => Inserts
  BY TableAssumption DEF Init, Inserts, TypeOK, InsertedSoFar, Tables, Open, Ended

LEMMA TypeNext == TypeOK /\ [Next]_vars => TypeOK'
<1> SUFFICES ASSUME TypeOK, [Next]_vars PROVE TypeOK'
  OBVIOUS
<1> USE DEF TypeOK, Open, Ended, Tables
<1>1. ASSUME NEW w \in Writers, Begin(w) PROVE TypeOK'
  <2>1. overlap' \subseteq Writers \X Writers
    BY <1>1 DEF Begin, OpenWriters
  <2>2. QED
    BY <1>1, <2>1 DEF Begin
<1>2. ASSUME NEW w \in Writers, Delete(w) PROVE TypeOK'
  BY <1>2 DEF Delete, RowsOf
<1>3. ASSUME NEW w \in Writers, NEW r \in Row, LockRow(w, r) PROVE TypeOK'
  BY <1>3 DEF LockRow
<1>4. ASSUME NEW w \in Writers, Deleted(w) PROVE TypeOK'
  BY <1>4, TableAssumption DEF Deleted, NextStatement
<1>5. ASSUME NEW w \in Writers, Insert(w) PROVE TypeOK'
  <2>1. [table : {tab[w]}, block : Batch[w], by : {w}] \subseteq Row
    BY BatchAssumption DEF Row
  <2>2. inserted' \in [Writers -> SUBSET Row]
    BY <1>5, <2>1 DEF Insert
  <2>3. QED
    BY <1>5, <2>2, TableAssumption DEF Insert, NextStatement
<1>6. ASSUME NEW w \in Writers, Commit(w) PROVE TypeOK'
  BY <1>6, TableAssumption DEF Commit, End
<1>7. ASSUME NEW w \in Writers, Rollback(w) PROVE TypeOK'
  BY <1>7, TableAssumption DEF Rollback, End
<1>8. CASE UNCHANGED vars
  BY <1>8 DEF vars
<1>9. QED
  BY <1>1, <1>2, <1>3, <1>4, <1>5, <1>6, <1>7, <1>8 DEF Next, Step

LEMMA InsertedNext == TypeOK /\ InsertedSoFar /\ [Next]_vars => InsertedSoFar'
<1> SUFFICES ASSUME TypeOK, InsertedSoFar, [Next]_vars PROVE InsertedSoFar'
  OBVIOUS
<1> USE DEF TypeOK, InsertedSoFar, Open, Ended, Tables
<1>1. ASSUME NEW w \in Writers, Begin(w) PROVE InsertedSoFar'
  BY <1>1, TableAssumption DEF Begin
<1>2. ASSUME NEW w \in Writers, Delete(w) PROVE InsertedSoFar'
  BY <1>2, TableAssumption DEF Delete
<1>3. ASSUME NEW w \in Writers, NEW r \in Row, LockRow(w, r) PROVE InsertedSoFar'
  BY <1>3, TableAssumption DEF LockRow
<1>4. ASSUME NEW w \in Writers, Deleted(w) PROVE InsertedSoFar'
  BY <1>4, TableAssumption DEF Deleted, NextStatement
<1>5. ASSUME NEW w \in Writers, Insert(w) PROVE InsertedSoFar'
  BY <1>5, TableAssumption DEF Insert, NextStatement
<1>6. ASSUME NEW w \in Writers, Commit(w) PROVE InsertedSoFar'
  BY <1>6, TableAssumption DEF Commit, End
<1>7. ASSUME NEW w \in Writers, Rollback(w) PROVE InsertedSoFar'
  BY <1>7, TableAssumption DEF Rollback, End
<1>8. CASE UNCHANGED vars
  BY <1>8 DEF vars
<1>9. QED
  BY <1>1, <1>2, <1>3, <1>4, <1>5, <1>6, <1>7, <1>8 DEF Next, Step

(***************************************************************************)
(* Deletes                                                                 *)
(***************************************************************************)
LEMMA ClosedNext == TypeOK /\ ClosedIsEmpty /\ [Next]_vars => ClosedIsEmpty'
<1> SUFFICES ASSUME TypeOK, ClosedIsEmpty, [Next]_vars PROVE ClosedIsEmpty'
  OBVIOUS
<1> USE DEF TypeOK, ClosedIsEmpty, Open, Ended
<1>1. ASSUME NEW w \in Writers, Begin(w) PROVE ClosedIsEmpty'
  BY <1>1 DEF Begin
<1>2. ASSUME NEW w \in Writers, Delete(w) PROVE ClosedIsEmpty'
  BY <1>2 DEF Delete
<1>3. ASSUME NEW w \in Writers, NEW r \in Row, LockRow(w, r) PROVE ClosedIsEmpty'
  BY <1>3 DEF LockRow
<1>4. ASSUME NEW w \in Writers, Deleted(w) PROVE ClosedIsEmpty'
  BY <1>4 DEF Deleted, NextStatement
<1>5. ASSUME NEW w \in Writers, Insert(w) PROVE ClosedIsEmpty'
  BY <1>5 DEF Insert, NextStatement
<1>6. ASSUME NEW w \in Writers, Commit(w) PROVE ClosedIsEmpty'
  BY <1>6 DEF Commit, End
<1>7. ASSUME NEW w \in Writers, Rollback(w) PROVE ClosedIsEmpty'
  BY <1>7 DEF Rollback, End
<1>8. CASE UNCHANGED vars
  BY <1>8 DEF vars
<1>9. QED
  BY <1>1, <1>2, <1>3, <1>4, <1>5, <1>6, <1>7, <1>8 DEF Next, Step

LEMMA OwnBlocksNext == TypeOK /\ ClosedIsEmpty /\ DeletesOwnBlocks /\ LocksExclusive /\ [Next]_vars => DeletesOwnBlocks'
<1> SUFFICES ASSUME TypeOK, ClosedIsEmpty, DeletesOwnBlocks, LocksExclusive, [Next]_vars PROVE DeletesOwnBlocks'
  OBVIOUS
<1> USE DEF TypeOK, ClosedIsEmpty, DeletesOwnBlocks, LocksExclusive, Open, Ended, RowsOf
<1>1. ASSUME NEW w \in Writers, Begin(w) PROVE DeletesOwnBlocks'
  BY <1>1 DEF Begin
<1>2. ASSUME NEW w \in Writers, Delete(w) PROVE DeletesOwnBlocks'
  BY <1>2 DEF Delete
<1>3. ASSUME NEW w \in Writers, NEW r \in Row, LockRow(w, r) PROVE DeletesOwnBlocks'
  BY <1>3 DEF LockRow
<1>4. ASSUME NEW w \in Writers, Deleted(w) PROVE DeletesOwnBlocks'
  BY <1>4 DEF Deleted, NextStatement
<1>5. ASSUME NEW w \in Writers, Insert(w) PROVE DeletesOwnBlocks'
  BY <1>5 DEF Insert, NextStatement
<1>6. ASSUME NEW w \in Writers, Commit(w) PROVE DeletesOwnBlocks'
  BY <1>6 DEF Commit, End
<1>7. ASSUME NEW w \in Writers, Rollback(w) PROVE DeletesOwnBlocks'
  BY <1>7 DEF Rollback, End
<1>8. CASE UNCHANGED vars
  BY <1>8 DEF vars
<1>9. QED
  BY <1>1, <1>2, <1>3, <1>4, <1>5, <1>6, <1>7, <1>8 DEF Next, Step

LEMMA LocksNext == TypeOK /\ LocksExclusive /\ [Next]_vars => LocksExclusive'
<1> SUFFICES ASSUME TypeOK, LocksExclusive, [Next]_vars PROVE LocksExclusive'
  OBVIOUS
<1> USE DEF TypeOK, LocksExclusive
<1>1. ASSUME NEW w \in Writers, Begin(w) PROVE LocksExclusive'
  BY <1>1 DEF Begin
<1>2. ASSUME NEW w \in Writers, Delete(w) PROVE LocksExclusive'
  BY <1>2 DEF Delete
<1>3. ASSUME NEW w \in Writers, NEW r \in Row, LockRow(w, r) PROVE LocksExclusive'
  BY <1>3 DEF LockRow
<1>4. ASSUME NEW w \in Writers, Deleted(w) PROVE LocksExclusive'
  BY <1>4 DEF Deleted, NextStatement
<1>5. ASSUME NEW w \in Writers, Insert(w) PROVE LocksExclusive'
  BY <1>5 DEF Insert, NextStatement
<1>6. ASSUME NEW w \in Writers, Commit(w) PROVE LocksExclusive'
  BY <1>6 DEF Commit, End
<1>7. ASSUME NEW w \in Writers, Rollback(w) PROVE LocksExclusive'
  BY <1>7 DEF Rollback, End
<1>8. CASE UNCHANGED vars
  BY <1>8 DEF vars
<1>9. QED
  BY <1>1, <1>2, <1>3, <1>4, <1>5, <1>6, <1>7, <1>8 DEF Next, Step

LEMMA CommittedNext == TypeOK /\ InsertedSoFar /\ RowsAreCommitted /\ [Next]_vars => RowsAreCommitted'
<1> SUFFICES ASSUME TypeOK, InsertedSoFar, RowsAreCommitted, [Next]_vars PROVE RowsAreCommitted'
  OBVIOUS
<1> USE DEF TypeOK, InsertedSoFar, RowsAreCommitted, Row, Open, Ended
<1>1. ASSUME NEW w \in Writers, Begin(w) PROVE RowsAreCommitted'
  BY <1>1 DEF Begin
<1>2. ASSUME NEW w \in Writers, Delete(w) PROVE RowsAreCommitted'
  BY <1>2 DEF Delete
<1>3. ASSUME NEW w \in Writers, NEW r \in Row, LockRow(w, r) PROVE RowsAreCommitted'
  BY <1>3 DEF LockRow
<1>4. ASSUME NEW w \in Writers, Deleted(w) PROVE RowsAreCommitted'
  BY <1>4 DEF Deleted, NextStatement
<1>5. ASSUME NEW w \in Writers, Insert(w) PROVE RowsAreCommitted'
  BY <1>5 DEF Insert, NextStatement
<1>6. ASSUME NEW w \in Writers, Commit(w) PROVE RowsAreCommitted'
  BY <1>6 DEF Commit, End
<1>7. ASSUME NEW w \in Writers, Rollback(w) PROVE RowsAreCommitted'
  BY <1>7 DEF Rollback, End
<1>8. CASE UNCHANGED vars
  BY <1>8 DEF vars
<1>9. QED
  BY <1>1, <1>2, <1>3, <1>4, <1>5, <1>6, <1>7, <1>8 DEF Next, Step

LEMMA OverlapNext == TypeOK /\ OverlapRecorded /\ [Next]_vars => OverlapRecorded'
<1> SUFFICES ASSUME TypeOK, OverlapRecorded, [Next]_vars PROVE OverlapRecorded'
  OBVIOUS
<1> USE DEF TypeOK, OverlapRecorded, OpenWriters, Open, Ended
<1>1. ASSUME NEW w \in Writers, Begin(w) PROVE OverlapRecorded'
  BY <1>1 DEF Begin
<1>2. ASSUME NEW w \in Writers, Delete(w) PROVE OverlapRecorded'
  BY <1>2 DEF Delete
<1>3. ASSUME NEW w \in Writers, NEW r \in Row, LockRow(w, r) PROVE OverlapRecorded'
  BY <1>3 DEF LockRow
<1>4. ASSUME NEW w \in Writers, Deleted(w) PROVE OverlapRecorded'
  BY <1>4 DEF Deleted, NextStatement
<1>5. ASSUME NEW w \in Writers, Insert(w) PROVE OverlapRecorded'
  BY <1>5 DEF Insert, NextStatement
<1>6. ASSUME NEW w \in Writers, Commit(w) PROVE OverlapRecorded'
  BY <1>6 DEF Commit, End
<1>7. ASSUME NEW w \in Writers, Rollback(w) PROVE OverlapRecorded'
  BY <1>7 DEF Rollback, End
<1>8. CASE UNCHANGED vars
  BY <1>8 DEF vars
<1>9. QED
  BY <1>1, <1>2, <1>3, <1>4, <1>5, <1>6, <1>7, <1>8 DEF Next, Step

LEMMA FoundNext == TypeOK /\ ClosedIsEmpty /\ InsertedSoFar /\ RowsAreCommitted /\ OverlapRecorded /\ EarlierAreFound /\ [Next]_vars => EarlierAreFound'
<1> SUFFICES ASSUME TypeOK, ClosedIsEmpty, InsertedSoFar, RowsAreCommitted, OverlapRecorded, EarlierAreFound, [Next]_vars PROVE EarlierAreFound'
  OBVIOUS
<1> USE DEF TypeOK, ClosedIsEmpty, InsertedSoFar, RowsAreCommitted, OverlapRecorded, EarlierAreFound, Row, Tables, Open, Ended, RowsOf
<1>1. ASSUME NEW w \in Writers, Begin(w) PROVE EarlierAreFound'
  BY <1>1, TableAssumption DEF Begin
<1>2. ASSUME NEW w \in Writers, Delete(w) PROVE EarlierAreFound'
  BY <1>2, TableAssumption DEF Delete
<1>3. ASSUME NEW w \in Writers, NEW r \in Row, LockRow(w, r) PROVE EarlierAreFound'
  BY <1>3, TableAssumption DEF LockRow
<1>4. ASSUME NEW w \in Writers, Deleted(w) PROVE EarlierAreFound'
  BY <1>4, TableAssumption DEF Deleted, NextStatement
<1>5. ASSUME NEW w \in Writers, Insert(w) PROVE EarlierAreFound'
  BY <1>5, TableAssumption DEF Insert, NextStatement
<1>6. ASSUME NEW w \in Writers, Commit(w) PROVE EarlierAreFound'
  BY <1>6, TableAssumption DEF Commit, End
<1>7. ASSUME NEW w \in Writers, Rollback(w) PROVE EarlierAreFound'
  BY <1>7, TableAssumption DEF Rollback, End
<1>8. CASE UNCHANGED vars
  BY <1>8 DEF vars
<1>9. QED
  BY <1>1, <1>2, <1>3, <1>4, <1>5, <1>6, <1>7, <1>8 DEF Next, Step

(***************************************************************************)
(* Commits                                                                 *)
(***************************************************************************)
\* Only a commit changes the rows.
LEMMA RowsFrame ==
  [Next]_vars => \/ \E w \in Writers : Commit(w)
                 \/ rows' = rows
  BY DEF Next, Step, Begin, Delete, LockRow, Deleted, Insert, Rollback, vars

\* A commit brings the whole batch, and takes what the transaction deleted.
LEMMA CommitIsWhole ==
  ASSUME Inserts, NEW w \in Writers, Commit(w)
  PROVE  /\ pc[w] = "commit" /\ pc'[w] = "committed"
         /\ rows' = (rows \ deleted[w]) \cup inserted[w]
         /\ \A r \in rows' \ rows : r.by = w
         /\ \A t \in Tables, b \in Batch[w] : w \in Versions(t, b)'
<1>1. /\ pc[w] = "commit" /\ pc'[w] = "committed"
      /\ rows' = (rows \ deleted[w]) \cup inserted[w]
  BY DEF Commit, End, Inserts, TypeOK
<1>2. \A r \in rows' \ rows : r.by = w
  BY <1>1 DEF Inserts, InsertedSoFar
<1>3. ASSUME NEW t \in Tables, NEW b \in Batch[w] PROVE w \in Versions(t, b)'
  <2> DEFINE row == [table |-> t, block |-> b, by |-> w]
  <2>1. row \in rows'
    BY <1>1 DEF Inserts, InsertedSoFar
  <2>2. row \in RowsOf(t, {b})' /\ row.by = w
    BY <2>1 DEF RowsOf
  <2>3. QED
    BY <2>2 DEF Versions
<1>4. QED
  BY <1>1, <1>2, <1>3

LEMMA NothingLostNext ==
  Inserts /\ DeletesOwnBlocks /\ NothingLost /\ [Next]_vars => NothingLost'
<1> SUFFICES ASSUME Inserts, DeletesOwnBlocks, NothingLost, [Next]_vars,
                    NEW v \in Writers, pc'[v] = "committed", NEW b \in Batch[v], NEW t \in Tables
             PROVE  Versions(t, b)' # {}
  BY DEF NothingLost
<1>1. CASE \E w \in Writers : Commit(w)
  <2>1. PICK w \in Writers : Commit(w)
    BY <1>1
  <2>2. CASE b \in Batch[w]
    BY <2>1, <2>2, CommitIsWhole
  <2>3. CASE b \notin Batch[w]
    <3>1. pc[v] = "committed"
      BY <2>1, <2>3 DEF Commit, End, Inserts, TypeOK
    <3>2. PICK r \in rows : r.table = t /\ r.block = b
      BY <3>1 DEF NothingLost, Versions, RowsOf
    <3>3. r \in rows'
      BY <2>1, <2>3, <3>2, CommitIsWhole DEF DeletesOwnBlocks
    <3>4. QED
      BY <3>2, <3>3 DEF Versions, RowsOf
  <2>4. QED
    BY <2>2, <2>3
<1>2. CASE rows' = rows
  <2>1. Versions(t, b)' = Versions(t, b)
    BY <1>2 DEF Versions, RowsOf
  <2>2. CASE \E w \in Writers : Commit(w)
    BY <1>1, <2>2
  <2>3. CASE ~\E w \in Writers : Commit(w)
    <3>1. pc[v] = "committed"
      BY <2>3 DEF Next, Step, Begin, Delete, LockRow, Deleted, Insert, Rollback, End,
                  NextStatement, vars, Inserts, TypeOK
    <3>2. QED
      BY <2>1, <3>1 DEF NothingLost
  <2>4. QED
    BY <2>2, <2>3
<1>3. QED
  BY <1>1, <1>2, RowsFrame

\* Overlaps are never forgotten.
LEMMA OverlapGrows == [Next]_vars => overlap \subseteq overlap'
  BY DEF Next, Step, Begin, Delete, LockRow, Deleted, Insert, Commit, Rollback, End, vars

LEMMA TablesAgreeNext ==
  Inserts /\ OverlapRecorded /\ EarlierAreFound /\ TablesAgreeUnlessOverlapping /\ [Next]_vars
    => TablesAgreeUnlessOverlapping'
<1> SUFFICES ASSUME Inserts, OverlapRecorded, EarlierAreFound, TablesAgreeUnlessOverlapping,
                    [Next]_vars, NEW r \in rows', NEW s \in rows', r.block = s.block, r.by # s.by
             PROVE  <<r.by, s.by>> \in overlap'
  BY DEF TablesAgreeUnlessOverlapping
<1>1. CASE \E w \in Writers : Commit(w)
  <2>1. PICK w \in Writers : Commit(w)
    BY <1>1
  <2>2. /\ rows' = (rows \ deleted[w]) \cup inserted[w] /\ pc[w] = "commit"
        /\ \A x \in inserted[w] : x.by = w /\ x.block \in Batch[w]
    BY <2>1, CommitIsWhole DEF Inserts, InsertedSoFar
  <2>3. ASSUME NEW x \in rows \ deleted[w], x.block \in Batch[w]
        PROVE  <<x.by, w>> \in overlap /\ <<w, x.by>> \in overlap
    <3>1. <<x.by, w>> \in overlap
      BY <2>2, <2>3 DEF EarlierAreFound
    <3>2. x.by \in Writers
      BY DEF Inserts, TypeOK, Row
    <3>3. QED
      BY <3>1, <3>2 DEF OverlapRecorded
  <2>4. r \in (rows \ deleted[w]) \cup inserted[w] /\ s \in (rows \ deleted[w]) \cup inserted[w]
    BY <2>2
  <2>5. CASE r \in inserted[w] /\ s \in inserted[w]
    BY <2>2, <2>5
  <2>6. CASE r \in inserted[w] /\ s \in rows \ deleted[w]
    BY <2>2, <2>3, <2>6, OverlapGrows
  <2>7. CASE r \in rows \ deleted[w] /\ s \in inserted[w]
    BY <2>2, <2>3, <2>7, OverlapGrows
  <2>8. CASE r \in rows /\ s \in rows
    BY <2>8, OverlapGrows DEF TablesAgreeUnlessOverlapping
  <2>9. QED
    BY <2>4, <2>5, <2>6, <2>7, <2>8
<1>2. CASE rows' = rows
  BY <1>2, OverlapGrows DEF TablesAgreeUnlessOverlapping
<1>3. QED
  BY <1>1, <1>2, RowsFrame

(***************************************************************************)
(* The invariant, and what follows from it                                 *)
(***************************************************************************)
LEMMA IndInvInit == Init => IndInv
<1> SUFFICES ASSUME Init PROVE IndInv
  OBVIOUS
<1>1. Inserts
  BY InitTypes
<1>2. Deletes
  BY DEF Init, Deletes, ClosedIsEmpty, DeletesOwnBlocks, LocksExclusive, RowsAreCommitted
<1>3. OverlapRecorded /\ EarlierAreFound
  BY DEF Init, OverlapRecorded, EarlierAreFound, Open
<1>4. NothingLost /\ TablesAgreeUnlessOverlapping
  BY DEF Init, NothingLost, TablesAgreeUnlessOverlapping
<1>5. QED
  BY <1>1, <1>2, <1>3, <1>4 DEF IndInv

LEMMA IndInvNext == IndInv /\ [Next]_vars => IndInv'
<1> SUFFICES ASSUME IndInv, [Next]_vars PROVE IndInv'
  OBVIOUS
<1>1. Inserts'
  BY TypeNext, InsertedNext DEF IndInv, Inserts
<1>2. Deletes'
  BY ClosedNext, OwnBlocksNext, LocksNext, CommittedNext DEF IndInv, Inserts, Deletes
<1>3. OverlapRecorded' /\ EarlierAreFound'
  BY OverlapNext, FoundNext DEF IndInv, Inserts, Deletes
<1>4. NothingLost' /\ TablesAgreeUnlessOverlapping'
  BY NothingLostNext, TablesAgreeNext DEF IndInv, Deletes
<1>5. QED
  BY <1>1, <1>2, <1>3, <1>4 DEF IndInv

LEMMA IndInvInvariant == Spec => []IndInv
  BY IndInvInit, IndInvNext, PTL DEF Spec

\* A transaction stays within the statements of its batch, however its deletes
\* wait, skip rows or are rolled back.
THEOREM TypesInvariant == Spec => []TypeOK
<1>1. IndInv => TypeOK
  BY DEF IndInv, Inserts
<1>2. QED
  BY <1>1, IndInvInvariant, PTL

\* A block that has been saved stays in every table, whichever writers overlap
\* with the one that saved it, follow it or fail.
THEOREM NothingLostInvariant == Spec => []NothingLost
<1>1. IndInv => NothingLost
  BY DEF IndInv
<1>2. QED
  BY <1>1, IndInvInvariant, PTL

\* A block has the rows of one writer, in all tables, unless transactions of
\* its writers were open together.
THEOREM TablesAgreeInvariant == Spec => []TablesAgreeUnlessOverlapping
<1>1. IndInv => TablesAgreeUnlessOverlapping
  BY DEF IndInv
<1>2. QED
  BY <1>1, IndInvInvariant, PTL

\* Readers see a batch appear with its writer's commit and as a whole.
THEOREM CommitsOnly == Spec => OneCommitAtATime
<1> DEFINE Whole == rows' # rows => \E w \in Writers :
                      /\ pc[w] = "commit" /\ pc'[w] = "committed"
                      /\ \A r \in rows' \ rows : r.by = w
                      /\ \A t \in Tables, b \in Batch[w] : w \in Versions(t, b)'
<1>1. IndInv /\ [Next]_vars => [Whole]_vars
  <2> SUFFICES ASSUME IndInv, [Next]_vars, rows' # rows
               PROVE  \E w \in Writers :
                        /\ pc[w] = "commit" /\ pc'[w] = "committed"
                        /\ \A r \in rows' \ rows : r.by = w
                        /\ \A t \in Tables, b \in Batch[w] : w \in Versions(t, b)'
    OBVIOUS
  <2>1. PICK w \in Writers : Commit(w)
    BY RowsFrame
  <2>2. QED
    BY <2>1, CommitIsWhole DEF IndInv
<1>2. Spec => [][Whole]_vars
  BY <1>1, IndInvInvariant, PTL DEF Spec
<1>3. QED
  BY <1>2 DEF OneCommitAtATime

(***************************************************************************)
(* Refinement of AtomicStore                                               *)
(***************************************************************************)
\* Writers of a common block do not run at the same time.
Serial == \A u, w \in Writers :
    u # w /\ Batch[u] \cap Batch[w] # {} => <<u, w>> \in Before \/ <<w, u>> \in Before

\* What Before brings about.
InOrder ==
    /\ \A u, w \in Writers : <<u, w>> \in Before /\ pc[w] # "start" => pc[u] \in Ended
    /\ \A u, w \in Writers : <<u, w>> \in overlap => <<u, w>> \notin Before /\ <<w, u>> \notin Before

LEMMA InOrderNext == TypeOK /\ InOrder /\ [Next]_vars => InOrder'
<1> SUFFICES ASSUME TypeOK, InOrder, [Next]_vars PROVE InOrder'
  OBVIOUS
<1> USE DEF TypeOK, InOrder, Open, Ended
<1>1. ASSUME NEW w \in Writers, Begin(w) PROVE InOrder'
  BY <1>1 DEF Begin, OpenWriters
<1>2. ASSUME NEW w \in Writers, Delete(w) PROVE InOrder'
  BY <1>2 DEF Delete
<1>3. ASSUME NEW w \in Writers, NEW r \in Row, LockRow(w, r) PROVE InOrder'
  BY <1>3 DEF LockRow
<1>4. ASSUME NEW w \in Writers, Deleted(w) PROVE InOrder'
  BY <1>4 DEF Deleted, NextStatement
<1>5. ASSUME NEW w \in Writers, Insert(w) PROVE InOrder'
  BY <1>5 DEF Insert, NextStatement
<1>6. ASSUME NEW w \in Writers, Commit(w) PROVE InOrder'
  BY <1>6 DEF Commit, End
<1>7. ASSUME NEW w \in Writers, Rollback(w) PROVE InOrder'
  BY <1>7 DEF Rollback, End
<1>8. CASE UNCHANGED vars
  BY <1>8 DEF vars
<1>9. QED
  BY <1>1, <1>2, <1>3, <1>4, <1>5, <1>6, <1>7, <1>8 DEF Next, Step

LEMMA InOrderInvariant == Spec => []InOrder
<1>1. Init => InOrder
  BY DEF Init, InOrder
<1>2. IndInv /\ InOrder /\ [Next]_vars => InOrder'
  BY InOrderNext DEF IndInv, Inserts
<1>3. QED
  BY <1>1, <1>2, IndInvInvariant, PTL DEF Spec

\* A commit leaves the blocks of its batch to its writer, and the others alone.
LEMMA CommitReplaces ==
  ASSUME Serial, IndInv, InOrder, NEW w \in Writers, Commit(w), NEW t \in Tables, NEW b \in Blocks
  PROVE  Versions(t, b)' = IF b \in Batch[w] THEN {w} ELSE Versions(t, b)
<1>1. /\ pc[w] = "commit" /\ rows' = (rows \ deleted[w]) \cup inserted[w]
      /\ \A r \in inserted[w] : r.by = w /\ r.block \in Batch[w]
  BY CommitIsWhole DEF IndInv, Inserts, InsertedSoFar
<1>2. CASE b \in Batch[w]
  <2>1. ASSUME NEW r \in rows \ deleted[w], r.block = b PROVE FALSE
    <3>1. r.by \in Writers /\ r.by # w /\ b \in Batch[r.by]
      BY <1>1, <2>1 DEF IndInv, Inserts, TypeOK, Row, Deletes, RowsAreCommitted
    <3>2. <<r.by, w>> \in overlap
      BY <1>1, <1>2, <2>1 DEF IndInv, EarlierAreFound
    <3>3. <<r.by, w>> \in Before \/ <<w, r.by>> \in Before
      BY <1>2, <3>1 DEF Serial
    <3>4. QED
      BY <3>1, <3>2, <3>3 DEF InOrder
  <2>2. \A r \in RowsOf(t, {b})' : r.by = w
    BY <1>1, <2>1 DEF RowsOf
  <2>3. w \in Versions(t, b)'
    BY <1>2, CommitIsWhole DEF IndInv
  <2>4. QED
    BY <1>2, <2>2, <2>3 DEF Versions
<1>3. CASE b \notin Batch[w]
  <2>1. RowsOf(t, {b})' = RowsOf(t, {b})
    BY <1>1, <1>3 DEF RowsOf, IndInv, Deletes, DeletesOwnBlocks
  <2>2. QED
    BY <1>3, <2>1 DEF Versions
<1>4. QED
  BY <1>2, <1>3

\* When writers of a common block follow each other, readers cannot tell the
\* deletes and inserts of a transaction from one step: what they find in the
\* tables behaves as AtomicStore.
THEOREM ImplementsAtomicStore ==
  ASSUME Serial
  PROVE  Spec => AtomicSpec
<1>1. Init => Atomic!Init
  <2> SUFFICES ASSUME Init PROVE Atomic!Init
    OBVIOUS
  <2>1. \A t \in Tables, b \in Blocks : Versions(t, b) = {}
    BY DEF Init, Versions, RowsOf
  <2>2. QED
    BY <2>1 DEF Atomic!Init
<1>2. IndInv /\ InOrder /\ [Next]_vars =>
          [Atomic!Next]_[t \in Tables |-> [b \in Blocks |-> Versions(t, b)]]
  <2> SUFFICES ASSUME IndInv, InOrder, [Next]_vars
               PROVE  [Atomic!Next]_[t \in Tables |-> [b \in Blocks |-> Versions(t, b)]]
    OBVIOUS
  <2>1. ASSUME NEW w \in Writers, Commit(w) PROVE Atomic!Save(w)
    <3>1. \A t \in Tables, b \in Blocks :
            Versions(t, b)' = IF b \in Batch[w] THEN {w} ELSE Versions(t, b)
      BY <2>1, CommitReplaces
    <3>2. QED
      BY <3>1 DEF Atomic!Save
  <2>2. CASE rows' = rows
    <3>1. \A t \in Tables, b \in Blocks : Versions(t, b)' = Versions(t, b)
      BY <2>2 DEF Versions, RowsOf
    <3>2. QED
      BY <3>1
  <2>3. QED
    BY <2>1, <2>2, RowsFrame DEF Atomic!Next
<1>3. QED
  BY <1>1, <1>2, IndInvInvariant, InOrderInvariant, PTL DEF Spec, AtomicSpec, Atomic!Spec
=============================================================================
