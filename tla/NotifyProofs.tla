---------------------------- MODULE NotifyProofs ----------------------------
(* Theorems about Notify, for every number of requests served at a time,    *)
(* blocks, pages, faults and loads.                                         *)
EXTENDS Notify, DataTheorems, FiniteSetTheorems, TLAPS

(***************************************************************************)
(* The inductive invariant                                                 *)
(***************************************************************************)
\* The types of what ws works with; the pages do not matter here.
ServerTypes ==
    /\ stored \subseteq Numbers
    /\ handler \in [Handlers -> Requests]

\* A block is found only if it is stored, and nothing is ever removed.
FoundIsStored == \A h \in Handlers : handler[h].found => handler[h].n \in stored

\* What has been broadcast is not above the height.
TopIsStored == top \in stored \cup {0}

IndInv == ServerTypes /\ FoundIsStored /\ TopIsStored /\ NoRelapse

(***************************************************************************)
(* The height                                                              *)
(***************************************************************************)
LEMMA HeightIsAbove ==
  ASSUME ServerTypes, TopIsStored
  PROVE  Height \in Int /\ top \in Int /\ Height >= top
<1>1. stored \cup {0} \in SUBSET (0..MaxBlock) /\ stored \cup {0} # {} /\ MaxBlock \in Nat
  BY BoundAssumption DEF ServerTypes, Numbers
<1>2. /\ Max(stored \cup {0}) \in stored \cup {0}
      /\ \A x \in stored \cup {0} : Max(stored \cup {0}) >= x
  BY <1>1, MaxExists
<1>3. QED
  BY <1>1, <1>2 DEF Height, TopIsStored

LEMMA FreeIsRequest == Free \in Requests /\ Free.pc = "free" /\ Free.found = FALSE
  BY DEF Free, Requests

(***************************************************************************)
(* The steps                                                               *)
(***************************************************************************)
LEMMA ServeKeeps ==
  ASSUME IndInv, NEW h \in Handlers, NEW n \in Numbers, Serve(h, n), stored' = stored, top' = top
  PROVE  IndInv'
<1>1. handler' = [handler EXCEPT ![h] = [Free EXCEPT !.pc = "height", !.n = n]]
  BY DEF Serve
<1>2. /\ [Free EXCEPT !.pc = "height", !.n = n] \in Requests
      /\ [Free EXCEPT !.pc = "height", !.n = n].pc = "height"
      /\ [Free EXCEPT !.pc = "height", !.n = n].found = FALSE
  BY DEF Free, Requests
<1> HIDE DEF Free
<1>3. QED
  BY <1>1, <1>2 DEF IndInv, ServerTypes, FoundIsStored, TopIsStored, NoRelapse

LEMMA EndKeeps ==
  ASSUME IndInv, NEW h \in Handlers, EndRequest(h), stored' = stored, TopIsStored'
  PROVE  IndInv'
<1>1. handler' = [handler EXCEPT ![h] = Free]
  BY DEF EndRequest
<1>2. QED
  BY <1>1, FreeIsRequest DEF IndInv, ServerTypes, FoundIsStored, NoRelapse

\* A request that changes keeps its block; what is found of it is stored.
LEMMA ChangeKeeps ==
  ASSUME IndInv, NEW h \in Handlers, NEW r \in Requests,
         r.found => r.n \in stored, r.pc = "fetch" => r.n >= r.floor,
         handler' = [handler EXCEPT ![h] = r], stored' = stored, top' = top
  PROVE  IndInv'
  BY DEF IndInv, ServerTypes, FoundIsStored, TopIsStored, NoRelapse

LEMMA StepKeeps ==
  ASSUME IndInv, NEW h \in Handlers, HandlerStep(h) \/ HandlerFault(h)
  PROVE  IndInv'
<1>1. CASE ReadHeight(h)
  <2>1. CASE NewEnough(handler[h].n)
    <3> DEFINE old == handler[h]
               new == [old EXCEPT !.pc = "fetch", !.pending = {"block", "txns"}, !.floor = top]
    <3>1. handler' = [handler EXCEPT ![h] = new] /\ stored' = stored /\ top' = top
      BY <1>1, <2>1 DEF ReadHeight
    <3>2. /\ old \in Requests /\ top \in Numbers \cup {0}
          /\ old.n >= Height /\ Height >= top /\ Height \in Int /\ top \in Int
      BY <2>1, HeightIsAbove DEF NewEnough, IndInv, ServerTypes, TopIsStored
    <3>3. new \in Requests /\ new.n = old.n /\ new.found = old.found /\ new.floor = top
      BY <3>2 DEF Requests
    <3>4. new.found => new.n \in stored
      BY <3>3 DEF IndInv, FoundIsStored
    <3>5. old.n \in Int
      BY <3>2 DEF Requests, Numbers
    <3>6. new.n >= new.floor
      BY <3>2, <3>3, <3>5
    <3> HIDE DEF new
    <3>7. QED
      BY <3>1, <3>3, <3>4, <3>6, ChangeKeeps
  <2>2. CASE ~NewEnough(handler[h].n)
    BY <1>1, <2>2, EndKeeps DEF ReadHeight, IndInv, TopIsStored
  <2>3. QED
    BY <2>1, <2>2
<1>2. CASE FetchedBlock(h)
  <2> DEFINE old == handler[h]
             new == [old EXCEPT !.pending = old.pending \ {"block"}, !.found = old.n \in stored]
  <2>1. handler' = [handler EXCEPT ![h] = new] /\ stored' = stored /\ top' = top
    BY <1>2 DEF FetchedBlock
  <2>2. old \in Requests
    BY DEF IndInv, ServerTypes
  <2>3. /\ new \in Requests /\ new.pc = old.pc /\ new.n = old.n /\ new.floor = old.floor
        /\ new.found = (old.n \in stored)
    <3> DEFINE there  == old.n \in stored
               rest   == old.pending \ {"block"}
               answer == [old EXCEPT !.pending = rest, !.found = there]
    <3>1. rest \in SUBSET {"block", "txns"}
      BY <2>2 DEF Requests
    <3>2. there \in BOOLEAN
      OBVIOUS
    <3> HIDE DEF old, there, rest
    <3>3. /\ answer \in Requests /\ answer.pc = old.pc /\ answer.n = old.n
          /\ answer.floor = old.floor /\ answer.found = there
      BY <2>2, <3>1, <3>2 DEF Requests
    <3>4. QED
      BY <3>3 DEF old, there, rest
  <2>4. /\ new.found => new.n \in stored
        /\ new.pc = "fetch" => new.n >= new.floor
    BY <2>3 DEF IndInv, FoundIsStored, NoRelapse
  <2> HIDE DEF new
  <2>5. QED
    BY <2>1, <2>3, <2>4, ChangeKeeps
<1>3. CASE FetchedTxns(h)
  <2> DEFINE old == handler[h]
             new == [old EXCEPT !.pending = old.pending \ {"txns"}, !.rows = old.n \in stored]
  <2>1. handler' = [handler EXCEPT ![h] = new] /\ stored' = stored /\ top' = top
    BY <1>3 DEF FetchedTxns
  <2>2. old \in Requests
    BY DEF IndInv, ServerTypes
  <2>3. /\ new \in Requests /\ new.pc = old.pc /\ new.n = old.n /\ new.floor = old.floor
        /\ new.found = old.found
    <3> DEFINE there  == old.n \in stored
               rest   == old.pending \ {"txns"}
               answer == [old EXCEPT !.pending = rest, !.rows = there]
    <3>1. rest \in SUBSET {"block", "txns"}
      BY <2>2 DEF Requests
    <3>2. there \in BOOLEAN
      OBVIOUS
    <3> HIDE DEF old, there, rest
    <3>3. /\ answer \in Requests /\ answer.pc = old.pc /\ answer.n = old.n
          /\ answer.floor = old.floor /\ answer.found = old.found
      BY <2>2, <3>1, <3>2 DEF Requests
    <3>4. QED
      BY <3>3 DEF old, there, rest
  <2>4. /\ new.found => new.n \in stored
        /\ new.pc = "fetch" => new.n >= new.floor
    BY <2>3 DEF IndInv, FoundIsStored, NoRelapse
  <2> HIDE DEF new
  <2>5. QED
    BY <2>1, <2>3, <2>4, ChangeKeeps
<1>4. CASE BlockRefused(h)
  BY <1>4 DEF BlockRefused, IndInv, ServerTypes, FoundIsStored, TopIsStored, NoRelapse, Requests
<1>5. CASE RequestRefused(h)
  BY <1>5, EndKeeps DEF RequestRefused, IndInv, TopIsStored
<1>6. CASE Broadcast(h)
  <2>1. EndRequest(h) /\ stored' = stored
        /\ top' = IF handler[h].found THEN Max({top, handler[h].n}) ELSE top
    BY <1>6 DEF Broadcast
  <2>2. TopIsStored'
    <3>1. CASE handler[h].found
      <4>1. handler[h].n \in stored
        BY <3>1 DEF IndInv, FoundIsStored
      <4>2. {top, handler[h].n} \in SUBSET (0..MaxBlock) /\ MaxBlock \in Nat
        BY <4>1, BoundAssumption DEF IndInv, ServerTypes, TopIsStored, Numbers
      <4>3. Max({top, handler[h].n}) \in {top, handler[h].n}
        BY <4>2, MaxExists
      <4>4. QED
        BY <2>1, <3>1, <4>1, <4>3 DEF IndInv, TopIsStored
    <3>2. CASE ~handler[h].found
      BY <2>1, <3>2 DEF IndInv, TopIsStored
    <3>3. QED
      BY <3>1, <3>2
  <2>3. QED
    BY <2>1, <2>2, EndKeeps
<1>7. QED
  BY <1>1, <1>2, <1>3, <1>4, <1>5, <1>6 DEF HandlerStep, HandlerFault

LEMMA IndInvNext == IndInv /\ [Next]_vars => IndInv'
<1> SUFFICES ASSUME IndInv, [Next]_vars PROVE IndInv'
  OBVIOUS
<1>1. ASSUME NEW n \in Numbers, Store(n) PROVE IndInv'
  BY <1>1 DEF Store, IndInv, ServerTypes, FoundIsStored, TopIsStored, NoRelapse
<1>2. ASSUME NEW h \in Handlers, NEW n \in Numbers, Post(h, n) \/ Message(h, n) PROVE IndInv'
  BY <1>2, ServeKeeps DEF Post, Message
<1>3. ASSUME NEW h \in Handlers, HandlerStep(h) \/ HandlerFault(h) PROVE IndInv'
  BY <1>3, StepKeeps
<1>4. CASE UNCHANGED <<stored, handler, top>>
  BY <1>4 DEF IndInv, ServerTypes, FoundIsStored, TopIsStored, NoRelapse
<1>5. Timeout \/ UNCHANGED vars \/ (\E b \in Pages : BrowserStep(b))
        => UNCHANGED <<stored, handler, top>>
  BY DEF Timeout, vars, BrowserStep, Open, ListRead, TableRead, Connect, Drop, Leave,
                        Receive, TransitionEnd
<1>6. QED
  BY <1>1, <1>2, <1>3, <1>4, <1>5 DEF Next

LEMMA IndInvInit == Init => IndInv
  BY FreeIsRequest DEF Init, IndInv, ServerTypes, FoundIsStored, TopIsStored, NoRelapse

\* Pages are taken back to an older block only by requests that overlap: a
\* request begins to fetch a block that is not below any broadcast before,
\* however many requests are served at a time, late or refused.
THEOREM NoRelapseInvariant == Spec => []NoRelapse
<1>1. IndInv => NoRelapse
  BY DEF IndInv
<1>2. QED
  BY <1>1, IndInvInit, IndInvNext, PTL DEF Spec
(***************************************************************************)
(* What a page shows: sequences                                            *)
(***************************************************************************)
LEMMA FirstProperties ==
  ASSUME NEW X, NEW s \in Seq(X), NEW k \in Nat
  PROVE  /\ First(s, k) \in Seq(X)
         /\ k <= Len(s) => Len(First(s, k)) = k
         /\ k >= Len(s) => Len(First(s, k)) = Len(s)
         /\ \A i \in 1..Len(First(s, k)) : First(s, k)[i] = s[i]
<1> DEFINE n == Min({k, Len(s)})
<1>1. Len(s) \in Nat /\ \A i \in 1..Len(s) : s[i] \in X
  BY LenProperties, ElementOfSeq
<1>2. /\ n \in Nat /\ n <= Len(s)
      /\ k <= Len(s) => n = k
      /\ k >= Len(s) => n = Len(s)
  BY <1>1, MinOfTwo
<1>3. First(s, k) = SubSeq(s, 1, n)
  BY DEF First
<1> HIDE DEF n
<1>4. \A i \in 1..n : s[i] \in X
  BY <1>1, <1>2
<1>5. /\ SubSeq(s, 1, n) \in Seq(X)
      /\ Len(SubSeq(s, 1, n)) = IF 1 <= n THEN n - 1 + 1 ELSE 0
      /\ \A i \in 1..n - 1 + 1 : SubSeq(s, 1, n)[i] = s[1 + i - 1]
  BY <1>2, <1>4, SubSeqProperties
<1>6. Len(SubSeq(s, 1, n)) = n /\ \A i \in 1..n : SubSeq(s, 1, n)[i] = s[i]
  BY <1>2, <1>5
<1>7. QED
  BY <1>2, <1>3, <1>5, <1>6

LEMMA ConsProperties ==
  ASSUME NEW X, NEW x \in X, NEW s \in Seq(X)
  PROVE  /\ <<x>> \o s \in Seq(X)
         /\ Len(<<x>> \o s) = Len(s) + 1
         /\ (<<x>> \o s)[1] = x
         /\ \A i \in 2..Len(s) + 1 : (<<x>> \o s)[i] = s[i - 1]
<1>1. <<x>> \in Seq(X) /\ Len(<<x>>) = 1 /\ <<x>>[1] = x /\ Len(s) \in Nat
  BY LenProperties
<1> DEFINE c == <<x>> \o s
<1>2. /\ c \in Seq(X) /\ Len(c) = 1 + Len(s)
      /\ \A i \in 1..1 + Len(s) : c[i] = IF i <= 1 THEN <<x>>[i] ELSE s[i - 1]
  BY <1>1, ConcatProperties
<1> HIDE DEF c
<1>3. Len(c) = Len(s) + 1 /\ c[1] = x /\ \A i \in 2..Len(s) + 1 : c[i] = s[i - 1]
  BY <1>1, <1>2
<1>4. QED
  BY <1>2, <1>3 DEF c

\* A set of blocks can be put in order, the highest first.
LEMMA DescendingIs ==
  ASSUME NEW S \in SUBSET Numbers
  PROVE  /\ Cardinality(S) \in Nat /\ (S = {} <=> Cardinality(S) = 0)
         /\ Descending(S) \in Seq(Numbers) /\ Len(Descending(S)) = Cardinality(S)
<1> DEFINE Sorted(s, R) == \A i, j \in 1..Cardinality(R) : i < j => s[i] > s[j]
           T == {k \in Nat : \A R \in SUBSET (1..k) : \E s \in [1..Cardinality(R) -> R] : Sorted(s, R)}
<1>1. 0 \in T
  <2> SUFFICES ASSUME NEW R \in SUBSET (1..0)
               PROVE  \E s \in [1..Cardinality(R) -> R] : Sorted(s, R)
    OBVIOUS
  <2>1. R = {} /\ Cardinality(R) = 0
    <3>1. R = {}
      OBVIOUS
    <3>2. QED
      BY <3>1, FS_EmptySet
  <2>2. [i \in 1..0 |-> 0] \in [1..Cardinality(R) -> R] /\ Sorted([i \in 1..0 |-> 0], R)
    BY <2>1
  <2>3. QED
    BY <2>2
<1>2. ASSUME NEW k \in Nat, k \in T PROVE k + 1 \in T
  <2> SUFFICES ASSUME NEW R \in SUBSET (1..k + 1)
               PROVE  \E s \in [1..Cardinality(R) -> R] : Sorted(s, R)
    BY SMTT(30)
  <2>1. CASE k + 1 \notin R
    <3>1. R \in SUBSET (1..k)
      BY <2>1
    <3> HIDE DEF Sorted
    <3>2. QED
      BY <1>2, <3>1
  <2>2. CASE k + 1 \in R
    <3> DEFINE Q == R \ {k + 1}
               c == Cardinality(Q)
    <3>1. Q \in SUBSET (1..k) /\ IsFiniteSet(1..k + 1)
      BY FS_Interval
    <3>2. IsFiniteSet(R)
      BY <3>1, FS_Subset
    <3>3. c = Cardinality(R) - 1 /\ Cardinality(R) \in Nat /\ c \in Nat
      BY <2>2, <3>2, FS_RemoveElement, FS_CardinalityType
    <3>4. PICK s \in [1..c -> Q] : Sorted(s, Q)
      <4> HIDE DEF Sorted, Q
      <4>1. QED
        BY <1>2, <3>1 DEF c
    <3>5. Cardinality(R) = c + 1
      BY <3>3
    <3>6. \A i, j \in 1..c : i < j => s[i] > s[j]
      BY <3>4 DEF c
    <3> DEFINE t == [i \in 1..c + 1 |-> IF i = 1 THEN k + 1 ELSE s[i - 1]]
    <3>7. \A i \in 2..c + 1 : i - 1 \in 1..c /\ s[i - 1] \in Q
      <4> HIDE DEF c, Q, Sorted
      <4>1. \A i \in 2..c + 1 : i - 1 \in 1..c
        BY <3>3
      <4>2. QED
        BY <3>4, <4>1
    <3>8. t \in [1..c + 1 -> R]
      <4> HIDE DEF c
      <4>1. QED
        BY <2>2, <3>3, <3>7
    <3>9. ASSUME NEW i \in 1..c + 1, NEW j \in 1..c + 1, i < j PROVE t[i] > t[j]
      <4> HIDE DEF c
      <4>1. j \in 2..c + 1 /\ t[j] = s[j - 1] /\ s[j - 1] \in 1..k
        <5>1. j \in 2..c + 1 /\ j # 1
          BY <3>3, <3>9
        <5> HIDE DEF Q
        <5>2. s[j - 1] \in 1..k
          BY <3>1, <3>7, <5>1
        <5>3. QED
          BY <5>1, <5>2
      <4>2. CASE i = 1
        BY <4>1, <4>2
      <4>3. CASE i # 1
        <5>1. i \in 2..c + 1 /\ t[i] = s[i - 1] /\ i - 1 < j - 1
          BY <3>3, <3>9, <4>3
        <5>2. s[i - 1] > s[j - 1]
          BY <3>6, <3>7, <4>1, <5>1
        <5>3. QED
          BY <4>1, <5>1, <5>2
      <4>4. QED
        BY <4>2, <4>3
    <3> HIDE DEF t, c
    <3>10. t \in [1..Cardinality(R) -> R] /\ Sorted(t, R)
      BY <3>5, <3>8, <3>9
    <3>11. QED
      BY <3>10
  <2>3. QED
    BY <2>1, <2>2
<1>3. MaxBlock \in T
  <2> HIDE DEF T
  <2>1. QED
    BY <1>1, <1>2, NatSetInduction, BoundAssumption
<1>4. \E s \in [1..Cardinality(S) -> S] : Sorted(s, S)
  <2> HIDE DEF Sorted
  <2>1. QED
    BY <1>3 DEF Numbers
<1>5. Descending(S) \in [1..Cardinality(S) -> S]
  BY <1>4 DEF Descending
<1>6. IsFiniteSet(S)
  <2>1. IsFiniteSet(Numbers)
    BY FS_Interval, BoundAssumption DEF Numbers
  <2>2. QED
    BY <2>1, FS_Subset
<1>7. Cardinality(S) \in Nat /\ (S = {} <=> Cardinality(S) = 0)
  BY <1>6, FS_CardinalityType, FS_EmptySet
<1>8. QED
  BY <1>5, <1>7

LEMMA TxnsAre == \A n \in Numbers : Txns[n] \in Seq(Rows)
<1> SUFFICES ASSUME NEW n \in Numbers PROVE Txns[n] \in Seq(Rows)
  OBVIOUS
<1>1. Txns[n] \in Seq(Range(Txns[n])) /\ Range(Txns[n]) \subseteq Rows
  BY TxnsAssumption DEF Rows
<1>2. QED
  BY <1>1, SeqMonotonic

LEMMA TableOfIs ==
  ASSUME NEW ns \in Seq(Numbers)
  PROVE  TableOf(ns) \in Seq(Rows)
<1> DEFINE f == [i \in DOMAIN ns |-> Txns[ns[i]]]
<1>1. Len(ns) \in Nat /\ DOMAIN ns = 1..Len(ns) /\ \A i \in 1..Len(ns) : ns[i] \in Numbers
  BY LenProperties, ElementOfSeq
<1>2. f \in [1..Len(ns) -> Seq(Rows)]
  BY <1>1, TxnsAre
<1>3. FlattenSeq(f) \in Seq(Rows)
  <2> HIDE DEF f
  <2>1. QED
    BY <1>1, <1>2, FlattenRange
<1>4. QED
  BY <1>3 DEF TableOf
(***************************************************************************)
(* The table                                                               *)
(***************************************************************************)
\* The newest rows of a list that has enough of them, one of an empty one.
Enough(s, k) == k <= Len(s) \/ (k = 1 /\ Len(s) = 0)

\* A row on top of the newest k leaves the newest k.
LEMMA PrependFirst ==
  ASSUME NEW X, NEW s \in Seq(X), NEW k \in Nat \ {0}, Enough(s, k), NEW x \in X
  PROVE  PrependRow(First(s, k), x) = First(<<x>> \o s, k)
<1> DEFINE t == First(s, k)
           r == First(t, k - 1)
           c == <<x>> \o s
<1>1. Len(s) \in Nat /\ k \in Nat /\ k - 1 \in Nat
  BY LenProperties
<1>2. /\ t \in Seq(X) /\ k - 1 <= Len(t) /\ Max({0, Len(t) - 1}) = k - 1
      /\ \A i \in 1..k - 1 : t[i] = s[i]
  <2>1. /\ t \in Seq(X) /\ Len(t) \in Nat /\ \A i \in 1..Len(t) : t[i] = s[i]
        /\ k <= Len(s) => Len(t) = k
        /\ k >= Len(s) => Len(t) = Len(s)
    BY <1>1, FirstProperties, LenProperties
  <2> HIDE DEF t
  <2>2. Len(t) = k \/ (Len(t) = 0 /\ k = 1)
    BY <1>1, <2>1 DEF Enough
  <2>3. Max({0, Len(t) - 1}) = k - 1
    BY <2>1, <2>2, MaxOfTwo
  <2>4. QED
    BY <1>1, <2>1, <2>2, <2>3
<1>3. PrependRow(t, x) = <<x>> \o r
  BY <1>2 DEF PrependRow
<1> HIDE DEF t
<1>4. r \in Seq(X) /\ Len(r) = k - 1 /\ \A i \in 1..k - 1 : r[i] = s[i]
  BY <1>1, <1>2, FirstProperties
<1> HIDE DEF r
<1>5. /\ <<x>> \o r \in Seq(X) /\ Len(<<x>> \o r) = k /\ (<<x>> \o r)[1] = x
      /\ \A i \in 2..k : (<<x>> \o r)[i] = s[i - 1]
  <2>1. /\ <<x>> \o r \in Seq(X) /\ Len(<<x>> \o r) = Len(r) + 1 /\ (<<x>> \o r)[1] = x
        /\ \A i \in 2..Len(r) + 1 : (<<x>> \o r)[i] = r[i - 1]
    BY <1>4, ConsProperties
  <2>2. \A i \in 2..k : i - 1 \in 1..k - 1
    BY <1>1
  <2>3. QED
    BY <1>1, <1>4, <2>1, <2>2
<1>6. /\ c \in Seq(X) /\ Len(c) = Len(s) + 1 /\ c[1] = x
      /\ \A i \in 2..Len(s) + 1 : c[i] = s[i - 1]
  BY ConsProperties
<1> HIDE DEF c
<1>7. k <= Len(c)
  BY <1>1, <1>6 DEF Enough
<1>8. First(c, k) \in Seq(X) /\ Len(First(c, k)) = k /\ \A i \in 1..k : First(c, k)[i] = c[i]
  BY <1>1, <1>6, <1>7, FirstProperties
<1>9. \A i \in 1..k : i = 1 \/ (i \in 2..k /\ i \in 2..Len(s) + 1)
  BY <1>1, <1>6, <1>7
<1>10. \A i \in 1..k : (<<x>> \o r)[i] = First(c, k)[i]
  BY <1>5, <1>6, <1>8, <1>9
<1>11. <<x>> \o r = First(c, k)
  BY <1>5, <1>8, <1>10, SeqEqual
<1>12. QED
  BY <1>3, <1>11 DEF c, t

\* The table with the rows of a broadcast on top.
Prepended(table, rows) == FoldLeft(PrependRow, table, rows)

\* They go on top one by one.
PrependedBy(g, table, rows) ==
    /\ g[0] = table /\ Prepended(table, rows) = g[Len(rows)]
    /\ \A i \in 1..Len(rows) : g[i] = PrependRow(g[i - 1], rows[i])

LEMMA PrependSteps ==
  ASSUME NEW X, NEW base \in Seq(X), NEW s \in Seq(X)
  PROVE  \E g \in [0..Len(s) -> Seq(X)] : PrependedBy(g, base, s)
<1> DEFINE n == Len(s)
           F == [c \in Seq(X) |-> [x \in X |-> PrependRow(c, x)]]
           Is(h) == h = [S \in SUBSET (1..n) |->
                           IF S = {} THEN base ELSE PrependRow(h[S \ {Max(S)}], s[Max(S)])]
           fold == CHOOSE h : Is(h)
           g == [i \in 0..n |-> fold[1..i]]
<1>1. n \in Nat /\ DOMAIN s = 1..n /\ s \in [1..n -> X]
  BY LenProperties
<1>2. Prepended(base, s) = fold[1..n]
  BY <1>1 DEF Prepended, FoldLeft, MapThenFoldSet
<1> HIDE DEF n
<1>3. \A c \in Seq(X), x \in X : PrependRow(c, x) \in Seq(X)
  <2> SUFFICES ASSUME NEW c \in Seq(X), NEW x \in X PROVE PrependRow(c, x) \in Seq(X)
    OBVIOUS
  <2>1. Max({0, Len(c) - 1}) \in Nat
    BY LenProperties, MaxOfTwo
  <2>2. First(c, Max({0, Len(c) - 1})) \in Seq(X)
    BY <2>1, FirstProperties
  <2>3. QED
    BY <2>2, ConsProperties DEF PrependRow
<1>4. F \in [Seq(X) -> [X -> Seq(X)]]
  BY <1>3
<1>5. \E h : Is(h)
  <2>1. PICK h \in [SUBSET (1..n) -> Seq(X)] : IsFold(h, F, base, s, n)
    <3> HIDE DEF F
    <3>1. QED
      BY <1>1, <1>4, FoldByPlaces
  <2>2. ASSUME NEW S \in SUBSET (1..n), S # {}
        PROVE  F[h[S \ {Max(S)}]][s[Max(S)]] = PrependRow(h[S \ {Max(S)}], s[Max(S)])
    <3>1. S \in SUBSET (0..n)
      BY <1>1
    <3>2. Max(S) \in S
      BY <1>1, <2>2, <3>1, MaxExists
    <3>3. h[S \ {Max(S)}] \in Seq(X) /\ s[Max(S)] \in X
      BY <1>1, <3>2
    <3>4. QED
      BY <3>3
  <2> HIDE DEF F
  <2>3. h = [S \in SUBSET (1..n) |-> IF S = {} THEN base ELSE PrependRow(h[S \ {Max(S)}], s[Max(S)])]
    BY <2>1, <2>2 DEF IsFold
  <2>4. QED
    BY <2>3
<1>6. Is(fold)
  <2> HIDE DEF Is
  <2>1. QED
    BY <1>5
<1> HIDE DEF fold, F
<1>7. g[0] = base
  <2>1. 1..0 = {} /\ {} \in SUBSET (1..n)
    OBVIOUS
  <2>2. fold[{}] = base
    BY <1>6, <2>1
  <2>3. QED
    BY <1>1, <2>1, <2>2
<1>8. ASSUME NEW i \in 1..n PROVE g[i] = PrependRow(g[i - 1], s[i])
  <2>1. fold[1..i] = PrependRow(fold[(1..i) \ {Max(1..i)}], s[Max(1..i)])
    BY <1>1, <1>6, LastPlace
  <2>2. fold[1..i] = PrependRow(fold[1..i - 1], s[i])
    BY <1>1, <2>1, LastPlace
  <2>3. QED
    BY <1>1, <2>2
<1>9. g = [i \in 0..n |-> g[i]] /\ g[n] = fold[1..n]
  BY <1>1
<1> HIDE DEF g
<1>10. \A k \in 0..n : g[k] \in Seq(X)
  <2> DEFINE U == {k \in Nat : k \in 0..n => g[k] \in Seq(X)}
  <2>1. 0 \in U
    BY <1>7
  <2>2. ASSUME NEW k \in Nat, k \in U PROVE k + 1 \in U
    <3> SUFFICES ASSUME k + 1 \in 0..n PROVE g[k + 1] \in Seq(X)
      OBVIOUS
    <3>1. k + 1 \in 1..n /\ k + 1 - 1 = k /\ k \in 0..n
      BY <1>1
    <3>2. g[k] \in Seq(X) /\ s[k + 1] \in X
      BY <1>1, <2>2, <3>1
    <3>3. g[k + 1] = PrependRow(g[k], s[k + 1])
      BY <1>8, <3>1
    <3>4. QED
      BY <1>3, <3>2, <3>3
  <2> HIDE DEF U
  <2>3. \A k \in Nat : k \in U
    BY <2>1, <2>2, NatSetInduction
  <2>4. QED
    BY <1>1, <2>3 DEF U
<1>11. g \in [0..n -> Seq(X)]
  BY <1>9, <1>10
<1>12. QED
  BY <1>2, <1>7, <1>8, <1>9, <1>11 DEF n, PrependedBy

\* With all of them on top, the newest k are left.
LEMMA PrependAll ==
  ASSUME NEW X, NEW s \in Seq(X), NEW k \in Nat \ {0}, Enough(s, k), NEW t \in Seq(X)
  PROVE  Prepended(First(s, k), t) = First(Reverse(t) \o s, k)
<1> DEFINE n == Len(t)
           m == Len(s)
           base == First(s, k)
           w == [i \in 0..n |-> [j \in 1..i + m |-> IF j <= i THEN t[i - j + 1] ELSE s[j - i]]]
<1>1. n \in Nat /\ m \in Nat /\ k \in Nat /\ \A i \in 1..n : t[i] \in X
  BY LenProperties, ElementOfSeq
<1>2. base \in Seq(X)
  BY FirstProperties
<1>3. PICK g \in [0..n -> Seq(X)] : PrependedBy(g, base, t)
  <2> HIDE DEF base, w, m
  <2>1. QED
    BY <1>2, PrependSteps
<1>4. /\ g[0] = base /\ Prepended(base, t) = g[n]
      /\ \A i \in 1..n : g[i] = PrependRow(g[i - 1], t[i])
  <2> HIDE DEF base, w, m
  <2>1. QED
    BY <1>3 DEF PrependedBy
<1>5. ASSUME NEW i \in 0..n
      PROVE  /\ w[i] \in Seq(X) /\ Len(w[i]) = i + m /\ Enough(w[i], k)
             /\ \A j \in 1..i + m : w[i][j] = IF j <= i THEN t[i - j + 1] ELSE s[j - i]
  <2>1. i \in Nat /\ i + m \in Nat
    BY <1>1
  <2>2. ASSUME NEW j \in 1..i + m PROVE (IF j <= i THEN t[i - j + 1] ELSE s[j - i]) \in X
    <3>1. j <= i => i - j + 1 \in 1..n
      BY <1>1
    <3>2. ~(j <= i) => j - i \in 1..m
      BY <1>1
    <3> HIDE DEF n, m
    <3>3. ~(j <= i) => s[j - i] \in X
      BY <3>2, ElementOfSeq DEF m
    <3>4. QED
      BY <1>1, <3>1, <3>3
  <2> HIDE DEF n, m
  <2>3. w[i] = [j \in 1..i + m |-> IF j <= i THEN t[i - j + 1] ELSE s[j - i]]
    OBVIOUS
  <2>4. w[i] \in [1..i + m -> X]
    BY <2>2, <2>3
  <2>5. w[i] \in Seq(X) /\ Len(w[i]) = i + m
    <3>1. PICK l \in Nat : l = i + m
      BY <2>1
    <3> DEFINE v == w[i]
    <3>2. v \in [1..l -> X]
      BY <2>4, <3>1
    <3> HIDE DEF v
    <3>3. v \in Seq(X) /\ Len(v) = l
      BY <3>2
    <3>4. QED
      BY <3>1, <3>3 DEF v
  <2>6. Enough(w[i], k)
    <3>1. k <= m \/ (k = 1 /\ m = 0)
      BY DEF Enough, m
    <3> HIDE DEF w
    <3>2. QED
      BY <1>1, <2>1, <2>5, <3>1 DEF Enough
  <2>7. QED
    BY <2>3, <2>5, <2>6
<1> HIDE DEF w
<1>6. w[0] = s
  <2>1. 0 \in 0..n /\ 0 + m = m
    BY <1>1
  <2>2. w[0] \in Seq(X) /\ Len(w[0]) = m
    BY <1>5, <2>1
  <2>3. \A j \in 1..m : w[0][j] = s[j]
    BY <1>1, <1>5, <2>1
  <2>4. QED
    BY <2>2, <2>3, SeqEqual
<1>7. ASSUME NEW i \in 1..n PROVE <<t[i]>> \o w[i - 1] = w[i]
  <2>1. i \in 0..n /\ i - 1 \in 0..n /\ t[i] \in X
    BY <1>1
  <2> DEFINE v == w[i - 1]
             c == <<t[i]>> \o v
  <2>2. v \in Seq(X) /\ Len(v) = i - 1 + m
    BY <1>5, <2>1
  <2>3. /\ c \in Seq(X) /\ Len(c) = Len(v) + 1 /\ c[1] = t[i]
        /\ \A j \in 2..Len(v) + 1 : c[j] = v[j - 1]
    <3> HIDE DEF v
    <3>1. QED
      BY <2>1, <2>2, ConsProperties
  <2>4. w[i] \in Seq(X) /\ Len(w[i]) = i + m
    BY <1>5, <2>1
  <2>5. Len(c) = i + m /\ Len(v) + 1 = i + m
    <3> HIDE DEF v, c, m, n
    <3>1. QED
      BY <1>1, <2>2, <2>3
  <2>6. ASSUME NEW j \in 1..i + m PROVE c[j] = w[i][j]
    <3>1. w[i][j] = IF j <= i THEN t[i - j + 1] ELSE s[j - i]
      BY <1>5, <2>1
    <3>2. CASE j = 1
      <4>1. 1 <= i /\ i - 1 + 1 = i
        BY <1>1
      <4>2. QED
        BY <2>3, <3>1, <3>2, <4>1
    <3>3. CASE j # 1
      <4>1. j \in 2..i + m /\ j - 1 \in 1..i - 1 + m
        BY <1>1, <3>3
      <4>2. c[j] = v[j - 1]
        <5> HIDE DEF v, c, n, m
        <5>1. QED
          BY <2>3, <2>5, <4>1
      <4>3. v[j - 1] = IF j - 1 <= i - 1 THEN t[i - 1 - (j - 1) + 1] ELSE s[j - 1 - (i - 1)]
        BY <1>5, <2>1, <4>1
      <4>4. /\ j - 1 <= i - 1 <=> j <= i
            /\ i - 1 - (j - 1) + 1 = i - j + 1 /\ j - 1 - (i - 1) = j - i
        BY <1>1
      <4> HIDE DEF v, c, n, m
      <4>5. QED
        BY <3>1, <4>2, <4>3, <4>4
    <3>4. QED
      BY <3>2, <3>3
  <2> HIDE DEF v, c, n, m
  <2>7. c = w[i]
    BY <2>3, <2>4, <2>5, <2>6, SeqEqual
  <2>8. QED
    BY <2>7 DEF c, v
<1>8. w[n] = Reverse(t) \o s
  <2> DEFINE r == Reverse(t)
  <2>1. r \in Seq(X) /\ Len(r) = n /\ \A i \in 1..n : r[i] = t[n - i + 1]
    BY ReverseProperties
  <2>2. n \in 0..n
    BY <1>1
  <2>3. /\ w[n] \in Seq(X) /\ Len(w[n]) = n + m
        /\ \A j \in 1..n + m : w[n][j] = IF j <= n THEN t[n - j + 1] ELSE s[j - n]
    BY <1>5, <2>2
  <2> HIDE DEF r
  <2>4. /\ r \o s \in Seq(X) /\ Len(r \o s) = n + m
        /\ \A j \in 1..n + m : (r \o s)[j] = IF j <= n THEN r[j] ELSE s[j - n]
    <3>1. /\ r \o s \in Seq(X) /\ Len(r \o s) = Len(r) + Len(s)
          /\ \A j \in 1..Len(r) + Len(s) :
                (r \o s)[j] = IF j <= Len(r) THEN r[j] ELSE s[j - Len(r)]
      BY <2>1, ConcatProperties
    <3>2. Len(r) = n /\ Len(s) = m
      BY <2>1
    <3> HIDE DEF n, m
    <3>3. QED
      BY <3>1, <3>2
  <2> HIDE DEF n, m
  <2>5. \A j \in 1..n + m : w[n][j] = (r \o s)[j]
    <3>1. \A j \in 1..n + m : j <= n => j \in 1..n
      BY <1>1
    <3>2. QED
      BY <2>1, <2>3, <2>4, <3>1
  <2>6. w[n] = r \o s
    BY <2>3, <2>4, <2>5, SeqEqual
  <2>7. QED
    BY <2>6 DEF r
<1>9. \A i \in 0..n : g[i] = First(w[i], k)
  <2> DEFINE U == {i \in Nat : i \in 0..n => g[i] = First(w[i], k)}
  <2>1. 0 \in U
    BY <1>4, <1>6
  <2>2. ASSUME NEW i \in Nat, i \in U PROVE i + 1 \in U
    <3> SUFFICES ASSUME i + 1 \in 0..n PROVE g[i + 1] = First(w[i + 1], k)
      OBVIOUS
    <3>1. PICK j \in 1..n : j = i + 1 /\ j - 1 = i /\ i \in 0..n /\ j - 1 \in 0..n
      BY <1>1
    <3>2. g[j] = PrependRow(g[j - 1], t[j])
      BY <1>4
    <3>3. g[j - 1] = First(w[j - 1], k)
      BY <2>2, <3>1
    <3> HIDE DEF U, n, m
    <3>4. w[j - 1] \in Seq(X) /\ Enough(w[j - 1], k)
      BY <1>5, <3>1
    <3>5. PrependRow(First(w[j - 1], k), t[j]) = First(<<t[j]>> \o w[j - 1], k)
      BY <1>1, <3>4, PrependFirst
    <3>6. g[j] = First(w[j], k)
      BY <1>7, <3>2, <3>3, <3>5
    <3>7. QED
      BY <3>1, <3>6
  <2> HIDE DEF U
  <2>3. \A i \in Nat : i \in U
    BY <2>1, <2>2, NatSetInduction
  <2>4. QED
    BY <1>1, <2>3 DEF U
<1>10. g[n] = First(Reverse(t) \o s, k)
  <2>1. n \in 0..n
    BY <1>1
  <2> HIDE DEF n
  <2>2. QED
    BY <1>8, <1>9, <2>1
<1>11. QED
  BY <1>4, <1>10
(***************************************************************************)
(* What a page was fed                                                     *)
(***************************************************************************)
LEMMA ReverseConcat ==
  ASSUME NEW X, NEW s \in Seq(X), NEW t \in Seq(X)
  PROVE  Reverse(s \o t) = Reverse(t) \o Reverse(s)
<1> DEFINE c == s \o t
           a == Reverse(s)
           b == Reverse(t)
           m == Len(s)
           n == Len(t)
<1>1. m \in Nat /\ n \in Nat
  BY LenProperties
<1>2. /\ c \in Seq(X) /\ Len(c) = m + n
      /\ \A i \in 1..m + n : c[i] = IF i <= m THEN s[i] ELSE t[i - m]
  BY ConcatProperties
<1>3. a \in Seq(X) /\ Len(a) = m /\ \A i \in 1..m : a[i] = s[m - i + 1]
  BY ReverseProperties
<1>4. b \in Seq(X) /\ Len(b) = n /\ \A i \in 1..n : b[i] = t[n - i + 1]
  BY ReverseProperties
<1> HIDE DEF a, b, c, m, n
<1>5. Reverse(c) \in Seq(X) /\ Len(Reverse(c)) = m + n
      /\ \A i \in 1..m + n : Reverse(c)[i] = c[m + n - i + 1]
  <2>1. Reverse(c) \in Seq(X) /\ Len(Reverse(c)) = Len(c)
        /\ \A i \in 1..Len(c) : Reverse(c)[i] = c[Len(c) - i + 1]
    BY <1>2, ReverseProperties
  <2>2. Len(c) = m + n
    BY <1>2
  <2>3. ASSUME NEW i \in 1..m + n PROVE Reverse(c)[i] = c[m + n - i + 1]
    <3>1. i \in 1..Len(c)
      BY <2>2
    <3>2. Reverse(c)[i] = c[Len(c) - i + 1]
      BY <2>1, <3>1
    <3>3. Len(c) - i + 1 = m + n - i + 1
      BY <1>1, <2>2
    <3>4. QED
      BY <3>2, <3>3
  <2>4. QED
    BY <2>1, <2>2, <2>3
<1>6. /\ b \o a \in Seq(X) /\ Len(b \o a) = n + m
      /\ \A i \in 1..n + m : (b \o a)[i] = IF i <= n THEN b[i] ELSE a[i - n]
  <2>1. /\ b \o a \in Seq(X) /\ Len(b \o a) = Len(b) + Len(a)
        /\ \A i \in 1..Len(b) + Len(a) : (b \o a)[i] = IF i <= Len(b) THEN b[i] ELSE a[i - Len(b)]
    BY <1>3, <1>4, ConcatProperties
  <2>2. Len(b) = n /\ Len(a) = m
    BY <1>3, <1>4
  <2>3. ASSUME NEW i \in 1..n + m
        PROVE  (b \o a)[i] = IF i <= n THEN b[i] ELSE a[i - n]
    <3>1. i \in 1..Len(b) + Len(a)
      BY <2>2
    <3>2. (b \o a)[i] = IF i <= Len(b) THEN b[i] ELSE a[i - Len(b)]
      BY <2>1, <3>1
    <3>3. QED
      BY <2>2, <3>2
  <2>4. QED
    BY <2>1, <2>2, <2>3
<1>7. ASSUME NEW i \in 1..m + n PROVE Reverse(c)[i] = (b \o a)[i]
  <2>1. i \in 1..n + m /\ m + n - i + 1 \in 1..m + n
    BY <1>1
  <2>2. Reverse(c)[i] = c[m + n - i + 1] /\ (b \o a)[i] = IF i <= n THEN b[i] ELSE a[i - n]
    BY <1>5, <1>6, <2>1
  <2>3. CASE i <= n
    <3>1. /\ i \in 1..n /\ ~(m + n - i + 1 <= m) /\ m + n - i + 1 - m = n - i + 1
      BY <1>1, <2>3
    <3>2. c[m + n - i + 1] = t[n - i + 1]
      <4> DEFINE j == m + n - i + 1
      <4>1. j \in 1..m + n /\ ~(j <= m) /\ j - m = n - i + 1
        BY <1>1, <2>1, <2>3, <3>1
      <4> HIDE DEF j
      <4>2. c[j] = t[j - m]
        BY <1>2, <4>1
      <4>3. c[j] = t[n - i + 1]
        BY <4>1, <4>2
      <4>4. QED
        BY <4>3 DEF j
    <3>3. QED
      BY <1>4, <2>2, <2>3, <3>1, <3>2
  <2>4. CASE ~(i <= n)
    <3>1. i - n \in 1..m /\ m + n - i + 1 <= m /\ m - (i - n) + 1 = m + n - i + 1
      BY <1>1, <2>4
    <3>2. c[m + n - i + 1] = s[m + n - i + 1] /\ a[i - n] = s[m + n - i + 1]
      BY <1>2, <1>3, <2>1, <3>1
    <3>3. QED
      BY <2>2, <2>4, <3>2
  <2>5. QED
    BY <2>3, <2>4
<1>8. n + m = m + n
  BY <1>1
<1>9. Reverse(c) = b \o a
  BY <1>5, <1>6, <1>7, <1>8, SeqEqual
<1>10. QED
  BY <1>9 DEF a, b, c

\* One more thing at the end comes first in reverse.
LEMMA ReverseAppend ==
  ASSUME NEW X, NEW s \in Seq(X), NEW x \in X
  PROVE  Reverse(Append(s, x)) = <<x>> \o Reverse(s)
<1>1. <<x>> \in Seq(X) /\ Len(<<x>>) = 1 /\ <<x>>[1] = x
  OBVIOUS
<1>2. Append(s, x) = s \o <<x>>
  BY AppendIsConcat
<1>3. Reverse(<<x>>) = <<x>>
  <2> DEFINE y == <<x>>
  <2>1. y \in Seq(X) /\ Len(y) = 1 /\ 1 - 1 + 1 = 1
    BY <1>1
  <2> HIDE DEF y
  <2>2. Reverse(y) \in Seq(X) /\ Len(Reverse(y)) = 1 /\ \A i \in 1..1 : Reverse(y)[i] = y[1 - i + 1]
    BY <2>1, ReverseProperties
  <2>3. \A i \in 1..1 : Reverse(y)[i] = y[i]
    BY <2>1, <2>2
  <2>4. Reverse(y) = y
    BY <2>1, <2>2, <2>3, SeqEqual
  <2>5. QED
    BY <2>4 DEF y
<1>4. Reverse(s \o <<x>>) = Reverse(<<x>>) \o Reverse(s)
  BY <1>1, ReverseConcat
<1>5. QED
  BY <1>2, <1>3, <1>4

\* The rows of a broadcast, and of several, the first at the front.
RowsOf(m)  == IF m.rows THEN Txns[m.n] ELSE <<>>
Sent(got)  == FlattenSeq([i \in DOMAIN got |-> RowsOf(got[i])])
Numbered(got) == [i \in DOMAIN got |-> got[i].n]

LEMMA RowsAre == \A m \in Broadcasts : RowsOf(m) \in Seq(Rows) /\ m.n \in Numbers
  BY TxnsAre, EmptySeq DEF RowsOf, Broadcasts

LEMMA SentIs ==
  ASSUME NEW got \in Seq(Broadcasts)
  PROVE  Sent(got) \in Seq(Rows)
<1> DEFINE f == [i \in DOMAIN got |-> RowsOf(got[i])]
<1>1. Len(got) \in Nat /\ DOMAIN got = 1..Len(got) /\ \A i \in 1..Len(got) : got[i] \in Broadcasts
  BY LenProperties, ElementOfSeq
<1>2. f \in [1..Len(got) -> Seq(Rows)]
  BY <1>1, RowsAre
<1> HIDE DEF f
<1>3. FlattenSeq(f) \in Seq(Rows)
  BY <1>1, <1>2, FlattenRange
<1>4. QED
  BY <1>3 DEF f, Sent

LEMMA SentGrows ==
  ASSUME NEW got \in Seq(Broadcasts), NEW m \in Broadcasts
  PROVE  Sent(Append(got, m)) = Sent(got) \o RowsOf(m)
<1> DEFINE n == Len(got)
           a == Append(got, m)
           f == [i \in 1..n |-> RowsOf(got[i])]
           e == [i \in 1..n + 1 |-> RowsOf(a[i])]
<1>1. n \in Nat /\ n + 1 \in Nat /\ DOMAIN got = 1..n /\ \A i \in 1..n : got[i] \in Broadcasts
  BY LenProperties, ElementOfSeq
<1>2. /\ a \in Seq(Broadcasts) /\ Len(a) = n + 1
      /\ a[n + 1] = m /\ \A i \in 1..n : a[i] = got[i]
  BY AppendProperties
<1>3. DOMAIN a = 1..n + 1 /\ \A i \in 1..n + 1 : a[i] \in Broadcasts
  BY <1>2, LenProperties, ElementOfSeq
<1> HIDE DEF n, a
<1>4. f \in [1..n -> Seq(Rows)] /\ e \in [1..n + 1 -> Seq(Rows)]
  BY <1>1, <1>3, RowsAre
<1>5. \A i \in 1..n : e[i] = f[i]
  <2>1. \A i \in 1..n : i \in 1..n + 1
    BY <1>1
  <2>2. QED
    BY <1>2, <2>1
<1>6. e[n + 1] = RowsOf(m)
  BY <1>1, <1>2
<1>7. Sent(got) = FlattenSeq(f) /\ Sent(a) = FlattenSeq(e)
  BY <1>1, <1>3 DEF Sent
<1> HIDE DEF e, f
<1>8. FlattenSeq(e) = FlattenSeq(f) \o e[n + 1]
  BY <1>1, <1>4, <1>5, FlattenAppend
<1>9. QED
  BY <1>6, <1>7, <1>8 DEF a

LEMMA NumberedGrows ==
  ASSUME NEW got \in Seq(Broadcasts), NEW m \in Broadcasts
  PROVE  /\ Numbered(got) \in Seq(Numbers)
         /\ Numbered(Append(got, m)) = Append(Numbered(got), m.n)
<1> DEFINE n == Len(got)
           a == Append(got, m)
           s == Numbered(got)
           t == Numbered(a)
<1>1. n \in Nat /\ n + 1 \in Nat /\ DOMAIN got = 1..n /\ \A i \in 1..n : got[i] \in Broadcasts
  BY LenProperties, ElementOfSeq
<1>2. /\ a \in Seq(Broadcasts) /\ Len(a) = n + 1
      /\ a[n + 1] = m /\ \A i \in 1..n : a[i] = got[i]
  BY AppendProperties
<1>3. DOMAIN a = 1..n + 1 /\ \A i \in 1..n + 1 : a[i] \in Broadcasts
  BY <1>2, LenProperties, ElementOfSeq
<1> HIDE DEF n, a
<1>4. s \in [1..n -> Numbers] /\ \A i \in 1..n : s[i] = got[i].n
  BY <1>1, RowsAre DEF Numbered
<1>5. t \in [1..n + 1 -> Numbers] /\ \A i \in 1..n + 1 : t[i] = a[i].n
  BY <1>3, RowsAre DEF Numbered
<1> HIDE DEF s, t
<1>6. s \in Seq(Numbers) /\ Len(s) = n
  BY <1>1, <1>4
<1>7. t \in Seq(Numbers) /\ Len(t) = n + 1
  <2>1. PICK k \in Nat : k = n + 1
    BY <1>1
  <2>2. t \in [1..k -> Numbers]
    BY <1>5, <2>1
  <2>3. QED
    BY <2>1, <2>2
<1>8. m.n \in Numbers
  BY RowsAre
<1>9. /\ Append(s, m.n) \in Seq(Numbers) /\ Len(Append(s, m.n)) = n + 1
      /\ \A i \in 1..n : Append(s, m.n)[i] = s[i]
      /\ Append(s, m.n)[n + 1] = m.n
  BY <1>6, <1>8, AppendProperties
<1>10. \A i \in 1..n + 1 : i \in 1..n \/ i = n + 1
  BY <1>1
<1>11. \A i \in 1..n + 1 : t[i] = Append(s, m.n)[i]
  BY <1>2, <1>4, <1>5, <1>9, <1>10
<1>12. t = Append(s, m.n)
  BY <1>7, <1>9, <1>11, SeqEqual
<1>13. QED
  BY <1>6, <1>12 DEF s, t, a

LEMMA SentNothing == Sent(<<>>) = <<>> /\ Numbered(<<>>) = <<>>
<1>1. Numbered(<<>>) = <<>>
  BY DEF Numbered
<1>2. [i \in DOMAIN <<>> |-> RowsOf(<<>>[i])] = <<>>
  OBVIOUS
<1>3. FlattenSeq(<<>>) = <<>>
  BY DEF FlattenSeq
<1>4. QED
  BY <1>1, <1>2, <1>3 DEF Sent

LEMMA ReverseNothing == Reverse(<<>>) = <<>>
  BY DEF Reverse
(***************************************************************************)
(* What holds of a page                                                    *)
(***************************************************************************)
ShowsNewest(p) == p.table = First(FedRows(p), TableRows(p))

\* A page that waits for what it is rendered from has been sent nothing.
Unsent(p) == p.pc = "loaded" /\ p.got = <<>> /\ p.inbox = <<>> /\ p.anim = FALSE

PageOK(p) ==
    /\ p \in PageState
    /\ p.pending # {} => Unsent(p)
    /\ p.pc = "away" => p = Away
    /\ p.pc # "away" => InOrder(p)
    /\ ShowsNewest(p)

LEMMA FedRowsAre ==
  ASSUME NEW p \in PageState
  PROVE  /\ FedRows(p) = Reverse(Sent(p.got)) \o p.tabled
         /\ Sent(p.got) \in Seq(Rows) /\ p.tabled \in Seq(Rows)
         /\ FedRows(p) \in Seq(Rows)
         /\ TableRows(p) \in Nat \ {0} /\ Enough(FedRows(p), TableRows(p))
<1> DEFINE a == Reverse(Sent(p.got))
           l == p.tabled
<1>1. p.got \in Seq(Broadcasts) /\ l \in Seq(Rows)
  BY DEF PageState
<1>2. Sent(p.got) = FlattenSeq([i \in DOMAIN p.got |->
                                  IF p.got[i].rows THEN Txns[p.got[i].n] ELSE <<>>])
  BY DEF Sent, RowsOf
<1>3. FedRows(p) = a \o l
  BY <1>2 DEF FedRows
<1>4. TableRows(p) = Max({1, Len(l)})
  BY DEF TableRows
<1> HIDE DEF l
<1>5. Len(l) \in Nat
  BY <1>1, LenProperties
<1>6. a \in Seq(Rows) /\ Len(a) \in Nat /\ Sent(p.got) \in Seq(Rows)
  <2>1. Sent(p.got) \in Seq(Rows)
    BY <1>1, SentIs
  <2>2. a \in Seq(Rows)
    BY <2>1, ReverseProperties
  <2> HIDE DEF a
  <2>3. QED
    BY <2>1, <2>2, LenProperties
<1> HIDE DEF a
<1>7. TableRows(p) = IF Len(l) = 0 THEN 1 ELSE Len(l)
  BY <1>4, <1>5, MaxOfTwo
<1>8. a \o l \in Seq(Rows) /\ Len(a \o l) = Len(a) + Len(l)
  BY <1>1, <1>6, ConcatProperties
<1>9. Enough(a \o l, TableRows(p))
  BY <1>5, <1>6, <1>7, <1>8 DEF Enough
<1>10. QED
  BY <1>1, <1>3, <1>5, <1>6, <1>7, <1>8, <1>9 DEF a, l

\* The rows of a broadcast go on top of those the page was fed.
LEMMA ReceivedRows ==
  ASSUME NEW p \in PageState, ShowsNewest(p), NEW m \in Broadcasts, NEW q,
         q.got = Append(p.got, m), q.tabled = p.tabled,
         q.table = Prepended(p.table, RowsOf(m))
  PROVE  ShowsNewest(q) /\ q.table \in Seq(Rows) /\ q.got \in Seq(Broadcasts)
<1> DEFINE s == Sent(p.got)
           t == RowsOf(m)
           l == p.tabled
           k == TableRows(p)
           f == FedRows(p)
<1>1. /\ f = Reverse(s) \o l /\ s \in Seq(Rows) /\ l \in Seq(Rows)
      /\ f \in Seq(Rows) /\ k \in Nat \ {0} /\ Enough(f, k)
  BY FedRowsAre
<1>2. p.got \in Seq(Broadcasts) /\ t \in Seq(Rows)
  BY RowsAre DEF PageState
<1>3. q.got \in Seq(Broadcasts)
  BY <1>2, AppendProperties
<1>4. Sent(q.got) = s \o t
  BY <1>2, SentGrows
<1>5. Sent(q.got) = FlattenSeq([i \in DOMAIN q.got |->
                                  IF q.got[i].rows THEN Txns[q.got[i].n] ELSE <<>>])
  BY DEF Sent, RowsOf
<1>6. FedRows(q) = Reverse(Sent(q.got)) \o q.tabled
  BY <1>5 DEF FedRows
<1>7. TableRows(q) = k
  BY DEF TableRows
<1>8. q.tabled = l
  OBVIOUS
<1>9. p.table = First(f, k) /\ q.table = Prepended(p.table, t)
  BY DEF ShowsNewest
<1> HIDE DEF s, t, l, k, f
<1>10. Reverse(t) \in Seq(Rows) /\ Reverse(s) \in Seq(Rows)
  BY <1>1, <1>2, ReverseProperties
<1>11. FedRows(q) = Reverse(t) \o f
  <2>1. Reverse(s \o t) = Reverse(t) \o Reverse(s)
    BY <1>1, <1>2, ReverseConcat
  <2> DEFINE a == Reverse(t)
             b == Reverse(s)
  <2>2. a \in Seq(Rows) /\ b \in Seq(Rows)
    BY <1>10
  <2>3. FedRows(q) = (a \o b) \o l /\ f = b \o l
    BY <1>1, <1>4, <1>6, <1>8, <2>1
  <2> HIDE DEF a, b
  <2>4. (a \o b) \o l = a \o (b \o l)
    <3>1. a \in Seq(Rows) /\ b \in Seq(Rows) /\ l \in Seq(Rows)
      BY <1>1, <2>2
    <3>2. QED
      BY <3>1, ConcatAssociative, SMTT(30)
  <2>5. FedRows(q) = a \o f
    BY <2>3, <2>4
  <2>6. QED
    BY <2>5 DEF a
<1>12. Prepended(First(f, k), t) = First(Reverse(t) \o f, k)
  BY <1>1, <1>2, PrependAll
<1>13. q.table = First(FedRows(q), TableRows(q))
  BY <1>7, <1>9, <1>11, <1>12
<1>14. First(Reverse(t) \o f, k) \in Seq(Rows)
  <2>1. Reverse(t) \o f \in Seq(Rows)
    BY <1>1, <1>10, ConcatProperties
  <2>2. QED
    BY <1>1, <2>1, FirstProperties
<1>15. QED
  BY <1>3, <1>7, <1>11, <1>13, <1>14 DEF ShowsNewest
(***************************************************************************)
(* What a browser does keeps that of its page                              *)
(***************************************************************************)
LEMMA FedIs ==
  ASSUME NEW p \in PageState
  PROVE  /\ Fed(p) = Reverse(Numbered(p.got)) \o p.listed
         /\ Reverse(Numbered(p.got)) \in Seq(Numbers) /\ p.listed \in Seq(Numbers)
         /\ Fed(p) \in Seq(Numbers)
<1>1. p.got \in Seq(Broadcasts) /\ p.listed \in Seq(Numbers)
  BY DEF PageState
<1>2. Numbered(p.got) \in Seq(Numbers)
  <2> DEFINE got == p.got
  <2>1. Len(got) \in Nat /\ DOMAIN got = 1..Len(got) /\ \A i \in 1..Len(got) : got[i] \in Broadcasts
    BY <1>1, LenProperties, ElementOfSeq
  <2> HIDE DEF got
  <2>2. Numbered(got) \in [1..Len(got) -> Numbers]
    BY <2>1, RowsAre DEF Numbered
  <2>3. QED
    BY <2>1, <2>2 DEF got
<1>3. Reverse(Numbered(p.got)) \in Seq(Numbers)
  BY <1>2, ReverseProperties
<1>4. Fed(p) = Reverse(Numbered(p.got)) \o p.listed
  BY DEF Fed, Numbered
<1>5. QED
  BY <1>1, <1>3, <1>4, ConcatProperties

\* A table just rendered, and not yet sent anything, is what the api answered.
LEMMA TableRendered ==
  ASSUME NEW q \in PageState, q.got = <<>>, q.table = q.tabled
  PROVE  ShowsNewest(q)
<1> DEFINE l == q.tabled
           k == TableRows(q)
<1>1. FedRows(q) = Reverse(Sent(q.got)) \o l /\ l \in Seq(Rows) /\ k \in Nat \ {0}
  BY FedRowsAre
<1>2. FedRows(q) = <<>> \o l
  BY <1>1, SentNothing, ReverseNothing
<1>3. k = Max({1, Len(l)})
  BY DEF TableRows
<1>4. q.table = l
  OBVIOUS
<1> HIDE DEF l, k
<1>5. FedRows(q) = l
  BY <1>1, <1>2, ConcatEmptySeq
<1>6. Len(l) \in Nat /\ k >= Len(l)
  <2>1. Len(l) \in Nat
    BY <1>1, LenProperties
  <2>2. QED
    BY <1>3, <2>1, MaxOfTwo
<1>7. First(l, k) \in Seq(Rows) /\ Len(First(l, k)) = Len(l)
      /\ \A i \in 1..Len(First(l, k)) : First(l, k)[i] = l[i]
  BY <1>1, <1>6, FirstProperties
<1>8. First(l, k) = l
  BY <1>1, <1>7, SeqEqual
<1>9. QED
  BY <1>4, <1>5, <1>8 DEF ShowsNewest, k

\* A list just rendered shows the blocks the api answered below the placeholder.
LEMMA ListRendered ==
  ASSUME NEW q \in PageState, q.got = <<>>, q.anim = FALSE,
         q.list = <<Placeholder>> \o [i \in DOMAIN q.listed |-> [n |-> q.listed[i], hidden |-> FALSE]]
  PROVE  InOrder(q)
<1> DEFINE f == q.listed
           k == Len(f)
           shown == [i \in DOMAIN f |-> [n |-> f[i], hidden |-> FALSE]]
           list == <<Placeholder>> \o shown
<1>1. f \in Seq(Numbers)
  BY DEF PageState
<1>2. q.list = list
  OBVIOUS
<1> HIDE DEF f
<1>3. k \in Nat /\ DOMAIN f = 1..k /\ \A i \in 1..k : f[i] \in Numbers
  BY <1>1, LenProperties, ElementOfSeq
<1> HIDE DEF k
<1>4. /\ shown \in Seq(Entry) /\ Len(shown) = k
      /\ \A i \in 1..k : shown[i].n = f[i] /\ shown[i].hidden = FALSE
  <2>1. \A i \in 1..k : [n |-> f[i], hidden |-> FALSE] \in Entry
    BY <1>3 DEF Entry
  <2>2. shown \in [1..k -> Entry]
    BY <1>3, <2>1
  <2>3. \A i \in 1..k : shown[i].n = f[i] /\ shown[i].hidden = FALSE
    BY <1>3
  <2> HIDE DEF shown
  <2>4. QED
    BY <1>3, <2>2, <2>3
<1>5. Placeholder \in Entry /\ Placeholder.hidden = TRUE
  BY DEF Placeholder, Entry
<1> HIDE DEF shown
<1>6. /\ list \in Seq(Entry) /\ Len(list) = k + 1 /\ list[1] = Placeholder
      /\ \A i \in 2..k + 1 : list[i] = shown[i - 1]
  BY <1>4, <1>5, ConsProperties
<1> HIDE DEF list
<1>7. DOMAIN q.list = 1..k + 1 /\ Len(q.list) = 1 + k
  BY <1>2, <1>3, <1>6, LenProperties
<1>8. \A i \in 1..k + 1 : i = 1 \/ (i \in 2..k + 1 /\ i - 1 \in 1..k)
  BY <1>3
<1>9. ASSUME NEW i \in 1..k + 1 PROVE q.list[i].hidden <=> i = 1
  <2>1. CASE i = 1
    BY <1>2, <1>5, <1>6, <2>1
  <2>2. CASE i # 1
    <3>1. i \in 2..k + 1 /\ i - 1 \in 1..k
      BY <1>8, <2>2
    <3>2. q.list[i] = shown[i - 1] /\ shown[i - 1].hidden = FALSE
      BY <1>2, <1>4, <1>6, <3>1
    <3>3. QED
      BY <2>2, <3>2
  <2>3. QED
    BY <2>1, <2>2
<1>10. \A i \in DOMAIN q.list : q.list[i].hidden <=> i = 1 /\ ~q.anim
  BY <1>7, <1>9
<1>11. Showing(q) = 2..k + 1
  <2>1. 2..k + 1 = {i \in 1..k + 1 : i # 1}
    BY <1>3
  <2>2. QED
    BY <1>7, <1>9, <2>1 DEF Showing
<1>12. Fed(q) = f
  <2>1. Fed(q) = Reverse(Numbered(q.got)) \o f
    BY FedIs DEF f
  <2>2. Fed(q) = <<>> \o f
    BY <2>1, SentNothing, ReverseNothing
  <2>3. QED
    BY <1>1, <2>2, ConcatEmptySeq
<1> DEFINE place == [i \in 2..k + 1 |-> i - 1]
<1>13. place \in [Showing(q) -> DOMAIN Fed(q)]
  BY <1>3, <1>8, <1>11, <1>12
<1>14. ASSUME NEW i \in Showing(q) PROVE q.list[i].n = Fed(q)[place[i]]
  <2>1. i \in 2..k + 1 /\ i - 1 \in 1..k
    BY <1>3, <1>11
  <2>2. q.list[i].n = f[i - 1] /\ place[i] = i - 1
    BY <1>2, <1>4, <1>6, <2>1
  <2>3. QED
    BY <1>12, <2>2
<1>15. \A i, j \in Showing(q) : i < j => place[i] < place[j]
  BY <1>3, <1>11
<1>16. q.listed # <<>> => \E i \in Showing(q) : place[i] = 1
  <2>1. f # <<>> => k # 0
    BY <1>1, EmptySeq DEF k
  <2>2. k # 0 => 2 \in 2..k + 1 /\ 2 - 1 = 1
    BY <1>3
  <2>3. QED
    BY <1>11, <2>1, <2>2 DEF f
<1> HIDE DEF place
<1>17. Len(q.list) = 1 + Len(q.listed)
  BY <1>7 DEF k, f
<1>18. QED
  BY <1>10, <1>13, <1>14, <1>15, <1>16, <1>17 DEF InOrder

LEMMA AwayOK == PageOK(Away)
<1>1. Away \in PageState
  <2>1. Placeholder \in Entry
    BY DEF Placeholder, Entry
  <2>2. <<>> \in Seq(Entry) /\ <<>> \in Seq(Rows) /\ <<>> \in Seq(Broadcasts) /\ <<>> \in Seq(Numbers)
    BY EmptySeq
  <2>3. QED
    BY <2>1, <2>2 DEF Away, PageState
<1>2. Away.pc = "away" /\ Away.pending = {} /\ Away.got = <<>> /\ Away.table = Away.tabled
  BY DEF Away
<1>3. QED
  BY <1>1, <1>2, TableRendered DEF PageOK

\* Connections and messages do not change what shows.
LEMMA ShownOK ==
  ASSUME NEW p \in PageState, PageOK(p), p.pc # "away", NEW q \in PageState, q.pc # "away",
         q.list = p.list, q.anim = p.anim, q.table = p.table, q.listed = p.listed,
         q.tabled = p.tabled, q.got = p.got, q.pending # {} => Unsent(q)
  PROVE  PageOK(q)
<1>1. Fed(q) = Fed(p) /\ FedRows(q) = FedRows(p) /\ TableRows(q) = TableRows(p)
      /\ Showing(q) = Showing(p)
  BY DEF Fed, FedRows, TableRows, Showing
<1>2. InOrder(p) /\ ShowsNewest(p)
  BY DEF PageOK
<1>3. ShowsNewest(q)
  BY <1>1, <1>2 DEF ShowsNewest
<1>4. InOrder(q)
  BY <1>1, <1>2 DEF InOrder
<1>5. QED
  BY <1>3, <1>4 DEF PageOK

\* A page just opened, with nothing answered.
LEMMA OpenedOK ==
  ASSUME NEW q, q = [Away EXCEPT !.pc = "loaded", !.list = <<Placeholder>>,
                                 !.pending = {"blocks", "txns"}]
  PROVE  PageOK(q)
<1>1. Placeholder \in Entry
  BY DEF Placeholder, Entry
<1>2. <<Placeholder>> \in Seq(Entry) /\ <<>> \in Seq(Rows) /\ <<>> \in Seq(Broadcasts)
      /\ <<>> \in Seq(Numbers)
  BY <1>1, EmptySeq
<1>3. q \in PageState
  BY <1>1, <1>2 DEF Away, PageState
<1>4. /\ q.pc = "loaded" /\ q.got = <<>> /\ q.inbox = <<>> /\ q.anim = FALSE
      /\ q.listed = <<>> /\ q.table = <<>> /\ q.tabled = <<>> /\ q.list = <<Placeholder>>
  BY DEF Away
<1>5. [i \in DOMAIN q.listed |-> [n |-> q.listed[i], hidden |-> FALSE]] = <<>>
  BY <1>4
<1>6. <<Placeholder>> \o <<>> = <<Placeholder>>
  BY <1>2, ConcatEmptySeq
<1>7. InOrder(q)
  BY <1>3, <1>4, <1>5, <1>6, ListRendered
<1>8. ShowsNewest(q)
  BY <1>3, <1>4, TableRendered
<1>9. QED
  BY <1>3, <1>4, <1>7, <1>8 DEF PageOK, Unsent

\* The blocks answered: whatever the table is, or will be.
LEMMA ListReadOK ==
  ASSUME NEW p, PageOK(p), p.pending # {}, NEW ns \in Seq(Numbers), NEW q,
         q = [p EXCEPT !.pending = p.pending \ {"blocks"}, !.listed = ns,
                       !.list = <<Placeholder>> \o
                                [i \in DOMAIN ns |-> [n |-> ns[i], hidden |-> FALSE]]]
  PROVE  PageOK(q)
<1> DEFINE shown == [i \in DOMAIN ns |-> [n |-> ns[i], hidden |-> FALSE]]
           list == <<Placeholder>> \o shown
           left == p.pending \ {"blocks"}
<1>1. p \in PageState /\ Unsent(p) /\ ShowsNewest(p)
  BY DEF PageOK
<1>2. shown \in Seq(Entry)
  <2>1. Len(ns) \in Nat /\ DOMAIN ns = 1..Len(ns) /\ \A i \in 1..Len(ns) : ns[i] \in Numbers
    BY LenProperties, ElementOfSeq
  <2>2. \A i \in 1..Len(ns) : [n |-> ns[i], hidden |-> FALSE] \in Entry
    BY <2>1 DEF Entry
  <2>3. shown \in [1..Len(ns) -> Entry]
    BY <2>1, <2>2
  <2>4. QED
    BY <2>1, <2>3
<1>3. Placeholder \in Entry
  BY DEF Placeholder, Entry
<1> HIDE DEF shown
<1>4. list \in Seq(Entry)
  BY <1>2, <1>3, ConsProperties
<1>5. left \in SUBSET {"blocks", "txns"}
  BY <1>1 DEF PageState
<1>6. q = [p EXCEPT !.pending = left, !.listed = ns, !.list = list]
  BY DEF shown
<1> HIDE DEF list, left
<1>7. q \in PageState
  BY <1>1, <1>4, <1>5, <1>6 DEF PageState
<1>8. /\ q.pc = p.pc /\ q.got = p.got /\ q.inbox = p.inbox /\ q.anim = p.anim
      /\ q.table = p.table /\ q.tabled = p.tabled /\ q.listed = ns /\ q.list = list
  BY <1>1, <1>6 DEF PageState
<1>9. Unsent(q)
  BY <1>1, <1>8 DEF Unsent
<1>10. InOrder(q)
  BY <1>7, <1>8, <1>9, ListRendered DEF Unsent, list, shown
<1>11. ShowsNewest(q)
  BY <1>1, <1>8 DEF ShowsNewest, FedRows, TableRows
<1>12. QED
  BY <1>7, <1>9, <1>10, <1>11 DEF PageOK, Unsent

\* The transactions answered: whatever the list is, or will be.
LEMMA TableReadOK ==
  ASSUME NEW p, PageOK(p), p.pending # {}, NEW rows \in Seq(Rows), NEW q,
         q = [p EXCEPT !.pending = p.pending \ {"txns"}, !.tabled = rows, !.table = rows]
  PROVE  PageOK(q)
<1> DEFINE left == p.pending \ {"txns"}
<1>1. p \in PageState /\ Unsent(p) /\ InOrder(p)
  BY DEF PageOK, Unsent
<1>2. left \in SUBSET {"blocks", "txns"}
  BY <1>1 DEF PageState
<1>3. q = [p EXCEPT !.pending = left, !.tabled = rows, !.table = rows]
  OBVIOUS
<1> HIDE DEF left
<1>4. q \in PageState
  BY <1>1, <1>2, <1>3 DEF PageState
<1>5. /\ q.pc = p.pc /\ q.got = p.got /\ q.inbox = p.inbox /\ q.anim = p.anim
      /\ q.list = p.list /\ q.listed = p.listed /\ q.table = rows /\ q.tabled = rows
  BY <1>1, <1>3 DEF PageState
<1>6. Unsent(q)
  BY <1>1, <1>5 DEF Unsent
<1>7. Fed(q) = Fed(p) /\ Showing(q) = Showing(p)
  BY <1>5 DEF Fed, Showing
<1>8. InOrder(q)
  BY <1>1, <1>5, <1>7 DEF InOrder
<1>9. ShowsNewest(q)
  BY <1>4, <1>5, <1>6, TableRendered DEF Unsent
<1>10. QED
  BY <1>4, <1>6, <1>8, <1>9 DEF PageOK, Unsent

\* The page of an order of places, one for each entry that shows.
Placed(p, place) ==
    /\ place \in [Showing(p) -> DOMAIN Fed(p)]
    /\ \A i \in Showing(p) : p.list[i].n = Fed(p)[place[i]]
    /\ \A i, j \in Showing(p) : i < j => place[i] < place[j]
    /\ p.listed # <<>> => \E i \in Showing(p) : place[i] = 1

LEMMA ListIs ==
  ASSUME NEW p \in PageState, InOrder(p)
  PROVE  /\ Len(p.list) \in Nat /\ Len(p.list) >= 1 /\ DOMAIN p.list = 1..Len(p.list)
         /\ p.listed # <<>> => Len(p.list) >= 2
         /\ \A i \in 1..Len(p.list) : p.list[i] \in Entry
         /\ \A i \in 1..Len(p.list) : p.list[i].hidden <=> i = 1 /\ ~p.anim
<1>1. p.list \in Seq(Entry) /\ p.listed \in Seq(Numbers)
  BY DEF PageState
<1>2. Len(p.listed) \in Nat /\ (p.listed # <<>> => Len(p.listed) # 0)
  BY <1>1, LenProperties, EmptySeq
<1>3. Len(p.list) = 1 + Len(p.listed)
  BY DEF InOrder
<1>4. Len(p.list) >= 1 /\ (p.listed # <<>> => Len(p.list) >= 2)
  BY <1>2, <1>3
<1>5. Len(p.list) \in Nat /\ DOMAIN p.list = 1..Len(p.list)
      /\ \A i \in 1..Len(p.list) : p.list[i] \in Entry
  BY <1>1, LenProperties, ElementOfSeq
<1>6. \A i \in DOMAIN p.list : p.list[i].hidden <=> i = 1 /\ ~p.anim
  BY DEF InOrder
<1>7. QED
  BY <1>4, <1>5, <1>6

\* A block shown on top of those fed before: their places move down.
LEMMA ReceivedInOrder ==
  ASSUME NEW p \in PageState, InOrder(p), NEW m \in Broadcasts, NEW q \in PageState,
         q.list = [p.list EXCEPT ![1] = [n |-> m.n, hidden |-> FALSE]],
         q.anim = TRUE, q.got = Append(p.got, m), q.listed = p.listed
  PROVE  InOrder(q)
<1> DEFINE l == Len(p.list)
           f == Fed(p)
           g == Fed(q)
<1>1. /\ l \in Nat /\ l >= 1 /\ DOMAIN p.list = 1..l
      /\ \A i \in 1..l : p.list[i].hidden <=> i = 1 /\ ~p.anim
  BY ListIs
<1>2. q.list \in Seq(Entry) /\ DOMAIN q.list = 1..l /\ Len(q.list) = l
  <2>1. q.list \in Seq(Entry) /\ DOMAIN q.list = 1..l
    BY <1>1 DEF PageState
  <2> HIDE DEF l
  <2>2. QED
    BY <1>1, <2>1, LenProperties
<1>3. q.list[1] = [n |-> m.n, hidden |-> FALSE] /\ \A i \in 2..l : q.list[i] = p.list[i]
  BY <1>1
<1>4. \A i \in 1..l : i = 1 \/ i \in 2..l
  BY <1>1
<1> HIDE DEF l
<1>5. \A i \in 1..l : ~q.list[i].hidden
  <2>1. \A i \in 2..l : ~p.list[i].hidden
    BY <1>1
  <2>2. QED
    BY <1>3, <1>4, <2>1
<1>6. Showing(q) = 1..l
  BY <1>2, <1>5 DEF Showing
<1>7. 2..l \subseteq Showing(p)
  BY <1>1 DEF Showing
<1>8. g = <<m.n>> \o f /\ f \in Seq(Numbers) /\ m.n \in Numbers
  <2> DEFINE d == p.listed
             a == Reverse(Numbered(p.got))
             x == <<m.n>>
  <2>1. /\ f = a \o d /\ a \in Seq(Numbers) /\ d \in Seq(Numbers) /\ f \in Seq(Numbers)
        /\ g = Reverse(Numbered(q.got)) \o q.listed
    BY FedIs
  <2>2. m.n \in Numbers /\ x \in Seq(Numbers)
    BY RowsAre
  <2>3. Reverse(Numbered(q.got)) = x \o a
    <3> DEFINE got == p.got
               ns  == Numbered(got)
    <3>1. got \in Seq(Broadcasts)
      BY DEF PageState
    <3> HIDE DEF got
    <3>2. ns \in Seq(Numbers) /\ Numbered(Append(got, m)) = Append(ns, m.n)
      BY <3>1, NumberedGrows
    <3> HIDE DEF ns
    <3>3. Reverse(Append(ns, m.n)) = <<m.n>> \o Reverse(ns)
      BY <2>2, <3>2, ReverseAppend
    <3>4. QED
      BY <3>2, <3>3 DEF ns, got
  <2>4. g = (x \o a) \o d
    BY <2>1, <2>3
  <2> HIDE DEF x, a, d, f, g
  <2>5. x \in Seq(Numbers) /\ a \in Seq(Numbers) /\ d \in Seq(Numbers)
    BY <2>1, <2>2
  <2>6. (x \o a) \o d = x \o (a \o d)
    BY <2>5, ConcatAssociative, SMTT(30)
  <2>7. g = x \o f
    BY <2>1, <2>4, <2>6
  <2>8. QED
    BY <2>1, <2>2, <2>7 DEF x
<1> HIDE DEF f, g
<1>9. /\ Len(f) \in Nat /\ DOMAIN f = 1..Len(f) /\ DOMAIN g = 1..Len(f) + 1
      /\ g[1] = m.n /\ \A i \in 2..Len(f) + 1 : g[i] = f[i - 1]
  <2>1. /\ g \in Seq(Numbers) /\ Len(g) = Len(f) + 1
        /\ g[1] = m.n /\ \A i \in 2..Len(f) + 1 : g[i] = f[i - 1]
    BY <1>8, ConsProperties
  <2>2. QED
    BY <1>8, <2>1, LenProperties
<1>10. PICK old : Placed(p, old)
  BY DEF InOrder, Placed
<1> DEFINE new == [i \in 1..l |-> IF i = 1 THEN 1 ELSE old[i] + 1]
<1>11. \A i \in 2..l : old[i] \in 1..Len(f) /\ p.list[i].n = f[old[i]]
  BY <1>7, <1>9, <1>10 DEF Placed, f
<1>12. \A i, j \in 2..l : i < j => old[i] < old[j]
  BY <1>7, <1>10 DEF Placed
<1>13. new[1] = 1 /\ \A i \in 2..l : new[i] = old[i] + 1
  BY <1>1
<1>14. \A i \in 1..l : new[i] \in 1..Len(f) + 1
  BY <1>4, <1>9, <1>11, <1>13
<1>15. new \in [Showing(q) -> DOMAIN g]
  BY <1>6, <1>9, <1>14
<1> HIDE DEF new
<1>16. ASSUME NEW i \in Showing(q) PROVE q.list[i].n = g[new[i]]
  <2>1. CASE i = 1
    BY <1>3, <1>9, <1>13, <2>1
  <2>2. CASE i # 1
    <3>1. i \in 2..l
      BY <1>4, <1>6, <2>2
    <3>2. PICK j \in 2..Len(f) + 1 : j = old[i] + 1 /\ j - 1 = old[i]
      BY <1>9, <1>11, <3>1
    <3>3. g[j] = f[j - 1]
      BY <1>9
    <3>4. QED
      BY <1>3, <1>11, <1>13, <3>1, <3>2, <3>3
  <2>3. QED
    BY <2>1, <2>2
<1>17. ASSUME NEW i \in Showing(q), NEW j \in Showing(q), i < j PROVE new[i] < new[j]
  <2>1. j \in 2..l /\ old[j] \in 1..Len(f) /\ new[j] = old[j] + 1
    BY <1>1, <1>6, <1>11, <1>13, <1>17
  <2>2. CASE i = 1
    BY <1>9, <1>13, <2>1, <2>2
  <2>3. CASE i # 1
    <3>1. i \in 2..l /\ old[i] \in 1..Len(f) /\ new[i] = old[i] + 1
      BY <1>4, <1>6, <1>11, <1>13, <2>3
    <3>2. old[i] < old[j]
      BY <1>12, <1>17, <2>1, <3>1
    <3>3. QED
      BY <1>9, <2>1, <3>1, <3>2
  <2>4. QED
    BY <2>2, <2>3
<1>18. \E i \in Showing(q) : new[i] = 1
  BY <1>1, <1>6, <1>13
<1>19. Placed(q, new)
  BY <1>15, <1>16, <1>17, <1>18 DEF Placed, g
<1>20. Len(q.list) = 1 + Len(q.listed)
  BY <1>2 DEF InOrder, l
<1>21. \A i \in DOMAIN q.list : q.list[i].hidden <=> i = 1 /\ ~q.anim
  BY <1>2, <1>5
<1>22. QED
  BY <1>19, <1>20, <1>21 DEF InOrder, Placed

LEMMA ReceivedOK ==
  ASSUME NEW p, PageOK(p), p.inbox # <<>>
  PROVE  PageOK(Received(p, Head(p.inbox))) /\ Received(p, Head(p.inbox)).pc # "away"
<1> DEFINE m == Head(p.inbox)
           q == Received(p, m)
<1>1. p \in PageState /\ p.pc # "away" /\ InOrder(p) /\ ShowsNewest(p) /\ p.pending = {}
  BY DEF PageOK, Away, Unsent
<1>2. m \in Broadcasts /\ Tail(p.inbox) \in Seq(Broadcasts)
  BY <1>1, HeadTailProperties DEF PageState
<1>3. p.list[1] \in Entry /\ 1 \in 1..Len(p.list) /\ Len(p.list) \in Nat
  BY <1>1, ListIs
<1> HIDE DEF m
<1>4. CASE ~m.found
  <2>1. q = [p EXCEPT !.inbox = Tail(@), !.template = p.list[1]]
    BY <1>4 DEF Received
  <2>2. q \in PageState
    BY <1>1, <1>2, <1>3, <2>1 DEF PageState
  <2>3. /\ q.pc = p.pc /\ q.list = p.list /\ q.anim = p.anim /\ q.table = p.table
        /\ q.listed = p.listed /\ q.tabled = p.tabled /\ q.got = p.got /\ q.pending = {}
    BY <1>1, <2>1 DEF PageState
  <2> HIDE DEF q
  <2>4. PageOK(q) /\ q.pc # "away"
    BY <1>1, <2>2, <2>3, ShownOK
  <2>5. QED
    BY <2>4 DEF q, m
<1>5. CASE m.found
  <2> DEFINE e == [n |-> m.n, hidden |-> FALSE]
             list == [p.list EXCEPT ![1] = e]
             t == Prepended(p.table, RowsOf(m))
             got == Append(p.got, m)
  <2>1. q = [p EXCEPT !.inbox = Tail(@), !.template = p.list[1], !.list = list,
                      !.anim = TRUE, !.table = t, !.got = got]
    BY <1>1, <1>5 DEF Received, Prepended, RowsOf, PageState
  <2>2. list \in Seq(Entry)
    <3>1. e \in Entry
      BY <1>2 DEF Broadcasts, Entry
    <3>2. p.list \in Seq(Entry)
      BY <1>1 DEF PageState
    <3> HIDE DEF e
    <3>3. QED
      BY <1>3, <3>1, <3>2, ExceptSeq
  <2> HIDE DEF list, t, got
  <2>3. /\ q.pc = p.pc /\ q.inbox = Tail(p.inbox) /\ q.template = p.list[1] /\ q.list = list
        /\ q.anim = TRUE /\ q.table = t /\ q.listed = p.listed /\ q.tabled = p.tabled
        /\ q.got = got /\ q.pending = {}
    BY <1>1, <2>1 DEF PageState
  <2> HIDE DEF q
  <2>4. ShowsNewest(q) /\ t \in Seq(Rows) /\ got \in Seq(Broadcasts)
    BY <1>1, <1>2, <2>3, ReceivedRows DEF t, got
  <2>5. q \in PageState
    BY <1>1, <1>2, <1>3, <2>1, <2>2, <2>4 DEF PageState
  <2>6. InOrder(q)
    BY <1>1, <1>2, <2>3, <2>5, ReceivedInOrder DEF list, got
  <2>7. PageOK(q) /\ q.pc # "away"
    BY <1>1, <2>3, <2>4, <2>5, <2>6 DEF PageOK
  <2>8. QED
    BY <2>7 DEF q, m
<1>6. QED
  BY <1>4, <1>5

\* The entry on top moves down, with its place.
LEMMA AnimatedOK ==
  ASSUME NEW p, PageOK(p), p.anim, NEW q, q = [p EXCEPT !.anim = FALSE, !.list = Animated(p)]
  PROVE  PageOK(q) /\ q.pc # "away"
<1> DEFINE l == Len(p.list)
           above == Hide(p.template)
           rest == SubSeq(p.list, 1, l - 1)
<1>1. p \in PageState /\ p.pc # "away" /\ InOrder(p) /\ ShowsNewest(p) /\ p.pending = {}
  BY DEF PageOK, Away, Unsent
<1>2. /\ l \in Nat /\ l >= 1 /\ DOMAIN p.list = 1..l /\ (p.listed # <<>> => l >= 2)
      /\ \A i \in 1..l : p.list[i] \in Entry
      /\ \A i \in 1..l : ~p.list[i].hidden
  BY <1>1, ListIs
<1>3. Showing(p) = 1..l
  BY <1>2 DEF Showing
<1>4. above \in Entry /\ above.hidden = TRUE
  BY <1>1 DEF Hide, Entry, PageState
<1> HIDE DEF l, above
<1>5. rest \in Seq(Entry) /\ Len(rest) = l - 1 /\ \A i \in 1..l - 1 : rest[i] = p.list[i]
  <2>1. \A i \in 1..l - 1 : p.list[i] \in Entry
    BY <1>2
  <2>2. 1 \in Int /\ l - 1 \in Int
    BY <1>2
  <2>3. /\ rest \in Seq(Entry)
        /\ Len(rest) = IF 1 <= l - 1 THEN l - 1 - 1 + 1 ELSE 0
        /\ \A i \in 1..l - 1 - 1 + 1 : rest[i] = p.list[1 + i - 1]
    BY <2>1, <2>2, SubSeqProperties
  <2> HIDE DEF rest
  <2>4. QED
    BY <1>2, <2>3
<1> HIDE DEF rest
<1>6. /\ Animated(p) \in Seq(Entry) /\ Len(Animated(p)) = l /\ Animated(p)[1] = above
      /\ \A i \in 2..l : Animated(p)[i] = p.list[i - 1]
  <2> DEFINE c == <<above>> \o rest
  <2>1. /\ c \in Seq(Entry) /\ Len(c) = Len(rest) + 1 /\ c[1] = above
        /\ \A i \in 2..Len(rest) + 1 : c[i] = rest[i - 1]
    BY <1>4, <1>5, ConsProperties
  <2>2. Animated(p) = c
    BY DEF Animated, above, rest, l
  <2> HIDE DEF c
  <2>3. Len(rest) + 1 = l /\ \A i \in 2..l : i - 1 \in 1..l - 1
    BY <1>2, <1>5
  <2>4. QED
    BY <1>5, <2>1, <2>2, <2>3
<1>7. /\ q.pc = p.pc /\ q.list = Animated(p) /\ q.anim = FALSE /\ q.table = p.table
      /\ q.listed = p.listed /\ q.tabled = p.tabled /\ q.got = p.got /\ q.pending = {}
  BY <1>1 DEF PageState
<1>8. q \in PageState
  <2> DEFINE a == Animated(p)
  <2>1. a \in Seq(Entry)
    BY <1>6
  <2> HIDE DEF a
  <2>2. q = [p EXCEPT !.anim = FALSE, !.list = a]
    BY DEF a
  <2>3. QED
    BY <1>1, <2>1, <2>2 DEF PageState
<1>9. Fed(q) = Fed(p) /\ FedRows(q) = FedRows(p) /\ TableRows(q) = TableRows(p)
  BY <1>7 DEF Fed, FedRows, TableRows
<1>10. ShowsNewest(q)
  BY <1>1, <1>7, <1>9 DEF ShowsNewest
<1>11. DOMAIN q.list = 1..l /\ Len(q.list) = l
  BY <1>6, <1>7, LenProperties
<1>12. ASSUME NEW i \in 1..l PROVE q.list[i].hidden <=> i = 1
  <2>1. CASE i = 1
    BY <1>4, <1>6, <1>7, <2>1
  <2>2. CASE i # 1
    <3>1. i \in 2..l /\ i - 1 \in 1..l
      BY <1>2, <2>2
    <3>2. QED
      BY <1>2, <1>6, <1>7, <2>2, <3>1
  <2>3. QED
    BY <2>1, <2>2
<1>13. Showing(q) = 2..l
  <2>1. 2..l = {i \in 1..l : i # 1}
    BY <1>2
  <2>2. QED
    BY <1>11, <1>12, <2>1 DEF Showing
<1>14. PICK old : Placed(p, old)
  BY <1>1 DEF InOrder, Placed
<1> DEFINE new == [i \in 2..l |-> old[i - 1]]
<1>15. \A i \in 2..l : i - 1 \in Showing(p) /\ new[i] = old[i - 1]
  BY <1>2, <1>3
<1>16. new \in [Showing(q) -> DOMAIN Fed(q)]
  BY <1>9, <1>13, <1>14, <1>15 DEF Placed
<1> HIDE DEF new
<1>17. \A i \in Showing(q) : q.list[i].n = Fed(q)[new[i]]
  BY <1>6, <1>7, <1>9, <1>13, <1>14, <1>15 DEF Placed
<1>18. ASSUME NEW i \in Showing(q), NEW j \in Showing(q), i < j PROVE new[i] < new[j]
  <2>1. i \in 2..l /\ j \in 2..l /\ i - 1 < j - 1
    BY <1>2, <1>13, <1>18
  <2>2. old[i - 1] < old[j - 1]
    BY <1>14, <1>15, <2>1 DEF Placed
  <2>3. QED
    BY <1>15, <2>1, <2>2
<1>19. ASSUME q.listed # <<>> PROVE \E i \in Showing(q) : new[i] = 1
  <2>1. p.listed # <<>> /\ l >= 2 /\ 2 \in 2..l /\ 2 - 1 = 1 /\ 1 \in Showing(p)
    BY <1>2, <1>3, <1>7, <1>19
  <2>2. PICK i \in Showing(p) : old[i] = 1
    BY <1>14, <2>1 DEF Placed
  <2>3. old[1] \in Nat \ {0}
    <3>1. DOMAIN Fed(p) = 1..Len(Fed(p)) /\ Len(Fed(p)) \in Nat
      BY <1>1, FedIs, LenProperties
    <3>2. old[1] \in DOMAIN Fed(p)
      BY <1>14, <2>1 DEF Placed
    <3>3. QED
      BY <3>1, <3>2
  <2>4. i = 1
    <3>1. 1 < i => old[1] < old[i]
      BY <1>14, <2>1 DEF Placed
    <3>2. i \in 1..l
      BY <1>3
    <3>3. QED
      BY <1>2, <2>2, <2>3, <3>1, <3>2
  <2>5. new[2] = 1 /\ 2 \in Showing(q)
    BY <1>13, <1>15, <2>1, <2>2, <2>4
  <2>6. QED
    BY <2>5
<1>20. Placed(q, new)
  BY <1>16, <1>17, <1>18, <1>19 DEF Placed
<1>21. Len(q.list) = 1 + Len(q.listed)
  BY <1>1, <1>7, <1>11 DEF InOrder, l
<1>22. \A i \in DOMAIN q.list : q.list[i].hidden <=> i = 1 /\ ~q.anim
  BY <1>7, <1>11, <1>12
<1>23. InOrder(q)
  BY <1>20, <1>21, <1>22 DEF InOrder, Placed
<1>24. QED
  BY <1>1, <1>7, <1>8, <1>10, <1>23 DEF PageOK
(***************************************************************************)
(* The types, the list and the table                                       *)
(***************************************************************************)
\* A request that is served is for a block, so its broadcast has a number.
Serving == \A h \in Handlers : handler[h].pc # "free" => handler[h].n \in Numbers

ServerOK ==
    /\ stored \subseteq Numbers
    /\ waiting \in Handlers \cup {None}
    /\ handler \in [Handlers -> Requests]
    /\ top \in Numbers \cup {0}
    /\ count \in [requests : 0..MaxRequests, faults : 0..MaxFaults, loads : 0..MaxLoads]
    /\ \A h \in Handlers : handler[h].pc = "free" <=> handler[h] = Free
    /\ Serving

PagesOK == page \in [Pages -> PageState] /\ \A b \in Pages : PageOK(page[b])

\* It is inductive: each property needs the others, as a page whose list is
\* out of step would not take the next broadcast well.
ShownInv == ServerOK /\ PagesOK

LEMMA ServeServes ==
  ASSUME ServerOK, NEW h \in Handlers, NEW n \in Numbers, Serve(h, n),
         stored' = stored, top' = top, waiting' \in {waiting, h}
  PROVE  ServerOK'
<1> DEFINE r == [Free EXCEPT !.pc = "height", !.n = n]
<1>1. handler' = [handler EXCEPT ![h] = r]
  BY DEF Serve
<1>2. r \in Requests /\ r.pc = "height" /\ r.n = n /\ r # Free
  BY DEF Free, Requests
<1> HIDE DEF r
<1>3. /\ handler' \in [Handlers -> Requests]
      /\ \A g \in Handlers : handler'[g] = IF g = h THEN r ELSE handler[g]
  BY <1>1, <1>2 DEF ServerOK
<1>4. count' \in [requests : 0..MaxRequests, faults : 0..MaxFaults, loads : 0..MaxLoads]
  BY BoundAssumption DEF ServerOK, Serve
<1>5. QED
  BY <1>2, <1>3, <1>4 DEF ServerOK, Serving

LEMMA EndServes ==
  ASSUME ServerOK, NEW h \in Handlers, EndRequest(h), stored' = stored,
         top' \in Numbers \cup {0},
         count' \in [requests : 0..MaxRequests, faults : 0..MaxFaults, loads : 0..MaxLoads]
  PROVE  ServerOK'
<1>1. handler' = [handler EXCEPT ![h] = Free] /\ waiting' \in {waiting, None}
  BY DEF EndRequest
<1>2. /\ handler' \in [Handlers -> Requests]
      /\ \A g \in Handlers : handler'[g] = IF g = h THEN Free ELSE handler[g]
  BY <1>1, FreeIsRequest DEF ServerOK
<1>3. QED
  BY <1>1, <1>2, FreeIsRequest DEF ServerOK, Serving

\* A request that goes on is for the same block.
LEMMA ChangeServes ==
  ASSUME ServerOK, NEW h \in Handlers, NEW r \in Requests,
         handler[h].pc # "free", r.pc # "free", r.n = handler[h].n,
         handler' = [handler EXCEPT ![h] = r], stored' = stored, top' = top, waiting' = waiting,
         count' \in [requests : 0..MaxRequests, faults : 0..MaxFaults, loads : 0..MaxLoads]
  PROVE  ServerOK'
<1>1. /\ handler' \in [Handlers -> Requests]
      /\ \A g \in Handlers : handler'[g] = IF g = h THEN r ELSE handler[g]
  BY DEF ServerOK
<1>2. r # Free
  BY FreeIsRequest
<1>3. QED
  BY <1>1, <1>2 DEF ServerOK, Serving

LEMMA FaultCounts ==
  ASSUME ServerOK, Fault
  PROVE  count' \in [requests : 0..MaxRequests, faults : 0..MaxFaults, loads : 0..MaxLoads]
  BY BoundAssumption DEF ServerOK, Fault

LEMMA HandlerStepServes ==
  ASSUME ServerOK, NEW h \in Handlers, HandlerStep(h) \/ HandlerFault(h)
  PROVE  ServerOK'
<1> DEFINE old == handler[h]
<1>1. old \in Requests /\ top \in Numbers \cup {0}
      /\ (old.pc = "free" => old = Free)
      /\ (old.pc # "free" => old.n \in Numbers)
      /\ count \in [requests : 0..MaxRequests, faults : 0..MaxFaults, loads : 0..MaxLoads]
  BY DEF ServerOK, Serving
<1>2. \A x : x \in old.pending => old.pc # "free"
  BY <1>1 DEF Free
<1>3. CASE ReadHeight(h)
  <2>1. CASE NewEnough(old.n)
    <3> DEFINE new == [old EXCEPT !.pc = "fetch", !.pending = {"block", "txns"}, !.floor = top]
    <3>1. /\ handler' = [handler EXCEPT ![h] = new] /\ old.pc = "height"
          /\ stored' = stored /\ top' = top /\ waiting' = waiting /\ count' = count
      BY <1>3, <2>1 DEF ReadHeight
    <3>2. new \in Requests /\ new.n = old.n /\ new.pc = "fetch"
      BY <1>1 DEF Requests
    <3> HIDE DEF new
    <3>3. QED
      BY <1>1, <3>1, <3>2, ChangeServes
  <2>2. CASE ~NewEnough(old.n)
    BY <1>1, <1>3, <2>2, EndServes DEF ReadHeight
  <2>3. QED
    BY <2>1, <2>2
<1>4. CASE FetchedBlock(h)
  <2> DEFINE there == old.n \in stored
             left  == old.pending \ {"block"}
             new   == [old EXCEPT !.pending = left, !.found = there]
  <2>1. /\ handler' = [handler EXCEPT ![h] = new] /\ "block" \in old.pending
        /\ stored' = stored /\ top' = top /\ waiting' = waiting /\ count' = count
    BY <1>4 DEF FetchedBlock
  <2>2. there \in BOOLEAN /\ left \in SUBSET {"block", "txns"}
    BY <1>1 DEF Requests
  <2> HIDE DEF there, left, old
  <2>3. new \in Requests /\ new.n = old.n /\ new.pc = old.pc
    BY <1>1, <2>2 DEF Requests
  <2> HIDE DEF new
  <2>4. QED
    BY <1>1, <1>2, <2>1, <2>3, ChangeServes DEF old
<1>5. CASE FetchedTxns(h)
  <2> DEFINE there == old.n \in stored
             left  == old.pending \ {"txns"}
             new   == [old EXCEPT !.pending = left, !.rows = there]
  <2>1. /\ handler' = [handler EXCEPT ![h] = new] /\ "txns" \in old.pending
        /\ stored' = stored /\ top' = top /\ waiting' = waiting /\ count' = count
    BY <1>5 DEF FetchedTxns
  <2>2. there \in BOOLEAN /\ left \in SUBSET {"block", "txns"}
    BY <1>1 DEF Requests
  <2> HIDE DEF there, left, old
  <2>3. new \in Requests /\ new.n = old.n /\ new.pc = old.pc
    BY <1>1, <2>2 DEF Requests
  <2> HIDE DEF new
  <2>4. QED
    BY <1>1, <1>2, <2>1, <2>3, ChangeServes DEF old
<1>6. CASE Broadcast(h)
  <2>1. old.pc = "fetch" /\ EndRequest(h) /\ stored' = stored /\ count' = count
        /\ top' = IF old.found THEN Max({top, old.n}) ELSE top
    BY <1>6 DEF Broadcast
  <2>2. top \in Int /\ old.n \in Int /\ old.n \in Numbers
    BY <1>1, <2>1, BoundAssumption DEF Numbers
  <2>3. Max({top, old.n}) \in Numbers \cup {0}
    BY <1>1, <2>2, MaxOfTwo
  <2>4. QED
    BY <1>1, <2>1, <2>3, EndServes
<1>7. CASE BlockRefused(h)
  <2> DEFINE left == old.pending \ {"block"}
             new  == [old EXCEPT !.pending = left]
  <2>1. /\ handler' = [handler EXCEPT ![h] = new] /\ "block" \in old.pending /\ Fault
        /\ stored' = stored /\ top' = top /\ waiting' = waiting
    BY <1>7 DEF BlockRefused
  <2>2. left \in SUBSET {"block", "txns"}
    BY <1>1 DEF Requests
  <2> HIDE DEF left, old
  <2>3. new \in Requests /\ new.n = old.n /\ new.pc = old.pc
    BY <1>1, <2>2 DEF Requests
  <2> HIDE DEF new
  <2>4. QED
    BY <1>1, <1>2, <2>1, <2>3, ChangeServes, FaultCounts DEF old
<1>8. CASE RequestRefused(h)
  BY <1>1, <1>8, EndServes, FaultCounts DEF RequestRefused
<1>9. QED
  BY <1>3, <1>4, <1>5, <1>6, <1>7, <1>8 DEF HandlerStep, HandlerFault

\* A page alone changes.
LEMMA OnePage ==
  ASSUME PagesOK, NEW b \in Pages, NEW q, PageOK(q), page' = [page EXCEPT ![b] = q]
  PROVE  PagesOK'
<1>1. q \in PageState
  BY DEF PageOK
<1>2. /\ page' \in [Pages -> PageState]
      /\ \A c \in Pages : page'[c] = IF c = b THEN q ELSE page[c]
  BY <1>1 DEF PagesOK
<1>3. QED
  BY <1>2 DEF PagesOK

LEMMA BrowserStepShows ==
  ASSUME ShownInv, NEW b \in Pages, BrowserStep(b)
  PROVE  ShownInv'
<1> DEFINE p == page[b]
<1>1. PagesOK /\ ServerOK /\ PageOK(p) /\ p \in PageState
  BY DEF ShownInv, PagesOK
<1>2. CASE Open(b)
  <2> DEFINE q == [Away EXCEPT !.pc = "loaded", !.list = <<Placeholder>>,
                               !.pending = {"blocks", "txns"}]
  <2>1. PageOK(q)
    BY OpenedOK
  <2>2. page' = [page EXCEPT ![b] = q]
    BY <1>2 DEF Open
  <2> HIDE DEF q, p
  <2>3. PagesOK'
    BY <1>1, <2>1, <2>2, OnePage
  <2>4. count' \in [requests : 0..MaxRequests, faults : 0..MaxFaults, loads : 0..MaxLoads]
    BY <1>1, <1>2, BoundAssumption DEF Open, ServerOK
  <2>5. ServerOK'
    BY <1>1, <1>2, <2>4 DEF Open, ServerOK, Serving
  <2>6. QED
    BY <2>3, <2>5 DEF ShownInv
<1>3. CASE ListRead(b) \/ TableRead(b) \/ Connect(b) \/ Drop(b) \/ Leave(b) \/ Receive(b) \/ TransitionEnd(b)
  <2>1. PICK q : page' = [page EXCEPT ![b] = q] /\ PageOK(q)
    <3>1. CASE Connect(b)
      <4> DEFINE q == [p EXCEPT !.pc = "connected"]
      <4>1. page' = [page EXCEPT ![b] = q] /\ p.pc # "away" /\ p.pending = {}
        BY <1>1, <3>1 DEF Connect, PagesOK
      <4>2. q \in PageState /\ q.pc = "connected" /\ q.list = p.list /\ q.anim = p.anim
            /\ q.table = p.table /\ q.listed = p.listed /\ q.tabled = p.tabled
            /\ q.got = p.got /\ q.pending = {}
        BY <1>1, <4>1 DEF PageState
      <4> HIDE DEF q, p
      <4>3. PageOK(q)
        BY <1>1, <4>1, <4>2, ShownOK
      <4>4. QED
        BY <4>1, <4>3
    <3>2. CASE Drop(b)
      <4> DEFINE q == [p EXCEPT !.pc = "loaded", !.inbox = <<>>]
      <4>1. page' = [page EXCEPT ![b] = q] /\ p.pc # "away" /\ p.pending = {}
        BY <1>1, <3>2 DEF Drop, PagesOK, PageOK, Unsent
      <4>2. q \in PageState /\ q.pc = "loaded" /\ q.list = p.list /\ q.anim = p.anim
            /\ q.table = p.table /\ q.listed = p.listed /\ q.tabled = p.tabled
            /\ q.got = p.got /\ q.pending = {}
        BY <1>1, <4>1, EmptySeq DEF PageState
      <4> HIDE DEF q, p
      <4>3. PageOK(q)
        BY <1>1, <4>1, <4>2, ShownOK
      <4>4. QED
        BY <4>1, <4>3
    <3>3. CASE Leave(b)
      BY <3>3, AwayOK DEF Leave
    <3>4. CASE Receive(b)
      <4> DEFINE q == Received(p, Head(p.inbox))
      <4>1. page' = [page EXCEPT ![b] = q] /\ p.inbox # <<>>
        BY <1>1, <3>4 DEF Receive, PagesOK
      <4> HIDE DEF p
      <4>2. PageOK(q)
        BY <1>1, <4>1, ReceivedOK
      <4> HIDE DEF q
      <4>3. QED
        BY <4>1, <4>2
    <3>5. CASE TransitionEnd(b)
      <4> DEFINE q == [p EXCEPT !.anim = FALSE, !.list = Animated(p)]
      <4>1. page' = [page EXCEPT ![b] = q] /\ p.anim
        BY <1>1, <3>5 DEF TransitionEnd, PagesOK
      <4> HIDE DEF p
      <4>2. PageOK(q)
        BY <1>1, <4>1, AnimatedOK
      <4> HIDE DEF q
      <4>3. QED
        BY <4>1, <4>2
    <3>6. CASE ListRead(b)
      <4> DEFINE ns == First(Descending(stored), ListSize)
                 q  == [p EXCEPT !.pending = p.pending \ {"blocks"}, !.listed = ns,
                                 !.list = <<Placeholder>> \o
                                          [i \in DOMAIN ns |-> [n |-> ns[i], hidden |-> FALSE]]]
      <4>1. page' = [page EXCEPT ![b] = q] /\ p.pending # {}
        BY <1>1, <3>6 DEF ListRead, PagesOK
      <4>2. ns \in Seq(Numbers)
        BY <1>1, DescendingIs, FirstProperties, BoundAssumption DEF ServerOK
      <4> HIDE DEF p, ns
      <4>3. PageOK(q)
        BY <1>1, <4>1, <4>2, ListReadOK
      <4> HIDE DEF q
      <4>4. QED
        BY <4>1, <4>3
    <3>7. CASE TableRead(b)
      <4> DEFINE rows == First(TableOf(Descending(stored)), TableSize)
                 q    == [p EXCEPT !.pending = p.pending \ {"txns"}, !.tabled = rows, !.table = rows]
      <4>1. page' = [page EXCEPT ![b] = q] /\ p.pending # {}
        BY <1>1, <3>7 DEF TableRead, PagesOK
      <4>2. rows \in Seq(Rows)
        <5>1. TableOf(Descending(stored)) \in Seq(Rows)
          BY <1>1, DescendingIs, TableOfIs DEF ServerOK
        <5>2. QED
          BY <5>1, FirstProperties, BoundAssumption
      <4> HIDE DEF p, rows
      <4>3. PageOK(q)
        BY <1>1, <4>1, <4>2, TableReadOK
      <4> HIDE DEF q
      <4>4. QED
        BY <4>1, <4>3
    <3>8. QED
      BY <1>3, <3>1, <3>2, <3>3, <3>4, <3>5, <3>6, <3>7
  <2>2. PagesOK'
    <3> HIDE DEF p
    <3>1. QED
      BY <1>1, <2>1, OnePage
  <2>3. UNCHANGED <<stored, waiting, handler, top, count>>
    BY <1>3 DEF ListRead, TableRead, Connect, Drop, Leave, Receive, TransitionEnd
  <2>4. ServerOK'
    BY <1>1, <2>3 DEF ServerOK, Serving
  <2>5. QED
    BY <2>2, <2>4 DEF ShownInv
<1>4. QED
  BY <1>2, <1>3 DEF BrowserStep

\* A broadcast waits at the pages that are connected.
LEMMA BroadcastShows ==
  ASSUME ShownInv, NEW h \in Handlers, Broadcast(h)
  PROVE  PagesOK'
<1> DEFINE m == [n |-> handler[h].n, found |-> handler[h].found, rows |-> handler[h].rows]
           Got(p) == IF p.pc = "connected" THEN [p EXCEPT !.inbox = Append(@, m)] ELSE p
<1>1. page' = [b \in Pages |-> Got(page[b])]
  BY DEF Broadcast
<1>2. m \in Broadcasts
  <2>1. handler[h] \in Requests /\ handler[h].n \in Numbers
    BY DEF ShownInv, ServerOK, Serving, Broadcast
  <2>2. QED
    BY <2>1 DEF Requests, Broadcasts
<1> HIDE DEF m
<1>3. ASSUME NEW b \in Pages PROVE PageOK(Got(page[b]))
  <2> DEFINE p == page[b]
             q == [p EXCEPT !.inbox = Append(@, m)]
  <2>1. PageOK(p) /\ p \in PageState
    BY DEF ShownInv, PagesOK
  <2>2. CASE p.pc = "connected"
    <3>1. Append(p.inbox, m) \in Seq(Broadcasts)
      BY <1>2, <2>1, AppendProperties DEF PageState
    <3>2. q \in PageState /\ q.pc = p.pc /\ q.list = p.list /\ q.anim = p.anim
          /\ q.table = p.table /\ q.listed = p.listed /\ q.tabled = p.tabled
          /\ q.got = p.got /\ q.pending = {}
      BY <2>1, <2>2, <3>1 DEF PageState, PageOK, Unsent
    <3>3. Got(p) = q
      BY <2>2
    <3> HIDE DEF p, q, Got
    <3>4. PageOK(q)
      BY <2>1, <2>2, <3>2, ShownOK
    <3>5. QED
      BY <3>3, <3>4 DEF p
  <2>3. CASE p.pc # "connected"
    BY <2>1, <2>3
  <2>4. QED
    BY <2>2, <2>3
<1> HIDE DEF Got
<1>4. \A b \in Pages : page'[b] = Got(page[b]) /\ Got(page[b]) \in PageState
  BY <1>1, <1>3 DEF PageOK
<1>5. page' \in [Pages -> PageState]
  BY <1>1, <1>4
<1>6. QED
  BY <1>3, <1>4, <1>5 DEF PagesOK

LEMMA ShownNext == ShownInv /\ [Next]_vars => ShownInv'
<1> SUFFICES ASSUME ShownInv, [Next]_vars PROVE ShownInv'
  OBVIOUS
<1>1. ServerOK /\ PagesOK
  BY DEF ShownInv
<1>2. ASSUME page' = page PROVE PagesOK'
  BY <1>1, <1>2 DEF PagesOK
<1>3. ASSUME NEW n \in Numbers, Store(n) PROVE ShownInv'
  <2>1. ServerOK'
    BY <1>1, <1>3 DEF Store, ServerOK, Serving
  <2>2. QED
    BY <1>2, <1>3, <2>1 DEF Store, ShownInv
<1>4. ASSUME NEW h \in Handlers, NEW n \in Numbers, Post(h, n) \/ Message(h, n) PROVE ShownInv'
  BY <1>1, <1>2, <1>4, ServeServes DEF Post, Message, ShownInv
<1>5. CASE Timeout
  <2>1. ServerOK'
    BY <1>1, <1>5 DEF Timeout, ServerOK, Serving
  <2>2. QED
    BY <1>2, <1>5, <2>1 DEF Timeout, ShownInv
<1>6. ASSUME NEW h \in Handlers, HandlerStep(h) \/ HandlerFault(h) PROVE ShownInv'
  <2>1. ServerOK'
    BY <1>1, <1>6, HandlerStepServes
  <2>2. PagesOK'
    <3>1. CASE Broadcast(h)
      BY <3>1, BroadcastShows
    <3>2. CASE ~Broadcast(h)
      BY <1>2, <1>6, <3>2 DEF HandlerStep, HandlerFault, ReadHeight, FetchedBlock, FetchedTxns,
                              BlockRefused, RequestRefused
    <3>3. QED
      BY <3>1, <3>2
  <2>3. QED
    BY <2>1, <2>2 DEF ShownInv
<1>7. ASSUME NEW b \in Pages, BrowserStep(b) PROVE ShownInv'
  BY <1>7, BrowserStepShows
<1>8. CASE UNCHANGED vars
  <2>1. ServerOK'
    BY <1>1, <1>8 DEF vars, ServerOK, Serving
  <2>2. QED
    BY <1>2, <1>8, <2>1 DEF vars, ShownInv
<1>9. QED
  BY <1>3, <1>4, <1>5, <1>6, <1>7, <1>8 DEF Next

LEMMA ShownInit == Init => ShownInv
<1> SUFFICES ASSUME Init PROVE ShownInv
  OBVIOUS
<1>1. ServerOK
  BY FreeIsRequest, BoundAssumption DEF Init, ServerOK, Serving
<1>2. PagesOK
  BY AwayOK DEF Init, PagesOK, PageOK
<1>3. QED
  BY <1>1, <1>2 DEF ShownInv

LEMMA ShownInvImplies == ShownInv => TypeOK /\ ListInOrder /\ TableLatest
<1> SUFFICES ASSUME ShownInv PROVE TypeOK /\ ListInOrder /\ TableLatest
  OBVIOUS
<1>1. \A b \in Pages : page[b].pc = "away" <=> page[b] = Away
  BY DEF ShownInv, PagesOK, PageOK, Away
<1>2. TypeOK
  BY <1>1 DEF ShownInv, ServerOK, PagesOK, TypeOK
<1>3. ListInOrder
  BY DEF ShownInv, PagesOK, PageOK, ListInOrder
<1>4. TableLatest
  BY DEF ShownInv, PagesOK, PageOK, ShowsNewest, TableLatest
<1>5. QED
  BY <1>2, <1>3, <1>4

\* Requests, broadcasts and pages have their types in every reachable state.
THEOREM TypeCorrect == Spec => []TypeOK
<1>1. QED
  BY ShownInit, ShownNext, ShownInvImplies, PTL DEF Spec

\* The list of a page keeps its length and shows blocks the page was fed, each
\* in its place and the last one on top, however broadcasts, animations and
\* losses of the connection interleave, for lists and bursts of any length.
THEOREM ListInOrderInvariant == Spec => []ListInOrder
<1>1. QED
  BY ShownInit, ShownNext, ShownInvImplies, PTL DEF Spec

\* The table of a page shows the newest rows of what the page was sent and
\* rendered with, whatever the transactions of a block and the size of the table
\* and whichever of its two requests was answered first.
THEOREM TableLatestInvariant == Spec => []TableLatest
<1>1. QED
  BY ShownInit, ShownNext, ShownInvImplies, PTL DEF Spec
=============================================================================
