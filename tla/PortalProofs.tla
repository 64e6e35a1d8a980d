---------------------------- MODULE PortalProofs ----------------------------
(* Theorems about Portal, for any blocks, transactions, assets, addresses,  *)
(* filters and sizes of pages.                                              *)
EXTENDS Portal, DataTheorems, FiniteSetTheorems, TLAPS

(***************************************************************************)
(* The chart                                                               *)
(***************************************************************************)
LEMMA TablesFinite ==
  /\ IsFiniteSet(Transactions) /\ IsFiniteSet(Traces) /\ IsFiniteSet(Numbers)
  /\ \A R \in SUBSET Row : IsFiniteSet(R) /\ Cardinality(R) \in Nat
<1>1. IsFiniteSet(Row) /\ Transactions \subseteq Row /\ Traces \subseteq Row
  BY ApiAssumption DEF Row
<1>2. \A R \in SUBSET Row : IsFiniteSet(R)
  BY <1>1, FS_Subset
<1>3. \A R \in SUBSET Row : Cardinality(R) \in Nat
  BY <1>2, FS_CardinalityType
<1>4. IsFiniteSet(1..Now) /\ Numbers \in SUBSET (1..Now)
  BY ApiAssumption, FS_Interval
<1>5. IsFiniteSet(Numbers)
  BY <1>4, FS_Subset
<1>6. QED
  BY <1>1, <1>2, <1>3, <1>5

\* The transactions of a set of blocks, as a sum over the blocks.
TxnsOf(S)  == {r \in Transactions : r.block \in S}
CountOf(S) == FoldSet(LAMBDA n, sum : sum + TransactionCount(n), 0, S)

LEMMA TxnsOfIs ==
  \A S : /\ TxnsOf(S) \in SUBSET Row /\ Cardinality(TxnsOf(S)) \in Nat
         /\ \A n \in S : Cardinality(TxnsOf(S)) = Cardinality(TxnsOf(S \ {n})) + TransactionCount(n)
<1> SUFFICES ASSUME NEW S
             PROVE  /\ TxnsOf(S) \in SUBSET Row /\ Cardinality(TxnsOf(S)) \in Nat
                    /\ \A n \in S : Cardinality(TxnsOf(S))
                                      = Cardinality(TxnsOf(S \ {n})) + TransactionCount(n)
  OBVIOUS
<1>1. TxnsOf(S) \in SUBSET Row /\ Cardinality(TxnsOf(S)) \in Nat
  BY TablesFinite DEF TxnsOf, Row
<1>2. ASSUME NEW n \in S
      PROVE  Cardinality(TxnsOf(S)) = Cardinality(TxnsOf(S \ {n})) + TransactionCount(n)
  <2> DEFINE A == TxnsOf(S \ {n})
             B == {r \in Transactions : r.block = n}
  <2>1. TxnsOf(S) = A \cup B /\ A \cap B = {} /\ A \in SUBSET Row /\ B \in SUBSET Row
    BY <1>2 DEF TxnsOf, Row
  <2>2. TransactionCount(n) = Cardinality(B)
    BY DEF TransactionCount
  <2> HIDE DEF A, B
  <2>3. IsFiniteSet(A) /\ IsFiniteSet(B) /\ Cardinality(A) \in Nat /\ Cardinality(B) \in Nat
    BY <2>1, TablesFinite
  <2>4. Cardinality(A \cup B) = Cardinality(A) + Cardinality(B) - Cardinality(A \cap B)
    BY <2>3, FS_Union
  <2>5. Cardinality(A \cap B) = 0
    BY <2>1, FS_EmptySet
  <2>6. QED
    BY <2>1, <2>2, <2>3, <2>4, <2>5 DEF A
<1>3. QED
  BY <1>1, <1>2

\* The sum is the number of them.
LEMMA CountOfIs ==
  ASSUME NEW S, IsFiniteSet(S)
  PROVE  CountOf(S) = Cardinality(TxnsOf(S))
<1> DEFINE Pick(R) == CHOOSE x \in R : TRUE
           Is(h)   == h = [R \in SUBSET S |-> IF R = {} THEN 0
                                              ELSE h[R \ {Pick(R)}] + TransactionCount(Pick(R))]
           sum     == CHOOSE h : Is(h)
           g       == [R \in SUBSET S |-> Cardinality(TxnsOf(R))]
<1>1. CountOf(S) = sum[S]
  BY DEF CountOf, FoldSet, MapThenFoldSet
<1>2. Cardinality(TxnsOf({})) = 0
  <2>1. TxnsOf({}) = {}
    BY DEF TxnsOf
  <2>2. QED
    BY <2>1, FS_EmptySet
<1>3. \A R \in SUBSET S : R # {} => Pick(R) \in R
  OBVIOUS
<1> HIDE DEF Pick
<1>4. \A R \in SUBSET S : Cardinality(TxnsOf(R)) =
        IF R = {} THEN 0
        ELSE Cardinality(TxnsOf(R \ {Pick(R)})) + TransactionCount(Pick(R))
  BY <1>2, <1>3, TxnsOfIs
<1>5. Is(g)
  BY <1>4
<1>6. Is(sum)
  <2> HIDE DEF Is, g
  <2>1. QED
    BY <1>5
<1> HIDE DEF sum, g
<1> DEFINE T == {k \in Nat : \A R \in SUBSET S : Cardinality(R) = k =>
                               sum[R] = Cardinality(TxnsOf(R))}
<1>7. \A R \in SUBSET S : IsFiniteSet(R) /\ Cardinality(R) \in Nat
  BY FS_Subset, FS_CardinalityType
<1>8. \A R \in SUBSET S : sum[R] = IF R = {} THEN 0
                                   ELSE sum[R \ {Pick(R)}] + TransactionCount(Pick(R))
  BY <1>6
<1> HIDE DEF Is
<1>9. 0 \in T
  <2>1. \A R \in SUBSET S : Cardinality(R) = 0 => R = {}
    BY <1>7, FS_EmptySet
  <2>2. QED
    BY <1>2, <1>8, <2>1
<1>10. ASSUME NEW k \in Nat, k \in T PROVE k + 1 \in T
  <2> SUFFICES ASSUME NEW R \in SUBSET S, Cardinality(R) = k + 1
               PROVE  sum[R] = Cardinality(TxnsOf(R))
    OBVIOUS
  <2> DEFINE Q == R \ {Pick(R)}
  <2>1. R # {}
    BY FS_EmptySet
  <2>2. Pick(R) \in R /\ Q \in SUBSET S
    BY <1>3, <2>1
  <2>3. Cardinality(Q) = k
    BY <1>7, <2>2, FS_RemoveElement
  <2>4. sum[Q] = Cardinality(TxnsOf(Q))
    BY <1>10, <2>2, <2>3
  <2> HIDE DEF T
  <2>5. QED
    BY <1>4, <1>8, <2>1, <2>4
<1>11. \A k \in Nat : k \in T
  <2> HIDE DEF T
  <2>1. QED
    BY <1>9, <1>10, NatSetInduction
<1>12. QED
  BY <1>1, <1>7, <1>11

\* The chart's bins.
Bin(p, n)     == Trunc(p.split, n) + Trunc(p.interval, n % p.split)
Counted(S, p) == {n \in S : n >= Now - p.range /\ TransactionCount(n) > 0}
Series(p) ==
    LET last == Trunc(p.split, Now)
    IN  {t \in last - p.range..last : (last - t) % p.interval = 0}

Bins(S, p)     == {Bin(p, n) : n \in Counted(S, p)} \cup Series(p)
InBin(S, p, t) == {n \in Counted(S, p) : Bin(p, n) = t}

LEMMA StatsAre ==
  \A S, p : /\ DOMAIN StatsTransactions(S, p) = Bins(S, p)
            /\ \A t \in Bins(S, p) : StatsTransactions(S, p)[t] = CountOf(InBin(S, p, t))
<1> SUFFICES ASSUME NEW S, NEW p
             PROVE  /\ DOMAIN StatsTransactions(S, p) = Bins(S, p)
                    /\ \A t \in Bins(S, p) : StatsTransactions(S, p)[t] = CountOf(InBin(S, p, t))
  OBVIOUS
<1>1. StatsTransactions(S, p) = [t \in Bins(S, p) |-> CountOf(InBin(S, p, t))]
  BY DEF StatsTransactions, Bin, Counted, Series, CountOf, Bins, InBin
<1>2. QED
  BY <1>1

\* With more blocks every bin counts as many transactions or more.
LEMMA StatsGrow ==
  ASSUME NEW S, NEW T \in SUBSET Numbers, S \subseteq T, NEW p
  PROVE  \A t \in DOMAIN StatsTransactions(S, p) :
            /\ t \in DOMAIN StatsTransactions(T, p)
            /\ StatsTransactions(T, p)[t] >= StatsTransactions(S, p)[t]
<1> SUFFICES ASSUME NEW t \in DOMAIN StatsTransactions(S, p)
             PROVE  /\ t \in DOMAIN StatsTransactions(T, p)
                    /\ StatsTransactions(T, p)[t] >= StatsTransactions(S, p)[t]
  OBVIOUS
<1>1. Counted(S, p) \subseteq Counted(T, p) /\ Counted(T, p) \subseteq Numbers
  BY DEF Counted
<1>2. t \in Bins(S, p) /\ t \in Bins(T, p) /\ t \in DOMAIN StatsTransactions(T, p)
  <2>1. t \in Bins(S, p)
    BY StatsAre
  <2>2. Bins(S, p) \subseteq Bins(T, p)
    BY <1>1 DEF Bins
  <2>3. QED
    BY <2>1, <2>2, StatsAre
<1> DEFINE A == InBin(S, p, t)
           B == InBin(T, p, t)
<1>3. A \subseteq B /\ B \in SUBSET Numbers /\ A \in SUBSET Numbers
  BY <1>1 DEF InBin
<1>4. StatsTransactions(S, p)[t] = CountOf(A) /\ StatsTransactions(T, p)[t] = CountOf(B)
  BY <1>2, StatsAre
<1> HIDE DEF A, B
<1>5. IsFiniteSet(A) /\ IsFiniteSet(B)
  BY <1>3, TablesFinite, FS_Subset
<1>6. CountOf(A) = Cardinality(TxnsOf(A)) /\ CountOf(B) = Cardinality(TxnsOf(B))
  BY <1>5, CountOfIs
<1>7. TxnsOf(A) \in SUBSET TxnsOf(B) /\ IsFiniteSet(TxnsOf(B))
  BY <1>3, TxnsOfIs, TablesFinite DEF TxnsOf
<1>8. Cardinality(TxnsOf(A)) <= Cardinality(TxnsOf(B))
  BY <1>7, FS_Subset
<1>9. Cardinality(TxnsOf(A)) \in Nat /\ Cardinality(TxnsOf(B)) \in Nat
  BY TxnsOfIs
<1>10. QED
  BY <1>2, <1>4, <1>6, <1>8, <1>9

(***************************************************************************)
(* What the cache knows of                                                 *)
(***************************************************************************)
\* The types the cache needs.
ChartTypes ==
    /\ stored \subseteq Numbers
    /\ \A f \in Flights : flight[f] # NoFlight =>
          /\ flight[f].began \subseteq stored
          /\ flight[f].of # None => flight[f].began \subseteq flight[f].of /\ flight[f].of \subseteq stored
    /\ DOMAIN flight = Flights
    /\ \A f \in Flights : DOMAIN flight[f] = {"began", "of", "waited"}
    /\ cache # None => cache \subseteq stored

\* What the cache must know of, every request that is under way knew of when
\* it set out.
FloorKnown ==
    /\ cache # None => floor \subseteq cache
    /\ \A f \in Flights : flight[f] # NoFlight => floor \subseteq flight[f].began
    /\ floor \subseteq stored

ChartInv == ChartTypes /\ FloorKnown

LEMMA DepartKnows ==
  ASSUME ChartInv, NEW w, Depart(w), stored' = stored, cache' = cache, floor' = floor
  PROVE  ChartInv'
<1> DEFINE g == CHOOSE f \in Flights : flight[f] = NoFlight
           new == [began |-> stored, of |-> None, waited |-> w]
<1>1. flight' = [flight EXCEPT ![g] = new] /\ g \in Flights
  BY DEF Depart
<1>2. new.began = stored /\ new.of = None /\ DOMAIN new = {"began", "of", "waited"}
  OBVIOUS
<1> HIDE DEF g, new
<1>3. DOMAIN flight' = Flights /\ \A f \in Flights : flight'[f] = IF f = g THEN new ELSE flight[f]
  BY <1>1 DEF ChartInv, ChartTypes
<1>4. ChartTypes'
  BY <1>2, <1>3 DEF ChartInv, ChartTypes
<1>5. FloorKnown'
  BY <1>2, <1>3 DEF ChartInv, FloorKnown
<1>6. QED
  BY <1>4, <1>5 DEF ChartInv

\* The tab may stop waiting.
LEMMA UnawaitedKnows ==
  ASSUME ChartInv, flight' = Unawaited, stored' = stored, cache' = cache, floor' = floor
  PROVE  ChartInv'
<1>1. DOMAIN flight' = Flights
  BY DEF Unawaited
<1>2. ASSUME NEW f \in Flights
      PROVE  /\ flight'[f].began = flight[f].began /\ flight'[f].of = flight[f].of
             /\ DOMAIN flight'[f] = {"began", "of", "waited"}
             /\ flight'[f] # NoFlight => flight[f] # NoFlight
  <2>1. flight'[f] = [flight[f] EXCEPT !.waited = FALSE] /\ DOMAIN flight[f] = {"began", "of", "waited"}
    BY DEF Unawaited, ChartInv, ChartTypes
  <2>2. [NoFlight EXCEPT !.waited = FALSE] = NoFlight
    <3>1. ASSUME NEW b PROVE LET m == [began |-> None, of |-> None, waited |-> b]
                             IN  [m EXCEPT !.waited = b] = m
      OBVIOUS
    <3>2. QED
      BY <3>1 DEF NoFlight
  <2>3. QED
    BY <2>1, <2>2
<1>3. ChartTypes'
  BY <1>1, <1>2 DEF ChartInv, ChartTypes
<1>4. FloorKnown'
  BY <1>2 DEF ChartInv, FloorKnown
<1>5. QED
  BY <1>3, <1>4 DEF ChartInv

LEMMA ChartSame ==
  ASSUME ChartInv, UNCHANGED <<stored, cache, flight, floor>>
  PROVE  ChartInv'
  BY DEF ChartInv, ChartTypes, FloorKnown

LEMMA ChartNext == ChartInv /\ [Next]_vars => ChartInv'
<1> SUFFICES ASSUME ChartInv, [Next]_vars PROVE ChartInv'
  OBVIOUS
<1>1. ASSUME NEW n \in Numbers, Store(n) PROVE ChartInv'
  BY <1>1 DEF Store, chart, ChartInv, ChartTypes, FloorKnown
<1>2. ASSUME NEW v \in Views, NEW a \in Args(v), NEW q \in Filters[v], NEW k \in UserPages,
             Visit(v, a, q, k)
      PROVE  ChartInv'
  BY <1>2, DepartKnows, ChartSame DEF Visit
<1>3. CASE Click \/ Submit \/ Reset \/ Render \/ Redirect
  BY <1>3, ChartSame DEF Click, Submit, Reset, FormLeadsTo, Render, Redirect, chart
<1>4. ASSUME NEW c \in Calls, Answer(c) \/ Refuse(c) PROVE ChartInv'
  BY <1>4, ChartSame, UnawaitedKnows DEF Answer, Refuse
<1>5. CASE Refresh
  BY <1>5, DepartKnows DEF Refresh
<1>6. ASSUME NEW g \in Flights, Compute(g) PROVE ChartInv'
  <2>1. flight' = [flight EXCEPT ![g].of = stored] /\ flight[g] # NoFlight
        /\ UNCHANGED <<stored, cache, floor>>
    BY <1>6 DEF Compute
  <2>2. DOMAIN flight' = Flights
        /\ \A f \in Flights : /\ flight'[f].began = flight[f].began
                              /\ flight'[f].of = IF f = g THEN stored ELSE flight[f].of
                              /\ DOMAIN flight'[f] = {"began", "of", "waited"}
                              /\ f # g => flight'[f] = flight[f]
    BY <2>1 DEF ChartInv, ChartTypes
  <2>3. ChartTypes'
    BY <2>1, <2>2 DEF ChartInv, ChartTypes
  <2>4. FloorKnown'
    BY <2>1, <2>2 DEF ChartInv, FloorKnown
  <2>5. QED
    BY <2>3, <2>4 DEF ChartInv
<1>7. ASSUME NEW g \in Flights, FlightFails(g) PROVE ChartInv'
  <2>1. flight' = [flight EXCEPT ![g] = NoFlight] /\ UNCHANGED <<stored, cache, floor>>
    BY <1>7 DEF FlightFails
  <2>2. DOMAIN NoFlight = {"began", "of", "waited"}
    BY DEF NoFlight
  <2>3. DOMAIN flight' = Flights
        /\ \A f \in Flights : flight'[f] = IF f = g THEN NoFlight ELSE flight[f]
    BY <2>1 DEF ChartInv, ChartTypes
  <2>4. ChartTypes'
    BY <2>1, <2>2, <2>3 DEF ChartInv, ChartTypes
  <2>5. FloorKnown'
    BY <2>1, <2>3 DEF ChartInv, FloorKnown
  <2>6. QED
    BY <2>4, <2>5 DEF ChartInv
<1>8. ASSUME NEW g \in Flights, Cache(g) PROVE ChartInv'
  <2> DEFINE new == {n \in flight[g].began :
                       \A f \in Flights : flight[f] # NoFlight => n \in flight[f].began}
  <2>1. /\ flight[g].of # None /\ cache' = flight[g].of
        /\ flight' = [flight EXCEPT ![g] = NoFlight] /\ floor' = floor \cup new /\ stored' = stored
    BY <1>8 DEF Cache
  <2>2. DOMAIN NoFlight = {"began", "of", "waited"} /\ flight[g] # NoFlight
    BY <2>1 DEF NoFlight
  <2>3. DOMAIN flight' = Flights
        /\ \A f \in Flights : flight'[f] = IF f = g THEN NoFlight ELSE flight[f]
    BY <2>1 DEF ChartInv, ChartTypes
  <2>4. /\ flight[g].began \subseteq flight[g].of /\ flight[g].of \subseteq stored
        /\ floor \subseteq flight[g].began
    BY <2>1, <2>2 DEF ChartInv, ChartTypes, FloorKnown
  <2>5. /\ new \subseteq flight[g].began
        /\ \A f \in Flights : flight[f] # NoFlight => new \subseteq flight[f].began
    OBVIOUS
  <2> HIDE DEF new
  <2>6. ChartTypes'
    BY <2>1, <2>2, <2>3, <2>4 DEF ChartInv, ChartTypes
  <2>7. FloorKnown'
    BY <2>1, <2>3, <2>4, <2>5 DEF ChartInv, FloorKnown
  <2>8. QED
    BY <2>6, <2>7 DEF ChartInv
<1>9. CASE UNCHANGED vars
  BY <1>9, ChartSame DEF vars, chart
<1>10. QED
  BY <1>1, <1>2, <1>3, <1>4, <1>5, <1>6, <1>7, <1>8, <1>9 DEF Next, TabStep, ChartStep

LEMMA ChartInit == Init => ChartInv
  BY DEF Init, NoFlight, ChartInv, ChartTypes, FloorKnown

\* The cached chart counts in every bin at least the transactions that were
\* stored when a refresh began that no earlier one is answered after, for every
\* number of requests at a time and every period.
THEOREM ChartNotStaleInvariant == Spec => []ChartNotStale
<1>1. ChartInv => ChartNotStale
  <2> SUFFICES ASSUME ChartInv, cache # None PROVE ChartNotStale
    BY DEF ChartNotStale
  <2>1. floor \subseteq cache /\ cache \in SUBSET Numbers
    BY DEF ChartInv, ChartTypes, FloorKnown
  <2>2. QED
    BY <2>1, StatsGrow DEF ChartNotStale
<1>2. QED
  BY <1>1, ChartInit, ChartNext, PTL DEF Spec
(***************************************************************************)
(* The tab's records                                                       *)
(***************************************************************************)
Fields == {"pc", "view", "arg", "q", "page", "todo", "ans", "walk", "start", "seen",
           "early", "refused", "landed"}

LEMMA BlankIs ==
  /\ DOMAIN Blank = Fields
  /\ Blank.pc = "idle" /\ Blank.view = "home" /\ Blank.arg = None /\ Blank.q = NoFilter
  /\ Blank.page = 1 /\ Blank.todo = {} /\ Blank.ans = NoAnswers /\ Blank.walk = FALSE
  /\ Blank.start = {} /\ Blank.seen = {} /\ Blank.early = FALSE /\ Blank.refused = FALSE
  /\ Blank.landed = FALSE
  BY DEF Blank, Fields

LEMMA NoAnswersAre == DOMAIN NoAnswers = Calls /\ \A c \in Calls : NoAnswers[c] = None
  BY DEF NoAnswers

\* t is the page that Load(v, a, q, k) begins with.
Loads(t, v, a, q, k) ==
    /\ DOMAIN t = Fields
    /\ t.pc = "loading" /\ t.view = v /\ t.arg = a /\ t.q = q /\ t.page = k
    /\ t.todo = FirstCalls(v, a) \ (IF v = "home" /\ cache # None THEN {"chart"} ELSE {})
    /\ DOMAIN t.ans = Calls
    /\ \A c \in Calls \ {"chart"} : t.ans[c] = None
    /\ t.walk = FALSE /\ t.start = stored /\ t.seen = {} /\ t.early = FALSE
    /\ t.refused = FALSE /\ t.landed = FALSE

LEMMA LoadIs == \A v, a, q, k : Loads(Load(v, a, q, k), v, a, q, k)
<1> SUFFICES ASSUME NEW v, NEW a, NEW q, NEW k
             PROVE  Loads(Load(v, a, q, k), v, a, q, k)
  OBVIOUS
<1> DEFINE calls == FirstCalls(v, a) \ (IF v = "home" /\ cache # None THEN {"chart"} ELSE {})
           ans   == [NoAnswers EXCEPT !["chart"] = IF v = "home" /\ cache # None
                                                   THEN cache ELSE None]
           t     == [Blank EXCEPT !.pc = "loading", !.view = v, !.arg = a, !.q = q, !.page = k,
                                  !.todo = calls, !.ans = ans, !.start = stored]
<1>1. DOMAIN ans = Calls /\ \A c \in Calls \ {"chart"} : ans[c] = None
  BY NoAnswersAre
<1>2. Load(v, a, q, k) = t
  BY BlankIs DEF Load, Fields
<1> HIDE DEF ans, calls
<1>3. /\ DOMAIN t = Fields /\ t.pc = "loading" /\ t.view = v /\ t.arg = a /\ t.q = q
      /\ t.page = k /\ t.todo = calls /\ t.ans = ans /\ t.start = stored
  BY BlankIs DEF Fields
<1>4. /\ t.walk = FALSE /\ t.seen = {} /\ t.early = FALSE /\ t.refused = FALSE
      /\ t.landed = FALSE
  BY BlankIs DEF Fields
<1> HIDE DEF t
<1>5. QED
  BY <1>1, <1>2, <1>3, <1>4 DEF calls, Loads

LEMMA FailedIs ==
  ASSUME NEW t
  PROVE  /\ DOMAIN Failed(t) = Fields
         /\ Failed(t).pc = "error" /\ Failed(t).view = t.view /\ Failed(t).arg = t.arg
         /\ Failed(t).page = 1 /\ Failed(t).todo = {} /\ Failed(t).ans = NoAnswers
         /\ Failed(t).start = t.start /\ Failed(t).seen = {}
         /\ Failed(t).refused = t.refused /\ Failed(t).landed = t.landed
         /\ Failed(t).q = NoFilter
  BY BlankIs DEF Failed, Fields

\* u is what an answer, x of c, makes of the page t.
IsAnswered(u, t, c, x) ==
    /\ DOMAIN u = Fields
    /\ u.pc = t.pc /\ u.view = t.view /\ u.arg = t.arg /\ u.page = t.page /\ u.q = t.q
    /\ u.todo = (t.todo \ {c}) \cup Then(t.view, c)
    /\ DOMAIN u.ans = Calls
    /\ \A d \in Calls : u.ans[d] = IF d = c THEN x ELSE t.ans[d]
    /\ u.start = t.start
    /\ u.seen = IF c = "rows" /\ t.walk THEN t.seen \cup x ELSE t.seen
    /\ u.refused = t.refused /\ u.landed = t.landed /\ u.walk = t.walk
    /\ u.early = IF c = Main(t.view) THEN t.todo # FirstCalls(t.view, t.arg) ELSE t.early

LEMMA AnsweredIs ==
  \A t, c, x : DOMAIN t = Fields /\ DOMAIN t.ans = Calls =>
                  IsAnswered(Answered(t, c, x), t, c, x)
<1> SUFFICES ASSUME NEW t, NEW c, NEW x, DOMAIN t = Fields, DOMAIN t.ans = Calls
             PROVE  IsAnswered(Answered(t, c, x), t, c, x)
  OBVIOUS
<1>1. QED
  BY DEF Answered, IsAnswered, Fields

LEMMA DefaultAssetIs ==
  ASSUME NEW t, DOMAIN t = Fields
  PROVE  /\ DOMAIN DefaultAsset(t) = Fields
         /\ DefaultAsset(t).pc = t.pc /\ DefaultAsset(t).view = t.view
         /\ DefaultAsset(t).arg = t.arg /\ DefaultAsset(t).page = t.page
         /\ DefaultAsset(t).todo = t.todo /\ DefaultAsset(t).ans = t.ans
         /\ DefaultAsset(t).start = t.start /\ DefaultAsset(t).seen = t.seen
         /\ DefaultAsset(t).refused = t.refused /\ DefaultAsset(t).landed = t.landed
         /\ DefaultAsset(t).walk = t.walk /\ DefaultAsset(t).early = t.early
         /\ DOMAIN t.q \subseteq {"asset_id"} => DOMAIN DefaultAsset(t).q \subseteq {"asset_id"}
         /\ t.view # "address" => DefaultAsset(t) = t
<1> DEFINE with(a) == [t EXCEPT !.q = With(t.q, [asset_id |-> a])]
<1>1. ASSUME NEW a
      PROVE  /\ DOMAIN with(a) = Fields
             /\ with(a).pc = t.pc /\ with(a).view = t.view
             /\ with(a).arg = t.arg /\ with(a).page = t.page
             /\ with(a).todo = t.todo /\ with(a).ans = t.ans
             /\ with(a).start = t.start /\ with(a).seen = t.seen
             /\ with(a).refused = t.refused /\ with(a).landed = t.landed
             /\ with(a).walk = t.walk /\ with(a).early = t.early
             /\ DOMAIN with(a).q = DOMAIN t.q \cup {"asset_id"}
  <2>1. DOMAIN With(t.q, [asset_id |-> a]) = DOMAIN t.q \cup {"asset_id"}
    BY DEF With
  <2>2. QED
    BY <2>1 DEF Fields
<1>2. DefaultAsset(t) = t \/ \E a : DefaultAsset(t) = with(a)
  BY DEF DefaultAsset, Fields
<1>3. t.view # "address" => DefaultAsset(t) = t
  BY DEF DefaultAsset
<1> HIDE DEF with
<1>4. CASE DefaultAsset(t) = t
  BY <1>3, <1>4
<1>5. CASE DefaultAsset(t) # t
  <2>1. PICK a : DefaultAsset(t) = with(a)
    BY <1>2, <1>5
  <2>2. t.view = "address"
    BY <1>3, <1>5
  <2>3. QED
    BY <1>1, <2>1, <2>2
<1>6. QED
  BY <1>4, <1>5

(***************************************************************************)
(* The lists                                                               *)
(***************************************************************************)
LEMMA NoFilterFilters ==
  /\ DOMAIN NoFilter = {}
  /\ \A n \in Numbers : InTime(NoFilter, n)
  /\ GetTxnType(NoFilter) = TxnTypes /\ GetTxnFlow(NoFilter) = TxnFlows
  /\ GetAssetType(NoFilter) = AssetTypes
  /\ \A id : OfAsset(NoFilter, id)
<1>1. DOMAIN NoFilter = {}
  BY DEF NoFilter
<1>2. \A name, default : Param(NoFilter, name, default) = default
  BY <1>1 DEF Param
<1>3. \A n \in Numbers : n \in 0..Now
  BY ApiAssumption
<1>4. QED
  BY <1>1, <1>2, <1>3 DEF InTime, GetStartTime, GetEndTime, GetTxnType, GetTxnFlow,
                          GetAssetType, OfAsset, GetAssetId

\* A filter leaves fewer rows, fewer blocks have fewer.
LEMMA ListedGrows ==
  ASSUME NEW t, NEW T \in SUBSET Numbers, NEW S \in SUBSET T, NEW q
  PROVE  Listed(t, S, q) \subseteq Listed(t, T, NoFilter)
<1>1. Blocks(S, q) \subseteq Blocks(T, NoFilter)
  BY NoFilterFilters DEF Blocks
<1>2. TransactionList(S, q) \subseteq TransactionList(T, NoFilter)
  BY NoFilterFilters, ApiAssumption DEF TransactionList, Selected, CombinedTxns, Row
<1>3. BlockTransactions(S, t.arg, q) \subseteq BlockTransactions(T, t.arg, NoFilter)
  BY NoFilterFilters, ApiAssumption DEF BlockTransactions, Selected, CombinedTxns, Row, Block
<1>4. TransactionInternal(S, t.arg, q) \subseteq TransactionInternal(T, t.arg, NoFilter)
  BY NoFilterFilters DEF TransactionInternal
<1>5. AddressTransactions(S, t.arg, q) \subseteq AddressTransactions(T, t.arg, NoFilter)
  BY <1>2, NoFilterFilters DEF AddressTransactions, Flow, TxnFlows
<1>6. AssetList(S, q) \subseteq AssetList(T, NoFilter)
  BY NoFilterFilters, ApiAssumption DEF AssetList
<1>7. QED
  BY <1>1, <1>2, <1>3, <1>4, <1>5, <1>6 DEF Listed

LEMMA ListedSame ==
  ASSUME NEW t, NEW u, t.view = u.view, t.arg = u.arg, NEW S, NEW q
  PROVE  Listed(t, S, q) = Listed(u, S, q)
  BY DEF Listed

LEMMA ListPagesIn ==
  ASSUME NEW t, NEW x \in ListPages(t)
  PROVE  x \subseteq Listed(t, stored, t.q)
<1> DEFINE rows == Listed(t, stored, t.q)
<1>1. /\ PossiblePages(rows, BlockBefore, Query(t)) \subseteq SUBSET rows
      /\ PossiblePages(rows, AssetBefore, Query(t)) \subseteq SUBSET rows
      /\ PossiblePages(rows, TxnBefore, Query(t)) \subseteq SUBSET rows
  BY DEF PossiblePages
<1>2. \/ x \in PossiblePages(rows, BlockBefore, Query(t))
      \/ x \in PossiblePages(rows, AssetBefore, Query(t))
      \/ x \in PossiblePages(rows, TxnBefore, Query(t))
      \/ x = rows
  BY DEF ListPages
<1>3. QED
  BY <1>1, <1>2

(***************************************************************************)
(* The tab's types                                                         *)
(***************************************************************************)
StoredTxns == {r \in Transactions : r.block \in stored}

TabTypes ==
    /\ DOMAIN tab = Fields
    /\ tab.pc \in {"idle", "loading", "shown", "notfound", "error"}
    /\ tab.view \in Views /\ tab.arg \in Args(tab.view) /\ tab.page \in Int \ {0}
    /\ tab.todo \subseteq Calls /\ (tab.todo = {} \/ tab.pc = "loading")
    /\ DOMAIN tab.ans = Calls
    /\ tab.start \subseteq stored /\ tab.seen \subseteq Listed(tab, stored, NoFilter)
    /\ tab.ans["block"] \in stored \cup {None} /\ tab.ans["tx"] \in StoredTxns \cup {None}

\* Which pages ask for a block, a transaction or the chart.
TabAsks ==
    /\ "block" \in tab.todo => tab.view \in {"block", "search"}
    /\ "tx" \in tab.todo => tab.view \in {"tx", "search"}
    /\ "chart" \in tab.todo => tab.view = "home"

\* No more than one request for the chart is waited for.
Waiting ==
    /\ "chart" \in tab.todo <=> \E f \in Flights : flight[f].waited
    /\ \A f, g \in Flights : flight[f].waited /\ flight[g].waited => f = g

TabInv == ChartInv /\ TabTypes /\ TabAsks /\ Waiting

LEMMA CallsAre ==
  \A v, a : /\ FirstCalls(v, a) \subseteq Calls \/ v \notin Views
            /\ v \in Views /\ "block" \in FirstCalls(v, a) => v \in {"block", "search"}
            /\ v \in Views /\ "tx" \in FirstCalls(v, a) => v \in {"tx", "search"}
            /\ v \in Views => ("chart" \in FirstCalls(v, a) <=> v = "home")
  BY DEF FirstCalls, Calls, Views

LEMMA ThenAre ==
  \A v, c : Then(v, c) \subseteq Calls \ {"block", "tx", "chart"}
  BY DEF Then, Calls

\* A new page.
LEMMA LoadTyped ==
  ASSUME TabInv, stored' = stored,
         DOMAIN tab' = Fields, tab'.pc = "loading",
         tab'.view \in Views, tab'.arg \in Args(tab'.view), tab'.page \in Int \ {0},
         tab'.todo \subseteq FirstCalls(tab'.view, tab'.arg), DOMAIN tab'.ans = Calls,
         \A c \in Calls \ {"chart"} : tab'.ans[c] = None,
         tab'.start \subseteq stored, tab'.seen \subseteq Listed(tab', stored, NoFilter)
  PROVE  TabTypes' /\ TabAsks'
<1>1. tab'.todo \subseteq Calls
  BY CallsAre
<1>2. tab'.ans["block"] = None /\ tab'.ans["tx"] = None
  BY DEF Calls
<1>3. tab'.seen \subseteq Listed(tab', stored', NoFilter)
  OBVIOUS
<1>4. TabTypes'
  BY <1>1, <1>2, <1>3 DEF TabTypes
<1>5. TabAsks'
  BY CallsAre DEF TabAsks
<1>6. QED
  BY <1>4, <1>5

\* A page that fails, or is not found.
LEMMA GoneTyped ==
  ASSUME TabInv, stored' = stored,
         DOMAIN tab' = Fields, tab'.pc \in {"error", "notfound"}, tab'.view = tab.view,
         tab'.arg = tab.arg, tab'.page = 1, tab'.todo = {}, tab'.ans = NoAnswers,
         tab'.start = tab.start, tab'.seen = {}
  PROVE  TabTypes' /\ TabAsks'
  BY NoAnswersAre DEF TabTypes, TabAsks, TabInv, Calls

\* An answer.
LEMMA AnswerTyped ==
  ASSUME TabInv, stored' = stored, NEW c \in tab.todo,
         DOMAIN tab' = Fields, tab'.pc = tab.pc, tab'.view = tab.view,
         tab'.arg = tab.arg, tab'.page = tab.page,
         tab'.todo = (tab.todo \ {c}) \cup Then(tab.view, c),
         DOMAIN tab'.ans = Calls, NEW x,
         \A d \in Calls : tab'.ans[d] = IF d = c THEN x ELSE tab.ans[d],
         tab'.start = tab.start,
         tab'.seen = tab.seen \/ (c = "rows" /\ tab'.seen = tab.seen \cup x),
         c = "rows" => x \subseteq Listed(tab, stored, NoFilter),
         c = "block" => x \in stored \cup {None},
         c = "tx" => x \in StoredTxns \cup {None}
  PROVE  TabTypes' /\ TabAsks'
<1>1. tab'.todo \subseteq Calls /\ tab'.pc = "loading"
  BY ThenAre DEF TabInv, TabTypes
<1>2. tab'.seen \subseteq Listed(tab, stored, NoFilter)
  BY DEF TabInv, TabTypes
<1>3. Listed(tab', stored', NoFilter) = Listed(tab, stored, NoFilter)
  BY ListedSame
<1>4. StoredTxns' = StoredTxns
  BY DEF StoredTxns
<1>5. tab'.ans["block"] \in stored \cup {None} /\ tab'.ans["tx"] \in StoredTxns \cup {None}
  BY DEF TabInv, TabTypes, Calls
<1>6. TabTypes'
  BY <1>1, <1>2, <1>3, <1>4, <1>5 DEF TabInv, TabTypes
<1>7. TabAsks'
  BY ThenAre DEF TabInv, TabAsks
<1>8. QED
  BY <1>6, <1>7

\* What an answer may be.
LEMMA AnswersAre ==
  ASSUME TabInv, NEW c \in tab.todo \ {"chart"}, NEW x \in Answers(tab, c)
  PROVE  /\ c = "rows" => x \subseteq Listed(tab, stored, NoFilter)
         /\ c = "block" => x = OneOf(Block(stored, tab.arg)) /\ x \in stored \cup {None}
         /\ c = "tx" => x = OneOf(TransactionHash(stored, tab.arg)) /\ x \in StoredTxns \cup {None}
<1>1. ASSUME c = "rows" PROVE x \subseteq Listed(tab, stored, NoFilter)
  <2>1. x = {} \/ x \in ListPages(tab)
    BY <1>1 DEF Answers
  <2>2. Listed(tab, stored, tab.q) \subseteq Listed(tab, stored, NoFilter)
    BY ListedGrows DEF TabInv, ChartInv, ChartTypes
  <2>3. QED
    BY <2>1, <2>2, ListPagesIn
<1>2. ASSUME c = "block"
      PROVE  x = OneOf(Block(stored, tab.arg)) /\ x \in stored \cup {None}
  <2>1. tab.view \in {"block", "search"}
    BY <1>2 DEF TabInv, TabAsks
  <2>2. x = OneOf(Block(stored, tab.arg))
    BY <1>2, <2>1 DEF Answers
  <2>3. QED
    BY <2>2 DEF OneOf, Block
<1>3. ASSUME c = "tx"
      PROVE  x = OneOf(TransactionHash(stored, tab.arg)) /\ x \in StoredTxns \cup {None}
  <2>1. tab.view \in {"tx", "search"}
    BY <1>3 DEF TabInv, TabAsks
  <2>2. x = OneOf(TransactionHash(stored, tab.arg))
    BY <1>3, <2>1 DEF Answers
  <2>3. QED
    BY <2>2 DEF OneOf, TransactionHash, StoredTxns
<1>4. QED
  BY <1>1, <1>2, <1>3

\* Who waits for the chart.
LEMMA NoneWaits ==
  ASSUME ChartInv, flight' = Unawaited
  PROVE  \A f \in Flights : ~flight'[f].waited
<1>1. \A f \in Flights : flight'[f] = [flight[f] EXCEPT !.waited = FALSE]
                         /\ DOMAIN flight[f] = {"began", "of", "waited"}
  BY DEF Unawaited, ChartInv, ChartTypes
<1>2. QED
  BY <1>1

LEMMA DepartWaits ==
  ASSUME ChartInv, NEW w \in BOOLEAN, Depart(w)
  PROVE  \E g \in Flights : /\ flight[g] = NoFlight /\ flight'[g].waited = w
                            /\ \A f \in Flights \ {g} : flight'[f] = flight[f]
<1> DEFINE g == CHOOSE f \in Flights : flight[f] = NoFlight
           new == [began |-> stored, of |-> None, waited |-> w]
<1>1. flight' = [flight EXCEPT ![g] = new] /\ g \in Flights /\ flight[g] = NoFlight
  BY DEF Depart
<1>2. new.waited = w
  OBVIOUS
<1> HIDE DEF g, new
<1>3. \A f \in Flights : flight'[f] = IF f = g THEN new ELSE flight[f]
  BY <1>1 DEF ChartInv, ChartTypes
<1>4. QED
  BY <1>1, <1>2, <1>3

LEMMA NoFlightWaits == ~NoFlight.waited
  BY DEF NoFlight

LEMMA GoneWaits ==
  ASSUME TabInv, tab'.todo = {}, flight' = Unawaited
  PROVE  Waiting'
<1>1. \A f \in Flights : ~flight'[f].waited
  BY NoneWaits DEF TabInv
<1>2. QED
  BY <1>1 DEF Waiting

LEMMA SameWaits ==
  ASSUME TabInv, flight' = flight, "chart" \in tab'.todo <=> "chart" \in tab.todo
  PROVE  Waiting'
  BY DEF TabInv, Waiting

LEMMA FirstPageOf == \A k \in Int : PageOf(k) \in Int \ {0}
<1> SUFFICES ASSUME NEW k \in Int PROVE PageOf(k) \in Int \ {0}
  OBVIOUS
<1>1. CASE k = 0
  BY <1>1 DEF PageOf
<1>2. CASE k # 0
  BY <1>2 DEF PageOf
<1>3. QED
  BY <1>1, <1>2

LEMMA VisitTyped ==
  ASSUME TabInv, ChartInv', NEW v \in Views, NEW a \in Args(v), NEW q \in Filters[v],
         NEW k \in UserPages, Visit(v, a, q, k)
  PROVE  TabInv'
<1> DEFINE t == Load(v, a, q, PageOf(k))
<1>1. Loads(t, v, a, q, PageOf(k))
  BY LoadIs
<1>2. tab' = [t EXCEPT !.walk = PageOf(k) = 1] /\ stored' = stored /\ cache' = cache
  BY DEF Visit
<1> HIDE DEF t
<1>3. /\ DOMAIN tab' = Fields /\ tab'.pc = "loading" /\ tab'.view = v /\ tab'.arg = a
      /\ tab'.page = PageOf(k)
      /\ tab'.todo = FirstCalls(v, a) \ (IF v = "home" /\ cache # None THEN {"chart"} ELSE {})
      /\ DOMAIN tab'.ans = Calls /\ \A c \in Calls \ {"chart"} : tab'.ans[c] = None
      /\ tab'.start = stored /\ tab'.seen = {}
  BY <1>1, <1>2 DEF Fields, Loads
<1>4. TabTypes' /\ TabAsks'
  <2>1. PageOf(k) \in Int \ {0}
    BY PortalAssumption, FirstPageOf
  <2>2. QED
    BY <1>2, <1>3, <2>1, LoadTyped
<1>5. \A f \in Flights : ~flight[f].waited
  BY DEF Visit, TabInv, TabTypes, Waiting
<1>6. Waiting'
  <2>1. CASE v = "home" /\ cache = None
    <3>1. Depart(TRUE)
      BY <2>1 DEF Visit
    <3>2. PICK g \in Flights : /\ flight'[g].waited = TRUE
                               /\ \A f \in Flights \ {g} : flight'[f] = flight[f]
      BY <3>1, DepartWaits DEF TabInv
    <3>3. "chart" \in tab'.todo
      BY <1>3, <2>1, CallsAre
    <3>4. QED
      BY <1>5, <3>2, <3>3 DEF Waiting
  <2>2. CASE ~(v = "home" /\ cache = None)
    <3>1. flight' = flight
      BY <2>2 DEF Visit
    <3>2. "chart" \notin tab'.todo
      BY <1>3, <2>2, CallsAre
    <3>3. QED
      BY <1>5, <3>1, <3>2 DEF Waiting
  <2>3. QED
    BY <2>1, <2>2
<1>7. QED
  BY <1>4, <1>6 DEF TabInv

\* A link or a form leads on from a page that is shown: never from the home page,
\* and never to it.
LEMMA OnwardTyped ==
  ASSUME TabInv, ChartInv', UNCHANGED <<stored, chart>>, tab.pc # "loading",
         DOMAIN tab' = Fields, tab'.pc = "loading",
         tab'.view \in Views \ {"home"}, tab'.arg \in Args(tab'.view), tab'.page \in Int \ {0},
         tab'.todo \subseteq FirstCalls(tab'.view, tab'.arg), DOMAIN tab'.ans = Calls,
         \A c \in Calls \ {"chart"} : tab'.ans[c] = None,
         tab'.start \subseteq stored, tab'.seen \subseteq Listed(tab', stored, NoFilter)
  PROVE  TabInv'
<1>1. TabTypes' /\ TabAsks'
  BY LoadTyped
<1>2. "chart" \notin tab'.todo /\ "chart" \notin tab.todo
  BY CallsAre DEF TabInv, TabTypes
<1>3. Waiting'
  BY <1>2, SameWaits DEF chart
<1>4. QED
  BY <1>1, <1>3 DEF TabInv

LEMMA NoLinks ==
  ASSUME TabInv
  PROVE  /\ Links(tab) # {} => tab.view \in {"blocks", "block", "txs", "address", "tokens"}
         /\ Entered(tab.view) # {} => tab.view \in {"block", "txs", "tx", "address", "tokens"}
  BY DEF Links, PageCount, Entered, TabInv, TabTypes, Views

LEMMA ClickTyped ==
  ASSUME TabInv, ChartInv', Click
  PROVE  TabInv'
<1>1. PICK k \in Links(tab) :
        /\ k \in Min(UserPages)..MaxPage
        /\ tab' = [Load(tab.view, tab.arg, tab.q, PageOf(k)) EXCEPT
                     !.walk = tab.walk /\ k = tab.page + 1,
                     !.start = IF tab.walk /\ k = tab.page + 1 THEN tab.start ELSE @,
                     !.seen = IF tab.walk /\ k = tab.page + 1 THEN tab.seen ELSE @]
  BY DEF Click
<1>2. k \in Int /\ PageOf(k) \in Int \ {0}
  <2>1. Min(UserPages) \in UserPages
    BY PortalAssumption DEF Min
  <2>2. Min(UserPages) \in Int /\ MaxPage \in Int
    BY <2>1, PortalAssumption
  <2>3. k \in Int
    BY <1>1, <2>2
  <2>4. QED
    BY <2>3, FirstPageOf
<1> DEFINE t == Load(tab.view, tab.arg, tab.q, PageOf(k))
<1>3. Loads(t, tab.view, tab.arg, tab.q, PageOf(k))
  BY LoadIs
<1>4. UNCHANGED <<stored, chart>> /\ tab.pc # "loading"
  BY DEF Click
<1> HIDE DEF t
<1>5. /\ DOMAIN tab' = Fields /\ tab'.pc = "loading" /\ tab'.view = tab.view /\ tab'.arg = tab.arg
      /\ tab'.page = PageOf(k) /\ tab'.todo \subseteq FirstCalls(tab.view, tab.arg)
      /\ DOMAIN tab'.ans = Calls /\ \A c \in Calls \ {"chart"} : tab'.ans[c] = None
      /\ tab'.start \in {tab.start, stored} /\ tab'.seen \in {tab.seen, {}}
  BY <1>1, <1>3 DEF Fields, Loads, t
<1>6. tab.view \in Views \ {"home"} /\ tab.arg \in Args(tab.view)
  BY NoLinks DEF TabInv, TabTypes
<1>7. tab'.start \subseteq stored /\ tab'.seen \subseteq Listed(tab', stored, NoFilter)
  <2>1. Listed(tab', stored, NoFilter) = Listed(tab, stored, NoFilter)
    BY <1>5, ListedSame
  <2>2. QED
    BY <1>5, <2>1 DEF TabInv, TabTypes
<1>8. QED
  BY <1>2, <1>4, <1>5, <1>6, <1>7, OnwardTyped

LEMMA FormTyped ==
  ASSUME TabInv, ChartInv', Submit \/ Reset
  PROVE  TabInv'
<1>1. PICK q : FormLeadsTo(q) /\ Entered(tab.view) # {}
  BY DEF Submit, Reset
<1> DEFINE t == Load(tab.view, tab.arg, With(q, KeptAsset), 1)
<1>2. Loads(t, tab.view, tab.arg, With(q, KeptAsset), 1)
  BY LoadIs
<1>3. /\ UNCHANGED <<stored, chart>> /\ tab.pc # "loading"
      /\ tab' = [t EXCEPT !.walk = TRUE]
  BY <1>1 DEF FormLeadsTo
<1> HIDE DEF t
<1>4. /\ DOMAIN tab' = Fields /\ tab'.pc = "loading" /\ tab'.view = tab.view /\ tab'.arg = tab.arg
      /\ tab'.page = 1 /\ tab'.todo \subseteq FirstCalls(tab.view, tab.arg)
      /\ DOMAIN tab'.ans = Calls /\ \A c \in Calls \ {"chart"} : tab'.ans[c] = None
      /\ tab'.start = stored /\ tab'.seen = {}
  BY <1>2, <1>3 DEF Fields, Loads
<1>5. tab.view \in Views \ {"home"} /\ tab.arg \in Args(tab.view)
  BY <1>1, NoLinks DEF TabInv, TabTypes
<1>6. QED
  BY <1>3, <1>4, <1>5, OnwardTyped

\* An answer that is not the chart.
LEMMA AnsweredWaits ==
  ASSUME TabInv, flight' = flight, NEW c \in tab.todo \ {"chart"},
         tab'.todo = (tab.todo \ {c}) \cup Then(tab.view, c)
  PROVE  Waiting'
<1>1. "chart" \in tab'.todo <=> "chart" \in tab.todo
  BY ThenAre
<1>2. QED
  BY <1>1, SameWaits

LEMMA AnswerFields ==
  ASSUME TabInv, NEW c \in Calls, Answer(c)
  PROVE  /\ c \in tab.todo \ {"chart"} /\ UNCHANGED <<stored, cache, floor>>
         /\ \/ c = "rows" /\ ListRefused(tab) /\ tab' = Failed(tab) /\ flight' = Unawaited
            \/ /\ ~(c = "rows" /\ ListRefused(tab)) /\ flight' = flight
               /\ \E x \in Answers(tab, c) : tab' = DefaultAsset(Answered(tab, c, x))
  BY DEF Answer

LEMMA AnswerStep ==
  ASSUME TabInv, ChartInv', NEW c \in Calls, Answer(c)
  PROVE  TabInv'
<1>1. c \in tab.todo \ {"chart"} /\ UNCHANGED <<stored, cache, floor>>
  BY AnswerFields
<1>2. CASE tab' = Failed(tab) /\ flight' = Unawaited
  <2>1. TabTypes' /\ TabAsks'
    BY <1>1, <1>2, FailedIs, GoneTyped
  <2>2. Waiting'
    BY <1>2, FailedIs, GoneWaits
  <2>3. QED
    BY <2>1, <2>2 DEF TabInv
<1>3. ASSUME NEW x \in Answers(tab, c), flight' = flight,
             tab' = DefaultAsset(Answered(tab, c, x))
      PROVE  TabInv'
  <2> DEFINE t == Answered(tab, c, x)
  <2>1. DOMAIN tab = Fields /\ DOMAIN tab.ans = Calls
    BY DEF TabInv, TabTypes
  <2>2. IsAnswered(t, tab, c, x)
    BY <2>1, AnsweredIs
  <2> HIDE DEF t
  <2>3. /\ DOMAIN tab' = Fields /\ tab'.pc = t.pc /\ tab'.view = t.view /\ tab'.arg = t.arg
        /\ tab'.page = t.page /\ tab'.todo = t.todo /\ tab'.ans = t.ans
        /\ tab'.start = t.start /\ tab'.seen = t.seen
    BY <1>3, <2>2, DefaultAssetIs DEF t, IsAnswered
  <2>4. /\ c = "rows" => x \subseteq Listed(tab, stored, NoFilter)
        /\ c = "block" => x \in stored \cup {None}
        /\ c = "tx" => x \in StoredTxns \cup {None}
    BY <1>1, AnswersAre
  <2>5. tab'.seen = tab.seen \/ (c = "rows" /\ tab'.seen = tab.seen \cup x)
    BY <2>2, <2>3 DEF IsAnswered
  <2>6. TabTypes' /\ TabAsks'
    BY <1>1, <2>2, <2>3, <2>4, <2>5, AnswerTyped DEF IsAnswered
  <2>7. Waiting'
    BY <1>1, <1>3, <2>2, <2>3, AnsweredWaits DEF IsAnswered
  <2>8. QED
    BY <2>6, <2>7 DEF TabInv
<1>4. QED
  BY <1>2, <1>3, AnswerFields

LEMMA RefuseStep ==
  ASSUME TabInv, ChartInv', NEW c \in Calls, Refuse(c)
  PROVE  TabInv' /\ tab'.refused
<1>1. c \in tab.todo \ {"chart"} /\ UNCHANGED <<stored, cache, floor>>
  BY DEF Refuse
<1>2. DOMAIN tab = Fields /\ DOMAIN tab.ans = Calls
  BY DEF TabInv, TabTypes
<1>3. CASE c \in {"block", "tx"}
  <2> DEFINE t == Answered(tab, c, None)
  <2>1. IsAnswered(t, tab, c, None)
    BY <1>2, AnsweredIs
  <2>2. tab' = [t EXCEPT !.refused = TRUE] /\ flight' = flight
    BY <1>3 DEF Refuse
  <2> HIDE DEF t
  <2>3. /\ DOMAIN tab' = Fields /\ tab'.pc = tab.pc /\ tab'.view = tab.view /\ tab'.arg = tab.arg
        /\ tab'.page = tab.page /\ tab'.todo = (tab.todo \ {c}) \cup Then(tab.view, c)
        /\ DOMAIN tab'.ans = Calls
        /\ \A d \in Calls : tab'.ans[d] = IF d = c THEN None ELSE tab.ans[d]
        /\ tab'.start = tab.start /\ tab'.seen = tab.seen
    BY <1>3, <2>1, <2>2 DEF Fields, IsAnswered
  <2>4. tab'.refused
    BY <2>1, <2>2 DEF Fields, IsAnswered
  <2>5. TabTypes' /\ TabAsks'
    BY <1>1, <1>3, <2>3, AnswerTyped
  <2>6. Waiting'
    BY <1>1, <2>2, <2>3, AnsweredWaits
  <2>7. QED
    BY <2>4, <2>5, <2>6 DEF TabInv
<1>4. CASE c \notin {"block", "tx"}
  <2>1. tab' = [Failed(tab) EXCEPT !.refused = TRUE] /\ flight' = Unawaited
    BY <1>4 DEF Refuse
  <2>2. /\ DOMAIN tab' = Fields /\ tab'.pc = "error" /\ tab'.view = tab.view
        /\ tab'.arg = tab.arg /\ tab'.page = 1 /\ tab'.todo = {} /\ tab'.ans = NoAnswers
        /\ tab'.start = tab.start /\ tab'.seen = {}
    BY <2>1, FailedIs DEF Fields
  <2>3. tab'.refused
    BY <2>1, FailedIs DEF Fields
  <2>4. TabTypes' /\ TabAsks'
    BY <1>1, <2>2, GoneTyped
  <2>5. Waiting'
    BY <2>1, <2>2, GoneWaits
  <2>6. QED
    BY <2>3, <2>4, <2>5 DEF TabInv
<1>5. QED
  BY <1>3, <1>4

LEMMA RenderStep ==
  ASSUME TabInv, ChartInv', Render
  PROVE  /\ TabInv'
         /\ tab'.refused = tab.refused /\ tab'.landed = tab.landed
         /\ tab'.view = tab.view /\ tab'.arg = tab.arg /\ tab'.start = tab.start
         /\ \/ tab'.pc = "shown" /\ tab'.page = tab.page /\ tab'.q = tab.q /\ tab'.ans = tab.ans
            \/ tab'.pc = "error" /\ tab.view = "block" /\ tab.ans["block"] = None
            \/ tab'.pc = "notfound" /\ tab.view = "tx" /\ tab.ans["tx"] = None
         /\ tab'.todo = {}
<1>1. tab.todo = {} /\ UNCHANGED <<stored, chart>>
  BY DEF Render
<1>2. DOMAIN tab = Fields
  BY DEF TabInv, TabTypes
<1>3. CASE \/ tab.view = "block" /\ tab.ans["block"] = None /\ tab' = Failed(tab)
           \/ tab.view = "tx" /\ tab.ans["tx"] = None /\ tab' = [Failed(tab) EXCEPT !.pc = "notfound"]
  <2>1. /\ DOMAIN tab' = Fields /\ tab'.pc \in {"error", "notfound"} /\ tab'.view = tab.view
        /\ tab'.arg = tab.arg /\ tab'.page = 1 /\ tab'.todo = {} /\ tab'.ans = NoAnswers
        /\ tab'.start = tab.start /\ tab'.seen = {}
        /\ \/ tab'.pc = "error" /\ tab.view = "block" /\ tab.ans["block"] = None
           \/ tab'.pc = "notfound" /\ tab.view = "tx" /\ tab.ans["tx"] = None
    BY <1>3, FailedIs DEF Fields
  <2>2. tab'.refused = tab.refused /\ tab'.landed = tab.landed
    BY <1>3, FailedIs DEF Fields
  <2>3. TabTypes' /\ TabAsks'
    BY <1>1, <2>1, GoneTyped
  <2>4. Waiting'
    BY <1>1, <2>1, SameWaits DEF chart
  <2>5. QED
    BY <2>1, <2>2, <2>3, <2>4 DEF TabInv
<1>4. CASE tab' = [tab EXCEPT !.pc = "shown"]
  <2>1. /\ DOMAIN tab' = Fields /\ tab'.pc = "shown" /\ tab'.view = tab.view
        /\ tab'.arg = tab.arg /\ tab'.page = tab.page /\ tab'.todo = {} /\ tab'.ans = tab.ans
        /\ tab'.start = tab.start /\ tab'.seen = tab.seen /\ tab'.q = tab.q
    BY <1>1, <1>2, <1>4 DEF Fields
  <2>2. tab'.refused = tab.refused /\ tab'.landed = tab.landed
    BY <1>2, <1>4 DEF Fields
  <2>3. Listed(tab', stored', NoFilter) = Listed(tab, stored, NoFilter) /\ StoredTxns' = StoredTxns
    BY <1>1, <2>1, ListedSame DEF StoredTxns
  <2>4. TabTypes' /\ TabAsks'
    BY <1>1, <2>1, <2>3 DEF TabInv, TabTypes, TabAsks
  <2>5. Waiting'
    BY <1>1, <2>1, SameWaits DEF chart
  <2>6. QED
    BY <2>1, <2>2, <2>4, <2>5 DEF TabInv
<1>5. QED
  BY <1>3, <1>4 DEF Render

\* Where a search leads.
LEMMA SearchResultIs ==
  ASSUME TabInv, tab.view = "search"
  PROVE  \/ SearchResult(tab) = <<>> /\ tab.arg \notin Addresses
            /\ tab.ans["block"] = None /\ tab.ans["tx"] = None
         \/ \E v, a : /\ SearchResult(tab) = <<v, a>> /\ v \in Views /\ a \in Args(v)
                      /\ \/ v = "address"
                         \/ v = "block" /\ a \in stored
                         \/ v = "tx" /\ \E r \in StoredTxns : r.hash = a
<1>1. ASSUME tab.arg \in Addresses
      PROVE  \E v, a : /\ SearchResult(tab) = <<v, a>> /\ v \in Views /\ a \in Args(v)
                       /\ v = "address"
  <2>1. SearchResult(tab) = <<"address", tab.arg>>
    BY <1>1 DEF SearchResult
  <2>2. "address" \in Views /\ tab.arg \in Args("address")
    BY <1>1 DEF Views, Args
  <2>3. QED
    BY <2>1, <2>2
<1>2. ASSUME tab.arg \notin Addresses, tab.ans["block"] # None
      PROVE  \E v, a : /\ SearchResult(tab) = <<v, a>> /\ v \in Views /\ a \in Args(v)
                       /\ v = "block" /\ a \in stored
  <2>1. SearchResult(tab) = <<"block", tab.ans["block"]>>
    BY <1>2 DEF SearchResult
  <2>2. tab.ans["block"] \in stored /\ stored \subseteq Numbers
    BY <1>2 DEF TabInv, TabTypes, ChartInv, ChartTypes
  <2>3. "block" \in Views /\ tab.ans["block"] \in Args("block")
    BY <2>2 DEF Views, Args
  <2>4. QED
    BY <2>1, <2>2, <2>3
<1>3. ASSUME tab.arg \notin Addresses, tab.ans["block"] = None, tab.ans["tx"] # None
      PROVE  \E v, a : /\ SearchResult(tab) = <<v, a>> /\ v \in Views /\ a \in Args(v)
                       /\ v = "tx" /\ \E r \in StoredTxns : r.hash = a
  <2>1. SearchResult(tab) = <<"tx", tab.ans["tx"].hash>>
    BY <1>3 DEF SearchResult
  <2>2. tab.ans["tx"] \in StoredTxns /\ StoredTxns \subseteq Transactions
    BY <1>3 DEF TabInv, TabTypes, StoredTxns
  <2>3. "tx" \in Views /\ tab.ans["tx"].hash \in Args("tx")
    BY <2>2 DEF Views, Args
  <2>4. QED
    BY <2>1, <2>2, <2>3
<1>4. ASSUME tab.arg \notin Addresses, tab.ans["block"] = None, tab.ans["tx"] = None
      PROVE  SearchResult(tab) = <<>>
  BY <1>4 DEF SearchResult
<1>5. QED
  BY <1>1, <1>2, <1>3, <1>4

LEMMA RedirectStep ==
  ASSUME TabInv, ChartInv', Redirect
  PROVE  /\ TabInv' /\ tab'.refused = tab.refused
         /\ \/ /\ tab'.pc = "notfound" /\ tab'.view = "search" /\ tab'.todo = {}
               /\ tab'.arg = tab.arg /\ tab'.start = tab.start /\ tab'.landed = tab.landed
               /\ tab.arg \notin Addresses /\ tab.ans["block"] = None /\ tab.ans["tx"] = None
            \/ /\ tab'.pc = "loading" /\ tab'.page = 1 /\ tab'.q = NoFilter
               /\ tab'.todo = FirstCalls(tab'.view, tab'.arg)
               /\ \/ tab'.view = "address"
                  \/ tab'.view = "block" /\ tab'.arg \in stored
                  \/ tab'.view = "tx" /\ \E r \in StoredTxns : r.hash = tab'.arg
<1>1. tab.todo = {} /\ tab.view = "search" /\ UNCHANGED <<stored, chart>>
  BY DEF Redirect
<1>2. DOMAIN tab = Fields /\ "chart" \notin tab.todo
  BY <1>1 DEF TabInv, TabTypes
<1>3. CASE SearchResult(tab) = <<>>
  <2>1. tab' = [Failed(tab) EXCEPT !.pc = "notfound"]
    BY <1>3 DEF Redirect
  <2>2. /\ DOMAIN tab' = Fields /\ tab'.pc = "notfound" /\ tab'.view = tab.view
        /\ tab'.arg = tab.arg /\ tab'.page = 1 /\ tab'.todo = {} /\ tab'.ans = NoAnswers
        /\ tab'.start = tab.start /\ tab'.seen = {}
    BY <2>1, FailedIs DEF Fields
  <2>3. tab'.refused = tab.refused /\ tab'.landed = tab.landed
    BY <2>1, FailedIs DEF Fields
  <2>4. TabTypes' /\ TabAsks'
    BY <1>1, <2>2, GoneTyped
  <2>5. Waiting'
    BY <1>1, <2>2, SameWaits DEF chart
  <2>6. tab.arg \notin Addresses /\ tab.ans["block"] = None /\ tab.ans["tx"] = None
    BY <1>3 DEF SearchResult
  <2>7. QED
    BY <1>1, <2>2, <2>3, <2>4, <2>5, <2>6 DEF TabInv
<1>4. CASE SearchResult(tab) # <<>>
  <2>1. PICK v, a : /\ SearchResult(tab) = <<v, a>> /\ v \in Views /\ a \in Args(v)
                    /\ \/ v = "address"
                       \/ v = "block" /\ a \in stored
                       \/ v = "tx" /\ \E r \in StoredTxns : r.hash = a
    BY <1>1, <1>4, SearchResultIs
  <2> DEFINE t == Load(v, a, NoFilter, 1)
  <2>2. Loads(t, v, a, NoFilter, 1)
    BY LoadIs
  <2>3. tab' = [t EXCEPT !.walk = TRUE, !.refused = tab.refused, !.landed = TRUE]
    BY <1>4, <2>1 DEF Redirect
  <2> HIDE DEF t
  <2>4. /\ DOMAIN tab' = Fields /\ tab'.pc = "loading" /\ tab'.view = v /\ tab'.arg = a
        /\ tab'.page = 1 /\ tab'.q = NoFilter /\ tab'.todo = FirstCalls(v, a)
        /\ DOMAIN tab'.ans = Calls /\ \A c \in Calls \ {"chart"} : tab'.ans[c] = None
        /\ tab'.start = stored /\ tab'.seen = {}
    BY <2>1, <2>2, <2>3 DEF Fields, Loads
  <2>5. tab'.refused = tab.refused
    BY <2>2, <2>3 DEF Fields, Loads
  <2>6. v \in Views \ {"home"} /\ tab.pc = "loading"
    BY <2>1 DEF Redirect
  <2>7. TabTypes' /\ TabAsks'
    BY <1>1, <2>1, <2>4, LoadTyped
  <2>8. "chart" \notin tab'.todo
    BY <2>4, <2>6, CallsAre
  <2>9. Waiting'
    BY <1>1, <1>2, <2>8, SameWaits DEF chart
  <2>10. QED
    BY <2>1, <2>4, <2>5, <2>7, <2>9 DEF TabInv
<1>5. QED
  BY <1>3, <1>4

\* The flights, and what they do to the tab that waits.
LEMMA NotWaiting ==
  ASSUME TabInv, ChartInv', UNCHANGED <<stored, tab>>, NEW g \in Flights, ~flight[g].waited,
         ~flight'[g].waited, \A f \in Flights \ {g} : flight'[f] = flight[f]
  PROVE  TabInv'
<1>1. TabTypes' /\ TabAsks'
  BY DEF TabInv, TabTypes, TabAsks, StoredTxns, Listed
<1>2. Waiting'
  BY DEF TabInv, Waiting
<1>3. QED
  BY <1>1, <1>2 DEF TabInv

LEMMA StillWaiting ==
  ASSUME TabInv, ChartInv', UNCHANGED <<stored, tab>>,
         \A f \in Flights : flight'[f].waited <=> flight[f].waited
  PROVE  TabInv'
<1>1. TabTypes' /\ TabAsks'
  BY DEF TabInv, TabTypes, TabAsks, StoredTxns, Listed
<1>2. Waiting'
  BY DEF TabInv, Waiting
<1>3. QED
  BY <1>1, <1>2 DEF TabInv

LEMMA Landing ==
  ASSUME TabInv, NEW g \in Flights, flight' = [flight EXCEPT ![g] = NoFlight]
  PROVE  ~flight'[g].waited /\ \A f \in Flights \ {g} : flight'[f] = flight[f]
  BY NoFlightWaits DEF TabInv, ChartInv, ChartTypes

LEMMA FailsStep ==
  ASSUME TabInv, ChartInv', NEW g \in Flights, FlightFails(g)
  PROVE  TabInv' /\ (tab' = tab \/ tab'.refused)
<1>1. UNCHANGED <<stored, cache, floor>> /\ flight' = [flight EXCEPT ![g] = NoFlight]
  BY DEF FlightFails
<1>2. ~flight'[g].waited /\ \A f \in Flights \ {g} : flight'[f] = flight[f]
  BY <1>1, Landing
<1>3. CASE ~flight[g].waited
  BY <1>1, <1>2, <1>3, NotWaiting DEF FlightFails
<1>4. CASE flight[g].waited
  <2>1. tab' = [Failed(tab) EXCEPT !.refused = TRUE]
    BY <1>4 DEF FlightFails
  <2>2. /\ DOMAIN tab' = Fields /\ tab'.pc = "error" /\ tab'.view = tab.view
        /\ tab'.arg = tab.arg /\ tab'.page = 1 /\ tab'.todo = {} /\ tab'.ans = NoAnswers
        /\ tab'.start = tab.start /\ tab'.seen = {}
    BY <2>1, FailedIs DEF Fields
  <2>3. tab'.refused
    BY <2>1, FailedIs DEF Fields
  <2>4. TabTypes' /\ TabAsks'
    BY <1>1, <2>2, GoneTyped
  <2>5. Waiting'
    BY <1>2, <1>4, <2>2 DEF TabInv, Waiting
  <2>6. QED
    BY <2>3, <2>4, <2>5 DEF TabInv
<1>5. QED
  BY <1>3, <1>4

LEMMA CacheStep ==
  ASSUME TabInv, ChartInv', NEW g \in Flights, Cache(g)
  PROVE  TabInv' /\ (tab' = tab \/ (tab.view = "home" /\ tab'.view = "home" /\ tab'.landed = tab.landed
                                    /\ tab'.refused = tab.refused))
<1>1. stored' = stored /\ flight' = [flight EXCEPT ![g] = NoFlight]
  BY DEF Cache
<1>2. ~flight'[g].waited /\ \A f \in Flights \ {g} : flight'[f] = flight[f]
  BY <1>1, Landing
<1>3. CASE ~flight[g].waited
  BY <1>1, <1>2, <1>3, NotWaiting DEF Cache
<1>4. CASE flight[g].waited
  <2> DEFINE x == flight[g].of
             t == Answered(tab, "chart", x)
  <2>1. tab' = t
    BY <1>4 DEF Cache
  <2>2. DOMAIN tab = Fields /\ DOMAIN tab.ans = Calls
    BY DEF TabInv, TabTypes
  <2>3. IsAnswered(t, tab, "chart", x)
    BY <2>2, AnsweredIs
  <2>4. "chart" \in tab.todo /\ tab.view = "home"
    BY <1>4 DEF TabInv, TabAsks, Waiting
  <2> HIDE DEF t, x
  <2>5. TabTypes' /\ TabAsks'
    BY <1>1, <2>1, <2>3, <2>4, AnswerTyped DEF IsAnswered
  <2>6. "chart" \notin tab'.todo
    BY <2>1, <2>3, ThenAre DEF IsAnswered
  <2>7. Waiting'
    BY <1>2, <1>4, <2>6 DEF TabInv, Waiting
  <2>8. QED
    BY <2>1, <2>3, <2>4, <2>5, <2>7 DEF TabInv, IsAnswered
<1>5. QED
  BY <1>3, <1>4

LEMMA TabSame ==
  ASSUME TabInv, ChartInv', UNCHANGED vars
  PROVE  TabInv'
<1>1. UNCHANGED <<stored, tab>> /\ \A f \in Flights : flight'[f].waited <=> flight[f].waited
  BY DEF vars, chart
<1>2. QED
  BY <1>1, StillWaiting

LEMMA TabNext == TabInv /\ [Next]_vars => TabInv'
<1> SUFFICES ASSUME TabInv, [Next]_vars PROVE TabInv'
  OBVIOUS
<1>1. ChartInv'
  BY ChartNext DEF TabInv
<1>2. ASSUME NEW n \in Numbers, Store(n) PROVE TabInv'
  <2>1. stored \subseteq stored' /\ stored' \subseteq Numbers /\ UNCHANGED <<tab, chart>>
    BY <1>2 DEF Store, TabInv, ChartInv, ChartTypes
  <2>2. Listed(tab, stored, NoFilter) \subseteq Listed(tab, stored', NoFilter)
    BY <2>1, ListedGrows
  <2>3. StoredTxns \subseteq StoredTxns'
    BY <2>1 DEF StoredTxns
  <2>4. Listed(tab', stored', NoFilter) = Listed(tab, stored', NoFilter)
    BY <2>1
  <2>5. TabTypes'
    BY <2>1, <2>2, <2>3, <2>4 DEF TabInv, TabTypes
  <2>6. TabAsks' /\ Waiting'
    BY <2>1 DEF TabInv, TabAsks, Waiting, chart
  <2>7. QED
    BY <1>1, <2>5, <2>6 DEF TabInv
<1>3. ASSUME NEW v \in Views, NEW a \in Args(v), NEW q \in Filters[v], NEW k \in UserPages,
             Visit(v, a, q, k)
      PROVE  TabInv'
  BY <1>1, <1>3, VisitTyped
<1>4. CASE Click \/ Submit \/ Reset
  BY <1>1, <1>4, ClickTyped, FormTyped
<1>5. ASSUME NEW c \in Calls, Answer(c) \/ Refuse(c) PROVE TabInv'
  BY <1>1, <1>5, AnswerStep, RefuseStep
<1>6. CASE Render \/ Redirect
  BY <1>1, <1>6, RenderStep, RedirectStep
<1>7. CASE Refresh
  <2>1. PICK g \in Flights : /\ flight[g] = NoFlight /\ ~flight'[g].waited
                             /\ \A f \in Flights \ {g} : flight'[f] = flight[f]
    BY <1>7, DepartWaits DEF Refresh, TabInv
  <2>2. ~flight[g].waited /\ UNCHANGED <<stored, tab>>
    BY <1>7, <2>1, NoFlightWaits DEF Refresh
  <2>3. QED
    BY <1>1, <2>1, <2>2, NotWaiting
<1>8. ASSUME NEW g \in Flights, Compute(g) PROVE TabInv'
  <2>1. flight' = [flight EXCEPT ![g].of = stored] /\ UNCHANGED <<stored, tab>>
    BY <1>8 DEF Compute
  <2>2. \A f \in Flights : flight'[f].waited = flight[f].waited
    BY <2>1 DEF TabInv, ChartInv, ChartTypes
  <2>3. QED
    BY <1>1, <2>1, <2>2, StillWaiting
<1>9. ASSUME NEW g \in Flights, Cache(g) \/ FlightFails(g) PROVE TabInv'
  BY <1>1, <1>9, CacheStep, FailsStep
<1>10. CASE UNCHANGED vars
  BY <1>1, <1>10, TabSame
<1>11. QED
  BY <1>2, <1>3, <1>4, <1>5, <1>6, <1>7, <1>8, <1>9, <1>10 DEF Next, TabStep, ChartStep

LEMMA TabInit == Init => TabInv
<1> SUFFICES ASSUME Init PROVE TabInv
  OBVIOUS
<1>1. stored = {} /\ tab = Blank /\ flight = [f \in Flights |-> NoFlight]
  BY DEF Init
<1>2. TabTypes
  BY <1>1, BlankIs, NoAnswersAre DEF TabTypes, Views, Args, Calls
<1>3. TabAsks /\ Waiting
  BY <1>1, BlankIs, NoFlightWaits DEF TabAsks, Waiting
<1>4. QED
  BY <1>2, <1>3, ChartInit DEF TabInv

\* The types of the state: a page shows rows of what is stored only, and waits for
\* the chart just when a request for it is under way that answers to the page.
THEOREM TypeCorrect == Spec => []TypeOK
<1>1. TabInv => TypeOK
  <2> SUFFICES ASSUME TabInv PROVE TypeOK
    OBVIOUS
  <2>1. DOMAIN Blank = DOMAIN tab
    BY BlankIs DEF TabInv, TabTypes
  <2>2. QED
    BY <2>1 DEF TypeOK, TabInv, TabTypes, Waiting, ChartInv, ChartTypes, FloorKnown
<1>2. QED
  BY <1>1, TabInit, TabNext, PTL DEF Spec

(***************************************************************************)
(* What a search finds                                                     *)
(***************************************************************************)
FoundNothing == Block(tab.start, tab.arg) = {} /\ TransactionHash(tab.start, tab.arg) = {}

\* What a search has not found was not stored when it began.
Searching ==
    /\ tab.view = "search" /\ tab.pc = "loading" /\ tab.arg \notin Addresses =>
          /\ "block" \notin tab.todo /\ tab.ans["block"] = None => Block(tab.start, tab.arg) = {}
          /\ "tx" \notin tab.todo /\ tab.ans["tx"] = None =>
                TransactionHash(tab.start, tab.arg) = {}
    /\ tab.view = "search" /\ tab.pc = "notfound" => FoundNothing

\* The page a search leads to is about what is stored, and asks for nothing that is
\* refused.
Landed ==
    tab.landed =>
        /\ tab.pc \in {"loading", "shown"} /\ tab.page = 1 /\ DOMAIN tab.q \subseteq {"asset_id"}
        /\ \/ tab.view = "address"
           \/ /\ tab.view = "block" /\ tab.arg \in stored
              /\ "block" \notin tab.todo => tab.ans["block"] # None
           \/ /\ tab.view = "tx" /\ (\E r \in StoredTxns : r.hash = tab.arg)
              /\ "tx" \notin tab.todo => tab.ans["tx"] # None

SearchInv == ~tab.refused => Searching /\ Landed

LEMMA NumberIsNoHash ==
  \A S : \A n \in Numbers : TransactionHash(S, n) = {}
<1> SUFFICES ASSUME NEW S, NEW n \in Numbers PROVE TransactionHash(S, n) = {}
  OBVIOUS
<1>1. \A r \in Transactions : r.hash \in Hashes
  BY DEF Hashes, Row
<1>2. n \notin Hashes
  BY PortalAssumption
<1>3. QED
  BY <1>1, <1>2 DEF TransactionHash

LEMMA OneOfIs ==
  ASSUME NEW S
  PROVE  /\ OneOf(S) = None /\ None \notin S => S = {}
         /\ S # {} => OneOf(S) \in S
  BY DEF OneOf

LEMMA NothingStored ==
  ASSUME TabInv
  PROVE  /\ OneOf(Block(stored, tab.arg)) = None => Block(stored, tab.arg) = {}
         /\ OneOf(TransactionHash(stored, tab.arg)) = None => TransactionHash(stored, tab.arg) = {}
         /\ Block(tab.start, tab.arg) \subseteq Block(stored, tab.arg)
         /\ TransactionHash(tab.start, tab.arg) \subseteq TransactionHash(stored, tab.arg)
         /\ tab.arg \in stored => Block(stored, tab.arg) # {}
         /\ (\E r \in StoredTxns : r.hash = tab.arg) => TransactionHash(stored, tab.arg) # {}
<1>1. stored \subseteq Numbers /\ tab.start \subseteq stored
  BY DEF TabInv, ChartInv, ChartTypes, TabTypes
<1>2. None \notin Block(stored, tab.arg) /\ None \notin TransactionHash(stored, tab.arg)
  BY <1>1, PortalAssumption DEF Block, TransactionHash, Row
<1>3. QED
  BY <1>1, <1>2, OneOfIs DEF Block, TransactionHash, Identifies, StoredTxns

\* The first requests of a search: what is about numbers is not asked of hashes.
LEMMA SearchCalls ==
  ASSUME NEW a \in Args("search") \ Addresses
  PROVE  /\ "block" \in FirstCalls("search", a)
         /\ "tx" \in FirstCalls("search", a) \/ a \in Numbers
  BY DEF FirstCalls, Args

LEMMA LoadSearches ==
  ASSUME TabInv', ~tab'.refused, tab'.pc = "loading", ~tab'.landed,
         tab'.todo = FirstCalls(tab'.view, tab'.arg) \/ tab'.view # "search"
  PROVE  SearchInv'
<1>1. ASSUME tab'.view = "search", tab'.arg \notin Addresses
      PROVE  /\ "block" \in tab'.todo
             /\ "tx" \in tab'.todo \/ TransactionHash(tab'.start, tab'.arg) = {}
  <2>1. tab'.arg \in Args("search") \ Addresses
    BY <1>1 DEF TabInv, TabTypes
  <2>2. QED
    BY <1>1, <2>1, SearchCalls, NumberIsNoHash
<1>2. QED
  BY <1>1 DEF SearchInv, Searching, Landed

\* A page that a search has led to asks for nothing the api refuses.
LEMMA LandedNotRefused ==
  ASSUME Landed, tab.landed
  PROVE  ~ListRefused(tab)
<1>1. /\ tab.view \in {"address", "block", "tx"} /\ tab.page = 1
      /\ DOMAIN tab.q \subseteq {"asset_id"}
  BY DEF Landed
<1>2. 0 # NoNumber /\ 1 # NoNumber /\ Now # NoNumber /\ Now \in Nat
  BY ApiAssumption
<1>3. ASSUME tab.view = "address"
      PROVE  ~TimesRefused(Query(tab)) /\ ~PageRefused(Query(tab))
  <2>1. Query(tab) = With(tab.q, [page |-> 1, limit |-> PageSize])
    BY <1>1, <1>3 DEF Query
  <2>2. DOMAIN Query(tab) \subseteq {"asset_id", "page", "limit"} /\ Query(tab).page = 1
        /\ "page" \in DOMAIN Query(tab)
    BY <1>1, <2>1 DEF With
  <2>3. GetStartTime(Query(tab)) = 0 /\ GetEndTime(Query(tab)) = Now /\ GetPage(Query(tab)) = 1
    BY <1>2, <2>2 DEF GetStartTime, GetEndTime, GetPage, Param
  <2>4. QED
    BY <1>2, <2>3 DEF TimesRefused, StartRefused, EndRefused, PageRefused
<1>4. ASSUME tab.view = "block"
      PROVE  ~PageRefused(Query(tab))
  <2>1. Query(tab) = With(tab.q, [pageNumber |-> 1, limit |-> DetailSize])
    BY <1>1, <1>4 DEF Query
  <2>2. "page" \notin DOMAIN Query(tab)
    BY <1>1, <2>1 DEF With
  <2>3. GetPage(Query(tab)) = 1
    BY <2>2 DEF GetPage, Param
  <2>4. QED
    BY <2>3 DEF PageRefused
<1>5. QED
  BY <1>1, <1>3, <1>4 DEF ListRefused

LEMMA SearchAnswer ==
  ASSUME TabInv, TabInv', SearchInv, ~tab'.refused, NEW c \in Calls, Answer(c)
  PROVE  SearchInv'
<1>1. c \in tab.todo \ {"chart"} /\ stored' = stored /\ tab.pc = "loading"
  BY AnswerFields DEF TabInv, TabTypes
<1>2. CASE c = "rows" /\ ListRefused(tab) /\ tab' = Failed(tab)
  <2>1. /\ tab'.pc = "error" /\ tab'.view = tab.view /\ tab'.landed = tab.landed
        /\ tab'.refused = tab.refused
    BY <1>2, FailedIs
  <2>2. ~tab.landed
    BY <1>2, <2>1, LandedNotRefused DEF SearchInv
  <2>3. QED
    BY <2>1, <2>2 DEF SearchInv, Searching, Landed
<1>3. ASSUME NEW x \in Answers(tab, c), tab' = DefaultAsset(Answered(tab, c, x))
      PROVE  SearchInv'
  <2> DEFINE t == Answered(tab, c, x)
  <2>1. DOMAIN tab = Fields /\ DOMAIN tab.ans = Calls
    BY DEF TabInv, TabTypes
  <2>2. IsAnswered(t, tab, c, x)
    BY <2>1, AnsweredIs
  <2> HIDE DEF t
  <2>3. /\ tab'.pc = t.pc /\ tab'.view = t.view /\ tab'.arg = t.arg /\ tab'.page = t.page
        /\ tab'.todo = t.todo /\ tab'.ans = t.ans /\ tab'.start = t.start
        /\ tab'.refused = t.refused /\ tab'.landed = t.landed
        /\ DOMAIN t.q \subseteq {"asset_id"} => DOMAIN tab'.q \subseteq {"asset_id"}
    BY <1>3, <2>2, DefaultAssetIs DEF t, IsAnswered
  <2>4. /\ tab'.pc = "loading" /\ tab'.view = tab.view /\ tab'.arg = tab.arg
        /\ tab'.page = tab.page /\ tab'.start = tab.start
        /\ tab'.refused = tab.refused /\ tab'.landed = tab.landed
        /\ DOMAIN tab.q \subseteq {"asset_id"} => DOMAIN tab'.q \subseteq {"asset_id"}
    BY <1>1, <2>2, <2>3 DEF IsAnswered
  <2>5. /\ tab'.ans["block"] = (IF c = "block" THEN x ELSE tab.ans["block"])
        /\ tab'.ans["tx"] = (IF c = "tx" THEN x ELSE tab.ans["tx"])
        /\ "block" \in tab'.todo <=> "block" \in tab.todo /\ c # "block"
        /\ "tx" \in tab'.todo <=> "tx" \in tab.todo /\ c # "tx"
    BY <2>2, <2>3, ThenAre DEF IsAnswered, Calls
  <2>6. /\ c = "block" => x = OneOf(Block(stored, tab.arg))
        /\ c = "tx" => x = OneOf(TransactionHash(stored, tab.arg))
    BY <1>1, AnswersAre
  <2>7. /\ c = "block" /\ x = None => Block(tab.start, tab.arg) = {} /\ tab.arg \notin stored
        /\ c = "tx" /\ x = None => /\ TransactionHash(tab.start, tab.arg) = {}
                                   /\ ~ \E r \in StoredTxns : r.hash = tab.arg
    BY <2>6, NothingStored
  <2>8. StoredTxns' = StoredTxns
    BY <1>1 DEF StoredTxns
  <2>9. Searching'
    BY <1>1, <2>4, <2>5, <2>7 DEF SearchInv, Searching
  <2>10. Landed'
    BY <1>1, <2>4, <2>5, <2>7, <2>8 DEF SearchInv, Landed
  <2>11. QED
    BY <2>9, <2>10 DEF SearchInv
<1>4. QED
  BY <1>2, <1>3, AnswerFields

LEMMA SearchOnward ==
  ASSUME TabInv, TabInv', Click \/ Submit \/ Reset
  PROVE  SearchInv'
<1>1. \E q, k : LET t == Load(tab.view, tab.arg, q, k) IN
         \/ \E w, s, r : tab' = [t EXCEPT !.walk = w, !.start = s, !.seen = r]
         \/ tab' = [t EXCEPT !.walk = TRUE]
  <2>1. CASE Click
    <3>1. PICK k \in Links(tab) :
            tab' = [Load(tab.view, tab.arg, tab.q, PageOf(k)) EXCEPT
                     !.walk = tab.walk /\ k = tab.page + 1,
                     !.start = IF tab.walk /\ k = tab.page + 1 THEN tab.start ELSE @,
                     !.seen = IF tab.walk /\ k = tab.page + 1 THEN tab.seen ELSE @]
      BY <2>1 DEF Click
    <3>2. QED
      BY <3>1
  <2>2. CASE Submit \/ Reset
    BY <2>2 DEF Submit, Reset, FormLeadsTo
  <2>3. QED
    BY <2>1, <2>2
<1>2. PICK q, k : LET t == Load(tab.view, tab.arg, q, k) IN
         \/ \E w, s, r : tab' = [t EXCEPT !.walk = w, !.start = s, !.seen = r]
         \/ tab' = [t EXCEPT !.walk = TRUE]
  BY <1>1
<1> DEFINE t == Load(tab.view, tab.arg, q, k)
<1>3. Loads(t, tab.view, tab.arg, q, k)
  BY LoadIs
<1> HIDE DEF t
<1>4. /\ tab'.pc = "loading" /\ tab'.view = t.view /\ tab'.arg = t.arg /\ tab'.todo = t.todo
      /\ tab'.refused = t.refused /\ tab'.landed = t.landed
  BY <1>2, <1>3 DEF t, Loads, Fields
<1>5. tab'.todo = FirstCalls(tab'.view, tab'.arg) \/ tab'.view # "search"
  BY <1>3, <1>4 DEF Loads
<1>6. ~tab'.refused /\ ~tab'.landed
  BY <1>3, <1>4 DEF Loads
<1>7. QED
  BY <1>4, <1>5, <1>6, LoadSearches

LEMMA SearchNext == TabInv /\ SearchInv /\ [Next]_vars => SearchInv'
<1> SUFFICES ASSUME TabInv, SearchInv, [Next]_vars, ~tab'.refused PROVE SearchInv'
  BY DEF SearchInv
<1>1. TabInv'
  BY TabNext
<1>2. ASSUME tab' = tab, stored \subseteq stored' PROVE SearchInv'
  <2>1. StoredTxns \subseteq StoredTxns'
    BY <1>2 DEF StoredTxns
  <2>2. Searching' /\ Landed'
    BY <1>2, <2>1 DEF SearchInv, Searching, Landed, FoundNothing
  <2>3. QED
    BY <2>2 DEF SearchInv
<1>3. ASSUME NEW n \in Numbers, Store(n) PROVE SearchInv'
  BY <1>2, <1>3 DEF Store
<1>4. ASSUME NEW v \in Views, NEW a \in Args(v), NEW q \in Filters[v], NEW k \in UserPages,
             Visit(v, a, q, k)
      PROVE  SearchInv'
  <2> DEFINE t == Load(v, a, q, PageOf(k))
  <2>1. Loads(t, v, a, q, PageOf(k)) /\ tab' = [t EXCEPT !.walk = PageOf(k) = 1]
    BY <1>4, LoadIs DEF Visit
  <2> HIDE DEF t
  <2>2. /\ tab'.pc = "loading" /\ tab'.view = v /\ tab'.arg = a /\ tab'.todo = t.todo
        /\ tab'.landed = t.landed
        /\ t.todo = FirstCalls(v, a) \/ v # "search"
    BY <2>1 DEF Loads, Fields
  <2>3. ~tab'.landed
    BY <2>1, <2>2 DEF Loads
  <2>4. QED
    BY <1>1, <2>2, <2>3, LoadSearches
<1>5. CASE Click \/ Submit \/ Reset
  BY <1>1, <1>5, SearchOnward
<1>6. ASSUME NEW c \in Calls, Answer(c) PROVE SearchInv'
  BY <1>1, <1>6, SearchAnswer
<1>7. ASSUME NEW c \in Calls, Refuse(c) PROVE SearchInv'
  BY <1>1, <1>7, TabNext, RefuseStep, ChartNext DEF TabInv
<1>8. CASE Render
  <2>1. /\ tab'.refused = tab.refused /\ tab'.landed = tab.landed
        /\ tab'.view = tab.view /\ tab'.arg = tab.arg /\ tab'.start = tab.start
        /\ \/ tab'.pc = "shown" /\ tab'.page = tab.page /\ tab'.q = tab.q /\ tab'.ans = tab.ans
           \/ tab'.pc = "error" /\ tab.view = "block" /\ tab.ans["block"] = None
           \/ tab'.pc = "notfound" /\ tab.view = "tx" /\ tab.ans["tx"] = None
        /\ tab'.todo = {} /\ ChartInv'
    BY <1>1, <1>8, RenderStep DEF TabInv
  <2>2. tab.todo = {} /\ tab.view # "search" /\ StoredTxns' = StoredTxns /\ stored' = stored
    BY <1>8 DEF Render, StoredTxns
  <2>3. ~tab.refused
    BY <2>1
  <2>4. Searching'
    BY <2>1, <2>2 DEF Searching
  <2>5. Landed'
    BY <2>1, <2>2, <2>3 DEF SearchInv, Landed
  <2>6. QED
    BY <2>4, <2>5 DEF SearchInv
<1>9. CASE Redirect
  <2>1. /\ tab'.refused = tab.refused
        /\ \/ /\ tab'.pc = "notfound" /\ tab'.view = "search" /\ tab'.todo = {}
              /\ tab'.arg = tab.arg /\ tab'.start = tab.start /\ tab'.landed = tab.landed
              /\ tab.arg \notin Addresses /\ tab.ans["block"] = None /\ tab.ans["tx"] = None
           \/ /\ tab'.pc = "loading" /\ tab'.page = 1 /\ tab'.q = NoFilter
              /\ tab'.todo = FirstCalls(tab'.view, tab'.arg)
              /\ \/ tab'.view = "address"
                 \/ tab'.view = "block" /\ tab'.arg \in stored
                 \/ tab'.view = "tx" /\ \E r \in StoredTxns : r.hash = tab'.arg
    BY <1>1, <1>9, RedirectStep DEF TabInv
  <2>2. /\ tab.todo = {} /\ tab.view = "search" /\ tab.pc = "loading"
        /\ StoredTxns' = StoredTxns /\ stored' = stored
    BY <1>9 DEF Redirect, StoredTxns
  <2>3. Searching /\ Landed /\ ~tab.landed
    BY <2>1, <2>2 DEF SearchInv, Landed
  <2>4. "block" \in FirstCalls("block", tab'.arg) /\ "tx" \in FirstCalls("tx", tab'.arg)
        /\ DOMAIN NoFilter = {}
    BY NoFilterFilters DEF FirstCalls
  <2>5. Searching'
    BY <2>1, <2>2, <2>3 DEF Searching, FoundNothing
  <2>6. Landed'
    BY <2>1, <2>2, <2>3, <2>4 DEF Landed
  <2>7. QED
    BY <2>5, <2>6 DEF SearchInv
<1>10. ASSUME Refresh \/ \E g \in Flights : Compute(g) PROVE SearchInv'
  BY <1>2, <1>10 DEF Refresh, Compute
<1>11. ASSUME NEW g \in Flights, Cache(g) \/ FlightFails(g) PROVE SearchInv'
  <2>1. stored' = stored /\ ChartInv'
    BY <1>1, <1>11 DEF Cache, FlightFails, TabInv
  <2>2. CASE tab' = tab
    BY <1>2, <2>1, <2>2
  <2>3. CASE tab' # tab
    <3>1. tab.view = "home" /\ tab'.view = "home" /\ tab'.landed = tab.landed
          /\ tab'.refused = tab.refused
      BY <1>11, <2>1, <2>3, CacheStep, FailsStep
    <3>2. QED
      BY <3>1 DEF SearchInv, Searching, Landed
  <2>4. QED
    BY <2>2, <2>3
<1>12. CASE UNCHANGED vars
  BY <1>2, <1>12 DEF vars
<1>13. QED
  BY <1>3, <1>4, <1>5, <1>6, <1>7, <1>8, <1>9, <1>10, <1>11, <1>12 DEF Next, TabStep, ChartStep

LEMMA SearchInit == Init => SearchInv
  BY BlankIs DEF Init, SearchInv, Searching, Landed

\* A search that ends in 404 has found nothing that was stored when it began, and
\* one that finds something leads to a page that shows it, whatever is saved
\* between its requests: unless a request was refused or lost.
THEOREM SearchLandsInvariant == Spec => []SearchLands
<1>1. SearchInv => SearchLands
  BY DEF SearchInv, SearchLands, Searching, Landed, FoundNothing
<1>2. Init => TabInv /\ SearchInv
  BY TabInit, SearchInit
<1>3. TabInv /\ SearchInv /\ [Next]_vars => (TabInv /\ SearchInv)'
  BY TabNext, SearchNext
<1>4. QED
  BY <1>1, <1>2, <1>3, PTL DEF Spec

(***************************************************************************)
(* The order of a list, and its pages                                      *)
(***************************************************************************)
BlockOrder == {p \in Numbers \X Numbers : BlockBefore(p[1], p[2])}
TxnOrder   == {p \in Row \X Row : TxnBefore(p[1], p[2])}
AssetOrder == {p \in Assets \X Assets : AssetBefore(p[1], p[2])}

Order(t)    == CASE t.view = "blocks" -> BlockOrder [] t.view = "tokens" -> AssetOrder
                 [] OTHER -> TxnOrder
Universe(t) == CASE t.view = "blocks" -> Numbers [] t.view = "tokens" -> Assets [] OTHER -> Row

Window(q) == (GetPage(q) - 1) * GetLimit(q) + 1..GetPage(q) * GetLimit(q)

LEMMA OrdersAreWeak ==
  \A t : WeakOrder(Order(t), Universe(t)) /\ IsFiniteSet(Universe(t))
<1>1. WeakOrder(BlockOrder, Numbers)
  <2>1. Numbers \subseteq Int
    BY ApiAssumption
  <2>2. QED
    BY <2>1 DEF WeakOrder, BlockOrder, BlockBefore
<1>2. WeakOrder(TxnOrder, Row)
  <2>1. \A r \in Row : r.block \in Int /\ r.index \in Int
    <3>1. Numbers \subseteq Int /\ \A r \in Row : r.block \in Numbers /\ r.index \in Int
      BY ApiAssumption
    <3>2. QED
      BY <3>1
  <2>2. \A r, s \in Row : <<r, s>> \in TxnOrder <=>
            r.block > s.block \/ (r.block = s.block /\ r.index < s.index)
    BY DEF TxnOrder, TxnBefore
  <2> HIDE DEF TxnOrder
  <2>3. QED
    BY <2>1, <2>2 DEF WeakOrder
<1>3. WeakOrder(AssetOrder, Assets)
  <2>1. \A a \in Assets : a.id \in Int
    BY ApiAssumption
  <2>2. \A a, b \in Assets : <<a, b>> \in AssetOrder <=> a.id < b.id
    BY DEF AssetOrder, AssetBefore
  <2>3. QED
    BY <2>1, <2>2 DEF WeakOrder
<1>4. QED
  BY <1>1, <1>2, <1>3, TablesFinite, ApiAssumption DEF Order, Universe

LEMMA ListedIn ==
  ASSUME NEW t, NEW S \in SUBSET Numbers, NEW q
  PROVE  /\ Listed(t, S, q) \in SUBSET Universe(t)
         /\ IsFiniteSet(Listed(t, S, q)) /\ Cardinality(Listed(t, S, q)) \in Nat
<1>1. Blocks(S, q) \subseteq Numbers /\ AssetList(S, q) \subseteq Assets
  BY DEF Blocks, AssetList
<1>2. /\ TransactionList(S, q) \subseteq Row /\ BlockTransactions(S, t.arg, q) \subseteq Row
      /\ TransactionInternal(S, t.arg, q) \subseteq Row
      /\ AddressTransactions(S, t.arg, q) \subseteq Row
  BY DEF TransactionList, BlockTransactions, TransactionInternal, AddressTransactions, Selected,
         CombinedTxns, Row
<1>3. Listed(t, S, q) \in SUBSET Universe(t)
  BY <1>1, <1>2 DEF Listed, Universe
<1>4. IsFiniteSet(Listed(t, S, q))
  BY <1>3, OrdersAreWeak, FS_Subset
<1>5. QED
  BY <1>3, <1>4, FS_CardinalityType

\* The pages that LIMIT and OFFSET may return, by the order as a set.
LEMMA TxnPages ==
  ASSUME NEW rows \in SUBSET Row, NEW q, NEW P \in PossiblePages(rows, TxnBefore, q)
  PROVE  IsPage(P, rows, TxnOrder, Window(q))
<1>1. \A r \in rows : /\ RowsBefore(rows, TxnOrder, r) = {s \in rows : TxnBefore(s, r)}
                      /\ RowsTied(rows, TxnOrder, r)
                           = {s \in rows : ~TxnBefore(r, s) /\ ~TxnBefore(s, r)}
  BY DEF RowsBefore, RowsTied, TxnOrder
<1>2. QED
  BY <1>1 DEF PossiblePages, IsPage, PlacesShared, Window

LEMMA BlockPages ==
  ASSUME NEW rows \in SUBSET Numbers, NEW q, NEW P \in PossiblePages(rows, BlockBefore, q)
  PROVE  IsPage(P, rows, BlockOrder, Window(q))
<1>1. \A r \in rows : /\ RowsBefore(rows, BlockOrder, r) = {s \in rows : BlockBefore(s, r)}
                      /\ RowsTied(rows, BlockOrder, r)
                           = {s \in rows : ~BlockBefore(r, s) /\ ~BlockBefore(s, r)}
  BY DEF RowsBefore, RowsTied, BlockOrder
<1>2. QED
  BY <1>1 DEF PossiblePages, IsPage, PlacesShared, Window

LEMMA AssetPages ==
  ASSUME NEW rows \in SUBSET Assets, NEW q, NEW P \in PossiblePages(rows, AssetBefore, q)
  PROVE  IsPage(P, rows, AssetOrder, Window(q))
<1>1. \A r \in rows : /\ RowsBefore(rows, AssetOrder, r) = {s \in rows : AssetBefore(s, r)}
                      /\ RowsTied(rows, AssetOrder, r)
                           = {s \in rows : ~AssetBefore(r, s) /\ ~AssetBefore(s, r)}
  BY DEF RowsBefore, RowsTied, AssetOrder
<1>2. QED
  BY <1>1 DEF PossiblePages, IsPage, PlacesShared, Window

LEMMA ListPage ==
  ASSUME stored \in SUBSET Numbers, NEW t, t.view # "tx", NEW x \in ListPages(t)
  PROVE  IsPage(x, Listed(t, stored, t.q), Order(t), Window(Query(t)))
<1> DEFINE rows == Listed(t, stored, t.q)
<1>1. rows \in SUBSET Universe(t)
  BY ListedIn
<1>2. /\ t.view = "blocks" => x \in PossiblePages(rows, BlockBefore, Query(t))
      /\ t.view = "tokens" => x \in PossiblePages(rows, AssetBefore, Query(t))
      /\ t.view \notin {"blocks", "tokens"} => x \in PossiblePages(rows, TxnBefore, Query(t))
  BY DEF ListPages
<1> HIDE DEF rows
<1>3. CASE t.view = "blocks"
  BY <1>1, <1>2, <1>3, BlockPages DEF Order, Universe, rows
<1>4. CASE t.view = "tokens"
  BY <1>1, <1>2, <1>4, AssetPages DEF Order, Universe, rows
<1>5. CASE t.view \notin {"blocks", "tokens"}
  BY <1>1, <1>2, <1>5, TxnPages DEF Order, Universe, rows
<1>6. QED
  BY <1>3, <1>4, <1>5

\* A filter is not about pages: the page and its size are the portal's.
PageParams == {"page", "pageNumber", "limit"}

LEMMA QueryIs ==
  ASSUME NEW t, DOMAIN t.q \cap PageParams = {}, t.page \in Int, t.view # "tx"
  PROVE  /\ GetPage(Query(t)) = IF t.view = "block" THEN 1 ELSE t.page
         /\ GetLimit(Query(t)) = IF t.view = "block" THEN DetailSize ELSE PageSize
<1>1. /\ PageSize \in Int /\ PageSize > 0 /\ PageSize <= MaxLimit
      /\ DetailSize \in Int /\ DetailSize > 0 /\ DetailSize <= MaxLimit
      /\ MaxLimit \in Int /\ NoNumber \notin Int
  BY ApiAssumption, PortalAssumption
<1>2. \A l \in Int : l > 0 /\ l <= MaxLimit => Min({l, MaxLimit}) = l
  BY <1>1, MinOfTwo
<1>3. CASE t.view = "block"
  <2>1. Query(t) = With(t.q, [pageNumber |-> t.page, limit |-> DetailSize])
    BY <1>3 DEF Query
  <2>2. "page" \notin DOMAIN Query(t) /\ "limit" \in DOMAIN Query(t) /\ Query(t).limit = DetailSize
    BY <2>1 DEF With, PageParams
  <2>3. Param(Query(t), "page", NoNumber) = NoNumber /\ Param(Query(t), "limit", NoNumber) = DetailSize
    BY <2>2 DEF Param
  <2>4. QED
    BY <1>1, <1>2, <1>3, <2>3 DEF GetPage, GetLimit
<1>4. CASE t.view # "block"
  <2>1. Query(t) = With(t.q, [page |-> t.page, limit |-> PageSize])
    BY <1>4 DEF Query
  <2>2. /\ "page" \in DOMAIN Query(t) /\ Query(t).page = t.page
        /\ "limit" \in DOMAIN Query(t) /\ Query(t).limit = PageSize
    BY <2>1 DEF With, PageParams
  <2>3. Param(Query(t), "page", NoNumber) = t.page /\ Param(Query(t), "limit", NoNumber) = PageSize
    BY <2>2 DEF Param
  <2>4. QED
    BY <1>1, <1>2, <1>4, <2>2, <2>3 DEF GetPage, GetLimit
<1>5. QED
  BY <1>3, <1>4

\* The window of a page as a stretch after an offset.
LEMMA WindowIs ==
  ASSUME NEW q, NEW k \in Int, NEW l \in Nat, k >= 1, GetPage(q) = k, GetLimit(q) = l
  PROVE  Window(q) = (k - 1) * l + 1..(k - 1) * l + l /\ (k - 1) * l \in Nat
<1>1. (k - 1) * l + l = k * l
  OBVIOUS
<1>2. (k - 1) * l \in Nat
  <2>1. k - 1 \in Nat
    OBVIOUS
  <2>2. \A m, n \in Nat : m * n \in Nat
    OBVIOUS
  <2>3. QED
    BY <2>1, <2>2
<1>3. QED
  BY <1>1, <1>2 DEF Window

(***************************************************************************)
(* The steps of the tab                                                    *)
(***************************************************************************)
QueryOK == DOMAIN tab.q \cap PageParams = {}

\* A page begins to load, fresh, or as the next one that a user reads on to.
Begins ==
    /\ stored' = stored /\ tab'.pc = "loading"
    /\ tab'.todo = FirstCalls(tab'.view, tab'.arg) \/ tab'.view = "home"
    /\ \A c \in Calls \ {"chart"} : tab'.ans[c] = None
    /\ ~tab'.early

BeginsAfresh ==
    /\ Begins /\ DOMAIN tab'.q \cap PageParams = {}
    /\ tab'.start = stored /\ tab'.seen = {} /\ (tab'.walk => tab'.page = 1)

ReadsOn ==
    /\ Begins /\ tab.pc = "shown" /\ tab.walk /\ tab'.page = PageOf(tab.page + 1)
    /\ tab'.view = tab.view /\ tab'.arg = tab.arg /\ tab'.q = tab.q
    /\ tab'.start = tab.start /\ tab'.seen = tab.seen

\* The answer to c is x.
Receives(c, x) ==
    /\ stored' = stored /\ c \in tab.todo \ {"chart"}
    /\ tab'.pc = tab.pc /\ tab'.view = tab.view /\ tab'.arg = tab.arg /\ tab'.page = tab.page
    /\ tab'.todo = (tab.todo \ {c}) \cup Then(tab.view, c)
    /\ \A d \in Calls : tab'.ans[d] = IF d = c THEN x ELSE tab.ans[d]
    /\ tab'.start = tab.start /\ (tab'.walk <=> tab.walk)
    /\ tab'.seen = IF c = "rows" /\ tab.walk THEN tab.seen \cup x ELSE tab.seen
    /\ tab'.early <=> IF c = Main(tab.view) THEN tab.todo # FirstCalls(tab.view, tab.arg)
                      ELSE tab.early

AnswerOf(c, x) ==
    /\ Receives(c, x) /\ x \in Answers(tab, c) /\ ~(c = "rows" /\ ListRefused(tab))
    /\ \/ tab'.q = tab.q
       \/ /\ tab.view = "address" /\ "asset_id" \notin DOMAIN tab.q
          /\ tab'.ans["balances"] \notin {None, {}}
          /\ \E a : tab'.q = With(tab.q, [asset_id |-> a])
    /\ tab.view = "address" /\ "asset_id" \notin DOMAIN tab'.q => tab'.ans["balances"] \in {None, {}}

NoAnswerOf(c) == Receives(c, None) /\ c \in {"block", "tx"} /\ tab'.q = tab.q

Rendered ==
    /\ stored' = stored /\ tab.todo = {} /\ tab.pc = "loading" /\ tab'.pc = "shown"
    /\ tab.view = "block" => tab.ans["block"] # None
    /\ tab.view = "tx" => tab.ans["tx"] # None
    /\ tab'.view = tab.view /\ tab'.arg = tab.arg /\ tab'.page = tab.page /\ tab'.q = tab.q
    /\ tab'.todo = {} /\ tab'.ans = tab.ans /\ tab'.start = tab.start /\ tab'.seen = tab.seen
    /\ (tab'.walk <=> tab.walk) /\ (tab'.early <=> tab.early)

Gone == tab'.pc \in {"error", "notfound"} /\ tab'.q = NoFilter

\* The chart, for the home page.
AtHome == tab'.view = "home" /\ tab'.q = tab.q

Stays == tab' = tab /\ stored \subseteq stored'

LEMMA DefaultAssetQuery ==
  ASSUME NEW t, DOMAIN t = Fields
  PROVE  /\ \/ DefaultAsset(t).q = t.q
            \/ /\ t.view = "address" /\ "asset_id" \notin DOMAIN t.q
               /\ t.ans["balances"] \notin {None, {}}
               /\ \E a : DefaultAsset(t).q = With(t.q, [asset_id |-> a])
         /\ t.view = "address" /\ "asset_id" \notin DOMAIN DefaultAsset(t).q =>
               t.ans["balances"] \in {None, {}}
<1>1. CASE t.view = "address" /\ "asset_id" \notin DOMAIN t.q /\ t.ans["balances"] \notin {None, {}}
  <2>1. PICK a : a = {Min(t.ans["balances"])}
    OBVIOUS
  <2>2. DefaultAsset(t).q = With(t.q, [asset_id |-> a])
    BY <1>1, <2>1 DEF DefaultAsset, Fields
  <2>3. "asset_id" \in DOMAIN With(t.q, [asset_id |-> a])
    BY DEF With
  <2>4. QED
    BY <1>1, <2>2, <2>3
<1>2. CASE ~(t.view = "address" /\ "asset_id" \notin DOMAIN t.q /\ t.ans["balances"] \notin {None, {}})
  <2>1. DefaultAsset(t) = t
    BY <1>2 DEF DefaultAsset
  <2>2. QED
    BY <1>2, <2>1
<1>3. QED
  BY <1>1, <1>2

LEMMA AnswerIs ==
  ASSUME TabInv, NEW c \in Calls, Answer(c)
  PROVE  Gone \/ \E x : AnswerOf(c, x)
<1>1. c \in tab.todo \ {"chart"} /\ stored' = stored
  BY AnswerFields
<1>2. CASE tab' = Failed(tab)
  BY <1>2, FailedIs DEF Gone
<1>3. ASSUME NEW x \in Answers(tab, c), tab' = DefaultAsset(Answered(tab, c, x)),
             ~(c = "rows" /\ ListRefused(tab))
      PROVE  AnswerOf(c, x)
  <2> DEFINE t == Answered(tab, c, x)
  <2>1. DOMAIN tab = Fields /\ DOMAIN tab.ans = Calls
    BY DEF TabInv, TabTypes
  <2>2. IsAnswered(t, tab, c, x)
    BY <2>1, AnsweredIs
  <2> HIDE DEF t
  <2>3. /\ tab'.pc = t.pc /\ tab'.view = t.view /\ tab'.arg = t.arg /\ tab'.page = t.page
        /\ tab'.todo = t.todo /\ tab'.ans = t.ans /\ tab'.start = t.start
        /\ tab'.seen = t.seen /\ tab'.walk = t.walk /\ tab'.early = t.early
    BY <1>3, <2>2, DefaultAssetIs DEF t, IsAnswered
  <2>4. Receives(c, x)
    BY <1>1, <2>2, <2>3 DEF Receives, IsAnswered
  <2>5. t.q = tab.q /\ t.view = tab.view /\ DOMAIN t = Fields
    BY <2>2 DEF IsAnswered
  <2>6. /\ \/ tab'.q = t.q
           \/ /\ t.view = "address" /\ "asset_id" \notin DOMAIN t.q
              /\ t.ans["balances"] \notin {None, {}}
              /\ \E a : tab'.q = With(t.q, [asset_id |-> a])
        /\ t.view = "address" /\ "asset_id" \notin DOMAIN tab'.q => t.ans["balances"] \in {None, {}}
    BY <1>3, <2>5, DefaultAssetQuery DEF t
  <2>7. QED
    BY <1>3, <2>3, <2>4, <2>5, <2>6 DEF AnswerOf
<1>4. QED
  BY <1>2, <1>3, AnswerFields

LEMMA RefuseIs ==
  ASSUME TabInv, NEW c \in Calls, Refuse(c)
  PROVE  Gone \/ NoAnswerOf(c)
<1>1. c \in tab.todo \ {"chart"} /\ stored' = stored
  BY DEF Refuse
<1>2. CASE c \in {"block", "tx"}
  <2> DEFINE t == Answered(tab, c, None)
  <2>1. DOMAIN tab = Fields /\ DOMAIN tab.ans = Calls
    BY DEF TabInv, TabTypes
  <2>2. IsAnswered(t, tab, c, None)
    BY <2>1, AnsweredIs
  <2>3. tab' = [t EXCEPT !.refused = TRUE]
    BY <1>2 DEF Refuse
  <2> HIDE DEF t
  <2>4. /\ tab'.pc = t.pc /\ tab'.view = t.view /\ tab'.arg = t.arg /\ tab'.page = t.page
        /\ tab'.todo = t.todo /\ tab'.ans = t.ans /\ tab'.start = t.start
        /\ tab'.seen = t.seen /\ tab'.walk = t.walk /\ tab'.early = t.early /\ tab'.q = t.q
    BY <2>2, <2>3 DEF Fields, IsAnswered
  <2>5. Receives(c, None)
    BY <1>1, <2>2, <2>4 DEF Receives, IsAnswered
  <2>6. QED
    BY <1>2, <2>2, <2>4, <2>5 DEF NoAnswerOf, IsAnswered
<1>3. CASE c \notin {"block", "tx"}
  <2>1. tab' = [Failed(tab) EXCEPT !.refused = TRUE]
    BY <1>3 DEF Refuse
  <2>2. QED
    BY <2>1, FailedIs DEF Gone, Fields
<1>4. QED
  BY <1>2, <1>3

LEMMA NoFilterQuery ==
  /\ DOMAIN NoFilter \cap PageParams = {}
  /\ \A v \in Views : \A q \in Filters[v] : DOMAIN q \cap PageParams = {}
  BY NoFilterFilters, PortalAssumption DEF PageParams

LEMMA VisitIs ==
  ASSUME NEW v \in Views, NEW a \in Args(v), NEW q \in Filters[v], NEW k \in UserPages,
         Visit(v, a, q, k)
  PROVE  BeginsAfresh
<1> DEFINE t == Load(v, a, q, PageOf(k))
<1>1. Loads(t, v, a, q, PageOf(k)) /\ tab' = [t EXCEPT !.walk = PageOf(k) = 1] /\ stored' = stored
  BY LoadIs DEF Visit
<1> HIDE DEF t
<1>2. /\ tab'.pc = "loading" /\ tab'.view = v /\ tab'.arg = a /\ tab'.q = q
      /\ tab'.page = PageOf(k) /\ tab'.todo = t.todo /\ tab'.ans = t.ans
      /\ tab'.start = stored /\ tab'.seen = {} /\ ~tab'.early
      /\ tab'.walk => PageOf(k) = 1
  BY <1>1 DEF Loads, Fields
<1>3. tab'.todo = FirstCalls(v, a) \/ v = "home"
  BY <1>1, <1>2 DEF Loads
<1>4. Begins
  BY <1>1, <1>2, <1>3 DEF Begins, Loads
<1>5. QED
  BY <1>2, <1>4, NoFilterQuery DEF BeginsAfresh

LEMMA ClickIs ==
  ASSUME QueryOK, Click
  PROVE  BeginsAfresh \/ ReadsOn
<1>1. PICK k \in Links(tab) :
        tab' = [Load(tab.view, tab.arg, tab.q, PageOf(k)) EXCEPT
                 !.walk = tab.walk /\ k = tab.page + 1,
                 !.start = IF tab.walk /\ k = tab.page + 1 THEN tab.start ELSE @,
                 !.seen = IF tab.walk /\ k = tab.page + 1 THEN tab.seen ELSE @]
  BY DEF Click
<1> DEFINE t == Load(tab.view, tab.arg, tab.q, PageOf(k))
           on == tab.walk /\ k = tab.page + 1
<1>2. Loads(t, tab.view, tab.arg, tab.q, PageOf(k)) /\ stored' = stored /\ tab.pc = "shown"
  BY LoadIs DEF Click
<1>3. tab' = [t EXCEPT !.walk = on, !.start = IF on THEN tab.start ELSE @,
                       !.seen = IF on THEN tab.seen ELSE @]
  BY <1>1
<1> HIDE DEF t, on
<1>4. /\ tab'.pc = "loading" /\ tab'.view = tab.view /\ tab'.arg = tab.arg /\ tab'.q = tab.q
      /\ tab'.page = PageOf(k) /\ tab'.todo = t.todo /\ tab'.ans = t.ans /\ ~tab'.early
      /\ tab'.start = (IF on THEN tab.start ELSE stored)
      /\ tab'.seen = (IF on THEN tab.seen ELSE {})
      /\ tab'.walk => on
  BY <1>2, <1>3 DEF Loads, Fields
<1>5. tab'.todo = FirstCalls(tab.view, tab.arg) \/ tab.view = "home"
  BY <1>2, <1>4 DEF Loads
<1>6. Begins
  BY <1>2, <1>4, <1>5 DEF Begins, Loads
<1>7. CASE on
  BY <1>2, <1>4, <1>6, <1>7 DEF ReadsOn, on
<1>8. CASE ~on
  BY <1>4, <1>6, <1>8 DEF BeginsAfresh, QueryOK
<1>9. QED
  BY <1>7, <1>8

LEMMA FormIs ==
  ASSUME TabInv, Submit \/ Reset
  PROVE  BeginsAfresh
<1>1. PICK q : FormLeadsTo(q) /\ (q \in Entered(tab.view) \/ q = NoFilter)
  BY DEF Submit, Reset
<1>2. DOMAIN q \cap PageParams = {}
  <2>1. CASE q = NoFilter
    BY <2>1, NoFilterQuery
  <2>2. CASE q \in Entered(tab.view)
    <3>1. \/ \E p \in Filters["address"] : q = [x \in DOMAIN p \ {"asset_id"} |-> p[x]]
          \/ q \in Filters[tab.view]
      BY <2>2 DEF Entered
    <3>2. tab.view \in Views /\ "address" \in Views
      BY DEF TabInv, TabTypes, Views
    <3>3. \/ \E p \in Filters["address"] : DOMAIN q \subseteq DOMAIN p
          \/ q \in Filters[tab.view]
      BY <3>1
    <3>4. QED
      BY <3>2, <3>3, NoFilterQuery
  <2>3. QED
    BY <1>1, <2>1, <2>2
<1>3. DOMAIN With(q, KeptAsset) \cap PageParams = {}
  <2>1. DOMAIN KeptAsset \subseteq {"asset_id"}
    BY NoFilterFilters DEF KeptAsset
  <2>2. DOMAIN With(q, KeptAsset) = DOMAIN q \cup DOMAIN KeptAsset
    BY DEF With
  <2>3. QED
    BY <1>2, <2>1, <2>2 DEF PageParams
<1> DEFINE t == Load(tab.view, tab.arg, With(q, KeptAsset), 1)
<1>4. Loads(t, tab.view, tab.arg, With(q, KeptAsset), 1) /\ stored' = stored
      /\ tab' = [t EXCEPT !.walk = TRUE]
  BY <1>1, LoadIs DEF FormLeadsTo
<1> HIDE DEF t
<1>5. /\ tab'.pc = "loading" /\ tab'.view = tab.view /\ tab'.arg = tab.arg
      /\ tab'.q = With(q, KeptAsset)
      /\ tab'.page = 1 /\ tab'.todo = t.todo /\ tab'.ans = t.ans /\ ~tab'.early
      /\ tab'.start = stored /\ tab'.seen = {}
  BY <1>4 DEF Loads, Fields
<1>6. tab'.todo = FirstCalls(tab.view, tab.arg) \/ tab.view = "home"
  BY <1>4, <1>5 DEF Loads
<1>7. Begins
  BY <1>4, <1>5, <1>6 DEF Begins, Loads
<1>8. QED
  BY <1>3, <1>5, <1>7 DEF BeginsAfresh

LEMMA RenderIs ==
  ASSUME TabInv, Render
  PROVE  Gone \/ Rendered
<1>1. DOMAIN tab = Fields
  BY DEF TabInv, TabTypes
<1>2. CASE tab' = Failed(tab) \/ tab' = [Failed(tab) EXCEPT !.pc = "notfound"]
  BY <1>2, FailedIs DEF Gone, Fields
<1>3. CASE /\ tab' = [tab EXCEPT !.pc = "shown"]
           /\ tab.view = "block" => tab.ans["block"] # None
           /\ tab.view = "tx" => tab.ans["tx"] # None
  <2>1. /\ tab'.pc = "shown" /\ tab'.view = tab.view /\ tab'.arg = tab.arg
        /\ tab'.page = tab.page /\ tab'.q = tab.q /\ tab'.todo = tab.todo
        /\ tab'.ans = tab.ans /\ tab'.start = tab.start /\ tab'.seen = tab.seen
        /\ tab'.walk = tab.walk /\ tab'.early = tab.early
    BY <1>1, <1>3 DEF Fields
  <2>2. QED
    BY <1>3, <2>1 DEF Render, Rendered
<1>4. QED
  BY <1>2, <1>3 DEF Render

LEMMA RedirectIs ==
  ASSUME TabInv, Redirect
  PROVE  Gone \/ BeginsAfresh
<1>1. CASE SearchResult(tab) = <<>>
  <2>1. tab' = [Failed(tab) EXCEPT !.pc = "notfound"]
    BY <1>1 DEF Redirect
  <2>2. QED
    BY <2>1, FailedIs DEF Gone, Fields
<1>2. CASE SearchResult(tab) # <<>>
  <2>1. PICK v, a : v = SearchResult(tab)[1] /\ a = SearchResult(tab)[2]
    OBVIOUS
  <2> DEFINE t == Load(v, a, NoFilter, 1)
  <2>2. Loads(t, v, a, NoFilter, 1) /\ stored' = stored
        /\ tab' = [t EXCEPT !.walk = TRUE, !.refused = tab.refused, !.landed = TRUE]
    BY <1>2, <2>1, LoadIs DEF Redirect
  <2> HIDE DEF t
  <2>3. /\ tab'.pc = "loading" /\ tab'.view = v /\ tab'.arg = a /\ tab'.q = NoFilter
        /\ tab'.page = 1 /\ tab'.todo = t.todo /\ tab'.ans = t.ans /\ ~tab'.early
        /\ tab'.start = stored /\ tab'.seen = {}
    BY <2>2 DEF Loads, Fields
  <2>4. tab'.todo = FirstCalls(v, a) \/ v = "home"
    BY <2>2, <2>3 DEF Loads
  <2>5. Begins
    BY <2>2, <2>3, <2>4 DEF Begins, Loads
  <2>6. QED
    BY <2>3, <2>5, NoFilterQuery DEF BeginsAfresh
<1>3. QED
  BY <1>1, <1>2

LEMMA FlightIs ==
  ASSUME TabInv, NEW g \in Flights, Cache(g) \/ FlightFails(g)
  PROVE  Stays \/ AtHome \/ Gone
<1>1. CASE FlightFails(g)
  <2>1. tab' = tab \/ tab' = [Failed(tab) EXCEPT !.refused = TRUE]
    BY <1>1 DEF FlightFails
  <2>2. tab' = [Failed(tab) EXCEPT !.refused = TRUE] => Gone
    BY FailedIs DEF Gone, Fields
  <2>3. QED
    BY <1>1, <2>1, <2>2 DEF Stays, FlightFails
<1>2. CASE Cache(g)
  <2>1. CASE ~flight[g].waited
    BY <1>2, <2>1 DEF Cache, Stays
  <2>2. CASE flight[g].waited
    <3>1. tab' = Answered(tab, "chart", flight[g].of) /\ tab.view = "home"
      BY <1>2, <2>2 DEF Cache, TabInv, TabAsks, Waiting
    <3>2. DOMAIN tab = Fields /\ DOMAIN tab.ans = Calls
      BY DEF TabInv, TabTypes
    <3>3. IsAnswered(tab', tab, "chart", flight[g].of)
      BY <3>1, <3>2, AnsweredIs
    <3>4. QED
      BY <3>1, <3>3 DEF IsAnswered, AtHome
  <2>3. QED
    BY <2>1, <2>2
<1>3. QED
  BY <1>1, <1>2

LEMMA StepIs ==
  TabInv /\ QueryOK /\ [Next]_vars =>
      \/ Stays \/ AtHome \/ Gone \/ BeginsAfresh \/ ReadsOn \/ Rendered
      \/ \E c \in Calls : (\E x : AnswerOf(c, x)) \/ NoAnswerOf(c)
<1> SUFFICES ASSUME TabInv, QueryOK, [Next]_vars
             PROVE  \/ Stays \/ AtHome \/ Gone \/ BeginsAfresh \/ ReadsOn \/ Rendered
                    \/ \E c \in Calls : (\E x : AnswerOf(c, x)) \/ NoAnswerOf(c)
  OBVIOUS
<1>1. CASE \E n \in Numbers : Store(n)
  BY <1>1 DEF Store, Stays
<1>2. CASE \E v \in Views : \E a \in Args(v), q \in Filters[v], k \in UserPages : Visit(v, a, q, k)
  BY <1>2, VisitIs
<1>3. CASE Click \/ Submit \/ Reset
  BY <1>3, ClickIs, FormIs
<1>4. CASE \E c \in Calls : Answer(c) \/ Refuse(c)
  BY <1>4, AnswerIs, RefuseIs
<1>5. CASE Render \/ Redirect
  BY <1>5, RenderIs, RedirectIs
<1>6. CASE Refresh \/ \E g \in Flights : Compute(g)
  BY <1>6 DEF Refresh, Compute, Stays
<1>7. CASE \E g \in Flights : Cache(g) \/ FlightFails(g)
  BY <1>7, FlightIs
<1>8. CASE UNCHANGED vars
  BY <1>8 DEF vars, Stays
<1>9. QED
  BY <1>1, <1>2, <1>3, <1>4, <1>5, <1>6, <1>7, <1>8 DEF Next, TabStep, ChartStep

LEMMA QueryNext == TabInv /\ QueryOK /\ [Next]_vars => QueryOK'
<1> SUFFICES ASSUME TabInv, QueryOK, [Next]_vars PROVE QueryOK'
  OBVIOUS
<1>1. CASE Stays \/ AtHome \/ ReadsOn \/ Rendered
  BY <1>1 DEF Stays, AtHome, ReadsOn, Rendered, QueryOK
<1>2. CASE Gone
  BY <1>2, NoFilterQuery DEF Gone, QueryOK
<1>3. CASE BeginsAfresh
  BY <1>3 DEF BeginsAfresh, QueryOK
<1>4. ASSUME NEW c \in Calls, NoAnswerOf(c) PROVE QueryOK'
  BY <1>4 DEF NoAnswerOf, QueryOK
<1>5. ASSUME NEW c \in Calls, NEW x, AnswerOf(c, x) PROVE QueryOK'
  <2>1. CASE tab'.q = tab.q
    BY <2>1 DEF QueryOK
  <2>2. ASSUME NEW a, tab'.q = With(tab.q, [asset_id |-> a]) PROVE QueryOK'
    <3>1. DOMAIN With(tab.q, [asset_id |-> a]) = DOMAIN tab.q \cup {"asset_id"}
      BY DEF With
    <3>2. QED
      BY <2>2, <3>1 DEF QueryOK, PageParams
  <2>3. QED
    BY <1>5, <2>1, <2>2 DEF AnswerOf
<1>6. QED
  BY <1>1, <1>2, <1>3, <1>4, <1>5, StepIs

LEMMA QueryInit == Init => QueryOK
  BY BlankIs, NoFilterQuery DEF Init, QueryOK

(***************************************************************************)
(* The page of a block, and of a transaction                               *)
(***************************************************************************)
Alive == tab.pc \in {"loading", "shown"}

\* Once the block is there the rest is that of the whole block.
BlockWhole ==
    Alive /\ tab.view = "block" /\ ~tab.early /\ "block" \notin tab.todo /\ tab.ans["block"] # None =>
        LET n    == tab.ans["block"]
            rows == BlockTransactions(Numbers, n, tab.q)
        IN  /\ n \in stored /\ Identifies(tab.arg, n)
            /\ "rows" \notin tab.todo =>
                  Cardinality(tab.ans["rows"]) = Min({DetailSize, Cardinality(rows)})
            /\ "rows" \notin tab.todo /\ "total" \notin tab.todo =>
                  tab.ans["total"] = Cardinality(rows)
            /\ "assets" \notin tab.todo =>
                  tab.ans["assets"] = {} \/ BlockTransactions(Numbers, n, NoFilter) # {}

TxWhole ==
    Alive /\ tab.view = "tx" /\ ~tab.early /\ "tx" \notin tab.todo /\ tab.ans["tx"] # None =>
        LET rows == TransactionInternal(Numbers, tab.arg, tab.q)
        IN  /\ tab.ans["tx"] \in StoredTxns /\ tab.ans["tx"].hash = tab.arg
            /\ "height" \notin tab.todo =>
                  tab.ans["height"] \in Int /\ tab.ans["height"] >= tab.ans["tx"].block
            /\ "rows" \notin tab.todo => tab.ans["rows"] = rows
            /\ "rows" \notin tab.todo /\ "total" \notin tab.todo =>
                  tab.ans["total"] = Cardinality(rows)
            /\ "assets" \notin tab.todo => tab.ans["assets"] = InternalAssets(Numbers, tab.arg)

\* A number or a hash is that of one block.
LEMMA OneBlock ==
  ASSUME NEW S \in SUBSET Numbers, NEW n \in S, NEW id, Identifies(id, n), NEW q
  PROVE  BlockTransactions(S, id, q) = BlockTransactions(Numbers, n, q)
<1>1. \A m \in Numbers : BlockHash[m] \in Hashes /\ BlockHash[m] \notin Numbers
  BY PortalAssumption DEF Hashes
<1>2. \A m \in Numbers : Identifies(id, m) => m = n
  BY <1>1, ApiAssumption DEF Identifies
<1>3. \A m \in Numbers : Identifies(n, m) => m = n
  BY <1>1 DEF Identifies
<1>4. Identifies(n, n)
  BY DEF Identifies
<1>5. Block(S, id) = {n} /\ Block(Numbers, n) = {n}
  BY <1>2, <1>3, <1>4 DEF Block
<1>6. QED
  BY <1>5 DEF BlockTransactions

\* What is of the hash of a transaction is of its block.
LEMMA OneTxn ==
  ASSUME NEW S \in SUBSET Numbers, NEW r \in Transactions, r.block \in S, NEW q
  PROVE  /\ TransactionInternal(S, r.hash, q) = TransactionInternal(Numbers, r.hash, q)
         /\ InternalAssets(S, r.hash) = InternalAssets(Numbers, r.hash)
<1>1. \A s \in Traces : s.hash = r.hash => s.block = r.block
  BY ApiAssumption DEF Row
<1>2. \A p : TransactionInternal(S, r.hash, p) = TransactionInternal(Numbers, r.hash, p)
  BY <1>1 DEF TransactionInternal
<1>3. QED
  BY <1>2 DEF InternalAssets

LEMMA HeightIs ==
  ASSUME NEW S \in SUBSET Numbers
  PROVE  /\ LatestBlockNumber(S) \in Nat
         /\ \A n \in S : LatestBlockNumber(S) >= n
<1>1. S \cup {0} \in SUBSET (0..Now) /\ S \cup {0} # {} /\ Now \in Nat
  BY ApiAssumption
<1>2. Max(S \cup {0}) \in S \cup {0} /\ \A x \in S \cup {0} : Max(S \cup {0}) >= x
  BY <1>1, MaxExists
<1>3. QED
  BY <1>1, <1>2 DEF LatestBlockNumber

\* The rows of a page, of which the list has n.
LEMMA PageRows ==
  ASSUME stored \in SUBSET Numbers, QueryOK, tab.page \in Int, tab.view # "tx",
         NEW x \in ListPages(tab), tab.view = "block" \/ tab.page >= 1
  PROVE  LET o == IF tab.view = "block" THEN 0 ELSE (tab.page - 1) * PageSize
             l == IF tab.view = "block" THEN DetailSize ELSE PageSize
             n == Cardinality(Listed(tab, stored, tab.q))
         IN  /\ o \in Nat /\ l \in Nat /\ l > 0 /\ n \in Nat
             /\ IsPage(x, Listed(tab, stored, tab.q), Order(tab), o + 1..o + l)
             /\ Cardinality(x) = IF n <= o THEN 0 ELSE IF n <= o + l THEN n - o ELSE l
<1> DEFINE o == IF tab.view = "block" THEN 0 ELSE (tab.page - 1) * PageSize
           l == IF tab.view = "block" THEN DetailSize ELSE PageSize
           k == IF tab.view = "block" THEN 1 ELSE tab.page
           rows == Listed(tab, stored, tab.q)
           w == Window(Query(tab))
<1>1. l \in Nat /\ l > 0 /\ k \in Int /\ k >= 1
  BY ApiAssumption, PortalAssumption
<1>2. GetPage(Query(tab)) = k /\ GetLimit(Query(tab)) = l
  BY QueryIs DEF QueryOK
<1>3. o = (k - 1) * l
  <2>1. tab.view # "block" => l = PageSize
    OBVIOUS
  <2> HIDE DEF l
  <2>2. (1 - 1) * l = 0
    BY <1>1
  <2>3. QED
    BY <2>1, <2>2
<1> HIDE DEF l, k, o
<1>4. w = o + 1..o + l /\ o \in Nat
  BY <1>1, <1>2, <1>3, WindowIs
<1>5. IsPage(x, rows, Order(tab), w)
  BY ListPage
<1>6. rows \in SUBSET Universe(tab) /\ IsFiniteSet(rows) /\ Cardinality(rows) \in Nat
  BY ListedIn
<1> HIDE DEF rows, w
<1>7. Cardinality(x) = IF Cardinality(rows) <= o THEN 0
                       ELSE IF Cardinality(rows) <= o + l THEN Cardinality(rows) - o ELSE l
  BY <1>1, <1>4, <1>5, <1>6, OrdersAreWeak, PageIs
<1>8. QED
  BY <1>1, <1>4, <1>5, <1>6, <1>7 DEF o, l, rows

\* An answer to the page of a block.
LEMMA BlockReceives ==
  ASSUME TabInv, QueryOK, BlockWhole, NEW c \in Calls, NEW x,
         AnswerOf(c, x) \/ (NoAnswerOf(c) /\ x = None)
  PROVE  BlockWhole'
<1> SUFFICES ASSUME Alive', tab'.view = "block", ~tab'.early, "block" \notin tab'.todo,
                    tab'.ans["block"] # None
             PROVE  LET n    == tab'.ans["block"]
                        rows == BlockTransactions(Numbers, n, tab'.q)
                    IN  /\ n \in stored' /\ Identifies(tab'.arg, n)
                        /\ "rows" \notin tab'.todo =>
                              Cardinality(tab'.ans["rows"]) = Min({DetailSize, Cardinality(rows)})
                        /\ "rows" \notin tab'.todo /\ "total" \notin tab'.todo =>
                              tab'.ans["total"] = Cardinality(rows)
                        /\ "assets" \notin tab'.todo =>
                              tab'.ans["assets"] = {} \/ BlockTransactions(Numbers, n, NoFilter) # {}
  BY DEF BlockWhole
<1>1. Receives(c, x)
  BY DEF AnswerOf, NoAnswerOf
<1>2. /\ stored' = stored /\ c \in tab.todo /\ tab'.arg = tab.arg /\ tab.view = "block"
      /\ tab'.pc = tab.pc /\ tab'.todo = (tab.todo \ {c}) \cup Then("block", c)
      /\ \A d \in Calls : tab'.ans[d] = IF d = c THEN x ELSE tab.ans[d]
      /\ (c = "block" => tab.todo = FirstCalls("block", tab.arg))
      /\ (c # "block" => ~tab.early)
  BY <1>1 DEF Receives, Main
<1>3. tab'.q = tab.q
  BY <1>2 DEF AnswerOf, NoAnswerOf
<1>4. /\ {"block", "rows", "total", "assets"} \subseteq Calls
      /\ Then("block", "rows") = {"total"} /\ (c # "rows" => Then("block", c) = {})
      /\ FirstCalls("block", tab.arg) = {"block", "rows", "assets"}
  BY DEF Calls, Then, FirstCalls
<1>5. tab.arg \in Args("block") /\ stored \in SUBSET Numbers /\ tab.pc = "loading"
  BY <1>2 DEF TabInv, TabTypes, ChartInv, ChartTypes
<1>6. CASE c = "block"
  <2>1. x # None /\ tab'.ans["block"] = x
    BY <1>2, <1>4, <1>6
  <2>2. x = OneOf(Block(stored, tab.arg)) /\ x \in stored \cup {None}
    BY <1>1, <1>6, <2>1, AnswersAre DEF AnswerOf, Receives
  <2>3. x \in stored /\ Identifies(tab.arg, x)
    <3>1. Block(stored, tab.arg) # {}
      BY <2>1, <2>2 DEF OneOf
    <3>2. x \in Block(stored, tab.arg)
      BY <2>2, <3>1, OneOfIs
    <3>3. QED
      BY <3>2 DEF Block
  <2>4. "rows" \in tab'.todo /\ "assets" \in tab'.todo
    BY <1>2, <1>4, <1>6
  <2>5. QED
    BY <1>2, <2>1, <2>3, <2>4
<1>7. CASE c # "block"
  <2> DEFINE n == tab.ans["block"]
  <2>1. tab'.ans["block"] = n /\ n # None /\ "block" \notin tab.todo /\ ~tab.early /\ Alive
    BY <1>2, <1>4, <1>5, <1>7 DEF Alive
  <2>2. /\ n \in stored /\ Identifies(tab.arg, n)
        /\ "rows" \notin tab.todo =>
              Cardinality(tab.ans["rows"])
                = Min({DetailSize, Cardinality(BlockTransactions(Numbers, n, tab.q))})
        /\ "rows" \notin tab.todo /\ "total" \notin tab.todo =>
              tab.ans["total"] = Cardinality(BlockTransactions(Numbers, n, tab.q))
        /\ "assets" \notin tab.todo =>
              tab.ans["assets"] = {} \/ BlockTransactions(Numbers, n, NoFilter) # {}
    BY <1>2, <2>1 DEF BlockWhole
  <2>3. Listed(tab, stored, tab.q) = BlockTransactions(Numbers, n, tab.q)
        /\ BlockTransactions(stored, tab.arg, NoFilter) = BlockTransactions(Numbers, n, NoFilter)
    BY <1>2, <1>5, <2>2, OneBlock DEF Listed
  <2>4. CASE c = "rows"
    <3>1. x \in ListPages(tab)
      BY <1>2, <2>4 DEF AnswerOf, NoAnswerOf, Answers
    <3>2. LET k == Cardinality(Listed(tab, stored, tab.q))
          IN  k \in Nat /\ Cardinality(x) = IF k <= 0 THEN 0 ELSE IF k <= 0 + DetailSize THEN k - 0
                                            ELSE DetailSize
      BY <1>2, <1>5, <3>1, PageRows DEF TabInv, TabTypes
    <3>3. DetailSize \in Nat
      BY ApiAssumption, PortalAssumption
    <3>4. Cardinality(x) = Min({DetailSize, Cardinality(Listed(tab, stored, tab.q))})
      BY <3>2, <3>3, MinOfTwo
    <3>5. tab'.ans["rows"] = x /\ tab'.ans["assets"] = tab.ans["assets"] /\ "total" \in tab'.todo
          /\ ("assets" \notin tab'.todo => "assets" \notin tab.todo)
      BY <1>2, <1>4, <2>4
    <3>6. QED
      BY <1>2, <1>3, <2>1, <2>2, <2>3, <3>4, <3>5
  <2>5. CASE c = "total"
    <3>1. x = Cardinality(Listed(tab, stored, tab.q))
      BY <1>2, <2>5 DEF AnswerOf, NoAnswerOf, Answers
    <3>2. tab'.ans["total"] = x /\ tab'.ans["assets"] = tab.ans["assets"]
          /\ tab'.ans["rows"] = tab.ans["rows"]
          /\ ("assets" \notin tab'.todo => "assets" \notin tab.todo)
          /\ ("rows" \notin tab'.todo => "rows" \notin tab.todo)
      BY <1>2, <1>4, <2>5
    <3>3. QED
      BY <1>2, <1>3, <2>1, <2>2, <2>3, <3>1, <3>2
  <2>6. CASE c = "assets"
    <3>1. x \in OfferedAssets(tab)
      BY <1>2, <2>6 DEF AnswerOf, NoAnswerOf, Answers
    <3>2. \E P \in SUBSET BlockTransactions(stored, tab.arg, NoFilter) : x = {r.asset : r \in P}
      BY <1>2, <3>1 DEF OfferedAssets, PossiblePages
    <3>3. x = {} \/ BlockTransactions(stored, tab.arg, NoFilter) # {}
      BY <3>2
    <3>4. tab'.ans["total"] = tab.ans["total"] /\ tab'.ans["assets"] = x
          /\ tab'.ans["rows"] = tab.ans["rows"]
          /\ ("total" \notin tab'.todo => "total" \notin tab.todo)
          /\ ("rows" \notin tab'.todo => "rows" \notin tab.todo)
      BY <1>2, <1>4, <2>6
    <3>5. QED
      BY <1>2, <1>3, <2>1, <2>2, <2>3, <3>3, <3>4
  <2>7. CASE c \notin {"rows", "total", "assets"}
    <3>1. /\ tab'.ans["total"] = tab.ans["total"] /\ tab'.ans["assets"] = tab.ans["assets"]
          /\ tab'.ans["rows"] = tab.ans["rows"]
          /\ ("assets" \notin tab'.todo => "assets" \notin tab.todo)
          /\ ("total" \notin tab'.todo => "total" \notin tab.todo)
          /\ ("rows" \notin tab'.todo => "rows" \notin tab.todo)
      BY <1>2, <1>4, <1>7, <2>7
    <3>2. QED
      BY <1>2, <1>3, <2>1, <2>2, <3>1
  <2>8. QED
    BY <2>4, <2>5, <2>6, <2>7
<1>8. QED
  BY <1>6, <1>7

LEMMA TxReceives ==
  ASSUME TabInv, QueryOK, TxWhole, NEW c \in Calls, NEW x,
         AnswerOf(c, x) \/ (NoAnswerOf(c) /\ x = None)
  PROVE  TxWhole'
<1> SUFFICES ASSUME Alive', tab'.view = "tx", ~tab'.early, "tx" \notin tab'.todo,
                    tab'.ans["tx"] # None
             PROVE  LET rows == TransactionInternal(Numbers, tab'.arg, tab'.q)
                    IN  /\ tab'.ans["tx"] \in StoredTxns' /\ tab'.ans["tx"].hash = tab'.arg
                        /\ "height" \notin tab'.todo =>
                              tab'.ans["height"] \in Int
                              /\ tab'.ans["height"] >= tab'.ans["tx"].block
                        /\ "rows" \notin tab'.todo => tab'.ans["rows"] = rows
                        /\ "rows" \notin tab'.todo /\ "total" \notin tab'.todo =>
                              tab'.ans["total"] = Cardinality(rows)
                        /\ "assets" \notin tab'.todo =>
                              tab'.ans["assets"] = InternalAssets(Numbers, tab'.arg)
  BY DEF TxWhole
<1>1. Receives(c, x)
  BY DEF AnswerOf, NoAnswerOf
<1>2. /\ stored' = stored /\ c \in tab.todo /\ tab'.arg = tab.arg /\ tab.view = "tx"
      /\ tab'.pc = tab.pc /\ tab'.todo = (tab.todo \ {c}) \cup Then("tx", c)
      /\ \A d \in Calls : tab'.ans[d] = IF d = c THEN x ELSE tab.ans[d]
      /\ (c = "tx" => tab.todo = FirstCalls("tx", tab.arg))
      /\ (c # "tx" => ~tab.early)
  BY <1>1 DEF Receives, Main
<1>3. tab'.q = tab.q /\ StoredTxns' = StoredTxns
  BY <1>2 DEF AnswerOf, NoAnswerOf, StoredTxns
<1>4. /\ {"tx", "rows", "total", "assets", "height"} \subseteq Calls
      /\ Then("tx", "rows") = {"total"} /\ (c # "rows" => Then("tx", c) = {})
      /\ FirstCalls("tx", tab.arg) = {"tx", "height", "rows", "assets"}
  BY DEF Calls, Then, FirstCalls
<1>5. stored \in SUBSET Numbers /\ tab.pc = "loading"
  BY <1>2 DEF TabInv, TabTypes, ChartInv, ChartTypes
<1>6. CASE c = "tx"
  <2>1. x # None /\ tab'.ans["tx"] = x
    BY <1>2, <1>4, <1>6
  <2>2. x = OneOf(TransactionHash(stored, tab.arg)) /\ x \in StoredTxns \cup {None}
    BY <1>1, <1>6, <2>1, AnswersAre DEF AnswerOf, Receives
  <2>3. x \in StoredTxns /\ x.hash = tab.arg
    <3>1. TransactionHash(stored, tab.arg) # {}
      BY <2>1, <2>2 DEF OneOf
    <3>2. x \in TransactionHash(stored, tab.arg)
      BY <2>2, <3>1, OneOfIs
    <3>3. QED
      BY <2>1, <2>2, <3>2 DEF TransactionHash
  <2>4. {"rows", "assets", "height"} \subseteq tab'.todo
    BY <1>2, <1>4, <1>6
  <2>5. QED
    BY <1>2, <1>3, <2>1, <2>3, <2>4
<1>7. CASE c # "tx"
  <2> DEFINE r == tab.ans["tx"]
  <2>1. tab'.ans["tx"] = r /\ r # None /\ "tx" \notin tab.todo /\ ~tab.early /\ Alive
    BY <1>2, <1>4, <1>5, <1>7 DEF Alive
  <2>2. /\ r \in StoredTxns /\ r.hash = tab.arg
        /\ "height" \notin tab.todo =>
              tab.ans["height"] \in Int /\ tab.ans["height"] >= r.block
        /\ "rows" \notin tab.todo => tab.ans["rows"] = TransactionInternal(Numbers, tab.arg, tab.q)
        /\ "rows" \notin tab.todo /\ "total" \notin tab.todo =>
              tab.ans["total"] = Cardinality(TransactionInternal(Numbers, tab.arg, tab.q))
        /\ "assets" \notin tab.todo => tab.ans["assets"] = InternalAssets(Numbers, tab.arg)
    BY <1>2, <2>1 DEF TxWhole
  <2>3. r \in Transactions /\ r.block \in stored
    BY <2>2 DEF StoredTxns
  <2>4. /\ TransactionInternal(stored, tab.arg, tab.q) = TransactionInternal(Numbers, tab.arg, tab.q)
        /\ InternalAssets(stored, tab.arg) = InternalAssets(Numbers, tab.arg)
        /\ Listed(tab, stored, tab.q) = TransactionInternal(stored, tab.arg, tab.q)
    BY <1>2, <1>5, <2>2, <2>3, OneTxn, SMTT(30) DEF Listed
  <2>5. /\ c = "rows" => x = TransactionInternal(stored, tab.arg, tab.q)
        /\ c = "total" => x = Cardinality(TransactionInternal(stored, tab.arg, tab.q))
        /\ c = "assets" => x = InternalAssets(stored, tab.arg)
        /\ c = "height" => x = LatestBlockNumber(stored)
    <3>1. c \notin {"block", "tx"} => x \in Answers(tab, c)
      BY DEF AnswerOf, NoAnswerOf
    <3>2. QED
      BY <1>2, <2>4, <3>1 DEF Answers, ListPages, OfferedAssets
  <2>6. LatestBlockNumber(stored) \in Int /\ LatestBlockNumber(stored) >= r.block
    BY <1>5, <2>3, HeightIs
  <2>7. /\ tab'.ans["rows"] = (IF c = "rows" THEN x ELSE tab.ans["rows"])
        /\ tab'.ans["total"] = (IF c = "total" THEN x ELSE tab.ans["total"])
        /\ tab'.ans["assets"] = (IF c = "assets" THEN x ELSE tab.ans["assets"])
        /\ tab'.ans["height"] = (IF c = "height" THEN x ELSE tab.ans["height"])
    BY <1>2, <1>4
  <2>8. /\ "rows" \notin tab'.todo => c = "rows" \/ "rows" \notin tab.todo
        /\ "total" \notin tab'.todo => c # "rows" /\ (c = "total" \/ "total" \notin tab.todo)
        /\ "assets" \notin tab'.todo => c = "assets" \/ "assets" \notin tab.todo
        /\ "height" \notin tab'.todo => c = "height" \/ "height" \notin tab.todo
    BY <1>2, <1>4
  <2>9. QED
    BY <1>2, <1>3, <2>1, <2>2, <2>4, <2>5, <2>6, <2>7, <2>8
<1>8. QED
  BY <1>6, <1>7

LEMMA DetailNext ==
  TabInv /\ QueryOK /\ BlockWhole /\ TxWhole /\ [Next]_vars => BlockWhole' /\ TxWhole'
<1> SUFFICES ASSUME TabInv, QueryOK, BlockWhole, TxWhole, [Next]_vars
             PROVE  BlockWhole' /\ TxWhole'
  OBVIOUS
<1>1. CASE Stays
  <2>1. StoredTxns \subseteq StoredTxns'
    BY <1>1 DEF Stays, StoredTxns
  <2>2. BlockWhole'
    BY <1>1 DEF Stays, BlockWhole, Alive
  <2>3. TxWhole'
    BY <1>1, <2>1 DEF Stays, TxWhole, Alive
  <2>4. QED
    BY <2>2, <2>3
<1>2. CASE AtHome \/ Gone
  BY <1>2 DEF AtHome, Gone, BlockWhole, TxWhole, Alive
<1>3. CASE Begins
  <2>1. "block" \in FirstCalls("block", tab'.arg) /\ "tx" \in FirstCalls("tx", tab'.arg)
    BY DEF FirstCalls
  <2>2. QED
    BY <1>3, <2>1 DEF Begins, BlockWhole, TxWhole
<1>4. CASE Rendered
  <2>1. StoredTxns' = StoredTxns /\ Alive
    BY <1>4 DEF Rendered, StoredTxns, Alive
  <2>2. BlockWhole'
    BY <1>4, <2>1 DEF Rendered, BlockWhole
  <2>3. TxWhole'
    BY <1>4, <2>1 DEF Rendered, TxWhole
  <2>4. QED
    BY <2>2, <2>3
<1>5. ASSUME NEW c \in Calls, NEW x, AnswerOf(c, x) \/ (NoAnswerOf(c) /\ x = None)
      PROVE  BlockWhole' /\ TxWhole'
  BY <1>5, BlockReceives, TxReceives
<1>6. QED
  BY <1>1, <1>2, <1>3, <1>4, <1>5, StepIs DEF BeginsAfresh, ReadsOn

\* A page is shown when everything has been answered, and with what it is about.
ShownFull ==
    tab.pc = "shown" =>
        /\ tab.todo = {}
        /\ tab.view = "block" => tab.ans["block"] # None
        /\ tab.view = "tx" => tab.ans["tx"] # None

LEMMA ShownNext == TabInv /\ QueryOK /\ ShownFull /\ [Next]_vars => ShownFull'
<1> SUFFICES ASSUME TabInv, QueryOK, ShownFull, [Next]_vars PROVE ShownFull'
  OBVIOUS
<1>1. CASE Stays
  BY <1>1 DEF Stays, ShownFull
<1>2. CASE AtHome
  <2>1. TabInv'
    BY TabNext
  <2>2. tab'.pc = "shown" => tab'.todo = {}
    BY <2>1 DEF TabInv, TabTypes
  <2>3. QED
    BY <1>2, <2>2 DEF AtHome, ShownFull
<1>3. CASE Gone \/ Begins
  BY <1>3 DEF Gone, Begins, ShownFull
<1>4. CASE Rendered
  BY <1>4 DEF Rendered, ShownFull
<1>5. ASSUME NEW c, NEW x, Receives(c, x) PROVE ShownFull'
  BY <1>5 DEF Receives, ShownFull, TabInv, TabTypes
<1>6. QED
  BY <1>1, <1>2, <1>3, <1>4, <1>5, StepIs DEF BeginsAfresh, ReadsOn, AnswerOf, NoAnswerOf

DetailInv == TabInv /\ QueryOK /\ BlockWhole /\ TxWhole /\ ShownFull

LEMMA DetailInit == Init => DetailInv
<1> SUFFICES ASSUME Init PROVE DetailInv
  OBVIOUS
<1>1. tab.pc = "idle"
  BY BlankIs DEF Init
<1>2. QED
  BY <1>1, TabInit, QueryInit DEF DetailInv, BlockWhole, TxWhole, ShownFull, Alive

LEMMA BlockPageAgrees ==
  ASSUME DetailInv, Shown("block"), ~tab.early
  PROVE  LET rows == BlockTransactions(Numbers, tab.ans["block"], tab.q) IN
         /\ tab.ans["total"] = Cardinality(rows)
         /\ Cardinality(tab.ans["rows"]) = Min({DetailSize, Cardinality(rows)})
         /\ tab.q = NoFilter => {r.asset : r \in tab.ans["rows"]} # {} \/ tab.ans["assets"] = {}
<1> DEFINE rows == BlockTransactions(Numbers, tab.ans["block"], tab.q)
<1>1. /\ tab.view = "block" /\ tab.todo = {} /\ tab.ans["block"] # None /\ Alive
  BY DEF DetailInv, ShownFull, Shown, Alive
<1>2. /\ tab.ans["total"] = Cardinality(rows)
      /\ Cardinality(tab.ans["rows"]) = Min({DetailSize, Cardinality(rows)})
      /\ tab.ans["assets"] = {} \/ BlockTransactions(Numbers, tab.ans["block"], NoFilter) # {}
  BY <1>1 DEF DetailInv, BlockWhole
<1>3. ASSUME tab.q = NoFilter, BlockTransactions(Numbers, tab.ans["block"], NoFilter) # {}
      PROVE  {r.asset : r \in tab.ans["rows"]} # {}
  <2>1. rows # {} /\ rows \in SUBSET Row
    BY <1>3 DEF BlockTransactions, Selected, CombinedTxns, Row
  <2> HIDE DEF rows
  <2>2. Cardinality(rows) \in Nat /\ Cardinality(rows) # 0
    BY <2>1, TablesFinite, FS_EmptySet
  <2>3. DetailSize \in Nat /\ DetailSize > 0
    BY ApiAssumption, PortalAssumption
  <2>4. Min({DetailSize, Cardinality(rows)}) # 0
    BY <2>2, <2>3, MinOfTwo
  <2>5. tab.ans["rows"] # {}
    BY <1>2, <2>4, FS_EmptySet
  <2>6. QED
    BY <2>5
<1>4. QED
  BY <1>2, <1>3

\* What the page of a block shows is all of the block, its first rows and their
\* number, and what that of a transaction shows is of a chain that has the
\* transaction, unless a part was read before the block or transaction was there.
THEOREM DetailAgreesInvariant == Spec => []DetailAgrees
<1>1. ASSUME DetailInv, Shown("tx"), ~tab.early
      PROVE  /\ tab.ans["height"] - tab.ans["tx"].block + 1 >= 1
             /\ tab.ans["total"] = Cardinality(TransactionInternal(Numbers, tab.arg, tab.q))
             /\ {r.asset : r \in tab.ans["rows"]} \subseteq tab.ans["assets"]
  <2>1. /\ tab.view = "tx" /\ tab.todo = {} /\ tab.ans["tx"] # None /\ Alive
    BY <1>1 DEF DetailInv, ShownFull, Shown, Alive
  <2>2. /\ tab.ans["tx"] \in StoredTxns
        /\ tab.ans["height"] \in Int /\ tab.ans["height"] >= tab.ans["tx"].block
        /\ tab.ans["rows"] = TransactionInternal(Numbers, tab.arg, tab.q)
        /\ tab.ans["total"] = Cardinality(TransactionInternal(Numbers, tab.arg, tab.q))
        /\ tab.ans["assets"] = InternalAssets(Numbers, tab.arg)
    BY <1>1, <2>1 DEF DetailInv, TxWhole
  <2>3. tab.ans["tx"].block \in Int
    <3>1. stored \subseteq Numbers /\ Numbers \subseteq Int
      BY <1>1, ApiAssumption DEF DetailInv, TabInv, ChartInv, ChartTypes
    <3>2. QED
      BY <2>2, <3>1 DEF StoredTxns
  <2>4. TransactionInternal(Numbers, tab.arg, tab.q)
          \subseteq TransactionInternal(Numbers, tab.arg, NoFilter)
    BY NoFilterFilters DEF TransactionInternal
  <2>5. QED
    BY <2>2, <2>3, <2>4 DEF InternalAssets
<1>2. DetailInv => DetailAgrees
  BY <1>1, BlockPageAgrees DEF DetailAgrees
<1>3. DetailInv /\ [Next]_vars => DetailInv'
  BY TabNext, QueryNext, DetailNext, ShownNext DEF DetailInv
<1>4. QED
  BY <1>2, <1>3, DetailInit, PTL DEF Spec
(***************************************************************************)
(* Lists read link by link                                                 *)
(***************************************************************************)
\* The rows before page k.
Offset(k) == (k - 1) * PageSize

LEMMA OffsetIs ==
  /\ PageSize \in Nat /\ PageSize > 0 /\ Offset(1) = 0
  /\ \A k \in Int : Offset(k) \in Int /\ Offset(k + 1) = Offset(k) + PageSize
                    /\ Offset(k + 1) = k * PageSize
  /\ \A k \in Int : k >= 1 => Offset(k) \in Nat
<1>1. PageSize \in Nat /\ PageSize > 0
  BY ApiAssumption, PortalAssumption
<1>2. Offset(1) = 0
  BY <1>1 DEF Offset
<1>3. \A k, s \in Int : (k - 1) * s \in Int /\ (k + 1 - 1) * s = (k - 1) * s + s
                        /\ (k + 1 - 1) * s = k * s
  OBVIOUS
<1>4. \A m, n \in Nat : m * n \in Nat
  OBVIOUS
<1>5. \A k \in Int : k >= 1 => k - 1 \in Nat
  OBVIOUS
<1>6. QED
  BY <1>1, <1>2, <1>3, <1>4, <1>5 DEF Offset

\* The last of the pages that n rows have is after them all.
LEMMA LastPage ==
  ASSUME NEW p \in Int, NEW n \in Nat, p >= Ceil(n, PageSize)
  PROVE  Offset(p + 1) >= n
<1> DEFINE k == PageSize
           c == (n + k - 1) \div k
<1>1. k \in Int /\ k > 0
  BY OffsetIs
<1> HIDE DEF k
<1>2. c \in Int /\ c * k <= n + k - 1 /\ n + k - 1 < (c + 1) * k
  BY <1>1
<1>3. p >= c
  BY DEF Ceil, c, k
<1>4. c * k >= n
  BY <1>1, <1>2
<1>5. p * k >= c * k
  BY <1>1, <1>2, <1>3
<1>6. Offset(p + 1) = p * k
  BY OffsetIs DEF k
<1>7. p * k \in Int /\ c * k \in Int
  BY <1>1, <1>2
<1>8. QED
  BY <1>4, <1>5, <1>6, <1>7

\* More blocks have more rows.
LEMMA ListedMore ==
  ASSUME NEW t, NEW T \in SUBSET Numbers, NEW S \in SUBSET T, NEW q
  PROVE  Listed(t, S, q) \subseteq Listed(t, T, q)
<1>1. Blocks(S, q) \subseteq Blocks(T, q)
  BY DEF Blocks
<1>2. TransactionList(S, q) \subseteq TransactionList(T, q)
  BY DEF TransactionList, Selected, CombinedTxns
<1>3. BlockTransactions(S, t.arg, q) \subseteq BlockTransactions(T, t.arg, q)
  BY DEF BlockTransactions, Selected, CombinedTxns, Block
<1>4. TransactionInternal(S, t.arg, q) \subseteq TransactionInternal(T, t.arg, q)
  BY DEF TransactionInternal
<1>5. AddressTransactions(S, t.arg, q) \subseteq AddressTransactions(T, t.arg, q)
  BY <1>2 DEF AddressTransactions
<1>6. AssetList(S, q) \subseteq AssetList(T, q)
  BY DEF AssetList
<1>7. QED
  BY <1>1, <1>2, <1>3, <1>4, <1>5, <1>6 DEF Listed

\* No more blocks than the height says.
LEMMA HeightCounts ==
  ASSUME NEW S \in SUBSET Numbers, NEW q
  PROVE  Cardinality(Blocks(S, q)) <= LatestBlockNumber(S)
<1> DEFINE H == LatestBlockNumber(S)
<1>1. H \in Nat /\ \A n \in S : H >= n
  BY HeightIs
<1> HIDE DEF H
<1>2. Blocks(S, q) \in SUBSET (1..H)
  <2>1. \A n \in Numbers : n \in Int /\ n >= 1
    BY ApiAssumption
  <2>2. Blocks(S, q) \subseteq S
    BY DEF Blocks
  <2>3. QED
    BY <1>1, <2>1, <2>2
<1>3. IsFiniteSet(1..H) /\ Cardinality(1..H) = H
  BY <1>1, FS_Interval
<1>4. QED
  BY <1>2, <1>3, FS_Subset DEF H

RowsAnswered == "rows" \notin tab.todo /\ (tab.view = "address" => "balances" \notin tab.todo)

(***************************************************************************)
(* "Displaying x of y"                                                     *)
(***************************************************************************)
Fits(n) ==
    LET before == IF tab.view \in {"block", "tx"} THEN 0 ELSE Offset(tab.page)
    IN  tab.ans["rows"] # {} => before + Cardinality(tab.ans["rows"]) <= n

RowsFit ==
    Alive /\ tab.view \in {"block", "txs", "tx", "address", "tokens"} /\ RowsAnswered =>
        /\ IsFiniteSet(tab.ans["rows"])
        /\ Fits(Cardinality(Listed(tab, stored, tab.q)))
        /\ "total" \notin tab.todo => Fits(tab.ans["total"])

\* The page of an address shows one asset once its balances are there, if it has any.
AssetChosen ==
    Alive /\ tab.view = "address" =>
        IF "balances" \in tab.todo THEN tab.ans["balances"] = None
        ELSE "asset_id" \in DOMAIN tab.q \/ tab.ans["balances"] = {}

LEMMA AssetReceived ==
  ASSUME TabInv, AssetChosen, NEW c \in Calls, NEW x, AnswerOf(c, x) \/ (NoAnswerOf(c) /\ x = None)
  PROVE  /\ AssetChosen'
         /\ (c = "balances" /\ tab.view = "address") \/ tab'.q = tab.q
<1>1. Receives(c, x)
  BY DEF AnswerOf, NoAnswerOf
<1>2. /\ c \in tab.todo /\ tab'.view = tab.view /\ tab'.pc = tab.pc
      /\ tab'.todo = (tab.todo \ {c}) \cup Then(tab.view, c)
      /\ tab'.ans["balances"] = IF c = "balances" THEN x ELSE tab.ans["balances"]
      /\ "balances" \notin Then(tab.view, c)
  BY <1>1 DEF Receives, Calls, Then
<1>3. CASE tab.view # "address"
  BY <1>2, <1>3 DEF AssetChosen, AnswerOf, NoAnswerOf
<1>4. CASE tab.view = "address" /\ c = "balances"
  <2>1. x = BalanceAssets(stored, tab.arg)
    BY <1>4 DEF AnswerOf, NoAnswerOf, Answers
  <2>2. x \in SUBSET {b.asset : b \in BalanceRows}
    BY <2>1 DEF BalanceAssets
  <2>3. x # None
    BY <2>2, PortalAssumption
  <2>4. "asset_id" \in DOMAIN tab'.q \/ tab'.ans["balances"] \in {None, {}}
    BY <1>4 DEF AnswerOf, NoAnswerOf
  <2>5. QED
    BY <1>2, <1>4, <2>3, <2>4 DEF AssetChosen
<1>5. CASE tab.view = "address" /\ c # "balances"
  <2>1. tab.pc = "loading"
    BY <1>2 DEF TabInv, TabTypes
  <2>2. IF "balances" \in tab.todo THEN tab.ans["balances"] = None
        ELSE "asset_id" \in DOMAIN tab.q \/ tab.ans["balances"] = {}
    BY <1>5, <2>1 DEF AssetChosen, Alive
  <2>3. tab'.ans["balances"] = tab.ans["balances"] /\ ("balances" \in tab'.todo <=> "balances" \in tab.todo)
    BY <1>2, <1>5
  <2>4. tab'.q = tab.q
    BY <2>2, <2>3 DEF AnswerOf, NoAnswerOf
  <2>5. QED
    BY <1>2, <2>2, <2>3, <2>4 DEF AssetChosen
<1>6. QED
  BY <1>3, <1>4, <1>5

\* When an answer completes the rows of a page.
LEMMA RowsReceived ==
  ASSUME NEW c \in Calls, NEW x, Receives(c, x)
  PROVE  /\ c = "rows" /\ RowsAnswered' => ~RowsAnswered /\ tab'.ans["rows"] = x
         /\ c = "rows" /\ tab.view # "blocks" => "total" \in tab'.todo
         /\ c # "rows" => /\ tab'.ans["rows"] = tab.ans["rows"]
                          /\ RowsAnswered' => RowsAnswered
                          /\ RowsAnswered => RowsAnswered'
                          /\ "total" \notin tab'.todo => c = "total" \/ "total" \notin tab.todo
         /\ tab'.ans["total"] = IF c = "total" THEN x ELSE tab.ans["total"]
         /\ tab'.ans["height"] = IF c = "height" THEN x ELSE tab.ans["height"]
         /\ "height" \notin tab'.todo => c = "height" \/ "height" \notin tab.todo
         /\ c = "balances" /\ tab.view = "address" => ~RowsAnswered /\ ~RowsAnswered'
<1>1. /\ c \in tab.todo /\ tab'.view = tab.view
      /\ tab'.todo = (tab.todo \ {c}) \cup Then(tab.view, c)
      /\ \A d \in Calls : tab'.ans[d] = IF d = c THEN x ELSE tab.ans[d]
      /\ {"rows", "total", "height", "balances"} \subseteq Calls
  BY DEF Receives, Calls
<1>2. /\ Then(tab.view, "rows") = IF tab.view # "blocks" THEN {"total"} ELSE {}
      /\ Then(tab.view, "balances") = IF tab.view = "address" THEN {"rows", "all"} ELSE {}
      /\ c \notin {"rows", "balances"} => Then(tab.view, c) = {}
  BY DEF Then
<1>3. CASE c = "rows"
  BY <1>1, <1>2, <1>3 DEF RowsAnswered
<1>4. CASE c = "balances"
  BY <1>1, <1>2, <1>4 DEF RowsAnswered
<1>5. CASE c \notin {"rows", "balances"}
  BY <1>1, <1>2, <1>5 DEF RowsAnswered
<1>6. QED
  BY <1>3, <1>4, <1>5

\* The rows of a page, and those before, are of those there are.
LEMMA PageFits ==
  ASSUME TabInv, QueryOK, tab.view \in {"block", "txs", "tx", "address", "tokens"},
         NEW x \in ListPages(tab), ~ListRefused(tab)
  PROVE  LET before == IF tab.view \in {"block", "tx"} THEN 0 ELSE Offset(tab.page)
         IN  /\ IsFiniteSet(x)
             /\ x # {} => before + Cardinality(x) <= Cardinality(Listed(tab, stored, tab.q))
<1> DEFINE n == Cardinality(Listed(tab, stored, tab.q))
<1>1. stored \in SUBSET Numbers /\ tab.page \in Int
  BY DEF TabInv, ChartInv, ChartTypes, TabTypes
<1>2. x \subseteq Listed(tab, stored, tab.q)
  BY ListPagesIn
<1>3. IsFiniteSet(Listed(tab, stored, tab.q)) /\ n \in Nat
  BY <1>1, ListedIn
<1>4. IsFiniteSet(x) /\ Cardinality(x) \in Nat
  BY <1>2, <1>3, FS_Subset, FS_CardinalityType
<1>5. CASE tab.view = "tx"
  <2>1. x = Listed(tab, stored, tab.q)
    BY <1>5 DEF ListPages
  <2>2. QED
    BY <1>3, <1>4, <1>5, <2>1
<1>6. CASE tab.view # "tx"
  <2>1. tab.view = "block" \/ tab.page >= 1
    <3>1. tab.view # "block" => GetPage(Query(tab)) = tab.page
      BY <1>1, <1>6, QueryIs DEF QueryOK
    <3>2. ~PageRefused(Query(tab))
      BY <1>6 DEF ListRefused
    <3>3. QED
      BY <1>1, <3>1, <3>2 DEF PageRefused
  <2> DEFINE o == IF tab.view = "block" THEN 0 ELSE (tab.page - 1) * PageSize
             l == IF tab.view = "block" THEN DetailSize ELSE PageSize
  <2>2. /\ o \in Nat /\ l \in Nat
        /\ Cardinality(x) = IF n <= o THEN 0 ELSE IF n <= o + l THEN n - o ELSE l
    BY <1>1, <1>6, <2>1, PageRows
  <2>3. x # {} => Cardinality(x) # 0
    BY <1>4, FS_EmptySet
  <2>4. o = IF tab.view \in {"block", "tx"} THEN 0 ELSE Offset(tab.page)
    BY <1>6 DEF Offset
  <2> HIDE DEF o, l, n
  <2>5. x # {} => o + Cardinality(x) <= n
    BY <1>3, <2>2, <2>3
  <2>6. QED
    BY <1>4, <2>4, <2>5 DEF n
<1>7. QED
  BY <1>5, <1>6

LEMMA FitReceived ==
  ASSUME TabInv, QueryOK, RowsFit, AssetChosen, NEW c \in Calls, NEW x,
         AnswerOf(c, x) \/ (NoAnswerOf(c) /\ x = None)
  PROVE  RowsFit'
<1> DEFINE before == IF tab.view \in {"block", "tx"} THEN 0 ELSE Offset(tab.page)
           n == Cardinality(Listed(tab, stored, tab.q))
<1> SUFFICES ASSUME Alive', tab'.view \in {"block", "txs", "tx", "address", "tokens"},
                    RowsAnswered'
             PROVE  /\ IsFiniteSet(tab'.ans["rows"])
                    /\ Fits(Cardinality(Listed(tab, stored, tab.q)))'
                    /\ "total" \notin tab'.todo => Fits(tab.ans["total"])'
  BY DEF RowsFit
<1>1. Receives(c, x)
  BY DEF AnswerOf, NoAnswerOf
<1>2. tab'.view = tab.view /\ tab'.arg = tab.arg /\ tab'.page = tab.page /\ stored' = stored
      /\ tab'.pc = tab.pc /\ c \in tab.todo
  BY <1>1 DEF Receives
<1>3. ~(c = "balances" /\ tab.view = "address")
  BY <1>1, RowsReceived
<1>4. tab'.q = tab.q
  BY <1>3, AssetReceived
<1>5. Listed(tab', stored', tab'.q) = Listed(tab, stored, tab.q)
  BY <1>2, <1>4 DEF Listed
<1>6. \A k : Fits(k)' <=> (tab'.ans["rows"] # {} => before + Cardinality(tab'.ans["rows"]) <= k)
  BY <1>2 DEF Fits
<1>7. CASE c = "rows"
  <2>1. x \in ListPages(tab) /\ ~ListRefused(tab)
    BY <1>2, <1>7 DEF AnswerOf, NoAnswerOf, Answers
  <2>2. IsFiniteSet(x) /\ (x # {} => before + Cardinality(x) <= n)
    BY <1>2, <2>1, PageFits
  <2>3. tab'.ans["rows"] = x /\ "total" \in tab'.todo
    BY <1>1, <1>2, <1>7, RowsReceived
  <2>4. QED
    BY <1>5, <1>6, <2>2, <2>3
<1>8. CASE c # "rows"
  <2>1. /\ tab'.ans["rows"] = tab.ans["rows"] /\ RowsAnswered
        /\ tab'.ans["total"] = IF c = "total" THEN x ELSE tab.ans["total"]
        /\ "total" \notin tab'.todo => c = "total" \/ "total" \notin tab.todo
    BY <1>1, <1>8, RowsReceived
  <2>2. tab.pc = "loading"
    BY <1>2 DEF TabInv, TabTypes
  <2>3. /\ IsFiniteSet(tab.ans["rows"]) /\ Fits(n)
        /\ "total" \notin tab.todo => Fits(tab.ans["total"])
    BY <1>2, <2>1, <2>2 DEF RowsFit, Alive
  <2>4. c = "total" => x = n
    BY <1>2 DEF AnswerOf, NoAnswerOf, Answers
  <2>5. \A k : Fits(k) <=> (tab.ans["rows"] # {} => before + Cardinality(tab.ans["rows"]) <= k)
    BY DEF Fits
  <2>6. QED
    BY <1>5, <1>6, <2>1, <2>3, <2>4, <2>5
<1>9. QED
  BY <1>7, <1>8

LEMMA FitNext ==
  TabInv /\ QueryOK /\ RowsFit /\ AssetChosen /\ [Next]_vars => RowsFit' /\ AssetChosen'
<1> SUFFICES ASSUME TabInv, QueryOK, RowsFit, AssetChosen, [Next]_vars
             PROVE  RowsFit' /\ AssetChosen'
  OBVIOUS
<1>1. CASE Stays
  <2>1. AssetChosen' /\ (Alive' <=> Alive) /\ (RowsAnswered' <=> RowsAnswered)
    BY <1>1 DEF Stays, AssetChosen, Alive, RowsAnswered
  <2>2. stored \subseteq stored' /\ stored' \in SUBSET Numbers /\ tab' = tab
    <3>1. TabInv'
      BY TabNext
    <3>2. QED
      BY <1>1, <3>1 DEF Stays, TabInv, ChartInv, ChartTypes
  <2> DEFINE R == Listed(tab, stored, tab.q)
             S == Listed(tab, stored', tab.q)
  <2>3. R \subseteq S /\ IsFiniteSet(S) /\ Cardinality(S) \in Nat
    BY <2>2, ListedMore, ListedIn
  <2> HIDE DEF R, S
  <2>4. Cardinality(R) <= Cardinality(S) /\ Cardinality(R) \in Nat
    BY <2>3, FS_Subset, FS_CardinalityType
  <2>5. ASSUME IsFiniteSet(tab.ans["rows"]), Fits(Cardinality(R)) PROVE Fits(Cardinality(S))
    <3>1. Cardinality(tab.ans["rows"]) \in Nat
      BY <2>5, FS_CardinalityType
    <3>2. Offset(tab.page) \in Int
      BY OffsetIs DEF TabInv, TabTypes
    <3>3. QED
      BY <2>3, <2>4, <2>5, <3>1, <3>2 DEF Fits
  <2>6. \A k : Fits(k)' <=> Fits(k)
    BY <2>2 DEF Fits
  <2>7. RowsFit'
    BY <2>1, <2>2, <2>5, <2>6 DEF RowsFit, R, S
  <2>8. QED
    BY <2>1, <2>7
<1>2. CASE AtHome \/ Gone
  BY <1>2 DEF AtHome, Gone, RowsFit, AssetChosen, Alive
<1>3. CASE Begins
  <2>1. \A v \in {"block", "txs", "tx", "tokens"} : "rows" \in FirstCalls(v, tab'.arg)
    BY DEF FirstCalls
  <2>2. FirstCalls("address", tab'.arg) = {"balances"}
    BY DEF FirstCalls
  <2>3. "balances" \in Calls \ {"chart"}
    BY DEF Calls
  <2>4. QED
    BY <1>3, <2>1, <2>2, <2>3 DEF Begins, RowsFit, AssetChosen, RowsAnswered
<1>4. CASE Rendered
  <2>1. /\ tab'.view = tab.view /\ tab'.arg = tab.arg /\ tab'.page = tab.page /\ tab'.q = tab.q
        /\ stored' = stored /\ tab'.todo = tab.todo /\ tab'.ans = tab.ans /\ Alive
    BY <1>4 DEF Rendered, Alive
  <2>2. Listed(tab', stored', tab'.q) = Listed(tab, stored, tab.q) /\ (RowsAnswered' <=> RowsAnswered)
    BY <2>1 DEF Listed, RowsAnswered
  <2>3. \A k : Fits(k)' <=> Fits(k)
    BY <2>1 DEF Fits
  <2>4. RowsFit'
    BY <2>1, <2>2, <2>3 DEF RowsFit
  <2>5. QED
    BY <2>1, <2>4 DEF AssetChosen
<1>5. ASSUME NEW c \in Calls, NEW x, AnswerOf(c, x) \/ (NoAnswerOf(c) /\ x = None)
      PROVE  RowsFit' /\ AssetChosen'
  BY <1>5, FitReceived, AssetReceived
<1>6. QED
  BY <1>1, <1>2, <1>3, <1>4, <1>5, StepIs DEF BeginsAfresh, ReadsOn

(***************************************************************************)
(* Reading on                                                              *)
(***************************************************************************)
ReadLists == {"blocks", "txs", "address", "tokens"}

Walking == Alive /\ tab.walk /\ tab.view \in ReadLists

\* The rows there were when the user began that he has not been shown, and that do
\* not share their places.
Unseen == {r \in Listed(tab, tab.start, tab.q) : HasOwnPlace(r)} \ tab.seen

\* The rows before r in the list as it is now.
Above(r) == Cardinality(RowsBefore(Listed(tab, stored, tab.q), Order(tab), r))

Ahead(k) == \A r \in Unseen : Above(r) >= k

\* What a user who reads on has not seen is on the pages ahead of him, as rows only
\* move to later pages; so the count, and the height if it is read after the rows,
\* is beyond this page.
ReadSoFar ==
    Walking =>
        /\ tab.page >= 1
        /\ ~RowsAnswered => Ahead(Offset(tab.page))
        /\ RowsAnswered => Ahead(Offset(tab.page + 1))
        /\ RowsAnswered /\ tab.view # "blocks" /\ "total" \notin tab.todo =>
              tab.ans["total"] \in Nat /\ (Unseen # {} => tab.ans["total"] > Offset(tab.page + 1))
        /\ RowsAnswered /\ tab.view = "blocks" /\ ~tab.early /\ "height" \notin tab.todo =>
              tab.ans["height"] \in Nat /\ (Unseen # {} => tab.ans["height"] > Offset(tab.page + 1))

\* An address without balances has no rows.
NoneWithoutBalance ==
    Walking /\ tab.view = "address" /\ "asset_id" \notin DOMAIN tab.q
        /\ (tab.page > 1 \/ "balances" \notin tab.todo)
    => Listed(tab, tab.start, NoFilter) = {}

LEMMA TabRanges ==
  ASSUME TabInv
  PROVE  stored \in SUBSET Numbers /\ tab.start \in SUBSET stored /\ tab.page \in Int
  BY DEF TabInv, ChartInv, ChartTypes, TabTypes

\* A row not seen is in the list, and does not count among those before it.
LEMMA UnseenListed ==
  ASSUME TabInv, NEW r \in Unseen
  PROVE  /\ r \in Listed(tab, stored, tab.q)
         /\ Above(r) \in Nat /\ Above(r) < Cardinality(Listed(tab, stored, tab.q))
<1> DEFINE rows == Listed(tab, stored, tab.q)
           R == RowsBefore(rows, Order(tab), r)
<1>1. stored \in SUBSET Numbers /\ tab.start \in SUBSET stored
  BY TabRanges
<1>2. r \in rows
  BY <1>1, ListedMore DEF Unseen
<1>3. rows \in SUBSET Universe(tab) /\ IsFiniteSet(rows) /\ Cardinality(rows) \in Nat
  BY <1>1, ListedIn
<1>4. <<r, r>> \notin Order(tab)
  BY <1>2, <1>3, OrdersAreWeak DEF WeakOrder
<1>5. R \in SUBSET rows /\ r \notin R /\ R \cup {r} \in SUBSET rows
  BY <1>2, <1>4 DEF RowsBefore
<1> HIDE DEF rows, R
<1>6. IsFiniteSet(R) /\ Cardinality(R) \in Nat
  BY <1>3, <1>5, FS_Subset, FS_CardinalityType
<1>7. Cardinality(R \cup {r}) = Cardinality(R) + 1
  BY <1>5, <1>6, FS_AddElement
<1>8. Cardinality(R \cup {r}) <= Cardinality(rows)
  BY <1>3, <1>5, FS_Subset
<1>9. Above(r) = Cardinality(R)
  BY DEF Above, R, rows
<1>10. QED
  BY <1>2, <1>3, <1>6, <1>7, <1>8, <1>9 DEF rows

\* More blocks move the rows that are there to later places.
LEMMA StaysAhead ==
  ASSUME TabInv, TabInv', stored \subseteq stored',
         tab'.view = tab.view, tab'.arg = tab.arg, tab'.q = tab.q, tab'.start = tab.start,
         tab.seen \subseteq tab'.seen
  PROVE  /\ Unseen' \subseteq Unseen
         /\ \A r \in Unseen : Above(r) \in Int /\ Above(r)' \in Int /\ Above(r)' >= Above(r)
<1>1. /\ stored \in SUBSET Numbers /\ tab.start \in SUBSET stored
      /\ stored' \in SUBSET Numbers /\ tab'.start \in SUBSET stored'
  <2>1. stored \in SUBSET Numbers /\ tab.start \in SUBSET stored
    BY TabRanges
  <2>2. stored' \in SUBSET Numbers
    BY DEF TabInv, ChartInv, ChartTypes
  <2>3. QED
    BY <2>1, <2>2
<1>2. \A S : Listed(tab', S, tab'.q) = Listed(tab, S, tab.q)
  BY DEF Listed
<1>3. Unseen' \subseteq Unseen
  <2>1. \A r : HasOwnPlace(r)' <=> HasOwnPlace(r)
    BY DEF HasOwnPlace
  <2>2. Listed(tab', tab'.start, tab'.q) = Listed(tab, tab.start, tab.q)
    BY <1>2
  <2>3. QED
    BY <2>1, <2>2 DEF Unseen
<1>4. ASSUME NEW r \in Unseen PROVE Above(r) \in Int /\ Above(r)' \in Int /\ Above(r)' >= Above(r)
  <2> DEFINE R == RowsBefore(Listed(tab, stored, tab.q), Order(tab), r)
             S == RowsBefore(Listed(tab, stored', tab.q), Order(tab), r)
  <2>1. Listed(tab, stored, tab.q) \subseteq Listed(tab, stored', tab.q)
        /\ IsFiniteSet(Listed(tab, stored', tab.q))
    BY <1>1, ListedMore, ListedIn
  <2>2. R \in SUBSET S /\ S \in SUBSET Listed(tab, stored', tab.q)
    BY <2>1 DEF RowsBefore
  <2>3. Above(r) = Cardinality(R)
    BY DEF Above
  <2>4. Above(r)' = Cardinality(S)
    BY <1>2 DEF Above, Order
  <2> HIDE DEF R, S
  <2>5. IsFiniteSet(S)
    BY <2>1, <2>2, FS_Subset
  <2>6. IsFiniteSet(R) /\ Cardinality(R) <= Cardinality(S)
    BY <2>2, <2>5, FS_Subset
  <2>7. Cardinality(R) \in Nat /\ Cardinality(S) \in Nat
    BY <2>5, <2>6, FS_CardinalityType
  <2>8. QED
    BY <2>3, <2>4, <2>6, <2>7
<1>5. QED
  BY <1>3, <1>4

\* Of two rows that do not share their places one comes before the other.
LEMMA OwnPlaceOrdered ==
  ASSUME tab.view \in ReadLists, NEW r \in Universe(tab), HasOwnPlace(r)
  PROVE  \A s \in Universe(tab) \ {r} : <<r, s>> \in Order(tab) \/ <<s, r>> \in Order(tab)
<1>1. CASE tab.view = "blocks"
  <2>1. Numbers \subseteq Int
    BY ApiAssumption
  <2>2. \A m, n \in Numbers : m # n => <<m, n>> \in BlockOrder \/ <<n, m>> \in BlockOrder
    BY <2>1 DEF BlockOrder, BlockBefore
  <2>3. Universe(tab) = Numbers /\ Order(tab) = BlockOrder
    BY <1>1 DEF Universe, Order
  <2>4. QED
    BY <2>2, <2>3
<1>2. CASE tab.view = "tokens"
  <2>1. \A a, b \in Assets : a.id \in Int /\ b.id \in Int /\ (a.id = b.id => a = b)
    BY ApiAssumption
  <2>2. \A a, b \in Assets : a # b => <<a, b>> \in AssetOrder \/ <<b, a>> \in AssetOrder
    BY <2>1 DEF AssetOrder, AssetBefore
  <2>3. Universe(tab) = Assets /\ Order(tab) = AssetOrder
    BY <1>2 DEF Universe, Order
  <2>4. QED
    BY <2>2, <2>3
<1>3. CASE tab.view \in {"txs", "address"}
  <2>1. \A s \in Row \ {r} : TxnBefore(r, s) \/ TxnBefore(s, r)
    BY <1>3 DEF HasOwnPlace
  <2>2. Universe(tab) = Row /\ Order(tab) = TxnOrder
    BY <1>3 DEF Universe, Order
  <2>3. QED
    BY <2>1, <2>2 DEF TxnOrder
<1>4. QED
  BY <1>1, <1>2, <1>3 DEF ReadLists

\* A page shows the rows whose places it has.
LEMMA PageShows ==
  ASSUME TabInv, QueryOK, tab.view \in ReadLists, tab.page >= 1, NEW x \in ListPages(tab),
         NEW r \in Unseen, Above(r) >= Offset(tab.page), r \notin x
  PROVE  Above(r) >= Offset(tab.page + 1)
<1> DEFINE rows == Listed(tab, stored, tab.q)
           o == Offset(tab.page)
<1>1. stored \in SUBSET Numbers /\ tab.page \in Int
  BY TabRanges
<1>2. tab.view \notin {"tx", "block"}
  BY DEF ReadLists
<1>3. IsPage(x, rows, Order(tab), o + 1..o + PageSize) /\ o \in Nat /\ PageSize \in Nat
  BY <1>1, <1>2, PageRows DEF Offset
<1>4. r \in rows /\ Above(r) \in Nat
  BY UnseenListed
<1>5. rows \in SUBSET Universe(tab) /\ IsFiniteSet(rows)
  BY <1>1, ListedIn
<1>6. HasOwnPlace(r)
  BY DEF Unseen
<1>7. Untied(r, rows, Order(tab))
  BY <1>4, <1>5, <1>6, OwnPlaceOrdered DEF Untied
<1>8. Above(r) = Cardinality(RowsBefore(rows, Order(tab), r))
  BY DEF Above
<1>9. WeakOrder(Order(tab), Universe(tab))
  BY OrdersAreWeak
<1>10. Offset(tab.page + 1) = o + PageSize
  BY <1>1, OffsetIs
<1> HIDE DEF rows, o
<1>11. o <= Above(r)
  BY <1>3, <1>4 DEF o
<1>12. ASSUME Above(r) < o + PageSize PROVE FALSE
  <2>1. PlaceOn(x, r, rows, Order(tab), o, PageSize)
    BY <1>3, <1>4, <1>7, <1>8, <1>11, <1>12 DEF PlaceOn
  <2>2. r \in x
    BY <1>3, <1>4, <1>5, <1>9, <2>1, OwnPlace
  <2>3. QED
    BY <2>2
<1>13. QED
  BY <1>3, <1>4, <1>10, <1>12

LEMMA AboveIs ==
  ASSUME NEW S \in SUBSET Numbers, NEW t, NEW q, NEW r
  PROVE  Cardinality(RowsBefore(Listed(t, S, q), Order(t), r)) \in Nat
<1> DEFINE rows == Listed(t, S, q)
<1>1. IsFiniteSet(rows)
  BY ListedIn
<1>2. RowsBefore(rows, Order(t), r) \in SUBSET rows
  BY DEF RowsBefore
<1>3. QED
  BY <1>1, <1>2, FS_Subset, FS_CardinalityType

\* An address that had no balance when it was asked had no rows before.
LEMMA NoBalanceNoRows ==
  ASSUME NEW a, NEW S \in SUBSET Numbers, NEW T \in SUBSET S, BalanceAssets(S, a) = {}
  PROVE  AddressTransactions(T, a, NoFilter) = {}
<1>1. ASSUME NEW r \in AddressTransactions(T, a, NoFilter) PROVE FALSE
  <2>1. r \in Row /\ r.block \in T /\ a \in {r.from, r.to}
    BY DEF AddressTransactions, TransactionList, Selected, CombinedTxns, Row
  <2>2. PICK b \in BalanceRows : b = [block |-> r.block, address |-> a, asset |-> r.asset]
    BY <2>1, ApiAssumption
  <2>3. b.asset \in BalanceAssets(S, a)
    BY <2>1, <2>2 DEF BalanceAssets
  <2>4. QED
    BY <2>3
<1>2. QED
  BY <1>1

\* The balances of an address.
LEMMA BalancesReceived ==
  ASSUME TabInv, TabInv', NoneWithoutBalance, ReadSoFar, NEW x, AnswerOf("balances", x),
         tab.view = "address", Walking'
  PROVE  /\ ReadSoFar'
         /\ "asset_id" \notin DOMAIN tab'.q => Listed(tab', tab'.start, NoFilter) = {}
<1>1. /\ tab'.view = tab.view /\ tab'.arg = tab.arg /\ tab'.page = tab.page
      /\ tab'.start = tab.start /\ stored' = stored /\ tab'.pc = tab.pc /\ (tab'.walk <=> tab.walk)
      /\ tab.seen \subseteq tab'.seen /\ Receives("balances", x) /\ "balances" \in Calls
      /\ tab'.ans["balances"] = x
  BY DEF AnswerOf, Receives, Calls
<1>2. Walking /\ tab.page >= 1 /\ ~RowsAnswered /\ ~RowsAnswered'
  <2>1. Walking
    BY <1>1 DEF Walking, Alive
  <2>2. ~RowsAnswered /\ ~RowsAnswered'
    BY <1>1, RowsReceived
  <2>3. QED
    BY <2>1, <2>2 DEF ReadSoFar
<1>3. /\ stored \in SUBSET Numbers /\ tab.start \in SUBSET stored /\ tab.page \in Int
      /\ tab.start \in SUBSET Numbers
  <2>1. stored \in SUBSET Numbers /\ tab.start \in SUBSET stored /\ tab.page \in Int
    BY TabRanges
  <2>2. QED
    BY <2>1
<1>4. \A r : Above(r)' \in Nat
  BY <1>1, <1>3, AboveIs DEF Above
<1>5. \A r \in Unseen' : Above(r)' >= Offset(tab'.page)
  <2>1. CASE tab'.q = tab.q
    <3>1. /\ Unseen' \subseteq Unseen
          /\ \A r \in Unseen : Above(r) \in Int /\ Above(r)' \in Int /\ Above(r)' >= Above(r)
      BY <1>1, <2>1, StaysAhead
    <3>2. \A r \in Unseen : Above(r) >= Offset(tab.page)
      BY <1>2 DEF ReadSoFar, Ahead
    <3>3. Offset(tab.page) \in Int /\ tab'.page = tab.page
      BY <1>1, <1>3, OffsetIs
    <3>4. QED
      BY <3>1, <3>2, <3>3
  <2>2. CASE tab'.q # tab.q /\ tab.page = 1
    BY <1>1, <1>4, <2>2, OffsetIs
  <2>3. CASE tab'.q # tab.q /\ tab.page # 1
    <3>1. "asset_id" \notin DOMAIN tab.q /\ tab.page > 1
      BY <1>2, <1>3, <2>3 DEF AnswerOf
    <3>2. Listed(tab, tab.start, NoFilter) = {}
      BY <1>2, <3>1 DEF NoneWithoutBalance
    <3>3. Listed(tab, tab.start, tab'.q) = {}
      BY <1>3, <3>2, ListedGrows
    <3>4. Listed(tab', tab'.start, tab'.q) = {}
      BY <1>1, <3>3, ListedSame
    <3>5. QED
      BY <3>4 DEF Unseen
  <2>4. QED
    BY <2>1, <2>2, <2>3
<1>6. ReadSoFar'
  BY <1>1, <1>2, <1>5 DEF ReadSoFar, Ahead
<1>7. ASSUME "asset_id" \notin DOMAIN tab'.q PROVE Listed(tab', tab'.start, NoFilter) = {}
  <2>1. x = BalanceAssets(stored, tab.arg)
    BY DEF AnswerOf, Answers
  <2>2. x \in SUBSET {b.asset : b \in BalanceRows} /\ x \in {None, {}}
    BY <1>1, <1>7, <2>1 DEF BalanceAssets, AnswerOf
  <2>3. x = {}
    BY <2>2, PortalAssumption
  <2>4. AddressTransactions(tab.start, tab.arg, NoFilter) = {}
    BY <1>3, <2>1, <2>3, NoBalanceNoRows
  <2>5. QED
    BY <1>1, <2>4 DEF Listed
<1>8. QED
  BY <1>6, <1>7

\* The rows of a page that is read, among them all that are next.
LEMMA PageReceived ==
  ASSUME TabInv, TabInv', QueryOK, ReadSoFar, NEW x, AnswerOf("rows", x), Walking', tab'.q = tab.q
  PROVE  ReadSoFar'
<1>1. /\ tab'.view = tab.view /\ tab'.arg = tab.arg /\ tab'.page = tab.page
      /\ tab'.start = tab.start /\ stored' = stored /\ tab'.pc = tab.pc /\ (tab'.walk <=> tab.walk)
      /\ Receives("rows", x) /\ "rows" \in Calls /\ "rows" \in tab.todo
      /\ (tab.walk => tab'.seen = tab.seen \cup x) /\ tab'.todo = (tab.todo \ {"rows"}) \cup Then(tab.view, "rows")
  BY DEF AnswerOf, Receives, Calls
<1>2. Walking /\ ~RowsAnswered
  BY <1>1 DEF Walking, Alive, RowsAnswered
<1>3. tab.page >= 1 /\ Ahead(Offset(tab.page)) /\ tab.walk /\ tab.view \in ReadLists
  BY <1>2 DEF ReadSoFar, Walking
<1>4. stored \in SUBSET Numbers /\ tab.page \in Int /\ Offset(tab.page) \in Int
      /\ Offset(tab.page + 1) \in Int
  <2>1. stored \in SUBSET Numbers /\ tab.page \in Int /\ tab.page + 1 \in Int
    BY TabRanges
  <2>2. QED
    BY <2>1, OffsetIs
<1>5. x \in ListPages(tab)
  BY <1>3 DEF AnswerOf, Answers, ReadLists
<1>6. Unseen' \subseteq Unseen /\ \A r \in Unseen : Above(r)' \in Int /\ Above(r) \in Int /\ Above(r)' >= Above(r)
  BY <1>1, <1>3, StaysAhead
<1>7. \A r \in Unseen' : Above(r) >= Offset(tab.page + 1) /\ Above(r) >= Offset(tab.page)
  <2> SUFFICES ASSUME NEW r \in Unseen' PROVE Above(r) >= Offset(tab.page + 1) /\ Above(r) >= Offset(tab.page)
    OBVIOUS
  <2>1. r \in Unseen /\ r \notin x
    BY <1>1, <1>3, <1>6 DEF Unseen
  <2>2. Above(r) >= Offset(tab.page)
    BY <1>3, <2>1 DEF Ahead
  <2>3. QED
    BY <1>3, <1>5, <2>1, <2>2, PageShows
<1>8. \A r \in Unseen' : Above(r)' >= Offset(tab'.page + 1) /\ Above(r)' >= Offset(tab'.page)
  BY <1>1, <1>4, <1>6, <1>7
<1>9. tab.view # "blocks" => "total" \in tab'.todo
  BY <1>1, RowsReceived
<1>10. tab.view = "blocks" /\ ~tab'.early => "height" \in tab'.todo
  <2>1. tab.view = "blocks" => Main(tab.view) = "rows" /\ FirstCalls(tab.view, tab.arg) = {"rows", "height"}
    BY DEF Main, FirstCalls
  <2>2. QED
    BY <1>1, <2>1 DEF Receives
<1>11. QED
  BY <1>1, <1>3, <1>8, <1>9, <1>10 DEF ReadSoFar, Ahead

\* Any other answer, of which the count and the height may bound what is ahead.
LEMMA OtherReceived ==
  ASSUME TabInv, TabInv', ReadSoFar, NEW c \in Calls, NEW x, c # "rows", Walking', tab'.q = tab.q,
         AnswerOf(c, x) \/ (NoAnswerOf(c) /\ x = None), ~(c = "balances" /\ tab.view = "address")
  PROVE  ReadSoFar'
<1>1. /\ tab'.view = tab.view /\ tab'.arg = tab.arg /\ tab'.page = tab.page
      /\ tab'.start = tab.start /\ stored' = stored /\ tab'.pc = tab.pc /\ (tab'.walk <=> tab.walk)
      /\ Receives(c, x) /\ tab'.seen = tab.seen
  BY DEF AnswerOf, NoAnswerOf, Receives
<1>2. Walking /\ tab.view \in ReadLists
  BY <1>1 DEF Walking, Alive
<1>3. /\ (RowsAnswered' <=> RowsAnswered)
      /\ "total" \notin tab'.todo => c = "total" \/ "total" \notin tab.todo
      /\ "height" \notin tab'.todo => c = "height" \/ "height" \notin tab.todo
      /\ tab'.ans["total"] = IF c = "total" THEN x ELSE tab.ans["total"]
      /\ tab'.ans["height"] = IF c = "height" THEN x ELSE tab.ans["height"]
  BY <1>1, RowsReceived
<1>4. tab.view = "blocks" => (tab'.early <=> tab.early)
  BY <1>1 DEF Receives, Main
<1>5. stored \in SUBSET Numbers /\ Offset(tab.page) \in Int /\ Offset(tab.page + 1) \in Int
      /\ tab.page \in Int
  <2>1. stored \in SUBSET Numbers /\ tab.page \in Int /\ tab.page + 1 \in Int
    BY TabRanges
  <2>2. QED
    BY <2>1, OffsetIs
<1>6. Unseen' \subseteq Unseen /\ \A r \in Unseen : Above(r)' \in Int /\ Above(r) \in Int /\ Above(r)' >= Above(r)
  BY <1>1, StaysAhead
<1> DEFINE n == Cardinality(Listed(tab, stored, tab.q))
<1>7. n \in Nat /\ \A r \in Unseen : Above(r) < n
  BY <1>5, ListedIn, UnseenListed
<1> HIDE DEF n
<1>8. RowsAnswered => \A r \in Unseen : Above(r) >= Offset(tab.page + 1)
  BY <1>2 DEF ReadSoFar, Ahead
<1>9. ~RowsAnswered => \A r \in Unseen : Above(r) >= Offset(tab.page)
  BY <1>2 DEF ReadSoFar, Ahead
<1>10. RowsAnswered /\ Unseen # {} => n > Offset(tab.page + 1)
  BY <1>5, <1>6, <1>7, <1>8
<1>11. c = "total" => x = n
  BY <1>2 DEF AnswerOf, NoAnswerOf, Answers, ReadLists, n
<1>12. c = "height" /\ tab.view = "blocks" => x \in Nat /\ x >= n
  <2>1. c = "height" => x = LatestBlockNumber(stored)
    BY <1>2 DEF AnswerOf, NoAnswerOf, Answers, ReadLists
  <2>2. tab.view = "blocks" => n = Cardinality(Blocks(stored, tab.q))
    BY DEF n, Listed
  <2>3. LatestBlockNumber(stored) \in Nat /\ Cardinality(Blocks(stored, tab.q)) <= LatestBlockNumber(stored)
    BY <1>5, HeightIs, HeightCounts
  <2>4. QED
    BY <1>7, <2>1, <2>2, <2>3
<1>13. /\ tab'.page >= 1
       /\ ~RowsAnswered' => Ahead(Offset(tab.page))'
       /\ RowsAnswered' => Ahead(Offset(tab.page + 1))'
  <2>1. tab.page >= 1
    BY <1>2 DEF ReadSoFar
  <2>2. RowsAnswered => \A r \in Unseen' : Above(r)' >= Offset(tab.page + 1)
    BY <1>5, <1>6, <1>8
  <2>3. ~RowsAnswered => \A r \in Unseen' : Above(r)' >= Offset(tab.page)
    BY <1>5, <1>6, <1>9
  <2>4. QED
    BY <1>1, <1>3, <2>1, <2>2, <2>3 DEF Ahead
<1>14. ASSUME RowsAnswered', tab'.view # "blocks", "total" \notin tab'.todo
       PROVE  tab'.ans["total"] \in Nat /\ (Unseen' # {} => tab'.ans["total"] > Offset(tab'.page + 1))
  <2>1. RowsAnswered /\ tab.view # "blocks"
    BY <1>1, <1>3, <1>14
  <2>2. CASE c = "total"
    BY <1>1, <1>3, <1>6, <1>7, <1>10, <1>11, <2>1, <2>2
  <2>3. CASE c # "total"
    <3>1. tab.ans["total"] \in Nat /\ (Unseen # {} => tab.ans["total"] > Offset(tab.page + 1))
      BY <1>2, <1>3, <1>14, <2>1, <2>3 DEF ReadSoFar
    <3>2. QED
      BY <1>1, <1>3, <1>6, <2>3, <3>1
  <2>4. QED
    BY <2>2, <2>3
<1>15. ASSUME RowsAnswered', tab'.view = "blocks", ~tab'.early, "height" \notin tab'.todo
       PROVE  tab'.ans["height"] \in Nat /\ (Unseen' # {} => tab'.ans["height"] > Offset(tab'.page + 1))
  <2>1. RowsAnswered /\ tab.view = "blocks" /\ ~tab.early
    BY <1>1, <1>3, <1>4, <1>15
  <2>2. CASE c = "height"
    BY <1>1, <1>3, <1>5, <1>6, <1>7, <1>10, <1>12, <2>1, <2>2
  <2>3. CASE c # "height"
    <3>1. tab.ans["height"] \in Nat /\ (Unseen # {} => tab.ans["height"] > Offset(tab.page + 1))
      BY <1>2, <1>3, <1>15, <2>1, <2>3 DEF ReadSoFar
    <3>2. QED
      BY <1>1, <1>3, <1>6, <2>3, <3>1
  <2>4. QED
    BY <2>2, <2>3
<1>16. QED
  BY <1>13, <1>14, <1>15 DEF ReadSoFar

LEMMA ReadReceived ==
  ASSUME TabInv, TabInv', QueryOK, AssetChosen, ReadSoFar, NoneWithoutBalance, NEW c \in Calls, NEW x,
         AnswerOf(c, x) \/ (NoAnswerOf(c) /\ x = None)
  PROVE  ReadSoFar' /\ NoneWithoutBalance'
<1> SUFFICES ASSUME Walking' PROVE ReadSoFar' /\ NoneWithoutBalance'
  BY DEF ReadSoFar, NoneWithoutBalance
<1>1. CASE c = "balances" /\ tab.view = "address"
  <2>1. AnswerOf("balances", x)
    BY <1>1 DEF NoAnswerOf
  <2>2. QED
    BY <1>1, <2>1, BalancesReceived DEF NoneWithoutBalance
<1>2. CASE ~(c = "balances" /\ tab.view = "address")
  <2>1. tab'.q = tab.q
    BY <1>2, AssetReceived
  <2>2. ReadSoFar'
    <3>1. CASE c = "rows"
      <4>1. AnswerOf("rows", x)
        BY <3>1 DEF NoAnswerOf
      <4>2. QED
        BY <2>1, <4>1, PageReceived
    <3>2. CASE c # "rows"
      BY <1>2, <2>1, <3>2, OtherReceived
    <3>3. QED
      BY <3>1, <3>2
  <2>3. /\ tab'.view = tab.view /\ tab'.arg = tab.arg /\ tab'.page = tab.page
        /\ tab'.start = tab.start /\ tab'.pc = tab.pc /\ (tab'.walk <=> tab.walk)
        /\ tab'.todo = (tab.todo \ {c}) \cup Then(tab.view, c)
    BY DEF AnswerOf, NoAnswerOf, Receives
  <2>4. Walking /\ Listed(tab', tab'.start, NoFilter) = Listed(tab, tab.start, NoFilter)
    BY <2>3, ListedSame DEF Walking, Alive
  <2>5. tab.view = "address" /\ "balances" \notin tab'.todo => "balances" \notin tab.todo
    BY <1>2, <2>3
  <2>6. NoneWithoutBalance'
    BY <2>1, <2>3, <2>4, <2>5 DEF NoneWithoutBalance
  <2>7. QED
    BY <2>2, <2>6
<1>3. QED
  BY <1>1, <1>2

\* A list is begun at its first page.
LEMMA ReadBegins ==
  ASSUME TabInv', BeginsAfresh
  PROVE  ReadSoFar' /\ NoneWithoutBalance'
<1> SUFFICES ASSUME Walking' PROVE ReadSoFar' /\ NoneWithoutBalance'
  BY DEF ReadSoFar, NoneWithoutBalance
<1>1. /\ tab'.page = 1 /\ tab'.view \in ReadLists /\ stored' = stored
      /\ tab'.todo = FirstCalls(tab'.view, tab'.arg)
  BY DEF Walking, ReadLists, BeginsAfresh, Begins
<1>2. ~RowsAnswered' /\ (tab'.view = "address" => "balances" \in tab'.todo)
  BY <1>1 DEF RowsAnswered, FirstCalls, ReadLists
<1>3. stored' \in SUBSET Numbers
  BY DEF TabInv, ChartInv, ChartTypes
<1>4. \A r : Above(r)' \in Nat
  BY <1>3, AboveIs DEF Above
<1>5. Ahead(Offset(tab.page))'
  BY <1>1, <1>4, OffsetIs DEF Ahead
<1>6. QED
  BY <1>1, <1>2, <1>5 DEF ReadSoFar, NoneWithoutBalance

LEMMA ReadGoesOn ==
  ASSUME TabInv, TabInv', ShownFull, ReadSoFar, NoneWithoutBalance, ReadsOn
  PROVE  ReadSoFar' /\ NoneWithoutBalance'
<1> SUFFICES ASSUME Walking' PROVE ReadSoFar' /\ NoneWithoutBalance'
  BY DEF ReadSoFar, NoneWithoutBalance
<1>1. /\ tab'.view = tab.view /\ tab'.arg = tab.arg /\ tab'.q = tab.q /\ tab'.start = tab.start
      /\ tab'.seen = tab.seen /\ stored' = stored /\ tab'.page = PageOf(tab.page + 1)
      /\ tab'.view \in ReadLists /\ tab'.todo = FirstCalls(tab'.view, tab'.arg)
      /\ tab.pc = "shown" /\ tab.walk
  BY DEF Walking, ReadLists, ReadsOn, Begins
<1>2. Walking /\ RowsAnswered /\ "balances" \notin tab.todo
  BY <1>1 DEF Walking, Alive, RowsAnswered, ShownFull
<1>3. ~RowsAnswered'
  BY <1>1 DEF RowsAnswered, FirstCalls, ReadLists
<1>4. tab.page \in Int /\ tab.page >= 1 /\ Ahead(Offset(tab.page + 1))
  BY <1>2, TabRanges DEF ReadSoFar
<1>5. tab'.page = tab.page + 1
  BY <1>1, <1>4 DEF PageOf
<1>6. Unseen' \subseteq Unseen /\ \A r \in Unseen : Above(r)' \in Int /\ Above(r) \in Int /\ Above(r)' >= Above(r)
  BY <1>1, StaysAhead
<1>7. Offset(tab.page + 1) \in Int
  <2>1. tab.page + 1 \in Int
    BY <1>4
  <2>2. QED
    BY <2>1, OffsetIs
<1>8. Ahead(Offset(tab.page))'
  BY <1>4, <1>5, <1>6, <1>7 DEF Ahead
<1>9. ReadSoFar'
  BY <1>3, <1>4, <1>5, <1>8 DEF ReadSoFar
<1>10. NoneWithoutBalance'
  <2>1. Listed(tab', tab'.start, NoFilter) = Listed(tab, tab.start, NoFilter)
    BY <1>1, ListedSame
  <2>2. QED
    BY <1>1, <1>2, <2>1 DEF NoneWithoutBalance
<1>11. QED
  BY <1>9, <1>10

\* Blocks may be saved, the page shown.
LEMMA ReadSame ==
  ASSUME TabInv, TabInv', ReadSoFar, NoneWithoutBalance, Stays \/ Rendered
  PROVE  ReadSoFar' /\ NoneWithoutBalance'
<1> SUFFICES ASSUME Walking' PROVE ReadSoFar' /\ NoneWithoutBalance'
  BY DEF ReadSoFar, NoneWithoutBalance
<1>1. /\ tab'.view = tab.view /\ tab'.arg = tab.arg /\ tab'.q = tab.q /\ tab'.start = tab.start
      /\ tab'.seen = tab.seen /\ stored \subseteq stored' /\ tab'.page = tab.page
      /\ tab'.todo = tab.todo /\ tab'.ans = tab.ans
      /\ (tab'.walk <=> tab.walk) /\ (tab'.early <=> tab.early)
      /\ tab.pc \in {"loading", "shown"} \/ tab.pc = tab'.pc
  BY DEF Stays, Rendered
<1>2. Walking /\ (RowsAnswered' <=> RowsAnswered)
  BY <1>1 DEF Walking, Alive, RowsAnswered
<1>3. tab.page \in Int /\ Offset(tab.page) \in Int /\ Offset(tab.page + 1) \in Int
  <2>1. tab.page \in Int /\ tab.page + 1 \in Int
    BY TabRanges
  <2>2. QED
    BY <2>1, OffsetIs
<1>4. Unseen' \subseteq Unseen /\ \A r \in Unseen : Above(r)' \in Int /\ Above(r) \in Int /\ Above(r)' >= Above(r)
  BY <1>1, StaysAhead
<1>5. /\ ~RowsAnswered' => Ahead(Offset(tab.page))'
      /\ RowsAnswered' => Ahead(Offset(tab.page + 1))'
  <2>1. ~RowsAnswered => \A r \in Unseen : Above(r) >= Offset(tab.page)
    BY <1>2 DEF ReadSoFar, Ahead
  <2>2. RowsAnswered => \A r \in Unseen : Above(r) >= Offset(tab.page + 1)
    BY <1>2 DEF ReadSoFar, Ahead
  <2>3. ~RowsAnswered => \A r \in Unseen' : Above(r)' >= Offset(tab.page)
    BY <1>3, <1>4, <2>1
  <2>4. RowsAnswered => \A r \in Unseen' : Above(r)' >= Offset(tab.page + 1)
    BY <1>3, <1>4, <2>2
  <2>5. QED
    BY <1>1, <1>2, <2>3, <2>4 DEF Ahead
<1>6. Unseen' # {} => Unseen # {}
  BY <1>4
<1>7. ReadSoFar'
  BY <1>1, <1>2, <1>5, <1>6 DEF ReadSoFar
<1>8. NoneWithoutBalance'
  <2>1. Listed(tab', tab'.start, NoFilter) = Listed(tab, tab.start, NoFilter)
    BY <1>1, ListedSame
  <2>2. QED
    BY <1>1, <1>2, <2>1 DEF NoneWithoutBalance
<1>9. QED
  BY <1>7, <1>8

ListInv == TabInv /\ QueryOK /\ ShownFull /\ RowsFit /\ AssetChosen /\ ReadSoFar /\ NoneWithoutBalance

LEMMA ListNext == ListInv /\ [Next]_vars => ListInv'
<1> SUFFICES ASSUME ListInv, [Next]_vars PROVE ListInv'
  OBVIOUS
<1>1. TabInv /\ QueryOK /\ ShownFull /\ RowsFit /\ AssetChosen /\ ReadSoFar /\ NoneWithoutBalance
  BY DEF ListInv
<1>2. TabInv' /\ QueryOK' /\ ShownFull' /\ RowsFit' /\ AssetChosen'
  BY <1>1, TabNext, QueryNext, ShownNext, FitNext
<1>3. ReadSoFar' /\ NoneWithoutBalance'
  <2>1. CASE Stays \/ Rendered
    BY <1>1, <1>2, <2>1, ReadSame
  <2>2. CASE AtHome \/ Gone
    BY <2>2 DEF AtHome, Gone, ReadSoFar, NoneWithoutBalance, Walking, ReadLists, Alive
  <2>3. CASE BeginsAfresh
    BY <1>2, <2>3, ReadBegins
  <2>4. CASE ReadsOn
    BY <1>1, <1>2, <2>4, ReadGoesOn
  <2>5. ASSUME NEW c \in Calls, NEW x, AnswerOf(c, x) \/ (NoAnswerOf(c) /\ x = None)
        PROVE  ReadSoFar' /\ NoneWithoutBalance'
    BY <1>1, <1>2, <2>5, ReadReceived
  <2>6. QED
    BY <1>1, <2>1, <2>2, <2>3, <2>4, <2>5, StepIs
<1>4. QED
  BY <1>2, <1>3 DEF ListInv

LEMMA ListInit == Init => ListInv
<1> SUFFICES ASSUME Init PROVE ListInv
  OBVIOUS
<1>1. tab.pc = "idle"
  BY BlankIs DEF Init
<1>2. QED
  BY <1>1, TabInit, QueryInit DEF ListInv, ShownFull, RowsFit, AssetChosen, ReadSoFar,
                                  NoneWithoutBalance, Walking, Alive

\* A user who reads a list from its first page to its last, link by link, is shown
\* every row that was there when he began and has a place of its own, whatever is
\* saved meanwhile; and the rows displayed are of the number displayed: for any
\* rows, blocks, filters and size of a page.
THEOREM ListsAreWholeInvariant == Spec => []ListsAreWhole
<1>1. ASSUME ListInv, tab.pc = "shown", tab.view \in ReadLists, tab.walk, tab.page >= PageCount(tab),
             ~(tab.view = "blocks" /\ tab.early)
      PROVE  {r \in Listed(tab, tab.start, tab.q) : HasOwnPlace(r)} \subseteq tab.seen
  <2>1. Walking /\ RowsAnswered /\ tab.todo = {} /\ tab.page \in Int
    BY <1>1, TabRanges DEF ListInv, ShownFull, Walking, Alive, RowsAnswered
  <2> DEFINE n == IF tab.view = "blocks" THEN tab.ans["height"] ELSE tab.ans["total"]
  <2>2. n \in Nat /\ (Unseen # {} => n > Offset(tab.page + 1))
    BY <1>1, <2>1 DEF ListInv, ReadSoFar
  <2>3. PageCount(tab) = Ceil(n, PageSize)
    BY <1>1 DEF PageCount, ReadLists
  <2> HIDE DEF n
  <2>4. Offset(tab.page + 1) >= n
    BY <1>1, <2>1, <2>2, <2>3, LastPage
  <2>5. Offset(tab.page + 1) \in Int
    <3>1. tab.page + 1 \in Int
      BY <2>1
    <3>2. QED
      BY <3>1, OffsetIs
  <2>6. Unseen = {}
    BY <2>2, <2>4, <2>5
  <2>7. QED
    BY <2>6 DEF Unseen
<1>2. ASSUME ListInv, tab.pc = "shown", tab.view \in {"block", "txs", "tx", "address", "tokens"}
      PROVE  LET before == IF tab.view \in {"block", "tx"} THEN 0 ELSE (tab.page - 1) * PageSize
             IN  tab.ans["rows"] # {} => before + Cardinality(tab.ans["rows"]) <= tab.ans["total"]
  BY <1>2 DEF ListInv, ShownFull, RowsFit, Alive, RowsAnswered, Fits, Offset
<1>3. ListInv => ListsAreWhole
  BY <1>1, <1>2 DEF ListsAreWhole, ReadLists
<1>4. QED
  BY <1>3, ListInit, ListNext, PTL DEF Spec


=============================================================================
