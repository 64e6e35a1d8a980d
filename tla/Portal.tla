------------------------------- MODULE Portal -------------------------------
(***************************************************************************)
(* The pages of the portal (portal/src/controllers) as one browser tab     *)
(* visits them while blocks are being saved.  A page is put together from  *)
(* several requests to the api (portal/src/services/data.service.ts) that  *)
(* run at the same time: each reads the database when it happens to be     *)
(* served, a list and its total in two statements of their own.            *)
(*                                                                         *)
(* The chart of the home page comes from a cache that a timer refreshes.   *)
(***************************************************************************)
EXTENDS Api

CONSTANTS
    None,
    Addresses,    \* addresses asked for
    Filters,      \* view -> the filters a user may choose there, as api queries
    Flights,      \* bound: requests for the chart at a time
    UserPages,    \* page numbers in links from elsewhere; bound: how low links lead
    MaxPage,      \* bound: how high they lead
    PageSize,     \* rows of a page of a list, 20 in the code
    DetailSize,   \* transactions on the page of a block, 50
    Period        \* the chart's [split, range, interval]

Hashes   == {BlockHash[n] : n \in Numbers} \cup {r.hash : r \in Row}
Views    == {"home", "blocks", "block", "txs", "tx", "address", "tokens", "search"}
NoFilter == [x \in {} |-> None]

Args(v) ==
    CASE v = "block"   -> Numbers \cup {BlockHash[n] : n \in Numbers}
      [] v = "tx"      -> {r.hash : r \in Transactions}
      [] v = "address" -> Addresses
      [] v = "search"  -> Numbers \cup Hashes \cup Addresses
      [] OTHER         -> {None}

\* What is searched for is a number, a hash or an address.  No page asks for more
\* than the api gives, and no filter is about pages.
ASSUME PortalAssumption ==
    /\ None \notin Numbers /\ None \notin Row /\ None \notin Hashes \cup Addresses
    /\ \A A \in SUBSET {b.asset : b \in BalanceRows} : None # A
    /\ Numbers \cap (Hashes \cup Addresses) = {}
    /\ {PageSize, DetailSize} \subseteq 1..MaxLimit
    /\ UserPages \subseteq Int /\ (\E k \in UserPages : \A j \in UserPages : k <= j)
    /\ MaxPage \in Int
    /\ DOMAIN Filters = Views
    /\ \A v \in Views : \A q \in Filters[v] : DOMAIN q \cap {"page", "pageNumber", "limit"} = {}

VARIABLES
    stored,   \* numbers of the blocks in the database
    tab,      \* the page the tab shows or loads
    cache,    \* the blocks the cached chart was computed from, or None
    flight,   \* requests for the chart that are under way
    floor     \* auxiliary: the blocks the cache must know of

chart == <<cache, flight, floor>>
vars  == <<stored, tab, chart>>

Calls == {"rows", "total", "height", "chain", "assets", "block", "tx", "balances",
          "blocks", "all", "chart"}

NoAnswers == [c \in Calls |-> None]

\* todo: requests not answered; ans: the answers.  Auxiliary: walk, whether the
\* user has read on from page 1 link by link, start, the blocks stored when he
\* began, seen, the rows he was shown; early, whether a request was answered before
\* the one for what the page is about; refused, whether one was taken for "none";
\* landed, whether a search led here.
Blank == [pc |-> "idle", view |-> "home", arg |-> None, q |-> NoFilter, page |-> 1,
          todo |-> {}, ans |-> NoAnswers, walk |-> FALSE, start |-> {}, seen |-> {},
          early |-> FALSE, refused |-> FALSE, landed |-> FALSE]

\* began, of: the blocks stored when it was made and when it was computed;
\* waited: the tab waits for it.
NoFlight == [began |-> None, of |-> None, waited |-> FALSE]

Init ==
    /\ stored = {}
    /\ tab = Blank
    /\ cache = None
    /\ flight = [f \in Flights |-> NoFlight]
    /\ floor = {}
-----------------------------------------------------------------------------
(* DataService: the requests                                               *)

\* What a controller asks for at once.
FirstCalls(v, a) ==
    CASE v = "home"    -> {"chain", "blocks", "rows", "chart"}
      [] v = "blocks"  -> {"rows", "height"}
      [] v = "block"   -> {"block", "rows", "assets"}
      [] v = "txs"     -> {"chain", "rows", "assets"}
      [] v = "tx"      -> {"tx", "height", "rows", "assets"}
      [] v = "address" -> {"balances"}
      [] v = "tokens"  -> {"assets", "rows"}
      [] v = "search"  -> IF a \in Addresses THEN {"balances"}
                          ELSE IF a \in Numbers THEN {"block"} ELSE {"block", "tx"}

\* Mutant: the rows of an address are counted while they are selected.
ThenCountAtOnce(v, c) ==
    CASE c = "rows" /\ v \notin {"blocks", "address"} -> {"total"}
      [] c = "balances" /\ v = "address" -> {"total", "rows", "all"}
      [] OTHER -> {}

\* What follows an answer: the api's second statement, which counts; the rest
\* of an address's page.
Then(v, c) ==
    CASE c = "rows" /\ v # "blocks" -> {"total"}
      [] c = "balances" /\ v = "address" -> {"rows", "all"}
      [] OTHER -> {}

\* Parameters, with those of more that are not among them.
With(q, more) ==
    [x \in DOMAIN q \cup DOMAIN more |-> IF x \in DOMAIN q THEN q[x] ELSE more[x]]

\* The parameters of the list.  The api has no pageNumber.
Query(t) ==
    CASE t.view = "block" -> With(t.q, [pageNumber |-> t.page, limit |-> DetailSize])
      [] t.view = "tx"    -> With(t.q, [pageNumber |-> t.page, limit |-> PageSize])
      [] OTHER            -> With(t.q, [page |-> t.page, limit |-> PageSize])

Listed(t, S, q) ==
    CASE t.view = "blocks"  -> Blocks(S, q)
      [] t.view = "block"   -> BlockTransactions(S, t.arg, q)
      [] t.view = "tx"      -> TransactionInternal(S, t.arg, q)
      [] t.view = "address" -> AddressTransactions(S, t.arg, q)
      [] t.view = "tokens"  -> AssetList(S, q)
      [] OTHER              -> TransactionList(S, q)

ListPages(t) ==
    LET rows == Listed(t, stored, t.q) IN
    CASE t.view = "blocks" -> PossiblePages(rows, BlockBefore, Query(t))
      [] t.view = "tokens" -> PossiblePages(rows, AssetBefore, Query(t))
      [] t.view = "tx"     -> {rows}
      [] OTHER             -> PossiblePages(rows, TxnBefore, Query(t))

\* 400 or 500.
ListRefused(t) ==
    \/ t.view \in {"blocks", "txs", "address"} /\ TimesRefused(Query(t))
    \/ t.view \notin {"home", "tx"} /\ PageRefused(Query(t))

\* getAssetsAndTotalByHash: the assets of all the traces, which have no limit.
InternalAssets(S, h) == {r.asset : r \in TransactionInternal(S, h, NoFilter)}

\* The choices for the filter: of the assets as such, or of the rows, which the
\* default limit cuts off.
OfferedAssets(t) ==
    CASE t.view = "block" ->
            {{r.asset : r \in P} :
                P \in PossiblePages(BlockTransactions(stored, t.arg, NoFilter), TxnBefore, NoFilter)}
      [] t.view = "tx" -> {InternalAssets(stored, t.arg)}
      [] OTHER -> PossiblePages(AssetList(stored, NoFilter), AssetBefore, NoFilter)

OneOf(rows) == IF rows = {} THEN None ELSE CHOOSE r \in rows : TRUE

\* What request c may be answered now; those of the home page, its latest blocks
\* and transactions, nobody tells apart here.
Answers(t, c) ==
    CASE t.view = "home" -> {{}}
      [] c = "rows"     -> ListPages(t)
      [] c = "total"    -> {Cardinality(Listed(t, stored, t.q))}
      [] c = "all"      -> {Cardinality(AddressTransactions(stored, t.arg,
                               [x \in DOMAIN t.q \cap {"asset_id"} |-> t.q[x]]))}
      [] c = "height"   -> {LatestBlockNumber(stored)}
      [] c = "chain"    -> {Stats(stored)}
      [] c = "block"    -> {OneOf(Block(stored, t.arg))}
      [] c = "tx"       -> {OneOf(TransactionHash(stored, t.arg))}
      [] c = "balances" -> {BalanceAssets(stored, t.arg)}
      [] c = "assets"   -> OfferedAssets(t)
-----------------------------------------------------------------------------
(* The tab                                                                 *)

\* A block is saved, below or above the others.
Store(n) ==
    /\ n \notin stored
    /\ stored' = stored \cup {n}
    /\ UNCHANGED <<tab, chart>>

\* A request for a page; with a chart in the cache there is none for the chart.
Load(v, a, q, k) ==
    LET cached == v = "home" /\ cache # None
    IN  [Blank EXCEPT !.pc = "loading", !.view = v, !.arg = a, !.q = q, !.page = k,
                      !.todo = FirstCalls(v, a) \ (IF cached THEN {"chart"} ELSE {}),
                      !.ans = [@ EXCEPT !["chart"] = IF cached THEN cache ELSE None],
                      !.start = stored]

\* A request for the chart sets out, in one of the free places.
Depart(w) ==
    /\ \E f \in Flights : flight[f] = NoFlight
    /\ flight' = [flight EXCEPT ![CHOOSE f \in Flights : flight[f] = NoFlight] =
                    [began |-> stored, of |-> None, waited |-> w]]

\* The tab is gone; its request for the chart goes on and fills the cache.
Unawaited == [f \in Flights |-> [flight[f] EXCEPT !.waited = FALSE]]

\* Mutant: without || 1.
PageAsGiven(k) == k

\* Number(query.page) || 1.
PageOf(k) == IF k = 0 THEN 1 ELSE k

Visit(v, a, q, k) ==
    /\ tab.pc # "loading"
    /\ tab' = [Load(v, a, q, PageOf(k)) EXCEPT !.walk = PageOf(k) = 1]
    /\ IF v = "home" /\ cache = None THEN Depart(TRUE) ELSE UNCHANGED flight
    /\ UNCHANGED <<stored, cache, floor>>

Ceil(n, k) == (n + k - 1) \div k

PageCount(t) ==
    CASE t.view = "blocks" -> Ceil(t.ans["height"], PageSize)
      [] t.view = "block"  -> Ceil(TransactionCount(t.ans["block"]), DetailSize)
      [] t.view \in {"txs", "address", "tokens"} -> Ceil(t.ans["total"], PageSize)
      [] OTHER -> 0

\* The links of the pagination: First, Previous, three each side, Next, Last.
Links(t) ==
    LET k == t.page
        n == PageCount(t)
    IN  IF n <= 1 THEN {}
        ELSE (1..n \cap k - 3..k + 3) \cup (IF k # 1 THEN {1, k - 1} ELSE {})
                                     \cup (IF k # n THEN {k + 1, n} ELSE {})

\* Previous and Next may lead out of the pages there are, here to the bounds.
Click ==
    /\ tab.pc = "shown"
    /\ \E k \in Links(tab) :
          LET on == tab.walk /\ k = tab.page + 1 IN
          /\ k \in Min(UserPages)..MaxPage
          /\ tab' = [Load(tab.view, tab.arg, tab.q, PageOf(k)) EXCEPT
                       !.walk = on,
                       !.start = IF on THEN tab.start ELSE @,
                       !.seen = IF on THEN tab.seen ELSE @]
    /\ UNCHANGED <<stored, chart>>

\* The asset an address's page shows, if it has a balance: the form has no field
\* for it, and keeps it.
KeptAsset ==
    IF tab.view = "address" /\ "asset_id" \in DOMAIN tab.q
       /\ \E id \in tab.ans["balances"] : tab.q.asset_id = {id}
    THEN [asset_id |-> tab.q.asset_id]
    ELSE NoFilter

\* The fields of the form of a page, those left empty left out.
Entered(v) ==
    CASE v = "address" -> {[x \in DOMAIN q \ {"asset_id"} |-> q[x]] : q \in Filters[v]}
      [] v \in {"block", "txs", "tx", "tokens"} -> Filters[v]
      [] OTHER -> {}

FormLeadsTo(q) ==
    /\ tab.pc = "shown"
    /\ tab' = [Load(tab.view, tab.arg, With(q, KeptAsset), 1) EXCEPT !.walk = TRUE]
    /\ UNCHANGED <<stored, chart>>

\* The form is sent, with whatever fields; it begins at page 1 again.
Submit == \E q \in Entered(tab.view) : FormLeadsTo(q)

\* The button that clears the form.
Reset == Entered(tab.view) # {} /\ FormLeadsTo(NoFilter)

Failed(t) == [Blank EXCEPT !.pc = "error", !.view = t.view, !.arg = t.arg,
                           !.start = t.start, !.refused = t.refused, !.landed = t.landed]

\* What the page is about, where properties ask what was read before it.
Main(v) == CASE v = "tx" -> "tx" [] v = "block" -> "block" [] v = "blocks" -> "rows" [] OTHER -> None

\* Answer c of the tab's load is x.
Answered(t, c, x) ==
    [t EXCEPT !.todo = (@ \ {c}) \cup Then(t.view, c),
              !.ans = [@ EXCEPT ![c] = x],
              !.seen = IF c = "rows" /\ t.walk THEN @ \cup x ELSE @,
              !.early = IF c = Main(t.view) THEN t.todo # FirstCalls(t.view, t.arg) ELSE @]

\* The address's page shows one asset: that of the first balance, if none is
\* chosen; the links then keep it.
DefaultAsset(t) ==
    IF t.view = "address" /\ "asset_id" \notin DOMAIN t.q /\ t.ans["balances"] \notin {None, {}}
    THEN [t EXCEPT !.q = With(@, [asset_id |-> {Min(t.ans["balances"])}])]
    ELSE t

Answer(c) ==
    /\ c \in tab.todo \ {"chart"}
    /\ IF c = "rows" /\ ListRefused(tab)
       THEN tab' = Failed(tab) /\ flight' = Unawaited
       ELSE /\ \E x \in Answers(tab, c) : tab' = DefaultAsset(Answered(tab, c, x))
            /\ UNCHANGED flight
    /\ UNCHANGED <<stored, cache, floor>>

\* A request is refused or lost: getBlock and getTx take that for "none", any
\* other makes an error page.
Refuse(c) ==
    /\ c \in tab.todo \ {"chart"}
    /\ IF c \in {"block", "tx"}
       THEN tab' = [Answered(tab, c, None) EXCEPT !.refused = TRUE] /\ UNCHANGED flight
       ELSE tab' = [Failed(tab) EXCEPT !.refused = TRUE] /\ flight' = Unawaited
    /\ UNCHANGED <<stored, cache, floor>>

\* Mutant: a hash is taken for a transaction's.
SearchResultOfHash(t) ==
    IF t.arg \in Addresses THEN <<"address", t.arg>>
    ELSE IF t.arg \in Numbers /\ t.ans["block"] # None THEN <<"block", t.ans["block"]>>
    ELSE IF t.ans["tx"] # None THEN <<"tx", t.ans["tx"].hash>>
    ELSE <<>>

\* Where a search leads, if anywhere.
SearchResult(t) ==
    IF t.arg \in Addresses THEN <<"address", t.arg>>
    ELSE IF t.ans["block"] # None THEN <<"block", t.ans["block"]>>
    ELSE IF t.ans["tx"] # None THEN <<"tx", t.ans["tx"].hash>>
    ELSE <<>>

\* All requests are answered.  A block's page reads block.transactionCount, and
\* fails if there is no block; a transaction's page and a search answer 404.
Render ==
    /\ tab.pc = "loading" /\ tab.todo = {} /\ tab.view # "search"
    /\ tab' = CASE tab.view = "block" /\ tab.ans["block"] = None -> Failed(tab)
                [] tab.view = "tx" /\ tab.ans["tx"] = None -> [Failed(tab) EXCEPT !.pc = "notfound"]
                [] OTHER -> [tab EXCEPT !.pc = "shown"]
    /\ UNCHANGED <<stored, chart>>

Redirect ==
    /\ tab.pc = "loading" /\ tab.todo = {} /\ tab.view = "search"
    /\ LET found == SearchResult(tab) IN
       tab' = IF found = <<>>
              THEN [Failed(tab) EXCEPT !.pc = "notfound"]
              ELSE [Load(found[1], found[2], NoFilter, 1) EXCEPT
                      !.walk = TRUE, !.refused = tab.refused, !.landed = TRUE]
    /\ UNCHANGED <<stored, chart>>
-----------------------------------------------------------------------------
(* The cache of the chart                                                  *)

\* Mutant: the timer's refresh is answered from the cache.
RefreshFromCache ==
    /\ \E f \in Flights :
          /\ flight[f] = NoFlight
          /\ flight' = [flight EXCEPT ![f] = [began |-> stored, of |-> cache, waited |-> FALSE]]
    /\ UNCHANGED <<stored, tab, cache, floor>>

\* The timer, every 30 minutes, goes past the cache.
Refresh == Depart(FALSE) /\ UNCHANGED <<stored, tab, cache, floor>>

\* The api computes the answer, then it travels back.
Compute(f) ==
    /\ flight[f] # NoFlight /\ flight[f].of = None
    /\ flight' = [flight EXCEPT ![f].of = stored]
    /\ UNCHANGED <<stored, tab, cache, floor>>

\* Refused or lost; the page that waits for it fails.
FlightFails(f) ==
    /\ flight[f] # NoFlight
    /\ flight' = [flight EXCEPT ![f] = NoFlight]
    /\ tab' = IF flight[f].waited THEN [Failed(tab) EXCEPT !.refused = TRUE] ELSE tab
    /\ UNCHANGED <<stored, cache, floor>>

\* The answer goes to the cache, over what is there, and to the page that waits.
Cache(f) ==
    /\ flight[f].of # None
    /\ cache' = flight[f].of
    /\ flight' = [flight EXCEPT ![f] = NoFlight]
    /\ floor' = floor \cup {n \in flight[f].began :
                   \A g \in Flights : flight[g] # NoFlight => n \in flight[g].began}
    /\ tab' = IF flight[f].waited THEN Answered(tab, "chart", flight[f].of) ELSE tab
    /\ UNCHANGED stored
-----------------------------------------------------------------------------
TabStep ==
    \/ \E v \in Views : \E a \in Args(v), q \in Filters[v], k \in UserPages : Visit(v, a, q, k)
    \/ Click \/ Submit \/ Reset
    \/ \E c \in Calls : Answer(c) \/ Refuse(c)
    \/ Render \/ Redirect

ChartStep == Refresh \/ (\E f \in Flights : Compute(f) \/ Cache(f) \/ FlightFails(f))

Next == (\E n \in Numbers : Store(n)) \/ TabStep \/ ChartStep

Spec == Init /\ [][Next]_vars
-----------------------------------------------------------------------------
(* Properties                                                              *)

TypeOK ==
    /\ stored \subseteq Numbers
    /\ DOMAIN tab = DOMAIN Blank
    /\ tab.pc \in {"idle", "loading", "shown", "notfound", "error"}
    /\ tab.view \in Views /\ tab.arg \in Args(tab.view) /\ tab.page \in Int \ {0}
    /\ tab.todo \subseteq Calls /\ (tab.todo = {} \/ tab.pc = "loading")
    /\ DOMAIN tab.ans = Calls
    /\ tab.start \subseteq stored /\ tab.seen \subseteq Listed(tab, stored, NoFilter)
    /\ cache = None \/ cache \subseteq stored
    /\ \A f \in Flights : flight[f] = NoFlight \/ flight[f].began \subseteq stored
    /\ "chart" \in tab.todo <=> \E f \in Flights : flight[f].waited
    /\ floor \subseteq stored

Shown(v) == tab.pc = "shown" /\ tab.view = v

\* A row that has its place to itself in the list's order.
HasOwnPlace(r) ==
    tab.view \in {"txs", "address"} =>
        \A s \in Row \ {r} : TxnBefore(r, s) \/ TxnBefore(s, r)

\* A user who reads a list from page 1 to its last page, link by link, has seen
\* every row that was there when he began and shares its place with no other,
\* whatever blocks are saved meanwhile above or below; of the block list, unless
\* the height that bounds its last page was read before its rows.  And in
\* "Displaying x of y" the rows up to this page's are among those counted, on the
\* page of a block or transaction the rows are.
ListsAreWhole ==
    /\ /\ tab.pc = "shown" /\ tab.view \in {"blocks", "txs", "address", "tokens"}
       /\ tab.walk /\ tab.page >= PageCount(tab)
       /\ ~(tab.view = "blocks" /\ tab.early)
       => {r \in Listed(tab, tab.start, tab.q) : HasOwnPlace(r)} \subseteq tab.seen
    /\ tab.pc = "shown" /\ tab.view \in {"block", "txs", "tx", "address", "tokens"} =>
        LET before == IF tab.view \in {"block", "tx"} THEN 0 ELSE (tab.page - 1) * PageSize
        IN  tab.ans["rows"] # {} => before + Cardinality(tab.ans["rows"]) <= tab.ans["total"]

\* The parts of the page of a block, and of a transaction, agree with each other
\* if none was read before the block or transaction itself: they are those of
\* the whole block, and no transaction has less than one confirmation.
DetailAgrees ==
    /\ Shown("block") /\ ~tab.early =>
        LET rows == BlockTransactions(Numbers, tab.ans["block"], tab.q) IN
        /\ tab.ans["total"] = Cardinality(rows)
        /\ Cardinality(tab.ans["rows"]) = Min({DetailSize, Cardinality(rows)})
        /\ tab.q = NoFilter => {r.asset : r \in tab.ans["rows"]} # {} \/ tab.ans["assets"] = {}
    /\ Shown("tx") /\ ~tab.early =>
        /\ tab.ans["height"] - tab.ans["tx"].block + 1 >= 1
        /\ tab.ans["total"] = Cardinality(TransactionInternal(Numbers, tab.arg, tab.q))
        /\ {r.asset : r \in tab.ans["rows"]} \subseteq tab.ans["assets"]

\* A search that ends in 404 found nothing that was stored when it began; one
\* that finds something leads to a page that shows it.  Both unless a request
\* was refused.
SearchLands ==
    ~tab.refused =>
        /\ tab.view = "search" /\ tab.pc = "notfound" =>
              Block(tab.start, tab.arg) = {} /\ TransactionHash(tab.start, tab.arg) = {}
        /\ tab.landed => tab.pc \notin {"notfound", "error"}

\* Refresh after refresh the chart counts what was stored when the refresh began,
\* never less again, unless a request that was made earlier is answered later.
ChartNotStale ==
    cache # None =>
        LET now == StatsTransactions(cache, Period)
            old == StatsTransactions(floor, Period)
        IN  \A t \in DOMAIN old : t \in DOMAIN now /\ now[t] >= old[t]
=============================================================================
