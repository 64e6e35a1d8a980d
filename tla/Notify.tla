------------------------------- MODULE Notify -------------------------------
(***************************************************************************)
(* From the orchestrator's notification to the home page: the ws service   *)
(* (ws/src/ws/notify.gateway.ts) and the script of the page                *)
(* (portal/src/assets/js/ws/ws-client.js).                                 *)
(*                                                                         *)
(* The orchestrator posts one block at a time (RealTime's Notify), waits   *)
(* two seconds at most and goes on; what it posted is served all the same, *)
(* so requests overlap.  Each reads the height, then the block and its     *)
(* transactions, from the api, over awaits, and broadcasts to the pages.   *)
(***************************************************************************)
EXTENDS Integers, FiniteSets, SequencesExt

CONSTANTS
    MaxHandlers,   \* bound: requests ws serves at a time
    Pages,         \* home pages, one per browser
    Txns,          \* block -> the rows of its transactions, in the api's order
    MaxBlock,      \* bound: blocks of the chain
    ListSize,      \* blocks on the home page, 5 in the code
    TableSize,     \* transactions on the home page, 10 in the code
    MaxRequests,   \* bound: requests to ws
    MaxFaults,     \* bound: requests refused
    MaxLoads       \* bound: times a page is opened

Numbers  == 1..MaxBlock
Handlers == 1..MaxHandlers
None     == 0

ASSUME TxnsAssumption  ==
    DOMAIN Txns = Numbers /\ \A n \in Numbers : Txns[n] \in Seq(Range(Txns[n]))
ASSUME BoundAssumption ==
    /\ {MaxBlock, ListSize, TableSize} \subseteq Nat \ {0}
    /\ {MaxHandlers, MaxRequests, MaxFaults, MaxLoads} \subseteq Nat

VARIABLES
    stored,    \* numbers of the blocks in the database
    waiting,   \* the request the orchestrator waits for, or None
    handler,   \* what ws is serving: handler -> request
    top,       \* auxiliary: the highest block broadcast so far, 0 at first
    page,      \* page -> what a browser shows of it
    count      \* requests, faults and loads so far

vars == <<stored, waiting, handler, top, page, count>>

Rows == UNION {Range(Txns[n]) : n \in Numbers}

\* A broadcast: the block's number, and whether it and its transactions were found.
Broadcasts == [n : Numbers, found : BOOLEAN, rows : BOOLEAN]

\* pending: the requests of the Promise.all that are not answered yet; floor,
\* auxiliary: the highest block broadcast before the height was read.
Requests == [pc : {"free", "height", "fetch"}, n : Numbers \cup {0}, found : BOOLEAN,
             rows : BOOLEAN, floor : Numbers \cup {0}, pending : SUBSET {"block", "txns"}]

Free == [pc |-> "free", n |-> 0, found |-> FALSE, rows |-> FALSE, floor |-> 0, pending |-> {}]

\* An entry of the block list; number 0 is the placeholder of the template.
Entry == [n : Numbers \cup {0}, hidden : BOOLEAN]

\* pending: the requests the page is rendered from that are not answered yet;
\* list, table: the elements of .block-inner and the rows of .tx-table; listed,
\* tabled, got: auxiliary, the blocks and the rows it was rendered with and the
\* broadcasts shown since.
PageState == [pc : {"away", "loaded", "connected"}, pending : SUBSET {"blocks", "txns"},
              list : Seq(Entry), template : Entry, anim : BOOLEAN, table : Seq(Rows),
              inbox : Seq(Broadcasts), listed : Seq(Numbers), tabled : Seq(Rows),
              got : Seq(Broadcasts)]

Placeholder == [n |-> 0, hidden |-> TRUE]

Away == [pc |-> "away", pending |-> {}, list |-> <<>>, template |-> Placeholder,
         anim |-> FALSE, table |-> <<>>, inbox |-> <<>>, listed |-> <<>>, tabled |-> <<>>,
         got |-> <<>>]

TypeOK ==
    /\ stored \subseteq Numbers
    /\ waiting \in Handlers \cup {None}
    /\ handler \in [Handlers -> Requests]
    /\ top \in Numbers \cup {0}
    /\ page \in [Pages -> PageState]
    /\ count \in [requests : 0..MaxRequests, faults : 0..MaxFaults, loads : 0..MaxLoads]
    /\ \A h \in Handlers : handler[h].pc = "free" <=> handler[h] = Free
    /\ \A b \in Pages : page[b].pc = "away" <=> page[b] = Away

Init ==
    /\ stored = {}
    /\ waiting = None
    /\ handler = [h \in Handlers |-> Free]
    /\ top = 0
    /\ page = [b \in Pages |-> Away]
    /\ count = [requests |-> 0, faults |-> 0, loads |-> 0]

\* SELECT MAX("number"), null of no rows, which compares like 0.
Height == Max(stored \cup {0})

\* The numbers of a set, the highest first.
Descending(S) == CHOOSE s \in [1..Cardinality(S) -> S] :
    \A i, j \in 1..Cardinality(S) : i < j => s[i] > s[j]

\* The first k elements of a sequence.
First(s, k) == SubSeq(s, 1, Min({k, Len(s)}))

\* Rows of several blocks, newest first, as the api lists them.
TableOf(ns) == FlattenSeq([i \in DOMAIN ns |-> Txns[ns[i]]])
-----------------------------------------------------------------------------
(* The orchestrator and other clients of ws.                               *)

\* An extraction saves a block, in any order: task queue or real-time.
Store(n) ==
    /\ n \notin stored
    /\ stored' = stored \cup {n}
    /\ UNCHANGED <<waiting, handler, top, page, count>>

\* Which of the free slots a request takes makes no difference: the lowest.
Serve(h, n) ==
    /\ handler[h] = Free /\ (\A g \in 1..h - 1 : handler[g] # Free)
    /\ count.requests < MaxRequests
    /\ count' = [count EXCEPT !.requests = @ + 1]
    /\ handler' = [handler EXCEPT ![h] = [Free EXCEPT !.pc = "height", !.n = n]]

\* SendMessage, for a block extracted just now: any that is stored, as heads
\* may fall back and a new process starts anywhere.
Post(h, n) ==
    /\ waiting = None /\ n \in stored
    /\ Serve(h, n)
    /\ waiting' = h
    /\ UNCHANGED <<stored, top, page>>

\* The context's two seconds are over: the orchestrator goes on, ws too.
Timeout ==
    /\ waiting # None
    /\ waiting' = None
    /\ UNCHANGED <<stored, handler, top, page, count>>

\* onEvent: a socket's message, as scripts/send-message.js sends, of any number.
Message(h, n) ==
    /\ Serve(h, n)
    /\ UNCHANGED <<stored, waiting, top, page>>
-----------------------------------------------------------------------------
(* broadcastLatestBlock                                                    *)

\* Mutant: what the request had found is kept for the next.
EndRequestUncleared(h) ==
    /\ handler' = [handler EXCEPT ![h].pc = "free"]
    /\ waiting' = IF waiting = h THEN None ELSE waiting

\* The handler is done, and answers the orchestrator if that still waits.
EndRequest(h) ==
    /\ handler' = [handler EXCEPT ![h] = Free]
    /\ waiting' = IF waiting = h THEN None ELSE waiting

\* Mutant: the latest block is not taken for the latest.
NewEnoughStrict(n) == n > Height

\* Mutant: the comparison lets the block before the latest through.
NewEnoughOffByOne(n) == n + 1 >= Height

NewEnough(n) == n >= Height

ReadHeight(h) ==
    /\ handler[h].pc = "height"
    /\ IF NewEnough(handler[h].n)
       THEN /\ handler' = [handler EXCEPT ![h] =
                   [@ EXCEPT !.pc = "fetch", !.pending = {"block", "txns"}, !.floor = top]]
            /\ UNCHANGED waiting
       ELSE EndRequest(h)
    /\ UNCHANGED <<stored, top, page, count>>

FetchedBlock(h) ==
    /\ "block" \in handler[h].pending
    /\ handler' = [handler EXCEPT ![h] =
          [@ EXCEPT !.pending = handler[h].pending \ {"block"},
                     !.found = handler[h].n \in stored]]
    /\ UNCHANGED <<stored, waiting, top, page, count>>

FetchedTxns(h) ==
    /\ "txns" \in handler[h].pending
    /\ handler' = [handler EXCEPT ![h] =
          [@ EXCEPT !.pending = handler[h].pending \ {"txns"},
                     !.rows = handler[h].n \in stored]]
    /\ UNCHANGED <<stored, waiting, top, page, count>>

Fault ==
    /\ count.faults < MaxFaults
    /\ count' = [count EXCEPT !.faults = @ + 1]

\* getBlock takes a refusal for "no such block".
BlockRefused(h) ==
    /\ "block" \in handler[h].pending
    /\ Fault
    /\ handler' = [handler EXCEPT ![h].pending = @ \ {"block"}]
    /\ UNCHANGED <<stored, waiting, top, page>>

\* Any other refusal rejects the request.
RequestRefused(h) ==
    /\ handler[h].pc = "height" \/ "txns" \in handler[h].pending
    /\ Fault
    /\ EndRequest(h)
    /\ UNCHANGED <<stored, top, page>>

\* server.emit reaches the pages that are connected.
Broadcast(h) ==
    /\ handler[h].pc = "fetch" /\ handler[h].pending = {}
    /\ LET m == [n |-> handler[h].n, found |-> handler[h].found, rows |-> handler[h].rows] IN
       /\ top' = IF m.found THEN Max({top, m.n}) ELSE top
       /\ page' = [b \in Pages |-> IF page[b].pc = "connected"
                                   THEN [page[b] EXCEPT !.inbox = Append(@, m)]
                                   ELSE page[b]]
    /\ EndRequest(h)
    /\ UNCHANGED <<stored, count>>
-----------------------------------------------------------------------------
(* The home page                                                           *)

\* HomeController asks for the blocks and the transactions at once ...
Open(b) ==
    /\ page[b].pc = "away" /\ count.loads < MaxLoads
    /\ page' = [page EXCEPT ![b] = [Away EXCEPT !.pc = "loaded", !.list = <<Placeholder>>,
                                                !.pending = {"blocks", "txns"}]]
    /\ count' = [count EXCEPT !.loads = @ + 1]
    /\ UNCHANGED <<stored, waiting, handler, top>>

\* ... and is answered the highest blocks, to be rendered behind a hidden
\* placeholder, when the one query runs ...
ListRead(b) ==
    /\ "blocks" \in page[b].pending
    /\ LET ns == First(Descending(stored), ListSize)
       IN  page' = [page EXCEPT ![b] =
              [@ EXCEPT !.pending = page[b].pending \ {"blocks"}, !.listed = ns,
                        !.list = <<Placeholder>> \o
                                 [i \in DOMAIN ns |-> [n |-> ns[i], hidden |-> FALSE]]]]
    /\ UNCHANGED <<stored, waiting, handler, top, count>>

\* ... and the newest transactions when the other does, before or after.
TableRead(b) ==
    /\ "txns" \in page[b].pending
    /\ LET rows == First(TableOf(Descending(stored)), TableSize)
       IN  page' = [page EXCEPT ![b] =
              [@ EXCEPT !.pending = page[b].pending \ {"txns"}, !.tabled = rows, !.table = rows]]
    /\ UNCHANGED <<stored, waiting, handler, top, count>>

\* The page is rendered and socket.io connects, and again after a loss; what was
\* sent between is lost.
Connect(b) ==
    /\ page[b].pc = "loaded" /\ page[b].pending = {}
    /\ page' = [page EXCEPT ![b].pc = "connected"]
    /\ UNCHANGED <<stored, waiting, handler, top, count>>

Drop(b) ==
    /\ page[b].pc = "connected"
    /\ page' = [page EXCEPT ![b].pc = "loaded", ![b].inbox = <<>>]
    /\ UNCHANGED <<stored, waiting, handler, top, count>>

\* The browser goes elsewhere, or a request is refused and there is no page.
Leave(b) ==
    /\ page[b].pc # "away"
    /\ page' = [page EXCEPT ![b] = Away]
    /\ UNCHANGED <<stored, waiting, handler, top, count>>

\* Mutant: the new row is put on top before the last one is taken away.
PushRow(table, row) == IF table = <<>> THEN <<>> ELSE <<row>> \o SubSeq(table, 2, Len(table))

\* The last row goes, if there is one, the new one comes on top.
PrependRow(table, row) == <<row>> \o First(table, Max({0, Len(table) - 1}))

\* The script on 'latestBlock': the first entry becomes the block and shows, its
\* former self is kept for later.  A block of null ends it with a TypeError.
Received(p, m) ==
    IF ~m.found
    THEN [p EXCEPT !.inbox = Tail(@), !.template = p.list[1]]
    ELSE [p EXCEPT !.inbox = Tail(@), !.template = p.list[1],
                   !.list = [@ EXCEPT ![1] = [n |-> m.n, hidden |-> FALSE]],
                   !.anim = TRUE,
                   !.table = FoldLeft(PrependRow, @, IF m.rows THEN Txns[m.n] ELSE <<>>),
                   !.got = Append(@, m)]

Receive(b) ==
    /\ page[b].inbox # <<>>
    /\ page' = [page EXCEPT ![b] = Received(@, Head(page[b].inbox))]
    /\ UNCHANGED <<stored, waiting, handler, top, count>>

\* The entry on top becomes the hidden one.
Hide(e) == [e EXCEPT !.hidden = TRUE]

\* Mutant: the first entry is removed, not the last.
AnimatedDroppingFirst(p) == <<Hide(p.template)>> \o Tail(p.list)

\* The template is prepended, the last entry removed, the first hidden.
Animated(p) == <<Hide(p.template)>> \o SubSeq(p.list, 1, Len(p.list) - 1)

TransitionEnd(b) ==
    /\ page[b].anim
    /\ page' = [page EXCEPT ![b] = [@ EXCEPT !.anim = FALSE, !.list = Animated(page[b])]]
    /\ UNCHANGED <<stored, waiting, handler, top, count>>
-----------------------------------------------------------------------------
HandlerStep(h) ==
    ReadHeight(h) \/ FetchedBlock(h) \/ FetchedTxns(h) \/ Broadcast(h)

HandlerFault(h) == BlockRefused(h) \/ RequestRefused(h)

BrowserStep(b) ==
    \/ Open(b) \/ ListRead(b) \/ TableRead(b) \/ Connect(b) \/ Drop(b) \/ Leave(b)
    \/ Receive(b) \/ TransitionEnd(b)

Next ==
    \/ \E n \in Numbers : Store(n)
    \/ \E h \in Handlers, n \in Numbers : Post(h, n) \/ Message(h, n)
    \/ Timeout
    \/ \E h \in Handlers : HandlerStep(h) \/ HandlerFault(h)
    \/ \E b \in Pages : BrowserStep(b)

Spec == Init /\ [][Next]_vars

\* Requests are answered (or refused), a connected page gets its events.
FairSpec ==
    /\ Spec
    /\ \A h \in Handlers : WF_vars(HandlerStep(h))
    /\ \A b \in Pages : WF_vars(Receive(b))
-----------------------------------------------------------------------------
(* Properties                                                              *)

\* A block is broadcast after a higher one only if that one was broadcast while
\* it was being fetched: requests that do not overlap, late ones of a timeout or
\* posted after a fall of the head included, never take the pages back.
NoRelapse ==
    \A h \in Handlers : handler[h].pc = "fetch" => handler[h].n >= handler[h].floor

\* The blocks broadcast and the blocks listed at first, newest first.
Fed(p) == Reverse([i \in DOMAIN p.got |-> p.got[i].n]) \o p.listed

Showing(p) == {i \in DOMAIN p.list : ~p.list[i].hidden}

\* Each entry that shows has its place in what the page was fed.
InOrder(p) ==
    /\ Len(p.list) = 1 + Len(p.listed)
    /\ \A i \in DOMAIN p.list : p.list[i].hidden <=> i = 1 /\ ~p.anim
    /\ \E place \in [Showing(p) -> DOMAIN Fed(p)] :
          /\ \A i \in Showing(p) : p.list[i].n = Fed(p)[place[i]]
          /\ \A i, j \in Showing(p) : i < j => place[i] < place[j]
          /\ p.listed # <<>> => \E i \in Showing(p) : place[i] = 1

\* However broadcasts and animations interleave, the page keeps its number of
\* entries, all show but the first, which shows while it is animated.  A page
\* whose list was not empty shows the last block it got on top and below it
\* earlier ones in order, none twice or out of its place; a burst may skip blocks.
ListInOrder == \A b \in Pages : page[b].pc # "away" => InOrder(page[b])

\* The rows the page was sent, newest on top, above those it was rendered with.
FedRows(p) ==
    LET rows == FlattenSeq([i \in DOMAIN p.got |-> IF p.got[i].rows THEN Txns[p.got[i].n] ELSE <<>>])
    IN  Reverse(rows) \o p.tabled

\* The rows it keeps: as many as it was rendered with, one if it had none.
TableRows(p) == Max({1, Len(p.tabled)})

\* The table loses no transaction to a burst: it shows the newest of what the
\* page was sent and rendered with, as many as it was rendered with.
TableLatest == \A b \in Pages : page[b].table = First(FedRows(page[b]), TableRows(page[b]))

\* A block the orchestrator posts reaches every page that stays connected, late
\* as its request may be answered, unless a higher one is stored or a request
\* is refused.
PostedIsShown ==
    \A b \in Pages, n \in Numbers :
        waiting # None /\ handler[waiting].n = n /\ page[b].pc = "connected" ~>
            \/ \E i \in DOMAIN page[b].got : page[b].got[i].n = n
            \/ page[b].pc # "connected"
            \/ n < Height
            \/ count.faults > 0
=============================================================================
