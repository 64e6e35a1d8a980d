-------------------------------- MODULE Api --------------------------------
(***************************************************************************)
(* The REST endpoints of api/chalice-api/app.py as operators on what is in *)
(* PostgreSQL: S, the numbers of the blocks stored, whose rows never       *)
(* change here and become visible together (BlockStore's commit).          *)
(*                                                                         *)
(* A query q is a record whose fields are the parameters that are given.   *)
(* Several values separated by commas are a set; a block's timestamp is its*)
(* number.  The joins with balances and assets give columns and, as        *)
(* Balances' JoinsOneBalance says, no further rows; columns nobody decides *)
(* by are left out.                                                        *)
(***************************************************************************)
EXTENDS Integers, FiniteSets, FiniteSetsExt

CONSTANTS
    Numbers,        \* numbers of the blocks there may be
    Transactions,   \* rows of transaction, over all these blocks
    Traces,         \* rows of trace, type "Internal"
    Assets,         \* rows of asset
    BalanceRows,    \* rows of balance
    BlockHash,      \* block number -> hash
    NoNumber,       \* a parameter that does not parse
    Now,            \* the time of a request
    DefaultLimit,   \* 30
    MaxLimit        \* 200

TxnTypes   == {"Standard", "Contract", "Internal"}
TxnFlows   == {"Outgoing", "Incoming"}
AssetTypes == {"Staking", "Spending", "Reserved", "Test", "User-generated"}

Row == Transactions \cup Traces

\* Blocks are numbered from 1: block 0 is never stored (EtlSync's GetBlock).  The
\* tables are finite.  The chain gives each asset an id of its own, each block a hash
\* of its own and each transaction one of its block's: its traces have it too.
ASSUME ApiAssumption ==
    /\ Now \in Nat /\ Numbers \subseteq 1..Now
    /\ IsFiniteSet(Row) /\ IsFiniteSet(Assets)
    /\ \A r \in Row : r.block \in Numbers /\ r.index \in Int /\ r.type \in TxnTypes
    /\ \A r \in Row : r.type = "Internal" <=> r \in Traces
    /\ \A r \in Row : \A p \in {r.from, r.to} :
          [block |-> r.block, address |-> p, asset |-> r.asset] \in BalanceRows
    /\ \A a \in Assets : a.id \in Int /\ a.block \in Numbers /\ a.type \in AssetTypes
    /\ \A a, b \in Assets : a.id = b.id => a = b
    /\ \A m, n \in Numbers : BlockHash[m] = BlockHash[n] => m = n
    /\ \A r, s \in Row : r.hash = s.hash => r.block = s.block
    /\ NoNumber \notin Int
    /\ MaxLimit \in Nat /\ DefaultLimit \in 1..MaxLimit
-----------------------------------------------------------------------------
(* Parameters                                                              *)

Param(q, name, default) == IF name \in DOMAIN q THEN q[name] ELSE default

GetPage(q) == IF Param(q, "page", NoNumber) = NoNumber THEN 1 ELSE q.page

GetLimit(q) ==
    LET limit == Param(q, "limit", NoNumber)
    IN  IF limit = NoNumber \/ limit <= 0 THEN DefaultLimit ELSE Min({limit, MaxLimit})

\* The empty array, of none or of one that is no number, filters nothing.
GetAssetId(q) ==
    LET ids == Param(q, "asset_id", {}) IN IF NoNumber \in ids THEN {} ELSE ids

GetTxnFlow(q)   == Param(q, "txn_flow", TxnFlows)
GetTxnType(q)   == Param(q, "txn_type", TxnTypes)
GetAssetType(q) == Param(q, "asset_type", AssetTypes)

GetStartTime(q) == Param(q, "start_time", 0)
GetEndTime(q)   == Param(q, "end_time", Now)

StartRefused(q) == GetStartTime(q) = NoNumber \/ GetStartTime(q) < 0 \/ GetStartTime(q) > Now
EndRefused(q)   == GetEndTime(q) = NoNumber \/ GetEndTime(q) < 0

\* 400 Bad Request.
TimesRefused(q) == StartRefused(q) \/ EndRefused(q) \/ GetStartTime(q) > GetEndTime(q)

\* PostgreSQL has no negative OFFSET: 500.
PageRefused(q) == GetPage(q) < 1
-----------------------------------------------------------------------------
(* WHERE, ORDER BY, LIMIT and OFFSET                                       *)

OfAsset(q, id) == GetAssetId(q) = {} \/ id \in GetAssetId(q)
InTime(q, n)   == n \in GetStartTime(q)..GetEndTime(q)

\* {id}: a block number or a block hash.
Identifies(id, n) == id = n \/ id = BlockHash[n]

\* ORDER BY block_number DESC, index ASC.  index is an extrinsic's place in its
\* block, or a trace's event's within its extrinsic: not an order of all rows.
TxnBefore(r, s)   == r.block > s.block \/ (r.block = s.block /\ r.index < s.index)
BlockBefore(m, n) == m > n
AssetBefore(a, b) == a.id < b.id

\* What LIMIT and OFFSET may return: rows that the order ties share their
\* places as the query happens to sort them.
PossiblePages(rows, Before(_, _), q) ==
    LET Above(r)  == Cardinality({s \in rows : Before(s, r)})
        Tied(r)   == {s \in rows : ~Before(r, s) /\ ~Before(s, r)}
        Places(r) == Above(r) + 1..Above(r) + Cardinality(Tied(r))
        window    == (GetPage(q) - 1) * GetLimit(q) + 1..GetPage(q) * GetLimit(q)
    IN  {P \in SUBSET rows :
            \A r \in rows : Cardinality(P \cap Tied(r)) = Cardinality(Places(r) \cap window)}
-----------------------------------------------------------------------------
(* Blocks                                                                  *)

Blocks(S, q) == {n \in S : InTime(q, n)}

\* Mutant: the number of blocks, not the highest.
CountedBlockNumber(S) == Cardinality(S)

\* MAX of no rows is null, which the callers' comparisons take for 0.
LatestBlockNumber(S) == Max(S \cup {0})

Block(S, id) == {n \in S : Identifies(id, n)}

\* The column the block task counts in: traces are not counted.
TransactionCount(n) == Cardinality({r \in Transactions : r.block = n})
-----------------------------------------------------------------------------
(* Transactions, "combined" with traces                                    *)

CombinedTxns(S) == {r \in Transactions \cup Traces : r.block \in S}

Selected(rows, q) == {r \in rows : r.type \in GetTxnType(q) /\ OfAsset(q, r.asset)}

TransactionList(S, q) == Selected({r \in CombinedTxns(S) : InTime(q, r.block)}, q)

BlockTransactions(S, id, q) == Selected(CombinedTxns(Block(S, id)), q)

TransactionHash(S, h) == {r \in Transactions : r.block \in S /\ r.hash = h}

\* All of them: the query has no LIMIT.
TransactionInternal(S, h, q) ==
    {r \in Traces : r.block \in S /\ r.hash = h /\ OfAsset(q, r.asset)}

Flow(r, address) == IF r.from = address THEN "Outgoing" ELSE "Incoming"

AddressTransactions(S, address, q) ==
    {r \in TransactionList(S, q) :
        address \in {r.from, r.to} /\ Flow(r, address) \in GetTxnFlow(q)}
-----------------------------------------------------------------------------
(* Balances, assets and statistics                                         *)

\* The assets of the latest balances; their amounts are Balances' LatestBalances.
BalanceAssets(S, address) ==
    {b.asset : b \in {c \in BalanceRows : c.block \in S /\ c.address = address}}

AssetList(S, q) ==
    {a \in Assets : a.block \in S /\ a.type \in GetAssetType(q) /\ OfAsset(q, a.id)}

Stats(S) ==
    LET txns == {r \in Transactions : r.block \in S}
    IN  [transactionCount |-> Cardinality(txns),
         addressCount |-> Cardinality({r.from : r \in txns} \cup {r.to : r \in txns})]

Trunc(unit, t) == t - (t % unit)

\* The bins of a period [split, range, interval], with the transactions of each:
\* those that have any, and a series of all up to the last split.
StatsTransactions(S, p) ==
    LET bin(n)  == Trunc(p.split, n) + Trunc(p.interval, n % p.split)
        blocks  == {n \in S : n >= Now - p.range /\ TransactionCount(n) > 0}
        last    == Trunc(p.split, Now)
        series  == {t \in last - p.range..last : (last - t) % p.interval = 0}
        Sum(t)  == FoldSet(LAMBDA n, sum : sum + TransactionCount(n), 0, {n \in blocks : bin(n) = t})
    IN  [t \in {bin(n) : n \in blocks} \cup series |-> Sum(t)]
=============================================================================
