------------------------------ MODULE MCPortal ------------------------------
(***************************************************************************)
(* Portal for TLC: block 1 has a transaction, block 2 a contract call with *)
(* a trace that has its index, block 3 two transactions.                   *)
(***************************************************************************)
EXTENDS Portal

CONSTANTS alice, bob, b1, b2, b3, x1, x2, x3, x4

Txn(n, i, type, hash, from, to, asset) ==
    [block |-> n, index |-> i, type |-> type, hash |-> hash, from |-> from, to |-> to,
     asset |-> asset]

MCTransactions ==
    {Txn(1, 1, "Standard", x1, alice, bob, 1), Txn(2, 1, "Contract", x2, bob, alice, 2),
     Txn(3, 1, "Standard", x3, alice, bob, 1), Txn(3, 2, "Standard", x4, alice, alice, 2)}

MCTraces == {Txn(2, 1, "Internal", x2, alice, bob, 2)}

MCAssets == {[id |-> 1, type |-> "Staking", block |-> 1],
             [id |-> 2, type |-> "Spending", block |-> 1],
             [id |-> 3, type |-> "User-generated", block |-> 3]}

MCBalanceRows ==
    UNION {{[block |-> r.block, address |-> p, asset |-> r.asset] : p \in {r.from, r.to}} :
              r \in MCTransactions \cup MCTraces}

MCBlockHash == <<b1, b2, b3>>

MCFilters ==
    [v \in Views |-> {NoFilter} \cup
        CASE v = "block"   -> {[txn_type |-> {"Internal"}]}
          [] v = "txs"     -> {[asset_id |-> {1, 3}], [start_time |-> 3, end_time |-> 2],
                               [start_time |-> 2]}
          [] v = "tx"      -> {[asset_id |-> {1}]}
          [] v = "address" -> {[asset_id |-> {2}, txn_flow |-> {"Incoming"}]}
          [] v = "tokens"  -> {[asset_type |-> {"Staking", "Spending"}]}
          [] OTHER         -> {}]

MCUserPages == {-1, 0}

MCPeriod == [split |-> 2, range |-> 2, interval |-> 1]

\* Only the home page has a part in the chart: the other pages are looked at
\* with no chart about, the chart with the blocks its range covers.
Focus ==
    \/ cache = None /\ \A f \in Flights : flight[f] = NoFlight
    \/ tab.view = "home" /\ stored \subseteq {2, 3}
=============================================================================
