----------------------------- MODULE MCBalances -----------------------------
(* Five accounts and a contract, two assets, and two bodies that hold       *)
(* between them every kind of change.                                       *)
EXTENDS Balances, TLC

CONSTANTS alice, bob, carol, dave, erin, contract, gold, silver, GoldBody, SilverBody

Signed(kind, from, to, asset, ok, inner) ==
    [kind |-> kind, from |-> from, to |-> to, asset |-> asset, ok |-> ok, inner |-> inner]

\* A transfer in an asset that is not the fee's, one to oneself that fails, and a
\* call that makes the contract pay twice.
Golden ==
    [exts |-> <<Signed("transfer", alice, bob, silver, TRUE, <<>>),
                Signed("transfer", bob, bob, gold, FALSE, <<>>),
                Signed("call", carol, contract, gold, TRUE,
                       << <<contract, dave>>, <<contract, dave>> >>)>>,
     validators |-> <<erin>>, rewarded |-> FALSE, slashed |-> None, spending |-> gold]

\* An instantiation, a new asset, a transfer and two claims, of which one fails;
\* a reward and a slash; after a block of the other kind the spending asset changes.
Silver ==
    [exts |-> <<Signed("instantiate", alice, contract, silver, TRUE, <<>>),
                Signed("create", bob, bob, silver, TRUE, <<>>),
                Signed("transfer", carol, dave, gold, TRUE, <<>>),
                Signed("claim", dave, dave, silver, TRUE, <<>>),
                Signed("claim", carol, carol, silver, FALSE, <<>>)>>,
     validators |-> <<erin, alice>>, rewarded |-> TRUE, slashed |-> erin, spending |-> silver]

MCContent == GoldBody :> Golden @@ SilverBody :> Silver

MCGenesisValidators == <<erin>>

\* No process is told from another.
BuilderSymmetry == Permutations(Builders)
=============================================================================
