------------------------------ MODULE Balances ------------------------------
(***************************************************************************)
(* From the chain to the balance the api answers.  export_all processes    *)
(* build the rows of a block (etl/src/task/block-task.ts and its handlers):*)
(* the transactions, and the balance of every account and asset the block  *)
(* is known to change, read at that block.  They save them, and the api    *)
(* answers from the row of the highest block number (app.py).              *)
(*                                                                         *)
(* A block is its history: the sequence of the bodies up to it, as its     *)
(* hash stands for it.  A balance is the block that last changed it, the   *)
(* empty history if none did, so that two readings can be told apart.      *)
(*                                                                         *)
(* Two processes may save the same block.  The transaction of such a save  *)
(* is its begin and its commit: what another process has committed between *)
(* them may have been missed by the DELETEs, from the first table up to    *)
(* some one, because under READ COMMITTED each sees what was committed     *)
(* when it started (BlockStore has the statements one by one).             *)
(***************************************************************************)
EXTENDS Integers, FiniteSets, SequencesExt

CONSTANTS
    Accounts, Assets,
    StakingAsset,     \* what a slash is taken from
    GenesisSpending,  \* the asset fees are paid in, until a block changes it
    GenesisValidators, \* the validators before the first block
    Bodies, Content,  \* the bodies a block may have, and what each holds
    None,
    Builders,         \* export_all processes, each building one block at a time
    MaxHeight,        \* bound: height of the chain
    MaxReorgs         \* bound: reorganisations

\* The signed extrinsics the handlers look for.  "ok" tells whether more was
\* done than the fee charged; a call that is ok has the event of its own
\* transfer first, then those of the transfers the contract made, in inner.
Extrinsic ==
    [kind : {"transfer", "call", "instantiate", "create", "claim"},
     from : Accounts, to : Accounts, asset : Assets, ok : BOOLEAN,
     inner : Seq(Accounts \X Accounts)]

\* rewarded: a reward is paid to the validators of the block before;
\* slashed: whose stake is; spending: the asset fees are paid in afterwards.
Body == [exts : Seq(Extrinsic), validators : Seq(Accounts), rewarded : BOOLEAN,
         slashed : Accounts \cup {None}, spending : Assets]

ASSUME AssetAssumption == StakingAsset \in Assets /\ GenesisSpending \in Assets
ASSUME GenesisAssumption == GenesisValidators \in Seq(Accounts)
ASSUME BodyAssumption  == Content \in [Bodies -> Body]
ASSUME BoundAssumption == MaxHeight \in Nat \ {0} /\ MaxReorgs \in Nat
ASSUME NoneAssumption  == None \notin Accounts

VARIABLES
    chain,    \* the best chain, a block's history at each height
    builder,  \* process -> the block it has fetched, or None
    saved,    \* block number -> the copies the database holds of it
    overlapped, \* the numbers of which another copy came during the last save
    reorgs    \* reorganisations so far

vars == <<chain, builder, saved, overlapped, reorgs>>

Heights == 1..MaxHeight
Block   == UNION {[1..n -> Bodies] : n \in Heights}
Parent(block) == Front(block)
BodyOf(block)     == Content[Last(block)]
Spending(block)   == IF block = <<>> THEN GenesisSpending ELSE BodyOf(block).spending
Validators(block) == IF block = <<>> THEN GenesisValidators ELSE BodyOf(block).validators

BalanceRow == [account : Accounts, asset : Assets, balance : Block \cup {<<>>}]
Transfer   == [from : Accounts, to : Accounts, asset : Assets]

\* since: the processes that have saved the same number since this one began to.
Builder == [block : Block, pc : {"building", "saving"}, since : SUBSET Builders]

\* What one process has saved of a block, or what is left of it.
IsCopy(c, n) ==
    /\ c.by \in Builders /\ c.block \in Block /\ Len(c.block) = n
    /\ c.transactions \subseteq Transfer /\ c.traces \subseteq Transfer
    /\ \A i \in DOMAIN c.balances : c.balances[i] \in BalanceRow

TypeOK ==
    /\ chain \in Block \cup {<<>>}
    /\ builder \in [Builders -> Builder \cup {None}]
    /\ DOMAIN saved = Heights
    /\ \A n \in Heights : \A c \in saved[n] :
          IsCopy(c, n) /\ \A d \in saved[n] : c.by = d.by => c = d
    /\ overlapped \subseteq Heights
    /\ reorgs \in 0..MaxReorgs

Init ==
    /\ chain = <<>>
    /\ builder = [w \in Builders |-> None]
    /\ saved = [n \in Heights |-> {}]
    /\ overlapped = {}
    /\ reorgs = 0
-----------------------------------------------------------------------------
(* The node.                                                               *)

\* What an extrinsic changes of the assets there were before: the fee is paid
\* in the asset s, which the block began with.
ChangedByExtrinsic(x, s) ==
    {<<x.from, s>>}
    \cup (IF x.kind = "transfer" /\ x.ok THEN {<<x.from, x.asset>>, <<x.to, x.asset>>} ELSE {})
    \cup (IF x.kind = "instantiate" /\ x.ok THEN {<<x.to, s>>} ELSE {})
    \cup (IF x.kind = "call" /\ x.ok
          THEN {<<x.to, s>>} \cup UNION {{<<t[1], s>>, <<t[2], s>>} : t \in Range(x.inner)}
          ELSE {})

\* The accounts and assets whose balance the block changes.
Changed(block) ==
    LET b == BodyOf(block)
        s == Spending(Parent(block))
    IN  (UNION {ChangedByExtrinsic(x, s) : x \in Range(b.exts)})
        \cup (IF b.rewarded THEN Range(Validators(Parent(block))) \X {s} ELSE {})
        \cup (IF b.slashed # None THEN {<<b.slashed, StakingAsset>>} ELSE {})

\* getFreeBalance.at(block): the balance after the block.
GetBalance(block, account, asset) ==
    LET changes == {n \in DOMAIN block : <<account, asset>> \in Changed(SubSeq(block, 1, n))}
    IN  IF changes = {} THEN <<>> ELSE SubSeq(block, 1, Max(changes))

ChainGrows(body) ==
    /\ Len(chain) < MaxHeight
    /\ chain' = Append(chain, body)
    /\ UNCHANGED <<builder, saved, overlapped, reorgs>>

\* The best chain goes over to a branch from height k.
Reorganised(k, body) ==
    /\ reorgs < MaxReorgs /\ k < Len(chain)
    /\ body # chain[k + 1]
    /\ chain' = Append(SubSeq(chain, 1, k), body)
    /\ reorgs' = reorgs + 1
    /\ UNCHANGED <<builder, saved, overlapped>>
-----------------------------------------------------------------------------
(* BlockTask: "changes" collects accounts and assets, in order; a pair is  *)
(* looked up once.                                                         *)

\* Mutant: a pair is pushed whether or not it is there.
PushChange(changes, change) == Append(changes, change)

AddChange(changes, change) ==
    IF change \in Range(changes) THEN changes ELSE Append(changes, change)

\* Sender and recipient; "always check spend token for sender".
AddTransaction(t, spending) ==
    LET change(acc) ==
            << <<acc, t.asset>> >> \o
            (IF acc = t.from /\ t.asset # spending THEN << <<acc, spending>> >> ELSE <<>>)
    IN  change(t.from) \o change(t.to)

AddTrace(t, spending) == AddTransaction(t, spending)

AddContract(x, spending) == << <<x.from, spending>>, <<x.to, spending>> >>

\* The creator's and the issuer's fee.
AddNewAsset(x, spending)    == << <<x.from, spending>> >>
AddAttestation(x, spending) == << <<x.from, spending>> >>

\* A slash comes without an asset, which stands for the staking asset; warnings
\* and the start of an era change no balance.
AddStaking(event, account, asset) ==
    IF event \in {"Reward", "Slash"} THEN << <<account, asset>> >> ELSE <<>>
-----------------------------------------------------------------------------
(* The handlers: what each adds to "changes", in the order of its input.   *)

ForEach(op(_), s) == FlattenSeq([i \in DOMAIN s |-> op(s[i])])

Extrinsics(block, kind) ==
    ForEach(LAMBDA x : IF x.kind = kind THEN <<x>> ELSE <<>>, BodyOf(block).exts)

\* Instantiated, Created and ClaimSet are events: a failed extrinsic has none.
Events(block, kind) ==
    ForEach(LAMBDA x : IF x.ok THEN <<x>> ELSE <<>>, Extrinsics(block, kind))

TxHandler(block) ==
    ForEach(LAMBDA x : AddTransaction(x, Spending(block)), Extrinsics(block, "transfer"))

\* Mutant: rewards are looked up in the asset of the block itself.
StakingHandlerOwnAsset(block) ==
    IF BodyOf(block).rewarded
    THEN ForEach(LAMBDA v : AddStaking("Reward", v, Spending(block)), Validators(Parent(block)))
    ELSE <<>>

\* Mutant: a slash is looked up whether or not there was one.
StakingHandlerUnchecked(block) == AddStaking("Slash", BodyOf(block).slashed, StakingAsset)

\* A reward goes to the validators of the parent block, in the asset of the
\* parent block; a slash is looked up in the staking asset.
StakingHandler(block) ==
    (IF BodyOf(block).rewarded
     THEN ForEach(LAMBDA v : AddStaking("Reward", v, Spending(Parent(block))),
                  Validators(Parent(block)))
     ELSE <<>>)
    \o (IF BodyOf(block).slashed # None
        THEN AddStaking("Slash", BodyOf(block).slashed, StakingAsset) ELSE <<>>)

Traces(x, spending) ==
    IF x.ok
    THEN [i \in DOMAIN x.inner |-> [from |-> x.inner[i][1], to |-> x.inner[i][2], asset |-> spending]]
    ELSE <<>>

Call(x, spending) == [from |-> x.from, to |-> x.to, asset |-> spending]

ContractHandler(block) ==
    LET s == Spending(block)
        call(x) == AddTransaction(Call(x, s), s) \o ForEach(LAMBDA t : AddTrace(t, s), Traces(x, s))
    IN  ForEach(LAMBDA x : AddContract(x, s), Events(block, "instantiate"))
        \o ForEach(call, Extrinsics(block, "call"))

AssetHandler(block) ==
    ForEach(LAMBDA x : AddNewAsset(x, Spending(block)), Events(block, "create"))

AttestationHandler(block) ==
    ForEach(LAMBDA x : AddAttestation(x, Spending(block)), Events(block, "claim"))

\* BlockFactory.build: the handlers one after the other.
Changes(block) ==
    FoldLeft(AddChange, <<>>,
        TxHandler(block) \o StakingHandler(block) \o ContractHandler(block)
        \o AssetHandler(block) \o AttestationHandler(block))

GenerateBalances(block) ==
    LET changes == Changes(block)
    IN  [i \in DOMAIN changes |->
            [account |-> changes[i][1], asset |-> changes[i][2],
             balance |-> GetBalance(block, changes[i][1], changes[i][2])]]

\* The rows of table transaction ...
Transactions(block) ==
    {[from |-> x.from, to |-> x.to, asset |-> x.asset] : x \in Range(Extrinsics(block, "transfer"))}
    \cup {Call(x, Spending(block)) : x \in Range(Extrinsics(block, "call"))}

\* ... and of table trace.
TraceRows(block) ==
    UNION {Range(Traces(x, Spending(block))) : x \in Range(Extrinsics(block, "call"))}
-----------------------------------------------------------------------------
(* export_all                                                              *)

\* getBlockHash(n), then the block of that hash; all else is read by the hash.
GetBlock(n) == SubSeq(chain, 1, n)

BuildTask(w, n) ==
    /\ builder[w] = None /\ n \in DOMAIN chain
    /\ builder' = [builder EXCEPT ![w] = [block |-> GetBlock(n), pc |-> "building", since |-> {}]]
    /\ UNCHANGED <<chain, saved, overlapped, reorgs>>

\* The tasks are built: the transaction is opened.
BeginSave(w) ==
    /\ builder[w] # None /\ builder[w].pc = "building"
    /\ builder' = [builder EXCEPT ![w].pc = "saving"]
    /\ UNCHANGED <<chain, saved, overlapped, reorgs>>

\* What is inserted.
Copy(w, block) ==
    [by |-> w, block |-> block, transactions |-> Transactions(block),
     balances |-> GenerateBalances(block), traces |-> TraceRows(block)]

\* What is left of a copy of which the DELETEs have missed the rows of the first
\* k of the tables block, transaction, balance and trace, one or more.
Remainder(c, k) ==
    [by |-> c.by, block |-> c.block,
     transactions |-> IF k >= 2 THEN c.transactions ELSE {},
     balances |-> IF k >= 3 THEN c.balances ELSE <<>>,
     traces |-> IF k >= 4 THEN c.traces ELSE {}]

\* Of the block what was saved before is replaced; of what came meanwhile a
\* part, all or nothing may be left.  The row locks, which only keep some of
\* these parts from being left, are BlockStore's.
Commit(w, copy) ==
    /\ builder[w] # None /\ builder[w].pc = "saving"
    /\ LET n == Len(builder[w].block)
           came == {c \in saved[n] : c.by \in builder[w].since}
           during(v) == v # w /\ builder[v] # None /\ builder[v].pc = "saving"
                        /\ Len(builder[v].block) = n
       IN  /\ \E missed \in [came -> 0..4] :
                 saved' = [saved EXCEPT ![n] =
                    {Remainder(c, missed[c]) : c \in {d \in came : missed[d] > 0}} \cup {copy}]
           /\ overlapped' = IF builder[w].since = {} THEN overlapped \ {n} ELSE overlapped \cup {n}
           /\ builder' = [v \in Builders |->
                 IF v = w THEN None
                 ELSE IF during(v) THEN [builder[v] EXCEPT !.since = @ \cup {w}]
                 ELSE builder[v]]
    /\ UNCHANGED <<chain, reorgs>>

\* Mutant: the balances are not awaited, and may be missing.
SaveUnawaited(w) ==
    /\ builder[w] # None
    /\ \E balances \in {<<>>, GenerateBalances(builder[w].block)} :
          Commit(w, [Copy(w, builder[w].block) EXCEPT !.balances = balances])

Save(w) == Commit(w, Copy(w, builder[w].block))

\* A handler throws, a request is refused, or the transaction is rolled back.
BuildFails(w) ==
    /\ builder[w] # None
    /\ builder' = [builder EXCEPT ![w] = None]
    /\ UNCHANGED <<chain, saved, overlapped, reorgs>>

Next ==
    \/ \E body \in Bodies : ChainGrows(body) \/ \E k \in 0..MaxHeight - 1 : Reorganised(k, body)
    \/ \E w \in Builders :
          (\E n \in Heights : BuildTask(w, n)) \/ BeginSave(w) \/ Save(w) \/ BuildFails(w)

Spec == Init /\ [][Next]_vars
-----------------------------------------------------------------------------
(* The api: GET /balances/{address}/latest                                 *)

\* The places of a copy's rows of an account and asset.
Places(c, account, asset) ==
    {i \in DOMAIN c.balances : c.balances[i].account = account /\ c.balances[i].asset = asset}

Numbers(account, asset) ==
    {n \in Heights : \E c \in saved[n] : Places(c, account, asset) # {}}

LatestNumber(account, asset) == Max(Numbers(account, asset) \cup {0})

Answer(account, asset) ==
    LET n == LatestNumber(account, asset)
    IN  IF n = 0 THEN {<<>>}
        ELSE UNION {{c.balances[i].balance : i \in Places(c, account, asset)} : c \in saved[n]}
-----------------------------------------------------------------------------
(* Properties                                                              *)

\* Block n is saved as the best chain has it.
Canonical(n) == saved[n] # {} /\ \A c \in saved[n] : c.block = SubSeq(chain, 1, n)

\* What the code does not look up: fees of extrinsics it knows by an event that
\* a failure does not have, and whatever was paid in the old spending asset in
\* a block that changes it, because the code reads it after the block.
Unseen(block) ==
    LET s == Spending(Parent(block))
        switched == Spending(block) # s
    IN  UNION {ChangedByExtrinsic(x, s) : x \in {y \in Range(BodyOf(block).exts) :
            switched \/ (y.kind \in {"instantiate", "create", "claim"} /\ ~y.ok)}}

\* When the whole chain has been saved, in any order and any number of times,
\* the api answers the balance of the best block, for every account and asset
\* but the unseen ones: handlers, addChange and the api's max(block_number)
\* together lose no change and answer no stale one.
BalanceCurrent ==
    /\ \A n \in DOMAIN chain : Canonical(n)
    /\ \A n \in Heights \ DOMAIN chain : saved[n] = {}
    => \A a \in Accounts, s \in Assets :
          \/ \E n \in DOMAIN chain : <<a, s>> \in Unseen(SubSeq(chain, 1, n))
          \/ Answer(a, s) = {GetBalance(chain, a, s)}

\* Every transaction and trace finds a balance of its sender and one of its
\* recipient in its block, as the joins of app.py expect: with none the answer
\* lacks the balance, with two the transaction is answered twice.  There is
\* exactly one unless two processes have saved the block at once; then there
\* may be more, but as long as they saved the same block none is missing and
\* all are right, whatever the DELETEs of either left of the other's copy.
\* Right is the balance at the very block, whatever the chain has come to since.
JoinsOneBalance ==
    \A n \in Heights : \A c \in saved[n] :
        \A t \in c.transactions \cup c.traces : \A a \in {t.from, t.to} :
            LET places(d) == Places(d, a, t.asset)
            IN  /\ n \notin overlapped => saved[n] = {c} /\ Cardinality(places(c)) = 1
                /\ (\A d \in saved[n] : d.block = c.block)
                   => /\ \E d \in saved[n] : places(d) # {}
                      /\ \A d \in saved[n] : \A i \in places(d) :
                            d.balances[i].balance = GetBalance(c.block, a, t.asset)

\* Saving and saving again never take the api back to an older block, unless
\* the chain itself has gone back.
LatestNeverGoesBack ==
    [][reorgs = 0 => \A a \in Accounts, s \in Assets :
          LatestNumber(a, s)' >= LatestNumber(a, s)]_vars
=============================================================================
