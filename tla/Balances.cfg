SPECIFICATION Spec
CONSTANTS
    None = None
    alice = alice
    bob = bob
    carol = carol
    dave = dave
    erin = erin
    contract = contract
    gold = gold
    silver = silver
    Accounts = {alice, bob, carol, dave, erin, contract}
    Assets = {gold, silver}
    StakingAsset = silver
    GenesisSpending = gold
    GenesisValidators <- MCGenesisValidators
    GoldBody = GoldBody
    SilverBody = SilverBody
    Bodies = {GoldBody, SilverBody}
    Content <- MCContent
    Builders = {w1, w2}
    MaxHeight = 2
    MaxReorgs = 1
SYMMETRY BuilderSymmetry
INVARIANTS
    TypeOK
    BalanceCurrent
    JoinsOneBalance
PROPERTIES
    LatestNeverGoesBack
