--------------------------- MODULE BalancesProofs ---------------------------
(* Theorems about Balances, for every set of bodies, accounts and assets,   *)
(* every height and every number of processes.                              *)
EXTENDS Balances, DataTheorems, FiniteSetTheorems, TLAPS

(***************************************************************************)
(* "changes"                                                               *)
(***************************************************************************)
\* What the loop over addChange computes, step by step: the fold's recursive
\* function on the sets of places exists, and takes the highest place first.
LEMMA ChangeSteps ==
  ASSUME NEW X, NEW s \in Seq(X)
  PROVE  \E g \in [0..Len(s) -> Seq(X)] :
            /\ g[0] = <<>>
            /\ \A i \in 1..Len(s) : g[i] = AddChange(g[i - 1], s[i])
            /\ FoldLeft(AddChange, <<>>, s) = g[Len(s)]
<1> DEFINE n == Len(s)
           F == [c \in Seq(X) |-> [x \in X |-> AddChange(c, x)]]
           Is(h) == h = [S \in SUBSET (1..n) |->
                           IF S = {} THEN <<>> ELSE AddChange(h[S \ {Max(S)}], s[Max(S)])]
           fold == CHOOSE h : Is(h)
           g == [i \in 0..n |-> fold[1..i]]
<1>1. n \in Nat /\ DOMAIN s = 1..n /\ s \in [1..n -> X]
  BY LenProperties
<1>2. FoldLeft(AddChange, <<>>, s) = fold[1..n]
  BY <1>1 DEF FoldLeft, MapThenFoldSet
<1> HIDE DEF n
<1>3. \A c \in Seq(X), x \in X : AddChange(c, x) \in Seq(X)
  BY AppendProperties DEF AddChange
<1>4. F \in [Seq(X) -> [X -> Seq(X)]]
  BY <1>3
<1>5. \E h : Is(h)
  <2>1. PICK h \in [SUBSET (1..n) -> Seq(X)] : IsFold(h, F, <<>>, s, n)
    <3>1. <<>> \in Seq(X)
      BY EmptySeq
    <3> HIDE DEF F
    <3>2. QED
      BY <1>1, <1>4, <3>1, FoldByPlaces
  <2>2. ASSUME NEW S \in SUBSET (1..n), S # {}
        PROVE  F[h[S \ {Max(S)}]][s[Max(S)]] = AddChange(h[S \ {Max(S)}], s[Max(S)])
    <3>1. S \in SUBSET (0..n)
      BY <1>1
    <3>2. Max(S) \in S
      BY <1>1, <2>2, <3>1, MaxExists
    <3>3. h[S \ {Max(S)}] \in Seq(X) /\ s[Max(S)] \in X
      BY <1>1, <3>2
    <3>4. QED
      BY <3>3
  <2> HIDE DEF F
  <2>3. h = [S \in SUBSET (1..n) |-> IF S = {} THEN <<>> ELSE AddChange(h[S \ {Max(S)}], s[Max(S)])]
    BY <2>1, <2>2 DEF IsFold
  <2>4. QED
    BY <2>3
<1>6. Is(fold)
  <2> HIDE DEF Is
  <2>1. QED
    BY <1>5
<1> HIDE DEF fold, F
<1>7. g[0] = <<>>
  <2>1. 1..0 = {} /\ {} \in SUBSET (1..n)
    OBVIOUS
  <2>2. fold[{}] = <<>>
    BY <1>6, <2>1
  <2>3. QED
    BY <1>1, <2>1, <2>2
<1>8. ASSUME NEW i \in 1..n PROVE g[i] = AddChange(g[i - 1], s[i])
  <2>1. fold[1..i] = AddChange(fold[(1..i) \ {Max(1..i)}], s[Max(1..i)])
    BY <1>1, <1>6, LastPlace
  <2>2. fold[1..i] = AddChange(fold[1..i - 1], s[i])
    BY <1>1, <2>1, LastPlace
  <2>3. QED
    BY <1>1, <2>2
<1>9. g = [i \in 0..n |-> g[i]] /\ g[n] = fold[1..n]
  BY <1>1
<1> HIDE DEF g
<1>10. \A k \in 0..n : g[k] \in Seq(X)
  <2> DEFINE U == {k \in Nat : k \in 0..n => g[k] \in Seq(X)}
  <2>1. 0 \in U
    BY <1>7, EmptySeq
  <2>2. ASSUME NEW k \in Nat, k \in U PROVE k + 1 \in U
    <3> SUFFICES ASSUME k + 1 \in 0..n PROVE g[k + 1] \in Seq(X)
      OBVIOUS
    <3>1. k + 1 \in 1..n /\ k + 1 - 1 = k /\ k \in 0..n
      BY <1>1
    <3>2. g[k] \in Seq(X) /\ s[k + 1] \in X
      BY <1>1, <2>2, <3>1
    <3>3. g[k + 1] = AddChange(g[k], s[k + 1])
      BY <1>8, <3>1
    <3>4. QED
      BY <1>3, <3>2, <3>3
  <2>3. \A k \in Nat : k \in U
    <3> HIDE DEF U
    <3>1. QED
      BY <2>1, <2>2, NatSetInduction
  <2>4. 0..n \subseteq Nat
    BY <1>1
  <2>5. QED
    BY <2>3, <2>4
<1>11. QED
  BY <1>2, <1>7, <1>8, <1>9, <1>10 DEF n

\* "changes" holds what was added to it, each pair once.
LEMMA ChangesHold ==
  ASSUME NEW X, NEW s \in Seq(X)
  PROVE  LET changes == FoldLeft(AddChange, <<>>, s)
         IN  /\ changes \in Seq(X)
             /\ Range(changes) = Range(s)
             /\ \A i, j \in DOMAIN changes : changes[i] = changes[j] => i = j
<1> DEFINE n == Len(s)
<1>1. PICK g \in [0..n -> Seq(X)] : /\ g[0] = <<>>
                                    /\ \A i \in 1..n : g[i] = AddChange(g[i - 1], s[i])
                                    /\ FoldLeft(AddChange, <<>>, s) = g[n]
  BY ChangeSteps
<1>2. n \in Nat /\ DOMAIN s = 1..n /\ \A i \in 1..n : s[i] \in X
  BY LenProperties, ElementOfSeq
<1> DEFINE Once(c) == \A i, j \in 1..Len(c) : c[i] = c[j] => i = j
           T == {k \in Nat : k <= n => Range(g[k]) = {s[i] : i \in 1..k} /\ Once(g[k])}
<1> HIDE DEF n
<1>3. 0 \in T
  BY <1>1, EmptySeq DEF Range
<1>4. ASSUME NEW k \in Nat, k \in T PROVE k + 1 \in T
  <2> SUFFICES ASSUME k + 1 <= n
               PROVE  Range(g[k + 1]) = {s[i] : i \in 1..k + 1} /\ Once(g[k + 1])
    OBVIOUS
  <2>1. k \in 0..n /\ k + 1 \in 1..n /\ k + 1 - 1 = k /\ 1..k + 1 = (1..k) \cup {k + 1}
    BY <1>2
  <2>2. Range(g[k]) = {s[i] : i \in 1..k} /\ Once(g[k])
    <3>1. k <= n
      BY <1>2, <2>1
    <3> HIDE DEF Once
    <3>2. QED
      BY <1>4, <3>1
  <2>3. g[k] \in Seq(X) /\ s[k + 1] \in X
    BY <1>2, <2>1
  <2> HIDE DEF T
  <2>4. g[k + 1] = AddChange(g[k], s[k + 1])
    <3>1. \A i \in 1..n : g[i] = AddChange(g[i - 1], s[i])
      BY <1>1
    <3>2. QED
      BY <2>1, <3>1
  <2>5. CASE s[k + 1] \in Range(g[k])
    BY <2>1, <2>2, <2>4, <2>5 DEF AddChange
  <2>6. CASE s[k + 1] \notin Range(g[k])
    <3> DEFINE c == g[k]
               d == Append(c, s[k + 1])
    <3>1. g[k + 1] = d
      BY <2>4, <2>6 DEF AddChange
    <3>2. /\ Len(d) = Len(c) + 1 /\ Len(c) \in Nat /\ d \in Seq(X)
          /\ \A i \in 1..Len(c) : d[i] = c[i]
          /\ d[Len(c) + 1] = s[k + 1]
      BY <2>3, AppendProperties, LenProperties
    <3>3. Range(c) = {c[i] : i \in 1..Len(c)} /\ Range(d) = {d[i] : i \in 1..Len(d)}
      BY <2>3, <3>2, RangeEquality
    <3>4. Range(d) = Range(c) \cup {s[k + 1]}
      <4>1. 1..Len(d) = (1..Len(c)) \cup {Len(c) + 1}
        BY <3>2
      <4> HIDE DEF c, d
      <4>2. {d[i] : i \in 1..Len(d)} = {d[i] : i \in 1..Len(c)} \cup {d[Len(c) + 1]}
        BY <4>1
      <4>3. {d[i] : i \in 1..Len(c)} = {c[i] : i \in 1..Len(c)}
        BY <3>2
      <4>4. QED
        BY <3>2, <3>3, <4>2, <4>3
    <3>5. \A i \in 1..Len(c) : c[i] # s[k + 1]
      BY <2>6, <3>3
    <3>6. Once(d)
      <4>1. Once(c)
        BY <2>2
      <4> HIDE DEF c, d
      <4>2. QED
        BY <3>2, <3>5, <4>1, SMTT(30)
    <3>7. QED
      <4> HIDE DEF c, d, Once
      <4>1. Range(d) = {s[i] : i \in 1..k + 1}
        <5>1. Range(c) = {s[i] : i \in 1..k}
          BY <2>2 DEF c
        <5>2. QED
          BY <2>1, <3>4, <5>1
      <4>2. QED
        BY <3>1, <3>6, <4>1
  <2>7. QED
    BY <2>5, <2>6
<1>5. n \in T
  <2> HIDE DEF T
  <2>1. QED
    BY <1>2, <1>3, <1>4, NatSetInduction
<1>6. Range(g[n]) = Range(s) /\ Once(g[n]) /\ g[n] \in Seq(X)
  <2> HIDE DEF Once
  <2>1. n <= n /\ g[n] \in Seq(X)
    BY <1>2
  <2>2. Range(g[n]) = {s[i] : i \in 1..n} /\ Once(g[n])
    BY <1>5, <2>1
  <2>3. QED
    BY <1>2, <2>1, <2>2 DEF Range
<1>7. DOMAIN g[n] = 1..Len(g[n])
  BY <1>6, LenProperties
<1>8. QED
  BY <1>1, <1>6, <1>7 DEF n

(***************************************************************************)
(* The handlers                                                            *)
(***************************************************************************)
Pairs == Accounts \X Assets

\* What a block is made of.
LEMMA BlockParts ==
  ASSUME NEW block \in Block
  PROVE  /\ block \in Seq(Bodies) /\ Len(block) \in Heights /\ block # <<>>
         /\ BodyOf(block) \in Body
         /\ Parent(block) \in Seq(Bodies) /\ Len(Parent(block)) = Len(block) - 1
         /\ Validators(Parent(block)) \in Seq(Accounts)
         /\ Spending(block) \in Assets /\ Spending(Parent(block)) \in Assets
<1>1. PICK n \in Heights : block \in [1..n -> Bodies]
  BY DEF Block
<1>2. n \in Nat /\ n >= 1 /\ Len(block) = n /\ block \in Seq(Bodies)
  BY <1>1, BoundAssumption DEF Heights
<1>3. block # <<>>
  BY <1>2, EmptySeq
<1>4. Last(block) \in Bodies
  BY <1>2, ElementOfSeq DEF Last
<1>5. Parent(block) \in Seq(Bodies) /\ Len(Parent(block)) = n - 1
  <2>1. \A i \in 1..n - 1 : block[i] \in Bodies
    BY <1>1, <1>2
  <2>2. SubSeq(block, 1, n - 1) \in Seq(Bodies) /\ Len(SubSeq(block, 1, n - 1)) = n - 1
    BY <1>2, <2>1, SubSeqProperties
  <2>3. QED
    BY <1>2, <2>2 DEF Parent, Front
<1>6. ASSUME Parent(block) # <<>> PROVE Last(Parent(block)) \in Bodies
  <2>1. Len(Parent(block)) \in 1..Len(Parent(block))
    BY <1>5, <1>6, EmptySeq
  <2>2. QED
    BY <1>5, <2>1, ElementOfSeq DEF Last
<1>7. BodyOf(block) \in Body /\ (Parent(block) # <<>> => BodyOf(Parent(block)) \in Body)
  BY <1>4, <1>6, BodyAssumption DEF BodyOf
<1>8. Spending(block) \in Assets /\ Spending(Parent(block)) \in Assets
  BY <1>3, <1>7, AssetAssumption DEF Spending, Body
<1>9. Validators(Parent(block)) \in Seq(Accounts)
  BY <1>7, GenesisAssumption DEF Validators, Body
<1>10. QED
  BY <1>1, <1>2, <1>3, <1>5, <1>7, <1>8, <1>9

\* A sequence of one.
LEMMA Single ==
  ASSUME NEW X, NEW x \in X
  PROVE  <<x>> \in Seq(X) /\ Range(<<x>>) = {x}
  BY DEF Range

LEMMA Nothing ==
  ASSUME NEW X
  PROVE  <<>> \in Seq(X) /\ Range(<<>>) = {}
  BY DEF Range

LEMMA ExtrinsicsOfKind ==
  ASSUME NEW block \in Block, NEW kind
  PROVE  /\ Extrinsics(block, kind) \in Seq(Extrinsic)
         /\ Range(Extrinsics(block, kind)) = {x \in Range(BodyOf(block).exts) : x.kind = kind}
<1> DEFINE exts == BodyOf(block).exts
           n == Len(exts)
           f == [i \in 1..n |-> IF exts[i].kind = kind THEN <<exts[i]>> ELSE <<>>]
<1>1. exts \in Seq(Extrinsic)
  BY BlockParts DEF Body
<1>2. n \in Nat /\ DOMAIN exts = 1..n /\ \A i \in 1..n : exts[i] \in Extrinsic
  BY <1>1, LenProperties, ElementOfSeq
<1>3. Extrinsics(block, kind) = FlattenSeq(f)
  BY <1>2 DEF Extrinsics, ForEach
<1> HIDE DEF exts, n
<1>4. ASSUME NEW i \in 1..n
      PROVE  f[i] \in Seq(Extrinsic) /\ Range(f[i]) = IF exts[i].kind = kind THEN {exts[i]} ELSE {}
  BY <1>2, Single, Nothing
<1>5. f \in [1..n -> Seq(Extrinsic)]
  BY <1>4
<1>6. /\ FlattenSeq(f) \in Seq(Extrinsic)
      /\ Range(FlattenSeq(f)) = UNION {Range(f[i]) : i \in 1..n}
  <2> HIDE DEF f
  <2>1. QED
    BY <1>2, <1>5, FlattenRange
<1>7. Range(exts) = {exts[i] : i \in 1..n}
  BY <1>2 DEF Range
<1>8. Range(FlattenSeq(f)) = {x \in Range(exts) : x.kind = kind}
  <2> HIDE DEF f
  <2>1. \A x : x \in Range(FlattenSeq(f)) <=> \E i \in 1..n : x \in Range(f[i])
    BY <1>6
  <2>2. \A i \in 1..n : \A x : x \in Range(f[i]) <=> x = exts[i] /\ exts[i].kind = kind
    BY <1>4
  <2>3. \A x : x \in Range(exts) <=> \E i \in 1..n : x = exts[i]
    BY <1>7
  <2>4. \A x : x \in Range(FlattenSeq(f)) <=> x \in Range(exts) /\ x.kind = kind
    BY <2>1, <2>2, <2>3, SMTT(30)
  <2>5. QED
    BY <2>4
<1>9. QED
  BY <1>3, <1>6, <1>8 DEF exts

LEMMA EventsOfKind ==
  ASSUME NEW block \in Block, NEW kind
  PROVE  /\ Events(block, kind) \in Seq(Extrinsic)
         /\ Range(Events(block, kind)) = {x \in Range(BodyOf(block).exts) : x.kind = kind /\ x.ok}
<1> DEFINE exts == Extrinsics(block, kind)
           n == Len(exts)
           f == [i \in 1..n |-> IF exts[i].ok THEN <<exts[i]>> ELSE <<>>]
<1>1. exts \in Seq(Extrinsic)
  BY ExtrinsicsOfKind
<1>2. n \in Nat /\ DOMAIN exts = 1..n /\ \A i \in 1..n : exts[i] \in Extrinsic
  BY <1>1, LenProperties, ElementOfSeq
<1>3. Events(block, kind) = FlattenSeq(f)
  BY <1>2 DEF Events, ForEach
<1>4. Range(exts) = {x \in Range(BodyOf(block).exts) : x.kind = kind}
  BY ExtrinsicsOfKind
<1> HIDE DEF exts, n
<1>5. ASSUME NEW i \in 1..n
      PROVE  f[i] \in Seq(Extrinsic) /\ Range(f[i]) = IF exts[i].ok THEN {exts[i]} ELSE {}
  BY <1>2, Single, Nothing
<1>6. f \in [1..n -> Seq(Extrinsic)]
  BY <1>5
<1>7. /\ FlattenSeq(f) \in Seq(Extrinsic)
      /\ Range(FlattenSeq(f)) = UNION {Range(f[i]) : i \in 1..n}
  <2> HIDE DEF f
  <2>1. QED
    BY <1>2, <1>6, FlattenRange
<1>8. Range(exts) = {exts[i] : i \in 1..n}
  BY <1>2 DEF Range
<1>9. Range(FlattenSeq(f)) = {x \in Range(exts) : x.ok}
  <2> HIDE DEF f
  <2>1. \A x : x \in Range(FlattenSeq(f)) <=> \E i \in 1..n : x \in Range(f[i])
    BY <1>7
  <2>2. \A i \in 1..n : \A x : x \in Range(f[i]) <=> x = exts[i] /\ exts[i].ok
    BY <1>5
  <2>3. \A x : x \in Range(exts) <=> \E i \in 1..n : x = exts[i]
    BY <1>8
  <2>4. \A x : x \in Range(FlattenSeq(f)) <=> x \in Range(exts) /\ x.ok
    BY <2>1, <2>2, <2>3, SMTT(30)
  <2>5. QED
    BY <2>4
<1>10. QED
  BY <1>3, <1>4, <1>7, <1>9

\* Of a transaction, both parties with the asset, and the sender with the fee's.
LEMMA TransactionAdds ==
  ASSUME NEW t, t.from \in Accounts, t.to \in Accounts, t.asset \in Assets, NEW s \in Assets
  PROVE  /\ AddTransaction(t, s) \in Seq(Pairs)
         /\ {<<t.from, t.asset>>, <<t.to, t.asset>>, <<t.from, s>>} \subseteq Range(AddTransaction(t, s))
<1> DEFINE change(acc) ==
             << <<acc, t.asset>> >> \o
             (IF acc = t.from /\ t.asset # s THEN << <<acc, s>> >> ELSE <<>>)
<1>1. ASSUME NEW acc \in {t.from, t.to}
      PROVE  /\ change(acc) \in Seq(Pairs)
             /\ <<acc, t.asset>> \in Range(change(acc))
             /\ acc = t.from => <<acc, s>> \in Range(change(acc))
  <2> DEFINE own == << <<acc, t.asset>> >>
             fee == IF acc = t.from /\ t.asset # s THEN << <<acc, s>> >> ELSE <<>>
  <2>1. own \in Seq(Pairs) /\ Range(own) = {<<acc, t.asset>>}
    <3>1. <<acc, t.asset>> \in Pairs
      BY DEF Pairs
    <3>2. QED
      BY <3>1, Single
  <2>2. /\ fee \in Seq(Pairs)
        /\ acc = t.from /\ t.asset # s => Range(fee) = {<<acc, s>>}
    <3>1. <<acc, s>> \in Pairs
      BY DEF Pairs
    <3>2. QED
      BY <3>1, Single, Nothing
  <2> HIDE DEF own, fee
  <2>3. own \o fee \in Seq(Pairs) /\ Range(own \o fee) = Range(own) \cup Range(fee)
    BY <2>1, <2>2, ConcatProperties, RangeConcatenation
  <2>4. change(acc) = own \o fee
    BY DEF own, fee
  <2> HIDE DEF change
  <2>5. QED
    BY <2>1, <2>2, <2>3, <2>4
<1>2. AddTransaction(t, s) = change(t.from) \o change(t.to)
  BY DEF AddTransaction
<1> HIDE DEF change
<1>3. /\ change(t.from) \o change(t.to) \in Seq(Pairs)
      /\ Range(change(t.from) \o change(t.to)) = Range(change(t.from)) \cup Range(change(t.to))
  BY <1>1, ConcatProperties, RangeConcatenation
<1>4. QED
  BY <1>1, <1>2, <1>3

LEMMA TxHandlerAdds ==
  ASSUME NEW block \in Block
  PROVE  /\ TxHandler(block) \in Seq(Pairs)
         /\ \A x \in Range(BodyOf(block).exts) : x.kind = "transfer" =>
               Range(AddTransaction(x, Spending(block))) \subseteq Range(TxHandler(block))
<1> DEFINE s == Spending(block)
           exts == Extrinsics(block, "transfer")
           n == Len(exts)
           f == [i \in 1..n |-> AddTransaction(exts[i], s)]
<1>1. exts \in Seq(Extrinsic) /\ s \in Assets
  BY ExtrinsicsOfKind, BlockParts
<1>2. n \in Nat /\ DOMAIN exts = 1..n /\ \A i \in 1..n : exts[i] \in Extrinsic
  BY <1>1, LenProperties, ElementOfSeq
<1>3. TxHandler(block) = FlattenSeq(f)
  BY <1>2 DEF TxHandler, ForEach
<1>4. Range(exts) = {x \in Range(BodyOf(block).exts) : x.kind = "transfer"}
  BY ExtrinsicsOfKind
<1> HIDE DEF exts, n, s
<1>5. f \in [1..n -> Seq(Pairs)]
  BY <1>1, <1>2, TransactionAdds DEF Extrinsic
<1>6. /\ FlattenSeq(f) \in Seq(Pairs)
      /\ Range(FlattenSeq(f)) = UNION {Range(f[i]) : i \in 1..n}
  <2> HIDE DEF f
  <2>1. QED
    BY <1>2, <1>5, FlattenRange
<1>7. ASSUME NEW x \in Range(exts)
      PROVE  Range(AddTransaction(x, s)) \subseteq Range(FlattenSeq(f))
  <2>1. PICK i \in 1..n : x = exts[i]
    BY <1>2 DEF Range
  <2>2. f[i] = AddTransaction(x, s)
    BY <2>1
  <2> HIDE DEF f
  <2>3. QED
    BY <1>6, <2>2
<1>8. QED
  BY <1>3, <1>4, <1>6, <1>7 DEF s

\* A reward of the block before's validators, and a slash.
LEMMA StakingHandlerAdds ==
  ASSUME NEW block \in Block
  PROVE  /\ StakingHandler(block) \in Seq(Pairs)
         /\ BodyOf(block).rewarded =>
               \A v \in Range(Validators(Parent(block))) :
                  <<v, Spending(Parent(block))>> \in Range(StakingHandler(block))
         /\ BodyOf(block).slashed # None =>
               <<BodyOf(block).slashed, StakingAsset>> \in Range(StakingHandler(block))
<1> DEFINE s == Spending(Parent(block))
           paid == BodyOf(block).rewarded
           vals == Validators(Parent(block))
           n == Len(vals)
           f == [i \in 1..n |-> AddStaking("Reward", vals[i], s)]
           rewards == IF paid THEN ForEach(LAMBDA v : AddStaking("Reward", v, s), vals) ELSE <<>>
           slash == IF BodyOf(block).slashed # None
                    THEN AddStaking("Slash", BodyOf(block).slashed, StakingAsset) ELSE <<>>
<1>1. /\ s \in Assets
      /\ vals \in Seq(Accounts)
      /\ BodyOf(block).slashed # None => BodyOf(block).slashed \in Accounts
  BY BlockParts DEF Body
<1>2. StakingHandler(block) = rewards \o slash
  BY DEF StakingHandler
<1>3. slash \in Seq(Pairs) /\ (BodyOf(block).slashed # None =>
         Range(slash) = {<<BodyOf(block).slashed, StakingAsset>>})
  <2>1. CASE BodyOf(block).slashed # None
    <3>1. <<BodyOf(block).slashed, StakingAsset>> \in Pairs
      BY <1>1, <2>1, AssetAssumption DEF Pairs
    <3>2. slash = << <<BodyOf(block).slashed, StakingAsset>> >>
      BY <2>1 DEF AddStaking
    <3> HIDE DEF slash
    <3>3. QED
      BY <3>1, <3>2, Single
  <2>2. CASE BodyOf(block).slashed = None
    BY <2>2, Nothing
  <2>3. QED
    BY <2>1, <2>2
<1>4. rewards \in Seq(Pairs) /\ (paid => \A v \in Range(vals) : <<v, s>> \in Range(rewards))
  <2>1. CASE paid
    <3>1. n \in Nat /\ DOMAIN vals = 1..n /\ \A i \in 1..n : vals[i] \in Accounts
      BY <1>1, <2>1, LenProperties, ElementOfSeq
    <3>2. rewards = FlattenSeq(f)
      BY <2>1, <3>1 DEF ForEach
    <3> HIDE DEF vals, n, s
    <3>3. ASSUME NEW i \in 1..n
          PROVE  f[i] \in Seq(Pairs) /\ Range(f[i]) = {<<vals[i], s>>}
      <4>1. <<vals[i], s>> \in Pairs
        BY <1>1, <3>1 DEF Pairs
      <4>2. f[i] = << <<vals[i], s>> >>
        BY DEF AddStaking
      <4>3. QED
        BY <4>1, <4>2, Single
    <3>4. f \in [1..n -> Seq(Pairs)]
      BY <3>3
    <3>5. /\ FlattenSeq(f) \in Seq(Pairs)
          /\ Range(FlattenSeq(f)) = UNION {Range(f[i]) : i \in 1..n}
      <4> HIDE DEF f
      <4>1. QED
        BY <3>1, <3>4, FlattenRange
    <3>6. ASSUME NEW v \in Range(vals) PROVE <<v, s>> \in Range(FlattenSeq(f))
      <4>1. PICK i \in 1..n : v = vals[i]
        BY <3>1 DEF Range
      <4> HIDE DEF f
      <4>2. QED
        BY <3>3, <3>5, <4>1
    <3> HIDE DEF f, rewards
    <3>7. QED
      BY <3>2, <3>5, <3>6
  <2>2. CASE ~paid
    BY <2>2, Nothing
  <2>3. QED
    BY <2>1, <2>2
<1> HIDE DEF rewards, slash
<1>5. rewards \o slash \in Seq(Pairs) /\ Range(rewards \o slash) = Range(rewards) \cup Range(slash)
  BY <1>3, <1>4, ConcatProperties, RangeConcatenation
<1>6. QED
  BY <1>2, <1>3, <1>4, <1>5

LEMMA TracesAreTransfers ==
  ASSUME NEW x \in Extrinsic, NEW s \in Assets
  PROVE  /\ Traces(x, s) \in Seq(Transfer)
         /\ x.ok => \A t \in Range(x.inner) :
               [from |-> t[1], to |-> t[2], asset |-> s] \in Range(Traces(x, s))
<1>1. CASE x.ok
  <2> DEFINE n == Len(x.inner)
  <2>1. x.inner \in Seq(Accounts \X Accounts)
    BY DEF Extrinsic
  <2>2. n \in Nat /\ DOMAIN x.inner = 1..n /\ \A i \in 1..n : x.inner[i] \in Accounts \X Accounts
    BY <2>1, LenProperties, ElementOfSeq
  <2>3. Traces(x, s) =
          [i \in 1..n |-> [from |-> x.inner[i][1], to |-> x.inner[i][2], asset |-> s]]
    BY <1>1, <2>2 DEF Traces
  <2> HIDE DEF n
  <2>4. Traces(x, s) \in Seq(Transfer)
    BY <2>2, <2>3 DEF Transfer
  <2>5. \A i \in 1..n :
           /\ i \in DOMAIN Traces(x, s)
           /\ Traces(x, s)[i] = [from |-> x.inner[i][1], to |-> x.inner[i][2], asset |-> s]
    BY <2>3
  <2>6. ASSUME NEW t \in Range(x.inner)
        PROVE  [from |-> t[1], to |-> t[2], asset |-> s] \in Range(Traces(x, s))
    <3>1. PICK i \in 1..n : t = x.inner[i]
      BY <2>2 DEF Range
    <3>2. QED
      BY <2>5, <3>1 DEF Range
  <2>7. QED
    BY <2>4, <2>6
<1>2. CASE ~x.ok
  BY <1>2, Nothing DEF Traces
<1>3. QED
  BY <1>1, <1>2

\* Of a call, its own transfer and those of its traces.
CallAdds(x, s) ==
    AddTransaction(Call(x, s), s) \o ForEach(LAMBDA t : AddTrace(t, s), Traces(x, s))

LEMMA CallAddsTransfers ==
  ASSUME NEW x \in Extrinsic, NEW s \in Assets
  PROVE  /\ CallAdds(x, s) \in Seq(Pairs)
         /\ \A t \in {Call(x, s)} \cup Range(Traces(x, s)) :
               {<<t.from, t.asset>>, <<t.to, t.asset>>} \subseteq Range(CallAdds(x, s))
<1> DEFINE own == AddTransaction(Call(x, s), s)
           traces == Traces(x, s)
           n == Len(traces)
           f == [i \in 1..n |-> AddTransaction(traces[i], s)]
<1>1. /\ own \in Seq(Pairs)
      /\ {<<Call(x, s).from, Call(x, s).asset>>, <<Call(x, s).to, Call(x, s).asset>>} \subseteq Range(own)
  <2>1. Call(x, s).from \in Accounts /\ Call(x, s).to \in Accounts /\ Call(x, s).asset \in Assets
    BY DEF Call, Extrinsic
  <2>2. QED
    BY <2>1, TransactionAdds
<1>2. n \in Nat /\ DOMAIN traces = 1..n /\ \A i \in 1..n : traces[i] \in Transfer
  BY TracesAreTransfers, LenProperties, ElementOfSeq
<1>3. CallAdds(x, s) = own \o FlattenSeq(f)
  BY <1>2 DEF CallAdds, ForEach, AddTrace
<1> HIDE DEF traces, n, own
<1>4. ASSUME NEW i \in 1..n
      PROVE  /\ f[i] \in Seq(Pairs)
             /\ {<<traces[i].from, traces[i].asset>>, <<traces[i].to, traces[i].asset>>} \subseteq Range(f[i])
  <2>1. traces[i].from \in Accounts /\ traces[i].to \in Accounts /\ traces[i].asset \in Assets
    BY <1>2 DEF Transfer
  <2>2. QED
    BY <2>1, TransactionAdds
<1>5. f \in [1..n -> Seq(Pairs)]
  BY <1>4
<1> HIDE DEF f
<1>6. /\ FlattenSeq(f) \in Seq(Pairs)
      /\ Range(FlattenSeq(f)) = UNION {Range(f[i]) : i \in 1..n}
  BY <1>2, <1>5, FlattenRange
<1>7. /\ own \o FlattenSeq(f) \in Seq(Pairs)
      /\ Range(own \o FlattenSeq(f)) = Range(own) \cup Range(FlattenSeq(f))
  BY <1>1, <1>6, ConcatProperties, RangeConcatenation
<1>8. ASSUME NEW t \in Range(traces)
      PROVE  {<<t.from, t.asset>>, <<t.to, t.asset>>} \subseteq Range(FlattenSeq(f))
  <2>1. PICK i \in 1..n : t = traces[i]
    BY <1>2 DEF Range
  <2>2. QED
    BY <1>4, <1>6, <2>1
<1>9. QED
  BY <1>1, <1>3, <1>7, <1>8 DEF traces

LEMMA ContractHandlerAdds ==
  ASSUME NEW block \in Block
  PROVE  /\ ContractHandler(block) \in Seq(Pairs)
         /\ \A x \in Range(BodyOf(block).exts) :
               /\ x.kind = "instantiate" /\ x.ok =>
                     {<<x.from, Spending(block)>>, <<x.to, Spending(block)>>}
                        \subseteq Range(ContractHandler(block))
               /\ x.kind = "call" =>
                     Range(CallAdds(x, Spending(block))) \subseteq Range(ContractHandler(block))
<1> DEFINE s == Spending(block)
           news == Events(block, "instantiate")
           m == Len(news)
           f == [i \in 1..m |-> AddContract(news[i], s)]
           calls == Extrinsics(block, "call")
           n == Len(calls)
           g == [i \in 1..n |-> CallAdds(calls[i], s)]
<1>1. news \in Seq(Extrinsic) /\ calls \in Seq(Extrinsic) /\ s \in Assets
  BY ExtrinsicsOfKind, EventsOfKind, BlockParts
<1>2. /\ m \in Nat /\ DOMAIN news = 1..m /\ \A i \in 1..m : news[i] \in Extrinsic
      /\ n \in Nat /\ DOMAIN calls = 1..n /\ \A i \in 1..n : calls[i] \in Extrinsic
  BY <1>1, LenProperties, ElementOfSeq
<1>3. ContractHandler(block) = FlattenSeq(f) \o FlattenSeq(g)
  BY <1>2 DEF ContractHandler, ForEach, CallAdds
<1>4. /\ Range(news) = {x \in Range(BodyOf(block).exts) : x.kind = "instantiate" /\ x.ok}
      /\ Range(calls) = {x \in Range(BodyOf(block).exts) : x.kind = "call"}
  BY ExtrinsicsOfKind, EventsOfKind
<1> HIDE DEF news, m, calls, n, s
<1>5. ASSUME NEW i \in 1..m
      PROVE  /\ f[i] \in Seq(Pairs)
             /\ Range(f[i]) = {<<news[i].from, s>>, <<news[i].to, s>>}
  <2>1. <<news[i].from, s>> \in Pairs /\ <<news[i].to, s>> \in Pairs
    BY <1>1, <1>2 DEF Pairs, Extrinsic
  <2>2. f[i] = << <<news[i].from, s>>, <<news[i].to, s>> >>
    BY DEF AddContract
  <2> HIDE DEF f
  <2>3. QED
    BY <2>1, <2>2 DEF Range
<1>6. f \in [1..m -> Seq(Pairs)]
  BY <1>5
<1>7. g \in [1..n -> Seq(Pairs)]
  BY <1>1, <1>2, CallAddsTransfers
<1>8. \A i \in 1..n : g[i] = CallAdds(calls[i], s)
  OBVIOUS
<1> HIDE DEF f, g
<1>9. /\ FlattenSeq(f) \in Seq(Pairs)
      /\ Range(FlattenSeq(f)) = UNION {Range(f[i]) : i \in 1..m}
  BY <1>2, <1>6, FlattenRange
<1>10. /\ FlattenSeq(g) \in Seq(Pairs)
       /\ Range(FlattenSeq(g)) = UNION {Range(g[i]) : i \in 1..n}
  BY <1>2, <1>7, FlattenRange, SMTT(30)
<1>11. /\ FlattenSeq(f) \o FlattenSeq(g) \in Seq(Pairs)
       /\ Range(FlattenSeq(f) \o FlattenSeq(g)) = Range(FlattenSeq(f)) \cup Range(FlattenSeq(g))
  BY <1>9, <1>10, ConcatProperties, RangeConcatenation
<1>12. ASSUME NEW x \in Range(news)
       PROVE  {<<x.from, s>>, <<x.to, s>>} \subseteq Range(FlattenSeq(f))
  <2>1. PICK i \in 1..m : x = news[i]
    BY <1>2 DEF Range
  <2>2. QED
    BY <1>5, <1>9, <2>1
<1>13. ASSUME NEW x \in Range(calls)
       PROVE  Range(CallAdds(x, s)) \subseteq Range(FlattenSeq(g))
  <2>1. PICK i \in 1..n : x = calls[i]
    BY <1>2 DEF Range
  <2>2. QED
    BY <1>8, <1>10, <2>1
<1>14. QED
  BY <1>3, <1>4, <1>11, <1>12, <1>13 DEF s

LEMMA AssetHandlerAdds ==
  ASSUME NEW block \in Block
  PROVE  /\ AssetHandler(block) \in Seq(Pairs)
         /\ \A x \in Range(BodyOf(block).exts) : x.kind = "create" /\ x.ok =>
               <<x.from, Spending(block)>> \in Range(AssetHandler(block))
<1> DEFINE s == Spending(block)
           news == Events(block, "create")
           m == Len(news)
           f == [i \in 1..m |-> AddNewAsset(news[i], s)]
<1>1. news \in Seq(Extrinsic) /\ s \in Assets
  BY EventsOfKind, BlockParts
<1>2. m \in Nat /\ DOMAIN news = 1..m /\ \A i \in 1..m : news[i] \in Extrinsic
  BY <1>1, LenProperties, ElementOfSeq
<1>3. AssetHandler(block) = FlattenSeq(f)
  BY <1>2 DEF AssetHandler, ForEach
<1>4. Range(news) = {x \in Range(BodyOf(block).exts) : x.kind = "create" /\ x.ok}
  BY EventsOfKind
<1> HIDE DEF news, m, s
<1>5. ASSUME NEW i \in 1..m
      PROVE  f[i] \in Seq(Pairs) /\ Range(f[i]) = {<<news[i].from, s>>}
  <2>1. <<news[i].from, s>> \in Pairs
    BY <1>1, <1>2 DEF Pairs, Extrinsic
  <2>2. f[i] = << <<news[i].from, s>> >>
    BY DEF AddNewAsset
  <2>3. QED
    BY <2>1, <2>2, Single
<1>6. f \in [1..m -> Seq(Pairs)]
  BY <1>5
<1> HIDE DEF f
<1>7. /\ FlattenSeq(f) \in Seq(Pairs)
      /\ Range(FlattenSeq(f)) = UNION {Range(f[i]) : i \in 1..m}
  BY <1>2, <1>6, FlattenRange
<1>8. ASSUME NEW x \in Range(news) PROVE <<x.from, s>> \in Range(FlattenSeq(f))
  <2>1. PICK i \in 1..m : x = news[i]
    BY <1>2 DEF Range
  <2>2. QED
    BY <1>5, <1>7, <2>1
<1>9. QED
  BY <1>3, <1>4, <1>7, <1>8 DEF s

LEMMA AttestationHandlerAdds ==
  ASSUME NEW block \in Block
  PROVE  /\ AttestationHandler(block) \in Seq(Pairs)
         /\ \A x \in Range(BodyOf(block).exts) : x.kind = "claim" /\ x.ok =>
               <<x.from, Spending(block)>> \in Range(AttestationHandler(block))
<1> DEFINE s == Spending(block)
           claims == Events(block, "claim")
           m == Len(claims)
           f == [i \in 1..m |-> AddAttestation(claims[i], s)]
<1>1. claims \in Seq(Extrinsic) /\ s \in Assets
  BY EventsOfKind, BlockParts
<1>2. m \in Nat /\ DOMAIN claims = 1..m /\ \A i \in 1..m : claims[i] \in Extrinsic
  BY <1>1, LenProperties, ElementOfSeq
<1>3. AttestationHandler(block) = FlattenSeq(f)
  BY <1>2 DEF AttestationHandler, ForEach
<1>4. Range(claims) = {x \in Range(BodyOf(block).exts) : x.kind = "claim" /\ x.ok}
  BY EventsOfKind
<1> HIDE DEF claims, m, s
<1>5. ASSUME NEW i \in 1..m
      PROVE  f[i] \in Seq(Pairs) /\ Range(f[i]) = {<<claims[i].from, s>>}
  <2>1. <<claims[i].from, s>> \in Pairs
    BY <1>1, <1>2 DEF Pairs, Extrinsic
  <2>2. f[i] = << <<claims[i].from, s>> >>
    BY DEF AddAttestation
  <2>3. QED
    BY <2>1, <2>2, Single
<1>6. f \in [1..m -> Seq(Pairs)]
  BY <1>5
<1> HIDE DEF f
<1>7. /\ FlattenSeq(f) \in Seq(Pairs)
      /\ Range(FlattenSeq(f)) = UNION {Range(f[i]) : i \in 1..m}
  BY <1>2, <1>6, FlattenRange
<1>8. ASSUME NEW x \in Range(claims) PROVE <<x.from, s>> \in Range(FlattenSeq(f))
  <2>1. PICK i \in 1..m : x = claims[i]
    BY <1>2 DEF Range
  <2>2. QED
    BY <1>5, <1>7, <2>1
<1>9. QED
  BY <1>3, <1>4, <1>7, <1>8 DEF s

(***************************************************************************)
(* The balances of a block                                                 *)
(***************************************************************************)
\* Every pair a handler adds is looked up, and once.
LEMMA HandlersLookedUp ==
  ASSUME NEW block \in Block
  PROVE  /\ Changes(block) \in Seq(Pairs)
         /\ UNION {Range(TxHandler(block)), Range(StakingHandler(block)),
                   Range(ContractHandler(block)), Range(AssetHandler(block)),
                   Range(AttestationHandler(block))} \subseteq Range(Changes(block))
         /\ \A i, j \in DOMAIN Changes(block) : Changes(block)[i] = Changes(block)[j] => i = j
<1> DEFINE a == TxHandler(block)
           b == StakingHandler(block)
           c == ContractHandler(block)
           d == AssetHandler(block)
           e == AttestationHandler(block)
           ab == a \o b
           abc == ab \o c
           abcd == abc \o d
           all == abcd \o e
<1>1. /\ a \in Seq(Pairs) /\ b \in Seq(Pairs) /\ c \in Seq(Pairs)
      /\ d \in Seq(Pairs) /\ e \in Seq(Pairs)
  BY TxHandlerAdds, StakingHandlerAdds, ContractHandlerAdds, AssetHandlerAdds,
     AttestationHandlerAdds
<1>2. Changes(block) = FoldLeft(AddChange, <<>>, all)
  BY DEF Changes
<1> HIDE DEF a, b, c, d, e
<1>3. ab \in Seq(Pairs) /\ Range(ab) = Range(a) \cup Range(b)
  BY <1>1, ConcatProperties, RangeConcatenation
<1> HIDE DEF ab
<1>4. abc \in Seq(Pairs) /\ Range(abc) = Range(ab) \cup Range(c)
  BY <1>1, <1>3, ConcatProperties, RangeConcatenation
<1> HIDE DEF abc
<1>5. abcd \in Seq(Pairs) /\ Range(abcd) = Range(abc) \cup Range(d)
  BY <1>1, <1>4, ConcatProperties, RangeConcatenation
<1> HIDE DEF abcd
<1>6. all \in Seq(Pairs) /\ Range(all) = Range(abcd) \cup Range(e)
  BY <1>1, <1>5, ConcatProperties, RangeConcatenation
<1>7. Range(all) = UNION {Range(a), Range(b), Range(c), Range(d), Range(e)}
  BY <1>3, <1>4, <1>5, <1>6
<1> HIDE DEF all
<1>8. /\ Changes(block) \in Seq(Pairs)
      /\ Range(Changes(block)) = Range(all)
      /\ \A i, j \in DOMAIN Changes(block) : Changes(block)[i] = Changes(block)[j] => i = j
  BY <1>2, <1>6, ChangesHold
<1>9. QED
  BY <1>7, <1>8 DEF a, b, c, d, e

\* Both parties of a transaction or trace of the block are looked up.
LEMMA PartiesLookedUp ==
  ASSUME NEW block \in Block, NEW t \in Transactions(block) \cup TraceRows(block), NEW a \in {t.from, t.to}
  PROVE  t \in Transfer /\ <<a, t.asset>> \in Range(Changes(block))
<1> DEFINE s == Spending(block)
<1>1. s \in Assets /\ BodyOf(block).exts \in Seq(Extrinsic)
  BY BlockParts DEF Body
<1>2. \A x \in Range(BodyOf(block).exts) : x \in Extrinsic
  BY <1>1, RangeOfSeq
<1>3. PICK x \in Range(BodyOf(block).exts) :
         \/ x.kind = "transfer" /\ t = [from |-> x.from, to |-> x.to, asset |-> x.asset]
         \/ x.kind = "call" /\ t \in {Call(x, s)} \cup Range(Traces(x, s))
  <2>1. \A x : /\ x \in Range(Extrinsics(block, "transfer")) <=>
                     x \in Range(BodyOf(block).exts) /\ x.kind = "transfer"
               /\ x \in Range(Extrinsics(block, "call")) <=>
                     x \in Range(BodyOf(block).exts) /\ x.kind = "call"
    BY ExtrinsicsOfKind
  <2>2. CASE t \in Transactions(block)
    BY <2>1, <2>2 DEF Transactions
  <2>3. CASE t \in TraceRows(block)
    BY <2>1, <2>3 DEF TraceRows
  <2>4. QED
    BY <2>2, <2>3
<1>4. CASE x.kind = "transfer" /\ t = [from |-> x.from, to |-> x.to, asset |-> x.asset]
  <2>1. x.from \in Accounts /\ x.to \in Accounts /\ x.asset \in Assets
    BY <1>2 DEF Extrinsic
  <2>2. {<<x.from, x.asset>>, <<x.to, x.asset>>} \subseteq Range(AddTransaction(x, s))
    BY <1>1, <2>1, TransactionAdds
  <2>3. Range(AddTransaction(x, s)) \subseteq Range(TxHandler(block))
    BY <1>4, TxHandlerAdds
  <2>4. t \in Transfer
    BY <1>4, <2>1 DEF Transfer
  <2>5. t.from = x.from /\ t.to = x.to /\ t.asset = x.asset
    BY <1>4
  <2>6. QED
    BY <2>2, <2>3, <2>4, <2>5, HandlersLookedUp
<1>5. CASE x.kind = "call" /\ t \in {Call(x, s)} \cup Range(Traces(x, s))
  <2>1. {<<t.from, t.asset>>, <<t.to, t.asset>>} \subseteq Range(CallAdds(x, s))
    BY <1>1, <1>2, <1>5, CallAddsTransfers
  <2>2. Range(CallAdds(x, s)) \subseteq Range(ContractHandler(block))
    BY <1>5, ContractHandlerAdds
  <2>3. Call(x, s) \in Transfer
    BY <1>1, <1>2 DEF Call, Transfer, Extrinsic
  <2>4. Range(Traces(x, s)) \subseteq Transfer
    BY <1>1, <1>2, TracesAreTransfers, RangeOfSeq
  <2>5. QED
    BY <1>5, <2>1, <2>2, <2>3, <2>4, HandlersLookedUp
<1>6. QED
  BY <1>3, <1>4, <1>5

\* What the block changes is looked up, unless it is unseen.
LEMMA ChangedLookedUp ==
  ASSUME NEW block \in Block, NEW p \in Changed(block), p \notin Unseen(block)
  PROVE  p \in Range(Changes(block))
<1> DEFINE s == Spending(Parent(block))
           handled == UNION {Range(TxHandler(block)), Range(StakingHandler(block)),
                             Range(ContractHandler(block)), Range(AssetHandler(block)),
                             Range(AttestationHandler(block))}
<1> SUFFICES p \in handled
  BY HandlersLookedUp
<1>2. ASSUME NEW x \in Range(BodyOf(block).exts), p \in ChangedByExtrinsic(x, s)
      PROVE  p \in handled
  <2>1. x \in Extrinsic /\ s \in Assets
    BY BlockParts, RangeOfSeq DEF Body
  <2>2. Spending(block) = s /\ ~(x.kind \in {"instantiate", "create", "claim"} /\ ~x.ok)
    <3> DEFINE blind(y) == Spending(block) # s \/ (y.kind \in {"instantiate", "create", "claim"} /\ ~y.ok)
    <3>1. ASSUME blind(x) PROVE p \in Unseen(block)
      BY <1>2, <3>1 DEF Unseen
    <3>2. QED
      BY <3>1
  <2>3. x.from \in Accounts /\ x.to \in Accounts /\ x.asset \in Assets
    BY <2>1 DEF Extrinsic
  <2>4. CASE x.kind = "transfer"
    <3>1. p \in {<<x.from, s>>, <<x.from, x.asset>>, <<x.to, x.asset>>}
      BY <1>2, <2>4 DEF ChangedByExtrinsic
    <3>2. {<<x.from, x.asset>>, <<x.to, x.asset>>, <<x.from, s>>} \subseteq Range(AddTransaction(x, s))
      BY <2>1, <2>3, TransactionAdds
    <3>3. Range(AddTransaction(x, s)) \subseteq Range(TxHandler(block))
      BY <2>2, <2>4, TxHandlerAdds
    <3>4. QED
      BY <3>1, <3>2, <3>3
  <2>5. CASE x.kind = "call"
    <3>1. Range(CallAdds(x, s)) \subseteq Range(ContractHandler(block))
      BY <2>2, <2>5, ContractHandlerAdds
    <3>2. \A t \in {Call(x, s)} \cup Range(Traces(x, s)) :
             {<<t.from, t.asset>>, <<t.to, t.asset>>} \subseteq Range(CallAdds(x, s))
      BY <2>1, CallAddsTransfers
    <3>3. {<<x.from, s>>, <<x.to, s>>} \subseteq Range(CallAdds(x, s))
      <4>1. Call(x, s).from = x.from /\ Call(x, s).to = x.to /\ Call(x, s).asset = s
        BY DEF Call
      <4>2. QED
        BY <3>2, <4>1
    <3>4. ASSUME x.ok, NEW t \in Range(x.inner)
          PROVE  {<<t[1], s>>, <<t[2], s>>} \subseteq Range(CallAdds(x, s))
      <4> DEFINE r == [from |-> t[1], to |-> t[2], asset |-> s]
      <4>1. r \in Range(Traces(x, s))
        BY <2>1, <3>4, TracesAreTransfers
      <4>2. {<<r.from, r.asset>>, <<r.to, r.asset>>} \subseteq Range(CallAdds(x, s))
        BY <3>2, <4>1
      <4>3. QED
        BY <4>2
    <3>5. p \in Range(CallAdds(x, s))
      BY <1>2, <2>5, <3>3, <3>4 DEF ChangedByExtrinsic
    <3>6. QED
      BY <3>1, <3>5
  <2>6. CASE x.kind = "instantiate"
    <3>1. x.ok /\ p \in {<<x.from, s>>, <<x.to, s>>}
      BY <1>2, <2>2, <2>6 DEF ChangedByExtrinsic
    <3>2. {<<x.from, s>>, <<x.to, s>>} \subseteq Range(ContractHandler(block))
      BY <2>2, <2>6, <3>1, ContractHandlerAdds
    <3>3. QED
      BY <3>1, <3>2
  <2>7. CASE x.kind = "create"
    BY <1>2, <2>2, <2>7, AssetHandlerAdds DEF ChangedByExtrinsic
  <2>8. CASE x.kind = "claim"
    BY <1>2, <2>2, <2>8, AttestationHandlerAdds DEF ChangedByExtrinsic
  <2>9. x.kind \in {"transfer", "call", "instantiate", "create", "claim"}
    BY <2>1 DEF Extrinsic
  <2>10. QED
    BY <2>4, <2>5, <2>6, <2>7, <2>8, <2>9
<1>3. ASSUME BodyOf(block).rewarded, p \in Range(Validators(Parent(block))) \X {s}
      PROVE  p \in handled
  <2>1. PICK v \in Range(Validators(Parent(block))) : p = <<v, s>>
    BY <1>3
  <2>2. p \in Range(StakingHandler(block))
    BY <1>3, <2>1, StakingHandlerAdds
  <2>3. QED
    BY <2>2
<1>4. ASSUME BodyOf(block).slashed # None, p = <<BodyOf(block).slashed, StakingAsset>>
      PROVE  p \in handled
  <2>1. p \in Range(StakingHandler(block))
    BY <1>4, StakingHandlerAdds
  <2>2. QED
    BY <2>1
<1> HIDE DEF handled
<1>5. \/ p \in UNION {ChangedByExtrinsic(x, s) : x \in Range(BodyOf(block).exts)}
      \/ p \in (IF BodyOf(block).rewarded
                THEN Range(Validators(Parent(block))) \X {s} ELSE {})
      \/ p \in (IF BodyOf(block).slashed # None THEN {<<BodyOf(block).slashed, StakingAsset>>} ELSE {})
  <2> DEFINE A == UNION {ChangedByExtrinsic(x, s) : x \in Range(BodyOf(block).exts)}
             B == IF BodyOf(block).rewarded
                  THEN Range(Validators(Parent(block))) \X {s} ELSE {}
             C == IF BodyOf(block).slashed # None THEN {<<BodyOf(block).slashed, StakingAsset>>} ELSE {}
  <2>1. Changed(block) = A \cup B \cup C
    BY DEF Changed
  <2> HIDE DEF A, B, C
  <2>2. p \in A \/ p \in B \/ p \in C
    BY <2>1
  <2>3. QED
    BY <2>2 DEF A, B, C
<1>6. CASE p \in UNION {ChangedByExtrinsic(x, s) : x \in Range(BodyOf(block).exts)}
  BY <1>2, <1>6
<1>7. CASE p \in (IF BodyOf(block).rewarded
                 THEN Range(Validators(Parent(block))) \X {s} ELSE {})
  BY <1>3, <1>7
<1>8. CASE p \in (IF BodyOf(block).slashed # None THEN {<<BodyOf(block).slashed, StakingAsset>>} ELSE {})
  BY <1>4, <1>8
<1>9. QED
  BY <1>5, <1>6, <1>7, <1>8

\* A row for each pair of "changes", with its balance.
LEMMA RowsOfChanges ==
  ASSUME NEW block \in Block
  PROVE  LET rows == GenerateBalances(block)
             changes == Changes(block)
         IN  /\ DOMAIN rows = DOMAIN changes
             /\ \A i \in DOMAIN rows :
                   /\ changes[i] = <<rows[i].account, rows[i].asset>>
                   /\ changes[i] \in Pairs
                   /\ rows[i].balance = GetBalance(block, rows[i].account, rows[i].asset)
                   /\ rows[i] = [account |-> rows[i].account, asset |-> rows[i].asset,
                                 balance |-> rows[i].balance]
<1>1. \A i \in DOMAIN Changes(block) : Changes(block)[i] \in Pairs
  BY HandlersLookedUp, LenProperties, ElementOfSeq
<1>2. QED
  BY <1>1 DEF GenerateBalances, Pairs

(***************************************************************************)
(* Blocks                                                                  *)
(***************************************************************************)
\* A chain that grows keeps the blocks it has.
LEMMA GrowsKeepsBlocks ==
  ASSUME NEW c \in Seq(Bodies), NEW body \in Bodies
  PROVE  /\ Append(c, body) \in Seq(Bodies)
         /\ DOMAIN c \subseteq DOMAIN Append(c, body)
         /\ \A n \in DOMAIN c : SubSeq(Append(c, body), 1, n) = SubSeq(c, 1, n)
<1>1. /\ Append(c, body) \in Seq(Bodies)
      /\ Len(Append(c, body)) = Len(c) + 1
      /\ \A i \in 1..Len(c) : Append(c, body)[i] = c[i]
  BY AppendProperties
<1>2. DOMAIN c \subseteq DOMAIN Append(c, body)
  BY <1>1, LenProperties
<1>3. ASSUME NEW n \in DOMAIN c
      PROVE  SubSeq(Append(c, body), 1, n) = SubSeq(c, 1, n)
  <2>1. n \in 1..Len(c)
    BY LenProperties
  <2>2. /\ SubSeq(c, 1, n) = [i \in 1..n |-> c[i]]
        /\ SubSeq(Append(c, body), 1, n) = [i \in 1..n |-> Append(c, body)[i]]
    BY <2>1, <1>1
  <2>3. QED
    BY <2>1, <2>2, <1>1
<1>4. QED
  BY <1>1, <1>2, <1>3

\* A block of height n has n bodies.
LEMMA BlockLength ==
  ASSUME NEW c \in Seq(Bodies), NEW n \in DOMAIN c
  PROVE  Len(SubSeq(c, 1, n)) = n
<1>1. n \in 1..Len(c)
  BY LenProperties
<1>2. QED
  BY <1>1, SubSeqProperties

\* The beginnings of a chain are blocks.
LEMMA PrefixIsBlock ==
  ASSUME NEW c \in Seq(Bodies), Len(c) <= MaxHeight, NEW n \in DOMAIN c
  PROVE  SubSeq(c, 1, n) \in Block /\ Len(SubSeq(c, 1, n)) = n /\ n \in Heights
<1>1. n \in 1..Len(c) /\ Len(c) \in Nat
  BY LenProperties
<1>2. SubSeq(c, 1, n) = [i \in 1..n |-> c[i]]
  BY <1>1
<1>3. n \in Heights
  BY <1>1, BoundAssumption DEF Heights
<1>4. SubSeq(c, 1, n) \in [1..n -> Bodies]
  <2>1. \A i \in 1..n : c[i] \in Bodies
    BY <1>1, ElementOfSeq
  <2>2. QED
    BY <1>2, <2>1
<1>5. QED
  BY <1>3, <1>4, BlockLength DEF Block

\* A balance is a block.
LEMMA BalanceIsBlock ==
  ASSUME NEW block \in Block, NEW a, NEW s
  PROVE  GetBalance(block, a, s) \in Block \cup {<<>>}
<1> DEFINE changes == {n \in DOMAIN block : <<a, s>> \in Changed(SubSeq(block, 1, n))}
<1>1. block \in Seq(Bodies) /\ Len(block) \in Nat /\ Len(block) <= MaxHeight
  BY BlockParts, BoundAssumption DEF Heights
<1>2. ASSUME changes # {} PROVE Max(changes) \in DOMAIN block
  <2>1. changes \in SUBSET (0..Len(block))
    BY <1>1, LenProperties
  <2>2. Max(changes) \in changes
    BY <1>1, <1>2, <2>1, MaxExists
  <2>3. QED
    BY <2>2
<1>3. CASE changes = {}
  BY <1>3 DEF GetBalance
<1>4. CASE changes # {}
  <2>1. GetBalance(block, a, s) = SubSeq(block, 1, Max(changes))
    BY <1>4 DEF GetBalance
  <2>2. QED
    BY <1>1, <1>2, <1>4, <2>1, PrefixIsBlock
<1>5. QED
  BY <1>3, <1>4

(***************************************************************************)
(* What is saved                                                           *)
(***************************************************************************)
\* A copy is a copy of a block of its number, or a part of one; its balances are
\* all there or none.
IsPart(c, n) ==
    /\ c = [by |-> c.by, block |-> c.block, transactions |-> c.transactions,
            balances |-> c.balances, traces |-> c.traces]
    /\ c.by \in Builders /\ c.block \in Block /\ Len(c.block) = n
    /\ c.transactions \subseteq Transactions(c.block) /\ c.traces \subseteq TraceRows(c.block)
    /\ c.balances \in {<<>>, GenerateBalances(c.block)}

\* A process has one copy of a number at most; whoever saved last has a whole
\* one, and it is alone unless another came during that save.
SavedParts(n) ==
    /\ \A c \in saved[n] : IsPart(c, n) /\ \A d \in saved[n] : c.by = d.by => c = d
    /\ saved[n] # {} => \E c \in saved[n] : c = Copy(c.by, c.block)
    /\ n \notin overlapped =>
          \A c \in saved[n] : saved[n] = {c} /\ c = Copy(c.by, c.block)

\* None of them has come before itself.
BuildersTyped ==
    /\ builder \in [Builders -> Builder \cup {None}]
    /\ \A w \in Builders : builder[w] # None => w \notin builder[w].since

ChainTyped ==
    /\ chain \in Seq(Bodies) /\ Len(chain) <= MaxHeight
    /\ reorgs \in 0..MaxReorgs

SavedTyped ==
    /\ saved = [n \in Heights |-> saved[n]]
    /\ overlapped \subseteq Heights
    /\ \A n \in Heights : SavedParts(n)

\* As long as the chain only grows, what a process holds is its beginning ...
BuildersOnChain ==
    reorgs = 0 => \A w \in Builders : builder[w] # None =>
        \E n \in DOMAIN chain : builder[w].block = SubSeq(chain, 1, n)

\* ... and what is saved of a number is of the chain's block.
SavedFromChain ==
    reorgs = 0 => \A n \in Heights : \A c \in saved[n] :
        n \in DOMAIN chain /\ c.block = SubSeq(chain, 1, n)

IndInv == ChainTyped /\ BuildersTyped /\ SavedTyped /\ BuildersOnChain /\ SavedFromChain

\* What is inserted is a part of itself.
LEMMA CopyIsPart ==
  ASSUME NEW w \in Builders, NEW block \in Block
  PROVE  /\ IsPart(Copy(w, block), Len(block))
         /\ Copy(w, block).by = w /\ Copy(w, block).block = block
         /\ Copy(w, block).balances = GenerateBalances(block)
         /\ Copy(w, block) = Copy(Copy(w, block).by, Copy(w, block).block)
  BY DEF Copy, IsPart

\* What the DELETEs leave of a part is a part.
LEMMA RemainderIsPart ==
  ASSUME NEW c, NEW n, IsPart(c, n), NEW k \in 0..4
  PROVE  /\ IsPart(Remainder(c, k), n)
         /\ Remainder(c, k).by = c.by /\ Remainder(c, k).block = c.block
<1> DEFINE txns == IF k >= 2 THEN c.transactions ELSE {}
           bals == IF k >= 3 THEN c.balances ELSE <<>>
           trcs == IF k >= 4 THEN c.traces ELSE {}
           r == [by |-> c.by, block |-> c.block, transactions |-> txns, balances |-> bals,
                 traces |-> trcs]
<1>1. Remainder(c, k) = r
  BY DEF Remainder
<1>2. /\ txns \subseteq Transactions(c.block) /\ trcs \subseteq TraceRows(c.block)
      /\ bals \in {<<>>, GenerateBalances(c.block)}
  BY DEF IsPart
<1> HIDE DEF txns, bals, trcs
<1>3. r.by = c.by /\ r.block = c.block
  OBVIOUS
<1>4. IsPart(r, n)
  BY <1>2 DEF IsPart
<1>5. QED
  BY <1>1, <1>3, <1>4

\* A whole copy in the place of all but rest, parts of copies that others have
\* saved since this save began.
Replaced(w, n, rest) ==
    /\ builder[w] \in Builder /\ builder[w] # None /\ n = Len(builder[w].block)
    /\ saved' = [saved EXCEPT ![n] = rest \cup {Copy(w, builder[w].block)}]
    /\ overlapped' = IF builder[w].since = {} THEN overlapped \ {n} ELSE overlapped \cup {n}
    /\ builder[w].since = {} => rest = {}
    /\ \A d \in rest : \E c \in saved[n] : \E k \in 0..4 :
          c.by \in builder[w].since /\ d = Remainder(c, k)
    /\ \A d, e \in rest : d.by = e.by => d = e

LEMMA SaveReplaces ==
  ASSUME IndInv, NEW w \in Builders, Save(w)
  PROVE  \E n \in Heights : \E rest : Replaced(w, n, rest)
<1> DEFINE n == Len(builder[w].block)
           came == {c \in saved[n] : c.by \in builder[w].since}
<1>1. builder[w] \in Builder /\ builder[w] # None
  BY DEF Save, Commit, IndInv, BuildersTyped
<1>2. builder[w].block \in Block /\ n \in Heights
  BY <1>1, BlockParts DEF Builder
<1>3. PICK missed \in [came -> 0..4] :
         saved' = [saved EXCEPT ![n] =
            {Remainder(c, missed[c]) : c \in {d \in came : missed[d] > 0}}
            \cup {Copy(w, builder[w].block)}]
  BY DEF Save, Commit
<1>4. overlapped' = IF builder[w].since = {} THEN overlapped \ {n} ELSE overlapped \cup {n}
  BY DEF Save, Commit
<1> DEFINE rest == {Remainder(c, missed[c]) : c \in {d \in came : missed[d] > 0}}
<1>5. builder[w].since = {} => rest = {}
  OBVIOUS
<1>6. \A d \in rest : \E c \in saved[n] : \E k \in 0..4 :
         c.by \in builder[w].since /\ d = Remainder(c, k)
  OBVIOUS
<1>7. ASSUME NEW d \in rest, NEW e \in rest, d.by = e.by PROVE d = e
  <2>1. PICK c \in came : d = Remainder(c, missed[c])
    OBVIOUS
  <2>2. PICK b \in came : e = Remainder(b, missed[b])
    OBVIOUS
  <2>3. IsPart(c, n) /\ IsPart(b, n)
    BY <1>2 DEF IndInv, SavedTyped, SavedParts
  <2>4. d.by = c.by /\ e.by = b.by
    BY <2>1, <2>2, <2>3, RemainderIsPart
  <2>5. c.by = b.by
    BY <1>7, <2>4
  <2>6. \A x, y \in saved[n] : x.by = y.by => x = y
    BY <1>2 DEF IndInv, SavedTyped, SavedParts
  <2>7. c = b
    BY <2>5, <2>6
  <2>8. QED
    BY <2>1, <2>2, <2>7
<1> HIDE DEF n, came, rest
<1>8. saved' = [saved EXCEPT ![n] = rest \cup {Copy(w, builder[w].block)}]
  BY <1>3 DEF rest
<1>9. QED
  BY <1>1, <1>2, <1>4, <1>5, <1>6, <1>7, <1>8 DEF n, Replaced

LEMMA SavedKeeps ==
  ASSUME IndInv, NEW w \in Builders, Save(w)
  PROVE  SavedTyped'
<1>0. PICK n \in Heights : \E rest : Replaced(w, n, rest)
  BY SaveReplaces
<1>1. PICK rest : Replaced(w, n, rest)
  BY <1>0
<1>2. /\ builder[w] \in Builder /\ builder[w] # None /\ n = Len(builder[w].block)
      /\ saved' = [saved EXCEPT ![n] = rest \cup {Copy(w, builder[w].block)}]
      /\ overlapped' = IF builder[w].since = {} THEN overlapped \ {n} ELSE overlapped \cup {n}
      /\ builder[w].since = {} => rest = {}
      /\ \A d \in rest : \E c \in saved[n] : \E k \in 0..4 :
            c.by \in builder[w].since /\ d = Remainder(c, k)
      /\ \A d, e \in rest : d.by = e.by => d = e
  BY <1>1 DEF Replaced
<1> DEFINE copy == Copy(w, builder[w].block)
<1>3. builder[w].block \in Block /\ w \notin builder[w].since
  BY <1>2 DEF Builder, IndInv, BuildersTyped
<1>4. IsPart(copy, n) /\ copy.by = w /\ copy = Copy(copy.by, copy.block)
  BY <1>2, <1>3, CopyIsPart
<1> HIDE DEF copy
<1>5. saved' = [m \in Heights |-> IF m = n THEN rest \cup {copy} ELSE saved[m]]
  BY <1>2 DEF copy, IndInv, SavedTyped
<1>6. ASSUME NEW d \in rest PROVE IsPart(d, n) /\ d.by \in builder[w].since
  <2>1. PICK c \in saved[n], k \in 0..4 : c.by \in builder[w].since /\ d = Remainder(c, k)
    BY <1>2
  <2>2. IsPart(c, n)
    BY DEF IndInv, SavedTyped, SavedParts
  <2>3. QED
    BY <2>1, <2>2, RemainderIsPart
<1>7. SavedParts(n)'
  <2>1. saved'[n] = rest \cup {copy}
    BY <1>5
  <2>2. \A c \in saved'[n] : IsPart(c, n)
    BY <1>4, <1>6, <2>1
  <2>3. ASSUME NEW c \in saved'[n], NEW d \in saved'[n], c.by = d.by PROVE c = d
    <3>1. (c \in rest \/ c = copy) /\ (d \in rest \/ d = copy)
      BY <2>1
    <3>2. \A e \in rest : e.by # copy.by
      BY <1>3, <1>4, <1>6
    <3>3. QED
      BY <1>2, <2>3, <3>1, <3>2
  <2>4. \E c \in saved'[n] : c = Copy(c.by, c.block)
    BY <1>4, <2>1
  <2>5. ASSUME n \notin overlapped' PROVE \A c \in saved'[n] : saved'[n] = {c} /\ c = Copy(c.by, c.block)
    <3>1. rest = {}
      BY <1>2, <2>5
    <3>2. saved'[n] = {copy}
      BY <2>1, <3>1
    <3>3. QED
      BY <1>4, <3>2
  <2>6. QED
    BY <2>2, <2>3, <2>4, <2>5 DEF SavedParts
<1>8. ASSUME NEW m \in Heights, m # n PROVE SavedParts(m)'
  <2>1. saved'[m] = saved[m] /\ (m \in overlapped' <=> m \in overlapped)
    BY <1>2, <1>5, <1>8
  <2>2. SavedParts(m)
    BY DEF IndInv, SavedTyped
  <2>3. QED
    BY <2>1, <2>2 DEF SavedParts
<1>9. saved' = [m \in Heights |-> saved'[m]]
  BY <1>5
<1>10. overlapped' \subseteq Heights
  BY <1>2 DEF IndInv, SavedTyped
<1>11. QED
  BY <1>7, <1>8, <1>9, <1>10 DEF SavedTyped

LEMMA SaveKeeps ==
  ASSUME IndInv, NEW w \in Builders, Save(w)
  PROVE  IndInv'
<1>1. SavedTyped'
  BY SavedKeeps
<1>2. ChainTyped' /\ UNCHANGED <<chain, reorgs>>
  BY DEF Save, Commit, IndInv, ChainTyped
<1>3. ASSUME NEW v \in Builders, builder'[v] # None
      PROVE  /\ builder[v] # None /\ v # w
             /\ builder'[v].block = builder[v].block
             /\ builder'[v] \in Builder /\ v \notin builder'[v].since
  <2>1. builder' \in [Builders -> {builder'[u] : u \in Builders}]
    BY DEF Save, Commit
  <2>2. v # w /\ builder[v] # None
    BY <1>3 DEF Save, Commit
  <2>3. builder[v] \in Builder /\ v \notin builder[v].since
    BY <2>2 DEF IndInv, BuildersTyped
  <2>4. builder'[v] = builder[v] \/ builder'[v] = [builder[v] EXCEPT !.since = @ \cup {w}]
    BY <2>2 DEF Save, Commit
  <2>5. CASE builder'[v] = builder[v]
    BY <2>2, <2>3, <2>5
  <2>6. CASE builder'[v] = [builder[v] EXCEPT !.since = @ \cup {w}]
    <3>1. /\ builder'[v].block = builder[v].block /\ builder'[v].since = builder[v].since \cup {w}
          /\ builder'[v] \in Builder
      BY <2>3, <2>6 DEF Builder
    <3>2. QED
      BY <2>2, <2>3, <3>1
  <2>7. QED
    BY <2>4, <2>5, <2>6
<1>4. BuildersTyped'
  <2>1. builder' = [v \in Builders |-> builder'[v]]
    BY DEF Save, Commit
  <2>2. QED
    BY <1>3, <2>1 DEF BuildersTyped
<1>5. BuildersOnChain'
  BY <1>2, <1>3 DEF IndInv, BuildersOnChain
<1>6. SavedFromChain'
  <2> SUFFICES ASSUME reorgs = 0, NEW m \in Heights, NEW d \in saved'[m]
               PROVE  m \in DOMAIN chain /\ d.block = SubSeq(chain, 1, m)
    BY <1>2 DEF SavedFromChain
  <2>0. PICK n \in Heights : \E rest : Replaced(w, n, rest)
    BY SaveReplaces
  <2>1. PICK rest : Replaced(w, n, rest)
    BY <2>0
  <2>2. /\ builder[w] \in Builder /\ builder[w] # None /\ n = Len(builder[w].block)
        /\ saved' = [saved EXCEPT ![n] = rest \cup {Copy(w, builder[w].block)}]
        /\ \A e \in rest : \E c \in saved[n] : \E k \in 0..4 : e = Remainder(c, k)
    BY <2>1 DEF Replaced
  <2>3. \A c \in saved[m] : m \in DOMAIN chain /\ c.block = SubSeq(chain, 1, m) /\ IsPart(c, m)
    BY DEF IndInv, SavedFromChain, SavedTyped, SavedParts
  <2>4. CASE d \in saved[m]
    BY <2>3, <2>4
  <2>5. CASE m = n /\ d \in rest
    <3>1. PICK c \in saved[m], k \in 0..4 : d = Remainder(c, k)
      BY <2>2, <2>5
    <3>2. d.block = c.block
      BY <2>3, <3>1, RemainderIsPart
    <3>3. QED
      BY <2>3, <3>2
  <2>6. CASE m = n /\ d = Copy(w, builder[w].block)
    <3>1. PICK i \in DOMAIN chain : builder[w].block = SubSeq(chain, 1, i)
      BY <2>2 DEF IndInv, BuildersOnChain
    <3>2. i = n
      BY <2>2, <3>1, BlockLength DEF IndInv, ChainTyped
    <3>3. d.block = builder[w].block
      BY <2>6 DEF Copy
    <3>4. QED
      BY <2>6, <3>1, <3>2, <3>3
  <2>7. saved'[m] = IF m = n THEN rest \cup {Copy(w, builder[w].block)} ELSE saved[m]
    BY <2>2 DEF IndInv, SavedTyped
  <2>8. QED
    BY <2>4, <2>5, <2>6, <2>7
<1>7. QED
  BY <1>1, <1>2, <1>4, <1>5, <1>6 DEF IndInv

LEMMA IndInvInit == Init => IndInv
  BY EmptySeq, BoundAssumption
     DEF Init, IndInv, ChainTyped, BuildersTyped, SavedTyped, SavedParts, BuildersOnChain,
         SavedFromChain

\* A step that saves nothing leaves what is saved typed.
LEMMA SavedUntouched ==
  ASSUME SavedTyped, UNCHANGED <<saved, overlapped>>
  PROVE  SavedTyped'
  BY DEF SavedTyped, SavedParts

LEMMA GrowsKeeps ==
  ASSUME IndInv, NEW body \in Bodies, ChainGrows(body)
  PROVE  IndInv'
<1>1. /\ chain' \in Seq(Bodies)
      /\ DOMAIN chain \subseteq DOMAIN chain'
      /\ \A n \in DOMAIN chain : SubSeq(chain', 1, n) = SubSeq(chain, 1, n)
  BY GrowsKeepsBlocks DEF ChainGrows, IndInv, ChainTyped
<1>2. ChainTyped'
  <2>1. Len(chain') = Len(chain) + 1
    BY AppendProperties DEF ChainGrows, IndInv, ChainTyped
  <2>2. Len(chain') <= MaxHeight
    BY <2>1, LenProperties, BoundAssumption DEF ChainGrows, IndInv, ChainTyped
  <2>3. QED
    BY <1>1, <2>2 DEF ChainGrows, IndInv, ChainTyped
<1>3. BuildersTyped' /\ SavedTyped'
  BY SavedUntouched DEF ChainGrows, IndInv, BuildersTyped
<1>4. BuildersOnChain'
  BY <1>1 DEF ChainGrows, IndInv, BuildersOnChain
<1>5. SavedFromChain'
  BY <1>1 DEF ChainGrows, IndInv, SavedFromChain
<1>6. QED
  BY <1>2, <1>3, <1>4, <1>5 DEF IndInv

LEMMA ReorganisedKeeps ==
  ASSUME IndInv, NEW body \in Bodies, NEW k \in 0..MaxHeight - 1, Reorganised(k, body)
  PROVE  IndInv'
<1>1. k \in 0..Len(chain) - 1 /\ Len(chain) <= MaxHeight /\ Len(chain) \in Nat
  BY LenProperties, BoundAssumption DEF Reorganised, IndInv, ChainTyped
<1>2. SubSeq(chain, 1, k) \in Seq(Bodies) /\ Len(SubSeq(chain, 1, k)) = k
  BY <1>1, SubSeqProperties DEF IndInv, ChainTyped
<1>3. chain' \in Seq(Bodies) /\ Len(chain') = k + 1
  BY <1>2, AppendProperties DEF Reorganised
<1>4. reorgs' # 0 /\ reorgs' \in 0..MaxReorgs
  BY BoundAssumption DEF Reorganised, IndInv, ChainTyped
<1>5. ChainTyped'
  BY <1>1, <1>3, <1>4, BoundAssumption DEF ChainTyped
<1>6. BuildersTyped' /\ SavedTyped'
  BY SavedUntouched DEF Reorganised, IndInv, BuildersTyped
<1>7. QED
  BY <1>4, <1>5, <1>6 DEF IndInv, BuildersOnChain, SavedFromChain

LEMMA BuildTaskKeeps ==
  ASSUME IndInv, NEW w \in Builders, NEW n \in Heights, BuildTask(w, n)
  PROVE  IndInv'
<1> DEFINE new == [block |-> GetBlock(n), pc |-> "building", since |-> {}]
<1>1. GetBlock(n) \in Block
  BY PrefixIsBlock DEF BuildTask, GetBlock, IndInv, ChainTyped
<1>2. new \in Builder /\ new.since = {} /\ new.block = GetBlock(n)
  BY <1>1 DEF Builder
<1>3. builder' = [builder EXCEPT ![w] = new]
  BY DEF BuildTask
<1> HIDE DEF new
<1>4. BuildersTyped'
  BY <1>2, <1>3 DEF IndInv, BuildersTyped
<1>5. BuildersOnChain'
  BY <1>2, <1>3 DEF BuildTask, GetBlock, IndInv, BuildersTyped, BuildersOnChain
<1>6. ChainTyped' /\ SavedTyped' /\ SavedFromChain'
  BY SavedUntouched DEF BuildTask, IndInv, ChainTyped, SavedFromChain
<1>7. QED
  BY <1>4, <1>5, <1>6 DEF IndInv

LEMMA BeginSaveKeeps ==
  ASSUME IndInv, NEW w \in Builders, BeginSave(w)
  PROVE  IndInv'
<1>1. builder[w] \in Builder /\ builder[w] # None
  BY DEF BeginSave, IndInv, BuildersTyped
<1> DEFINE new == [builder[w] EXCEPT !.pc = "saving"]
<1>2. new \in Builder /\ new.since = builder[w].since /\ new.block = builder[w].block
  BY <1>1 DEF Builder
<1>3. builder' = [builder EXCEPT ![w] = new]
  BY DEF BeginSave
<1> HIDE DEF new
<1>4. BuildersTyped'
  BY <1>1, <1>2, <1>3 DEF IndInv, BuildersTyped
<1>5. BuildersOnChain'
  BY <1>1, <1>2, <1>3 DEF BeginSave, IndInv, BuildersTyped, BuildersOnChain
<1>6. ChainTyped' /\ SavedTyped' /\ SavedFromChain'
  BY SavedUntouched DEF BeginSave, IndInv, ChainTyped, SavedFromChain
<1>7. QED
  BY <1>4, <1>5, <1>6 DEF IndInv

LEMMA BuildFailsKeeps ==
  ASSUME IndInv, NEW w \in Builders, BuildFails(w)
  PROVE  IndInv'
  BY SavedUntouched
     DEF BuildFails, IndInv, ChainTyped, BuildersTyped, BuildersOnChain, SavedFromChain

LEMMA IndInvNext == IndInv /\ [Next]_vars => IndInv'
<1> SUFFICES ASSUME IndInv, [Next]_vars PROVE IndInv'
  OBVIOUS
<1>1. CASE UNCHANGED vars
  BY <1>1, SavedUntouched
     DEF vars, IndInv, ChainTyped, BuildersTyped, BuildersOnChain, SavedFromChain
<1>2. CASE Next
  BY <1>2, GrowsKeeps, ReorganisedKeeps, BuildTaskKeeps, BeginSaveKeeps, SaveKeeps,
     BuildFailsKeeps DEF Next
<1>3. QED
  BY <1>1, <1>2

LEMMA IndInvInvariant == Spec => []IndInv
  BY IndInvInit, IndInvNext, PTL DEF Spec

(***************************************************************************)
(* The latest balance                                                      *)
(***************************************************************************)
\* A copy whose balances are there has them of its block.
LEMMA PlacesOfCopy ==
  ASSUME NEW n \in Heights, SavedParts(n), NEW c \in saved[n], NEW a, NEW s,
         Places(c, a, s) # {}
  PROVE  c.balances = GenerateBalances(c.block)
<1>1. c.balances \in {<<>>, GenerateBalances(c.block)}
  BY DEF SavedParts, IsPart
<1>2. ASSUME c.balances = <<>> PROVE FALSE
  BY <1>2, EmptySeq DEF Places
<1>3. QED
  BY <1>1, <1>2

\* While the chain only grows, a number that has a balance keeps one.
LEMMA NumbersStay ==
  ASSUME IndInv, [Next]_vars, reorgs = 0, NEW a, NEW s, NEW n \in Numbers(a, s)
  PROVE  n \in Numbers(a, s)'
<1>1. n \in Heights
  BY DEF Numbers
<1>2. PICK c \in saved[n] : Places(c, a, s) # {}
  BY DEF Numbers
<1>3. CASE UNCHANGED saved
  BY <1>3 DEF Numbers
<1>4. ASSUME NEW w \in Builders, Save(w)
      PROVE  n \in Numbers(a, s)'
  <2>1. PICK m \in Heights : \E rest : Replaced(w, m, rest)
    BY <1>4, SaveReplaces
  <2>2. PICK rest : Replaced(w, m, rest)
    BY <2>1
  <2> DEFINE copy == Copy(w, builder[w].block)
  <2>3. /\ builder[w] \in Builder /\ builder[w] # None /\ m = Len(builder[w].block)
        /\ saved' = [saved EXCEPT ![m] = rest \cup {copy}]
    BY <2>2 DEF Replaced
  <2>4. CASE n # m
    <3>1. saved'[n] = saved[n]
      BY <1>1, <2>3, <2>4 DEF IndInv, SavedTyped
    <3>2. QED
      BY <1>1, <1>2, <3>1 DEF Numbers
  <2>5. CASE n = m
    <3>1. PICK i \in DOMAIN chain : builder[w].block = SubSeq(chain, 1, i)
      BY <2>3 DEF IndInv, BuildersOnChain
    <3>2. i = n
      BY <2>3, <2>5, <3>1, BlockLength DEF IndInv, ChainTyped
    <3>3. c.block = builder[w].block
      BY <1>1, <1>2, <3>1, <3>2 DEF IndInv, SavedFromChain
    <3>4. c.balances = copy.balances
      <4>1. c.balances = GenerateBalances(c.block)
        BY <1>1, <1>2, PlacesOfCopy DEF IndInv, SavedTyped
      <4>2. QED
        BY <3>3, <4>1 DEF Copy
    <3>5. Places(copy, a, s) # {}
      BY <1>2, <3>4 DEF Places
    <3>6. copy \in saved'[n]
      BY <1>1, <2>3, <2>5 DEF IndInv, SavedTyped
    <3>7. QED
      BY <1>1, <3>5, <3>6 DEF Numbers
  <2>6. QED
    BY <2>4, <2>5
<1>5. UNCHANGED saved \/ \E w \in Builders : Save(w)
  BY DEF Next, vars, ChainGrows, Reorganised, BuildTask, BeginSave, BuildFails
<1>6. QED
  BY <1>3, <1>4, <1>5

\* While the chain only grows, the number the api answers a balance from never
\* falls, whatever is saved again, in whatever order, at once with whatever else,
\* or fails to be built.
THEOREM LatestOnlyRises == Spec => LatestNeverGoesBack
<1> DEFINE Rises == \A a \in Accounts, s \in Assets : LatestNumber(a, s)' >= LatestNumber(a, s)
<1>1. ASSUME IndInv, [Next]_vars, reorgs = 0
      PROVE  Rises
  <2> SUFFICES ASSUME NEW a \in Accounts, NEW s \in Assets
               PROVE  LatestNumber(a, s)' >= LatestNumber(a, s)
    OBVIOUS
  <2> DEFINE S == Numbers(a, s) \cup {0}
             T == Numbers(a, s)' \cup {0}
  <2>1. Numbers(a, s) \subseteq Numbers(a, s)'
    BY <1>1, NumbersStay
  <2>2. MaxHeight \in Nat /\ S \in SUBSET (0..MaxHeight) /\ T \in SUBSET (0..MaxHeight)
    BY BoundAssumption DEF Numbers, Heights
  <2>3. S \subseteq T /\ S # {}
    BY <2>1
  <2>4. Max(T) >= Max(S)
    <3> HIDE DEF S, T
    <3>1. QED
      BY <2>2, <2>3, MaxGrows
  <2>5. QED
    BY <2>4 DEF LatestNumber
<1>2. IndInv /\ [Next]_vars => [reorgs = 0 => Rises]_vars
  BY <1>1
<1>3. QED
  BY <1>2, IndInvInvariant, PTL DEF Spec, LatestNeverGoesBack

(***************************************************************************)
(* Types                                                                   *)
(***************************************************************************)
\* What the tables of a block are made of.
LEMMA RowsTyped ==
  ASSUME NEW block \in Block
  PROVE  /\ Transactions(block) \subseteq Transfer /\ TraceRows(block) \subseteq Transfer
         /\ \A i \in DOMAIN GenerateBalances(block) : GenerateBalances(block)[i] \in BalanceRow
<1>1. Transactions(block) \subseteq Transfer /\ TraceRows(block) \subseteq Transfer
  <2>1. ASSUME NEW t \in Transactions(block) \cup TraceRows(block) PROVE t \in Transfer
    BY <2>1, PartiesLookedUp
  <2>2. QED
    BY <2>1
<1>2. ASSUME NEW i \in DOMAIN GenerateBalances(block)
      PROVE  GenerateBalances(block)[i] \in BalanceRow
  <2> DEFINE row == GenerateBalances(block)[i]
  <2>1. /\ <<row.account, row.asset>> \in Pairs
        /\ row.balance = GetBalance(block, row.account, row.asset)
        /\ row = [account |-> row.account, asset |-> row.asset, balance |-> row.balance]
    BY RowsOfChanges
  <2>2. row.account \in Accounts /\ row.asset \in Assets /\ row.balance \in Block \cup {<<>>}
    BY <2>1, BalanceIsBlock DEF Pairs
  <2> HIDE DEF row
  <2>3. row \in BalanceRow
    BY <2>1, <2>2 DEF BalanceRow
  <2>4. QED
    BY <2>3 DEF row
<1>3. QED
  BY <1>1, <1>2

\* Type correctness of chain, processes and database, a copy of each process at
\* most of a number.
THEOREM TypeCorrect == Spec => []TypeOK
<1>1. IndInv => TypeOK
  <2> SUFFICES ASSUME IndInv PROVE TypeOK
    OBVIOUS
  <2>1. chain \in Block \cup {<<>>}
    <3>1. CASE chain = <<>>
      BY <3>1
    <3>2. CASE chain # <<>>
      <4>1. Len(chain) \in DOMAIN chain
        BY <3>2, EmptySeq, LenProperties DEF IndInv, ChainTyped
      <4>2. SubSeq(chain, 1, Len(chain)) \in Block
        BY <4>1, PrefixIsBlock DEF IndInv, ChainTyped
      <4>3. QED
        BY <4>2, SubSeqFull DEF IndInv, ChainTyped
    <3>3. QED
      BY <3>1, <3>2
  <2>2. ASSUME NEW n \in Heights, NEW c \in saved[n]
        PROVE  IsCopy(c, n) /\ \A d \in saved[n] : c.by = d.by => c = d
    <3>1. IsPart(c, n) /\ \A d \in saved[n] : c.by = d.by => c = d
      BY DEF IndInv, SavedTyped, SavedParts
    <3>2. \A i \in DOMAIN c.balances : c.balances[i] \in BalanceRow
      <4>1. c.block \in Block /\ c.balances \in {<<>>, GenerateBalances(c.block)}
        BY <3>1 DEF IsPart
      <4>2. QED
        BY <4>1, RowsTyped, EmptySeq
    <3>3. c.transactions \subseteq Transfer /\ c.traces \subseteq Transfer
      BY <3>1, RowsTyped DEF IsPart
    <3>4. QED
      BY <3>1, <3>2, <3>3 DEF IsPart, IsCopy
  <2>3. DOMAIN saved = Heights
    BY DEF IndInv, SavedTyped
  <2>4. builder \in [Builders -> Builder \cup {None}]
    BY DEF IndInv, BuildersTyped
  <2>5. QED
    BY <2>1, <2>2, <2>3, <2>4 DEF IndInv, ChainTyped, SavedTyped, TypeOK
<1>2. QED
  BY <1>1, IndInvInvariant, PTL

(***************************************************************************)
(* The joins                                                               *)
(***************************************************************************)
\* A block has one balance of each party of its transactions and traces, its own.
LEMMA OneBalanceOfParty ==
  ASSUME NEW block \in Block, NEW t \in Transactions(block) \cup TraceRows(block),
         NEW a \in {t.from, t.to}, NEW c, c.balances = GenerateBalances(block)
  PROVE  \E j : Places(c, a, t.asset) = {j}
<1> DEFINE rows == GenerateBalances(block)
           changes == Changes(block)
<1>1. <<a, t.asset>> \in Range(changes)
  BY PartiesLookedUp
<1>2. PICK j \in DOMAIN changes : changes[j] = <<a, t.asset>>
  BY <1>1 DEF Range
<1>3. /\ DOMAIN rows = DOMAIN changes
      /\ \A i \in DOMAIN rows : changes[i] = <<rows[i].account, rows[i].asset>>
  BY RowsOfChanges
<1>4. \A i, k \in DOMAIN changes : changes[i] = changes[k] => i = k
  BY HandlersLookedUp
<1>5. c.balances = rows
  OBVIOUS
<1> HIDE DEF rows, changes
<1>6. Places(c, a, t.asset) = {i \in DOMAIN rows : rows[i].account = a /\ rows[i].asset = t.asset}
  BY <1>5 DEF Places
<1>7. \A i \in DOMAIN rows : rows[i].account = a /\ rows[i].asset = t.asset <=> i = j
  BY <1>2, <1>3, <1>4
<1>8. Places(c, a, t.asset) = {j}
  BY <1>2, <1>3, <1>6, <1>7
<1>9. QED
  BY <1>8

\* A balance that is saved is that of the block it is saved with.
LEMMA BalanceOfOwnBlock ==
  ASSUME NEW n \in Heights, SavedParts(n), NEW c \in saved[n], NEW a, NEW s,
         NEW i \in Places(c, a, s)
  PROVE  c.balances[i].balance = GetBalance(c.block, a, s)
<1>1. c.block \in Block
  BY DEF SavedParts, IsPart
<1>2. c.balances = GenerateBalances(c.block)
  BY PlacesOfCopy
<1>3. i \in DOMAIN c.balances /\ c.balances[i].account = a /\ c.balances[i].asset = s
  BY DEF Places
<1>4. GenerateBalances(c.block)[i].balance
        = GetBalance(c.block, GenerateBalances(c.block)[i].account, GenerateBalances(c.block)[i].asset)
  BY <1>1, <1>2, <1>3, RowsOfChanges
<1>5. QED
  BY <1>2, <1>3, <1>4

\* Each transaction and trace that is saved joins exactly one balance of its
\* sender and one of its recipient if no two processes saved the block at once:
\* the handlers look both up, addChange once, and a save replaces all there was.
\* If some did, and it was the same block, none is missing, because whoever
\* saved last has a whole copy, and any is right, because a balance is left with
\* its row.  Either is the balance at the block itself.
THEOREM JoinsOneBalanceInvariant == Spec => []JoinsOneBalance
<1>1. IndInv => JoinsOneBalance
  <2> SUFFICES ASSUME IndInv, NEW n \in Heights, NEW c \in saved[n],
                      NEW t \in c.transactions \cup c.traces, NEW a \in {t.from, t.to}
               PROVE  /\ n \notin overlapped =>
                            saved[n] = {c} /\ Cardinality(Places(c, a, t.asset)) = 1
                      /\ (\A d \in saved[n] : d.block = c.block)
                         => /\ \E d \in saved[n] : Places(d, a, t.asset) # {}
                            /\ \A d \in saved[n] : \A i \in Places(d, a, t.asset) :
                                  d.balances[i].balance = GetBalance(c.block, a, t.asset)
    BY DEF JoinsOneBalance
  <2>1. SavedParts(n)
    BY DEF IndInv, SavedTyped
  <2>2. c.block \in Block /\ t \in Transactions(c.block) \cup TraceRows(c.block)
    BY <2>1 DEF SavedParts, IsPart
  <2>3. ASSUME NEW d \in saved[n], d.block = c.block, d = Copy(d.by, d.block)
        PROVE  \E j : Places(d, a, t.asset) = {j}
    <3>1. d.balances = GenerateBalances(c.block)
      BY <2>3 DEF Copy
    <3>2. QED
      BY <2>2, <3>1, OneBalanceOfParty
  <2>4. ASSUME n \notin overlapped
        PROVE  saved[n] = {c} /\ Cardinality(Places(c, a, t.asset)) = 1
    <3>1. saved[n] = {c} /\ c = Copy(c.by, c.block)
      BY <2>1, <2>4 DEF SavedParts
    <3>2. PICK j : Places(c, a, t.asset) = {j}
      BY <2>3, <3>1
    <3>3. Cardinality({j}) = 1
      BY FS_Singleton
    <3>4. QED
      BY <3>1, <3>2, <3>3
  <2>5. ASSUME \A d \in saved[n] : d.block = c.block
        PROVE  \E d \in saved[n] : Places(d, a, t.asset) # {}
    <3>1. PICK d \in saved[n] : d = Copy(d.by, d.block)
      BY <2>1 DEF SavedParts
    <3>2. d.block = c.block
      BY <2>5
    <3>3. \E j : Places(d, a, t.asset) = {j}
      BY <2>3, <3>1, <3>2
    <3>4. QED
      BY <3>3
  <2>6. ASSUME \A d \in saved[n] : d.block = c.block,
               NEW d \in saved[n], NEW i \in Places(d, a, t.asset)
        PROVE  d.balances[i].balance = GetBalance(c.block, a, t.asset)
    <3>1. d.balances[i].balance = GetBalance(d.block, a, t.asset)
      BY <2>1, BalanceOfOwnBlock
    <3>2. d.block = c.block
      BY <2>6
    <3>3. QED
      BY <3>1, <3>2
  <2>7. QED
    BY <2>4, <2>5, <2>6
<1>2. QED
  BY <1>1, IndInvInvariant, PTL

(***************************************************************************)
(* The current balances                                                    *)
(***************************************************************************)
\* A balance that has not changed since is that of the chain's beginning.
LEMMA BalanceOfPrefix ==
  ASSUME NEW c \in Seq(Bodies), NEW n \in DOMAIN c, NEW a, NEW s,
         \A m \in DOMAIN c : <<a, s>> \in Changed(SubSeq(c, 1, m)) => m <= n
  PROVE  GetBalance(SubSeq(c, 1, n), a, s) = GetBalance(c, a, s)
<1> DEFINE block == SubSeq(c, 1, n)
           changes(b) == {m \in DOMAIN b : <<a, s>> \in Changed(SubSeq(b, 1, m))}
<1>1. n \in 1..Len(c) /\ Len(c) \in Nat /\ DOMAIN c = 1..Len(c)
  BY LenProperties
<1>2. block = [i \in 1..n |-> c[i]] /\ DOMAIN block = 1..n
  BY <1>1
<1>3. ASSUME NEW m \in 1..n PROVE SubSeq(block, 1, m) = SubSeq(c, 1, m)
  <2>1. m \in Nat /\ m <= n
    BY <1>1
  <2>2. SubSeq(c, 1, m) = [i \in 1..m |-> c[i]]
    BY <1>1, <2>1
  <2>3. SubSeq(block, 1, m) = [i \in 1..m |-> block[i]]
    BY <1>2, <2>1
  <2>4. \A i \in 1..m : block[i] = c[i]
    BY <1>1, <1>2, <2>1
  <2> HIDE DEF block
  <2>5. QED
    BY <2>2, <2>3, <2>4
<1> HIDE DEF block
<1>4. changes(block) = changes(c)
  <2>1. 1..n \subseteq DOMAIN c
    BY <1>1
  <2>2. \A m \in DOMAIN c : <<a, s>> \in Changed(SubSeq(c, 1, m)) => m \in 1..n
    BY <1>1
  <2>3. QED
    BY <1>2, <1>3, <2>1, <2>2
<1>5. CASE changes(c) = {}
  BY <1>4, <1>5 DEF GetBalance, block
<1>6. CASE changes(c) # {}
  <2>1. changes(c) \in SUBSET (0..Len(c)) /\ changes(block) \subseteq 1..n
    BY <1>1, <1>2
  <2>2. Max(changes(c)) \in changes(c)
    BY <1>1, <1>6, <2>1, MaxExists
  <2>3. Max(changes(c)) \in 1..n
    BY <1>4, <2>1, <2>2
  <2>4. SubSeq(block, 1, Max(changes(c))) = SubSeq(c, 1, Max(changes(c)))
    BY <1>3, <2>3
  <2>5. /\ GetBalance(block, a, s) = SubSeq(block, 1, Max(changes(block)))
        /\ GetBalance(c, a, s) = SubSeq(c, 1, Max(changes(c)))
    BY <1>4, <1>6 DEF GetBalance
  <2> HIDE DEF changes
  <2>6. QED
    BY <1>4, <2>4, <2>5 DEF block
<1>7. QED
  BY <1>5, <1>6

\* Once the whole chain is saved, in whatever order, however often and by
\* whichever processes at once, the api answers the balance of the best block,
\* for every account and asset that no block has changed unseen.
THEOREM BalanceCurrentInvariant == Spec => []BalanceCurrent
<1>1. IndInv => BalanceCurrent
  <2> SUFFICES ASSUME IndInv,
                      \A n \in DOMAIN chain : Canonical(n),
                      \A n \in Heights \ DOMAIN chain : saved[n] = {},
                      NEW a \in Accounts, NEW s \in Assets,
                      \A n \in DOMAIN chain : <<a, s>> \notin Unseen(SubSeq(chain, 1, n))
               PROVE  Answer(a, s) = {GetBalance(chain, a, s)}
    BY DEF BalanceCurrent
  <2> DEFINE block(n) == SubSeq(chain, 1, n)
             numbers == Numbers(a, s)
             changes == {n \in DOMAIN chain : <<a, s>> \in Changed(block(n))}
  <2>1. chain \in Seq(Bodies) /\ Len(chain) <= MaxHeight /\ DOMAIN chain = 1..Len(chain)
        /\ Len(chain) \in Nat
    BY LenProperties DEF IndInv, ChainTyped
  <2>2. ASSUME NEW n \in DOMAIN chain
        PROVE  /\ block(n) \in Block /\ n \in Heights /\ SavedParts(n)
               /\ \A c \in saved[n] : c.block = block(n)
               /\ \E c \in saved[n] : c.balances = GenerateBalances(block(n))
    <3>1. block(n) \in Block /\ n \in Heights
      BY <2>1, PrefixIsBlock
    <3>2. SavedParts(n)
      BY <3>1 DEF IndInv, SavedTyped
    <3>3. saved[n] # {} /\ \A c \in saved[n] : c.block = block(n)
      BY DEF Canonical
    <3>4. PICK c \in saved[n] : c = Copy(c.by, c.block)
      BY <3>2, <3>3 DEF SavedParts
    <3>5. c.balances = GenerateBalances(block(n))
      <4>1. c.balances = GenerateBalances(c.block)
        BY <3>4 DEF Copy
      <4>2. c.block = block(n)
        BY <3>3
      <4> HIDE DEF block
      <4>3. QED
        BY <4>1, <4>2
    <3>6. QED
      BY <3>1, <3>2, <3>3, <3>5
  <2>3. numbers \subseteq DOMAIN chain
    BY DEF Numbers
  <2>4. changes \subseteq numbers
    <3> SUFFICES ASSUME NEW n \in changes PROVE n \in numbers
      OBVIOUS
    <3>1. n \in DOMAIN chain /\ n \in Heights /\ block(n) \in Block
      BY <2>2
    <3>2. <<a, s>> \in Range(Changes(block(n)))
      BY <3>1, ChangedLookedUp
    <3>3. PICK i \in DOMAIN Changes(block(n)) : Changes(block(n))[i] = <<a, s>>
      BY <3>2 DEF Range
    <3>4. PICK c \in saved[n] : c.balances = GenerateBalances(block(n))
      BY <2>2, <3>1
    <3>5. i \in DOMAIN c.balances /\ c.balances[i].account = a /\ c.balances[i].asset = s
      BY <3>1, <3>3, <3>4, RowsOfChanges
    <3>6. QED
      BY <3>1, <3>5 DEF Numbers, Places
  <2>5. CASE numbers = {}
    <3>1. LatestNumber(a, s) = 0
      <4>1. Max({0}) = 0
        <5>1. {0} \in SUBSET (0..0)
          OBVIOUS
        <5>2. Max({0}) \in {0}
          BY <5>1, MaxExists
        <5>3. QED
          BY <5>2
      <4>2. numbers \cup {0} = {0}
        BY <2>5
      <4>3. QED
        BY <4>1, <4>2 DEF LatestNumber
    <3>2. Answer(a, s) = {<<>>}
      BY <3>1 DEF Answer
    <3>3. GetBalance(chain, a, s) = <<>>
      BY <2>4, <2>5 DEF GetBalance
    <3>4. QED
      BY <3>2, <3>3
  <2>6. CASE numbers # {}
    <3> DEFINE n == LatestNumber(a, s)
    <3>1. n \in numbers \cup {0} /\ \A m \in numbers \cup {0} : n >= m
      <4>1. numbers \cup {0} \in SUBSET (0..Len(chain)) /\ numbers \cup {0} # {}
        BY <2>1, <2>3
      <4>2. n = Max(numbers \cup {0})
        BY DEF LatestNumber
      <4> HIDE DEF n, numbers
      <4>3. QED
        BY <2>1, <4>1, <4>2, MaxExists
    <3>2. n \in numbers /\ n \in DOMAIN chain /\ n # 0
      <4>1. \A m \in numbers : m >= 1
        BY <2>1, <2>3
      <4> HIDE DEF n, numbers
      <4>2. n # 0
        BY <2>1, <2>3, <2>6, <3>1, <4>1
      <4>3. QED
        BY <2>3, <3>1, <4>2
    <3>3. Answer(a, s) = UNION {{c.balances[i].balance : i \in Places(c, a, s)} : c \in saved[n]}
      BY <3>2 DEF Answer
    <3>4. \E c \in saved[n] : Places(c, a, s) # {}
      BY <3>2 DEF Numbers
    <3> HIDE DEF n, numbers
    <3>5. ASSUME NEW c \in saved[n], NEW i \in Places(c, a, s)
          PROVE  c.balances[i].balance = GetBalance(block(n), a, s)
      <4>1. n \in Heights /\ SavedParts(n) /\ c.block = block(n)
        BY <2>2, <3>2
      <4>2. c.balances[i].balance = GetBalance(c.block, a, s)
        BY <4>1, BalanceOfOwnBlock
      <4> HIDE DEF block
      <4>3. QED
        BY <4>1, <4>2
    <3>6. \A m \in DOMAIN chain : <<a, s>> \in Changed(SubSeq(chain, 1, m)) => m <= n
      BY <2>1, <2>4, <3>1, <3>2
    <3>7. GetBalance(block(n), a, s) = GetBalance(chain, a, s)
      BY <2>1, <3>2, <3>6, BalanceOfPrefix
    <3> HIDE DEF block
    <3>8. QED
      BY <3>3, <3>4, <3>5, <3>7
  <2>7. QED
    BY <2>5, <2>6
<1>2. QED
  BY <1>1, IndInvInvariant, PTL
=============================================================================
