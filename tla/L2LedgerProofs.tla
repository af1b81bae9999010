--------------------------- MODULE L2LedgerProofs ---------------------------
(***************************************************************************)
(* Theorems about the L2 ledger, for any accounts, leaves, tokens, block   *)
(* size and requests: what is locked is what the open orders still sell,   *)
(* no request loses money, a match fills the orders within what they offer *)
(* and, up to what IntDivide leaves open, at the maker's price, and a      *)
(* signed order is in the ledger once.                                     *)
(*                                                                         *)
(* The cancellation of an order that was matched in part unlocks its whole *)
(* amount, more than it has locked; all theorems but the last are about    *)
(* the requests without cancellations.                                     *)
(***************************************************************************)
EXTENDS L2Ledger, PrefixSumsProofs, TLAPS

NoCancels == \A req \in Requests : req.reqType # "Cancel"

Places == OpenOrders \cup {NoOrder}

\* TreeLocks of the orders ords.
LocksOf(ords, a, t) == [l \in Leaves |-> LeafLocks(ords[l], a, t)]

\* ChannelLocks of the order ch whose match started at sold.
LocksIn(ch, sold, a, t) == IF ch = NoOrder THEN 0 ELSE Locks(ch, sold, a, t)
-----------------------------------------------------------------------------
(***************************************************************************)
(* Sums of locked amounts over the order tree.                             *)
(***************************************************************************)
LEMMA OpenOrderFacts ==
    ASSUME NEW o \in OpenOrders
    PROVE  /\ o \in Orders /\ o # NoOrder
           /\ o.signer \in Accounts /\ o.token \in Tokens /\ o.buyToken \in Tokens
           /\ o.amount \in Nat /\ o.buyAmt \in Nat /\ o.nonce \in Nat
           /\ o.amount < AmountLimit /\ o.buyAmt < AmountLimit
           /\ o.accumulatedSellAmt \in 0 .. o.amount
           /\ o.accumulatedBuyAmt \in Nat
           /\ RemainSellAmt(o) \in 0 .. o.amount
BY NoOrderAssumption, ConstantAssumption DEF OpenOrders, Orders, Amounts, RemainSellAmt

\* An open order locks a natural number, all it has left to sell.
LEMMA LeafLocksType ==
    ASSUME NEW o \in Places, NEW a, NEW t
    PROVE  LeafLocks(o, a, t) \in Nat
BY OpenOrderFacts DEF Places, LeafLocks, Locks

\* What the leaves lock are natural numbers, one for each leaf.
LEMMA LocksOfType ==
    ASSUME NEW ords \in [Leaves -> Places], NEW a, NEW t
    PROVE  /\ LocksOf(ords, a, t) \in Seq(Nat)
           /\ Len(LocksOf(ords, a, t)) = NumOfLeaves
           /\ \A l \in Leaves : LocksOf(ords, a, t)[l] = LeafLocks(ords[l], a, t)
           /\ Total(LocksOf(ords, a, t)) \in Nat
<1> DEFINE s == LocksOf(ords, a, t)
<1>1. s \in [1 .. NumOfLeaves -> Nat]
  BY LeafLocksType DEF LocksOf, Leaves
<1>2. NumOfLeaves \in Nat
  BY ConstantAssumption
<1>3. s \in Seq(Nat) /\ Len(s) = NumOfLeaves
  <2>1. DOMAIN s = 1 .. NumOfLeaves
    BY <1>1
  <2>2. s \in UNION {[1 .. n -> Nat] : n \in Nat}
    BY <1>1, <1>2
  <2>3. QED
    BY <1>1, <1>2, <2>1, <2>2, SMT
<1>4. \A l \in Leaves : s[l] = LeafLocks(ords[l], a, t)
  BY DEF LocksOf
<1> HIDE DEF s
<1>5. Total(s) \in Nat
  BY <1>3, TotalType
<1>6. QED
  BY <1>3, <1>4, <1>5 DEF s

\* A leaf locks at most what the tree locks.
LEMMA LeafBelowTree ==
    ASSUME NEW ords \in [Leaves -> Places], NEW a, NEW t, NEW leaf \in Leaves
    PROVE  LeafLocks(ords[leaf], a, t) <= Total(LocksOf(ords, a, t))
<1> DEFINE s == LocksOf(ords, a, t)
<1>1. s \in Seq(Nat) /\ leaf \in 1 .. Len(s) /\ s[leaf] = LeafLocks(ords[leaf], a, t)
  BY LocksOfType DEF Leaves
<1> HIDE DEF s
<1>2. s[leaf] <= Total(s)
  BY <1>1, TotalBounds
<1>3. QED
  BY <1>1, <1>2 DEF s

\* Writing a leaf changes what the tree locks by what the leaf locks.
LEMMA LeafWritten ==
    ASSUME NEW ords \in [Leaves -> Places], NEW written \in [Leaves -> Places],
           NEW a, NEW t, NEW leaf \in Leaves,
           \A l \in Leaves : l # leaf => written[l] = ords[l]
    PROVE  Total(LocksOf(written, a, t)) + LeafLocks(ords[leaf], a, t)
             = Total(LocksOf(ords, a, t)) + LeafLocks(written[leaf], a, t)
<1> DEFINE s == LocksOf(ords, a, t)
           w == LocksOf(written, a, t)
<1>3. /\ s \in Seq(Nat) /\ w \in Seq(Nat) /\ Len(w) = Len(s) /\ leaf \in 1 .. Len(s)
      /\ Len(s) = NumOfLeaves
  BY LocksOfType DEF Leaves
<1>4. /\ \A l \in Leaves : s[l] = LeafLocks(ords[l], a, t)
      /\ \A l \in Leaves : w[l] = LeafLocks(written[l], a, t)
  BY LocksOfType
<1> HIDE DEF s, w
<1>5. \A l \in 1 .. Len(s) : l # leaf => w[l] = s[l]
  BY <1>3, <1>4 DEF Leaves
<1>6. Total(w) + s[leaf] = Total(s) + w[leaf]
  BY <1>3, <1>5, TotalUpdate
<1>7. s[leaf] = LeafLocks(ords[leaf], a, t) /\ w[leaf] = LeafLocks(written[leaf], a, t)
  BY <1>4
<1>8. QED
  BY <1>6, <1>7 DEF s, w

-----------------------------------------------------------------------------
(***************************************************************************)
(* What a match exchanges.                                                 *)
(***************************************************************************)
LEMMA DivBounds ==
    ASSUME NEW a \in Nat, NEW b \in Nat, b > 0
    PROVE  /\ a \div b \in Nat
           /\ (a \div b) * b <= a
           /\ a < (a \div b) * b + b
OBVIOUS

\* A product grows with its factor; the provers need it said.
LEMMA TimesMonotone ==
    ASSUME NEW a \in Nat, NEW b \in Nat, NEW c \in Nat, a <= b
    PROVE  a * c <= b * c
OBVIOUS

\* With the quotients rounded down, the price is the maker's up to less than
\* one unit of what each buys.
LEMMA FloorAmounts ==
    ASSUME NEW maker \in OpenOrders, NEW taker \in OpenOrders, IsMatched(maker, taker)
    PROVE  LET sold == MatchedSellAmt(maker, SupTakerBuyAmt(maker, taker))
               bought == MatchedBuyAmt(taker, SupMakerBuyAmt(maker))
           IN  /\ sold * maker.buyAmt < bought * maker.amount + maker.amount
               /\ bought * maker.amount < sold * maker.buyAmt + maker.buyAmt
<1> DEFINE A == maker.amount
           B == maker.buyAmt
           M == RemainSellAmt(maker)
           T == RemainSellAmt(taker)
           supM == SupMakerBuyAmt(maker)
           supT == SupTakerBuyAmt(maker, taker)
           sold == MatchedSellAmt(maker, supT)
           bought == MatchedBuyAmt(taker, supM)
<1>1. A \in Nat /\ B \in Nat /\ A > 0 /\ B > 0 /\ M \in Nat /\ T \in Nat
  BY OpenOrderFacts DEF IsMatched
<1>2. /\ supM = (M * B) \div A /\ supT = (T * A) \div B
      /\ sold = (IF M <= supT THEN M ELSE supT)
      /\ bought = (IF T <= supM THEN T ELSE supM)
  BY DEF SupMakerBuyAmt, SupTakerBuyAmt, Quotient, MatchedSellAmt, MatchedBuyAmt, Lesser
<1> HIDE DEF A, B, M, T, supM, supT, sold, bought
<1>3. M * B \in Nat /\ T * A \in Nat
  BY <1>1
<1>4. supM \in Nat /\ supM * A <= M * B /\ M * B < supM * A + A
  BY <1>1, <1>2, <1>3, DivBounds
<1>5. supT \in Nat /\ supT * B <= T * A /\ T * A < supT * B + B
  BY <1>1, <1>2, <1>3, DivBounds
<1>6. sold \in 0 .. M /\ sold <= supT /\ bought \in 0 .. T /\ bought <= supM
  BY <1>1, <1>2, <1>4, <1>5
<1>7. sold * B <= M * B /\ sold * B <= supT * B
  BY <1>1, <1>5, <1>6, TimesMonotone
<1>8. bought * A <= T * A /\ bought * A <= supM * A
  BY <1>1, <1>4, <1>6, TimesMonotone
<1>9. sold * B \in Nat /\ bought * A \in Nat /\ supM * A \in Nat /\ supT * B \in Nat
  BY <1>1, <1>4, <1>5, <1>6
<1>10. sold * B < bought * A + A
  <2>1. CASE bought = supM
    BY <1>1, <1>3, <1>4, <1>7, <1>9, <2>1
  <2>2. CASE bought = T
    <3>1. bought * A = T * A
      BY <2>2
    <3>2. QED
      BY <1>1, <1>3, <1>5, <1>7, <1>9, <3>1
  <2>3. QED
    BY <1>2, <2>1, <2>2
<1>11. bought * A < sold * B + B
  <2>1. CASE sold = supT
    BY <1>1, <1>3, <1>5, <1>8, <1>9, <2>1
  <2>2. CASE sold = M
    <3>1. sold * B = M * B
      BY <2>2
    <3>2. QED
      BY <1>1, <1>3, <1>4, <1>8, <1>9, <3>1
  <2>3. QED
    BY <1>2, <2>1, <2>2
<1>12. QED
  BY <1>10, <1>11, Zenon DEF A, B, M, T, supM, supT, sold, bought

\* The quotient computed is the least one IntDivide accepts, and how far the
\* others may be above it.
LEMMA QuotientFacts ==
    ASSUME NEW a \in Nat, NEW b \in Nat, b > 0, NEW q \in Quotients(a, b)
    PROVE  /\ Quotient(a, b) \in Nat /\ q \in Nat /\ Quotient(a, b) <= q
           /\ a < q * b + b
           /\ q * b <= (a - b) + AmountLimit
<1> DEFINE f == a \div b
<1>1. f \in Nat /\ f * b <= a /\ a < f * b + b
  BY DivBounds
<1>2. q \in Nat /\ a - q * b \in b - AmountLimit .. b - 1 /\ AmountLimit \in Nat
  BY ConstantAssumption DEF Quotients
<1> HIDE DEF f
<1>3. q * b \in Nat /\ a < q * b + b /\ q * b <= (a - b) + AmountLimit
  BY <1>2
<1>4. f <= q
  <2> SUFFICES ASSUME q + 1 <= f PROVE FALSE
    BY <1>1, <1>2
  <2>1. (q + 1) * b <= f * b
    BY <1>1, <1>2, TimesMonotone
  <2>2. (q + 1) * b = q * b + b
    BY <1>2
  <2>3. f * b \in Nat
    BY <1>1
  <2>4. QED
    BY <1>1, <1>3, <2>1, <2>2, <2>3
<1>5. QED
  BY <1>1, <1>2, <1>3, <1>4 DEF Quotient, f

\* The amounts of a match, for quotients the constraints accept.
Matched(maker, taker, sold, bought) ==
    \E supMakerBuyAmt \in SupMakerBuyAmts(maker, taker),
       supTakerBuyAmt \in SupTakerBuyAmts(maker, taker) :
        /\ sold = MatchedSellAmt(maker, supTakerBuyAmt)
        /\ bought = MatchedBuyAmt(taker, supMakerBuyAmt)

\* Neither side sells more than it has left nor less than the quotients rounded
\* down give, and the two amounts are at the maker's price up to AmountLimit.
LEMMA MatchedAmounts ==
    ASSUME NEW maker \in OpenOrders, NEW taker \in OpenOrders, IsMatched(maker, taker),
           NEW sold, NEW bought, Matched(maker, taker, sold, bought)
    PROVE  /\ sold \in 0 .. RemainSellAmt(maker)
           /\ bought \in 0 .. RemainSellAmt(taker)
           /\ sold \in MatchedSellAmt(maker, SupTakerBuyAmt(maker, taker)) .. RemainSellAmt(maker)
           /\ bought \in MatchedBuyAmt(taker, SupMakerBuyAmt(maker)) .. RemainSellAmt(taker)
           /\ sold * maker.buyAmt < bought * maker.amount + AmountLimit
           /\ bought * maker.amount < sold * maker.buyAmt + AmountLimit
<1> DEFINE A == maker.amount
           B == maker.buyAmt
           M == RemainSellAmt(maker)
           T == RemainSellAmt(taker)
           fM == SupMakerBuyAmt(maker)
           fT == SupTakerBuyAmt(maker, taker)
<1>1. /\ A \in Nat /\ B \in Nat /\ A > 0 /\ B > 0 /\ M \in Nat /\ T \in Nat
      /\ A < AmountLimit /\ B < AmountLimit /\ AmountLimit \in Nat
  BY OpenOrderFacts, ConstantAssumption DEF IsMatched
<1>2. PICK supM \in SupMakerBuyAmts(maker, taker), supT \in SupTakerBuyAmts(maker, taker) :
          sold = MatchedSellAmt(maker, supT) /\ bought = MatchedBuyAmt(taker, supM)
  BY DEF Matched
<1>3. supM \in Quotients(M * B, A) /\ supT \in Quotients(T * A, B)
  BY DEF SupMakerBuyAmts, SupTakerBuyAmts
<1>4. /\ fM = Quotient(M * B, A) /\ fT = Quotient(T * A, B)
      /\ sold = (IF M <= supT THEN M ELSE supT)
      /\ bought = (IF T <= supM THEN T ELSE supM)
      /\ MatchedSellAmt(maker, fT) = (IF M <= fT THEN M ELSE fT)
      /\ MatchedBuyAmt(taker, fM) = (IF T <= fM THEN T ELSE fM)
  BY <1>2 DEF SupMakerBuyAmt, SupTakerBuyAmt, MatchedSellAmt, MatchedBuyAmt, Lesser
<1> HIDE DEF A, B, M, T, fM, fT
<1>5. M * B \in Nat /\ T * A \in Nat
  BY <1>1
<1>6. /\ fM \in Nat /\ supM \in Nat /\ fM <= supM
      /\ M * B < supM * A + A /\ supM * A <= (M * B - A) + AmountLimit
  BY <1>1, <1>3, <1>4, <1>5, QuotientFacts
<1>7. /\ fT \in Nat /\ supT \in Nat /\ fT <= supT
      /\ T * A < supT * B + B /\ supT * B <= (T * A - B) + AmountLimit
  BY <1>1, <1>3, <1>4, <1>5, QuotientFacts
<1>8. /\ sold \in 0 .. M /\ sold <= supT /\ bought \in 0 .. T /\ bought <= supM
  BY <1>1, <1>4, <1>6, <1>7
<1>9. sold \in MatchedSellAmt(maker, fT) .. M /\ bought \in MatchedBuyAmt(taker, fM) .. T
  BY <1>1, <1>4, <1>6, <1>7
<1>10. sold * B <= M * B /\ sold * B <= supT * B
  BY <1>1, <1>7, <1>8, TimesMonotone
<1>11. bought * A <= T * A /\ bought * A <= supM * A
  BY <1>1, <1>6, <1>8, TimesMonotone
<1>12. sold * B \in Nat /\ bought * A \in Nat /\ supM * A \in Nat /\ supT * B \in Nat
  BY <1>1, <1>6, <1>7, <1>8
<1>13. sold * B < bought * A + AmountLimit
  <2>1. CASE bought = supM
    BY <1>1, <1>5, <1>6, <1>10, <1>12, <2>1
  <2>2. CASE bought = T
    <3>1. bought * A = T * A
      BY <2>2
    <3>2. QED
      BY <1>1, <1>5, <1>7, <1>10, <1>12, <3>1
  <2>3. QED
    BY <1>4, <2>1, <2>2
<1>14. bought * A < sold * B + AmountLimit
  <2>1. CASE sold = supT
    BY <1>1, <1>5, <1>7, <1>11, <1>12, <2>1
  <2>2. CASE sold = M
    <3>1. sold * B = M * B
      BY <2>2
    <3>2. QED
      BY <1>1, <1>5, <1>6, <1>11, <1>12, <3>1
  <2>3. QED
    BY <1>4, <2>1, <2>2
<1>15. QED
  BY <1>8, <1>9, <1>13, <1>14, Zenon DEF A, B, M, T, fM, fT

-----------------------------------------------------------------------------
(***************************************************************************)
(* The inductive invariant: with the type and the locks, that the order in *)
(* the channel is no less filled than when its match started, and that     *)
(* there is none between two blocks.                                       *)
(***************************************************************************)
MatchGoesOn ==
    channel # NoOrder =>
        /\ atStart.sell <= channel.accumulatedSellAmt
        /\ atStart.buy <= channel.accumulatedBuyAmt

ChannelEmptyBetweenBlocks == txNum % NumOfReqs = 0 => channel = NoOrder

LedgerInv ==
    /\ LedgerTypeOK
    /\ LockedIsWhatOrdersSell
    /\ MatchGoesOn
    /\ ChannelEmptyBetweenBlocks

OrdersTypeOK ==
    /\ nonces \in [Accounts -> Nat]
    /\ orders \in [Leaves -> Places]
    /\ channel \in Places

LEMMA OrdersTyped == LedgerInv => OrdersTypeOK
BY DEF LedgerInv, LedgerTypeOK, OrdersTypeOK, Places

LEMMA ChannelLocksType ==
    ASSUME LedgerInv, NEW a, NEW t
    PROVE  LocksIn(channel, atStart.sell, a, t) \in Nat
BY OpenOrderFacts DEF LedgerInv, LedgerTypeOK, MatchGoesOn, LocksIn, Locks

\* LockedIsWhatOrdersSell with the sum over the tree as a total.
LEMMA LocksAre ==
    LockedIsWhatOrdersSell <=>
        \A a \in Accounts, t \in Tokens :
            lockedAmt[a][t] = Total(LocksOf(orders, a, t)) + LocksIn(channel, atStart.sell, a, t)
BY DEF LockedIsWhatOrdersSell, TreeLocks, LocksOf, ChannelLocks, LocksIn

\* The arithmetic of a written leaf.
LEMMA Settles ==
    ASSUME NEW T \in Nat, NEW U \in Nat, NEW x \in Nat, NEW y \in Nat,
           NEW c \in Nat, NEW d \in Nat, NEW k, NEW m \in Int,
           U + x = T + y, k = T + c, m + x + c = k + y + d
    PROVE  m = U + d
OBVIOUS

\* The step changes what is locked by what it changes in the leaf and the channel.
LocksFollow(leaf, o) ==
    \A a \in Accounts, t \in Tokens :
        /\ LocksIn(channel', atStart'.sell, a, t) \in Nat
        /\ lockedAmt'[a][t] + LeafLocks(orders[leaf], a, t) + LocksIn(channel, atStart.sell, a, t)
             = lockedAmt[a][t] + LeafLocks(o, a, t) + LocksIn(channel', atStart'.sell, a, t)

(***************************************************************************)
(* The locks after a request that writes one leaf: it must change what is  *)
(* locked by as much as what the leaf and the channel lock.                *)
(***************************************************************************)
LEMMA LocksAfterWrite ==
    ASSUME LedgerInv, NEW leaf \in Leaves, NEW o \in Places,
           orders' = [orders EXCEPT ![leaf] = o],
           lockedAmt' \in [Accounts -> [Tokens -> Int]],
           LocksFollow(leaf, o)
    PROVE  LockedIsWhatOrdersSell'
<1> SUFFICES ASSUME NEW a \in Accounts, NEW t \in Tokens
             PROVE  lockedAmt'[a][t] = Total(LocksOf(orders', a, t))
                                       + LocksIn(channel', atStart'.sell, a, t)
  BY DEF LockedIsWhatOrdersSell, TreeLocks, LocksOf, ChannelLocks, LocksIn
<1> DEFINE T == Total(LocksOf(orders, a, t))
           U == Total(LocksOf(orders', a, t))
           x == LeafLocks(orders[leaf], a, t)
           y == LeafLocks(o, a, t)
           c == LocksIn(channel, atStart.sell, a, t)
           d == LocksIn(channel', atStart'.sell, a, t)
           k == lockedAmt[a][t]
           m == lockedAmt'[a][t]
<1>1. orders \in [Leaves -> Places]
  BY DEF LedgerInv, LedgerTypeOK, Places
<1>2. orders' \in [Leaves -> Places] /\ U + x = T + y
  <2>1. /\ orders' \in [Leaves -> Places] /\ orders'[leaf] = o
        /\ \A l \in Leaves : l # leaf => orders'[l] = orders[l]
    BY <1>1
  <2> DEFINE now == orders
             later == orders'
  <2> HIDE DEF now, later
  <2>2. Total(LocksOf(later, a, t)) + LeafLocks(now[leaf], a, t)
          = Total(LocksOf(now, a, t)) + LeafLocks(later[leaf], a, t)
    <3>1. /\ now \in [Leaves -> Places] /\ later \in [Leaves -> Places]
          /\ \A l \in Leaves : l # leaf => later[l] = now[l]
      BY <1>1, <2>1, Zenon DEF now, later
    <3>2. QED
      BY <3>1, LeafWritten
  <2>3. QED
    BY <2>1, <2>2, Zenon DEF now, later
<1>3. T \in Nat /\ U \in Nat
  BY <1>1, <1>2, LocksOfType
<1>4. orders[leaf] \in Places /\ x \in Nat /\ y \in Nat
  BY <1>1, LeafLocksType
<1>5. c \in Nat /\ d \in Nat
  BY ChannelLocksType, Zenon DEF LocksFollow
<1>6. k = T + c
  BY LocksAre DEF LedgerInv
<1>7. m + x + c = k + y + d
  BY Zenon DEF LocksFollow
<1>8. m \in Int
  OBVIOUS
<1> HIDE DEF T, U, x, y, c, d, k, m
<1>9. m = U + d
  BY <1>2, <1>3, <1>4, <1>5, <1>6, <1>7, <1>8, Settles
<1>10. QED
  BY <1>9 DEF U, d, m

\* A request that touches neither orders, channel nor locks.
LEMMA LocksUntouched ==
    ASSUME LockedIsWhatOrdersSell, UNCHANGED <<lockedAmt, orders, matchVars>>
    PROVE  LockedIsWhatOrdersSell'
BY DEF LockedIsWhatOrdersSell, TreeLocks, ChannelLocks, matchVars

(***************************************************************************)
(* A request that is not part of a match.                                  *)
(***************************************************************************)
LEMMA OutsideMatchSteps ==
    ASSUME LedgerInv, OutsideMatch
    PROVE  /\ MatchGoesOn' /\ ChannelEmptyBetweenBlocks'
           /\ txNum' \in 0 .. MaxTxNum
           /\ channel' = NoOrder /\ atStart' = atStart
           /\ \A a, t : /\ LocksIn(channel, atStart.sell, a, t) = 0
                        /\ LocksIn(channel', atStart'.sell, a, t) = 0
BY ConstantAssumption
   DEF LedgerInv, LedgerTypeOK, OutsideMatch, InBlock, matchVars, MatchGoesOn,
       ChannelEmptyBetweenBlocks, LocksIn

-----------------------------------------------------------------------------
(***************************************************************************)
(* The requests and their fields.                                          *)
(***************************************************************************)
LEMMA RequestFields ==
    /\ \A req \in OfType("Register") : req.account \in Accounts
    /\ \A req \in OfType("Deposit") :
          req.account \in Accounts /\ req.token \in Tokens /\ req.amount \in Nat
    /\ \A req \in OfType("Withdraw") :
          req.signer \in Accounts /\ req.token \in Tokens /\ req.amount \in Nat
    /\ \A req \in OfType("SecondLimitOrder") :
          /\ req.signer \in Accounts /\ req.token \in Tokens /\ req.amount \in Nat
          /\ req.amount \in Amounts /\ req.buyAmt \in Amounts
          /\ req.buyToken \in Tokens /\ req.leaf \in Leaves
    /\ \A req \in OfType("SecondLimitStart") : req.leaf \in Leaves
    /\ \A req \in OfType("SecondLimitExchange") : req.leaf \in Leaves
    /\ \A req \in OfType("SecondLimitEnd") : req.leaf \in Leaves
    /\ \A req \in OfType("Cancel") : req.leaf \in Leaves
<1>1. \A req \in Requests : req \in RequestTypes
  BY ConstantAssumption
<1>2. \A x \in Amounts : x \in Nat
  BY ConstantAssumption DEF Amounts
<1>3. ASSUME NEW req \in OfType("Deposit")
      PROVE  req.account \in Accounts /\ req.token \in Tokens /\ req.amount \in Amounts
  BY <1>1 DEF OfType, RequestTypes
<1>4. ASSUME NEW req \in OfType("Withdraw")
      PROVE  req.signer \in Accounts /\ req.token \in Tokens /\ req.amount \in Amounts
  BY <1>1 DEF OfType, RequestTypes
<1>5. ASSUME NEW req \in OfType("SecondLimitOrder")
      PROVE  /\ req.signer \in Accounts /\ req.token \in Tokens
             /\ req.amount \in Amounts /\ req.buyAmt \in Amounts
             /\ req.buyToken \in Tokens /\ req.leaf \in Leaves
  BY <1>1 DEF OfType, RequestTypes
<1>6. /\ \A req \in OfType("Register") : req.account \in Accounts
      /\ \A req \in OfType("SecondLimitStart") : req.leaf \in Leaves
      /\ \A req \in OfType("SecondLimitExchange") : req.leaf \in Leaves
      /\ \A req \in OfType("SecondLimitEnd") : req.leaf \in Leaves
      /\ \A req \in OfType("Cancel") : req.leaf \in Leaves
  BY <1>1, SMTT(30) DEF OfType, RequestTypes
<1>7. QED
  BY <1>2, <1>3, <1>4, <1>5, <1>6

\* A NOOP only counts up.
LEMMA UnknowStep ==
    ASSUME LedgerInv, NEW req \in OfType("Unknow"), DoReqUnknow(req)
    PROVE  LedgerInv'
<1>1. /\ MatchGoesOn' /\ ChannelEmptyBetweenBlocks' /\ txNum' \in 0 .. MaxTxNum
      /\ UNCHANGED matchVars
  BY OutsideMatchSteps DEF DoReqUnknow, OutsideMatch
<1>2. LockedIsWhatOrdersSell'
  BY <1>1, LocksUntouched DEF LedgerInv, DoReqUnknow, tokenVars
<1>3. LedgerTypeOK'
  BY <1>1 DEF LedgerInv, LedgerTypeOK, DoReqUnknow, accountVars, tokenVars, matchVars
<1>4. QED
  BY <1>1, <1>2, <1>3 DEF LedgerInv

\* Registering changes no amount.
LEMMA RegisterStep ==
    ASSUME LedgerInv, NEW req \in OfType("Register"), DoReqRegister(req)
    PROVE  LedgerInv'
<1>1. /\ MatchGoesOn' /\ ChannelEmptyBetweenBlocks' /\ txNum' \in 0 .. MaxTxNum
      /\ UNCHANGED matchVars
  BY OutsideMatchSteps DEF DoReqRegister, OutsideMatch
<1>2. LockedIsWhatOrdersSell'
  BY <1>1, LocksUntouched DEF LedgerInv, DoReqRegister, tokenVars
<1>3. registered' \subseteq Accounts
  BY RequestFields DEF LedgerInv, LedgerTypeOK, DoReqRegister
<1>4. LedgerTypeOK'
  BY <1>1, <1>3 DEF LedgerInv, LedgerTypeOK, DoReqRegister, tokenVars, matchVars
<1>5. QED
  BY <1>1, <1>2, <1>4 DEF LedgerInv

\* A deposit raises what is available and locks nothing.
LEMMA DepositStep ==
    ASSUME LedgerInv, NEW req \in OfType("Deposit"), DoReqDeposit(req)
    PROVE  LedgerInv'
<1>1. /\ MatchGoesOn' /\ ChannelEmptyBetweenBlocks' /\ txNum' \in 0 .. MaxTxNum
      /\ UNCHANGED matchVars
  BY OutsideMatchSteps DEF DoReqDeposit, OutsideMatch
<1>2. LockedIsWhatOrdersSell'
  BY <1>1, LocksUntouched DEF LedgerInv, DoReqDeposit
<1>3. req.account \in Accounts /\ req.token \in Tokens /\ req.amount \in Nat
  BY RequestFields
<1>4. avlAmt' \in [Accounts -> [Tokens -> Nat]] /\ backing' \in [Tokens -> Int]
  BY <1>3 DEF LedgerInv, LedgerTypeOK, DoReqDeposit
<1>5. LedgerTypeOK'
  BY <1>1, <1>4 DEF LedgerInv, LedgerTypeOK, DoReqDeposit, accountVars, matchVars
<1>6. QED
  BY <1>1, <1>2, <1>5 DEF LedgerInv

\* A withdrawal stays below what is available.
LEMMA WithdrawStep ==
    ASSUME LedgerInv, NEW req \in OfType("Withdraw"), DoReqWithdraw(req)
    PROVE  LedgerInv'
<1>1. /\ MatchGoesOn' /\ ChannelEmptyBetweenBlocks' /\ txNum' \in 0 .. MaxTxNum
      /\ UNCHANGED matchVars
  BY OutsideMatchSteps DEF DoReqWithdraw, OutsideMatch
<1>2. LockedIsWhatOrdersSell'
  BY <1>1, LocksUntouched DEF LedgerInv, DoReqWithdraw
<1>3. req.signer \in Accounts /\ req.token \in Tokens /\ req.amount \in Nat
  BY RequestFields
<1>4. avlAmt' \in [Accounts -> [Tokens -> Nat]] /\ backing' \in [Tokens -> Int]
  BY <1>3 DEF LedgerInv, LedgerTypeOK, DoReqWithdraw, Sufficient
<1>5. nonces' \in [Accounts -> Nat]
  BY <1>3 DEF LedgerInv, LedgerTypeOK, DoReqWithdraw, Signed
<1>6. LedgerTypeOK'
  BY <1>1, <1>4, <1>5 DEF LedgerInv, LedgerTypeOK, DoReqWithdraw, matchVars
<1>7. QED
  BY <1>1, <1>2, <1>6 DEF LedgerInv

\* A new order locks its whole amount in a leaf that was free.
LEMMA OrderStep ==
    ASSUME LedgerInv, NEW req \in OfType("SecondLimitOrder"), DoReqSecondLimitOrder(req)
    PROVE  LedgerInv'
<1> DEFINE o == NewOrder(req)
<1>1. /\ MatchGoesOn' /\ ChannelEmptyBetweenBlocks' /\ txNum' \in 0 .. MaxTxNum
      /\ UNCHANGED matchVars
      /\ \A a, t : /\ LocksIn(channel, atStart.sell, a, t) = 0
                   /\ LocksIn(channel', atStart'.sell, a, t) = 0
  BY OutsideMatchSteps DEF DoReqSecondLimitOrder, OutsideMatch
<1>2. /\ req.signer \in Accounts /\ req.token \in Tokens /\ req.amount \in Nat
      /\ req.amount \in Amounts /\ req.buyAmt \in Amounts
      /\ req.buyToken \in Tokens /\ req.leaf \in Leaves
  BY RequestFields
<1>3. /\ avlAmt' \in [Accounts -> [Tokens -> Nat]]
      /\ lockedAmt' \in [Accounts -> [Tokens -> Nat]]
      /\ \A a \in Accounts, t \in Tokens :
            lockedAmt'[a][t] =
              lockedAmt[a][t] + (IF req.signer = a /\ req.token = t THEN req.amount ELSE 0)
  BY <1>2 DEF LedgerInv, LedgerTypeOK, DoReqSecondLimitOrder, Sufficient
<1>4. nonces \in [Accounts -> Nat] /\ nonces' \in [Accounts -> Nat]
  BY <1>2 DEF LedgerInv, LedgerTypeOK, DoReqSecondLimitOrder, Signed
<1>5. o \in OpenOrders
  <2>1. o \in Orders
    BY <1>2, <1>4 DEF NewOrder, Orders
  <2>2. QED
    BY <1>2, <2>1 DEF OpenOrders, NewOrder
<1>6. orders' = [orders EXCEPT ![req.leaf] = o] /\ orders[req.leaf] = NoOrder
  BY DEF DoReqSecondLimitOrder, LeafIsFree
<1>7. LedgerTypeOK'
  BY <1>1, <1>2, <1>3, <1>4, <1>5, <1>6
     DEF LedgerInv, LedgerTypeOK, DoReqSecondLimitOrder, matchVars
<1>8. \A a, t : LeafLocks(o, a, t) = IF req.signer = a /\ req.token = t THEN req.amount ELSE 0
  BY <1>2, <1>5, OpenOrderFacts DEF LeafLocks, Locks, NewOrder
<1> HIDE DEF o
<1>9. LocksFollow(req.leaf, o)
  <2> SUFFICES ASSUME NEW a \in Accounts, NEW t \in Tokens
               PROVE  lockedAmt'[a][t] + 0 + 0 = lockedAmt[a][t] + LeafLocks(o, a, t) + 0
    <3>1. \A a, t : LeafLocks(orders[req.leaf], a, t) = 0
      BY <1>6, Zenon DEF LeafLocks
    <3>2. 0 \in Nat
      OBVIOUS
    <3>3. QED
      BY <1>1, <3>1, <3>2, Zenon DEF LocksFollow
  <2>1. lockedAmt'[a][t] = lockedAmt[a][t] + LeafLocks(o, a, t)
    BY <1>3, <1>8, Zenon
  <2>2. lockedAmt[a][t] \in Nat /\ LeafLocks(o, a, t) \in Nat
    BY <1>5, LeafLocksType DEF LedgerInv, LedgerTypeOK, Places
  <2>3. QED
    BY <2>1, <2>2
<1>10. LockedIsWhatOrdersSell'
  <2>1. lockedAmt' \in [Accounts -> [Tokens -> Int]]
    BY <1>3
  <2>2. QED
    BY <1>2, <1>5, <1>6, <1>9, <2>1, LocksAfterWrite DEF Places
<1>11. QED
  BY <1>1, <1>7, <1>10 DEF LedgerInv

\* What a Start takes out of the tree the channel still locks.
LEMMA StartStep ==
    ASSUME LedgerInv, NEW req \in OfType("SecondLimitStart"), DoReqSecondLimitStart(req)
    PROVE  LedgerInv'
<1> DEFINE o == orders[req.leaf]
<1>1. req.leaf \in Leaves
  BY RequestFields
<1>2. /\ channel = NoOrder /\ channel' = o
      /\ atStart' = IF o = NoOrder THEN None
                    ELSE [sell |-> o.accumulatedSellAmt, buy |-> o.accumulatedBuyAmt]
      /\ orders' = [orders EXCEPT ![req.leaf] = NoOrder]
      /\ UNCHANGED <<accountVars, tokenVars, backing>>
      /\ txNum' = txNum + 1 /\ txNum < MaxTxNum
      /\ txNum' % NumOfReqs = 0 => channel' = NoOrder
  BY DEF DoReqSecondLimitStart, InBlock
<1>3. o \in Places
  BY <1>1 DEF LedgerInv, LedgerTypeOK, Places
<1> HIDE DEF o
<1>4. /\ atStart' \in [sell : Nat, buy : Nat]
      /\ o # NoOrder => atStart'.sell = o.accumulatedSellAmt /\ atStart'.buy = o.accumulatedBuyAmt
  <2>1. CASE o = NoOrder
    BY <1>2, <2>1 DEF None
  <2>2. CASE o # NoOrder
    BY <1>2, <1>3, <2>2, OpenOrderFacts DEF Places
  <2>3. QED
    BY <2>1, <2>2
<1>5. LedgerTypeOK'
  <2>1. txNum' \in 0 .. MaxTxNum
    BY <1>2, ConstantAssumption DEF LedgerInv, LedgerTypeOK
  <2>2. orders' \in [Leaves -> Places] /\ channel' \in Places
    BY <1>1, <1>2, <1>3 DEF LedgerInv, LedgerTypeOK, Places
  <2>3. QED
    BY <1>2, <1>4, <2>1, <2>2 DEF LedgerInv, LedgerTypeOK, accountVars, tokenVars, Places
<1>6. MatchGoesOn'
  BY <1>2, <1>3, <1>4, OpenOrderFacts DEF MatchGoesOn, Places
<1>7. ChannelEmptyBetweenBlocks'
  BY <1>2 DEF ChannelEmptyBetweenBlocks
<1>8. LocksFollow(req.leaf, NoOrder)
  <2> SUFFICES ASSUME NEW a \in Accounts, NEW t \in Tokens
               PROVE  /\ LeafLocks(o, a, t) \in Nat
                      /\ lockedAmt[a][t] + LeafLocks(o, a, t) + 0
                           = lockedAmt[a][t] + 0 + LeafLocks(o, a, t)
    <3>1. \A a, t : LocksIn(channel', atStart'.sell, a, t) = LeafLocks(o, a, t)
      BY <1>2, <1>4, Zenon DEF LocksIn, LeafLocks
    <3>2. \A a, t : LocksIn(channel, atStart.sell, a, t) = 0 /\ LeafLocks(NoOrder, a, t) = 0
      BY <1>2, Zenon DEF LocksIn, LeafLocks
    <3>3. lockedAmt' = lockedAmt
      BY <1>2 DEF tokenVars
    <3>4. QED
      BY <3>1, <3>2, <3>3, Zenon DEF LocksFollow, o
  <2>1. lockedAmt[a][t] \in Nat /\ LeafLocks(o, a, t) \in Nat
    BY <1>3, LeafLocksType DEF LedgerInv, LedgerTypeOK
  <2>2. QED
    BY <2>1
<1>9. LockedIsWhatOrdersSell'
  <2>1. lockedAmt' \in [Accounts -> [Tokens -> Int]]
    BY <1>2 DEF LedgerInv, LedgerTypeOK, tokenVars
  <2>2. QED
    BY <1>1, <1>2, <1>8, <2>1, LocksAfterWrite DEF Places
<1>10. QED
  BY <1>5, <1>6, <1>7, <1>9 DEF LedgerInv

(***************************************************************************)
(* The order after a match, in the tree or out of it, locks what it has    *)
(* left to sell.                                                           *)
(***************************************************************************)
LEMMA KeptLocks ==
    ASSUME NEW o \in OpenOrders, NEW a, NEW t
    PROVE  /\ Kept(o) \in Places
           /\ LeafLocks(Kept(o), a, t) = Locks(o, o.accumulatedSellAmt, a, t)
<1>1. CASE o.accumulatedSellAmt = o.amount
  BY <1>1, OpenOrderFacts DEF Kept, Places, LeafLocks, Locks
<1>2. CASE o.accumulatedSellAmt # o.amount
  BY <1>2, OpenOrderFacts DEF Kept, Places, LeafLocks
<1>3. QED
  BY <1>1, <1>2

\* An order that sells and buys more, within what it offers.
LEMMA Filled ==
    ASSUME NEW o \in OpenOrders, NEW sold \in 0 .. RemainSellAmt(o), NEW bought \in Nat
    PROVE  LET filled == Fill(o, sold, bought)
           IN  /\ filled \in OpenOrders
               /\ filled.signer = o.signer /\ filled.token = o.token
               /\ filled.amount = o.amount /\ filled.buyToken = o.buyToken
               /\ filled.nonce = o.nonce
               /\ filled.accumulatedSellAmt = o.accumulatedSellAmt + sold
               /\ filled.accumulatedBuyAmt = o.accumulatedBuyAmt + bought
<1> DEFINE filled == Fill(o, sold, bought)
           x == o.accumulatedSellAmt + sold
           y == o.accumulatedBuyAmt + bought
<1>1. x \in 0 .. o.amount /\ y \in Nat /\ x \in Int /\ y \in Int /\ y >= 0
  BY OpenOrderFacts DEF RemainSellAmt
<1>2. o \in Orders
  BY OpenOrderFacts
<1>3. filled = [o EXCEPT !.accumulatedSellAmt = x, !.accumulatedBuyAmt = y]
  BY Zenon DEF Fill
<1> HIDE DEF x, y, filled
<1>4. /\ filled \in Orders
      /\ filled.signer = o.signer /\ filled.token = o.token /\ filled.amount = o.amount
      /\ filled.buyToken = o.buyToken /\ filled.nonce = o.nonce
      /\ filled.accumulatedSellAmt = x
      /\ filled.accumulatedBuyAmt = y
  BY <1>1, <1>2, <1>3 DEF Orders
<1>5. filled \in OpenOrders
  BY <1>1, <1>4 DEF OpenOrders
<1>6. QED
  BY <1>4, <1>5, Zenon DEF x, y, filled

(***************************************************************************)
(* What an exchange does, in one place: the invariant and the properties   *)
(* of a match all start from it.                                           *)
(***************************************************************************)
Exchanged(req, sold, bought) ==
    LET maker == orders[req.leaf]
    IN  /\ req.leaf \in Leaves /\ maker \in OpenOrders /\ channel \in OpenOrders
        /\ channel.token = maker.buyToken /\ channel.buyToken = maker.token
        /\ IsMatched(maker, channel) /\ Matched(maker, channel, sold, bought)
        /\ sold \in 0 .. RemainSellAmt(maker) /\ bought \in 0 .. RemainSellAmt(channel)
        /\ Fill(maker, sold, bought) \in OpenOrders
        /\ orders' = [orders EXCEPT ![req.leaf] = Kept(Fill(maker, sold, bought))]
        /\ avlAmt' = [avlAmt EXCEPT ![maker.signer][maker.buyToken] = @ + bought]
        /\ lockedAmt' = [lockedAmt EXCEPT ![maker.signer][maker.token] = @ - sold]
        /\ channel' \in OpenOrders
        /\ channel' = Fill(channel, bought, maker.amount)
        /\ channel'.signer = channel.signer /\ channel'.token = channel.token
        /\ channel'.amount = channel.amount /\ channel'.buyToken = channel.buyToken
        /\ channel'.accumulatedSellAmt = channel.accumulatedSellAmt + bought
        /\ channel'.accumulatedBuyAmt = channel.accumulatedBuyAmt + maker.amount
        /\ channel'.nonce = channel.nonce
        /\ UNCHANGED <<accountVars, atStart, backing>>

LEMMA ExchangeFacts ==
    ASSUME OrdersTypeOK, NEW req \in OfType("SecondLimitExchange"),
           DoReqSecondLimitExchange(req)
    PROVE  \E sold, bought : Exchanged(req, sold, bought)
<1> DEFINE maker == orders[req.leaf]
<1>1. req.leaf \in Leaves
  BY RequestFields
<1>2. /\ channel # NoOrder /\ maker # NoOrder
      /\ channel.token = maker.buyToken /\ channel.buyToken = maker.token
      /\ IsMatched(maker, channel)
      /\ UNCHANGED <<accountVars, atStart, backing>>
  BY Zenon DEF DoReqSecondLimitExchange
<1>3. PICK supM \in SupMakerBuyAmts(maker, channel), supT \in SupTakerBuyAmts(maker, channel) :
          LET s == MatchedSellAmt(maker, supT)
              b == MatchedBuyAmt(channel, supM)
          IN  /\ orders' = [orders EXCEPT ![req.leaf] = Kept(Fill(maker, s, b))]
              /\ avlAmt' = [avlAmt EXCEPT ![maker.signer][maker.buyToken] = @ + b]
              /\ lockedAmt' = [lockedAmt EXCEPT ![maker.signer][maker.token] = @ - s]
              /\ channel' = Fill(channel, b, maker.amount)
  BY Zenon DEF DoReqSecondLimitExchange, TakerBought
<1>4. PICK sold, bought :
          sold = MatchedSellAmt(maker, supT) /\ bought = MatchedBuyAmt(channel, supM)
  OBVIOUS
<1>5. /\ orders' = [orders EXCEPT ![req.leaf] = Kept(Fill(maker, sold, bought))]
      /\ avlAmt' = [avlAmt EXCEPT ![maker.signer][maker.buyToken] = @ + bought]
      /\ lockedAmt' = [lockedAmt EXCEPT ![maker.signer][maker.token] = @ - sold]
      /\ channel' = Fill(channel, bought, maker.amount)
  BY <1>3, <1>4, Zenon
<1>6. Matched(maker, channel, sold, bought)
  BY <1>3, <1>4, Zenon DEF Matched
<1>7. maker \in OpenOrders /\ channel \in OpenOrders
  BY <1>1, <1>2 DEF OrdersTypeOK, Places
<1>8. sold \in 0 .. RemainSellAmt(maker) /\ bought \in 0 .. RemainSellAmt(channel)
  BY <1>2, <1>6, <1>7, MatchedAmounts
<1>9. sold \in Nat /\ bought \in Nat /\ maker.amount \in Nat
  BY <1>7, <1>8, OpenOrderFacts
<1>10. Fill(maker, sold, bought) \in OpenOrders
  BY <1>7, <1>8, <1>9, Filled
<1>11. /\ channel' \in OpenOrders
       /\ channel'.signer = channel.signer /\ channel'.token = channel.token
       /\ channel'.amount = channel.amount /\ channel'.buyToken = channel.buyToken
       /\ channel'.nonce = channel.nonce
       /\ channel'.accumulatedSellAmt = channel.accumulatedSellAmt + bought
       /\ channel'.accumulatedBuyAmt = channel.accumulatedBuyAmt + maker.amount
  BY <1>5, <1>7, <1>8, <1>9, Filled
<1> HIDE DEF maker
<1>12. Exchanged(req, sold, bought)
  BY <1>1, <1>2, <1>5, <1>6, <1>7, <1>8, <1>10, <1>11, Zenon DEF maker, Exchanged
<1>13. QED
  BY <1>12

\* The maker's locked amount falls by what his order sells.
LEMMA ExchangeStep ==
    ASSUME LedgerInv, NEW req \in OfType("SecondLimitExchange"),
           DoReqSecondLimitExchange(req)
    PROVE  LedgerInv'
<1>0. PICK sold, bought : Exchanged(req, sold, bought)
  BY OrdersTyped, ExchangeFacts
<1> DEFINE maker == orders[req.leaf]
           filled == Fill(maker, sold, bought)
<1>1. /\ req.leaf \in Leaves /\ maker \in OpenOrders /\ channel \in OpenOrders
      /\ sold \in 0 .. RemainSellAmt(maker) /\ bought \in 0 .. RemainSellAmt(channel)
      /\ orders' = [orders EXCEPT ![req.leaf] = Kept(filled)]
      /\ avlAmt' = [avlAmt EXCEPT ![maker.signer][maker.buyToken] = @ + bought]
      /\ lockedAmt' = [lockedAmt EXCEPT ![maker.signer][maker.token] = @ - sold]
      /\ channel' \in OpenOrders
      /\ channel'.signer = channel.signer /\ channel'.token = channel.token
      /\ channel'.amount = channel.amount
      /\ channel'.accumulatedSellAmt = channel.accumulatedSellAmt + bought
      /\ channel'.accumulatedBuyAmt = channel.accumulatedBuyAmt + maker.amount
      /\ UNCHANGED <<accountVars, atStart, backing>>
  BY <1>0, Zenon DEF Exchanged
<1>2. /\ txNum < MaxTxNum /\ txNum' = txNum + 1
      /\ txNum' % NumOfReqs = 0 => channel' = NoOrder
      /\ channel # NoOrder
  BY DEF DoReqSecondLimitExchange, InBlock
<1>3. /\ filled \in OpenOrders
      /\ filled.signer = maker.signer /\ filled.token = maker.token
      /\ filled.amount = maker.amount
      /\ filled.accumulatedSellAmt = maker.accumulatedSellAmt + sold
  BY <1>1, Filled
<1>4. /\ maker.signer \in Accounts /\ maker.token \in Tokens /\ maker.buyToken \in Tokens
      /\ maker.amount \in Nat /\ RemainSellAmt(maker) \in Nat
      /\ RemainSellAmt(maker) = maker.amount - maker.accumulatedSellAmt
      /\ sold \in Nat /\ bought \in Nat /\ sold <= RemainSellAmt(maker)
      /\ maker # NoOrder /\ maker.accumulatedSellAmt \in Nat
      /\ channel'.accumulatedSellAmt \in Nat /\ channel.accumulatedSellAmt \in Nat
      /\ channel.accumulatedBuyAmt \in Nat
  BY <1>1, OpenOrderFacts DEF RemainSellAmt
<1> HIDE DEF maker, filled
\* What the maker sells is locked.
<1>5. sold <= lockedAmt[maker.signer][maker.token]
  <2> DEFINE a == maker.signer
             t == maker.token
  <2>1. a \in Accounts /\ t \in Tokens /\ orders \in [Leaves -> Places]
    BY <1>4 DEF LedgerInv, LedgerTypeOK, Places
  <2>2. LeafLocks(orders[req.leaf], a, t) <= Total(LocksOf(orders, a, t))
    BY <1>1, <2>1, LeafBelowTree
  <2>3. LeafLocks(orders[req.leaf], a, t) = RemainSellAmt(maker)
    BY <1>4 DEF LeafLocks, Locks, maker
  <2>4. /\ lockedAmt[a][t] = Total(LocksOf(orders, a, t)) + LocksIn(channel, atStart.sell, a, t)
        /\ LocksIn(channel, atStart.sell, a, t) \in Nat
        /\ Total(LocksOf(orders, a, t)) \in Nat
    BY <2>1, LocksAre, ChannelLocksType, LocksOfType DEF LedgerInv
  <2> HIDE DEF a, t
  <2>5. sold <= lockedAmt[a][t]
    BY <1>4, <2>2, <2>3, <2>4
  <2>6. QED
    BY <2>5 DEF a, t
<1>6. /\ avlAmt' \in [Accounts -> [Tokens -> Nat]]
      /\ lockedAmt' \in [Accounts -> [Tokens -> Nat]]
      /\ \A a \in Accounts, t \in Tokens :
            lockedAmt'[a][t] =
              lockedAmt[a][t] - (IF maker.signer = a /\ maker.token = t THEN sold ELSE 0)
  BY <1>1, <1>4, <1>5 DEF LedgerInv, LedgerTypeOK
<1>7. Kept(filled) \in Places
  BY <1>3, KeptLocks
<1>8. LedgerTypeOK'
  <2>1. txNum' \in 0 .. MaxTxNum
    BY <1>2, ConstantAssumption DEF LedgerInv, LedgerTypeOK
  <2>2. orders' \in [Leaves -> Places] /\ channel' \in Places
    BY <1>1, <1>7 DEF LedgerInv, LedgerTypeOK, Places
  <2>3. QED
    BY <1>1, <1>6, <2>1, <2>2 DEF LedgerInv, LedgerTypeOK, accountVars, Places
<1>9. MatchGoesOn'
  <2>1. /\ atStart.sell <= channel.accumulatedSellAmt /\ atStart.buy <= channel.accumulatedBuyAmt
        /\ atStart.sell \in Nat /\ atStart.buy \in Nat /\ atStart' = atStart
    BY <1>1, <1>2 DEF LedgerInv, LedgerTypeOK, MatchGoesOn
  <2>2. QED
    BY <1>1, <1>4, <2>1 DEF MatchGoesOn
<1>10. ChannelEmptyBetweenBlocks'
  BY <1>2 DEF ChannelEmptyBetweenBlocks
<1>11. LocksFollow(req.leaf, Kept(filled))
  <2> SUFFICES ASSUME NEW a \in Accounts, NEW t \in Tokens
               PROVE  /\ LocksIn(channel', atStart'.sell, a, t) \in Nat
                      /\ lockedAmt'[a][t] + LeafLocks(maker, a, t)
                             + LocksIn(channel, atStart.sell, a, t)
                           = lockedAmt[a][t] + LeafLocks(Kept(filled), a, t)
                             + LocksIn(channel', atStart'.sell, a, t)
    BY Zenon DEF LocksFollow, maker
  <2> DEFINE own == IF maker.signer = a /\ maker.token = t THEN sold ELSE 0
             c == LocksIn(channel, atStart.sell, a, t)
             x == LeafLocks(maker, a, t)
             y == LeafLocks(Kept(filled), a, t)
             k == lockedAmt[a][t]
             m == lockedAmt'[a][t]
  <2>1. LocksIn(channel', atStart'.sell, a, t) = c /\ c \in Nat
    <3>1. channel' # NoOrder /\ atStart' = atStart
      BY <1>1, OpenOrderFacts
    <3>2. LocksIn(channel', atStart'.sell, a, t) = c
      BY <1>1, <1>2, <3>1 DEF LocksIn, Locks
    <3>3. QED
      BY <3>2, ChannelLocksType
  <2>2. m = k - own /\ k \in Nat /\ own \in Nat
    BY <1>4, <1>6 DEF LedgerInv, LedgerTypeOK
  <2>3. x = y + own /\ y \in Nat
    <3>1. y = Locks(filled, filled.accumulatedSellAmt, a, t)
      BY <1>3, KeptLocks
    <3>2. x = Locks(maker, maker.accumulatedSellAmt, a, t)
      BY <1>4 DEF LeafLocks
    <3>3. QED
      BY <1>3, <1>4, <3>1, <3>2 DEF Locks
  <2> HIDE DEF own, c, x, y, k, m
  <2>4. m + x + c = k + y + c
    BY <2>1, <2>2, <2>3
  <2>5. QED
    BY <2>1, <2>4, Zenon DEF c, x, y, k, m
<1>12. LockedIsWhatOrdersSell'
  <2>1. lockedAmt' \in [Accounts -> [Tokens -> Int]]
    BY <1>6
  <2>2. QED
    BY <1>1, <1>7, <1>11, <2>1, LocksAfterWrite
<1>13. QED
  BY <1>8, <1>9, <1>10, <1>12 DEF LedgerInv

(***************************************************************************)
(* What the end of a match does.                                           *)
(***************************************************************************)
LEMMA EndFacts ==
    ASSUME LedgerInv, NEW req \in OfType("SecondLimitEnd"), DoReqSecondLimitEnd(req)
    PROVE  /\ req.leaf \in Leaves /\ channel \in OpenOrders /\ orders[req.leaf] = NoOrder
           /\ TakerSellAmt \in 0 .. channel.amount - atStart.sell
           /\ TakerBuyAmt \in Nat
           /\ orders' = [orders EXCEPT ![req.leaf] = Kept(channel)]
           /\ avlAmt' = [avlAmt EXCEPT ![channel.signer][channel.buyToken] = @ + TakerBuyAmt]
           /\ lockedAmt' = [lockedAmt EXCEPT ![channel.signer][channel.token] = @ - TakerSellAmt]
           /\ channel' = NoOrder /\ atStart' = None
           /\ UNCHANGED <<accountVars, backing>>
<1>1. req.leaf \in Leaves
  BY RequestFields
<1>2. /\ channel # NoOrder /\ orders[req.leaf] = NoOrder
      /\ orders' = [orders EXCEPT ![req.leaf] = Kept(channel)]
      /\ avlAmt' = [avlAmt EXCEPT ![channel.signer][channel.buyToken] = @ + TakerBuyAmt]
      /\ lockedAmt' = [lockedAmt EXCEPT ![channel.signer][channel.token] = @ - TakerSellAmt]
      /\ channel' = NoOrder /\ atStart' = None
      /\ UNCHANGED <<accountVars, backing>>
  BY DEF DoReqSecondLimitEnd, LeafIsFree
<1>3. /\ channel \in OpenOrders /\ atStart.sell \in Nat /\ atStart.buy \in Nat
      /\ atStart.sell <= channel.accumulatedSellAmt /\ atStart.buy <= channel.accumulatedBuyAmt
  BY <1>2 DEF LedgerInv, LedgerTypeOK, MatchGoesOn
<1>4. /\ channel.accumulatedSellAmt \in 0 .. channel.amount /\ channel.amount \in Nat
      /\ channel.accumulatedBuyAmt \in Nat
  BY <1>3, OpenOrderFacts
<1>5. TakerSellAmt \in 0 .. channel.amount - atStart.sell /\ TakerBuyAmt \in Nat
  BY <1>3, <1>4 DEF TakerSellAmt, TakerBuyAmt
<1>6. QED
  BY <1>1, <1>2, <1>3, <1>5

\* At the End the taker's locked amount falls by what the match sold.
LEMMA EndStep ==
    ASSUME LedgerInv, NEW req \in OfType("SecondLimitEnd"), DoReqSecondLimitEnd(req)
    PROVE  LedgerInv'
<1> DEFINE taker == channel
           sold == TakerSellAmt
           bought == TakerBuyAmt
<1>1. /\ req.leaf \in Leaves /\ taker \in OpenOrders /\ orders[req.leaf] = NoOrder
      /\ sold \in 0 .. taker.amount - atStart.sell /\ bought \in Nat
      /\ orders' = [orders EXCEPT ![req.leaf] = Kept(taker)]
      /\ avlAmt' = [avlAmt EXCEPT ![taker.signer][taker.buyToken] = @ + bought]
      /\ lockedAmt' = [lockedAmt EXCEPT ![taker.signer][taker.token] = @ - sold]
      /\ channel' = NoOrder /\ atStart' = None
      /\ UNCHANGED <<accountVars, backing>>
  BY EndFacts
<1>2. /\ txNum < MaxTxNum /\ txNum' = txNum + 1 /\ channel # NoOrder
  BY DEF DoReqSecondLimitEnd, InBlock
<1>3. /\ taker.signer \in Accounts /\ taker.token \in Tokens /\ taker.buyToken \in Tokens
      /\ taker.amount \in Nat /\ taker.accumulatedSellAmt \in 0 .. taker.amount
      /\ atStart.sell \in Nat /\ sold \in Nat /\ sold <= taker.amount - atStart.sell
      /\ sold = taker.accumulatedSellAmt - atStart.sell
  BY <1>1, OpenOrderFacts DEF LedgerInv, LedgerTypeOK, TakerSellAmt
<1>4. \A a, t : LocksIn(channel, atStart.sell, a, t) = Locks(taker, atStart.sell, a, t)
  BY <1>2, Zenon DEF LocksIn
<1>5. \A a, t : LocksIn(channel', atStart'.sell, a, t) = 0
  BY <1>1, Zenon DEF LocksIn
<1>6. \A a, t : /\ LeafLocks(orders[req.leaf], a, t) = 0
                /\ LeafLocks(Kept(taker), a, t) = Locks(taker, taker.accumulatedSellAmt, a, t)
  BY <1>1, KeptLocks, Zenon DEF LeafLocks
<1>7. Kept(taker) \in Places
  BY <1>1, KeptLocks
<1> HIDE DEF taker, sold, bought
\* What the match took is locked.
<1>8. sold <= lockedAmt[taker.signer][taker.token]
  <2> DEFINE a == taker.signer
             t == taker.token
  <2>1. a \in Accounts /\ t \in Tokens /\ orders \in [Leaves -> Places]
    BY <1>3 DEF LedgerInv, LedgerTypeOK, Places
  <2>2. /\ lockedAmt[a][t] = Total(LocksOf(orders, a, t)) + LocksIn(channel, atStart.sell, a, t)
        /\ Total(LocksOf(orders, a, t)) \in Nat
    BY <2>1, LocksAre, LocksOfType DEF LedgerInv
  <2>3. LocksIn(channel, atStart.sell, a, t) = taker.amount - atStart.sell
    BY <1>4 DEF Locks
  <2> HIDE DEF a, t
  <2>4. sold <= lockedAmt[a][t]
    BY <1>3, <2>2, <2>3
  <2>5. QED
    BY <2>4 DEF a, t
<1>9. /\ avlAmt' \in [Accounts -> [Tokens -> Nat]]
      /\ lockedAmt' \in [Accounts -> [Tokens -> Nat]]
      /\ \A a \in Accounts, t \in Tokens :
            lockedAmt'[a][t] =
              lockedAmt[a][t] - (IF taker.signer = a /\ taker.token = t THEN sold ELSE 0)
  BY <1>1, <1>3, <1>8 DEF LedgerInv, LedgerTypeOK
<1>10. LedgerTypeOK'
  <2>1. txNum' \in 0 .. MaxTxNum
    BY <1>2, ConstantAssumption DEF LedgerInv, LedgerTypeOK
  <2>2. orders' \in [Leaves -> Places]
    BY <1>1, <1>7 DEF LedgerInv, LedgerTypeOK, Places
  <2>3. QED
    BY <1>1, <1>9, <2>1, <2>2 DEF LedgerInv, LedgerTypeOK, accountVars, Places, None
<1>11. MatchGoesOn' /\ ChannelEmptyBetweenBlocks'
  BY <1>1 DEF MatchGoesOn, ChannelEmptyBetweenBlocks
<1>12. LocksFollow(req.leaf, Kept(taker))
  <2> SUFFICES ASSUME NEW a \in Accounts, NEW t \in Tokens
               PROVE  lockedAmt'[a][t] + 0 + Locks(taker, atStart.sell, a, t)
                        = lockedAmt[a][t] + Locks(taker, taker.accumulatedSellAmt, a, t) + 0
    <3>1. 0 \in Nat
      OBVIOUS
    <3>2. QED
      BY <1>4, <1>5, <1>6, <3>1, ZenonT(30) DEF LocksFollow
  <2> DEFINE own == IF taker.signer = a /\ taker.token = t THEN sold ELSE 0
             c == Locks(taker, atStart.sell, a, t)
             y == Locks(taker, taker.accumulatedSellAmt, a, t)
             k == lockedAmt[a][t]
             m == lockedAmt'[a][t]
  <2>1. m = k - own /\ k \in Nat /\ own \in Nat
    BY <1>3, <1>9 DEF LedgerInv, LedgerTypeOK
  <2>2. c = y + own /\ y \in Nat
    BY <1>3 DEF Locks
  <2> HIDE DEF own, c, y, k, m
  <2>3. m + 0 + c = k + y + 0
    BY <2>1, <2>2
  <2>4. QED
    BY <2>3, Zenon DEF c, y, k, m
<1>13. LockedIsWhatOrdersSell'
  <2>1. lockedAmt' \in [Accounts -> [Tokens -> Int]]
    BY <1>9
  <2>2. QED
    BY <1>1, <1>7, <1>12, <2>1, LocksAfterWrite
<1>14. QED
  BY <1>10, <1>11, <1>13 DEF LedgerInv

-----------------------------------------------------------------------------
(***************************************************************************)
(* The invariant of every behaviour without cancellations.                 *)
(***************************************************************************)
LEMMA InvariantInitially == Init => LedgerInv
<1> SUFFICES ASSUME Init PROVE LedgerInv
  OBVIOUS
<1>1. LedgerTypeOK
  BY ConstantAssumption DEF Init, LedgerTypeOK, None
<1>2. LockedIsWhatOrdersSell
  <2> SUFFICES ASSUME NEW a \in Accounts, NEW t \in Tokens
               PROVE  0 = Total(LocksOf(orders, a, t)) + 0
    BY LocksAre, Zenon DEF Init, LocksIn
  <2>1. orders \in [Leaves -> Places]
    BY DEF Init, Places
  <2>2. \A l \in Leaves : LeafLocks(orders[l], a, t) = 0
    BY DEF Init, LeafLocks
  <2> DEFINE s == LocksOf(orders, a, t)
  <2>3. s \in Seq(Nat) /\ \A l \in 1 .. Len(s) : s[l] = 0
    BY <2>1, <2>2, LocksOfType DEF Leaves
  <2> HIDE DEF s
  <2>4. Total(s) = 0
    BY <2>3, TotalZero
  <2>5. QED
    BY <2>4 DEF s
<1>3. MatchGoesOn /\ ChannelEmptyBetweenBlocks
  BY DEF Init, MatchGoesOn, ChannelEmptyBetweenBlocks
<1>4. QED
  BY <1>1, <1>2, <1>3 DEF LedgerInv

\* Without cancellations every request keeps the invariant.
LEMMA InvariantPreserved ==
    ASSUME NoCancels, LedgerInv, [Next]_vars
    PROVE  LedgerInv'
<1>1. CASE \E req \in OfType("Unknow") : DoReqUnknow(req)
  BY <1>1, UnknowStep
<1>2. CASE \E req \in OfType("Register") : DoReqRegister(req)
  BY <1>2, RegisterStep
<1>3. CASE \E req \in OfType("Deposit") : DoReqDeposit(req)
  BY <1>3, DepositStep
<1>4. CASE \E req \in OfType("Withdraw") : DoReqWithdraw(req)
  BY <1>4, WithdrawStep
<1>5. CASE \E req \in OfType("SecondLimitOrder") : DoReqSecondLimitOrder(req)
  BY <1>5, OrderStep
<1>6. CASE \E req \in OfType("SecondLimitStart") : DoReqSecondLimitStart(req)
  BY <1>6, StartStep
<1>7. CASE \E req \in OfType("SecondLimitExchange") : DoReqSecondLimitExchange(req)
  BY <1>7, ExchangeStep
<1>8. CASE \E req \in OfType("SecondLimitEnd") : DoReqSecondLimitEnd(req)
  BY <1>8, EndStep
<1>9. OfType("Cancel") = {}
  BY DEF NoCancels, OfType
<1>10. CASE UNCHANGED vars
  <2>1. LedgerTypeOK' /\ MatchGoesOn' /\ ChannelEmptyBetweenBlocks'
    BY <1>10 DEF LedgerInv, LedgerTypeOK, MatchGoesOn, ChannelEmptyBetweenBlocks,
                 vars, accountVars, tokenVars, matchVars
  <2>2. LockedIsWhatOrdersSell'
    BY <1>10, LocksUntouched DEF LedgerInv, vars, tokenVars
  <2>3. QED
    BY <2>1, <2>2 DEF LedgerInv
<1>11. QED
  BY <1>1, <1>2, <1>3, <1>4, <1>5, <1>6, <1>7, <1>8, <1>9, <1>10 DEF Next

\* LedgerInv holds in every reachable state.
LEMMA InvariantHolds ==
    ASSUME NoCancels
    PROVE  Spec => []LedgerInv
<1>1. Init => LedgerInv
  BY InvariantInitially
<1>2. LedgerInv /\ [Next]_vars => LedgerInv'
  BY InvariantPreserved
<1>3. QED
  BY <1>1, <1>2, PTL DEF Spec

(***************************************************************************)
(* Every amount stays a natural number and no order sells more than it     *)
(* offers: none of the circuit's subtractions wraps around.                *)
(***************************************************************************)
THEOREM LedgerTypeCorrect ==
    ASSUME NoCancels
    PROVE  Spec => []LedgerTypeOK
<1>1. LedgerInv => LedgerTypeOK
  BY DEF LedgerInv
<1>2. QED
  BY <1>1, InvariantHolds, PTL

(***************************************************************************)
(* What an account has locked is what its open orders still have to sell.  *)
(***************************************************************************)
THEOREM LocksCorrect ==
    ASSUME NoCancels
    PROVE  Spec => []LockedIsWhatOrdersSell
<1>1. LedgerInv => LockedIsWhatOrdersSell
  BY DEF LedgerInv
<1>2. QED
  BY <1>1, InvariantHolds, PTL

(***************************************************************************)
(* At the end of a block the order tree alone accounts for what is locked. *)
(***************************************************************************)
THEOREM BlocksEndInTree ==
    ASSUME NoCancels
    PROVE  Spec => []BlockEndsWithOrdersInTree
<1>1. LedgerInv => BlockEndsWithOrdersInTree
  <2> SUFFICES ASSUME LedgerInv, txNum % NumOfReqs = 0, NEW a \in Accounts, NEW t \in Tokens
               PROVE  lockedAmt[a][t] = Total(LocksOf(orders, a, t))
    BY DEF BlockEndsWithOrdersInTree, TreeLocks, LocksOf
  <2>1. lockedAmt[a][t] = Total(LocksOf(orders, a, t)) + 0
    BY DEF LedgerInv, ChannelEmptyBetweenBlocks, LockedIsWhatOrdersSell, ChannelLocks,
           TreeLocks, LocksOf
  <2>2. Total(LocksOf(orders, a, t)) \in Nat
    BY LocksOfType DEF LedgerInv, LedgerTypeOK, Places
  <2>3. QED
    BY <2>1, <2>2
<1>2. QED
  BY <1>1, InvariantHolds, PTL

\* One exchange fills the maker of its leaf at his price.
LEMMA ExchangeFills ==
    ASSUME LedgerInv, NEW l \in Leaves, ExchangesWith(l),
           NEW req \in OfType("SecondLimitExchange"), DoReqSecondLimitExchange(req)
    PROVE  AtPriceOf(l)
<1>0. PICK sold, bought : Exchanged(req, sold, bought)
  BY OrdersTyped, ExchangeFacts
<1> DEFINE maker == orders[req.leaf]
           taker == channel
<1>1. /\ req.leaf \in Leaves /\ maker \in OpenOrders /\ channel \in OpenOrders
      /\ IsMatched(maker, channel) /\ Matched(maker, channel, sold, bought)
      /\ orders' = [orders EXCEPT ![req.leaf] = Kept(Fill(maker, sold, bought))]
      /\ lockedAmt' = [lockedAmt EXCEPT ![maker.signer][maker.token] = @ - sold]
      /\ channel'.accumulatedSellAmt = taker.accumulatedSellAmt + bought
  BY <1>0, Zenon DEF Exchanged
<1>2. orders \in [Leaves -> Places] /\ lockedAmt \in [Accounts -> [Tokens -> Nat]]
  BY DEF LedgerInv, LedgerTypeOK, Places
<1>3. l = req.leaf
  BY <1>1, <1>2 DEF ExchangesWith
<1>4. /\ sold \in 0 .. RemainSellAmt(maker) /\ bought \in 0 .. RemainSellAmt(taker)
      /\ sold \in MatchedSellAmt(maker, SupTakerBuyAmt(maker, taker)) .. RemainSellAmt(maker)
      /\ bought \in MatchedBuyAmt(taker, SupMakerBuyAmt(maker)) .. RemainSellAmt(taker)
      /\ sold * maker.buyAmt < bought * maker.amount + AmountLimit
      /\ bought * maker.amount < sold * maker.buyAmt + AmountLimit
      /\ sold = MatchedSellAmt(maker, SupTakerBuyAmt(maker, taker))
         /\ bought = MatchedBuyAmt(taker, SupMakerBuyAmt(maker)) =>
            /\ sold * maker.buyAmt < bought * maker.amount + maker.amount
            /\ bought * maker.amount < sold * maker.buyAmt + maker.buyAmt
  BY <1>1, MatchedAmounts, FloorAmounts
<1>5. /\ maker.signer \in Accounts /\ maker.token \in Tokens
      /\ taker.accumulatedSellAmt \in Int
      /\ RemainSellAmt(maker) \in Nat /\ RemainSellAmt(taker) \in Nat
  BY <1>1, OpenOrderFacts
<1>6. maker = orders[l] /\ taker = channel
  BY <1>3
<1> HIDE DEF maker, taker
<1>7. sold \in Int /\ bought \in Int
  BY <1>4, <1>5
<1>8. lockedAmt[maker.signer][maker.token] - lockedAmt'[maker.signer][maker.token] = sold
  BY <1>1, <1>2, <1>5, <1>7
<1>9. channel'.accumulatedSellAmt - taker.accumulatedSellAmt = bought
  BY <1>1, <1>5, <1>7
<1>10. QED
  BY <1>4, <1>6, <1>8, <1>9, Zenon DEF AtPriceOf

(***************************************************************************)
(* Whatever quotients IntDivide is made to accept, an exchange fills the   *)
(* orders within what they offer, no less than the maker's price gives and *)
(* at that price up to AmountLimit in value; with the quotients the        *)
(* witness generation computes, up to less than one unit of either token.  *)
(***************************************************************************)
THEOREM FillsCorrect ==
    ASSUME NoCancels
    PROVE  Spec => FillsAtMakersPrice
<1>1. LedgerInv /\ [Next]_vars => [\A l \in Leaves : ExchangesWith(l) => AtPriceOf(l)]_vars
  <2> SUFFICES ASSUME LedgerInv, Next, NEW l \in Leaves, ExchangesWith(l)
               PROVE  AtPriceOf(l)
    OBVIOUS
  <2>1. channel # NoOrder /\ channel' # NoOrder
    BY DEF ExchangesWith
  <2>2. \E req \in OfType("SecondLimitExchange") : DoReqSecondLimitExchange(req)
    BY <2>1
       DEF Next, OutsideMatch, DoReqUnknow, DoReqRegister, DoReqDeposit, DoReqWithdraw,
           DoReqSecondLimitOrder, DoReqSecondLimitStart, DoReqSecondLimitEnd, DoReqCancel
  <2>3. QED
    BY <2>2, ExchangeFills
<1>2. QED
  BY <1>1, InvariantHolds, PTL DEF Spec, FillsAtMakersPrice

-----------------------------------------------------------------------------
(***************************************************************************)
(* What the accounts hold of a token.                                      *)
(***************************************************************************)
Holdings(avl, locked, t) == [a \in Accounts |-> avl[a][t] + locked[a][t]]

\* What the match of the order ch still has to settle.
PendingOf(ch, start, t) ==
    IF ch = NoOrder THEN 0
    ELSE (IF ch.buyToken = t THEN ch.accumulatedBuyAmt - start.buy ELSE 0)
         - (IF ch.token = t THEN ch.accumulatedSellAmt - start.sell ELSE 0)

\* HeldOnL2 as the accounts' holdings and what the channel is to settle.
LEMMA HeldIs ==
    \A t : HeldOnL2(t) = Total(Holdings(avlAmt, lockedAmt, t)) + PendingOf(channel, atStart, t)
BY Zenon DEF HeldOnL2, Holdings, PendingOf

\* What is to settle is an integer.
LEMMA PendingType ==
    ASSUME NEW ch \in Places, NEW start \in [sell : Nat, buy : Nat], NEW t
    PROVE  PendingOf(ch, start, t) \in Int
<1>1. CASE ch = NoOrder
  BY <1>1 DEF PendingOf
<1>2. CASE ch # NoOrder
  <2>1. ch.accumulatedBuyAmt \in Int /\ ch.accumulatedSellAmt \in Int
    BY <1>2, OpenOrderFacts DEF Places
  <2>2. start.buy \in Int /\ start.sell \in Int
    OBVIOUS
  <2>3. QED
    BY <1>2, <2>1, <2>2 DEF PendingOf
<1>3. QED
  BY <1>1, <1>2

\* Holdings are natural numbers, one for each account.
LEMMA HoldingsType ==
    ASSUME NEW avl \in [Accounts -> [Tokens -> Nat]],
           NEW locked \in [Accounts -> [Tokens -> Nat]], NEW t \in Tokens
    PROVE  /\ Holdings(avl, locked, t) \in Seq(Nat)
           /\ Len(Holdings(avl, locked, t)) = NumOfAccounts
           /\ \A a \in Accounts : Holdings(avl, locked, t)[a] = avl[a][t] + locked[a][t]
           /\ Total(Holdings(avl, locked, t)) \in Nat
<1> DEFINE s == Holdings(avl, locked, t)
<1>1. s \in [1 .. NumOfAccounts -> Nat] /\ NumOfAccounts \in Nat
  BY ConstantAssumption DEF Holdings, Accounts
<1>2. s \in Seq(Nat) /\ Len(s) = NumOfAccounts
  <2>1. DOMAIN s = 1 .. NumOfAccounts
    BY <1>1
  <2>2. s \in UNION {[1 .. n -> Nat] : n \in Nat}
    BY <1>1
  <2>3. QED
    BY <1>1, <2>1, <2>2, SMT
<1>3. \A a \in Accounts : s[a] = avl[a][t] + locked[a][t]
  BY DEF Holdings
<1> HIDE DEF s
<1>4. Total(s) \in Nat
  BY <1>2, TotalType
<1>5. QED
  BY <1>2, <1>3, <1>4 DEF s

\* The step moves amounts of account b only.
MovesOf(b) ==
    \A a \in Accounts : a # b => avlAmt'[a] = avlAmt[a] /\ lockedAmt'[a] = lockedAmt[a]

\* A request that touches one account moves the holdings by that account's
\* change.
LEMMA HoldingsMoved ==
    ASSUME LedgerInv, LedgerInv', NEW b \in Accounts, NEW t \in Tokens, MovesOf(b)
    PROVE  Total(Holdings(avlAmt', lockedAmt', t)) + (avlAmt[b][t] + lockedAmt[b][t])
             = Total(Holdings(avlAmt, lockedAmt, t)) + (avlAmt'[b][t] + lockedAmt'[b][t])
<1> DEFINE s == Holdings(avlAmt, lockedAmt, t)
           w == Holdings(avlAmt', lockedAmt', t)
<1>1. /\ avlAmt \in [Accounts -> [Tokens -> Nat]] /\ lockedAmt \in [Accounts -> [Tokens -> Nat]]
      /\ avlAmt' \in [Accounts -> [Tokens -> Nat]] /\ lockedAmt' \in [Accounts -> [Tokens -> Nat]]
  BY DEF LedgerInv, LedgerTypeOK
<1>2. /\ s \in Seq(Nat) /\ Len(s) = NumOfAccounts
      /\ \A a \in Accounts : s[a] = avlAmt[a][t] + lockedAmt[a][t]
  BY <1>1, HoldingsType
<1>3. /\ w \in Seq(Nat) /\ Len(w) = NumOfAccounts
      /\ \A a \in Accounts : w[a] = avlAmt'[a][t] + lockedAmt'[a][t]
  BY <1>1, HoldingsType
<1> HIDE DEF s, w
<1>4. \A a \in 1 .. Len(s) : a # b => w[a] = s[a]
  BY <1>2, <1>3, Zenon DEF Accounts, MovesOf
<1>5. Len(w) = Len(s) /\ b \in 1 .. Len(s)
  BY <1>2, <1>3 DEF Accounts
<1>6. Total(w) + s[b] = Total(s) + w[b]
  BY <1>2, <1>3, <1>4, <1>5, TotalUpdate
<1>7. QED
  BY <1>2, <1>3, <1>6, Zenon DEF s, w

\* The arithmetic of a step that loses nothing.
LEMMA Balances ==
    ASSUME NEW H \in Nat, NEW J \in Nat, NEW x \in Nat, NEW y \in Nat,
           NEW p \in Int, NEW q \in Int, NEW k \in Int, NEW m \in Int,
           J + x = H + y, H + p >= k, y + q + k >= x + p + m
    PROVE  J + q >= m
OBVIOUS

\* The step moves amounts of account b only, and no less than it pays out.
LosesNothing(b) ==
    /\ MovesOf(b)
    /\ \A t \in Tokens :
          (avlAmt'[b][t] + lockedAmt'[b][t]) + PendingOf(channel', atStart', t) + backing[t]
            >= (avlAmt[b][t] + lockedAmt[b][t]) + PendingOf(channel, atStart, t) + backing'[t]

\* A request whose one account loses nothing keeps NothingLost.
LEMMA NothingLostBy ==
    ASSUME LedgerInv, LedgerInv', NothingLost, NEW b \in Accounts, LosesNothing(b)
    PROVE  NothingLost'
<1> SUFFICES ASSUME NEW t \in Tokens
             PROVE  Total(Holdings(avlAmt', lockedAmt', t)) + PendingOf(channel', atStart', t)
                      >= backing'[t]
  BY Zenon DEF NothingLost, HeldOnL2, Holdings, PendingOf
<1> DEFINE H == Total(Holdings(avlAmt, lockedAmt, t))
           J == Total(Holdings(avlAmt', lockedAmt', t))
           x == avlAmt[b][t] + lockedAmt[b][t]
           y == avlAmt'[b][t] + lockedAmt'[b][t]
           p == PendingOf(channel, atStart, t)
           q == PendingOf(channel', atStart', t)
           k == backing[t]
           m == backing'[t]
<1>1. /\ avlAmt \in [Accounts -> [Tokens -> Nat]] /\ lockedAmt \in [Accounts -> [Tokens -> Nat]]
      /\ channel \in Places /\ atStart \in [sell : Nat, buy : Nat] /\ backing \in [Tokens -> Int]
  BY DEF LedgerInv, LedgerTypeOK, Places
<1>2. /\ avlAmt' \in [Accounts -> [Tokens -> Nat]] /\ lockedAmt' \in [Accounts -> [Tokens -> Nat]]
      /\ channel' \in Places /\ atStart' \in [sell : Nat, buy : Nat]
      /\ backing' \in [Tokens -> Int]
  BY DEF LedgerInv, LedgerTypeOK, Places
<1>3. H \in Nat /\ J \in Nat
  BY <1>1, <1>2, HoldingsType
<1>4. x \in Nat /\ y \in Nat /\ k \in Int /\ m \in Int
  BY <1>1, <1>2
<1>5. p \in Int /\ q \in Int
  BY <1>1, <1>2, PendingType
<1>6. J + x = H + y
  BY HoldingsMoved, Zenon DEF LosesNothing
<1>7. H + p >= k
  BY HeldIs, Zenon DEF NothingLost
<1>8. y + q + k >= x + p + m
  BY Zenon DEF LosesNothing
<1> HIDE DEF H, J, x, y, p, q, k, m
<1>9. J + q >= m
  BY <1>3, <1>4, <1>5, <1>6, <1>7, <1>8, Balances
<1>10. QED
  BY <1>9, Zenon DEF J, q, m

\* A request that leaves the amounts and what is pending as they are.
LEMMA NothingLostIfKept ==
    ASSUME NothingLost, UNCHANGED <<tokenVars, backing>>,
           \A t : PendingOf(channel', atStart', t) = PendingOf(channel, atStart, t)
    PROVE  NothingLost'
<1>1. \A t \in Tokens : Total(Holdings(avlAmt, lockedAmt, t)) + PendingOf(channel, atStart, t)
                          >= backing[t]
  BY HeldIs, Zenon DEF NothingLost
<1>2. avlAmt' = avlAmt /\ lockedAmt' = lockedAmt /\ backing' = backing
  BY DEF tokenVars
<1>3. \A t \in Tokens : Total(Holdings(avlAmt', lockedAmt', t)) + PendingOf(channel', atStart', t)
                          >= backing'[t]
  BY <1>1, <1>2, Zenon
<1>4. QED
  BY <1>3, Zenon DEF NothingLost, HeldOnL2, Holdings, PendingOf

\* Outside a match nothing is to settle.
LEMMA NothingPending ==
    ASSUME OutsideMatch
    PROVE  \A t : PendingOf(channel, atStart, t) = 0 /\ PendingOf(channel', atStart', t) = 0
BY DEF OutsideMatch, matchVars, PendingOf

\* The account gains what the backing gains.
LEMMA DepositLosesNothing ==
    ASSUME LedgerInv, NEW req \in OfType("Deposit"), DoReqDeposit(req)
    PROVE  req.account \in Accounts /\ LosesNothing(req.account)
<1>1. req.account \in Accounts /\ req.token \in Tokens /\ req.amount \in Nat
  BY RequestFields
<1>2. \A t : PendingOf(channel, atStart, t) = 0 /\ PendingOf(channel', atStart', t) = 0
  BY NothingPending DEF DoReqDeposit
<1>3. MovesOf(req.account)
  BY <1>1 DEF LedgerInv, LedgerTypeOK, DoReqDeposit, MovesOf
<1>4. \A t \in Tokens :
        (avlAmt'[req.account][t] + lockedAmt'[req.account][t]) + 0 + backing[t]
          >= (avlAmt[req.account][t] + lockedAmt[req.account][t]) + 0 + backing'[t]
  BY <1>1 DEF LedgerInv, LedgerTypeOK, DoReqDeposit
<1>5. QED
  BY <1>1, <1>2, <1>3, <1>4, Zenon DEF LosesNothing

\* The account loses what the backing loses.
LEMMA WithdrawLosesNothing ==
    ASSUME LedgerInv, NEW req \in OfType("Withdraw"), DoReqWithdraw(req)
    PROVE  req.signer \in Accounts /\ LosesNothing(req.signer)
<1>1. req.signer \in Accounts /\ req.token \in Tokens /\ req.amount \in Nat
  BY RequestFields
<1>2. \A t : PendingOf(channel, atStart, t) = 0 /\ PendingOf(channel', atStart', t) = 0
  BY NothingPending DEF DoReqWithdraw
<1>3. MovesOf(req.signer)
  BY <1>1 DEF LedgerInv, LedgerTypeOK, DoReqWithdraw, MovesOf
<1>4. \A t \in Tokens :
        (avlAmt'[req.signer][t] + lockedAmt'[req.signer][t]) + 0 + backing[t]
          >= (avlAmt[req.signer][t] + lockedAmt[req.signer][t]) + 0 + backing'[t]
  BY <1>1 DEF LedgerInv, LedgerTypeOK, DoReqWithdraw
<1>5. QED
  BY <1>1, <1>2, <1>3, <1>4, Zenon DEF LosesNothing

\* Locking moves an amount within the account.
LEMMA OrderLosesNothing ==
    ASSUME LedgerInv, NEW req \in OfType("SecondLimitOrder"), DoReqSecondLimitOrder(req)
    PROVE  req.signer \in Accounts /\ LosesNothing(req.signer)
<1>1. req.signer \in Accounts /\ req.token \in Tokens /\ req.amount \in Nat
  BY RequestFields
<1>2. \A t : PendingOf(channel, atStart, t) = 0 /\ PendingOf(channel', atStart', t) = 0
  BY NothingPending DEF DoReqSecondLimitOrder
<1>3. MovesOf(req.signer)
  BY <1>1 DEF LedgerInv, LedgerTypeOK, DoReqSecondLimitOrder, MovesOf
<1>4. \A t \in Tokens :
        (avlAmt'[req.signer][t] + lockedAmt'[req.signer][t]) + 0 + backing[t]
          >= (avlAmt[req.signer][t] + lockedAmt[req.signer][t]) + 0 + backing'[t]
  BY <1>1 DEF LedgerInv, LedgerTypeOK, DoReqSecondLimitOrder
<1>5. QED
  BY <1>1, <1>2, <1>3, <1>4, Zenon DEF LosesNothing

\* What the maker gives, and no less, is due to the taker, and the other way
\* round.
LEMMA ExchangeLosesNothing ==
    ASSUME LedgerInv, NEW req \in OfType("SecondLimitExchange"),
           DoReqSecondLimitExchange(req)
    PROVE  \E b \in Accounts : LosesNothing(b)
<1>0. PICK sold, bought : Exchanged(req, sold, bought)
  BY OrdersTyped, ExchangeFacts
<1> DEFINE maker == orders[req.leaf]
<1>1. /\ maker \in OpenOrders /\ channel \in OpenOrders
      /\ channel.token = maker.buyToken /\ channel.buyToken = maker.token
      /\ sold \in 0 .. RemainSellAmt(maker) /\ bought \in 0 .. RemainSellAmt(channel)
      /\ avlAmt' = [avlAmt EXCEPT ![maker.signer][maker.buyToken] = @ + bought]
      /\ lockedAmt' = [lockedAmt EXCEPT ![maker.signer][maker.token] = @ - sold]
      /\ channel' \in OpenOrders
      /\ channel'.token = channel.token /\ channel'.buyToken = channel.buyToken
      /\ channel'.accumulatedSellAmt = channel.accumulatedSellAmt + bought
      /\ channel'.accumulatedBuyAmt = channel.accumulatedBuyAmt + maker.amount
      /\ UNCHANGED <<accountVars, atStart, backing>>
  BY <1>0, Zenon DEF Exchanged
<1> DEFINE b == maker.signer
<1>2. /\ b \in Accounts /\ maker.token \in Tokens /\ maker.buyToken \in Tokens
      /\ maker.amount \in Nat /\ RemainSellAmt(maker) \in 0 .. maker.amount
      /\ RemainSellAmt(channel) \in Nat
      /\ channel # NoOrder /\ channel' # NoOrder
      /\ channel.accumulatedSellAmt \in Int /\ channel.accumulatedBuyAmt \in Int
  BY <1>1, OpenOrderFacts
<1>3. sold \in Nat /\ sold <= maker.amount /\ bought \in Nat
  BY <1>1, <1>2
<1>4. /\ avlAmt \in [Accounts -> [Tokens -> Nat]] /\ lockedAmt \in [Accounts -> [Tokens -> Nat]]
      /\ atStart.sell \in Int /\ atStart.buy \in Int /\ backing \in [Tokens -> Int]
  BY DEF LedgerInv, LedgerTypeOK
<1> HIDE DEF maker
<1>5. MovesOf(b)
  BY <1>1, <1>2, <1>4 DEF MovesOf
<1>6. ASSUME NEW t \in Tokens
      PROVE  (avlAmt'[b][t] + lockedAmt'[b][t]) + PendingOf(channel', atStart', t) + backing[t]
               >= (avlAmt[b][t] + lockedAmt[b][t]) + PendingOf(channel, atStart, t) + backing'[t]
  <2> DEFINE gained == IF maker.buyToken = t THEN bought ELSE 0
             paid == IF maker.token = t THEN sold ELSE 0
             given == IF maker.token = t THEN maker.amount ELSE 0
             p == PendingOf(channel, atStart, t)
             q == PendingOf(channel', atStart', t)
             v == avlAmt[b][t]
             v2 == avlAmt'[b][t]
             k == lockedAmt[b][t]
             k2 == lockedAmt'[b][t]
             m == backing[t]
  <2>1. v2 = v + gained
    BY <1>1, <1>2, <1>3, <1>4
  <2>2. k2 = k - paid
    BY <1>1, <1>2, <1>3, <1>4
  <2>3. q = (p + given) - gained /\ p \in Int
    <3> DEFINE x == channel.accumulatedBuyAmt - atStart.buy
               y == channel.accumulatedSellAmt - atStart.sell
               X == channel'.accumulatedBuyAmt - atStart.buy
               Y == channel'.accumulatedSellAmt - atStart.sell
    <3>1. x \in Int /\ y \in Int /\ X = x + maker.amount /\ Y = y + bought
      BY <1>1, <1>2, <1>3, <1>4
    <3>2. p = (IF maker.token = t THEN x ELSE 0) - (IF maker.buyToken = t THEN y ELSE 0)
      BY <1>1, <1>2, Zenon DEF PendingOf
    <3>3. q = (IF maker.token = t THEN X ELSE 0) - (IF maker.buyToken = t THEN Y ELSE 0)
      BY <1>1, <1>2, Zenon DEF PendingOf
    <3> HIDE DEF x, y, X, Y, p, q
    <3>4. QED
      BY <1>2, <1>3, <3>1, <3>2, <3>3
  <2>4. gained \in Nat /\ paid \in Nat /\ given \in Nat /\ paid <= given
    BY <1>2, <1>3
  <2>5. v \in Nat /\ k \in Nat /\ m \in Int /\ backing'[t] = m
    BY <1>1, <1>2, <1>4
  <2> HIDE DEF gained, paid, given, p, q, v, v2, k, k2, m
  <2>6. (v2 + k2) + q + m >= (v + k) + p + m
    BY <2>1, <2>2, <2>3, <2>4, <2>5
  <2>7. QED
    BY <2>5, <2>6, Zenon DEF p, q, v, v2, k, k2, m
<1>7. QED
  BY <1>2, <1>5, <1>6, Zenon DEF LosesNothing

\* The End pays the taker what was due to him.
LEMMA EndLosesNothing ==
    ASSUME LedgerInv, NEW req \in OfType("SecondLimitEnd"), DoReqSecondLimitEnd(req)
    PROVE  \E b \in Accounts : LosesNothing(b)
<1> DEFINE taker == channel
           sold == TakerSellAmt
           bought == TakerBuyAmt
           b == taker.signer
<1>1. /\ taker \in OpenOrders
      /\ sold \in 0 .. taker.amount - atStart.sell /\ bought \in Nat
      /\ avlAmt' = [avlAmt EXCEPT ![taker.signer][taker.buyToken] = @ + bought]
      /\ lockedAmt' = [lockedAmt EXCEPT ![taker.signer][taker.token] = @ - sold]
      /\ channel' = NoOrder
      /\ UNCHANGED <<accountVars, backing>>
  BY EndFacts
<1>2. /\ b \in Accounts /\ taker.token \in Tokens /\ taker.buyToken \in Tokens
      /\ taker.amount \in Int /\ taker # NoOrder
  BY <1>1, OpenOrderFacts
<1>3. /\ avlAmt \in [Accounts -> [Tokens -> Nat]] /\ lockedAmt \in [Accounts -> [Tokens -> Nat]]
      /\ atStart.sell \in Int /\ backing \in [Tokens -> Int]
  BY DEF LedgerInv, LedgerTypeOK
<1>4. sold \in Int /\ bought \in Int
  BY <1>1, <1>2, <1>3
<1>5. \A t : /\ PendingOf(channel', atStart', t) = 0
             /\ PendingOf(channel, atStart, t) =
                  (IF taker.buyToken = t THEN bought ELSE 0)
                  - (IF taker.token = t THEN sold ELSE 0)
  BY <1>1, <1>2, Zenon DEF PendingOf, TakerSellAmt, TakerBuyAmt
<1> HIDE DEF taker, sold, bought
<1>6. MovesOf(b)
  BY <1>1, <1>2, <1>3 DEF MovesOf
<1>7. ASSUME NEW t \in Tokens
      PROVE  (avlAmt'[b][t] + lockedAmt'[b][t]) + 0 + backing[t]
               >= (avlAmt[b][t] + lockedAmt[b][t])
                  + ((IF taker.buyToken = t THEN bought ELSE 0)
                     - (IF taker.token = t THEN sold ELSE 0)) + backing'[t]
  <2> DEFINE gained == IF taker.buyToken = t THEN bought ELSE 0
             paid == IF taker.token = t THEN sold ELSE 0
             v == avlAmt[b][t]
             v2 == avlAmt'[b][t]
             k == lockedAmt[b][t]
             k2 == lockedAmt'[b][t]
             m == backing[t]
  <2>1. v2 = v + gained /\ k2 = k - paid
    BY <1>1, <1>2, <1>3, <1>4
  <2>2. gained \in Int /\ paid \in Int
    BY <1>4
  <2>3. v \in Nat /\ k \in Nat /\ m \in Int /\ backing'[t] = m
    BY <1>1, <1>2, <1>3
  <2> HIDE DEF gained, paid, v, v2, k, k2, m
  <2>4. (v2 + k2) + 0 + m >= (v + k) + (gained - paid) + m
    BY <2>1, <2>2, <2>3
  <2>5. QED
    BY <2>3, <2>4, Zenon DEF gained, paid, v, v2, k, k2, m
<1>8. QED
  BY <1>2, <1>5, <1>6, <1>7, Zenon DEF LosesNothing

\* Every request keeps NothingLost.
LEMMA NothingLostPreserved ==
    ASSUME NoCancels, LedgerInv, LedgerInv', NothingLost, [Next]_vars
    PROVE  NothingLost'
<1>1. ASSUME NEW req, \/ DoReqUnknow(req) \/ DoReqRegister(req)
      PROVE  NothingLost'
  <2>1. OutsideMatch /\ UNCHANGED <<tokenVars, backing>>
    BY <1>1 DEF DoReqUnknow, DoReqRegister
  <2>2. \A t : PendingOf(channel', atStart', t) = PendingOf(channel, atStart, t)
    BY <2>1, NothingPending, Zenon
  <2>3. QED
    BY <2>1, <2>2, NothingLostIfKept
<1>2. CASE \E req \in OfType("Unknow") : DoReqUnknow(req)
  BY <1>1, <1>2
<1>3. CASE \E req \in OfType("Register") : DoReqRegister(req)
  BY <1>1, <1>3
<1>4. CASE \E req \in OfType("Deposit") : DoReqDeposit(req)
  BY <1>4, DepositLosesNothing, NothingLostBy
<1>5. CASE \E req \in OfType("Withdraw") : DoReqWithdraw(req)
  BY <1>5, WithdrawLosesNothing, NothingLostBy
<1>6. CASE \E req \in OfType("SecondLimitOrder") : DoReqSecondLimitOrder(req)
  BY <1>6, OrderLosesNothing, NothingLostBy
<1>7. CASE \E req \in OfType("SecondLimitStart") : DoReqSecondLimitStart(req)
  <2> PICK req \in OfType("SecondLimitStart") : DoReqSecondLimitStart(req)
    BY <1>7
  <2>1. /\ UNCHANGED <<tokenVars, backing>> /\ channel = NoOrder
        /\ channel' = orders[req.leaf]
        /\ channel' # NoOrder =>
              atStart' = [sell |-> channel'.accumulatedSellAmt,
                          buy |-> channel'.accumulatedBuyAmt]
    BY DEF DoReqSecondLimitStart
  <2>2. \A t : PendingOf(channel, atStart, t) = 0
    BY <2>1, Zenon DEF PendingOf
  <2>3. \A t : PendingOf(channel', atStart', t) = 0
    <3>1. CASE channel' = NoOrder
      BY <3>1, Zenon DEF PendingOf
    <3>2. CASE channel' # NoOrder
      <4>1. channel' \in OpenOrders
        BY <3>2 DEF LedgerInv, LedgerTypeOK
      <4>2. channel'.accumulatedSellAmt \in Int /\ channel'.accumulatedBuyAmt \in Int
        BY <4>1, OpenOrderFacts
      <4>3. /\ atStart'.sell = channel'.accumulatedSellAmt
            /\ atStart'.buy = channel'.accumulatedBuyAmt
        BY <2>1, <3>2
      <4>4. QED
        BY <3>2, <4>2, <4>3 DEF PendingOf
    <3>3. QED
      BY <3>1, <3>2
  <2>4. QED
    BY <2>1, <2>2, <2>3, NothingLostIfKept
<1>8. CASE \E req \in OfType("SecondLimitExchange") : DoReqSecondLimitExchange(req)
  BY <1>8, ExchangeLosesNothing, NothingLostBy
<1>9. CASE \E req \in OfType("SecondLimitEnd") : DoReqSecondLimitEnd(req)
  BY <1>9, EndLosesNothing, NothingLostBy
<1>10. OfType("Cancel") = {}
  BY DEF NoCancels, OfType
<1>11. CASE UNCHANGED vars
  BY <1>11, NothingLostIfKept, Zenon DEF vars, matchVars
<1>12. QED
  BY <1>2, <1>3, <1>4, <1>5, <1>6, <1>7, <1>8, <1>9, <1>10, <1>11 DEF Next

(***************************************************************************)
(* No request loses money: what the accounts hold of a token is at least   *)
(* what was deposited less what was withdrawn.                             *)
(***************************************************************************)
THEOREM LedgerLosesNothing ==
    ASSUME NoCancels
    PROVE  Spec => []NothingLost
<1>1. Init => NothingLost
  <2> SUFFICES ASSUME Init, NEW t \in Tokens
               PROVE  Total(Holdings(avlAmt, lockedAmt, t)) + 0 >= 0
    BY HeldIs, Zenon DEF Init, NothingLost, PendingOf
  <2>1. /\ avlAmt \in [Accounts -> [Tokens -> Nat]]
        /\ lockedAmt \in [Accounts -> [Tokens -> Nat]]
    BY DEF Init
  <2>2. Total(Holdings(avlAmt, lockedAmt, t)) \in Nat
    BY <2>1, HoldingsType
  <2>3. QED
    BY <2>2
<1>2. LedgerInv /\ LedgerInv' /\ NothingLost /\ [Next]_vars => NothingLost'
  BY NothingLostPreserved
<1>3. QED
  BY <1>1, <1>2, InvariantHolds, PTL DEF Spec

-----------------------------------------------------------------------------
(***************************************************************************)
(* Signatures: these facts are about any requests, cancellations too.      *)
(* Spot 0 is the channel, the others are the leaves.                       *)
(***************************************************************************)
Spots == 0 .. NumOfLeaves

InSpots(ords, ch) == [p \in Spots |-> IF p = 0 THEN ch ELSE ords[p]]

SameSignature(o, o1) == o.signer = o1.signer /\ o.nonce = o1.nonce

\* Each order was signed with a nonce of its own, already used.
SignedOnce(f, ns) ==
    /\ \A p, q \in Spots : f[p] # NoOrder /\ f[q] # NoOrder /\ SameSignature(f[p], f[q]) => p = q
    /\ \A p \in Spots : f[p] # NoOrder => f[p].nonce < ns[f[p].signer]

SignatureInv == OrdersTypeOK /\ SignedOnce(InSpots(orders, channel), nonces)

\* Every order of g was in f, under the same signature, at a spot of its own.
ComesFrom(g, f, from) ==
    /\ from \in [Spots -> Spots]
    /\ \A p \in Spots : g[p] # NoOrder => f[from[p]] # NoOrder /\ SameSignature(g[p], f[from[p]])
    /\ \A p, q \in Spots : from[p] = from[q] => p = q

\* Orders that only move between spots keep their signatures apart.
LEMMA SignaturesMove ==
    ASSUME NEW f, NEW g, NEW from, NEW ns, SignedOnce(f, ns), ComesFrom(g, f, from)
    PROVE  SignedOnce(g, ns)
<1>1. ASSUME NEW p \in Spots, NEW q \in Spots, g[p] # NoOrder, g[q] # NoOrder,
             SameSignature(g[p], g[q])
      PROVE  p = q
  <2>1. from[p] \in Spots /\ from[q] \in Spots
    BY DEF ComesFrom
  <2>2. /\ f[from[p]] # NoOrder /\ SameSignature(g[p], f[from[p]])
        /\ f[from[q]] # NoOrder /\ SameSignature(g[q], f[from[q]])
    BY <1>1 DEF ComesFrom
  <2>3. SameSignature(f[from[p]], f[from[q]])
    BY <1>1, <2>2 DEF SameSignature
  <2>4. from[p] = from[q]
    BY <2>1, <2>2, <2>3 DEF SignedOnce
  <2>5. QED
    BY <2>4 DEF ComesFrom
<1>2. ASSUME NEW p \in Spots, g[p] # NoOrder
      PROVE  g[p].nonce < ns[g[p].signer]
  <2>1. from[p] \in Spots /\ f[from[p]] # NoOrder /\ SameSignature(g[p], f[from[p]])
    BY <1>2 DEF ComesFrom
  <2>2. f[from[p]].nonce < ns[f[from[p]].signer]
    BY <2>1 DEF SignedOnce
  <2>3. QED
    BY <2>1, <2>2, Zenon DEF SameSignature
<1>3. QED
  BY <1>1, <1>2 DEF SignedOnce

\* A leaf written with an order under the signature it had.
LEMMA LeafRewritten ==
    ASSUME NEW ords \in [Leaves -> Places], NEW ch \in Places, NEW ch1 \in Places,
           NEW leaf \in Leaves, NEW o \in Places,
           o = NoOrder \/ (ords[leaf] # NoOrder /\ SameSignature(o, ords[leaf])),
           ch1 = NoOrder \/ (ch # NoOrder /\ SameSignature(ch1, ch))
    PROVE  ComesFrom(InSpots([ords EXCEPT ![leaf] = o], ch1), InSpots(ords, ch),
                     [p \in Spots |-> p])
<1> DEFINE g == InSpots([ords EXCEPT ![leaf] = o], ch1)
           f == InSpots(ords, ch)
<1>1. /\ Leaves \subseteq Spots /\ 0 \in Spots /\ 0 \notin Leaves
      /\ \A p \in Spots : p = 0 \/ p \in Leaves
  BY ConstantAssumption DEF Leaves, Spots
<1>2. g[0] = ch1 /\ f[0] = ch
  BY <1>1, Zenon DEF InSpots
<1>3. \A p \in Leaves : g[p] = (IF p = leaf THEN o ELSE ords[p]) /\ f[p] = ords[p]
  BY <1>1 DEF InSpots
<1>4. ASSUME NEW p \in Spots, g[p] # NoOrder
      PROVE  f[p] # NoOrder /\ SameSignature(g[p], f[p])
  <2> HIDE DEF f, g
  <2>1. CASE p = 0
    BY <1>2, <1>4, <2>1 DEF SameSignature
  <2>2. CASE p \in Leaves
    BY <1>3, <1>4, <2>2 DEF SameSignature
  <2>3. QED
    BY <1>1, <2>1, <2>2
<1> HIDE DEF f, g
<1>5. QED
  BY <1>4, Zenon DEF ComesFrom, f, g

\* An order moved from one leaf, or from the channel, to the other.
Swap(leaf) == [p \in Spots |-> IF p = 0 THEN leaf ELSE IF p = leaf THEN 0 ELSE p]

\* A request that writes a leaf and the channel with what was in either only
\* moves orders.
LEMMA OrderMoved ==
    ASSUME NEW ords \in [Leaves -> Places], NEW ch \in Places, NEW ch1 \in Places,
           NEW leaf \in Leaves, NEW o \in Places,
           ch1 = NoOrder \/ ch1 = ords[leaf], o = NoOrder \/ o = ch
    PROVE  ComesFrom(InSpots([ords EXCEPT ![leaf] = o], ch1), InSpots(ords, ch), Swap(leaf))
<1> DEFINE g == InSpots([ords EXCEPT ![leaf] = o], ch1)
           f == InSpots(ords, ch)
<1>1. /\ Leaves \subseteq Spots /\ 0 \in Spots /\ 0 \notin Leaves
      /\ \A p \in Spots : p = 0 \/ p \in Leaves
  BY ConstantAssumption DEF Leaves, Spots
<1>2. g[0] = ch1 /\ f[0] = ch
  BY <1>1, Zenon DEF InSpots
<1>3. \A p \in Leaves : g[p] = (IF p = leaf THEN o ELSE ords[p]) /\ f[p] = ords[p]
  BY <1>1 DEF InSpots
<1>4. /\ Swap(leaf) \in [Spots -> Spots]
      /\ Swap(leaf)[0] = leaf /\ Swap(leaf)[leaf] = 0
      /\ \A p \in Leaves \ {leaf} : Swap(leaf)[p] = p
      /\ \A p, q \in Spots : Swap(leaf)[p] = Swap(leaf)[q] => p = q
  BY <1>1 DEF Swap
<1>5. ASSUME NEW p \in Spots, g[p] # NoOrder
      PROVE  f[Swap(leaf)[p]] # NoOrder /\ SameSignature(g[p], f[Swap(leaf)[p]])
  <2> HIDE DEF f, g
  <2>1. CASE p = 0
    BY <1>2, <1>3, <1>4, <1>5, <2>1 DEF SameSignature
  <2>2. CASE p = leaf
    BY <1>2, <1>3, <1>4, <1>5, <2>2 DEF SameSignature
  <2>3. CASE p \in Leaves \ {leaf}
    BY <1>3, <1>4, <1>5, <2>3 DEF SameSignature
  <2>4. QED
    BY <1>1, <2>1, <2>2, <2>3
<1> HIDE DEF f, g
<1>6. QED
  BY <1>4, <1>5, Zenon DEF ComesFrom, f, g

\* A new order, signed with the nonce that is next.
LEMMA OrderSigned ==
    ASSUME NEW ords \in [Leaves -> Places], NEW ch \in Places, NEW leaf \in Leaves,
           NEW ns \in [Accounts -> Nat], NEW o \in OpenOrders, o.nonce = ns[o.signer],
           SignedOnce(InSpots(ords, ch), ns)
    PROVE  SignedOnce(InSpots([ords EXCEPT ![leaf] = o], ch), [ns EXCEPT ![o.signer] = @ + 1])
<1> DEFINE g == InSpots([ords EXCEPT ![leaf] = o], ch)
           f == InSpots(ords, ch)
           ns1 == [ns EXCEPT ![o.signer] = @ + 1]
<1>1. leaf \in Spots /\ g[leaf] = o /\ o.signer \in Accounts
  BY ConstantAssumption, OpenOrderFacts DEF Leaves, Spots, InSpots
<1>2. \A p \in Spots : p # leaf => g[p] = f[p]
  BY ConstantAssumption DEF Leaves, Spots, InSpots
<1>3. \A p \in Spots : f[p] # NoOrder => f[p] \in OpenOrders
  BY DEF Places, Leaves, Spots, InSpots
<1> HIDE DEF f, g
<1>4. ns1[o.signer] = ns[o.signer] + 1 /\ \A a \in Accounts : ns[a] <= ns1[a] /\ ns1[a] \in Nat
  BY <1>1
<1> HIDE DEF ns1
<1>5. \A p \in Spots : f[p] # NoOrder => f[p].nonce < ns[f[p].signer]
  BY Zenon DEF SignedOnce, f
<1>6. \A p \in Spots : f[p] # NoOrder => ~SameSignature(o, f[p])
  <2> SUFFICES ASSUME NEW p \in Spots, f[p] # NoOrder, SameSignature(o, f[p])
               PROVE  FALSE
    OBVIOUS
  <2>1. f[p].nonce = o.nonce /\ f[p].signer = o.signer /\ f[p].nonce < ns[f[p].signer]
    BY <1>5, Zenon DEF SameSignature
  <2>2. ns[o.signer] < ns[o.signer] /\ ns[o.signer] \in Nat
    BY <1>1, <2>1
  <2>3. QED
    BY <2>2
<1>7. ASSUME NEW p \in Spots, NEW q \in Spots, g[p] # NoOrder, g[q] # NoOrder,
             SameSignature(g[p], g[q])
      PROVE  p = q
  <2>1. CASE p = leaf /\ q # leaf
    BY <1>1, <1>2, <1>6, <1>7, <2>1
  <2>2. CASE p # leaf /\ q = leaf
    BY <1>1, <1>2, <1>6, <1>7, <2>2 DEF SameSignature
  <2>3. CASE p # leaf /\ q # leaf
    <3>1. f[p] # NoOrder /\ f[q] # NoOrder /\ SameSignature(f[p], f[q])
      BY <1>2, <1>7, <2>3
    <3>2. QED
      BY <3>1, Zenon DEF SignedOnce, f
  <2>4. QED
    BY <2>1, <2>2, <2>3
<1>8. ASSUME NEW p \in Spots, g[p] # NoOrder
      PROVE  g[p].nonce < ns1[g[p].signer]
  <2>1. CASE p = leaf
    BY <1>1, <1>4, <2>1
  <2>2. CASE p # leaf
    <3>1. /\ g[p] = f[p] /\ f[p] \in OpenOrders
          /\ f[p].nonce < ns[f[p].signer]
      BY <1>2, <1>3, <1>5, <1>8, <2>2
    <3>2. f[p].nonce \in Nat /\ f[p].signer \in Accounts
      BY <3>1, OpenOrderFacts
    <3>3. ns[f[p].signer] <= ns1[f[p].signer] /\ ns1[f[p].signer] \in Nat /\ ns[f[p].signer] \in Nat
      BY <1>4, <3>2
    <3>4. QED
      BY <3>1, <3>2, <3>3
  <2>3. QED
    BY <2>1, <2>2
<1>9. SignedOnce(g, ns1)
  BY <1>7, <1>8, Zenon DEF SignedOnce
<1>10. QED
  BY <1>9, Zenon DEF g, ns1

\* The nonces after a request of a signer only grow.
LEMMA NoncesKept ==
    ASSUME NEW f \in [Spots -> Places], NEW ns \in [Accounts -> Nat], NEW a \in Accounts,
           SignedOnce(f, ns)
    PROVE  SignedOnce(f, [ns EXCEPT ![a] = @ + 1])
<1> DEFINE ns1 == [ns EXCEPT ![a] = @ + 1]
<1>1. \A b \in Accounts : ns[b] <= ns1[b] /\ ns1[b] \in Nat
  OBVIOUS
<1> HIDE DEF ns1
<1>2. ASSUME NEW p \in Spots, f[p] # NoOrder
      PROVE  f[p].nonce < ns1[f[p].signer]
  <2>1. f[p].nonce \in Nat /\ f[p].signer \in Accounts
    BY <1>2, OpenOrderFacts DEF Places
  <2>2. f[p].nonce < ns[f[p].signer]
    BY <1>2, Zenon DEF SignedOnce
  <2>3. ns[f[p].signer] <= ns1[f[p].signer] /\ ns1[f[p].signer] \in Nat /\ ns[f[p].signer] \in Nat
    BY <1>1, <2>1
  <2>4. QED
    BY <2>1, <2>2, <2>3
<1>3. QED
  BY <1>2, Zenon DEF SignedOnce, ns1

LEMMA SpotsTyped == OrdersTypeOK => InSpots(orders, channel) \in [Spots -> Places]
BY ConstantAssumption DEF OrdersTypeOK, InSpots, Spots, Leaves

\* A withdrawal uses a nonce up, which no order then has.
LEMMA WithdrawSigned ==
    ASSUME SignatureInv, NEW req \in OfType("Withdraw"), DoReqWithdraw(req)
    PROVE  SignatureInv'
<1>1. req.signer \in Accounts
  BY RequestFields
<1>2. nonces' = [nonces EXCEPT ![req.signer] = @ + 1] /\ orders' = orders /\ channel' = channel
  BY DEF DoReqWithdraw, Signed, OutsideMatch, matchVars
<1>3. OrdersTypeOK'
  BY <1>1, <1>2 DEF SignatureInv, OrdersTypeOK
<1>4. SignedOnce(InSpots(orders, channel), nonces')
  BY <1>1, <1>2, SpotsTyped, NoncesKept DEF SignatureInv, OrdersTypeOK
<1>5. QED
  BY <1>2, <1>3, <1>4, Zenon DEF SignatureInv

\* A new order has the nonce that no order had yet.
LEMMA OrderStepSigned ==
    ASSUME SignatureInv, NEW req \in OfType("SecondLimitOrder"), DoReqSecondLimitOrder(req)
    PROVE  SignatureInv'
<1> DEFINE o == NewOrder(req)
<1>1. /\ req.signer \in Accounts /\ req.token \in Tokens /\ req.amount \in Nat
      /\ req.amount \in Amounts /\ req.buyAmt \in Amounts
      /\ req.buyToken \in Tokens /\ req.leaf \in Leaves
  BY RequestFields
<1>2. nonces \in [Accounts -> Nat] /\ orders \in [Leaves -> Places] /\ channel \in Places
  BY DEF SignatureInv, OrdersTypeOK
<1>3. /\ o \in OpenOrders /\ o.signer = req.signer /\ o.nonce = nonces[o.signer]
  BY <1>1, <1>2 DEF NewOrder, OpenOrders, Orders
<1>4. /\ orders' = [orders EXCEPT ![req.leaf] = o]
      /\ nonces' = [nonces EXCEPT ![o.signer] = @ + 1]
      /\ channel' = channel
  BY <1>3 DEF DoReqSecondLimitOrder, Signed, OutsideMatch, matchVars
<1> HIDE DEF o
<1>5. OrdersTypeOK'
  BY <1>1, <1>2, <1>3, <1>4 DEF OrdersTypeOK, Places
<1>6. SignedOnce(InSpots(orders', channel), nonces')
  BY <1>1, <1>2, <1>3, <1>4, OrderSigned DEF SignatureInv
<1>7. QED
  BY <1>4, <1>5, <1>6, Zenon DEF SignatureInv

\* The order of the leaf goes to the channel.
LEMMA StartSigned ==
    ASSUME SignatureInv, NEW req \in OfType("SecondLimitStart"), DoReqSecondLimitStart(req)
    PROVE  SignatureInv'
<1>1. req.leaf \in Leaves
  BY RequestFields
<1>2. nonces \in [Accounts -> Nat] /\ orders \in [Leaves -> Places] /\ channel \in Places
  BY DEF SignatureInv, OrdersTypeOK
<1>3. /\ orders' = [orders EXCEPT ![req.leaf] = NoOrder]
      /\ nonces' = nonces
      /\ channel' = orders[req.leaf]
  BY DEF DoReqSecondLimitStart, accountVars
<1>4. OrdersTypeOK'
  BY <1>1, <1>2, <1>3 DEF OrdersTypeOK, Places
<1>5. ComesFrom(InSpots(orders', channel'), InSpots(orders, channel), Swap(req.leaf))
  BY <1>1, <1>2, <1>3, OrderMoved DEF Places
<1>6. SignedOnce(InSpots(orders', channel'), nonces)
  BY <1>5, SignaturesMove DEF SignatureInv
<1>7. QED
  BY <1>3, <1>4, <1>6, Zenon DEF SignatureInv

\* The channel's order goes to the leaf.
LEMMA EndSigned ==
    ASSUME SignatureInv, NEW req \in OfType("SecondLimitEnd"), DoReqSecondLimitEnd(req)
    PROVE  SignatureInv'
<1>1. req.leaf \in Leaves
  BY RequestFields
<1>2. nonces \in [Accounts -> Nat] /\ orders \in [Leaves -> Places] /\ channel \in Places
  BY DEF SignatureInv, OrdersTypeOK
<1>3. /\ orders' = [orders EXCEPT ![req.leaf] = Kept(channel)]
      /\ nonces' = nonces
      /\ channel' = NoOrder
  BY DEF DoReqSecondLimitEnd, accountVars
<1>4. Kept(channel) = NoOrder \/ Kept(channel) = channel
  BY DEF Kept
<1>5. Kept(channel) \in Places /\ NoOrder \in Places
  BY <1>2, <1>4 DEF Places
<1>6. OrdersTypeOK'
  BY <1>1, <1>2, <1>3, <1>5 DEF OrdersTypeOK
<1>7. ComesFrom(InSpots(orders', channel'), InSpots(orders, channel), Swap(req.leaf))
  BY <1>1, <1>2, <1>3, <1>4, <1>5, OrderMoved
<1>8. SignedOnce(InSpots(orders', channel'), nonces)
  BY <1>7, SignaturesMove DEF SignatureInv
<1>9. QED
  BY <1>3, <1>6, <1>8, Zenon DEF SignatureInv

\* Both orders keep their signatures.
LEMMA ExchangeSigned ==
    ASSUME SignatureInv, NEW req \in OfType("SecondLimitExchange"),
           DoReqSecondLimitExchange(req)
    PROVE  SignatureInv'
<1>0. PICK sold, bought : Exchanged(req, sold, bought)
  BY ExchangeFacts DEF SignatureInv
<1> DEFINE maker == orders[req.leaf]
           filled == Fill(maker, sold, bought)
<1>1. nonces \in [Accounts -> Nat] /\ orders \in [Leaves -> Places] /\ channel \in Places
  BY DEF SignatureInv, OrdersTypeOK
<1>2. /\ req.leaf \in Leaves /\ maker \in OpenOrders /\ channel \in OpenOrders
      /\ sold \in 0 .. RemainSellAmt(maker)
      /\ bought \in 0 .. RemainSellAmt(channel)
      /\ orders' = [orders EXCEPT ![req.leaf] = Kept(filled)]
      /\ channel' \in OpenOrders
      /\ channel'.signer = channel.signer /\ channel'.nonce = channel.nonce
      /\ nonces' = nonces
  BY <1>0, Zenon DEF Exchanged, accountVars
<1>3. bought \in Nat
  BY <1>2, OpenOrderFacts
<1>4. filled \in OpenOrders /\ filled.signer = maker.signer /\ filled.nonce = maker.nonce
  BY <1>2, <1>3, Filled
<1> HIDE DEF filled
<1>5. Kept(filled) = NoOrder \/ Kept(filled) = filled
  BY DEF Kept
<1>6. Kept(filled) \in Places /\ channel' \in Places
  BY <1>2, <1>4, <1>5 DEF Places
<1>7. OrdersTypeOK'
  BY <1>1, <1>2, <1>6 DEF OrdersTypeOK
<1>8. Kept(filled) = NoOrder \/ (maker # NoOrder /\ SameSignature(Kept(filled), maker))
  BY <1>2, <1>4, <1>5, OpenOrderFacts DEF SameSignature
<1>9. channel # NoOrder /\ SameSignature(channel', channel)
  BY <1>2, OpenOrderFacts DEF SameSignature
<1>10. ComesFrom(InSpots(orders', channel'), InSpots(orders, channel), [p \in Spots |-> p])
  BY <1>1, <1>2, <1>6, <1>8, <1>9, LeafRewritten
<1>11. SignedOnce(InSpots(orders', channel'), nonces)
  BY <1>10, SignaturesMove DEF SignatureInv
<1>12. QED
  BY <1>2, <1>7, <1>11, Zenon DEF SignatureInv

\* A cancellation takes an order away.
LEMMA CancelSigned ==
    ASSUME SignatureInv, NEW req \in OfType("Cancel"), DoReqCancel(req)
    PROVE  SignatureInv'
<1>1. req.leaf \in Leaves
  BY RequestFields
<1>2. nonces \in [Accounts -> Nat] /\ orders \in [Leaves -> Places] /\ channel = NoOrder
  BY DEF SignatureInv, OrdersTypeOK, DoReqCancel, OutsideMatch
<1>3. /\ orders' = [orders EXCEPT ![req.leaf] = NoOrder]
      /\ nonces' = nonces
      /\ channel' = NoOrder
  BY <1>2 DEF DoReqCancel, accountVars, OutsideMatch, matchVars
<1>4. OrdersTypeOK'
  BY <1>1, <1>2, <1>3 DEF OrdersTypeOK, Places
<1>5. ComesFrom(InSpots(orders', channel'), InSpots(orders, channel), [p \in Spots |-> p])
  BY <1>1, <1>2, <1>3, LeafRewritten DEF Places
<1>6. SignedOnce(InSpots(orders', channel'), nonces)
  BY <1>5, SignaturesMove DEF SignatureInv
<1>7. QED
  BY <1>3, <1>4, <1>6, Zenon DEF SignatureInv

\* A request that leaves nonces and orders alone.
LEMMA SignedIfKept ==
    ASSUME SignatureInv, UNCHANGED <<nonces, orders, channel>>
    PROVE  SignatureInv'
BY Zenon DEF SignatureInv, OrdersTypeOK

LEMMA SignaturesPreserved ==
    ASSUME SignatureInv, [Next]_vars
    PROVE  SignatureInv'
<1>1. CASE \E req \in OfType("Unknow") : DoReqUnknow(req)
  BY <1>1, SignedIfKept DEF DoReqUnknow, OutsideMatch, matchVars, accountVars
<1>2. CASE \E req \in OfType("Register") : DoReqRegister(req)
  BY <1>2, SignedIfKept DEF DoReqRegister, OutsideMatch, matchVars
<1>3. CASE \E req \in OfType("Deposit") : DoReqDeposit(req)
  BY <1>3, SignedIfKept DEF DoReqDeposit, OutsideMatch, matchVars, accountVars
<1>4. CASE \E req \in OfType("Withdraw") : DoReqWithdraw(req)
  BY <1>4, WithdrawSigned
<1>5. CASE \E req \in OfType("SecondLimitOrder") : DoReqSecondLimitOrder(req)
  BY <1>5, OrderStepSigned
<1>6. CASE \E req \in OfType("SecondLimitStart") : DoReqSecondLimitStart(req)
  BY <1>6, StartSigned
<1>7. CASE \E req \in OfType("SecondLimitExchange") : DoReqSecondLimitExchange(req)
  BY <1>7, ExchangeSigned
<1>8. CASE \E req \in OfType("SecondLimitEnd") : DoReqSecondLimitEnd(req)
  BY <1>8, EndSigned
<1>9. CASE \E req \in OfType("Cancel") : DoReqCancel(req)
  BY <1>9, CancelSigned
<1>10. CASE UNCHANGED vars
  BY <1>10, SignedIfKept DEF vars, accountVars, matchVars
<1>11. QED
  BY <1>1, <1>2, <1>3, <1>4, <1>5, <1>6, <1>7, <1>8, <1>9, <1>10 DEF Next

\* The signatures of the spots, said of leaves and channel.
LEMMA SignedIsOneOrder ==
    ASSUME SignatureInv
    PROVE  OneOrderPerSignature
<1> DEFINE f == InSpots(orders, channel)
<1>1. /\ f[0] = channel /\ 0 \in Spots
      /\ \A l \in Leaves : l \in Spots /\ l # 0 /\ f[l] = orders[l]
  BY ConstantAssumption DEF InSpots, Spots, Leaves
<1>2. SignedOnce(f, nonces)
  BY DEF SignatureInv
<1> HIDE DEF f
<1>3. \A k, l \in Leaves :
         /\ orders[k] # NoOrder /\ orders[l] # NoOrder
         /\ orders[k].signer = orders[l].signer /\ orders[k].nonce = orders[l].nonce
         => k = l
  BY <1>1, <1>2 DEF SignedOnce, SameSignature
<1>4. \A l \in Leaves : orders[l] # NoOrder => orders[l].nonce < nonces[orders[l].signer]
  BY <1>1, <1>2 DEF SignedOnce
<1>5. \A l \in Leaves :
         orders[l] # NoOrder /\ channel # NoOrder =>
             ~(orders[l].signer = channel.signer /\ orders[l].nonce = channel.nonce)
  BY <1>1, <1>2 DEF SignedOnce, SameSignature
<1>6. \A a, b, c, d : <<a, b>> = <<c, d>> => a = c /\ b = d
  OBVIOUS
<1>7. QED
  BY <1>3, <1>4, <1>5, <1>6, Zenon DEF OneOrderPerSignature

(***************************************************************************)
(* Whatever the requests are, a signed order is in the ledger once: two    *)
(* open orders of an account never share a nonce, in the tree or in the    *)
(* channel, and every one of them is below the account's next nonce.       *)
(***************************************************************************)
THEOREM SignaturesUsedOnce == Spec => []OneOrderPerSignature
<1>1. Init => SignatureInv
  <2> SUFFICES ASSUME Init
               PROVE  SignatureInv
    OBVIOUS
  <2>1. OrdersTypeOK
    BY DEF Init, OrdersTypeOK, Places
  <2>2. \A p \in Spots : InSpots(orders, channel)[p] = NoOrder
    BY ConstantAssumption DEF Init, InSpots, Spots, Leaves
  <2>3. QED
    BY <2>1, <2>2, Zenon DEF SignatureInv, SignedOnce
<1>2. SignatureInv /\ [Next]_vars => SignatureInv'
  BY SignaturesPreserved
<1>3. SignatureInv => OneOrderPerSignature
  BY SignedIsOneOrder
<1>4. QED
  BY <1>1, <1>2, <1>3, PTL DEF Spec

-----------------------------------------------------------------------------
(***************************************************************************)
(* Where the orders go: again for any requests.  With cancellations an     *)
(* amount may become negative, but it stays an integer.                    *)
(***************************************************************************)
AmountsInv ==
    /\ OrdersTypeOK
    /\ avlAmt \in [Accounts -> [Tokens -> Int]]
    /\ lockedAmt \in [Accounts -> [Tokens -> Int]]

\* What becomes of one order in a step.
StaysOpen(o) == \E later \in Open' : Continues(o, later)
NotLost(o) ==
    \/ StaysOpen(o)
    \/ o.accumulatedSellAmt = o.amount
    \/ lockedAmt[o.signer][o.token] - lockedAmt'[o.signer][o.token] = RemainSellAmt(o)
    \/ avlAmt'[o.signer][o.token] - avlAmt[o.signer][o.token] = o.amount

LEMMA SelfContinues ==
    ASSUME NEW o \in OpenOrders
    PROVE  Continues(o, o)
<1>1. o \in Orders
  BY OpenOrderFacts
<1>2. o = [o EXCEPT !.accumulatedSellAmt = o.accumulatedSellAmt,
                    !.accumulatedBuyAmt = o.accumulatedBuyAmt]
  BY <1>1 DEF Orders
<1>3. o.accumulatedSellAmt \in Int /\ o.accumulatedBuyAmt \in Int
  BY OpenOrderFacts
<1>4. QED
  BY <1>2, <1>3 DEF Continues

\* A fill continues the order it fills.
LEMMA FilledContinues ==
    ASSUME NEW o \in OpenOrders, NEW sold \in 0 .. RemainSellAmt(o), NEW bought \in Nat
    PROVE  Continues(o, Fill(o, sold, bought))
<1> DEFINE filled == Fill(o, sold, bought)
           x == o.accumulatedSellAmt + sold
           y == o.accumulatedBuyAmt + bought
<1>1. /\ x \in Int /\ y \in Int /\ x >= o.accumulatedSellAmt /\ y >= o.accumulatedBuyAmt
      /\ o \in Orders
  BY OpenOrderFacts DEF RemainSellAmt
<1>2. filled = [o EXCEPT !.accumulatedSellAmt = x, !.accumulatedBuyAmt = y]
  BY Zenon DEF Fill
<1> HIDE DEF x, y, filled
<1>3. filled.accumulatedSellAmt = x /\ filled.accumulatedBuyAmt = y
  BY <1>1, <1>2 DEF Orders
<1>4. Continues(o, filled)
  BY <1>1, <1>2, <1>3 DEF Continues
<1>5. QED
  BY <1>4, Zenon DEF filled

\* The open orders are those of the leaves and the channel.
LEMMA OpenIs ==
    ASSUME OrdersTypeOK, NEW o
    PROVE  o \in Open <=> o \in OpenOrders /\ ((\E l \in Leaves : o = orders[l]) \/ o = channel)
BY NoOrderAssumption DEF OrdersTypeOK, Places, Open, OpenOrders

\* An order in the same state in some spot is open as before.
LEMMA StillThere ==
    ASSUME NEW o \in OpenOrders, o \in Open'
    PROVE  StaysOpen(o)
BY SelfContinues DEF StaysOpen

\* A step that keeps the channel and all leaves, or one leaf but for NoOrder.
LEMMA OrdersUntouched ==
    ASSUME OrdersTypeOK, channel' = channel, NEW o \in Open,
           \A l \in Leaves : orders[l] # NoOrder => orders'[l] = orders[l]
    PROVE  NotLost(o)
<1>1. o \in OpenOrders /\ o # NoOrder
  BY OpenIs, OpenOrderFacts
<1>2. o \in Open'
  BY <1>1 DEF Open
<1>3. QED
  BY <1>1, <1>2, StillThere DEF NotLost

\* One amount changed leaves a table of integers and moves by the difference.
LEMMA AmountChanged ==
    ASSUME NEW amt \in [Accounts -> [Tokens -> Int]], NEW a \in Accounts, NEW t \in Tokens,
           NEW x \in Int
    PROVE  /\ [amt EXCEPT ![a][t] = @ + x] \in [Accounts -> [Tokens -> Int]]
           /\ [amt EXCEPT ![a][t] = @ - x] \in [Accounts -> [Tokens -> Int]]
           /\ [amt EXCEPT ![a][t] = @ + x][a][t] - amt[a][t] = x
           /\ amt[a][t] - [amt EXCEPT ![a][t] = @ - x][a][t] = x
<1>1. amt[a][t] \in Int
  OBVIOUS
<1>2. amt[a][t] + x \in Int /\ amt[a][t] - x \in Int
  BY <1>1
<1>3. /\ [amt EXCEPT ![a][t] = @ + x][a][t] = amt[a][t] + x
      /\ [amt EXCEPT ![a][t] = @ - x][a][t] = amt[a][t] - x
  OBVIOUS
<1>4. /\ [amt EXCEPT ![a][t] = @ + x] \in [Accounts -> [Tokens -> Int]]
      /\ [amt EXCEPT ![a][t] = @ - x] \in [Accounts -> [Tokens -> Int]]
  BY <1>2
<1>5. QED
  BY <1>1, <1>3, <1>4

\* A new order takes a leaf that is free, so no open order's.
LEMMA OrderPlaced ==
    ASSUME AmountsInv, OrdersTypeOK', NEW req \in OfType("SecondLimitOrder"),
           DoReqSecondLimitOrder(req)
    PROVE  AmountsInv' /\ \A o \in Open : NotLost(o)
<1>1. /\ req.signer \in Accounts /\ req.token \in Tokens /\ req.amount \in Int /\ req.leaf \in Leaves
  BY RequestFields
<1>2. /\ avlAmt' = [avlAmt EXCEPT ![req.signer][req.token] = @ - req.amount]
      /\ lockedAmt' = [lockedAmt EXCEPT ![req.signer][req.token] = @ + req.amount]
      /\ orders' = [orders EXCEPT ![req.leaf] = NewOrder(req)]
      /\ orders[req.leaf] = NoOrder
      /\ channel' = channel
  BY DEF DoReqSecondLimitOrder, OutsideMatch, matchVars, LeafIsFree
<1>3. AmountsInv'
  BY <1>1, <1>2, AmountChanged DEF AmountsInv
<1>4. \A l \in Leaves : orders[l] # NoOrder => orders'[l] = orders[l]
  BY <1>1, <1>2 DEF AmountsInv, OrdersTypeOK
<1>5. QED
  BY <1>2, <1>3, <1>4, OrdersUntouched DEF AmountsInv

\* The whole amount of the order of the leaf is refunded.
LEMMA OrderCancelled ==
    ASSUME AmountsInv, OrdersTypeOK', NEW req \in OfType("Cancel"), DoReqCancel(req)
    PROVE  AmountsInv' /\ \A o \in Open : NotLost(o)
<1> DEFINE order == orders[req.leaf]
<1>1. req.leaf \in Leaves
  BY RequestFields
<1>2. /\ order # NoOrder
      /\ orders' = [orders EXCEPT ![req.leaf] = NoOrder]
      /\ avlAmt' = [avlAmt EXCEPT ![order.signer][order.token] = @ + order.amount]
      /\ lockedAmt' = [lockedAmt EXCEPT ![order.signer][order.token] = @ - order.amount]
      /\ channel' = channel
  BY DEF DoReqCancel, OutsideMatch, matchVars
<1>3. order \in OpenOrders
  BY <1>1, <1>2 DEF AmountsInv, OrdersTypeOK, Places
<1>4. order.signer \in Accounts /\ order.token \in Tokens /\ order.amount \in Int
  BY <1>3, OpenOrderFacts
<1> HIDE DEF order
<1>5. AmountsInv' /\ avlAmt'[order.signer][order.token] - avlAmt[order.signer][order.token] = order.amount
  BY <1>2, <1>4, AmountChanged DEF AmountsInv
<1>6. ASSUME NEW o \in Open PROVE NotLost(o)
  <2>1. o \in OpenOrders /\ o # NoOrder
    BY OpenIs, OpenOrderFacts DEF AmountsInv
  <2>2. CASE o = order
    BY <1>5, <2>2 DEF NotLost
  <2>3. CASE o # order
    <3>1. ASSUME NEW l \in Leaves, o = orders[l] PROVE o = orders'[l]
      BY <1>1, <1>2, <2>3, <3>1 DEF AmountsInv, OrdersTypeOK, order
    <3>2. o \in Open'
      BY <1>2, <2>1, <3>1 DEF Open
    <3>3. QED
      BY <2>1, <3>2, StillThere DEF NotLost
  <2>4. QED
    BY <2>2, <2>3
<1>7. QED
  BY <1>5, <1>6

\* The order of the leaf goes to the channel.
LEMMA OrderStarted ==
    ASSUME AmountsInv, OrdersTypeOK', NEW req \in OfType("SecondLimitStart"),
           DoReqSecondLimitStart(req)
    PROVE  AmountsInv' /\ \A o \in Open : NotLost(o)
<1>1. req.leaf \in Leaves
  BY RequestFields
<1>2. /\ orders' = [orders EXCEPT ![req.leaf] = NoOrder]
      /\ channel = NoOrder /\ channel' = orders[req.leaf]
      /\ UNCHANGED <<avlAmt, lockedAmt>>
  BY DEF DoReqSecondLimitStart, tokenVars
<1>3. ASSUME NEW o \in Open PROVE NotLost(o)
  <2>1. o \in OpenOrders /\ o # NoOrder
    BY OpenIs, OpenOrderFacts DEF AmountsInv
  <2>2. PICK l \in Leaves : o = orders[l]
    BY <1>2, <2>1, OpenIs DEF AmountsInv
  <2>3. o = orders'[l] \/ o = channel'
    BY <1>1, <1>2, <2>2 DEF AmountsInv, OrdersTypeOK
  <2>4. o \in Open'
    BY <2>1, <2>3 DEF Open
  <2>5. QED
    BY <2>1, <2>4, StillThere DEF NotLost
<1>4. QED
  BY <1>2, <1>3 DEF AmountsInv

\* The order of the channel goes to a leaf, unless all of it is sold.
LEMMA OrderEnded ==
    ASSUME AmountsInv, OrdersTypeOK', NEW req \in OfType("SecondLimitEnd"),
           DoReqSecondLimitEnd(req), TakerBuyAmt \in Int, TakerSellAmt \in Int
    PROVE  AmountsInv' /\ \A o \in Open : NotLost(o)
<1>1. req.leaf \in Leaves
  BY RequestFields
<1>2. /\ orders' = [orders EXCEPT ![req.leaf] = Kept(channel)]
      /\ orders[req.leaf] = NoOrder /\ channel # NoOrder
      /\ avlAmt' = [avlAmt EXCEPT ![channel.signer][channel.buyToken] = @ + TakerBuyAmt]
      /\ lockedAmt' = [lockedAmt EXCEPT ![channel.signer][channel.token] = @ - TakerSellAmt]
  BY DEF DoReqSecondLimitEnd, LeafIsFree
<1>3. channel \in OpenOrders
  BY <1>2 DEF AmountsInv, OrdersTypeOK, Places
<1>4. channel.signer \in Accounts /\ channel.token \in Tokens /\ channel.buyToken \in Tokens
  BY <1>3, OpenOrderFacts
<1>5. AmountsInv'
  <2> DEFINE x == TakerBuyAmt
             y == TakerSellAmt
  <2>1. x \in Int /\ y \in Int
    OBVIOUS
  <2>2. /\ avlAmt' = [avlAmt EXCEPT ![channel.signer][channel.buyToken] = @ + x]
        /\ lockedAmt' = [lockedAmt EXCEPT ![channel.signer][channel.token] = @ - y]
    BY <1>2
  <2> HIDE DEF x, y
  <2>3. QED
    BY <1>4, <2>1, <2>2, AmountChanged DEF AmountsInv
<1>6. ASSUME NEW o \in Open PROVE NotLost(o)
  <2>1. o \in OpenOrders /\ o # NoOrder
    BY OpenIs, OpenOrderFacts DEF AmountsInv
  <2>2. CASE o = channel /\ o.accumulatedSellAmt = o.amount
    BY <2>2 DEF NotLost
  <2>3. CASE o = channel /\ o.accumulatedSellAmt # o.amount
    <3>1. o = orders'[req.leaf]
      BY <1>1, <1>2, <2>3 DEF Kept, AmountsInv, OrdersTypeOK
    <3>2. o \in Open'
      BY <1>1, <2>1, <3>1 DEF Open
    <3>3. QED
      BY <2>1, <3>2, StillThere DEF NotLost
  <2>4. CASE o # channel
    <3>1. PICK l \in Leaves : o = orders[l]
      BY <2>4, OpenIs DEF AmountsInv
    <3>2. o = orders'[l]
      BY <1>1, <1>2, <2>1, <3>1 DEF AmountsInv, OrdersTypeOK
    <3>3. o \in Open'
      BY <2>1, <3>2 DEF Open
    <3>4. QED
      BY <2>1, <3>3, StillThere DEF NotLost
  <2>5. QED
    BY <2>2, <2>3, <2>4
<1>7. QED
  BY <1>5, <1>6

\* Both orders go on, or the maker has unlocked all it had left to sell.
LEMMA OrderExchanged ==
    ASSUME AmountsInv, OrdersTypeOK', NEW req \in OfType("SecondLimitExchange"),
           DoReqSecondLimitExchange(req)
    PROVE  AmountsInv' /\ \A o \in Open : NotLost(o)
<1>0. PICK sold, bought : Exchanged(req, sold, bought)
  BY ExchangeFacts DEF AmountsInv
<1> DEFINE maker == orders[req.leaf]
<1>1. /\ req.leaf \in Leaves /\ maker \in OpenOrders /\ channel \in OpenOrders
      /\ sold \in 0 .. RemainSellAmt(maker) /\ bought \in 0 .. RemainSellAmt(channel)
      /\ orders' = [orders EXCEPT ![req.leaf] = Kept(Fill(maker, sold, bought))]
      /\ avlAmt' = [avlAmt EXCEPT ![maker.signer][maker.buyToken] = @ + bought]
      /\ lockedAmt' = [lockedAmt EXCEPT ![maker.signer][maker.token] = @ - sold]
  BY <1>0, Zenon DEF Exchanged
<1>2. channel' = Fill(channel, bought, maker.amount)
  BY <1>0, Zenon DEF Exchanged
<1>3. /\ maker.signer \in Accounts /\ maker.token \in Tokens /\ maker.buyToken \in Tokens
      /\ maker.amount \in Nat /\ sold \in Nat /\ bought \in Nat
      /\ maker.accumulatedSellAmt \in Int /\ RemainSellAmt(maker) \in Int
  BY <1>1, OpenOrderFacts
<1>4. /\ Continues(channel, channel') /\ channel' \in OpenOrders
      /\ Continues(maker, Fill(maker, sold, bought)) /\ Fill(maker, sold, bought) \in OpenOrders
      /\ Fill(maker, sold, bought).amount = maker.amount
      /\ Fill(maker, sold, bought).accumulatedSellAmt = maker.accumulatedSellAmt + sold
  BY <1>1, <1>2, <1>3, FilledContinues, Filled
<1>5. AmountsInv' /\ lockedAmt[maker.signer][maker.token] - lockedAmt'[maker.signer][maker.token] = sold
  <2> HIDE DEF maker
  <2>1. QED
    BY <1>1, <1>3, AmountChanged DEF AmountsInv
<1>6. ASSUME NEW o \in Open PROVE NotLost(o)
  <2>1. o \in OpenOrders /\ o # NoOrder
    BY OpenIs, OpenOrderFacts DEF AmountsInv
  <2>2. CASE o = channel
    <3>1. channel' \in Open'
      BY <1>4, OpenOrderFacts DEF Open
    <3>2. QED
      BY <1>4, <2>2, <3>1 DEF NotLost, StaysOpen
  <2>3. CASE o = maker /\ maker.accumulatedSellAmt + sold = maker.amount
    <3>1. sold = RemainSellAmt(maker)
      BY <1>3, <2>3 DEF RemainSellAmt
    <3>2. QED
      BY <1>5, <2>3, <3>1 DEF NotLost
  <2>4. CASE o = maker /\ maker.accumulatedSellAmt + sold # maker.amount
    <3>1. orders'[req.leaf] = Fill(maker, sold, bought)
      BY <1>1, <1>4, <2>4 DEF Kept, AmountsInv, OrdersTypeOK
    <3>2. Fill(maker, sold, bought) \in Open'
      BY <1>1, <1>4, <3>1, OpenOrderFacts DEF Open
    <3>3. QED
      BY <1>4, <2>4, <3>2 DEF NotLost, StaysOpen
  <2>5. CASE o # channel /\ o # maker
    <3>1. PICK l \in Leaves : o = orders[l]
      BY <2>5, OpenIs DEF AmountsInv
    <3>2. o = orders'[l]
      BY <1>1, <2>5, <3>1 DEF AmountsInv, OrdersTypeOK
    <3>3. o \in Open'
      BY <2>1, <3>2 DEF Open
    <3>4. QED
      BY <2>1, <3>3, StillThere DEF NotLost
  <2>6. QED
    BY <2>2, <2>3, <2>4, <2>5
<1>7. QED
  BY <1>5, <1>6

\* The amounts with which a match started are integers.
StartTyped == atStart \in [sell : Int, buy : Int]

LEMMA StartTypedKept ==
    ASSUME OrdersTypeOK, StartTyped, [Next]_vars
    PROVE  StartTyped'
<1>1. CASE OutsideMatch \/ UNCHANGED vars
  BY <1>1 DEF OutsideMatch, matchVars, vars, StartTyped
<1>2. None \in [sell : Int, buy : Int]
  BY DEF None
<1>3. CASE \E req \in OfType("SecondLimitStart") : DoReqSecondLimitStart(req)
  <2>1. PICK req \in OfType("SecondLimitStart") : DoReqSecondLimitStart(req)
    BY <1>3
  <2> DEFINE order == orders[req.leaf]
  <2>2. order # NoOrder =>
            order.accumulatedSellAmt \in Int /\ order.accumulatedBuyAmt \in Int
    BY RequestFields, OpenOrderFacts DEF OrdersTypeOK, Places
  <2>3. atStart' = IF order = NoOrder THEN None
                   ELSE [sell |-> order.accumulatedSellAmt, buy |-> order.accumulatedBuyAmt]
    BY <2>1 DEF DoReqSecondLimitStart
  <2> HIDE DEF order
  <2>4. QED
    BY <1>2, <2>2, <2>3 DEF StartTyped
<1>4. CASE \E req \in OfType("SecondLimitExchange") : DoReqSecondLimitExchange(req)
  BY <1>4 DEF DoReqSecondLimitExchange, StartTyped
<1>5. CASE \E req \in OfType("SecondLimitEnd") : DoReqSecondLimitEnd(req)
  BY <1>2, <1>5 DEF DoReqSecondLimitEnd, StartTyped
<1>6. QED
  BY <1>1, <1>3, <1>4, <1>5
     DEF Next, DoReqUnknow, DoReqRegister, DoReqDeposit, DoReqWithdraw, DoReqSecondLimitOrder, DoReqCancel

\* What the End takes is an integer, whatever was cancelled before.
LEMMA TakenIsInteger ==
    ASSUME OrdersTypeOK, StartTyped, channel # NoOrder
    PROVE  TakerBuyAmt \in Int /\ TakerSellAmt \in Int
<1>1. channel.accumulatedSellAmt \in Int /\ channel.accumulatedBuyAmt \in Int
  BY OpenOrderFacts DEF OrdersTypeOK, Places
<1>2. atStart.sell \in Int /\ atStart.buy \in Int
  BY DEF StartTyped
<1>3. QED
  BY <1>1, <1>2 DEF TakerBuyAmt, TakerSellAmt

\* No request loses an open order.
LEMMA OrdersKept ==
    ASSUME AmountsInv, OrdersTypeOK', StartTyped, [Next]_vars
    PROVE  AmountsInv' /\ \A o \in Open : NotLost(o)
<1>1. CASE UNCHANGED <<orders, channel, avlAmt, lockedAmt>>
  BY <1>1, OrdersUntouched DEF AmountsInv
<1>2. CASE \E req \in OfType("Unknow") : DoReqUnknow(req)
  BY <1>1, <1>2 DEF DoReqUnknow, OutsideMatch, matchVars, tokenVars
<1>3. CASE \E req \in OfType("Register") : DoReqRegister(req)
  BY <1>1, <1>3 DEF DoReqRegister, OutsideMatch, matchVars, tokenVars
<1>4. CASE \E req \in OfType("Deposit") : DoReqDeposit(req)
  <2>1. PICK req \in OfType("Deposit") : DoReqDeposit(req)
    BY <1>4
  <2>2. /\ req.account \in Accounts /\ req.token \in Tokens /\ req.amount \in Int
        /\ avlAmt' = [avlAmt EXCEPT ![req.account][req.token] = @ + req.amount]
        /\ UNCHANGED <<orders, channel, lockedAmt>>
    BY <2>1, RequestFields DEF DoReqDeposit, OutsideMatch, matchVars
  <2>3. AmountsInv'
    BY <2>2, AmountChanged DEF AmountsInv
  <2>4. QED
    BY <2>2, <2>3, OrdersUntouched DEF AmountsInv
<1>5. CASE \E req \in OfType("Withdraw") : DoReqWithdraw(req)
  <2>1. PICK req \in OfType("Withdraw") : DoReqWithdraw(req)
    BY <1>5
  <2>2. /\ req.signer \in Accounts /\ req.token \in Tokens /\ req.amount \in Int
        /\ avlAmt' = [avlAmt EXCEPT ![req.signer][req.token] = @ - req.amount]
        /\ UNCHANGED <<orders, channel, lockedAmt>>
    BY <2>1, RequestFields DEF DoReqWithdraw, OutsideMatch, matchVars
  <2>3. AmountsInv'
    BY <2>2, AmountChanged DEF AmountsInv
  <2>4. QED
    BY <2>2, <2>3, OrdersUntouched DEF AmountsInv
<1>6. CASE \E req \in OfType("SecondLimitOrder") : DoReqSecondLimitOrder(req)
  BY <1>6, OrderPlaced
<1>7. CASE \E req \in OfType("SecondLimitStart") : DoReqSecondLimitStart(req)
  BY <1>7, OrderStarted
<1>8. CASE \E req \in OfType("SecondLimitExchange") : DoReqSecondLimitExchange(req)
  BY <1>8, OrderExchanged
<1>9. CASE \E req \in OfType("SecondLimitEnd") : DoReqSecondLimitEnd(req)
  <2>1. channel # NoOrder
    BY <1>9 DEF DoReqSecondLimitEnd
  <2>2. QED
    BY <1>9, <2>1, TakenIsInteger, OrderEnded DEF AmountsInv
<1>10. CASE \E req \in OfType("Cancel") : DoReqCancel(req)
  BY <1>10, OrderCancelled
<1>11. CASE UNCHANGED vars
  BY <1>1, <1>11 DEF vars, matchVars, tokenVars
<1>12. QED
  BY <1>2, <1>3, <1>4, <1>5, <1>6, <1>7, <1>8, <1>9, <1>10, <1>11 DEF Next

(***************************************************************************)
(* Whatever the requests are, cancellations and matches that move orders   *)
(* between leaves and the channel among them, an open order stays open, no *)
(* less filled, until all of it is sold or its whole amount is refunded.   *)
(***************************************************************************)
THEOREM OrdersNeverLost == Spec => NoOrderLost
<1> DEFINE Inv == SignatureInv /\ AmountsInv /\ StartTyped
           Step == \A o \in Open : NotLost(o)
<1>1. Init => Inv
  <2> SUFFICES ASSUME Init
               PROVE  Inv
    OBVIOUS
  <2>1. OrdersTypeOK
    BY DEF Init, OrdersTypeOK, Places
  <2>2. \A p \in Spots : InSpots(orders, channel)[p] = NoOrder
    BY ConstantAssumption DEF Init, InSpots, Spots, Leaves
  <2>3. SignatureInv
    BY <2>1, <2>2, Zenon DEF SignatureInv, SignedOnce
  <2>4. /\ avlAmt \in [Accounts -> [Tokens -> Int]]
        /\ lockedAmt \in [Accounts -> [Tokens -> Int]]
        /\ StartTyped
    BY DEF Init, None, StartTyped
  <2>5. QED
    BY <2>1, <2>3, <2>4 DEF AmountsInv
<1>2. Inv /\ [Next]_vars => Inv' /\ Step
  <2> SUFFICES ASSUME Inv, [Next]_vars
               PROVE  Inv' /\ Step
    OBVIOUS
  <2>1. SignatureInv'
    BY SignaturesPreserved
  <2>2. OrdersTypeOK'
    BY <2>1 DEF SignatureInv
  <2>3. QED
    BY <2>1, <2>2, OrdersKept, StartTypedKept DEF AmountsInv
<1>3. Spec => [][Step]_vars
  BY <1>1, <1>2, PTL DEF Spec
<1>4. QED
  BY <1>3 DEF NoOrderLost, NotLost, StaysOpen
=============================================================================
