----------------------------- MODULE MCL2Ledger -----------------------------
(***************************************************************************)
(* Small instances of the L2 ledger for TLC.                               *)
(***************************************************************************)
EXTENDS L2Ledger

CONSTANTS eth, usd

\* Account 1 brings eth to sell, account 2 usd.
Setup ==
    {[reqType |-> "Register", account |-> a] : a \in Accounts} \cup
    {[reqType |-> "Deposit", account |-> 1, token |-> eth, amount |-> 4],
     [reqType |-> "Deposit", account |-> 2, token |-> usd, amount |-> 4]}

Order(signer, token, amount, buyToken, buyAmt, leaf) ==
    [reqType |-> "SecondLimitOrder", signer |-> signer, token |-> token, amount |-> amount,
     buyToken |-> buyToken, buyAmt |-> buyAmt, leaf |-> leaf]

\* Asks of eth and bids for it that can match: whole, in part, with rounding.
LimitOrders ==
    {Order(1, eth, x, usd, y, l) : x \in {2, 3}, y \in {1, 2}, l \in {1, 2}} \cup
    {Order(2, usd, x, eth, y, l) : x \in {1, 3}, y \in {1, 2}, l \in {1, 2}}

OfLeaves(reqTypes) == {[reqType |-> r, leaf |-> l] : r \in reqTypes, l \in Leaves}

MatchRequests ==
    Setup \cup LimitOrders \cup
    OfLeaves({"SecondLimitStart", "SecondLimitExchange", "SecondLimitEnd"}) \cup
    {[reqType |-> "Withdraw", signer |-> 1, token |-> eth, amount |-> 1],
     [reqType |-> "Unknow"]}

\* Any order may be cancelled.
CancelRequests == MatchRequests \cup OfLeaves({"Cancel"})
=============================================================================
