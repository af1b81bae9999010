------------------------- MODULE MCSequencerLedger -------------------------
(***************************************************************************)
(* Two users who bring eth and usd, their orders, and the matcher's rows.  *)
(***************************************************************************)
EXTENDS SequencerLedger

CONSTANTS eth, usd

Order(signer, token, amount, buyToken, buyAmt) ==
    [reqType |-> "SecondLimitOrder", signer |-> signer, token |-> token, amount |-> amount,
     buyToken |-> buyToken, buyAmt |-> buyAmt]

MCRows ==
    {[reqType |-> "Register", account |-> a] : a \in Accounts} \cup
    {[reqType |-> "Deposit", account |-> 1, token |-> eth, amount |-> 4],
     [reqType |-> "Deposit", account |-> 2, token |-> usd, amount |-> 4],
     [reqType |-> "Withdraw", signer |-> 1, token |-> eth, amount |-> 1],
     Order(1, eth, 2, usd, 2), Order(2, usd, 3, eth, 3)} \cup
    {[reqType |-> r, leaf |-> l] :
        r \in {"SecondLimitStart", "SecondLimitExchange", "SecondLimitEnd"}, l \in Leaves}
=============================================================================
