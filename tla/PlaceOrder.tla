---------------------------- MODULE PlaceOrder ----------------------------
(***************************************************************************)
(* Orders of one account that sell one token: the API checks them against  *)
(* what is available (transaction.controller.ts, available.service.ts, the *)
(* AvailableView) and inserts a row, the sequencer                         *)
(* (sequencer.processor.ts, doSecondLimitOrder) locks the amount later and *)
(* checks nothing.  Both write the leaf of the account: its amounts are    *)
(* the sequencer's, its nonce is written by both.                          *)
(***************************************************************************)
EXTENDS Integers, Sequences, FiniteSets, PrefixSums

CONSTANTS
    Requests,    \* calls of placeOrder that may run at the same time
    Amounts,     \* what an order may sell and a deposit may bring
    MaxOrders,   \* bound: rows
    MaxDeposits, \* bound: deposits
    MaxMishaps   \* bound: restarts of the sequencer and jobs that throw

ASSUME PlaceOrderAssumption ==
    /\ Amounts \subseteq Nat
    /\ MaxOrders \in Nat /\ MaxDeposits \in Nat /\ MaxMishaps \in Nat

VARIABLES
    availableAmt,  \* TokenLeafNode
    lockedAmt,
    nonce,         \* AccountLeafNode
    rows,          \* the orders' rows of TransactionInfo; "locks" counts how
                   \* often the sequencer has locked the amount
    request,       \* request -> where it is and what it has read
    job,           \* the sequencer's job
    past           \* what has happened, for the properties

leafVars == <<availableAmt, lockedAmt, nonce>>
vars == <<leafVars, rows, request, job, past>>

NoRequest == [pc |-> "idle", amount |-> 0, nonce |-> {}, view |-> {}, list |-> {}]
NoJob == [pc |-> "idle", txId |-> 0, amount |-> 0, from |-> 0, origin |-> 0]

Init ==
    /\ availableAmt = 0 /\ lockedAmt = 0 /\ nonce = 0
    /\ rows = <<>>
    /\ request = [r \in Requests |-> NoRequest]
    /\ job = NoJob
    /\ past = [deposits |-> 0, mishaps |-> 0, bumps |-> 0, raced |-> FALSE, overlapped |-> FALSE]

-----------------------------------------------------------------------------
(* What the API reads.                                                     *)

\* Fault: the view leaves out the rows that are being processed.
IsPendingOnly(t) == rows[t].txStatus = "PENDING"
IsPending(t) == rows[t].txStatus \in {"PENDING", "PROCESSING"}
PendingOrders == {t \in DOMAIN rows : IsPending(t)}

AmountOf(orders) ==
    Total([t \in DOMAIN rows |-> IF t \in orders THEN rows[t].amount ELSE 0])

\* No row when there is no pending order, as the view is a join with them.
AvailableView ==
    IF PendingOrders = {} THEN {}
    ELSE {availableAmt - AmountOf(PendingOrders)}

\* What the view shows, or else what the leaf holds.
TheOnly(S) == CHOOSE n \in S : TRUE
Listed(view) == IF view = {} THEN availableAmt ELSE TheOnly(view)

-----------------------------------------------------------------------------
(* placeOrder.                                                             *)

InFlight == {r \in Requests : request[r].pc # "idle"}

\* The sequencer is at work on the account.
InHand == {"taken", "read", "locked", "done"}

placeOrder(r, amount) ==
    /\ request[r].pc = "idle"
    /\ Len(rows) + Cardinality(InFlight) < MaxOrders
    /\ request' = [request EXCEPT ![r].pc = "asking", ![r].amount = amount]
    /\ past' = [past EXCEPT !.raced = @ \/ InFlight # {},
                            !.overlapped = @ \/ job.pc \in InHand]
    /\ UNCHANGED <<leafVars, rows, job>>

\* Promise.all: the account's leaf and the available amounts, in any order;
\* of these first the view and then the token's leaf.
FindAccountLeaf(r) ==
    /\ request[r].pc = "asking"
    /\ request[r].nonce = {}
    /\ request' = [request EXCEPT ![r].nonce = {nonce}]
    /\ UNCHANGED <<leafVars, rows, job, past>>

FindAvailableView(r) ==
    /\ request[r].pc = "asking"
    /\ request' = [request EXCEPT ![r].pc = "viewed", ![r].view = AvailableView]
    /\ UNCHANGED <<leafVars, rows, job, past>>

FindTokenLeaf(r) ==
    /\ request[r].pc = "viewed"
    /\ request' = [request EXCEPT ![r].pc = "listed", ![r].list = {Listed(request[r].view)}]
    /\ UNCHANGED <<leafVars, rows, job, past>>

\* Fault: the leaf's amount is compared, whatever the view shows.
EnoughInLeaf(r) == availableAmt >= request[r].amount
Enough(r) == TheOnly(request[r].list) >= request[r].amount

BothAnswered(r) == request[r].pc = "listed" /\ request[r].nonce # {}

\* BadRequestException: not enough availabe balance
Reject(r) ==
    /\ BothAnswered(r)
    /\ ~Enough(r)
    /\ request' = [request EXCEPT ![r] = NoRequest]
    /\ UNCHANGED <<leafVars, rows, job, past>>

\* Fault: the nonce is written as it was read.
NextNonceKept(n) == n
NextNonce(n) == n + 1

\* The transaction: the order's row, and the nonce of the account's leaf.
Insert(r) ==
    /\ BothAnswered(r)
    /\ Enough(r)
    /\ rows' = Append(rows, [amount |-> request[r].amount, txStatus |-> "PENDING", locks |-> 0])
    /\ nonce' = NextNonce(TheOnly(request[r].nonce))
    /\ request' = [request EXCEPT ![r] = NoRequest]
    /\ UNCHANGED <<availableAmt, lockedAmt, job, past>>

-----------------------------------------------------------------------------
(* The sequencer, one job at a time.  txId 0 is a deposit of the account.  *)

SetStatus(t, status) == [rows EXCEPT ![t].txStatus = status]

\* The job takes its row and reads the account ("from").
Take(t, amount) ==
    /\ job' = [pc |-> "taken", txId |-> t, amount |-> amount, from |-> nonce, origin |-> 0]
    /\ rows' = IF t = 0 THEN rows ELSE SetStatus(t, "PROCESSING")
    /\ UNCHANGED <<leafVars, request>>

Overlaps(p) == [p EXCEPT !.overlapped = @ \/ InFlight # {}]

TakeOrder(t) ==
    /\ job.pc = "idle"
    /\ rows[t].txStatus = "PENDING"
    /\ \A u \in 1 .. t - 1 : rows[u].txStatus # "PENDING"
    /\ Take(t, rows[t].amount)
    /\ past' = Overlaps(past)

TakeDeposit(amount) ==
    /\ job.pc = "idle"
    /\ past.deposits < MaxDeposits
    /\ Take(0, amount)
    /\ past' = Overlaps([past EXCEPT !.deposits = @ + 1])

\* After a restart the job in hand is found stalled and runs again.
TakeStalled ==
    /\ job.pc = "stalled"
    /\ Take(job.txId, job.amount)
    /\ past' = Overlaps(past)

\* _updateLeaf of the account tree reads the account's leaf (originValue) ...
ReadOrigin ==
    /\ job.pc = "taken"
    /\ job' = [job EXCEPT !.pc = "read", !.origin = nonce]
    /\ UNCHANGED <<leafVars, rows, request, past>>

\* ... and writes it back, in one transaction with the token's amounts.
UpdateAccountToken ==
    LET t == job.txId
    IN  /\ job.pc = "read"
        /\ availableAmt' = IF t = 0 THEN availableAmt + job.amount ELSE availableAmt - job.amount
        /\ lockedAmt' = IF t = 0 THEN lockedAmt ELSE lockedAmt + job.amount
        /\ nonce' = job.origin
        /\ rows' = IF t = 0 THEN rows ELSE [rows EXCEPT ![t].locks = @ + 1]
        /\ job' = IF t = 0 THEN NoJob ELSE [job EXCEPT !.pc = "locked"]
        /\ UNCHANGED <<request, past>>

UpdateAccountNonce ==
    /\ job.pc = "locked"
    /\ nonce' = job.from + 1
    /\ job' = [job EXCEPT !.pc = "done"]
    /\ past' = [past EXCEPT !.bumps = @ + 1]
    /\ UNCHANGED <<availableAmt, lockedAmt, rows, request>>

MarkExecuted ==
    /\ job.pc = "done"
    /\ rows' = SetStatus(job.txId, "L2EXECUTED")
    /\ job' = NoJob
    /\ UNCHANGED <<leafVars, request, past>>

\* A job that throws, before or after what it writes, leaves its row as it is.
FailJob ==
    /\ job.pc \in InHand
    /\ past.mishaps < MaxMishaps
    /\ job' = NoJob
    /\ past' = [past EXCEPT !.mishaps = @ + 1]
    /\ UNCHANGED <<leafVars, rows, request>>

RestartSequencer ==
    /\ job.pc \in InHand
    /\ past.mishaps < MaxMishaps
    /\ job' = [job EXCEPT !.pc = "stalled"]
    /\ past' = [past EXCEPT !.mishaps = @ + 1]
    /\ UNCHANGED <<leafVars, rows, request>>

-----------------------------------------------------------------------------
Next ==
    \/ \E r \in Requests, amount \in Amounts : placeOrder(r, amount)
    \/ \E r \in Requests :
          FindAccountLeaf(r) \/ FindAvailableView(r) \/ FindTokenLeaf(r) \/ Reject(r) \/ Insert(r)
    \/ \E t \in DOMAIN rows : TakeOrder(t)
    \/ \E amount \in Amounts : TakeDeposit(amount)
    \/ TakeStalled
    \/ ReadOrigin
    \/ UpdateAccountToken
    \/ UpdateAccountNonce
    \/ MarkExecuted
    \/ FailJob
    \/ RestartSequencer

Spec == Init /\ [][Next]_vars

-----------------------------------------------------------------------------
Unlocked == {t \in DOMAIN rows : rows[t].locks = 0}
RanTwice == \E t \in DOMAIN rows : rows[t].locks > 1

\* The sequencer locks without a check.  It still never locks more than there
\* is, for any overlap of one request's reads with jobs that lock, fail and
\* run again: only two requests at once, or a job that ran twice, overcommit.
OvercommitOnlyIfRaced ==
    past.raced \/ RanTwice \/ AmountOf(Unlocked) <= availableAmt

\* What a request has been shown is still there when it decides, though the
\* two tables were read one after the other and the sequencer went on between:
\* it is never more than what the orders not yet locked leave.
Shown(r) == IF request[r].pc = "listed" THEN TheOnly(request[r].list) ELSE Listed(request[r].view)
ShownStaysTrue ==
    past.raced \/ RanTwice \/
        \A r \in Requests :
            request[r].pc \in {"viewed", "listed"} => Shown(r) <= availableAmt - AmountOf(Unlocked)

\* Placing an order raises the nonce of the account's leaf and so does
\* executing it, unless a request overlapped a job or another request.  (The
\* circuit raises the nonce once, and asks that the order's is the leaf's.)
NonceCountsTwice ==
    past.raced \/ past.overlapped \/ nonce = Len(rows) + past.bumps
=============================================================================
