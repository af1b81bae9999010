-------------------------- MODULE PlaceOrderProofs --------------------------
(***************************************************************************)
(* Theorems about placing orders: what may be sold twice, and how the      *)
(* nonce that two programs write counts, for any number of calls, orders,  *)
(* deposits and mishaps.                                                   *)
(***************************************************************************)
EXTENDS PlaceOrder, PrefixSumsProofs

(***************************************************************************)
(* Types.                                                                  *)
(***************************************************************************)
Answers(S) == {{}} \cup {{n} : n \in S}

RowType == [amount : Nat, txStatus : {"PENDING", "PROCESSING", "L2EXECUTED"}, locks : Nat]

RequestType ==
    [pc : {"idle", "asking", "viewed", "listed"}, amount : Nat, nonce : Answers(Nat),
     view : Answers(Int), list : Answers(Int)]

JobType ==
    [pc : {"idle", "taken", "read", "locked", "done", "stalled"}, txId : Nat, amount : Nat,
     from : Nat, origin : Nat]

PastType ==
    [deposits : Nat, mishaps : Nat, bumps : Nat, raced : BOOLEAN, overlapped : BOOLEAN]

TypeInv ==
    /\ availableAmt \in Int /\ lockedAmt \in Int /\ nonce \in Nat
    /\ rows \in Seq(RowType)
    /\ request \in [Requests -> RequestType]
    /\ \A r \in Requests : request[r].pc = "listed" => request[r].list # {}
    /\ job \in JobType
    /\ job.pc = "idle" => job.txId = 0
    /\ job.pc \in {"locked", "done"} => job.txId # 0
    /\ job.txId # 0 => job.txId \in DOMAIN rows /\ job.amount = rows[job.txId].amount
    /\ past \in PastType

\* An answer of the database is the set of its one value.
LEMMA TheOnlyIs == \A n : TheOnly({n}) = n
BY DEF TheOnly

\* A sum over rows of their amounts is a sum of naturals.
LEMMA AmountType ==
    ASSUME TypeInv, NEW orders
    PROVE  /\ [t \in DOMAIN rows |-> IF t \in orders THEN rows[t].amount ELSE 0] \in Seq(Nat)
           /\ Len([t \in DOMAIN rows |-> IF t \in orders THEN rows[t].amount ELSE 0]) = Len(rows)
           /\ AmountOf(orders) \in Nat
<1> DEFINE s == [t \in DOMAIN rows |-> IF t \in orders THEN rows[t].amount ELSE 0]
<1>1. rows \in Seq(RowType) /\ Len(rows) \in Nat /\ DOMAIN rows = 1 .. Len(rows)
  BY DEF TypeInv
<1>2. \A t \in 1 .. Len(rows) : rows[t].amount \in Nat
  <2>1. \A t \in 1 .. Len(rows) : rows[t] \in RowType
    BY <1>1
  <2>2. QED
    BY <2>1 DEF RowType
<1>3. s \in Seq(Nat) /\ Len(s) = Len(rows)
  BY <1>1, <1>2
<1> HIDE DEF s
<1>4. Total(s) \in Nat
  BY <1>3, TotalType
<1>5. QED
  BY <1>3, <1>4 DEF AmountOf, s

LEMMA InitType == Init => TypeInv
<1> SUFFICES ASSUME Init PROVE TypeInv
  OBVIOUS
<1>1. NoRequest \in RequestType /\ NoJob \in JobType
  BY DEF NoRequest, RequestType, Answers, NoJob, JobType
<1>2. past \in PastType
  BY DEF Init, PastType
<1>3. rows \in Seq(RowType)
  BY DEF Init
<1>4. QED
  BY <1>1, <1>2, <1>3 DEF Init, TypeInv, NoJob, NoRequest

\* The steps of a call of placeOrder.
Calls(r) ==
    \/ \E amount \in Amounts : placeOrder(r, amount)
    \/ FindAccountLeaf(r) \/ FindAvailableView(r) \/ FindTokenLeaf(r)
    \/ Reject(r) \/ Insert(r)

\* The steps of the sequencer.
Takes ==
    \/ \E t \in DOMAIN rows : TakeOrder(t)
    \/ \E amount \in Amounts : TakeDeposit(amount)
    \/ TakeStalled

\* A step is a call's, a job's or a stutter.
LEMMA NextIs ==
    ASSUME [Next]_vars
    PROVE  \/ \E r \in Requests : Calls(r)
           \/ Takes \/ ReadOrigin \/ UpdateAccountToken \/ UpdateAccountNonce
           \/ MarkExecuted \/ FailJob \/ RestartSequencer
           \/ UNCHANGED vars
BY DEF Next, Calls, Takes

\* Every step of a call keeps the types.
LEMMA CallType ==
    ASSUME TypeInv, NEW r \in Requests, Calls(r)
    PROVE  TypeInv'
<1>1. /\ availableAmt \in Int /\ lockedAmt \in Int /\ nonce \in Nat
      /\ rows \in Seq(RowType)
      /\ request \in [Requests -> RequestType]
      /\ job \in JobType /\ past \in PastType
  BY DEF TypeInv
<1>2. request[r] \in RequestType
  BY <1>1
<1>3. NoRequest \in RequestType
  BY DEF NoRequest, RequestType, Answers
<1>4. CASE \E amount \in Amounts : placeOrder(r, amount)
  <2>1. PICK amount \in Amounts : placeOrder(r, amount)
    BY <1>4
  <2>2. amount \in Nat
    BY PlaceOrderAssumption
  <2>3. /\ request' = [request EXCEPT ![r].pc = "asking", ![r].amount = amount]
        /\ past' = [past EXCEPT !.raced = @ \/ InFlight # {},
                                !.overlapped = @ \/ job.pc \in InHand]
        /\ UNCHANGED <<availableAmt, lockedAmt, nonce, rows, job>>
    BY <2>1 DEF placeOrder, leafVars
  <2>4. past' \in PastType
    BY <1>1, <2>3 DEF PastType
  <2>5. request' \in [Requests -> RequestType]
    BY <1>1, <1>2, <2>2, <2>3 DEF RequestType
  <2>6. \A q \in Requests : request'[q].pc = "listed" => request'[q].list # {}
    BY <1>1, <2>3 DEF TypeInv
  <2>7. QED
    BY <2>3, <2>4, <2>5, <2>6 DEF TypeInv
<1>5. CASE FindAccountLeaf(r)
  <2>1. /\ request' = [request EXCEPT ![r].nonce = {nonce}]
        /\ UNCHANGED <<availableAmt, lockedAmt, nonce, rows, job, past>>
    BY <1>5 DEF FindAccountLeaf, leafVars
  <2>2. request' \in [Requests -> RequestType]
    BY <1>1, <1>2, <2>1 DEF RequestType, Answers
  <2>3. QED
    BY <1>1, <2>1, <2>2 DEF TypeInv
<1>6. CASE FindAvailableView(r)
  <2>1. /\ request' = [request EXCEPT ![r].pc = "viewed", ![r].view = AvailableView]
        /\ UNCHANGED <<availableAmt, lockedAmt, nonce, rows, job, past>>
    BY <1>6 DEF FindAvailableView, leafVars
  <2>2. AvailableView \in Answers(Int)
    <3>1. AmountOf(PendingOrders) \in Nat
      BY AmountType
    <3>2. QED
      BY <1>1, <3>1 DEF AvailableView, Answers
  <2>3. request' \in [Requests -> RequestType]
    BY <1>1, <1>2, <2>1, <2>2 DEF RequestType
  <2>4. \A q \in Requests : request'[q].pc = "listed" => request'[q].list # {}
    BY <1>1, <2>1 DEF TypeInv
  <2>5. QED
    BY <1>1, <2>1, <2>3, <2>4 DEF TypeInv
<1>7. CASE FindTokenLeaf(r)
  <2>1. /\ request' = [request EXCEPT ![r].pc = "listed", ![r].list = {Listed(request[r].view)}]
        /\ UNCHANGED <<availableAmt, lockedAmt, nonce, rows, job, past>>
    BY <1>7 DEF FindTokenLeaf, leafVars
  <2>2. Listed(request[r].view) \in Int
    BY <1>1, <1>2, TheOnlyIs DEF Listed, RequestType, Answers
  <2>3. {Listed(request[r].view)} \in Answers(Int)
    BY <2>2 DEF Answers
  <2>4. request' \in [Requests -> RequestType]
    BY <1>1, <1>2, <2>1, <2>3 DEF RequestType
  <2>5. \A q \in Requests : request'[q].pc = "listed" => request'[q].list # {}
    <3>1. request'[r].list # {}
      BY <1>1, <2>1
    <3>2. \A q \in Requests \ {r} : request'[q] = request[q]
      BY <1>1, <2>1
    <3>3. QED
      BY <3>1, <3>2 DEF TypeInv
  <2>6. QED
    BY <1>1, <2>1, <2>4, <2>5 DEF TypeInv
<1>8. CASE Reject(r)
  <2>1. /\ request' = [request EXCEPT ![r] = NoRequest]
        /\ UNCHANGED <<availableAmt, lockedAmt, nonce, rows, job, past>>
    BY <1>8 DEF Reject, leafVars
  <2>2. request' \in [Requests -> RequestType]
    BY <1>1, <1>3, <2>1
  <2>3. NoRequest.pc = "idle"
    BY DEF NoRequest
  <2>4. QED
    BY <1>1, <2>1, <2>2, <2>3 DEF TypeInv
<1>9. CASE Insert(r)
  <2> DEFINE row == [amount |-> request[r].amount, txStatus |-> "PENDING", locks |-> 0]
  <2>1. /\ rows' = Append(rows, row)
        /\ nonce' = TheOnly(request[r].nonce) + 1
        /\ request' = [request EXCEPT ![r] = NoRequest]
        /\ request[r].nonce # {}
        /\ UNCHANGED <<availableAmt, lockedAmt, job, past>>
    BY <1>9 DEF Insert, BothAnswered, NextNonce
  <2>2. request' \in [Requests -> RequestType]
    BY <1>1, <1>3, <2>1
  <2>3. NoRequest.pc = "idle"
    BY DEF NoRequest
  <2>4. row \in RowType
    BY <1>2 DEF RowType, RequestType
  <2>5. nonce' \in Nat
    <3>1. PICK n \in Nat : request[r].nonce = {n}
      BY <1>2, <2>1 DEF RequestType, Answers
    <3>2. TheOnly({n}) = n
      BY TheOnlyIs
    <3>3. QED
      BY <2>1, <3>1, <3>2
  <2> HIDE DEF row
  <2>6. /\ rows' \in Seq(RowType) /\ \A t \in DOMAIN rows : rows'[t] = rows[t]
        /\ DOMAIN rows \subseteq DOMAIN rows'
    BY <1>1, <2>1, <2>4
  <2>7. QED
    BY <1>1, <2>1, <2>2, <2>3, <2>5, <2>6 DEF TypeInv
<1>10. QED
  BY <1>4, <1>5, <1>6, <1>7, <1>8, <1>9 DEF Calls

\* Every step of the sequencer keeps the types.
LEMMA JobTypes ==
    ASSUME TypeInv,
           \/ Takes \/ ReadOrigin \/ UpdateAccountToken \/ UpdateAccountNonce
           \/ MarkExecuted \/ FailJob \/ RestartSequencer
    PROVE  TypeInv'
<1>1. /\ availableAmt \in Int /\ lockedAmt \in Int /\ nonce \in Nat
      /\ rows \in Seq(RowType) /\ DOMAIN rows = 1 .. Len(rows) /\ Len(rows) \in Nat
      /\ request \in [Requests -> RequestType]
      /\ job \in JobType /\ past \in PastType
  BY DEF TypeInv
<1>2. job.txId \in Nat /\ job.amount \in Nat /\ job.from \in Nat /\ job.origin \in Nat
  BY <1>1 DEF JobType
<1>3. ASSUME NEW t \in DOMAIN rows, NEW new, new.amount = rows[t].amount, new \in RowType,
             rows' = [rows EXCEPT ![t] = new]
      PROVE  /\ rows' \in Seq(RowType) /\ DOMAIN rows' = DOMAIN rows
             /\ \A u \in DOMAIN rows : rows'[u].amount = rows[u].amount
  BY <1>1, <1>3
<1>4. ASSUME NEW t \in DOMAIN rows, NEW status \in {"PENDING", "PROCESSING", "L2EXECUTED"},
             rows' = SetStatus(t, status)
      PROVE  /\ rows' \in Seq(RowType) /\ DOMAIN rows' = DOMAIN rows
             /\ \A u \in DOMAIN rows : rows'[u].amount = rows[u].amount
  <2> DEFINE new == [rows[t] EXCEPT !.txStatus = status]
  <2>1. rows[t] \in RowType
    BY <1>1
  <2>2. new.amount = rows[t].amount /\ new \in RowType
    BY <2>1 DEF RowType
  <2>3. rows' = [rows EXCEPT ![t] = new]
    BY <1>4 DEF SetStatus
  <2> HIDE DEF new
  <2>4. QED
    BY <1>3, <2>2, <2>3
<1>5. \A q \in Requests : request[q].pc = "listed" => request[q].list # {}
  BY DEF TypeInv
<1>6. CASE Takes
  <2>1. ASSUME NEW t \in Nat, NEW amount \in Nat, Take(t, amount), past' \in PastType,
               t # 0 => t \in DOMAIN rows /\ amount = rows[t].amount
        PROVE  TypeInv'
    <3>1. job' \in JobType /\ job'.txId = t /\ job'.amount = amount /\ job'.pc = "taken"
      BY <1>1, <2>1 DEF Take, JobType
    <3>2. /\ rows' \in Seq(RowType) /\ DOMAIN rows' = DOMAIN rows
          /\ \A u \in DOMAIN rows : rows'[u].amount = rows[u].amount
      <4>1. CASE t = 0
        BY <1>1, <2>1, <4>1 DEF Take
      <4>2. CASE t # 0
        BY <1>4, <2>1, <4>2 DEF Take
      <4>3. QED
        BY <4>1, <4>2
    <3>3. UNCHANGED <<availableAmt, lockedAmt, nonce, request>>
      BY <2>1 DEF Take, leafVars
    <3>4. QED
      BY <1>1, <1>5, <2>1, <3>1, <3>2, <3>3 DEF TypeInv
  <2>2. Overlaps(past) \in PastType
    BY <1>1 DEF Overlaps, PastType
  <2>3. Overlaps([past EXCEPT !.deposits = @ + 1]) \in PastType
    <3>1. \A p \in PastType : Overlaps(p) \in PastType
      BY DEF Overlaps, PastType
    <3>2. past.deposits + 1 \in Nat
      BY <1>1 DEF PastType
    <3>3. [past EXCEPT !.deposits = @ + 1] \in PastType
      BY <1>1, <3>2 DEF PastType
    <3>4. QED
      BY <3>1, <3>3
  <2>4. ASSUME NEW t \in DOMAIN rows, TakeOrder(t) PROVE TypeInv'
    <3>1. t \in Nat /\ rows[t].amount \in Nat
      <4>1. rows[t] \in RowType
        BY <1>1
      <4>2. QED
        BY <1>1, <4>1 DEF RowType
    <3>2. QED
      BY <2>1, <2>2, <2>4, <3>1 DEF TakeOrder
  <2>5. ASSUME NEW amount \in Amounts, TakeDeposit(amount) PROVE TypeInv'
    <3>1. amount \in Nat
      BY PlaceOrderAssumption
    <3>2. QED
      BY <2>1, <2>3, <2>5, <3>1 DEF TakeDeposit
  <2>6. CASE TakeStalled
    BY <1>2, <2>1, <2>2, <2>6 DEF TakeStalled, TypeInv
  <2>7. QED
    BY <1>6, <2>4, <2>5, <2>6 DEF Takes
<1>7. CASE ReadOrigin
  <2>1. job' = [job EXCEPT !.pc = "read", !.origin = nonce]
    BY <1>7 DEF ReadOrigin
  <2>2. job' \in JobType /\ job'.txId = job.txId /\ job'.amount = job.amount /\ job'.pc = "read"
    BY <1>1, <2>1 DEF JobType
  <2>3. QED
    BY <1>1, <1>5, <1>7, <2>2 DEF ReadOrigin, leafVars, TypeInv
<1>8. CASE UpdateAccountToken
  <2>1. /\ job.pc = "read" /\ nonce' = job.origin /\ UNCHANGED <<request, past>>
        /\ job' = IF job.txId = 0 THEN NoJob ELSE [job EXCEPT !.pc = "locked"]
    BY <1>8 DEF UpdateAccountToken
  <2>2. availableAmt' \in Int /\ lockedAmt' \in Int
    BY <1>1, <1>2, <1>8 DEF UpdateAccountToken
  <2>3. /\ rows' \in Seq(RowType) /\ DOMAIN rows' = DOMAIN rows
        /\ \A u \in DOMAIN rows : rows'[u].amount = rows[u].amount
    <3>1. CASE job.txId = 0
      BY <1>1, <1>8, <3>1 DEF UpdateAccountToken
    <3>2. CASE job.txId # 0
      <4> DEFINE t == job.txId
                 new == [rows[t] EXCEPT !.locks = @ + 1]
      <4>1. t \in DOMAIN rows
        BY <3>2 DEF TypeInv
      <4>2. rows[t] \in RowType
        BY <1>1, <4>1
      <4>3. new.amount = rows[t].amount /\ new \in RowType
        BY <4>2 DEF RowType
      <4>4. rows' = [rows EXCEPT ![t] = new]
        BY <1>8, <3>2 DEF UpdateAccountToken
      <4> HIDE DEF new
      <4>5. QED
        BY <1>3, <4>1, <4>3, <4>4
    <3>3. QED
      BY <3>1, <3>2
  <2>4. /\ job' \in JobType
        /\ job'.pc = "idle" => job'.txId = 0
        /\ job'.pc \in {"locked", "done"} => job'.txId # 0
    BY <1>1, <2>1 DEF JobType, NoJob
  <2>5. job'.txId # 0 => job'.txId \in DOMAIN rows /\ job'.amount = rows[job'.txId].amount
    BY <1>1, <2>1 DEF JobType, NoJob, TypeInv
  <2>6. QED
    BY <1>1, <1>2, <1>5, <2>1, <2>2, <2>3, <2>4, <2>5 DEF TypeInv
<1>9. CASE UpdateAccountNonce
  <2>1. /\ job' = [job EXCEPT !.pc = "done"] /\ nonce' = job.from + 1
        /\ past' = [past EXCEPT !.bumps = @ + 1]
        /\ UNCHANGED <<availableAmt, lockedAmt, rows, request>>
    BY <1>9 DEF UpdateAccountNonce
  <2>2. job' \in JobType /\ job'.txId = job.txId /\ job'.amount = job.amount /\ job'.pc = "done"
    BY <1>1, <2>1 DEF JobType
  <2>3. past' \in PastType /\ nonce' \in Nat
    <3>1. past.bumps + 1 \in Nat
      BY <1>1 DEF PastType
    <3>2. past' \in PastType
      BY <1>1, <2>1, <3>1 DEF PastType
    <3>3. QED
      BY <1>2, <2>1, <3>2
  <2>4. job.txId # 0
    BY <1>9 DEF UpdateAccountNonce, TypeInv
  <2>5. QED
    BY <1>1, <1>5, <2>1, <2>2, <2>3, <2>4 DEF TypeInv
<1>10. CASE MarkExecuted
  <2>1. job' = NoJob /\ rows' = SetStatus(job.txId, "L2EXECUTED")
        /\ UNCHANGED <<availableAmt, lockedAmt, nonce, request, past>>
    BY <1>10 DEF MarkExecuted, leafVars
  <2>2. NoJob \in JobType /\ NoJob.txId = 0
    BY DEF NoJob, JobType
  <2>3. job.txId \in DOMAIN rows
    BY <1>10 DEF MarkExecuted, TypeInv
  <2>4. rows' \in Seq(RowType)
    BY <1>4, <2>1, <2>3
  <2>5. NoJob.pc = "idle"
    BY DEF NoJob
  <2>6. QED
    BY <1>1, <1>5, <2>1, <2>2, <2>4, <2>5 DEF TypeInv
<1>11. CASE FailJob
  <2>1. job' = NoJob /\ past' = [past EXCEPT !.mishaps = @ + 1]
        /\ UNCHANGED <<availableAmt, lockedAmt, nonce, rows, request>>
    BY <1>11 DEF FailJob, leafVars
  <2>2. NoJob \in JobType /\ NoJob.txId = 0 /\ NoJob.pc = "idle"
    BY DEF NoJob, JobType
  <2>3. past' \in PastType
    BY <1>1, <2>1 DEF PastType
  <2>4. QED
    BY <1>1, <1>5, <2>1, <2>2, <2>3 DEF TypeInv
<1>12. CASE RestartSequencer
  <2>1. job' = [job EXCEPT !.pc = "stalled"] /\ past' = [past EXCEPT !.mishaps = @ + 1]
        /\ UNCHANGED <<availableAmt, lockedAmt, nonce, rows, request>>
    BY <1>12 DEF RestartSequencer, leafVars
  <2>2. job' \in JobType /\ job'.txId = job.txId /\ job'.amount = job.amount /\ job'.pc = "stalled"
    BY <1>1, <2>1 DEF JobType
  <2>3. past' \in PastType
    BY <1>1, <2>1 DEF PastType
  <2>4. QED
    BY <1>1, <1>5, <2>1, <2>2, <2>3 DEF TypeInv
<1>13. QED
  BY <1>6, <1>7, <1>8, <1>9, <1>10, <1>11, <1>12

LEMMA TypeStep == TypeInv /\ [Next]_vars => TypeInv'
<1> SUFFICES ASSUME TypeInv, [Next]_vars PROVE TypeInv'
  OBVIOUS
<1>1. CASE UNCHANGED vars
  BY <1>1 DEF vars, leafVars, TypeInv
<1>2. QED
  BY <1>1, NextIs, CallType, JobTypes

-----------------------------------------------------------------------------
(***************************************************************************)
(* Calls in flight.  Until two were, there is one at most; a call that is  *)
(* not in flight has no answers.                                           *)
(***************************************************************************)
FlightInv ==
    /\ TypeInv
    /\ \A r \in Requests : request[r].pc = "idle" => request[r].nonce = {}
    /\ ~past.raced => \A r, q \in InFlight : r = q

\* What the steps of the sequencer leave as it is, apart from the type.
LEMMA JobFrame ==
    ASSUME TypeInv,
           \/ Takes \/ ReadOrigin \/ UpdateAccountToken \/ UpdateAccountNonce
           \/ MarkExecuted \/ FailJob \/ RestartSequencer
    PROVE  /\ request' = request /\ InFlight' = InFlight
           /\ past'.raced = past.raced
           /\ past.overlapped => past'.overlapped
<1>1. past \in PastType
  BY DEF TypeInv
<1>2. \A p \in PastType : Overlaps(p).raced = p.raced /\ (p.overlapped => Overlaps(p).overlapped)
  BY DEF Overlaps, PastType
<1>3. ASSUME Takes PROVE /\ request' = request /\ past'.raced = past.raced
                         /\ past.overlapped => past'.overlapped
  <2>1. UNCHANGED request
    BY <1>3 DEF Takes, TakeOrder, TakeDeposit, TakeStalled, Take
  <2>2. past' = Overlaps(past) \/ past' = Overlaps([past EXCEPT !.deposits = @ + 1])
    BY <1>3 DEF Takes, TakeOrder, TakeDeposit, TakeStalled
  <2>3. past.deposits + 1 \in Nat
    BY <1>1 DEF PastType
  <2>4. /\ [past EXCEPT !.deposits = @ + 1] \in PastType
        /\ [past EXCEPT !.deposits = @ + 1].raced = past.raced
        /\ [past EXCEPT !.deposits = @ + 1].overlapped = past.overlapped
    BY <1>1, <2>3 DEF PastType
  <2>5. QED
    BY <1>1, <1>2, <2>1, <2>2, <2>4
<1>4. ASSUME \/ ReadOrigin \/ UpdateAccountToken \/ UpdateAccountNonce
             \/ MarkExecuted \/ FailJob \/ RestartSequencer
      PROVE  /\ request' = request /\ past'.raced = past.raced
             /\ past.overlapped => past'.overlapped
  <2>1. UNCHANGED request
    BY <1>4 DEF ReadOrigin, UpdateAccountToken, UpdateAccountNonce, MarkExecuted, FailJob,
                RestartSequencer
  <2>2. \/ past' = past \/ past' = [past EXCEPT !.bumps = @ + 1]
        \/ past' = [past EXCEPT !.mishaps = @ + 1]
    BY <1>4 DEF ReadOrigin, UpdateAccountToken, UpdateAccountNonce, MarkExecuted, FailJob,
                RestartSequencer
  <2>3. QED
    BY <1>1, <2>1, <2>2 DEF PastType
<1>5. request' = request => InFlight' = InFlight
  BY DEF InFlight
<1>6. QED
  BY <1>3, <1>4, <1>5

\* What the steps of a call do to what is in flight.
LEMMA CallFrame ==
    ASSUME TypeInv, NEW r \in Requests, Calls(r)
    PROVE  /\ UNCHANGED <<availableAmt, lockedAmt, job>>
           /\ \A q \in Requests \ {r} : request'[q] = request[q]
           /\ \/ /\ \E amount \in Amounts : placeOrder(r, amount)
                 /\ InFlight' = InFlight \cup {r}
                 /\ past'.raced = (past.raced \/ InFlight # {})
                 /\ past'.overlapped = (past.overlapped \/ job.pc \in InHand)
                 /\ past'.bumps = past.bumps
              \/ /\ FindAccountLeaf(r) \/ FindAvailableView(r) \/ FindTokenLeaf(r)
                 /\ r \in InFlight /\ InFlight' = InFlight /\ UNCHANGED past
              \/ /\ Reject(r) \/ Insert(r)
                 /\ r \in InFlight /\ InFlight' = InFlight \ {r} /\ UNCHANGED past
<1>1. request \in [Requests -> RequestType] /\ past \in PastType
  BY DEF TypeInv
<1>2. request[r] \in RequestType
  BY <1>1
<1>3. CASE \E amount \in Amounts : placeOrder(r, amount)
  <2>1. PICK amount \in Amounts : placeOrder(r, amount)
    BY <1>3
  <2>2. /\ request' = [request EXCEPT ![r].pc = "asking", ![r].amount = amount]
        /\ past' = [past EXCEPT !.raced = @ \/ InFlight # {},
                                !.overlapped = @ \/ job.pc \in InHand]
        /\ UNCHANGED <<availableAmt, lockedAmt, job>>
    BY <2>1 DEF placeOrder, leafVars
  <2>3. request'[r].pc = "asking" /\ \A q \in Requests \ {r} : request'[q] = request[q]
    BY <1>1, <1>2, <2>2 DEF RequestType
  <2>4. InFlight' = InFlight \cup {r}
    BY <2>3 DEF InFlight
  <2>5. /\ past'.raced = (past.raced \/ InFlight # {})
        /\ past'.overlapped = (past.overlapped \/ job.pc \in InHand)
        /\ past'.bumps = past.bumps
    BY <1>1, <2>2 DEF PastType
  <2>6. QED
    BY <1>3, <2>2, <2>3, <2>4, <2>5
<1>4. CASE FindAccountLeaf(r) \/ FindAvailableView(r) \/ FindTokenLeaf(r)
  <2>1. /\ request[r].pc # "idle" /\ request'[r].pc # "idle"
        /\ \A q \in Requests \ {r} : request'[q] = request[q]
        /\ UNCHANGED <<availableAmt, lockedAmt, job, past>>
    BY <1>1, <1>2, <1>4 DEF FindAccountLeaf, FindAvailableView, FindTokenLeaf, leafVars, RequestType
  <2>2. r \in InFlight /\ InFlight' = InFlight
    BY <2>1 DEF InFlight
  <2>3. QED
    BY <1>4, <2>1, <2>2
<1>5. CASE Reject(r) \/ Insert(r)
  <2>1. /\ request[r].pc # "idle" /\ request'[r].pc = "idle"
        /\ \A q \in Requests \ {r} : request'[q] = request[q]
        /\ UNCHANGED <<availableAmt, lockedAmt, job, past>>
    BY <1>1, <1>2, <1>5 DEF Reject, Insert, BothAnswered, leafVars, NoRequest
  <2>2. r \in InFlight /\ InFlight' = InFlight \ {r}
    BY <2>1 DEF InFlight
  <2>3. QED
    BY <1>5, <2>1, <2>2
<1>6. QED
  BY <1>3, <1>4, <1>5 DEF Calls

\* A second call in flight is what "raced" says.
LEMMA FlightStep == FlightInv /\ [Next]_vars => FlightInv'
<1> SUFFICES ASSUME FlightInv, [Next]_vars PROVE FlightInv'
  OBVIOUS
<1>1. TypeInv /\ TypeInv' /\ request \in [Requests -> RequestType]
  BY TypeStep DEF FlightInv, TypeInv
<1>2. CASE UNCHANGED vars
  BY <1>1, <1>2 DEF FlightInv, InFlight, vars
<1>3. ASSUME \/ Takes \/ ReadOrigin \/ UpdateAccountToken \/ UpdateAccountNonce
             \/ MarkExecuted \/ FailJob \/ RestartSequencer
      PROVE  FlightInv'
  BY <1>1, <1>3, JobFrame DEF FlightInv
<1>4. ASSUME NEW r \in Requests, Calls(r) PROVE FlightInv'
  <2>1. /\ \A q \in Requests \ {r} : request'[q] = request[q]
        /\ \/ /\ \E amount \in Amounts : placeOrder(r, amount)
              /\ InFlight' = InFlight \cup {r}
              /\ past'.raced = (past.raced \/ InFlight # {})
           \/ /\ FindAccountLeaf(r) \/ FindAvailableView(r) \/ FindTokenLeaf(r)
              /\ r \in InFlight /\ InFlight' = InFlight /\ UNCHANGED past
           \/ /\ Reject(r) \/ Insert(r)
              /\ r \in InFlight /\ InFlight' = InFlight \ {r} /\ UNCHANGED past
    BY <1>1, <1>4, CallFrame
  <2>2. request'[r].pc = "idle" => request'[r].nonce = {}
    <3>1. CASE Reject(r) \/ Insert(r)
      BY <1>1, <3>1 DEF Reject, Insert, NoRequest
    <3>2. CASE \/ \E amount \in Amounts : placeOrder(r, amount)
               \/ FindAccountLeaf(r) \/ FindAvailableView(r) \/ FindTokenLeaf(r)
      <4>1. r \in InFlight'
        BY <2>1, <3>2, <1>1 DEF FindAccountLeaf, FindAvailableView, FindTokenLeaf, Reject, Insert,
                                BothAnswered, placeOrder, InFlight
      <4>2. QED
        BY <4>1 DEF InFlight
    <3>3. QED
      BY <2>1, <3>1, <3>2
  <2>3. \A q \in Requests : request'[q].pc = "idle" => request'[q].nonce = {}
    BY <2>1, <2>2 DEF FlightInv
  <2>4. ~past'.raced => \A q, t \in InFlight' : q = t
    BY <2>1 DEF FlightInv
  <2>5. QED
    BY <1>1, <2>3, <2>4 DEF FlightInv
<1>5. QED
  BY <1>2, <1>3, <1>4, NextIs

-----------------------------------------------------------------------------
(***************************************************************************)
(* The nonce.  As long as calls and jobs keep out of each other's way,     *)
(* whoever has read the nonce holds the one that is in the leaf.           *)
(***************************************************************************)
Quiet == ~past.raced /\ ~past.overlapped

NonceAsRead ==
    /\ nonce = Len(rows) + past.bumps
    /\ InFlight # {} => job.pc \notin InHand
    /\ \A r \in InFlight : request[r].nonce \in {{}, {nonce}}
    /\ job.pc \in {"taken", "read", "locked"} => job.from = nonce
    /\ job.pc = "read" => job.origin = nonce

NonceInv == FlightInv /\ (Quiet => NonceAsRead)

LEMMA InitNonce == Init => NonceInv
<1> SUFFICES ASSUME Init PROVE NonceInv
  OBVIOUS
<1>1. \A r \in Requests : request[r] = NoRequest
  BY DEF Init
<1>2. InFlight = {}
  BY <1>1 DEF InFlight, NoRequest
<1>3. job.pc = "idle" /\ nonce = 0 /\ Len(rows) = 0 /\ past.bumps = 0
  BY DEF Init, NoJob
<1>4. QED
  BY <1>1, <1>2, <1>3, InitType DEF NonceInv, FlightInv, NonceAsRead, NoRequest

\* While nothing overlaps, a call inserts with the nonce it read and counts it
\* up.
LEMMA CallNonce ==
    ASSUME NonceInv, NEW r \in Requests, Calls(r), Quiet'
    PROVE  NonceAsRead'
<1>1. /\ TypeInv /\ request \in [Requests -> RequestType] /\ request[r] \in RequestType
      /\ rows \in Seq(RowType) /\ nonce \in Nat /\ past \in PastType
  BY DEF NonceInv, FlightInv, TypeInv
<1>2. /\ UNCHANGED <<job>>
      /\ \A q \in Requests \ {r} : request'[q] = request[q]
      /\ \/ /\ \E amount \in Amounts : placeOrder(r, amount)
            /\ InFlight' = InFlight \cup {r}
            /\ past'.raced = (past.raced \/ InFlight # {})
            /\ past'.overlapped = (past.overlapped \/ job.pc \in InHand)
            /\ past'.bumps = past.bumps
         \/ /\ FindAccountLeaf(r) \/ FindAvailableView(r) \/ FindTokenLeaf(r)
            /\ r \in InFlight /\ InFlight' = InFlight /\ UNCHANGED past
         \/ /\ Reject(r) \/ Insert(r)
            /\ r \in InFlight /\ InFlight' = InFlight \ {r} /\ UNCHANGED past
  BY <1>1, CallFrame
<1>3. Quiet /\ NonceAsRead
  BY <1>2 DEF Quiet, NonceInv
<1>4. \A q \in InFlight : q \in Requests
  BY DEF InFlight
<1>5. CASE \E amount \in Amounts : placeOrder(r, amount)
  <2>1. PICK amount \in Amounts : placeOrder(r, amount)
    BY <1>5
  <2>2. /\ request[r].pc = "idle" /\ UNCHANGED <<rows, nonce>>
        /\ request' = [request EXCEPT ![r].pc = "asking", ![r].amount = amount]
    BY <2>1 DEF placeOrder, leafVars
  <2>3. r \notin InFlight /\ request[r].nonce = {}
    BY <2>2 DEF InFlight, NonceInv, FlightInv
  <2>4. request'[r].nonce = {} /\ request'[r].pc = "asking"
    BY <1>1, <2>2, <2>3 DEF RequestType
  <2>5. /\ InFlight' = InFlight \cup {r} /\ InFlight = {} /\ job.pc \notin InHand
        /\ past'.bumps = past.bumps
    <3>1. ~FindAccountLeaf(r) /\ ~FindAvailableView(r) /\ ~FindTokenLeaf(r)
          /\ ~Reject(r) /\ ~Insert(r)
      BY <2>2 DEF FindAccountLeaf, FindAvailableView, FindTokenLeaf, Reject, Insert, BothAnswered
    <3>2. QED
      BY <1>2, <3>1 DEF Quiet
  <2>6. QED
    BY <1>2, <1>3, <2>2, <2>4, <2>5 DEF NonceAsRead, InHand
<1>6. CASE FindAccountLeaf(r) \/ FindAvailableView(r) \/ FindTokenLeaf(r)
  <2>1. /\ request[r].pc # "idle" /\ UNCHANGED <<rows, nonce, past>>
        /\ request'[r].nonce \in {request[r].nonce, {nonce}} /\ request'[r].pc # "idle"
    BY <1>1, <1>6 DEF FindAccountLeaf, FindAvailableView, FindTokenLeaf, leafVars, RequestType
  <2>2. InFlight' = InFlight /\ r \in InFlight
    <3>1. InFlight' = InFlight
      BY <1>1, <1>2, <2>1 DEF InFlight
    <3>2. QED
      BY <2>1, <3>1 DEF InFlight
  <2>3. \A q \in InFlight : request'[q].nonce \in {{}, {nonce}}
    BY <1>2, <1>3, <1>4, <2>1, <2>2 DEF NonceAsRead
  <2>4. QED
    BY <1>2, <1>3, <2>1, <2>2, <2>3 DEF NonceAsRead
<1>7. CASE Reject(r) \/ Insert(r)
  <2>1. /\ r \in InFlight /\ InFlight' = InFlight \ {r} /\ UNCHANGED past
    <3>1. /\ request[r].pc = "listed" /\ request'[r].pc = "idle"
          /\ UNCHANGED past
      BY <1>1, <1>7 DEF Reject, Insert, BothAnswered, NoRequest
    <3>2. QED
      BY <1>2, <3>1 DEF InFlight
  <2>2. InFlight' = {} /\ job.pc \notin InHand
    BY <1>3, <2>1 DEF Quiet, NonceInv, FlightInv, NonceAsRead
  <2>3. nonce' = Len(rows') + past.bumps
    <3>1. CASE Reject(r)
      BY <1>3, <3>1 DEF Reject, leafVars, NonceAsRead
    <3>2. CASE Insert(r)
      <4>1. /\ request[r].nonce # {} /\ nonce' = TheOnly(request[r].nonce) + 1
            /\ Len(rows') = Len(rows) + 1
        BY <1>1, <3>2 DEF Insert, BothAnswered, NextNonce
      <4>2. request[r].nonce = {nonce}
        BY <1>3, <2>1, <4>1 DEF NonceAsRead
      <4>3. TheOnly({nonce}) = nonce
        BY TheOnlyIs
      <4>4. nonce = Len(rows) + past.bumps /\ Len(rows) \in Nat /\ past.bumps \in Nat
        BY <1>1, <1>3 DEF NonceAsRead, PastType
      <4>5. QED
        BY <4>1, <4>2, <4>3, <4>4
    <3>3. QED
      BY <1>7, <3>1, <3>2
  <2>4. QED
    BY <1>2, <2>1, <2>2, <2>3 DEF NonceAsRead, InHand
<1>8. QED
  BY <1>2, <1>5, <1>6, <1>7

\* While nothing overlaps, a job writes back the nonce it read, plus one.
LEMMA JobNonce ==
    ASSUME NonceInv, Quiet',
           \/ Takes \/ ReadOrigin \/ UpdateAccountToken \/ UpdateAccountNonce
           \/ MarkExecuted \/ FailJob \/ RestartSequencer
    PROVE  NonceAsRead'
<1>1. /\ TypeInv /\ job \in JobType /\ rows \in Seq(RowType) /\ nonce \in Nat
      /\ past \in PastType
  BY DEF NonceInv, FlightInv, TypeInv
<1>2. /\ request' = request /\ InFlight' = InFlight
      /\ past'.raced = past.raced
      /\ past.overlapped => past'.overlapped
  BY <1>1, JobFrame
<1>3. Quiet /\ NonceAsRead
  BY <1>2 DEF Quiet, NonceInv
<1>4. CASE Takes
  <2>1. ASSUME NEW t, NEW amount, NEW p \in PastType, Take(t, amount), past' = Overlaps(p),
               p.bumps = past.bumps, t = 0 \/ t \in DOMAIN rows
        PROVE  NonceAsRead'
    <3>1. InFlight = {} /\ past'.bumps = past.bumps
      BY <1>2, <2>1 DEF Quiet, Overlaps, PastType
    <3>2. UNCHANGED nonce /\ Len(rows') = Len(rows) /\ job'.from = nonce /\ job'.pc = "taken"
      BY <1>1, <2>1 DEF Take, leafVars, SetStatus
    <3>3. QED
      BY <1>2, <1>3, <3>1, <3>2 DEF NonceAsRead
  <2>2. ASSUME NEW t \in DOMAIN rows, TakeOrder(t) PROVE NonceAsRead'
    <3>1. Take(t, rows[t].amount) /\ past' = Overlaps(past)
      BY <2>2 DEF TakeOrder
    <3>2. QED
      BY <1>1, <2>1, <3>1
  <2>3. ASSUME NEW amount \in Amounts, TakeDeposit(amount) PROVE NonceAsRead'
    <3> DEFINE p == [past EXCEPT !.deposits = @ + 1]
    <3>1. Take(0, amount) /\ past' = Overlaps(p)
      BY <2>3 DEF TakeDeposit
    <3>2. past.deposits + 1 \in Nat
      BY <1>1 DEF PastType
    <3>3. p \in PastType /\ p.bumps = past.bumps
      BY <1>1, <3>2 DEF PastType
    <3> HIDE DEF p
    <3>4. QED
      BY <2>1, <3>1, <3>3
  <2>4. ASSUME TakeStalled PROVE NonceAsRead'
    <3>1. /\ Take(job.txId, job.amount) /\ past' = Overlaps(past)
          /\ job.txId = 0 \/ job.txId \in DOMAIN rows
      BY <1>1, <2>4 DEF TakeStalled, TypeInv
    <3>2. QED
      BY <1>1, <2>1, <3>1
  <2>5. QED
    BY <1>4, <2>2, <2>3, <2>4 DEF Takes
<1>5. CASE ReadOrigin
  <2>1. /\ job.pc = "taken" /\ UNCHANGED <<nonce, rows, past>>
        /\ job'.pc = "read" /\ job'.origin = nonce /\ job'.from = job.from
    BY <1>1, <1>5 DEF ReadOrigin, leafVars, JobType
  <2>2. QED
    BY <1>2, <1>3, <2>1 DEF NonceAsRead, InHand
<1>6. CASE UpdateAccountToken
  <2>1. /\ job.pc = "read" /\ nonce' = job.origin /\ UNCHANGED past /\ Len(rows') = Len(rows)
        /\ job' = NoJob \/ (job'.pc = "locked" /\ job'.from = job.from)
    BY <1>1, <1>6 DEF UpdateAccountToken, JobType
  <2>2. QED
    BY <1>2, <1>3, <2>1 DEF NonceAsRead, InHand, NoJob
<1>7. CASE UpdateAccountNonce
  <2>1. /\ job.pc = "locked" /\ nonce' = job.from + 1 /\ past'.bumps = past.bumps + 1
        /\ UNCHANGED rows /\ job'.pc = "done"
    BY <1>1, <1>7 DEF UpdateAccountNonce, JobType, PastType
  <2>2. Len(rows) \in Nat /\ past.bumps \in Nat
    BY <1>1 DEF PastType
  <2>3. QED
    BY <1>2, <1>3, <2>1, <2>2 DEF NonceAsRead, InHand
<1>8. CASE MarkExecuted \/ FailJob
  <2>1. /\ job' = NoJob /\ Len(rows') = Len(rows) /\ past'.bumps = past.bumps
        /\ UNCHANGED nonce
    BY <1>1, <1>8 DEF MarkExecuted, FailJob, leafVars, SetStatus, PastType
  <2>2. QED
    BY <1>2, <1>3, <2>1 DEF NonceAsRead, InHand, NoJob
<1>9. CASE RestartSequencer
  <2>1. /\ job'.pc = "stalled" /\ rows' = rows /\ past'.bumps = past.bumps
        /\ UNCHANGED nonce
    BY <1>1, <1>9 DEF RestartSequencer, leafVars, PastType, JobType
  <2>2. QED
    BY <1>2, <1>3, <2>1 DEF NonceAsRead, InHand
<1>10. QED
  BY <1>4, <1>5, <1>6, <1>7, <1>8, <1>9

\* Every step keeps NonceInv.
LEMMA NonceStep == NonceInv /\ [Next]_vars => NonceInv'
<1> SUFFICES ASSUME NonceInv, [Next]_vars PROVE NonceInv'
  OBVIOUS
<1>1. FlightInv'
  BY FlightStep DEF NonceInv
<1>2. UNCHANGED vars => (Quiet' => NonceAsRead')
  BY DEF NonceInv, Quiet, NonceAsRead, InFlight, vars, leafVars
<1>3. Quiet' => NonceAsRead'
  BY <1>2, NextIs, CallNonce, JobNonce
<1>4. QED
  BY <1>1, <1>3 DEF NonceInv

(***************************************************************************)
(* Placing an order raises the nonce of the leaf once and executing it     *)
(* once more, unless a call overlapped a job or another call.              *)
(***************************************************************************)
THEOREM NonceCorrect == Spec => []NonceCountsTwice
<1>1. NonceInv => NonceCountsTwice
  BY DEF NonceInv, Quiet, NonceAsRead, NonceCountsTwice
<1>2. QED
  BY <1>1, InitNonce, NonceStep, PTL DEF Spec

-----------------------------------------------------------------------------
(***************************************************************************)
(* The amounts.  What the orders that are not locked yet sell, as a sum    *)
(* over the rows.                                                          *)
(***************************************************************************)
OpenAmounts(rs) == [t \in DOMAIN rs |-> IF rs[t].locks = 0 THEN rs[t].amount ELSE 0]
Open(rs) == Total(OpenAmounts(rs))

\* The open amounts are natural numbers, one for each row.
LEMMA OpenType ==
    ASSUME NEW rs \in Seq(RowType)
    PROVE  /\ OpenAmounts(rs) \in Seq(Nat) /\ Len(OpenAmounts(rs)) = Len(rs)
           /\ Open(rs) \in Nat
<1>1. Len(rs) \in Nat /\ DOMAIN rs = 1 .. Len(rs) /\ \A t \in 1 .. Len(rs) : rs[t] \in RowType
  OBVIOUS
<1>2. \A t \in 1 .. Len(rs) : rs[t].amount \in Nat
  BY <1>1 DEF RowType
<1>3. OpenAmounts(rs) \in Seq(Nat) /\ Len(OpenAmounts(rs)) = Len(rs)
  BY <1>1, <1>2 DEF OpenAmounts
<1>4. Open(rs) \in Nat
  BY <1>3, TotalType DEF Open
<1>5. QED
  BY <1>3, <1>4

\* The amount of the orders not locked, as a total over the rows.
LEMMA OpenIs ==
    /\ AmountOf(Unlocked) = Open(rows)
    /\ AmountOf(Unlocked)' = Open(rows')
<1>1. [t \in DOMAIN rows |-> IF t \in Unlocked THEN rows[t].amount ELSE 0] = OpenAmounts(rows)
  BY DEF Unlocked, OpenAmounts
<1>2. [t \in DOMAIN rows' |-> IF t \in Unlocked' THEN rows'[t].amount ELSE 0] = OpenAmounts(rows')
  BY DEF Unlocked, OpenAmounts
<1>3. AmountOf(Unlocked) = Open(rows)
  BY <1>1 DEF AmountOf, Open
<1>4. AmountOf(Unlocked)' = Open(rows')
  BY <1>2 DEF AmountOf, Open
<1>5. QED
  BY <1>3, <1>4

\* Whatever the set of rows, it sells at most what a larger set does.
LEMMA OpenIsPending ==
    ASSUME TypeInv, Unlocked \subseteq PendingOrders
    PROVE  Open(rows) <= AmountOf(PendingOrders)
<1> DEFINE p == [t \in DOMAIN rows |-> IF t \in PendingOrders THEN rows[t].amount ELSE 0]
           o == OpenAmounts(rows)
<1>1. p \in Seq(Nat) /\ Len(p) = Len(rows)
  BY AmountType
<1>2. o \in Seq(Nat) /\ Len(o) = Len(rows)
  BY OpenType DEF TypeInv
<1>3. \A t \in 1 .. Len(rows) : rows[t].amount \in Nat
  <2>1. \A t \in 1 .. Len(rows) : rows[t] \in RowType
    BY DEF TypeInv
  <2>2. QED
    BY <2>1 DEF RowType
<1>4. \A t \in 1 .. Len(rows) : o[t] <= p[t]
  <2>1. DOMAIN rows = 1 .. Len(rows)
    BY DEF TypeInv
  <2>2. QED
    BY <1>3, <2>1 DEF OpenAmounts, Unlocked
<1> HIDE DEF p, o
<1>5. Total(o) <= Total(p)
  BY <1>1, <1>2, <1>4, TotalMono
<1>6. QED
  BY <1>5 DEF o, p, Open, AmountOf

\* Nothing is open when every order is locked.
LEMMA OpenEmpty ==
    ASSUME TypeInv, Unlocked = {}
    PROVE  Open(rows) = 0
<1>1. OpenAmounts(rows) \in Seq(Nat) /\ Len(OpenAmounts(rows)) = Len(rows)
  BY OpenType DEF TypeInv
<1>2. \A t \in 1 .. Len(rows) : OpenAmounts(rows)[t] = 0
  <2>1. DOMAIN rows = 1 .. Len(rows)
    BY DEF TypeInv
  <2>2. QED
    BY <2>1 DEF OpenAmounts, Unlocked
<1>3. QED
  BY <1>1, <1>2, TotalZero DEF Open

\* Rows that change in nothing but their status.
LEMMA OpenSame ==
    ASSUME NEW rs \in Seq(RowType), NEW new \in Seq(RowType), DOMAIN new = DOMAIN rs,
           \A t \in DOMAIN rs : new[t].amount = rs[t].amount /\ new[t].locks = rs[t].locks
    PROVE  Open(new) = Open(rs)
<1>1. OpenAmounts(new) = OpenAmounts(rs)
  BY DEF OpenAmounts
<1>2. QED
  BY <1>1 DEF Open

\* An order that is locked for the first time sells what it sells no more.
LEMMA OpenLocked ==
    ASSUME NEW rs \in Seq(RowType), NEW t \in DOMAIN rs, NEW new \in Seq(RowType),
           new = [rs EXCEPT ![t].locks = @ + 1]
    PROVE  rs[t].locks = 0 => Open(new) + rs[t].amount = Open(rs)
<1> SUFFICES ASSUME rs[t].locks = 0 PROVE Open(new) + rs[t].amount = Open(rs)
  OBVIOUS
<1> DEFINE a == OpenAmounts(rs)
           b == OpenAmounts(new)
<1>1. a \in Seq(Nat) /\ b \in Seq(Nat) /\ Len(a) = Len(rs) /\ Len(b) = Len(new)
  BY OpenType
<1>2. DOMAIN rs = 1 .. Len(rs) /\ Len(new) = Len(rs) /\ rs[t] \in RowType
  OBVIOUS
<1>3. a[t] = rs[t].amount /\ b[t] = 0
  BY <1>2 DEF OpenAmounts, RowType
<1>4. \A u \in 1 .. Len(rs) : u # t => b[u] = a[u]
  BY <1>2 DEF OpenAmounts
<1> HIDE DEF a, b
<1>5. Total(b) + a[t] = Total(a) + b[t]
  BY <1>1, <1>2, <1>4, TotalUpdate
<1>6. Total(a) \in Nat
  BY <1>1, TotalType
<1>7. QED
  BY <1>3, <1>5, <1>6 DEF Open, a, b

\* A new order sells its amount on top.
LEMMA OpenInserted ==
    ASSUME NEW rs \in Seq(RowType), NEW row \in RowType, row.locks = 0
    PROVE  Open(Append(rs, row)) = Open(rs) + row.amount
<1> DEFINE new == Append(rs, row)
           a == OpenAmounts(rs)
           b == OpenAmounts(new)
<1>1. /\ new \in Seq(RowType) /\ Len(new) = Len(rs) + 1 /\ Len(rs) \in Nat
      /\ DOMAIN rs = 1 .. Len(rs) /\ DOMAIN new = 1 .. Len(rs) + 1
      /\ new[Len(rs) + 1] = row /\ \A t \in 1 .. Len(rs) : new[t] = rs[t]
  OBVIOUS
<1> HIDE DEF new
<1>2. a \in Seq(Nat) /\ b \in Seq(Nat) /\ Len(a) = Len(rs) /\ Len(b) = Len(rs) + 1
  BY <1>1, OpenType
<1>3. b[Len(rs) + 1] = row.amount /\ \A t \in 1 .. Len(rs) : b[t] = a[t]
  BY <1>1 DEF OpenAmounts
<1> HIDE DEF a, b
<1>4. Total(b) = Total(a) + b[Len(b)]
  BY <1>2, <1>3, TotalAppend
<1>5. QED
  BY <1>2, <1>3, <1>4 DEF Open, a, b, new

(***************************************************************************)
(* A row that is not locked is pending to the view, and the job that has   *)
(* locked an order has it locked.                                          *)
(***************************************************************************)
RowsAreSeen ==
    /\ \A t \in DOMAIN rows :
          rows[t].locks = 0 => rows[t].txStatus \in {"PENDING", "PROCESSING"}
    /\ job.pc \in {"locked", "done"} => rows[job.txId].locks # 0

(***************************************************************************)
(* OvercommitOnlyIfRaced and ShownStaysTrue together, of any balance, rows *)
(* and calls: a call alone has been shown no more than is left for it, so  *)
(* what it inserts fits.                                                   *)
(***************************************************************************)
Twice(rs) == \E t \in DOMAIN rs : rs[t].locks > 1
Left(amount, rs) == amount - Open(rs)
ShownIn(call, amount) ==
    IF call.pc = "listed" THEN TheOnly(call.list)
    ELSE IF call.view = {} THEN amount ELSE TheOnly(call.view)
Fits(amount, rs, calls) ==
    /\ 0 <= Left(amount, rs)
    /\ \A r \in Requests :
          calls[r].pc \in {"viewed", "listed"} => ShownIn(calls[r], amount) <= Left(amount, rs)

MoneyInv ==
    /\ FlightInv /\ RowsAreSeen
    /\ past.raced \/ Twice(rows) \/ Fits(availableAmt, rows, request)

\* What fits is not overcommitted, and what was shown still fits.
LEMMA MoneyIs == MoneyInv => OvercommitOnlyIfRaced /\ ShownStaysTrue
<1> SUFFICES ASSUME MoneyInv, ~past.raced, ~RanTwice
             PROVE  /\ AmountOf(Unlocked) <= availableAmt
                    /\ \A r \in Requests : request[r].pc \in {"viewed", "listed"} =>
                          Shown(r) <= availableAmt - AmountOf(Unlocked)
  BY DEF OvercommitOnlyIfRaced, ShownStaysTrue
<1>1. ~Twice(rows)
  BY DEF Twice, RanTwice
<1>2. Fits(availableAmt, rows, request)
  BY <1>1 DEF MoneyInv
<1>3. AmountOf(Unlocked) = Open(rows) /\ Open(rows) \in Nat /\ availableAmt \in Int
  BY OpenIs, OpenType DEF MoneyInv, FlightInv, TypeInv
<1>4. \A r : Shown(r) = ShownIn(request[r], availableAmt)
  BY DEF Shown, Listed, ShownIn
<1>5. QED
  BY <1>2, <1>3, <1>4 DEF Fits, Left

LEMMA InitMoney == Init => MoneyInv
<1> SUFFICES ASSUME Init PROVE MoneyInv
  OBVIOUS
<1>1. TypeInv /\ DOMAIN rows = {} /\ availableAmt = 0 /\ job.pc = "idle"
  BY InitType DEF Init, NoJob
<1>2. Unlocked = {}
  BY <1>1 DEF Unlocked
<1>3. Open(rows) = 0
  BY <1>1, <1>2, OpenEmpty
<1>4. \A r \in Requests : request[r] = NoRequest
  BY DEF Init
<1>5. FlightInv
  BY <1>1, <1>4 DEF FlightInv, InFlight, NoRequest
<1>6. QED
  BY <1>1, <1>3, <1>4, <1>5 DEF MoneyInv, RowsAreSeen, Fits, Left, NoRequest

\* A call alone inserts no more than it was shown.
LEMMA CallMoney ==
    ASSUME MoneyInv, NEW r \in Requests, Calls(r)
    PROVE  /\ RowsAreSeen'
           /\ past'.raced \/ Twice(rows') \/ Fits(availableAmt', rows', request')
<1>1. /\ TypeInv /\ request \in [Requests -> RequestType] /\ request[r] \in RequestType
      /\ rows \in Seq(RowType) /\ availableAmt \in Int
      /\ RowsAreSeen /\ FlightInv
  BY DEF MoneyInv, FlightInv, TypeInv
<1>2. /\ UNCHANGED <<availableAmt, job>>
      /\ \A q \in Requests \ {r} : request'[q] = request[q]
      /\ \/ /\ \E amount \in Amounts : placeOrder(r, amount)
            /\ InFlight' = InFlight \cup {r}
            /\ past'.raced = (past.raced \/ InFlight # {})
         \/ /\ FindAccountLeaf(r) \/ FindAvailableView(r) \/ FindTokenLeaf(r)
            /\ UNCHANGED past
         \/ /\ Reject(r) \/ Insert(r)
            /\ r \in InFlight /\ UNCHANGED past
  BY <1>1, CallFrame
<1>3. Open(rows) \in Nat
  BY <1>1, OpenType
<1>4. ASSUME UNCHANGED rows PROVE RowsAreSeen'
  BY <1>1, <1>2, <1>4 DEF RowsAreSeen
<1>5. CASE \E amount \in Amounts : placeOrder(r, amount)
  <2>1. /\ request[r].pc = "idle" /\ request'[r].pc = "asking" /\ UNCHANGED rows
    BY <1>1, <1>5 DEF placeOrder, RequestType
  <2>2. past'.raced = (past.raced \/ InFlight # {})
    BY <1>2, <2>1 DEF FindAccountLeaf, FindAvailableView, FindTokenLeaf, Reject, Insert, BothAnswered
  <2>3. InFlight = {} => \A q \in Requests : request'[q].pc \notin {"viewed", "listed"}
    BY <1>2, <2>1 DEF InFlight
  <2>4. QED
    BY <1>2, <1>4, <2>1, <2>2, <2>3 DEF MoneyInv, Fits
<1>6. ASSUME UNCHANGED <<rows, past>>,
             request'[r].pc \in {"viewed", "listed"} /\ ~past.raced /\ ~Twice(rows) =>
                ShownIn(request'[r], availableAmt) <= Left(availableAmt, rows)
      PROVE  /\ RowsAreSeen'
             /\ past'.raced \/ Twice(rows') \/ Fits(availableAmt', rows', request')
  BY <1>2, <1>4, <1>6 DEF MoneyInv, Fits
<1>7. CASE FindAccountLeaf(r)
  <2>1. request'[r].pc = "asking" /\ UNCHANGED <<rows, past>>
    BY <1>1, <1>7 DEF FindAccountLeaf, RequestType
  <2>2. QED
    BY <1>6, <2>1
<1>8. CASE FindAvailableView(r)
  <2>1. /\ request'[r].pc = "viewed" /\ request'[r].view = AvailableView
        /\ UNCHANGED <<rows, past>>
    BY <1>1, <1>8 DEF FindAvailableView, RequestType
  <2>2. Unlocked \subseteq PendingOrders
    BY <1>1 DEF Unlocked, PendingOrders, IsPending, RowsAreSeen
  <2>3. ShownIn(request'[r], availableAmt) <= Left(availableAmt, rows)
    <3>1. CASE PendingOrders = {}
      <4>1. Unlocked = {}
        BY <2>2, <3>1
      <4>2. Open(rows) = 0
        BY <1>1, <4>1, OpenEmpty
      <4>3. ShownIn(request'[r], availableAmt) = availableAmt
        BY <2>1, <3>1 DEF ShownIn, AvailableView
      <4>4. QED
        BY <1>1, <4>2, <4>3 DEF Left
    <3>2. CASE PendingOrders # {}
      <4>1. AmountOf(PendingOrders) \in Nat
        BY <1>1, AmountType
      <4>2. Open(rows) <= AmountOf(PendingOrders)
        BY <1>1, <2>2, OpenIsPending
      <4>3. ShownIn(request'[r], availableAmt) = availableAmt - AmountOf(PendingOrders)
        BY <2>1, <3>2, TheOnlyIs DEF ShownIn, AvailableView
      <4>4. QED
        BY <1>1, <1>3, <4>1, <4>2, <4>3 DEF Left
    <3>3. QED
      BY <3>1, <3>2
  <2>4. QED
    BY <1>6, <2>1, <2>3
<1>9. CASE FindTokenLeaf(r)
  <2>1. /\ request[r].pc = "viewed" /\ request'[r].pc = "listed"
        /\ request'[r].list = {Listed(request[r].view)}
        /\ UNCHANGED <<rows, past>>
    BY <1>1, <1>9 DEF FindTokenLeaf, RequestType
  <2>2. ShownIn(request'[r], availableAmt) = Listed(request[r].view)
    BY <2>1, TheOnlyIs DEF ShownIn
  <2>3. ShownIn(request[r], availableAmt) = Listed(request[r].view)
    BY <2>1 DEF ShownIn, Listed
  <2>4. ~past.raced /\ ~Twice(rows) =>
           ShownIn(request'[r], availableAmt) <= Left(availableAmt, rows)
    BY <2>1, <2>2, <2>3 DEF MoneyInv, Fits
  <2>5. QED
    BY <1>6, <2>1, <2>4
<1>10. CASE Reject(r)
  <2>1. request'[r].pc = "idle" /\ UNCHANGED <<rows, past>>
    BY <1>1, <1>10 DEF Reject, NoRequest
  <2>2. QED
    BY <1>6, <2>1
<1>11. CASE Insert(r)
  <2> DEFINE row == [amount |-> request[r].amount, txStatus |-> "PENDING", locks |-> 0]
  <2>1. /\ request[r].pc = "listed" /\ TheOnly(request[r].list) >= request[r].amount
        /\ rows' = Append(rows, row) /\ request'[r].pc = "idle" /\ UNCHANGED past
    BY <1>1, <1>11 DEF Insert, BothAnswered, Enough, NoRequest
  <2>2. row \in RowType /\ row.locks = 0 /\ row.amount = request[r].amount
        /\ row.txStatus = "PENDING" /\ request[r].amount \in Nat
    BY <1>1 DEF RowType, RequestType
  <2> HIDE DEF row
  <2>3. Open(rows') = Open(rows) + request[r].amount
    BY <1>1, <2>1, <2>2, OpenInserted
  <2>4. /\ DOMAIN rows' = DOMAIN rows \cup {Len(rows) + 1}
        /\ rows'[Len(rows) + 1] = row
        /\ \A t \in DOMAIN rows : rows'[t] = rows[t]
    BY <1>1, <2>1
  <2>5. RowsAreSeen'
    <3>1. job.pc \in {"locked", "done"} => job.txId \in DOMAIN rows
      BY <1>1 DEF TypeInv
    <3>2. QED
      BY <1>1, <1>2, <2>2, <2>4, <3>1 DEF RowsAreSeen
  <2>6. ASSUME ~past.raced, ~Twice(rows') PROVE Fits(availableAmt', rows', request')
    <3>1. ~Twice(rows)
      BY <2>4, <2>6 DEF Twice
    <3>2. request[r].amount <= Left(availableAmt, rows)
      <4>1. TheOnly(request[r].list) <= Left(availableAmt, rows)
        BY <2>1, <2>6, <3>1 DEF MoneyInv, Fits, ShownIn
      <4>2. TheOnly(request[r].list) \in Int
        <5>1. PICK n \in Int : request[r].list = {n}
          BY <1>1, <2>1 DEF TypeInv, RequestType, Answers
        <5>2. QED
          BY <5>1, TheOnlyIs
      <4>3. QED
        BY <1>1, <1>3, <2>1, <2>2, <4>1, <4>2 DEF Left
    <3>3. 0 <= Left(availableAmt', rows')
      BY <1>1, <1>2, <1>3, <2>2, <2>3, <3>2 DEF Left
    <3>4. \A q \in Requests : request'[q].pc \notin {"viewed", "listed"}
      <4>1. \A q \in Requests \ {r} : request[q].pc = "idle"
        BY <1>1, <2>1, <2>6 DEF FlightInv, InFlight
      <4>2. QED
        BY <1>2, <2>1, <4>1
    <3>5. QED
      BY <3>3, <3>4 DEF Fits
  <2>7. QED
    BY <2>1, <2>5, <2>6
<1>12. QED
  BY <1>2, <1>5, <1>7, <1>8, <1>9, <1>10, <1>11

\* Rows that change in nothing but their status, and a balance that does not fall.
LEMMA FitsKept ==
    ASSUME TypeInv, TypeInv', MoneyInv, UNCHANGED <<request, availableAmt>>,
           past'.raced = past.raced, DOMAIN rows' = DOMAIN rows,
           \A t \in DOMAIN rows :
              rows'[t].amount = rows[t].amount /\ rows'[t].locks = rows[t].locks
    PROVE  past'.raced \/ Twice(rows') \/ Fits(availableAmt', rows', request')
<1>1. Open(rows') = Open(rows)
  BY OpenSame DEF TypeInv
<1>2. Twice(rows') <=> Twice(rows)
  BY DEF Twice
<1>3. QED
  BY <1>1, <1>2 DEF MoneyInv, Fits, Left

\* Taking a row changes no amount.
LEMMA TakeMoney ==
    ASSUME MoneyInv, TypeInv', UNCHANGED request, past'.raced = past.raced,
           NEW t, NEW amount, Take(t, amount), t = 0 \/ t \in DOMAIN rows
    PROVE  /\ RowsAreSeen'
           /\ past'.raced \/ Twice(rows') \/ Fits(availableAmt', rows', request')
<1>1. TypeInv /\ rows \in Seq(RowType) /\ RowsAreSeen /\ DOMAIN rows = 1 .. Len(rows)
  BY DEF MoneyInv, FlightInv, TypeInv
<1>2. /\ UNCHANGED availableAmt /\ job'.pc = "taken"
      /\ rows' = rows \/ (t \in DOMAIN rows /\ rows' = [rows EXCEPT ![t].txStatus = "PROCESSING"])
  BY DEF Take, leafVars, SetStatus
<1>3. /\ DOMAIN rows' = DOMAIN rows
      /\ \A u \in DOMAIN rows :
            /\ rows'[u].amount = rows[u].amount /\ rows'[u].locks = rows[u].locks
            /\ rows'[u].txStatus = rows[u].txStatus \/ rows'[u].txStatus = "PROCESSING"
  <2>1. \A u \in DOMAIN rows : rows[u] \in RowType
    BY <1>1
  <2>2. QED
    BY <1>2, <2>1 DEF RowType
<1>4. RowsAreSeen'
  BY <1>1, <1>2, <1>3 DEF RowsAreSeen
<1>5. QED
  BY <1>1, <1>2, <1>3, <1>4, FitsKept

\* A job that locks an order for the first time takes from both sides alike.
LEMMA JobMoney ==
    ASSUME MoneyInv, TypeInv',
           \/ Takes \/ ReadOrigin \/ UpdateAccountToken \/ UpdateAccountNonce
           \/ MarkExecuted \/ FailJob \/ RestartSequencer
    PROVE  /\ RowsAreSeen'
           /\ past'.raced \/ Twice(rows') \/ Fits(availableAmt', rows', request')
<1>1. /\ TypeInv /\ job \in JobType /\ rows \in Seq(RowType) /\ availableAmt \in Int
      /\ RowsAreSeen /\ DOMAIN rows = 1 .. Len(rows)
  BY DEF MoneyInv, FlightInv, TypeInv
<1>2. UNCHANGED request /\ past'.raced = past.raced
  BY <1>1, JobFrame
<1>3. \A u \in DOMAIN rows : rows[u] \in RowType
  BY <1>1
<1>4. CASE Takes
  <2>1. ASSUME NEW t \in DOMAIN rows, TakeOrder(t) PROVE Take(t, rows[t].amount)
    BY <2>1 DEF TakeOrder
  <2>2. ASSUME NEW amount, TakeDeposit(amount) PROVE Take(0, amount)
    BY <2>2 DEF TakeDeposit
  <2>3. ASSUME TakeStalled
        PROVE  Take(job.txId, job.amount) /\ (job.txId = 0 \/ job.txId \in DOMAIN rows)
    BY <1>1, <2>3 DEF TakeStalled, TypeInv
  <2>4. QED
    BY <1>2, <1>4, <2>1, <2>2, <2>3, TakeMoney DEF Takes
<1>5. CASE ReadOrigin \/ UpdateAccountNonce \/ FailJob \/ RestartSequencer
  <2>1. /\ UNCHANGED <<availableAmt, rows>>
        /\ \/ job'.pc \notin {"locked", "done"}
           \/ job.pc = "locked" /\ job'.txId = job.txId
    <3>1. CASE ReadOrigin
      BY <1>1, <3>1 DEF ReadOrigin, leafVars, JobType
    <3>2. CASE UpdateAccountNonce
      BY <1>1, <3>2 DEF UpdateAccountNonce, JobType
    <3>3. CASE FailJob
      BY <3>3 DEF FailJob, leafVars, NoJob
    <3>4. CASE RestartSequencer
      BY <1>1, <3>4 DEF RestartSequencer, leafVars, JobType
    <3>5. QED
      BY <1>5, <3>1, <3>2, <3>3, <3>4
  <2>2. RowsAreSeen'
    BY <1>1, <2>1 DEF RowsAreSeen
  <2>3. QED
    BY <1>1, <1>2, <2>1, <2>2, FitsKept
<1>6. CASE MarkExecuted
  <2> DEFINE t == job.txId
  <2>1. /\ job.pc = "done" /\ t \in DOMAIN rows /\ UNCHANGED availableAmt /\ job' = NoJob
        /\ rows' = [rows EXCEPT ![t].txStatus = "L2EXECUTED"]
    BY <1>1, <1>6 DEF MarkExecuted, leafVars, SetStatus, TypeInv
  <2>2. rows[t].locks # 0
    BY <1>1, <2>1 DEF RowsAreSeen
  <2> HIDE DEF t
  <2>3. /\ DOMAIN rows' = DOMAIN rows
        /\ \A u \in DOMAIN rows :
              /\ rows'[u].amount = rows[u].amount /\ rows'[u].locks = rows[u].locks
              /\ u # t => rows'[u].txStatus = rows[u].txStatus
    BY <1>3, <2>1 DEF RowType
  <2>4. RowsAreSeen'
    BY <1>1, <2>1, <2>2, <2>3 DEF RowsAreSeen, NoJob
  <2>5. QED
    BY <1>1, <1>2, <2>1, <2>3, <2>4, FitsKept
<1>7. CASE UpdateAccountToken /\ job.txId = 0
  <2>1. /\ availableAmt' = availableAmt + job.amount /\ rows' = rows /\ job' = NoJob
    BY <1>7 DEF UpdateAccountToken
  <2>2. RowsAreSeen'
    BY <1>1, <2>1 DEF RowsAreSeen, NoJob
  <2>3. job.amount \in Nat /\ Open(rows) \in Nat
    BY <1>1, OpenType DEF JobType
  <2>4. Left(availableAmt', rows') = Left(availableAmt, rows) + job.amount
    BY <1>1, <2>1, <2>3 DEF Left
  <2>5. Left(availableAmt, rows) \in Int
    BY <1>1, <2>3 DEF Left
  <2>6. ASSUME ~past.raced, ~Twice(rows) PROVE Fits(availableAmt', rows', request')
    <3>1. Fits(availableAmt, rows, request)
      BY <2>6 DEF MoneyInv
    <3>2. 0 <= Left(availableAmt', rows')
      BY <2>3, <2>4, <2>5, <3>1 DEF Fits
    <3>3. ASSUME NEW r \in Requests, request[r].pc \in {"viewed", "listed"}
          PROVE  ShownIn(request[r], availableAmt') <= Left(availableAmt', rows')
      <4>1. ShownIn(request[r], availableAmt) <= Left(availableAmt, rows)
        BY <3>1, <3>3 DEF Fits
      <4>2. ShownIn(request[r], availableAmt) \in Int
        <5>1. request[r] \in RequestType
          BY <1>1 DEF TypeInv
        <5>2. request[r].pc = "listed" => \E n \in Int : request[r].list = {n}
          BY <1>1, <5>1 DEF TypeInv, RequestType, Answers
        <5>3. request[r].view # {} => \E n \in Int : request[r].view = {n}
          BY <5>1 DEF RequestType, Answers
        <5>4. QED
          BY <1>1, <5>2, <5>3, TheOnlyIs DEF ShownIn
      <4>3. \/ ShownIn(request[r], availableAmt') = ShownIn(request[r], availableAmt)
            \/ /\ ShownIn(request[r], availableAmt') = availableAmt'
               /\ ShownIn(request[r], availableAmt) = availableAmt
        BY DEF ShownIn
      <4>4. QED
        BY <1>1, <2>1, <2>3, <2>4, <2>5, <4>1, <4>2, <4>3
    <3>4. QED
      BY <1>2, <3>2, <3>3 DEF Fits
  <2>7. QED
    BY <1>2, <2>1, <2>2, <2>6
<1>8. CASE UpdateAccountToken /\ job.txId # 0
  <2> DEFINE t == job.txId
  <2>1. /\ t \in DOMAIN rows /\ job.amount = rows[t].amount
        /\ availableAmt' = availableAmt - job.amount
        /\ rows' = [rows EXCEPT ![t].locks = @ + 1]
        /\ job' = [job EXCEPT !.pc = "locked"]
    BY <1>1, <1>8 DEF UpdateAccountToken, TypeInv
  <2>2. job'.txId = t
    BY <1>1, <2>1 DEF JobType
  <2> HIDE DEF t
  <2>3. rows[t] \in RowType /\ rows[t].locks \in Nat /\ rows[t].amount \in Nat
    BY <1>3, <2>1 DEF RowType
  <2>4. /\ DOMAIN rows' = DOMAIN rows /\ rows'[t].locks = rows[t].locks + 1
        /\ \A u \in DOMAIN rows \ {t} : rows'[u] = rows[u]
    BY <1>3, <2>1 DEF RowType
  <2>5. RowsAreSeen'
    BY <1>1, <2>1, <2>2, <2>3, <2>4 DEF RowsAreSeen
  <2>6. ASSUME ~past.raced, ~Twice(rows') PROVE Fits(availableAmt', rows', request')
    <3>1. rows[t].locks = 0
      BY <2>1, <2>3, <2>4, <2>6 DEF Twice
    <3>2. ~Twice(rows)
      BY <2>1, <2>4, <2>6, <3>1 DEF Twice
    <3>3. Fits(availableAmt, rows, request)
      BY <2>6, <3>2 DEF MoneyInv
    <3>4. rows' \in Seq(RowType)
      BY DEF TypeInv
    <3>5. Open(rows') + rows[t].amount = Open(rows) /\ Open(rows') \in Nat /\ Open(rows) \in Nat
      BY <1>1, <2>1, <3>1, <3>4, OpenLocked, OpenType
    <3>6. Left(availableAmt', rows') = Left(availableAmt, rows)
      BY <1>1, <2>1, <2>3, <3>5 DEF Left
    <3>7. ASSUME NEW r \in Requests, request[r].pc \in {"viewed", "listed"}
          PROVE  ShownIn(request[r], availableAmt') <= Left(availableAmt, rows)
      <4>1. ShownIn(request[r], availableAmt) <= Left(availableAmt, rows)
        BY <3>3, <3>7 DEF Fits
      <4>2. \/ ShownIn(request[r], availableAmt') = ShownIn(request[r], availableAmt)
            \/ /\ ShownIn(request[r], availableAmt') = availableAmt'
               /\ ShownIn(request[r], availableAmt) = availableAmt
        BY DEF ShownIn
      <4>3. availableAmt' <= availableAmt /\ availableAmt' \in Int
        BY <1>1, <2>1, <2>3
      <4>4. Left(availableAmt, rows) \in Int
        BY <1>1, <3>5 DEF Left
      <4>5. QED
        BY <1>1, <4>1, <4>2, <4>3, <4>4
    <3>8. QED
      BY <1>2, <3>3, <3>6, <3>7 DEF Fits
  <2>7. QED
    BY <1>2, <2>5, <2>6
<1>9. QED
  BY <1>4, <1>5, <1>6, <1>7, <1>8

\* Every step keeps MoneyInv.
LEMMA MoneyStep == MoneyInv /\ [Next]_vars => MoneyInv'
<1> SUFFICES ASSUME MoneyInv, [Next]_vars PROVE MoneyInv'
  OBVIOUS
<1>1. FlightInv' /\ TypeInv'
  BY FlightStep DEF MoneyInv, FlightInv
<1>2. CASE UNCHANGED vars
  BY <1>1, <1>2 DEF MoneyInv, RowsAreSeen, vars, leafVars
<1>3. CASE ~UNCHANGED vars
  BY <1>1, <1>3, NextIs, CallMoney, JobMoney DEF MoneyInv
<1>4. QED
  BY <1>2, <1>3

(***************************************************************************)
(* Although the sequencer locks without a check, the orders that are not   *)
(* locked yet never sell more than the account has available, for any      *)
(* overlap of one call with jobs that lock, fail and run again: only two   *)
(* calls in flight at once, or a job that ran twice, overcommit it.        *)
(***************************************************************************)
THEOREM OvercommitCorrect == Spec => []OvercommitOnlyIfRaced
<1>1. MoneyInv => OvercommitOnlyIfRaced
  BY MoneyIs
<1>2. QED
  BY <1>1, InitMoney, MoneyStep, PTL DEF Spec

(***************************************************************************)
(* And what a call was shown, from two tables read one after the other, is *)
(* still there when it decides.                                            *)
(***************************************************************************)
THEOREM ShownCorrect == Spec => []ShownStaysTrue
<1>1. MoneyInv => ShownStaysTrue
  BY MoneyIs
<1>2. QED
  BY <1>1, InitMoney, MoneyStep, PTL DEF Spec
=============================================================================
