-------------------------- MODULE OperatorEvents --------------------------
(***************************************************************************)
(* The operator worker's listeners (operator.producer.ts): the Register    *)
(* and Deposit events of the L1 contract become accounts and rows of       *)
(* TransactionInfo.  Each event may be heard twice, in the history that is *)
(* queried at start-up and from the live listener, and every handler goes  *)
(* through several awaits between which all the others run.                *)
(*                                                                         *)
(* A registration emits a Register and a Deposit in one L1 transaction,    *)
(* and both handlers look for the hash of the transaction to know whether  *)
(* they have handled the event.                                            *)
(***************************************************************************)
EXTENDS Cluster, Sequences

CONSTANTS
    MaxTxs,      \* bound: L1 transactions, one in each L1 block
    MaxAccounts, \* bound: those that are registrations
    MaxMishaps   \* bound: exits, restarts and passes of checkoutHoldTx that throw

OPERATOR == "OPERATOR"

ASSUME OperatorEventsAssumption ==
    /\ OPERATOR \in Workers
    /\ MaxTxs \in Nat /\ MaxAccounts \in Nat /\ MaxMishaps \in Nat

Txs == 1 .. MaxTxs
Kinds == {"Register", "Deposit"}
Ways == {"historic", "live"}
Instances == Kinds \X Txs \X Ways

VARIABLES
    l1,        \* the transactions on L1: the account, and whether it registers
    sync,      \* kind -> lastSyncBlocknumberFor...Event
    rows,      \* kind -> transaction -> number of rows with its hash
    accounts,  \* the accounts in AccountInformation
    listener,  \* kind -> [pc, logs, from]
    handler,   \* instance of a handler -> where it is
    hold,      \* holdTx: the transactions of the deposits that wait
    checkout,  \* the pass of checkoutHoldTx
    past       \* what has happened, for the properties

dbVars == <<sync, rows, accounts>>
memVars == <<listener, handler, hold, checkout>>
vars == <<clusterVars, l1, dbVars, memVars, past>>

\* The seeds put one account into the table.
burnAccount == 0

NotListening == [k \in Kinds |-> [pc |-> "waiting", logs |-> {}, from |-> 0]]
NoHandlers == [i \in Instances |-> "none"]
NoCheckout == [pc |-> "idle", index |-> 0, newArr |-> <<>>]

Init ==
    /\ ClusterInit
    /\ l1 = <<>>
    /\ sync = [k \in Kinds |-> 0]
    /\ rows = [k \in Kinds |-> [t \in Txs |-> 0]]
    /\ accounts = {burnAccount}
    /\ listener = NotListening
    /\ handler = NoHandlers
    /\ hold = <<>>
    /\ checkout = NoCheckout
    /\ past = [mishaps |-> 0, failures |-> 0, heardTwice |-> {}]

Running == worker[OPERATOR] = "started"

-----------------------------------------------------------------------------
(* L1.  An account registers before it deposits again.                     *)

Emits(t, k) == k = "Deposit" \/ l1[t].registers
Emitted(k) == {t \in DOMAIN l1 : Emits(t, k)}
Registered == {l1[t].account : t \in DOMAIN l1}

LatestBlock == IF l1 = <<>> THEN 1 ELSE Len(l1)

NewL1Tx ==
    /\ Len(l1) < MaxTxs
    /\ \/ /\ Cardinality(Registered) < MaxAccounts
          /\ l1' = Append(l1, [account |-> Len(l1) + 1, registers |-> TRUE])
       \/ \E a \in Registered : l1' = Append(l1, [account |-> a, registers |-> FALSE])
    /\ UNCHANGED <<clusterVars, dbVars, memVars, past>>

-----------------------------------------------------------------------------
(* The two listeners.                                                      *)

\* Fault: no history, only what the latest block has.
HistoryLatest(k) == {t \in Emitted(k) : t >= LatestBlock}
\* The history is read from the sync position on.
History(k) == {t \in Emitted(k) : t >= sync[k]}

Query(k) ==
    /\ Running
    /\ listener[k].pc = "waiting"
    /\ listener' = [listener EXCEPT ![k].pc = "queried",
                                    ![k].logs = History(k)]
    /\ UNCHANGED <<clusterVars, l1, dbVars, handler, hold, checkout, past>>

\* The answer arrives: the live listener is attached, and the handlers of the
\* history are called: of Deposit at once, of Register one after the other.
\* The provider reports the events from the block that is the latest when the
\* listener is attached; those between the query and that block are not heard.
Attach(k) ==
    /\ listener[k].pc = "queried"
    /\ listener' = [listener EXCEPT ![k].pc = "attached", ![k].from = LatestBlock]
    /\ handler' = [i \in Instances |->
            IF i[1] = k /\ i[2] \in listener[k].logs /\ i[3] = "historic" THEN "called" ELSE handler[i]]
    /\ UNCHANGED <<clusterVars, l1, dbVars, hold, checkout, past>>

HistoryOf(k) == {handler[<<k, t, "historic">>] : t \in Txs}

\* for (...) await handler(log), in the order of the logs
ItsTurn(i) ==
    i[1] = "Register" =>
        /\ \A s \in 1 .. i[2] - 1 : handler[<<"Register", s, "historic">>] # "called"
        /\ HistoryOf("Register") \subseteq {"none", "called", "done"}

\* The block numbers are sorted downwards and the last is taken.
SyncAfter(logs) == CHOOSE t \in logs : \A s \in logs : t <= s

\* The history is through; the handlers of deposits may still be running.
\* Without logs the update sets no position.
UpdateSync(k) ==
    LET logs == listener[k].logs
    IN  /\ listener[k].pc = "attached"
        /\ k = "Register" => HistoryOf(k) \subseteq {"none", "done"}
        /\ listener' = [listener EXCEPT ![k].pc = "synced"]
        /\ sync' = [sync EXCEPT ![k] = IF logs = {} THEN @ ELSE SyncAfter(logs)]
        /\ UNCHANGED <<clusterVars, l1, rows, accounts, handler, hold, checkout, past>>

-----------------------------------------------------------------------------
(* handleRegisterEvent and handleDepositEvent.                             *)

\* Fault: the hash is not looked for.
oldTxNever(t) == FALSE
oldTx(t) == \E k \in Kinds : rows[k][t] > 0

Goto(i, pc) == handler' = [handler EXCEPT ![i] = pc]
FindOldTx(i) == Goto(i, IF oldTx(i[2]) THEN "done" ELSE "new")

\* The database answers a handler of the history ...
FindHistoric(i) ==
    /\ handler[i] = "called"
    /\ ItsTurn(i)
    /\ FindOldTx(i)
    /\ UNCHANGED <<clusterVars, l1, dbVars, listener, hold, checkout, past>>

\* ... or the handler of an event that was heard at any time before.
FindLive(k, t) ==
    /\ listener[k].from # 0
    /\ t \in Emitted(k)
    /\ t >= listener[k].from
    /\ handler[<<k, t, "live">>] = "none"
    /\ FindOldTx(<<k, t, "live">>)
    /\ past' = IF handler[<<k, t, "historic">>] = "none" THEN past
               ELSE [past EXCEPT !.heardTwice = @ \cup {t}]
    /\ UNCHANGED <<clusterVars, l1, dbVars, listener, hold, checkout>>

InsertRow(k, t) == rows' = [rows EXCEPT ![k][t] = @ + 1]

\* Promise.all: the row and the account are written in either order.
InsertRegister(i) ==
    /\ i[1] = "Register"
    /\ handler[i] \in {"new", "upserted"}
    /\ InsertRow("Register", i[2])
    /\ Goto(i, IF handler[i] = "new" THEN "inserted" ELSE "done")
    /\ UNCHANGED <<clusterVars, l1, sync, accounts, listener, hold, checkout, past>>

UpsertAccount(i) ==
    /\ i[1] = "Register"
    /\ handler[i] \in {"new", "inserted"}
    /\ accounts' = accounts \cup {l1[i[2]].account}
    /\ Goto(i, IF handler[i] = "new" THEN "upserted" ELSE "done")
    /\ UNCHANGED <<clusterVars, l1, sync, rows, listener, hold, checkout, past>>

\* A deposit whose account is there is inserted (an account stays, so the
\* await between the two is one with the one before); the others are held.
RecordDeposit(i) ==
    LET known == l1[i[2]].account \in accounts
    IN  /\ i[1] = "Deposit"
        /\ handler[i] = "new"
        /\ Goto(i, "done")
        /\ IF known
           THEN InsertRow("Deposit", i[2]) /\ UNCHANGED hold
           ELSE hold' = Append(hold, i[2]) /\ UNCHANGED rows
        /\ UNCHANGED <<clusterVars, l1, sync, accounts, listener, checkout, past>>

HandlerStep(i) ==
    FindHistoric(i) \/ InsertRegister(i) \/ UpsertAccount(i) \/ RecordDeposit(i)

-----------------------------------------------------------------------------
(* checkoutHoldTx.  The handlers append to the array the loop runs over,   *)
(* and the loop looks at its length each time.                             *)

StartCheckout ==
    /\ Running
    /\ checkout.pc = "idle"
    /\ hold # <<>>
    /\ checkout' = [pc |-> "looping", index |-> 1, newArr |-> <<>>]
    /\ UNCHANGED <<clusterVars, l1, dbVars, listener, handler, hold, past>>

\* Fault: the loop ends where the array ended when the pass began, as
\* Promise.all over a copy would.
LoopIsOverAtOnce(index) == TRUE
LoopIsOver(index) == index = Len(hold)

\* The next deposit, or the end of the pass: what it kept replaces the array.
GoOn(newArr) ==
    IF LoopIsOver(checkout.index)
    THEN hold' = newArr /\ checkout' = NoCheckout
    ELSE /\ checkout' = [pc |-> "looping", index |-> checkout.index + 1, newArr |-> newArr]
         /\ UNCHANGED hold

\* The deposits held have no accountId, so the condition is empty: any
\* account will do.
CheckoutNext ==
    /\ checkout.pc = "looping"
    /\ IF accounts # {}
       THEN InsertRow("Deposit", hold[checkout.index]) /\ GoOn(checkout.newArr)
       ELSE GoOn(Append(checkout.newArr, hold[checkout.index])) /\ UNCHANGED rows
    /\ UNCHANGED <<clusterVars, l1, sync, accounts, listener, handler, past>>

\* Fault: the flag stays set.
AfterFailureStuck(c) == [c EXCEPT !.pc = "stuck"]
\* finally { holdTxProcessing = false }
AfterFailure(c) == NoCheckout

\* A query throws: the array is as it was, though rows were inserted.
FailCheckout ==
    /\ checkout.pc = "looping"
    /\ past.mishaps + past.failures < MaxMishaps
    /\ checkout' = AfterFailure(checkout)
    /\ past' = [past EXCEPT !.failures = @ + 1]
    /\ UNCHANGED <<clusterVars, l1, dbVars, listener, handler, hold>>

-----------------------------------------------------------------------------
(* Exits and restarts.  An insert that throws in a handler is caught by    *)
(* nobody and ends the worker, too.                                        *)

ForgetMemory ==
    /\ listener' = NotListening
    /\ handler' = NoHandlers
    /\ hold' = <<>>
    /\ checkout' = NoCheckout

Mishap ==
    /\ past.mishaps + past.failures < MaxMishaps
    /\ past' = [past EXCEPT !.mishaps = @ + 1]
    /\ UNCHANGED <<l1, dbVars>>

\* What the other workers do once they have started is not in this module.
WorkerExits(w) ==
    /\ Exit(w)
    /\ w = OPERATOR \/ worker[w] # "started"
    /\ Mishap
    /\ IF w = OPERATOR THEN ForgetMemory ELSE UNCHANGED memVars

Restart ==
    /\ ClusterRestart
    /\ Mishap
    /\ ForgetMemory

\* Where the core process ends no worker has started.
CoreStep ==
    /\ ClusterStep
    /\ UNCHANGED <<l1, dbVars, memVars, past>>

ProgramStep ==
    \/ CoreStep
    \/ \E k \in Kinds : Query(k) \/ Attach(k) \/ UpdateSync(k)
    \/ \E k \in Kinds, t \in Txs : FindLive(k, t)
    \/ \E i \in Instances : HandlerStep(i)
    \/ StartCheckout
    \/ CheckoutNext

Next ==
    \/ ProgramStep
    \/ NewL1Tx
    \/ FailCheckout
    \/ \E w \in Workers : WorkerExits(w)
    \/ Restart

\* Messages arrive, queries are answered, timers fire and the event loop calls
\* what is pending.  Every step of the program leads forward, so fairness of
\* them together is fairness of each.
Spec == Init /\ [][Next]_vars /\ WF_vars(ProgramStep)

-----------------------------------------------------------------------------
\* A deposit leaves the held ones only by its row: deposits held while a pass
\* of checkoutHoldTx is awaiting the database are not lost when the pass
\* replaces the array, nor when it throws.  (A restart forgets them.)
Held(t) == \E j \in DOMAIN hold : hold[j] = t
HeldIsRecorded ==
    [][\A t \in Txs : Held(t) /\ ~Held(t)' => rows["Deposit"][t]' > 0 \/ past'.mishaps > past.mishaps]_vars

\* The check for the hash and the insert are apart, and a restart hears all
\* the history again.  Still an event gets two rows only when it was heard
\* twice by one process or a pass of checkoutHoldTx threw.
TwiceOnlyIfHeardTwice ==
    \A k \in Kinds, t \in Txs :
        rows[k][t] > 1 => t \in past.heardTwice \/ past.failures > 0

\* Whenever the operator starts, also after its process ended with events in
\* handlers, among the held deposits or not heard at all, every L1 transaction
\* there is by then gets a row unless the process ends again: the sync
\* position, and that either event's row stands for both, lose none.
Starting == Running /\ \A k \in Kinds : listener[k].pc = "waiting"
StartRecordsAll ==
    \A t \in Txs : (t \in DOMAIN l1 /\ Starting) ~> (oldTx(t) \/ ~Running)

\* Again and again, all that was heard has a row of its L1 transaction, held or
\* not, also when passes of checkoutHoldTx throw: no deposit is held for good.
Heard(t) == \E k \in Kinds, y \in Ways : handler[<<k, t, y>>] # "none"
HeardIsRecorded ==
    []<>(\A t \in Txs : Heard(t) => oldTx(t) \/ past.mishaps > 0)

\* Every worker starts unless one exits.
EveryoneStarts == <>((\A w \in Workers : worker[w] = "started") \/ past.mishaps > 0)
=============================================================================
