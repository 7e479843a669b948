--------------------------- MODULE EconomyProofs ----------------------------
(***************************************************************************)
(* Proofs about purchases and escrows of the SDK, for any agents, objects, *)
(* policies, amounts and overlapping calls, while either adapter is in use *)
(* or one is exchanged for the other between two awaits: who is paid, and  *)
(* how often.  Then proofs about the SDK's credits, for any agents, asset  *)
(* types, amounts and grain: the ledger and what was granted.              *)
(***************************************************************************)
EXTENDS AgentRuntime, CreditLedger, TLAPS

-----------------------------------------------------------------------------
(* The inductive invariant                                                 *)

Results == {"sent", "ok", "failed"}
BuyCall == [op : {"buy"}, at : {"paying", "moving"}, result : Results,
            buyer : AgentIds, whom : AgentIds, seller : AgentIds,
            object : Objects, amount : Nat]
LockCall == [op : {"createEscrow"}, at : {"locking"}, result : Results,
             buyer : AgentIds, seller : AgentIds, amount : Nat]
ReleaseCall == [op : {"release"}, at : {"releasing"}, result : Results,
                escrow : Escrows]
RefundCall == [op : {"refund"}, at : {"refunding"}, result : Results,
               escrow : Escrows]

CallsOK == calls \in [Calls -> {NoCall, Finished} \cup BuyCall \cup LockCall
                                 \cup ReleaseCall \cup RefundCall]

\* What is known of a purchase, wherever its call stands.
IsPurchase(x, transaction, paid) ==
    /\ paid \in {0, 1}
    /\ x.op = "buy" => transaction.status = "PENDING"
    /\ x.op # "buy" /\ x # Finished =>
           transaction = NoTransaction /\ paid = 0
    /\ x \in BuyCall /\ x.at = "paying" =>
           /\ x.result = "sent" => paid = 0
           /\ x.result = "ok" => paid = 1
    /\ x \in BuyCall /\ x.at = "moving" => paid = 1
    /\ transaction.status = "SETTLED" => paid = 1
    /\ transaction.status = "BLOCKED_BY_POLICY" => paid = 0

PurchaseInv == \A c \in Calls : IsPurchase(calls[c], transactions[c], payments[c])

\* The store has paid a seller only behind a record that lets nobody ask again.
EscrowsInv ==
    /\ \A c \in Calls : calls[c] \in {NoCall} \cup LockCall => records[c] = NoRecord
    /\ \A e \in Escrows :
          /\ releases[e] \in {0, 1}
          /\ releases[e] = 1 =>
                /\ records[e] # NoRecord
                /\ records[e].hashIsHex
                /\ records[e].status \notin {"LOCKED", "DELIVERED"}

RuntimeInv == RuntimeTypeOK /\ CallsOK /\ PurchaseInv /\ EscrowsInv

-----------------------------------------------------------------------------
(* Balances                                                                *)

LEMMA Rounds ==
    ASSUME NEW n \in Int
    PROVE  /\ RoundMilli(n) \in Int
           /\ n >= 0 => RoundMilli(n) \in Nat
           /\ \A m \in Nat : m % Milli = 0 /\ n >= m => RoundMilli(n) >= m
BY SMT DEF RoundMilli, Milli

LEMMA Shifts ==
    ASSUME NEW ledger \in [Registered -> Nat], NEW a, NEW delta \in Int,
           a \in Registered => ledger[a] + delta >= 0
    PROVE  /\ Shifted(ledger, a, delta) \in [Registered -> Nat]
           /\ a \in Registered =>
                  Shifted(ledger, a, delta)[a] = RoundMilli(ledger[a] + delta)
           /\ \A b \in Registered \ {a} : Shifted(ledger, a, delta)[b] = ledger[b]
<1>1. CASE a \in Registered
    <2>1. RoundMilli(ledger[a] + delta) \in Nat
        BY <1>1, Rounds
    <2>2. Shifted(ledger, a, delta) = [ledger EXCEPT ![a] = RoundMilli(ledger[a] + delta)]
        BY <1>1 DEF Shifted
    <2>3. QED
        BY <1>1, <2>1, <2>2
<1>2. CASE a \notin Registered
    BY <1>2 DEF Shifted
<1>3. QED
    BY <1>1, <1>2

LEMMA Days == \A n \in Nat : Today(n) \in Nat
BY DEF Today, HoursPerTick

-----------------------------------------------------------------------------
(* Calls                                                                   *)

LEMMA Distinct ==
    /\ NoCall # Finished /\ NoCall.op = "none" /\ Finished.op = "none"
    /\ NoCall \notin BuyCall \cup LockCall \cup ReleaseCall \cup RefundCall
    /\ Finished \notin BuyCall \cup LockCall \cup ReleaseCall \cup RefundCall
    /\ \A x \in BuyCall : x.op = "buy" /\ x.at \in {"paying", "moving"}
    /\ \A x \in LockCall : x.op = "createEscrow" /\ x.at = "locking"
    /\ \A x \in ReleaseCall : x.op = "release" /\ x.at = "releasing"
    /\ \A x \in RefundCall : x.op = "refund" /\ x.at = "refunding"
    /\ NoCall.at = "idle" /\ Finished.at = "done"
BY DEF NoCall, Finished, BuyCall, LockCall, ReleaseCall, RefundCall

\* What suspending a call comes to.
LEMMA Awaited ==
    ASSUME NEW c \in Calls, NEW call, NEW place, NEW succeeds \in BOOLEAN,
           Await(c, call, place, succeeds)
    PROVE  \E r \in Results :
               /\ calls' = [calls EXCEPT ![c] = Outcome(call, place, r)]
               /\ IsLocal => r = IF succeeds THEN "ok" ELSE "failed"
               /\ ~IsLocal => r # "ok"
BY DEF Await, Suspend, Results

\* Steps that pay nobody and release nothing.
LEMMA PurchaseStep ==
    ASSUME PurchaseInv, NEW c \in Calls,
           \A d \in Calls \ {c} : /\ calls'[d] = calls[d]
                                 /\ transactions'[d] = transactions[d]
                                 /\ payments'[d] = payments[d],
           IsPurchase(calls'[c], transactions'[c], payments'[c])
    PROVE  PurchaseInv'
BY DEF PurchaseInv

LEMMA EscrowsStep ==
    ASSUME EscrowsInv, UNCHANGED <<records, releases>>,
           \A d \in Calls :
               calls'[d] \in {NoCall} \cup LockCall =>
                   calls[d] \in {NoCall} \cup LockCall
    PROVE  EscrowsInv'
BY DEF EscrowsInv

LEMMA NewCall ==
    ASSUME CallsOK, NEW c \in Calls, NEW x, calls' = [calls EXCEPT ![c] = x]
    PROVE  /\ calls'[c] = x
           /\ \A d \in Calls \ {c} : calls'[d] = calls[d]
           /\ x \in {NoCall, Finished} \cup BuyCall \cup LockCall
                     \cup ReleaseCall \cup RefundCall => CallsOK'
BY DEF CallsOK

-----------------------------------------------------------------------------
(* Purchases                                                               *)

LEMMA BuyKeeps ==
    ASSUME RuntimeInv, NEW c \in Calls, NEW buyer \in AgentIds,
           NEW seller \in AgentIds, NEW o \in Objects, NEW amount \in Nat,
           buy(c, buyer, seller, o, amount)
    PROVE  RuntimeInv'
<1> DEFINE call == buyCall(buyer, seller, o, amount)
<1>1. /\ RuntimeTypeOK /\ CallsOK /\ PurchaseInv /\ EscrowsInv
      /\ calls[c] = NoCall /\ transactions[c] = NoTransaction /\ payments[c] = 0
    BY Distinct DEF RuntimeInv, buy, IsNew, PurchaseInv, IsPurchase
<1>2. /\ UNCHANGED <<policies, objects, records, tick, adapter, switches,
                     chainEscrows, chainOwner, releases>>
      /\ tick \in Nat /\ Today(tick) \in Nat
    BY <1>1, Days, StoreAssumption DEF buy, RuntimeTypeOK, StoreTypeOK
<1>3. \A r \in Results : Outcome(call, "paying", r) \in BuyCall
    BY DEF Outcome, buyCall, BuyCall
<1>4. CASE validateTransaction(buyer, amount, o) = {}
    <2>1. /\ SetTransaction(c, call, "PENDING")
          /\ transfer(c, call, "paying", buyer, seller, amount)
        BY <1>4 DEF buy
    <2> DEFINE succeeds == CanTransfer(buyer, seller, amount)
    <2>2. succeeds \in BOOLEAN /\ Await(c, call, "paying", succeeds)
        BY <2>1 DEF transfer, CanTransfer
    <2> HIDE DEF succeeds, call
    <2>3. PICK r \in Results :
              /\ calls' = [calls EXCEPT ![c] = Outcome(call, "paying", r)]
              /\ IsLocal => r = IF succeeds THEN "ok" ELSE "failed"
              /\ ~IsLocal => r # "ok"
        BY <2>2, Awaited
    <2> DEFINE x == Outcome(call, "paying", r)
    <2>4. x \in BuyCall /\ x.at = "paying" /\ x.result = r
        BY <1>3, Distinct DEF Outcome, call, buyCall
    <2> HIDE DEF x
    <2>5. CallsOK' /\ calls'[c] = x /\ \A d \in Calls \ {c} : calls'[d] = calls[d]
        BY <1>1, <2>3, <2>4, NewCall DEF x
    <2>6. /\ transactions'[c].status = "PENDING"
          /\ \A d \in Calls \ {c} : transactions'[d] = transactions[d]
          /\ transactions' \in [Calls -> {NoTransaction} \cup Transaction]
        <3> DEFINE t == [buyer |-> buyer, amount |-> amount, day |-> Today(tick),
                         status |-> "PENDING"]
        <3>1. t \in Transaction /\ t.status = "PENDING"
            BY <1>2 DEF Transaction
        <3>2. transactions' = [transactions EXCEPT ![c] = t]
            BY <2>1 DEF SetTransaction, call, buyCall
        <3> HIDE DEF t
        <3>3. transactions \in [Calls -> {NoTransaction} \cup Transaction]
            BY <1>1 DEF RuntimeTypeOK, StoreTypeOK
        <3>4. QED
            BY <3>1, <3>2, <3>3
    <2>7. /\ \A d \in Calls \ {c} : payments'[d] = payments[d]
          /\ payments'[c] \in {0, 1}
          /\ r = "sent" => payments'[c] = 0
          /\ r = "ok" => payments'[c] = 1
          /\ payments' \in [Calls -> Nat]
        BY <1>1, <2>1, <2>3 DEF transfer, succeeds, RuntimeTypeOK, SettlementTypeOK
    <2>8. balances' \in [Registered -> Nat]
        <3>1. CASE IsLocal /\ succeeds
            <4>1. buyer \in Registered /\ balances \in [Registered -> Nat]
                  /\ balances[buyer] - amount >= 0
                BY <1>1, <3>1 DEF succeeds, CanTransfer, RuntimeTypeOK, StoreTypeOK
            <4> DEFINE less == Shifted(balances, buyer, -amount)
            <4>2. less \in [Registered -> Nat]
                BY <4>1, Shifts
            <4> HIDE DEF less
            <4>3. seller \in Registered => less[seller] + amount >= 0
                BY <4>2
            <4>4. Shifted(less, seller, amount) \in [Registered -> Nat]
                BY <4>2, <4>3, Shifts
            <4>5. QED
                BY <2>1, <3>1, <4>4 DEF transfer, succeeds, less
        <3>2. CASE ~(IsLocal /\ succeeds)
            BY <1>1, <2>1, <3>2 DEF transfer, succeeds, RuntimeTypeOK, StoreTypeOK
        <3>3. QED
            BY <3>1, <3>2
    <2>9. RuntimeTypeOK'
        BY <1>1, <1>2, <2>5, <2>6, <2>7, <2>8
           DEF RuntimeTypeOK, StoreTypeOK, SettlementTypeOK, CallsOK
    <2>10. PurchaseInv'
        <3>1. IsPurchase(calls'[c], transactions'[c], payments'[c])
            BY <2>4, <2>5, <2>6, <2>7, Distinct DEF IsPurchase
        <3>2. QED
            BY <1>1, <2>5, <2>6, <2>7, <3>1, PurchaseStep
    <2>11. EscrowsInv'
        BY <1>1, <1>2, <2>4, <2>5, EscrowsStep, Distinct
    <2>12. QED
        BY <2>5, <2>9, <2>10, <2>11 DEF RuntimeInv
<1>5. CASE validateTransaction(buyer, amount, o) # {}
    <2>1. /\ SetTransaction(c, call, "BLOCKED_BY_POLICY") /\ Return(c)
          /\ UNCHANGED <<balances, payments>>
        BY <1>5 DEF buy
    <2>2. CallsOK' /\ calls'[c] = Finished
          /\ \A d \in Calls \ {c} : calls'[d] = calls[d]
        BY <1>1, <2>1, NewCall DEF Return
    <2>3. /\ transactions'[c].status = "BLOCKED_BY_POLICY"
          /\ \A d \in Calls \ {c} : transactions'[d] = transactions[d]
          /\ transactions' \in [Calls -> {NoTransaction} \cup Transaction]
        <3> DEFINE t == [buyer |-> buyer, amount |-> amount, day |-> Today(tick),
                         status |-> "BLOCKED_BY_POLICY"]
        <3>1. t \in Transaction /\ t.status = "BLOCKED_BY_POLICY"
            BY <1>2 DEF Transaction
        <3>2. transactions' = [transactions EXCEPT ![c] = t]
            BY <2>1 DEF SetTransaction, buyCall
        <3> HIDE DEF t
        <3>3. transactions \in [Calls -> {NoTransaction} \cup Transaction]
            BY <1>1 DEF RuntimeTypeOK, StoreTypeOK
        <3>4. QED
            BY <3>1, <3>2, <3>3
    <2>4. RuntimeTypeOK'
        BY <1>1, <1>2, <2>1, <2>2, <2>3
           DEF RuntimeTypeOK, StoreTypeOK, SettlementTypeOK, CallsOK
    <2>5. PurchaseInv'
        <3>1. IsPurchase(calls'[c], transactions'[c], payments'[c])
            BY <1>1, <2>1, <2>2, <2>3, Distinct DEF IsPurchase
        <3>2. QED
            BY <1>1, <2>1, <2>2, <2>3, <3>1, PurchaseStep
    <2>6. EscrowsInv'
        BY <1>1, <1>2, <2>2, EscrowsStep, Distinct
    <2>7. QED
        BY <2>2, <2>4, <2>5, <2>6 DEF RuntimeInv
<1>6. QED
    BY <1>4, <1>5

LEMMA StatusSet ==
    ASSUME RuntimeTypeOK, NEW c \in Calls, transactions[c].status = "PENDING",
           NEW status \in {"SETTLED", "FAILED"}, SetStatus(c, status)
    PROVE  /\ transactions'[c].status = status
           /\ \A d \in Calls \ {c} : transactions'[d] = transactions[d]
           /\ transactions' \in [Calls -> {NoTransaction} \cup Transaction]
<1>1. /\ transactions \in [Calls -> {NoTransaction} \cup Transaction]
      /\ transactions[c] \in Transaction
    BY DEF RuntimeTypeOK, StoreTypeOK, NoTransaction
<1> DEFINE t == [transactions[c] EXCEPT !.status = status]
<1>2. t \in Transaction /\ t.status = status
    BY <1>1 DEF Transaction
<1>3. transactions' = [transactions EXCEPT ![c] = t]
    BY DEF SetStatus
<1> HIDE DEF t
<1>4. QED
    BY <1>1, <1>2, <1>3

LEMMA ObjectSet ==
    ASSUME RuntimeTypeOK, NEW o \in Objects, NEW owner \in AgentIds,
           UpdateObject(o, "ACTIVE", owner)
    PROVE  objects' \in [Objects -> [owner : AgentIds, status : ObjectStatuses]]
BY DEF UpdateObject, RuntimeTypeOK, StoreTypeOK, ObjectStatuses

LEMMA BuyFailsKeeps ==
    ASSUME RuntimeInv, NEW c \in Calls, BuyFails(c)
    PROVE  RuntimeInv'
<1>1. /\ RuntimeTypeOK /\ CallsOK /\ PurchaseInv /\ EscrowsInv
      /\ calls[c].op = "buy" /\ transactions[c].status = "PENDING"
      /\ payments[c] \in {0, 1}
      /\ SetStatus(c, "FAILED") /\ Return(c)
      /\ UNCHANGED <<balances, policies, objects, records, tick, settleVars>>
    BY DEF RuntimeInv, BuyFails, IsAt, PurchaseInv, IsPurchase
<1>2. CallsOK' /\ calls'[c] = Finished
      /\ \A d \in Calls \ {c} : calls'[d] = calls[d]
    BY <1>1, NewCall DEF Return
<1>3. /\ transactions'[c].status = "FAILED"
      /\ \A d \in Calls \ {c} : transactions'[d] = transactions[d]
      /\ transactions' \in [Calls -> {NoTransaction} \cup Transaction]
    BY <1>1, StatusSet
<1>4. RuntimeTypeOK'
    BY <1>1, <1>2, <1>3
       DEF RuntimeTypeOK, StoreTypeOK, SettlementTypeOK, CallsOK, settleVars
<1>5. PurchaseInv'
    <2>1. IsPurchase(calls'[c], transactions'[c], payments'[c])
        BY <1>1, <1>2, <1>3, Distinct DEF IsPurchase, settleVars
    <2>2. QED
        BY <1>1, <1>2, <1>3, <2>1, PurchaseStep DEF settleVars
<1>6. EscrowsInv'
    BY <1>1, <1>2, EscrowsStep, Distinct DEF settleVars
<1>7. QED
    BY <1>2, <1>4, <1>5, <1>6 DEF RuntimeInv

LEMMA BuyDeliversKeeps ==
    ASSUME RuntimeInv, NEW c \in Calls, BuyDelivers(c)
    PROVE  RuntimeInv'
<1> DEFINE call == calls[c]
           succeeds == objects[call.object].owner = call.seller
                          /\ call.object \in Transferable
<1>1. /\ RuntimeTypeOK /\ CallsOK /\ PurchaseInv /\ EscrowsInv
      /\ call \in BuyCall /\ call.at = "paying" /\ call.result = "ok"
      /\ UNCHANGED <<balances, policies, records, transactions, tick, settleVars>>
    BY Distinct DEF RuntimeInv, BuyDelivers, IsAt, CallsOK
<1>2. transactions[c].status = "PENDING" /\ payments[c] = 1
    BY <1>1, Distinct DEF PurchaseInv, IsPurchase
<1>3. /\ Await(c, call, "moving", succeeds) /\ succeeds \in BOOLEAN
      /\ \/ UpdateObject(call.object, "ACTIVE", call.buyer)
         \/ UNCHANGED objects
    BY DEF BuyDelivers, transferEconomicObject
<1>4. objects' \in [Objects -> [owner : AgentIds, status : ObjectStatuses]]
    <2>1. call.object \in Objects /\ call.buyer \in AgentIds
        BY <1>1 DEF BuyCall
    <2>2. QED
        BY <1>1, <1>3, <2>1, ObjectSet DEF RuntimeTypeOK, StoreTypeOK
<1> HIDE DEF call, succeeds
<1>5. PICK r \in Results : calls' = [calls EXCEPT ![c] = Outcome(call, "moving", r)]
    BY <1>3, Awaited
<1> DEFINE x == Outcome(call, "moving", r)
<1>6. x \in BuyCall /\ x.at = "moving"
    BY <1>1 DEF Outcome, BuyCall
<1> HIDE DEF x
<1>7. CallsOK' /\ calls'[c] = x /\ \A d \in Calls \ {c} : calls'[d] = calls[d]
    BY <1>1, <1>5, <1>6, NewCall DEF x
<1>8. RuntimeTypeOK'
    BY <1>1, <1>4, <1>7
       DEF RuntimeTypeOK, StoreTypeOK, SettlementTypeOK, CallsOK, settleVars
<1>9. PurchaseInv'
    <2>1. IsPurchase(calls'[c], transactions'[c], payments'[c])
        BY <1>1, <1>2, <1>6, <1>7, Distinct DEF IsPurchase, settleVars
    <2>2. QED
        BY <1>1, <1>7, <2>1, PurchaseStep DEF settleVars
<1>10. EscrowsInv'
    BY <1>1, <1>6, <1>7, EscrowsStep, Distinct DEF settleVars
<1>11. QED
    BY <1>7, <1>8, <1>9, <1>10 DEF RuntimeInv

LEMMA BuySettlesKeeps ==
    ASSUME RuntimeInv, NEW c \in Calls, BuySettles(c)
    PROVE  RuntimeInv'
<1>1. /\ RuntimeTypeOK /\ CallsOK /\ PurchaseInv /\ EscrowsInv
      /\ calls[c] \in BuyCall /\ calls[c].at = "moving"
      /\ SetStatus(c, "SETTLED") /\ Return(c)
      /\ UNCHANGED <<balances, policies, records, tick, settleVars>>
      /\ \/ UpdateObject(calls[c].object, "ACTIVE", calls[c].buyer)
         \/ UNCHANGED objects
    BY Distinct DEF RuntimeInv, BuySettles, IsAt, CallsOK
<1>2. transactions[c].status = "PENDING" /\ payments[c] = 1
    BY <1>1, Distinct DEF PurchaseInv, IsPurchase
<1>3. objects' \in [Objects -> [owner : AgentIds, status : ObjectStatuses]]
    <2>1. calls[c].object \in Objects /\ calls[c].buyer \in AgentIds
        BY <1>1 DEF BuyCall
    <2>2. QED
        BY <1>1, <2>1, ObjectSet DEF RuntimeTypeOK, StoreTypeOK
<1>4. CallsOK' /\ calls'[c] = Finished
      /\ \A d \in Calls \ {c} : calls'[d] = calls[d]
    BY <1>1, NewCall DEF Return
<1>5. /\ transactions'[c].status = "SETTLED"
      /\ \A d \in Calls \ {c} : transactions'[d] = transactions[d]
      /\ transactions' \in [Calls -> {NoTransaction} \cup Transaction]
    BY <1>1, <1>2, StatusSet
<1>6. RuntimeTypeOK'
    BY <1>1, <1>3, <1>4, <1>5
       DEF RuntimeTypeOK, StoreTypeOK, SettlementTypeOK, CallsOK, settleVars
<1>7. PurchaseInv'
    <2>1. IsPurchase(calls'[c], transactions'[c], payments'[c])
        BY <1>1, <1>2, <1>4, <1>5, Distinct DEF IsPurchase, settleVars
    <2>2. QED
        BY <1>1, <1>4, <1>5, <2>1, PurchaseStep DEF settleVars
<1>8. EscrowsInv'
    BY <1>1, <1>4, EscrowsStep, Distinct DEF settleVars
<1>9. QED
    BY <1>4, <1>6, <1>7, <1>8 DEF RuntimeInv

-----------------------------------------------------------------------------
(* Escrows                                                                 *)

\* A step that touches one record and pays nobody.
LEMMA RecordStep ==
    ASSUME EscrowsInv, NEW e \in Escrows, UNCHANGED releases,
           \A f \in Escrows \ {e} : records'[f] = records[f],
           e \in Calls => calls'[e] \notin {NoCall} \cup LockCall,
           \A d \in Calls :
               calls'[d] \in {NoCall} \cup LockCall =>
                   calls[d] \in {NoCall} \cup LockCall,
           releases[e] = 1 =>
               /\ records'[e] # NoRecord
               /\ records'[e].hashIsHex
               /\ records'[e].status \notin {"LOCKED", "DELIVERED"}
    PROVE  EscrowsInv'
<1>1. Calls \subseteq Escrows
    BY DEF Escrows
<1>2. ASSUME NEW d \in Calls, calls'[d] \in {NoCall} \cup LockCall
      PROVE  records'[d] = NoRecord
    BY <1>1, <1>2 DEF EscrowsInv
<1>3. ASSUME NEW f \in Escrows
      PROVE  /\ releases'[f] \in {0, 1}
             /\ releases'[f] = 1 =>
                   /\ records'[f] # NoRecord
                   /\ records'[f].hashIsHex
                   /\ records'[f].status \notin {"LOCKED", "DELIVERED"}
    <2>1. CASE f = e
        BY <2>1 DEF EscrowsInv
    <2>2. CASE f # e
        BY <2>2 DEF EscrowsInv
    <2>3. QED
        BY <2>1, <2>2
<1>4. QED
    BY <1>2, <1>3 DEF EscrowsInv

LEMMA RecordSet ==
    ASSUME RuntimeTypeOK, NEW e \in Escrows, records[e] # NoRecord,
           NEW status \in EscrowStatuses, SetEscrow(e, status)
    PROVE  /\ records'[e].status = status /\ records'[e] # NoRecord
           /\ records'[e].hashIsHex = records[e].hashIsHex
           /\ \A f \in Escrows \ {e} : records'[f] = records[f]
           /\ records' \in [Escrows -> {NoRecord} \cup EscrowRecord]
<1>1. /\ records \in [Escrows -> {NoRecord} \cup EscrowRecord]
      /\ records[e] \in EscrowRecord
    BY DEF RuntimeTypeOK, StoreTypeOK
<1> DEFINE record == [records[e] EXCEPT !.status = status]
<1>2. /\ record \in EscrowRecord /\ record.status = status
      /\ record.hashIsHex = records[e].hashIsHex
    BY <1>1 DEF EscrowRecord
<1>3. records' = [records EXCEPT ![e] = record]
    BY DEF SetEscrow
<1>4. \A x \in EscrowRecord : x # NoRecord
    BY DEF EscrowRecord, EscrowStatuses, NoRecord
<1> HIDE DEF record
<1>5. QED
    BY <1>1, <1>2, <1>3, <1>4

LEMMA LockKeeps ==
    ASSUME RuntimeInv, NEW c \in Calls, NEW buyer \in AgentIds,
           NEW seller \in AgentIds, NEW amount \in Nat,
           createEscrow(c, buyer, seller, amount)
    PROVE  RuntimeInv'
<1> DEFINE call == [op |-> "createEscrow", at |-> "start", result |-> "none",
                    buyer |-> buyer, seller |-> seller, amount |-> amount]
           succeeds == CanLock(buyer, amount)
<1>1. /\ RuntimeTypeOK /\ CallsOK /\ PurchaseInv /\ EscrowsInv
      /\ calls[c] = NoCall /\ transactions[c] = NoTransaction /\ payments[c] = 0
      /\ UNCHANGED <<policies, objects, records, transactions, tick, settleVars>>
    BY Distinct DEF RuntimeInv, createEscrow, IsNew, PurchaseInv, IsPurchase
<1>2. /\ Await(c, call, "locking", succeeds) /\ succeeds \in BOOLEAN
      /\ balances' = IF IsLocal /\ succeeds
                     THEN Shifted(balances, buyer, -amount) ELSE balances
    BY DEF createEscrow, lockFunds, CanLock
<1>3. balances' \in [Registered -> Nat]
    <2>1. balances \in [Registered -> Nat]
        BY <1>1 DEF RuntimeTypeOK, StoreTypeOK
    <2>2. CASE IsLocal /\ succeeds
        <3>1. balances[buyer] - amount >= 0 /\ buyer \in Registered
            BY <2>1, <2>2 DEF CanLock
        <3>2. Shifted(balances, buyer, -amount) \in [Registered -> Nat]
            BY <2>1, <3>1, Shifts
        <3>3. QED
            BY <1>2, <2>2, <3>2
    <2>3. QED
        BY <1>2, <2>1, <2>2
<1>4. \A r \in Results : Outcome(call, "locking", r) \in LockCall
    BY DEF Outcome, LockCall
<1> HIDE DEF call, succeeds
<1>5. PICK r \in Results : calls' = [calls EXCEPT ![c] = Outcome(call, "locking", r)]
    BY <1>2, Awaited
<1> DEFINE x == Outcome(call, "locking", r)
<1>6. x \in LockCall
    BY <1>4
<1> HIDE DEF x
<1>7. CallsOK' /\ calls'[c] = x /\ \A d \in Calls \ {c} : calls'[d] = calls[d]
    BY <1>1, <1>5, <1>6, NewCall DEF x
<1>8. RuntimeTypeOK'
    BY <1>1, <1>3, <1>7
       DEF RuntimeTypeOK, StoreTypeOK, SettlementTypeOK, CallsOK, settleVars
<1>9. PurchaseInv'
    <2>1. IsPurchase(calls'[c], transactions'[c], payments'[c])
        BY <1>1, <1>6, <1>7, Distinct DEF IsPurchase, settleVars, NoTransaction
    <2>2. QED
        BY <1>1, <1>7, <2>1, PurchaseStep DEF settleVars
<1>10. EscrowsInv'
    BY <1>1, <1>6, <1>7, EscrowsStep, Distinct DEF settleVars
<1>11. QED
    BY <1>7, <1>8, <1>9, <1>10 DEF RuntimeInv

\* A call that is not a purchase ends.
LEMMA ReturnKeepsPurchases ==
    ASSUME CallsOK, PurchaseInv, NEW c \in Calls, calls[c].op # "buy",
           calls[c] # Finished, Return(c), UNCHANGED <<transactions, payments>>
    PROVE  /\ CallsOK' /\ calls'[c] = Finished
           /\ \A d \in Calls \ {c} : calls'[d] = calls[d]
           /\ PurchaseInv'
<1>1. CallsOK' /\ calls'[c] = Finished
      /\ \A d \in Calls \ {c} : calls'[d] = calls[d]
    BY NewCall DEF Return
<1>2. transactions[c] = NoTransaction /\ payments[c] = 0
    BY DEF PurchaseInv, IsPurchase
<1>3. IsPurchase(calls'[c], transactions'[c], payments'[c])
    BY <1>1, <1>2, Distinct DEF IsPurchase, NoTransaction
<1>4. QED
    BY <1>1, <1>3, PurchaseStep

LEMMA EscrowLockedKeeps ==
    ASSUME RuntimeInv, NEW c \in Calls, EscrowLocked(c)
    PROVE  RuntimeInv'
<1> DEFINE record == [buyer |-> calls[c].buyer, seller |-> calls[c].seller,
                      amount |-> calls[c].amount, status |-> "LOCKED",
                      hashIsHex |-> FALSE]
<1>1. /\ RuntimeTypeOK /\ CallsOK /\ PurchaseInv /\ EscrowsInv
      /\ calls[c] \in LockCall /\ c \in Escrows
      /\ Return(c) /\ UNCHANGED <<balances, policies, objects, transactions, tick, settleVars>>
      /\ records' = [records EXCEPT ![c] = record] \/ UNCHANGED records
    BY Distinct DEF RuntimeInv, EscrowLocked, IsAt, CallsOK, Escrows
<1>2. record \in EscrowRecord
    BY <1>1 DEF LockCall, EscrowRecord, EscrowStatuses
<1> HIDE DEF record
<1>3. /\ \A f \in Escrows \ {c} : records'[f] = records[f]
      /\ records' \in [Escrows -> {NoRecord} \cup EscrowRecord]
    BY <1>1, <1>2 DEF RuntimeTypeOK, StoreTypeOK
<1>4. /\ CallsOK' /\ calls'[c] = Finished /\ PurchaseInv'
      /\ \A d \in Calls \ {c} : calls'[d] = calls[d]
    BY <1>1, Distinct, ReturnKeepsPurchases DEF settleVars
<1>5. RuntimeTypeOK'
    BY <1>1, <1>3, <1>4
       DEF RuntimeTypeOK, StoreTypeOK, SettlementTypeOK, CallsOK, settleVars
<1>6. records[c] = NoRecord /\ releases[c] # 1
    BY <1>1 DEF EscrowsInv
<1>7. EscrowsInv'
    BY <1>1, <1>3, <1>4, <1>6, RecordStep, Distinct DEF settleVars
<1>8. QED
    BY <1>4, <1>5, <1>7 DEF RuntimeInv

LEMMA EscrowEndsKeeps ==
    ASSUME RuntimeInv, NEW c \in Calls, EscrowEnds(c)
    PROVE  RuntimeInv'
<1>1. /\ RuntimeTypeOK /\ CallsOK /\ PurchaseInv /\ EscrowsInv
      /\ calls[c].op \in {"release", "refund"}
      /\ Return(c) /\ UNCHANGED <<storeVars, settleVars>>
    BY DEF RuntimeInv, EscrowEnds, IsAt
<1>2. /\ CallsOK' /\ calls'[c] = Finished /\ PurchaseInv'
      /\ \A d \in Calls \ {c} : calls'[d] = calls[d]
    BY <1>1, Distinct, ReturnKeepsPurchases DEF storeVars, settleVars
<1>3. RuntimeTypeOK'
    BY <1>1, <1>2
       DEF RuntimeTypeOK, StoreTypeOK, SettlementTypeOK, CallsOK, storeVars, settleVars
<1>4. EscrowsInv'
    BY <1>1, <1>2, EscrowsStep, Distinct DEF storeVars, settleVars
<1>5. QED
    BY <1>2, <1>3, <1>4 DEF RuntimeInv

LEMMA DeliveryKeeps ==
    ASSUME RuntimeInv, NEW e \in Escrows, NEW isHex \in BOOLEAN,
           submitDelivery(e, isHex)
    PROVE  RuntimeInv'
<1>1. /\ RuntimeTypeOK /\ CallsOK /\ PurchaseInv /\ EscrowsInv
      /\ records[e].status = "LOCKED"
      /\ UNCHANGED <<balances, policies, objects, transactions, tick, calls,
                     settleVars>>
    BY DEF RuntimeInv, submitDelivery
<1>2. records \in [Escrows -> {NoRecord} \cup EscrowRecord] /\ records[e] \in EscrowRecord
    BY <1>1 DEF RuntimeTypeOK, StoreTypeOK, NoRecord
<1> DEFINE delivered == [records[e] EXCEPT !.status = "DELIVERED"]
           record == [delivered EXCEPT !.hashIsHex = isHex]
<1>3. delivered \in EscrowRecord
    BY <1>2 DEF EscrowRecord, EscrowStatuses
<1>4. records' = [records EXCEPT ![e] = record]
    BY DEF submitDelivery
<1> HIDE DEF delivered
<1>5. record \in EscrowRecord
    BY <1>3 DEF EscrowRecord
<1> HIDE DEF record
<1>6. /\ \A f \in Escrows \ {e} : records'[f] = records[f]
      /\ records' \in [Escrows -> {NoRecord} \cup EscrowRecord]
    BY <1>2, <1>4, <1>5
<1>7. CallsOK' /\ PurchaseInv' /\ RuntimeTypeOK'
    BY <1>1, <1>6 DEF CallsOK, PurchaseInv, RuntimeTypeOK, StoreTypeOK,
       SettlementTypeOK, settleVars
<1>8. /\ releases[e] # 1
      /\ e \in Calls => calls[e] \notin {NoCall} \cup LockCall
    BY <1>1 DEF EscrowsInv, NoRecord
<1>9. EscrowsInv'
    BY <1>1, <1>6, <1>8, RecordStep DEF settleVars
<1>10. QED
    BY <1>7, <1>9 DEF RuntimeInv

\* A call that is not a purchase begins.
LEMMA NewCallKeepsPurchases ==
    ASSUME CallsOK, PurchaseInv, NEW c \in Calls, calls[c] = NoCall,
           NEW x \in ReleaseCall \cup RefundCall,
           calls' = [calls EXCEPT ![c] = x], UNCHANGED <<transactions, payments>>
    PROVE  /\ CallsOK' /\ calls'[c] = x /\ PurchaseInv'
           /\ \A d \in Calls \ {c} : calls'[d] = calls[d]
<1>1. CallsOK' /\ calls'[c] = x
      /\ \A d \in Calls \ {c} : calls'[d] = calls[d]
    BY NewCall
<1>2. transactions[c] = NoTransaction /\ payments[c] = 0
    BY Distinct DEF PurchaseInv, IsPurchase
<1>3. IsPurchase(calls'[c], transactions'[c], payments'[c])
    BY <1>1, <1>2, Distinct DEF IsPurchase, NoTransaction
<1>4. QED
    BY <1>1, <1>3, PurchaseStep

\* What somebody of a record is credited with.
LEMMA Credited ==
    ASSUME RuntimeTypeOK, NEW e \in Escrows, records[e] # NoRecord, NEW a
    PROVE  Shifted(balances, a, records[e].amount) \in [Registered -> Nat]
<1>1. balances \in [Registered -> Nat] /\ records[e].amount \in Nat
    BY DEF RuntimeTypeOK, StoreTypeOK, EscrowRecord
<1>2. a \in Registered => balances[a] + records[e].amount >= 0
    BY <1>1
<1>3. QED
    BY <1>1, <1>2, Shifts

LEMMA ReleaseKeeps ==
    ASSUME RuntimeInv, NEW c \in Calls, NEW e \in Escrows, verifyAndRelease(c, e)
    PROVE  RuntimeInv'
<1> DEFINE call == escrowCall("release", e)
<1>1. /\ RuntimeTypeOK /\ CallsOK /\ PurchaseInv /\ EscrowsInv
      /\ calls[c] = NoCall
      /\ records[e].status = "DELIVERED" /\ records[e].hashIsHex
      /\ records[e] # NoRecord
      /\ UNCHANGED <<policies, objects, transactions, tick, adapter, switches,
                     chainEscrows, chainOwner, payments>>
    BY DEF RuntimeInv, verifyAndRelease, IsNew, NoRecord
<1>2. /\ Await(c, call, "releasing", TRUE)
      /\ IF IsLocal
         THEN /\ balances' = Shifted(balances, records[e].seller, records[e].amount)
              /\ SetEscrow(e, "RELEASED")
              /\ releases' = [releases EXCEPT ![e] = @ + 1]
         ELSE /\ SetEscrow(e, "VERIFIED")
              /\ UNCHANGED <<balances, releases>>
    BY DEF verifyAndRelease, releaseEscrow
<1>3. /\ balances' \in [Registered -> Nat]
      /\ \E status \in {"RELEASED", "VERIFIED"} : SetEscrow(e, status)
    <2>1. Shifted(balances, records[e].seller, records[e].amount) \in [Registered -> Nat]
        BY <1>1, Credited
    <2>2. balances \in [Registered -> Nat]
        BY <1>1 DEF RuntimeTypeOK, StoreTypeOK
    <2>3. QED
        BY <1>2, <2>1, <2>2
<1>4. /\ records'[e].status \in {"RELEASED", "VERIFIED"} /\ records'[e] # NoRecord
      /\ records'[e].hashIsHex
      /\ \A f \in Escrows \ {e} : records'[f] = records[f]
      /\ records' \in [Escrows -> {NoRecord} \cup EscrowRecord]
    BY <1>1, <1>3, RecordSet DEF EscrowStatuses
<1>5. releases[e] = 0
    BY <1>1 DEF EscrowsInv
<1>6. /\ IsLocal => releases'[e] = 1
      /\ ~IsLocal => releases'[e] = 0
      /\ \A f \in Escrows \ {e} : releases'[f] = releases[f]
      /\ releases' \in [Escrows -> Nat]
    BY <1>1, <1>2, <1>5 DEF RuntimeTypeOK, SettlementTypeOK
<1>7. \A r \in Results : Outcome(call, "releasing", r) \in ReleaseCall
    BY DEF Outcome, escrowCall, ReleaseCall
<1>8. \A r \in Results : /\ Outcome(call, "releasing", r).result = r
                         /\ Outcome(call, "releasing", r).escrow = e
    BY DEF Outcome, escrowCall
<1> HIDE DEF call
<1>9. PICK r \in Results :
          /\ calls' = [calls EXCEPT ![c] = Outcome(call, "releasing", r)]
          /\ IsLocal => r = "ok"
    <2>1. \A succeeds \in BOOLEAN :
              Await(c, call, "releasing", succeeds) =>
              \E r \in Results :
                  /\ calls' = [calls EXCEPT ![c] = Outcome(call, "releasing", r)]
                  /\ IsLocal => r = IF succeeds THEN "ok" ELSE "failed"
        BY Awaited
    <2>2. QED
        BY <1>2, <2>1
<1> DEFINE x == Outcome(call, "releasing", r)
<1>10. x \in ReleaseCall /\ x.result = r /\ x.escrow = e
    BY <1>7, <1>8
<1> HIDE DEF x
<1>11. /\ CallsOK' /\ calls'[c] = x /\ PurchaseInv'
       /\ \A d \in Calls \ {c} : calls'[d] = calls[d]
    BY <1>1, <1>9, <1>10, NewCallKeepsPurchases DEF x
<1>12. RuntimeTypeOK'
    BY <1>1, <1>3, <1>4, <1>6, <1>11
       DEF RuntimeTypeOK, StoreTypeOK, SettlementTypeOK, CallsOK
<1>13. EscrowsInv'
    <2>1. ASSUME NEW d \in Calls, calls'[d] \in {NoCall} \cup LockCall
          PROVE  records'[d] = NoRecord
        <3>1. d # c
            BY <1>10, <1>11, <2>1, Distinct
        <3>2. records[d] = NoRecord /\ d \in Escrows
            BY <1>1, <1>11, <2>1, <3>1 DEF EscrowsInv, Escrows
        <3>3. QED
            BY <1>1, <1>4, <3>2
    <2>2. ASSUME NEW f \in Escrows
          PROVE  /\ releases'[f] \in {0, 1}
                 /\ releases'[f] = 1 =>
                       /\ records'[f] # NoRecord
                       /\ records'[f].hashIsHex
                       /\ records'[f].status \notin {"LOCKED", "DELIVERED"}
        <3>1. CASE f = e
            BY <1>4, <1>6, <3>1
        <3>2. CASE f # e
            BY <1>1, <1>4, <1>6, <3>2 DEF EscrowsInv
        <3>3. QED
            BY <3>1, <3>2
    <2>3. QED
        BY <2>1, <2>2 DEF EscrowsInv
<1>14. QED
    BY <1>11, <1>12, <1>13 DEF RuntimeInv

LEMMA RefundKeeps ==
    ASSUME RuntimeInv, NEW c \in Calls, NEW e \in Escrows, refund(c, e)
    PROVE  RuntimeInv'
<1> DEFINE call == escrowCall("refund", e)
<1>1. /\ RuntimeTypeOK /\ CallsOK /\ PurchaseInv /\ EscrowsInv
      /\ calls[c] = NoCall /\ records[e] # NoRecord
      /\ UNCHANGED <<policies, objects, transactions, tick, adapter, switches,
                     chainEscrows, chainOwner, payments, releases>>
    BY DEF RuntimeInv, refund, IsNew
<1>2. /\ Await(c, call, "refunding", TRUE)
      /\ IF IsLocal
         THEN /\ balances' = Shifted(balances, records[e].buyer, records[e].amount)
              /\ SetEscrow(e, "REFUNDED")
         ELSE UNCHANGED <<balances, records>>
    BY DEF refund, refundEscrow
<1>3. balances' \in [Registered -> Nat]
    <2>1. Shifted(balances, records[e].buyer, records[e].amount) \in [Registered -> Nat]
        BY <1>1, Credited
    <2>2. balances \in [Registered -> Nat]
        BY <1>1 DEF RuntimeTypeOK, StoreTypeOK
    <2>3. QED
        BY <1>2, <2>1, <2>2
<1>4. /\ SetEscrow(e, "REFUNDED") =>
             /\ records'[e].status = "REFUNDED" /\ records'[e] # NoRecord
             /\ records'[e].hashIsHex = records[e].hashIsHex
             /\ \A f \in Escrows \ {e} : records'[f] = records[f]
             /\ records' \in [Escrows -> {NoRecord} \cup EscrowRecord]
    BY <1>1, RecordSet DEF EscrowStatuses
<1>5. /\ \A f \in Escrows \ {e} : records'[f] = records[f]
      /\ records' \in [Escrows -> {NoRecord} \cup EscrowRecord]
      /\ releases[e] = 1 =>
            /\ records'[e] # NoRecord
            /\ records'[e].hashIsHex
            /\ records'[e].status \notin {"LOCKED", "DELIVERED"}
    BY <1>1, <1>2, <1>4 DEF RuntimeTypeOK, StoreTypeOK, EscrowsInv
<1>6. \A r \in Results : Outcome(call, "refunding", r) \in RefundCall
    BY DEF Outcome, escrowCall, RefundCall
<1> HIDE DEF call
<1>7. PICK r \in Results : calls' = [calls EXCEPT ![c] = Outcome(call, "refunding", r)]
    BY <1>2, Awaited
<1> DEFINE x == Outcome(call, "refunding", r)
<1>8. x \in RefundCall
    BY <1>6
<1> HIDE DEF x
<1>9. /\ CallsOK' /\ calls'[c] = x /\ PurchaseInv'
      /\ \A d \in Calls \ {c} : calls'[d] = calls[d]
    BY <1>1, <1>7, <1>8, NewCallKeepsPurchases DEF x
<1>10. RuntimeTypeOK'
    BY <1>1, <1>3, <1>5, <1>9
       DEF RuntimeTypeOK, StoreTypeOK, SettlementTypeOK, CallsOK
<1>11. EscrowsInv'
    <2>1. \A d \in Calls : calls'[d] \in {NoCall} \cup LockCall =>
                                calls[d] \in {NoCall} \cup LockCall
        BY <1>8, <1>9, Distinct
    <2>2. e \in Calls => calls'[e] \notin {NoCall} \cup LockCall
        BY <1>1, <1>8, <1>9, Distinct DEF EscrowsInv
    <2>3. QED
        BY <1>1, <1>5, <2>1, <2>2, RecordStep
<1>12. QED
    BY <1>9, <1>10, <1>11 DEF RuntimeInv

-----------------------------------------------------------------------------
(* Answers of the chain                                                    *)

LEMMA Answers ==
    ASSUME CallsOK, NEW c \in Calls, NEW r \in {"ok", "failed"},
           calls[c].at \notin {"idle", "done"}, AnswerWith(c, r)
    PROVE  /\ CallsOK' /\ calls'[c].result = r
           /\ \A d \in Calls \ {c} : calls'[d] = calls[d]
           /\ calls[c] \in BuyCall <=> calls'[c] \in BuyCall
           /\ calls[c] \in LockCall <=> calls'[c] \in LockCall
           /\ calls'[c].at = calls[c].at /\ calls'[c].op = calls[c].op
           /\ calls'[c] \notin {NoCall, Finished}
<1>1. calls[c] \in BuyCall \cup LockCall \cup ReleaseCall \cup RefundCall
    BY Distinct DEF CallsOK
<1> DEFINE x == [calls[c] EXCEPT !.result = r]
<1>2. /\ x.result = r /\ x.at = calls[c].at /\ x.op = calls[c].op
      /\ calls[c] \in BuyCall => x \in BuyCall
      /\ calls[c] \in LockCall => x \in LockCall
      /\ calls[c] \in ReleaseCall => x \in ReleaseCall
      /\ calls[c] \in RefundCall => x \in RefundCall
    BY <1>1 DEF BuyCall, LockCall, ReleaseCall, RefundCall, Results
<1>3. calls' = [calls EXCEPT ![c] = x]
    BY DEF AnswerWith
<1> HIDE DEF x
<1>4. CallsOK' /\ calls'[c] = x /\ \A d \in Calls \ {c} : calls'[d] = calls[d]
    BY <1>1, <1>2, <1>3, NewCall
<1>5. /\ calls[c] \in BuyCall <=> x \in BuyCall
      /\ calls[c] \in LockCall <=> x \in LockCall
      /\ x \notin {NoCall, Finished}
    BY <1>1, <1>2, Distinct
<1>6. QED
    BY <1>2, <1>4, <1>5

\* An answer to a call, and at most one payment of what it asks for.
LEMMA MinedKeeps ==
    ASSUME RuntimeInv, NEW c \in Calls, Mined(c)
    PROVE  RuntimeInv'
<1>1. /\ RuntimeTypeOK /\ CallsOK /\ PurchaseInv /\ EscrowsInv
      /\ calls[c].at \notin {"idle", "done"} /\ calls[c].result = "sent"
      /\ Take(c) /\ UNCHANGED <<storeVars, adapter, switches>>
    BY DEF RuntimeInv, Mined
<1>2. PICK r \in {"ok", "failed"} : AnswerWith(c, r)
    BY DEF Mined
<1>3. /\ CallsOK' /\ calls'[c].result = r
      /\ \A d \in Calls \ {c} : calls'[d] = calls[d]
      /\ calls[c] \in BuyCall <=> calls'[c] \in BuyCall
      /\ calls[c] \in LockCall <=> calls'[c] \in LockCall
      /\ calls'[c].at = calls[c].at /\ calls'[c].op = calls[c].op
      /\ calls'[c] \notin {NoCall, Finished}
    BY <1>1, <1>2, Answers
<1>4. calls[c] \in BuyCall \cup LockCall \cup ReleaseCall \cup RefundCall
    BY <1>1, Distinct DEF CallsOK
<1>5. \A d \in Calls : calls'[d] \in {NoCall} \cup LockCall =>
                            calls[d] \in {NoCall} \cup LockCall
    BY <1>3
<1>6. /\ balances \in [Registered -> Nat] /\ policies \in [Registered -> Policies]
      /\ chainOwner \in [Objects -> AgentIds]
      /\ chainEscrows \in
            [Escrows -> {"NONE", "LOCKED", "DELIVERED", "RELEASED", "REFUNDED"}]
      /\ payments \in [Calls -> Nat]
      /\ releases \in [Escrows -> Nat]
    BY <1>1 DEF RuntimeTypeOK, StoreTypeOK, SettlementTypeOK
<1>7. CASE MonadTransfer(c)
    <2>1. /\ calls[c] \in BuyCall /\ calls[c].at = "paying" /\ payments[c] = 0
          /\ transactions[c].status = "PENDING"
        BY <1>1, <1>4, <1>7, Distinct DEF MonadTransfer, PurchaseInv, IsPurchase
    <2>2. /\ payments'[c] = 1 /\ payments' \in [Calls -> Nat]
          /\ \A d \in Calls \ {c} : payments'[d] = payments[d]
          /\ UNCHANGED <<chainEscrows, chainOwner, releases>>
        BY <1>6, <1>7, <2>1 DEF MonadTransfer
    <2>3. RuntimeTypeOK'
        BY <1>1, <1>3, <2>2
           DEF RuntimeTypeOK, StoreTypeOK, SettlementTypeOK, CallsOK, storeVars
    <2>4. IsPurchase(calls'[c], transactions'[c], payments'[c])
        BY <1>1, <1>3, <2>1, <2>2, Distinct DEF IsPurchase, storeVars
    <2>5. PurchaseInv'
        BY <1>1, <1>3, <2>2, <2>4, PurchaseStep DEF storeVars
    <2>6. EscrowsInv'
        BY <1>1, <1>5, <2>2, EscrowsStep DEF storeVars
    <2>7. QED
        BY <1>3, <2>3, <2>5, <2>6 DEF RuntimeInv
<1>8. ASSUME UNCHANGED payments, calls[c].at # "paying"
      PROVE  PurchaseInv'
    <2>1. IsPurchase(calls[c], transactions[c], payments[c])
        BY <1>1 DEF PurchaseInv
    <2>2. IsPurchase(calls'[c], transactions'[c], payments'[c])
        BY <1>1, <1>3, <1>4, <1>8, <2>1, Distinct DEF IsPurchase, storeVars
    <2>3. QED
        BY <1>1, <1>3, <1>8, <2>2, PurchaseStep DEF storeVars
<1>9. CASE \/ MonadMove(c) \/ MonadLock(c) \/ MonadRelease(c)
           \/ MonadRefund(c) \/ MonadList(c)
    <2>1. UNCHANGED <<payments, releases>> /\ calls[c].at # "paying"
        BY <1>9 DEF MonadMove, MonadLock, MonadRelease, MonadRefund, MonadList
    <2>2. chainOwner' \in [Objects -> AgentIds]
        <3>1. CASE MonadMove(c)
            <4>1. calls[c] \in BuyCall
                BY <1>4, <3>1, Distinct DEF MonadMove
            <4>2. calls[c].whom \in AgentIds
                BY <4>1 DEF BuyCall
            <4>3. QED
                BY <1>6, <3>1, <4>2 DEF MonadMove
        <3>2. CASE ~MonadMove(c)
            BY <1>6, <1>9, <3>2 DEF MonadLock, MonadRelease, MonadRefund, MonadList
        <3>3. QED
            BY <3>1, <3>2
    <2>3. chainEscrows' \in
              [Escrows -> {"NONE", "LOCKED", "DELIVERED", "RELEASED", "REFUNDED"}]
        BY <1>6, <1>9 DEF MonadMove, MonadLock, MonadRelease, MonadRefund,
           MonadList, ChainStep
    <2>4. RuntimeTypeOK'
        BY <1>1, <1>3, <2>1, <2>2, <2>3
           DEF RuntimeTypeOK, StoreTypeOK, SettlementTypeOK, CallsOK, storeVars
    <2>5. PurchaseInv'
        BY <1>8, <2>1
    <2>6. EscrowsInv'
        BY <1>1, <1>5, <2>1, EscrowsStep DEF storeVars
    <2>7. QED
        BY <1>3, <2>4, <2>5, <2>6 DEF RuntimeInv
<1>10. QED
    BY <1>1, <1>7, <1>9 DEF Take

LEMMA NotMinedKeeps ==
    ASSUME RuntimeInv, NEW c \in Calls, NotMined(c)
    PROVE  RuntimeInv'
<1>1. /\ RuntimeTypeOK /\ CallsOK /\ PurchaseInv /\ EscrowsInv
      /\ calls[c].at \notin {"idle", "done"} /\ calls[c].result = "sent"
      /\ AnswerWith(c, "failed") /\ UNCHANGED <<storeVars, settleVars>>
    BY DEF RuntimeInv, NotMined
<1>2. /\ CallsOK' /\ calls'[c].result = "failed"
      /\ \A d \in Calls \ {c} : calls'[d] = calls[d]
      /\ calls[c] \in BuyCall <=> calls'[c] \in BuyCall
      /\ calls[c] \in LockCall <=> calls'[c] \in LockCall
      /\ calls'[c].at = calls[c].at /\ calls'[c].op = calls[c].op
      /\ calls'[c] \notin {NoCall, Finished}
    BY <1>1, Answers
<1>3. calls[c] \in BuyCall \cup LockCall \cup ReleaseCall \cup RefundCall
    BY <1>1, Distinct DEF CallsOK
<1>4. RuntimeTypeOK'
    BY <1>1, <1>2
       DEF RuntimeTypeOK, StoreTypeOK, SettlementTypeOK, CallsOK, storeVars, settleVars
<1>5. PurchaseInv'
    <2>1. IsPurchase(calls[c], transactions[c], payments[c])
        BY <1>1 DEF PurchaseInv
    <2>2. IsPurchase(calls'[c], transactions'[c], payments'[c])
        BY <1>1, <1>2, <1>3, <2>1, Distinct DEF IsPurchase, storeVars, settleVars
    <2>3. QED
        BY <1>1, <1>2, <2>2, PurchaseStep DEF storeVars, settleVars
<1>6. EscrowsInv'
    BY <1>1, <1>2, EscrowsStep DEF storeVars, settleVars
<1>7. QED
    BY <1>2, <1>4, <1>5, <1>6 DEF RuntimeInv

-----------------------------------------------------------------------------
(* Every step                                                              *)

\* Steps beside the calls.
LEMMA OthersKeep ==
    ASSUME RuntimeInv,
           \/ \E e \in Escrows : ActOnChain(e)
           \/ setSettlementAdapter \/ PolicyEdit
           \/ TimePasses /\ UNCHANGED settleVars
           \/ UNCHANGED runtimeVars
    PROVE  RuntimeInv'
<1>1. /\ RuntimeTypeOK /\ CallsOK /\ PurchaseInv /\ EscrowsInv
    BY DEF RuntimeInv
<1>2. UNCHANGED <<balances, objects, records, transactions, calls, chainOwner,
                  payments, releases>>
    BY DEF ActOnChain, ChainStep, setSettlementAdapter, PolicyEdit,
       updatePolicy, TimePasses, runtimeVars, storeVars, settleVars
<1>3. /\ policies' \in [Registered -> Policies]
      /\ tick' \in FirstTick..LastTick
      /\ adapter' \in {"local", "monad"} /\ switches' \in 0..MaxSwitches
      /\ chainEscrows' \in
            [Escrows -> {"NONE", "LOCKED", "DELIVERED", "RELEASED", "REFUNDED"}]
    <2>1. /\ policies \in [Registered -> Policies]
          /\ tick \in FirstTick..LastTick
          /\ adapter \in {"local", "monad"} /\ switches \in 0..MaxSwitches
          /\ chainEscrows \in
                [Escrows -> {"NONE", "LOCKED", "DELIVERED", "RELEASED", "REFUNDED"}]
        BY <1>1 DEF RuntimeTypeOK, StoreTypeOK, SettlementTypeOK
    <2>2. CASE \E e \in Escrows : ActOnChain(e)
        BY <2>1, <2>2 DEF ActOnChain, ChainStep, storeVars
    <2>3. CASE setSettlementAdapter
        BY <2>1, <2>3, SettlementAssumption DEF setSettlementAdapter, storeVars
    <2>4. CASE PolicyEdit
        BY <2>1, <2>4, RuntimeAssumption DEF PolicyEdit, updatePolicy, settleVars
    <2>5. CASE TimePasses /\ UNCHANGED settleVars
        BY <2>1, <2>5, StoreAssumption DEF TimePasses, settleVars
    <2>6. CASE UNCHANGED runtimeVars
        BY <2>1, <2>6 DEF runtimeVars, storeVars, settleVars
    <2>7. QED
        BY <2>2, <2>3, <2>4, <2>5, <2>6
<1>4. RuntimeTypeOK'
    BY <1>1, <1>2, <1>3 DEF RuntimeTypeOK, StoreTypeOK, SettlementTypeOK
<1>5. CallsOK' /\ PurchaseInv' /\ EscrowsInv'
    BY <1>1, <1>2 DEF CallsOK, PurchaseInv, EscrowsInv
<1>6. QED
    BY <1>4, <1>5 DEF RuntimeInv

LEMMA RuntimeStarts == RuntimeInit => RuntimeInv
<1> SUFFICES ASSUME RuntimeInit PROVE RuntimeInv
    OBVIOUS
<1> USE DEF RuntimeInit, StoreInit, SettlementInit
<1>1. Calls \cap Seeded = {} /\ Escrows = Calls \cup Seeded
    BY StoreAssumption DEF Escrows
<1>2. records \in [Escrows -> {NoRecord} \cup EscrowRecord]
      /\ \A c \in Calls : records[c] = NoRecord
    BY <1>1, StoreAssumption
<1>3. StoreTypeOK
    BY <1>2, StoreAssumption DEF StoreTypeOK, ObjectStatuses
<1>4. SettlementTypeOK
    BY SettlementAssumption, StoreAssumption DEF SettlementTypeOK
<1>5. CallsOK
    BY DEF CallsOK
<1>6. PurchaseInv
    BY Distinct DEF PurchaseInv, IsPurchase, NoTransaction
<1>7. EscrowsInv
    BY <1>1, <1>2, Distinct DEF EscrowsInv
<1>8. QED
    BY <1>3, <1>4, <1>5, <1>6, <1>7 DEF RuntimeInv, RuntimeTypeOK

LEMMA RuntimeKeeps == RuntimeInv /\ [RuntimeNext]_runtimeVars => RuntimeInv'
<1> SUFFICES ASSUME RuntimeInv, [RuntimeNext]_runtimeVars PROVE RuntimeInv'
    OBVIOUS
<1>1. ASSUME NEW c \in Calls, dispatchAction(c) PROVE RuntimeInv'
    <2>1. PICK agent \in AgentIds, seller \in AgentIds, amount \in Amounts :
              \/ DispatchEscrow(c, agent, seller, amount)
              \/ \E o \in Objects : DispatchPurchase(c, agent, seller, o, amount)
        BY <1>1 DEF dispatchAction
    <2>2. amount \in Nat
        BY RuntimeAssumption
    <2>3. CASE DispatchEscrow(c, agent, seller, amount)
        BY <2>2, <2>3, LockKeeps DEF DispatchEscrow
    <2>4. ASSUME NEW o \in Objects, DispatchPurchase(c, agent, seller, o, amount)
          PROVE  RuntimeInv'
        BY <2>2, <2>4, BuyKeeps DEF DispatchPurchase
    <2>5. QED
        BY <2>1, <2>3, <2>4
<1>2. ASSUME NEW c \in Calls, ViewAction(c) PROVE RuntimeInv'
    <2>1. ASSUME NEW buyer \in Registered, NEW seller \in AgentIds,
                 NEW amount \in Amounts, createEscrow(c, buyer, seller, amount)
          PROVE  RuntimeInv'
        <3>1. buyer \in AgentIds /\ amount \in Nat
            BY StoreAssumption, RuntimeAssumption
        <3>2. QED
            BY <2>1, <3>1, LockKeeps
    <2>2. ASSUME NEW e \in Escrows, verifyAndRelease(c, e) PROVE RuntimeInv'
        BY <2>2, ReleaseKeeps
    <2>3. ASSUME NEW e \in Escrows, refund(c, e) PROVE RuntimeInv'
        BY <2>3, RefundKeeps
    <2>4. QED
        BY <1>2, <2>1, <2>2, <2>3 DEF ViewAction
<1>3. ASSUME NEW c \in Calls, Resume(c) PROVE RuntimeInv'
    BY <1>3, BuyFailsKeeps, BuyDeliversKeeps, BuySettlesKeeps, EscrowLockedKeeps,
       EscrowEndsKeeps DEF Resume, BuyResumes, EscrowResumes
<1>4. ASSUME NEW c \in Calls, Mined(c) \/ NotMined(c) PROVE RuntimeInv'
    BY <1>4, MinedKeeps, NotMinedKeeps
<1>5. ASSUME NEW e \in Escrows, NEW isHex \in BOOLEAN, submitDelivery(e, isHex)
      PROVE  RuntimeInv'
    BY <1>5, DeliveryKeeps
<1>6. QED
    BY <1>1, <1>2, <1>3, <1>4, <1>5, OthersKeep DEF RuntimeNext

-----------------------------------------------------------------------------
(* While the adapter is not exchanged, the store and the chain do not hold *)
(* the same escrow.                                                        *)

IsSent(x) == x.at \notin {"idle", "done"} /\ x.result = "sent"

Unexchanged ==
    switches = 0 =>
        /\ IsLocal => /\ \A c \in Calls : ~IsSent(calls[c])
                      /\ \A e \in Escrows : chainEscrows[e] = "NONE"
        /\ ~IsLocal => \A e \in Escrows : releases[e] = 0

\* What the local adapter is asked is answered when the caller goes on.
LEMMA LocalAnswers ==
    ASSUME CallsOK, NEW c \in Calls, NEW call, "result" \in DOMAIN call, NEW place,
           NEW succeeds \in BOOLEAN, Await(c, call, place, succeeds), IsLocal
    PROVE  \A d \in Calls : IsSent(calls'[d]) => IsSent(calls[d])
<1>1. PICK r \in {"ok", "failed"} :
          calls' = [calls EXCEPT ![c] = Outcome(call, place, r)]
    BY DEF Await, Suspend
<1>2. Outcome(call, place, r).result = r
    BY DEF Outcome
<1>3. QED
    BY <1>1, <1>2 DEF IsSent, CallsOK

\* A call that asks for something, or goes on when it has its answer.
LEMMA CallUnexchanged ==
    ASSUME RuntimeInv, Unexchanged, NEW c \in Calls,
           UNCHANGED <<adapter, switches, chainEscrows>>,
           IsLocal => \A d \in Calls : IsSent(calls'[d]) => IsSent(calls[d]),
           ~IsLocal => UNCHANGED releases
    PROVE  Unexchanged'
BY DEF Unexchanged, IsLocal

LEMMA ReturnUnsent ==
    ASSUME CallsOK, NEW c \in Calls, Return(c)
    PROVE  \A d \in Calls : IsSent(calls'[d]) => IsSent(calls[d])
BY DEF Return, Finished, IsSent, CallsOK

LEMMA StartsUnexchanged == RuntimeInit => Unexchanged
BY DEF RuntimeInit, StoreInit, SettlementInit, Unexchanged, IsSent, NoCall

LEMMA BuyUnexchanged ==
    ASSUME RuntimeInv, Unexchanged, NEW c \in Calls,
           \/ BuyResumes(c)
           \/ \E buyer, seller, o, amount : buy(c, buyer, seller, o, amount)
    PROVE  Unexchanged'
<1>0. CallsOK
    BY DEF RuntimeInv
<1>1. UNCHANGED <<adapter, switches, chainEscrows, releases>>
    BY DEF buy, BuyResumes, BuyFails, BuyDelivers, BuySettles, settleVars
<1>2. CASE Return(c)
    BY <1>0, <1>1, <1>2, ReturnUnsent, CallUnexchanged
<1>3. ASSUME NEW buyer, NEW seller, NEW o, NEW amount,
             buy(c, buyer, seller, o, amount), ~Return(c), IsLocal
      PROVE  \A d \in Calls : IsSent(calls'[d]) => IsSent(calls[d])
    <2> DEFINE call == buyCall(buyer, seller, o, amount)
               succeeds == CanTransfer(buyer, seller, amount)
    <2>1. Await(c, call, "paying", succeeds) /\ succeeds \in BOOLEAN
        BY <1>3 DEF buy, transfer, CanTransfer
    <2>2. "result" \in DOMAIN call
        BY DEF buyCall
    <2> HIDE DEF call, succeeds
    <2>3. QED
        BY <1>0, <1>3, <2>1, <2>2, LocalAnswers
<1>4. ASSUME BuyDelivers(c), IsLocal
      PROVE  \A d \in Calls : IsSent(calls'[d]) => IsSent(calls[d])
    <2> DEFINE call == calls[c]
               succeeds == /\ objects[call.object].owner = call.seller
                           /\ call.object \in Transferable
    <2>1. Await(c, call, "moving", succeeds) /\ succeeds \in BOOLEAN
        BY <1>4 DEF BuyDelivers, transferEconomicObject
    <2>2. "result" \in DOMAIN call
        BY <1>0, <1>4, Distinct DEF BuyDelivers, IsAt, CallsOK, BuyCall
    <2> HIDE DEF call, succeeds
    <2>3. QED
        BY <1>0, <1>4, <2>1, <2>2, LocalAnswers
<1>5. QED
    BY <1>1, <1>2, <1>3, <1>4, CallUnexchanged
       DEF BuyResumes, BuyFails, BuySettles

LEMMA EscrowUnexchanged ==
    ASSUME RuntimeInv, Unexchanged, NEW c \in Calls,
           \/ EscrowResumes(c)
           \/ \E buyer, seller, amount : createEscrow(c, buyer, seller, amount)
           \/ \E e \in Escrows : verifyAndRelease(c, e) \/ refund(c, e)
    PROVE  Unexchanged'
<1>0. CallsOK
    BY DEF RuntimeInv
<1>1. /\ UNCHANGED <<adapter, switches, chainEscrows>>
      /\ ~IsLocal => UNCHANGED releases
    BY DEF EscrowResumes, EscrowLocked, EscrowEnds, createEscrow,
       verifyAndRelease, releaseEscrow, refund, settleVars
<1>2. CASE EscrowResumes(c)
    BY <1>0, <1>1, <1>2, ReturnUnsent, CallUnexchanged
       DEF EscrowResumes, EscrowLocked, EscrowEnds
<1>3. ASSUME NEW buyer, NEW seller, NEW amount,
             createEscrow(c, buyer, seller, amount), IsLocal
      PROVE  \A d \in Calls : IsSent(calls'[d]) => IsSent(calls[d])
    <2> DEFINE call == [op |-> "createEscrow", at |-> "start", result |-> "none",
                        buyer |-> buyer, seller |-> seller, amount |-> amount]
               succeeds == CanLock(buyer, amount)
    <2>1. Await(c, call, "locking", succeeds) /\ succeeds \in BOOLEAN
        BY <1>3 DEF createEscrow, lockFunds, CanLock
    <2>2. "result" \in DOMAIN call
        OBVIOUS
    <2> HIDE DEF call, succeeds
    <2>3. QED
        BY <1>0, <1>3, <2>1, <2>2, LocalAnswers
<1>4. ASSUME NEW e \in Escrows, verifyAndRelease(c, e) \/ refund(c, e), IsLocal
      PROVE  \A d \in Calls : IsSent(calls'[d]) => IsSent(calls[d])
    <2>1. PICK op \in {"release", "refund"}, place \in {"releasing", "refunding"} :
              Await(c, escrowCall(op, e), place, TRUE)
        BY <1>4 DEF verifyAndRelease, releaseEscrow, refund, refundEscrow
    <2>2. "result" \in DOMAIN escrowCall(op, e)
        BY DEF escrowCall
    <2>3. QED
        BY <1>0, <1>4, <2>1, <2>2, LocalAnswers
<1>5. QED
    BY <1>1, <1>2, <1>3, <1>4, CallUnexchanged

LEMMA MinedUnexchanged ==
    ASSUME RuntimeInv, Unexchanged, NEW c \in Calls, Mined(c) \/ NotMined(c)
    PROVE  Unexchanged'
<1>1. IsSent(calls[c]) /\ UNCHANGED <<adapter, switches, releases>>
    BY DEF Mined, NotMined, Take, MonadTransfer, MonadMove, MonadLock,
       MonadRelease, MonadRefund, MonadList, IsSent, settleVars
<1>2. QED
    BY <1>1 DEF Unexchanged, IsLocal

\* Steps beside the calls.
LEMMA OthersUnexchanged ==
    ASSUME RuntimeInv, Unexchanged,
           \/ \E e \in Escrows : ActOnChain(e)
           \/ \E e \in Escrows, isHex \in BOOLEAN : submitDelivery(e, isHex)
           \/ setSettlementAdapter \/ PolicyEdit
           \/ TimePasses /\ UNCHANGED settleVars
           \/ UNCHANGED runtimeVars
    PROVE  Unexchanged'
<1>1. CASE \E e \in Escrows : ActOnChain(e)
    <2>1. UNCHANGED <<calls, adapter, switches, releases>>
          /\ \E e \in Escrows : chainEscrows[e] # "NONE"
        BY <1>1 DEF ActOnChain, ChainStep
    <2>2. QED
        BY <2>1 DEF Unexchanged, IsLocal
<1>2. CASE setSettlementAdapter
    <2>1. switches \in Nat /\ switches' = switches + 1
        BY <1>2, SettlementAssumption
           DEF setSettlementAdapter, RuntimeInv, RuntimeTypeOK, SettlementTypeOK
    <2>2. QED
        BY <2>1 DEF Unexchanged
<1>3. CASE UNCHANGED <<calls, settleVars>>
    BY <1>3 DEF Unexchanged, IsLocal, settleVars
<1>4. QED
    BY <1>1, <1>2, <1>3 DEF submitDelivery, PolicyEdit, updatePolicy, TimePasses,
       runtimeVars

LEMMA StepUnexchanged ==
    RuntimeInv /\ Unexchanged /\ [RuntimeNext]_runtimeVars => Unexchanged'
<1> SUFFICES ASSUME RuntimeInv, Unexchanged, [RuntimeNext]_runtimeVars
             PROVE  Unexchanged'
    OBVIOUS
<1>1. ASSUME NEW c \in Calls, dispatchAction(c) \/ ViewAction(c) \/ Resume(c)
      PROVE  Unexchanged'
    BY <1>1, BuyUnexchanged, EscrowUnexchanged
       DEF dispatchAction, DispatchEscrow, DispatchPurchase, ViewAction, Resume
<1>2. ASSUME NEW c \in Calls, Mined(c) \/ NotMined(c)
      PROVE  Unexchanged'
    BY <1>2, MinedUnexchanged
<1>3. QED
    BY <1>1, <1>2, OthersUnexchanged DEF RuntimeNext

LEMMA RuntimeInvariant == RuntimeSpec => []RuntimeInv
BY RuntimeStarts, RuntimeKeeps, PTL DEF RuntimeSpec

-----------------------------------------------------------------------------
(* Theorems                                                                *)

\* The store and the settlement keep their types: no balance is negative, and
\* no record or transaction is half made.
THEOREM RuntimeTypes == RuntimeSpec => []RuntimeTypeOK
<1>1. RuntimeInv => RuntimeTypeOK
    BY DEF RuntimeInv
<1>2. QED
    BY <1>1, RuntimeInvariant, PTL

\* A purchase is paid at most once, settled only if it was paid and refused
\* only if it was not, whatever the adapters answer and whenever they are
\* exchanged (engine.ts:52-117).
THEOREM SettledPurchasesArePaid == RuntimeSpec => []SettledMeansPaid
<1>1. RuntimeInv => SettledMeansPaid
    BY DEF RuntimeInv, PurchaseInv, IsPurchase, SettledMeansPaid
<1>2. QED
    BY <1>1, RuntimeInvariant, PTL

\* The store pays the seller of an escrow at most once, behind a record that
\* was delivered with a hash; and until the adapter is exchanged no escrow that
\* the store pays is one that the chain holds, so its parties cannot release it
\* there for a second payment (escrow.ts:86-119, ECONEscrow.sol:112-144).
THEOREM SellersArePaidOnce == RuntimeSpec => []SellerPaidOnce
<1>1. RuntimeInv /\ Unexchanged => SellerPaidOnce
    <2> SUFFICES ASSUME RuntimeInv, Unexchanged, NEW e \in Escrows
                 PROVE  /\ releases[e] <= 1
                        /\ releases[e] = 1 /\ chainEscrows[e] # "NONE" =>
                              switches > 0
                        /\ releases[e] = 1 =>
                              /\ records[e] # NoRecord
                              /\ records[e].hashIsHex
                              /\ records[e].status \notin {"LOCKED", "DELIVERED"}
        BY DEF SellerPaidOnce
    <2>1. switches \in Nat
        BY SettlementAssumption DEF RuntimeInv, RuntimeTypeOK, SettlementTypeOK
    <2>2. releases[e] = 1 /\ chainEscrows[e] # "NONE" => switches > 0
        BY <2>1 DEF Unexchanged
    <2>3. QED
        BY <2>2 DEF RuntimeInv, EscrowsInv
<1>2. QED
    BY <1>1, RuntimeInvariant, StartsUnexchanged, StepUnexchanged, PTL
       DEF RuntimeSpec

-----------------------------------------------------------------------------
(* Reserves.  Balances are rounded to a milli-MON after every change       *)
(* (store.ts), so a reserve of a fraction of one can be missed by less     *)
(* than half a milli-MON.                                                  *)

\* Every policy's reserve is a whole number of milli-MON.
WholeReserves == \A policy \in Policies : policy.minRetainedBalance % Milli = 0

LEMMA Permitted ==
    ASSUME RuntimeTypeOK, NEW buyer, NEW amount \in Nat, NEW o,
           validateTransaction(buyer, amount, o) = {}
    PROVE  /\ buyer \in Registered
           /\ balances[buyer] - amount >= policies[buyer].minRetainedBalance
           /\ amount <= policies[buyer].maxPerTransaction
<1>1. buyer \in Registered
    BY DEF validateTransaction
<1> DEFINE policy == policies[buyer]
           spent == dailySpent(buyer) + amount > policy.dailySpendingLimit
           rules == [MIN_RETAINED_BALANCE |-> ~LeavesReserve(buyer, amount),
                     MAX_TRANSACTION_LIMIT |-> amount > policy.maxPerTransaction,
                     DAILY_SPENDING_LIMIT |-> spent,
                     CATEGORY_RESTRICTION |->
                         o \notin policy.allowedObjects \cup {Uncategorised}]
<1>2. {rule \in DOMAIN rules : rules[rule]} = {}
    BY <1>1 DEF validateTransaction
<1> HIDE DEF spent
<1>3. ~rules["MIN_RETAINED_BALANCE"] /\ ~rules["MAX_TRANSACTION_LIMIT"]
    <2>1. {"MIN_RETAINED_BALANCE", "MAX_TRANSACTION_LIMIT"} \subseteq DOMAIN rules
        OBVIOUS
    <2> HIDE DEF rules
    <2>2. QED
        BY <1>2, <2>1
<1>4. LeavesReserve(buyer, amount) /\ ~(amount > policy.maxPerTransaction)
    BY <1>3
<1>5. policy.maxPerTransaction \in Nat
    BY <1>1, StoreAssumption DEF RuntimeTypeOK, StoreTypeOK
<1>6. QED
    BY <1>1, <1>4, <1>5 DEF LeavesReserve

ReserveLeft ==
    \A c \in Calls :
        payments'[c] > payments[c] /\ balances' # balances =>
            LET buyer == transactions'[c].buyer
            IN  /\ balances'[buyer] >= policies[buyer].minRetainedBalance
                /\ transactions'[c].amount <= policies[buyer].maxPerTransaction

\* Rounding in between does not take the reserve: it is what is left whole.
LEMMA BuyLeavesReserve ==
    ASSUME WholeReserves, RuntimeInv, NEW c \in Calls, NEW buyer \in AgentIds,
           NEW seller \in AgentIds, NEW o \in Objects, NEW amount \in Nat,
           buy(c, buyer, seller, o, amount)
    PROVE  ReserveLeft
<1>1. RuntimeTypeOK /\ payments \in [Calls -> Nat]
      /\ balances \in [Registered -> Nat]
    BY DEF RuntimeInv, RuntimeTypeOK, StoreTypeOK, SettlementTypeOK
<1>2. CASE validateTransaction(buyer, amount, o) # {}
    BY <1>2 DEF buy, ReserveLeft
<1>3. CASE validateTransaction(buyer, amount, o) = {}
    <2> DEFINE call == buyCall(buyer, seller, o, amount)
               m == policies[buyer].minRetainedBalance
    <2>1. /\ buyer \in Registered
          /\ balances[buyer] - amount >= m
          /\ amount <= policies[buyer].maxPerTransaction
        BY <1>1, <1>3, Permitted
    <2>2. m \in Nat /\ m % Milli = 0
        <3>1. policies[buyer] \in Policies
            BY <1>1, <2>1 DEF RuntimeTypeOK, StoreTypeOK
        <3>2. QED
            BY <3>1, StoreAssumption DEF WholeReserves
    <2>3. SetTransaction(c, call, "PENDING")
          /\ transfer(c, call, "paying", buyer, seller, amount)
        BY <1>3 DEF buy
    <2>4. transactions'[c].buyer = buyer /\ transactions'[c].amount = amount
        <3>1. transactions \in [Calls -> {NoTransaction} \cup Transaction]
            BY <1>1 DEF RuntimeTypeOK, StoreTypeOK
        <3>2. QED
            BY <2>3, <3>1 DEF SetTransaction, buyCall
    <2>5. CASE IsLocal /\ CanTransfer(buyer, seller, amount)
        <3> DEFINE less == Shifted(balances, buyer, -amount)
        <3>1. balances' = Shifted(less, seller, amount)
              /\ \A d \in Calls \ {c} : payments'[d] = payments[d]
            BY <1>1, <2>3, <2>5 DEF transfer
        <3>2. less \in [Registered -> Nat]
              /\ less[buyer] = RoundMilli(balances[buyer] - amount)
            BY <1>1, <2>1, <2>2, Shifts
        <3>3. less[buyer] >= m
            BY <1>1, <2>1, <2>2, <3>2, Rounds
        <3> HIDE DEF less, m
        <3>4. seller \in Registered => less[seller] + amount >= 0
            BY <3>2
        <3>5. balances'[buyer] = IF seller = buyer THEN RoundMilli(less[buyer] + amount)
                                                 ELSE less[buyer]
            BY <2>1, <3>1, <3>2, <3>4, Shifts
        <3>6. balances'[buyer] >= m
            <4>1. less[buyer] + amount >= m /\ less[buyer] + amount \in Int
                BY <2>1, <2>2, <3>2, <3>3
            <4>2. RoundMilli(less[buyer] + amount) >= m
                BY <2>2, <4>1, Rounds
            <4>3. QED
                BY <3>3, <3>5, <4>2
        <3>7. \A d \in Calls : payments'[d] > payments[d] => d = c
            BY <1>1, <3>1
        <3>8. QED
            BY <2>1, <2>4, <3>6, <3>7 DEF ReserveLeft, m
    <2>6. CASE ~(IsLocal /\ CanTransfer(buyer, seller, amount))
        BY <2>3, <2>6 DEF transfer, ReserveLeft
    <2>7. QED
        BY <2>5, <2>6
<1>4. QED
    BY <1>2, <1>3

LEMMA OnlyPurchasesPay ==
    ASSUME [RuntimeNext]_runtimeVars
    PROVE  \/ UNCHANGED payments \/ UNCHANGED balances
           \/ \E c \in Calls, buyer \in AgentIds, seller \in AgentIds, o \in Objects :
                 \E amount \in Nat : buy(c, buyer, seller, o, amount)
<1>1. ASSUME NEW c \in Calls, dispatchAction(c)
      PROVE  \/ UNCHANGED payments
             \/ \E buyer \in AgentIds, seller \in AgentIds, o \in Objects :
                   \E amount \in Nat : buy(c, buyer, seller, o, amount)
    <2>1. PICK agent \in AgentIds, seller \in AgentIds, amount \in Amounts :
              \/ DispatchEscrow(c, agent, seller, amount)
              \/ \E o \in Objects : DispatchPurchase(c, agent, seller, o, amount)
        BY <1>1 DEF dispatchAction
    <2>2. amount \in Nat
        BY RuntimeAssumption
    <2>3. CASE DispatchEscrow(c, agent, seller, amount)
        BY <2>3 DEF DispatchEscrow, createEscrow, settleVars
    <2>4. CASE \E o \in Objects : DispatchPurchase(c, agent, seller, o, amount)
        BY <2>2, <2>4 DEF DispatchPurchase
    <2>5. QED
        BY <2>1, <2>3, <2>4
<1>2. ASSUME NEW c \in Calls, ViewAction(c) PROVE UNCHANGED payments
    BY <1>2 DEF ViewAction, createEscrow, verifyAndRelease, refund, settleVars
<1>3. ASSUME NEW c \in Calls, Resume(c) PROVE UNCHANGED balances
    BY <1>3 DEF Resume, BuyResumes, BuyFails, BuyDelivers, BuySettles,
       EscrowResumes, EscrowLocked, EscrowEnds, storeVars
<1>4. ASSUME NEW c \in Calls, Mined(c) \/ NotMined(c) PROVE UNCHANGED balances
    BY <1>4 DEF Mined, NotMined, storeVars
<1>5. CASE \/ \E e \in Escrows : ActOnChain(e)
           \/ \E e \in Escrows, isHex \in BOOLEAN : submitDelivery(e, isHex)
           \/ setSettlementAdapter \/ PolicyEdit
           \/ TimePasses /\ UNCHANGED settleVars
           \/ UNCHANGED runtimeVars
    BY <1>5 DEF ActOnChain, submitDelivery, setSettlementAdapter, PolicyEdit,
       runtimeVars, storeVars, settleVars
<1>6. QED
    BY <1>1, <1>2, <1>3, <1>4, <1>5 DEF RuntimeNext

\* If reserves are whole, a local payment for a purchase leaves the buyer the
\* reserve of its policy and is within its limit for one transaction, also when
\* it buys from itself (policy.ts:58-79, engine.ts:52, :95).
THEOREM BuyersKeepTheirReserve ==
    ASSUME WholeReserves
    PROVE  RuntimeSpec => ReserveKept
<1>1. RuntimeInv /\ [RuntimeNext]_runtimeVars => [ReserveLeft]_runtimeVars
    <2> SUFFICES ASSUME RuntimeInv, [RuntimeNext]_runtimeVars PROVE ReserveLeft
        OBVIOUS
    <2>1. UNCHANGED payments \/ UNCHANGED balances => ReserveLeft
        BY DEF ReserveLeft, RuntimeInv, RuntimeTypeOK, SettlementTypeOK
    <2>2. QED
        BY <2>1, OnlyPurchasesPay, BuyLeavesReserve
<1>2. RuntimeSpec => [][ReserveLeft]_runtimeVars
    BY <1>1, RuntimeInvariant, PTL DEF RuntimeSpec
<1>3. QED
    BY <1>2 DEF ReserveKept, ReserveLeft

-----------------------------------------------------------------------------
(* Credits: what rounding to a thousandth does to an amount                *)

LEMMA Multiples ==
    ASSUME NEW G \in Nat \ {0}, NEW a \in Int, NEW b \in Int, a < b
    PROVE  a * G + G <= b * G
<1> DEFINE d == b - a - 1
<1>1. d \in Nat
    OBVIOUS
<1>2. d * G \in Nat
    BY <1>1
<1>3. b * G = a * G + G + d * G
    OBVIOUS
<1> HIDE DEF d
<1>4. a * G \in Int /\ b * G \in Int
    OBVIOUS
<1>5. QED
    BY <1>2, <1>3, <1>4

\* A whole number of thousandths.
Whole(n) == \E k \in Int : n = k * Grain

\* Rounding moves an amount by half a thousandth at most, to a whole number of
\* thousandths, and does not move one that is whole.
LEMMA Rounding ==
    ASSUME NEW n \in Int
    PROVE  /\ roundAmount(n) \in Int /\ Whole(roundAmount(n))
           /\ 2 * (roundAmount(n) - n) <= Grain
           /\ 2 * (n - roundAmount(n)) <= Grain
<1> DEFINE half == Grain \div 2
           k == (n + half) \div Grain
<1>1. Grain \in Nat \ {0}
    BY LedgerAssumption
<1>2. half \in Nat /\ 2 * half <= Grain /\ Grain <= 2 * half + 1
    BY <1>1
<1> HIDE DEF half
<1>3. k \in Int /\ k * Grain <= n + half /\ n + half < k * Grain + Grain
    BY <1>1, <1>2
<1>4. roundAmount(n) = k * Grain
    BY DEF roundAmount, half
<1> HIDE DEF k
<1> DEFINE whole == k * Grain
<1>5. whole \in Int
    BY <1>1, <1>3
<1>6. whole <= n + half /\ n + half < whole + Grain
    BY <1>3
<1>7. Whole(roundAmount(n))
    BY <1>3, <1>4 DEF Whole
<1> HIDE DEF whole
<1>8. 2 * (whole - n) <= Grain /\ 2 * (n - whole) <= Grain
    BY <1>1, <1>2, <1>5, <1>6
<1>9. QED
    BY <1>4, <1>5, <1>7, <1>8 DEF whole

\* It keeps the order of amounts.
LEMMA RoundingOrders ==
    ASSUME NEW m \in Int, NEW n \in Int, m <= n
    PROVE  roundAmount(m) <= roundAmount(n)
<1> DEFINE half == Grain \div 2
           j == (m + half) \div Grain
           k == (n + half) \div Grain
<1>1. Grain \in Nat \ {0}
    BY LedgerAssumption
<1>2. half \in Nat
    BY <1>1
<1> HIDE DEF half
<1>3. /\ j \in Int /\ j * Grain <= m + half
      /\ k \in Int /\ n + half < k * Grain + Grain
    BY <1>1, <1>2
<1>4. roundAmount(m) = j * Grain /\ roundAmount(n) = k * Grain
    BY DEF roundAmount, half
<1> HIDE DEF j, k
<1>5. j * Grain \in Int /\ k * Grain \in Int
    BY <1>1, <1>3
<1>6. j * Grain < k * Grain + Grain
    <2> DEFINE a == j * Grain
               b == k * Grain
    <2> HIDE DEF a, b
    <2>1. a \in Int /\ b \in Int /\ a <= m + half /\ n + half < b + Grain
        BY <1>3, <1>5 DEF a, b
    <2>2. a < b + Grain
        BY <1>1, <1>2, <2>1
    <2>3. QED
        BY <2>2 DEF a, b
<1>7. ~(k < j)
    BY <1>1, <1>3, <1>5, <1>6, Multiples
<1>8. j < k => j * Grain <= k * Grain
    BY <1>1, <1>3, <1>5, Multiples
<1>9. j = k => j * Grain <= k * Grain
    BY <1>5
<1>10. QED
    BY <1>3, <1>4, <1>7, <1>8, <1>9

LEMMA WholeStays ==
    ASSUME NEW n \in Int, Whole(n)
    PROVE  roundAmount(n) = n
<1>1. Grain \in Nat \ {0}
    BY LedgerAssumption
<1>2. PICK j \in Int : n = j * Grain
    BY DEF Whole
<1>3. PICK k \in Int : roundAmount(n) = k * Grain
    BY Rounding DEF Whole
<1>4. j * Grain \in Int /\ k * Grain \in Int
    BY <1>1
<1>5. 2 * (k * Grain - j * Grain) <= Grain /\ 2 * (j * Grain - k * Grain) <= Grain
    BY <1>2, <1>3, Rounding
<1>6. ~(j < k)
    <2>1. j < k => j * Grain + Grain <= k * Grain
        BY <1>1, Multiples
    <2>2. QED
        BY <1>1, <1>4, <1>5, <2>1
<1>7. ~(k < j)
    <2>1. k < j => k * Grain + Grain <= j * Grain
        BY <1>1, Multiples
    <2>2. QED
        BY <1>1, <1>4, <1>5, <2>1
<1>8. j = k
    BY <1>6, <1>7
<1>9. QED
    BY <1>2, <1>3, <1>8

LEMMA WholeZero == Whole(0) /\ roundAmount(0) = 0
<1>1. 0 = 0 * Grain
    BY LedgerAssumption
<1>2. Whole(0)
    BY <1>1 DEF Whole
<1>3. QED
    BY <1>2, WholeStays

\* What is left after whole thousandths are taken is rounded alike.
LEMMA WholeTaken ==
    ASSUME NEW n \in Int, NEW w \in Int, Whole(w)
    PROVE  roundAmount(n - w) = roundAmount(n) - w
<1> DEFINE half == Grain \div 2
           k == (n + half) \div Grain
           l == (n - w + half) \div Grain
<1>1. Grain \in Nat \ {0}
    BY LedgerAssumption
<1>2. PICK j \in Int : w = j * Grain
    BY DEF Whole
<1>3. half \in Nat
    BY <1>1
<1> HIDE DEF half
<1>4. k \in Int /\ k * Grain <= n + half /\ n + half < k * Grain + Grain
    BY <1>1, <1>3
<1>5. /\ l \in Int /\ l * Grain <= n - w + half
      /\ n - w + half < l * Grain + Grain
    <2> DEFINE m == n - w + half
    <2>1. m \in Int
        BY <1>3
    <2> HIDE DEF m
    <2>2. m \div Grain \in Int /\ (m \div Grain) * Grain <= m
          /\ m < (m \div Grain) * Grain + Grain
        BY <1>1, <2>1
    <2>3. QED
        BY <2>2 DEF m
<1>6. roundAmount(n) = k * Grain /\ roundAmount(n - w) = l * Grain
    BY DEF roundAmount, half
<1> HIDE DEF k, l
<1> DEFINE i == k - j
<1>7. i \in Int /\ i * Grain = k * Grain - w
    BY <1>1, <1>2, <1>4
<1> HIDE DEF i
<1>8. i * Grain \in Int /\ l * Grain \in Int /\ k * Grain \in Int
    BY <1>1, <1>4, <1>5, <1>7
<1>9. i * Grain < l * Grain + Grain /\ l * Grain < i * Grain + Grain
    <2> DEFINE a == i * Grain
               b == l * Grain
               c == k * Grain
    <2>1. /\ a \in Int /\ b \in Int /\ c \in Int /\ a = c - w
          /\ c <= n + half /\ n + half < c + Grain
          /\ b <= n - w + half /\ n - w + half < b + Grain
        BY <1>4, <1>5, <1>7, <1>8
    <2> HIDE DEF a, b, c
    <2>2. a < b + Grain /\ b < a + Grain
        BY <1>1, <1>3, <2>1
    <2>3. QED
        BY <2>2 DEF a, b
<1>10. ~(i < l)
    <2>1. i < l => i * Grain + Grain <= l * Grain
        BY <1>1, <1>5, <1>7, Multiples
    <2>2. QED
        BY <1>1, <1>8, <1>9, <2>1
<1>11. ~(l < i)
    <2>1. l < i => l * Grain + Grain <= i * Grain
        BY <1>1, <1>5, <1>7, Multiples
    <2>2. QED
        BY <1>1, <1>8, <1>9, <2>1
<1>12. i = l
    BY <1>5, <1>7, <1>10, <1>11
<1>13. QED
    BY <1>6, <1>7, <1>12

LEMMA RoundsToNat ==
    ASSUME NEW n \in Nat
    PROVE  roundAmount(n) \in Nat
<1>1. roundAmount(0) <= roundAmount(n) /\ roundAmount(n) \in Int
    BY Rounding, RoundingOrders
<1>2. QED
    BY <1>1, WholeZero

-----------------------------------------------------------------------------
(* Credits: the inductive invariant                                        *)

\* How far what the summary shows is from what was granted.
Drift(t) ==
    totalBalances(t) + totalReserved(t) + creditPool[t] + consumed[t] - granted[t]

RequestOK(q) ==
    creditRequests[q] # None =>
        /\ Whole(creditRequests[q].fulfilled)
        /\ creditRequests[q].fulfilled <= roundAmount(creditRequests[q].requested)
        /\ creditRequests[q].status = "OPEN" =>
              creditRequests[q].fulfilled < creditRequests[q].requested
ConsumedIsEmpty ==
    \A r \in Reservations :
        creditReservations[r].status = "CONSUMED" =>
            creditReservations[r].remaining = 0

DriftOK ==
    \A t \in AssetTypes : /\ 2 * Drift(t) <= Grain * roundings
                          /\ -2 * Drift(t) <= Grain * roundings

LedgerInv ==
    TypeOK /\ DriftOK /\ ConsumedIsEmpty /\ \A q \in Requests : RequestOK(q)

HeldOf(it, t) ==
    IF it.status \in Open /\ it.assetType = t THEN it.remaining ELSE 0

LEMMA HeldIsNat ==
    ASSUME NEW it \in {None} \cup CreditReservation, NEW t
    PROVE  HeldOf(it, t) \in Nat
<1>1. CASE it = None
    BY <1>1 DEF None, HeldOf, Open
<1>2. CASE it \in CreditReservation
    BY <1>2 DEF CreditReservation, HeldOf
<1>3. QED
    BY <1>1, <1>2

LEMMA SumsAreNat ==
    ASSUME TypeOK, NEW t \in AssetTypes
    PROVE  /\ [a \in Agents |-> creditBalances[<<a, t>>]] \in [Agents -> Nat]
           /\ [r \in Reservations |-> Held(r, t)] \in [Reservations -> Nat]
           /\ totalBalances(t) \in Nat /\ totalReserved(t) \in Nat
           /\ creditPool[t] \in Nat /\ consumed[t] \in Nat
           /\ granted[t] \in Nat /\ Drift(t) \in Int
<1>1. [a \in Agents |-> creditBalances[<<a, t>>]] \in [Agents -> Nat]
    BY DEF TypeOK
<1>2. [r \in Reservations |-> Held(r, t)] \in [Reservations -> Nat]
    <2>1. \A r \in Reservations :
             creditReservations[r] \in {None} \cup CreditReservation
        BY DEF TypeOK
    <2>2. \A r \in Reservations : Held(r, t) = HeldOf(creditReservations[r], t)
        BY DEF Held, HeldOf
    <2>3. \A r \in Reservations : Held(r, t) \in Nat
        BY <2>1, <2>2, HeldIsNat
    <2>4. QED
        BY <2>3
<1>3. totalBalances(t) \in Nat /\ totalReserved(t) \in Nat
    BY <1>1, <1>2, LedgerAssumption, TotalIsNat DEF totalBalances, totalReserved
<1>4. creditPool[t] \in Nat /\ consumed[t] \in Nat /\ granted[t] \in Nat
    BY DEF TypeOK
<1>5. QED
    BY <1>1, <1>2, <1>3, <1>4 DEF Drift

LEMMA BalanceMoves ==
    ASSUME TypeOK, NEW a \in Agents, NEW t \in AssetTypes, NEW v \in Nat,
           creditBalances' = [creditBalances EXCEPT ![<<a, t>>] = v]
    PROVE  /\ creditBalances' \in [Agents \X AssetTypes -> Nat]
           /\ \A s \in AssetTypes : totalBalances(s)' =
                 totalBalances(s)
                 + (IF s = t THEN v - creditBalances[<<a, t>>] ELSE 0)
<1> DEFINE Of(s) == [b \in Agents |-> creditBalances[<<b, s>>]]
           New(s) == [b \in Agents |-> creditBalances'[<<b, s>>]]
<1>1. creditBalances' \in [Agents \X AssetTypes -> Nat]
    BY DEF TypeOK
<1>2. <<a, t>> \in Agents \X AssetTypes /\ creditBalances'[<<a, t>>] = v
    BY DEF TypeOK
<1>3. \A b \in Agents, s \in AssetTypes : b # a \/ s # t =>
          creditBalances'[<<b, s>>] = creditBalances[<<b, s>>]
    BY DEF TypeOK
<1>4. ASSUME NEW s \in AssetTypes
      PROVE  totalBalances(s)' = totalBalances(s)
                 + (IF s = t THEN v - creditBalances[<<a, t>>] ELSE 0)
    <2>1. Of(s) \in [Agents -> Nat] /\ New(s) \in [Agents -> Nat]
        BY <1>1 DEF TypeOK
    <2>2. \A b \in Agents \ {a} : Of(s)[b] = New(s)[b]
        BY <1>3
    <2>3. Of(s)[a] = creditBalances[<<a, s>>]
          /\ New(s)[a] = IF s = t THEN v ELSE creditBalances[<<a, s>>]
        BY <1>2, <1>3
    <2>4. totalBalances(s) = Total(Of(s)) /\ totalBalances(s)' = Total(New(s))
        BY DEF totalBalances
    <2> HIDE DEF Of, New
    <2>5. Total(New(s)) + Of(s)[a] = Total(Of(s)) + New(s)[a]
        BY <2>1, <2>2, LedgerAssumption, TotalPoint
    <2>6. Total(New(s)) \in Nat /\ Total(Of(s)) \in Nat
          /\ creditBalances[<<a, s>>] \in Nat
        BY <2>1, <2>3, LedgerAssumption, TotalIsNat
    <2>7. CASE s = t
        <3> DEFINE new == Total(New(s))
                   old == Total(Of(s))
                   b == creditBalances[<<a, t>>]
        <3>1. new + b = old + v /\ new \in Nat /\ old \in Nat /\ b \in Nat
            BY <2>3, <2>5, <2>6, <2>7
        <3> HIDE DEF new, old, b
        <3>2. new = old + (v - b)
            BY <3>1
        <3>3. QED
            BY <2>4, <2>7, <3>2 DEF new, old, b
    <2>8. CASE s # t
        <3> DEFINE new == Total(New(s))
                   old == Total(Of(s))
        <3>1. new = old /\ old \in Nat
            BY <2>3, <2>5, <2>6, <2>8
        <3>2. QED
            BY <2>4, <2>8, <3>1
    <2>9. QED
        BY <2>7, <2>8
<1>5. QED
    BY <1>1, <1>4

LEMMA ReservationMoves ==
    ASSUME TypeOK, NEW r \in Reservations, NEW x \in CreditReservation,
           creditReservations' = [creditReservations EXCEPT ![r] = x]
    PROVE  /\ creditReservations' \in [Reservations -> {None} \cup CreditReservation]
           /\ creditReservations'[r] = x
           /\ \A s \in Reservations \ {r} :
                 creditReservations'[s] = creditReservations[s]
           /\ \A t \in AssetTypes : totalReserved(t)' =
                 totalReserved(t) + HeldOf(x, t)
                 - HeldOf(creditReservations[r], t)
<1>1. creditReservations' \in [Reservations -> {None} \cup CreditReservation]
    BY DEF TypeOK
<1>2. creditReservations'[r] = x /\ \A s \in Reservations \ {r} :
                 creditReservations'[s] = creditReservations[s]
    BY DEF TypeOK
<1>3. ASSUME NEW t \in AssetTypes
      PROVE  totalReserved(t)' = totalReserved(t) + HeldOf(x, t)
                                 - HeldOf(creditReservations[r], t)
    <2> DEFINE old == [s \in Reservations |-> Held(s, t)]
               new == [s \in Reservations |-> HeldOf(creditReservations'[s], t)]
    <2>1. old \in [Reservations -> Nat] /\ totalReserved(t) = Total(old)
        BY SumsAreNat DEF totalReserved
    <2>2. new \in [Reservations -> Nat]
        BY <1>1, HeldIsNat
    <2>3. totalReserved(t)' = Total(new)
        BY DEF totalReserved, Held, HeldOf
    <2>4. \A s \in Reservations \ {r} : old[s] = new[s]
        BY <1>2 DEF Held, HeldOf
    <2>5. old[r] = HeldOf(creditReservations[r], t) /\ new[r] = HeldOf(x, t)
        BY <1>2 DEF Held, HeldOf
    <2> HIDE DEF old, new
    <2>6. Total(new) + old[r] = Total(old) + new[r]
        BY <2>1, <2>2, <2>4, LedgerAssumption, TotalPoint
    <2>7. Total(new) \in Nat /\ Total(old) \in Nat /\ old[r] \in Nat /\ new[r] \in Nat
        BY <2>1, <2>2, LedgerAssumption, TotalIsNat
    <2>8. QED
        BY <2>1, <2>3, <2>5, <2>6, <2>7
<1>4. QED
    BY <1>1, <1>2, <1>3

\* Every rounding may add half a thousandth.
LEMMA DriftGrows ==
    ASSUME TypeOK, DriftOK, NEW n \in Nat, roundings' = roundings + n,
           \A t \in AssetTypes :
               /\ Drift(t)' \in Int
               /\ 2 * (Drift(t)' - Drift(t)) <= Grain * n
               /\ 2 * (Drift(t) - Drift(t)') <= Grain * n
    PROVE  DriftOK'
<1> SUFFICES ASSUME NEW t \in AssetTypes
             PROVE  /\ 2 * Drift(t)' <= Grain * roundings'
                    /\ -2 * Drift(t)' <= Grain * roundings'
    BY DEF DriftOK
<1>1. /\ Drift(t) \in Int
      /\ 2 * Drift(t) <= Grain * roundings
      /\ -2 * Drift(t) <= Grain * roundings
    BY SumsAreNat DEF DriftOK
<1> DEFINE before == Grain * roundings
           more == Grain * n
<1>2. before \in Int /\ more \in Int
    BY LedgerAssumption DEF TypeOK
<1>3. Grain * roundings' = before + more
    BY LedgerAssumption DEF TypeOK
<1>4. /\ Drift(t)' \in Int
      /\ 2 * (Drift(t)' - Drift(t)) <= more /\ 2 * (Drift(t) - Drift(t)') <= more
    OBVIOUS
<1>5. 2 * Drift(t) <= before /\ -2 * Drift(t) <= before
    BY <1>1
<1> HIDE DEF before, more
<1>6. QED
    BY <1>1, <1>2, <1>3, <1>4, <1>5

LEMMA LedgerStarts == Init => LedgerInv
<1> SUFFICES ASSUME Init PROVE LedgerInv
    OBVIOUS
<1>1. TypeOK
    BY LedgerAssumption DEF Init, TypeOK
<1>2. \A r \in Reservations, t \in AssetTypes : Held(r, t) = 0
    BY DEF Init, Held, None, Open
<1>3. \A t \in AssetTypes : totalBalances(t) = 0 /\ totalReserved(t) = 0
    <2> TAKE t \in AssetTypes
    <2> DEFINE of == [a \in Agents |-> creditBalances[<<a, t>>]]
               held == [r \in Reservations |-> Held(r, t)]
    <2>1. of \in [Agents -> Nat] /\ held \in [Reservations -> Nat]
        BY <1>1, SumsAreNat
    <2>2. (\A a \in Agents : of[a] = 0) /\ \A r \in Reservations : held[r] = 0
        BY <1>2 DEF Init
    <2>3. totalBalances(t) = Total(of) /\ totalReserved(t) = Total(held)
        BY DEF totalBalances, totalReserved
    <2> HIDE DEF of, held
    <2>4. QED
        BY <2>1, <2>2, <2>3, TotalZero
<1>4. \A t \in AssetTypes : Drift(t) = 0
    BY <1>3 DEF Drift, Init
<1>5. DriftOK
    BY <1>4, LedgerAssumption DEF DriftOK, Init
<1>6. ConsumedIsEmpty /\ \A q \in Requests : RequestOK(q)
    BY DEF Init, ConsumedIsEmpty, RequestOK, None
<1>7. QED
    BY <1>1, <1>5, <1>6 DEF LedgerInv

LEMMA RequestsStay ==
    ASSUME NEW q \in Requests, RequestOK(q), creditRequests'[q] = creditRequests[q]
    PROVE  RequestOK(q)'
BY DEF RequestOK, Whole, roundAmount, None

\* What an amount that goes to a balance, or to the pool, and is rounded there
\* does to the sums: it arrives but for an error of half a thousandth.
Error(e) == e \in Int /\ 2 * e <= Grain /\ -2 * e <= Grain

LEMMA GiveMoves ==
    ASSUME TypeOK, NEW a \in Agents, NEW t \in AssetTypes, NEW amount \in Int,
           creditBalances[<<a, t>>] + amount >= 0, GiveTo(a, t, amount)
    PROVE  /\ creditBalances' \in [Agents \X AssetTypes -> Nat]
           /\ \E e : /\ Error(e)
                     /\ \A s \in AssetTypes : totalBalances(s)' =
                           totalBalances(s) + (IF s = t THEN amount + e ELSE 0)
<1> DEFINE before == creditBalances[<<a, t>>]
           v == roundAmount(before + amount)
           e == v - (before + amount)
<1>1. before \in Nat
    BY DEF TypeOK
<1>2. before + amount \in Nat
    BY <1>1
<1>3. v \in Nat /\ 2 * (v - (before + amount)) <= Grain
      /\ 2 * ((before + amount) - v) <= Grain
    BY <1>2, Rounding, RoundsToNat
<1>4. creditBalances' = [creditBalances EXCEPT ![<<a, t>>] = v]
    BY DEF GiveTo
<1> HIDE DEF v, before
<1>5. Error(e)
    BY <1>1, <1>3 DEF Error
<1>6. /\ creditBalances' \in [Agents \X AssetTypes -> Nat]
      /\ \A s \in AssetTypes : totalBalances(s)' =
            totalBalances(s) + (IF s = t THEN v - before ELSE 0)
    BY <1>3, <1>4, BalanceMoves DEF before
<1>7. v - before = amount + e
    BY <1>1, <1>3
<1> HIDE DEF e
<1>8. QED
    BY <1>5, <1>6, <1>7

LEMMA PoolMoves ==
    ASSUME TypeOK, NEW t \in AssetTypes, NEW amount \in Int,
           creditPool[t] + amount >= 0,
           creditPool' = [creditPool EXCEPT ![t] = roundAmount(creditPool[t] + amount)]
    PROVE  /\ creditPool' \in [AssetTypes -> Nat]
           /\ \E e : /\ Error(e)
                     /\ \A s \in AssetTypes : creditPool'[s] =
                           creditPool[s] + (IF s = t THEN amount + e ELSE 0)
<1> DEFINE before == creditPool[t]
           v == roundAmount(before + amount)
           e == v - (before + amount)
<1>1. before \in Nat
    BY DEF TypeOK
<1>2. before + amount \in Nat
    BY <1>1
<1>3. v \in Nat /\ 2 * (v - (before + amount)) <= Grain
      /\ 2 * ((before + amount) - v) <= Grain
    BY <1>2, Rounding, RoundsToNat
<1>4. creditPool' = [creditPool EXCEPT ![t] = v]
    OBVIOUS
<1> HIDE DEF v
<1>5. Error(e)
    BY <1>1, <1>3 DEF Error
<1>6. creditPool' \in [AssetTypes -> Nat]
    BY <1>3, <1>4 DEF TypeOK
<1>7. creditPool'[t] = v /\ \A s \in AssetTypes \ {t} : creditPool'[s] = creditPool[s]
    BY <1>4 DEF TypeOK
<1>8. v = creditPool[t] + (amount + e)
    BY <1>1, <1>3
<1> HIDE DEF e
<1>9. \A s \in AssetTypes : creditPool'[s] =
          creditPool[s] + (IF s = t THEN amount + e ELSE 0)
    <2> TAKE s \in AssetTypes
    <2>1. creditPool[s] \in Nat
        BY DEF TypeOK
    <2>2. CASE s = t
        BY <1>7, <1>8, <2>2
    <2>3. CASE s # t
        BY <1>7, <2>1, <2>3
    <2>4. QED
        BY <2>2, <2>3
<1>10. QED
    BY <1>5, <1>6, <1>9

\* An error of a rounding or two is within what the rounding allows.
LEMMA DriftKeeps ==
    ASSUME TypeOK, DriftOK, NEW n \in Nat, roundings' = roundings + n,
           NEW t \in AssetTypes, NEW e, NEW f, Error(e), Error(f),
           \/ n >= 1 /\ f = 0
           \/ n >= 2,
           \A s \in AssetTypes :
               Drift(s)' = Drift(s) + (IF s = t THEN e + f ELSE 0)
    PROVE  DriftOK'
<1> DEFINE allowed == Grain * n
<1>1. Grain \in Nat
    BY LedgerAssumption
<1>2. allowed \in Nat /\ (n >= 1 => Grain <= allowed)
      /\ (n >= 2 => 2 * Grain <= allowed)
    <2>1. n >= 1 => (Grain * (n - 1) \in Nat /\ allowed = Grain + Grain * (n - 1))
        BY <1>1
    <2>2. n >= 2 => (Grain * (n - 2) \in Nat /\ allowed = 2 * Grain + Grain * (n - 2))
        BY <1>1
    <2>3. allowed \in Nat
        BY <1>1
    <2> DEFINE one == Grain * (n - 1)
               two == Grain * (n - 2)
    <2> HIDE DEF allowed, one, two
    <2>4. (n >= 1 => one \in Nat /\ allowed = Grain + one)
          /\ (n >= 2 => two \in Nat /\ allowed = 2 * Grain + two)
        BY <2>1, <2>2 DEF one, two
    <2>5. QED
        BY <1>1, <2>3, <2>4
<1> HIDE DEF allowed
<1>3. e \in Int /\ f \in Int /\ 2 * (e + f) <= allowed /\ -2 * (e + f) <= allowed
    BY <1>1, <1>2 DEF Error
<1>4. ASSUME NEW s \in AssetTypes
      PROVE  /\ Drift(s)' \in Int
             /\ 2 * (Drift(s)' - Drift(s)) <= allowed
             /\ 2 * (Drift(s) - Drift(s)') <= allowed
    BY <1>2, <1>3, SumsAreNat
<1>5. QED
    BY <1>4, DriftGrows DEF allowed

LEMMA NoError == Error(0)
BY LedgerAssumption DEF Error

LEMMA LedgerGrants ==
    ASSUME LedgerInv, NEW a \in Agents, NEW t \in AssetTypes,
           NEW amount \in CreditAmounts, grant(a, t, amount)
    PROVE  LedgerInv'
<1>1. TypeOK /\ DriftOK /\ ConsumedIsEmpty /\ \A q \in Requests : RequestOK(q)
    BY DEF LedgerInv
<1>2. amount \in Nat
    BY LedgerAssumption
<1>3. /\ creditPool' = creditPool /\ creditReservations' = creditReservations
      /\ creditRequests' = creditRequests /\ consumed' = consumed
      /\ granted' = [granted EXCEPT ![t] = @ + amount]
      /\ roundings' = roundings + 1 /\ roundings' <= MaxRoundings
    BY DEF grant, Rounded
<1>4. /\ amount \in Int /\ GiveTo(a, t, amount)
      /\ creditBalances[<<a, t>>] + amount >= 0
    BY <1>1, <1>2 DEF TypeOK, grant
<1>5. /\ creditBalances' \in [Agents \X AssetTypes -> Nat]
      /\ \E e : /\ Error(e)
                /\ \A s \in AssetTypes : totalBalances(s)' =
                      totalBalances(s) + (IF s = t THEN amount + e ELSE 0)
    BY <1>1, <1>4, GiveMoves
<1>6. PICK e : /\ Error(e)
               /\ \A s \in AssetTypes : totalBalances(s)' =
                     totalBalances(s) + (IF s = t THEN amount + e ELSE 0)
    BY <1>5
<1>7. TypeOK'
    <2>1. granted' \in [AssetTypes -> Nat]
        BY <1>1, <1>2, <1>3 DEF TypeOK
    <2>2. roundings' \in 0..MaxRoundings
        BY <1>1, <1>3, LedgerAssumption DEF TypeOK
    <2>3. QED
        BY <1>1, <1>3, <1>5, <2>1, <2>2 DEF TypeOK
<1>8. \A s \in AssetTypes : totalReserved(s)' = totalReserved(s)
    BY <1>3 DEF totalReserved, Held
<1>9. ASSUME NEW s \in AssetTypes
      PROVE  Drift(s)' = Drift(s) + (IF s = t THEN e + 0 ELSE 0)
    <2>1. granted'[s] = granted[s] + (IF s = t THEN amount ELSE 0)
        BY <1>1, <1>2, <1>3 DEF TypeOK
    <2>2. QED
        BY <1>1, <1>2, <1>3, <1>6, <1>8, <2>1, SumsAreNat DEF Drift, Error
<1>10. DriftOK'
    BY <1>1, <1>3, <1>6, <1>9, NoError, DriftKeeps
<1>11. ConsumedIsEmpty' /\ \A q \in Requests : RequestOK(q)'
    BY <1>1, <1>3, RequestsStay DEF ConsumedIsEmpty
<1>12. QED
    BY <1>7, <1>10, <1>11 DEF LedgerInv

LEMMA LedgerReserves ==
    ASSUME LedgerInv, NEW r \in Reservations, NEW a \in Agents,
           NEW t \in AssetTypes, NEW amount \in CreditAmounts,
           NEW transferable \in BOOLEAN, reserve(r, a, t, amount, transferable)
    PROVE  LedgerInv'
<1> DEFINE x == [owner |-> a, assetType |-> t, remaining |-> amount,
                 transferable |-> transferable, status |-> "RESERVED"]
<1>1. TypeOK /\ DriftOK /\ ConsumedIsEmpty /\ \A q \in Requests : RequestOK(q)
    BY DEF LedgerInv
<1>2. amount \in Nat
    BY LedgerAssumption
<1>3. /\ creditPool' = creditPool /\ creditRequests' = creditRequests
      /\ granted' = granted /\ consumed' = consumed
      /\ creditReservations[r] = None
      /\ creditReservations' = [creditReservations EXCEPT ![r] = x]
      /\ roundings' = roundings + 1 /\ roundings' <= MaxRoundings
    BY DEF reserve, Rounded
<1>4. /\ -amount \in Int /\ GiveTo(a, t, -amount)
      /\ creditBalances[<<a, t>>] + (-amount) >= 0
    BY <1>1, <1>2 DEF TypeOK, reserve, Has
<1>5. /\ creditBalances' \in [Agents \X AssetTypes -> Nat]
      /\ \E e : /\ Error(e)
                /\ \A s \in AssetTypes : totalBalances(s)' =
                      totalBalances(s) + (IF s = t THEN -amount + e ELSE 0)
    BY <1>1, <1>4, GiveMoves
<1>6. PICK e : /\ Error(e)
               /\ \A s \in AssetTypes : totalBalances(s)' =
                     totalBalances(s) + (IF s = t THEN -amount + e ELSE 0)
    BY <1>5
<1>7. x \in CreditReservation /\ x.status = "RESERVED"
    BY <1>2 DEF CreditReservation, Open
<1>8. \A s \in AssetTypes :
          HeldOf(None, s) = 0 /\ HeldOf(x, s) = (IF s = t THEN amount ELSE 0)
    BY DEF HeldOf, None, Open
<1> HIDE DEF x
<1>9. /\ creditReservations' \in [Reservations -> {None} \cup CreditReservation]
      /\ creditReservations'[r] = x
      /\ \A s \in Reservations \ {r} :
            creditReservations'[s] = creditReservations[s]
      /\ \A s \in AssetTypes : totalReserved(s)' =
            totalReserved(s) + HeldOf(x, s) - HeldOf(creditReservations[r], s)
    BY <1>1, <1>3, <1>7, ReservationMoves
<1>10. TypeOK'
    <2>1. roundings' \in 0..MaxRoundings
        BY <1>1, <1>3, LedgerAssumption DEF TypeOK
    <2>2. QED
        BY <1>1, <1>3, <1>5, <1>9, <2>1 DEF TypeOK
<1>11. ASSUME NEW s \in AssetTypes
       PROVE  Drift(s)' = Drift(s) + (IF s = t THEN e + 0 ELSE 0)
    <2>1. totalReserved(s)' = totalReserved(s) + (IF s = t THEN amount ELSE 0)
        BY <1>1, <1>2, <1>3, <1>8, <1>9, SumsAreNat
    <2>2. QED
        BY <1>1, <1>2, <1>3, <1>6, <2>1, SumsAreNat DEF Drift, Error
<1>12. DriftOK'
    BY <1>1, <1>3, <1>6, <1>11, NoError, DriftKeeps
<1>13. ConsumedIsEmpty'
    BY <1>1, <1>7, <1>9 DEF ConsumedIsEmpty
<1>14. \A q \in Requests : RequestOK(q)'
    BY <1>1, <1>3, RequestsStay
<1>15. QED
    BY <1>10, <1>12, <1>13, <1>14 DEF LedgerInv

\* A reservation that is not closed holds an amount of its asset type, and any
\* change of it is a change of that type's total only.
LEMMA OpenReservation ==
    ASSUME LedgerInv, NEW r \in Reservations, ~IsClosed(r)
    PROVE  /\ creditReservations[r] \in CreditReservation
           /\ \A s \in AssetTypes : HeldOf(creditReservations[r], s) =
                 IF s = creditReservations[r].assetType
                 THEN creditReservations[r].remaining ELSE 0
<1> DEFINE it == creditReservations[r]
<1>1. it \in {None} \cup CreditReservation
    BY DEF LedgerInv, TypeOK
<1>2. it.status \notin Closed \cup {"NONE"}
    BY DEF IsClosed
<1>3. it # None
    BY <1>2 DEF None
<1>4. it \in CreditReservation
    BY <1>1, <1>3
<1>5. it.status = "CONSUMED" => it.remaining = 0
    BY DEF LedgerInv, ConsumedIsEmpty
<1>6. it.status \in Open \cup {"CONSUMED"}
    BY <1>2, <1>4 DEF CreditReservation
<1> HIDE DEF it
<1>7. \A s \in AssetTypes :
          HeldOf(it, s) = IF s = it.assetType THEN it.remaining ELSE 0
    BY <1>5, <1>6 DEF HeldOf, Open
<1>8. QED
    BY <1>4, <1>7 DEF it

LEMMA LedgerReleases ==
    ASSUME LedgerInv, NEW r \in Reservations, release(r)
    PROVE  LedgerInv'
<1> DEFINE it == creditReservations[r]
           a == it.owner
           t == it.assetType
           amount == it.remaining
           x == [it EXCEPT !.remaining = 0, !.status = "RELEASED"]
<1>1. TypeOK /\ DriftOK /\ ConsumedIsEmpty /\ \A q \in Requests : RequestOK(q)
    BY DEF LedgerInv
<1>2. /\ it \in CreditReservation
      /\ \A s \in AssetTypes :
            HeldOf(it, s) = IF s = it.assetType THEN it.remaining ELSE 0
    BY OpenReservation DEF release
<1>3. a \in Agents /\ t \in AssetTypes /\ amount \in Nat
    BY <1>2 DEF CreditReservation
<1>4. /\ creditPool' = creditPool /\ creditRequests' = creditRequests
      /\ granted' = granted /\ consumed' = consumed
      /\ creditReservations' = [creditReservations EXCEPT ![r] = x]
    BY <1>1 DEF release, Close, TypeOK
<1>5. IF amount > 0 THEN GiveTo(a, t, amount) /\ Rounded(1)
                    ELSE creditBalances' = creditBalances /\ roundings' = roundings
    BY DEF release
<1>6. /\ x \in CreditReservation /\ x.status = "RELEASED"
      /\ \A s \in AssetTypes : HeldOf(x, s) = 0
    BY <1>2 DEF CreditReservation, HeldOf, Open, Closed
<1> HIDE DEF x
<1>7. /\ creditReservations' \in [Reservations -> {None} \cup CreditReservation]
      /\ creditReservations'[r] = x
      /\ \A s \in Reservations \ {r} :
            creditReservations'[s] = creditReservations[s]
      /\ \A s \in AssetTypes : totalReserved(s)' =
            totalReserved(s) + HeldOf(x, s) - HeldOf(creditReservations[r], s)
    BY <1>1, <1>4, <1>6, ReservationMoves
<1>8. ASSUME NEW s \in AssetTypes
      PROVE  totalReserved(s)' = totalReserved(s) - (IF s = t THEN amount ELSE 0)
    BY <1>1, <1>2, <1>3, <1>6, <1>7, SumsAreNat
<1>9. ConsumedIsEmpty' /\ \A q \in Requests : RequestOK(q)'
    BY <1>1, <1>4, <1>6, <1>7, RequestsStay DEF ConsumedIsEmpty
<1> HIDE DEF it, a, t, amount
<1>10. CASE amount > 0
    <2>1. /\ amount \in Int /\ GiveTo(a, t, amount)
          /\ creditBalances[<<a, t>>] + amount >= 0
          /\ roundings' = roundings + 1 /\ roundings' <= MaxRoundings
        BY <1>1, <1>3, <1>5, <1>10 DEF TypeOK, Rounded
    <2>2. /\ creditBalances' \in [Agents \X AssetTypes -> Nat]
          /\ \E e : /\ Error(e)
                    /\ \A s \in AssetTypes : totalBalances(s)' =
                          totalBalances(s) + (IF s = t THEN amount + e ELSE 0)
        BY <1>1, <1>3, <2>1, GiveMoves
    <2>3. PICK e : /\ Error(e)
                   /\ \A s \in AssetTypes : totalBalances(s)' =
                         totalBalances(s) + (IF s = t THEN amount + e ELSE 0)
        BY <2>2
    <2>4. roundings' \in 0..MaxRoundings
        BY <1>1, <2>1, LedgerAssumption DEF TypeOK
    <2>5. TypeOK'
        BY <1>1, <1>4, <1>7, <2>2, <2>4 DEF TypeOK
    <2>6. ASSUME NEW s \in AssetTypes
          PROVE  Drift(s)' = Drift(s) + (IF s = t THEN e + 0 ELSE 0)
        BY <1>1, <1>3, <1>4, <1>8, <2>3, SumsAreNat DEF Drift, Error
    <2>7. DriftOK'
        BY <1>1, <1>3, <2>1, <2>3, <2>6, NoError, DriftKeeps
    <2>8. QED
        BY <1>9, <2>5, <2>7 DEF LedgerInv
<1>11. CASE ~(amount > 0)
    <2>1. amount = 0 /\ creditBalances' = creditBalances /\ roundings' = roundings
        BY <1>3, <1>5, <1>11
    <2>2. TypeOK'
        BY <1>1, <1>4, <1>7, <2>1 DEF TypeOK
    <2>3. ASSUME NEW s \in AssetTypes
          PROVE  Drift(s)' = Drift(s)
        <3>1. totalBalances(s)' = totalBalances(s)
            BY <2>1 DEF totalBalances
        <3>2. QED
            BY <1>1, <1>4, <1>8, <2>1, <3>1, SumsAreNat DEF Drift
    <2>4. DriftOK'
        BY <1>1, <2>1, <2>3 DEF DriftOK
    <2>5. QED
        BY <1>9, <2>2, <2>4 DEF LedgerInv
<1>12. QED
    BY <1>10, <1>11

LEMMA LedgerRecycles ==
    ASSUME LedgerInv, NEW r \in Reservations, recycle(r)
    PROVE  LedgerInv'
<1> DEFINE it == creditReservations[r]
           t == it.assetType
           amount == it.remaining
           x == [it EXCEPT !.remaining = 0, !.status = "RECYCLED"]
<1>1. TypeOK /\ DriftOK /\ ConsumedIsEmpty /\ \A q \in Requests : RequestOK(q)
    BY DEF LedgerInv
<1>2. /\ it \in CreditReservation
      /\ \A s \in AssetTypes :
            HeldOf(it, s) = IF s = it.assetType THEN it.remaining ELSE 0
    BY OpenReservation DEF recycle, MayRecycle
<1>3. t \in AssetTypes /\ amount \in Nat
    BY <1>2 DEF CreditReservation
<1>4. /\ creditBalances' = creditBalances /\ creditRequests' = creditRequests
      /\ granted' = granted /\ consumed' = consumed
      /\ creditReservations' = [creditReservations EXCEPT ![r] = x]
      /\ roundings' = roundings + 1 /\ roundings' <= MaxRoundings
    BY <1>1 DEF recycle, Close, TypeOK, Rounded
<1>5. /\ amount \in Int /\ creditPool[t] + amount >= 0
      /\ creditPool' = [creditPool EXCEPT ![t] = roundAmount(creditPool[t] + amount)]
    BY <1>1, <1>3 DEF recycle, TypeOK
<1>6. /\ x \in CreditReservation /\ x.status = "RECYCLED"
      /\ \A s \in AssetTypes : HeldOf(x, s) = 0
    BY <1>2 DEF CreditReservation, HeldOf, Open, Closed
<1> HIDE DEF x
<1>7. /\ creditReservations' \in [Reservations -> {None} \cup CreditReservation]
      /\ creditReservations'[r] = x
      /\ \A s \in Reservations \ {r} :
            creditReservations'[s] = creditReservations[s]
      /\ \A s \in AssetTypes : totalReserved(s)' =
            totalReserved(s) + HeldOf(x, s) - HeldOf(creditReservations[r], s)
    BY <1>1, <1>4, <1>6, ReservationMoves
<1>8. ASSUME NEW s \in AssetTypes
      PROVE  totalReserved(s)' = totalReserved(s) - (IF s = t THEN amount ELSE 0)
    BY <1>1, <1>2, <1>3, <1>6, <1>7, SumsAreNat
<1>9. ConsumedIsEmpty' /\ \A q \in Requests : RequestOK(q)'
    BY <1>1, <1>4, <1>6, <1>7, RequestsStay DEF ConsumedIsEmpty
<1> HIDE DEF it, t, amount
<1>10. /\ creditPool' \in [AssetTypes -> Nat]
       /\ \E e : /\ Error(e)
                 /\ \A s \in AssetTypes : creditPool'[s] =
                       creditPool[s] + (IF s = t THEN amount + e ELSE 0)
    BY <1>1, <1>3, <1>5, PoolMoves
<1>11. PICK e : /\ Error(e)
                /\ \A s \in AssetTypes : creditPool'[s] =
                      creditPool[s] + (IF s = t THEN amount + e ELSE 0)
    BY <1>10
<1>12. roundings' \in 0..MaxRoundings
    BY <1>1, <1>4, LedgerAssumption DEF TypeOK
<1>13. TypeOK'
    BY <1>1, <1>4, <1>7, <1>10, <1>12 DEF TypeOK
<1>14. ASSUME NEW s \in AssetTypes
       PROVE  Drift(s)' = Drift(s) + (IF s = t THEN e + 0 ELSE 0)
    <2>1. totalBalances(s)' = totalBalances(s)
        BY <1>4 DEF totalBalances
    <2>2. QED
        BY <1>1, <1>3, <1>4, <1>8, <1>11, <2>1, SumsAreNat DEF Drift, Error
<1>15. DriftOK'
    BY <1>1, <1>3, <1>4, <1>11, <1>14, NoError, DriftKeeps
<1>16. QED
    BY <1>9, <1>13, <1>15 DEF LedgerInv

LEMMA LedgerConsumes ==
    ASSUME LedgerInv, NEW r \in Reservations, NEW amount \in CreditAmounts,
           consume(r, amount)
    PROVE  LedgerInv'
<1> DEFINE it == creditReservations[r]
           t == it.assetType
           remaining == roundAmount(it.remaining - amount)
           status == IF remaining = 0 THEN "CONSUMED" ELSE "PARTIALLY_CONSUMED"
           x == [it EXCEPT !.remaining = remaining, !.status = status]
           e == remaining - (it.remaining - amount)
<1>1. TypeOK /\ DriftOK /\ ConsumedIsEmpty /\ \A q \in Requests : RequestOK(q)
    BY DEF LedgerInv
<1>2. /\ it \in CreditReservation
      /\ \A s \in AssetTypes :
            HeldOf(it, s) = IF s = it.assetType THEN it.remaining ELSE 0
    BY OpenReservation DEF consume
<1>3. /\ t \in AssetTypes /\ it.remaining \in Nat /\ amount \in Nat
      /\ it.remaining - amount \in Nat
    BY <1>2, LedgerAssumption DEF CreditReservation, consume
<1>4. /\ creditBalances' = creditBalances /\ creditRequests' = creditRequests
      /\ granted' = granted /\ creditPool' = creditPool
      /\ creditReservations' = [creditReservations EXCEPT ![r] = x]
      /\ consumed' = [consumed EXCEPT ![t] = @ + amount]
      /\ roundings' = roundings + 1 /\ roundings' <= MaxRoundings
    BY <1>1 DEF consume, TypeOK, Rounded
<1>5. /\ remaining \in Nat /\ 2 * (remaining - (it.remaining - amount)) <= Grain
      /\ 2 * ((it.remaining - amount) - remaining) <= Grain
    BY <1>3, Rounding, RoundsToNat
<1> HIDE DEF remaining
<1>6. Error(e)
    BY <1>3, <1>5 DEF Error
<1>7. /\ status \in {"CONSUMED", "PARTIALLY_CONSUMED"}
      /\ status = "CONSUMED" => remaining = 0
    OBVIOUS
<1> HIDE DEF status
<1>8. /\ x \in CreditReservation
      /\ x.remaining = remaining /\ x.status = status
      /\ \A s \in AssetTypes : HeldOf(x, s) = IF s = t THEN remaining ELSE 0
    <2>1. x \in CreditReservation
        BY <1>2, <1>5, <1>7 DEF CreditReservation, Open, Closed
    <2>2. x.remaining = remaining /\ x.status = status /\ x.assetType = t
        BY <1>2 DEF CreditReservation
    <2> HIDE DEF x
    <2>3. QED
        BY <1>7, <2>1, <2>2 DEF HeldOf, Open
<1> HIDE DEF x
<1>9. /\ creditReservations' \in [Reservations -> {None} \cup CreditReservation]
      /\ creditReservations'[r] = x
      /\ \A s \in Reservations \ {r} :
            creditReservations'[s] = creditReservations[s]
      /\ \A s \in AssetTypes : totalReserved(s)' =
            totalReserved(s) + HeldOf(x, s) - HeldOf(creditReservations[r], s)
    BY <1>1, <1>4, <1>8, ReservationMoves
<1>10. ConsumedIsEmpty' /\ \A q \in Requests : RequestOK(q)'
    BY <1>1, <1>4, <1>7, <1>8, <1>9, RequestsStay DEF ConsumedIsEmpty
<1>11. ASSUME NEW s \in AssetTypes
       PROVE  totalReserved(s)' = totalReserved(s)
                  + (IF s = t THEN remaining - it.remaining ELSE 0)
    BY <1>1, <1>2, <1>3, <1>5, <1>8, <1>9, SumsAreNat
<1>12. remaining - it.remaining = e - amount
    BY <1>3, <1>5
<1> HIDE DEF it, t, e
<1>13. consumed' \in [AssetTypes -> Nat]
    BY <1>1, <1>3, <1>4 DEF TypeOK
<1>14. roundings' \in 0..MaxRoundings
    BY <1>1, <1>4, LedgerAssumption DEF TypeOK
<1>15. TypeOK'
    BY <1>1, <1>4, <1>9, <1>13, <1>14 DEF TypeOK
<1>16. ASSUME NEW s \in AssetTypes
       PROVE  Drift(s)' = Drift(s) + (IF s = t THEN e + 0 ELSE 0)
    <2>1. totalBalances(s)' = totalBalances(s)
        BY <1>4 DEF totalBalances
    <2>2. consumed'[s] = consumed[s] + (IF s = t THEN amount ELSE 0)
        BY <1>1, <1>3, <1>4 DEF TypeOK
    <2>3. totalReserved(s)' = totalReserved(s)
                  + (IF s = t THEN e - amount ELSE 0)
        BY <1>11, <1>12
    <2>4. QED
        BY <1>1, <1>3, <1>4, <1>6, <2>1, <2>2, <2>3, SumsAreNat DEF Drift, Error
<1>17. DriftOK'
    BY <1>1, <1>3, <1>4, <1>6, <1>16, NoError, DriftKeeps
<1>18. QED
    BY <1>10, <1>15, <1>17 DEF LedgerInv

LEMMA LedgerRequests ==
    ASSUME LedgerInv, NEW q \in Requests, NEW a \in Agents,
           NEW t \in AssetTypes, NEW amount \in CreditAmounts,
           request(q, a, t, amount)
    PROVE  LedgerInv'
<1> DEFINE x == [agent |-> a, assetType |-> t, requested |-> amount,
                 fulfilled |-> 0, status |-> "OPEN"]
<1>1. TypeOK /\ DriftOK /\ ConsumedIsEmpty /\ \A p \in Requests : RequestOK(p)
    BY DEF LedgerInv
<1>2. amount \in Nat /\ amount > 0
    BY LedgerAssumption
<1>3. /\ creditBalances' = creditBalances /\ creditPool' = creditPool
      /\ creditReservations' = creditReservations /\ granted' = granted
      /\ consumed' = consumed /\ roundings' = roundings
      /\ creditRequests' = [creditRequests EXCEPT ![q] = x]
    BY DEF request
<1>4. /\ x \in CreditRequest /\ x.fulfilled = 0 /\ x.requested = amount
    BY <1>2 DEF CreditRequest
<1> HIDE DEF x
<1>5. /\ creditRequests' \in [Requests -> {None} \cup CreditRequest]
      /\ creditRequests'[q] = x
      /\ \A p \in Requests \ {q} : creditRequests'[p] = creditRequests[p]
    BY <1>1, <1>3, <1>4 DEF TypeOK
<1>6. TypeOK' /\ ConsumedIsEmpty'
    BY <1>1, <1>3, <1>5 DEF TypeOK, ConsumedIsEmpty
<1>7. DriftOK'
    <2>1. \A s \in AssetTypes : Drift(s)' = Drift(s)
        BY <1>3 DEF Drift, totalBalances, totalReserved, Held
    <2>2. QED
        BY <1>1, <1>3, <2>1 DEF DriftOK
<1>8. RequestOK(q)'
    <2>1. roundAmount(amount) \in Nat
        BY <1>2, RoundsToNat
    <2>2. QED
        BY <1>2, <1>4, <1>5, <2>1, WholeZero DEF RequestOK, Whole, roundAmount
<1>9. \A p \in Requests : RequestOK(p)'
    BY <1>1, <1>5, <1>8, RequestsStay
<1>10. QED
    BY <1>6, <1>7, <1>9 DEF LedgerInv

LEMMA LedgerFulfills ==
    ASSUME LedgerInv, NEW q \in Requests, NEW offered \in CreditAmounts,
           fulfill(q, offered)
    PROVE  LedgerInv'
<1> DEFINE it == creditRequests[q]
           a == it.agent
           t == it.assetType
           least == Allocation(q, offered)
           requested == it.requested
           before == it.fulfilled
           outstanding == roundAmount(requested - before)
           fulfilled == roundAmount(before + least)
           status == IF fulfilled >= requested THEN "FULFILLED" ELSE "OPEN"
           x == [it EXCEPT !.fulfilled = fulfilled, !.status = status]
<1>1. TypeOK /\ DriftOK /\ ConsumedIsEmpty /\ \A p \in Requests : RequestOK(p)
    BY DEF LedgerInv
<1>2. it \in CreditRequest
    BY <1>1 DEF TypeOK, fulfill, None
<1>3. /\ a \in Agents /\ t \in AssetTypes /\ requested \in Nat /\ before \in Nat
    BY <1>2 DEF CreditRequest
<1>4. /\ Whole(before) /\ before <= roundAmount(requested) /\ before < requested
    BY <1>1, <1>2 DEF RequestOK, fulfill, CreditRequest, None
<1>5. /\ creditReservations' = creditReservations
      /\ granted' = granted /\ consumed' = consumed /\ least > 0
      /\ creditRequests' = [creditRequests EXCEPT ![q] = x]
      /\ creditPool' = [creditPool EXCEPT ![t] = roundAmount(@ - least)]
      /\ GiveTo(a, t, least)
      /\ roundings' = roundings + 3 /\ roundings' <= MaxRoundings
    BY <1>1 DEF fulfill, TypeOK, Rounded
<1>6. least \in Nat /\ least <= outstanding /\ least <= creditPool[t]
    <2> DEFINE limits == {offered, outstanding, creditPool[t]}
    <2>1. offered \in Int /\ outstanding \in Int /\ creditPool[t] \in Int
        BY <1>1, <1>3, LedgerAssumption, Rounding DEF TypeOK
    <2> HIDE DEF outstanding
    <2>2. \E m \in limits : \A other \in limits : m <= other
        BY <2>1
    <2>3. least \in limits /\ \A other \in limits : least <= other
        <3>1. least = CHOOSE m \in limits : \A other \in limits : m <= other
            BY DEF Allocation, outstanding
        <3> HIDE DEF least, limits
        <3>2. QED
            BY <2>2, <3>1
    <2>4. QED
        BY <1>5, <2>1, <2>3
<1> HIDE DEF least
<1>7. outstanding = roundAmount(requested) - before
    BY <1>3, <1>4, WholeTaken
<1>8. /\ fulfilled \in Nat /\ Whole(fulfilled)
      /\ fulfilled <= roundAmount(requested)
    <2>1. before + least \in Nat /\ before + least <= roundAmount(requested)
          /\ roundAmount(requested) \in Int /\ Whole(roundAmount(requested))
        BY <1>3, <1>6, <1>7, Rounding
    <2>2. roundAmount(roundAmount(requested)) = roundAmount(requested)
        BY <2>1, WholeStays
    <2>3. fulfilled <= roundAmount(roundAmount(requested))
        BY <2>1, RoundingOrders
    <2>4. fulfilled \in Nat /\ Whole(fulfilled)
        BY <2>1, RoundsToNat, Rounding
    <2>5. QED
        BY <2>2, <2>3, <2>4
<1> HIDE DEF fulfilled, outstanding
<1>9. /\ x \in CreditRequest /\ x.fulfilled = fulfilled
      /\ x.requested = requested
      /\ x.status = "OPEN" => fulfilled < requested
    <2>1. /\ status \in {"OPEN", "FULFILLED"}
          /\ status = "OPEN" => fulfilled < requested
        BY <1>3, <1>8
    <2> HIDE DEF status
    <2>2. x \in CreditRequest
        BY <1>2, <1>8, <2>1 DEF CreditRequest
    <2>3. x.fulfilled = fulfilled /\ x.requested = requested /\ x.status = status
        BY <1>2 DEF CreditRequest
    <2>4. QED
        BY <2>1, <2>2, <2>3
<1> HIDE DEF x, status
<1>10. /\ creditRequests' \in [Requests -> {None} \cup CreditRequest]
       /\ creditRequests'[q] = x
       /\ \A p \in Requests \ {q} : creditRequests'[p] = creditRequests[p]
    BY <1>1, <1>5, <1>9 DEF TypeOK
<1>11. RequestOK(q)'
    BY <1>8, <1>9, <1>10 DEF RequestOK, Whole, roundAmount
<1>12. \A p \in Requests : RequestOK(p)'
    BY <1>1, <1>10, <1>11, RequestsStay
<1>13. /\ least \in Int /\ -least \in Int
       /\ creditBalances[<<a, t>>] + least >= 0
       /\ creditPool[t] + (-least) >= 0
       /\ creditPool' = [creditPool EXCEPT ![t] = roundAmount(creditPool[t] + (-least))]
    <2>1. creditPool[t] \in Nat /\ creditBalances[<<a, t>>] \in Nat
        <3> HIDE DEF a, t
        <3>1. QED
            BY <1>1, <1>3 DEF TypeOK
    <2>2. creditPool[t] - least = creditPool[t] + (-least)
        BY <1>6, <2>1
    <2>3. creditPool' = [creditPool EXCEPT ![t] = roundAmount(creditPool[t] - least)]
        BY <1>5
    <2> HIDE DEF a, t
    <2>4. creditPool' = [creditPool EXCEPT ![t] = roundAmount(creditPool[t] + (-least))]
        BY <2>2, <2>3, Zenon
    <2>5. /\ least \in Int /\ -least \in Int
          /\ creditBalances[<<a, t>>] + least >= 0
          /\ creditPool[t] + (-least) >= 0
        BY <1>6, <2>1
    <2>6. QED
        BY <2>4, <2>5
<1> HIDE DEF it, a, t, requested, before
<1>14. /\ creditBalances' \in [Agents \X AssetTypes -> Nat]
       /\ \E e : /\ Error(e)
                 /\ \A s \in AssetTypes : totalBalances(s)' =
                       totalBalances(s) + (IF s = t THEN least + e ELSE 0)
    BY <1>1, <1>3, <1>5, <1>13, GiveMoves
<1>15. PICK e : /\ Error(e)
                /\ \A s \in AssetTypes : totalBalances(s)' =
                      totalBalances(s) + (IF s = t THEN least + e ELSE 0)
    BY <1>14
<1>16. /\ creditPool' \in [AssetTypes -> Nat]
       /\ \E f : /\ Error(f)
                 /\ \A s \in AssetTypes : creditPool'[s] =
                       creditPool[s] + (IF s = t THEN -least + f ELSE 0)
    BY <1>1, <1>3, <1>13, PoolMoves
<1>17. PICK f : /\ Error(f)
                /\ \A s \in AssetTypes : creditPool'[s] =
                      creditPool[s] + (IF s = t THEN -least + f ELSE 0)
    BY <1>16
<1>18. roundings' \in 0..MaxRoundings
    BY <1>1, <1>5, LedgerAssumption DEF TypeOK
<1>19. TypeOK'
    BY <1>1, <1>5, <1>10, <1>14, <1>16, <1>18 DEF TypeOK
<1>20. ASSUME NEW s \in AssetTypes
       PROVE  Drift(s)' = Drift(s) + (IF s = t THEN e + f ELSE 0)
    <2>1. totalReserved(s)' = totalReserved(s)
        BY <1>5 DEF totalReserved, Held
    <2>2. QED
        BY <1>1, <1>5, <1>6, <1>15, <1>17, <2>1, SumsAreNat DEF Drift, Error
<1>21. DriftOK'
    BY <1>1, <1>3, <1>5, <1>15, <1>17, <1>20, DriftKeeps
<1>22. ConsumedIsEmpty'
    BY <1>1, <1>5 DEF ConsumedIsEmpty
<1>23. QED
    BY <1>12, <1>19, <1>21, <1>22 DEF LedgerInv

LEMMA LedgerMoves == LedgerInv /\ [Next]_vars => LedgerInv'
<1> SUFFICES ASSUME LedgerInv, [Next]_vars
             PROVE  LedgerInv'
    OBVIOUS
<1>1. ASSUME NEW a \in Agents, NEW t \in AssetTypes,
             NEW amount \in CreditAmounts,
             \/ grant(a, t, amount)
             \/ \E r \in Reservations, transferable \in BOOLEAN :
                   reserve(r, a, t, amount, transferable)
             \/ \E q \in Requests : request(q, a, t, amount)
      PROVE  LedgerInv'
    BY <1>1, LedgerGrants, LedgerReserves, LedgerRequests
<1>2. ASSUME NEW r \in Reservations,
             \/ release(r) \/ recycle(r)
             \/ \E amount \in CreditAmounts : consume(r, amount)
      PROVE  LedgerInv'
    BY <1>2, LedgerReleases, LedgerRecycles, LedgerConsumes
<1>3. ASSUME NEW q \in Requests, NEW offered \in CreditAmounts,
             fulfill(q, offered)
      PROVE  LedgerInv'
    BY <1>3, LedgerFulfills
<1>4. CASE UNCHANGED vars
    BY <1>4 DEF vars, ledgerVars, LedgerInv, TypeOK, DriftOK, Drift,
        totalBalances, totalReserved, Held, ConsumedIsEmpty, RequestOK, Whole,
        roundAmount
<1>5. QED
    BY <1>1, <1>2, <1>3, <1>4 DEF Next

\* The SDK's credit ledger, with any agents, amounts and grain: what its
\* summary shows is what was granted but for half a thousandth for each sum it
\* rounded, and no request is allotted more than it asked for
\* (creditVault.ts:15, :37-219).
THEOREM LedgerStaysSound == Spec => []LedgerIsSound
<1>1. LedgerInv => LedgerIsSound
    <2> SUFFICES ASSUME LedgerInv PROVE LedgerIsSound
        OBVIOUS
    <2>1. TypeOK /\ DriftOK /\ \A q \in Requests : RequestOK(q)
        BY DEF LedgerInv
    <2>2. NeverOverfilled
        BY <2>1 DEF NeverOverfilled, RequestOK
    <2>3. Accounted
        <3> SUFFICES ASSUME NEW t \in AssetTypes
                     PROVE  LET known == totalBalances(t) + totalReserved(t)
                                         + creditPool[t] + consumed[t]
                            IN  /\ 2 * (known - granted[t]) <= Grain * roundings
                                /\ 2 * (granted[t] - known) <= Grain * roundings
            BY DEF Accounted
        <3> DEFINE known == totalBalances(t) + totalReserved(t)
                            + creditPool[t] + consumed[t]
                   allowed == Grain * roundings
        <3>1. /\ known \in Int /\ granted[t] \in Int
              /\ Drift(t) = known - granted[t]
            BY <2>1, SumsAreNat DEF Drift
        <3>2. 2 * Drift(t) <= allowed /\ -2 * Drift(t) <= allowed
            BY <2>1 DEF DriftOK
        <3>3. allowed \in Int
            BY <2>1, LedgerAssumption DEF TypeOK
        <3> HIDE DEF known, allowed
        <3>4. 2 * (known - granted[t]) <= allowed
              /\ 2 * (granted[t] - known) <= allowed
            BY <3>1, <3>2, <3>3
        <3>5. QED
            BY <3>4 DEF known, allowed
    <2>4. QED
        BY <2>2, <2>3 DEF LedgerIsSound
<1>2. QED
    BY <1>1, LedgerStarts, LedgerMoves, PTL DEF Spec

=============================================================================
