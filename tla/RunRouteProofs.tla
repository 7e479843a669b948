--------------------------- MODULE RunRouteProofs ---------------------------
(***************************************************************************)
(* Proofs about the credit vault and the route that charges against it.    *)
(*                                                                         *)
(* First the contract by itself: it keeps its books for any accounts,      *)
(* agents, reservation ids, amounts and coin.  The inductive invariant is  *)
(* the conjunction of the type invariant, ClosedOnce (an open reservation  *)
(* has a real agent and requester, so that crediting the requester reaches *)
(* an entry of the ledger), Solvent and Conserved.                         *)
(*                                                                         *)
(* Then RunRoute, for any requests, spellings, senders and clients and any *)
(* price: the server is a client of the vault like any other, so every     *)
(* theorem about the vault holds of the two together; one handler works on *)
(* a spelling at a time; the response is what the vault did; and nobody is *)
(* charged for work that was not done.                                     *)
(***************************************************************************)
EXTENDS RunRoute

IInv == TypeOK /\ ClosedOnce /\ Solvent /\ Conserved

-----------------------------------------------------------------------------
(* Types                                                                   *)

\* Crediting any account a natural amount leaves a ledger.
LEMMA CreditType ==
    ASSUME userBalances \in [Accounts -> Nat], NEW account,
           NEW amount \in Nat, Credit(account, amount)
    PROVE  userBalances' \in [Accounts -> Nat]
<1>1. userBalances' =
        [u \in Accounts |-> IF u = account THEN userBalances[u] + amount
                                           ELSE userBalances[u]]
    BY DEF Credit
<1>2. \A u \in Accounts : userBalances[u] + amount \in Nat
    OBVIOUS
<1>3. QED
    BY <1>1, <1>2

\* Each transaction, and each tick, keeps every variable in its type.
LEMMA TypeStep ==
    ASSUME TypeOK, [Next]_vars
    PROVE  TypeOK'
<1> USE VaultAssumption
<1>1. CASE Tick
    BY <1>1 DEF Tick, TypeOK, ledgerVars, coinVars
<1>2. ASSUME NEW caller \in Accounts, NEW agentId \in Agents,
             NEW controller \in Accounts \cup {NoAccount},
             setAgentController(caller, agentId, controller)
      PROVE  TypeOK'
    BY <1>2 DEF setAgentController, TypeOK, ledgerVars, coinVars
<1>3. ASSUME NEW caller \in Accounts, NEW account \in Accounts \cup {NoAccount},
             NEW value \in Amounts, depositFor(caller, account, value)
      PROVE  TypeOK'
    BY <1>3 DEF depositFor, TypeOK, ReceiveValue, Credit
<1>4. ASSUME NEW caller \in Accounts, NEW amount \in Amounts,
             withdraw(caller, amount)
      PROVE  TypeOK'
    BY <1>4 DEF withdraw, TypeOK, Debit, SendValue
<1>5. ASSUME NEW caller \in Accounts, NEW id \in ReservationIds,
             NEW agentId \in Agents, NEW amount \in Amounts,
             NEW expiresAt \in Expiries,
             \/ reserveCredits(caller, id, agentId, amount, expiresAt)
             \/ reserveCreditsWithDirectPayment(caller, id, agentId, amount,
                                                expiresAt)
      PROVE  TypeOK'
  <2>1. NewReservation(caller, agentId, amount, expiresAt) \in Reservation
    BY DEF NewReservation, Reservation
  <2>2. reservations' \in [ReservationIds -> Reservation]
    BY <1>5, <2>1 DEF reserveCredits, reserveCreditsWithDirectPayment, TypeOK
  <2>3. QED
    BY <1>5, <2>2 DEF reserveCredits, reserveCreditsWithDirectPayment, TypeOK,
                      Debit, ReceiveValue, coinVars
<1>6. ASSUME NEW caller \in Accounts, NEW id \in ReservationIds,
             NEW consumedAmount \in Amounts,
             settleReservation(caller, id, consumedAmount)
      PROVE  TypeOK'
  <2> DEFINE r == reservations[id]
  <2>1. r \in Reservation /\ consumedAmount \in Nat
    BY DEF TypeOK
  <2>2. reservations' \in [ReservationIds -> Reservation]
    BY <1>6, <2>1 DEF settleReservation, TypeOK, Reservation
  <2>3. UnusedRefund(r, consumedAmount) \in Nat
    BY <1>6, <2>1 DEF settleReservation, SettleAllowed, UnusedRefund, IsWithin, Reservation
  <2>4. userBalances' \in [Accounts -> Nat]
    <3>1. Credit(r.requester, UnusedRefund(r, consumedAmount))
      BY <1>6 DEF settleReservation
    <3>2. QED
      BY <2>3, <3>1, CreditType DEF TypeOK
  <2>5. ether' \in Nat /\ wallets' \in [Accounts -> Nat] /\ retained' \in Nat
    <3>1. ASSUME NEW to, SendValue(to, consumedAmount), UNCHANGED retained
          PROVE  /\ ether' \in Nat /\ wallets' \in [Accounts -> Nat]
                 /\ retained' \in Nat
      BY <2>1, <3>1 DEF SendValue, TypeOK
    <3>2. CASE retained' = retained + consumedAmount /\ UNCHANGED coinVars
      BY <2>1, <3>2 DEF TypeOK, coinVars
    <3>3. QED
      BY <1>6, <3>1, <3>2 DEF settleReservation
  <2>6. QED
    BY <1>6, <2>2, <2>4, <2>5 DEF settleReservation, TypeOK
<1>7. ASSUME NEW caller \in Accounts, NEW id \in ReservationIds,
             releaseReservation(caller, id) \/ recycleReservation(caller, id)
      PROVE  TypeOK'
  <2>1. reservations[id] \in Reservation
    BY DEF TypeOK
  <2>2. reservations' \in [ReservationIds -> Reservation]
    <3> DEFINE closed == [reservations[id] EXCEPT !.released = TRUE]
    <3>1. closed \in Reservation
      BY <2>1 DEF Reservation
    <3>2. reservations' = [reservations EXCEPT ![id] = closed]
      BY <1>7 DEF releaseReservation, recycleReservation
    <3> HIDE DEF closed
    <3>3. QED
      BY <3>1, <3>2 DEF TypeOK
  <2>3. userBalances' \in [Accounts -> Nat] /\ recyclablePool' \in Nat
    <3>1. reservations[id].amount \in Nat
      BY <2>1 DEF Reservation
    <3>2. CASE releaseReservation(caller, id)
      BY <3>1, <3>2, CreditType DEF releaseReservation, TypeOK
    <3>3. CASE recycleReservation(caller, id)
      BY <3>1, <3>3 DEF recycleReservation, TypeOK
    <3>4. QED
      BY <1>7, <3>2, <3>3
  <2>4. QED
    BY <1>7, <2>2, <2>3 DEF releaseReservation, recycleReservation, TypeOK,
                            coinVars
<1>8. CASE UNCHANGED vars
    BY <1>8 DEF TypeOK, vars, ledgerVars, coinVars
<1>9. QED
    BY <1>1, <1>2, <1>3, <1>4, <1>5, <1>6, <1>7, <1>8 DEF Next, Call, deposit

-----------------------------------------------------------------------------
(* How each effect moves the sums                                          *)

LEMMA CreditTotal ==
    ASSUME TypeOK, NEW account \in Accounts, NEW amount \in Nat,
           Credit(account, amount)
    PROVE  Total(userBalances)' = Total(userBalances) + amount
<1> DEFINE f == userBalances
           g == userBalances'
<1>1. f \in [Accounts -> Nat] /\ g \in [Accounts -> Nat]
    BY CreditType DEF TypeOK
<1>2. g[account] = f[account] + amount /\ \A u \in Accounts \ {account} : f[u] = g[u]
    BY DEF Credit, TypeOK
<1>3. Total(g) + f[account] = Total(f) + g[account]
    BY <1>1, <1>2, TotalPoint, VaultAssumption
<1>4. Total(f) \in Nat /\ Total(g) \in Nat /\ f[account] \in Nat
    BY <1>1, TotalIsNat, VaultAssumption
<1> HIDE DEF f, g
<1>5. Total(g) = Total(f) + amount
    BY <1>2, <1>3, <1>4
<1>6. QED
    BY <1>5 DEF f, g

LEMMA DebitTotal ==
    ASSUME TypeOK, NEW account \in Accounts, NEW amount \in Nat,
           Debit(account, amount)
    PROVE  Total(userBalances)' + amount = Total(userBalances)
<1> DEFINE f == userBalances
           g == userBalances'
<1>1. f \in [Accounts -> Nat] /\ g \in [Accounts -> Nat]
    BY DEF TypeOK, Debit
<1>2. g[account] = f[account] - amount /\ \A u \in Accounts \ {account} : f[u] = g[u]
    BY DEF Debit, TypeOK
<1>3. Total(g) + f[account] = Total(f) + g[account]
    BY <1>1, <1>2, TotalPoint, VaultAssumption
<1>4. Total(f) \in Nat /\ Total(g) \in Nat /\ f[account] \in Nat
    BY <1>1, TotalIsNat, VaultAssumption
<1> HIDE DEF f, g
<1>5. Total(g) + amount = Total(f)
    BY <1>2, <1>3, <1>4
<1>6. QED
    BY <1>5 DEF f, g

LEMMA ReceiveTotal ==
    ASSUME TypeOK, NEW from \in Accounts, NEW value \in Nat,
           ReceiveValue(from, value)
    PROVE  Total(wallets)' + ether' = Total(wallets) + ether
<1> DEFINE f == wallets
           g == wallets'
<1>1. f \in [Accounts -> Nat] /\ g \in [Accounts -> Nat]
    BY DEF TypeOK, ReceiveValue
<1>2. g[from] = f[from] - value /\ \A u \in Accounts \ {from} : f[u] = g[u]
    BY DEF ReceiveValue, TypeOK
<1>3. Total(g) + f[from] = Total(f) + g[from]
    BY <1>1, <1>2, TotalPoint, VaultAssumption
<1>4. Total(f) \in Nat /\ Total(g) \in Nat /\ f[from] \in Nat
    BY <1>1, TotalIsNat, VaultAssumption
<1>5. ether \in Nat /\ ether' = ether + value
    BY DEF TypeOK, ReceiveValue
<1> HIDE DEF f, g
<1>6. Total(g) + ether' = Total(f) + ether
    BY <1>2, <1>3, <1>4, <1>5
<1>7. QED
    BY <1>6 DEF f, g

LEMMA SendTotal ==
    ASSUME TypeOK, NEW to, NEW value \in Nat, SendValue(to, value)
    PROVE  /\ Total(wallets)' + ether' = Total(wallets) + ether
           /\ ether' = ether - value
<1> DEFINE f == wallets
           g == wallets'
<1>1. f \in [Accounts -> Nat] /\ to \in Accounts
    BY VaultAssumption DEF TypeOK, SendValue
<1>2. g \in [Accounts -> Nat]
    BY <1>1 DEF SendValue
<1>3. g[to] = f[to] + value /\ \A u \in Accounts \ {to} : f[u] = g[u]
    BY <1>1 DEF SendValue
<1>4. Total(g) + f[to] = Total(f) + g[to]
    BY <1>1, <1>2, <1>3, TotalPoint, VaultAssumption
<1>5. Total(f) \in Nat /\ Total(g) \in Nat /\ f[to] \in Nat
    BY <1>1, <1>2, TotalIsNat, VaultAssumption
<1>6. ether \in Nat /\ value <= ether /\ ether' = ether - value
    BY DEF TypeOK, SendValue
<1> HIDE DEF f, g
<1>7. Total(g) + ether' = Total(f) + ether /\ ether' = ether - value
    BY <1>3, <1>4, <1>5, <1>6
<1>8. QED
    BY <1>7 DEF f, g

\* What the reservations hold is a ledger.
LEMMA HeldType ==
    ASSUME TypeOK
    PROVE  Held \in [ReservationIds -> Nat] /\ Total(Held) \in Nat
<1>1. Held \in [ReservationIds -> Nat]
    BY DEF TypeOK, Held, Reservation
<1>2. QED
    BY <1>1, TotalIsNat, VaultAssumption

\* Rewriting one reservation moves the held sum by that reservation's change.
LEMMA HeldPoint ==
    ASSUME TypeOK, TypeOK', NEW id \in ReservationIds,
           \A other \in ReservationIds \ {id} :
               reservations'[other] = reservations[other]
    PROVE  Total(Held)' + Held[id] = Total(Held) + Held'[id]
<1>1. Held \in [ReservationIds -> Nat] /\ Held' \in [ReservationIds -> Nat]
    BY DEF TypeOK, Held, Reservation
<1>2. \A other \in ReservationIds \ {id} : Held[other] = Held'[other]
    BY DEF Held, IsOpen
<1>3. QED
    BY <1>1, <1>2, TotalPoint, VaultAssumption

-----------------------------------------------------------------------------
(* The inductive invariant, function by function                           *)

\* A step that leaves the reservations alone keeps what they hold.
LEMMA HeldUnchanged ==
    ASSUME UNCHANGED reservations
    PROVE  Total(Held)' = Total(Held) /\ (ClosedOnce => ClosedOnce')
BY DEF Held, IsOpen, ClosedOnce

LEMMA FundStep ==
    ASSUME IInv, TypeOK', NEW caller \in Accounts,
           NEW account \in Accounts \cup {NoAccount}, NEW value \in Amounts,
           depositFor(caller, account, value)
    PROVE  IInv'
<1>1. value \in Nat /\ account \in Accounts
    BY VaultAssumption DEF depositFor
<1>2. Total(userBalances)' = Total(userBalances) + value
    BY <1>1, CreditTotal DEF depositFor, IInv
<1>3. Total(wallets)' + ether' = Total(wallets) + ether
    BY <1>1, ReceiveTotal DEF depositFor, IInv
<1>4. ether' = ether + value
    BY DEF depositFor, ReceiveValue
<1>5. Total(Held)' = Total(Held) /\ ClosedOnce'
    BY HeldUnchanged DEF depositFor, IInv
<1>6. Total(Held) \in Nat /\ Total(userBalances) \in Nat
    BY HeldType, TotalIsNat, VaultAssumption DEF IInv, TypeOK
<1>7. Solvent'
    BY <1>1, <1>2, <1>4, <1>5, <1>6 DEF depositFor, IInv, Solvent, TypeOK
<1>8. QED
    BY <1>3, <1>5, <1>7 DEF IInv, Conserved

LEMMA WithdrawStep ==
    ASSUME IInv, TypeOK', NEW caller \in Accounts, NEW amount \in Amounts,
           withdraw(caller, amount)
    PROVE  IInv'
<1>1. amount \in Nat
    BY VaultAssumption
<1>2. Total(userBalances)' + amount = Total(userBalances)
    BY <1>1, DebitTotal DEF withdraw, IInv
<1>3. /\ Total(wallets)' + ether' = Total(wallets) + ether
      /\ ether' = ether - amount
    BY <1>1, SendTotal DEF withdraw, IInv
<1>4. Total(Held)' = Total(Held) /\ ClosedOnce'
    BY HeldUnchanged DEF withdraw, IInv
<1>5. /\ Total(Held) \in Nat /\ Total(userBalances) \in Nat
      /\ Total(userBalances)' \in Nat
    BY HeldType, TotalIsNat, VaultAssumption DEF IInv, TypeOK
<1>6. Solvent'
    BY <1>1, <1>2, <1>3, <1>4, <1>5 DEF withdraw, IInv, Solvent, TypeOK
<1>7. QED
    BY <1>3, <1>4, <1>6 DEF IInv, Conserved

\* A new reservation on a fresh id holds its amount and nothing else changes
\* hands among the reservations.
LEMMA NewReservationHeld ==
    ASSUME IInv, TypeOK', NEW caller \in Accounts, NEW id \in ReservationIds,
           NEW agentId \in Agents, NEW amount \in Nat, amount > 0,
           NEW expiresAt, IsFresh(id),
           reservations' = [reservations EXCEPT
               ![id] = NewReservation(caller, agentId, amount, expiresAt)]
    PROVE  Total(Held)' = Total(Held) + amount /\ ClosedOnce'
<1>1. /\ reservations'[id] = NewReservation(caller, agentId, amount, expiresAt)
      /\ \A other \in ReservationIds \ {id} :
            reservations'[other] = reservations[other]
    BY DEF IInv, TypeOK
<1>2. Held[id] = 0 /\ Held'[id] = amount
    BY <1>1 DEF IsFresh, IsOpen, Held, NewReservation
<1>3. Total(Held)' + Held[id] = Total(Held) + Held'[id]
    BY <1>1, HeldPoint DEF IInv
<1>4. Total(Held) \in Nat /\ Total(Held)' \in Nat
    BY HeldType, TotalIsNat, VaultAssumption DEF IInv, TypeOK, Held, Reservation
<1>5. ClosedOnce'
    BY <1>1 DEF IInv, ClosedOnce, NewReservation
<1>6. QED
    BY <1>2, <1>3, <1>4, <1>5

LEMMA ReserveStep ==
    ASSUME IInv, TypeOK', NEW caller \in Accounts, NEW id \in ReservationIds,
           NEW agentId \in Agents, NEW amount \in Amounts,
           NEW expiresAt \in Expiries,
           reserveCredits(caller, id, agentId, amount, expiresAt)
    PROVE  IInv'
<1>1. amount \in Nat
    BY VaultAssumption
<1>2. Total(Held)' = Total(Held) + amount /\ ClosedOnce'
    BY <1>1, NewReservationHeld DEF reserveCredits
<1>3. Total(userBalances)' + amount = Total(userBalances)
    BY <1>1, DebitTotal DEF reserveCredits, IInv
<1>4. /\ Total(Held) \in Nat /\ Total(userBalances) \in Nat
      /\ Total(userBalances)' \in Nat
    BY HeldType, TotalIsNat, VaultAssumption DEF IInv, TypeOK
<1>5. Solvent'
    BY <1>1, <1>2, <1>3, <1>4
       DEF reserveCredits, IInv, Solvent, TypeOK, coinVars
<1>6. Conserved'
    BY DEF reserveCredits, coinVars, IInv, Conserved
<1>7. QED
    BY <1>2, <1>5, <1>6 DEF IInv

LEMMA DirectPaymentStep ==
    ASSUME IInv, TypeOK', NEW caller \in Accounts, NEW id \in ReservationIds,
           NEW agentId \in Agents, NEW value \in Amounts,
           NEW expiresAt \in Expiries,
           reserveCreditsWithDirectPayment(caller, id, agentId, value, expiresAt)
    PROVE  IInv'
<1>1. value \in Nat
    BY VaultAssumption
<1>2. Total(Held)' = Total(Held) + value /\ ClosedOnce'
    BY <1>1, NewReservationHeld DEF reserveCreditsWithDirectPayment
<1>3. Total(wallets)' + ether' = Total(wallets) + ether
    BY <1>1, ReceiveTotal DEF reserveCreditsWithDirectPayment, IInv
<1>4. ether' = ether + value
    BY DEF reserveCreditsWithDirectPayment, ReceiveValue
<1>5. Total(Held) \in Nat /\ Total(userBalances) \in Nat
    BY HeldType, TotalIsNat, VaultAssumption DEF IInv, TypeOK
<1>6. Solvent'
    BY <1>1, <1>2, <1>4, <1>5
       DEF reserveCreditsWithDirectPayment, IInv, Solvent, TypeOK
<1>7. QED
    BY <1>2, <1>3, <1>6 DEF IInv, Conserved

\* Closing an open reservation frees all it held, and its requester is an
\* account of the ledger.
LEMMA ClosedHeld ==
    ASSUME IInv, TypeOK', NEW id \in ReservationIds,
           IsOpen(reservations[id]), ~IsOpen(reservations'[id]),
           \A other \in ReservationIds \ {id} :
               reservations'[other] = reservations[other]
    PROVE  /\ Total(Held)' + reservations[id].amount = Total(Held)
           /\ reservations[id].amount \in Nat
           /\ reservations[id].requester \in Accounts
<1>1. reservations[id].amount \in Nat /\ reservations[id].requester \in Accounts
    BY DEF IInv, TypeOK, ClosedOnce, IsOpen, Reservation
<1>2. Held[id] = reservations[id].amount /\ Held'[id] = 0
    BY DEF Held
<1>3. Total(Held)' + Held[id] = Total(Held) + Held'[id]
    BY HeldPoint DEF IInv
<1>4. Total(Held) \in Nat
    BY HeldType DEF IInv
<1>5. QED
    BY <1>1, <1>2, <1>3, <1>4

LEMMA SettleStep ==
    ASSUME IInv, TypeOK', NEW caller \in Accounts, NEW id \in ReservationIds,
           NEW consumedAmount \in Amounts,
           settleReservation(caller, id, consumedAmount)
    PROVE  IInv'
<1> DEFINE r == reservations[id]
           refund == UnusedRefund(r, consumedAmount)
<1>1. /\ r \in Reservation /\ consumedAmount \in Nat
      /\ IsOpen(r) /\ consumedAmount <= r.amount
    BY VaultAssumption DEF IInv, TypeOK, settleReservation, SettleAllowed, IsWithin
<1>2. /\ reservations'[id] = [r EXCEPT !.consumed = TRUE,
                                       !.consumedAmount = consumedAmount]
      /\ \A other \in ReservationIds \ {id} :
            reservations'[other] = reservations[other]
    BY DEF settleReservation, IInv, TypeOK
<1>3. /\ reservations'[id].consumed /\ ~reservations'[id].released
      /\ reservations'[id].consumedAmount = consumedAmount
      /\ reservations'[id].amount = r.amount
      /\ reservations'[id].agentId = r.agentId
      /\ reservations'[id].requester = r.requester
    BY <1>1, <1>2 DEF Reservation, IsOpen
<1>4. /\ Total(Held)' + r.amount = Total(Held)
      /\ r.amount \in Nat /\ r.requester \in Accounts
    BY <1>1, <1>2, <1>3, ClosedHeld DEF IsOpen
<1>5. refund \in Nat /\ refund + consumedAmount = r.amount
    BY <1>1, <1>4 DEF UnusedRefund
<1>6. Credit(r.requester, refund)
    BY DEF settleReservation
<1>7. Total(userBalances)' = Total(userBalances) + refund
    BY <1>4, <1>5, <1>6, CreditTotal DEF IInv
<1>8. ClosedOnce'
    BY <1>1, <1>2, <1>3 DEF IInv, ClosedOnce
<1>9. /\ Total(Held) \in Nat /\ Total(Held)' \in Nat
      /\ Total(userBalances) \in Nat
    BY HeldType, TotalIsNat, VaultAssumption DEF IInv, TypeOK, Held, Reservation
<1>10. /\ Total(wallets)' + ether' = Total(wallets) + ether
       /\ ether' = (ether + (retained' - retained)) - consumedAmount
  <2>1. ether \in Nat /\ ether' \in Nat /\ retained \in Nat /\ consumedAmount \in Nat
    BY <1>1 DEF IInv, TypeOK
  <2>2. ASSUME NEW to, SendValue(to, consumedAmount), UNCHANGED retained
        PROVE  /\ Total(wallets)' + ether' = Total(wallets) + ether
               /\ ether' = (ether + (retained' - retained)) - consumedAmount
    <3>1. /\ Total(wallets)' + ether' = Total(wallets) + ether
          /\ ether' = ether - consumedAmount
      BY <2>1, <2>2, SendTotal DEF IInv
    <3>2. ether' = ether - consumedAmount /\ retained' = retained
      BY <2>2, <3>1
    <3>3. ether' = (ether + (retained' - retained)) - consumedAmount
      BY <2>1, <3>2
    <3>4. QED
      BY <3>1, <3>3
  <2>3. ASSUME retained' = retained + consumedAmount, UNCHANGED coinVars
        PROVE  /\ Total(wallets)' + ether' = Total(wallets) + ether
               /\ ether' = (ether + (retained' - retained)) - consumedAmount
    BY <2>1, <2>3 DEF coinVars
  <2>4. QED
    BY <2>2, <2>3 DEF settleReservation
<1>11. Solvent'
  <2> HIDE DEF refund, r
  <2>1. UNCHANGED recyclablePool
    BY DEF settleReservation
  <2>2. /\ ether \in Nat /\ ether' \in Nat /\ retained \in Nat
        /\ retained' \in Nat /\ recyclablePool \in Nat
    BY DEF IInv, TypeOK
  <2>3. ether = Total(userBalances) + Total(Held) + recyclablePool + retained
    BY DEF IInv, Solvent
  <2>4. ether' = Total(userBalances)' + Total(Held)' + recyclablePool' + retained'
    BY <1>1, <1>4, <1>5, <1>7, <1>9, <1>10, <2>1, <2>2, <2>3
  <2>5. QED
    BY <2>4 DEF Solvent
<1>12. QED
    BY <1>8, <1>10, <1>11 DEF IInv, Conserved

LEMMA ReleaseStep ==
    ASSUME IInv, TypeOK', NEW caller \in Accounts, NEW id \in ReservationIds,
           releaseReservation(caller, id) \/ recycleReservation(caller, id)
    PROVE  IInv'
<1> DEFINE r == reservations[id]
<1>1. r \in Reservation /\ IsOpen(r)
    BY DEF IInv, TypeOK, releaseReservation, ReleaseAllowed, recycleReservation
<1>2. /\ reservations'[id] = [r EXCEPT !.released = TRUE]
      /\ \A other \in ReservationIds \ {id} :
            reservations'[other] = reservations[other]
    BY DEF releaseReservation, recycleReservation, IInv, TypeOK
<1>3. /\ reservations'[id].released /\ ~reservations'[id].consumed
      /\ reservations'[id].consumedAmount = r.consumedAmount
      /\ reservations'[id].amount = r.amount
      /\ reservations'[id].agentId = r.agentId
      /\ reservations'[id].requester = r.requester
    BY <1>1, <1>2 DEF Reservation, IsOpen
<1>4. /\ Total(Held)' + r.amount = Total(Held)
      /\ r.amount \in Nat /\ r.requester \in Accounts
  <2>1. ~IsOpen(reservations'[id])
    BY <1>3 DEF IsOpen
  <2>2. QED
    BY <1>1, <1>2, <2>1, ClosedHeld
<1>5. ClosedOnce'
  <2>1. /\ ~(r.consumedAmount > 0) /\ r.consumedAmount <= r.amount
        /\ r.amount > 0 => r.agentId \in Agents /\ r.requester \in Accounts
    BY <1>1 DEF IInv, ClosedOnce, IsOpen
  <2>2. QED
    BY <1>2, <1>3, <2>1 DEF IInv, ClosedOnce
<1>6. /\ Total(Held) \in Nat /\ Total(Held)' \in Nat
      /\ Total(userBalances) \in Nat
    BY HeldType, TotalIsNat, VaultAssumption DEF IInv, TypeOK, Held, Reservation
<1>7. CASE releaseReservation(caller, id)
  <2>1. Total(userBalances)' = Total(userBalances) + r.amount
    BY <1>4, <1>7, CreditTotal DEF releaseReservation, IInv
  <2>2. Solvent' /\ Conserved'
    BY <1>4, <1>6, <1>7, <2>1
       DEF releaseReservation, IInv, Solvent, Conserved, TypeOK, coinVars
  <2>3. QED
    BY <1>5, <2>2 DEF IInv
<1>8. CASE recycleReservation(caller, id)
  <2>1. Solvent' /\ Conserved'
    BY <1>4, <1>6, <1>8
       DEF recycleReservation, IInv, Solvent, Conserved, TypeOK, coinVars
  <2>2. QED
    BY <1>5, <2>1 DEF IInv
<1>9. QED
    BY <1>7, <1>8

LEMMA IInvInit == Init => IInv
<1> SUFFICES ASSUME Init PROVE IInv
    OBVIOUS
<1> USE VaultAssumption
<1>1. TypeOK
    BY DEF Init, TypeOK, Unwritten, Reservation
<1>2. ClosedOnce
    BY DEF Init, ClosedOnce, Unwritten
<1>3. Total(userBalances) = 0
    BY <1>1, TotalZero DEF Init, TypeOK
<1>4. Held \in [ReservationIds -> Nat] /\ \A id \in ReservationIds : Held[id] = 0
    BY DEF Init, Held, IsOpen, Unwritten
<1>5. Total(Held) = 0
    BY <1>4, TotalZero
<1>6. Solvent
    BY <1>3, <1>5 DEF Init, Solvent
<1>7. Total(wallets) \in Nat
    BY <1>1, TotalIsNat DEF TypeOK
<1>8. Conserved
    BY <1>7 DEF Init, Conserved
<1>9. QED
    BY <1>1, <1>2, <1>6, <1>8 DEF IInv

LEMMA IInvStep == IInv /\ [Next]_vars => IInv'
<1> SUFFICES ASSUME IInv, [Next]_vars PROVE IInv'
    OBVIOUS
<1>1. TypeOK'
    BY TypeStep DEF IInv
<1>2. ASSUME UNCHANGED <<ledgerVars, coinVars>>
      PROVE  IInv'
  <2>1. Total(Held)' = Total(Held) /\ ClosedOnce'
    BY <1>2, HeldUnchanged DEF ledgerVars, IInv
  <2>2. Solvent' /\ Conserved'
    BY <1>2, <2>1 DEF ledgerVars, coinVars, IInv, Solvent, Conserved
  <2>3. QED
    BY <1>1, <2>1, <2>2 DEF IInv
<1>3. CASE Tick \/ UNCHANGED vars
    BY <1>2, <1>3 DEF Tick, vars
<1>4. ASSUME NEW caller \in Accounts, Call(caller)
      PROVE  IInv'
  <2>1. CASE \E agentId \in Agents, controller \in Accounts \cup {NoAccount} :
                setAgentController(caller, agentId, controller)
    BY <1>2, <2>1 DEF setAgentController
  <2>2. CASE \E value \in Amounts : deposit(caller, value)
    BY <1>1, <2>2, FundStep DEF deposit
  <2>3. CASE \E account \in Accounts \cup {NoAccount}, value \in Amounts :
                depositFor(caller, account, value)
    BY <1>1, <2>3, FundStep
  <2>4. CASE \E amount \in Amounts : withdraw(caller, amount)
    BY <1>1, <2>4, WithdrawStep
  <2>5. CASE \E id \in ReservationIds, agentId \in Agents, amount \in Amounts,
                expiresAt \in Expiries :
                reserveCredits(caller, id, agentId, amount, expiresAt)
    BY <1>1, <2>5, ReserveStep
  <2>6. CASE \E id \in ReservationIds, agentId \in Agents, value \in Amounts,
                expiresAt \in Expiries :
                reserveCreditsWithDirectPayment(caller, id, agentId, value,
                                                expiresAt)
    BY <1>1, <2>6, DirectPaymentStep
  <2>7. CASE \E id \in ReservationIds, consumedAmount \in Amounts :
                settleReservation(caller, id, consumedAmount)
    BY <1>1, <2>7, SettleStep
  <2>8. CASE \E id \in ReservationIds :
                releaseReservation(caller, id) \/ recycleReservation(caller, id)
    BY <1>1, <2>8, ReleaseStep
  <2>9. QED
    BY <1>4, <2>1, <2>2, <2>3, <2>4, <2>5, <2>6, <2>7, <2>8 DEF Call
<1>5. QED
    BY <1>3, <1>4 DEF Next

\* The inductive invariant is one.
THEOREM InductiveInvariant == Spec => []IInv
BY IInvInit, IInvStep, PTL DEF Spec

-----------------------------------------------------------------------------
(* What follows for every instance of the vault                            *)

\* Every variable keeps its type: no balance of the contract goes negative,
\* so no checked subtraction of the code reverts after its require.
THEOREM TypeCorrect == Spec => []TypeOK
BY InductiveInvariant, PTL DEF IInv

\* The coin the contract holds is, at every moment, the sum of the users'
\* credits, the open reservations, the pool and what was retained.
THEOREM AlwaysSolvent == Spec => []Solvent
BY InductiveInvariant, PTL DEF IInv

\* No reservation is both settled and released, or charged beyond its amount.
THEOREM AlwaysClosedOnce == Spec => []ClosedOnce
BY InductiveInvariant, PTL DEF IInv

\* No account is ever owed more than the coin in existence.
THEOREM AlwaysBackedByCoin == Spec => []BackedByCoin
<1>1. IInv => BackedByCoin
  <2> SUFFICES ASSUME IInv, NEW u \in Accounts
               PROVE  userBalances[u] + recyclablePool + retained
                        <= Total(Endowment)
    BY DEF BackedByCoin
  <2> DEFINE sum == Total(userBalances)
             held == Total(Held)
             outside == Total(wallets)
  <2>1. /\ userBalances[u] \in Nat /\ userBalances[u] <= sum
        /\ sum \in Nat /\ outside \in Nat
    BY TotalIsNat, EntryBound, VaultAssumption DEF IInv, TypeOK
  <2>2. held \in Nat
    BY HeldType DEF IInv
  <2>3. recyclablePool \in Nat /\ retained \in Nat /\ ether \in Nat
    BY DEF IInv, TypeOK
  <2>4. /\ ether = sum + held + recyclablePool + retained
        /\ outside + ether = Total(Endowment)
    BY DEF IInv, Solvent, Conserved
  <2> HIDE DEF sum, held, outside
  <2>5. QED
    BY <2>1, <2>2, <2>3, <2>4
<1>2. QED
  BY <1>1, InductiveInvariant, PTL

-----------------------------------------------------------------------------
(* How one step rewrites the reservations                                  *)

\* A step rewrites at most one reservation: a fresh one into a new open one,
\* or an open one into a settled or a released one with the same terms.
Opens(id) ==
    /\ IsFresh(id)
    /\ \E caller \in Accounts, agentId \in Agents, amount \in Amounts,
          expiresAt \in Expiries :
          /\ amount > 0
          /\ reservations' = [reservations EXCEPT
                 ![id] = NewReservation(caller, agentId, amount, expiresAt)]

Settles(id) ==
    /\ IsOpen(reservations[id])
    /\ \E consumedAmount \in Amounts :
          reservations' = [reservations EXCEPT
              ![id] = [@ EXCEPT !.consumed = TRUE,
                                !.consumedAmount = consumedAmount]]

Releases(id) ==
    /\ IsOpen(reservations[id])
    /\ reservations' = [reservations EXCEPT ![id] = [@ EXCEPT !.released = TRUE]]

LEMMA OneReservationMoves ==
    ASSUME TypeOK, [Next]_vars
    PROVE  \/ UNCHANGED reservations
           \/ \E id \in ReservationIds : Opens(id) \/ Settles(id) \/ Releases(id)
<1>1. CASE Tick \/ UNCHANGED vars
    BY <1>1 DEF Tick, vars, ledgerVars
<1>2. ASSUME NEW caller \in Accounts, Call(caller)
      PROVE  \/ UNCHANGED reservations
             \/ \E id \in ReservationIds :
                   Opens(id) \/ Settles(id) \/ Releases(id)
  <2>1. ASSUME NEW id \in ReservationIds, NEW agentId \in Agents,
               NEW amount \in Amounts, NEW expiresAt \in Expiries,
               \/ reserveCredits(caller, id, agentId, amount, expiresAt)
               \/ reserveCreditsWithDirectPayment(caller, id, agentId, amount,
                                                  expiresAt)
        PROVE  Opens(id)
    BY <2>1 DEF Opens, reserveCredits, reserveCreditsWithDirectPayment
  <2>2. ASSUME NEW id \in ReservationIds, NEW consumedAmount \in Amounts,
               settleReservation(caller, id, consumedAmount)
        PROVE  Settles(id)
    BY <2>2 DEF Settles, settleReservation, SettleAllowed
  <2>3. ASSUME NEW id \in ReservationIds,
               releaseReservation(caller, id) \/ recycleReservation(caller, id)
        PROVE  Releases(id)
    BY <2>3 DEF Releases, releaseReservation, ReleaseAllowed, recycleReservation
  <2>4. ASSUME \/ \E agentId \in Agents, controller \in Accounts \cup {NoAccount} :
                     setAgentController(caller, agentId, controller)
               \/ \E account \in Accounts \cup {NoAccount}, value \in Amounts :
                     depositFor(caller, account, value)
               \/ \E value \in Amounts : deposit(caller, value)
               \/ \E amount \in Amounts : withdraw(caller, amount)
        PROVE  UNCHANGED reservations
    BY <2>4 DEF setAgentController, depositFor, deposit, withdraw, ledgerVars
  <2>5. QED
    BY <1>2, <2>1, <2>2, <2>3, <2>4 DEF Call
<1>3. QED
    BY <1>1, <1>2 DEF Next

Frozen(id) ==
    reservations[id].amount > 0 =>
       /\ Terms(reservations[id])' = Terms(reservations[id])
       /\ IsOpen(reservations[id]) \/ UNCHANGED reservations[id]

LEMMA FrozenStep ==
    ASSUME TypeOK, [Next]_vars, NEW x \in ReservationIds
    PROVE  Frozen(x)
<1>1. reservations[x] \in Reservation
    BY DEF TypeOK
<1>2. CASE UNCHANGED reservations
    BY <1>2 DEF Frozen, Terms
<1>3. ASSUME NEW id \in ReservationIds, Opens(id)
      PROVE  Frozen(x)
  <2>1. CASE x = id
    BY <1>1, <1>3, <2>1 DEF Opens, IsFresh, Reservation, Frozen
  <2>2. CASE x # id
    BY <1>3, <2>2 DEF Opens, TypeOK, Terms, Frozen
  <2>3. QED
    BY <2>1, <2>2
<1>4. ASSUME NEW id \in ReservationIds, Settles(id) \/ Releases(id)
      PROVE  Frozen(x)
  <2>1. CASE x = id
    <3>1. IsOpen(reservations[x])
      BY <1>4, <2>1 DEF Settles, Releases
    <3>2. Terms(reservations[x])' = Terms(reservations[x])
      BY <1>1, <1>4, <2>1 DEF Settles, Releases, Terms, Reservation, TypeOK
    <3>3. QED
      BY <3>1, <3>2 DEF Frozen
  <2>2. CASE x # id
    BY <1>4, <2>2 DEF Settles, Releases, TypeOK, Terms, Frozen
  <2>3. QED
    BY <2>1, <2>2
<1>5. QED
    BY <1>2, <1>3, <1>4, OneReservationMoves

\* Every step keeps the terms of the reservations that exist, and leaves the
\* closed ones as they are.
THEOREM TermsNeverChange == Spec => TermsFrozen
<1>1. TypeOK /\ [Next]_vars => [\A id \in ReservationIds : Frozen(id)]_vars
    BY FrozenStep
<1>2. QED
    BY <1>1, TypeCorrect, PTL DEF Spec, TermsFrozen, Frozen

-----------------------------------------------------------------------------
(* What the vault owes one account                                         *)

\* What the open reservations of an account hold.
ShareOf(u) ==
    [id \in ReservationIds |->
        IF reservations[id].requester = u THEN Held[id] ELSE 0]

\* A step of the vault as one account sees it.
Spends(u) ==
    Claim(u)' < Claim(u) =>
        \/ /\ \E amount \in Amounts : withdraw(u, amount)
           /\ Claim(u) - Claim(u)' = wallets[u]' - wallets[u]
        \/ \E id \in ReservationIds :
              /\ reservations[id].requester = u
              /\ IsOpen(reservations[id]) /\ ~IsOpen(reservations[id]')
              /\ Claim(u) - Claim(u)' =
                    IF reservations[id].consumed'
                    THEN reservations[id].consumedAmount'
                    ELSE recyclablePool' - recyclablePool

LEMMA ClaimType ==
    ASSUME TypeOK, NEW u \in Accounts
    PROVE  /\ ShareOf(u) \in [ReservationIds -> Nat]
           /\ userBalances[u] \in Nat /\ Total(ShareOf(u)) \in Nat
           /\ Claim(u) = userBalances[u] + Total(ShareOf(u))
<1>1. Held \in [ReservationIds -> Nat]
    BY HeldType
<1>2. ShareOf(u) \in [ReservationIds -> Nat]
    BY <1>1 DEF ShareOf
<1>3. QED
    BY <1>2, TotalIsNat, VaultAssumption DEF Claim, ShareOf, TypeOK

\* Rewriting one reservation moves the share of an account by its change.
LEMMA SharePoint ==
    ASSUME TypeOK, TypeOK', NEW u \in Accounts, NEW id \in ReservationIds,
           \A other \in ReservationIds \ {id} :
               reservations'[other] = reservations[other]
    PROVE  Total(ShareOf(u))' + ShareOf(u)[id] = Total(ShareOf(u)) + ShareOf(u)'[id]
<1>1. ShareOf(u) \in [ReservationIds -> Nat] /\ ShareOf(u)' \in [ReservationIds -> Nat]
  <2>1. Held \in [ReservationIds -> Nat] /\ Held' \in [ReservationIds -> Nat]
    BY DEF TypeOK, Held, Reservation
  <2>2. QED
    BY <2>1 DEF ShareOf
<1>2. \A other \in ReservationIds \ {id} : ShareOf(u)[other] = ShareOf(u)'[other]
    BY DEF ShareOf, Held, IsOpen
<1>3. QED
    BY <1>1, <1>2, TotalPoint, VaultAssumption

\* The claim of an account after a step that rewrites one reservation.
LEMMA ClaimPoint ==
    ASSUME TypeOK, TypeOK', NEW u \in Accounts, NEW id \in ReservationIds,
           \A other \in ReservationIds \ {id} :
               reservations'[other] = reservations[other]
    PROVE  /\ Claim(u)' - Claim(u) =
                (userBalances'[u] - userBalances[u])
                    + (ShareOf(u)'[id] - ShareOf(u)[id])
           /\ Claim(u) \in Nat /\ Claim(u)' \in Nat
<1>1. /\ ShareOf(u)[id] \in Nat /\ userBalances[u] \in Nat
      /\ Total(ShareOf(u)) \in Nat
      /\ Claim(u) = userBalances[u] + Total(ShareOf(u))
    BY ClaimType
<1>2. /\ ShareOf(u)'[id] \in Nat /\ userBalances'[u] \in Nat
      /\ Total(ShareOf(u))' \in Nat
      /\ Claim(u)' = userBalances'[u] + Total(ShareOf(u))'
  <2>1. ShareOf(u)' \in [ReservationIds -> Nat]
    BY DEF TypeOK, Held, Reservation, ShareOf
  <2>2. QED
    BY <2>1, TotalIsNat, VaultAssumption DEF Claim, ShareOf, TypeOK
<1>3. Total(ShareOf(u))' + ShareOf(u)[id] = Total(ShareOf(u)) + ShareOf(u)'[id]
    BY SharePoint
<1>4. QED
    BY <1>1, <1>2, <1>3

\* The claim of an account after a step that leaves the reservations alone.
LEMMA ClaimUnmoved ==
    ASSUME TypeOK, TypeOK', UNCHANGED reservations, NEW u \in Accounts
    PROVE  /\ Claim(u)' - Claim(u) = userBalances'[u] - userBalances[u]
           /\ Claim(u) \in Nat /\ Claim(u)' \in Nat
<1>1. /\ userBalances[u] \in Nat /\ Total(ShareOf(u)) \in Nat
      /\ Claim(u) = userBalances[u] + Total(ShareOf(u))
    BY ClaimType
<1>2. Total(ShareOf(u))' = Total(ShareOf(u)) /\ userBalances'[u] \in Nat
    BY DEF ShareOf, Held, IsOpen, TypeOK
<1>3. Claim(u)' = userBalances'[u] + Total(ShareOf(u))'
    BY DEF Claim, ShareOf
<1>4. QED
    BY <1>1, <1>2, <1>3

\* Deposits raise claims, a withdrawal lowers that of its caller by what is paid.
LEMMA FundSpends ==
    ASSUME TypeOK, TypeOK', NEW u \in Accounts, NEW caller \in Accounts,
           NEW value \in Amounts,
           \/ \E account \in Accounts \cup {NoAccount} :
                 depositFor(caller, account, value)
           \/ withdraw(caller, value)
    PROVE  Spends(u)
<1> USE VaultAssumption
<1>1. value \in Nat /\ userBalances[u] \in Nat /\ wallets[u] \in Nat
    BY DEF TypeOK
<1>2. /\ Claim(u)' - Claim(u) = userBalances'[u] - userBalances[u]
      /\ Claim(u) \in Nat /\ Claim(u)' \in Nat
    BY ClaimUnmoved DEF depositFor, withdraw
<1>3. CASE \E account \in Accounts \cup {NoAccount} :
               depositFor(caller, account, value)
  <2>1. userBalances'[u] >= userBalances[u]
    BY <1>1, <1>3 DEF depositFor, Credit, TypeOK
  <2>2. userBalances'[u] \in Nat
    BY DEF TypeOK
  <2>3. QED
    BY <1>1, <1>2, <2>1, <2>2 DEF Spends
<1>4. CASE withdraw(caller, value) /\ caller # u
  <2>1. userBalances'[u] = userBalances[u]
    BY <1>4 DEF withdraw, Debit, TypeOK
  <2>2. QED
    BY <1>1, <1>2, <2>1 DEF Spends
<1>5. CASE withdraw(caller, value) /\ caller = u
  <2>1. userBalances'[u] = userBalances[u] - value
    BY <1>5 DEF withdraw, Debit, TypeOK
  <2>2. wallets'[u] = wallets[u] + value
    BY <1>5 DEF withdraw, SendValue, TypeOK
  <2>3. Claim(u) - Claim(u)' = wallets'[u] - wallets[u]
    BY <1>1, <1>2, <2>1, <2>2
  <2>4. QED
    BY <1>5, <2>3 DEF Spends
<1>6. QED
    BY <1>3, <1>4, <1>5

\* A new reservation takes as much from the claim as it adds, or adds to it.
LEMMA ReserveSpends ==
    ASSUME TypeOK, TypeOK', NEW u \in Accounts, NEW caller \in Accounts,
           NEW id \in ReservationIds, NEW agentId \in Agents,
           NEW amount \in Amounts, NEW expiresAt \in Expiries,
           \/ reserveCredits(caller, id, agentId, amount, expiresAt)
           \/ reserveCreditsWithDirectPayment(caller, id, agentId, amount,
                                              expiresAt)
    PROVE  Spends(u)
<1> DEFINE new == NewReservation(caller, agentId, amount, expiresAt)
<1>1. /\ amount \in Nat /\ amount > 0 /\ userBalances[u] \in Nat /\ IsFresh(id)
      /\ reservations' = [reservations EXCEPT ![id] = new]
    BY VaultAssumption DEF TypeOK, reserveCredits, reserveCreditsWithDirectPayment
<1>2. /\ reservations'[id] = new
      /\ \A other \in ReservationIds \ {id} :
            reservations'[other] = reservations[other]
    BY <1>1 DEF TypeOK
<1>3. /\ Claim(u)' - Claim(u) = (userBalances'[u] - userBalances[u])
                                   + (ShareOf(u)'[id] - ShareOf(u)[id])
      /\ Claim(u) \in Nat /\ Claim(u)' \in Nat
    BY <1>2, ClaimPoint
<1>4. new.requester = caller /\ new.amount = amount /\ IsOpen(new)
    BY <1>1 DEF NewReservation, IsOpen
<1> HIDE DEF new
<1>5. ShareOf(u)[id] = 0
    BY <1>1 DEF ShareOf, Held, IsFresh, IsOpen
<1>6. ShareOf(u)'[id] = IF caller = u THEN amount ELSE 0
    BY <1>2, <1>4 DEF ShareOf, Held
<1>7. \/ userBalances'[u] = userBalances[u] - amount /\ caller = u
      \/ userBalances'[u] = userBalances[u]
    BY DEF reserveCredits, reserveCreditsWithDirectPayment, Debit, TypeOK
<1>8. ~(Claim(u)' < Claim(u))
    BY <1>1, <1>3, <1>5, <1>6, <1>7
<1>9. QED
    BY <1>8 DEF Spends

\* Closing a reservation takes from its requester's claim what was consumed
\* or goes to the pool.
LEMMA CloseSpends ==
    ASSUME IInv, TypeOK', NEW u \in Accounts, NEW caller \in Accounts,
           NEW id \in ReservationIds,
           \/ \E consumedAmount \in Amounts :
                 settleReservation(caller, id, consumedAmount)
           \/ releaseReservation(caller, id) \/ recycleReservation(caller, id)
    PROVE  Spends(u)
<1> DEFINE r == reservations[id]
           s == reservations'[id]
<1>1. r \in Reservation /\ IsOpen(r) /\ TypeOK
    BY DEF IInv, TypeOK, settleReservation, SettleAllowed, releaseReservation,
           ReleaseAllowed, recycleReservation
<1>2. /\ r.amount \in Nat /\ userBalances[u] \in Nat
      /\ recyclablePool \in Nat /\ r.requester \in Accounts
    BY <1>1 DEF IInv, ClosedOnce, IsOpen, Reservation, TypeOK
<1>3. \A other \in ReservationIds \ {id} :
          reservations'[other] = reservations[other]
    BY <1>1 DEF settleReservation, releaseReservation, recycleReservation, TypeOK
<1>4. /\ Claim(u)' - Claim(u) = (userBalances'[u] - userBalances[u])
                                   + (ShareOf(u)'[id] - ShareOf(u)[id])
      /\ Claim(u) \in Nat /\ Claim(u)' \in Nat
    BY <1>1, <1>3, ClaimPoint
<1>5. ShareOf(u)[id] = IF r.requester = u THEN r.amount ELSE 0
    BY <1>1 DEF ShareOf, Held
<1>6. /\ ~IsOpen(s) => ShareOf(u)'[id] = 0
      /\ userBalances' = userBalances => userBalances'[u] = userBalances[u]
    BY DEF ShareOf, Held
<1>7. ASSUME NEW consumedAmount \in Amounts,
             settleReservation(caller, id, consumedAmount)
      PROVE  Spends(u)
  <2>1. /\ consumedAmount \in Nat /\ consumedAmount <= r.amount
        /\ s = [r EXCEPT !.consumed = TRUE, !.consumedAmount = consumedAmount]
        /\ Credit(r.requester, r.amount - consumedAmount)
    BY <1>1, <1>7, VaultAssumption
       DEF settleReservation, SettleAllowed, IsWithin, TypeOK, UnusedRefund
  <2>2. s.consumed /\ s.consumedAmount = consumedAmount /\ ~IsOpen(s)
    BY <1>1, <2>1 DEF Reservation, IsOpen
  <2> HIDE DEF r, s
  <2>3. userBalances'[u] = IF r.requester = u
                           THEN userBalances[u] + (r.amount - consumedAmount)
                           ELSE userBalances[u]
    BY <1>1, <1>2, <2>1 DEF Credit, TypeOK
  <2>4. CASE r.requester # u
    BY <1>2, <1>4, <1>5, <1>6, <2>2, <2>3, <2>4 DEF Spends
  <2>5. CASE r.requester = u
    <3>1. Claim(u) - Claim(u)' = consumedAmount
      BY <1>2, <1>4, <1>5, <1>6, <2>1, <2>2, <2>3, <2>5
    <3>2. QED
      BY <1>1, <2>2, <2>5, <3>1 DEF Spends, r, s
  <2>6. QED
    BY <2>4, <2>5
<1>8. CASE releaseReservation(caller, id)
  <2>1. s = [r EXCEPT !.released = TRUE] /\ Credit(r.requester, r.amount)
    BY <1>1, <1>8 DEF releaseReservation, TypeOK
  <2>2. ~IsOpen(s)
    BY <1>1, <2>1 DEF Reservation, IsOpen
  <2> HIDE DEF r, s
  <2>3. userBalances'[u] = IF r.requester = u
                           THEN userBalances[u] + r.amount
                           ELSE userBalances[u]
    BY <1>1, <1>2, <2>1 DEF Credit, TypeOK
  <2>4. QED
    BY <1>2, <1>4, <1>5, <1>6, <2>2, <2>3 DEF Spends
<1>9. CASE recycleReservation(caller, id)
  <2>1. /\ s = [r EXCEPT !.released = TRUE]
        /\ recyclablePool' = recyclablePool + r.amount
        /\ userBalances' = userBalances
    BY <1>1, <1>9 DEF recycleReservation, TypeOK
  <2>2. ~IsOpen(s) /\ ~s.consumed
    BY <1>1, <2>1 DEF Reservation, IsOpen
  <2> HIDE DEF r, s
  <2>3. CASE r.requester # u
    BY <1>2, <1>4, <1>5, <1>6, <2>1, <2>2, <2>3 DEF Spends
  <2>4. CASE r.requester = u
    <3>1. /\ ShareOf(u)[id] = r.amount /\ ShareOf(u)'[id] = 0
          /\ userBalances'[u] = userBalances[u]
      BY <1>5, <1>6, <2>1, <2>2, <2>4
    <3>2. recyclablePool' = recyclablePool + r.amount
      BY <2>1
    <3>3. Claim(u) - Claim(u)' = recyclablePool' - recyclablePool
      BY <1>2, <1>4, <3>1, <3>2
    <3>4. QED
      BY <1>1, <2>2, <2>4, <3>3 DEF Spends, r, s
  <2>5. QED
    BY <2>3, <2>4
<1>10. QED
    BY <1>7, <1>8, <1>9

LEMMA SpendsStep ==
    ASSUME IInv, TypeOK', [Next]_vars, NEW u \in Accounts
    PROVE  Spends(u)
<1>1. TypeOK
    BY DEF IInv
<1>2. ASSUME UNCHANGED <<userBalances, reservations>>
      PROVE  Spends(u)
  <2>1. /\ Claim(u)' - Claim(u) = userBalances'[u] - userBalances[u]
        /\ Claim(u) \in Nat /\ Claim(u)' \in Nat
    BY <1>1, <1>2, ClaimUnmoved
  <2>2. userBalances'[u] = userBalances[u] /\ userBalances[u] \in Nat
    BY <1>1, <1>2 DEF TypeOK
  <2>3. QED
    BY <2>1, <2>2 DEF Spends
<1>3. CASE Tick \/ UNCHANGED vars
    BY <1>2, <1>3 DEF Tick, vars, ledgerVars
<1>4. ASSUME NEW caller \in Accounts, Call(caller)
      PROVE  Spends(u)
  <2>1. CASE \E agentId \in Agents, controller \in Accounts \cup {NoAccount} :
                setAgentController(caller, agentId, controller)
    BY <1>2, <2>1 DEF setAgentController, ledgerVars
  <2>2. CASE \/ \E value \in Amounts : deposit(caller, value)
             \/ \E account \in Accounts \cup {NoAccount}, value \in Amounts :
                   depositFor(caller, account, value)
             \/ \E amount \in Amounts : withdraw(caller, amount)
    BY <1>1, <2>2, FundSpends DEF deposit
  <2>3. CASE \E id \in ReservationIds, agentId \in Agents, amount \in Amounts,
                expiresAt \in Expiries :
                \/ reserveCredits(caller, id, agentId, amount, expiresAt)
                \/ reserveCreditsWithDirectPayment(caller, id, agentId, amount,
                                                   expiresAt)
    BY <1>1, <2>3, ReserveSpends
  <2>4. CASE \E id \in ReservationIds :
                \/ \E consumedAmount \in Amounts :
                      settleReservation(caller, id, consumedAmount)
                \/ releaseReservation(caller, id)
                \/ recycleReservation(caller, id)
    BY <2>4, CloseSpends
  <2>5. QED
    BY <1>4, <2>1, <2>2, <2>3, <2>4 DEF Call
<1>5. QED
    BY <1>3, <1>4 DEF Next

\* An account's claim shrinks only when it withdraws, by what it is paid, or
\* when one of its reservations is closed, by what was consumed or recycled.
THEOREM ClaimsAreOnlySpent == Spec => ClaimsOnlySpent
<1>1. IInv /\ TypeOK' /\ [Next]_vars => [\A u \in Accounts : Spends(u)]_vars
    BY SpendsStep
<1>2. QED
    BY <1>1, InductiveInvariant, TypeCorrect, PTL DEF Spec, ClaimsOnlySpent, Spends

-----------------------------------------------------------------------------
(* The vault implements the custody                                        *)

StageBar == [id \in ReservationIds |-> StageOf(reservations[id])]
StakeBar == [id \in ReservationIds |-> reservations[id].amount]
ChargeBar == [id \in ReservationIds |-> reservations[id].consumedAmount]

\* A function that differs from another in one point is its update there.
LEMMA PointUpdate ==
    ASSUME NEW S, NEW id \in S, NEW v,
           NEW f, f = [x \in S |-> f[x]], NEW g, g = [x \in S |-> g[x]],
           g[id] = v, \A x \in S \ {id} : g[x] = f[x]
    PROVE  g = [f EXCEPT ![id] = v]
<1> DEFINE h == [f EXCEPT ![id] = v]
<1>1. h = [x \in S |-> h[x]]
    OBVIOUS
<1>2. \A x \in S : h[x] = g[x]
    OBVIOUS
<1> HIDE DEF h
<1>3. h = g
    BY <1>1, <1>2
<1>4. QED
    BY <1>3 DEF h

\* The three views of the reservations, point by point.
LEMMA BarPoints ==
    /\ StageBar = [x \in ReservationIds |-> StageBar[x]]
    /\ StakeBar = [x \in ReservationIds |-> StakeBar[x]]
    /\ ChargeBar = [x \in ReservationIds |-> ChargeBar[x]]
    /\ StageBar' = [x \in ReservationIds |-> StageBar'[x]]
    /\ StakeBar' = [x \in ReservationIds |-> StakeBar'[x]]
    /\ ChargeBar' = [x \in ReservationIds |-> ChargeBar'[x]]
    /\ \A x \in ReservationIds :
          /\ StageBar[x] = StageOf(reservations[x])
          /\ StageBar'[x] = StageOf(reservations'[x])
          /\ StakeBar[x] = reservations[x].amount
          /\ StakeBar'[x] = reservations'[x].amount
          /\ ChargeBar[x] = reservations[x].consumedAmount
          /\ ChargeBar'[x] = reservations'[x].consumedAmount
BY DEF StageBar, StakeBar, ChargeBar

\* How a step that opens, settles or releases one reservation looks there.
LEMMA BarOpens ==
    ASSUME IInv, NEW caller, NEW id \in ReservationIds, NEW agentId,
           NEW amount \in Nat, amount > 0, NEW expiresAt, IsFresh(id),
           reservations' = [reservations EXCEPT
               ![id] = NewReservation(caller, agentId, amount, expiresAt)]
    PROVE  /\ StageBar[id] = "unused"
           /\ StageBar' = [StageBar EXCEPT ![id] = "held"]
           /\ StakeBar' = [StakeBar EXCEPT ![id] = amount]
           /\ ChargeBar' = ChargeBar
<1> DEFINE new == NewReservation(caller, agentId, amount, expiresAt)
<1>1. new.amount = amount /\ new.consumedAmount = 0 /\ StageOf(new) = "held"
    BY DEF NewReservation, StageOf
<1>2. reservations[id].amount = 0 /\ reservations[id].consumedAmount = 0
    BY DEF IInv, TypeOK, ClosedOnce, IsFresh, Reservation
<1> HIDE DEF new
<1>3. reservations' = [reservations EXCEPT ![id] = new]
    BY DEF new
<1>4. /\ reservations'[id] = new
      /\ \A x \in ReservationIds \ {id} : reservations'[x] = reservations[x]
    BY <1>3 DEF IInv, TypeOK
<1>5. StageBar[id] = "unused"
    BY <1>2, BarPoints DEF StageOf
<1>6. StageBar' = [StageBar EXCEPT ![id] = "held"]
  <2>1. /\ StageBar'[id] = "held"
        /\ \A x \in ReservationIds \ {id} : StageBar'[x] = StageBar[x]
    BY <1>1, <1>4, BarPoints
  <2>2. QED
    BY <2>1, BarPoints, PointUpdate
<1>7. StakeBar' = [StakeBar EXCEPT ![id] = amount]
  <2>1. /\ StakeBar'[id] = amount
        /\ \A x \in ReservationIds \ {id} : StakeBar'[x] = StakeBar[x]
    BY <1>1, <1>4, BarPoints
  <2>2. QED
    BY <2>1, BarPoints, PointUpdate
<1>8. ChargeBar' = ChargeBar
  <2>1. \A x \in ReservationIds : ChargeBar'[x] = ChargeBar[x]
    BY <1>1, <1>2, <1>4, BarPoints
  <2>2. QED
    BY <2>1, BarPoints
<1>9. QED
    BY <1>5, <1>6, <1>7, <1>8

LEMMA BarSettles ==
    ASSUME IInv, NEW id \in ReservationIds, NEW consumedAmount \in Nat,
           IsOpen(reservations[id]),
           reservations' = [reservations EXCEPT
               ![id] = [@ EXCEPT !.consumed = TRUE,
                                 !.consumedAmount = consumedAmount]]
    PROVE  /\ StageBar[id] = "held"
           /\ StageBar' = [StageBar EXCEPT ![id] = "settled"]
           /\ ChargeBar' = [ChargeBar EXCEPT ![id] = consumedAmount]
           /\ StakeBar' = StakeBar
<1> DEFINE r == reservations[id]
           closed == [r EXCEPT !.consumed = TRUE,
                               !.consumedAmount = consumedAmount]
<1>1. r \in Reservation /\ r.amount > 0 /\ ~r.consumed /\ ~r.released
    BY DEF IInv, TypeOK, IsOpen
<1>2. /\ closed.amount = r.amount /\ closed.consumed
      /\ closed.consumedAmount = consumedAmount
    BY <1>1 DEF Reservation
<1>3. StageOf(r) = "held" /\ StageOf(closed) = "settled"
    BY <1>1, <1>2 DEF StageOf, Reservation
<1>4. reservations' = [reservations EXCEPT ![id] = closed]
    OBVIOUS
<1> HIDE DEF closed
<1>5. /\ reservations'[id] = closed
      /\ \A x \in ReservationIds \ {id} : reservations'[x] = reservations[x]
    BY <1>4 DEF IInv, TypeOK
<1>6. /\ StageBar[id] = "held"
      /\ StageBar' = [StageBar EXCEPT ![id] = "settled"]
  <2>1. StageBar[id] = "held"
    BY <1>3, BarPoints
  <2>2. StageBar'[id] = "settled"
    BY <1>3, <1>5, BarPoints
  <2>3. \A x \in ReservationIds \ {id} : StageBar'[x] = StageBar[x]
    BY <1>5, BarPoints
  <2>4. QED
    BY <2>1, <2>2, <2>3, BarPoints, PointUpdate
<1>7. ChargeBar' = [ChargeBar EXCEPT ![id] = consumedAmount]
  <2>1. /\ ChargeBar'[id] = consumedAmount
        /\ \A x \in ReservationIds \ {id} : ChargeBar'[x] = ChargeBar[x]
    BY <1>2, <1>5, BarPoints
  <2>2. QED
    BY <2>1, BarPoints, PointUpdate
<1>8. StakeBar' = StakeBar
  <2>1. \A x \in ReservationIds : StakeBar'[x] = StakeBar[x]
    BY <1>2, <1>5, BarPoints
  <2>2. QED
    BY <2>1, BarPoints
<1>9. QED
    BY <1>6, <1>7, <1>8

LEMMA BarReleases ==
    ASSUME IInv, NEW id \in ReservationIds, Releases(id)
    PROVE  /\ StageBar[id] = "held"
           /\ StageBar' = [StageBar EXCEPT ![id] = "released"]
           /\ ChargeBar' = ChargeBar
           /\ StakeBar' = StakeBar
<1> DEFINE r == reservations[id]
           closed == [r EXCEPT !.released = TRUE]
<1>1. r \in Reservation /\ r.amount > 0 /\ ~r.consumed /\ ~r.released
    BY DEF IInv, TypeOK, IsOpen, Releases
<1>2. /\ closed.amount = r.amount /\ closed.consumed = r.consumed
      /\ closed.consumedAmount = r.consumedAmount /\ closed.released
    BY <1>1 DEF Reservation
<1>3. StageOf(r) = "held" /\ StageOf(closed) = "released"
    BY <1>1, <1>2 DEF StageOf, Reservation
<1>4. reservations' = [reservations EXCEPT ![id] = closed]
    BY DEF Releases
<1> HIDE DEF closed
<1>5. /\ reservations'[id] = closed
      /\ \A x \in ReservationIds \ {id} : reservations'[x] = reservations[x]
    BY <1>4 DEF IInv, TypeOK
<1>6. /\ StageBar[id] = "held"
      /\ StageBar' = [StageBar EXCEPT ![id] = "released"]
  <2>1. StageBar[id] = "held"
    BY <1>3, BarPoints
  <2>2. StageBar'[id] = "released"
    BY <1>3, <1>5, BarPoints
  <2>3. \A x \in ReservationIds \ {id} : StageBar'[x] = StageBar[x]
    BY <1>5, BarPoints
  <2>4. QED
    BY <2>1, <2>2, <2>3, BarPoints, PointUpdate
<1>7. ChargeBar' = ChargeBar /\ StakeBar' = StakeBar
  <2>1. \A x \in ReservationIds :
           ChargeBar'[x] = ChargeBar[x] /\ StakeBar'[x] = StakeBar[x]
    BY <1>2, <1>5, BarPoints
  <2>2. QED
    BY <2>1, BarPoints
<1>8. QED
    BY <1>6, <1>7

LEMMA CustodyInit == Init => Custody!Init
<1> SUFFICES ASSUME Init PROVE Custody!Init
    OBVIOUS
<1>1. userBalances \in [Accounts -> Nat] /\ \A u \in Accounts : userBalances[u] = 0
    BY DEF Init
<1>2. Total(userBalances) = 0
    BY <1>1, TotalZero
<1>3. QED
    BY <1>2 DEF Init, Custody!Init, StageOf, Unwritten

LEMMA CustodyStep == IInv /\ IInv' /\ [Next]_vars => [Custody!Next]_(Custody!vars)
<1> SUFFICES ASSUME IInv, IInv', [Next]_vars PROVE [Custody!Next]_(Custody!vars)
    OBVIOUS
<1> USE DEF StageBar, StakeBar, ChargeBar
<1>1. ASSUME UNCHANGED ledgerVars
      PROVE  UNCHANGED Custody!vars
    BY <1>1 DEF ledgerVars, Custody!vars
<1>2. /\ Total(userBalances) \in Nat /\ Total(userBalances)' \in Nat
      /\ \A x \in ReservationIds : reservations[x] \in Reservation
    BY TotalIsNat, VaultAssumption DEF IInv, TypeOK
<1>3. ASSUME NEW caller \in Accounts, NEW account \in Accounts \cup {NoAccount},
             NEW value \in Amounts, depositFor(caller, account, value)
      PROVE  Custody!Next
  <2>1. Total(userBalances)' = Total(userBalances) + value
    BY <1>3, CreditTotal, VaultAssumption DEF depositFor, IInv
  <2>2. Custody!Fund
    BY <1>3, <2>1 DEF Custody!Fund, depositFor
  <2>3. QED
    BY <2>2 DEF Custody!Next
<1>4. ASSUME NEW caller \in Accounts, NEW amount \in Amounts,
             withdraw(caller, amount)
      PROVE  Custody!Next
  <2>1. amount \in Nat
    BY VaultAssumption
  <2>2. Total(userBalances)' + amount = Total(userBalances)
    BY <1>4, <2>1, DebitTotal DEF withdraw, IInv
  <2>3. /\ amount <= Total(userBalances)
        /\ Total(userBalances)' = Total(userBalances) - amount
    BY <1>2, <2>1, <2>2
  <2>4. Custody!Withdraw
    BY <1>4, <2>3 DEF Custody!Withdraw, withdraw
  <2>5. QED
    BY <2>4 DEF Custody!Next
<1>5. ASSUME NEW caller \in Accounts, NEW id \in ReservationIds,
             NEW agentId \in Agents, NEW amount \in Amounts,
             NEW expiresAt \in Expiries,
             \/ reserveCredits(caller, id, agentId, amount, expiresAt)
             \/ reserveCreditsWithDirectPayment(caller, id, agentId, amount,
                                                expiresAt)
      PROVE  Custody!Next
  <2>1. /\ amount \in Nat /\ amount > 0 /\ IsFresh(id)
        /\ reservations' = [reservations EXCEPT
               ![id] = NewReservation(caller, agentId, amount, expiresAt)]
        /\ UNCHANGED recyclablePool
    BY <1>5, VaultAssumption
       DEF reserveCredits, reserveCreditsWithDirectPayment
  <2>2. /\ StageBar[id] = "unused"
        /\ StageBar' = [StageBar EXCEPT ![id] = "held"]
        /\ StakeBar' = [StakeBar EXCEPT ![id] = amount]
        /\ ChargeBar' = ChargeBar
    BY <2>1, BarOpens
  <2>3. \/ /\ amount <= Total(userBalances)
           /\ Total(userBalances)' = Total(userBalances) - amount
        \/ Total(userBalances)' = Total(userBalances)
    <3>1. CASE reserveCredits(caller, id, agentId, amount, expiresAt)
      <4>1. Total(userBalances)' + amount = Total(userBalances)
        BY <2>1, <3>1, DebitTotal DEF reserveCredits, IInv
      <4>2. QED
        BY <1>2, <2>1, <4>1
    <3>2. CASE reserveCreditsWithDirectPayment(caller, id, agentId, amount,
                                               expiresAt)
      BY <3>2 DEF reserveCreditsWithDirectPayment
    <3>3. QED
      BY <1>5, <3>1, <3>2
  <2>4. Custody!Hold(id, amount)
    BY <2>1, <2>2, <2>3 DEF Custody!Hold
  <2>5. QED
    BY <2>4 DEF Custody!Next
<1>6. ASSUME NEW caller \in Accounts, NEW id \in ReservationIds,
             NEW consumedAmount \in Amounts,
             settleReservation(caller, id, consumedAmount)
      PROVE  Custody!Next
  <2>1. /\ consumedAmount \in Nat /\ IsOpen(reservations[id])
        /\ consumedAmount <= reservations[id].amount
        /\ reservations[id].amount \in Nat
        /\ reservations[id].requester \in Accounts
    BY <1>2, <1>6, VaultAssumption
       DEF settleReservation, SettleAllowed, IsWithin, IInv, ClosedOnce, IsOpen, Reservation
  <2>2. /\ StageBar[id] = "held"
        /\ StageBar' = [StageBar EXCEPT ![id] = "settled"]
        /\ ChargeBar' = [ChargeBar EXCEPT ![id] = consumedAmount]
        /\ StakeBar' = StakeBar
    BY <1>6, <2>1, BarSettles DEF settleReservation
  <2>3. /\ UnusedRefund(reservations[id], consumedAmount) \in Nat
        /\ StakeBar[id] - consumedAmount
             = UnusedRefund(reservations[id], consumedAmount)
        /\ consumedAmount <= StakeBar[id]
    BY <2>1 DEF UnusedRefund
  <2>4. Total(userBalances)' = Total(userBalances) + (StakeBar[id] - consumedAmount)
    BY <1>6, <2>1, <2>3, CreditTotal DEF settleReservation, IInv
  <2>5. Custody!Settle(id, consumedAmount)
    BY <1>6, <2>2, <2>3, <2>4 DEF Custody!Settle, settleReservation
  <2>6. QED
    BY <2>5 DEF Custody!Next
<1>7. ASSUME NEW caller \in Accounts, NEW id \in ReservationIds,
             releaseReservation(caller, id) \/ recycleReservation(caller, id)
      PROVE  Custody!Next
  <2>1. Releases(id)
    BY <1>7 DEF Releases, releaseReservation, ReleaseAllowed, recycleReservation
  <2>2. /\ StageBar[id] = "held"
        /\ StageBar' = [StageBar EXCEPT ![id] = "released"]
        /\ ChargeBar' = ChargeBar
        /\ StakeBar' = StakeBar
    BY <2>1, BarReleases
  <2>3. /\ reservations[id].amount \in Nat /\ reservations[id].requester \in Accounts
        /\ StakeBar[id] = reservations[id].amount
    BY <1>2, <2>1 DEF Releases, IInv, ClosedOnce, IsOpen, Reservation
  <2>4. \/ /\ Total(userBalances)' = Total(userBalances) + StakeBar[id]
           /\ UNCHANGED recyclablePool
        \/ /\ recyclablePool' = recyclablePool + StakeBar[id]
           /\ Total(userBalances)' = Total(userBalances)
    <3>1. CASE releaseReservation(caller, id)
      BY <2>3, <3>1, CreditTotal DEF releaseReservation, IInv
    <3>2. CASE recycleReservation(caller, id)
      BY <2>3, <3>2 DEF recycleReservation
    <3>3. QED
      BY <1>7, <3>1, <3>2
  <2>5. Custody!Release(id)
    BY <2>2, <2>4 DEF Custody!Release
  <2>6. QED
    BY <2>5 DEF Custody!Next
<1>8. CASE Tick \/ UNCHANGED vars
    BY <1>1, <1>8 DEF Tick, vars
<1>9. ASSUME NEW caller \in Accounts, NEW agentId \in Agents,
             NEW controller \in Accounts \cup {NoAccount},
             setAgentController(caller, agentId, controller)
      PROVE  UNCHANGED Custody!vars
    BY <1>1, <1>9 DEF setAgentController
<1>10. QED
    BY <1>3, <1>4, <1>5, <1>6, <1>7, <1>8, <1>9 DEF Next, Call, deposit

\* The vault implements the custody: whatever its callers do, each
\* reservation is held once and closed once, and its stake goes to charge,
\* refund and pool as the custody says.
THEOREM Refinement == Spec => ImplementsCustody
<1>1. IInv /\ IInv' /\ [Next]_vars => [Custody!Next]_(Custody!vars)
    BY CustodyStep
<1>2. QED
    BY <1>1, CustodyInit, InductiveInvariant, PTL
       DEF Spec, ImplementsCustody, Custody!Spec

-----------------------------------------------------------------------------
(***************************************************************************)
(* The route                                                               *)
(***************************************************************************)

-----------------------------------------------------------------------------
(* Amounts as JavaScript numbers                                           *)

\* An amount is read exactly as far as numbers are exact, and otherwise at most
\* half a spacing off.
LEMMA ReadIsClose ==
    ASSUME NEW n \in Nat
    PROVE  /\ AsNumber(n) \in Nat /\ Spacing(n) \in Nat \ {0}
           /\ -Spacing(n) <= 2 * (AsNumber(n) - n)
           /\ 2 * (AsNumber(n) - n) <= Spacing(n)
           /\ n <= SafeInteger => AsNumber(n) = n
<1>1. /\ SafeInteger \in Nat \ {0}
      /\ Spacings \in SUBSET (Nat \ {0}) /\ 1 \in Spacings
    BY NumberAssumption, RunAssumption, VaultAssumption
<1>2. SpacingOf(n, SafeInteger, Spacings) \in Spacings
    BY <1>1, SpacingType
<1>3. QED
    BY <1>1, <1>2, NumberIsClose DEF AsNumber, Spacing

\* So is the difference of the reservation and the price.
LEMMA SurplusIsClose ==
    ASSUME NEW n \in Nat, AsNumber(n) >= Price
    PROVE  IsClose(AsNumber(AsNumber(n) - Price), n - Price, n,
                   Spacing(n) + Spacing(AsNumber(n) - Price))
<1>1. Price \in Nat /\ SafeInteger \in Nat
    BY NumberAssumption, RunAssumption, VaultAssumption
<1>2. /\ AsNumber(n) \in Nat
      /\ -Spacing(n) <= 2 * (AsNumber(n) - n)
      /\ 2 * (AsNumber(n) - n) <= Spacing(n)
      /\ n <= SafeInteger => AsNumber(n) = n
      /\ Spacing(n) \in Nat
    BY ReadIsClose
<1> DEFINE m == AsNumber(n) - Price
<1>3. m \in Nat
    BY <1>1, <1>2
<1> HIDE DEF m
<1>4. /\ AsNumber(m) \in Nat
      /\ -Spacing(m) <= 2 * (AsNumber(m) - m)
      /\ 2 * (AsNumber(m) - m) <= Spacing(m)
      /\ m <= SafeInteger => AsNumber(m) = m
      /\ Spacing(m) \in Nat
    BY <1>3, ReadIsClose
<1>5. m = AsNumber(n) - Price
    BY DEF m
<1>6. IsClose(AsNumber(m), n - Price, n, Spacing(n) + Spacing(m))
    BY <1>1, <1>2, <1>3, <1>4, <1>5 DEF IsClose
<1>7. QED
    BY <1>6 DEF m

-----------------------------------------------------------------------------
(* The inductive invariant                                                 *)

ServerTypeOK ==
    /\ records \in [Keys -> {Unclaimed, InFlight} \cup Responses]
    /\ at \in [Requests -> Waits \cup {"idle", "done"}]
    /\ body \in [Requests -> {NoBody} \cup [key : Keys, requester : Senders]]
    /\ amountRead \in [Requests -> Nat]
    /\ answers \in [Requests -> Responses]
    /\ pending \in Seq(Requests \X {"settle", "release"})
    /\ receipts \in [Requests \X {"settle", "release"} ->
          {"unsent", "pending", "mined", "reverted"}]
    /\ worked \subseteq Requests
    /\ restarts \in Nat

\* Whom the claims belong to.
ClaimInv ==
    /\ \A q \in Requests : Active(q) => body[q] # NoBody
    /\ \A q, p \in Requests :
          Active(q) /\ Active(p) /\ body[q].key = body[p].key => q = p
    /\ \A q \in Requests : Active(q) => records[body[q].key] # Unclaimed
    /\ \A k \in Keys : records[k] = InFlight =>
          \E q \in Requests : Active(q) /\ body[q].key = k

\* What a handler has read stays so: the vault never rewrites a reservation's
\* terms.
IsRead(q) ==
    /\ at[q] \in Waits \ {"verifying"} => amountRead[q] > 0
    /\ amountRead[q] > 0 =>
          /\ at[q] \notin {"idle", "verifying"}
          /\ body[q] # NoBody
          /\ amountRead[q] >= Price
          /\ reservations[Id(q)].amount > 0
          /\ amountRead[q] = AsNumber(reservations[Id(q)].amount)
          /\ reservations[Id(q)].requester = body[q].requester

ReadInv == \A q \in Requests : IsRead(q)

\* What was sent, by whom and after what.
SentInv ==
    /\ \A q \in Requests :
          /\ at[q] \in {"settling", "settleWait"} => q \in worked
          /\ receipts[<<q, "settle">>] # "unsent" => amountRead[q] > 0 /\ q \in worked
          /\ receipts[<<q, "release">>] # "unsent" => amountRead[q] > 0
    /\ \A i \in 1..Len(pending) : receipts[pending[i]] # "unsent"

\* What a mined transaction has done.
EffectInv ==
    \A q \in Requests :
        LET r == reservations[Id(q)]
        IN  /\ receipts[<<q, "settle">>] = "mined" =>
                  r.consumed /\ r.consumedAmount = Price
            /\ receipts[<<q, "release">>] = "mined" => r.released

UniqueInv ==
    \A t, u \in DOMAIN receipts :
        /\ receipts[t] = "mined" /\ receipts[u] = "mined"
        /\ Id(t[1]) = Id(u[1])
        => t = u

\* What a response says of a reservation.
Truth(response, r) ==
    /\ response.kind = "completed" =>
          /\ r.consumed /\ r.consumedAmount = Price
          /\ IsClose(response.creditsReturned, r.amount - r.consumedAmount,
                     r.amount,
                     Spacing(r.amount) + Spacing(AsNumber(r.amount) - Price))
    /\ response.kind = "failed" =>
          /\ r.amount > 0 /\ r.released
          /\ IsClose(response.creditsReturned, r.amount, r.amount,
                     Spacing(r.amount))

OutcomeInv ==
    /\ \A k \in Keys : Truth(records[k], reservations[IdOf[k]])
    /\ \A q \in Requests :
          /\ at[q] = "idle" => answers[q].kind = "none"
          /\ answers[q].kind \in {"completed", "failed"} => body[q] # NoBody
          /\ Truth(answers[q], reservations[Id(q)])

RunInv ==
    /\ IInv /\ ServerTypeOK
    /\ ClaimInv /\ ReadInv /\ SentInv /\ EffectInv /\ UniqueInv /\ OutcomeInv

-----------------------------------------------------------------------------
(* The server over the vault                                               *)

\* The next transaction to be mined is about a reservation that was read.
LEMMA NextPending ==
    ASSUME RunInv, pending # <<>>
    PROVE  LET tx == Head(pending)
           IN  /\ tx \in Requests \X {"settle", "release"}
               /\ receipts[tx] # "unsent"
               /\ amountRead[tx[1]] > 0
               /\ tx[2] = "settle" => tx[1] \in worked
               /\ Id(tx[1]) \in ReservationIds
<1> DEFINE tx == Head(pending)
<1>1. /\ pending \in Seq(Requests \X {"settle", "release"})
      /\ Len(pending) > 0 /\ tx = pending[1]
    BY DEF RunInv, ServerTypeOK
<1>2. tx \in Requests \X {"settle", "release"} /\ 1 \in 1..Len(pending)
    BY <1>1
<1>3. receipts[tx] # "unsent"
    BY <1>1, <1>2 DEF RunInv, SentInv
<1>4. tx[1] \in Requests /\ tx = <<tx[1], tx[2]>> /\ tx[2] \in {"settle", "release"}
    BY <1>2
<1> HIDE DEF tx
<1>5. amountRead[tx[1]] > 0 /\ (tx[2] = "settle" => tx[1] \in worked)
    BY <1>3, <1>4 DEF RunInv, SentInv
<1>6. body[tx[1]] \in [key : Keys, requester : Senders]
    BY <1>4, <1>5 DEF RunInv, ReadInv, IsRead, ServerTypeOK
<1>7. Id(tx[1]) \in ReservationIds
    BY <1>6, RunAssumption DEF Id
<1>8. QED
    BY <1>2, <1>3, <1>5, <1>7 DEF tx

\* Whatever happens, the vault takes one of its own steps or none.
LEMMA VaultMoves ==
    ASSUME RunInv, [RunNext]_runVars
    PROVE  [Next]_vars
<1> USE VaultAssumption, RunAssumption
<1>1. CASE UNCHANGED runVars
    BY <1>1 DEF runVars
<1>2. ASSUME NEW q \in Requests,
             \/ Invalid(q) \/ Handle(q) \/ FinishTask(q)
             \/ SettleRpcError(q) \/ ReleaseRpcError(q) \/ GlobalTimeout(q)
             \/ \E k \in Keys, requester \in Senders :
                   Repeat(q, k, requester) \/ Accept(q, k, requester)
      PROVE  UNCHANGED vars
    BY <1>2 DEF Invalid, Repeat, Accept, Handle, ReadReservation,
       AcceptTransaction, Reject, FailTask, SubmitSettle, SettleReverts,
       Complete, SubmitRelease, ReleaseReverts, Fail, FinishTask,
       SettleRpcError, ReleaseRpcError, GlobalTimeout
<1>3. CASE Restart
    BY <1>3 DEF Restart
<1>4. ASSUME NEW id \in ReservationIds,
             \/ settleReservation(Signer, id, Price)
             \/ releaseReservation(Signer, id)
      PROVE  Next
    BY <1>4 DEF Next, Call
<1>5. ASSUME NEW client \in Clients, NEW id \in ReservationIds,
             \/ \E agentId \in Agents, value \in Amounts, expiresAt \in Expiries :
                   reserveCreditsWithDirectPayment(client, id, agentId, value,
                                                   expiresAt)
             \/ \E amount \in Amounts : settleReservation(client, id, amount)
             \/ releaseReservation(client, id)
             \/ recycleReservation(client, id)
      PROVE  Next
    BY <1>5 DEF Next, Call
<1>6. CASE Mine
    BY <1>4, <1>6, NextPending DEF Mine
<1>7. CASE Others
    BY <1>5, <1>7 DEF Others, Next, Call
<1>8. QED
    BY <1>1, <1>2, <1>3, <1>6, <1>7 DEF RunNext

-----------------------------------------------------------------------------
(* Types                                                                   *)

LEMMA ResponseTypes ==
    /\ \A kind \in {"completed", "failed", "rejected", "busy", "invalid",
                    "timedOut", "error", "reset", "none"} : Plain(kind) \in Responses
    /\ \A n \in Nat : /\ Response("completed", n) \in Responses
                      /\ Response("failed", n) \in Responses
BY DEF Plain, Response, Responses

LEMMA AnswerType ==
    ASSUME answers \in [Requests -> Responses], NEW q \in Requests,
           NEW response \in Responses, Answer(q, response)
    PROVE  answers' \in [Requests -> Responses]
BY DEF Answer

LEMMA GotoType ==
    ASSUME at \in [Requests -> Waits \cup {"idle", "done"}], NEW q \in Requests,
           NEW place \in Waits \cup {"done"}, Goto(q, place)
    PROVE  at' \in [Requests -> Waits \cup {"idle", "done"}]
BY DEF Goto

\* A handler that is at one of its awaits has a body, and so a key.
LEMMA KeyOfActive ==
    ASSUME RunInv, NEW q \in Requests, Active(q)
    PROVE  /\ body[q] \in [key : Keys, requester : Senders]
           /\ body[q].key \in Keys /\ body[q].requester \in Senders
           /\ Id(q) \in ReservationIds /\ Id(q) = IdOf[body[q].key]
<1>1. body[q] \in [key : Keys, requester : Senders]
    BY DEF RunInv, ServerTypeOK, ClaimInv, Active, Waits
<1>2. QED
    BY <1>1, RunAssumption DEF Id

LEMMA ForgetType ==
    ASSUME RunInv, NEW k \in Keys, Forget(k)
    PROVE  records' \in [Keys -> {Unclaimed, InFlight} \cup Responses]
BY DEF RunInv, ServerTypeOK, Forget

LEMMA BroadcastType ==
    ASSUME RunInv, NEW q \in Requests, NEW call \in {"settle", "release"},
           Broadcast(q, call)
    PROVE  /\ pending' \in Seq(Requests \X {"settle", "release"})
           /\ receipts' \in [Requests \X {"settle", "release"} ->
                 {"unsent", "pending", "mined", "reverted"}]
<1>1. <<q, call>> \in Requests \X {"settle", "release"}
    OBVIOUS
<1>2. pending \in Seq(Requests \X {"settle", "release"})
    BY DEF RunInv, ServerTypeOK
<1> DEFINE tx == <<q, call>>
           S == Requests \X {"settle", "release"}
<1>3. tx \in S /\ pending \in Seq(S)
    BY <1>1, <1>2
<1>4. pending' = Append(pending, tx)
    BY DEF Broadcast
<1>5. receipts' \in [S -> {"unsent", "pending", "mined", "reverted"}]
    BY DEF RunInv, ServerTypeOK, Broadcast
<1> HIDE DEF tx, S
<1>6. pending' \in Seq(S)
    BY <1>3, <1>4
<1>7. QED
    BY <1>5, <1>6 DEF S

LEMMA ServerTypeStep ==
    ASSUME RunInv, [RunNext]_runVars
    PROVE  ServerTypeOK'
<1> USE RunAssumption
<1>0. ServerTypeOK
    BY DEF RunInv
<1>1. CASE UNCHANGED runVars
    BY <1>0, <1>1 DEF runVars, serverVars, chainVars, ServerTypeOK
<1>2. ASSUME NEW q \in Requests, Invalid(q)
      PROVE  ServerTypeOK'
    BY <1>0, <1>2, ResponseTypes, AnswerType, GotoType
       DEF Invalid, ServerTypeOK, chainVars
<1>3. ASSUME NEW q \in Requests, NEW k \in Keys, NEW requester \in Senders,
             Repeat(q, k, requester)
      PROVE  ServerTypeOK'
  <2>1. IsOutcome(records[k]) => records[k] \in Responses
    BY <1>0 DEF ServerTypeOK, IsOutcome, Unclaimed, InFlight, Plain, Response
  <2>2. answers' \in [Requests -> Responses]
    BY <1>0, <1>3, <2>1, ResponseTypes, AnswerType DEF Repeat, ServerTypeOK
  <2>3. at' \in [Requests -> Waits \cup {"idle", "done"}]
    BY <1>0, <1>3, GotoType DEF Repeat, ServerTypeOK
  <2>4. QED
    BY <1>0, <1>3, <2>2, <2>3 DEF Repeat, ServerTypeOK, chainVars
<1>4. ASSUME NEW q \in Requests, NEW k \in Keys, NEW requester \in Senders,
             Accept(q, k, requester)
      PROVE  ServerTypeOK'
  <2>1. at' \in [Requests -> Waits \cup {"idle", "done"}]
    BY <1>0, <1>4, GotoType DEF Accept, ServerTypeOK, Waits
  <2>2. QED
    BY <1>0, <1>4, <2>1 DEF Accept, ServerTypeOK, chainVars, ClaimFor
<1>5. ASSUME NEW q \in Requests, ReadReservation(q)
      PROVE  ServerTypeOK'
  <2>1. Id(q) \in ReservationIds
    BY <1>5, KeyOfActive DEF ReadReservation, Active, Waits
  <2>2. reservations[Id(q)].amount \in Nat
    BY <2>1 DEF RunInv, IInv, TypeOK, Reservation
  <2>3. at' \in [Requests -> Waits \cup {"idle", "done"}]
    BY <1>0, <1>5, GotoType DEF ReadReservation, ServerTypeOK, Waits
  <2>4. AsNumber(reservations[Id(q)].amount) \in Nat
    BY <2>2, ReadIsClose
  <2>5. QED
    BY <1>0, <1>5, <2>3, <2>4 DEF ReadReservation, ServerTypeOK, chainVars
<1>6. ASSUME NEW q \in Requests,
             \/ AcceptTransaction(q) \/ FailTask(q) \/ FinishTask(q)
             \/ SettleReverts(q) \/ SettleRpcError(q)
      PROVE  ServerTypeOK'
  <2>1. at' \in [Requests -> Waits \cup {"idle", "done"}]
    BY <1>0, <1>6, GotoType DEF AcceptTransaction, FailTask, FinishTask,
       SettleReverts, SettleRpcError, ServerTypeOK, Waits
  <2>2. worked' \subseteq Requests /\ UNCHANGED <<chainVars, records, body,
                                                  amountRead, answers, restarts>>
    BY <1>0, <1>6 DEF AcceptTransaction, FailTask, FinishTask,
       SettleReverts, SettleRpcError, ServerTypeOK
  <2>3. QED
    BY <1>0, <2>1, <2>2 DEF ServerTypeOK, chainVars
<1>7. ASSUME NEW q \in Requests,
             \/ Reject(q) \/ ReleaseReverts(q) \/ ReleaseRpcError(q)
      PROVE  ServerTypeOK'
  <2>1. Active(q)
    BY <1>7 DEF Reject, ReleaseReverts, ReleaseRpcError, Active, Waits
  <2>2. Forget(body[q].key) /\ Goto(q, "done")
    BY <1>7 DEF Reject, ReleaseReverts, ReleaseRpcError, Catch
  <2>3. records' \in [Keys -> {Unclaimed, InFlight} \cup Responses]
    BY <2>1, <2>2, KeyOfActive, ForgetType
  <2>4. at' \in [Requests -> Waits \cup {"idle", "done"}]
    BY <1>0, <2>2, GotoType DEF ServerTypeOK
  <2>5. answers' \in [Requests -> Responses]
    BY <1>0, <1>7, AnswerType, ResponseTypes
       DEF Reject, ReleaseReverts, ReleaseRpcError, Catch, ServerTypeOK
  <2>6. UNCHANGED <<chainVars, body, amountRead, worked, restarts>>
    BY <1>7 DEF Reject, ReleaseReverts, ReleaseRpcError, Catch
  <2>7. QED
    BY <1>0, <2>3, <2>4, <2>5, <2>6 DEF ServerTypeOK, chainVars
<1>8. ASSUME NEW q \in Requests, SubmitSettle(q)
      PROVE  ServerTypeOK'
  <2>1. at' \in [Requests -> Waits \cup {"idle", "done"}]
    BY <1>0, <1>8, GotoType DEF SubmitSettle, ServerTypeOK, Waits
  <2>2. QED
    BY <1>0, <1>8, <2>1, BroadcastType DEF SubmitSettle, ServerTypeOK
<1>9. ASSUME NEW q \in Requests, SubmitRelease(q)
      PROVE  ServerTypeOK'
  <2>1. Active(q)
    BY <1>9 DEF SubmitRelease, Active, Waits
  <2>2. at' \in [Requests -> Waits \cup {"idle", "done"}]
    BY <1>0, <1>9, GotoType DEF SubmitRelease, Catch, ServerTypeOK, Waits
  <2>3. records' \in [Keys -> {Unclaimed, InFlight} \cup Responses]
    BY <1>0, <1>9, <2>1, KeyOfActive, ForgetType
       DEF SubmitRelease, Catch, ServerTypeOK
  <2>4. answers' \in [Requests -> Responses]
    BY <1>0, <1>9, AnswerType, ResponseTypes DEF SubmitRelease, Catch, ServerTypeOK
  <2>5. QED
    BY <1>0, <1>9, <2>2, <2>3, <2>4, BroadcastType DEF SubmitRelease, ServerTypeOK
<1>10. ASSUME NEW q \in Requests, Complete(q) \/ Fail(q)
       PROVE  ServerTypeOK'
  <2>1. Active(q)
    BY <1>10 DEF Complete, Fail, Active, Waits
  <2>2. Surplus(q) \in Nat /\ amountRead[q] \in Nat
    <3>1. amountRead[q] \in Nat /\ Price \in Nat
      BY <1>0, VaultAssumption DEF ServerTypeOK
    <3>2. amountRead[q] >= Price => amountRead[q] - Price \in Nat
      BY <3>1
    <3>3. QED
      BY <3>1, <3>2, ReadIsClose DEF Surplus
  <2>3. at' \in [Requests -> Waits \cup {"idle", "done"}]
    BY <1>0, <1>10, GotoType DEF Complete, Fail, Catch, ServerTypeOK, Waits
  <2>4. records' \in [Keys -> {Unclaimed, InFlight} \cup Responses]
    <3>1. CASE \E response \in Responses :
                  records' = [records EXCEPT ![body[q].key] = response]
      BY <1>0, <3>1, <2>1, KeyOfActive DEF ServerTypeOK
    <3>2. CASE Forget(body[q].key)
      BY <2>1, <3>2, KeyOfActive, ForgetType
    <3>3. QED
      BY <1>10, <2>2, <3>1, <3>2, ResponseTypes DEF Complete, Fail, Catch
  <2>5. answers' \in [Requests -> Responses]
    BY <1>0, <1>10, <2>2, AnswerType, ResponseTypes
       DEF Complete, Fail, Catch, ServerTypeOK
  <2>6. UNCHANGED <<chainVars, body, amountRead, worked, restarts>>
    BY <1>10 DEF Complete, Fail, Catch
  <2>7. QED
    BY <1>0, <2>3, <2>4, <2>5, <2>6 DEF ServerTypeOK, chainVars
<1>11. ASSUME NEW q \in Requests, GlobalTimeout(q)
       PROVE  ServerTypeOK'
    BY <1>0, <1>11, AnswerType, ResponseTypes
       DEF GlobalTimeout, ServerTypeOK, chainVars
<1>12. CASE Restart
    BY <1>0, <1>12, ResponseTypes DEF Restart, ServerTypeOK, chainVars
<1>13. CASE Mine
  <2>1. Head(pending) \in Requests \X {"settle", "release"}
    BY <1>13, NextPending DEF Mine
  <2>2. pending' \in Seq(Requests \X {"settle", "release"})
    BY <1>0, <1>13 DEF Mine, ServerTypeOK
  <2>3. receipts' \in [Requests \X {"settle", "release"} ->
           {"unsent", "pending", "mined", "reverted"}]
    BY <1>0, <1>13, <2>1 DEF Mine, ServerTypeOK
  <2>4. QED
    BY <1>0, <1>13, <2>2, <2>3 DEF Mine, ServerTypeOK, serverVars
<1>14. CASE Others
    BY <1>0, <1>14 DEF Others, ServerTypeOK, serverVars, chainVars
<1>15. QED
    BY <1>1, <1>2, <1>3, <1>4, <1>5, <1>6, <1>7, <1>8, <1>9, <1>10, <1>11,
       <1>12, <1>13, <1>14 DEF RunNext, Handle

-----------------------------------------------------------------------------
(* Claims                                                                  *)

\* A handler goes on and keeps its claim or has turned it into an outcome, or
\* it ends and leaves no claim.
LEMMA HandlerMoves ==
    ASSUME RunInv, NEW q \in Requests, Active(q), NEW place, Goto(q, place),
           UNCHANGED body, NEW record,
           \/ place \in Waits /\ UNCHANGED records
           \/ /\ place \in Waits \cup {"done"}
              /\ record # InFlight /\ (place # "done" => record # Unclaimed)
              /\ records' = [records EXCEPT ![body[q].key] = record]
    PROVE  ClaimInv'
<1>1. /\ at \in [Requests -> Waits \cup {"idle", "done"}]
      /\ records \in [Keys -> {Unclaimed, InFlight} \cup Responses]
      /\ ClaimInv
    BY DEF RunInv, ServerTypeOK
<1>2. body[q].key \in Keys /\ \A p \in Requests : Active(p) => body[p].key \in Keys
    BY KeyOfActive
<1>3. at'[q] = place /\ \A p \in Requests \ {q} : at'[p] = at[p]
    BY <1>1 DEF Goto
<1>4. \A p \in Requests : Active(p)' => Active(p)
    BY <1>3 DEF Active
<1>5. place = "done" => ~Active(q)'
    BY <1>3 DEF Active, Waits
<1>6. \A p \in Requests \ {q} : Active(p)' = Active(p)
    BY <1>3 DEF Active
<1>7. place \in Waits => Active(q)'
    BY <1>3 DEF Active
<1>8. ASSUME NEW p \in Requests, Active(p)'
      PROVE  records'[body'[p].key] # Unclaimed
    BY <1>1, <1>2, <1>4, <1>5, <1>8 DEF ClaimInv
<1>9. ASSUME NEW k \in Keys, records'[k] = InFlight
      PROVE  \E p \in Requests : Active(p)' /\ body'[p].key = k
  <2>1. records[k] = InFlight /\ (k = body[q].key => place \in Waits /\ UNCHANGED records)
    BY <1>1, <1>2, <1>9
  <2>2. PICK p \in Requests : Active(p) /\ body[p].key = k
    BY <1>1, <2>1 DEF ClaimInv
  <2>3. QED
    BY <1>6, <1>7, <2>1, <2>2
<1>10. QED
    BY <1>1, <1>4, <1>8, <1>9 DEF ClaimInv

LEMMA ClaimStep ==
    ASSUME RunInv, [RunNext]_runVars
    PROVE  ClaimInv'
<1>0. /\ at \in [Requests -> Waits \cup {"idle", "done"}]
      /\ records \in [Keys -> {Unclaimed, InFlight} \cup Responses]
      /\ body \in [Requests -> {NoBody} \cup [key : Keys, requester : Senders]]
      /\ ClaimInv
    BY DEF RunInv, ServerTypeOK
<1>1. ASSUME UNCHANGED <<records, at, body>>
      PROVE  ClaimInv'
    BY <1>0, <1>1 DEF ClaimInv, Active
<1>2. ASSUME NEW q \in Requests, at[q] = "idle", at'[q] = "done",
             \A p \in Requests \ {q} : at'[p] = at[p] /\ body'[p] = body[p],
             UNCHANGED records
      PROVE  ClaimInv'
  <2>1. ~Active(q) /\ ~Active(q)'
    BY <1>2 DEF Active, Waits
  <2>2. \A p \in Requests \ {q} : Active(p)' = Active(p)
    BY <1>2 DEF Active
  <2>3. QED
    BY <1>0, <1>2, <2>1, <2>2 DEF ClaimInv
<1>3. ASSUME NEW q \in Requests, NEW k \in Keys, NEW requester \in Senders,
             Invalid(q) \/ Repeat(q, k, requester)
      PROVE  ClaimInv'
    BY <1>0, <1>2, <1>3 DEF Invalid, Repeat, Goto
<1>4. ASSUME NEW q \in Requests, Invalid(q)
      PROVE  ClaimInv'
    BY <1>0, <1>2, <1>4 DEF Invalid, Goto
<1>5. ASSUME NEW q \in Requests, NEW k \in Keys, NEW requester \in Senders,
             Accept(q, k, requester)
      PROVE  ClaimInv'
  <2>1. /\ ~Active(q) /\ at'[q] = "verifying" /\ Active(q)'
        /\ body'[q] = [key |-> k, requester |-> requester]
        /\ records[k] = Unclaimed /\ records'[k] = InFlight
    BY <1>0, <1>5 DEF Accept, Active, Waits, Goto, IsClaimable, ClaimFor
  <2>2. \A p \in Requests \ {q} : Active(p)' = Active(p) /\ body'[p] = body[p]
    BY <1>0, <1>5 DEF Accept, Active, Goto
  <2>3. \A x \in Keys \ {k} : records'[x] = records[x]
    BY <1>0, <1>5 DEF Accept, ClaimFor
  <2>4. \A p \in Requests \ {q} : Active(p) => body[p].key \in Keys \ {k}
    BY <1>0, <2>1, KeyOfActive DEF ClaimInv
  <2>5. /\ body'[q] # NoBody /\ body'[q].key = k
        /\ InFlight # Unclaimed
    BY <2>1, RunAssumption, VaultAssumption
       DEF NoBody, InFlight, Unclaimed, Plain, Response
  <2>6. \A p \in Requests : Active(p)' => body'[p] # NoBody
    BY <1>0, <2>2, <2>5 DEF ClaimInv
  <2>7. \A p, o \in Requests :
           Active(p)' /\ Active(o)' /\ body'[p].key = body'[o].key => p = o
    BY <1>0, <2>2, <2>4, <2>5 DEF ClaimInv
  <2>8. \A p \in Requests : Active(p)' => records'[body'[p].key] # Unclaimed
    BY <1>0, <2>1, <2>2, <2>3, <2>4, <2>5 DEF ClaimInv
  <2>9. \A x \in Keys : records'[x] = InFlight =>
           \E p \in Requests : Active(p)' /\ body'[p].key = x
    <3>1. CASE \E x \in Keys : x = k
      BY <1>0, <2>1, <2>2, <2>3, <2>5 DEF ClaimInv
    <3>2. QED
      BY <3>1
  <2>10. QED
    BY <2>6, <2>7, <2>8, <2>9 DEF ClaimInv
<1>6. ASSUME NEW q \in Requests,
             \/ ReadReservation(q) \/ AcceptTransaction(q) \/ FailTask(q)
             \/ FinishTask(q) \/ SettleReverts(q) \/ SettleRpcError(q)
             \/ SubmitSettle(q)
      PROVE  ClaimInv'
  <2>1. Active(q) /\ UNCHANGED <<records, body>>
    BY <1>6 DEF ReadReservation, AcceptTransaction, FailTask, FinishTask,
       SettleReverts, SettleRpcError, SubmitSettle, Active, Waits
  <2>2. PICK place \in Waits : Goto(q, place)
    BY <1>6 DEF ReadReservation, AcceptTransaction, FailTask, FinishTask,
       SettleReverts, SettleRpcError, SubmitSettle, Waits
  <2>3. QED
    BY <2>1, <2>2, HandlerMoves
<1>7. InFlight # Unclaimed
    BY DEF InFlight, Unclaimed, Plain, Response
<1>8. ASSUME NEW q \in Requests, Active(q), Forget(body[q].key),
             Goto(q, "done"), UNCHANGED body
      PROVE  ClaimInv'
    BY <1>7, <1>8, HandlerMoves DEF Forget
<1>9. ASSUME NEW q \in Requests,
             Reject(q) \/ ReleaseReverts(q) \/ ReleaseRpcError(q)
      PROVE  ClaimInv'
    BY <1>8, <1>9 DEF Reject, ReleaseReverts, ReleaseRpcError, Catch, Active, Waits
<1>10. ASSUME NEW q \in Requests, SubmitRelease(q)
       PROVE  ClaimInv'
  <2>1. Active(q) /\ UNCHANGED body
    BY <1>10 DEF SubmitRelease, Active, Waits
  <2>2. CASE Goto(q, "releaseWait") /\ UNCHANGED records
    BY <2>1, <2>2, HandlerMoves DEF Waits
  <2>3. CASE Catch(q)
    BY <1>8, <2>1, <2>3 DEF Catch
  <2>4. QED
    BY <1>10, <2>2, <2>3 DEF SubmitRelease
<1>11. ASSUME NEW q \in Requests, NEW n, NEW kind \in {"completed", "failed"},
              NEW place \in {"done", "releasing"}, Active(q), Goto(q, place),
              records' = [records EXCEPT ![body[q].key] = Response(kind, n)],
              UNCHANGED body
       PROVE  ClaimInv'
  <2>1. Response(kind, n) \notin {Unclaimed, InFlight}
    BY DEF Response, Unclaimed, InFlight, Plain
  <2>2. QED
    BY <1>11, <2>1, HandlerMoves DEF Waits
<1>12. ASSUME NEW q \in Requests, Complete(q) \/ Fail(q)
       PROVE  ClaimInv'
  <2>1. Active(q) /\ UNCHANGED body
    BY <1>12 DEF Complete, Fail, Active, Waits
  <2>2. CASE Complete(q)
    BY <1>11, <2>1, <2>2 DEF Complete
  <2>3. CASE Fail(q)
    BY <1>8, <1>11, <2>1, <2>3 DEF Fail, Catch
  <2>4. QED
    BY <1>12, <2>2, <2>3
<1>13. CASE Restart
  <2>1. \A q \in Requests : ~Active(q)'
    BY <1>0, <1>13 DEF Restart, Active, Waits
  <2>2. \A k \in Keys : records'[k] # InFlight
    BY <1>7, <1>13 DEF Restart
  <2>3. QED
    BY <2>1, <2>2 DEF ClaimInv
<1>14. QED
    BY <1>1, <1>3, <1>4, <1>5, <1>6, <1>9, <1>10, <1>12, <1>13
       DEF RunNext, Handle, GlobalTimeout, Mine, Others, runVars, serverVars

-----------------------------------------------------------------------------
(* What was read                                                           *)

\* The id of a request that has a body is one of the vault's.
LEMMA IdOfBody ==
    ASSUME RunInv, NEW q \in Requests, body[q] # NoBody
    PROVE  /\ Id(q) \in ReservationIds
           /\ body[q].key \in Keys /\ Id(q) = IdOf[body[q].key]
           /\ body[q] \in [key : Keys, requester : Senders]
BY RunAssumption DEF RunInv, ServerTypeOK, Id

\* A reservation with an amount keeps its terms, and once closed does not
\* change.
LEMMA ReservationKept ==
    ASSUME RunInv, [RunNext]_runVars, NEW id \in ReservationIds,
           reservations[id].amount > 0
    PROVE  /\ reservations'[id].amount = reservations[id].amount
           /\ reservations'[id].requester = reservations[id].requester
           /\ \/ IsOpen(reservations[id])
              \/ reservations'[id] = reservations[id]
BY VaultMoves, FrozenStep DEF RunInv, IInv, Frozen, Terms

LEMMA ReadKept ==
    ASSUME RunInv, [RunNext]_runVars, NEW q \in Requests,
           body'[q] = body[q], amountRead'[q] = amountRead[q],
           \/ at'[q] = at[q]
           \/ at[q] \in Waits \ {"verifying"} /\ at'[q] \notin {"idle", "verifying"}
           \/ at'[q] = "done"
    PROVE  IsRead(q)'
<1>1. IsRead(q)
    BY DEF RunInv, ReadInv
<1>2. at'[q] \in Waits \ {"verifying"} => amountRead'[q] > 0
    BY <1>1 DEF IsRead, Waits
<1>3. CASE amountRead[q] > 0
  <2>1. body[q] # NoBody /\ Id(q) \in ReservationIds /\ Id(q)' = Id(q)
    BY <1>1, <1>3, IdOfBody DEF IsRead, Id
  <2>2. reservations[Id(q)].amount > 0
    BY <1>1, <1>3 DEF IsRead
  <2>3. /\ reservations'[Id(q)].amount = reservations[Id(q)].amount
        /\ reservations'[Id(q)].requester = reservations[Id(q)].requester
    BY <2>1, <2>2, ReservationKept
  <2>4. at'[q] \notin {"idle", "verifying"}
    BY <1>1, <1>3 DEF IsRead
  <2>5. QED
    BY <1>1, <1>2, <1>3, <2>1, <2>3, <2>4 DEF IsRead
<1>4. CASE ~(amountRead[q] > 0)
    BY <1>2, <1>4 DEF IsRead
<1>5. QED
    BY <1>3, <1>4

LEMMA ReadStep ==
    ASSUME RunInv, [RunNext]_runVars
    PROVE  ReadInv'
<1>0. /\ at \in [Requests -> Waits \cup {"idle", "done"}]
      /\ body \in [Requests -> {NoBody} \cup [key : Keys, requester : Senders]]
      /\ amountRead \in [Requests -> Nat]
      /\ ReadInv
    BY DEF RunInv, ServerTypeOK
<1>1. ASSUME UNCHANGED <<at, body, amountRead>>
      PROVE  ReadInv'
    BY <1>1, ReadKept DEF ReadInv
<1>2. ASSUME NEW q \in Requests, UNCHANGED <<body, amountRead>>, NEW place,
             \/ place = "done"
             \/ /\ at[q] \in Waits \ {"verifying"}
                /\ place \in Waits \ {"verifying"},
             Goto(q, place)
      PROVE  ReadInv'
  <2>1. \A p \in Requests : \/ at'[p] = at[p]
                            \/ p = q /\ at'[q] = place
    BY <1>0, <1>2 DEF Goto
  <2>2. ASSUME NEW p \in Requests PROVE IsRead(p)'
    BY <1>2, <2>1, ReadKept DEF Waits
  <2>3. QED
    BY <2>2 DEF ReadInv
<1>3. ASSUME NEW q \in Requests, NEW k \in Keys, NEW requester \in Senders,
             Repeat(q, k, requester) \/ Accept(q, k, requester)
      PROVE  ReadInv'
  <2>1. at[q] = "idle" /\ UNCHANGED amountRead
    BY <1>3 DEF Repeat, Accept
  <2>2. \A p \in Requests \ {q} : at'[p] = at[p] /\ body'[p] = body[p]
    BY <1>0, <1>3 DEF Repeat, Accept, Goto
  <2>3. at'[q] \in {"done", "verifying"}
    BY <1>0, <1>3 DEF Repeat, Accept, Goto
  <2>4. ~(amountRead[q] > 0)
    BY <1>0, <2>1 DEF ReadInv, IsRead
  <2>5. IsRead(q)'
    BY <2>1, <2>3, <2>4 DEF IsRead, Waits
  <2>6. \A p \in Requests \ {q} : IsRead(p)'
    BY <2>1, <2>2, ReadKept
  <2>7. QED
    BY <2>5, <2>6 DEF ReadInv
<1>4. ASSUME NEW q \in Requests, ReadReservation(q)
      PROVE  ReadInv'
  <2>1. /\ UNCHANGED <<body, reservations>>
        /\ amountRead'[q] = AsNumber(reservations[Id(q)].amount)
        /\ at'[q] = "checkingTx"
        /\ AsNumber(reservations[Id(q)].amount) >= Price
        /\ reservations[Id(q)].requester = body[q].requester
    BY <1>0, <1>4 DEF ReadReservation, Goto, IsPayment, vars, ledgerVars
  <2>2. body[q] # NoBody /\ Id(q) \in ReservationIds
    BY <1>0, <1>4, KeyOfActive DEF ReadReservation, Active, Waits, RunInv, ClaimInv
  <2>3. /\ reservations[Id(q)].amount \in Nat /\ Price \in Nat /\ Price > 0
        /\ AsNumber(reservations[Id(q)].amount) \in Nat
        /\ reservations[Id(q)].amount > 0
    <3>1. /\ reservations[Id(q)].amount \in Nat /\ Price \in Nat /\ Price > 0
      BY <2>2, VaultAssumption, RunAssumption DEF RunInv, IInv, TypeOK, Reservation
    <3>2. AsNumber(0) = 0
      BY NumberAssumption, ReadIsClose
    <3>3. QED
      BY <2>1, <3>1, <3>2, ReadIsClose
  <2>4. IsRead(q)'
    BY <2>1, <2>2, <2>3 DEF IsRead, Id
  <2>5. \A p \in Requests \ {q} :
           at'[p] = at[p] /\ body'[p] = body[p] /\ amountRead'[p] = amountRead[p]
    BY <1>0, <1>4 DEF ReadReservation, Goto
  <2>6. \A p \in Requests \ {q} : IsRead(p)'
    BY <2>5, ReadKept
  <2>7. QED
    BY <2>4, <2>6 DEF ReadInv
<1>5. ASSUME NEW q \in Requests,
             \/ Invalid(q) \/ AcceptTransaction(q) \/ Reject(q)
             \/ FailTask(q) \/ SubmitSettle(q) \/ SettleReverts(q) \/ Complete(q)
             \/ SubmitRelease(q) \/ ReleaseReverts(q) \/ Fail(q)
             \/ FinishTask(q) \/ SettleRpcError(q) \/ ReleaseRpcError(q)
      PROVE  ReadInv'
  <2>1. UNCHANGED <<body, amountRead>>
    BY <1>5 DEF Invalid, AcceptTransaction, Reject, FailTask, SubmitSettle,
       SettleReverts, Complete, SubmitRelease, ReleaseReverts, Fail, FinishTask,
       SettleRpcError, ReleaseRpcError
  <2>2. \E place :
           /\ Goto(q, place)
           /\ \/ place = "done"
              \/ /\ at[q] \in Waits \ {"verifying"}
                 /\ place \in Waits \ {"verifying"}
    BY <1>5 DEF Invalid, AcceptTransaction, Reject, FailTask, SubmitSettle,
       SettleReverts, Complete, SubmitRelease, ReleaseReverts, Fail, FinishTask,
       SettleRpcError, ReleaseRpcError, Catch, Waits
  <2>3. QED
    BY <1>2, <2>1, <2>2
<1>6. CASE Restart
  <2>1. UNCHANGED <<body, amountRead>>
        /\ \A p \in Requests : at'[p] = at[p] \/ at'[p] = "done"
    BY <1>6 DEF Restart
  <2>2. QED
    BY <2>1, ReadKept DEF ReadInv
<1>7. QED
    BY <1>1, <1>3, <1>4, <1>5, <1>6
       DEF RunNext, Handle, GlobalTimeout, Mine, Others, runVars, serverVars

-----------------------------------------------------------------------------
(* What was sent and what it did                                           *)

\* A request that has read its reservation keeps its body and what it read.
LEMMA BodyKept ==
    ASSUME RunInv, [RunNext]_runVars, NEW q \in Requests, amountRead[q] > 0
    PROVE  /\ body'[q] = body[q] /\ Id(q)' = Id(q)
           /\ amountRead'[q] > 0
           /\ Id(q) \in ReservationIds /\ reservations[Id(q)].amount > 0
<1>1. /\ body \in [Requests -> {NoBody} \cup [key : Keys, requester : Senders]]
      /\ amountRead \in [Requests -> Nat] /\ amountRead' \in [Requests -> Nat]
    BY ServerTypeStep DEF RunInv, ServerTypeOK
<1>2. /\ at[q] \notin {"idle", "verifying"} /\ body[q] # NoBody
      /\ reservations[Id(q)].amount > 0
    BY DEF RunInv, ReadInv, IsRead
<1>3. body'[q] = body[q] /\ amountRead'[q] = amountRead[q]
    BY <1>1, <1>2 DEF RunNext, Invalid, Repeat, Accept, Handle, ReadReservation,
       AcceptTransaction, Reject, FailTask, SubmitSettle, SettleReverts,
       Complete, SubmitRelease, ReleaseReverts, Fail, FinishTask,
       SettleRpcError, ReleaseRpcError, GlobalTimeout, Restart, Mine, Others,
       runVars, serverVars
<1>4. QED
    BY <1>2, <1>3, IdOfBody DEF Id

\* How one step changes what was sent.
LEMMA ReceiptMoves ==
    ASSUME RunInv, [RunNext]_runVars
    PROVE  \/ UNCHANGED <<pending, receipts>>
           \/ \E q \in Requests, call \in {"settle", "release"} :
                 /\ Broadcast(q, call)
                 /\ amountRead[q] > 0
                 /\ call = "settle" => q \in worked
                 /\ UNCHANGED vars
           \/ Mine
<1>1. ASSUME NEW q \in Requests, SubmitSettle(q) \/ SubmitRelease(q)
      PROVE  \E call \in {"settle", "release"} :
                 /\ Broadcast(q, call)
                 /\ amountRead[q] > 0
                 /\ call = "settle" => q \in worked
                 /\ UNCHANGED vars
    BY <1>1 DEF SubmitSettle, SubmitRelease, RunInv, ReadInv, IsRead, SentInv, Waits
<1>2. QED
    BY <1>1 DEF RunNext, Invalid, Repeat, Accept, Handle, ReadReservation,
       AcceptTransaction, Reject, FailTask, SettleReverts,
       Complete, ReleaseReverts, Fail, FinishTask, Catch,
       SettleRpcError, ReleaseRpcError, GlobalTimeout, Restart, Others,
       runVars, chainVars

LEMMA SentStep ==
    ASSUME RunInv, [RunNext]_runVars
    PROVE  SentInv'
<1> DEFINE S == Requests \X {"settle", "release"}
<1>0. /\ at \in [Requests -> Waits \cup {"idle", "done"}]
      /\ pending \in Seq(S)
      /\ receipts \in [S -> {"unsent", "pending", "mined", "reverted"}]
      /\ SentInv
    BY DEF RunInv, ServerTypeOK
<1>1. \A q \in Requests : amountRead[q] > 0 => amountRead'[q] > 0
    BY BodyKept
<1>2. worked \subseteq worked'
    BY DEF RunNext, Invalid, Repeat, Accept, Handle, ReadReservation,
       AcceptTransaction, Reject, FailTask, SubmitSettle, SettleReverts,
       Complete, SubmitRelease, ReleaseReverts, Fail, FinishTask,
       SettleRpcError, ReleaseRpcError, GlobalTimeout, Restart, Mine, Others,
       runVars, serverVars
<1>3. ASSUME NEW q \in Requests, at'[q] \in {"settling", "settleWait"}
      PROVE  q \in worked'
  <2>1. CASE at[q] \in {"settling", "settleWait"}
    BY <1>0, <1>2, <2>1 DEF SentInv
  <2>2. CASE FinishTask(q)
    BY <2>2 DEF FinishTask
  <2>3. ASSUME at[q] \notin {"settling", "settleWait"}, ~FinishTask(q)
        PROVE  FALSE
    BY <1>0, <1>3, <2>3 DEF RunNext, Invalid, Repeat, Accept, Handle,
       ReadReservation, AcceptTransaction, Reject, FailTask, SubmitSettle,
       SettleReverts, Complete, SubmitRelease, ReleaseReverts, Fail, FinishTask,
       SettleRpcError, ReleaseRpcError, GlobalTimeout, Restart, Mine, Others,
       Catch, Goto, runVars, serverVars
  <2>4. QED
    BY <2>1, <2>2, <2>3
<1>4. \A q \in Requests : <<q, "settle">> \in S /\ <<q, "release">> \in S
    OBVIOUS
<1>5. ASSUME \A t \in S :
                \/ receipts'[t] = receipts[t]
                \/ receipts[t] # "unsent" /\ receipts'[t] # "unsent"
                \/ amountRead[t[1]] > 0 /\ (t[2] = "settle" => t[1] \in worked)
      PROVE  \A q \in Requests :
                /\ receipts'[<<q, "settle">>] # "unsent" =>
                      amountRead'[q] > 0 /\ q \in worked'
                /\ receipts'[<<q, "release">>] # "unsent" => amountRead'[q] > 0
  <2>1. TAKE q \in Requests
  <2> DEFINE s == <<q, "settle">>
             r == <<q, "release">>
  <2>2. /\ s \in S /\ s[1] = q /\ s[2] = "settle"
        /\ r \in S /\ r[1] = q /\ r[2] = "release"
    OBVIOUS
  <2>3. /\ receipts[s] # "unsent" => amountRead[q] > 0 /\ q \in worked
        /\ receipts[r] # "unsent" => amountRead[q] > 0
    BY <1>0 DEF SentInv
  <2> HIDE DEF s, r, S
  <2>4. /\ receipts'[s] # "unsent" => amountRead'[q] > 0 /\ q \in worked'
        /\ receipts'[r] # "unsent" => amountRead'[q] > 0
    BY <1>1, <1>2, <1>5, <2>2, <2>3
  <2>5. QED
    BY <2>4 DEF s, r
<1>6. CASE UNCHANGED <<pending, receipts>>
  <2>1. \A i \in 1..Len(pending') : receipts'[pending'[i]] # "unsent"
    BY <1>0, <1>6 DEF SentInv
  <2>2. QED
    BY <1>3, <1>5, <1>6, <2>1 DEF SentInv
<1>7. ASSUME NEW q \in Requests, NEW call \in {"settle", "release"},
             Broadcast(q, call), amountRead[q] > 0,
             call = "settle" => q \in worked
      PROVE  SentInv'
  <2> DEFINE tx == <<q, call>>
  <2>1. tx \in S /\ tx[1] = q /\ tx[2] = call
    OBVIOUS
  <2>2. pending' = Append(pending, tx) /\ receipts' = [receipts EXCEPT ![tx] = "pending"]
    BY <1>7 DEF Broadcast
  <2> HIDE DEF tx, S
  <2>3. ASSUME NEW i \in 1..Len(pending')
        PROVE  receipts'[pending'[i]] # "unsent"
    <3>1. Len(pending') = Len(pending) + 1 /\ pending'[Len(pending) + 1] = tx
      BY <1>0, <2>1, <2>2
    <3>2. CASE i = Len(pending) + 1
      BY <1>0, <2>1, <2>2, <3>1, <3>2
    <3>3. CASE i # Len(pending) + 1
      <4>1. i \in 1..Len(pending) /\ pending'[i] = pending[i] /\ pending[i] \in S
        BY <1>0, <2>1, <2>2, <3>1, <3>3
      <4>2. QED
        BY <1>0, <2>2, <4>1 DEF SentInv
    <3>4. QED
      BY <3>2, <3>3
  <2>4. \A t \in S : receipts'[t] = receipts[t] \/ t = tx
    BY <1>0, <2>1, <2>2
  <2>5. \A t \in S :
           \/ receipts'[t] = receipts[t]
           \/ receipts[t] # "unsent" /\ receipts'[t] # "unsent"
           \/ amountRead[t[1]] > 0 /\ (t[2] = "settle" => t[1] \in worked)
    BY <1>7, <2>1, <2>4
  <2>6. QED
    BY <1>3, <1>5, <2>3, <2>5 DEF SentInv
<1>8. CASE Mine
  <2> DEFINE tx == Head(pending)
  <2>1. tx \in S /\ receipts[tx] # "unsent"
    BY <1>8, NextPending DEF Mine
  <2>2. /\ pending # <<>> /\ pending' = Tail(pending)
        /\ \/ receipts' = [receipts EXCEPT ![tx] = "mined"]
           \/ receipts' = [receipts EXCEPT ![tx] = "reverted"]
    BY <1>8 DEF Mine
  <2> HIDE DEF tx, S
  <2>3. \A t \in S : receipts[t] # "unsent" => receipts'[t] # "unsent"
    BY <1>0, <2>1, <2>2
  <2>4. \A t \in S : receipts'[t] = receipts[t] \/ receipts[t] # "unsent"
    BY <1>0, <2>1, <2>2
  <2>5. ASSUME NEW i \in 1..Len(pending')
        PROVE  receipts'[pending'[i]] # "unsent"
    <3>1. /\ i + 1 \in 1..Len(pending) /\ pending'[i] = pending[i + 1]
          /\ pending[i + 1] \in S
      BY <1>0, <2>2
    <3>2. QED
      BY <1>0, <2>3, <3>1 DEF SentInv
  <2>6. QED
    BY <1>3, <1>5, <2>3, <2>4, <2>5 DEF SentInv
<1>9. QED
    BY <1>6, <1>7, <1>8, ReceiptMoves\* A transaction that becomes mined is the next one, and the vault ran it.
LEMMA NewlyMined ==
    ASSUME RunInv, [RunNext]_runVars, NEW t \in Requests \X {"settle", "release"},
           receipts'[t] = "mined", receipts[t] # "mined"
    PROVE  /\ receipts' = [receipts EXCEPT ![t] = "mined"]
           /\ amountRead[t[1]] > 0
           /\ t[2] = "settle" => t[1] \in worked
           /\ \/ t[2] = "settle" /\ settleReservation(Signer, Id(t[1]), Price)
              \/ t[2] = "release" /\ releaseReservation(Signer, Id(t[1]))
           /\ IsOpen(reservations[Id(t[1])])
<1>1. receipts \in [Requests \X {"settle", "release"} ->
                       {"unsent", "pending", "mined", "reverted"}]
    BY DEF RunInv, ServerTypeOK
<1>2. CASE UNCHANGED <<pending, receipts>>
    BY <1>2
<1>3. ASSUME NEW q \in Requests, NEW call \in {"settle", "release"},
             Broadcast(q, call)
      PROVE  FALSE
  <2> DEFINE tx == <<q, call>>
  <2>1. receipts' = [receipts EXCEPT ![tx] = "pending"]
    BY <1>3 DEF Broadcast
  <2> HIDE DEF tx
  <2>2. QED
    BY <1>1, <2>1
<1>4. CASE Mine
  <2> DEFINE tx == Head(pending)
             id == Id(tx[1])
  <2>1. pending # <<>>
    BY <1>4 DEF Mine
  <2>2. /\ tx \in Requests \X {"settle", "release"}
        /\ amountRead[tx[1]] > 0
        /\ tx[2] = "settle" => tx[1] \in worked
    BY <2>1, NextPending
  <2>3. \/ /\ \/ tx[2] = "settle" /\ settleReservation(Signer, id, Price)
              \/ tx[2] = "release" /\ releaseReservation(Signer, id)
           /\ receipts' = [receipts EXCEPT ![tx] = "mined"]
        \/ receipts' = [receipts EXCEPT ![tx] = "reverted"]
    BY <1>4 DEF Mine
  <2> HIDE DEF tx, id
  <2>4. t = tx
    BY <1>1, <2>2, <2>3
  <2>5. receipts' = [receipts EXCEPT ![tx] = "mined"]
    BY <1>1, <2>2, <2>3, <2>4
  <2>6. \/ tx[2] = "settle" /\ settleReservation(Signer, id, Price)
        \/ tx[2] = "release" /\ releaseReservation(Signer, id)
    BY <1>1, <2>2, <2>3, <2>4
  <2>7. id = Id(tx[1])
    BY DEF id
  <2>8. IsOpen(reservations[id])
    BY <2>6 DEF settleReservation, releaseReservation, SettleAllowed, ReleaseAllowed
  <2>9. QED
    BY <2>2, <2>4, <2>5, <2>6, <2>7, <2>8
<1>5. QED
    BY <1>2, <1>3, <1>4, ReceiptMoves

\* A reservation about which a transaction was mined is closed for good.
LEMMA MinedIsClosed ==
    ASSUME RunInv, [RunNext]_runVars, NEW q \in Requests,
           receipts[<<q, "settle">>] = "mined" \/ receipts[<<q, "release">>] = "mined"
    PROVE  /\ Id(q) \in ReservationIds /\ Id(q)' = Id(q)
           /\ ~IsOpen(reservations[Id(q)])
           /\ reservations'[Id(q)] = reservations[Id(q)]
<1>1. amountRead[q] > 0
    BY DEF RunInv, SentInv
<1>2. ~IsOpen(reservations[Id(q)])
    BY DEF RunInv, EffectInv, IsOpen
<1>3. QED
    BY <1>1, <1>2, BodyKept, ReservationKept

LEMMA EffectStep ==
    ASSUME RunInv, [RunNext]_runVars
    PROVE  EffectInv'
<1> SUFFICES ASSUME NEW q \in Requests
             PROVE  /\ receipts'[<<q, "settle">>] = "mined" =>
                          /\ reservations'[Id(q)'].consumed
                          /\ reservations'[Id(q)'].consumedAmount = Price
                    /\ receipts'[<<q, "release">>] = "mined" =>
                          reservations'[Id(q)'].released
    BY DEF EffectInv
<1>1. CASE \/ receipts[<<q, "settle">>] = "mined"
           \/ receipts[<<q, "release">>] = "mined"
  <2>1. /\ Id(q)' = Id(q) /\ ~IsOpen(reservations[Id(q)])
        /\ reservations'[Id(q)] = reservations[Id(q)]
    BY <1>1, MinedIsClosed
  <2> DEFINE s == <<q, "settle">>
             r == <<q, "release">>
  <2>2. /\ s \in Requests \X {"settle", "release"} /\ s[1] = q
        /\ r \in Requests \X {"settle", "release"} /\ r[1] = q
    OBVIOUS
  <2>3. /\ receipts[s] = "mined" => /\ reservations[Id(q)].consumed
                                    /\ reservations[Id(q)].consumedAmount = Price
        /\ receipts[r] = "mined" => reservations[Id(q)].released
    BY DEF RunInv, EffectInv
  <2> HIDE DEF s, r
  <2>4. /\ receipts'[s] = "mined" => receipts[s] = "mined"
        /\ receipts'[r] = "mined" => receipts[r] = "mined"
    BY <2>1, <2>2, NewlyMined
  <2>5. QED
    BY <2>1, <2>3, <2>4 DEF s, r
<1>2. CASE /\ receipts[<<q, "settle">>] # "mined"
           /\ receipts[<<q, "release">>] # "mined"
  <2> DEFINE s == <<q, "settle">>
             r == <<q, "release">>
  <2>1. /\ s \in Requests \X {"settle", "release"} /\ s[1] = q /\ s[2] = "settle"
        /\ r \in Requests \X {"settle", "release"} /\ r[1] = q /\ r[2] = "release"
        /\ receipts[s] # "mined" /\ receipts[r] # "mined"
    BY <1>2
  <2> HIDE DEF s, r
  <2>2. ASSUME receipts'[s] = "mined"
        PROVE  /\ reservations'[Id(q)'].consumed
               /\ reservations'[Id(q)'].consumedAmount = Price
    <3>1. settleReservation(Signer, Id(q), Price) /\ amountRead[q] > 0
      BY <2>1, <2>2, NewlyMined
    <3>2. Id(q)' = Id(q) /\ Id(q) \in ReservationIds
      BY <3>1, BodyKept
    <3>3. reservations \in [ReservationIds -> Reservation]
      BY DEF RunInv, IInv, TypeOK
    <3>4. QED
      BY <3>1, <3>2, <3>3 DEF settleReservation, Reservation
  <2>3. ASSUME receipts'[r] = "mined"
        PROVE  reservations'[Id(q)'].released
    <3>1. releaseReservation(Signer, Id(q)) /\ amountRead[q] > 0
      BY <2>1, <2>3, NewlyMined
    <3>2. Id(q)' = Id(q) /\ Id(q) \in ReservationIds
      BY <3>1, BodyKept
    <3>3. reservations \in [ReservationIds -> Reservation]
      BY DEF RunInv, IInv, TypeOK
    <3>4. QED
      BY <3>1, <3>2, <3>3 DEF releaseReservation, Reservation
  <2>4. QED
    BY <2>2, <2>3 DEF s, r
<1>3. QED
    BY <1>1, <1>2

LEMMA UniqueStep ==
    ASSUME RunInv, [RunNext]_runVars
    PROVE  UniqueInv'
<1> DEFINE S == Requests \X {"settle", "release"}
<1>1. /\ DOMAIN receipts = S /\ DOMAIN receipts' = S
      /\ \A t \in S : t[1] \in Requests
    BY ServerTypeStep DEF RunInv, ServerTypeOK
<1>2. ASSUME NEW t \in S, receipts[t] = "mined"
      PROVE  ~IsOpen(reservations[Id(t[1])]) /\ Id(t[1])' = Id(t[1])
  <2>1. t = <<t[1], "settle">> \/ t = <<t[1], "release">>
    OBVIOUS
  <2>2. QED
    BY <1>1, <1>2, <2>1, MinedIsClosed
<1>3. ASSUME NEW t \in S, receipts'[t] = "mined", receipts[t] # "mined"
      PROVE  /\ IsOpen(reservations[Id(t[1])]) /\ Id(t[1])' = Id(t[1])
             /\ receipts' = [receipts EXCEPT ![t] = "mined"]
    BY <1>1, <1>3, NewlyMined, BodyKept
<1> SUFFICES ASSUME NEW t \in S, NEW u \in S,
                    receipts'[t] = "mined", receipts'[u] = "mined",
                    Id(t[1])' = Id(u[1])', t # u
             PROVE  FALSE
    BY <1>1 DEF UniqueInv
<1>4. CASE receipts[t] = "mined" /\ receipts[u] = "mined"
    BY <1>1, <1>2, <1>4 DEF RunInv, UniqueInv
<1>5. CASE receipts[t] # "mined"
  <2>1. receipts[u] = "mined"
    BY <1>1, <1>3, <1>5
  <2>2. QED
    BY <1>2, <1>3, <1>5, <2>1
<1>6. CASE receipts[u] # "mined"
  <2>1. receipts[t] = "mined"
    BY <1>1, <1>3, <1>6
  <2>2. QED
    BY <1>2, <1>3, <1>6, <2>1
<1>7. QED
    BY <1>4, <1>5, <1>6

-----------------------------------------------------------------------------
(* The response                                                            *)

\* What was true of a reservation when it was said stays true.
LEMMA TruthKept ==
    ASSUME RunInv, [RunNext]_runVars, NEW id \in ReservationIds, NEW response,
           Truth(response, reservations[id])
    PROVE  Truth(response, reservations'[id])
<1> DEFINE r == reservations[id]
<1>1. /\ r \in Reservation /\ r.consumedAmount <= r.amount
      /\ Price \in Nat /\ Price > 0
    BY VaultAssumption, RunAssumption DEF RunInv, IInv, TypeOK, ClosedOnce
<1>2. CASE response.kind \notin {"completed", "failed"}
    BY <1>2 DEF Truth
<1>3. CASE response.kind \in {"completed", "failed"}
  <2>1. r.amount > 0 /\ ~IsOpen(r)
    BY <1>1, <1>3 DEF Truth, IsOpen, Reservation
  <2>2. reservations'[id] = r
    BY <2>1, ReservationKept
  <2>3. QED
    BY <2>2
<1>4. QED
    BY <1>2, <1>3

\* The records stay true if each one stays, says nothing or is true now.
LEMMA RecordsTrue ==
    ASSUME RunInv, [RunNext]_runVars,
           \A k \in Keys : \/ records'[k] = records[k]
                           \/ records'[k].kind \notin {"completed", "failed"}
                           \/ Truth(records'[k], reservations'[IdOf[k]])
    PROVE  \A k \in Keys : Truth(records'[k], reservations'[IdOf[k]])
<1>1. TAKE k \in Keys
<1>2. CASE records'[k] = records[k]
    BY <1>2, TruthKept, RunAssumption DEF RunInv, OutcomeInv
<1>3. CASE records'[k].kind \notin {"completed", "failed"}
    BY <1>3 DEF Truth
<1>4. QED
    BY <1>2, <1>3

AnswerTrue(q) ==
    /\ at[q] = "idle" => answers[q].kind = "none"
    /\ answers[q].kind \in {"completed", "failed"} => body[q] # NoBody
    /\ Truth(answers[q], reservations[Id(q)])

\* So does an answer.
LEMMA AnswersTrue ==
    ASSUME RunInv, [RunNext]_runVars, NEW q \in Requests,
           at'[q] = "idle" => at[q] = "idle",
           \/ /\ answers'[q] = answers[q]
              /\ body'[q] = body[q] \/ at[q] = "idle"
           \/ /\ at'[q] # "idle"
              /\ \/ answers'[q].kind \notin {"completed", "failed"}
                 \/ /\ body'[q] # NoBody
                    /\ Truth(answers'[q], reservations'[Id(q)'])
    PROVE  AnswerTrue(q)'
<1>1. AnswerTrue(q)
    BY DEF RunInv, OutcomeInv, AnswerTrue
<1>2. CASE answers'[q].kind \notin {"completed", "failed"}
    BY <1>1, <1>2 DEF AnswerTrue, Truth
<1>3. CASE /\ answers'[q].kind \in {"completed", "failed"}
           /\ answers'[q] = answers[q]
  <2>1. at[q] # "idle" /\ body[q] # NoBody
    BY <1>1, <1>3 DEF AnswerTrue
  <2>2. CASE body'[q] = body[q]
    <3>1. Id(q)' = Id(q) /\ Id(q) \in ReservationIds
      BY <2>1, <2>2, IdOfBody DEF Id
    <3>2. QED
      BY <1>1, <1>3, <2>1, <2>2, <3>1, TruthKept DEF AnswerTrue
  <2>3. CASE body'[q] # body[q]
    BY <1>1, <1>3, <2>1, <2>3 DEF AnswerTrue
  <2>4. QED
    BY <2>2, <2>3
<1>4. CASE /\ answers'[q].kind \in {"completed", "failed"}
           /\ answers'[q] # answers[q]
    BY <1>1, <1>4 DEF AnswerTrue
<1>5. QED
    BY <1>2, <1>3, <1>4

LEMMA OutcomeStep ==
    ASSUME RunInv, [RunNext]_runVars
    PROVE  OutcomeInv'
<1>0. /\ at \in [Requests -> Waits \cup {"idle", "done"}]
      /\ records \in [Keys -> {Unclaimed, InFlight} \cup Responses]
      /\ body \in [Requests -> {NoBody} \cup [key : Keys, requester : Senders]]
      /\ answers \in [Requests -> Responses]
    BY DEF RunInv, ServerTypeOK
<1>1. ASSUME \A k \in Keys : \/ records'[k] = records[k]
                             \/ records'[k].kind \notin {"completed", "failed"}
                             \/ Truth(records'[k], reservations'[IdOf[k]]),
             \A q \in Requests : AnswerTrue(q)'
      PROVE  OutcomeInv'
    BY <1>1, RecordsTrue DEF OutcomeInv, AnswerTrue
<1>2. CASE UNCHANGED <<records, at, body, answers>>
    BY <1>1, <1>2, AnswersTrue
<1>3. ASSUME NEW q \in Requests, NEW k \in Keys, NEW requester \in Senders,
             Repeat(q, k, requester)
      PROVE  OutcomeInv'
  <2>1. /\ UNCHANGED <<records, vars>>
        /\ at'[q] = "done"
        /\ body'[q] = [key |-> k, requester |-> requester]
        /\ \A p \in Requests \ {q} :
              answers'[p] = answers[p] /\ body'[p] = body[p] /\ at'[p] = at[p]
    BY <1>0, <1>3 DEF Repeat, Goto, Answer
  <2>2. answers[q].kind = "none" /\ Unanswered(q)
    BY <1>3 DEF Repeat, RunInv, OutcomeInv, Unanswered
  <2>3. answers'[q] = records[k] \/ answers'[q] = Plain("busy")
    BY <1>0, <1>3, <2>2 DEF Repeat, Answer
  <2>4. Id(q)' = IdOf[k] /\ IdOf[k] \in ReservationIds
    BY <2>1, RunAssumption DEF Id
  <2>5. Truth(records[k], reservations'[IdOf[k]])
    BY <2>4, TruthKept DEF RunInv, OutcomeInv
  <2>6. Plain("busy").kind \notin {"completed", "failed"}
    BY DEF Plain, Response
  <2>7. body'[q] # NoBody
    <3>1. body'[q].requester \in Accounts /\ NoBody.requester = NoAccount
      BY <2>1, RunAssumption DEF NoBody
    <3>2. QED
      BY <3>1, VaultAssumption
  <2>8. AnswerTrue(q)'
    BY <2>1, <2>3, <2>4, <2>5, <2>6, <2>7, AnswersTrue
  <2>9. \A p \in Requests \ {q} : AnswerTrue(p)'
    BY <2>1, AnswersTrue
  <2>10. QED
    BY <1>1, <2>1, <2>8, <2>9
<1>4. ASSUME NEW q \in Requests, NEW k \in Keys, NEW requester \in Senders,
             Accept(q, k, requester)
      PROVE  OutcomeInv'
  <2>1. /\ at[q] = "idle" /\ UNCHANGED answers
        /\ \A p \in Requests \ {q} : body'[p] = body[p] /\ at'[p] = at[p]
        /\ \A j \in Keys : records'[j] = records[j] \/ records'[j] = InFlight
    BY <1>0, <1>4 DEF Accept, Goto, ClaimFor
  <2>2. \A p \in Requests : AnswerTrue(p)'
    BY <2>1, AnswersTrue
  <2>3. InFlight.kind \notin {"completed", "failed"}
    BY DEF InFlight, Plain, Response
  <2>4. QED
    BY <1>1, <2>1, <2>2, <2>3
<1>5. ASSUME NEW q \in Requests, NEW place, NEW response, Goto(q, place),
             place # "idle", UNCHANGED body,
             Answer(q, response) \/ UNCHANGED answers,
             \/ response.kind \notin {"completed", "failed"}
             \/ body[q] # NoBody /\ Truth(response, reservations'[Id(q)]),
             \A k \in Keys : \/ records'[k] = records[k]
                             \/ records'[k].kind \notin {"completed", "failed"}
                             \/ Truth(records'[k], reservations'[IdOf[k]])
      PROVE  OutcomeInv'
  <2>1. /\ at'[q] = place
        /\ \A p \in Requests \ {q} : answers'[p] = answers[p] /\ at'[p] = at[p]
        /\ answers'[q] = answers[q] \/ answers'[q] = response
        /\ Id(q)' = Id(q)
    BY <1>0, <1>5 DEF Goto, Answer, Id
  <2>2. AnswerTrue(q)'
    BY <1>5, <2>1, AnswersTrue
  <2>3. \A p \in Requests \ {q} : AnswerTrue(p)'
    BY <1>5, <2>1, AnswersTrue
  <2>4. QED
    BY <1>1, <1>5, <2>2, <2>3
<1>6. ASSUME NEW q \in Requests, NEW place, NEW response, Goto(q, place),
             place # "idle", UNCHANGED body,
             Answer(q, response) \/ UNCHANGED answers,
             response.kind \notin {"completed", "failed"},
             UNCHANGED records \/ (Active(q) /\ Forget(body[q].key))
      PROVE  OutcomeInv'
  <2>1. \A k \in Keys : records'[k] = records[k] \/ records'[k] = Unclaimed
    BY <1>0, <1>6, KeyOfActive DEF Forget
  <2>2. Unclaimed.kind \notin {"completed", "failed"}
    BY DEF Unclaimed, Plain, Response
  <2>3. QED
    BY <1>5, <1>6, <2>1, <2>2
<1>7. \A kind \in {"none", "invalid", "rejected", "error", "timedOut", "reset"} :
         Plain(kind).kind \notin {"completed", "failed"}
    BY DEF Plain, Response
<1>8. ASSUME NEW q \in Requests,
             \/ Invalid(q) \/ Reject(q) \/ ReleaseReverts(q) \/ ReleaseRpcError(q)
             \/ ReadReservation(q) \/ AcceptTransaction(q) \/ FailTask(q)
             \/ FinishTask(q) \/ SubmitSettle(q) \/ SettleReverts(q)
             \/ SettleRpcError(q) \/ SubmitRelease(q)
      PROVE  OutcomeInv'
  <2>1. \E place, response :
           /\ Goto(q, place) /\ place # "idle"
           /\ Answer(q, response) \/ UNCHANGED answers
           /\ response.kind \notin {"completed", "failed"}
    BY <1>7, <1>8 DEF Invalid, Reject, ReleaseReverts, ReleaseRpcError,
       ReadReservation, AcceptTransaction, FailTask, FinishTask, SubmitSettle,
       SettleReverts, SettleRpcError, SubmitRelease, Catch
  <2>2. /\ UNCHANGED body
        /\ UNCHANGED records \/ (Active(q) /\ Forget(body[q].key))
    BY <1>8 DEF Invalid, Reject, ReleaseReverts, ReleaseRpcError,
       ReadReservation, AcceptTransaction, FailTask, FinishTask, SubmitSettle,
       SettleReverts, SettleRpcError, SubmitRelease, Catch, Active, Waits
  <2>3. QED
    BY <1>6, <2>1, <2>2
<1>9. ASSUME NEW q \in Requests, NEW place \in {"done", "releasing"},
             NEW response, Active(q), UNCHANGED <<body, vars>>,
             Truth(response, reservations[Id(q)]),
             Goto(q, place), Answer(q, response),
             records' = [records EXCEPT ![body[q].key] = response]
      PROVE  OutcomeInv'
  <2>1. /\ body[q] # NoBody /\ Id(q) \in ReservationIds
        /\ Id(q) = IdOf[body[q].key]
    BY <1>9, KeyOfActive DEF RunInv, ClaimInv
  <2>2. Truth(response, reservations'[Id(q)])
    BY <1>9, <2>1, TruthKept
  <2>3. \A k \in Keys : \/ records'[k] = records[k]
                        \/ k = body[q].key /\ records'[k] = response
    BY <1>0, <1>9
  <2>4. QED
    BY <1>5, <1>9, <2>1, <2>2, <2>3
<1>10. ASSUME NEW q \in Requests, Complete(q)
       PROVE  OutcomeInv'
  <2> DEFINE success == Response("completed", Surplus(q))
  <2>1. /\ Active(q) /\ UNCHANGED <<body, vars>> /\ Answer(q, success)
        /\ records' = [records EXCEPT ![body[q].key] = success]
        /\ \E place \in {"done", "releasing"} : Goto(q, place)
    BY <1>10 DEF Complete, Active, Waits
  <2>2. /\ amountRead[q] \in Nat /\ amountRead[q] >= Price
        /\ amountRead[q] = AsNumber(reservations[Id(q)].amount)
    BY <1>10 DEF Complete, RunInv, ReadInv, IsRead, ServerTypeOK, Waits
  <2>3. reservations[Id(q)].consumed /\ reservations[Id(q)].consumedAmount = Price
    BY <1>10 DEF Complete, IsMined, RunInv, EffectInv
  <2>4. Truth(success, reservations[Id(q)])
    <3> DEFINE n == reservations[Id(q)].amount
    <3>1. n \in Nat /\ Price \in Nat
      <4>1. Id(q) \in ReservationIds
        BY <2>1, KeyOfActive
      <4>2. QED
        BY <4>1, VaultAssumption, RunAssumption
           DEF RunInv, IInv, TypeOK, Reservation
    <3>2. IsClose(AsNumber(AsNumber(n) - Price), n - Price, n,
                  Spacing(n) + Spacing(AsNumber(n) - Price))
      BY <2>2, <3>1, SurplusIsClose
    <3>3. success.kind = "completed"
          /\ success.creditsReturned = AsNumber(AsNumber(n) - Price)
      BY <2>2 DEF Response, Surplus
    <3>4. QED
      BY <2>3, <3>2, <3>3 DEF Truth
  <2>5. QED
    BY <1>9, <2>1, <2>4
<1>11. ASSUME NEW q \in Requests, Fail(q)
       PROVE  OutcomeInv'
  <2> DEFINE failure == Response("failed", amountRead[q])
  <2>1. Active(q) /\ UNCHANGED <<body, vars>>
    BY <1>11 DEF Fail, Active, Waits, Catch
  <2>2. /\ amountRead[q] = AsNumber(reservations[Id(q)].amount)
        /\ reservations[Id(q)].amount > 0
    BY <1>11 DEF Fail, RunInv, ReadInv, IsRead, ServerTypeOK, Waits
  <2>3. reservations[Id(q)].released
    BY <1>11 DEF Fail, IsMined, RunInv, EffectInv
  <2>4. Truth(failure, reservations[Id(q)])
    <3> DEFINE n == reservations[Id(q)].amount
    <3>1. n \in Nat
      BY <2>1, KeyOfActive DEF RunInv, IInv, TypeOK, Reservation
    <3>2. IsClose(AsNumber(n), n, n, Spacing(n))
      BY <3>1, ReadIsClose DEF IsClose
    <3>3. failure.kind = "failed" /\ failure.creditsReturned = AsNumber(n)
      BY <2>2 DEF Response
    <3>4. QED
      BY <2>2, <2>3, <3>2, <3>3 DEF Truth
  <2>5. CASE Unanswered(q)
    BY <1>9, <1>11, <2>1, <2>4, <2>5 DEF Fail
  <2>6. CASE ~Unanswered(q)
    BY <1>6, <1>7, <1>11, <2>1, <2>6 DEF Fail, Catch
  <2>7. QED
    BY <2>5, <2>6
<1>12. ASSUME NEW q \in Requests, GlobalTimeout(q)
       PROVE  OutcomeInv'
  <2>1. /\ UNCHANGED <<records, at, body>> /\ Answer(q, Plain("timedOut"))
        /\ at[q] # "idle"
    BY <1>12 DEF GlobalTimeout, Active, Waits
  <2>2. \A p \in Requests : \/ answers'[p] = answers[p]
                            \/ p = q /\ answers'[p] = Plain("timedOut")
    BY <1>0, <2>1 DEF Answer
  <2>3. \A p \in Requests : AnswerTrue(p)'
    BY <1>7, <2>1, <2>2, AnswersTrue
  <2>4. QED
    BY <1>1, <2>1, <2>3
<1>13. CASE Restart
  <2>1. \A k \in Keys : records'[k] = Unclaimed
    BY <1>13 DEF Restart
  <2>2. Unclaimed.kind \notin {"completed", "failed"}
    BY DEF Unclaimed, Plain, Response
  <2>3. \A p \in Requests :
           /\ body'[p] = body[p]
           /\ at'[p] = at[p] \/ at'[p] = "done"
           /\ \/ answers'[p] = answers[p]
              \/ Active(p) /\ answers'[p] = Plain("reset") /\ at'[p] = "done"
    BY <1>0, <1>13 DEF Restart
  <2>4. \A p \in Requests : AnswerTrue(p)'
    BY <1>7, <2>3, AnswersTrue
  <2>5. QED
    BY <1>1, <2>1, <2>2, <2>4
<1>14. QED
    BY <1>2, <1>3, <1>4, <1>8, <1>10, <1>11, <1>12, <1>13
       DEF RunNext, Handle, Mine, Others, runVars, serverVars

-----------------------------------------------------------------------------
(* The invariant                                                           *)

LEMMA RunInvInit == RunInit => RunInv
<1> SUFFICES ASSUME RunInit PROVE RunInv
    OBVIOUS
<1> USE VaultAssumption, RunAssumption
<1>1. IInv
    BY IInvInit DEF RunInit
<1>2. ServerTypeOK
    BY ResponseTypes DEF RunInit, ServerTypeOK
<1>3. ClaimInv /\ ReadInv
    BY DEF RunInit, ClaimInv, ReadInv, IsRead, Active, Waits, Unclaimed,
       InFlight, Plain, Response
<1>4. SentInv
    BY DEF RunInit, SentInv
<1>5. EffectInv /\ UniqueInv
    BY DEF RunInit, EffectInv, UniqueInv
<1>6. OutcomeInv
    BY DEF RunInit, OutcomeInv, Truth, Unclaimed, Plain, Response
<1>7. QED
    BY <1>1, <1>2, <1>3, <1>4, <1>5, <1>6 DEF RunInv

LEMMA RunInvStep == RunInv /\ [RunNext]_runVars => RunInv'
BY VaultMoves, IInvStep, ServerTypeStep, ClaimStep, ReadStep, SentStep,
   EffectStep, UniqueStep, OutcomeStep DEF RunInv

THEOREM ServerKeepsInvariant == RunSpec => []RunInv
BY RunInvInit, RunInvStep, PTL DEF RunSpec

-----------------------------------------------------------------------------
(* Theorems                                                                *)

\* The server, its clients and the chain do to the vault only what the vault's
\* functions do: every theorem about the vault alone holds of it here
\* (backend/src/services against contracts/ECONCreditVault.sol).
THEOREM ServerIsAClient == RunSpec => Spec
<1>1. RunInit => Init
    BY DEF RunInit
<1>2. RunInv /\ [RunNext]_runVars => [Next]_vars
    BY VaultMoves
<1>3. QED
    BY <1>1, <1>2, ServerKeepsInvariant, PTL DEF RunSpec, Spec

\* At most one handler works on one spelling of a reservation, and a claim is
\* in flight exactly while one does (services/idempotency.ts, routes/run.ts).
THEOREM ClaimsAreHeld == RunSpec => []ClaimsHeld
<1>1. RunInv => ClaimsHeld
  <2> SUFFICES ASSUME RunInv, NEW k \in Keys
               PROVE  LET holders == {q \in Requests : Active(q) /\ body[q].key = k}
                      IN  /\ Cardinality(holders) <= 1
                          /\ records[k] = InFlight => holders # {}
                          /\ records[k] = Unclaimed => holders = {}
      BY DEF ClaimsHeld
  <2> DEFINE holders == {q \in Requests : Active(q) /\ body[q].key = k}
  <2>1. ClaimInv
      BY DEF RunInv
  <2>2. \A q, p \in holders : q = p
      BY <2>1 DEF ClaimInv
  <2>3. Cardinality(holders) <= 1
    <3> HIDE DEF holders
    <3>1. CASE holders = {}
      BY <3>1, FS_EmptySet
    <3>2. ASSUME NEW q \in holders
          PROVE  Cardinality(holders) = 1
      <4>1. holders = {q}
        BY <2>2
      <4>2. QED
        BY <4>1, FS_Singleton
    <3>3. QED
      BY <3>1, <3>2
  <2>4. QED
      BY <2>1, <2>3 DEF ClaimInv
<1>2. QED
    BY <1>1, ServerKeepsInvariant, PTL

\* Of all the transactions the server sends about one reservation, over any
\* number of requests, spellings and restarts, at most one takes effect
\* (services/creditSettlement.ts).
THEOREM ReservationsCloseOnce == RunSpec => []ClosedByOneCall
<1>1. RunInv => ClosedByOneCall
  <2> SUFFICES ASSUME RunInv, NEW id \in ReservationIds
               PROVE  Cardinality({tx \in DOMAIN receipts :
                         receipts[tx] = "mined" /\ Id(tx[1]) = id}) <= 1
      BY DEF ClosedByOneCall
  <2> DEFINE mined == {tx \in DOMAIN receipts :
                         receipts[tx] = "mined" /\ Id(tx[1]) = id}
  <2>1. \A t, u \in mined : t = u
      BY DEF RunInv, UniqueInv
  <2> HIDE DEF mined
  <2>2. CASE mined = {}
      BY <2>2, FS_EmptySet DEF mined
  <2>3. ASSUME NEW t \in mined
        PROVE  Cardinality(mined) = 1
    <3>1. mined = {t}
      BY <2>1
    <3>2. QED
      BY <3>1, FS_Singleton
  <2>4. Cardinality(mined) <= 1
      BY <2>2, <2>3, FS_EmptySet
  <2>5. QED
      BY <2>4 DEF mined
<1>2. QED
    BY <1>1, ServerKeepsInvariant, PTL

\* The response is what the vault did, also when it is replayed to a later
\* request (routes/run.ts, services/idempotency.ts).
THEOREM ResponsesAreTrue == RunSpec => []OutcomeIsTrue
<1>1. RunInv => OutcomeIsTrue
  <2> SUFFICES ASSUME RunInv, NEW q \in Requests
               PROVE  LET r == reservations[Id(q)]
                      IN  /\ answers[q].kind = "completed" =>
                               /\ r.consumed /\ r.consumedAmount = Price
                               /\ IsClose(answers[q].creditsReturned,
                                          r.amount - r.consumedAmount, r.amount,
                                          Spacing(r.amount)
                                             + Spacing(AsNumber(r.amount) - Price))
                          /\ answers[q].kind = "failed" =>
                               /\ r.released /\ ~r.consumed
                               /\ IsClose(answers[q].creditsReturned, r.amount,
                                          r.amount, Spacing(r.amount))
      BY DEF OutcomeIsTrue
  <2>1. Truth(answers[q], reservations[Id(q)])
      BY DEF RunInv, OutcomeInv
  <2>2. CASE answers[q].kind = "failed"
    <3>1. Id(q) \in ReservationIds
      BY <2>2, IdOfBody DEF RunInv, OutcomeInv
    <3>2. ~(reservations[Id(q)].consumed /\ reservations[Id(q)].released)
      BY <3>1 DEF RunInv, IInv, ClosedOnce
    <3>3. QED
      BY <2>1, <2>2, <3>2 DEF Truth
  <2>3. QED
      BY <2>1, <2>2 DEF Truth
<1>2. QED
    BY <1>1, ServerKeepsInvariant, PTL

\* Only the server settles what the agent's key controls.
LEMMA ChargedStep ==
    ASSUME RunInv, [RunNext]_runVars, NEW id \in ReservationIds,
           ~reservations[id].consumed, reservations'[id].consumed,
           reservations[id].agentId = ThisAgent,
           agentControllers[ThisAgent] = Signer
    PROVE  /\ reservations'[id].consumedAmount = Price
           /\ \E q \in worked :
                 Id(q) = id /\ body[q].requester = reservations[id].requester
<1> USE VaultAssumption, RunAssumption
<1>1. reservations \in [ReservationIds -> Reservation]
    BY DEF RunInv, IInv, TypeOK
<1>2. ASSUME NEW other \in ReservationIds, NEW caller, NEW amount,
             settleReservation(caller, other, amount)
      PROVE  /\ id = other /\ reservations'[id].consumedAmount = amount
             /\ caller \in {Signer, Owner}
  <2>1. id = other
    BY <1>1, <1>2 DEF settleReservation
  <2>2. QED
    BY <1>1, <1>2, <2>1 DEF settleReservation, SettleAllowed, Reservation
<1>3. ASSUME NEW other \in ReservationIds, NEW caller,
             \/ releaseReservation(caller, other)
             \/ recycleReservation(caller, other)
      PROVE  FALSE
  <2>1. reservations' = [reservations EXCEPT ![other].released = TRUE]
    BY <1>3 DEF releaseReservation, recycleReservation
  <2> DEFINE closed == [reservations[other] EXCEPT !.released = TRUE]
  <2>2. closed.consumed = reservations[other].consumed
    BY <1>1 DEF Reservation
  <2>3. reservations' = [reservations EXCEPT ![other] = closed]
    BY <2>1
  <2> HIDE DEF closed
  <2>4. QED
    BY <1>1, <2>2, <2>3
<1>4. ASSUME NEW other \in ReservationIds, NEW caller, NEW agentId, NEW value,
             NEW expiresAt,
             reserveCreditsWithDirectPayment(caller, other, agentId, value,
                                             expiresAt)
      PROVE  FALSE
    BY <1>1, <1>4 DEF reserveCreditsWithDirectPayment, NewReservation
<1>5. CASE UNCHANGED reservations
    BY <1>5
<1>6. CASE Mine
  <2> DEFINE tx == Head(pending)
  <2>1. /\ tx \in Requests \X {"settle", "release"}
        /\ amountRead[tx[1]] > 0
        /\ tx[2] = "settle" => tx[1] \in worked
        /\ Id(tx[1]) \in ReservationIds
    BY <1>6, NextPending DEF Mine
  <2>2. \/ tx[2] = "settle" /\ settleReservation(Signer, Id(tx[1]), Price)
        \/ releaseReservation(Signer, Id(tx[1]))
        \/ UNCHANGED reservations
    BY <1>6 DEF Mine, vars, ledgerVars
  <2>3. tx[1] \in Requests
    BY <2>1
  <2> HIDE DEF tx
  <2>4. tx[2] = "settle" /\ settleReservation(Signer, Id(tx[1]), Price)
    BY <1>3, <1>5, <2>1, <2>2
  <2>5. Id(tx[1]) = id /\ reservations'[id].consumedAmount = Price
    BY <1>2, <2>1, <2>4
  <2>6. reservations[id].requester = body[tx[1]].requester
    BY <2>1, <2>3, <2>5 DEF RunInv, ReadInv, IsRead
  <2>7. QED
    BY <2>1, <2>4, <2>5, <2>6
<1>7. CASE Others
  <2>1. ASSUME NEW client \in Clients, NEW other \in ReservationIds,
               NEW amount \in Amounts, settleReservation(client, other, amount)
        PROVE  FALSE
    BY <1>2, <2>1
  <2>2. QED
    BY <1>3, <1>4, <1>5, <1>7, <2>1
       DEF Others, setAgentController, Tick, ledgerVars
<1>8. QED
    BY <1>5, <1>6, <1>7 DEF RunNext, Invalid, Repeat, Accept, Handle,
       ReadReservation, AcceptTransaction, Reject, FailTask, SubmitSettle,
       SettleReverts, Complete, SubmitRelease, ReleaseReverts, Fail, FinishTask,
       SettleRpcError, ReleaseRpcError, GlobalTimeout, Restart,
       runVars, vars, ledgerVars

\* Once the agent's key is its controller, a reservation for it is charged the
\* price, and only after its task ran to the end for whoever made the
\* reservation (routes/run.ts over ECONCreditVault.sol).
THEOREM ChargesAreEarned == RunSpec => ChargedForWork
<1>1. RunInv /\ [RunNext]_runVars =>
        [\A id \in ReservationIds :
            LET r == reservations[id]
            IN  ~r.consumed /\ reservations'[id].consumed
                /\ r.agentId = ThisAgent /\ agentControllers[ThisAgent] = Signer =>
                   /\ reservations'[id].consumedAmount = Price
                   /\ \E q \in worked :
                         Id(q) = id /\ body[q].requester = r.requester]_runVars
    BY ChargedStep
<1>2. QED
    BY <1>1, ServerKeepsInvariant, PTL DEF RunSpec, ChargedForWork
=============================================================================
