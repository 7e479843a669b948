---------------------------- MODULE IndexedChain ----------------------------
(***************************************************************************)
(* All five contracts on one chain, and the index of them: what each       *)
(* transaction emits, in which order, and how the entities follow.  Calls  *)
(* whose events no handler takes (approvals, fees, metadata, deposits and  *)
(* withdrawals) emit nothing here.                                         *)
(*                                                                         *)
(* indexer/src/EventHandlers.ts: a handler is an operator from the         *)
(* entities and an event to the entities; HyperIndex calls one at a time,  *)
(* in the order of the chain.  An entity is what the contract's state is   *)
(* compared with; hashes, times that no query orders by and the list of    *)
(* EconomicEvents, one for each event, are left out.                       *)
(***************************************************************************)
EXTENDS Trade, ECONIdentityRegistry, SequencesExt

CONSTANTS
    ReservationIds,
    EscrowLimit,   \* the rows that the console asks for
    FineWei,       \* up to it JavaScript numbers of MON are a wei apart or less
    MonSpacings,   \* how far apart they are in wei, as far as sums of coin go
    Lag,           \* bound: events that wait for their handlers
    Scopes,        \* bound: sets of contracts that are called side by side
    Timed,         \* bound: those of them beside whose calls time passes
    Spare          \* bound: escrows that are locked only where no other
                   \* contract is called

\* A value for Endowment: every account starts with the same coin.
EvenEndowment == [account \in Accounts |-> 100]

ASSUME IndexAssumption ==
    /\ IsFiniteSet(ReservationIds) /\ ReservationIds # {}
    /\ EscrowLimit \in Nat /\ FineWei \in Nat \ {0} /\ Lag \in Nat
    /\ MonSpacings \subseteq Nat \ {0} /\ 1 \in MonSpacings
    /\ \E u \in MonSpacings : \A v \in MonSpacings : v <= u

VARIABLES agentControllers, userBalances, reservations, recyclablePool, ether,
          retained,
          pending,     \* events that were emitted and are not handled yet
          entities,    \* the tables of schema.graphql
          scope        \* the contracts that are called

vaultVars == <<agentControllers, userBalances, reservations, recyclablePool,
               ether, retained>>

Vault == INSTANCE ECONCreditVault WITH
    NoAccount <- NoAddress, Agents <- AgentIds, NoAgent <- ZeroAgent

indexVars == <<pending, entities>>
chainVars == <<tradeVars, registryVars, vaultVars>>
allVars == <<chainVars, indexVars, scope>>

-----------------------------------------------------------------------------
(* The index                                                               *)

Nothing == <<>>
NoEntities ==
    [agents |-> Nothing, objects |-> Nothing, escrows |-> Nothing,
     listings |-> Nothing, reservations |-> Nothing,
     recoveries |-> {}]

IndexInit == pending = <<>> /\ entities = NoEntities

Emit(events) == pending' = pending \o events /\ UNCHANGED entities

\* {...existing, ...changes}
Spread(changes, existing) ==
    [x \in DOMAIN changes \cup DOMAIN existing |->
        IF x \in DOMAIN changes THEN changes[x] ELSE existing[x]]

\* context.<table>.set(row), and set({...existing, ...changes}) of a row that
\* is there.
Put(table, id, row) == Spread([x \in {id} |-> row], table)
Merge(table, id, changes) ==
    IF id \in DOMAIN table THEN Put(table, id, Spread(changes, table[id]))
                           ELSE table

-----------------------------------------------------------------------------
(* Handlers                                                                *)

handleAgentRegistered(en, e) ==
    [en EXCEPT !.agents =
        Put(@, e.id, [controller |-> e.controller, active |-> TRUE])]

handleAgentStatusChanged(en, e) ==
    [en EXCEPT !.agents = Merge(@, e.id, [active |-> e.active])]

\* Neither the expiry nor whether it can be transferred is in the event.
handleObjectCreated(en, e) ==
    [en EXCEPT !.objects =
        Put(@, e.id, [owner |-> e.owner, expiry |-> 0, transferable |-> TRUE,
                      status |-> "ACTIVE"])]

handleObjectTransferred(en, e) ==
    [en EXCEPT !.objects = Merge(@, e.id, [owner |-> e.newOwner])]

\* A status RECOVERED is recorded as a recovery, which the policy allowed, of
\* all of the object's value, once a block.
Recovery(en, e) ==
    [of |-> e.id, block |-> e.block,
     agent |-> IF e.id \in DOMAIN en.objects THEN en.objects[e.id].owner
               ELSE "unknown"]
handleObjectStatusUpdated(en, e) ==
    [en EXCEPT
        !.objects = Merge(@, e.id, [status |-> e.status]),
        !.recoveries = IF e.status = "RECOVERED"
                       THEN @ \cup {Recovery(en, e)} ELSE @]

handleEscrowLocked(en, e) ==
    [en EXCEPT !.escrows =
        Put(@, e.id, [buyer |-> e.buyer, seller |-> e.seller,
                      amount |-> e.amount, status |-> "LOCKED",
                      linkedObjectId |-> e.linkedObjectId,
                      createdAt |-> e.timestamp])]

handleDeliverySubmitted(en, e) ==
    [en EXCEPT !.escrows = Merge(@, e.id, [status |-> "DELIVERED"])]

handleEscrowReleased(en, e) ==
    [en EXCEPT !.escrows = Merge(@, e.id, [status |-> "RELEASED"])]

handleEscrowRefundedUnseen(en, e) == en
handleEscrowRefunded(en, e) ==
    [en EXCEPT !.escrows = Merge(@, e.id, [status |-> "REFUNDED"])]

handleObjectListed(en, e) ==
    [en EXCEPT !.listings =
        Put(@, e.id, [objectId |-> e.objectId, seller |-> e.seller,
                      price |-> e.price, active |-> TRUE])]

handleListingCancelled(en, e) ==
    [en EXCEPT !.listings = Merge(@, e.id, [active |-> FALSE])]

handleObjectPurchased(en, e) == handleListingCancelled(en, e)

handleCreditsReserved(en, e) ==
    [en EXCEPT !.reservations =
        Put(@, e.id, [requester |-> e.requester, amount |-> e.amount,
                      consumed |-> 0, refunded |-> 0, recycled |-> 0,
                      status |-> "RESERVED"])]

handleReservationSettled(en, e) ==
    [en EXCEPT !.reservations =
        Merge(@, e.id, [consumed |-> e.consumed, refunded |-> e.refunded,
                        status |-> "SETTLED"])]

handleReservationReleasedOnly(en, e) ==
    [en EXCEPT !.reservations = Merge(@, e.id, [status |-> "RELEASED"])]
handleReservationReleased(en, e) ==
    [en EXCEPT !.reservations =
        Merge(@, e.id, [refunded |-> e.refunded, status |-> "RELEASED"])]

handleReservationRecycled(en, e) ==
    [en EXCEPT
        !.reservations = Merge(@, e.id, [recycled |-> e.recycled,
                                         status |-> "RECYCLED"]),
        !.recoveries = @ \cup {[of |-> e.id, block |-> e.block,
                                agent |-> e.agentId]}]

Handled(en, e) ==
    CASE e.type = "AgentRegistered" -> handleAgentRegistered(en, e)
      [] e.type = "AgentStatusChanged" -> handleAgentStatusChanged(en, e)
      [] e.type = "ObjectCreated" -> handleObjectCreated(en, e)
      [] e.type = "ObjectTransferred" -> handleObjectTransferred(en, e)
      [] e.type = "ObjectStatusUpdated" -> handleObjectStatusUpdated(en, e)
      [] e.type = "EscrowLocked" -> handleEscrowLocked(en, e)
      [] e.type = "DeliverySubmitted" -> handleDeliverySubmitted(en, e)
      [] e.type = "EscrowReleased" -> handleEscrowReleased(en, e)
      [] e.type = "EscrowRefunded" -> handleEscrowRefunded(en, e)
      [] e.type = "ObjectListed" -> handleObjectListed(en, e)
      [] e.type = "ListingCancelled" -> handleListingCancelled(en, e)
      [] e.type = "ObjectPurchased" -> handleObjectPurchased(en, e)
      [] e.type = "CreditsReserved" -> handleCreditsReserved(en, e)
      [] e.type = "ReservationSettled" -> handleReservationSettled(en, e)
      [] e.type = "ReservationReleased" -> handleReservationReleased(en, e)
      [] e.type = "ReservationRecycled" -> handleReservationRecycled(en, e)

\* The next event is handled.
Handle ==
    /\ pending # <<>>
    /\ entities' = Handled(entities, Head(pending))
    /\ pending' = Tail(pending)

-----------------------------------------------------------------------------
(* What the console's views compute of the tables                          *)

\* formatWeiToMon: the whole and the rest of the wei as a JavaScript number of
\* MON, told in wei; numbers less than a wei apart are not told apart.
formatWeiToMon(amount) == NearestNumber(amount, FineWei, MonSpacings)

\* for (const esc of escrows) total += formatWeiToMon(esc.amount); which of two
\* rows comes first is left open.
AddedTo(sum, number) == NearestNumber(number + sum, FineWei, MonSpacings)
AmountWith(table, rows, statuses) ==
    MapThenFoldSet(LAMBDA number, sum : AddedTo(sum, number), 0,
                   LAMBDA id : formatWeiToMon(table[id].amount),
                   LAMBDA ids : CHOOSE id \in ids : TRUE,
                   {id \in rows : table[id].status \in statuses})

\* What GET_ESCROW_ACTIVITY may answer: order_by createdAt desc with a limit;
\* rows of one block come in any order.
GET_ESCROW_ACTIVITY(en) ==
    LET all == DOMAIN en.escrows
    IN  {rows \in SUBSET all :
            /\ Cardinality(rows) <= EscrowLimit
            /\ rows # all => Cardinality(rows) = EscrowLimit
            /\ \A id \in rows, cut \in all \ rows :
                  en.escrows[cut].createdAt <= en.escrows[id].createdAt}

getEscrowActivity(en, rows) ==
    [totalLockedMon |-> AmountWith(en.escrows, rows, {"LOCKED", "DELIVERED"}),
     totalSettledMon |-> AmountWith(en.escrows, rows, {"RELEASED"})]

-----------------------------------------------------------------------------
(* The chain                                                               *)

IndexedInit ==
    /\ TradeInit /\ RegistryInit /\ Vault!Init /\ IndexInit
    /\ scope \in Scopes

-----------------------------------------------------------------------------
(* Transactions and their events                                           *)

Moved(id, to) == [type |-> "ObjectTransferred", id |-> id, newOwner |-> to]

ObjectTransaction(caller) ==
    /\ \/ \E operator \in Operators, approved \in BOOLEAN :
             setApprovalForAll(caller, operator, approved) /\ Emit(<<>>)
       \/ \E id \in Objects, to \in Operators \cup {NoAddress} :
             approve(caller, to, id) /\ Emit(<<>>)
       \/ \E id \in Objects, expiry \in Expiries, transferable \in BOOLEAN :
             /\ createObject(caller, id, expiry, transferable)
             /\ Emit(<<[type |-> "ObjectCreated", id |-> id,
                        owner |-> caller]>>)
       \/ \E id \in Objects, to \in Addresses :
             /\ \/ transferObject(caller, id, to)
                \/ \E from \in Accounts : transferFrom(caller, from, to, id)
             /\ Emit(<<Moved(id, to)>>)
       \/ \E id \in Objects, status \in NewStatuses :
             /\ setStatus(caller, id, status)
             /\ Emit(<<[type |-> "ObjectStatusUpdated", id |-> id,
                        status |-> status, block |-> blockTime]>>)
    /\ UNCHANGED <<wallets, blockTime, marketVars, escrowVars, registryVars,
                   vaultVars>>

MarketTransaction(caller) ==
    /\ \/ /\ \E to \in FeeRecipients : setFeeRecipient(caller, to)
          /\ Emit(<<>>) /\ UNCHANGED <<wallets, objectVars>>
       \/ \E l \in Listings, id \in Objects, price \in Amounts :
             /\ listObject(caller, l, id, price)
             /\ Emit(<<[type |-> "ObjectListed", id |-> l, objectId |-> id,
                        seller |-> caller, price |-> price]>>)
             /\ UNCHANGED <<wallets, objectVars>>
       \/ \E l \in Listings :
             /\ cancelListing(caller, l)
             /\ Emit(<<[type |-> "ListingCancelled", id |-> l]>>)
             /\ UNCHANGED <<wallets, objectVars>>
       \/ \E l \in Listings, value \in Amounts :
             /\ buyObject(caller, l, value)
             /\ Emit(<<Moved(listings[l].objectId, caller),
                       [type |-> "ObjectPurchased", id |-> l]>>)
    /\ UNCHANGED <<blockTime, escrowVars, registryVars, vaultVars>>

EscrowTransaction(caller) ==
    /\ \/ /\ setEconomicObjectContract(caller)
          /\ Emit(<<>>) /\ UNCHANGED <<wallets, objectVars>>
       \/ \E e \in Escrows, seller \in Addresses, deadline \in Deadlines,
             linked \in Objects \cup {NoLink}, value \in Amounts :
             /\ lockEscrow(caller, e, seller, deadline, linked, value)
             /\ Emit(<<[type |-> "EscrowLocked", id |-> e, buyer |-> caller,
                        seller |-> seller, amount |-> value,
                        linkedObjectId |-> linked,
                        timestamp |-> blockTime]>>)
             /\ UNCHANGED objectVars
       \/ \E e \in Escrows :
             /\ submitDelivery(caller, e)
             /\ Emit(<<[type |-> "DeliverySubmitted", id |-> e]>>)
             /\ UNCHANGED <<wallets, objectVars>>
       \/ \E e \in Escrows :
             /\ verifyAndRelease(caller, e)
             /\ Emit((IF MovesObject(escrows[e])
                      THEN <<Moved(escrows[e].linkedObjectId, escrows[e].buyer)>>
                      ELSE <<>>)
                     \o <<[type |-> "EscrowReleased", id |-> e]>>)
       \/ \E e \in Escrows :
             /\ refund(caller, e)
             /\ Emit(<<[type |-> "EscrowRefunded", id |-> e]>>)
             /\ UNCHANGED objectVars
    /\ UNCHANGED <<blockTime, marketVars, registryVars, vaultVars>>

RegistryTransaction(caller) ==
    /\ \E a \in Ids :
          \/ \E hash \in Metadata :
                \/ /\ registerAgentWithURI(caller, a, hash)
                   /\ Emit(<<[type |-> "AgentRegistered", id |-> a,
                              controller |-> caller]>>)
                \/ updateMetadata(caller, a, hash) /\ Emit(<<>>)
          \/ \E active \in BOOLEAN :
                /\ setStatusOf(caller, a, active)
                /\ Emit(<<[type |-> "AgentStatusChanged", id |-> a,
                           active |-> active]>>)
    /\ UNCHANGED <<tradeVars, vaultVars>>

Reserved(id, caller, amount) ==
    [type |-> "CreditsReserved", id |-> id, requester |-> caller,
     amount |-> amount]

VaultTransaction(caller) ==
    /\ \/ /\ \/ \E agent \in AgentIds, controller \in Accounts :
                   Vault!setAgentController(caller, agent, controller)
             \/ \E account \in Accounts, value \in Amounts :
                   Vault!depositFor(caller, account, value)
             \/ \E amount \in Amounts : Vault!withdraw(caller, amount)
          /\ Emit(<<>>)
       \/ \E id \in ReservationIds, agent \in AgentIds, amount \in Amounts,
             expiresAt \in Expiries :
             /\ \/ Vault!reserveCredits(caller, id, agent, amount, expiresAt)
                \/ Vault!reserveCreditsWithDirectPayment(caller, id, agent,
                                                         amount, expiresAt)
             /\ Emit(<<Reserved(id, caller, amount)>>)
       \/ \E id \in ReservationIds, consumed \in Amounts \cup {0} :
             /\ Vault!settleReservation(caller, id, consumed)
             /\ Emit(<<[type |-> "ReservationSettled", id |-> id,
                        consumed |-> consumed,
                        refunded |-> reservations[id].amount - consumed]>>)
       \/ \E id \in ReservationIds :
             /\ Vault!releaseReservation(caller, id)
             /\ Emit(<<[type |-> "ReservationReleased", id |-> id,
                        refunded |-> reservations[id].amount]>>)
       \/ \E id \in ReservationIds :
             /\ Vault!recycleReservation(caller, id)
             /\ Emit(<<[type |-> "ReservationRecycled", id |-> id,
                        agentId |-> reservations[id].agentId,
                        recycled |-> reservations[id].amount,
                        block |-> blockTime]>>)
    /\ UNCHANGED <<objectVars, marketVars, escrowVars, registryVars>>

\* A transaction to a contract in scope; at most Lag events wait, and spare
\* escrows are spared.
Transacted(caller) ==
    /\ \/ "objects" \in scope /\ ObjectTransaction(caller)
       \/ "marketplace" \in scope /\ MarketTransaction(caller)
       \/ "escrow" \in scope /\ EscrowTransaction(caller)
       \/ "registry" \in scope /\ RegistryTransaction(caller)
       \/ "vault" \in scope /\ VaultTransaction(caller)
    /\ Len(pending') <= Lag
    /\ scope # {"escrow"} => \A e \in Spare : escrows'[e] = escrows[e]
    /\ UNCHANGED scope

IndexedNext ==
    \/ \E caller \in Accounts : Transacted(caller)
    \/ /\ Advance /\ scope \in Timed
       /\ UNCHANGED <<objectVars, marketVars, escrowVars, registryVars,
                      vaultVars, indexVars, scope>>
    \/ Handle /\ UNCHANGED <<chainVars, scope>>

IndexedSpec == IndexedInit /\ [][IndexedNext]_allVars

-----------------------------------------------------------------------------
(* Properties                                                              *)

\* The entities once the waiting events are handled.
CaughtUp == FoldLeft(Handled, entities, pending)

\* A table has the rows of what exists, and they say what the contract says.
Shows(table, Exists(_), Row(_), ids) ==
    /\ DOMAIN table = {id \in ids : Exists(id)}
    /\ \A id \in DOMAIN table :
          \A field \in DOMAIN Row(id) : table[id][field] = Row(id)[field]

ObjectExists(id) == OwnerOf(id) # NoAddress
ObjectRow(id) == [owner |-> OwnerOf(id), status |-> objects[id].status]
EscrowExists(e) == escrows[e].amount > 0
EscrowRow(e) == [buyer |-> escrows[e].buyer, seller |-> escrows[e].seller,
                 amount |-> escrows[e].amount, status |-> escrows[e].status,
                 linkedObjectId |-> escrows[e].linkedObjectId]
ListingRow(l) == listings[l]
AgentRow(a) == [controller |-> identities[a].controller,
                active |-> identities[a].active]

\* The index is the contracts' state, late: whatever is interleaved, when the
\* waiting events are handled each table has exactly the objects, escrows,
\* listings and agents there are, with owners, terms and statuses of the
\* chain, and a recovered object has its recovery (EventHandlers.ts).  Expiry
\* and transferability are not among them.
IndexFollowsChain ==
    /\ Shows(CaughtUp.objects, ObjectExists, ObjectRow, Objects)
    /\ Shows(CaughtUp.escrows, EscrowExists, EscrowRow, Escrows)
    /\ Shows(CaughtUp.listings, IsListed, ListingRow, Listings)
    /\ Shows(CaughtUp.agents, IsRegistered, AgentRow, Ids)
    /\ \A id \in Objects :
          objects[id].status = "RECOVERED" =>
              \E recovery \in CaughtUp.recoveries :
                  recovery.of = id /\ recovery.agent = OwnerOf(id)

\* The sums the console shows are coin that is there.  What it shows as locked
\* in escrows is never more than the escrow's balance, and no less unless the
\* query cut a row off, up to the number's rounding for each row
\* (client.ts:257-298, EscrowHistory.tsx:24).  What reservations recycled is the
\* pool, and what each reservation consumed, gave back and recycled is what was
\* reserved, when it is closed.
CoarsestMon == CHOOSE u \in MonSpacings : \A v \in MonSpacings : v <= u
LockedIsThere(rows) ==
    LET shown == getEscrowActivity(CaughtUp, rows).totalLockedMon
        rounding == CoarsestMon * Cardinality(rows)
    IN  /\ shown <= escrowEther + rounding
        /\ rows = DOMAIN CaughtUp.escrows => escrowEther <= shown + rounding
ReservationAccounted(id) ==
    LET row == CaughtUp.reservations[id]
        parts == row.consumed + row.refunded + row.recycled
    IN  IF Vault!IsOpen(reservations[id])
        THEN parts = 0 /\ row.status = "RESERVED"
        ELSE parts = row.amount /\ row.status # "RESERVED"
RecycledOf(id) == CaughtUp.reservations[id].recycled
IndexAddsUp ==
    /\ \A rows \in GET_ESCROW_ACTIVITY(CaughtUp) : LockedIsThere(rows)
    /\ \A id \in DOMAIN CaughtUp.reservations : ReservationAccounted(id)
    /\ MapThenSumSet(RecycledOf, DOMAIN CaughtUp.reservations) = recyclablePool

=============================================================================
