--------------------------- MODULE RecoveryProofs ---------------------------
(***************************************************************************)
(* Proofs about executions of recovery plans, for any agents, objects,     *)
(* terms, plans and overlapping calls: one execution works on an object at *)
(* a time, and no plan takes effect twice.  Besides these two the          *)
(* inductive invariant says what the records of plans and calls have, that *)
(* a suspended execution works for a plan about the object it holds, and   *)
(* that what counts as executed is exactly remembered: not before, and     *)
(* from then on.                                                           *)
(***************************************************************************)
EXTENDS RecoveryScan, TLAPS

-----------------------------------------------------------------------------
(* The inductive invariant                                                 *)

\* The records, whatever is in their fields.
IsPlan(x) ==
    x = [object |-> x.object, owner |-> x.owner, strategy |-> x.strategy,
         quantity |-> x.quantity, expected |-> x.expected, buyer |-> x.buyer,
         status |-> x.status]
IsBuy(x) ==
    x = [op |-> "buy", at |-> x.at, result |-> x.result, buyer |-> x.buyer,
         whom |-> x.whom, seller |-> x.seller, object |-> x.object,
         amount |-> x.amount]
IsRecovery(x) ==
    x = [op |-> "recover", at |-> x.at, result |-> x.result, plan |-> x.plan,
         object |-> x.object, whom |-> x.whom]

CallsOK ==
    /\ DOMAIN calls = Calls
    /\ \A c \in Calls : \/ calls[c] \in {NoCall, Finished}
                        \/ IsBuy(calls[c]) \/ IsRecovery(calls[c])

PlansOK ==
    /\ DOMAIN plans = Plans
    /\ \A p \in Plans : plans[p] = NoPlan \/ IsPlan(plans[p])

\* A suspended execution: its plan is not executed, nor one like it.
WorksForPlan(c) ==
    LET p == calls[c].plan
    IN  /\ p \in Plans /\ plans[p] # NoPlan
        /\ calls[c].object = plans[p].object /\ Key(p) \notin executed

ExecutionsOK == \A c \in Executing : WorksForPlan(c)

ExecutedIsKnown ==
    \A p \in Plans : plans[p].status = "EXECUTED" => Key(p) \in executed

LocksInv == CallsOK /\ PlansOK /\ OneAtATime /\ ExecutionsOK
HistoryInv == ExecutedIsKnown /\ ExecutedOnce
RecoveryInv == LocksInv /\ HistoryInv

-----------------------------------------------------------------------------
(* Plans                                                                   *)

LEMMA StatusSet ==
    ASSUME PlansOK, NEW p \in Plans, plans[p] # NoPlan,
           NEW status \in {"EXECUTING", "EXECUTED", "REJECTED"},
           SetPlan(p, status)
    PROVE  /\ PlansOK'
           /\ plans'[p].status = status
           /\ \A q \in Plans \ {p} : plans'[q] = plans[q]
           /\ \A q \in Plans : /\ plans'[q].object = plans[q].object
                               /\ plans'[q].owner = plans[q].owner
                               /\ plans'[q].strategy = plans[q].strategy
                               /\ plans'[q].expected = plans[q].expected
                               /\ Key(q)' = Key(q)
                               /\ plans[q] # NoPlan => plans'[q] # NoPlan
<1> DEFINE new == [plans[p] EXCEPT !.status = status]
<1>1. IsPlan(plans[p])
    BY DEF PlansOK
<1>2. /\ IsPlan(new) /\ new.status = status
      /\ new.object = plans[p].object /\ new.strategy = plans[p].strategy
      /\ new.quantity = plans[p].quantity /\ new.owner = plans[p].owner
      /\ new.expected = plans[p].expected
    BY <1>1 DEF IsPlan
<1>3. plans' = [plans EXCEPT ![p] = new]
    BY DEF SetPlan
<1> HIDE DEF new
<1>4. /\ DOMAIN plans' = Plans /\ plans'[p] = new
      /\ \A q \in Plans \ {p} : plans'[q] = plans[q]
    BY <1>3 DEF PlansOK
<1>5. plans'[p] # NoPlan
    BY <1>2, <1>4 DEF NoPlan
<1>6. PlansOK'
    BY <1>2, <1>4 DEF PlansOK
<1>7. \A q \in Plans : /\ plans'[q].object = plans[q].object
                       /\ plans'[q].owner = plans[q].owner
                       /\ plans'[q].strategy = plans[q].strategy
                       /\ plans'[q].expected = plans[q].expected
                       /\ Key(q)' = Key(q)
    BY <1>2, <1>4 DEF Key
<1>8. QED
    BY <1>2, <1>4, <1>5, <1>6, <1>7

\* A plan that starts or fails.
LEMMA NothingIsExecuted ==
    ASSUME PlansOK, HistoryInv, NEW p \in Plans, plans[p] # NoPlan,
           NEW status \in {"EXECUTING", "REJECTED"}, SetPlan(p, status),
           UNCHANGED executed
    PROVE  HistoryInv'
<1>1. /\ plans'[p].status = status
      /\ \A q \in Plans \ {p} : plans'[q] = plans[q]
      /\ \A q \in Plans : Key(q)' = Key(q)
    BY StatusSet
<1>2. \A q \in Plans :
          plans'[q].status = "EXECUTED" => plans[q].status = "EXECUTED"
    BY <1>1
<1>3. QED
    BY <1>1, <1>2 DEF HistoryInv, ExecutedIsKnown, ExecutedOnce

\* A plan that is executed is none that was, nor like one that was.
LEMMA OneIsExecuted ==
    ASSUME PlansOK, HistoryInv, NEW p \in Plans, plans[p] # NoPlan,
           Key(p) \notin executed, SetPlan(p, "EXECUTED"), Remember(p)
    PROVE  HistoryInv'
<1>1. /\ \A q \in Plans \ {p} : plans'[q] = plans[q]
      /\ \A q \in Plans : Key(q)' = Key(q)
      /\ executed' = executed \cup {Key(p)}
    BY StatusSet DEF Remember
<1>2. \A q \in Plans \ {p} : plans'[q].status = "EXECUTED" =>
          Key(q) \in executed /\ Key(q) # Key(p)
    BY <1>1 DEF HistoryInv, ExecutedIsKnown
<1>3. ExecutedIsKnown'
    BY <1>1, <1>2 DEF ExecutedIsKnown
<1>4. ExecutedOnce'
    BY <1>1, <1>2 DEF HistoryInv, ExecutedOnce
<1>5. QED
    BY <1>3, <1>4 DEF HistoryInv

-----------------------------------------------------------------------------
(* Calls and locks                                                         *)

KeepsPlans ==
    \A q \in Plans : /\ plans'[q].object = plans[q].object
                     /\ Key(q)' = Key(q)
                     /\ plans[q] # NoPlan => plans'[q] # NoPlan

LEMMA CallChanges ==
    ASSUME CallsOK, NEW c \in Calls, NEW call, Suspend(c, call),
           call \in {NoCall, Finished} \/ IsBuy(call) \/ IsRecovery(call)
    PROVE  /\ CallsOK' /\ calls'[c] = call
           /\ \A d \in Calls \ {c} : calls'[d] = calls[d]
           /\ Executing' = IF call.op = "recover" THEN Executing \cup {c}
                           ELSE Executing \ {c}
<1>1. /\ DOMAIN calls' = Calls /\ calls'[c] = call
      /\ \A d \in Calls \ {c} : calls'[d] = calls[d]
    BY DEF CallsOK, Suspend
<1>2. CallsOK'
    BY <1>1 DEF CallsOK
<1>3. Executing' = IF call.op = "recover" THEN Executing \cup {c}
                   ELSE Executing \ {c}
    BY <1>1 DEF Executing
<1>4. QED
    BY <1>1, <1>2, <1>3

\* The same executions go on; one more key may be remembered, of an object
\* that none of them holds.
LEMMA SameExecutions ==
    ASSUME LocksInv, CallsOK', PlansOK', KeepsPlans, UNCHANGED inFlight,
           Executing' = Executing,
           \A c \in Executing : /\ calls'[c].object = calls[c].object
                                /\ calls'[c].plan = calls[c].plan,
           \/ executed' = executed
           \/ \E p \in Plans : executed' = executed \cup {Key(p)} /\ ~Locked(p)
    PROVE  LocksInv'
<1>1. OneAtATime'
    BY DEF LocksInv, OneAtATime
<1>2. ASSUME NEW c \in Executing
      PROVE  WorksForPlan(c)'
  <2>1. WorksForPlan(c)
    BY <1>2 DEF LocksInv, ExecutionsOK
  <2>2. calls[c].object \in inFlight
    BY <1>2 DEF LocksInv, OneAtATime
  <2>3. Key(calls[c].plan) \notin executed'
    <3>1. ASSUME NEW p \in Plans, executed' = executed \cup {Key(p)}, ~Locked(p)
          PROVE  Key(calls[c].plan) \notin executed'
      <4>1. plans[p].object # plans[calls[c].plan].object
        BY <2>1, <2>2, <3>1 DEF WorksForPlan, Locked
      <4>2. Key(p) # Key(calls[c].plan)
        BY <4>1 DEF Key
      <4>3. QED
        BY <2>1, <3>1, <4>2 DEF WorksForPlan
    <3>2. QED
      BY <2>1, <3>1 DEF WorksForPlan
  <2>4. Key(calls[c].plan)' = Key(calls[c].plan)
    BY <1>2, <2>1 DEF KeepsPlans, WorksForPlan, Key
  <2>5. QED
    BY <1>2, <2>1, <2>3, <2>4 DEF WorksForPlan, KeepsPlans
<1>3. QED
    BY <1>1, <1>2 DEF LocksInv, ExecutionsOK

LEMMA ExecutionStarts ==
    ASSUME LocksInv, PlansOK', KeepsPlans, UNCHANGED executed,
           NEW c \in Calls, calls[c] = NoCall, NEW p \in Plans,
           plans[p] # NoPlan, ~Locked(p), Key(p) \notin executed, Lock(p),
           NEW call, IsRecovery(call), Suspend(c, call),
           call.plan = p, call.object = plans[p].object
    PROVE  LocksInv'
<1>1. call.op = "recover"
    BY DEF IsRecovery
<1>2. /\ CallsOK' /\ calls'[c] = call
      /\ \A d \in Calls \ {c} : calls'[d] = calls[d]
      /\ Executing' = Executing \cup {c}
    BY <1>1, CallChanges DEF LocksInv
<1>3. c \notin Executing
    BY DEF Executing, NoCall
<1>4. \A d \in Executing : /\ d \in Calls \ {c} /\ calls'[d] = calls[d]
                           /\ calls[d].object # plans[p].object
    BY <1>2, <1>3 DEF Executing, LocksInv, OneAtATime, Locked
<1>5. inFlight' = inFlight \cup {plans[p].object}
    BY DEF Lock
<1>6. inFlight' = {calls'[d].object : d \in Executing'}
    BY <1>2, <1>4, <1>5 DEF LocksInv, OneAtATime
<1>7. OneAtATime'
    BY <1>2, <1>4, <1>6 DEF LocksInv, OneAtATime
<1>8. ASSUME NEW d \in Executing
      PROVE  WorksForPlan(d)'
  <2>1. WorksForPlan(d)
    BY <1>8 DEF LocksInv, ExecutionsOK
  <2>2. QED
    BY <1>4, <1>8, <2>1 DEF WorksForPlan, KeepsPlans, Key
<1>9. WorksForPlan(c)'
    BY <1>2 DEF WorksForPlan, KeepsPlans, Key
<1>10. QED
    BY <1>2, <1>7, <1>8, <1>9 DEF LocksInv, ExecutionsOK

\* An execution ends; its plan may be remembered.
LEMMA ExecutionEnds ==
    ASSUME LocksInv, PlansOK', KeepsPlans, NEW c \in Executing,
           Return(c), Unlock(calls[c].plan),
           executed' = executed \/ Remember(calls[c].plan)
    PROVE  LocksInv'
<1> DEFINE p == calls[c].plan
<1>1. c \in Calls /\ WorksForPlan(c)
    BY DEF Executing, LocksInv, ExecutionsOK
<1>2. Finished.op # "recover" /\ Suspend(c, Finished)
    BY DEF Finished, Return, Suspend
<1>3. /\ CallsOK'
      /\ \A d \in Calls \ {c} : calls'[d] = calls[d]
      /\ Executing' = Executing \ {c}
    BY <1>1, <1>2, CallChanges DEF LocksInv
<1>4. \A d \in Executing \ {c} : /\ calls'[d] = calls[d]
                                 /\ calls[d].object # calls[c].object
    BY <1>3 DEF Executing, LocksInv, OneAtATime
<1>5. inFlight' = inFlight \ {calls[c].object}
    BY <1>1 DEF Unlock, WorksForPlan
<1>6. inFlight' = {calls'[d].object : d \in Executing'}
    BY <1>3, <1>4, <1>5 DEF LocksInv, OneAtATime
<1>7. OneAtATime'
    BY <1>3, <1>4, <1>6 DEF LocksInv, OneAtATime
<1>8. ASSUME NEW d \in Executing \ {c}
      PROVE  WorksForPlan(d)'
  <2>1. WorksForPlan(d)
    BY <1>8 DEF LocksInv, ExecutionsOK
  <2>2. Key(calls[d].plan) # Key(p)
    BY <1>1, <1>4, <2>1 DEF WorksForPlan, Key
  <2>3. Key(calls[d].plan) \notin executed'
    BY <2>1, <2>2 DEF WorksForPlan, Remember
  <2>4. QED
    BY <1>4, <2>1, <2>3 DEF WorksForPlan, KeepsPlans, Key
<1>9. QED
    BY <1>3, <1>7, <1>8 DEF LocksInv, ExecutionsOK

\* Steps that are no recovery's: calls begin, wait, are answered and end.
LEMMA OtherCall ==
    ASSUME RecoveryInv, UNCHANGED <<plans, inFlight, executed>>,
           NEW c \in Calls, NEW call, Suspend(c, call),
           \/ calls[c].op # "recover" /\ (call = Finished \/ IsBuy(call))
           \/ /\ calls[c].op = "recover" /\ IsRecovery(call)
              /\ call.plan = calls[c].plan /\ call.object = calls[c].object
    PROVE  RecoveryInv'
<1>1. /\ IsBuy(call) => call.op = "buy"
      /\ IsRecovery(call) => call.op = "recover"
      /\ Finished.op = "none"
    BY DEF IsBuy, IsRecovery, Finished
<1>2. /\ CallsOK' /\ calls'[c] = call
      /\ \A d \in Calls \ {c} : calls'[d] = calls[d]
      /\ Executing' = Executing
    BY <1>1, CallChanges DEF RecoveryInv, LocksInv, Executing
<1>3. \A d \in Executing : /\ calls'[d].object = calls[d].object
                           /\ calls'[d].plan = calls[d].plan
    BY <1>1, <1>2 DEF Executing
<1>4. PlansOK' /\ KeepsPlans
    BY DEF RecoveryInv, LocksInv, PlansOK, KeepsPlans, Key
<1>5. LocksInv'
    BY <1>2, <1>3, <1>4, SameExecutions DEF RecoveryInv
<1>6. HistoryInv'
    BY DEF RecoveryInv, HistoryInv, ExecutedIsKnown, ExecutedOnce, Key
<1>7. QED
    BY <1>5, <1>6 DEF RecoveryInv

LEMMA NothingChanges ==
    ASSUME RecoveryInv, UNCHANGED <<calls, plans, inFlight, executed>>
    PROVE  RecoveryInv'
BY DEF RecoveryInv, LocksInv, CallsOK, PlansOK, OneAtATime, Executing,
   ExecutionsOK, WorksForPlan, HistoryInv, ExecutedIsKnown, ExecutedOnce, Key

\* What a call awaits and how it is answered leaves the rest of its record.
LEMMA AwaitSuspends ==
    ASSUME NEW c, NEW call, NEW place, NEW succeeds,
           Await(c, call, place, succeeds)
    PROVE  \E result : Suspend(c, Outcome(call, place, result))
BY DEF Await

LEMMA OutcomeKeeps ==
    ASSUME NEW call, NEW place, NEW result
    PROVE  /\ IsBuy(call) => IsBuy(Outcome(call, place, result))
           /\ IsRecovery(call) =>
                 /\ IsRecovery(Outcome(call, place, result))
                 /\ Outcome(call, place, result).plan = call.plan
                 /\ Outcome(call, place, result).object = call.object
<1> DEFINE new == Outcome(call, place, result)
<1>1. ASSUME IsBuy(call) PROVE IsBuy(new)
  <2>1. ASSUME NEW a, NEW r, NEW b, NEW w, NEW s, NEW o, NEW n,
               call = [op |-> "buy", at |-> a, result |-> r, buyer |-> b,
                       whom |-> w, seller |-> s, object |-> o, amount |-> n]
        PROVE  new = [op |-> "buy", at |-> place, result |-> result, buyer |-> b,
                      whom |-> w, seller |-> s, object |-> o, amount |-> n]
    <3> DEFINE waiting == [call EXCEPT !.at = place]
    <3>1. waiting = [op |-> "buy", at |-> place, result |-> r, buyer |-> b,
                     whom |-> w, seller |-> s, object |-> o, amount |-> n]
      BY <2>1
    <3>2. new = [waiting EXCEPT !.result = result]
      BY DEF Outcome
    <3> HIDE DEF waiting, new
    <3>3. QED
      BY <3>1, <3>2
  <2> HIDE DEF new
  <2>2. QED
    BY <1>1, <2>1 DEF IsBuy
<1>2. ASSUME IsRecovery(call)
      PROVE  IsRecovery(new) /\ new.plan = call.plan /\ new.object = call.object
  <2>1. ASSUME NEW a, NEW r, NEW p, NEW o, NEW w,
               call = [op |-> "recover", at |-> a, result |-> r, plan |-> p,
                       object |-> o, whom |-> w]
        PROVE  new = [op |-> "recover", at |-> place, result |-> result,
                      plan |-> p, object |-> o, whom |-> w]
    <3> DEFINE waiting == [call EXCEPT !.at = place]
    <3>1. waiting = [op |-> "recover", at |-> place, result |-> r, plan |-> p,
                     object |-> o, whom |-> w]
      BY <2>1
    <3>2. new = [waiting EXCEPT !.result = result]
      BY DEF Outcome
    <3> HIDE DEF waiting, new
    <3>3. QED
      BY <3>1, <3>2
  <2> HIDE DEF new
  <2>2. QED
    BY <1>2, <2>1 DEF IsRecovery
<1>3. QED
    BY <1>1, <1>2

-----------------------------------------------------------------------------
(* Steps                                                                   *)

\* What an execution that is handed in finds.
LEMMA StartFinds ==
    ASSUME RecoveryInv, NEW c \in Calls, NEW p \in Plans, Starts(c, p)
    PROVE  /\ calls[c] = NoCall /\ c \notin Executing
           /\ plans[p] # NoPlan /\ ~Locked(p) /\ Key(p) \notin executed
BY DEF Starts, IsNew, IsDuplicate, Executing, NoCall

\* An execution that ends before its first await.
LEMMA EndsAtOnce ==
    ASSUME RecoveryInv, NEW c \in Calls, NEW p \in Plans, Starts(c, p),
           Return(c), UNCHANGED inFlight,
           \/ /\ SetPlan(p, "EXECUTING") \/ SetPlan(p, "REJECTED")
              /\ UNCHANGED executed
           \/ SetPlan(p, "EXECUTED") /\ Remember(p)
    PROVE  RecoveryInv'
<1>1. /\ calls[c] = NoCall /\ c \notin Executing
      /\ plans[p] # NoPlan /\ ~Locked(p) /\ Key(p) \notin executed
    BY StartFinds
<1>2. PlansOK' /\ KeepsPlans
    BY <1>1, StatusSet DEF RecoveryInv, LocksInv, KeepsPlans
<1>3. HistoryInv'
    BY <1>1, NothingIsExecuted, OneIsExecuted DEF RecoveryInv, LocksInv
<1>4. Finished.op # "recover" /\ Suspend(c, Finished)
    BY DEF Finished, Return, Suspend
<1>5. /\ CallsOK' /\ \A d \in Calls \ {c} : calls'[d] = calls[d]
      /\ Executing' = Executing
    BY <1>1, <1>4, CallChanges DEF RecoveryInv, LocksInv
<1>6. \A d \in Executing : /\ calls'[d].object = calls[d].object
                           /\ calls'[d].plan = calls[d].plan
    BY <1>1, <1>5 DEF Executing
<1>7. LocksInv'
    BY <1>1, <1>2, <1>5, <1>6, SameExecutions DEF RecoveryInv, Remember
<1>8. QED
    BY <1>3, <1>7 DEF RecoveryInv

\* An execution that is suspended for the first time.
LEMMA StartsToWait ==
    ASSUME RecoveryInv, NEW c \in Calls, NEW p \in Plans, Starts(c, p),
           SetPlan(p, "EXECUTING"), Lock(p), UNCHANGED executed,
           NEW place, NEW succeeds, Await(c, recoverCall(p), place, succeeds)
    PROVE  RecoveryInv'
<1>1. /\ calls[c] = NoCall /\ plans[p] # NoPlan
      /\ ~Locked(p) /\ Key(p) \notin executed
    BY StartFinds
<1>2. PlansOK' /\ KeepsPlans
    BY <1>1, StatusSet DEF RecoveryInv, LocksInv, KeepsPlans
<1>3. HistoryInv'
    BY <1>1, NothingIsExecuted DEF RecoveryInv, LocksInv
<1>4. /\ IsRecovery(recoverCall(p)) /\ recoverCall(p).plan = p
      /\ recoverCall(p).object = plans[p].object
    BY DEF IsRecovery, recoverCall
<1>5. PICK result : Suspend(c, Outcome(recoverCall(p), place, result))
    BY AwaitSuspends
<1> DEFINE call == Outcome(recoverCall(p), place, result)
<1>6. /\ IsRecovery(call) /\ call.plan = p /\ call.object = plans[p].object
    BY <1>4, OutcomeKeeps
<1> HIDE DEF call
<1>7. Suspend(c, call)
    BY <1>5 DEF call
<1>8. LocksInv'
    BY <1>1, <1>2, <1>6, <1>7, ExecutionStarts DEF RecoveryInv
<1>9. QED
    BY <1>3, <1>8 DEF RecoveryInv

LEMMA ExecutePlanKeeps ==
    ASSUME RecoveryInv, NEW c \in Calls, NEW p \in Plans, NEW approved,
           executePlan(c, p, approved)
    PROVE  RecoveryInv'
<1>1. CASE Declined(c, p)
  <2>1. /\ calls[c] = NoCall /\ Return(c)
        /\ UNCHANGED <<plans, inFlight, executed>>
    BY <1>1 DEF Declined, IsNew, planVars
  <2>2. calls[c].op # "recover" /\ Suspend(c, Finished)
    BY <2>1 DEF NoCall, Return, Suspend
  <2>3. QED
    BY <2>1, <2>2, OtherCall
<1>2. CASE RejectPlan(c, p, approved)
    BY <1>2, EndsAtOnce DEF RejectPlan
<1>3. CASE ExecuteKeep(c, p, approved)
    BY <1>3, EndsAtOnce DEF ExecuteKeep, Runs
<1>4. CASE ExecuteRefund(c, p, approved)
    BY <1>4, EndsAtOnce DEF ExecuteRefund, Runs
<1>5. CASE StartListing(c, p, approved)
  <2>1. PICK place, succeeds : Await(c, recoverCall(p), place, succeeds)
    BY <1>5 DEF StartListing, listEconomicObject
  <2>2. QED
    BY <1>5, <2>1, StartsToWait DEF StartListing, Runs
<1>6. CASE StartBuyout(c, p, approved)
  <2>1. PICK place, succeeds : Await(c, recoverCall(p), place, succeeds)
    BY <1>6 DEF StartBuyout, transfer
  <2>2. QED
    BY <1>6, <2>1, StartsToWait DEF StartBuyout, Runs
<1>7. QED
    BY <1>1, <1>2, <1>3, <1>4, <1>5, <1>6 DEF executePlan

LEMMA ResumesKeeps ==
    ASSUME RecoveryInv, NEW c \in Calls, RecoveryResumes(c)
    PROVE  RecoveryInv'
<1> DEFINE p == calls[c].plan
<1>1. c \in Executing
    BY DEF RecoveryResumes, RecoveryFails, FinishListing, ContinueBuyout,
       FinishBuyout, IsRecovering, IsAt, Executing
<1>2. p \in Plans /\ plans[p] # NoPlan /\ Key(p) \notin executed
    BY <1>1 DEF RecoveryInv, LocksInv, ExecutionsOK, WorksForPlan
<1>3. ASSUME Return(c), Unlock(p),
             \/ SetPlan(p, "REJECTED") /\ UNCHANGED executed
             \/ SetPlan(p, "EXECUTED") /\ Remember(p)
      PROVE  RecoveryInv'
  <2>1. PlansOK' /\ KeepsPlans
    BY <1>2, <1>3, StatusSet DEF RecoveryInv, LocksInv, KeepsPlans
  <2>2. HistoryInv'
    BY <1>2, <1>3, NothingIsExecuted, OneIsExecuted DEF RecoveryInv, LocksInv
  <2>3. LocksInv'
    BY <1>1, <1>3, <2>1, ExecutionEnds DEF RecoveryInv
  <2>4. QED
    BY <2>2, <2>3 DEF RecoveryInv
<1>4. CASE RecoveryFails(c)
    BY <1>3, <1>4 DEF RecoveryFails
<1>5. CASE FinishListing(c)
    BY <1>3, <1>5 DEF FinishListing
<1>6. CASE FinishBuyout(c)
    BY <1>3, <1>6 DEF FinishBuyout
<1>7. CASE ContinueBuyout(c)
  <2>1. UNCHANGED <<plans, inFlight, executed>>
    BY <1>7 DEF ContinueBuyout, planVars
  <2>2. PICK place, succeeds : Await(c, calls[c], place, succeeds)
    BY <1>7 DEF ContinueBuyout, transferEconomicObject
  <2>3. PICK result : Suspend(c, Outcome(calls[c], place, result))
    BY <2>2, AwaitSuspends
  <2>4. c \in Calls /\ calls[c].op = "recover" /\ IsRecovery(calls[c])
    BY <1>1 DEF RecoveryInv, LocksInv, CallsOK, Executing, NoCall, Finished,
       IsBuy
  <2> DEFINE call == Outcome(calls[c], place, result)
  <2>5. IsRecovery(call) /\ call.plan = calls[c].plan
        /\ call.object = calls[c].object
    BY <2>4, OutcomeKeeps
  <2> HIDE DEF call
  <2>6. Suspend(c, call)
    BY <2>3 DEF call
  <2>7. QED
    BY <2>1, <2>4, <2>5, <2>6, OtherCall
<1>8. QED
    BY <1>4, <1>5, <1>6, <1>7 DEF RecoveryResumes

\* A new proposal is executed by nobody.
LEMMA PlanKeeps ==
    ASSUME RecoveryInv, NEW p \in Plans, NEW o \in Objects, plan(p, o)
    PROVE  RecoveryInv'
<1>1. /\ plans[p] = NoPlan
      /\ UNCHANGED <<calls, inFlight, executed>>
    BY DEF plan
<1>2. PICK buyer \in AgentIds :
          plans' = [plans EXCEPT ![p] =
              [object |-> o, owner |-> objects[o].owner,
               strategy |-> Recommended(o), quantity |-> Surplus(o),
               expected |-> Valuation(o, Recommended(o)),
               buyer |-> buyer, status |-> "PROPOSED"]]
    BY DEF plan
<1> DEFINE new == [object |-> o, owner |-> objects[o].owner,
                   strategy |-> Recommended(o), quantity |-> Surplus(o),
                   expected |-> Valuation(o, Recommended(o)),
                   buyer |-> buyer, status |-> "PROPOSED"]
<1>3. IsPlan(new) /\ new.status = "PROPOSED"
    BY DEF IsPlan
<1> HIDE DEF new
<1>4. /\ DOMAIN plans' = Plans /\ plans'[p] = new
      /\ \A q \in Plans \ {p} : plans'[q] = plans[q]
    BY <1>2 DEF RecoveryInv, LocksInv, PlansOK, new
<1>5. PlansOK'
    BY <1>3, <1>4 DEF RecoveryInv, LocksInv, PlansOK
<1>6. ExecutionsOK'
  <2>1. ASSUME NEW c \in Executing PROVE WorksForPlan(c)'
    <3>1. WorksForPlan(c) /\ calls[c].plan # p
      BY <1>1, <2>1 DEF RecoveryInv, LocksInv, ExecutionsOK, WorksForPlan
    <3>2. plans'[calls[c].plan] = plans[calls[c].plan]
      BY <1>4, <3>1 DEF WorksForPlan
    <3>3. QED
      BY <1>1, <3>1, <3>2 DEF WorksForPlan, Key
  <2>2. Executing' = Executing
    BY <1>1 DEF Executing
  <2>3. QED
    BY <2>1, <2>2 DEF ExecutionsOK
<1>7. CallsOK' /\ OneAtATime'
    BY <1>1 DEF RecoveryInv, LocksInv, CallsOK, OneAtATime, Executing
<1>8. \A q \in Plans : plans'[q].status = "EXECUTED" =>
          /\ plans[q].status = "EXECUTED" /\ Key(q)' = Key(q)
    BY <1>3, <1>4 DEF Key
<1>9. HistoryInv'
    BY <1>1, <1>8 DEF RecoveryInv, HistoryInv, ExecutedIsKnown, ExecutedOnce
<1>10. QED
    BY <1>5, <1>6, <1>7, <1>9 DEF RecoveryInv, LocksInv

LEMMA BuyCallKeeps ==
    ASSUME RecoveryInv, UNCHANGED <<plans, inFlight, executed>>,
           NEW c \in Calls, calls[c].op # "recover",
           \/ Return(c)
           \/ \E call, place, succeeds :
                 IsBuy(call) /\ Await(c, call, place, succeeds)
    PROVE  RecoveryInv'
<1>1. CASE Return(c)
  <2>1. Suspend(c, Finished)
    BY <1>1 DEF Return, Suspend
  <2>2. QED
    BY <2>1, OtherCall
<1>2. ASSUME NEW call, NEW place, NEW succeeds, IsBuy(call),
             Await(c, call, place, succeeds)
      PROVE  RecoveryInv'
  <2>1. PICK result : Suspend(c, Outcome(call, place, result))
    BY <1>2, AwaitSuspends
  <2>2. IsBuy(Outcome(call, place, result))
    BY <1>2, OutcomeKeeps
  <2>3. QED
    BY <2>1, <2>2, OtherCall
<1>3. QED
    BY <1>1, <1>2

LEMMA PurchaseKeeps ==
    ASSUME RecoveryInv, UNCHANGED planVars, NEW c \in Calls,
           Purchase(c) \/ BuyResumes(c)
    PROVE  RecoveryInv'
<1>1. UNCHANGED <<plans, inFlight, executed>>
    BY DEF planVars
<1>2. ASSUME NEW buyer, NEW seller, NEW o, NEW price,
             buy(c, buyer, seller, o, price)
      PROVE  RecoveryInv'
  <2> DEFINE call == buyCall(buyer, seller, o, price)
  <2>1. IsBuy(call)
    BY DEF buyCall, IsBuy
  <2> HIDE DEF call
  <2>2. calls[c].op # "recover"
    BY <1>2 DEF buy, IsNew, NoCall
  <2>3. \/ Return(c)
        \/ \E place, succeeds : Await(c, call, place, succeeds)
    BY <1>2 DEF buy, transfer, call
  <2>4. QED
    BY <1>1, <2>1, <2>2, <2>3, BuyCallKeeps
<1>3. CASE BuyFails(c) \/ BuySettles(c)
  <2>1. calls[c].op # "recover" /\ Return(c)
    BY <1>3 DEF BuyFails, BuySettles, IsAt
  <2>2. QED
    BY <1>1, <2>1, BuyCallKeeps
<1>4. CASE BuyDelivers(c)
  <2>1. calls[c].op = "buy" /\ \E place, succeeds : Await(c, calls[c], place, succeeds)
    BY <1>4 DEF BuyDelivers, IsAt, transferEconomicObject
  <2>2. IsBuy(calls[c])
    BY <2>1 DEF RecoveryInv, LocksInv, CallsOK, NoCall, Finished, IsRecovery
  <2>3. QED
    BY <1>1, <2>1, <2>2, BuyCallKeeps
<1>5. QED
    BY <1>2, <1>3, <1>4 DEF Purchase, BuyResumes

LEMMA AnswerKeeps ==
    ASSUME RecoveryInv, UNCHANGED planVars, NEW c \in Calls,
           Mined(c) \/ NotMined(c)
    PROVE  RecoveryInv'
<1>1. UNCHANGED <<plans, inFlight, executed>>
    BY DEF planVars
<1>2. PICK result : AnswerWith(c, result)
    BY DEF Mined, NotMined
<1>3. calls[c] \notin {NoCall, Finished}
    BY DEF Mined, NotMined, NoCall, Finished
<1> DEFINE call == [calls[c] EXCEPT !.result = result]
<1>4. Suspend(c, call)
    BY <1>2 DEF AnswerWith, Suspend
<1>5. CASE IsBuy(calls[c])
  <2>1. IsBuy(call) /\ calls[c].op # "recover"
    BY <1>5 DEF IsBuy
  <2>2. QED
    BY <1>1, <1>4, <2>1, OtherCall
<1>6. CASE IsRecovery(calls[c])
  <2>1. /\ IsRecovery(call) /\ calls[c].op = "recover"
        /\ call.plan = calls[c].plan /\ call.object = calls[c].object
    BY <1>6 DEF IsRecovery
  <2>2. QED
    BY <1>1, <1>4, <2>1, OtherCall
<1>7. QED
    BY <1>3, <1>5, <1>6 DEF RecoveryInv, LocksInv, CallsOK

LEMMA RecoveryInvStep ==
    RecoveryInv /\ [RecoveryNext]_recoveryVars => RecoveryInv'
<1> SUFFICES ASSUME RecoveryInv, [RecoveryNext]_recoveryVars
             PROVE  RecoveryInv'
    OBVIOUS
<1>1. CASE UNCHANGED recoveryVars
    BY <1>1, NothingChanges DEF recoveryVars, planVars
<1>2. ASSUME NEW owners, scan(owners) PROVE RecoveryInv'
    BY <1>2, NothingChanges DEF scan, planVars
<1>3. ASSUME NEW p \in Plans, NEW o \in Objects, plan(p, o) PROVE RecoveryInv'
    BY <1>3, PlanKeeps
<1>4. ASSUME NEW c \in Calls, NEW p \in Plans, NEW approved \in Approvals,
             executePlan(c, p, approved)
      PROVE  RecoveryInv'
    BY <1>4, ExecutePlanKeeps
<1>5. ASSUME NEW c \in Calls, Resumes(c) PROVE RecoveryInv'
    BY <1>5, ResumesKeeps, PurchaseKeeps DEF Resumes
<1>6. ASSUME NEW a \in Registered, setActive(a) PROVE RecoveryInv'
    BY <1>6, NothingChanges DEF setActive
<1>7. ASSUME NEW l \in Calls, NEW buyer \in Registered,
             buyEconomicObject(l, buyer),
             UNCHANGED <<plans, inFlight, executed, planOf>>
      PROVE  RecoveryInv'
    BY <1>7, NothingChanges DEF buyEconomicObject
<1>8. ASSUME UNCHANGED planVars, NEW c \in Calls,
             Purchase(c) \/ Mined(c) \/ NotMined(c)
      PROVE  RecoveryInv'
    BY <1>8, PurchaseKeeps, AnswerKeeps
<1>9. ASSUME UNCHANGED planVars, setSettlementAdapter \/ TimePasses
      PROVE  RecoveryInv'
    BY <1>9, NothingChanges DEF setSettlementAdapter, TimePasses, planVars
<1>10. QED
    BY <1>1, <1>2, <1>3, <1>4, <1>5, <1>6, <1>7, <1>8, <1>9 DEF RecoveryNext

LEMMA RecoveryInvInit == RecoveryInit => RecoveryInv
<1> SUFFICES ASSUME RecoveryInit PROVE RecoveryInv
    OBVIOUS
<1>1. /\ calls = [c \in Calls |-> NoCall] /\ plans = [p \in Plans |-> NoPlan]
      /\ inFlight = {} /\ executed = {}
    BY DEF RecoveryInit, StoreInit
<1>2. Executing = {} /\ CallsOK
    BY <1>1 DEF Executing, NoCall, CallsOK
<1>3. PlansOK /\ HistoryInv
    BY <1>1 DEF PlansOK, HistoryInv, ExecutedIsKnown, ExecutedOnce, NoPlan
<1>4. QED
    BY <1>1, <1>2, <1>3
       DEF RecoveryInv, LocksInv, OneAtATime, ExecutionsOK

\* Two executions never work on one object at a time, and what is locked is
\* what suspended executions work on, for any plans, however often they are
\* handed in (RecoveryExecutionService.ts:46-68, :330).
THEOREM OneExecutionAtATime == RecoverySpec => []OneAtATime
<1>1. RecoveryInv => OneAtATime
    BY DEF RecoveryInv, LocksInv
<1>2. QED
    BY <1>1, RecoveryInvInit, RecoveryInvStep, PTL DEF RecoverySpec

\* Of plans for the same object, strategy and quantity one is executed
\* (RecoveryExecutionService.ts:51-53).
THEOREM PlansExecuteOnce == RecoverySpec => []ExecutedOnce
<1>1. RecoveryInv => ExecutedOnce
    BY DEF RecoveryInv, HistoryInv
<1>2. QED
    BY <1>1, RecoveryInvInit, RecoveryInvStep, PTL DEF RecoverySpec

-----------------------------------------------------------------------------
(* What was paid                                                           *)

\* Whoever pays for a plan: a refund is paid when it is reported, by a call
\* that is over.
PaidOK(c) ==
    LET p == planOf[c]
    IN  p # 0 =>
          /\ p \in Plans /\ plans[p] # NoPlan
          /\ plans[p].strategy \in {"REFUND", "TRANSFER"}
          /\ plans[p].strategy = "REFUND" =>
                /\ plans[p].status = "EXECUTED"
                /\ payments[c] = 1 /\ calls[c] = Finished

\* A suspended execution sells or buys out as its plan says; a buyer who has
\* an answer to wait for besides that of the payment has paid.
RecoversOK(c) ==
    LET call == calls[c]
    IN  call.op = "recover" =>
          /\ call.at = "listing" => plans[call.plan].strategy = "SELL"
          /\ call.at \in {"paying", "moving"} =>
                /\ planOf[c] = call.plan
                /\ plans[call.plan].strategy = "TRANSFER"
          /\ \/ call.at = "moving"
             \/ call.at = "paying" /\ call.result = "ok"
             => payments[c] > 0

UnusedOK(c) == calls[c] = NoCall => planOf[c] = 0 /\ payments[c] = 0

ReportOK(p) ==
    plans[p].status = "EXECUTED" =>
        /\ plans[p].strategy \in Strategies
        /\ plans[p].strategy \in {"REFUND", "TRANSFER"} =>
              \E c \in Calls : planOf[c] = p /\ payments[c] > 0

RefundsOnce ==
    \A c, d \in Calls :
        /\ planOf[c] # 0 /\ planOf[c] = planOf[d]
        /\ plans[planOf[c]].strategy = "REFUND"
        => c = d

PaidInv ==
    /\ payments \in [Calls -> Nat] /\ DOMAIN planOf = Calls
    /\ \A c \in Calls : PaidOK(c) /\ RecoversOK(c) /\ UnusedOK(c)
    /\ \A p \in Plans : ReportOK(p)
    /\ RefundsOnce

\* What a step is that works for one call: the records of the others, what
\* plans are about and what was executed stay.
OnlyCall(c) ==
    /\ DOMAIN calls' = Calls /\ \A d \in Calls \ {c} : calls'[d] = calls[d]
    /\ payments' \in [Calls -> Nat]
    /\ \A d \in Calls \ {c} : payments'[d] = payments[d]
    /\ payments'[c] >= payments[c]
    /\ DOMAIN planOf' = Calls /\ \A d \in Calls \ {c} : planOf'[d] = planOf[d]
    /\ planOf'[c] = planOf[c] \/ planOf[c] = 0
KeepsStrategies ==
    \A q \in Plans : plans[q] # NoPlan =>
        /\ plans'[q] # NoPlan /\ plans'[q].strategy = plans[q].strategy
        /\ plans[q].status = "EXECUTED" => plans'[q].status = "EXECUTED"

LEMMA PaidStep ==
    ASSUME PaidInv, ExecutionsOK, NEW c \in Calls, OnlyCall(c), KeepsStrategies,
           PaidOK(c)', RecoversOK(c)', UnusedOK(c)',
           \A p \in Plans : plans[p].status # "EXECUTED" => ReportOK(p)',
           \A d \in Calls \ {c} :
              planOf'[c] # 0 /\ planOf'[d] = planOf'[c]
              => plans'[planOf'[c]].strategy # "REFUND"
    PROVE  PaidInv'
<1>1. ASSUME NEW d \in Calls \ {c}
      PROVE  PaidOK(d)' /\ RecoversOK(d)' /\ UnusedOK(d)'
  <2>1. /\ calls'[d] = calls[d] /\ payments'[d] = payments[d]
        /\ planOf'[d] = planOf[d]
    BY DEF OnlyCall
  <2>2. PaidOK(d) /\ RecoversOK(d) /\ UnusedOK(d)
    BY DEF PaidInv
  <2>3. PaidOK(d)'
    BY <2>1, <2>2 DEF PaidOK, KeepsStrategies
  <2>4. RecoversOK(d)'
    <3>1. SUFFICES ASSUME calls[d].op = "recover"
                   PROVE  plans'[calls[d].plan].strategy
                          = plans[calls[d].plan].strategy
      BY <2>1, <2>2 DEF RecoversOK
    <3>2. WorksForPlan(d)
      BY <3>1 DEF ExecutionsOK, Executing
    <3>3. QED
      BY <3>2 DEF WorksForPlan, KeepsStrategies
  <2>5. QED
    BY <2>1, <2>2, <2>3, <2>4 DEF UnusedOK
<1>2. ASSUME NEW p \in Plans, plans[p].status = "EXECUTED"
      PROVE  ReportOK(p)'
  <2>1. plans[p] # NoPlan
    BY <1>2 DEF NoPlan
  <2>2. plans'[p].strategy = plans[p].strategy /\ ReportOK(p)
    BY <2>1 DEF KeepsStrategies, PaidInv
  <2>3. \A d \in Calls : planOf[d] = p /\ payments[d] > 0 =>
                         planOf'[d] = p /\ payments'[d] > 0
    <3>1. TAKE d \in Calls
    <3>2. payments[d] \in Nat /\ payments'[d] \in Nat
      BY DEF PaidInv, OnlyCall
    <3>3. p # 0
      BY DEF Plans
    <3>4. QED
      BY <3>2, <3>3 DEF OnlyCall
  <2>4. QED
    BY <1>2, <2>2, <2>3 DEF ReportOK
<1>3. RefundsOnce'
  <2>1. SUFFICES ASSUME NEW d \in Calls, NEW e \in Calls,
                        planOf'[d] # 0, planOf'[d] = planOf'[e], d # e,
                        plans'[planOf'[d]].strategy = "REFUND"
                 PROVE  FALSE
    BY DEF RefundsOnce
  <2>2. d # c /\ e # c
    BY <2>1
  <2>3. planOf[d] = planOf'[d] /\ planOf[e] = planOf'[e]
    BY <2>2 DEF OnlyCall
  <2>4. planOf[d] \in Plans /\ plans[planOf[d]] # NoPlan
    BY <2>1, <2>3 DEF PaidInv, PaidOK
  <2>5. plans[planOf[d]].strategy = "REFUND"
    BY <2>1, <2>3, <2>4 DEF KeepsStrategies
  <2>6. QED
    BY <2>1, <2>3, <2>5 DEF PaidInv, RefundsOnce
<1>4. \A d \in Calls : PaidOK(d)' /\ RecoversOK(d)' /\ UnusedOK(d)'
    BY <1>1
<1>5. \A p \in Plans : ReportOK(p)'
    BY <1>2
<1>6. payments' \in [Calls -> Nat] /\ DOMAIN planOf' = Calls
    BY DEF OnlyCall
<1>7. QED
    BY <1>3, <1>4, <1>5, <1>6 DEF PaidInv

\* Of these, steps that leave the plans alone and begin no work for one.
LEMMA PaidCallStep ==
    ASSUME PaidInv, ExecutionsOK, NEW c \in Calls, OnlyCall(c),
           UNCHANGED <<plans, planOf>>,
           calls[c] # Finished, calls'[c] # NoCall, RecoversOK(c)'
    PROVE  PaidInv'
<1>1. PaidOK(c)' /\ UnusedOK(c)' /\ KeepsStrategies
    BY DEF PaidInv, PaidOK, UnusedOK, KeepsStrategies
<1>2. \A p \in Plans : plans[p].status # "EXECUTED" => ReportOK(p)'
    BY DEF ReportOK
<1>3. \A d \in Calls \ {c} :
          planOf'[c] # 0 /\ planOf'[d] = planOf'[c]
          => plans'[planOf'[c]].strategy # "REFUND"
  <2>1. planOf[c] # 0 => plans[planOf[c]].strategy # "REFUND"
    BY DEF PaidInv, PaidOK
  <2>2. QED
    BY <2>1
<1>4. QED
    BY <1>1, <1>2, <1>3, PaidStep

LEMMA NothingPaid ==
    ASSUME PaidInv, UNCHANGED <<calls, plans, payments, planOf>>
    PROVE  PaidInv'
BY DEF PaidInv, PaidOK, RecoversOK, UnusedOK, ReportOK, RefundsOnce

\* And steps that end or begin work for a plan that was not executed.
LEMMA PaidPlanStep ==
    ASSUME RecoveryInv, PaidInv, NEW c \in Calls, OnlyCall(c),
           calls[c] # Finished, calls'[c] # NoCall, RecoversOK(c)',
           NEW p \in Plans, plans[p] # NoPlan, Key(p) \notin executed,
           NEW status \in {"EXECUTING", "EXECUTED", "REJECTED"},
           SetPlan(p, status),
           \/ planOf'[c] = planOf[c]
           \/ /\ planOf'[c] = p
              /\ plans[p].strategy \in {"REFUND", "TRANSFER"}
              /\ plans[p].strategy = "REFUND" =>
                    /\ status = "EXECUTED"
                    /\ payments'[c] = 1 /\ calls'[c] = Finished,
           status = "EXECUTED" =>
              /\ plans[p].strategy \in Strategies
              /\ plans[p].strategy \in {"REFUND", "TRANSFER"} =>
                    planOf'[c] = p /\ payments'[c] > 0
    PROVE  PaidInv'
<1>1. /\ PlansOK' /\ plans'[p].status = status
      /\ \A q \in Plans \ {p} : plans'[q] = plans[q]
      /\ \A q \in Plans : /\ Key(q)' = Key(q)
                          /\ plans[q] # NoPlan => plans'[q] # NoPlan
    BY StatusSet DEF RecoveryInv, LocksInv
<1>2. plans[p].status # "EXECUTED"
    BY DEF RecoveryInv, HistoryInv, ExecutedIsKnown
<1>3. \A q \in Plans : plans'[q].strategy = plans[q].strategy
    BY <1>1 DEF Key
<1>4. KeepsStrategies
    BY <1>1, <1>2, <1>3 DEF KeepsStrategies
<1>5. \A q \in Plans : plans[q].status # "EXECUTED" => ReportOK(q)'
    BY <1>1, <1>3 DEF ReportOK
<1>6. PaidOK(c)'
  <2>1. CASE planOf'[c] = planOf[c]
    <3>1. PaidOK(c)
      BY DEF PaidInv
    <3>2. QED
      BY <2>1, <3>1, <1>1, <1>3 DEF PaidOK
  <2>2. CASE planOf'[c] # planOf[c]
    BY <2>2, <1>1, <1>3 DEF PaidOK
  <2>3. QED
    BY <2>1, <2>2
<1>7. ASSUME NEW d \in Calls \ {c}, planOf'[c] # 0, planOf'[d] = planOf'[c]
      PROVE  plans'[planOf'[c]].strategy # "REFUND"
  <2>1. planOf'[d] = planOf[d] /\ PaidOK(c) /\ PaidOK(d)
    BY DEF OnlyCall, PaidInv
  <2>2. CASE planOf'[c] = planOf[c]
    BY <1>3, <1>7, <2>1, <2>2 DEF PaidOK
  <2>3. CASE planOf'[c] # planOf[c]
    BY <1>2, <1>3, <1>7, <2>1, <2>3 DEF PaidOK
  <2>4. QED
    BY <2>2, <2>3
<1>8. UnusedOK(c)' /\ ExecutionsOK
    BY DEF UnusedOK, RecoveryInv, LocksInv
<1>9. QED
    BY <1>4, <1>5, <1>6, <1>7, <1>8, PaidStep

\* What an answer leaves in the record of a call.
LEMMA OutcomeIs ==
    ASSUME NEW call, IsBuy(call) \/ IsRecovery(call), NEW place, NEW result
    PROVE  /\ Outcome(call, place, result).at = place
           /\ Outcome(call, place, result).result = result
           /\ Outcome(call, place, result).op = call.op
           /\ Outcome(call, place, result) # NoCall
<1> DEFINE new == Outcome(call, place, result)
           waiting == [call EXCEPT !.at = place]
<1>1. call = [call EXCEPT !.op = call.op] /\ call.op \in {"buy", "recover"}
  <2>1. CASE IsBuy(call)
      BY <2>1 DEF IsBuy
  <2>2. CASE IsRecovery(call)
      BY <2>2 DEF IsRecovery
  <2>3. QED
      BY <2>1, <2>2
<1>2. {"op", "at", "result"} \subseteq DOMAIN call
    BY DEF IsBuy, IsRecovery
<1>3. new = [waiting EXCEPT !.result = result]
    BY DEF Outcome
<1>4. new.at = place /\ new.result = result /\ new.op = call.op
    BY <1>2, <1>3
<1>5. QED
    BY <1>1, <1>4 DEF NoCall

\* A transfer that succeeds is a payment for the call.
LEMMA TransferPays ==
    ASSUME payments \in [Calls -> Nat], NEW c \in Calls, NEW call, NEW place,
           NEW from, NEW to, NEW amount,
           transfer(c, call, place, from, to, amount)
    PROVE  /\ payments' \in [Calls -> Nat]
           /\ \A d \in Calls \ {c} : payments'[d] = payments[d]
           /\ payments'[c] >= payments[c]
           /\ \E result : /\ Suspend(c, Outcome(call, place, result))
                          /\ result = "ok" => payments'[c] > 0
<1> DEFINE succeeds == CanTransfer(from, to, amount)
<1>1. /\ Await(c, call, place, succeeds)
      /\ IF IsLocal /\ succeeds
         THEN payments' = [payments EXCEPT ![c] = @ + 1]
         ELSE payments' = payments
    BY DEF transfer
<1> HIDE DEF succeeds
<1>2. /\ payments' \in [Calls -> Nat]
      /\ \A d \in Calls \ {c} : payments'[d] = payments[d]
      /\ payments'[c] >= payments[c]
      /\ IsLocal /\ succeeds => payments'[c] > 0
    BY <1>1
<1>3. PICK result : /\ Suspend(c, Outcome(call, place, result))
                    /\ result = "ok" => IsLocal /\ succeeds
  <2>1. CASE IsLocal
      BY <1>1, <2>1 DEF Await
  <2>2. CASE ~IsLocal
      BY <1>1, <2>2 DEF Await
  <2>3. QED
      BY <2>1, <2>2
<1>4. QED
    BY <1>2, <1>3

LEMMA PaidExecutePlan ==
    ASSUME RecoveryInv, PaidInv, NEW c \in Calls, NEW p \in Plans,
           NEW approved, executePlan(c, p, approved)
    PROVE  PaidInv'
<1>1. /\ calls[c] = NoCall /\ calls[c] # Finished /\ Finished # NoCall
      /\ DOMAIN calls = Calls /\ ExecutionsOK
      /\ payments \in [Calls -> Nat] /\ DOMAIN planOf = Calls
      /\ planOf[c] = 0 /\ payments[c] = 0
  <2>1. calls[c] = NoCall
    BY DEF executePlan, Declined, RejectPlan, ExecuteKeep, ExecuteRefund,
       StartListing, StartBuyout, Runs, Starts, IsNew
  <2>2. NoCall # Finished
    BY DEF NoCall, Finished
  <2>3. QED
    BY <2>1, <2>2 DEF RecoveryInv, LocksInv, CallsOK, PaidInv, UnusedOK
<1>2. ASSUME Return(c)
      PROVE  /\ DOMAIN calls' = Calls /\ calls'[c] = Finished
             /\ \A d \in Calls \ {c} : calls'[d] = calls[d]
             /\ RecoversOK(c)'
  <2>1. /\ DOMAIN calls' = Calls /\ calls'[c] = Finished
        /\ \A d \in Calls \ {c} : calls'[d] = calls[d]
    BY <1>1, <1>2 DEF Return
  <2>2. Finished.op # "recover"
    BY DEF Finished
  <2>3. QED
    BY <2>1, <2>2 DEF RecoversOK
<1>3. CASE Declined(c, p)
  <2>1. OnlyCall(c) /\ UNCHANGED <<plans, planOf>> /\ calls'[c] = Finished
        /\ RecoversOK(c)'
    BY <1>1, <1>2, <1>3 DEF Declined, OnlyCall, settleVars, planVars
  <2>2. QED
    BY <1>1, <2>1, PaidCallStep
<1>4. CASE RejectPlan(c, p, approved)
  <2>1. /\ OnlyCall(c) /\ RecoversOK(c)' /\ calls'[c] = Finished
        /\ UNCHANGED planOf /\ SetPlan(p, "REJECTED") /\ Starts(c, p)
    BY <1>1, <1>2, <1>4 DEF RejectPlan, OnlyCall, settleVars
  <2>2. QED
    BY <1>1, <2>1, StartFinds, PaidPlanStep
<1>5. CASE ExecuteKeep(c, p, approved)
  <2>1. /\ OnlyCall(c) /\ RecoversOK(c)' /\ calls'[c] = Finished
        /\ UNCHANGED planOf /\ SetPlan(p, "EXECUTED") /\ Starts(c, p)
        /\ plans[p].strategy = "KEEP"
    BY <1>1, <1>2, <1>5 DEF ExecuteKeep, Runs, OnlyCall, settleVars
  <2>2. QED
    BY <1>1, <2>1, StartFinds, PaidPlanStep DEF Strategies
<1>6. CASE ExecuteRefund(c, p, approved)
  <2>1. /\ payments' = [payments EXCEPT ![c] = @ + 1]
        /\ planOf' = [planOf EXCEPT ![c] = p]
        /\ SetPlan(p, "EXECUTED") /\ Starts(c, p) /\ Return(c)
        /\ plans[p].strategy = "REFUND"
    BY <1>6 DEF ExecuteRefund, Runs, PaysFor
  <2>2. payments' \in [Calls -> Nat] /\ payments'[c] = 1 /\ planOf'[c] = p
    BY <1>1, <2>1
  <2>3. OnlyCall(c)
    BY <1>1, <1>2, <2>1, <2>2 DEF OnlyCall
  <2>4. QED
    BY <1>1, <1>2, <2>1, <2>2, <2>3, StartFinds, PaidPlanStep DEF Strategies
<1>7. ASSUME NEW place, NEW result,
             Suspend(c, Outcome(recoverCall(p), place, result))
      PROVE  /\ DOMAIN calls' = Calls /\ calls'[c] # NoCall
             /\ \A d \in Calls \ {c} : calls'[d] = calls[d]
             /\ calls'[c].at = place /\ calls'[c].result = result
             /\ calls'[c].plan = p
  <2>1. IsRecovery(recoverCall(p)) /\ recoverCall(p).plan = p
    BY DEF IsRecovery, recoverCall
  <2> DEFINE call == Outcome(recoverCall(p), place, result)
  <2>2. call.at = place /\ call.result = result /\ call.plan = p /\ call # NoCall
    BY <2>1, OutcomeIs, OutcomeKeeps
  <2>3. calls' = [calls EXCEPT ![c] = call]
    BY <1>7 DEF Suspend
  <2> HIDE DEF call
  <2>4. QED
    BY <1>1, <2>2, <2>3
<1>8. CASE StartListing(c, p, approved)
  <2>1. /\ UNCHANGED <<payments, planOf>> /\ SetPlan(p, "EXECUTING")
        /\ Starts(c, p) /\ plans[p].strategy = "SELL"
        /\ \E succeeds : Await(c, recoverCall(p), "listing", succeeds)
    BY <1>8 DEF StartListing, Runs, settleVars, listEconomicObject
  <2>2. PICK result : Suspend(c, Outcome(recoverCall(p), "listing", result))
    BY <2>1, AwaitSuspends
  <2>3. OnlyCall(c) /\ calls'[c] # NoCall
    BY <1>1, <1>7, <2>1, <2>2 DEF OnlyCall
  <2>4. RecoversOK(c)'
    <3>1. plans'[p].strategy = plans[p].strategy
      BY <2>1, StartFinds, StatusSet DEF RecoveryInv, LocksInv, Key
    <3>2. QED
      BY <1>7, <2>1, <2>2, <3>1 DEF RecoversOK
  <2>5. QED
    BY <1>1, <2>1, <2>3, <2>4, StartFinds, PaidPlanStep
<1>9. CASE StartBuyout(c, p, approved)
  <2>1. /\ planOf' = [planOf EXCEPT ![c] = p] /\ SetPlan(p, "EXECUTING")
        /\ Starts(c, p) /\ plans[p].strategy = "TRANSFER"
        /\ \E from, to, amount :
              transfer(c, recoverCall(p), "paying", from, to, amount)
    BY <1>9 DEF StartBuyout, Runs, PaysFor
  <2>2. /\ payments' \in [Calls -> Nat]
        /\ \A d \in Calls \ {c} : payments'[d] = payments[d]
        /\ payments'[c] >= payments[c]
    BY <1>1, <2>1, TransferPays
  <2>3. PICK result :
            /\ Suspend(c, Outcome(recoverCall(p), "paying", result))
            /\ result = "ok" => payments'[c] > 0
    BY <1>1, <2>1, TransferPays
  <2>4. /\ OnlyCall(c) /\ calls'[c] # NoCall /\ planOf'[c] = p
    BY <1>1, <1>7, <2>1, <2>2, <2>3 DEF OnlyCall
  <2>5. RecoversOK(c)'
    <3>1. plans'[p].strategy = plans[p].strategy
      BY <2>1, StartFinds, StatusSet DEF RecoveryInv, LocksInv, Key
    <3>2. QED
      BY <1>7, <2>1, <2>3, <2>4, <3>1 DEF RecoversOK
  <2>6. QED
    BY <1>1, <2>1, <2>4, <2>5, StartFinds, PaidPlanStep
<1>10. QED
    BY <1>3, <1>4, <1>5, <1>6, <1>8, <1>9 DEF executePlan

LEMMA PaidResumes ==
    ASSUME RecoveryInv, PaidInv, NEW c \in Calls, RecoveryResumes(c)
    PROVE  PaidInv'
<1> DEFINE p == calls[c].plan
<1>1. /\ c \in Executing /\ calls[c] # Finished /\ Finished # NoCall
      /\ DOMAIN calls = Calls /\ ExecutionsOK
      /\ payments \in [Calls -> Nat] /\ DOMAIN planOf = Calls
  <2>1. calls[c].op = "recover"
    BY DEF RecoveryResumes, RecoveryFails, FinishListing, ContinueBuyout,
       FinishBuyout, IsRecovering, IsAt
  <2>2. NoCall # Finished /\ Finished.op # "recover"
    BY DEF NoCall, Finished
  <2>3. QED
    BY <2>1, <2>2 DEF Executing, RecoveryInv, LocksInv, CallsOK, PaidInv
<1>2. p \in Plans /\ plans[p] # NoPlan /\ Key(p) \notin executed
    BY <1>1 DEF RecoveryInv, LocksInv, ExecutionsOK, WorksForPlan
<1>3. calls[c].op = "recover" /\ RecoversOK(c)
    BY <1>1 DEF PaidInv, Executing
<1>4. ASSUME Return(c), UNCHANGED <<payments, planOf>>
      PROVE  OnlyCall(c) /\ calls'[c] = Finished /\ RecoversOK(c)'
  <2>1. /\ DOMAIN calls' = Calls /\ calls'[c] = Finished
        /\ \A d \in Calls \ {c} : calls'[d] = calls[d]
    BY <1>1, <1>4 DEF Return
  <2>2. Finished.op # "recover"
    BY DEF Finished
  <2>3. QED
    BY <1>1, <1>4, <2>1, <2>2 DEF RecoversOK, OnlyCall
<1>5. CASE RecoveryFails(c)
    BY <1>1, <1>2, <1>4, <1>5, PaidPlanStep DEF RecoveryFails, settleVars
<1>6. CASE FinishListing(c)
  <2>1. plans[p].strategy = "SELL"
    BY <1>3, <1>6 DEF FinishListing, IsRecovering, IsAt, RecoversOK
  <2>2. QED
    BY <1>1, <1>2, <1>4, <1>6, <2>1, PaidPlanStep
       DEF FinishListing, settleVars, Strategies
<1>7. CASE FinishBuyout(c)
  <2>1. plans[p].strategy = "TRANSFER" /\ planOf[c] = p /\ payments[c] > 0
    BY <1>3, <1>7 DEF FinishBuyout, IsRecovering, IsAt, RecoversOK
  <2>2. QED
    BY <1>1, <1>2, <1>4, <1>7, <2>1, PaidPlanStep
       DEF FinishBuyout, settleVars, Strategies
<1>8. CASE ContinueBuyout(c)
  <2>1. /\ UNCHANGED <<plans, payments, planOf>>
        /\ calls[c].at = "paying" /\ calls[c].result = "ok"
        /\ \E succeeds : Await(c, calls[c], "moving", succeeds)
    BY <1>8 DEF ContinueBuyout, IsRecovering, IsAt, Succeeded, planVars,
       settleVars, transferEconomicObject
  <2>2. PICK result : Suspend(c, Outcome(calls[c], "moving", result))
    BY <2>1, AwaitSuspends
  <2>3. IsRecovery(calls[c])
    BY <1>1 DEF RecoveryInv, LocksInv, CallsOK, Executing, NoCall, Finished,
       IsBuy
  <2> DEFINE call == Outcome(calls[c], "moving", result)
  <2>4. call.at = "moving" /\ call.plan = p /\ call # NoCall
    BY <2>3, OutcomeIs, OutcomeKeeps
  <2>5. calls' = [calls EXCEPT ![c] = call]
    BY <2>2 DEF Suspend
  <2> HIDE DEF call
  <2>6. /\ OnlyCall(c) /\ calls'[c] = call
    BY <1>1, <2>1, <2>5 DEF OnlyCall
  <2>7. RecoversOK(c)'
    BY <1>3, <2>1, <2>4, <2>6 DEF RecoversOK
  <2>8. QED
    BY <1>1, <2>1, <2>4, <2>6, <2>7, PaidCallStep
<1>9. QED
    BY <1>5, <1>6, <1>7, <1>8 DEF RecoveryResumes

LEMMA PaidPurchase ==
    ASSUME RecoveryInv, PaidInv, UNCHANGED planVars, NEW c \in Calls,
           Purchase(c) \/ BuyResumes(c)
    PROVE  PaidInv'
<1>1. /\ UNCHANGED <<plans, planOf>> /\ DOMAIN calls = Calls /\ ExecutionsOK
      /\ payments \in [Calls -> Nat] /\ DOMAIN planOf = Calls
      /\ Finished # NoCall
    BY DEF planVars, RecoveryInv, LocksInv, CallsOK, PaidInv, NoCall, Finished
<1>2. ASSUME calls[c] # Finished, Return(c), UNCHANGED payments
      PROVE  PaidInv'
  <2>1. /\ DOMAIN calls' = Calls /\ calls'[c] = Finished
        /\ \A d \in Calls \ {c} : calls'[d] = calls[d]
    BY <1>1, <1>2 DEF Return
  <2>2. Finished.op # "recover"
    BY DEF Finished
  <2>3. OnlyCall(c) /\ RecoversOK(c)' /\ calls'[c] # NoCall
    BY <1>1, <1>2, <2>1, <2>2 DEF OnlyCall, RecoversOK
  <2>4. QED
    BY <1>1, <1>2, <2>3, PaidCallStep
<1>3. ASSUME calls[c] # Finished, NEW call, IsBuy(call), NEW place, NEW result,
             Suspend(c, Outcome(call, place, result)),
             payments' \in [Calls -> Nat], payments'[c] >= payments[c],
             \A d \in Calls \ {c} : payments'[d] = payments[d]
      PROVE  PaidInv'
  <2> DEFINE new == Outcome(call, place, result)
  <2>1. new.op # "recover" /\ new # NoCall
    BY <1>3, OutcomeIs DEF IsBuy
  <2>2. calls' = [calls EXCEPT ![c] = new]
    BY <1>3 DEF Suspend
  <2> HIDE DEF new
  <2>3. OnlyCall(c) /\ RecoversOK(c)' /\ calls'[c] # NoCall
    BY <1>1, <1>3, <2>1, <2>2 DEF OnlyCall, RecoversOK
  <2>4. QED
    BY <1>1, <1>3, <2>3, PaidCallStep
<1>4. ASSUME NEW buyer, NEW seller, NEW o, NEW price,
             buy(c, buyer, seller, o, price)
      PROVE  PaidInv'
  <2> DEFINE call == buyCall(buyer, seller, o, price)
  <2>1. IsBuy(call)
    BY DEF buyCall, IsBuy
  <2>2. calls[c] # Finished
    BY <1>1, <1>4 DEF buy, IsNew
  <2>3. \/ Return(c) /\ UNCHANGED payments
        \/ transfer(c, call, "paying", buyer, seller, price)
    BY <1>4 DEF buy
  <2> HIDE DEF call
  <2>4. CASE transfer(c, call, "paying", buyer, seller, price)
    BY <1>1, <1>3, <2>1, <2>2, <2>4, TransferPays
  <2>5. QED
    BY <1>2, <2>2, <2>3, <2>4
<1>5. CASE BuyFails(c) \/ BuySettles(c)
  <2>1. calls[c].op # "none" /\ Return(c) /\ UNCHANGED payments
    BY <1>5 DEF BuyFails, BuySettles, IsAt, settleVars
  <2>2. QED
    BY <1>2, <2>1 DEF Finished
<1>6. CASE BuyDelivers(c)
  <2>1. /\ calls[c].op = "buy" /\ UNCHANGED payments
        /\ \E place, succeeds : Await(c, calls[c], place, succeeds)
    BY <1>6 DEF BuyDelivers, IsAt, settleVars, transferEconomicObject
  <2>2. IsBuy(calls[c]) /\ calls[c] # Finished
    BY <2>1 DEF RecoveryInv, LocksInv, CallsOK, NoCall, Finished, IsRecovery
  <2>3. PICK place, result : Suspend(c, Outcome(calls[c], place, result))
    BY <2>1, AwaitSuspends
  <2>4. payments' \in [Calls -> Nat] /\ payments'[c] >= payments[c]
    BY <1>1, <2>1
  <2>5. QED
    BY <1>3, <2>1, <2>2, <2>3, <2>4
<1>7. QED
    BY <1>4, <1>5, <1>6 DEF Purchase, BuyResumes

LEMMA PaidAnswer ==
    ASSUME RecoveryInv, PaidInv, UNCHANGED planVars, NEW c \in Calls,
           Mined(c) \/ NotMined(c)
    PROVE  PaidInv'
<1>1. /\ UNCHANGED <<plans, planOf>> /\ DOMAIN calls = Calls /\ ExecutionsOK
      /\ payments \in [Calls -> Nat] /\ DOMAIN planOf = Calls
      /\ Finished # NoCall
    BY DEF planVars, RecoveryInv, LocksInv, CallsOK, PaidInv, NoCall, Finished
<1>2. /\ calls[c] \notin {NoCall, Finished} /\ calls[c].result = "sent"
      /\ IsBuy(calls[c]) \/ IsRecovery(calls[c])
    BY DEF Mined, NotMined, NoCall, Finished, RecoveryInv, LocksInv, CallsOK
<1>3. PICK result \in {"ok", "failed"} : AnswerWith(c, result)
    BY DEF Mined, NotMined
<1> DEFINE call == [calls[c] EXCEPT !.result = result]
<1>4. /\ call.at = calls[c].at /\ call.op = calls[c].op
      /\ call.op \in {"buy", "recover"} /\ call.result = result
      /\ call.op = "recover" => call.plan = calls[c].plan
  <2>1. CASE IsBuy(calls[c])
    BY <2>1 DEF IsBuy
  <2>2. CASE IsRecovery(calls[c])
    BY <2>2 DEF IsRecovery
  <2>3. QED
    BY <1>2, <2>1, <2>2
<1>5. calls' = [calls EXCEPT ![c] = call]
    BY <1>3 DEF AnswerWith
<1> HIDE DEF call
<1>6. /\ calls'[c] = call /\ DOMAIN calls' = Calls
      /\ \A d \in Calls \ {c} : calls'[d] = calls[d]
    BY <1>1, <1>5
<1>7. \/ payments' = payments
      \/ payments' = [payments EXCEPT ![c] = @ + 1]
    BY DEF Mined, NotMined, Take, MonadTransfer, MonadMove, MonadLock,
       MonadRelease, MonadRefund, MonadList, settleVars
<1>8. /\ result = "ok" /\ calls[c].at = "paying"
      => payments' = [payments EXCEPT ![c] = @ + 1]
  <2>1. SUFFICES ASSUME result = "ok", calls[c].at = "paying"
                 PROVE  payments' = [payments EXCEPT ![c] = @ + 1]
    OBVIOUS
  <2>2. ~NotMined(c)
    <3>1. SUFFICES ASSUME NotMined(c) PROVE FALSE
      OBVIOUS
    <3>2. AnswerWith(c, "failed")
      BY <3>1 DEF NotMined
    <3>3. calls'[c].result = "failed"
      <4>1. "result" \in DOMAIN calls[c]
        BY <1>2 DEF IsBuy, IsRecovery
      <4>2. QED
        BY <1>1, <3>2, <4>1 DEF AnswerWith
    <3>4. QED
      BY <1>4, <1>6, <2>1, <3>3
  <2>3. Take(c)
    BY <2>2 DEF Mined
  <2>4. QED
    BY <2>1, <2>3 DEF Take, MonadTransfer, MonadMove, MonadLock,
       MonadRelease, MonadRefund, MonadList
<1>9. OnlyCall(c)
    BY <1>1, <1>6, <1>7 DEF OnlyCall
<1>10. RecoversOK(c)'
  <2>1. RecoversOK(c)
    BY DEF PaidInv
  <2>2. calls[c].op = "recover" /\ calls[c].at = "moving" => payments'[c] > 0
    BY <1>1, <1>7, <2>1 DEF RecoversOK
  <2>3. result = "ok" /\ calls[c].at = "paying" => payments'[c] > 0
    BY <1>1, <1>8
  <2>4. QED
    BY <1>1, <1>4, <1>6, <2>1, <2>2, <2>3 DEF RecoversOK
<1>11. calls'[c] # NoCall
    BY <1>4, <1>6 DEF NoCall
<1>12. QED
    BY <1>1, <1>2, <1>9, <1>10, <1>11, PaidCallStep

LEMMA PaidPlan ==
    ASSUME RecoveryInv, PaidInv, NEW p \in Plans, NEW o \in Objects, plan(p, o)
    PROVE  PaidInv'
<1>1. plans[p] = NoPlan /\ UNCHANGED <<calls, payments, planOf, executed>>
    BY DEF plan, settleVars
<1>2. /\ \A q \in Plans \ {p} : plans'[q] = plans[q]
      /\ plans'[p].status = "PROPOSED"
  <2>1. DOMAIN plans = Plans
    BY DEF RecoveryInv, LocksInv, PlansOK
  <2>2. QED
    BY <2>1 DEF plan
<1>3. \A c \in Calls : PaidOK(c)' /\ planOf[c] # p
  <2>1. TAKE c \in Calls
  <2>2. PaidOK(c)
    BY DEF PaidInv
  <2>3. p # 0
    BY DEF Plans
  <2>4. QED
    BY <1>1, <1>2, <2>2, <2>3 DEF PaidOK
<1>4. \A c \in Calls : RecoversOK(c)' /\ UnusedOK(c)'
  <2>1. TAKE c \in Calls
  <2>2. RecoversOK(c) /\ UnusedOK(c)
    BY DEF PaidInv
  <2>3. calls[c].op = "recover" => calls[c].plan \in Plans \ {p}
    BY <1>1 DEF RecoveryInv, LocksInv, ExecutionsOK, WorksForPlan, Executing
  <2>4. QED
    BY <1>1, <1>2, <2>2, <2>3 DEF RecoversOK, UnusedOK
<1>5. \A q \in Plans : ReportOK(q)'
  <2>1. TAKE q \in Plans
  <2>2. ReportOK(q)
    BY DEF PaidInv
  <2>3. QED
    BY <1>1, <1>2, <2>2 DEF ReportOK
<1>6. RefundsOnce'
  <2>1. \A c \in Calls : planOf[c] # 0 => planOf[c] \in Plans \ {p}
    BY <1>3 DEF PaidInv, PaidOK
  <2>2. QED
    BY <1>1, <1>2, <2>1 DEF PaidInv, RefundsOnce
<1>7. QED
    BY <1>1, <1>3, <1>4, <1>5, <1>6 DEF PaidInv

LEMMA PaidInvStep ==
    RecoveryInv /\ PaidInv /\ [RecoveryNext]_recoveryVars => PaidInv'
<1> SUFFICES ASSUME RecoveryInv, PaidInv, [RecoveryNext]_recoveryVars
             PROVE  PaidInv'
    OBVIOUS
<1>1. CASE UNCHANGED recoveryVars
    BY <1>1, NothingPaid DEF recoveryVars, planVars, settleVars
<1>2. ASSUME NEW owners, scan(owners) PROVE PaidInv'
    BY <1>2, NothingPaid DEF scan, planVars, settleVars
<1>3. ASSUME NEW p \in Plans, NEW o \in Objects, plan(p, o) PROVE PaidInv'
    BY <1>3, PaidPlan
<1>4. ASSUME NEW c \in Calls, NEW p \in Plans, NEW approved \in Approvals,
             executePlan(c, p, approved)
      PROVE  PaidInv'
    BY <1>4, PaidExecutePlan
<1>5. ASSUME NEW c \in Calls, Resumes(c) PROVE PaidInv'
    BY <1>5, PaidResumes, PaidPurchase DEF Resumes
<1>6. ASSUME NEW a \in Registered, setActive(a) PROVE PaidInv'
    BY <1>6, NothingPaid DEF setActive, settleVars
<1>7. ASSUME NEW l \in Calls, NEW buyer \in Registered,
             buyEconomicObject(l, buyer),
             UNCHANGED <<plans, inFlight, executed, planOf>>
      PROVE  PaidInv'
    BY <1>7, NothingPaid DEF buyEconomicObject, settleVars
<1>8. ASSUME UNCHANGED planVars, NEW c \in Calls,
             Purchase(c) \/ Mined(c) \/ NotMined(c)
      PROVE  PaidInv'
    BY <1>8, PaidPurchase, PaidAnswer
<1>9. ASSUME UNCHANGED planVars, setSettlementAdapter PROVE PaidInv'
    BY <1>9, NothingPaid DEF setSettlementAdapter, planVars
<1>10. ASSUME UNCHANGED planVars, TimePasses, UNCHANGED settleVars
       PROVE  PaidInv'
    BY <1>10, NothingPaid DEF TimePasses, planVars, settleVars
<1>11. QED
    BY <1>1, <1>2, <1>3, <1>4, <1>5, <1>6, <1>7, <1>8, <1>9, <1>10
       DEF RecoveryNext

LEMMA PaidInvInit == RecoveryInit => PaidInv
<1> SUFFICES ASSUME RecoveryInit PROVE PaidInv
    OBVIOUS
<1>1. /\ calls = [c \in Calls |-> NoCall] /\ plans = [p \in Plans |-> NoPlan]
      /\ payments = [c \in Calls |-> 0] /\ planOf = [c \in Calls |-> 0]
    BY DEF RecoveryInit, StoreInit, SettlementInit
<1>2. QED
    BY <1>1 DEF PaidInv, PaidOK, RecoversOK, UnusedOK, ReportOK, RefundsOnce,
       NoCall, NoPlan

\* What was paid for a plan, counted over all calls.
LEMMA PaidIsReported ==
    ASSUME RecoveryAssumption, StoreAssumption, PaidInv
    PROVE  RecoveredAsReported
<1> SUFFICES ASSUME NEW p \in Plans, plans[p].status = "EXECUTED"
             PROVE  CASE plans[p].strategy \in {"KEEP", "SELL"} -> Recovered(p) = 0
                      [] plans[p].strategy = "REFUND" -> Recovered(p) = 1
                      [] plans[p].strategy = "TRANSFER" -> Recovered(p) >= 1
    BY DEF RecoveredAsReported
<1> DEFINE paid == [c \in Calls |-> IF planOf[c] = p THEN payments[c] ELSE 0]
           none == [c \in Calls |-> 0]
<1>1. /\ paid \in [Calls -> Nat] /\ none \in [Calls -> Nat]
      /\ \A c \in Calls : paid[c] = IF planOf[c] = p THEN payments[c] ELSE 0
      /\ Recovered(p) = Total(paid)
    BY DEF PaidInv, Recovered
<1>2. IsFiniteSet(Calls)
    BY FS_Interval DEF StoreAssumption, Calls
<1>3. \A c \in Calls : none[c] = 0
    OBVIOUS
<1> HIDE DEF paid, none
<1>4. Total(none) = 0 /\ Total(paid) \in Nat
    BY <1>1, <1>2, <1>3, TotalZero, TotalIsNat
<1>5. ReportOK(p) /\ p # 0
    BY DEF PaidInv, Plans
<1>6. CASE plans[p].strategy \in {"KEEP", "SELL"}
  <2>1. \A c \in Calls : planOf[c] # p
    BY <1>5, <1>6 DEF PaidInv, PaidOK
  <2>2. Total(paid) = 0
    BY <1>1, <2>1, TotalZero
  <2>3. QED
    BY <1>1, <1>6, <2>2
<1>7. CASE plans[p].strategy \in {"REFUND", "TRANSFER"}
  <2>1. PICK c \in Calls : planOf[c] = p /\ payments[c] > 0
    BY <1>5, <1>7 DEF ReportOK
  <2>2. paid[c] = payments[c] /\ payments[c] <= Total(paid)
    BY <1>1, <1>2, <2>1, EntryBound
  <2>3. CASE plans[p].strategy = "REFUND"
    <3>1. payments[c] = 1 /\ \A d \in Calls \ {c} : planOf[d] # p
      BY <1>5, <2>1, <2>3 DEF PaidInv, PaidOK, RefundsOnce
    <3>2. \A d \in Calls \ {c} : none[d] = paid[d]
      BY <1>1, <1>3, <3>1
    <3>3. Total(paid) + none[c] = Total(none) + paid[c]
      BY <1>1, <1>2, <3>2, TotalPoint
    <3>4. Total(paid) = 1
      BY <1>3, <1>4, <2>2, <3>1, <3>3
    <3>5. QED
      BY <1>1, <2>3, <3>4
  <2>4. CASE plans[p].strategy = "TRANSFER"
    <3>1. payments[c] \in Nat
      BY DEF PaidInv
    <3>2. Recovered(p) >= 1
      BY <1>1, <1>4, <2>1, <2>2, <3>1
    <3>3. QED
      BY <2>4, <3>2
  <2>5. QED
    BY <1>7, <2>3, <2>4
<1>8. QED
    BY <1>5, <1>6, <1>7 DEF ReportOK, Strategies

\* What is reported as executed was recovered: a refund credited once, a buyout
\* paid, nothing for the rest, for any plans, however often they are handed in
\* and whatever fails between the payment and the transfer
\* (RecoveryExecutionService.ts:51-66, :211-224, :294).
THEOREM ReportedIsRecovered == RecoverySpec => []RecoveredAsReported
<1>1. PaidInv => RecoveredAsReported
    BY PaidIsReported, RecoveryAssumption, StoreAssumption
<1>2. QED
    BY <1>1, RecoveryInvInit, RecoveryInvStep, PaidInvInit, PaidInvStep, PTL
       DEF RecoverySpec
-----------------------------------------------------------------------------
(* Scans: the inductive invariant                                          *)

IsScan(x) ==
    x = [at |-> x.at, trigger |-> x.trigger, card |-> x.card,
         object |-> x.object, plan |-> x.plan, call |-> x.call]

\* The record of a scan that found nothing names no object, and stays.
ScansOK ==
    /\ DOMAIN scans = Scans /\ card \in 1..MaxCards
    /\ DOMAIN processed = 1..MaxCards
    /\ \A s \in Scans : \/ scans[s] = NoScan
                        \/ IsIn(s, "NO_CANDIDATES") \/ IsScan(scans[s])
    /\ \A s \in Scans : scans[s] # NoScan => scans[s].card \in 1..MaxCards

\* The code of a scan between two awaits runs alone, on the card it is from.
RunsAlone ==
    \A s \in Scans :
        /\ scans[s].at \in {"seeded", "executing"} => executing = s
        /\ IsIn(s, "seeded") => /\ scans[s].trigger = "EVM_LOG_STRANDED"
                                /\ scans[s].card = card
                                /\ scans[s].object \in Objects

\* What plans and objects are worth is never less than nothing, and only what
\* is transferable is to be transferred.
WorthOK ==
    /\ goods \in [Objects -> [consumed : Nat, value : Nat]] /\ tick \in Nat
    /\ \A p \in Plans : plans[p] # NoPlan =>
          /\ plans[p].expected \in Nat
          /\ plans[p].strategy = "TRANSFER" => plans[p].object \in Transferable

\* A scan has a plan for its object, and one the policy permits while it is
\* on its way to be executed.
Planned(s) ==
    LET p == scans[s].plan
    IN  /\ scans[s].at \in {"asking", "executing"} =>
              /\ p \in Plans /\ plans[p] # NoPlan
              /\ plans[p].object = scans[s].object
        /\ IsIn(s, "executing") =>
              validateRecovery(plans[p].owner, plans[p].strategy,
                               plans[p].expected) = {}

AdviceInv ==
    ScansOK /\ RunsAlone /\ WorthOK /\ \A s \in Scans : Planned(s)

\* Scans are numbered as they begin, and one card's scans do not overlap.
InTurn ==
    \A s, t \in Scans :
        s < t /\ scans[t] # NoScan =>
            /\ scans[s] # NoScan
            /\ scans[s].card = scans[t].card => IsReported(s)

IsDemo(d, k) == /\ scans[d] # NoScan /\ scans[d].card = k
                /\ scans[d].trigger = "EVM_LOG_STRANDED"

Scheduled(s) == IsIn(s, "SUCCESS") /\ scans[s].trigger = "CRON_SCHEDULE"

\* What was swept is remembered, until a demonstration puts it back.
SweepsKnown ==
    \A s \in Scans : Scheduled(s) =>
        \/ scans[s].object \in processed[scans[s].card]
        \/ \E d \in Scans : d > s /\ IsDemo(d, scans[s].card)

\* So what a later scan is about was put back between them.
PutBack ==
    \A s, t \in Scans :
        /\ s < t /\ Scheduled(s)
        /\ scans[t].at \in {"asking", "executing", "recovering", "SUCCESS"}
        /\ scans[t].trigger = "CRON_SCHEDULE"
        /\ scans[s].card = scans[t].card /\ scans[s].object = scans[t].object
        => \E d \in Scans : s < d /\ d < t /\ IsDemo(d, scans[s].card)

SweepInv == InTurn /\ SweepsKnown /\ PutBack

-----------------------------------------------------------------------------
(* Scans: what is proposed                                                 *)

LEMMA LargerOfTwo ==
    ASSUME NEW a \in Int, NEW b \in Int
    PROVE  Max({a, b}) \in {a, b} /\ Max({a, b}) >= a
<1>1. \E x \in {a, b} : \A y \in {a, b} : x >= y
    OBVIOUS
<1>2. QED
    BY <1>1 DEF Max

LEMMA SmallerOfTwo ==
    ASSUME NEW a \in Int, NEW b \in Int
    PROVE  Min({a, b}) \in {a, b}
<1>1. \E x \in {a, b} : \A y \in {a, b} : x <= y
    OBVIOUS
<1>2. QED
    BY <1>1 DEF Min

\* What is divided: a natural number stays one.
LEMMA Divided ==
    ASSUME NEW a \in Nat, NEW n \in Nat \ {0}
    PROVE  a \div n \in Nat
OBVIOUS

LEMMA Rounded ==
    ASSUME NEW a \in Int
    PROVE  RoundMilli(a) \in Int /\ (a \in Nat => RoundMilli(a) \in Nat)
BY DEF RoundMilli, Milli

LEMMA PercentOf ==
    ASSUME NEW a \in Int, NEW n \in Nat
    PROVE  Percent(a, n) \in Int /\ (a \in Nat => Percent(a, n) \in Nat)
<1>1. a * n \in Int /\ (a \in Nat => a * n \in Nat)
    OBVIOUS
<1>2. QED
    BY <1>1 DEF Percent

\* What an object has left, and what of it is needed, is a quantity.
LEMMA NeedIsSome ==
    ASSUME PlanningAssumption, WorthOK, NEW o \in Objects
    PROVE  Remaining(o) \in Nat /\ Need(o) \in Nat /\ Surplus(o) \in Int
<1>1. /\ Terms[o].quantity \in Nat /\ Terms[o].expiry \in Nat
      /\ Terms[o].projected \in Nat /\ Terms[o].rate \in Nat
      /\ Terms[o].burn \in Nat \cup {NoHistory}
      /\ goods[o].consumed \in Nat /\ tick \in Nat
    BY DEF PlanningAssumption, WorthOK
<1> DEFINE left == Terms[o].quantity - goods[o].consumed
           hours == HoursPerTick * (Terms[o].expiry - tick)
<1>2. left \in Int /\ hours \in Int
    BY <1>1 DEF HoursPerTick
<1>3. Remaining(o) \in Nat /\ HoursLeft(o) \in Nat
  <2>1. Remaining(o) = Max({0, left}) /\ HoursLeft(o) = Max({0, hours})
    BY DEF Remaining, HoursLeft
  <2> HIDE DEF left, hours
  <2>2. /\ Max({0, left}) \in {0, left} /\ Max({0, left}) >= 0
        /\ Max({0, hours}) \in {0, hours} /\ Max({0, hours}) >= 0
    <3>1. 0 \in Int
      OBVIOUS
    <3>2. QED
      BY <1>2, <3>1, LargerOfTwo, Zenon
  <2>3. QED
    BY <1>2, <2>1, <2>2
<1>4. forecast(o) \in Nat
  <2>1. CASE Terms[o].burn # NoHistory
    <3>1. Confidence(o) = "HIGH"
      BY <2>1 DEF Confidence
    <3>2. forecast(o) = Terms[o].burn * HoursLeft(o)
      BY <3>1 DEF forecast
    <3>3. Terms[o].burn \in Nat
      BY <1>1, <2>1
    <3>4. QED
      BY <1>3, <3>2, <3>3
  <2>2. CASE Terms[o].burn = NoHistory /\ Terms[o].rate > 0
    <3> DEFINE used == Terms[o].rate * HoursLeft(o)
               most == Max({Terms[o].projected, used})
    <3>1. Confidence(o) = "MEDIUM"
      BY <2>2 DEF Confidence
    <3>2. forecast(o) = Min({Terms[o].quantity, most})
      BY <3>1 DEF forecast
    <3>3. used \in Nat
      BY <1>1, <1>3
    <3> HIDE DEF used
    <3> HIDE DEF used
    <3>4. Terms[o].projected \in Int /\ Terms[o].quantity \in Int /\ used \in Int
      BY <1>1, <3>3
    <3>5. most \in {Terms[o].projected, used}
      BY <3>4, LargerOfTwo, Zenon
    <3>6. most \in Int
      BY <3>4, <3>5
    <3> HIDE DEF most
    <3>7. Min({Terms[o].quantity, most}) \in {Terms[o].quantity, most}
      BY <3>4, <3>6, SmallerOfTwo, Zenon
    <3>8. QED
      BY <1>1, <3>2, <3>3, <3>5, <3>7
  <2>3. CASE Terms[o].burn = NoHistory /\ ~(Terms[o].rate > 0)
    <3>1. Confidence(o) = "LOW"
      BY <2>3 DEF Confidence
    <3>2. QED
      BY <1>1, <3>1 DEF forecast
  <2>4. QED
    BY <2>1, <2>2, <2>3
<1>5. Need(o) \in Nat
  <2>1. Remaining(o) \in Int /\ forecast(o) \in Int
    BY <1>3, <1>4
  <2>2. Min({Remaining(o), forecast(o)}) \in {Remaining(o), forecast(o)}
    BY <2>1, SmallerOfTwo, Zenon
  <2>3. QED
    BY <1>3, <1>4, <2>2 DEF Need
<1>6. QED
    BY <1>3, <1>5 DEF Surplus

LEMMA PartIsWorth ==
    ASSUME PlanningAssumption, WorthOK, NEW o \in Objects, NEW units \in Int
    PROVE  PartOf(o, units) \in Int /\ (units \in Nat => PartOf(o, units) \in Nat)
<1>1. goods[o].value \in Nat
    BY DEF WorthOK
<1> DEFINE parts == Max({1, Remaining(o)})
           all == goods[o].value * units
           share == all \div parts
<1>2. parts \in Nat \ {0}
  <2>1. Remaining(o) \in Nat
    BY NeedIsSome
  <2>2. 1 \in Int /\ Remaining(o) \in Int
    BY <2>1
  <2>3. parts \in {1, Remaining(o)} /\ parts >= 1
    BY <2>2, LargerOfTwo, Zenon
  <2>4. QED
    BY <2>1, <2>3
<1>3. all \in Int /\ (units \in Nat => all \in Nat)
    BY <1>1
<1> HIDE DEF all, parts
<1>4. share \in Int /\ (units \in Nat => share \in Nat)
    BY <1>2, <1>3
<1>5. PartOf(o, units) = RoundMilli(share)
    BY DEF PartOf, all, parts
<1> HIDE DEF share
<1>6. QED
    BY <1>4, <1>5, Rounded

LEMMA ValuationIsInt ==
    ASSUME PlanningAssumption, WorthOK, NEW o \in Objects
    PROVE  /\ Valuation(o, "KEEP") \in Nat
           /\ \A strategy \in Strategies : Valuation(o, strategy) \in Int
           /\ ~CanMove(o) => Valuation(o, "TRANSFER") = Unavailable
<1>1. Valuation(o, "KEEP") \in Nat
    BY NeedIsSome, PartIsWorth DEF Valuation
<1>2. \A n \in Nat : Haircut(o, n) \in Int
    BY NeedIsSome, PartIsWorth, PercentOf, Rounded DEF Haircut
<1>3. \A a \in Int : AfterGas(a) \in Int
  <2>1. TAKE a \in Int
  <2>2. RoundMilli(a - Gas) \in Int
    BY Rounded DEF Gas
  <2>3. AfterGas(a) \in {0, RoundMilli(a - Gas)}
    <3>1. 0 \in Int
      OBVIOUS
    <3>2. QED
      BY <2>2, <3>1, LargerOfTwo, Zenon DEF AfterGas
  <2>4. QED
    BY <2>2, <2>3
<1>4. \A a \in Int : AfterRecoveryFee(a) \in Int
    BY PercentOf DEF AfterRecoveryFee, RecoveryFeePercent
<1>5. \A a \in Int : AfterMarketplaceFee(a) \in Int
  <2>1. TAKE a \in Int
  <2>2. RoundMilli(Percent(a, MarketplaceFeePercent)) \in Int
    BY PercentOf, Rounded DEF MarketplaceFeePercent
  <2>3. QED
    BY <2>2 DEF AfterMarketplaceFee
<1>6. Valuation(o, "SELL") \in Int
  <2>1. \/ Valuation(o, "SELL") = Unavailable
        \/ \E n \in {65, 82} : Valuation(o, "SELL")
                               = AfterGas(AfterMarketplaceFee(Haircut(o, n)))
    BY DEF Valuation
  <2>2. QED
    BY <1>2, <1>3, <1>5, <2>1 DEF Unavailable
<1>7. /\ Valuation(o, "TRANSFER") \in Int
      /\ ~CanMove(o) => Valuation(o, "TRANSFER") = Unavailable
  <2>1. \/ Valuation(o, "TRANSFER") = Unavailable
        \/ /\ CanMove(o)
           /\ Valuation(o, "TRANSFER")
              = AfterGas(AfterRecoveryFee(Haircut(o, 92)))
    BY DEF Valuation
  <2>2. QED
    BY <1>2, <1>3, <1>4, <2>1 DEF Unavailable
<1>8. Valuation(o, "REFUND") \in Int
  <2>1. \/ Valuation(o, "REFUND") = Unavailable
        \/ Valuation(o, "REFUND") = AfterRecoveryFee(Haircut(o, 75))
    BY DEF Valuation
  <2>2. QED
    BY <1>2, <1>4, <2>1 DEF Unavailable
<1>9. QED
    BY <1>1, <1>6, <1>7, <1>8 DEF Strategies

\* What is proposed is worth something; a transfer, only of what can move.
LEMMA ProposalIsWorth ==
    ASSUME PlanningAssumption, WorthOK, NEW o \in Objects
    PROVE  /\ Recommended(o) \in Strategies
           /\ Valuation(o, Recommended(o)) \in Nat
           /\ Recommended(o) = "TRANSFER" => CanMove(o)
<1> DEFINE net == [strategy \in Strategies |-> Valuation(o, strategy)]
           IsBest(strategy) == /\ net[strategy] > net["KEEP"]
                               /\ \A other \in Strategies :
                                     net[strategy] >= net[other]
<1>1. Recommended(o) = IF IsBest("TRANSFER") THEN "TRANSFER"
                       ELSE IF IsBest("SELL") THEN "SELL"
                       ELSE IF IsBest("REFUND") THEN "REFUND"
                       ELSE "KEEP"
    BY DEF Recommended
<1>2. \A strategy \in Strategies : net[strategy] = Valuation(o, strategy)
    OBVIOUS
<1>3. "KEEP" \in Strategies /\ "TRANSFER" \in Strategies
      /\ "SELL" \in Strategies /\ "REFUND" \in Strategies
    BY DEF Strategies
<1>4. \/ Recommended(o) = "KEEP"
      \/ /\ Recommended(o) \in Strategies
         /\ Valuation(o, Recommended(o)) > Valuation(o, "KEEP")
    BY <1>1, <1>2, <1>3
<1>5. Recommended(o) \in Strategies /\ Valuation(o, Recommended(o)) \in Nat
    BY <1>3, <1>4, ValuationIsInt
<1>6. QED
    BY <1>4, <1>5, ValuationIsInt DEF Unavailable

-----------------------------------------------------------------------------
(* Scans: what executions leave                                            *)

\* A step that begins no plan and rewrites none: at most a plan's status, and
\* what an object is worth.
PlansStay ==
    /\ \A q \in Plans : /\ plans'[q].object = plans[q].object
                        /\ plans'[q].owner = plans[q].owner
                        /\ plans'[q].strategy = plans[q].strategy
                        /\ plans'[q].expected = plans[q].expected
                        /\ plans'[q] = NoPlan <=> plans[q] = NoPlan

LEMMA StatusStays ==
    ASSUME PlansOK, NEW p \in Plans, plans[p] # NoPlan,
           NEW status \in {"EXECUTING", "EXECUTED", "REJECTED"},
           SetPlan(p, status)
    PROVE  PlansStay
BY StatusSet DEF PlansStay

LEMMA ExecutionStays ==
    ASSUME RecoveryInv, WorthOK, NEW c \in Calls,
           \/ \E p \in Plans : executePlan(c, p, TRUE) \/ Abandon(c, p, TRUE)
           \/ RecoveryResumes(c)
    PROVE  PlansStay /\ UNCHANGED policies /\ WorthOK'
<1>1. ASSUME NEW p \in Plans, executePlan(c, p, TRUE) \/ Abandon(c, p, TRUE)
      PROVE  /\ UNCHANGED <<policies, goods, tick>>
             /\ \/ UNCHANGED plans
                \/ \E status \in {"EXECUTING", "EXECUTED", "REJECTED"} :
                      plans[p] # NoPlan /\ SetPlan(p, status)
  <2>1. CASE Declined(c, p)
    BY <2>1 DEF Declined, storeVars, planVars
  <2>2. CASE RejectPlan(c, p, TRUE)
    BY <2>2 DEF RejectPlan, Starts, storeVars
  <2>3. CASE ExecuteKeep(c, p, TRUE)
    BY <2>3 DEF ExecuteKeep, Runs, Starts
  <2>4. CASE ExecuteRefund(c, p, TRUE)
    BY <2>4 DEF ExecuteRefund, Runs, Starts
  <2>5. CASE StartListing(c, p, TRUE)
    BY <2>5 DEF StartListing, Runs, Starts, storeVars
  <2>6. CASE StartBuyout(c, p, TRUE)
    BY <2>6 DEF StartBuyout, Runs, Starts
  <2>7. CASE Abandon(c, p, TRUE)
    BY <2>7 DEF Abandon, Starts, storeVars
  <2>8. QED
    BY <1>1, <2>1, <2>2, <2>3, <2>4, <2>5, <2>6, <2>7 DEF executePlan
<1>2. ASSUME RecoveryResumes(c)
      PROVE  LET p == calls[c].plan
             IN  /\ p \in Plans /\ plans[p] # NoPlan
                 /\ UNCHANGED <<policies, tick>>
                 /\ \/ UNCHANGED plans
                    \/ \E status \in {"EXECUTED", "REJECTED"} : SetPlan(p, status)
                 /\ \/ UNCHANGED goods
                    \/ goods' = [goods EXCEPT ![plans[p].object] =
                           [consumed |-> 0,
                            value |-> AfterRecoveryFee(plans[p].expected)]]
  <2>1. c \in Executing
    BY <1>2 DEF RecoveryResumes, RecoveryFails, FinishListing, ContinueBuyout,
       FinishBuyout, IsRecovering, IsAt, Executing
  <2>2. calls[c].plan \in Plans /\ plans[calls[c].plan] # NoPlan
    BY <2>1 DEF RecoveryInv, LocksInv, ExecutionsOK, WorksForPlan
  <2>3. CASE RecoveryFails(c)
    BY <2>2, <2>3 DEF RecoveryFails, storeVars
  <2>4. CASE FinishListing(c)
    BY <2>2, <2>4 DEF FinishListing
  <2>5. CASE ContinueBuyout(c)
    BY <2>2, <2>5 DEF ContinueBuyout, planVars
  <2>6. CASE FinishBuyout(c)
    BY <2>2, <2>6 DEF FinishBuyout
  <2>7. QED
    BY <1>2, <2>3, <2>4, <2>5, <2>6 DEF RecoveryResumes
<1>3. PlansStay /\ UNCHANGED <<policies, tick>>
  <2>1. CASE UNCHANGED plans /\ UNCHANGED <<policies, tick>>
    BY <2>1 DEF PlansStay
  <2>2. QED
    BY <1>1, <1>2, <2>1, StatusStays DEF RecoveryInv, LocksInv
<1>4. goods' \in [Objects -> [consumed : Nat, value : Nat]]
  <2>1. CASE UNCHANGED goods
    BY <2>1 DEF WorthOK
  <2>2. CASE ~UNCHANGED goods
    <3>1. PICK p \in Plans :
              /\ plans[p] # NoPlan
              /\ goods' = [goods EXCEPT ![plans[p].object] =
                     [consumed |-> 0,
                      value |-> AfterRecoveryFee(plans[p].expected)]]
      BY <1>1, <1>2, <2>2
    <3>2. AfterRecoveryFee(plans[p].expected) \in Nat
      BY <3>1, PercentOf DEF WorthOK, AfterRecoveryFee, RecoveryFeePercent
    <3>3. QED
      BY <3>1, <3>2 DEF WorthOK
  <2>3. QED
    BY <2>1, <2>2
<1>5. WorthOK'
    BY <1>3, <1>4 DEF WorthOK, PlansStay
<1>6. QED
    BY <1>3, <1>5

LEMMA AbandonKeeps ==
    ASSUME RecoveryInv, NEW c \in Calls, NEW p \in Plans, Abandon(c, p, TRUE)
    PROVE  RecoveryInv'
BY EndsAtOnce DEF Abandon

\* A scan's copy of its plan overwrites one that nobody works for.
LEMMA CopyKeeps ==
    ASSUME RecoveryInv, NEW p \in Plans, plans[p] # NoPlan, ~Locked(p),
           NEW advice, plans' = [plans EXCEPT ![p] = Copy(p, advice)],
           UNCHANGED <<calls, inFlight, executed>>
    PROVE  /\ RecoveryInv'
           /\ plans'[p] # NoPlan /\ plans'[p].object = plans[p].object
           /\ plans'[p].owner = plans[p].owner
           /\ plans'[p].expected = plans[p].expected
           /\ plans'[p].strategy = Proposed(p, advice)
           /\ \A q \in Plans \ {p} : plans'[q] = plans[q]
<1> DEFINE copy == Copy(p, advice)
<1>1. IsPlan(plans[p]) /\ DOMAIN plans = Plans
    BY DEF RecoveryInv, LocksInv, PlansOK
<1>2. /\ IsPlan(copy) /\ copy.status = "PROPOSED"
      /\ copy.object = plans[p].object /\ copy.owner = plans[p].owner
      /\ copy.expected = plans[p].expected
      /\ copy.strategy = Proposed(p, advice)
  <2> DEFINE advised == [plans[p] EXCEPT !.strategy = Proposed(p, advice)]
  <2>1. /\ IsPlan(advised)
        /\ advised.object = plans[p].object /\ advised.owner = plans[p].owner
        /\ advised.expected = plans[p].expected
        /\ advised.strategy = Proposed(p, advice)
    BY <1>1 DEF IsPlan
  <2>2. copy = [advised EXCEPT !.status = "PROPOSED"]
    BY DEF Copy
  <2> HIDE DEF advised, copy
  <2>3. QED
    BY <2>1, <2>2 DEF IsPlan
<1>3. plans' = [plans EXCEPT ![p] = copy]
    OBVIOUS
<1> HIDE DEF copy
<1>4. /\ DOMAIN plans' = Plans /\ plans'[p] = copy
      /\ \A q \in Plans \ {p} : plans'[q] = plans[q]
    BY <1>1, <1>3
<1>5. copy # NoPlan
    BY <1>2 DEF NoPlan
<1>6. PlansOK' /\ CallsOK' /\ OneAtATime'
    BY <1>2, <1>4
       DEF RecoveryInv, LocksInv, PlansOK, CallsOK, OneAtATime, Executing
<1>7. ExecutionsOK'
  <2>1. ASSUME NEW d \in Executing PROVE WorksForPlan(d)'
    <3>1. WorksForPlan(d) /\ calls[d].object \in inFlight
      BY <2>1 DEF RecoveryInv, LocksInv, ExecutionsOK, OneAtATime
    <3>2. calls[d].plan # p
      BY <3>1 DEF WorksForPlan, Locked
    <3>3. plans'[calls[d].plan] = plans[calls[d].plan]
      BY <1>4, <3>1, <3>2 DEF WorksForPlan
    <3>4. QED
      BY <3>1, <3>3 DEF WorksForPlan, Key
  <2>2. Executing' = Executing
    BY DEF Executing
  <2>3. QED
    BY <2>1, <2>2 DEF ExecutionsOK
<1>8. \A q \in Plans : plans'[q].status = "EXECUTED" =>
          q # p /\ plans[q].status = "EXECUTED" /\ Key(q)' = Key(q)
    BY <1>2, <1>4 DEF Key
<1>9. HistoryInv'
    BY <1>8 DEF RecoveryInv, HistoryInv, ExecutedIsKnown, ExecutedOnce
<1>10. QED
    BY <1>2, <1>4, <1>5, <1>6, <1>7, <1>9 DEF RecoveryInv, LocksInv

\* What runs beside the scans: executions by the console, and answers.
LEMMA ElsewhereStays ==
    ASSUME RecoveryInv, WorthOK, Elsewhere
    PROVE  RecoveryInv' /\ PlansStay /\ WorthOK'
<1>1. ASSUME NEW c \in Calls, handleExecuteSettlement(c) \/ RecoveryResumes(c)
      PROVE  RecoveryInv' /\ PlansStay /\ WorthOK'
  <2>1. ASSUME NEW p \in Plans, executePlan(c, p, TRUE) \/ Abandon(c, p, TRUE)
        PROVE  RecoveryInv' /\ PlansStay /\ WorthOK'
    <3>1. RecoveryInv'
      BY <2>1, ExecutePlanKeeps, AbandonKeeps
    <3>2. QED
      BY <2>1, <3>1, ExecutionStays
  <2>2. ASSUME RecoveryResumes(c)
        PROVE  RecoveryInv' /\ PlansStay /\ WorthOK'
    BY <2>2, ResumesKeeps, ExecutionStays
  <2>3. QED
    BY <1>1, <2>1, <2>2 DEF handleExecuteSettlement
<1>2. ASSUME UNCHANGED <<plans, goods>>, UNCHANGED tick \/ TimePasses
      PROVE  PlansStay /\ WorthOK'
  <2>1. tick' \in Nat
    BY <1>2 DEF WorthOK, TimePasses
  <2>2. QED
    BY <1>2, <2>1 DEF PlansStay, WorthOK
<1>3. ASSUME NEW c \in Calls, Mined(c) \/ NotMined(c), UNCHANGED planVars
      PROVE  RecoveryInv' /\ PlansStay /\ WorthOK'
  <2>1. UNCHANGED <<plans, goods, tick>>
    BY <1>3 DEF Mined, NotMined, storeVars, planVars
  <2>2. QED
    BY <1>2, <1>3, <2>1, AnswerKeeps
<1>4. CASE setSettlementAdapter /\ UNCHANGED planVars
  <2>1. UNCHANGED <<calls, plans, inFlight, executed, goods, tick>>
    BY <1>4 DEF setSettlementAdapter, storeVars, planVars
  <2>2. QED
    BY <1>2, <2>1, NothingChanges
<1>5. CASE TimePasses /\ UNCHANGED <<settleVars, planVars>>
  <2>1. UNCHANGED <<calls, plans, inFlight, executed, goods>>
    BY <1>5 DEF TimePasses, planVars
  <2>2. QED
    BY <1>2, <1>5, <2>1, NothingChanges
<1>6. ASSUME NEW a, NEW policy, changePolicy(a, policy)
      PROVE  RecoveryInv' /\ PlansStay /\ WorthOK'
  <2>1. UNCHANGED <<calls, plans, inFlight, executed, goods, tick>>
    BY <1>6 DEF changePolicy, updatePolicy, planVars
  <2>2. QED
    BY <1>2, <2>1, NothingChanges
<1>7. QED
    BY <1>1, <1>3, <1>4, <1>5, <1>6 DEF Elsewhere

-----------------------------------------------------------------------------
(* Scans: steps                                                            *)

PlansKept ==
    \A q \in Plans : plans[q] # NoPlan =>
        /\ plans'[q] # NoPlan
        /\ plans'[q].object = plans[q].object
        /\ plans'[q].owner = plans[q].owner
        /\ plans'[q].strategy = plans[q].strategy
        /\ plans'[q].expected = plans[q].expected

LEMMA PlannedStays ==
    ASSUME PlansKept, NEW s \in Scans, Planned(s), scans'[s] = scans[s],
           UNCHANGED policies \/ ~IsIn(s, "executing")
    PROVE  Planned(s)'
<1>1. /\ scans'[s].at = scans[s].at /\ scans'[s].plan = scans[s].plan
      /\ scans'[s].object = scans[s].object
    OBVIOUS
<1>2. CASE scans[s].at \notin {"asking", "executing"}
    BY <1>1, <1>2 DEF Planned, IsIn
<1>3. CASE scans[s].at \in {"asking", "executing"}
  <2> DEFINE p == scans[s].plan
  <2>1. /\ p \in Plans /\ plans[p] # NoPlan /\ plans'[p] # NoPlan
        /\ plans'[p].object = plans[p].object
        /\ plans'[p].owner = plans[p].owner
        /\ plans'[p].strategy = plans[p].strategy
        /\ plans'[p].expected = plans[p].expected
    BY <1>3 DEF Planned, PlansKept
  <2>2. \A owner, strategy, expected : UNCHANGED policies =>
            validateRecovery(owner, strategy, expected)'
            = validateRecovery(owner, strategy, expected)
    BY DEF validateRecovery
  <2>3. QED
    BY <1>1, <2>1, <2>2 DEF Planned, IsIn
<1>4. QED
    BY <1>2, <1>3

\* A scan goes on.
LEMMA ScanMoves ==
    ASSUME ScansOK, NEW s \in Scans, NEW status,
           scans[s].at \in {"seeded", "asking", "executing", "recovering"},
           Report(s, status), card' \in 1..MaxCards,
           DOMAIN processed' = 1..MaxCards
    PROVE  /\ ScansOK' /\ scans'[s].at = status /\ scans'[s] # NoScan
           /\ scans'[s].plan = scans[s].plan
           /\ scans'[s].object = scans[s].object
           /\ scans'[s].card = scans[s].card
           /\ scans'[s].trigger = scans[s].trigger
           /\ \A t \in Scans \ {s} : scans'[t] = scans[t]
<1> DEFINE new == [scans[s] EXCEPT !.at = status]
<1>1. IsScan(scans[s]) /\ scans[s] # NoScan
    BY DEF ScansOK, NoScan, IsIn
<1>2. /\ IsScan(new) /\ new.at = status /\ new.plan = scans[s].plan
      /\ new.object = scans[s].object /\ new.card = scans[s].card
      /\ new.trigger = scans[s].trigger
    BY <1>1 DEF IsScan
<1>3. scans' = [scans EXCEPT ![s] = new]
    BY DEF Report
<1> HIDE DEF new
<1>4. /\ DOMAIN scans' = Scans /\ scans'[s] = new
      /\ \A t \in Scans \ {s} : scans'[t] = scans[t]
    BY <1>3 DEF ScansOK
<1>5. new # NoScan
  <2>1. "card" \in DOMAIN new /\ "card" \notin DOMAIN NoScan
    BY <1>2 DEF IsScan, NoScan
  <2>2. QED
    BY <2>1
<1>6. ScansOK'
    BY <1>1, <1>2, <1>4 DEF ScansOK, IsIn
<1>7. QED
    BY <1>2, <1>4, <1>5, <1>6

\* A scan is begun, or goes on from where the demonstration began it.
LEMMA ScanIsFound ==
    ASSUME ScansOK, NEW s \in Scans, NEW trigger, NEW at, NEW o, NEW p,
           Found(s, trigger, at, o, p), UNCHANGED card,
           DOMAIN processed' = 1..MaxCards
    PROVE  /\ ScansOK' /\ scans'[s] # NoScan
           /\ scans'[s].at = at /\ scans'[s].plan = p
           /\ scans'[s].object = o /\ scans'[s].card = card
           /\ scans'[s].trigger = trigger
           /\ \A t \in Scans \ {s} : scans'[t] = scans[t]
<1> DEFINE new == [at |-> at, trigger |-> trigger, card |-> card,
                   object |-> o, plan |-> p, call |-> 0]
<1>1. /\ IsScan(new) /\ new.at = at /\ new.plan = p /\ new.object = o
      /\ new.card = card /\ new.trigger = trigger /\ new # NoScan
  <2>1. "card" \in DOMAIN new /\ "card" \notin DOMAIN NoScan
    BY DEF NoScan
  <2>2. new # NoScan
    BY <2>1
  <2>3. QED
    BY <2>2 DEF IsScan
<1>2. scans' = [scans EXCEPT ![s] = new]
    BY DEF Found
<1> HIDE DEF new
<1>3. /\ DOMAIN scans' = Scans /\ scans'[s] = new
      /\ \A t \in Scans \ {s} : scans'[t] = scans[t]
    BY <1>2 DEF ScansOK
<1>4. ScansOK'
    BY <1>1, <1>3 DEF ScansOK, IsIn
<1>5. QED
    BY <1>1, <1>3, <1>4

LEMMA ExamineKeeps ==
    ASSUME RecoveryInv, AdviceInv, NEW s \in Scans, NEW trigger,
           NEW o \in Objects, Examine(s, trigger, o), UNCHANGED card,
           DOMAIN processed' = 1..MaxCards
    PROVE  /\ RecoveryInv' /\ ScansOK' /\ WorthOK'
           /\ \A t \in Scans : Planned(t)'
           /\ scans'[s].at \in {"NO_CANDIDATES", "asking"}
           /\ scans'[s] # NoScan /\ scans'[s].object = o
           /\ scans'[s].card = card /\ scans'[s].trigger = trigger
           /\ \A t \in Scans \ {s} : scans'[t] = scans[t]
<1>1. CASE /\ Found(s, trigger, "NO_CANDIDATES", o, 0)
           /\ UNCHANGED <<policies, tick, calls, planVars>>
  <2>1. /\ ScansOK' /\ scans'[s].at = "NO_CANDIDATES" /\ scans'[s] # NoScan
        /\ scans'[s].object = o
        /\ scans'[s].card = card /\ scans'[s].trigger = trigger
        /\ \A t \in Scans \ {s} : scans'[t] = scans[t]
    BY <1>1, ScanIsFound DEF AdviceInv
  <2>2. RecoveryInv'
    BY <1>1, NothingChanges DEF planVars
  <2>3. WorthOK' /\ PlansKept
    BY <1>1 DEF planVars, AdviceInv, WorthOK, PlansKept
  <2>4. \A t \in Scans : Planned(t)'
    <3>1. Planned(s)'
      BY <2>1 DEF Planned, IsIn
    <3>2. ASSUME NEW t \in Scans \ {s} PROVE Planned(t)'
      BY <1>1, <2>1, <2>3, PlannedStays DEF AdviceInv
    <3>3. QED
      BY <3>1, <3>2
  <2>5. QED
    BY <2>1, <2>2, <2>3, <2>4
<1>2. ASSUME NEW p \in Plans, plan(p, o), Found(s, trigger, "asking", o, p)
      PROVE  /\ RecoveryInv' /\ ScansOK' /\ WorthOK'
             /\ \A t \in Scans : Planned(t)'
             /\ scans'[s].at = "asking" /\ scans'[s] # NoScan
             /\ scans'[s].object = o
             /\ scans'[s].card = card /\ scans'[s].trigger = trigger
             /\ \A t \in Scans \ {s} : scans'[t] = scans[t]
  <2>1. /\ ScansOK' /\ scans'[s].at = "asking" /\ scans'[s] # NoScan
        /\ scans'[s].object = o /\ scans'[s].plan = p
        /\ scans'[s].card = card /\ scans'[s].trigger = trigger
        /\ \A t \in Scans \ {s} : scans'[t] = scans[t]
    BY <1>2, ScanIsFound DEF AdviceInv
  <2>2. RecoveryInv'
    BY <1>2, PlanKeeps
  <2>3. /\ plans[p] = NoPlan /\ UNCHANGED <<goods, tick, policies>>
        /\ \A q \in Plans \ {p} : plans'[q] = plans[q]
        /\ plans'[p].object = o /\ plans'[p].strategy = Recommended(o)
        /\ plans'[p].expected = Valuation(o, Recommended(o))
        /\ plans'[p].status = "PROPOSED"
    <3>1. DOMAIN plans = Plans
      BY DEF RecoveryInv, LocksInv, PlansOK
    <3>2. QED
      BY <1>2, <3>1 DEF plan, storeVars
  <2>4. plans'[p] # NoPlan
    BY <2>3 DEF NoPlan
  <2>5. PlansKept
    BY <2>3 DEF PlansKept
  <2>6. WorthOK'
    <3>1. plans'[p].expected \in Nat
      BY <2>3, ProposalIsWorth, PlanningAssumption DEF AdviceInv
    <3>2. plans'[p].strategy = "TRANSFER" => plans'[p].object \in Transferable
      BY <2>3, ProposalIsWorth, PlanningAssumption, FlagAssumption DEF AdviceInv
    <3>3. QED
      BY <2>3, <3>1, <3>2 DEF AdviceInv, WorthOK
  <2>7. \A t \in Scans : Planned(t)'
    <3>1. Planned(s)'
      BY <2>1, <2>3, <2>4 DEF Planned, IsIn
    <3>2. ASSUME NEW t \in Scans \ {s} PROVE Planned(t)'
      BY <2>1, <2>3, <2>5, PlannedStays DEF AdviceInv
    <3>3. QED
      BY <3>1, <3>2
  <2>8. QED
    BY <2>1, <2>2, <2>6, <2>7
<1>3. QED
    BY <1>1, <1>2 DEF Examine

LEMMA RunKeeps ==
    ASSUME RecoveryInv, AdviceInv, NEW s \in Scans, runWorkflowScan(s)
    PROVE  RecoveryInv' /\ AdviceInv'
<1>1. executing = Nobody /\ UNCHANGED <<card, processed, executing>>
    BY DEF runWorkflowScan, CanRun
<1>2. s # Nobody /\ card \in 1..MaxCards /\ DOMAIN processed = 1..MaxCards
    BY DEF Scans, Nobody, AdviceInv, ScansOK
<1>3. ASSUME NEW o \in Objects, Examine(s, "CRON_SCHEDULE", o)
      PROVE  RecoveryInv' /\ AdviceInv'
  <2>1. /\ RecoveryInv' /\ ScansOK' /\ WorthOK'
        /\ \A t \in Scans : Planned(t)'
        /\ scans'[s].at \in {"NO_CANDIDATES", "asking"}
        /\ \A t \in Scans \ {s} : scans'[t] = scans[t]
    BY <1>1, <1>2, <1>3, ExamineKeeps
  <2>2. RunsAlone'
    BY <1>1, <2>1 DEF AdviceInv, RunsAlone, IsIn
  <2>3. QED
    BY <2>1, <2>2 DEF AdviceInv
<1>4. CASE /\ scans' = [scans EXCEPT ![s] =
                  [at |-> "NO_CANDIDATES", trigger |-> "CRON_SCHEDULE",
                   card |-> card, plan |-> 0, call |-> 0]]
           /\ UNCHANGED recoveryVars
  <2> DEFINE new == [at |-> "NO_CANDIDATES", trigger |-> "CRON_SCHEDULE",
                     card |-> card, plan |-> 0, call |-> 0]
  <2>1. new.at = "NO_CANDIDATES" /\ new.card = card
    OBVIOUS
  <2>2. scans' = [scans EXCEPT ![s] = new]
    BY <1>4
  <2> HIDE DEF new
  <2>3. /\ DOMAIN scans' = Scans /\ scans'[s] = new
        /\ \A t \in Scans \ {s} : scans'[t] = scans[t]
    BY <2>2 DEF AdviceInv, ScansOK
  <2>4. ScansOK' /\ RunsAlone'
    BY <1>1, <1>2, <2>1, <2>3 DEF AdviceInv, ScansOK, RunsAlone, IsIn
  <2>5. RecoveryInv' /\ WorthOK' /\ PlansKept /\ UNCHANGED policies
    <3>1. UNCHANGED <<calls, plans, inFlight, executed, goods, tick, policies>>
      BY <1>4 DEF recoveryVars, planVars, storeVars
    <3>2. QED
      BY <3>1, NothingChanges DEF AdviceInv, WorthOK, PlansKept
  <2>6. \A t \in Scans : Planned(t)'
    <3>1. Planned(s)'
      BY <2>1, <2>3 DEF Planned, IsIn
    <3>2. ASSUME NEW t \in Scans \ {s} PROVE Planned(t)'
      BY <2>3, <2>5, PlannedStays DEF AdviceInv
    <3>3. QED
      BY <3>1, <3>2
  <2>7. QED
    BY <2>4, <2>5, <2>6 DEF AdviceInv
<1>5. QED
    BY <1>3, <1>4 DEF runWorkflowScan

LEMMA DemoKeeps ==
    ASSUME RecoveryInv, AdviceInv, NEW s \in Scans, runBountyDemo(s)
    PROVE  RecoveryInv' /\ AdviceInv'
<1>1. PICK o \in Demo : Seed(s, o)
    BY DEF runBountyDemo
<1>2. /\ executing = Nobody /\ executing' = s
      /\ UNCHANGED <<policies, tick, calls, plans, inFlight, executed, card>>
      /\ Found(s, "EVM_LOG_STRANDED", "seeded", o, 0)
    BY <1>1 DEF runBountyDemo, CanRun, Seed
<1>3. DOMAIN processed' = 1..MaxCards /\ s # Nobody
    BY <1>1 DEF Seed, AdviceInv, ScansOK, Scans, Nobody
<1>4. /\ ScansOK' /\ scans'[s].at = "seeded" /\ scans'[s].card = card
      /\ scans'[s].trigger = "EVM_LOG_STRANDED" /\ scans'[s].object = o
      /\ \A t \in Scans \ {s} : scans'[t] = scans[t]
    BY <1>2, <1>3, ScanIsFound DEF AdviceInv
<1>5. \A t \in Scans : scans[t].at \notin {"seeded", "executing"}
    BY <1>2 DEF AdviceInv, RunsAlone, Scans, Nobody
<1>6. RunsAlone'
  <2>1. o \in Objects
    BY ScanAssumption
  <2>2. QED
    BY <1>2, <1>4, <1>5, <2>1 DEF RunsAlone, IsIn
<1>7. WorthOK'
  <2>1. DemoGoods \in [consumed : Nat, value : Nat]
    BY DEF DemoGoods, Milli
  <2>2. goods' \in [Objects -> [consumed : Nat, value : Nat]]
    BY <1>1, <2>1 DEF Seed, AdviceInv, WorthOK
  <2>3. QED
    BY <1>2, <2>2 DEF AdviceInv, WorthOK
<1>8. RecoveryInv' /\ PlansKept
    BY <1>2, NothingChanges DEF PlansKept
<1>9. \A t \in Scans : Planned(t)'
  <2>1. Planned(s)'
    BY <1>4 DEF Planned, IsIn
  <2>2. ASSUME NEW t \in Scans \ {s} PROVE Planned(t)'
    BY <1>2, <1>4, <1>8, PlannedStays DEF AdviceInv
  <2>3. QED
    BY <2>1, <2>2
<1>10. QED
    BY <1>4, <1>6, <1>7, <1>8, <1>9 DEF AdviceInv

\* A scan's answer is judged, or its execution is over.
LEMMA JudgementKeeps ==
    ASSUME RecoveryInv, AdviceInv, NEW s \in Scans,
           scans[s].at \in {"asking", "recovering"},
           NEW status \in Reports, Report(s, status), executing = Nobody,
           UNCHANGED <<recoveryVars, card, executing>>,
           UNCHANGED processed \/ Sweep(s)
    PROVE  RecoveryInv' /\ AdviceInv'
<1>1. card' \in 1..MaxCards /\ DOMAIN processed' = 1..MaxCards
    BY DEF AdviceInv, ScansOK, Sweep
<1>2. /\ ScansOK' /\ scans'[s].at = status
      /\ \A t \in Scans \ {s} : scans'[t] = scans[t]
    BY <1>1, ScanMoves DEF AdviceInv
<1>3. status \notin {"seeded", "asking", "executing"}
    BY DEF Reports
<1>4. RunsAlone'
    BY <1>2, <1>3 DEF AdviceInv, RunsAlone, IsIn
<1>5. RecoveryInv' /\ WorthOK' /\ PlansKept /\ UNCHANGED policies
  <2>1. UNCHANGED <<calls, plans, inFlight, executed, goods, tick, policies>>
    BY DEF recoveryVars, planVars, storeVars
  <2>2. QED
    BY <2>1, NothingChanges DEF AdviceInv, WorthOK, PlansKept
<1>6. \A t \in Scans : Planned(t)'
  <2>1. Planned(s)'
    BY <1>2, <1>3 DEF Planned, IsIn
  <2>2. ASSUME NEW t \in Scans \ {s} PROVE Planned(t)'
    BY <1>2, <1>5, PlannedStays DEF AdviceInv
  <2>3. QED
    BY <2>1, <2>2
<1>7. QED
    BY <1>2, <1>4, <1>5, <1>6 DEF AdviceInv

LEMMA ScanProceedsKeeps ==
    ASSUME RecoveryInv, AdviceInv, NEW s \in Scans, NEW advice,
           ScanProceeds(s, advice)
    PROVE  RecoveryInv' /\ AdviceInv'
<1> DEFINE p == scans[s].plan
<1>1. /\ executing = Nobody /\ scans[s].at = "asking"
      /\ executing' = s /\ Report(s, "executing")
      /\ ~Vetoed(scans[s].object, advice) /\ PolicyOn(p, advice) = {}
      /\ ~Locked(p) /\ plans' = [plans EXCEPT ![p] = Copy(p, advice)]
      /\ UNCHANGED <<policies, calls, goods, tick, inFlight, executed, card,
                     processed>>
    BY DEF ScanProceeds, MayProceed, IsIn, storeVars
<1>2. p \in Plans /\ plans[p] # NoPlan /\ plans[p].object = scans[s].object
    BY <1>1 DEF AdviceInv, Planned
<1>3. /\ RecoveryInv'
      /\ plans'[p] # NoPlan /\ plans'[p].object = plans[p].object
      /\ plans'[p].owner = plans[p].owner
      /\ plans'[p].expected = plans[p].expected
      /\ plans'[p].strategy = Proposed(p, advice)
      /\ \A q \in Plans \ {p} : plans'[q] = plans[q]
    BY <1>1, <1>2, CopyKeeps
<1>4. /\ ScansOK' /\ scans'[s].at = "executing"
      /\ scans'[s].plan = p /\ scans'[s].object = scans[s].object
      /\ \A t \in Scans \ {s} : scans'[t] = scans[t]
  <2>1. card' \in 1..MaxCards /\ DOMAIN processed' = 1..MaxCards
    BY <1>1 DEF AdviceInv, ScansOK
  <2>2. QED
    BY <1>1, <2>1, ScanMoves DEF AdviceInv
<1>5. s # Nobody /\ \A t \in Scans : scans[t].at \notin {"seeded", "executing"}
    BY <1>1 DEF AdviceInv, RunsAlone, Scans, Nobody
<1>6. RunsAlone'
    BY <1>1, <1>4, <1>5 DEF RunsAlone, IsIn
<1>7. WorthOK'
  <2>1. plans'[p].strategy = "TRANSFER" => plans'[p].object \in Transferable
    <3>1. CASE advice \in Strategies \cup {"OTHER"}
      BY <1>1, <1>2, <1>3, <3>1 DEF Proposed, Vetoed
    <3>2. CASE advice \notin Strategies \cup {"OTHER"}
      BY <1>2, <1>3, <3>2 DEF Proposed, AdviceInv, WorthOK
    <3>3. QED
      BY <3>1, <3>2
  <2>2. plans'[p].expected \in Nat
    BY <1>2, <1>3 DEF AdviceInv, WorthOK
  <2>3. QED
    BY <1>1, <1>3, <2>1, <2>2 DEF AdviceInv, WorthOK
<1>8. \A t \in Scans : Planned(t)'
  <2>1. Planned(s)'
    <3>1. validateRecovery(plans[p].owner, Proposed(p, advice),
                           plans[p].expected) = {}
      BY <1>1 DEF PolicyOn
    <3>2. \A owner, strategy, expected :
              validateRecovery(owner, strategy, expected)'
              = validateRecovery(owner, strategy, expected)
      BY <1>1 DEF validateRecovery
    <3>3. validateRecovery(plans'[p].owner, plans'[p].strategy,
                           plans'[p].expected) = {}
      BY <1>3, <3>1
    <3>4. QED
      BY <1>2, <1>3, <1>4, <3>2, <3>3 DEF Planned, IsIn
  <2>2. ASSUME NEW t \in Scans \ {s} PROVE Planned(t)'
    <3>1. Planned(t) /\ scans'[t] = scans[t] /\ ~IsIn(t, "executing")
      BY <1>4, <1>5 DEF AdviceInv, IsIn
    <3>2. QED
      BY <1>3, <3>1 DEF Planned, IsIn
  <2>3. QED
    BY <2>1, <2>2
<1>9. QED
    BY <1>3, <1>4, <1>6, <1>7, <1>8 DEF AdviceInv

LEMMA ScanExecutesKeeps ==
    ASSUME RecoveryInv, AdviceInv, NEW s \in Scans, ScanExecutes(s)
    PROVE  RecoveryInv' /\ AdviceInv'
<1>1. /\ scans[s].at = "executing" /\ executing' = Nobody
      /\ UNCHANGED <<card, processed>>
    BY DEF ScanExecutes, IsIn
<1>2. PICK c \in Calls :
          /\ \/ executePlan(c, scans[s].plan, TRUE)
             \/ Abandon(c, scans[s].plan, TRUE)
          /\ scans' = [scans EXCEPT ![s] = [@ EXCEPT !.at = "recovering",
                                                    !.call = c]]
    BY DEF ScanExecutes
<1>3. scans[s].plan \in Plans
    BY <1>1 DEF AdviceInv, Planned
<1>4. RecoveryInv' /\ PlansStay /\ UNCHANGED policies /\ WorthOK'
    BY <1>2, <1>3, ExecutePlanKeeps, AbandonKeeps, ExecutionStays DEF AdviceInv
<1>5. /\ ScansOK' /\ scans'[s].at = "recovering"
      /\ \A t \in Scans \ {s} : scans'[t] = scans[t]
  <2> DEFINE moved == [scans[s] EXCEPT !.at = "recovering"]
             new == [moved EXCEPT !.call = c]
  <2>1. IsScan(scans[s]) /\ scans[s] # NoScan
    BY <1>1 DEF AdviceInv, ScansOK, NoScan, IsIn
  <2>2. IsScan(new) /\ new.at = "recovering" /\ new.card = scans[s].card
    <3>1. /\ IsScan(moved) /\ moved.at = "recovering"
          /\ moved.card = scans[s].card
      BY <2>1 DEF IsScan
    <3> HIDE DEF moved
    <3>2. QED
      BY <3>1 DEF IsScan
  <2>3. scans' = [scans EXCEPT ![s] = new]
    BY <1>2
  <2> HIDE DEF moved, new
  <2>4. /\ DOMAIN scans' = Scans /\ scans'[s] = new
        /\ \A t \in Scans \ {s} : scans'[t] = scans[t]
    BY <2>3 DEF AdviceInv, ScansOK
  <2>5. QED
    BY <1>1, <2>1, <2>2, <2>4 DEF AdviceInv, ScansOK, IsIn
<1>6. \A t \in Scans \ {s} : scans[t].at \notin {"seeded", "executing"}
    BY <1>1 DEF AdviceInv, RunsAlone
<1>7. RunsAlone'
    BY <1>1, <1>5, <1>6 DEF RunsAlone, IsIn
<1>8. \A t \in Scans : Planned(t)'
  <2>1. Planned(s)'
    BY <1>5 DEF Planned, IsIn
  <2>2. ASSUME NEW t \in Scans \ {s} PROVE Planned(t)'
    BY <1>4, <1>5, PlannedStays DEF AdviceInv, PlansStay, PlansKept
  <2>3. QED
    BY <2>1, <2>2
<1>9. QED
    BY <1>4, <1>5, <1>7, <1>8 DEF AdviceInv

\* The scans stay as they are.
LEMMA ScansStay ==
    ASSUME AdviceInv, RecoveryInv', WorthOK', PlansStay,
           UNCHANGED <<scans, processed, executing>>, card' \in 1..MaxCards,
           UNCHANGED card \/ executing = Nobody,
           UNCHANGED policies \/ executing = Nobody
    PROVE  AdviceInv'
<1>1. executing = Nobody =>
          \A t \in Scans : scans[t].at \notin {"seeded", "executing"}
    BY DEF AdviceInv, RunsAlone, Scans, Nobody
<1>2. ScansOK' /\ RunsAlone'
    BY <1>1 DEF AdviceInv, ScansOK, RunsAlone, IsIn
<1>3. \A t \in Scans : Planned(t)'
    BY <1>1, PlannedStays DEF AdviceInv, PlansStay, PlansKept, IsIn
<1>4. QED
    BY <1>2, <1>3 DEF AdviceInv

LEMMA ScanSeededKeeps ==
    ASSUME RecoveryInv, AdviceInv, NEW s \in Scans, ScanSeeded(s),
           scans[s].object \in Objects
    PROVE  RecoveryInv' /\ AdviceInv'
<1>1. /\ Examine(s, "EVM_LOG_STRANDED", scans[s].object)
      /\ scans[s].at = "seeded"
      /\ executing' = Nobody /\ UNCHANGED <<card, processed>>
    BY DEF ScanSeeded, IsIn
<1>2. /\ RecoveryInv' /\ ScansOK' /\ WorthOK'
      /\ \A t \in Scans : Planned(t)'
      /\ scans'[s].at \in {"NO_CANDIDATES", "asking"}
      /\ \A t \in Scans \ {s} : scans'[t] = scans[t]
    BY <1>1, ExamineKeeps DEF AdviceInv, ScansOK
<1>3. \A t \in Scans \ {s} : scans[t].at \notin {"seeded", "executing"}
    BY <1>1 DEF AdviceInv, RunsAlone
<1>4. RunsAlone'
    BY <1>1, <1>2, <1>3 DEF RunsAlone, IsIn
<1>5. QED
    BY <1>2, <1>4 DEF AdviceInv

LEMMA ScanResumesKeeps ==
    ASSUME RecoveryInv, AdviceInv, NEW s \in Scans, ScanResumes(s)
    PROVE  RecoveryInv' /\ AdviceInv'
<1>1. CASE ScanSeeded(s)
  <2>1. scans[s].object \in Objects
    BY <1>1 DEF ScanSeeded, AdviceInv, RunsAlone
  <2>2. QED
    BY <1>1, <2>1, ScanSeededKeeps
<1>2. CASE ScanExecutes(s)
    BY <1>2, ScanExecutesKeeps
<1>3. CASE ScanReports(s)
  <2>1. /\ scans[s].at = "recovering" /\ executing = Nobody
        /\ UNCHANGED <<recoveryVars, card, executing>>
        /\ \/ Report(s, "SUCCESS") /\ Sweep(s)
           \/ Report(s, "FAILED") /\ UNCHANGED processed
    BY <1>3 DEF ScanReports, IsIn
  <2>2. QED
    BY <2>1, JudgementKeeps DEF Reports
<1>4. ASSUME NEW advice, ScanHalts(s, advice)
      PROVE  RecoveryInv' /\ AdviceInv'
  <2>1. /\ scans[s].at = "asking" /\ executing = Nobody
        /\ UNCHANGED <<recoveryVars, card, processed, executing>>
        /\ Report(s, "BLOCKED_BY_POLICY") \/ Report(s, "REVIEW_REQUIRED")
    BY <1>4 DEF ScanHalts, IsIn
  <2>2. QED
    BY <2>1, JudgementKeeps DEF Reports
<1>5. ASSUME NEW advice, ScanDeclined(s, advice)
      PROVE  RecoveryInv' /\ AdviceInv'
  <2>1. /\ scans[s].at = "asking" /\ executing = Nobody
        /\ UNCHANGED <<recoveryVars, card, executing>>
        /\ \/ Report(s, "SUCCESS") /\ Sweep(s)
           \/ Report(s, "FAILED") /\ UNCHANGED processed
    BY <1>5 DEF ScanDeclined, MayProceed, IsIn
  <2>2. QED
    BY <2>1, JudgementKeeps DEF Reports
<1>6. ASSUME NEW advice, ScanProceeds(s, advice)
      PROVE  RecoveryInv' /\ AdviceInv'
    BY <1>6, ScanProceedsKeeps
<1>7. QED
    BY <1>1, <1>2, <1>3, <1>4, <1>5, <1>6 DEF ScanResumes

LEMMA AdviceInvStep ==
    RecoveryInv /\ AdviceInv /\ [ScanNext]_allVars => RecoveryInv' /\ AdviceInv'
<1> SUFFICES ASSUME RecoveryInv, AdviceInv, [ScanNext]_allVars
             PROVE  RecoveryInv' /\ AdviceInv'
    OBVIOUS
<1>1. ASSUME UNCHANGED <<recoveryVars, scans, processed, executing>>,
             card' \in 1..MaxCards, UNCHANGED card \/ executing = Nobody
      PROVE  RecoveryInv' /\ AdviceInv'
  <2>1. UNCHANGED <<calls, plans, inFlight, executed, goods, tick, policies>>
    BY <1>1 DEF recoveryVars, planVars, storeVars
  <2>2. RecoveryInv' /\ WorthOK' /\ PlansStay
    BY <2>1, NothingChanges DEF AdviceInv, WorthOK, PlansStay
  <2>3. QED
    BY <1>1, <2>1, <2>2, ScansStay
<1>2. card \in 1..MaxCards /\ card \in Nat
    BY DEF AdviceInv, ScansOK
<1>3. CASE UNCHANGED allVars
    BY <1>1, <1>2, <1>3 DEF allVars, scanVars
<1>4. ASSUME NEW s \in Scans,
             runWorkflowScan(s) \/ runBountyDemo(s) \/ ScanResumes(s)
      PROVE  RecoveryInv' /\ AdviceInv'
    BY <1>4, RunKeeps, DemoKeeps, ScanResumesKeeps
<1>5. CASE Remount
  <2>1. card' \in 1..MaxCards
    BY <1>2, <1>5, ScanAssumption DEF Remount
  <2>2. QED
    BY <1>1, <1>5, <2>1 DEF Remount
<1>6. CASE Elsewhere
  <2>1. RecoveryInv' /\ PlansStay /\ WorthOK'
    BY <1>6, ElsewhereStays DEF AdviceInv
  <2>2. executing = Nobody /\ UNCHANGED <<scans, card, processed, executing>>
    BY <1>6 DEF Elsewhere, scanVars
  <2>3. QED
    BY <1>2, <2>1, <2>2, ScansStay
<1>7. QED
    BY <1>3, <1>4, <1>5, <1>6 DEF ScanNext

LEMMA AdviceInvInit == ScanInit => RecoveryInv /\ AdviceInv
<1> SUFFICES ASSUME ScanInit PROVE RecoveryInv /\ AdviceInv
    OBVIOUS
<1>1. RecoveryInv
    BY RecoveryInvInit DEF ScanInit
<1>2. /\ scans = [s \in Scans |-> NoScan] /\ card = 1 /\ executing = Nobody
      /\ processed = [k \in 1..MaxCards |-> {}]
      /\ goods \in [Objects -> [consumed : {0}, value : {Milli * 10000}]]
      /\ plans = [p \in Plans |-> NoPlan] /\ tick = FirstTick
    BY DEF ScanInit, RecoveryInit, StoreInit
<1>3. 1 \in 1..MaxCards
    BY ScanAssumption
<1>4. ScansOK /\ RunsAlone /\ \A s \in Scans : Planned(s)
    BY <1>2, <1>3 DEF ScansOK, RunsAlone, Planned, NoScan, IsIn
<1>5. WorthOK
  <2>1. Milli * 10000 \in Nat
    BY DEF Milli
  <2>2. QED
    BY <1>2, <2>1, StoreAssumption DEF WorthOK
<1>6. QED
    BY <1>1, <1>4, <1>5 DEF AdviceInv

\* Qwen reasons, the policy decides: every step from "executing" starts what
\* the owner's policy permits, whatever Qwen advised
\* (creService.ts:226-281, :322).
THEOREM AdviceIsHeeded == ScanSpec => AdviceIsChecked
<1>1. ASSUME RecoveryInv, AdviceInv
      PROVE  \A s \in Scans :
                IsIn(s, "executing") /\ ~(scans'[s].at = "executing") =>
                   LET it == plans[scans[s].plan]
                   IN  /\ validateRecovery(it.owner, it.strategy,
                                           it.expected) = {}
                       /\ it.strategy = "TRANSFER" => it.object \in Transferable
    BY <1>1 DEF AdviceInv, Planned, WorthOK, IsIn
<1>2. QED
    BY <1>1, AdviceInvInit, AdviceInvStep, PTL DEF ScanSpec, AdviceIsChecked

-----------------------------------------------------------------------------
(* Scans: an object is swept once                                          *)

\* A scan begins: a scheduled one, of an object that was not swept, or a
\* demonstration, which forgets that its object was.
Begins(s) ==
    /\ CanRun(s)
    /\ scans'[s].at \in {"NO_CANDIDATES", "asking", "seeded"}
    /\ scans'[s].card = card /\ scans'[s] # NoScan
    /\ \A t \in Scans \ {s} : scans'[t] = scans[t]
    /\ \/ /\ scans'[s].trigger = "CRON_SCHEDULE" /\ UNCHANGED processed
          /\ IsIn(s, "asking")' => scans'[s].object \notin processed[card]
       \/ /\ scans'[s].trigger = "EVM_LOG_STRANDED"
          /\ \E o \in Objects :
                processed' = [processed EXCEPT ![card] = @ \ {o}]

\* A scan goes on; when it succeeds, its object was swept.
GoesOn(s) ==
    /\ scans[s].at \in {"seeded", "asking", "executing", "recovering"}
    /\ scans'[s] # NoScan /\ scans'[s].card = scans[s].card
    /\ scans'[s].trigger = scans[s].trigger
    /\ scans'[s].object = scans[s].object
    /\ \A t \in Scans \ {s} : scans'[t] = scans[t]
    /\ \/ UNCHANGED processed /\ ~(scans'[s].at = "SUCCESS")
       \/ Sweep(s)
    /\ IsIn(s, "seeded") => scans[s].trigger = "EVM_LOG_STRANDED"

LEMMA ScansChange ==
    ASSUME RecoveryInv, AdviceInv, [ScanNext]_allVars
    PROVE  \/ UNCHANGED <<scans, processed>>
           \/ \E s \in Scans : Begins(s) \/ GoesOn(s)
<1>1. CASE UNCHANGED allVars \/ Remount \/ Elsewhere
    BY <1>1 DEF allVars, scanVars, Remount, Elsewhere
<1>2. card \in 1..MaxCards /\ DOMAIN processed = 1..MaxCards /\ ScansOK
      /\ PlanningAssumption
    BY PlanningAssumption DEF AdviceInv, ScansOK
<1>3. ASSUME NEW s \in Scans, runWorkflowScan(s)
      PROVE  Begins(s)
  <2>1. CanRun(s) /\ UNCHANGED <<card, processed, executing>>
    BY <1>3 DEF runWorkflowScan
  <2>2. ASSUME NEW o \in Objects, IsCandidate(o),
               Examine(s, "CRON_SCHEDULE", o)
        PROVE  Begins(s)
    <3>1. /\ scans'[s].at \in {"NO_CANDIDATES", "asking"}
          /\ scans'[s] # NoScan /\ scans'[s].object = o
          /\ scans'[s].card = card /\ scans'[s].trigger = "CRON_SCHEDULE"
          /\ \A t \in Scans \ {s} : scans'[t] = scans[t]
      BY <1>2, <2>1, <2>2, ExamineKeeps
    <3>2. o \notin processed[card]
      BY <2>2 DEF IsCandidate
    <3>3. QED
      BY <2>1, <3>1, <3>2 DEF Begins
  <2>3. CASE scans' = [scans EXCEPT ![s] =
                [at |-> "NO_CANDIDATES", trigger |-> "CRON_SCHEDULE",
                 card |-> card, plan |-> 0, call |-> 0]]
    <3> DEFINE new == [at |-> "NO_CANDIDATES", trigger |-> "CRON_SCHEDULE",
                       card |-> card, plan |-> 0, call |-> 0]
    <3>1. /\ new.at = "NO_CANDIDATES" /\ new.card = card
          /\ new.trigger = "CRON_SCHEDULE" /\ new # NoScan
      <4>1. new.at # NoScan.at
        BY DEF NoScan
      <4>2. QED
        BY <4>1
    <3>2. scans' = [scans EXCEPT ![s] = new]
      BY <2>3
    <3> HIDE DEF new
    <3>3. scans'[s] = new /\ \A t \in Scans \ {s} : scans'[t] = scans[t]
      BY <1>2, <3>2 DEF ScansOK
    <3>4. QED
      BY <2>1, <3>1, <3>3 DEF Begins, IsIn
  <2>4. QED
    BY <1>3, <2>2, <2>3 DEF runWorkflowScan
<1>4. ASSUME NEW s \in Scans, runBountyDemo(s)
      PROVE  Begins(s)
  <2>1. PICK o \in Demo : Seed(s, o)
    BY <1>4 DEF runBountyDemo
  <2>2. /\ CanRun(s) /\ o \in Objects /\ UNCHANGED card
        /\ processed' = [processed EXCEPT ![card] = @ \ {o}]
        /\ Found(s, "EVM_LOG_STRANDED", "seeded", o, 0)
    BY <1>4, <2>1, ScanAssumption DEF runBountyDemo, Seed
  <2>3. /\ scans'[s].at = "seeded" /\ scans'[s].card = card
        /\ scans'[s] # NoScan /\ scans'[s].trigger = "EVM_LOG_STRANDED"
        /\ \A t \in Scans \ {s} : scans'[t] = scans[t]
    BY <1>2, <2>2, ScanIsFound
  <2>4. QED
    BY <2>2, <2>3 DEF Begins
<1>5. ASSUME NEW s \in Scans, ScanSeeded(s)
      PROVE  GoesOn(s)
  <2>1. /\ Examine(s, "EVM_LOG_STRANDED", scans[s].object)
        /\ scans[s].at = "seeded" /\ scans[s].object \in Objects
        /\ scans[s].trigger = "EVM_LOG_STRANDED" /\ scans[s].card = card
        /\ UNCHANGED <<card, processed>>
    BY <1>5 DEF ScanSeeded, AdviceInv, RunsAlone, IsIn
  <2>2. /\ scans'[s].at \in {"NO_CANDIDATES", "asking"}
        /\ scans'[s] # NoScan /\ scans'[s].object = scans[s].object
        /\ scans'[s].card = card /\ scans'[s].trigger = "EVM_LOG_STRANDED"
        /\ \A t \in Scans \ {s} : scans'[t] = scans[t]
    BY <1>2, <2>1, ExamineKeeps
  <2>3. QED
    BY <2>1, <2>2 DEF GoesOn
<1>6. ASSUME NEW s \in Scans, ScanExecutes(s)
      PROVE  GoesOn(s)
  <2>1. scans[s].at = "executing" /\ UNCHANGED processed
    BY <1>6 DEF ScanExecutes, IsIn
  <2>2. PICK c \in Calls :
            scans' = [scans EXCEPT ![s] = [@ EXCEPT !.at = "recovering",
                                                    !.call = c]]
    BY <1>6 DEF ScanExecutes
  <2> DEFINE moved == [scans[s] EXCEPT !.at = "recovering"]
             new == [moved EXCEPT !.call = c]
  <2>3. IsScan(scans[s])
    BY <1>2, <2>1 DEF ScansOK, NoScan, IsIn
  <2>4. /\ new.at = "recovering" /\ new.card = scans[s].card
        /\ new.trigger = scans[s].trigger /\ new.object = scans[s].object
    <3>1. /\ IsScan(moved) /\ moved.at = "recovering"
          /\ moved.card = scans[s].card /\ moved.trigger = scans[s].trigger
          /\ moved.object = scans[s].object
      BY <2>3 DEF IsScan
    <3> HIDE DEF moved
    <3>2. QED
      BY <3>1 DEF IsScan
  <2>5. scans' = [scans EXCEPT ![s] = new]
    BY <2>2
  <2> HIDE DEF moved, new
  <2>6. scans'[s] = new /\ \A t \in Scans \ {s} : scans'[t] = scans[t]
    BY <1>2, <2>5 DEF ScansOK
  <2>7. new # NoScan
    BY <2>4 DEF NoScan
  <2>8. QED
    BY <2>1, <2>4, <2>6, <2>7 DEF GoesOn, IsIn
<1>7. ASSUME NEW s \in Scans, NEW status,
             scans[s].at \in {"asking", "executing", "recovering"},
             Report(s, status), UNCHANGED card,
             \/ UNCHANGED processed /\ status # "SUCCESS"
             \/ Sweep(s)
      PROVE  GoesOn(s)
  <2>1. card' \in 1..MaxCards /\ DOMAIN processed' = 1..MaxCards
    BY <1>2, <1>7 DEF Sweep
  <2>2. /\ scans'[s].at = status /\ scans'[s] # NoScan
        /\ scans'[s].object = scans[s].object
        /\ scans'[s].card = scans[s].card
        /\ scans'[s].trigger = scans[s].trigger
        /\ \A t \in Scans \ {s} : scans'[t] = scans[t]
    BY <1>2, <1>7, <2>1, ScanMoves
  <2>3. QED
    BY <1>7, <2>2 DEF GoesOn, IsIn
<1>8. ASSUME NEW s \in Scans, ScanReports(s)
      PROVE  GoesOn(s)
  <2>1. /\ scans[s].at = "recovering" /\ UNCHANGED card
        /\ \/ Report(s, "SUCCESS") /\ Sweep(s)
           \/ Report(s, "FAILED") /\ UNCHANGED processed
    BY <1>8 DEF ScanReports, IsIn
  <2>2. QED
    BY <1>7, <2>1
<1>9. ASSUME NEW s \in Scans, NEW advice, ScanHalts(s, advice)
      PROVE  GoesOn(s)
  <2>1. /\ scans[s].at = "asking" /\ UNCHANGED <<card, processed>>
        /\ Report(s, "BLOCKED_BY_POLICY") \/ Report(s, "REVIEW_REQUIRED")
    BY <1>9 DEF ScanHalts, IsIn
  <2>2. QED
    BY <1>7, <2>1
<1>10. ASSUME NEW s \in Scans, NEW advice, ScanDeclined(s, advice)
       PROVE  GoesOn(s)
  <2>1. /\ scans[s].at = "asking" /\ UNCHANGED card
        /\ \/ Report(s, "SUCCESS") /\ Sweep(s)
           \/ Report(s, "FAILED") /\ UNCHANGED processed
    BY <1>10 DEF ScanDeclined, MayProceed, IsIn
  <2>2. QED
    BY <1>7, <2>1
<1>11. ASSUME NEW s \in Scans, NEW advice, ScanProceeds(s, advice)
       PROVE  GoesOn(s)
  <2>1. /\ scans[s].at = "asking" /\ UNCHANGED <<card, processed>>
        /\ Report(s, "executing")
    BY <1>11 DEF ScanProceeds, MayProceed, IsIn
  <2>2. QED
    BY <1>7, <2>1
<1>12. ASSUME NEW s \in Scans, ScanResumes(s)
       PROVE  GoesOn(s)
    BY <1>5, <1>6, <1>8, <1>9, <1>10, <1>11, <1>12 DEF ScanResumes
<1>13. QED
    BY <1>1, <1>3, <1>4, <1>12 DEF ScanNext

LEMMA BeginKeepsSweeps ==
    ASSUME ScansOK, SweepInv, NEW n \in Scans, Begins(n), Scans \subseteq Nat
    PROVE  SweepInv'
<1>1. /\ scans[n] = NoScan
      /\ \A t \in Scans : t < n => scans[t] # NoScan
      /\ \A t \in Scans : scans[t] # NoScan /\ scans[t].card = card
                             => IsReported(t)
  <2>1. \A t \in Scans : t < n => t \in 1..(n - 1)
    BY DEF Scans
  <2>2. QED
    BY <2>1 DEF Begins, CanRun, IsUnused
<1>2. /\ scans'[n] # NoScan /\ scans'[n].card = card
      /\ scans'[n].at \in {"NO_CANDIDATES", "asking", "seeded"}
      /\ \A t \in Scans \ {n} : scans'[t] = scans[t]
    BY DEF Begins
<1>3. \A t \in Scans : scans[t] # NoScan => t < n
    BY <1>1 DEF SweepInv, InTurn
<1>4. InTurn'
  <2> SUFFICES ASSUME NEW s \in Scans, NEW t \in Scans, s < t,
                      scans'[t] # NoScan
               PROVE  /\ scans'[s] # NoScan
                      /\ scans'[s].card = scans'[t].card => IsReported(s)'
    BY DEF InTurn
  <2>1. CASE t = n
    BY <1>1, <1>2, <2>1 DEF IsReported
  <2>2. CASE t # n
    <3>1. scans'[t] = scans[t] /\ t < n
      BY <1>2, <1>3, <2>2
    <3>2. s # n /\ scans'[s] = scans[s]
      BY <1>2, <3>1
    <3>3. QED
      BY <3>1, <3>2 DEF SweepInv, InTurn, IsReported
  <2>3. QED
    BY <2>1, <2>2
<1>5. \A d \in Scans : \A k : IsDemo(d, k) => d < n /\ IsDemo(d, k)'
    BY <1>1, <1>2, <1>3 DEF IsDemo
<1>6. \A s \in Scans : Scheduled(s)' =>
          s < n /\ Scheduled(s) /\ scans'[s] = scans[s]
  <2>1. TAKE s \in Scans
  <2>2. HAVE Scheduled(s)'
  <2>3. s # n
    BY <1>2, <2>2 DEF Scheduled, IsIn
  <2>4. scans'[s] = scans[s] /\ Scheduled(s) /\ scans[s] # NoScan
    BY <1>2, <2>2, <2>3 DEF Scheduled, IsIn, NoScan
  <2>5. QED
    BY <1>3, <2>4
<1>7. SweepsKnown'
  <2> SUFFICES ASSUME NEW s \in Scans, Scheduled(s)'
               PROVE  \/ scans'[s].object \in processed'[scans'[s].card]
                      \/ \E d \in Scans : d > s /\ IsDemo(d, scans[s].card)'
    BY DEF SweepsKnown
  <2>1. s < n /\ Scheduled(s) /\ scans'[s] = scans[s]
        /\ scans[s].card \in 1..MaxCards
    BY <1>6 DEF ScansOK, Scheduled, IsIn, NoScan
  <2>2. CASE UNCHANGED processed
    <3>1. \/ scans[s].object \in processed[scans[s].card]
          \/ \E d \in Scans : d > s /\ IsDemo(d, scans[s].card)
      BY <2>1 DEF SweepInv, SweepsKnown
    <3>2. \A d \in Scans : IsDemo(d, scans[s].card) =>
                               IsDemo(d, scans[s].card)'
      <4> TAKE d \in Scans
      <4>1. scans'[s].card = scans[s].card
        BY <2>1
      <4>2. QED
        BY <1>5, <4>1 DEF IsDemo
    <3>3. QED
      BY <2>1, <2>2, <3>1, <3>2
  <2>3. CASE /\ scans'[n].trigger = "EVM_LOG_STRANDED"
             /\ \E o \in Objects :
                   processed' = [processed EXCEPT ![card] = @ \ {o}]
    <3>1. CASE scans[s].card = card
      <4>1. n > s /\ IsDemo(n, scans[s].card)'
        BY <1>2, <2>1, <2>3, <3>1 DEF IsDemo
      <4>2. QED
        BY <4>1
    <3>2. CASE scans[s].card # card
      <4>1. processed'[scans[s].card] = processed[scans[s].card]
        BY <2>1, <2>3, <3>2 DEF ScansOK
      <4>2. QED
        BY <1>5, <2>1, <4>1 DEF SweepInv, SweepsKnown, IsDemo
    <3>3. QED
      BY <3>1, <3>2
  <2>4. QED
    BY <2>2, <2>3 DEF Begins
<1>8. PutBack'
  <2> SUFFICES ASSUME NEW s \in Scans, NEW t \in Scans, s < t, Scheduled(s)',
                      scans'[t].at \in {"asking", "executing", "recovering",
                                        "SUCCESS"},
                      scans'[t].trigger = "CRON_SCHEDULE",
                      scans'[s].card = scans'[t].card,
                      scans'[s].object = scans'[t].object
               PROVE  \E d \in Scans :
                         s < d /\ d < t /\ IsDemo(d, scans[s].card)'
    BY DEF PutBack
  <2>1. Scheduled(s) /\ scans'[s] = scans[s]
    BY <1>6
  <2>2. CASE t # n
    <3>1. scans'[t] = scans[t]
      BY <1>2, <2>2
    <3>2. PICK d \in Scans : s < d /\ d < t /\ IsDemo(d, scans[s].card)
      BY <2>1, <3>1 DEF SweepInv, PutBack
    <3>3. QED
      BY <1>5, <2>1, <3>2 DEF IsDemo
  <2>3. CASE t = n
    <3>1. /\ scans'[n].object \notin processed[card]
          /\ scans[s].card = card /\ scans[s].object = scans'[n].object
      BY <1>2, <2>1, <2>3 DEF Begins, IsIn
    <3>2. PICK d \in Scans : d > s /\ IsDemo(d, scans[s].card)
      BY <2>1, <3>1 DEF SweepInv, SweepsKnown
    <3>3. QED
      BY <1>5, <2>1, <2>3, <3>2 DEF IsDemo
  <2>4. QED
    BY <2>2, <2>3
<1>9. QED
    BY <1>4, <1>7, <1>8 DEF SweepInv

LEMMA GoingOnKeepsSweeps ==
    ASSUME ScansOK, SweepInv, NEW m \in Scans, GoesOn(m), Scans \subseteq Nat
    PROVE  SweepInv'
<1>1. /\ scans[m].at \in {"seeded", "asking", "executing", "recovering"}
      /\ scans'[m] # NoScan /\ scans'[m].card = scans[m].card
      /\ scans'[m].trigger = scans[m].trigger
      /\ scans'[m].object = scans[m].object
      /\ \A t \in Scans \ {m} : scans'[t] = scans[t]
      /\ IsIn(m, "seeded") => scans[m].trigger = "EVM_LOG_STRANDED"
    BY DEF GoesOn
<1>2. scans[m] # NoScan /\ ~IsReported(m) /\ scans[m].card \in 1..MaxCards
    BY <1>1 DEF ScansOK, NoScan, IsReported, Reports
<1>3. \A s \in Scans : /\ scans'[s] # NoScan <=> scans[s] # NoScan
                       /\ scans'[s].card = scans[s].card
                       /\ scans'[s].trigger = scans[s].trigger
                       /\ scans'[s].object = scans[s].object
                       /\ IsReported(s) => IsReported(s)'
    BY <1>1, <1>2 DEF IsReported
<1>4. \A t \in Scans : m < t /\ scans[t] # NoScan =>
                          scans[m].card # scans[t].card
    BY <1>2 DEF SweepInv, InTurn
<1>5. InTurn'
    BY <1>3 DEF SweepInv, InTurn
<1>6. \A d \in Scans : \A k : IsDemo(d, k)' <=> IsDemo(d, k)
    BY <1>3 DEF IsDemo
<1>7. \A k \in 1..MaxCards : processed[k] \subseteq processed'[k]
    BY DEF GoesOn, Sweep, ScansOK
<1>8. SweepsKnown'
  <2> SUFFICES ASSUME NEW s \in Scans, Scheduled(s)'
               PROVE  \/ scans'[s].object \in processed'[scans'[s].card]
                      \/ \E d \in Scans : d > s /\ IsDemo(d, scans[s].card)'
    BY DEF SweepsKnown
  <2>1. CASE s = m
    <3>1. Sweep(m)
      BY <2>1 DEF GoesOn, Scheduled, IsIn
    <3>2. scans[m].object \in processed'[scans[m].card]
      BY <1>2, <3>1 DEF Sweep, ScansOK
    <3>3. QED
      BY <1>3, <2>1, <3>2
  <2>2. CASE s # m
    <3>1. scans'[s] = scans[s] /\ Scheduled(s) /\ scans[s].card \in 1..MaxCards
      BY <1>1, <1>2, <2>2 DEF Scheduled, IsIn, ScansOK, NoScan
    <3>2. processed[scans[s].card] \subseteq processed'[scans[s].card]
      BY <1>7, <3>1
    <3>3. \/ scans[s].object \in processed[scans[s].card]
          \/ \E d \in Scans : d > s /\ IsDemo(d, scans[s].card)
      BY <3>1 DEF SweepInv, SweepsKnown
    <3>4. QED
      BY <1>6, <3>1, <3>2, <3>3
  <2>3. QED
    BY <2>1, <2>2
<1>9. PutBack'
  <2> SUFFICES ASSUME NEW s \in Scans, NEW t \in Scans, s < t, Scheduled(s)',
                      scans'[t].at \in {"asking", "executing", "recovering",
                                        "SUCCESS"},
                      scans'[t].trigger = "CRON_SCHEDULE",
                      scans'[s].card = scans'[t].card,
                      scans'[s].object = scans'[t].object
               PROVE  \E d \in Scans :
                         s < d /\ d < t /\ IsDemo(d, scans[s].card)'
    BY DEF PutBack
  <2>1. scans[t].at \in {"asking", "executing", "recovering", "SUCCESS"}
        /\ scans[t].trigger = "CRON_SCHEDULE"
    BY <1>1, <1>3 DEF IsIn
  <2>2. scans[t] # NoScan
    BY <2>1 DEF NoScan
  <2>3. s # m
    BY <1>3, <1>4, <2>2
  <2>4. Scheduled(s) /\ scans'[s] = scans[s]
    BY <1>1, <2>3 DEF Scheduled, IsIn
  <2>5. PICK d \in Scans : s < d /\ d < t /\ IsDemo(d, scans[s].card)
    BY <1>3, <2>1, <2>4 DEF SweepInv, PutBack
  <2>6. QED
    BY <1>6, <2>4, <2>5 DEF IsDemo
<1>10. QED
    BY <1>5, <1>8, <1>9 DEF SweepInv

LEMMA SweepInvStep ==
    RecoveryInv /\ AdviceInv /\ SweepInv /\ [ScanNext]_allVars => SweepInv'
<1> SUFFICES ASSUME RecoveryInv, AdviceInv, SweepInv, [ScanNext]_allVars
             PROVE  SweepInv'
    OBVIOUS
<1>1. Scans \subseteq Nat /\ ScansOK
    BY DEF Scans, AdviceInv
<1>2. CASE UNCHANGED <<scans, processed>>
    BY <1>2 DEF SweepInv, InTurn, SweepsKnown, PutBack, Scheduled, IsDemo,
                IsReported, IsIn
<1>3. QED
    BY <1>1, <1>2, ScansChange, BeginKeepsSweeps, GoingOnKeepsSweeps

LEMMA SweepInvInit == ScanInit => SweepInv
BY DEF ScanInit, SweepInv, InTurn, SweepsKnown, PutBack, Scheduled, IsIn, NoScan

\* Scheduled scans of one service report the recovery of an object once,
\* however the console and the demonstration interleave with them
\* (creService.ts:121, :323).
THEOREM ObjectsAreSweptOnce == ScanSpec => []SweptOnce
<1>1. SweepInv => SweptOnce
  <2> SUFFICES ASSUME SweepInv, NEW s \in Scans, NEW t \in Scans, s < t,
                      IsIn(s, "SUCCESS"), IsIn(t, "SUCCESS"),
                      scans[s].trigger = "CRON_SCHEDULE",
                      scans[t].trigger = "CRON_SCHEDULE",
                      scans[s].card = scans[t].card,
                      scans[s].object = scans[t].object
               PROVE  \E d \in (s + 1)..(t - 1) :
                         /\ scans[d].trigger = "EVM_LOG_STRANDED"
                         /\ scans[d].card = scans[s].card
    BY DEF SweptOnce
  <2>1. Scheduled(s) /\ scans[t].at = "SUCCESS"
    BY DEF Scheduled, IsIn
  <2>2. PICK d \in Scans : s < d /\ d < t /\ IsDemo(d, scans[s].card)
    BY <2>1 DEF SweepInv, PutBack
  <2>3. d \in (s + 1)..(t - 1)
    BY <2>2 DEF Scans
  <2>4. QED
    BY <2>2, <2>3 DEF IsDemo
<1>2. QED
    BY <1>1, AdviceInvInit, AdviceInvStep, SweepInvInit, SweepInvStep, PTL
       DEF ScanSpec

\* The locks of the collector hold under the workflow as under the console:
\* an object has one execution at a time, and a plan is executed once.
THEOREM ScansKeepLocks == ScanSpec => [](OneAtATime /\ ExecutedOnce)
<1>1. RecoveryInv => OneAtATime /\ ExecutedOnce
    BY DEF RecoveryInv, LocksInv, HistoryInv
<1>2. QED
    BY <1>1, AdviceInvInit, AdviceInvStep, PTL DEF ScanSpec

=============================================================================
