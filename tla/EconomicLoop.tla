---------------------------- MODULE EconomicLoop ----------------------------
(***************************************************************************)
(* The demonstration of the economic loop: EconomicLoopSimulation          *)
(* (src/demo/scenarios.ts), which the application keeps for good, and the  *)
(* view with its buttons (src/components/SimulationSlice.tsx), which is    *)
(* made anew each time its tab is opened.  What a click starts goes on     *)
(* when its view is gone, beside what the next view starts.                *)
(***************************************************************************)
EXTENDS Naturals, Sequences

CONSTANTS
    MaxClicks,     \* bound: the clicks that start something
    MaxViews,      \* bound: the times the tab is opened
    MaxPasses      \* bound: the times the loop is gone through

ASSUME LoopAssumption == {MaxClicks, MaxViews, MaxPasses} \subseteq Nat \ {0}

VARIABLES
    currentStep,   \* the step that was begun last
    stepStates,    \* step -> its status
    activeEscrow,  \* the escrow of the working state, or 0
    escrows,       \* the records of the store, in the order they were made
    pass,          \* how often the state was set up
    view,          \* which view is mounted
    isRunning,     \* view -> its buttons are disabled
    shownStep,     \* view -> the step it believes was begun last
    clicks,        \* click -> what it started, and where that is
    askedFor       \* history: step and pass -> how often settlement was asked

loopVars == <<currentStep, stepStates, activeEscrow, escrows, pass, view,
              isRunning, shownStep, clicks, askedFor>>

Last == 10
Steps == 1..Last
Lock == 4
Deliver == 5
Settle == 7
Recover == 10
Awaiting == {Lock, Settle, Recover}
Clicks == 1..MaxClicks
Views == 1..MaxViews
Passes == 1..MaxPasses
NoEscrow == 0
Idle == [at |-> "idle"]
Over == [at |-> "over"]

LoopInit ==
    /\ currentStep = 0 /\ stepStates = [k \in Steps |-> "PENDING"]
    /\ activeEscrow = NoEscrow /\ escrows = <<>>
    /\ pass = 1 /\ view = 1
    /\ isRunning = [v \in Views |-> FALSE]
    /\ shownStep = [v \in Views |-> 0]
    /\ clicks = [d \in Clicks |-> Idle]
    /\ askedFor = [asked \in Awaiting \X Passes |-> 0]

-----------------------------------------------------------------------------
(* The view                                                                *)

\* What was called runs up to its await before anything else does.
Quiet == \A d \in Clicks : clicks[d].at # "ready"

\* Clicks are numbered in the order in which they are made.
IsNextClick(d) == clicks[d] = Idle /\ \A e \in 1..(d - 1) : clicks[e] # Idle
Started(d, kind, rounds) ==
    /\ clicks' = [clicks EXCEPT ![d] =
          [at |-> "ready", kind |-> kind, view |-> view, rounds |-> rounds]]
    /\ isRunning' = [isRunning EXCEPT ![view] = TRUE]
    /\ UNCHANGED <<currentStep, stepStates, activeEscrow, escrows, pass, view,
                   shownStep, askedFor>>
Enabled == Quiet /\ ~isRunning[view] /\ shownStep[view] < Last

\* One step, or as many as are left at this moment.
handleNextStep(d) ==
    /\ IsNextClick(d) /\ Enabled /\ currentStep < Last
    /\ Started(d, "next", 1)
handleAutoRun(d) ==
    /\ IsNextClick(d) /\ Enabled /\ currentStep < Last
    /\ Started(d, "auto", Last - currentStep)

\* The seed is loaded again and the steps are pending; the working state
\* between steps is kept.
handleReset ==
    /\ Quiet /\ ~isRunning[view] /\ pass < MaxPasses
    /\ pass' = pass + 1
    /\ escrows' = [e \in DOMAIN escrows |-> "gone"]
    /\ currentStep' = 0 /\ stepStates' = [k \in Steps |-> "PENDING"]
    /\ shownStep' = [shownStep EXCEPT ![view] = 0]
    /\ UNCHANGED <<activeEscrow, view, isRunning, clicks, askedFor>>

\* Another tab is opened, and this one again.
Remount ==
    /\ Quiet /\ view < MaxViews /\ view' = view + 1
    /\ shownStep' = [shownStep EXCEPT ![view'] = currentStep]
    /\ UNCHANGED <<currentStep, stepStates, activeEscrow, escrows, pass,
                   isRunning, clicks, askedFor>>

-----------------------------------------------------------------------------
(* executeNextStep                                                         *)

\* What became of a step goes to the click that ran it: a single step ends; a
\* run that is not over pauses; a run whose step threw ends without enabling
\* the buttons of its view again.
LeftAsBefore(rounds) == rounds
LeftAfter(rounds) == rounds - 1
Succeeds(d) ==
    LET click == clicks[d]
    IN  /\ shownStep' = [shownStep EXCEPT ![click.view] = currentStep']
        /\ IF click.kind = "next"
           THEN /\ clicks' = [clicks EXCEPT ![d] = Over]
                /\ isRunning' = [isRunning EXCEPT ![click.view] = FALSE]
           ELSE /\ clicks' = [clicks EXCEPT
                     ![d].at = "pausing", ![d].rounds = LeftAfter(@)]
                /\ UNCHANGED isRunning
Throws(d) ==
    /\ clicks' = [clicks EXCEPT ![d] = Over]
    /\ isRunning' = IF clicks[d].kind = "next"
                    THEN [isRunning EXCEPT ![clicks[d].view] = FALSE]
                    ELSE isRunning
    /\ UNCHANGED shownStep

\* The step awaits settlement.
Awaits(d, step) ==
    /\ askedFor' = [askedFor EXCEPT ![<<step, pass>>] = @ + 1]
    /\ clicks' = [clicks EXCEPT ![d] =
          [at |-> "awaiting", kind |-> @.kind, view |-> @.view,
           rounds |-> @.rounds, step |-> step, pass |-> pass]]
    /\ UNCHANGED <<isRunning, shownStep>>

ActiveIs(status) ==
    activeEscrow # NoEscrow /\ escrows[activeEscrow] = status
Mark(status) == escrows' = [escrows EXCEPT ![activeEscrow] = status]

Becomes(step, status) ==
    stepStates' = [stepStates EXCEPT ![step] = status]
StepCompletes(d, step) == Succeeds(d) /\ Becomes(step, "COMPLETED")
StaysActive(d, step) == Throws(d) /\ Becomes(step, "ACTIVE")

\* The work of a step up to its await, or all of it.
\* The lock is asked for if the policy allows it.
AskLock(d) ==
    \/ /\ Awaits(d, Lock) /\ Becomes(Lock, "ACTIVE") /\ UNCHANGED escrows
    \/ StaysActive(d, Lock) /\ UNCHANGED <<escrows, askedFor>>

\* Delivery and release need the record of the escrow that is active now.
SubmitDelivery(d) ==
    /\ IF ActiveIs("LOCKED")
       THEN StepCompletes(d, Deliver) /\ Mark("DELIVERED")
       ELSE StaysActive(d, Deliver) /\ UNCHANGED escrows
    /\ UNCHANGED askedFor
AskRelease(d) ==
    IF ActiveIs("DELIVERED")
    THEN Awaits(d, Settle) /\ Becomes(Settle, "ACTIVE") /\ Mark("VERIFIED")
    ELSE StaysActive(d, Settle) /\ UNCHANGED <<escrows, askedFor>>

AskRecovery(d) ==
    Awaits(d, Recover) /\ Becomes(Recover, "ACTIVE") /\ UNCHANGED escrows

\* Discovery, evaluation, the new object, the scan and its plan.
Tell(d, step) == StepCompletes(d, step) /\ UNCHANGED <<escrows, askedFor>>

Work(d, step) ==
    CASE step = Lock -> AskLock(d)
      [] step = Deliver -> SubmitDelivery(d)
      [] step = Settle -> AskRelease(d)
      [] step = Recover -> AskRecovery(d)
      [] OTHER -> Tell(d, step)

\* A step with an await counts when it has been answered.
CountLate(step) == IF step \in Awaiting THEN step - 1 ELSE step
Count(step) == step

\* The step is counted before it works.  Past the last one nothing happens.
executeNextStep(d) ==
    /\ clicks[d].at = "ready"
    /\ IF currentStep >= Last
       THEN /\ currentStep' = currentStep
            /\ Succeeds(d)
            /\ UNCHANGED <<stepStates, escrows, askedFor>>
       ELSE /\ currentStep' = Count(currentStep + 1)
            /\ Work(d, currentStep + 1)
    /\ UNCHANGED <<activeEscrow, pass, view>>

\* Settlement answers: the record of a lock is made, and its escrow is the
\* active one, whatever pass it is by now; the status goes to the steps of
\* its own pass.
Answered(d) ==
    LET click == clicks[d]
    IN  /\ Quiet /\ click.at = "awaiting"
        /\ \/ /\ currentStep' = currentStep /\ Succeeds(d)
              /\ IF click.step = Lock
                 THEN /\ escrows' = Append(escrows, "LOCKED")
                      /\ activeEscrow' = Len(escrows')
                 ELSE UNCHANGED <<escrows, activeEscrow>>
              /\ stepStates' = IF click.pass = pass
                               THEN [stepStates EXCEPT ![click.step] =
                                        "COMPLETED"]
                               ELSE stepStates
           \/ /\ Throws(d)
              /\ UNCHANGED <<currentStep, escrows, activeEscrow, stepStates>>
        /\ UNCHANGED <<pass, view, askedFor>>

\* 650 ms later: the next round, or the end of the run.
Wakes(d) ==
    /\ Quiet /\ clicks[d].at = "pausing"
    /\ IF clicks[d].rounds > 0
       THEN clicks' = [clicks EXCEPT ![d].at = "ready"]
            /\ UNCHANGED isRunning
       ELSE /\ clicks' = [clicks EXCEPT ![d] = Over]
            /\ isRunning' = [isRunning EXCEPT ![clicks[d].view] = FALSE]
    /\ UNCHANGED <<currentStep, stepStates, activeEscrow, escrows, pass, view,
                   shownStep, askedFor>>

GoesOn(d) == executeNextStep(d) \/ Wakes(d)

LoopNext ==
    \/ \E d \in Clicks :
          handleNextStep(d) \/ handleAutoRun(d) \/ GoesOn(d) \/ Answered(d)
    \/ handleReset
    \/ Remount

\* Timers fire.  Settlement need not answer: with the Monad adapter a wallet
\* prompts its user, without a timeout.
LoopFairness == \A d \in Clicks : WF_loopVars(GoesOn(d))
LoopSpec == LoopInit /\ [][LoopNext]_loopVars /\ LoopFairness

-----------------------------------------------------------------------------
(* Properties                                                              *)

\* However many runs of closed and open views share the simulation, one pass
\* through the loop asks at most once for the lock, for the release and for
\* the recovery: a step is counted before it awaits (scenarios.ts:137).
AskedOncePerPass == \A k \in Awaiting, p \in Passes : askedFor[<<k, p>>] <= 1

\* A run that does not end is one whose own request for settlement is never
\* answered: that it shares the steps with another run, which may wait for ever,
\* that a step of it throws, or that the state is reset under it, does not keep
\* it going (SimulationSlice.tsx:47-57, scenarios.ts:134-138).
EveryRunEnds ==
    \A d \in Clicks :
        <>[](clicks[d].at \notin {"idle", "over"})
            => <>[](clicks[d].at = "awaiting")

=============================================================================
