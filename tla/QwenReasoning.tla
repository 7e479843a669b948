---------------------------- MODULE QwenReasoning ----------------------------
(***************************************************************************)
(* Qwen's advice beside Nansen's profiles: its proxy                       *)
(* (backend/src/routes/qwen.ts), the client with its cache and timeout     *)
(* (src/integrations/qwen), the window that asks for advice and has the    *)
(* policy look at it (QwenReasoningModal), and the view that opens both    *)
(* (DiscoveryView, ConsoleRecoveryEngine).                                 *)
(*                                                                         *)
(* What is asked is an objective; the agent's policy and balance, which    *)
(* the prompt holds and the client's key leaves out, stay what they are.   *)
(***************************************************************************)
EXTENDS NansenProfiles

CONSTANTS
    Objectives,
    QwenTtl       \* CACHE_TTL_MS and cacheTtlMs of Qwen, in ticks

ASSUME ReasoningAssumption == QwenTtl \in Nat \ {0}

VARIABLES
    qwenCache,    \* the proxy's cache: what is asked -> entry
    advices,      \* the client's: what is asked -> entry
    modal         \* the window with its state

qwenVars == <<qwenCache, advices, modal>>
adviceVars == <<now, profileVars, qwenVars>>

\* Only a purchase has an amount; text that holds no intent is kept, too.
Advices == {"buy", "other"}
NoAdvice == [kind |-> "none", at |-> Never]
Refusal == [kind |-> "unavailable", at |-> now]

\* What is shown, and what the policy's check shown with it was made for.
ClosedModal == [objective |-> Nobody, loading |-> FALSE, result |-> Nobody,
                check |-> Nobody]

AdviceInit ==
    /\ now = 0 /\ ProfilesInit
    /\ qwenCache = [o \in Objectives |-> NoEntry]
    /\ advices = [o \in Objectives |-> NoEntry]
    /\ modal = ClosedModal

\* This cache's entry ends with its last moment, the others' after it.
IsCurrent(entry) == now < entry.until

-----------------------------------------------------------------------------
(* The window                                                              *)

\* The answer is shown, whichever run it belongs to; what has an amount, and
\* nothing else, is checked against the policy.
WithAmount(advice) == advice.kind = "buy"
Shown(window, objective, advice) ==
    [window EXCEPT !.loading = FALSE, !.result = objective,
                   !.check = IF WithAmount(advice) THEN objective ELSE @]

\* The client answers from its cache, or asks; the run's start clears what is
\* shown.
runReasoning(window, objective) ==
    LET run == [window EXCEPT !.objective = objective, !.loading = TRUE,
                              !.result = Nobody, !.check = Nobody]
    IN  \/ /\ IsCurrent(advices[objective])
           /\ modal' = Shown(run, objective, advices[objective].value)
           /\ UNCHANGED asks
        \/ \E q \in Asks :
              /\ ~IsCurrent(advices[objective]) /\ IsNext(q)
              /\ modal' = run
              /\ asks' = [asks EXCEPT ![q] =
                    [kind |-> "reason", at |-> "proxy", about |-> objective,
                     since |-> now, shown |-> TRUE, answer |-> NoAdvice]]

openModal(objective) ==
    /\ modal = ClosedModal /\ panel = Closed /\ runReasoning(modal, objective)
    /\ UNCHANGED <<now, nansenCache, posted, profiles, panel, qwenCache,
                   advices>>

\* While it is open, what it is asked about changes: another run.
changeObjective(objective) ==
    /\ modal # ClosedModal /\ modal.objective # objective
    /\ runReasoning(modal, objective)
    /\ UNCHANGED <<now, nansenCache, posted, profiles, panel, qwenCache,
                   advices>>

\* Dismissed, or the advice accepted: what its runs still answer is not shown.
Unshown(q) == IF InFlight(q) /\ asks[q].kind = "reason"
              THEN [asks[q] EXCEPT !.shown = FALSE] ELSE asks[q]

closeModal ==
    /\ modal # ClosedModal /\ modal' = ClosedModal
    /\ asks' = [q \in Asks |-> Unshown(q)]
    /\ UNCHANGED <<now, nansenCache, posted, profiles, panel, qwenCache,
                   advices>>

-----------------------------------------------------------------------------
(* The proxy and the client                                                *)

IsAsking(q) == IsAt(q, "reason", "proxy")
Return(q, advice) ==
    /\ Finish(q)
    /\ modal' = IF asks[q].shown THEN Shown(modal, asks[q].about, advice)
                                 ELSE modal
    /\ UNCHANGED <<now, nansenCache, posted, profiles, panel>>

\* The proxy has the answer to the same prompt, or Qwen answers it.
Reply(q, advice) ==
    asks' = [asks EXCEPT ![q].at = "replied", ![q].answer = advice]

ProxyReplies(q) ==
    LET it == asks[q]
        entry == qwenCache[it.about]
        Answered(kind) == [kind |-> kind, at |-> now]
    IN  /\ IsAsking(q)
        /\ \/ /\ IsFresh(entry) /\ Reply(q, entry.value)
              /\ UNCHANGED qwenCache
           \/ \E kind \in Advices :
                 /\ ~IsFresh(entry) /\ Reply(q, Answered(kind))
                 /\ qwenCache' = [qwenCache EXCEPT ![it.about] =
                                     Until(Answered(kind), QwenTtl)]
        /\ UNCHANGED <<now, nansenCache, posted, profiles, panel, advices,
                       modal>>

AdviceArrives(q) ==
    /\ IsAt(q, "reason", "replied")
    /\ advices' = [advices EXCEPT ![asks[q].about] =
                      Until(asks[q].answer, QwenTtl)]
    /\ Return(q, asks[q].answer)
    /\ UNCHANGED qwenCache

\* The headers stop the timer; what is left open after them has none.  The
\* window, which may be shut by then, is that of the run.
AdviceHangs(q) ==
    /\ IsAt(q, "reason", "replied")
    /\ asks' = [asks EXCEPT ![q] = [at |-> "hung", kind |-> "reason",
                                   shown |-> @.shown]]
    /\ UNCHANGED <<now, nansenCache, posted, profiles, panel, qwenVars>>

\* Qwen refuses, the network fails, the proxy is restarted, or the timer
\* aborts the request.
AdviceFails(q) ==
    /\ \E place \in {"proxy", "replied", "lost"} : IsAt(q, "reason", place)
    /\ Return(q, Refusal)
    /\ UNCHANGED <<qwenCache, advices>>

-----------------------------------------------------------------------------
(* Composition                                                             *)

\* A request ends within a tick, or never.
MayEnd(q) == InFlight(q) /\ ~IsHung(q)
TimePasses ==
    /\ now < LastTick /\ \A q \in Asks : MayEnd(q) => asks[q].since = now
    /\ now' = now + 1
    /\ nansenCache' = [part \in Parts |-> Aged(nansenCache[part])]
    /\ posted' = Aged(posted) /\ profiles' = Aged(profiles)
    /\ qwenCache' = Aged(qwenCache)
    /\ advices' = Aged(advices)
    /\ UNCHANGED <<asks, panel, modal>>

\* The proxies' caches are gone, and the answers they owed.
BackendRestarts ==
    /\ nansenCache' = [part \in Parts |-> [a \in Addresses |-> NoEntry]]
    /\ qwenCache' = [o \in Objectives |-> NoEntry]
    /\ asks' = [q \in Asks |-> IF MayEnd(q) THEN [asks[q] EXCEPT !.at = "lost"]
                                            ELSE asks[q]]
    /\ UNCHANGED <<now, posted, profiles, panel, advices, modal>>

\* The page is loaded anew: the proxies keep what they have.
PageReloads ==
    /\ posted' = [a \in Addresses |-> NoEntry]
    /\ profiles' = [a \in Addresses |-> NoEntry]
    /\ advices' = [o \in Objectives |-> NoEntry]
    /\ panel' = Closed /\ modal' = ClosedModal
    /\ asks' = [q \in Asks |-> IF InFlight(q) THEN Done ELSE asks[q]]
    /\ UNCHANGED <<now, nansenCache, qwenCache>>

Completes(q) ==
    \/ ProfileArrives(q) /\ UNCHANGED <<now, qwenVars>>
    \/ ProfileIsLost(q) /\ UNCHANGED <<now, qwenVars>>
    \/ AdviceArrives(q) \/ AdviceFails(q)

AdviceNext ==
    \/ /\ modal = ClosedModal
       /\ \E a \in Addresses : openPanel(a)
       /\ UNCHANGED <<now, qwenVars>>
    \/ closePanel /\ UNCHANGED <<now, qwenVars>>
    \/ \E o \in Objectives : openModal(o) \/ changeObjective(o)
    \/ closeModal
    \/ \E q \in Asks :
          \/ \E part \in Parts : NansenAnswers(q, part) /\ UNCHANGED <<now, qwenVars>>
          \/ ProxyReplies(q) \/ Completes(q)
          \/ ProfileHangs(q) /\ UNCHANGED <<now, qwenVars>>
          \/ AdviceHangs(q)
    \/ TimePasses \/ BackendRestarts \/ PageReloads

\* A request that does not hang is answered, or given up: by the timer while the
\* client waits for Qwen's headers (qwenClient.ts:51).
AdviceSpec ==
    /\ AdviceInit /\ [][AdviceNext]_adviceVars
    /\ \A q \in Asks : WF_adviceVars(Completes(q))

-----------------------------------------------------------------------------
(* Properties                                                              *)

\* What the client has to show was answered by Nansen, in all its parts, or by
\* Qwen, not longer ago than the proxy's cache and the client's hold it one
\* after the other, with the request between them, though the client has two
\* caches for profiles (nansen.ts:15-30, nansenClient.ts:183-251,
\* qwenClient.ts:40-45).
NothingTooOld ==
    /\ \A a \in Addresses :
          HasAnswer(a) /\ Held(a).available => now - Held(a).at <= 2 * Ttl + 1
    /\ \A o \in Objectives :
          IsCurrent(advices[o]) => now - advices[o].value.at <= 2 * QwenTtl

\* Once its spinner is gone the panel shows the profile of its address, also
\* when answers for other addresses arrive late
\* (CounterpartyIntelligenceModal.tsx:46-68).
PanelShowsItsAddress ==
    panel # Closed /\ ~panel.loading => panel.of = panel.address

\* A spinner that turns for ever waits for a request that is itself never
\* answered, has no timer any more and belongs to what is shown: failures,
\* restarts, late answers and requests of other addresses or runs that hang
\* do not keep it turning (CounterpartyIntelligenceModal.tsx:59,
\* QwenReasoningModal.tsx:68, qwenClient.ts:51).
PanelHangs == panel # Closed /\ panel.effect \in Asks /\ IsHung(panel.effect)
ModalHangs ==
    \E q \in Asks : IsHung(q) /\ asks[q].kind = "reason" /\ asks[q].shown
EveryQuestionEnds ==
    /\ <>[]panel.loading => <>[]PanelHangs
    /\ <>[]modal.loading => <>[]ModalHangs

=============================================================================
