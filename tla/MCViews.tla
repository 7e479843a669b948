------------------------------ MODULE MCViews ------------------------------
(***************************************************************************)
(* The console's views that wait for answers: the demonstration's loop,    *)
(* the live views of the index and its histories.  They share nothing: a   *)
(* behaviour is one of one of them, and of one tab of the histories.       *)
(***************************************************************************)
EXTENDS EconomicLoop, EconomicHistory, IndexHistories

VARIABLE used    \* the view that is, or the tab of the histories

viewsVars == <<loopVars, historyVars, historiesVars, used>>

\* The id of a2 contains that of a1.
CONSTANTS a1, a2
MCMatched == [a \in HistoryAgents |-> IF a = a1 THEN {a1, a2} ELSE {a}]

HistoryTabs == {tab \in Tabs : Offers[tab] # {}}

\* Where no agent's history is under the tab, one agent does everything.
SomeActor == CHOOSE actor \in HistoryActors : TRUE

ViewsInit ==
    /\ LoopInit /\ HistoryInit /\ HistoriesInit
    /\ used \in {"loop"} \cup Panels \cup HistoryTabs

LoopIsUsed(A) ==
    used = "loop" /\ A /\ UNCHANGED <<historyVars, historiesVars, used>>
HistoryIsUsed(A) ==
    /\ used \in Panels /\ A /\ UNCHANGED <<loopVars, historiesVars, used>>
    /\ \A v \in Panels \ {used} : mounts'[v] = 0
HistoriesAreUsed(A) ==
    /\ used \in HistoryTabs /\ A /\ UNCHANGED <<loopVars, historyVars, used>>
    /\ place'.tab \in HistoryTabs => place'.tab = used
    /\ "agent" \notin Offers[used] =>
          \A e \in DOMAIN recorded' : recorded'[e].actor = SomeActor

ViewsNext ==
    \/ LoopIsUsed(LoopNext)
    \/ HistoryIsUsed(HistoryNext)
    \/ HistoriesAreUsed(HistoriesNext)
ViewsSpec ==
    /\ ViewsInit /\ [][ViewsNext]_viewsVars
    /\ \A d \in Clicks : WF_viewsVars(LoopIsUsed(GoesOn(d)))

\* Whatever was asked before and whichever answer comes last, the console says
\* of the index what was so: the live views name their source and their agent
\* (ConsoleOverview.tsx:81-108, AgentEconomicTimeline.tsx:33-76), the histories
\* are of one moment of it (EconomicObjectHistory.tsx:34-53).
ConsoleIsHonest == ViewsAreHonest /\ HistoryWasSo

=============================================================================
