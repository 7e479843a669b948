-------------------------- MODULE EconomicHistory --------------------------
(***************************************************************************)
(* What the console shows of the index (src/integrations/envio/client.ts   *)
(* and the views over it): each view queries when it is opened and when it *)
(* is refreshed, several queries may be on their way, an answer replaces   *)
(* what is shown, and a transaction of the agent wallet is announced to    *)
(* the open views although the index does not have it.                     *)
(***************************************************************************)
EXTENDS Naturals, FiniteSets, Sequences

CONSTANTS
    HistoryAgents, \* whose events there are
    Matched,       \* agent -> those whose ids its id is found in, as a pattern
    Limit,         \* the rows of the overview
    MaxHappened,   \* bound: events
    MaxQueries,    \* bound: queries
    MaxOpened      \* bound: how often a view is opened

ASSUME HistoryAssumption ==
    /\ {Limit, MaxQueries, MaxOpened} \subseteq Nat \ {0}
    /\ \A a \in HistoryAgents : a \in Matched[a]

VARIABLES
    happened,   \* the events, in the order of their times
    mounts,     \* view -> how often it was opened: the mount its answers need
    topic,      \* view -> the agent of the timeline, the filter of the ledger
    shown,      \* view -> the events it has
    badge,      \* view -> the source it names
    loading,    \* view -> it shows that it loads
    queries     \* query -> what it asks, and where that is

historyVars == <<happened, mounts, topic, shown, badge, loading, queries>>
panelVars == <<mounts, topic, shown, badge, loading>>

All == "ALL"
Created == "ECONOMIC_OBJECT_CREATED"
Released == "ESCROW_RELEASED"
Completed == "SETTLEMENT_COMPLETED"
IndexedTypes == {Created, Released}
Streams == {"overview", "timeline"}
Panels == Streams \cup {"ledger", "objects"}
Topics == [overview |-> {All}, timeline |-> HistoryAgents,
           ledger |-> {All} \cup IndexedTypes, objects |-> {All}]
Queries == 1..MaxQueries
NoQuery == [at |-> "unused"]
Received == [at |-> "received"]

HistoryInit ==
    /\ happened = <<>>
    /\ mounts = [v \in Panels |-> 0]
    /\ topic = [v \in Panels |-> CHOOSE t \in Topics[v] : TRUE]
    /\ shown = [v \in Panels |-> {}]
    /\ badge = [v \in Panels |-> "INDEXING"]
    /\ loading = [v \in Panels |-> FALSE]
    /\ queries = [q \in Queries |-> NoQuery]

IsOpen(v) == mounts[v] > 0
IsIndexed(e) == happened[e].indexed

\* Whether an event is one that the view asks for.  The actor stands for either
\* party; a timeline asks for the parties whose id contains its agent's.
Concerns(v, t, e) ==
    CASE v = "timeline" -> happened[e].actor \in Matched[t]
      [] v = "ledger" -> t \in {All, happened[e].type}
      [] v = "objects" -> happened[e].type = Created
      [] OTHER -> TRUE

Newest(events, n) ==
    {e \in events : Cardinality({f \in events : f > e}) < n}
Latest(v, events) == IF v = "overview" THEN Newest(events, Limit) ELSE events

-----------------------------------------------------------------------------
(* Events                                                                  *)

Happens(type, actor, indexed) ==
    /\ Len(happened) < MaxHappened
    /\ happened' = Append(happened,
                          [type |-> type, actor |-> actor, indexed |-> indexed])

indexEvent(type, actor) ==
    /\ Happens(type, actor, TRUE)
    /\ UNCHANGED <<panelVars, queries>>

\* What is announced is not marked as indexed; a view that takes it says so.
BadgeKept(v) == badge[v]
BadgeOfAnnounced(v) == "SIMULATION"

\* The overview takes whatever is announced, the timeline what concerns its
\* agent; the ledger does not listen, and the objects wait for other types.
emitRealtimeEvent(actor) ==
    LET e == Len(happened')
        Hears(v) == /\ v \in Streams /\ IsOpen(v)
                    /\ v = "timeline" => topic[v] = actor
    IN  /\ Happens(Completed, actor, FALSE)
        /\ shown' = [v \in Panels |->
              IF Hears(v) THEN Latest(v, shown[v] \cup {e}) ELSE shown[v]]
        /\ badge' = [v \in Panels |->
              IF Hears(v) THEN BadgeOfAnnounced(v) ELSE badge[v]]
        /\ UNCHANGED <<mounts, topic, loading, queries>>

-----------------------------------------------------------------------------
(* Queries                                                                 *)

IsFree(q) == queries[q] = NoQuery /\ \A p \in 1..(q - 1) : queries[p] # NoQuery
Fetch(q, v, t, mount) ==
    /\ IsFree(q)
    /\ queries' = [queries EXCEPT ![q] =
          [at |-> "asked", view |-> v, mount |-> mount, topic |-> t]]
    /\ loading' = [loading EXCEPT ![v] = TRUE]

\* A view is opened, or closed and opened anew.
Open(q, v, t) ==
    /\ mounts[v] < MaxOpened
    /\ mounts' = [mounts EXCEPT ![v] = @ + 1]
    /\ topic' = [topic EXCEPT ![v] = t]
    /\ shown' = [shown EXCEPT ![v] = {}]
    /\ badge' = [badge EXCEPT ![v] = "INDEXING"]
    /\ Fetch(q, v, t, mounts[v] + 1)
    /\ UNCHANGED happened

\* The buttons of overview and timeline are disabled while they load.
Refresh(q, v) ==
    /\ IsOpen(v) /\ v \in Streams => ~loading[v]
    /\ Fetch(q, v, topic[v], mounts[v])
    /\ UNCHANGED <<happened, mounts, topic, shown, badge>>

setFilterType(q, t) ==
    /\ IsOpen("ledger") /\ topic["ledger"] # t
    /\ topic' = [topic EXCEPT !["ledger"] = t]
    /\ Fetch(q, "ledger", t, mounts["ledger"])
    /\ UNCHANGED <<happened, mounts, shown, badge>>

\* The index answers with what it has now.  An error, a refusal or six
\* seconds without an answer all read as an empty list.
executeQuery(q) ==
    /\ queries[q].at = "asked"
    /\ \E ok \in BOOLEAN :
          LET query == queries[q]
              rows == IF ok THEN {e \in DOMAIN happened :
                                     /\ IsIndexed(e)
                                     /\ Concerns(query.view, query.topic, e)}
                      ELSE {}
          IN  queries' = [queries EXCEPT ![q] =
                  [at |-> "answered", view |-> query.view,
                   mount |-> query.mount, isLive |-> ok,
                   rows |-> Latest(query.view, rows)]]
    /\ UNCHANGED <<happened, panelVars>>

Ended(q, v) ==
    /\ queries' = [queries EXCEPT ![q] = Received]
    /\ loading' = [loading EXCEPT ![v] = FALSE]

\* The badge that goes with an answer: of the ledger's nothing but the
\* connection counts.
BadgeOfAnswer(answer) ==
    IF answer.view = "ledger" THEN (IF answer.isLive THEN "LIVE" ELSE "NO_DATA")
    ELSE IF answer.rows # {} THEN "LIVE" ELSE "NO_DATA"

\* React drops what arrives for a view that is gone.
ForTheMount(answer) == answer.mount = mounts[answer.view]

\* An answer for a view that is gone is dropped; the newest does not win, the
\* latest does.  The objects ask for the index's health when they got none,
\* and name their source after that.
Receive(q) ==
    LET answer == queries[q]
        v == answer.view
    IN  /\ answer.at = "answered"
        /\ IF ~ForTheMount(answer)
           THEN /\ queries' = [queries EXCEPT ![q] = Received]
                /\ UNCHANGED <<shown, badge, loading>>
           ELSE /\ shown' = [shown EXCEPT ![v] = answer.rows]
                /\ IF v = "objects" /\ answer.rows = {}
                   THEN /\ queries' = [queries EXCEPT ![q].at = "checking"]
                        /\ UNCHANGED <<badge, loading>>
                   ELSE /\ badge' = [badge EXCEPT ![v] = BadgeOfAnswer(answer)]
                        /\ Ended(q, v)
        /\ UNCHANGED <<happened, mounts, topic>>

\* Healthy or not, the badge is the same.
checkHealth(q) ==
    /\ queries[q].at = "checking"
    /\ IF ForTheMount(queries[q])
       THEN /\ badge' = [badge EXCEPT !["objects"] = "NO_DATA"]
            /\ Ended(q, "objects")
       ELSE /\ queries' = [queries EXCEPT ![q] = Received]
            /\ UNCHANGED <<badge, loading>>
    /\ UNCHANGED <<happened, mounts, topic, shown>>

HistoryNext ==
    \/ \E actor \in HistoryAgents :
          \/ \E type \in IndexedTypes : indexEvent(type, actor)
          \/ emitRealtimeEvent(actor)
    \/ \E q \in Queries :
          \/ \E v \in Panels :
                (\E t \in Topics[v] : Open(q, v, t)) \/ Refresh(q, v)
          \/ \E t \in Topics["ledger"] : setFilterType(q, t)
          \/ executeQuery(q) \/ Receive(q) \/ checkHealth(q)

HistorySpec == HistoryInit /\ [][HistoryNext]_historyVars

-----------------------------------------------------------------------------
(* Properties                                                              *)

\* The source that the overview and a timeline name is the source of what
\* they show, however announcements, answers on their way and newly opened
\* views cross: LIVE stands over indexed events only, SIMULATION over one
\* that is not, and NO DATA or INDEXING over nothing
\* (ConsoleOverview.tsx:81-108, AgentEconomicTimeline.tsx:33-76).
BadgeIsHonest ==
    \A v \in Streams :
        CASE badge[v] = "LIVE" -> \A e \in shown[v] : IsIndexed(e)
          [] badge[v] = "SIMULATION" -> \E e \in shown[v] : ~IsIndexed(e)
          [] OTHER -> shown[v] = {}

\* A timeline has no events but its agent's and, of the indexed ones, those of
\* agents that the query takes for it, also when agents are looked at in turn
\* and the answer for an earlier one comes late (EntitiesView.tsx:518,
\* AgentEconomicTimeline.tsx:54-76, client.ts:392, queries.ts:100).
TimelineIsOfItsAgent ==
    \A e \in shown["timeline"] :
        LET t == topic["timeline"]
        IN  happened[e].actor \in IF IsIndexed(e) THEN Matched[t] ELSE {t}

\* What a view says of its events is so: their source, and whose they are.
ViewsAreHonest == BadgeIsHonest /\ TimelineIsOfItsAgent

=============================================================================
