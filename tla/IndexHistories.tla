--------------------------- MODULE IndexHistories ---------------------------
(***************************************************************************)
(* The six histories of the index that the console shows under its tabs    *)
(* (src/components/envio): of an agent, an object, the marketplace, the    *)
(* escrows, the recoveries, and the analytics.  One is mounted at a time;  *)
(* it asks when it is mounted and at every click on "Sync", which no query *)
(* on its way disables, and shows the answer that came last.               *)
(*                                                                         *)
(* An answer is the number of events the index had when it answered; an    *)
(* amount is not told from the records or events that it is added up over. *)
(* The actor of an event is one of its parties, and all events are within  *)
(* the days that the analytics look at.                                    *)
(***************************************************************************)
EXTENDS Naturals, FiniteSets, Sequences

CONSTANTS
    HistoryObjects, HistoryActors,
    RowLimit,      \* the rows that a query asks for
    MaxRecorded,   \* bound: events
    MaxRequests,   \* bound: queries
    MaxMounts      \* bound: how often a history is mounted

ASSUME HistoriesAssumption ==
    {RowLimit, MaxRecorded, MaxRequests, MaxMounts} \subseteq Nat

VARIABLES
    recorded,      \* the events, in the order in which they were indexed
    place,         \* the tab with the history that is mounted in it
    display,       \* the state of the mounted history
    requests       \* request -> what it asks, and the answers it has

historiesVars == <<recorded, place, display, requests>>

Requests == 1..MaxRequests
Histories == {"agent", "object", "market", "escrows", "recoveries", "analytics"}

\* The histories under each tab: the console starts with one that has none.
Offers == [OVERVIEW |-> {}, AGENTS |-> {"agent", "object"},
           ASSETS |-> {"agent", "object"}, MARKETPLACE |-> {"market"},
           ESCROW |-> {"escrows"}, RECOVERY |-> {"recoveries"},
           TRANSACTIONS |-> {"market", "escrows", "recoveries", "analytics"}]
Tabs == DOMAIN Offers
None == "none"
SubjectsOf(history) == CASE history = "agent" -> HistoryActors
                         [] history = "object" -> HistoryObjects
                         [] OTHER -> {None}

-----------------------------------------------------------------------------
(* The index                                                               *)

\* What comes before an event in the life of the record that it is about; a
\* record is named by the event that creates it.
Follows == [OBJECT_LISTED |-> {}, OBJECT_PURCHASED |-> {"OBJECT_LISTED"},
            LISTING_CANCELLED |-> {"OBJECT_LISTED"},
            ESCROW_LOCKED |-> {}, ESCROW_DELIVERED |-> {"ESCROW_LOCKED"},
            ESCROW_RELEASED |-> {"ESCROW_DELIVERED"},
            ESCROW_REFUNDED |-> {"ESCROW_LOCKED"},
            RECOVERY_EXECUTED |-> {}]
EventTypes == DOMAIN Follows
MarketTypes == {"OBJECT_LISTED", "OBJECT_PURCHASED", "LISTING_CANCELLED"}
EscrowTypes == {"ESCROW_LOCKED", "ESCROW_DELIVERED", "ESCROW_RELEASED",
                "ESCROW_REFUNDED"}
RecoveryTypes == {"RECOVERY_EXECUTED"}

\* The events of some types in a log, and the records that events are about.
EventsOf(log, types) == {e \in DOMAIN log : log[e].type \in types}
StatusIn(log, r) ==
    LET about == {e \in DOMAIN log : log[e].record = r}
    IN  log[CHOOSE e \in about : \A d \in about : d <= e].type
RecordsOf(log, events) ==
    {[record |-> log[e].record, status |-> StatusIn(log, log[e].record)] :
        e \in events}

\* order_by desc with a limit.
LatestEvents(events) ==
    {e \in events : Cardinality({d \in events : d > e}) < RowLimit}
LatestRecords(rows) ==
    {r \in rows : Cardinality({s \in rows : s.record > r.record}) < RowLimit}

recordEvent(type, object, actor) ==
    LET n == Len(recorded)
        before(r) == /\ StatusIn(recorded, r) \in Follows[type]
                     /\ recorded[r].object = object
    IN  /\ n < MaxRecorded
        /\ \E record \in IF Follows[type] = {} THEN {n + 1}
                         ELSE {r \in 1..n : recorded[r].record = r /\ before(r)} :
              recorded' = Append(recorded,
                  [type |-> type, record |-> record, object |-> object,
                   actor |-> actor])
        /\ UNCHANGED <<place, display, requests>>

-----------------------------------------------------------------------------
(* What the histories show of the events that the index has                *)

getAgentHistory(log, agent) ==
    [rows |-> {},
     events |-> LatestEvents({e \in DOMAIN log : log[e].actor = agent})]
getEconomicObjectHistory(log, object) ==
    LET events == {e \in DOMAIN log : log[e].object = object}
    IN  [rows |-> RecordsOf(log, events), events |-> events]
Activity(log, types) ==
    LET events == EventsOf(log, types)
    IN  [rows |-> LatestRecords(RecordsOf(log, events)),
         events |-> LatestEvents(events)]
getMarketplaceActivity(log) == Activity(log, MarketTypes)
getEscrowActivity(log) == Activity(log, EscrowTypes)
getRecoveryHistory(log) == Activity(log, RecoveryTypes)

\* The daily metrics are waited for and shown nowhere: the totals of the
\* analytics are added up over the events.
getRecentEconomicEvents(log) ==
    [rows |-> {}, events |-> LatestEvents(DOMAIN log)]

\* The totals: what was bought, released or recovered, and what is locked.
Settled(rows) ==
    {r \in rows : r.status \in {"OBJECT_PURCHASED", "ESCROW_RELEASED",
                                "RECOVERY_EXECUTED"}}
Outstanding(rows) ==
    {r \in rows : r.status \in {"ESCROW_LOCKED", "ESCROW_DELIVERED"}}
Volume(log, events) ==
    {e \in events : log[e].type \in {"OBJECT_PURCHASED", "ESCROW_LOCKED",
                                     "ESCROW_RELEASED", "RECOVERY_EXECUTED"}}

\* What each of them shows of the answer that it keeps.
Nothing == [rows |-> {}, events |-> {}, settled |-> {}, outstanding |-> {},
            volume |-> {}]
AgentEconomicHistory(answer) == [Nothing EXCEPT !.events = answer.events]
EconomicObjectHistory(answer) == [Nothing EXCEPT !.events = answer.events]
MarketplaceHistory(answer) ==
    [Nothing EXCEPT !.events = answer.events, !.settled = Settled(answer.rows)]
EscrowHistory(answer) ==
    [Nothing EXCEPT !.rows = answer.rows, !.settled = Settled(answer.rows),
                    !.outstanding = Outstanding(answer.rows)]
RecoveryHistory(answer) ==
    [Nothing EXCEPT !.rows = answer.rows, !.settled = Settled(answer.rows)]
EconomicAnalyticsView(log, answer) ==
    [Nothing EXCEPT !.events = answer.events,
                    !.volume = Volume(log, answer.events)]

ShownOf(log, history, subject) ==
    CASE history = "agent" ->
            AgentEconomicHistory(getAgentHistory(log, subject))
      [] history = "object" ->
            EconomicObjectHistory(getEconomicObjectHistory(log, subject))
      [] history = "market" -> MarketplaceHistory(getMarketplaceActivity(log))
      [] history = "escrows" -> EscrowHistory(getEscrowActivity(log))
      [] history = "recoveries" -> RecoveryHistory(getRecoveryHistory(log))
      [] history = "analytics" ->
            EconomicAnalyticsView(log, getRecentEconomicEvents(log))

-----------------------------------------------------------------------------
(* The histories                                                           *)

Unused == [at |-> "unused"]
Dealt == [at |-> "done"]
Awaited == MaxRecorded + 1
Failed == 0

HistoriesInit ==
    /\ recorded = <<>>
    /\ place = [tab |-> "OVERVIEW", history |-> None,
                subject |-> None, since |-> 0, number |-> 0]
    /\ display = Nothing
    /\ requests = [q \in Requests |-> Unused]

\* The analytics ask two questions at once, the others one.
QuestionsOf(history) ==
    IF history = "analytics" THEN {"metrics", "events"} ELSE {"events"}

Ask(q) ==
    /\ requests[q] = Unused /\ \A p \in 1..(q - 1) : requests[p] # Unused
    /\ requests' = [requests EXCEPT ![q] =
          [at |-> "asked", history |-> place'.history, subject |-> place'.subject,
           number |-> place'.number,
           answers |-> [part \in QuestionsOf(place'.history) |-> Awaited]]]

\* The window of an agent's or an object's history covers the console.
IsCovered == place.history \in {"agent", "object"}

\* A tab is selected: what was mounted is gone.
onSelectTab(tab) ==
    /\ tab # place.tab /\ ~IsCovered
    /\ place' = [place EXCEPT !.tab = tab, !.history = None, !.subject = None]
    /\ display' = Nothing
    /\ UNCHANGED <<recorded, requests>>

\* A history under the tab is selected, or the window of an agent's or an
\* object's is opened: it asks at once.
mount(q, history, subject) ==
    /\ place.number < MaxMounts
    /\ history \in Offers[place.tab] /\ subject \in SubjectsOf(history)
    /\ history # place.history /\ ~IsCovered
    /\ place' = [place EXCEPT !.history = history, !.subject = subject,
                              !.since = Len(recorded), !.number = @ + 1]
    /\ display' = Nothing
    /\ Ask(q)
    /\ UNCHANGED recorded

\* The window is closed, or the records are left for what is listed locally.
onClose ==
    /\ place.history # None
    /\ place' = [place EXCEPT !.history = None, !.subject = None]
    /\ display' = Nothing
    /\ UNCHANGED <<recorded, requests>>

\* "Sync" asks again, whatever is on its way.
sync(q) ==
    /\ place.history # None
    /\ place' = place /\ Ask(q)
    /\ UNCHANGED <<recorded, display>>

\* The index answers with what it has, or not: then all is empty.
executeRequest(q, part) ==
    /\ requests[q].at = "asked"
    /\ part \in QuestionsOf(requests[q].history)
    /\ requests[q].answers[part] = Awaited
    /\ \E n \in {Failed, Len(recorded)} :
          requests' = [requests EXCEPT ![q].answers[part] = n]
    /\ UNCHANGED <<recorded, place, display>>

\* What the index had when it had n events.
IndexAt(n) == SubSeq(recorded, 1, n)

\* The answer for a history that is gone is dropped.
IsThere(q) == place.history # None /\ requests[q].number = place.number
AnswerTo(q) ==
    LET it == requests[q]
    IN  ShownOf(IndexAt(it.answers["events"]), it.history, it.subject)
ReceiveAnswer(q) ==
    /\ requests[q].at = "asked"
    /\ \A part \in QuestionsOf(requests[q].history) :
          requests[q].answers[part] # Awaited
    /\ display' = IF IsThere(q) THEN AnswerTo(q) ELSE display
    /\ requests' = [requests EXCEPT ![q] = Dealt]
    /\ UNCHANGED <<recorded, place>>

HistoriesNext ==
    \/ \E type \in EventTypes, object \in HistoryObjects, actor \in HistoryActors :
          recordEvent(type, object, actor)
    \/ \E tab \in Tabs : onSelectTab(tab)
    \/ onClose
    \/ \E q \in Requests :
          \/ \E history \in Histories : \E subject \in SubjectsOf(history) :
                mount(q, history, subject)
          \/ sync(q) \/ ReceiveAnswer(q)
          \/ \E part \in {"metrics", "events"} : executeRequest(q, part)

HistoriesSpec == HistoriesInit /\ [][HistoriesNext]_historiesVars

-----------------------------------------------------------------------------
(* Properties                                                              *)

\* What a history shows was so at one moment since it was opened: its rows,
\* its events and the totals over them are of one answer, of the agent or the
\* object that it names, whatever was asked before and whichever answer came
\* last; an answer that failed leaves nothing (EconomicObjectHistory.tsx:34-53,
\* EconomicAnalyticsView.tsx:20-39).
HistoryWasSo ==
    place.history # None =>
        \E n \in {Failed} \cup place.since..Len(recorded) :
            display = ShownOf(IndexAt(n), place.history, place.subject)

=============================================================================
