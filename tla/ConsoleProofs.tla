--------------------------- MODULE ConsoleProofs ----------------------------
(***************************************************************************)
(* Proofs about the console and about the programs beside the application. *)
(*                                                                         *)
(* The console, for any clicks, views, queries and rows, and any number of *)
(* events: the demonstration asks at most once for what it awaits, the     *)
(* live views and the histories say of the index what is so, and nothing   *)
(* that is shown of a counterparty is too old or another's.                *)
(*                                                                         *)
(* The guild's vault and its pipeline of agents, for any agents, stages,   *)
(* costs and amounts; the CRE workflow with its harness, for any           *)
(* candidates and caps.                                                    *)
(***************************************************************************)
EXTENDS MCViews, QwenReasoning, AgentGuild, CREWorkflow, EtherTotals

-----------------------------------------------------------------------------
(* The demonstration.  A step is counted before it works, so what is ahead *)
(* of the count was not asked for in this pass, and nothing in a later.    *)

LoopInv ==
    /\ currentStep \in 0..Last /\ pass \in Passes
    /\ askedFor \in [Awaiting \X Passes -> Nat]
    /\ \A k \in Awaiting, p \in Passes :
          /\ askedFor[<<k, p>>] <= 1
          /\ p > pass \/ (p = pass /\ k > currentStep) => askedFor[<<k, p>>] = 0

LEMMA LoopInvInit == LoopInit => LoopInv
<1> SUFFICES ASSUME LoopInit PROVE LoopInv
    OBVIOUS
<1>1. /\ currentStep = 0 /\ pass = 1
      /\ askedFor = [asked \in Awaiting \X Passes |-> 0]
    BY DEF LoopInit
<1>2. 1 \in Passes /\ 0 \in 0..Last
    BY LoopAssumption DEF Passes, Last
<1>3. QED
    BY <1>1, <1>2 DEF LoopInv

\* A step other than the next one leaves what was asked, and counts no less.
LEMMA NothingIsAsked ==
    ASSUME LoopInv, UNCHANGED <<askedFor, pass>>,
           currentStep' \in currentStep..Last
    PROVE  LoopInv'
BY DEF LoopInv, Awaiting, Lock, Settle, Recover, Last

LEMMA AwaitsOnce ==
    ASSUME LoopInv, NEW d, NEW step \in Awaiting, step = currentStep + 1,
           Awaits(d, step), currentStep' = step, UNCHANGED pass
    PROVE  LoopInv'
<1>1. /\ askedFor' = [askedFor EXCEPT ![<<step, pass>>] = @ + 1]
      /\ askedFor \in [Awaiting \X Passes -> Nat]
      /\ <<step, pass>> \in Awaiting \X Passes
      /\ askedFor[<<step, pass>>] = 0
      /\ currentStep \in Nat /\ pass \in Nat
    BY DEF Awaits, LoopInv, Passes
<1>2. /\ askedFor' \in [Awaiting \X Passes -> Nat]
      /\ \A k \in Awaiting, p \in Passes :
            askedFor'[<<k, p>>] = IF k = step /\ p = pass THEN 1
                                  ELSE askedFor[<<k, p>>]
    BY <1>1
<1>3. step \in 0..Last
    BY DEF Awaiting, Lock, Settle, Recover, Last
<1>4. QED
    BY <1>1, <1>2, <1>3
       DEF LoopInv, Passes, Awaiting, Lock, Settle, Recover

LEMMA LoopInvStep == LoopInv /\ [LoopNext]_loopVars => LoopInv'
<1> SUFFICES ASSUME LoopInv, [LoopNext]_loopVars PROVE LoopInv'
    OBVIOUS
<1>1. currentStep \in currentStep..Last
    BY DEF LoopInv, Last
<1>2. CASE UNCHANGED <<askedFor, pass, currentStep>>
    BY <1>1, <1>2, NothingIsAsked
<1>3. ASSUME NEW d \in Clicks, handleNextStep(d) \/ handleAutoRun(d)
      PROVE  LoopInv'
    BY <1>2, <1>3 DEF handleNextStep, handleAutoRun, Started
<1>4. CASE handleReset
  <2>1. /\ pass' = pass + 1 /\ currentStep' = 0 /\ UNCHANGED askedFor
        /\ pass < MaxPasses
    BY <1>4 DEF handleReset
  <2>2. pass' \in Passes /\ 0 \in 0..Last
    BY <2>1, LoopAssumption DEF LoopInv, Passes, Last
  <2>3. QED
    BY <2>1, <2>2 DEF LoopInv, Passes, Awaiting, Lock, Settle, Recover
<1>5. CASE Remount
    BY <1>2, <1>5 DEF Remount
<1>6. ASSUME NEW d \in Clicks, executeNextStep(d) PROVE LoopInv'
  <2>1. UNCHANGED pass
    BY <1>6 DEF executeNextStep
  <2>2. CASE currentStep >= Last
    BY <1>2, <1>6, <2>1, <2>2 DEF executeNextStep
  <2>3. CASE currentStep < Last
    <3> DEFINE step == currentStep + 1
    <3>1. currentStep' = step /\ Work(d, step)
      BY <1>6, <2>3 DEF executeNextStep, Count, LoopInv, Last
    <3>2. step \in currentStep..Last
      BY <2>3 DEF LoopInv, Last
    <3>3. UNCHANGED askedFor \/ (step \in Awaiting /\ Awaits(d, step))
      <4>1. CASE step = Lock
        <5>1. AskLock(d)
          BY <3>1, <4>1 DEF Work, Lock, Deliver, Settle, Recover
        <5>2. QED
          BY <4>1, <5>1 DEF AskLock, Awaiting, Awaits
      <4>2. CASE step = Deliver
        <5>1. SubmitDelivery(d)
          BY <3>1, <4>2 DEF Work, Lock, Deliver, Settle, Recover
        <5>2. QED
          BY <5>1 DEF SubmitDelivery
      <4>3. CASE step = Settle
        BY <3>1, <4>3
           DEF Work, AskRelease, Lock, Deliver, Settle, Recover, Awaiting
      <4>4. CASE step = Recover
        BY <3>1, <4>4
           DEF Work, AskRecovery, Lock, Deliver, Settle, Recover, Awaiting
      <4>5. CASE step \notin {Lock, Deliver, Settle, Recover}
        BY <3>1, <4>5 DEF Work, Tell
      <4>6. QED
        BY <4>1, <4>2, <4>3, <4>4, <4>5
    <3>4. QED
      BY <2>1, <3>1, <3>2, <3>3, NothingIsAsked, AwaitsOnce
  <2>4. QED
    BY <2>2, <2>3 DEF LoopInv, Last
<1>7. ASSUME NEW d \in Clicks, Answered(d) \/ Wakes(d) PROVE LoopInv'
    BY <1>2, <1>7 DEF Answered, Wakes
<1>8. CASE UNCHANGED loopVars
    BY <1>2, <1>8 DEF loopVars
<1>9. QED
    BY <1>3, <1>4, <1>5, <1>6, <1>7, <1>8 DEF LoopNext, GoesOn

-----------------------------------------------------------------------------
(* The live views.  An answer on its way to the present mount of a stream  *)
(* has indexed events only, and a timeline's has those of its agent: the   *)
(* agent of a mount is the one it was opened for.                          *)

IsQuery(q) == queries[q].at \in {"asked", "answered", "checking"}
IsFor(q, v) ==
    IsQuery(q) /\ queries[q].view = v /\ queries[q].mount = mounts[v]

ViewsOK ==
    /\ happened \in Seq([type : {Created, Released, Completed},
                         actor : HistoryAgents, indexed : BOOLEAN])
    /\ mounts \in [Panels -> Nat]
    /\ DOMAIN topic = Panels /\ DOMAIN badge = Panels
    /\ shown \in [Panels -> SUBSET DOMAIN happened]
    /\ DOMAIN queries = Queries

QueriesOK ==
    \A q \in Queries : IsQuery(q) =>
        /\ queries[q].view \in Panels
        /\ queries[q].mount \in Nat
        /\ queries[q].mount <= mounts[queries[q].view]

\* Whose events a query of the timeline is after, and which an answer has.
AskedForAgent ==
    \A q \in Queries :
        queries[q].at = "asked" /\ IsFor(q, "timeline") =>
            queries[q].topic = topic["timeline"]
IsAnswer(a) ==
    a = [at |-> a.at, view |-> a.view, mount |-> a.mount, isLive |-> a.isLive,
         rows |-> a.rows]
AnswersOK ==
    \A q \in Queries :
        queries[q].at = "answered" =>
            /\ IsAnswer(queries[q])
            /\ queries[q].rows \subseteq DOMAIN happened
            /\ queries[q].view \in Streams =>
                  \A e \in queries[q].rows : IsIndexed(e)
            /\ IsFor(q, "timeline") =>
                  \A e \in queries[q].rows :
                      happened[e].actor \in Matched[topic["timeline"]]

HistoryInv ==
    ViewsOK /\ QueriesOK /\ AskedForAgent /\ AnswersOK /\ ViewsAreHonest

\* The newest are among those there are, and the very newest among them.
LEMMA LatestAreShown ==
    ASSUME NEW v, NEW events
    PROVE  /\ Latest(v, events) \subseteq events
           /\ \A e \in events : (\A f \in events : ~(f > e)) => e \in Latest(v, events)
<1>1. \A e \in events : (\A f \in events : ~(f > e)) => e \in Newest(events, Limit)
  <2> SUFFICES ASSUME NEW e \in events, \A f \in events : ~(f > e)
               PROVE  e \in Newest(events, Limit)
    OBVIOUS
  <2>1. {f \in events : f > e} = {}
    OBVIOUS
  <2>2. Cardinality({f \in events : f > e}) = 0
    BY <2>1, FS_EmptySet
  <2>3. Limit \in Nat /\ Limit # 0
    BY HistoryAssumption
  <2>4. QED
    BY <2>2, <2>3 DEF Newest
<1>2. QED
    BY <1>1 DEF Latest, Newest

\* An event happens: those before it stay as they are.
LEMMA EventsStay ==
    ASSUME ViewsOK, NEW type \in {Created, Released, Completed},
           NEW actor \in HistoryAgents, NEW indexed \in BOOLEAN,
           Happens(type, actor, indexed)
    PROVE  /\ happened' \in Seq([type : {Created, Released, Completed},
                                 actor : HistoryAgents, indexed : BOOLEAN])
           /\ Len(happened') \in Nat
           /\ DOMAIN happened' = DOMAIN happened \cup {Len(happened')}
           /\ \A e \in DOMAIN happened : happened'[e] = happened[e]
           /\ happened'[Len(happened')] =
                 [type |-> type, actor |-> actor, indexed |-> indexed]
           /\ \A e \in DOMAIN happened : e \in Nat /\ e < Len(happened')
<1> DEFINE event == [type |-> type, actor |-> actor, indexed |-> indexed]
           Events == [type : {Created, Released, Completed},
                      actor : HistoryAgents, indexed : BOOLEAN]
<1>1. happened' = Append(happened, event) /\ event \in Events
      /\ happened \in Seq(Events)
    BY DEF Happens, ViewsOK
<1> HIDE DEF event, Events
<1>2. /\ happened' \in Seq(Events) /\ Len(happened') = Len(happened) + 1
      /\ Len(happened) \in Nat
      /\ DOMAIN happened = 1..Len(happened)
      /\ DOMAIN happened' = 1..Len(happened')
      /\ \A e \in 1..Len(happened) : happened'[e] = happened[e]
      /\ happened'[Len(happened')] = event
    BY <1>1
<1>3. QED
    BY <1>2 DEF event, Events

LEMMA HistoryInvInit == HistoryInit => HistoryInv
<1> SUFFICES ASSUME HistoryInit PROVE HistoryInv
    OBVIOUS
<1>1. ViewsOK
    BY DEF HistoryInit, ViewsOK
<1>2. \A q \in Queries : ~IsQuery(q)
    BY DEF HistoryInit, IsQuery, NoQuery
<1>3. ViewsAreHonest
  <2>1. \A v \in Streams : badge[v] = "INDEXING" /\ shown[v] = {}
    BY DEF HistoryInit, Panels
  <2>2. "timeline" \in Streams
    BY DEF Streams
  <2>3. QED
    BY <2>1, <2>2 DEF ViewsAreHonest, BadgeIsHonest, TimelineIsOfItsAgent
<1>4. QED
    BY <1>1, <1>2, <1>3 DEF HistoryInv, QueriesOK, AskedForAgent, AnswersOK,
                            IsFor, IsQuery

\* What was there, and the answers on their way, are as true as they were.
LEMMA EventsKeepQueries ==
    ASSUME HistoryInv, UNCHANGED <<mounts, topic, queries>>,
           DOMAIN happened \subseteq DOMAIN happened',
           \A e \in DOMAIN happened : happened'[e] = happened[e]
    PROVE  QueriesOK' /\ AskedForAgent' /\ AnswersOK'
BY DEF HistoryInv, QueriesOK, AskedForAgent, AnswersOK, IsFor, IsQuery,
       IsIndexed

LEMMA IndexEventKeeps ==
    ASSUME HistoryInv, NEW type \in IndexedTypes, NEW actor \in HistoryAgents,
           indexEvent(type, actor)
    PROVE  HistoryInv'
<1>1. /\ UNCHANGED <<mounts, topic, queries, shown, badge>>
      /\ Happens(type, actor, TRUE)
    BY DEF indexEvent, panelVars
<1>2. /\ happened' \in Seq([type : {Created, Released, Completed},
                            actor : HistoryAgents, indexed : BOOLEAN])
      /\ DOMAIN happened \subseteq DOMAIN happened'
      /\ \A e \in DOMAIN happened : happened'[e] = happened[e]
  <2>1. type \in {Created, Released, Completed} /\ TRUE \in BOOLEAN
    BY DEF IndexedTypes
  <2>2. QED
    BY <1>1, <2>1, EventsStay DEF HistoryInv
<1>3. shown' \in [Panels -> SUBSET DOMAIN happened']
    BY <1>1, <1>2 DEF HistoryInv, ViewsOK
<1>4. ViewsOK'
    BY <1>1, <1>2, <1>3 DEF HistoryInv, ViewsOK
<1>5. \A v \in Panels : shown[v] \subseteq DOMAIN happened
    BY DEF HistoryInv, ViewsOK
<1>6. ViewsAreHonest'
    BY <1>1, <1>2, <1>5
       DEF HistoryInv, ViewsAreHonest, BadgeIsHonest, TimelineIsOfItsAgent,
           IsIndexed, Streams, Panels
<1>7. QED
    BY <1>1, <1>2, <1>4, <1>6, EventsKeepQueries DEF HistoryInv

LEMMA AnnouncementKeeps ==
    ASSUME HistoryInv, NEW actor \in HistoryAgents, emitRealtimeEvent(actor)
    PROVE  HistoryInv'
<1> DEFINE e == Len(happened')
           Hears(v) == /\ v \in Streams /\ IsOpen(v)
                       /\ v = "timeline" => topic[v] = actor
<1>1. /\ UNCHANGED <<mounts, topic, queries>>
      /\ Happens(Completed, actor, FALSE)
      /\ shown' = [v \in Panels |->
            IF Hears(v) THEN Latest(v, shown[v] \cup {e}) ELSE shown[v]]
      /\ badge' = [v \in Panels |->
            IF Hears(v) THEN "SIMULATION" ELSE badge[v]]
    BY DEF emitRealtimeEvent, BadgeOfAnnounced
<1>2. /\ happened' \in Seq([type : {Created, Released, Completed},
                            actor : HistoryAgents, indexed : BOOLEAN])
      /\ DOMAIN happened' = DOMAIN happened \cup {e}
      /\ \A f \in DOMAIN happened : happened'[f] = happened[f]
      /\ happened'[e] =
            [type |-> Completed, actor |-> actor, indexed |-> FALSE]
      /\ \A f \in DOMAIN happened : f \in Nat /\ f < e
      /\ e \in Nat
  <2>1. Completed \in {Created, Released, Completed} /\ FALSE \in BOOLEAN
    OBVIOUS
  <2>2. ViewsOK /\ Happens(Completed, actor, FALSE)
    BY <1>1 DEF HistoryInv
  <2>3. QED
    BY <2>1, <2>2, EventsStay
<1> HIDE DEF e, Hears
<1>3. \A v \in Panels : shown[v] \subseteq DOMAIN happened
    BY DEF HistoryInv, ViewsOK
<1>4. \A v \in Panels :
          IF Hears(v)
          THEN /\ badge'[v] = "SIMULATION" /\ e \in shown'[v]
               /\ shown'[v] \subseteq shown[v] \cup {e}
          ELSE badge'[v] = badge[v] /\ shown'[v] = shown[v]
  <2>1. TAKE v \in Panels
  <2> DEFINE heard == shown[v] \cup {e}
  <2>2. \A f \in heard : ~(f > e)
    <3>1. ASSUME NEW f \in shown[v] PROVE ~(f > e)
      <4>1. f \in Nat /\ f < e /\ e \in Nat
        BY <1>2, <1>3
      <4>2. QED
        BY <4>1
    <3>2. ~(e > e)
      <4>1. e \in Nat
        BY <1>2
      <4>2. QED
        BY <4>1
    <3>3. QED
      BY <3>1, <3>2
  <2>3. e \in Latest(v, heard) /\ Latest(v, heard) \subseteq heard
    BY <2>2, LatestAreShown
  <2>4. shown'[v] = IF Hears(v) THEN Latest(v, heard) ELSE shown[v]
    BY <1>1
  <2> HIDE DEF heard
  <2>5. badge'[v] = IF Hears(v) THEN "SIMULATION" ELSE badge[v]
    BY <1>1
  <2>6. QED
    BY <2>3, <2>4, <2>5 DEF heard
<1>5. ViewsOK'
  <2>1. \A v \in Panels : shown'[v] \subseteq DOMAIN happened'
    BY <1>2, <1>3, <1>4
  <2>2. DOMAIN shown' = Panels /\ DOMAIN badge' = Panels
        /\ shown' = [v \in Panels |-> shown'[v]]
    BY <1>1
  <2>3. QED
    BY <1>1, <1>2, <2>1, <2>2 DEF HistoryInv, ViewsOK
<1>6. BadgeIsHonest'
  <2> SUFFICES ASSUME NEW v \in Streams
               PROVE  CASE badge'[v] = "LIVE" -> \A f \in shown'[v] : IsIndexed(f)'
                        [] badge'[v] = "SIMULATION" ->
                              \E f \in shown'[v] : ~IsIndexed(f)'
                        [] OTHER -> shown'[v] = {}
    BY DEF BadgeIsHonest
  <2>1. v \in Panels
    BY DEF Streams, Panels
  <2>2. CASE Hears(v)
    <3>1. badge'[v] = "SIMULATION" /\ e \in shown'[v]
      BY <1>4, <2>1, <2>2
    <3>2. ~happened'[e].indexed
      BY <1>2
    <3>3. QED
      BY <3>1, <3>2 DEF IsIndexed
  <2>3. CASE ~Hears(v)
    <3>1. badge'[v] = badge[v] /\ shown'[v] = shown[v]
      BY <1>4, <2>1, <2>3
    <3>2. \A f \in shown[v] : happened'[f] = happened[f]
      BY <1>2, <1>3, <2>1
    <3>3. QED
      BY <3>1, <3>2 DEF HistoryInv, ViewsAreHonest, BadgeIsHonest, IsIndexed
  <2>4. QED
    BY <2>2, <2>3
<1>7. TimelineIsOfItsAgent'
  <2>1. "timeline" \in Panels
    BY DEF Streams, Panels
  <2>2. \A f \in shown["timeline"] :
           happened'[f].actor \in IF happened'[f].indexed
                                  THEN Matched[topic["timeline"]]
                                  ELSE {topic["timeline"]}
    <3>1. \A f \in shown["timeline"] : happened'[f] = happened[f]
      BY <1>2, <1>3, <2>1
    <3>2. QED
      BY <3>1 DEF HistoryInv, ViewsAreHonest, TimelineIsOfItsAgent, IsIndexed
  <2>3. happened'[e].actor = actor /\ ~happened'[e].indexed
    BY <1>2
  <2>4. topic'["timeline"] = topic["timeline"]
    BY <1>1
  <2>5. ASSUME NEW f \in shown'["timeline"]
        PROVE  happened'[f].actor \in IF happened'[f].indexed
                                      THEN Matched[topic["timeline"]]
                                      ELSE {topic["timeline"]}
    <3>1. CASE f \in shown["timeline"]
      BY <2>2, <3>1
    <3>2. CASE f \notin shown["timeline"]
      <4>1. Hears("timeline") /\ f = e
        BY <1>4, <2>1, <2>5, <3>2
      <4>2. topic["timeline"] = actor
        BY <4>1 DEF Hears
      <4>3. QED
        BY <2>3, <4>1, <4>2
    <3>3. QED
      BY <3>1, <3>2
  <2>6. QED
    BY <2>4, <2>5 DEF TimelineIsOfItsAgent, IsIndexed
<1>8. DOMAIN happened \subseteq DOMAIN happened'
    BY <1>2
<1>9. QED
    BY <1>1, <1>2, <1>5, <1>6, <1>7, <1>8, EventsKeepQueries
       DEF HistoryInv, ViewsAreHonest

\* A query is begun: of the mount that its view has, with its topic.
LEMMA FetchKeeps ==
    ASSUME HistoryInv, NEW q \in Queries, NEW v \in Panels, NEW t, NEW m,
           Fetch(q, v, t, m), m = mounts'[v],
           mounts' \in [Panels -> Nat],
           \A w \in Panels \ {v} : mounts'[w] = mounts[w],
           \/ UNCHANGED <<mounts[v], topic["timeline"]>>
           \/ mounts'[v] = mounts[v] + 1,
           v = "timeline" => t = topic'[v],
           v # "timeline" => UNCHANGED topic["timeline"],
           UNCHANGED happened
    PROVE  DOMAIN queries' = Queries /\ QueriesOK' /\ AskedForAgent' /\ AnswersOK'
<1> DEFINE new == [at |-> "asked", view |-> v, mount |-> m, topic |-> t]
<1>1. new.at = "asked" /\ new.view = v /\ new.mount = m /\ new.topic = t
    OBVIOUS
<1>2. queries' = [queries EXCEPT ![q] = new]
    BY DEF Fetch
<1> HIDE DEF new
<1>3. /\ DOMAIN queries' = Queries /\ queries'[q] = new
      /\ \A p \in Queries \ {q} : queries'[p] = queries[p]
    BY <1>2 DEF HistoryInv, ViewsOK
<1>4. \A w \in Panels : mounts[w] \in Nat /\ mounts'[w] \in Nat
    BY DEF HistoryInv, ViewsOK
<1>5. "timeline" \in Panels
    BY DEF Panels, Streams
<1>6. \A w \in Panels : mounts[w] <= mounts'[w]
    BY <1>4
<1>7. QueriesOK'
  <2> SUFFICES ASSUME NEW p \in Queries, IsQuery(p)'
               PROVE  /\ queries'[p].view \in Panels
                      /\ queries'[p].mount \in Nat
                      /\ queries'[p].mount <= mounts'[queries'[p].view]
    BY DEF QueriesOK
  <2>1. CASE p = q
    BY <1>1, <1>3, <1>4, <2>1
  <2>2. CASE p # q
    <3>1. /\ queries'[p] = queries[p] /\ queries[p].view \in Panels
          /\ queries[p].mount \in Nat
          /\ queries[p].mount <= mounts[queries[p].view]
      BY <1>3, <2>2 DEF HistoryInv, QueriesOK, IsQuery
    <3>2. /\ mounts[queries[p].view] \in Nat /\ mounts'[queries[p].view] \in Nat
          /\ mounts[queries[p].view] <= mounts'[queries[p].view]
      BY <1>4, <1>6, <3>1
    <3>3. QED
      BY <3>1, <3>2
  <2>3. QED
    BY <2>1, <2>2
\* A query of the present mount of the timeline, if it is not new, was one.
<1>8. ASSUME NEW p \in Queries \ {q}, IsFor(p, "timeline")'
      PROVE  IsFor(p, "timeline") /\ UNCHANGED topic["timeline"]
  <2>1. /\ IsQuery(p) /\ queries[p].view = "timeline"
        /\ queries[p].mount = mounts'["timeline"]
        /\ queries[p].mount <= mounts["timeline"]
    BY <1>3, <1>8 DEF IsFor, IsQuery, HistoryInv, QueriesOK
  <2>2. mounts'["timeline"] # mounts["timeline"] + 1
    BY <1>4, <1>5, <2>1
  <2>3. UNCHANGED topic["timeline"] /\ UNCHANGED mounts["timeline"]
    BY <1>5, <2>2
  <2>4. QED
    BY <2>1, <2>3 DEF IsFor
<1>9. AskedForAgent'
  <2> SUFFICES ASSUME NEW p \in Queries, queries'[p].at = "asked",
                      IsFor(p, "timeline")'
               PROVE  queries'[p].topic = topic'["timeline"]
    BY DEF AskedForAgent
  <2>1. CASE p = q
    BY <1>1, <1>3, <2>1 DEF IsFor
  <2>2. CASE p # q
    BY <1>3, <1>8, <2>2 DEF HistoryInv, AskedForAgent
  <2>3. QED
    BY <2>1, <2>2
<1>10. AnswersOK'
  <2> SUFFICES ASSUME NEW p \in Queries, queries'[p].at = "answered"
               PROVE  /\ IsAnswer(queries'[p])
                      /\ queries'[p].rows \subseteq DOMAIN happened'
                      /\ queries'[p].view \in Streams =>
                            \A e \in queries'[p].rows : IsIndexed(e)'
                      /\ IsFor(p, "timeline")' =>
                            \A e \in queries'[p].rows :
                                happened'[e].actor
                                    \in Matched[topic'["timeline"]]
    BY DEF AnswersOK
  <2>1. p # q /\ queries'[p] = queries[p]
    BY <1>1, <1>3
  <2>2. \A e : IsIndexed(e)' <=> IsIndexed(e)
    BY DEF IsIndexed
  <2>3. QED
    BY <1>8, <2>1, <2>2 DEF HistoryInv, AnswersOK
<1>11. QED
    BY <1>3, <1>7, <1>9, <1>10

LEMMA OpenKeeps ==
    ASSUME HistoryInv, NEW q \in Queries, NEW v \in Panels, NEW t,
           Open(q, v, t)
    PROVE  HistoryInv'
<1>1. /\ mounts' = [mounts EXCEPT ![v] = @ + 1]
      /\ topic' = [topic EXCEPT ![v] = t]
      /\ shown' = [shown EXCEPT ![v] = {}]
      /\ badge' = [badge EXCEPT ![v] = "INDEXING"]
      /\ Fetch(q, v, t, mounts[v] + 1) /\ UNCHANGED happened
    BY DEF Open
<1>2. mounts \in [Panels -> Nat] /\ DOMAIN topic = Panels
      /\ DOMAIN badge = Panels /\ shown \in [Panels -> SUBSET DOMAIN happened]
      /\ "timeline" \in Panels /\ Streams \subseteq Panels
    BY DEF HistoryInv, ViewsOK, Panels, Streams
<1>3. /\ mounts' \in [Panels -> Nat] /\ mounts'[v] = mounts[v] + 1
      /\ \A w \in Panels \ {v} : mounts'[w] = mounts[w]
      /\ DOMAIN topic' = Panels /\ topic'[v] = t
      /\ v # "timeline" => UNCHANGED topic["timeline"]
    BY <1>1, <1>2
<1>4. DOMAIN queries' = Queries /\ QueriesOK' /\ AskedForAgent' /\ AnswersOK'
    BY <1>1, <1>3, FetchKeeps
<1>5. /\ DOMAIN badge' = Panels /\ badge'[v] = "INDEXING"
      /\ shown' \in [Panels -> SUBSET DOMAIN happened] /\ shown'[v] = {}
      /\ \A w \in Panels \ {v} : badge'[w] = badge[w] /\ shown'[w] = shown[w]
    BY <1>1, <1>2
<1>6. ViewsOK'
    BY <1>1, <1>3, <1>4, <1>5 DEF HistoryInv, ViewsOK
<1>7. BadgeIsHonest'
    BY <1>1, <1>2, <1>5
       DEF HistoryInv, ViewsAreHonest, BadgeIsHonest, IsIndexed
<1>8. TimelineIsOfItsAgent'
    BY <1>1, <1>2, <1>3, <1>5
       DEF HistoryInv, ViewsAreHonest, TimelineIsOfItsAgent, IsIndexed
<1>9. QED
    BY <1>4, <1>6, <1>7, <1>8 DEF HistoryInv, ViewsAreHonest

\* A query changes nothing of what is shown.
LEMMA ViewsStayHonest ==
    ASSUME HistoryInv, UNCHANGED <<happened, shown, badge, topic["timeline"]>>
    PROVE  ViewsAreHonest'
BY DEF HistoryInv, ViewsAreHonest, BadgeIsHonest, TimelineIsOfItsAgent,
       IsIndexed

LEMMA RefreshKeeps ==
    ASSUME HistoryInv, NEW q \in Queries, NEW v \in Panels, Refresh(q, v)
    PROVE  HistoryInv'
<1>1. /\ Fetch(q, v, topic[v], mounts[v])
      /\ UNCHANGED <<happened, mounts, topic, shown, badge>>
    BY DEF Refresh
<1>2. mounts \in [Panels -> Nat]
    BY DEF HistoryInv, ViewsOK
<1>3. DOMAIN queries' = Queries /\ QueriesOK' /\ AskedForAgent' /\ AnswersOK'
    BY <1>1, <1>2, FetchKeeps
<1>4. QED
    BY <1>1, <1>3, ViewsStayHonest DEF HistoryInv, ViewsOK

LEMMA FilterKeeps ==
    ASSUME HistoryInv, NEW q \in Queries, NEW t, setFilterType(q, t)
    PROVE  HistoryInv'
<1>1. /\ topic' = [topic EXCEPT !["ledger"] = t]
      /\ Fetch(q, "ledger", t, mounts["ledger"])
      /\ UNCHANGED <<happened, mounts, shown, badge>>
    BY DEF setFilterType
<1>2. /\ mounts \in [Panels -> Nat] /\ DOMAIN topic' = Panels
      /\ UNCHANGED topic["timeline"] /\ "ledger" \in Panels
    BY <1>1 DEF HistoryInv, ViewsOK, Panels, Streams
<1>3. DOMAIN queries' = Queries /\ QueriesOK' /\ AskedForAgent' /\ AnswersOK'
    BY <1>1, <1>2, FetchKeeps
<1>4. ViewsAreHonest'
    BY <1>1, <1>2, ViewsStayHonest
<1>5. QED
    BY <1>1, <1>2, <1>3, <1>4 DEF HistoryInv, ViewsOK

LEMMA ExecuteQueryKeeps ==
    ASSUME HistoryInv, NEW q \in Queries, executeQuery(q)
    PROVE  HistoryInv'
<1> DEFINE query == queries[q]
           found == {e \in DOMAIN happened :
                        IsIndexed(e) /\ Concerns(query.view, query.topic, e)}
<1>1. PICK ok \in BOOLEAN :
          queries' = [queries EXCEPT ![q] =
              [at |-> "answered", view |-> query.view, mount |-> query.mount,
               isLive |-> ok,
               rows |-> Latest(query.view, IF ok THEN found ELSE {})]]
    BY DEF executeQuery
<1>2. /\ query.at = "asked"
      /\ UNCHANGED <<happened, mounts, topic, shown, badge>>
    BY DEF executeQuery, panelVars
<1> DEFINE rows == Latest(query.view, IF ok THEN found ELSE {})
           answer == [at |-> "answered", view |-> query.view,
                      mount |-> query.mount, isLive |-> ok, rows |-> rows]
<1>3. rows \subseteq found
    BY LatestAreShown
<1>4. /\ answer.at = "answered" /\ answer.view = query.view
      /\ answer.mount = query.mount /\ answer.rows = rows /\ IsAnswer(answer)
    BY DEF IsAnswer
<1>5. queries' = [queries EXCEPT ![q] = answer]
    BY <1>1
<1> HIDE DEF answer, rows
<1>6. /\ DOMAIN queries' = Queries /\ queries'[q] = answer
      /\ \A p \in Queries \ {q} : queries'[p] = queries[p]
    BY <1>5 DEF HistoryInv, ViewsOK
<1>7. QueriesOK'
    BY <1>2, <1>4, <1>6 DEF HistoryInv, QueriesOK, IsQuery
<1>8. AskedForAgent'
    BY <1>2, <1>4, <1>6 DEF HistoryInv, AskedForAgent, IsFor, IsQuery
<1>9. AnswersOK'
  <2> SUFFICES ASSUME NEW p \in Queries, queries'[p].at = "answered"
               PROVE  /\ IsAnswer(queries'[p])
                      /\ queries'[p].rows \subseteq DOMAIN happened'
                      /\ queries'[p].view \in Streams =>
                            \A e \in queries'[p].rows : IsIndexed(e)'
                      /\ IsFor(p, "timeline")' =>
                            \A e \in queries'[p].rows :
                                happened'[e].actor
                                    \in Matched[topic'["timeline"]]
    BY DEF AnswersOK
  <2>1. \A e : IsIndexed(e)' <=> IsIndexed(e)
    BY <1>2 DEF IsIndexed
  <2>2. CASE p = q
    <3>1. rows \subseteq DOMAIN happened /\ \A e \in rows : IsIndexed(e)
      BY <1>3
    <3>2. ASSUME IsFor(q, "timeline")', NEW e \in rows
          PROVE  happened[e].actor \in Matched[topic["timeline"]]
      <4>1. query.view = "timeline" /\ query.topic = topic["timeline"]
        BY <1>2, <1>4, <1>6, <3>2
           DEF IsFor, IsQuery, HistoryInv, AskedForAgent
      <4>2. Concerns(query.view, query.topic, e)
        BY <1>3, <3>2
      <4>3. QED
        BY <4>1, <4>2 DEF Concerns
    <3>3. QED
      BY <1>2, <1>4, <1>6, <2>1, <2>2, <3>1, <3>2
  <2>3. CASE p # q
    BY <1>2, <1>6, <2>1, <2>3 DEF HistoryInv, AnswersOK, IsFor, IsQuery
  <2>4. QED
    BY <2>2, <2>3
<1>10. ViewsAreHonest'
    BY <1>2, ViewsStayHonest
<1>11. QED
    BY <1>2, <1>6, <1>7, <1>8, <1>9, <1>10 DEF HistoryInv, ViewsOK

\* A query is over, or its health is asked about: the others stay.
LEMMA QueryEndsKeeps ==
    ASSUME HistoryInv, NEW q \in Queries, NEW new,
           IsQuery(q),
           queries' = [queries EXCEPT ![q] = new],
           \/ new.at = "received"
           \/ /\ new.at = "checking" /\ new.view = queries[q].view
              /\ new.mount = queries[q].mount,
           UNCHANGED <<happened, mounts, topic>>
    PROVE  DOMAIN queries' = Queries /\ QueriesOK' /\ AskedForAgent' /\ AnswersOK'
<1>1. /\ DOMAIN queries' = Queries /\ queries'[q] = new
      /\ \A p \in Queries \ {q} : queries'[p] = queries[p]
    BY DEF HistoryInv, ViewsOK
<1>2. QED
    BY <1>1 DEF HistoryInv, QueriesOK, AskedForAgent, AnswersOK, IsFor, IsQuery,
                IsIndexed

LEMMA ReceiveKeeps ==
    ASSUME HistoryInv, NEW q \in Queries, Receive(q)
    PROVE  HistoryInv'
<1> DEFINE answer == queries[q]
           v == answer.view
<1>1. /\ answer.at = "answered" /\ IsQuery(q)
      /\ UNCHANGED <<happened, mounts, topic>>
    BY DEF Receive, IsQuery
<1>2. /\ v \in Panels /\ answer.rows \subseteq DOMAIN happened
      /\ v \in Streams => \A e \in answer.rows : IsIndexed(e)
      /\ IsFor(q, "timeline") =>
            \A e \in answer.rows :
                happened[e].actor \in Matched[topic["timeline"]]
    BY <1>1 DEF HistoryInv, QueriesOK, AnswersOK
<1>3. CASE ~ForTheMount(answer)
  <2>1. /\ queries' = [queries EXCEPT ![q] = Received]
        /\ UNCHANGED <<shown, badge>>
    BY <1>3 DEF Receive
  <2>2. DOMAIN queries' = Queries /\ QueriesOK' /\ AskedForAgent' /\ AnswersOK'
    BY <1>1, <2>1, QueryEndsKeeps DEF Received
  <2>3. QED
    BY <1>1, <2>1, <2>2, ViewsStayHonest DEF HistoryInv, ViewsOK
<1>4. CASE ForTheMount(answer)
  <2>1. /\ shown' = [shown EXCEPT ![v] = answer.rows]
        /\ \/ /\ v = "objects" /\ UNCHANGED badge
              /\ queries' = [queries EXCEPT ![q].at = "checking"]
           \/ /\ badge' = [badge EXCEPT ![v] = BadgeOfAnswer(answer)]
              /\ queries' = [queries EXCEPT ![q] = Received]
    BY <1>4 DEF Receive, Ended
  <2>2. DOMAIN queries' = Queries /\ QueriesOK' /\ AskedForAgent' /\ AnswersOK'
    <3>1. CASE queries' = [queries EXCEPT ![q] = Received]
      BY <1>1, <3>1, QueryEndsKeeps DEF Received
    <3>2. CASE queries' = [queries EXCEPT ![q].at = "checking"]
      <4> DEFINE new == [answer EXCEPT !.at = "checking"]
      <4>1. IsAnswer(answer)
        BY <1>1 DEF HistoryInv, AnswersOK
      <4>2. /\ new.at = "checking" /\ new.view = answer.view
            /\ new.mount = answer.mount
        BY <4>1 DEF IsAnswer
      <4>3. queries' = [queries EXCEPT ![q] = new]
        BY <3>2
      <4> HIDE DEF new
      <4>4. QED
        BY <1>1, <4>2, <4>3, QueryEndsKeeps
    <3>3. QED
      BY <2>1, <3>1, <3>2
  <2>3. /\ shown' \in [Panels -> SUBSET DOMAIN happened]
        /\ shown'[v] = answer.rows
        /\ \A w \in Panels \ {v} : shown'[w] = shown[w]
    BY <1>2, <2>1 DEF HistoryInv, ViewsOK
  <2>4. /\ DOMAIN badge' = Panels
        /\ v \in Streams => badge'[v] = BadgeOfAnswer(answer)
        /\ \A w \in Panels \ {v} : badge'[w] = badge[w]
    BY <1>2, <2>1 DEF HistoryInv, ViewsOK, Streams
  <2>5. ViewsOK'
    BY <1>1, <2>2, <2>3, <2>4 DEF HistoryInv, ViewsOK
  <2>6. BadgeIsHonest'
    <3> SUFFICES ASSUME NEW w \in Streams
                 PROVE  CASE badge'[w] = "LIVE" ->
                                \A e \in shown'[w] : IsIndexed(e)'
                          [] badge'[w] = "SIMULATION" ->
                                \E e \in shown'[w] : ~IsIndexed(e)'
                          [] OTHER -> shown'[w] = {}
      BY DEF BadgeIsHonest
    <3>1. w \in Panels /\ \A e : IsIndexed(e)' <=> IsIndexed(e)
      BY <1>1 DEF Panels, IsIndexed
    <3>2. CASE w = v
      <4>1. badge'[v] = IF answer.rows # {} THEN "LIVE" ELSE "NO_DATA"
        BY <2>4, <3>2 DEF BadgeOfAnswer, Streams
      <4>2. QED
        BY <1>2, <2>3, <3>1, <3>2, <4>1
    <3>3. CASE w # v
      BY <2>3, <2>4, <3>1, <3>3 DEF HistoryInv, ViewsAreHonest, BadgeIsHonest
    <3>4. QED
      BY <3>2, <3>3
  <2>7. TimelineIsOfItsAgent'
    <3>1. "timeline" \in Panels
      BY DEF Panels, Streams
    <3>2. CASE v = "timeline"
      <4>1. IsFor(q, "timeline")
        BY <1>1, <1>4, <3>2 DEF IsFor, ForTheMount
      <4>2. \A e \in answer.rows :
               IsIndexed(e) /\ happened[e].actor \in Matched[topic["timeline"]]
        BY <1>1, <3>2, <4>1 DEF HistoryInv, AnswersOK, Streams
      <4>3. QED
        BY <1>1, <1>2, <2>3, <3>2, <4>2 DEF TimelineIsOfItsAgent, IsIndexed
    <3>3. CASE v # "timeline"
      BY <1>1, <2>3, <3>1, <3>3
         DEF HistoryInv, ViewsAreHonest, TimelineIsOfItsAgent, IsIndexed
    <3>4. QED
      BY <3>2, <3>3
  <2>8. QED
    BY <2>2, <2>5, <2>6, <2>7 DEF HistoryInv, ViewsAreHonest
<1>5. QED
    BY <1>3, <1>4

LEMMA CheckHealthKeeps ==
    ASSUME HistoryInv, NEW q \in Queries, checkHealth(q)
    PROVE  HistoryInv'
<1>1. /\ IsQuery(q) /\ queries' = [queries EXCEPT ![q] = Received]
      /\ UNCHANGED <<happened, mounts, topic, shown>>
      /\ UNCHANGED badge \/ badge' = [badge EXCEPT !["objects"] = "NO_DATA"]
    BY DEF checkHealth, IsQuery, Ended
<1>2. DOMAIN queries' = Queries /\ QueriesOK' /\ AskedForAgent' /\ AnswersOK'
    BY <1>1, QueryEndsKeeps DEF Received
<1>3. DOMAIN badge' = Panels /\ \A v \in Streams : badge'[v] = badge[v]
    BY <1>1 DEF HistoryInv, ViewsOK, Panels, Streams
<1>4. ViewsAreHonest'
    BY <1>1, <1>3
       DEF HistoryInv, ViewsAreHonest, BadgeIsHonest, TimelineIsOfItsAgent,
           IsIndexed
<1>5. QED
    BY <1>1, <1>2, <1>3, <1>4 DEF HistoryInv, ViewsOK

LEMMA HistoryInvStep == HistoryInv /\ [HistoryNext]_historyVars => HistoryInv'
<1> SUFFICES ASSUME HistoryInv, [HistoryNext]_historyVars PROVE HistoryInv'
    OBVIOUS
<1>1. CASE UNCHANGED historyVars
    BY <1>1
       DEF historyVars, HistoryInv, ViewsOK, QueriesOK, AskedForAgent,
           AnswersOK, IsFor, IsQuery, IsIndexed, ViewsAreHonest,
           BadgeIsHonest, TimelineIsOfItsAgent
<1>2. "ledger" \in Panels
    BY DEF Panels
<1>3. QED
    BY <1>1, <1>2, IndexEventKeeps, AnnouncementKeeps, OpenKeeps, RefreshKeeps,
       FilterKeeps, ExecuteQueryKeeps, ReceiveKeeps, CheckHealthKeeps
       DEF HistoryNext


-----------------------------------------------------------------------------
(* The histories.  An answer on its way to the present mount is of what it *)
(* names, and of the events that there were at some moment since.          *)

IsPlace(at) ==
    at = [tab |-> at.tab, history |-> at.history, subject |-> at.subject,
          since |-> at.since, number |-> at.number]
IsRequest(it) ==
    it = [at |-> it.at, history |-> it.history, subject |-> it.subject,
          number |-> it.number, answers |-> it.answers]

Moments == {Failed} \cup place.since..Len(recorded)

PlaceOK ==
    /\ recorded \in Seq([type : EventTypes, record : Nat,
                         object : HistoryObjects, actor : HistoryActors])
    /\ Len(recorded) <= MaxRecorded
    /\ IsPlace(place) /\ place.history \in Histories \cup {None}
    /\ place.since \in 0..Len(recorded) /\ place.number \in Nat
    /\ DOMAIN requests = Requests
RequestsOK ==
    \A q \in Requests : requests[q].at = "asked" =>
        /\ IsRequest(requests[q])
        /\ requests[q].number \in Nat /\ requests[q].number <= place.number
        /\ DOMAIN requests[q].answers = QuestionsOf(requests[q].history)
        /\ IsThere(q) =>
              /\ requests[q].history = place.history
              /\ requests[q].subject = place.subject
              /\ requests[q].answers["events"] \in {Awaited} \cup Moments

HistoriesInv == PlaceOK /\ RequestsOK /\ HistoryWasSo

\* All of what is empty is empty.
LEMMA NothingIsEmpty ==
    /\ DOMAIN Nothing =
          {"rows", "events", "settled", "outstanding", "volume"}
    /\ Nothing.rows = {} /\ Nothing.events = {} /\ Nothing.settled = {}
    /\ Nothing.outstanding = {} /\ Nothing.volume = {}
    /\ Nothing = [x \in DOMAIN Nothing |-> Nothing[x]]
BY DEF Nothing

\* Of a log without events there is nothing to show.
LEMMA NothingIsShown ==
    ASSUME NEW log, DOMAIN log = {}, NEW history \in Histories, NEW subject
    PROVE  ShownOf(log, history, subject) = Nothing
<1>1. \A types : EventsOf(log, types) = {}
    BY DEF EventsOf
<1>2. LatestEvents({}) = {} /\ LatestRecords({}) = {} /\ RecordsOf(log, {}) = {}
    BY DEF LatestEvents, LatestRecords, RecordsOf
<1> DEFINE none == [rows |-> {}, events |-> {}]
<1>3. none.rows = {} /\ none.events = {}
    OBVIOUS
<1>4. /\ getMarketplaceActivity(log) = none /\ getEscrowActivity(log) = none
      /\ getRecoveryHistory(log) = none
      /\ getRecentEconomicEvents(log) = none
    BY <1>1, <1>2
       DEF getMarketplaceActivity, getEscrowActivity, getRecoveryHistory,
           getRecentEconomicEvents, Activity
<1>5. /\ getAgentHistory(log, subject) = none
      /\ getEconomicObjectHistory(log, subject) = none
  <2>1. /\ {e \in DOMAIN log : log[e].actor = subject} = {}
        /\ {e \in DOMAIN log : log[e].object = subject} = {}
    OBVIOUS
  <2>2. QED
    BY <1>2, <2>1 DEF getAgentHistory, getEconomicObjectHistory
<1> HIDE DEF none
<1> DEFINE r == none.rows
           e == none.events
           t == Settled(none.rows)
           o == Outstanding(none.rows)
           v == Volume(log, none.events)
<1>6. r = {} /\ e = {} /\ t = {} /\ o = {} /\ v = {}
    BY <1>3 DEF Settled, Outstanding, Volume
<1> HIDE DEF r, e, t, o, v
<1>7. /\ [Nothing EXCEPT !.events = e] = Nothing
      /\ [Nothing EXCEPT !.events = e, !.settled = t] = Nothing
      /\ [Nothing EXCEPT !.events = e, !.volume = v] = Nothing
      /\ [Nothing EXCEPT !.rows = r, !.settled = t] = Nothing
      /\ [Nothing EXCEPT !.rows = r, !.settled = t, !.outstanding = o] = Nothing
    BY <1>6, NothingIsEmpty
<1>8. /\ AgentEconomicHistory(none) = Nothing
      /\ EconomicObjectHistory(none) = Nothing
      /\ MarketplaceHistory(none) = Nothing
      /\ EscrowHistory(none) = Nothing
      /\ RecoveryHistory(none) = Nothing
      /\ EconomicAnalyticsView(log, none) = Nothing
    BY <1>7
       DEF r, e, t, o, v, AgentEconomicHistory, EconomicObjectHistory,
           MarketplaceHistory, EscrowHistory, RecoveryHistory,
           EconomicAnalyticsView
<1>9. QED
    BY <1>4, <1>5, <1>8 DEF ShownOf, Histories

\* The first events of the index stay what they are.
LEMMA FirstStay ==
    ASSUME PlaceOK, NEW event, recorded' = Append(recorded, event),
           NEW n \in 0..Len(recorded)
    PROVE  IndexAt(n)' = IndexAt(n)
<1>1. /\ Len(recorded) \in Nat /\ Len(recorded') = Len(recorded) + 1
      /\ \A e \in 1..Len(recorded) : recorded'[e] = recorded[e]
    BY DEF PlaceOK
<1>2. \A e \in 1..n : e \in 1..Len(recorded)
    BY <1>1
<1>3. QED
    BY <1>1, <1>2 DEF IndexAt, PlaceOK

LEMMA HistoriesInvInit == HistoriesInit => HistoriesInv
<1> SUFFICES ASSUME HistoriesInit PROVE HistoriesInv
    OBVIOUS
<1>1. PlaceOK
    BY HistoriesAssumption DEF HistoriesInit, PlaceOK, IsPlace
<1>2. \A q \in Requests : requests[q].at # "asked"
    BY DEF HistoriesInit, Unused
<1>3. place.history = None
    BY DEF HistoriesInit
<1>4. QED
    BY <1>1, <1>2, <1>3 DEF HistoriesInv, RequestsOK, HistoryWasSo

\* Requests that stay stay in order, as what they may have is no less.
LEMMA RecordEventKeeps ==
    ASSUME HistoriesInv, NEW type \in EventTypes, NEW object \in HistoryObjects,
           NEW actor \in HistoryActors, recordEvent(type, object, actor)
    PROVE  HistoriesInv'
<1> DEFINE Events == [type : EventTypes, record : Nat,
                      object : HistoryObjects, actor : HistoryActors]
<1>1. /\ recorded \in Seq(Events) /\ Len(recorded) \in Nat
      /\ Len(recorded) < MaxRecorded /\ MaxRecorded \in Nat
      /\ UNCHANGED <<place, display, requests>>
    BY HistoriesAssumption DEF HistoriesInv, PlaceOK, recordEvent
<1>2. PICK record \in Nat :
          recorded' = Append(recorded, [type |-> type, record |-> record,
                                        object |-> object, actor |-> actor])
  <2>1. PICK record \in 1..Len(recorded) \cup {Len(recorded) + 1} :
            recorded' = Append(recorded, [type |-> type, record |-> record,
                                          object |-> object, actor |-> actor])
    BY DEF recordEvent
  <2>2. record \in Nat
    BY <1>1, <2>1
  <2>3. QED
    BY <2>1, <2>2
<1> DEFINE event == [type |-> type, record |-> record, object |-> object,
                     actor |-> actor]
<1>3. event \in Events
    OBVIOUS
<1>4. recorded' = Append(recorded, event)
    BY <1>2
<1> HIDE DEF event, Events
<1>5. recorded' \in Seq(Events) /\ Len(recorded') = Len(recorded) + 1
    BY <1>1, <1>3, <1>4
<1>6. place.since \in Nat /\ place.since <= Len(recorded)
    BY <1>1 DEF HistoriesInv, PlaceOK
<1>7. PlaceOK'
    BY <1>1, <1>5, <1>6 DEF HistoriesInv, PlaceOK, Events
<1>8. Moments \subseteq Moments'
    BY <1>1, <1>5, <1>6 DEF Moments
<1>9. RequestsOK'
    BY <1>1, <1>8 DEF HistoriesInv, RequestsOK, IsThere
<1>10. HistoryWasSo'
  <2> SUFFICES ASSUME place.history # None
               PROVE  \E n \in Moments' :
                          display = ShownOf(IndexAt(n)', place.history,
                                            place.subject)
    BY <1>1 DEF HistoryWasSo, Moments
  <2>1. PICK n \in Moments :
            display = ShownOf(IndexAt(n), place.history, place.subject)
    BY DEF HistoriesInv, HistoryWasSo, Moments
  <2>2. n \in 0..Len(recorded)
    BY <1>1, <1>6, <2>1 DEF Moments, Failed
  <2>3. IndexAt(n)' = IndexAt(n)
    BY <1>4, <2>2, FirstStay DEF HistoriesInv
  <2>4. QED
    BY <1>8, <2>1, <2>3
<1>11. QED
    BY <1>7, <1>9, <1>10 DEF HistoriesInv

\* What is mounted is gone: nothing is said of it.
LEMMA LeavesKeep ==
    ASSUME HistoriesInv, UNCHANGED <<recorded, requests>>,
           IsPlace(place'), place'.history = None,
           place'.since = place.since, place'.number = place.number
    PROVE  HistoriesInv'
BY DEF HistoriesInv, PlaceOK, RequestsOK, IsThere, HistoryWasSo

LEMMA AskKeeps ==
    ASSUME HistoriesInv, NEW q \in Requests, Ask(q), UNCHANGED recorded,
           IsPlace(place'), place'.history \in Histories,
           place'.since \in 0..Len(recorded), place'.number \in Nat,
           \/ place' = place
           \/ place'.number = place.number + 1
    PROVE  PlaceOK' /\ RequestsOK'
<1> DEFINE new == [at |-> "asked", history |-> place'.history,
                   subject |-> place'.subject, number |-> place'.number,
                   answers |-> [part \in QuestionsOf(place'.history) |-> Awaited]]
<1>1. requests' = [requests EXCEPT ![q] = new]
    BY DEF Ask
<1>2. /\ new.at = "asked" /\ new.history = place'.history
      /\ new.subject = place'.subject /\ new.number = place'.number
      /\ new.answers = [part \in QuestionsOf(place'.history) |-> Awaited]
      /\ IsRequest(new)
    BY DEF IsRequest
<1> HIDE DEF new
<1>3. "events" \in QuestionsOf(place'.history)
    BY DEF QuestionsOf
<1>4. new.answers["events"] = Awaited /\
      DOMAIN new.answers = QuestionsOf(new.history)
    BY <1>2, <1>3
<1>5. /\ DOMAIN requests' = Requests /\ requests'[q] = new
      /\ \A p \in Requests \ {q} : requests'[p] = requests[p]
    BY <1>1 DEF HistoriesInv, PlaceOK
<1>6. PlaceOK'
    BY <1>5 DEF HistoriesInv, PlaceOK
<1>7. RequestsOK'
  <2> SUFFICES ASSUME NEW p \in Requests, requests'[p].at = "asked"
               PROVE  /\ IsRequest(requests'[p])
                      /\ requests'[p].number \in Nat
                      /\ requests'[p].number <= place'.number
                      /\ DOMAIN requests'[p].answers =
                            QuestionsOf(requests'[p].history)
                      /\ IsThere(p)' =>
                            /\ requests'[p].history = place'.history
                            /\ requests'[p].subject = place'.subject
                            /\ requests'[p].answers["events"]
                                  \in {Awaited} \cup Moments'
    BY DEF RequestsOK
  <2>1. CASE p = q
    BY <1>2, <1>4, <1>5, <2>1
  <2>2. CASE p # q
    <3>1. /\ requests'[p] = requests[p] /\ IsRequest(requests[p])
          /\ requests[p].number \in Nat /\ requests[p].number <= place.number
          /\ DOMAIN requests[p].answers = QuestionsOf(requests[p].history)
      BY <1>5, <2>2 DEF HistoriesInv, RequestsOK
    <3>2. place.number \in Nat
      BY DEF HistoriesInv, PlaceOK
    <3>3. CASE place' = place
      BY <1>5, <2>2, <3>3 DEF HistoriesInv, RequestsOK, IsThere, Moments
    <3>4. CASE place'.number = place.number + 1
      BY <3>1, <3>2, <3>4 DEF IsThere
    <3>5. QED
      BY <3>3, <3>4
  <2>3. QED
    BY <2>1, <2>2
<1>8. QED
    BY <1>6, <1>7

LEMMA MountKeeps ==
    ASSUME HistoriesInv, NEW q \in Requests, NEW history \in Histories,
           NEW subject, mount(q, history, subject)
    PROVE  HistoriesInv'
<1>1. /\ place' = [place EXCEPT !.history = history, !.subject = subject,
                                !.since = Len(recorded), !.number = @ + 1]
      /\ display' = Nothing /\ Ask(q) /\ UNCHANGED recorded
    BY DEF mount
<1>2. /\ IsPlace(place) /\ place.number \in Nat /\ Len(recorded) \in Nat
    BY DEF HistoriesInv, PlaceOK
<1>3. place' = [tab |-> place.tab, history |-> history, subject |-> subject,
                since |-> Len(recorded), number |-> place.number + 1]
    BY <1>1, <1>2 DEF IsPlace
<1>4. /\ IsPlace(place') /\ place'.history = history
      /\ place'.since = Len(recorded) /\ place'.number = place.number + 1
    BY <1>3 DEF IsPlace
<1>5. PlaceOK' /\ RequestsOK'
    BY <1>1, <1>2, <1>4, AskKeeps
<1>6. HistoryWasSo'
  <2>1. DOMAIN IndexAt(0)' = {}
    BY <1>1 DEF IndexAt, HistoriesInv, PlaceOK
  <2>2. display' = ShownOf(IndexAt(0)', place'.history, place'.subject)
    BY <1>1, <1>4, <2>1, NothingIsShown
  <2>3. QED
    BY <2>2 DEF HistoryWasSo, Failed
<1>7. QED
    BY <1>5, <1>6 DEF HistoriesInv

LEMMA SyncKeeps ==
    ASSUME HistoriesInv, NEW q \in Requests, sync(q)
    PROVE  HistoriesInv'
<1>1. /\ place.history # None /\ place' = place /\ Ask(q)
      /\ UNCHANGED <<recorded, display>>
    BY DEF sync
<1>2. PlaceOK' /\ RequestsOK'
    BY <1>1, AskKeeps DEF HistoriesInv, PlaceOK
<1>3. HistoryWasSo'
    BY <1>1 DEF HistoriesInv, HistoryWasSo, IndexAt
<1>4. QED
    BY <1>2, <1>3 DEF HistoriesInv

LEMMA ExecuteRequestKeeps ==
    ASSUME HistoriesInv, NEW q \in Requests, NEW part, executeRequest(q, part)
    PROVE  HistoriesInv'
<1> DEFINE it == requests[q]
<1>1. /\ it.at = "asked" /\ part \in DOMAIN it.answers /\ IsRequest(it)
      /\ UNCHANGED <<recorded, place, display>>
    BY DEF executeRequest, HistoriesInv, RequestsOK
<1>2. PICK n \in {Failed, Len(recorded)} :
          requests' = [requests EXCEPT ![q].answers[part] = n]
    BY DEF executeRequest
<1>3. n \in Moments
    BY <1>2 DEF HistoriesInv, PlaceOK, Moments
<1> DEFINE given == [it.answers EXCEPT ![part] = n]
           new == [it EXCEPT !.answers = given]
<1>4. requests' = [requests EXCEPT ![q] = new]
    BY <1>2
<1>5. /\ DOMAIN given = DOMAIN it.answers
      /\ \A x \in DOMAIN it.answers : given[x] \in {it.answers[x], n}
    OBVIOUS
<1> HIDE DEF given
<1>6. /\ new.at = "asked" /\ new.history = it.history
      /\ new.subject = it.subject /\ new.number = it.number
      /\ new.answers = given /\ IsRequest(new)
    BY <1>1 DEF IsRequest
<1> HIDE DEF new
<1>7. /\ DOMAIN requests' = Requests /\ requests'[q] = new
      /\ \A p \in Requests \ {q} : requests'[p] = requests[p]
    BY <1>4 DEF HistoriesInv, PlaceOK
<1>8. PlaceOK'
    BY <1>1, <1>7 DEF HistoriesInv, PlaceOK
<1>9. RequestsOK'
  <2> SUFFICES ASSUME NEW p \in Requests, requests'[p].at = "asked"
               PROVE  /\ IsRequest(requests'[p])
                      /\ requests'[p].number \in Nat
                      /\ requests'[p].number <= place'.number
                      /\ DOMAIN requests'[p].answers =
                            QuestionsOf(requests'[p].history)
                      /\ IsThere(p)' =>
                            /\ requests'[p].history = place'.history
                            /\ requests'[p].subject = place'.subject
                            /\ requests'[p].answers["events"]
                                  \in {Awaited} \cup Moments'
    BY DEF RequestsOK
  <2>1. Moments' = Moments
    BY <1>1 DEF Moments
  <2>2. CASE p = q
    <3>1. /\ it.number \in Nat /\ it.number <= place.number
          /\ DOMAIN it.answers = QuestionsOf(it.history)
          /\ IsThere(q) => /\ it.history = place.history
                           /\ it.subject = place.subject
                           /\ it.answers["events"] \in {Awaited} \cup Moments
      BY <1>1 DEF HistoriesInv, RequestsOK
    <3>2. "events" \in QuestionsOf(it.history)
      BY DEF QuestionsOf
    <3>3. IsThere(q)' => IsThere(q)
      BY <1>1, <1>6, <1>7 DEF IsThere
    <3>4. given["events"] \in {it.answers["events"], n}
      BY <1>5, <3>1, <3>2
    <3>5. QED
      BY <1>1, <1>3, <1>5, <1>6, <1>7, <2>1, <2>2, <3>1, <3>3, <3>4
  <2>3. CASE p # q
    <3>1. requests'[p] = requests[p] /\ (IsThere(p)' => IsThere(p))
      BY <1>1, <1>7, <2>3 DEF IsThere
    <3>2. QED
      BY <1>1, <2>1, <3>1 DEF HistoriesInv, RequestsOK
  <2>4. QED
    BY <2>2, <2>3
<1>10. HistoryWasSo'
    BY <1>1 DEF HistoriesInv, HistoryWasSo, IndexAt
<1>11. QED
    BY <1>8, <1>9, <1>10 DEF HistoriesInv

LEMMA ReceiveAnswerKeeps ==
    ASSUME HistoriesInv, NEW q \in Requests, ReceiveAnswer(q)
    PROVE  HistoriesInv'
<1>1. /\ requests[q].at = "asked" /\ UNCHANGED <<recorded, place>>
      /\ requests[q].answers["events"] # Awaited
      /\ display' = IF IsThere(q) THEN AnswerTo(q) ELSE display
      /\ requests' = [requests EXCEPT ![q] = Dealt]
    BY DEF ReceiveAnswer, QuestionsOf
<1>2. /\ DOMAIN requests' = Requests /\ requests'[q] = Dealt
      /\ \A p \in Requests \ {q} : requests'[p] = requests[p]
    BY <1>1 DEF HistoriesInv, PlaceOK
<1>3. PlaceOK'
    BY <1>1, <1>2 DEF HistoriesInv, PlaceOK
<1>4. RequestsOK'
    BY <1>1, <1>2 DEF HistoriesInv, RequestsOK, IsThere, Moments, Dealt
<1>5. HistoryWasSo'
  <2>1. CASE IsThere(q)
    <3> DEFINE n == requests[q].answers["events"]
    <3>1. /\ requests[q].history = place.history
          /\ requests[q].subject = place.subject /\ n \in Moments
      BY <1>1, <2>1 DEF HistoriesInv, RequestsOK
    <3>2. display' = ShownOf(IndexAt(n), place.history, place.subject)
      BY <1>1, <2>1, <3>1 DEF AnswerTo
    <3>3. QED
      BY <1>1, <3>1, <3>2 DEF HistoryWasSo, IndexAt, Moments
  <2>2. CASE ~IsThere(q)
    BY <1>1, <2>2 DEF HistoriesInv, HistoryWasSo, IndexAt
  <2>3. QED
    BY <2>1, <2>2
<1>6. QED
    BY <1>3, <1>4, <1>5 DEF HistoriesInv

LEMMA HistoriesInvStep ==
    HistoriesInv /\ [HistoriesNext]_historiesVars => HistoriesInv'
<1> SUFFICES ASSUME HistoriesInv, [HistoriesNext]_historiesVars
             PROVE  HistoriesInv'
    OBVIOUS
<1>1. CASE UNCHANGED historiesVars
    BY <1>1 DEF historiesVars, HistoriesInv, PlaceOK, RequestsOK, IsThere,
                Moments, HistoryWasSo, IndexAt
<1>2. ASSUME NEW tab \in Tabs, onSelectTab(tab) PROVE HistoriesInv'
  <2>1. /\ place' = [place EXCEPT !.tab = tab, !.history = None,
                                  !.subject = None]
        /\ UNCHANGED <<recorded, requests>> /\ IsPlace(place)
    BY <1>2 DEF onSelectTab, HistoriesInv, PlaceOK
  <2>2. place' = [tab |-> tab, history |-> None, subject |-> None,
                  since |-> place.since, number |-> place.number]
    BY <2>1 DEF IsPlace
  <2>3. QED
    BY <2>1, <2>2, LeavesKeep DEF IsPlace
<1>3. CASE onClose
  <2>1. /\ place' = [place EXCEPT !.history = None, !.subject = None]
        /\ UNCHANGED <<recorded, requests>> /\ IsPlace(place)
    BY <1>3 DEF onClose, HistoriesInv, PlaceOK
  <2>2. place' = [tab |-> place.tab, history |-> None, subject |-> None,
                  since |-> place.since, number |-> place.number]
    BY <2>1 DEF IsPlace
  <2>3. QED
    BY <2>1, <2>2, LeavesKeep DEF IsPlace
<1>4. QED
    BY <1>1, <1>2, <1>3, RecordEventKeeps, MountKeeps, SyncKeeps,
       ExecuteRequestKeeps, ReceiveAnswerKeeps
       DEF HistoriesNext

-----------------------------------------------------------------------------
(* The console                                                             *)

ConsoleInv == LoopInv /\ HistoryInv /\ HistoriesInv

LEMMA ConsoleInvInit == ViewsInit => ConsoleInv
BY LoopInvInit, HistoryInvInit, HistoriesInvInit DEF ViewsInit, ConsoleInv

LEMMA ConsoleInvStep == ConsoleInv /\ [ViewsNext]_viewsVars => ConsoleInv'
<1> SUFFICES ASSUME ConsoleInv, [ViewsNext]_viewsVars PROVE ConsoleInv'
    OBVIOUS
<1>1. [LoopNext]_loopVars
    BY DEF ViewsNext, viewsVars, LoopIsUsed, HistoryIsUsed, HistoriesAreUsed
<1>2. [HistoryNext]_historyVars
    BY DEF ViewsNext, viewsVars, LoopIsUsed, HistoryIsUsed, HistoriesAreUsed
<1>3. [HistoriesNext]_historiesVars
    BY DEF ViewsNext, viewsVars, LoopIsUsed, HistoryIsUsed, HistoriesAreUsed
<1>4. QED
    BY <1>1, <1>2, <1>3, LoopInvStep, HistoryInvStep, HistoriesInvStep
       DEF ConsoleInv

LEMMA ConsoleInvAlways == ViewsSpec => []ConsoleInv
BY ConsoleInvInit, ConsoleInvStep, PTL DEF ViewsSpec

\* However often and whenever the demonstration is clicked, run by itself,
\* reset or left and come back to, a wallet is asked at most once in a pass for
\* what the demonstration then waits for (App.tsx:104-117,
\* HackathonDemoPanel.tsx:82-330).
THEOREM AsksOncePerPass == ViewsSpec => []AskedOncePerPass
<1>1. ConsoleInv => AskedOncePerPass
    BY DEF ConsoleInv, LoopInv, AskedOncePerPass
<1>2. QED
    BY <1>1, ConsoleInvAlways, PTL

\* Whatever was asked before, whichever answer comes last and whatever was
\* announced meanwhile, the live views name the source and the agent of what
\* they show, and a history shows what the index had at one moment since it
\* was opened (ConsoleOverview.tsx:81-108, EconomicObjectHistory.tsx:34-53).
THEOREM ConsoleStaysHonest == ViewsSpec => []ConsoleIsHonest
<1>1. ConsoleInv => ConsoleIsHonest
    BY DEF ConsoleInv, HistoryInv, HistoriesInv, ConsoleIsHonest
<1>2. QED
    BY <1>1, ConsoleInvAlways, PTL


-----------------------------------------------------------------------------
(* Profiles and advice.  A cache holds an entry for a time after what it   *)
(* was answered with: the proxies' for one, the client's for two and the   *)
(* request between them.  The profile that the client makes of a fresh     *)
(* answer it has already, so it is not held for a third.                   *)

Aging(entry, span) ==
    /\ entry.until \in Int /\ entry.value.at \in Int
    /\ entry.until <= entry.value.at + span
AgingSoFar(entry, span) ==
    /\ entry.until \in Int
    /\ entry.value.available => Aging(entry, span)

CachesOK ==
    /\ now \in Nat
    /\ DOMAIN nansenCache = Parts
    /\ \A part \in Parts :
          /\ nansenCache[part] = [a \in Addresses |-> nansenCache[part][a]]
          /\ \A a \in Addresses : Aging(nansenCache[part][a], Ttl)
    /\ DOMAIN posted = Addresses /\ DOMAIN profiles = Addresses
    /\ \A a \in Addresses :
          /\ AgingSoFar(posted[a], 2 * Ttl + 1)
          /\ Aging(profiles[a], 2 * Ttl + 1)
          /\ posted[a].value.available => posted[a].until <= profiles[a].until
    /\ DOMAIN qwenCache = Objectives /\ DOMAIN advices = Objectives
    /\ \A o \in Objectives :
          Aging(qwenCache[o], QwenTtl) /\ Aging(advices[o], 2 * QwenTtl + 1)

IsProfileAsk(it) ==
    /\ it.kind = "profile"
    /\ it = [kind |-> "profile", at |-> it.at, about |-> it.about,
             since |-> it.since, parts |-> it.parts]
    /\ it.about \in Addresses /\ DOMAIN it.parts = Parts
    /\ \A part \in Parts :
          /\ it.parts[part].at \in Int
          /\ it.parts[part].available => it.since <= it.parts[part].at + Ttl
IsAdviceAsk(it) ==
    /\ it.kind = "reason"
    /\ it = [kind |-> "reason", at |-> it.at, about |-> it.about,
             since |-> it.since, shown |-> it.shown, answer |-> it.answer]
    /\ it.about \in Objectives
    /\ it.at = "replied" =>
          it.answer.at \in Int /\ it.since <= it.answer.at + QwenTtl
IsAsk(it) ==
    /\ it.at # "hung"
    /\ it.since \in Nat /\ it.since <= now /\ now <= it.since + 1
    /\ IsProfileAsk(it) \/ IsAdviceAsk(it)

IsHungAsk(it) ==
    \/ it = [at |-> "hung", kind |-> "profile"]
    \/ it = [at |-> "hung", kind |-> "reason", shown |-> it.shown]

AsksOK ==
    /\ DOMAIN asks = Asks
    /\ \A q \in Asks :
          InFlight(q) => IsAsk(asks[q]) \/ IsHungAsk(asks[q])

\* The effect that is mounted asks for the address that the panel has.
PanelOK ==
    /\ panel = [address |-> panel.address, effect |-> panel.effect,
                loading |-> panel.loading, of |-> panel.of]
    /\ \A q \in Asks :
          IsMounted(q) /\ MayEnd(q) /\ asks[q].kind = "profile" =>
              asks[q].about = panel.address

AnswersInv == CachesOK /\ AsksOK /\ PanelOK /\ PanelShowsItsAddress

LEMMA AnswersInvInit == AdviceInit => AnswersInv
<1> SUFFICES ASSUME AdviceInit PROVE AnswersInv
    OBVIOUS
<1>1. Never \in Int /\ Ttl \in Nat /\ QwenTtl \in Nat
    BY ProfileAssumption, ReasoningAssumption DEF Never
<1>2. \A span \in Nat : Aging(NoEntry, span) /\ AgingSoFar(NoEntry, span)
    BY <1>1 DEF Aging, AgingSoFar, NoEntry, Unavailable
<1>3. ~NoEntry.value.available
    BY DEF NoEntry, Unavailable
<1>4. CachesOK
  <2>1. 2 * Ttl + 1 \in Nat /\ 2 * QwenTtl + 1 \in Nat
    BY <1>1
  <2>2. QED
    BY <1>1, <1>2, <1>3, <2>1 DEF AdviceInit, ProfilesInit, CachesOK
<1>5. AsksOK
    BY DEF AdviceInit, ProfilesInit, AsksOK, InFlight, IsHung, MayEnd
<1>6. PanelOK /\ PanelShowsItsAddress
    BY DEF AdviceInit, ProfilesInit, PanelOK, InFlight, IsHung, MayEnd, Closed,
           PanelShowsItsAddress
<1>7. QED
    BY <1>4, <1>5, <1>6 DEF AnswersInv

\* What is kept with an answer is held from now on for the time it is given.
LEMMA UntilAges ==
    ASSUME NEW value, NEW ttl \in Int, NEW span \in Int, value.at \in Int,
           now \in Int, now + ttl <= value.at + span
    PROVE  Aging(Until(value, ttl), span)
BY DEF Aging, Until

LEMMA AskedStill ==
    ASSUME AsksOK, NEW q \in Asks, MayEnd(q)
    PROVE  IsAsk(asks[q]) /\ InFlight(q)
<1>1. InFlight(q) /\ asks[q].at # "hung"
    BY DEF MayEnd, IsHung
<1>2. ~IsHungAsk(asks[q])
    BY <1>1 DEF IsHungAsk
<1>3. QED
    BY <1>1, <1>2 DEF AsksOK

LEMMA AtMayEnd ==
    ASSUME NEW q, NEW kind, NEW where, IsAt(q, kind, where), where # "hung"
    PROVE  MayEnd(q)
BY DEF IsAt, MayEnd, IsHung

\* One question is asked, answered, over, or hangs; the others stay.
LEMMA AskStays ==
    ASSUME AsksOK, UNCHANGED now, NEW q \in Asks, NEW new,
           asks' = [asks EXCEPT ![q] = new], new = Done \/ IsAsk(new) \/ IsHungAsk(new)
    PROVE  AsksOK'
<1>1. /\ DOMAIN asks' = Asks /\ asks'[q] = new
      /\ \A p \in Asks \ {q} : asks'[p] = asks[p]
    BY DEF AsksOK
<1>2. SUFFICES ASSUME NEW p \in Asks, InFlight(p)'
               PROVE  IsAsk(asks[p])' \/ IsHungAsk(asks[p])'
    BY <1>1 DEF AsksOK
<1>3. CASE p = q
    BY <1>1, <1>2, <1>3 DEF InFlight, IsAsk, IsHungAsk
<1>4. CASE p # q
    BY <1>1, <1>2, <1>4 DEF AsksOK, InFlight, IsAsk, IsHungAsk
<1>5. QED
    BY <1>3, <1>4

\* The panel does not notice what is not about its address.
LEMMA PanelStays ==
    ASSUME AsksOK, PanelOK, PanelShowsItsAddress, UNCHANGED panel,
           NEW q \in Asks, NEW new, asks' = [asks EXCEPT ![q] = new],
           \/ new = Done
           \/ new.kind = "reason"
           \/ /\ MayEnd(q) /\ asks[q].kind = "profile"
              /\ new.about = asks[q].about
    PROVE  PanelOK' /\ PanelShowsItsAddress'
<1>1. /\ asks'[q] = new /\ \A p \in Asks \ {q} : asks'[p] = asks[p]
    BY DEF AsksOK
<1>2. \A p \in Asks : IsMounted(p)' /\ MayEnd(p)' /\ asks'[p].kind = "profile"
          => asks'[p].about = panel.address
  <2> SUFFICES ASSUME NEW p \in Asks, IsMounted(p)', MayEnd(p)',
                      asks'[p].kind = "profile"
               PROVE  asks'[p].about = panel.address
    OBVIOUS
  <2>1. IsMounted(p)
    BY DEF IsMounted
  <2>2. CASE p = q
    BY <1>1, <2>1, <2>2 DEF InFlight, IsHung, MayEnd, PanelOK
  <2>3. CASE p # q
    BY <1>1, <2>1, <2>3 DEF InFlight, IsHung, MayEnd, PanelOK
  <2>4. QED
    BY <2>2, <2>3
<1>3. QED
    BY <1>2 DEF PanelOK, PanelShowsItsAddress

\* The caches are those that they were.
LEMMA CachesStay ==
    ASSUME CachesOK, UNCHANGED <<now, nansenCache, posted, profiles, qwenCache,
                                 advices>>
    PROVE  CachesOK'
BY DEF CachesOK, Aging, AgingSoFar

LEMMA OpenPanelKeeps ==
    ASSUME AnswersInv, NEW a \in Addresses, openPanel(a),
           UNCHANGED <<now, qwenVars>>
    PROVE  AnswersInv'
<1> DEFINE opened == [panel EXCEPT !.address = a, !.effect = 0,
                                   !.loading = FALSE]
<1>0. panel = [address |-> panel.address, effect |-> panel.effect,
               loading |-> panel.loading, of |-> panel.of]
    BY DEF AnswersInv, PanelOK
<1>1. /\ opened = [address |-> a, effect |-> 0, loading |-> FALSE,
                   of |-> panel.of]
      /\ UNCHANGED <<now, nansenCache, qwenCache, advices, posted>>
  <2>1. UNCHANGED <<now, nansenCache, qwenCache, advices, posted>>
    BY DEF qwenVars, openPanel
  <2> DEFINE told == [panel EXCEPT !.address = a]
             left == [told EXCEPT !.effect = 0]
  <2>2. told = [address |-> a, effect |-> panel.effect,
                loading |-> panel.loading, of |-> panel.of]
    BY <1>0
  <2>3. opened = [left EXCEPT !.loading = FALSE]
    OBVIOUS
  <2> HIDE DEF told
  <2>4. left = [address |-> a, effect |-> 0, loading |-> panel.loading,
                of |-> panel.of]
    BY <2>2
  <2> HIDE DEF left, opened
  <2>5. QED
    BY <2>1, <2>3, <2>4
<1>2. CASE /\ HasAnswer(a) /\ Hold(a) /\ panel' = [opened EXCEPT !.of = a]
           /\ UNCHANGED asks
  <2>1. UNCHANGED profiles
    <3>1. CASE IsFresh(profiles[a])
      BY <1>2, <3>1 DEF Hold
    <3>2. CASE ~IsFresh(profiles[a])
      <4>1. now <= posted[a].until /\ ~(now <= profiles[a].until)
        BY <1>2, <3>2 DEF HasAnswer, IsFresh
      <4>2. ~posted[a].value.available
        BY <4>1 DEF AnswersInv, CachesOK, Aging, AgingSoFar
      <4>3. QED
        BY <1>2, <3>2, <4>2 DEF Hold, Keep
    <3>3. QED
      BY <3>1, <3>2
  <2>2. CachesOK' /\ AsksOK'
    BY <1>1, <1>2, <2>1, CachesStay DEF AnswersInv, AsksOK, InFlight, IsHung, MayEnd, IsAsk
  <2>3. panel' = [address |-> a, effect |-> 0, loading |-> FALSE, of |-> a]
    BY <1>1, <1>2
  <2>4. \A q \in Asks : q # 0
    BY DEF Asks
  <2>5. PanelOK' /\ PanelShowsItsAddress'
    BY <2>3, <2>4 DEF PanelOK, PanelShowsItsAddress, IsMounted
  <2>6. QED
    BY <2>2, <2>5 DEF AnswersInv
<1>3. ASSUME NEW q \in Asks,
             asks' = [asks EXCEPT ![q] =
                [kind |-> "profile", at |-> "proxy", about |-> a, since |-> now,
                 parts |-> [part \in Parts |-> makeNansenRequest(part, a)]]],
             panel' = [opened EXCEPT !.effect = q, !.loading = TRUE],
             UNCHANGED profiles
      PROVE  AnswersInv'
  <2> DEFINE parts == [part \in Parts |-> makeNansenRequest(part, a)]
             new == [kind |-> "profile", at |-> "proxy", about |-> a,
                     since |-> now, parts |-> parts]
  <2>1. \A part \in Parts :
            /\ parts[part].at \in Int
            /\ parts[part].available => now <= parts[part].at + Ttl
    <3> SUFFICES ASSUME NEW part \in Parts
                 PROVE  /\ makeNansenRequest(part, a).at \in Int
                        /\ makeNansenRequest(part, a).available =>
                              now <= makeNansenRequest(part, a).at + Ttl
      OBVIOUS
    <3> DEFINE entry == nansenCache[part][a]
    <3>1. Aging(entry, Ttl) /\ now \in Nat /\ Ttl \in Nat /\ LastTick \in Nat
      BY ProfileAssumption DEF AnswersInv, CachesOK
    <3> HIDE DEF entry
    <3>2. CASE IsFresh(entry)
      BY <3>1, <3>2 DEF makeNansenRequest, entry, IsFresh, Aging
    <3>3. CASE ~IsFresh(entry)
      BY <3>1, <3>3 DEF makeNansenRequest, entry, Pending
    <3>4. QED
      BY <3>2, <3>3
  <2>2. DOMAIN parts = Parts
    OBVIOUS
  <2> HIDE DEF parts
  <2>3. IsAsk(new)
    BY <2>1, <2>2 DEF IsAsk, IsProfileAsk, AnswersInv, CachesOK
  <2>4. new.about = a /\ asks' = [asks EXCEPT ![q] = new]
    BY <1>3 DEF parts
  <2> HIDE DEF new
  <2>5. CachesOK' /\ AsksOK'
    BY <1>1, <1>3, <2>3, <2>4, CachesStay, AskStays DEF AnswersInv
  <2>6. panel' = [address |-> a, effect |-> q, loading |-> TRUE, of |-> panel.of]
    BY <1>1, <1>3
  <2>7. asks'[q] = new
    BY <2>4 DEF AnswersInv, AsksOK
  <2>8. PanelOK' /\ PanelShowsItsAddress'
    BY <2>4, <2>6, <2>7 DEF PanelOK, PanelShowsItsAddress, IsMounted
  <2>9. QED
    BY <2>5, <2>8 DEF AnswersInv
<1>4. QED
    BY <1>2, <1>3 DEF openPanel

LEMMA ClosePanelKeeps ==
    ASSUME AnswersInv, closePanel, UNCHANGED <<now, qwenVars>>
    PROVE  AnswersInv'
<1>1. /\ UNCHANGED <<now, nansenCache, qwenCache, advices, posted, profiles, asks>>
      /\ panel' = Closed
    BY DEF qwenVars, closePanel
<1>2. CachesOK' /\ AsksOK'
    BY <1>1, CachesStay DEF AnswersInv, AsksOK, InFlight, IsHung, MayEnd, IsAsk
<1>3. \A q \in Asks : q # 0
    BY DEF Asks
<1>4. PanelOK' /\ PanelShowsItsAddress'
    BY <1>1, <1>3 DEF PanelOK, PanelShowsItsAddress, Closed, IsMounted
<1>5. QED
    BY <1>2, <1>4 DEF AnswersInv

\* A part of a profile is answered: with data it is as young as can be.
LEMMA NansenAnswersKeeps ==
    ASSUME AnswersInv, NEW q \in Asks, NEW part \in Parts,
           NansenAnswers(q, part), UNCHANGED <<now, qwenVars>>
    PROVE  AnswersInv'
<1> DEFINE it == asks[q]
           a == it.about
<1>1. /\ MayEnd(q) /\ it.kind = "profile"
      /\ UNCHANGED <<now, qwenCache, advices, posted, profiles, panel>>
      /\ IsAsk(it) /\ IsProfileAsk(it) /\ now \in Nat /\ Ttl \in Nat
  <2>1. MayEnd(q) /\ it.kind = "profile" /\ IsAsk(it)
    <3>1. IsAt(q, "profile", "proxy")
      BY DEF NansenAnswers
    <3>2. MayEnd(q)
      BY <3>1, AtMayEnd
    <3>3. QED
      BY <3>1, <3>2, AskedStill DEF IsAt, AnswersInv
  <2>2. QED
    BY <2>1, ProfileAssumption
       DEF NansenAnswers, qwenVars, AnswersInv, CachesOK, IsAsk, IsAdviceAsk
<1>2. PICK result \in {AsOf(now), Unavailable} :
          asks' = [asks EXCEPT ![q].parts[part] = result]
    BY DEF NansenAnswers
<1>3. /\ result.at \in Int
      /\ result.available => it.since <= result.at + Ttl
  <2>1. Never \in Int
    BY ProfileAssumption DEF Never
  <2>2. QED
    BY <1>1, <2>1 DEF AsOf, Unavailable, IsAsk
<1> DEFINE parts == [it.parts EXCEPT ![part] = result]
           new == [it EXCEPT !.parts = parts]
<1>4. asks' = [asks EXCEPT ![q] = new]
    BY <1>2
<1>5. /\ DOMAIN parts = Parts /\ parts[part] = result
      /\ \A p \in Parts \ {part} : parts[p] = it.parts[p]
    BY <1>1 DEF IsProfileAsk
<1> HIDE DEF parts
<1>6. new = [kind |-> "profile", at |-> it.at, about |-> a,
             since |-> it.since, parts |-> parts]
    BY <1>1 DEF IsProfileAsk
<1> HIDE DEF new
<1>7. IsAsk(new)
  <2>1. \A p \in Parts :
            /\ parts[p].at \in Int
            /\ parts[p].available => it.since <= parts[p].at + Ttl
    BY <1>1, <1>3, <1>5 DEF IsProfileAsk
  <2>2. IsProfileAsk(new) /\ new.since = it.since /\ new.at = it.at
    BY <1>1, <1>5, <1>6, <2>1 DEF IsProfileAsk
  <2>3. QED
    BY <1>1, <2>2 DEF IsAsk
<1>8. AsksOK'
    BY <1>1, <1>4, <1>7, AskStays DEF AnswersInv
<1>9. PanelOK' /\ PanelShowsItsAddress'
  <2>1. new.about = asks[q].about
    BY <1>6
  <2>2. QED
    BY <1>1, <1>4, <2>1, PanelStays DEF AnswersInv
<1>10. CachesOK'
  <2>1. CASE UNCHANGED nansenCache
    BY <1>1, <2>1, CachesStay DEF AnswersInv
  <2>2. CASE nansenCache' = [nansenCache EXCEPT ![part][a] = Until(AsOf(now), Ttl)]
    <3> DEFINE entry == Until(AsOf(now), Ttl)
               cache == [nansenCache[part] EXCEPT ![a] = entry]
    <3>1. Aging(entry, Ttl)
      BY <1>1 DEF Aging, Until, AsOf
    <3> HIDE DEF entry
    <3>2. /\ a \in Addresses /\ DOMAIN nansenCache = Parts
          /\ \A p \in Parts :
                /\ nansenCache[p] = [b \in Addresses |-> nansenCache[p][b]]
                /\ \A b \in Addresses : Aging(nansenCache[p][b], Ttl)
      BY <1>1 DEF IsProfileAsk, AnswersInv, CachesOK
    <3>3. /\ cache = [b \in Addresses |-> cache[b]] /\ cache[a] = entry
          /\ \A b \in Addresses \ {a} : cache[b] = nansenCache[part][b]
      BY <3>2
    <3>4. nansenCache' = [nansenCache EXCEPT ![part] = cache]
      BY <2>2 DEF entry
    <3> HIDE DEF cache
    <3>5. /\ DOMAIN nansenCache' = Parts /\ nansenCache'[part] = cache
          /\ \A p \in Parts \ {part} : nansenCache'[p] = nansenCache[p]
      BY <3>2, <3>4
    <3>6. \A p \in Parts :
             /\ nansenCache'[p] = [b \in Addresses |-> nansenCache'[p][b]]
             /\ \A b \in Addresses : Aging(nansenCache'[p][b], Ttl)
      BY <3>1, <3>2, <3>3, <3>5 DEF Aging
    <3>7. QED
      BY <1>1, <3>5, <3>6 DEF AnswersInv, CachesOK, Aging, AgingSoFar
  <2>3. QED
    BY <2>1, <2>2 DEF NansenAnswers
<1>11. QED
    BY <1>8, <1>9, <1>10 DEF AnswersInv

\* The oldest part of a profile is one of its parts.
LEMMA OldestIsAPart ==
    ASSUME NEW parts, \A part \in Parts : parts[part].at \in Int
    PROVE  \E part \in Parts : Oldest(parts) = parts[part].at
<1>1. \E t \in {parts[part].at : part \in Parts} :
          \A part \in Parts : t <= parts[part].at
  <2>1. /\ parts["labels"].at \in Int /\ parts["balance"].at \in Int
    BY DEF Parts
  <2>2. CASE parts["labels"].at <= parts["balance"].at
    BY <2>1, <2>2 DEF Parts
  <2>3. CASE ~(parts["labels"].at <= parts["balance"].at)
    BY <2>1, <2>3 DEF Parts
  <2>4. QED
    BY <2>2, <2>3
<1>2. Oldest(parts) \in {parts[part].at : part \in Parts}
    BY <1>1 DEF Oldest
<1>3. QED
    BY <1>2

\* The mounted effect shows what it asked for: the profile of the address.
LEMMA AnswerShows ==
    ASSUME AsksOK, PanelOK, PanelShowsItsAddress, NEW q \in Asks,
           MayEnd(q), asks[q].kind = "profile", Finish(q), Answer(q)
    PROVE  PanelOK' /\ PanelShowsItsAddress'
<1>1. asks' = [asks EXCEPT ![q] = Done]
    BY DEF Finish
<1>2. CASE ~IsMounted(q)
    BY <1>1, <1>2, PanelStays DEF Answer
<1>3. CASE IsMounted(q)
  <2> DEFINE shows == [panel EXCEPT !.loading = FALSE]
  <2>1. asks[q].about = panel.address
    BY <1>3 DEF PanelOK
  <2>2. shows = [address |-> panel.address, effect |-> panel.effect,
                 loading |-> FALSE, of |-> panel.of]
    <3>1. panel = [address |-> panel.address, effect |-> panel.effect,
                   loading |-> panel.loading, of |-> panel.of]
      BY DEF PanelOK
    <3>2. \A x : [panel EXCEPT !.loading = x] =
                  [address |-> panel.address, effect |-> panel.effect,
                   loading |-> x, of |-> panel.of]
      BY <3>1
    <3>3. QED
      BY <3>2, Zenon
  <2>3. panel' = [shows EXCEPT !.of = panel.address]
    BY <1>3, <2>1 DEF Answer, Shows
  <2> HIDE DEF shows
  <2>4. panel' = [address |-> panel.address, effect |-> panel.effect,
                  loading |-> FALSE, of |-> panel.address]
    BY <2>2, <2>3
  <2>5. /\ \A p \in Asks \ {q} : asks'[p] = asks[p]
        /\ asks'[q] = Done
    BY <1>1 DEF AsksOK
  <2>6. \A p \in Asks : IsMounted(p)' /\ MayEnd(p)' => p # q /\ MayEnd(p)
                                                        /\ IsMounted(p)
    BY <2>4, <2>5 DEF InFlight, IsHung, MayEnd, IsMounted
  <2>7. QED
    BY <2>4, <2>5, <2>6 DEF PanelOK, PanelShowsItsAddress
<1>4. QED
    BY <1>2, <1>3

LEMMA ProfileArrivesKeeps ==
    ASSUME AnswersInv, NEW q \in Asks, ProfileArrives(q),
           UNCHANGED <<now, qwenVars>>
    PROVE  AnswersInv'
<1> DEFINE it == asks[q]
           a == it.about
           profile == Aggregate(it.parts)
           entry == Until(profile, Ttl)
<1>1. /\ MayEnd(q) /\ it.kind = "profile" /\ Finish(q) /\ Answer(q)
      /\ posted' = [posted EXCEPT ![a] = entry] /\ Keep(a, profile)
      /\ UNCHANGED <<now, qwenCache, advices, nansenCache>>
  <2>1. IsAt(q, "profile", "proxy") /\ MayEnd(q)
    BY AtMayEnd DEF ProfileArrives
  <2>2. QED
    BY <2>1 DEF ProfileArrives, IsAt, qwenVars
<1>2. /\ IsAsk(it) /\ IsProfileAsk(it) /\ now \in Nat /\ Ttl \in Nat
      /\ asks' = [asks EXCEPT ![q] = Done]
  <2>1. IsAsk(it)
    BY <1>1, AskedStill DEF AnswersInv
  <2>2. QED
    BY <1>1, <2>1, ProfileAssumption
       DEF AnswersInv, CachesOK, IsAsk, IsAdviceAsk, Finish
<1>3. AsksOK'
    BY <1>1, <1>2, AskStays DEF AnswersInv
<1>4. PanelOK' /\ PanelShowsItsAddress'
    BY <1>1, AnswerShows DEF AnswersInv
<1>5. AgingSoFar(entry, 2 * Ttl + 1) /\ entry.value = profile
  <2>1. entry.until = now + Ttl /\ entry.value = profile
    BY DEF Until
  <2>2. ASSUME profile.available PROVE Aging(entry, 2 * Ttl + 1)
    <3>1. PICK part \in Parts : Oldest(it.parts) = it.parts[part].at
      BY <1>2, OldestIsAPart DEF IsProfileAsk
    <3>2. /\ \A p \in Parts : it.parts[p].available
          /\ profile = AsOf(it.parts[part].at)
      BY <2>2, <3>1 DEF Aggregate, Unavailable
    <3>3. /\ it.parts[part].at \in Int /\ it.since <= it.parts[part].at + Ttl
          /\ it.since \in Nat /\ now <= it.since + 1
      BY <1>2, <3>2 DEF IsProfileAsk, IsAsk
    <3>4. profile.at = it.parts[part].at
      BY <3>2 DEF AsOf
    <3> HIDE DEF profile, entry
    <3>5. QED
      BY <1>2, <2>1, <3>3, <3>4 DEF Aging
  <2>3. QED
    BY <1>2, <2>1, <2>2 DEF AgingSoFar
<1>6. entry.until = now + Ttl
    BY DEF Until
<1> HIDE DEF entry, profile
<1>7. /\ DOMAIN posted = Addresses /\ DOMAIN profiles = Addresses
      /\ a \in Addresses
    BY <1>2 DEF AnswersInv, CachesOK, IsProfileAsk
<1>8. /\ DOMAIN posted' = Addresses /\ posted'[a] = entry
      /\ \A b \in Addresses \ {a} : posted'[b] = posted[b]
    BY <1>1, <1>7
<1>9. /\ DOMAIN profiles' = Addresses
      /\ profiles'[a] = IF profile.available THEN entry ELSE profiles[a]
      /\ \A b \in Addresses \ {a} : profiles'[b] = profiles[b]
    BY <1>1, <1>7 DEF Keep, entry
<1>10. \A b \in Addresses :
          /\ AgingSoFar(posted'[b], 2 * Ttl + 1)
          /\ Aging(profiles'[b], 2 * Ttl + 1)
          /\ posted'[b].value.available => posted'[b].until <= profiles'[b].until
  <2> SUFFICES ASSUME NEW b \in Addresses
               PROVE  /\ AgingSoFar(posted'[b], 2 * Ttl + 1)
                      /\ Aging(profiles'[b], 2 * Ttl + 1)
                      /\ posted'[b].value.available =>
                            posted'[b].until <= profiles'[b].until
    OBVIOUS
  <2>1. /\ AgingSoFar(posted[b], 2 * Ttl + 1)
        /\ Aging(profiles[b], 2 * Ttl + 1)
        /\ posted[b].value.available => posted[b].until <= profiles[b].until
    BY DEF AnswersInv, CachesOK
  <2>2. CASE b = a /\ profile.available
    BY <1>5, <1>8, <1>9, <2>2 DEF AgingSoFar, Aging
  <2>3. CASE b = a /\ ~profile.available
    BY <1>5, <1>8, <1>9, <2>1, <2>3 DEF AgingSoFar, Aging
  <2>4. CASE b # a
    BY <1>8, <1>9, <2>1, <2>4 DEF AgingSoFar, Aging
  <2>5. QED
    BY <2>2, <2>3, <2>4
<1>11. CachesOK'
    BY <1>1, <1>8, <1>9, <1>10 DEF AnswersInv, CachesOK, Aging, AgingSoFar
<1>12. QED
    BY <1>3, <1>4, <1>11 DEF AnswersInv

LEMMA ProfileIsLostKeeps ==
    ASSUME AnswersInv, NEW q \in Asks, ProfileIsLost(q),
           UNCHANGED <<now, qwenVars>>
    PROVE  AnswersInv'
<1>1. /\ MayEnd(q) /\ asks[q].kind = "profile" /\ Finish(q) /\ Answer(q)
      /\ UNCHANGED <<now, qwenCache, advices, nansenCache, posted, profiles>>
  <2>1. PICK where \in {"proxy", "lost"} : IsAt(q, "profile", where)
    BY DEF ProfileIsLost
  <2>2. MayEnd(q) /\ asks[q].kind = "profile"
    BY <2>1, AtMayEnd DEF IsAt
  <2>3. QED
    BY <2>2 DEF ProfileIsLost, qwenVars
<1>2. asks' = [asks EXCEPT ![q] = Done]
    BY <1>1 DEF Finish
<1>3. CachesOK' /\ AsksOK'
    BY <1>1, <1>2, CachesStay, AskStays DEF AnswersInv
<1>4. PanelOK' /\ PanelShowsItsAddress'
    BY <1>1, AnswerShows DEF AnswersInv
<1>5. QED
    BY <1>3, <1>4 DEF AnswersInv

\* A run of the window asks at most one question, and it is of the window.
LEMMA RunKeeps ==
    ASSUME AnswersInv, NEW objective \in Objectives, NEW window,
           runReasoning(window, objective),
           UNCHANGED <<now, nansenCache, posted, profiles, panel, qwenCache,
                       advices>>
    PROVE  AnswersInv'
<1>1. CachesOK'
    BY CachesStay DEF AnswersInv
<1>2. CASE UNCHANGED asks
    BY <1>1, <1>2
       DEF AnswersInv, AsksOK, InFlight, IsHung, MayEnd, IsAsk, PanelOK, PanelShowsItsAddress,
           IsMounted
<1>3. ASSUME NEW q \in Asks,
             asks' = [asks EXCEPT ![q] =
                 [kind |-> "reason", at |-> "proxy", about |-> objective,
                  since |-> now, shown |-> TRUE, answer |-> NoAdvice]]
      PROVE  AnswersInv'
  <2> DEFINE new == [kind |-> "reason", at |-> "proxy", about |-> objective,
                     since |-> now, shown |-> TRUE, answer |-> NoAdvice]
  <2>1. IsAsk(new) /\ new.kind = "reason"
    BY DEF IsAsk, IsAdviceAsk, AnswersInv, CachesOK
  <2>2. asks' = [asks EXCEPT ![q] = new]
    BY <1>3
  <2> HIDE DEF new
  <2>3. AsksOK'
    BY <2>1, <2>2, AskStays DEF AnswersInv
  <2>4. PanelOK' /\ PanelShowsItsAddress'
    BY <2>1, <2>2, PanelStays DEF AnswersInv
  <2>5. QED
    BY <1>1, <2>3, <2>4 DEF AnswersInv
<1>4. QED
    BY <1>2, <1>3 DEF runReasoning

\* Of every question something is changed that does not matter here.
LEMMA AllAsksChange ==
    ASSUME AnswersInv, UNCHANGED <<now, panel>>,
           DOMAIN asks' = Asks,
           \A q \in Asks : InFlight(q)' =>
               \/ IsHungAsk(asks'[q])
               \/ /\ MayEnd(q) /\ IsAsk(asks'[q])
                  /\ asks'[q].kind = asks[q].kind /\ asks'[q].about = asks[q].about
    PROVE  AsksOK' /\ PanelOK' /\ PanelShowsItsAddress'
<1>1. AsksOK'
    BY DEF AsksOK, IsAsk, IsHungAsk
<1>2. \A q \in Asks : MayEnd(q)' =>
          /\ MayEnd(q)
          /\ asks'[q].kind = asks[q].kind /\ asks'[q].about = asks[q].about
    BY DEF MayEnd, IsHung, IsHungAsk
<1>3. PanelOK' /\ PanelShowsItsAddress'
    BY <1>2 DEF AnswersInv, PanelOK, PanelShowsItsAddress, IsMounted
<1>4. QED
    BY <1>1, <1>3

LEMMA CloseModalKeeps ==
    ASSUME AnswersInv, closeModal PROVE AnswersInv'
<1>1. /\ UNCHANGED <<now, nansenCache, posted, profiles, panel, qwenCache,
                     advices>>
      /\ asks' = [q \in Asks |-> Unshown(q)]
    BY DEF closeModal
<1>2. ASSUME NEW q \in Asks, InFlight(q)'
      PROVE  \/ IsHungAsk(asks'[q])
             \/ /\ MayEnd(q) /\ IsAsk(asks'[q])
                /\ asks'[q].kind = asks[q].kind /\ asks'[q].about = asks[q].about
  <2> DEFINE it == asks[q]
             unshown == [it EXCEPT !.shown = FALSE]
  <2>1. CASE MayEnd(q) /\ it.kind = "reason"
    <3>1. asks'[q] = unshown
      BY <1>1, <2>1 DEF Unshown, MayEnd
    <3>2. IsAsk(it) /\ IsAdviceAsk(it)
      <4>1. IsAsk(it)
        BY <2>1, AskedStill DEF AnswersInv
      <4>2. QED
        BY <2>1, <4>1 DEF IsAsk, IsProfileAsk
    <3>3. unshown = [kind |-> "reason", at |-> it.at, about |-> it.about,
                     since |-> it.since, shown |-> FALSE, answer |-> it.answer]
      <4>1. \A x : [it EXCEPT !.shown = x] =
                    [kind |-> "reason", at |-> it.at, about |-> it.about,
                     since |-> it.since, shown |-> x, answer |-> it.answer]
        BY <3>2 DEF IsAdviceAsk
      <4>2. QED
        BY <4>1, Zenon
    <3> HIDE DEF unshown
    <3>4. IsAdviceAsk(unshown) /\ unshown.since = it.since /\ unshown.at = it.at
          /\ unshown.kind = it.kind /\ unshown.about = it.about
      BY <2>1, <3>2, <3>3 DEF IsAdviceAsk
    <3>5. IsAsk(unshown)
      BY <3>2, <3>4 DEF IsAsk
    <3>6. QED
      BY <2>1, <3>1, <3>4, <3>5
  <2>2. CASE InFlight(q) /\ ~MayEnd(q) /\ it.kind = "reason"
    <3>1. it = [at |-> "hung", kind |-> "reason", shown |-> it.shown]
      BY <2>2 DEF AnswersInv, AsksOK, IsAsk, IsHungAsk, MayEnd, IsHung
    <3>2. asks'[q] = unshown
      BY <1>1, <2>2 DEF Unshown
    <3>3. \A x : [it EXCEPT !.shown = x]
                    = [at |-> "hung", kind |-> "reason", shown |-> x]
      BY <3>1
    <3>4. unshown = [at |-> "hung", kind |-> "reason", shown |-> FALSE]
      BY <3>3, Zenon
    <3> HIDE DEF unshown
    <3>5. unshown.shown = FALSE
      BY <3>4
    <3>6. QED
      BY <3>2, <3>4, <3>5 DEF IsHungAsk
  <2>3. CASE ~(InFlight(q) /\ it.kind = "reason")
    <3>1. asks'[q] = it
      BY <1>1, <2>3 DEF Unshown
    <3>2. InFlight(q)
      BY <1>2, <3>1 DEF InFlight
    <3>3. IsAsk(it) => MayEnd(q)
      BY <3>2 DEF MayEnd, IsHung, IsAsk
    <3>4. QED
      BY <3>1, <3>2, <3>3 DEF AnswersInv, AsksOK
  <2>4. QED
    BY <2>1, <2>2, <2>3
<1>3. AsksOK' /\ PanelOK' /\ PanelShowsItsAddress'
    BY <1>1, <1>2, AllAsksChange
<1>4. QED
    BY <1>1, <1>3, CachesStay DEF AnswersInv

LEMMA ProxyRepliesKeeps ==
    ASSUME AnswersInv, NEW q \in Asks, ProxyReplies(q) PROVE AnswersInv'
<1> DEFINE it == asks[q]
           o == it.about
<1>1. /\ MayEnd(q) /\ it.kind = "reason"
      /\ UNCHANGED <<now, nansenCache, posted, profiles, panel, advices>>
  <2>1. IsAt(q, "reason", "proxy") /\ MayEnd(q)
    BY AtMayEnd DEF ProxyReplies, IsAsking
  <2>2. QED
    BY <2>1 DEF ProxyReplies, IsAt
<1>2. /\ IsAsk(it) /\ IsAdviceAsk(it) /\ now \in Nat /\ QwenTtl \in Nat
      /\ Aging(qwenCache[o], QwenTtl) /\ DOMAIN qwenCache = Objectives
      /\ o \in Objectives
  <2>1. IsAsk(it)
    BY <1>1, AskedStill DEF AnswersInv
  <2>2. QED
    BY <1>1, <2>1, ReasoningAssumption
       DEF AnswersInv, CachesOK, IsAsk, IsProfileAsk, IsAdviceAsk
<1> DEFINE IsReply(answer) ==
          /\ answer.at \in Int /\ it.since <= answer.at + QwenTtl
          /\ Reply(q, answer)
          /\ \/ UNCHANGED qwenCache
             \/ /\ answer.at = now
                /\ qwenCache' = [qwenCache EXCEPT ![o] = Until(answer, QwenTtl)]
<1>3. \E answer : IsReply(answer)
  <2>1. CASE IsFresh(qwenCache[o]) /\ Reply(q, qwenCache[o].value)
             /\ UNCHANGED qwenCache
    <3>1. IsReply(qwenCache[o].value)
      BY <1>2, <2>1 DEF IsFresh, Aging, IsAsk
    <3>2. QED
      BY <3>1
  <2>2. ASSUME NEW kind \in Advices,
               Reply(q, [kind |-> kind, at |-> now]),
               qwenCache' = [qwenCache EXCEPT ![o] =
                                Until([kind |-> kind, at |-> now], QwenTtl)]
        PROVE  \E answer : IsReply(answer)
    <3>1. IsReply([kind |-> kind, at |-> now])
      BY <1>2, <2>2 DEF IsAsk
    <3>2. QED
      BY <3>1
  <2>3. QED
    BY <2>1, <2>2 DEF ProxyReplies
<1>4. PICK answer : IsReply(answer)
    BY <1>3
<1> DEFINE given == [it EXCEPT !.at = "replied"]
           new == [given EXCEPT !.answer = answer]
<1>5. asks' = [asks EXCEPT ![q] = new]
    BY <1>4 DEF Reply
<1>6. new = [kind |-> "reason", at |-> "replied", about |-> o,
             since |-> it.since, shown |-> it.shown, answer |-> answer]
  <2>1. given = [kind |-> "reason", at |-> "replied", about |-> o,
                 since |-> it.since, shown |-> it.shown, answer |-> it.answer]
    BY <1>2 DEF IsAdviceAsk
  <2> HIDE DEF given
  <2>2. QED
    BY <2>1
<1> HIDE DEF given, new
<1>7. /\ IsAdviceAsk(new) /\ new.since = it.since /\ new.kind = "reason"
      /\ new.at = "replied"
    BY <1>2, <1>4, <1>6 DEF IsAdviceAsk
<1>8. IsAsk(new)
    BY <1>2, <1>7 DEF IsAsk
<1>9. AsksOK' /\ PanelOK' /\ PanelShowsItsAddress'
    BY <1>1, <1>5, <1>7, <1>8, AskStays, PanelStays DEF AnswersInv
<1>10. CachesOK'
  <2>1. CASE UNCHANGED qwenCache
    BY <1>1, <2>1, CachesStay DEF AnswersInv
  <2>2. CASE /\ answer.at = now
             /\ qwenCache' = [qwenCache EXCEPT ![o] = Until(answer, QwenTtl)]
    <3>1. Aging(Until(answer, QwenTtl), QwenTtl)
      BY <1>2, <2>2, UntilAges
    <3>2. /\ DOMAIN qwenCache' = Objectives
          /\ \A p \in Objectives : Aging(qwenCache'[p], QwenTtl)
      BY <1>2, <2>2, <3>1 DEF AnswersInv, CachesOK, Aging
    <3>3. QED
      BY <1>1, <3>2 DEF AnswersInv, CachesOK, Aging, AgingSoFar
  <2>3. QED
    BY <1>4, <2>1, <2>2
<1>11. QED
    BY <1>9, <1>10 DEF AnswersInv

LEMMA AdviceArrivesKeeps ==
    ASSUME AnswersInv, NEW q \in Asks, AdviceArrives(q) PROVE AnswersInv'
<1> DEFINE it == asks[q]
           o == it.about
           entry == Until(it.answer, QwenTtl)
<1>1. /\ MayEnd(q) /\ it.kind = "reason" /\ it.at = "replied"
      /\ advices' = [advices EXCEPT ![o] = entry]
      /\ asks' = [asks EXCEPT ![q] = Done]
      /\ UNCHANGED <<now, nansenCache, posted, profiles, panel, qwenCache>>
  <2>1. IsAt(q, "reason", "replied") /\ MayEnd(q)
    BY AtMayEnd DEF AdviceArrives
  <2>2. QED
    BY <2>1 DEF AdviceArrives, Return, Finish, IsAt
<1>2. /\ IsAsk(it) /\ IsAdviceAsk(it) /\ now \in Nat /\ QwenTtl \in Nat
  <2>1. IsAsk(it)
    BY <1>1, AskedStill DEF AnswersInv
  <2>2. QED
    BY <1>1, <2>1, ReasoningAssumption
       DEF AnswersInv, CachesOK, IsAsk, IsProfileAsk
<1>3. Aging(entry, 2 * QwenTtl + 1)
  <2>1. /\ it.answer.at \in Int /\ it.since <= it.answer.at + QwenTtl
        /\ it.since \in Nat /\ now <= it.since + 1 /\ 2 * QwenTtl + 1 \in Int
    BY <1>1, <1>2 DEF IsAdviceAsk, IsAsk
  <2>2. now + QwenTtl <= it.answer.at + (2 * QwenTtl + 1)
    BY <1>2, <2>1
  <2>3. QED
    BY <1>2, <2>1, <2>2, UntilAges
<1> HIDE DEF entry
<1>4. AsksOK' /\ PanelOK' /\ PanelShowsItsAddress'
    BY <1>1, AskStays, PanelStays DEF AnswersInv
<1>5. /\ DOMAIN advices' = Objectives
      /\ \A p \in Objectives : Aging(advices'[p], 2 * QwenTtl + 1)
    BY <1>1, <1>2, <1>3 DEF AnswersInv, CachesOK, Aging
<1>6. CachesOK'
    BY <1>1, <1>5 DEF AnswersInv, CachesOK, Aging, AgingSoFar
<1>7. QED
    BY <1>4, <1>6 DEF AnswersInv

\* A request that hangs is asked for nothing any more.
LEMMA HangsKeeps ==
    ASSUME AnswersInv, NEW q \in Asks,
           \/ ProfileHangs(q) /\ UNCHANGED <<now, qwenVars>>
           \/ AdviceHangs(q)
    PROVE  AnswersInv'
<1>1. /\ UNCHANGED <<now, nansenCache, posted, profiles, panel, qwenCache,
                     advices>>
      /\ \/ asks' = [asks EXCEPT ![q] = [at |-> "hung", kind |-> "profile"]]
         \/ asks' = [asks EXCEPT ![q] = [at |-> "hung", kind |-> "reason",
                                          shown |-> asks[q].shown]]
    BY DEF ProfileHangs, AdviceHangs, qwenVars
<1>2. PICK hung : /\ asks' = [asks EXCEPT ![q] = hung]
                  /\ IsHungAsk(hung) /\ hung.at = "hung"
  <2>1. /\ IsHungAsk([at |-> "hung", kind |-> "profile"])
        /\ IsHungAsk([at |-> "hung", kind |-> "reason",
                      shown |-> asks[q].shown])
    BY DEF IsHungAsk
  <2>2. QED
    BY <1>1, <2>1
<1>3. AsksOK'
    BY <1>1, <1>2, AskStays DEF AnswersInv
<1>4. ASSUME NEW p \in Asks, MayEnd(p)'
      PROVE  MayEnd(p) /\ asks'[p] = asks[p]
    BY <1>2, <1>4 DEF AnswersInv, AsksOK, MayEnd, InFlight, IsHung
<1>5. PanelOK' /\ PanelShowsItsAddress'
    BY <1>1, <1>4 DEF AnswersInv, PanelOK, PanelShowsItsAddress, IsMounted
<1>6. QED
    BY <1>1, <1>3, <1>5, CachesStay DEF AnswersInv

LEMMA AdviceFailsKeeps ==
    ASSUME AnswersInv, NEW q \in Asks, AdviceFails(q) PROVE AnswersInv'
<1>1. /\ asks' = [asks EXCEPT ![q] = Done]
      /\ UNCHANGED <<now, nansenCache, posted, profiles, panel, qwenCache,
                     advices>>
    BY DEF AdviceFails, Return, Finish
<1>2. AsksOK' /\ PanelOK' /\ PanelShowsItsAddress'
    BY <1>1, AskStays, PanelStays DEF AnswersInv
<1>3. QED
    BY <1>1, <1>2, CachesStay DEF AnswersInv

\* What is kept is as old as it was; what has run out is gone from both caches.
LEMMA TimePassesKeeps ==
    ASSUME AnswersInv, TimePasses PROVE AnswersInv'
<1>1. /\ now \in Nat /\ now' = now + 1 /\ Ttl \in Nat /\ QwenTtl \in Nat
      /\ Never \in Int
    BY ProfileAssumption, ReasoningAssumption
       DEF TimePasses, AnswersInv, CachesOK, Never
<1>2. \A entry : \A span \in Nat : Aging(entry, span) => Aging(Kept(entry), span)
    BY <1>1 DEF Kept, Aging, NoEntry, Unavailable
<1>3. \A entry : \A span \in Nat :
          AgingSoFar(entry, span) => AgingSoFar(Kept(entry), span)
    BY <1>1 DEF Kept, AgingSoFar, Aging, NoEntry, Unavailable
<1>4. 2 * Ttl + 1 \in Nat /\ 2 * QwenTtl + 1 \in Nat
    BY <1>1
<1>5. /\ DOMAIN nansenCache' = Parts
      /\ \A part \in Parts : nansenCache'[part] = Aged(nansenCache[part])
    BY DEF TimePasses
<1>6. /\ posted' = Aged(posted) /\ profiles' = Aged(profiles)
      /\ qwenCache' = Aged(qwenCache) /\ advices' = Aged(advices)
    BY DEF TimePasses
<1>7. \A part \in Parts :
          /\ nansenCache'[part] = [a \in Addresses |-> nansenCache'[part][a]]
          /\ \A a \in Addresses : Aging(nansenCache'[part][a], Ttl)
  <2> SUFFICES ASSUME NEW part \in Parts
               PROVE  /\ nansenCache'[part] =
                            [a \in Addresses |-> nansenCache'[part][a]]
                      /\ \A a \in Addresses : Aging(nansenCache'[part][a], Ttl)
    OBVIOUS
  <2> DEFINE cache == nansenCache[part]
  <2>1. /\ DOMAIN cache = Addresses
        /\ \A a \in Addresses : Aging(cache[a], Ttl)
    BY DEF AnswersInv, CachesOK
  <2>2. nansenCache'[part] = [a \in Addresses |-> Kept(cache[a])]
    BY <1>5, <2>1 DEF Aged
  <2> HIDE DEF cache
  <2>3. /\ nansenCache'[part] = [a \in Addresses |-> nansenCache'[part][a]]
        /\ \A a \in Addresses : nansenCache'[part][a] = Kept(cache[a])
    BY <2>2
  <2>4. \A a \in Addresses : Aging(Kept(cache[a]), Ttl)
    BY <1>1, <1>2, <2>1
  <2>5. QED
    BY <2>3, <2>4 DEF Aging
<1>8. /\ posted' = [a \in Addresses |-> Kept(posted[a])]
      /\ profiles' = [a \in Addresses |-> Kept(profiles[a])]
      /\ qwenCache' = [o \in Objectives |-> Kept(qwenCache[o])]
      /\ advices' = [o \in Objectives |-> Kept(advices[o])]
    BY <1>6 DEF Aged, AnswersInv, CachesOK
<1>9. \A a \in Addresses :
          /\ AgingSoFar(posted'[a], 2 * Ttl + 1)
          /\ Aging(profiles'[a], 2 * Ttl + 1)
          /\ posted'[a].value.available => posted'[a].until <= profiles'[a].until
  <2> SUFFICES ASSUME NEW a \in Addresses
               PROVE  /\ AgingSoFar(posted'[a], 2 * Ttl + 1)
                      /\ Aging(profiles'[a], 2 * Ttl + 1)
                      /\ posted'[a].value.available =>
                            posted'[a].until <= profiles'[a].until
    OBVIOUS
  <2>1. /\ AgingSoFar(posted[a], 2 * Ttl + 1)
        /\ Aging(profiles[a], 2 * Ttl + 1)
        /\ posted[a].value.available => posted[a].until <= profiles[a].until
    BY DEF AnswersInv, CachesOK
  <2>2. posted'[a] = Kept(posted[a]) /\ profiles'[a] = Kept(profiles[a])
    BY <1>8
  <2>3. AgingSoFar(Kept(posted[a]), 2 * Ttl + 1)
        /\ Aging(Kept(profiles[a]), 2 * Ttl + 1)
    BY <1>2, <1>3, <1>4, <2>1
  <2>4. Kept(posted[a]).value.available =>
            Kept(posted[a]).until <= Kept(profiles[a]).until
    BY <1>1, <2>1 DEF Kept, NoEntry, Unavailable, Aging, AgingSoFar
  <2>5. QED
    BY <2>2, <2>3, <2>4 DEF AgingSoFar, Aging
<1>10. \A o \in Objectives :
          /\ Aging(qwenCache'[o], QwenTtl)
          /\ Aging(advices'[o], 2 * QwenTtl + 1)
  <2> SUFFICES ASSUME NEW o \in Objectives
               PROVE  /\ Aging(qwenCache'[o], QwenTtl)
                      /\ Aging(advices'[o], 2 * QwenTtl + 1)
    OBVIOUS
  <2>1. /\ Aging(qwenCache[o], QwenTtl) /\ Aging(advices[o], 2 * QwenTtl + 1)
        /\ qwenCache'[o] = Kept(qwenCache[o]) /\ advices'[o] = Kept(advices[o])
    BY <1>8 DEF AnswersInv, CachesOK
  <2>2. /\ Aging(Kept(qwenCache[o]), QwenTtl)
        /\ Aging(Kept(advices[o]), 2 * QwenTtl + 1)
    BY <1>1, <1>2, <1>4, <2>1
  <2>3. QED
    BY <2>1, <2>2 DEF Aging
<1>11. CachesOK'
    BY <1>1, <1>5, <1>7, <1>8, <1>9, <1>10 DEF CachesOK, Aging, AgingSoFar
<1>12. UNCHANGED <<asks, panel>> /\ \A q \in Asks : MayEnd(q) => asks[q].since = now
    BY DEF TimePasses
<1>13. AsksOK'
    BY <1>1, <1>12 DEF AnswersInv, AsksOK, InFlight, IsHung, MayEnd, IsAsk
<1>14. PanelOK' /\ PanelShowsItsAddress'
    BY <1>12
       DEF AnswersInv, PanelOK, PanelShowsItsAddress, IsMounted, InFlight, IsHung, MayEnd
<1>15. QED
    BY <1>11, <1>13, <1>14 DEF AnswersInv

LEMMA NoEntryAges ==
    /\ Aging(NoEntry, Ttl) /\ Aging(NoEntry, 2 * Ttl + 1)
    /\ AgingSoFar(NoEntry, 2 * Ttl + 1) /\ ~NoEntry.value.available
    /\ Aging(NoEntry, QwenTtl) /\ Aging(NoEntry, 2 * QwenTtl + 1)
<1>1. Never \in Int /\ Ttl \in Nat /\ QwenTtl \in Nat
    BY ProfileAssumption, ReasoningAssumption DEF Never
<1>2. QED
    BY <1>1 DEF Aging, AgingSoFar, NoEntry, Unavailable

\* The proxies forget what they had, and every answer that they owe is lost.
LEMMA BackendRestartsKeeps ==
    ASSUME AnswersInv, BackendRestarts PROVE AnswersInv'
<1>1. /\ nansenCache' = [part \in Parts |-> [a \in Addresses |-> NoEntry]]
      /\ qwenCache' = [o \in Objectives |-> NoEntry]
      /\ asks' = [q \in Asks |-> IF MayEnd(q) THEN [asks[q] EXCEPT !.at = "lost"]
                                                ELSE asks[q]]
      /\ UNCHANGED <<now, posted, profiles, panel, advices>>
    BY DEF BackendRestarts
<1>2. CachesOK'
  <2>1. /\ DOMAIN nansenCache' = Parts /\ DOMAIN qwenCache' = Objectives
        /\ \A part \in Parts :
              /\ nansenCache'[part] = [a \in Addresses |-> nansenCache'[part][a]]
              /\ \A a \in Addresses : nansenCache'[part][a] = NoEntry
        /\ \A o \in Objectives : qwenCache'[o] = NoEntry
    BY <1>1
  <2>2. QED
    BY <1>1, <2>1, NoEntryAges DEF AnswersInv, CachesOK, Aging, AgingSoFar
<1>3. ASSUME NEW q \in Asks, InFlight(q)'
      PROVE  \/ IsHungAsk(asks'[q])
             \/ /\ MayEnd(q) /\ IsAsk(asks'[q])
                /\ asks'[q].kind = asks[q].kind /\ asks'[q].about = asks[q].about
  <2> DEFINE it == asks[q]
             lost == [it EXCEPT !.at = "lost"]
  <2>0. CASE ~MayEnd(q)
    <3>1. asks'[q] = it /\ InFlight(q)
      BY <1>1, <1>3, <2>0 DEF InFlight
    <3>2. QED
      BY <2>0, <3>1 DEF AnswersInv, AsksOK, IsAsk, MayEnd, IsHung
  <2>1. SUFFICES ASSUME MayEnd(q)
                 PROVE  /\ MayEnd(q) /\ IsAsk(asks'[q])
                        /\ asks'[q].kind = asks[q].kind
                        /\ asks'[q].about = asks[q].about
    BY <2>0
  <2>2. asks'[q] = lost /\ IsAsk(it)
    BY <1>1, <2>1, AskedStill DEF AnswersInv
  <2>3. CASE IsProfileAsk(it)
    <3>1. lost = [kind |-> "profile", at |-> "lost", about |-> it.about,
                  since |-> it.since, parts |-> it.parts]
      BY <2>3 DEF IsProfileAsk
    <3> HIDE DEF lost
    <3>2. IsProfileAsk(lost) /\ lost.since = it.since /\ lost.at = "lost"
          /\ lost.kind = it.kind /\ lost.about = it.about
      BY <2>3, <3>1 DEF IsProfileAsk
    <3>3. IsAsk(lost)
      BY <2>2, <3>2 DEF IsAsk
    <3>4. QED
      BY <2>1, <2>2, <3>2, <3>3
  <2>4. CASE IsAdviceAsk(it)
    <3>1. lost = [kind |-> "reason", at |-> "lost", about |-> it.about,
                  since |-> it.since, shown |-> it.shown, answer |-> it.answer]
      BY <2>4 DEF IsAdviceAsk
    <3> HIDE DEF lost
    <3>2. IsAdviceAsk(lost) /\ lost.since = it.since /\ lost.at = "lost"
          /\ lost.kind = it.kind /\ lost.about = it.about
      BY <2>4, <3>1 DEF IsAdviceAsk
    <3>3. IsAsk(lost)
      BY <2>2, <3>2 DEF IsAsk
    <3>4. QED
      BY <2>1, <2>2, <3>2, <3>3
  <2>5. QED
    BY <2>2, <2>3, <2>4 DEF IsAsk
<1>4. AsksOK' /\ PanelOK' /\ PanelShowsItsAddress'
    BY <1>1, <1>3, AllAsksChange
<1>5. QED
    BY <1>2, <1>4 DEF AnswersInv

LEMMA PageReloadsKeeps ==
    ASSUME AnswersInv, PageReloads PROVE AnswersInv'
<1>1. /\ posted' = [a \in Addresses |-> NoEntry]
      /\ profiles' = [a \in Addresses |-> NoEntry]
      /\ advices' = [o \in Objectives |-> NoEntry]
      /\ panel' = Closed /\ UNCHANGED <<now, nansenCache, qwenCache>>
      /\ asks' = [q \in Asks |-> IF InFlight(q) THEN Done ELSE asks[q]]
    BY DEF PageReloads
<1>2. CachesOK'
    BY <1>1, NoEntryAges DEF AnswersInv, CachesOK, Aging, AgingSoFar
<1>3. DOMAIN asks' = Asks /\ \A q \in Asks : ~InFlight(q)'
    BY <1>1 DEF InFlight
<1>4. AsksOK' /\ PanelOK' /\ PanelShowsItsAddress'
    BY <1>1, <1>3 DEF AsksOK, MayEnd, PanelOK, PanelShowsItsAddress, Closed
<1>5. QED
    BY <1>2, <1>4 DEF AnswersInv

LEMMA AnswersInvStep == AnswersInv /\ [AdviceNext]_adviceVars => AnswersInv'
<1> SUFFICES ASSUME AnswersInv, [AdviceNext]_adviceVars PROVE AnswersInv'
    OBVIOUS
<1>1. CASE UNCHANGED adviceVars
  <2>1. UNCHANGED <<now, nansenCache, posted, profiles, asks, panel, qwenCache,
                    advices>>
    BY <1>1 DEF adviceVars, profileVars, qwenVars
  <2>2. QED
    BY <2>1, CachesStay
       DEF AnswersInv, AsksOK, InFlight, IsHung, MayEnd, IsAsk, PanelOK, PanelShowsItsAddress,
           IsMounted
<1>2. ASSUME NEW o \in Objectives, openModal(o) \/ changeObjective(o)
      PROVE  AnswersInv'
    BY <1>2, RunKeeps DEF openModal, changeObjective
<1>3. QED
    BY <1>1, <1>2, OpenPanelKeeps, ClosePanelKeeps, CloseModalKeeps,
       NansenAnswersKeeps, ProxyRepliesKeeps, ProfileArrivesKeeps,
       ProfileIsLostKeeps, HangsKeeps, AdviceArrivesKeeps, AdviceFailsKeeps,
       TimePassesKeeps, BackendRestartsKeeps, PageReloadsKeeps
       DEF AdviceNext, Completes

LEMMA AnswersInvAlways == AdviceSpec => []AnswersInv
BY AnswersInvInit, AnswersInvStep, PTL DEF AdviceSpec

\* Nothing that the client shows of a counterparty was answered longer ago than
\* the proxy's cache and one of the client's hold it one after the other,
\* whatever is restarted, loaded anew or late: the second cache of profiles is
\* never filled from the first one (nansen.ts:15-30, nansenClient.ts:183-251).
THEOREM NothingIsTooOld == AdviceSpec => []NothingTooOld
<1>1. AnswersInv => NothingTooOld
  <2> SUFFICES ASSUME AnswersInv PROVE NothingTooOld
    OBVIOUS
  <2>1. now \in Nat /\ Ttl \in Nat /\ QwenTtl \in Nat
    BY ProfileAssumption, ReasoningAssumption DEF AnswersInv, CachesOK
  <2>2. ASSUME NEW a \in Addresses, HasAnswer(a), Held(a).available
        PROVE  now - Held(a).at <= 2 * Ttl + 1
    <3>1. /\ AgingSoFar(posted[a], 2 * Ttl + 1)
          /\ Aging(profiles[a], 2 * Ttl + 1)
      BY DEF AnswersInv, CachesOK
    <3>2. CASE IsFresh(profiles[a])
      BY <2>1, <3>1, <3>2 DEF Held, IsFresh, Aging
    <3>3. CASE ~IsFresh(profiles[a])
      BY <2>1, <2>2, <3>1, <3>3 DEF Held, HasAnswer, IsFresh, Aging, AgingSoFar
    <3>4. QED
      BY <3>2, <3>3
  <2>3. ASSUME NEW o \in Objectives, IsCurrent(advices[o])
        PROVE  now - advices[o].value.at <= 2 * QwenTtl
    <3>1. Aging(advices[o], 2 * QwenTtl + 1)
      BY DEF AnswersInv, CachesOK
    <3>2. QED
      BY <2>1, <2>3, <3>1 DEF IsCurrent, Aging
  <2>4. QED
    BY <2>2, <2>3 DEF NothingTooOld
<1>2. QED
    BY <1>1, AnswersInvAlways, PTL

\* Once its spinner is gone the panel shows the profile of its address,
\* whichever answers are late (CounterpartyIntelligenceModal.tsx:46-68).
THEOREM PanelIsOfItsAddress == AdviceSpec => []PanelShowsItsAddress
<1>1. AnswersInv => PanelShowsItsAddress
    BY DEF AnswersInv
<1>2. QED
    BY <1>1, AnswersInvAlways, PTL

-----------------------------------------------------------------------------
(* The guild's vault: every credit is in one place                         *)

Reservation == [owner : GuildAgents, amount : Nat, remaining : Nat,
                transferable : BOOLEAN, active : BOOLEAN]

VaultTypeOK ==
    /\ registered \subseteq GuildAgents
    /\ balances \in [GuildAgents -> Nat] /\ spent \in [GuildAgents -> Nat]
    /\ reservations \in [ReservationIds -> {NoReservation} \cup Reservation]
    /\ reservePool \in Nat /\ guildGranted \in Nat /\ guildConsumed \in Nat

ReservationsOK ==
    \A id \in ReservationIds :
        IF IsActive(id) THEN reservations[id].owner \in registered
                        ELSE reservations[id].remaining = 0
StrangersHoldNothing == \A a \in GuildAgents \ registered : balances[a] = 0

GuildVaultInv ==
    VaultTypeOK /\ ReservationsOK /\ StrangersHoldNothing /\ CreditsAddUp

Reserved == Total([id \in ReservationIds |-> reservations[id].remaining])

LEMMA VaultSums ==
    ASSUME VaultTypeOK
    PROVE  /\ [id \in ReservationIds |-> reservations[id].remaining]
                 \in [ReservationIds -> Nat]
           /\ Total(balances) \in Nat /\ Total(spent) \in Nat /\ Reserved \in Nat
<1>1. [id \in ReservationIds |-> reservations[id].remaining]
          \in [ReservationIds -> Nat]
    BY DEF VaultTypeOK, Reservation, NoReservation
<1>2. QED
    BY <1>1, TotalIsNat, GuildParameters DEF VaultTypeOK, Reserved

LEMMA ReservationMoves ==
    ASSUME VaultTypeOK, ReservationsOK,
           NEW id \in ReservationIds, NEW x \in Reservation,
           IF x.active THEN x.owner \in registered ELSE x.remaining = 0,
           registered' = registered,
           reservations' = [reservations EXCEPT ![id] = x]
    PROVE  /\ reservations' \in [ReservationIds -> {NoReservation} \cup Reservation]
           /\ ReservationsOK'
           /\ Reserved' = Reserved + x.remaining - reservations[id].remaining
<1> DEFINE f == [i \in ReservationIds |-> reservations[i].remaining]
           g == [i \in ReservationIds |-> reservations'[i].remaining]
<1>1. /\ reservations' \in [ReservationIds -> {NoReservation} \cup Reservation]
      /\ reservations'[id] = x
      /\ \A i \in ReservationIds \ {id} : reservations'[i] = reservations[i]
    BY DEF VaultTypeOK
<1>2. ReservationsOK'
    BY <1>1 DEF ReservationsOK, IsActive
<1>3. f \in [ReservationIds -> Nat] /\ x.remaining \in Nat
    BY VaultSums DEF Reservation
<1>4. /\ g \in [ReservationIds -> Nat] /\ g[id] = x.remaining
      /\ \A i \in ReservationIds \ {id} : f[i] = g[i]
      /\ f[id] = reservations[id].remaining
    <2>1. \A i \in ReservationIds : reservations'[i].remaining \in Nat
        BY <1>1, <1>3 DEF Reservation, NoReservation
    <2>2. QED
        BY <1>1, <2>1
<1>5. Reserved = Total(f) /\ Reserved' = Total(g)
    BY DEF Reserved
<1> HIDE DEF f, g
<1>6. Total(g) + f[id] = Total(f) + g[id]
    BY <1>3, <1>4, TotalPoint, GuildParameters
<1>7. Total(g) \in Nat /\ Total(f) \in Nat /\ f[id] \in Nat
    BY <1>3, <1>4, TotalIsNat, GuildParameters
<1>8. Total(g) = Total(f) + x.remaining - f[id]
    BY <1>3, <1>4, <1>6, <1>7
<1>9. QED
    BY <1>1, <1>2, <1>4, <1>5, <1>8

LEMMA VaultStarts == VaultInit => GuildVaultInv
<1> SUFFICES ASSUME VaultInit PROVE GuildVaultInv
    OBVIOUS
<1>1. VaultTypeOK
    BY DEF VaultInit, VaultTypeOK
<1>2. ReservationsOK /\ StrangersHoldNothing
    BY DEF VaultInit, ReservationsOK, StrangersHoldNothing, NoReservation, IsActive
<1> DEFINE f == [id \in ReservationIds |-> reservations[id].remaining]
<1>3. f \in [ReservationIds -> Nat]
    BY <1>1, VaultSums
<1>4. \A id \in ReservationIds : f[id] = 0
    BY DEF VaultInit, NoReservation
<1> HIDE DEF f
<1>5. Total(f) = 0
    BY <1>3, <1>4, TotalZero
<1>6. Total(balances) = 0 /\ Total(spent) = 0
    BY <1>1, TotalZero DEF VaultInit, VaultTypeOK
<1>7. CreditsAddUp
    BY <1>5, <1>6 DEF VaultInit, CreditsAddUp, f
<1>8. QED
    BY <1>1, <1>2, <1>7 DEF GuildVaultInv

\* Credits that come to, or leave, the balance of a registered agent.
LEMMA BalanceMoves ==
    ASSUME GuildVaultInv, NEW a \in GuildAgents, NEW delta \in Int,
           balances[a] + delta >= 0, a \in registered',
           registered \subseteq registered', registered' \subseteq GuildAgents,
           balances' = [balances EXCEPT ![a] = balances[a] + delta]
    PROVE  /\ balances' \in [GuildAgents -> Nat] /\ StrangersHoldNothing'
           /\ Total(balances') = Total(balances) + delta
<1>1. balances \in [GuildAgents -> Nat] /\ IsFiniteSet(GuildAgents)
    BY GuildParameters DEF GuildVaultInv, VaultTypeOK
<1>2. balances[a] \in Nat /\ balances[a] + delta \in Nat
    BY <1>1
<1>3. PICK g : g = balances'
    OBVIOUS
<1>4. /\ g \in [GuildAgents -> Nat] /\ g[a] = balances[a] + delta
      /\ \A b \in GuildAgents \ {a} : balances[b] = g[b]
    BY <1>1, <1>2, <1>3
<1>5. Total(g) + balances[a] = Total(balances) + g[a]
    BY <1>1, <1>4, TotalPoint
<1>6. Total(g) \in Nat /\ Total(balances) \in Nat
    BY <1>1, <1>4, TotalIsNat
<1>7. Total(g) = Total(balances) + delta
    BY <1>2, <1>4, <1>5, <1>6
<1>8. StrangersHoldNothing'
    <2>1. \A b \in GuildAgents \ registered' : b # a /\ balances[b] = 0
        BY DEF GuildVaultInv, StrangersHoldNothing
    <2>2. \A b \in GuildAgents \ registered' : g[b] = 0
        BY <1>4, <2>1
    <2>3. QED
        BY <1>3, <2>2 DEF StrangersHoldNothing
<1>9. QED
    BY <1>3, <1>4, <1>7, <1>8

LEMMA GrantAdds ==
    ASSUME GuildVaultInv, NEW a \in GuildAgents,
           NEW amount \in Amounts, GrantTo(a, amount), a \in registered',
           registered \subseteq registered', registered' \subseteq GuildAgents
    PROVE  GuildVaultInv'
<1>1. VaultTypeOK /\ ReservationsOK /\ CreditsAddUp
    BY DEF GuildVaultInv
<1>2. amount \in Nat
    BY GuildParameters
<1>3. /\ guildGranted' = guildGranted + amount /\ reservations' = reservations
      /\ reservePool' = reservePool /\ spent' = spent /\ guildConsumed' = guildConsumed
      /\ balances' = [balances EXCEPT ![a] = balances[a] + amount]
    BY DEF GrantTo
<1>4. balances[a] + amount >= 0 /\ amount \in Int
    BY <1>1, <1>2 DEF VaultTypeOK
<1>5. /\ balances' \in [GuildAgents -> Nat] /\ StrangersHoldNothing'
      /\ Total(balances') = Total(balances) + amount
    BY <1>2, <1>3, <1>4, BalanceMoves
<1>6. VaultTypeOK'
    BY <1>1, <1>2, <1>3, <1>5 DEF VaultTypeOK
<1>7. ReservationsOK'
    BY <1>1, <1>3 DEF ReservationsOK, IsActive, VaultTypeOK
<1>8. Reserved' = Reserved /\ Total(spent') = Total(spent)
    BY <1>3 DEF Reserved
<1>9. CreditsAddUp'
    BY <1>1, <1>2, <1>3, <1>5, <1>8, VaultSums DEF VaultTypeOK, CreditsAddUp, Reserved
<1>10. QED
    BY <1>5, <1>6, <1>7, <1>9 DEF GuildVaultInv

LEMMA ReserveAdds ==
    ASSUME GuildVaultInv, NEW a \in GuildAgents,
           NEW id \in ReservationIds, NEW amount \in Amounts,
           NEW transferable \in BOOLEAN, reserveCredits(a, id, amount, transferable)
    PROVE  GuildVaultInv'
<1> DEFINE x == [owner |-> a, amount |-> amount, remaining |-> amount,
                 transferable |-> transferable, active |-> TRUE]
<1>1. VaultTypeOK /\ ReservationsOK /\ CreditsAddUp
    BY DEF GuildVaultInv
<1>2. amount \in Nat /\ -amount \in Int
    BY GuildParameters
<1>3. /\ guildGranted' = guildGranted /\ registered' = registered
      /\ reservePool' = reservePool /\ spent' = spent /\ guildConsumed' = guildConsumed
      /\ reservations' = [reservations EXCEPT ![id] = x]
      /\ a \in registered
    BY DEF reserveCredits
<1>4. /\ balances[a] + (-amount) >= 0
      /\ balances' = [balances EXCEPT ![a] = balances[a] + (-amount)]
    <2>1. balances[a] \in Nat /\ balances[a] >= amount
        BY <1>1 DEF VaultTypeOK, reserveCredits
    <2>2. balances[a] - amount = balances[a] + (-amount)
        BY <1>2, <2>1
    <2>3. balances' = [balances EXCEPT ![a] = balances[a] - amount]
        BY DEF reserveCredits
    <2>4. balances' = [balances EXCEPT ![a] = balances[a] + (-amount)]
        BY <2>2, <2>3, Zenon
    <2>5. QED
        BY <1>2, <2>1, <2>4
<1>5. /\ balances' \in [GuildAgents -> Nat] /\ StrangersHoldNothing'
      /\ Total(balances') = Total(balances) + (-amount)
    BY <1>1, <1>2, <1>3, <1>4, BalanceMoves DEF VaultTypeOK
<1>6. x \in Reservation /\ x.active /\ x.remaining = amount /\ x.owner = a
    BY <1>2 DEF Reservation
<1>7. reservations[id].remaining = 0
    BY <1>1 DEF ReservationsOK, reserveCredits
<1> HIDE DEF x
<1>8. /\ reservations' \in [ReservationIds -> {NoReservation} \cup Reservation]
      /\ ReservationsOK'
      /\ Reserved' = Reserved + x.remaining - reservations[id].remaining
    BY <1>1, <1>3, <1>6, ReservationMoves
<1>9. VaultTypeOK'
    BY <1>1, <1>3, <1>5, <1>8 DEF VaultTypeOK
<1>10. CreditsAddUp'
    <2>1. Reserved' = Reserved + amount
        BY <1>1, <1>2, <1>6, <1>7, <1>8, VaultSums
    <2>2. Total(spent') = Total(spent)
        BY <1>3
    <2>3. QED
        BY <1>1, <1>2, <1>3, <1>5, <2>1, <2>2, VaultSums
           DEF VaultTypeOK, CreditsAddUp, Reserved
<1>11. QED
    BY <1>5, <1>8, <1>9, <1>10 DEF GuildVaultInv

LEMMA ActiveReservation ==
    ASSUME VaultTypeOK, NEW id \in ReservationIds, IsActive(id)
    PROVE  /\ reservations[id] \in Reservation
           /\ reservations[id].remaining \in Nat
BY DEF VaultTypeOK, IsActive, NoReservation, Reservation

LEMMA ConsumeAdds ==
    ASSUME GuildVaultInv, NEW a \in GuildAgents,
           NEW id \in ReservationIds, NEW amount \in Amounts,
           consumeCredits(a, id, amount)
    PROVE  GuildVaultInv'
<1> DEFINE it == reservations[id]
           left == it.remaining - amount
           x == [it EXCEPT !.remaining = left, !.active = left # 0]
<1>1. VaultTypeOK /\ ReservationsOK /\ StrangersHoldNothing /\ CreditsAddUp
    BY DEF GuildVaultInv
<1>2. amount \in Nat
    BY GuildParameters
<1>3. it \in Reservation /\ it.remaining \in Nat /\ amount <= it.remaining
    BY <1>1, ActiveReservation DEF consumeCredits, MayClose
<1>4. left \in Nat
    BY <1>2, <1>3
<1>5. /\ guildGranted' = guildGranted /\ registered' = registered
      /\ balances' = balances /\ reservePool' = reservePool /\ spent' = spent
      /\ guildConsumed' = guildConsumed + amount
      /\ reservations' = [reservations EXCEPT ![id] = x]
    BY <1>1 DEF consumeCredits, VaultTypeOK
<1>6. /\ x \in Reservation /\ x.remaining = left /\ x.active = (left # 0)
      /\ x.owner = it.owner
    <2>1. (left # 0) \in BOOLEAN
        OBVIOUS
    <2> DEFINE active == left # 0
    <2> HIDE DEF left, active, it
    <2>2. /\ [it EXCEPT !.remaining = left, !.active = active] \in Reservation
          /\ [it EXCEPT !.remaining = left, !.active = active].remaining = left
          /\ [it EXCEPT !.remaining = left, !.active = active].active = active
          /\ [it EXCEPT !.remaining = left, !.active = active].owner = it.owner
        BY <1>3, <1>4, <2>1 DEF Reservation, active
    <2>3. QED
        BY <2>2 DEF active
<1>7. IF x.active THEN x.owner \in registered ELSE x.remaining = 0
    <2>1. it.owner \in registered
        BY <1>1 DEF ReservationsOK, consumeCredits, MayClose
    <2> HIDE DEF x, it
    <2>2. QED
        BY <1>6, <2>1
<1> HIDE DEF x
<1>8. /\ reservations' \in [ReservationIds -> {NoReservation} \cup Reservation]
      /\ ReservationsOK'
      /\ Reserved' = Reserved + x.remaining - it.remaining
    BY <1>1, <1>5, <1>6, <1>7, ReservationMoves
<1>9. VaultTypeOK'
    BY <1>1, <1>2, <1>5, <1>8 DEF VaultTypeOK
<1>10. StrangersHoldNothing'
    BY <1>1, <1>5 DEF StrangersHoldNothing
<1>11. CreditsAddUp'
    <2>1. Reserved' = Reserved - amount
        BY <1>1, <1>2, <1>3, <1>6, <1>8, VaultSums
    <2>2. Total(spent') = Total(spent) /\ Total(balances') = Total(balances)
        BY <1>5
    <2>3. QED
        BY <1>1, <1>2, <1>5, <2>1, <2>2, VaultSums
           DEF VaultTypeOK, CreditsAddUp, Reserved
<1>12. QED
    BY <1>8, <1>9, <1>10, <1>11 DEF GuildVaultInv

\* A reservation that is closed empties, whoever gets what was left in it.
LEMMA CloseMoves ==
    ASSUME GuildVaultInv, NEW id \in ReservationIds,
           IsActive(id), CloseReservation(id), registered' = registered
    PROVE  /\ reservations' \in [ReservationIds -> {NoReservation} \cup Reservation]
           /\ ReservationsOK'
           /\ Reserved' = Reserved - reservations[id].remaining
<1> DEFINE it == reservations[id]
           x == [it EXCEPT !.remaining = 0, !.active = FALSE]
<1>1. VaultTypeOK /\ ReservationsOK
    BY DEF GuildVaultInv
<1>2. it \in Reservation /\ it.remaining \in Nat
    BY <1>1, ActiveReservation
<1>3. x \in Reservation /\ x.remaining = 0 /\ x.active = FALSE
    BY <1>2 DEF Reservation
<1>4. reservations' = [reservations EXCEPT ![id] = x]
    BY <1>1 DEF CloseReservation, VaultTypeOK
<1> HIDE DEF x
<1>5. /\ reservations' \in [ReservationIds -> {NoReservation} \cup Reservation]
      /\ ReservationsOK'
      /\ Reserved' = Reserved + x.remaining - it.remaining
    BY <1>1, <1>3, <1>4, ReservationMoves
<1>6. QED
    BY <1>1, <1>2, <1>3, <1>5, VaultSums

LEMMA ReleaseAdds ==
    ASSUME GuildVaultInv, NEW a \in GuildAgents,
           NEW id \in ReservationIds, releaseCredits(a, id)
    PROVE  GuildVaultInv'
<1> DEFINE left == reservations[id].remaining
<1>1. VaultTypeOK /\ ReservationsOK /\ CreditsAddUp
    BY DEF GuildVaultInv
<1>2. left \in Nat
    BY <1>1, ActiveReservation DEF releaseCredits, MayClose
<1>3. /\ guildGranted' = guildGranted /\ registered' = registered
      /\ reservePool' = reservePool /\ spent' = spent /\ guildConsumed' = guildConsumed
      /\ balances' = [balances EXCEPT ![a] = balances[a] + left]
    BY DEF releaseCredits
<1>4. a \in registered /\ balances[a] + left >= 0 /\ left \in Int
    BY <1>1, <1>2 DEF VaultTypeOK, ReservationsOK, releaseCredits, MayClose
<1>5. /\ reservations' \in [ReservationIds -> {NoReservation} \cup Reservation]
      /\ ReservationsOK' /\ Reserved' = Reserved - left
    BY <1>3, CloseMoves DEF releaseCredits, MayClose
<1> HIDE DEF left
<1>6. /\ balances' \in [GuildAgents -> Nat] /\ StrangersHoldNothing'
      /\ Total(balances') = Total(balances) + left
    <2>1. /\ registered \subseteq registered' /\ registered' \subseteq GuildAgents
          /\ a \in registered'
        BY <1>1, <1>3, <1>4 DEF VaultTypeOK
    <2>2. QED
        BY <1>3, <1>4, <2>1, BalanceMoves
<1>7. VaultTypeOK'
    BY <1>1, <1>3, <1>5, <1>6 DEF VaultTypeOK
<1>8. Total(spent') = Total(spent)
    BY <1>3
<1>9. CreditsAddUp'
    BY <1>1, <1>2, <1>3, <1>5, <1>6, <1>8, VaultSums
       DEF VaultTypeOK, CreditsAddUp, Reserved
<1>10. QED
    BY <1>5, <1>6, <1>7, <1>9 DEF GuildVaultInv

LEMMA RecycleAdds ==
    ASSUME GuildVaultInv, NEW id \in ReservationIds, recycleCredits(id)
    PROVE  GuildVaultInv'
<1> DEFINE left == reservations[id].remaining
<1>1. VaultTypeOK /\ ReservationsOK /\ StrangersHoldNothing /\ CreditsAddUp
    BY DEF GuildVaultInv
<1>2. left \in Nat
    BY <1>1, ActiveReservation DEF recycleCredits
<1>3. /\ guildGranted' = guildGranted /\ registered' = registered /\ balances' = balances
      /\ reservePool' = reservePool + left /\ spent' = spent
      /\ guildConsumed' = guildConsumed
    BY DEF recycleCredits
<1>4. /\ reservations' \in [ReservationIds -> {NoReservation} \cup Reservation]
      /\ ReservationsOK' /\ Reserved' = Reserved - left
    BY <1>3, CloseMoves DEF recycleCredits
<1> HIDE DEF left
<1>5. VaultTypeOK' /\ StrangersHoldNothing'
    BY <1>1, <1>2, <1>3, <1>4 DEF VaultTypeOK, StrangersHoldNothing
<1>6. Total(spent') = Total(spent) /\ Total(balances') = Total(balances)
    BY <1>3
<1>7. CreditsAddUp'
    BY <1>1, <1>2, <1>3, <1>4, <1>6, VaultSums
       DEF VaultTypeOK, CreditsAddUp, Reserved
<1>8. QED
    BY <1>4, <1>5, <1>7 DEF GuildVaultInv

LEMMA SpendAdds ==
    ASSUME GuildVaultInv, NEW a \in GuildAgents, NEW amount \in Nat,
           spend(a, amount)
    PROVE  GuildVaultInv'
<1>1. VaultTypeOK /\ ReservationsOK /\ CreditsAddUp
    BY DEF GuildVaultInv
<1>2. /\ guildGranted' = guildGranted /\ registered' = registered
      /\ reservePool' = reservePool /\ guildConsumed' = guildConsumed
      /\ reservations' = reservations
      /\ a \in registered /\ balances[a] >= amount
      /\ balances' = [balances EXCEPT ![a] = balances[a] - amount]
      /\ spent' = [spent EXCEPT ![a] = spent[a] + amount]
    BY DEF spend, MaySpend
<1>3. /\ balances[a] + (-amount) >= 0 /\ -amount \in Int
      /\ balances' = [balances EXCEPT ![a] = balances[a] + (-amount)]
    <2>1. balances[a] \in Nat
        BY <1>1 DEF VaultTypeOK
    <2>2. balances[a] - amount = balances[a] + (-amount)
        BY <2>1
    <2>3. balances' = [balances EXCEPT ![a] = balances[a] + (-amount)]
        BY <1>2, <2>2, Zenon
    <2>4. balances[a] + (-amount) >= 0 /\ -amount \in Int
        BY <1>2, <2>1
    <2>5. QED
        BY <2>3, <2>4
<1>4. /\ balances' \in [GuildAgents -> Nat] /\ StrangersHoldNothing'
      /\ Total(balances') = Total(balances) + (-amount)
    BY <1>1, <1>2, <1>3, BalanceMoves DEF VaultTypeOK
<1>5. /\ spent' \in [GuildAgents -> Nat]
      /\ Total(spent') = Total(spent) + amount
    <2>1. PICK g : g = spent'
        OBVIOUS
    <2>2. spent \in [GuildAgents -> Nat] /\ IsFiniteSet(GuildAgents)
        BY <1>1, GuildParameters DEF VaultTypeOK
    <2>3. /\ g \in [GuildAgents -> Nat] /\ g[a] = spent[a] + amount
          /\ \A b \in GuildAgents \ {a} : spent[b] = g[b]
        BY <1>2, <2>1, <2>2
    <2>4. Total(g) + spent[a] = Total(spent) + g[a]
        BY <2>2, <2>3, TotalPoint
    <2>5. Total(g) \in Nat /\ Total(spent) \in Nat /\ spent[a] \in Nat
        BY <2>2, <2>3, TotalIsNat
    <2>6. QED
        BY <2>1, <2>3, <2>4, <2>5
<1>6. VaultTypeOK'
    BY <1>1, <1>2, <1>4, <1>5 DEF VaultTypeOK
<1>7. ReservationsOK' /\ Reserved' = Reserved
    BY <1>1, <1>2 DEF ReservationsOK, IsActive, Reserved
<1>8. CreditsAddUp'
    BY <1>1, <1>2, <1>4, <1>5, <1>7, VaultSums
       DEF VaultTypeOK, CreditsAddUp, Reserved
<1>9. QED
    BY <1>4, <1>6, <1>7, <1>8 DEF GuildVaultInv

LEMMA TopUpAdds ==
    ASSUME GuildVaultInv, NEW a \in GuildAgents, NEW amount \in Nat,
           requestTopUp(a, amount)
    PROVE  GuildVaultInv'
<1>1. VaultTypeOK /\ ReservationsOK /\ StrangersHoldNothing /\ CreditsAddUp
    BY DEF GuildVaultInv
<1>2. /\ guildGranted' = guildGranted /\ registered' = registered
      /\ guildConsumed' = guildConsumed
      /\ reservations' = reservations /\ spent' = spent /\ a \in registered
    BY DEF requestTopUp
<1>3. ReservationsOK' /\ Reserved' = Reserved /\ Total(spent') = Total(spent)
    BY <1>1, <1>2 DEF ReservationsOK, IsActive, Reserved
<1>4. CASE reservePool >= amount
    <2>1. /\ reservePool' = reservePool - amount
          /\ balances' = [balances EXCEPT ![a] = balances[a] + amount]
        BY <1>4 DEF requestTopUp
    <2>2. /\ balances[a] + amount >= 0 /\ amount \in Int /\ a \in registered'
          /\ registered \subseteq registered' /\ registered' \subseteq GuildAgents
        BY <1>1, <1>2 DEF VaultTypeOK
    <2>3. /\ balances' \in [GuildAgents -> Nat] /\ StrangersHoldNothing'
          /\ Total(balances') = Total(balances) + amount
        BY <2>1, <2>2, BalanceMoves
    <2>4. VaultTypeOK'
        BY <1>1, <1>2, <1>4, <2>1, <2>3 DEF VaultTypeOK
    <2>5. CreditsAddUp'
        BY <1>1, <1>2, <1>3, <2>1, <2>3, VaultSums
           DEF VaultTypeOK, CreditsAddUp, Reserved
    <2>6. QED
        BY <1>3, <2>3, <2>4, <2>5 DEF GuildVaultInv
<1>5. CASE ~(reservePool >= amount)
    <2>1. reservePool' = reservePool /\ balances' = balances
        BY <1>5 DEF requestTopUp
    <2>2. VaultTypeOK' /\ StrangersHoldNothing'
        BY <1>1, <1>2, <2>1 DEF VaultTypeOK, StrangersHoldNothing
    <2>3. CreditsAddUp'
        BY <1>1, <1>2, <1>3, <2>1 DEF CreditsAddUp
    <2>4. QED
        BY <1>3, <2>2, <2>3 DEF GuildVaultInv
<1>6. QED
    BY <1>4, <1>5

-----------------------------------------------------------------------------
(* The guild: agents call its vault, and its pipelines go from call to call *)

PipelineTypeOK ==
    /\ stage \in [Pipelines -> 0..Len(Stages)]
    /\ call \in [Pipelines -> {"read", "top-up", "read again", "spend", "spend unread"}]
    /\ short \in [Pipelines -> Nat]
    /\ paidFor \in [GuildAgents -> Nat] /\ guessed \in [GuildAgents -> Nat]
    /\ begun \in [GuildAgents -> Nat]

GuildInv == GuildVaultInv /\ PipelineTypeOK

LEMMA StagesHaveAgents ==
    ASSUME PipelineTypeOK
    PROVE  /\ Len(Stages) \in Nat \ {0}
           /\ \A n \in 1..Len(Stages) : Stages[n] \in GuildAgents /\ Cost[Stages[n]] \in Nat
           /\ \A p \in Pipelines : stage[p] # 0 =>
                 /\ stage[p] \in 1..Len(Stages)
                 /\ AgentOf(p) \in GuildAgents /\ CostOf(p) \in Nat
<1>1. Stages \in Seq(GuildAgents) /\ Stages # << >> /\ Cost \in [GuildAgents -> Nat]
    BY PipelineParameters
<1>2. Len(Stages) \in Nat \ {0}
    BY <1>1
<1>3. \A n \in 1..Len(Stages) : Stages[n] \in GuildAgents
    BY <1>1
<1>4. \A p \in Pipelines : stage[p] # 0 => stage[p] \in 1..Len(Stages)
    <2> TAKE p \in Pipelines
    <2>1. stage[p] \in 0..Len(Stages)
        BY DEF PipelineTypeOK
    <2>2. QED
        BY <1>2, <2>1
<1>5. QED
    BY <1>1, <1>2, <1>3, <1>4 DEF AgentOf, CostOf

\* A history that counts counts one more, or nothing.
Counted(f, g) == g = f \/ \E a \in GuildAgents : g = [f EXCEPT ![a] = @ + 1]

LEMMA CountedIsNat ==
    ASSUME NEW f \in [GuildAgents -> Nat], NEW g, Counted(f, g)
    PROVE  g \in [GuildAgents -> Nat]
<1>1. CASE g = f
    BY <1>1
<1>2. CASE \E a \in GuildAgents : g = [f EXCEPT ![a] = @ + 1]
    BY <1>2
<1>3. QED
    BY <1>1, <1>2 DEF Counted

\* What a step of a pipeline leaves of its types.
LEMMA PipelineMoves ==
    ASSUME PipelineTypeOK, NEW p \in Pipelines,
           \/ stage' = stage
           \/ \E n \in 0..Len(Stages) : stage' = [stage EXCEPT ![p] = n],
           \/ call' = call
           \/ \E what \in {"read", "top-up", "read again", "spend", "spend unread"} :
                 call' = [call EXCEPT ![p] = what],
           short' = short \/ \E n \in Nat : short' = [short EXCEPT ![p] = n],
           Counted(paidFor, paidFor'), Counted(guessed, guessed'),
           Counted(begun, begun')
    PROVE  PipelineTypeOK'
<1>1. stage' \in [Pipelines -> 0..Len(Stages)]
    BY DEF PipelineTypeOK
<1>2. call' \in [Pipelines -> {"read", "top-up", "read again", "spend", "spend unread"}]
    BY DEF PipelineTypeOK
<1>3. short' \in [Pipelines -> Nat]
    BY DEF PipelineTypeOK
<1>4. /\ paidFor' \in [GuildAgents -> Nat] /\ guessed' \in [GuildAgents -> Nat]
      /\ begun' \in [GuildAgents -> Nat]
    BY CountedIsNat DEF PipelineTypeOK
<1>5. QED
    BY <1>1, <1>2, <1>3, <1>4 DEF PipelineTypeOK

LEMMA VaultStays ==
    ASSUME GuildVaultInv, UNCHANGED guildVars
    PROVE  GuildVaultInv'
BY DEF GuildVaultInv, guildVars, VaultTypeOK, Reservation, ReservationsOK, IsActive,
       StrangersHoldNothing, CreditsAddUp

LEMMA VaultCallAdds ==
    ASSUME GuildInv, VaultCall
    PROVE  GuildInv'
<1>1. GuildVaultInv /\ PipelineTypeOK /\ VaultTypeOK
    BY DEF GuildInv, GuildVaultInv
<1>2. PipelineTypeOK'
    BY <1>1 DEF VaultCall, pipelineVars, PipelineTypeOK
<1>3. ASSUME NEW a \in GuildAgents, NEW amount \in Amounts,
             registerAgent(a, amount) \/ grantCredits(a, amount)
      PROVE  GuildVaultInv'
    <2>1. /\ GrantTo(a, amount) /\ a \in registered'
          /\ registered \subseteq registered' /\ registered' \subseteq GuildAgents
        BY <1>1, <1>3 DEF registerAgent, grantCredits, VaultTypeOK
    <2>2. QED
        BY <1>1, <2>1, GrantAdds
<1>4. ASSUME NEW id \in ReservationIds, recycleCredits(id)
      PROVE  GuildVaultInv'
    BY <1>1, <1>4, RecycleAdds
<1>5. ASSUME NEW a \in Others, NEW amount \in Amounts, NEW id \in ReservationIds,
             \/ \E transferable \in BOOLEAN :
                   reserveCredits(a, id, amount, transferable)
             \/ consumeCredits(a, id, amount) \/ releaseCredits(a, id)
             \/ spend(a, amount) \/ requestTopUp(a, amount)
      PROVE  GuildVaultInv'
    <2>1. a \in GuildAgents /\ amount \in Nat
        BY PipelineParameters, GuildParameters
    <2>2. QED
        BY <1>1, <1>5, <2>1, ReserveAdds, ConsumeAdds, ReleaseAdds,
           SpendAdds, TopUpAdds
<1>6. GuildVaultInv'
    BY <1>3, <1>4, <1>5 DEF VaultCall
<1>7. QED
    BY <1>2, <1>6 DEF GuildInv

LEMMA RunAdds ==
    ASSUME GuildInv, NEW p \in Pipelines,
           Run(p)
    PROVE  GuildInv'
<1>1. GuildVaultInv /\ PipelineTypeOK
    BY DEF GuildInv
<1>2. 1 \in 0..Len(Stages) /\ Stages[1] \in GuildAgents
    BY <1>1, StagesHaveAgents
<1>3. PipelineTypeOK'
    <2>1. /\ stage' = [stage EXCEPT ![p] = 1] /\ call' = [call EXCEPT ![p] = "read"]
          /\ short' = short /\ paidFor' = paidFor /\ guessed' = guessed
          /\ begun' = [begun EXCEPT ![Stages[1]] = @ + 1]
        BY DEF Run, Begin
    <2>2. /\ Counted(paidFor, paidFor') /\ Counted(guessed, guessed')
          /\ Counted(begun, begun')
        BY <1>2, <2>1 DEF Counted
    <2>3. QED
        BY <1>1, <1>2, <2>1, <2>2, PipelineMoves
<1>4. QED
    BY <1>1, <1>3, VaultStays DEF GuildInv, Run

LEMMA ReadAdds ==
    ASSUME GuildInv, NEW p \in Pipelines,
           ReadBalance(p) \/ ReadAgain(p)
    PROVE  GuildInv'
<1>1. GuildVaultInv /\ PipelineTypeOK
    BY DEF GuildInv
<1>2. stage[p] # 0 /\ AgentOf(p) \in GuildAgents /\ CostOf(p) \in Nat
    BY <1>1, StagesHaveAgents DEF ReadBalance, ReadAgain, At
<1>3. \A readable \in BOOLEAN : get_balance(AgentOf(p), readable) \in Nat
    BY <1>1, <1>2 DEF get_balance, GuildVaultInv, VaultTypeOK
<1>4. short' = short \/ \E n \in Nat : short' = [short EXCEPT ![p] = n]
    <2>1. CASE ReadAgain(p)
        BY <2>1 DEF ReadAgain
    <2>2. CASE ReadBalance(p)
        <3> DEFINE balance(readable) == get_balance(AgentOf(p), readable)
        <3>0. PICK readable \in BOOLEAN :
                 IF balance(readable) < CostOf(p)
                 THEN short' = [short EXCEPT ![p] = CostOf(p) - balance(readable)]
                 ELSE short' = short
            BY <2>2 DEF ReadBalance
        <3>1. PICK read \in Nat :
                 IF read < CostOf(p)
                 THEN short' = [short EXCEPT ![p] = CostOf(p) - read]
                 ELSE short' = short
            BY <1>3, <3>0
        <3>2. CASE read < CostOf(p)
            <4>1. CostOf(p) - read \in Nat
                BY <1>2, <3>2
            <4>2. QED
                BY <3>1, <3>2, <4>1
        <3>3. QED
            BY <3>1, <3>2
    <2>3. QED
        BY <2>1, <2>2
<1>5. /\ Counted(paidFor, paidFor') /\ Counted(guessed, guessed')
      /\ Counted(begun, begun') /\ UNCHANGED guildVars
      /\ \/ stage' = stage
         \/ stage' = [stage EXCEPT ![p] = 0]
      /\ \/ call' = call
         \/ \E what \in {"read", "top-up", "read again", "spend", "spend unread"} :
               call' = [call EXCEPT ![p] = what]
    BY DEF ReadBalance, ReadAgain, Pays, Goes, Raises, Counted
<1>6. 0 \in 0..Len(Stages)
    BY <1>1, StagesHaveAgents
<1>7. PipelineTypeOK'
    BY <1>1, <1>4, <1>5, <1>6, PipelineMoves
<1>8. QED
    BY <1>1, <1>5, <1>7, VaultStays DEF GuildInv

LEMMA TopUpRequestAdds ==
    ASSUME GuildInv, NEW p \in Pipelines,
           request_topup(p)
    PROVE  GuildInv'
<1>1. GuildVaultInv /\ PipelineTypeOK
    BY DEF GuildInv
<1>2. stage[p] # 0 /\ AgentOf(p) \in GuildAgents /\ short[p] \in Nat
    BY <1>1, StagesHaveAgents DEF request_topup, At, PipelineTypeOK
<1>3. requestTopUp(AgentOf(p), short[p]) \/ UNCHANGED guildVars
    BY DEF request_topup, Sent
<1>4. GuildVaultInv'
    BY <1>1, <1>2, <1>3, TopUpAdds, VaultStays
<1>5. /\ Counted(paidFor, paidFor') /\ Counted(guessed, guessed')
      /\ Counted(begun, begun') /\ short' = short
      /\ \/ stage' = stage
         \/ stage' = [stage EXCEPT ![p] = 0]
      /\ call' = call \/ call' = [call EXCEPT ![p] = "read again"]
    BY DEF request_topup, Goes, Raises, Counted
<1>6. 0 \in 0..Len(Stages)
    BY <1>1, StagesHaveAgents
<1>7. PipelineTypeOK'
    BY <1>1, <1>5, <1>6, PipelineMoves
<1>8. QED
    BY <1>4, <1>7 DEF GuildInv

LEMMA SpendCallAdds ==
    ASSUME GuildInv, NEW p \in Pipelines,
           spend_credits(p)
    PROVE  GuildInv'
<1>1. GuildVaultInv /\ PipelineTypeOK
    BY DEF GuildInv
<1>2. /\ stage[p] \in 1..Len(Stages) /\ Len(Stages) \in Nat
      /\ AgentOf(p) \in GuildAgents /\ CostOf(p) \in Nat
    BY <1>1, StagesHaveAgents DEF spend_credits, At
<1>3. spend(AgentOf(p), CostOf(p)) \/ UNCHANGED guildVars
    BY DEF spend_credits, Sent
<1>4. GuildVaultInv'
    BY <1>1, <1>2, <1>3, SpendAdds, VaultStays
<1>5. stage[p] < Len(Stages) => /\ stage[p] + 1 \in 0..Len(Stages)
                                /\ Stages[stage[p] + 1] \in GuildAgents
    BY <1>1, <1>2, StagesHaveAgents
<1>6. /\ short' = short
      /\ \/ paidFor' = paidFor
         \/ paidFor' = [paidFor EXCEPT ![AgentOf(p)] = @ + 1]
      /\ \/ guessed' = guessed
         \/ guessed' = [guessed EXCEPT ![AgentOf(p)] = @ + 1]
      /\ \/ /\ stage[p] < Len(Stages)
            /\ stage' = [stage EXCEPT ![p] = stage[p] + 1]
            /\ call' = [call EXCEPT ![p] = "read"]
            /\ begun' = [begun EXCEPT ![Stages[stage[p] + 1]] = @ + 1]
         \/ /\ stage' = [stage EXCEPT ![p] = 0]
            /\ call' = call /\ begun' = begun
    BY DEF spend_credits, GoesThrough, Raises, Begin
<1>7. /\ Counted(paidFor, paidFor') /\ Counted(guessed, guessed')
      /\ Counted(begun, begun')
    BY <1>2, <1>5, <1>6 DEF Counted
<1>8. 0 \in 0..Len(Stages)
    BY <1>2
<1>9. PipelineTypeOK'
    BY <1>1, <1>2, <1>5, <1>6, <1>7, <1>8, PipelineMoves
<1>10. QED
    BY <1>4, <1>9 DEF GuildInv

LEMMA GuildStarts == GuildInit => GuildInv
<1> SUFFICES ASSUME GuildInit PROVE GuildInv
    OBVIOUS
<1>1. 0 \in 0..Len(Stages)
    BY PipelineParameters
<1>2. PipelineTypeOK
    BY <1>1 DEF GuildInit, PipelineTypeOK
<1>3. QED
    BY <1>2, VaultStarts DEF GuildInit, GuildInv

LEMMA GuildMoves == GuildInv /\ [GuildNext]_guildSystemVars => GuildInv'
<1> SUFFICES ASSUME GuildInv, [GuildNext]_guildSystemVars PROVE GuildInv'
    OBVIOUS
<1>1. CASE VaultCall
    BY <1>1, VaultCallAdds
<1>2. ASSUME NEW p \in Pipelines,
             \/ Run(p) \/ ReadBalance(p) \/ request_topup(p) \/ ReadAgain(p)
             \/ spend_credits(p)
      PROVE  GuildInv'
    BY <1>2, RunAdds, ReadAdds, TopUpRequestAdds, SpendCallAdds
<1>3. CASE UNCHANGED guildSystemVars
    <2>1. UNCHANGED guildVars /\ UNCHANGED pipelineVars
        BY <1>3 DEF guildSystemVars
    <2>2. PipelineTypeOK'
        BY <2>1 DEF GuildInv, pipelineVars, PipelineTypeOK
    <2>3. QED
        BY <2>1, <2>2, VaultStays DEF GuildInv
<1>4. QED
    BY <1>1, <1>2, <1>3 DEF GuildNext

\* The guild, with any agents, stages, costs and pipelines: every credit the
\* admin granted is in one place (CreditVault.sol:61-148).
THEOREM GuildCreditsAddUp == GuildSpec => []CreditsAddUp
<1>1. GuildInit => GuildInv
    BY GuildStarts
<1>2. GuildInv /\ [GuildNext]_guildSystemVars => GuildInv'
    BY GuildMoves
<1>3. GuildInv => CreditsAddUp
    BY DEF GuildInv, GuildVaultInv
<1>4. QED
    BY <1>1, <1>2, <1>3, PTL DEF GuildSpec

-----------------------------------------------------------------------------
(* The guild's pipeline: every stage that went through was paid for        *)

\* The orchestrator is one process, and nobody else calls the vault for the
\* agents of its stages.
OrchestratorAlone ==
    /\ \E p : Pipelines = {p}
    /\ \A n \in 1..Len(Stages) : Stages[n] \notin Others

\* What the stage that runs may still spend.
DueOf(p, a) == IF stage[p] # 0 /\ AgentOf(p) = a THEN Cost[a] ELSE 0

StagePaid(p, a) == /\ paidFor[a] * Cost[a] <= spent[a] + guessed[a] * Cost[a]
                   /\ spent[a] + DueOf(p, a) <= begun[a] * Cost[a]

\* What was read is still there when it is spent.
Ready(p) ==
    stage[p] # 0 /\ call[p] = "spend" => balances[AgentOf(p)] >= CostOf(p)

PaymentsInv ==
    /\ GuildInv
    /\ \A p \in Pipelines :
          Ready(p) /\ \A n \in 1..Len(Stages) : StagePaid(p, Stages[n])

LEMMA OneMore ==
    ASSUME NEW n \in Nat, NEW c \in Nat
    PROVE  n * c \in Nat /\ (n + 1) * c = n * c + c
OBVIOUS

LEMMA PaymentTypes ==
    ASSUME GuildInv, NEW p \in Pipelines,
           NEW a \in GuildAgents
    PROVE  /\ paidFor[a] \in Nat /\ begun[a] \in Nat /\ spent[a] \in Nat
           /\ guessed[a] \in Nat
           /\ balances[a] \in Nat /\ Cost[a] \in Nat /\ DueOf(p, a) \in Nat
BY PipelineParameters DEF GuildInv, GuildVaultInv, VaultTypeOK, PipelineTypeOK, DueOf

\* A step that spends nothing of an agent, and begins and ends no stage but by
\* raising.
LEMMA QuietKeepsPaid ==
    ASSUME PaymentsInv, NEW p \in Pipelines,
           UNCHANGED <<paidFor, guessed, begun>>,
           stage' = stage \/ stage' = [stage EXCEPT ![p] = 0],
           NEW n \in 1..Len(Stages), spent'[Stages[n]] = spent[Stages[n]]
    PROVE  StagePaid(p, Stages[n])'
<1>1. PICK a : a = Stages[n]
    OBVIOUS
<1>2. GuildInv /\ StagePaid(p, a) /\ a \in GuildAgents
    BY <1>1, StagesHaveAgents DEF PaymentsInv, GuildInv
<1>3. PICK due : due = DueOf(p, a)
    OBVIOUS
<1>4. PICK later : later = DueOf(p, a)'
    OBVIOUS
<1>5. stage'[p] = stage[p] \/ stage'[p] = 0
    BY <1>2 DEF GuildInv, PipelineTypeOK
<1>6. later = due \/ later = 0
    BY <1>3, <1>4, <1>5 DEF DueOf, AgentOf
<1>7. due \in Nat /\ spent[a] \in Nat /\ begun[a] \in Nat /\ Cost[a] \in Nat
    BY <1>2, <1>3, PaymentTypes
<1> DEFINE most == begun[a] * Cost[a]
<1>8. most \in Nat
    BY <1>7, OneMore
<1>9. spent[a] + due <= most
    BY <1>2, <1>3 DEF StagePaid
<1> HIDE DEF most
<1>10. spent[a] + later <= most
    BY <1>6, <1>7, <1>8, <1>9
<1>11. /\ paidFor'[a] * Cost[a] <= spent'[a] + guessed'[a] * Cost[a]
       /\ spent'[a] + later <= begun'[a] * Cost[a]
    BY <1>1, <1>2, <1>10 DEF StagePaid, most
<1>12. StagePaid(p, a)'
    BY <1>4, <1>11 DEF StagePaid
<1>13. QED
    BY <1>1, <1>12

\* The agent of a stage has at least what it had, unless it spends.
LEMMA OthersLeaveStages ==
    ASSUME OrchestratorAlone, GuildInv,
           VaultCall, NEW n \in 1..Len(Stages)
    PROVE  /\ balances'[Stages[n]] >= balances[Stages[n]]
           /\ spent'[Stages[n]] = spent[Stages[n]]
<1> DEFINE a == Stages[n]
<1>1. /\ a \in GuildAgents /\ a \notin Others /\ VaultTypeOK /\ Others \subseteq GuildAgents
      /\ balances \in [GuildAgents -> Nat] /\ spent \in [GuildAgents -> Nat]
    BY StagesHaveAgents, PipelineParameters
       DEF OrchestratorAlone, GuildInv, GuildVaultInv, VaultTypeOK
<1> HIDE DEF a
<1>2. ASSUME NEW b \in GuildAgents, NEW amount \in Amounts, GrantTo(b, amount)
      PROVE  balances'[a] >= balances[a] /\ spent'[a] = spent[a]
    <2>1. amount \in Nat /\ balances[a] \in Nat /\ balances[b] \in Nat
        BY <1>1, GuildParameters
    <2>2. /\ balances' = [balances EXCEPT ![b] = balances[b] + amount]
          /\ spent' = spent
        BY <1>2 DEF GrantTo
    <2>3. balances'[a] = IF a = b THEN balances[a] + amount ELSE balances[a]
        BY <1>1, <2>2
    <2>4. QED
        BY <2>1, <2>2, <2>3
<1>3. ASSUME NEW id \in ReservationIds, recycleCredits(id)
      PROVE  balances'[a] >= balances[a] /\ spent'[a] = spent[a]
    BY <1>1, <1>3 DEF recycleCredits
<1>4. ASSUME NEW b \in Others, NEW amount \in Amounts, NEW id \in ReservationIds,
             \/ \E transferable \in BOOLEAN :
                   reserveCredits(b, id, amount, transferable)
             \/ consumeCredits(b, id, amount) \/ releaseCredits(b, id)
             \/ spend(b, amount) \/ requestTopUp(b, amount)
      PROVE  balances'[a] >= balances[a] /\ spent'[a] = spent[a]
    <2>1. a # b
        BY <1>1
    <2>2. /\ balances' = balances \/ \E v : balances' = [balances EXCEPT ![b] = v]
          /\ spent' = spent \/ \E v : spent' = [spent EXCEPT ![b] = v]
        BY <1>4 DEF reserveCredits, consumeCredits, releaseCredits, spend, requestTopUp
    <2>3. balances'[a] = balances[a] /\ spent'[a] = spent[a]
        BY <1>1, <2>1, <2>2
    <2>4. QED
        BY <1>1, <2>3
<1>5. QED
    BY <1>2, <1>3, <1>4 DEF VaultCall, registerAgent, grantCredits, a

LEMMA VaultCallPays ==
    ASSUME OrchestratorAlone, PaymentsInv,
           VaultCall
    PROVE  PaymentsInv'
<1>1. GuildInv /\ GuildInv'
    BY VaultCallAdds DEF PaymentsInv
<1>2. /\ stage' = stage /\ call' = call /\ paidFor' = paidFor /\ begun' = begun
      /\ guessed' = guessed
    BY DEF VaultCall, pipelineVars
<1>3. ASSUME NEW p \in Pipelines
      PROVE  Ready(p)'
    <2>1. Ready(p)
        BY DEF PaymentsInv
    <2>2. SUFFICES ASSUME stage[p] # 0, call[p] = "spend"
                   PROVE  balances'[AgentOf(p)] >= CostOf(p)
        BY <1>2 DEF Ready, AgentOf, CostOf
    <2>3. /\ stage[p] \in 1..Len(Stages) /\ AgentOf(p) = Stages[stage[p]]
          /\ AgentOf(p) \in GuildAgents /\ CostOf(p) \in Nat
        BY <1>1, <2>2, StagesHaveAgents DEF GuildInv, AgentOf
    <2>4. balances[AgentOf(p)] >= CostOf(p)
        BY <2>1, <2>2 DEF Ready
    <2>5. balances'[AgentOf(p)] >= balances[AgentOf(p)]
        BY <1>1, <2>3, OthersLeaveStages
    <2>6. balances[AgentOf(p)] \in Nat /\ balances'[AgentOf(p)] \in Nat
        BY <1>1, <2>3 DEF GuildInv, GuildVaultInv, VaultTypeOK
    <2>7. QED
        BY <2>3, <2>4, <2>5, <2>6
<1>4. ASSUME NEW p \in Pipelines, NEW n \in 1..Len(Stages)
      PROVE  StagePaid(p, Stages[n])'
    <2>1. spent'[Stages[n]] = spent[Stages[n]]
        BY <1>1, OthersLeaveStages
    <2>2. QED
        BY <1>2, <2>1, QuietKeepsPaid
<1>5. QED
    BY <1>1, <1>3, <1>4 DEF PaymentsInv

LEMMA ReadPays ==
    ASSUME OrchestratorAlone, PaymentsInv,
           NEW p \in Pipelines, ReadBalance(p) \/ ReadAgain(p) \/ request_topup(p)
    PROVE  PaymentsInv'
<1>1. GuildInv /\ GuildInv'
    BY ReadAdds, TopUpRequestAdds DEF PaymentsInv
<1>2. Pipelines = {p}
    BY DEF OrchestratorAlone
<1>3. /\ UNCHANGED <<spent, paidFor, guessed, begun>>
      /\ stage' = stage \/ stage' = [stage EXCEPT ![p] = 0]
    BY DEF ReadBalance, ReadAgain, request_topup, Sent, requestTopUp, Pays, Goes, Raises,
           guildVars
<1>4. Ready(p)'
    <2>1. SUFFICES ASSUME stage'[p] # 0, call'[p] = "spend"
                   PROVE  balances'[AgentOf(p)'] >= CostOf(p)'
        BY DEF Ready
    <2>2. stage' = stage
        BY <1>1, <1>3, <2>1 DEF GuildInv, PipelineTypeOK
    <2>3. AgentOf(p)' = AgentOf(p) /\ CostOf(p)' = CostOf(p)
        BY <2>2 DEF AgentOf, CostOf
    <2>4. /\ AgentOf(p) \in GuildAgents /\ CostOf(p) \in Nat
          /\ balances[AgentOf(p)] \in Nat
        BY <1>1, <2>1, <2>2, StagesHaveAgents DEF GuildInv, GuildVaultInv, VaultTypeOK
    <2>5. CASE ReadBalance(p) \/ ReadAgain(p)
        <3>1. PICK readable \in BOOLEAN :
                 /\ balances' = balances
                 /\ IF get_balance(AgentOf(p), readable) < CostOf(p)
                    THEN Goes(p, "top-up") \/ Raises(p)
                    ELSE Pays(p, readable)
            BY <2>5 DEF ReadBalance, ReadAgain, guildVars
        <3>2. ~(get_balance(AgentOf(p), readable) < CostOf(p))
            BY <1>1, <2>1, <3>1 DEF Goes, Raises, GuildInv, PipelineTypeOK
        <3>3. readable
            BY <1>1, <2>1, <3>1, <3>2 DEF Pays, Goes, GuildInv, PipelineTypeOK
        <3>4. ~(balances[AgentOf(p)] < CostOf(p))
            BY <3>2, <3>3 DEF get_balance
        <3>5. QED
            BY <2>3, <2>4, <3>1, <3>4
    <2>6. CASE request_topup(p)
        <3>1. call[p] = "top-up" /\ (Goes(p, "read again") \/ Raises(p))
            BY <2>6 DEF request_topup, At
        <3>2. FALSE
            BY <1>1, <2>1, <3>1 DEF Goes, Raises, GuildInv, PipelineTypeOK
        <3>3. QED
            BY <3>2
    <2>7. QED
        BY <2>5, <2>6
<1>5. ASSUME NEW n \in 1..Len(Stages)
      PROVE  StagePaid(p, Stages[n])'
    BY <1>3, QuietKeepsPaid
<1>6. QED
    BY <1>1, <1>2, <1>4, <1>5 DEF PaymentsInv

\* A stage that begins may spend its cost once.
LEMMA BeginPays ==
    ASSUME GuildInv, NEW p \in Pipelines,
           NEW a \in GuildAgents, NEW b \in GuildAgents,
           paidFor'[b] * Cost[b] <= spent'[b] + guessed'[b] * Cost[b],
           spent'[b] \in Nat,
           spent'[b] <= begun[b] * Cost[b],
           begun' = [begun EXCEPT ![a] = @ + 1],
           stage'[p] # 0, AgentOf(p)' = a
    PROVE  StagePaid(p, b)'
<1>1. Cost[b] \in Nat /\ begun[b] \in Nat
    BY PaymentTypes
<1>2. PICK due : due = DueOf(p, b)'
    OBVIOUS
<1>3. due = IF a = b THEN Cost[b] ELSE 0
    BY <1>2 DEF DueOf
<1>4. begun'[b] = IF a = b THEN begun[b] + 1 ELSE begun[b]
    BY DEF GuildInv, PipelineTypeOK
<1> DEFINE most == begun[b] * Cost[b]
<1>5. most \in Nat /\ (begun[b] + 1) * Cost[b] = most + Cost[b]
    BY <1>1, OneMore
<1>6. spent'[b] <= most
    OBVIOUS
<1> HIDE DEF most
<1>7. begun'[b] * Cost[b] = IF a = b THEN most + Cost[b] ELSE most
    BY <1>4, <1>5 DEF most
<1>8. spent'[b] + due <= begun'[b] * Cost[b]
    BY <1>1, <1>3, <1>5, <1>6, <1>7
<1>9. QED
    BY <1>2, <1>8 DEF StagePaid

LEMMA RunPays ==
    ASSUME OrchestratorAlone, PaymentsInv,
           NEW p \in Pipelines, Run(p)
    PROVE  PaymentsInv'
<1>1. GuildInv /\ GuildInv'
    BY RunAdds DEF PaymentsInv
<1>2. Pipelines = {p}
    BY DEF OrchestratorAlone
<1>3. /\ stage[p] = 0 /\ stage'[p] = 1 /\ call'[p] = "read"
      /\ begun' = [begun EXCEPT ![Stages[1]] = @ + 1]
      /\ spent' = spent /\ paidFor' = paidFor /\ guessed' = guessed
    BY <1>1 DEF Run, Begin, guildVars, GuildInv, PipelineTypeOK
<1>4. Stages[1] \in GuildAgents /\ AgentOf(p)' = Stages[1]
    BY <1>1, <1>3, StagesHaveAgents DEF GuildInv, AgentOf
<1>5. ASSUME NEW n \in 1..Len(Stages)
      PROVE  StagePaid(p, Stages[n])'
    <2>1. PICK b \in GuildAgents : b = Stages[n]
        BY <1>1, StagesHaveAgents DEF GuildInv
    <2>2. PICK a \in GuildAgents : a = Stages[1]
        BY <1>4
    <2>3. StagePaid(p, b)
        BY <2>1 DEF PaymentsInv
    <2>4. DueOf(p, b) = 0 /\ spent[b] \in Nat
        BY <1>1, <1>3, PaymentTypes DEF DueOf
    <2>5. spent[b] + 0 = spent[b]
        BY <2>4
    <2>6. spent[b] <= begun[b] * Cost[b]
        BY <2>3, <2>4, <2>5, Zenon DEF StagePaid
    <2>7. paidFor[b] * Cost[b] <= spent[b] + guessed[b] * Cost[b]
        BY <2>3 DEF StagePaid
    <2>8. /\ paidFor'[b] * Cost[b] <= spent'[b] + guessed'[b] * Cost[b]
          /\ spent'[b] \in Nat
          /\ spent'[b] <= begun[b] * Cost[b]
        BY <1>3, <2>4, <2>6, <2>7, Zenon
    <2>9. /\ begun' = [begun EXCEPT ![a] = @ + 1]
          /\ stage'[p] # 0 /\ AgentOf(p)' = a
        BY <1>3, <1>4, <2>2
    <2>10. StagePaid(p, b)'
        BY <1>1, <2>8, <2>9, BeginPays
    <2>11. QED
        BY <2>1, <2>10
<1>6. Ready(p)'
    BY <1>3 DEF Ready
<1>7. QED
    BY <1>1, <1>2, <1>5, <1>6 DEF PaymentsInv

\* One count or balance of the agent a has grown by n.
Grown(f, g, a, n) ==
    \A b \in GuildAgents : g[b] = f[b] + (IF b = a THEN n ELSE 0)

LEMMA Grows ==
    ASSUME NEW f \in [GuildAgents -> Nat], NEW g, NEW a \in GuildAgents, NEW n \in Nat,
           (n = 0 /\ g = f) \/ g = [f EXCEPT ![a] = @ + n]
    PROVE  Grown(f, g, a, n)
<1>1. CASE n = 0 /\ g = f
    BY <1>1 DEF Grown
<1>2. CASE g = [f EXCEPT ![a] = @ + n]
    BY <1>2 DEF Grown
<1>3. QED
    BY <1>1, <1>2

\* A payment that went through took the cost, unless the balance could not be
\* read; one whose receipt never came may have.
LEMMA SpendTakes ==
    ASSUME PaymentsInv, NEW p \in Pipelines,
           spend_credits(p), NEW a \in GuildAgents, a = AgentOf(p)
    PROVE  \E took \in {0, Cost[a]}, went \in {0, 1}, unread \in {0, 1} :
              /\ Grown(spent, spent', a, took)
              /\ Grown(paidFor, paidFor', a, went)
              /\ Grown(guessed, guessed', a, unread)
              /\ took = Cost[a] \/ went = 0 \/ unread = 1
<1>1. GuildInv /\ Ready(p)
    BY DEF PaymentsInv
<1>2. /\ spent \in [GuildAgents -> Nat] /\ paidFor \in [GuildAgents -> Nat]
      /\ guessed \in [GuildAgents -> Nat] /\ balances[a] \in Nat
    BY <1>1 DEF GuildInv, GuildVaultInv, VaultTypeOK, PipelineTypeOK
<1>3. PICK c \in Nat : c = Cost[a] /\ CostOf(p) = c
    BY <1>1, PaymentTypes DEF CostOf
<1>4. PICK receipt \in BOOLEAN :
          /\ Sent(MaySpend(a, c), spend(a, c), receipt)
          /\ IF receipt THEN GoesThrough(p) ELSE UNCHANGED <<paidFor, guessed>>
    BY <1>3 DEF spend_credits
<1>5. \E took \in {0, c} :
          /\ Grown(spent, spent', a, took)
          /\ took = c \/ (UNCHANGED guildVars /\ (receipt => ~MaySpend(a, c)))
    <2>1. CASE spend(a, c)
        <3>1. spent' = [spent EXCEPT ![a] = @ + c]
            BY <2>1 DEF spend
        <3>2. Grown(spent, spent', a, c)
            BY <1>2, <3>1, Grows
        <3>3. QED
            BY <3>2
    <2>2. CASE UNCHANGED guildVars /\ (receipt => ~MaySpend(a, c))
        <3>1. spent' = spent
            BY <2>2 DEF guildVars
        <3>2. Grown(spent, spent', a, 0)
            BY <1>2, <3>1, Grows
        <3>3. QED
            BY <2>2, <3>2
    <2>3. QED
        BY <1>4, <2>1, <2>2 DEF Sent
<1>6. \E went \in {0, 1}, unread \in {0, 1} :
          /\ Grown(paidFor, paidFor', a, went)
          /\ Grown(guessed, guessed', a, unread)
          /\ went = 0 \/ (receipt /\ (At(p, "spend unread") => unread = 1))
    <2>1. CASE ~receipt
        <3>1. Grown(paidFor, paidFor', a, 0) /\ Grown(guessed, guessed', a, 0)
            BY <1>2, <1>4, <2>1, Grows
        <3>2. QED
            BY <3>1
    <2>2. CASE receipt
        <3>1. /\ paidFor' = [paidFor EXCEPT ![a] = @ + 1]
              /\ guessed' = IF At(p, "spend unread")
                            THEN [guessed EXCEPT ![a] = @ + 1] ELSE guessed
            BY <1>4, <2>2 DEF GoesThrough
        <3>2. Grown(paidFor, paidFor', a, 1)
            BY <1>2, <3>1, Grows
        <3>3. CASE At(p, "spend unread")
            <4>1. Grown(guessed, guessed', a, 1)
                BY <1>2, <3>1, <3>3, Grows
            <4>2. QED
                BY <2>2, <3>2, <4>1
        <3>4. CASE ~At(p, "spend unread")
            <4>1. Grown(guessed, guessed', a, 0)
                BY <1>2, <3>1, <3>4, Grows
            <4>2. QED
                BY <2>2, <3>2, <3>4, <4>1
        <3>5. QED
            BY <3>3, <3>4
    <2>3. QED
        BY <2>1, <2>2
<1>7. PICK took \in {0, c} :
          /\ Grown(spent, spent', a, took)
          /\ took = c \/ (UNCHANGED guildVars /\ (receipt => ~MaySpend(a, c)))
    BY <1>5
<1>8. PICK went \in {0, 1}, unread \in {0, 1} :
          /\ Grown(paidFor, paidFor', a, went)
          /\ Grown(guessed, guessed', a, unread)
          /\ went = 0 \/ (receipt /\ (At(p, "spend unread") => unread = 1))
    BY <1>6
<1>9. took = c \/ went = 0 \/ unread = 1
    <2>1. SUFFICES ASSUME took # c, went # 0, unread # 1
                   PROVE  FALSE
        OBVIOUS
    <2>2. receipt /\ ~MaySpend(a, c) /\ At(p, "spend")
        BY <1>7, <1>8, <2>1 DEF spend_credits
    <2>3. balances[a] >= c
        BY <1>1, <1>3, <2>2 DEF Ready, At
    <2>4. balances[a] = 0
        BY <1>1, <2>2, <2>3 DEF MaySpend, GuildInv, GuildVaultInv, StrangersHoldNothing
    <2>5. c = 0
        BY <1>2, <1>3, <2>3, <2>4
    <2>6. QED
        BY <1>7, <2>1, <2>5
<1>10. QED
    BY <1>3, <1>7, <1>8, <1>9

LEMMA OneOrNone ==
    ASSUME NEW n \in Nat, NEW w \in {0, 1}, NEW c \in Nat
    PROVE  n * c \in Nat /\ (n + w) * c = n * c + (IF w = 1 THEN c ELSE 0)
<1>1. CASE w = 0
    BY <1>1
<1>2. CASE w = 1
    BY <1>2, OneMore
<1>3. QED
    BY <1>1, <1>2

LEMMA SpendPays ==
    ASSUME OrchestratorAlone, PaymentsInv,
           NEW p \in Pipelines, spend_credits(p)
    PROVE  PaymentsInv'
<1>1. GuildInv /\ GuildInv'
    BY SpendCallAdds DEF PaymentsInv
<1>2. Pipelines = {p}
    BY DEF OrchestratorAlone
<1>3. PICK a \in GuildAgents : a = AgentOf(p)
    BY <1>1, StagesHaveAgents DEF GuildInv, spend_credits, At
<1>4. PICK took \in {0, Cost[a]}, went \in {0, 1}, unread \in {0, 1} :
          /\ Grown(spent, spent', a, took)
          /\ Grown(paidFor, paidFor', a, went)
          /\ Grown(guessed, guessed', a, unread)
          /\ took = Cost[a] \/ went = 0 \/ unread = 1
    BY <1>3, SpendTakes
<1>5. \/ /\ stage'[p] = 0 /\ begun' = begun
      \/ /\ stage[p] + 1 \in 1..Len(Stages) /\ stage'[p] = stage[p] + 1
         /\ call'[p] = "read"
         /\ begun' = [begun EXCEPT ![Stages[stage[p] + 1]] = @ + 1]
    <2>1. stage[p] \in 1..Len(Stages) /\ Len(Stages) \in Nat
        BY <1>1, StagesHaveAgents DEF GuildInv, spend_credits, At
    <2>2. \/ stage' = [stage EXCEPT ![p] = 0] /\ begun' = begun
          \/ /\ stage[p] < Len(Stages)
             /\ stage' = [stage EXCEPT ![p] = stage[p] + 1]
             /\ call' = [call EXCEPT ![p] = "read"]
             /\ begun' = [begun EXCEPT ![Stages[stage[p] + 1]] = @ + 1]
        BY DEF spend_credits, GoesThrough, Raises, Begin
    <2>3. stage[p] < Len(Stages) => stage[p] + 1 \in 1..Len(Stages)
        BY <2>1
    <2>4. QED
        BY <1>1, <2>2, <2>3 DEF GuildInv, PipelineTypeOK
<1>6. ASSUME NEW n \in 1..Len(Stages)
      PROVE  StagePaid(p, Stages[n])'
    <2>1. PICK b \in GuildAgents : b = Stages[n]
        BY <1>1, StagesHaveAgents DEF GuildInv
    <2>2. StagePaid(p, b)
        BY <2>1 DEF PaymentsInv
    <2>3. PICK d \in Nat : d = Cost[b]
        BY <1>1, PaymentTypes
    <2>4. /\ paidFor[b] \in Nat /\ spent[b] \in Nat /\ begun[b] \in Nat
          /\ guessed[b] \in Nat
        BY <1>1, PaymentTypes
    <2> DEFINE due == IF b = a THEN d ELSE 0
               paid == paidFor[b] * d
               free == guessed[b] * d
               most == begun[b] * d
               paidLater == paidFor'[b] * d
               freeLater == guessed'[b] * d
    <2>5. DueOf(p, b) = due
        BY <1>3, <2>3 DEF DueOf, spend_credits, At
    <2>6. paid \in Nat /\ free \in Nat /\ most \in Nat
        BY <2>3, <2>4, OneMore
    <2>7. paid <= spent[b] + free /\ spent[b] + due <= most
        BY <2>2, <2>3, <2>5, Zenon DEF StagePaid
    <2>8. /\ spent'[b] \in Nat /\ spent'[b] <= most
          /\ paidLater <= spent'[b] + freeLater
        <3>1. CASE b # a
            <4>1. /\ spent'[b] = spent[b] /\ paidFor'[b] = paidFor[b]
                  /\ guessed'[b] = guessed[b]
                BY <1>4, <2>4, <3>1 DEF Grown
            <4>2. due = 0 /\ paidLater = paid /\ freeLater = free
                BY <3>1, <4>1
            <4> HIDE DEF paid, free, most, due, paidLater, freeLater
            <4>3. QED
                BY <2>4, <2>6, <2>7, <4>1, <4>2
        <3>2. CASE b = a
            <4>1. /\ spent'[b] = spent[b] + took /\ paidFor'[b] = paidFor[b] + went
                  /\ guessed'[b] = guessed[b] + unread /\ took \in {0, d}
                  /\ took = d \/ went = 0 \/ unread = 1
                BY <1>4, <2>3, <3>2 DEF Grown
            <4>2. /\ paidLater = paid + (IF went = 1 THEN d ELSE 0)
                  /\ freeLater = free + (IF unread = 1 THEN d ELSE 0)
                <5>. DEFINE Longer(m, w) ==
                               (m + w) * d = m * d + (IF w = 1 THEN d ELSE 0)
                <5>0. \A m \in Nat, w \in {0, 1} : Longer(m, w)
                    BY OneOrNone
                <5> HIDE DEF Longer
                <5>1. Longer(paidFor[b], went)
                    BY <2>4, <5>0
                <5>2. Longer(guessed[b], unread)
                    BY <2>4, <5>0
                <5> USE DEF Longer
                <5>3. QED
                    BY <4>1, <5>1, <5>2
            <4>3. due = d
                BY <3>2
            <4>4. PICK more \in {0, d} : more = IF went = 1 THEN d ELSE 0
                OBVIOUS
            <4>5. PICK given \in {0, d} : given = IF unread = 1 THEN d ELSE 0
                OBVIOUS
            <4> HIDE DEF paid, free, most, due, paidLater, freeLater
            <4>6. more = 0 \/ took = d \/ given = d
                BY <4>1, <4>4, <4>5
            <4>7. paidLater = paid + more /\ freeLater = free + given
                BY <4>2, <4>4, <4>5
            <4>8. PICK old \in Nat : old = spent[b] /\ spent'[b] = old + took
                BY <2>4, <4>1
            <4>9. took \in Nat /\ took <= d /\ paid <= old + free /\ old + d <= most
                BY <2>7, <4>1, <4>3, <4>8
            <4>10. old + took \in Nat /\ old + took <= most
                BY <2>6, <4>8, <4>9
            <4>11. more \in Nat /\ given \in Nat /\ more <= took + given
                BY <4>1, <4>6, <4>9
            <4>12. paid + more <= old + took + (free + given)
                BY <2>6, <4>8, <4>9, <4>11
            <4>13. QED
                BY <4>7, <4>8, <4>10, <4>12
        <3>3. QED
            BY <3>1, <3>2
    <2>9. CASE stage'[p] = 0 /\ begun' = begun
        <3>1. DueOf(p, b)' = 0
            BY <2>9 DEF DueOf
        <3>2. spent'[b] + 0 = spent'[b] /\ begun'[b] * d = most
            BY <2>8, <2>9
        <3>3. spent'[b] + DueOf(p, b)' <= begun'[b] * d
            BY <2>8, <3>1, <3>2, Zenon
        <3>4. StagePaid(p, b)'
            BY <2>3, <2>8, <3>3, Zenon DEF StagePaid
        <3>5. QED
            BY <2>1, <3>4
    <2>10. CASE /\ stage[p] + 1 \in 1..Len(Stages)
                /\ stage'[p] = stage[p] + 1
                /\ begun' = [begun EXCEPT ![Stages[stage[p] + 1]] = @ + 1]
        <3>1. PICK e \in GuildAgents : e = Stages[stage[p] + 1]
            BY <1>1, <2>10, StagesHaveAgents DEF GuildInv
        <3>2. stage[p] \in Nat
            <4>1. stage[p] \in 1..Len(Stages) /\ Len(Stages) \in Nat
                BY <1>1, StagesHaveAgents DEF GuildInv, spend_credits, At
            <4>2. QED
                BY <4>1
        <3>3. stage'[p] # 0 /\ AgentOf(p)' = e
            BY <2>10, <3>1, <3>2 DEF AgentOf
        <3>4. begun' = [begun EXCEPT ![e] = @ + 1]
            BY <2>10, <3>1
        <3>5. /\ paidFor'[b] * Cost[b] <= spent'[b] + guessed'[b] * Cost[b]
              /\ spent'[b] \in Nat /\ spent'[b] <= begun[b] * Cost[b]
            BY <2>3, <2>8, Zenon
        <3>6. StagePaid(p, b)'
            BY <1>1, <3>3, <3>4, <3>5, BeginPays
        <3>7. QED
            BY <2>1, <3>6
    <2>11. QED
        BY <1>5, <2>9, <2>10
<1>7. Ready(p)'
    BY <1>5 DEF Ready
<1>8. QED
    BY <1>1, <1>2, <1>6, <1>7 DEF PaymentsInv

LEMMA PaymentsMove ==
    OrchestratorAlone /\ PaymentsInv /\ [GuildNext]_guildSystemVars
        => PaymentsInv'
<1> SUFFICES ASSUME OrchestratorAlone,
                    PaymentsInv, [GuildNext]_guildSystemVars
             PROVE  PaymentsInv'
    OBVIOUS
<1>1. CASE VaultCall
    BY <1>1, VaultCallPays
<1>2. ASSUME NEW p \in Pipelines,
             \/ Run(p) \/ ReadBalance(p) \/ request_topup(p) \/ ReadAgain(p)
             \/ spend_credits(p)
      PROVE  PaymentsInv'
    BY <1>2, RunPays, ReadPays, SpendPays
<1>3. CASE UNCHANGED guildSystemVars
    <2>1. GuildInv'
        BY <1>3, GuildMoves DEF PaymentsInv
    <2>2. UNCHANGED guildVars /\ UNCHANGED pipelineVars
        BY <1>3 DEF guildSystemVars
    <2>3. QED
        BY <2>1, <2>2 DEF PaymentsInv, Ready, StagePaid, DueOf, AgentOf, CostOf,
                          guildVars, pipelineVars
<1>4. QED
    BY <1>1, <1>2, <1>3 DEF GuildNext

\* The guild, with any stages, costs and amounts, while one orchestrator runs
\* and nobody else spends for its agents: no more stages go through unpaid than
\* had a balance that could not be read, and none is paid for twice, whatever
\* the admin and others do in between, whichever reads fail and whichever
\* receipts are lost (base_agent.py:45-89).
THEOREM GuildStagesArePaid ==
    ASSUME OrchestratorAlone
    PROVE  GuildSpec => []StagesArePaid
<1>1. GuildInit => PaymentsInv
    <2> SUFFICES ASSUME GuildInit PROVE PaymentsInv
        OBVIOUS
    <2>1. GuildInv
        BY GuildStarts
    <2>2. ASSUME NEW p \in Pipelines PROVE Ready(p)
        BY DEF GuildInit, Ready
    <2>3. ASSUME NEW p \in Pipelines, NEW n \in 1..Len(Stages)
          PROVE  StagePaid(p, Stages[n])
        <3>1. Stages[n] \in GuildAgents
            BY <2>1, StagesHaveAgents DEF GuildInv
        <3>2. /\ paidFor[Stages[n]] = 0 /\ spent[Stages[n]] = 0
              /\ begun[Stages[n]] = 0 /\ DueOf(p, Stages[n]) = 0
              /\ guessed[Stages[n]] = 0
              /\ Cost[Stages[n]] \in Nat
            BY <2>1, <3>1, PaymentTypes DEF GuildInit, VaultInit, DueOf
        <3>3. QED
            BY <3>2 DEF StagePaid
    <2>4. QED
        BY <2>1, <2>2, <2>3 DEF PaymentsInv
<1>2. PaymentsInv /\ [GuildNext]_guildSystemVars => PaymentsInv'
    BY PaymentsMove
<1>3. PaymentsInv => StagesArePaid
    <2> SUFFICES ASSUME PaymentsInv, NEW n \in 1..Len(Stages)
                 PROVE  /\ paidFor[Stages[n]] * Cost[Stages[n]]
                              <= spent[Stages[n]] + guessed[Stages[n]] * Cost[Stages[n]]
                        /\ spent[Stages[n]] <= begun[Stages[n]] * Cost[Stages[n]]
        BY DEF StagesArePaid
    <2>1. PICK p \in Pipelines : TRUE
        BY DEF OrchestratorAlone
    <2>2. StagePaid(p, Stages[n]) /\ GuildInv
        BY DEF PaymentsInv
    <2>3. Stages[n] \in GuildAgents
        BY <2>2, StagesHaveAgents DEF GuildInv
    <2>4. /\ spent[Stages[n]] \in Nat /\ DueOf(p, Stages[n]) \in Nat
          /\ begun[Stages[n]] \in Nat /\ Cost[Stages[n]] \in Nat
        BY <2>2, <2>3, PaymentTypes
    <2> DEFINE most == begun[Stages[n]] * Cost[Stages[n]]
    <2>5. most \in Nat /\ spent[Stages[n]] + DueOf(p, Stages[n]) <= most
        BY <2>2, <2>4, OneMore DEF StagePaid
    <2> HIDE DEF most
    <2>6. spent[Stages[n]] <= most
        BY <2>4, <2>5
    <2>7. QED
        BY <2>2, <2>6 DEF StagePaid, most
<1>4. QED
    BY <1>1, <1>2, <1>3, PTL DEF GuildSpec

-----------------------------------------------------------------------------
(* The CRE workflow                                                        *)

\* What the set of the callers remembers is what they settled.
WindowInv ==
    /\ settled \in [Candidates -> Nat] /\ untracked \in [Candidates -> Nat]
    /\ \A c \in Candidates :
          settled[c] <= untracked[c] + (IF c \in previousExecutions THEN 1 ELSE 0)

LEMMA UntrackedKeeps ==
    ASSUME WindowInv, NEW c \in Candidates, SettleUntracked(c)
    PROVE  WindowInv'
<1>1. settled' \in [Candidates -> Nat] /\ untracked' \in [Candidates -> Nat]
    BY DEF WindowInv, SettleUntracked
<1>2. ASSUME NEW d \in Candidates
      PROVE  settled'[d] <= untracked'[d]
                            + (IF d \in previousExecutions' THEN 1 ELSE 0)
    <2>1. /\ settled[d] \in Nat /\ untracked[d] \in Nat
          /\ settled[d] <= untracked[d] + (IF d \in previousExecutions THEN 1 ELSE 0)
        BY DEF WindowInv
    <2>2. /\ settled'[d] = IF d = c THEN settled[d] + 1 ELSE settled[d]
          /\ untracked'[d] = IF d = c THEN untracked[d] + 1 ELSE untracked[d]
          /\ previousExecutions' = previousExecutions
        BY DEF WindowInv, SettleUntracked
    <2>3. QED
        BY <2>1, <2>2
<1>3. QED
    BY <1>1, <1>2 DEF WindowInv

LEMMA TrackedKeeps ==
    ASSUME WindowInv, NEW c \in Candidates, SettleTracked(c), ~IsDuplicate(c)
    PROVE  WindowInv'
<1>1. settled' \in [Candidates -> Nat] /\ untracked' \in [Candidates -> Nat]
    BY DEF WindowInv, SettleTracked
<1>2. ASSUME NEW d \in Candidates
      PROVE  settled'[d] <= untracked'[d]
                            + (IF d \in previousExecutions' THEN 1 ELSE 0)
    <2>1. /\ settled[d] \in Nat /\ untracked[d] \in Nat
          /\ settled[d] <= untracked[d] + (IF d \in previousExecutions THEN 1 ELSE 0)
        BY DEF WindowInv
    <2>2. /\ settled'[d] = IF d = c THEN settled[d] + 1 ELSE settled[d]
          /\ untracked'[d] = untracked[d]
          /\ previousExecutions' = previousExecutions \cup {c}
        BY DEF WindowInv, SettleTracked
    <2>3. CASE d = c
        <3>1. d \notin previousExecutions /\ d \in previousExecutions'
            BY <2>2, <2>3 DEF IsDuplicate
        <3>2. QED
            BY <2>1, <2>2, <2>3, <3>1
    <2>4. CASE d # c
        BY <2>1, <2>2, <2>4
    <2>5. QED
        BY <2>3, <2>4
<1>3. QED
    BY <1>1, <1>2 DEF WindowInv

\* The harness and the workflow, for any objects, caps, hours and callers: who
\* shares a set of what is settled settles an object once at most beside those
\* that remember nothing (creRunner.ts:96, :248, workflow.ts:162).
THEOREM SettlesOncePerWindow == WorkflowSpec => []SettledOncePerWindow
<1>1. WorkflowInit => WindowInv
    BY DEF WorkflowInit, WindowInv
<1>2. WindowInv /\ [WorkflowNext]_workflowVars => WindowInv'
    <2> SUFFICES ASSUME WindowInv, [WorkflowNext]_workflowVars PROVE WindowInv'
        OBVIOUS
    <2>1. ASSUME UNCHANGED <<previousExecutions, settled, untracked>>
          PROVE  WindowInv'
        BY <2>1 DEF WindowInv
    <2>2. ASSUME NEW c \in Candidates, NEW terms, NEW strategy, NEW config,
                 NEW apiFailure, NEW hasSet \in BOOLEAN,
                 simulateWorkflowExecution(c, terms, strategy, config, apiFailure,
                                           hasSet)
          PROVE  WindowInv'
        <3>1. \/ SettlesNothing
              \/ SettleUntracked(c)
              \/ SettleTracked(c) /\ ~IsDuplicate(c)
            BY <2>2 DEF simulateWorkflowExecution
        <3>2. QED
            BY <2>1, <3>1, UntrackedKeeps, TrackedKeeps DEF SettlesNothing
    <2>3. ASSUME NEW config, onRecoveryScanTrigger(config)
          PROVE  WindowInv'
        <3>1. Scheduled \in Candidates
            BY WorkflowAssumption
        <3>2. SettlesNothing \/ SettleUntracked(Scheduled)
            BY <2>3 DEF onRecoveryScanTrigger
        <3>3. QED
            BY <2>1, <3>1, <3>2, UntrackedKeeps DEF SettlesNothing
    <2>4. CASE NewWindow
        BY <2>4 DEF NewWindow, WindowInv
    <2>5. CASE AnHourPasses \/ UNCHANGED workflowVars
        BY <2>1, <2>5 DEF AnHourPasses, workflowVars
    <2>6. QED
        BY <2>2, <2>3, <2>4, <2>5 DEF WorkflowNext
<1>3. WindowInv => SettledOncePerWindow
    <2> SUFFICES ASSUME WindowInv, NEW c \in Candidates
                 PROVE  settled[c] <= untracked[c] + 1
        BY DEF SettledOncePerWindow
    <2>1. /\ settled[c] \in Nat /\ untracked[c] \in Nat
          /\ settled[c] <= untracked[c] + (IF c \in previousExecutions THEN 1 ELSE 0)
        BY DEF WindowInv
    <2>2. QED
        BY <2>1
<1>4. QED
    BY <1>1, <1>2, <1>3, PTL DEF WorkflowSpec

=============================================================================
