--------------------------- MODULE NansenProfiles ---------------------------
(***************************************************************************)
(* What is known about a counterparty: the proxy before Nansen's API       *)
(* (backend/src/routes/nansen.ts), the client with its two caches          *)
(* (src/integrations/nansen/nansenClient.ts), and the panel that shows a   *)
(* profile (CounterpartyIntelligenceModal).                                *)
(*                                                                         *)
(* A profile is abstracted to whether it is available and the time its     *)
(* oldest part was answered at.  A tick is as long as a request can take   *)
(* that ends.                                                              *)
(***************************************************************************)
EXTENDS Integers

CONSTANTS
    Addresses,
    Ttl,          \* CACHE_TTL_MS and cacheTtlMs, in ticks
    MaxAsks,      \* bound: the requests to the proxy
    LastTick      \* bound: the time

ASSUME ProfileAssumption ==
    Ttl \in Nat \ {0} /\ MaxAsks \in Nat /\ LastTick \in Nat

VARIABLES
    now,
    nansenCache,  \* the proxy's cache: part -> address -> entry
    posted,       \* the client's cache of the proxy's answers
    profiles,     \* its cache of full profiles
    asks,         \* requests of the client to the proxy
    panel         \* the panel with its state

profileVars == <<nansenCache, posted, profiles, asks, panel>>

Asks == 1..MaxAsks
Parts == {"labels", "balance"}
Nobody == "nobody"
Never == 0 - 2 * (LastTick + Ttl)

Unasked == [at |-> "unused"]
Unavailable == [available |-> FALSE, at |-> Never]
AsOf(t) == [available |-> TRUE, at |-> t]
Pending == [available |-> FALSE, at |-> LastTick + 1]

NoEntry == [value |-> Unavailable, until |-> Never]
Until(value, ttl) == [value |-> value, until |-> now + ttl]
IsFresh(entry) == now <= entry.until

\* What has run out is as good as gone.
Kept(entry) == IF now < entry.until THEN entry ELSE NoEntry
Aged(cache) == [key \in DOMAIN cache |-> Kept(cache[key])]

\* Of what is shown only the address counts that it belongs to.
Closed == [address |-> Nobody, effect |-> 0, loading |-> FALSE, of |-> Nobody]

ProfilesInit ==
    /\ nansenCache = [part \in Parts |-> [a \in Addresses |-> NoEntry]]
    /\ posted = [a \in Addresses |-> NoEntry]
    /\ profiles = [a \in Addresses |-> NoEntry]
    /\ asks = [q \in Asks |-> Unasked]
    /\ panel = Closed

IsNext(q) == asks[q] = Unasked /\ \A r \in 1..(q - 1) : asks[r] # Unasked
Done == [at |-> "done"]
InFlight(q) == asks[q] \notin {Unasked, Done}
IsAt(q, kind, place) ==
    InFlight(q) /\ asks[q].kind = kind /\ asks[q].at = place

-----------------------------------------------------------------------------
(* The proxy                                                               *)

\* POST /nansen/profile: both parts at once, each from the cache or from Nansen.
makeNansenRequest(part, a) ==
    LET entry == nansenCache[part][a]
    IN  IF IsFresh(entry) THEN entry.value ELSE Pending

\* Nansen answers with data, which is kept, with "no records", which is not,
\* or not at all: no key, no credits, too many requests, no network.
NansenAnswers(q, part) ==
    LET a == asks[q].about
        Is(result) == asks' = [asks EXCEPT ![q].parts[part] = result]
    IN  /\ IsAt(q, "profile", "proxy") /\ asks[q].parts[part] = Pending
        /\ \/ /\ Is(AsOf(now))
              /\ \/ nansenCache' = [nansenCache EXCEPT ![part][a] = Until(AsOf(now), Ttl)]
                 \/ UNCHANGED nansenCache
           \/ Is(Unavailable) /\ UNCHANGED nansenCache
        /\ UNCHANGED <<posted, profiles, panel>>

IsComplete(q) == \A part \in Parts : asks[q].parts[part] # Pending

\* The profile is available if both parts are, and as old as the older one.
Oldest(parts) ==
    CHOOSE t \in {parts[part].at : part \in Parts} :
        \A part \in Parts : t <= parts[part].at
EitherPart(parts) ==
    IF \E part \in Parts : parts[part].available
    THEN AsOf(Oldest(parts)) ELSE Unavailable
Aggregate(parts) ==
    IF \A part \in Parts : parts[part].available
    THEN AsOf(Oldest(parts)) ELSE Unavailable

-----------------------------------------------------------------------------
(* The client                                                              *)

\* What the client answers without a request: the full profile it has, or the
\* one it makes of the proxy's last answer, which it may keep in turn.
HasAnswer(a) == IsFresh(profiles[a]) \/ IsFresh(posted[a])
Held(a) == IF IsFresh(profiles[a]) THEN profiles[a].value ELSE posted[a].value
Keep(a, profile) ==
    profiles' = IF profile.available
                THEN [profiles EXCEPT ![a] = Until(profile, Ttl)] ELSE profiles
Hold(a) == IF IsFresh(profiles[a]) THEN UNCHANGED profiles
           ELSE Keep(a, posted[a].value)

-----------------------------------------------------------------------------
(* The panel                                                               *)

Shows(a) == [panel EXCEPT !.loading = FALSE, !.of = a]
IsAnyOpen(q) == panel # Closed
IsMounted(q) == panel.effect = q

\* The panel is opened for an address, or told another one: its effect asks
\* for the profile.  What it showed stays until there is an answer.
openPanel(a) ==
    LET opened == [panel EXCEPT !.address = a, !.effect = 0, !.loading = FALSE]
    IN  /\ panel.address # a
        /\ \/ /\ HasAnswer(a) /\ Hold(a)
              /\ panel' = [opened EXCEPT !.of = a]
              /\ UNCHANGED <<posted, asks>>
           \/ \E q \in Asks :
                 /\ ~HasAnswer(a) /\ IsNext(q)
                 /\ asks' = [asks EXCEPT ![q] =
                       [kind |-> "profile", at |-> "proxy", about |-> a,
                        since |-> now,
                        parts |-> [part \in Parts |-> makeNansenRequest(part, a)]]]
                 /\ panel' = [opened EXCEPT !.effect = q, !.loading = TRUE]
                 /\ UNCHANGED <<posted, profiles>>
        /\ UNCHANGED nansenCache

closePanel ==
    /\ panel # Closed /\ panel' = Closed
    /\ UNCHANGED <<nansenCache, posted, profiles, asks>>

\* The answer is kept, and shown by the effect that asked for it.
Finish(q) == asks' = [asks EXCEPT ![q] = Done]
Answer(q) == panel' = IF IsMounted(q) THEN Shows(asks[q].about) ELSE panel

ProfileArrives(q) ==
    LET a == asks[q].about
        profile == Aggregate(asks[q].parts)
    IN  /\ IsAt(q, "profile", "proxy") /\ IsComplete(q)
        /\ posted' = [posted EXCEPT ![a] = Until(profile, Ttl)]
        /\ Keep(a, profile)
        /\ Finish(q) /\ Answer(q)
        /\ UNCHANGED nansenCache

\* Nothing ends a request that its upstream leaves open: the client has no timer
\* here.
IsHung(q) == asks[q].at = "hung"
ProfileHangs(q) ==
    /\ \E place \in {"proxy", "lost"} : IsAt(q, "profile", place)
    /\ asks' = [asks EXCEPT ![q] = [at |-> "hung", kind |-> "profile"]]
    /\ UNCHANGED <<nansenCache, posted, profiles, panel>>

\* The network fails, or the proxy is restarted: nothing is kept.
LoseProfile(q) ==
    /\ \E place \in {"proxy", "lost"} : IsAt(q, "profile", place)
    /\ Finish(q)
    /\ UNCHANGED <<nansenCache, posted, profiles, panel>>
ProfileIsLost(q) ==
    /\ \E place \in {"proxy", "lost"} : IsAt(q, "profile", place)
    /\ Finish(q) /\ Answer(q)
    /\ UNCHANGED <<nansenCache, posted, profiles>>

=============================================================================
