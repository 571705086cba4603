------------------------------ MODULE LivePrices ------------------------------
(***************************************************************************)
(* The server-side live price cache, backend/screener/live_prices.py, with *)
(* the handler that serves it and the trackers that read it.               *)
(*                                                                         *)
(* Everything runs on the event loop; poll and fetch_now await the CLOB    *)
(* between choosing what to ask and storing the answer, so their answers   *)
(* may arrive in any order.  httpx gives each phase of a request (pool,    *)
(* connect, write, read) its 30 s, so one request may take longer than the *)
(* 90 s after which an unviewed game is forgotten.                         *)
(*                                                                         *)
(* Abstractions: a price is the time at which the CLOB quoted it, or None; *)
(* a slug is priced under the sides of its row; the row's own prices, the  *)
(* fallback of game_prices, are None here.                                 *)
(***************************************************************************)
EXTENDS Naturals

CONSTANTS
    Slug,     \* games of the screener
    Side,     \* outcomes of a game: home and away, or home, draw and away
    None,
    WantTtl,  \* WANT_TTL
    MaxAge,   \* max_age of screener_live_price
    Latency,  \* the longest a request takes: the HTTP timeout of every phase
    MaxTime   \* bound on the clock

ASSUME TimingAssumption ==
    WantTtl \in Nat /\ MaxAge \in Nat /\ Latency \in Nat /\ MaxTime \in Nat
ASSUME NoneAssumption == None \notin 0..MaxTime

Time == 0..MaxTime

VARIABLES
    now,      \* the monotonic clock
    listed,   \* external: slugs whose screener row has its tokens
    wanted,   \* _wanted: slug -> time last requested
    prices,   \* _prices: slug -> price of each side
    at,       \* _at: slug -> time last priced
    asking,   \* slugs the poll in flight asked about, {} when there is none
    asked,    \* when that poll began
    fired,    \* the poll job has fired since the clock last moved
    fetches   \* fetch_now calls in flight: <<slug, when it began>>

vars == <<now, listed, wanted, prices, at, asking, asked, fired, fetches>>

Init ==
    /\ now = 0
    /\ listed \in SUBSET Slug
    /\ wanted = << >> /\ prices = << >> /\ at = << >>
    /\ asking = {} /\ asked = 0 /\ fired = FALSE
    /\ fetches = {}

With(f, S, v) == [x \in DOMAIN f \cup S |-> IF x \in S THEN v ELSE f[x]]
Without(f, S) == [x \in DOMAIN f \ S |-> f[x]]

\* cached(slug, max_age)
Fresh(s) == s \in DOMAIN prices /\ now - at[s] <= MaxAge

\* The possible results of fetch_mid_prices asked at time t: one moment of quotation, any
\* sides missing; an HTTP error is the result with every side missing.
Answers(t) == {[d \in Side |-> IF d \in missing THEN None ELSE q] :
                 q \in t..now, missing \in SUBSET Side}

\* fetch_now up to its await: a row without tokens answers {} at once.
StartFetch(s) == fetches' = IF s \in listed THEN fetches \cup {<<s, now>>} ELSE fetches

\* screener_live_price: note the view, then serve the cache or fetch.
View(s) ==
    /\ wanted' = With(wanted, {s}, now)
    /\ IF Fresh(s) THEN UNCHANGED fetches ELSE StartFetch(s)
    /\ UNCHANGED <<now, listed, prices, at, asking, asked, fired>>

\* bottom8.tracker: keep a tied game priced with no browser open; with no home price yet,
\* request and fetch at once.
TrackerView(s) ==
    /\ wanted' = With(wanted, {s}, now)
    /\ IF s \in DOMAIN prices THEN UNCHANGED fetches ELSE StartFetch(s)
    /\ UNCHANGED <<now, listed, prices, at, asking, asked, fired>>

\* fetch_now after its await; several calls that began together may answer apart.
FetchAnswer(f) ==
    /\ f \in fetches
    /\ \E answer \in Answers(f[2]) : prices' = With(prices, {f[1]}, answer)
    /\ at' = With(at, {f[1]}, now)
    /\ fetches' \in {fetches, fetches \ {f}}
    /\ UNCHANGED <<now, listed, wanted, asking, asked, fired>>

Priced == {s \in DOMAIN wanted : now - wanted[s] < WantTtl} \cap listed

\* The poll job fires: poll up to its await.  With no wanted game, or none that has
\* tokens, it returns at once and cleans nothing up.
PollBegin ==
    /\ asking = {} /\ ~ fired
    /\ fired' = TRUE
    /\ asking' = Priced
    /\ asked' = IF Priced = {} THEN 0 ELSE now
    /\ UNCHANGED <<now, listed, wanted, prices, at, fetches>>

Expired == {s \in DOMAIN wanted : now - wanted[s] >= WantTtl}

\* A mutant of PollAnswer: forgotten games keep their price.
PollAnswerKeepingPrices ==
    /\ asking # {}
    /\ \E new \in [asking -> Answers(asked)] :
         prices' = [s \in DOMAIN prices \cup asking |->
                                     IF s \in asking THEN new[s] ELSE prices[s]]
    /\ at' = Without(With(at, asking, now), Expired)
    /\ wanted' = Without(wanted, Expired)
    /\ asking' = {} /\ asked' = 0
    /\ UNCHANGED <<now, listed, fired, fetches>>

\* A mutant of PollAnswer: every cached game is stamped, priced or not.
PollAnswerStampingAll ==
    /\ asking # {}
    /\ \E new \in [asking -> Answers(asked)] :
         prices' = Without([s \in DOMAIN prices \cup asking |->
                              IF s \in asking THEN new[s] ELSE prices[s]], Expired)
    /\ at' = Without(With(at, DOMAIN at \cup asking, now), Expired)
    /\ wanted' = Without(wanted, Expired)
    /\ asking' = {} /\ asked' = 0
    /\ UNCHANGED <<now, listed, fired, fetches>>

\* poll after its await: store the batch, then forget what nobody viewed for WANT_TTL.
PollAnswer ==
    /\ asking # {}
    /\ \E new \in [asking -> Answers(asked)] :
         prices' = Without([s \in DOMAIN prices \cup asking |->
                              IF s \in asking THEN new[s] ELSE prices[s]], Expired)
    /\ at' = Without(With(at, asking, now), Expired)
    /\ wanted' = Without(wanted, Expired)
    /\ asking' = {} /\ asked' = 0
    /\ UNCHANGED <<now, listed, fired, fetches>>

\* The screener cache is rebuilt: games come and go.
Relist ==
    /\ listed' \in SUBSET Slug
    /\ UNCHANGED <<now, wanted, prices, at, asking, asked, fired, fetches>>

\* The poll job fires at every tick unless its last run is still waiting, and no request
\* is in flight for longer than its phases may take together.
AdvanceTime ==
    /\ now < MaxTime
    /\ fired \/ asking # {}
    /\ asking # {} => now < asked + Latency
    /\ \A f \in fetches : now < f[2] + Latency
    /\ now' = now + 1
    /\ fired' = FALSE
    /\ UNCHANGED <<listed, wanted, prices, at, asking, asked, fetches>>

Next ==
    \/ \E s \in Slug : View(s) \/ TrackerView(s)
    \/ \E f \in fetches : FetchAnswer(f)
    \/ PollBegin \/ PollAnswer
    \/ Relist
    \/ AdvanceTime

Spec == Init /\ [][Next]_vars

-----------------------------------------------------------------------------
Quote == Time \cup {None}

TypeOK ==
    /\ now \in Time
    /\ listed \subseteq Slug /\ asking \subseteq Slug
    /\ DOMAIN wanted \subseteq Slug /\ wanted \in [DOMAIN wanted -> 0..now]
    /\ DOMAIN prices \subseteq Slug /\ prices \in [DOMAIN prices -> [Side -> Quote]]
    /\ DOMAIN at = DOMAIN prices /\ at \in [DOMAIN at -> 0..now]
    /\ asked \in 0..now
    /\ fired \in BOOLEAN
    /\ fetches \subseteq Slug \X (0..now)

\* "Forget games nobody has viewed for a while so the maps don't grow forever": the
\* clean-up walks _wanted alone, so a price outside it would never go.  Such a price appears
\* in one way only: a fetch for the game was in flight for WANT_TTL or longer, the game was
\* forgotten meanwhile, and the answer came after that.
OnlyLateFetchesStray ==
    [][\A s \in DOMAIN prices' \ DOMAIN wanted' :
          \/ s \in DOMAIN prices \ DOMAIN wanted
          \/ \E f \in fetches : f[1] = s /\ now - f[2] >= WantTtl]_vars

\* What the endpoint serves from the cache was quoted at most max_age and one request's
\* time ago, however polls and fetches overtake each other.
ServedFresh ==
    \A s \in Slug : Fresh(s) =>
        \A d \in Side : prices[s][d] = None \/ now - prices[s][d] <= MaxAge + Latency

\* game_prices: "Live CLOB midpoint when the game is being priced, otherwise the screener
\* row's cached price".  Its "live" is any cached price, and the job that should "forget
\* games nobody has viewed for a while" stops short of doing so when no game is viewed.
LiveMeansPriced ==
    \A s \in DOMAIN prices :
        (\E d \in Side : prices[s][d] # None)
            => s \in DOMAIN wanted /\ now - wanted[s] <= WantTtl + Latency + 1
=============================================================================
