-------------------------- MODULE LivePricesProofs --------------------------
(***************************************************************************)
(* Proofs about LivePrices, for any games, clock, ages and timeouts.       *)
(***************************************************************************)
EXTENDS LivePrices, TLAPS

\* An answer is typed, and every price in it was quoted after the request.
LEMMA AnswerType ==
    ASSUME now \in Time, NEW t \in 0..now, NEW a \in Answers(t)
    PROVE  /\ a \in [Side -> Quote]
           /\ \A d \in Side : a[d] = None \/ a[d] \in t..now
<1> USE TimingAssumption DEF Time
<1>1. PICK q \in t..now, missing \in SUBSET Side :
        a = [d \in Side |-> IF d \in missing THEN None ELSE q]
  BY DEF Answers
<1>2. q \in 0..MaxTime
  BY <1>1
<1> QED
  BY <1>1, <1>2 DEF Quote

-----------------------------------------------------------------------------
(* The inductive invariant: a request in flight is no older than a request  *)
(* may be; its game was viewed when it began, so that a game forgotten since *)
(* was forgotten WANT_TTL after that or later; a stored price was quoted at  *)
(* most one request's time before it was stored.                            *)

FetchesYoung ==
    \A f \in fetches :
        /\ now <= f[2] + Latency
        /\ f[1] \in DOMAIN wanted => f[2] <= wanted[f[1]]
        /\ f[1] \notin DOMAIN wanted => now - f[2] >= WantTtl

PollYoung ==
    asking # {} => now <= asked + Latency /\ asking \subseteq DOMAIN wanted

StoredFresh ==
    \A s \in DOMAIN prices, d \in Side :
        prices[s][d] = None \/ (prices[s][d] \in 0..now /\ at[s] <= prices[s][d] + Latency)

Young == FetchesYoung /\ PollYoung /\ StoredFresh
Inv == TypeOK /\ Young

LEMMA InitInv == Init => Inv
<1> SUFFICES ASSUME Init PROVE Inv
  OBVIOUS
<1>1. now \in Time /\ asked \in 0..now
  BY TimingAssumption DEF Init, Time
<1>2. DOMAIN wanted = {} /\ DOMAIN prices = {} /\ DOMAIN at = {}
  BY DEF Init
<1>3. /\ wanted \in [DOMAIN wanted -> 0..now]
      /\ prices \in [DOMAIN prices -> [Side -> Quote]]
      /\ at \in [DOMAIN at -> 0..now]
  BY <1>2 DEF Init
<1>4. TypeOK
  BY <1>1, <1>2, <1>3 DEF Init, TypeOK
<1>5. Young
  BY <1>2 DEF Init, Young, FetchesYoung, PollYoung, StoredFresh
<1> QED
  BY <1>4, <1>5 DEF Inv

\* A view: the game is wanted from now on, and perhaps one more request is on its way.
LEMMA ViewInv ==
    ASSUME Inv, NEW s \in Slug,
           wanted' = With(wanted, {s}, now),
           fetches' = fetches \/ fetches' = fetches \cup {<<s, now>>},
           now' = now, listed' = listed, prices' = prices, at' = at, asking' = asking,
           asked' = asked, fired' = fired
    PROVE  Inv'
<1> USE TimingAssumption
<1>0. now \in Nat /\ now \in 0..now
  BY DEF Inv, TypeOK, Time
<1>1. /\ DOMAIN wanted' = DOMAIN wanted \cup {s}
      /\ DOMAIN wanted' \subseteq Slug
      /\ wanted' \in [DOMAIN wanted' -> 0..now]
      /\ wanted'[s] = now
      /\ \A x \in DOMAIN wanted \ {s} : wanted'[x] = wanted[x]
  BY <1>0 DEF Inv, TypeOK, With
<1>2. TypeOK'
  <2>1. fetches' \subseteq Slug \X (0..now)
    BY <1>0 DEF Inv, TypeOK
  <2> QED
    BY <1>1, <2>1 DEF Inv, TypeOK
<1>3. FetchesYoung'
  <2> SUFFICES ASSUME NEW f \in fetches'
               PROVE  /\ now <= f[2] + Latency
                      /\ f[1] \in DOMAIN wanted' => f[2] <= wanted'[f[1]]
                      /\ f[1] \notin DOMAIN wanted' => now - f[2] >= WantTtl
    BY DEF FetchesYoung
  <2>1. CASE f = <<s, now>>
    BY <1>0, <1>1, <2>1
  <2>2. CASE f \in fetches
    <3>1. f[1] \in Slug /\ f[2] \in 0..now
      BY <2>2 DEF Inv, TypeOK
    <3>2. /\ now <= f[2] + Latency
          /\ f[1] \in DOMAIN wanted => f[2] <= wanted[f[1]]
          /\ f[1] \notin DOMAIN wanted => now - f[2] >= WantTtl
      BY <2>2 DEF Inv, Young, FetchesYoung
    <3>3. CASE f[1] = s
      BY <1>0, <1>1, <3>1, <3>2, <3>3
    <3>4. CASE f[1] # s
      BY <1>0, <1>1, <3>1, <3>2, <3>4
    <3> QED
      BY <3>3, <3>4
  <2> QED
    BY <2>1, <2>2
<1>4. PollYoung'
  BY <1>1 DEF Inv, Young, PollYoung
<1>5. StoredFresh'
  BY DEF Inv, Young, StoredFresh
<1> QED
  BY <1>2, <1>3, <1>4, <1>5 DEF Inv, Young

LEMMA FetchAnswerInv == ASSUME Inv, NEW f \in fetches, FetchAnswer(f) PROVE Inv'
<1> USE TimingAssumption
<1>0. now \in Nat /\ now \in 0..now /\ f[1] \in Slug /\ f[2] \in 0..now /\ now \in Time
  BY DEF Inv, TypeOK, Time
<1>1. PICK answer \in Answers(f[2]) : prices' = With(prices, {f[1]}, answer)
  BY DEF FetchAnswer
<1>2. /\ answer \in [Side -> Quote]
      /\ \A d \in Side : answer[d] = None \/ answer[d] \in f[2]..now
  BY <1>0, AnswerType
<1>3. /\ at' = With(at, {f[1]}, now)
      /\ fetches' \subseteq fetches
      /\ now' = now /\ listed' = listed /\ wanted' = wanted /\ asking' = asking
      /\ asked' = asked /\ fired' = fired
  BY DEF FetchAnswer
<1>4. /\ DOMAIN prices' = DOMAIN prices \cup {f[1]}
      /\ DOMAIN prices' \subseteq Slug
      /\ prices' \in [DOMAIN prices' -> [Side -> Quote]]
      /\ prices'[f[1]] = answer
      /\ \A x \in DOMAIN prices \ {f[1]} : prices'[x] = prices[x]
  BY <1>0, <1>1, <1>2 DEF Inv, TypeOK, With
<1>5. /\ DOMAIN at' = DOMAIN at \cup {f[1]}
      /\ at' \in [DOMAIN at' -> 0..now]
      /\ at'[f[1]] = now
      /\ \A x \in DOMAIN at \ {f[1]} : at'[x] = at[x]
  BY <1>0, <1>3 DEF Inv, TypeOK, With
<1>6. TypeOK'
  BY <1>3, <1>4, <1>5 DEF Inv, TypeOK
<1>7. FetchesYoung' /\ PollYoung'
  BY <1>3 DEF Inv, Young, FetchesYoung, PollYoung
<1>8. StoredFresh'
  <2> SUFFICES ASSUME NEW s \in DOMAIN prices', NEW d \in Side, prices'[s][d] # None
               PROVE  prices'[s][d] \in 0..now /\ at'[s] <= prices'[s][d] + Latency
    BY <1>3 DEF StoredFresh
  <2>1. CASE s = f[1]
    <3>1. answer[d] \in f[2]..now /\ prices'[s][d] = answer[d] /\ at'[s] = now
      BY <2>1, <1>2, <1>4, <1>5
    <3>2. now <= f[2] + Latency
      BY DEF Inv, Young, FetchesYoung
    <3> QED
      BY <1>0, <3>1, <3>2
  <2>2. CASE s # f[1]
    BY <2>2, <1>4, <1>5 DEF Inv, Young, StoredFresh, TypeOK
  <2> QED
    BY <2>1, <2>2
<1> QED
  BY <1>6, <1>7, <1>8 DEF Inv, Young

LEMMA PollBeginInv == ASSUME Inv, PollBegin PROVE Inv'
<1> USE TimingAssumption
<1>1. /\ Priced \subseteq DOMAIN wanted /\ Priced \subseteq Slug /\ now \in Nat
      /\ UNCHANGED <<now, listed, wanted, prices, at, fetches>>
      /\ fired' = TRUE /\ asking' = Priced
      /\ asked' = IF Priced = {} THEN 0 ELSE now
  BY DEF PollBegin, Priced, Inv, TypeOK, Time
<1>2. TypeOK'
  BY <1>1 DEF Inv, TypeOK
<1>3. FetchesYoung' /\ StoredFresh'
  BY <1>1 DEF Inv, Young, FetchesYoung, StoredFresh
<1>4. PollYoung'
  BY <1>1 DEF PollYoung
<1> QED
  BY <1>2, <1>3, <1>4 DEF Inv, Young

\* A game that is forgotten while it is being fetched was not viewed since the fetch
\* began, which is WANT_TTL ago at least.
LEMMA ForgottenWhileFetched ==
    ASSUME Inv, NEW f \in fetches, f[1] \in Expired
    PROVE  now - f[2] >= WantTtl
<1>1. /\ f[1] \in DOMAIN wanted /\ now - wanted[f[1]] >= WantTtl
  BY DEF Expired
<1>2. /\ f[2] \in 0..now /\ now \in Nat
      /\ f[2] <= wanted[f[1]] /\ wanted[f[1]] \in 0..now
  BY <1>1 DEF Inv, Young, FetchesYoung, TypeOK, Time
<1> QED
  BY <1>1, <1>2, TimingAssumption

LEMMA PollAnswerInv == ASSUME Inv, PollAnswer PROVE Inv'
<1> USE TimingAssumption
<1>0. /\ now \in Nat /\ now \in 0..now /\ now \in Time /\ asked \in 0..now
      /\ asking \subseteq Slug /\ asking # {}
      /\ now <= asked + Latency /\ asking \subseteq DOMAIN wanted
  BY DEF Inv, TypeOK, Time, PollAnswer, Young, PollYoung
<1>1. PICK new \in [asking -> Answers(asked)] :
        prices' = Without([s \in DOMAIN prices \cup asking |->
                              IF s \in asking THEN new[s] ELSE prices[s]], Expired)
  BY DEF PollAnswer
<1>2. \A s \in asking : /\ new[s] \in [Side -> Quote]
                        /\ \A d \in Side : new[s][d] = None \/ new[s][d] \in asked..now
  BY <1>0, AnswerType
<1>3. /\ at' = Without(With(at, asking, now), Expired)
      /\ wanted' = Without(wanted, Expired)
      /\ asking' = {} /\ asked' = 0
      /\ now' = now /\ listed' = listed /\ fired' = fired /\ fetches' = fetches
  BY DEF PollAnswer
<1>4. /\ DOMAIN prices' = (DOMAIN prices \cup asking) \ Expired
      /\ \A s \in DOMAIN prices' : prices'[s] = IF s \in asking THEN new[s] ELSE prices[s]
      /\ prices' = [s \in DOMAIN prices' |-> prices'[s]]
  BY <1>1 DEF Without
<1>5. prices' \in [DOMAIN prices' -> [Side -> Quote]]
  <2>1. \A s \in DOMAIN prices' : prices'[s] \in [Side -> Quote]
    BY <1>2, <1>4 DEF Inv, TypeOK
  <2> QED
    BY <1>4, <2>1
<1>6. /\ DOMAIN at' = (DOMAIN at \cup asking) \ Expired
      /\ \A s \in DOMAIN at' : at'[s] = IF s \in asking THEN now ELSE at[s]
      /\ at' = [s \in DOMAIN at' |-> at'[s]]
  BY <1>3 DEF Without, With
<1>7. at' \in [DOMAIN at' -> 0..now]
  <2>1. \A s \in DOMAIN at' : at'[s] \in 0..now
    BY <1>0, <1>6 DEF Inv, TypeOK
  <2> QED
    BY <1>6, <2>1
<1>8. /\ DOMAIN wanted' = DOMAIN wanted \ Expired
      /\ \A s \in DOMAIN wanted' : wanted'[s] = wanted[s]
      /\ wanted' \in [DOMAIN wanted' -> 0..now]
  BY <1>3 DEF Without, Inv, TypeOK
<1>9. TypeOK'
  <2>1. /\ DOMAIN prices' \subseteq Slug /\ DOMAIN at' = DOMAIN prices'
        /\ DOMAIN wanted' \subseteq Slug
    BY <1>0, <1>4, <1>6, <1>8 DEF Inv, TypeOK
  <2> QED
    BY <1>0, <1>3, <1>5, <1>7, <1>8, <2>1 DEF Inv, TypeOK
<1>10. FetchesYoung'
  BY <1>3, <1>8, ForgottenWhileFetched DEF Inv, Young, FetchesYoung
<1>11. PollYoung'
  BY <1>3 DEF PollYoung
<1>12. StoredFresh'
  <2> SUFFICES ASSUME NEW s \in DOMAIN prices', NEW d \in Side, prices'[s][d] # None
               PROVE  prices'[s][d] \in 0..now /\ at'[s] <= prices'[s][d] + Latency
    BY <1>3 DEF StoredFresh
  <2>0. s \in DOMAIN at'
    BY <1>9 DEF TypeOK
  <2>1. CASE s \in asking
    <3>1. prices'[s][d] \in asked..now /\ at'[s] = now
      BY <1>2, <1>4, <1>6, <2>0, <2>1
    <3> QED
      BY <1>0, <3>1
  <2>2. CASE s \notin asking
    <3>1. s \in DOMAIN prices /\ prices'[s] = prices[s] /\ at'[s] = at[s]
      BY <1>4, <1>6, <2>0, <2>2
    <3> QED
      BY <3>1 DEF Inv, Young, StoredFresh
  <2> QED
    BY <2>1, <2>2
<1> QED
  BY <1>9, <1>10, <1>11, <1>12 DEF Inv, Young

LEMMA AdvanceTimeInv == ASSUME Inv, AdvanceTime PROVE Inv'
<1> USE TimingAssumption
<1>1. /\ now \in Nat /\ now < MaxTime /\ now' = now + 1 /\ fired' = FALSE
      /\ asking # {} => now < asked + Latency
      /\ \A f \in fetches : now < f[2] + Latency
      /\ UNCHANGED <<listed, wanted, prices, at, asking, asked, fetches>>
  BY DEF AdvanceTime, Inv, TypeOK, Time
<1>2. 0..now \subseteq 0..now' /\ now' \in Time
  BY <1>1 DEF Time
<1>3. TypeOK'
  BY <1>1, <1>2 DEF Inv, TypeOK
<1>4. FetchesYoung'
  <2> SUFFICES ASSUME NEW f \in fetches
               PROVE  /\ now' <= f[2] + Latency
                      /\ f[1] \in DOMAIN wanted => f[2] <= wanted[f[1]]
                      /\ f[1] \notin DOMAIN wanted => now' - f[2] >= WantTtl
    BY <1>1 DEF FetchesYoung
  <2>1. f[2] \in Nat /\ WantTtl \in Nat
    BY <1>1 DEF Inv, TypeOK
  <2> QED
    BY <1>1, <2>1 DEF Inv, Young, FetchesYoung
<1>5. PollYoung'
  <2>1. asked \in Nat
    BY <1>1 DEF Inv, TypeOK
  <2> QED
    BY <1>1, <2>1 DEF Inv, Young, PollYoung
<1>6. StoredFresh'
  BY <1>1, <1>2 DEF Inv, Young, StoredFresh
<1> QED
  BY <1>3, <1>4, <1>5, <1>6 DEF Inv, Young

LEMMA NextInv == Inv /\ [Next]_vars => Inv'
<1> SUFFICES ASSUME Inv, [Next]_vars PROVE Inv'
  OBVIOUS
<1>1. ASSUME NEW s \in Slug, View(s) \/ TrackerView(s) PROVE Inv'
  BY <1>1, ViewInv DEF View, TrackerView, StartFetch
<1>2. ASSUME NEW f \in fetches, FetchAnswer(f) PROVE Inv'
  BY <1>2, FetchAnswerInv
<1>3. CASE Relist
  BY <1>3 DEF Relist, Inv, TypeOK, Young, FetchesYoung, PollYoung, StoredFresh
<1>4. CASE UNCHANGED vars
  BY <1>4 DEF vars, Inv, TypeOK, Young, FetchesYoung, PollYoung, StoredFresh
<1> QED
  BY <1>1, <1>2, <1>3, <1>4, PollBeginInv, PollAnswerInv, AdvanceTimeInv DEF Next

LEMMA InvCorrect == Spec => []Inv
BY InitInv, NextInv, PTL DEF Spec

-----------------------------------------------------------------------------
\* The type invariant: a price is always stored with the time it was stored at.
THEOREM TypeCorrect == Spec => []TypeOK
<1>1. Inv => TypeOK
  BY DEF Inv
<1> QED
  BY <1>1, InvCorrect, PTL

\* A price comes to stand outside _wanted, where no clean-up removes it, only by the answer
\* of a fetch that was in flight for WANT_TTL or longer.
THEOREM OnlyLateFetchesStrayCorrect == Spec => OnlyLateFetchesStray
<1>1. Inv /\ [Next]_vars =>
        [\A s \in DOMAIN prices' \ DOMAIN wanted' :
            \/ s \in DOMAIN prices \ DOMAIN wanted
            \/ \E f \in fetches : f[1] = s /\ now - f[2] >= WantTtl]_vars
  <2> SUFFICES ASSUME Inv, Next, NEW s \in DOMAIN prices' \ DOMAIN wanted'
               PROVE  \/ s \in DOMAIN prices \ DOMAIN wanted
                      \/ \E f \in fetches : f[1] = s /\ now - f[2] >= WantTtl
    OBVIOUS
  <2>1. CASE \E x \in Slug : View(x) \/ TrackerView(x)
    BY <2>1 DEF View, TrackerView, With
  <2>2. ASSUME NEW f \in fetches, FetchAnswer(f)
        PROVE  \/ s \in DOMAIN prices \ DOMAIN wanted
               \/ f[1] = s /\ now - f[2] >= WantTtl
    <3>1. /\ DOMAIN prices' = DOMAIN prices \cup {f[1]}
          /\ wanted' = wanted
      BY <2>2 DEF FetchAnswer, With
    <3>2. s = f[1] => now - f[2] >= WantTtl
      BY <3>1 DEF Inv, Young, FetchesYoung
    <3> QED
      BY <3>1, <3>2
  <2>3. CASE PollAnswer
    <3>1. asking \subseteq DOMAIN wanted
      BY <2>3 DEF PollAnswer, Inv, Young, PollYoung
    <3>2. /\ DOMAIN prices' = (DOMAIN prices \cup asking) \ Expired
          /\ DOMAIN wanted' = DOMAIN wanted \ Expired
      BY <2>3 DEF PollAnswer, Without
    <3> QED
      BY <3>1, <3>2
  <2>4. CASE PollBegin \/ Relist \/ AdvanceTime
    BY <2>4 DEF PollBegin, Relist, AdvanceTime
  <2> QED
    BY <2>1, <2>2, <2>3, <2>4 DEF Next
<1> QED
  BY <1>1, InvCorrect, PTL DEF Spec, OnlyLateFetchesStray

\* A cached price that is young enough to be served was quoted at most max_age and one
\* request's time ago, in whatever order the answers arrived.
THEOREM ServedFreshCorrect == Spec => []ServedFresh
<1>1. Inv => ServedFresh
  <2> SUFFICES ASSUME Inv, NEW s \in Slug, Fresh(s), NEW d \in Side, prices[s][d] # None
               PROVE  now - prices[s][d] <= MaxAge + Latency
    BY DEF ServedFresh
  <2>1. /\ s \in DOMAIN prices /\ now - at[s] <= MaxAge
        /\ now \in Nat /\ at[s] \in 0..now
    BY DEF Fresh, Inv, TypeOK, Time
  <2>2. prices[s][d] \in 0..now /\ at[s] <= prices[s][d] + Latency
    BY <2>1 DEF Inv, Young, StoredFresh
  <2> QED
    BY <2>1, <2>2, TimingAssumption
<1> QED
  BY <1>1, InvCorrect, PTL
=============================================================================
