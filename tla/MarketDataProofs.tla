-------------------------- MODULE MarketDataProofs --------------------------
(***************************************************************************)
(* Proofs about what is done with market data before it is stored.         *)
(*                                                                         *)
(* ProviderClient, for every number of attempts, base and cap of the       *)
(* pauses, and every value of Retry-After headers: the two properties are  *)
(* about requests that were sent; the invariant says besides where the     *)
(* call stands: how many exchanges there were, and what of the pause that  *)
(* the last of them asked for is slept.                                    *)
(*                                                                         *)
(* PriceConsensus, for any providers, closes and times, and any number of  *)
(* candles: a median of numbers of which more than half lie between two    *)
(* bounds lies between them too (MedianWithin).  It is used three times:   *)
(* for the candles of the providers that agree, for the candle of each     *)
(* provider that outliers are told by, and for what the filter leaves.     *)
(*                                                                         *)
(* LocalBook, for any price grid, quantities, event times and length of    *)
(* history.  The one fact that matters is MergeExact: a delta whose first  *)
(* update is not beyond the next one, and whose final update is new, turns *)
(* the exchange's book after "last" into its book after "final", because a *)
(* level it does not list was the same at both.                            *)
(***************************************************************************)
EXTENDS LocalBook, ProviderClient, PriceConsensus, SequenceTheorems, FiniteSetFacts

-----------------------------------------------------------------------------
(* ProviderClient *)

\* Exchanges and attempts, while the call goes on.
Underway ==
    phase # "ended" =>
        /\ outcome = "none"
        /\ \A i \in 1..Len(exchanges) : Retryable(exchanges[i].reply)
        /\ phase = "resolving" => attempt = 1 /\ slept = 0
        /\ phase \in {"resolving", "sending"} => Len(exchanges) = attempt - 1
        /\ phase = "sleeping" => Len(exchanges) = attempt /\ attempt < MaxAttempts

\* What is slept of the pause after the last reply.
Sleeping ==
    /\ phase = "sleeping" => slept + left = Pause(exchanges[attempt].reply, attempt)
    /\ phase = "sending" =>
        IF attempt = 1 THEN slept = 0
        ELSE slept = Pause(exchanges[attempt - 1].reply, attempt - 1)

RequestInv ==
    RequestTypeOK /\ Underway /\ Sleeping /\ RaisesOnlySpent /\ PausesKept
-----------------------------------------------------------------------------
\* A pause is a number (Retry-After, or the exponential one).
LEMMA PauseInt ==
    ASSUME NEW reply \in Replies, NEW n \in Nat \ {0}
    PROVE  Pause(reply, n) \in Int
<1>1. Backoff(n) \in Int
  <2>1. n - 1 \in Nat
    OBVIOUS
  <2>2. 2 ^ (n - 1) \in Int
    BY <2>1
  <2> QED
    BY <2>2, ClientAssumption DEF Backoff
<1>2. reply.ask # NoAsk => reply.ask \in Int
  BY ClientAssumption DEF Replies
<1> QED
  BY <1>1, <1>2, ClientAssumption DEF Pause, RetryAfter

\* What a pause is, as PausesKept says it.
LEMMA PauseKept ==
    ASSUME NEW reply \in Replies, NEW n \in Nat \ {0}
    PROVE  /\ reply.ask = NoAsk => Pause(reply, n) = Backoff(n)
           /\ reply.ask # NoAsk /\ reply.ask \in 0..RetryCap =>
                Pause(reply, n) = reply.ask
           /\ Pause(reply, n) = Backoff(n) \/ Pause(reply, n) \in 0..RetryCap
<1>1. reply.ask # NoAsk => reply.ask \in Int
  BY ClientAssumption DEF Replies
<1> QED
  BY <1>1, ClientAssumption DEF Pause, RetryAfter

\* The first state.
LEMMA RequestStarts == RequestInit => RequestInv
  BY ClientAssumption
  DEF RequestInit, RequestInv, RequestTypeOK, Underway, Sleeping, RaisesOnlySpent,
      PausesKept

\* What a round of the loop appends.
LEMMA SendKeeps ==
    ASSUME RequestInv, NEW r \in Replies, Send(r)
    PROVE  RequestInv'
<1> DEFINE e == [reply |-> r, slept |-> slept]
<1> USE DEF RequestInv
<1>1. /\ phase = "sending" /\ exchanges' = Append(exchanges, e)
      /\ slept' = 0 /\ attempt' = attempt
  BY DEF Send
<1>2. /\ attempt \in 1..MaxAttempts /\ attempt \in Nat \ {0}
      /\ exchanges \in Seq([reply : Replies, slept : Int])
      /\ e \in [reply : Replies, slept : Int]
  BY ClientAssumption DEF RequestTypeOK
<1>3. /\ Len(exchanges) = attempt - 1
      /\ outcome = "none"
      /\ \A i \in 1..Len(exchanges) : Retryable(exchanges[i].reply)
  BY <1>1 DEF Underway
<1>4. /\ exchanges' \in Seq([reply : Replies, slept : Int])
      /\ Len(exchanges') = attempt
      /\ exchanges'[attempt] = e
      /\ \A i \in 1..(attempt - 1) : exchanges'[i] = exchanges[i]
  BY <1>1, <1>2, <1>3
<1>5. \/ /\ r.kind = "ok"
         /\ phase' = "ended" /\ outcome' = "returned" /\ left' = 0
      \/ /\ Retryable(r) /\ attempt < MaxAttempts
         /\ phase' = "sleeping" /\ left' = Pause(r, attempt) /\ outcome' = "none"
      \/ /\ r.kind = "refused" \/ (Retryable(r) /\ ~(attempt < MaxAttempts))
         /\ phase' = "ended" /\ outcome' = "raised" /\ left' = 0
  BY <1>3 DEF Send, AttemptsLeft
<1>6. RequestTypeOK'
  BY <1>1, <1>2, <1>4, <1>5, PauseInt DEF RequestTypeOK
<1>7. \A i \in 1..(attempt - 1) : Retryable(exchanges'[i].reply)
  BY <1>2, <1>3, <1>4
<1>8. Underway'
  <2> SUFFICES ASSUME phase' # "ended" PROVE Underway'
    BY DEF Underway
  <2>1. Retryable(r) /\ attempt < MaxAttempts /\ phase' = "sleeping" /\ outcome' = "none"
    BY <1>5
  <2>2. \A i \in 1..Len(exchanges') : Retryable(exchanges'[i].reply)
    BY <1>2, <1>4, <1>7, <2>1
  <2> QED
    BY <1>1, <1>4, <2>1, <2>2 DEF Underway
<1>9. Sleeping'
  <2>1. CASE phase' = "ended"
    BY <2>1 DEF Sleeping
  <2>2. CASE phase' = "sleeping" /\ left' = Pause(r, attempt)
    <3>1. left' \in Int
      BY <2>2, <1>2, PauseInt
    <3> QED
      BY <1>1, <1>4, <2>2, <3>1 DEF Sleeping
  <2> QED
    BY <1>5, <2>1, <2>2
<1>10. RaisesOnlySpent'
  <2>1. \A i \in 1..(Len(exchanges') - 1) : Retryable(exchanges'[i].reply)
    BY <1>4, <1>7
  <2>2. exchanges' # <<>> /\ exchanges'[Len(exchanges')].reply = r
    BY <1>2, <1>4
  <2>3. ~(attempt < MaxAttempts) => attempt = MaxAttempts
    BY <1>2, ClientAssumption
  <2> QED
    BY <1>4, <1>5, <2>1, <2>2, <2>3 DEF RaisesOnlySpent
<1>11. PausesKept'
  <2>1. ASSUME NEW i \in 1..(Len(exchanges') - 1)
        PROVE  /\ exchanges'[i].reply.ask = NoAsk =>
                    exchanges'[i + 1].slept = Backoff(i)
               /\ exchanges'[i].reply.ask # NoAsk
                  /\ exchanges'[i].reply.ask \in 0..RetryCap =>
                    exchanges'[i + 1].slept = exchanges'[i].reply.ask
               /\ \/ exchanges'[i + 1].slept = Backoff(i)
                  \/ exchanges'[i + 1].slept \in 0..RetryCap
    <3>1. CASE i = attempt - 1
      <4>1. i \in Nat \ {0} /\ i + 1 = attempt /\ i \in 1..(attempt - 1)
        BY <1>2, <1>4, <2>1, <3>1
      <4>2. exchanges'[i] = exchanges[i] /\ exchanges'[i + 1].slept = slept
        BY <1>4, <4>1
      <4>3. exchanges[i].reply \in Replies
        <5>1. i \in 1..Len(exchanges)
          BY <1>3, <4>1
        <5>2. exchanges[i] \in [reply : Replies, slept : Int]
          BY <1>2, <5>1, ElementOfSeq
        <5> QED
          BY <5>2
      <4>4. slept = Pause(exchanges[i].reply, i)
        BY <1>1, <1>2, <3>1, <4>1 DEF Sleeping
      <4> QED
        BY <4>1, <4>2, <4>3, <4>4, PauseKept
    <3>2. CASE i # attempt - 1
      <4>1. /\ i \in 1..(Len(exchanges) - 1)
            /\ exchanges'[i] = exchanges[i] /\ exchanges'[i + 1] = exchanges[i + 1]
        BY <1>2, <1>3, <1>4, <2>1, <3>2
      <4> QED
        BY <4>1 DEF PausesKept
    <3> QED
      BY <3>1, <3>2
  <2>2. exchanges'[1].slept = 0
    <3>1. CASE attempt = 1
      BY <1>1, <1>4, <3>1 DEF Sleeping
    <3>2. CASE attempt # 1
      BY <1>2, <1>3, <1>4, <3>2 DEF PausesKept
    <3> QED
      BY <3>1, <3>2
  <2> QED
    BY <1>1, <2>1, <2>2 DEF PausesKept
<1> QED
  BY <1>6, <1>8, <1>9, <1>10, <1>11

\* The steps that send nothing.
LEMMA OtherStepsKeep ==
    ASSUME RequestInv, Resolve \/ Sleep \/ Wake \/ UNCHANGED requestVars
    PROVE  RequestInv'
<1> USE DEF RequestInv
<1>1. CASE Resolve
  BY <1>1, ClientAssumption
  DEF Resolve, RequestTypeOK, Underway, Sleeping, RaisesOnlySpent, PausesKept
<1>2. CASE Sleep
  BY <1>2, ClientAssumption
  DEF Sleep, RequestTypeOK, Underway, Sleeping, RaisesOnlySpent, PausesKept
<1>3. CASE Wake
  <2>1. RequestTypeOK'
    BY <1>3, ClientAssumption DEF Wake, RequestTypeOK, Underway
  <2>2. Underway' /\ RaisesOnlySpent' /\ PausesKept'
    BY <1>3, ClientAssumption
    DEF Wake, RequestTypeOK, Underway, RaisesOnlySpent, PausesKept
  <2>3. Sleeping'
    BY <1>3, ClientAssumption DEF Wake, RequestTypeOK, Underway, Sleeping
  <2> QED
    BY <2>1, <2>2, <2>3
<1>4. CASE UNCHANGED requestVars
  BY <1>4
  DEF requestVars, RequestTypeOK, Underway, Sleeping, RaisesOnlySpent, PausesKept
<1> QED
  BY <1>1, <1>2, <1>3, <1>4

\* The invariant, and with it the types of a call (_request_json).
THEOREM RequestInvariant == RequestSpec => []RequestInv
<1>1. RequestInv /\ [RequestNext]_requestVars => RequestInv'
  BY SendKeeps, OtherStepsKeep DEF RequestNext
<1> QED
  BY <1>1, RequestStarts, PTL DEF RequestSpec

\* A call raises only when it was refused or its attempts are spent
\* (_request_json).
THEOREM AttemptsSpent == RequestSpec => []RaisesOnlySpent
<1>1. RequestInv => RaisesOnlySpent
  BY DEF RequestInv
<1> QED
  BY <1>1, RequestInvariant, PTL

\* Every pause is the one that was asked for (_request_json,
\* _retry_after_seconds).
THEOREM PausesAsAsked == RequestSpec => []PausesKept
<1>1. RequestInv => PausesKept
  BY DEF RequestInv
<1> QED
  BY <1>1, RequestInvariant, PTL
-----------------------------------------------------------------------------
(* PriceConsensus *)

\* The median of numbers of which more than half lie between two bounds lies
\* between them too.
LEMMA MedianWithin ==
    ASSUME NEW D, IsFiniteSet(D), NEW f \in [D -> Nat],
           NEW M \in SUBSET D, 2 * Cardinality(M) > Cardinality(D),
           NEW lo \in Nat, NEW hi \in Nat, \A c \in M : lo <= f[c] /\ f[c] <= hi
    PROVE  /\ Median(f) \in Nat
           /\ 2 * lo <= Median(f) /\ Median(f) <= 2 * hi
<1> DEFINE n == Cardinality(D)
           values == {f[c] : c \in D}
           Upto(v) == {c \in D : f[c] <= v}
           From(v) == {c \in D : f[c] >= v}
           Lows == {v \in values : 2 * Cardinality(Upto(v)) >= n}
           Highs == {v \in values : 2 * Cardinality(From(v)) >= n}
<1>1. Median(f) = Min(Lows) + Max(Highs)
    BY DEF Median
<1>2. n \in Nat /\ IsFiniteSet(M) /\ Cardinality(M) \in Nat
    BY FS_CardinalityType, FS_Subset
<1>3. values \subseteq Nat /\ IsFiniteSet(values)
    <2>1. values \subseteq Nat /\ f \in [D -> values]
          /\ \A v \in values : \E c \in D : f[c] = v
        OBVIOUS
    <2> HIDE DEF values
    <2> QED
        BY <2>1, FiniteImage
<1>4. \A v : /\ Upto(v) \in SUBSET D /\ IsFiniteSet(Upto(v)) /\ Cardinality(Upto(v)) \in Nat
             /\ From(v) \in SUBSET D /\ IsFiniteSet(From(v)) /\ Cardinality(From(v)) \in Nat
    BY FS_Subset, FS_CardinalityType
<1> DEFINE inner == {f[c] : c \in M}
<1>5. inner \subseteq values /\ inner # {} /\ IsFiniteSet(inner) /\ inner \in SUBSET Int
      /\ \A v \in inner : v <= hi /\ lo <= v
    <2>1. M # {}
        BY <1>2, FS_EmptySet
    <2> QED
        BY <1>3, <2>1, FS_Subset
<1>6. /\ Max(inner) \in inner /\ \A v \in inner : v <= Max(inner)
      /\ Min(inner) \in inner /\ \A v \in inner : Min(inner) <= v
    <2> HIDE DEF inner
    <2> QED
        BY <1>5, MaxOfFinite, MinOfFinite
<1>7. M \subseteq Upto(Max(inner)) /\ M \subseteq From(Min(inner))
    BY <1>6
<1>8. Max(inner) \in Lows /\ Min(inner) \in Highs
    <2>1. Cardinality(M) <= Cardinality(Upto(Max(inner)))
          /\ Cardinality(M) <= Cardinality(From(Min(inner)))
        <3> HIDE DEF inner, Upto, From
        <3> QED
            BY <1>4, <1>7, FS_Subset
    <2>2. PICK most, least : most = Max(inner) /\ least = Min(inner)
        OBVIOUS
    <2>3. most \in values /\ least \in values
        BY <1>5, <1>6, <2>2
    <2>4. 2 * Cardinality(Upto(most)) >= n /\ 2 * Cardinality(From(least)) >= n
        <3>1. Cardinality(Upto(most)) \in Nat /\ Cardinality(From(least)) \in Nat
            BY <1>4
        <3> HIDE DEF Upto, From, inner
        <3> QED
            BY <1>2, <2>1, <2>2, <3>1
    <2> HIDE DEF Upto, From, n, values, inner
    <2> QED
        BY <2>2, <2>3, <2>4
<1>9. /\ \A v \in Lows : v >= lo
      /\ \A v \in Highs : v <= hi
    <2>1. ASSUME NEW T \in SUBSET D, 2 * Cardinality(T) >= n, IsFiniteSet(T)
          PROVE  M \cap T # {}
        <3>1. Cardinality(M) + Cardinality(T) > Cardinality(D)
            BY <1>2, <2>1, FS_CardinalityType
        <3> QED
            BY <3>1, FS_MajoritiesIntersect
    <2>2. ASSUME NEW v \in Lows PROVE v >= lo
        <3>1. v \in Nat /\ M \cap Upto(v) # {}
            BY <1>3, <1>4, <2>1
        <3> QED
            BY <3>1
    <2>3. ASSUME NEW v \in Highs PROVE v <= hi
        <3>1. v \in Nat /\ M \cap From(v) # {}
            BY <1>3, <1>4, <2>1
        <3> QED
            BY <3>1
    <2> HIDE DEF Lows, Highs
    <2> QED
        BY <2>2, <2>3
<1>10. Lows \in SUBSET Int /\ IsFiniteSet(Lows) /\ Highs \in SUBSET Int /\ IsFiniteSet(Highs)
    <2>1. Lows \in SUBSET values /\ Highs \in SUBSET values
        OBVIOUS
    <2> HIDE DEF Lows, Highs, values
    <2>2. IsFiniteSet(Lows) /\ IsFiniteSet(Highs)
        BY <1>3, <2>1, FS_Subset
    <2> QED
        BY <1>3, <2>1, <2>2
<1>11. /\ Min(Lows) \in Lows /\ Min(Lows) <= Max(inner)
       /\ Max(Highs) \in Highs /\ Min(inner) <= Max(Highs)
    <2> HIDE DEF Lows, Highs, inner
    <2> QED
        BY <1>8, <1>10, MaxOfFinite, MinOfFinite
<1>12. /\ Min(Lows) \in Nat /\ Max(Highs) \in Nat
       /\ lo <= Min(Lows) /\ Min(Lows) <= hi /\ lo <= Max(Highs) /\ Max(Highs) <= hi
    <2>1. Lows \subseteq Nat /\ Highs \subseteq Nat
        BY <1>3
    <2> HIDE DEF Lows, Highs, inner, values
    <2>2. /\ Max(inner) \in Int /\ Min(inner) \in Int
          /\ Max(inner) <= hi /\ lo <= Min(inner)
        BY <1>5, <1>6
    <2>3. Min(Lows) \in Nat /\ Max(Highs) \in Nat
          /\ lo <= Min(Lows) /\ Max(Highs) <= hi
        BY <1>9, <1>11, <2>1
    <2> QED
        BY <1>11, <2>2, <2>3
<1> HIDE DEF Lows, Highs
<1> QED
    BY <1>1, <1>12

\* Closes that differ by no more than the spread allowed, relative to the
\* largest, are near each number between them.
LEMMA NearIfAgreeing ==
    ASSUME NEW lo \in Nat, NEW hi \in Nat, NEW middle \in Nat, middle <= 2 * hi,
           NEW spread \in Nat \ {0}, NEW deviation \in Nat \ {0},
           1000 * spread <= deviation * (1000 - spread),
           2000 * (hi - lo) <= spread * middle,
           NEW x \in Nat, lo <= x, x <= hi,
           NEW center \in Nat, 2 * lo <= center, center <= 2 * hi
    PROVE  /\ 1000 * (2 * x - center) <= deviation * center
           /\ 1000 * (center - 2 * x) <= deviation * center
<1>1. spread < 1000
    <2> SUFFICES ASSUME 1000 - spread <= 0 PROVE FALSE
        OBVIOUS
    <2>1. PICK k \in Nat : 1000 - spread = 0 - k
        <3>1. spread - 1000 \in Nat /\ 1000 - spread = 0 - (spread - 1000)
            OBVIOUS
        <3> QED
            BY <3>1
    <2>2. deviation * k >= 0 /\ deviation * (0 - k) = 0 - deviation * k
        OBVIOUS
    <2> QED
        BY <2>1, <2>2
<1>2. spread * middle <= spread * (2 * hi)
    OBVIOUS
<1>3. 1000 * (hi - lo) <= spread * hi
    <2>1. spread * (2 * hi) = 2 * (spread * hi)
        OBVIOUS
    <2>2. PICK a \in Int, b \in Int : a = spread * middle /\ b = spread * hi
        OBVIOUS
    <2>3. a <= 2 * b /\ 2000 * (hi - lo) <= a
        BY <1>2, <2>1, <2>2
    <2>4. 1000 * (hi - lo) <= b
        BY <2>3
    <2> QED
        BY <2>2, <2>4
<1>4. PICK rest \in Nat : rest = 1000 - spread
    BY <1>1
<1>5. rest * hi <= 1000 * lo
    <2>1. rest * hi = 1000 * hi - spread * hi
        BY <1>4
    <2>2. PICK a \in Int, b \in Int : a = rest * hi /\ b = spread * hi
        OBVIOUS
    <2>3. a = 1000 * hi - b /\ 1000 * (hi - lo) <= b
        BY <1>3, <2>1, <2>2
    <2>4. a <= 1000 * lo
        BY <2>3
    <2> QED
        BY <2>2, <2>4
<1>6. spread * hi <= deviation * lo
    <2>1. deviation * (rest * hi) <= deviation * (1000 * lo)
        <3>1. PICK a \in Nat, b \in Nat : a = rest * hi /\ b = 1000 * lo /\ a <= b
            BY <1>5
        <3>2. deviation * a <= deviation * b
            BY <3>1
        <3> QED
            BY <3>1, <3>2
    <2>2. (1000 * spread) * hi <= (deviation * rest) * hi
        <3>1. PICK a \in Nat, b \in Nat : a = 1000 * spread /\ b = deviation * rest /\ a <= b
            BY <1>4
        <3>2. a * hi <= b * hi
            BY <3>1
        <3> QED
            BY <3>1, <3>2
    <2>3. /\ (1000 * spread) * hi = 1000 * (spread * hi)
          /\ (deviation * rest) * hi = deviation * (rest * hi)
          /\ deviation * (1000 * lo) = 1000 * (deviation * lo)
        OBVIOUS
    <2>4. PICK a \in Int, b \in Int, c \in Int :
            a = spread * hi /\ b = deviation * lo /\ c = deviation * (rest * hi)
        OBVIOUS
    <2>5. 1000 * a <= c /\ c <= 1000 * b
        BY <2>1, <2>2, <2>3, <2>4
    <2>6. a <= b
        BY <2>5
    <2> QED
        BY <2>4, <2>6
<1>7. 2 * (deviation * lo) <= deviation * center
    <2>1. deviation * (2 * lo) <= deviation * center
        OBVIOUS
    <2> QED
        BY <2>1
<1> QED
    <2>1. PICK a \in Int, b \in Int, c \in Int :
            a = spread * hi /\ b = deviation * lo /\ c = deviation * center
        OBVIOUS
    <2>2. a <= b /\ 2 * b <= c /\ 1000 * (hi - lo) <= a
        BY <1>3, <1>6, <1>7, <2>1
    <2>3. 1000 * (2 * x - center) <= c /\ 1000 * (center - 2 * x) <= c
        BY <2>2
    <2> QED
        BY <2>1, <2>3

\* _deduplicate_by_provider keeps one candle of each provider.
LEMMA OneOfEach ==
    ASSUME NEW list \in Seq(Candles)
    PROVE  /\ Unique(list) \subseteq {list[n] : n \in DOMAIN list}
           /\ \A c, d \in Unique(list) : c.provider = d.provider => c = d
           /\ \A n \in DOMAIN list : \E c \in Unique(list) : c.provider = list[n].provider
<1> USE ConsensusAssumption
<1> DEFINE Latest(k) == \A m \in DOMAIN list \ {k} :
                            list[m].provider = list[k].provider =>
                                \/ list[m].time < list[k].time
                                \/ list[m].time = list[k].time /\ k < m
<1>1. Unique(list) = {list[n] : n \in {k \in DOMAIN list : Latest(k)}}
    BY DEF Unique
<1>2. DOMAIN list \subseteq Nat /\ IsFiniteSet(DOMAIN list)
      /\ \A n \in DOMAIN list : list[n] \in Candles /\ list[n].time \in Int
    <2>1. DOMAIN list = 1..Len(list) /\ Len(list) \in Nat
        OBVIOUS
    <2>2. \A n \in DOMAIN list : list[n] \in Candles
        BY <2>1
    <2>3. IsFiniteSet(DOMAIN list)
        BY <2>1, FS_Interval
    <2>4. \A c \in Candles : c.time \in Int
        BY DEF Candles
    <2> QED
        BY <2>1, <2>2, <2>3, <2>4
<1>3. \A c, d \in Unique(list) : c.provider = d.provider => c = d
    <2> SUFFICES ASSUME NEW k \in DOMAIN list, NEW m \in DOMAIN list, Latest(k), Latest(m),
                        list[k].provider = list[m].provider, k # m
                 PROVE  FALSE
        BY <1>1
    <2>1. \/ list[m].time < list[k].time
          \/ list[m].time = list[k].time /\ k < m
        OBVIOUS
    <2>2. \/ list[k].time < list[m].time
          \/ list[k].time = list[m].time /\ m < k
        OBVIOUS
    <2> QED
        BY <1>2, <2>1, <2>2
<1>4. ASSUME NEW n \in DOMAIN list
      PROVE  \E c \in Unique(list) : c.provider = list[n].provider
    <2> DEFINE same == {m \in DOMAIN list : list[m].provider = list[n].provider}
               times == {list[m].time : m \in same}
    <2>1. times \in SUBSET Int /\ times # {}
        BY <1>2
    <2>2. IsFiniteSet(times)
        <3>1. IsFiniteSet(same)
            BY <1>2, FS_Subset
        <3>2. PICK g : g = [m \in same |-> list[m].time]
            OBVIOUS
        <3>3. g \in [same -> times] /\ \A t \in times : \E m \in same : g[m] = t
            BY <3>2
        <3> HIDE DEF same, times
        <3> QED
            BY <3>1, <3>3, FiniteImage
    <2>3. PICK top \in times : \A t \in times : t <= top
        <3> HIDE DEF times
        <3> QED
            BY <2>1, <2>2, MaxOfFinite
    <2> DEFINE newest == {m \in same : list[m].time = top}
    <2>4. newest \in SUBSET Nat /\ newest # {}
        BY <1>2
    <2>5. PICK k \in newest : \A m \in newest : k <= m
        <3> HIDE DEF newest
        <3> QED
            BY <2>4, SmallestNumber
    <2>6. k \in DOMAIN list /\ list[k].provider = list[n].provider /\ list[k].time = top
        OBVIOUS
    <2>7. Latest(k)
        <3> SUFFICES ASSUME NEW m \in DOMAIN list \ {k}, list[m].provider = list[k].provider
                     PROVE  \/ list[m].time < list[k].time
                            \/ list[m].time = list[k].time /\ k < m
            OBVIOUS
        <3>1. m \in same /\ list[m].time <= top
            BY <2>3, <2>6
        <3>2. CASE list[m].time = top
            <4>1. m \in newest /\ k <= m
                BY <2>5, <3>1, <3>2
            <4> QED
                BY <1>2, <2>6, <3>2, <4>1
        <3>3. CASE list[m].time # top
            BY <1>2, <2>6, <3>1, <3>3
        <3> QED
            BY <3>2, <3>3
    <2> HIDE DEF Latest
    <2> QED
        BY <1>1, <2>6, <2>7
<1> QED
    BY <1>1, <1>3, <1>4

\* The closes of candles lie between a smallest and a largest one.
LEMMA ClosesBounded ==
    ASSUME NEW S, IsFiniteSet(S), S # {}, \A c \in S : c.close \in Nat
    PROVE  \E lo, hi \in Nat :
               /\ lo = Min({c.close : c \in S}) /\ hi = Max({c.close : c \in S})
               /\ lo <= hi
               /\ \A c \in S : lo <= c.close /\ c.close <= hi
<1> DEFINE closes == {c.close : c \in S}
<1>1. closes \in SUBSET Int /\ closes # {} /\ \A x \in closes : x \in Nat
    OBVIOUS
<1>2. \A c \in S : c.close \in closes
    OBVIOUS
<1>3. IsFiniteSet(closes)
    <2>1. PICK g : g = [c \in S |-> c.close]
        OBVIOUS
    <2>2. g \in [S -> closes] /\ \A x \in closes : \E c \in S : g[c] = x
        BY <2>1
    <2> HIDE DEF closes
    <2> QED
        BY <2>2, FiniteImage
<1>4. PICK most, least : most = Max(closes) /\ least = Min(closes)
    OBVIOUS
<1>5. /\ most \in closes /\ \A x \in closes : x <= most
      /\ least \in closes /\ \A x \in closes : least <= x
    <2> HIDE DEF closes
    <2> QED
        BY <1>1, <1>3, <1>4, MaxOfFinite, MinOfFinite
<1>6. most \in Nat /\ least \in Nat /\ least <= most
      /\ \A c \in S : least <= c.close /\ c.close <= most
    <2> HIDE DEF closes
    <2> QED
        BY <1>1, <1>2, <1>5
<1> QED
    BY <1>4, <1>6

\* MedianWithin for the closes of candles.
LEMMA PriceWithin ==
    ASSUME NEW S, IsFiniteSet(S), \A c \in S : c.close \in Nat,
           NEW M \in SUBSET S, 2 * Cardinality(M) > Cardinality(S),
           NEW lo \in Nat, NEW hi \in Nat,
           \A c \in M : lo <= c.close /\ c.close <= hi
    PROVE  /\ Median(ClosesOf(S)) \in Nat
           /\ 2 * lo <= Median(ClosesOf(S)) /\ Median(ClosesOf(S)) <= 2 * hi
<1>1. PICK f : f = ClosesOf(S)
    OBVIOUS
<1>2. f \in [S -> Nat] /\ \A c \in M : f[c] = c.close
    BY <1>1 DEF ClosesOf
<1>3. \A c \in M : lo <= f[c] /\ f[c] <= hi
    BY <1>2
<1>4. Median(f) \in Nat /\ 2 * lo <= Median(f) /\ Median(f) <= 2 * hi
    BY <1>2, <1>3, MedianWithin
<1> QED
    BY <1>1, <1>4

\* Of candles of each provider once, most are of providers that are not of a
\* minority.
LEMMA MostAreHonest ==
    ASSUME NEW U, IsFiniteSet(U), NEW said,
           \A c, d \in U : c.provider = d.provider => c = d,
           \A c \in U : c.provider \in said,
           \A p \in said : \E c \in U : c.provider = p,
           NEW liars \in SUBSET said, 2 * Cardinality(liars) < Cardinality(said),
           NEW H, H = {c \in U : c.provider \notin liars}
    PROVE  /\ IsFiniteSet(said) /\ Cardinality(said) = Cardinality(U)
           /\ 2 * Cardinality(H) > Cardinality(U)
<1>1. IsFiniteSet(said) /\ Cardinality(said) = Cardinality(U)
    <2>1. PICK g : g = [c \in U |-> c.provider]
        OBVIOUS
    <2>2. g \in [U -> said] /\ \A c \in U : g[c] = c.provider
        BY <2>1
    <2>3. /\ \A c, d \in U : g[c] = g[d] => c = d
          /\ \A p \in said : \E c \in U : g[c] = p
        BY <2>2
    <2> QED
        BY <2>2, <2>3, AsLarge
<1>2. PICK L : L = {c \in U : c.provider \in liars}
    OBVIOUS
<1>3. H \in SUBSET U /\ L \in SUBSET U /\ H \cup L = U /\ H \cap L = {}
    BY <1>2
<1>4. IsFiniteSet(liars)
    BY <1>1, FS_Subset
<1>5. IsFiniteSet(H) /\ IsFiniteSet(L)
    BY <1>3, FS_Subset
<1>6. Cardinality(L) <= Cardinality(liars)
    <2>1. PICK g : g = [c \in L |-> c.provider]
        OBVIOUS
    <2>2. g \in [L -> liars] /\ \A c \in L : g[c] = c.provider
        BY <1>2, <2>1
    <2>3. \A c, d \in L : g[c] = g[d] => c = d
        BY <1>3, <2>2
    <2> QED
        BY <1>4, <2>2, <2>3, NoLarger
<1>7. Cardinality(U) = Cardinality(H) + Cardinality(L) - Cardinality(H \cap L)
    BY <1>3, <1>5, FS_Union
<1>8. Cardinality(H \cap L) = 0
    BY <1>3, FS_EmptySet
<1>9. /\ Cardinality(U) \in Nat /\ Cardinality(H) \in Nat /\ Cardinality(L) \in Nat
      /\ Cardinality(liars) \in Nat
    BY <1>4, <1>5, FS_CardinalityType
<1> QED
    BY <1>1, <1>6, <1>7, <1>8, <1>9

\* The filter keeps the candles of a majority that agrees, and the price lies
\* between their closes.
LEMMA AgreeingKept ==
    ASSUME 1000 * MaxSpread <= OutlierDeviation * (1000 - MaxSpread),
           MaxSpread \in Nat \ {0}, OutlierDeviation \in Nat \ {0},
           NEW U, IsFiniteSet(U), \A c \in U : c.close \in Nat,
           NEW honest, IsFiniteSet(honest), honest # {},
           \A c \in honest : c.close \in Nat, Agreeing(honest),
           NEW H \in SUBSET U, H \subseteq honest,
           2 * Cardinality(H) > Cardinality(U),
           NEW value, value = Median(ClosesOf(Filtered(U)))
    PROVE  /\ value >= 2 * Min({c.close : c \in honest})
           /\ value <= 2 * Max({c.close : c \in honest})
<1>1. PICK lo \in Nat, hi \in Nat :
               /\ lo = Min({c.close : c \in honest}) /\ hi = Max({c.close : c \in honest})
               /\ lo <= hi
               /\ \A c \in honest : lo <= c.close /\ c.close <= hi
    BY ClosesBounded
<1>2. \A c \in H : c.close \in Nat /\ lo <= c.close /\ c.close <= hi
    BY <1>1
<1>3. PICK middle : middle = Median(ClosesOf(honest))
    OBVIOUS
<1>4. middle \in Nat /\ middle <= 2 * hi
    <2>1. Cardinality(honest) \in Nat /\ Cardinality(honest) # 0
        BY FS_CardinalityType, FS_EmptySet
    <2>2. 2 * Cardinality(honest) > Cardinality(honest)
        BY <2>1
    <2>3. honest \in SUBSET honest
        OBVIOUS
    <2>4. Median(ClosesOf(honest)) \in Nat /\ Median(ClosesOf(honest)) <= 2 * hi
        BY <1>1, <2>2, <2>3, PriceWithin
    <2> QED
        BY <1>3, <2>4
<1>5. PICK center : center = Median(ClosesOf(U))
    OBVIOUS
<1>6. center \in Nat /\ 2 * lo <= center /\ center <= 2 * hi
    <2>1. Median(ClosesOf(U)) \in Nat
          /\ 2 * lo <= Median(ClosesOf(U)) /\ Median(ClosesOf(U)) <= 2 * hi
        BY <1>2, PriceWithin
    <2> QED
        BY <1>5, <2>1
<1>7. 2000 * (hi - lo) <= MaxSpread * middle
    BY <1>1, <1>3 DEF Agreeing, Width
<1>8. ASSUME NEW c \in H PROVE Near(c, center)
    <2>1. PICK x \in Nat : x = c.close
        BY <1>2
    <2>2. lo <= x /\ x <= hi
        BY <1>2, <2>1
    <2>3. /\ 1000 * (2 * x - center) <= OutlierDeviation * center
          /\ 1000 * (center - 2 * x) <= OutlierDeviation * center
        BY <1>4, <1>6, <1>7, <2>2, NearIfAgreeing
    <2> QED
        BY <2>1, <2>3 DEF Near
<1>9. PICK used : used = Filtered(U)
    OBVIOUS
<1>10. H \in SUBSET used /\ used \in SUBSET U
    BY <1>5, <1>8, <1>9 DEF Filtered
<1>11. IsFiniteSet(used) /\ IsFiniteSet(H)
    BY <1>10, FS_Subset
<1>12. 2 * Cardinality(H) > Cardinality(used)
    <2>1. Cardinality(used) <= Cardinality(U)
        BY <1>10, FS_Subset
    <2>2. Cardinality(used) \in Nat /\ Cardinality(U) \in Nat /\ Cardinality(H) \in Nat
        BY <1>11, FS_CardinalityType
    <2> QED
        BY <2>1, <2>2
<1>13. /\ Median(ClosesOf(used)) \in Nat
       /\ 2 * lo <= Median(ClosesOf(used)) /\ Median(ClosesOf(used)) <= 2 * hi
    <2>1. \A c \in used : c.close \in Nat
        BY <1>10
    <2> QED
        BY <1>2, <1>10, <1>11, <1>12, <2>1, PriceWithin
<1> QED
    BY <1>1, <1>9, <1>13

\* The candles of a list, the providers of candles, and the candles of all of
\* them but some.
ListedIn(list) == {list[n] : n \in DOMAIN list}

SaidBy(S) == {c.provider : c \in S}

OfOthers(S, liars) == {c \in S : c.provider \notin liars}

\* The candles of a list are finitely many, and their closes are numbers.
LEMMA ListedCandles ==
    ASSUME NEW list \in Seq(Candles), NEW all, all = ListedIn(list)
    PROVE  IsFiniteSet(all) /\ \A c \in all : c.close \in Nat
<1>1. \A c \in Candles : c.close \in Nat
    BY ConsensusAssumption DEF Candles
<1>2. PICK D : D = DOMAIN list
    OBVIOUS
<1>3. D = 1..Len(list) /\ Len(list) \in Nat /\ \A n \in D : list[n] \in Candles
    BY <1>2
<1>4. IsFiniteSet(D)
    BY <1>3, FS_Interval
<1>5. list \in [D -> all] /\ \A c \in all : \E n \in D : list[n] = c
    BY <1>2 DEF ListedIn
<1>6. IsFiniteSet(all)
    BY <1>4, <1>5, FiniteImage
<1> QED
    BY <1>1, <1>3, <1>5, <1>6

\* The price of a list is a median of candles of each provider once, most of
\* them those of providers that agree.
LEMMA MinorityCannotMove ==
    ASSUME 1000 * MaxSpread <= OutlierDeviation * (1000 - MaxSpread),
           NEW list \in Seq(Candles),
           NEW all, all = ListedIn(list),
           NEW said, said = SaidBy(all),
           NEW liars \in SUBSET said,
           NEW honest, honest = OfOthers(all, liars),
           Cardinality(said) >= 3, 2 * Cardinality(liars) < Cardinality(said),
           Agreeing(honest),
           NEW value \in Consensus(list)
    PROVE  /\ value >= 2 * Min({c.close : c \in honest})
           /\ value <= 2 * Max({c.close : c \in honest})
<1>1. PICK U : U = Unique(list)
    OBVIOUS
<1>2. /\ U \subseteq all
      /\ \A c, d \in U : c.provider = d.provider => c = d
      /\ \A n \in DOMAIN list : \E c \in U : c.provider = list[n].provider
    BY <1>1, OneOfEach DEF ListedIn
<1>3. IsFiniteSet(all) /\ \A c \in all : c.close \in Nat
    BY ListedCandles
<1>4. IsFiniteSet(U) /\ IsFiniteSet(honest)
    <2>1. U \in SUBSET all /\ honest \in SUBSET all
        BY <1>2 DEF OfOthers
    <2> QED
        BY <1>3, <2>1, FS_Subset
<1>5. /\ \A c \in U : c.provider \in said
      /\ \A p \in said : \E c \in U : c.provider = p
    <2>1. \A c \in all : \E d \in U : d.provider = c.provider
        BY <1>2 DEF ListedIn
    <2> QED
        BY <1>2, <2>1 DEF SaidBy
<1>6. PICK H : H = {c \in U : c.provider \notin liars}
    OBVIOUS
<1>7. 2 * Cardinality(H) > Cardinality(U)
    BY <1>2, <1>4, <1>5, <1>6, MostAreHonest
<1>8. H \in SUBSET U /\ H \subseteq honest /\ H # {}
    <2>1. Cardinality(U) \in Nat
        BY <1>4, FS_CardinalityType
    <2>2. Cardinality(H) # 0
        BY <1>7, <2>1
    <2>3. H # {}
        BY <2>2, FS_EmptySet
    <2> QED
        BY <1>2, <1>6, <2>3 DEF OfOthers
<1>9. value = Median(ClosesOf(Filtered(U)))
    BY <1>1 DEF Consensus
<1>10. MaxSpread \in Nat \ {0} /\ OutlierDeviation \in Nat \ {0}
    BY ConsensusAssumption
<1>11. /\ \A c \in U : c.close \in Nat
       /\ \A c \in honest : c.close \in Nat
       /\ honest # {}
    BY <1>2, <1>3, <1>8 DEF OfOthers
<1> QED
    BY <1>4, <1>7, <1>8, <1>9, <1>10, <1>11, AgreeingKept

\* Whatever candles a caller collects, and whatever the ages and prices are:
\* providers that are less than half, of three or more, cannot move the price
\* out of the closes of the others, if these agree; the filter of outliers must
\* leave room for the spread allowed, as it does by default (20 and 30
\* thousandths).
THEOREM MinoritiesAreOutvoted ==
    ASSUME 1000 * MaxSpread <= OutlierDeviation * (1000 - MaxSpread)
    PROVE  ConsensusSpec => []MinorityOutvoted
<1> DEFINE Listed == candles \in Seq(Candles)
<1>1. ConsensusInit => Listed
    BY DEF ConsensusInit
<1>2. Listed /\ [Collect]_candles => Listed'
    BY DEF Collect
<1>3. Listed => MinorityOutvoted
    <2> HAVE Listed
    <2>1. PICK list \in Seq(Candles) : list = candles
        OBVIOUS
    <2>2. PICK all, said : all = ListedIn(list) /\ said = SaidBy(all)
        OBVIOUS
    <2>3. ASSUME NEW liars \in SUBSET said, NEW honest, honest = OfOthers(all, liars),
                 Cardinality(said) >= 3, 2 * Cardinality(liars) < Cardinality(said),
                 Agreeing(honest),
                 NEW value \in Consensus(list)
          PROVE  /\ value >= 2 * Min({c.close : c \in honest})
                 /\ value <= 2 * Max({c.close : c \in honest})
        BY <2>2, <2>3, MinorityCannotMove
    <2> QED
        BY <2>1, <2>2, <2>3 DEF MinorityOutvoted, ListedIn, SaidBy, OfOthers
<1> QED
    BY <1>1, <1>2, <1>3, PTL DEF ConsensusSpec

-----------------------------------------------------------------------------
(* LocalBook *)

USE LocalBookAssumption

\* A delta is one of the exchange's, in order and listing what was touched.
LEMMA DeltaFacts ==
    ASSUME NEW d \in Deltas, WellOrdered(d), BookTypeOK
    PROVE  /\ d.first \in Updates /\ d.first >= 2
           /\ d.final \in Updates /\ d.first <= d.final
           /\ Touched(d.first, d.final) \subseteq d.levels
<1>1. PICK f \in Updates \ {1}, t \in Updates, e \in Extras, w \in BOOLEAN :
        d = [first |-> f, final |-> t, levels |-> Touched(f, t) \cup e,
             repeats |-> w]
  BY DEF Deltas
<1>2. Len(history) \in Nat
  BY DEF BookTypeOK
<1>3. d.first = f /\ d.final = t /\ Touched(f, t) \subseteq d.levels
  BY <1>1
<1>4. QED
  BY <1>2, <1>3 DEF Updates, WellOrdered

\* An entry of the history has a book and a time.
LEMMA EventFacts ==
    ASSUME BookTypeOK, NEW u \in Updates
    PROVE  history[u].book \in Books /\ history[u].time \in Nat
<1>1. history[u] \in Events
  BY DEF BookTypeOK, Updates
<1>2. QED
  BY <1>1 DEF Events

\* Applying a delta that follows on gives the exchange's later book.
LEMMA MergeExact ==
    ASSUME BookInv, NEW d \in Deltas, WellOrdered(d),
           d.first <= last + 1, last < d.final
    PROVE  Merge(d) = history[d.final].book
<1>1. /\ d.first \in Nat /\ d.final \in Updates /\ last \in Nat
      /\ Touched(d.first, d.final) \subseteq d.levels
  BY DeltaFacts DEF BookInv, BookTypeOK, Updates
<1>2. history[d.final].book \in Books /\ history[last].book \in Books
  BY <1>1, EventFacts DEF BookInv, BookTypeOK
<1>3. ASSUME NEW l \in Levels
      PROVE  Merge(d)[l] = history[d.final].book[l]
  <2>1. CASE l \in d.levels
    BY <2>1, <1>3 DEF Merge
  <2>2. CASE l \notin d.levels
    <3>1. last \in (d.first - 1)..d.final
      BY <1>1 DEF Updates
    <3>2. history[last].book[l] = history[d.final].book[l]
      BY <1>1, <1>3, <2>2, <3>1 DEF Touched
    <3>3. QED
      BY <1>3, <2>2, <3>2 DEF Merge, BookInv, BookExact
  <2>3. QED
    BY <2>1, <2>2
<1>4. QED
  BY <1>2, <1>3 DEF Merge, Books

\* So an application of such a delta keeps the invariant.
LEMMA ApplyKeeps ==
    ASSUME BookInv, NEW d \in Deltas, WellOrdered(d),
           d.first <= last + 1, last < d.final, Apply(d)
    PROVE  BookInv' /\ last' > last
<1>1. book' = history[d.final].book /\ history' = history
  BY MergeExact DEF Apply
<1>2. d.final \in Updates /\ last \in Nat
  BY DeltaFacts DEF BookInv, BookTypeOK, Updates
<1>3. BookTypeOK'
  BY <1>1, <1>2, EventFacts DEF BookInv, BookTypeOK, Apply, Updates, Invalid
<1>4. BookExact'
  BY <1>1 DEF Apply, BookExact
<1>5. ServedValid'
  <2>1. synchronized' = ~Invalid(Merge(d)) /\ book' = Merge(d)
    BY DEF Apply
  <2>2. QED
    BY <2>1 DEF ServedValid, Invalid, Bids, Asks, Crossed
<1>6. QED
  BY <1>2, <1>3, <1>4, <1>5 DEF BookInv, Apply, BookTypeOK, Updates

\* Giving up synchronization changes no level.
LEMMA DesynchronizeKeeps ==
    ASSUME BookInv, Desynchronize
    PROVE  BookInv'
BY DEF BookInv, BookTypeOK, BookExact, ServedValid, Desynchronize, Updates

\* Every call keeps the invariant, and none that leaves the book
\* synchronized moves it back.
LEMMA DeltaCalls ==
    ASSUME BookInv, NEW d \in Deltas, WellOrdered(d),
           ApplyFirstDelta(d) \/ ApplyDelta(d) \/ ApplyDeltaWithDynamics(d)
    PROVE  BookInv' /\ (synchronized' => last' > last)
<1>1. d.final \in Nat /\ d.first \in Nat /\ last \in Nat
  BY DeltaFacts DEF BookInv, BookTypeOK, Updates
<1>2. CASE Desynchronize
  BY <1>2, DesynchronizeKeeps DEF Desynchronize
<1>3. CASE ~Desynchronize
  <2>1. Apply(d) /\ d.first <= last + 1 /\ last < d.final
    BY <1>1, <1>3 DEF ApplyFirstDelta, ApplyDelta, ApplyDeltaWithDynamics,
                      Bridges, Stale, Gap
  <2>2. QED
    BY <2>1, ApplyKeeps
<1>4. QED
  BY <1>2, <1>3

\* The exchange appends to its history and rewrites nothing.
LEMMA ExchangeKeeps ==
    ASSUME BookInv, ExchangeUpdate
    PROVE  BookInv' /\ last' = last
<1>1. PICK e : /\ e \in Events /\ history' = Append(history, e)
               /\ UNCHANGED bookVars
  <2>1. PICK l \in Levels, q \in 0..MaxQty, s \in TimeSteps :
          history' = Append(history,
             [book |-> [history[Len(history)].book EXCEPT ![l] = q],
              time |-> history[Len(history)].time + s])
    BY DEF ExchangeUpdate
  <2>2. Len(history) \in Updates
    BY DEF BookInv, BookTypeOK, Updates
  <2>3. /\ history[Len(history)].book \in Books
        /\ history[Len(history)].time \in Nat
    BY <2>2, EventFacts DEF BookInv
  <2>4. [book |-> [history[Len(history)].book EXCEPT ![l] = q],
         time |-> history[Len(history)].time + s] \in Events
    BY <2>3 DEF Events, Books
  <2>5. QED
    BY <2>1, <2>4 DEF ExchangeUpdate
<1>2. history \in Seq(Events) /\ last \in 1..Len(history)
  BY DEF BookInv, BookTypeOK, Updates
<1>3. history' \in Seq(Events) /\ Len(history') = Len(history) + 1
      /\ history'[last] = history[last]
  BY <1>1, <1>2
<1>4. QED
  BY <1>1, <1>2, <1>3
  DEF bookVars, BookInv, BookTypeOK, BookExact, ServedValid, Updates

\* A new book is the exchange's book after some update.
LEMMA SnapshotKeeps ==
    ASSUME BookInv, FromSnapshot
    PROVE  BookInv' /\ ~synchronized'
BY EventFacts
DEF FromSnapshot, BookInv, BookTypeOK, BookExact, ServedValid, Updates

\* Every call, and the exchange, preserves the invariant.
LEMMA NextKeeps ==
    ASSUME BookInv, [Next]_vars
    PROVE  BookInv' /\ (synchronized /\ synchronized' => last' >= last)
<1>1. last \in Nat
  BY DEF BookInv, BookTypeOK, Updates
<1>2. CASE ExchangeUpdate
  BY <1>1, <1>2, ExchangeKeeps
<1>3. CASE FromSnapshot
  BY <1>3, SnapshotKeeps
<1>4. CASE \E d \in Deltas :
             /\ WellOrdered(d)
             /\ \/ ApplyFirstDelta(d) \/ ApplyDelta(d)
                \/ ApplyDeltaWithDynamics(d)
  <2>1. BookInv' /\ (synchronized' => last' > last)
    BY <1>4, DeltaCalls
  <2>2. last' \in Nat
    BY <2>1 DEF BookInv, BookTypeOK, Updates
  <2>3. QED
    BY <1>1, <2>1, <2>2
<1>5. CASE UNCHANGED vars
  BY <1>1, <1>5
  DEF vars, bookVars, BookInv, BookTypeOK, BookExact, ServedValid, Updates
<1>6. QED
  BY <1>2, <1>3, <1>4, <1>5 DEF Next

\* The first book is a snapshot.
LEMMA InitHolds == Init => BookInv
<1> SUFFICES ASSUME Init PROVE BookInv
  OBVIOUS
<1>1. PICK b \in Books : history = <<[book |-> b, time |-> 0]>>
  BY DEF Init
<1>2. [book |-> b, time |-> 0] \in Events
  BY DEF Events
<1>3. /\ history \in Seq(Events) /\ Len(history) = 1
      /\ history[1] = [book |-> b, time |-> 0]
  BY <1>1, <1>2
<1>4. history[1].book = b /\ history[1].time = 0
  BY <1>3
<1>5. book = b /\ last = 1 /\ synchronized = FALSE /\ observedAt = 0
  BY <1>4 DEF Init
<1>6. last \in Updates
  BY <1>3, <1>5 DEF Updates
<1>7. BookTypeOK
  <2>1. history \in Seq(Events) /\ Len(history) > 0
    BY <1>3
  <2>2. book \in Books /\ synchronized \in BOOLEAN /\ observedAt \in Nat
    BY <1>5
  <2>3. QED
    BY <1>6, <2>1, <2>2 DEF BookTypeOK
<1>8. QED
  BY <1>4, <1>5, <1>7 DEF BookInv, BookExact, ServedValid

\* The local book is typed and exactly some past state of the exchange's
\* book, and a served book is uncrossed, for every grid and every history.
THEOREM BookInvariant == Spec => []BookInv
<1>1. BookInv /\ [Next]_vars => BookInv'
  BY NextKeeps
<1>2. QED
  BY <1>1, InitHolds, PTL DEF Spec

\* However deltas are lost, repeated, reordered or cut, the local book is
\* the exchange's book after last_update_id.
THEOREM AlwaysExact == Spec => []BookExact
<1>1. BookInv => BookExact
  BY DEF BookInv
<1>2. QED
  BY <1>1, BookInvariant, PTL

\* A synchronized book is never crossed or one-sided.
THEOREM AlwaysServedValid == Spec => []ServedValid
<1>1. BookInv => ServedValid
  BY DEF BookInv
<1>2. QED
  BY <1>1, BookInvariant, PTL

\* While it stays synchronized the book never goes back.
THEOREM NeverBack == Spec => ServedForward
<1>1. BookInv /\ [Next]_vars
        => [synchronized /\ synchronized' => last' >= last]_vars
  BY NextKeeps
<1>2. QED
  BY <1>1, BookInvariant, PTL DEF Spec, ServedForward
-----------------------------------------------------------------------------
(* The accounting of apply_delta_with_dynamics.  Each of its sums is one of *)
(* FiniteSetFacts; that they balance is SumsBalance.                       *)

\* A book has finitely many levels: two sides of finitely many prices.
LEMMA LevelsFinite == IsFiniteSet(Levels)
<1>1. IsFiniteSet({"bid", "ask"})
    <2>1. IsFiniteSet({"bid"})
        BY FS_Singleton
    <2>2. {"bid", "ask"} = {"bid"} \cup {"ask"}
        OBVIOUS
    <2>3. IsFiniteSet({"bid"} \cup {"ask"})
        BY <2>1, FS_AddElement
    <2> QED
        BY <2>2, <2>3
<1> QED
    BY <1>1, FS_Product DEF Levels

\* The price of a level and what a book displays at it are numbers.
LEMMA LevelFacts ==
    ASSUME NEW l \in Levels
    PROVE  l[2] \in Nat /\ \A b \in Books : b[l] \in Nat
<1>1. PICK A : A = {"bid", "ask"}
    OBVIOUS
<1>2. l[2] \in Nat
    <2>1. l \in A \X Prices
        BY <1>1 DEF Levels
    <2>2. l[2] \in Prices
        BY <2>1
    <2> QED
        BY <2>2
<1>3. ASSUME NEW b \in Books PROVE b[l] \in Nat
    <2>1. b[l] \in 0..MaxQty
        BY DEF Books
    <2> QED
        BY <2>1
<1> QED
    BY <1>2, <1>3

\* What a book displays at a level, in money, and what a delta adds to it or
\* takes from it.
Notional(b) == [l \in Levels |-> l[2] * b[l]]

Raised(b, d) == {l \in d.levels : Change(b, d, l) > 0}
Lowered(b, d) == {l \in d.levels : Change(b, d, l) < 0}

Rise(b, d) == [l \in Raised(b, d) |-> Change(b, d, l)]
Fall(b, d) == [l \in Lowered(b, d) |-> -Change(b, d, l)]

\* The levels of a delta are levels, and its changes are whole numbers.
LEMMA ChangeFacts ==
    ASSUME BookTypeOK, NEW d \in Deltas, WellOrdered(d)
    PROVE  /\ d.levels \in SUBSET Levels
           /\ \A l \in d.levels : Change(book, d, l) \in Int
           /\ Raised(book, d) \in SUBSET Levels /\ Lowered(book, d) \in SUBSET Levels
           /\ \A l \in Raised(book, d) : Rise(book, d)[l] \in Nat
           /\ \A l \in Lowered(book, d) : Fall(book, d)[l] \in Nat
<1>1. d.levels \in SUBSET Levels
    <2>1. PICK f \in Updates \ {1}, t \in Updates, e \in Extras, w \in BOOLEAN :
            d = [first |-> f, final |-> t, levels |-> Touched(f, t) \cup e,
                 repeats |-> w]
        BY DEF Deltas
    <2> QED
        BY <2>1 DEF Touched, Levels
<1>2. \A l \in d.levels : Change(book, d, l) \in Int
    <2>1. d.final \in Updates
        BY DeltaFacts
    <2>2. history[d.final].book \in Books
        BY <2>1, EventFacts
    <2>3. ASSUME NEW l \in Levels PROVE Change(book, d, l) \in Int
        <3>1. history[d.final].book[l] \in Int /\ book[l] \in Int /\ l[2] \in Int
            BY <2>2, LevelFacts DEF BookTypeOK
        <3>2. PICK x \in Int, y \in Int, z \in Int :
                x = l[2] /\ y = history[d.final].book[l] /\ z = book[l]
            BY <3>1
        <3> QED
            BY <3>2 DEF Change
    <2> QED
        BY <1>1, <2>3
<1> QED
    BY <1>1, <1>2 DEF Raised, Lowered, Rise, Fall

\* What a book displays is a number at each level.
LEMMA NotionalFacts ==
    ASSUME NEW b \in Books
    PROVE  \A l \in Levels : Notional(b)[l] \in Nat /\ Notional(b)[l] = l[2] * b[l]
<1> SUFFICES ASSUME NEW l \in Levels PROVE l[2] * b[l] \in Nat
    BY DEF Notional
<1>1. l[2] \in Nat /\ b[l] \in Nat
    BY LevelFacts
<1>2. PICK x \in Nat, y \in Nat : x = l[2] /\ y = b[l]
    BY <1>1
<1> QED
    BY <1>2

\* The total of a book is the sum of what its levels display.
LEMMA TotalSum ==
    ASSUME NEW b \in Books
    PROVE  \E sums : SumsOf(Notional(b), Levels, sums) /\ Total(b) = sums[Levels]
<1> DEFINE f == Notional(b)
           S == Levels
           Solves(g) ==
               g = [s \in SUBSET S |->
                     IF s = {} THEN 0
                     ELSE (CHOOSE l \in s : TRUE)[2] * b[(CHOOSE l \in s : TRUE)] + g[s \ {CHOOSE l \in s : TRUE}]]
           sums == CHOOSE g : Solves(g)
<1>1. ASSUME NEW g
      PROVE  Solves(g) <=> SumsOf(f, S, g)
    <2>1. \A s \in SUBSET S : s # {} => f[Chosen(s)] = Chosen(s)[2] * b[Chosen(s)]
        <3>1. \A s \in SUBSET S : s # {} => Chosen(s) \in S
            BY DEF Chosen
        <3> QED
            BY <3>1 DEF Notional
    <2>2. [s \in SUBSET S |-> IF s = {} THEN 0
                              ELSE Chosen(s)[2] * b[Chosen(s)] + g[s \ {Chosen(s)}]]
          = [s \in SUBSET S |-> SumStep(f, g, s)]
        BY <2>1 DEF SumStep
    <2> QED
        BY <2>2 DEF SumsOf, Chosen
<1>2. \E g : SumsOf(f, S, g)
    <2>1. \A l \in S : f[l] \in Nat
        BY NotionalFacts
    <2>2. IsFiniteSet(S)
        BY LevelsFinite
    <2> HIDE DEF f, S
    <2> QED
        BY <2>1, <2>2, SumsExist
<1>3. Solves(sums)
    <2>1. \E g : Solves(g)
        <3> HIDE DEF f, S, Solves
        <3> QED
            BY <1>1, <1>2
    <2> QED
        BY <2>1
<1>4. Total(b) = sums[S]
    BY DEF Total, MapThenSumSet, MapThenFoldSet
<1>5. SumsOf(f, S, sums)
    <2> HIDE DEF sums, Solves, f, S
    <2> QED
        BY <1>1, <1>3
<1> HIDE DEF sums
<1> QED
    BY <1>4, <1>5

\* What is reported as added is the sum of the rises.
LEMMA AddedSum ==
    ASSUME BookTypeOK, NEW d \in Deltas, WellOrdered(d)
    PROVE  \E sums : SumsOf(Rise(book, d), Raised(book, d), sums) /\ LevelChanges(book, d).added = sums[Raised(book, d)]
<1> DEFINE f == Rise(book, d)
           S == Raised(book, d)
           Solves(g) ==
               g = [s \in SUBSET S |->
                     IF s = {} THEN 0
                     ELSE Change(book, d, (CHOOSE l \in s : TRUE)) + g[s \ {CHOOSE l \in s : TRUE}]]
           sums == CHOOSE g : Solves(g)
<1>1. ASSUME NEW g
      PROVE  Solves(g) <=> SumsOf(f, S, g)
    <2>1. \A s \in SUBSET S : s # {} => f[Chosen(s)] = Change(book, d, Chosen(s))
        <3>1. \A s \in SUBSET S : s # {} => Chosen(s) \in S
            BY DEF Chosen
        <3> QED
            BY <3>1 DEF Rise
    <2>2. [s \in SUBSET S |-> IF s = {} THEN 0
                              ELSE Change(book, d, Chosen(s)) + g[s \ {Chosen(s)}]]
          = [s \in SUBSET S |-> SumStep(f, g, s)]
        BY <2>1 DEF SumStep
    <2> QED
        BY <2>2 DEF SumsOf, Chosen
<1>2. \E g : SumsOf(f, S, g)
    <2>1. \A l \in S : f[l] \in Nat
        BY ChangeFacts
    <2>2. IsFiniteSet(S)
        BY ChangeFacts, LevelsFinite, FS_Subset
    <2> HIDE DEF f, S
    <2> QED
        BY <2>1, <2>2, SumsExist
<1>3. Solves(sums)
    <2>1. \E g : Solves(g)
        <3> HIDE DEF f, S, Solves
        <3> QED
            BY <1>1, <1>2
    <2> QED
        BY <2>1
<1>4. LevelChanges(book, d).added = sums[S]
    BY DEF LevelChanges, Raised, MapThenSumSet, MapThenFoldSet
<1>5. SumsOf(f, S, sums)
    <2> HIDE DEF sums, Solves, f, S
    <2> QED
        BY <1>1, <1>3
<1> HIDE DEF sums
<1> QED
    BY <1>4, <1>5

\* What is reported as removed is the sum of the falls.
LEMMA RemovedSum ==
    ASSUME BookTypeOK, NEW d \in Deltas, WellOrdered(d)
    PROVE  \E sums : SumsOf(Fall(book, d), Lowered(book, d), sums) /\ LevelChanges(book, d).removed = sums[Lowered(book, d)]
<1> DEFINE f == Fall(book, d)
           S == Lowered(book, d)
           Solves(g) ==
               g = [s \in SUBSET S |->
                     IF s = {} THEN 0
                     ELSE -Change(book, d, (CHOOSE l \in s : TRUE)) + g[s \ {CHOOSE l \in s : TRUE}]]
           sums == CHOOSE g : Solves(g)
<1>1. ASSUME NEW g
      PROVE  Solves(g) <=> SumsOf(f, S, g)
    <2>1. \A s \in SUBSET S : s # {} => f[Chosen(s)] = -Change(book, d, Chosen(s))
        <3>1. \A s \in SUBSET S : s # {} => Chosen(s) \in S
            BY DEF Chosen
        <3> QED
            BY <3>1 DEF Fall
    <2>2. [s \in SUBSET S |-> IF s = {} THEN 0
                              ELSE -Change(book, d, Chosen(s)) + g[s \ {Chosen(s)}]]
          = [s \in SUBSET S |-> SumStep(f, g, s)]
        BY <2>1 DEF SumStep
    <2> QED
        BY <2>2 DEF SumsOf, Chosen
<1>2. \E g : SumsOf(f, S, g)
    <2>1. \A l \in S : f[l] \in Nat
        BY ChangeFacts
    <2>2. IsFiniteSet(S)
        BY ChangeFacts, LevelsFinite, FS_Subset
    <2> HIDE DEF f, S
    <2> QED
        BY <2>1, <2>2, SumsExist
<1>3. Solves(sums)
    <2>1. \E g : Solves(g)
        <3> HIDE DEF f, S, Solves
        <3> QED
            BY <1>1, <1>2
    <2> QED
        BY <2>1
<1>4. LevelChanges(book, d).removed = sums[S]
    BY DEF LevelChanges, Lowered, MapThenSumSet, MapThenFoldSet
<1>5. SumsOf(f, S, sums)
    <2> HIDE DEF sums, Solves, f, S
    <2> QED
        BY <1>1, <1>3
<1> HIDE DEF sums
<1> QED
    BY <1>4, <1>5

\* The changes of its levels are the change of the book a delta makes.
LEMMA ChangesBalance ==
    ASSUME BookInv, NEW d \in Deltas, WellOrdered(d)
    PROVE  /\ Merge(d) \in Books
           /\ LevelChanges(book, d).added - LevelChanges(book, d).removed
              = Total(Merge(d)) - Total(book)
<1>1. BookTypeOK /\ book \in Books
    BY DEF BookInv, BookTypeOK
<1>2. d.final \in Updates /\ history[d.final].book \in Books
    BY <1>1, DeltaFacts, EventFacts
<1>3. Merge(d) \in Books
    BY <1>1, <1>2 DEF Merge, Books
<1>4. PICK before, after :
        /\ SumsOf(Notional(book), Levels, before) /\ Total(book) = before[Levels]
        /\ SumsOf(Notional(Merge(d)), Levels, after) /\ Total(Merge(d)) = after[Levels]
    BY <1>1, <1>3, TotalSum
<1>5. PICK added, removed :
        /\ SumsOf(Rise(book, d), Raised(book, d), added)
        /\ LevelChanges(book, d).added = added[Raised(book, d)]
        /\ SumsOf(Fall(book, d), Lowered(book, d), removed)
        /\ LevelChanges(book, d).removed = removed[Lowered(book, d)]
    BY <1>1, AddedSum, RemovedSum
<1>6. PICK P, N, up, down, f, g, S :
        /\ P = Raised(book, d) /\ N = Lowered(book, d) /\ S = Levels
        /\ up = Rise(book, d) /\ down = Fall(book, d)
        /\ f = Notional(book) /\ g = Notional(Merge(d))
    OBVIOUS
<1>7. /\ IsFiniteSet(S) /\ P \in SUBSET S /\ N \in SUBSET S
      /\ \A l \in P : up[l] \in Nat
      /\ \A l \in N : down[l] \in Nat
      /\ \A l \in S : f[l] \in Nat /\ g[l] \in Nat
    BY <1>1, <1>3, <1>6, LevelsFinite, ChangeFacts, NotionalFacts
<1>8. ASSUME NEW l \in S
      PROVE  g[l] + (IF l \in N THEN down[l] ELSE 0)
             = f[l] + (IF l \in P THEN up[l] ELSE 0)
    <2>1. f[l] = l[2] * book[l] /\ g[l] = l[2] * Merge(d)[l]
        BY <1>1, <1>3, <1>6, NotionalFacts
    <2>2. l[2] \in Int /\ book[l] \in Int /\ history[d.final].book[l] \in Int
        BY <1>1, <1>2, <1>6, LevelFacts
    <2>3. CASE l \in d.levels
        <3>1. Merge(d)[l] = history[d.final].book[l]
            BY <1>6, <2>3 DEF Merge
        <3>2. PICK x \in Int, y \in Int, z \in Int :
                x = l[2] /\ y = history[d.final].book[l] /\ z = book[l]
            BY <2>2
        <3>3. x * (y - z) = x * y - x * z
            OBVIOUS
        <3>4. Change(book, d, l) = g[l] - f[l]
            BY <2>1, <3>1, <3>2, <3>3 DEF Change
        <3>5. /\ l \in P <=> g[l] - f[l] > 0
              /\ l \in N <=> g[l] - f[l] < 0
              /\ l \in P => up[l] = g[l] - f[l]
              /\ l \in N => down[l] = -(g[l] - f[l])
            BY <1>6, <2>3, <3>4 DEF Raised, Lowered, Rise, Fall
        <3> QED
            BY <1>7, <3>5
    <2>4. CASE l \notin d.levels
        <3>1. l \notin P /\ l \notin N
            BY <1>6, <2>4 DEF Raised, Lowered
        <3>2. g[l] = f[l]
            BY <1>6, <2>1, <2>4 DEF Merge
        <3> QED
            BY <1>7, <3>1, <3>2
    <2> QED
        BY <2>3, <2>4
<1>9. after[S] + removed[N] = before[S] + added[P]
    <2>1. /\ SumsOf(f, S, before) /\ SumsOf(g, S, after)
          /\ SumsOf(up, P, added) /\ SumsOf(down, N, removed)
        BY <1>4, <1>5, <1>6
    <2>2. /\ \A l \in S : f[l] \in Nat
          /\ \A l \in S : g[l] \in Nat
        BY <1>7
    <2> QED
        BY <1>7, <1>8, <2>1, <2>2, SumsBalance
<1>10. after[S] \in Nat /\ before[S] \in Nat /\ removed[N] \in Nat /\ added[P] \in Nat
    <2>1. IsFiniteSet(P) /\ IsFiniteSet(N)
        BY <1>7, FS_Subset
    <2>2. after[S] \in Nat /\ before[S] \in Nat
        <3>1. SumsOf(f, S, before) /\ SumsOf(g, S, after) /\ S \in SUBSET S
            BY <1>4, <1>6
        <3>2. /\ \A l \in S : f[l] \in Nat
              /\ \A l \in S : g[l] \in Nat
            BY <1>7
        <3> QED
            BY <1>7, <3>1, <3>2, SumsAreNatural
    <2>3. SumsOf(up, P, added) /\ P \in SUBSET P
        BY <1>5, <1>6
    <2>4. SumsOf(down, N, removed) /\ N \in SUBSET N
        BY <1>5, <1>6
    <2> QED
        BY <1>7, <2>1, <2>2, <2>3, <2>4, SumsAreNatural
<1> QED
    BY <1>3, <1>4, <1>5, <1>6, <1>9, <1>10

\* The depth reported as added and removed is the change of the displayed
\* notional, whatever delta is applied: one that overlaps what the book holds
\* already, and one that lists levels that did not change, too.
THEOREM DepthAccounted == Spec => DynamicsExact
<1>1. ASSUME BookInv, [Next]_vars
      PROVE  [dynamics' # NoDynamics =>
                dynamics'.added - dynamics'.removed = Total(book') - Total(book)]_vars
    <2> SUFFICES ASSUME Next, dynamics' # NoDynamics
                 PROVE  dynamics'.added - dynamics'.removed = Total(book') - Total(book)
        BY <1>1
    <2>1. PICK d \in Deltas : /\ WellOrdered(d)
                              /\ book' = Merge(d)
                              /\ dynamics' = [added |-> LevelChanges(book, d).added,
                                              removed |-> LevelChanges(book, d).removed,
                                              elapsed |-> Elapsed(d)]
        BY DEF Next, ExchangeUpdate, FromSnapshot, ApplyFirstDelta, ApplyDelta,
               ApplyDeltaWithDynamics, Desynchronize, Apply
    <2>2. /\ dynamics'.added = LevelChanges(book, d).added
          /\ dynamics'.removed = LevelChanges(book, d).removed
        BY <2>1
    <2>3. LevelChanges(book, d).added - LevelChanges(book, d).removed
          = Total(Merge(d)) - Total(book)
        BY <1>1, <2>1, ChangesBalance
    <2>4. Total(book') = Total(Merge(d))
        BY <2>1
    <2> QED
        BY <2>2, <2>3, <2>4
<1>2. QED
    BY <1>1, BookInvariant, PTL DEF Spec, DynamicsExact
=============================================================================
