--------------------------- MODULE PriceConsensus ---------------------------
(***************************************************************************)
(* consensus_close: one price from the candles of several providers, or    *)
(* none.  The candles are of one asset and one interval.  Thresholds are   *)
(* in thousandths of the price they are relative to; a median is doubled,  *)
(* so that it is a whole number.                                           *)
(***************************************************************************)
EXTENDS Integers, Sequences, FiniteSetsExt

CONSTANTS
    Providers,
    ClosePrices,       \* bound: the closes of candles
    CloseTimes,        \* bound: their close_time
    MaxCandles,        \* bound: candles given to a call
    Now,               \* the time of the call
    MaxAge,            \* max_age_seconds
    MinProviders,      \* min_provider_count
    MaxSpread,         \* max_relative_spread
    OutlierDeviation,  \* outlier_deviation
    AlignmentTolerance \* alignment_tolerance_seconds

ASSUME ConsensusAssumption ==
    /\ ClosePrices \subseteq Nat \ {0} /\ CloseTimes \subseteq Int
    /\ {MaxCandles, Now, AlignmentTolerance} \subseteq Nat
    /\ {MaxAge, MaxSpread, OutlierDeviation} \subseteq Nat \ {0}
    /\ MinProviders \in Nat /\ MinProviders >= 2

Candles == [provider : Providers, close : ClosePrices, time : CloseTimes]

VARIABLE candles  \* what the caller collected, in the order of its list
-----------------------------------------------------------------------------
\* Mutant of Unique: every candle counts.
UniqueAll(list) == {list[n] : n \in DOMAIN list}

\* _deduplicate_by_provider: the first of the latest candles of a provider.
Unique(list) ==
    {list[n] : n \in {k \in DOMAIN list : \A m \in DOMAIN list \ {k} :
        list[m].provider = list[k].provider =>
            \/ list[m].time < list[k].time
            \/ list[m].time = list[k].time /\ k < m}}

\* statistics.median of f over its domain, doubled.
Median(f) ==
    LET n == Cardinality(DOMAIN f)
        values == {f[c] : c \in DOMAIN f}
        low == Min({v \in values : 2 * Cardinality({c \in DOMAIN f : f[c] <= v}) >= n})
        high == Max({v \in values : 2 * Cardinality({c \in DOMAIN f : f[c] >= v}) >= n})
    IN  low + high

ClosesOf(S) == [c \in S |-> c.close]

Width(S) == Max({c.close : c \in S}) - Min({c.close : c \in S})

Near(c, center) ==
    /\ 1000 * (2 * c.close - center) <= OutlierDeviation * center
    /\ 1000 * (center - 2 * c.close) <= OutlierDeviation * center

\* Outliers can be told from three providers on.
Filtered(S) ==
    IF Cardinality(S) >= 3 THEN {c \in S : Near(c, Median(ClosesOf(S)))} ELSE S

\* The spread of the closes is no CONFLICT.
Agreeing(S) == 2000 * Width(S) <= MaxSpread * Median(ClosesOf(S))

\* The times of all candles are no CONFLICT and not INVALID.
Aligned(S) ==
    /\ \A c \in S : c.time <= Now
    /\ \A c, d \in S : c.time - d.time <= AlignmentTolerance

Age(c) == IF c.time > Now THEN 0 ELSE Now - c.time

\* The candles are not STALE.
Fresh(S) == Median([c \in S |-> Age(c)]) <= 2 * MaxAge

\* The values of a ConsensusResult, doubled: one if it is valid, or none.
Consensus(list) ==
    LET used == Filtered(Unique(list))
        valid == /\ Aligned(Unique(list))
                 /\ Cardinality(used) >= MinProviders
                 /\ Agreeing(used) /\ Fresh(used)
    IN  IF valid THEN {Median(ClosesOf(used))} ELSE {}
-----------------------------------------------------------------------------
ConsensusInit == candles = <<>>

\* The caller adds the candle of some provider.
Collect ==
    /\ Len(candles) < MaxCandles
    /\ \E c \in Candles : candles' = Append(candles, c)

ConsensusSpec == ConsensusInit /\ [][Collect]_candles
-----------------------------------------------------------------------------
(* Properties. *)

\* A minority cannot move the price: with three providers or more, of which
\* less than half say anything at any time and as often as they like, the
\* price, if there is one, lies between those that the others say, if the
\* others agree (consensus_close; an agreeing majority is not taken for
\* outliers, because MaxSpread is less than OutlierDeviation by default).
MinorityOutvoted ==
    LET all == {candles[n] : n \in DOMAIN candles}
        said == {c.provider : c \in all}
    IN  \A liars \in SUBSET said :
            LET honest == {c \in all : c.provider \notin liars}
            IN  /\ Cardinality(said) >= 3 /\ 2 * Cardinality(liars) < Cardinality(said)
                /\ Agreeing(honest)
                => \A value \in Consensus(candles) :
                    /\ value >= 2 * Min({c.close : c \in honest})
                    /\ value <= 2 * Max({c.close : c \in honest})
=============================================================================
