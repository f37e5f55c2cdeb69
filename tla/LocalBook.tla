----------------------------- MODULE LocalBook -----------------------------
(***************************************************************************)
(* LocalOrderBook: a copy of an exchange's order book kept from one REST   *)
(* snapshot and a stream of depth deltas, and apply_delta_with_dynamics,   *)
(* which accounts for the displayed depth each delta adds and removes.     *)
(*                                                                         *)
(* The exchange numbers its updates; history[u] is its book after update   *)
(* u.  A delta covers updates first..final and lists, with their quantity  *)
(* after final, at least the levels that differed in between.  Any delta   *)
(* may reach the book at any time, so deltas are lost, repeated, late, out *)
(* of order and overlapping, and snapshots may be old.  The book's caller  *)
(* is not part of the repository: it may call any method in any order.     *)
(***************************************************************************)
EXTENDS Integers, Sequences, FiniteSetsExt

CONSTANTS
    Prices,      \* the prices of the instrument's tick grid that matter
    MaxQty,      \* displayed quantities are 0..MaxQty, 0 being no level
    Extras,      \* sets of unchanged levels a delta may list besides
    TimeSteps,   \* seconds that may pass between two updates
    MaxGap,      \* max_event_gap_seconds
    MaxUpdates   \* bound: length of the exchange's history

ASSUME LocalBookAssumption ==
    /\ Prices \subseteq Nat /\ IsFiniteSet(Prices)
    /\ MaxQty \in Nat \ {0}
    /\ Extras \subseteq SUBSET ({"bid", "ask"} \X Prices)
    /\ TimeSteps \subseteq Nat
    /\ MaxGap \in Nat \ {0}
    /\ MaxUpdates \in Nat \ {0}

VARIABLES
    history,       \* the exchange: its book and event time per update
    book,          \* bids and asks
    last,          \* last_update_id
    synchronized,
    observedAt,    \* observed_at
    dynamics       \* what the last call returned, if it was a DepthDynamics

bookVars == <<book, last, synchronized, observedAt>>
vars == <<history, bookVars, dynamics>>
-----------------------------------------------------------------------------
Levels == {"bid", "ask"} \X Prices
Books == [Levels -> 0..MaxQty]
Events == [book : Books, time : Nat]

Bids(b) == {p \in Prices : b[<<"bid", p>>] > 0}
Asks(b) == {p \in Prices : b[<<"ask", p>>] > 0}
Crossed(b) == \E p \in Bids(b), a \in Asks(b) : p >= a

\* _apply rejects a book without bids, without asks, or crossed.
Invalid(b) == Bids(b) = {} \/ Asks(b) = {} \/ Crossed(b)

Updates == 1..Len(history)

\* The levels that were not all along what they are after update t.
Touched(f, t) ==
    {l \in Levels : \E u \in (f - 1)..t :
                        history[u].book[l] # history[t].book[l]}

\* A malformed delta lists a level twice, its last quantity coming last.
Deltas ==
    {[first |-> f, final |-> t, levels |-> Touched(f, t) \cup e,
      repeats |-> twice] :
        f \in Updates \ {1}, t \in Updates, e \in Extras, twice \in BOOLEAN}

WellOrdered(d) == d.first <= d.final

NoDynamics == [added |-> 0, removed |-> 0, elapsed |-> 0]

BookTypeOK ==
    /\ history \in Seq(Events) /\ Len(history) > 0
    /\ book \in Books
    /\ last \in Updates
    /\ synchronized \in BOOLEAN
    /\ observedAt \in Nat

TypeOK ==
    /\ BookTypeOK
    /\ dynamics \in [added : Nat, removed : Nat, elapsed : Nat]

Init ==
    /\ history \in {<<[book |-> b, time |-> 0]>> : b \in Books}
    /\ ~Invalid(history[1].book)
    /\ book = history[1].book
    /\ last = 1
    /\ synchronized = FALSE
    /\ observedAt = 0
    /\ dynamics = NoDynamics
-----------------------------------------------------------------------------
(* The exchange: one level changes; its book is never crossed but a side   *)
(* may be empty.                                                           *)

ExchangeUpdate ==
    /\ Len(history) < MaxUpdates
    /\ \E l \in Levels, q \in 0..MaxQty, s \in TimeSteps :
         LET now == history[Len(history)]
             b == [now.book EXCEPT ![l] = q]
         IN /\ ~Crossed(b)
            /\ history' = Append(history, [book |-> b, time |-> now.time + s])
    /\ UNCHANGED bookVars
    /\ dynamics' = NoDynamics

(* from_snapshot.  OrderBookSnapshot refuses an empty side or a crossed    *)
(* book; the new book is not synchronized.                                 *)

\* Mutant of FromSnapshot: the new book inherits the flag of the old one.
FromSnapshotKeepsFlag ==
    /\ \E u \in Updates :
         /\ ~Invalid(history[u].book)
         /\ book' = history[u].book
         /\ last' = u
         /\ observedAt' = history[u].time
    /\ dynamics' = NoDynamics
    /\ UNCHANGED <<history, synchronized>>

FromSnapshot ==
    /\ \E u \in Updates :
         /\ ~Invalid(history[u].book)
         /\ book' = history[u].book
         /\ last' = u
         /\ observedAt' = history[u].time
    /\ synchronized' = FALSE
    /\ dynamics' = NoDynamics
    /\ UNCHANGED history

(* _apply: both sides, then the bookkeeping, then the validity of what     *)
(* came out; "synced" is what the caller makes of a valid book.            *)

Merge(d) == [l \in Levels |-> IF l \in d.levels THEN history[d.final].book[l]
                                                ELSE book[l]]

Apply(d) ==
    /\ book' = Merge(d)
    /\ last' = d.final
    /\ observedAt' = history[d.final].time
    /\ synchronized' = ~Invalid(Merge(d))
    /\ UNCHANGED history

\* Mutant of Gap: one missing update goes unnoticed.
GapOfTwo(d) == d.first > last + 2

Bridges(d) == d.first <= last + 1 /\ last + 1 <= d.final
Stale(d) == d.final <= last
Gap(d) == d.first > last + 1

Desynchronize ==
    /\ synchronized' = FALSE
    /\ dynamics' = NoDynamics
    /\ UNCHANGED <<history, book, last, observedAt>>

ApplyFirstDelta(d) ==
    /\ Bridges(d)
    /\ Apply(d)
    /\ dynamics' = NoDynamics

\* Deltas are refused without an effect while the book is not synchronized.
ApplyDelta(d) ==
    /\ synchronized
    /\ \/ ~Stale(d) /\ ~Gap(d) /\ Apply(d) /\ dynamics' = NoDynamics
       \/ ~Stale(d) /\ Gap(d) /\ Desynchronize
-----------------------------------------------------------------------------
(* apply_delta_with_dynamics.                                              *)

\* Mutant of Change: a level that was not displayed before does not count.
ChangeOfKnown(b, d, l) ==
    IF b[l] = 0 THEN 0 ELSE l[2] * (history[d.final].book[l] - b[l])

Change(b, d, l) == l[2] * (history[d.final].book[l] - b[l])

\* _level_changes, summed over the two sides.
LevelChanges(b, d) ==
    [added |-> MapThenSumSet(LAMBDA l : Change(b, d, l),
                             {l \in d.levels : Change(b, d, l) > 0}),
     removed |-> MapThenSumSet(LAMBDA l : -Change(b, d, l),
                               {l \in d.levels : Change(b, d, l) < 0})]

Elapsed(d) == history[d.final].time - observedAt

ApplyDeltaWithDynamics(d) ==
    /\ synchronized
    /\ ~Stale(d)
    /\ LET accepted == Elapsed(d) > 0 /\ Elapsed(d) <= MaxGap /\ ~d.repeats
       IN \/ accepted /\ ~Gap(d) /\ ~Invalid(Merge(d))
             /\ Apply(d)
             /\ dynamics' = [added |-> LevelChanges(book, d).added,
                             removed |-> LevelChanges(book, d).removed,
                             elapsed |-> Elapsed(d)]
          \/ accepted /\ ~Gap(d) /\ Invalid(Merge(d))
             /\ Apply(d)
             /\ dynamics' = NoDynamics
          \/ (~accepted \/ Gap(d)) /\ Desynchronize

Next ==
    \/ ExchangeUpdate
    \/ FromSnapshot
    \/ \E d \in Deltas :
         /\ WellOrdered(d)
         /\ ApplyFirstDelta(d) \/ ApplyDelta(d) \/ ApplyDeltaWithDynamics(d)

Spec == Init /\ [][Next]_vars
-----------------------------------------------------------------------------
(* Properties. *)

\* Whatever was lost, repeated or reordered on the way, the local book is
\* the exchange's book after update last_update_id, and its observed_at is
\* that update's time: no partial and no mixed state, even after an error.
BookExact ==
    book = history[last].book /\ observedAt = history[last].time

\* top() never serves a crossed book or one with an empty side.
ServedValid == synchronized => ~Invalid(book)

\* A reader that sees the book synchronized before and after a call never
\* sees it go back to an older update.
ServedForward == [][synchronized /\ synchronized' => last' >= last]_vars

Total(b) == MapThenSumSet(LAMBDA l : l[2] * b[l], Levels)

\* The depth that apply_delta_with_dynamics reports as added and removed is
\* the change of the displayed notional in that call, also when the delta
\* overlaps updates the book already holds.
DynamicsExact ==
    [][dynamics' # NoDynamics =>
          dynamics'.added - dynamics'.removed = Total(book') - Total(book)]_vars

\* What every call preserves: enough for BookExact and ServedValid.
BookInv == BookTypeOK /\ BookExact /\ ServedValid
=============================================================================
