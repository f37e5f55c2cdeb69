-------------------------- MODULE DurableProgress --------------------------
(***************************************************************************)
(* What the backfill and its evidence store promise their readers, without *)
(* files, rows, processes or failures: pages become durable, a checkpoint  *)
(* moves only over durable pages, and what is published is durable and     *)
(* holds some job entirely.  Backfill implements it.                       *)
(***************************************************************************)
EXTENDS Naturals

CONSTANTS
    Jobs,
    LastPage,  \* a job's pages are 1..LastPage
    Empties    \* pages <<job, page>> that hold nothing and need no storing

VARIABLES
    persisted,  \* the pages whose observations are durable
    cursor,     \* cursor[j]: the page a resumed job j continues from
    published   \* the sets of pages that were published

vars == <<persisted, cursor, published>>

Pages == 1..LastPage

Init ==
    /\ persisted = Empties
    /\ cursor = [j \in Jobs |-> 0]
    /\ published = {}

Persist(j, p) ==
    /\ persisted' = persisted \cup {<<j, p>>}
    /\ UNCHANGED <<cursor, published>>

Advance(j, c) ==
    /\ \A p \in Pages : p < c => <<j, p>> \in persisted
    /\ cursor' = [cursor EXCEPT ![j] = c]
    /\ UNCHANGED <<persisted, published>>

Publish(S) ==
    /\ S \subseteq persisted
    /\ \E j \in Jobs : {j} \X Pages \subseteq S
    /\ published' = published \cup {S}
    /\ UNCHANGED <<persisted, cursor>>

Next ==
    \/ \E j \in Jobs, p \in Pages : Persist(j, p)
    \/ \E j \in Jobs, c \in 1..(LastPage + 1) : Advance(j, c)
    \/ \E S \in SUBSET (Jobs \X Pages) : Publish(S)

Spec == Init /\ [][Next]_vars
=============================================================================
