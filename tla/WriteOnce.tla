----------------------------- MODULE WriteOnce -----------------------------
(***************************************************************************)
(* What an immutable ledger promises to the processes that share it,       *)
(* without tables, transactions or failures: a key gets at most one value, *)
(* and a process is told that its value was saved only if it is that one.  *)
(* OOSLedger implements it for the outcomes of predictions.                *)
(***************************************************************************)

CONSTANTS Keys, Values

VARIABLES
    written,      \* the pairs <<key, value>> of the ledger
    acknowledged  \* the pairs some process was told it had saved

vars == <<written, acknowledged>>

Init == written = {} /\ acknowledged = {}

Write(k, v) ==
    /\ \A kv \in written : kv[1] # k
    /\ written' = written \cup {<<k, v>>}
    /\ UNCHANGED acknowledged

Acknowledge(k, v) ==
    /\ <<k, v>> \in written
    /\ acknowledged' = acknowledged \cup {<<k, v>>}
    /\ UNCHANGED written

Next == \E k \in Keys, v \in Values : Write(k, v) \/ Acknowledge(k, v)

Spec == Init /\ [][Next]_vars
=============================================================================
