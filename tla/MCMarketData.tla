---------------------------- MODULE MCMarketData ----------------------------
(* One run for what is done with market data before it is stored: the local  *)
(* order book, one request of a provider, and the consensus of their        *)
(* candles.  They share nothing: a behaviour uses one of the three.         *)
EXTENDS LocalBook, ProviderClient, PriceConsensus

VARIABLE used  \* the component that a behaviour uses

\* A delta lists exactly what changed, or every level of the book.
MCExtras == {{}, Levels}

\* Less than nothing, nothing, less and more than the first pause, and more
\* than the cap.
MCAsks == {-1, 0, 1, 3, 5}

\* The initial book matters to the order book only.
MCInit ==
    /\ Init /\ RequestInit /\ ConsensusInit
    /\ used \in {"book", "request", "consensus"}
    /\ used # "book" => history = CHOOSE h \in {<<[book |-> b, time |-> 0]>> :
                                        b \in {x \in Books : ~Invalid(x)}} : TRUE

MCNext ==
    /\ UNCHANGED used
    /\ \/ used = "book" /\ Next /\ UNCHANGED <<requestVars, candles>>
       \/ used = "request" /\ RequestNext /\ UNCHANGED <<vars, candles>>
       \/ used = "consensus" /\ Collect /\ UNCHANGED <<vars, requestVars>>

MCSpec == MCInit /\ [][MCNext]_<<used, vars, requestVars, candles>>
=============================================================================
