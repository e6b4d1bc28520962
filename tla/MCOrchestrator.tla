--------------------------- MODULE MCOrchestrator ---------------------------
(***************************************************************************)
(* Small chains for Orchestrator.                                          *)
(***************************************************************************)
EXTENDS Orchestrator

CONSTANTS p1, p2

Ev(k, p, b) == [kind |-> k, pool |-> p, block |-> b]

MCPools == {p1, p2}
MCHandleable == {p1}

\* A profile, then a pool whose strategy announces its timestamps first, in the
\* block of the pool, then an event of that strategy and one of a strategy this
\* build does not know.  With batches of two, a batch ends inside block 2.
MCLog == << Ev("Other", p1, 1),
            Ev("TimestampsUpdated", p1, 2), Ev("PoolCreated", p1, 2),
            Ev("Strategy", p1, 3), Ev("Strategy", p2, 3) >>

\* The pool first, then what its handler may refuse or pass over.
MCShortLog == << Ev("PoolCreated", p1, 1), Ev("Strategy", p1, 1),
                 Ev("Unsupported", p1, 2), Ev("Strategy", p2, 2) >>
=============================================================================
