---------------------------- MODULE EventLedger ----------------------------
(***************************************************************************)
(* What the processing of one chain promises to the tables of the          *)
(* database: the events of the chain are considered one after the other in *)
(* the order of the chain, none is considered twice, and each one either   *)
(* has its changes stored (Deliver) or is left behind for good (Pass).     *)
(* The ledger does not promise that no event is left behind: which ones    *)
(* may be is the business of the implementation.                           *)
(***************************************************************************)
EXTENDS Naturals, Sequences

CONSTANT Size  \* number of events the chain will ever emit

VARIABLES cursor,     \* number of events the ledger has gone past
          delivered   \* the events whose changes are stored, in commit order

ledgerVars == <<cursor, delivered>>

LedgerTypeOK ==
    /\ cursor \in 0..Size
    /\ delivered \in Seq(1..Size)

LedgerInit ==
    /\ cursor = 0
    /\ delivered = <<>>

Deliver ==
    /\ cursor < Size
    /\ cursor' = cursor + 1
    /\ delivered' = Append(delivered, cursor + 1)

Pass ==
    /\ cursor < Size
    /\ cursor' = cursor + 1
    /\ UNCHANGED delivered

LedgerNext == Deliver \/ Pass

LedgerSpec == LedgerInit /\ [][LedgerNext]_ledgerVars
=============================================================================
