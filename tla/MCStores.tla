------------------------------- MODULE MCStores -------------------------------
(* Instances for TLC of two stores that share no state: the tombstone ledger   *)
(* and its key (TombstoneLedger), and the vault under restores and snapshots   *)
(* (VaultRestore). A behaviour checks one of them, chosen at the start; the    *)
(* variables of the other stay as they are.                                    *)
EXTENDS TombstoneLedger, VaultRestore, TLC

CONSTANTS x, y, k1, k2, r, n, p, c

VARIABLE part

storesVars == <<part, ledgerVars, restoreVars>>

------------------------------------------------------------------------------
(* A ledger file touched once, and an upgraded deployment whose key file is    *)
(* touched twice; either may also be left alone.                               *)

TwoItems  == {x, y}
TwoKids   == {k1, k2}
OneReader == {r}
Deployment(old, ledgerFaults, keyFaults) ==
    [inherited |-> old, ledgerFaults |-> ledgerFaults, keyFaults |-> keyFaults]
Operated  == {Deployment({}, 1, 0), Deployment({x}, 0, 2)}

------------------------------------------------------------------------------
(* A live note and a proposal; the snapshot is from before n was promoted.     *)

AllNotes   == {n, p, c}
OneCapture == {c}
Vault      == (Archive :> {}) @@ (Inbox :> {p}) @@ (Projects :> {n})
Earlier    == (Inbox :> {n}) @@ (Projects :> {})

------------------------------------------------------------------------------
\* The store that is not checked stays in its initial state.
Init == /\ part \in {"ledger", "vault"}
        /\ LedgerInit /\ RestoreInit
        /\ part = "vault" => touched.of.inherited = {}

Next == \/ part = "ledger" /\ LedgerNext /\ UNCHANGED <<part, restoreVars>>
        \/ part = "vault" /\ RestoreNext /\ UNCHANGED <<part, ledgerVars>>

Spec == Init /\ [][Next]_storesVars
=============================================================================
