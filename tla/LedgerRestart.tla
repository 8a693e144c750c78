---------------------------- MODULE LedgerRestart ----------------------------
(***************************************************************************)
(* What a restart makes of a ledger (snapshot and importState in           *)
(* src/services/ledger-service.ts).  The maps of lists are saved as flat   *)
(* lists and grouped again, and the reversal index is not saved at all: it *)
(* is rebuilt from the transactions.  Accounts, balances, lots and the     *)
(* audit log are saved as they are.                                        *)
(***************************************************************************)
EXTENDS LedgerProperties, SequencesExt

\* snapshot: the entries of all transactions, one after the other.
SavedEntries ==
    FlattenSeq([tx \in DOMAIN transactions |->
        [i \in DOMAIN entriesByTxId[tx] |-> [tx |-> tx, entry |-> entriesByTxId[tx][i]]]])

SavedConsumptions ==
    UNION {{[tx |-> tx, lot |-> l, amount |-> consumptionsBySpendTx[tx][l]] :
               l \in DOMAIN consumptionsBySpendTx[tx]} : tx \in DOMAIN transactions}

\* Faulty variant: a group is begun anew by each of its entries.
GroupedAnew(saved) ==
    [tx \in {saved[i].tx : i \in DOMAIN saved} |->
        << saved[CHOOSE i \in DOMAIN saved :
              saved[i].tx = tx /\ \A j \in DOMAIN saved : j > i => saved[j].tx # tx].entry >>]

\* map.get(tx) ?? []
At(map, tx) == IF tx \in DOMAIN map THEN map[tx] ELSE <<>>

\* importState: each saved entry is put behind those of its transaction.
Grouped(saved) ==
    LET groups[n \in 0 .. Len(saved)] ==
            IF n = 0 THEN <<>>
            ELSE LET before == groups[n - 1]
                     own == saved[n].tx
                 IN  [tx \in DOMAIN before \cup {own} |->
                         IF tx = own THEN Append(At(before, own), saved[n].entry) ELSE before[tx]]
    IN  groups[Len(saved)]

GroupedConsumptions(saved) ==
    [tx \in {one.tx : one \in saved} |->
        [l \in {one.lot : one \in {c \in saved : c.tx = tx}} |->
            (CHOOSE one \in saved : one.tx = tx /\ one.lot = l).amount]]

\* reversalOfTxId of the transactions; of two that name one source the later
\* would win.
RebuiltReversals ==
    [src \in {transactions[tx].reversalOf : tx \in DOMAIN transactions} \ {Null} |->
        CHOOSE tx \in DOMAIN transactions :
            /\ transactions[tx].reversalOf = src
            /\ \A later \in DOMAIN transactions : later > tx => transactions[later].reversalOf # src]

\* A process that loads what another saved works on the same journal: each
\* transaction has its entries, in their order, and its consumptions, also
\* when it had none, and what was reversed cannot be reversed again.
RestartKeepsJournal ==
    /\ \A tx \in DOMAIN transactions :
          /\ At(Grouped(SavedEntries), tx) = entriesByTxId[tx]
          /\ At(GroupedConsumptions(SavedConsumptions), tx) = consumptionsBySpendTx[tx]
    /\ RebuiltReversals = reversalBySourceTxId
=============================================================================
