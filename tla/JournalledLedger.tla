-------------------------- MODULE JournalledLedger --------------------------
(***************************************************************************)
(* The ledger implements the double-entry ledger of Journal: whatever a    *)
(* handler or a step of the batch does, the book and the balances see one  *)
(* balanced movement, or nothing.                                          *)
(***************************************************************************)
EXTENDS LedgerProperties

Book == INSTANCE Journal WITH
    holders <- [a \in DOMAIN accounts |->
                   [tenant |-> accounts[a].tenant, allowNegative |-> accounts[a].allowNegative]],
    book <- entriesByTxId

\* Posting, resending, reversing and sweeping are postings of balanced
\* movements within one tenant that overdraw no guarded account; nothing that
\* was posted is ever changed or withdrawn, and no balance moves otherwise,
\* also when a call fails or a batch stops between two lots.
IsJournal == Book!Spec
=============================================================================
