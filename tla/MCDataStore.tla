---------------------------- MODULE MCDataStore ----------------------------
(* Small instances of DataStore for TLC. *)
EXTENDS DataStore

MCTexts == {"", "t"}
MCPasswords == {"p1", "p2"}

\* Failures after which the transaction is still there.
MCKeepingFaults == {"busy", "stmtFail", "commitFail", "upgradeFail", "rekeyFail"}
MCAllFaults == MCKeepingFaults \cup TransactionFaults
=============================================================================
