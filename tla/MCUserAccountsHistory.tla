------------------------ MODULE MCUserAccountsHistory ------------------------
\* The accounts of MCUserAccounts, with the memory of UserAccountsHistory.
EXTENDS MCUserAccounts, UserAccountsHistory
=============================================================================
