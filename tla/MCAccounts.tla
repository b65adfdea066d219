----------------------------- MODULE MCAccounts -----------------------------
EXTENDS Accounts, TLC

\* Two spellings of one address.
MCEmail == {"ann", "Ann"}
MCLower == [e \in MCEmail |-> "ann"]

\* The administrator's token comes from outside: this code mints none.
MCMintedElsewhere == {[user |-> None, type |-> "admin", via |-> None]}

\* Ids and requests are only compared.
MCSymmetry == Permutations(UserID) \cup Permutations(DomainID) \cup Permutations(Request)
=============================================================================
