------------------------------ MODULE MCBuyer ------------------------------
(***************************************************************************)
(* Small instances of Buyer for TLC: one payer signs every payment.        *)
(***************************************************************************)
EXTENDS Buyer, TLC

MCPayerOf == [t \in Txs |-> CHOOSE p \in Payers : TRUE]

MCLastValid == [t \in Txs |-> 1]

Symmetry ==
    Permutations(Watches) \cup Permutations(Requests) \cup Permutations(Keys)
        \cup Permutations(Txs) \cup Permutations(Commands)
=============================================================================
