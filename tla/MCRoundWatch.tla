---------------------------- MODULE MCRoundWatch ----------------------------
(***************************************************************************)
(* A small instance of RoundWatch for TLC.                                  *)
(***************************************************************************)
EXTENDS RoundWatch, TLC

MCPayerOf == [t \in Txs |-> CHOOSE p \in Payers : TRUE]

MCLastValid == [t \in Txs |-> 1]

MCTxPage == [t \in Txs |-> LastPage]

=============================================================================
