--------------------------- MODULE MCStoreOpening ---------------------------
(***************************************************************************)
(* A small instance of StoreOpening for TLC: payments t1 and t2 are of     *)
(* payer p1, any other is of p2.                                           *)
(***************************************************************************)
EXTENDS StoreOpening, TLC

CONSTANTS p1, p2, t1, t2

MCPayerOf == [t \in Txs |-> IF t \in {t1, t2} THEN p1 ELSE p2]

Symmetry == Permutations(Watches) \cup Permutations(Keys) \cup Permutations({t1, t2})

Rows == {w \in Watches : db[w].state # "absent"}

Fresh(row) ==
    /\ row.used = 0 /\ row.attempts = 0 /\ row.failures = 0
    /\ {row.scanAfter, row.closing, row.matchedRound} \subseteq {None, 1}

Quiet ==
    /\ openings <= 1 /\ server = "serving"
    /\ \A r \in Recorders : recorder[r] = NoCall
    /\ \A x \in RefundTxs : refunds[x] = None

(* One row is followed through all its calls; several rows, restarts and   *)
(* recorders through those that decide on admission, and restarts and      *)
(* recorders beside one row at most.                                       *)
Explored ==
    \/ Quiet /\ Cardinality(Rows) <= 1
    \/ (\A w \in Rows : Fresh(db[w])) /\ (Quiet \/ Cardinality(Rows) <= 1)
=============================================================================
