---------------------------- MODULE MCSettlement ----------------------------
(***************************************************************************)
(* Small instances of Settlement for TLC.                                  *)
(***************************************************************************)
EXTENDS Settlement, TLC

CONSTANTS w1, w2, p1, p2, t1, t2, k1, k2

MCPayerOf == (t1 :> p1) @@ (t2 :> p2)

MCSamePayer == (t1 :> p1) @@ (t2 :> p1)

MCLastValid == [t \in Txs |-> 2]

MCTxPage == [t \in Txs |-> LastPage]

MCMiddlePage == [t \in Txs |-> 1]

Symmetry == Permutations(Watches) \cup Permutations(Requests)

(* One purchase is followed through every proof, crash and retry.  Two that *)
(* compete for a payment, a key or the free places are followed on a short  *)
(* chain, until each was claimed once, or up to the sweep after a crash.     *)
Explored ==
    \/ \E q \in Requests : req[q].pc = "idle"
    \/ /\ crashes <= 1 /\ Tip <= 2
       /\ \A w \in Watches : db[w].used <= 1 - crashes
=============================================================================
