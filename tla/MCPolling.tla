----------------------------- MODULE MCPolling -----------------------------
(***************************************************************************)
(* A small instance of Polling for TLC.                                    *)
(***************************************************************************)
EXTENDS Polling, TLC

CONSTANT s1

MCPayerOf == [t \in Txs |-> CHOOSE p \in Payers : TRUE]

MCLastValid == [t \in Txs |-> 1]

Symmetry == Permutations(Watches) \cup Permutations(Keys) \cup Permutations(Txs)

(* A transfer with other terms is to a watch as none, so that the chain    *)
(* pays s1 or nobody.  One watch is followed as far as the constants allow;*)
(* two, which share the sweep's tip and the page cache, on a shorter chain,*)
(* with fewer claims and without a crash.                                  *)
Explored ==
    /\ \A r \in DOMAIN blocks : blocks[r].pays \in {None, s1}
    /\ \/ \E w \in Watches :
            db[w].spec = s1 /\ \A v \in Watches \ {w} : db[v].state = "absent"
       \/ /\ Tip < MaxRound
          /\ crashes = 0
          /\ MapThenSumSet(LAMBDA w : db[w].used, Watches) <= 3
=============================================================================
