--------------------------- MODULE MCIndexerClient ---------------------------
(***************************************************************************)
(* A small instance of IndexerClient for TLC.                              *)
(***************************************************************************)
EXTENDS IndexerClient

CONSTANTS a, b

MCWatches ==
    {[sender |-> s, receiver |-> b, asset |-> 1, amount |-> 2, note |-> n,
      activation |-> 0, deadline |-> 2] : s \in {a, Zero}, n \in {None, <<7>>}}

MCProbeWatch ==
    [sender |-> a, receiver |-> a, asset |-> 1, amount |-> 1, note |-> <<9>>,
     activation |-> 0, deadline |-> 0]

(* The transfer a watch of a waits for. *)
Paid ==
    [id |-> 1, type |-> "axfer", fields |-> TRUE, round |-> 1, time |-> 1,
     sender |-> a, receiver |-> b, assetSender |-> None, asset |-> 1, amount |-> 2,
     note |-> <<7>>, close |-> "none", envelope |-> TRUE, nested |-> FALSE,
     tree |-> <<>>, depth |-> 0]

(* It and its neighbours: what differs in one or two respects. *)
Transfers ==
    {[Paid EXCEPT !.sender = s, !.receiver = r, !.assetSender = c, !.close = x] :
        s \in {a, b, Zero}, r \in {a, b}, c \in {None, a}, x \in {"none", "to"}}
    \cup {[Paid EXCEPT !.asset = s, !.amount = n, !.note = o] :
        s \in {1, 2}, n \in 1..3, o \in {None, <<7>>}}
    \cup {[Paid EXCEPT !.note = o, !.sender = e] :
        o \in {None, <<7, 7>>, <<9>>}, e \in {a, Zero}}
    \cup {[Paid EXCEPT !.round = r, !.time = t] : r \in 1..2, t \in 1..2}

Call(tree) ==
    [Paid EXCEPT !.type = "appl", !.envelope = FALSE, !.nested = (tree # <<>>), !.tree = tree]

Inner(t, depth) == [t EXCEPT !.depth = depth, !.tree = <<>>, !.nested = FALSE]

Calls ==
    {Call(<<Inner(t, 1)>>) : t \in {Paid, [Paid EXCEPT !.amount = 1], [Paid EXCEPT !.sender = b]}}
    \cup {Call(<<[Inner(Call(<<>>), 1) EXCEPT !.nested = TRUE], Inner(Paid, 2)>>)}

(* What only a faulty provider returns. *)
Faulty ==
    {[Paid EXCEPT !.fields = FALSE], [Paid EXCEPT !.nested = TRUE], [Paid EXCEPT !.close = "amount only"],
     [Paid EXCEPT !.type = "pay"], [Paid EXCEPT !.type = "pay", !.envelope = FALSE], [Paid EXCEPT !.round = 0],
     Call(<<>>), Call(<<Inner(Paid, 3)>>), Call(<<[Inner(Paid, 1) EXCEPT !.round = 2]>>),
     Call(<<Inner(Paid, 1), Inner(Paid, 1), Inner(Paid, 1)>>)}

Second(t) == [t EXCEPT !.id = 2]

MCChains ==
    {<<>>} \cup {<<t>> : t \in Transfers \cup Calls}
    \cup {<<t, Second(u)>> : t, u \in {Paid, [Paid EXCEPT !.note = <<7, 7>>], [Paid EXCEPT !.round = 2],
                                    [Paid EXCEPT !.assetSender = b]} \cup Calls}

MCPages ==
    {{}} \cup {{t} : t \in Transfers \cup Calls \cup Faulty}
    \cup {{Paid, Second(t)} : t \in Calls \cup Faulty}

(* A provider that may say anything is met on an empty chain, where what it *)
(* says is all there is; on the others it is honest.                        *)
Explored == chain = <<>> \/ reply = None \/ honest
=============================================================================
