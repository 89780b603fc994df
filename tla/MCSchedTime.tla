----------------------------- MODULE MCSchedTime -----------------------------
EXTENDS SchedTime
MCPrio == [t \in 1 .. TaskNum |-> IF t = 1 THEN 5 ELSE 6]

(* OsAddNode2SortLink on longer links than two tasks make: the new node is  *)
(* put into an ordered link of up to three others, whatever the times, the  *)
(* link stays ordered and the others keep their places in it.               *)
InOrder(link, resp) ==
    \A i, j \in DOMAIN link : i < j => resp[link[i]] <= resp[link[j]]
ASSUME SortLinkInsertion ==
    \A resp \in [1 .. 4 -> 0 .. 2], n \in 0 .. 3 :
        \A link \in [1 .. n -> 1 .. 3] :
            IsInjective(link) /\ InOrder(link, resp) =>
                LET new == OsAddNode2SortLink([link |-> link, resp |-> resp], 4).link
                IN  /\ InOrder(new, resp) /\ Len(new) = n + 1 /\ 4 \in Range(new)
                    /\ SelectSeq(new, LAMBDA t : t # 4) = link
==============================================================================
