--------------------------- MODULE MCProjectItems ---------------------------
(* Calls are interchangeable, so they may as well arrive in a fixed order: a *)
(* symmetry reduction that liveness allows.                                  *)
EXTENDS ProjectItems, Sequences

CONSTANTS c1, c2, c3, c4
Queue == <<c1, c2, c3, c4>>

ArriveInOrder ==
  \E i \in DOMAIN Queue :
    (\A j \in 1 .. i - 1 : pc[Queue[j]] # "idle") /\ Arrive(Queue[i])

NextInOrder ==
  \/ ArriveInOrder
  \/ \E c \in Calls : Serve(c) \/ ConnectionLost(c) \/ ConnectFails(c)
  \/ ArchiveProject
  \/ \E e \in Editions : ArchiveEdition(e)

SpecInOrder == Init /\ [][NextInOrder]_vars /\ Fairness
=============================================================================
