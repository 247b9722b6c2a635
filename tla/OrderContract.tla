---------------------------- MODULE OrderContract ----------------------------
(***************************************************************************)
(* What the paper exchange promises about the status of an order, with     *)
(* nothing about how it keeps it: an order appears accepted or rejected,   *)
(* moves only along the lifecycle table, and a restart may forget at most  *)
(* the last two moves of each order.  PaperExchange implements it.         *)
(***************************************************************************)
EXTENDS OrderLifecycle

CONSTANT Ids           \* client order identifiers

VARIABLE status        \* status[o]: where order o stands, "ABSENT" if unknown

ContractStatus == OrderStatus \cup {"ABSENT"}

\* One move of an order.  PENDING is never observable: an order is born
\* ACCEPTED or REJECTED.
LifecycleEdge(s, t) ==
  IF s = "ABSENT" THEN t \in {"ACCEPTED", "REJECTED"}
                  ELSE t \in LegalTransitions(s)

ContractInit == status = [o \in Ids |-> "ABSENT"]

Move(o) ==
  \E t \in OrderStatus :
    /\ LifecycleEdge(status[o], t)
    /\ status' = [status EXCEPT ![o] = t]

\* Status s is at most two moves behind status t.
Behind(s, t) ==
  \/ s = t
  \/ LifecycleEdge(s, t)
  \/ \E m \in OrderStatus : LifecycleEdge(s, m) /\ LifecycleEdge(m, t)

\* After a restart an order stands where it stood or at most two moves before.
Restart ==
  /\ status' \in [Ids -> ContractStatus]
  /\ \A o \in Ids : Behind(status'[o], status[o])

ContractNext == (\E o \in Ids : Move(o)) \/ Restart

ContractSpec == ContractInit /\ [][ContractNext]_status

=============================================================================
