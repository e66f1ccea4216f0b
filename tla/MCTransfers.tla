---------------------------- MODULE MCTransfers ----------------------------
(***************************************************************************)
(* Every list of five rows of two accounts within three time units around  *)
(* a window of two.  The lists are in order of time: only the order among  *)
(* equal times depends on the position, and every such order occurs.       *)
(***************************************************************************)
EXTENDS Transfers

CONSTANTS a, b

Positions == 1 .. 5

Times == { t \in [Positions -> 0 .. 3] : t[1] = 0 /\ \A p \in 1 .. 4 : t[p] <= t[p + 1] }

Owners == { o \in [Positions -> Accounts] : o[1] = a }

Sizes == [Positions -> {-1, 1, 2}]

Lists == { [p \in Positions |-> [account |-> o[p], at |-> t[p], amount |-> s[p]]] :
             t \in Times, o \in Owners, s \in Sizes }

=============================================================================
