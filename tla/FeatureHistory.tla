---------------------------- MODULE FeatureHistory ----------------------------
(***************************************************************************)
(* What the feature store promises to whoever reads it with FINAL: for each *)
(* user one feature vector per snapshot time, written snapshot by snapshot.  *)
(* A snapshot may arrive in several pieces, and may be written again, but    *)
(* once the pipeline has moved on to a later one it is history and frozen.   *)
(***************************************************************************)
EXTENDS Naturals

CONSTANTS Users, Times, Features,
          NoRow      \* there is no row for this user and time

VARIABLES table,     \* table[u][t]: what FINAL reads for user u, snapshot t
          frontier   \* the snapshot being written, or written last

Init ==
  /\ table = [u \in Users |-> [t \in Times |-> NoRow]]
  /\ frontier = 0

Advance ==
  /\ frontier' \in {t \in Times : t >= frontier}
  /\ UNCHANGED table

Publish ==
  /\ \A u \in Users : \E f \in Features \cup {table[u][frontier]} :
       table'[u] = [table[u] EXCEPT ![frontier] = f]
  /\ DOMAIN table' = Users
  /\ UNCHANGED frontier

Next == Advance \/ Publish

Spec == Init /\ [][Next]_<<table, frontier>>
=============================================================================
