---------------------------- MODULE LaggingReplica ---------------------------
(***************************************************************************)
(* What change data capture promises to the reader of a bronze table with  *)
(* FINAL: every row is shown as it was after one of its changes, and never *)
(* as it was earlier than it has been shown before.                        *)
(***************************************************************************)
EXTENDS Naturals

CONSTANT Rows

VARIABLES changes,  \* changes[r]: the numbers of the changes of row r
          shown     \* shown[r]: the change after which r is shown, 0 if it is not

Init ==
  /\ changes = [r \in Rows |-> {}]
  /\ shown = [r \in Rows |-> 0]

\* Row r is changed; numbers grow.
Change(r) ==
  /\ \E n \in changes'[r] :
       /\ \A m \in changes[r] : m < n
       /\ changes' = [changes EXCEPT ![r] = @ \cup {n}]
  /\ UNCHANGED shown

\* The replica moves on, for one row or for several.
Follow ==
  /\ shown' = [r \in Rows |-> shown'[r]]
  /\ \A r \in Rows : shown'[r] = shown[r] \/ (shown'[r] > shown[r] /\ shown'[r] \in changes[r])
  /\ UNCHANGED changes

Next == (\E r \in Rows : Change(r)) \/ Follow

Spec == Init /\ [][Next]_<<changes, shown>>
=============================================================================
