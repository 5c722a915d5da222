------------------------------- MODULE SlotPool ------------------------------
(***************************************************************************)
(* The connection pool to someone who only counts: Size slots, each free,   *)
(* out with a user, or forgotten for ever.  Module ClickHousePool, whose    *)
(* connections are objects that break and are replaced, implements Spec.    *)
(* Each worker of module FeatureApi keeps a count, and its handlers make no *)
(* use of execute: it implements ServerSpec, which forgets no slot.         *)
(***************************************************************************)
EXTENDS Naturals

CONSTANT Size

VARIABLES free,   \* connections in the queue
          out     \* connections in the hands of users

Init == free = Size /\ out = 0

Take   == free > 0 /\ free' = free - 1 /\ out' = out + 1
Give   == out > 0 /\ free' = free + 1 /\ out' = out - 1
Forget == out > 0 /\ out' = out - 1 /\ UNCHANGED free

\* The pool is drained when nobody is inside.
Close == out = 0 /\ free' = 0 /\ UNCHANGED out

\* The process starts anew.
Restart == Init'

Next == Take \/ Give \/ Forget \/ Close

Spec == Init /\ [][Next]_<<free, out>>

\* A server that only gets and puts, and that may be restarted.
ServerNext == Take \/ Give \/ Restart

ServerSpec == Init /\ [][ServerNext]_<<free, out>>
=============================================================================
