------------------------------ MODULE MCSwTimer ------------------------------
(* Instances of SwTimer for TLC. *)
EXTENDS SwTimer

\* More than the callbacks of this program do: each of them arms its own timer
\* or none.
MCMayArmOwn == [i \in Slots |-> 1 .. i]
=============================================================================
