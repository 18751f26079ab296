---------------------------- MODULE MCListeners ----------------------------
(***************************************************************************)
(* Two listeners that want the same port or each its own, two requests     *)
(* under way, one connection, one failure of Listen or Accept.  The two    *)
(* requests are alike, and so are the two forms of the shared settings     *)
(* that enable the gateway, hence the symmetry; listeners and runtimes are *)
(* ordered, so they are numbers.                                           *)
(***************************************************************************)
EXTENDS Listeners, TLC

CONSTANTS b, b2, off, w1, w2, c1

\* A listener keeps its port and changes all the same with the shared settings.
MCSpec == {[port |-> 1], [port |-> 2]}

\* Both listeners run; requests change, disable and bring back either.
MCFirst == {<<[port |-> 1], [port |-> 2]>>}

Symmetry == {p @@ q : p \in Permutations({w1, w2}), q \in Permutations({b, b2})}
=============================================================================
