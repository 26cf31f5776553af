---------------------------- MODULE Declarations ----------------------------
(***************************************************************************)
(* What the pending store promises about declared upgrades, whoever calls  *)
(* it and in whatever order (pending.Store): an upgrade is declared once,  *)
(* under an id nothing else ever has, and once it is gone - cancelled,     *)
(* judged, found stale, forgotten or lost in a restart - it never returns. *)
(***************************************************************************)
EXTENDS Naturals

CONSTANT Tags

VARIABLES live,  \* the <<tag, id>> pairs currently declared
          next   \* ids below this one have been handed out

vars == <<live, next>>

Init == live = {} /\ next = 1

Declare == \E t \in Tags : /\ live' = live \cup {<<t, next>>}
                           /\ next' = next + 1

Withdraw == /\ live' \subseteq live
            /\ next' = next

Next == Declare \/ Withdraw

Spec == Init /\ [][Next]_vars
=============================================================================
