---------------------------- MODULE SnapshotStore ----------------------------
(***************************************************************************)
(* What a snapshot store promises (internal/store.Store and Forget),       *)
(* whatever is behind it: snapshots come one at a time, each village's     *)
(* newest is never taken by a trim or a prune, only by forgetting the      *)
(* village, and a store in memory loses all of them at once.               *)
(***************************************************************************)
EXTENDS Integers

CONSTANTS
  Tags,     \* village tags
  Volatile  \* whether the store dies with its process

VARIABLES
  held,       \* held[t]: the capture times of the snapshots of village t
  forgetting  \* villages whose snapshots a forget may be taking away

vars == <<held, forgetting>>

\* Nothing is taken away but what something newer or as new stands for.
Spares(before, after) == \A at \in before : \E newer \in after : newer >= at

Init == held = [t \in Tags |-> {}] /\ forgetting \subseteq Tags

\* At most one snapshot more, in one village; older ones may be trimmed.
Save == \E t \in Tags :
  /\ held'[t] \subseteq Nat
  /\ \A new, other \in held'[t] \ held[t] : new = other
  /\ Spares(held[t], held'[t])
  /\ \A other \in Tags \ {t} : held'[other] = held[other]
  /\ UNCHANGED forgetting

Prune ==
  /\ \A t \in Tags : held'[t] \subseteq held[t] /\ Spares(held[t], held'[t])
  /\ UNCHANGED forgetting

\* All of a village's snapshots go, or some if it is cut short.
Forget ==
  /\ \A t \in Tags : held'[t] \subseteq held[t]
  /\ \A t \in Tags \ forgetting : held'[t] = held[t]

\* A forget begins, or is over.
Turn == forgetting' \subseteq Tags /\ UNCHANGED held

Restart ==
  /\ Volatile
  /\ held' = [t \in Tags |-> {}]
  /\ forgetting' \subseteq Tags

Next == Save \/ Prune \/ Forget \/ Turn \/ Restart

Spec == Init /\ [][Next]_vars
=============================================================================
