-------------------------- MODULE StackerSetRequests --------------------------
(***************************************************************************)
(* What StackerSetUpdator promises the rest of the service, whatever its   *)
(* queue does: a requested cycle is wanted until its set has been stored   *)
(* or the node has no set for it, only wanted cycles are written, and      *)
(* nothing is once stop() has returned.                                    *)
(***************************************************************************)
EXTENDS Naturals

CONSTANTS
  Cycles,   \* reward cycle numbers
  PrePox4   \* the cycles of before PoX-4, which have no stacker set

VARIABLES
  wanted,   \* requested cycles that are not settled
  stored,   \* how often the set of a cycle has been written
  phase     \* "running", "stopping" or "stopped"

vars == <<wanted, stored, phase>>

Init ==
  /\ wanted = {}
  /\ stored = [c \in Cycles |-> 0]
  /\ phase = "running"

Request(c) ==
  /\ phase = "running"
  /\ wanted' = wanted \cup {c}
  /\ UNCHANGED <<stored, phase>>

Store(c) ==
  /\ phase # "stopped"
  /\ c \in wanted
  /\ stored' = [stored EXCEPT ![c] = @ + 1]
  /\ UNCHANGED <<wanted, phase>>

Settle(c) ==
  /\ c \in wanted
  /\ stored[c] > 0 \/ c \in PrePox4
  /\ wanted' = wanted \ {c}
  /\ UNCHANGED <<stored, phase>>

\* Requests that stop() overtakes are forgotten.
Drop(c) ==
  /\ phase # "running"
  /\ wanted' = wanted \ {c}
  /\ UNCHANGED <<stored, phase>>

Stop ==
  /\ phase = "running"
  /\ phase' = "stopping"
  /\ UNCHANGED <<wanted, stored>>

Stopped ==
  /\ phase = "stopping"
  /\ phase' = "stopped"
  /\ UNCHANGED <<wanted, stored>>

Next ==
  \/ \E c \in Cycles : Request(c) \/ Store(c) \/ Settle(c) \/ Drop(c)
  \/ Stop
  \/ Stopped

Spec == Init /\ [][Next]_vars
==============================================================================
