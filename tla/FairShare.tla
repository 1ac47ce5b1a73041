------------------------------ MODULE FairShare ------------------------------
(***************************************************************************)
(* What the default scheduling promises: a deployment goes to a target for *)
(* which priority / (number of its deployments + 1) is highest.  Applied   *)
(* again and again this shares the deployments out in proportion to the    *)
(* priorities: no target has a deployment that another one had a better    *)
(* claim to.                                                               *)
(*                                                                         *)
(* A deployment that is removed may be counted for a while, or for good if *)
(* it is never forgotten.                                                  *)
(***************************************************************************)
EXTENDS Integers

CONSTANTS
  Targets,   \* the targets that the default scheduling chooses from
  Priority   \* their priorities

VARIABLES
  load,       \* the number of deployments of each target
  lingering,  \* the number of removed ones that may still be counted
  removed,    \* the number of all that were ever removed
  steady      \* so far every deployment was assigned by the default
              \* scheduling, which knew of all before it

vars == <<load, lingering, removed, steady>>

\* What t may be taken to have.
Counts(t) == load[t] .. load[t] + lingering[t]

\* The claim of t to one more deployment is at least that of u.
Claims(t, u) ==
  \E n \in Counts(t), m \in Counts(u) : Priority[t] * (m + 1) >= Priority[u] * (n + 1)

Init ==
  /\ load = [t \in Targets |-> 0] /\ lingering = load /\ removed = load
  /\ steady = TRUE

Assign(t) ==
  /\ \A u \in Targets : Claims(t, u)
  /\ load' = [load EXCEPT ![t] = @ + 1]
  /\ UNCHANGED <<lingering, removed, steady>>

Remove(t) ==
  /\ load' = [load EXCEPT ![t] = @ - 1]
  /\ lingering' = [lingering EXCEPT ![t] = @ + 1]
  /\ removed' = [removed EXCEPT ![t] = @ + 1]
  /\ UNCHANGED steady

Forget(t) ==
  /\ lingering' = [lingering EXCEPT ![t] = @ - 1]
  /\ UNCHANGED <<load, removed, steady>>

Disturb ==
  /\ load' \in [Targets -> Nat] /\ steady' = FALSE
  /\ UNCHANGED <<lingering, removed>>

Next == Disturb \/ \E t \in Targets : Assign(t) \/ Remove(t) \/ Forget(t)

Spec == Init /\ [][Next]_vars

-----------------------------------------------------------------------------
\* What the theorem about the shares assumes: no priority is negative.
PrioritiesAreNat == Priority \in [Targets -> Nat]

\* As long as nothing disturbs the scheduling, the last deployment of each
\* target was due to it: its priority over the deployments it has is at least
\* the priority of every other target over those that one would have next,
\* where the other target's removed deployments count as well.
Balanced ==
  steady =>
    \A t, u \in Targets :
      load[t] > 0 => Priority[t] * (load[u] + removed[u] + 1) >= Priority[u] * load[t]
=============================================================================
