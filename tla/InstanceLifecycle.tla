-------------------------- MODULE InstanceLifecycle --------------------------
(***************************************************************************)
(* What an Instance promises to those who depend on it: what it needs is   *)
(* acquired under the protection of its finalizer, the Installation last;  *)
(* it is given up in the deletion only, the Installation first; then the   *)
(* Instance leaves the list of its ServiceTargetConfig, and then it goes.  *)
(* Another one may be created under its name.                              *)
(*                                                                         *)
(* Module Instances implements this with all objects of an Instance, and   *)
(* module LandscaperDeployments, which does not see them, for each of its  *)
(* Instances: the one shows what the other takes the Instance controller   *)
(* to do.                                                                  *)
(***************************************************************************)
CONSTANTS
  Objects,      \* what Instances hold
  Installation  \* the one of them that needs others

VARIABLES
  state,     \* of the Instance
  finalizer, \* it has its finalizer
  needs,     \* what its Installation needs
  held,      \* what it refers to
  listed,    \* its ServiceTargetConfig lists it
  released,  \* it was taken out of that list for its end
  target     \* its ServiceTargetConfig exists

vars == <<state, finalizer, needs, held, listed, released, target>>

Init ==
  /\ state \in {"absent", "present"}
  /\ finalizer = FALSE /\ needs \in SUBSET (Objects \ {Installation}) /\ held = {} /\ listed = FALSE
  /\ released = FALSE /\ target \in BOOLEAN

\* The ServiceTargetConfig has been chosen before, and may have gone since; it
\* may list an Instance of this name that was.
Create ==
  /\ state = "absent" /\ state' = "present"
  /\ target' \in BOOLEAN /\ listed' \in BOOLEAN
  /\ UNCHANGED <<needs, finalizer, held, released>>

Protect ==
  /\ state = "present" /\ finalizer' = TRUE
  /\ UNCHANGED <<needs, state, held, listed, released, target>>

Acquire(k) ==
  /\ state = "present" /\ finalizer
  /\ k = Installation => needs \subseteq held
  /\ held' = held \cup {k}
  /\ UNCHANGED <<needs, state, finalizer, listed, released, target>>

\* The list is written by those who schedule, at any time.
Enlist ==
  /\ listed' = TRUE
  /\ UNCHANGED <<needs, state, finalizer, held, released, target>>

LoseTarget ==
  /\ target /\ target' = FALSE /\ listed' = FALSE
  /\ UNCHANGED <<needs, state, finalizer, held, released>>

Delete ==
  /\ state = "present"
  /\ state' = IF finalizer THEN "deleting" ELSE "absent"
  /\ UNCHANGED <<needs, finalizer, held, listed, released, target>>

GiveUp(k) ==
  /\ state = "deleting"
  /\ k # Installation => Installation \notin held
  /\ held' = held \ {k}
  /\ UNCHANGED <<needs, state, finalizer, listed, released, target>>

\* The answer may be lost.
Release ==
  /\ state = "deleting" /\ held = {}
  /\ listed' = FALSE /\ released' \in BOOLEAN
  /\ UNCHANGED <<needs, state, finalizer, held, target>>

\* The deletion begins anew, after a failure or a restart.
Retreat ==
  /\ released /\ released' = FALSE
  /\ UNCHANGED <<needs, state, finalizer, held, listed, target>>

Leave ==
  /\ state = "deleting" /\ released
  /\ state' = "absent" /\ finalizer' = FALSE /\ released' = FALSE
  /\ UNCHANGED <<needs, held, listed, target>>

Next ==
  \/ Create \/ Protect \/ Enlist \/ LoseTarget \/ Delete
  \/ Release \/ Retreat \/ Leave
  \/ \E k \in Objects : Acquire(k) \/ GiveUp(k)

Spec == Init /\ [][Next]_vars

-----------------------------------------------------------------------------
TypeOK ==
  /\ state \in {"absent", "present", "deleting"}
  /\ finalizer \in BOOLEAN
  /\ needs \subseteq Objects \ {Installation} /\ held \subseteq Objects
  /\ listed \in BOOLEAN /\ released \in BOOLEAN /\ target \in BOOLEAN

\* Nothing is left behind by an Instance that is not or no longer there, and
\* there is no Installation without what it needs.
NothingBehind ==
  /\ ~finalizer => held = {}
  /\ Installation \in held => needs \subseteq held
=============================================================================
