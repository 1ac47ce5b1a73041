---------------------- MODULE InstanceLifecycleProofs ----------------------
(***************************************************************************)
(* What follows from the life of an Instance for those who depend on it.   *)
(***************************************************************************)
EXTENDS InstanceLifecycle, TLAPS

\* An Instance that has left the list has nothing to give up any more.
LifecycleInv ==
  /\ TypeOK /\ NothingBehind
  /\ released => held = {}

LEMMA InitLifecycle == Init => LifecycleInv
BY DEF Init, LifecycleInv, TypeOK, NothingBehind

\* An object is acquired under the finalizer, and the Installation after what
\* it needs.
LEMMA AcquireLifecycle ==
  ASSUME LifecycleInv, NEW k \in Objects, Acquire(k), ~released PROVE LifecycleInv'
BY DEF LifecycleInv, TypeOK, NothingBehind, Acquire

\* The Installation is given up before what it needs.
LEMMA GiveUpLifecycle ==
  ASSUME LifecycleInv, NEW k \in Objects, GiveUp(k) PROVE LifecycleInv'
BY DEF LifecycleInv, TypeOK, NothingBehind, GiveUp

LEMMA RestLifecycle ==
  ASSUME LifecycleInv,
         \/ Create \/ Protect \/ Enlist \/ LoseTarget \/ Delete
         \/ Release \/ Retreat \/ Leave \/ UNCHANGED vars
  PROVE  LifecycleInv'
<1> USE DEF LifecycleInv, TypeOK, NothingBehind
<1>1. CASE Create
  BY <1>1 DEF Create
<1>2. CASE Protect
  BY <1>2 DEF Protect
<1>3. CASE Enlist
  BY <1>3 DEF Enlist
<1>4. CASE LoseTarget
  BY <1>4 DEF LoseTarget
<1>5. CASE Delete
  BY <1>5 DEF Delete
<1>6. CASE Release \/ Retreat
  BY <1>6 DEF Release, Retreat
<1>7. CASE Leave
  BY <1>7 DEF Leave
<1>8. CASE UNCHANGED vars
  BY <1>8 DEF vars
<1> QED
  BY <1>1, <1>2, <1>3, <1>4, <1>5, <1>6, <1>7, <1>8

\* Only what is being deleted has left the list for its end.
ReleasedInv == released => state = "deleting"

LEMMA StepReleased == ReleasedInv /\ [Next]_vars => ReleasedInv'
BY DEF ReleasedInv, Next, Create, Protect, Enlist, LoseTarget, Delete, Release,
       Retreat, Leave, Acquire, GiveUp, vars

\* Nothing is left behind by an Instance without its finalizer, so by none that
\* is gone, and there is never an Installation without what it needs.
THEOREM NothingLeftBehind == Spec => []NothingBehind
<1>1. Init => LifecycleInv /\ ReleasedInv
  BY InitLifecycle DEF Init, ReleasedInv
<1>2. LifecycleInv /\ ReleasedInv /\ [Next]_vars => LifecycleInv' /\ ReleasedInv'
  <2> SUFFICES ASSUME LifecycleInv, ReleasedInv, [Next]_vars
               PROVE  LifecycleInv' /\ ReleasedInv'
    OBVIOUS
  <2>1. ReleasedInv'
    BY StepReleased
  <2>2. ASSUME NEW k \in Objects, Acquire(k) PROVE LifecycleInv'
    BY <2>2, AcquireLifecycle DEF ReleasedInv, Acquire
  <2> QED
    BY <2>1, <2>2, GiveUpLifecycle, RestLifecycle DEF Next
<1>3. LifecycleInv => NothingBehind
  BY DEF LifecycleInv
<1> QED
  BY <1>1, <1>2, <1>3, PTL DEF Spec
=============================================================================
