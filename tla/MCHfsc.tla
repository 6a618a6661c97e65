------------------------------- MODULE MCHfsc -------------------------------
(***************************************************************************)
(* Model of Hfsc for TLC: the root with an interior class I (link-sharing) *)
(* and two leaves under it, A (concave real-time curve and link-sharing)   *)
(* and B (link-sharing and upper limit); variants of the curves and of the *)
(* hierarchy for the other runs.                                           *)
(***************************************************************************)
EXTENDS Hfsc

CONSTANTS A, B, I

\* External curves [m1 (bytes/s), d (us), m2 (bytes/s)].
Concave == [m1 |-> 2, d |-> 2, m2 |-> 1]
Linear1 == [m1 |-> 0, d |-> 0, m2 |-> 1]
Linear2 == [m1 |-> 0, d |-> 0, m2 |-> 2]

MC_Classes == {A, B, I}
MC_Parent == [c \in MC_Classes |-> IF c = I THEN Root ELSE I]
MC_CreateSC ==
  [c \in MC_Classes |->
     CASE c = A -> [rsc |-> Concave, fsc |-> Linear1, usc |-> NoSC]
       [] c = B -> [rsc |-> NoSC, fsc |-> Linear1, usc |-> Linear1]
       [] c = I -> [rsc |-> NoSC, fsc |-> Linear2, usc |-> NoSC]]
\* Both leaves with an upper limit: a leaf's fit-time at activation is then
\* the activation time, never the 0 that init_vf starts it from.
MC_CreateSC_Limited ==
  [MC_CreateSC EXCEPT ![A].usc = Linear1]
\* Reconfiguration that replaces existing curves only.
MC_ChangeSC ==
  [c \in MC_Classes |->
     CASE c = A -> {[rsc |-> Linear2, fsc |-> NoSC, usc |-> NoSC]}
       [] c = B -> {[rsc |-> NoSC, fsc |-> Linear2, usc |-> NoSC]}
       [] c = I -> {}]
\* A and B directly under the root, without I.
MC_FlatClasses == {A, B}
MC_FlatParent == [c \in MC_FlatClasses |-> Root]

\* A single leaf under the root: a class that is reconfigured, deleted and
\* grafted while backlogged, with no sibling to share with.
MC_SingleClasses == {B}
MC_SingleParent == [c \in MC_SingleClasses |-> Root]
MC_Lens == {1, 2}

\* An interior class with a real-time curve only: its link-sharing children
\* are activated through it (init_vf) but update_vf skips it.
MC_CreateSC_NoFscParent ==
  [MC_CreateSC_Limited EXCEPT ![I] = [rsc |-> Linear2, fsc |-> NoSC, usc |-> NoSC]]
\* Reconfiguration that gives the link-sharing-only class B a real-time curve.
MC_ChangeSC_AddRsc ==
  [MC_ChangeSC EXCEPT ![B] = {[rsc |-> Linear1, fsc |-> NoSC, usc |-> NoSC]}]
\* A concave real-time curve with no second segment (m2 = 0, accepted by
\* hfsc_change_class, which rejects only m1 = m2 = 0), given to A.
ZeroTail == [m1 |-> 2, d |-> 2, m2 |-> 0]
MC_CreateSC_ZeroTail == [MC_CreateSC_Limited EXCEPT ![A].rsc = ZeroTail]
=============================================================================
