--------------------------- MODULE MCSubscriptions ---------------------------
(***************************************************************************)
(* SubscriptionManager for TLC.  A behaviour has one of several            *)
(* environments: that of the configuration (Env), or one of those below.   *)
(***************************************************************************)
EXTENDS SubscriptionManager, TLC

CONSTANTS p1, p2, t1, t2, \* members of Pubs and Tracks
          Environments    \* those of this run

OneTrack == [p \in Pubs |-> t1]
TwoTracks == [p \in Pubs |-> IF p = p1 THEN t1 ELSE t2]
Sym == Permutations(Subs) \cup Permutations(SubTracks) \cup Permutations(Callers)

VARIABLE environment

(* One publication, with outcomes of binds and changes of permissions; and  *)
(* one that comes and goes, also to another node and back.                  *)
Binding == INSTANCE SubscriptionManager
             WITH Env <- {"bind", "permission"}, Pubs <- {p1}, TrackOf <- [p \in {p1} |-> t1]
Coming  == INSTANCE SubscriptionManager WITH Env <- {"unpublish", "migrate"}

EnvironmentsInit == Init /\ environment \in Environments

EnvironmentsNext ==
  /\ \/ environment = "configured" /\ Next
     \/ environment = "binding" /\ Binding!Next
     \/ environment = "coming" /\ Coming!Next
  /\ UNCHANGED environment

EnvironmentsSpec == EnvironmentsInit /\ [][EnvironmentsNext]_<<environment, vars>>

(* The environments do not differ in what is fair.                          *)
FairEnvironments == EnvironmentsSpec /\ Fairness
=============================================================================
