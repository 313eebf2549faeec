---------------------------- MODULE PageServices ----------------------------
(***************************************************************************)
(* The console's pages of runs, next to AgentServices and DataServices,     *)
(* with which they share no state.                                         *)
(***************************************************************************)
EXTENDS Naturals, Sequences

CONSTANTS
    Stories, Kept                                                       \* RunPage

VARIABLES
    story, told, visits, loads, store, overtaken, astray                \* RunPage

Page == INSTANCE RunPage

(* What becomes of a run is told by steps.                                 *)
StoriesAreTold ==
    /\ \A s \in Stories, r \in Page!Runs : s[r] \in Seq(Page!Steps) /\ s[r] # <<>>
    /\ Kept \in Nat

ASSUME StoriesAssumption == StoriesAreTold

pageVars == <<story, told, visits, loads, store, overtaken, astray>>

PageInit == Page!Init
PageSpec == Page!Spec

-----------------------------------------------------------------------------
(* A page of the console that nothing of an earlier one disturbs shows its  *)
(* own run, as it is once it has heard everything, and a graph of stages    *)
(* that fits the events it has kept (RunPage).                             *)
PageIsHonest == Page!PageIsHonest
=============================================================================
