-------------------------- MODULE MCRunLifecycle --------------------------
(* Model-checking instances of RunLifecycle.                               *)
EXTENDS RunLifecycle

CONSTANT r1

\* Every child and fork of an instance descends from run r1.
ParentR1 == [r \in Children \union Forks |-> r1]

ClientSymmetry == Permutations(Clients)
===========================================================================
