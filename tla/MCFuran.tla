------------------------------ MODULE MCFuran --------------------------------
EXTENDS Furan, TLC

\* The pods of a Job are interchangeable: no action or property names one.
PodSymmetry == Permutations(Pods)
==============================================================================
