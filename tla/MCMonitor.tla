------------------------------ MODULE MCMonitor ------------------------------
EXTENDS MonitorBuild, TLC

\* Builds and connections are interchangeable.
Symmetric == Permutations(Builds) \union Permutations(PoolConns)
==============================================================================
