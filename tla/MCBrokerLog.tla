---------------------------- MODULE MCBrokerLog ----------------------------
(***************************************************************************)
(* BrokerLog on small instances.                                           *)
(***************************************************************************)
EXTENDS BrokerLog, TLC

\* Publishing threads are interchangeable, and so are readers.
Symmetry == Permutations(Publishers) \union Permutations(Readers)
=============================================================================
