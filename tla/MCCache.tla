------------------------------ MODULE MCCache -------------------------------
(***************************************************************************)
(* A small instance of Cache for TLC, with every strategy.                 *)
(***************************************************************************)
EXTENDS Cache
CONSTANTS p1, p2

MCStrategies == {"lazy", "write-through", "write-back"}
MCTables == {{p1}}
=============================================================================
