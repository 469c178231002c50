------------------------ MODULE MCClientTransactions ------------------------
(***************************************************************************)
(* The small instance of the client transactions runs. Clients, keys and   *)
(* mints are told apart only by what they do.                              *)
(***************************************************************************)
EXTENDS ClientTransactions, TLC

Symmetry == Permutations(Clients) \cup Permutations(Keys) \cup Permutations(Mints)

=============================================================================
