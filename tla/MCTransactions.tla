--------------------------- MODULE MCTransactions ---------------------------
(***************************************************************************)
(* One authority with a coal and a wood proof, another with a coal proof.  *)
(***************************************************************************)
EXTENDS Transactions

CONSTANTS a1, a2

Coal(a) == [kind |-> "coal", authority |-> a]
Wood(a) == [kind |-> "wood", authority |-> a]

ProofAddresses == {Coal(a1), Wood(a1), Coal(a2)}

(* A miner of both, and one of coal only, whose first noop is a dummy. *)
SomeNoops == {<<Wood(a1), Coal(a1)>>, <<Coal(a1), Coal(a2)>>}
=============================================================================
