------------------------------- MODULE MCTerm -------------------------------
(* A small terminal: see MCTerm.cfg.                                       *)
EXTENDS Term

MCParamLists == {<<Nil>>, <<1>>, <<2>>, <<7>>, <<25>>, <<Nil, Nil>>, <<Nil, 2>>,
                 <<48>>, <<48, Nil>>, <<48, 5>>}
=============================================================================
