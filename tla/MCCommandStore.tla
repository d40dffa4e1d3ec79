--------------------------- MODULE MCCommandStore ---------------------------
(***************************************************************************)
(* A small instance of CommandStore.  Two units are offered, one or two    *)
(* are bid for, so that orders are filled at once and in part.             *)
(***************************************************************************)
EXTENDS CommandStore

MCPlaces == {<<"Sell", 2, 1>>, <<"Buy", 1, 1>>, <<"Buy", 2, 1>>}
=============================================================================
