------------------------------ MODULE MCRelay ------------------------------
(***************************************************************************)
(* Three nodes, each connected to the other two and each the dialler of    *)
(* one of its connections, and a wallet at na.                             *)
(***************************************************************************)
EXTENDS RelayProperties

CONSTANTS na, nb, nc, t1

TriangleDials == {<<na, nb>>, <<nb, nc>>, <<nc, na>>}

AWallet == {<<na, t1>>}
=============================================================================
