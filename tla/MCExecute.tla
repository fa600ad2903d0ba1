----------------------------- MODULE MCExecute -----------------------------
(* infra.execute on small instances. *)
EXTENDS Execute

MCInput1 == <<1>>
MCInput2 == <<1, 2>>
MCInput5 == <<1, 2, 3, 1, 2>>
=============================================================================
