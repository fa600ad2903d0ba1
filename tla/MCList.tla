------------------------------- MODULE MCList -------------------------------
(* Two lists: links at both ends, in the middle, and between lists. *)
EXTENDS List
=============================================================================
