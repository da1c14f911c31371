---------------------------- MODULE MCModelOrder ----------------------------
(* ModelOrder over every ref() graph of four models, self-references included. *)
EXTENDS ModelOrder

FourModels == <<"stg_a", "silver_b", "silver_c", "dim_d">>
=============================================================================
