----------------------------- MODULE MCConfigStore -----------------------------
(* Configurations of two bytes with a CRC of two bytes; three of the four. *)
EXTENDS ConfigStore

MCConfig  == {<<0, 0>>, <<0, 1>>, <<1, 1>>}
MCDefault == <<0, 0>>
=============================================================================
