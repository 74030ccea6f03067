------------------------------ MODULE MCStores ------------------------------
(***************************************************************************)
(* Two accounts or two keys per table, two payloads; two ids below and one *)
(* above the sign bit; IN lists of two values.                             *)
(***************************************************************************)
EXTENDS Stores

MCAccounts == {1, 2}
MCTexts == {<<1>>, <<2>>}
MCBlobs == {<<0>>, <<1>>}
MCSecret == {<<7>>, <<8>>}
MCIds == {1, 2, 6}
=============================================================================
