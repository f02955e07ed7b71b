----------------------------- MODULE MCKeyboard -----------------------------
(***************************************************************************)
(* Keyboard for TLC: a letter, and a key with '%' and the quote; commands  *)
(* of two letters.                                                         *)
(***************************************************************************)
EXTENDS Keyboard

MCDown == [KeyE |-> "e", KeyQuote |-> "%"]
MCUp   == [KeyE |-> "E", KeyQuote |-> "quote"]

MCEcho  == <<"e", "e">>
MCClear == <<"e", "E">>
MCHelp  == <<"E", "e">>
=============================================================================
