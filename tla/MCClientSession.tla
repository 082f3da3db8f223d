-------------------------- MODULE MCClientSession --------------------------
(* An instance of ClientSession for TLC.                                    *)
EXTENDS ClientSession

MCTokens == 1..MaxToken
=============================================================================
