----------------------------- MODULE MCChatUdp -----------------------------
(***************************************************************************)
(* ChatUdp for TLC: two clients with a name each.                          *)
(***************************************************************************)
EXTENDS ChatUdp, TLC

CONSTANTS ala, ola

MCName == (ala :> "Ala") @@ (ola :> "Ola")
=============================================================================
