----------------------------- MODULE MCChatTcp -----------------------------
(***************************************************************************)
(* Small instances of ChatTcp for TLC: names, and what is typed.           *)
(***************************************************************************)
EXTENDS ChatTcp

CONSTANTS ala, ola, ula

(* Two of the clients want the same name.                                  *)
MCName == [c \in Clients |-> IF c = ala THEN "Ala" ELSE "Ola"]

MCTyped == {[text |-> "2ALL", to |-> NoName], [text |-> "2ONE", to |-> "Ola"]}
=============================================================================
