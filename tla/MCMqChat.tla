------------------------------ MODULE MCMqChat ------------------------------
(***************************************************************************)
(* Small instances of MqChat for TLC: who types what.                      *)
(***************************************************************************)
EXTENDS MqChat

CONSTANTS a, b  \* two of the clients

(* a types a line of text and an empty one, b a line of text, and the others*)
(* only read.                                                               *)
Conversation ==
  [c \in Clients |-> CASE c = a -> <<"text", "empty">>
                       [] c = b -> <<"text">>
                       [] OTHER -> <<>>]

(* a types two lines; everybody else only reads.                            *)
TwoLines == [c \in Clients |-> IF c = a THEN <<"text", "text">> ELSE <<>>]
=============================================================================
