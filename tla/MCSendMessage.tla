--------------------------- MODULE MCSendMessage ---------------------------
(* TLC instance of SendMessage: one message of any kind, two links. *)
EXTENDS SendMessage
CONSTANTS m1, l1, l2
=============================================================================
