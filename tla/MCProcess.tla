------------------------------ MODULE MCProcess ------------------------------
(* A small instance of the components below the commands.                      *)
EXTENDS Process

CONSTANTS m, w, x
===============================================================================
