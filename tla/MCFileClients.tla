---------------------------- MODULE MCFileClients ----------------------------
(* The three protocols over a file of a few bytes.                         *)
EXTENDS FileClients
=============================================================================
