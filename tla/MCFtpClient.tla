----------------------------- MODULE MCFtpClient -----------------------------
(***************************************************************************)
(* Small sessions of FtpClient.                                            *)
(***************************************************************************)
EXTENDS FtpClient
=============================================================================
