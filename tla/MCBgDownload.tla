---------------------------- MODULE MCBgDownload ----------------------------
(* Instances of BgDownload for TLC. *)
EXTENDS BgDownload

CONSTANTS j1, j2, p1, p2

OneFtpOneFile == [j \in Jobs |-> IF j = j1 THEN "FTP" ELSE "FILE"]
OneFtpOneUnknown == [j \in Jobs |-> IF j = j1 THEN "FTP" ELSE "UNKNOWN"]
AllHttp == [j \in Jobs |-> "HTTP"]
OwnPaths == [j \in Jobs |-> IF j = j1 THEN p1 ELSE p2]
=============================================================================
