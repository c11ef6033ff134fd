--------------------------- MODULE MCInstallStore ---------------------------
(* Two handlers that store packages of an archive.org and of an FTP host   *)
(* with a short password; the first file may be missing or hold a password *)
(* in the clear, or none.                                                  *)
EXTENDS InstallStore, TLC

CONSTANTS t1, t2
Threads == Permutations({t1, t2})

Archive == [type |-> "http", http_server_type |-> "Archive.org", password |-> "a long secret"]
Ftp == [type |-> "ftp", http_server_type |-> "ignored", password |-> "short"]
TwoHosts == {Archive, Ftp}

InTheClear(text, base64) == [type |-> "ftp", http_server_type |-> "", timestamp |-> 0, password |-> Plain(text, base64)]
NoneOrOld == {Torn, Holds(Empty), Holds(Put(Empty, "a", InTheClear("", FALSE)))}
             \union {Holds(Put(Empty, "a", InTheClear("an old one", b))) : b \in BOOLEAN}
=============================================================================
