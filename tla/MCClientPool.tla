---------------------------- MODULE MCClientPool ----------------------------
(* Hosts that share a login, of which two also share a key of the pool.    *)
EXTENDS ClientPool

CONSTANT site

Ftp == [type |-> "FTP", login |-> site, http_server_type |-> ""]
Http == [type |-> "HTTP_SERVER", login |-> site, http_server_type |-> "Github"]
Archive == [type |-> "HTTP_SERVER", login |-> site, http_server_type |-> "ArchiveOrg"]
Unknown == [type |-> "UNKNOWN", login |-> site, http_server_type |-> ""]

FourHosts == {Ftp, Http, Archive, Unknown}
=============================================================================
