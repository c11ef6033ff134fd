---------------------------- MODULE MCHttpServer ----------------------------
(***************************************************************************)
(* Connections for HttpServer: installs with every kind of range, kept     *)
(* alive, beside a stop.                                                   *)
(***************************************************************************)
EXTENDS HttpServer, TLC

CONSTANTS c1, c2, c3, t1, t2

Req(kind, method, ranges, close) == [kind |-> kind, method |-> method, ranges |-> ranges, close |-> close]
InstallRange(ranges) == Req("install", "GET", ranges, FALSE)

Version == Req("version", "GET", <<>>, FALSE)
Stop == Req("stop", "GET", <<>>, TRUE)
Ranges == {<<>>, << <<0, 0>> >>, << <<1, -1>> >>, << <<-1, 2>> >>, << <<-1, 6>> >>, << <<-1, -1>> >>,
           << <<5, -1>> >>, << <<1, 6>> >>, << <<0, 0>>, <<-1, 1>> >>}

Pair(a, b, c) == (c1 :> a) @@ (c2 :> b) @@ (c3 :> c)

(* Every kind of range beside a stop; a kept connection, a queued one and  *)
(* one of each kind of request beside a stop.                              *)
ServingScripts ==
  {Pair(<<InstallRange(r), Version>>, <<Stop>>, <<>>) : r \in Ranges}
  \cup {Pair(<<Req("install", "HEAD", <<>>, FALSE)>>, <<InstallRange(<<>>)>>, <<Stop>>),
        Pair(<<Req("bad", "GET", <<>>, FALSE), Req("file", "GET", << <<0, 1>> >>, FALSE)>>, <<Stop>>, <<>>),
        Pair(<<Req("file", "GET", << <<1, 6>> >>, FALSE), Version>>, <<Stop>>, <<>>),
        Pair(<<Req("start", "GET", <<>>, FALSE)>>, <<Req("start", "GET", <<>>, FALSE)>>, <<Stop>>),
        Pair(<<Stop>>, <<Stop, Version>>, <<Version>>)}
=============================================================================
