----------------------------- MODULE MCFormats -----------------------------
(* Inputs of a few symbols for every format.                               *)
EXTENDS Formats

Of(kind, values) == {[kind |-> kind, value |-> v] : v \in values}

Contents == {<<>>, <<CR>>, <<"x", CR, LF, "-">>, Dash \o Boundary, <<CR, LF>> \o Dash \o <<"x">>,
             DashBoundaryCrlf \o <<"key", CR, LF, CR, LF>>}
Parts == {[name |-> "user", type |-> t, content |-> c] : t \in {"", "text"}, c \in Contents}
SecondParts == {[name |-> "key", type |-> "", content |-> <<"x">>], [name |-> "bad", type |-> "", content |-> <<>>],
                [name |-> "key", type |-> "", content |-> CrlfDashBoundary \o <<"x">>]}
Items == {<<p>> : p \in Parts} \union {<<p, q>> : p \in Parts, q \in SecondParts}

ChunkSizes == <<"1", "2", "3">>
BodySymbols == {"x", CR, LF, "0", "-", "b", "key"}
Data == {<<"x">>, <<CR, LF>>, <<"0", CR, LF>>}
ChunkLists == BoundedSeq(Data, 2)
Bodies == {[chunks |-> c, trailer |-> t, bad |-> b, cut |-> -1] : c \in ChunkLists, t \in BOOLEAN, b \in BOOLEAN}
CutBodies == UNION {{[b EXCEPT !.cut = n] : n \in 0..(Len(Chunks(b)) - 1)} : b \in Bodies}

Urls == BoundedSeq({97, 37, 43, 32, 50, 53, 66, 195}, 4) \union {<<37, 50, 53, 50, 66>>, <<37, 117, 50, 53, 66, 66>>}
ByteStrings == BoundedSeq({0, 63, 131, 255}, 4)
RangeLists == BoundedSeq({<<-1, -1>>, <<0, -1>>, <<-1, 5>>, <<3, 12>>, <<12, 3>>}, 3)
CookieValues == BoundedSeq({"a", "b", "="}, 4)
Paths == BoundedSeq({"..", ".", "x"}, 5)
Inis == [cr : BOOLEAN, comment : BOOLEAN, first : BOOLEAN, tail : {<<>>, <<" ">>, <<";", "x", "=", "81">>}]

Asked == {<<>>, <<47, 97>>, <<47, 97, 47>>} \X BoundedSeq({97, 47, 32, 35, 43}, 4)
PartNames == BoundedSeq({97, 32, 34, 59, 61}, 2) \X BoundedSeq({97, 32, 34, 61}, 2)
Sites == {"http", "https", "webdav", "webdavs"} \X {"", "8080"}

AllInputs ==
  Of("path asked", Asked) \union Of("site", Sites) \union Of("names", PartNames) \union Of("header", Urls)
    \union Of("multipart", Items) \union Of("chunked", Bodies \union CutBodies) \union Of("url", Urls)
    \union Of("base64", ByteStrings) \union Of("range", RangeLists) \union Of("cookie", CookieValues)
    \union Of("path", Paths) \union Of("ini", Inis)
=============================================================================
