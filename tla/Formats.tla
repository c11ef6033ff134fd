------------------------------ MODULE Formats ------------------------------
(***************************************************************************)
(* The two formats that are read while they arrive: httplib's              *)
(* MultipartFormDataParser, which is given a request's body in pieces as   *)
(* the socket delivers them, and read_content_chunked, which reads a       *)
(* chunked response byte by byte.  A behaviour reads one input; the        *)
(* conversions of module Text are applied to theirs at once.               *)
(***************************************************************************)
EXTENDS Text

CONSTANTS
  Inputs,   (* [kind, value], kind being the format the value is made for   *)
  Symbols,  (* the bytes of a content or a chunk                            *)
  Sizes     (* the symbols for the sizes of chunks, from 1 on               *)

VARIABLES
  input,
  rest,     (* bytes that have not been read                                *)
  buf,      (* multipart: the parser's buffer                               *)
  state,    (* multipart: state_; chunked: where the reader is              *)
  parsing,  (* multipart: parse() is running                                *)
  file,     (* multipart: file_, the headers of the part that is read       *)
  valid,    (* multipart: is_valid_                                         *)
  first,    (* multipart: bytes in the first piece                          *)
  left,     (* chunked: bytes of the chunk that are missing                 *)
  out       (* what was handed over                                         *)

multipart == <<buf, parsing, file, valid, first>>
vars == <<input, rest, buf, state, parsing, file, valid, first, left, out>>

CR == "cr"
LF == "lf"
Crlf == <<CR, LF>>
Dash == <<"-", "-">>
Boundary == <<"b">>
DashBoundaryCrlf == Dash \o Boundary \o Crlf
CrlfDashBoundary == Crlf \o Dash \o Boundary

-----------------------------------------------------------------------------
(***************************************************************************)
(* What is read.  A part is [name, type, content]; a header line is a      *)
(* single symbol, a name or a content type.  A chunked body is a sequence  *)
(* of chunks, with the bytes of the next response behind it, or cut off.   *)
(***************************************************************************)
Names == {"user", "key"}
Types == {"text"}

SerializeItem(item) ==
  DashBoundaryCrlf \o <<item.name>> \o Crlf
    \o (IF item.type = "" THEN <<>> ELSE <<item.type>> \o Crlf) \o Crlf
    \o item.content \o Crlf

SerializeMultipartFormdata(items) ==
  FlattenSeq([i \in DOMAIN items |-> SerializeItem(items[i])]) \o Dash \o Boundary \o Dash \o Crlf

NextResponse == <<"next">>
Coded(value) == [i \in DOMAIN value.chunks |-> <<Sizes[Len(value.chunks[i])]>> \o Crlf \o value.chunks[i] \o Crlf]
LastChunk(value) ==
  <<IF value.bad THEN "bad" ELSE "0">> \o Crlf \o (IF value.trailer THEN <<"trailer">> \o Crlf ELSE <<>>) \o Crlf
Chunks(value) == FlattenSeq(Coded(value)) \o LastChunk(value)
Stream(value) == IF value.cut < 0 THEN Chunks(value) \o NextResponse
                                  ELSE SubSeq(Chunks(value), 1, value.cut)

(* A multipart body has a part, and a header line with a name is not one   *)
(* with a type.  A chunk has at least one byte and a size of its own; the  *)
(* empty one is the end.  A body that is cut off lacks at least its last   *)
(* byte.                                                                   *)
ASSUME FormatInputs ==
  /\ Sizes \in Seq(STRING)
  /\ \A m, n \in DOMAIN Sizes : Sizes[m] = Sizes[n] => m = n
  /\ \A n \in DOMAIN Sizes : Sizes[n] \notin {"0", "bad", LF}
  /\ \A i \in Inputs : i.kind = "multipart" =>
       i.value # <<>> /\ i.value \in Seq([name : STRING \ Types, type : Types \union {""}, content : Seq(Symbols)])
  /\ \A i \in Inputs : i.kind = "chunked" =>
       /\ i.value.chunks \in Seq({c \in Seq(Symbols) : Len(c) \in DOMAIN Sizes})
       /\ i.value.bad \in BOOLEAN /\ i.value.trailer \in BOOLEAN
       /\ i.value.cut \in -1..(Len(Chunks(i.value)) - 1)

NoFile == [name |-> "", type |-> "", content |-> <<>>]

Init ==
  /\ input \in Inputs
  /\ rest = CASE input.kind = "multipart" -> SerializeMultipartFormdata(input.value)
              [] input.kind = "chunked" -> Stream(input.value)
              [] OTHER -> <<>>
  /\ state = IF input.kind = "multipart" THEN "initial" ELSE "size"
  /\ buf = <<>> /\ parsing = FALSE /\ file = NoFile /\ valid = FALSE /\ first = 0
  /\ left = 0 /\ out = <<>>

-----------------------------------------------------------------------------
(* SocketStream::read brings any number of the bytes asked for that have   *)
(* arrived, from its buffer or from the socket.                            *)
StreamRead(size) == {n \in 1..size : n <= Len(rest)}

(***************************************************************************)
(* MultipartFormDataParser.                                                *)
(***************************************************************************)
(* buf_find: the first occurrence, or the length of the buffer.            *)
Find(s) ==
  LET at == {p \in 0..(Len(buf) - Len(s)) : SubSeq(buf, p + 1, p + Len(s)) = s} IN
  IF at = {} THEN Len(buf) ELSE Min(at)
StartsWith(s) == IsPrefix(s, buf)

(* parse appends a piece and loops until the buffer is empty.              *)
Parse ==
  /\ input.kind = "multipart" /\ ~parsing /\ state # "refused"
  /\ \E n \in StreamRead(Len(rest)) :
       /\ buf' = buf \o SubSeq(rest, 1, n) /\ rest' = Drop(rest, n)
       /\ first' = IF first = 0 THEN n ELSE first
  /\ parsing' = TRUE
  /\ UNCHANGED <<input, state, file, valid, left, out>>

Loop(from) == parsing /\ buf # <<>> /\ state = from
Waits == parsing' = FALSE
Refuses == parsing' = FALSE /\ state' = "refused" /\ valid' = FALSE

Emptied ==
  /\ parsing /\ buf = <<>> /\ Waits
  /\ UNCHANGED <<input, rest, buf, state, file, valid, first, left, out>>

(* All that is not the boundary is dropped, the start of one included.     *)
InitialBoundary ==
  LET tail == Drop(buf, Find(DashBoundaryCrlf)) IN
  /\ Loop("initial")
  /\ \/ tail = <<>> /\ buf' = tail /\ Waits /\ UNCHANGED state
     \/ tail # <<>> /\ buf' = Drop(tail, Len(DashBoundaryCrlf)) /\ state' = "new" /\ UNCHANGED parsing
  /\ UNCHANGED <<input, rest, file, valid, first, left, out>>

\* Fault: the headers of the part before are not cleared.
NewEntryKept ==
  /\ Loop("new") /\ state' = "headers"
  /\ UNCHANGED <<input, rest, buf, parsing, file, valid, first, left, out>>
NewEntry ==
  /\ Loop("new") /\ state' = "headers" /\ file' = NoFile
  /\ UNCHANGED <<input, rest, buf, parsing, valid, first, left, out>>

(* A line of the headers; the empty one opens the part.  Left out: a line  *)
(* longer than CPPHTTPLIB_HEADER_MAX_LENGTH, which is refused, and headers *)
(* other than the two that count, which are skipped.                       *)
Header ==
  LET pos == Find(Crlf)
      line == SubSeq(buf, 1, pos) IN
  /\ Loop("headers")
  /\ \/ pos = Len(buf) /\ Waits /\ UNCHANGED <<buf, state, file, valid, out>>
     \/ /\ pos = 0 /\ buf' = Drop(buf, Len(Crlf)) /\ state' = "body"
        /\ out' = Append(out, file) /\ UNCHANGED <<parsing, file, valid>>
     \/ /\ pos \in 1..(Len(buf) - 1) /\ Len(line) = 1 /\ line[1] \in Names \union Types
        /\ file' = IF line[1] \in Types THEN [file EXCEPT !.type = line[1]]
                                        ELSE [file EXCEPT !.name = line[1]]
        /\ buf' = Drop(buf, pos + Len(Crlf)) /\ UNCHANGED <<parsing, state, valid, out>>
     \/ /\ pos \in 1..(Len(buf) - 1) /\ (Len(line) # 1 \/ line[1] \notin Names \union Types)
        /\ Refuses /\ UNCHANGED <<buf, file, out>>
  /\ UNCHANGED <<input, rest, first, left>>

Content(n) == out' = [out EXCEPT ![Len(out)].content = @ \o SubSeq(buf, 1, n)]

(* As many bytes as the delimiter has are held back.                       *)
Body ==
  LET pos == Find(CrlfDashBoundary)
      len == Len(buf) - Len(CrlfDashBoundary) IN
  /\ Loop("body")
  /\ \/ len < 0 /\ Waits /\ UNCHANGED <<buf, state, out>>
     \/ /\ pos < Len(buf) /\ Content(pos)
        /\ buf' = Drop(buf, pos + Len(CrlfDashBoundary)) /\ state' = "boundary" /\ UNCHANGED parsing
     \/ len >= 0 /\ pos = Len(buf) /\ Content(len) /\ buf' = Drop(buf, len) /\ Waits /\ UNCHANGED state
  /\ UNCHANGED <<input, rest, file, valid, first, left>>

(* After the last boundary the rest of the piece is dropped, and the state *)
(* stays.                                                                  *)
BoundaryEnd ==
  /\ Loop("boundary")
  /\ \/ Len(buf) < Len(Crlf) /\ Waits /\ UNCHANGED <<buf, state, valid>>
     \/ StartsWith(Crlf) /\ buf' = Drop(buf, Len(Crlf)) /\ state' = "new" /\ UNCHANGED <<parsing, valid>>
     \/ StartsWith(Dash) /\ buf' = <<>> /\ valid' = TRUE /\ UNCHANGED <<parsing, state>>
     \/ /\ Len(buf) >= Len(Crlf) /\ ~StartsWith(Crlf) /\ ~StartsWith(Dash)
        /\ Waits /\ UNCHANGED <<buf, state, valid>>
  /\ UNCHANGED <<input, rest, file, first, left, out>>

-----------------------------------------------------------------------------
(***************************************************************************)
(* read_content_chunked.                                                   *)
(***************************************************************************)
(* getline takes what is there up to a line feed; with nothing it fails.   *)
Line == LET n == SelectInSeq(rest, LAMBDA c : c = LF) IN IF n = 0 THEN rest ELSE SubSeq(rest, 1, n)
Getline(from) == input.kind = "chunked" /\ state = from /\ rest' = Drop(rest, Len(Line))
Fails == state' = "failed"

ChunkSize ==
  /\ Getline("size")
  /\ \/ rest = <<>> /\ Fails /\ UNCHANGED left
     \/ rest # <<>> /\ Line[1] = "0" /\ state' = "trailer" /\ UNCHANGED left
     \/ \E n \in DOMAIN Sizes : rest # <<>> /\ Line[1] = Sizes[n] /\ left' = n /\ state' = "data"
     \/ /\ rest # <<>> /\ Line[1] \notin {"0"} \union {Sizes[n] : n \in DOMAIN Sizes}
        /\ Fails /\ UNCHANGED left
  /\ UNCHANGED <<input, multipart, out>>

(* read_content_with_length: a read brings any part of what is missing.    *)
ChunkData ==
  /\ input.kind = "chunked" /\ state = "data"
  /\ \/ left = 0 /\ state' = "end" /\ UNCHANGED <<rest, left, out>>
     \/ left > 0 /\ rest = <<>> /\ Fails /\ UNCHANGED <<rest, left, out>>
     \/ \E n \in StreamRead(left) : /\ out' = out \o SubSeq(rest, 1, n) /\ rest' = Drop(rest, n)
                                   /\ left' = left - n /\ UNCHANGED state
  /\ UNCHANGED <<input, multipart>>

ChunkEnd ==
  /\ Getline("end")
  /\ state' = IF Line = Crlf /\ rest # <<>> THEN "size" ELSE "failed"
  /\ UNCHANGED <<input, multipart, left, out>>

\* Fault: the empty line behind the last chunk is not read.
NoTrailer ==
  /\ input.kind = "chunked" /\ state = "trailer" /\ state' = "done"
  /\ UNCHANGED <<input, rest, multipart, left, out>>
Trailer ==
  /\ Getline("trailer")
  /\ state' = IF rest = <<>> THEN "failed" ELSE IF Line = Crlf THEN "done" ELSE "trailer"
  /\ UNCHANGED <<input, multipart, left, out>>

-----------------------------------------------------------------------------
Next ==
  \/ Parse \/ Emptied \/ InitialBoundary \/ NewEntry \/ Header \/ Body \/ BoundaryEnd
  \/ ChunkSize \/ ChunkData \/ ChunkEnd \/ Trailer
Spec == Init /\ [][Next]_vars

-----------------------------------------------------------------------------
(* Contents without the delimiter, without a line like the first boundary, *)
(* and headers that are known.                                             *)
Without(items, s) == \A i \in DOMAIN items : s \notin SubSeqs(items[i].content)
Named(items) == \A i \in DOMAIN items : items[i].name \in Names

(***************************************************************************)
(* A multipart body is read into the parts that were sent, whatever pieces *)
(* the socket delivers it in, also when a piece ends inside a header, a    *)
(* line end or a boundary, and when a content looks like the start of one. *)
(* The first boundary is the exception: when the first piece does not hold *)
(* all of it, buf_erase drops its beginning (httplib.cpp:2130) and parts   *)
(* are lost with it; then too the parts of a body that is accepted are     *)
(* parts that were sent, to the last one, unless a content has a line like *)
(* the first boundary.  A part with a bad header is never accepted, and no *)
(* content that is handed over has the delimiter in it.                    *)
(***************************************************************************)
MultipartInAnyPieces ==
  input.kind = "multipart" =>
    /\ Without(out, CrlfDashBoundary)
    /\ ~parsing /\ (rest = <<>> \/ state = "refused") =>
         LET whole == first >= Len(DashBoundaryCrlf)
             items == input.value
         IN /\ whole /\ Named(items) /\ Without(items, CrlfDashBoundary) => valid /\ out = items
            /\ valid /\ Without(items, CrlfDashBoundary) /\ (whole \/ Without(items, DashBoundaryCrlf)) =>
                 \E k \in 0..(Len(items) - 1) : out = Drop(items, k)

(***************************************************************************)
(* A chunked body that read_content_chunked accepts is the body that was   *)
(* sent, and the connection is left at the next response; a body that was  *)
(* cut off at any byte or has no length where one belongs is refused,      *)
(* although getline gives a line that has no end (httplib.cpp:349-373,     *)
(* 1613-1665).                                                             *)
(***************************************************************************)
ChunkedIsExact ==
  input.kind = "chunked" =>
    /\ state = "done" => input.value.cut < 0 /\ ~input.value.bad /\ rest = NextResponse /\ out = FlattenSeq(input.value.chunks)
    /\ state = "failed" => input.value.cut >= 0 \/ input.value.bad

(***************************************************************************)
(* What a conversion makes can be read back.  A URL without escapes        *)
(* survives encode_url and decode_url, and the target of a redirect is     *)
(* asked for unless it has a "+" or a doubly escaped character             *)
(* (httplib.cpp:4832).  A path joined to the base path has its components  *)
(* and no doubled slash, unless it had one itself, of which some may stay  *)
(* (ReplaceAll, baseclient.cpp:159), and a server of httplib sees that     *)
(* path unless the name has a "#", a "%" or a "?", which nothing escapes   *)
(* (httplib.cpp:186, 3632).  An http or webdav URL leads to its host and   *)
(* port, with TLS for https and webdavs.  A header arrives as it was sent  *)
(* unless it has a "%", which is decoded in all but Location               *)
(* (httplib.cpp:1511).  Base64 is inverted from two bytes on, where the    *)
(* two encoders agree (base64.h:27).                                       *)
(* The name and file name of a part survive unless they have a ";" or a    *)
(* "=", which the quotes do not protect (httplib.cpp:2045-2068).           *)
(* A server reads the ranges GetRange asks for and refuses reversed ones.  *)
(* A cookie keeps its value up to a "=", and loses those it begins with    *)
(* (archiveorg.cpp:102).  A mounted path never climbs above its root.  The *)
(* port is the one written under the section, unless the lines end in a    *)
(* carriage return (inifile.c:145, 461).                                   *)
(***************************************************************************)
UrlsSurvive(s) ==
  LET percent == \E i \in DOMAIN s : s[i] = 37
      plus == \E i \in DOMAIN s : s[i] = 43
      again == LET d == DecodeUrl(s, FALSE) IN DecodeUrl(d, FALSE) # d
  IN /\ ~percent => DecodeUrl(EncodeUrl(s), FALSE) = s
     /\ ~plus /\ ~again => DecodeUrl(RedirectedPath(s), FALSE) = DecodeUrl(s, FALSE)

(* A path, and what is asked for it of the server.                         *)
PathsArrive(base_path, path) ==
  LET full == GetFullPath(base_path, path)
      Doubled(s) == \E i \in 1..(Len(s) - 1) : s[i] = 47 /\ s[i + 1] = 47
      special == \E i \in DOMAIN path : path[i] \in {35, 37, 63}
  IN /\ ~Doubled(path) =>
          ~Doubled(full) /\ full[1] = 47 /\ Split(full, 47) = Split(base_path, 47) \o Split(Trim(path, 32), 47)
     /\ ~special => ParseTarget(EncodeUrl(full)) = full

SitesConnect(scheme, port) ==
  LET url == <<scheme, "://", "host">> \o (IF port = "" THEN <<>> ELSE <<":", port>>) \o <<"/", "dir">>
      c == NewClient(HostUrl(GetHttpUrl(url))) IN
  /\ BasePath(url) = <<"/", "dir">>
  /\ c.host = "host" /\ c.tls = (scheme \in {"https", "webdavs"})
  /\ c.port = CASE port # "" -> port [] c.tls -> "443" [] OTHER -> "80"

HeadersArrive(value) ==
  LET sent == << <<<<97>>, value>>, <<Location, value>> >>
      r == ReadHeaders(WriteHeaders(sent))
      plain == value # <<>> /\ value[1] # 32 /\ Last(value) # 32
      percent == \E i \in DOMAIN value : value[i] = 37
  IN /\ r.ret
     /\ plain => r.headers[2] = sent[2] /\ (~percent => r.headers = sent)

NamesSurvive(name, filename) ==
  LET params == ParseDispositionParams(Disposition(name, filename))
      cut == \E i \in DOMAIN (name \o filename) : (name \o filename)[i] \in {59, 61}
  IN ~cut => /\ Name \in DOMAIN params /\ params[Name] = name
             /\ IF filename = <<>> THEN Filename \notin DOMAIN params
                ELSE Filename \in DOMAIN params /\ params[Filename] = filename

Base64Inverts(bytes) ==
  EncodeDefined(bytes) => Decode(Encode(bytes)) = bytes /\ Encode(bytes) = BasicEncode(bytes)

RangesSurvive(ranges) ==
  LET r == ParseRangeHeader(MakeRangeHeader(ranges))
      reversed == \E i \in DOMAIN ranges : ranges[i][2] # -1 /\ ranges[i][1] > ranges[i][2]
  IN IF reversed THEN ~r.ret ELSE r = [ret |-> TRUE, ranges |-> ranges]

CookiesSurvive(value) ==
  LET jar == Cookies(<<"sig", "=">> \o value \o <<";", " ", "path", "=", "/">>) IN
  jar = [k \in {<<"sig">>} |-> Before(Trim(value, "="), "=")]

StaysInside(components) ==
  LET Count(n, c) == Len(SelectSeq(SubSeq(components, 1, n), LAMBDA x : x = c)) IN
  IsValidPath(components) <=> \A n \in 0..Len(components) : Count(n, "..") <= Count(n, "x")

PortIsRead(ini) ==
  LET Ended(line) == IF ini.cr THEN line \o <<"cr">> ELSE line
      Other == <<Ended(<<"[", "Other", "]">>), Ended(<<"http_server_port", "=", "81">>)>>
      Server == <<Ended(<<"[", "HttpServer", "]">>)>> \o (IF ini.comment THEN <<Ended(<<";", "http_server_port", "=", "81">>)>> ELSE <<>>)
                  \o <<Ended(<<"http_server_port", "=", "8080">> \o ini.tail)>>
  IN LoadConfig(IF ini.first THEN Server \o Other ELSE Other \o Server) = IF ini.cr THEN "9090" ELSE "8080"

ConversionsSurvive ==
  /\ input.kind = "url" => UrlsSurvive(input.value)
  /\ input.kind = "path asked" => PathsArrive(input.value[1], input.value[2])
  /\ input.kind = "site" => SitesConnect(input.value[1], input.value[2])
  /\ input.kind = "header" => HeadersArrive(input.value)
  /\ input.kind = "names" => NamesSurvive(input.value[1], input.value[2])
  /\ input.kind = "base64" => Base64Inverts(input.value)
  /\ input.kind = "range" => RangesSurvive(input.value)
  /\ input.kind = "cookie" => CookiesSurvive(input.value)
  /\ input.kind = "path" => StaysInside(input.value)
  /\ input.kind = "ini" => PortIsRead(input.value)
=============================================================================
