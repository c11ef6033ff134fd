-------------------------------- MODULE Text --------------------------------
(***************************************************************************)
(* The conversions the server and its clients apply to text: URLs, Base64, *)
(* ranges, cookies, paths and the configuration file.  A text is a         *)
(* sequence of character codes, or of words where only the separators      *)
(* matter to the code.                                                     *)
(***************************************************************************)
EXTENDS Integers, SequencesExt

Drop(s, n) == SubSeq(s, n + 1, Len(s))
Before(s, sep) == SubSeq(s, 1, SelectInSeq(s \o <<sep>>, LAMBDA c : c = sep) - 1)
After(s, sep) == Drop(s, Len(Before(s, sep)) + 1)

-----------------------------------------------------------------------------
(* Util::Split leaves out empty pieces.                                    *)
Split(s, sep) ==
  LET Cut(a, c) == IF c = sep THEN Append(a, <<>>)
                              ELSE [a EXCEPT ![Len(a)] = Append(@, c)]
  IN SelectSeq(FoldLeft(Cut, << <<>> >>, s), LAMBDA piece : piece # <<>>)

(* Util::Trim: everything goes when there is nothing else.                 *)
Trim(s, c) ==
  LET kept == {i \in DOMAIN s : s[i] # c} IN
  IF kept = {} THEN <<>> ELSE SubSeq(s, Min(kept), Max(kept))

(* detail::split trims spaces before it leaves out what is empty.          *)
SplitTrimmed(s, sep) ==
  LET pieces == Split(s, sep)
      trimmed == [i \in DOMAIN pieces |-> Trim(pieces[i], 32)]
  IN SelectSeq(trimmed, LAMBDA piece : piece # <<>>)

-----------------------------------------------------------------------------
(* URLs, over character codes.                                             *)
IsHex(c) == c \in (48..57) \union (65..70) \union (97..102)
HexValue(c) == IF c <= 57 THEN c - 48 ELSE IF c <= 70 THEN c - 55 ELSE c - 87
Hex(v) == IF v < 10 THEN v + 48 ELSE v + 55

(* The value of cnt hexadecimal digits from i on, or -1.                   *)
FromHex(s, i, cnt) ==
  IF i + cnt - 1 <= Len(s) /\ \A k \in i..(i + cnt - 1) : IsHex(s[k])
  THEN FoldLeft(LAMBDA v, c : v * 16 + HexValue(c), 0, SubSeq(s, i, i + cnt - 1))
  ELSE -1

(* A code of four digits is below 2^16; a surrogate gives nothing.         *)
ToUtf8(code) ==
  CASE code < 128 -> <<code>>
    [] code \in 128..2047 -> <<192 + code \div 64, 128 + (code % 64)>>
    [] code \in 55296..57343 -> <<>>
    [] OTHER -> <<224 + code \div 4096, 128 + ((code \div 64) % 64), 128 + (code % 64)>>

Escaped == {32, 43, 13, 10, 39, 44, 59} \union (128..255)

EncodeUrl(s) ==
  FlattenSeq([i \in DOMAIN s |->
    IF s[i] \in Escaped THEN <<37, Hex(s[i] \div 16), Hex(s[i] % 16)>> ELSE <<s[i]>>])

\* Fault: an escape is taken to be two characters long.
DecodeUrlShort(s, plus) ==
  LET D[i \in 1..(Len(s) + 3)] ==
        IF i > Len(s) THEN <<>>
        ELSE IF s[i] = 37 /\ FromHex(s, i + 1, 2) >= 0 THEN <<FromHex(s, i + 1, 2)>> \o D[i + 2]
        ELSE IF plus /\ s[i] = 43 THEN <<32>> \o D[i + 1]
        ELSE <<s[i]>> \o D[i + 1]
  IN D[1]

(* What is not an escape stays as it is.                                   *)
DecodeUrl(s, plus) ==
  LET Long(i) == i < Len(s) /\ s[i + 1] = 117
      D[i \in 1..(Len(s) + 1)] ==
        IF i > Len(s) THEN <<>>
        ELSE IF s[i] = 37 /\ Long(i) /\ FromHex(s, i + 2, 4) >= 0
             THEN ToUtf8(FromHex(s, i + 2, 4)) \o D[i + 6]
        ELSE IF s[i] = 37 /\ ~Long(i) /\ FromHex(s, i + 1, 2) >= 0
             THEN <<FromHex(s, i + 1, 2)>> \o D[i + 3]
        ELSE IF plus /\ s[i] = 43 THEN <<32>> \o D[i + 1]
        ELSE <<s[i]>> \o D[i + 1]
  IN D[1]

(* The path ClientImpl::redirect asks the next server for.                 *)
RedirectedPath(location) == EncodeUrl(DecodeUrl(location, TRUE))

(* parse_request_line: the fragment goes, the path ends at a "?" and is    *)
(* decoded once.                                                           *)
ParseTarget(target) ==
  LET whole == Before(target, 35)
      pieces == SelectSeq(<<Trim(Before(whole, 63), 32), Trim(After(whole, 63), 32)>>,
                          LAMBDA piece : piece # <<>>)
  IN IF pieces = <<>> THEN <<>> ELSE DecodeUrl(pieces[1], FALSE)

(* Util::ReplaceAll of "//" by "/" goes on behind what it has replaced.    *)
SingleSlashes(s) ==
  LET R[i \in 1..(Len(s) + 1)] ==
        IF i > Len(s) THEN <<>>
        ELSE IF i < Len(s) /\ s[i] = 47 /\ s[i + 1] = 47 THEN <<47>> \o R[i + 2]
        ELSE <<s[i]>> \o R[i + 1]
  IN R[1]

(* BaseClient::GetFullPath.                                                *)
GetFullPath(base_path, path) == SingleSlashes(base_path \o <<47>> \o Trim(Trim(path, 32), 47))

-----------------------------------------------------------------------------
(* Where a client connects to, over the words of a url.                    *)
GetHttpUrl(url) ==
  [i \in DOMAIN url |-> CASE url[i] = "webdav" /\ i < Len(url) /\ url[i + 1] = "://" -> "http"
                          [] url[i] = "webdavs" /\ i < Len(url) /\ url[i + 1] = "://" -> "https"
                          [] OTHER -> url[i]]

(* BaseClient::Connect takes the url apart at the slash behind the host.   *)
HostUrl(url) == Before(url, "/")
BasePath(url) == Drop(url, Len(HostUrl(url)))

(* httplib's Client: a url it does not understand is a host.               *)
NewClient(host_url) ==
  LET scheme == IF Len(host_url) > 1 /\ host_url[2] = "://" THEN host_url[1] ELSE ""
      tls == scheme = "https"
      rest == IF scheme = "" THEN host_url ELSE Drop(host_url, 2)
  IN IF scheme \notin {"", "http", "https"} THEN [throws |-> TRUE]
     ELSE [tls |-> tls, host |-> rest[1],
           port |-> IF Len(rest) = 3 THEN rest[3] ELSE IF tls THEN "443" ELSE "80"]

-----------------------------------------------------------------------------
(* Headers, over character codes.  An empty value is left out with its     *)
(* key, and escapes are undone in every value but that of Location.        *)
TrimBlank(s) ==
  LET kept == {i \in DOMAIN s : s[i] \notin {32, 9}} IN
  IF kept = {} THEN <<>> ELSE SubSeq(s, Min(kept), Max(kept))
Location == <<76, 111, 99, 97, 116, 105, 111, 110>>

ParseHeader(line) ==
  LET key == Before(line, 58)
      value == TrimBlank(After(line, 58))
  IN IF key = <<>> \/ value = <<>> THEN <<>>
     ELSE << <<key, IF key = Location THEN value ELSE DecodeUrl(value, FALSE)>> >>

WriteHeaders(headers) ==
  FlattenSeq([i \in DOMAIN headers |-> headers[i][1] \o <<58, 32>> \o headers[i][2] \o <<13, 10>>]) \o <<13, 10>>

(* Lines up to the blank one; those that do not end in CRLF are skipped.   *)
ReadHeaders(s) ==
  LET Cut(a, c) == IF c = 10 THEN Append(a, <<>>) ELSE [a EXCEPT ![Len(a)] = Append(@, c)]
      lines == FoldLeft(Cut, << <<>> >>, s)
      blank == SelectInSeq(lines, LAMBDA line : line = <<13>>)
      proper == SelectSeq(SubSeq(lines, 1, blank - 1), LAMBDA line : line # <<>> /\ Last(line) = 13)
  IN [ret |-> blank # 0, headers |-> FlattenSeq([i \in DOMAIN proper |-> ParseHeader(Front(proper[i]))])]

(* The parameters of a part's Content-Disposition, in quotes as they are   *)
(* serialized, and as they are read: a piece that was seen is skipped, and *)
(* of several "=" the last one counts.                                     *)
Name == <<110>>
Filename == <<102>>
Disposition(name, filename) ==
  Name \o <<61, 34>> \o name \o <<34>>
    \o (IF filename = <<>> THEN <<>> ELSE <<59, 32>> \o Filename \o <<61, 34>> \o filename \o <<34>>)

TrimDoubleQuotes(s) == IF Len(s) >= 2 /\ s[1] = 34 /\ Last(s) = 34 THEN Front(Tail(s)) ELSE s

ParseDispositionParams(s) ==
  LET pieces == SelectSeq([i \in DOMAIN SplitTrimmed(s, 59) |-> SplitTrimmed(SplitTrimmed(s, 59)[i], 61)],
                          LAMBDA piece : piece # <<>>)
      Value(piece) == IF Len(piece) > 1 THEN TrimDoubleQuotes(Last(piece)) ELSE <<>>
      Add(params, piece) == LET key == TrimDoubleQuotes(piece[1]) IN
        [k \in DOMAIN params \union {key} |-> IF k \in DOMAIN params THEN params[k] ELSE Value(piece)]
  IN FoldLeft(Add, [k \in {} |-> <<>>], pieces)

-----------------------------------------------------------------------------
(* Base64, as digits 0..63 and the padding.                                *)
Padding == 64

(* Base64::Encode of base64.h: in_len - 2 wraps below 2.                   *)
EncodeDefined(bytes) == Len(bytes) >= 2
Encode(bytes) ==
  LET n == Len(bytes)
      At(i) == IF i <= n THEN bytes[i] ELSE 0
      Group(i) == <<At(i) \div 4, (At(i) % 4) * 16 + At(i + 1) \div 16,
                    IF i + 1 <= n THEN (At(i + 1) % 16) * 4 + At(i + 2) \div 64 ELSE Padding,
                    IF i + 2 <= n THEN At(i + 2) % 64 ELSE Padding>>
  IN FlattenSeq([g \in 1..((n + 2) \div 3) |-> Group(3 * g - 2)])

(* Base64::Decode: the last two digits may be padding.                     *)
Decode(digits) ==
  LET n == Len(digits)
      Digit(i) == IF digits[i] = Padding THEN 0 ELSE digits[i]
      Triple(i) == ((Digit(i) * 64 + Digit(i + 1)) * 64 + Digit(i + 2)) * 64 + Digit(i + 3)
      Bytes(i) == <<Triple(i) \div 65536, (Triple(i) \div 256) % 256, Triple(i) % 256>>
      padded == Len(SelectSeq(SubSeq(digits, n - 1, n), LAMBDA d : d = Padding))
  IN SubSeq(FlattenSeq([g \in 1..(n \div 4) |-> Bytes(4 * g - 3)]), 1, (n \div 4) * 3 - padded)

(* httplib's own encoder, for the Authorization header: bits are shifted   *)
(* in eight at a time and out six at a time.                               *)
BasicEncode(bytes) ==
  LET Push(a, b) == [a EXCEPT !.out = Append(@, (a.val \div 2^b) % 64), !.valb = b - 6]
      Shift(a, c) ==
        LET in == [a EXCEPT !.val = (@ * 256 + c) % 65536, !.valb = @ + 8]
            once == Push(in, in.valb)
        IN IF once.valb >= 0 THEN Push(once, once.valb) ELSE once
      all == FoldLeft(Shift, [val |-> 0, valb |-> -6, out |-> <<>>], bytes)
      rest == IF all.valb > -6 THEN Append(all.out, ((all.val * 256) \div 2^(all.valb + 8)) % 64)
                               ELSE all.out
  IN rest \o [i \in 1..((-Len(rest)) % 4) |-> Padding]

-----------------------------------------------------------------------------
(* The Range header of GetRange and how a server of httplib reads it.      *)
Digits(n) == IF n < 10 THEN <<48 + n>> ELSE <<48 + n \div 10, 48 + (n % 10)>>
Number(digits) == FoldLeft(LAMBDA v, d : v * 10 + d - 48, 0, digits)

MakeRangeHeader(ranges) ==
  LET Bound(n) == IF n = -1 THEN <<>> ELSE Digits(n)
      Piece(i) == (IF i > 1 THEN <<44, 32>> ELSE <<>>) \o Bound(ranges[i][1]) \o <<45>> \o Bound(ranges[i][2])
  IN FlattenSeq([i \in DOMAIN ranges |-> Piece(i)])

(* Reversed bounds refuse the whole header.                                *)
ParseRangeHeader(s) ==
  LET Bound(digits) == IF digits = <<>> THEN -1 ELSE Number(digits)
      pieces == SplitTrimmed(s, 44)
      ranges == [i \in DOMAIN pieces |-> <<Bound(Before(pieces[i], 45)), Bound(After(pieces[i], 45))>>]
      reversed == \E i \in DOMAIN ranges : -1 \notin {ranges[i][1], ranges[i][2]} /\ ranges[i][1] > ranges[i][2]
  IN [ret |-> ~reversed, ranges |-> ranges]

-----------------------------------------------------------------------------
(* ArchiveOrgClient::Login: a cookie is the first two pieces between "=".  *)
IgnoredCookies == {<<"path">>, <<"secure">>}
Cookies(header) ==
  LET pieces == Split(header, ";")
      Pair(i) == Split(pieces[i], "=")
      Key(i) == Trim(Pair(i)[1], " ")
      Value(i) == IF Len(Pair(i)) > 1 THEN Trim(Pair(i)[2], " ") ELSE <<>>
      Add(jar, i) == IF Key(i) \in IgnoredCookies THEN jar
                     ELSE [k \in DOMAIN jar \union {Key(i)} |-> IF k = Key(i) THEN Value(i) ELSE jar[k]]
  IN FoldLeft(Add, <<>>, [i \in DOMAIN pieces |-> i])

-----------------------------------------------------------------------------
(* is_valid_path, over the components between the slashes.                 *)
IsValidPath(components) ==
  LET Walk(level, c) == IF level = -1 \/ c = "." THEN level
                        ELSE IF c = ".." THEN level - 1 ELSE level + 1
  IN FoldLeft(Walk, 0, components) # -1

-----------------------------------------------------------------------------
(* The configuration file: OpenIniFile's list of lines, and the searches.  *)
Has(line, c) == \E i \in DOMAIN line : line[i] = c
Uncommented(line) == Before(line, ";")

Entry(line) ==
  LET s == Uncommented(line) IN
  [text |-> line, type |-> IF Has(s, "[") /\ Has(s, "]") THEN "section"
                           ELSE IF Has(s, "=") THEN "keyvalue" ELSE "comment"]
OpenIniFile(lines) == [i \in DOMAIN lines |-> Entry(lines[i])]

(* The whole line is compared, a carriage return at its end included.      *)
FindSection(entries, name) ==
  SelectInSeq(entries, LAMBDA e : e.type = "section" /\ e.text = <<"[", name, "]">>)

KeyText(e) == Before(Uncommented(e.text), "=")
ValText(e) == After(Uncommented(e.text), "=")

(* The first entry after the section that is the key or another section.   *)
FindpKey(entries, name, key) ==
  LET below == Drop(entries, FindSection(entries, name))
      stop == SelectInSeq(below, LAMBDA e : e.type = "section" \/ (e.type = "keyvalue" /\ KeyText(e) = <<key>>))
  IN IF FindSection(entries, name) # 0 /\ stop # 0 /\ below[stop].type = "keyvalue"
     THEN <<below[stop]>> ELSE <<>>

(* atoi takes the number at the beginning, and 0 without one.              *)
Numbers == {"8080", "81"}
Atoi(value) == IF value # <<>> /\ value[1] \in Numbers THEN value[1] ELSE "0"

ReadInt(entries, name, key, default) ==
  LET found == FindpKey(entries, name, key) IN
  IF found = <<>> THEN default ELSE Atoi(ValText(found[1]))

(* CONFIG::LoadConfig.                                                     *)
LoadConfig(lines) == ReadInt(OpenIniFile(lines), "HttpServer", "http_server_port", "9090")
=============================================================================
