---------------------------- MODULE MCHttpClient ----------------------------
(* Responses for HttpClient: every framing, redirects to the same host, to *)
(* another and to nowhere.                                                 *)
EXTENDS HttpClient

Answer(status, location, length, framing, close, cookie) ==
  [status |-> status, location |-> location, length |-> length, framing |-> framing,
   close |-> close, cookie |-> cookie]

SomeAnswers ==
  {Answer(200, "none", 2, "length", FALSE, TRUE), Answer(200, "none", 2, "none", FALSE, FALSE),
   Answer(200, "none", 0, "length", TRUE, FALSE), Answer(200, "none", 1, "chunked", FALSE, FALSE),
   Answer(302, "same", 1, "length", FALSE, FALSE), Answer(302, "same", 0, "length", TRUE, FALSE),
   Answer(302, "other", 0, "length", FALSE, FALSE), Answer(302, "none", 0, "length", FALSE, FALSE),
   Answer(404, "none", 1, "length", FALSE, TRUE)}
=============================================================================
