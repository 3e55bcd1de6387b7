--------------------------- MODULE MCHttpSession ---------------------------
(***************************************************************************)
(* Messages for the model checking of HttpSession, and its composition     *)
(* with the texts of the responses.                                        *)
(***************************************************************************)
EXTENDS HttpSession, Responses

H(name, value) == [name |-> name, value |-> value, colon |-> TRUE]
NoColon        == [name |-> <<"junk">>, value |-> "other", colon |-> FALSE]

Get(url, headers) ==
    [method |-> "GET", url |-> url, headers |-> headers, body |-> <<>>]
Post(headers, body) ==
    [method |-> "POST", url |-> "file", headers |-> headers, body |-> body]

KeepAlive   == H(<<"Connection">>, "keep-alive")
Close       == H(<<"Connection">>, "close")
Cookie      == H(<<"Cookie">>, "other")
Latin1      == H(<<"Accept", "Charset">>, "ISO-8859-1")
Utf8        == H(<<"Accept", "Charset">>, "other")
Length      == H(<<"Content", "Length">>, "other")
Auth(v)     == H(<<"Authorization">>, v)
Type(v)     == H(<<"Content", "Type">>, v)

CurlPart   == <<"delim26", "part_header", "blank", "data", "delim26">>
ChromePart == <<"delim6", "part_header", "blank", "data", "delim6">>

\* Messages whose extent the child determines as the client does.
FramedMessages ==
    { Get("file", <<KeepAlive>>), Get("missing", <<Close>>),
      Get("directory", <<Cookie>>), Get("file", <<Utf8>>),
      Get("file", <<Close, Utf8, Latin1, KeepAlive>>),
      Get("file", <<NoColon, Cookie>>), Get("empty", <<>>),
      Post(<<Auth("good"), Length, Type("multipart24")>>, CurlPart),
      Post(<<Auth("good"), Length, Type("multipart4")>>, ChromePart),
      Post(<<>>, CurlPart), Post(<<NoColon, Auth("wrong")>>, <<>>),
      Post(<<Auth("good"), Close>>, <<>>), Post(<<Auth("garbled")>>, <<>>),
      Post(<<Auth("other")>>, <<>>), Get("file", <<Auth("other")>>),
      Post(<<Auth("good"), Length>>, CurlPart),
      Get("file", <<H(<<"If", "Modified", "Since">>, "date")>>) }

\* Messages that leave lines in the stream, swallow those of the next message
\* or crash the child.
OtherMessages ==
    { [method |-> "OTHER", url |-> "file", headers |-> <<KeepAlive>>,
       body |-> <<"data">>],
      [Get("file", <<Length, Close>>) EXCEPT !.body = <<"data">>],
      [Get("file", <<Length>>) EXCEPT !.body = <<"data", "data">>],
      Get("file", <<H(<<"If", "Modified", "Since">>, "date")>>),
      Get("file", <<Close>>),
      Post(<<Auth("good"), Length, Type("multipart24")>>, CurlPart),
      Post(<<Auth("good"), Length, Type("multipart24")>>,
           <<"delim26", "part_header", "blank", "data">>),
      Post(<<Auth("good"), Length, Type("multipart24")>>, <<"data">>),
      Post(<<Auth("good"), Length, Type("multipart27")>>, CurlPart),
      Post(<<H(<<"Accept">>, "other"), Auth("other")>>, <<>>) }
PlainMessages == { Get("file", <<KeepAlive>>) }

\* http_server.c:415: on a connection that goes on, the client finds every response
\* where the child began to write it.  A 401, which has no Content-Length, takes
\* the end of the connection for its own: nothing may come after it.
ResponsesDelimited ==
    LET statuses == [i \in DOMAIN out |-> out[i].status]
    IN  /\ ClientReads(statuses).found = statuses
        /\ ~ClientReads(statuses).complete => pc = "exited"
=============================================================================
