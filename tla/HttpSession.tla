---------------------------- MODULE HttpSession ----------------------------
(***************************************************************************)
(* One forked child of the HTTP server and the client it talks to: the     *)
(* keep-alive loop of http_server(), handle_client_connection(), the GET   *)
(* handler of src/http_get.c and the POST (upload) handler of              *)
(* src/http_post.c.                                                        *)
(*                                                                         *)
(* The byte stream is abstracted to lines, the unit read_line() returns.   *)
(* A message is a request line, header lines, a blank line and body lines; *)
(* the child's place in the stream is the cursor <<cur, off>>: it has      *)
(* consumed off lines of the cur-th message.  Lengths (Content-Length,     *)
(* ilength) count lines.  The child is a sequential process, so that its   *)
(* steps cut where it may block on the socket, and nowhere else.           *)
(***************************************************************************)
EXTENDS Integers, Sequences, SequencesExt, HeaderFields

CONSTANTS Messages,      \* what the client may send
          MaxMessages,   \* bound on the number of messages of a connection
          OpenMayFail    \* may open() of an uploaded file fail?

Urls      == {"file", "empty", "missing", "directory"}
BodyLines == {"delim26", "delim6", "part_header", "blank", "data"}
\* The values the code tells apart; "multipart24" is a Content-Type whose
\* boundary has 24 dashes, "other" a word that is none of the others.
Values    == {"keep-alive", "close", "ISO-8859-1", "text/plain", "text/html", "en",
              "date", "good", "wrong", "garbled", "multipart24", "multipart4",
              "multipart27", "other"}
Header    == [name : Seq(STRING), value : Values, colon : BOOLEAN]
Message   == [method : {"GET", "POST", "OTHER"}, url : Urls,
              headers : Seq(Header), body : Seq(BodyLines)]

\* Messages are well formed: a Content-Length header is understood to give
\* the true length of the body.
ASSUME SessionAssumption ==
    /\ \A m \in Messages : m \in Message
    /\ MaxMessages \in Nat
    /\ OpenMayFail \in BOOLEAN

VARIABLES
    sent,       \* the messages the client has sent, the last one perhaps cut
    lastLines,  \* how many lines of the last message have been sent
    closed,     \* the client has closed its end
    cur, off,   \* the cursor of the child in the stream
    pc,         \* where the child is
    req,        \* the message whose first line opened the current request
    g,          \* the per-connection globals of http_server.c
    hinfo,      \* the St_header_info of a POST, and ibodyflag
    want,       \* bytes still to be read: size of read_socket(), ilength
    out         \* history: the responses, each with the request it answers

client == <<sent, lastLines, closed>>
cursor == <<cur, off>>
vars   == <<client, cursor, pc, req, g, hinfo, want, out>>

PcValues == {"request", "get_headers", "get_dispatch", "get_body", "get_reply",
             "post_headers", "post_auth", "part_headers", "open_file",
             "write_file", "exited", "crashed"}
Statuses == {"200", "201", "400", "401", "401bad", "403", "404", "404url",
             "501cookie", "501text", "501charset", "501method"}

Globals    == [keep_alive : BOOLEAN, content_length : Nat \cup {-1},
               cookie : BOOLEAN, header_err_flag : BOOLEAN,
               acceptable_text : BOOLEAN, acceptable_charset : BOOLEAN]
HeaderInfo == [auth : Values \cup {"none"}, icontent_length : Nat,
               boundary : BOOLEAN, ibodyflag : BOOLEAN, disposition : BOOLEAN]
Response   == [msg : Nat, status : Statuses]

(***************************************************************************)
(* The stream.                                                             *)
(***************************************************************************)
NumLines(m) == Len(m.headers) + 2 + Len(m.body)

LineKind(m, k) ==
    IF k = 0 THEN "request"
    ELSE IF k <= Len(m.headers) THEN "header"
    ELSE IF k = Len(m.headers) + 1 THEN "blank"
    ELSE m.body[k - Len(m.headers) - 1]

\* read_line() has a line to return, or the end of the stream.
HasLine == cur <= Len(sent) /\ (cur < Len(sent) \/ off < lastLines)
AtEof   == closed /\ ~HasLine

NextLine   == LineKind(sent[cur], off)
NextHeader == sent[cur].headers[off]

\* Mutant: the cursor runs past the last line of a message.
StepPastEnd == cur' = cur /\ off' = off + 1
ReadLine ==
    IF off + 1 = NumLines(sent[cur]) THEN cur' = cur + 1 /\ off' = 0
                                     ELSE cur' = cur /\ off' = off + 1

AcceptableText == {"text/plain", "text/html"}

\* The globals after one header line of a GET.
GetHeaderEffect(h) ==
    LET f == Field(GetFields, h.name) IN
    CASE ~h.colon -> [g EXCEPT !.header_err_flag = TRUE]
      [] h.colon /\ f = <<"Connection">> /\ h.value \in {"keep-alive", "close"} ->
            [g EXCEPT !.keep_alive = (h.value = "keep-alive")]
      [] h.colon /\ f = <<"Content", "Length">> ->
            [g EXCEPT !.content_length = Len(sent[cur].body)]
      [] h.colon /\ f = <<"Cookie">> -> [g EXCEPT !.cookie = TRUE]
      [] h.colon /\ f = <<"Accept", "Language">>
                 /\ h.value \in {"text/plain", "en"} ->
            [g EXCEPT !.acceptable_text = TRUE]
      [] h.colon /\ f = <<"Accept">> ->
            [g EXCEPT !.acceptable_text = (h.value \in AcceptableText)]
      [] h.colon /\ f = <<"Accept", "Charset">> ->
            [g EXCEPT !.acceptable_charset = (h.value = "ISO-8859-1")]
      [] OTHER -> g

\* strptime() on a date it can read stores through if_modified_since, which
\* is NULL; one it cannot read stops before the first store.
StoresThroughNull(h) ==
    /\ h.colon
    /\ Field(GetFields, h.name) = <<"If", "Modified", "Since">>
    /\ h.value = "date"

\* The values with a space in them.
Spaced == {"good", "wrong", "garbled", "date", "multipart24", "multipart4", "multipart27"}

\* The method and the credentials of an Authorization are looked for on both
\* sides of a space, which is taken to be there: strchr() returns NULL.
NoSpace(fields, h) ==
    h.colon /\ Field(fields, h.name) = <<"Authorization">> /\ h.value \notin Spaced

GetHeaderKills(h) == StoresThroughNull(h) \/ NoSpace(GetFields, h)

(***************************************************************************)
(* Beginning and end of a request.                                         *)
(***************************************************************************)
\* The globals reset at the top of the keep-alive loop (all but keep_alive).
\* Mutant: the cookie flag of an earlier request survives.
FreshGlobalsButCookie ==
    [keep_alive |-> g.keep_alive, content_length |-> -1, cookie |-> g.cookie,
     header_err_flag |-> FALSE, acceptable_text |-> TRUE,
     acceptable_charset |-> TRUE]
FreshGlobals ==
    [keep_alive |-> g.keep_alive, content_length |-> -1, cookie |-> FALSE,
     header_err_flag |-> FALSE, acceptable_text |-> TRUE,
     acceptable_charset |-> TRUE]

NoHeaderInfo == [auth |-> "none", icontent_length |-> 0, boundary |-> FALSE,
                 ibodyflag |-> FALSE, disposition |-> FALSE]

\* Write a response and go back to the top of the loop, which ends the child
\* when keep_alive (now ka) is false.
\* Mutant: the handler returns without looking at keep_alive.
ReplyAndStay(status, ka) ==
    /\ out' = Append(out, [msg |-> req, status |-> status])
    /\ g' = [g EXCEPT !.keep_alive = ka]
    /\ pc' = "request"
    /\ UNCHANGED <<client, cursor, req, hinfo, want>>
Reply(status, ka) ==
    /\ out' = Append(out, [msg |-> req, status |-> status])
    /\ g' = [g EXCEPT !.keep_alive = ka]
    /\ pc' = IF ka THEN "request" ELSE "exited"
    /\ UNCHANGED <<client, cursor, req, hinfo, want>>

Crash == /\ pc' = "crashed"
         /\ UNCHANGED <<client, cursor, req, g, hinfo, want, out>>

(***************************************************************************)
(* The request line: handle_client_connection().                           *)
(***************************************************************************)
ReadMethod(method) ==
    /\ pc = "request" /\ HasLine /\ NextLine = "request"
    /\ sent[cur].method = method
    /\ ReadLine
    /\ req' = cur

StartGet ==
    /\ ReadMethod("GET")
    /\ g' = FreshGlobals
    /\ pc' = "get_headers"
    /\ UNCHANGED <<client, hinfo, want, out>>

StartPost ==
    /\ ReadMethod("POST")
    /\ g' = FreshGlobals
    /\ hinfo' = NoHeaderInfo
    /\ pc' = "post_headers"
    /\ UNCHANGED <<client, want, out>>

\* http_post_request() tests ret before it is assigned: when it happens to be
\* 0, the URL is reported as unknown, whatever checkurl() returned.
PostUnknownUrl ==
    /\ ReadMethod("POST")
    /\ g' = [FreshGlobals EXCEPT !.keep_alive = FALSE]
    /\ out' = Append(out, [msg |-> cur, status |-> "404url"])
    /\ pc' = "exited"
    /\ UNCHANGED <<client, hinfo, want>>

\* Any other method is answered at once; the rest of its message stays in the
\* stream.
MethodNotAllowed ==
    /\ ReadMethod("OTHER")
    /\ g' = FreshGlobals
    /\ out' = Append(out, [msg |-> cur, status |-> "501method"])
    /\ UNCHANGED <<client, pc, hinfo, want>>

\* A line that is no request line is taken for one: with two spaces in it, it
\* has an unknown method; with fewer, strchr() returns NULL and is used.
MisreadAsMethod ==
    /\ pc = "request" /\ HasLine /\ NextLine \in {"header", "part_header", "data"}
    /\ ReadLine
    /\ req' = cur
    /\ g' = FreshGlobals
    /\ out' = Append(out, [msg |-> cur, status |-> "501method"])
    /\ UNCHANGED <<client, pc, hinfo, want>>

MisreadAndCrash ==
    /\ pc = "request" /\ HasLine /\ NextLine # "request"
    /\ Crash

\* End of the stream: handle_client_connection() returns -1, which the loop
\* ignores.
ReadRequestEof ==
    /\ pc = "request" /\ AtEof
    /\ g' = FreshGlobals
    /\ UNCHANGED <<client, cursor, pc, req, hinfo, want, out>>

(***************************************************************************)
(* GET: read_headers() and http_get().                                     *)
(***************************************************************************)
GetHeader ==
    /\ pc = "get_headers" /\ HasLine /\ NextLine = "header"
    /\ ~GetHeaderKills(NextHeader)
    /\ ReadLine
    /\ g' = GetHeaderEffect(NextHeader)
    /\ UNCHANGED <<client, pc, req, hinfo, want, out>>

GetHeaderCrash ==
    /\ pc = "get_headers" /\ HasLine /\ NextLine = "header"
    /\ GetHeaderKills(NextHeader)
    /\ Crash

\* Mutant: a bad header line ends the header section.
EndsHeadersOrBad ==
    \/ NextLine = "blank"
    \/ NextLine = "header" /\ ~NextHeader.colon
EndsHeaders == NextLine = "blank"

GetHeadersEnd ==
    /\ pc = "get_headers" /\ HasLine /\ EndsHeaders
    /\ ReadLine
    /\ pc' = "get_dispatch"
    /\ UNCHANGED <<client, req, g, hinfo, want, out>>

\* read_line() returns 0 for ever: the loop of read_headers() never ends.
GetHeadersEof ==
    /\ pc = "get_headers" /\ AtEof
    /\ g' = [g EXCEPT !.header_err_flag = TRUE]
    /\ UNCHANGED <<client, cursor, pc, req, hinfo, want, out>>

\* http_get() compares ret with INVALID before it is assigned.
GetUnknownUrl == pc = "get_dispatch" /\ Reply("404url", FALSE)

\* Mutant: a malformed header is answered, but the connection kept.
BadRequestKeepAlive ==
    pc = "get_dispatch" /\ g.header_err_flag /\ Reply("400", g.keep_alive)
GetBadRequest ==
    pc = "get_dispatch" /\ g.header_err_flag /\ Reply("400", FALSE)

GetContent ==
    /\ pc = "get_dispatch" /\ ~g.header_err_flag
    /\ want' = IF g.content_length > 0 THEN g.content_length ELSE 0
    /\ pc' = "get_body"
    /\ UNCHANGED <<client, cursor, req, g, hinfo, out>>

\* read_socket(): reads until size bytes are there or a read fails ...
ReadContent ==
    /\ pc = "get_body" /\ want > 0 /\ HasLine
    /\ ReadLine
    /\ want' = want - 1
    /\ UNCHANGED <<client, pc, req, g, hinfo, out>>

\* Mutant: the content is taken to last until the client closes.
ContentAtEof ==
    /\ pc = "get_body" /\ AtEof
    /\ pc' = "get_reply"
    /\ UNCHANGED <<client, cursor, req, g, hinfo, want, out>>
ContentDone ==
    /\ pc = "get_body" /\ (want = 0 \/ AtEof)
    /\ pc' = "get_reply"
    /\ UNCHANGED <<client, cursor, req, g, hinfo, want, out>>

\* ... or strstr() sees a ">" in the malloc'ed buffer it has not filled yet.
StopAtMarker ==
    /\ pc = "get_body" /\ want > 0
    /\ pc' = "get_reply"
    /\ UNCHANGED <<client, cursor, req, g, hinfo, want, out>>

\* What is_valid_fname(), stat(), S_ISREG, S_IRUSR and fopen() make of a path
\* ("directory" stands for all that is refused); a file may go away between
\* stat() and fopen().
FileStatus(url) ==
    CASE url = "file"      -> {"200", "404"}
      [] url \in {"missing", "empty"} -> {"404"}
      [] url = "directory" -> {"403"}
      [] OTHER             -> {}

Served  == ~g.cookie /\ g.acceptable_text /\ g.acceptable_charset
Refusal == IF g.cookie THEN "501cookie"
           ELSE IF ~g.acceptable_text THEN "501text" ELSE "501charset"

GetRefuse == pc = "get_reply" /\ ~Served /\ Reply(Refusal, g.keep_alive)

GetServe ==
    /\ pc = "get_reply" /\ Served
    /\ \E s \in FileStatus(sent[req].url) : Reply(s, g.keep_alive)

\* An empty file is opened and no line read: file_contents is NULL when ok()
\* takes its length.
GetServeEmpty ==
    /\ pc = "get_reply" /\ Served /\ sent[req].url = "empty"
    /\ Crash

(***************************************************************************)
(* POST: read_post_headers(), http_post_request() and write_file().        *)
(***************************************************************************)
\* A line with a run of 26 dashes is taken for the start of the body headers,
\* be it a header of the request.
LooksLikeDelimiter(h) == h.value = "multipart27"

PostHeaderEffect(h) ==
    LET f == Field(PostFields, h.name) IN
    CASE LooksLikeDelimiter(h) -> [hinfo EXCEPT !.ibodyflag = TRUE]
      [] ~LooksLikeDelimiter(h) /\ h.colon /\ f = <<"Authorization">> ->
            [hinfo EXCEPT !.auth = h.value]
      [] ~LooksLikeDelimiter(h) /\ h.colon /\ f = <<"Content", "Length">> ->
            [hinfo EXCEPT !.icontent_length = Len(sent[cur].body)]
      [] ~LooksLikeDelimiter(h) /\ h.colon /\ f = <<"Content", "Type">>
                                /\ ~hinfo.ibodyflag ->
            [hinfo EXCEPT !.boundary = h.value \in {"multipart24", "multipart4"}]
      [] OTHER -> hinfo

\* The globals after it: Accept is looked at here too, Connection is not.
PostHeaderGlobals(h) ==
    IF LooksLikeDelimiter(h) THEN g
    ELSE IF ~h.colon THEN [g EXCEPT !.header_err_flag = TRUE]
    ELSE IF Field(PostFields, h.name) = <<"Accept">>
         THEN [g EXCEPT !.acceptable_text = (h.value \in AcceptableText)]
    ELSE g

PostHeaderKills(h) == ~LooksLikeDelimiter(h) /\ NoSpace(PostFields, h)

PostHeader ==
    /\ pc = "post_headers" /\ HasLine /\ NextLine = "header"
    /\ ~PostHeaderKills(NextHeader)
    /\ ReadLine
    /\ hinfo' = PostHeaderEffect(NextHeader)
    /\ g' = PostHeaderGlobals(NextHeader)
    /\ UNCHANGED <<client, pc, req, want, out>>

\* A header of the request, or one that is read where a part's should be.
PostHeaderCrash ==
    /\ pc \in {"post_headers", "part_headers"} /\ HasLine /\ NextLine = "header"
    /\ PostHeaderKills(NextHeader)
    /\ Crash

PostHeadersEnd ==
    /\ pc = "post_headers" /\ HasLine /\ NextLine = "blank"
    /\ ReadLine
    /\ pc' = "post_auth"
    /\ UNCHANGED <<client, req, g, hinfo, want, out>>

PostHeadersEof ==
    /\ pc \in {"post_headers", "part_headers"} /\ AtEof
    /\ g' = [g EXCEPT !.header_err_flag = TRUE]
    /\ UNCHANGED <<client, cursor, pc, req, hinfo, want, out>>

PostUnauthorized ==
    /\ pc = "post_auth" /\ hinfo.auth = "none" /\ Reply("401", FALSE)

PostWrongPassword ==
    /\ pc = "post_auth" /\ hinfo.auth = "wrong" /\ Reply("401bad", FALSE)

\* check_authorization() uses the result of strchr(plaintext, ':'), which is
\* NULL for credentials without a colon.
PostGarbledCredentials ==
    pc = "post_auth" /\ hinfo.auth \notin {"none", "wrong", "good"} /\ Crash

Authorized == pc = "post_auth" /\ hinfo.auth = "good"

\* Mutant: an upload without content is not answered.
PostEmptySilent ==
    /\ Authorized /\ hinfo.icontent_length <= 0
    /\ pc' = "request"
    /\ UNCHANGED <<client, cursor, req, g, hinfo, want, out>>
PostEmpty ==
    Authorized /\ hinfo.icontent_length <= 0 /\ Reply("201", g.keep_alive)

\* write_file() takes strlen() of the boundary, NULL when none was found.
PostNoBoundary ==
    Authorized /\ hinfo.icontent_length > 0 /\ ~hinfo.boundary /\ Crash

PostUpload ==
    /\ Authorized /\ hinfo.icontent_length > 0 /\ hinfo.boundary
    /\ hinfo' = [hinfo EXCEPT !.ibodyflag = FALSE, !.disposition = FALSE]
    /\ want' = hinfo.icontent_length
    /\ pc' = "part_headers"
    /\ UNCHANGED <<client, cursor, req, g, out>>

IsDelimiter ==
    \/ NextLine = "delim26"
    \/ NextLine = "header" /\ LooksLikeDelimiter(NextHeader)

\* The second call of read_post_headers(), on the headers of the part (or on
\* whatever follows in the stream).
PartHeader ==
    /\ pc = "part_headers" /\ HasLine /\ NextLine # "blank"
    /\ NextLine = "header" => ~PostHeaderKills(NextHeader)
    /\ ReadLine
    /\ hinfo' = [hinfo EXCEPT
                   !.ibodyflag = @ \/ IsDelimiter,
                   !.disposition = @ \/ (NextLine = "part_header" /\ hinfo.ibodyflag)]
    /\ g' = IF NextLine = "header" THEN PostHeaderGlobals(NextHeader)
            ELSE IF NextLine \in {"delim26", "part_header"} THEN g
            ELSE [g EXCEPT !.header_err_flag = TRUE]
    /\ UNCHANGED <<client, pc, req, want, out>>

PartHeadersEnd ==
    /\ pc = "part_headers" /\ HasLine /\ NextLine = "blank"
    /\ ReadLine
    /\ pc' = "open_file"
    /\ UNCHANGED <<client, req, g, hinfo, want, out>>

OpenFile ==
    /\ pc = "open_file"
    /\ pc' = "write_file"
    /\ UNCHANGED <<client, cursor, req, g, hinfo, want, out>>

\* write_file() returns -1: no response, and the body stays in the stream.
OpenFileFails ==
    /\ pc = "open_file" /\ OpenMayFail
    /\ pc' = IF g.keep_alive THEN "request" ELSE "exited"
    /\ UNCHANGED <<client, cursor, req, g, hinfo, want, out>>

\* Without a recorded disposition getfilename() copies from an uninitialised
\* pointer.
OpenFileUnnamed == pc = "open_file" /\ ~hinfo.disposition /\ Crash

Delimiters == {"delim26", "delim6"}

WriteLine ==
    /\ pc = "write_file" /\ want > 0 /\ HasLine /\ NextLine \notin Delimiters
    /\ ReadLine
    /\ want' = want - 1
    /\ UNCHANGED <<client, pc, req, g, hinfo, out>>

\* The closing delimiter, or the length used up: ok() reports success.
\* Mutant: the closing delimiter is left in the stream.
LastLineLeft ==
    /\ pc = "write_file" /\ want > 0 /\ HasLine /\ NextLine \in Delimiters
    /\ Reply("201", g.keep_alive)
WriteLastLine ==
    /\ pc = "write_file" /\ want > 0 /\ HasLine /\ NextLine \in Delimiters
    /\ ReadLine
    /\ out' = Append(out, [msg |-> req, status |-> "201"])
    /\ want' = want - 1
    /\ pc' = IF g.keep_alive THEN "request" ELSE "exited"
    /\ UNCHANGED <<client, req, g, hinfo>>

WriteDone == pc = "write_file" /\ want = 0 /\ Reply("201", g.keep_alive)

\* read_line() returns 0 and ilength does not move.
\* Mutant: an upload that breaks off is answered as if it were whole.
WriteEofDone == pc = "write_file" /\ want > 0 /\ AtEof /\ Reply("201", g.keep_alive)
WriteEof ==
    /\ pc = "write_file" /\ want > 0 /\ AtEof
    /\ UNCHANGED vars

(***************************************************************************)
(* The client, and the signal a write to a closed connection raises.       *)
(***************************************************************************)
Send(m) ==
    /\ ~closed /\ Len(sent) < MaxMessages
    /\ sent' = Append(sent, m)
    /\ lastLines' = NumLines(m)
    /\ UNCHANGED <<closed, cursor, pc, req, g, hinfo, want, out>>

Disconnect ==
    /\ ~closed
    /\ closed' = TRUE
    /\ UNCHANGED <<sent, lastLines, cursor, pc, req, g, hinfo, want, out>>

\* The client goes away in the middle of a message.
SendPartAndDisconnect(m) ==
    /\ ~closed /\ Len(sent) < MaxMessages
    /\ closed' = TRUE
    /\ sent' = Append(sent, m)
    /\ lastLines' \in 1 .. NumLines(m) - 1
    /\ UNCHANGED <<cursor, pc, req, g, hinfo, want, out>>

\* SIGPIPE is not handled: a response to a client that is gone may kill the
\* child.
BrokenPipe ==
    /\ closed
    /\ pc \in {"get_dispatch", "get_reply", "post_auth", "write_file"}
    /\ Crash

(***************************************************************************)
(* The specification.                                                      *)
(***************************************************************************)
Init ==
    /\ sent = <<>> /\ lastLines = 0 /\ closed = FALSE
    /\ cur = 1 /\ off = 0
    /\ pc = "request" /\ req = 0
    /\ g = [keep_alive |-> TRUE, content_length |-> -1, cookie |-> FALSE,
            header_err_flag |-> FALSE, acceptable_text |-> TRUE,
            acceptable_charset |-> TRUE]
    /\ hinfo = NoHeaderInfo
    /\ want = 0
    /\ out = <<>>

RequestStep == \/ StartGet \/ StartPost \/ PostUnknownUrl \/ MethodNotAllowed
               \/ MisreadAsMethod \/ MisreadAndCrash \/ ReadRequestEof

GetStep == \/ GetHeader \/ GetHeaderCrash \/ GetHeadersEnd \/ GetHeadersEof
           \/ GetUnknownUrl \/ GetBadRequest \/ GetContent
           \/ ReadContent \/ ContentDone \/ GetRefuse \/ GetServe \/ GetServeEmpty

PostStep == \/ PostHeader \/ PostHeaderCrash \/ PostHeadersEnd \/ PostHeadersEof \/ PostUnauthorized
            \/ PostWrongPassword \/ PostGarbledCredentials \/ PostEmpty
            \/ PostNoBoundary \/ PostUpload \/ PartHeader \/ PartHeadersEnd
            \/ OpenFile \/ OpenFileFails \/ OpenFileUnnamed
            \/ WriteLine \/ WriteLastLine \/ WriteDone \/ WriteEof

Child  == RequestStep \/ GetStep \/ PostStep
Client == \/ \E m \in Messages : Send(m) \/ SendPartAndDisconnect(m)
          \/ Disconnect

Next == Child \/ StopAtMarker \/ BrokenPipe \/ Client

Spec     == Init /\ [][Next]_vars
\* The operating system schedules the child; nothing forces the client, and
\* nothing forces the outcomes of undefined behaviour and of signals.
FairSpec == Spec /\ WF_vars(Child)

(***************************************************************************)
(* Properties.                                                             *)
(***************************************************************************)
\* The cursor stays within the lines of the stream.
CursorInStream ==
    /\ cur \in 1 .. Len(sent) + 1
    /\ off \in Nat
    /\ cur <= Len(sent) => off < NumLines(sent[cur])
    /\ cur = Len(sent) + 1 => off = 0

\* Every variable has its type.
TypeOK ==
    /\ sent \in Seq(Messages) /\ lastLines \in Nat /\ closed \in BOOLEAN
    /\ CursorInStream
    /\ pc \in PcValues
    /\ req \in 0 .. Len(sent)
    /\ g \in Globals
    /\ hinfo \in HeaderInfo
    /\ want \in Nat
    /\ out \in Seq(Response)

\* Framing: whenever handle_client_connection() is about to read the first
\* line of a request, the stream stands at the beginning of a message.
AtMessageBoundary == pc = "request" => off = 0

\* Keep-alive pipelining: the i-th response of the child answers the i-th
\* message of the client; no message is skipped and none answered twice.
OneResponsePerRequest == \A i \in DOMAIN out : out[i].msg = i

HasField(m, name)  == \E i \in DOMAIN m.headers :
                         m.headers[i].colon /\ m.headers[i].name = name
\* The last header of that name whose value matters has a value in V.
LastIn(m, name, matters, V) ==
    \E i \in DOMAIN m.headers :
        /\ m.headers[i].colon /\ m.headers[i].name = name
        /\ m.headers[i].value \in V
        /\ \A j \in DOMAIN m.headers :
              j > i => ~(/\ m.headers[j].colon /\ m.headers[j].name = name
                         /\ m.headers[j].value \in matters)
AsksClose(m)  == LastIn(m, <<"Connection">>, {"keep-alive", "close"}, {"close"})
Malformed(m)  == \E i \in DOMAIN m.headers : ~m.headers[i].colon
ForeignCharset(m) ==
    /\ HasField(m, <<"Accept", "Charset">>)
    /\ ~LastIn(m, <<"Accept", "Charset">>, Values, {"ISO-8859-1"})

ExpectedGet(m) ==
    IF Malformed(m) THEN {"400"}
    ELSE IF HasField(m, <<"Cookie">>) THEN {"501cookie"}
    ELSE IF ForeignCharset(m) THEN {"501charset"}
    ELSE FileStatus(m.url)
ExpectedPost(m) ==
    IF ~HasField(m, <<"Authorization">>) THEN {"401"}
    ELSE IF LastIn(m, <<"Authorization">>, Values, {"good"}) THEN {"201"}
    ELSE {"401bad"}
Expected(m) == {"404url"} \cup (IF m.method = "GET" THEN ExpectedGet(m)
                                                    ELSE ExpectedPost(m))

\* The globals of the child carry nothing from one request of a connection to
\* the next: a response is what its own message calls for.
ResponseMeetsRequest == \A i \in DOMAIN out : out[i].status \in Expected(sent[out[i].msg])

\* http_server.c:663: a response that tells the client to go (or, for the 401s, has
\* no Content-Length and so ends only with the connection) is the last one, and so
\* is that to a GET whose headers ask for it; the child ends for no other reason.
\* A POST cannot ask: the Connection of its headers is not looked at.
Closes(m, status) ==
    \/ status \in {"400", "401", "401bad", "404url"}
    \/ /\ m.method = "GET" /\ AsksClose(m)
       /\ status # "501method"   \* sent before the headers are read
MustClose(r) == Closes(sent[r.msg], r.status)
ExitIffClosing ==
    /\ \A i \in DOMAIN out : MustClose(out[i]) => i = Len(out) /\ pc = "exited"
    /\ pc = "exited" => out # <<>> /\ MustClose(out[Len(out)])

\* How many lines of a message must have arrived for a response: an upload is
\* reported as stored when all of it has.
Needs(m, status) ==
    CASE status = "201" -> NumLines(m)
      [] status = "404url" /\ m.method = "POST" -> 1
      [] OTHER -> Len(m.headers) + 2

\* What write_file() relies on: a boundary in the headers, and the name of the
\* file in the headers of the part.
NamesBoundary(m) ==
    /\ LastIn(m, <<"Content", "Type">>, Values, {"multipart24", "multipart4"})
    /\ \A i \in DOMAIN m.headers : ~LooksLikeDelimiter(m.headers[i])
NamesFileAt(b, j) == /\ b[j] = "part_header" /\ \E i \in 1 .. j - 1 : b[i] = "delim26"
                     /\ \A i \in 1 .. j : b[i] # "blank"
NamesFile(b) == \E j \in DOMAIN b : NamesFileAt(b, j)

\* The messages a child may die of: an empty file, a date it can read, credentials
\* without a space or a colon, and an upload that does not say what it is.
Kills(m) ==
    \/ m.method = "GET" /\ m.url = "empty" /\ ExpectedGet(m) = FileStatus("empty")
    \/ m.method = "GET" /\ \E i \in DOMAIN m.headers : GetHeaderKills(m.headers[i])
    \/ m.method = "POST" /\ \E i \in DOMAIN m.headers : PostHeaderKills(m.headers[i])
    \/ /\ m.method = "POST"
       /\ LastIn(m, <<"Authorization">>, Values, Values \ {"good", "wrong"})
    \/ /\ m.method = "POST" /\ LastIn(m, <<"Authorization">>, Values, {"good"})
       /\ m.body # <<>> /\ ~(NamesBoundary(m) /\ NamesFile(m.body))

\* The promise to the client (HttpService): responses in order, each by its own
\* message and when that has arrived, an end when a response closes; and a child
\* that dies has a client that has gone, or a message that kills it.
Life == CASE pc = "exited" -> "ended" [] pc = "crashed" -> "dead" [] OTHER -> "open"
Service == INSTANCE HttpService WITH
    answers <- [i \in DOMAIN out |-> out[i].status], state <- Life
ImplementsService == Service!Spec

\* Every complete message of a client that stays is answered, unless the
\* child has ended.
Arrived(i) == Len(sent) > i \/ (Len(sent) = i /\ lastLines = NumLines(sent[i]))
Responds ==
    \A i \in 1 .. MaxMessages :
        Arrived(i) ~> (Len(out) >= i \/ pc \in {"exited", "crashed"} \/ closed)

\* Whatever the client sends, the child reads on: every complete message of a
\* client that stays is consumed (though perhaps not as a message), unless the
\* child has ended.
Drained ==
    \A i \in 1 .. MaxMessages :
        Arrived(i) ~> (cur > i \/ pc \in {"exited", "crashed"} \/ closed)

\* http_server.c:972 "Continuously perform GET responses until we no longer
\* wish to keep alive": a child whose client has gone ends.
ChildEndsWithClient == closed ~> pc \in {"exited", "crashed"}
=============================================================================
