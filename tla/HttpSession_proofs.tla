------------------------- MODULE HttpSession_proofs -------------------------
(***************************************************************************)
(* Theorems about HttpSession, for any set of messages and any length of a *)
(* connection: its types; when the child ends; the framing of requests,    *)
(* for messages whose extent the child determines as the client does; that *)
(* each response is what its message calls for; that the child implements  *)
(* HttpService; and that the client finds where each response begins and   *)
(* ends.                                                                   *)
(***************************************************************************)
EXTENDS MCHttpSession, HeaderFields_proofs

(***************************************************************************)
(* The stream.                                                             *)
(***************************************************************************)
\* A message has a request line and a blank line at least, so that a cursor at
\* its beginning is within it.
LEMMA MessageLines ==
    ASSUME NEW m \in Message
    PROVE  /\ Len(m.headers) \in Nat
           /\ Len(m.body) \in Nat
           /\ NumLines(m) = Len(m.headers) + 2 + Len(m.body)
           /\ NumLines(m) \in Nat
           /\ NumLines(m) >= 2
<1> DEFINE h == Len(m.headers)
           b == Len(m.body)
<1>1. m.headers \in Seq(Header) /\ m.body \in Seq(BodyLines)
  BY DEF Message
<1>2. h \in Nat /\ b \in Nat
  BY <1>1
<1>3. NumLines(m) = h + 2 + b
  BY DEF NumLines
<1>4. h + 2 + b \in Nat /\ h + 2 + b >= 2
  <2> HIDE DEF h, b
  <2>. QED  BY <1>2
<1>. QED  BY <1>2, <1>3, <1>4

\* Appending a message to the stream leaves those the child has read alone.
LEMMA AppendMessage ==
    ASSUME NEW s \in Seq(Messages), NEW m \in Messages
    PROVE  /\ Append(s, m) \in Seq(Messages)
           /\ Len(Append(s, m)) = Len(s) + 1
           /\ \A i \in 1 .. Len(s) : Append(s, m)[i] = s[i]
           /\ Append(s, m)[Len(s) + 1] = m
OBVIOUS

\* When read_line() returns a header, it is one of the current message.
LEMMA HeaderLine ==
    ASSUME TypeOK, HasLine, NextLine = "header"
    PROVE  /\ NextHeader \in Header
           /\ off \in 1 .. Len(sent[cur].headers)
<1> DEFINE m == sent[cur]
           h == Len(m.headers)
           b == Len(m.body)
           k == off - h - 1
<1>1. m \in Message
  BY SessionAssumption DEF TypeOK, CursorInStream, HasLine
<1>2. m.headers \in Seq(Header) /\ m.body \in Seq(BodyLines)
  BY <1>1 DEF Message
<1>3. h \in Nat /\ b \in Nat /\ off \in Nat /\ off < h + 2 + b
  BY <1>1, MessageLines DEF TypeOK, CursorInStream, HasLine
<1>4. CASE off > h + 1
  <2>1. NextLine = m.body[k]
    <3>1. off # 0 /\ ~(off <= h) /\ off # h + 1
      <4> HIDE DEF h
      <4>. QED  BY <1>3, <1>4
    <3>. QED  BY <3>1 DEF NextLine, LineKind
  <2>2. k \in 1 .. b
    <3> HIDE DEF h, b
    <3>. QED  BY <1>3, <1>4
  <2>3. m.body[k] \in BodyLines
    BY <1>2, <2>2
  <2>. QED  BY <2>1, <2>3 DEF BodyLines
<1>5. CASE ~(off > h + 1)
  <2>1. off # 0 /\ off # h + 1
    BY <1>3 DEF NextLine, LineKind
  <2>2. off \in 1 .. h
    <3> HIDE DEF h
    <3>. QED  BY <1>3, <1>5, <2>1
  <2>. QED  BY <1>2, <2>2 DEF NextHeader
<1>. QED  BY <1>4, <1>5

\* Reading a line keeps the cursor in the stream.
LEMMA ReadLineInStream ==
    ASSUME TypeOK, HasLine, ReadLine, UNCHANGED sent
    PROVE  CursorInStream'
<1>1. cur \in 1 .. Len(sent) /\ off \in Nat /\ off < NumLines(sent[cur])
  BY DEF TypeOK, CursorInStream, HasLine
<1>2. \A i \in 1 .. Len(sent) : NumLines(sent[i]) \in Nat /\ NumLines(sent[i]) >= 2
  <2>1. \A i \in 1 .. Len(sent) : sent[i] \in Message
    BY SessionAssumption DEF TypeOK
  <2>. QED  BY <2>1, MessageLines
<1>3. CASE off + 1 = NumLines(sent[cur])
  BY <1>1, <1>2, <1>3 DEF ReadLine, TypeOK, CursorInStream
<1>4. CASE off + 1 # NumLines(sent[cur])
  BY <1>1, <1>2, <1>4 DEF ReadLine, TypeOK, CursorInStream
<1>. QED  BY <1>3, <1>4

\* What the headers of a GET make of the globals has their type.
LEMMA GetHeaderEffectType ==
    ASSUME TypeOK, HasLine, NEW h \in Header
    PROVE  GetHeaderEffect(h) \in Globals
<1>1. sent[cur] \in Message
  BY SessionAssumption DEF TypeOK, CursorInStream, HasLine
<1>2. Len(sent[cur].body) \in Nat
  BY <1>1, MessageLines
<1>3. g \in Globals
  BY DEF TypeOK
<1>4. \A v \in BOOLEAN :
        /\ [g EXCEPT !.keep_alive = v] \in Globals
        /\ [g EXCEPT !.cookie = v] \in Globals
        /\ [g EXCEPT !.header_err_flag = v] \in Globals
        /\ [g EXCEPT !.acceptable_text = v] \in Globals
        /\ [g EXCEPT !.acceptable_charset = v] \in Globals
  BY <1>3 DEF Globals
<1>5. [g EXCEPT !.content_length = Len(sent[cur].body)] \in Globals
  BY <1>2, <1>3 DEF Globals
<1>6. /\ (h.value = "keep-alive") \in BOOLEAN
      /\ (h.value \in AcceptableText) \in BOOLEAN
      /\ (h.value = "ISO-8859-1") \in BOOLEAN
  OBVIOUS
<1>. QED  BY <1>3, <1>4, <1>5, <1>6, Zenon DEF GetHeaderEffect

\* What the headers of a POST make of its header information has its type.
LEMMA PostHeaderEffectType ==
    ASSUME TypeOK, HasLine, NEW h \in Header
    PROVE  PostHeaderEffect(h) \in HeaderInfo
<1>1. sent[cur] \in Message
  BY SessionAssumption DEF TypeOK, CursorInStream, HasLine
<1>2. Len(sent[cur].body) \in Nat
  BY <1>1, MessageLines
<1>3. hinfo \in HeaderInfo
  BY DEF TypeOK
<1>4. /\ [hinfo EXCEPT !.ibodyflag = TRUE] \in HeaderInfo
      /\ [hinfo EXCEPT !.icontent_length = Len(sent[cur].body)] \in HeaderInfo
      /\ \A v \in BOOLEAN : [hinfo EXCEPT !.boundary = v] \in HeaderInfo
  BY <1>2, <1>3 DEF HeaderInfo
<1>5. [hinfo EXCEPT !.auth = h.value] \in HeaderInfo
  BY <1>3 DEF HeaderInfo, Header
<1>6. (h.value \in {"multipart24", "multipart4"}) \in BOOLEAN
  OBVIOUS
<1>. QED  BY <1>3, <1>4, <1>5, <1>6, Zenon DEF PostHeaderEffect

\* So do the globals, and keep_alive is not among those it changes.
LEMMA PostHeaderGlobalsType ==
    ASSUME g \in Globals, NEW h
    PROVE  PostHeaderGlobals(h) \in Globals /\ PostHeaderGlobals(h).keep_alive = g.keep_alive
<1>1. /\ [g EXCEPT !.header_err_flag = TRUE] \in Globals
      /\ [g EXCEPT !.header_err_flag = TRUE].keep_alive = g.keep_alive
      /\ \A v \in BOOLEAN : /\ [g EXCEPT !.acceptable_text = v] \in Globals
                            /\ [g EXCEPT !.acceptable_text = v].keep_alive = g.keep_alive
  BY DEF Globals
<1>2. (h.value \in AcceptableText) \in BOOLEAN
  OBVIOUS
<1>. QED  BY <1>1, <1>2, Zenon DEF PostHeaderGlobals

\* A response keeps every type, whatever the status and keep_alive.
LEMMA ReplyType ==
    ASSUME TypeOK, NEW s \in Statuses, NEW ka \in BOOLEAN, Reply(s, ka)
    PROVE  TypeOK'
<1>1. [msg |-> req, status |-> s] \in Response
  BY DEF TypeOK, Response
<1>2. out' \in Seq(Response)
  BY <1>1 DEF TypeOK, Reply
<1>3. g' \in Globals
  BY DEF TypeOK, Reply, Globals
<1>4. pc' \in PcValues
  BY DEF Reply, PcValues
<1>. QED  BY <1>2, <1>3, <1>4 DEF TypeOK, CursorInStream, Reply, client, cursor

LEMMA CrashType ==
    ASSUME TypeOK, Crash
    PROVE  TypeOK'
BY DEF TypeOK, CursorInStream, Crash, client, cursor, PcValues

LEMMA FreshGlobalsType ==
    ASSUME TypeOK
    PROVE  /\ FreshGlobals \in Globals
           /\ [FreshGlobals EXCEPT !.keep_alive = FALSE] \in Globals
BY DEF TypeOK, FreshGlobals, Globals

LEMMA NoHeaderInfoType == NoHeaderInfo \in HeaderInfo
BY DEF NoHeaderInfo, HeaderInfo

\* The request line.
LEMMA RequestStepType ==
    ASSUME TypeOK, RequestStep
    PROVE  TypeOK'
<1>1. FreshGlobals \in Globals /\ [FreshGlobals EXCEPT !.keep_alive = FALSE] \in Globals
  BY FreshGlobalsType
<1>2. NoHeaderInfo \in HeaderInfo
  BY NoHeaderInfoType
<1>3. ASSUME HasLine
      PROVE  /\ cur \in 0 .. Len(sent)
             /\ \A s \in Statuses :
                   Append(out, [msg |-> cur, status |-> s]) \in Seq(Response)
  <2>1. cur \in 1 .. Len(sent) /\ Len(sent) \in Nat
    BY <1>3 DEF TypeOK, CursorInStream, HasLine
  <2>2. cur \in Nat /\ cur \in 0 .. Len(sent)
    BY <2>1
  <2>3. \A s \in Statuses : [msg |-> cur, status |-> s] \in Response
    BY <2>2 DEF Response
  <2>4. out \in Seq(Response)
    BY DEF TypeOK
  <2>. QED  BY <2>2, <2>3, <2>4
<1>4. CASE StartGet
  <2>1. CursorInStream'
    BY <1>4, ReadLineInStream DEF StartGet, ReadMethod, client
  <2>. QED  BY <1>1, <1>3, <1>4, <2>1 DEF StartGet, ReadMethod, TypeOK, client, PcValues
<1>5. CASE StartPost
  <2>1. CursorInStream'
    BY <1>5, ReadLineInStream DEF StartPost, ReadMethod, client
  <2>. QED
    BY <1>1, <1>2, <1>3, <1>5, <2>1 DEF StartPost, ReadMethod, TypeOK, client, PcValues
<1>6. CASE PostUnknownUrl
  <2>1. CursorInStream'
    BY <1>6, ReadLineInStream DEF PostUnknownUrl, ReadMethod, client
  <2>. QED  BY <1>1, <1>3, <1>6, <2>1
            DEF PostUnknownUrl, ReadMethod, TypeOK, client, PcValues, Statuses
<1>7. CASE MethodNotAllowed
  <2>1. CursorInStream'
    BY <1>7, ReadLineInStream DEF MethodNotAllowed, ReadMethod, client
  <2>. QED  BY <1>1, <1>3, <1>7, <2>1
            DEF MethodNotAllowed, ReadMethod, TypeOK, client, Statuses
<1>8. CASE MisreadAsMethod
  <2>1. CursorInStream'
    BY <1>8, ReadLineInStream DEF MisreadAsMethod, client
  <2>. QED  BY <1>1, <1>3, <1>8, <2>1 DEF MisreadAsMethod, TypeOK, client, Statuses
<1>9. CASE MisreadAndCrash
  BY <1>9, CrashType DEF MisreadAndCrash
<1>10. CASE ReadRequestEof
  BY <1>1, <1>10 DEF ReadRequestEof, TypeOK, CursorInStream, client, cursor
<1>. QED  BY <1>4, <1>5, <1>6, <1>7, <1>8, <1>9, <1>10 DEF RequestStep

\* The handler of GET.
LEMMA GetStepType ==
    ASSUME TypeOK, GetStep \/ StopAtMarker
    PROVE  TypeOK'
<1>1. /\ g \in Globals /\ g.keep_alive \in BOOLEAN
      /\ g.content_length \in Nat \cup {-1}
      /\ [g EXCEPT !.header_err_flag = TRUE] \in Globals
  BY DEF TypeOK, Globals
<1>2. CASE GetHeader
  <2>1. CursorInStream'
    BY <1>2, ReadLineInStream DEF GetHeader, client
  <2>2. g' \in Globals
    BY <1>2, HeaderLine, GetHeaderEffectType DEF GetHeader
  <2>. QED  BY <1>2, <2>1, <2>2 DEF GetHeader, TypeOK, client
<1>3. CASE GetHeaderCrash
  BY <1>3, CrashType DEF GetHeaderCrash
<1>4. CASE GetHeadersEnd
  <2>1. CursorInStream'
    BY <1>4, ReadLineInStream DEF GetHeadersEnd, client
  <2>. QED  BY <1>4, <2>1 DEF GetHeadersEnd, TypeOK, client, PcValues
<1>5. CASE GetHeadersEof
  BY <1>1, <1>5 DEF GetHeadersEof, TypeOK, CursorInStream, client, cursor
<1>6. CASE GetUnknownUrl
  BY <1>6, ReplyType DEF GetUnknownUrl, Statuses
<1>7. CASE GetBadRequest
  BY <1>7, ReplyType DEF GetBadRequest, Statuses
<1>8. CASE GetContent
  BY <1>1, <1>8 DEF GetContent, TypeOK, CursorInStream, client, cursor, PcValues
<1>9. CASE ReadContent
  <2>1. CursorInStream'
    BY <1>9, ReadLineInStream DEF ReadContent, client
  <2>. QED  BY <1>9, <2>1 DEF ReadContent, TypeOK, client
<1>10. CASE ContentDone
  BY <1>10 DEF ContentDone, TypeOK, CursorInStream, client, cursor, PcValues
<1>11. CASE StopAtMarker
  BY <1>11 DEF StopAtMarker, TypeOK, CursorInStream, client, cursor, PcValues
<1>12. CASE GetRefuse
  <2>1. Refusal \in Statuses
    BY DEF Refusal, Statuses
  <2>. QED  BY <1>1, <1>12, <2>1, ReplyType DEF GetRefuse
<1>13. CASE GetServe
  <2>1. FileStatus(sent[req].url) \subseteq Statuses
    BY DEF FileStatus, Statuses
  <2>. QED  BY <1>1, <1>13, <2>1, ReplyType DEF GetServe
<1>14. CASE GetServeEmpty
  BY <1>14, CrashType DEF GetServeEmpty
<1>. QED  BY <1>2, <1>3, <1>4, <1>5, <1>6, <1>7, <1>8, <1>9, <1>10, <1>11, <1>12,
             <1>13, <1>14 DEF GetStep

\* The handler of POST.
LEMMA PostStepType ==
    ASSUME TypeOK, PostStep
    PROVE  TypeOK'
<1>1. /\ g \in Globals /\ g.keep_alive \in BOOLEAN
      /\ [g EXCEPT !.header_err_flag = TRUE] \in Globals
  BY DEF TypeOK, Globals
<1>2. hinfo \in HeaderInfo /\ hinfo.icontent_length \in Nat
  BY DEF TypeOK, HeaderInfo
<1>3. CASE PostHeader
  <2>1. CursorInStream'
    BY <1>3, ReadLineInStream DEF PostHeader, client
  <2>2. hinfo' \in HeaderInfo
    BY <1>3, HeaderLine, PostHeaderEffectType DEF PostHeader
  <2>3. g' \in Globals
    BY <1>1, <1>3, PostHeaderGlobalsType DEF PostHeader
  <2>. QED  BY <1>3, <2>1, <2>2, <2>3 DEF PostHeader, TypeOK, client
<1>4. CASE PostHeadersEnd
  <2>1. CursorInStream'
    BY <1>4, ReadLineInStream DEF PostHeadersEnd, client
  <2>. QED  BY <1>4, <2>1 DEF PostHeadersEnd, TypeOK, client, PcValues
<1>5. CASE PostHeadersEof
  BY <1>1, <1>5 DEF PostHeadersEof, TypeOK, CursorInStream, client, cursor
<1>6. CASE PostUnauthorized
  BY <1>6, ReplyType DEF PostUnauthorized, Statuses
<1>7. CASE PostWrongPassword
  BY <1>7, ReplyType DEF PostWrongPassword, Statuses
<1>8. CASE PostGarbledCredentials
  BY <1>8, CrashType DEF PostGarbledCredentials
<1>9. CASE PostEmpty
  BY <1>1, <1>9, ReplyType DEF PostEmpty, Statuses
<1>10. CASE PostNoBoundary
  BY <1>10, CrashType DEF PostNoBoundary
<1>11. CASE PostUpload
  <2>1. hinfo' \in HeaderInfo
    BY <1>2, <1>11 DEF PostUpload, HeaderInfo
  <2>. QED  BY <1>2, <1>11, <2>1
            DEF PostUpload, TypeOK, CursorInStream, client, cursor, PcValues
<1>12. CASE PartHeader
  <2>1. CursorInStream'
    BY <1>12, ReadLineInStream DEF PartHeader, client
  <2>2. hinfo' \in HeaderInfo
    <3>1. \A v, w \in BOOLEAN :
            [hinfo EXCEPT !.ibodyflag = v, !.disposition = w] \in HeaderInfo
      BY <1>2 DEF HeaderInfo
    <3>2. /\ (hinfo.ibodyflag \/ IsDelimiter) \in BOOLEAN
          /\ (hinfo.disposition \/ (NextLine = "part_header" /\ hinfo.ibodyflag))
               \in BOOLEAN
      OBVIOUS
    <3>. QED  BY <1>12, <3>1, <3>2, Zenon DEF PartHeader
  <2>3. g' \in Globals
    BY <1>1, <1>12, PostHeaderGlobalsType DEF PartHeader
  <2>. QED  BY <1>12, <2>1, <2>2, <2>3 DEF PartHeader, TypeOK, client
<1>13. CASE PartHeadersEnd
  <2>1. CursorInStream'
    BY <1>13, ReadLineInStream DEF PartHeadersEnd, client
  <2>. QED  BY <1>13, <2>1 DEF PartHeadersEnd, TypeOK, client, PcValues
<1>14. CASE OpenFile \/ OpenFileFails
  BY <1>14 DEF OpenFile, OpenFileFails, TypeOK, CursorInStream, client, cursor, PcValues
<1>15. CASE OpenFileUnnamed
  BY <1>15, CrashType DEF OpenFileUnnamed
<1>16. CASE WriteLine
  <2>1. CursorInStream'
    BY <1>16, ReadLineInStream DEF WriteLine, client
  <2>. QED  BY <1>16, <2>1 DEF WriteLine, TypeOK, client
<1>17. CASE WriteLastLine
  <2>1. CursorInStream'
    BY <1>17, ReadLineInStream DEF WriteLastLine, client
  <2>2. [msg |-> req, status |-> "201"] \in Response
    BY DEF TypeOK, Response, Statuses
  <2>3. out' \in Seq(Response)
    BY <1>17, <2>2 DEF WriteLastLine, TypeOK
  <2>. QED  BY <1>17, <2>1, <2>3 DEF WriteLastLine, TypeOK, client, PcValues
<1>18. CASE WriteDone
  BY <1>1, <1>18, ReplyType DEF WriteDone, Statuses
<1>19. CASE WriteEof
  BY <1>19 DEF WriteEof, TypeOK, CursorInStream, vars, client, cursor
<1>20. CASE PostHeaderCrash
  BY <1>20, CrashType DEF PostHeaderCrash
<1>. QED  BY <1>3, <1>4, <1>5, <1>6, <1>7, <1>8, <1>9, <1>10, <1>11, <1>12, <1>13,
             <1>14, <1>15, <1>16, <1>17, <1>18, <1>19, <1>20 DEF PostStep

\* The client.
LEMMA ClientType ==
    ASSUME TypeOK, Client
    PROVE  TypeOK'
<1>1. CASE Disconnect
  BY <1>1 DEF Disconnect, TypeOK, CursorInStream, cursor
<1>2. ASSUME NEW m \in Messages, sent' = Append(sent, m), lastLines' \in Nat,
             closed' \in BOOLEAN, UNCHANGED <<cursor, pc, req, g, hinfo, want, out>>
      PROVE  TypeOK'
  <2>1. sent \in Seq(Messages) /\ Len(sent) \in Nat
    BY DEF TypeOK
  <2>2. /\ sent' \in Seq(Messages) /\ Len(sent') = Len(sent) + 1
        /\ \A i \in 1 .. Len(sent) : sent'[i] = sent[i]
        /\ sent'[Len(sent) + 1] = m
    BY <1>2, <2>1, AppendMessage
  <2>3. NumLines(m) \in Nat /\ NumLines(m) >= 2
    BY MessageLines, SessionAssumption
  <2>4. CursorInStream'
    BY <1>2, <2>1, <2>2, <2>3 DEF TypeOK, CursorInStream, cursor
  <2>. QED  BY <1>2, <2>1, <2>2, <2>4 DEF TypeOK, cursor
<1>3. ASSUME NEW m \in Messages, Send(m) \/ SendPartAndDisconnect(m)
      PROVE  TypeOK'
  <2>1. NumLines(m) \in Nat /\ NumLines(m) >= 2
    BY MessageLines, SessionAssumption
  <2>2. lastLines' \in Nat /\ closed' \in BOOLEAN /\ sent' = Append(sent, m)
    <3>1. CASE Send(m)
      BY <2>1, <3>1 DEF Send, TypeOK
    <3>2. CASE SendPartAndDisconnect(m)
      BY <2>1, <3>2 DEF SendPartAndDisconnect, TypeOK
    <3>. QED  BY <1>3, <3>1, <3>2
  <2>. QED  BY <1>2, <1>3, <2>2 DEF Send, SendPartAndDisconnect
<1>. QED  BY <1>1, <1>3 DEF Client

LEMMA NextType ==
    ASSUME TypeOK, [Next]_vars
    PROVE  TypeOK'
<1>1. CASE UNCHANGED vars
  BY <1>1 DEF TypeOK, CursorInStream, vars, client, cursor
<1>2. CASE BrokenPipe
  BY <1>2, CrashType DEF BrokenPipe
<1>. QED  BY <1>1, <1>2, RequestStepType, GetStepType, PostStepType, ClientType
          DEF Next, Child

LEMMA InitType == Init => TypeOK
<1>. SUFFICES ASSUME Init PROVE TypeOK
  OBVIOUS
<1>1. g \in Globals
  BY DEF Init, Globals
<1>2. sent \in Seq(Messages) /\ out \in Seq(Response)
  BY DEF Init
<1>3. CursorInStream /\ req \in 0 .. Len(sent)
  BY DEF Init, CursorInStream
<1>4. hinfo \in HeaderInfo /\ pc \in PcValues
  BY NoHeaderInfoType DEF Init, PcValues
<1>5. lastLines \in Nat /\ want \in Nat /\ closed \in BOOLEAN
  BY DEF Init
<1>. QED  BY <1>1, <1>2, <1>3, <1>4, <1>5 DEF TypeOK

\* In every run of the child, for any set of messages, the variables keep their
\* types and the cursor stays within the stream: read_line() is never modelled
\* as returning a line that was not sent.
THEOREM TypeCorrect == Spec => []TypeOK
BY InitType, NextType, PTL DEF Spec

(***************************************************************************)
(* What the headers say, and what the globals say of those read so far.    *)
(***************************************************************************)
Shows(h, name, V) == h.colon /\ h.name = name /\ h.value \in V

\* HasField, LastIn and Malformed for the first n headers.
HasOf(m, n, name) == \E i \in 1 .. n : m.headers[i].colon /\ m.headers[i].name = name
LastOf(m, n, name, matters, V) ==
    \E i \in 1 .. n : /\ Shows(m.headers[i], name, V)
                      /\ \A j \in 1 .. n : j > i => ~Shows(m.headers[j], name, matters)
MalformedOf(m, n) == \E i \in 1 .. n : ~m.headers[i].colon

LEMMA AllHeaders ==
    ASSUME NEW m \in Message
    PROVE  LET n == Len(m.headers) IN
           /\ \A name : HasField(m, name) <=> HasOf(m, n, name)
           /\ \A name, matters, V : LastIn(m, name, matters, V) <=> LastOf(m, n, name, matters, V)
           /\ Malformed(m) <=> MalformedOf(m, n)
<1>1. DOMAIN m.headers = 1 .. Len(m.headers)
  BY DEF Message
<1>. QED  BY <1>1 DEF HasField, HasOf, LastIn, LastOf, Shows, Malformed, MalformedOf

LEMMA NoHeaders ==
    ASSUME NEW m
    PROVE  /\ \A name : ~HasOf(m, 0, name)
           /\ \A name, matters, V : ~LastOf(m, 0, name, matters, V)
           /\ ~MalformedOf(m, 0)
BY DEF HasOf, LastOf, MalformedOf

LEMMA OneMoreHeader ==
    ASSUME NEW m, NEW n \in Nat \ {0}
    PROVE  LET h == m.headers[n] IN
           /\ \A name : HasOf(m, n, name) <=> HasOf(m, n - 1, name) \/ (h.colon /\ h.name = name)
           /\ \A name, matters : \A V \in SUBSET matters :
                 LastOf(m, n, name, matters, V) <=>
                    \/ Shows(h, name, matters) /\ h.value \in V
                    \/ ~Shows(h, name, matters) /\ LastOf(m, n - 1, name, matters, V)
           /\ MalformedOf(m, n) <=> MalformedOf(m, n - 1) \/ ~h.colon
<1>1. /\ \A i \in 1 .. n : i = n \/ i \in 1 .. n - 1
      /\ \A i \in 1 .. n - 1 : i \in 1 .. n /\ n > i /\ i # n
      /\ n \in 1 .. n
      /\ \A i \in 1 .. n : ~(i > n)
  OBVIOUS
<1>2. \A name : HasOf(m, n, name) <=> HasOf(m, n - 1, name) \/ (m.headers[n].colon /\ m.headers[n].name = name)
  BY <1>1 DEF HasOf
<1>3. MalformedOf(m, n) <=> MalformedOf(m, n - 1) \/ ~m.headers[n].colon
  BY <1>1 DEF MalformedOf
<1>4. ASSUME NEW name, NEW matters, NEW V \in SUBSET matters
      PROVE  LastOf(m, n, name, matters, V) <=>
                \/ Shows(m.headers[n], name, matters) /\ m.headers[n].value \in V
                \/ ~Shows(m.headers[n], name, matters) /\ LastOf(m, n - 1, name, matters, V)
  <2>1. \A h : Shows(h, name, V) <=> Shows(h, name, matters) /\ h.value \in V
    BY DEF Shows
  <2>2. CASE Shows(m.headers[n], name, matters)
    <3>1. LastOf(m, n, name, matters, V) => m.headers[n].value \in V
      BY <1>1, <2>1, <2>2 DEF LastOf
    <3>2. m.headers[n].value \in V => LastOf(m, n, name, matters, V)
      BY <1>1, <2>1, <2>2 DEF LastOf
    <3>. QED  BY <2>2, <3>1, <3>2
  <2>3. CASE ~Shows(m.headers[n], name, matters)
    BY <1>1, <2>1, <2>3 DEF LastOf
  <2>. QED  BY <2>2, <2>3
<1>. QED  BY <1>2, <1>3, <1>4

\* The fields GetHeaderEffect tells apart.
LEMMA GetFieldsDiffer ==
    /\ <<"Connection">> # <<"Cookie">> /\ <<"Connection">> # <<"Accept">>
    /\ <<"Connection">> # <<"Accept", "Charset">>
    /\ <<"Connection">> # <<"Accept", "Language">>
    /\ <<"Connection">> # <<"Content", "Length">>
    /\ <<"Cookie">> # <<"Accept", "Charset">> /\ <<"Cookie">> # <<"Accept", "Language">>
    /\ <<"Cookie">> # <<"Accept">> /\ <<"Cookie">> # <<"Content", "Length">>
    /\ <<"Accept", "Charset">> # <<"Accept", "Language">>
    /\ <<"Accept", "Charset">> # <<"Accept">>
    /\ <<"Accept", "Charset">> # <<"Content", "Length">>
    /\ <<"Accept", "Language">> # <<"Content", "Length">>
    /\ <<"Accept", "Language">> # <<"Accept">> /\ <<"Accept">> # <<"Content", "Length">>
OBVIOUS

\* The arms of GetHeaderEffect.
LEMMA GetHeaderArms ==
    ASSUME NEW h, NEW f, f = Field(GetFields, h.name), f # <<"Accept">>,
           NEW e, e = GetHeaderEffect(h)
    PROVE  \/ ~h.colon /\ e = [g EXCEPT !.header_err_flag = TRUE]
           \/ /\ h.colon /\ f = <<"Connection">> /\ h.value \in {"keep-alive", "close"}
              /\ e = [g EXCEPT !.keep_alive = (h.value = "keep-alive")]
           \/ /\ h.colon /\ f = <<"Content", "Length">>
              /\ e = [g EXCEPT !.content_length = Len(sent[cur].body)]
           \/ h.colon /\ f = <<"Cookie">> /\ e = [g EXCEPT !.cookie = TRUE]
           \/ /\ h.colon /\ f = <<"Accept", "Language">>
              /\ e \in {[g EXCEPT !.acceptable_text = TRUE], g}
           \/ /\ h.colon /\ f = <<"Accept", "Charset">>
              /\ e = [g EXCEPT !.acceptable_charset = (h.value = "ISO-8859-1")]
           \/ /\ h.colon /\ ~(f = <<"Connection">> /\ h.value \in {"keep-alive", "close"})
              /\ f # <<"Cookie">> /\ f # <<"Accept", "Charset">> /\ e = g
<1> USE GetFieldsDiffer
<1>1. CASE ~h.colon
  BY <1>1, Zenon DEF GetHeaderEffect
<1>2. CASE h.colon /\ f = <<"Connection">> /\ h.value \in {"keep-alive", "close"}
  BY <1>2, Zenon DEF GetHeaderEffect
<1>3. CASE h.colon /\ f = <<"Content", "Length">>
  BY <1>3, Zenon DEF GetHeaderEffect
<1>4. CASE h.colon /\ f = <<"Cookie">>
  BY <1>4, Zenon DEF GetHeaderEffect
<1>5. CASE h.colon /\ f = <<"Accept", "Language">> /\ h.value \in {"text/plain", "en"}
  <2>1. e = [g EXCEPT !.acceptable_text = TRUE]
    BY <1>5, Zenon DEF GetHeaderEffect
  <2>. QED  BY <1>5, <2>1, Zenon
<1>6. CASE h.colon /\ f = <<"Accept", "Language">> /\ h.value \notin {"text/plain", "en"}
  <2>1. e = g
    BY <1>6, Zenon DEF GetHeaderEffect
  <2>. QED  BY <1>6, <2>1, Zenon
<1>7. CASE h.colon /\ f = <<"Accept", "Charset">>
  BY <1>7, Zenon DEF GetHeaderEffect
<1>8. CASE /\ h.colon /\ ~(f = <<"Connection">> /\ h.value \in {"keep-alive", "close"})
           /\ f # <<"Content", "Length">> /\ f # <<"Cookie">>
           /\ f # <<"Accept", "Language">> /\ f # <<"Accept", "Charset">>
  <2>1. e = g
    BY <1>8, Zenon DEF GetHeaderEffect
  <2>. QED  BY <1>8, <2>1, Zenon
<1>. QED  BY <1>1, <1>2, <1>3, <1>4, <1>5, <1>6, <1>7, <1>8, Zenon

\* What a header of a GET does to the globals.
LEMMA GetHeaderMeaning ==
    ASSUME g \in Globals, NEW h \in Header, h.name # <<>>,
           NEW e, e = GetHeaderEffect(h)
    PROVE  /\ e.keep_alive <=> IF Shows(h, <<"Connection">>, {"keep-alive", "close"})
                               THEN h.value = "keep-alive" ELSE g.keep_alive
           /\ e.header_err_flag <=> g.header_err_flag \/ ~h.colon
           /\ e.cookie <=> g.cookie \/ (h.colon /\ h.name = <<"Cookie">>)
           /\ g.acceptable_text => e.acceptable_text
           /\ e.acceptable_charset <=> IF h.colon /\ h.name = <<"Accept", "Charset">>
                                       THEN h.value = "ISO-8859-1" ELSE g.acceptable_charset
<1>0. PICK f : f = Field(GetFields, h.name)
  OBVIOUS
<1>1. /\ f = <<"Connection">> <=> h.name = <<"Connection">>
      /\ f = <<"Cookie">> <=> h.name = <<"Cookie">>
      /\ f = <<"Accept", "Charset">> <=> h.name = <<"Accept", "Charset">>
      /\ f # <<"Accept">>
  <2>1. h.name \in Seq(STRING)
    BY DEF Header
  <2>. QED  BY <1>0, <2>1, GetFieldsFound
<1>2. \A v : \A c \in {"keep_alive", "cookie", "header_err_flag", "acceptable_text", "acceptable_charset"} :
           /\ [g EXCEPT !.keep_alive = v][c] = IF c = "keep_alive" THEN v ELSE g[c]
           /\ [g EXCEPT !.content_length = v][c] = g[c]
           /\ [g EXCEPT !.cookie = v][c] = IF c = "cookie" THEN v ELSE g[c]
           /\ [g EXCEPT !.header_err_flag = v][c] = IF c = "header_err_flag" THEN v ELSE g[c]
           /\ [g EXCEPT !.acceptable_text = v][c] = IF c = "acceptable_text" THEN v ELSE g[c]
           /\ [g EXCEPT !.acceptable_charset = v][c] = IF c = "acceptable_charset" THEN v ELSE g[c]
  BY DEF Globals
<1>3. \A w : Shows(h, <<"Connection">>, {"keep-alive", "close"}) <=>
         h.colon /\ f = <<"Connection">> /\ h.value \in {"keep-alive", "close"}
  BY <1>1, Zenon DEF Shows
<1>. QED
  <2> USE GetFieldsDiffer
  <2>1. CASE ~h.colon /\ e = [g EXCEPT !.header_err_flag = TRUE]
    <3>1. e.keep_alive = g.keep_alive /\ e.cookie = g.cookie /\ e.header_err_flag = TRUE
          /\ e.acceptable_text = g.acceptable_text /\ e.acceptable_charset = g.acceptable_charset
      BY <1>2, <2>1
    <3>. QED  BY <1>3, <2>1, <3>1, Zenon
  <2>2. CASE /\ h.colon /\ f = <<"Connection">> /\ h.value \in {"keep-alive", "close"}
             /\ e = [g EXCEPT !.keep_alive = (h.value = "keep-alive")]
    <3>1. e.keep_alive = (h.value = "keep-alive") /\ e.cookie = g.cookie /\ e.header_err_flag = g.header_err_flag
          /\ e.acceptable_text = g.acceptable_text /\ e.acceptable_charset = g.acceptable_charset
      BY <1>2, <2>2
    <3>. QED  BY <1>1, <1>3, <2>2, <3>1, Zenon
  <2>3. CASE h.colon /\ f = <<"Cookie">> /\ e = [g EXCEPT !.cookie = TRUE]
    <3>1. e.keep_alive = g.keep_alive /\ e.cookie = TRUE /\ e.header_err_flag = g.header_err_flag
          /\ e.acceptable_text = g.acceptable_text /\ e.acceptable_charset = g.acceptable_charset
      BY <1>2, <2>3
    <3>. QED  BY <1>1, <1>3, <2>3, <3>1, Zenon
  <2>4. CASE /\ h.colon /\ f = <<"Accept", "Language">>
             /\ e \in {[g EXCEPT !.acceptable_text = TRUE], g}
    <3>1. e.keep_alive = g.keep_alive /\ e.cookie = g.cookie /\ e.header_err_flag = g.header_err_flag
          /\ e.acceptable_charset = g.acceptable_charset
          /\ (e.acceptable_text = TRUE \/ e.acceptable_text = g.acceptable_text)
      <4>1. CASE e = g
        BY <4>1
      <4>2. CASE e = [g EXCEPT !.acceptable_text = TRUE]
        BY <1>2, <4>2
      <4>. QED  BY <2>4, <4>1, <4>2
    <3>2. g.acceptable_text => e.acceptable_text
      BY <3>1
    <3>3. /\ h.colon /\ f # <<"Connection">> /\ f # <<"Cookie">> /\ f # <<"Accept", "Charset">>
          /\ h.name # <<"Cookie">> /\ h.name # <<"Accept", "Charset">>
          /\ ~Shows(h, <<"Connection">>, {"keep-alive", "close"})
      BY <1>1, <1>3, <2>4, Zenon
    <3>. QED  BY <3>1, <3>2, <3>3, Zenon
  <2>5. CASE /\ h.colon /\ f = <<"Accept", "Charset">>
             /\ e = [g EXCEPT !.acceptable_charset = (h.value = "ISO-8859-1")]
    <3>1. e.keep_alive = g.keep_alive /\ e.cookie = g.cookie /\ e.header_err_flag = g.header_err_flag
          /\ e.acceptable_text = g.acceptable_text /\ e.acceptable_charset = (h.value = "ISO-8859-1")
      BY <1>2, <2>5
    <3>. QED  BY <1>1, <1>3, <2>5, <3>1, Zenon
  <2>6. CASE /\ h.colon /\ f = <<"Content", "Length">>
             /\ e = [g EXCEPT !.content_length = Len(sent[cur].body)]
    <3>1. e.keep_alive = g.keep_alive /\ e.cookie = g.cookie /\ e.header_err_flag = g.header_err_flag
          /\ e.acceptable_text = g.acceptable_text /\ e.acceptable_charset = g.acceptable_charset
      BY <1>2, <2>6
    <3>. QED  BY <1>1, <1>3, <2>6, <3>1, Zenon
  <2>7. CASE /\ h.colon /\ ~(f = <<"Connection">> /\ h.value \in {"keep-alive", "close"})
             /\ f # <<"Cookie">> /\ f # <<"Accept", "Charset">> /\ e = g
    BY <1>1, <1>3, <2>7, Zenon
  <2>. QED  BY <1>0, <1>1, <2>1, <2>2, <2>3, <2>4, <2>5, <2>6, <2>7, GetHeaderArms

(***************************************************************************)
(* Where the child stands in the stream while it serves a request.         *)
(***************************************************************************)
\* The lengths of the current message.
NHeaders == Len(sent[cur].headers)
NBody == Len(sent[cur].body)

\* The lines of the current message by their number.
LEMMA LineAt ==
    ASSUME TypeOK, HasLine
    PROVE  /\ NHeaders \in Nat /\ NBody \in Nat /\ off \in 0 .. NHeaders + 1 + NBody
           /\ cur \in 1 .. Len(sent) /\ sent[cur] \in Messages /\ sent[cur] \in Message
           /\ NextLine = "request" <=> off = 0
           /\ NextLine = "header" <=> off \in 1 .. NHeaders
           /\ off = NHeaders + 1 => NextLine = "blank"
           /\ off > NHeaders + 1 => /\ off - NHeaders - 1 \in 1 .. NBody
                             /\ NextLine = sent[cur].body[off - NHeaders - 1]
                             /\ NextLine \in BodyLines
           /\ off + 1 = NumLines(sent[cur]) <=> off = NHeaders + 1 + NBody
<1> DEFINE m == sent[cur]
<1>1. cur \in 1 .. Len(sent) /\ m \in Messages /\ m \in Message
  BY SessionAssumption DEF TypeOK, CursorInStream, HasLine
<1>2. NHeaders \in Nat /\ NBody \in Nat /\ NumLines(m) = NHeaders + 2 + NBody
  BY <1>1, MessageLines DEF NHeaders, NBody
<1>3. off \in Nat /\ off < NHeaders + 2 + NBody
  <2>1. off \in Nat /\ off < NumLines(m)
    BY Zenon DEF TypeOK, CursorInStream, HasLine
  <2>. QED  BY <1>2, <2>1, Zenon
<1>4. m.body \in Seq(BodyLines)
  BY <1>1 DEF Message
<1>5. NextLine = IF off = 0 THEN "request" ELSE IF off <= NHeaders THEN "header"
                 ELSE IF off = NHeaders + 1 THEN "blank" ELSE m.body[off - NHeaders - 1]
  BY DEF NextLine, LineKind, NHeaders
<1>6. off > NHeaders + 1 => off - NHeaders - 1 \in 1 .. NBody /\ m.body[off - NHeaders - 1] \in BodyLines
  <2>1. off > NHeaders + 1 => off - NHeaders - 1 \in 1 .. NBody
    BY <1>2, <1>3
  <2>. QED  BY <1>4, <2>1 DEF NBody
<1>7. "request" \notin BodyLines /\ "header" \notin BodyLines
  BY DEF BodyLines
<1> HIDE DEF m
<1>8. /\ off \in 0 .. NHeaders + 1 + NBody
      /\ off > NHeaders + 1 => off # 0 /\ ~(off <= NHeaders) /\ off # NHeaders + 1
      /\ off + 1 = NumLines(m) <=> off = NHeaders + 1 + NBody
      /\ off # 0 /\ off <= NHeaders <=> off \in 1 .. NHeaders
      /\ off = NHeaders + 1 => off # 0 /\ ~(off <= NHeaders)
      /\ off = 0 \/ off \in 1 .. NHeaders \/ off = NHeaders + 1 \/ off > NHeaders + 1
  BY <1>2, <1>3
<1>9. NextLine = "request" <=> off = 0
  BY <1>5, <1>6, <1>7, <1>8
<1>10. NextLine = "header" <=> off \in 1 .. NHeaders
  BY <1>5, <1>6, <1>7, <1>8
<1>11. off = NHeaders + 1 => NextLine = "blank"
  BY <1>5, <1>8, Zenon
<1>12. off > NHeaders + 1 => NextLine = m.body[off - NHeaders - 1]
  BY <1>5, <1>8, Zenon
<1>. QED  BY <1>1, <1>2, <1>6, <1>8, <1>9, <1>10, <1>11, <1>12, Zenon DEF m

InGet     == pc \in {"get_headers", "get_dispatch", "get_body", "get_reply"}
InPost    == pc \in {"post_headers", "post_auth", "part_headers", "open_file", "write_file"}
InHeaders == pc \in {"get_headers", "post_headers"}

\* A handler serves the message whose method it is for; while it reads the
\* headers, the cursor is at one of them or at the blank line after them.
Serving ==
    /\ InGet  => req \in 1 .. Len(sent) /\ sent[req].method = "GET"
    /\ InPost => req \in 1 .. Len(sent) /\ sent[req].method = "POST"
    /\ InHeaders => cur = req /\ off \in 1 .. Len(sent[req].headers) + 1
    /\ \A i \in DOMAIN out : out[i].msg \in 1 .. Len(sent)

\* One more response.
LEMMA OneMoreResponse ==
    ASSUME NEW o \in Seq(Response), NEW r
    PROVE  /\ DOMAIN Append(o, r) = 1 .. Len(o) + 1
           /\ Len(Append(o, r)) = Len(o) + 1 /\ Len(o) \in Nat
           /\ DOMAIN o = 1 .. Len(o)
           /\ \A i \in 1 .. Len(o) : Append(o, r)[i] = o[i]
           /\ Append(o, r)[Len(o) + 1] = r
OBVIOUS

LEMMA ServingKept ==
    ASSUME TypeOK, Serving, sent' = sent, req' = req,
           InHeaders' => pc' = pc /\ cur' = cur /\ off' = off,
           InGet' => InGet, InPost' => InPost,
           \/ out' = out
           \/ /\ \E s : out' = Append(out, [msg |-> req, status |-> s])
              /\ InGet \/ InPost
    PROVE  Serving'
<1>1. InHeaders' => InHeaders
  BY DEF InHeaders
<1>2. \A i \in DOMAIN out' : out'[i].msg \in 1 .. Len(sent)
  <2>1. CASE out' = out
    BY <2>1 DEF Serving
  <2>2. ASSUME NEW s, out' = Append(out, [msg |-> req, status |-> s]), InGet \/ InPost
        PROVE  \A i \in DOMAIN out' : out'[i].msg \in 1 .. Len(sent)
    <3>1. out \in Seq(Response) /\ req \in 1 .. Len(sent)
      BY <2>2 DEF TypeOK, Serving
    <3>2. [msg |-> req, status |-> s].msg = req
      OBVIOUS
    <3>. QED  BY <2>2, <3>1, <3>2, OneMoreResponse DEF Serving
  <2>. QED  BY <2>1, <2>2
<1>3. (InGet => req \in 1 .. Len(sent) /\ sent[req].method = "GET")'
  BY DEF Serving
<1>4. (InPost => req \in 1 .. Len(sent) /\ sent[req].method = "POST")'
  BY DEF Serving
<1>5. (InHeaders => cur = req /\ off \in 1 .. Len(sent[req].headers) + 1)'
  BY <1>1 DEF Serving
<1>. QED  BY <1>2, <1>3, <1>4, <1>5 DEF Serving

\* The first line of a request, and a header line, leave the cursor in the
\* headers.
LEMMA RequestLine ==
    ASSUME TypeOK, HasLine, ReadLine, off = 0
    PROVE  cur' = cur /\ off' = 1 /\ off' \in 1 .. Len(sent[cur].headers) + 1
<1>1. NHeaders \in Nat /\ NBody \in Nat /\ off + 1 # NumLines(sent[cur])
  BY LineAt
<1>. QED  BY <1>1 DEF ReadLine, NHeaders

LEMMA HeaderLineRead ==
    ASSUME TypeOK, HasLine, ReadLine, NextLine = "header"
    PROVE  /\ off \in 1 .. Len(sent[cur].headers)
           /\ cur' = cur /\ off' = off + 1 /\ off' \in 1 .. Len(sent[cur].headers) + 1
<1>1. NHeaders \in Nat /\ NBody \in Nat /\ off \in 1 .. NHeaders /\ off + 1 # NumLines(sent[cur])
  BY LineAt
<1>2. cur' = cur /\ off' = off + 1 /\ off' \in 1 .. NHeaders + 1
  BY <1>1 DEF ReadLine
<1>. QED  BY <1>1, <1>2, Zenon DEF NHeaders

LEMMA RequestStepServing ==
    ASSUME TypeOK, Serving, RequestStep
    PROVE  Serving'
<1>1. ASSUME HasLine PROVE cur \in 1 .. Len(sent)
  BY <1>1, LineAt
<1>2. ASSUME NEW method, ReadMethod(method)
      PROVE  /\ req' = cur /\ cur' = cur /\ cur \in 1 .. Len(sent)
             /\ sent[cur].method = method
             /\ off' \in 1 .. Len(sent[cur].headers) + 1
  BY <1>1, <1>2, LineAt, RequestLine DEF ReadMethod
<1>3. ASSUME NEW s, HasLine, out' = Append(out, [msg |-> cur, status |-> s]), sent' = sent,
             pc' \in {"request", "exited"}
      PROVE  Serving'
  <2>1. out \in Seq(Response) /\ [msg |-> cur, status |-> s].msg = cur
    BY DEF TypeOK
  <2>2. \A i \in DOMAIN out' : out'[i].msg \in 1 .. Len(sent)
    BY <1>1, <1>3, <2>1, OneMoreResponse DEF Serving
  <2>. QED  BY <1>3, <2>2 DEF Serving, InGet, InPost, InHeaders
<1>4. CASE StartGet
  BY <1>2, <1>4 DEF StartGet, Serving, InGet, InPost, InHeaders, client
<1>5. CASE StartPost
  BY <1>2, <1>5 DEF StartPost, Serving, InGet, InPost, InHeaders, client
<1>6. CASE PostUnknownUrl
  BY <1>3, <1>6 DEF PostUnknownUrl, ReadMethod, client
<1>7. CASE MethodNotAllowed
  BY <1>3, <1>7 DEF MethodNotAllowed, ReadMethod, client
<1>8. CASE MisreadAsMethod
  BY <1>3, <1>8 DEF MisreadAsMethod, client
<1>9. CASE MisreadAndCrash \/ ReadRequestEof
  BY <1>9, ServingKept
     DEF MisreadAndCrash, Crash, ReadRequestEof, client, cursor, InGet, InPost, InHeaders
<1>. QED  BY <1>4, <1>5, <1>6, <1>7, <1>8, <1>9 DEF RequestStep

LEMMA GetStepServing ==
    ASSUME TypeOK, Serving, GetStep \/ StopAtMarker
    PROVE  Serving'
<1>1. CASE GetHeader
  <2>1. cur' = cur /\ off' \in 1 .. Len(sent[cur].headers) + 1
    BY <1>1, HeaderLineRead DEF GetHeader
  <2>. QED  BY <1>1, <2>1 DEF GetHeader, Serving, InGet, InPost, InHeaders, client
<1>2. CASE GetHeaderCrash \/ GetServeEmpty \/ GetHeadersEof
  BY <1>2, ServingKept
     DEF GetHeaderCrash, GetServeEmpty, GetHeadersEof, Crash, client, cursor,
         InGet, InPost, InHeaders
<1>3. CASE GetHeadersEnd \/ GetContent \/ ReadContent \/ ContentDone \/ StopAtMarker
  BY <1>3, ServingKept
     DEF GetHeadersEnd, GetContent, ReadContent, ContentDone, StopAtMarker, client, cursor,
         InGet, InPost, InHeaders
<1>4. CASE GetUnknownUrl \/ GetBadRequest \/ GetRefuse \/ GetServe
  <2>1. InGet /\ \E s, ka : Reply(s, ka)
    BY <1>4 DEF GetUnknownUrl, GetBadRequest, GetRefuse, GetServe, InGet
  <2>. QED  BY <2>1, ServingKept DEF Reply, client, cursor, InGet, InPost, InHeaders
<1>. QED  BY <1>1, <1>2, <1>3, <1>4 DEF GetStep

LEMMA PostStepServing ==
    ASSUME TypeOK, Serving, PostStep
    PROVE  Serving'
<1>1. CASE PostHeader
  <2>1. cur' = cur /\ off' \in 1 .. Len(sent[cur].headers) + 1
    BY <1>1, HeaderLineRead DEF PostHeader
  <2>. QED  BY <1>1, <2>1 DEF PostHeader, Serving, InGet, InPost, InHeaders, client
<1>2. CASE PostHeadersEnd \/ PostHeadersEof \/ PostUpload \/ PartHeader \/ PartHeadersEnd
  BY <1>2, ServingKept
     DEF PostHeadersEnd, PostHeadersEof, PostUpload, Authorized, PartHeader, PartHeadersEnd,
         client, cursor, InGet, InPost, InHeaders
<1>3. CASE PostHeaderCrash \/ PostGarbledCredentials \/ PostNoBoundary \/ OpenFileUnnamed
  BY <1>3, ServingKept
     DEF PostHeaderCrash, PostGarbledCredentials, PostNoBoundary, OpenFileUnnamed, Crash,
         client, cursor, InGet, InPost, InHeaders
<1>4. CASE OpenFile \/ OpenFileFails \/ WriteLine \/ WriteEof
  BY <1>4, ServingKept
     DEF OpenFile, OpenFileFails, WriteLine, WriteEof, vars,
         client, cursor, InGet, InPost, InHeaders
<1>5. CASE PostUnauthorized \/ PostWrongPassword \/ PostEmpty \/ WriteDone
  <2>1. InPost /\ \E s, ka : Reply(s, ka)
    BY <1>5 DEF PostUnauthorized, PostWrongPassword, PostEmpty, Authorized, WriteDone, InPost
  <2>. QED  BY <2>1, ServingKept DEF Reply, client, cursor, InGet, InPost, InHeaders
<1>6. CASE WriteLastLine
  BY <1>6, ServingKept DEF WriteLastLine, client, cursor, InGet, InPost, InHeaders
<1>. QED  BY <1>1, <1>2, <1>3, <1>4, <1>5, <1>6 DEF PostStep

\* The messages that were sent stay as they are.
LEMMA ClientAppends ==
    ASSUME TypeOK, Client
    PROVE  /\ Len(sent) \in Nat /\ Len(sent') \in Nat /\ Len(sent') >= Len(sent)
           /\ \A i \in 1 .. Len(sent) : sent'[i] = sent[i]
           /\ UNCHANGED <<cursor, pc, req, g, hinfo, want, out>>
<1>1. sent \in Seq(Messages) /\ Len(sent) \in Nat
  BY DEF TypeOK
<1>2. sent' = sent \/ \E m \in Messages : sent' = Append(sent, m)
  BY DEF Client, Send, SendPartAndDisconnect, Disconnect
<1>3. UNCHANGED <<cursor, pc, req, g, hinfo, want, out>>
  BY DEF Client, Send, SendPartAndDisconnect, Disconnect
<1>. QED  BY <1>1, <1>2, <1>3, AppendMessage

LEMMA ClientServing ==
    ASSUME TypeOK, Serving, Client
    PROVE  Serving'
BY ClientAppends DEF Serving, InGet, InPost, InHeaders, cursor

LEMMA NextServing ==
    ASSUME TypeOK, Serving, [Next]_vars
    PROVE  Serving'
<1>1. CASE UNCHANGED vars
  BY <1>1, ServingKept DEF vars, client, cursor, InGet, InPost, InHeaders
<1>2. CASE BrokenPipe
  BY <1>2, ServingKept DEF BrokenPipe, Crash, client, cursor, InGet, InPost, InHeaders
<1>. QED  BY <1>1, <1>2, RequestStepServing, GetStepServing, PostStepServing, ClientServing
          DEF Next, Child

LEMMA InitServing == Init => Serving
BY DEF Init, Serving, InGet, InPost, InHeaders

(***************************************************************************)
(* keep_alive, and the end of the child.                                   *)
(***************************************************************************)
\* A header without a name counts as the first one of the if-chain, whose name
\* begins with nothing.
NoEmptyName == \A m \in Messages : \A i \in DOMAIN m.headers : m.headers[i].name # <<>>

\* How many headers of the request the handler has read, and whether the last
\* Connection header among them asks for the end.
HeadersRead == IF InHeaders THEN off - 1 ELSE Len(sent[req].headers)
CloseSeen   == LastOf(sent[req], HeadersRead, <<"Connection">>, {"keep-alive", "close"},
                      {"close"})

Asked ==
    /\ InGet => (g.keep_alive <=> ~CloseSeen)
    /\ pc = "request" \/ InPost => g.keep_alive

\* Once the blank line is next, or has been read, all headers have.
LEMMA AllHeadersRead ==
    ASSUME TypeOK, Serving, InHeaders, HasLine, NextLine = "blank"
    PROVE  /\ HeadersRead = Len(sent[req].headers)
           /\ off = NHeaders + 1 /\ cur = req
<1>1. NHeaders \in Nat /\ off \in 1 .. NHeaders + 1 /\ off \notin 1 .. NHeaders
  BY LineAt DEF Serving, NHeaders
<1>2. off = NHeaders + 1 /\ off - 1 = NHeaders
  BY <1>1
<1>. QED  BY <1>2 DEF HeadersRead, NHeaders, Serving

\* A header line read is the next of the message.
LEMMA HeaderRead ==
    ASSUME TypeOK, Serving, InHeaders, HasLine, NextLine = "header", ReadLine,
           sent' = sent, pc' = pc, req' = req
    PROVE  /\ HeadersRead = off - 1 /\ HeadersRead' = off /\ off \in Nat \ {0}
           /\ NextHeader = sent[req].headers[off] /\ NextHeader \in Header
           /\ cur = req /\ sent[req] \in Messages /\ sent[req] \in Message
           /\ off \in DOMAIN sent[req].headers
<1>1. off \in Nat \ {0} /\ off' = off + 1 /\ NextHeader \in Header /\ off' - 1 = off
      /\ sent[cur] \in Messages /\ sent[cur] \in Message /\ off \in 1 .. Len(sent[cur].headers)
  BY HeaderLine, HeaderLineRead, LineAt
<1>2. cur = req /\ InHeaders'
  BY DEF Serving, InHeaders
<1>3. DOMAIN sent[cur].headers = 1 .. Len(sent[cur].headers)
  BY <1>1 DEF Message
<1>. QED  BY <1>1, <1>2, <1>3 DEF HeadersRead, NextHeader

LEMMA AskedKept ==
    ASSUME Asked, sent' = sent, req' = req, g'.keep_alive = g.keep_alive,
           InGet' => InGet /\ HeadersRead' = HeadersRead,
           pc' = "request" \/ InPost' => g'.keep_alive
    PROVE  Asked'
<1>1. InGet' => CloseSeen' = CloseSeen
  BY DEF CloseSeen
<1>. QED  BY <1>1 DEF Asked

LEMMA ReplyAsked ==
    ASSUME TypeOK, NEW s, NEW ka \in BOOLEAN, Reply(s, ka)
    PROVE  Asked'
<1>1. g'.keep_alive = ka
  BY DEF TypeOK, Globals, Reply
<1>. QED  BY <1>1 DEF Reply, Asked, InGet, InPost

LEMMA RequestStepAsked ==
    ASSUME TypeOK, Serving, Asked, RequestStep
    PROVE  Asked'
<1>1. pc = "request" /\ g.keep_alive /\ FreshGlobals.keep_alive = g.keep_alive
  BY DEF RequestStep, StartGet, StartPost, PostUnknownUrl, MethodNotAllowed, ReadMethod,
         MisreadAsMethod, MisreadAndCrash, ReadRequestEof, Asked, FreshGlobals
<1>2. CASE StartGet
  <2>1. off' = 1 /\ HeadersRead' = 0
    BY <1>2, LineAt, RequestLine DEF StartGet, ReadMethod, HeadersRead, InHeaders
  <2>2. ~CloseSeen'
    BY <2>1, NoHeaders DEF CloseSeen
  <2>. QED  BY <1>1, <1>2, <2>2 DEF StartGet, Asked, InPost
<1>3. CASE StartPost
  BY <1>1, <1>3 DEF StartPost, Asked, InGet
<1>4. CASE PostUnknownUrl \/ MisreadAndCrash
  BY <1>4 DEF PostUnknownUrl, MisreadAndCrash, Crash, Asked, InGet, InPost
<1>5. CASE MethodNotAllowed \/ MisreadAsMethod \/ ReadRequestEof
  BY <1>1, <1>5 DEF MethodNotAllowed, MisreadAsMethod, ReadRequestEof, Asked, InGet, InPost
<1>. QED  BY <1>2, <1>3, <1>4, <1>5 DEF RequestStep

LEMMA GetStepAsked ==
    ASSUME NoEmptyName, TypeOK, Serving, Asked, GetStep \/ StopAtMarker
    PROVE  Asked'
<1>1. g \in Globals /\ g.keep_alive \in BOOLEAN
  BY DEF TypeOK, Globals
<1>2. CASE GetHeader
  <2> DEFINE n == off
             h == sent[req].headers[n]
             m == sent[req]
             Conn == {"keep-alive", "close"}
  <2>1. /\ HeadersRead = n - 1 /\ HeadersRead' = n /\ n \in Nat \ {0}
        /\ NextHeader = h /\ h \in Header /\ h.name # <<>>
    <3>1. InHeaders /\ sent' = sent
      BY <1>2 DEF GetHeader, InHeaders, client
    <3>. QED  BY <1>2, <3>1, HeaderRead DEF GetHeader, NoEmptyName
  <2>2. g'.keep_alive <=> IF Shows(h, <<"Connection">>, Conn)
                          THEN h.value = "keep-alive" ELSE g.keep_alive
    BY <1>1, <1>2, <2>1, GetHeaderMeaning DEF GetHeader
  <2>3. g.keep_alive <=> ~LastOf(m, n - 1, <<"Connection">>, Conn, {"close"})
    BY <1>2, <2>1 DEF GetHeader, Asked, InGet, CloseSeen
  <2>4. LastOf(m, n, <<"Connection">>, Conn, {"close"}) <=>
           \/ Shows(h, <<"Connection">>, Conn) /\ h.value \in {"close"}
           \/ ~Shows(h, <<"Connection">>, Conn)
              /\ LastOf(m, n - 1, <<"Connection">>, Conn, {"close"})
    <3>1. {"close"} \in SUBSET Conn
      OBVIOUS
    <3> HIDE DEF Conn
    <3>. QED  BY <2>1, <3>1, OneMoreHeader
  <2>5. Shows(h, <<"Connection">>, Conn) => h.value \in {"keep-alive", "close"}
    BY DEF Shows
  <2>6. CloseSeen' <=> LastOf(m, n, <<"Connection">>, Conn, {"close"})
    BY <1>2, <2>1 DEF GetHeader, CloseSeen, client
  <2>7. g'.keep_alive <=> ~CloseSeen'
    <3> HIDE DEF m, h, n, Conn
    <3>1. "keep-alive" # "close"
      OBVIOUS
    <3>. QED  BY <2>2, <2>3, <2>4, <2>5, <2>6, <3>1
  <2>. QED  BY <1>2, <2>7 DEF GetHeader, Asked, InPost, InGet
<1>3. CASE GetHeaderCrash \/ GetServeEmpty
  BY <1>3 DEF GetHeaderCrash, GetServeEmpty, Crash, Asked, InGet, InPost
<1>4. CASE GetHeadersEof
  <2>1. g'.keep_alive = g.keep_alive
    BY <1>1, <1>4 DEF GetHeadersEof, Globals
  <2>2. HeadersRead' = HeadersRead
    BY <1>4 DEF GetHeadersEof, client, cursor, HeadersRead, InHeaders
  <2>. QED  BY <1>4, <2>1, <2>2, AskedKept
            DEF GetHeadersEof, client, cursor, InGet, InPost
<1>5. CASE GetHeadersEnd
  <2>1. HeadersRead = Len(sent[req].headers)
    BY <1>5, AllHeadersRead DEF GetHeadersEnd, EndsHeaders, InHeaders
  <2>2. HeadersRead' = HeadersRead
    BY <1>5, <2>1 DEF GetHeadersEnd, client, HeadersRead, InHeaders
  <2>. QED  BY <1>5, <2>2, AskedKept DEF GetHeadersEnd, client, InGet, InPost
<1>6. CASE GetContent \/ ReadContent \/ ContentDone \/ StopAtMarker
  <2>1. HeadersRead' = HeadersRead
    BY <1>6 DEF GetContent, ReadContent, ContentDone, StopAtMarker, client,
                HeadersRead, InHeaders
  <2>. QED  BY <1>6, <2>1, AskedKept
            DEF GetContent, ReadContent, ContentDone, StopAtMarker, client, InGet, InPost
<1>7. CASE GetUnknownUrl \/ GetBadRequest \/ GetRefuse \/ GetServe
  <2>1. \E s : \E ka \in BOOLEAN : Reply(s, ka)
    BY <1>1, <1>7 DEF GetUnknownUrl, GetBadRequest, GetRefuse, GetServe
  <2>. QED  BY <2>1, ReplyAsked
<1>. QED  BY <1>2, <1>3, <1>4, <1>5, <1>6, <1>7 DEF GetStep

LEMMA PostStepAsked ==
    ASSUME TypeOK, Asked, PostStep
    PROVE  Asked'
<1>1. /\ g \in Globals /\ g.keep_alive \in BOOLEAN
      /\ [g EXCEPT !.header_err_flag = TRUE].keep_alive = g.keep_alive
  BY DEF TypeOK, Globals
<1>2. InPost /\ g.keep_alive
  BY DEF PostStep, PostHeader, PostHeaderCrash, PostHeadersEnd, PostHeadersEof, PostUnauthorized,
         PostWrongPassword, PostGarbledCredentials, PostEmpty, PostNoBoundary, PostUpload,
         Authorized, PartHeader, PartHeadersEnd, OpenFile, OpenFileFails, OpenFileUnnamed,
         WriteLine, WriteLastLine, WriteDone, WriteEof, Asked, InPost
<1>3. CASE PostUnauthorized \/ PostWrongPassword \/ PostEmpty \/ WriteDone
  <2>1. \E s : \E ka \in BOOLEAN : Reply(s, ka)
    BY <1>1, <1>3 DEF PostUnauthorized, PostWrongPassword, PostEmpty, WriteDone
  <2>. QED  BY <2>1, ReplyAsked
<1>4. ASSUME g'.keep_alive = g.keep_alive, ~InGet' PROVE Asked'
  BY <1>2, <1>4 DEF Asked
<1>5. CASE PostHeaderCrash \/ PostGarbledCredentials \/ PostNoBoundary \/ OpenFileUnnamed
  BY <1>4, <1>5 DEF PostHeaderCrash, PostGarbledCredentials, PostNoBoundary, OpenFileUnnamed, Crash, InGet
<1>6. CASE PostHeader \/ PartHeader \/ PostHeadersEof
  BY <1>1, <1>4, <1>6, PostHeaderGlobalsType DEF PostHeader, PartHeader, PostHeadersEof, InGet
<1>7. CASE \/ PostHeadersEnd \/ PostUpload \/ PartHeadersEnd \/ OpenFile \/ OpenFileFails
           \/ WriteLine \/ WriteLastLine
  BY <1>4, <1>7 DEF PostHeadersEnd, PostUpload, Authorized, PartHeadersEnd, OpenFile,
                    OpenFileFails, WriteLine, WriteLastLine, InGet
<1>8. CASE WriteEof
  BY <1>4, <1>8 DEF WriteEof, vars, InGet
<1>. QED  BY <1>3, <1>5, <1>6, <1>7, <1>8 DEF PostStep

\* The handlers know the headers of their message, whatever the client sends.
LEMMA ClientReading ==
    ASSUME TypeOK, Serving, Client
    PROVE  /\ InGet \/ InPost => sent'[req] = sent[req] /\ HeadersRead' = HeadersRead
           /\ InGet' = InGet /\ InPost' = InPost
<1>1. UNCHANGED <<cur, off, pc, req>> /\ \A i \in 1 .. Len(sent) : sent'[i] = sent[i]
  BY ClientAppends DEF cursor
<1>2. InGet \/ InPost => sent'[req] = sent[req]
  BY <1>1 DEF Serving
<1>3. InHeaders' = InHeaders /\ InGet' = InGet /\ InPost' = InPost
  BY <1>1 DEF InHeaders, InGet, InPost
<1>. QED  BY <1>1, <1>2, <1>3 DEF HeadersRead

LEMMA ClientAsked ==
    ASSUME TypeOK, Serving, Asked, Client
    PROVE  Asked'
<1>1. UNCHANGED <<pc, req, g>>
  BY ClientAppends
<1>2. InGet' = InGet /\ InPost' = InPost
  BY ClientReading
<1>3. InGet => CloseSeen' = CloseSeen
  BY <1>1, ClientReading DEF CloseSeen
<1>. QED  BY <1>1, <1>2, <1>3 DEF Asked

LEMMA NextAsked ==
    ASSUME NoEmptyName, TypeOK, Serving, Asked, [Next]_vars
    PROVE  Asked'
<1>1. CASE UNCHANGED vars
  BY <1>1 DEF vars, client, cursor, Asked, InGet, InPost, CloseSeen, HeadersRead, InHeaders
<1>2. CASE BrokenPipe
  BY <1>2 DEF BrokenPipe, Crash, Asked, InGet, InPost
<1>. QED  BY <1>1, <1>2, RequestStepAsked, GetStepAsked, PostStepAsked, ClientAsked
          DEF Next, Child

LEMMA InitAsked == Init => Asked
BY DEF Init, Asked, InGet, InPost

LEMMA ExitKept ==
    ASSUME ExitIffClosing, pc # "exited", pc' # "exited", sent' = sent, out' = out
    PROVE  ExitIffClosing'
BY DEF ExitIffClosing, MustClose, AsksClose, LastIn

\* A response ends the child if it must, and only then.
LEMMA ExitReply ==
    ASSUME TypeOK, ExitIffClosing, pc # "exited", sent' = sent,
           NEW r, out' = Append(out, r), MustClose(r) <=> pc' = "exited"
    PROVE  ExitIffClosing'
<1>1. out \in Seq(Response)
  BY DEF TypeOK
<1>2. \A x : MustClose(x)' <=> MustClose(x)
  BY DEF MustClose, Closes, AsksClose, LastIn
<1>3. \A i \in 1 .. Len(out) : ~MustClose(out[i]) /\ out'[i] = out[i]
  BY <1>1, OneMoreResponse DEF ExitIffClosing
<1>4. /\ DOMAIN out' = 1 .. Len(out) + 1 /\ Len(out') = Len(out) + 1 /\ Len(out) \in Nat
      /\ out'[Len(out) + 1] = r /\ out' # <<>>
  BY <1>1, OneMoreResponse
<1>5. \A i \in DOMAIN out' : i \in 1 .. Len(out) \/ i = Len(out')
  BY <1>4
<1>6. ASSUME NEW i \in DOMAIN out', MustClose(out'[i])
      PROVE  i = Len(out') /\ pc' = "exited"
  BY <1>3, <1>4, <1>5, <1>6
<1>7. pc' = "exited" => out' # <<>> /\ MustClose(out'[Len(out')])
  BY <1>4
<1>8. (\A i \in DOMAIN out : MustClose(out[i]) => i = Len(out) /\ pc = "exited")'
  BY <1>2, <1>6
<1>9. (pc = "exited" => out # <<>> /\ MustClose(out[Len(out)]))'
  BY <1>2, <1>7
<1>. QED  BY <1>8, <1>9 DEF ExitIffClosing

\* A response to a GET whose headers have been read.
LEMMA GetReplyExit ==
    ASSUME TypeOK, Serving, Asked, ExitIffClosing, InGet, ~InHeaders, NEW s,
           s \notin {"400", "401", "401bad", "404url", "501method"}, Reply(s, g.keep_alive)
    PROVE  ExitIffClosing'
<1> DEFINE r == [msg |-> req, status |-> s]
<1>1. req \in 1 .. Len(sent) /\ sent[req].method = "GET"
  BY DEF Serving
<1>2. sent[req] \in Message
  BY <1>1, SessionAssumption DEF TypeOK
<1>3. CloseSeen <=> AsksClose(sent[req])
  BY <1>2, AllHeaders DEF CloseSeen, HeadersRead, AsksClose
<1>4. r.msg = req /\ r.status = s
  OBVIOUS
<1>5. MustClose(r) <=> AsksClose(sent[req])
  BY <1>1, <1>4 DEF MustClose, Closes
<1>6. pc' = "exited" <=> ~g.keep_alive
  BY DEF Reply
<1>7. g.keep_alive <=> ~CloseSeen
  BY DEF Asked
<1>8. out' = Append(out, r) /\ sent' = sent /\ pc # "exited"
  BY DEF Reply, client, InGet
<1> HIDE DEF r
<1>. QED  BY <1>3, <1>5, <1>6, <1>7, <1>8, ExitReply

\* A response that tells the client to go.
LEMMA CloseReplyExit ==
    ASSUME TypeOK, ExitIffClosing, pc # "exited", NEW s \in {"400", "401", "401bad", "404url"},
           Reply(s, FALSE)
    PROVE  ExitIffClosing'
<1>1. MustClose([msg |-> req, status |-> s])
  BY DEF MustClose, Closes
<1>. QED  BY <1>1, ExitReply DEF Reply, client

\* A response to a POST that was obeyed.
LEMMA Created ==
    ASSUME TypeOK, Serving, ExitIffClosing, InPost,
           out' = Append(out, [msg |-> req, status |-> "201"]), sent' = sent, pc' = "request"
    PROVE  ExitIffClosing'
<1> DEFINE r == [msg |-> req, status |-> "201"]
<1>1. sent[req].method = "POST" /\ pc # "exited"
  BY DEF Serving, InPost
<1>2. r.msg = req /\ r.status = "201"
  OBVIOUS
<1>3. ~MustClose(r)
  BY <1>1, <1>2 DEF MustClose, Closes
<1> HIDE DEF r
<1>4. out' = Append(out, r)
  BY DEF r
<1>. QED  BY <1>1, <1>3, <1>4, ExitReply

LEMMA RequestStepExit ==
    ASSUME TypeOK, Serving, Asked, ExitIffClosing, RequestStep
    PROVE  ExitIffClosing'
<1>1. pc = "request"
  BY DEF RequestStep, StartGet, StartPost, PostUnknownUrl, MethodNotAllowed, ReadMethod,
         MisreadAsMethod, MisreadAndCrash, ReadRequestEof
<1>2. CASE StartGet \/ StartPost \/ ReadRequestEof \/ MisreadAndCrash
  BY <1>1, <1>2, ExitKept
     DEF StartGet, StartPost, ReadRequestEof, MisreadAndCrash, Crash, client
<1>3. CASE PostUnknownUrl
  <2>1. MustClose([msg |-> cur, status |-> "404url"])
    BY DEF MustClose, Closes
  <2>. QED  BY <1>1, <1>3, <2>1, ExitReply DEF PostUnknownUrl, client
<1>4. CASE MethodNotAllowed \/ MisreadAsMethod
  <2>1. ~MustClose([msg |-> cur, status |-> "501method"])
    BY DEF MustClose, Closes
  <2>. QED  BY <1>1, <1>4, <2>1, ExitReply DEF MethodNotAllowed, MisreadAsMethod, client
<1>. QED  BY <1>2, <1>3, <1>4 DEF RequestStep

LEMMA GetStepExit ==
    ASSUME TypeOK, Serving, Asked, ExitIffClosing, GetStep \/ StopAtMarker
    PROVE  ExitIffClosing'
<1>1. CASE GetHeader \/ GetHeaderCrash \/ GetHeadersEnd \/ GetHeadersEof
  BY <1>1, ExitKept DEF GetHeader, GetHeaderCrash, GetHeadersEnd, GetHeadersEof, Crash, client
<1>2. CASE GetContent \/ ReadContent \/ ContentDone \/ StopAtMarker \/ GetServeEmpty
  BY <1>2, ExitKept
     DEF GetContent, ReadContent, ContentDone, StopAtMarker, GetServeEmpty, Crash, client
<1>3. CASE GetUnknownUrl \/ GetBadRequest
  BY <1>3, CloseReplyExit DEF GetUnknownUrl, GetBadRequest
<1>4. CASE GetRefuse \/ GetServe
  <2>1. InGet /\ ~InHeaders
    BY <1>4 DEF GetRefuse, GetServe, InGet, InHeaders
  <2>2. PICK s : Reply(s, g.keep_alive) /\ s \in {Refusal} \cup FileStatus(sent[req].url)
    BY <1>4 DEF GetRefuse, GetServe
  <2>3. s \notin {"400", "401", "401bad", "404url", "501method"}
    BY <2>2 DEF Refusal, FileStatus
  <2>. QED  BY <2>1, <2>2, <2>3, GetReplyExit
<1>. QED  BY <1>1, <1>2, <1>3, <1>4 DEF GetStep

LEMMA PostStepExit ==
    ASSUME TypeOK, Serving, Asked, ExitIffClosing, PostStep
    PROVE  ExitIffClosing'
<1>1. InPost /\ g.keep_alive
  BY DEF PostStep, PostHeader, PostHeaderCrash, PostHeadersEnd, PostHeadersEof, PostUnauthorized,
         PostWrongPassword, PostGarbledCredentials, PostEmpty, PostNoBoundary, PostUpload,
         Authorized, PartHeader, PartHeadersEnd, OpenFile, OpenFileFails, OpenFileUnnamed,
         WriteLine, WriteLastLine, WriteDone, WriteEof, Asked, InPost
<1>2. pc # "exited"
  BY <1>1 DEF InPost
<1>3. CASE PostHeader \/ PostHeaderCrash \/ PostHeadersEnd \/ PostHeadersEof \/ PostGarbledCredentials
           \/ PostNoBoundary \/ PostUpload
  BY <1>2, <1>3, ExitKept
     DEF PostHeader, PostHeaderCrash, PostHeadersEnd, PostHeadersEof, PostGarbledCredentials, PostNoBoundary,
         PostUpload, Crash, client
<1>4. CASE PartHeader \/ PartHeadersEnd \/ OpenFile \/ OpenFileUnnamed \/ WriteLine
  BY <1>2, <1>4, ExitKept
     DEF PartHeader, PartHeadersEnd, OpenFile, OpenFileUnnamed, WriteLine, Crash, client
<1>5. CASE OpenFileFails
  BY <1>1, <1>2, <1>5, ExitKept DEF OpenFileFails, client
<1>6. CASE WriteEof
  BY <1>2, <1>6, ExitKept DEF WriteEof, vars, client
<1>7. CASE PostUnauthorized \/ PostWrongPassword
  BY <1>2, <1>7, CloseReplyExit DEF PostUnauthorized, PostWrongPassword
<1>8. CASE PostEmpty \/ WriteDone \/ WriteLastLine
  <2>1. /\ out' = Append(out, [msg |-> req, status |-> "201"]) /\ sent' = sent
        /\ pc' = "request"
    BY <1>1, <1>8 DEF PostEmpty, WriteDone, WriteLastLine, Reply, client
  <2>. QED  BY <1>1, <2>1, Created
<1>. QED  BY <1>3, <1>4, <1>5, <1>6, <1>7, <1>8 DEF PostStep

LEMMA ClientExit ==
    ASSUME TypeOK, Serving, ExitIffClosing, Client
    PROVE  ExitIffClosing'
<1>1. UNCHANGED <<pc, out>> /\ \A i \in 1 .. Len(sent) : sent'[i] = sent[i]
  BY ClientAppends
<1>2. \A i \in DOMAIN out : out[i].msg \in 1 .. Len(sent)
  BY DEF Serving
<1>3. \A i \in DOMAIN out : MustClose(out[i])' <=> MustClose(out[i])
  <2>1. ASSUME NEW r, sent'[r.msg] = sent[r.msg] PROVE MustClose(r)' <=> MustClose(r)
    BY <2>1 DEF MustClose, Closes, AsksClose, LastIn
  <2>. QED  BY <1>1, <1>2, <2>1
<1>4. out # <<>> => Len(out) \in DOMAIN out
  <2>1. out \in Seq(Response)
    BY DEF TypeOK
  <2>. QED  BY <2>1
<1>. QED  BY <1>1, <1>3, <1>4 DEF ExitIffClosing

LEMMA NextExit ==
    ASSUME TypeOK, Serving, Asked, ExitIffClosing, [Next]_vars
    PROVE  ExitIffClosing'
<1>1. CASE UNCHANGED vars
  <2>1. sent' = sent /\ out' = out /\ pc' = pc
    BY <1>1 DEF vars, client
  <2>2. \A r : MustClose(r)' <=> MustClose(r)
    BY <2>1 DEF MustClose, Closes, AsksClose, LastIn
  <2>. QED  BY <2>1, <2>2 DEF ExitIffClosing
<1>2. CASE BrokenPipe
  BY <1>2, ExitKept DEF BrokenPipe, Crash, client
<1>. QED  BY <1>1, <1>2, RequestStepExit, GetStepExit, PostStepExit, ClientExit
          DEF Next, Child

\* http_server.c:663, :986: a response that closes by its status, or one to a GET
\* whose headers ask for the close, is the last, and the child ends then and for no
\* other reason, for any messages and any length of the connection.  A POST cannot
\* ask: its Connection header is not looked at.  (Headers have names.)
THEOREM ExitsOnClosingResponse ==
    ASSUME NoEmptyName
    PROVE  Spec => []ExitIffClosing
<1> DEFINE Inv == TypeOK /\ Serving /\ Asked /\ ExitIffClosing
<1>1. Inv /\ [Next]_vars => Inv'
  BY NextType, NextServing, NextAsked, NextExit
<1>2. Init => Inv
  <2>1. Init => ExitIffClosing
    BY DEF Init, ExitIffClosing
  <2>. QED  BY <2>1, InitType, InitServing, InitAsked
<1>3. Inv => ExitIffClosing
  OBVIOUS
<1>. QED  BY <1>1, <1>2, <1>3, PTL DEF Spec

(***************************************************************************)
(* Framing: messages whose extent the child determines as the client does. *)
(***************************************************************************)
\* The first blank line of the body is its k-th, after the headers of the part;
\* the last line of the body is a delimiter, and no line between is one.
UploadBody(b, k) ==
    /\ k \in 1 .. Len(b) - 1 /\ b[k] = "blank" /\ \A i \in 1 .. k - 1 : b[i] # "blank"
    /\ b[Len(b)] \in Delimiters
    /\ \A i \in k + 1 .. Len(b) - 1 : b[i] \notin Delimiters

GivesLength(h) == h.colon /\ h.name = <<"Content", "Length">> /\ ~LooksLikeDelimiter(h)

\* A GET without a body; a POST without a body, without good credentials (it
\* ends the connection), or with an upload of a known length.
Framable(m) ==
    \/ m.method = "GET" /\ m.body = <<>>
    \/ m.method = "POST" /\ m.body = <<>>
    \/ m.method = "POST" /\ \A i \in DOMAIN m.headers : m.headers[i].value # "good"
    \/ /\ m.method = "POST"
       /\ \E i \in DOMAIN m.headers : GivesLength(m.headers[i])
       /\ \E k \in Nat : UploadBody(m.body, k)

WellFramed == ~OpenMayFail /\ \A m \in Messages : Framable(m)

\* The lengths of the message of the request, and the number of the line of
\* its body that comes next.
ReqHeaders == Len(sent[req].headers)
ReqBody    == Len(sent[req].body)
LineHere       == off - ReqHeaders - 1

\* Among the headers read there is one with good credentials, or a length.
GoodSeen   == \E i \in 1 .. HeadersRead : sent[req].headers[i].value = "good"
LengthSeen == \E i \in 1 .. HeadersRead : GivesLength(sent[req].headers[i])

GetFramed ==
    /\ InGet => g.content_length <= 0
    /\ pc \in {"get_dispatch", "get_body", "get_reply"} => off = 0 /\ cur = req + 1
    /\ pc = "get_body" => want = 0

\* In an upload with its blank line at k: where the child is, and what is left.
InUploadAt(k) ==
    /\ UploadBody(sent[req].body, k)
    /\ pc = "part_headers" => LineHere \in 1 .. k /\ want = ReqBody
    /\ pc = "open_file"    => LineHere = k + 1 /\ want = ReqBody
    /\ pc = "write_file"   => /\ LineHere \in k + 1 .. ReqBody
                              /\ want = ReqBody - (LineHere - k - 1)

PostFramed ==
    /\ pc = "post_headers" =>
          /\ hinfo.icontent_length \in {0, ReqBody}
          /\ LengthSeen => hinfo.icontent_length = ReqBody
    /\ pc \in {"post_headers", "post_auth"} /\ hinfo.auth = "good" => GoodSeen
    /\ pc = "post_auth" /\ hinfo.auth = "good" =>
          \/ ReqBody = 0 /\ off = 0 /\ cur = req + 1 /\ hinfo.icontent_length = 0
          \/ ReqBody > 0 /\ LineHere = 1 /\ cur = req /\ hinfo.icontent_length = ReqBody
    /\ pc \in {"part_headers", "open_file", "write_file"} =>
          cur = req /\ \E k \in Nat : InUploadAt(k)

\* The inductive invariant: between requests as many responses have been sent
\* as messages consumed, and in a request one less.
Framed ==
    /\ pc = "request" => off = 0 /\ cur = Len(out) + 1
    /\ InGet \/ InPost => req = Len(out) + 1
    /\ OneResponsePerRequest
    /\ GetFramed
    /\ PostFramed

\* Reading the last line of a message, or one before it.
LEMMA LineRead ==
    ASSUME TypeOK, HasLine, ReadLine
    PROVE  IF off = NHeaders + 1 + NBody THEN cur' = cur + 1 /\ off' = 0
                              ELSE cur' = cur /\ off' = off + 1
BY LineAt DEF ReadLine

LEMMA RequestMessage ==
    ASSUME TypeOK, Serving, InGet \/ InPost
    PROVE  /\ req \in 1 .. Len(sent) /\ sent[req] \in Messages /\ sent[req] \in Message
           /\ ReqHeaders \in Nat /\ ReqBody \in Nat
           /\ sent[req].headers \in Seq(Header) /\ sent[req].body \in Seq(BodyLines)
           /\ DOMAIN sent[req].headers = 1 .. ReqHeaders
           /\ InGet => sent[req].method = "GET"
           /\ InPost => sent[req].method = "POST"
           /\ cur = req => NHeaders = ReqHeaders /\ NBody = ReqBody
<1>1. req \in 1 .. Len(sent) /\ sent[req] \in Messages
  BY DEF Serving, TypeOK
<1>2. sent[req] \in Message
  BY <1>1, SessionAssumption
<1>3. sent[req].headers \in Seq(Header) /\ sent[req].body \in Seq(BodyLines)
  BY <1>2 DEF Message
<1>. QED  BY <1>1, <1>2, <1>3 DEF Serving, ReqHeaders, ReqBody, NHeaders, NBody

LEMMA CrashFramed ==
    ASSUME Framed, Crash
    PROVE  Framed'
BY DEF Framed, Crash, OneResponsePerRequest, GetFramed, PostFramed, InGet, InPost

\* The end of a request.
LEMMA AnswerFramed ==
    ASSUME TypeOK, Framed, InGet \/ InPost,
           NEW s, out' = Append(out, [msg |-> req, status |-> s]),
           pc' \in {"request", "exited"},
           pc' = "request" => off' = 0 /\ cur' = req + 1
    PROVE  Framed'
<1>1. out \in Seq(Response) /\ req = Len(out) + 1 /\ [msg |-> req, status |-> s].msg = req
  BY DEF TypeOK, Framed
<1>2. Len(out') = Len(out) + 1 /\ Len(out) \in Nat
  BY <1>1, OneMoreResponse
<1>3. OneResponsePerRequest'
  BY <1>1, OneMoreResponse DEF Framed, OneResponsePerRequest
<1>. QED  BY <1>1, <1>2, <1>3 DEF Framed, GetFramed, PostFramed, InGet, InPost

LEMMA RequestStepFramed ==
    ASSUME WellFramed, TypeOK, Framed, RequestStep
    PROVE  Framed'
<1>1. pc = "request" /\ off = 0 /\ cur = Len(out) + 1 /\ OneResponsePerRequest
  BY DEF RequestStep, StartGet, StartPost, PostUnknownUrl, MethodNotAllowed, ReadMethod,
         MisreadAsMethod, MisreadAndCrash, ReadRequestEof, Framed
<1>2. HasLine => NextLine = "request" /\ sent[cur].method # "OTHER"
  <2>1. HasLine => NextLine = "request" /\ sent[cur] \in Messages
    BY <1>1, LineAt
  <2>. QED  BY <2>1 DEF WellFramed, Framable
<1>3. FreshGlobals.content_length <= 0
  BY DEF FreshGlobals
<1>4. CASE StartGet
  BY <1>1, <1>3, <1>4
     DEF StartGet, ReadMethod, Framed, OneResponsePerRequest, GetFramed, PostFramed,
         InGet, InPost, client
<1>5. CASE StartPost
  <2>1. off' = 1 /\ req' = cur /\ hinfo' = NoHeaderInfo
    BY <1>1, <1>5, RequestLine DEF StartPost, ReadMethod
  <2>2. pc' = "post_headers" /\ HeadersRead' = 0
    BY <1>5, <2>1 DEF StartPost, HeadersRead, InHeaders
  <2>3. ~LengthSeen' /\ hinfo'.auth # "good" /\ hinfo'.icontent_length = 0
    BY <2>1, <2>2 DEF LengthSeen, NoHeaderInfo
  <2>4. PostFramed'
    BY <2>2, <2>3 DEF PostFramed
  <2>. QED  BY <1>1, <1>5, <2>1, <2>4
            DEF StartPost, Framed, OneResponsePerRequest, GetFramed, InGet, InPost
<1>6. CASE PostUnknownUrl
  <2>1. out \in Seq(Response) /\ out' = Append(out, [msg |-> cur, status |-> "404url"])
    BY <1>6 DEF PostUnknownUrl, TypeOK
  <2>2. OneResponsePerRequest'
    BY <1>1, <2>1, OneMoreResponse DEF OneResponsePerRequest
  <2>. QED  BY <1>6, <2>2 DEF PostUnknownUrl, Framed, GetFramed, PostFramed, InGet, InPost
<1>7. CASE MethodNotAllowed
  BY <1>2, <1>7 DEF MethodNotAllowed, ReadMethod
<1>8. CASE MisreadAsMethod
  BY <1>2, <1>8 DEF MisreadAsMethod
<1>9. CASE MisreadAndCrash
  BY <1>9, CrashFramed DEF MisreadAndCrash
<1>10. CASE ReadRequestEof
  BY <1>1, <1>10
     DEF ReadRequestEof, Framed, OneResponsePerRequest, GetFramed, PostFramed, InGet, InPost,
         cursor
<1>. QED  BY <1>4, <1>5, <1>6, <1>7, <1>8, <1>9, <1>10 DEF RequestStep

\* A step within the handler of GET.
LEMMA GetFramedKept ==
    ASSUME Framed, InGet, InGet', out' = out, req' = req, GetFramed'
    PROVE  Framed'
BY DEF Framed, OneResponsePerRequest, PostFramed, InGet, InPost

LEMMA GetStepFramed ==
    ASSUME WellFramed, TypeOK, Serving, Framed, GetStep \/ StopAtMarker
    PROVE  Framed'
<1>1. InGet
  BY DEF GetStep, GetHeader, GetHeaderCrash, GetHeadersEnd, GetHeadersEof, GetUnknownUrl,
         GetBadRequest, GetContent, ReadContent, ContentDone, GetRefuse, GetServe,
         GetServeEmpty, StopAtMarker, InGet
<1>2. ReqBody = 0 /\ g.keep_alive \in BOOLEAN /\ g \in Globals
  <2>1. sent[req].method = "GET" /\ sent[req] \in Messages
    BY <1>1, RequestMessage
  <2>2. sent[req].body = <<>>
    BY <2>1 DEF WellFramed, Framable
  <2>. QED  BY <2>2 DEF ReqBody, TypeOK, Globals
<1>3. g.content_length \in Nat \cup {-1} /\ g.content_length <= 0
  BY <1>1, <1>2 DEF Globals, Framed, GetFramed
<1>4. CASE GetHeader
  <2>1. cur = req
    BY <1>4 DEF GetHeader, Serving, InHeaders
  <2>2. Len(sent[cur].body) = 0
    BY <1>2, <2>1 DEF ReqBody
  <2>3. \A v : /\ [g EXCEPT !.keep_alive = v].content_length = g.content_length
               /\ [g EXCEPT !.cookie = v].content_length = g.content_length
               /\ [g EXCEPT !.header_err_flag = v].content_length = g.content_length
               /\ [g EXCEPT !.acceptable_text = v].content_length = g.content_length
               /\ [g EXCEPT !.acceptable_charset = v].content_length = g.content_length
               /\ [g EXCEPT !.content_length = v].content_length = v
    BY <1>2 DEF Globals
  <2>4. GetHeaderEffect(NextHeader).content_length \in {g.content_length, Len(sent[cur].body)}
    BY <2>3, Zenon DEF GetHeaderEffect
  <2>5. g'.content_length <= 0
    BY <1>3, <1>4, <2>2, <2>4 DEF GetHeader
  <2>. QED  BY <1>1, <1>4, <2>5, GetFramedKept DEF GetHeader, GetFramed, InGet
<1>5. CASE GetHeaderCrash \/ GetServeEmpty
  BY <1>5, CrashFramed DEF GetHeaderCrash, GetServeEmpty
<1>6. CASE GetHeadersEnd
  <2>1. off = NHeaders + 1 /\ cur = req /\ NHeaders \in Nat
    BY <1>6, AllHeadersRead, LineAt DEF GetHeadersEnd, EndsHeaders, InHeaders
  <2>2. NBody = 0
    BY <1>1, <1>2, <2>1, RequestMessage
  <2>3. cur' = req + 1 /\ off' = 0
    BY <1>6, <2>1, <2>2, LineRead DEF GetHeadersEnd
  <2>. QED  BY <1>1, <1>3, <1>6, <2>3, GetFramedKept DEF GetHeadersEnd, GetFramed, InGet
<1>7. CASE GetHeadersEof
  <2>1. g'.content_length = g.content_length
    BY <1>2, <1>7 DEF GetHeadersEof, Globals
  <2>. QED  BY <1>1, <1>3, <1>7, <2>1, GetFramedKept DEF GetHeadersEof, GetFramed, InGet
<1>8. CASE GetUnknownUrl \/ GetBadRequest \/ GetRefuse \/ GetServe
  <2>1. off = 0 /\ cur = req + 1
    BY <1>8 DEF GetUnknownUrl, GetBadRequest, GetRefuse, GetServe, Framed, GetFramed
  <2>2. PICK s, ka : Reply(s, ka)
    BY <1>8 DEF GetUnknownUrl, GetBadRequest, GetRefuse, GetServe
  <2>. QED  BY <1>1, <2>1, <2>2, AnswerFramed DEF Reply, cursor
<1>9. CASE GetContent
  <2>1. want' = 0
    <3>1. ~(g.content_length > 0)
      BY <1>3
    <3>. QED  BY <1>9, <3>1 DEF GetContent
  <2>. QED  BY <1>1, <1>3, <1>9, <2>1, GetFramedKept
            DEF GetContent, Framed, GetFramed, InGet, cursor
<1>10. CASE ReadContent \/ StopAtMarker
  BY <1>10 DEF ReadContent, StopAtMarker, Framed, GetFramed
<1>11. CASE ContentDone
  BY <1>1, <1>11, GetFramedKept DEF ContentDone, Framed, GetFramed, InGet, cursor
<1>. QED  BY <1>4, <1>5, <1>6, <1>7, <1>8, <1>9, <1>10, <1>11 DEF GetStep

LEMMA PostFieldsDiffer ==
    /\ <<"Authorization">> # <<"Content", "Length">>
    /\ <<"Authorization">> # <<"Content", "Type">>
    /\ <<"Content", "Length">> # <<"Content", "Type">>
OBVIOUS

\* The arms of PostHeaderEffect.
LEMMA PostHeaderArms ==
    ASSUME NEW h, NEW f, f = Field(PostFields, h.name), NEW e, e = PostHeaderEffect(h)
    PROVE  \/ LooksLikeDelimiter(h) /\ e = [hinfo EXCEPT !.ibodyflag = TRUE]
           \/ /\ ~LooksLikeDelimiter(h) /\ h.colon /\ f = <<"Authorization">>
              /\ e = [hinfo EXCEPT !.auth = h.value]
           \/ /\ ~LooksLikeDelimiter(h) /\ h.colon /\ f = <<"Content", "Length">>
              /\ e = [hinfo EXCEPT !.icontent_length = Len(sent[cur].body)]
           \/ /\ ~(h.colon /\ f = <<"Authorization">>)
              /\ ~(h.colon /\ f = <<"Content", "Length">>)
              /\ \E v : e = [hinfo EXCEPT !.boundary = v] \/ e = hinfo
<1> USE PostFieldsDiffer
<1>1. CASE LooksLikeDelimiter(h)
  BY <1>1, Zenon DEF PostHeaderEffect
<1>2. CASE ~LooksLikeDelimiter(h) /\ h.colon /\ f = <<"Authorization">>
  BY <1>2, Zenon DEF PostHeaderEffect
<1>3. CASE ~LooksLikeDelimiter(h) /\ h.colon /\ f = <<"Content", "Length">>
  BY <1>3, Zenon DEF PostHeaderEffect
<1>4. CASE ~LooksLikeDelimiter(h) /\ h.colon /\ f = <<"Content", "Type">> /\ ~hinfo.ibodyflag
  <2>1. e = [hinfo EXCEPT !.boundary = h.value \in {"multipart24", "multipart4"}]
    BY <1>4, Zenon DEF PostHeaderEffect
  <2>. QED  BY <1>4, <2>1, Zenon
<1>5. CASE /\ ~LooksLikeDelimiter(h) /\ ~(h.colon /\ f = <<"Authorization">>)
           /\ ~(h.colon /\ f = <<"Content", "Length">>)
           /\ ~(h.colon /\ f = <<"Content", "Type">> /\ ~hinfo.ibodyflag)
  <2>1. e = hinfo
    BY <1>5, Zenon DEF PostHeaderEffect
  <2>. QED  BY <1>5, <2>1, Zenon
<1>. QED  BY <1>1, <1>2, <1>3, <1>4, <1>5, Zenon

\* What a header of a POST does to the credentials and to the length.
LEMMA PostHeaderMeaning ==
    ASSUME hinfo \in HeaderInfo, NEW h \in Header, NEW e, e = PostHeaderEffect(h)
    PROVE  /\ e.icontent_length \in {hinfo.icontent_length, Len(sent[cur].body)}
           /\ GivesLength(h) => e.icontent_length = Len(sent[cur].body)
           /\ e.auth \in {hinfo.auth, h.value}
           /\ h.name # <<>> /\ ~LooksLikeDelimiter(h)
                 => e.auth = IF h.colon /\ h.name = <<"Authorization">> THEN h.value
                                                                        ELSE hinfo.auth
           /\ LooksLikeDelimiter(h) => e.auth = hinfo.auth
<1>0. PICK f : f = Field(PostFields, h.name)
  OBVIOUS
<1>1. /\ h.name # <<>> => (f = <<"Authorization">> <=> h.name = <<"Authorization">>)
      /\ h.name = <<"Content", "Length">> => f = <<"Content", "Length">>
  <2>1. h.name \in Seq(STRING) /\ <<"Content", "Length">> # <<>>
    BY DEF Header
  <2>. QED  BY <1>0, <2>1, PostFieldsFound
<1>2. \A v : \A c \in {"auth", "icontent_length"} :
           /\ [hinfo EXCEPT !.ibodyflag = v][c] = hinfo[c]
           /\ [hinfo EXCEPT !.boundary = v][c] = hinfo[c]
           /\ [hinfo EXCEPT !.auth = v][c] = IF c = "auth" THEN v ELSE hinfo[c]
           /\ [hinfo EXCEPT !.icontent_length = v][c]
                 = IF c = "icontent_length" THEN v ELSE hinfo[c]
  BY DEF HeaderInfo
<1>. QED
  <2>1. CASE LooksLikeDelimiter(h) /\ e = [hinfo EXCEPT !.ibodyflag = TRUE]
    <3>1. e.auth = hinfo.auth /\ e.icontent_length = hinfo.icontent_length
      BY <1>2, <2>1
    <3>. QED  BY <2>1, <3>1 DEF GivesLength
  <2>2. CASE /\ ~LooksLikeDelimiter(h) /\ h.colon /\ f = <<"Authorization">>
             /\ e = [hinfo EXCEPT !.auth = h.value]
    <3>1. e.auth = h.value /\ e.icontent_length = hinfo.icontent_length
      BY <1>2, <2>2
    <3>2. h.name # <<"Content", "Length">>
      BY <1>1, <2>2, PostFieldsDiffer
    <3>. QED  BY <1>1, <2>2, <3>1, <3>2 DEF GivesLength
  <2>3. CASE /\ ~LooksLikeDelimiter(h) /\ h.colon /\ f = <<"Content", "Length">>
             /\ e = [hinfo EXCEPT !.icontent_length = Len(sent[cur].body)]
    <3>1. e.auth = hinfo.auth /\ e.icontent_length = Len(sent[cur].body)
      BY <1>2, <2>3
    <3>2. h.name # <<>> => h.name # <<"Authorization">>
      BY <1>1, <2>3, PostFieldsDiffer
    <3>. QED  BY <2>3, <3>1, <3>2
  <2>4. CASE /\ ~(h.colon /\ f = <<"Authorization">>)
             /\ ~(h.colon /\ f = <<"Content", "Length">>)
             /\ \E v : e = [hinfo EXCEPT !.boundary = v] \/ e = hinfo
    <3>1. e.auth = hinfo.auth /\ e.icontent_length = hinfo.icontent_length
      <4>1. PICK v : e = [hinfo EXCEPT !.boundary = v] \/ e = hinfo
        BY <2>4
      <4>2. CASE e = hinfo
        BY <4>2
      <4>3. CASE e = [hinfo EXCEPT !.boundary = v]
        BY <1>2, <4>3
      <4>. QED  BY <4>1, <4>2, <4>3
    <3>. QED  BY <1>1, <2>4, <3>1 DEF GivesLength
  <2>. QED  BY <1>0, <2>1, <2>2, <2>3, <2>4, PostHeaderArms

LEMMA PostFramedKept ==
    ASSUME Framed, InPost, InPost', out' = out, req' = req, PostFramed'
    PROVE  Framed'
BY DEF Framed, OneResponsePerRequest, GetFramed, InGet, InPost

\* The lines of an upload by their number.
LEMMA UploadLine ==
    ASSUME TypeOK, Serving, InPost, HasLine, cur = req, LineHere >= 1
    PROVE  /\ LineHere \in 1 .. ReqBody /\ NextLine = sent[req].body[LineHere]
           /\ NextLine \in BodyLines
           /\ off = NHeaders + 1 + NBody <=> LineHere = ReqBody
           /\ off \in Nat /\ NHeaders \in Nat /\ NBody \in Nat /\ NHeaders = ReqHeaders /\ NBody = ReqBody
<1>1. NHeaders = ReqHeaders /\ NBody = ReqBody
  BY RequestMessage
<1>2. NHeaders \in Nat /\ NBody \in Nat /\ off \in 0 .. NHeaders + 1 + NBody /\ off - NHeaders - 1 >= 1
  BY <1>1, LineAt DEF LineHere
<1>3. off > NHeaders + 1 /\ (off = NHeaders + 1 + NBody <=> off - NHeaders - 1 = NBody) /\ off \in Nat
  BY <1>2
<1>4. LineHere = off - NHeaders - 1
  BY <1>1 DEF LineHere
<1>. QED  BY <1>1, <1>2, <1>3, <1>4, LineAt

\* Reading on in an upload.
LEMMA UploadLineRead ==
    ASSUME TypeOK, Serving, InPost, HasLine, cur = req, LineHere >= 1, ReadLine,
           req' = req, sent' = sent
    PROVE  /\ LineHere = ReqBody => cur' = req + 1 /\ off' = 0
           /\ LineHere # ReqBody => cur' = req /\ LineHere' = LineHere + 1
           /\ ReqBody' = ReqBody /\ ReqHeaders' = ReqHeaders
<1>1. ReqBody' = ReqBody /\ ReqHeaders' = ReqHeaders
  BY DEF ReqBody, ReqHeaders
<1>2. off \in Nat /\ ReqHeaders \in Nat /\ (off = NHeaders + 1 + NBody <=> LineHere = ReqBody)
  BY UploadLine
<1>3. off' = off + 1 => LineHere' = LineHere + 1
  BY <1>1, <1>2 DEF LineHere
<1>. QED  BY <1>1, <1>2, <1>3, LineRead

\* An upload that may be entered is framed.
LEMMA UploadFramed ==
    ASSUME WellFramed, TypeOK, Serving, InPost, GoodSeen, HeadersRead \in 0 .. ReqHeaders
    PROVE  \/ ReqBody = 0
           \/ /\ ReqBody > 0
              /\ \E k \in Nat : UploadBody(sent[req].body, k)
              /\ \E i \in 1 .. ReqHeaders : GivesLength(sent[req].headers[i])
<1> DEFINE m == sent[req]
<1>1. /\ m \in Messages /\ DOMAIN m.headers = 1 .. ReqHeaders /\ m.method = "POST"
      /\ ReqBody \in Nat /\ ReqHeaders \in Nat
  BY RequestMessage
<1>2. Framable(m)
  BY <1>1 DEF WellFramed
<1>3. \E i \in DOMAIN m.headers : m.headers[i].value = "good"
  <2>1. PICK i \in 1 .. HeadersRead : m.headers[i].value = "good"
    BY DEF GoodSeen
  <2>2. i \in 1 .. ReqHeaders
    BY <1>1
  <2>. QED  BY <1>1, <2>1, <2>2
<1>4. m.body = <<>> => ReqBody = 0
  BY DEF ReqBody
<1>. QED  BY <1>1, <1>2, <1>3, <1>4 DEF Framable

LEMMA PostStepFramed ==
    ASSUME WellFramed, TypeOK, Serving, Framed, PostStep
    PROVE  Framed'
<1>1. InPost
  BY DEF PostStep, PostHeader, PostHeaderCrash, PostHeadersEnd, PostHeadersEof, PostUnauthorized,
         PostWrongPassword, PostGarbledCredentials, PostEmpty, PostNoBoundary, PostUpload,
         Authorized, PartHeader, PartHeadersEnd, OpenFile, OpenFileFails, OpenFileUnnamed,
         WriteLine, WriteLastLine, WriteDone, WriteEof, InPost
<1>2. hinfo \in HeaderInfo /\ hinfo.icontent_length \in Nat
  BY DEF TypeOK, HeaderInfo
<1>3. /\ ReqHeaders \in Nat /\ ReqBody \in Nat /\ sent[req] \in Messages
      /\ cur = req => NHeaders = ReqHeaders /\ NBody = ReqBody
  BY <1>1, RequestMessage
<1>4. CASE PostHeader
  <2>1. /\ HeadersRead = off - 1 /\ HeadersRead' = off /\ off \in Nat \ {0}
        /\ NextHeader = sent[req].headers[off] /\ NextHeader \in Header /\ cur = req
    <3>1. InHeaders /\ sent' = sent
      BY <1>4 DEF PostHeader, InHeaders, client
    <3>. QED  BY <1>4, <3>1, HeaderRead DEF PostHeader
  <2>2. /\ hinfo'.icontent_length \in {hinfo.icontent_length, ReqBody}
        /\ GivesLength(NextHeader) => hinfo'.icontent_length = ReqBody
        /\ hinfo'.auth \in {hinfo.auth, NextHeader.value}
    BY <1>2, <1>4, <2>1, PostHeaderMeaning DEF PostHeader, ReqBody
  <2>3. /\ \A i \in 1 .. off - 1 : i \in 1 .. off
        /\ off \in 1 .. off
        /\ \A i \in 1 .. off : i = off \/ i \in 1 .. off - 1
    BY <2>1
  <2>4. ReqBody' = ReqBody /\ sent' = sent /\ req' = req /\ pc' = pc
    BY <1>4 DEF PostHeader, ReqBody, client
  <2>5. LengthSeen' => LengthSeen \/ GivesLength(NextHeader)
    BY <2>1, <2>3, <2>4 DEF LengthSeen
  <2>6. GoodSeen \/ NextHeader.value = "good" => GoodSeen'
    BY <2>1, <2>3, <2>4 DEF GoodSeen
  <2>7. /\ hinfo.icontent_length \in {0, ReqBody}
        /\ LengthSeen => hinfo.icontent_length = ReqBody
        /\ hinfo.auth = "good" => GoodSeen
    BY <1>4 DEF PostHeader, Framed, PostFramed
  <2>8. PostFramed'
    BY <1>4, <2>2, <2>4, <2>5, <2>6, <2>7 DEF PostHeader, PostFramed
  <2>. QED  BY <1>1, <1>4, <2>8, PostFramedKept DEF PostHeader, InPost
<1>5. CASE PostHeadersEnd
  <2>1. HeadersRead = ReqHeaders /\ off = NHeaders + 1 /\ cur = req /\ NHeaders = ReqHeaders /\ NBody = ReqBody
    BY <1>3, <1>5, AllHeadersRead DEF PostHeadersEnd, InHeaders, ReqHeaders
  <2>2. /\ pc' = "post_auth" /\ pc = "post_headers" /\ HeadersRead' = HeadersRead
        /\ ReqHeaders' = ReqHeaders /\ ReqBody' = ReqBody /\ sent' = sent /\ req' = req
        /\ hinfo' = hinfo /\ out' = out
    BY <1>5, <2>1 DEF PostHeadersEnd, HeadersRead, InHeaders, ReqHeaders, ReqBody, client
  <2>3. GoodSeen' = GoodSeen
    BY <2>2 DEF GoodSeen
  <2>4. /\ hinfo.icontent_length \in {0, ReqBody}
        /\ LengthSeen => hinfo.icontent_length = ReqBody
        /\ hinfo.auth = "good" => GoodSeen
    BY <2>2 DEF Framed, PostFramed
  <2>5. ASSUME hinfo.auth = "good"
        PROVE  \/ ReqBody = 0 /\ off' = 0 /\ cur' = req + 1 /\ hinfo.icontent_length = 0
               \/ /\ ReqBody > 0 /\ LineHere' = 1 /\ cur' = req
                  /\ hinfo.icontent_length = ReqBody
    <3>1. CASE ReqBody = 0
      <4>1. off = NHeaders + 1 + NBody
        BY <1>3, <2>1, <3>1
      <4>. QED  BY <1>5, <2>1, <2>4, <3>1, <4>1, LineRead DEF PostHeadersEnd
    <3>2. CASE ReqBody > 0
      <4>1. LengthSeen
        <5>1. HeadersRead \in 0 .. ReqHeaders
          BY <1>3, <2>1
        <5>2. \E i \in 1 .. ReqHeaders : GivesLength(sent[req].headers[i])
          BY <1>1, <1>3, <2>4, <2>5, <3>2, <5>1, UploadFramed
        <5>. QED  BY <2>1, <5>2 DEF LengthSeen
      <4>2. off # NHeaders + 1 + NBody
        BY <1>3, <2>1, <3>2
      <4>3. cur' = req /\ off' = ReqHeaders + 2
        BY <1>3, <1>5, <2>1, <4>2, LineRead DEF PostHeadersEnd
      <4>4. LineHere' = 1
        BY <1>3, <2>2, <4>3 DEF LineHere
      <4>. QED  BY <2>4, <3>2, <4>1, <4>3, <4>4
    <3>. QED  BY <1>3, <3>1, <3>2
  <2>6. PostFramed'
    BY <2>2, <2>3, <2>4, <2>5 DEF PostFramed
  <2>. QED  BY <1>1, <2>2, <2>6, PostFramedKept DEF InPost
<1>6. CASE PostHeadersEof
  <2>1. UNCHANGED <<pc, req, hinfo, want, out, sent, cur, off>>
    BY <1>6 DEF PostHeadersEof, client, cursor
  <2>2. /\ LineHere' = LineHere /\ ReqBody' = ReqBody /\ GoodSeen' = GoodSeen
        /\ LengthSeen' = LengthSeen
    BY <2>1 DEF LineHere, ReqHeaders, ReqBody, GoodSeen, LengthSeen, HeadersRead, InHeaders
  <2>3. PostFramed'
    BY <2>1, <2>2 DEF Framed, PostFramed, InUploadAt
  <2>. QED  BY <1>1, <2>1, <2>3, PostFramedKept DEF InPost
<1>7. CASE PostUnauthorized \/ PostWrongPassword
  <2>1. PICK s : Reply(s, FALSE)
    BY <1>7 DEF PostUnauthorized, PostWrongPassword
  <2>. QED  BY <1>1, <2>1, AnswerFramed DEF Reply
<1>8. CASE PostHeaderCrash \/ PostGarbledCredentials \/ PostNoBoundary \/ OpenFileUnnamed
  BY <1>8, CrashFramed DEF PostHeaderCrash, PostGarbledCredentials, PostNoBoundary, OpenFileUnnamed
<1>9. CASE PostEmpty
  <2>1. off = 0 /\ cur = req + 1
    <3>1. pc = "post_auth" /\ hinfo.auth = "good" /\ ~(hinfo.icontent_length > 0)
      BY <1>2, <1>9 DEF PostEmpty, Authorized
    <3>. QED  BY <1>3, <3>1 DEF Framed, PostFramed
  <2>. QED  BY <1>1, <1>9, <2>1, AnswerFramed DEF PostEmpty, Reply, cursor
<1>10. CASE PostUpload
  <2>1. /\ pc = "post_auth" /\ hinfo.auth = "good" /\ hinfo.icontent_length > 0
        /\ pc' = "part_headers" /\ want' = hinfo.icontent_length
        /\ UNCHANGED <<sent, cur, off, req, out>>
    BY <1>10 DEF PostUpload, Authorized, client, cursor
  <2>2. ReqBody > 0 /\ LineHere = 1 /\ cur = req /\ hinfo.icontent_length = ReqBody /\ GoodSeen
    BY <1>2, <1>3, <2>1 DEF Framed, PostFramed
  <2>3. HeadersRead \in 0 .. ReqHeaders
    BY <1>3, <2>1 DEF HeadersRead, InHeaders, ReqHeaders
  <2>4. PICK k \in Nat : UploadBody(sent[req].body, k)
    BY <1>1, <1>3, <2>2, <2>3, UploadFramed
  <2>5. k >= 1 /\ LineHere' = LineHere /\ ReqBody' = ReqBody
    BY <2>1, <2>4 DEF UploadBody, LineHere, ReqBody, ReqHeaders
  <2>6. LineHere' \in 1 .. k /\ want' = ReqBody'
    BY <2>1, <2>2, <2>5
  <2>7. InUploadAt(k)'
    BY <2>1, <2>4, <2>6 DEF InUploadAt
  <2>8. PostFramed'
    BY <2>1, <2>2, <2>7 DEF PostFramed
  <2>. QED  BY <1>1, <2>1, <2>8, PostFramedKept DEF InPost
<1>11. ASSUME pc \in {"part_headers", "open_file", "write_file"}
       PROVE  cur = req /\ \E k \in Nat : InUploadAt(k)
  BY <1>11 DEF Framed, PostFramed
<1>12. ASSUME NEW k \in Nat, pc' \in {"part_headers", "open_file", "write_file"},
              cur' = req, req' = req, InUploadAt(k)', out' = out
       PROVE  Framed'
  <2>1. PostFramed'
    BY <1>12 DEF PostFramed
  <2>. QED  BY <1>1, <1>12, <2>1, PostFramedKept DEF InPost
<1>13. CASE PartHeader
  <2>1. PICK k \in Nat : InUploadAt(k)
    BY <1>11, <1>13 DEF PartHeader
  <2>2. /\ pc = "part_headers" /\ pc' = pc /\ sent' = sent /\ req' = req /\ want' = want
        /\ out' = out /\ NextLine # "blank" /\ HasLine /\ ReadLine /\ cur = req
    BY <1>11, <1>13 DEF PartHeader, client
  <2>3. UploadBody(sent[req].body, k) /\ LineHere \in 1 .. k /\ want = ReqBody
    BY <2>1, <2>2 DEF InUploadAt
  <2>4. sent[req].body[k] = "blank" /\ k \in 1 .. ReqBody - 1
    BY <2>3 DEF UploadBody, ReqBody
  <2>5. LineHere # k /\ LineHere # ReqBody /\ LineHere \in Nat
    BY <1>1, <1>3, <2>2, <2>3, <2>4, UploadLine
  <2>6. cur' = req /\ LineHere' = LineHere + 1 /\ ReqBody' = ReqBody
    BY <1>1, <2>2, <2>3, <2>5, UploadLineRead
  <2>7. LineHere' \in 1 .. k
    BY <2>3, <2>5, <2>6
  <2>8. InUploadAt(k)'
    BY <2>2, <2>3, <2>6, <2>7 DEF InUploadAt
  <2>. QED  BY <1>12, <2>2, <2>6, <2>8
<1>14. CASE PartHeadersEnd
  <2>1. PICK k \in Nat : InUploadAt(k)
    BY <1>11, <1>14 DEF PartHeadersEnd
  <2>2. /\ pc = "part_headers" /\ pc' = "open_file" /\ sent' = sent /\ req' = req
        /\ want' = want /\ out' = out /\ NextLine = "blank" /\ HasLine /\ ReadLine
        /\ cur = req
    BY <1>11, <1>14 DEF PartHeadersEnd, client
  <2>3. UploadBody(sent[req].body, k) /\ LineHere \in 1 .. k /\ want = ReqBody
    BY <2>1, <2>2 DEF InUploadAt
  <2>4. k \in 1 .. ReqBody - 1 /\ \A i \in 1 .. k - 1 : sent[req].body[i] # "blank"
    BY <2>3 DEF UploadBody, ReqBody
  <2>5. NextLine = sent[req].body[LineHere]
    BY <1>1, <2>2, <2>3, UploadLine
  <2>6. LineHere = k /\ LineHere # ReqBody
    BY <1>3, <2>2, <2>3, <2>4, <2>5
  <2>7. cur' = req /\ LineHere' = LineHere + 1 /\ ReqBody' = ReqBody
    BY <1>1, <2>2, <2>3, <2>6, UploadLineRead
  <2>8. InUploadAt(k)'
    BY <2>2, <2>3, <2>6, <2>7 DEF InUploadAt
  <2>. QED  BY <1>12, <2>2, <2>7, <2>8
<1>15. CASE OpenFile
  <2>1. PICK k \in Nat : InUploadAt(k)
    BY <1>11, <1>15 DEF OpenFile
  <2>2. /\ pc = "open_file" /\ pc' = "write_file" /\ cur = req
        /\ UNCHANGED <<sent, cur, off, req, want, out>>
    BY <1>11, <1>15 DEF OpenFile, client, cursor
  <2>3. UploadBody(sent[req].body, k) /\ LineHere = k + 1 /\ want = ReqBody
    BY <2>1, <2>2 DEF InUploadAt
  <2>4. k \in 1 .. ReqBody - 1
    BY <2>3 DEF UploadBody, ReqBody
  <2>5. LineHere' = LineHere /\ ReqBody' = ReqBody
    BY <2>2 DEF LineHere, ReqBody, ReqHeaders
  <2>6. LineHere' \in k + 1 .. ReqBody' /\ want' = ReqBody' - (LineHere' - k - 1)
    BY <1>3, <2>2, <2>3, <2>4, <2>5
  <2>7. InUploadAt(k)'
    BY <2>2, <2>3, <2>6 DEF InUploadAt
  <2>. QED  BY <1>12, <2>2, <2>7
<1>16. CASE OpenFileFails
  BY <1>16 DEF OpenFileFails, WellFramed
<1>17. ASSUME pc = "write_file", NEW k \in Nat, InUploadAt(k)
       PROVE  /\ k \in 1 .. ReqBody - 1 /\ LineHere \in k + 1 .. ReqBody /\ cur = req
              /\ want = ReqBody - (LineHere - k - 1) /\ want > 0
              /\ UploadBody(sent[req].body, k)
              /\ sent[req].body[ReqBody] \in Delimiters
              /\ \A i \in k + 1 .. ReqBody - 1 : sent[req].body[i] \notin Delimiters
  <2>1. /\ UploadBody(sent[req].body, k) /\ LineHere \in k + 1 .. ReqBody /\ cur = req
        /\ want = ReqBody - (LineHere - k - 1)
    BY <1>11, <1>17 DEF InUploadAt
  <2>2. /\ k \in 1 .. ReqBody - 1
        /\ sent[req].body[ReqBody] \in Delimiters
        /\ \A i \in k + 1 .. ReqBody - 1 : sent[req].body[i] \notin Delimiters
    BY <2>1 DEF UploadBody, ReqBody
  <2>3. want > 0
    BY <1>3, <2>1, <2>2
  <2>. QED  BY <2>1, <2>2, <2>3
<1>18. CASE WriteLine
  <2>1. PICK k \in Nat : InUploadAt(k)
    BY <1>11, <1>18 DEF WriteLine
  <2>2. /\ pc = "write_file" /\ pc' = pc /\ sent' = sent /\ req' = req /\ want' = want - 1
        /\ out' = out /\ NextLine \notin Delimiters /\ HasLine /\ ReadLine
    BY <1>18 DEF WriteLine, client
  <2>3. /\ k \in 1 .. ReqBody - 1 /\ LineHere \in k + 1 .. ReqBody /\ cur = req
        /\ want = ReqBody - (LineHere - k - 1) /\ LineHere >= 1
        /\ UploadBody(sent[req].body, k) /\ sent[req].body[ReqBody] \in Delimiters
    BY <1>3, <1>17, <2>1, <2>2
  <2>4. LineHere # ReqBody
    BY <1>1, <2>2, <2>3, UploadLine
  <2>5. cur' = req /\ LineHere' = LineHere + 1 /\ ReqBody' = ReqBody
    BY <1>1, <2>2, <2>3, <2>4, UploadLineRead
  <2>6. LineHere' \in k + 1 .. ReqBody' /\ want' = ReqBody' - (LineHere' - k - 1)
    BY <1>3, <2>2, <2>3, <2>4, <2>5
  <2>7. InUploadAt(k)'
    BY <2>2, <2>3, <2>6 DEF InUploadAt
  <2>. QED  BY <1>12, <2>2, <2>5, <2>7
<1>19. CASE WriteLastLine
  <2>1. PICK k \in Nat : InUploadAt(k)
    BY <1>11, <1>19 DEF WriteLastLine
  <2>2. /\ pc = "write_file" /\ pc' \in {"request", "exited"} /\ sent' = sent /\ req' = req
        /\ out' = Append(out, [msg |-> req, status |-> "201"])
        /\ NextLine \in Delimiters /\ HasLine /\ ReadLine
    BY <1>19 DEF WriteLastLine, client
  <2>3. /\ k \in 1 .. ReqBody - 1 /\ LineHere \in k + 1 .. ReqBody /\ cur = req /\ LineHere >= 1
        /\ \A i \in k + 1 .. ReqBody - 1 : sent[req].body[i] \notin Delimiters
    BY <1>3, <1>17, <2>1, <2>2
  <2>4. NextLine = sent[req].body[LineHere]
    BY <1>1, <2>2, <2>3, UploadLine
  <2>5. LineHere = ReqBody
    BY <1>3, <2>2, <2>3, <2>4
  <2>6. cur' = req + 1 /\ off' = 0
    BY <1>1, <2>2, <2>3, <2>5, UploadLineRead
  <2>. QED  BY <1>1, <2>2, <2>6, AnswerFramed
<1>20. CASE WriteDone
  <2>1. PICK k \in Nat : InUploadAt(k)
    BY <1>11, <1>20 DEF WriteDone
  <2>2. want > 0 /\ want = 0
    BY <1>17, <1>20, <2>1 DEF WriteDone
  <2>. QED  BY <2>2
<1>21. CASE WriteEof
  <2>1. UNCHANGED <<pc, sent, cur, off, req, want, out>> /\ pc = "write_file"
    BY <1>21 DEF WriteEof, vars, client, cursor
  <2>2. PICK k \in Nat : InUploadAt(k)
    BY <1>11, <2>1
  <2>3. InUploadAt(k)'
    BY <2>1, <2>2 DEF InUploadAt, LineHere, ReqBody, ReqHeaders
  <2>. QED  BY <1>11, <1>12, <2>1, <2>3
<1>. QED  BY <1>4, <1>5, <1>6, <1>7, <1>8, <1>9, <1>10, <1>13, <1>14, <1>15, <1>16,
             <1>18, <1>19, <1>20, <1>21 DEF PostStep

LEMMA ClientFramed ==
    ASSUME TypeOK, Serving, Framed, Client
    PROVE  Framed'
<1>1. UNCHANGED <<cur, off, pc, req, g, hinfo, want, out>>
  BY ClientAppends DEF cursor
<1>2. InGet' = InGet /\ InPost' = InPost
  BY ClientReading
<1>3. ASSUME InPost
      PROVE  sent'[req] = sent[req] /\ HeadersRead' = HeadersRead
  BY <1>3, ClientReading
<1>4. ASSUME InPost
      PROVE  /\ ReqBody' = ReqBody /\ LineHere' = LineHere /\ GoodSeen' = GoodSeen
             /\ LengthSeen' = LengthSeen
             /\ \A k \in Nat : InUploadAt(k)' <=> InUploadAt(k)
  <2>1. ReqBody' = ReqBody /\ LineHere' = LineHere /\ GoodSeen' = GoodSeen /\ LengthSeen' = LengthSeen
    BY <1>1, <1>3, <1>4 DEF ReqBody, ReqHeaders, LineHere, GoodSeen, LengthSeen
  <2>. QED  BY <1>1, <1>3, <1>4, <2>1 DEF InUploadAt
<1>5. GetFramed'
  BY <1>1, <1>2 DEF Framed, GetFramed
<1>6. PostFramed'
  <2>1. CASE InPost
    BY <1>1, <1>4, <2>1 DEF Framed, PostFramed
  <2>2. CASE ~InPost
    BY <1>1, <2>2 DEF PostFramed, InPost
  <2>. QED  BY <2>1, <2>2
<1>. QED  BY <1>1, <1>2, <1>5, <1>6 DEF Framed, OneResponsePerRequest

LEMMA NextFramed ==
    ASSUME WellFramed, TypeOK, Serving, Framed, [Next]_vars
    PROVE  Framed'
<1>1. CASE UNCHANGED vars
  <2>1. UNCHANGED <<sent, cur, off, pc, req, g, hinfo, want, out>>
    BY <1>1 DEF vars, client, cursor
  <2>. QED  BY <2>1
            DEF Framed, OneResponsePerRequest, GetFramed, PostFramed, InGet, InPost,
                InUploadAt, LineHere, ReqBody, ReqHeaders, GoodSeen, LengthSeen, HeadersRead,
                InHeaders
<1>2. CASE BrokenPipe
  BY <1>2, CrashFramed DEF BrokenPipe
<1>. QED  BY <1>1, <1>2, RequestStepFramed, GetStepFramed, PostStepFramed, ClientFramed
          DEF Next, Child

LEMMA InitFramed == Init => Framed
BY DEF Init, Framed, OneResponsePerRequest, GetFramed, PostFramed, InGet, InPost

\* For clients that send messages of these kinds, whatever their headers, urls
\* and lengths and however many there are: the child reads every request from
\* its first line, and its responses are those of the messages in order, one
\* each.
THEOREM FramingIsKept ==
    ASSUME WellFramed
    PROVE  Spec => [](AtMessageBoundary /\ OneResponsePerRequest)
<1>1. TypeOK /\ Serving /\ Framed /\ [Next]_vars => (TypeOK /\ Serving /\ Framed)'
  BY NextType, NextServing, NextFramed
<1>2. Init => TypeOK /\ Serving /\ Framed
  BY InitType, InitServing, InitFramed
<1>3. Framed => AtMessageBoundary /\ OneResponsePerRequest
  BY DEF Framed, AtMessageBoundary
<1>. QED  BY <1>1, <1>2, <1>3, PTL DEF Spec

(***************************************************************************)
(* What the globals say of the message, and the responses.                 *)
(***************************************************************************)
\* Credentials that look like a delimiter are not taken for credentials.
NoDashedCredentials ==
    \A m \in Messages : \A i \in DOMAIN m.headers :
        ~Shows(m.headers[i], <<"Authorization">>, {"multipart27"})

Charset == <<"Accept", "Charset">>

\* The globals of a GET say what the headers read so far say, and nothing of
\* an earlier request.
GetSaid ==
    /\ g.cookie <=> HasOf(sent[req], HeadersRead, <<"Cookie">>)
    /\ g.acceptable_charset <=>
          \/ ~HasOf(sent[req], HeadersRead, Charset)
          \/ LastOf(sent[req], HeadersRead, Charset, Values, {"ISO-8859-1"})
    /\ g.acceptable_text
    /\ MalformedOf(sent[req], HeadersRead) => g.header_err_flag
    /\ \/ g.header_err_flag => MalformedOf(sent[req], HeadersRead)
       \/ pc = "get_headers" /\ AtEof
    /\ pc \in {"get_body", "get_reply"} => ~g.header_err_flag

\* So do the credentials of a POST.
PostSaid ==
    /\ hinfo.auth = "none" <=> ~HasOf(sent[req], HeadersRead, <<"Authorization">>)
    /\ hinfo.auth = "good" <=>
          LastOf(sent[req], HeadersRead, <<"Authorization">>, Values, {"good"})
    /\ pc \in {"part_headers", "open_file", "write_file"} => hinfo.auth = "good"

Said == (InGet => GetSaid) /\ (InPost => PostSaid)

LEMMA SaidElsewhere ==
    ASSUME ~InGet', ~InPost'
    PROVE  Said'
BY DEF Said

LEMMA RequestStepSaid ==
    ASSUME TypeOK, Serving, RequestStep
    PROVE  Said'
<1>1. CASE StartGet
  <2>1. HeadersRead' = 0
    BY <1>1, LineAt, RequestLine DEF StartGet, ReadMethod, HeadersRead, InHeaders
  <2>2. g' = FreshGlobals /\ pc' = "get_headers"
    BY <1>1 DEF StartGet
  <2>3. GetSaid'
    BY <2>1, <2>2, NoHeaders DEF GetSaid, FreshGlobals
  <2>. QED  BY <2>2, <2>3 DEF Said, InPost
<1>2. CASE StartPost
  <2>1. HeadersRead' = 0
    BY <1>2, LineAt, RequestLine DEF StartPost, ReadMethod, HeadersRead, InHeaders
  <2>2. hinfo' = NoHeaderInfo /\ pc' = "post_headers"
    BY <1>2 DEF StartPost
  <2>3. PostSaid'
    BY <2>1, <2>2, NoHeaders DEF PostSaid, NoHeaderInfo
  <2>. QED  BY <2>2, <2>3 DEF Said, InGet
<1>3. CASE PostUnknownUrl \/ MethodNotAllowed \/ MisreadAsMethod \/ MisreadAndCrash
           \/ ReadRequestEof
  BY <1>3, SaidElsewhere
     DEF PostUnknownUrl, MethodNotAllowed, ReadMethod, MisreadAsMethod, MisreadAndCrash, Crash,
         ReadRequestEof, InGet, InPost
<1>. QED  BY <1>1, <1>2, <1>3 DEF RequestStep

LEMMA GetStepSaid ==
    ASSUME NoEmptyName, TypeOK, Serving, Said, GetStep \/ StopAtMarker
    PROVE  Said'
<1>1. InGet /\ GetSaid
  BY DEF GetStep, GetHeader, GetHeaderCrash, GetHeadersEnd, GetHeadersEof, GetUnknownUrl,
         GetBadRequest, GetContent, ReadContent, ContentDone, GetRefuse, GetServe,
         GetServeEmpty, StopAtMarker, InGet, Said
<1>2. g \in Globals
  BY DEF TypeOK
<1>3. ASSUME GetSaid', pc' \in {"get_headers", "get_dispatch", "get_body", "get_reply"}
      PROVE  Said'
  BY <1>3 DEF Said, InPost
<1>4. CASE GetHeader
  <2> DEFINE n == off
             h == sent[req].headers[n]
             m == sent[req]
  <2>1. /\ HeadersRead = n - 1 /\ HeadersRead' = n /\ n \in Nat \ {0}
        /\ NextHeader = h /\ h \in Header /\ h.name # <<>>
    <3>1. InHeaders /\ sent' = sent
      BY <1>4 DEF GetHeader, InHeaders, client
    <3>. QED  BY <1>4, <3>1, HeaderRead DEF GetHeader, NoEmptyName
  <2>2. g' = GetHeaderEffect(h) /\ sent' = sent /\ req' = req /\ pc' = "get_headers" /\ ~AtEof
    BY <1>4, <2>1 DEF GetHeader, client, AtEof
  <2>3. /\ g'.header_err_flag <=> g.header_err_flag \/ ~h.colon
        /\ g'.cookie <=> g.cookie \/ (h.colon /\ h.name = <<"Cookie">>)
        /\ g.acceptable_text => g'.acceptable_text
        /\ g'.acceptable_charset <=> IF h.colon /\ h.name = Charset
                                     THEN h.value = "ISO-8859-1" ELSE g.acceptable_charset
    BY <1>2, <2>1, <2>2, GetHeaderMeaning DEF Charset
  <2>4. /\ HasOf(m, n, <<"Cookie">>) <=>
              HasOf(m, n - 1, <<"Cookie">>) \/ (h.colon /\ h.name = <<"Cookie">>)
        /\ HasOf(m, n, Charset) <=> HasOf(m, n - 1, Charset) \/ (h.colon /\ h.name = Charset)
        /\ MalformedOf(m, n) <=> MalformedOf(m, n - 1) \/ ~h.colon
    BY <2>1, OneMoreHeader
  <2>5. LastOf(m, n, Charset, Values, {"ISO-8859-1"}) <=>
           \/ Shows(h, Charset, Values) /\ h.value \in {"ISO-8859-1"}
           \/ ~Shows(h, Charset, Values) /\ LastOf(m, n - 1, Charset, Values, {"ISO-8859-1"})
    <3>1. {"ISO-8859-1"} \in SUBSET Values
      BY DEF Values
    <3>. QED  BY <2>1, <3>1, OneMoreHeader
  <2>6. Shows(h, Charset, Values) <=> h.colon /\ h.name = Charset
    BY <2>1 DEF Shows, Header
  <2>7. /\ HeadersRead' = n /\ m' = m
    BY <2>1, <2>2
  <2>8. /\ g.cookie <=> HasOf(m, n - 1, <<"Cookie">>)
        /\ g.acceptable_charset <=> \/ ~HasOf(m, n - 1, Charset)
                                    \/ LastOf(m, n - 1, Charset, Values, {"ISO-8859-1"})
        /\ g.acceptable_text
        /\ g.header_err_flag <=> MalformedOf(m, n - 1)
    BY <1>1, <2>1, <2>2 DEF GetSaid
  <2>9. /\ g'.cookie <=> HasOf(m, n, <<"Cookie">>)
        /\ g'.acceptable_charset <=> \/ ~HasOf(m, n, Charset)
                                     \/ LastOf(m, n, Charset, Values, {"ISO-8859-1"})
        /\ g'.acceptable_text
        /\ g'.header_err_flag <=> MalformedOf(m, n)
    <3> HIDE DEF m, h, n
    <3>1. g'.cookie <=> HasOf(m, n, <<"Cookie">>)
      BY <2>3, <2>4, <2>8, Zenon
    <3>2. g'.header_err_flag <=> MalformedOf(m, n)
      BY <2>3, <2>4, <2>8, Zenon
    <3>3. CASE h.colon /\ h.name = Charset
      BY <2>3, <2>4, <2>5, <2>6, <2>8, <3>1, <3>2, <3>3
    <3>4. CASE ~(h.colon /\ h.name = Charset)
      BY <2>3, <2>4, <2>5, <2>6, <2>8, <3>1, <3>2, <3>4
    <3>. QED  BY <3>3, <3>4
  <2>10. GetSaid'
    BY <2>2, <2>7, <2>9 DEF GetSaid
  <2>. QED  BY <1>3, <2>2, <2>10
<1>5. CASE GetHeadersEnd
  <2>1. HeadersRead = Len(sent[req].headers) /\ HasLine
    BY <1>5, AllHeadersRead DEF GetHeadersEnd, EndsHeaders, InHeaders
  <2>2. HeadersRead' = HeadersRead
    BY <1>5, <2>1 DEF GetHeadersEnd, client, HeadersRead, InHeaders
  <2>. QED  BY <1>1, <1>3, <1>5, <2>1, <2>2 DEF GetHeadersEnd, client, GetSaid, AtEof
<1>6. CASE GetHeadersEof
  <2>1. /\ g'.cookie = g.cookie /\ g'.acceptable_charset = g.acceptable_charset
        /\ g'.acceptable_text = g.acceptable_text /\ g'.header_err_flag = TRUE
    BY <1>2, <1>6 DEF GetHeadersEof, Globals
  <2>2. HeadersRead' = HeadersRead /\ AtEof' /\ sent' = sent /\ req' = req
        /\ pc' = "get_headers"
    BY <1>6 DEF GetHeadersEof, client, cursor, HeadersRead, InHeaders, AtEof, HasLine
  <2>3. GetSaid'
    BY <1>1, <2>1, <2>2 DEF GetSaid
  <2>. QED  BY <1>3, <2>2, <2>3
<1>7. CASE GetContent \/ ReadContent \/ ContentDone \/ StopAtMarker
  <2>1. /\ HeadersRead' = HeadersRead /\ sent' = sent /\ req' = req /\ g' = g
        /\ pc' \in {"get_body", "get_reply"} /\ pc # "get_headers" /\ ~g.header_err_flag
    BY <1>1, <1>7 DEF GetContent, ReadContent, ContentDone, StopAtMarker, client,
                      HeadersRead, InHeaders, GetSaid
  <2>2. GetSaid'
    BY <1>1, <2>1 DEF GetSaid
  <2>. QED  BY <1>3, <2>1, <2>2
<1>8. CASE GetUnknownUrl \/ GetBadRequest \/ GetRefuse \/ GetServe
  BY <1>8, SaidElsewhere
     DEF GetUnknownUrl, GetBadRequest, GetRefuse, GetServe, Reply, InGet, InPost
<1>9. CASE GetHeaderCrash \/ GetServeEmpty
  BY <1>9, SaidElsewhere DEF GetHeaderCrash, GetServeEmpty, Crash, InGet, InPost
<1>. QED  BY <1>4, <1>5, <1>6, <1>7, <1>8, <1>9 DEF GetStep

LEMMA PostStepSaid ==
    ASSUME NoEmptyName, NoDashedCredentials, TypeOK, Serving, Said, PostStep
    PROVE  Said'
<1>1. InPost /\ PostSaid
  BY DEF PostStep, PostHeader, PostHeaderCrash, PostHeadersEnd, PostHeadersEof, PostUnauthorized,
         PostWrongPassword, PostGarbledCredentials, PostEmpty, PostNoBoundary, PostUpload,
         Authorized, PartHeader, PartHeadersEnd, OpenFile, OpenFileFails, OpenFileUnnamed,
         WriteLine, WriteLastLine, WriteDone, WriteEof, InPost, Said
<1>2. hinfo \in HeaderInfo
  BY DEF TypeOK
<1>3. ASSUME PostSaid', ~InGet' PROVE Said'
  BY <1>3 DEF Said
<1>4. CASE PostHeader
  <2> DEFINE n == off
             h == sent[req].headers[n]
             m == sent[req]
             A == <<"Authorization">>
  <2>1. /\ HeadersRead = n - 1 /\ HeadersRead' = n /\ n \in Nat \ {0}
        /\ NextHeader = h /\ h \in Header /\ h.name # <<>>
        /\ ~Shows(h, A, {"multipart27"})
    <3>1. InHeaders /\ sent' = sent
      BY <1>4 DEF PostHeader, InHeaders, client
    <3>. QED  BY <1>4, <3>1, HeaderRead DEF PostHeader, NoEmptyName, NoDashedCredentials
  <2>2. hinfo' = PostHeaderEffect(h) /\ sent' = sent /\ req' = req /\ pc' = "post_headers"
    BY <1>4, <2>1 DEF PostHeader, client
  <2>3. /\ ~LooksLikeDelimiter(h) =>
              hinfo'.auth = IF h.colon /\ h.name = A THEN h.value ELSE hinfo.auth
        /\ LooksLikeDelimiter(h) => hinfo'.auth = hinfo.auth
    BY <1>2, <2>1, <2>2, PostHeaderMeaning
  <2>4. h.colon /\ h.name = A => ~LooksLikeDelimiter(h)
    BY <2>1 DEF Shows, LooksLikeDelimiter
  <2>5. hinfo'.auth = IF h.colon /\ h.name = A THEN h.value ELSE hinfo.auth
    BY <2>3, <2>4
  <2>6. HasOf(m, n, A) <=> HasOf(m, n - 1, A) \/ (h.colon /\ h.name = A)
    BY <2>1, OneMoreHeader
  <2>7. LastOf(m, n, A, Values, {"good"}) <=>
           \/ Shows(h, A, Values) /\ h.value \in {"good"}
           \/ ~Shows(h, A, Values) /\ LastOf(m, n - 1, A, Values, {"good"})
    <3>1. {"good"} \in SUBSET Values
      BY DEF Values
    <3>. QED  BY <2>1, <3>1, OneMoreHeader
  <2>8. (Shows(h, A, Values) <=> h.colon /\ h.name = A) /\ h.value # "none"
    BY <2>1 DEF Shows, Header, Values
  <2>9. /\ hinfo.auth = "none" <=> ~HasOf(m, n - 1, A)
        /\ hinfo.auth = "good" <=> LastOf(m, n - 1, A, Values, {"good"})
    BY <1>1, <2>1 DEF PostSaid
  <2>10. /\ hinfo'.auth = "none" <=> ~HasOf(m, n, A)
         /\ hinfo'.auth = "good" <=> LastOf(m, n, A, Values, {"good"})
    <3> HIDE DEF m, h, n, A
    <3>1. CASE h.colon /\ h.name = A
      BY <2>5, <2>6, <2>7, <2>8, <3>1
    <3>2. CASE ~(h.colon /\ h.name = A)
      BY <2>5, <2>6, <2>7, <2>8, <2>9, <3>2
    <3>. QED  BY <3>1, <3>2
  <2>11. PostSaid'
    BY <2>1, <2>2, <2>10 DEF PostSaid
  <2>. QED  BY <1>3, <2>2, <2>11 DEF InGet
<1>5. CASE PostHeadersEnd
  <2>1. HeadersRead = Len(sent[req].headers)
    BY <1>5, AllHeadersRead DEF PostHeadersEnd, InHeaders
  <2>2. HeadersRead' = HeadersRead
    BY <1>5, <2>1 DEF PostHeadersEnd, client, HeadersRead, InHeaders
  <2>. QED  BY <1>1, <1>3, <1>5, <2>2 DEF PostHeadersEnd, client, PostSaid, InGet
<1>6. ASSUME sent' = sent, req' = req, pc' \in {"part_headers", "open_file", "write_file"},
             hinfo'.auth = hinfo.auth, hinfo.auth = "good", ~InHeaders
      PROVE  Said'
  <2>1. HeadersRead' = HeadersRead
    BY <1>6 DEF HeadersRead, InHeaders
  <2>. QED  BY <1>1, <1>3, <1>6, <2>1 DEF PostSaid, InGet
<1>7. CASE PostHeadersEof
  <2>1. HeadersRead' = HeadersRead
    BY <1>7 DEF PostHeadersEof, client, cursor, HeadersRead, InHeaders
  <2>. QED  BY <1>1, <1>3, <1>7, <2>1 DEF PostHeadersEof, client, PostSaid, InGet
<1>8. CASE PostUpload
  BY <1>2, <1>6, <1>8 DEF PostUpload, Authorized, client, HeaderInfo, InHeaders
<1>9. CASE PartHeader
  <2>1. \A v, w : [hinfo EXCEPT !.ibodyflag = v, !.disposition = w].auth = hinfo.auth
    BY <1>2 DEF HeaderInfo
  <2>2. hinfo'.auth = hinfo.auth
    BY <1>9, <2>1, Zenon DEF PartHeader
  <2>. QED  BY <1>1, <1>6, <1>9, <2>2 DEF PartHeader, PostSaid, client, InHeaders
<1>10. CASE PartHeadersEnd \/ OpenFile \/ WriteLine \/ WriteEof
  BY <1>1, <1>6, <1>10
     DEF PartHeadersEnd, OpenFile, WriteLine, WriteEof, PostSaid, vars, client, InHeaders
<1>11. CASE PostUnauthorized \/ PostWrongPassword \/ PostEmpty \/ WriteDone \/ WriteLastLine
            \/ OpenFileFails
  BY <1>11, SaidElsewhere
     DEF PostUnauthorized, PostWrongPassword, PostEmpty, WriteDone, WriteLastLine,
         OpenFileFails, Reply, InGet, InPost
<1>12. CASE PostHeaderCrash \/ PostGarbledCredentials \/ PostNoBoundary \/ OpenFileUnnamed
  BY <1>12, SaidElsewhere
     DEF PostHeaderCrash, PostGarbledCredentials, PostNoBoundary, OpenFileUnnamed, Crash, InGet, InPost
<1>. QED  BY <1>4, <1>5, <1>7, <1>8, <1>9, <1>10, <1>11, <1>12 DEF PostStep

LEMMA ClientSaid ==
    ASSUME TypeOK, Serving, Said, Client
    PROVE  Said'
<1>1. UNCHANGED <<pc, req, g, hinfo>> /\ ~AtEof
  BY ClientAppends DEF Client, Send, SendPartAndDisconnect, Disconnect, AtEof
<1>2. /\ InGet' = InGet /\ InPost' = InPost
      /\ InGet \/ InPost => sent'[req] = sent[req] /\ HeadersRead' = HeadersRead
  BY ClientReading
<1>3. InGet => (GetSaid => GetSaid')
  BY <1>1, <1>2 DEF GetSaid
<1>4. InPost => (PostSaid => PostSaid')
  BY <1>1, <1>2 DEF PostSaid
<1>. QED  BY <1>2, <1>3, <1>4 DEF Said

LEMMA NextSaid ==
    ASSUME NoEmptyName, NoDashedCredentials, TypeOK, Serving, Said, [Next]_vars
    PROVE  Said'
<1>1. CASE UNCHANGED vars
  BY <1>1 DEF vars, client, cursor, Said, GetSaid, PostSaid, InGet, InPost, InHeaders,
              HeadersRead, AtEof, HasLine
<1>2. CASE BrokenPipe
  BY <1>2, SaidElsewhere DEF BrokenPipe, Crash, InGet, InPost
<1>. QED  BY <1>1, <1>2, RequestStepSaid, GetStepSaid, PostStepSaid, ClientSaid
          DEF Next, Child

LEMMA InitSaid == Init => Said
BY DEF Init, Said, InGet, InPost

LEMMA MeetsKept ==
    ASSUME ResponseMeetsRequest, sent' = sent, out' = out
    PROVE  ResponseMeetsRequest'
BY DEF ResponseMeetsRequest

LEMMA MeetsReply ==
    ASSUME TypeOK, ResponseMeetsRequest, sent' = sent,
           NEW x, NEW s, out' = Append(out, [msg |-> x, status |-> s]), s \in Expected(sent[x])
    PROVE  ResponseMeetsRequest'
<1>1. out \in Seq(Response)
  BY DEF TypeOK
<1>2. [msg |-> x, status |-> s].msg = x /\ [msg |-> x, status |-> s].status = s
  OBVIOUS
<1>3. \A i \in DOMAIN out' : out'[i].status \in Expected(sent[out'[i].msg])
  BY <1>1, <1>2, OneMoreResponse DEF ResponseMeetsRequest
<1>4. \A i \in DOMAIN out' : out'[i].status \in Expected(sent'[out'[i].msg])
  BY <1>3
<1>. QED  BY <1>4 DEF ResponseMeetsRequest

\* What the headers of the message say, once all have been read.
LEMMA AllRead ==
    ASSUME TypeOK, Serving, InGet \/ InPost, ~InHeaders
    PROVE  /\ HasField(sent[req], <<"Cookie">>) <=> HasOf(sent[req], HeadersRead, <<"Cookie">>)
           /\ HasField(sent[req], <<"Authorization">>)
                 <=> HasOf(sent[req], HeadersRead, <<"Authorization">>)
           /\ LastIn(sent[req], <<"Authorization">>, Values, {"good"})
                 <=> LastOf(sent[req], HeadersRead, <<"Authorization">>, Values, {"good"})
           /\ ForeignCharset(sent[req]) <=>
                 /\ HasOf(sent[req], HeadersRead, Charset)
                 /\ ~LastOf(sent[req], HeadersRead, Charset, Values, {"ISO-8859-1"})
           /\ Malformed(sent[req]) <=> MalformedOf(sent[req], HeadersRead)
<1>1. sent[req] \in Message
  BY RequestMessage
<1>2. HeadersRead = Len(sent[req].headers)
  BY DEF HeadersRead
<1>. QED  BY <1>1, <1>2, AllHeaders DEF ForeignCharset, Charset

LEMMA RequestStepMeets ==
    ASSUME WellFramed, TypeOK, Framed, ResponseMeetsRequest, RequestStep
    PROVE  ResponseMeetsRequest'
<1>1. off = 0
  BY DEF RequestStep, StartGet, StartPost, PostUnknownUrl, MethodNotAllowed, ReadMethod,
         MisreadAsMethod, MisreadAndCrash, ReadRequestEof, Framed
<1>2. HasLine => NextLine = "request" /\ sent[cur].method # "OTHER"
  <2>1. HasLine => NextLine = "request" /\ sent[cur] \in Messages
    BY <1>1, LineAt
  <2>. QED  BY <2>1 DEF WellFramed, Framable
<1>3. CASE StartGet \/ StartPost \/ ReadRequestEof \/ MisreadAndCrash
  BY <1>3, MeetsKept DEF StartGet, StartPost, ReadRequestEof, MisreadAndCrash, Crash, client
<1>4. CASE PostUnknownUrl
  <2>1. "404url" \in Expected(sent[cur])
    BY DEF Expected
  <2>. QED  BY <1>4, <2>1, MeetsReply DEF PostUnknownUrl, client
<1>5. CASE MethodNotAllowed \/ MisreadAsMethod
  BY <1>2, <1>5 DEF MethodNotAllowed, ReadMethod, MisreadAsMethod
<1>. QED  BY <1>3, <1>4, <1>5 DEF RequestStep

\* What the globals say when a GET is answered, in the words of the message.
LEMMA GetReady ==
    ASSUME TypeOK, Serving, Said, pc \in {"get_dispatch", "get_reply"}
    PROVE  /\ sent[req].method = "GET"
           /\ g.header_err_flag <=> Malformed(sent[req])
           /\ pc = "get_reply" => ~Malformed(sent[req])
           /\ g.cookie <=> HasField(sent[req], <<"Cookie">>)
           /\ g.acceptable_charset <=> ~ForeignCharset(sent[req])
           /\ g.acceptable_text
<1>1. InGet /\ ~InHeaders
  BY DEF InGet, InHeaders
<1>2. GetSaid /\ pc # "get_headers" /\ sent[req].method = "GET"
  BY <1>1 DEF Said, Serving
<1>. QED  BY <1>1, <1>2, AllRead DEF GetSaid

LEMMA GetStepMeets ==
    ASSUME TypeOK, Serving, Said, ResponseMeetsRequest, GetStep \/ StopAtMarker
    PROVE  ResponseMeetsRequest'
<1>1. CASE GetHeader \/ GetHeaderCrash \/ GetHeadersEnd \/ GetHeadersEof
  BY <1>1, MeetsKept DEF GetHeader, GetHeaderCrash, GetHeadersEnd, GetHeadersEof, Crash, client
<1>2. CASE GetContent \/ ReadContent \/ ContentDone \/ StopAtMarker \/ GetServeEmpty
  BY <1>2, MeetsKept
     DEF GetContent, ReadContent, ContentDone, StopAtMarker, GetServeEmpty, Crash, client
<1>3. CASE GetUnknownUrl
  <2>1. "404url" \in Expected(sent[req])
    BY DEF Expected
  <2>. QED  BY <1>3, <2>1, MeetsReply DEF GetUnknownUrl, Reply, client
<1>4. ASSUME pc \in {"get_dispatch", "get_reply"}
      PROVE  /\ sent[req].method = "GET"
             /\ g.header_err_flag <=> Malformed(sent[req])
             /\ pc = "get_reply" => ~Malformed(sent[req])
             /\ g.cookie <=> HasField(sent[req], <<"Cookie">>)
             /\ g.acceptable_charset <=> ~ForeignCharset(sent[req])
             /\ g.acceptable_text
  BY <1>4, GetReady
<1>5. CASE GetBadRequest
  <2>1. sent[req].method = "GET" /\ Malformed(sent[req])
    BY <1>4, <1>5 DEF GetBadRequest
  <2>2. "400" \in Expected(sent[req])
    BY <2>1 DEF Expected, ExpectedGet
  <2>. QED  BY <1>5, <2>2, MeetsReply DEF GetBadRequest, Reply, client
<1>6. pc = "get_reply" => ~Malformed(sent[req])
  BY <1>4
<1>7. CASE GetRefuse
  <2>1. pc = "get_reply" /\ ~Served
    BY <1>7 DEF GetRefuse
  <2>2. Refusal \in Expected(sent[req])
    <3>1. CASE g.cookie
      <4>1. Refusal = "501cookie" /\ HasField(sent[req], <<"Cookie">>)
        BY <1>4, <2>1, <3>1 DEF Refusal
      <4>. QED  BY <1>4, <1>6, <2>1, <4>1 DEF Expected, ExpectedGet
    <3>2. CASE ~g.cookie
      <4>1. ~g.acceptable_charset
        BY <1>4, <2>1, <3>2 DEF Served
      <4>2. Refusal = "501charset"
        BY <1>4, <2>1, <3>2 DEF Refusal
      <4>3. ~HasField(sent[req], <<"Cookie">>) /\ ForeignCharset(sent[req])
        BY <1>4, <2>1, <3>2, <4>1
      <4>. QED  BY <1>4, <1>6, <2>1, <4>2, <4>3 DEF Expected, ExpectedGet
    <3>. QED  BY <3>1, <3>2
  <2>. QED  BY <1>7, <2>2, MeetsReply DEF GetRefuse, Reply, client
<1>8. CASE GetServe
  <2>1. PICK s \in FileStatus(sent[req].url) : Reply(s, g.keep_alive)
    BY <1>8 DEF GetServe
  <2>2. ~HasField(sent[req], <<"Cookie">>) /\ ~ForeignCharset(sent[req])
    BY <1>4, <1>8 DEF GetServe, Served
  <2>3. s \in Expected(sent[req])
    BY <1>4, <1>6, <1>8, <2>2 DEF GetServe, Expected, ExpectedGet
  <2>. QED  BY <2>1, <2>3, MeetsReply DEF Reply, client
<1>. QED  BY <1>1, <1>2, <1>3, <1>5, <1>7, <1>8 DEF GetStep

\* What the credentials of a POST say, once its headers have been read.
LEMMA PostReady ==
    ASSUME TypeOK, Serving, Said, InPost, ~InHeaders
    PROVE  /\ sent[req].method = "POST" /\ PostSaid
           /\ hinfo.auth = "none" <=> ~HasField(sent[req], <<"Authorization">>)
           /\ hinfo.auth = "good"
                 <=> LastIn(sent[req], <<"Authorization">>, Values, {"good"})
<1>1. PostSaid /\ sent[req].method = "POST"
  BY DEF Said, Serving
<1>. QED  BY <1>1, AllRead DEF PostSaid

LEMMA PostStepMeets ==
    ASSUME TypeOK, Serving, Said, ResponseMeetsRequest, PostStep
    PROVE  ResponseMeetsRequest'
<1>1. ASSUME pc \in {"post_auth", "part_headers", "open_file", "write_file"}
      PROVE  /\ sent[req].method = "POST" /\ PostSaid
             /\ hinfo.auth = "none" <=> ~HasField(sent[req], <<"Authorization">>)
             /\ hinfo.auth = "good"
                   <=> LastIn(sent[req], <<"Authorization">>, Values, {"good"})
  BY <1>1, PostReady DEF InPost, InHeaders
<1>2. CASE PostHeader \/ PostHeaderCrash \/ PostHeadersEnd \/ PostHeadersEof \/ PostGarbledCredentials
           \/ PostNoBoundary \/ PostUpload
  BY <1>2, MeetsKept
     DEF PostHeader, PostHeaderCrash, PostHeadersEnd, PostHeadersEof, PostGarbledCredentials, PostNoBoundary,
         PostUpload, Crash, client
<1>3. CASE PartHeader \/ PartHeadersEnd \/ OpenFile \/ OpenFileFails \/ OpenFileUnnamed
           \/ WriteLine
  BY <1>3, MeetsKept
     DEF PartHeader, PartHeadersEnd, OpenFile, OpenFileFails, OpenFileUnnamed, WriteLine,
         Crash, client
<1>4. CASE WriteEof
  BY <1>4, MeetsKept DEF WriteEof, vars, client
<1>5. CASE PostUnauthorized
  <2>1. "401" \in Expected(sent[req])
    BY <1>1, <1>5 DEF PostUnauthorized, Expected, ExpectedPost
  <2>. QED  BY <1>5, <2>1, MeetsReply DEF PostUnauthorized, Reply, client
<1>6. CASE PostWrongPassword
  <2>1. "401bad" \in Expected(sent[req])
    BY <1>1, <1>6 DEF PostWrongPassword, Expected, ExpectedPost
  <2>. QED  BY <1>6, <2>1, MeetsReply DEF PostWrongPassword, Reply, client
<1>7. CASE PostEmpty \/ WriteDone \/ WriteLastLine
  <2>1. hinfo.auth = "good" /\ pc \in {"post_auth", "write_file"}
    BY <1>1, <1>7 DEF PostEmpty, Authorized, WriteDone, WriteLastLine, PostSaid
  <2>2. "201" \in Expected(sent[req])
    BY <1>1, <2>1 DEF Expected, ExpectedPost
  <2>3. out' = Append(out, [msg |-> req, status |-> "201"]) /\ sent' = sent
    BY <1>7 DEF PostEmpty, WriteDone, WriteLastLine, Reply, client
  <2>. QED  BY <2>2, <2>3, MeetsReply
<1>. QED  BY <1>2, <1>3, <1>4, <1>5, <1>6, <1>7 DEF PostStep

LEMMA ClientMeets ==
    ASSUME TypeOK, Serving, ResponseMeetsRequest, Client
    PROVE  ResponseMeetsRequest'
<1>1. out' = out /\ \A i \in 1 .. Len(sent) : sent'[i] = sent[i]
  BY ClientAppends
<1>2. \A i \in DOMAIN out : sent'[out[i].msg] = sent[out[i].msg]
  BY <1>1 DEF Serving
<1>. QED  BY <1>1, <1>2 DEF ResponseMeetsRequest

LEMMA NextMeets ==
    ASSUME WellFramed, TypeOK, Serving, Framed, Said, ResponseMeetsRequest, [Next]_vars
    PROVE  ResponseMeetsRequest'
<1>1. CASE UNCHANGED vars
  BY <1>1, MeetsKept DEF vars, client
<1>2. CASE BrokenPipe
  BY <1>2, MeetsKept DEF BrokenPipe, Crash, client
<1>. QED  BY <1>1, <1>2, RequestStepMeets, GetStepMeets, PostStepMeets, ClientMeets
          DEF Next, Child

\* For the same clients: each response is what its own message calls for, by
\* its method, its headers and its url, whatever the requests before it were.
\* (Headers have names, and credentials are not taken for a delimiter.)
THEOREM ResponsesMeetRequests ==
    ASSUME WellFramed, NoEmptyName, NoDashedCredentials
    PROVE  Spec => []ResponseMeetsRequest
<1> DEFINE Inv == TypeOK /\ Serving /\ Framed /\ Said /\ ResponseMeetsRequest
<1>1. Inv /\ [Next]_vars => Inv'
  BY NextType, NextServing, NextFramed, NextSaid, NextMeets
<1>2. Init => Inv
  <2>1. Init => ResponseMeetsRequest
    BY DEF Init, ResponseMeetsRequest
  <2>. QED  BY <2>1, InitType, InitServing, InitFramed, InitSaid
<1>3. Inv => ResponseMeetsRequest
  OBVIOUS
<1>. QED  BY <1>1, <1>2, <1>3, PTL DEF Spec

(***************************************************************************)
(* The promise to the client: HttpService.  Two more invariants: no line   *)
(* is read that has not arrived, and what is kept of the headers is what   *)
(* an upload needs.                                                        *)
(***************************************************************************)
LastSent == sent[Len(sent)]

\* A client that stays has sent whole messages, and the child is no further
\* than what has been sent.
Consumed ==
    /\ sent # <<>> => lastLines \in 1 .. NumLines(LastSent)
    /\ sent # <<>> /\ ~closed => lastLines = NumLines(LastSent)
    /\ sent # <<>> /\ cur > Len(sent) => lastLines = NumLines(LastSent)
    /\ cur = Len(sent) => off <= lastLines

\* None of the headers read looks like a delimiter.
NoDashes == \A i \in 1 .. HeadersRead : ~LooksLikeDelimiter(sent[req].headers[i])
Boundaries == {"multipart24", "multipart4"}

\* Credentials that are kept and are neither good nor wrong are those the headers
\* read so far gave last, and the boundary they gave is kept.
Oddities == Values \ {"good", "wrong"}
HeadFit ==
    /\ hinfo.auth \in Oddities =>
          LastOf(sent[req], HeadersRead, <<"Authorization">>, Values, Oddities)
    /\ NoDashes => ~hinfo.ibodyflag
    /\ NoDashes /\ LastOf(sent[req], HeadersRead, <<"Content", "Type">>, Values, Boundaries)
          => hinfo.boundary

\* The flags that record a delimiter and a disposition are set by those lines
\* of the part.
PartFit ==
    /\ (\E i \in 1 .. LineHere - 1 : sent[req].body[i] = "delim26") => hinfo.ibodyflag
    /\ \A j \in 1 .. LineHere - 1 : NamesFileAt(sent[req].body, j) => hinfo.disposition

Fit ==
    /\ pc \in {"post_headers", "post_auth"} => HeadFit
    /\ pc = "post_auth" => cur > req \/ (cur = req /\ off = ReqHeaders + 2)
    /\ pc = "part_headers" => PartFit
    /\ pc = "open_file" /\ NamesFile(sent[req].body) => hinfo.disposition

\* The child leaves the stream where it is, or reads a line that has arrived.
LEMMA ChildReads ==
    ASSUME Child \/ StopAtMarker \/ BrokenPipe
    PROVE  UNCHANGED client /\ (UNCHANGED cursor \/ (HasLine /\ ReadLine))
<1>1. CASE RequestStep
  BY <1>1 DEF RequestStep, StartGet, StartPost, PostUnknownUrl, MethodNotAllowed, ReadMethod,
              MisreadAsMethod, MisreadAndCrash, Crash, ReadRequestEof
<1>2. CASE GetStep \/ StopAtMarker
  BY <1>2 DEF GetStep, GetHeader, GetHeaderCrash, GetHeadersEnd, GetHeadersEof, GetUnknownUrl,
              GetBadRequest, GetContent, ReadContent, ContentDone, GetRefuse, GetServe,
              GetServeEmpty, StopAtMarker, Reply, Crash
<1>3. CASE PostStep
  BY <1>3 DEF PostStep, PostHeader, PostHeaderCrash, PostHeadersEnd, PostHeadersEof, PostUnauthorized,
              PostWrongPassword, PostGarbledCredentials, PostEmpty, PostNoBoundary, PostUpload,
              PartHeader, PartHeadersEnd, OpenFile, OpenFileFails, OpenFileUnnamed,
              WriteLine, WriteLastLine, WriteDone, WriteEof, Reply, Crash, vars
<1>4. CASE BrokenPipe
  BY <1>4 DEF BrokenPipe, Crash
<1>. QED  BY <1>1, <1>2, <1>3, <1>4 DEF Child

LEMMA ReadConsumed ==
    ASSUME TypeOK, Consumed, UNCHANGED client, HasLine, ReadLine
    PROVE  Consumed'
<1>1. /\ Len(sent) \in Nat /\ cur \in 1 .. Len(sent) /\ off \in Nat /\ lastLines \in Nat
      /\ cur < Len(sent) \/ off < lastLines
      /\ sent # <<>> /\ sent[cur] \in Message
  BY LineAt DEF TypeOK, HasLine
<1>2. UNCHANGED <<sent, lastLines, closed, LastSent>>
  BY DEF client, LastSent
<1>3. NumLines(sent[cur]) \in Nat
  BY <1>1, MessageLines
<1>4. cur = Len(sent) => LastSent = sent[cur]
  BY DEF LastSent
<1>5. lastLines \in 1 .. NumLines(LastSent) /\ (~closed => lastLines = NumLines(LastSent))
  BY <1>1 DEF Consumed
<1>6. CASE off + 1 = NumLines(sent[cur])
  <2>1. cur' = cur + 1 /\ off' = 0
    BY <1>6 DEF ReadLine
  <2>2. cur = Len(sent) => lastLines = NumLines(LastSent)
    BY <1>1, <1>3, <1>4, <1>5, <1>6
  <2>3. cur' > Len(sent) => cur = Len(sent)
    BY <1>1, <2>1
  <2>. HIDE DEF LastSent
  <2>. QED  BY <1>1, <1>2, <1>5, <2>1, <2>2, <2>3 DEF Consumed
<1>7. CASE off + 1 # NumLines(sent[cur])
  <2>1. cur' = cur /\ off' = off + 1
    BY <1>7 DEF ReadLine
  <2>2. ~(cur' > Len(sent)) /\ (cur' = Len(sent) => off' <= lastLines)
    BY <1>1, <2>1
  <2>. QED  BY <1>1, <1>2, <1>5, <2>2 DEF Consumed
<1>. QED  BY <1>6, <1>7

LEMMA ClientConsumed ==
    ASSUME TypeOK, Consumed, Client
    PROVE  Consumed'
<1>1. sent \in Seq(Messages) /\ Len(sent) \in Nat /\ cur \in 1 .. Len(sent) + 1 /\ off \in Nat
      /\ (cur = Len(sent) + 1 => off = 0)
  BY DEF TypeOK, CursorInStream
<1>2. UNCHANGED <<cur, off>>
  BY ClientAppends DEF cursor
<1>3. CASE Disconnect
  BY <1>2, <1>3 DEF Disconnect, Consumed, LastSent
<1>4. ASSUME NEW m \in Messages, sent' = Append(sent, m), lastLines' \in 1 .. NumLines(m),
             ~closed, closed' \/ lastLines' = NumLines(m)
      PROVE  Consumed'
  <2>1. Len(sent') = Len(sent) + 1 /\ sent'[Len(sent')] = m
    BY <1>1, <1>4
  <2>2. LastSent' = m
    BY <2>1 DEF LastSent
  <2>3. ~(cur' > Len(sent')) /\ (cur' = Len(sent') => off' = 0)
    BY <1>1, <1>2, <2>1
  <2>4. NumLines(m) \in Nat
    BY MessageLines, SessionAssumption
  <2>5. lastLines' \in 1 .. NumLines(LastSent') /\ 0 <= lastLines'
        /\ (~closed' => lastLines' = NumLines(LastSent'))
    BY <1>4, <2>2, <2>4
  <2>. QED  BY <2>3, <2>5 DEF Consumed
<1>5. ASSUME NEW m \in Messages, Send(m) PROVE Consumed'
  <2>1. NumLines(m) \in Nat /\ NumLines(m) >= 2
    BY MessageLines, SessionAssumption
  <2>2. lastLines' \in 1 .. NumLines(m) /\ lastLines' = NumLines(m)
    BY <1>5, <2>1 DEF Send
  <2>. QED  BY <1>4, <1>5, <2>2 DEF Send
<1>6. ASSUME NEW m \in Messages, SendPartAndDisconnect(m) PROVE Consumed'
  <2>1. NumLines(m) \in Nat /\ NumLines(m) >= 2
    BY MessageLines, SessionAssumption
  <2>2. lastLines' \in 1 .. NumLines(m)
    BY <1>6, <2>1 DEF SendPartAndDisconnect
  <2>. QED  BY <1>4, <1>6, <2>2 DEF SendPartAndDisconnect
<1>. QED  BY <1>3, <1>5, <1>6 DEF Client

LEMMA NextConsumed ==
    ASSUME TypeOK, Consumed, [Next]_vars
    PROVE  Consumed'
<1>1. CASE UNCHANGED client /\ UNCHANGED cursor
  BY <1>1 DEF client, cursor, Consumed, LastSent
<1>2. CASE UNCHANGED vars
  BY <1>1, <1>2 DEF vars
<1>3. CASE Child \/ StopAtMarker \/ BrokenPipe
  BY <1>1, <1>3, ChildReads, ReadConsumed
<1>. QED  BY <1>2, <1>3, ClientConsumed DEF Next

LEMMA InitConsumed == Init => Consumed
BY DEF Init, Consumed

\* What a header of a POST does to the boundary, as long as none looks like a
\* delimiter.
LEMMA PostHeaderBoundary ==
    ASSUME hinfo \in HeaderInfo, NEW h \in Header, h.name # <<>>, ~LooksLikeDelimiter(h),
           ~hinfo.ibodyflag, NEW e, e = PostHeaderEffect(h)
    PROVE  /\ e.ibodyflag = hinfo.ibodyflag
           /\ e.boundary = IF h.colon /\ h.name = <<"Content", "Type">>
                           THEN h.value \in Boundaries ELSE hinfo.boundary
<1>0. PICK f : f = Field(PostFields, h.name)
  OBVIOUS
<1>1. f = <<"Content", "Type">> <=> h.name = <<"Content", "Type">>
  <2>1. h.name \in Seq(STRING)
    BY DEF Header
  <2>. QED  BY <1>0, <2>1, ContentTypeFound
<1>2. \A v : \A c \in {"ibodyflag", "boundary"} :
           /\ [hinfo EXCEPT !.auth = v][c] = hinfo[c]
           /\ [hinfo EXCEPT !.icontent_length = v][c] = hinfo[c]
           /\ [hinfo EXCEPT !.boundary = v][c] = IF c = "boundary" THEN v ELSE hinfo[c]
  BY DEF HeaderInfo
<1> USE PostFieldsDiffer
<1>3. CASE h.colon /\ f = <<"Authorization">>
  <2>1. e = [hinfo EXCEPT !.auth = h.value]
    BY <1>0, <1>3, Zenon DEF PostHeaderEffect
  <2>2. h.name # <<"Content", "Type">>
    BY <1>1, <1>3
  <2>. QED  BY <1>2, <2>1, <2>2
<1>4. CASE h.colon /\ f = <<"Content", "Length">>
  <2>1. e = [hinfo EXCEPT !.icontent_length = Len(sent[cur].body)]
    BY <1>0, <1>4, Zenon DEF PostHeaderEffect
  <2>2. h.name # <<"Content", "Type">>
    BY <1>1, <1>4
  <2>. QED  BY <1>2, <2>1, <2>2
<1>5. CASE h.colon /\ f = <<"Content", "Type">>
  <2>1. e = [hinfo EXCEPT !.boundary = h.value \in {"multipart24", "multipart4"}]
    BY <1>0, <1>5, Zenon DEF PostHeaderEffect
  <2>. QED  BY <1>1, <1>2, <1>5, <2>1 DEF Boundaries
<1>6. CASE ~(h.colon /\ f \in {<<"Authorization">>, <<"Content", "Length">>, <<"Content", "Type">>})
  <2>1. e = hinfo
    BY <1>0, <1>6, Zenon DEF PostHeaderEffect
  <2>. QED  BY <1>1, <1>6, <2>1
<1>. QED  BY <1>3, <1>4, <1>5, <1>6, Zenon

\* Fit says nothing of a child elsewhere.
LEMMA FitElsewhere ==
    ASSUME pc' \notin {"post_headers", "post_auth", "part_headers", "open_file"}
    PROVE  Fit'
BY DEF Fit

LEMMA PostHeaderFit ==
    ASSUME NoEmptyName, NoDashedCredentials, TypeOK, Serving, Fit, PostHeader
    PROVE  Fit'
<1> DEFINE n == off
           h == sent[req].headers[n]
           m == sent[req]
           A == <<"Authorization">>
           C == <<"Content", "Type">>
<1>1. /\ HeadersRead = n - 1 /\ HeadersRead' = n /\ n \in Nat \ {0}
      /\ NextHeader = h /\ h \in Header /\ h.name # <<>>
      /\ ~Shows(h, A, {"multipart27"})
  <2>1. InHeaders /\ sent' = sent
    BY DEF PostHeader, InHeaders, client
  <2>. QED  BY <2>1, HeaderRead DEF PostHeader, NoEmptyName, NoDashedCredentials
<1>2. /\ hinfo' = PostHeaderEffect(h) /\ sent' = sent /\ req' = req /\ pc' = "post_headers"
      /\ pc = "post_headers" /\ hinfo \in HeaderInfo
  BY <1>1 DEF PostHeader, client, TypeOK
<1>3. HeadFit
  BY <1>2 DEF Fit
<1>4. /\ Oddities \in SUBSET Values /\ Boundaries \in SUBSET Values
      /\ \A name : Shows(h, name, Values) <=> h.colon /\ h.name = name
  BY <1>1 DEF Values, Boundaries, Oddities, Shows, Header
<1>5. /\ LastOf(m, n, A, Values, Oddities) <=>
            \/ Shows(h, A, Values) /\ h.value \in Oddities
            \/ ~Shows(h, A, Values) /\ LastOf(m, n - 1, A, Values, Oddities)
      /\ LastOf(m, n, C, Values, Boundaries) <=>
            \/ Shows(h, C, Values) /\ h.value \in Boundaries
            \/ ~Shows(h, C, Values) /\ LastOf(m, n - 1, C, Values, Boundaries)
  BY <1>1, <1>4, OneMoreHeader
<1>6. hinfo'.auth \in Oddities => LastOf(m, n, A, Values, Oddities)
  <2>1. /\ ~LooksLikeDelimiter(h) =>
              hinfo'.auth = IF h.colon /\ h.name = A THEN h.value ELSE hinfo.auth
        /\ LooksLikeDelimiter(h) => hinfo'.auth = hinfo.auth
    BY <1>1, <1>2, PostHeaderMeaning
  <2>2. h.colon /\ h.name = A => ~LooksLikeDelimiter(h)
    BY <1>1 DEF Shows, LooksLikeDelimiter
  <2>3. hinfo.auth \in Oddities => LastOf(m, n - 1, A, Values, Oddities)
    BY <1>1, <1>3 DEF HeadFit
  <2>. HIDE DEF m, h, n, A
  <2>4. CASE h.colon /\ h.name = A
    BY <1>4, <1>5, <2>1, <2>2, <2>4
  <2>5. CASE ~(h.colon /\ h.name = A)
    BY <1>4, <1>5, <2>1, <2>3, <2>5
  <2>. QED  BY <2>4, <2>5
<1>7. ASSUME NoDashes'
      PROVE  /\ ~hinfo'.ibodyflag
             /\ LastOf(m, n, C, Values, Boundaries) => hinfo'.boundary
  <2>1. \A i \in 1 .. n : ~LooksLikeDelimiter(m.headers[i])
    BY <1>1, <1>2, <1>7 DEF NoDashes
  <2>2. ~LooksLikeDelimiter(h) /\ NoDashes
    BY <1>1, <2>1 DEF NoDashes
  <2>3. ~hinfo.ibodyflag
    BY <1>3, <2>2 DEF HeadFit
  <2>4. LastOf(m, n - 1, C, Values, Boundaries) => hinfo.boundary
    BY <1>1, <1>3, <2>2 DEF HeadFit
  <2>5. /\ hinfo'.ibodyflag = hinfo.ibodyflag
        /\ hinfo'.boundary = IF h.colon /\ h.name = C THEN h.value \in Boundaries
                                                      ELSE hinfo.boundary
    BY <1>1, <1>2, <2>2, <2>3, PostHeaderBoundary
  <2>. HIDE DEF m, h, n, C
  <2>6. CASE h.colon /\ h.name = C
    BY <1>4, <1>5, <2>3, <2>5, <2>6
  <2>7. CASE ~(h.colon /\ h.name = C)
    BY <1>4, <1>5, <2>3, <2>4, <2>5, <2>7
  <2>. QED  BY <2>6, <2>7
<1>8. HeadFit'
  BY <1>1, <1>2, <1>6, <1>7 DEF HeadFit
<1>. QED  BY <1>2, <1>8 DEF Fit

\* A line of the headers of the part.
LEMMA PartLine ==
    ASSUME TypeOK, Serving, Framed, pc = "part_headers", HasLine, ReadLine,
           sent' = sent, req' = req
    PROVE  /\ LineHere \in Nat \ {0} /\ NextLine = sent[req].body[LineHere] /\ cur = req
           /\ LineHere' = LineHere + 1 /\ cur' = req
<1>1. InPost
  BY DEF InPost
<1>2. PICK k \in Nat : cur = req /\ UploadBody(sent[req].body, k) /\ LineHere \in 1 .. k
  BY DEF Framed, PostFramed, InUploadAt
<1>3. k \in 1 .. ReqBody - 1 /\ ReqBody \in Nat
  BY <1>1, <1>2, RequestMessage DEF UploadBody, ReqBody
<1>4. LineHere # ReqBody /\ LineHere >= 1 /\ LineHere \in Nat \ {0}
  BY <1>2, <1>3
<1>. QED  BY <1>1, <1>2, <1>4, UploadLine, UploadLineRead

LEMMA PartHeaderFit ==
    ASSUME TypeOK, Serving, Framed, Fit, PartHeader
    PROVE  Fit'
<1> DEFINE b == sent[req].body
           p == LineHere
<1>1. /\ pc = "part_headers" /\ pc' = pc /\ sent' = sent /\ req' = req
      /\ HasLine /\ ReadLine /\ hinfo \in HeaderInfo
      /\ hinfo' = [hinfo EXCEPT
                     !.ibodyflag = @ \/ IsDelimiter,
                     !.disposition = @ \/ (NextLine = "part_header" /\ hinfo.ibodyflag)]
  BY DEF PartHeader, client, TypeOK
<1>2. /\ p \in Nat \ {0} /\ NextLine = b[p] /\ LineHere' = p + 1
  BY <1>1, PartLine
<1>3. PartFit
  BY <1>1 DEF Fit
<1>4. /\ hinfo'.ibodyflag <=> hinfo.ibodyflag \/ IsDelimiter
      /\ hinfo'.disposition <=> hinfo.disposition
                                   \/ (NextLine = "part_header" /\ hinfo.ibodyflag)
  <2>1. \A v, w : /\ [hinfo EXCEPT !.ibodyflag = v, !.disposition = w].ibodyflag = v
                  /\ [hinfo EXCEPT !.ibodyflag = v, !.disposition = w].disposition = w
    BY <1>1 DEF HeaderInfo
  <2>. QED  BY <1>1, <2>1, Zenon
<1>5. b[p] = "delim26" => IsDelimiter
  BY <1>2 DEF IsDelimiter
<1>. HIDE DEF b, p
<1>6. \A i \in 1 .. (p + 1) - 1 : i \in 1 .. p - 1 \/ i = p
  BY <1>2
<1>7. (\E i \in 1 .. (p + 1) - 1 : b[i] = "delim26") => hinfo'.ibodyflag
  BY <1>3, <1>4, <1>5, <1>6 DEF PartFit, b, p
<1>8. ASSUME NEW j \in 1 .. (p + 1) - 1, NamesFileAt(b, j)
      PROVE  hinfo'.disposition
  <2>1. CASE j \in 1 .. p - 1
    BY <1>3, <1>4, <1>8, <2>1 DEF PartFit, b, p
  <2>2. CASE j = p
    <3>1. b[p] = "part_header" /\ \E i \in 1 .. p - 1 : b[i] = "delim26"
      BY <1>8, <2>2 DEF NamesFileAt
    <3>2. hinfo.ibodyflag
      BY <1>3, <3>1 DEF PartFit, b, p
    <3>. QED  BY <1>2, <1>4, <3>1, <3>2
  <2>. QED  BY <1>6, <1>8, <2>1, <2>2
<1>9. PartFit'
  <2>1. sent'[req'].body = b /\ LineHere' - 1 = (p + 1) - 1
    BY <1>1, <1>2 DEF b
  <2>. QED  BY <1>7, <1>8, <2>1 DEF PartFit
<1>. QED  BY <1>1, <1>9 DEF Fit

LEMMA PartHeadersEndFit ==
    ASSUME TypeOK, Serving, Framed, Fit, PartHeadersEnd
    PROVE  Fit'
<1> DEFINE b == sent[req].body
<1>1. /\ pc = "part_headers" /\ pc' = "open_file" /\ sent' = sent /\ req' = req
      /\ HasLine /\ ReadLine /\ NextLine = "blank" /\ hinfo' = hinfo
  BY DEF PartHeadersEnd, client
<1>2. LineHere \in Nat \ {0} /\ b[LineHere] = "blank"
  BY <1>1, PartLine
<1>3. PartFit
  BY <1>1 DEF Fit
<1>4. ASSUME NamesFile(b) PROVE hinfo.disposition
  <2>1. b \in Seq(BodyLines)
    BY <1>1, RequestMessage DEF InPost
  <2>2. PICK j \in DOMAIN b : NamesFileAt(b, j)
    BY <1>4 DEF NamesFile
  <2>3. j \in Nat \ {0} /\ ~(LineHere \in 1 .. j)
    BY <1>2, <2>1, <2>2 DEF NamesFileAt
  <2>4. j \in 1 .. LineHere - 1
    BY <1>2, <2>3
  <2>. QED  BY <1>3, <2>2, <2>4 DEF PartFit
<1>. QED  BY <1>1, <1>4 DEF Fit

LEMMA PostStepFit ==
    ASSUME NoEmptyName, NoDashedCredentials, TypeOK, Serving, Framed, Fit, PostStep
    PROVE  Fit'
<1>1. CASE PostHeadersEnd
  <2>1. /\ pc = "post_headers" /\ pc' = "post_auth" /\ hinfo' = hinfo /\ sent' = sent
        /\ req' = req /\ HasLine /\ ReadLine /\ NextLine = "blank" /\ InHeaders /\ InPost
    BY <1>1 DEF PostHeadersEnd, client, InHeaders, InPost
  <2>2. HeadersRead = ReqHeaders /\ off = NHeaders + 1 /\ cur = req /\ ReqHeaders' = ReqHeaders
    BY <2>1, AllHeadersRead DEF ReqHeaders
  <2>3. HeadersRead' = HeadersRead
    BY <2>1, <2>2 DEF HeadersRead, InHeaders, ReqHeaders
  <2>4. HeadFit'
    BY <2>1, <2>3 DEF Fit, HeadFit, NoDashes
  <2>5. NHeaders = ReqHeaders /\ NHeaders \in Nat /\ cur \in Nat
    BY <2>1, <2>2, RequestMessage, LineAt
  <2>6. cur' > req' \/ (cur' = req' /\ off' = ReqHeaders' + 2)
    BY <2>1, <2>2, <2>5, LineRead
  <2>. QED  BY <2>1, <2>4, <2>6 DEF Fit
<1>2. CASE PostHeadersEof
  <2>1. UNCHANGED <<pc, sent, req, cur, off, hinfo>> /\ pc # "open_file"
    BY <1>2 DEF PostHeadersEof, client, cursor
  <2>. QED  BY <2>1 DEF Fit, HeadFit, NoDashes, PartFit, LineHere, ReqHeaders, HeadersRead,
                        InHeaders
<1>3. CASE PostUpload
  <2>1. /\ pc = "post_auth" /\ hinfo.auth = "good" /\ hinfo.icontent_length > 0
        /\ pc' = "part_headers" /\ UNCHANGED <<sent, cur, off, req>> /\ hinfo \in HeaderInfo
    BY <1>3 DEF PostUpload, Authorized, client, cursor, TypeOK
  <2>2. LineHere = 1
    BY <2>1 DEF Framed, PostFramed, HeaderInfo
  <2>3. LineHere' = 1
    BY <2>1, <2>2 DEF LineHere, ReqHeaders
  <2>4. \A i : i \notin 1 .. LineHere' - 1
    BY <2>3
  <2>. QED  BY <2>1, <2>4 DEF Fit, PartFit
<1>4. CASE PostHeaderCrash \/ PostUnauthorized \/ PostWrongPassword \/ PostGarbledCredentials \/ PostEmpty
           \/ PostNoBoundary \/ OpenFile \/ OpenFileFails \/ OpenFileUnnamed
           \/ WriteLine \/ WriteLastLine \/ WriteDone \/ WriteEof
  BY <1>4, FitElsewhere
     DEF PostHeaderCrash, PostUnauthorized, PostWrongPassword, PostGarbledCredentials, PostEmpty,
         PostNoBoundary, OpenFile, OpenFileFails, OpenFileUnnamed, WriteLine, WriteLastLine,
         WriteDone, WriteEof, Reply, Crash, vars
<1>. QED  BY <1>1, <1>2, <1>3, <1>4, PostHeaderFit, PartHeaderFit, PartHeadersEndFit
          DEF PostStep

LEMMA NextFit ==
    ASSUME NoEmptyName, NoDashedCredentials, TypeOK, Serving, Framed, Fit, [Next]_vars
    PROVE  Fit'
<1>1. CASE UNCHANGED vars
  BY <1>1 DEF vars, client, cursor, Fit, HeadFit, NoDashes, PartFit, LineHere, ReqHeaders,
              HeadersRead, InHeaders
<1>2. CASE RequestStep
  <2>1. CASE StartPost
    <3>1. HeadersRead' = 0
      BY <2>1, LineAt, RequestLine DEF StartPost, ReadMethod, HeadersRead, InHeaders
    <3>2. hinfo' = NoHeaderInfo /\ pc' = "post_headers"
      BY <2>1 DEF StartPost
    <3>3. HeadFit'
      BY <3>1, <3>2, NoHeaders DEF HeadFit, NoHeaderInfo, Oddities, Values
    <3>. QED  BY <3>2, <3>3 DEF Fit
  <2>2. CASE StartGet \/ PostUnknownUrl \/ MethodNotAllowed \/ MisreadAsMethod
             \/ MisreadAndCrash \/ ReadRequestEof
    BY <2>2, FitElsewhere
       DEF StartGet, PostUnknownUrl, MethodNotAllowed, ReadMethod, MisreadAsMethod,
           MisreadAndCrash, Crash, ReadRequestEof
  <2>. QED  BY <1>2, <2>1, <2>2 DEF RequestStep
<1>3. CASE GetStep \/ StopAtMarker \/ BrokenPipe
  BY <1>3, FitElsewhere
     DEF GetStep, GetHeader, GetHeaderCrash, GetHeadersEnd, GetHeadersEof, GetUnknownUrl,
         GetBadRequest, GetContent, ReadContent, ContentDone, GetRefuse, GetServe,
         GetServeEmpty, StopAtMarker, BrokenPipe, Reply, Crash
<1>4. CASE Client
  <2>1. UNCHANGED <<cur, off, pc, req, hinfo>>
    BY <1>4, ClientAppends DEF cursor
  <2>2. CASE InPost
    <3>1. sent'[req] = sent[req] /\ HeadersRead' = HeadersRead
      BY <1>4, <2>2, ClientReading
    <3>. QED  BY <2>1, <3>1 DEF Fit, HeadFit, NoDashes, PartFit, LineHere, ReqHeaders
  <2>3. CASE ~InPost
    BY <2>1, <2>3, FitElsewhere DEF InPost
  <2>. QED  BY <2>2, <2>3
<1>. QED  BY <1>1, <1>2, <1>3, <1>4, PostStepFit DEF Next, Child

LEMMA InitFit == Init => Fit
BY DEF Init, Fit

Answers == [i \in DOMAIN out |-> out[i].status]
\* How many lines of the i-th message have arrived.
Came(i) == IF i < Len(sent) THEN NumLines(sent[i]) ELSE lastLines

\* To the service, a step of the child that sends nothing and does not end it
\* is none.
LEMMA SilentMaps ==
    ASSUME UNCHANGED client, out' = out, Life' = Life
    PROVE  UNCHANGED Service!vars
BY DEF Service!vars, client

LEMMA ClientMaps ==
    ASSUME TypeOK, Client
    PROVE  Service!Next
<1>1. UNCHANGED <<pc, out>>
  BY ClientAppends
<1>2. UNCHANGED <<Life, Answers>>
  BY <1>1 DEF Life, Answers
<1>3. CASE Disconnect
  <2>1. Service!Disconnect
    BY <1>2, <1>3 DEF Disconnect, Service!Disconnect, Answers
  <2>. QED  BY <2>1 DEF Service!Next
<1>4. ASSUME NEW m \in Messages, NEW lines \in 1 .. NumLines(m), ~closed, Len(sent) < MaxMessages,
             sent' = Append(sent, m), lastLines' = lines, closed' = (lines < NumLines(m))
      PROVE  Service!Next
  <2>1. Service!Send(m, lines)
    BY <1>2, <1>4 DEF Service!Send, Answers
  <2>. QED  BY <2>1 DEF Service!Next
<1>5. ASSUME NEW m \in Messages, Send(m) PROVE Service!Next
  <2>1. NumLines(m) \in Nat /\ NumLines(m) >= 2
    BY MessageLines, SessionAssumption
  <2>2. NumLines(m) \in 1 .. NumLines(m) /\ ~(NumLines(m) < NumLines(m))
    BY <2>1
  <2>3. closed' = (NumLines(m) < NumLines(m))
    BY <1>5, <2>2 DEF Send, TypeOK
  <2>. QED  BY <1>4, <1>5, <2>2, <2>3 DEF Send
<1>6. ASSUME NEW m \in Messages, SendPartAndDisconnect(m) PROVE Service!Next
  <2>1. NumLines(m) \in Nat
    BY MessageLines, SessionAssumption
  <2>2. lastLines' \in 1 .. NumLines(m) /\ (lastLines' < NumLines(m)) = TRUE
    BY <1>6, <2>1 DEF SendPartAndDisconnect
  <2>. QED  BY <1>4, <1>6, <2>2 DEF SendPartAndDisconnect
<1>. QED  BY <1>3, <1>5, <1>6 DEF Client

\* A response appended is a status appended.
LEMMA AnswersAppend ==
    ASSUME out \in Seq(Response), NEW x, NEW s, out' = Append(out, [msg |-> x, status |-> s])
    PROVE  Answers' = Append(Answers, s) /\ Len(Answers) = Len(out)
<1>1. Answers \in Seq(Statuses) /\ Len(Answers) = Len(out)
  <2>1. DOMAIN out = 1 .. Len(out) /\ Len(out) \in Nat
    OBVIOUS
  <2>3. \A i \in 1 .. Len(out) : out[i] \in Response
    OBVIOUS
  <2>4. \A i \in 1 .. Len(out) : out[i].status \in Statuses
    BY <2>3 DEF Response
  <2>2. Answers = [i \in 1 .. Len(out) |-> out[i].status]
    BY <2>1 DEF Answers
  <2>. QED  BY <2>1, <2>2, <2>4
<1>2. [msg |-> x, status |-> s].status = s
  OBVIOUS
<1>3. /\ DOMAIN out' = 1 .. Len(out) + 1 /\ out'[Len(out) + 1].status = s
      /\ \A i \in 1 .. Len(out) : out'[i] = out[i]
  BY <1>2, OneMoreResponse
<1>. QED  BY <1>1, <1>3 DEF Answers

\* A response is one the service may give: it answers the next message, as it
\* calls for, ends the child when it closes, and comes when enough has arrived.
LEMMA ReplyMaps ==
    ASSUME TypeOK, UNCHANGED client, pc \notin {"exited", "crashed"}, pc' # "crashed",
           NEW x, NEW s, out' = Append(out, [msg |-> x, status |-> s]),
           OneResponsePerRequest', ResponseMeetsRequest', ExitIffClosing',
           x \in 1 .. Len(sent), Came(x) >= Needs(sent[x], s)
    PROVE  Service!Next
<1> DEFINE r == [msg |-> x, status |-> s]
<1>1. r.msg = x /\ r.status = s /\ out' = Append(out, r)
  OBVIOUS
<1> HIDE DEF r
<1>2. /\ Len(out) + 1 \in DOMAIN out' /\ Len(out') = Len(out) + 1 /\ Len(out) \in Nat
      /\ out'[Len(out')] = r /\ out'[Len(out) + 1] = r /\ out' # <<>>
  BY <1>1, OneMoreResponse DEF TypeOK
<1>3. x = Len(out) + 1
  BY <1>1, <1>2 DEF OneResponsePerRequest
<1>4. /\ sent' = sent /\ lastLines' = lastLines /\ closed' = closed
  BY DEF client
<1>5. s \in Expected(sent[x])
  BY <1>1, <1>2, <1>4 DEF ResponseMeetsRequest
<1>6. Closes(sent[x], s) <=> pc' = "exited"
  <2>1. MustClose(r)' <=> Closes(sent[x], s)
    BY <1>1, <1>4 DEF MustClose, Closes, AsksClose, LastIn
  <2>. QED  BY <1>1, <1>2, <2>1 DEF ExitIffClosing
<1>7. Life = "open" /\ Life' = IF Closes(sent[x], s) THEN "ended" ELSE "open"
  BY <1>6 DEF Life
<1>8. Answers' = Append(Answers, s) /\ Len(Answers) = Len(out)
  BY AnswersAppend DEF TypeOK
<1>9. Service!Turn = x /\ Service!LinesHere(x) = Came(x)
  BY <1>3, <1>8 DEF Service!Turn, Service!LinesHere, Came, Answers
<1>10. sent[x] \in Messages
  BY DEF TypeOK
<1>11. Service!Answer(s)
  <2>1. Service!Turn <= Len(sent)
    BY <1>9
  <2>. QED  BY <1>4, <1>5, <1>7, <1>8, <1>9, <2>1 DEF Service!Answer, Answers
<1>. QED  BY <1>5, <1>10, <1>11 DEF Service!Next

\* A response never needs more than the whole message.
LEMMA NeedsLines ==
    ASSUME NEW m \in Message, NEW s
    PROVE  /\ s = "201" => Needs(m, s) = NumLines(m)
           /\ s = "404url" /\ m.method = "POST" => Needs(m, s) = 1
           /\ s \notin {"201", "404url"} => Needs(m, s) = Len(m.headers) + 2
           /\ Needs(m, s) \in Nat
           /\ Needs(m, s) <= NumLines(m)
<1>1. /\ Len(m.headers) \in Nat /\ Len(m.body) \in Nat
      /\ NumLines(m) = Len(m.headers) + 2 + Len(m.body) /\ NumLines(m) \in Nat
  BY MessageLines
<1>0. 1 \in Nat /\ 1 <= NumLines(m) /\ Len(m.headers) + 2 \in Nat
      /\ Len(m.headers) + 2 <= NumLines(m) /\ NumLines(m) <= NumLines(m)
  <2> DEFINE h == Len(m.headers)
             b == Len(m.body)
             n == NumLines(m)
  <2>1. h \in Nat /\ b \in Nat /\ n = h + 2 + b
    BY <1>1
  <2> HIDE DEF h, b, n
  <2>2. 1 \in Nat /\ 1 <= n /\ h + 2 \in Nat /\ h + 2 <= n /\ n <= n
    BY <2>1
  <2>. QED  BY <2>2 DEF h, n
<1>2. CASE s = "201"
  <2>1. Needs(m, s) = NumLines(m)
    BY <1>2 DEF Needs
  <2>. QED  BY <1>0, <1>1, <1>2, <2>1, Zenon
<1>3. CASE s = "404url" /\ m.method = "POST"
  <2>1. Needs(m, s) = 1
    BY <1>3 DEF Needs
  <2>. QED  BY <1>0, <1>3, <2>1, Zenon
<1>4. CASE s # "201" /\ ~(s = "404url" /\ m.method = "POST")
  <2>1. Needs(m, s) = Len(m.headers) + 2
    BY <1>4 DEF Needs
  <2>. QED  BY <1>0, <1>4, <2>1, Zenon
<1>. QED  BY <1>2, <1>3, <1>4

\* What has arrived of the message served: all of it, once the child has gone
\* past it, and its headers, once the child has read them.
LEMMA ServedCame ==
    ASSUME TypeOK, Serving, Consumed, InGet \/ InPost
    PROVE  /\ cur > req => Came(req) = NumLines(sent[req])
           /\ cur = req => Came(req) >= off
           /\ cur' > req /\ Consumed' /\ sent' = sent /\ lastLines' = lastLines =>
                 Came(req) = NumLines(sent[req])
<1>1. /\ req \in 1 .. Len(sent) /\ Len(sent) \in Nat /\ cur \in Nat /\ off \in Nat
      /\ lastLines \in Nat /\ sent[req] \in Message /\ sent # <<>>
  BY RequestMessage DEF TypeOK, CursorInStream
<1>2. NumLines(sent[req]) \in Nat
  BY <1>1, MessageLines
<1>3. req = Len(sent) => LastSent = sent[req]
  BY DEF LastSent
<1>4. CASE req < Len(sent)
  <2>1. Came(req) = NumLines(sent[req])
    BY <1>4 DEF Came
  <2>2. cur = req => off < NumLines(sent[req])
    BY <1>1 DEF TypeOK, CursorInStream
  <2>. QED  BY <1>1, <1>2, <2>1, <2>2
<1>5. CASE req = Len(sent)
  <2>1. Came(req) = lastLines
    BY <1>1, <1>5 DEF Came
  <2>2. cur > req => lastLines = NumLines(LastSent)
    BY <1>1, <1>5 DEF Consumed
  <2>3. cur = req => off <= lastLines
    BY <1>5 DEF Consumed
  <2>4. cur' > req /\ Consumed' /\ sent' = sent /\ lastLines' = lastLines =>
           lastLines = NumLines(LastSent)
    BY <1>1, <1>5 DEF Consumed, LastSent
  <2>. QED  BY <1>1, <1>3, <1>5, <2>1, <2>2, <2>3, <2>4
<1>. QED  BY <1>1, <1>4, <1>5

\* A child that dies while it serves a message has a client that has gone, or
\* that has sent a message that kills.
LEMMA CrashMaps ==
    ASSUME TypeOK, Serving, Framed, InGet \/ InPost, Crash, closed \/ Kills(sent[req])
    PROVE  Service!Next
<1>1. req = Len(out) + 1 /\ req <= Len(sent)
  BY DEF Framed, Serving
<1>2. UNCHANGED <<sent, lastLines, closed, out>> /\ Answers' = Answers
  BY DEF Crash, client, Answers
<1>3. Life = "open" /\ Life' = "dead"
  BY DEF Life, Crash, InGet, InPost
<1>4. Len(Answers) = Len(out)
  <2>1. out \in Seq(Response)
    BY DEF TypeOK
  <2>2. DOMAIN out = 1 .. Len(out) /\ Len(out) \in Nat
    BY <2>1
  <2>3. Answers = [i \in 1 .. Len(out) |-> out[i].status]
    BY <2>2 DEF Answers
  <2>. QED  BY <2>2, <2>3
<1>5. Service!Turn = req
  BY <1>1, <1>4 DEF Service!Turn, Answers
<1>6. Service!Die
  BY <1>1, <1>2, <1>3, <1>5 DEF Service!Die, Answers
<1>. QED  BY <1>6 DEF Service!Next

LEMMA RequestStepMaps ==
    ASSUME WellFramed, TypeOK, Consumed, Framed, RequestStep,
           OneResponsePerRequest', ResponseMeetsRequest', ExitIffClosing'
    PROVE  Service!Next \/ UNCHANGED Service!vars
<1>1. off = 0 /\ pc = "request"
  BY DEF RequestStep, StartGet, StartPost, PostUnknownUrl, MethodNotAllowed, ReadMethod,
         MisreadAsMethod, MisreadAndCrash, ReadRequestEof, Framed
<1>2. HasLine => NextLine = "request" /\ sent[cur].method # "OTHER"
  <2>1. HasLine => NextLine = "request" /\ sent[cur] \in Messages
    BY <1>1, LineAt
  <2>. QED  BY <2>1 DEF WellFramed, Framable
<1>3. CASE StartGet \/ StartPost \/ ReadRequestEof
  BY <1>3, SilentMaps DEF StartGet, StartPost, ReadRequestEof, ReadMethod, Life
<1>4. CASE PostUnknownUrl
  <2>1. /\ HasLine /\ sent[cur].method = "POST" /\ UNCHANGED client /\ pc' = "exited"
        /\ out' = Append(out, [msg |-> cur, status |-> "404url"])
    BY <1>4 DEF PostUnknownUrl, ReadMethod
  <2>2. cur \in 1 .. Len(sent) /\ sent[cur] \in Message
    BY <2>1, LineAt
  <2>3. Needs(sent[cur], "404url") = 1
    BY <2>1, <2>2, NeedsLines
  <2>4. Came(cur) >= 1
    <3>1. cur < Len(sent) \/ 0 < lastLines
      BY <1>1, <2>1 DEF HasLine
    <3>2. lastLines \in Nat /\ NumLines(sent[cur]) \in Nat /\ NumLines(sent[cur]) >= 2
      BY <2>2, MessageLines DEF TypeOK
    <3>. QED  BY <3>1, <3>2 DEF Came
  <2>. QED  BY <1>1, <2>1, <2>2, <2>3, <2>4, ReplyMaps
<1>5. CASE MethodNotAllowed \/ MisreadAsMethod \/ MisreadAndCrash
  BY <1>2, <1>5 DEF MethodNotAllowed, ReadMethod, MisreadAsMethod, MisreadAndCrash
<1>. QED  BY <1>3, <1>4, <1>5 DEF RequestStep

LEMMA GetStepMaps ==
    ASSUME TypeOK, Serving, Consumed, Framed, Said, GetStep \/ StopAtMarker,
           OneResponsePerRequest', ResponseMeetsRequest', ExitIffClosing'
    PROVE  Service!Next \/ UNCHANGED Service!vars
<1>1. CASE GetHeader \/ GetHeadersEnd \/ GetHeadersEof \/ GetContent \/ ReadContent
           \/ ContentDone \/ StopAtMarker
  BY <1>1, SilentMaps DEF GetHeader, GetHeadersEnd, GetHeadersEof, GetContent, ReadContent,
                          ContentDone, StopAtMarker, Life
<1>2. ASSUME NEW s, NEW ka, Reply(s, ka), pc \in {"get_dispatch", "get_reply"}, s # "201"
      PROVE  Service!Next
  <2>1. InGet /\ cur = req + 1 /\ req \in 1 .. Len(sent) /\ sent[req] \in Message
    BY <1>2, RequestMessage DEF InGet, Framed, GetFramed
  <2>2. Came(req) = NumLines(sent[req])
    BY <2>1, ServedCame
  <2>3. NumLines(sent[req]) \in Nat /\ Needs(sent[req], s) \in Nat
    BY <1>2, <2>1, NeedsLines, MessageLines
  <2>4. Came(req) >= Needs(sent[req], s)
    BY <1>2, <2>1, <2>2, <2>3, NeedsLines
  <2>5. /\ UNCHANGED client /\ pc' # "crashed" /\ pc \notin {"exited", "crashed"}
        /\ out' = Append(out, [msg |-> req, status |-> s])
    BY <1>2 DEF Reply
  <2>. QED  BY <2>1, <2>4, <2>5, ReplyMaps
<1>3. CASE GetUnknownUrl \/ GetBadRequest
  BY <1>2, <1>3 DEF GetUnknownUrl, GetBadRequest
<1>4. CASE GetRefuse
  BY <1>2, <1>4 DEF GetRefuse, Refusal
<1>5. CASE GetServe
  <2>1. PICK s \in FileStatus(sent[req].url) : Reply(s, g.keep_alive)
    BY <1>5 DEF GetServe
  <2>2. s # "201"
    BY DEF FileStatus
  <2>. QED  BY <1>2, <1>5, <2>1, <2>2 DEF GetServe
<1>6. CASE GetHeaderCrash
  <2>1. /\ pc = "get_headers" /\ HasLine /\ NextLine = "header" /\ Crash
        /\ GetHeaderKills(NextHeader)
    BY <1>6 DEF GetHeaderCrash
  <2>2. InGet /\ InHeaders
    BY <2>1 DEF InGet, InHeaders
  <2>3. sent[req].method = "GET" /\ cur = req
    BY <2>2 DEF Serving
  <2>4. off \in DOMAIN sent[req].headers
    BY <2>1, <2>2, <2>3, HeaderLine, RequestMessage DEF ReqHeaders
  <2>5. Kills(sent[req])
    BY <2>1, <2>3, <2>4 DEF Kills, NextHeader
  <2>. QED  BY <2>1, <2>2, <2>5, CrashMaps
<1>7. CASE GetServeEmpty
  <2>1. pc = "get_reply" /\ Served /\ sent[req].url = "empty" /\ Crash
    BY <1>7 DEF GetServeEmpty
  <2>2. /\ sent[req].method = "GET" /\ ~Malformed(sent[req])
        /\ ~HasField(sent[req], <<"Cookie">>) /\ ~ForeignCharset(sent[req])
    BY <2>1, GetReady DEF Served
  <2>3. ExpectedGet(sent[req]) = FileStatus("empty")
    BY <2>1, <2>2 DEF ExpectedGet
  <2>4. Kills(sent[req])
    BY <2>1, <2>2, <2>3 DEF Kills
  <2>. QED  BY <2>1, <2>4, CrashMaps DEF InGet
<1>. QED  BY <1>1, <1>3, <1>4, <1>5, <1>6, <1>7 DEF GetStep

\* A header of a POST that the child dies of is one of its message: the headers
\* of the part are lines of its body.
LEMMA PostHeaderCrashMaps ==
    ASSUME TypeOK, Serving, Framed, PostHeaderCrash
    PROVE  Service!Next
<1>1. InPost /\ HasLine /\ NextLine = "header" /\ Crash /\ PostHeaderKills(NextHeader)
  BY DEF PostHeaderCrash, InPost
<1>2. pc # "part_headers"
  <2>. SUFFICES ASSUME pc = "part_headers" PROVE FALSE
    OBVIOUS
  <2>1. PICK k \in Nat : cur = req /\ UploadBody(sent[req].body, k) /\ LineHere \in 1 .. k
    BY DEF Framed, PostFramed, InUploadAt
  <2>2. NextLine \in BodyLines
    BY <1>1, <2>1, UploadLine
  <2>. QED  BY <1>1, <2>2 DEF BodyLines
<1>3. InHeaders
  BY <1>2 DEF PostHeaderCrash, InHeaders
<1>4. sent[req].method = "POST" /\ cur = req
  BY <1>1, <1>3 DEF Serving
<1>5. off \in DOMAIN sent[req].headers
  BY <1>1, <1>4, HeaderLine, RequestMessage DEF ReqHeaders
<1>6. Kills(sent[req])
  BY <1>1, <1>4, <1>5 DEF Kills, NextHeader
<1>. QED  BY <1>1, <1>6, CrashMaps

\* What an upload that the child dies of lacks.
LEMMA PostCrashMaps ==
    ASSUME TypeOK, Serving, Framed, Said, Fit,
           PostGarbledCredentials \/ PostNoBoundary \/ OpenFileUnnamed
    PROVE  Service!Next
<1> DEFINE m == sent[req]
<1>1. /\ InPost /\ ~InHeaders /\ Crash /\ pc \in {"post_auth", "open_file"}
      /\ m \in Message /\ m.method = "POST" /\ m.body \in Seq(BodyLines)
      /\ ReqBody = Len(m.body) /\ HeadersRead = Len(m.headers)
      /\ DOMAIN m.headers = 1 .. Len(m.headers)
  <2>1. InPost /\ ~InHeaders /\ Crash /\ pc \in {"post_auth", "open_file"}
    BY DEF PostGarbledCredentials, PostNoBoundary, OpenFileUnnamed, Authorized, InPost,
           InHeaders
  <2>. QED  BY <2>1, RequestMessage DEF ReqBody, ReqHeaders, HeadersRead
<1>2. CASE PostGarbledCredentials
  <2>1. HeadFit /\ hinfo.auth \in Oddities
    BY <1>2 DEF PostGarbledCredentials, Fit, Oddities, TypeOK, HeaderInfo
  <2>2. LastOf(m, Len(m.headers), <<"Authorization">>, Values, Oddities)
    BY <1>1, <2>1 DEF HeadFit
  <2>3. LastIn(m, <<"Authorization">>, Values, Oddities)
    BY <1>1, <2>2, AllHeaders
  <2>4. Kills(m)
    BY <1>1, <2>3 DEF Kills, Oddities
  <2>. QED  BY <1>1, <2>4, CrashMaps
<1>3. CASE PostNoBoundary
  <2>1. /\ HeadFit /\ hinfo.auth = "good" /\ hinfo.icontent_length > 0 /\ ~hinfo.boundary
        /\ pc = "post_auth"
    BY <1>3 DEF PostNoBoundary, Authorized, Fit
  <2>2. m.body # <<>>
    <3>1. ReqBody > 0
      BY <2>1 DEF Framed, PostFramed
    <3>. QED  BY <1>1, <3>1
  <2>3. ~NamesBoundary(m)
    <3>. SUFFICES ASSUME NamesBoundary(m) PROVE FALSE
      OBVIOUS
    <3>1. LastOf(m, Len(m.headers), <<"Content", "Type">>, Values, Boundaries)
      BY <1>1, AllHeaders DEF NamesBoundary, Boundaries
    <3>2. NoDashes
      BY <1>1 DEF NamesBoundary, NoDashes
    <3>. QED  BY <1>1, <2>1, <3>1, <3>2 DEF HeadFit
  <2>4. LastIn(m, <<"Authorization">>, Values, {"good"})
    BY <1>1, <2>1, PostReady
  <2>5. Kills(m)
    BY <1>1, <2>2, <2>3, <2>4 DEF Kills
  <2>. QED  BY <1>1, <2>5, CrashMaps
<1>4. CASE OpenFileUnnamed
  <2>1. pc = "open_file" /\ ~hinfo.disposition
    BY <1>4 DEF OpenFileUnnamed
  <2>2. ~NamesFile(m.body)
    BY <2>1 DEF Fit
  <2>3. m.body # <<>>
    <3>1. PICK k \in Nat : UploadBody(m.body, k)
      BY <2>1 DEF Framed, PostFramed, InUploadAt
    <3>2. k \in 1 .. Len(m.body) - 1
      BY <3>1 DEF UploadBody
    <3>. QED  BY <1>1, <3>2
  <2>4. hinfo.auth = "good"
    BY <1>1, <2>1, PostReady DEF PostSaid
  <2>5. LastIn(m, <<"Authorization">>, Values, {"good"})
    BY <1>1, <2>4, PostReady
  <2>6. Kills(m)
    BY <1>1, <2>2, <2>3, <2>5 DEF Kills
  <2>. QED  BY <1>1, <2>6, CrashMaps
<1>. QED  BY <1>2, <1>3, <1>4

LEMMA PostStepMaps ==
    ASSUME WellFramed, TypeOK, Serving, Asked, Consumed, Framed, Said, Fit, PostStep,
           Consumed', Framed', OneResponsePerRequest', ResponseMeetsRequest', ExitIffClosing'
    PROVE  Service!Next \/ UNCHANGED Service!vars
<1>1. CASE PostHeader \/ PostHeadersEnd \/ PostHeadersEof \/ PostUpload \/ PartHeader
           \/ PartHeadersEnd \/ OpenFile \/ WriteLine
  BY <1>1, SilentMaps DEF PostHeader, PostHeadersEnd, PostHeadersEof, PostUpload, Authorized,
                          PartHeader, PartHeadersEnd, OpenFile, WriteLine, Life
<1>2. CASE WriteEof
  BY <1>2, SilentMaps DEF WriteEof, vars, Life
<1>3. CASE OpenFileFails
  BY <1>3 DEF OpenFileFails, WellFramed
<1>4. ASSUME InPost
      PROVE  /\ req \in 1 .. Len(sent) /\ sent[req] \in Message /\ g.keep_alive
             /\ req = Len(out) + 1 /\ pc \notin {"exited", "crashed"}
             /\ ReqHeaders \in Nat /\ cur \in Nat /\ off \in Nat
  BY <1>4, RequestMessage DEF Asked, Framed, InPost, TypeOK, CursorInStream
<1>5. CASE PostUnauthorized \/ PostWrongPassword
  <2>1. PICK s \in {"401", "401bad"} : Reply(s, FALSE)
    BY <1>5 DEF PostUnauthorized, PostWrongPassword
  <2>2. pc = "post_auth" /\ InPost
    BY <1>5 DEF PostUnauthorized, PostWrongPassword, InPost
  <2>3. cur > req \/ (cur = req /\ off = ReqHeaders + 2)
    BY <2>2 DEF Fit
  <2>4. Needs(sent[req], s) = ReqHeaders + 2 /\ NumLines(sent[req]) \in Nat
        /\ Needs(sent[req], s) <= NumLines(sent[req])
    BY <1>4, <2>1, <2>2, NeedsLines, MessageLines DEF ReqHeaders
  <2>5. Came(req) >= Needs(sent[req], s)
    BY <1>4, <2>2, <2>3, <2>4, ServedCame
  <2>6. /\ UNCHANGED client /\ pc' # "crashed"
        /\ out' = Append(out, [msg |-> req, status |-> s])
    BY <2>1 DEF Reply
  <2>. QED  BY <1>4, <2>2, <2>5, <2>6, ReplyMaps
<1>6. CASE PostEmpty \/ WriteDone \/ WriteLastLine
  <2>1. InPost
    BY <1>6 DEF PostEmpty, Authorized, WriteDone, WriteLastLine, InPost
  <2>2. /\ UNCHANGED client /\ pc' = "request"
        /\ out' = Append(out, [msg |-> req, status |-> "201"])
    BY <1>4, <1>6, <2>1 DEF PostEmpty, WriteDone, WriteLastLine, Reply
  <2>3. cur' > req
    <3>1. Len(out') = Len(out) + 1 /\ Len(out) \in Nat
      BY <2>2, OneMoreResponse DEF TypeOK
    <3>2. cur' = Len(out') + 1
      BY <2>2 DEF Framed
    <3>. QED  BY <1>4, <2>1, <3>1, <3>2
  <2>4. Came(req) = NumLines(sent[req])
    BY <2>1, <2>2, <2>3, ServedCame DEF client
  <2>5. Needs(sent[req], "201") = NumLines(sent[req]) /\ NumLines(sent[req]) \in Nat
    BY <1>4, <2>1, NeedsLines, MessageLines
  <2>6. Came(req) >= Needs(sent[req], "201")
    BY <2>4, <2>5
  <2>. QED  BY <1>4, <2>1, <2>2, <2>6, ReplyMaps
<1>7. CASE PostHeaderCrash \/ PostGarbledCredentials \/ PostNoBoundary \/ OpenFileUnnamed
  BY <1>7, PostCrashMaps, PostHeaderCrashMaps
<1>. QED  BY <1>1, <1>2, <1>3, <1>5, <1>6, <1>7 DEF PostStep

\* All that is known of a reachable state.
ServiceInv == /\ TypeOK /\ Serving /\ Asked /\ ExitIffClosing /\ Framed /\ Said
              /\ ResponseMeetsRequest /\ Consumed /\ Fit

LEMMA NextMaps ==
    ASSUME WellFramed, ServiceInv, ServiceInv', [Next]_vars
    PROVE  [Service!Next]_(Service!vars)
<1>1. CASE UNCHANGED vars
  BY <1>1, SilentMaps DEF vars, Life
<1>2. CASE BrokenPipe
  <2>1. closed /\ Crash /\ (InGet \/ InPost)
    BY <1>2 DEF BrokenPipe, InGet, InPost
  <2>. QED  BY <1>2, <2>1, CrashMaps DEF BrokenPipe, ServiceInv
<1>3. OneResponsePerRequest'
  BY DEF ServiceInv, Framed
<1>. QED  BY <1>1, <1>2, <1>3, RequestStepMaps, GetStepMaps, PostStepMaps, ClientMaps
          DEF Next, Child, ServiceInv

LEMMA InitMaps == Init => Service!Init
<1>. SUFFICES ASSUME Init PROVE Service!Init
  OBVIOUS
<1>1. out = <<>> /\ pc = "request"
  BY DEF Init
<1>2. [i \in DOMAIN out |-> out[i].status] = <<>>
  BY <1>1
<1>. QED  BY <1>1, <1>2 DEF Init, Service!Init, Life

\* For the same clients, the child implements the service, however many messages
\* the client sends and wherever it cuts one off: an upload is never reported as
\* stored before all of it has arrived, no message is answered before its headers
\* have, and a child that dies of a NULL pointer or a signal was sent one of the
\* messages Kills names, or had lost its client.
THEOREM ChildImplementsService ==
    ASSUME WellFramed, NoEmptyName, NoDashedCredentials
    PROVE  Spec => ImplementsService
<1>1. ServiceInv /\ [Next]_vars => ServiceInv'
  BY NextType, NextServing, NextAsked, NextExit, NextFramed, NextSaid, NextMeets,
     NextConsumed, NextFit DEF ServiceInv
<1>2. Init => ServiceInv
  <2>1. Init => ExitIffClosing /\ ResponseMeetsRequest
    BY DEF Init, ExitIffClosing, ResponseMeetsRequest
  <2>. QED  BY <2>1, InitType, InitServing, InitAsked, InitFramed, InitSaid, InitConsumed,
               InitFit DEF ServiceInv
<1>3. ServiceInv /\ ServiceInv' /\ [Next]_vars => [Service!Next]_(Service!vars)
  BY NextMaps
<1>. QED  BY <1>1, <1>2, <1>3, InitMaps, PTL DEF Spec, ImplementsService, Service!Spec

(***************************************************************************)
(* The client that reads the responses: what it makes of each kind of line *)
(* and, from there, of a whole response.                                   *)
(***************************************************************************)
State(at, left, found) == [at |-> at, left |-> left, found |-> found]

LEMMA LineEffects ==
    ASSUME NEW left \in Int, NEW found
    PROVE  /\ \A s : ClientLine(State("start", left, found), StatusLine(s))
                       = State("fields", Unknown, Append(found, s))
           /\ ClientLine(State("fields", left, found), Line("field"))
                = State("fields", left, found)
           /\ \A n : ClientLine(State("fields", left, found), ContentLength(n))
                       = State("fields", n, found)
           /\ ClientLine(State("fields", left, found), Line("blank"))
                = State(IF left = 0 THEN "start" ELSE "body", left, found)
           /\ \A line : ClientLine(State("body", left, found), line)
                = IF left = Unknown THEN State("body", left, found)
                  ELSE State(IF left = 1 THEN "start" ELSE "body", left - 1, found)
<1>. USE DEF State
<1>1. ASSUME NEW c, c = State("start", left, found), NEW s
      PROVE  ClientLine(c, StatusLine(s)) = State("fields", Unknown, Append(found, s))
  <2>1. StatusLine(s).status = s
    BY DEF StatusLine, Line
  <2>2. c.at = "start" /\ c.found = found
    BY <1>1
  <2>. QED  BY <2>1, <2>2 DEF ClientLine
<1>2. ASSUME NEW c, c = State("fields", left, found)
      PROVE  /\ ClientLine(c, Line("field")) = c
             /\ \A n : ClientLine(c, ContentLength(n)) = State("fields", n, found)
             /\ ClientLine(c, Line("blank"))
                  = State(IF left = 0 THEN "start" ELSE "body", left, found)
  <2>1. c.at = "fields" /\ c.left = left
    BY <1>2
  <2>2. Line("field").kind = "field" /\ Line("blank").kind = "blank"
    BY DEF Line
  <2>3. \A n : ContentLength(n).kind = "length" /\ ContentLength(n).length = n
    BY DEF ContentLength, Line
  <2>4. \A n : [c EXCEPT !.left = n] = State("fields", n, found)
    BY <1>2
  <2>5. \A at : [c EXCEPT !.at = at] = State(at, left, found)
    BY <1>2
  <2>6. ClientLine(c, Line("field")) = c
    BY <2>1, <2>2 DEF ClientLine
  <2>7. ASSUME NEW n PROVE ClientLine(c, ContentLength(n)) = State("fields", n, found)
    <3>1. ClientLine(c, ContentLength(n)) = [c EXCEPT !.left = n]
      BY <2>1, <2>3 DEF ClientLine
    <3>. QED  BY <2>4, <3>1
  <2>8. ClientLine(c, Line("blank")) = State(IF left = 0 THEN "start" ELSE "body", left, found)
    <3>1. ClientLine(c, Line("blank")) = [c EXCEPT !.at = IF left = 0 THEN "start" ELSE "body"]
      BY <2>1, <2>2 DEF ClientLine
    <3>. QED  BY <2>5, <3>1
  <2>. QED  BY <2>6, <2>7, <2>8
<1>3. ASSUME NEW c, c = State("body", left, found), NEW line
      PROVE  ClientLine(c, line) =
                IF left = Unknown THEN State("body", left, found)
                ELSE State(IF left = 1 THEN "start" ELSE "body", left - 1, found)
  <2>1. c.at = "body" /\ c.left = left
    BY <1>3
  <2>2. \A at : [c EXCEPT !.left = @ - 1, !.at = at] = State(at, left - 1, found)
    <3>1. ASSUME NEW at, NEW less PROVE [c EXCEPT !.left = less, !.at = at] = State(at, less, found)
      <4> DEFINE d == [c EXCEPT !.left = less]
      <4>1. d = State("body", less, found)
        BY <1>3
      <4>. HIDE DEF d
      <4>2. [d EXCEPT !.at = at] = State(at, less, found)
        BY <4>1
      <4>. QED  BY <4>2 DEF d
    <3>. QED  BY <2>1, <3>1
  <2>3. CASE left = Unknown
    BY <1>3, <2>1, <2>3 DEF ClientLine
  <2>4. CASE left # Unknown
    <3>1. ClientLine(c, line)
            = [c EXCEPT !.left = @ - 1, !.at = IF left = 1 THEN "start" ELSE "body"]
      BY <2>1, <2>4 DEF ClientLine
    <3>. QED  BY <2>2, <2>4, <3>1
  <2>. QED  BY <2>3, <2>4
<1>. HIDE DEF State
<1>. QED  BY <1>1, <1>2, <1>3

\* t is a, then b.
AreJoined(t, a, b) == /\ Len(t) = Len(a) + Len(b)
                      /\ \A k \in 1 .. Len(a) : t[k] = a[k]
                      /\ \A k \in 1 .. Len(b) : t[Len(a) + k] = b[k]

LEMMA Joined ==
    ASSUME NEW S, NEW a \in Seq(S), NEW b \in Seq(S)
    PROVE  a \o b \in Seq(S) /\ AreJoined(a \o b, a, b)
BY DEF AreJoined

\* t is made of these, of which the first has one element.
AreParts(t, u, v, w, b) ==
    /\ Len(t) = 1 + Len(v) + Len(w) + Len(b)
    /\ t[1] = u[1]
    /\ \A k \in 1 .. Len(v) : t[1 + k] = v[k]
    /\ \A k \in 1 .. Len(w) : t[1 + Len(v) + k] = w[k]

LEMMA Parts ==
    ASSUME NEW S, NEW u \in Seq(S), NEW v \in Seq(S), NEW w \in Seq(S), NEW b \in Seq(S),
           Len(u) = 1
    PROVE  AreParts(u \o v \o w \o b, u, v, w, b)
<1> DEFINE x == u \o v
           y == x \o w
           t == y \o b
           n == Len(v)
<1>0. n \in Nat /\ Len(w) \in Nat /\ Len(b) \in Nat
  OBVIOUS
<1>1. x \in Seq(S) /\ AreJoined(x, u, v)
  BY Zenon, Joined
<1>. HIDE DEF x
<1>2. y \in Seq(S) /\ AreJoined(y, x, w)
  BY Zenon, <1>1, Joined
<1>. HIDE DEF y
<1>3. AreJoined(t, y, b)
  BY Zenon, <1>2, Joined
<1>. HIDE DEF t, n
<1>4. Len(x) = 1 + n /\ x[1] = u[1] /\ \A k \in 1 .. n : x[1 + k] = v[k]
  BY <1>0, <1>1 DEF AreJoined, n
<1>5. /\ Len(y) = 1 + n + Len(w) /\ \A k \in 1 .. 1 + n : y[k] = x[k]
      /\ \A k \in 1 .. Len(w) : y[1 + n + k] = w[k]
  BY <1>0, <1>2, <1>4 DEF AreJoined
<1>6. Len(t) = 1 + n + Len(w) + Len(b) /\ \A k \in 1 .. 1 + n + Len(w) : t[k] = y[k]
  BY <1>3, <1>5 DEF AreJoined
<1>7. t[1] = u[1]
  BY <1>0, <1>4, <1>5, <1>6
<1>8. \A k \in 1 .. n : t[1 + k] = v[k]
  <2>1. \A k \in 1 .. n : 1 + k \in 1 .. 1 + n /\ 1 + k \in 1 .. 1 + n + Len(w)
    BY <1>0
  <2>. QED  BY <1>4, <1>5, <1>6, <2>1
<1>9. \A k \in 1 .. Len(w) : t[1 + n + k] = w[k]
  BY <1>0, <1>5, <1>6
<1>. QED  BY <1>6, <1>7, <1>8, <1>9 DEF AreParts, t, y, x, n

\* The page begins with a status line and n fields.
IsHead(page, s, n) == page[1] = StatusLine(s) /\ \A k \in 2 .. n + 1 : page[k] = Line("field")

\* The lines of a page, by their places; the body may be any lines.
LEMMA PageLines ==
    ASSUME NEW S, NEW s, NEW n \in Nat, NEW body \in Seq(S)
    PROVE  LET page == Page(s, n, body) IN
           /\ Len(page) = n + 3 + Len(body)
           /\ IsHead(page, s, n)
           /\ page[n + 2] = ContentLength(Len(body))
           /\ page[n + 3] = Line("blank")
<1> DEFINE b == Len(body)
           R == {StatusLine(s), Line("field"), ContentLength(b), Line("blank")} \cup S
           u == <<StatusLine(s)>>
           v == Lines("field", n)
           w == <<ContentLength(b), Line("blank")>>
           t == u \o v \o w \o body
<1>1. /\ u \in Seq(R) /\ Len(u) = 1 /\ u[1] = StatusLine(s)
      /\ w \in Seq(R) /\ Len(w) = 2 /\ w[1] = ContentLength(b) /\ w[2] = Line("blank")
  OBVIOUS
<1>2. v \in Seq(R) /\ Len(v) = n /\ \A k \in 1 .. n : v[k] = Line("field")
  <2>1. v = [k \in 1 .. n |-> Line("field")] /\ Line("field") \in R
    BY DEF Lines
  <2>. HIDE DEF v, R
  <2>. QED  BY <2>1
<1>3. body \in Seq(R) /\ b \in Nat
  BY SeqMonotonic
<1>4. t = Page(s, n, body)
  BY DEF Page
<1>. HIDE DEF R, u, v, w
<1>50. AreParts(t, u, v, w, body)
  BY Zenon, <1>1, <1>2, <1>3, Parts
<1>. HIDE DEF t
<1>5. /\ Len(t) = 1 + n + Len(w) + Len(body)
      /\ t[1] = u[1]
      /\ \A k \in 1 .. n : t[1 + k] = v[k]
      /\ \A k \in 1 .. Len(w) : t[1 + n + k] = w[k]
  BY <1>2, <1>50 DEF AreParts
<1>. HIDE DEF b
<1>6. Len(t) = n + 3 + b /\ t[1] = StatusLine(s)
  BY <1>1, <1>3, <1>5 DEF b
<1>7. \A k \in 2 .. n + 1 : t[k] = Line("field")
  <2>1. \A k \in 2 .. n + 1 : k - 1 \in 1 .. n /\ 1 + (k - 1) = k
    OBVIOUS
  <2>. QED  BY <1>2, <1>5, <2>1
<1>8. t[n + 2] = ContentLength(b) /\ t[n + 3] = Line("blank")
  <2>1. 1 + n + 1 = n + 2 /\ 1 + n + 2 = n + 3 /\ 1 \in 1 .. 2 /\ 2 \in 1 .. 2
    OBVIOUS
  <2>. QED  BY <1>1, <1>5, <2>1
<1>. QED  BY <1>4, <1>6, <1>7, <1>8 DEF b, IsHead

LEMMA OpenPageLines ==
    ASSUME NEW S, NEW s, NEW n \in Nat, NEW body \in Seq(S)
    PROVE  LET page == OpenPage(s, n, body) IN
           /\ Len(page) = n + 2 + Len(body)
           /\ IsHead(page, s, n)
           /\ page[n + 2] = Line("blank")
<1> DEFINE R == {StatusLine(s), Line("field"), Line("blank")} \cup S
           u == <<StatusLine(s)>>
           v == Lines("field", n)
           w == <<Line("blank")>>
           t == u \o v \o w \o body
<1>1. /\ u \in Seq(R) /\ Len(u) = 1 /\ u[1] = StatusLine(s)
      /\ w \in Seq(R) /\ Len(w) = 1 /\ w[1] = Line("blank")
  OBVIOUS
<1>2. v \in Seq(R) /\ Len(v) = n /\ \A k \in 1 .. n : v[k] = Line("field")
  <2>1. v = [k \in 1 .. n |-> Line("field")] /\ Line("field") \in R
    BY DEF Lines
  <2>. HIDE DEF v, R
  <2>. QED  BY <2>1
<1>3. body \in Seq(R) /\ Len(body) \in Nat
  BY SeqMonotonic
<1>4. t = OpenPage(s, n, body)
  BY DEF OpenPage
<1>. HIDE DEF R, u, v, w
<1>50. AreParts(t, u, v, w, body)
  BY Zenon, <1>1, <1>2, <1>3, Parts
<1>. HIDE DEF t
<1>5. /\ Len(t) = 1 + n + Len(w) + Len(body)
      /\ t[1] = u[1]
      /\ \A k \in 1 .. n : t[1 + k] = v[k]
      /\ \A k \in 1 .. Len(w) : t[1 + n + k] = w[k]
  BY <1>2, <1>50 DEF AreParts
<1>6. Len(t) = n + 2 + Len(body) /\ t[1] = StatusLine(s)
  BY <1>1, <1>3, <1>5
<1>7. \A k \in 2 .. n + 1 : t[k] = Line("field")
  <2>1. \A k \in 2 .. n + 1 : k - 1 \in 1 .. n /\ 1 + (k - 1) = k
    OBVIOUS
  <2>. QED  BY <1>2, <1>5, <2>1
<1>8. t[n + 2] = Line("blank")
  <2>1. 1 + n + 1 = n + 2 /\ 1 \in 1 .. 1
    OBVIOUS
  <2>. QED  BY <1>1, <1>5, <2>1
<1>. QED  BY <1>4, <1>6, <1>7, <1>8 DEF IsHead

\* The client reads m lines of the page, and q is what it makes of them.
Follows(q, page, m) == \A k \in 1 .. m : q[k] = ClientLine(q[k - 1], page[k])

\* The head of a response: after the status line and n fields.
LEMMA HeadRead ==
    ASSUME NEW q, NEW page, NEW s, NEW n \in Nat, NEW left \in Int, NEW found,
           q[0] = State("start", left, found), IsHead(page, s, n), Follows(q, page, n + 1)
    PROVE  q[n + 1] = State("fields", Unknown, Append(found, s))
<1> DEFINE c == State("fields", Unknown, Append(found, s))
           T == {k \in 0 .. n : q[k + 1] = c}
<1>0. Unknown \in Int
  BY DEF Unknown
<1>1. 0 \in T
  <2>1. q[1] = ClientLine(q[0], page[1]) /\ page[1] = StatusLine(s)
    BY DEF Follows, IsHead
  <2>. QED  BY <2>1, LineEffects
<1>2. ASSUME NEW k \in 1 .. n, k - 1 \in T PROVE k \in T
  <2>1. q[k] = c
    BY <1>2
  <2>2. q[k + 1] = ClientLine(q[k], page[k + 1])
    <3>1. k + 1 \in 1 .. n + 1 /\ (k + 1) - 1 = k
      OBVIOUS
    <3>. QED  BY <3>1 DEF Follows
  <2>3. page[k + 1] = Line("field")
    BY DEF IsHead
  <2>4. q[k + 1] = c
    BY <1>0, <2>1, <2>2, <2>3, LineEffects
  <2>. QED  BY <2>4
<1>3. 0 .. n \subseteq T
  <2>. HIDE DEF T
  <2>. QED  BY <1>1, <1>2, UpTo
<1>. QED  BY <1>3

\* The client is between two responses.
AtStart(c, found) == \E left \in Int : c = State("start", left, found)

\* A response with a length: the client finds it, and its end is where the child
\* ended it.
LEMMA PageRead ==
    ASSUME NEW S, NEW s, NEW n \in Nat, NEW body \in Seq(S), NEW q,
           NEW left \in Int, NEW found, q[0] = State("start", left, found),
           Follows(q, Page(s, n, body), Len(Page(s, n, body)))
    PROVE  AtStart(q[Len(Page(s, n, body))], Append(found, s))
<1> DEFINE page == Page(s, n, body)
           b == Len(body)
           f == Append(found, s)
           c(j) == State(IF j = b THEN "start" ELSE "body", b - j, f)
           T == {j \in 0 .. b : q[n + 3 + j] = c(j)}
<1>0. b \in Nat /\ Unknown \in Int
  BY DEF Unknown
<1>1. /\ Len(page) = n + 3 + b
      /\ IsHead(page, s, n)
      /\ page[n + 2] = ContentLength(b)
      /\ page[n + 3] = Line("blank")
  BY Zenon, PageLines
<1>2. \A k \in 1 .. Len(page) : q[k] = ClientLine(q[k - 1], page[k])
  BY DEF Follows
<1>. HIDE DEF page, b
<1>3. \A k \in 1 .. n + 3 + b : q[k] = ClientLine(q[k - 1], page[k])
  BY <1>1, <1>2
<1>4. q[n + 1] = State("fields", Unknown, f)
  <2>1. Follows(q, page, n + 1)
    BY <1>0, <1>3 DEF Follows
  <2>. HIDE DEF f
  <2>2. q[n + 1] = State("fields", Unknown, Append(found, s))
    BY Zenon, <1>1, <2>1, HeadRead
  <2>. QED  BY <2>2 DEF f
<1>5. q[n + 2] = State("fields", b, f)
  <2>1. q[n + 2] = ClientLine(q[n + 1], page[n + 2])
    <3>1. n + 2 \in 1 .. n + 3 + b /\ (n + 2) - 1 = n + 1
      BY <1>0
    <3>. QED  BY <1>3, <3>1
  <2>. QED  BY <1>0, <1>1, <1>4, <2>1, LineEffects
<1>6. q[n + 3] = State(IF b = 0 THEN "start" ELSE "body", b, f)
  <2>1. q[n + 3] = ClientLine(q[n + 2], page[n + 3])
    <3>1. n + 3 \in 1 .. n + 3 + b /\ (n + 3) - 1 = n + 2
      BY <1>0
    <3>. QED  BY <1>3, <3>1
  <2>. QED  BY <1>0, <1>1, <1>5, <2>1, LineEffects
<1>7. 0 \in T
  <2>1. n + 3 + 0 = n + 3 /\ b - 0 = b /\ 0 \in 0 .. b /\ (0 = b <=> b = 0)
    BY <1>0
  <2>. QED  BY <1>6, <2>1
<1>8. ASSUME NEW j \in 1 .. b, j - 1 \in T PROVE j \in T
  <2>1. /\ n + 3 + j \in 1 .. n + 3 + b /\ (n + 3 + j) - 1 = n + 3 + (j - 1)
        /\ j - 1 # b /\ b - (j - 1) # Unknown /\ (b - (j - 1)) - 1 = b - j
        /\ (b - (j - 1) = 1 <=> j = b) /\ b - (j - 1) \in Int /\ j \in 0 .. b
    BY <1>0 DEF Unknown
  <2>2. q[n + 3 + j] = ClientLine(q[n + 3 + (j - 1)], page[n + 3 + j])
    BY <1>3, <2>1
  <2>3. q[n + 3 + (j - 1)] = State("body", b - (j - 1), f)
    BY <1>8, <2>1
  <2>4. q[n + 3 + j] = State(IF b - (j - 1) = 1 THEN "start" ELSE "body", (b - (j - 1)) - 1, f)
    BY <2>1, <2>2, <2>3, LineEffects
  <2>5. q[n + 3 + j] = c(j)
    BY <2>1, <2>4
  <2>. QED  BY <2>1, <2>5
<1>9. b \in T
  <2>. HIDE DEF T
  <2>1. 0 .. b \subseteq T
    BY <1>0, <1>7, <1>8, UpTo
  <2>. QED  BY <1>0, <2>1
<1>10. q[n + 3 + b] = State("start", b - b, f) /\ b - b \in Int
  BY <1>0, <1>9
<1>. QED  BY <1>1, <1>10 DEF page, AtStart

\* One without: the client finds it, and waits for more of it.
LEMMA OpenPageRead ==
    ASSUME NEW S, NEW s, NEW n \in Nat, NEW body \in Seq(S), NEW q,
           NEW left \in Int, NEW found, q[0] = State("start", left, found),
           Follows(q, OpenPage(s, n, body), Len(OpenPage(s, n, body)))
    PROVE  q[Len(OpenPage(s, n, body))] = State("body", Unknown, Append(found, s))
<1> DEFINE page == OpenPage(s, n, body)
           b == Len(body)
           f == Append(found, s)
           T == {j \in 0 .. b : q[n + 2 + j] = State("body", Unknown, f)}
<1>0. b \in Nat /\ Unknown \in Int /\ Unknown # 0
  BY DEF Unknown
<1>1. /\ Len(page) = n + 2 + b
      /\ IsHead(page, s, n)
      /\ page[n + 2] = Line("blank")
  BY Zenon, OpenPageLines
<1>2. \A k \in 1 .. Len(page) : q[k] = ClientLine(q[k - 1], page[k])
  BY DEF Follows
<1>. HIDE DEF page, b
<1>3. \A k \in 1 .. n + 2 + b : q[k] = ClientLine(q[k - 1], page[k])
  BY <1>1, <1>2
<1>4. q[n + 1] = State("fields", Unknown, f)
  <2>1. Follows(q, page, n + 1)
    BY <1>0, <1>3 DEF Follows
  <2>. HIDE DEF f
  <2>2. q[n + 1] = State("fields", Unknown, Append(found, s))
    BY Zenon, <1>1, <2>1, HeadRead
  <2>. QED  BY <2>2 DEF f
<1>5. 0 \in T
  <2>1. q[n + 2] = ClientLine(q[n + 1], page[n + 2])
    <3>1. n + 2 \in 1 .. n + 2 + b /\ (n + 2) - 1 = n + 1
      BY <1>0
    <3>. QED  BY <1>3, <3>1
  <2>2. q[n + 2] = State("body", Unknown, f)
    BY <1>0, <1>1, <1>4, <2>1, LineEffects
  <2>3. n + 2 + 0 = n + 2 /\ 0 \in 0 .. b
    BY <1>0
  <2>. QED  BY <2>2, <2>3
<1>6. ASSUME NEW j \in 1 .. b, j - 1 \in T PROVE j \in T
  <2>1. /\ n + 2 + j \in 1 .. n + 2 + b /\ (n + 2 + j) - 1 = n + 2 + (j - 1) /\ j \in 0 .. b
    BY <1>0
  <2>2. q[n + 2 + j] = ClientLine(q[n + 2 + (j - 1)], page[n + 2 + j])
    BY <1>3, <2>1
  <2>3. q[n + 2 + (j - 1)] = State("body", Unknown, f)
    BY <1>6
  <2>4. q[n + 2 + j] = State("body", Unknown, f)
    BY <1>0, <2>2, <2>3, LineEffects
  <2>. QED  BY <2>1, <2>4
<1>7. b \in T
  <2>. HIDE DEF T
  <2>1. 0 .. b \subseteq T
    BY <1>0, <1>5, <1>6, UpTo
  <2>. QED  BY <1>0, <2>1
<1>. QED  BY <1>1, <1>7 DEF page

(***************************************************************************)
(* The texts of the statuses are such responses.                           *)
(***************************************************************************)
TextLine == [kind : {"status", "field", "length", "blank", "text"},
             status : Statuses \cup {""}, length : Nat]
Sized(s) == s \notin {"401", "401bad"}

LEMMA LineTypes ==
    /\ \A kind \in {"field", "blank", "text"} : Line(kind) \in TextLine
    /\ \A s \in Statuses : StatusLine(s) \in TextLine
    /\ \A n \in Nat : ContentLength(n) \in TextLine
<1>1. Line("field") \in TextLine /\ Line("blank") \in TextLine /\ Line("text") \in TextLine
  BY DEF Line, TextLine
<1>2. ASSUME NEW s \in Statuses PROVE StatusLine(s) \in TextLine
  <2>1. s \in Statuses \cup {""} /\ "status" \in {"status", "field", "length", "blank", "text"}
        /\ 0 \in Nat
    OBVIOUS
  <2>. QED  BY Zenon, <2>1 DEF TextLine, StatusLine
<1>3. ASSUME NEW n \in Nat PROVE ContentLength(n) \in TextLine
  BY DEF TextLine, ContentLength
<1>. QED  BY <1>1, <1>2, <1>3

LEMMA LinesType ==
    ASSUME NEW kind \in {"field", "blank", "text"}, NEW n \in Nat
    PROVE  Lines(kind, n) \in Seq(TextLine)
<1>1. Lines(kind, n) = [i \in 1 .. n |-> Line(kind)] /\ Line(kind) \in TextLine
  BY LineTypes DEF Lines
<1>. QED  BY <1>1

LEMMA PageTypes ==
    ASSUME NEW s \in Statuses, NEW n \in Nat, NEW body \in Seq(TextLine)
    PROVE  Page(s, n, body) \in Seq(TextLine) /\ OpenPage(s, n, body) \in Seq(TextLine)
<1> DEFINE u == <<StatusLine(s)>>
           v == Lines("field", n)
           w == <<ContentLength(Len(body)), Line("blank")>>
           z == <<Line("blank")>>
<1>1. u \in Seq(TextLine) /\ w \in Seq(TextLine) /\ z \in Seq(TextLine)
  <2>1. StatusLine(s) \in TextLine /\ ContentLength(Len(body)) \in TextLine
        /\ Line("blank") \in TextLine
    BY LineTypes
  <2>. QED  BY <2>1
<1>2. v \in Seq(TextLine)
  BY LinesType
<1>3. Page(s, n, body) = u \o v \o w \o body /\ OpenPage(s, n, body) = u \o v \o z \o body
  BY DEF Page, OpenPage
<1>. HIDE DEF u, v, w, z
<1>4. u \o v \in Seq(TextLine)
  BY Zenon, <1>1, <1>2, Joined
<1>5. u \o v \o w \in Seq(TextLine) /\ u \o v \o z \in Seq(TextLine)
  BY Zenon, <1>1, <1>4, Joined
<1>6. u \o v \o w \o body \in Seq(TextLine) /\ u \o v \o z \o body \in Seq(TextLine)
  BY Zenon, <1>5, Joined
<1>. QED  BY <1>3, <1>6

\* Every response has a Content-Length, but those of a refused authorization.
LEMMA TextsArePages ==
    ASSUME NEW s \in Statuses
    PROVE  /\ TextOf(s) \in Seq(TextLine)
           /\ Sized(s) => \E n \in Nat, body \in Seq(TextLine) : TextOf(s) = Page(s, n, body)
           /\ ~Sized(s) => \E n \in Nat, body \in Seq(TextLine) : TextOf(s) = OpenPage(s, n, body)
<1> DEFINE P(n, body) == n \in Nat /\ body \in Seq(TextLine) /\ TextOf(s) = Page(s, n, body)
           O(n, body) == n \in Nat /\ body \in Seq(TextLine) /\ TextOf(s) = OpenPage(s, n, body)
<1>1. Html \in Seq(TextLine) /\ Lines("text", 1) \in Seq(TextLine)
  BY LinesType DEF Html
<1>2. Html \o Lines("text", 1) \in Seq(TextLine)
  BY Zenon, <1>1, Joined
<1>3. Page("200", 1, <<>>) \o Html \in Seq(TextLine)
  <2>1. "200" \in Statuses /\ 1 \in Nat /\ <<>> \in Seq(TextLine)
    BY DEF Statuses
  <2>2. Page("200", 1, <<>>) \in Seq(TextLine)
    BY Zenon, <2>1, PageTypes
  <2>. QED  BY Zenon, <1>1, <2>2, Joined
<1>4. Sized(s) => \E n, body : P(n, body)
  <2>0. 2 \in Nat /\ 3 \in Nat
    OBVIOUS
  <2>1. CASE s = "200"
    <3>1. TextOf(s) = Page(s, 2, Page("200", 1, <<>>) \o Html)
      BY <2>1 DEF TextOf, ok_get
    <3>. QED  BY <1>3, <2>0, <3>1, Zenon
  <2>2. CASE s = "201"
    <3>1. TextOf(s) = Page(s, 3, Html)
      BY <2>2 DEF TextOf, ok_post
    <3>. QED  BY <1>1, <2>0, <3>1, Zenon
  <2>3. CASE s \in {"400", "403", "404", "404url"}
    <3>1. TextOf(s) = Page(s, 2, Html)
      BY <2>3 DEF TextOf, bad_request, forbidden, not_found
    <3>. QED  BY <1>1, <2>0, <3>1, Zenon
  <2>4. CASE s = "501method"
    <3>1. TextOf(s) = Page(s, 3, Html)
      BY <2>4 DEF TextOf, method_not_allowed
    <3>. QED  BY <1>1, <2>0, <3>1, Zenon
  <2>5. CASE s \in {"501cookie", "501text", "501charset"}
    <3>1. TextOf(s) = Page(s, 2, Html \o Lines("text", 1))
      BY <2>5 DEF TextOf, not_implemented
    <3>. QED  BY <1>2, <2>0, <3>1, Zenon
  <2>. QED  BY <2>1, <2>2, <2>3, <2>4, <2>5 DEF Statuses, Sized
<1>5. ~Sized(s) => \E n, body : O(n, body)
  <2>1. ~Sized(s) => TextOf(s) = OpenPage(s, 2, Html)
    BY DEF TextOf, Unauthorized_response, Authorizedfailed_response, Sized
  <2>2. 2 \in Nat
    OBVIOUS
  <2>. QED  BY <1>1, <2>1, <2>2, Zenon
<1>6. TextOf(s) \in Seq(TextLine)
  BY <1>4, <1>5, PageTypes
<1>. QED  BY <1>4, <1>5, <1>6

(***************************************************************************)
(* The functions of ClientReads.                                           *)
(***************************************************************************)
Texts(statuses) ==
    CHOOSE texts : texts = [i \in 0 .. Len(statuses) |->
                              IF i = 0 THEN <<>> ELSE texts[i - 1] \o TextOf(statuses[i])]
FirstState == [at |-> "start", left |-> Unknown, found |-> <<>>]
Reading(text) ==
    CHOOSE reads : reads = [i \in 0 .. Len(text) |->
                              IF i = 0 THEN FirstState ELSE ClientLine(reads[i - 1], text[i])]

\* These are the texts of the first responses, none, one, two ...
AreTexts(texts, statuses) ==
    /\ texts \in [0 .. Len(statuses) -> Seq(TextLine)]
    /\ texts[0] = <<>>
    /\ \A i \in 1 .. Len(statuses) : texts[i] = texts[i - 1] \o TextOf(statuses[i])

LEMMA TextsDefined ==
    ASSUME NEW statuses \in Seq(Statuses)
    PROVE  AreTexts(Texts(statuses), statuses)
<1> DEFINE N == Len(statuses)
           none == <<>>
           S == Seq(TextLine)
           T(i) == TextOf(statuses[i])
           go(i, x) == x \o T(i)
           step == [i \in 1 .. N |-> [t \in S |-> go(i, t)]]
           Is(f) == f = [i \in 0 .. N |-> IF i = 0 THEN none ELSE go(i, f[i - 1])]
           f == Texts(statuses)
<1>1. N \in Nat /\ none \in S /\ \A i \in 1 .. N : T(i) \in S
  BY TextsArePages
<1>. HIDE DEF N, T, none
<1>2. step \in [1 .. N -> [S -> S]]
  <2>1. \A i \in 1 .. N : \A t \in S : go(i, t) \in S
    BY Zenon, <1>1, Joined DEF go
  <2>. HIDE DEF S, go
  <2>. QED  BY <2>1
<1>. HIDE DEF go
<1>3. PICK h \in [0 .. N -> S] : Iterates(h, N, none, step)
  <2>. HIDE DEF step, S
  <2>. QED  BY <1>1, <1>2, Recursion
<1>4. ASSUME NEW i \in 1 .. N PROVE h[i] = go(i, h[i - 1])
  <2>1. h[i] = step[i][h[i - 1]]
    BY <1>3 DEF Iterates
  <2>2. i - 1 \in 0 .. N
    BY <1>1
  <2>3. h[i - 1] \in S
    BY <2>2
  <2>. HIDE DEF S
  <2>. QED  BY <2>1, <2>3
<1>5. Is(h)
  <2>1. \A i \in 0 .. N : h[i] = IF i = 0 THEN none ELSE go(i, h[i - 1])
    BY <1>1, <1>3, <1>4 DEF Iterates
  <2>. HIDE DEF S
  <2>. QED  BY <2>1
<1>6. Is(f)
  BY <1>5, Zenon DEF Texts, N, T, none, go
<1>. HIDE DEF f
<1>7. f[0] = none /\ \A i \in 1 .. N : f[i] = go(i, f[i - 1])
  <2>1. \A i \in 0 .. N : f[i] = IF i = 0 THEN none ELSE go(i, f[i - 1])
    BY <1>6
  <2>. QED  BY <1>1, <2>1
<1>8. 0 .. N \subseteq {i \in 0 .. N : f[i] \in S}
  <2> DEFINE D == {i \in 0 .. N : f[i] \in S}
  <2>1. 0 \in D
    BY <1>1, <1>7
  <2>2. ASSUME NEW i \in 1 .. N, i - 1 \in D PROVE i \in D
    <3>1. f[i - 1] \in S /\ T(i) \in S /\ f[i] = go(i, f[i - 1])
      BY <1>1, <1>7, <2>2
    <3>2. f[i] \in S
      BY Zenon, <3>1, Joined DEF go
    <3>3. i \in 0 .. N
      BY <1>1
    <3>. QED  BY <3>2, <3>3
  <2>. HIDE DEF D
  <2>3. 0 .. N \subseteq D
    BY <1>1, <2>1, <2>2, UpTo
  <2>. QED  BY <2>3 DEF D
<1>9. f \in [0 .. N -> S]
  <2>. HIDE DEF S
  <2>. QED  BY <1>6, <1>8
<1>. QED  BY <1>7, <1>9 DEF N, T, f, none, go, AreTexts

ClientState == [at : {"start", "fields", "body"}, left : Int, found : Seq(Statuses \cup {""})]

LEMMA ClientLineType ==
    ASSUME NEW c \in ClientState, NEW line \in TextLine
    PROVE  ClientLine(c, line) \in ClientState
<1> DEFINE S == Statuses \cup {""}
           A == {"start", "fields", "body"}
<1>. HIDE DEF S
<1> DEFINE C == [at : A, left : Int, found : Seq(S)]
<1>1. c \in C /\ line.status \in S /\ line.length \in Int
  <2>1. c \in C
    BY Zenon DEF ClientState, S
  <2>2. line.status \in S /\ line.length \in Nat
    <3>1. line \in [kind : {"status", "field", "length", "blank", "text"}, status : S, length : Nat]
      BY Zenon DEF TextLine, S
    <3>. QED  BY <3>1
  <2>. QED  BY <2>1, <2>2
<1>2. CASE c.at = "start"
  <2>1. Append(c.found, line.status) \in Seq(S) /\ Unknown \in Int /\ "fields" \in A
    BY <1>1 DEF Unknown
  <2>2. ClientLine(c, line)
          = [at |-> "fields", left |-> Unknown, found |-> Append(c.found, line.status)]
    BY <1>2 DEF ClientLine
  <2>3. ClientLine(c, line) \in C
    <3>1. [at |-> "fields", left |-> Unknown, found |-> Append(c.found, line.status)] \in C
      <4>. HIDE DEF A
      <4>. QED  BY <2>1
    <3>. QED  BY Zenon, <2>2, <3>1
  <2>. QED  BY Zenon, <2>3 DEF ClientState, S
<1>3. CASE c.at # "start"
  <2>1. \/ ClientLine(c, line) = [c EXCEPT !.left = line.length]
        \/ ClientLine(c, line) = [c EXCEPT !.at = IF c.left = 0 THEN "start" ELSE "body"]
        \/ ClientLine(c, line)
              = [c EXCEPT !.left = @ - 1, !.at = IF c.left = 1 THEN "start" ELSE "body"]
        \/ ClientLine(c, line) = c
    BY <1>1, <1>3 DEF ClientLine
  <2>2. ASSUME NEW d \in C, NEW at \in A, NEW left \in Int
        PROVE  [d EXCEPT !.at = at] \in C /\ [d EXCEPT !.left = left] \in C
    <3>. HIDE DEF A
    <3>. QED  OBVIOUS
  <2>3. ASSUME NEW at \in A PROVE [c EXCEPT !.left = @ - 1, !.at = at] \in C
    <3>1. c.left - 1 \in Int
      BY <1>1
    <3> DEFINE d == [c EXCEPT !.left = c.left - 1]
    <3>2. d \in C
      BY <1>1, <2>2, <3>1
    <3>. HIDE DEF d
    <3>3. [d EXCEPT !.at = at] \in C
      BY <2>2, <3>2
    <3>. QED  BY <3>3 DEF d
  <2>4. ClientLine(c, line) \in C
    <3>1. "start" \in A /\ "body" \in A
      OBVIOUS
    <3>. HIDE DEF A, C
    <3>. QED  BY <1>1, <2>1, <2>2, <2>3, <3>1
  <2>. QED  BY Zenon, <2>4 DEF ClientState, S
<1>. QED  BY <1>2, <1>3

LEMMA ReadingDefined ==
    ASSUME NEW text \in Seq(TextLine)
    PROVE  /\ Reading(text)[0] = State("start", Unknown, <<>>)
           /\ Follows(Reading(text), text, Len(text))
<1> DEFINE N == Len(text)
           S == ClientState
           step == [i \in 1 .. N |-> [c \in S |-> ClientLine(c, text[i])]]
           Is(f) == f = [i \in 0 .. N |->
                           IF i = 0 THEN FirstState ELSE ClientLine(f[i - 1], text[i])]
           f == Reading(text)
<1>1. N \in Nat /\ \A i \in 1 .. N : text[i] \in TextLine
  OBVIOUS
<1>. HIDE DEF N
<1>2. step \in [1 .. N -> [S -> S]]
  <2>1. \A i \in 1 .. N : \A c \in S : ClientLine(c, text[i]) \in S
    BY <1>1, ClientLineType
  <2>. HIDE DEF S
  <2>. QED  BY <2>1
<1>3. PICK h \in [0 .. N -> S] : Iterates(h, N, FirstState, step)
  <2>1. FirstState \in S
    BY DEF ClientState, FirstState, Unknown
  <2>. HIDE DEF step, S
  <2>. QED  BY <1>1, <1>2, <2>1, Recursion
<1>4. ASSUME NEW i \in 1 .. N PROVE h[i] = ClientLine(h[i - 1], text[i])
  <2>1. h[i] = step[i][h[i - 1]]
    BY <1>3 DEF Iterates
  <2>2. i - 1 \in 0 .. N
    BY <1>1
  <2>3. h[i - 1] \in S
    BY <2>2
  <2>. HIDE DEF S
  <2>. QED  BY <2>1, <2>3
<1>5. Is(h)
  <2>1. \A i \in 0 .. N : h[i] = IF i = 0 THEN FirstState ELSE ClientLine(h[i - 1], text[i])
    BY <1>1, <1>3, <1>4 DEF Iterates
  <2>. HIDE DEF S
  <2>. QED  BY <2>1
<1>6. Is(f)
  BY <1>5, Zenon DEF Reading, N
<1>. HIDE DEF f
<1>7. f[0] = FirstState /\ \A i \in 1 .. N : f[i] = ClientLine(f[i - 1], text[i])
  <2>1. \A i \in 0 .. N : f[i] = IF i = 0 THEN FirstState ELSE ClientLine(f[i - 1], text[i])
    BY <1>6
  <2>. QED  BY <1>1, <2>1
<1>. QED  BY <1>7 DEF N, f, Follows, FirstState, State

\* Whatever is sent before the last response, if it has a length the client finds
\* every response, and is at the end of the last if that has a length too.
LEMMA ClientFinds ==
    ASSUME NEW statuses \in Seq(Statuses),
           \A i \in 1 .. Len(statuses) : i < Len(statuses) => Sized(statuses[i])
    PROVE  /\ ClientReads(statuses).found = statuses
           /\ ClientReads(statuses).complete
                <=> statuses = <<>> \/ Sized(statuses[Len(statuses)])
<1> DEFINE N == Len(statuses)
           texts == Texts(statuses)
           At(i) == IF i = 0 \/ Sized(statuses[i]) THEN "start" ELSE "body"
           Reads(r, text) == r[0] = State("start", Unknown, <<>>) /\ Follows(r, text, Len(text))
           Found(i) == SubSeq(statuses, 1, i)
           Good(i, c) == \E left \in Int : c = State(At(i), left, Found(i))
           T == {i \in 0 .. N : \A r : Reads(r, texts[i]) => Good(i, r[Len(texts[i])])}
<1>1. /\ N \in Nat /\ texts \in [0 .. N -> Seq(TextLine)] /\ texts[0] = <<>>
      /\ \A i \in 1 .. N : texts[i] = texts[i - 1] \o TextOf(statuses[i])
  <2>1. AreTexts(texts, statuses)
    BY Zenon, TextsDefined
  <2>. HIDE DEF texts
  <2>2. N \in Nat
    OBVIOUS
  <2>. QED  BY Zenon, <2>1, <2>2 DEF AreTexts
<1>2. /\ Found(0) = <<>> /\ Found(N) = statuses
      /\ \A i \in 1 .. N : Found(i) = Append(Found(i - 1), statuses[i])
  <2>1. \A i \in 1 .. N : Found(i) = Append(Found(i - 1), statuses[i])
    OBVIOUS
  <2>. QED  BY <2>1
<1>. HIDE DEF texts, Found
<1>3. 0 \in T
  <2>1. ASSUME NEW r, Reads(r, texts[0]) PROVE Good(0, r[Len(texts[0])])
    <3>1. Len(texts[0]) = 0
      BY <1>1
    <3>2. r[0] = State("start", Unknown, <<>>) /\ At(0) = "start" /\ Unknown \in Int
      BY <2>1 DEF Unknown
    <3>. QED  BY <1>2, <3>1, <3>2
  <2>. QED  BY <1>1, <2>1
<1>4. ASSUME NEW i \in 1 .. N, i - 1 \in T PROVE i \in T
  <2> DEFINE s == statuses[i]
             before == texts[i - 1]
             p == Len(before)
             m == Len(TextOf(s))
  <2>1. /\ s \in Statuses /\ i - 1 \in 0 .. N /\ i \in 0 .. N /\ i # 0
        /\ i - 1 = 0 \/ (i - 1 \in 1 .. N /\ i - 1 < N)
    BY <1>1
  <2>2. before \in Seq(TextLine) /\ TextOf(s) \in Seq(TextLine) /\ texts[i] = before \o TextOf(s)
    BY <1>1, <2>1, TextsArePages
  <2>3. p \in Nat /\ m \in Nat /\ AreJoined(texts[i], before, TextOf(s))
    <3>1. AreJoined(texts[i], before, TextOf(s))
      BY Zenon, <2>2, Joined
    <3>. QED  BY <2>2, <3>1
  <2>4. At(i - 1) = "start"
    BY <2>1
  <2>5. ASSUME NEW r, Reads(r, texts[i]) PROVE Good(i, r[Len(texts[i])])
    <3> DEFINE q == [k \in 0 .. m |-> r[p + k]]
    <3>0. r[0] = State("start", Unknown, <<>>) /\ Follows(r, texts[i], Len(texts[i]))
      BY <2>5
    <3>1. /\ Len(texts[i]) = p + m
          /\ \A k \in 1 .. p : texts[i][k] = before[k]
          /\ \A k \in 1 .. m : texts[i][p + k] = TextOf(s)[k]
      BY <2>3 DEF AreJoined
    <3>. HIDE DEF p, m, before
    <3>2. \A k \in 1 .. p + m : r[k] = ClientLine(r[k - 1], texts[i][k])
      BY <3>0, <3>1 DEF Follows
    <3>3. Follows(r, before, p)
      <4>1. ASSUME NEW k \in 1 .. p PROVE r[k] = ClientLine(r[k - 1], before[k])
        <5>1. k \in 1 .. p + m
          BY <2>3
        <5>2. r[k] = ClientLine(r[k - 1], texts[i][k]) /\ texts[i][k] = before[k]
          BY Zenon, <3>1, <3>2, <5>1
        <5>. QED  BY Zenon, <5>2
      <4>. QED  BY Zenon, <4>1 DEF Follows
    <3>4. PICK left \in Int : r[p] = State("start", left, Found(i - 1))
      <4>1. Reads(r, texts[i - 1])
        BY <3>0, <3>3 DEF p, before
      <4>2. Good(i - 1, r[p])
        BY Zenon, <1>4, <4>1 DEF p, before
      <4>. HIDE DEF At
      <4>. QED  BY <2>4, <4>2
    <3>5. /\ q[0] = r[p] /\ q[m] = r[p + m]
          /\ \A k \in 1 .. m : q[k] = r[p + k] /\ q[k - 1] = r[(p + k) - 1]
      BY <2>3
    <3>. HIDE DEF q
    <3>6. Follows(q, TextOf(s), m)
      <4>1. ASSUME NEW k \in 1 .. m PROVE q[k] = ClientLine(q[k - 1], TextOf(s)[k])
        <5>1. p + k \in 1 .. p + m
          BY <2>3
        <5>2. r[p + k] = ClientLine(r[(p + k) - 1], texts[i][p + k])
          BY Zenon, <3>2, <5>1
        <5>3. texts[i][p + k] = TextOf(s)[k] /\ q[k] = r[p + k] /\ q[k - 1] = r[(p + k) - 1]
          BY <3>1, <3>5
        <5>. QED  BY Zenon, <5>2, <5>3
      <4>. QED  BY Zenon, <4>1 DEF Follows
    <3>7. q[0] = State("start", left, Found(i - 1))
      BY <3>4, <3>5
    <3>8. \E rest \in Int : q[m] = State(At(i), rest, Append(Found(i - 1), s))
      <4>. HIDE DEF s
      <4>1. CASE Sized(s)
        <5>1. PICK n \in Nat, body \in Seq(TextLine) : TextOf(s) = Page(s, n, body)
          BY <2>1, <4>1, TextsArePages
        <5>2. \E rest \in Int : q[m] = State("start", rest, Append(Found(i - 1), s))
          <6>1. Follows(q, Page(s, n, body), Len(Page(s, n, body)))
            BY <3>6, <5>1 DEF m
          <6>2. m = Len(Page(s, n, body))
            BY Zenon, <5>1 DEF m
          <6>3. AtStart(q[Len(Page(s, n, body))], Append(Found(i - 1), s))
            BY Zenon, <3>7, <6>1, PageRead
          <6>. QED  BY Zenon, <6>2, <6>3 DEF AtStart
        <5>3. At(i) = "start"
          BY <4>1 DEF s
        <5>. HIDE DEF At
        <5>. QED  BY <5>2, <5>3
      <4>2. CASE ~Sized(s)
        <5>1. PICK n \in Nat, body \in Seq(TextLine) : TextOf(s) = OpenPage(s, n, body)
          BY <2>1, <4>2, TextsArePages
        <5>2. q[m] = State("body", Unknown, Append(Found(i - 1), s))
          <6>1. Follows(q, OpenPage(s, n, body), Len(OpenPage(s, n, body)))
            BY <3>6, <5>1 DEF m
          <6>2. m = Len(OpenPage(s, n, body))
            BY Zenon, <5>1 DEF m
          <6>. QED  BY Zenon, <3>7, <6>1, <6>2, OpenPageRead
        <5>3. At(i) = "body" /\ Unknown \in Int
          BY <2>1, <4>2 DEF s, Unknown
        <5>. HIDE DEF At
        <5>. QED  BY <5>2, <5>3
      <4>. QED  BY <4>1, <4>2
    <3>. HIDE DEF At
    <3>. QED  BY <1>2, <3>1, <3>5, <3>8
  <2>. QED  BY <2>1, <2>5
<1>5. N \in T
  <2>. HIDE DEF T
  <2>1. 0 .. N \subseteq T
    BY <1>1, <1>3, <1>4, UpTo
  <2>. QED  BY <1>1, <2>1
<1> DEFINE text == texts[N]
           c == Reading(text)[Len(text)]
           done == c.at = "start"
<1>6. Good(N, c)
  <2>1. text \in Seq(TextLine)
    BY <1>1
  <2>2. Reads(Reading(text), text)
    BY Zenon, <2>1, ReadingDefined
  <2>. QED  BY Zenon, <1>5, <2>2
<1>7. ClientReads(statuses) = [found |-> c.found, complete |-> done]
  BY DEF ClientReads, Texts, Reading, FirstState, texts
<1>. HIDE DEF c, text
<1>8. c.found = statuses /\ c.at = At(N)
  <2>. HIDE DEF At
  <2>. QED  BY <1>2, <1>6 DEF State
<1>9. At(N) = "start" <=> statuses = <<>> \/ Sized(statuses[N])
  BY <1>1
<1>10. done <=> statuses = <<>> \/ Sized(statuses[N])
  BY <1>8, <1>9
<1>. HIDE DEF done
<1>11. ClientReads(statuses).found = statuses /\ ClientReads(statuses).complete = done
  BY <1>7, <1>8
<1>. QED  BY Zenon, <1>10, <1>11

(***************************************************************************)
(* Nothing is sent after a response without a length.                      *)
(***************************************************************************)
NothingAfterUnsized ==
    \A i \in DOMAIN out : ~Sized(out[i].status) => i = Len(out) /\ pc = "exited"

LEMMA UnsizedKept ==
    ASSUME NothingAfterUnsized, out' = out, pc = "exited" => pc' = "exited"
    PROVE  NothingAfterUnsized'
BY DEF NothingAfterUnsized

LEMMA UnsizedReply ==
    ASSUME TypeOK, NothingAfterUnsized, pc # "exited",
           NEW x, NEW s, out' = Append(out, [msg |-> x, status |-> s]),
           Sized(s) \/ pc' = "exited"
    PROVE  NothingAfterUnsized'
<1>1. out \in Seq(Response)
  BY DEF TypeOK
<1>2. [msg |-> x, status |-> s].status = s
  OBVIOUS
<1>3. \A i \in 1 .. Len(out) : Sized(out[i].status)
  BY <1>1 DEF NothingAfterUnsized
<1>4. /\ Len(out') = Len(out) + 1 /\ DOMAIN out' = 1 .. Len(out) + 1
      /\ \A i \in 1 .. Len(out) : out'[i] = out[i]
      /\ out'[Len(out) + 1].status = s
  BY <1>1, <1>2
<1>5. \A i \in 1 .. Len(out) + 1 : i \in 1 .. Len(out) \/ i = Len(out) + 1
  BY <1>1
<1>. QED  BY <1>3, <1>4, <1>5 DEF NothingAfterUnsized

LEMMA NextUnsized ==
    ASSUME TypeOK, NothingAfterUnsized, [Next]_vars
    PROVE  NothingAfterUnsized'
<1>1. CASE UNCHANGED vars
  BY <1>1, UnsizedKept DEF vars
<1>2. CASE Client
  BY <1>2, UnsizedKept DEF Client, Send, SendPartAndDisconnect, Disconnect
<1>3. CASE BrokenPipe
  BY <1>3, UnsizedKept DEF BrokenPipe, Crash
<1>4. CASE RequestStep
  <2>1. CASE StartGet \/ StartPost \/ MisreadAndCrash \/ ReadRequestEof
    BY <2>1, UnsizedKept
       DEF StartGet, StartPost, ReadMethod, MisreadAndCrash, Crash, ReadRequestEof
  <2>2. CASE PostUnknownUrl \/ MethodNotAllowed \/ MisreadAsMethod
    BY <2>2, UnsizedReply
       DEF PostUnknownUrl, MethodNotAllowed, ReadMethod, MisreadAsMethod, Sized
  <2>. QED  BY <1>4, <2>1, <2>2 DEF RequestStep
<1>5. CASE GetStep \/ StopAtMarker
  <2>1. CASE GetHeader \/ GetHeaderCrash \/ GetHeadersEnd \/ GetHeadersEof
    BY <2>1, UnsizedKept
       DEF GetHeader, GetHeaderCrash, GetHeadersEnd, GetHeadersEof, Crash
  <2>2. CASE GetContent \/ ReadContent \/ ContentDone \/ StopAtMarker \/ GetServeEmpty
    BY <2>2, UnsizedKept
       DEF GetContent, ReadContent, ContentDone, StopAtMarker, GetServeEmpty, Crash
  <2>3. CASE GetUnknownUrl \/ GetBadRequest \/ GetRefuse
    BY <2>3, UnsizedReply
       DEF GetUnknownUrl, GetBadRequest, GetRefuse, Refusal, Reply, Sized
  <2>4. CASE GetServe
    <3>1. PICK s \in FileStatus(sent[req].url) : Reply(s, g.keep_alive)
      BY <2>4 DEF GetServe
    <3>2. Sized(s)
      BY DEF FileStatus, Sized
    <3>. QED  BY <2>4, <3>1, <3>2, UnsizedReply DEF GetServe, Reply
  <2>. QED  BY <1>5, <2>1, <2>2, <2>3, <2>4 DEF GetStep
<1>6. CASE PostStep
  <2>1. CASE PostHeader \/ PostHeaderCrash \/ PostHeadersEnd \/ PostHeadersEof \/ PostGarbledCredentials
             \/ PostNoBoundary \/ PostUpload
    BY <2>1, UnsizedKept
       DEF PostHeader, PostHeaderCrash, PostHeadersEnd, PostHeadersEof, PostGarbledCredentials, PostNoBoundary,
           PostUpload, Authorized, Crash
  <2>2. CASE PartHeader \/ PartHeadersEnd \/ OpenFile \/ OpenFileFails \/ OpenFileUnnamed
             \/ WriteLine
    BY <2>2, UnsizedKept
       DEF PartHeader, PartHeadersEnd, OpenFile, OpenFileFails, OpenFileUnnamed, WriteLine,
           Crash
  <2>3. CASE WriteEof
    BY <2>3, UnsizedKept DEF WriteEof, vars
  <2>4. CASE PostUnauthorized \/ PostWrongPassword
    BY <2>4, UnsizedReply DEF PostUnauthorized, PostWrongPassword, Reply
  <2>5. CASE PostEmpty \/ WriteDone \/ WriteLastLine
    BY <2>5, UnsizedReply DEF PostEmpty, Authorized, WriteDone, WriteLastLine, Reply, Sized
  <2>. QED  BY <1>6, <2>1, <2>2, <2>3, <2>4, <2>5 DEF PostStep
<1>. QED  BY <1>1, <1>2, <1>3, <1>4, <1>5, <1>6 DEF Next, Child

\* http_server.c:415: whatever the messages, and whatever becomes of the files, the
\* client that reads by the lengths finds the responses the child has sent, each
\* whole, though a file may look like a response; where a response has no length,
\* the child has ended.
THEOREM ResponsesAreDelimited == Spec => []ResponsesDelimited
<1> DEFINE Inv == TypeOK /\ NothingAfterUnsized
<1>1. Init => Inv
  <2>1. Init => NothingAfterUnsized
    BY DEF Init, NothingAfterUnsized
  <2>. QED  BY <2>1, InitType
<1>2. Inv /\ [Next]_vars => Inv'
  BY NextType, NextUnsized
<1>3. Inv => ResponsesDelimited
  <2>. SUFFICES ASSUME Inv PROVE ResponsesDelimited
    OBVIOUS
  <2> DEFINE statuses == [i \in DOMAIN out |-> out[i].status]
  <2>1. out \in Seq(Response) /\ NothingAfterUnsized
    BY DEF TypeOK
  <2>2. \A i \in 1 .. Len(out) : out[i].status \in Statuses
    <3>1. \A x \in Response : x.status \in Statuses
      BY DEF Response
    <3>2. \A i \in 1 .. Len(out) : out[i] \in Response
      <4>. HIDE DEF Response
      <4>. QED  BY <2>1
    <3>. QED  BY Zenon, <3>1, <3>2
  <2>3. /\ statuses \in Seq(Statuses) /\ Len(statuses) = Len(out)
        /\ \A i \in 1 .. Len(out) : statuses[i] = out[i].status
    <3>1. DOMAIN out = 1 .. Len(out) /\ Len(out) \in Nat
      BY <2>1
    <3>2. statuses \in [1 .. Len(out) -> Statuses]
      BY <2>2, <3>1
    <3>. HIDE DEF Response
    <3>. QED  BY <3>1, <3>2
  <2>4. \A i \in 1 .. Len(out) : ~Sized(statuses[i]) => i = Len(out) /\ pc = "exited"
    <3>1. DOMAIN out = 1 .. Len(out)
      BY <2>1
    <3>. HIDE DEF statuses
    <3>. QED  BY Zenon, <2>1, <2>3, <3>1 DEF NothingAfterUnsized
  <2>. HIDE DEF statuses
  <2>5. \A i \in 1 .. Len(statuses) : i < Len(statuses) => Sized(statuses[i])
    BY <2>1, <2>3, <2>4
  <2>6. /\ ClientReads(statuses).found = statuses
        /\ ClientReads(statuses).complete
             <=> statuses = <<>> \/ Sized(statuses[Len(statuses)])
    BY Zenon, <2>3, <2>5, ClientFinds
  <2>7. ~(statuses = <<>> \/ Sized(statuses[Len(statuses)])) => pc = "exited"
    <3>1. statuses # <<>> => Len(statuses) \in 1 .. Len(out)
      BY <2>3
    <3>. QED  BY <2>4, <3>1
  <2>8. /\ ClientReads(statuses).found = statuses
        /\ ~ClientReads(statuses).complete => pc = "exited"
    BY Zenon, <2>6, <2>7
  <2>. QED  BY Zenon, <2>8 DEF ResponsesDelimited, statuses
<1>. QED  BY <1>1, <1>2, <1>3, PTL DEF Spec
=============================================================================
