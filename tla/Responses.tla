----------------------------- MODULE Responses -----------------------------
(***************************************************************************)
(* The text of the responses, by the function that writes each, and how a  *)
(* client cuts the stream it gets into responses.  Texts are in lines, and *)
(* Content-Length counts lines.                                            *)
(***************************************************************************)
EXTENDS Integers, Sequences, SequencesExt

Line(kind)       == [kind |-> kind, status |-> "", length |-> 0]
StatusLine(s)    == [kind |-> "status", status |-> s, length |-> 0]
ContentLength(n) == [kind |-> "length", status |-> "", length |-> n]
Lines(kind, n)   == [i \in 1 .. n |-> Line(kind)]

\* A status line, n other header lines, and a body with its length.
Page(status, n, body) ==
    <<StatusLine(status)>> \o Lines("field", n)
        \o <<ContentLength(Len(body)), Line("blank")>> \o body
\* A body without a length.
OpenPage(status, n, body) ==
    <<StatusLine(status)>> \o Lines("field", n) \o <<Line("blank")>> \o body

Html == Lines("text", 2)

bad_request               == Page("400", 2, Html)
Unauthorized_response     == OpenPage("401", 2, Html)
Authorizedfailed_response == OpenPage("401bad", 2, Html)
forbidden                 == Page("403", 2, Html)
\* Mutant: the length is left out.
UnsizedNotFound(status)   == OpenPage(status, 2, Html)
not_found(status)         == Page(status, 2, Html)
method_not_allowed        == Page("501method", 3, Html)
not_implemented(status)   == Page(status, 2, Html \o Lines("text", 1))
ok_post                   == Page("201", 3, Html)
\* The file that is sent may look like a response itself.
ok_get                    == Page("200", 2, Page("200", 1, <<>>) \o Html)

TextOf(status) ==
    CASE status = "200"                -> ok_get
      [] status = "201"                -> ok_post
      [] status = "400"                -> bad_request
      [] status = "401"                -> Unauthorized_response
      [] status = "401bad"             -> Authorizedfailed_response
      [] status = "403"                -> forbidden
      [] status \in {"404", "404url"}  -> not_found(status)
      [] status = "501method"          -> method_not_allowed
      [] OTHER                         -> not_implemented(status)

(***************************************************************************)
(* The client, RFC 7230: a body without a length lasts until the           *)
(* connection ends.                                                        *)
(***************************************************************************)
Unknown == -1

ClientLine(c, line) ==
    CASE c.at = "start" ->
            [at |-> "fields", left |-> Unknown, found |-> Append(c.found, line.status)]
      [] c.at = "fields" /\ line.kind = "length" -> [c EXCEPT !.left = line.length]
      [] c.at = "fields" /\ line.kind = "blank" ->
            [c EXCEPT !.at = IF c.left = 0 THEN "start" ELSE "body"]
      [] c.at = "body" /\ c.left # Unknown ->
            [c EXCEPT !.left = @ - 1, !.at = IF c.left = 1 THEN "start" ELSE "body"]
      [] OTHER -> c

\* The responses the client finds in the texts of these, and whether the last
\* one is complete.
ClientReads(statuses) ==
    LET texts[i \in 0 .. Len(statuses)] ==
          IF i = 0 THEN <<>> ELSE texts[i - 1] \o TextOf(statuses[i])
        text == texts[Len(statuses)]
        reads[i \in 0 .. Len(text)] ==
          IF i = 0 THEN [at |-> "start", left |-> Unknown, found |-> <<>>]
          ELSE ClientLine(reads[i - 1], text[i])
        c == reads[Len(text)]
    IN  [found |-> c.found, complete |-> c.at = "start"]
=============================================================================
