---------------------------- MODULE MCAlgorithms ----------------------------
(***************************************************************************)
(* The pure algorithms on bounded inputs, one input to a state.            *)
(***************************************************************************)
EXTENDS Base64, CheckSum, HeaderFields

VARIABLES kind, input

\* Bytes at the edges of the six bits of a sign and of a byte; bytes of texts
\* with a colon, an end, and the two letters of the account; words at the edges
\* of their 16 bits and of their sign.
EdgeBytes  == {0, 1, 3, 4, 63, 64, 127, 128, 255}
TextBytes  == {0, Colon, 97, 98}
EdgeWords  == {0, 1, 255, 32767, 32768, 65534, 65535}
Signs      == {0, 1, 37, 63, Pad, Other}
TwoAccounts == {<< <<97>>, <<98>> >>, << <<97>>, <<Colon, 98>> >>}

Init ==
    \/ kind = "bytes" /\ input \in BoundedSeq(EdgeBytes, 3)
    \/ kind = "text"  /\ input \in BoundedSeq(TextBytes, 5)
    \/ kind = "words" /\ input \in BoundedSeq(EdgeWords, 4)
    \/ kind = "signs" /\ input \in BoundedSeq(Signs, 5)
    \/ kind = "get"   /\ input \in Range(GetFields)
    \/ kind = "post"  /\ input \in Range(PostFields)

Next == UNCHANGED <<kind, input>>

Spec == Init /\ [][Next]_<<kind, input>>

\* http_server.c:108: the number of padding signs that token_decode() packs above
\* the value never mixes with it: what a client has encoded is decoded, with a
\* token after it or a carriage return, up to the size of the buffer.
DecodesWhatWasEncoded ==
    kind = "bytes" =>
        /\ http_base64_decode(Encode(input), 256) = [bytes |-> input, ok |-> TRUE]
        /\ http_base64_decode(Encode(input) \o <<Other>>, 256).bytes = input
        /\ http_base64_decode(Encode(<<255, 0, 255>> \o input), 256).bytes
             = <<255, 0, 255>> \o input
        /\ \A size \in 0 .. 3 :
              http_base64_decode(Encode(input), size).bytes
                = SubSeq(input, 1, IF size <= Len(input) THEN size ELSE Len(input))

\* http_server.c:250: credentials are accepted when they present an account, and
\* only then; so they are when the decoding ends with an error, or a NUL or a
\* second colon is among them.
AuthorizedIffAccount ==
    LET Means(bytes, text) ==
          check_authorization(text) = "authorized"
            <=> \E account \in Accounts : Presents(bytes, account)
    IN  /\ kind = "text" => Means(input, Encode(input))
        /\ kind = "signs" => Means(http_base64_decode(input, 256).bytes, input)

\* vpn.c:372: the folded carries make the checksum by which the server accepts the
\* request, wherever in the message the checksum is.
ServerAccepts ==
    kind = "words" =>
        \A k \in 1 .. Len(input) :
            LET zeroed == [input EXCEPT ![k] = 0]
            IN  Accepts([zeroed EXCEPT ![k] = CheckSum(zeroed)])

\* http_server.c:710: the comparison over the length of the received name, and the
\* order of the chains, find each field by its full name; but Accept is taken for
\* Accept-Language by a GET.
FieldsFound ==
    /\ kind = "get" => Field(GetFields, input) =
          (IF input = <<"Accept">> THEN <<"Accept", "Language">> ELSE input)
    /\ kind = "post" => Field(PostFields, input) = input
=============================================================================
