------------------------------- MODULE Base64 -------------------------------
(***************************************************************************)
(* Credentials: http_base64_decode(), auth_user() and                      *)
(* check_authorization() of http_server.c.                                 *)
(*                                                                         *)
(* A text is a sequence of signs: the digits 0 .. 63, Pad for "=", and     *)
(* Other for a character outside the alphabet (a carriage return ends the  *)
(* header line).  Its end is the final NUL.  The 32 bits of val and of     *)
(* DECODE_ERROR are read as signed: a token is worth less than 2^24 either *)
(* way, so that nothing else is lost of them.                              *)
(***************************************************************************)
EXTENDS Integers, Sequences, FiniteSets, SequencesExt

CONSTANT Accounts   \* astuser: pairs of a name and a password

Pad   == 64
Other == 65
Colon == 58

\* The names have no colon; neither they nor the passwords have a NUL.
ASSUME AccountsAssumption ==
    Accounts \subseteq Seq(Int \ {0, Colon}) \X Seq(Int \ {0})

DECODE_ERROR == -1

\* pos() is -1 for a character outside the alphabet, and is added all the same.
Digit(c) == IF c < Pad THEN c ELSE -1

\* The value of the digits, each padding sign being worth nothing.
Value(token) ==
    LET v[i \in 0 .. 4] ==
          IF i = 0 THEN 0
          ELSE v[i - 1] * 64 + (IF token[i] = Pad THEN 0 ELSE Digit(token[i]))
    IN  v[4]

Marker(token) == Cardinality({i \in 1 .. 4 : token[i] = Pad})

DigitAfterPad(token) == \E i, j \in 1 .. 4 : i < j /\ token[i] = Pad /\ token[j] # Pad

\* The number of padding signs goes above the 24 bits of the value; those of a
\* negative value are all set already.
token_decode(token) ==
    IF Len(token) < 4 \/ DigitAfterPad(token) \/ Marker(token) > 2
    THEN DECODE_ERROR
    ELSE LET val == Value(token)
         IN  IF val < 0 THEN val ELSE Marker(token) * 2^24 + val

\* Mutant: the padding is not looked at.
ThreeBytes(val) == <<(val \div 2^16) % 256, (val \div 2^8) % 256, val % 256>>
BytesOf(val) ==
    LET marker == (val \div 2^24) % 256
        bytes  == <<(val \div 2^16) % 256, (val \div 2^8) % 256, val % 256>>
    IN  SubSeq(bytes, 1, IF marker < 1 THEN 3 ELSE IF marker < 2 THEN 2 ELSE 1)

\* The bytes that are written to data, and whether all were: the loop takes
\* tokens while the first sign of one is in the alphabet or padding.
http_base64_decode(text, size) ==
    LET Token(k) == SubSeq(text, 4 * k - 3, IF 4 * k <= Len(text) THEN 4 * k ELSE Len(text))
        Room(bytes) == SubSeq(bytes, 1, IF Len(bytes) <= size THEN Len(bytes) ELSE size)
        n == (Len(text) + 3) \div 4
        d[k \in 0 .. n] ==
          IF k = 0 THEN [bytes |-> <<>>, ok |-> TRUE, more |-> TRUE]
          ELSE IF ~d[k - 1].more THEN d[k - 1]
          ELSE IF Token(k)[1] = Other THEN [d[k - 1] EXCEPT !.more = FALSE]
          ELSE IF token_decode(Token(k)) = DECODE_ERROR
               THEN [d[k - 1] EXCEPT !.more = FALSE, !.ok = FALSE]
          ELSE LET all  == d[k - 1].bytes \o BytesOf(token_decode(Token(k)))
                   fits == Len(all) <= size
               IN  [bytes |-> Room(all), ok |-> fits, more |-> fits]
    IN  [bytes |-> d[n].bytes, ok |-> d[n].ok]

\* A C string: the bytes before the first NUL.
CString(bytes) ==
    LET k == SelectInSeq(bytes, LAMBDA b : b = 0)
    IN  IF k = 0 THEN bytes ELSE SubSeq(bytes, 1, k - 1)

auth_user(user, pwd) == <<user, pwd>> \in Accounts

\* The last colon.
LastColon(s)  == SelectLastInSeq(s, LAMBDA b : b = Colon)
FirstColon(s) == SelectInSeq(s, LAMBDA b : b = Colon)

\* What becomes of a request with these credentials; the result of the decoding
\* is not looked at, and that of strchr() is used when it is NULL.
check_authorization(text) ==
    LET plain == CString(http_base64_decode(text, 256).bytes)
        colon == FirstColon(plain)
    IN  IF colon = 0 THEN "crash"
        ELSE IF auth_user(SubSeq(plain, 1, colon - 1), SubSeq(plain, colon + 1, Len(plain)))
        THEN "authorized" ELSE "refused"

(***************************************************************************)
(* What the client means: the encoding of RFC 4648.                        *)
(***************************************************************************)
EncodeGroup(b) ==
    LET v == b[1] * 2^16 + (IF Len(b) > 1 THEN b[2] * 2^8 ELSE 0)
                         + (IF Len(b) > 2 THEN b[3] ELSE 0)
        Sign(i) == (v \div 64^(4 - i)) % 64
    IN  [i \in 1 .. 4 |-> IF i <= Len(b) + 1 THEN Sign(i) ELSE Pad]

Encode(bytes) ==
    LET n == (Len(bytes) + 2) \div 3
        End(k) == IF 3 * k <= Len(bytes) THEN 3 * k ELSE Len(bytes)
        e[k \in 0 .. n] ==
          IF k = 0 THEN <<>> ELSE e[k - 1] \o EncodeGroup(SubSeq(bytes, 3 * k - 2, End(k)))
    IN  e[n]

\* These bytes present this account: its name, a colon, its password, and
\* nothing after it that a C string has.
Presents(bytes, account) ==
    LET line == account[1] \o <<Colon>> \o account[2]
    IN  /\ Len(bytes) >= Len(line) /\ SubSeq(bytes, 1, Len(line)) = line
        /\ Len(bytes) > Len(line) => bytes[Len(line) + 1] = 0
=============================================================================
