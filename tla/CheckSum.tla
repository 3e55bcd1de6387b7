------------------------------ MODULE CheckSum ------------------------------
(***************************************************************************)
(* CheckSum() of vpn.c, the checksum of an echo request, and the sum by    *)
(* which the server's system accepts or drops it.                          *)
(***************************************************************************)
EXTENDS Integers, Sequences

\* The while loop: words are added in 32 bits, and so is a last odd byte, which
\* a little-endian machine puts in the low half of a word.
li_Sum32Bits(words) ==
    LET s[i \in 0 .. Len(words)] == IF i = 0 THEN 0 ELSE s[i - 1] + words[i]
    IN  s[Len(words)]

\* Mutant: the carry of the first folding is dropped.
FoldOnce(sum) == ((sum \div 65536) + (sum % 65536)) % 65536
\* Both foldings, and the conversion to 16 bits.
Fold(sum) ==
    LET once == (sum \div 65536) + (sum % 65536)
    IN  (once + (once \div 65536)) % 65536

CheckSum(words) == 65535 - Fold(li_Sum32Bits(words))

(***************************************************************************)
(* The receiver, RFC 1071: addition with end-around carry.                 *)
(***************************************************************************)
AddOnes(a, b) == IF a + b > 65535 THEN a + b - 65535 ELSE a + b

OnesSum(words) ==
    LET s[i \in 0 .. Len(words)] == IF i = 0 THEN 0 ELSE AddOnes(s[i - 1], words[i])
    IN  s[Len(words)]

\* A message with the checksum in its field is accepted.
Accepts(words) == OnesSum(words) = 65535
=============================================================================
