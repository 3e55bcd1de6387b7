-------------------------- MODULE Algorithms_proofs --------------------------
(***************************************************************************)
(* The pure algorithms for every input: the checksum of an echo request,   *)
(* the Base64 of the credentials and the authorization by them.            *)
(*                                                                         *)
(* li_Sum32Bits, OnesSum, Value, http_base64_decode and Encode are         *)
(* recursive functions.  Each is given a name by CHOOSE (Sums, OnesSums,   *)
(* Values, Decoded, Encoded), shown to exist (Recursion) and to go on as   *)
(* it is written, and what it computes follows by induction over 0 .. n    *)
(* (UpTo), which rests on the least element of a set of numbers.           *)
(***************************************************************************)
EXTENDS MCAlgorithms, HeaderFields_proofs, FiniteSetTheorems

(***************************************************************************)
(* Sums.                                                                   *)
(***************************************************************************)
Word == {n \in Nat : n < 65536}

\* The functions that li_Sum32Bits and OnesSum define, by name.
AreSums(s, words) ==
    s = [i \in 0 .. Len(words) |-> IF i = 0 THEN 0 ELSE s[i - 1] + words[i]]
AreOnesSums(s, words) ==
    s = [i \in 0 .. Len(words) |-> IF i = 0 THEN 0 ELSE AddOnes(s[i - 1], words[i])]
Sums(words)     == CHOOSE s : AreSums(s, words)
OnesSums(words) == CHOOSE s : AreOnesSums(s, words)

LEMMA WordsAreNumbers == \A w \in Word : w \in Nat
BY DEF Word

LEMMA SumsDefined ==
    ASSUME NEW words \in Seq(Word)
    PROVE  /\ li_Sum32Bits(words) = Sums(words)[Len(words)]
           /\ Sums(words) \in [0 .. Len(words) -> Nat] /\ Sums(words)[0] = 0
           /\ \A i \in 1 .. Len(words) : Sums(words)[i] = Sums(words)[i - 1] + words[i]
<1> DEFINE n == Len(words)
           step == [i \in 1 .. n |-> [a \in Nat |-> a + words[i]]]
<1>1. n \in Nat /\ \A i \in 1 .. n : words[i] \in Nat
  <2>1. n \in Nat
    OBVIOUS
  <2>2. ASSUME NEW i \in 1 .. n PROVE words[i] \in Nat
    <3>1. words[i] \in Word
      BY <2>2
    <3>. QED  BY <3>1, WordsAreNumbers
  <2>. QED  BY <2>1, <2>2
<1>2. step \in [1 .. n -> [Nat -> Nat]]
  BY <1>1
<1>3. PICK f \in [0 .. n -> Nat] : Iterates(f, n, 0, step)
  <2>. HIDE DEF step, n
  <2>1. 0 \in Nat
    OBVIOUS
  <2>. QED  BY <1>1, <1>2, <2>1, Recursion
<1>4. ASSUME NEW i \in 1 .. n PROVE f[i] = f[i - 1] + words[i]
  <2>1. i - 1 \in 0 .. n
    BY <1>1
  <2>2. f[i - 1] \in Nat
    BY <2>1
  <2>. QED  BY <1>3, <2>2 DEF Iterates
<1>5. AreSums(f, words)
  <2>. HIDE DEF n
  <2>1. \A i \in 0 .. n : f[i] = IF i = 0 THEN 0 ELSE f[i - 1] + words[i]
    BY <1>1, <1>3, <1>4 DEF Iterates
  <2>. QED  BY <2>1 DEF AreSums, n
<1>7. AreSums(Sums(words), words)
  BY <1>5 DEF Sums
<1> DEFINE s == Sums(words)
<1>8. s[0] = 0 /\ (\A i \in 1 .. n : s[i] = s[i - 1] + words[i]) /\ DOMAIN s = 0 .. n
  <2>. HIDE DEF n, s
  <2>1. s = [i \in 0 .. n |-> IF i = 0 THEN 0 ELSE s[i - 1] + words[i]]
    BY <1>7 DEF n, s, AreSums
  <2>2. \A i \in 0 .. n : s[i] = IF i = 0 THEN 0 ELSE s[i - 1] + words[i]
    BY <2>1
  <2>. QED  BY <1>1, <2>1, <2>2
<1>9. li_Sum32Bits(words) = s[n]
  BY DEF li_Sum32Bits, Sums, AreSums
<1>10. \A i \in 0 .. n : s[i] \in Nat
  <2> DEFINE T == {i \in 0 .. n : s[i] \in Nat}
  <2>. HIDE DEF s, n
  <2>1. 0 \in T
    BY <1>1, <1>8
  <2>2. ASSUME NEW i \in 1 .. n, i - 1 \in T PROVE i \in T
    <3>1. s[i - 1] \in Nat /\ words[i] \in Nat /\ i \in 0 .. n
      BY <1>1, <2>2
    <3>2. s[i] = s[i - 1] + words[i]
      BY <1>8
    <3>3. s[i] \in Nat
      BY <3>1, <3>2
    <3>. QED  BY <3>1, <3>3
  <2>3. 0 .. n \subseteq T
    <3>. HIDE DEF T
    <3>. QED  BY <1>1, <2>1, <2>2, UpTo
  <2>. QED  BY <2>3
<1>11. s \in [0 .. n -> Nat]
  <2>. HIDE DEF s, n
  <2>1. s = [i \in 0 .. n |-> IF i = 0 THEN 0 ELSE s[i - 1] + words[i]]
    BY <1>7 DEF n, s, AreSums
  <2>. QED  BY <1>10, <2>1
<1>. QED  BY <1>8, <1>9, <1>11

\* The high and the low word of a number.
LEMMA HighAndLow ==
    ASSUME NEW n \in Nat
    PROVE  /\ n \div 65536 \in Nat /\ n % 65536 \in Nat /\ n % 65536 < 65536
           /\ n = 65536 * (n \div 65536) + (n % 65536)
BY SMT

\* What 32 bits with a sign hold is below this.
Limit == 2147483648

Once(sum) == (sum \div 65536) + (sum % 65536)

\* Two foldings bring every sum down to a word: at most one carry comes of adding
\* the carries.
LEMMA FoldCarries ==
    ASSUME NEW sum \in Nat, sum < Limit
    PROVE  /\ Once(sum) \in Nat /\ Once(sum) < 98304
           /\ Fold(sum) = IF Once(sum) < 65536 THEN Once(sum) ELSE Once(sum) - 65535
<1> DEFINE once == Once(sum)
<1>1. once \in Nat /\ once < 98304
  BY SMT, HighAndLow DEF Once, Limit
<1>2. Fold(sum) = (once + (once \div 65536)) % 65536
  BY SMT DEF Fold, Once
<1>. HIDE DEF once
<1>3. CASE once < 65536
  <2>1. Fold(sum) = once
    BY SMT, <1>1, <1>2, <1>3
  <2>. QED  BY SMT, <1>1, <1>3, <2>1 DEF once
<1>4. CASE once >= 65536
  <2>1. once \div 65536 = 1
    BY SMT, <1>1, <1>4
  <2>2. Fold(sum) = once - 65535
    BY SMT, <1>1, <1>2, <1>4, <2>1
  <2>. QED  BY SMT, <1>1, <1>4, <2>2 DEF once
<1>. QED  BY SMT, <1>1, <1>3, <1>4

\* vpn.c:397: adding words in 32 bits and folding the carries at the end is the
\* same as adding them one by one with the end-around carry of the receiver:
\* whatever has been summed up so far, a further word has the same effect on both.
THEOREM FoldAddsWords ==
    ASSUME NEW sum \in Nat, NEW word \in Nat, word < 65536, sum + word < Limit
    PROVE  Fold(sum + word) = AddOnes(Fold(sum), word)
<1> DEFINE high  == sum \div 65536
           low   == sum % 65536
           total == sum + word
<1>1. high \in Nat /\ low \in Nat /\ low < 65536 /\ sum = 65536 * high + low
  BY SMT, HighAndLow
<1>2. Once(sum) = high + low
  BY SMT DEF Once
<1>3. total \in Nat /\ total < Limit /\ total = 65536 * high + low + word
  BY SMT, <1>1
<1>. HIDE DEF high, low, total
<1>4. Once(total) = IF low + word < 65536 THEN high + low + word
                                          ELSE high + low + word - 65535
  <2>1. CASE low + word < 65536
    <3>1. total \div 65536 = high /\ total % 65536 = low + word
      BY SMT, <1>1, <1>3, <2>1
    <3>. QED  BY SMT, <1>1, <2>1, <3>1 DEF Once
  <2>2. CASE low + word >= 65536
    <3>1. total \div 65536 = high + 1 /\ total % 65536 = low + word - 65536
      BY SMT, <1>1, <1>3, <2>2
    <3>. QED  BY SMT, <1>1, <2>2, <3>1 DEF Once
  <2>. QED  BY SMT, <1>1, <2>1, <2>2
<1>8. Limit \in Nat
  BY DEF Limit
<1>9. sum < Limit /\ high < 32768
  <2>1. sum < Limit
    BY SMT, <1>1, <1>3, <1>8
  <2>. QED  BY SMT, <1>1, <2>1 DEF Limit
<1>5. /\ Fold(sum) = IF high + low < 65536 THEN high + low ELSE high + low - 65535
  BY SMT, <1>1, <1>2, <1>9, FoldCarries
<1>6. Fold(total) = IF Once(total) < 65536 THEN Once(total) ELSE Once(total) - 65535
  BY SMT, <1>3, FoldCarries
<1> DEFINE f == Fold(sum)
           o == Once(total)
<1>10. f \in Nat /\ o \in Nat
  BY SMT, <1>1, <1>4, <1>5
<1>11. f = IF high + low < 65536 THEN high + low ELSE high + low - 65535
  BY <1>5
<1>12. o = IF low + word < 65536 THEN high + low + word ELSE high + low + word - 65535
  BY <1>4
<1>13. Fold(total) = IF o < 65536 THEN o ELSE o - 65535
  BY <1>6
<1>. HIDE DEF f, o
<1>14. (IF o < 65536 THEN o ELSE o - 65535) = AddOnes(f, word)
  BY SMT, <1>1, <1>9, <1>10, <1>11, <1>12 DEF AddOnes
<1>7. Fold(total) = AddOnes(Fold(sum), word)
  BY SMT, <1>13, <1>14 DEF f
<1>. QED  BY SMT, <1>7 DEF total

LEMMA OnesSumsDefined ==
    ASSUME NEW words \in Seq(Word)
    PROVE  /\ OnesSum(words) = OnesSums(words)[Len(words)]
           /\ OnesSums(words)[0] = 0
           /\ \A i \in 1 .. Len(words) :
                 OnesSums(words)[i] = AddOnes(OnesSums(words)[i - 1], words[i])
<1> DEFINE n == Len(words)
           step == [i \in 1 .. n |-> [a \in Nat |-> AddOnes(a, words[i])]]
           s == OnesSums(words)
<1>1. n \in Nat /\ \A i \in 1 .. n : words[i] \in Nat
  BY WordsAreNumbers
<1>2. step \in [1 .. n -> [Nat -> Nat]]
  <2>1. \A i \in 1 .. n : \A a \in Nat : AddOnes(a, words[i]) \in Nat
    BY <1>1 DEF AddOnes
  <2>. HIDE DEF n
  <2>. QED  BY <2>1
<1>3. PICK f \in [0 .. n -> Nat] : Iterates(f, n, 0, step)
  <2>. HIDE DEF step, n
  <2>1. 0 \in Nat
    OBVIOUS
  <2>. QED  BY <1>1, <1>2, <2>1, Recursion
<1>4. ASSUME NEW i \in 1 .. n PROVE f[i] = AddOnes(f[i - 1], words[i])
  <2>1. i - 1 \in 0 .. n
    BY <1>1
  <2>2. f[i - 1] \in Nat
    BY <2>1
  <2>. QED  BY <1>3, <2>2 DEF Iterates
<1>5. AreOnesSums(f, words)
  <2>. HIDE DEF n
  <2>1. \A i \in 0 .. n : f[i] = IF i = 0 THEN 0 ELSE AddOnes(f[i - 1], words[i])
    BY <1>1, <1>3, <1>4 DEF Iterates
  <2>. QED  BY <2>1 DEF AreOnesSums, n
<1>6. AreOnesSums(s, words)
  BY <1>5 DEF OnesSums
<1>7. s[0] = 0 /\ (\A i \in 1 .. n : s[i] = AddOnes(s[i - 1], words[i]))
  <2>. HIDE DEF n, s
  <2>1. s = [i \in 0 .. n |-> IF i = 0 THEN 0 ELSE AddOnes(s[i - 1], words[i])]
    BY <1>6 DEF n, AreOnesSums
  <2>2. \A i \in 0 .. n : s[i] = IF i = 0 THEN 0 ELSE AddOnes(s[i - 1], words[i])
    BY <2>1
  <2>. QED  BY <1>1, <2>2
<1>8. OnesSum(words) = s[n]
  BY DEF OnesSum, OnesSums, AreOnesSums
<1>. QED  BY <1>7, <1>8

\* So many words have a sum below 2^31, which 32 bits hold.
MaxWords == 32768

LEMMA SumsBounded ==
    ASSUME NEW words \in Seq(Word), Len(words) <= MaxWords
    PROVE  \A i \in 0 .. Len(words) : Sums(words)[i] \in Nat /\ Sums(words)[i] <= 65535 * i
<1> DEFINE n == Len(words)
           s == Sums(words)
           T == {i \in 0 .. n : s[i] <= 65535 * i}
<1>1. n \in Nat /\ s \in [0 .. n -> Nat] /\ s[0] = 0
      /\ \A i \in 1 .. n : s[i] = s[i - 1] + words[i]
  BY SumsDefined
<1>2. \A i \in 1 .. n : words[i] \in Nat /\ words[i] <= 65535
  <2>1. \A w \in Word : w \in Nat /\ w <= 65535
    BY DEF Word
  <2>. QED  BY <2>1
<1>. HIDE DEF n, s
<1>3. 0 \in T
  BY <1>1
<1>4. ASSUME NEW i \in 1 .. n, i - 1 \in T PROVE i \in T
  <2>1. i \in 0 .. n /\ i - 1 \in 0 .. n /\ i \in Nat
    BY <1>1
  <2>2. s[i - 1] \in Nat /\ s[i - 1] <= 65535 * (i - 1)
    BY <1>1, <1>4, <2>1
  <2>3. s[i - 1] + words[i] <= 65535 * i
    BY <1>2, <2>1, <2>2
  <2>. QED  BY <1>1, <2>1, <2>3
<1>5. 0 .. n \subseteq T
  <2>. HIDE DEF T
  <2>. QED  BY <1>1, <1>3, <1>4, UpTo
<1>. QED  BY <1>1, <1>5 DEF n, s

LEMMA SumsFit ==
    ASSUME NEW i \in Nat, i <= 32768, NEW sum \in Nat, sum <= 65535 * i
    PROVE  sum < Limit
BY SMT DEF Limit

LEMMA FoldIsWord ==
    ASSUME NEW sum \in Nat, sum < Limit
    PROVE  Fold(sum) \in Word
<1>1. Once(sum) \in Nat /\ Once(sum) < 98304
      /\ Fold(sum) = IF Once(sum) < 65536 THEN Once(sum) ELSE Once(sum) - 65535
  BY FoldCarries
<1>2. \A n \in Nat : n <= 65535 => n \in Word
  BY DEF Word
<1>. HIDE DEF Once
<1>. QED  BY <1>1, <1>2

LEMMA AddOnesCommutes ==
    ASSUME NEW a \in Nat, a <= 65535, NEW b \in Nat, b <= 65535, NEW c \in Nat, c <= 65535
    PROVE  AddOnes(AddOnes(a, c), b) = AddOnes(AddOnes(a, b), c)
BY DEF AddOnes

\* vpn.c:372: the checksum that CheckSum() makes of a message is the one by which
\* the receiver accepts it, for every message of up to 32768 words (an echo
\* request has 32), and wherever in the message the checksum is.
THEOREM RequestsAreAccepted ==
    ASSUME NEW words \in Seq(Word), Len(words) <= MaxWords, NEW k \in 1 .. Len(words)
    PROVE  LET zeroed == [words EXCEPT ![k] = 0]
           IN  Accepts([zeroed EXCEPT ![k] = CheckSum(zeroed)])
<1> DEFINE z == [words EXCEPT ![k] = 0]
           n == Len(words)
           s == Sums(z)
           c == CheckSum(z)
           m == [z EXCEPT ![k] = c]
           o == OnesSums(m)
<1>1. n \in Nat /\ n <= 32768 /\ k \in 1 .. n
  BY DEF MaxWords
<1>2. /\ z \in Seq(Word) /\ Len(z) = n /\ z[k] = 0
      /\ \A i \in 1 .. n : i # k => z[i] = words[i]
  <2>1. 0 \in Word
    BY DEF Word
  <2>. QED  BY <2>1
<1>3. /\ s[0] = 0 /\ \A i \in 1 .. n : s[i] = s[i - 1] + z[i]
      /\ li_Sum32Bits(z) = s[n]
  <2>. HIDE DEF z, n
  <2>. QED  BY <1>2, SumsDefined
<1>4. \A i \in 0 .. n : s[i] \in Nat /\ s[i] <= 65535 * i
  <2>. HIDE DEF z, n
  <2>. QED  BY <1>1, <1>2, SumsBounded DEF MaxWords
<1>5. \A i \in 0 .. n : s[i] \in Nat /\ s[i] < Limit
  <2>. HIDE DEF s, n
  <2>1. \A i \in 0 .. n : i \in Nat /\ i <= 32768
    BY <1>1
  <2>2. ASSUME NEW i \in 0 .. n PROVE s[i] \in Nat /\ s[i] < Limit
    <3>1. i \in Nat /\ i <= 32768 /\ s[i] \in Nat /\ s[i] <= 65535 * i
      BY <1>4, <2>1
    <3> DEFINE sum == s[i]
    <3>2. sum \in Nat /\ sum <= 65535 * i
      BY <3>1
    <3>. HIDE DEF sum
    <3>3. sum < Limit
      BY SMT, <3>1, <3>2, SumsFit
    <3>. QED  BY <3>1, <3>3 DEF sum
  <2>. QED  BY <2>2
<1>6. \A i \in 0 .. n : Fold(s[i]) \in Word
  <2>. HIDE DEF s, n
  <2>. QED  BY <1>5, FoldIsWord
<1>7. c = 65535 - Fold(s[n]) /\ c \in Word
  <2>1. c = 65535 - Fold(s[n])
    <3>. HIDE DEF z, s, n
    <3>. QED  BY <1>3 DEF CheckSum
  <2>. HIDE DEF c, s, n
  <2>2. Fold(s[n]) \in Word
    BY <1>1, <1>6
  <2>3. \A w \in Word : 65535 - w \in Word
    BY DEF Word
  <2>. QED  BY <2>1, <2>2, <2>3
<1>8. /\ m \in Seq(Word) /\ Len(m) = n /\ m[k] = c
      /\ \A i \in 1 .. n : i # k => m[i] = z[i]
  <2>. HIDE DEF c, z, n
  <2>. QED  BY <1>1, <1>2, <1>7
<1>9. /\ OnesSum(m) = o[n] /\ o[0] = 0
      /\ \A i \in 1 .. n : o[i] = AddOnes(o[i - 1], m[i])
  <2>. HIDE DEF m, n
  <2>. QED  BY <1>8, OnesSumsDefined
<1>10. \A i \in 1 .. n : z[i] \in Word
  <2>. HIDE DEF z, n
  <2>. QED  BY <1>2
<1>. HIDE DEF z, n, s, c, m, o
<1>11. \A w \in Word : w \in Nat /\ w <= 65535
  BY DEF Word
\* One word more, on both sides.
<1>12. ASSUME NEW i \in 1 .. n
       PROVE  Fold(s[i]) = AddOnes(Fold(s[i - 1]), z[i])
  <2>1. s[i - 1] \in Nat /\ s[i] \in Nat /\ s[i] < Limit /\ s[i] = s[i - 1] + z[i]
    BY <1>1, <1>3, <1>5
  <2>2. z[i] \in Nat /\ z[i] < 65536
    BY <1>10, <1>11
  <2> DEFINE a == s[i - 1]
             b == z[i]
  <2>3. a \in Nat /\ b \in Nat /\ b < 65536 /\ a + b < Limit /\ s[i] = a + b
    BY SMT, <2>1, <2>2
  <2>. HIDE DEF a, b
  <2>4. Fold(a + b) = AddOnes(Fold(a), b)
    BY SMT, <2>3, FoldAddsWords
  <2>. QED  BY SMT, <2>3, <2>4 DEF a, b
\* Before the checksum the sums are those of the sender; after it they differ
\* by the checksum.
<1> DEFINE T == {i \in 0 .. n : o[i] = IF i < k THEN Fold(s[i]) ELSE AddOnes(Fold(s[i]), c)}
<1>13. 0 \in T
  <2>1. Fold(0) = 0
    BY SMT DEF Fold
  <2>. QED  BY <1>1, <1>3, <1>9, <2>1
<1>14. ASSUME NEW i \in 1 .. n, i - 1 \in T PROVE i \in T
  <2>1. i \in 0 .. n /\ i - 1 \in 0 .. n /\ i \in Nat /\ k \in Nat
    BY <1>1
  <2> DEFINE F == Fold(s[i - 1])
  <2>2. F \in Nat /\ F <= 65535 /\ c \in Nat /\ c <= 65535 /\ z[i] \in Nat /\ z[i] <= 65535
    <3>1. F \in Word /\ c \in Word /\ z[i] \in Word
      BY <1>6, <1>7, <1>10, <2>1
    <3>. HIDE DEF F
    <3>. QED  BY <1>11, <3>1
  <2>3. Fold(s[i]) = AddOnes(F, z[i]) /\ o[i] = AddOnes(o[i - 1], m[i])
    BY <1>9, <1>12
  <2>4. o[i - 1] = IF i - 1 < k THEN F ELSE AddOnes(F, c)
    BY <1>14
  <2>. HIDE DEF F
  <2>5. CASE i < k
    <3>1. m[i] = z[i] /\ i - 1 < k
      BY <1>8, <2>1, <2>5
    <3>. QED  BY <2>1, <2>3, <2>4, <2>5, <3>1
  <2>6. CASE i = k
    <3>1. m[i] = c /\ z[i] = 0 /\ i - 1 < k
      BY <1>2, <1>8, <2>1, <2>6
    <3>2. Fold(s[i]) = F
      BY <2>2, <2>3, <3>1 DEF AddOnes
    <3>3. ~(i < k)
      BY <2>1, <2>6
    <3>. QED  BY <2>1, <2>3, <2>4, <3>1, <3>2, <3>3
  <2>7. CASE i > k
    <3>1. m[i] = z[i] /\ ~(i - 1 < k) /\ ~(i < k)
      BY <1>8, <2>1, <2>7
    <3>2. AddOnes(AddOnes(F, c), z[i]) = AddOnes(AddOnes(F, z[i]), c)
      BY <2>2, AddOnesCommutes
    <3>. QED  BY <2>1, <2>3, <2>4, <3>1, <3>2
  <2>. QED  BY <2>1, <2>5, <2>6, <2>7
<1>15. n \in T
  <2>1. 0 .. n \subseteq T
    <3>. HIDE DEF T
    <3>1. \A i \in 1 .. n : i - 1 \in T => i \in T
      BY <1>14
    <3>2. n \in Nat
      BY <1>1
    <3>. QED  BY <1>13, <3>1, <3>2, UpTo
  <2>. QED  BY <1>1, <2>1
<1>16. o[n] = AddOnes(Fold(s[n]), c)
  BY <1>1, <1>15
<1>17. o[n] = 65535
  <2>1. Fold(s[n]) \in Nat /\ Fold(s[n]) <= 65535
    BY <1>1, <1>6, <1>11
  <2>. QED  BY <1>7, <1>16, <2>1 DEF AddOnes
<1>18. Accepts(m)
  BY <1>9, <1>17 DEF Accepts
<1>. QED  BY <1>18 DEF m, c, z

(***************************************************************************)
(* Credentials.                                                            *)
(***************************************************************************)
State == [bytes : Seq(Int), ok : BOOLEAN, more : BOOLEAN]

TokenAt(text, k) == SubSeq(text, 4 * k - 3, IF 4 * k <= Len(text) THEN 4 * k ELSE Len(text))
Room(bytes, size) == SubSeq(bytes, 1, IF Len(bytes) <= size THEN Len(bytes) ELSE size)

\* One turn of the loop.
Turn(state, token, size) ==
    IF ~state.more THEN state
    ELSE IF token[1] = Other THEN [state EXCEPT !.more = FALSE]
    ELSE IF token_decode(token) = DECODE_ERROR
         THEN [state EXCEPT !.more = FALSE, !.ok = FALSE]
    ELSE LET all  == state.bytes \o BytesOf(token_decode(token))
             fits == Len(all) <= size
         IN  [bytes |-> Room(all, size), ok |-> fits, more |-> fits]

Begin == [bytes |-> <<>>, ok |-> TRUE, more |-> TRUE]
Tokens(text) == (Len(text) + 3) \div 4

AreDecoded(d, text, size) ==
    d = [k \in 0 .. Tokens(text) |->
           IF k = 0 THEN Begin ELSE Turn(d[k - 1], TokenAt(text, k), size)]
Decoded(text, size) == CHOOSE d : AreDecoded(d, text, size)

LEMMA DecodeUnfolds ==
    ASSUME NEW text, NEW size
    PROVE  http_base64_decode(text, size)
             = [bytes |-> Decoded(text, size)[Tokens(text)].bytes,
                ok    |-> Decoded(text, size)[Tokens(text)].ok]
BY DEF http_base64_decode, Decoded, AreDecoded, Tokens, Begin, Turn, TokenAt, Room


LEMMA CutSequence ==
    ASSUME NEW S, NEW s \in Seq(S), NEW k \in Nat, k <= Len(s)
    PROVE  /\ SubSeq(s, 1, k) \in Seq(S) /\ Len(SubSeq(s, 1, k)) = k
           /\ \A i \in 1 .. k : SubSeq(s, 1, k)[i] = s[i]
OBVIOUS

\* The digits of a token, and its value.
Worth(c) == IF c = Pad THEN 0 ELSE Digit(c)
AreValues(v, token) ==
    v = [i \in 0 .. 4 |-> IF i = 0 THEN 0 ELSE v[i - 1] * 64 + Worth(token[i])]
Values(token) == CHOOSE v : AreValues(v, token)

LEMMA ValueOfToken ==
    ASSUME NEW token, \A i \in 1 .. 4 : Worth(token[i]) \in Int
    PROVE  /\ Value(token) \in Int
           /\ Value(token) = 262144 * Worth(token[1]) + 4096 * Worth(token[2])
                             + 64 * Worth(token[3]) + Worth(token[4])
<1> DEFINE w1 == Worth(token[1])
           w2 == Worth(token[2])
           w3 == Worth(token[3])
           w4 == Worth(token[4])
           f == [i \in 0 .. 4 |-> IF i = 0 THEN 0 ELSE IF i = 1 THEN w1
                   ELSE IF i = 2 THEN w1 * 64 + w2
                   ELSE IF i = 3 THEN (w1 * 64 + w2) * 64 + w3
                   ELSE ((w1 * 64 + w2) * 64 + w3) * 64 + w4]
           v == Values(token)
<1>1. w1 \in Int /\ w2 \in Int /\ w3 \in Int /\ w4 \in Int
  OBVIOUS
<1>2. AreValues(f, token)
  <2>1. \A i \in 0 .. 4 : i = 0 \/ i = 1 \/ i = 2 \/ i = 3 \/ i = 4
    OBVIOUS
  <2>2. \A i \in 0 .. 4 : f[i] = IF i = 0 THEN 0 ELSE f[i - 1] * 64 + Worth(token[i])
    BY <1>1, <2>1
  <2>. QED  BY <2>2 DEF AreValues
<1>3. AreValues(v, token)
  <2>. HIDE DEF f
  <2>. QED  BY <1>2 DEF Values
<1>4. Value(token) = v[4]
  BY DEF Value, Values, AreValues, Worth
<1>5. /\ v[0] = 0 /\ v[1] = v[0] * 64 + w1 /\ v[2] = v[1] * 64 + w2
      /\ v[3] = v[2] * 64 + w3 /\ v[4] = v[3] * 64 + w4
  <2>. HIDE DEF v
  <2>1. \A i \in 0 .. 4 : v[i] = IF i = 0 THEN 0 ELSE v[i - 1] * 64 + Worth(token[i])
    BY <1>3 DEF AreValues
  <2>. QED  BY <2>1
<1>. HIDE DEF v, w1, w2, w3, w4
<1>6. v[1] = w1 /\ v[2] = w1 * 64 + w2
  BY <1>1, <1>5
<1>7. v[3] = (w1 * 64 + w2) * 64 + w3
  BY <1>1, <1>5, <1>6
<1>8. v[4] = 262144 * w1 + 4096 * w2 + 64 * w3 + w4
  BY <1>1, <1>5, <1>7
<1>9. v[4] \in Int
  BY <1>1, <1>8
<1>. QED  BY <1>4, <1>8, <1>9 DEF w1, w2, w3, w4

LEMMA MarkerIsNumber == ASSUME NEW token PROVE Marker(token) \in Nat
<1>1. IsFiniteSet(1 .. 4)
  <2>1. 1 \in Int /\ 4 \in Int
    OBVIOUS
  <2>. QED  BY <2>1, FS_Interval, Zenon
<1>2. IsFiniteSet({i \in 1 .. 4 : token[i] = Pad})
  BY <1>1, FS_Subset
<1>. QED  BY <1>2, FS_CardinalityType DEF Marker

\* Every token of signs decodes to a number, and a number to bytes.
LEMMA DecodedToken ==
    ASSUME NEW token \in Seq(Int)
    PROVE  token_decode(token) \in Int
<1>1. CASE Len(token) < 4
  BY <1>1 DEF token_decode, DECODE_ERROR
<1>2. CASE Len(token) >= 4
  <2>1. \A i \in 1 .. 4 : token[i] \in Int
    BY <1>2
  <2>2. \A i \in 1 .. 4 : Worth(token[i]) \in Int
    BY <2>1 DEF Worth, Digit
  <2>3. Value(token) \in Int
    BY <2>2, ValueOfToken
  <2>. QED  BY <2>3, MarkerIsNumber DEF token_decode, DECODE_ERROR
<1>. QED  BY <1>1, <1>2

LEMMA BytesAreInts ==
    ASSUME NEW val \in Int
    PROVE  BytesOf(val) \in Seq(Int)
<1> DEFINE bytes == <<(val \div 65536) % 256, (val \div 256) % 256, val % 256>>
           m == (val \div 16777216) % 256
           k == IF m < 1 THEN 3 ELSE IF m < 2 THEN 2 ELSE 1
<1>1. bytes \in Seq(Int) /\ Len(bytes) = 3
  OBVIOUS
<1>2. k \in 1 .. 3
  OBVIOUS
<1>3. BytesOf(val) = SubSeq(bytes, 1, k)
  BY SMT DEF BytesOf
<1>. HIDE DEF bytes, k
<1>4. SubSeq(bytes, 1, k) \in Seq(Int)
  <2>1. k \in Nat /\ k <= Len(bytes)
    BY <1>1, <1>2
  <2>. QED  BY <1>1, <2>1, CutSequence
<1>. QED  BY <1>3, <1>4

LEMMA TurnType ==
    ASSUME NEW state \in State, NEW token \in Seq(Int), NEW size \in Nat
    PROVE  Turn(state, token, size) \in State
<1> DEFINE all == state.bytes \o BytesOf(token_decode(token))
           fits == Len(all) <= size
<1>1. all \in Seq(Int)
  BY DecodedToken, BytesAreInts DEF State
<1>2. Room(all, size) \in Seq(Int)
  <2>. HIDE DEF all
  <2>1. Len(all) \in Nat
    BY <1>1
  <2>. QED  BY <1>1, <2>1 DEF Room
<1>3. fits \in BOOLEAN
  OBVIOUS
<1>4. [bytes |-> Room(all, size), ok |-> fits, more |-> fits] \in State
  <2>. HIDE DEF all, fits
  <2>. QED  BY <1>2, <1>3 DEF State
<1>5. [state EXCEPT !.more = FALSE] \in State
  BY DEF State
<1>6. [state EXCEPT !.more = FALSE, !.ok = FALSE] \in State
  BY DEF State
<1>. QED  BY <1>4, <1>5, <1>6, Zenon DEF Turn

LEMMA TokensAreNumbers ==
    ASSUME NEW text \in Seq(Int)
    PROVE  /\ Tokens(text) \in Nat
           /\ \A k \in 1 .. Tokens(text) : 4 * k - 3 \in 1 .. Len(text)
<1> DEFINE len == Len(text)
<1>1. len \in Nat
  OBVIOUS
<1>2. Tokens(text) = (len + 3) \div 4
  BY DEF Tokens
<1>. HIDE DEF len
<1>3. (len + 3) \div 4 \in Nat /\ \A k \in 1 .. (len + 3) \div 4 : 4 * k - 3 \in 1 .. len
  BY SMT, <1>1
<1>. QED  BY <1>2, <1>3 DEF len

LEMMA TokenType ==
    ASSUME NEW text \in Seq(Int), NEW k \in 1 .. Tokens(text)
    PROVE  TokenAt(text, k) \in Seq(Int)
<1> DEFINE a == 4 * k - 3
           b == IF 4 * k <= Len(text) THEN 4 * k ELSE Len(text)
<1>1. a \in 1 .. Len(text) /\ b \in 1 .. Len(text)
  <2>1. a \in 1 .. Len(text)
    BY TokensAreNumbers
  <2>2. k \in Nat /\ Len(text) \in Nat
    BY TokensAreNumbers
  <2>. QED  BY <2>1, <2>2
<1>. HIDE DEF a, b
<1>2. SubSeq(text, a, b) \in Seq(Int)
  BY <1>1
<1>. QED  BY <1>2 DEF TokenAt, a, b

LEMMA DecodedDefined ==
    ASSUME NEW text \in Seq(Int), NEW size \in Nat
    PROVE  /\ Decoded(text, size) \in [0 .. Tokens(text) -> State]
           /\ Decoded(text, size)[0] = Begin
           /\ \A k \in 1 .. Tokens(text) :
                 Decoded(text, size)[k]
                   = Turn(Decoded(text, size)[k - 1], TokenAt(text, k), size)
<1> DEFINE n == Tokens(text)
           step == [k \in 1 .. n |-> [st \in State |-> Turn(st, TokenAt(text, k), size)]]
           d == Decoded(text, size)
<1>1. n \in Nat /\ Begin \in State
  BY TokensAreNumbers DEF Begin, State
<1>2. \A k \in 1 .. n : \A st \in State : Turn(st, TokenAt(text, k), size) \in State
  BY TokenType, TurnType
<1>3. step \in [1 .. n -> [State -> State]]
  <2>. HIDE DEF n
  <2>. QED  BY <1>2
<1>4. PICK f \in [0 .. n -> State] : Iterates(f, n, Begin, step)
  <2>. HIDE DEF step, n
  <2>. QED  BY <1>1, <1>3, Recursion
<1>5. ASSUME NEW k \in 1 .. n PROVE f[k] = Turn(f[k - 1], TokenAt(text, k), size)
  <2>1. k - 1 \in 0 .. n
    BY <1>1
  <2>2. f[k - 1] \in State
    BY <2>1
  <2>. QED  BY <1>4, <2>2 DEF Iterates
<1>6. AreDecoded(f, text, size)
  <2>. HIDE DEF n
  <2>1. \A k \in 0 .. n :
           f[k] = IF k = 0 THEN Begin ELSE Turn(f[k - 1], TokenAt(text, k), size)
    BY <1>1, <1>4, <1>5 DEF Iterates
  <2>. QED  BY <2>1 DEF AreDecoded, n
<1>7. AreDecoded(d, text, size)
  BY <1>6 DEF Decoded
<1>8. /\ d[0] = Begin /\ \A k \in 1 .. n : d[k] = Turn(d[k - 1], TokenAt(text, k), size)
      /\ d = [k \in 0 .. n |-> d[k]]
  <2>. HIDE DEF n, d
  <2>1. d = [k \in 0 .. n |-> IF k = 0 THEN Begin ELSE Turn(d[k - 1], TokenAt(text, k), size)]
    BY <1>7 DEF n, AreDecoded
  <2>2. \A k \in 0 .. n :
           d[k] = IF k = 0 THEN Begin ELSE Turn(d[k - 1], TokenAt(text, k), size)
    BY <2>1
  <2>3. 0 \in 0 .. n /\ \A k \in 1 .. n : k \in 0 .. n /\ k # 0
    BY <1>1
  <2>4. d[0] = Begin
    BY <2>2, <2>3
  <2>5. \A k \in 1 .. n : d[k] = Turn(d[k - 1], TokenAt(text, k), size)
    BY <2>2, <2>3
  <2>6. d = [k \in 0 .. n |-> d[k]]
    BY <2>1
  <2>. QED  BY <2>4, <2>5, <2>6
<1>9. \A k \in 0 .. n : d[k] \in State
  <2> DEFINE T == {k \in 0 .. n : d[k] \in State}
  <2>. HIDE DEF d, n
  <2>1. 0 \in T
    BY <1>1, <1>8
  <2>2. \A k \in 1 .. n : k - 1 \in T => k \in T
    <3>1. \A k \in 1 .. n : k \in 0 .. n /\ k - 1 \in 0 .. n
      BY <1>1
    <3>. QED  BY <1>2, <1>8, <3>1
  <2>3. 0 .. n \subseteq T
    <3>. HIDE DEF T
    <3>. QED  BY <1>1, <2>1, <2>2, UpTo
  <2>. QED  BY <2>3
<1>10. d \in [0 .. n -> State]
  <2>. HIDE DEF d, n
  <2>. QED  BY <1>8, <1>9
<1>. QED  BY <1>8, <1>10

LEMMA DecodedBytes ==
    ASSUME NEW text \in Seq(Int), NEW size \in Nat
    PROVE  http_base64_decode(text, size).bytes \in Seq(Int)
<1> DEFINE n == Tokens(text)
           d == Decoded(text, size)
<1>1. d \in [0 .. n -> State] /\ n \in Nat
  BY DecodedDefined, TokensAreNumbers
<1>2. http_base64_decode(text, size).bytes = d[n].bytes
  BY DecodeUnfolds
<1>. HIDE DEF d, n
<1>3. d[n] \in State
  BY <1>1
<1>. QED  BY <1>2, <1>3 DEF State

\* Where this byte is first, if it is there.
IsFirst(k, s, byte) ==
    IF k = 0 THEN \A i \in 1 .. Len(s) : s[i] # byte
    ELSE k \in 1 .. Len(s) /\ s[k] = byte /\ \A i \in 1 .. Len(s) : i < k => s[i] # byte

FirstIndex(s, byte) ==
    LET I == {i \in 1 .. Len(s) : s[i] = byte} IN IF I # {} THEN Min(I) ELSE 0

LEMMA FirstOf ==
    ASSUME NEW s \in Seq(Int), NEW byte, NEW k, k = FirstIndex(s, byte)
    PROVE  k \in 0 .. Len(s) /\ IsFirst(k, s, byte)
<1> DEFINE I == {i \in 1 .. Len(s) : s[i] = byte}
<1>1. k = IF I # {} THEN Min(I) ELSE 0
  BY DEF FirstIndex
<1>2. CASE I = {}
  <2>1. k = 0
    <3>. HIDE DEF I
    <3>. QED  BY <1>1, <1>2
  <2>. QED  BY <1>2, <2>1 DEF IsFirst
<1>3. CASE I # {}
  <2>1. \E i \in I : \A j \in I : i <= j
    <3>1. I \in SUBSET Nat
      OBVIOUS
    <3> HIDE DEF I
    <3>. QED  BY <1>3, <3>1, LeastNumber
  <2>2. k \in I /\ \A j \in I : k <= j
    <3> HIDE DEF I
    <3>. QED  BY <1>1, <1>3, <2>1 DEF Min
  <2>3. k \in 1 .. Len(s) /\ s[k] = byte /\ k # 0
    BY <2>2
  <2>4. ASSUME NEW i \in 1 .. Len(s), i < k PROVE s[i] # byte
    <3>. SUFFICES ASSUME s[i] = byte PROVE FALSE
      OBVIOUS
    <3>1. i \in I
      OBVIOUS
    <3>. HIDE DEF I
    <3>2. k <= i
      BY <2>2, <3>1
    <3>. QED  BY <2>3, <2>4, <3>2
  <2>. HIDE DEF I
  <2>. QED  BY <2>3, <2>4 DEF IsFirst
<1>. QED  BY <1>2, <1>3

LEMMA FirstColonIsFirst ==
    ASSUME NEW s \in Seq(Int)
    PROVE  FirstColon(s) \in 0 .. Len(s) /\ IsFirst(FirstColon(s), s, Colon)
<1>1. FirstColon(s) = FirstIndex(s, Colon)
  BY DEF FirstColon, SelectInSeq, FirstIndex
<1>. HIDE DEF FirstColon
<1>. QED  BY <1>1, FirstOf

\* A C string is a sequence up to its first NUL.
IsString(s, bytes) ==
    /\ Len(s) <= Len(bytes)
    /\ \A i \in 1 .. Len(s) : s[i] = bytes[i] /\ bytes[i] # 0
    /\ Len(s) < Len(bytes) => bytes[Len(s) + 1] = 0

LEMMA CStringIsString ==
    ASSUME NEW bytes \in Seq(Int)
    PROVE  CString(bytes) \in Seq(Int) /\ IsString(CString(bytes), bytes)
<1> DEFINE k == SelectInSeq(bytes, LAMBDA b : b = 0)
<1>1. k = FirstIndex(bytes, 0)
  BY DEF SelectInSeq, FirstIndex
<1>2. CString(bytes) = IF k = 0 THEN bytes ELSE SubSeq(bytes, 1, k - 1)
  BY DEF CString
<1>. HIDE DEF k
<1>3. k \in 0 .. Len(bytes) /\ IsFirst(k, bytes, 0)
  BY <1>1, FirstOf
<1>4. CASE k = 0
  <2>1. \A i \in 1 .. Len(bytes) : bytes[i] # 0
    BY <1>3, <1>4 DEF IsFirst
  <2>. QED  BY <1>2, <1>4, <2>1 DEF IsString
<1>5. CASE k # 0
  <2> DEFINE s == SubSeq(bytes, 1, k - 1)
  <2>1. k - 1 \in Nat /\ k - 1 <= Len(bytes) /\ k - 1 < Len(bytes) /\ (k - 1) + 1 = k
    BY <1>3, <1>5
  <2>2. s \in Seq(Int) /\ Len(s) = k - 1 /\ \A i \in 1 .. k - 1 : s[i] = bytes[i]
    BY <2>1, CutSequence
  <2>3. bytes[k] = 0 /\ \A i \in 1 .. k - 1 : bytes[i] # 0
    <3>1. \A i \in 1 .. k - 1 : i \in 1 .. Len(bytes) /\ i < k
      BY <1>3, <1>5
    <3>. QED  BY <1>3, <1>5, <3>1 DEF IsFirst
  <2>4. CString(bytes) = s
    BY <1>2, <1>5
  <2>. HIDE DEF s
  <2>5. IsString(s, bytes)
    BY <2>1, <2>2, <2>3 DEF IsString
  <2>. QED  BY <2>2, <2>4, <2>5
<1>. QED  BY <1>4, <1>5

\* Two C strings of the same bytes are the same.
LEMMA OneString ==
    ASSUME NEW bytes \in Seq(Int), NEW s \in Seq(Int), NEW t \in Seq(Int),
           IsString(s, bytes), IsString(t, bytes)
    PROVE  s = t
<1> DEFINE m == Len(s)
           n == Len(t)
<1>1. m \in Nat /\ n \in Nat
  OBVIOUS
<1>2. ~(m < n)
  <2>. SUFFICES ASSUME m < n PROVE FALSE
    OBVIOUS
  <2>1. bytes[m + 1] = 0
    BY DEF IsString
  <2>2. m + 1 \in 1 .. n
    BY <1>1
  <2>. QED  BY <2>1, <2>2 DEF IsString
<1>3. ~(n < m)
  <2>. SUFFICES ASSUME n < m PROVE FALSE
    OBVIOUS
  <2>1. bytes[n + 1] = 0
    BY DEF IsString
  <2>2. n + 1 \in 1 .. m
    BY <1>1
  <2>. QED  BY <2>1, <2>2 DEF IsString
<1>4. m = n
  BY <1>1, <1>2, <1>3
<1>5. \A i \in 1 .. m : s[i] = t[i]
  BY <1>4 DEF IsString
<1>. QED  BY <1>4, <1>5, SeqEqual

\* The line of an account.
Line(account) == account[1] \o <<Colon>> \o account[2]

LEMMA LineOfAccount ==
    ASSUME NEW u \in Seq(Int \ {0, Colon}), NEW p \in Seq(Int \ {0})
    PROVE  LET l == Line(<<u, p>>)
           IN  /\ l \in Seq(Int \ {0}) /\ Len(l) = Len(u) + 1 + Len(p)
               /\ \A i \in 1 .. Len(u) : l[i] = u[i] /\ l[i] # Colon
               /\ l[Len(u) + 1] = Colon
               /\ \A i \in 1 .. Len(p) : l[Len(u) + 1 + i] = p[i]
<1>1. Colon \in Int /\ Colon # 0
  BY DEF Colon
<1>2. Line(<<u, p>>) = u \o <<Colon>> \o p
  BY DEF Line
<1> DEFINE uc == u \o <<Colon>>
           l == uc \o p
<1>3. /\ uc \in Seq(Int \ {0}) /\ Len(uc) = Len(u) + 1
      /\ (\A i \in 1 .. Len(u) : uc[i] = u[i] /\ uc[i] # Colon) /\ uc[Len(u) + 1] = Colon
  <2>1. u \in Seq(Int \ {0})
    OBVIOUS
  <2>2. \A i \in 1 .. Len(u) : u[i] # Colon
    OBVIOUS
  <2>3. <<Colon>> \in Seq(Int \ {0}) /\ Len(<<Colon>>) = 1 /\ <<Colon>>[1] = Colon
    BY <1>1
  <2>. QED  BY <2>1, <2>2, <2>3
<1>. HIDE DEF uc
<1>4. /\ l \in Seq(Int \ {0}) /\ Len(l) = Len(uc) + Len(p)
      /\ (\A i \in 1 .. Len(uc) : l[i] = uc[i]) /\ \A i \in 1 .. Len(p) : l[Len(uc) + i] = p[i]
  <2>1. p \in Seq(Int \ {0}) /\ Len(uc) \in Nat /\ Len(p) \in Nat
    BY <1>3
  <2>2. /\ l \in Seq(Int \ {0}) /\ Len(l) = Len(uc) + Len(p)
        /\ \A i \in 1 .. Len(uc) + Len(p) : l[i] = IF i <= Len(uc) THEN uc[i] ELSE p[i - Len(uc)]
    BY <1>3, <2>1, ConcatProperties
  <2>. HIDE DEF l
  <2>3. ASSUME NEW i \in 1 .. Len(uc) PROVE l[i] = uc[i]
    BY <2>1, <2>2
  <2>4. ASSUME NEW i \in 1 .. Len(p) PROVE l[Len(uc) + i] = p[i]
    <3>1. Len(uc) + i \in 1 .. Len(uc) + Len(p) /\ ~(Len(uc) + i <= Len(uc))
          /\ (Len(uc) + i) - Len(uc) = i
      BY <2>1
    <3>. QED  BY <2>2, <3>1
  <2>. QED  BY <2>2, <2>3, <2>4
<1>. HIDE DEF l
<1>5. \A i \in 1 .. Len(u) : i \in 1 .. Len(uc)
  BY <1>3
<1>6. Len(u) + 1 \in 1 .. Len(uc)
  BY <1>3
<1>7. Line(<<u, p>>) = l
  BY <1>2 DEF l, uc
<1>8. /\ l \in Seq(Int \ {0}) /\ Len(l) = Len(u) + 1 + Len(p)
      /\ \A i \in 1 .. Len(u) : l[i] = u[i] /\ l[i] # Colon
      /\ l[Len(u) + 1] = Colon
      /\ \A i \in 1 .. Len(p) : l[Len(u) + 1 + i] = p[i]
  BY <1>3, <1>4, <1>5, <1>6
<1>. QED  BY <1>7, <1>8, Zenon

LEMMA PresentsAString ==
    ASSUME NEW bytes \in Seq(Int), NEW u \in Seq(Int \ {0, Colon}), NEW p \in Seq(Int \ {0})
    PROVE  Presents(bytes, <<u, p>>) <=> IsString(Line(<<u, p>>), bytes)
<1> DEFINE l == Line(<<u, p>>)
           m == Len(l)
           b == SubSeq(bytes, 1, m)
<1>1. l \in Seq(Int \ {0}) /\ m \in Nat
  <2>1. l \in Seq(Int \ {0})
    BY LineOfAccount
  <2>. HIDE DEF l
  <2>. QED  BY <2>1
<1>2. Presents(bytes, <<u, p>>)
        <=> Len(bytes) >= m /\ b = l /\ (Len(bytes) > m => bytes[m + 1] = 0)
  BY DEF Presents, Line
<1>. HIDE DEF l, b
<1>3. \A i \in 1 .. m : l[i] # 0
  BY <1>1
<1>4. l \in Seq(Int)
  BY <1>1
<1>5. Len(bytes) >= m => b \in Seq(Int) /\ Len(b) = m /\ \A i \in 1 .. m : b[i] = bytes[i]
  <2>. HIDE DEF m
  <2>. QED  BY <1>1, CutSequence DEF b
<1>6. ASSUME Len(bytes) >= m PROVE b = l <=> \A i \in 1 .. m : l[i] = bytes[i]
  BY <1>4, <1>5, <1>6, SeqEqual
<1>7. IsString(l, bytes)
        <=> /\ m <= Len(bytes) /\ \A i \in 1 .. m : l[i] = bytes[i] /\ bytes[i] # 0
            /\ m < Len(bytes) => bytes[m + 1] = 0
  BY DEF IsString
<1>8. Len(bytes) \in Nat
  OBVIOUS
<1>. HIDE DEF m
<1>9. CASE Len(bytes) >= m
  BY <1>1, <1>2, <1>3, <1>6, <1>7, <1>8, <1>9 DEF l
<1>10. CASE ~(Len(bytes) >= m)
  BY <1>1, <1>2, <1>7, <1>8, <1>10 DEF l
<1>. QED  BY <1>9, <1>10

\* The name and the password before and after the first colon are those of the
\* line they make.
LEMMA LineOfString ==
    ASSUME NEW plain \in Seq(Int), NEW k \in 1 .. Len(plain), IsFirst(k, plain, Colon),
           \A i \in 1 .. Len(plain) : plain[i] # 0
    PROVE  LET u == SubSeq(plain, 1, k - 1)
               p == SubSeq(plain, k + 1, Len(plain))
           IN  /\ u \in Seq(Int \ {0, Colon}) /\ p \in Seq(Int \ {0})
               /\ Line(<<u, p>>) = plain
<1> DEFINE n == Len(plain)
           u == SubSeq(plain, 1, k - 1)
           p == SubSeq(plain, k + 1, n)
           l == Line(<<u, p>>)
<1>1. n \in Nat /\ k \in Int /\ 1 <= k /\ k <= n
  OBVIOUS
<1>2. plain[k] = Colon /\ \A i \in 1 .. k - 1 : plain[i] \in Int \ {0, Colon}
  <2>1. \A i \in 1 .. k - 1 : i \in 1 .. n /\ i < k /\ k # 0
    BY <1>1
  <2>. QED  BY <2>1, <1>1 DEF IsFirst
<1>3. /\ u \in Seq(Int \ {0, Colon}) /\ Len(u) = k - 1
      /\ \A i \in 1 .. k - 1 : u[i] = plain[i]
  <2>1. /\ u \in Seq(Int \ {0, Colon})
        /\ Len(u) = IF 1 <= k - 1 THEN (k - 1) - 1 + 1 ELSE 0
        /\ \A i \in 1 .. (k - 1) - 1 + 1 : u[i] = plain[1 + i - 1]
    <3>1. 1 \in Int /\ k - 1 \in Int
      BY <1>1
    <3>. QED  BY <1>2, <3>1, SubSeqProperties
  <2>. HIDE DEF u
  <2>2. \A i \in 1 .. k - 1 : i \in 1 .. (k - 1) - 1 + 1 /\ 1 + i - 1 = i
    BY <1>1
  <2>. QED  BY <1>1, <2>1, <2>2
<1>4. /\ p \in Seq(Int \ {0}) /\ Len(p) = n - k
      /\ \A i \in 1 .. n - k : p[i] = plain[k + i]
  <2>1. \A i \in k + 1 .. n : plain[i] \in Int \ {0}
    <3>1. \A i \in k + 1 .. n : i \in 1 .. n
      BY <1>1
    <3>. QED  BY <3>1
  <2>2. /\ p \in Seq(Int \ {0})
        /\ Len(p) = IF k + 1 <= n THEN n - (k + 1) + 1 ELSE 0
        /\ \A i \in 1 .. n - (k + 1) + 1 : p[i] = plain[(k + 1) + i - 1]
    <3>1. k + 1 \in Int /\ n \in Int
      BY <1>1
    <3>. HIDE DEF n
    <3>. QED  BY <2>1, <3>1, SubSeqProperties
  <2>. HIDE DEF p
  <2>3. \A i \in 1 .. n - k : i \in 1 .. n - (k + 1) + 1 /\ (k + 1) + i - 1 = k + i
    BY <1>1
  <2>. QED  BY <1>1, <2>2, <2>3
<1>. HIDE DEF u, p
<1>5. /\ l \in Seq(Int \ {0}) /\ Len(l) = Len(u) + 1 + Len(p)
      /\ \A i \in 1 .. Len(u) : l[i] = u[i] /\ l[i] # Colon
      /\ l[Len(u) + 1] = Colon
      /\ \A i \in 1 .. Len(p) : l[Len(u) + 1 + i] = p[i]
  BY <1>3, <1>4, LineOfAccount
<1>. HIDE DEF l
<1>6. Len(l) = n
  BY <1>1, <1>3, <1>4, <1>5
<1>7. ASSUME NEW i \in 1 .. n PROVE l[i] = plain[i]
  <2>1. CASE i < k
    <3>1. i \in 1 .. Len(u) /\ i \in 1 .. k - 1
      BY <1>1, <1>3, <2>1
    <3>. QED  BY <1>3, <1>5, <3>1
  <2>2. CASE i = k
    <3>1. Len(u) + 1 = k
      BY <1>1, <1>3
    <3>. QED  BY <1>2, <1>5, <2>2, <3>1
  <2>3. CASE i > k
    <3> DEFINE j == i - k
    <3>1. j \in 1 .. Len(p) /\ j \in 1 .. n - k /\ Len(u) + 1 + j = i /\ k + j = i
      BY <1>1, <1>3, <1>4, <2>3
    <3>. HIDE DEF j
    <3>2. l[Len(u) + 1 + j] = p[j]
      BY <1>5, <3>1
    <3>3. p[j] = plain[k + j]
      BY <1>4, <3>1
    <3>. QED  BY <3>1, <3>2, <3>3, Zenon
  <2>. QED  BY <1>1, <2>1, <2>2, <2>3
<1>8. l \in Seq(Int)
  BY <1>5
<1>9. l = plain
  <2>. HIDE DEF n
  <2>. QED  BY <1>6, <1>7, <1>8, SeqEqual DEF n
<1>. QED  BY <1>3, <1>4, <1>9 DEF u, p, l

\* http_server.c:250: for every text that a client sends as its credentials, and
\* whatever accounts there are, a request is authorized when the decoded bytes
\* present one of them up to their first NUL, and only then.
THEOREM AuthorizedIffPresented ==
    ASSUME NEW text \in Seq(Int)
    PROVE  check_authorization(text) = "authorized"
             <=> \E account \in Accounts :
                    Presents(http_base64_decode(text, 256).bytes, account)
<1> DEFINE bytes == http_base64_decode(text, 256).bytes
           plain == CString(bytes)
           n == Len(plain)
           k == FirstColon(plain)
           u == SubSeq(plain, 1, k - 1)
           p == SubSeq(plain, k + 1, n)
<1>1. bytes \in Seq(Int)
  BY DecodedBytes
<1>2. check_authorization(text) = IF k = 0 THEN "crash"
                                  ELSE IF <<u, p>> \in Accounts THEN "authorized" ELSE "refused"
  BY DEF check_authorization, auth_user
<1>. HIDE DEF bytes
<1>3. plain \in Seq(Int) /\ IsString(plain, bytes)
  BY <1>1, CStringIsString
<1>. HIDE DEF plain
<1>4. k \in 0 .. n /\ IsFirst(k, plain, Colon)
  BY <1>3, FirstColonIsFirst
<1>5. \A i \in 1 .. n : plain[i] # 0
  BY <1>3 DEF IsString
<1>. HIDE DEF k
<1>6. ASSUME check_authorization(text) = "authorized"
      PROVE  \E account \in Accounts : Presents(bytes, account)
  <2>1. k # 0 /\ <<u, p>> \in Accounts
    BY <1>2, <1>6
  <2>2. k \in 1 .. Len(plain)
    BY <1>3, <1>4, <2>1
  <2>3. u \in Seq(Int \ {0, Colon}) /\ p \in Seq(Int \ {0}) /\ Line(<<u, p>>) = plain
    BY <1>3, <1>4, <1>5, <2>2, LineOfString
  <2>. HIDE DEF u, p
  <2>4. Presents(bytes, <<u, p>>)
    BY <1>1, <1>3, <2>3, PresentsAString
  <2>. QED  BY <2>1, <2>4
<1>7. ASSUME NEW account \in Accounts, Presents(bytes, account)
      PROVE  check_authorization(text) = "authorized"
  <2> DEFINE name == account[1]
             pwd == account[2]
             line == Line(account)
  <2>1. name \in Seq(Int \ {0, Colon}) /\ pwd \in Seq(Int \ {0}) /\ account = <<name, pwd>>
    BY AccountsAssumption
  <2>. HIDE DEF name, pwd
  <2>2. IsString(line, bytes)
    BY <1>1, <1>7, <2>1, PresentsAString
  <2>3. /\ line \in Seq(Int \ {0}) /\ Len(line) = Len(name) + 1 + Len(pwd)
        /\ \A i \in 1 .. Len(name) : line[i] = name[i] /\ line[i] # Colon
        /\ line[Len(name) + 1] = Colon
        /\ \A i \in 1 .. Len(pwd) : line[Len(name) + 1 + i] = pwd[i]
    BY <2>1, LineOfAccount
  <2>. HIDE DEF line
  <2>4. line \in Seq(Int)
    BY <2>3
  <2>5. line = plain
    BY <1>1, <1>3, <2>2, <2>4, OneString
  <2>6. Len(name) \in Nat /\ Len(pwd) \in Nat /\ n \in Nat
    BY <1>3, <2>1
  <2> DEFINE c == Len(name) + 1
  <2>7. c \in 1 .. n /\ plain[c] = Colon /\ \A i \in 1 .. n : i < c => plain[i] # Colon
    <3>1. c \in 1 .. n
      BY <2>3, <2>5, <2>6
    <3>2. \A i \in 1 .. n : i < c => i \in 1 .. Len(name)
      BY <2>6
    <3>. QED  BY <2>3, <2>5, <3>1, <3>2
  <2>8. k = c
    <3>1. k # 0
      <4>. SUFFICES ASSUME k = 0 PROVE FALSE
        OBVIOUS
      <4>1. \A i \in 1 .. n : plain[i] # Colon
        BY <1>4 DEF IsFirst
      <4>. HIDE DEF c
      <4>. QED  BY <2>7, <4>1
    <3>2. k \in 1 .. n /\ plain[k] = Colon /\ \A i \in 1 .. n : i < k => plain[i] # Colon
      BY <1>4, <3>1 DEF IsFirst
    <3>. HIDE DEF c, n
    <3>3. ~(k < c) /\ ~(c < k)
      BY <2>7, <3>2
    <3>4. k \in Int /\ c \in Int
      BY <2>6, <2>7, <3>2
    <3>. QED  BY <3>3, <3>4
  <2>9. u = name
    <3>1. k - 1 \in Nat /\ k - 1 <= n /\ Len(name) = k - 1
      BY <2>6, <2>7, <2>8
    <3>2. u \in Seq(Int) /\ Len(u) = k - 1 /\ \A i \in 1 .. k - 1 : u[i] = plain[i]
      BY <1>3, <3>1, CutSequence
    <3>3. \A i \in 1 .. k - 1 : u[i] = name[i]
      BY <2>3, <2>5, <3>1, <3>2
    <3>4. name \in Seq(Int)
      BY <2>1
    <3>. HIDE DEF u
    <3>. QED  BY <3>1, <3>2, <3>3, <3>4, SeqEqual
  <2>10. p = pwd
    <3>1. Len(pwd) = n - k /\ k \in Int
      BY <2>3, <2>5, <2>6, <2>8
    <3>2. \A i \in k + 1 .. n : plain[i] \in Int
      <4>1. \A i \in k + 1 .. n : i \in 1 .. n
        BY <2>6, <2>8
      <4>. QED  BY <1>3, <4>1
    <3>3. /\ p \in Seq(Int) /\ Len(p) = IF k + 1 <= n THEN n - (k + 1) + 1 ELSE 0
          /\ \A i \in 1 .. n - (k + 1) + 1 : p[i] = plain[(k + 1) + i - 1]
      <4>1. k + 1 \in Int /\ n \in Int
        BY <2>6, <3>1
      <4>. HIDE DEF n
      <4>. QED  BY <3>2, <4>1, SubSeqProperties
    <3>4. Len(p) = Len(pwd)
      BY <2>6, <3>1, <3>3
    <3>5. ASSUME NEW i \in 1 .. Len(pwd) PROVE p[i] = pwd[i]
      <4>1. i \in 1 .. n - (k + 1) + 1 /\ (k + 1) + i - 1 = Len(name) + 1 + i
        BY <2>6, <2>8, <3>1
      <4>2. p[i] = plain[Len(name) + 1 + i]
        BY <3>3, <4>1
      <4>. QED  BY <2>3, <2>5, <4>2
    <3>6. pwd \in Seq(Int)
      BY <2>1
    <3>. HIDE DEF p
    <3>. QED  BY <3>3, <3>4, <3>5, <3>6, SeqEqual
  <2>11. k # 0
    BY <2>6, <2>8
  <2>. HIDE DEF u, p, c
  <2>12. <<u, p>> \in Accounts
    BY <2>1, <2>9, <2>10
  <2>. QED  BY <1>2, <2>11, <2>12 DEF u, p
<1>. QED  BY <1>6, <1>7 DEF bytes

(***************************************************************************)
(* What a client encodes is decoded.                                       *)
(***************************************************************************)
Byte == {n \in Nat : n < 256}

\* The four digits of three bytes.
AreBytes(v, a, b, c) == v = 65536 * a + 256 * b + c
AreDigits(v, a, b, c) ==
    /\ v < 16777216
    /\ (v \div 262144) % 64 = a \div 4
    /\ (v \div 4096) % 64 = 16 * (a % 4) + b \div 16
    /\ (v \div 64) % 64 = 4 * (b % 16) + c \div 64
    /\ v % 64 = c % 64

LEMMA DigitsOfBytes ==
    ASSUME NEW a \in Nat, a < 256, NEW b \in Nat, b < 256, NEW c \in Nat, c < 256,
           NEW v \in Nat, AreBytes(v, a, b, c)
    PROVE  AreDigits(v, a, b, c)
<1>10. v = 65536 * a + 256 * b + c
  BY DEF AreBytes
<1>1. v \in Nat /\ v < 16777216
  BY SMT, <1>10
<1>2. PICK h1 \in Nat, l1 \in Nat : a = 4 * h1 + l1 /\ l1 < 4 /\ h1 < 64
                                    /\ h1 = a \div 4 /\ l1 = (a % 4)
  <2>1. a \div 4 \in Nat /\ (a % 4) \in Nat /\ a = 4 * (a \div 4) + (a % 4) /\ (a % 4) < 4
        /\ a \div 4 < 64
    BY SMT
  <2>. QED  BY SMT, <2>1
<1>3. PICK h2 \in Nat, l2 \in Nat : b = 16 * h2 + l2 /\ l2 < 16 /\ h2 < 16
                                    /\ h2 = b \div 16 /\ l2 = (b % 16)
  <2>1. b \div 16 \in Nat /\ (b % 16) \in Nat /\ b = 16 * (b \div 16) + (b % 16) /\ (b % 16) < 16
        /\ b \div 16 < 16
    BY SMT
  <2>. QED  BY SMT, <2>1
<1>4. PICK h3 \in Nat, l3 \in Nat : c = 64 * h3 + l3 /\ l3 < 64 /\ h3 < 4
                                    /\ h3 = c \div 64 /\ l3 = (c % 64)
  <2>1. c \div 64 \in Nat /\ (c % 64) \in Nat /\ c = 64 * (c \div 64) + (c % 64) /\ (c % 64) < 64
        /\ c \div 64 < 4
    BY SMT
  <2>. QED  BY SMT, <2>1
<1>11. /\ h1 \in Nat /\ l1 \in Nat /\ h1 < 64 /\ l1 < 4
       /\ h2 \in Nat /\ l2 \in Nat /\ h2 < 16 /\ l2 < 16
       /\ h3 \in Nat /\ l3 \in Nat /\ h3 < 4 /\ l3 < 64
  BY <1>2, <1>3, <1>4
<1>5. v = 262144 * h1 + 65536 * l1 + 4096 * h2 + 256 * l2 + 64 * h3 + l3
  BY SMT, <1>10, <1>2, <1>3, <1>4
<1>6. (v \div 262144) % 64 = h1
  <2> DEFINE q == h1
             r == 65536 * l1 + 4096 * h2 + 256 * l2 + 64 * h3 + l3
  <2>3. q \in Nat /\ r \in Nat /\ r < 262144 /\ v = 262144 * q + r
    BY SMT, <1>5, <1>11
  <2>4. v \div 262144 = q
    <3>. HIDE DEF q, r
    <3>. QED  BY SMT, <2>3
  <2>1. v \div 262144 = h1
    BY <2>4
  <2>2. h1 % 64 = h1
    BY SMT, <1>2
  <2>. QED  BY SMT, <2>1, <2>2
<1>7. (v \div 4096) % 64 = 16 * l1 + h2
  <2> DEFINE q == 64 * h1 + (16 * l1 + h2)
             r == 256 * l2 + 64 * h3 + l3
  <2>3. q \in Nat /\ r \in Nat /\ r < 4096 /\ v = 4096 * q + r
    BY SMT, <1>5, <1>11
  <2>4. v \div 4096 = q
    <3>. HIDE DEF q, r
    <3>. QED  BY SMT, <2>3
  <2>1. v \div 4096 = 64 * h1 + (16 * l1 + h2)
    BY <2>4
  <2>2. (64 * h1 + (16 * l1 + h2)) % 64 = 16 * l1 + h2
    BY SMT, <1>2, <1>3
  <2>. QED  BY SMT, <2>1, <2>2
<1>8. (v \div 64) % 64 = 4 * l2 + h3
  <2> DEFINE q == 64 * (64 * h1 + 16 * l1 + h2) + (4 * l2 + h3)
             r == l3
  <2>3. q \in Nat /\ r \in Nat /\ r < 64 /\ v = 64 * q + r
    BY SMT, <1>5, <1>11
  <2>4. v \div 64 = q
    <3>. HIDE DEF q, r
    <3>. QED  BY SMT, <2>3
  <2>1. v \div 64 = 64 * (64 * h1 + 16 * l1 + h2) + (4 * l2 + h3)
    BY <2>4
  <2>2. (64 * (64 * h1 + 16 * l1 + h2) + (4 * l2 + h3)) % 64 = 4 * l2 + h3
    BY SMT, <1>2, <1>3, <1>4
  <2>. QED  BY SMT, <2>1, <2>2
<1>9. v % 64 = l3
  BY SMT, <1>1, <1>2, <1>3, <1>4, <1>5, <1>10
<1>. QED  BY SMT, <1>1, <1>2, <1>3, <1>4, <1>6, <1>7, <1>8, <1>9 DEF AreDigits

OfDigits(a, b, c) ==
    262144 * (a \div 4) + 4096 * (16 * (a % 4) + b \div 16)
      + 64 * (4 * (b % 16) + c \div 64) + (c % 64)

LEMMA BytesOfDigits ==
    ASSUME NEW a \in Nat, a < 256, NEW b \in Nat, b < 256, NEW c \in Nat, c < 256
    PROVE  OfDigits(a, b, c) = 65536 * a + 256 * b + c
<1>1. a = 4 * (a \div 4) + (a % 4) /\ a \div 4 \in Nat /\ (a % 4) \in Nat
  BY SMT
<1>2. b = 16 * (b \div 16) + (b % 16) /\ b \div 16 \in Nat /\ (b % 16) \in Nat
  BY SMT
<1>3. c = 64 * (c \div 64) + (c % 64) /\ c \div 64 \in Nat /\ (c % 64) \in Nat
  BY SMT
<1>. QED  BY SMT, <1>1, <1>2, <1>3 DEF OfDigits

LEMMA CutTriple ==
    ASSUME NEW a \in Int, NEW b \in Int, NEW c \in Int
    PROVE  /\ SubSeq(<<a, b, c>>, 1, 3) = <<a, b, c>>
           /\ SubSeq(<<a, b, c>>, 1, 2) = <<a, b>>
           /\ SubSeq(<<a, b, c>>, 1, 1) = <<a>>
<1> DEFINE s == <<a, b, c>>
<1>1. s \in Seq(Int) /\ Len(s) = 3 /\ s[1] = a /\ s[2] = b /\ s[3] = c
  BY SMT
<1>. HIDE DEF s
<1>2. SubSeq(s, 1, 3) = <<a, b, c>>
  <2> DEFINE p == SubSeq(s, 1, 3)
             q == <<a, b, c>>
  <2>1. p \in Seq(Int) /\ Len(p) = 3 /\ \A i \in 1 .. 3 : p[i] = s[i]
    BY SMT, <1>1, CutSequence
  <2>2. q \in Seq(Int) /\ Len(q) = 3 /\ \A i \in 1 .. 3 : q[i] = s[i]
    BY SMT, <1>1
  <2>. HIDE DEF p, q
  <2>3. p = q
    <3>1. Len(p) = Len(q) /\ \A i \in 1 .. Len(p) : p[i] = q[i]
      BY SMT, <2>1, <2>2
    <3>. QED  BY Zenon, <2>1, <2>2, <3>1, SeqEqual
  <2>. QED  BY Zenon, <2>3 DEF p, q
<1>3. SubSeq(s, 1, 2) = <<a, b>>
  <2> DEFINE p == SubSeq(s, 1, 2)
             q == <<a, b>>
  <2>1. p \in Seq(Int) /\ Len(p) = 2 /\ \A i \in 1 .. 2 : p[i] = s[i]
    BY SMT, <1>1, CutSequence
  <2>2. q \in Seq(Int) /\ Len(q) = 2 /\ \A i \in 1 .. 2 : q[i] = s[i]
    BY SMT, <1>1
  <2>. HIDE DEF p, q
  <2>3. p = q
    <3>1. Len(p) = Len(q) /\ \A i \in 1 .. Len(p) : p[i] = q[i]
      BY SMT, <2>1, <2>2
    <3>. QED  BY Zenon, <2>1, <2>2, <3>1, SeqEqual
  <2>. QED  BY Zenon, <2>3 DEF p, q
<1>4. SubSeq(s, 1, 1) = <<a>>
  <2> DEFINE p == SubSeq(s, 1, 1)
             q == <<a>>
  <2>1. p \in Seq(Int) /\ Len(p) = 1 /\ \A i \in 1 .. 1 : p[i] = s[i]
    BY SMT, <1>1, CutSequence
  <2>2. q \in Seq(Int) /\ Len(q) = 1 /\ \A i \in 1 .. 1 : q[i] = s[i]
    BY SMT, <1>1
  <2>. HIDE DEF p, q
  <2>3. p = q
    <3>1. Len(p) = Len(q) /\ \A i \in 1 .. Len(p) : p[i] = q[i]
      BY SMT, <2>1, <2>2
    <3>. QED  BY Zenon, <2>1, <2>2, <3>1, SeqEqual
  <2>. QED  BY Zenon, <2>3 DEF p, q
<1>. QED  BY Zenon, <1>2, <1>3, <1>4 DEF s

\* A value of three bytes, under the number of padding signs.
Marked(m, a, b, c) == 16777216 * m + (65536 * a + 256 * b + c)

LEMMA BytesOfValue ==
    ASSUME NEW a \in Nat, a < 256, NEW b \in Nat, b < 256, NEW c \in Nat, c < 256,
           NEW m \in 0 .. 2
    PROVE  /\ Marked(m, a, b, c) \in Nat
           /\ BytesOf(Marked(m, a, b, c))
                = IF m = 0 THEN <<a, b, c>> ELSE IF m = 1 THEN <<a, b>> ELSE <<a>>
<1>. PICK v \in Nat : v = 16777216 * m + (65536 * a + 256 * b + c)
  BY SMT
<1>0. v = 16777216 * m + 65536 * a + 256 * b + c
  BY SMT
<1>1. v \in Nat /\ m \in Nat /\ m < 3
  BY SMT
<1>2. (v \div 16777216) % 256 = m
  <2>1. v \div 16777216 = m
    BY SMT, <1>0, <1>1
  <2>. QED  BY SMT, <1>1, <2>1
<1>3. (v \div 65536) % 256 = a
  <2>1. v \div 65536 = 256 * m + a
    BY SMT, <1>0, <1>1
  <2>. QED  BY SMT, <1>1, <2>1
<1>4. (v \div 256) % 256 = b
  <2>1. v \div 256 = 256 * (256 * m + a) + b
    BY SMT, <1>0, <1>1
  <2>2. (256 * (256 * m + a) + b) % 256 = b
    BY SMT, <1>0, <1>1
  <2>. QED  BY SMT, <2>1, <2>2
<1>5. v % 256 = c
  BY SMT, <1>0, <1>1
<1>6. BytesOf(v) = SubSeq(<<(v \div 65536) % 256, (v \div 256) % 256, v % 256>>, 1,
                          IF (v \div 16777216) % 256 < 1 THEN 3
                          ELSE IF (v \div 16777216) % 256 < 2 THEN 2 ELSE 1)
  BY SMT DEF BytesOf
<1>7. BytesOf(v) = SubSeq(<<a, b, c>>, 1, IF m < 1 THEN 3 ELSE IF m < 2 THEN 2 ELSE 1)
  BY SMT, <1>2, <1>3, <1>4, <1>5, <1>6
<1>11. Marked(m, a, b, c) = v
  BY SMT, <1>0 DEF Marked
<1>12. BytesOf(v) = IF m = 0 THEN <<a, b, c>> ELSE IF m = 1 THEN <<a, b>> ELSE <<a>>
  <2>1. m = 0 \/ m = 1 \/ m = 2
    BY SMT
  <2>2. SubSeq(<<a, b, c>>, 1, 3) = <<a, b, c>> /\ SubSeq(<<a, b, c>>, 1, 2) = <<a, b>>
        /\ SubSeq(<<a, b, c>>, 1, 1) = <<a>>
    BY SMT, CutTriple
  <2>3. m < 1 <=> m = 0
    BY SMT
  <2>4. m < 2 <=> m = 0 \/ m = 1
    BY SMT
  <2>5. CASE m = 0
    BY SMT, <1>7, <2>2, <2>3, <2>5
  <2>6. CASE m = 1
    BY SMT, <1>7, <2>2, <2>3, <2>4, <2>6
  <2>7. CASE m = 2
    BY SMT, <1>7, <2>2, <2>3, <2>4, <2>7
  <2>. QED  BY SMT, <2>1, <2>5, <2>6, <2>7
<1>. QED  BY SMT, <1>1, <1>11, <1>12

ByteAt(group, i) == IF i <= Len(group) THEN group[i] ELSE 0

\* The signs of a group of n bytes.
SignsAre(token, n, a, b, c) ==
    /\ token \in Seq(Int) /\ Len(token) = 4
    /\ token[1] = a \div 4
    /\ token[2] = 16 * (a % 4) + b \div 16
    /\ token[3] = IF n > 1 THEN 4 * (b % 16) + c \div 64 ELSE Pad
    /\ token[4] = IF n > 2 THEN c % 64 ELSE Pad

LEMMA SignsOfGroup ==
    ASSUME NEW group \in Seq(Byte), Len(group) \in 1 .. 3
    PROVE  /\ \A i \in 1 .. 3 : ByteAt(group, i) \in Nat /\ ByteAt(group, i) < 256
           /\ SignsAre(EncodeGroup(group), Len(group),
                       ByteAt(group, 1), ByteAt(group, 2), ByteAt(group, 3))
<1> DEFINE n == Len(group)
           token == EncodeGroup(group)
<1>13. PICK a : a = group[1]
  OBVIOUS
<1>14. PICK b : b = IF n > 1 THEN group[2] ELSE 0
  OBVIOUS
<1>15. PICK c : c = IF n > 2 THEN group[3] ELSE 0
  OBVIOUS
<1>16. a = ByteAt(group, 1) /\ b = ByteAt(group, 2) /\ c = ByteAt(group, 3)
  BY SMT, <1>13, <1>14, <1>15 DEF ByteAt
<1>1. a \in Nat /\ a < 256 /\ b \in Nat /\ b < 256 /\ c \in Nat /\ c < 256
  <2>1. \A i \in 1 .. n : group[i] \in Nat /\ group[i] < 256
    BY DEF Byte
  <2>. QED  BY SMT, <2>1, <1>13, <1>14, <1>15
<1>2. n = 1 \/ n = 2 \/ n = 3
  OBVIOUS
<1>12. PICK v \in Nat : v = 65536 * a + 256 * b + c
  BY SMT, <1>1
<1>3. token = [i \in 1 .. 4 |-> IF i <= n + 1
                 THEN ((group[1] * 2^16 + (IF n > 1 THEN group[2] * 2^8 ELSE 0)
                         + (IF n > 2 THEN group[3] ELSE 0)) \div 64^(4 - i)) % 64
                 ELSE Pad]
  BY Zenon DEF EncodeGroup
<1>4. group[1] * 2^16 + (IF n > 1 THEN group[2] * 2^8 ELSE 0)
        + (IF n > 2 THEN group[3] ELSE 0) = v
  <2>1. 2^16 = 65536 /\ 2^8 = 256
    BY SMT
  <2>2. (IF n > 1 THEN group[2] * 256 ELSE 0) = 256 * b
    BY SMT, <1>1, <1>14
  <2>3. (IF n > 2 THEN group[3] ELSE 0) = c
    BY SMT, <1>15
  <2>. QED  BY SMT, <1>1, <1>12, <1>13, <2>1, <2>2, <2>3
<1>5. token = [i \in 1 .. 4 |-> IF i <= n + 1 THEN (v \div 64^(4 - i)) % 64 ELSE Pad]
  BY Zenon, <1>3, <1>4
<1>6. /\ v \in Nat
      /\ (v \div 262144) % 64 = a \div 4
      /\ (v \div 4096) % 64 = 16 * (a % 4) + b \div 16
      /\ (v \div 64) % 64 = 4 * (b % 16) + c \div 64
      /\ v % 64 = c % 64
  <2>1. AreDigits(v, a, b, c)
    <3>1. AreBytes(v, a, b, c)
      BY <1>12 DEF AreBytes
    <3>. QED  BY SMT, <1>1, <3>1, DigitsOfBytes
  <2>. QED  BY SMT, <2>1 DEF AreDigits
<1>. HIDE DEF n, token
<1>7. 64^(4 - 1) = 262144 /\ 64^(4 - 2) = 4096 /\ 64^(4 - 3) = 64 /\ 64^(4 - 4) = 1
  BY SMT
<1>8. /\ token[1] = (v \div 262144) % 64
      /\ token[2] = (v \div 4096) % 64
      /\ token[3] = IF n > 1 THEN (v \div 64) % 64 ELSE Pad
      /\ token[4] = IF n > 2 THEN v % 64 ELSE Pad
  <2> DEFINE sign(i) == (v \div 64^(4 - i)) % 64
  <2>5. \A i \in 1 .. 4 : token[i] = IF i <= n + 1 THEN sign(i) ELSE Pad
    BY Zenon, <1>5
  <2>. HIDE DEF sign
  <2>6. 1 \in 1 .. 4 /\ 2 \in 1 .. 4 /\ 3 \in 1 .. 4 /\ 4 \in 1 .. 4
    OBVIOUS
  <2>7. /\ token[1] = IF 1 <= n + 1 THEN sign(1) ELSE Pad
        /\ token[2] = IF 2 <= n + 1 THEN sign(2) ELSE Pad
        /\ token[3] = IF 3 <= n + 1 THEN sign(3) ELSE Pad
        /\ token[4] = IF 4 <= n + 1 THEN sign(4) ELSE Pad
    BY Zenon, <2>5, <2>6
  <2>8. /\ 1 <= n + 1 /\ 2 <= n + 1 /\ (3 <= n + 1 <=> n > 1) /\ (4 <= n + 1 <=> n > 2)
    BY SMT, <1>2
  <2>1. token[1] = (v \div 64^(4 - 1)) % 64 /\ token[2] = (v \div 64^(4 - 2)) % 64
    BY Zenon, <2>7, <2>8 DEF sign
  <2>2. token[3] = IF n > 1 THEN (v \div 64^(4 - 3)) % 64 ELSE Pad
    BY Zenon, <2>7, <2>8 DEF sign
  <2>3. token[4] = IF n > 2 THEN (v \div 64^(4 - 4)) % 64 ELSE Pad
    BY Zenon, <2>7, <2>8 DEF sign
  <2>4. v \div 1 = v
    BY SMT, <1>6
  <2>. QED  BY SMT, <1>7, <2>1, <2>2, <2>3, <2>4
<1>9. \A i \in 1 .. 4 : token[i] \in Int
  <2>1. token[1] \in Int /\ token[2] \in Int /\ token[3] \in Int /\ token[4] \in Int
    BY SMT, <1>6, <1>8 DEF Pad
  <2>. QED  BY SMT, <2>1
<1>10. token \in Seq(Int) /\ Len(token) = 4
  <2>1. token = [i \in 1 .. 4 |-> token[i]]
    BY SMT, <1>5
  <2>. QED  BY SMT, <1>9, <2>1
<1>11. /\ token[1] = a \div 4
       /\ token[2] = 16 * (a % 4) + b \div 16
       /\ token[3] = IF n > 1 THEN 4 * (b % 16) + c \div 64 ELSE Pad
       /\ token[4] = IF n > 2 THEN c % 64 ELSE Pad
  BY SMT, <1>6, <1>8
<1>17. SignsAre(token, n, a, b, c)
  BY <1>10, <1>11 DEF SignsAre
<1>18. ByteAt(group, 1) \in Nat /\ ByteAt(group, 1) < 256 /\ ByteAt(group, 2) \in Nat
       /\ ByteAt(group, 2) < 256 /\ ByteAt(group, 3) \in Nat /\ ByteAt(group, 3) < 256
  BY <1>1, <1>16
<1>19. \A i \in 1 .. 3 : ByteAt(group, i) \in Nat /\ ByteAt(group, i) < 256
  <2>1. \A i \in 1 .. 3 : i = 1 \/ i = 2 \/ i = 3
    OBVIOUS
  <2>. QED  BY <1>18, <2>1
<1>. QED  BY <1>16, <1>17, <1>19, Zenon DEF token, n

LEMMA Padding ==
    ASSUME NEW token
    PROVE  /\ token[1] # Pad /\ token[2] # Pad /\ token[3] # Pad /\ token[4] # Pad
                => Marker(token) = 0
           /\ token[1] # Pad /\ token[2] # Pad /\ token[3] # Pad /\ token[4] = Pad
                => Marker(token) = 1
           /\ token[1] # Pad /\ token[2] # Pad /\ token[3] = Pad /\ token[4] = Pad
                => Marker(token) = 2
<1> DEFINE T == {i \in 1 .. 4 : token[i] = Pad}
<1>1. Marker(token) = Cardinality(T)
  BY DEF Marker
<1>2. \A i \in 1 .. 4 : i = 1 \/ i = 2 \/ i = 3 \/ i = 4
  OBVIOUS
<1>3. ASSUME token[1] # Pad, token[2] # Pad, token[3] # Pad, token[4] # Pad
      PROVE  Marker(token) = 0
  <2>1. T = {}
    BY <1>2, <1>3
  <2>. QED  BY <1>1, <2>1, FS_EmptySet
<1>4. ASSUME token[1] # Pad, token[2] # Pad, token[3] # Pad, token[4] = Pad
      PROVE  Marker(token) = 1
  <2>1. T = {4}
    BY <1>2, <1>4
  <2>. QED  BY <1>1, <2>1, FS_Singleton
<1>5. ASSUME token[1] # Pad, token[2] # Pad, token[3] = Pad, token[4] = Pad
      PROVE  Marker(token) = 2
  <2>1. T = {4} \cup {3}
    BY <1>2, <1>5
  <2>2. IsFiniteSet({4}) /\ Cardinality({4}) = 1 /\ 3 \notin {4}
    <3>1. IsFiniteSet({4}) /\ Cardinality({4}) = 1
      BY Zenon, FS_Singleton
    <3>. QED  BY <3>1
  <2>3. Cardinality({4} \cup {3}) = 1 + 1
    BY <2>2, FS_AddElement
  <2>. QED  BY <1>1, <2>1, <2>3
<1>. QED  BY <1>3, <1>4, <1>5

LEMMA DigitIsWorthItself ==
    ASSUME NEW d \in Nat, d < 64
    PROVE  d # Pad /\ d # Other /\ Worth(d) = d
BY SMT DEF Pad, Other, Worth, Digit

\* A group of one, two or three bytes comes back from its token.
LEMMA GroupDecodes ==
    ASSUME NEW group \in Seq(Byte), Len(group) \in 1 .. 3
    PROVE  LET token == EncodeGroup(group)
           IN  /\ token \in Seq(Int) /\ Len(token) = 4 /\ token[1] # Other
               /\ token_decode(token) # DECODE_ERROR
               /\ BytesOf(token_decode(token)) = group
<1> DEFINE token == EncodeGroup(group)
           n == Len(group)
<1>1. PICK a : a = ByteAt(group, 1)
  OBVIOUS
<1>2. PICK b : b = ByteAt(group, 2)
  OBVIOUS
<1>3. PICK c : c = ByteAt(group, 3)
  OBVIOUS
<1>20. a \in Nat /\ a < 256 /\ b \in Nat /\ b < 256 /\ c \in Nat /\ c < 256
  <2>1. 1 \in 1 .. 3 /\ 2 \in 1 .. 3 /\ 3 \in 1 .. 3
    OBVIOUS
  <2>2. \A i \in 1 .. 3 : ByteAt(group, i) \in Nat /\ ByteAt(group, i) < 256
    BY SMT, SignsOfGroup
  <2>. QED  BY SMT, <1>1, <1>2, <1>3, <2>1, <2>2
<1>21. SignsAre(token, n, a, b, c)
  <2>1. SignsAre(token, n, ByteAt(group, 1), ByteAt(group, 2), ByteAt(group, 3))
    BY Zenon, SignsOfGroup
  <2>. QED  BY SMT, <1>1, <1>2, <1>3, <2>1
<1>4. /\ a \in Nat /\ a < 256 /\ b \in Nat /\ b < 256 /\ c \in Nat /\ c < 256
      /\ token \in Seq(Int) /\ Len(token) = 4
      /\ token[1] = a \div 4
      /\ token[2] = 16 * (a % 4) + b \div 16
      /\ token[3] = IF n > 1 THEN 4 * (b % 16) + c \div 64 ELSE Pad
      /\ token[4] = IF n > 2 THEN c % 64 ELSE Pad
  BY Zenon, <1>20, <1>21 DEF SignsAre
<1>22. a = group[1] /\ (n > 1 => b = group[2]) /\ (n > 2 => c = group[3])
       /\ (n = 1 => b = 0 /\ c = 0) /\ (n = 2 => c = 0)
  <2>1. n = 1 \/ n = 2 \/ n = 3
    OBVIOUS
  <2>. QED  BY SMT, <1>1, <1>2, <1>3, <2>1 DEF ByteAt
<1>. HIDE DEF token
<1>5. n = 1 \/ n = 2 \/ n = 3
  OBVIOUS
<1>. HIDE DEF n
<1>6. a \div 4 \in 0 .. 63 /\ 16 * (a % 4) + b \div 16 \in 0 .. 63
      /\ 4 * (b % 16) + c \div 64 \in 0 .. 63 /\ c % 64 \in 0 .. 63
  <2>1. a \div 4 \in 0 .. 63
    BY SMT, <1>4
  <2>2. 16 * (a % 4) + b \div 16 \in 0 .. 63
    BY SMT, <1>4
  <2>3. 4 * (b % 16) + c \div 64 \in 0 .. 63
    BY SMT, <1>4
  <2>4. c % 64 \in 0 .. 63
    BY SMT, <1>4
  <2>. QED  BY <2>1, <2>2, <2>3, <2>4
<1>23. a \div 4 \in Int /\ 16 * (a % 4) + b \div 16 \in Int
       /\ 4 * (b % 16) + c \div 64 \in Int /\ c % 64 \in Int
  BY SMT, <1>20
<1>7. Pad = 64 /\ \A d \in 0 .. 63 : d # Pad /\ d # Other /\ Worth(d) = d
  BY SMT DEF Pad, Other, Worth, Digit
<1>8. Worth(Pad) = 0
  BY DEF Worth
<1> DEFINE d1 == a \div 4
           d2 == 16 * (a % 4) + b \div 16
<1>24. d1 \in Nat /\ d1 < 64 /\ d2 \in Nat /\ d2 < 64
  BY SMT, <1>20
<1>25. token[1] = d1 /\ token[2] = d2
  BY Zenon, <1>4
<1>26. /\ d1 # Pad /\ d1 # Other /\ Worth(d1) = d1
       /\ d2 # Pad /\ d2 # Other /\ Worth(d2) = d2
  <2>. HIDE DEF d1, d2
  <2>. QED  BY SMT, <1>24, DigitIsWorthItself
<1>9. token[1] # Pad /\ token[2] # Pad /\ token[1] # Other
  <2>. HIDE DEF d1, d2
  <2>. QED  BY SMT, <1>25, <1>26
<1>10. /\ n = 1 => token[3] = Pad /\ token[4] = Pad /\ b = 0 /\ c = 0
       /\ n = 2 => token[3] # Pad /\ token[4] = Pad /\ c = 0
       /\ n = 3 => token[3] # Pad /\ token[4] # Pad
  <2>1. CASE n = 1
    BY SMT, <1>4, <1>22, <2>1
  <2>2. CASE n = 2
    BY SMT, <1>4, <1>6, <1>7, <1>22, <2>2
  <2>3. CASE n = 3
    BY SMT, <1>4, <1>6, <1>7, <2>3
  <2>. QED  BY <1>5, <2>1, <2>2, <2>3
<1>11. /\ Worth(token[1]) = a \div 4
       /\ Worth(token[2]) = 16 * (a % 4) + b \div 16
       /\ Worth(token[3]) = 4 * (b % 16) + c \div 64
       /\ Worth(token[4]) = c % 64
  <2>1. Worth(token[1]) = a \div 4 /\ Worth(token[2]) = 16 * (a % 4) + b \div 16
    <3>1. Worth(token[1]) = d1 /\ Worth(token[2]) = d2
      <4>. HIDE DEF d1, d2
      <4>. QED  BY SMT, <1>25, <1>26
    <3>. QED  BY Zenon, <3>1
  <2>2. CASE n = 1
    <3>1. 4 * (b % 16) + c \div 64 = 0 /\ c % 64 = 0
      BY SMT, <1>10, <2>2
    <3>. QED  BY <1>8, <1>10, <2>1, <2>2, <3>1
  <2>3. CASE n = 2
    <3>1. c % 64 = 0
      BY SMT, <1>10, <2>3
    <3>2. token[3] = 4 * (b % 16) + c \div 64
      BY <1>4, <2>3
    <3>3. Worth(token[3]) = 4 * (b % 16) + c \div 64
      BY <1>6, <1>7, <3>2
    <3>4. Worth(token[4]) = c % 64
      BY <1>8, <1>10, <2>3, <3>1
    <3>. QED  BY Zenon, <2>1, <3>3, <3>4
  <2>4. CASE n = 3
    <3>1. token[3] = 4 * (b % 16) + c \div 64 /\ token[4] = c % 64
      BY <1>4, <2>4
    <3>. QED  BY <1>6, <1>7, <2>1, <3>1
  <2>. QED  BY Zenon, <1>5, <2>2, <2>3, <2>4
<1>12. Value(token) = 65536 * a + 256 * b + c
  <2>1. \A i \in 1 .. 4 : Worth(token[i]) \in Int
    <3>1. Worth(token[1]) \in Int /\ Worth(token[2]) \in Int /\ Worth(token[3]) \in Int
          /\ Worth(token[4]) \in Int
      BY Zenon, <1>11, <1>23
    <3>. QED  BY SMT, <3>1
  <2>2. Value(token) = 262144 * Worth(token[1]) + 4096 * Worth(token[2])
                       + 64 * Worth(token[3]) + Worth(token[4])
    BY SMT, <2>1, ValueOfToken
  <2>3. Value(token) = OfDigits(a, b, c)
    BY SMT, <1>11, <2>2 DEF OfDigits
  <2>4. OfDigits(a, b, c) = 65536 * a + 256 * b + c
    BY SMT, <1>20, BytesOfDigits
  <2>. QED  BY SMT, <2>3, <2>4
<1>13. Marker(token) = 3 - n
  <2>1. CASE n = 1
    BY <1>9, <1>10, <2>1, Padding
  <2>2. CASE n = 2
    BY <1>9, <1>10, <2>2, Padding
  <2>3. CASE n = 3
    BY <1>9, <1>10, <2>3, Padding
  <2>. QED  BY <1>5, <2>1, <2>2, <2>3
<1>14. ~DigitAfterPad(token)
  <2>. SUFFICES ASSUME NEW i \in 1 .. 4, NEW j \in 1 .. 4, i < j, token[i] = Pad, token[j] # Pad
               PROVE  FALSE
    BY DEF DigitAfterPad
  <2>1. i = 1 \/ i = 2 \/ i = 3
    OBVIOUS
  <2>2. i = 3 /\ j = 4
    BY <1>9, <2>1
  <2>. QED  BY <1>5, <1>10, <2>2
<1>15. token_decode(token) = Marked(3 - n, a, b, c)
  <2>1. ~(Value(token) < 0) /\ ~(Marker(token) > 2) /\ ~(Len(token) < 4)
    BY SMT, <1>4, <1>5, <1>12, <1>13
  <2>2. token_decode(token) = Marker(token) * 2^24 + Value(token)
    BY Zenon, <1>14, <2>1 DEF token_decode
  <2>3. Marker(token) * 2^24 + Value(token) = Marked(3 - n, a, b, c)
    BY SMT, <1>4, <1>5, <1>12, <1>13 DEF Marked
  <2>. QED  BY <2>2, <2>3
<1>16. /\ Marked(3 - n, a, b, c) \in Nat
       /\ BytesOf(Marked(3 - n, a, b, c))
            = IF n = 3 THEN <<a, b, c>> ELSE IF n = 2 THEN <<a, b>> ELSE <<a>>
  <2>1. PICK m \in 0 .. 2 : m = 3 - n
    BY <1>5
  <2>2. /\ Marked(m, a, b, c) \in Nat
        /\ BytesOf(Marked(m, a, b, c))
             = IF m = 0 THEN <<a, b, c>> ELSE IF m = 1 THEN <<a, b>> ELSE <<a>>
    BY Zenon, <1>20, BytesOfValue
  <2>. QED  BY SMT, <1>5, <2>1, <2>2
<1>17. group = IF n = 3 THEN <<a, b, c>> ELSE IF n = 2 THEN <<a, b>> ELSE <<a>>
  <2>1. CASE n = 1
    BY <1>22, <2>1 DEF n
  <2>2. CASE n = 2
    BY <1>22, <2>2 DEF n
  <2>3. CASE n = 3
    BY <1>22, <2>3 DEF n
  <2>. QED  BY <1>5, <2>1, <2>2, <2>3
<1>18. token_decode(token) # DECODE_ERROR
  BY <1>15, <1>16 DEF DECODE_ERROR
<1>19. BytesOf(token_decode(token)) = group
  BY Zenon, <1>15, <1>16, <1>17
<1>. QED  BY Zenon, <1>4, <1>9, <1>18, <1>19 DEF token

Least(a, b) == IF a <= b THEN a ELSE b
Groups(bytes) == (Len(bytes) + 2) \div 3
EndOf(bytes, k) == Least(3 * k, Len(bytes))
GroupAt(bytes, k) == SubSeq(bytes, 3 * k - 2, EndOf(bytes, k))

AreEncoded(e, bytes) ==
    e = [k \in 0 .. Groups(bytes) |->
           IF k = 0 THEN <<>> ELSE e[k - 1] \o EncodeGroup(GroupAt(bytes, k))]
Encoded(bytes) == CHOOSE e : AreEncoded(e, bytes)

LEMMA EncodeUnfolds ==
    ASSUME NEW bytes
    PROVE  Encode(bytes) = Encoded(bytes)[Groups(bytes)]
BY DEF Encode, Encoded, AreEncoded, Groups, GroupAt, EndOf, Least

LEMMA GroupNumbers ==
    ASSUME NEW bytes \in Seq(Byte)
    PROVE  /\ Groups(bytes) \in Nat
           /\ Len(bytes) \in Nat
           /\ EndOf(bytes, Groups(bytes)) = Len(bytes)
           /\ \A k \in 1 .. Groups(bytes) :
                 /\ 3 * k - 3 < Len(bytes) /\ EndOf(bytes, k - 1) = 3 * k - 3
                 /\ EndOf(bytes, k) \in Nat /\ EndOf(bytes, k) <= Len(bytes)
                 /\ EndOf(bytes, k) - (3 * k - 3) \in 1 .. 3
<1> DEFINE len == Len(bytes)
           n == (len + 2) \div 3
           End(k) == IF 3 * k <= len THEN 3 * k ELSE len
<1>1. len \in Nat
  OBVIOUS
<1>2. Groups(bytes) = n /\ \A k : EndOf(bytes, k) = End(k)
  BY DEF Groups, EndOf, Least
<1>. HIDE DEF len
<1>3. n \in Nat /\ 3 * n >= len /\ 3 * n <= len + 2
  BY SMT, <1>1
<1>. HIDE DEF n
<1>4. End(n) = len
  BY SMT, <1>1, <1>3
<1>5. ASSUME NEW k \in 1 .. n
      PROVE  /\ 3 * k - 3 < len /\ End(k - 1) = 3 * k - 3
             /\ End(k) \in Nat /\ End(k) <= len /\ End(k) - (3 * k - 3) \in 1 .. 3
  BY SMT, <1>1, <1>3
<1>. HIDE DEF End
<1>. QED  BY Zenon, <1>1, <1>2, <1>3, <1>4, <1>5 DEF len

LEMMA GroupType ==
    ASSUME NEW bytes \in Seq(Byte), NEW k \in 1 .. Groups(bytes)
    PROVE  GroupAt(bytes, k) \in Seq(Byte) /\ Len(GroupAt(bytes, k)) \in 1 .. 3
<1> DEFINE len == Len(bytes)
           a == 3 * k - 2
           b == EndOf(bytes, k)
<1>1. /\ len \in Nat /\ k \in 1 .. Groups(bytes) /\ Groups(bytes) \in Nat
      /\ b \in Nat /\ b <= len /\ b - (3 * k - 3) \in 1 .. 3
  BY Zenon, GroupNumbers
<1>. HIDE DEF b
<1>2. a \in Int /\ b \in Int /\ a <= b /\ b - a + 1 \in 1 .. 3 /\ a >= 1
  BY SMT, <1>1
<1>3. \A i \in a .. b : bytes[i] \in Byte
  <2>1. \A i \in a .. b : i \in 1 .. len
    <3>. HIDE DEF a, len
    <3>. QED  BY SMT, <1>1, <1>2
  <2>. QED  BY <2>1
<1>. HIDE DEF a
<1>4. SubSeq(bytes, a, b) \in Seq(Byte) /\ Len(SubSeq(bytes, a, b)) = b - a + 1
  BY SMT, <1>2, <1>3, SubSeqProperties
<1>. QED  BY <1>2, <1>4 DEF GroupAt, a, b

LEMMA TokenOfGroup ==
    ASSUME NEW bytes \in Seq(Byte), NEW k \in 1 .. Groups(bytes)
    PROVE  EncodeGroup(GroupAt(bytes, k)) \in Seq(Int)
           /\ Len(EncodeGroup(GroupAt(bytes, k))) = 4
BY Zenon, GroupType, GroupDecodes

LEMMA EncodedDefined ==
    ASSUME NEW bytes \in Seq(Byte)
    PROVE  /\ Encoded(bytes) \in [0 .. Groups(bytes) -> Seq(Int)]
           /\ Encoded(bytes)[0] = <<>>
           /\ \A k \in 1 .. Groups(bytes) :
                 Encoded(bytes)[k] = Encoded(bytes)[k - 1] \o EncodeGroup(GroupAt(bytes, k))
<1> DEFINE n == Groups(bytes)
           token(k) == EncodeGroup(GroupAt(bytes, k))
           step == [k \in 1 .. n |-> [s \in Seq(Int) |-> s \o token(k)]]
           e == Encoded(bytes)
<1>1. n \in Nat /\ <<>> \in Seq(Int)
  BY GroupNumbers
<1>2. \A k \in 1 .. n : \A s \in Seq(Int) : s \o token(k) \in Seq(Int)
  <2>1. \A k \in 1 .. n : token(k) \in Seq(Int)
    BY TokenOfGroup
  <2>. HIDE DEF token
  <2>. QED  BY <2>1
<1>. HIDE DEF n
<1>3. step \in [1 .. n -> [Seq(Int) -> Seq(Int)]]
  <2>. HIDE DEF token
  <2>. QED  BY <1>2
<1>4. PICK f \in [0 .. n -> Seq(Int)] : Iterates(f, n, <<>>, step)
  <2>. HIDE DEF step
  <2>. QED  BY <1>1, <1>3, Recursion
<1>5. ASSUME NEW k \in 1 .. n PROVE f[k] = f[k - 1] \o token(k)
  <2>1. k - 1 \in 0 .. n
    BY <1>1
  <2>2. f[k - 1] \in Seq(Int)
    BY <2>1
  <2>. HIDE DEF token
  <2>. QED  BY <1>4, <2>2 DEF Iterates
<1>6. AreEncoded(f, bytes)
  <2>. HIDE DEF token
  <2>1. \A k \in 0 .. n : f[k] = IF k = 0 THEN <<>> ELSE f[k - 1] \o token(k)
    <3>1. \A k \in 0 .. n : k # 0 => k \in 1 .. n
      BY <1>1
    <3>2. f[0] = <<>>
      BY Zenon, <1>4 DEF Iterates
    <3>. QED  BY Zenon, <1>5, <3>1, <3>2
  <2>2. f = [k \in 0 .. n |-> f[k]]
    BY Zenon, <1>4
  <2>3. f = [k \in 0 .. n |-> IF k = 0 THEN <<>> ELSE f[k - 1] \o token(k)]
    BY Zenon, <2>1, <2>2
  <2>. QED  BY <2>3 DEF AreEncoded, n, token
<1>7. AreEncoded(e, bytes)
  BY <1>6 DEF Encoded
<1>. HIDE DEF e
<1>8. e = [k \in 0 .. n |-> IF k = 0 THEN <<>> ELSE e[k - 1] \o token(k)]
  BY <1>7 DEF n, AreEncoded
<1>. HIDE DEF token
<1>9. \A k \in 0 .. n : e[k] = IF k = 0 THEN <<>> ELSE e[k - 1] \o token(k)
  BY <1>8
<1>10. 0 \in 0 .. n /\ \A k \in 1 .. n : k \in 0 .. n /\ k # 0
  BY <1>1
<1>11. e[0] = <<>>
  BY <1>9, <1>10
<1>12. \A k \in 1 .. n : e[k] = e[k - 1] \o token(k)
  BY <1>9, <1>10
<1>13. \A k \in 0 .. n : e[k] \in Seq(Int)
  <2> DEFINE T == {k \in 0 .. n : e[k] \in Seq(Int)}
  <2>1. 0 \in T
    BY Zenon, <1>1, <1>10, <1>11
  <2>2. \A k \in 1 .. n : k - 1 \in T => k \in T
    <3>1. \A k \in 1 .. n : k \in 0 .. n /\ k - 1 \in 0 .. n
      BY <1>1
    <3>. QED  BY <1>2, <1>12, <3>1
  <2>3. 0 .. n \subseteq T
    <3>. HIDE DEF T
    <3>. QED  BY <1>1, <2>1, <2>2, UpTo
  <2>. QED  BY <2>3
<1>14. e \in [0 .. n -> Seq(Int)]
  BY <1>8, <1>13
<1>. QED  BY <1>11, <1>12, <1>14 DEF e, n, token

\* The text begins with the tokens of the first groups.
Begins(text, bytes, m) ==
    \A j \in 1 .. m : \A i \in 1 .. 4 :
        text[(4 * j - 4) + i] = EncodeGroup(GroupAt(bytes, j))[i]

LEMMA OneTokenMore ==
    ASSUME NEW bytes \in Seq(Byte), NEW k \in 1 .. Groups(bytes), NEW s \in Seq(Int),
           Len(s) = 4 * (k - 1), Begins(s, bytes, k - 1)
    PROVE  LET t == s \o EncodeGroup(GroupAt(bytes, k))
           IN  Len(t) = 4 * k /\ Begins(t, bytes, k)
<1> DEFINE token == EncodeGroup(GroupAt(bytes, k))
           t == s \o token
<1>1. token \in Seq(Int) /\ Len(token) = 4
  BY Zenon, TokenOfGroup
<1>2. k \in Nat /\ 1 <= k
  BY GroupNumbers
<1>. HIDE DEF token
<1>3. /\ Len(t) = Len(s) + 4
      /\ \A i \in 1 .. Len(s) + 4 : t[i] = IF i <= Len(s) THEN s[i] ELSE token[i - Len(s)]
  <2>1. /\ Len(t) = Len(s) + Len(token)
        /\ \A i \in 1 .. Len(s) + Len(token) :
              t[i] = IF i <= Len(s) THEN s[i] ELSE token[i - Len(s)]
    BY Zenon, <1>1, ConcatProperties
  <2>. QED  BY Zenon, <1>1, <2>1
<1>. HIDE DEF t
<1>4. Len(t) = 4 * k
  BY SMT, <1>2, <1>3
<1>5. ASSUME NEW j \in 1 .. k, NEW i \in 1 .. 4
      PROVE  t[(4 * j - 4) + i] = EncodeGroup(GroupAt(bytes, j))[i]
  <2>1. CASE j = k
    <3>1. (4 * j - 4) + i \in 1 .. Len(s) + 4 /\ ~((4 * j - 4) + i <= Len(s))
          /\ ((4 * j - 4) + i) - Len(s) = i
      BY SMT, <1>2, <2>1
    <3>2. t[(4 * j - 4) + i] = token[((4 * j - 4) + i) - Len(s)]
      BY Zenon, <1>3, <3>1
    <3>. QED  BY Zenon, <2>1, <3>1, <3>2 DEF token
  <2>2. CASE j # k
    <3>1. j \in 1 .. k - 1 /\ (4 * j - 4) + i \in 1 .. Len(s) + 4 /\ (4 * j - 4) + i <= Len(s)
      BY SMT, <1>2, <2>2
    <3>2. t[(4 * j - 4) + i] = s[(4 * j - 4) + i]
      BY Zenon, <1>3, <3>1
    <3>. QED  BY Zenon, <3>1, <3>2 DEF Begins
  <2>. QED  BY <2>1, <2>2
<1>6. Begins(t, bytes, k)
  BY Zenon, <1>5 DEF Begins
<1>. QED  BY <1>4, <1>6 DEF t, token

LEMMA EncodedText ==
    ASSUME NEW bytes \in Seq(Byte)
    PROVE  /\ Encode(bytes) \in Seq(Int)
           /\ Len(Encode(bytes)) = 4 * Groups(bytes)
           /\ Begins(Encode(bytes), bytes, Groups(bytes))
<1> DEFINE n == Groups(bytes)
           e == Encoded(bytes)
           T == {k \in 0 .. n : Len(e[k]) = 4 * k /\ Begins(e[k], bytes, k)}
<1>1. n \in Nat /\ Encode(bytes) = e[n]
  BY GroupNumbers, EncodeUnfolds
<1>2. /\ e \in [0 .. n -> Seq(Int)] /\ e[0] = <<>>
      /\ \A k \in 1 .. n : e[k] = e[k - 1] \o EncodeGroup(GroupAt(bytes, k))
  BY EncodedDefined
<1>. HIDE DEF e
<1>3. 0 \in T
  <2>1. Len(<<>>) = 4 * 0
    BY SMT
  <2>2. Begins(<<>>, bytes, 0)
    <3>1. 1 .. 0 = {}
      OBVIOUS
    <3>. QED  BY Zenon, <3>1 DEF Begins
  <2>3. 0 \in 0 .. n
    BY <1>1
  <2>. QED  BY Zenon, <1>2, <2>1, <2>2, <2>3
<1>4. \A k \in 1 .. n : k - 1 \in T => k \in T
  <2>. SUFFICES ASSUME NEW k \in 1 .. n, k - 1 \in T PROVE k \in T
    OBVIOUS
  <2>1. k \in 0 .. n /\ k - 1 \in 0 .. n
    BY <1>1
  <2>2. e[k - 1] \in Seq(Int)
    BY Zenon, <1>2, <2>1
  <2>3. PICK s \in Seq(Int) : s = e[k - 1]
    BY <2>2
  <2>4. Len(s) = 4 * (k - 1) /\ Begins(s, bytes, k - 1)
    BY Zenon, <2>3
  <2>5. LET t == s \o EncodeGroup(GroupAt(bytes, k))
        IN  Len(t) = 4 * k /\ Begins(t, bytes, k)
    BY Zenon, <2>4, OneTokenMore
  <2>6. e[k] = s \o EncodeGroup(GroupAt(bytes, k))
    BY Zenon, <1>2, <2>3
  <2>. QED  BY Zenon, <2>1, <2>5, <2>6
<1>5. n \in T
  <2>1. 0 .. n \subseteq T
    <3>. HIDE DEF T, n
    <3>. QED  BY <1>1, <1>3, <1>4, UpTo
  <2>. QED  BY <1>1, <2>1
<1>6. e[n] \in Seq(Int)
  <2>1. n \in 0 .. n
    BY <1>1
  <2>. QED  BY Zenon, <1>2, <2>1
<1>. QED  BY Zenon, <1>1, <1>5, <1>6

LEMMA TokenOfText ==
    ASSUME NEW bytes \in Seq(Byte), NEW text \in Seq(Int),
           Len(text) >= 4 * Groups(bytes), Begins(text, bytes, Groups(bytes)),
           NEW k \in 1 .. Groups(bytes)
    PROVE  TokenAt(text, k) = EncodeGroup(GroupAt(bytes, k))
<1> DEFINE token == EncodeGroup(GroupAt(bytes, k))
           a == 4 * k - 3
           b == 4 * k
           t == SubSeq(text, a, b)
<1>1. token \in Seq(Int) /\ Len(token) = 4
  BY Zenon, TokenOfGroup
<1>2. k \in Nat /\ 1 <= k /\ k <= Groups(bytes) /\ Groups(bytes) \in Nat /\ Len(text) \in Nat
  BY GroupNumbers
<1>3. b <= Len(text) /\ a \in Int /\ b \in Int /\ 1 <= a /\ a <= b /\ b - a + 1 = 4
  BY SMT, <1>2
<1>4. TokenAt(text, k) = t
  BY Zenon, <1>3 DEF TokenAt
<1>5. \A i \in a .. b : text[i] \in Int
  <2>1. \A i \in a .. b : i \in 1 .. Len(text)
    <3>. HIDE DEF a, b
    <3>. QED  BY SMT, <1>2, <1>3
  <2>. QED  BY <2>1
<1>6. /\ t \in Seq(Int) /\ Len(t) = 4
      /\ \A i \in 1 .. 4 : t[i] = text[a + i - 1]
  <2>. HIDE DEF a, b
  <2>1. /\ t \in Seq(Int) /\ Len(t) = IF a <= b THEN b - a + 1 ELSE 0
        /\ \A i \in 1 .. b - a + 1 : t[i] = text[a + i - 1]
    BY <1>3, <1>5, SubSeqProperties
  <2>. HIDE DEF t
  <2>. QED  BY <1>3, <2>1
<1>7. ASSUME NEW i \in 1 .. 4 PROVE t[i] = token[i]
  <2>1. a + i - 1 = (4 * k - 4) + i
    BY SMT, <1>2
  <2>2. text[(4 * k - 4) + i] = token[i]
    BY Zenon DEF Begins
  <2>. QED  BY Zenon, <1>6, <2>1, <2>2
<1>. HIDE DEF t, token
<1>8. t = token
  <2>1. Len(t) = Len(token) /\ \A i \in 1 .. Len(t) : t[i] = token[i]
    BY Zenon, <1>1, <1>6, <1>7
  <2>. QED  BY Zenon, <1>1, <1>6, <2>1, SeqEqual
<1>. QED  BY <1>4, <1>8 DEF token

\* What has been written after k tokens.
Written(bytes, k, size) == SubSeq(bytes, 1, Least(EndOf(bytes, k), size))
After(bytes, k, size) ==
    [bytes |-> Written(bytes, k, size),
     ok    |-> EndOf(bytes, k) <= size,
     more  |-> EndOf(bytes, k) <= size]

LEMMA PrefixOfPrefix ==
    ASSUME NEW S, NEW s \in Seq(S), NEW m \in Nat, m <= Len(s), NEW n \in Nat, n <= m
    PROVE  SubSeq(SubSeq(s, 1, m), 1, n) = SubSeq(s, 1, n)
<1> DEFINE p == SubSeq(s, 1, m)
           q == SubSeq(p, 1, n)
           r == SubSeq(s, 1, n)
<1>0. Len(s) \in Nat /\ n <= Len(s)
  OBVIOUS
<1>1. p \in Seq(S) /\ Len(p) = m /\ \A i \in 1 .. m : p[i] = s[i]
  BY CutSequence
<1>2. r \in Seq(S) /\ Len(r) = n /\ \A i \in 1 .. n : r[i] = s[i]
  BY <1>0, CutSequence
<1>. HIDE DEF p, r
<1>3. q \in Seq(S) /\ Len(q) = n /\ \A i \in 1 .. n : q[i] = p[i]
  BY <1>1, CutSequence
<1>. HIDE DEF q
<1>4. \A i \in 1 .. n : i \in 1 .. m
  OBVIOUS
<1>5. Len(q) = Len(r) /\ \A i \in 1 .. Len(q) : q[i] = r[i]
  BY <1>1, <1>2, <1>3, <1>4
<1>6. q = r
  BY Zenon, <1>2, <1>3, <1>5, SeqEqual
<1>. QED  BY <1>6 DEF p, q, r

LEMMA OneTurn ==
    ASSUME NEW bytes \in Seq(Byte), NEW size \in Nat, NEW k \in 1 .. Groups(bytes)
    PROVE  Turn(After(bytes, k - 1, size), EncodeGroup(GroupAt(bytes, k)), size)
             = After(bytes, k, size)
<1> DEFINE group == GroupAt(bytes, k)
           token == EncodeGroup(group)
           old == After(bytes, k - 1, size)
           t == EndOf(bytes, k)
           o == 3 * k - 3
           len == Len(bytes)
<1>1. /\ k \in Nat /\ 1 <= k /\ len \in Nat /\ o \in Nat /\ o < len
      /\ EndOf(bytes, k - 1) = o /\ t \in Nat /\ t <= len /\ o < t
  <2>1. /\ Groups(bytes) \in Nat /\ len \in Nat /\ o < len /\ EndOf(bytes, k - 1) = o
        /\ t \in Nat /\ t <= len /\ t - o \in 1 .. 3
    BY Zenon, GroupNumbers
  <2>. HIDE DEF t, len
  <2>2. k \in Nat /\ 1 <= k
    BY SMT, <2>1
  <2>. QED  BY SMT, <2>1, <2>2
<1>2. /\ token \in Seq(Int) /\ token[1] # Other /\ token_decode(token) # DECODE_ERROR
      /\ BytesOf(token_decode(token)) = group
  BY Zenon, GroupType, GroupDecodes
<1>3. old = [bytes |-> SubSeq(bytes, 1, Least(o, size)), ok |-> o <= size, more |-> o <= size]
  BY Zenon, <1>1 DEF After, Written
<1>4. After(bytes, k, size)
        = [bytes |-> SubSeq(bytes, 1, Least(t, size)), ok |-> t <= size, more |-> t <= size]
  BY Zenon DEF After, Written
<1>5. group = SubSeq(bytes, o + 1, t)
  <2>1. 3 * k - 2 = o + 1
    BY SMT, <1>1
  <2>. QED  BY Zenon, <2>1 DEF GroupAt
<1>. HIDE DEF token, group, old, t, o
<1>6. CASE size < o
  <2>1. Least(o, size) = size /\ Least(t, size) = size /\ (o <= size) = FALSE
        /\ (t <= size) = FALSE
    BY SMT, <1>1, <1>6 DEF Least
  <2>2. old = After(bytes, k, size) /\ ~old.more
    BY Zenon, <1>3, <1>4, <2>1
  <2>3. Turn(old, token, size) = old
    BY Zenon, <2>2 DEF Turn
  <2>. QED  BY Zenon, <2>2, <2>3 DEF old, token, group
<1>7. CASE o <= size
  <2> DEFINE all == SubSeq(bytes, 1, t)
             fits == t <= size
  <2>1. Least(o, size) = o /\ (o <= size) = TRUE
    BY SMT, <1>1, <1>7 DEF Least
  <2>2. old.bytes = SubSeq(bytes, 1, o) /\ old.more
    BY Zenon, <1>3, <2>1
  <2>3. old.bytes \o group = all
    <3>1. SubSeq(bytes, 1, o) \o SubSeq(bytes, o + 1, t) = SubSeq(bytes, 1, t)
      <4>1. 1 \in 1 .. Len(bytes) + 1 /\ o \in 1 - 1 .. Len(bytes) /\ t \in o .. Len(bytes)
        BY SMT, <1>1
      <4>. QED  BY Zenon, <4>1, ConcatAdjacentSubSeq
    <3>. QED  BY Zenon, <1>5, <2>2, <3>1
  <2>4. all \in Seq(Byte) /\ Len(all) = t
    BY <1>1, CutSequence
  <2>5. Room(all, size) = SubSeq(bytes, 1, Least(t, size))
    <3>1. Room(all, size) = SubSeq(all, 1, Least(t, size))
      BY Zenon, <2>4 DEF Room, Least
    <3>2. Least(t, size) \in Nat /\ Least(t, size) <= t
      BY SMT, <1>1 DEF Least
    <3>3. SubSeq(all, 1, Least(t, size)) = SubSeq(bytes, 1, Least(t, size))
      BY <1>1, <3>2, PrefixOfPrefix
    <3>. QED  BY Zenon, <3>1, <3>3
  <2>. HIDE DEF all
  <2>6. Turn(old, token, size)
          = [bytes |-> Room(old.bytes \o BytesOf(token_decode(token)), size),
             ok |-> Len(old.bytes \o BytesOf(token_decode(token))) <= size,
             more |-> Len(old.bytes \o BytesOf(token_decode(token))) <= size]
    BY Zenon, <1>2, <2>2 DEF Turn
  <2>7. Turn(old, token, size) = [bytes |-> Room(all, size), ok |-> fits, more |-> fits]
    BY Zenon, <1>2, <2>3, <2>4, <2>6
  <2>8. Turn(old, token, size) = After(bytes, k, size)
    BY Zenon, <1>4, <2>5, <2>7
  <2>. QED  BY Zenon, <2>8 DEF old, token, group
<1>8. size < o \/ o <= size
  BY SMT, <1>1
<1>. QED  BY <1>6, <1>7, <1>8

LEMMA TokensDecode ==
    ASSUME NEW bytes \in Seq(Byte), NEW size \in Nat, NEW text \in Seq(Int),
           Len(text) >= 4 * Groups(bytes), Begins(text, bytes, Groups(bytes))
    PROVE  /\ Groups(bytes) <= Tokens(text)
           /\ Decoded(text, size)[Groups(bytes)] = After(bytes, Groups(bytes), size)
<1> DEFINE n == Groups(bytes)
           d == Decoded(text, size)
           T == {k \in 0 .. n : d[k] = After(bytes, k, size)}
<1>1. n \in Nat /\ Tokens(text) \in Nat /\ Len(text) \in Nat
  BY GroupNumbers, TokensAreNumbers
<1>2. n <= Tokens(text)
  <2> DEFINE len == Len(text)
  <2>1. Tokens(text) = (len + 3) \div 4 /\ len \in Nat /\ len >= 4 * n
    BY <1>1 DEF Tokens
  <2>. HIDE DEF n, len
  <2>. QED  BY SMT, <1>1, <2>1
<1>3. /\ d[0] = Begin
      /\ \A k \in 1 .. Tokens(text) : d[k] = Turn(d[k - 1], TokenAt(text, k), size)
  BY Zenon, DecodedDefined
<1>. HIDE DEF d
<1>4. 0 \in T
  <2>1. EndOf(bytes, 0) = 0
    BY GroupNumbers DEF EndOf, Least
  <2>2. Least(0, size) = 0 /\ (0 <= size) = TRUE
    BY DEF Least
  <2>4. 1 \in Int /\ 0 \in Int /\ 0 < 1
    OBVIOUS
  <2>3. SubSeq(bytes, 1, 0) = <<>>
    BY Zenon, SubSeqEmpty, <2>4
  <2>5. After(bytes, 0, size) = Begin
    BY Zenon, <2>1, <2>2, <2>3 DEF After, Written, Begin
  <2>6. 0 \in 0 .. n
    BY <1>1
  <2>. QED  BY Zenon, <1>3, <2>5, <2>6
<1>5. \A k \in 1 .. n : k - 1 \in T => k \in T
  <2>. SUFFICES ASSUME NEW k \in 1 .. n, k - 1 \in T PROVE k \in T
    OBVIOUS
  <2>1. k \in 0 .. n /\ k \in 1 .. Tokens(text)
    <3>. HIDE DEF n
    <3>. QED  BY SMT, <1>1, <1>2
  <2>2. d[k - 1] = After(bytes, k - 1, size)
    BY Zenon
  <2>3. TokenAt(text, k) = EncodeGroup(GroupAt(bytes, k))
    BY Zenon, TokenOfText
  <2>4. Turn(After(bytes, k - 1, size), EncodeGroup(GroupAt(bytes, k)), size)
          = After(bytes, k, size)
    BY Zenon, OneTurn
  <2>5. d[k] = After(bytes, k, size)
    BY Zenon, <1>3, <2>1, <2>2, <2>3, <2>4
  <2>. QED  BY Zenon, <2>1, <2>5
<1>6. n \in T
  <2>1. 0 .. n \subseteq T
    <3>. HIDE DEF T, n
    <3>. QED  BY <1>1, <1>4, <1>5, UpTo
  <2>. QED  BY <1>1, <2>1
<1>7. d[n] = After(bytes, n, size)
  BY Zenon, <1>6
<1>. QED  BY Zenon, <1>2, <1>7 DEF d

\* What is decoded of these bytes when there is room for so many.
Back(bytes, size) ==
    [bytes |-> SubSeq(bytes, 1, Least(Len(bytes), size)), ok |-> Len(bytes) <= size]

\* http_server.c:108: whatever a client has encoded is decoded, up to the size of
\* the buffer, and an error is told only when it is too small for it; so it is
\* when the text ends in a sign that is not of the alphabet.
THEOREM EncodedIsDecoded ==
    ASSUME NEW bytes \in Seq(Byte), NEW size \in Nat
    PROVE  /\ http_base64_decode(Encode(bytes), size) = Back(bytes, size)
           /\ http_base64_decode(Encode(bytes) \o <<Other>>, size) = Back(bytes, size)
<1> DEFINE n == Groups(bytes)
           text == Encode(bytes)
           long == text \o <<Other>>
<1>1. n \in Nat /\ EndOf(bytes, n) = Len(bytes)
  BY Zenon, GroupNumbers
<1>2. text \in Seq(Int) /\ Len(text) = 4 * n /\ Begins(text, bytes, n)
  BY Zenon, EncodedText
<1>. HIDE DEF text
<1> DEFINE state == After(bytes, n, size)
           all == SubSeq(bytes, 1, Least(Len(bytes), size))
           fits == Len(bytes) <= size
<1>3. state = [bytes |-> all, ok |-> fits, more |-> fits]
  BY Zenon, <1>1 DEF After, Written
<1>6. state.bytes = all /\ state.ok = fits
  <2>. HIDE DEF state, all, fits
  <2>. QED  BY <1>3
<1>7. Back(bytes, size) = [bytes |-> all, ok |-> fits]
  BY DEF Back
<1>. HIDE DEF state, all, fits
<1>4. http_base64_decode(text, size) = Back(bytes, size)
  <2>1. Tokens(text) = n
    <3>1. Tokens(text) = (4 * n + 3) \div 4
      BY Zenon, <1>2 DEF Tokens
    <3>. HIDE DEF n
    <3>. QED  BY SMT, <1>1, <3>1
  <2>2. Len(text) >= 4 * n
    <3>. HIDE DEF n
    <3>. QED  BY SMT, <1>1, <1>2
  <2>3. Decoded(text, size)[n] = After(bytes, n, size)
    BY Zenon, <1>2, <2>2, TokensDecode
  <2>4. http_base64_decode(text, size)
          = [bytes |-> After(bytes, n, size).bytes, ok |-> After(bytes, n, size).ok]
    BY Zenon, <2>1, <2>3, DecodeUnfolds
  <2>. QED  BY Zenon, <1>6, <1>7, <2>4 DEF state
<1>5. http_base64_decode(long, size) = Back(bytes, size)
  <2>1. <<Other>> \in Seq(Int) /\ Len(<<Other>>) = 1 /\ <<Other>>[1] = Other
    BY DEF Other
  <2>2. /\ long \in Seq(Int) /\ Len(long) = Len(text) + Len(<<Other>>)
        /\ \A i \in 1 .. Len(text) + Len(<<Other>>) :
              long[i] = IF i <= Len(text) THEN text[i] ELSE <<Other>>[i - Len(text)]
    BY Zenon, <1>2, <2>1, ConcatProperties
  <2>3. /\ Len(long) = 4 * n + 1
        /\ \A i \in 1 .. 4 * n + 1 : long[i] = IF i <= 4 * n THEN text[i] ELSE <<Other>>[i - 4 * n]
    BY Zenon, <1>2, <2>1, <2>2
  <2>. HIDE DEF long, n
  <2>4. Len(long) >= 4 * n
    BY SMT, <1>1, <2>3
  <2>5. Begins(long, bytes, n)
    <3>. SUFFICES ASSUME NEW j \in 1 .. n, NEW i \in 1 .. 4
                 PROVE  long[(4 * j - 4) + i] = EncodeGroup(GroupAt(bytes, j))[i]
      BY Zenon DEF Begins
    <3>1. (4 * j - 4) + i \in 1 .. 4 * n + 1 /\ (4 * j - 4) + i <= 4 * n
      BY SMT, <1>1
    <3>2. long[(4 * j - 4) + i] = text[(4 * j - 4) + i]
      BY Zenon, <2>3, <3>1
    <3>. QED  BY Zenon, <1>2, <3>2 DEF Begins
  <2>6. Tokens(long) = n + 1
    <3>1. Tokens(long) = ((4 * n + 1) + 3) \div 4
      BY Zenon, <2>3 DEF Tokens
    <3>. QED  BY SMT, <1>1, <3>1
  <2>7. TokenAt(long, n + 1)[1] = Other
    <3> DEFINE a == 4 * (n + 1) - 3
               b == 4 * n + 1
    <3>1. a = b /\ a \in Int /\ b \in Int /\ ~(4 * (n + 1) <= b) /\ b - a + 1 = 1
          /\ a \in 1 .. b /\ ~(a <= 4 * n) /\ a - 4 * n = 1 /\ a + 1 - 1 = a
      BY SMT, <1>1
    <3>2. TokenAt(long, n + 1) = SubSeq(long, a, b)
      BY Zenon, <2>3, <3>1 DEF TokenAt
    <3>3. long[a] = Other
      BY Zenon, <2>1, <2>3, <3>1
    <3>4. \A i \in a .. b : long[i] \in Int
      <4>1. \A i \in a .. b : i = a
        <5>. HIDE DEF a, b
        <5>. QED  BY SMT, <3>1
      <4>. QED  BY <3>3, <4>1 DEF Other
    <3>. HIDE DEF a, b
    <3>5. \A i \in 1 .. b - a + 1 : SubSeq(long, a, b)[i] = long[a + i - 1]
      BY <3>1, <3>4, SubSeqProperties
    <3>6. SubSeq(long, a, b)[1] = long[a + 1 - 1]
      <4>1. 1 \in 1 .. b - a + 1
        BY SMT, <3>1
      <4>. QED  BY Zenon, <3>5, <4>1
    <3>. QED  BY Zenon, <3>1, <3>2, <3>3, <3>6
  <2>8. Decoded(long, size)[n] = After(bytes, n, size)
    BY Zenon, <1>2, <2>2, <2>4, <2>5, TokensDecode DEF n
  <2>9. Decoded(long, size)[n + 1] = Turn(After(bytes, n, size), TokenAt(long, n + 1), size)
    <3>1. n + 1 \in 1 .. n + 1 /\ (n + 1) - 1 = n
      BY SMT, <1>1
    <3>2. Decoded(long, size)[n + 1]
            = Turn(Decoded(long, size)[(n + 1) - 1], TokenAt(long, n + 1), size)
      BY Zenon, <2>2, <2>6, <3>1, DecodedDefined
    <3>. QED  BY Zenon, <2>8, <3>1, <3>2
  <2>10. Turn(state, TokenAt(long, n + 1), size)
           = IF ~state.more THEN state ELSE [state EXCEPT !.more = FALSE]
    BY Zenon, <2>7 DEF Turn
  <2>11. /\ Turn(state, TokenAt(long, n + 1), size).bytes = all
         /\ Turn(state, TokenAt(long, n + 1), size).ok = fits
    <3>1. [state EXCEPT !.more = FALSE].bytes = state.bytes
          /\ [state EXCEPT !.more = FALSE].ok = state.ok
      BY Zenon, <1>3
    <3>. QED  BY Zenon, <1>6, <2>10, <3>1
  <2>12. http_base64_decode(long, size)
           = [bytes |-> Decoded(long, size)[n + 1].bytes, ok |-> Decoded(long, size)[n + 1].ok]
    BY Zenon, <2>6, DecodeUnfolds
  <2>. QED  BY Zenon, <1>7, <2>9, <2>11, <2>12 DEF state
<1>. QED  BY Zenon, <1>4, <1>5 DEF long, text

(***************************************************************************)
(* The invariants of MCAlgorithms.                                         *)
(***************************************************************************)
WordsGiven == kind = "words" => input \in Seq(Word) /\ Len(input) <= MaxWords

\* vpn.c:372: every echo request that MCAlgorithms enumerates is accepted by the
\* server it is sent to.
THEOREM ServerAcceptsRequests == Spec => []ServerAccepts
<1>1. Init => WordsGiven
  <2>. SUFFICES ASSUME Init, kind = "words" PROVE input \in Seq(Word) /\ Len(input) <= MaxWords
    BY DEF WordsGiven
  <2>1. input \in BoundedSeq(EdgeWords, 4)
    BY DEF Init
  <2>2. PICK m \in 0 .. 4 : input \in [1 .. m -> EdgeWords]
    BY <2>1 DEF BoundedSeq, SeqOf
  <2>3. EdgeWords \subseteq Word
    BY DEF EdgeWords, Word
  <2>4. input \in [1 .. m -> Word]
    BY <2>2, <2>3
  <2>. QED  BY <2>4 DEF MaxWords
<1>2. WordsGiven /\ [Next]_<<kind, input>> => WordsGiven'
  BY DEF WordsGiven, Next
<1>3. WordsGiven => ServerAccepts
  <2>. SUFFICES ASSUME WordsGiven, kind = "words", NEW k \in 1 .. Len(input)
               PROVE  LET zeroed == [input EXCEPT ![k] = 0]
                      IN  Accepts([zeroed EXCEPT ![k] = CheckSum(zeroed)])
    BY DEF ServerAccepts
  <2>1. input \in Seq(Word) /\ Len(input) <= MaxWords
    BY DEF WordsGiven
  <2>. QED  BY <2>1, RequestsAreAccepted
<1>. QED  BY <1>1, <1>2, <1>3, PTL DEF Spec

LEMMA BackWhole ==
    ASSUME NEW bytes \in Seq(Byte), NEW size \in Nat
    PROVE  /\ Len(bytes) <= size => Back(bytes, size) = [bytes |-> bytes, ok |-> TRUE]
           /\ Back(bytes, size).bytes
                = SubSeq(bytes, 1, IF size <= Len(bytes) THEN size ELSE Len(bytes))
<1> DEFINE len == Len(bytes)
           n == Least(len, size)
           fits == len <= size
<1>1. len \in Nat
  OBVIOUS
<1>2. Back(bytes, size) = [bytes |-> SubSeq(bytes, 1, n), ok |-> fits]
  BY DEF Back
<1>3. n = IF size <= len THEN size ELSE len
  <2>. HIDE DEF len
  <2>. QED  BY SMT, <1>1 DEF Least
<1>4. SubSeq(bytes, 1, len) = bytes
  BY SubSeqFull
<1>5. ASSUME len <= size PROVE n = len /\ fits = TRUE
  <2>. HIDE DEF len
  <2>. QED  BY SMT, <1>1, <1>5 DEF Least
<1>. HIDE DEF n, len, fits
<1>6. ASSUME len <= size PROVE Back(bytes, size) = [bytes |-> bytes, ok |-> TRUE]
  BY Zenon, <1>2, <1>4, <1>5, <1>6
<1>7. Back(bytes, size).bytes = SubSeq(bytes, 1, IF size <= len THEN size ELSE len)
  BY <1>2, <1>3
<1>. QED  BY <1>6, <1>7 DEF len

LEMMA ShortSurvives ==
    ASSUME NEW bytes \in Seq(Byte), NEW size \in Nat, Len(bytes) <= size
    PROVE  /\ http_base64_decode(Encode(bytes), size) = [bytes |-> bytes, ok |-> TRUE]
           /\ http_base64_decode(Encode(bytes), size).bytes = bytes
           /\ http_base64_decode(Encode(bytes) \o <<Other>>, size).bytes = bytes
<1>1. Back(bytes, size) = [bytes |-> bytes, ok |-> TRUE]
  BY BackWhole
<1>2. http_base64_decode(Encode(bytes), size) = Back(bytes, size)
      /\ http_base64_decode(Encode(bytes) \o <<Other>>, size) = Back(bytes, size)
  BY EncodedIsDecoded
<1>3. Back(bytes, size).bytes = bytes
  BY <1>1
<1>. QED  BY Zenon, <1>1, <1>2, <1>3

\* What the states of MCAlgorithms are.
InputsGiven ==
    /\ kind = "bytes" => input \in Seq(Byte) /\ Len(input) <= 200
    /\ kind = "text"  => input \in Seq(Byte) /\ Len(input) <= 200
    /\ kind = "signs" => input \in Seq(Int)

LEMMA BoundedSequences ==
    ASSUME NEW S, NEW T, S \subseteq T, NEW n \in Nat, NEW s \in BoundedSeq(S, n)
    PROVE  s \in Seq(T) /\ Len(s) <= n
<1>1. PICK m \in 0 .. n : s \in [1 .. m -> S]
  BY DEF BoundedSeq, SeqOf
<1>2. s \in [1 .. m -> T] /\ m \in Nat /\ m <= n
  BY <1>1
<1>. QED  BY <1>2

LEMMA InputsAreGiven == Spec => []InputsGiven
<1>1. Init => InputsGiven
  <2>. SUFFICES ASSUME Init PROVE InputsGiven
    OBVIOUS
  <2>1. EdgeBytes \subseteq Byte /\ TextBytes \subseteq Byte /\ Signs \subseteq Int
    BY DEF EdgeBytes, TextBytes, Signs, Byte, Colon, Pad, Other
  <2>2. ASSUME kind = "bytes" PROVE input \in Seq(Byte) /\ Len(input) <= 200
    <3>1. input \in BoundedSeq(EdgeBytes, 3)
      BY <2>2 DEF Init
    <3>2. input \in Seq(Byte) /\ Len(input) <= 3
      BY <2>1, <3>1, BoundedSequences
    <3>. QED  BY <3>2
  <2>3. ASSUME kind = "text" PROVE input \in Seq(Byte) /\ Len(input) <= 200
    <3>1. input \in BoundedSeq(TextBytes, 5)
      BY <2>3 DEF Init
    <3>2. input \in Seq(Byte) /\ Len(input) <= 5
      BY <2>1, <3>1, BoundedSequences
    <3>. QED  BY <3>2
  <2>4. ASSUME kind = "signs" PROVE input \in Seq(Int)
    <3>1. input \in BoundedSeq(Signs, 5)
      BY <2>4 DEF Init
    <3>. QED  BY <2>1, <3>1, BoundedSequences
  <2>. QED  BY <2>2, <2>3, <2>4 DEF InputsGiven
<1>2. InputsGiven /\ [Next]_<<kind, input>> => InputsGiven'
  BY DEF InputsGiven, Next
<1>. QED  BY <1>1, <1>2, PTL DEF Spec

\* http_server.c:108: the credentials that a client has encoded are what the server
\* decodes, also before a carriage return, behind another group or into a buffer
\* that is too small.
THEOREM CredentialsSurvive == Spec => []DecodesWhatWasEncoded
<1>1. InputsGiven => DecodesWhatWasEncoded
  <2>. SUFFICES ASSUME InputsGiven, kind = "bytes" PROVE DecodesWhatWasEncoded
    BY DEF DecodesWhatWasEncoded
  <2>1. input \in Seq(Byte) /\ Len(input) <= 200
    BY DEF InputsGiven
  <2>2. http_base64_decode(Encode(input), 256) = [bytes |-> input, ok |-> TRUE]
        /\ http_base64_decode(Encode(input) \o <<Other>>, 256).bytes = input
    <3>1. 256 \in Nat /\ Len(input) <= 256
      BY <2>1
    <3>. QED  BY <2>1, <3>1, ShortSurvives
  <2>3. http_base64_decode(Encode(<<255, 0, 255>> \o input), 256).bytes = <<255, 0, 255>> \o input
    <3> DEFINE more == <<255, 0, 255>> \o input
    <3>1. <<255, 0, 255>> \in Seq(Byte) /\ Len(<<255, 0, 255>>) = 3
      BY DEF Byte
    <3>2. more \in Seq(Byte) /\ Len(more) = 3 + Len(input)
      <4> DEFINE three == <<255, 0, 255>>
      <4>. HIDE DEF three
      <4>1. three \o input \in Seq(Byte) /\ Len(three \o input) = Len(three) + Len(input)
        BY <2>1, <3>1, ConcatProperties DEF three
      <4>. QED  BY <3>1, <4>1 DEF three
    <3>. HIDE DEF more
    <3>3. 256 \in Nat /\ Len(more) <= 256
      BY <2>1, <3>2
    <3>6. http_base64_decode(Encode(more), 256).bytes = more
      BY <3>2, <3>3, ShortSurvives
    <3>. QED  BY <3>6 DEF more
  <2>4. ASSUME NEW size \in 0 .. 3
        PROVE  http_base64_decode(Encode(input), size).bytes
                 = SubSeq(input, 1, IF size <= Len(input) THEN size ELSE Len(input))
    <3>1. size \in Nat
      OBVIOUS
    <3>2. http_base64_decode(Encode(input), size) = Back(input, size)
      BY <2>1, <3>1, EncodedIsDecoded
    <3>3. Back(input, size).bytes
            = SubSeq(input, 1, IF size <= Len(input) THEN size ELSE Len(input))
      BY <2>1, <3>1, BackWhole
    <3>. QED  BY <3>2, <3>3
  <2>. QED  BY Zenon, <2>2, <2>3, <2>4 DEF DecodesWhatWasEncoded
<1>. QED  BY <1>1, InputsAreGiven, PTL

\* http_server.c:250: whatever accounts there are, a request is authorized by
\* credentials that present one of them, and by no others, also when the decoding
\* ends with an error.
THEOREM AccountsAreAuthorized == Spec => []AuthorizedIffAccount
<1>1. InputsGiven => AuthorizedIffAccount
  <2>. SUFFICES ASSUME InputsGiven PROVE AuthorizedIffAccount
    OBVIOUS
  <2>1. ASSUME kind = "text"
        PROVE  check_authorization(Encode(input)) = "authorized"
                 <=> \E account \in Accounts : Presents(input, account)
    <3>1. input \in Seq(Byte) /\ Len(input) <= 200
      BY <2>1 DEF InputsGiven
    <3>2. 256 \in Nat /\ Len(input) <= 256
      BY <3>1
    <3>3. http_base64_decode(Encode(input), 256).bytes = input
      BY <3>1, <3>2, ShortSurvives
    <3>4. Encode(input) \in Seq(Int)
      BY Zenon, <3>1, EncodedText
    <3>. QED  BY Zenon, <3>3, <3>4, AuthorizedIffPresented
  <2>2. ASSUME kind = "signs"
        PROVE  check_authorization(input) = "authorized"
                 <=> \E account \in Accounts :
                        Presents(http_base64_decode(input, 256).bytes, account)
    <3>1. input \in Seq(Int)
      BY <2>2 DEF InputsGiven
    <3>. QED  BY Zenon, <3>1, AuthorizedIffPresented
  <2>. QED  BY Zenon, <2>1, <2>2 DEF AuthorizedIffAccount
<1>. QED  BY <1>1, InputsAreGiven, PTL

\* http_server.c:710: though a name is compared over its own length only, the order
\* of the chains is such that every field is found by its full name; but a GET takes
\* Accept for Accept-Language.
THEOREM FieldsAreFound == Spec => []FieldsFound
<1> DEFINE FieldGiven == /\ kind = "get" => input \in Range(GetFields)
                         /\ kind = "post" => input \in Range(PostFields)
<1>1. Init => FieldGiven
  BY DEF Init
<1>2. FieldGiven /\ [Next]_<<kind, input>> => FieldGiven'
  BY DEF Next
<1>3. FieldGiven => FieldsFound
  <2>. SUFFICES ASSUME FieldGiven PROVE FieldsFound
    OBVIOUS
  <2>1. ASSUME kind = "get"
        PROVE  Field(GetFields, input)
                 = IF input = <<"Accept">> THEN <<"Accept", "Language">> ELSE input
    <3>1. DOMAIN GetFields = 1 .. 10
      BY DEF GetFields
    <3>2. PICK i \in 1 .. 10 : input = GetFields[i]
      BY <2>1, <3>1 DEF Range
    <3>. QED  BY <3>2, GetFieldNames
  <2>2. ASSUME kind = "post" PROVE Field(PostFields, input) = input
    <3>1. DOMAIN PostFields = 1 .. 7
      BY DEF PostFields
    <3>2. PICK i \in 1 .. 7 : input = PostFields[i]
      BY <2>2, <3>1 DEF Range
    <3>. QED  BY <3>2, PostFieldNames
  <2>. QED  BY <2>1, <2>2 DEF FieldsFound
<1>. QED  BY <1>1, <1>2, <1>3, PTL DEF Spec
=============================================================================
