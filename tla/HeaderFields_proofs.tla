------------------------ MODULE HeaderFields_proofs ------------------------
(***************************************************************************)
(* Which field a name is taken for, for every name; and what the proofs    *)
(* about recursive functions need.                                         *)
(***************************************************************************)
EXTENDS HeaderFields, SequenceTheorems, WellFoundedInduction, TLAPS

(***************************************************************************)
(* Induction and recursion over 0 .. n, for sets and functions.            *)
(***************************************************************************)
\* A set of numbers that is not empty has a least one.
LEMMA LeastNumber ==
    ASSUME NEW T \in SUBSET Nat, T # {}
    PROVE  \E n \in T : \A m \in T : n <= m
<1>1. IsWellFoundedOn({ss \in Nat \X Nat : ss[1] < ss[2]}, Nat)
  BY NatLessThanWellFounded DEF OpToRel
<1>2. PICK n \in T : \A m \in T : ~ (<<m, n>> \in {ss \in Nat \X Nat : ss[1] < ss[2]})
  BY <1>1, WFMin
<1>3. \A m \in T : ~ (m < n)
  BY <1>2
<1>. QED  BY <1>3

LEMMA UpTo ==
    ASSUME NEW n \in Nat, NEW T, 0 \in T, \A i \in 1 .. n : i - 1 \in T => i \in T
    PROVE  0 .. n \subseteq T
<1>. SUFFICES ASSUME (0 .. n) \ T # {} PROVE FALSE
  OBVIOUS
<1>1. PICK k \in (0 .. n) \ T : \A m \in (0 .. n) \ T : k <= m
  <2>1. (0 .. n) \ T \in SUBSET Nat
    OBVIOUS
  <2>. QED  BY <2>1, LeastNumber
<1>2. k # 0 /\ k \in 1 .. n /\ k - 1 \in 0 .. n /\ k - 1 < k
  BY <1>1
<1>3. k - 1 \in T
  BY <1>1, <1>2
<1>. QED  BY <1>1, <1>2, <1>3

\* f begins with x and goes on by these steps; there is such a function.
Iterates(f, n, x, step) == f[0] = x /\ \A i \in 1 .. n : f[i] = step[i][f[i - 1]]

LEMMA Recursion ==
    ASSUME NEW n \in Nat, NEW S, NEW x \in S, NEW step \in [1 .. n -> [S -> S]]
    PROVE  \E f \in [0 .. n -> S] : Iterates(f, n, x, step)
<1> DEFINE Goes(f, k) == f[0] = x /\ \A i \in 1 .. k : f[i] = step[i][f[i - 1]]
           T == {k \in 0 .. n : \E f \in [0 .. k -> S] : Goes(f, k)}
<1>1. 0 \in T
  <2> DEFINE f == [i \in 0 .. 0 |-> x]
  <2>1. f \in [0 .. 0 -> S] /\ f[0] = x
    OBVIOUS
  <2>2. 1 .. 0 = {} /\ 0 \in 0 .. n
    OBVIOUS
  <2>. QED  BY <2>1, <2>2
<1>2. ASSUME NEW k \in 1 .. n, k - 1 \in T PROVE k \in T
  <2>1. PICK f \in [0 .. k - 1 -> S] : Goes(f, k - 1)
    BY <1>2
  <2> DEFINE y == step[k][f[k - 1]]
             g == [i \in 0 .. k |-> IF i = k THEN y ELSE f[i]]
  <2>2. k - 1 \in 0 .. k - 1 /\ \A i \in 0 .. k : i = k \/ i \in 0 .. k - 1
    BY <1>2
  <2>3. y \in S
    BY <2>1, <2>2
  <2>4. g \in [0 .. k -> S]
    <3> HIDE DEF y
    <3>. QED  BY <2>1, <2>2, <2>3
  <2>5. \A i \in 0 .. k : g[i] = IF i = k THEN y ELSE f[i]
    OBVIOUS
  <2>. HIDE DEF g
  <2>6. g[0] = x
    BY <1>2, <2>1, <2>5
  <2>7. ASSUME NEW i \in 1 .. k PROVE g[i] = step[i][g[i - 1]]
    <3>1. i \in 0 .. k /\ i - 1 \in 0 .. k /\ i - 1 # k /\ (i # k => i \in 1 .. k - 1)
      BY <1>2
    <3>2. g[i - 1] = f[i - 1]
      BY <2>5, <3>1
    <3>3. CASE i = k
      BY <2>5, <3>1, <3>2, <3>3
    <3>4. CASE i # k
      BY <2>1, <2>5, <3>1, <3>2, <3>4
    <3>. QED  BY <3>3, <3>4
  <2>8. k \in 0 .. n
    BY <1>2
  <2>. QED  BY <2>4, <2>6, <2>7, <2>8
<1>3. n \in T
  <2>. HIDE DEF T
  <2>1. 0 .. n \subseteq T
    BY <1>1, <1>2, UpTo
  <2>. QED  BY <2>1
<1>. QED  BY <1>3 DEF Iterates

(***************************************************************************)
(* The fields that headers are taken for.                                  *)
(***************************************************************************)
\* A name is taken for the first field it is a prefix of.
LEMMA FirstField ==
    ASSUME NEW S, NEW fields \in Seq(S), NEW name
    PROVE  \/ /\ Field(fields, name) = <<"ignored">>
              /\ \A i \in 1 .. Len(fields) : ~IsPrefix(name, fields[i])
           \/ \E i \in 1 .. Len(fields) :
                 /\ Field(fields, name) = fields[i] /\ IsPrefix(name, fields[i])
                 /\ \A j \in 1 .. Len(fields) : j < i => ~IsPrefix(name, fields[j])
<1> DEFINE I == {i \in 1 .. Len(fields) : IsPrefix(name, fields[i])}
           n == SelectInSeq(fields, LAMBDA f : IsPrefix(name, f))
<1>1. Field(fields, name) = IF n = 0 THEN <<"ignored">> ELSE fields[n]
  BY DEF Field
<1>2. n = IF I # {} THEN Min(I) ELSE 0
  BY DEF SelectInSeq
<1>3. CASE I = {}
  BY <1>1, <1>2, <1>3
<1>4. CASE I # {}
  <2>1. \E i \in I : \A j \in I : i <= j
    <3>1. I \in SUBSET Nat
      OBVIOUS
    <3> HIDE DEF I
    <3>. QED  BY <1>4, <3>1, LeastNumber
  <2>2. n \in I /\ \A j \in I : n <= j
    <3> HIDE DEF I, n
    <3>. QED  BY <1>2, <1>4, <2>1 DEF Min
  <2>3. n \in 1 .. Len(fields) /\ IsPrefix(name, fields[n]) /\ n # 0
    <3> HIDE DEF n
    <3>. QED  BY <2>2
  <2>4. \A j \in 1 .. Len(fields) : j < n => ~IsPrefix(name, fields[j])
    <3> HIDE DEF n
    <3>. QED  BY <2>2, <2>3
  <2>. QED  BY <1>1, <2>3, <2>4
<1>. QED  BY <1>3, <1>4

LEMMA PrefixStart ==
    ASSUME NEW S, NEW s \in Seq(S), NEW t \in Seq(S), s # <<>>
    PROVE  IsPrefix(s, t) <=> Len(s) <= Len(t) /\ \A i \in 1 .. Len(s) : s[i] = t[i]
<1>1. Len(s) \in Nat /\ Len(t) \in Nat
  OBVIOUS
<1>2. ASSUME Len(s) <= Len(t)
      PROVE  SubSeq(s, 1, Len(s)) = SubSeq(t, 1, Len(s)) <=> \A i \in 1 .. Len(s) : s[i] = t[i]
  <2>1. /\ SubSeq(s, 1, Len(s)) \in Seq(S) /\ Len(SubSeq(s, 1, Len(s))) = Len(s)
        /\ \A i \in 1 .. Len(s) : SubSeq(s, 1, Len(s))[i] = s[i]
    BY <1>1
  <2>2. /\ SubSeq(t, 1, Len(s)) \in Seq(S) /\ Len(SubSeq(t, 1, Len(s))) = Len(s)
        /\ \A i \in 1 .. Len(s) : SubSeq(t, 1, Len(s))[i] = t[i]
    BY <1>1, <1>2
  <2> DEFINE a == SubSeq(s, 1, Len(s))
             b == SubSeq(t, 1, Len(s))
  <2> HIDE DEF a, b
  <2>3. a = b => \A i \in 1 .. Len(s) : s[i] = t[i]
    BY <2>1, <2>2 DEF a, b
  <2>4. ASSUME \A i \in 1 .. Len(s) : s[i] = t[i] PROVE a = b
    <3>1. a \in Seq(S) /\ b \in Seq(S) /\ Len(a) = Len(b) /\ \A i \in 1 .. Len(a) : a[i] = b[i]
      BY <2>1, <2>2, <2>4 DEF a, b
    <3>. QED  BY <3>1, SeqEqual
  <2>. QED  BY <2>3, <2>4 DEF a, b
<1>. QED  BY <1>2 DEF IsPrefix

\* A name is a prefix of a field of one word when it is that word.
LEMMA OneWord ==
    ASSUME NEW S, NEW name \in Seq(S) \ {<<>>}, NEW w \in S
    PROVE  IsPrefix(name, <<w>>) <=> name = <<w>>
<1>1. name \in Seq(S) /\ name # <<>> /\ Len(name) \in Nat \ {0}
  OBVIOUS
<1>2. <<w>> \in Seq(S) /\ Len(<<w>>) = 1 /\ <<w>>[1] = w
  OBVIOUS
<1> DEFINE f == <<w>>
<1>3. IsPrefix(name, f) <=> Len(name) <= Len(f) /\ \A i \in 1 .. Len(name) : name[i] = f[i]
  <2>1. f \in Seq(S)
    BY <1>2
  <2> HIDE DEF f
  <2>. QED  BY <1>1, <2>1, PrefixStart
<1>4. ASSUME Len(name) = 1, name[1] = w PROVE name = <<w>>
  BY <1>1, <1>2, <1>4, SeqEqual
<1> HIDE DEF f
<1>5. IsPrefix(name, f) => name = <<w>>
  BY <1>1, <1>2, <1>3, <1>4 DEF f
<1>6. name = <<w>> => IsPrefix(name, f)
  BY <1>1, <1>2, <1>3 DEF f
<1>. QED  BY <1>5, <1>6 DEF f

\* ... of one of two words, when it is the first of them or both.
LEMMA TwoWords ==
    ASSUME NEW S, NEW name \in Seq(S) \ {<<>>}, NEW v \in S, NEW w \in S
    PROVE  IsPrefix(name, <<v, w>>) <=> name = <<v>> \/ name = <<v, w>>
<1>1. name \in Seq(S) /\ name # <<>> /\ Len(name) \in Nat \ {0}
  OBVIOUS
<1>2. /\ <<v, w>> \in Seq(S) /\ Len(<<v, w>>) = 2 /\ <<v, w>>[1] = v /\ <<v, w>>[2] = w
      /\ <<v>> \in Seq(S) /\ Len(<<v>>) = 1 /\ <<v>>[1] = v
  OBVIOUS
<1> DEFINE f == <<v, w>>
<1>3. IsPrefix(name, f) <=> Len(name) <= Len(f) /\ \A i \in 1 .. Len(name) : name[i] = f[i]
  <2>1. f \in Seq(S)
    BY <1>2
  <2> HIDE DEF f
  <2>. QED  BY <1>1, <2>1, PrefixStart
<1>4. ASSUME Len(name) = 1, name[1] = v PROVE name = <<v>>
  BY <1>1, <1>2, <1>4, SeqEqual
<1>5. ASSUME Len(name) = 2, name[1] = v, name[2] = w PROVE name = <<v, w>>
  BY <1>1, <1>2, <1>5, SeqEqual
<1> HIDE DEF f
<1>6. ASSUME IsPrefix(name, f) PROVE name = <<v>> \/ name = <<v, w>>
  <2>1. Len(name) = 1 \/ Len(name) = 2
    <3>1. Len(f) = 2 /\ Len(name) <= Len(f)
      BY <1>2, <1>3, <1>6 DEF f
    <3> DEFINE n == Len(name)
    <3>2. n \in Nat \ {0} /\ n <= 2
      BY <1>1, <3>1
    <3> HIDE DEF n
    <3>3. n = 1 \/ n = 2
      BY <3>2
    <3>. QED  BY <3>3 DEF n
  <2>2. \A i \in 1 .. Len(name) : name[i] = f[i]
    BY <1>3, <1>6
  <2>3. CASE Len(name) = 1
    BY <1>2, <1>4, <2>2, <2>3 DEF f
  <2>4. CASE Len(name) = 2
    BY <1>2, <1>5, <2>2, <2>4 DEF f
  <2>. QED  BY <2>1, <2>3, <2>4
<1>7. name = <<v>> => IsPrefix(name, f)
  BY <1>1, <1>2, <1>3 DEF f
<1>8. name = <<v, w>> => IsPrefix(name, f)
  BY <1>1, <1>2, <1>3 DEF f
<1>. QED  BY <1>6, <1>7, <1>8 DEF f

LEMMA ThreeWords ==
    ASSUME NEW S, NEW name \in Seq(S) \ {<<>>}, NEW u \in S, NEW v \in S, NEW w \in S,
           IsPrefix(name, <<u, v, w>>)
    PROVE  name[1] = u
<1>1. name \in Seq(S) /\ name # <<>> /\ Len(name) \in Nat \ {0}
  OBVIOUS
<1> DEFINE f == <<u, v, w>>
<1>2. f \in Seq(S) /\ f[1] = u
  OBVIOUS
<1>0. IsPrefix(name, f)
  OBVIOUS
<1> HIDE DEF f
<1>3. \A i \in 1 .. Len(name) : name[i] = f[i]
  BY <1>0, <1>1, <1>2, PrefixStart
<1>. QED  BY <1>1, <1>2, <1>3

Words == STRING \cup {"Connection", "Content", "Length", "Cookie", "If", "Modified", "Since",
                     "Accept", "Language", "Charset", "Encoding", "User", "Agent",
                     "Authorization", "Type", "Disposition"}

\* A name is taken for the first field in which it is found.
LEMMA FieldIsFirst ==
    ASSUME NEW S, NEW fields \in Seq(S), NEW i \in 1 .. Len(fields), NEW name,
           IsPrefix(name, fields[i]), \A j \in 1 .. Len(fields) : j < i => ~IsPrefix(name, fields[j])
    PROVE  Field(fields, name) = fields[i]
<1>1. PICK k \in 1 .. Len(fields) :
         /\ Field(fields, name) = fields[k] /\ IsPrefix(name, fields[k])
         /\ \A j \in 1 .. Len(fields) : j < k => ~IsPrefix(name, fields[j])
  BY FirstField
<1>2. ~(k < i) /\ ~(i < k)
  BY <1>1
<1>3. k = i
  BY <1>2
<1>. QED  BY <1>1, <1>3

\* A field of three words is found by its full name.
LEMMA WholeIsPrefix ==
    ASSUME NEW S, NEW s \in Seq(S), s # <<>>
    PROVE  IsPrefix(s, s)
BY PrefixStart

\* The names that match each field of a GET ...
LEMMA GetFieldPrefixes ==
    ASSUME NEW name \in Seq(Words) \ {<<>>}
    PROVE  /\ GetFields \in Seq(Seq(Words)) /\ Len(GetFields) = 10
           /\ IsPrefix(name, GetFields[1]) <=> name = <<"Connection">>
           /\ IsPrefix(name, GetFields[2]) <=> name = <<"Content">> \/ name = <<"Content", "Length">>
           /\ IsPrefix(name, GetFields[3]) <=> name = <<"Cookie">>
           /\ IsPrefix(name, GetFields[4]) => name[1] = "If"
           /\ IsPrefix(name, GetFields[5]) <=> name = <<"Accept">> \/ name = <<"Accept", "Language">>
           /\ IsPrefix(name, GetFields[6]) <=> name = <<"Accept">>
           /\ IsPrefix(name, GetFields[7]) <=> name = <<"Accept">> \/ name = <<"Accept", "Charset">>
           /\ IsPrefix(name, GetFields[8]) <=> name = <<"Accept">> \/ name = <<"Accept", "Encoding">>
           /\ IsPrefix(name, GetFields[9]) <=> name = <<"User">> \/ name = <<"User", "Agent">>
           /\ IsPrefix(name, GetFields[10]) <=> name = <<"Authorization">>
<1> DEFINE F == GetFields
<1>1. F \in Seq(Seq(Words)) /\ Len(F) = 10
  BY DEF GetFields, Words
<1>2. /\ F[1] = <<"Connection">> /\ F[2] = <<"Content", "Length">> /\ F[3] = <<"Cookie">>
      /\ F[4] = <<"If", "Modified", "Since">> /\ F[5] = <<"Accept", "Language">>
      /\ F[6] = <<"Accept">> /\ F[7] = <<"Accept", "Charset">>
      /\ F[8] = <<"Accept", "Encoding">> /\ F[9] = <<"User", "Agent">>
      /\ F[10] = <<"Authorization">>
  BY DEF GetFields
<1>3. {"Connection", "Content", "Length", "Cookie", "If", "Modified", "Since", "Accept",
       "Language", "Charset", "Encoding", "User", "Agent", "Authorization"} \subseteq Words
  BY DEF Words
<1>. HIDE DEF F
<1>4. \A w \in Words : IsPrefix(name, <<w>>) <=> name = <<w>>
  BY OneWord
<1>5. \A v, w \in Words : IsPrefix(name, <<v, w>>) <=> name = <<v>> \/ name = <<v, w>>
  BY TwoWords
<1>6. IsPrefix(name, <<"If", "Modified", "Since">>) => name[1] = "If"
  BY <1>3, ThreeWords
<1>7. /\ IsPrefix(name, F[1]) <=> name = <<"Connection">>
      /\ IsPrefix(name, F[3]) <=> name = <<"Cookie">>
      /\ IsPrefix(name, F[4]) => name[1] = "If"
      /\ IsPrefix(name, F[6]) <=> name = <<"Accept">>
      /\ IsPrefix(name, F[10]) <=> name = <<"Authorization">>
  BY <1>2, <1>3, <1>4, <1>6
<1>8. /\ IsPrefix(name, F[2]) <=> name = <<"Content">> \/ name = <<"Content", "Length">>
      /\ IsPrefix(name, F[5]) <=> name = <<"Accept">> \/ name = <<"Accept", "Language">>
      /\ IsPrefix(name, F[7]) <=> name = <<"Accept">> \/ name = <<"Accept", "Charset">>
      /\ IsPrefix(name, F[8]) <=> name = <<"Accept">> \/ name = <<"Accept", "Encoding">>
      /\ IsPrefix(name, F[9]) <=> name = <<"User">> \/ name = <<"User", "Agent">>
  BY <1>2, <1>3, <1>5
<1>. QED  BY <1>1, <1>7, <1>8 DEF F

\* A GET finds each of its fields by its full name, but Accept.
LEMMA GetFieldNames ==
    \A i \in 1 .. 10 : Field(GetFields, GetFields[i]) =
        (IF GetFields[i] = <<"Accept">> THEN <<"Accept", "Language">> ELSE GetFields[i])
<1> DEFINE F == GetFields
<1>0. \A i \in 1 .. 10 : i = 1 \/ i = 2 \/ i = 3 \/ i = 4 \/ i = 5 \/ i = 6 \/ i = 7 \/ i = 8 \/ i = 9 \/ i = 10
  OBVIOUS
<1>1. F \in Seq(Seq(Words)) /\ Len(F) = 10
  BY DEF GetFields, Words
<1>2. /\ F[1] = <<"Connection">> /\ F[2] = <<"Content", "Length">> /\ F[3] = <<"Cookie">>
      /\ F[4] = <<"If", "Modified", "Since">> /\ F[5] = <<"Accept", "Language">>
      /\ F[6] = <<"Accept">> /\ F[7] = <<"Accept", "Charset">>
      /\ F[8] = <<"Accept", "Encoding">> /\ F[9] = <<"User", "Agent">>
      /\ F[10] = <<"Authorization">>
  BY DEF GetFields
<1>. SUFFICES ASSUME NEW i \in 1 .. 10
              PROVE  Field(F, F[i]) = IF F[i] = <<"Accept">> THEN F[5] ELSE F[i]
  BY <1>2
<1> DEFINE k == IF i = 6 THEN 5 ELSE i
<1>. HIDE DEF F, k
<1>3. F[i] \in Seq(Words) \ {<<>>}
  <2> DEFINE N == Seq(Words) \ {<<>>}
  <2>1. /\ F[1] \in N /\ F[2] \in N /\ F[3] \in N /\ F[4] \in N /\ F[5] \in N
        /\ F[6] \in N /\ F[7] \in N /\ F[8] \in N /\ F[9] \in N /\ F[10] \in N
    BY <1>2 DEF Words
  <2>. HIDE DEF N
  <2>2. F[i] \in N
    BY <1>0, <2>1
  <2>. QED  BY <2>2 DEF N
<1>4. k \in 1 .. 10
  BY DEF k
<1>5. IsPrefix(F[i], F[k])
  <2>1. i # 6 => IsPrefix(F[i], F[k])
    BY <1>3, WholeIsPrefix DEF k
  <2>2. i = 6 => IsPrefix(F[i], F[k])
    BY <1>2, <1>3, GetFieldPrefixes DEF F, k
  <2>. QED  BY <2>1, <2>2
<1>6. ASSUME NEW j \in 1 .. 10, j < k PROVE ~IsPrefix(F[i], F[j])
  <2> DEFINE n == F[i]
  <2>1. /\ IsPrefix(n, F[1]) <=> n = <<"Connection">>
        /\ IsPrefix(n, F[2]) <=> n = <<"Content">> \/ n = <<"Content", "Length">>
        /\ IsPrefix(n, F[3]) <=> n = <<"Cookie">>
        /\ IsPrefix(n, F[4]) => n[1] = "If"
        /\ IsPrefix(n, F[5]) <=> n = <<"Accept">> \/ n = <<"Accept", "Language">>
        /\ IsPrefix(n, F[6]) <=> n = <<"Accept">>
        /\ IsPrefix(n, F[7]) <=> n = <<"Accept">> \/ n = <<"Accept", "Charset">>
        /\ IsPrefix(n, F[8]) <=> n = <<"Accept">> \/ n = <<"Accept", "Encoding">>
        /\ IsPrefix(n, F[9]) <=> n = <<"User">> \/ n = <<"User", "Agent">>
    BY <1>3, GetFieldPrefixes DEF F
  <2>2. CASE k = 2
    BY <1>0, <1>2, <1>6, <2>1, <2>2 DEF k
  <2>3. CASE k = 3
    BY <1>0, <1>2, <1>6, <2>1, <2>3 DEF k
  <2>4. CASE k = 4
    BY <1>0, <1>2, <1>6, <2>1, <2>4 DEF k
  <2>5. CASE k = 5
    BY <1>0, <1>2, <1>6, <2>1, <2>5 DEF k
  <2>7. CASE k = 7
    BY <1>0, <1>2, <1>6, <2>1, <2>7 DEF k
  <2>8. CASE k = 8
    BY <1>0, <1>2, <1>6, <2>1, <2>8 DEF k
  <2>9. CASE k = 9
    BY <1>0, <1>2, <1>6, <2>1, <2>9 DEF k
  <2>10. CASE k = 10
    BY <1>0, <1>2, <1>6, <2>1, <2>10 DEF k
  <2>11. k # 1 /\ k # 6
    BY <1>6 DEF k
  <2>. QED  BY <1>0, <1>4, <2>2, <2>3, <2>4, <2>5, <2>7, <2>8, <2>9, <2>10, <2>11
<1>7. Field(F, F[i]) = F[k]
  BY <1>1, <1>4, <1>5, <1>6, FieldIsFirst
<1>8. F[i] = <<"Accept">> <=> i = 6
  BY <1>0, <1>2
<1>. QED  BY <1>7, <1>8 DEF k

\* ... and each field of a POST.
LEMMA PostFieldPrefixes ==
    ASSUME NEW name \in Seq(Words) \ {<<>>}
    PROVE  /\ PostFields \in Seq(Seq(Words)) /\ Len(PostFields) = 7
           /\ IsPrefix(name, PostFields[1]) <=> name = <<"Authorization">>
           /\ IsPrefix(name, PostFields[2]) <=> name = <<"Content">> \/ name = <<"Content", "Length">>
           /\ IsPrefix(name, PostFields[3]) <=> name = <<"Accept">>
           /\ IsPrefix(name, PostFields[4]) <=> name = <<"Accept">> \/ name = <<"Accept", "Encoding">>
           /\ IsPrefix(name, PostFields[5]) <=> name = <<"User">> \/ name = <<"User", "Agent">>
           /\ IsPrefix(name, PostFields[6]) <=> name = <<"Content">> \/ name = <<"Content", "Type">>
           /\ IsPrefix(name, PostFields[7])
                 <=> name = <<"Content">> \/ name = <<"Content", "Disposition">>
<1> DEFINE F == PostFields
<1>1. F \in Seq(Seq(Words)) /\ Len(F) = 7
  BY DEF PostFields, Words
<1>2. /\ F[1] = <<"Authorization">> /\ F[2] = <<"Content", "Length">>
      /\ F[3] = <<"Accept">> /\ F[4] = <<"Accept", "Encoding">> /\ F[5] = <<"User", "Agent">>
      /\ F[6] = <<"Content", "Type">> /\ F[7] = <<"Content", "Disposition">>
  BY DEF PostFields
<1>3. {"Authorization", "Content", "Length", "Accept", "Encoding", "User", "Agent", "Type",
       "Disposition"} \subseteq Words
  BY DEF Words
<1>. HIDE DEF F
<1>4. \A w \in Words : IsPrefix(name, <<w>>) <=> name = <<w>>
  BY OneWord
<1>5. \A v, w \in Words : IsPrefix(name, <<v, w>>) <=> name = <<v>> \/ name = <<v, w>>
  BY TwoWords
<1>7. /\ IsPrefix(name, F[1]) <=> name = <<"Authorization">>
      /\ IsPrefix(name, F[3]) <=> name = <<"Accept">>
  BY <1>2, <1>3, <1>4
<1>8. /\ IsPrefix(name, F[2]) <=> name = <<"Content">> \/ name = <<"Content", "Length">>
      /\ IsPrefix(name, F[4]) <=> name = <<"Accept">> \/ name = <<"Accept", "Encoding">>
      /\ IsPrefix(name, F[5]) <=> name = <<"User">> \/ name = <<"User", "Agent">>
      /\ IsPrefix(name, F[6]) <=> name = <<"Content">> \/ name = <<"Content", "Type">>
      /\ IsPrefix(name, F[7]) <=> name = <<"Content">> \/ name = <<"Content", "Disposition">>
  BY <1>2, <1>3, <1>5
<1>. QED  BY <1>1, <1>7, <1>8 DEF F

\* A POST finds each of its fields by its full name.
LEMMA PostFieldNames == \A i \in 1 .. 7 : Field(PostFields, PostFields[i]) = PostFields[i]
<1> DEFINE F == PostFields
<1>0. \A i \in 1 .. 7 : i = 1 \/ i = 2 \/ i = 3 \/ i = 4 \/ i = 5 \/ i = 6 \/ i = 7
  OBVIOUS
<1>1. F \in Seq(Seq(Words)) /\ Len(F) = 7
  BY DEF PostFields, Words
<1>2. /\ F[1] = <<"Authorization">> /\ F[2] = <<"Content", "Length">>
      /\ F[3] = <<"Accept">> /\ F[4] = <<"Accept", "Encoding">> /\ F[5] = <<"User", "Agent">>
      /\ F[6] = <<"Content", "Type">> /\ F[7] = <<"Content", "Disposition">>
  BY DEF PostFields
<1>. SUFFICES ASSUME NEW i \in 1 .. 7 PROVE Field(F, F[i]) = F[i]
  OBVIOUS
<1>. HIDE DEF F
<1>3. F[i] \in Seq(Words) \ {<<>>}
  <2> DEFINE N == Seq(Words) \ {<<>>}
  <2>1. /\ F[1] \in N /\ F[2] \in N /\ F[3] \in N /\ F[4] \in N /\ F[5] \in N
        /\ F[6] \in N /\ F[7] \in N
    BY <1>2 DEF Words
  <2>. HIDE DEF N
  <2>2. F[i] \in N
    BY <1>0, <2>1
  <2>. QED  BY <2>2 DEF N
<1>4. IsPrefix(F[i], F[i])
  BY <1>3, WholeIsPrefix
<1>5. ASSUME NEW j \in 1 .. 7, j < i PROVE ~IsPrefix(F[i], F[j])
  <2> DEFINE n == F[i]
  <2>1. /\ IsPrefix(n, F[1]) <=> n = <<"Authorization">>
        /\ IsPrefix(n, F[2]) <=> n = <<"Content">> \/ n = <<"Content", "Length">>
        /\ IsPrefix(n, F[3]) <=> n = <<"Accept">>
        /\ IsPrefix(n, F[4]) <=> n = <<"Accept">> \/ n = <<"Accept", "Encoding">>
        /\ IsPrefix(n, F[5]) <=> n = <<"User">> \/ n = <<"User", "Agent">>
        /\ IsPrefix(n, F[6]) <=> n = <<"Content">> \/ n = <<"Content", "Type">>
    BY <1>3, PostFieldPrefixes DEF F
  <2>2. CASE i = 2
    BY <1>0, <1>2, <1>5, <2>1, <2>2
  <2>3. CASE i = 3
    BY <1>0, <1>2, <1>5, <2>1, <2>3
  <2>4. CASE i = 4
    BY <1>0, <1>2, <1>5, <2>1, <2>4
  <2>5. CASE i = 5
    BY <1>0, <1>2, <1>5, <2>1, <2>5
  <2>6. CASE i = 6
    BY <1>0, <1>2, <1>5, <2>1, <2>6
  <2>7. CASE i = 7
    BY <1>0, <1>2, <1>5, <2>1, <2>7
  <2>8. i # 1
    BY <1>5
  <2>. QED  BY <1>0, <2>2, <2>3, <2>4, <2>5, <2>6, <2>7, <2>8
<1>. QED  BY <1>1, <1>3, <1>4, <1>5, FieldIsFirst

\* The fields of a GET that the code acts on are found under their own names
\* only; Accept never is, being a prefix of Accept-Language, which comes first.
LEMMA GetFieldsFound ==
    ASSUME NEW name \in Seq(STRING), name # <<>>
    PROVE  LET f == Field(GetFields, name) IN
           /\ f = <<"Connection">> <=> name = <<"Connection">>
           /\ f = <<"Cookie">> <=> name = <<"Cookie">>
           /\ f = <<"Accept", "Charset">> <=> name = <<"Accept", "Charset">>
           /\ f # <<"Accept">>
<1> DEFINE F == GetFields
           f == Field(F, name)
<1>0. \A i \in 1 .. 10 : i = 1 \/ i = 2 \/ i = 3 \/ i = 4 \/ i = 5 \/ i = 6 \/ i = 7 \/ i = 8 \/ i = 9 \/ i = 10
  OBVIOUS
<1>1. F \in Seq(Seq(Words)) /\ Len(F) = 10
  BY DEF GetFields, Words
<1>2. /\ F[1] = <<"Connection">> /\ F[2] = <<"Content", "Length">> /\ F[3] = <<"Cookie">>
      /\ F[4] = <<"If", "Modified", "Since">> /\ F[5] = <<"Accept", "Language">>
      /\ F[6] = <<"Accept">> /\ F[7] = <<"Accept", "Charset">>
      /\ F[8] = <<"Accept", "Encoding">> /\ F[9] = <<"User", "Agent">>
      /\ F[10] = <<"Authorization">>
  BY DEF GetFields
<1>3. /\ IsPrefix(name, F[1]) <=> name = <<"Connection">>
      /\ IsPrefix(name, F[2]) <=> name = <<"Content">> \/ name = <<"Content", "Length">>
      /\ IsPrefix(name, F[3]) <=> name = <<"Cookie">>
      /\ IsPrefix(name, F[4]) => name[1] = "If"
      /\ IsPrefix(name, F[5]) <=> name = <<"Accept">> \/ name = <<"Accept", "Language">>
      /\ IsPrefix(name, F[6]) <=> name = <<"Accept">>
      /\ IsPrefix(name, F[7]) <=> name = <<"Accept">> \/ name = <<"Accept", "Charset">>
  <2>1. name \in Seq(Words) \ {<<>>}
    BY SeqMonotonic DEF Words
  <2>. QED  BY <2>1, GetFieldPrefixes
<1>4. \/ f = <<"ignored">> /\ \A i \in 1 .. 10 : ~IsPrefix(name, F[i])
      \/ \E i \in 1 .. 10 : /\ f = F[i] /\ IsPrefix(name, F[i])
                            /\ \A j \in 1 .. 10 : j < i => ~IsPrefix(name, F[j])
  BY <1>1, FirstField
<1> HIDE DEF F, f
<1>5. f = <<"Connection">> <=> name = <<"Connection">>
  <2>1. ASSUME f = <<"Connection">> PROVE name = <<"Connection">>
    BY <1>0, <1>2, <1>3, <1>4, <2>1
  <2>2. ASSUME name = <<"Connection">> PROVE f = <<"Connection">>
    <3>1. \A i \in 1 .. 10 : i < 1 => FALSE
      OBVIOUS
    <3>2. IsPrefix(name, F[1]) /\ \A i \in 1 .. 10 : i < 1 => ~IsPrefix(name, F[i])
      BY <1>2, <1>3, <2>2, <3>1
    <3>. QED  BY <1>2, <1>4, <3>2
  <2>. QED  BY <2>1, <2>2
<1>6. f = <<"Cookie">> <=> name = <<"Cookie">>
  <2>1. ASSUME f = <<"Cookie">> PROVE name = <<"Cookie">>
    BY <1>0, <1>2, <1>3, <1>4, <2>1
  <2>2. ASSUME name = <<"Cookie">> PROVE f = <<"Cookie">>
    <3>1. \A i \in 1 .. 10 : i < 3 => i = 1 \/ i = 2
      OBVIOUS
    <3>2. IsPrefix(name, F[3]) /\ \A i \in 1 .. 10 : i < 3 => ~IsPrefix(name, F[i])
      BY <1>2, <1>3, <2>2, <3>1
    <3>. QED  BY <1>2, <1>4, <3>2
  <2>. QED  BY <2>1, <2>2
<1>7. f = <<"Accept", "Charset">> <=> name = <<"Accept", "Charset">>
  <2>1. ASSUME f = <<"Accept", "Charset">> PROVE name = <<"Accept", "Charset">>
    <3>1. PICK i \in 1 .. 10 : /\ f = F[i] /\ IsPrefix(name, F[i])
                              /\ \A j \in 1 .. 10 : j < i => ~IsPrefix(name, F[j])
      BY <1>4, <2>1
    <3>2. i = 7
      <4>1. <<"Accept", "Charset">>[1] = "Accept" /\ <<"Accept", "Charset">>[2] = "Charset" /\ Len(<<"Accept", "Charset">>) = 2
        OBVIOUS
      <4>2. /\ Len(F[1]) = 1 /\ F[2][1] = "Content" /\ Len(F[3]) = 1 /\ Len(F[4]) = 3
            /\ F[5][2] = "Language" /\ Len(F[6]) = 1 /\ F[8][2] = "Encoding"
            /\ F[9][1] = "User" /\ Len(F[10]) = 1
        BY <1>2
      <4>. QED  BY <1>0, <2>1, <3>1, <4>1, <4>2
    <3>3. ~IsPrefix(name, F[5])
      BY <3>1, <3>2
    <3>. QED  BY <1>3, <3>1, <3>2, <3>3
  <2>2. ASSUME name = <<"Accept", "Charset">> PROVE f = <<"Accept", "Charset">>
    <3>1. \A i \in 1 .. 10 : i < 7 => i = 1 \/ i = 2 \/ i = 3 \/ i = 4 \/ i = 5 \/ i = 6
      OBVIOUS
    <3>2. IsPrefix(name, F[7]) /\ \A i \in 1 .. 10 : i < 7 => ~IsPrefix(name, F[i])
      BY <1>2, <1>3, <2>2, <3>1
    <3>. QED  BY <1>2, <1>4, <3>2
  <2>. QED  BY <2>1, <2>2
<1>8. ASSUME f = <<"Accept">> PROVE FALSE
  <2>1. PICK i \in 1 .. 10 : /\ f = F[i] /\ IsPrefix(name, F[i])
                            /\ \A j \in 1 .. 10 : j < i => ~IsPrefix(name, F[j])
    BY <1>4, <1>8
  <2>2. i = 6
    <3>1. <<"Accept">>[1] = "Accept" /\ Len(<<"Accept">>) = 1
      OBVIOUS
    <3>2. /\ F[1][1] = "Connection" /\ Len(F[2]) = 2 /\ F[3][1] = "Cookie" /\ Len(F[4]) = 3
          /\ Len(F[5]) = 2 /\ Len(F[7]) = 2 /\ Len(F[8]) = 2 /\ Len(F[9]) = 2
          /\ F[10][1] = "Authorization"
      BY <1>2
    <3>. QED  BY <1>0, <1>8, <2>1, <3>1, <3>2
  <2>3. ~IsPrefix(name, F[5])
    BY <2>1, <2>2
  <2>. QED  BY <1>3, <2>1, <2>2, <2>3
<1>. QED  BY <1>5, <1>6, <1>7, <1>8 DEF f, F

\* So are those of a POST that decide whether it is an upload.
LEMMA PostFieldsFound ==
    ASSUME NEW name \in Seq(STRING), name # <<>>
    PROVE  LET f == Field(PostFields, name) IN
           /\ f = <<"Authorization">> <=> name = <<"Authorization">>
           /\ name = <<"Content", "Length">> => f = <<"Content", "Length">>
<1> DEFINE F == PostFields
           f == Field(F, name)
<1>0. \A i \in 1 .. 7 : i = 1 \/ i = 2 \/ i = 3 \/ i = 4 \/ i = 5 \/ i = 6 \/ i = 7
  OBVIOUS
<1>1. F \in Seq(Seq(Words)) /\ Len(F) = 7
  BY DEF PostFields, Words
<1>2. /\ F[1] = <<"Authorization">> /\ F[2] = <<"Content", "Length">>
      /\ F[3] = <<"Accept">> /\ F[4] = <<"Accept", "Encoding">> /\ F[5] = <<"User", "Agent">>
      /\ F[6] = <<"Content", "Type">> /\ F[7] = <<"Content", "Disposition">>
  BY DEF PostFields
<1>3. /\ IsPrefix(name, F[1]) <=> name = <<"Authorization">>
      /\ IsPrefix(name, F[2]) <=> name = <<"Content">> \/ name = <<"Content", "Length">>
  <2>1. name \in Seq(Words) \ {<<>>}
    BY SeqMonotonic DEF Words
  <2>. QED  BY <2>1, PostFieldPrefixes
<1>4. \/ f = <<"ignored">> /\ \A i \in 1 .. 7 : ~IsPrefix(name, F[i])
      \/ \E i \in 1 .. 7 : /\ f = F[i] /\ IsPrefix(name, F[i])
                           /\ \A j \in 1 .. 7 : j < i => ~IsPrefix(name, F[j])
  BY <1>1, FirstField
<1> HIDE DEF F, f
<1>5. f = <<"Authorization">> <=> name = <<"Authorization">>
  <2>1. ASSUME f = <<"Authorization">> PROVE name = <<"Authorization">>
    BY <1>0, <1>2, <1>3, <1>4, <2>1
  <2>2. ASSUME name = <<"Authorization">> PROVE f = <<"Authorization">>
    <3>1. \A i \in 1 .. 7 : i < 1 => FALSE
      OBVIOUS
    <3>2. IsPrefix(name, F[1]) /\ \A i \in 1 .. 7 : i < 1 => ~IsPrefix(name, F[i])
      BY <1>2, <1>3, <2>2, <3>1
    <3>3. PICK i \in 1 .. 7 : f = F[i] /\ \A j \in 1 .. 7 : j < i => ~IsPrefix(name, F[j])
      BY <1>4, <3>2
    <3>4. i = 1
      BY <3>2, <3>3
    <3>. QED  BY <1>2, <3>3, <3>4
  <2>. QED  BY <2>1, <2>2
<1>6. name = <<"Content", "Length">> => f = <<"Content", "Length">>
  BY <1>2, <1>3, <1>4
<1>. QED  BY <1>5, <1>6 DEF f, F

\* The Content-Type of a POST is found under its own name and no other.
LEMMA ContentTypeFound ==
    ASSUME NEW name \in Seq(STRING), name # <<>>
    PROVE  Field(PostFields, name) = <<"Content", "Type">> <=> name = <<"Content", "Type">>
<1> DEFINE F == PostFields
           f == Field(F, name)
<1>1. F \in Seq(Seq(Words)) /\ Len(F) = 7
  BY DEF PostFields, Words
<1>2. /\ F[1] = <<"Authorization">> /\ F[2] = <<"Content", "Length">>
      /\ F[3] = <<"Accept">> /\ F[4] = <<"Accept", "Encoding">> /\ F[5] = <<"User", "Agent">>
      /\ F[6] = <<"Content", "Type">> /\ F[7] = <<"Content", "Disposition">>
  BY DEF PostFields
<1>3. /\ IsPrefix(name, F[2]) <=> name = <<"Content">> \/ name = <<"Content", "Length">>
      /\ IsPrefix(name, F[6]) <=> name = <<"Content">> \/ name = <<"Content", "Type">>
  <2>1. name \in Seq(Words) \ {<<>>}
    BY SeqMonotonic DEF Words
  <2>. QED  BY <2>1, PostFieldPrefixes
<1>4. \/ f = <<"ignored">> /\ \A i \in 1 .. 7 : ~IsPrefix(name, F[i])
      \/ \E i \in 1 .. 7 : /\ f = F[i] /\ IsPrefix(name, F[i])
                           /\ \A j \in 1 .. 7 : j < i => ~IsPrefix(name, F[j])
  BY <1>1, FirstField
<1>5. f = <<"Content", "Type">> => name = <<"Content", "Type">>
  <2>. SUFFICES ASSUME f = <<"Content", "Type">> PROVE name = <<"Content", "Type">>
    OBVIOUS
  <2>. HIDE DEF F, f
  <2>1. PICK i \in 1 .. 7 : /\ f = F[i] /\ IsPrefix(name, F[i])
                            /\ \A j \in 1 .. 7 : j < i => ~IsPrefix(name, F[j])
    BY <1>4
  <2>2. /\ F[1] # F[6] /\ F[2] # F[6] /\ F[3] # F[6] /\ F[4] # F[6] /\ F[5] # F[6]
        /\ F[7] # F[6]
    BY <1>2
  <2>3. i = 1 \/ i = 2 \/ i = 3 \/ i = 4 \/ i = 5 \/ i = 6 \/ i = 7
    OBVIOUS
  <2>4. F[i] = F[6]
    BY <1>2, <2>1
  <2>5. i = 6
    BY Zenon, <2>2, <2>3, <2>4
  <2>6. ~IsPrefix(name, F[2])
    BY <2>1, <2>5
  <2>. QED  BY <1>3, <2>1, <2>5, <2>6
<1>6. name = <<"Content", "Type">> => f = <<"Content", "Type">>
  <2>1. Field(F, F[6]) = F[6]
    <3>1. \A i \in 1 .. 7 : Field(F, F[i]) = F[i]
      BY PostFieldNames
    <3>. QED  BY <3>1
  <2>. HIDE DEF F
  <2>. QED  BY <1>2, <2>1
<1>. QED  BY <1>5, <1>6 DEF f, F
=============================================================================
