------------------------- MODULE CommandLineProofs -------------------------
(***************************************************************************)
(* What ffmpeg is started with (Source, CommandLine), for every line a     *)
(* caller may write.  SourceInv says which line a leg runs under; the rest *)
(* is about lines, and goes by induction over their tokens: what           *)
(* inject_seek and ensure_ffmpeg_flags make of a line means to ffmpeg what *)
(* the line meant, but for the seek and for what was missing.              *)
(***************************************************************************)
EXTENDS Source, SequenceTheorems, WellFoundedInduction, NaturalsInduction, TLAPS

----------------------------------------------------------------------------
(* Induction and recursion *)

\* A set of numbers has a least one: what every induction here rests on.
LEMMA LeastNumber ==
    ASSUME NEW S \in SUBSET Nat, S # {}
    PROVE  \E m \in S : \A k \in S : m <= k
  <1> DEFINE R == OpToRel(<, Nat)
  <1>1. IsWellFoundedOn(R, Nat)
    BY NatLessThanWellFounded
  <1>2. PICK m \in S : \A k \in S : <<k, m>> \notin R
    BY <1>1, WFMin
  <1>3. \A k \in S : ~(k < m)
    BY <1>2 DEF OpToRel
  <1> QED
    BY <1>3

\* A set that has 0, and each number's successor up to N, has all numbers up to N.
LEMMA UpTo ==
    ASSUME NEW N \in Nat, NEW S, 0 \in S, \A n \in 0 .. N - 1 : n \in S => n + 1 \in S
    PROVE  \A n \in 0 .. N : n \in S
  <1> SUFFICES ASSUME (0 .. N) \ S # {}
               PROVE  FALSE
    OBVIOUS
  <1> DEFINE T == (0 .. N) \ S
  <1>1. PICK m \in T : \A k \in T : m <= k
    <2>1. T \in SUBSET Nat /\ T # {}
      OBVIOUS
    <2> HIDE DEF T
    <2> QED
      BY <2>1, LeastNumber
  <1>2. m # 0
    BY <1>1
  <1>3. PICK k \in 0 .. N - 1 : k = m - 1
    BY <1>1, <1>2
  <1>4. k \in S
    BY <1>1, <1>3
  <1>5. k + 1 = m
    BY <1>3
  <1> QED
    BY <1>3, <1>4, <1>5

\* The same for sequences, element by element.
LEMMA ElementByElement ==
    ASSUME NEW E, NEW S, <<>> \in S, \A s \in Seq(E), e \in E : s \in S => Append(s, e) \in S
    PROVE  \A s \in Seq(E) : s \in S
  <1> SUFFICES ASSUME NEW t \in Seq(E)
               PROVE  t \in S
    OBVIOUS
  <1> DEFINE T == {n \in Nat : \A s \in Seq(E) : Len(s) = n => s \in S}
  <1>1. 0 \in T
    <2>1. \A s \in Seq(E) : Len(s) = 0 => s = <<>>
      BY EmptySeq
    <2> QED
      BY <2>1
  <1>2. ASSUME NEW n \in Nat, n \in T
        PROVE  n + 1 \in T
    <2>1. ASSUME NEW s \in Seq(E), Len(s) = n + 1
          PROVE  s \in S
      <3>1. s # <<>>
        BY <2>1, EmptySeq
      <3>2. PICK r \in Seq(E), e \in E : s = Append(r, e)
        BY <3>1, SequenceEmptyOrAppend
      <3>3. Len(r) \in Nat /\ Len(s) = Len(r) + 1
        BY <3>2, AppendProperties, LenProperties
      <3>4. r \in S
        BY <1>2, <2>1, <3>3
      <3> QED
        BY <3>2, <3>4
    <2> QED
      BY <2>1
  <1> HIDE DEF T
  <1>3. PICK N \in Nat : N = Len(t)
    BY LenProperties
  <1>4. \A n \in 0 .. N : n \in T
    BY <1>1, <1>2, UpTo
  <1>5. Len(t) \in T
    BY <1>3, <1>4
  <1> QED
    BY <1>5 DEF T

\* f goes from a to its last value in N steps; what is defined like that exists.
Walks(f, A, a, N, step) ==
    /\ f \in [0 .. N -> A]
    /\ f[0] = a
    /\ \A n \in 1 .. N : f[n] = step[n][f[n - 1]]

\* A function that is defined step by step exists: it is the union of its own beginnings.
LEMMA Recursion ==
    ASSUME NEW A, NEW a \in A, NEW N \in Nat, NEW step \in [1 .. N -> [A -> A]]
    PROVE  \E f : Walks(f, A, a, N, step)
  <1> DEFINE Good(f, n) == f[0] = a /\ \A k \in 1 .. n : f[k] = step[k][f[k - 1]]
             S == {n \in 0 .. N : \E f \in [0 .. n -> A] : Good(f, n)}
  <1>1. 0 \in S
    <2> DEFINE f == [k \in 0 .. 0 |-> a]
    <2>1. f \in [0 .. 0 -> A] /\ Good(f, 0) /\ 0 \in 0 .. N
      OBVIOUS
    <2> HIDE DEF Good, f
    <2> QED
      BY <2>1
  <1>2. ASSUME NEW n \in 0 .. N - 1, n \in S
        PROVE  n + 1 \in S
    <2>1. PICK f \in [0 .. n -> A] : Good(f, n)
      BY <1>2
    <2>2. f[n] \in A /\ n + 1 \in 1 .. N
      OBVIOUS
    <2>3. PICK b \in A : b = step[n + 1][f[n]]
      BY <2>2
    <2>4. PICK g : g = [k \in 0 .. n + 1 |-> IF k = n + 1 THEN b ELSE f[k]]
      OBVIOUS
    <2>5. g \in [0 .. n + 1 -> A]
      <3>1. \A k \in 0 .. n + 1 : (IF k = n + 1 THEN b ELSE f[k]) \in A
        OBVIOUS
      <3> QED
        BY <2>4, <3>1
    <2>6. g[0] = a
      BY <2>1, <2>4
    <2>7. ASSUME NEW k \in 1 .. n + 1
          PROVE  g[k] = step[k][g[k - 1]]
      <3>1. CASE k = n + 1
        <4>1. g[k] = b /\ k - 1 = n
          BY <2>4, <3>1
        <4>2. g[n] = f[n]
          BY <2>4
        <4> QED
          BY <2>3, <3>1, <4>1, <4>2
      <3>2. CASE k # n + 1
        <4>1. PICK j \in 0 .. n : j = k - 1
          OBVIOUS
        <4>2. k \in 1 .. n /\ g[k] = f[k] /\ g[j] = f[j]
          BY <2>4, <3>2, <4>1
        <4>3. f[k] = step[k][f[j]]
          BY <2>1, <4>1, <4>2
        <4> QED
          BY <4>1, <4>2, <4>3
      <3> QED
        BY <3>1, <3>2
    <2>8. Good(g, n + 1)
      BY <2>6, <2>7
    <2> HIDE DEF Good
    <2>9. \E h \in [0 .. n + 1 -> A] : Good(h, n + 1)
      BY <2>5, <2>8
    <2> QED
      BY <2>2, <2>9
  <1>3. N \in S
    <2> HIDE DEF S
    <2>1. \A n \in 0 .. N : n \in S
      BY <1>1, <1>2, UpTo
    <2> QED
      BY <2>1
  <1>4. PICK f \in [0 .. N -> A] : Good(f, N)
    BY <1>3
  <1> QED
    BY <1>4 DEF Walks

----------------------------------------------------------------------------
(* Sequences *)

\* Sequences of no, one and two elements.
LEMMA ShortSequences ==
    ASSUME NEW E
    PROVE  <<>> \in Seq(E) /\ (\A d \in E : <<d>> \in Seq(E)) /\ (\A d, e \in E : <<d, e>> \in Seq(E))
  OBVIOUS

\* A sequence that is cut out grows by its next element.
LEMMA SliceGrows ==
    ASSUME NEW E, NEW s \in Seq(E), NEW p \in 1 .. Len(s), NEW n \in p .. Len(s)
    PROVE  /\ SubSeq(s, p, n - 1) \in Seq(E) /\ s[n] \in E
           /\ SubSeq(s, p, n) = Append(SubSeq(s, p, n - 1), s[n])
  <1>1. Len(s) \in Nat
    BY LenProperties
  <1>2. n \in 1 .. Len(s) /\ n - 1 \in Int
    BY <1>1
  <1>3. \A i \in p .. n - 1 : s[i] \in E
    BY <1>1, ElementOfSeq
  <1>4. SubSeq(s, p, n - 1) \in Seq(E) /\ s[n] \in E
    BY <1>1, <1>2, <1>3, ElementOfSeq, SubSeqProperties
  <1>5. SubSeq(s, p, n) = SubSeq(s, p, n - 1) \o <<s[n]>>
    BY SubSeqRecursiveSecond
  <1> QED
    BY <1>4, <1>5, AppendIsConcat

\* Joining to a sequence an element more.
LEMMA JoinAppend ==
    ASSUME NEW E, NEW s \in Seq(E), NEW t \in Seq(E), NEW e \in E
    PROVE  s \o Append(t, e) = Append(s \o t, e)
  <1>1. <<e>> \in Seq(E) /\ s \o t \in Seq(E)
    BY ConcatProperties
  <1>2. (s \o t) \o <<e>> = s \o (t \o <<e>>)
    BY <1>1, ConcatAssociative
  <1> QED
    BY <1>1, <1>2, AppendIsConcat

\* Joining two elements.
LEMMA JoinPair ==
    ASSUME NEW E, NEW s \in Seq(E), NEW d \in E, NEW e \in E
    PROVE  s \o <<d, e>> = Append(Append(s, d), e) /\ s \o <<d, e>> \in Seq(E)
  <1>1. <<d>> \in Seq(E) /\ <<d, e>> = Append(<<d>>, e)
    OBVIOUS
  <1>2. s \o <<d, e>> = Append(s \o <<d>>, e)
    BY <1>1, JoinAppend
  <1>3. Append(s, d) \in Seq(E) /\ Append(Append(s, d), e) \in Seq(E)
    BY AppendProperties
  <1> QED
    BY <1>2, <1>3, AppendIsConcat

\* Two elements, joined.
LEMMA JoinTwo ==
    ASSUME NEW E, NEW d \in E, NEW e \in E
    PROVE  <<d>> \o <<e>> = <<d, e>>
  <1>1. <<d>> \in Seq(E) /\ <<d, e>> = Append(<<d>>, e)
    OBVIOUS
  <1> QED
    BY <1>1, AppendIsConcat

\* The two parts of what was joined.
LEMMA Parts ==
    ASSUME NEW E, NEW s \in Seq(E), NEW t \in Seq(E)
    PROVE  /\ SubSeq(s \o t, 1, Len(s)) = s
           /\ SubSeq(s \o t, Len(s) + 1, Len(s \o t)) = t
  <1>1. /\ Len(s) \in Nat /\ Len(t) \in Nat /\ s \o t \in Seq(E) /\ Len(s \o t) = Len(s) + Len(t)
        /\ \A i \in 1 .. Len(s) + Len(t) : (s \o t)[i] = IF i <= Len(s) THEN s[i] ELSE t[i - Len(s)]
        /\ \A i \in 1 .. Len(s) + Len(t) : (s \o t)[i] \in E
    BY LenProperties, ConcatProperties, ElementOfSeq
  <1> DEFINE u == s \o t
  <1> HIDE DEF u
  <1>2. u = s \o t
    BY DEF u
  <1>3. PICK a \in Seq(E) : a = SubSeq(u, 1, Len(s)) /\ Len(a) = Len(s) /\ \A i \in 1 .. Len(s) : a[i] = u[i]
    <2>1. \A i \in 1 .. Len(s) : u[i] \in E
      BY <1>1, <1>2
    <2>2. /\ SubSeq(u, 1, Len(s)) \in Seq(E)
          /\ Len(SubSeq(u, 1, Len(s))) = IF 1 <= Len(s) THEN Len(s) - 1 + 1 ELSE 0
          /\ \A i \in 1 .. Len(s) - 1 + 1 : SubSeq(u, 1, Len(s))[i] = u[1 + i - 1]
      BY <1>1, <2>1, SubSeqProperties
    <2>3. PICK a : a = SubSeq(u, 1, Len(s))
      OBVIOUS
    <2>4. a \in Seq(E) /\ Len(a) = Len(s)
      BY <1>1, <2>2, <2>3
    <2>5. \A i \in 1 .. Len(s) : a[i] = u[i]
      BY <1>1, <2>2, <2>3
    <2> QED
      BY <2>3, <2>4, <2>5
  <1>4. PICK b \in Seq(E) : /\ b = SubSeq(u, Len(s) + 1, Len(u)) /\ Len(b) = Len(t)
                            /\ \A i \in 1 .. Len(t) : b[i] = u[Len(s) + i]
    <2>1. PICK m \in Nat, n \in Nat : m = Len(s) + 1 /\ n = Len(u)
      BY <1>1, <1>2
    <2>2. \A i \in m .. n : u[i] \in E
      BY <1>1, <1>2, <2>1
    <2>3. /\ SubSeq(u, m, n) \in Seq(E)
          /\ Len(SubSeq(u, m, n)) = IF m <= n THEN n - m + 1 ELSE 0
          /\ \A i \in 1 .. n - m + 1 : SubSeq(u, m, n)[i] = u[m + i - 1]
      BY <2>2, SubSeqProperties
    <2>4. n - m + 1 = Len(t) /\ (m <= n \/ Len(t) = 0)
      BY <1>1, <1>2, <2>1
    <2>5. \A i \in 1 .. Len(t) : m + i - 1 = Len(s) + i
      BY <1>1, <2>1
    <2>6. PICK b : b = SubSeq(u, m, n)
      OBVIOUS
    <2>7. b \in Seq(E) /\ Len(b) = Len(t)
      BY <1>1, <2>1, <2>3, <2>4, <2>6
    <2>8. \A i \in 1 .. Len(t) : b[i] = u[Len(s) + i]
      BY <1>1, <2>1, <2>3, <2>4, <2>5, <2>6
    <2> QED
      BY <2>1, <2>6, <2>7, <2>8
  <1>5. \A i \in 1 .. Len(s) : u[i] = s[i]
    BY <1>1, <1>2
  <1>6. \A i \in 1 .. Len(t) : u[Len(s) + i] = t[i]
    BY <1>1, <1>2
  <1>7. a = s
    BY <1>3, <1>5, SeqEqual
  <1>8. b = t
    BY <1>4, <1>6, SeqEqual
  <1> QED
    BY <1>2, <1>3, <1>4, <1>7, <1>8

----------------------------------------------------------------------------
(* How ffmpeg reads a line *)

Opt == (Options \X Tokens) \cup {<<flag>> : flag \in Flags}
File == [opts : Seq(Opt), url : Tokens]
Understanding == [inputs : Seq(File), outputs : Seq(File), rest : Seq(Opt), name : Options \cup {"none"}]

\* What OptionsAssumption says of the tokens the proofs tell apart.
LEMMA TokenSet ==
    /\ Options \subseteq Tokens /\ Flags \subseteq Tokens
    /\ "-i" \in Options /\ "-ss" \in Options /\ "-f" \in Options
    /\ "none" \notin Options /\ "pipe:1" \notin Options
    /\ "none" \notin Flags /\ "pipe:1" \notin Flags /\ "pipe:1" \in Tokens
    /\ \A token \in Options : token \notin Flags
  <1>1. Options \subseteq Tokens /\ Flags \subseteq Tokens
    BY OptionsAssumption
  <1>2. "-i" \in Options /\ "-ss" \in Options /\ "-f" \in Options
    BY OptionsAssumption
  <1>3. {"none", "pipe:1"} \cap (Options \cup Flags) = {}
    BY OptionsAssumption
  <1>4. \A token \in Options : token \notin Flags
    BY OptionsAssumption
  <1>5. "pipe:1" \in Tokens
    BY OptionsAssumption
  <1> QED
    BY <1>1, <1>2, <1>3, <1>4, <1>5

\* The parts of what is understood are what it was made of.
LEMMA UnderstoodIs ==
    ASSUME NEW inputs, NEW outputs, NEW rest, NEW name
    PROVE  /\ Understood(inputs, outputs, rest, name).inputs = inputs
           /\ Understood(inputs, outputs, rest, name).outputs = outputs
           /\ Understood(inputs, outputs, rest, name).rest = rest
           /\ Understood(inputs, outputs, rest, name).name = name
  BY DEF Understood

\* What is made of parts of the right sort is an understanding.
LEMMA Understands ==
    ASSUME NEW inputs \in Seq(File), NEW outputs \in Seq(File), NEW rest \in Seq(Opt),
           NEW name, name = "none" \/ name \in Options
    PROVE  Understood(inputs, outputs, rest, name) \in Understanding
  <1>1. name \in Options \cup {"none"}
    OBVIOUS
  <1> QED
    BY <1>1 DEF Understood, Understanding

\* One token more is understood.
LEMMA TokenRead ==
    ASSUME NEW m \in Understanding, NEW token \in Tokens
    PROVE  /\ ReadToken(m, token) \in Understanding
           /\ m.name = "-i" =>
                  ReadToken(m, token) =
                      Understood(Append(m.inputs, [opts |-> m.rest, url |-> token]), m.outputs, <<>>, "none")
           /\ m.name \notin {"none", "-i"} =>
                  ReadToken(m, token) =
                      Understood(m.inputs, m.outputs, Append(m.rest, <<m.name, token>>), "none")
           /\ m.name = "none" /\ token \in Options =>
                  ReadToken(m, token) = Understood(m.inputs, m.outputs, m.rest, token)
           /\ m.name = "none" /\ token \in Flags =>
                  ReadToken(m, token) = Understood(m.inputs, m.outputs, Append(m.rest, <<token>>), "none")
           /\ m.name = "none" /\ token \notin Options \cup Flags =>
                  ReadToken(m, token) =
                      Understood(m.inputs, Append(m.outputs, [opts |-> m.rest, url |-> token]), <<>>, "none")
  <1>1. PICK I \in Seq(File), O \in Seq(File), r \in Seq(Opt), n \in Options \cup {"none"} :
            m = [inputs |-> I, outputs |-> O, rest |-> r, name |-> n]
    BY DEF Understanding
  <1>2. PICK f \in File : f = [opts |-> r, url |-> token]
    BY DEF File
  <1>3. Append(I, f) \in Seq(File) /\ Append(O, f) \in Seq(File)
    BY AppendProperties
  <1>4. (n # "none" => <<n, token>> \in Opt) /\ (token \in Flags => <<token>> \in Opt)
    BY DEF Opt
  <1>5. /\ n # "none" => Append(r, <<n, token>>) \in Seq(Opt)
        /\ token \in Flags => Append(r, <<token>>) \in Seq(Opt)
    BY <1>4, AppendProperties
  <1>6. <<>> \in Seq(Opt)
    BY ShortSequences
  <1>7. CASE n = "-i"
    <2>1. ReadToken(m, token) = Understood(Append(I, f), O, <<>>, "none")
      BY <1>1, <1>2, <1>7 DEF ReadToken
    <2>2. Understood(Append(I, f), O, <<>>, "none") \in Understanding
      BY <1>3, <1>6 DEF Understood, Understanding
    <2> QED
      BY <1>1, <1>2, <1>7, <2>1, <2>2
  <1>8. CASE n \notin {"none", "-i"}
    <2>1. ReadToken(m, token) = Understood(I, O, Append(r, <<n, token>>), "none")
      BY <1>1, <1>8 DEF ReadToken
    <2>2. Understood(I, O, Append(r, <<n, token>>), "none") \in Understanding
      BY <1>5, <1>6, <1>8, Understands
    <2> QED
      BY <1>1, <1>8, <2>1, <2>2
  <1>9. CASE n = "none" /\ token \in Options
    <2>1. ReadToken(m, token) = [m EXCEPT !.name = token]
      BY <1>1, <1>9, TokenSet DEF ReadToken
    <2>2. ReadToken(m, token) = Understood(I, O, r, token)
      BY <1>1, <2>1 DEF Understood
    <2>3. Understood(I, O, r, token) \in Understanding
      BY <1>9, Understands
    <2> QED
      BY <1>1, <1>9, <2>2, <2>3, TokenSet
  <1>10. CASE n = "none" /\ token \in Flags
    <2>1. ReadToken(m, token) = [m EXCEPT !.rest = Append(@, <<token>>)]
      BY <1>1, <1>10, TokenSet DEF ReadToken
    <2>2. ReadToken(m, token) = Understood(I, O, Append(r, <<token>>), "none")
      BY <1>1, <1>10, <2>1 DEF Understood
    <2>3. Understood(I, O, Append(r, <<token>>), "none") \in Understanding
      BY <1>5, <1>6, <1>10, Understands
    <2> QED
      BY <1>1, <1>10, <2>2, <2>3, TokenSet
  <1>11. CASE n = "none" /\ token \notin Options \cup Flags
    <2>1. ReadToken(m, token) = Understood(I, Append(O, f), <<>>, "none")
      BY <1>1, <1>2, <1>11 DEF ReadToken
    <2>2. Understood(I, Append(O, f), <<>>, "none") \in Understanding
      BY <1>3, <1>6 DEF Understood, Understanding
    <2> QED
      BY <1>1, <1>2, <1>11, <2>1, <2>2
  <1> QED
    BY <1>7, <1>8, <1>9, <1>10, <1>11

\* The same, for what has been understood part by part.
FileOf(opts, url) == [opts |-> opts, url |-> url]

\* Lines are joined in either order.
LEMMA JoinTokens == \A s, t, u \in Seq(Tokens) : (s \o t) \o u = s \o (t \o u)
  BY ConcatAssociative

\* A line of three parts; the name keeps the provers from joining everything to everything.
Joins(s, t, st) == s \in Seq(Tokens) /\ t \in Seq(Tokens) /\ st = s \o t

\* The same of lines that were given names.
LEMMA ThreeParts ==
    ASSUME NEW s, NEW t, NEW u, NEW st, NEW tu, NEW line,
           Joins(s, t, st), Joins(t, u, tu), Joins(s, tu, line)
    PROVE  Joins(st, u, line)
  <1>1. line = st \o u
    BY JoinTokens DEF Joins
  <1>2. st \in Seq(Tokens)
    BY ConcatProperties DEF Joins
  <1> QED
    BY <1>1, <1>2 DEF Joins

\* Options are joined in either order.
LEMMA JoinOpts == \A s, t, u \in Seq(Opt) : (s \o t) \o u = s \o (t \o u)
  BY ConcatAssociative

\* Options and a name make a file.
LEMMA FileOfIs ==
    ASSUME NEW r \in Seq(Opt), NEW token \in Tokens
    PROVE  FileOf(r, token) \in File
  BY DEF FileOf, File

\* The token after -i is an input, under the options that waited.
LEMMA ReadInput ==
    ASSUME NEW I \in Seq(File), NEW O \in Seq(File), NEW r \in Seq(Opt), NEW token \in Tokens
    PROVE  ReadToken(Understood(I, O, r, "-i"), token) =
               Understood(Append(I, FileOf(r, token)), O, <<>>, "none")
  <1>1. PICK m \in Understanding : m = Understood(I, O, r, "-i")
    BY Understands, TokenSet
  <1>2. m.inputs = I /\ m.outputs = O /\ m.rest = r /\ m.name = "-i"
    BY <1>1, UnderstoodIs
  <1>3. ReadToken(m, token) =
            Understood(Append(m.inputs, [opts |-> m.rest, url |-> token]), m.outputs, <<>>, "none")
    BY <1>2, TokenRead
  <1> QED
    BY <1>1, <1>2, <1>3 DEF FileOf

\* The token after any other option is its value.
LEMMA ReadValue ==
    ASSUME NEW I \in Seq(File), NEW O \in Seq(File), NEW r \in Seq(Opt), NEW token \in Tokens,
           NEW n \in Options, n # "-i"
    PROVE  ReadToken(Understood(I, O, r, n), token) =
               Understood(I, O, Append(r, <<n, token>>), "none")
  <1>1. PICK m \in Understanding : m = Understood(I, O, r, n)
    BY Understands, TokenSet
  <1>2. m.inputs = I /\ m.outputs = O /\ m.rest = r /\ m.name = n
    BY <1>1, UnderstoodIs
  <1>3. m.name \notin {"none", "-i"}
    BY <1>2, TokenSet
  <1>4. ReadToken(m, token) = Understood(m.inputs, m.outputs, Append(m.rest, <<m.name, token>>), "none")
    BY <1>3, TokenRead
  <1> QED
    BY <1>1, <1>2, <1>4

\* An option waits for its value.
LEMMA ReadOption ==
    ASSUME NEW I \in Seq(File), NEW O \in Seq(File), NEW r \in Seq(Opt), NEW token \in Tokens,
           token \in Options
    PROVE  ReadToken(Understood(I, O, r, "none"), token) =
               Understood(I, O, r, token)
  <1>1. PICK m \in Understanding : m = Understood(I, O, r, "none")
    BY Understands, TokenSet
  <1>2. m.inputs = I /\ m.outputs = O /\ m.rest = r /\ m.name = "none"
    BY <1>1, UnderstoodIs
  <1>3. ReadToken(m, token) = Understood(m.inputs, m.outputs, m.rest, token)
    BY <1>2, TokenRead
  <1> QED
    BY <1>1, <1>2, <1>3

\* A flag waits for the file it belongs to.
LEMMA ReadFlag ==
    ASSUME NEW I \in Seq(File), NEW O \in Seq(File), NEW r \in Seq(Opt), NEW token \in Tokens,
           token \in Flags
    PROVE  ReadToken(Understood(I, O, r, "none"), token) =
               Understood(I, O, Append(r, <<token>>), "none")
  <1>1. PICK m \in Understanding : m = Understood(I, O, r, "none")
    BY Understands, TokenSet
  <1>2. m.inputs = I /\ m.outputs = O /\ m.rest = r /\ m.name = "none"
    BY <1>1, UnderstoodIs
  <1>3. ReadToken(m, token) = Understood(m.inputs, m.outputs, Append(m.rest, <<token>>), "none")
    BY <1>2, TokenRead
  <1> QED
    BY <1>1, <1>2, <1>3

\* Every other token is an output, under the options that waited.
LEMMA ReadOutput ==
    ASSUME NEW I \in Seq(File), NEW O \in Seq(File), NEW r \in Seq(Opt), NEW token \in Tokens,
           token \notin Options \cup Flags
    PROVE  ReadToken(Understood(I, O, r, "none"), token) =
               Understood(I, Append(O, FileOf(r, token)), <<>>, "none")
  <1>1. PICK m \in Understanding : m = Understood(I, O, r, "none")
    BY Understands, TokenSet
  <1>2. m.inputs = I /\ m.outputs = O /\ m.rest = r /\ m.name = "none"
    BY <1>1, UnderstoodIs
  <1>3. ReadToken(m, token) =
            Understood(m.inputs, Append(m.outputs, [opts |-> m.rest, url |-> token]), <<>>, "none")
    BY <1>2, TokenRead
  <1> QED
    BY <1>1, <1>2, <1>3 DEF FileOf

Nothing == Understood(<<>>, <<>>, <<>>, "none")

\* To have read nothing is an understanding.
LEMMA NothingIs == Nothing \in Understanding
  <1>1. <<>> \in Seq(Opt)
    OBVIOUS
  <1>2. <<>> \in Seq(File)
    OBVIOUS
  <1> QED
    BY <1>1, <1>2 DEF Nothing, Understood, Understanding

\* Reading is what its definition says.
LEMMA ReadingIs ==
    ASSUME NEW args \in Seq(Tokens)
    PROVE  /\ Reading(args) \in [0 .. Len(args) -> Understanding]
           /\ Reading(args)[0] = Nothing
           /\ \A n \in 1 .. Len(args) : Reading(args)[n] = ReadToken(Reading(args)[n - 1], args[n])
  <1> DEFINE N == Len(args)
             step == [n \in 1 .. N |-> [m \in Understanding |-> ReadToken(m, args[n])]]
  <1>1. N \in Nat
    BY LenProperties
  <1>2. \A m \in Understanding, n \in 1 .. N : ReadToken(m, args[n]) \in Understanding
    BY ElementOfSeq, TokenRead
  <1>3. step \in [1 .. N -> [Understanding -> Understanding]]
    BY <1>2
  <1>4. \A m \in Understanding, n \in 1 .. N : step[n][m] = ReadToken(m, args[n])
    OBVIOUS
  <1> HIDE DEF step
  <1>5. PICK f : Walks(f, Understanding, Nothing, N, step)
    BY <1>1, <1>3, NothingIs, Recursion
  <1>6. \A n \in 1 .. N : f[n] = ReadToken(f[n - 1], args[n])
    <2> SUFFICES ASSUME NEW n \in 1 .. N
                 PROVE  f[n] = ReadToken(f[n - 1], args[n])
      OBVIOUS
    <2>1. n - 1 \in 0 .. N /\ n \in 0 .. N /\ n # 0
      BY <1>1
    <2>2. f[n] = step[n][f[n - 1]] /\ f[n - 1] \in Understanding
      BY <1>5, <2>1 DEF Walks
    <2> QED
      BY <1>4, <2>2
  <1>7. f[0] = Nothing
    BY <1>1, <1>5 DEF Walks
  <1>8. f = [n \in 0 .. N |-> IF n = 0 THEN Nothing ELSE ReadToken(f[n - 1], args[n])]
    <2>1. \A n \in 0 .. N : f[n] = IF n = 0 THEN Nothing ELSE ReadToken(f[n - 1], args[n])
      BY <1>1, <1>6, <1>7
    <2> QED
      BY <1>5, <2>1 DEF Walks
  <1>9. Reading(args) = [n \in 0 .. N |-> IF n = 0 THEN Nothing ELSE ReadToken(Reading(args)[n - 1], args[n])]
    BY <1>8 DEF Reading, Nothing
  <1> DEFINE g == Reading(args)
  <1>10. \A n \in 0 .. N : g[n] = IF n = 0 THEN Nothing ELSE ReadToken(g[n - 1], args[n])
    BY <1>9
  <1>11. g = [n \in 0 .. N |-> g[n]]
    BY <1>9
  <1> HIDE DEF g
  <1>12. \A n \in 0 .. N : g[n] \in Understanding
    <2> DEFINE S == {n \in 0 .. N : g[n] \in Understanding}
    <2>1. 0 \in S
      BY <1>1, <1>10, NothingIs
    <2>2. ASSUME NEW n \in 0 .. N - 1, n \in S
          PROVE  n + 1 \in S
      <3>1. n + 1 \in 1 .. N /\ n + 1 \in 0 .. N /\ (n + 1) - 1 = n
        BY <1>1
      <3>2. g[n + 1] = ReadToken(g[n], args[n + 1])
        BY <1>10, <3>1
      <3> QED
        BY <1>2, <2>2, <3>1, <3>2
    <2> HIDE DEF S
    <2>3. \A n \in 0 .. N : n \in S
      BY <1>1, <2>1, <2>2, UpTo
    <2> QED
      BY <2>3 DEF S
  <1>13. g \in [0 .. N -> Understanding] /\ g[0] = Nothing
    BY <1>1, <1>10, <1>11, <1>12
  <1>14. \A n \in 1 .. N : g[n] = ReadToken(g[n - 1], args[n])
    BY <1>1, <1>10
  <1> QED
    BY <1>13, <1>14 DEF g

\* ffmpeg reads token by token: what comes later changes nothing of what it has read.
LEMMA ReadsOn ==
    ASSUME NEW args \in Seq(Tokens), NEW token \in Tokens
    PROVE  /\ Meaning(args) \in Understanding
           /\ Meaning(Append(args, token)) = ReadToken(Meaning(args), token)
           /\ \A n \in 0 .. Len(args) : Reading(Append(args, token))[n] = Reading(args)[n]
  <1> DEFINE more == Append(args, token)
             S == {n \in 0 .. Len(args) : Reading(more)[n] = Reading(args)[n]}
  <1>1. /\ more \in Seq(Tokens) /\ Len(args) \in Nat /\ Len(more) = Len(args) + 1
        /\ \A i \in 1 .. Len(args) : more[i] = args[i]
        /\ more[Len(args) + 1] = token
    BY AppendProperties, LenProperties
  <1> HIDE DEF more
  <1>2. /\ Reading(more)[0] = Nothing
        /\ \A n \in 1 .. Len(more) : Reading(more)[n] = ReadToken(Reading(more)[n - 1], more[n])
    BY <1>1, ReadingIs
  <1>3. /\ Reading(args)[0] = Nothing
        /\ \A n \in 1 .. Len(args) : Reading(args)[n] = ReadToken(Reading(args)[n - 1], args[n])
    BY ReadingIs
  <1>4. 0 \in S
    BY <1>1, <1>2, <1>3
  <1>5. ASSUME NEW n \in 0 .. Len(args) - 1, n \in S
        PROVE  n + 1 \in S
    <2>1. n + 1 \in 1 .. Len(args) /\ n + 1 \in 1 .. Len(more) /\ (n + 1) - 1 = n
      BY <1>1
    <2>2. Reading(more)[n + 1] = ReadToken(Reading(more)[n], more[n + 1])
      BY <1>2, <2>1
    <2>3. Reading(args)[n + 1] = ReadToken(Reading(args)[n], args[n + 1])
      BY <1>3, <2>1
    <2>4. Reading(more)[n] = Reading(args)[n] /\ more[n + 1] = args[n + 1]
      BY <1>1, <1>5, <2>1
    <2> QED
      BY <1>1, <2>1, <2>2, <2>3, <2>4
  <1> HIDE DEF S
  <1>6. \A n \in 0 .. Len(args) : n \in S
    BY <1>1, <1>4, <1>5, UpTo
  <1>7. \A n \in 0 .. Len(args) : Reading(more)[n] = Reading(args)[n]
    BY <1>6 DEF S
  <1>8. Meaning(args) \in Understanding
    BY <1>1, ReadingIs DEF Meaning
  <1>9. Meaning(more) = ReadToken(Meaning(args), token)
    <2>1. PICK n \in 1 .. Len(more) : n = Len(more)
      BY <1>1
    <2>2. n - 1 = Len(args) /\ Len(args) \in 0 .. Len(args)
      BY <1>1, <2>1
    <2>3. Reading(more)[n] = ReadToken(Reading(more)[n - 1], more[n])
      BY <1>2
    <2>4. more[n] = token
      BY <1>1, <2>1
    <2> QED
      BY <1>7, <2>1, <2>2, <2>3, <2>4 DEF Meaning
  <1> QED
    BY <1>7, <1>8, <1>9 DEF more

\* A line of no tokens says nothing.
LEMMA EmptyLine == Meaning(<<>>) = Nothing
  <1>1. <<>> \in Seq(Tokens) /\ Len(<<>>) = 0
    BY EmptySeq
  <1> QED
    BY <1>1, ReadingIs DEF Meaning

\* An option and its value; an input; an output.
LEMMA PairRead ==
    ASSUME NEW args \in Seq(Tokens), NEW m, m = Meaning(args), m.name = "none",
           NEW o \in Options, NEW v \in Tokens
    PROVE  /\ args \o <<o, v>> \in Seq(Tokens)
           /\ o # "-i" =>
                  Meaning(args \o <<o, v>>) = Understood(m.inputs, m.outputs, Append(m.rest, <<o, v>>), "none")
           /\ o = "-i" =>
                  Meaning(args \o <<o, v>>) =
                      Understood(Append(m.inputs, [opts |-> m.rest, url |-> v]), m.outputs, <<>>, "none")
  <1>1. o \in Tokens /\ o # "none"
    BY TokenSet
  <1>2. args \o <<o, v>> = Append(Append(args, o), v) /\ args \o <<o, v>> \in Seq(Tokens)
    BY <1>1, JoinPair
  <1>3. Append(args, o) \in Seq(Tokens)
    BY <1>1, AppendProperties
  <1>4. m \in Understanding /\ Meaning(Append(args, o)) = ReadToken(m, o)
    BY <1>1, ReadsOn
  <1>5. PICK n \in Understanding : n = Understood(m.inputs, m.outputs, m.rest, o) /\ n = ReadToken(m, o)
    BY <1>1, <1>4, TokenRead
  <1>6. Meaning(args \o <<o, v>>) = ReadToken(n, v)
    BY <1>2, <1>3, <1>4, <1>5, ReadsOn
  <1>7. n.inputs = m.inputs /\ n.outputs = m.outputs /\ n.rest = m.rest /\ n.name = o
    <2>1. PICK a, b, c : a = m.inputs /\ b = m.outputs /\ c = m.rest
      OBVIOUS
    <2>2. n = Understood(a, b, c, o)
      BY <1>5, <2>1
    <2> QED
      BY <2>1, <2>2 DEF Understood
  <1>8. o # "-i" => ReadToken(n, v) = Understood(n.inputs, n.outputs, Append(n.rest, <<n.name, v>>), "none")
    BY <1>1, <1>7, TokenRead
  <1>9. o = "-i" =>
            ReadToken(n, v) = Understood(Append(n.inputs, [opts |-> n.rest, url |-> v]), n.outputs, <<>>, "none")
    BY <1>7, TokenRead
  <1> QED
    BY <1>2, <1>6, <1>7, <1>8, <1>9

----------------------------------------------------------------------------
(* Leaving out *)

Left(s, dropped) ==
    LET left[n \in 0 .. Len(s)] ==
            IF n = 0 THEN <<>>
            ELSE IF s[n] \in dropped THEN left[n - 1] ELSE Append(left[n - 1], s[n])
    IN  left

\* The function that Dropping is made with exists, and each value is made of the one before.
LEMMA LeftIs ==
    ASSUME NEW E, NEW s \in Seq(E), NEW dropped
    PROVE  /\ Left(s, dropped) \in [0 .. Len(s) -> Seq(E)]
           /\ Left(s, dropped)[0] = <<>>
           /\ \A n \in 1 .. Len(s) :
                  Left(s, dropped)[n] =
                      IF s[n] \in dropped THEN Left(s, dropped)[n - 1]
                      ELSE Append(Left(s, dropped)[n - 1], s[n])
  <1> DEFINE N == Len(s)
             step == [n \in 1 .. N |-> [x \in Seq(E) |-> IF s[n] \in dropped THEN x ELSE Append(x, s[n])]]
  <1>1. N \in Nat /\ \A n \in 1 .. N : s[n] \in E
    BY LenProperties, ElementOfSeq
  <1>2. \A x \in Seq(E), n \in 1 .. N : (IF s[n] \in dropped THEN x ELSE Append(x, s[n])) \in Seq(E)
    BY <1>1, AppendProperties
  <1>3. step \in [1 .. N -> [Seq(E) -> Seq(E)]]
    BY <1>2
  <1>4. \A x \in Seq(E), n \in 1 .. N : step[n][x] = IF s[n] \in dropped THEN x ELSE Append(x, s[n])
    OBVIOUS
  <1> HIDE DEF step
  <1>5. PICK f : Walks(f, Seq(E), <<>>, N, step)
    <2>1. <<>> \in Seq(E)
      BY ShortSequences
    <2> QED
      BY <1>1, <1>3, <2>1, Recursion
  <1>6. \A n \in 1 .. N : f[n] = IF s[n] \in dropped THEN f[n - 1] ELSE Append(f[n - 1], s[n])
    <2> SUFFICES ASSUME NEW n \in 1 .. N
                 PROVE  f[n] = IF s[n] \in dropped THEN f[n - 1] ELSE Append(f[n - 1], s[n])
      OBVIOUS
    <2>1. n - 1 \in 0 .. N /\ n \in 0 .. N /\ n # 0
      BY <1>1
    <2>2. f[n] = step[n][f[n - 1]] /\ f[n - 1] \in Seq(E)
      BY <1>5, <2>1 DEF Walks
    <2> QED
      BY <1>4, <2>2
  <1>7. f[0] = <<>> /\ f \in [0 .. N -> Seq(E)]
    BY <1>1, <1>5 DEF Walks
  <1>8. f = [n \in 0 .. N |-> IF n = 0 THEN <<>>
                             ELSE IF s[n] \in dropped THEN f[n - 1] ELSE Append(f[n - 1], s[n])]
    <2>1. \A n \in 0 .. N : f[n] = IF n = 0 THEN <<>>
                             ELSE IF s[n] \in dropped THEN f[n - 1] ELSE Append(f[n - 1], s[n])
      <3> SUFFICES ASSUME NEW n \in 0 .. N
                   PROVE  f[n] = IF n = 0 THEN <<>>
                                 ELSE IF s[n] \in dropped THEN f[n - 1] ELSE Append(f[n - 1], s[n])
        OBVIOUS
      <3>1. CASE n = 0
        BY <1>7, <3>1
      <3>2. CASE n # 0
        <4>1. n \in 1 .. N
          BY <1>1, <3>2
        <4> QED
          BY <1>6, <3>2, <4>1
      <3> QED
        BY <3>1, <3>2
    <2> QED
      BY <1>7, <2>1
  <1> DEFINE g == Left(s, dropped)
  <1>9. g = [n \in 0 .. N |-> IF n = 0 THEN <<>>
                             ELSE IF s[n] \in dropped THEN g[n - 1] ELSE Append(g[n - 1], s[n])]
    BY <1>8 DEF Left
  <1> HIDE DEF g
  <1>10. \A n \in 0 .. N : g[n] = IF n = 0 THEN <<>>
                             ELSE IF s[n] \in dropped THEN g[n - 1] ELSE Append(g[n - 1], s[n])
    BY <1>9
  <1>15. 0 \in 0 .. N /\ g[0] = <<>>
    <2>1. 0 \in 0 .. N
      BY <1>1
    <2>2. g[0] = IF 0 = 0 THEN <<>> ELSE IF s[0] \in dropped THEN g[0 - 1] ELSE Append(g[0 - 1], s[0])
      BY <1>10, <2>1
    <2> QED
      BY <2>1, <2>2
  <1>11. \A n \in 0 .. N : g[n] \in Seq(E)
    <2> DEFINE S == {n \in 0 .. N : g[n] \in Seq(E)}
    <2>1. 0 \in S
      BY <1>15, ShortSequences
    <2>2. ASSUME NEW n \in 0 .. N - 1, n \in S
          PROVE  n + 1 \in S
      <3>1. n + 1 \in 1 .. N /\ n + 1 \in 0 .. N /\ (n + 1) - 1 = n /\ n + 1 # 0
        BY <1>1
      <3>2. g[n + 1] = IF s[n + 1] \in dropped THEN g[n] ELSE Append(g[n], s[n + 1])
        BY <1>10, <3>1
      <3>3. g[n] \in Seq(E)
        BY <2>2
      <3> QED
        BY <1>2, <3>1, <3>2, <3>3
    <2> HIDE DEF S
    <2>3. \A n \in 0 .. N : n \in S
      BY <1>1, <2>1, <2>2, UpTo
    <2> QED
      BY <2>3 DEF S
  <1>12. g = [n \in 0 .. N |-> g[n]]
    BY <1>9
  <1>13. g \in [0 .. N -> Seq(E)] /\ g[0] = <<>>
    BY <1>11, <1>12, <1>15
  <1>14. \A n \in 1 .. N : g[n] = IF s[n] \in dropped THEN g[n - 1] ELSE Append(g[n - 1], s[n])
    BY <1>1, <1>10
  <1> QED
    BY <1>13, <1>14 DEF g

\* One element more is dropped or kept, and what was left stays as it was.
LEMMA DropsOn ==
    ASSUME NEW E, NEW s \in Seq(E), NEW e \in E, NEW dropped
    PROVE  /\ Dropping(s, dropped) \in Seq(E)
           /\ Dropping(Append(s, e), dropped) =
                  IF e \in dropped THEN Dropping(s, dropped) ELSE Append(Dropping(s, dropped), e)
  <1> DEFINE more == Append(s, e)
             f == Left(s, dropped)
             g == Left(more, dropped)
             S == {n \in 0 .. Len(s) : g[n] = f[n]}
  <1>1. /\ more \in Seq(E) /\ Len(s) \in Nat /\ Len(more) = Len(s) + 1
        /\ \A i \in 1 .. Len(s) : more[i] = s[i]
        /\ more[Len(s) + 1] = e
    BY AppendProperties, LenProperties
  <1> HIDE DEF more
  <1>2. /\ g[0] = <<>>
        /\ \A n \in 1 .. Len(more) : g[n] = IF more[n] \in dropped THEN g[n - 1] ELSE Append(g[n - 1], more[n])
    BY <1>1, LeftIs
  <1>3. /\ f \in [0 .. Len(s) -> Seq(E)] /\ f[0] = <<>>
        /\ \A n \in 1 .. Len(s) : f[n] = IF s[n] \in dropped THEN f[n - 1] ELSE Append(f[n - 1], s[n])
    BY LeftIs
  <1>4. Dropping(s, dropped) = f[Len(s)] /\ Dropping(more, dropped) = g[Len(more)]
    BY DEF Dropping, Left
  <1> HIDE DEF f, g
  <1>5. 0 \in S
    BY <1>1, <1>2, <1>3
  <1>6. ASSUME NEW n \in 0 .. Len(s) - 1, n \in S
        PROVE  n + 1 \in S
    <2>1. n + 1 \in 1 .. Len(s) /\ n + 1 \in 1 .. Len(more) /\ (n + 1) - 1 = n
      BY <1>1
    <2>2. g[n + 1] = IF more[n + 1] \in dropped THEN g[n] ELSE Append(g[n], more[n + 1])
      BY <1>2, <2>1
    <2>3. f[n + 1] = IF s[n + 1] \in dropped THEN f[n] ELSE Append(f[n], s[n + 1])
      BY <1>3, <2>1
    <2>4. g[n] = f[n] /\ more[n + 1] = s[n + 1]
      BY <1>1, <1>6, <2>1
    <2> QED
      BY <1>1, <2>1, <2>2, <2>3, <2>4
  <1> HIDE DEF S
  <1>7. \A n \in 0 .. Len(s) : n \in S
    BY <1>1, <1>5, <1>6, UpTo
  <1>8. g[Len(s)] = f[Len(s)] /\ f[Len(s)] \in Seq(E)
    BY <1>1, <1>3, <1>7 DEF S
  <1>9. g[Len(more)] = IF e \in dropped THEN g[Len(s)] ELSE Append(g[Len(s)], e)
    <2>1. PICK n \in 1 .. Len(more) : n = Len(more)
      BY <1>1
    <2>2. n - 1 = Len(s) /\ more[n] = e
      BY <1>1, <2>1
    <2> QED
      BY <1>2, <2>1, <2>2
  <1> QED
    BY <1>4, <1>8, <1>9 DEF more

\* Of nothing, nothing is left.
LEMMA DropsNone ==
    ASSUME NEW dropped
    PROVE  Dropping(<<>>, dropped) = <<>>
  <1>1. PICK E : E = {}
    OBVIOUS
  <1>2. PICK s \in Seq(E) : s = <<>>
    BY ShortSequences
  <1>3. Left(s, dropped)[0] = <<>>
    BY LeftIs
  <1>4. Len(<<>>) = 0
    OBVIOUS
  <1> QED
    BY <1>2, <1>3, <1>4 DEF Dropping, Left

\* What is left of what was joined is what is left of its parts.
LEMMA DropsEach ==
    ASSUME NEW E, NEW s \in Seq(E), NEW dropped
    PROVE  \A t \in Seq(E) : Dropping(s \o t, dropped) = Dropping(s, dropped) \o Dropping(t, dropped)
  <1> DEFINE S == {t \in Seq(E) : Dropping(s \o t, dropped) = Dropping(s, dropped) \o Dropping(t, dropped)}
  <1>1. <<>> \in S
    <2>1. <<>> \in Seq(E) /\ s \o <<>> = s
      BY ConcatEmptySeq, ShortSequences
    <2>2. Dropping(s, dropped) \in Seq(E)
      <3>1. CASE E = {}
        <4>1. s = <<>>
          BY <3>1, EmptySeq, SequenceEmptyOrAppend
        <4> QED
          BY <2>1, <4>1, DropsNone
      <3> QED
        BY <3>1, DropsOn
    <2>3. Dropping(s, dropped) \o <<>> = Dropping(s, dropped)
      BY <2>2, ConcatEmptySeq
    <2> QED
      BY <2>1, <2>3, DropsNone
  <1>2. ASSUME NEW t \in Seq(E), NEW e \in E, t \in S
        PROVE  Append(t, e) \in S
    <2>1. s \o t \in Seq(E) /\ Append(t, e) \in Seq(E) /\ s \o Append(t, e) = Append(s \o t, e)
      BY ConcatProperties, AppendProperties, JoinAppend
    <2>2. PICK a, b, c : a = Dropping(s, dropped) /\ b = Dropping(t, dropped) /\ c = Dropping(s \o t, dropped)
      OBVIOUS
    <2>3. a \in Seq(E) /\ b \in Seq(E) /\ c = a \o b
      BY <1>2, <2>2, DropsOn
    <2>4. Dropping(Append(t, e), dropped) = IF e \in dropped THEN b ELSE Append(b, e)
      <3>1. Dropping(Append(t, e), dropped) =
                IF e \in dropped THEN Dropping(t, dropped) ELSE Append(Dropping(t, dropped), e)
        BY DropsOn
      <3> QED
        BY <2>2, <3>1
    <2>5. Dropping(Append(s \o t, e), dropped) = IF e \in dropped THEN c ELSE Append(c, e)
      <3>1. PICK u \in Seq(E) : u = s \o t
        BY <2>1
      <3>2. Dropping(Append(u, e), dropped) =
                IF e \in dropped THEN Dropping(u, dropped) ELSE Append(Dropping(u, dropped), e)
        BY DropsOn
      <3> QED
        BY <2>2, <3>1, <3>2
    <2>6. a \o Append(b, e) = Append(a \o b, e)
      BY <2>3, JoinAppend
    <2> QED
      BY <2>1, <2>2, <2>3, <2>4, <2>5, <2>6
  <1> HIDE DEF S
  <1>3. \A t \in Seq(E) : t \in S
    BY <1>1, <1>2, ElementByElement
  <1> QED
    BY <1>3 DEF S

\* What has none of it stays as it is.
LEMMA DropsNothing ==
    ASSUME NEW E, NEW dropped, E \cap dropped = {}
    PROVE  \A s \in Seq(E) : Dropping(s, dropped) = s
  <1> DEFINE S == {s \in Seq(E) : Dropping(s, dropped) = s}
  <1>1. <<>> \in S
    BY DropsNone, ShortSequences
  <1>2. ASSUME NEW s \in Seq(E), NEW e \in E, s \in S
        PROVE  Append(s, e) \in S
    <2>1. e \notin dropped /\ Append(s, e) \in Seq(E)
      BY AppendProperties
    <2>2. Dropping(Append(s, e), dropped) = Append(Dropping(s, dropped), e)
      BY <2>1, DropsOn
    <2> QED
      BY <1>2, <2>1, <2>2
  <1> HIDE DEF S
  <1>3. \A s \in Seq(E) : s \in S
    BY <1>1, <1>2, ElementByElement
  <1> QED
    BY <1>3 DEF S

----------------------------------------------------------------------------
(* Lines as they are written *)

\* Each token is read in what the tokens before it mean.
LEMMA ReadStep ==
    ASSUME NEW args \in Seq(Tokens), NEW n \in 1 .. Len(args)
    PROVE  /\ n - 1 \in 0 .. Len(args) /\ n \in 0 .. Len(args) /\ args[n] \in Tokens
           /\ Reading(args)[n - 1] \in Understanding /\ Reading(args)[n] \in Understanding
           /\ Reading(args)[n] = ReadToken(Reading(args)[n - 1], args[n])
  <1>1. Len(args) \in Nat /\ args[n] \in Tokens
    BY LenProperties, ElementOfSeq
  <1>2. n - 1 \in 0 .. Len(args) /\ n \in 0 .. Len(args)
    BY <1>1
  <1>3. Reading(args) \in [0 .. Len(args) -> Understanding]
    BY ReadingIs
  <1> QED
    BY <1>1, <1>2, <1>3, ReadingIs

\* The option whose value is next, and the outputs, after one token more.
LEMMA AfterToken ==
    ASSUME NEW m \in Understanding, NEW token \in Tokens
    PROVE  /\ ReadToken(m, token).name = IF m.name = "none" /\ token \in Options THEN token ELSE "none"
           /\ ReadToken(m, token).outputs # m.outputs => m.name = "none" /\ token \notin Options \cup Flags
           /\ ReadToken(m, token).inputs # m.inputs => m.name = "-i"
  <1>1. PICK x, a, b, c, n : x = ReadToken(m, token) /\ a = m.inputs /\ b = m.outputs /\ c = m.rest /\ n = m.name
    OBVIOUS
  <1>2. PICK f : f = [opts |-> c, url |-> token]
    OBVIOUS
  <1>3. CASE n = "-i"
    <2>1. x = Understood(Append(a, f), b, <<>>, "none")
      <3>1. m.name = "-i"
        BY <1>1, <1>3
      <3>2. x = Understood(Append(m.inputs, [opts |-> m.rest, url |-> token]), m.outputs, <<>>, "none")
        BY <1>1, <3>1, TokenRead
      <3> QED
        BY <1>1, <1>2, <3>2
    <2> QED
      BY <1>1, <1>3, <2>1, UnderstoodIs
  <1>4. CASE n \notin {"none", "-i"}
    <2>1. x = Understood(a, b, Append(c, <<n, token>>), "none")
      BY <1>1, <1>2, <1>4, TokenRead
    <2> QED
      BY <1>1, <1>4, <2>1, UnderstoodIs
  <1>5. CASE n = "none" /\ token \in Options
    <2>1. x = Understood(a, b, c, token)
      BY <1>1, <1>2, <1>5, TokenRead
    <2> QED
      BY <1>1, <1>5, <2>1, UnderstoodIs
  <1>6. CASE n = "none" /\ token \in Flags
    <2>1. x = Understood(a, b, Append(c, <<token>>), "none")
      BY <1>1, <1>2, <1>6, TokenRead
    <2> QED
      BY <1>1, <1>6, <2>1, UnderstoodIs, TokenSet
  <1>7. CASE n = "none" /\ token \notin Options \cup Flags
    <2>1. x = Understood(a, Append(b, f), <<>>, "none")
      BY <1>1, <1>2, <1>7, TokenRead
    <2> QED
      BY <1>1, <1>7, <2>1, UnderstoodIs
  <1>8. n \in Options \cup {"none"}
    BY <1>1 DEF Understanding
  <1> QED
    BY <1>3, <1>4, <1>5, <1>6, <1>7, <1>8

\* ffmpeg waits for a value after an option, and then only.
LEMMA NameIs ==
    ASSUME NEW args \in Seq(Tokens), Usage(args), NEW n \in 1 .. Len(args)
    PROVE  /\ Reading(args)[n].name = IF args[n] \in Options THEN args[n] ELSE "none"
           /\ Reading(args)[n - 1].name # "none" => args[n] \notin Options \cup {"pipe:1"}
  <1> DEFINE r == Reading(args)
  <1>1. \A i \in 1 .. Len(args) : r[i].name = IF r[i - 1].name = "none" /\ args[i] \in Options THEN args[i] ELSE "none"
    BY ReadStep, AfterToken
  <1>2. r[0].name = "none"
    BY ReadingIs DEF Nothing, Understood
  <1>3. Len(args) \in Nat
    BY LenProperties
  <1>4. \A i \in 1 .. Len(args) - 1 : args[i] \in Options => args[i + 1] \notin Options \cup {"pipe:1"}
    BY DEF Usage
  <1> HIDE DEF r
  <1>5. r[n - 1].name # "none" => args[n] \notin Options \cup {"pipe:1"}
    <2> SUFFICES ASSUME r[n - 1].name # "none"
                 PROVE  args[n] \notin Options \cup {"pipe:1"}
      OBVIOUS
    <2>1. PICK i \in 0 .. Len(args) - 1 : i = n - 1
      BY <1>3
    <2>2. i # 0
      BY <1>2, <2>1
    <2>3. i \in 1 .. Len(args) /\ i \in 1 .. Len(args) - 1 /\ i + 1 = n
      BY <1>3, <2>1, <2>2
    <2>4. args[i] \in Options
      BY <1>1, <2>1, <2>3
    <2> QED
      BY <1>4, <2>3, <2>4
  <1>6. r[n].name = IF args[n] \in Options THEN args[n] ELSE "none"
    BY <1>1, <1>5
  <1> QED
    BY <1>5, <1>6 DEF r

\* No output is read before an input.
LEMMA OutputsAreLast ==
    ASSUME NEW args \in Seq(Tokens), Usage(args), NEW j \in 1 .. Len(args), args[j] = "-i"
    PROVE  \A n \in 0 .. j - 1 : Reading(args)[n].outputs = <<>>
  <1> DEFINE r == Reading(args)
             S == {n \in 0 .. j - 1 : r[n].outputs = <<>>}
  <1>1. Len(args) \in Nat /\ j - 1 \in Nat
    BY LenProperties
  <1>2. 0 \in S
    BY <1>1, ReadingIs DEF Nothing, Understood
  <1>3. ASSUME NEW n \in 0 .. (j - 1) - 1, n \in S
        PROVE  n + 1 \in S
    <2>1. PICK k \in 1 .. Len(args) : k = n + 1
      BY <1>1
    <2>2. k - 1 = n /\ k \in 0 .. j - 1 /\ ~(j < k)
      BY <1>1, <2>1
    <2>3. r[k].outputs # r[n].outputs => r[n].name = "none" /\ args[k] \notin Options \cup Flags
      BY <2>2, ReadStep, AfterToken
    <2>4. ~IsOutput(args, k)
      BY <2>2 DEF Usage
    <2>5. r[n].name = "none" => (k > 1 => args[k - 1] \notin Options)
      <3> SUFFICES ASSUME r[n].name = "none", k > 1, args[n] \in Options
                   PROVE  FALSE
        BY <2>2
      <3>1. n \in 1 .. Len(args)
        BY <1>1, <2>1
      <3>2. r[n].name = args[n]
        BY <3>1, NameIs
      <3> QED
        BY <3>2, TokenSet
    <2>6. r[k].outputs = r[n].outputs
      BY <2>3, <2>4, <2>5 DEF IsOutput
    <2> QED
      BY <1>3, <2>1, <2>2, <2>6
  <1> HIDE DEF S
  <1>4. \A n \in 0 .. j - 1 : n \in S
    BY <1>1, <1>2, <1>3, UpTo
  <1> QED
    BY <1>4 DEF S

\* FirstInput is the place of the first -i, and 0 in a line without one.
LEMMA FirstInputIs ==
    ASSUME NEW args \in Seq(Tokens), NEW p, p = FirstInput(args)
    PROVE  /\ p = 0 => \A i \in 1 .. Len(args) : args[i] # "-i"
           /\ p # 0 => p \in 1 .. Len(args) /\ args[p] = "-i" /\ \A i \in 1 .. p - 1 : args[i] # "-i"
  <1> DEFINE I == {i \in 1 .. Len(args) : args[i] = "-i"}
  <1>1. Len(args) \in Nat
    BY LenProperties
  <1>2. CASE I = {}
    <2>1. p = 0
      BY <1>2 DEF FirstInput, SelectInSeq
    <2> QED
      BY <1>2, <2>1
  <1>3. CASE I # {}
    <2>1. p = Min(I)
      BY <1>3 DEF FirstInput, SelectInSeq
    <2>2. PICK m \in I : \A k \in I : m <= k
      <3>1. I \in SUBSET Nat
        BY <1>1
      <3> HIDE DEF I
      <3> QED
        BY <1>3, <3>1, LeastNumber
    <2>3. p \in I /\ \A k \in I : p <= k
      BY <2>1, <2>2 DEF Min
    <2>4. p \in 1 .. Len(args) /\ args[p] = "-i" /\ p # 0
      BY <1>1, <2>3
    <2>5. \A i \in 1 .. p - 1 : args[i] # "-i"
      BY <1>1, <2>3, <2>4
    <2> QED
      BY <2>4, <2>5
  <1> QED
    BY <1>2, <1>3

\* Up to the first -i there is no file.
LEMMA BeforeInput ==
    ASSUME NEW args \in Seq(Tokens), NEW p \in 0 .. Len(args), \A i \in 1 .. p : args[i] # "-i"
    PROVE  \A n \in 0 .. p : Reading(args)[n].inputs = <<>> /\ Reading(args)[n].name # "-i"
  <1> DEFINE r == Reading(args)
             S == {n \in 0 .. p : r[n].inputs = <<>> /\ r[n].name # "-i"}
  <1>1. Len(args) \in Nat
    BY LenProperties
  <1>2. 0 \in S
    BY <1>1, ReadingIs DEF Nothing, Understood
  <1>3. ASSUME NEW n \in 0 .. p - 1, n \in S
        PROVE  n + 1 \in S
    <2>1. PICK k \in 1 .. Len(args) : k = n + 1
      BY <1>1
    <2>2. k - 1 = n /\ k \in 0 .. p /\ k \in 1 .. p
      BY <1>1, <2>1
    <2>3. r[n].inputs = <<>> /\ r[n].name # "-i"
      BY <1>3
    <2>4. r[k].inputs = <<>> /\ r[k].name # "-i"
      BY <2>2, <2>3, ReadStep, AfterToken
    <2> QED
      BY <2>1, <2>2, <2>4
  <1> HIDE DEF S
  <1>4. \A n \in 0 .. p : n \in S
    BY <1>1, <1>2, <1>3, UpTo
  <1> QED
    BY <1>4 DEF S

----------------------------------------------------------------------------
(* Seeking *)

Swept(out, input, skip) == [out |-> out, input |-> input, skip |-> skip]
Sweep == [out : Seq(Tokens), input : Nat, skip : BOOLEAN]

\* The parts of a state of the walk are what it was made of.
LEMMA SweptIs ==
    ASSUME NEW out, NEW input, NEW skip
    PROVE  /\ Swept(out, input, skip).out = out
           /\ Swept(out, input, skip).input = input
           /\ Swept(out, input, skip).skip = skip
  BY DEF Swept

\* One step of the walk of inject_seek, by what it does with the token.
LEMMA CleanIs ==
    ASSUME NEW args \in Seq(Tokens), NEW n \in 1 .. Len(args), NEW w \in Sweep
    PROVE  /\ Clean(w, args, n) \in Sweep
           /\ w.skip => Clean(w, args, n) = Swept(w.out, w.input, FALSE)
           /\ ~w.skip /\ SkipsSeek(w, args, n) => Clean(w, args, n) = Swept(w.out, w.input, TRUE)
           /\ ~w.skip /\ ~SkipsSeek(w, args, n) =>
                  Clean(w, args, n) =
                      Swept(Append(w.out, args[n]),
                            IF args[n] = "-i" /\ w.input = 0 THEN Len(w.out) + 1 ELSE w.input, FALSE)
  <1>1. PICK out \in Seq(Tokens), input \in Nat, skip \in BOOLEAN : w = [out |-> out, input |-> input, skip |-> skip]
    BY DEF Sweep
  <1>2. args[n] \in Tokens
    BY ElementOfSeq
  <1>3. Append(out, args[n]) \in Seq(Tokens) /\ Len(out) \in Nat
    BY <1>2, AppendProperties, LenProperties
  <1>4. PICK at \in Nat : at = IF args[n] = "-i" /\ input = 0 THEN Len(out) + 1 ELSE input
    BY <1>3
  <1>5. CASE skip
    <2>1. Clean(w, args, n) = [w EXCEPT !.skip = FALSE]
      BY <1>1, <1>5 DEF Clean
    <2>2. Clean(w, args, n) = Swept(out, input, FALSE)
      BY <1>1, <2>1 DEF Swept
    <2>3. Swept(out, input, FALSE) \in Sweep
      BY DEF Swept, Sweep
    <2> QED
      BY <1>1, <1>5, <2>2, <2>3
  <1>6. CASE ~skip /\ SkipsSeek(w, args, n)
    <2>1. Clean(w, args, n) = [w EXCEPT !.skip = TRUE]
      BY <1>1, <1>6 DEF Clean
    <2>2. Clean(w, args, n) = Swept(out, input, TRUE)
      BY <1>1, <2>1 DEF Swept
    <2>3. Swept(out, input, TRUE) \in Sweep
      BY DEF Swept, Sweep
    <2> QED
      BY <1>1, <1>6, <2>2, <2>3
  <1>7. CASE ~skip /\ ~SkipsSeek(w, args, n)
    <2>1. Clean(w, args, n) = Swept(Append(out, args[n]), at, FALSE)
      BY <1>1, <1>4, <1>7 DEF Clean, Swept
    <2>2. Swept(Append(out, args[n]), at, FALSE) \in Sweep
      BY <1>3 DEF Swept, Sweep
    <2> QED
      BY <1>1, <1>4, <1>7, <2>1, <2>2
  <1> QED
    BY <1>5, <1>6, <1>7

\* The walk of inject_seek exists, and each state is made of the one before.
LEMMA CleaningIs ==
    ASSUME NEW args \in Seq(Tokens)
    PROVE  /\ Cleaning(args) \in [0 .. Len(args) -> Sweep]
           /\ Cleaning(args)[0] = Swept(<<>>, 0, FALSE)
           /\ \A n \in 1 .. Len(args) : Cleaning(args)[n] = Clean(Cleaning(args)[n - 1], args, n)
  <1> DEFINE N == Len(args)
             start == Swept(<<>>, 0, FALSE)
             step == [n \in 1 .. N |-> [w \in Sweep |-> Clean(w, args, n)]]
  <1>1. N \in Nat
    BY LenProperties
  <1>2. \A w \in Sweep, n \in 1 .. N : Clean(w, args, n) \in Sweep
    BY CleanIs
  <1>3. step \in [1 .. N -> [Sweep -> Sweep]]
    BY <1>2
  <1>4. \A w \in Sweep, n \in 1 .. N : step[n][w] = Clean(w, args, n)
    OBVIOUS
  <1>5. start \in Sweep
    <2>1. <<>> \in Seq(Tokens)
      BY ShortSequences
    <2> QED
      BY <2>1 DEF Swept, Sweep
  <1> HIDE DEF step, start
  <1>6. PICK f : Walks(f, Sweep, start, N, step)
    BY <1>1, <1>3, <1>5, Recursion
  <1>7. \A n \in 1 .. N : f[n] = Clean(f[n - 1], args, n)
    <2> SUFFICES ASSUME NEW n \in 1 .. N
                 PROVE  f[n] = Clean(f[n - 1], args, n)
      OBVIOUS
    <2>1. n - 1 \in 0 .. N /\ n \in 0 .. N /\ n # 0
      BY <1>1
    <2>2. f[n] = step[n][f[n - 1]] /\ f[n - 1] \in Sweep
      BY <1>6, <2>1 DEF Walks
    <2> QED
      BY <1>4, <2>2
  <1>8. f[0] = start /\ f \in [0 .. N -> Sweep]
    BY <1>1, <1>6 DEF Walks
  <1>9. f = [n \in 0 .. N |-> IF n = 0 THEN start ELSE Clean(f[n - 1], args, n)]
    <2>1. \A n \in 0 .. N : f[n] = IF n = 0 THEN start ELSE Clean(f[n - 1], args, n)
      BY <1>1, <1>7, <1>8
    <2> QED
      BY <1>8, <2>1
  <1> DEFINE g == Cleaning(args)
  <1>10. g = [n \in 0 .. N |-> IF n = 0 THEN start ELSE Clean(g[n - 1], args, n)]
    BY <1>9 DEF Cleaning, start, Swept
  <1> HIDE DEF g
  <1>11. \A n \in 0 .. N : g[n] = IF n = 0 THEN start ELSE Clean(g[n - 1], args, n)
    BY <1>10
  <1>12. \A n \in 0 .. N : g[n] \in Sweep
    <2> DEFINE S == {n \in 0 .. N : g[n] \in Sweep}
    <2>1. 0 \in S
      BY <1>1, <1>5, <1>11
    <2>2. ASSUME NEW n \in 0 .. N - 1, n \in S
          PROVE  n + 1 \in S
      <3>1. n + 1 \in 1 .. N /\ n + 1 \in 0 .. N /\ (n + 1) - 1 = n
        BY <1>1
      <3>2. g[n + 1] = Clean(g[n], args, n + 1)
        BY <1>11, <3>1
      <3> QED
        BY <1>2, <2>2, <3>1, <3>2
    <2> HIDE DEF S
    <2>3. \A n \in 0 .. N : n \in S
      BY <1>1, <2>1, <2>2, UpTo
    <2> QED
      BY <2>3 DEF S
  <1>13. g = [n \in 0 .. N |-> g[n]]
    BY <1>10
  <1>14. g \in [0 .. N -> Sweep] /\ g[0] = start
    BY <1>1, <1>11, <1>12, <1>13
  <1>15. \A n \in 1 .. N : g[n] = Clean(g[n - 1], args, n)
    BY <1>1, <1>11
  <1> QED
    BY <1>14, <1>15 DEF g, start

\* One option more is left out or stays.
LEMMA WithoutOn ==
    ASSUME NEW r \in Seq(Opt), NEW x \in Opt, NEW name
    PROVE  /\ Without(<<>>, name) = <<>>
           /\ Without(r, name) \in Seq(Opt)
           /\ Without(Append(r, x), name) =
                  IF x \in {name} \X Tokens THEN Without(r, name) ELSE Append(Without(r, name), x)
  <1>1. PICK D : D = {name} \X Tokens
    OBVIOUS
  <1>2. Dropping(<<>>, D) = <<>> /\ Dropping(r, D) \in Seq(Opt)
    BY DropsNone, DropsOn
  <1>3. Dropping(Append(r, x), D) = IF x \in D THEN Dropping(r, D) ELSE Append(Dropping(r, D), x)
    BY DropsOn
  <1> QED
    BY <1>1, <1>2, <1>3 DEF Without

\* What is swept so far means what is read so far, without the seeks.
Skimmed(w, m) ==
    /\ w.input = 0
    /\ w.skip <=> m.name = "-ss"
    /\ Meaning(w.out) =
           Understood(<<>>, <<>>, Without(m.rest, "-ss"), IF w.skip THEN "none" ELSE m.name)

\* A flag is no option with a value.
LEMMA OneIsNotTwo ==
    ASSUME NEW d, NEW A, NEW B
    PROVE  <<d>> \notin A \X B
  <1> SUFFICES ASSUME NEW a \in A, NEW b \in B
               PROVE  <<d>> # <<a, b>>
    OBVIOUS
  <1>1. Len(<<d>>) = 1 /\ Len(<<a, b>>) = 2
    OBVIOUS
  <1> QED
    BY <1>1

\* The options that wait, after one token more.
LEMMA RestRead ==
    ASSUME NEW m \in Understanding, NEW token \in Tokens
    PROVE  /\ m.name = "-i" => ReadToken(m, token).rest = <<>>
           /\ m.name \notin {"none", "-i"} => ReadToken(m, token).rest = Append(m.rest, <<m.name, token>>)
           /\ m.name = "none" /\ token \in Options => ReadToken(m, token).rest = m.rest
           /\ m.name = "none" /\ token \in Flags => ReadToken(m, token).rest = Append(m.rest, <<token>>)
  <1>1. PICK x, a, b, c, n : x = ReadToken(m, token) /\ a = m.inputs /\ b = m.outputs /\ c = m.rest /\ n = m.name
    OBVIOUS
  <1>2. PICK f, o, p : f = [opts |-> m.rest, url |-> token] /\ o = <<n, token>> /\ p = <<token>>
    OBVIOUS
  <1> DEFINE more == Append(c, o)
             flagged == Append(c, p)
  <1>3. n = "-i" => x = Understood(Append(a, f), b, <<>>, "none")
    BY <1>1, <1>2, TokenRead
  <1>4. n \notin {"none", "-i"} => x = Understood(a, b, more, "none")
    BY <1>1, <1>2, TokenRead
  <1>5. n = "none" /\ token \in Options => x = Understood(a, b, c, token)
    BY <1>1, TokenRead
  <1>6. n = "none" /\ token \in Flags => x = Understood(a, b, flagged, "none")
    BY <1>1, <1>2, TokenRead
  <1> HIDE DEF more, flagged
  <1>7. n = "-i" => x.rest = <<>>
    BY <1>3, UnderstoodIs
  <1>8. n \notin {"none", "-i"} => x.rest = more
    BY <1>4, UnderstoodIs
  <1>9. n = "none" /\ token \in Options => x.rest = c
    BY <1>5, UnderstoodIs
  <1>10. n = "none" /\ token \in Flags => x.rest = flagged
    BY <1>6, UnderstoodIs
  <1> QED
    BY <1>1, <1>2, <1>7, <1>8, <1>9, <1>10 DEF more, flagged

\* Up to the first input, a step of the walk keeps the line and leaves its seeks out: what the tokens
\* that stay mean is what all of them mean, without the seeks.
LEMMA SkimStep ==
    ASSUME NEW args \in Seq(Tokens), NEW n \in 1 .. Len(args) - 1, NEW w \in Sweep, NEW m \in Understanding,
           Skimmed(w, m), m.inputs = <<>>, m.outputs = <<>>, m.name # "-i", args[n] # "-i",
           m.name # "none" => args[n] \notin Options,
           ReadToken(m, args[n]).outputs = <<>>
    PROVE  Skimmed(Clean(w, args, n), ReadToken(m, args[n]))
  <1>1. PICK t \in Tokens, N \in Nat : t = args[n] /\ N = Len(args) /\ n \in 1 .. N /\ n < N
    BY LenProperties, ElementOfSeq
  <1>2. PICK out \in Seq(Tokens), rest \in Seq(Opt), name \in Options \cup {"none"} :
            out = w.out /\ rest = m.rest /\ name = m.name
    BY DEF Sweep, Understanding
  <1>3. PICK W, x, c : W = Without(rest, "-ss") /\ x = ReadToken(m, t) /\ c = Clean(w, args, n)
    OBVIOUS
  <1>4. /\ w.input = 0 /\ (w.skip <=> name = "-ss") /\ w.skip \in BOOLEAN
        /\ Meaning(out) = Understood(<<>>, <<>>, W, IF w.skip THEN "none" ELSE name)
    BY <1>2, <1>3 DEF Skimmed, Sweep
  <1>8. /\ (w.skip => c = Swept(out, 0, FALSE))
        /\ ~w.skip /\ t = "-ss" => c = Swept(out, 0, TRUE)
        /\ ~w.skip /\ t # "-ss" => c = Swept(Append(out, t), 0, FALSE)
    <2>1. SkipsSeek(w, args, n) <=> t = "-ss"
      BY <1>1, <1>4 DEF SkipsSeek
    <2> QED
      BY <1>1, <1>2, <1>3, <1>4, <2>1, CleanIs
  <1>9. c.input = 0
    BY <1>4, <1>8 DEF Swept
  <1>10. x.name = IF name = "none" /\ t \in Options THEN t ELSE "none"
    BY <1>2, <1>3, AfterToken
  <1>5. CASE w.skip
    <2>1. c.out = out /\ c.skip = FALSE
      BY <1>5, <1>8 DEF Swept
    <2>2. PICK o : o = <<"-ss", t>>
      OBVIOUS
    <2>3. x.rest = Append(rest, o) /\ x.name = "none"
      BY <1>2, <1>3, <1>4, <1>5, <1>10, <2>2, RestRead
    <2>4. o \in {"-ss"} \X Tokens /\ o \in Opt
      BY <2>2, TokenSet DEF Opt
    <2>5. Without(x.rest, "-ss") = W
      BY <1>3, <2>3, <2>4, WithoutOn
    <2> QED
      BY <1>1, <1>3, <1>4, <1>5, <1>9, <2>1, <2>3, <2>5 DEF Skimmed
  <1>6. CASE ~w.skip /\ t = "-ss"
    <2>1. name = "none" /\ t \in Options
      BY <1>1, <1>2, <1>6, TokenSet
    <2>2. c.out = out /\ c.skip = TRUE
      BY <1>6, <1>8 DEF Swept
    <2>3. x.rest = rest /\ x.name = "-ss"
      BY <1>2, <1>3, <1>6, <1>10, <2>1, RestRead
    <2> QED
      BY <1>1, <1>3, <1>4, <1>6, <1>9, <2>1, <2>2, <2>3 DEF Skimmed
  <1>7. CASE ~w.skip /\ t # "-ss"
    <2>1. c.out = Append(out, t) /\ c.skip = FALSE
      BY <1>7, <1>8 DEF Swept
    <2>2. PICK k \in Understanding : k = Understood(<<>>, <<>>, W, name) /\ k = Meaning(out)
      BY <1>4, <1>7, ReadsOn
    <2>3. Meaning(c.out) = ReadToken(k, t)
      BY <2>1, <2>2, ReadsOn
    <2>4. k.inputs = <<>> /\ k.outputs = <<>> /\ k.rest = W /\ k.name = name
      BY <2>2, UnderstoodIs
    <2>5. name # "-ss"
      BY <1>4, <1>7
    <2> SUFFICES Meaning(c.out) = Understood(<<>>, <<>>, Without(x.rest, "-ss"), x.name) /\ x.name # "-ss"
      BY <1>1, <1>3, <1>9, <2>1 DEF Skimmed
    <2>6. CASE name # "none"
      <3>1. name \notin {"none", "-i"} /\ x.name = "none"
        BY <1>2, <1>10, <2>6
      <3>2. PICK o : o = <<name, t>>
        OBVIOUS
      <3>3. x.rest = Append(rest, o)
        BY <1>2, <1>3, <3>1, <3>2, RestRead
      <3>4. ReadToken(k, t) = Understood(<<>>, <<>>, Append(W, o), "none")
        BY <2>4, <3>1, <3>2, TokenRead
      <3>5. o \in Opt /\ o \notin {"-ss"} \X Tokens
        BY <1>2, <2>5, <3>1, <3>2 DEF Opt
      <3>6. Without(Append(rest, o), "-ss") = Append(W, o)
        BY <1>3, <3>5, WithoutOn
      <3> QED
        BY <2>3, <3>1, <3>3, <3>4, <3>6
    <2>7. CASE name = "none" /\ t \in Options
      <3>1. x.rest = rest /\ x.name = t
        BY <1>2, <1>3, <1>10, <2>7, RestRead
      <3>2. ReadToken(k, t) = Understood(<<>>, <<>>, W, t)
        BY <2>4, <2>7, TokenRead
      <3> QED
        BY <1>3, <1>7, <2>3, <3>1, <3>2
    <2>8. CASE name = "none" /\ t \in Flags
      <3>1. PICK o : o = <<t>>
        OBVIOUS
      <3>2. x.rest = Append(rest, o)
        BY <1>2, <1>3, <2>8, <3>1, RestRead
      <3>3. ReadToken(k, t) = Understood(<<>>, <<>>, Append(W, o), "none")
        BY <2>4, <2>8, <3>1, TokenRead
      <3>4. o \in Opt
        BY <2>8, <3>1 DEF Opt
      <3>5. o \notin {"-ss"} \X Tokens
        BY <3>1, OneIsNotTwo
      <3>6. Without(Append(rest, o), "-ss") = Append(W, o)
        BY <1>3, <3>4, <3>5, WithoutOn
      <3>7. x.name = "none"
        BY <1>10, <2>8, TokenSet
      <3> QED
        BY <2>3, <3>2, <3>3, <3>6, <3>7
    <2>9. CASE name = "none" /\ t \notin Options \cup Flags
      <3>1. PICK f : f = [opts |-> m.rest, url |-> t]
        OBVIOUS
      <3>2. x = Understood(m.inputs, Append(m.outputs, f), <<>>, "none")
        <4>1. m.name = "none"
          BY <1>2, <2>9
        <4>2. ReadToken(m, t) =
                  Understood(m.inputs, Append(m.outputs, [opts |-> m.rest, url |-> t]), <<>>, "none")
          BY <2>9, <4>1, TokenRead
        <4> QED
          BY <1>3, <3>1, <4>2
      <3>3. x.outputs = Append(m.outputs, f)
        BY <3>2, UnderstoodIs
      <3>4. Append(<<>>, f) # <<>>
        OBVIOUS
      <3> QED
        BY <1>1, <1>3, <3>3, <3>4
    <2> QED
      BY <2>6, <2>7, <2>8, <2>9
  <1> QED
    BY <1>4, <1>5, <1>6, <1>7

\* The beginning of a line means what has been understood up to there.
LEMMA MeaningAt ==
    ASSUME NEW args \in Seq(Tokens)
    PROVE  \A n \in 0 .. Len(args) : Meaning(SubSeq(args, 1, n)) = Reading(args)[n]
  <1> DEFINE S == {n \in 0 .. Len(args) : Meaning(SubSeq(args, 1, n)) = Reading(args)[n]}
  <1>1. Len(args) \in Nat
    BY LenProperties
  <1>2. 0 \in S
    <2>1. SubSeq(args, 1, 0) = <<>>
      BY SubSeqEmpty
    <2> QED
      BY <1>1, <2>1, EmptyLine, ReadingIs
  <1>3. ASSUME NEW n \in 0 .. Len(args) - 1, n \in S
        PROVE  n + 1 \in S
    <2>1. PICK k \in 1 .. Len(args) : k = n + 1
      BY <1>1
    <2>2. k - 1 = n /\ 1 \in 1 .. Len(args) /\ k \in 0 .. Len(args)
      BY <1>1, <2>1
    <2>3. /\ SubSeq(args, 1, k - 1) \in Seq(Tokens) /\ args[k] \in Tokens
          /\ SubSeq(args, 1, k) = Append(SubSeq(args, 1, k - 1), args[k])
      BY <2>2, SliceGrows
    <2>4. PICK s \in Seq(Tokens) : s = SubSeq(args, 1, n)
      BY <2>2, <2>3
    <2>5. Meaning(SubSeq(args, 1, k)) = ReadToken(Meaning(s), args[k])
      BY <2>2, <2>3, <2>4, ReadsOn
    <2>6. Meaning(s) = Reading(args)[n]
      BY <1>3, <2>4
    <2>7. Reading(args)[k] = ReadToken(Reading(args)[n], args[k])
      BY <2>2, ReadStep
    <2> QED
      BY <2>1, <2>2, <2>5, <2>6, <2>7
  <1> HIDE DEF S
  <1>4. \A n \in 0 .. Len(args) : n \in S
    BY <1>1, <1>2, <1>3, UpTo
  <1> QED
    BY <1>4 DEF S

\* What comes behind the first input is read the same, whatever that input's options.
Alike(x, y, f, g) ==
    \E more \in Seq(File), O \in Seq(File), r \in Seq(Opt), n \in Options \cup {"none"} :
        x = Understood(<<f>> \o more, O, r, n) /\ y = Understood(<<g>> \o more, O, r, n)

\* A file is put behind joined files.
LEMMA JoinFilesAppend == \A s, t \in Seq(File), x \in File : s \o Append(t, x) = Append(s \o t, x)
  BY JoinAppend

\* Two lines that differ in their one input only still do so when the same tokens follow them.
LEMMA ReadBehind ==
    ASSUME NEW a \in Seq(Tokens), NEW b \in Seq(Tokens), NEW f \in File, NEW g \in File,
           Meaning(a) = Understood(<<f>>, <<>>, <<>>, "none"),
           Meaning(b) = Understood(<<g>>, <<>>, <<>>, "none")
    PROVE  \A t \in Seq(Tokens) : Alike(Meaning(a \o t), Meaning(b \o t), f, g)
  <1> DEFINE Same(t, more, O, r, n) ==
                 /\ Meaning(a \o t) = Understood(<<f>> \o more, O, r, n)
                 /\ Meaning(b \o t) = Understood(<<g>> \o more, O, r, n)
             S == {t \in Seq(Tokens) :
                      \E more \in Seq(File), O \in Seq(File), r \in Seq(Opt), n \in Options \cup {"none"} :
                          Same(t, more, O, r, n)}
  <1>1. <<>> \in S
    <2>1. /\ <<>> \in Seq(Tokens) /\ <<>> \in Seq(File) /\ <<>> \in Seq(Opt)
          /\ <<f>> \in Seq(File) /\ <<g>> \in Seq(File)
      BY ShortSequences
    <2>2. a \o <<>> = a /\ b \o <<>> = b /\ <<f>> \o <<>> = <<f>> /\ <<g>> \o <<>> = <<g>>
      BY <2>1, ConcatEmptySeq
    <2>3. Same(<<>>, <<>>, <<>>, <<>>, "none")
      BY <2>2
    <2> HIDE DEF Same
    <2> QED
      BY <2>1, <2>3
  <1>2. ASSUME NEW t \in Seq(Tokens), NEW e \in Tokens, t \in S
        PROVE  Append(t, e) \in S
    <2>1. PICK more \in Seq(File), O \in Seq(File), r \in Seq(Opt), n \in Options \cup {"none"} :
              Same(t, more, O, r, n)
      BY <1>2
    <2>15. a \o t \in Seq(Tokens) /\ b \o t \in Seq(Tokens) /\ Append(t, e) \in Seq(Tokens)
      BY ConcatProperties, AppendProperties
    <2>16. a \o Append(t, e) = Append(a \o t, e)
      BY JoinAppend
    <2>17. b \o Append(t, e) = Append(b \o t, e)
      BY JoinAppend
    <2>2. /\ a \o t \in Seq(Tokens) /\ b \o t \in Seq(Tokens) /\ Append(t, e) \in Seq(Tokens)
          /\ a \o Append(t, e) = Append(a \o t, e) /\ b \o Append(t, e) = Append(b \o t, e)
      BY <2>15, <2>16, <2>17
    <2>3. <<f>> \in Seq(File) /\ <<g>> \in Seq(File)
      BY ShortSequences
    <2>4. PICK I \in Seq(File), J \in Seq(File) : I = <<f>> \o more /\ J = <<g>> \o more
      BY <2>3, ConcatProperties
    <2>5. PICK m, k : m = Understood(I, O, r, n) /\ k = Understood(J, O, r, n)
      OBVIOUS
    <2>6. Meaning(a \o Append(t, e)) = ReadToken(m, e) /\ Meaning(b \o Append(t, e)) = ReadToken(k, e)
      BY <2>1, <2>2, <2>4, <2>5, ReadsOn
    <2>8. PICK file \in File : file = FileOf(r, e)
      BY FileOfIs
    <2>9. <<>> \in Seq(Opt)
      BY ShortSequences
    <2> SUFFICES \E x \in Seq(File), y \in Seq(File), z \in Seq(Opt), q \in Options \cup {"none"} :
                     Same(Append(t, e), x, y, z, q)
      BY <2>2
    <2>10. CASE n = "-i"
      <3>1. Append(more, file) \in Seq(File)
        BY AppendProperties
      <3>6. PICK x \in Seq(File), y \in Seq(File) : x = <<f>> /\ y = <<g>>
        BY <2>3
      <3>7. x \o Append(more, file) = Append(x \o more, file)
        BY JoinFilesAppend
      <3>8. y \o Append(more, file) = Append(y \o more, file)
        BY JoinFilesAppend
      <3>2. Append(I, file) = <<f>> \o Append(more, file) /\ Append(J, file) = <<g>> \o Append(more, file)
        BY <2>4, <3>6, <3>7, <3>8
      <3>3. ReadToken(m, e) = Understood(Append(I, file), O, <<>>, "none")
        BY <2>5, <2>8, <2>10, ReadInput
      <3>4. ReadToken(k, e) = Understood(Append(J, file), O, <<>>, "none")
        BY <2>5, <2>8, <2>10, ReadInput
      <3>5. Same(Append(t, e), Append(more, file), O, <<>>, "none")
        BY <2>6, <3>2, <3>3, <3>4
      <3> HIDE DEF Same
      <3> QED
        BY <2>9, <3>1, <3>5
    <2>11. CASE n \notin {"none", "-i"}
      <3>1. PICK o \in Opt : o = <<n, e>>
        BY <2>11 DEF Opt
      <3>2. Append(r, o) \in Seq(Opt)
        BY AppendProperties
      <3>3. ReadToken(m, e) = Understood(I, O, Append(r, o), "none")
        BY <2>5, <2>11, <3>1, ReadValue
      <3>4. ReadToken(k, e) = Understood(J, O, Append(r, o), "none")
        BY <2>5, <2>11, <3>1, ReadValue
      <3>5. Same(Append(t, e), more, O, Append(r, o), "none")
        BY <2>4, <2>6, <3>3, <3>4
      <3> HIDE DEF Same
      <3> QED
        BY <3>2, <3>5
    <2>12. CASE n = "none" /\ e \in Options
      <3>1. ReadToken(m, e) = Understood(I, O, r, e)
        BY <2>5, <2>12, ReadOption
      <3>2. ReadToken(k, e) = Understood(J, O, r, e)
        BY <2>5, <2>12, ReadOption
      <3>3. Same(Append(t, e), more, O, r, e)
        BY <2>4, <2>6, <3>1, <3>2
      <3> HIDE DEF Same
      <3> QED
        BY <2>12, <3>3
    <2>13. CASE n = "none" /\ e \in Flags
      <3>1. PICK o \in Opt : o = <<e>>
        BY <2>13 DEF Opt
      <3>2. Append(r, o) \in Seq(Opt)
        BY AppendProperties
      <3>3. ReadToken(m, e) = Understood(I, O, Append(r, o), "none")
        BY <2>5, <2>13, <3>1, ReadFlag
      <3>4. ReadToken(k, e) = Understood(J, O, Append(r, o), "none")
        BY <2>5, <2>13, <3>1, ReadFlag
      <3>5. Same(Append(t, e), more, O, Append(r, o), "none")
        BY <2>4, <2>6, <3>3, <3>4
      <3> HIDE DEF Same
      <3> QED
        BY <3>2, <3>5
    <2>14. CASE n = "none" /\ e \notin Options \cup Flags
      <3>1. Append(O, file) \in Seq(File)
        BY AppendProperties
      <3>2. ReadToken(m, e) = Understood(I, Append(O, file), <<>>, "none")
        BY <2>5, <2>8, <2>14, ReadOutput
      <3>3. ReadToken(k, e) = Understood(J, Append(O, file), <<>>, "none")
        BY <2>5, <2>8, <2>14, ReadOutput
      <3>4. Same(Append(t, e), more, Append(O, file), <<>>, "none")
        BY <2>4, <2>6, <3>2, <3>3
      <3> HIDE DEF Same
      <3> QED
        BY <2>9, <3>1, <3>4
    <2> QED
      BY <2>10, <2>11, <2>12, <2>13, <2>14
  <1> HIDE DEF S
  <1>3. \A t \in Seq(Tokens) : t \in S
    BY <1>1, <1>2, ElementByElement
  <1> QED
    BY <1>3 DEF S, Alike

\* A line with an input: what is before its first input, that input, and what is behind.
SplitsAt(args, p, head, url, tail, r) ==
    /\ head = SubSeq(args, 1, p - 1)
    /\ SubSeq(args, p, Len(args)) = <<"-i", url>> \o tail
    /\ args = (head \o <<"-i", url>>) \o tail
    /\ Meaning(head) = Understood(<<>>, <<>>, r, "none")
    /\ Reading(args)[p - 1] = Understood(<<>>, <<>>, r, "none")
    /\ \A i \in 1 .. Len(head) : head[i] # "-i"

\* A line with an input is what comes before its first -i, the -i with its name, and what follows.
LEMMA AtInput ==
    ASSUME NEW args \in Seq(Tokens), Usage(args), Meaning(args).inputs # <<>>,
           NEW p, p = FirstInput(args)
    PROVE  /\ p \in 1 .. Len(args) - 1 /\ args[p] = "-i" /\ (\A i \in 1 .. p - 1 : args[i] # "-i")
           /\ \E head \in Seq(Tokens), url \in Tokens, tail \in Seq(Tokens), r \in Seq(Opt) :
                  SplitsAt(args, p, head, url, tail, r)
  <1> DEFINE N == Len(args)
  <1>1. N \in Nat /\ \A i \in 1 .. N : args[i] \in Tokens
    BY LenProperties, ElementOfSeq
  <1> HIDE DEF N
  <1>2. N = Len(args)
    BY DEF N
  <1>3. p # 0
    <2> SUFFICES ASSUME p = 0
                 PROVE  FALSE
      OBVIOUS
    <2>1. \A i \in 1 .. N : args[i] # "-i"
      BY <1>2, FirstInputIs
    <2>2. Reading(args)[N].inputs = <<>>
      BY <1>1, <1>2, <2>1, BeforeInput
    <2> QED
      BY <1>2, <2>2 DEF Meaning
  <1>4. p \in 1 .. N /\ args[p] = "-i" /\ \A i \in 1 .. p - 1 : args[i] # "-i"
    BY <1>2, <1>3, FirstInputIs
  <1>5. PICK q \in 0 .. N : q = p - 1
    BY <1>1, <1>4
  <1>6. \A n \in 0 .. q : Reading(args)[n].inputs = <<>> /\ Reading(args)[n].name # "-i"
    BY <1>2, <1>4, <1>5, BeforeInput
  <1>7. q \in 0 .. q
    BY <1>5
  <1>8. Reading(args)[q].inputs = <<>> /\ Reading(args)[q].name # "-i"
    BY <1>6, <1>7
  <1>9. p # N
    <2> SUFFICES ASSUME p = N
                 PROVE  FALSE
      OBVIOUS
    <2>1. Reading(args)[p].inputs = <<>>
      BY <1>2, <1>4, <1>5, <1>8, ReadStep, AfterToken
    <2> QED
      BY <1>2, <2>1 DEF Meaning
  <1>10. Reading(args)[q].outputs = <<>>
    BY <1>2, <1>4, <1>5, <1>7, OutputsAreLast
  <1>11. Reading(args)[q].name = "none"
    BY <1>2, <1>4, <1>5, NameIs, TokenSet
  <1>12. Reading(args)[q] \in Understanding
    BY <1>2, <1>4, <1>5, ReadStep
  <1>13. PICK r \in Seq(Opt) : Reading(args)[q] = Understood(<<>>, <<>>, r, "none")
    BY <1>8, <1>10, <1>11, <1>12 DEF Understanding, Understood
  <1>14. PICK head \in Seq(Tokens) : head = SubSeq(args, 1, q) /\ Len(head) = q /\ \A i \in 1 .. q : head[i] = args[i]
    <2>1. \A i \in 1 .. q : args[i] \in Tokens
      BY <1>1, <1>5
    <2>2. q \in Int /\ 1 \in Int
      BY <1>5
    <2>3. /\ SubSeq(args, 1, q) \in Seq(Tokens)
          /\ Len(SubSeq(args, 1, q)) = IF 1 <= q THEN q - 1 + 1 ELSE 0
          /\ \A i \in 1 .. q - 1 + 1 : SubSeq(args, 1, q)[i] = args[1 + i - 1]
      BY <2>1, <2>2, SubSeqProperties
    <2>4. PICK h : h = SubSeq(args, 1, q)
      OBVIOUS
    <2>5. Len(h) = q
      BY <1>5, <2>3, <2>4
    <2>6. \A i \in 1 .. q : h[i] = args[i]
      BY <1>5, <2>3, <2>4
    <2> QED
      BY <2>3, <2>4, <2>5, <2>6
  <1>15. PICK url \in Tokens : url = args[p + 1]
    BY <1>1, <1>4, <1>9
  <1>16. PICK tail \in Seq(Tokens) : tail = SubSeq(args, p + 2, N)
    <2>1. \A i \in p + 2 .. N : args[i] \in Tokens
      BY <1>1, <1>4
    <2>2. p + 2 \in Int /\ N \in Int
      BY <1>1, <1>4
    <2> QED
      BY <2>1, <2>2, SubSeqProperties
  <1>17. SubSeq(args, p, N) = <<"-i", url>> \o tail
    <2>1. SubSeq(args, p, N) = <<args[p]>> \o SubSeq(args, p + 1, N)
      <3>1. p \in 1 .. Len(args) /\ N \in p .. Len(args)
        BY <1>1, <1>2, <1>4
      <3> QED
        BY <3>1, SubSeqRecursiveFirst, Zenon
    <2>2. SubSeq(args, p + 1, N) = <<args[p + 1]>> \o SubSeq(args, (p + 1) + 1, N)
      <3>1. p + 1 \in 1 .. Len(args) /\ N \in p + 1 .. Len(args)
        BY <1>1, <1>2, <1>4, <1>9
      <3> QED
        BY <3>1, SubSeqRecursiveFirst, Zenon
    <2>3. (p + 1) + 1 = p + 2
      BY <1>4
    <2>4. PICK a \in Seq(Tokens), b \in Seq(Tokens) : a = <<"-i">> /\ b = <<url>>
      BY TokenSet, ShortSequences
    <2>5. SubSeq(args, p, N) = a \o (b \o tail)
      BY <1>4, <1>15, <1>16, <2>1, <2>2, <2>3, <2>4
    <2>6. a \o (b \o tail) = (a \o b) \o tail
      BY JoinTokens
    <2>7. a \o b = <<"-i", url>>
      <3>1. PICK d \in Tokens : d = "-i"
        BY TokenSet
      <3> QED
        BY <2>4, <3>1, JoinTwo
    <2> QED
      BY <2>5, <2>6, <2>7
  <1>18. args = (head \o <<"-i", url>>) \o tail
    <2>1. args = SubSeq(args, 1, N)
      BY <1>2, SubSeqFull
    <2>2. SubSeq(args, 1, q) \o SubSeq(args, q + 1, N) = SubSeq(args, 1, N)
      <3>1. 1 \in 1 .. N + 1 /\ q \in 1 - 1 .. N /\ N \in q .. N
        BY <1>1, <1>5
      <3> QED
        BY <1>2, <3>1, ConcatAdjacentSubSeq
    <2>3. q + 1 = p
      BY <1>4, <1>5
    <2>4. PICK a \in Seq(Tokens) : a = <<"-i", url>>
      BY TokenSet, ShortSequences
    <2>5. args = head \o (a \o tail)
      BY <1>14, <1>17, <2>1, <2>2, <2>3, <2>4
    <2>6. head \o (a \o tail) = (head \o a) \o tail
      BY JoinTokens
    <2> QED
      BY <2>4, <2>5, <2>6
  <1>19. Meaning(head) = Reading(args)[q]
    BY <1>2, <1>14, MeaningAt
  <1>20. \A i \in 1 .. Len(head) : head[i] # "-i"
    BY <1>4, <1>5, <1>14
  <1>21. p \in 1 .. N - 1
    BY <1>1, <1>4, <1>9
  <1>22. SplitsAt(args, p, head, url, tail, r)
    BY <1>2, <1>5, <1>13, <1>14, <1>17, <1>18, <1>19, <1>20 DEF SplitsAt
  <1> QED
    BY <1>2, <1>4, <1>21, <1>22

----------------------------------------------------------------------------
(* Options added to a line *)

\* The tokens w name the options ps.
Spells(w, ps) ==
    /\ w \in Seq(Tokens) /\ ps \in Seq(Opt)
    /\ \A x \in Seq(Tokens), I \in Seq(File), O \in Seq(File), r \in Seq(Opt) :
           Meaning(x) = Understood(I, O, r, "none") => Meaning(x \o w) = Understood(I, O, r \o ps, "none")

\* No tokens spell no options.
LEMMA SpellsNothing == Spells(<<>>, <<>>)
  <1>1. <<>> \in Seq(Tokens) /\ <<>> \in Seq(Opt)
    BY ShortSequences
  <1>2. \A x \in Seq(Tokens) : x \o <<>> = x
    BY ConcatEmptySeq
  <1>3. \A r \in Seq(Opt) : r \o <<>> = r
    BY ConcatEmptySeq
  <1> QED
    BY <1>1, <1>2, <1>3 DEF Spells

\* An option and its value spell it.
LEMMA SpellsOption ==
    ASSUME NEW o \in Options, o # "-i", NEW v \in Tokens
    PROVE  Spells(<<o, v>>, <<<<o, v>>>>)
  <1>1. o \in Tokens /\ <<o, v>> \in Seq(Tokens)
    BY TokenSet, ShortSequences
  <1>2. PICK pair \in Opt : pair = <<o, v>>
    BY DEF Opt
  <1>3. <<pair>> \in Seq(Opt)
    BY ShortSequences
  <1>4. ASSUME NEW x \in Seq(Tokens), NEW I \in Seq(File), NEW O \in Seq(File), NEW r \in Seq(Opt),
               Meaning(x) = Understood(I, O, r, "none")
        PROVE  Meaning(x \o <<o, v>>) = Understood(I, O, r \o <<pair>>, "none")
    <2>1. x \o <<o, v>> = Append(Append(x, o), v)
      BY <1>1, JoinPair
    <2>2. Append(x, o) \in Seq(Tokens)
      BY <1>1, AppendProperties
    <2>3. Meaning(Append(x, o)) = ReadToken(Understood(I, O, r, "none"), o)
      BY <1>1, <1>4, ReadsOn
    <2>4. ReadToken(Understood(I, O, r, "none"), o) = Understood(I, O, r, o)
      BY <1>1, ReadOption
    <2>5. Meaning(Append(Append(x, o), v)) = ReadToken(Meaning(Append(x, o)), v)
      BY <2>2, ReadsOn
    <2>6. ReadToken(Understood(I, O, r, o), v) = Understood(I, O, Append(r, <<o, v>>), "none")
      BY ReadValue
    <2>7. Append(r, pair) = r \o <<pair>>
      BY AppendIsConcat
    <2> QED
      BY <1>2, <2>1, <2>3, <2>4, <2>5, <2>6, <2>7
  <1> QED
    BY <1>1, <1>2, <1>3, <1>4 DEF Spells

\* What two parts of a line spell, they spell together.
LEMMA SpellsBoth ==
    ASSUME NEW v, NEW ps, Spells(v, ps), NEW w, NEW qs, Spells(w, qs)
    PROVE  Spells(v \o w, ps \o qs)
  <1>1. v \in Seq(Tokens) /\ w \in Seq(Tokens) /\ ps \in Seq(Opt) /\ qs \in Seq(Opt)
    BY DEF Spells
  <1>2. v \o w \in Seq(Tokens) /\ ps \o qs \in Seq(Opt)
    BY <1>1, ConcatProperties
  <1>3. ASSUME NEW x \in Seq(Tokens), NEW I \in Seq(File), NEW O \in Seq(File), NEW r \in Seq(Opt),
               Meaning(x) = Understood(I, O, r, "none")
        PROVE  Meaning(x \o (v \o w)) = Understood(I, O, r \o (ps \o qs), "none")
    <2>1. PICK y \in Seq(Tokens), t \in Seq(Opt) : y = x \o v /\ t = r \o ps
      BY <1>1, ConcatProperties
    <2>2. Meaning(y) = Understood(I, O, t, "none")
      BY <1>3, <2>1 DEF Spells
    <2>3. Meaning(y \o w) = Understood(I, O, t \o qs, "none")
      BY <2>2 DEF Spells
    <2>4. (x \o v) \o w = x \o (v \o w)
      BY <1>1, JoinTokens
    <2>5. (r \o ps) \o qs = r \o (ps \o qs)
      BY <1>1, JoinOpts
    <2> QED
      BY <2>1, <2>3, <2>4, <2>5
  <1> QED
    BY <1>2, <1>3 DEF Spells

\* An input named behind options.
LEMMA InputNamed ==
    ASSUME NEW x \in Seq(Tokens), NEW r \in Seq(Opt), NEW url \in Tokens,
           Meaning(x) = Understood(<<>>, <<>>, r, "none")
    PROVE  /\ x \o <<"-i", url>> \in Seq(Tokens)
           /\ Meaning(x \o <<"-i", url>>) = Understood(<<FileOf(r, url)>>, <<>>, <<>>, "none")
  <1>1. PICK i \in Options : i = "-i" /\ i \in Tokens
    BY TokenSet
  <1>2. x \o <<i, url>> = Append(Append(x, i), url) /\ x \o <<i, url>> \in Seq(Tokens)
    BY <1>1, JoinPair
  <1>3. Append(x, i) \in Seq(Tokens)
    BY <1>1, AppendProperties
  <1>4. PICK e \in Seq(File) : e = <<>>
    BY ShortSequences
  <1>5. Meaning(Append(x, i)) = ReadToken(Understood(e, e, r, "none"), i)
    BY <1>1, <1>4, ReadsOn
  <1>6. ReadToken(Understood(e, e, r, "none"), i) = Understood(e, e, r, i)
    BY <1>1, ReadOption
  <1>7. Meaning(Append(Append(x, i), url)) = ReadToken(Meaning(Append(x, i)), url)
    BY <1>3, ReadsOn
  <1>8. ReadToken(Understood(e, e, r, "-i"), url) = Understood(Append(e, FileOf(r, url)), e, <<>>, "none")
    BY ReadInput
  <1>9. Append(e, FileOf(r, url)) = <<FileOf(r, url)>>
    BY <1>4
  <1> QED
    BY <1>1, <1>2, <1>4, <1>5, <1>6, <1>7, <1>8, <1>9

----------------------------------------------------------------------------
(* The seek that is put in *)

\* Up to the first input, what is swept is what is read without the seeks.
LEMMA SeeksSwept ==
    ASSUME NEW args \in Seq(Tokens), Usage(args), NEW p \in 1 .. Len(args) - 1, args[p] = "-i",
           \A i \in 1 .. p - 1 : args[i] # "-i"
    PROVE  \A n \in 0 .. p - 1 : Skimmed(Cleaning(args)[n], Reading(args)[n])
  <1> DEFINE S == {n \in 0 .. p - 1 : Skimmed(Cleaning(args)[n], Reading(args)[n])}
  <1>1. Len(args) \in Nat
    BY LenProperties
  <1>2. 0 \in S
    <2>1. Cleaning(args)[0] = Swept(<<>>, 0, FALSE) /\ Reading(args)[0] = Nothing
      BY CleaningIs, ReadingIs
    <2>2. Without(<<>>, "-ss") = <<>>
      BY DropsNone DEF Without
    <2>3. PICK w, m : w = Cleaning(args)[0] /\ m = Reading(args)[0]
      OBVIOUS
    <2>4. w.out = <<>> /\ w.input = 0 /\ w.skip = FALSE
      BY <2>1, <2>3 DEF Swept
    <2>5. m.rest = <<>> /\ m.name = "none"
      BY <2>1, <2>3 DEF Nothing, Understood
    <2>6. Skimmed(w, m)
      BY <2>2, <2>4, <2>5, EmptyLine DEF Skimmed, Nothing
    <2> QED
      BY <1>1, <2>3, <2>6
  <1>3. PICK q \in 0 .. Len(args) : q = p - 1
    BY <1>1
  <1>4. \A n \in 0 .. q : Reading(args)[n].inputs = <<>> /\ Reading(args)[n].name # "-i"
    BY <1>3, BeforeInput
  <1>5. \A n \in 0 .. q : Reading(args)[n].outputs = <<>>
    <2>1. p \in 1 .. Len(args)
      BY <1>1
    <2> QED
      BY <1>3, <2>1, OutputsAreLast
  <1>6. ASSUME NEW n \in 0 .. (p - 1) - 1, n \in S
        PROVE  n + 1 \in S
    <2>1. PICK k \in 1 .. Len(args) - 1 : k = n + 1
      BY <1>1
    <2>2. k - 1 = n /\ k \in 0 .. q /\ n \in 0 .. q /\ k \in 1 .. Len(args) /\ k \in 1 .. p - 1
      BY <1>1, <1>3, <2>1
    <2>3. PICK w \in Sweep : w = Cleaning(args)[n] /\ Clean(w, args, k) = Cleaning(args)[k]
      <3>1. n \in 0 .. Len(args)
        BY <1>3, <2>2
      <3> QED
        BY <2>2, <3>1, CleaningIs
    <2>4. PICK m \in Understanding : m = Reading(args)[n] /\ ReadToken(m, args[k]) = Reading(args)[k]
      BY <2>2, ReadStep
    <2>5. Skimmed(w, m)
      BY <1>6, <2>3, <2>4
    <2>6. m.inputs = <<>> /\ m.outputs = <<>> /\ m.name # "-i" /\ ReadToken(m, args[k]).outputs = <<>>
      BY <1>4, <1>5, <2>2, <2>4
    <2>7. args[k] # "-i" /\ (m.name # "none" => args[k] \notin Options)
      BY <2>2, <2>4, NameIs
    <2>8. Skimmed(Clean(w, args, k), ReadToken(m, args[k]))
      BY <2>5, <2>6, <2>7, SkimStep
    <2> QED
      BY <1>3, <2>1, <2>2, <2>3, <2>4, <2>8
  <1> HIDE DEF S
  <1>7. p - 1 \in Nat
    BY <1>1
  <1>8. \A n \in 0 .. p - 1 : n \in S
    BY <1>2, <1>6, <1>7, UpTo
  <1> QED
    BY <1>8 DEF S

\* From the first input on, all stays.
LEMMA RestSwept ==
    ASSUME NEW args \in Seq(Tokens), NEW p \in 1 .. Len(args), args[p] = "-i",
           NEW strip \in Seq(Tokens), Cleaning(args)[p - 1] = Swept(strip, 0, FALSE)
    PROVE  Cleaning(args)[Len(args)] = Swept(strip \o SubSeq(args, p, Len(args)), Len(strip) + 1, FALSE)
  <1> DEFINE Out(n) == strip \o SubSeq(args, p, n)
             S == {k \in 0 .. Len(args) - p : Cleaning(args)[p + k] = Swept(Out(p + k), Len(strip) + 1, FALSE)}
  <1>1. Len(args) \in Nat /\ Len(strip) \in Nat /\ Len(args) - p \in Nat
    BY LenProperties
  <1>2. ASSUME NEW n \in p .. Len(args)
        PROVE  Out(n) = Append(strip \o SubSeq(args, p, n - 1), args[n])
    <2>1. /\ SubSeq(args, p, n - 1) \in Seq(Tokens) /\ args[n] \in Tokens
          /\ SubSeq(args, p, n) = Append(SubSeq(args, p, n - 1), args[n])
      BY SliceGrows
    <2> QED
      BY <2>1, JoinAppend
  <1>3. 0 \in S
    <2>1. p \in p .. Len(args) /\ p \in 1 .. Len(args) /\ p - 1 \in 0 .. Len(args) /\ p + 0 = p
      BY <1>1
    <2>2. SubSeq(args, p, p - 1) = <<>>
      BY <2>1, SubSeqEmpty
    <2>3. Out(p) = Append(strip, args[p])
      BY <1>2, <2>1, <2>2, ConcatEmptySeq
    <2>4. PICK w \in Sweep : w = Cleaning(args)[p - 1] /\ Cleaning(args)[p] = Clean(w, args, p)
      BY <2>1, CleaningIs
    <2>5. w.out = strip /\ w.input = 0 /\ w.skip = FALSE
      BY <2>4 DEF Swept
    <2>6. ~SkipsSeek(w, args, p)
      BY DEF SkipsSeek
    <2>7. Clean(w, args, p) = Swept(Append(w.out, args[p]), Len(w.out) + 1, FALSE)
      BY <2>1, <2>5, <2>6, CleanIs
    <2> HIDE DEF Out
    <2>8. Cleaning(args)[p] = Swept(Out(p), Len(strip) + 1, FALSE)
      BY <2>3, <2>4, <2>5, <2>7
    <2>9. Cleaning(args)[p + 0] = Swept(Out(p + 0), Len(strip) + 1, FALSE)
      BY <2>1, <2>8
    <2>10. 0 \in 0 .. Len(args) - p
      BY <1>1
    <2> QED
      BY <2>9, <2>10
  <1>4. ASSUME NEW k \in 0 .. (Len(args) - p) - 1, k \in S
        PROVE  k + 1 \in S
    <2>1. PICK n \in p .. Len(args) : n = p + (k + 1)
      BY <1>1
    <2>2. n - 1 = p + k /\ n \in 1 .. Len(args) /\ n - 1 \in 0 .. Len(args) /\ k + 1 \in 0 .. Len(args) - p
      BY <1>1, <2>1
    <2>3. PICK w \in Sweep : w = Cleaning(args)[n - 1] /\ Cleaning(args)[n] = Clean(w, args, n)
      BY <2>2, CleaningIs
    <2>10. PICK i \in Nat : i = Len(strip) + 1
      BY <1>1
    <2>11. i # 0
      BY <1>1, <2>10
    <2>12. PICK s : s = strip \o SubSeq(args, p, n - 1)
      OBVIOUS
    <2>4. s = strip \o SubSeq(args, p, n - 1) /\ i = Len(strip) + 1 /\ i # 0
      BY <2>10, <2>11, <2>12
    <2>5. w = Swept(s, i, FALSE)
      BY <1>4, <2>2, <2>3, <2>4
    <2>6. w.out = s /\ w.input = i /\ w.skip = FALSE
      BY <2>5 DEF Swept
    <2>7. ~SkipsSeek(w, args, n)
      BY <2>4, <2>6 DEF SkipsSeek
    <2>8. Clean(w, args, n) = Swept(Append(s, args[n]), i, FALSE)
      BY <2>2, <2>4, <2>6, <2>7, CleanIs
    <2>9. Out(n) = Append(s, args[n])
      BY <1>2, <2>4
    <2> HIDE DEF Out
    <2> QED
      BY <2>1, <2>2, <2>3, <2>4, <2>8, <2>9
  <1> HIDE DEF S
  <1>5. \A k \in 0 .. Len(args) - p : k \in S
    BY <1>1, <1>3, <1>4, UpTo
  <1>6. PICK k \in 0 .. Len(args) - p : k = Len(args) - p
    BY <1>1
  <1>7. p + k = Len(args)
    BY <1>1, <1>6
  <1>8. k \in S
    BY <1>5
  <1> QED
    BY <1>7, <1>8 DEF S

\* With a seek put in, the first input is read with that seek in place of its own; nothing
\* else changes.
LEMMA SeekReplaced ==
    ASSUME NEW args \in Seq(Tokens), Usage(args), Meaning(args).inputs # <<>>, NEW at \in Tokens
    PROVE  /\ InjectSeek(args, at) \in Seq(Tokens)
           /\ \E r \in Seq(Opt), url \in Tokens, more \in Seq(File), O \in Seq(File), q \in Seq(Opt),
                 n \in Options \cup {"none"} :
                  /\ Meaning(args) = Understood(<<FileOf(r, url)>> \o more, O, q, n)
                  /\ Meaning(InjectSeek(args, at)) =
                         Understood(<<FileOf(Append(Without(r, "-ss"), <<"-ss", at>>), url)>> \o more, O, q, n)
  <1>1. PICK p : p = FirstInput(args)
    OBVIOUS
  <1>2. p \in 1 .. Len(args) - 1 /\ args[p] = "-i" /\ \A i \in 1 .. p - 1 : args[i] # "-i"
    BY <1>1, AtInput
  <1>26. PICK head \in Seq(Tokens), url \in Tokens, tail \in Seq(Tokens), r \in Seq(Opt) :
             SplitsAt(args, p, head, url, tail, r)
    BY <1>1, AtInput
  <1>3. /\ SubSeq(args, p, Len(args)) = <<"-i", url>> \o tail
        /\ args = (head \o <<"-i", url>>) \o tail
        /\ Meaning(head) = Understood(<<>>, <<>>, r, "none")
        /\ Reading(args)[p - 1] = Understood(<<>>, <<>>, r, "none")
    BY <1>26 DEF SplitsAt
  <1>4. Len(args) \in Nat /\ p \in 1 .. Len(args) /\ p - 1 \in 0 .. p - 1 /\ p - 1 \in 0 .. Len(args)
    BY <1>2, LenProperties
  <1>5. PICK w \in Sweep, m \in Understanding : w = Cleaning(args)[p - 1] /\ m = Reading(args)[p - 1]
    BY <1>4, CleaningIs, ReadingIs
  <1>6. Skimmed(w, m)
    BY <1>2, <1>4, <1>5, SeeksSwept
  <1>7. m.rest = r /\ m.name = "none"
    BY <1>3, <1>5, UnderstoodIs
  <1>8. PICK W \in Seq(Opt) : W = Without(r, "-ss")
    <2>1. PICK x \in Opt : x = <<"-ss", at>>
      BY TokenSet DEF Opt
    <2> QED
      BY WithoutOn
  <1>9. PICK strip \in Seq(Tokens) : w = Swept(strip, 0, FALSE) /\ Meaning(strip) = Understood(<<>>, <<>>, W, "none")
    BY <1>6, <1>7, <1>8 DEF Skimmed, Sweep, Swept
  <1>10. Cleaning(args)[Len(args)] = Swept(strip \o SubSeq(args, p, Len(args)), Len(strip) + 1, FALSE)
    BY <1>2, <1>4, <1>5, <1>9, RestSwept
  <1>11. PICK t \in Seq(Tokens), i \in Seq(Tokens), ss \in Seq(Tokens) :
             t = SubSeq(args, p, Len(args)) /\ i = <<"-i", url>> /\ ss = <<"-ss", at>> /\ t = i \o tail
    <2>1. <<"-i", url>> \in Seq(Tokens) /\ <<"-ss", at>> \in Seq(Tokens)
      BY TokenSet, ShortSequences
    <2>2. <<"-i", url>> \o tail \in Seq(Tokens)
      BY <2>1, ConcatProperties
    <2> QED
      BY <1>3, <2>1, <2>2
  <1>12. InjectSeek(args, at) = (strip \o ss) \o t
    <2>1. PICK c, o, k : c = Cleaning(args)[Len(args)] /\ o = strip \o t /\ k = Len(strip) + 1
      OBVIOUS
    <2>2. c.out = o /\ c.input = k
      <3>1. c = Swept(o, k, FALSE)
        BY <1>10, <1>11, <2>1
      <3> QED
        BY <3>1 DEF Swept
    <2>3. Len(strip) \in Nat /\ k # 0 /\ k - 1 = Len(strip)
      BY <2>1, LenProperties
    <2>4. InjectSeek(args, at) = (SubSeq(o, 1, k - 1) \o ss) \o SubSeq(o, k, Len(o))
      BY <1>11, <2>1, <2>2, <2>3 DEF InjectSeek
    <2>5. SubSeq(o, 1, Len(strip)) = strip /\ SubSeq(o, Len(strip) + 1, Len(o)) = t
      BY <2>1, Parts
    <2> QED
      BY <2>1, <2>3, <2>4, <2>5
  <1>13. PICK sought \in Seq(Tokens) : sought = strip \o ss
    BY ConcatProperties
  <1>14. PICK pair \in Opt : pair = <<"-ss", at>>
    BY TokenSet DEF Opt
  <1>15. Append(W, pair) = W \o <<pair>> /\ Append(W, pair) \in Seq(Opt)
    BY AppendIsConcat, AppendProperties
  <1>16. Meaning(sought) = Understood(<<>>, <<>>, Append(W, pair), "none")
    <2>1. Spells(ss, <<pair>>)
      BY <1>11, <1>14, TokenSet, SpellsOption
    <2>2. PICK e \in Seq(File) : e = <<>>
      BY ShortSequences
    <2>3. Meaning(strip) = Understood(e, e, W, "none")
      BY <1>9, <2>2
    <2>4. Meaning(strip \o ss) = Understood(e, e, W \o <<pair>>, "none")
      BY <2>1, <2>3 DEF Spells
    <2> QED
      BY <1>13, <1>15, <2>2, <2>4
  <1>17. PICK a \in Seq(Tokens), b \in Seq(Tokens) : a = head \o i /\ b = sought \o i
    BY ConcatProperties
  <1>18. PICK f \in File, g \in File : f = FileOf(r, url) /\ g = FileOf(Append(W, pair), url)
    BY <1>15, FileOfIs
  <1>19. Meaning(a) = Understood(<<f>>, <<>>, <<>>, "none")
    <2>1. Meaning(head \o <<"-i", url>>) = Understood(<<FileOf(r, url)>>, <<>>, <<>>, "none")
      BY <1>3, InputNamed
    <2> QED
      BY <1>11, <1>17, <1>18, <2>1
  <1>20. Meaning(b) = Understood(<<g>>, <<>>, <<>>, "none")
    <2>1. PICK o \in Seq(Opt) : o = Append(W, pair)
      BY <1>15
    <2>2. Meaning(sought) = Understood(<<>>, <<>>, o, "none")
      BY <1>16, <2>1
    <2>3. Meaning(sought \o <<"-i", url>>) = Understood(<<FileOf(o, url)>>, <<>>, <<>>, "none")
      BY <2>2, InputNamed
    <2> QED
      BY <1>11, <1>17, <1>18, <2>1, <2>3
  <1>21. args = a \o tail
    BY <1>3, <1>11, <1>17
  <1>22. InjectSeek(args, at) = b \o tail
    <2>1. Joins(i, tail, t)
      BY <1>11 DEF Joins
    <2>2. Joins(sought, i, b)
      BY <1>17 DEF Joins
    <2>3. PICK line : line = sought \o t
      OBVIOUS
    <2>4. Joins(sought, t, line)
      BY <2>3 DEF Joins
    <2>5. Joins(b, tail, line)
      BY <2>1, <2>2, <2>4, ThreeParts
    <2>6. line = b \o tail
      BY <2>5 DEF Joins
    <2> QED
      BY <1>12, <1>13, <2>3, <2>6
  <1>23. PICK more \in Seq(File), O \in Seq(File), q \in Seq(Opt), n \in Options \cup {"none"} :
             /\ Meaning(a \o tail) = Understood(<<f>> \o more, O, q, n)
             /\ Meaning(b \o tail) = Understood(<<g>> \o more, O, q, n)
    <2>1. Alike(Meaning(a \o tail), Meaning(b \o tail), f, g)
      BY <1>19, <1>20, ReadBehind
    <2> QED
      BY <2>1 DEF Alike
  <1>24. Meaning(args) = Understood(<<FileOf(r, url)>> \o more, O, q, n)
    BY <1>18, <1>21, <1>23
  <1>25. Meaning(InjectSeek(args, at)) =
             Understood(<<FileOf(Append(Without(r, "-ss"), <<"-ss", at>>), url)>> \o more, O, q, n)
    BY <1>8, <1>14, <1>18, <1>22, <1>23
  <1>27. InjectSeek(args, at) \in Seq(Tokens)
    BY <1>22, ConcatProperties
  <1> QED
    BY <1>24, <1>25, <1>27

\* Its first element, and the others.
LEMMA FirstAndRest ==
    ASSUME NEW E, NEW f \in E, NEW s \in Seq(E)
    PROVE  (<<f>> \o s)[1] = f /\ Tail(<<f>> \o s) = s
  <1>1. (<<f>> \o s)[1] = f
    OBVIOUS
  <1>2. Tail(<<f>> \o s) = s
    OBVIOUS
  <1> QED
    BY <1>1, <1>2

\* With other options, and with other inputs.
With(file, opts) == [file EXCEPT !.opts = opts]

\* A file with other options.
LEMMA OptsReplaced ==
    ASSUME NEW r, NEW url, NEW opts
    PROVE  With(FileOf(r, url), opts) = FileOf(opts, url)
  BY DEF FileOf, With

\* An understanding with other inputs.
LEMMA InputsReplaced ==
    ASSUME NEW I, NEW O, NEW q, NEW n, NEW J
    PROVE  [Understood(I, O, q, n) EXCEPT !.inputs = J] = Understood(J, O, q, n)
  BY DEF Understood

\* The line with the seek put in means what the property says.
Sought(own, at) ==
    LET first == own.inputs[1]
        opts == Append(Without(first.opts, "-ss"), <<"-ss", at>>)
    IN  [own EXCEPT !.inputs = <<[first EXCEPT !.opts = opts]>> \o Tail(@)]

\* inject_seek: the line means what it did, its first input with all its seeks replaced by one.
LEMMA ShellSeeks ==
    ASSUME NEW args \in Seq(Tokens), Usage(args), NEW own, own = Meaning(args), own.inputs # <<>>,
           NEW at \in Tokens
    PROVE  /\ InjectSeek(args, at) \in Seq(Tokens)
           /\ Meaning(InjectSeek(args, at)) = Sought(own, at)
  <1>12. PICK first : first = own.inputs[1]
    OBVIOUS
  <1>13. PICK opts : opts = Append(Without(first.opts, "-ss"), <<"-ss", at>>)
    OBVIOUS
  <1>1. PICK r \in Seq(Opt), url \in Tokens, more \in Seq(File), O \in Seq(File), q \in Seq(Opt),
             n \in Options \cup {"none"} :
            /\ Meaning(args) = Understood(<<FileOf(r, url)>> \o more, O, q, n)
            /\ Meaning(InjectSeek(args, at)) =
                   Understood(<<FileOf(Append(Without(r, "-ss"), <<"-ss", at>>), url)>> \o more, O, q, n)
    BY SeekReplaced
  <1>2. PICK f \in File : f = FileOf(r, url)
    BY FileOfIs
  <1>3. PICK I \in Seq(File) : I = <<f>> \o more /\ I[1] = f /\ Tail(I) = more
    <2>1. <<f>> \in Seq(File)
      BY ShortSequences
    <2>2. <<f>> \o more \in Seq(File)
      BY <2>1, ConcatProperties
    <2> QED
      BY <2>2, FirstAndRest
  <1>4. own = [inputs |-> I, outputs |-> O, rest |-> q, name |-> n]
    BY <1>1, <1>2, <1>3 DEF Understood
  <1>5. first = f /\ f.opts = r
    <2>1. own.inputs = I
      BY <1>4
    <2> QED
      BY <1>2, <1>3, <1>12, <2>1 DEF FileOf
  <1>6. [first EXCEPT !.opts = opts] = FileOf(opts, url)
    <2>1. With(FileOf(r, url), opts) = FileOf(opts, url)
      BY OptsReplaced
    <2>2. With(first, opts) = FileOf(opts, url)
      BY <1>2, <1>5, <2>1
    <2> QED
      BY <2>2, Zenon DEF With
  <1>7. Meaning(InjectSeek(args, at)) = Understood(<<FileOf(opts, url)>> \o more, O, q, n)
    BY <1>1, <1>5, <1>13
  <1>8. PICK g, J : g = FileOf(opts, url) /\ J = <<g>> \o more
    OBVIOUS
  <1>9. [own EXCEPT !.inputs = <<g>> \o Tail(@)] = Understood(J, O, q, n)
    <2>1. [own EXCEPT !.inputs = <<g>> \o Tail(@)] = [own EXCEPT !.inputs = <<g>> \o Tail(own.inputs)]
      BY <1>4
    <2>2. own.inputs = I
      BY <1>4
    <2>3. <<g>> \o Tail(own.inputs) = J
      BY <1>3, <1>8, <2>2
    <2>4. own = Understood(I, O, q, n)
      BY <1>1, <1>2, <1>3
    <2>5. [own EXCEPT !.inputs = J] = Understood(J, O, q, n)
      BY <2>4, InputsReplaced
    <2> QED
      BY <2>1, <2>3, <2>5
  <1>10. InjectSeek(args, at) \in Seq(Tokens)
    BY SeekReplaced
  <1>11. Meaning(InjectSeek(args, at)) = Understood(J, O, q, n)
    BY <1>7, <1>8
  <1>14. Sought(own, at) = [own EXCEPT !.inputs = <<[first EXCEPT !.opts = opts]>> \o Tail(@)]
    BY <1>12, <1>13, Zenon DEF Sought
  <1>15. Sought(own, at) = [own EXCEPT !.inputs = <<g>> \o Tail(@)]
    BY <1>6, <1>8, <1>14, Zenon
  <1> QED
    BY <1>9, <1>10, <1>11, <1>15

----------------------------------------------------------------------------
(* What options tell *)

\* The values that are given, one by one.
LEMMA GivenIs ==
    ASSUME NEW s \in Seq(Opt), NEW names
    PROVE  \A v : v \in Given(s, names) <=> \E i \in 1 .. Len(s) : s[i][1] \in names /\ v = s[i][2]
  <1>1. DOMAIN s = 1 .. Len(s)
    BY LenProperties
  <1> QED
    BY <1>1 DEF Given

\* Of options that are joined, all values are given.
LEMMA GivenBoth ==
    ASSUME NEW s \in Seq(Opt), NEW t \in Seq(Opt), NEW names
    PROVE  Given(s \o t, names) = Given(s, names) \cup Given(t, names)
  <1>1. PICK u \in Seq(Opt) : u = s \o t
    BY ConcatProperties
  <1>2. /\ Len(s) \in Nat /\ Len(t) \in Nat /\ Len(u) = Len(s) + Len(t)
        /\ \A i \in 1 .. Len(s) + Len(t) : u[i] = IF i <= Len(s) THEN s[i] ELSE t[i - Len(s)]
    BY <1>1, ConcatProperties, LenProperties
  <1>3. \A i \in 1 .. Len(s) : i \in 1 .. Len(u) /\ u[i] = s[i]
    BY <1>2
  <1>4. ASSUME NEW i \in 1 .. Len(t)
        PROVE  \E j \in 1 .. Len(u) : u[j] = t[i]
    <2>1. PICK j \in 1 .. Len(u) : j = Len(s) + i
      BY <1>2
    <2>2. ~(j <= Len(s)) /\ j - Len(s) = i /\ j \in 1 .. Len(s) + Len(t)
      BY <1>2, <2>1
    <2> QED
      BY <1>2, <2>2
  <1>5. \A i \in 1 .. Len(u) : \/ i \in 1 .. Len(s) /\ u[i] = s[i]
                               \/ \E j \in 1 .. Len(t) : u[i] = t[j]
    BY <1>2
  <1>6. ASSUME NEW v
        PROVE  v \in Given(u, names) <=> v \in Given(s, names) \/ v \in Given(t, names)
    <2>1. v \in Given(u, names) <=> \E i \in 1 .. Len(u) : u[i][1] \in names /\ v = u[i][2]
      BY GivenIs
    <2>2. v \in Given(s, names) <=> \E i \in 1 .. Len(s) : s[i][1] \in names /\ v = s[i][2]
      BY GivenIs
    <2>3. v \in Given(t, names) <=> \E i \in 1 .. Len(t) : t[i][1] \in names /\ v = t[i][2]
      BY GivenIs
    <2>4. ASSUME v \in Given(u, names)
          PROVE  v \in Given(s, names) \/ v \in Given(t, names)
      <3>1. PICK i \in 1 .. Len(u) : u[i][1] \in names /\ v = u[i][2]
        BY <2>1, <2>4
      <3> QED
        BY <1>5, <2>2, <2>3, <3>1
    <2>5. ASSUME v \in Given(s, names)
          PROVE  v \in Given(u, names)
      BY <1>3, <2>1, <2>2, <2>5
    <2>6. ASSUME v \in Given(t, names)
          PROVE  v \in Given(u, names)
      <3>1. PICK i \in 1 .. Len(t) : t[i][1] \in names /\ v = t[i][2]
        BY <2>3, <2>6
      <3> QED
        BY <1>4, <2>1, <3>1
    <2> QED
      BY <2>4, <2>5, <2>6
  <1>7. Given(u, names) = Given(s, names) \cup Given(t, names)
    BY <1>6
  <1> QED
    BY <1>1, <1>7

\* The one value of one option.
LEMMA GivenOne ==
    ASSUME NEW o \in Options, NEW v \in Tokens, NEW names
    PROVE  Given(<<<<o, v>>>>, names) = IF o \in names THEN {v} ELSE {}
  <1>5. PICK pair \in Opt : pair = <<o, v>>
    BY DEF Opt
  <1>1. pair = <<o, v>> /\ pair[1] = o /\ pair[2] = v
    BY <1>5
  <1>6. PICK s \in Seq(Opt) : s = <<pair>>
    BY ShortSequences
  <1>2. s = <<pair>> /\ Len(s) = 1 /\ s[1] = pair
    BY <1>6
  <1>3. \A x : x \in Given(s, names) <=> o \in names /\ x = v
    <2>1. \A x : x \in Given(s, names) <=> \E i \in 1 .. Len(s) : s[i][1] \in names /\ x = s[i][2]
      BY GivenIs
    <2> QED
      BY <1>1, <1>2, <2>1
  <1>4. Given(s, names) = IF o \in names THEN {v} ELSE {}
    BY <1>3
  <1> QED
    BY <1>1, <1>2, <1>4

\* No option gives no value.
LEMMA GivenNone ==
    ASSUME NEW names
    PROVE  Given(<<>>, names) = {}
  <1>3. PICK s \in Seq(Opt) : s = <<>>
    BY ShortSequences
  <1>1. s = <<>> /\ Len(s) = 0
    BY <1>3
  <1>2. \A x : x \notin Given(s, names)
    <2>1. \A x : x \in Given(s, names) <=> \E i \in 1 .. Len(s) : s[i][1] \in names /\ x = s[i][2]
      BY GivenIs
    <2> QED
      BY <1>1, <2>1
  <1> QED
    BY <1>1, <1>2

----------------------------------------------------------------------------
(* The line of a file or URL *)

\* Tokens that name options, and what these tell of some names.
Says(w, names, values) == \E ps : Spells(w, ps) /\ Given(ps, names) = values

\* No tokens give no value.
LEMMA SaysNothing ==
    ASSUME NEW names
    PROVE  Says(<<>>, names, {})
  BY SpellsNothing, GivenNone DEF Says

\* An option that is not asked for gives none.
LEMMA SaysOption ==
    ASSUME NEW o \in Options, o # "-i", NEW v \in Tokens, NEW names, o \notin names
    PROVE  Says(<<o, v>>, names, {})
  <1>1. Spells(<<o, v>>, <<<<o, v>>>>)
    BY SpellsOption
  <1>2. Given(<<<<o, v>>>>, names) = {}
    BY GivenOne
  <1> QED
    BY <1>1, <1>2 DEF Says

\* One that is asked for gives its value.
LEMMA SaysValue ==
    ASSUME NEW o \in Options, o # "-i", NEW v \in Tokens, NEW names, o \in names
    PROVE  Says(<<o, v>>, names, {v})
  <1>1. Spells(<<o, v>>, <<<<o, v>>>>)
    BY SpellsOption
  <1>2. Given(<<<<o, v>>>>, names) = {v}
    BY GivenOne
  <1> QED
    BY <1>1, <1>2 DEF Says

\* Two parts of a line give the values of both.
LEMMA SaysBoth ==
    ASSUME NEW v, NEW w, NEW names, NEW V, NEW W, Says(v, names, V), Says(w, names, W)
    PROVE  Says(v \o w, names, V \cup W)
  <1>1. PICK ps : Spells(v, ps) /\ Given(ps, names) = V
    BY DEF Says
  <1>2. PICK qs : Spells(w, qs) /\ Given(qs, names) = W
    BY DEF Says
  <1>3. Spells(v \o w, ps \o qs)
    BY <1>1, <1>2, SpellsBoth
  <1>4. ps \in Seq(Opt) /\ qs \in Seq(Opt)
    BY <1>1, <1>2 DEF Spells
  <1>5. Given(ps \o qs, names) = V \cup W
    BY <1>1, <1>2, <1>4, GivenBoth
  <1> QED
    BY <1>3, <1>5 DEF Says

\* Two options that say nothing of some names.
LEMMA SaysTwo ==
    ASSUME NEW names, NEW o \in Options, o # "-i", o \notin names, NEW v \in Tokens,
           NEW p \in Options, p # "-i", p \notin names, NEW w \in Tokens
    PROVE  Says(<<o, v, p, w>>, names, {})
  <1>1. Says(<<o, v>>, names, {}) /\ Says(<<p, w>>, names, {})
    BY SaysOption
  <1>2. Says(<<o, v>> \o <<p, w>>, names, {} \cup {})
    BY <1>1, SaysBoth
  <1>3. <<o, v, p, w>> = <<o, v>> \o <<p, w>>
    OBVIOUS
  <1>4. {} \cup {} = {}
    OBVIOUS
  <1> QED
    BY <1>2, <1>3, <1>4

\* A line that begins with options.
LEMMA BeginsWith ==
    ASSUME NEW w, NEW ps, Spells(w, ps)
    PROVE  Meaning(w) = Understood(<<>>, <<>>, ps, "none")
  <1>1. w \in Seq(Tokens) /\ ps \in Seq(Opt)
    BY DEF Spells
  <1>2. PICK x \in Seq(Tokens) : x = <<>>
    BY ShortSequences
  <1>3. PICK e \in Seq(File) : e = <<>>
    BY ShortSequences
  <1>4. PICK r \in Seq(Opt) : r = <<>>
    BY ShortSequences
  <1>5. Meaning(x) = Understood(e, e, r, "none")
    BY <1>2, <1>3, <1>4, EmptyLine DEF Nothing
  <1>6. Meaning(x \o w) = Understood(e, e, r \o ps, "none")
    BY <1>5 DEF Spells
  <1>7. x \o w = w
    BY <1>1, <1>2, ConcatEmptySeq
  <1>8. r \o ps = ps
    BY <1>1, <1>4, ConcatEmptySeq
  <1> QED
    BY <1>3, <1>6, <1>7, <1>8

\* The sink ends it.
LEMMA SinkNamed ==
    ASSUME NEW x \in Seq(Tokens), NEW I \in Seq(File), NEW O \in Seq(File), NEW r \in Seq(Opt),
           Meaning(x) = Understood(I, O, r, "none")
    PROVE  Meaning(x \o <<"pipe:1">>) = Understood(I, Append(O, FileOf(r, "pipe:1")), <<>>, "none")
  <1>1. PICK sink \in Tokens : sink = "pipe:1" /\ sink \notin Options \cup Flags
    BY TokenSet
  <1>2. x \o <<sink>> = Append(x, sink)
    BY AppendIsConcat
  <1>3. Meaning(Append(x, sink)) = ReadToken(Understood(I, O, r, "none"), sink)
    BY ReadsOn
  <1>4. ReadToken(Understood(I, O, r, "none"), sink) = Understood(I, Append(O, FileOf(r, sink)), <<>>, "none")
    BY <1>1, ReadOutput
  <1> QED
    BY <1>1, <1>2, <1>3, <1>4

\* The tokens that the code itself writes.
LEMMA Literals ==
    /\ {"-c:a", "-acodec", "-c:v", "-vcodec", "-analyzeduration", "-probesize", "-err_detect", "-i", "-ss",
        "-f", "-ar", "-user_agent", "-map", "-deadline"} \subseteq Options
    /\ {"0", "64k", "ignore_err", "libopus", "48000", "ogg", "libvpx", "realtime", "ivf", "Mozilla", "0:a?",
        "0:v?"} \subseteq Tokens
  <1>1. AudioCodec \cup VideoCodec \cup ProbeNames
           \cup {"-i", "-ss", "-f", "-ar", "-user_agent", "-map", "-deadline"} \subseteq Options
    BY OptionsAssumption
  <1>2. {"pipe:1", "0", "64k", "ignore_err", "libopus", "48000", "ogg", "libvpx", "realtime", "ivf",
         "Mozilla", "0:a?", "0:v?"} \subseteq Tokens
    BY OptionsAssumption
  <1> QED
    BY <1>1, <1>2 DEF AudioCodec, VideoCodec, ProbeNames

\* What the line begins with says nothing of a seek.
LEMMA PrefixSays ==
    ASSUME NEW path
    PROVE  /\ Says(<<"-err_detect", "ignore_err">>, {"-ss"}, {})
           /\ Says(InputPrefix(path), {"-ss"}, {})
  <1>1. Says(<<"-err_detect", "ignore_err">>, {"-ss"}, {})
    <2>1. PICK o \in Options, v \in Tokens : o = "-err_detect" /\ v = "ignore_err"
      BY Literals
    <2>2. o # "-i" /\ o \notin {"-ss"}
      BY <2>1
    <2>3. Says(<<o, v>>, {"-ss"}, {})
      BY <2>2, SaysOption
    <2> QED
      BY <2>1, <2>3
  <1>2. Says(<<"-analyzeduration", "0", "-probesize", "64k">>, {"-ss"}, {})
    <2>1. PICK o \in Options, v \in Tokens : o = "-analyzeduration" /\ v = "0"
      BY Literals
    <2>2. PICK p \in Options, w \in Tokens : p = "-probesize" /\ w = "64k"
      BY Literals
    <2>3. o # "-i" /\ o \notin {"-ss"} /\ p # "-i" /\ p \notin {"-ss"}
      BY <2>1, <2>2
    <2>4. Says(<<o, v, p, w>>, {"-ss"}, {})
      BY <2>3, SaysTwo
    <2> QED
      BY <2>1, <2>2, <2>4
  <1>3. PICK agent : /\ agent = IF path = "url" THEN <<"-user_agent", "Mozilla">> ELSE <<>>
                     /\ Says(agent, {"-ss"}, {})
    <2>1. CASE path = "url"
      <3>1. PICK o \in Options, v \in Tokens : o = "-user_agent" /\ v = "Mozilla"
        BY Literals
      <3>2. o # "-i" /\ o \notin {"-ss"}
        BY <3>1
      <3>3. Says(<<o, v>>, {"-ss"}, {})
        BY <3>2, SaysOption
      <3> QED
        BY <2>1, <3>1, <3>3
    <2>2. CASE path # "url"
      BY <2>2, SaysNothing
    <2> QED
      BY <2>1, <2>2
  <1>4. {} \cup {} = {}
    OBVIOUS
  <1>5. InputPrefix(path) = agent \o <<"-analyzeduration", "0", "-probesize", "64k">>
    BY <1>3 DEF InputPrefix
  <1>6. Says(InputPrefix(path), {"-ss"}, {})
    <2>1. Says(agent \o <<"-analyzeduration", "0", "-probesize", "64k">>, {"-ss"}, {} \cup {})
      BY <1>2, <1>3, SaysBoth
    <2> QED
      BY <1>4, <1>5, <2>1
  <1> QED
    BY <1>1, <1>6

\* Neither does what its leg is encoded with.
LEMMA EncoderSays ==
    ASSUME NEW leg
    PROVE  Says(IF leg = "audio"
                THEN <<"-map", "0:a?", "-c:a", "libopus", "-ar", "48000", "-f", "ogg">>
                ELSE <<"-map", "0:v?", "-c:v", "libvpx", "-deadline", "realtime", "-f", "ivf">>, {"-ss"}, {})
  <1>1. ASSUME NEW o \in Options \ {"-i", "-ss"}, NEW v \in Tokens, NEW p \in Options \ {"-i", "-ss"}, NEW w \in Tokens,
               NEW q \in Options \ {"-i", "-ss"}, NEW x \in Tokens, NEW r \in Options \ {"-i", "-ss"}, NEW y \in Tokens
        PROVE  Says(<<o, v, p, w, q, x, r, y>>, {"-ss"}, {})
    <2>1. Says(<<o, v, p, w>>, {"-ss"}, {})
      BY SaysTwo
    <2>2. Says(<<q, x, r, y>>, {"-ss"}, {})
      BY SaysTwo
    <2>3. Says(<<o, v, p, w>> \o <<q, x, r, y>>, {"-ss"}, {} \cup {})
      BY <2>1, <2>2, SaysBoth
    <2>5. <<o, v, p, w, q, x, r, y>> = <<o, v, p, w>> \o <<q, x, r, y>>
      OBVIOUS
    <2>6. {} \cup {} = {}
      OBVIOUS
    <2> QED
      BY <2>3, <2>5, <2>6
  <1>2. /\ {"-map", "-c:a", "-ar", "-f", "-c:v", "-deadline"} \subseteq Options \ {"-i", "-ss"}
        /\ {"0:a?", "libopus", "48000", "ogg", "0:v?", "libvpx", "realtime", "ivf"} \subseteq Tokens
    BY Literals
  <1>3. Says(<<"-map", "0:a?", "-c:a", "libopus", "-ar", "48000", "-f", "ogg">>, {"-ss"}, {})
    BY <1>1, <1>2
  <1>4. Says(<<"-map", "0:v?", "-c:v", "libvpx", "-deadline", "realtime", "-f", "ivf">>, {"-ss"}, {})
    BY <1>1, <1>2
  <1> QED
    BY <1>3, <1>4

\* One input, read from its beginning, and one output, which starts at the offset.
Played(m, path, at) ==
    \E r \in Seq(Opt), q \in Seq(Opt) :
        /\ m = Understood(<<FileOf(r, path)>>, <<FileOf(q, "pipe:1")>>, <<>>, "none")
        /\ Given(r, {"-ss"}) = {}
        /\ Given(q, {"-ss"}) = IF at \in {"0", "below_ms"} THEN {} ELSE {at}

\* A line made for a path reads it without a seek, and seeks its output to the offset.
LEMMA PathSeeks ==
    ASSUME NEW path \in Tokens, NEW at \in Tokens, NEW leg
    PROVE  /\ TranscodeArgs(Input(path, at), leg) \in Seq(Tokens)
           /\ Played(Meaning(TranscodeArgs(Input(path, at), leg)), path, at)
  <1>1. PICK err, pre, i, ss, enc :
            /\ err = <<"-err_detect", "ignore_err">> /\ pre = InputPrefix(path) /\ i = <<"-i", path>>
            /\ ss = (IF at \in {"0", "below_ms"} THEN <<>> ELSE <<"-ss", at>>)
            /\ enc = (IF leg = "audio"
                      THEN <<"-map", "0:a?", "-c:a", "libopus", "-ar", "48000", "-f", "ogg">>
                      ELSE <<"-map", "0:v?", "-c:v", "libvpx", "-deadline", "realtime", "-f", "ivf">>)
    OBVIOUS
  <1>2. PICK r : Spells(err \o pre, r) /\ Given(r, {"-ss"}) = {}
    <2>1. Says(err, {"-ss"}, {}) /\ Says(pre, {"-ss"}, {})
      BY <1>1, PrefixSays
    <2>2. Says(err \o pre, {"-ss"}, {} \cup {})
      BY <2>1, SaysBoth
    <2>3. {} \cup {} = {}
      OBVIOUS
    <2> QED
      BY <2>2, <2>3 DEF Says
  <1>3. PICK start : start = IF at \in {"0", "below_ms"} THEN {} ELSE {at}
    OBVIOUS
  <1>4. Says(ss, {"-ss"}, start)
    <2>1. CASE at \in {"0", "below_ms"}
      BY <1>1, <1>3, <2>1, SaysNothing
    <2>2. CASE at \notin {"0", "below_ms"}
      <3>1. PICK o \in Options : o = "-ss" /\ o # "-i" /\ o \in {"-ss"}
        BY TokenSet
      <3>2. Says(<<o, at>>, {"-ss"}, {at})
        BY <3>1, SaysValue
      <3> QED
        BY <1>1, <1>3, <2>2, <3>1, <3>2
    <2> QED
      BY <2>1, <2>2
  <1>5. PICK s : Spells(ss, s) /\ Given(s, {"-ss"}) = start
    BY <1>4 DEF Says
  <1>6. PICK e : Spells(enc, e) /\ Given(e, {"-ss"}) = {}
    BY <1>1, EncoderSays DEF Says
  <1>7. r \in Seq(Opt) /\ s \in Seq(Opt) /\ e \in Seq(Opt) /\ ss \in Seq(Tokens) /\ enc \in Seq(Tokens)
    BY <1>2, <1>5, <1>6 DEF Spells
  <1>8. PICK q \in Seq(Opt) : q = s \o e
    BY <1>7, ConcatProperties
  <1>9. Given(q, {"-ss"}) = start
    <2>1. Given(s \o e, {"-ss"}) = Given(s, {"-ss"}) \cup Given(e, {"-ss"})
      BY <1>7, GivenBoth
    <2>2. start \cup {} = start
      OBVIOUS
    <2> QED
      BY <1>5, <1>6, <1>8, <2>1, <2>2
  <1>10. PICK head \in Seq(Tokens) : head = err \o pre /\ Meaning(head) = Understood(<<>>, <<>>, r, "none")
    <2>1. err \o pre \in Seq(Tokens)
      BY <1>2 DEF Spells
    <2>2. Meaning(err \o pre) = Understood(<<>>, <<>>, r, "none")
      BY <1>2, BeginsWith
    <2> QED
      BY <2>1, <2>2
  <1>11. PICK body \in Seq(Tokens) : /\ body = head \o i
                                     /\ Meaning(body) = Understood(<<FileOf(r, path)>>, <<>>, <<>>, "none")
    BY <1>1, <1>7, <1>10, InputNamed
  <1>12. Spells(ss \o enc, q)
    BY <1>5, <1>6, <1>8, SpellsBoth
  <1>13. PICK all \in Seq(Tokens) : /\ all = body \o (ss \o enc)
                                    /\ Meaning(all) = Understood(<<FileOf(r, path)>>, <<>>, q, "none")
    <2>1. FileOf(r, path) \in File
      BY <1>7, FileOfIs
    <2>2. PICK I \in Seq(File) : I = <<FileOf(r, path)>>
      BY <2>1, ShortSequences
    <2>3. PICK O \in Seq(File) : O = <<>>
      BY ShortSequences
    <2>4. PICK t \in Seq(Opt) : t = <<>>
      BY ShortSequences
    <2>5. Meaning(body) = Understood(I, O, t, "none")
      BY <1>11, <2>2, <2>3, <2>4
    <2>6. Meaning(body \o (ss \o enc)) = Understood(I, O, t \o q, "none")
      BY <1>12, <2>5 DEF Spells
    <2>7. t \o q = q
      BY <2>4, ConcatEmptySeq
    <2>8. body \o (ss \o enc) \in Seq(Tokens)
      BY <1>12, ConcatProperties DEF Spells
    <2> QED
      BY <2>2, <2>3, <2>6, <2>7, <2>8
  <1>14. Meaning(all \o <<"pipe:1">>) =
             Understood(<<FileOf(r, path)>>, <<FileOf(q, "pipe:1")>>, <<>>, "none")
    <2>1. FileOf(r, path) \in File
      BY <1>7, FileOfIs
    <2>2. PICK I \in Seq(File) : I = <<FileOf(r, path)>>
      BY <2>1, ShortSequences
    <2>3. PICK O \in Seq(File) : O = <<>>
      BY ShortSequences
    <2>4. Meaning(all \o <<"pipe:1">>) = Understood(I, Append(O, FileOf(q, "pipe:1")), <<>>, "none")
      <3>1. Meaning(all) = Understood(I, O, q, "none") /\ q \in Seq(Opt)
        BY <1>12, <1>13, <2>2, <2>3 DEF Spells
      <3> QED
        BY <3>1, SinkNamed
    <2>5. Append(O, FileOf(q, "pipe:1")) = <<FileOf(q, "pipe:1")>>
      BY <2>3
    <2> QED
      BY <2>2, <2>4, <2>5
  <1>15. TranscodeArgs(Input(path, at), leg) = all \o <<"pipe:1">>
    <2>1. PICK input : input = Input(path, at) /\ input = (pre \o i) \o ss
      BY <1>1 DEF Input
    <2>2. TranscodeArgs(input, leg) = ((err \o input) \o enc) \o <<"pipe:1">>
      BY <1>1 DEF TranscodeArgs
    <2>4. err \o ((pre \o i) \o ss) = ((err \o pre) \o i) \o ss
      OBVIOUS
    <2>5. (body \o ss) \o enc = body \o (ss \o enc)
      OBVIOUS
    <2> QED
      BY <1>10, <1>11, <1>13, <2>1, <2>2, <2>4, <2>5
  <1>16. all \o <<"pipe:1">> \in Seq(Tokens)
    <2>1. <<"pipe:1">> \in Seq(Tokens)
      BY TokenSet, ShortSequences
    <2> QED
      BY <2>1, ConcatProperties
  <1> QED
    BY <1>2, <1>3, <1>7, <1>9, <1>14, <1>15, <1>16 DEF Played

----------------------------------------------------------------------------
(* Opening a source *)

\* The arguments of the process of leg l, once the source is opened.
Line(l) ==
    IF source.kind = "transcode" THEN TranscodeArgs(Input(source.line["audio"][1], offset), l)
    ELSE IF filled THEN EnsureFlags(Args(source.line[l]), l)
    ELSE IF offset = "0" THEN Args(source.line[l])
    ELSE InjectSeek(Args(source.line[l]), offset)

\* A leg that is not refused.
MayRun(l) ==
    /\ filled => ~IsRaw(Args(source.line[l]), l)
    /\ source.kind = "transcode" => source.line["audio"] # NoLine

Spawns == {<<l, Line(l)>> : l \in {k \in Legs : MayRun(k)}}

SourceInv ==
    /\ source \in Sources /\ offset \in Tokens
    /\ filled => source.kind # "transcode" /\ offset = "0"
    /\ result = "none" => pending = <<>> /\ children = [l \in Legs |-> NoLine]
    /\ pending \in Seq(Spawns)
    /\ DOMAIN children = Legs
    /\ \A l \in Legs : children[l] # NoLine => MayRun(l) /\ children[l] = <<"ffmpeg">> \o Line(l)

\* What SourcesAssumption says of one source.
LEMMA SourceIs ==
    ASSUME NEW s \in Sources
    PROVE  /\ s.kind \in {"shell", "shells", "transcode"}
           /\ s.line \in [Legs -> Seq(Tokens)]
           /\ s.kind # "transcode" => \A l \in Legs : Usage(Args(s.line[l]))
  BY SourcesAssumption

\* A line without its binary is a line.
LEMMA ArgsIs ==
    ASSUME NEW line \in Seq(Tokens)
    PROVE  Args(line) \in Seq(Tokens)
  BY HeadTailProperties, ShortSequences DEF Args, NoLine

\* The legs to spawn come with the lines they were given.
LEMMA InOrderIs ==
    ASSUME NEW legs, NEW line, NEW S, \A l \in Legs : l \in legs => <<l, line[l]>> \in S
    PROVE  InOrder(legs, line) \in Seq(S)
  <1>1. PICK a \in Seq(S) : a = IF "audio" \in legs THEN <<<<"audio", line["audio"]>>>> ELSE <<>>
    BY ShortSequences DEF Legs
  <1>2. PICK v \in Seq(S) : v = IF "video" \in legs THEN <<<<"video", line["video"]>>>> ELSE <<>>
    BY ShortSequences DEF Legs
  <1>3. a \o v \in Seq(S)
    BY ConcatProperties
  <1> QED
    BY <1>1, <1>2, <1>3 DEF InOrder

\* What Start is given are legs that may run, with their lines.
LEMMA Started ==
    ASSUME SourceInv, result = "none", NEW at \in Tokens, NEW fill \in BOOLEAN, NEW spawns,
           Start(at, fill, spawns), fill => source.kind # "transcode" /\ at = "0",
           spawns \in Seq(Spawns')
    PROVE  SourceInv'
  <1>1. source' = source /\ children' = children /\ offset' = at /\ filled' = fill /\ pending' = spawns
    BY DEF Start
  <1>2. result' # "none"
    BY DEF Start
  <1>3. (source \in Sources /\ offset \in Tokens)'
    BY <1>1 DEF SourceInv
  <1>4. (filled => source.kind # "transcode" /\ offset = "0")'
    BY <1>1
  <1>5. (pending \in Seq(Spawns))'
    BY <1>1
  <1>6. children = [l \in Legs |-> NoLine]
    BY DEF SourceInv
  <1>7. /\ (DOMAIN children = Legs)'
        /\ (\A l \in Legs : children[l] # NoLine => MayRun(l) /\ children[l] = <<"ffmpeg">> \o Line(l))'
    BY <1>1, <1>6
  <1> QED
    BY <1>2, <1>3, <1>4, <1>5, <1>7 DEF SourceInv

\* An open that is refused spawns nothing.
LEMMA Refused ==
    ASSUME SourceInv, NEW error, error # "none", Refuse(error)
    PROVE  SourceInv'
  <1>1. UNCHANGED <<source, filled, offset, pending, children>> /\ result' # "none"
    BY DEF Refuse
  <1>2. ASSUME NEW l \in Legs
        PROVE  Line(l)' = Line(l) /\ MayRun(l)' = MayRun(l)
    BY <1>1 DEF Line, MayRun
  <1>3. Spawns' = Spawns
    BY <1>2 DEF Spawns
  <1> QED
    BY <1>1, <1>2, <1>3 DEF SourceInv

\* from_shell spawns its leg with the line filled in, if it is not raw.
LEMMA FromShellInv ==
    ASSUME SourceInv, FromShell
    PROVE  SourceInv'
  <1>5. PICK l \in Legs : l = OnlyLeg
    BY DEF OnlyLeg, Legs
  <1>6. PICK args : args = Args(source.line[l])
    OBVIOUS
  <1>1. l = OnlyLeg /\ args = Args(source.line[l])
    BY <1>5, <1>6
  <1>2. result = "none" /\ source.kind = "shell"
    BY DEF FromShell
  <1>3. \/ Refuse("FFmpegSpawn") \/ Refuse("InvalidParams")
        \/ l \in Commanded /\ ~IsRaw(args, l) /\ Start("0", TRUE, <<<<l, EnsureFlags(args, l)>>>>)
    BY <1>1 DEF FromShell
  <1>4. ASSUME ~IsRaw(args, l), Start("0", TRUE, <<<<l, EnsureFlags(args, l)>>>>)
        PROVE  SourceInv'
    <2>1. source' = source /\ filled' = TRUE
      BY <1>4 DEF Start
    <2>2. Line(l)' = EnsureFlags(args, l) /\ MayRun(l)'
      BY <1>1, <1>2, <1>4, <2>1 DEF Line, MayRun
    <2>3. PICK x : x = <<l, EnsureFlags(args, l)>>
      OBVIOUS
    <2>4. x \in Spawns'
      BY <2>2, <2>3 DEF Spawns
    <2>5. <<x>> \in Seq(Spawns')
      BY <2>4, ShortSequences
    <2>6. "0" \in Tokens
      BY Literals
    <2> QED
      BY <1>2, <1>4, <2>3, <2>5, <2>6, Started
  <1> QED
    BY <1>3, <1>4, Refused

\* from_shells spawns the legs that have a line, filled in, if none of them is raw.
LEMMA FromShellsInv ==
    ASSUME SourceInv, FromShells
    PROVE  SourceInv'
  <1>1. result = "none" /\ source.kind = "shells"
    BY DEF FromShells
  <1>2. PICK line : line = [l \in Legs |-> EnsureFlags(Args(source.line[l]), l)]
    OBVIOUS
  <1>3. \/ Refuse("InvalidParams")
        \/ /\ ~\E l \in Commanded : IsRaw(Args(source.line[l]), l)
           /\ Start("0", TRUE, InOrder(Commanded, line))
    BY <1>2 DEF FromShells
  <1>4. ASSUME ~\E l \in Commanded : IsRaw(Args(source.line[l]), l), Start("0", TRUE, InOrder(Commanded, line))
        PROVE  SourceInv'
    <2>1. source' = source /\ filled' = TRUE
      BY <1>4 DEF Start
    <2>2. ASSUME NEW l \in Legs, l \in Commanded
          PROVE  <<l, line[l]>> \in Spawns'
      <3>1. Line(l)' = EnsureFlags(Args(source.line[l]), l) /\ MayRun(l)'
        BY <1>1, <1>4, <2>1, <2>2 DEF Line, MayRun
      <3>2. line[l] = EnsureFlags(Args(source.line[l]), l)
        BY <1>2
      <3> QED
        BY <3>1, <3>2 DEF Spawns
    <2>3. InOrder(Commanded, line) \in Seq(Spawns')
      BY <2>2, InOrderIs
    <2>4. "0" \in Tokens
      BY Literals
    <2> QED
      BY <1>1, <1>4, <2>3, <2>4, Started
  <1> QED
    BY <1>3, <1>4, Refused

\* open_at spawns the caller's lines, with the seek if the offset is not 0.
LEMMA OpenShellInv ==
    ASSUME SourceInv, NEW at \in Offsets, OpenShellAt(at)
    PROVE  SourceInv'
  <1>1. result = "none" /\ source.kind # "transcode" /\ at \in Tokens
    BY SourcesAssumption DEF OpenShellAt
  <1>2. PICK line : line = [l \in Legs |-> IF at = "0" THEN Args(source.line[l])
                                           ELSE InjectSeek(Args(source.line[l]), at)]
    OBVIOUS
  <1>3. PICK legs : Start(at, FALSE, InOrder(legs, line))
    BY <1>2 DEF OpenShellAt
  <1>4. source' = source /\ filled' = FALSE /\ offset' = at
    BY <1>3 DEF Start
  <1>5. ASSUME NEW l \in Legs
        PROVE  <<l, line[l]>> \in Spawns'
    <2>1. Line(l)' = line[l] /\ MayRun(l)'
      BY <1>1, <1>2, <1>4 DEF Line, MayRun
    <2> QED
      BY <2>1 DEF Spawns
  <1>6. InOrder(legs, line) \in Seq(Spawns')
    BY <1>5, InOrderIs
  <1> QED
    BY <1>1, <1>3, <1>6, Started

\* open_at of a TranscodeSource spawns the lines made for its path.
LEMMA OpenPathInv ==
    ASSUME SourceInv, NEW at \in Offsets, OpenPathAt(at)
    PROVE  SourceInv'
  <1>1. result = "none" /\ source.kind = "transcode" /\ at \in Tokens
    BY SourcesAssumption DEF OpenPathAt
  <1>2. PICK line : line = [l \in Legs |-> TranscodeArgs(Input(source.line["audio"][1], at), l)]
    OBVIOUS
  <1>3. \/ Refuse("SeekUnsupported")
        \/ source.line["audio"] # NoLine /\ Start(at, FALSE, InOrder(EncodedTracks, line))
    BY <1>2 DEF OpenPathAt
  <1>4. ASSUME source.line["audio"] # NoLine, Start(at, FALSE, InOrder(EncodedTracks, line))
        PROVE  SourceInv'
    <2>1. source' = source /\ filled' = FALSE /\ offset' = at
      BY <1>4 DEF Start
    <2>2. ASSUME NEW l \in Legs
          PROVE  <<l, line[l]>> \in Spawns'
      <3>1. Line(l)' = line[l] /\ MayRun(l)'
        BY <1>1, <1>2, <1>4, <2>1 DEF Line, MayRun
      <3> QED
        BY <3>1 DEF Spawns
    <2>3. InOrder(EncodedTracks, line) \in Seq(Spawns')
      BY <2>2, InOrderIs
    <2> QED
      BY <1>1, <1>4, <2>3, Started
  <1> QED
    BY <1>3, <1>4, Refused

\* ShellReader::new takes the next leg with the line it was to have, or drops them all.
LEMMA SpawnInv ==
    ASSUME SourceInv, Spawn
    PROVE  SourceInv'
  <1>1. /\ UNCHANGED <<source, filled, offset>> /\ pending # <<>>
        /\ pending \in Seq(Spawns) /\ DOMAIN children = Legs
        /\ source \in Sources /\ offset \in Tokens
        /\ filled => source.kind # "transcode" /\ offset = "0"
    BY DEF Spawn, SourceInv
  <1>2. result' # "none"
    BY <1>1 DEF Spawn, SourceInv
  <1>3. ASSUME NEW l \in Legs
        PROVE  Line(l)' = Line(l) /\ MayRun(l)' = MayRun(l)
    BY <1>1 DEF Line, MayRun
  <1>4. Spawns' = Spawns
    BY <1>3 DEF Spawns
  <1>5. CASE /\ children' = [children EXCEPT ![Head(pending)[1]] = <<"ffmpeg">> \o Head(pending)[2]]
             /\ pending' = Tail(pending)
    <2>1. Head(pending) \in Spawns /\ Tail(pending) \in Seq(Spawns)
      BY <1>1, HeadTailProperties
    <2>2. PICK l \in Legs : MayRun(l) /\ Head(pending) = <<l, Line(l)>>
      BY <2>1 DEF Spawns
    <2>3. children' = [children EXCEPT ![l] = <<"ffmpeg">> \o Line(l)]
      <3>1. PICK h, line : h = Head(pending) /\ line = Line(l)
        OBVIOUS
      <3>2. h = <<l, line>>
        BY <2>2, <3>1
      <3>3. h[1] = l /\ h[2] = line
        BY <3>2
      <3> QED
        BY <1>5, <3>1, <3>3
    <2>4. DOMAIN children' = Legs
      BY <1>1, <2>3
    <2>5. ASSUME NEW k \in Legs, children'[k] # NoLine
          PROVE  MayRun(k) /\ children'[k] = <<"ffmpeg">> \o Line(k)
      <3>1. CASE k = l
        BY <1>1, <2>2, <2>3, <3>1
      <3>2. CASE k # l
        <4>1. children'[k] = children[k]
          BY <1>1, <2>3, <3>2
        <4> QED
          BY <2>5, <4>1 DEF SourceInv
      <3> QED
        BY <3>1, <3>2
    <2>6. \A k \in Legs : children'[k] # NoLine => MayRun(k)' /\ children'[k] = <<"ffmpeg">> \o Line(k)'
      BY <1>3, <2>5
    <2>7. pending' \in Seq(Spawns')
      BY <1>4, <1>5, <2>1
    <2> QED
      BY <1>1, <1>2, <2>4, <2>6, <2>7 DEF SourceInv
  <1>6. CASE children' = [l \in Legs |-> NoLine] /\ pending' = <<>>
    <2>1. pending' \in Seq(Spawns')
      BY <1>6, ShortSequences
    <2> QED
      BY <1>1, <1>2, <1>6, <2>1 DEF SourceInv
  <1> QED
    BY <1>5, <1>6 DEF Spawn

\* Every process that runs was started with the one line the open has for its leg, and no leg that is
\* filled in is raw, in whatever order the legs are spawned and whichever of them fails (SourceInv).
THEOREM OpensByTheBook == SourceSpec => []SourceInv
  <1>1. SourceInit => SourceInv
    <2> SUFFICES ASSUME SourceInit
                 PROVE  SourceInv
      OBVIOUS
    <2>1. pending \in Seq(Spawns)
      BY ShortSequences DEF SourceInit
    <2>2. "0" \in Tokens
      BY Literals
    <2> QED
      BY <2>1, <2>2 DEF SourceInit, SourceInv
  <1>2. SourceInv /\ [SourceNext]_sourceVars => SourceInv'
    <2> SUFFICES ASSUME SourceInv, [SourceNext]_sourceVars
                 PROVE  SourceInv'
      OBVIOUS
    <2>1. CASE UNCHANGED sourceVars
      <3>1. UNCHANGED <<source, filled, offset, pending, children, result>>
        BY <2>1 DEF sourceVars
      <3>2. ASSUME NEW l \in Legs
            PROVE  Line(l)' = Line(l) /\ MayRun(l)' = MayRun(l)
        BY <3>1 DEF Line, MayRun
      <3>3. Spawns' = Spawns
        BY <3>2 DEF Spawns
      <3> QED
        BY <3>1, <3>2, <3>3 DEF SourceInv
    <2> QED
      BY <2>1, FromShellInv, FromShellsInv, OpenShellInv, OpenPathInv, SpawnInv DEF SourceNext
  <1> QED
    BY <1>1, <1>2, PTL DEF SourceSpec

\* What a process was started with is the binary and its line.
LEMMA ArgsOfLine ==
    ASSUME NEW args \in Seq(Tokens), NEW line, line = <<"ffmpeg">> \o args
    PROVE  Args(line) = args
  <1>1. args \in Seq(Tokens \cup {"ffmpeg"})
    BY ElementOfSeq, LenProperties
  <1>2. Tail(<<"ffmpeg">> \o args) = args
    BY <1>1, FirstAndRest
  <1>3. <<"ffmpeg">> \o args # <<>>
    OBVIOUS
  <1> QED
    BY <1>2, <1>3 DEF Args, NoLine

\* A leg that runs under its line seeks as SeekIsSole says.
LEMMA LineSeeks ==
    ASSUME SourceInv
    PROVE  SeekIsSole
  <1> SUFFICES ASSUME NEW l \in Running, NEW m, m = Meaning(Args(children[l])),
                      NEW own, own = Meaning(Args(source.line[l]))
               PROVE  CASE source.kind = "transcode" ->
                               /\ Given(m.inputs[1].opts, {"-ss"}) = {}
                               /\ Given(m.outputs[1].opts, {"-ss"}) =
                                      (IF offset \in {"0", "below_ms"} THEN {} ELSE {offset})
                        [] source.kind # "transcode" /\ offset # "0" /\ own.inputs # <<>> ->
                               m = Sought(own, offset)
                        [] OTHER -> TRUE
    BY Zenon DEF SeekIsSole, Sought
  <1>1. /\ source \in Sources /\ offset \in Tokens /\ l \in Legs
        /\ MayRun(l) /\ children[l] = <<"ffmpeg">> \o Line(l)
    BY DEF SourceInv, Running
  <1>2. ASSUME source.kind = "transcode"
        PROVE  /\ Given(m.inputs[1].opts, {"-ss"}) = {}
               /\ Given(m.outputs[1].opts, {"-ss"}) =
                      (IF offset \in {"0", "below_ms"} THEN {} ELSE {offset})
    <2>1. source.line["audio"] \in Seq(Tokens) /\ source.line["audio"] # <<>>
      BY <1>1, <1>2, SourceIs DEF Legs, MayRun, NoLine
    <2>2. PICK path \in Tokens : path = source.line["audio"][1]
      <3>1. 1 \in 1 .. Len(source.line["audio"])
        BY <2>1, EmptySeq
      <3> QED
        BY <2>1, <3>1, ElementOfSeq
    <2>9. PICK at \in Tokens : at = offset
      BY <1>1
    <2>3. PICK args : args = TranscodeArgs(Input(path, at), l)
      OBVIOUS
    <2>4. Line(l) = args
      BY <1>2, <2>2, <2>3, <2>9 DEF Line
    <2>5. args \in Seq(Tokens)
      BY <2>3, PathSeeks
    <2>6. m = Meaning(args)
      BY <1>1, <2>4, <2>5, ArgsOfLine
    <2>7. PICK r \in Seq(Opt), q \in Seq(Opt) :
              /\ m = Understood(<<FileOf(r, path)>>, <<FileOf(q, "pipe:1")>>, <<>>, "none")
              /\ Given(r, {"-ss"}) = {}
              /\ Given(q, {"-ss"}) = IF at \in {"0", "below_ms"} THEN {} ELSE {at}
      <3>1. Played(m, path, at)
        BY <2>3, <2>6, PathSeeks
      <3> QED
        BY <3>1 DEF Played
    <2>8. m.inputs[1].opts = r /\ m.outputs[1].opts = q
      BY <2>7 DEF Understood, FileOf
    <2> QED
      BY <2>7, <2>8, <2>9
  <1>3. ASSUME source.kind # "transcode", offset # "0", own.inputs # <<>>
        PROVE  m = Sought(own, offset)
    <2>1. PICK args \in Seq(Tokens) : args = Args(source.line[l]) /\ Usage(args)
      BY <1>1, <1>3, SourceIs, ArgsIs
    <2>2. ~filled
      BY <1>3 DEF SourceInv
    <2>3. PICK line : line = InjectSeek(args, offset)
      OBVIOUS
    <2>4. Line(l) = line
      BY <1>3, <2>1, <2>2, <2>3 DEF Line
    <2>5. line \in Seq(Tokens)
      BY <1>1, <1>3, <2>1, <2>3, SeekReplaced
    <2>6. m = Meaning(line)
      BY <1>1, <2>4, <2>5, ArgsOfLine
    <2> QED
      BY <1>1, <1>3, <2>1, <2>3, <2>6, ShellSeeks
  <1> QED
    BY <1>2, <1>3

\* A leg that is opened at an offset seeks there and nowhere else (SeekIsSole), whatever line the
\* caller wrote and whatever the path.
THEOREM SeeksOnce == SourceSpec => []SeekIsSole
  BY OpensByTheBook, LineSeeks, PTL

----------------------------------------------------------------------------
(* A line without its sink *)

\* Outputs that are no more than one, to pipe:1 under the options q.
EndsIn(O, q) == (O = <<>> /\ q = <<>>) \/ O = <<FileOf(q, "pipe:1")>>
Few(O) == \E q \in Seq(Opt) : EndsIn(O, q)

\* N is R with no output: the options of the one that R may have wait for another file.
Drained(R, N) ==
    \E I \in Seq(File), O \in Seq(File), q \in Seq(Opt), r \in Seq(Opt), n \in Options \cup {"none"} :
        R = Understood(I, O, r, n) /\ EndsIn(O, q) /\ N = Understood(I, <<>>, q \o r, n)

\* An option is put behind joined options.
LEMMA JoinOptsAppend == \A s, t \in Seq(Opt), x \in Opt : s \o Append(t, x) = Append(s \o t, x)
  BY JoinAppend

\* How the relation is shown.
LEMMA DrainedIs ==
    ASSUME NEW I \in Seq(File), NEW O \in Seq(File), NEW q \in Seq(Opt), NEW r \in Seq(Opt),
           NEW n \in Options \cup {"none"}, EndsIn(O, q), NEW e, e = <<>>, NEW qr, qr = q \o r
    PROVE  Drained(Understood(I, O, r, n), Understood(I, e, qr, n))
  BY DEF Drained

\* When an output is named and there are no more than one, it is the first, and pipe:1.
LEMMA FewAreOne ==
    ASSUME NEW O \in Seq(File), NEW r \in Seq(Opt), NEW token \in Tokens, Few(Append(O, FileOf(r, token)))
    PROVE  O = <<>> /\ token = "pipe:1"
  <1>1. PICK f \in File : f = FileOf(r, token)
    BY FileOfIs
  <1>2. PICK q \in Seq(Opt) : EndsIn(Append(O, f), q)
    BY <1>1 DEF Few
  <1>3. PICK g : g = FileOf(q, "pipe:1")
    OBVIOUS
  <1>4. Append(O, f) = <<g>>
    BY <1>2, <1>3 DEF EndsIn
  <1>5. Len(O) \in Nat /\ Len(Append(O, f)) = Len(O) + 1 /\ Append(O, f)[Len(O) + 1] = f
    BY AppendProperties, LenProperties
  <1>6. Len(<<g>>) = 1 /\ <<g>>[1] = g
    OBVIOUS
  <1>7. Len(O) = 0 /\ f = g
    <2>1. Len(O) + 1 = 1
      BY <1>4, <1>5, <1>6
    <2>2. Len(O) = 0
      BY <1>5, <2>1
    <2> QED
      BY <1>4, <1>5, <1>6, <2>1, <2>2
  <1>8. O = <<>>
    BY <1>7, EmptySeq
  <1>9. f.url = token /\ g.url = "pipe:1"
    BY <1>1, <1>3 DEF FileOf
  <1> QED
    BY <1>7, <1>8, <1>9

\* No output has no options.
LEMMA NoneAreNone ==
    ASSUME NEW q, EndsIn(<<>>, q)
    PROVE  q = <<>>
  <1>1. <<>> # <<FileOf(q, "pipe:1")>>
    OBVIOUS
  <1> QED
    BY <1>1 DEF EndsIn

\* One token more is read with and without the sink, and the readings differ as before.
LEMMA DrainedStep ==
    ASSUME NEW R \in Understanding, NEW N, Drained(R, N), NEW token \in Tokens,
           Few(ReadToken(R, token).outputs),
           R.name # "none" => token # "pipe:1", R.name = "-i" => R.outputs = <<>>
    PROVE  Drained(ReadToken(R, token), IF token = "pipe:1" THEN N ELSE ReadToken(N, token))
  <1>1. PICK I \in Seq(File), O \in Seq(File), q \in Seq(Opt), r \in Seq(Opt), n \in Options \cup {"none"} :
            R = Understood(I, O, r, n) /\ EndsIn(O, q) /\ N = Understood(I, <<>>, q \o r, n)
    BY DEF Drained
  <1>2. R.name = n /\ R.outputs = O
    BY <1>1 DEF Understood
  <1>3. PICK e \in Seq(File) : e = <<>>
    BY ShortSequences
  <1>4. PICK t \in Seq(Opt) : t = <<>>
    BY ShortSequences
  <1>5. PICK qr \in Seq(Opt) : qr = q \o r
    BY ConcatProperties
  <1>6. N = Understood(I, e, qr, n)
    BY <1>1, <1>3, <1>5
  <1>7. "pipe:1" \notin Options /\ "pipe:1" \notin Flags /\ "none" \notin Options /\ "none" \in Options \cup {"none"}
    BY TokenSet
  <1>8. ASSUME n = "-i"
        PROVE  Drained(ReadToken(R, token), IF token = "pipe:1" THEN N ELSE ReadToken(N, token))
    <2>1. token # "pipe:1" /\ O = e
      BY <1>2, <1>3, <1>8
    <2>2. q = t
      BY <1>1, <1>3, <1>4, <2>1, NoneAreNone
    <2>3. qr = r /\ t \o t = t
      BY <1>4, <1>5, <2>2, ConcatEmptySeq
    <2>4. PICK J \in Seq(File) : J = Append(I, FileOf(r, token))
      BY FileOfIs, AppendProperties
    <2>5. ReadToken(R, token) = Understood(J, e, t, "none")
      BY <1>1, <1>4, <1>8, <2>1, <2>4, ReadInput
    <2>6. ReadToken(N, token) = Understood(J, e, t, "none")
      BY <1>4, <1>6, <1>8, <2>3, <2>4, ReadInput
    <2>7. EndsIn(e, t)
      BY <1>3, <1>4 DEF EndsIn
    <2>8. Drained(Understood(J, e, t, "none"), Understood(J, e, t, "none"))
      BY <1>3, <1>7, <2>3, <2>7, DrainedIs
    <2> QED
      BY <2>1, <2>5, <2>6, <2>8
  <1>9. ASSUME n \notin {"none", "-i"}
        PROVE  Drained(ReadToken(R, token), IF token = "pipe:1" THEN N ELSE ReadToken(N, token))
    <2>1. token # "pipe:1" /\ n \in Options /\ n # "-i"
      BY <1>2, <1>9
    <2>2. PICK pair \in Opt : pair = <<n, token>>
      BY <2>1 DEF Opt
    <2>3. PICK s \in Seq(Opt) : s = Append(r, pair)
      BY AppendProperties
    <2>4. ReadToken(R, token) = Understood(I, O, s, "none")
      BY <1>1, <2>1, <2>2, <2>3, ReadValue
    <2>5. PICK qs : qs = Append(qr, pair)
      OBVIOUS
    <2>6. ReadToken(N, token) = Understood(I, e, qs, "none")
      BY <1>6, <2>1, <2>2, <2>5, ReadValue
    <2>7. qs = q \o s
      BY <1>5, <2>3, <2>5, JoinOptsAppend
    <2>8. Drained(Understood(I, O, s, "none"), Understood(I, e, qs, "none"))
      BY <1>1, <1>3, <1>7, <2>7, DrainedIs
    <2> QED
      BY <2>1, <2>4, <2>6, <2>8
  <1>10. ASSUME n = "none", token \in Options
         PROVE  Drained(ReadToken(R, token), IF token = "pipe:1" THEN N ELSE ReadToken(N, token))
    <2>1. token # "pipe:1"
      BY <1>7, <1>10
    <2>2. ReadToken(R, token) = Understood(I, O, r, token)
      BY <1>1, <1>10, ReadOption
    <2>3. ReadToken(N, token) = Understood(I, e, qr, token)
      BY <1>6, <1>10, ReadOption
    <2>4. Drained(Understood(I, O, r, token), Understood(I, e, qr, token))
      BY <1>1, <1>3, <1>5, <1>10, DrainedIs
    <2> QED
      BY <2>1, <2>2, <2>3, <2>4
  <1>11. ASSUME n = "none", token \in Flags
         PROVE  Drained(ReadToken(R, token), IF token = "pipe:1" THEN N ELSE ReadToken(N, token))
    <2>1. token # "pipe:1"
      BY <1>7, <1>11
    <2>2. PICK single \in Opt : single = <<token>>
      BY <1>11 DEF Opt
    <2>3. PICK s \in Seq(Opt) : s = Append(r, single)
      BY AppendProperties
    <2>4. ReadToken(R, token) = Understood(I, O, s, "none")
      BY <1>1, <1>11, <2>2, <2>3, ReadFlag
    <2>5. PICK qs : qs = Append(qr, single)
      OBVIOUS
    <2>6. ReadToken(N, token) = Understood(I, e, qs, "none")
      BY <1>6, <1>11, <2>2, <2>5, ReadFlag
    <2>7. qs = q \o s
      BY <1>5, <2>3, <2>5, JoinOptsAppend
    <2>8. Drained(Understood(I, O, s, "none"), Understood(I, e, qs, "none"))
      BY <1>1, <1>3, <1>7, <2>7, DrainedIs
    <2> QED
      BY <2>1, <2>4, <2>6, <2>8
  <1>12. ASSUME n = "none", token \notin Options \cup Flags
         PROVE  Drained(ReadToken(R, token), IF token = "pipe:1" THEN N ELSE ReadToken(N, token))
    <2>1. PICK f \in File : f = FileOf(r, token)
      BY FileOfIs
    <2>2. ReadToken(R, token) = Understood(I, Append(O, f), t, "none")
      BY <1>1, <1>4, <1>12, <2>1, ReadOutput
    <2>3. ReadToken(R, token).outputs = Append(O, f)
      BY <2>2 DEF Understood
    <2>4. O = e /\ token = "pipe:1"
      BY <1>3, <2>1, <2>3, FewAreOne
    <2>5. q = t
      BY <1>1, <1>3, <1>4, <2>4, NoneAreNone
    <2>6. qr = r /\ r \o t = r
      BY <1>4, <1>5, <2>5, ConcatEmptySeq
    <2>7. PICK P \in Seq(File) : P = Append(O, f) /\ P = <<f>>
      <3>1. Append(O, f) = <<f>>
        BY <1>3, <2>4
      <3> QED
        BY <3>1, AppendProperties
    <2>8. EndsIn(P, r)
      BY <2>1, <2>4, <2>7 DEF EndsIn
    <2>9. Drained(Understood(I, P, t, "none"), Understood(I, e, r, "none"))
      BY <1>3, <1>7, <2>6, <2>8, DrainedIs
    <2> QED
      BY <1>6, <1>12, <2>2, <2>4, <2>6, <2>7, <2>9
  <1> QED
    BY <1>8, <1>9, <1>10, <1>11, <1>12

\* A line with few outputs had few before its last token.
LEMMA FewBefore ==
    ASSUME NEW m \in Understanding, NEW token \in Tokens, Few(ReadToken(m, token).outputs)
    PROVE  Few(m.outputs)
  <1>1. CASE ReadToken(m, token).outputs = m.outputs
    BY <1>1
  <1>2. CASE ReadToken(m, token).outputs # m.outputs
    <2>1. m.name = "none" /\ token \notin Options \cup Flags
      BY <1>2, AfterToken
    <2>2. PICK I \in Seq(File), O \in Seq(File), r \in Seq(Opt) : m = Understood(I, O, r, "none")
      BY <2>1 DEF Understanding, Understood
    <2>3. ReadToken(m, token) = Understood(I, Append(O, FileOf(r, token)), <<>>, "none")
      BY <2>1, <2>2, ReadOutput
    <2>4. Few(Append(O, FileOf(r, token)))
      BY <2>3 DEF Understood
    <2>5. O = <<>>
      BY <2>4, FewAreOne
    <2>6. EndsIn(O, <<>>) /\ <<>> \in Seq(Opt)
      BY <2>5, ShortSequences DEF EndsIn
    <2>7. m.outputs = O
      BY <2>2 DEF Understood
    <2> QED
      BY <2>6, <2>7 DEF Few
  <1> QED
    BY <1>1, <1>2

\* Where an input is to be named, no output has been.
LEMMA InputsAreFirst ==
    ASSUME NEW args \in Seq(Tokens), Usage(args), NEW n \in 0 .. Len(args), Reading(args)[n].name = "-i"
    PROVE  Reading(args)[n].outputs = <<>>
  <1>1. Len(args) \in Nat
    BY LenProperties
  <1>2. n # 0
    <2>1. Reading(args)[0].name = "none"
      BY ReadingIs DEF Nothing, Understood
    <2> QED
      BY <2>1
  <1>3. n \in 1 .. Len(args) /\ n - 1 \in 0 .. n - 1
    BY <1>1, <1>2
  <1>4. args[n] = "-i"
    BY <1>3, NameIs
  <1>5. Reading(args)[n - 1].outputs = <<>>
    BY <1>3, <1>4, OutputsAreLast
  <1>6. PICK m \in Understanding, token \in Tokens :
            /\ m = Reading(args)[n - 1] /\ token = args[n] /\ Reading(args)[n] = ReadToken(m, token)
    BY <1>3, ReadStep
  <1>7. ReadToken(m, token).outputs = m.outputs
    BY <1>4, <1>6, AfterToken, TokenSet
  <1> QED
    BY <1>5, <1>6, <1>7

\* NoSink leaves out pipe:1 and nothing else.
LEMMA SinkDropped ==
    ASSUME NEW s \in Seq(Tokens), NEW token \in Tokens
    PROVE  /\ NoSink(s) \in Seq(Tokens)
           /\ NoSink(Append(s, token)) = IF token = "pipe:1" THEN NoSink(s) ELSE Append(NoSink(s), token)
  <1>1. /\ Dropping(s, {"pipe:1"}) \in Seq(Tokens)
        /\ Dropping(Append(s, token), {"pipe:1"}) =
               IF token \in {"pipe:1"} THEN Dropping(s, {"pipe:1"}) ELSE Append(Dropping(s, {"pipe:1"}), token)
    BY DropsOn
  <1> QED
    BY <1>1 DEF NoSink

\* Without its sink, a line is read as it was, with the options of the sink left over.
LEMMA Drains ==
    ASSUME NEW args \in Seq(Tokens), Usage(args), Few(Meaning(args).outputs)
    PROVE  Drained(Meaning(args), Meaning(NoSink(args)))
  <1> DEFINE Done(n) == Drained(Reading(args)[n], Meaning(NoSink(SubSeq(args, 1, n))))
             S == {n \in 0 .. Len(args) : Few(Reading(args)[n].outputs) => Done(n)}
  <1>1. Len(args) \in Nat
    BY LenProperties
  <1>2. 0 \in S
    <2>1. SubSeq(args, 1, 0) = <<>>
      BY SubSeqEmpty
    <2>2. NoSink(<<>>) = <<>>
      BY DropsNone DEF NoSink
    <2>3. Reading(args)[0] = Nothing /\ Meaning(<<>>) = Nothing
      BY ReadingIs, EmptyLine
    <2>4. Drained(Nothing, Nothing)
      <3>1. PICK e \in Seq(File) : e = <<>>
        BY ShortSequences
      <3>2. PICK t \in Seq(Opt) : t = <<>>
        BY ShortSequences
      <3>3. EndsIn(e, t) /\ t = t \o t
        BY <3>1, <3>2, ConcatEmptySeq DEF EndsIn
      <3>4. Drained(Understood(e, e, t, "none"), Understood(e, e, t, "none"))
        BY <3>1, <3>3, DrainedIs
      <3> QED
        BY <3>1, <3>2, <3>4 DEF Nothing
    <2>5. Done(0)
      BY <2>1, <2>2, <2>3, <2>4
    <2> QED
      BY <1>1, <2>5
  <1>3. ASSUME NEW n \in 0 .. Len(args) - 1, n \in S
        PROVE  n + 1 \in S
    <2>1. PICK k \in 1 .. Len(args) : k = n + 1
      BY <1>1
    <2>2. k - 1 = n /\ 1 \in 1 .. Len(args) /\ k \in 0 .. Len(args) /\ n \in 0 .. Len(args)
      BY <1>1, <2>1
    <2>3. PICK m \in Understanding, token \in Tokens :
              m = Reading(args)[n] /\ token = args[k] /\ Reading(args)[k] = ReadToken(m, token)
      BY <2>2, ReadStep
    <2>4. ASSUME Few(Reading(args)[k].outputs)
          PROVE  Done(k)
      <3>1. Few(ReadToken(m, token).outputs)
        BY <2>3, <2>4
      <3>2. Few(m.outputs)
        BY <3>1, FewBefore
      <3>3. PICK s \in Seq(Tokens) : s = SubSeq(args, 1, n) /\ SubSeq(args, 1, k) = Append(s, token)
        BY <2>2, <2>3, SliceGrows
      <3>4. PICK N : N = Meaning(NoSink(s))
        OBVIOUS
      <3>5. Drained(m, N)
        BY <1>3, <2>3, <3>2, <3>3, <3>4
      <3>6. m.name # "none" => token # "pipe:1"
        BY <2>2, <2>3, NameIs
      <3>7. m.name = "-i" => m.outputs = <<>>
        BY <2>2, <2>3, InputsAreFirst
      <3>8. Drained(ReadToken(m, token), IF token = "pipe:1" THEN N ELSE ReadToken(N, token))
        BY <3>1, <3>5, <3>6, <3>7, DrainedStep
      <3>9. PICK d \in Seq(Tokens) : d = NoSink(s)
        BY SinkDropped
      <3>10. NoSink(Append(s, token)) = IF token = "pipe:1" THEN d ELSE Append(d, token)
        BY <3>9, SinkDropped
      <3>11. Meaning(Append(d, token)) = ReadToken(N, token)
        BY <3>4, <3>9, ReadsOn
      <3>12. Meaning(NoSink(Append(s, token))) = IF token = "pipe:1" THEN N ELSE ReadToken(N, token)
        BY <3>4, <3>9, <3>10, <3>11
      <3> QED
        BY <2>3, <3>3, <3>8, <3>12
    <2> HIDE DEF Done
    <2> QED
      BY <2>1, <2>2, <2>4
  <1>4. PICK n : n = Len(args)
    OBVIOUS
  <1>5. n \in S
    <2> HIDE DEF S
    <2>1. \A k \in 0 .. Len(args) : k \in S
      BY <1>1, <1>2, <1>3, UpTo
    <2> QED
      BY <1>1, <1>4, <2>1
  <1>6. SubSeq(args, 1, n) = args
    BY <1>1, <1>4, SubSeqFull
  <1>7. Reading(args)[n] = Meaning(args)
    BY <1>4 DEF Meaning
  <1> QED
    BY <1>5, <1>6, <1>7

----------------------------------------------------------------------------
(* What a line tells *)

Among(x, s) == \E j \in 1 .. Len(s) : s[j] = x
AmongFiles(x, F) == \E k \in 1 .. Len(F) : Among(x, F[k].opts)
Tells(m, x) == Among(x, m.rest) \/ AmongFiles(x, m.inputs) \/ AmongFiles(x, m.outputs)

\* One option more among the options.
LEMMA AmongAppend ==
    ASSUME NEW s \in Seq(Opt), NEW y \in Opt, NEW x
    PROVE  Among(x, Append(s, y)) <=> Among(x, s) \/ x = y
  <1>1. PICK t : t = Append(s, y)
    OBVIOUS
  <1>2. /\ Len(s) \in Nat /\ Len(t) = Len(s) + 1
        /\ \A i \in 1 .. Len(s) : t[i] = s[i]
        /\ t[Len(s) + 1] = y
    BY <1>1, AppendProperties, LenProperties
  <1>3. Among(x, t) <=> Among(x, s) \/ x = y
    BY <1>2 DEF Among
  <1> QED
    BY <1>1, <1>3

\* One file more, with its options.
LEMMA FilesAppend ==
    ASSUME NEW F \in Seq(File), NEW f \in File, NEW x
    PROVE  AmongFiles(x, Append(F, f)) <=> AmongFiles(x, F) \/ Among(x, f.opts)
  <1>1. PICK G : G = Append(F, f)
    OBVIOUS
  <1>2. /\ Len(F) \in Nat /\ Len(G) = Len(F) + 1
        /\ \A i \in 1 .. Len(F) : G[i] = F[i]
        /\ G[Len(F) + 1] = f
    BY <1>1, AppendProperties, LenProperties
  <1>3. AmongFiles(x, G) <=> AmongFiles(x, F) \/ Among(x, f.opts)
    BY <1>2 DEF AmongFiles
  <1> QED
    BY <1>1, <1>3

\* Among nothing is nothing.
LEMMA AmongNone ==
    ASSUME NEW x
    PROVE  ~Among(x, <<>>) /\ ~AmongFiles(x, <<>>)
  <1>1. Len(<<>>) = 0
    BY EmptySeq
  <1> QED
    BY <1>1 DEF Among, AmongFiles

\* An option is with a file or waits for one.
LEMMA TellsIs ==
    ASSUME NEW I, NEW O, NEW r, NEW n, NEW x
    PROVE  Tells(Understood(I, O, r, n), x) <=> Among(x, r) \/ AmongFiles(x, I) \/ AmongFiles(x, O)
  BY UnderstoodIs DEF Tells

\* A token tells an option exactly if it is the value the option waits for.
LEMMA TellsStep ==
    ASSUME NEW m \in Understanding, NEW token \in Tokens, NEW o \in Options, o # "-i", NEW v \in Tokens
    PROVE  Tells(ReadToken(m, token), <<o, v>>) <=> Tells(m, <<o, v>>) \/ (m.name = o /\ token = v)
  <1>1. PICK I \in Seq(File), O \in Seq(File), r \in Seq(Opt), n \in Options \cup {"none"} :
            m = Understood(I, O, r, n)
    BY DEF Understanding, Understood
  <1>2. m.name = n
    BY <1>1 DEF Understood
  <1>3. PICK x : x = <<o, v>>
    OBVIOUS
  <1>4. Tells(m, x) <=> Among(x, r) \/ AmongFiles(x, I) \/ AmongFiles(x, O)
    BY <1>1, TellsIs
  <1>5. o # "none"
    BY TokenSet
  <1>6. PICK f \in File : f = FileOf(r, token) /\ f.opts = r
    BY FileOfIs DEF FileOf
  <1>7. ~Among(x, <<>>)
    BY AmongNone
  <1>8. CASE n = "-i"
    <2>1. ReadToken(m, token) = Understood(Append(I, f), O, <<>>, "none")
      BY <1>1, <1>6, <1>8, ReadInput
    <2>2. AmongFiles(x, Append(I, f)) <=> AmongFiles(x, I) \/ Among(x, r)
      BY <1>6, FilesAppend
    <2>3. Tells(ReadToken(m, token), x) <=> Among(x, <<>>) \/ AmongFiles(x, Append(I, f)) \/ AmongFiles(x, O)
      BY <2>1, TellsIs
    <2> QED
      BY <1>2, <1>3, <1>4, <1>7, <1>8, <2>2, <2>3
  <1>9. CASE n \notin {"none", "-i"}
    <2>1. PICK pair \in Opt : pair = <<n, token>>
      BY <1>9 DEF Opt
    <2>2. ReadToken(m, token) = Understood(I, O, Append(r, pair), "none")
      BY <1>1, <1>9, <2>1, ReadValue
    <2>3. Among(x, Append(r, pair)) <=> Among(x, r) \/ x = pair
      BY AmongAppend
    <2>4. Tells(ReadToken(m, token), x) <=> Among(x, Append(r, pair)) \/ AmongFiles(x, I) \/ AmongFiles(x, O)
      BY <2>2, TellsIs
    <2>5. x = pair <=> n = o /\ token = v
      BY <1>3, <2>1
    <2> QED
      BY <1>2, <1>3, <1>4, <2>3, <2>4, <2>5
  <1>10. CASE n = "none" /\ token \in Options
    <2>1. ReadToken(m, token) = Understood(I, O, r, token)
      BY <1>1, <1>10, ReadOption
    <2>2. Tells(ReadToken(m, token), x) <=> Among(x, r) \/ AmongFiles(x, I) \/ AmongFiles(x, O)
      BY <2>1, TellsIs
    <2> QED
      BY <1>2, <1>3, <1>4, <1>5, <1>10, <2>2
  <1>11. CASE n = "none" /\ token \in Flags
    <2>1. PICK single \in Opt : single = <<token>>
      BY <1>11 DEF Opt
    <2>2. ReadToken(m, token) = Understood(I, O, Append(r, single), "none")
      BY <1>1, <1>11, <2>1, ReadFlag
    <2>3. Among(x, Append(r, single)) <=> Among(x, r) \/ x = single
      BY AmongAppend
    <2>4. Tells(ReadToken(m, token), x) <=> Among(x, Append(r, single)) \/ AmongFiles(x, I) \/ AmongFiles(x, O)
      BY <2>2, TellsIs
    <2>5. x # single
      BY <1>3, <2>1, OneIsNotTwo
    <2> QED
      BY <1>2, <1>3, <1>4, <1>5, <1>11, <2>3, <2>4, <2>5
  <1>12. CASE n = "none" /\ token \notin Options \cup Flags
    <2>1. ReadToken(m, token) = Understood(I, Append(O, f), <<>>, "none")
      BY <1>1, <1>6, <1>12, ReadOutput
    <2>2. AmongFiles(x, Append(O, f)) <=> AmongFiles(x, O) \/ Among(x, r)
      BY <1>6, FilesAppend
    <2>3. Tells(ReadToken(m, token), x) <=> Among(x, <<>>) \/ AmongFiles(x, I) \/ AmongFiles(x, Append(O, f))
      BY <2>1, TellsIs
    <2> QED
      BY <1>2, <1>3, <1>4, <1>5, <1>7, <1>12, <2>2, <2>3
  <1> QED
    BY <1>8, <1>9, <1>10, <1>11, <1>12

\* An option has the value that is written behind it, and there is no other.
LEMMA TellsPairs ==
    ASSUME NEW args \in Seq(Tokens), Usage(args), NEW o \in Options, o # "-i", NEW v \in Tokens
    PROVE  Tells(Meaning(args), <<o, v>>) <=> \E i \in 1 .. Len(args) - 1 : args[i] = o /\ args[i + 1] = v
  <1> DEFINE Written(n) == \E i \in 1 .. n - 1 : args[i] = o /\ args[i + 1] = v
             S == {n \in 0 .. Len(args) : Tells(Reading(args)[n], <<o, v>>) <=> Written(n)}
  <1>1. Len(args) \in Nat
    BY LenProperties
  <1>2. 0 \in S
    <2>1. Reading(args)[0] = Understood(<<>>, <<>>, <<>>, "none")
      BY ReadingIs DEF Nothing
    <2>2. ~Tells(Reading(args)[0], <<o, v>>)
      BY <2>1, AmongNone, TellsIs
    <2> QED
      BY <1>1, <2>2
  <1>3. ASSUME NEW n \in 0 .. Len(args) - 1, n \in S
        PROVE  n + 1 \in S
    <2>1. PICK k \in 1 .. Len(args) : k = n + 1
      BY <1>1
    <2>2. k - 1 = n /\ k \in 0 .. Len(args) /\ n \in 0 .. Len(args)
      BY <1>1, <2>1
    <2>3. PICK m \in Understanding, token \in Tokens :
              m = Reading(args)[n] /\ token = args[k] /\ Reading(args)[k] = ReadToken(m, token)
      BY <2>2, ReadStep
    <2>4. Tells(Reading(args)[k], <<o, v>>) <=> Tells(m, <<o, v>>) \/ (m.name = o /\ token = v)
      BY <2>3, TellsStep
    <2>5. Tells(m, <<o, v>>) <=> Written(n)
      BY <1>3, <2>3
    <2>6. m.name = o <=> n # 0 /\ args[n] = o
      <3>1. o # "none"
        BY TokenSet
      <3>2. CASE n = 0
        <4>1. m.name = "none"
          BY <2>3, <3>2, ReadingIs DEF Nothing, Understood
        <4> QED
          BY <3>1, <3>2, <4>1
      <3>3. CASE n # 0
        <4>1. n \in 1 .. Len(args)
          BY <2>2, <3>3
        <4>2. m.name = IF args[n] \in Options THEN args[n] ELSE "none"
          BY <2>3, <4>1, NameIs
        <4> QED
          BY <3>1, <3>3, <4>2
      <3> QED
        BY <3>2, <3>3
    <2>7. Written(k) <=> Written(n) \/ (n # 0 /\ args[n] = o /\ token = v)
      BY <2>1, <2>3
    <2>8. Tells(Reading(args)[k], <<o, v>>) <=> Written(k)
      BY <2>4, <2>5, <2>6, <2>7
    <2> HIDE DEF Written
    <2> QED
      BY <2>1, <2>2, <2>8
  <1> HIDE DEF S
  <1>4. \A k \in 0 .. Len(args) : k \in S
    BY <1>1, <1>2, <1>3, UpTo
  <1>5. PICK n \in S : n = Len(args)
    BY <1>1, <1>4
  <1>6. Reading(args)[n] = Meaning(args)
    BY <1>5 DEF Meaning
  <1> QED
    BY <1>5, <1>6 DEF S

\* Given, by the options.
LEMMA GivenAmong ==
    ASSUME NEW s \in Seq(Opt), NEW names, names \subseteq Options, NEW v
    PROVE  v \in Given(s, names) <=> v \in Tokens /\ \E o \in names : Among(<<o, v>>, s)
  <1>1. v \in Given(s, names) <=> \E i \in 1 .. Len(s) : s[i][1] \in names /\ v = s[i][2]
    BY GivenIs
  <1>2. ASSUME v \in Given(s, names)
        PROVE  v \in Tokens /\ \E o \in names : Among(<<o, v>>, s)
    <2>1. PICK i \in 1 .. Len(s) : s[i][1] \in names /\ v = s[i][2]
      BY <1>1, <1>2
    <2>2. PICK x \in Opt : x = s[i]
      BY ElementOfSeq
    <2>3. x \in Options \X Tokens
      <3>1. ASSUME NEW flag \in Flags, x = <<flag>>
            PROVE  FALSE
        <4>1. x[1] = flag
          BY <3>1
        <4> QED
          BY <2>1, <2>2, <4>1, TokenSet
      <3> QED
        BY <3>1 DEF Opt
    <2>4. PICK o \in Options, u \in Tokens : x = <<o, u>>
      BY <2>3
    <2>5. x[1] = o /\ x[2] = u
      BY <2>4
    <2>6. o \in names /\ u = v /\ s[i] = <<o, v>>
      BY <2>1, <2>2, <2>4, <2>5
    <2> QED
      BY <2>6 DEF Among
  <1>3. ASSUME v \in Tokens, NEW o \in names, Among(<<o, v>>, s)
        PROVE  v \in Given(s, names)
    <2>1. PICK i \in 1 .. Len(s) : s[i] = <<o, v>>
      BY <1>3 DEF Among
    <2>2. s[i][1] = o /\ s[i][2] = v
      BY <2>1
    <2> QED
      BY <1>1, <1>3, <2>2
  <1> QED
    BY <1>2, <1>3

\* What the outputs tell that are one or none.
LEMMA EndTells ==
    ASSUME NEW O \in Seq(File), NEW q \in Seq(Opt), EndsIn(O, q), NEW x
    PROVE  AmongFiles(x, O) <=> Among(x, q)
  <1>1. CASE O = <<>> /\ q = <<>>
    BY <1>1, AmongNone
  <1>2. CASE O = <<FileOf(q, "pipe:1")>>
    <2>4. PICK f : f = FileOf(q, "pipe:1")
      OBVIOUS
    <2>1. f.opts = q
      BY <2>4 DEF FileOf
    <2>2. O = <<f>>
      BY <1>2, <2>4
    <2>3. Len(O) = 1 /\ O[1] = f
      BY <2>2
    <2> QED
      BY <2>1, <2>3 DEF AmongFiles
  <1> QED
    BY <1>1, <1>2 DEF EndsIn

\* The options of an input.
LEMMA OptsOf ==
    ASSUME NEW I \in Seq(File), NEW k \in 1 .. Len(I)
    PROVE  I[k].opts \in Seq(Opt)
  <1>1. I[k] \in File
    BY ElementOfSeq
  <1> QED
    BY <1>1 DEF File

\* What is told of names that no input has is told of the output, and is what the line says.
Apart(I, names) == \A k \in 1 .. Len(I) : Given(I[k].opts, names) = {}
Complete(args, I, O, q, r) ==
    /\ I \in Seq(File) /\ O \in Seq(File) /\ q \in Seq(Opt) /\ r \in Seq(Opt)
    /\ Meaning(args) = Understood(I, O, r, "none") /\ EndsIn(O, q)
SaidOf(args, names) == {args[i + 1] : i \in {j \in 1 .. Len(args) - 1 : args[j] \in names}}

\* What the output is under are all the values that the line says, if no input has any: the code, which
\* does not tell inputs from outputs, sees the same.
LEMMA OutputTells ==
    ASSUME NEW args \in Seq(Tokens), Usage(args),
           NEW I, NEW O, NEW q, NEW r, Complete(args, I, O, q, r),
           NEW names, names \subseteq Options, "-i" \notin names, Apart(I, names)
    PROVE  Given(q \o r, names) = SaidOf(args, names)
  <1> SUFFICES ASSUME NEW v
               PROVE  v \in Given(q \o r, names) <=>
                          \E i \in 1 .. Len(args) - 1 : args[i] \in names /\ args[i + 1] = v
    BY DEF SaidOf
  <1>8. /\ I \in Seq(File) /\ O \in Seq(File) /\ q \in Seq(Opt) /\ r \in Seq(Opt)
        /\ Meaning(args) = Understood(I, O, r, "none") /\ EndsIn(O, q)
    BY DEF Complete
  <1>1. Given(q \o r, names) = Given(q, names) \cup Given(r, names)
    BY <1>8, GivenBoth
  <1>2. v \in Given(q, names) <=> v \in Tokens /\ \E o \in names : Among(<<o, v>>, q)
    BY <1>8, GivenAmong
  <1>3. v \in Given(r, names) <=> v \in Tokens /\ \E o \in names : Among(<<o, v>>, r)
    BY <1>8, GivenAmong
  <1>4. ASSUME NEW o \in names, v \in Tokens
        PROVE  ~AmongFiles(<<o, v>>, I)
    <2> SUFFICES ASSUME NEW k \in 1 .. Len(I), Among(<<o, v>>, I[k].opts)
                 PROVE  FALSE
      BY DEF AmongFiles
    <2>1. PICK s \in Seq(Opt) : s = I[k].opts
      BY <1>8, OptsOf
    <2>2. v \in Given(s, names)
      BY <1>4, <2>1, GivenAmong
    <2> QED
      BY <2>1, <2>2 DEF Apart
  <1>5. ASSUME NEW o \in names, v \in Tokens
        PROVE  Among(<<o, v>>, q) \/ Among(<<o, v>>, r)
                   <=> \E i \in 1 .. Len(args) - 1 : args[i] = o /\ args[i + 1] = v
    <2>1. PICK x : x = <<o, v>>
      OBVIOUS
    <2>2. Tells(Meaning(args), x) <=> Among(x, r) \/ AmongFiles(x, I) \/ AmongFiles(x, O)
      BY <1>8, TellsIs
    <2>3. AmongFiles(x, O) <=> Among(x, q)
      BY <1>8, EndTells
    <2>4. ~AmongFiles(x, I)
      BY <1>4, <1>5, <2>1
    <2>5. Tells(Meaning(args), x) <=> \E i \in 1 .. Len(args) - 1 : args[i] = o /\ args[i + 1] = v
      <3>1. o \in Options /\ o # "-i"
        OBVIOUS
      <3> QED
        BY <1>5, <2>1, <3>1, TellsPairs
    <2> QED
      BY <2>1, <2>2, <2>3, <2>4, <2>5
  <1>6. \A i \in 1 .. Len(args) - 1 : args[i + 1] \in Tokens
    BY LenProperties, ElementOfSeq
  <1>7. v \in Given(q \o r, names)
            <=> v \in Tokens /\ \E o \in names : Among(<<o, v>>, q) \/ Among(<<o, v>>, r)
    BY <1>1, <1>2, <1>3
  <1> HIDE DEF Among
  <1> QED
    BY <1>5, <1>6, <1>7

\* A line that is complete mentions what it tells.
LEMMA OutputMentions ==
    ASSUME NEW args \in Seq(Tokens), Usage(args),
           NEW I, NEW O, NEW q, NEW r, Complete(args, I, O, q, r),
           NEW names, names \subseteq Options, "-i" \notin names, Apart(I, names)
    PROVE  Given(q \o r, names) # {} <=> Mentions(args, names)
  <1>1. Given(q \o r, names) = SaidOf(args, names)
    BY OutputTells
  <1>5. PICK G : G = Given(q \o r, names)
    OBVIOUS
  <1>6. G = SaidOf(args, names)
    BY <1>1, <1>5
  <1>2. Len(args) \in Nat /\ DOMAIN args = 1 .. Len(args)
    BY LenProperties
  <1>3. ASSUME Mentions(args, names)
        PROVE  Given(q \o r, names) # {}
    <2>1. PICK i \in 1 .. Len(args) : args[i] \in names
      BY <1>2, <1>3 DEF Mentions
    <2>2. i # Len(args)
      <3> SUFFICES ASSUME i = Len(args)
                   PROVE  FALSE
        OBVIOUS
      <3>1. Reading(args)[i].name = args[i]
        BY <2>1, NameIs
      <3>2. Reading(args)[i].name = "none"
        BY UnderstoodIs DEF Meaning, Complete
      <3> QED
        BY <2>1, <3>1, <3>2, TokenSet
    <2>3. i \in 1 .. Len(args) - 1
      <3>1. PICK N \in Nat : N = Len(args)
        BY <1>2
      <3> QED
        BY <2>2, <3>1
    <2>4. args[i + 1] \in SaidOf(args, names)
      BY <2>1, <2>3 DEF SaidOf
    <2> QED
      BY <1>5, <1>6, <2>4
  <1>4. ASSUME Given(q \o r, names) # {}
        PROVE  Mentions(args, names)
    <2>1. PICK v : v \in SaidOf(args, names)
      BY <1>4, <1>5, <1>6
    <2>2. PICK i \in 1 .. Len(args) - 1 : args[i] \in names
      BY <2>1 DEF SaidOf
    <2>3. i \in 1 .. Len(args)
      <3>1. PICK N \in Nat : N = Len(args)
        BY <1>2
      <3> QED
        BY <2>2, <3>1
    <2> QED
      BY <1>2, <2>2, <2>3 DEF Mentions
  <1> QED
    BY <1>3, <1>4

\* So does one whose input tells something.
LEMMA InputMentions ==
    ASSUME NEW args \in Seq(Tokens), Usage(args), NEW k \in 1 .. Len(Meaning(args).inputs),
           NEW o \in Options, o # "-i", Given(Meaning(args).inputs[k].opts, {o}) # {}
    PROVE  Mentions(args, {o})
  <1>1. Meaning(args) \in Understanding
    BY ReadingIs, LenProperties DEF Meaning
  <1>2. PICK I \in Seq(File) : I = Meaning(args).inputs
    BY <1>1 DEF Understanding
  <1>3. PICK s \in Seq(Opt) : s = I[k].opts
    BY <1>2, OptsOf
  <1>4. PICK v : v \in Given(s, {o})
    BY <1>2, <1>3
  <1>5. v \in Tokens /\ Among(<<o, v>>, s)
    <2>1. PICK names : names = {o} /\ names \subseteq Options
      OBVIOUS
    <2>2. v \in Given(s, names)
      BY <1>4, <2>1
    <2>3. v \in Tokens /\ \E p \in names : Among(<<p, v>>, s)
      BY <2>1, <2>2, GivenAmong
    <2> QED
      BY <2>1, <2>3
  <1>6. Tells(Meaning(args), <<o, v>>)
    BY <1>2, <1>3, <1>5 DEF Tells, AmongFiles
  <1>7. PICK i \in 1 .. Len(args) - 1 : args[i] = o
    BY <1>5, <1>6, TellsPairs
  <1> QED
    BY <1>7, LenProperties DEF Mentions

----------------------------------------------------------------------------
(* What is filled in *)

\* Says, of the options that are spelled.
LEMMA SpelledSays ==
    ASSUME NEW w, NEW ps, Spells(w, ps), NEW names, NEW V, Says(w, names, V)
    PROVE  Given(ps, names) = V
  <1>1. PICK qs : Spells(w, qs) /\ Given(qs, names) = V
    BY DEF Says
  <1>2. Meaning(w) = Understood(<<>>, <<>>, ps, "none") /\ Meaning(w) = Understood(<<>>, <<>>, qs, "none")
    BY <1>1, BeginsWith
  <1>3. ps = qs
    BY <1>2 DEF Understood
  <1> QED
    BY <1>1, <1>3

\* SaysBoth, with a name for the values of both.
LEMMA SaysAll ==
    ASSUME NEW v, NEW w, NEW names, NEW V, NEW W, Says(v, names, V), Says(w, names, W),
           NEW U, U = V \cup W
    PROVE  Says(v \o w, names, U)
  BY SaysBoth

\* Two options say what both say.
LEMMA SaysPairs ==
    ASSUME NEW o, NEW u, NEW p, NEW v, NEW names, NEW V, NEW W,
           Says(<<o, u>>, names, V), Says(<<p, v>>, names, W)
    PROVE  Says(<<o, u, p, v>>, names, V \cup W)
  <1>1. Says(<<o, u>> \o <<p, v>>, names, V \cup W)
    BY SaysBoth
  <1>2. <<o, u, p, v>> = <<o, u>> \o <<p, v>>
    OBVIOUS
  <1> QED
    BY <1>1, <1>2

\* An option that is filled in unless it is mentioned says nothing of what is mentioned.
LEMMA FillSays ==
    ASSUME NEW mentioned, NEW name \in Options, name # "-i", NEW value \in Tokens, NEW names,
           mentioned \/ name \notin names
    PROVE  Says(IF mentioned THEN <<>> ELSE <<name, value>>, names, {})
  BY SaysNothing, SaysOption

\* The probe options that are filled in are none that the line mentions.
LEMMA ProbesSay ==
    ASSUME NEW args, NEW names,
           \A p \in ProbeNames : Mentions(args, {p}) \/ p \notin names
    PROVE  Says(MissingProbes(args), names, {})
  <1>1. PICK a : /\ a = IF Mentions(args, {"-analyzeduration"}) THEN <<>> ELSE <<"-analyzeduration", "0">>
                 /\ Says(a, names, {})
    <2>4. PICK o \in Options, v \in Tokens : o = "-analyzeduration" /\ v = "0"
      BY Literals
    <2>5. PICK b : b = Mentions(args, {"-analyzeduration"})
      OBVIOUS
    <2>1. o = "-analyzeduration" /\ v = "0" /\ b = Mentions(args, {"-analyzeduration"})
      BY <2>4, <2>5
    <2>2. o # "-i" /\ (b \/ o \notin names)
      BY <2>1 DEF ProbeNames
    <2>3. Says(IF b THEN <<>> ELSE <<o, v>>, names, {})
      BY <2>2, FillSays
    <2> QED
      BY <2>1, <2>3
  <1>2. PICK b : /\ b = IF Mentions(args, {"-probesize"}) THEN <<>> ELSE <<"-probesize", "64k">>
                 /\ Says(b, names, {})
    <2>4. PICK o \in Options, v \in Tokens : o = "-probesize" /\ v = "64k"
      BY Literals
    <2>5. PICK c : c = Mentions(args, {"-probesize"})
      OBVIOUS
    <2>1. o = "-probesize" /\ v = "64k" /\ c = Mentions(args, {"-probesize"})
      BY <2>4, <2>5
    <2>2. o # "-i" /\ (c \/ o \notin names)
      BY <2>1 DEF ProbeNames
    <2>3. Says(IF c THEN <<>> ELSE <<o, v>>, names, {})
      BY <2>2, FillSays
    <2> QED
      BY <2>1, <2>3
  <1>3. PICK c : /\ c = IF Mentions(args, {"-err_detect"}) THEN <<>> ELSE <<"-err_detect", "ignore_err">>
                 /\ Says(c, names, {})
    <2>4. PICK o \in Options, v \in Tokens : o = "-err_detect" /\ v = "ignore_err"
      BY Literals
    <2>5. PICK d : d = Mentions(args, {"-err_detect"})
      OBVIOUS
    <2>1. o = "-err_detect" /\ v = "ignore_err" /\ d = Mentions(args, {"-err_detect"})
      BY <2>4, <2>5
    <2>2. o # "-i" /\ (d \/ o \notin names)
      BY <2>1 DEF ProbeNames
    <2>3. Says(IF d THEN <<>> ELSE <<o, v>>, names, {})
      BY <2>2, FillSays
    <2> QED
      BY <2>1, <2>3
  <1>4. {} = {} \cup {}
    OBVIOUS
  <1>5. Says(a \o b, names, {})
    BY <1>1, <1>2, <1>4, SaysAll
  <1>6. Says((a \o b) \o c, names, {})
    BY <1>3, <1>4, <1>5, SaysAll
  <1> QED
    BY <1>1, <1>2, <1>3, <1>6 DEF MissingProbes

\* The codec and the container are filled in if, and only if, they are not mentioned.
CodecOf(leg) == IF leg = "audio" THEN AudioCodec ELSE VideoCodec
EncoderOf(leg) == IF leg = "audio" THEN "libopus" ELSE "libvpx"
FormatOf(leg) == IF leg = "audio" THEN "ogg" ELSE "ivf"

\* The encoder and the container of the audio leg are filled in where the line has none.
LEMMA AudioSays ==
    ASSUME NEW args
    PROVE  /\ Says(OutputFlags(args, "audio"), AudioCodec, IF Mentions(args, AudioCodec) THEN {} ELSE {"libopus"})
           /\ Says(OutputFlags(args, "audio"), {"-f"}, IF Mentions(args, {"-f"}) THEN {} ELSE {"ogg"})
  <1>1. PICK c, r, f : /\ c = IF Mentions(args, AudioCodec) THEN <<>> ELSE <<"-c:a", "libopus">>
                       /\ r = <<"-ar", "48000">> /\ f = Format(args, "ogg")
    OBVIOUS
  <1>2. OutputFlags(args, "audio") = (c \o r) \o f
    BY <1>1 DEF OutputFlags
  <1>3. PICK o \in Options, p \in Options, q \in Options, u \in Tokens, v \in Tokens, w \in Tokens :
            /\ o = "-c:a" /\ p = "-ar" /\ q = "-f" /\ u = "libopus" /\ v = "48000" /\ w = "ogg"
    BY Literals
  <1>4. /\ o # "-i" /\ p # "-i" /\ q # "-i"
        /\ o \in AudioCodec /\ p \notin AudioCodec /\ q \notin AudioCodec
        /\ o \notin {"-f"} /\ p \notin {"-f"} /\ q \in {"-f"}
    BY <1>3 DEF AudioCodec
  <1>5. Says(r, AudioCodec, {}) /\ Says(r, {"-f"}, {})
    BY <1>1, <1>3, <1>4, SaysOption
  <1>6. Says(c, AudioCodec, IF Mentions(args, AudioCodec) THEN {} ELSE {u}) /\ Says(c, {"-f"}, {})
    BY <1>1, <1>3, <1>4, SaysOption, SaysValue, SaysNothing
  <1>7. Says(f, AudioCodec, {}) /\ Says(f, {"-f"}, IF Mentions(args, {"-f"}) THEN {} ELSE {w})
    BY <1>1, <1>3, <1>4, SaysOption, SaysValue, SaysNothing DEF Format
  <1>8. PICK C, F : /\ C = IF Mentions(args, AudioCodec) THEN {} ELSE {u}
                    /\ F = IF Mentions(args, {"-f"}) THEN {} ELSE {w}
    OBVIOUS
  <1>9. C = C \cup {} /\ {} = {} \cup {} /\ F = {} \cup F
    OBVIOUS
  <1>10. Says(c \o r, AudioCodec, C) /\ Says(c \o r, {"-f"}, {})
    BY <1>5, <1>6, <1>8, <1>9, SaysAll
  <1>11. Says((c \o r) \o f, AudioCodec, C) /\ Says((c \o r) \o f, {"-f"}, F)
    BY <1>7, <1>8, <1>9, <1>10, SaysAll
  <1> QED
    BY <1>2, <1>3, <1>8, <1>11

\* The same for the video leg.
LEMMA VideoSays ==
    ASSUME NEW args
    PROVE  /\ Says(OutputFlags(args, "video"), VideoCodec, IF Mentions(args, VideoCodec) THEN {} ELSE {"libvpx"})
           /\ Says(OutputFlags(args, "video"), {"-f"}, IF Mentions(args, {"-f"}) THEN {} ELSE {"ivf"})
  <1>1. PICK c, f : /\ c = IF Mentions(args, VideoCodec) THEN <<>> ELSE <<"-c:v", "libvpx", "-deadline", "realtime">>
                    /\ f = Format(args, "ivf")
    OBVIOUS
  <1>2. OutputFlags(args, "video") = c \o f
    BY <1>1 DEF OutputFlags
  <1>3. PICK o \in Options, p \in Options, q \in Options, u \in Tokens, v \in Tokens, w \in Tokens :
            /\ o = "-c:v" /\ p = "-deadline" /\ q = "-f" /\ u = "libvpx" /\ v = "realtime" /\ w = "ivf"
    BY Literals
  <1>4. /\ o # "-i" /\ p # "-i" /\ q # "-i"
        /\ o \in VideoCodec /\ p \notin VideoCodec /\ q \notin VideoCodec
        /\ o \notin {"-f"} /\ p \notin {"-f"} /\ q \in {"-f"}
    BY <1>3 DEF VideoCodec
  <1>5. Says(<<o, u, p, v>>, VideoCodec, {u}) /\ Says(<<o, u, p, v>>, {"-f"}, {})
    <2>1. Says(<<o, u>>, VideoCodec, {u}) /\ Says(<<o, u>>, {"-f"}, {})
      BY <1>4, SaysOption, SaysValue
    <2>2. Says(<<p, v>>, VideoCodec, {}) /\ Says(<<p, v>>, {"-f"}, {})
      BY <1>4, SaysOption
    <2>3. {u} = {u} \cup {} /\ {} = {} \cup {}
      OBVIOUS
    <2>4. Says(<<o, u, p, v>>, VideoCodec, {u} \cup {}) /\ Says(<<o, u, p, v>>, {"-f"}, {} \cup {})
      BY <2>1, <2>2, SaysPairs
    <2> QED
      BY <2>3, <2>4
  <1>6. Says(c, VideoCodec, IF Mentions(args, VideoCodec) THEN {} ELSE {u}) /\ Says(c, {"-f"}, {})
    BY <1>1, <1>3, <1>5, SaysNothing
  <1>7. Says(f, VideoCodec, {}) /\ Says(f, {"-f"}, IF Mentions(args, {"-f"}) THEN {} ELSE {w})
    BY <1>1, <1>3, <1>4, SaysOption, SaysValue, SaysNothing DEF Format
  <1>8. PICK C, F : /\ C = IF Mentions(args, VideoCodec) THEN {} ELSE {u}
                    /\ F = IF Mentions(args, {"-f"}) THEN {} ELSE {w}
    OBVIOUS
  <1>9. C = C \cup {} /\ F = {} \cup F
    OBVIOUS
  <1>10. Says(c \o f, VideoCodec, C) /\ Says(c \o f, {"-f"}, F)
    BY <1>6, <1>7, <1>8, <1>9, SaysAll
  <1> QED
    BY <1>2, <1>3, <1>8, <1>10

\* The same for either leg.
LEMMA FlagsSay ==
    ASSUME NEW args, NEW leg \in Legs
    PROVE  /\ Says(OutputFlags(args, leg), CodecOf(leg),
                   IF Mentions(args, CodecOf(leg)) THEN {} ELSE {EncoderOf(leg)})
           /\ Says(OutputFlags(args, leg), {"-f"}, IF Mentions(args, {"-f"}) THEN {} ELSE {FormatOf(leg)})
  <1>1. CASE leg = "audio"
    BY <1>1, AudioSays DEF CodecOf, EncoderOf, FormatOf
  <1>2. CASE leg = "video"
    BY <1>2, VideoSays DEF CodecOf, EncoderOf, FormatOf
  <1> QED
    BY <1>1, <1>2 DEF Legs

\* The encoder's settings are filled in for audio always, and for video with the encoder.
LEMMA AudioSettings ==
    ASSUME NEW args
    PROVE  Says(OutputFlags(args, "audio"), EncoderSettings, {"48000"})
  <1>1. PICK c, r : /\ c = IF Mentions(args, AudioCodec) THEN <<>> ELSE <<"-c:a", "libopus">>
                    /\ r = <<"-ar", "48000">>
    OBVIOUS
  <1>2. PICK f : f = Format(args, "ogg")
    OBVIOUS
  <1>3. OutputFlags(args, "audio") = (c \o r) \o f
    BY <1>1, <1>2 DEF OutputFlags
  <1>4. PICK o \in Options, p \in Options, q \in Options : o = "-c:a" /\ p = "-ar" /\ q = "-f"
    BY Literals
  <1>5. PICK u \in Tokens, v \in Tokens, w \in Tokens : u = "libopus" /\ v = "48000" /\ w = "ogg"
    BY Literals
  <1>6. /\ o # "-i" /\ p # "-i" /\ q # "-i"
        /\ o \notin EncoderSettings /\ p \in EncoderSettings /\ q \notin EncoderSettings
    BY <1>4 DEF EncoderSettings
  <1>7. Says(r, EncoderSettings, {v})
    BY <1>1, <1>4, <1>5, <1>6, SaysValue
  <1>8. Says(c, EncoderSettings, {})
    BY <1>1, <1>4, <1>5, <1>6, SaysOption, SaysNothing
  <1>9. Says(f, EncoderSettings, {})
    BY <1>2, <1>4, <1>5, <1>6, SaysOption, SaysNothing DEF Format
  <1>10. {v} = {} \cup {v} /\ {v} = {v} \cup {}
    OBVIOUS
  <1>11. Says(c \o r, EncoderSettings, {v})
    BY <1>7, <1>8, <1>10, SaysAll
  <1>12. Says((c \o r) \o f, EncoderSettings, {v})
    BY <1>9, <1>10, <1>11, SaysAll
  <1> QED
    BY <1>3, <1>5, <1>12

LEMMA VideoSettings ==
    ASSUME NEW args
    PROVE  Says(OutputFlags(args, "video"), EncoderSettings,
                IF Mentions(args, VideoCodec) THEN {} ELSE {"realtime"})
  <1>1. PICK c, f : /\ c = IF Mentions(args, VideoCodec) THEN <<>> ELSE <<"-c:v", "libvpx", "-deadline", "realtime">>
                    /\ f = Format(args, "ivf")
    OBVIOUS
  <1>2. OutputFlags(args, "video") = c \o f
    BY <1>1 DEF OutputFlags
  <1>3. PICK o \in Options, p \in Options, q \in Options : o = "-c:v" /\ p = "-deadline" /\ q = "-f"
    BY Literals
  <1>4. PICK u \in Tokens, v \in Tokens, w \in Tokens : u = "libvpx" /\ v = "realtime" /\ w = "ivf"
    BY Literals
  <1>5. /\ o # "-i" /\ p # "-i" /\ q # "-i"
        /\ o \notin EncoderSettings /\ p \in EncoderSettings /\ q \notin EncoderSettings
    BY <1>3 DEF EncoderSettings
  <1>6. {v} = {} \cup {v} /\ {} = {} \cup {} /\ {v} = {v} \cup {}
    OBVIOUS
  <1>7. Says(<<o, u, p, v>>, EncoderSettings, {v})
    <2>1. Says(<<o, u>>, EncoderSettings, {}) /\ Says(<<p, v>>, EncoderSettings, {v})
      BY <1>5, SaysOption, SaysValue
    <2>2. Says(<<o, u, p, v>>, EncoderSettings, {} \cup {v})
      BY <2>1, SaysPairs
    <2> QED
      BY <1>6, <2>2
  <1>8. PICK C : C = IF Mentions(args, VideoCodec) THEN {} ELSE {v}
    OBVIOUS
  <1>9. Says(c, EncoderSettings, C)
    BY <1>1, <1>3, <1>4, <1>7, <1>8, SaysNothing
  <1>10. Says(f, EncoderSettings, {})
    BY <1>1, <1>3, <1>4, <1>5, SaysOption, SaysNothing DEF Format
  <1>11. C = C \cup {}
    OBVIOUS
  <1>12. Says(c \o f, EncoderSettings, C)
    BY <1>9, <1>10, <1>11, SaysAll
  <1> QED
    BY <1>2, <1>4, <1>8, <1>12

\* Of the rest, nothing is filled in that the line mentions.
LEMMA FlagsAddNothing ==
    ASSUME NEW args, NEW leg \in Legs, NEW o, o \notin EncoderSettings,
           Mentions(args, CodecOf(leg)) \/ o \notin CodecOf(leg),
           Mentions(args, {"-f"}) \/ o # "-f"
    PROVE  Says(OutputFlags(args, leg), {o}, {})
  <1>0. {} = {} \cup {}
    OBVIOUS
  <1>1. PICK p \in Options, q \in Options : p = "-f" /\ q = (IF leg = "audio" THEN "-c:a" ELSE "-c:v")
    BY Literals
  <1>2. PICK u \in Tokens, w \in Tokens :
            /\ u = (IF leg = "audio" THEN "libopus" ELSE "libvpx")
            /\ w = (IF leg = "audio" THEN "ogg" ELSE "ivf")
    BY Literals
  <1>3. PICK r \in Options, v \in Tokens :
            /\ r = (IF leg = "audio" THEN "-ar" ELSE "-deadline")
            /\ v = (IF leg = "audio" THEN "48000" ELSE "realtime")
    BY Literals
  <1>4. p # "-i" /\ q # "-i" /\ r # "-i" /\ q \in CodecOf(leg) /\ r # o
    BY <1>1, <1>3 DEF CodecOf, AudioCodec, VideoCodec, EncoderSettings
  <1>5. PICK f : f = Format(args, w) /\ Says(f, {o}, {})
    <2>1. p \notin {o} \/ Mentions(args, {"-f"})
      BY <1>1
    <2>2. PICK b : b = Mentions(args, {"-f"})
      OBVIOUS
    <2>3. Says(IF b THEN <<>> ELSE <<p, w>>, {o}, {})
      BY <1>4, <2>1, <2>2, FillSays
    <2> QED
      BY <1>1, <2>2, <2>3 DEF Format
  <1>6. Says(<<r, v>>, {o}, {})
    BY <1>4, SaysOption
  <1>7. CASE leg = "audio"
    <2>1. PICK c : c = (IF Mentions(args, AudioCodec) THEN <<>> ELSE <<q, u>>) /\ Says(c, {o}, {})
      <3>1. PICK b : b = Mentions(args, AudioCodec)
        OBVIOUS
      <3>2. b \/ q \notin {o}
        BY <1>4, <1>7, <3>1 DEF CodecOf
      <3>3. Says(IF b THEN <<>> ELSE <<q, u>>, {o}, {})
        BY <1>4, <3>2, FillSays
      <3> QED
        BY <3>1, <3>3
    <2>2. OutputFlags(args, leg) = (c \o <<r, v>>) \o f
      BY <1>1, <1>2, <1>3, <1>5, <1>7, <2>1 DEF OutputFlags
    <2>3. Says(c \o <<r, v>>, {o}, {})
      BY <1>0, <1>6, <2>1, SaysAll
    <2>4. Says((c \o <<r, v>>) \o f, {o}, {})
      BY <1>0, <1>5, <2>3, SaysAll
    <2> QED
      BY <2>2, <2>4
  <1>8. CASE leg = "video"
    <2>1. PICK c : c = (IF Mentions(args, VideoCodec) THEN <<>> ELSE <<q, u, r, v>>) /\ Says(c, {o}, {})
      <3>1. CASE Mentions(args, VideoCodec)
        BY <3>1, SaysNothing
      <3>2. CASE ~Mentions(args, VideoCodec)
        <4>1. q \notin {o}
          BY <1>4, <1>8, <3>2 DEF CodecOf
        <4>2. Says(<<q, u>>, {o}, {})
          BY <1>4, <4>1, SaysOption
        <4>3. Says(<<q, u, r, v>>, {o}, {} \cup {})
          BY <1>6, <4>2, SaysPairs
        <4> QED
          BY <1>0, <3>2, <4>3
      <3> QED
        BY <3>1, <3>2
    <2>2. OutputFlags(args, leg) = c \o f
      BY <1>1, <1>2, <1>3, <1>5, <1>8, <2>1 DEF OutputFlags
    <2>3. Says(c \o f, {o}, {})
      BY <1>0, <1>5, <2>1, SaysAll
    <2> QED
      BY <2>2, <2>3
  <1> QED
    BY <1>7, <1>8 DEF Legs

\* Before and in the first input there is no sink.
Sinkless == Tokens \ {"pipe:1"}

\* Before the first input, and as its name, there is no pipe:1.
LEMMA NoSinkBefore ==
    ASSUME NEW args \in Seq(Tokens), Usage(args), NEW p \in 1 .. Len(args) - 1, args[p] = "-i"
    PROVE  args[p + 1] # "pipe:1" /\ \A i \in 1 .. p - 1 : args[i] # "pipe:1"
  <1>1. Len(args) \in Nat
    BY LenProperties
  <1>2. args[p + 1] # "pipe:1"
    BY TokenSet DEF Usage
  <1>3. ASSUME NEW i \in 1 .. p - 1, args[i] = "pipe:1"
        PROVE  FALSE
    <2>1. i \in 1 .. Len(args) /\ p \in 1 .. Len(args) /\ i < p
      BY <1>1
    <2>2. i > 1 => args[i - 1] \notin Options
      <3> SUFFICES ASSUME i > 1, args[i - 1] \in Options
                   PROVE  FALSE
        OBVIOUS
      <3>1. PICK k \in 1 .. Len(args) - 1 : k = i - 1 /\ k + 1 = i
        BY <1>1
      <3> QED
        BY <1>3, <3>1 DEF Usage
    <2>3. IsOutput(args, i)
      BY <1>3, <2>2, TokenSet DEF IsOutput
    <2>4. p < i
      BY <2>1, <2>3 DEF Usage
    <2> QED
      BY <2>1, <2>4
  <1> QED
    BY <1>2, <1>3

\* Where there is no pipe:1, none is dropped.
LEMMA SinkBehind ==
    ASSUME NEW x \in Seq(Sinkless), NEW t \in Seq(Tokens)
    PROVE  x \in Seq(Tokens) /\ NoSink(t) \in Seq(Tokens) /\ NoSink(x \o t) = x \o NoSink(t)
  <1>1. x \in Seq(Tokens)
    BY DEF Sinkless
  <1>2. Dropping(x \o t, {"pipe:1"}) = Dropping(x, {"pipe:1"}) \o Dropping(t, {"pipe:1"})
    BY <1>1, DropsEach
  <1>3. Dropping(x, {"pipe:1"}) = x
    <2>1. Sinkless \cap {"pipe:1"} = {}
      BY DEF Sinkless
    <2> QED
      BY <2>1, DropsNothing
  <1>4. NoSink(t) \in Seq(Tokens)
    BY TokenSet, SinkDropped
  <1> QED
    BY <1>1, <1>2, <1>3, <1>4 DEF NoSink

\* The probe options are no sink.
LEMMA ProbesSinkless ==
    ASSUME NEW args
    PROVE  MissingProbes(args) \in Seq(Sinkless)
  <1>1. /\ "-analyzeduration" \in Sinkless /\ "-probesize" \in Sinkless /\ "-err_detect" \in Sinkless
        /\ "0" \in Sinkless /\ "64k" \in Sinkless /\ "ignore_err" \in Sinkless
    BY Literals, TokenSet DEF Sinkless
  <1>2. PICK a \in Seq(Sinkless) :
            a = IF Mentions(args, {"-analyzeduration"}) THEN <<>> ELSE <<"-analyzeduration", "0">>
    BY <1>1, ShortSequences
  <1>3. PICK b \in Seq(Sinkless) : b = IF Mentions(args, {"-probesize"}) THEN <<>> ELSE <<"-probesize", "64k">>
    BY <1>1, ShortSequences
  <1>4. PICK c \in Seq(Sinkless) :
            c = IF Mentions(args, {"-err_detect"}) THEN <<>> ELSE <<"-err_detect", "ignore_err">>
    BY <1>1, ShortSequences
  <1>5. PICK ab \in Seq(Sinkless) : ab = a \o b
    BY ConcatProperties
  <1>6. ab \o c \in Seq(Sinkless)
    BY ConcatProperties
  <1> QED
    BY <1>2, <1>3, <1>4, <1>5, <1>6 DEF MissingProbes

\* Nor are the tokens up to the first input.
LEMMA SplitSinkless ==
    ASSUME NEW args \in Seq(Tokens), Usage(args), NEW p \in 1 .. Len(args) - 1, args[p] = "-i",
           NEW head \in Seq(Tokens), NEW url \in Tokens, NEW tail \in Seq(Tokens), NEW r,
           SplitsAt(args, p, head, url, tail, r)
    PROVE  head \in Seq(Sinkless) /\ <<"-i", url>> \in Seq(Sinkless)
  <1>1. Len(args) \in Nat /\ \A i \in 1 .. Len(args) : args[i] \in Tokens
    BY LenProperties, ElementOfSeq
  <1>2. head \in Seq(Sinkless)
    <2>1. \A i \in 1 .. p - 1 : args[i] \in Sinkless
      BY <1>1, NoSinkBefore DEF Sinkless
    <2>2. SubSeq(args, 1, p - 1) \in Seq(Sinkless)
      BY <2>1, SubSeqProperties
    <2> QED
      BY <2>2 DEF SplitsAt
  <1>3. url = args[p + 1]
    <2>1. PICK s : s = SubSeq(args, p, Len(args)) /\ s = <<"-i", url>> \o tail
      BY DEF SplitsAt
    <2>2. s[2] = args[p + 1]
      <3>1. \A i \in p .. Len(args) : args[i] \in Tokens
        BY <1>1
      <3>2. \A i \in 1 .. Len(args) - p + 1 : s[i] = args[p + i - 1]
        <4>1. Len(args) \in Int /\ p \in Int
          BY <1>1
        <4>2. \A i \in 1 .. Len(args) - p + 1 : SubSeq(args, p, Len(args))[i] = args[p + i - 1]
          BY <3>1, <4>1, SubSeqProperties
        <4> QED
          BY <2>1, <4>2
      <3>3. 2 \in 1 .. Len(args) - p + 1 /\ p + 2 - 1 = p + 1
        BY <1>1
      <3> QED
        BY <3>2, <3>3
    <2>3. s[2] = url
      <3>1. (<<"-i", url>> \o tail)[2] = url
        OBVIOUS
      <3> QED
        BY <2>1, <3>1
    <2> QED
      BY <2>2, <2>3
  <1>4. url \in Sinkless /\ "-i" \in Sinkless
    BY <1>3, NoSinkBefore, TokenSet DEF Sinkless
  <1> QED
    BY <1>2, <1>4, ShortSequences

\* Inputs, outputs and options that are the same.
LEMMA SameParts ==
    ASSUME NEW I, NEW O, NEW r, NEW n, NEW J, NEW P, NEW s, NEW k,
           Understood(I, O, r, n) = Understood(J, P, s, k)
    PROVE  I = J /\ O = P /\ r = s /\ n = k
  BY DEF Understood

\* What is used of a plain line.
LEMMA PlainIs ==
    ASSUME NEW m \in Understanding, IsPlain(m)
    PROVE  /\ m.inputs # <<>> /\ m.name = "none" /\ Few(m.outputs)
           /\ \A names \in SUBSET ({"-f"} \cup AudioCodec \cup VideoCodec) : Apart(m.inputs, names)
  <1>1. m.inputs \in Seq(File) /\ m.outputs \in Seq(File)
    BY DEF Understanding
  <1>2. Few(m.outputs)
    <2>1. PICK O \in Seq(File) : O = m.outputs
      BY <1>1
    <2>2. Len(O) \in Nat /\ Len(O) <= 1 /\ DOMAIN O = 1 .. Len(O) /\ \A i \in 1 .. Len(O) : O[i].url = "pipe:1"
      BY <2>1, LenProperties DEF IsPlain
    <2>3. CASE Len(O) = 0
      <3>1. O = <<>>
        BY <2>3, EmptySeq
      <3>2. EndsIn(O, <<>>) /\ <<>> \in Seq(Opt)
        BY <3>1, ShortSequences DEF EndsIn
      <3> QED
        BY <2>1, <3>2 DEF Few
    <2>4. CASE Len(O) = 1
      <3>1. PICK f \in File : f = O[1]
        BY <2>4, ElementOfSeq
      <3>2. PICK q \in Seq(Opt) : f = FileOf(q, "pipe:1")
        <4>1. f.url = "pipe:1"
          BY <2>2, <2>4, <3>1
        <4> QED
          BY <4>1 DEF File, FileOf
      <3>3. O = <<f>>
        <4>1. <<f>> \in Seq(File) /\ Len(<<f>>) = 1 /\ <<f>>[1] = f
          BY ShortSequences
        <4>2. \A i \in 1 .. Len(O) : O[i] = <<f>>[i]
          BY <2>4, <3>1, <4>1
        <4> QED
          BY <2>4, <4>1, <4>2, SeqEqual
      <3> QED
        BY <2>1, <3>2, <3>3 DEF EndsIn, Few
    <2> QED
      BY <2>2, <2>3, <2>4
  <1>3. ASSUME NEW names \in SUBSET ({"-f"} \cup AudioCodec \cup VideoCodec)
        PROVE  Apart(m.inputs, names)
    <2>5. PICK I \in Seq(File) : I = m.inputs
      BY <1>1
    <2>6. PICK all : all = {"-f"} \cup AudioCodec \cup VideoCodec
      OBVIOUS
    <2>1. I = m.inputs /\ all = {"-f"} \cup AudioCodec \cup VideoCodec
      BY <2>5, <2>6
    <2>2. \A i \in 1 .. Len(I) : Given(I[i].opts, all) = {}
      BY <2>1, LenProperties DEF IsPlain
    <2>3. ASSUME NEW i \in 1 .. Len(I)
          PROVE  Given(I[i].opts, names) = {}
      <3>1. PICK s \in Seq(Opt) : s = I[i].opts
        BY OptsOf
      <3>2. \A v : v \in Given(s, all) <=> \E j \in 1 .. Len(s) : s[j][1] \in all /\ v = s[j][2]
        BY GivenIs
      <3>3. \A v : v \in Given(s, names) <=> \E j \in 1 .. Len(s) : s[j][1] \in names /\ v = s[j][2]
        BY GivenIs
      <3>4. names \subseteq all
        BY <2>1
      <3>5. \A v : v \in Given(s, names) => v \in Given(s, all)
        BY <3>2, <3>3, <3>4
      <3> QED
        BY <2>2, <3>1, <3>5
    <2> QED
      BY <2>1, <2>3 DEF Apart
  <1> QED
    BY <1>2, <1>3 DEF IsPlain

\* What the line that was filled in means: m with the probe options ps behind those of the first
\* input, and the encoder's options fs behind those of the output.
FilledAs(args, leg, f, more, O, q, s, ps, fs) ==
    /\ f \in File /\ more \in Seq(File)
    /\ Complete(args, <<f>> \o more, O, q, s)
    /\ Spells(MissingProbes(args), ps) /\ Spells(OutputFlags(args, leg), fs)
    /\ EnsureFlags(args, leg) \in Seq(Tokens)
    /\ Meaning(EnsureFlags(args, leg)) =
           Understood(<<FileOf(f.opts \o ps, f.url)>> \o more, <<FileOf((q \o s) \o fs, "pipe:1")>>, <<>>, "none")

\* The parts of the line.
Consists(args, head, P, i, url, tail, r) ==
    /\ i = <<"-i", url>> /\ P = MissingProbes(args)
    /\ Meaning(head) = Understood(<<>>, <<>>, r, "none")
    /\ args = (head \o i) \o tail
    /\ \A leg : EnsureFlags(args, leg) =
                    (NoSink(((head \o P) \o i) \o tail) \o OutputFlags(args, leg)) \o <<"pipe:1">>

\* ensure_ffmpeg_flags puts the probe options between the parts of AtInput, and the rest at the end.
LEMMA FilledParts ==
    ASSUME NEW args \in Seq(Tokens), Usage(args), Meaning(args).inputs # <<>>
    PROVE  \E head \in Seq(Sinkless), P \in Seq(Sinkless), i \in Seq(Sinkless), url \in Tokens,
              tail \in Seq(Tokens), r \in Seq(Opt) : Consists(args, head, P, i, url, tail, r)
  <1>1. PICK p : p = FirstInput(args)
    OBVIOUS
  <1>2. p \in 1 .. Len(args) - 1 /\ args[p] = "-i"
    BY <1>1, AtInput
  <1>3. PICK head \in Seq(Tokens), url \in Tokens, tail \in Seq(Tokens), r \in Seq(Opt) :
            SplitsAt(args, p, head, url, tail, r)
    BY <1>1, AtInput
  <1>4. head \in Seq(Sinkless) /\ <<"-i", url>> \in Seq(Sinkless)
    BY <1>2, <1>3, SplitSinkless
  <1>5. PICK i \in Seq(Sinkless) : i = <<"-i", url>>
    BY <1>4
  <1>6. PICK P \in Seq(Sinkless) : P = MissingProbes(args)
    BY ProbesSinkless
  <1>7. /\ head = SubSeq(args, 1, p - 1) /\ SubSeq(args, p, Len(args)) = i \o tail
        /\ args = (head \o i) \o tail /\ Meaning(head) = Understood(<<>>, <<>>, r, "none")
    BY <1>3, <1>5 DEF SplitsAt
  <1>8. ASSUME NEW leg
        PROVE  EnsureFlags(args, leg) =
                   (NoSink(((head \o P) \o i) \o tail) \o OutputFlags(args, leg)) \o <<"pipe:1">>
    <2>1. p # 0
      BY <1>2
    <2>2. EnsureFlags(args, leg) =
              (NoSink((head \o P) \o (i \o tail)) \o OutputFlags(args, leg)) \o <<"pipe:1">>
      BY <1>1, <1>6, <1>7, <2>1 DEF EnsureFlags
    <2>3. (head \o P) \o (i \o tail) = ((head \o P) \o i) \o tail
      OBVIOUS
    <2> QED
      BY <2>2, <2>3
  <1>9. Consists(args, head, P, i, url, tail, r)
    BY <1>5, <1>6, <1>7, <1>8 DEF Consists
  <1> QED
    BY <1>4, <1>9

\* A line that lacks its output, and one that has it.
Unended(x, I, r) ==
    x \in Seq(Tokens) /\ I \in Seq(File) /\ r \in Seq(Opt) /\ Meaning(x) = Understood(I, <<>>, r, "none")
Ended(x, I, r) ==
    x \in Seq(Tokens) /\ Meaning(x) = Understood(I, <<FileOf(r, "pipe:1")>>, <<>>, "none")

\* Options at the end of a line, and then the sink: one output under the options that waited and those.
LEMMA Ends ==
    ASSUME NEW x, NEW I, NEW r, Unended(x, I, r), NEW w, NEW ps, Spells(w, ps)
    PROVE  Ended((x \o w) \o <<"pipe:1">>, I, r \o ps)
  <1>1. x \in Seq(Tokens) /\ I \in Seq(File) /\ r \in Seq(Opt) /\ w \in Seq(Tokens) /\ ps \in Seq(Opt)
    BY DEF Unended, Spells
  <1>2. PICK e \in Seq(File) : e = <<>>
    BY ShortSequences
  <1>3. Meaning(x) = Understood(I, e, r, "none")
    BY <1>2 DEF Unended
  <1>4. Meaning(x \o w) = Understood(I, e, r \o ps, "none")
    BY <1>1, <1>3 DEF Spells
  <1>5. PICK y \in Seq(Tokens) : y = x \o w
    BY <1>1, ConcatProperties
  <1>6. PICK s \in Seq(Opt) : s = r \o ps
    BY <1>1, ConcatProperties
  <1>7. Meaning(y \o <<"pipe:1">>) = Understood(I, Append(e, FileOf(s, "pipe:1")), <<>>, "none")
    <2>1. Meaning(y) = Understood(I, e, s, "none")
      BY <1>4, <1>5, <1>6
    <2> QED
      BY <1>1, <2>1, SinkNamed
  <1>8. Append(e, FileOf(s, "pipe:1")) = <<FileOf(s, "pipe:1")>>
    BY <1>2
  <1>9. y \o <<"pipe:1">> \in Seq(Tokens)
    <2>1. <<"pipe:1">> \in Seq(Tokens)
      BY TokenSet, ShortSequences
    <2> QED
      BY <2>1, ConcatProperties
  <1> QED
    BY <1>5, <1>6, <1>7, <1>8, <1>9 DEF Ended

\* What ensure_ffmpeg_flags makes of a plain line: its first input with more options, its output with more
\* options and to pipe:1, and nothing else changed.
LEMMA Fills ==
    ASSUME NEW args \in Seq(Tokens), Usage(args), IsPlain(Meaning(args)), NEW leg \in Legs
    PROVE  \E f, more, O, q, s, ps, fs : FilledAs(args, leg, f, more, O, q, s, ps, fs)
  <1>1. Meaning(args) \in Understanding
    BY ReadingIs, LenProperties DEF Meaning
  <1>2. Meaning(args).inputs # <<>> /\ Meaning(args).name = "none" /\ Few(Meaning(args).outputs)
    BY <1>1, PlainIs
  <1>24. PICK head \in Seq(Sinkless), P \in Seq(Sinkless), i \in Seq(Sinkless), url \in Tokens,
              tail \in Seq(Tokens), r \in Seq(Opt) : Consists(args, head, P, i, url, tail, r)
    BY <1>2, FilledParts
  <1>3.     /\ i = <<"-i", url>> /\ P = MissingProbes(args)
            /\ Meaning(head) = Understood(<<>>, <<>>, r, "none")
            /\ args = (head \o i) \o tail
            /\ \A l : EnsureFlags(args, l) =
                          (NoSink(((head \o P) \o i) \o tail) \o OutputFlags(args, l)) \o <<"pipe:1">>
    BY <1>24 DEF Consists
  <1>4. PICK ps : Spells(P, ps)
    <2>1. Says(MissingProbes(args), {}, {})
      BY ProbesSay
    <2> QED
      BY <1>3, <2>1 DEF Says
  <1>5. PICK fs : Spells(OutputFlags(args, leg), fs)
    BY FlagsSay DEF Says
  <1>6. ps \in Seq(Opt) /\ fs \in Seq(Opt) /\ P \in Seq(Tokens) /\ OutputFlags(args, leg) \in Seq(Tokens)
    BY <1>4, <1>5 DEF Spells
  <1>7. PICK t \in Seq(Tokens) : t = NoSink(tail)
    BY TokenSet, SinkDropped
  <1>8. PICK Y \in Seq(Tokens) : Y = head \o i /\ NoSink(Y \o tail) = Y \o t
    <2>1. PICK y \in Seq(Sinkless) : y = head \o i
      BY ConcatProperties
    <2> QED
      BY <1>7, <2>1, SinkBehind
  <1>9. PICK X \in Seq(Tokens) : X = (head \o P) \o i /\ NoSink(X \o tail) = X \o t
    <2>1. PICK hp \in Seq(Sinkless) : hp = head \o P
      BY ConcatProperties
    <2>2. PICK x \in Seq(Sinkless) : x = hp \o i
      BY ConcatProperties
    <2> QED
      BY <1>7, <2>1, <2>2, SinkBehind
  <1>10. PICK f \in File, g \in File : f = FileOf(r, url) /\ g = FileOf(r \o ps, url)
    <2>1. r \o ps \in Seq(Opt)
      BY <1>6, ConcatProperties
    <2> QED
      BY <2>1, FileOfIs
  <1>11. head \in Seq(Tokens)
    BY ShortSequences, SinkBehind
  <1>12. Meaning(Y) = Understood(<<f>>, <<>>, <<>>, "none")
    <2>1. Meaning(head \o <<"-i", url>>) = Understood(<<FileOf(r, url)>>, <<>>, <<>>, "none")
      BY <1>3, <1>11, InputNamed
    <2> QED
      BY <1>3, <1>8, <1>10, <2>1
  <1>13. Meaning(X) = Understood(<<g>>, <<>>, <<>>, "none")
    <2>1. PICK hp \in Seq(Tokens) : hp = head \o P
      BY <1>6, <1>11, ConcatProperties
    <2>2. PICK e \in Seq(File) : e = <<>>
      BY ShortSequences
    <2>3. Meaning(head) = Understood(e, e, r, "none")
      BY <1>3, <2>2
    <2>4. Meaning(head \o P) = Understood(e, e, r \o ps, "none")
      BY <1>4, <1>11, <2>3 DEF Spells
    <2>5. PICK rp \in Seq(Opt) : rp = r \o ps
      BY <1>6, ConcatProperties
    <2>6. Meaning(hp) = Understood(<<>>, <<>>, rp, "none")
      BY <2>1, <2>2, <2>4, <2>5
    <2>7. Meaning(hp \o <<"-i", url>>) = Understood(<<FileOf(rp, url)>>, <<>>, <<>>, "none")
      BY <2>6, InputNamed
    <2> QED
      BY <1>3, <1>9, <1>10, <2>1, <2>5, <2>7
  <1>14. PICK more \in Seq(File), O2 \in Seq(File), r2 \in Seq(Opt), n2 \in Options \cup {"none"} :
             /\ Meaning(Y \o t) = Understood(<<f>> \o more, O2, r2, n2)
             /\ Meaning(X \o t) = Understood(<<g>> \o more, O2, r2, n2)
    <2>1. Alike(Meaning(Y \o t), Meaning(X \o t), f, g)
      BY <1>12, <1>13, ReadBehind
    <2> QED
      BY <2>1 DEF Alike
  <1>15. NoSink(args) = Y \o t
    BY <1>3, <1>8
  <1>16. PICK I \in Seq(File), O \in Seq(File), q \in Seq(Opt), s \in Seq(Opt), n \in Options \cup {"none"} :
             /\ Meaning(args) = Understood(I, O, s, n) /\ EndsIn(O, q)
             /\ Meaning(Y \o t) = Understood(I, <<>>, q \o s, n)
    <2>1. Drained(Meaning(args), Meaning(NoSink(args)))
      BY <1>2, Drains
    <2>2. Drained(Meaning(args), Meaning(Y \o t))
      BY <1>15, <2>1
    <2> QED
      BY <2>2 DEF Drained
  <1>17. I = <<f>> \o more /\ O2 = <<>> /\ r2 = q \o s /\ n2 = n
    <2>1. PICK J, w, e : J = <<f>> \o more /\ w = q \o s /\ e = <<>>
      OBVIOUS
    <2>2. Understood(J, O2, r2, n2) = Understood(I, e, w, n)
      BY <1>14, <1>16, <2>1
    <2>3. J = I /\ O2 = e /\ r2 = w /\ n2 = n
      BY <2>2, SameParts
    <2> QED
      BY <2>1, <2>3
  <1>18. n = "none"
    BY <1>2, <1>16 DEF Understood
  <1>19. Complete(args, <<f>> \o more, O, q, s)
    BY <1>16, <1>17, <1>18 DEF Complete
  <1>20. /\ EnsureFlags(args, leg) \in Seq(Tokens)
         /\ Meaning(EnsureFlags(args, leg)) =
                Understood(<<g>> \o more, <<FileOf((q \o s) \o fs, "pipe:1")>>, <<>>, "none")
    <2>1. PICK G \in Seq(File) : G = <<g>> \o more
      <3>1. <<g>> \in Seq(File)
        BY ShortSequences
      <3> QED
        BY <3>1, ConcatProperties
    <2>2. PICK z \in Seq(Tokens), w \in Seq(Opt) : z = X \o t /\ w = q \o s
      BY ConcatProperties
    <2>3. Unended(z, G, w)
      BY <1>14, <1>17, <1>18, <2>1, <2>2 DEF Unended
    <2>4. Ended((z \o OutputFlags(args, leg)) \o <<"pipe:1">>, G, w \o fs)
      BY <1>5, <2>3, Ends
    <2>5. EnsureFlags(args, leg) = (z \o OutputFlags(args, leg)) \o <<"pipe:1">>
      BY <1>3, <1>9, <2>2
    <2>6. Ended(EnsureFlags(args, leg), G, w \o fs)
      BY <2>4, <2>5
    <2> QED
      BY <2>1, <2>2, <2>6 DEF Ended
  <1>21. f.opts = r /\ f.url = url
    BY <1>10 DEF FileOf
  <1>22. Spells(MissingProbes(args), ps)
    BY <1>3, <1>4
  <1>23. Meaning(EnsureFlags(args, leg)) =
             Understood(<<FileOf(f.opts \o ps, f.url)>> \o more, <<FileOf((q \o s) \o fs, "pipe:1")>>, <<>>, "none")
    BY <1>10, <1>20, <1>21
  <1> QED
    BY <1>5, <1>19, <1>20, <1>22, <1>23 DEF FilledAs

\* What was put behind the options is what was added.
LEMMA JoinedPrefix ==
    ASSUME NEW s \in Seq(Opt), NEW t \in Seq(Opt)
    PROVE  IsPrefix(s, s \o t) /\ Added(s, s \o t) = t
  <1>1. PICK u \in Seq(Opt) : u = s \o t
    BY ConcatProperties
  <1>2. SubSeq(u, 1, Len(s)) = s /\ SubSeq(u, Len(s) + 1, Len(u)) = t
    BY <1>1, Parts
  <1>3. SubSeq(s, 1, Len(s)) = s
    BY SubSeqFull
  <1>4. Len(s) \in Nat /\ Len(t) \in Nat /\ Len(u) = Len(s) + Len(t)
    BY <1>1, ConcatProperties, LenProperties
  <1>5. Len(s) <= Len(u)
    BY <1>4
  <1> QED
    BY <1>1, <1>2, <1>3, <1>5 DEF IsPrefix, Added

\* No option of the first input is given once more.
LEMMA ProbesKept ==
    ASSUME NEW args \in Seq(Tokens), Usage(args), NEW f \in File, NEW more \in Seq(File), NEW O, NEW q, NEW s,
           Complete(args, <<f>> \o more, O, q, s), NEW ps, Spells(MissingProbes(args), ps),
           NEW p \in Options, Given(f.opts, {p}) # {}
    PROVE  Given(ps, {p}) = {}
  <1>0. SUFFICES ASSUME p \in ProbeNames PROVE Says(MissingProbes(args), {p}, {})
    <2>1. CASE p \notin ProbeNames
      <3>1. \A o \in ProbeNames : o \notin {p}
        BY <2>1
      <3>2. Says(MissingProbes(args), {p}, {})
        BY <3>1, ProbesSay
      <3> QED
        BY <3>2, SpelledSays
    <2>2. CASE p \in ProbeNames
      BY <2>2, SpelledSays
    <2> QED
      BY <2>1, <2>2
  <1>1. PICK I \in Seq(File) : I = <<f>> \o more /\ I[1] = f /\ Len(I) = 1 + Len(more)
    <2>1. <<f>> \in Seq(File) /\ Len(<<f>>) = 1
      BY ShortSequences
    <2>2. <<f>> \o more \in Seq(File) /\ Len(<<f>> \o more) = 1 + Len(more)
      BY <2>1, ConcatProperties
    <2>3. (<<f>> \o more)[1] = f
      BY FirstAndRest
    <2> QED
      BY <2>2, <2>3
  <1>2. Meaning(args).inputs = I
    <2>1. Meaning(args) = Understood(I, O, s, "none")
      BY <1>1 DEF Complete
    <2> QED
      BY <2>1, UnderstoodIs
  <1>3. p \in Options /\ p # "-i"
    BY <1>0 DEF ProbeNames
  <1>4. PICK k \in 1 .. Len(Meaning(args).inputs) : k = 1
    <2>1. Len(more) \in Nat
      BY LenProperties
    <2>2. 1 \in 1 .. 1 + Len(more)
      BY <2>1
    <2> QED
      BY <1>1, <1>2, <2>2
  <1>5. Given(Meaning(args).inputs[k].opts, {p}) # {}
    BY <1>1, <1>2, <1>4
  <1>6. Mentions(args, {p})
    BY <1>3, <1>5, InputMentions
  <1> QED
    BY <1>6, ProbesSay

\* A codec and a container are given by the caller or filled in, and not both.
Spoken(leg) == {CodecOf(leg), {"-f"}}

\* Which of the two is decided by whether the line mentions one.
LEMMA GivenOnce ==
    ASSUME NEW args \in Seq(Tokens), Usage(args), NEW I, NEW O, NEW q, NEW s, Complete(args, I, O, q, s),
           NEW leg \in Legs, NEW fs, Spells(OutputFlags(args, leg), fs),
           NEW names \in Spoken(leg), Apart(I, names)
    PROVE  Given(q \o s, names) # {} <=> Given(fs, names) = {}
  <1>1. names \subseteq Options /\ "-i" \notin names
    BY Literals DEF Spoken, CodecOf, AudioCodec, VideoCodec
  <1>2. Given(q \o s, names) # {} <=> Mentions(args, names)
    BY <1>1, OutputMentions
  <1>3. PICK value : Says(OutputFlags(args, leg), names, IF Mentions(args, names) THEN {} ELSE {value})
    <2>1. CASE names = CodecOf(leg)
      BY <2>1, FlagsSay
    <2>2. CASE names = {"-f"}
      BY <2>2, FlagsSay
    <2> QED
      BY <2>1, <2>2 DEF Spoken
  <1>4. Given(fs, names) = IF Mentions(args, names) THEN {} ELSE {value}
    BY <1>3, SpelledSays
  <1> QED
    BY <1>2, <1>4

\* What the caller gave, other than the encoder's settings, is not filled in.
LEMMA NotOverridden ==
    ASSUME NEW args \in Seq(Tokens), Usage(args), NEW I, NEW O, NEW q, NEW s, Complete(args, I, O, q, s),
           NEW leg \in Legs, NEW fs, Spells(OutputFlags(args, leg), fs),
           Apart(I, CodecOf(leg)), Apart(I, {"-f"}),
           NEW o \in Options \ EncoderSettings, Given(q \o s, {o}) # {}
    PROVE  Given(fs, {o}) = {}
  <1>1. PICK w \in Seq(Opt) : w = q \o s
    BY ConcatProperties DEF Complete
  <1>2. ASSUME NEW names, names \subseteq Options, "-i" \notin names, Apart(I, names), o \in names
        PROVE  Mentions(args, names)
    <2>1. PICK v : v \in Given(w, {o})
      BY <1>1
    <2>2. PICK i \in 1 .. Len(w) : w[i][1] \in {o} /\ v = w[i][2]
      BY <2>1, GivenIs
    <2>3. v \in Given(w, names)
      BY <1>2, <2>2, GivenIs
    <2>4. Given(q \o s, names) # {}
      BY <1>1, <2>3
    <2> QED
      BY <1>2, <2>4, OutputMentions
  <1>3. CodecOf(leg) \subseteq Options /\ "-i" \notin CodecOf(leg) /\ {"-f"} \subseteq Options /\ "-i" \notin {"-f"}
    BY Literals DEF CodecOf, AudioCodec, VideoCodec
  <1>4. Mentions(args, CodecOf(leg)) \/ o \notin CodecOf(leg)
    BY <1>2, <1>3
  <1>5. Mentions(args, {"-f"}) \/ o # "-f"
    BY <1>2, <1>3
  <1>6. Says(OutputFlags(args, leg), {o}, {})
    BY <1>4, <1>5, FlagsAddNothing
  <1> QED
    BY <1>6, SpelledSays

\* The encoder's settings are filled in for audio always, for video with the code's encoder.
LEMMA SettingsFilled ==
    ASSUME NEW args \in Seq(Tokens), Usage(args), NEW I, NEW O, NEW q, NEW s, Complete(args, I, O, q, s),
           NEW leg \in Legs, NEW fs, Spells(OutputFlags(args, leg), fs), Apart(I, CodecOf(leg))
    PROVE  Given(fs, EncoderSettings) =
               (IF leg = "audio" THEN {"48000"} ELSE IF Given(q \o s, VideoCodec) # {} THEN {} ELSE {"realtime"})
  <1>1. CASE leg = "audio"
    <2>1. Says(OutputFlags(args, leg), EncoderSettings, {"48000"})
      BY <1>1, AudioSettings
    <2>2. Given(fs, EncoderSettings) = {"48000"}
      BY <2>1, SpelledSays
    <2> QED
      BY <1>1, <2>2
  <1>2. CASE leg = "video"
    <2>1. VideoCodec \subseteq Options /\ "-i" \notin VideoCodec /\ Apart(I, VideoCodec)
      BY <1>2, Literals DEF CodecOf, VideoCodec
    <2>2. Given(q \o s, VideoCodec) # {} <=> Mentions(args, VideoCodec)
      BY <2>1, OutputMentions
    <2>3. Says(OutputFlags(args, leg), EncoderSettings, IF Mentions(args, VideoCodec) THEN {} ELSE {"realtime"})
      BY <1>2, VideoSettings
    <2>4. Given(fs, EncoderSettings) = IF Mentions(args, VideoCodec) THEN {} ELSE {"realtime"}
      BY <2>3, SpelledSays
    <2>5. leg # "audio"
      BY <1>2
    <2> QED
      BY <2>2, <2>4, <2>5
  <1> QED
    BY <1>1, <1>2 DEF Legs

\* Neither of them is raw: the caller's was looked at, and the code's is not.
LEMMA NotRaw ==
    ASSUME NEW args \in Seq(Tokens), Usage(args), NEW I, NEW O, NEW q, NEW s, Complete(args, I, O, q, s),
           NEW fs, Spells(OutputFlags(args, "audio"), fs), Apart(I, AudioCodec), Apart(I, {"-f"}),
           ~IsRaw(args, "audio")
    PROVE  /\ Given((q \o s) \o fs, AudioCodec) \cap RawCodecs = {}
           /\ Given((q \o s) \o fs, {"-f"}) \cap RawFormats = {}
  <1>1. PICK w \in Seq(Opt) : w = q \o s
    BY ConcatProperties DEF Complete
  <1>2. fs \in Seq(Opt)
    BY DEF Spells
  <1>3. AudioCodec \subseteq Options /\ {"-f"} \subseteq Options /\ "-i" \notin AudioCodec /\ "-i" \notin {"-f"}
    BY Literals DEF AudioCodec
  <1>4. Given(w, AudioCodec) = SaidOf(args, AudioCodec)
    BY <1>1, <1>3, OutputTells
  <1>5. Given(w, {"-f"}) = SaidOf(args, {"-f"})
    BY <1>1, <1>3, OutputTells
  <1>6. SaidOf(args, AudioCodec) \cap RawCodecs = {} /\ SaidOf(args, {"-f"}) \cap RawFormats = {}
    BY DEF IsRaw, SaidOf
  <1>7. Given(fs, AudioCodec) \subseteq {"libopus"}
    <2>1. Says(OutputFlags(args, "audio"), AudioCodec, IF Mentions(args, AudioCodec) THEN {} ELSE {"libopus"})
      BY AudioSays
    <2>2. Given(fs, AudioCodec) = IF Mentions(args, AudioCodec) THEN {} ELSE {"libopus"}
      BY <2>1, SpelledSays
    <2> QED
      BY <2>2
  <1>8. Given(fs, {"-f"}) \subseteq {"ogg"}
    <2>1. Says(OutputFlags(args, "audio"), {"-f"}, IF Mentions(args, {"-f"}) THEN {} ELSE {"ogg"})
      BY AudioSays
    <2>2. Given(fs, {"-f"}) = IF Mentions(args, {"-f"}) THEN {} ELSE {"ogg"}
      BY <2>1, SpelledSays
    <2> QED
      BY <2>2
  <1>9. "libopus" \notin RawCodecs /\ "ogg" \notin RawFormats
    BY OptionsAssumption DEF RawFormats
  <1>10. /\ Given(w \o fs, AudioCodec) = Given(w, AudioCodec) \cup Given(fs, AudioCodec)
         /\ Given(w \o fs, {"-f"}) = Given(w, {"-f"}) \cup Given(fs, {"-f"})
    BY <1>2, GivenBoth
  <1> QED
    BY <1>1, <1>4, <1>5, <1>6, <1>7, <1>8, <1>9, <1>10

\* What the output is written under, by the caller.
LEMMA WrittenIs ==
    ASSUME NEW O, NEW q \in Seq(Opt), NEW s \in Seq(Opt), EndsIn(O, q)
    PROVE  (IF O = <<>> THEN <<>> ELSE O[1].opts) \o s = q \o s
  <1>1. CASE O = <<>> /\ q = <<>>
    BY <1>1
  <1>2. CASE O = <<FileOf(q, "pipe:1")>>
    <2>1. PICK f : f = FileOf(q, "pipe:1")
      OBVIOUS
    <2>2. f.opts = q
      BY <2>1 DEF FileOf
    <2>3. O = <<f>>
      BY <1>2, <2>1
    <2>4. O # <<>> /\ O[1] = f
      BY <2>3
    <2> QED
      BY <2>2, <2>4
  <1> QED
    BY <1>1, <1>2 DEF EndsIn

\* What FillIsConservative says of a leg whose own line is plain.
Conserved(m, own, l) ==
    LET read == own.inputs[1].opts
        written == (IF own.outputs = <<>> THEN <<>> ELSE own.outputs[1].opts) \o own.rest
        out == m.outputs[1].opts
        Codec == IF l = "audio" THEN AudioCodec ELSE VideoCodec
        spoken(opts, names) == Given(opts, names) # {}
    IN  /\ Len(m.inputs) = Len(own.inputs) /\ Tail(m.inputs) = Tail(own.inputs)
        /\ m.inputs[1].url = own.inputs[1].url
        /\ IsPrefix(read, m.inputs[1].opts)
        /\ \A o \in Options :
               spoken(read, {o}) => ~spoken(Added(read, m.inputs[1].opts), {o})
        /\ Len(m.outputs) = 1 /\ m.outputs[1].url = "pipe:1" /\ m.rest = <<>>
        /\ IsPrefix(written, out)
        /\ \A names \in {Codec, {"-f"}} :
               spoken(written, names) = ~spoken(Added(written, out), names)
        /\ \A o \in Options \ EncoderSettings :
               spoken(written, {o}) => ~spoken(Added(written, out), {o})
        /\ Given(Added(written, out), EncoderSettings) =
               (IF l = "audio" THEN {"48000"} ELSE IF spoken(written, VideoCodec) THEN {} ELSE {"realtime"})
        /\ l = "audio" =>
               Given(out, Codec) \cap RawCodecs = {} /\ Given(out, {"-f"}) \cap RawFormats = {}

\* The same of its inputs, and of its output.
ReadAlike(m, own) ==
    LET read == own.inputs[1].opts
    IN  /\ Len(m.inputs) = Len(own.inputs) /\ Tail(m.inputs) = Tail(own.inputs)
        /\ m.inputs[1].url = own.inputs[1].url
        /\ IsPrefix(read, m.inputs[1].opts)
        /\ \A o \in Options : Given(read, {o}) # {} => ~(Given(Added(read, m.inputs[1].opts), {o}) # {})

WrittenAlike(m, own, l) ==
    LET written == (IF own.outputs = <<>> THEN <<>> ELSE own.outputs[1].opts) \o own.rest
        out == m.outputs[1].opts
    IN  /\ Len(m.outputs) = 1 /\ m.outputs[1].url = "pipe:1" /\ m.rest = <<>>
        /\ IsPrefix(written, out)
        /\ \A names \in Spoken(l) :
               (Given(written, names) # {}) = ~(Given(Added(written, out), names) # {})
        /\ \A o \in Options \ EncoderSettings :
               Given(written, {o}) # {} => ~(Given(Added(written, out), {o}) # {})
        /\ Given(Added(written, out), EncoderSettings) =
               (IF l = "audio" THEN {"48000"} ELSE IF Given(written, VideoCodec) # {} THEN {} ELSE {"realtime"})
        /\ l = "audio" =>
               Given(out, CodecOf(l)) \cap RawCodecs = {} /\ Given(out, {"-f"}) \cap RawFormats = {}

\* The inputs are the caller's, the first of them with probe options he did not give.
LEMMA ReadsAlike ==
    ASSUME NEW args \in Seq(Tokens), Usage(args), NEW leg, NEW f, NEW more, NEW O, NEW q, NEW s, NEW ps, NEW fs,
           FilledAs(args, leg, f, more, O, q, s, ps, fs)
    PROVE  ReadAlike(Meaning(EnsureFlags(args, leg)), Meaning(args))
  <1>1. /\ f \in File /\ more \in Seq(File) /\ Complete(args, <<f>> \o more, O, q, s)
        /\ Spells(MissingProbes(args), ps)
        /\ Meaning(EnsureFlags(args, leg)) =
               Understood(<<FileOf(f.opts \o ps, f.url)>> \o more, <<FileOf((q \o s) \o fs, "pipe:1")>>, <<>>, "none")
    BY DEF FilledAs
  <1>2. PICK r \in Seq(Opt), url \in Tokens : r = f.opts /\ url = f.url
    BY <1>1 DEF File
  <1>3. ps \in Seq(Opt)
    BY <1>1 DEF Spells
  <1>4. PICK a \in Seq(Opt) : a = r \o ps
    BY <1>3, ConcatProperties
  <1>5. IsPrefix(r, a) /\ Added(r, a) = ps
    BY <1>3, <1>4, JoinedPrefix
  <1>6. PICK g \in File : g = FileOf(a, url)
    BY FileOfIs
  <1>7. g.opts = a /\ g.url = url
    BY <1>6 DEF FileOf
  <1>8. PICK I : I = <<f>> \o more /\ Len(I) = 1 + Len(more) /\ I[1] = f /\ Tail(I) = more
    <2>1. <<f>> \in Seq(File) /\ Len(<<f>>) = 1
      BY <1>1, ShortSequences
    <2>2. Len(<<f>> \o more) = 1 + Len(more)
      BY <1>1, <2>1, ConcatProperties
    <2> QED
      BY <1>1, <2>2, FirstAndRest
  <1>9. PICK G : G = <<g>> \o more /\ Len(G) = 1 + Len(more) /\ G[1] = g /\ Tail(G) = more
    <2>1. <<g>> \in Seq(File) /\ Len(<<g>>) = 1
      BY ShortSequences
    <2>2. Len(<<g>> \o more) = 1 + Len(more)
      BY <1>1, <2>1, ConcatProperties
    <2> QED
      BY <1>1, <2>2, FirstAndRest
  <1>10. PICK own : own = Meaning(args) /\ own.inputs = I
    <2>1. Meaning(args) = Understood(I, O, s, "none")
      BY <1>1, <1>8 DEF Complete
    <2> QED
      BY <2>1, UnderstoodIs
  <1>11. PICK m : m = Meaning(EnsureFlags(args, leg)) /\ m.inputs = G
    <2>1. PICK out : out = <<FileOf((q \o s) \o fs, "pipe:1")>>
      OBVIOUS
    <2>2. Meaning(EnsureFlags(args, leg)) = Understood(G, out, <<>>, "none")
      BY <1>1, <1>2, <1>4, <1>6, <1>9, <2>1
    <2> QED
      BY <2>2, UnderstoodIs
  <1>12. \A p \in Options : Given(r, {p}) # {} => Given(ps, {p}) = {}
    BY <1>1, <1>2, ProbesKept
  <1>13. own.inputs[1].opts = r /\ own.inputs[1].url = url /\ Tail(own.inputs) = more /\ Len(own.inputs) = 1 + Len(more)
    BY <1>2, <1>8, <1>10
  <1>14. m.inputs[1].opts = a /\ m.inputs[1].url = url /\ Tail(m.inputs) = more /\ Len(m.inputs) = 1 + Len(more)
    BY <1>7, <1>9, <1>11
  <1>15. ReadAlike(m, own)
    BY <1>5, <1>12, <1>13, <1>14 DEF ReadAlike
  <1> QED
    BY <1>10, <1>11, <1>15

\* The output is to pipe:1 under the caller's options, with what was missing behind them.
LEMMA WritesAlike ==
    ASSUME NEW args \in Seq(Tokens), Usage(args), IsPlain(Meaning(args)), NEW leg \in Legs, ~IsRaw(args, leg),
           NEW f, NEW more, NEW O, NEW q, NEW s, NEW ps, NEW fs,
           FilledAs(args, leg, f, more, O, q, s, ps, fs)
    PROVE  WrittenAlike(Meaning(EnsureFlags(args, leg)), Meaning(args), leg)
  <1>1. PICK I : Complete(args, I, O, q, s)
    BY DEF FilledAs
  <1>2. Spells(OutputFlags(args, leg), fs)
    BY DEF FilledAs
  <1>3. fs \in Seq(Opt) /\ q \in Seq(Opt) /\ s \in Seq(Opt) /\ EndsIn(O, q)
    BY <1>1, <1>2 DEF Complete, Spells
  <1>4. PICK w \in Seq(Opt) : w = q \o s
    BY <1>3, ConcatProperties
  <1>5. PICK out \in Seq(Opt) : out = w \o fs
    BY <1>3, ConcatProperties
  <1>6. IsPrefix(w, out) /\ Added(w, out) = fs
    BY <1>3, <1>5, JoinedPrefix
  <1>7. PICK own : own = Meaning(args) /\ own.inputs = I /\ own.outputs = O /\ own.rest = s
    <2>1. Meaning(args) = Understood(I, O, s, "none")
      BY <1>1 DEF Complete
    <2> QED
      BY <2>1, UnderstoodIs
  <1>8. (IF own.outputs = <<>> THEN <<>> ELSE own.outputs[1].opts) \o own.rest = w
    <2>1. (IF O = <<>> THEN <<>> ELSE O[1].opts) \o s = w
      BY <1>3, <1>4, WrittenIs
    <2> QED
      BY <1>7, <2>1
  <1>9. PICK m, o : /\ m = Meaning(EnsureFlags(args, leg)) /\ o = FileOf(out, "pipe:1")
                    /\ m.outputs = <<o>> /\ m.rest = <<>>
    <2>1. PICK G : G = <<FileOf(f.opts \o ps, f.url)>> \o more
      OBVIOUS
    <2>2. PICK o : o = FileOf(out, "pipe:1")
      OBVIOUS
    <2>3. Meaning(EnsureFlags(args, leg)) = Understood(G, <<o>>, <<>>, "none")
      BY <1>4, <1>5, <2>1, <2>2 DEF FilledAs
    <2> QED
      BY <2>2, <2>3, UnderstoodIs
  <1>10. o.opts = out /\ o.url = "pipe:1"
    BY <1>9 DEF FileOf
  <1>11. Len(m.outputs) = 1 /\ m.outputs[1] = o
    BY <1>9
  <1>12. \A names \in SUBSET ({"-f"} \cup AudioCodec \cup VideoCodec) : Apart(I, names)
    <2>1. own \in Understanding /\ IsPlain(own)
      BY <1>7, ReadingIs, LenProperties DEF Meaning
    <2> QED
      BY <1>7, <2>1, PlainIs
  <1>13. CodecOf(leg) \subseteq {"-f"} \cup AudioCodec \cup VideoCodec
    BY DEF CodecOf
  <1>14. Apart(I, CodecOf(leg)) /\ Apart(I, {"-f"}) /\ Apart(I, AudioCodec)
    BY <1>12, <1>13
  <1>15. ASSUME NEW names \in Spoken(leg)
         PROVE  (Given(w, names) # {}) = ~(Given(fs, names) # {})
    <2>1. Apart(I, names)
      BY <1>14 DEF Spoken
    <2>2. Given(q \o s, names) # {} <=> Given(fs, names) = {}
      BY <1>1, <1>2, <2>1, GivenOnce
    <2> QED
      BY <1>4, <2>2
  <1>16. ASSUME leg = "audio"
         PROVE  Given(out, CodecOf(leg)) \cap RawCodecs = {} /\ Given(out, {"-f"}) \cap RawFormats = {}
    <2>1. Spells(OutputFlags(args, "audio"), fs) /\ ~IsRaw(args, "audio")
      BY <1>2, <1>16
    <2>2. Given((q \o s) \o fs, AudioCodec) \cap RawCodecs = {} /\ Given((q \o s) \o fs, {"-f"}) \cap RawFormats = {}
      BY <1>1, <1>14, <2>1, NotRaw
    <2>3. CodecOf(leg) = AudioCodec
      BY <1>16 DEF CodecOf
    <2> QED
      BY <1>4, <1>5, <2>2, <2>3
  <1>17. m.outputs[1].opts = out /\ m.outputs[1].url = "pipe:1"
    BY <1>10, <1>11
  <1>18. WrittenAlike(m, own, leg)
    <2>1. \A o1 \in Options \ EncoderSettings : Given(w, {o1}) # {} => Given(fs, {o1}) = {}
      BY <1>1, <1>2, <1>4, <1>14, NotOverridden
    <2>2. Given(fs, EncoderSettings) =
              (IF leg = "audio" THEN {"48000"} ELSE IF Given(w, VideoCodec) # {} THEN {} ELSE {"realtime"})
      BY <1>1, <1>2, <1>4, <1>14, SettingsFilled
    <2> QED
      BY <1>6, <1>8, <1>9, <1>11, <1>15, <1>16, <1>17, <2>1, <2>2 DEF WrittenAlike
  <1> QED
    BY <1>7, <1>9, <1>18

\* A leg of a source that was filled in runs under the caller's line, filled in.
LEMMA LineFills ==
    ASSUME SourceInv
    PROVE  FillIsConservative
  <1> SUFFICES ASSUME filled, NEW l \in Running, NEW m, m = Meaning(Args(children[l])),
                      NEW own, own = Meaning(Args(source.line[l])), IsPlain(own)
               PROVE  Conserved(m, own, l)
    BY Zenon DEF FillIsConservative, Conserved
  <1> SUFFICES ReadAlike(m, own) /\ WrittenAlike(m, own, l)
    BY DEF Conserved, ReadAlike, WrittenAlike, CodecOf, Spoken
  <1>1. /\ source \in Sources /\ source.kind # "transcode" /\ l \in Legs
        /\ MayRun(l) /\ children[l] = <<"ffmpeg">> \o Line(l)
    BY DEF SourceInv, Running
  <1>2. PICK args \in Seq(Tokens) : args = Args(source.line[l]) /\ Usage(args)
    BY <1>1, SourceIs, ArgsIs
  <1>3. PICK line : line = EnsureFlags(args, l)
    OBVIOUS
  <1>4. Line(l) = line /\ ~IsRaw(args, l)
    BY <1>1, <1>2, <1>3 DEF Line, MayRun
  <1>5. PICK f, more, O, q, s, ps, fs : FilledAs(args, l, f, more, O, q, s, ps, fs)
    BY <1>1, <1>2, Fills
  <1>6. line \in Seq(Tokens)
    BY <1>3, <1>5 DEF FilledAs
  <1>7. m = Meaning(line)
    BY <1>1, <1>4, <1>6, ArgsOfLine
  <1>8. ReadAlike(m, own)
    BY <1>2, <1>3, <1>5, <1>7, ReadsAlike
  <1>9. WrittenAlike(m, own, l)
    BY <1>1, <1>2, <1>3, <1>4, <1>5, <1>7, WritesAlike
  <1> QED
    BY <1>8, <1>9

\* from_shell and from_shells fill in what is missing and leave alone what is there, but for the
\* settings of the encoder, of which theirs come last (FillIsConservative), whatever plain line
\* the caller wrote.
THEOREM FillsConservatively == SourceSpec => []FillIsConservative
  BY OpensByTheBook, LineFills, PTL

=============================================================================
