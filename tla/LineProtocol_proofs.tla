------------------------- MODULE LineProtocol_proofs -------------------------
(***************************************************************************)
(* Proofs about how start_routine cuts a connection's reads into commands, *)
(* for every token, separator and BUFSIZE, any plain messages and every    *)
(* segmentation of their text:                                             *)
(*                                                                         *)
(*   1. the token check refuses no honest client after a first read that   *)
(*      is long enough;                                                    *)
(*   2. what find and SplitData return, by induction on the text, and that *)
(*      the fields of a line as the client builds it are read back;        *)
(*   3. where the CRLFs of a text are, and so the lines of a read;         *)
(*   4. the theorems about every state of a connection.                    *)
(***************************************************************************)
EXTENDS LineProtocol, SequenceTheorems, FiniteSetTheorems, Induction

(***************************************************************************)
(* The inductive invariant: as long as the token has not been looked for,  *)
(* nothing was read or the first read was too short for it.                *)
(***************************************************************************)
ReadInv(Char) ==
    /\ text \in Seq(Char)
    /\ TOKEN_LENGTH \in 1 .. Len(text)
    /\ Take(text, TOKEN_LENGTH) = Token
    /\ arrived \in 0 .. Len(text)
    /\ got \in 0 .. arrived

TokenInv ==
    /\ ~isVerify /\ got > 0 => short
    /\ open \/ short

(***************************************************************************)
(* The token is at the start of every read that starts with the text.      *)
(***************************************************************************)
LEMMA FirstReadHasToken ==
    ASSUME NEW S, NEW s \in Seq(S), NEW k \in 1 .. Len(s), NEW to \in k .. Len(s)
    PROVE  Take(SubSeq(s, 1, to), k) = Take(s, k)
<1>1. Len(s) \in Nat /\ 1 \in 1 .. Len(s) /\ to \in 1 .. Len(s)
      /\ 1 \in 1 .. to - 1 + 1 /\ k \in 1 .. to - 1 + 1
  BY LenProperties
<1>2. SubSeq(SubSeq(s, 1, to), 1, k) = SubSeq(s, 1 + 1 - 1, 1 + k - 1)
  BY <1>1, SubSeqOfSubSeq
<1>3. 1 + 1 - 1 = 1 /\ 1 + k - 1 = k
  BY <1>1
<1> QED
  BY <1>2, <1>3 DEF Take

LEMMA ReadStep ==
    ASSUME NEW Char, ReadInv(Char), TokenInv,
           NEW n \in 1 .. Len(text) - arrived, start_routine(n)
    PROVE  TokenInv' /\ ReadInv(Char)'
<1> DEFINE to == ReadLimit(arrived + n)
           chunk == SubSeq(text, got + 1, to)
           check == ChecksToken(to - got)
           refused == check /\ Take(chunk, TOKEN_LENGTH) # Token
<1>1. /\ open /\ arrived' = arrived + n /\ got' = to
      /\ isVerify' <=> (isVerify \/ check)
      /\ open' <=> ~refused
      /\ text' = text
      /\ short' <=> (short \/ (got = 0 /\ to < TOKEN_LENGTH))
  BY DEF start_routine
<1>2. /\ to = IF (arrived + n) - got <= BufSize THEN arrived + n ELSE got + BufSize
      /\ chunk = SubSeq(text, got + 1, to)
      /\ check <=> (to - got >= TOKEN_LENGTH /\ ~isVerify)
      /\ refused <=> (check /\ Take(chunk, TOKEN_LENGTH) # Token)
  <2>1. to = IF (arrived + n) - got <= BufSize THEN arrived + n ELSE got + BufSize
    BY DEF ReadLimit
  <2> HIDE DEF to
  <2> QED
    BY <2>1 DEF ChecksToken
<1> HIDE DEF to, chunk, check, refused
<1>3. /\ Len(text) \in Nat /\ TOKEN_LENGTH \in Nat /\ arrived \in Nat /\ got \in Nat
      /\ got <= arrived /\ arrived + n <= Len(text) /\ n \in Nat \ {0}
  BY LenProperties DEF ReadInv
<1>4. BufSize \in Nat \ {0}
  BY LineAssumption
<1>5. to \in got + 1 .. arrived + n
  BY <1>2, <1>3, <1>4
<1>6. ~isVerify' /\ got' > 0 => short'
  <2> SUFFICES ASSUME ~isVerify' PROVE short'
    OBVIOUS
  <2>1. ~isVerify /\ ~check
    BY <1>1
  <2>2. got = 0 => to < TOKEN_LENGTH
    BY <1>2, <1>3, <1>5, <2>1
  <2>3. got > 0 => short
    BY <2>1 DEF TokenInv
  <2> QED
    BY <1>1, <1>3, <2>2, <2>3
<1>7. open' \/ short'
  <2>1. CASE got = 0 /\ check
    <3>1. to \in TOKEN_LENGTH .. Len(text) /\ TOKEN_LENGTH \in 1 .. Len(text)
          /\ text \in Seq(Char)
      BY <1>2, <1>3, <1>5, <2>1 DEF ReadInv
    <3>2. chunk = SubSeq(text, 1, to)
      BY <1>2, <2>1
    <3>3. Take(SubSeq(text, 1, to), TOKEN_LENGTH) = Take(text, TOKEN_LENGTH)
      BY <3>1, FirstReadHasToken
    <3> QED
      BY <1>1, <1>2, <3>2, <3>3 DEF ReadInv
  <2>2. CASE got # 0 /\ check
    <3>1. ~isVerify
      BY <1>2, <2>2
    <3> QED
      BY <1>1, <1>3, <2>2, <3>1 DEF TokenInv
  <2>3. CASE ~check
    BY <1>1, <1>2, <2>3
  <2> QED
    BY <2>1, <2>2, <2>3
<1> QED
  BY <1>1, <1>3, <1>5, <1>6, <1>7 DEF TokenInv, ReadInv, Take, TOKEN_LENGTH

(***************************************************************************)
(* A client whose text begins with the token is never closed by the check, *)
(* however its lines are cut into segments, unless the first read is       *)
(* shorter than the token.                                                 *)
(***************************************************************************)
THEOREM HonestClientNotRefused ==
    ASSUME NEW Char, TextsBeginWithToken(Char)
    PROVE  Spec => []HonestClientStays
<1> DEFINE Inv == ReadInv(Char) /\ TokenInv
<1>1. Init => Inv
  <2> SUFFICES ASSUME Init PROVE Inv
    OBVIOUS
  <2>1. text \in Seq(Char) /\ TOKEN_LENGTH \in 1 .. Len(text)
        /\ Take(text, TOKEN_LENGTH) = Token
    BY DEF Init, TextsBeginWithToken
  <2>2. Len(text) \in Nat /\ arrived = 0 /\ got = 0 /\ open = TRUE
    BY <2>1, LenProperties DEF Init
  <2> QED
    BY <2>1, <2>2 DEF ReadInv, TokenInv
<1>2. Inv /\ [Next]_vars => Inv'
  <2> SUFFICES ASSUME Inv, [Next]_vars PROVE Inv'
    OBVIOUS
  <2>1. CASE Next
    BY <2>1, ReadStep DEF Next
  <2>2. CASE UNCHANGED vars
    BY <2>2 DEF vars, ReadInv, TokenInv, Take, TOKEN_LENGTH
  <2> QED
    BY <2>1, <2>2
<1>3. Inv => HonestClientStays
  BY DEF TokenInv, HonestClientStays
<1> QED
  BY <1>1, <1>2, <1>3, PTL DEF Spec

-----------------------------------------------------------------------------
(* What SplitData returns. *)

(***************************************************************************)
(* std::string::find: the first place from i on where d begins.            *)
(***************************************************************************)
LEMMA FindFirst ==
    ASSUME NEW s, NEW d, Len(s) \in Nat, Len(d) \in Nat \ {0},
           NEW i \in 1 .. Len(s) + 1, Found(s, d, i)
    PROVE  /\ Find(s, d, i) \in i .. Len(s)
           /\ At(s, d, Find(s, d, i))
           /\ \A k \in i .. Find(s, d, i) - 1 : ~At(s, d, k)
           /\ Find(s, d, i) + Len(d) \in i + 1 .. Len(s) + 1
<1> DEFINE T == {j \in i .. Len(s) : At(s, d, j)}
           First(j) == At(s, d, j) /\ \A k \in i .. j - 1 : ~At(s, d, k)
<1>1. PICK x \in T : \A y \in T : x <= y
  <2>1. T \subseteq Nat /\ T # {}
    BY DEF Found
  <2> HIDE DEF T
  <2> QED
    BY <2>1, LeastNumber
<1>2. x \in i .. Len(s) /\ First(x)
  BY <1>1
<1>3. Find(s, d, i) = CHOOSE j \in i .. Len(s) : First(j)
  BY DEF Find
<1>4. Find(s, d, i) \in i .. Len(s) /\ First(Find(s, d, i))
  <2> HIDE DEF First
  <2> QED
    BY <1>2, <1>3
<1>5. Find(s, d, i) + Len(d) - 1 <= Len(s)
  BY <1>4 DEF At
<1> QED
  BY <1>4, <1>5

(***************************************************************************)
(* The recursive definition of SplitData has a solution.                   *)
(***************************************************************************)
Pieces(g, s, d) ==
    g = [i \in 1 .. Len(s) + 1 |->
            IF Found(s, d, i)
            THEN <<SubSeq(s, i, Find(s, d, i) - 1)>> \o g[Find(s, d, i) + Len(d)]
            ELSE <<>>]

LEMMA PiecesExist ==
    ASSUME NEW s, NEW d, Len(s) \in Nat, Len(d) \in Nat \ {0}
    PROVE  \E g : Pieces(g, s, d)
<1> DEFINE n == Len(s) + 1
           Rest(g, i) == IF Found(s, d, i)
                         THEN <<SubSeq(s, i, Find(s, d, i) - 1)>> \o g[Find(s, d, i) + Len(d)]
                         ELSE <<>>
           From(g, m) == \A i \in n - m .. n : g[i] = Rest(g, i)
           P == {m \in 0 .. n - 1 : \E g : From(g, m)}
<1>0. n \in Nat \ {0} /\ \A i \in 1 .. n : Found(s, d, i) => Find(s, d, i) + Len(d) \in i + 1 .. n
  BY FindFirst
<1>1. 0 \in P
  <2> DEFINE g == [i \in 1 .. n |-> <<>>]
  <2>1. ~Found(s, d, n)
    BY DEF Found
  <2>2. From(g, 0)
    BY <1>0, <2>1
  <2> HIDE DEF g, From
  <2> QED
    BY <1>0, <2>2
<1>2. ASSUME NEW m \in 0 .. (n - 1) - 1, m \in P PROVE m + 1 \in P
  <2>1. PICK g : From(g, m)
    BY <1>2
  <2> HIDE DEF n
  <2> DEFINE e == n - (m + 1)
             h == [i \in 1 .. n |-> IF i = e THEN Rest(g, e) ELSE g[i]]
  <2>2. e \in 1 .. n
    BY <1>0
  <2>3. ASSUME NEW i \in n - (m + 1) .. n PROVE h[i] = Rest(h, i)
    <3>1. i \in 1 .. n
      BY <1>0
    <3>2. CASE ~Found(s, d, i)
      <4>1. CASE i = e
        BY <3>1, <3>2, <4>1
      <4>2. CASE i # e
        <5>1. i \in n - m .. n
          BY <1>0, <4>2
        <5> QED
          BY <2>1, <3>1, <3>2, <4>2, <5>1
      <4> QED
        BY <4>1, <4>2
    <3>3. CASE Found(s, d, i)
      <4> DEFINE f == Find(s, d, i) + Len(d)
      <4>1. f \in i + 1 .. n /\ f \in 1 .. n /\ f # e
        BY <1>0, <3>1, <3>3
      <4>2. h[f] = g[f]
        BY <4>1
      <4>3. CASE i = e
        BY <3>1, <3>3, <4>2, <4>3
      <4>4. CASE i # e
        <5>1. i \in n - m .. n
          BY <1>0, <4>4
        <5>2. h[i] = g[i] /\ g[i] = Rest(g, i)
          BY <2>1, <3>1, <4>4, <5>1
        <5> QED
          BY <3>3, <4>2, <5>2
      <4> QED
        BY <4>3, <4>4
    <3> QED
      BY <3>2, <3>3
  <2>4. From(h, m + 1)
    BY <2>3
  <2>5. m + 1 \in 0 .. n - 1
    BY <1>0
  <2> HIDE DEF h, From
  <2> QED
    BY <2>4, <2>5
<1>3. PICK g : From(g, n - 1)
  <2>1. n - 1 \in Nat /\ n - 1 \in 0 .. n - 1
    BY <1>0
  <2>2. \A m \in 0 .. n - 1 : m \in P
    <3> HIDE DEF P, n
    <3> QED
      BY <1>1, <1>2, <2>1, UpTo
  <2>3. n - 1 \in P
    BY <2>1, <2>2
  <2> QED
    BY <2>3
<1> DEFINE h == [i \in 1 .. n |-> g[i]]
<1>4. ASSUME NEW i \in 1 .. n PROVE h[i] = Rest(h, i)
  <2>1. g[i] = Rest(g, i)
    <3>1. i \in n - (n - 1) .. n
      <4> HIDE DEF n
      <4> QED
        BY <1>0
    <3> HIDE DEF Rest, n
    <3> QED
      BY <1>3, <3>1
  <2>2. Found(s, d, i) => h[Find(s, d, i) + Len(d)] = g[Find(s, d, i) + Len(d)]
    BY <1>0
  <2> QED
    BY <2>1, <2>2
<1>5. Pieces(h, s, d)
  BY <1>4 DEF Pieces
<1> HIDE DEF h
<1> QED
  BY <1>5

LEMMA SplitPieces ==
    ASSUME NEW s, NEW d, Len(s) \in Nat, Len(d) \in Nat \ {0}
    PROVE  \E g : Pieces(g, s, d) /\ SplitData(s, d) = g[1]
<1> DEFINE pieces[i \in 1 .. Len(s) + 1] ==
               IF Found(s, d, i)
               THEN <<SubSeq(s, i, Find(s, d, i) - 1)>> \o pieces[Find(s, d, i) + Len(d)]
               ELSE IF FALSE /\ i <= Len(s) THEN <<SubSeq(s, i, Len(s))>> ELSE <<>>
<1>1. SplitData(s, d) = pieces[1]
  BY DEF SplitData, Split
<1>2. pieces = CHOOSE g : Pieces(g, s, d)
  BY DEF Pieces
<1> HIDE DEF pieces
<1> QED
  BY <1>1, <1>2, PiecesExist

(***************************************************************************)
(* When two delimiters never overlap, there is one piece for each of them: *)
(* the one that ends at j is as far from the end of the list as there are  *)
(* delimiters behind j, and begins behind the delimiter before it.         *)
(***************************************************************************)
Ats(s, d, i) == {j \in i .. Len(s) : At(s, d, j)}

Behind(s, d, i, j) == {k \in Ats(s, d, i) : k > j}

Apart(s, d) == \A j, k \in Ats(s, d, 1) : j < k => j + Len(d) <= k

PieceBefore(s, d, i, list, j) ==
    \E p \in i .. j :
        /\ \A k \in p .. j - 1 : ~At(s, d, k)
        /\ p = i \/ p - Len(d) \in Ats(s, d, i)
        /\ list[Len(list) - Cardinality(Behind(s, d, i, j))] = SubSeq(s, p, j - 1)

OnePieceEach(s, d, C, i, list) ==
    /\ list \in Seq(Seq(C))
    /\ Len(list) = Cardinality(Ats(s, d, i))
    /\ \A j \in Ats(s, d, i) : PieceBefore(s, d, i, list, j)

LEMMA AtsFinite ==
    ASSUME NEW s, NEW d, Len(s) \in Nat, NEW i \in Nat
    PROVE  /\ IsFiniteSet(Ats(s, d, i)) /\ Cardinality(Ats(s, d, i)) \in Nat
           /\ \A j \in Ats(s, d, i) :
                 /\ IsFiniteSet(Behind(s, d, i, j)) /\ Cardinality(Behind(s, d, i, j)) \in Nat
                 /\ Cardinality(Behind(s, d, i, j)) < Cardinality(Ats(s, d, i))
<1>1. IsFiniteSet(i .. Len(s)) /\ Ats(s, d, i) \in SUBSET (i .. Len(s))
  BY FS_Interval DEF Ats
<1>2. IsFiniteSet(Ats(s, d, i)) /\ Cardinality(Ats(s, d, i)) \in Nat
  BY <1>1, FS_Subset, FS_CardinalityType
<1>3. ASSUME NEW j \in Ats(s, d, i)
      PROVE  /\ IsFiniteSet(Behind(s, d, i, j)) /\ Cardinality(Behind(s, d, i, j)) \in Nat
             /\ Cardinality(Behind(s, d, i, j)) < Cardinality(Ats(s, d, i))
  <2>1. Behind(s, d, i, j) \in SUBSET Ats(s, d, i) /\ j \notin Behind(s, d, i, j)
    BY <1>1 DEF Behind
  <2>2. IsFiniteSet(Behind(s, d, i, j)) /\ Cardinality(Behind(s, d, i, j)) \in Nat
    BY <1>2, <2>1, FS_Subset, FS_CardinalityType
  <2>3. /\ Cardinality(Behind(s, d, i, j)) <= Cardinality(Ats(s, d, i))
        /\ Cardinality(Ats(s, d, i)) = Cardinality(Behind(s, d, i, j))
               => Ats(s, d, i) = Behind(s, d, i, j)
    BY <1>2, <2>1, FS_Subset
  <2> QED
    BY <1>2, <2>1, <2>2, <2>3
<1> QED
  BY <1>2, <1>3

\* One more piece in front of the others.
LEMMA PieceInFront ==
    ASSUME NEW C, NEW s \in Seq(C), NEW d, Len(d) \in Nat \ {0}, Apart(s, d),
           NEW i \in 1 .. Len(s) + 1, Found(s, d, i),
           NEW rest, OnePieceEach(s, d, C, Find(s, d, i) + Len(d), rest)
    PROVE  OnePieceEach(s, d, C, i, <<SubSeq(s, i, Find(s, d, i) - 1)>> \o rest)
<1> DEFINE f == Find(s, d, i)
           e == f + Len(d)
           first == SubSeq(s, i, f - 1)
           list == <<first>> \o rest
<1>0. Len(s) \in Nat
  BY LenProperties
<1>1. /\ f \in i .. Len(s) /\ At(s, d, f) /\ e \in i + 1 .. Len(s) + 1
      /\ \A k \in i .. f - 1 : ~At(s, d, k)
  BY <1>0, FindFirst
<1> HIDE DEF f
<1>2. e \in Nat /\ i \in Nat /\ e > f /\ e - Len(d) = f
  BY <1>0, <1>1
<1>3. Ats(s, d, i) = Ats(s, d, e) \cup {f} /\ f \notin Ats(s, d, e)
  <2>1. f \in Ats(s, d, i) /\ f \in Ats(s, d, 1) /\ f \notin Ats(s, d, e)
    BY <1>0, <1>1, <1>2 DEF Ats
  <2>2. ASSUME NEW j \in Ats(s, d, i), j # f PROVE j \in Ats(s, d, e)
    <3>1. j \in Ats(s, d, 1) /\ j \in i .. Len(s) /\ At(s, d, j)
      BY <1>0 DEF Ats
    <3>2. j > f
      BY <1>0, <1>1, <2>2, <3>1
    <3>3. e <= j
      BY <2>1, <3>1, <3>2 DEF Apart
    <3> QED
      BY <1>0, <1>1, <3>1, <3>3 DEF Ats
  <2>3. Ats(s, d, e) \subseteq Ats(s, d, i)
    BY <1>0, <1>1, <1>2 DEF Ats
  <2> QED
    BY <2>1, <2>2, <2>3
<1>4. /\ IsFiniteSet(Ats(s, d, e)) /\ Cardinality(Ats(s, d, e)) \in Nat
      /\ Cardinality(Ats(s, d, i)) = Cardinality(Ats(s, d, e)) + 1
  BY <1>0, <1>2, <1>3, AtsFinite, FS_AddElement
<1>5. rest \in Seq(Seq(C)) /\ Len(rest) = Cardinality(Ats(s, d, e))
  BY DEF OnePieceEach, f
<1>6. first \in Seq(C)
  BY <1>0, <1>1, <1>2
<1> HIDE DEF first
<1>7. /\ list \in Seq(Seq(C)) /\ Len(list) = Len(rest) + 1 /\ list[1] = first
      /\ \A x \in 1 .. Len(rest) : list[x + 1] = rest[x]
  BY <1>5, <1>6
<1> HIDE DEF list
<1>8. PieceBefore(s, d, i, list, f)
  <2>1. Behind(s, d, i, f) = Ats(s, d, e)
    BY <1>0, <1>1, <1>2, <1>3 DEF Behind, Ats
  <2>2. Len(list) - Cardinality(Behind(s, d, i, f)) = 1
    BY <1>4, <1>5, <1>7, <2>1
  <2>3. list[Len(list) - Cardinality(Behind(s, d, i, f))] = SubSeq(s, i, f - 1)
    BY <1>7, <2>2 DEF first
  <2>4. i \in i .. f
    BY <1>1, <1>2
  <2> QED
    BY <1>1, <2>3, <2>4 DEF PieceBefore
<1>9. ASSUME NEW j \in Ats(s, d, e) PROVE PieceBefore(s, d, i, list, j)
  <2>1. j \in e .. Len(s) /\ j > f
    BY <1>0, <1>1, <1>2 DEF Ats
  <2>2. Behind(s, d, i, j) = Behind(s, d, e, j)
    BY <1>0, <1>1, <1>3, <2>1 DEF Behind
  <2> DEFINE b == Cardinality(Behind(s, d, e, j))
  <2>3. b \in Nat /\ b < Len(rest)
    BY <1>0, <1>2, <1>5, AtsFinite
  <2>4. PICK p \in e .. j :
               /\ \A k \in p .. j - 1 : ~At(s, d, k)
               /\ p = e \/ p - Len(d) \in Ats(s, d, e)
               /\ rest[Len(rest) - b] = SubSeq(s, p, j - 1)
    BY DEF OnePieceEach, PieceBefore, f
  <2> HIDE DEF b
  <2>5. p \in i .. j /\ p - Len(d) \in Ats(s, d, i)
    BY <1>0, <1>1, <1>2, <1>3, <2>1, <2>4
  <2>6. list[Len(list) - b] = rest[Len(rest) - b]
    <3>1. Len(rest) - b \in 1 .. Len(rest) /\ Len(list) - b = (Len(rest) - b) + 1
      <4> DEFINE n == Len(rest)
      <4>1. n \in Nat /\ Len(list) = n + 1 /\ b \in Nat /\ b < n
        BY <1>4, <1>5, <1>7, <2>3
      <4> HIDE DEF n
      <4>2. n - b \in 1 .. n /\ (n + 1) - b = (n - b) + 1
        BY <4>1
      <4> QED
        BY <4>1, <4>2 DEF n
    <3> QED
      BY <1>7, <3>1
  <2> QED
    BY <2>2, <2>4, <2>5, <2>6 DEF PieceBefore, b
<1> QED
  BY <1>3, <1>4, <1>5, <1>7, <1>8, <1>9 DEF OnePieceEach, f, first, list

LEMMA SplitOnePieceEach ==
    ASSUME NEW C, NEW s \in Seq(C), NEW d, Len(d) \in Nat \ {0}, Apart(s, d)
    PROVE  OnePieceEach(s, d, C, 1, SplitData(s, d))
<1> DEFINE n == Len(s) + 1
<1>0. n \in Nat /\ n - 1 = Len(s) /\ Len(s) \in Nat
  BY LenProperties
<1>1. PICK g : Pieces(g, s, d) /\ SplitData(s, d) = g[1]
  BY <1>0, SplitPieces
<1> DEFINE P == {i \in Nat : OnePieceEach(s, d, C, i, g[i])}
<1>2. ASSUME NEW i \in 1 .. n, \A j \in i + 1 .. n : j \in P PROVE i \in P
  <2>1. CASE Found(s, d, i)
    <3>1. g[i] = <<SubSeq(s, i, Find(s, d, i) - 1)>> \o g[Find(s, d, i) + Len(d)]
      BY <1>1, <2>1 DEF Pieces
    <3>2. Find(s, d, i) + Len(d) \in i + 1 .. n
      BY <1>0, <2>1, FindFirst
    <3>3. OnePieceEach(s, d, C, Find(s, d, i) + Len(d), g[Find(s, d, i) + Len(d)])
      BY <1>2, <3>2
    <3>4. OnePieceEach(s, d, C, i, g[i])
      BY <2>1, <3>1, <3>3, PieceInFront
    <3> QED
      BY <1>0, <3>4
  <2>2. CASE ~Found(s, d, i)
    <3>1. g[i] = <<>>
      BY <1>1, <2>2 DEF Pieces
    <3>2. Ats(s, d, i) = {}
      BY <2>2 DEF Found, Ats
    <3>3. g[i] \in Seq(Seq(C)) /\ Len(g[i]) = 0
      BY <3>1
    <3>4. OnePieceEach(s, d, C, i, g[i])
      BY <3>2, <3>3, FS_EmptySet DEF OnePieceEach
    <3> QED
      BY <1>0, <3>4
  <2> QED
    BY <2>1, <2>2
<1>3. \A i \in 1 .. n : i \in P
  <2> HIDE DEF P, n
  <2> QED
    BY <1>0, <1>2, DownFrom
<1> QED
  BY <1>0, <1>1, <1>3

-----------------------------------------------------------------------------
(* How the lines lie in the text. *)

(***************************************************************************)
(* The recursive definition of Concat has a solution, and its values are   *)
(* what the first sequences come to.                                       *)
(***************************************************************************)
Glue(s, t) == s \o t

Joined(a, seqs) ==
    a = [i \in 0 .. Len(seqs) |-> IF i = 0 THEN <<>> ELSE Glue(a[i - 1], seqs[i])]

LEMMA JoinedExists ==
    ASSUME NEW seqs, Len(seqs) \in Nat
    PROVE  \E a : Joined(a, seqs)
<1> DEFINE Upto(a, n) == a = [i \in 0 .. n |-> IF i = 0 THEN <<>> ELSE Glue(a[i - 1], seqs[i])]
           P == {n \in Nat : \E a : Upto(a, n)}
<1>1. 0 \in P
  <2>1. Upto([i \in 0 .. 0 |-> <<>>], 0)
    OBVIOUS
  <2> QED
    BY <2>1
<1>2. ASSUME NEW n \in 0 .. Len(seqs) - 1, n \in P PROVE n + 1 \in P
  <2>1. PICK a : Upto(a, n)
    BY <1>2
  <2> DEFINE b == [i \in 0 .. n + 1 |-> IF i <= n THEN a[i] ELSE Glue(a[n], seqs[n + 1])]
  <2>2. \A i \in 0 .. n : a[i] = IF i = 0 THEN <<>> ELSE Glue(a[i - 1], seqs[i])
    BY <2>1
  <2>3. ASSUME NEW i \in 0 .. n + 1
        PROVE  b[i] = IF i = 0 THEN <<>> ELSE Glue(b[i - 1], seqs[i])
    <3>1. CASE i = 0
      BY <2>2, <3>1
    <3>2. CASE i # 0 /\ i <= n
      <4>1. i - 1 \in 0 .. n /\ i - 1 \in 0 .. n + 1 /\ i \in 0 .. n
        BY <3>2
      <4>2. b[i] = a[i] /\ b[i - 1] = a[i - 1]
        BY <4>1
      <4> QED
        BY <2>2, <3>2, <4>1, <4>2
    <3>3. CASE i = n + 1
      <4>1. n \in 0 .. n + 1 /\ i - 1 = n /\ ~(i <= n) /\ i # 0
        BY <3>3
      <4>2. b[i] = Glue(a[n], seqs[n + 1]) /\ b[i - 1] = a[n]
        BY <4>1, <3>3
      <4> QED
        BY <3>3, <4>1, <4>2
    <3> QED
      BY <3>1, <3>2, <3>3
  <2>4. Upto(b, n + 1)
    BY <2>3
  <2> HIDE DEF b, Upto
  <2> QED
    BY <2>4
<1>3. Len(seqs) \in P
  <2> HIDE DEF P
  <2>1. \A i \in 0 .. Len(seqs) : i \in P
    BY <1>1, <1>2, UpTo
  <2> QED
    BY <2>1
<1> QED
  BY <1>3 DEF Joined

LEMMA ConcatJoined ==
    ASSUME NEW seqs, Len(seqs) \in Nat
    PROVE  \E a : Joined(a, seqs) /\ Concat(seqs) = a[Len(seqs)]
<1> DEFINE all[i \in 0 .. Len(seqs)] == IF i = 0 THEN <<>> ELSE all[i - 1] \o seqs[i]
<1>1. Concat(seqs) = all[Len(seqs)]
  BY DEF Concat
<1>2. all = CHOOSE a : Joined(a, seqs)
  BY DEF Joined, Glue
<1> HIDE DEF all
<1> QED
  BY <1>1, <1>2, JoinedExists

LEMMA TakeFacts ==
    ASSUME NEW S, NEW s \in Seq(S), NEW j \in 0 .. Len(s)
    PROVE  /\ Take(s, j) \in Seq(S) /\ Len(Take(s, j)) = j
           /\ \A i \in 1 .. j : Take(s, j)[i] = s[i]
  BY LenProperties DEF Take

LEMMA ConcatStep ==
    ASSUME NEW C, NEW seqs \in Seq(Seq(C))
    PROVE  /\ Concat(Take(seqs, 0)) = <<>>
           /\ \A j \in 1 .. Len(seqs) :
                 Concat(Take(seqs, j)) = Concat(Take(seqs, j - 1)) \o seqs[j]
           /\ Concat(Take(seqs, Len(seqs))) = Concat(seqs)
<1> DEFINE n == Len(seqs)
<1>1. n \in Nat
  BY LenProperties
<1>2. PICK a : Joined(a, seqs) /\ Concat(seqs) = a[n]
  BY <1>1, ConcatJoined
<1>3. a[0] = <<>> /\ \A i \in 1 .. n : a[i] = Glue(a[i - 1], seqs[i])
  <2>1. \A i \in 0 .. n : a[i] = IF i = 0 THEN <<>> ELSE Glue(a[i - 1], seqs[i])
    <3> DEFINE f == [i \in 0 .. n |-> IF i = 0 THEN <<>> ELSE Glue(a[i - 1], seqs[i])]
    <3>1. a = f
      BY <1>2 DEF Joined
    <3>2. \A i \in 0 .. n : f[i] = IF i = 0 THEN <<>> ELSE Glue(a[i - 1], seqs[i])
      OBVIOUS
    <3> HIDE DEF f
    <3> QED
      BY <3>1, <3>2
  <2> HIDE DEF n
  <2>2. 0 \in 0 .. n /\ \A i \in 1 .. n : i \in 0 .. n /\ i # 0
    BY <1>1
  <2> QED
    BY <2>1, <2>2
<1>4. ASSUME NEW j \in 0 .. n PROVE Concat(Take(seqs, j)) = a[j]
  <2>1. Len(Take(seqs, j)) = j /\ \A i \in 1 .. j : Take(seqs, j)[i] = seqs[i]
    BY <1>1, TakeFacts
  <2>2. PICK b : Joined(b, Take(seqs, j)) /\ Concat(Take(seqs, j)) = b[j]
    BY <1>1, <2>1, ConcatJoined
  <2>3. b[0] = <<>> /\ \A i \in 1 .. j : b[i] = Glue(b[i - 1], seqs[i])
    BY <1>1, <2>1, <2>2 DEF Joined
  <2> DEFINE P == {i \in Nat : b[i] = a[i]}
  <2>4. 0 \in P
    BY <1>3, <2>3
  <2>5. ASSUME NEW i \in 0 .. j - 1, i \in P PROVE i + 1 \in P
    <3>1. i + 1 \in 1 .. j /\ i + 1 \in 1 .. n /\ (i + 1) - 1 = i /\ i + 1 \in Nat
      BY <1>1
    <3>2. b[i + 1] = Glue(b[i], seqs[i + 1]) /\ a[i + 1] = Glue(a[i], seqs[i + 1])
      BY <1>3, <2>3, <3>1
    <3> QED
      BY <2>5, <3>1, <3>2
  <2>6. j \in P
    <3> HIDE DEF P
    <3>1. j \in Nat
      BY <1>1
    <3>2. \A i \in 0 .. j : i \in P
      BY <2>4, <2>5, <3>1, UpTo
    <3> QED
      BY <3>1, <3>2
  <2> QED
    BY <2>2, <2>6
<1>5. 0 \in 0 .. n /\ n \in 0 .. n /\ \A j \in 1 .. n : j \in 0 .. n /\ j - 1 \in 0 .. n
  BY <1>1
<1> QED
  BY <1>2, <1>3, <1>4, <1>5 DEF Glue

(***************************************************************************)
(* Where the j-th sequence ends, and which characters are before that.     *)
(***************************************************************************)
Ends(seqs, j) == Len(Concat(Take(seqs, j)))

LEMMA ConcatType ==
    ASSUME NEW C, NEW seqs \in Seq(Seq(C))
    PROVE  /\ Concat(seqs) \in Seq(C) /\ Ends(seqs, Len(seqs)) = Len(Concat(seqs))
           /\ \A j \in 0 .. Len(seqs) : Concat(Take(seqs, j)) \in Seq(C) /\ Ends(seqs, j) \in Nat
           /\ Ends(seqs, 0) = 0
           /\ \A j \in 1 .. Len(seqs) : Ends(seqs, j) = Ends(seqs, j - 1) + Len(seqs[j])
<1> DEFINE n == Len(seqs)
           P == {j \in Nat : Concat(Take(seqs, j)) \in Seq(C)}
<1>1. n \in Nat /\ \A j \in 1 .. n : seqs[j] \in Seq(C)
  BY LenProperties, ElementOfSeq
<1>2. 0 \in P
  <2>1. Concat(Take(seqs, 0)) = <<>>
    BY ConcatStep
  <2>2. <<>> \in Seq(C)
    OBVIOUS
  <2> QED
    BY <2>1, <2>2
<1>3. ASSUME NEW i \in 0 .. n - 1, i \in P PROVE i + 1 \in P
  <2>1. i + 1 \in 1 .. n /\ (i + 1) - 1 = i /\ i + 1 \in Nat
    BY <1>1
  <2>2. Concat(Take(seqs, i + 1)) = Concat(Take(seqs, i)) \o seqs[i + 1]
    BY <2>1, ConcatStep
  <2>3. Concat(Take(seqs, i)) \o seqs[i + 1] \in Seq(C)
    BY <1>1, <1>3, <2>1
  <2> QED
    BY <2>1, <2>2, <2>3
<1>4. \A j \in 0 .. n : Concat(Take(seqs, j)) \in Seq(C)
  <2> HIDE DEF P
  <2>1. \A j \in 0 .. n : j \in P
    BY <1>1, <1>2, <1>3, UpTo
  <2> QED
    BY <2>1 DEF P
<1>5. \A j \in 0 .. n : Ends(seqs, j) \in Nat
  BY <1>4, LenProperties DEF Ends
<1>6. ASSUME NEW j \in 1 .. n PROVE Ends(seqs, j) = Ends(seqs, j - 1) + Len(seqs[j])
  <2>1. Concat(Take(seqs, j)) = Concat(Take(seqs, j - 1)) \o seqs[j]
    BY ConcatStep
  <2>2. Concat(Take(seqs, j - 1)) \in Seq(C) /\ seqs[j] \in Seq(C)
    BY <1>1, <1>4
  <2> QED
    BY <2>1, <2>2 DEF Ends
<1>7. Ends(seqs, 0) = 0 /\ Ends(seqs, n) = Len(Concat(seqs))
  <2>1. Concat(Take(seqs, 0)) = <<>> /\ Concat(Take(seqs, n)) = Concat(seqs)
    BY ConcatStep
  <2>2. Len(<<>>) = 0
    OBVIOUS
  <2> QED
    BY <2>1, <2>2 DEF Ends
<1>8. n \in 0 .. n
  BY <1>1
<1>9. Concat(seqs) \in Seq(C)
  BY <1>4, <1>8, ConcatStep
<1> QED
  BY <1>4, <1>5, <1>6, <1>7, <1>9

LEMMA EndsGrow ==
    ASSUME NEW C, NEW seqs \in Seq(Seq(C)), NEW j \in 0 .. Len(seqs), NEW k \in j .. Len(seqs)
    PROVE  Ends(seqs, j) <= Ends(seqs, k)
<1> DEFINE P == {i \in Nat : Ends(seqs, j) <= Ends(seqs, j + i)}
<1>1. Len(seqs) \in Nat /\ \A i \in 1 .. Len(seqs) : Len(seqs[i]) \in Nat
  BY LenProperties, ElementOfSeq
<1>2. 0 \in P
  BY <1>1, ConcatType
<1>3. ASSUME NEW i \in 0 .. (k - j) - 1, i \in P PROVE i + 1 \in P
  <2>1. j + (i + 1) \in 1 .. Len(seqs) /\ (j + (i + 1)) - 1 = j + i /\ j + i \in 0 .. Len(seqs)
    BY <1>1
  <2>2. Ends(seqs, j + (i + 1)) = Ends(seqs, j + i) + Len(seqs[j + (i + 1)])
    BY <2>1, ConcatType
  <2>3. Ends(seqs, j + i) \in Nat /\ Ends(seqs, j) \in Nat
    BY <2>1, ConcatType
  <2> QED
    BY <1>1, <1>3, <2>1, <2>2, <2>3
<1>4. k - j \in P
  <2> HIDE DEF P
  <2>1. k - j \in Nat
    BY <1>1
  <2>2. \A i \in 0 .. k - j : i \in P
    BY <1>2, <1>3, <2>1, UpTo
  <2> QED
    BY <2>1, <2>2
<1> QED
  BY <1>1, <1>4

LEMMA GlueChars ==
    ASSUME NEW C, NEW s \in Seq(C), NEW t \in Seq(C)
    PROVE  /\ \A x \in 1 .. Len(s) : (s \o t)[x] = s[x]
           /\ \A x \in 1 .. Len(t) : (s \o t)[Len(s) + x] = t[x]
<1>1. \A x \in 1 .. Len(s) : (s \o t)[x] = s[x]
  BY ConcatProperties
<1>2. ASSUME NEW x \in 1 .. Len(t) PROVE (s \o t)[Len(s) + x] = t[x]
  <2>1. Len(s) \in Nat /\ Len(t) \in Nat
    BY LenProperties
  <2> QED
    BY <2>1, ConcatProperties
<1> QED
  BY <1>1, <1>2

LEMMA ConcatChars ==
    ASSUME NEW C, NEW seqs \in Seq(Seq(C)),
           NEW j \in 1 .. Len(seqs), NEW x \in 1 .. Len(seqs[j])
    PROVE  Concat(seqs)[Ends(seqs, j - 1) + x] = seqs[j][x]
<1> DEFINE n == Len(seqs)
           c(i) == Concat(Take(seqs, i))
           y == Ends(seqs, j - 1) + x
           P == {i \in Nat : c(j + i)[y] = seqs[j][x]}
<1>1. n \in Nat /\ \A i \in 1 .. n : seqs[i] \in Seq(C) /\ Len(seqs[i]) \in Nat
  BY LenProperties, ElementOfSeq
<1>2. /\ \A i \in 0 .. n : c(i) \in Seq(C) /\ Ends(seqs, i) = Len(c(i)) /\ Ends(seqs, i) \in Nat
      /\ \A i \in 1 .. n : Ends(seqs, i) = Ends(seqs, i - 1) + Len(seqs[i])
  BY ConcatType DEF Ends
<1>3. /\ \A i \in 1 .. n : c(i) = c(i - 1) \o seqs[i]
      /\ Concat(seqs) = c(n)
  BY ConcatStep
<1> HIDE DEF c
<1>4. 0 \in P
  <2>1. j - 1 \in 0 .. n /\ j + 0 = j
    BY <1>1
  <2>2. c(j - 1) \in Seq(C) /\ seqs[j] \in Seq(C) /\ y = Len(c(j - 1)) + x
    BY <1>1, <1>2, <2>1
  <2>3. (c(j - 1) \o seqs[j])[Len(c(j - 1)) + x] = seqs[j][x]
    <3> DEFINE u == c(j - 1)
               v == seqs[j]
    <3>1. u \in Seq(C) /\ v \in Seq(C) /\ x \in 1 .. Len(v)
      BY <2>2
    <3> HIDE DEF u, v
    <3>2. (u \o v)[Len(u) + x] = v[x]
      BY <3>1, GlueChars
    <3> QED
      BY <3>2 DEF u, v
  <2> QED
    BY <1>3, <2>1, <2>2, <2>3
<1>5. ASSUME NEW i \in 0 .. (n - j) - 1, i \in P PROVE i + 1 \in P
  <2>1. /\ j + (i + 1) \in 1 .. n /\ (j + (i + 1)) - 1 = j + i /\ j + i \in 0 .. n
        /\ j - 1 \in 0 .. n /\ j + i \in j .. n /\ j \in 0 .. n
    BY <1>1
  <2>2. c(j + (i + 1)) = c(j + i) \o seqs[j + (i + 1)]
    BY <1>3, <2>1
  <2>3. y \in 1 .. Len(c(j + i))
    <3>1. Ends(seqs, j) <= Ends(seqs, j + i)
      BY <2>1, EndsGrow
    <3>2. Ends(seqs, j) = Ends(seqs, j - 1) + Len(seqs[j]) /\ Len(seqs[j]) \in Nat
      BY <1>1, <1>2
    <3>3. Ends(seqs, j - 1) \in Nat /\ Ends(seqs, j + i) = Len(c(j + i)) /\ Ends(seqs, j + i) \in Nat
      BY <1>2, <2>1
    <3> DEFINE u == Ends(seqs, j - 1)
               v == Ends(seqs, j + i)
               k == Len(seqs[j])
    <3>4. u \in Nat /\ v \in Nat /\ k \in Nat /\ u + k <= v /\ x \in 1 .. k
      BY <3>1, <3>2, <3>3
    <3> HIDE DEF u, v, k
    <3>5. u + x \in 1 .. v
      BY <3>4
    <3> QED
      BY <3>3, <3>5 DEF u, v
  <2>4. c(j + i) \in Seq(C) /\ seqs[j + (i + 1)] \in Seq(C)
    BY <1>1, <1>2, <2>1
  <2>5. c(j + (i + 1))[y] = c(j + i)[y]
    <3>1. (c(j + i) \o seqs[j + (i + 1)])[y] = c(j + i)[y]
      <4> DEFINE u == c(j + i)
                 v == seqs[j + (i + 1)]
      <4>1. u \in Seq(C) /\ v \in Seq(C) /\ y \in 1 .. Len(u)
        BY <2>3, <2>4
      <4> HIDE DEF u, v, y
      <4>2. (u \o v)[y] = u[y]
        BY <4>1, GlueChars
      <4> QED
        BY <4>2 DEF u, v
    <3> QED
      BY <2>2, <3>1
  <2> QED
    BY <1>5, <2>5
<1>6. n - j \in P /\ j + (n - j) = n
  <2> HIDE DEF P
  <2>1. n - j \in Nat
    BY <1>1
  <2>2. \A i \in 0 .. n - j : i \in P
    BY <1>4, <1>5, <2>1, UpTo
  <2> QED
    BY <1>1, <2>1, <2>2
<1> QED
  BY <1>3, <1>6

LEMMA ConcatCover ==
    ASSUME NEW C, NEW seqs \in Seq(Seq(C)), NEW y \in 1 .. Len(Concat(seqs))
    PROVE  \E j \in 1 .. Len(seqs) : \E x \in 1 .. Len(seqs[j]) : y = Ends(seqs, j - 1) + x
<1> DEFINE n == Len(seqs)
           T == {j \in 0 .. n : y <= Ends(seqs, j)}
<1>1. n \in Nat /\ \A i \in 0 .. n : Ends(seqs, i) \in Nat
  BY LenProperties, ConcatType
<1>2. n \in T /\ T \subseteq Nat
  BY <1>1, ConcatType
<1>3. PICK j \in T : \A k \in T : j <= k
  <2> HIDE DEF T
  <2> QED
    BY <1>2, LeastNumber
<1>4. j \in 1 .. n /\ j - 1 \in 0 .. n
  <2>1. Ends(seqs, 0) = 0
    BY ConcatType
  <2> QED
    BY <1>1, <1>3, <2>1
<1>5. Ends(seqs, j - 1) < y /\ Ends(seqs, j) = Ends(seqs, j - 1) + Len(seqs[j])
  <2>1. j - 1 \notin T
    BY <1>1, <1>3
  <2>2. ~(y <= Ends(seqs, j - 1)) /\ Ends(seqs, j - 1) \in Nat
    BY <1>1, <1>4, <2>1
  <2>3. y \in Nat
    OBVIOUS
  <2>4. Ends(seqs, j) = Ends(seqs, j - 1) + Len(seqs[j])
    BY <1>4, ConcatType
  <2> QED
    BY <2>2, <2>3, <2>4
<1>6. Len(seqs[j]) \in Nat /\ Ends(seqs, j - 1) \in Nat /\ y <= Ends(seqs, j) /\ y \in Nat
  BY <1>1, <1>3, <1>4, LenProperties, ElementOfSeq
<1>7. y - Ends(seqs, j - 1) \in 1 .. Len(seqs[j]) /\ y = Ends(seqs, j - 1) + (y - Ends(seqs, j - 1))
  BY <1>5, <1>6
<1> QED
  BY <1>4, <1>7

LEMMA SubChars ==
    ASSUME NEW C, NEW s \in Seq(C), NEW a \in 1 .. Len(s) + 1, NEW b \in a - 1 .. Len(s)
    PROVE  /\ SubSeq(s, a, b) \in Seq(C) /\ Len(SubSeq(s, a, b)) = b - a + 1
           /\ \A x \in 1 .. b - a + 1 : SubSeq(s, a, b)[x] = s[a + x - 1]
<1>1. Len(s) \in Nat /\ a \in Int /\ b \in Int
  BY LenProperties
<1>2. \A i \in a .. b : s[i] \in C
  BY <1>1, ElementOfSeq
<1>3. /\ SubSeq(s, a, b) \in Seq(C)
      /\ Len(SubSeq(s, a, b)) = IF a <= b THEN b - a + 1 ELSE 0
      /\ \A x \in 1 .. b - a + 1 : SubSeq(s, a, b)[x] = s[a + x - 1]
  BY <1>1, <1>2, SubSeqProperties
<1> QED
  BY <1>1, <1>3

\* d stands in s at i, character by character.
SpeltAt(s, d, i) ==
    /\ i + Len(d) - 1 <= Len(s)
    /\ \A x \in 1 .. Len(d) : s[i + x - 1] = d[x]

LEMMA AtChars ==
    ASSUME NEW C, NEW s \in Seq(C), NEW D, NEW d \in Seq(D), d # <<>>, NEW i \in Nat \ {0}
    PROVE  At(s, d, i) <=> SpeltAt(s, d, i)
<1> DEFINE e == i + Len(d) - 1
           sub == SubSeq(s, i, e)
<1>1. Len(s) \in Nat /\ Len(d) \in Nat \ {0}
  BY LenProperties, EmptySeq
<1>2. SUFFICES ASSUME e <= Len(s)
               PROVE  sub = d <=> \A x \in 1 .. Len(d) : s[i + x - 1] = d[x]
  BY DEF At, SpeltAt
<1>3. i \in 1 .. Len(s) /\ e \in i - 1 .. Len(s) /\ e - i + 1 = Len(d)
  BY <1>1, <1>2
<1>4. /\ sub \in Seq(C) /\ Len(sub) = Len(d)
      /\ \A x \in 1 .. Len(d) : sub[x] = s[i + x - 1]
  BY <1>1, <1>2, <1>3
<1> HIDE DEF sub
<1>5. (\A x \in 1 .. Len(d) : sub[x] = d[x]) => sub = d
  BY <1>4, SeqEqual
<1> QED
  BY <1>4, <1>5

(***************************************************************************)
(* A line is the token, its fields with their separators, and CRLF.        *)
(***************************************************************************)
Padded(m) ==
    [i \in DOMAIN m.fields |->
        IF i = Len(m.fields) /\ ~m.separated THEN m.fields[i] ELSE m.fields[i] \o Sep]

LineChars(Char) == Char \cup {Crlf[1], Crlf[2]}

LEMMA PaddedType ==
    ASSUME NEW Char, PlainMessages(Char), NEW m, PlainMessage(Char, m)
    PROVE  /\ m.fields \in Seq(Seq(Char)) /\ Len(m.fields) \in Nat \ {0}
           /\ DOMAIN m.fields = 1 .. Len(m.fields)
           /\ Padded(m) \in Seq(Seq(Char)) /\ Len(Padded(m)) = Len(m.fields)
           /\ Concat(Padded(m)) \in Seq(Char)
<1>1. m.fields \in Seq(Seq(Char)) /\ m.fields # <<>> /\ Sep \in Seq(Char)
  BY DEF PlainMessages, PlainMessage
<1>2. Len(m.fields) \in Nat \ {0} /\ DOMAIN m.fields = 1 .. Len(m.fields)
  BY <1>1, LenProperties, EmptySeq
<1>3. \A i \in 1 .. Len(m.fields) : m.fields[i] \in Seq(Char) /\ m.fields[i] \o Sep \in Seq(Char)
  BY <1>1, ElementOfSeq
<1>4. /\ DOMAIN Padded(m) = 1 .. Len(m.fields)
      /\ Padded(m) \in [1 .. Len(m.fields) -> Seq(Char)]
  BY <1>2, <1>3 DEF Padded
<1>5. Padded(m) \in Seq(Seq(Char)) /\ Len(Padded(m)) = Len(m.fields)
  BY <1>2, <1>4
<1>6. Concat(Padded(m)) \in Seq(Char)
  BY <1>5, ConcatType
<1> QED
  BY <1>1, <1>2, <1>5, <1>6

LEMMA LineShape ==
    ASSUME NEW Char, PlainMessages(Char), NEW m \in Messages
    PROVE  LET body == Concat(Padded(m))
               n == TOKEN_LENGTH + Len(body)
           IN  /\ Line(m) \in Seq(LineChars(Char)) /\ Len(Line(m)) = n + 2
               /\ TOKEN_LENGTH \in Nat \ {0} /\ Len(body) \in Nat
               /\ \A x \in 1 .. n : Line(m)[x] \in Char
               /\ \A x \in 1 .. TOKEN_LENGTH : Line(m)[x] = Token[x]
               /\ \A x \in 1 .. Len(body) : Line(m)[TOKEN_LENGTH + x] = body[x]
               /\ Line(m)[n + 1] = Crlf[1] /\ Line(m)[n + 2] = Crlf[2]
<1> DEFINE body == Concat(Padded(m))
           front == Token \o body
           n == TOKEN_LENGTH + Len(body)
           C == LineChars(Char)
<1>1. Token \in Seq(Char) /\ body \in Seq(Char) /\ Crlf = <<Crlf[1], Crlf[2]>>
  BY PaddedType DEF PlainMessages
<1>2. Line(m) = front \o Crlf
  BY DEF Line, Padded
<1> HIDE DEF body
<1>3. Len(Token) \in Nat \ {0} /\ Len(body) \in Nat
  BY <1>1, LenProperties, EmptySeq, LineAssumption
<1>4. /\ front \in Seq(Char) /\ Len(front) = n
      /\ \A x \in 1 .. Len(Token) : front[x] = Token[x]
      /\ \A x \in 1 .. Len(body) : front[Len(Token) + x] = body[x]
  BY <1>1, GlueChars, ConcatProperties DEF TOKEN_LENGTH
<1> HIDE DEF front
<1>5. \A x \in 1 .. n : front[x] \in Char
  BY <1>4, ElementOfSeq
<1>6. front \in Seq(C) /\ Crlf \in Seq(C) /\ Len(Crlf) = 2
  <2>1. Char \subseteq C /\ Crlf[1] \in C /\ Crlf[2] \in C
    BY DEF LineChars
  <2> HIDE DEF C
  <2>2. <<Crlf[1], Crlf[2]>> \in Seq(C)
    BY <2>1
  <2>3. front \in Seq(C)
    BY <1>4, <2>1
  <2> QED
    BY <1>1, <2>2, <2>3, LineAssumption
<1>7. /\ Line(m) \in Seq(C) /\ Len(Line(m)) = n + 2
      /\ \A x \in 1 .. n : Line(m)[x] = front[x]
      /\ \A x \in 1 .. 2 : Line(m)[n + x] = Crlf[x]
  <2> HIDE DEF C
  <2>1. front \o Crlf \in Seq(C) /\ Len(front \o Crlf) = Len(front) + Len(Crlf)
    BY <1>6, ConcatProperties
  <2>2. /\ \A x \in 1 .. Len(front) : (front \o Crlf)[x] = front[x]
        /\ \A x \in 1 .. Len(Crlf) : (front \o Crlf)[Len(front) + x] = Crlf[x]
    BY <1>6, GlueChars
  <2> QED
    BY <1>2, <1>4, <1>6, <2>1, <2>2
<1> HIDE DEF C
<1>8. /\ \A x \in 1 .. TOKEN_LENGTH : Line(m)[x] = Token[x]
      /\ \A x \in 1 .. Len(body) : Line(m)[TOKEN_LENGTH + x] = body[x]
  BY <1>3, <1>4, <1>7 DEF TOKEN_LENGTH
<1> QED
  BY <1>3, <1>5, <1>7, <1>8 DEF body, TOKEN_LENGTH, C

(***************************************************************************)
(* The second split of start_routine gives the fields of a line back: all  *)
(* that have a separator behind them.                                      *)
(***************************************************************************)
\* A place inside the j-th sequence is the same place of the whole.
LEMMA AtInside ==
    ASSUME NEW C, NEW seqs \in Seq(Seq(C)), NEW j \in 1 .. Len(seqs),
           NEW D, NEW d \in Seq(D), d # <<>>,
           NEW x \in 1 .. Len(seqs[j]), x + Len(d) - 1 <= Len(seqs[j])
    PROVE  At(Concat(seqs), d, Ends(seqs, j - 1) + x) <=> At(seqs[j], d, x)
<1> DEFINE e == Ends(seqs, j - 1)
           s == Concat(seqs)
           q == seqs[j]
<1>1. /\ s \in Seq(C) /\ q \in Seq(C) /\ e \in Nat /\ Len(q) \in Nat
      /\ Len(d) \in Nat \ {0} /\ Len(s) \in Nat
  <2>1. Len(seqs) \in Nat /\ j - 1 \in 0 .. Len(seqs)
    BY LenProperties
  <2> QED
    BY <2>1, ConcatType, ElementOfSeq, LenProperties, EmptySeq
<1>2. e + Len(q) <= Len(s)
  <2>1. Len(seqs) \in Nat /\ j \in 0 .. Len(seqs) /\ Len(seqs) \in j .. Len(seqs)
    BY LenProperties
  <2>2. Ends(seqs, j) = e + Len(q) /\ Ends(seqs, Len(seqs)) = Len(s)
    BY ConcatType
  <2> QED
    BY <2>1, <2>2, EndsGrow
<1>3. \A y \in 1 .. Len(q) : s[e + y] = q[y]
  BY ConcatChars
<1> HIDE DEF e, s, q
<1>4. x \in 1 .. Len(q) /\ x + Len(d) - 1 <= Len(q)
  BY DEF q
<1>5. \A z \in 1 .. Len(d) : s[(e + x) + z - 1] = q[x + z - 1]
  <2> TAKE z \in 1 .. Len(d)
  <2>1. x + z - 1 \in 1 .. Len(q) /\ (e + x) + z - 1 = e + (x + z - 1)
    BY <1>1, <1>4
  <2> QED
    BY <1>3, <2>1
<1>6. (e + x) + Len(d) - 1 <= Len(s)
  BY <1>1, <1>2, <1>4
<1>7. /\ At(s, d, e + x) <=> /\ (e + x) + Len(d) - 1 <= Len(s)
                             /\ \A z \in 1 .. Len(d) : s[(e + x) + z - 1] = d[z]
      /\ At(q, d, x) <=> /\ x + Len(d) - 1 <= Len(q)
                         /\ \A z \in 1 .. Len(d) : q[x + z - 1] = d[z]
  <2>1. e + x \in Nat \ {0} /\ x \in Nat \ {0}
    BY <1>1, <1>4
  <2>2. At(s, d, e + x) <=> SpeltAt(s, d, e + x)
    BY <1>1, <2>1, AtChars
  <2>3. At(q, d, x) <=> SpeltAt(q, d, x)
    BY <1>1, <2>1, AtChars
  <2> QED
    BY <2>2, <2>3 DEF SpeltAt
<1>8. At(s, d, e + x) <=> At(q, d, x)
  BY <1>4, <1>5, <1>6, <1>7
<1> QED
  BY <1>8 DEF e, s, q

\* The field at the front is cut off.
LEMMA CutField ==
    ASSUME NEW Char, PlainMessages(Char), NEW m, PlainMessage(Char, m), NEW g,
           Pieces(g, Concat(Padded(m)), Sep),
           NEW i \in 1 .. Len(m.fields), i # Len(m.fields) \/ m.separated
    PROVE  g[Ends(Padded(m), i - 1) + 1] = <<m.fields[i]>> \o g[Ends(Padded(m), i) + 1]
<1> DEFINE F == Padded(m)
           s == Concat(F)
           f == m.fields[i]
           e == Ends(F, i - 1)
           l == Len(f)
<1>1. /\ F \in Seq(Seq(Char)) /\ Len(F) = Len(m.fields) /\ Len(F) \in Nat
      /\ s \in Seq(Char) /\ Len(s) \in Nat
      /\ f \in Seq(Char) /\ l \in Nat
      /\ Sep \in Seq(Char) /\ Sep # <<>> /\ Len(Sep) \in Nat \ {0}
  <2>1. /\ F \in Seq(Seq(Char)) /\ Len(F) = Len(m.fields) /\ s \in Seq(Char)
        /\ m.fields \in Seq(Seq(Char))
    BY PaddedType
  <2>2. Sep \in Seq(Char) /\ Sep # <<>>
    BY LineAssumption DEF PlainMessages, PlainMessage
  <2>3. f \in Seq(Char)
    BY <2>1, ElementOfSeq
  <2> HIDE DEF F, s, f
  <2> QED
    BY <2>1, <2>2, <2>3, LenProperties, EmptySeq
<1>2. F[i] = f \o Sep /\ \A k \in 1 .. l : ~At(f \o Sep, Sep, k)
  <2>1. i \in DOMAIN m.fields /\ DOMAIN f = 1 .. l /\ m.separated \in BOOLEAN
    BY <1>1, PaddedType, LenProperties DEF PlainMessages, PlainMessage
  <2>2. ~(i = Len(m.fields) /\ ~m.separated)
    BY <2>1
  <2>3. F[i] = f \o Sep
    BY <2>1, <2>2 DEF Padded
  <2>4. \A k \in DOMAIN m.fields[i] : ~At(m.fields[i] \o Sep, Sep, k)
    BY <2>1, <2>2 DEF PlainMessages, PlainMessage
  <2> QED
    BY <2>1, <2>3, <2>4
<1>3. Len(F[i]) = l + Len(Sep) /\ \A x \in 1 .. l : F[i][x] = f[x]
  BY <1>1, <1>2, GlueChars, ConcatProperties
<1>4. /\ e \in Nat /\ Ends(F, i) = e + (l + Len(Sep)) /\ Ends(F, i) <= Len(s)
      /\ Ends(F, i) \in Nat
  <2>1. /\ i \in 1 .. Len(F) /\ i - 1 \in 0 .. Len(F) /\ i \in 0 .. Len(F)
        /\ Len(F) \in i .. Len(F)
    BY <1>1
  <2>2. e \in Nat /\ Ends(F, i) \in Nat /\ Ends(F, i) = e + Len(F[i]) /\ Ends(F, Len(F)) = Len(s)
    BY <1>1, <2>1, ConcatType
  <2>3. Ends(F, i) <= Ends(F, Len(F))
    BY <1>1, <2>1, EndsGrow
  <2> QED
    BY <1>3, <2>2, <2>3
<1>5. At(s, Sep, e + (l + 1))
  <2>1. At(f \o Sep, Sep, l + 1)
    <3>1. f \o Sep \in Seq(Char) /\ l + 1 \in Nat \ {0} /\ (l + 1) + Len(Sep) - 1 <= Len(f \o Sep)
      <4>1. f \o Sep \in Seq(Char) /\ Len(f \o Sep) = l + Len(Sep)
        BY <1>1, ConcatProperties
      <4> DEFINE k == Len(Sep)
      <4>2. l \in Nat /\ k \in Nat
        BY <1>1
      <4> HIDE DEF k, l
      <4>3. l + 1 \in Nat \ {0} /\ (l + 1) + k - 1 <= l + k
        BY <4>2
      <4> QED
        BY <4>1, <4>3 DEF k
    <3>2. \A x \in 1 .. Len(Sep) : (f \o Sep)[l + x] = Sep[x]
      BY <1>1, GlueChars
    <3>3. \A x \in 1 .. Len(Sep) : (f \o Sep)[(l + 1) + x - 1] = Sep[x]
      <4> TAKE x \in 1 .. Len(Sep)
      <4>1. (l + 1) + x - 1 = l + x
        BY <1>1
      <4> QED
        BY <3>2, <4>1
    <3> QED
      <4>1. SpeltAt(f \o Sep, Sep, l + 1)
        BY <3>1, <3>3 DEF SpeltAt
      <4> QED
        BY <1>1, <3>1, <4>1, AtChars
  <2>2. i \in 1 .. Len(F) /\ l + 1 \in 1 .. Len(F[i]) /\ (l + 1) + Len(Sep) - 1 <= Len(F[i])
    BY <1>1, <1>3
  <2>3. At(s, Sep, e + (l + 1)) <=> At(F[i], Sep, l + 1)
    BY <1>1, <2>2, AtInside
  <2> QED
    BY <1>2, <2>1, <2>3
<1>p. Pieces(g, s, Sep)
  OBVIOUS
<1> HIDE DEF F, s, e, l, f
<1>6. ASSUME NEW k \in e + 1 .. (e + (l + 1)) - 1 PROVE ~At(s, Sep, k)
  <2>1. /\ i \in 1 .. Len(F) /\ k - e \in 1 .. l /\ k - e \in 1 .. Len(F[i])
        /\ (k - e) + Len(Sep) - 1 <= Len(F[i]) /\ e + (k - e) = k
    BY <1>1, <1>3, <1>4
  <2>2. At(s, Sep, e + (k - e)) <=> At(F[i], Sep, k - e)
    BY <1>1, <2>1, AtInside DEF s, e
  <2> QED
    BY <1>2, <2>1, <2>2
<1>7. \A x \in 1 .. l : s[e + x] = f[x]
  <2>1. i \in 1 .. Len(F) /\ \A x \in 1 .. l : x \in 1 .. Len(F[i])
    BY <1>1, <1>3
  <2>2. \A x \in 1 .. Len(F[i]) : s[e + x] = F[i][x]
    BY <1>1, <2>1, ConcatChars DEF s, e
  <2> QED
    BY <1>3, <2>1, <2>2
<1>8. e + 1 \in 1 .. Len(s) + 1 /\ e + (l + 1) \in e + 1 .. Len(s)
  BY <1>1, <1>4
<1>9. Found(s, Sep, e + 1)
  BY <1>5, <1>8 DEF Found
<1>10. Find(s, Sep, e + 1) = e + (l + 1)
  <2>1. /\ Find(s, Sep, e + 1) \in e + 1 .. Len(s)
        /\ At(s, Sep, Find(s, Sep, e + 1))
        /\ \A k \in e + 1 .. Find(s, Sep, e + 1) - 1 : ~At(s, Sep, k)
    BY <1>1, <1>8, <1>9, FindFirst
  <2>2. ~(Find(s, Sep, e + 1) > e + (l + 1))
    BY <1>1, <1>4, <1>5, <1>8, <2>1
  <2>3. ~(Find(s, Sep, e + 1) < e + (l + 1))
    BY <1>1, <1>4, <1>6, <2>1
  <2> QED
    BY <1>1, <1>4, <2>1, <2>2, <2>3
<1>11. SubSeq(s, e + 1, (e + (l + 1)) - 1) = f
  <2> DEFINE b == (e + (l + 1)) - 1
             sub == SubSeq(s, e + 1, b)
  <2>1. b \in (e + 1) - 1 .. Len(s) /\ b - (e + 1) + 1 = l
    BY <1>1, <1>4
  <2>2. sub \in Seq(Char) /\ Len(sub) = l /\ \A x \in 1 .. l : sub[x] = s[(e + 1) + x - 1]
    <3> DEFINE a == e + 1
    <3>1. a \in 1 .. Len(s) + 1 /\ b \in a - 1 .. Len(s) /\ b - a + 1 = l
      BY <1>8, <2>1
    <3> HIDE DEF a, b
    <3>2. /\ SubSeq(s, a, b) \in Seq(Char) /\ Len(SubSeq(s, a, b)) = b - a + 1
          /\ \A x \in 1 .. b - a + 1 : SubSeq(s, a, b)[x] = s[a + x - 1]
      BY <1>1, <3>1, SubChars
    <3> QED
      BY <3>1, <3>2 DEF a
  <2>3. \A x \in 1 .. l : (e + 1) + x - 1 = e + x
    BY <1>1, <1>4
  <2> HIDE DEF sub
  <2>4. \A x \in 1 .. l : sub[x] = f[x]
    BY <1>7, <2>2, <2>3
  <2>5. sub = f
    BY <1>1, <2>2, <2>4, SeqEqual DEF l
  <2> QED
    BY <2>5 DEF sub
<1>12. (e + (l + 1)) + Len(Sep) = Ends(F, i) + 1
  BY <1>1, <1>4
<1>13. g[e + 1] = <<f>> \o g[Ends(F, i) + 1]
  <2>1. g[e + 1] = <<SubSeq(s, e + 1, Find(s, Sep, e + 1) - 1)>>
                        \o g[Find(s, Sep, e + 1) + Len(Sep)]
    BY <1>p, <1>8, <1>9 DEF Pieces
  <2> QED
    BY <1>10, <1>11, <1>12, <2>1
<1> QED
  BY <1>13 DEF F, f, e

\* Behind the last separator there is nothing to cut off.
LEMMA NoFieldLeft ==
    ASSUME NEW Char, PlainMessages(Char), NEW m, PlainMessage(Char, m), NEW g,
           Pieces(g, Concat(Padded(m)), Sep)
    PROVE  g[Ends(Padded(m), Len(Meant(m))) + 1] = <<>>
<1> DEFINE F == Padded(m)
           s == Concat(F)
           n == Len(m.fields)
<1>1. /\ F \in Seq(Seq(Char)) /\ Len(F) = n /\ n \in Nat \ {0} /\ s \in Seq(Char) /\ Len(s) \in Nat
      /\ m.fields \in Seq(Seq(Char)) /\ n \in 1 .. n /\ DOMAIN m.fields = 1 .. n
      /\ Sep \in Seq(Char) /\ Sep # <<>> /\ Len(Sep) \in Nat \ {0}
  <2>1. /\ F \in Seq(Seq(Char)) /\ Len(F) = n /\ s \in Seq(Char) /\ n \in Nat \ {0}
        /\ m.fields \in Seq(Seq(Char)) /\ DOMAIN m.fields = 1 .. n
    BY PaddedType
  <2>2. Sep \in Seq(Char) /\ Sep # <<>>
    BY LineAssumption DEF PlainMessages, PlainMessage
  <2> HIDE DEF F, s
  <2> QED
    BY <2>1, <2>2, LenProperties, EmptySeq
<1>2. Ends(F, n) = Len(s)
  BY <1>1, ConcatType
<1>3. CASE m.separated
  <2>1. Len(Meant(m)) = n
    BY <1>3 DEF Meant
  <2>2. ~Found(s, Sep, Len(s) + 1) /\ Len(s) + 1 \in 1 .. Len(s) + 1
    BY <1>1 DEF Found
  <2>3. g[Len(s) + 1] = <<>>
    BY <2>2 DEF Pieces
  <2> QED
    BY <1>2, <2>1, <2>3
<1>4. CASE ~m.separated
  <2> DEFINE e == Ends(F, n - 1)
             f == m.fields[n]
  <2>1. Len(Meant(m)) = n - 1
    <3>1. n - 1 \in 0 .. n
      BY <1>1
    <3>2. Len(Take(m.fields, n - 1)) = n - 1
      BY <1>1, <3>1, TakeFacts
    <3> QED
      BY <1>4, <3>2 DEF Meant
  <2>2. F[n] = f /\ ~FindSPACE(f) /\ f \in Seq(Char)
    BY <1>1, <1>4, ElementOfSeq DEF Padded, PlainMessages, PlainMessage
  <2>3. e \in Nat /\ Len(s) = e + Len(f) /\ Len(f) \in Nat
    <3>1. n - 1 \in 0 .. n
      BY <1>1
    <3>2. e \in Nat /\ Ends(F, n) = e + Len(F[n])
      BY <1>1, <3>1, ConcatType
    <3> QED
      BY <1>2, <2>2, <3>2, LenProperties
  <2>p. Pieces(g, s, Sep)
    OBVIOUS
  <2> HIDE DEF F, s, e, f, n
  <2>4. ~Found(s, Sep, e + 1)
    <3> SUFFICES ASSUME NEW y \in e + 1 .. Len(s), At(s, Sep, y) PROVE FALSE
      BY DEF Found
    <3>1. y + Len(Sep) - 1 <= Len(s)
      BY DEF At
    <3>2. /\ y - e \in 1 .. Len(f) /\ (y - e) + Len(Sep) - 1 <= Len(f) /\ e + (y - e) = y
      BY <1>1, <2>3, <3>1
    <3>3. At(s, Sep, e + (y - e)) <=> At(F[n], Sep, y - e)
      BY <1>1, <2>2, <3>2, AtInside DEF s, e
    <3>4. At(f, Sep, y - e)
      BY <2>2, <3>2, <3>3
    <3> QED
      BY <2>2, <3>2, <3>4 DEF FindSPACE, Found
  <2>5. e + 1 \in 1 .. Len(s) + 1
    BY <2>3
  <2>6. g[e + 1] = <<>>
    BY <2>p, <2>4, <2>5 DEF Pieces
  <2> QED
    BY <2>1, <2>6 DEF e, F, n
<1>5. m.separated \in BOOLEAN
  BY DEF PlainMessages, PlainMessage
<1> QED
  BY <1>3, <1>4, <1>5

LEMMA FieldsRead ==
    ASSUME NEW Char, PlainMessages(Char), NEW m, PlainMessage(Char, m)
    PROVE  SplitData(Concat(Padded(m)), Sep) = Meant(m)
<1> DEFINE F == Padded(m)
           s == Concat(F)
           w == Meant(m)
           n == Len(w)
<1>1. /\ F \in Seq(Seq(Char)) /\ s \in Seq(Char) /\ Len(s) \in Nat /\ Len(Sep) \in Nat \ {0}
  <2>1. F \in Seq(Seq(Char)) /\ s \in Seq(Char)
    BY PaddedType
  <2>2. Sep \in Seq(Char) /\ Sep # <<>>
    BY LineAssumption DEF PlainMessages, PlainMessage
  <2> HIDE DEF F, s
  <2> QED
    BY <2>1, <2>2, LenProperties, EmptySeq
<1>2. /\ w \in Seq(Seq(Char)) /\ n \in Nat /\ n <= Len(m.fields)
      /\ \A i \in 1 .. n : /\ i \in 1 .. Len(m.fields) /\ w[i] = m.fields[i]
                           /\ i # Len(m.fields) \/ m.separated
  <2>1. /\ m.fields \in Seq(Seq(Char)) /\ Len(m.fields) \in Nat \ {0}
    BY PaddedType
  <2>2. CASE m.separated
    BY <2>1, <2>2 DEF Meant
  <2>3. CASE ~m.separated
    <3>1. Len(m.fields) - 1 \in 0 .. Len(m.fields)
      BY <2>1
    <3>2. w = Take(m.fields, Len(m.fields) - 1)
      BY <2>3 DEF Meant
    <3>3. /\ w \in Seq(Seq(Char)) /\ n = Len(m.fields) - 1
          /\ \A i \in 1 .. Len(m.fields) - 1 : w[i] = m.fields[i]
      <4> DEFINE r == Take(m.fields, Len(m.fields) - 1)
      <4>1. /\ r \in Seq(Seq(Char)) /\ Len(r) = Len(m.fields) - 1
            /\ \A i \in 1 .. Len(m.fields) - 1 : r[i] = m.fields[i]
        BY <2>1, <3>1, TakeFacts
      <4> HIDE DEF r, w
      <4> QED
        BY <3>2, <4>1 DEF r
    <3> HIDE DEF w
    <3>4. n = Len(m.fields) - 1 /\ n \in Nat /\ n <= Len(m.fields)
      BY <2>1, <3>3
    <3>5. \A i \in 1 .. n : i \in 1 .. Len(m.fields) /\ i # Len(m.fields)
      BY <2>1, <3>4
    <3> QED
      BY <3>3, <3>4, <3>5
  <2>4. m.separated \in BOOLEAN
    BY DEF PlainMessages, PlainMessage
  <2> QED
    BY <2>2, <2>3, <2>4
<1>3. PICK g : Pieces(g, s, Sep) /\ SplitData(s, Sep) = g[1]
  BY <1>1, SplitPieces
<1>4. g[Ends(F, n) + 1] = <<>>
  BY <1>3, NoFieldLeft
<1>5. \A i \in 1 .. n : g[Ends(F, i - 1) + 1] = <<w[i]>> \o g[Ends(F, i) + 1]
  <2> TAKE i \in 1 .. n
  <2>1. i \in 1 .. Len(m.fields) /\ w[i] = m.fields[i] /\ (i # Len(m.fields) \/ m.separated)
    BY <1>2
  <2>2. g[Ends(F, i - 1) + 1] = <<m.fields[i]>> \o g[Ends(F, i) + 1]
    BY <1>3, <2>1, CutField
  <2> QED
    BY <2>1, <2>2
<1>6. Ends(F, 0) = 0
  BY <1>1, ConcatType
<1> HIDE DEF F, s, w, n
<1> DEFINE P == {t \in Nat : g[Ends(F, n - t) + 1] = SubSeq(w, (n - t) + 1, n)}
<1>7. 0 \in P
  <2>1. n - 0 = n /\ n + 1 > n
    BY <1>2
  <2>2. SubSeq(w, n + 1, n) = <<>>
    BY <1>2, <2>1, SubSeqEmpty
  <2> QED
    BY <1>4, <2>1, <2>2
<1>8. ASSUME NEW t \in 0 .. n - 1, t \in P PROVE t + 1 \in P
  <2> DEFINE i == n - t
  <2>1. /\ i \in 1 .. n /\ i - 1 = n - (t + 1) /\ (n - (t + 1)) + 1 = i /\ t + 1 \in Nat
        /\ n \in i .. n /\ n = Len(w)
    BY <1>2 DEF n
  <2>2. g[Ends(F, i) + 1] = SubSeq(w, i + 1, n)
    BY <1>8
  <2> HIDE DEF i
  <2>3. g[Ends(F, i - 1) + 1] = <<w[i]>> \o SubSeq(w, i + 1, n)
    BY <1>5, <2>1, <2>2
  <2>4. SubSeq(w, i, n) = <<w[i]>> \o SubSeq(w, i + 1, n)
    BY <1>2, <2>1, SubSeqRecursiveFirst
  <2>5. g[Ends(F, n - (t + 1)) + 1] = SubSeq(w, (n - (t + 1)) + 1, n)
    BY <2>1, <2>3, <2>4
  <2> QED
    BY <2>1, <2>5
<1>9. g[1] = SubSeq(w, 1, n)
  <2>1. n \in P
    <3> HIDE DEF P
    <3>1. \A t \in 0 .. n : t \in P
      BY <1>2, <1>7, <1>8, UpTo
    <3> QED
      BY <1>2, <3>1
  <2>2. n - n = 0
    BY <1>2
  <2>3. g[Ends(F, 0) + 1] = SubSeq(w, 0 + 1, n)
    BY <2>1, <2>2
  <2> QED
    BY <1>6, <2>3
<1>10. SubSeq(w, 1, n) = w
  BY <1>2, SubSeqFull DEF n
<1> QED
  BY <1>3, <1>9, <1>10 DEF s, F, w

(***************************************************************************)
(* When the last character of the token is left in front of a line, the    *)
(* split gives the same fields but for that character in the first one.    *)
(***************************************************************************)
LEMMA GlueType ==
    ASSUME NEW C, NEW s \in Seq(C), NEW t \in Seq(C)
    PROVE  s \o t \in Seq(C) /\ Len(s \o t) = Len(s) + Len(t)
  BY ConcatProperties

LEMMA GlueThree ==
    ASSUME NEW C, NEW s \in Seq(C), NEW t \in Seq(C), NEW u \in Seq(C)
    PROVE  Glue(Glue(s, t), u) = Glue(s, Glue(t, u))
  BY ConcatAssociative DEF Glue

LEMMA ConcatFront ==
    ASSUME NEW C, NEW w \in Seq(C), NEW F \in Seq(Seq(C)), NEW G \in Seq(Seq(C)),
           Len(G) = Len(F), Len(F) \in Nat \ {0}, G[1] = w \o F[1],
           \A i \in 2 .. Len(F) : G[i] = F[i]
    PROVE  Concat(G) = w \o Concat(F)
<1> DEFINE n == Len(F)
           P == {i \in Nat : Concat(Take(G, i + 1)) = w \o Concat(Take(F, i + 1))}
<1>1. \A i \in 1 .. n : F[i] \in Seq(C) /\ G[i] \in Seq(C)
  BY ElementOfSeq
<1>2. \A i \in 1 .. n : /\ Concat(Take(G, i)) = Concat(Take(G, i - 1)) \o G[i]
                        /\ Concat(Take(F, i)) = Concat(Take(F, i - 1)) \o F[i]
  BY ConcatStep
<1>3. 0 \in P
  <2>1. 1 \in 1 .. n /\ 1 - 1 = 0 /\ 0 + 1 = 1
    OBVIOUS
  <2>2. Concat(Take(G, 0)) = <<>> /\ Concat(Take(F, 0)) = <<>>
    BY ConcatStep
  <2>3. <<>> \o G[1] = G[1] /\ <<>> \o F[1] = F[1]
    BY <1>1, <2>1, ConcatEmptySeq
  <2>4. Concat(Take(G, 1)) = G[1] /\ Concat(Take(F, 1)) = F[1]
    BY <1>2, <2>1, <2>2, <2>3
  <2> QED
    BY <2>1, <2>4
<1>4. ASSUME NEW i \in 0 .. (n - 1) - 1, i \in P PROVE i + 1 \in P
  <2>1. /\ i + 1 \in 0 .. n /\ i + 2 \in 2 .. n /\ i + 2 \in 1 .. n /\ (i + 2) - 1 = i + 1
        /\ (i + 1) + 1 = i + 2 /\ i + 1 \in Nat
    OBVIOUS
  <2>2. /\ Concat(Take(G, i + 2)) = Concat(Take(G, i + 1)) \o G[i + 2]
        /\ Concat(Take(F, i + 2)) = Concat(Take(F, i + 1)) \o F[i + 2]
    BY <1>2, <2>1
  <2>3. Concat(Take(G, i + 1)) = w \o Concat(Take(F, i + 1)) /\ G[i + 2] = F[i + 2]
    BY <1>4, <2>1
  <2>4. Concat(Take(F, i + 1)) \in Seq(C) /\ F[i + 2] \in Seq(C)
    BY <1>1, <2>1, ConcatType
  <2>5. (w \o Concat(Take(F, i + 1))) \o F[i + 2] = w \o (Concat(Take(F, i + 1)) \o F[i + 2])
    <3> DEFINE A == Concat(Take(F, i + 1))
               B == F[i + 2]
    <3>1. A \in Seq(C) /\ B \in Seq(C)
      BY <2>4
    <3> HIDE DEF A, B
    <3>2. Glue(Glue(w, A), B) = Glue(w, Glue(A, B))
      BY <3>1, GlueThree
    <3> QED
      BY <3>2 DEF A, B, Glue
  <2>6. Concat(Take(G, i + 2)) = w \o Concat(Take(F, i + 2))
    BY <2>2, <2>3, <2>5
  <2> QED
    BY <2>1, <2>6
<1>5. n - 1 \in P
  <2> HIDE DEF P
  <2>1. n - 1 \in Nat
    OBVIOUS
  <2>2. \A i \in 0 .. n - 1 : i \in P
    BY <1>3, <1>4, <2>1, UpTo
  <2> QED
    BY <2>1, <2>2
<1>6. (n - 1) + 1 = n
  OBVIOUS
<1>7. Concat(Take(G, n)) = Concat(G) /\ Concat(Take(F, n)) = Concat(F)
  BY ConcatStep
<1> QED
  BY <1>5, <1>6, <1>7

\* A character that no separator begins with begins none.
LEMMA AtBehind ==
    ASSUME NEW C, NEW x \in C, NEW f \in Seq(C), NEW d \in Seq(C), d # <<>>, x # d[1],
           NEW k \in 1 .. Len(f) + 1, At(<<x>> \o f, d, k)
    PROVE  k - 1 \in 1 .. Len(f) /\ At(f, d, k - 1)
<1> DEFINE g == <<x>> \o f
<1>1. Len(f) \in Nat /\ Len(d) \in Nat \ {0} /\ <<x>> \in Seq(C) /\ Len(<<x>>) = 1
  BY LenProperties, EmptySeq
<1>2. g \in Seq(C) /\ Len(g) = 1 + Len(f)
  BY <1>1, ConcatProperties
<1>3. g[1] = x /\ \A y \in 1 .. Len(f) : g[1 + y] = f[y]
  <2>1. /\ \A y \in 1 .. Len(<<x>>) : g[y] = <<x>>[y]
        /\ \A y \in 1 .. Len(f) : g[Len(<<x>>) + y] = f[y]
    BY <1>1, GlueChars
  <2>2. 1 \in 1 .. 1 /\ <<x>>[1] = x
    OBVIOUS
  <2> HIDE DEF g
  <2> QED
    BY <1>1, <2>1, <2>2
<1>4. At(g, d, k)
  OBVIOUS
<1> HIDE DEF g
<1>5. k + Len(d) - 1 <= Len(g) /\ \A y \in 1 .. Len(d) : g[k + y - 1] = d[y]
  <2>1. k \in Nat \ {0}
    BY <1>1
  <2>2. SpeltAt(g, d, k)
    BY <1>2, <1>4, <2>1, AtChars
  <2> QED
    BY <2>2 DEF SpeltAt
<1>6. k # 1
  <2> SUFFICES ASSUME k = 1 PROVE FALSE
    OBVIOUS
  <2>1. 1 \in 1 .. Len(d) /\ 1 + 1 - 1 = 1
    BY <1>1
  <2>2. g[1] = d[1]
    BY <1>5, <2>1
  <2> QED
    BY <1>3, <2>2
<1>7. k - 1 \in 1 .. Len(f) /\ k - 1 \in Nat \ {0} /\ (k - 1) + Len(d) - 1 <= Len(f)
  BY <1>1, <1>2, <1>5, <1>6
<1>8. \A y \in 1 .. Len(d) : f[(k - 1) + y - 1] = d[y]
  <2> TAKE y \in 1 .. Len(d)
  <2>1. (k - 1) + y - 1 \in 1 .. Len(f) /\ 1 + ((k - 1) + y - 1) = k + y - 1
    BY <1>1, <1>7
  <2>2. g[1 + ((k - 1) + y - 1)] = f[(k - 1) + y - 1]
    BY <1>3, <2>1
  <2> QED
    BY <1>5, <2>1, <2>2
<1>9. SpeltAt(f, d, k - 1)
  BY <1>7, <1>8 DEF SpeltAt
<1> QED
  BY <1>1, <1>7, <1>9, AtChars

LEMMA ShiftedFields ==
    ASSUME NEW Char, PlainMessages(Char), NEW m, PlainMessage(Char, m)
    PROVE  SplitData(<<Token[TOKEN_LENGTH]>> \o Concat(Padded(m)), Sep) = Shifted(Meant(m))
<1> DEFINE x == Token[TOKEN_LENGTH]
           w == <<x>>
           f == m.fields
           n == Len(f)
           h == Shifted(f)
           r == [fields |-> h, separated |-> m.separated]
           F == Padded(m)
           G == Padded(r)
<1>1. /\ f \in Seq(Seq(Char)) /\ n \in Nat \ {0} /\ DOMAIN f = 1 .. n
      /\ F \in Seq(Seq(Char)) /\ Len(F) = n
      /\ \A i \in 1 .. n : f[i] \in Seq(Char)
  BY PaddedType, ElementOfSeq
<1>2. Sep \in Seq(Char) /\ Sep # <<>> /\ x \in Char /\ x # Sep[1] /\ w \in Seq(Char) /\ m.separated \in BOOLEAN
  <2>1. Token \in Seq(Char) /\ Token # <<>> /\ Sep # <<>>
    BY LineAssumption DEF PlainMessages
  <2>2. TOKEN_LENGTH \in 1 .. Len(Token)
    BY <2>1, LenProperties, EmptySeq DEF TOKEN_LENGTH
  <2>3. x \in Char
    BY <2>1, <2>2, ElementOfSeq
  <2>4. w \in Seq(Char)
    BY <2>3
  <2> QED
    BY <2>1, <2>3, <2>4 DEF PlainMessages, PlainMessage
<1> HIDE DEF x
<1>3. \A s : Shifted(s) = [i \in DOMAIN s |-> IF i = 1 THEN Glue(w, s[1]) ELSE s[i]]
  BY DEF Shifted, Glue, x
<1> DEFINE first == Glue(w, f[1])
<1>4. first = w \o f[1] /\ first \in Seq(Char) /\ Len(first) = 1 + Len(f[1]) /\ Len(f[1]) \in Nat
  <2> DEFINE z == f[1]
  <2>1. z \in Seq(Char) /\ Len(w) = 1
    BY <1>1
  <2>2. first = w \o z
    BY DEF Glue
  <2> HIDE DEF z, w, first
  <2>3. Len(z) \in Nat
    BY <2>1, LenProperties
  <2>w. w \in Seq(Char)
    BY <1>2
  <2>4. w \o z \in Seq(Char) /\ Len(w \o z) = Len(w) + Len(z)
    BY <2>w, <2>1, GlueType
  <2> QED
    BY <2>1, <2>2, <2>3, <2>4 DEF z
<1> HIDE DEF first, w
<1>5. /\ h = [i \in 1 .. n |-> IF i = 1 THEN first ELSE f[i]]
      /\ h \in Seq(Seq(Char)) /\ Len(h) = n /\ DOMAIN h = 1 .. n /\ h # <<>>
      /\ h[1] = first /\ \A i \in 2 .. n : h[i] = f[i]
  <2>1. h = [i \in 1 .. n |-> IF i = 1 THEN first ELSE f[i]]
    BY <1>1, <1>3 DEF first
  <2> HIDE DEF h, f, n
  <2>2. \A i \in 1 .. n : (IF i = 1 THEN first ELSE f[i]) \in Seq(Char)
    BY <1>1, <1>4
  <2>3. h \in [1 .. n -> Seq(Char)]
    BY <2>1, <2>2
  <2>4. h \in Seq(Seq(Char)) /\ Len(h) = n
    BY <1>1, <2>3
  <2>5. h # <<>>
    BY <1>1, <2>4
  <2>6. DOMAIN h = 1 .. n /\ h[1] = first /\ \A i \in 2 .. n : h[i] = f[i]
    <3>1. 1 \in 1 .. n /\ \A i \in 2 .. n : i \in 1 .. n /\ i # 1
      BY <1>1
    <3> QED
      BY <2>1, <3>1
  <2> QED
    BY <2>1, <2>4, <2>5, <2>6
<1>6. ASSUME NEW i \in 1 .. n, ~(i = n /\ ~m.separated), NEW k \in DOMAIN h[i]
      PROVE  ~At(h[i] \o Sep, Sep, k)
  <2>1. \A y \in DOMAIN f[i] : ~At(f[i] \o Sep, Sep, y)
    BY <1>1, <1>6 DEF PlainMessage
  <2>2. CASE i # 1
    <3>1. h[i] = f[i]
      BY <1>1, <1>5, <2>2
    <3> QED
      BY <1>6, <2>1, <3>1
  <2>3. CASE i = 1
    <3> DEFINE t == f[1] \o Sep
    <3>1. t \in Seq(Char) /\ Len(t) = Len(f[1]) + Len(Sep) /\ Len(Sep) \in Nat \ {0}
      <4>1. 1 \in 1 .. n
        BY <1>1
      <4>2. f[1] \in Seq(Char)
        BY <1>1, <4>1
      <4> QED
        BY <1>2, <4>2, ConcatProperties, LenProperties, EmptySeq
    <3>2. h[1] \o Sep = <<x>> \o t
      <4>1. f[1] \in Seq(Char)
        BY <1>1
      <4>2. (w \o f[1]) \o Sep = w \o (f[1] \o Sep)
        <5> DEFINE z == f[1]
        <5>1. z \in Seq(Char)
          BY <4>1
        <5> HIDE DEF z
        <5>2. (w \o z) \o Sep = w \o (z \o Sep)
          BY <1>2, <5>1, ConcatAssociative
        <5> QED
          BY <5>2 DEF z
      <4> QED
        BY <1>4, <1>5, <4>2 DEF w
    <3>3. k \in 1 .. 1 + Len(f[1]) /\ DOMAIN f[1] = 1 .. Len(f[1])
      <4>1. DOMAIN first = 1 .. Len(first) /\ DOMAIN f[1] = 1 .. Len(f[1])
        <5>1. f[1] \in Seq(Char)
          BY <1>1
        <5> QED
          BY <1>4, <5>1, LenProperties
      <4> QED
        BY <1>4, <1>5, <1>6, <2>3, <4>1
    <3> HIDE DEF t, f, h
    <3>4. SUFFICES ASSUME At(<<x>> \o t, Sep, k) PROVE FALSE
      BY <2>3, <3>2
    <3>5. k \in 1 .. Len(t) + 1
      BY <1>4, <3>1, <3>3
    <3>6. k - 1 \in 1 .. Len(t) /\ At(t, Sep, k - 1)
      BY <1>2, <3>1, <3>4, <3>5, AtBehind
    <3>7. k - 1 \in DOMAIN f[1]
      BY <1>4, <3>1, <3>3, <3>6
    <3> QED
      BY <2>1, <2>3, <3>6, <3>7 DEF t
  <2> QED
    BY <2>2, <2>3
<1>7. ASSUME n \in 1 .. n, ~m.separated PROVE ~FindSPACE(h[n])
  <2>1. ~FindSPACE(f[n])
    BY <1>1, <1>7 DEF PlainMessage
  <2>2. CASE n # 1
    <3>1. h[n] = f[n]
      BY <1>1, <1>5, <2>2
    <3> QED
      BY <2>1, <3>1
  <2>3. CASE n = 1
    <3> SUFFICES ASSUME NEW k \in 1 .. Len(h[1]), At(h[1], Sep, k) PROVE FALSE
      BY <2>3 DEF FindSPACE, Found
    <3>a. h[1] = <<x>> \o f[1]
      BY <1>4, <1>5 DEF w
    <3>b. 1 \in 1 .. n
      BY <1>1
    <3>c. f[1] \in Seq(Char)
      BY <1>1, <3>b
    <3>d. Len(h[1]) = 1 + Len(f[1]) /\ Len(f[1]) \in Nat
      BY <1>4, <1>5
    <3>e. k \in 1 .. Len(f[1]) + 1
      BY <3>d
    <3>1. h[1] = <<x>> \o f[1] /\ f[1] \in Seq(Char) /\ k \in 1 .. Len(f[1]) + 1
      BY <3>a, <3>c, <3>e
    <3>2. At(<<x>> \o f[1], Sep, k)
      BY <3>1
    <3>3. k - 1 \in 1 .. Len(f[1]) /\ At(f[1], Sep, k - 1)
      <4> HIDE DEF f, h
      <4> QED
        BY <1>2, <3>1, <3>2, AtBehind
    <3> QED
      BY <2>1, <2>3, <3>3 DEF FindSPACE, Found
  <2> QED
    BY <2>2, <2>3
<1>r. r.fields = h /\ r.separated = m.separated
  OBVIOUS
<1> HIDE DEF r, h, n, F, G
<1>8. PlainMessage(Char, r)
  <2>1. h \in Seq(Seq(Char)) /\ h # <<>> /\ m.separated \in BOOLEAN /\ Len(h) = n
        /\ DOMAIN h = 1 .. n
    BY <1>2, <1>5
  <2>2. ASSUME NEW i \in 1 .. n
        PROVE  IF i = n /\ ~m.separated THEN ~FindSPACE(h[i])
               ELSE \A k \in DOMAIN h[i] : ~At(h[i] \o Sep, Sep, k)
    <3>1. CASE i = n /\ ~m.separated
      BY <1>7, <3>1
    <3>2. CASE ~(i = n /\ ~m.separated)
      BY <1>6, <3>2
    <3> QED
      BY <3>1, <3>2
  <2> QED
    BY <1>r, <2>1, <2>2 DEF PlainMessage
<1>9. SplitData(Concat(G), Sep) = Meant(r)
  BY <1>8, FieldsRead DEF G
<1>10. Concat(G) = w \o Concat(F)
  <2>1. G \in Seq(Seq(Char)) /\ Len(G) = n
    <3>1. Padded(r) \in Seq(Seq(Char)) /\ Len(Padded(r)) = Len(r.fields)
      BY <1>8, PaddedType
    <3> QED
      BY <1>5, <1>r, <3>1 DEF G
  <2>2. /\ G = [i \in 1 .. n |-> IF i = n /\ ~m.separated THEN h[i] ELSE Glue(h[i], Sep)]
        /\ F = [i \in 1 .. n |-> IF i = n /\ ~m.separated THEN f[i] ELSE Glue(f[i], Sep)]
    BY <1>1, <1>5, <1>r DEF G, F, Padded, Glue, n
  <2> HIDE DEF f
  <2>3. \A i \in 2 .. n : G[i] = F[i]
    BY <1>1, <1>5, <2>2
  <2>4. 1 \in 1 .. n /\ f[1] \in Seq(Char)
    BY <1>1
  <2>5. Glue(first, Sep) = w \o Glue(f[1], Sep)
    <3> DEFINE z == f[1]
    <3>1. z \in Seq(Char) /\ first = w \o z
      BY <1>4, <2>4
    <3> HIDE DEF z
    <3>2. (w \o z) \o Sep = w \o (z \o Sep)
      BY <1>2, <3>1, ConcatAssociative
    <3> QED
      BY <3>1, <3>2 DEF z, Glue
  <2>6. G[1] = w \o F[1]
    <3>1. CASE 1 = n /\ ~m.separated
      BY <1>4, <1>5, <2>2, <2>4, <3>1
    <3>2. CASE ~(1 = n /\ ~m.separated)
      <4>1. G[1] = Glue(first, Sep) /\ F[1] = Glue(f[1], Sep)
        BY <1>5, <2>2, <2>4, <3>2
      <4> QED
        BY <2>5, <4>1
    <3> QED
      BY <3>1, <3>2
  <2>7. F \in Seq(Seq(Char)) /\ Len(F) = n /\ n \in Nat \ {0} /\ w \in Seq(Char)
    BY <1>1, <1>2 DEF F, n
  <2>8. /\ Len(G) = Len(F) /\ Len(F) \in Nat \ {0} /\ \A i \in 2 .. Len(F) : G[i] = F[i]
    BY <2>1, <2>3, <2>7
  <2> QED
    BY <2>1, <2>6, <2>7, <2>8, ConcatFront
<1>11. Meant(r) = Shifted(Meant(m))
  <2>1. CASE m.separated
    BY <1>r, <2>1 DEF Meant, h
  <2>2. CASE ~m.separated
    <3> DEFINE u == Take(f, n - 1)
               v == Take(h, n - 1)
    <3>1. n - 1 \in 0 .. n
      BY <1>1
    <3>2. /\ u \in Seq(Seq(Char)) /\ Len(u) = n - 1 /\ \A i \in 1 .. n - 1 : u[i] = f[i]
          /\ v \in Seq(Seq(Char)) /\ Len(v) = n - 1 /\ \A i \in 1 .. n - 1 : v[i] = h[i]
      <4>1. u \in Seq(Seq(Char)) /\ Len(u) = n - 1 /\ \A i \in 1 .. n - 1 : u[i] = f[i]
        <5> HIDE DEF f
        <5> QED
          BY <1>1, <3>1, TakeFacts DEF n
      <4>2. v \in Seq(Seq(Char)) /\ Len(v) = n - 1 /\ \A i \in 1 .. n - 1 : v[i] = h[i]
        <5>1. h \in Seq(Seq(Char)) /\ Len(h) = n
          BY <1>5
        <5>2. n - 1 \in 0 .. Len(h)
          BY <3>1, <5>1
        <5> QED
          BY <5>1, <5>2, TakeFacts
      <4> QED
        BY <4>1, <4>2
    <3>3. Meant(m) = u /\ Meant(r) = v
      BY <1>5, <1>r, <2>2 DEF Meant, n
    <3>4. Shifted(u) = [i \in DOMAIN u |-> IF i = 1 THEN Glue(w, u[1]) ELSE u[i]]
      BY <1>3
    <3> HIDE DEF u, v, f
    <3>5. DOMAIN u = 1 .. n - 1 /\ DOMAIN v = 1 .. n - 1
      BY <3>2, LenProperties
    <3>6. v = [i \in 1 .. n - 1 |-> v[i]]
      BY <3>2, <3>5
    <3>7. \A i \in 1 .. n - 1 : v[i] = IF i = 1 THEN Glue(w, u[1]) ELSE u[i]
      <4> TAKE i \in 1 .. n - 1
      <4>1. v[i] = h[i] /\ u[i] = f[i] /\ i \in 1 .. n
        BY <1>1, <3>2
      <4>2. CASE i = 1
        <5>1. u[1] = f[1] /\ v[1] = first
          BY <1>5, <4>1, <4>2
        <5> QED
          BY <4>2, <5>1 DEF first
      <4>3. CASE i # 1
        <5>1. i \in 2 .. n
          BY <1>1, <4>1, <4>3
        <5> QED
          BY <1>5, <4>1, <4>3, <5>1
      <4> QED
        BY <4>2, <4>3
    <3>8. v = Shifted(u)
      BY <3>4, <3>5, <3>6, <3>7
    <3> QED
      BY <3>3, <3>8
  <2> QED
    BY <1>2, <2>1, <2>2
<1> QED
  BY <1>9, <1>10, <1>11 DEF w, x, F

-----------------------------------------------------------------------------
(* Where the CRLFs are, in the text and in a read. *)

Lines(s) == [i \in DOMAIN s |-> Line(s[i])]

LEMMA TextLines ==
    ASSUME NEW Char, PlainMessages(Char), NEW s \in Seq(Messages)
    PROVE  /\ Lines(s) \in Seq(Seq(LineChars(Char))) /\ Len(Lines(s)) = Len(s)
           /\ Text(s) = Concat(Lines(s)) /\ Text(s) \in Seq(LineChars(Char))
           /\ \A j \in 0 .. Len(s) : Len(Text(Take(s, j))) = Ends(Lines(s), j)
<1> DEFINE n == Len(s)
           C == LineChars(Char)
<1>1. n \in Nat /\ DOMAIN s = 1 .. n /\ \A i \in 1 .. n : s[i] \in Messages
  BY LenProperties, ElementOfSeq
<1>2. \A i \in 1 .. n : Line(s[i]) \in Seq(C)
  BY <1>1, LineShape
<1> HIDE DEF C
<1>3. Lines(s) \in [1 .. n -> Seq(C)] /\ DOMAIN Lines(s) = 1 .. n
  BY <1>1, <1>2 DEF Lines
<1>4. Lines(s) \in Seq(Seq(C)) /\ Len(Lines(s)) = n
  BY <1>1, <1>3
<1>5. Text(s) = Concat(Lines(s)) /\ Text(s) \in Seq(C)
  BY <1>4, ConcatType DEF Text, Lines
<1>6. ASSUME NEW j \in 0 .. n PROVE Len(Text(Take(s, j))) = Ends(Lines(s), j)
  <2>1. /\ Take(s, j) \in Seq(Messages) /\ Len(Take(s, j)) = j
        /\ \A i \in 1 .. j : Take(s, j)[i] = s[i]
    BY TakeFacts
  <2>2. DOMAIN Take(s, j) = 1 .. j
    BY <2>1, LenProperties
  <2> DEFINE a == [i \in DOMAIN Take(s, j) |-> Line(Take(s, j)[i])]
             b == Take(Lines(s), j)
  <2>3. b \in Seq(Seq(C)) /\ Len(b) = j /\ \A i \in 1 .. j : b[i] = Lines(s)[i]
    BY <1>4, TakeFacts
  <2>4. \A i \in 1 .. j : Lines(s)[i] = Line(s[i]) /\ Line(s[i]) \in Seq(C)
    BY <1>1, <1>2 DEF Lines
  <2>5. /\ a \in [1 .. j -> Seq(C)] /\ DOMAIN a = 1 .. j
        /\ \A i \in 1 .. j : a[i] = Line(s[i])
    BY <2>1, <2>2, <2>4
  <2> HIDE DEF a, b
  <2>6. a \in Seq(Seq(C)) /\ Len(a) = j
    BY <1>1, <2>5
  <2>7. \A i \in 1 .. j : a[i] = b[i]
    BY <2>3, <2>4, <2>5
  <2>8. a = b
    BY <2>3, <2>6, <2>7, SeqEqual
  <2> QED
    BY <2>8 DEF a, b, Text, Ends
<1> QED
  BY <1>4, <1>5, <1>6 DEF C

\* Every line is longer than its CRLF.
LEMMA EndsApart ==
    ASSUME NEW Char, PlainMessages(Char), NEW s \in Seq(Messages),
           NEW j \in 0 .. Len(s), NEW k \in j + 1 .. Len(s)
    PROVE  /\ Ends(Lines(s), j) \in Nat /\ Ends(Lines(s), k) \in Nat
           /\ Ends(Lines(s), j) + 3 <= Ends(Lines(s), k)
<1> DEFINE L == Lines(s)
           C == LineChars(Char)
<1>1. L \in Seq(Seq(C)) /\ Len(L) = Len(s) /\ Len(s) \in Nat
  BY TextLines, LenProperties
<1>2. L[k] = Line(s[k]) /\ s[k] \in Messages
  BY <1>1, LenProperties, ElementOfSeq DEF Lines
<1>3. Len(L[k]) \in Nat /\ Len(L[k]) >= 3
  <2> DEFINE b == Len(Concat(Padded(s[k])))
  <2>1. Len(Line(s[k])) = (TOKEN_LENGTH + b) + 2 /\ TOKEN_LENGTH \in Nat \ {0} /\ b \in Nat
    BY <1>2, LineShape
  <2> HIDE DEF b, L
  <2> QED
    BY <1>2, <2>1
<1> HIDE DEF L, C
<1>4. k - 1 \in j .. Len(L) /\ k \in 1 .. Len(L) /\ k - 1 \in 0 .. Len(L) /\ j \in 0 .. Len(L)
      /\ k \in 0 .. Len(L)
  BY <1>1
<1>5. Ends(L, j) <= Ends(L, k - 1)
  BY <1>1, <1>4, EndsGrow
<1>6. Ends(L, k) = Ends(L, k - 1) + Len(L[k])
  BY <1>1, <1>4, ConcatType
<1>7. Ends(L, j) \in Nat /\ Ends(L, k) \in Nat /\ Ends(L, k - 1) \in Nat
  BY <1>1, <1>4, ConcatType
<1> QED
  BY <1>3, <1>5, <1>6, <1>7 DEF L

LEMMA CrlfPlaces ==
    ASSUME NEW Char, PlainMessages(Char), NEW s \in Seq(Messages), NEW y \in 1 .. Len(Text(s))
    PROVE  /\ Text(s)[y] = Crlf[1] <=> \E j \in 1 .. Len(s) : y = Ends(Lines(s), j) - 1
           /\ \A j \in 1 .. Len(s) : y = Ends(Lines(s), j) - 1 =>
                  y + 1 <= Len(Text(s)) /\ Text(s)[y + 1] = Crlf[2]
<1> DEFINE L == Lines(s)
           C == LineChars(Char)
           t == Text(s)
<1>1. L \in Seq(Seq(C)) /\ Len(L) = Len(s) /\ Len(s) \in Nat /\ t = Concat(L) /\ Len(t) \in Nat
  BY TextLines, LenProperties
<1>2. ASSUME NEW j \in 1 .. Len(s)
      PROVE  /\ Len(L[j]) \in Nat /\ Len(L[j]) >= 2
             /\ Ends(L, j - 1) \in Nat /\ Ends(L, j) = Ends(L, j - 1) + Len(L[j])
             /\ Ends(L, j) <= Len(t)
             /\ \A x \in 1 .. Len(L[j]) : t[Ends(L, j - 1) + x] = L[j][x]
             /\ \A x \in 1 .. Len(L[j]) - 2 : L[j][x] \in Char
             /\ L[j][Len(L[j]) - 1] = Crlf[1] /\ L[j][Len(L[j])] = Crlf[2]
  <2>1. L[j] = Line(s[j]) /\ s[j] \in Messages
    BY <1>1, LenProperties, ElementOfSeq DEF Lines
  <2>2. /\ Len(L[j]) \in Nat /\ Len(L[j]) >= 2
        /\ \A x \in 1 .. Len(L[j]) - 2 : L[j][x] \in Char
        /\ L[j][Len(L[j]) - 1] = Crlf[1] /\ L[j][Len(L[j])] = Crlf[2]
    <3> DEFINE n == TOKEN_LENGTH + Len(Concat(Padded(s[j])))
    <3>1. /\ Len(L[j]) = n + 2 /\ n \in Nat
          /\ \A x \in 1 .. n : L[j][x] \in Char
          /\ L[j][n + 1] = Crlf[1] /\ L[j][n + 2] = Crlf[2]
      <4> DEFINE b == Len(Concat(Padded(s[j])))
      <4>1. /\ Len(Line(s[j])) = (TOKEN_LENGTH + b) + 2 /\ TOKEN_LENGTH \in Nat \ {0} /\ b \in Nat
            /\ \A x \in 1 .. TOKEN_LENGTH + b : Line(s[j])[x] \in Char
            /\ Line(s[j])[(TOKEN_LENGTH + b) + 1] = Crlf[1]
            /\ Line(s[j])[(TOKEN_LENGTH + b) + 2] = Crlf[2]
        BY <2>1, LineShape
      <4>2. n = TOKEN_LENGTH + b
        OBVIOUS
      <4> HIDE DEF b, L, n
      <4> QED
        BY <2>1, <4>1, <4>2
    <3> HIDE DEF L, n
    <3>2. Len(L[j]) - 2 = n /\ Len(L[j]) - 1 = n + 1
      BY <3>1
    <3> QED
      BY <3>1, <3>2
  <2> HIDE DEF L, C
  <2>3. \A x \in 1 .. Len(L[j]) : t[Ends(L, j - 1) + x] = L[j][x]
    BY <1>1, ConcatChars
  <2>4. j - 1 \in 0 .. Len(L) /\ j \in 1 .. Len(L) /\ j \in 0 .. Len(L) /\ Len(L) \in j .. Len(L)
    BY <1>1
  <2>5. Ends(L, j - 1) \in Nat /\ Ends(L, j) = Ends(L, j - 1) + Len(L[j]) /\ Ends(L, Len(L)) = Len(t)
    BY <1>1, <2>4, ConcatType
  <2>6. Ends(L, j) <= Len(t)
    BY <1>1, <2>4, <2>5, EndsGrow
  <2> QED
    BY <2>2, <2>3, <2>5, <2>6
<1>3. Crlf[1] \notin Char /\ Crlf[1] # Crlf[2]
  BY DEF PlainMessages
<1> HIDE DEF L, C, t
<1>4. ASSUME t[y] = Crlf[1] PROVE \E j \in 1 .. Len(s) : y = Ends(L, j) - 1
  <2>1. PICK j \in 1 .. Len(L) : \E x \in 1 .. Len(L[j]) : y = Ends(L, j - 1) + x
    BY <1>1, ConcatCover DEF t
  <2>2. PICK x \in 1 .. Len(L[j]) : y = Ends(L, j - 1) + x
    BY <2>1
  <2>3. j \in 1 .. Len(s) /\ L[j][x] = Crlf[1]
    BY <1>1, <1>2, <1>4, <2>2
  <2>4. x \notin 1 .. Len(L[j]) - 2 /\ x # Len(L[j])
    BY <1>2, <1>3, <2>3
  <2> DEFINE l == Len(L[j])
             e == Ends(L, j - 1)
  <2>5. Ends(L, j) = e + l /\ e \in Nat /\ l \in Nat
    BY <1>2, <2>3
  <2>6. x \in 1 .. l /\ x \notin 1 .. l - 2 /\ x # l /\ y = e + x
    BY <2>2, <2>4
  <2> HIDE DEF l, e
  <2>7. y = Ends(L, j) - 1
    BY <2>5, <2>6
  <2> QED
    BY <2>3, <2>7
<1>5. ASSUME NEW j \in 1 .. Len(s), y = Ends(L, j) - 1
      PROVE  t[y] = Crlf[1] /\ y + 1 <= Len(t) /\ t[y + 1] = Crlf[2]
  <2> DEFINE l == Len(L[j])
  <2>1. /\ l \in 1 .. l /\ l - 1 \in 1 .. l
        /\ y = Ends(L, j - 1) + (l - 1) /\ y + 1 = Ends(L, j - 1) + l /\ y + 1 <= Len(t)
    <3>1. /\ l \in Nat /\ l >= 2 /\ Ends(L, j - 1) \in Nat /\ Ends(L, j) = Ends(L, j - 1) + l
          /\ Ends(L, j) <= Len(t)
      BY <1>2
    <3> HIDE DEF l
    <3> QED
      BY <1>1, <1>5, <3>1
  <2> QED
    BY <1>2, <2>1
<1> QED
  BY <1>4, <1>5 DEF L, t

\* A read from a to b has the CRLF of every line that ends in it, if the read
\* begins before that CRLF.
Chunk(s, a, b) == SubSeq(Text(s), a + 1, b)

EndsIn(s, a, b) == {j \in 1 .. Len(s) : a + 2 <= Ends(Lines(s), j) /\ Ends(Lines(s), j) <= b}

LEMMA ChunkChars ==
    ASSUME NEW Char, PlainMessages(Char), NEW s \in Seq(Messages),
           NEW b \in 0 .. Len(Text(s)), NEW a \in 0 .. b
    PROVE  /\ Len(Text(s)) \in Nat
           /\ Chunk(s, a, b) \in Seq(LineChars(Char)) /\ Len(Chunk(s, a, b)) = b - a
           /\ \A q \in 1 .. b - a : Chunk(s, a, b)[q] = Text(s)[a + q]
<1> DEFINE t == Text(s)
           C == LineChars(Char)
<1>1. t \in Seq(C) /\ Len(t) \in Nat
  BY TextLines, LenProperties
<1> HIDE DEF t, C
<1>2. b \in 0 .. Len(t) /\ a + 1 \in 1 .. Len(t) + 1 /\ b \in (a + 1) - 1 .. Len(t) /\ b - (a + 1) + 1 = b - a
  BY <1>1 DEF t
<1>3. /\ SubSeq(t, a + 1, b) \in Seq(C) /\ Len(SubSeq(t, a + 1, b)) = b - a
      /\ \A q \in 1 .. b - a : SubSeq(t, a + 1, b)[q] = t[(a + 1) + q - 1]
  <2> DEFINE f == a + 1
  <2>1. f \in 1 .. Len(t) + 1 /\ b \in f - 1 .. Len(t) /\ b - f + 1 = b - a
    BY <1>2
  <2> HIDE DEF f, t
  <2>2. /\ SubSeq(t, f, b) \in Seq(C) /\ Len(SubSeq(t, f, b)) = b - f + 1
        /\ \A q \in 1 .. b - f + 1 : SubSeq(t, f, b)[q] = t[f + q - 1]
    BY <1>1, <2>1, SubChars
  <2> QED
    BY <2>1, <2>2 DEF f
<1>4. \A q \in 1 .. b - a : (a + 1) + q - 1 = a + q
  BY <1>1, <1>2
<1> QED
  BY <1>1, <1>3, <1>4 DEF t, C, Chunk

LEMMA AtCrlf ==
    ASSUME NEW Char, PlainMessages(Char), NEW C, NEW c \in Seq(C), NEW q \in Nat \ {0}
    PROVE  At(c, Crlf, q) <=> /\ q + 1 <= Len(c)
                              /\ c[q] = Crlf[1] /\ c[q + 1] = Crlf[2]
<1>1. Crlf = <<Crlf[1], Crlf[2]>> /\ Len(Crlf) = 2 /\ Len(c) \in Nat
  BY LenProperties, LineAssumption DEF PlainMessages
<1>2. At(c, Crlf, q) <=> q + 1 <= Len(c) /\ SubSeq(c, q, q + 1) = Crlf
  <2>1. q + 2 - 1 = q + 1
    OBVIOUS
  <2> QED
    BY <1>1, <2>1 DEF At
<1>3. ASSUME q + 1 <= Len(c)
      PROVE  SubSeq(c, q, q + 1) = Crlf <=> c[q] = Crlf[1] /\ c[q + 1] = Crlf[2]
  <2>1. q \in 1 .. Len(c) + 1 /\ q + 1 \in q - 1 .. Len(c) /\ (q + 1) - q + 1 = 2
    BY <1>1, <1>3
  <2> DEFINE sub == SubSeq(c, q, q + 1)
  <2>2. /\ sub \in Seq(C) /\ Len(sub) = 2
        /\ \A x \in 1 .. 2 : sub[x] = c[q + x - 1]
    <3> DEFINE e == q + 1
    <3>1. q \in 1 .. Len(c) + 1 /\ e \in q - 1 .. Len(c) /\ e - q + 1 = 2
      BY <2>1
    <3> HIDE DEF e
    <3>2. /\ SubSeq(c, q, e) \in Seq(C) /\ Len(SubSeq(c, q, e)) = e - q + 1
          /\ \A x \in 1 .. e - q + 1 : SubSeq(c, q, e)[x] = c[q + x - 1]
      BY <3>1, SubChars
    <3> QED
      BY <3>1, <3>2 DEF e
  <2>3. sub[1] = c[q] /\ sub[2] = c[q + 1]
    <3>1. q + 1 - 1 = q /\ q + 2 - 1 = q + 1 /\ 1 \in 1 .. 2 /\ 2 \in 1 .. 2
      OBVIOUS
    <3> QED
      BY <2>2, <3>1
  <2> HIDE DEF sub
  <2>4. sub = <<sub[1], sub[2]>>
    BY <2>2
  <2>5. sub = Crlf <=> sub[1] = Crlf[1] /\ sub[2] = Crlf[2]
    BY <1>1, <2>4
  <2> QED
    BY <2>3, <2>5 DEF sub
<1> QED
  BY <1>2, <1>3

LEMMA ChunkCrlf ==
    ASSUME NEW Char, PlainMessages(Char), NEW s \in Seq(Messages),
           NEW b \in 0 .. Len(Text(s)), NEW a \in 0 .. b, NEW q \in Nat \ {0}
    PROVE  At(Chunk(s, a, b), Crlf, q) <=> \E j \in EndsIn(s, a, b) : a + q = Ends(Lines(s), j) - 1
<1> DEFINE t == Text(s)
           c == Chunk(s, a, b)
           E(j) == Ends(Lines(s), j)
<1>1. /\ Len(t) \in Nat /\ c \in Seq(LineChars(Char)) /\ Len(c) = b - a
      /\ \A x \in 1 .. b - a : c[x] = t[a + x]
  BY ChunkChars
<1>3. \A j \in 1 .. Len(s) : E(j) \in Nat
  <2> TAKE j \in 1 .. Len(s)
  <2>1. 0 \in 0 .. Len(s) /\ j \in 0 + 1 .. Len(s)
    BY LenProperties
  <2> QED
    BY <2>1, EndsApart
<1>4. At(c, Crlf, q) <=> /\ q + 1 <= b - a
                         /\ c[q] = Crlf[1] /\ c[q + 1] = Crlf[2]
  <2> HIDE DEF c
  <2> QED
    BY <1>1, AtCrlf
<1> HIDE DEF t, c, E
<1>5. ASSUME At(c, Crlf, q) PROVE \E j \in EndsIn(s, a, b) : a + q = E(j) - 1
  <2>1. q \in 1 .. b - a /\ a + q \in 1 .. Len(t) /\ q + 1 <= b - a
    BY <1>1, <1>4, <1>5 DEF t
  <2>2. t[a + q] = Crlf[1]
    BY <1>1, <1>4, <1>5, <2>1
  <2>3. PICK j \in 1 .. Len(s) : a + q = E(j) - 1
    BY <2>1, <2>2, CrlfPlaces DEF t, E
  <2>4. E(j) \in Nat
    BY <1>3
  <2>5. a + 2 <= E(j) /\ E(j) <= b
    BY <1>1, <2>1, <2>3, <2>4
  <2> QED
    BY <2>3, <2>5 DEF EndsIn, E
<1>6. ASSUME NEW j \in EndsIn(s, a, b), a + q = E(j) - 1 PROVE At(c, Crlf, q)
  <2>1. j \in 1 .. Len(s) /\ E(j) <= b
    BY DEF EndsIn, E
  <2>2. E(j) \in Nat
    BY <1>3, <2>1
  <2>3. q + 1 <= b - a /\ a + q \in 1 .. Len(t) /\ q \in 1 .. b - a /\ q + 1 \in 1 .. b - a
    BY <1>1, <1>6, <2>1, <2>2 DEF t
  <2>4. t[a + q] = Crlf[1] /\ t[(a + q) + 1] = Crlf[2]
    BY <1>6, <2>1, <2>3, CrlfPlaces DEF t, E
  <2>5. (a + q) + 1 = a + (q + 1)
    OBVIOUS
  <2> QED
    BY <1>1, <1>4, <2>3, <2>4, <2>5
<1> QED
  BY <1>5, <1>6 DEF c, E

\* Two sets of which each element of one has its own in the other.
LEMMA SameCount ==
    ASSUME NEW S, IsFiniteSet(S), NEW T, NEW f \in [S -> T],
           \A x, y \in S : f[x] = f[y] => x = y,
           \A z \in T : \E x \in S : f[x] = z
    PROVE  IsFiniteSet(T) /\ Cardinality(T) = Cardinality(S)
<1>1. f \in Bijection(S, T)
  BY DEF Bijection, Injection, Surjection, IsInjective
<1>2. ExistsBijection(S, T)
  BY <1>1 DEF ExistsBijection
<1> QED
  BY <1>2, FS_Bijection

LEMMA CrlfCount ==
    ASSUME NEW Char, PlainMessages(Char), NEW s \in Seq(Messages),
           NEW b \in 0 .. Len(Text(s)), NEW a \in 0 .. b
    PROVE  LET c == Chunk(s, a, b) IN
           /\ Apart(c, Crlf)
           /\ IsFiniteSet(EndsIn(s, a, b)) /\ Cardinality(EndsIn(s, a, b)) \in Nat
           /\ Cardinality(Ats(c, Crlf, 1)) = Cardinality(EndsIn(s, a, b))
           /\ \A j \in EndsIn(s, a, b) :
                 /\ Ends(Lines(s), j) - 1 - a \in Ats(c, Crlf, 1)
                 /\ Cardinality(Behind(c, Crlf, 1, Ends(Lines(s), j) - 1 - a))
                        = Cardinality({k \in EndsIn(s, a, b) : k > j})
<1> DEFINE c == Chunk(s, a, b)
           E(j) == Ends(Lines(s), j)
           S == EndsIn(s, a, b)
           A == Ats(c, Crlf, 1)
<1>0. Len(s) \in Nat /\ Len(c) = b - a /\ Len(Text(s)) \in Nat /\ Len(Crlf) = 2
  BY LenProperties, ChunkChars, LineAssumption
<1>1. /\ \A j \in 1 .. Len(s) : E(j) \in Nat
      /\ \A j, k \in 1 .. Len(s) : j < k => E(j) + 3 <= E(k)
  <2>1. ASSUME NEW j \in 1 .. Len(s) PROVE E(j) \in Nat
    <3>1. 0 \in 0 .. Len(s) /\ j \in 0 + 1 .. Len(s)
      BY <1>0
    <3> QED
      BY <3>1, EndsApart
  <2>2. ASSUME NEW j \in 1 .. Len(s), NEW k \in 1 .. Len(s), j < k PROVE E(j) + 3 <= E(k)
    <3>1. j \in 0 .. Len(s) /\ k \in j + 1 .. Len(s)
      BY <1>0, <2>2
    <3> QED
      BY <3>1, EndsApart
  <2> QED
    BY <2>1, <2>2
<1>2. S = {j \in 1 .. Len(s) : a + 2 <= E(j) /\ E(j) <= b}
  BY DEF EndsIn
<1>3. \A q \in Nat \ {0} : At(c, Crlf, q) <=> \E j \in S : a + q = E(j) - 1
  BY ChunkCrlf
<1> HIDE DEF E, S, c
<1>4. \A q : q \in A <=> q \in 1 .. b - a /\ \E j \in S : q = E(j) - 1 - a
  <2> TAKE q
  <2>1. q \in A <=> q \in 1 .. b - a /\ At(c, Crlf, q)
    BY <1>0 DEF Ats
  <2>2. ASSUME q \in 1 .. b - a PROVE At(c, Crlf, q) <=> \E j \in S : q = E(j) - 1 - a
    <3>1. q \in Nat \ {0}
      BY <2>2
    <3>2. ASSUME NEW j \in S PROVE (a + q = E(j) - 1) <=> (q = E(j) - 1 - a)
      <4>1. E(j) \in Nat
        BY <1>1, <1>2
      <4> QED
        BY <3>1, <4>1
    <3> QED
      BY <1>3, <3>1, <3>2
  <2> QED
    BY <2>1, <2>2
<1>5. \A j \in S : E(j) - 1 - a \in A /\ E(j) - 1 - a \in Nat
  <2> TAKE j \in S
  <2>1. E(j) \in Nat /\ a + 2 <= E(j) /\ E(j) <= b
    BY <1>1, <1>2
  <2>2. E(j) - 1 - a \in 1 .. b - a
    BY <2>1
  <2> HIDE DEF A
  <2> QED
    BY <1>4, <2>2
<1>6. IsFiniteSet(S) /\ \A U : U \subseteq S => IsFiniteSet(U) /\ Cardinality(U) \in Nat
  <2>1. IsFiniteSet(1 .. Len(s)) /\ S \subseteq 1 .. Len(s)
    BY <1>0, <1>2, FS_Interval
  <2> QED
    BY <2>1, FS_Subset, FS_CardinalityType
<1>7. \A j, k \in S : /\ j < k => E(j) - 1 - a + 3 <= E(k) - 1 - a
                      /\ E(j) - 1 - a = E(k) - 1 - a => j = k
                      /\ j \in Nat
  <2> TAKE j, k \in S
  <2> DEFINE u == E(j)
             v == E(k)
  <2>1. /\ j \in Nat /\ k \in Nat /\ u \in Nat /\ v \in Nat /\ a \in Nat
        /\ j < k => u + 3 <= v
        /\ k < j => v + 3 <= u
    <3>1. j \in 1 .. Len(s) /\ k \in 1 .. Len(s)
      BY <1>2
    <3>2. a \in Nat
      BY <1>0
    <3> QED
      BY <1>1, <3>1, <3>2
  <2> HIDE DEF u, v
  <2>2. /\ j < k => u - 1 - a + 3 <= v - 1 - a
        /\ u - 1 - a = v - 1 - a => j = k
    BY <2>1
  <2> QED
    BY <2>1, <2>2 DEF u, v
<1> HIDE DEF A
<1>8. Apart(c, Crlf)
  <2> SUFFICES ASSUME NEW x \in A, NEW y \in A, x < y PROVE x + 2 <= y
    BY <1>0 DEF Apart, A
  <2>1. PICK j \in S, k \in S : x = E(j) - 1 - a /\ y = E(k) - 1 - a
    BY <1>4
  <2>2. j < k
    BY <1>5, <1>7, <2>1
  <2> QED
    BY <1>5, <1>7, <2>1, <2>2
<1>9. Cardinality(A) = Cardinality(S)
  <2> DEFINE f == [j \in S |-> E(j) - 1 - a]
  <2>1. f \in [S -> A]
    BY <1>5
  <2>2. \A x, y \in S : f[x] = f[y] => x = y
    BY <1>7
  <2>3. \A z \in A : \E x \in S : f[x] = z
    BY <1>4
  <2> HIDE DEF f
  <2> QED
    BY <1>6, <2>1, <2>2, <2>3, SameCount
<1>10. ASSUME NEW j \in S
       PROVE  Cardinality(Behind(c, Crlf, 1, E(j) - 1 - a)) = Cardinality({k \in S : k > j})
  <2> DEFINE B == Behind(c, Crlf, 1, E(j) - 1 - a)
             U == {k \in S : k > j}
             f == [k \in U |-> E(k) - 1 - a]
  <2>0. \A x : x \in B <=> x \in A /\ x > E(j) - 1 - a
    BY DEF Behind, A
  <2>1. f \in [U -> B]
    <3> SUFFICES ASSUME NEW k \in S, k > j PROVE E(k) - 1 - a \in B
      OBVIOUS
    <3>1. E(k) - 1 - a \in A /\ E(k) - 1 - a > E(j) - 1 - a
      BY <1>5, <1>7
    <3> QED
      BY <2>0, <3>1
  <2>2. \A x, y \in U : f[x] = f[y] => x = y
    BY <1>7
  <2>3. ASSUME NEW z \in B PROVE \E x \in U : f[x] = z
    <3>1. z \in A /\ z > E(j) - 1 - a
      BY <2>0
    <3>2. PICK k \in S : z = E(k) - 1 - a
      BY <1>4, <3>1
    <3>3. k > j
      BY <1>5, <1>7, <3>1, <3>2
    <3> QED
      BY <3>2, <3>3
  <2>4. IsFiniteSet(U)
    BY <1>6
  <2> HIDE DEF f, U, B
  <2>5. Cardinality(B) = Cardinality(U)
    BY <2>1, <2>2, <2>3, <2>4, SameCount
  <2> QED
    BY <2>5 DEF B, U
<1>11. Cardinality(S) \in Nat
  BY <1>6
<1> QED
  BY <1>5, <1>6, <1>8, <1>9, <1>10, <1>11 DEF S, E, c, A

-----------------------------------------------------------------------------
(* What start_routine makes of a read. *)

LEMMA HandleLines ==
    ASSUME NEW Char, PlainMessages(Char), NEW s \in Seq(Messages),
           NEW b \in 0 .. Len(Text(s)), NEW a \in 0 .. b
    PROVE  LET c == Chunk(s, a, b)
               lines == SplitData(c, Crlf)
           IN  /\ OnePieceEach(c, Crlf, LineChars(Char), 1, lines)
               /\ Len(Handle(c)) \in Nat /\ Len(Handle(c)) <= Cardinality(EndsIn(s, a, b))
               /\ FindCRLF(c) /\ FindSPACE(c) =>
                      /\ Len(Handle(c)) = Len(lines)
                      /\ \A i \in 1 .. Len(lines) : Handle(c)[i] = Outcome(Fields(lines[i]))
<1> DEFINE c == Chunk(s, a, b)
           C == LineChars(Char)
           lines == SplitData(c, Crlf)
<1>1. c \in Seq(C) /\ Apart(c, Crlf) /\ Len(Crlf) \in Nat \ {0}
      /\ Cardinality(Ats(c, Crlf, 1)) = Cardinality(EndsIn(s, a, b))
      /\ Cardinality(EndsIn(s, a, b)) \in Nat
  <2>1. c \in Seq(C)
    BY ChunkChars
  <2>2. Apart(c, Crlf) /\ Cardinality(Ats(c, Crlf, 1)) = Cardinality(EndsIn(s, a, b))
        /\ Cardinality(EndsIn(s, a, b)) \in Nat
    BY CrlfCount
  <2>3. Len(Crlf) \in Nat \ {0}
    BY LineAssumption
  <2> QED
    BY <2>1, <2>2, <2>3
<1> HIDE DEF c, C
<1>2. OnePieceEach(c, Crlf, C, 1, lines)
  BY <1>1, SplitOnePieceEach
<1> HIDE DEF lines
<1>3. lines \in Seq(Seq(C)) /\ Len(lines) = Cardinality(EndsIn(s, a, b))
  BY <1>1, <1>2 DEF OnePieceEach
<1>4. DOMAIN lines = 1 .. Len(lines) /\ Len(lines) \in Nat
  BY <1>3, LenProperties
<1>5. CASE FindCRLF(c) /\ FindSPACE(c)
  <2> DEFINE h == [i \in 1 .. Len(lines) |-> Outcome(Fields(lines[i]))]
             R == {Outcome(Fields(lines[i])) : i \in 1 .. Len(lines)}
  <2>1. Handle(c) = h
    BY <1>4, <1>5 DEF Handle, lines
  <2>2. h \in [1 .. Len(lines) -> R] /\ \A i \in 1 .. Len(lines) : h[i] = Outcome(Fields(lines[i]))
    OBVIOUS
  <2> HIDE DEF h, R
  <2>3. h \in Seq(R) /\ Len(h) = Len(lines)
    BY <1>4, <2>2
  <2> QED
    BY <1>1, <1>2, <1>3, <1>4, <2>1, <2>2, <2>3 DEF c, C, lines
<1>6. CASE ~(FindCRLF(c) /\ FindSPACE(c))
  <2>1. Handle(c) = <<>> /\ Len(<<>>) = 0
    BY <1>6 DEF Handle
  <2> QED
    BY <1>1, <1>2, <1>6, <2>1 DEF c, C, lines
<1> QED
  BY <1>5, <1>6

(***************************************************************************)
(* The inductive invariant: handled is what the last read came to, and the *)
(* answers are no more than the lines whose end has been read.             *)
(***************************************************************************)
Done == {j \in 1 .. Len(sent) : Ends(Lines(sent), j) <= got}

LineInv ==
    /\ sent \in Seq(Messages) /\ text = Text(sent)
    /\ arrived \in 0 .. Len(text) /\ got \in 0 .. arrived
    /\ from \in 0 .. got /\ got - from <= BufSize
    /\ isVerify \in BOOLEAN /\ open \in BOOLEAN /\ short \in BOOLEAN
    /\ open => handled = Handle(Chunk(sent, from, got))
    /\ answers \in Nat /\ answers <= Cardinality(Done)

LEMMA LineInit ==
    ASSUME NEW Char, PlainMessages(Char), Init
    PROVE  LineInv
<1>1. sent \in Seq(Messages) /\ text = Text(sent)
  BY LineAssumption DEF Init
<1>2. Len(text) \in Nat
  BY <1>1, TextLines, LenProperties
<1>3. /\ arrived = 0 /\ got = 0 /\ from = 0 /\ handled = <<>> /\ answers = 0
      /\ isVerify \in BOOLEAN /\ open \in BOOLEAN /\ short \in BOOLEAN
  BY DEF Init
<1>4. Handle(Chunk(sent, 0, 0)) = <<>>
  <2> DEFINE c == Chunk(sent, 0, 0)
  <2>1. Len(c) = 0
    <3>1. 0 \in 0 .. Len(Text(sent)) /\ 0 \in 0 .. 0 /\ 0 - 0 = 0
      BY <1>1, <1>2
    <3> QED
      BY <1>1, <3>1, ChunkChars
  <2> HIDE DEF c
  <2>2. ~FindCRLF(c)
    BY <2>1 DEF FindCRLF, Found
  <2>3. Handle(c) = <<>>
    BY <2>2 DEF Handle
  <2> QED
    BY <2>3 DEF c
<1>5. Cardinality(Done) \in Nat
  <2>1. IsFiniteSet(1 .. Len(sent)) /\ Done \in SUBSET (1 .. Len(sent))
    BY <1>1, LenProperties, FS_Interval DEF Done
  <2> QED
    BY <2>1, FS_Subset, FS_CardinalityType
<1> QED
  BY <1>1, <1>2, <1>3, <1>4, <1>5, LineAssumption DEF LineInv

LEMMA LineStep ==
    ASSUME NEW Char, PlainMessages(Char), LineInv,
           NEW n \in 1 .. Len(text) - arrived, start_routine(n)
    PROVE  LineInv'
<1> DEFINE to == ReadLimit(arrived + n)
           chunk == SubSeq(text, got + 1, to)
           check == ChecksToken(to - got)
           refused == check /\ Take(chunk, TOKEN_LENGTH) # Token
<1>1. /\ arrived' = arrived + n /\ got' = to /\ from' = got
      /\ isVerify' = (isVerify \/ check) /\ open' = ~refused
      /\ handled' = IF refused THEN <<>> ELSE Handle(chunk)
      /\ answers' = answers + Len(handled')
      /\ short' = (short \/ (got = 0 /\ to < TOKEN_LENGTH))
      /\ sent' = sent /\ text' = text
  BY DEF start_routine
<1>2. to = IF (arrived + n) - got <= BufSize THEN arrived + n ELSE got + BufSize
  BY DEF ReadLimit
<1>3. chunk = Chunk(sent, got, to)
  BY DEF LineInv, Chunk
<1>b. (~refused) \in BOOLEAN /\ (isVerify \/ check) \in BOOLEAN
      /\ (short \/ (got = 0 /\ to < TOKEN_LENGTH)) \in BOOLEAN
  OBVIOUS
<1> HIDE DEF to, chunk, check, refused
<1>4. /\ sent \in Seq(Messages) /\ text = Text(sent) /\ Len(text) \in Nat /\ Len(sent) \in Nat
      /\ arrived \in Nat /\ got \in Nat /\ got <= arrived /\ arrived + n <= Len(text)
      /\ n \in Nat \ {0} /\ BufSize \in Nat \ {0} /\ answers \in Nat
  <2>1. sent \in Seq(Messages) /\ text = Text(sent)
    BY DEF LineInv
  <2>2. Len(text) \in Nat /\ Len(sent) \in Nat
    BY <2>1, TextLines, LenProperties
  <2> QED
    BY <2>1, <2>2, LineAssumption DEF LineInv
<1>5. /\ to \in got + 1 .. arrived + n /\ to - got <= BufSize
      /\ to \in 0 .. Len(Text(sent)) /\ got \in 0 .. to
  <2>1. to \in got + 1 .. arrived + n /\ to - got <= BufSize
    BY <1>2, <1>4
  <2> QED
    BY <1>4, <2>1
<1>6. /\ Len(Handle(chunk)) \in Nat
      /\ Len(Handle(chunk)) <= Cardinality(EndsIn(sent, got, to))
      /\ IsFiniteSet(EndsIn(sent, got, to)) /\ Cardinality(EndsIn(sent, got, to)) \in Nat
  BY <1>3, <1>4, <1>5, HandleLines, CrlfCount
<1>7. Len(handled') \in Nat /\ Len(handled') <= Cardinality(EndsIn(sent, got, to))
  <2>1. Len(<<>>) = 0
    OBVIOUS
  <2> QED
    BY <1>1, <1>6, <2>1
<1>8. Cardinality(Done) + Cardinality(EndsIn(sent, got, to)) <= Cardinality(Done')
      /\ Cardinality(Done) \in Nat /\ Cardinality(Done') \in Nat
  <2> DEFINE E(j) == Ends(Lines(sent), j)
             D == {j \in 1 .. Len(sent) : E(j) <= to}
             S == EndsIn(sent, got, to)
  <2>1. Done' = D
    BY <1>1 DEF Done
  <2>2. \A j \in 1 .. Len(sent) : E(j) \in Nat
    <3> TAKE j \in 1 .. Len(sent)
    <3>1. 0 \in 0 .. Len(sent) /\ j \in 0 + 1 .. Len(sent)
      BY <1>4
    <3> QED
      BY <1>4, <3>1, EndsApart
  <2>3. S = {j \in 1 .. Len(sent) : got + 2 <= E(j) /\ E(j) <= to}
    BY DEF EndsIn
  <2>4. Done = {j \in 1 .. Len(sent) : E(j) <= got}
    BY DEF Done
  <2> HIDE DEF E, S
  <2>5. Done \cap S = {} /\ Done \cup S \in SUBSET D /\ D \in SUBSET (1 .. Len(sent))
    BY <1>4, <1>5, <2>2, <2>3, <2>4
  <2>6. IsFiniteSet(1 .. Len(sent))
    BY <1>4, FS_Interval
  <2> HIDE DEF D
  <2>7. /\ IsFiniteSet(D) /\ Cardinality(D) \in Nat /\ IsFiniteSet(Done) /\ Cardinality(Done) \in Nat
        /\ IsFiniteSet(S) /\ Cardinality(S) \in Nat
    <3>1. IsFiniteSet(D)
      BY <2>5, <2>6, FS_Subset
    <3>2. Done \in SUBSET D /\ S \in SUBSET D
      BY <2>5
    <3> QED
      BY <3>1, <3>2, FS_Subset, FS_CardinalityType
  <2>8. Cardinality(Done \cup S) = Cardinality(Done) + Cardinality(S)
    <3>1. Cardinality(Done \cup S) = Cardinality(Done) + Cardinality(S) - Cardinality(Done \cap S)
      BY <2>7, FS_Union
    <3>2. Cardinality(Done \cap S) = 0
      BY <2>5, FS_EmptySet
    <3> QED
      BY <2>7, <3>1, <3>2
  <2>9. Cardinality(Done \cup S) <= Cardinality(D)
    BY <2>5, <2>7, FS_Subset
  <2> QED
    BY <2>1, <2>7, <2>8, <2>9 DEF S
<1>9. answers' \in Nat /\ answers' <= Cardinality(Done')
  <2>1. answers <= Cardinality(Done)
    BY DEF LineInv
  <2> QED
    BY <1>1, <1>4, <1>6, <1>7, <1>8, <2>1
<1>10. open' => handled' = Handle(Chunk(sent', from', got'))
  BY <1>1, <1>3
<1>11. /\ arrived' \in 0 .. Len(text') /\ got' \in 0 .. arrived'
       /\ from' \in 0 .. got' /\ got' - from' <= BufSize
  BY <1>1, <1>4, <1>5
<1>12. isVerify' \in BOOLEAN /\ open' \in BOOLEAN /\ short' \in BOOLEAN
  BY <1>1, <1>b
<1>13. sent' \in Seq(Messages) /\ text' = Text(sent')
  BY <1>1, <1>4
<1> QED
  BY <1>9, <1>10, <1>11, <1>12, <1>13 DEF LineInv

(***************************************************************************)
(* A line that lies in a read as a whole is one of the pieces SplitData    *)
(* cuts the read into, with the LF before it if the read begins with that. *)
(***************************************************************************)
Whole(s, a, b, j) == a <= Ends(Lines(s), j - 1) /\ Ends(Lines(s), j) <= b

Cut(s, a, j) == a = Ends(Lines(s), j - 1) - 1

PieceFrom(s, a, j) == IF Cut(s, a, j) THEN 1 ELSE Ends(Lines(s), j - 1) - a + 1

LEMMA WholePiece ==
    ASSUME NEW Char, PlainMessages(Char), NEW s \in Seq(Messages),
           NEW b \in 0 .. Len(Text(s)), NEW a \in 0 .. b,
           NEW j \in 1 .. Len(s), Whole(s, a, b, j),
           NEW list, PieceBefore(Chunk(s, a, b), Crlf, 1, list, Ends(Lines(s), j) - 1 - a)
    PROVE  list[Len(list) - Cardinality(Behind(Chunk(s, a, b), Crlf, 1, Ends(Lines(s), j) - 1 - a))]
               = SubSeq(Chunk(s, a, b), PieceFrom(s, a, j), Ends(Lines(s), j) - 2 - a)
<1> DEFINE E(k) == Ends(Lines(s), k)
           c == Chunk(s, a, b)
           S == EndsIn(s, a, b)
           q == E(j) - 1 - a
<1>1. Len(s) \in Nat /\ Len(Text(s)) \in Nat
  BY LenProperties, TextLines
<1>2. \A k \in 0 .. Len(s) : \A l \in k + 1 .. Len(s) : E(k) \in Nat /\ E(l) \in Nat /\ E(k) + 3 <= E(l)
  BY EndsApart
<1>3. a <= E(j - 1) /\ E(j) <= b
  BY DEF Whole
<1>4. E(0) = 0
  BY TextLines, ConcatType
<1>5. PICK p \in 1 .. q : /\ \A k \in p .. q - 1 : ~At(c, Crlf, k)
                          /\ p = 1 \/ p - Len(Crlf) \in Ats(c, Crlf, 1)
                          /\ list[Len(list) - Cardinality(Behind(c, Crlf, 1, q))] = SubSeq(c, p, q - 1)
  BY DEF PieceBefore
<1>6. S = {k \in 1 .. Len(s) : a + 2 <= E(k) /\ E(k) <= b}
  BY DEF EndsIn
<1>7. \A r \in Nat \ {0} : At(c, Crlf, r) <=> \E k \in S : a + r = E(k) - 1
  BY ChunkCrlf
<1>8. Len(Crlf) = 2
  BY LineAssumption
<1>9. ASSUME p - Len(Crlf) \in Ats(c, Crlf, 1)
      PROVE  p - 2 \in Nat \ {0} /\ At(c, Crlf, p - 2)
  <2>1. p - 2 \in 1 .. Len(c) /\ At(c, Crlf, p - 2)
    BY <1>8, <1>9 DEF Ats
  <2> QED
    BY <2>1
<1> HIDE DEF E, c, S
<1>10. /\ j - 1 \in 0 .. Len(s) /\ j \in (j - 1) + 1 .. Len(s) /\ a \in Nat /\ b \in Nat
       /\ E(j - 1) \in Nat /\ E(j) \in Nat /\ E(j - 1) + 3 <= E(j)
  <2>1. j - 1 \in 0 .. Len(s) /\ j \in (j - 1) + 1 .. Len(s) /\ a \in Nat /\ b \in Nat
    BY <1>1
  <2> QED
    BY <1>2, <2>1
<1>11. ASSUME p - Len(Crlf) \in Ats(c, Crlf, 1)
       PROVE  \E k \in 1 .. j - 1 : E(k) \in Nat /\ a + 2 <= E(k) /\ E(k) = a + p - 1
  <2>1. PICK k \in S : a + (p - 2) = E(k) - 1
    BY <1>7, <1>9, <1>11
  <2>2. k \in 1 .. Len(s) /\ a + 2 <= E(k)
    BY <1>6, <2>1
  <2>3. E(k) \in Nat
    <3>1. 0 \in 0 .. Len(s) /\ k \in 0 + 1 .. Len(s)
      BY <1>1, <2>2
    <3> QED
      BY <1>2, <3>1
  <2>4. E(k) = a + p - 1 /\ E(k) < E(j)
    <3>1. p \in Nat /\ p <= E(j) - 1 - a
      BY <1>5, <1>10
    <3> DEFINE u == E(k)
               w == E(j)
    <3>2. u \in Nat /\ w \in Nat /\ a \in Nat /\ a + (p - 2) = u - 1 /\ p \in Nat /\ p <= w - 1 - a
      BY <1>10, <2>1, <2>3, <3>1
    <3> HIDE DEF u, w
    <3>3. u = a + p - 1 /\ u < w
      BY <3>2
    <3> QED
      BY <3>3 DEF u, w
  <2>5. ~(k > j)
    <3> SUFFICES ASSUME k > j PROVE FALSE
      OBVIOUS
    <3>1. j \in 0 .. Len(s) /\ k \in j + 1 .. Len(s)
      BY <1>1, <2>2
    <3>2. E(j) + 3 <= E(k)
      BY <1>2, <3>1
    <3> QED
      BY <1>10, <2>3, <2>4, <3>2
  <2>6. k # j
    BY <1>10, <2>3, <2>4
  <2>7. k \in 1 .. j - 1
    BY <2>2, <2>5, <2>6
  <2> QED
    BY <2>2, <2>3, <2>4, <2>7
<1>12. p = IF a = E(j - 1) - 1 THEN 1 ELSE E(j - 1) - a + 1
  <2>1. CASE a = E(j - 1) \/ a = E(j - 1) - 1
    <3>1. p = 1
      <4> SUFFICES ASSUME p - Len(Crlf) \in Ats(c, Crlf, 1) PROVE FALSE
        BY <1>5
      <4>1. PICK k \in 1 .. j - 1 : E(k) \in Nat /\ a + 2 <= E(k)
        BY <1>11
      <4>2. k \in 0 .. Len(s)
        BY <1>10, <4>1
      <4>3. k = j - 1 \/ j - 1 \in k + 1 .. Len(s)
        BY <1>10, <4>1
      <4>4. E(k) <= E(j - 1)
        <5>1. CASE k = j - 1
          BY <1>10, <5>1
        <5>2. CASE j - 1 \in k + 1 .. Len(s)
          <6>1. E(k) + 3 <= E(j - 1)
            BY <1>2, <4>2, <5>2
          <6> DEFINE u == E(k)
                     v == E(j - 1)
          <6>2. u \in Nat /\ v \in Nat /\ u + 3 <= v
            BY <1>10, <4>1, <6>1
          <6> HIDE DEF u, v
          <6>3. u <= v
            BY <6>2
          <6> QED
            BY <6>3 DEF u, v
        <5> QED
          BY <4>3, <5>1, <5>2
      <4> DEFINE u == E(k)
                 v == E(j - 1)
      <4>5. /\ u \in Nat /\ v \in Nat /\ a \in Nat /\ a + 2 <= u /\ u <= v
            /\ a = v \/ a = v - 1
        BY <1>10, <2>1, <4>1, <4>4
      <4> HIDE DEF u, v
      <4> QED
        BY <4>5
    <3> QED
      BY <1>10, <2>1, <3>1
  <2>2. CASE a # E(j - 1) /\ a # E(j - 1) - 1
    <3> DEFINE r == E(j - 1) - 1 - a
    <3>1. j > 1
      <4> SUFFICES ASSUME j = 1 PROVE FALSE
        OBVIOUS
      <4>1. E(j - 1) = 0
        BY <1>4
      <4> QED
        BY <1>3, <1>10, <2>2, <4>1
    <3>2. a + 2 <= E(j - 1) /\ E(j - 1) <= b /\ j - 1 \in 1 .. Len(s)
      <4> DEFINE u == E(j - 1)
                 w == E(j)
      <4>1. /\ u \in Nat /\ w \in Nat /\ a \in Nat /\ b \in Nat /\ u + 3 <= w
            /\ a <= u /\ w <= b /\ a # u - 1 /\ a # u
        BY <1>3, <1>10, <2>2
      <4> HIDE DEF u, w
      <4>2. a + 2 <= u /\ u <= b
        BY <4>1
      <4>3. j - 1 \in 1 .. Len(s)
        BY <1>1, <3>1
      <4> QED
        BY <4>2, <4>3 DEF u
    <3>3. j - 1 \in S /\ r \in Nat \ {0} /\ a + r = E(j - 1) - 1 /\ r < q
      <4>1. j - 1 \in S
        BY <1>6, <3>2
      <4>2. r \in Nat \ {0} /\ a + r = E(j - 1) - 1 /\ r < q
        <5> DEFINE u == E(j - 1)
                   w == E(j)
        <5>1. u \in Nat /\ w \in Nat /\ a \in Nat /\ a + 2 <= u /\ u + 3 <= w
          BY <1>10, <3>2
        <5> HIDE DEF u, w
        <5>2. u - 1 - a \in Nat \ {0} /\ a + (u - 1 - a) = u - 1 /\ u - 1 - a < w - 1 - a
          BY <5>1
        <5> QED
          BY <5>2 DEF u, w
      <4> QED
        BY <4>1, <4>2
    <3>4. At(c, Crlf, r)
      BY <1>7, <3>3
    <3> HIDE DEF r
    <3>5. r < p
      <4> HIDE DEF q
      <4>1. r \in Nat /\ r < q /\ p \in 1 .. q /\ ~(r \in p .. q - 1)
        BY <1>5, <3>3, <3>4
      <4>2. q \in Int
        BY <1>10 DEF q
      <4> QED
        BY <4>1, <4>2
    <3>6. p - Len(Crlf) \in Ats(c, Crlf, 1)
      BY <1>5, <3>3, <3>5
    <3>7. PICK k \in 1 .. j - 1 : E(k) \in Nat /\ E(k) = a + p - 1
      BY <1>11, <3>6
    <3>8. k = j - 1
      <4> SUFFICES ASSUME k # j - 1 PROVE FALSE
        OBVIOUS
      <4>1. k \in 0 .. Len(s) /\ j - 1 \in k + 1 .. Len(s)
        BY <1>10, <3>7
      <4>2. E(k) + 3 <= E(j - 1)
        BY <1>2, <4>1
      <4> DEFINE u == E(k)
                 v == E(j - 1)
      <4>3. /\ u \in Nat /\ v \in Nat /\ a \in Nat /\ r \in Nat /\ p \in Nat
            /\ u + 3 <= v /\ a + r = v - 1 /\ r < p /\ u = a + p - 1
        BY <1>5, <1>10, <3>3, <3>5, <3>7, <4>2
      <4> HIDE DEF u, v
      <4> QED
        BY <4>3
    <3> DEFINE v == E(j - 1)
    <3>9. /\ v \in Nat /\ a \in Nat /\ p \in Nat /\ v = a + p - 1 /\ a # v - 1
      BY <1>5, <1>10, <2>2, <3>7, <3>8
    <3> HIDE DEF v
    <3>10. p = IF a = v - 1 THEN 1 ELSE v - a + 1
      BY <3>9
    <3> QED
      BY <3>10 DEF v
  <2> QED
    BY <1>3, <1>10, <2>1, <2>2
<1>13. q - 1 = E(j) - 2 - a
  BY <1>10
<1>14. p = PieceFrom(s, a, j)
  BY <1>12 DEF E, PieceFrom, Cut
<1> QED
  BY <1>5, <1>13, <1>14 DEF E, c

(***************************************************************************)
(* The characters of that piece: the LF, if it has it, and the line.       *)
(***************************************************************************)
Extra(s, a, j) == IF Cut(s, a, j) THEN 1 ELSE 0

LEMMA PieceChars ==
    ASSUME NEW Char, PlainMessages(Char), NEW s \in Seq(Messages),
           NEW b \in 0 .. Len(Text(s)), NEW a \in 0 .. b,
           NEW j \in 1 .. Len(s), Whole(s, a, b, j)
    PROVE  LET piece == SubSeq(Chunk(s, a, b), PieceFrom(s, a, j), Ends(Lines(s), j) - 2 - a)
               n == TOKEN_LENGTH + Len(Concat(Padded(s[j])))
               o == Extra(s, a, j)
           IN  /\ piece \in Seq(LineChars(Char)) /\ Len(piece) = o + n
               /\ \A x \in 1 .. n : piece[o + x] = Line(s[j])[x]
<1> DEFINE E(k) == Ends(Lines(s), k)
           C == LineChars(Char)
           L == Lines(s)
           c == Chunk(s, a, b)
           m == s[j]
           o == Extra(s, a, j)
           p == PieceFrom(s, a, j)
           e == E(j) - 2 - a
           piece == SubSeq(c, p, e)
           n == TOKEN_LENGTH + Len(Concat(Padded(m)))
<1>1. Len(s) \in Nat /\ m \in Messages /\ DOMAIN s = 1 .. Len(s)
  BY LenProperties, ElementOfSeq
<1>2. L \in Seq(Seq(C)) /\ Len(L) = Len(s) /\ Text(s) = Concat(L) /\ L[j] = Line(m)
  BY <1>1, TextLines DEF Lines
<1>4. Len(Line(m)) = n + 2 /\ n \in Nat
  <2>1. m \in Messages
    BY <1>1
  <2> HIDE DEF m
  <2>2. /\ Len(Line(m)) = (TOKEN_LENGTH + Len(Concat(Padded(m)))) + 2
        /\ TOKEN_LENGTH \in Nat \ {0} /\ Len(Concat(Padded(m))) \in Nat
    BY <2>1, LineShape
  <2> QED
    BY <2>2
<1>5. E(j - 1) \in Nat /\ E(j) = E(j - 1) + Len(L[j])
  <2>1. j - 1 \in 0 .. Len(L) /\ j \in 1 .. Len(L)
    BY <1>1, <1>2
  <2> QED
    BY <1>2, <2>1, ConcatType
<1>6. \A x \in 1 .. Len(L[j]) : Text(s)[E(j - 1) + x] = L[j][x]
  <2>1. j \in 1 .. Len(L)
    BY <1>2
  <2> QED
    BY <1>2, <2>1, ConcatChars
<1>7. a <= E(j - 1) /\ E(j) <= b
  BY DEF Whole
<1>8. /\ Len(Text(s)) \in Nat /\ c \in Seq(C) /\ Len(c) = b - a
      /\ \A y \in 1 .. b - a : c[y] = Text(s)[a + y]
  BY ChunkChars
<1>9. o \in 0 .. 1 /\ p = E(j - 1) - a + 1 - o /\ a + o <= E(j - 1)
  <2> DEFINE u == E(j - 1)
  <2>1. /\ o = IF a = u - 1 THEN 1 ELSE 0
        /\ p = IF a = u - 1 THEN 1 ELSE u - a + 1
    BY DEF Extra, PieceFrom, Cut
  <2>2. u \in Nat /\ a \in Nat /\ a <= u
    BY <1>5, <1>7, <1>8
  <2> HIDE DEF u, o, p
  <2>3. o \in 0 .. 1 /\ p = u - a + 1 - o /\ a + o <= u
    BY <2>1, <2>2
  <2> QED
    BY <2>3 DEF u
<1> HIDE DEF E, C, L, c, m, o, p, n
<1>10. /\ a \in Nat /\ b \in Nat /\ E(j) = E(j - 1) + n + 2
       /\ p \in 1 .. Len(c) + 1 /\ e \in p - 1 .. Len(c) /\ e - p + 1 = o + n
       /\ Len(L[j]) = n + 2
  <2> DEFINE u == E(j - 1)
             k == Len(c)
             w == E(j)
  <2>1. Len(L[j]) = n + 2
    BY <1>2, <1>4
  <2>2. /\ a \in Nat /\ b \in Nat /\ u \in Nat /\ n \in Nat /\ o \in 0 .. 1
        /\ w = u + (n + 2) /\ k = b - a /\ a + o <= u /\ w <= b /\ p = u - a + 1 - o
    BY <1>4, <1>5, <1>7, <1>8, <1>9, <2>1
  <2>3. e = w - 2 - a
    OBVIOUS
  <2> HIDE DEF u, k, w, e
  <2>4. /\ w = u + n + 2 /\ p \in 1 .. k + 1 /\ e \in p - 1 .. k /\ e - p + 1 = o + n
    BY <2>2, <2>3
  <2> QED
    BY <2>1, <2>2, <2>4 DEF u, k, w
<1> HIDE DEF e
<1>11. /\ piece \in Seq(C) /\ Len(piece) = o + n
       /\ \A x \in 1 .. o + n : piece[x] = c[p + x - 1]
  <2>1. /\ SubSeq(c, p, e) \in Seq(C) /\ Len(SubSeq(c, p, e)) = e - p + 1
        /\ \A x \in 1 .. e - p + 1 : SubSeq(c, p, e)[x] = c[p + x - 1]
    BY <1>8, <1>10, SubChars
  <2> QED
    BY <1>10, <2>1
<1>12. ASSUME NEW x \in 1 .. n PROVE piece[o + x] = Line(m)[x]
  <2>1. o + x \in 1 .. o + n /\ x \in 1 .. n + 2
    BY <1>4, <1>9
  <2>2. piece[o + x] = c[p + (o + x) - 1]
    BY <1>11, <2>1
  <2>3. p + (o + x) - 1 \in 1 .. b - a /\ a + (p + (o + x) - 1) = E(j - 1) + x
    <3> DEFINE u == E(j - 1)
               w == E(j)
    <3>1. /\ a \in Nat /\ b \in Nat /\ u \in Nat /\ n \in Nat /\ x \in 1 .. n /\ o \in 0 .. 1
          /\ w = u + n + 2 /\ a + o <= u /\ w <= b /\ p = u - a + 1 - o
      BY <1>4, <1>5, <1>7, <1>9, <1>10
    <3> HIDE DEF u, w
    <3>2. p + (o + x) - 1 \in 1 .. b - a /\ a + (p + (o + x) - 1) = u + x
      BY <3>1
    <3> QED
      BY <3>2 DEF u
  <2>4. c[p + (o + x) - 1] = Text(s)[E(j - 1) + x]
    BY <1>8, <2>3
  <2>5. Text(s)[E(j - 1) + x] = L[j][x]
    BY <1>6, <1>10, <2>1
  <2> QED
    BY <1>2, <2>2, <2>4, <2>5
<1> HIDE DEF piece
<1>13. /\ piece \in Seq(C) /\ Len(piece) = o + n
       /\ \A x \in 1 .. n : piece[o + x] = Line(m)[x]
  BY <1>11, <1>12
<1> QED
  BY <1>13 DEF piece, p, e, E, c, m, o, n, C

(***************************************************************************)
(* Without its token that piece is what the client wrote, and its fields   *)
(* are the ones the client meant, but for the case of the cut CRLF.        *)
(***************************************************************************)
LEMMA WholeFields ==
    ASSUME NEW Char, PlainMessages(Char), NEW s \in Seq(Messages),
           NEW b \in 0 .. Len(Text(s)), NEW a \in 0 .. b,
           NEW j \in 1 .. Len(s), Whole(s, a, b, j)
    PROVE  Fields(SubSeq(Chunk(s, a, b), PieceFrom(s, a, j), Ends(Lines(s), j) - 2 - a))
               = IF Cut(s, a, j) THEN Shifted(Meant(s[j])) ELSE Meant(s[j])
<1> DEFINE m == s[j]
           C == LineChars(Char)
           body == Concat(Padded(m))
           T == TOKEN_LENGTH
           o == Extra(s, a, j)
           piece == SubSeq(Chunk(s, a, b), PieceFrom(s, a, j), Ends(Lines(s), j) - 2 - a)
           d == Drop(piece, T)
           x0 == Token[T]
<1>1. m \in Messages /\ PlainMessage(Char, m)
  BY ElementOfSeq DEF PlainMessages
<1>2. body \in Seq(Char) /\ body \in Seq(C)
  <2>1. body \in Seq(Char)
    BY <1>1, PaddedType
  <2>2. Char \subseteq C
    BY DEF LineChars
  <2> HIDE DEF body, C
  <2> QED
    BY <2>1, <2>2
<1>3. /\ T \in Nat \ {0} /\ Len(body) \in Nat
      /\ \A x \in 1 .. T : Line(m)[x] = x0 \/ x # T
      /\ \A x \in 1 .. Len(body) : Line(m)[T + x] = body[x]
  <2>1. m \in Messages
    BY <1>1
  <2> HIDE DEF m
  <2>2. /\ T \in Nat \ {0} /\ Len(Concat(Padded(m))) \in Nat
        /\ \A x \in 1 .. T : Line(m)[x] = Token[x]
        /\ \A x \in 1 .. Len(Concat(Padded(m))) : Line(m)[T + x] = Concat(Padded(m))[x]
    BY <2>1, LineShape
  <2> QED
    BY <2>2
<1>4. /\ piece \in Seq(C) /\ Len(piece) = o + (T + Len(body))
      /\ \A x \in 1 .. T + Len(body) : piece[o + x] = Line(m)[x]
  BY PieceChars
<1>5. o = IF Cut(s, a, j) THEN 1 ELSE 0
  BY DEF Extra
<1>6. x0 \in C /\ <<x0>> \in Seq(C)
  <2>1. Token \in Seq(Char) /\ Token # <<>>
    BY LineAssumption DEF PlainMessages
  <2>2. T \in 1 .. Len(Token)
    BY <2>1, LenProperties, EmptySeq DEF TOKEN_LENGTH
  <2>3. x0 \in Char
    BY <2>1, <2>2, ElementOfSeq
  <2>4. x0 \in C
    BY <2>3 DEF LineChars
  <2> QED
    BY <2>4
<1>7. SplitData(body, Sep) = Meant(m) /\ SplitData(<<x0>> \o body, Sep) = Shifted(Meant(m))
  BY <1>1, FieldsRead, ShiftedFields
<1>8. Fields(piece) = SplitData(d, Sep)
  BY DEF Fields
<1> HIDE DEF m, body, T, o, piece, C, x0
<1>9. /\ d \in Seq(C) /\ Len(d) = o + Len(body)
      /\ \A x \in 1 .. o + Len(body) : d[x] = piece[T + x]
  <2> DEFINE f == T + 1
             k == Len(piece)
  <2>1. f \in 1 .. k + 1 /\ k \in f - 1 .. k /\ k - f + 1 = o + Len(body)
    <3> DEFINE n == Len(body)
    <3>1. T \in Nat /\ n \in Nat /\ o \in 0 .. 1 /\ k = o + (T + n)
      BY <1>3, <1>4, <1>5
    <3> HIDE DEF n, k
    <3>2. f \in 1 .. k + 1 /\ k \in f - 1 .. k /\ k - f + 1 = o + n
      BY <3>1
    <3> QED
      BY <3>2 DEF n
  <2>2. d = SubSeq(piece, f, k)
    BY DEF Drop
  <2>3. \A x \in 1 .. o + Len(body) : f + x - 1 = T + x
    BY <1>3, <1>5
  <2> HIDE DEF f, d
  <2>4. /\ SubSeq(piece, f, k) \in Seq(C) /\ Len(SubSeq(piece, f, k)) = k - f + 1
        /\ \A x \in 1 .. k - f + 1 : SubSeq(piece, f, k)[x] = piece[f + x - 1]
    BY <1>4, <2>1, SubChars
  <2> QED
    BY <2>1, <2>2, <2>3, <2>4
<1> HIDE DEF d
<1>10. CASE o = 0
  <2>1. Len(d) = Len(body)
    BY <1>3, <1>9, <1>10
  <2>2. \A x \in 1 .. Len(body) : d[x] = body[x]
    <3> TAKE x \in 1 .. Len(body)
    <3>1. T + x \in 1 .. T + Len(body) /\ o + (T + x) = T + x /\ x \in 1 .. o + Len(body)
      BY <1>3, <1>10
    <3>2. d[x] = piece[o + (T + x)]
      BY <1>9, <3>1
    <3> QED
      BY <1>3, <1>4, <3>1, <3>2
  <2>3. d = body
    BY <1>2, <1>9, <2>1, <2>2, SeqEqual
  <2> QED
    BY <1>5, <1>7, <1>8, <1>10, <2>3 DEF m, piece
<1>11. CASE o = 1
  <2> DEFINE g == Glue(<<x0>>, body)
  <2>1. g \in Seq(C) /\ Len(g) = 1 + Len(body)
    <3>1. <<x0>> \in Seq(C) /\ body \in Seq(C)
      BY <1>2, <1>6
    <3>2. /\ <<x0>> \o body \in Seq(C) /\ Len(<<x0>> \o body) = Len(<<x0>>) + Len(body)
      BY <3>1, GlueType
    <3> QED
      BY <3>2 DEF Glue
  <2>2. g[1] = x0 /\ \A x \in 1 .. Len(body) : g[1 + x] = body[x]
    <3>1. <<x0>> \in Seq(C) /\ body \in Seq(C)
      BY <1>2, <1>6
    <3>2. /\ \A y \in 1 .. Len(<<x0>>) : (<<x0>> \o body)[y] = <<x0>>[y]
          /\ \A y \in 1 .. Len(body) : (<<x0>> \o body)[Len(<<x0>>) + y] = body[y]
      BY <3>1, GlueChars
    <3>3. Len(<<x0>>) = 1 /\ 1 \in 1 .. 1 /\ <<x0>>[1] = x0
      OBVIOUS
    <3> QED
      BY <3>2, <3>3 DEF Glue
  <2> HIDE DEF g
  <2>3. \A x \in 1 .. Len(g) : d[x] = g[x]
    <3> TAKE x \in 1 .. Len(g)
    <3>1. CASE x = 1
      <4>1. T \in 1 .. T + Len(body) /\ o + T = T + 1 /\ 1 \in 1 .. o + Len(body) /\ T \in 1 .. T
        BY <1>3, <1>11
      <4>2. d[1] = piece[o + T]
        BY <1>9, <4>1
      <4>3. piece[o + T] = Line(m)[T]
        BY <1>4, <4>1
      <4>4. Line(m)[T] = x0
        BY <1>3, <4>1
      <4> QED
        BY <2>2, <3>1, <4>2, <4>3, <4>4
    <3>2. CASE x # 1
      <4> DEFINE y == x - 1
      <4>1. y \in 1 .. Len(body) /\ x = 1 + y /\ T + y \in 1 .. T + Len(body)
            /\ o + (T + y) = T + x /\ x \in 1 .. o + Len(body)
        BY <1>3, <1>11, <2>1, <3>2
      <4> HIDE DEF y
      <4>2. d[x] = piece[o + (T + y)]
        BY <1>9, <4>1
      <4>3. piece[o + (T + y)] = Line(m)[T + y]
        BY <1>4, <4>1
      <4>4. Line(m)[T + y] = body[y]
        BY <1>3, <4>1
      <4> QED
        BY <2>2, <4>1, <4>2, <4>3, <4>4
    <3> QED
      BY <3>1, <3>2
  <2>4. d = g
    BY <1>9, <1>11, <2>1, <2>3, SeqEqual
  <2> QED
    BY <1>5, <1>7, <1>8, <1>11, <2>4 DEF m, piece, g, Glue
<1>12. o = 0 \/ o = 1
  BY <1>5
<1> QED
  BY <1>10, <1>11, <1>12

-----------------------------------------------------------------------------
(* What holds in every state. *)

LEMMA LineInvariant ==
    ASSUME NEW Char, PlainMessages(Char)
    PROVE  Spec => []LineInv
<1>1. Init => LineInv
  BY LineInit
<1>2. LineInv /\ [Next]_vars => LineInv'
  <2> SUFFICES ASSUME LineInv, [Next]_vars PROVE LineInv'
    OBVIOUS
  <2>1. CASE UNCHANGED vars
    BY <2>1 DEF vars, LineInv, Done
  <2>2. CASE Next
    BY <2>2, LineStep DEF Next
  <2> QED
    BY <2>1, <2>2
<1> QED
  BY <1>1, <1>2, PTL DEF Spec

(***************************************************************************)
(* Type correctness of a connection's reads: start_routine never takes     *)
(* more than has arrived, nor more than BUFSIZE at once, however the       *)
(* segments of plain messages arrive.                                      *)
(***************************************************************************)
THEOREM LineTypes ==
    ASSUME NEW Char, PlainMessages(Char)
    PROVE  Spec => []TypeOK
<1>1. LineInv => TypeOK
  <2> SUFFICES ASSUME LineInv PROVE TypeOK
    OBVIOUS
  <2>1. sent \in Seq(Messages) /\ text = Text(sent)
    BY DEF LineInv
  <2>2. Len(text) \in Nat
    BY <2>1, TextLines, LenProperties
  <2>3. got - from \in 0 .. BufSize
    BY <2>2, LineAssumption DEF LineInv
  <2> QED
    BY <2>3 DEF LineInv, TypeOK
<1> QED
  BY <1>1, LineInvariant, PTL

(***************************************************************************)
(* For any number of plain messages, any segments and any BUFSIZE,         *)
(* start_routine answers each CRLF that is whole in a read once, if the    *)
(* read has a separator, and nothing else: never more answers than lines.  *)
(***************************************************************************)
THEOREM NoExtraAnswers ==
    ASSUME NEW Char, PlainMessages(Char)
    PROVE  Spec => []OneAnswerPerLine
<1>1. LineInv => OneAnswerPerLine
  <2> SUFFICES ASSUME LineInv PROVE OneAnswerPerLine
    OBVIOUS
  <2>1. sent \in Seq(Messages) /\ answers <= Cardinality(Done)
    BY DEF LineInv
  <2>2. DOMAIN sent = 1 .. Len(sent) /\ Len(sent) \in Nat
    BY <2>1, LenProperties
  <2>3. \A j \in 1 .. Len(sent) : EndOf(j) = Ends(Lines(sent), j)
    BY <2>1, <2>2, TextLines DEF EndOf
  <2>4. /\ {j \in DOMAIN sent : EndOf(j) <= got} = Done
        /\ {j \in DOMAIN sent : from + 2 <= EndOf(j) /\ EndOf(j) <= got} = EndsIn(sent, from, got)
    BY <2>2, <2>3 DEF Done, EndsIn
  <2>5. ASSUME open
        PROVE  Len(handled) = IF FindSPACE(SubSeq(text, from + 1, got))
                              THEN Cardinality(EndsIn(sent, from, got)) ELSE 0
    <3> DEFINE c == Chunk(sent, from, got)
               lines == SplitData(c, Crlf)
               S == EndsIn(sent, from, got)
    <3>1. handled = Handle(c) /\ c = SubSeq(text, from + 1, got)
      BY <2>1, <2>5 DEF LineInv, Chunk
    <3>2. got \in 0 .. Len(Text(sent)) /\ from \in 0 .. got /\ Len(Text(sent)) \in Nat
      BY <2>1, TextLines, LenProperties DEF LineInv
    <3>3. /\ OnePieceEach(c, Crlf, LineChars(Char), 1, lines)
          /\ FindCRLF(c) /\ FindSPACE(c) => Len(Handle(c)) = Len(lines)
      BY <2>1, <3>2, HandleLines
    <3>4. Cardinality(Ats(c, Crlf, 1)) = Cardinality(S)
      BY <2>1, <3>2, CrlfCount
    <3>5. Len(lines) = Cardinality(Ats(c, Crlf, 1))
      BY <3>3 DEF OnePieceEach
    <3> HIDE DEF c, lines, S
    <3>6. ASSUME ~FindCRLF(c) PROVE Cardinality(S) = 0
      <4>1. Ats(c, Crlf, 1) = {}
        BY <3>6 DEF FindCRLF, Found, Ats
      <4> QED
        BY <3>4, <4>1, FS_EmptySet
    <3>7. ~(FindCRLF(c) /\ FindSPACE(c)) => Handle(c) = <<>>
      BY DEF Handle
    <3>8. Len(<<>>) = 0
      OBVIOUS
    <3>9. Len(handled) = IF FindSPACE(c) THEN Cardinality(S) ELSE 0
      BY <3>1, <3>3, <3>4, <3>5, <3>6, <3>7, <3>8
    <3> QED
      BY <3>1, <3>9 DEF S
  <2> QED
    BY <2>1, <2>4, <2>5 DEF OneAnswerPerLine
<1> QED
  BY <1>1, LineInvariant, PTL

(***************************************************************************)
(* For any plain messages, any segments and any BUFSIZE: a line that       *)
(* start_routine gets in one read is handled in its place among the other  *)
(* lines of the read, as the client meant it unless the CRLF before it was *)
(* cut in two, which leaves a character of the token in its first field;   *)
(* and a read without any separator is not handled at all.                 *)
(***************************************************************************)
THEOREM WholeLines ==
    ASSUME NEW Char, PlainMessages(Char)
    PROVE  Spec => []WholeLinesHandled
<1>1. ASSUME LineInv, open, FindSPACE(SubSeq(text, from + 1, got)), NEW j \in Inside
      PROVE  /\ Len(handled) > Cardinality({k \in Inside : k > j})
             /\ handled[Len(handled) - Cardinality({k \in Inside : k > j})] = Outcome(Read(j))
  <2> DEFINE E(k) == Ends(Lines(sent), k)
             c == Chunk(sent, from, got)
             lines == SplitData(c, Crlf)
             S == EndsIn(sent, from, got)
             q == E(j) - 1 - from
             U == {k \in Inside : k > j}
             V == {k \in S : k > j}
  <2>1. /\ sent \in Seq(Messages) /\ text = Text(sent) /\ Len(text) \in Nat
        /\ Len(sent) \in Nat /\ DOMAIN sent = 1 .. Len(sent)
    <3>1. sent \in Seq(Messages) /\ text = Text(sent)
      BY <1>1 DEF LineInv
    <3> QED
      BY <3>1, TextLines, LenProperties
  <2>2. got \in 0 .. Len(Text(sent)) /\ from \in 0 .. got /\ got \in Nat /\ from \in Nat
    BY <1>1, <2>1 DEF LineInv
  <2>3. \A k \in 0 .. Len(sent) : EndOf(k) = E(k)
    BY <2>1, TextLines DEF EndOf
  <2>4. Inside = {k \in 1 .. Len(sent) : Whole(sent, from, got, k)}
    <3>1. ASSUME NEW k \in 1 .. Len(sent)
          PROVE  EndOf(k) = E(k) /\ EndOf(k - 1) = E(k - 1)
      <4>1. k \in 0 .. Len(sent) /\ k - 1 \in 0 .. Len(sent)
        BY <2>1
      <4> QED
        BY <2>3, <4>1
    <3> QED
      BY <2>1, <3>1 DEF Inside, Whole
  <2>5. \A k \in 0 .. Len(sent) : \A l \in k + 1 .. Len(sent) :
            E(k) \in Nat /\ E(l) \in Nat /\ E(k) + 3 <= E(l)
    BY <2>1, EndsApart
  <2>6. S = {k \in 1 .. Len(sent) : from + 2 <= E(k) /\ E(k) <= got}
    BY DEF EndsIn
  <2>7. \A k \in 1 .. Len(sent) :
            Whole(sent, from, got, k) <=> from <= E(k - 1) /\ E(k) <= got
    BY DEF Whole
  <2>8. j \in 1 .. Len(sent) /\ Whole(sent, from, got, j)
    BY <2>4
  <2>r. Read(j) = IF Cut(sent, from, j) THEN Shifted(Meant(sent[j])) ELSE Meant(sent[j])
    <3>1. j - 1 \in 0 .. Len(sent)
      BY <2>1, <2>8
    <3>2. EndOf(j - 1) = E(j - 1)
      BY <2>3, <3>1
    <3> QED
      BY <3>2 DEF Read, CrlfCut, Cut
  <2> HIDE DEF E, S
  <2>9. \A k \in 1 .. Len(sent) : E(k) \in Nat /\ E(k - 1) \in Nat /\ E(k - 1) + 3 <= E(k)
    <3> TAKE k \in 1 .. Len(sent)
    <3>1. k - 1 \in 0 .. Len(sent) /\ k \in (k - 1) + 1 .. Len(sent)
      BY <2>1
    <3> QED
      BY <2>5, <3>1
  <2>10. j \in S
    BY <2>2, <2>6, <2>7, <2>8, <2>9
  <2>11. U = V
    <3>1. ASSUME NEW k \in Inside PROVE k \in S
      BY <2>2, <2>4, <2>6, <2>7, <2>9
    <3>2. ASSUME NEW k \in S, k > j PROVE k \in Inside
      <4>1. k \in 1 .. Len(sent) /\ E(k) <= got
        BY <2>6
      <4>2. E(j) <= E(k - 1)
        <5>1. CASE k - 1 = j
          BY <2>8, <2>9, <5>1
        <5>2. CASE k - 1 # j
          <6>1. j \in 0 .. Len(sent) /\ k - 1 \in j + 1 .. Len(sent)
            BY <2>1, <2>8, <3>2, <4>1, <5>2
          <6>2. E(j) + 3 <= E(k - 1) /\ E(j) \in Nat /\ E(k - 1) \in Nat
            BY <2>5, <6>1
          <6> QED
            BY <6>2
        <5> QED
          BY <5>1, <5>2
      <4>3. from + 2 <= E(j)
        BY <2>6, <2>10
      <4>4. E(j) \in Nat /\ E(k - 1) \in Nat
        BY <2>8, <2>9, <4>1
      <4>5. from <= E(k - 1)
        BY <2>2, <4>2, <4>3, <4>4
      <4> QED
        BY <2>4, <2>7, <4>1, <4>5
    <3> QED
      BY <3>1, <3>2
  <2>12. /\ q \in Ats(c, Crlf, 1)
         /\ Cardinality(Behind(c, Crlf, 1, q)) = Cardinality(V)
    BY <2>1, <2>2, <2>10, CrlfCount DEF S, E
  <2>13. /\ OnePieceEach(c, Crlf, LineChars(Char), 1, lines)
         /\ FindCRLF(c) /\ FindSPACE(c) =>
                /\ Len(Handle(c)) = Len(lines)
                /\ \A i \in 1 .. Len(lines) : Handle(c)[i] = Outcome(Fields(lines[i]))
    BY <2>1, <2>2, HandleLines
  <2>14. c = SubSeq(text, from + 1, got) /\ handled = Handle(c)
    BY <1>1, <2>1 DEF Chunk, LineInv
  <2>15. Len(c) \in Nat
    BY <2>1, <2>2, ChunkChars, LenProperties
  <2>16. PieceBefore(c, Crlf, 1, lines, q) /\ Len(lines) = Cardinality(Ats(c, Crlf, 1))
    BY <2>12, <2>13 DEF OnePieceEach
  <2>17. lines[Len(lines) - Cardinality(Behind(c, Crlf, 1, q))]
             = SubSeq(c, PieceFrom(sent, from, j), E(j) - 2 - from)
    BY <2>1, <2>2, <2>8, <2>16, WholePiece DEF E
  <2>18. Fields(SubSeq(c, PieceFrom(sent, from, j), E(j) - 2 - from)) = Read(j)
    BY <2>1, <2>2, <2>8, <2>r, WholeFields DEF E
  <2> HIDE DEF c, lines, q, U, V
  <2>19. FindCRLF(c)
    <3>1. q \in 1 .. Len(c) /\ At(c, Crlf, q)
      BY <2>12 DEF Ats
    <3> QED
      BY <3>1 DEF FindCRLF, Found
  <2>20. FindSPACE(c)
    BY <1>1, <2>14
  <2>21. Len(handled) = Len(lines) /\ \A i \in 1 .. Len(lines) : handled[i] = Outcome(Fields(lines[i]))
    BY <2>13, <2>14, <2>19, <2>20
  <2>22. Cardinality(V) \in Nat /\ Len(lines) \in Nat /\ Cardinality(V) < Len(lines)
    <3>1. 1 \in Nat
      OBVIOUS
    <3> QED
      BY <2>12, <2>15, <2>16, <3>1, AtsFinite
  <2>23. Len(lines) - Cardinality(V) \in 1 .. Len(lines)
    BY <2>22
  <2>24. handled[Len(lines) - Cardinality(V)] = Outcome(Read(j))
    BY <2>12, <2>17, <2>18, <2>21, <2>23
  <2>25. Len(handled) > Cardinality(U) /\ handled[Len(handled) - Cardinality(U)] = Outcome(Read(j))
    BY <2>11, <2>21, <2>22, <2>24
  <2> QED
    BY <2>25 DEF U
<1>2. ASSUME LineInv, open, ~FindSPACE(SubSeq(text, from + 1, got)) PROVE handled = <<>>
  <2>1. text = Text(sent) /\ handled = Handle(Chunk(sent, from, got))
    BY <1>2 DEF LineInv
  <2>2. ~FindSPACE(Chunk(sent, from, got))
    BY <1>2, <2>1 DEF Chunk
  <2> QED
    BY <2>1, <2>2 DEF Handle
<1>3. LineInv => WholeLinesHandled
  BY <1>1, <1>2 DEF WholeLinesHandled
<1> QED
  BY <1>3, LineInvariant, PTL

=============================================================================
