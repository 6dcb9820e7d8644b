---------------------------- MODULE Reload_proofs ----------------------------
(***************************************************************************)
(* Two results about configuration and reload, for every set of files.     *)
(* The parser of ConfigFile finds in each file what the comments on it     *)
(* promise, and the settings are the numbers found.  And the worker pool:  *)
(* a load that takes worker.thread.num down, or up before the vector is    *)
(* set up, whenever it comes, leaves the round robin among the workers     *)
(* that were started.                                                      *)
(***************************************************************************)
EXTENDS Reload, SequenceTheorems, Induction

USE DEF confVars, poolVars

-----------------------------------------------------------------------------
(* The parser, by induction on the lines it reads. *)

(***************************************************************************)
(* What a value that begins in line l is, in the first i lines: its first  *)
(* token is the first one between l and the end of the block.              *)
(***************************************************************************)
Continues(lines, l, j) == \A m \in l + 1 .. j : lines[m].key = NONE /\ ~lines[m].blank

Says(lines, i, l, v) ==
    /\ v \in Seq(Tokens)
    /\ v = <<>> => \A j \in l .. i : Continues(lines, l, j) => lines[j].text = <<>>
    /\ v # <<>> => \E j \in l .. i :
                      /\ Continues(lines, l, j)
                      /\ lines[j].text # <<>> /\ Head(lines[j].text) = Head(v)
                      /\ \A m \in l .. j - 1 : lines[m].text = <<>>

LastWith(lines, i, k, l) == lines[l].key = k /\ \A j \in l + 1 .. i : lines[j].key # k

Without(lines, i, k) == \A j \in 1 .. i : lines[j].key # k

Entry(lines, i, k, v) ==
    \/ v = NONE /\ Without(lines, i, k)
    \/ \E l \in 1 .. i : LastWith(lines, i, k, l) /\ Says(lines, i, l, v)

(***************************************************************************)
(* The state of operator>> after i lines: the value under construction is  *)
(* the one of a block that is still open, and every other key has a block  *)
(* that is closed.                                                         *)
(***************************************************************************)
ParseType(s) ==
    s \in [contents : [Keys -> {NONE} \cup Seq(Tokens)], key : {NONE} \cup Keys,
           value : Seq(Tokens)]

OpenBlock(lines, i, s) ==
    s.key # NONE =>
        \E l \in 1 .. i : /\ LastWith(lines, i, s.key, l) /\ Continues(lines, l, i)
                          /\ Says(lines, i, l, s.value)

Closed(lines, i, k, v) ==
    \/ v = NONE /\ Without(lines, i, k)
    \/ \E l \in 1 .. i : /\ LastWith(lines, i, k, l) /\ ~Continues(lines, l, i)
                         /\ Says(lines, i, l, v)

ClosedBlocks(lines, i, s) ==
    \A k \in Keys : k # s.key => Closed(lines, i, k, s.contents[k])

ParseInv(lines, i, s) ==
    ParseType(s) /\ OpenBlock(lines, i, s) /\ ClosedBlocks(lines, i, s)

LEMMA StoreFacts ==
    ASSUME NEW s, ParseType(s)
    PROVE  /\ ParseType(Store(s))
           /\ Store(s).key = s.key /\ Store(s).value = s.value
           /\ \A k \in Keys : Store(s).contents[k] = IF k = s.key THEN s.value ELSE s.contents[k]
  BY ConfigAssumption DEF ParseType, Store

\* A line that ends every block closes what a key says.
LEMMA EntryClosed ==
    ASSUME NEW lines, NEW i \in Nat, NEW k \in Keys, NEW v, Entry(lines, i, k, v),
           lines[i + 1].key # k, lines[i + 1].key # NONE \/ lines[i + 1].blank
    PROVE  Closed(lines, i + 1, k, v)
<1>1. CASE v = NONE /\ Without(lines, i, k)
  <2>1. Without(lines, i + 1, k)
    BY <1>1 DEF Without
  <2> QED
    BY <1>1, <2>1 DEF Closed
<1>2. ASSUME NEW l \in 1 .. i, LastWith(lines, i, k, l), Says(lines, i, l, v)
      PROVE  Closed(lines, i + 1, k, v)
  <2>1. LastWith(lines, i + 1, k, l)
    BY <1>2 DEF LastWith
  <2>2. ~Continues(lines, l, i + 1)
    <3>1. i + 1 \in l + 1 .. i + 1
      OBVIOUS
    <3> QED
      BY <3>1 DEF Continues
  <2>3. Says(lines, i + 1, l, v)
    <3>1. \A j \in l .. i + 1 : Continues(lines, l, j) => j \in l .. i
      BY <2>2
    <3>2. \A j \in l .. i : j \in l .. i + 1
      OBVIOUS
    <3> QED
      BY <1>2, <3>1, <3>2 DEF Says
  <2>4. l \in 1 .. i + 1
    OBVIOUS
  <2> QED
    BY <2>1, <2>2, <2>3, <2>4 DEF Closed
<1> QED
  BY <1>1, <1>2 DEF Entry

LEMMA ClosedStays ==
    ASSUME NEW lines, NEW i \in Nat, NEW k \in Keys, NEW v, Closed(lines, i, k, v),
           lines[i + 1].key # k
    PROVE  Closed(lines, i + 1, k, v)
<1>1. CASE v = NONE /\ Without(lines, i, k)
  <2>1. Without(lines, i + 1, k)
    BY <1>1 DEF Without
  <2> QED
    BY <1>1, <2>1 DEF Closed
<1>2. ASSUME NEW l \in 1 .. i, LastWith(lines, i, k, l), ~Continues(lines, l, i),
             Says(lines, i, l, v)
      PROVE  Closed(lines, i + 1, k, v)
  <2>1. LastWith(lines, i + 1, k, l)
    BY <1>2 DEF LastWith
  <2>2. ~Continues(lines, l, i + 1)
    BY <1>2 DEF Continues
  <2>3. Says(lines, i + 1, l, v)
    <3>1. \A j \in l .. i + 1 : Continues(lines, l, j) => j \in l .. i
      BY <2>2
    <3>2. \A j \in l .. i : j \in l .. i + 1
      OBVIOUS
    <3> QED
      BY <1>2, <3>1, <3>2 DEF Says
  <2>4. l \in 1 .. i + 1
    OBVIOUS
  <2> QED
    BY <2>1, <2>2, <2>3, <2>4 DEF Closed
<1> QED
  BY <1>1, <1>2 DEF Closed

LEMMA StoredEntry ==
    ASSUME NEW lines, NEW i \in Nat, NEW s, ParseInv(lines, i, s), NEW k \in Keys
    PROVE  Entry(lines, i, k, Store(s).contents[k])
<1>1. CASE k = s.key
  <2>1. Store(s).contents[k] = s.value /\ s.key # NONE
    BY <1>1, StoreFacts, ConfigAssumption DEF ParseInv
  <2> QED
    BY <1>1, <2>1 DEF ParseInv, OpenBlock, Entry
<1>2. CASE k # s.key
  <2>1. Store(s).contents[k] = s.contents[k]
    BY <1>2, StoreFacts DEF ParseInv
  <2> QED
    BY <1>2, <2>1 DEF ParseInv, ClosedBlocks, Closed, Entry
<1> QED
  BY <1>1, <1>2

LEMMA SaysMore ==
    ASSUME NEW lines, NEW i \in Nat, NEW l \in 1 .. i, NEW v, Says(lines, i, l, v),
           Continues(lines, l, i + 1), lines[i + 1].text \in Seq(Tokens)
    PROVE  Says(lines, i + 1, l, v \o lines[i + 1].text)
<1> DEFINE t == lines[i + 1].text
           w == v \o t
<1>1. v \in Seq(Tokens) /\ w \in Seq(Tokens)
  BY DEF Says
<1>2. i + 1 \in l .. i + 1 /\ \A j \in l .. i + 1 : j # i + 1 => j \in l .. i
  OBVIOUS
<1>3. CASE v # <<>>
  <2>1. w # <<>> /\ Head(w) = Head(v)
    BY <1>1, <1>3
  <2>2. PICK j \in l .. i : /\ Continues(lines, l, j)
                            /\ lines[j].text # <<>> /\ Head(lines[j].text) = Head(v)
                            /\ \A m \in l .. j - 1 : lines[m].text = <<>>
    BY <1>3 DEF Says
  <2>3. j \in l .. i + 1
    OBVIOUS
  <2> QED
    BY <1>1, <2>1, <2>2, <2>3 DEF Says
<1>4. CASE v = <<>>
  <2>1. w = t
    BY <1>1, <1>4
  <2>2. \A j \in l .. i : lines[j].text = <<>>
    <3> SUFFICES ASSUME NEW j \in l .. i PROVE lines[j].text = <<>>
      OBVIOUS
    <3>1. Continues(lines, l, j)
      BY DEF Continues
    <3> QED
      BY <1>4, <3>1 DEF Says
  <2>3. (i + 1) - 1 = i
    OBVIOUS
  <2>4. CASE t = <<>>
    BY <1>1, <1>2, <2>1, <2>2, <2>4 DEF Says
  <2>5. CASE t # <<>>
    BY <1>1, <1>2, <2>1, <2>2, <2>3, <2>5 DEF Says
  <2> QED
    BY <2>4, <2>5
<1> QED
  BY <1>3, <1>4

LEMMA ParseStep ==
    ASSUME NEW lines, NEW i \in Nat, NEW s, ParseInv(lines, i, s),
           lines[i + 1] \in FileLine
    PROVE  ParseInv(lines, i + 1, Step(s, lines[i + 1]))
<1> DEFINE line == lines[i + 1]
           t == Step(s, line)
<1>0. /\ line.key \in {NONE} \cup Keys /\ line.text \in Seq(Tokens)
      /\ ParseType(s) /\ ParseType(Store(s))
      /\ i + 1 \in 1 .. i + 1
  BY StoreFacts DEF FileLine, ParseInv
<1>1. CASE line.key # NONE
  <2>1. /\ t.contents = Store(s).contents /\ t.key = line.key /\ t.value = line.text
        /\ ParseType(t)
    BY <1>0, <1>1 DEF Step, ParseType
  <2>2. OpenBlock(lines, i + 1, t)
    <3>1. LastWith(lines, i + 1, t.key, i + 1) /\ Continues(lines, i + 1, i + 1)
      BY <2>1 DEF LastWith, Continues
    <3>2. Says(lines, i + 1, i + 1, t.value)
      BY <1>0, <2>1, <3>1 DEF Says
    <3> QED
      BY <1>0, <3>1, <3>2 DEF OpenBlock
  <2>3. ClosedBlocks(lines, i + 1, t)
    <3> SUFFICES ASSUME NEW k \in Keys, k # line.key
                 PROVE  Closed(lines, i + 1, k, Store(s).contents[k])
      BY <2>1 DEF ClosedBlocks
    <3>1. Entry(lines, i, k, Store(s).contents[k])
      BY StoredEntry
    <3> QED
      BY <1>1, <3>1, EntryClosed
  <2> QED
    BY <2>1, <2>2, <2>3 DEF ParseInv
<1>2. CASE line.key = NONE /\ line.blank
  <2>1. /\ t.contents = Store(s).contents /\ t.key = NONE
        /\ ParseType(t)
    BY <1>0, <1>2 DEF Step, ParseType
  <2>2. OpenBlock(lines, i + 1, t)
    BY <2>1 DEF OpenBlock
  <2>3. ClosedBlocks(lines, i + 1, t)
    <3> SUFFICES ASSUME NEW k \in Keys
                 PROVE  Closed(lines, i + 1, k, Store(s).contents[k])
      BY <2>1 DEF ClosedBlocks
    <3>1. Entry(lines, i, k, Store(s).contents[k]) /\ line.key # k
      BY <1>2, StoredEntry, ConfigAssumption
    <3> QED
      BY <1>2, <3>1, EntryClosed
  <2> QED
    BY <2>1, <2>2, <2>3 DEF ParseInv
<1>3. CASE line.key = NONE /\ ~line.blank
  <2>1. /\ t.contents = s.contents /\ t.key = s.key /\ t.value = s.value \o line.text
        /\ ParseType(t)
    <3>1. t = [s EXCEPT !.value = s.value \o line.text]
      BY <1>3 DEF Step
    <3>2. s.value \o line.text \in Seq(Tokens)
      BY <1>0 DEF ParseType
    <3> HIDE DEF t
    <3> QED
      BY <1>0, <3>1, <3>2 DEF ParseType
  <2>2. OpenBlock(lines, i + 1, t)
    <3> SUFFICES ASSUME s.key # NONE
                 PROVE  \E l \in 1 .. i + 1 :
                           /\ LastWith(lines, i + 1, s.key, l) /\ Continues(lines, l, i + 1)
                           /\ Says(lines, i + 1, l, s.value \o line.text)
      BY <2>1 DEF OpenBlock
    <3>1. PICK l \in 1 .. i : /\ LastWith(lines, i, s.key, l) /\ Continues(lines, l, i)
                              /\ Says(lines, i, l, s.value)
      BY DEF ParseInv, OpenBlock
    <3>2. LastWith(lines, i + 1, s.key, l) /\ Continues(lines, l, i + 1)
      BY <1>3, <3>1 DEF LastWith, Continues
    <3>3. Says(lines, i + 1, l, s.value \o line.text)
      BY <1>0, <3>1, <3>2, SaysMore
    <3>4. l \in 1 .. i + 1
      OBVIOUS
    <3> QED
      BY <3>2, <3>3, <3>4
  <2>3. ClosedBlocks(lines, i + 1, t)
    <3>1. \A k \in Keys : line.key # k
      BY <1>3, ConfigAssumption
    <3> QED
      BY <2>1, <3>1, ClosedStays DEF ClosedBlocks, ParseInv
  <2> QED
    BY <2>1, <2>2, <2>3 DEF ParseInv
<1> QED
  BY <1>1, <1>2, <1>3

-----------------------------------------------------------------------------
Start == [contents |-> Empty, key |-> NONE, value |-> <<>>]

Run(g, lines) ==
    g = [i \in 0 .. Len(lines) |-> IF i = 0 THEN Start ELSE Step(g[i - 1], lines[i])]

\* The recursive definition of the states of the parser has a solution.
LEMMA RunExists ==
    ASSUME NEW lines, Len(lines) \in Nat
    PROVE  \E g : Run(g, lines)
<1> DEFINE Upto(g, n) == g = [i \in 0 .. n |-> IF i = 0 THEN Start ELSE Step(g[i - 1], lines[i])]
           P == {n \in Nat : \E g : Upto(g, n)}
<1>1. 0 \in P
  <2>1. Upto([i \in 0 .. 0 |-> Start], 0)
    OBVIOUS
  <2> QED
    BY <2>1
<1>2. ASSUME NEW n \in 0 .. Len(lines) - 1, n \in P PROVE n + 1 \in P
  <2>1. PICK g : Upto(g, n)
    BY <1>2
  <2> DEFINE h == [i \in 0 .. n + 1 |-> IF i <= n THEN g[i] ELSE Step(g[n], lines[n + 1])]
  <2>2. \A i \in 0 .. n : g[i] = IF i = 0 THEN Start ELSE Step(g[i - 1], lines[i])
    BY <2>1
  <2>3. ASSUME NEW i \in 0 .. n + 1
        PROVE  h[i] = IF i = 0 THEN Start ELSE Step(h[i - 1], lines[i])
    <3>1. CASE i = 0
      BY <2>2, <3>1
    <3>2. CASE i # 0 /\ i <= n
      <4>1. i - 1 \in 0 .. n /\ i - 1 \in 0 .. n + 1 /\ i \in 0 .. n
        BY <3>2
      <4>2. h[i] = g[i] /\ h[i - 1] = g[i - 1]
        BY <4>1
      <4> QED
        BY <2>2, <3>2, <4>1, <4>2
    <3>3. CASE i = n + 1
      <4>1. n \in 0 .. n + 1 /\ i - 1 = n /\ ~(i <= n) /\ i # 0
        BY <3>3
      <4>2. h[i] = Step(g[n], lines[n + 1]) /\ h[i - 1] = g[n]
        BY <4>1, <3>3
      <4> QED
        BY <3>3, <4>1, <4>2
    <3> QED
      BY <3>1, <3>2, <3>3
  <2>4. Upto(h, n + 1)
    BY <2>3
  <2> HIDE DEF h, Upto
  <2> QED
    BY <2>4
<1>3. Len(lines) \in P
  <2> HIDE DEF P
  <2>1. \A i \in 0 .. Len(lines) : i \in P
    BY <1>1, <1>2, UpTo
  <2> QED
    BY <2>1
<1> QED
  BY <1>3 DEF Run

LEMMA ParseRun ==
    ASSUME NEW f, Len(LinesRead(f)) \in Nat
    PROVE  \E g : Run(g, LinesRead(f)) /\ Parse(f) = Store(g[Len(LinesRead(f))]).contents
<1> DEFINE lines == LinesRead(f)
           state[i \in 0 .. Len(lines)] ==
               IF i = 0 THEN [contents |-> Empty, key |-> NONE, value |-> <<>>]
               ELSE Step(state[i - 1], lines[i])
<1>1. Parse(f) = Store(state[Len(lines)]).contents
  BY DEF Parse
<1>2. state = CHOOSE g : Run(g, lines)
  BY DEF Run, Start
<1> HIDE DEF state
<1>3. Run(state, lines)
  BY <1>2, RunExists
<1> QED
  BY <1>1, <1>3

\* What operator>> leaves in the map of what it reads.
LEMMA ParseEntry ==
    ASSUME NEW f, LinesRead(f) \in Seq(FileLine), NEW k \in Keys
    PROVE  Entry(LinesRead(f), Len(LinesRead(f)), k, Parse(f)[k])
<1> DEFINE lines == LinesRead(f)
           n == Len(lines)
<1>1. n \in Nat /\ \A i \in 1 .. n : lines[i] \in FileLine
  BY LenProperties, ElementOfSeq
<1>2. PICK g : Run(g, lines) /\ Parse(f) = Store(g[n]).contents
  BY <1>1, ParseRun
<1> HIDE DEF lines
<1>3. g[0] = Start /\ \A i \in 0 .. n - 1 : g[i + 1] = Step(g[i], lines[i + 1])
  <2>1. \A i \in 0 .. n : g[i] = IF i = 0 THEN Start ELSE Step(g[i - 1], lines[i])
    BY <1>2 DEF Run
  <2>2. g[0] = Start
    BY <1>1, <2>1
  <2>3. ASSUME NEW i \in 0 .. n - 1 PROVE g[i + 1] = Step(g[i], lines[i + 1])
    <3>1. i + 1 \in 0 .. n /\ i + 1 # 0 /\ (i + 1) - 1 = i
      BY <1>1
    <3> QED
      BY <2>1, <3>1
  <2> QED
    BY <2>2, <2>3
<1> HIDE DEF n
<1> DEFINE P == {i \in Nat : ParseInv(lines, i, g[i])}
<1>4. 0 \in P
  <2>1. ParseType(Start)
    BY DEF ParseType, Start, Empty
  <2>2. OpenBlock(lines, 0, Start)
    BY DEF OpenBlock, Start
  <2>3. ClosedBlocks(lines, 0, Start)
    BY DEF ClosedBlocks, Closed, Without, Start, Empty
  <2> QED
    BY <1>3, <2>1, <2>2, <2>3 DEF ParseInv
<1>5. ASSUME NEW i \in 0 .. n - 1, i \in P PROVE i + 1 \in P
  <2>1. i \in Nat /\ i + 1 \in 1 .. n /\ i + 1 \in Nat
    BY <1>1
  <2>2. ParseInv(lines, i + 1, Step(g[i], lines[i + 1]))
    BY <1>1, <1>5, <2>1, ParseStep
  <2> QED
    BY <1>3, <2>1, <2>2
<1>6. ParseInv(lines, n, g[n])
  <2> HIDE DEF P
  <2>1. \A i \in 0 .. n : i \in P
    BY <1>1, <1>4, <1>5, UpTo
  <2>2. n \in P
    BY <1>1, <2>1
  <2> QED
    BY <2>2 DEF P
<1> QED
  BY <1>1, <1>2, <1>6, StoredEntry DEF lines, n

-----------------------------------------------------------------------------
\* The last line that getline leaves in place adds nothing to what a key says.
LEMMA LinesReadEntry ==
    ASSUME NEW f, f.lines \in Seq(FileLine), NEW k \in Keys, NEW v,
           Entry(LinesRead(f), Len(LinesRead(f)), k, v)
    PROVE  Entry(f.lines, Len(f.lines), k, v)
<1> DEFINE n == Len(f.lines)
           lines == LinesRead(f)
<1>1. n \in Nat
  BY LenProperties
<1>2. CASE lines = f.lines
  BY <1>2
<1>3. CASE lines # f.lines
  <2>1. /\ n # 0 /\ f.lines[n].key = NONE
        /\ Len(lines) = n + 1
        /\ \A i \in 1 .. n : lines[i] = f.lines[i]
        /\ lines[n + 1] = lines[n]
    BY <1>1, <1>3 DEF LinesRead
  <2>e. Entry(lines, n + 1, k, v)
    BY <2>1
  <2> HIDE DEF lines
  <2>2. CASE v = NONE /\ Without(lines, n + 1, k)
    <3>1. Without(f.lines, n, k)
      BY <1>1, <2>1, <2>2 DEF Without
    <3> QED
      BY <2>2, <3>1 DEF Entry
  <2>3. ASSUME NEW l \in 1 .. n + 1, LastWith(lines, n + 1, k, l), Says(lines, n + 1, l, v)
        PROVE  Entry(f.lines, n, k, v)
    <3>1. l \in 1 .. n - 1 /\ l \in 1 .. n
      <4>1. lines[l].key # NONE
        BY <2>3, ConfigAssumption DEF LastWith
      <4> QED
        BY <1>1, <2>1, <4>1
    <3> HIDE DEF n
    <3>2. LastWith(f.lines, n, k, l)
      BY <1>1, <2>1, <2>3, <3>1 DEF LastWith
    <3>3. ASSUME NEW j \in l .. n
          PROVE  /\ Continues(lines, l, j) <=> Continues(f.lines, l, j)
                 /\ lines[j].text = f.lines[j].text /\ j \in l .. n + 1
      BY <1>1, <2>1, <3>1 DEF Continues
    <3>4. Continues(lines, l, n + 1) => Continues(lines, l, n)
      BY <1>1, <3>1 DEF Continues
    <3>5. CASE v = <<>>
      BY <2>3, <3>2, <3>1, <3>3, <3>5 DEF Says, Entry
    <3>6. CASE v # <<>>
      <4>1. PICK j \in l .. n + 1 :
                     /\ Continues(lines, l, j)
                     /\ lines[j].text # <<>> /\ Head(lines[j].text) = Head(v)
                     /\ \A m \in l .. j - 1 : lines[m].text = <<>>
        BY <2>3, <3>6 DEF Says
      <4>2. j \in l .. n
        BY <1>1, <2>1, <3>1, <4>1
      <4>3. \A m \in l .. j - 1 : m \in l .. n
        BY <1>1, <3>1, <4>2
      <4>4. Says(f.lines, n, l, v)
        BY <2>3, <3>3, <3>6, <4>1, <4>2, <4>3 DEF Says
      <4> QED
        BY <3>1, <3>2, <4>4 DEF Entry
    <3> QED
      BY <3>5, <3>6
  <2> QED
    BY <2>e, <2>2, <2>3 DEF Entry
<1> QED
  BY <1>2, <1>3

\* Two values that are both empty or begin with the same token.
SameStart(v, u) == (v = <<>> <=> u = <<>>) /\ (v # <<>> => Head(u) = Head(v))

\* What the comments promise is what is read.
LEMMA WrittenEntry ==
    ASSUME NEW f, f.lines \in Seq(FileLine), NEW k \in Keys, NEW v, Entry(f.lines, Len(f.lines), k, v)
    PROVE  /\ v = NONE <=> Written(f, k) = NONE
           /\ v # NONE => SameStart(v, Written(f, k))
           /\ v \in {NONE} \cup Seq(Tokens)
<1> DEFINE n == Len(f.lines)
<1>1. n \in Nat /\ DOMAIN f.lines = 1 .. n /\ \A i \in 1 .. n : f.lines[i] \in FileLine
  BY LenProperties, ElementOfSeq
<1>2. CASE v = NONE /\ Without(f.lines, n, k)
  BY <1>1, <1>2 DEF Without, Written
<1>3. ASSUME NEW l \in 1 .. n, LastWith(f.lines, n, k, l), Says(f.lines, n, l, v)
      PROVE  v # NONE /\ Written(f, k) # NONE /\ SameStart(v, Written(f, k))
             /\ v \in Seq(Tokens)
  <2>1. LastLine(f, k) = l
    <3> DEFINE Last(i) == /\ f.lines[i].key = k
                          /\ \A j \in i + 1 .. Len(f.lines) : f.lines[j].key # k
    <3>1. Last(l)
      BY <1>3 DEF LastWith
    <3>2. \A i \in 1 .. n : Last(i) => i = l
      BY <1>1, <3>1
    <3>3. LastLine(f, k) = CHOOSE i \in 1 .. n : Last(i)
      BY <1>1 DEF LastLine
    <3> HIDE DEF Last
    <3> QED
      BY <3>1, <3>2, <3>3
  <2> DEFINE tokens == {j \in Block(f, l) : f.lines[j].text # <<>>}
  <2>2. ~ \A i \in DOMAIN f.lines : f.lines[i].key # k
    BY <1>1, <1>3 DEF LastWith
  <2>3. Written(f, k) = IF tokens = {} THEN <<>>
                        ELSE f.lines[CHOOSE j \in tokens : \A m \in tokens : j <= m].text
    BY <2>1, <2>2 DEF Written
  <2>4. tokens = {j \in l .. n : Continues(f.lines, l, j) /\ f.lines[j].text # <<>>}
    BY DEF Block, Continues
  <2> HIDE DEF tokens
  <2>5. v \in Seq(Tokens) /\ v # NONE /\ <<>> # NONE
    <3>1. v \in Seq(Tokens) /\ <<>> \in Seq(Tokens)
      BY <1>3 DEF Says
    <3> QED
      BY <3>1, ConfigAssumption
  <2>6. CASE v = <<>>
    <3>1. tokens = {}
      BY <1>3, <2>4, <2>6 DEF Says
    <3> QED
      BY <2>3, <2>5, <2>6, <3>1 DEF SameStart
  <2>7. CASE v # <<>>
    <3>1. PICK j \in l .. n : /\ Continues(f.lines, l, j)
                              /\ f.lines[j].text # <<>> /\ Head(f.lines[j].text) = Head(v)
                              /\ \A m \in l .. j - 1 : f.lines[m].text = <<>>
      BY <1>3, <2>7 DEF Says
    <3>2. j \in tokens /\ \A m \in tokens : j <= m
      BY <2>4, <3>1
    <3>3. \A i \in tokens : (\A m \in tokens : i <= m) => i = j
      BY <2>4, <3>2
    <3>4. Written(f, k) = f.lines[j].text
      BY <2>3, <3>2, <3>3
    <3>5. f.lines[j].text \in Seq(Tokens)
      BY <1>1 DEF FileLine
    <3> QED
      BY <2>5, <2>7, <3>1, <3>4, <3>5, ConfigAssumption DEF SameStart
  <2> QED
    BY <2>6, <2>7
<1> QED
  BY <1>2, <1>3 DEF Entry

(***************************************************************************)
(* The parser of ConfigFile and the comments on it agree on every file:    *)
(* which keys it sets, and the first token of each value.                  *)
(***************************************************************************)
THEOREM ParseAgreesWithWritten ==
    ASSUME NEW f, f.lines \in Seq(FileLine), NEW k \in Keys
    PROVE  /\ Parse(f)[k] = NONE <=> Written(f, k) = NONE
           /\ Parse(f)[k] # NONE => SameStart(Parse(f)[k], Written(f, k))
           /\ Parse(f)[k] \in {NONE} \cup Seq(Tokens)
<1>1. LinesRead(f) \in Seq(FileLine)
  BY DEF LinesRead
<1> QED
  BY <1>1, ParseEntry, LinesReadEntry, WrittenEntry

-----------------------------------------------------------------------------
(* The settings. *)

(***************************************************************************)
(* The map and the history of what the files say agree on every key, and   *)
(* the settings were read from the map.                                    *)
(***************************************************************************)
MapInv ==
    /\ contents \in [Keys -> {NONE} \cup Seq(Tokens)]
    /\ DOMAIN written = Keys
    /\ \A k \in Keys : /\ contents[k] = NONE <=> written[k] = NONE
                       /\ contents[k] # NONE => SameStart(contents[k], written[k])

SettingsInv ==
    main # "load" =>
        /\ thread_num_ \in {Unsigned(n) : n \in read(contents, Threads, DefaultThreadNum)}
        /\ client_heartbeat_timeout_ \in read(contents, Timeout, DefaultTimeout)

LEMMA LoadKeepsMap ==
    ASSUME MapInv, NEW f \in Files, LoadConfiguration(f)
    PROVE  MapInv'
<1>1. f.lines \in Seq(FileLine)
  BY ReloadAssumption
<1>2. /\ contents' = [k \in Keys |-> IF Parse(f)[k] = NONE THEN contents[k] ELSE Parse(f)[k]]
      /\ written' = [k \in Keys |-> IF Written(f, k) = NONE THEN written[k] ELSE Written(f, k)]
  BY DEF LoadConfiguration, Load, ConfigMap
<1>3. contents' \in [Keys -> {NONE} \cup Seq(Tokens)] /\ DOMAIN written' = Keys
  BY <1>1, <1>2, ParseAgreesWithWritten DEF MapInv
<1>4. ASSUME NEW k \in Keys
      PROVE  /\ contents'[k] = NONE <=> written'[k] = NONE
             /\ contents'[k] # NONE => SameStart(contents'[k], written'[k])
  <2>1. /\ Parse(f)[k] = NONE <=> Written(f, k) = NONE
        /\ Parse(f)[k] # NONE => SameStart(Parse(f)[k], Written(f, k))
    BY <1>1, ParseAgreesWithWritten
  <2>2. CASE Parse(f)[k] = NONE
    <3>1. contents'[k] = contents[k] /\ written'[k] = written[k]
      BY <1>2, <2>1, <2>2
    <3> QED
      BY <3>1 DEF MapInv
  <2>3. CASE Parse(f)[k] # NONE
    BY <1>2, <2>1, <2>3
  <2> QED
    BY <2>2, <2>3
<1> QED
  BY <1>3, <1>4 DEF MapInv, SameStart

LEMMA SettingsStep ==
    ASSUME MapInv, SettingsInv, [Next]_vars
    PROVE  MapInv' /\ SettingsInv'
<1>1. ASSUME NEW f \in Files, LoadConfiguration(f), SettingsAndPrint
      PROVE  MapInv' /\ SettingsInv'
  <2>1. MapInv'
    BY <1>1, LoadKeepsMap
  <2>2. SettingsInv'
    BY <1>1 DEF SettingsAndPrint, SettingsInv, read, string_as_T, Unsigned
  <2> QED
    BY <2>1, <2>2
<1>2. ASSUME UNCHANGED confVars, main = "load" => main' = "load"
      PROVE  MapInv' /\ SettingsInv'
  <2>1. /\ contents' = contents /\ written' = written /\ thread_num_' = thread_num_
        /\ client_heartbeat_timeout_' = client_heartbeat_timeout_
    BY <1>2
  <2>2. MapInv'
    BY <2>1 DEF MapInv, SameStart
  <2>3. SettingsInv'
    BY <1>2, <2>1 DEF SettingsInv, read, string_as_T, Unsigned
  <2> QED
    BY <2>2, <2>3
<1>3. ASSUME NEW f \in FirstFiles, FirstLoad(f) PROVE MapInv' /\ SettingsInv'
  BY <1>1, <1>3, ReloadAssumption DEF FirstLoad
<1>4. ASSUME NEW f \in Files, SigUsr(f) PROVE MapInv' /\ SettingsInv'
  BY <1>1, <1>2, <1>4 DEF SigUsr
<1>5. CASE Daemon
  BY <1>2, <1>5 DEF Daemon
<1>6. CASE StartFails
  BY <1>2, <1>6 DEF StartFails
<1>7. CASE SetupThread
  BY <1>2, <1>7 DEF SetupThread
<1>8. CASE CreateWorker
  BY <1>2, <1>8 DEF CreateWorker
<1>9. CASE WaitForThreads
  BY <1>2, <1>9 DEF WaitForThreads
<1>10. CASE RegisterThread
  BY <1>2, <1>10 DEF RegisterThread
<1>11. CASE Dispatch
  BY <1>2, <1>11 DEF Dispatch
<1>12. CASE SigTerm
  BY <1>2, <1>12 DEF SigTerm
<1>13. CASE UNCHANGED vars
  BY <1>2, <1>13 DEF vars
<1> QED
  BY <1>3, <1>4, <1>5, <1>6, <1>7, <1>8, <1>9, <1>10, <1>11, <1>12, <1>13 DEF Next

LEMMA SettingsInit == Init => MapInv /\ SettingsInv
  BY DEF Init, MapInv, SettingsInv, Empty

\* A key that is not set, or set to a number, is read as that.
LEMMA ReadSettled ==
    ASSUME MapInv, NEW k \in Keys, Settled(k), NEW default
    PROVE  read(contents, k, default) = {Number(k, default)}
<1>1. /\ contents[k] = NONE <=> written[k] = NONE
      /\ contents[k] # NONE => SameStart(contents[k], written[k])
  BY DEF MapInv
<1>2. CASE written[k] = NONE
  BY <1>1, <1>2 DEF read, Number
<1>3. CASE written[k] # NONE
  <2>1. written[k] # <<>> /\ Head(written[k]) # WORD
    BY <1>3 DEF Settled, IsNumber
  <2>2. contents[k] # NONE /\ contents[k] # <<>> /\ Head(contents[k]) = Head(written[k])
    BY <1>1, <1>3, <2>1 DEF SameStart
  <2> QED
    BY <1>3, <2>1, <2>2 DEF read, string_as_T, Number
<1> QED
  BY <1>2, <1>3

(***************************************************************************)
(* After every load, with whatever files SIGUSR1 finds, thread_num_ and    *)
(* client_heartbeat_timeout_ are the numbers that the files loaded so far  *)
(* give them, or the defaults.                                             *)
(***************************************************************************)
THEOREM SettingsAreTheNumbers == Spec => []SettingsComeFromFile
<1>1. MapInv /\ SettingsInv => SettingsComeFromFile
  <2> SUFFICES ASSUME MapInv, SettingsInv, main # "load"
               PROVE  /\ Settled(Threads) =>
                            thread_num_ = Unsigned(Number(Threads, DefaultThreadNum))
                      /\ Settled(Timeout) =>
                            client_heartbeat_timeout_ = Number(Timeout, DefaultTimeout)
    BY DEF SettingsComeFromFile
  <2>1. Threads \in Keys /\ Timeout \in Keys
    BY ReloadAssumption
  <2>2. ASSUME Settled(Threads)
        PROVE  thread_num_ = Unsigned(Number(Threads, DefaultThreadNum))
    <3>1. read(contents, Threads, DefaultThreadNum) = {Number(Threads, DefaultThreadNum)}
      BY <2>1, <2>2, ReadSettled
    <3> QED
      BY <3>1 DEF SettingsInv
  <2>3. ASSUME Settled(Timeout)
        PROVE  client_heartbeat_timeout_ = Number(Timeout, DefaultTimeout)
    <3>1. read(contents, Timeout, DefaultTimeout) = {Number(Timeout, DefaultTimeout)}
      BY <2>1, <2>3, ReadSettled
    <3> QED
      BY <3>1 DEF SettingsInv
  <2> QED
    BY <2>2, <2>3
<1>2. MapInv /\ SettingsInv /\ [Next]_vars => (MapInv /\ SettingsInv)'
  BY SettingsStep
<1>3. Init => MapInv /\ SettingsInv
  BY SettingsInit
<1> QED
  BY <1>1, <1>2, <1>3, PTL DEF Spec

-----------------------------------------------------------------------------
(* Types. *)

LEMMA UnsignedIsNat == ASSUME NEW n \in Int PROVE Unsigned(n) \in Nat
  BY ReloadAssumption DEF Unsigned

LEMMA LoadKeepsTypes ==
    ASSUME MapInv, NEW f \in Files, LoadConfiguration(f), SettingsAndPrint
    PROVE  /\ DOMAIN contents' = Keys /\ DOMAIN written' = Keys
           /\ thread_num_' \in Nat /\ client_heartbeat_timeout_' \in Int
<1>1. contents' \in [Keys -> {NONE} \cup Seq(Tokens)] /\ DOMAIN written' = Keys
  BY LoadKeepsMap DEF MapInv
<1>2. ASSUME NEW k \in Keys, NEW default \in Int
      PROVE  read(contents', k, default) \subseteq Int
  <2>1. contents'[k] # NONE => contents'[k] \in Seq(Tokens)
    BY <1>1
  <2>2. CASE contents'[k] = NONE
    BY <2>2 DEF read
  <2>3. CASE contents'[k] # NONE /\ contents'[k] = <<>>
    BY <2>3, ReloadAssumption DEF read, string_as_T
  <2>4. CASE contents'[k] # NONE /\ contents'[k] # <<>>
    <3>1. read(contents', k, default)
            = IF Head(contents'[k]) = WORD THEN {0} ELSE {Head(contents'[k])}
      BY <2>4 DEF read, string_as_T
    <3>2. Head(contents'[k]) \in Tokens
      BY <2>1, <2>4, HeadTailProperties
    <3>3. Head(contents'[k]) = WORD \/ Head(contents'[k]) \in Int
      BY <3>2 DEF Tokens
    <3> QED
      BY <3>1, <3>3
  <2> QED
    BY <2>2, <2>3, <2>4
<1>3. /\ read(contents', Threads, DefaultThreadNum) \subseteq Int
      /\ read(contents', Timeout, DefaultTimeout) \subseteq Int
  BY <1>2, ReloadAssumption
<1> QED
  BY <1>1, <1>3, UnsignedIsNat DEF SettingsAndPrint

LEMMA TypeStep ==
    ASSUME MapInv, TypeOK, [Next]_vars
    PROVE  TypeOK'
<1>1. ASSUME NEW f \in FirstFiles, FirstLoad(f) PROVE TypeOK'
  <2>1. f \in Files
    BY ReloadAssumption
  <2>2. spoiled' \in BOOLEAN
    BY <1>1 DEF FirstLoad, SettingsAndPrint, TypeOK
  <2> QED
    BY <1>1, <2>1, <2>2, LoadKeepsTypes DEF FirstLoad, TypeOK
<1>2. ASSUME NEW f \in Files, SigUsr(f) PROVE TypeOK'
  <2>1. CASE FileFound
    <3>1. spoiled' \in BOOLEAN
      BY <1>2, <2>1 DEF SigUsr, SettingsAndPrint, TypeOK
    <3> QED
      BY <1>2, <2>1, <3>1, LoadKeepsTypes DEF SigUsr, TypeOK
  <2>2. CASE ~FileFound
    BY <1>2, <2>2 DEF SigUsr, TypeOK
  <2> QED
    BY <2>1, <2>2
<1>3. CASE Daemon
  BY <1>3 DEF Daemon, TypeOK
<1>4. CASE StartFails
  BY <1>4 DEF StartFails, TypeOK
<1>5. CASE SetupThread
  BY <1>5 DEF SetupThread, TypeOK
<1>6. CASE CreateWorker
  BY <1>6 DEF CreateWorker, TypeOK
<1>7. CASE WaitForThreads
  BY <1>7 DEF WaitForThreads, TypeOK
<1>8. CASE RegisterThread
  BY <1>8 DEF RegisterThread, TypeOK
<1>9. CASE Dispatch
  <2>1. NextThread \in 0 .. thread_num_ - 1 \/ thread_num_ = 0
    BY DEF NextThread, TypeOK
  <2>2. last_thread_' \in -1 .. vec_size - 1
    BY <1>9, <2>1 DEF Dispatch, TypeOK
  <2> QED
    BY <1>9, <2>2 DEF Dispatch, TypeOK
<1>10. CASE SigTerm
  BY <1>10 DEF SigTerm, TypeOK
<1>11. CASE UNCHANGED vars
  BY <1>11 DEF vars, TypeOK
<1> QED
  BY <1>1, <1>2, <1>3, <1>4, <1>5, <1>6, <1>7, <1>8, <1>9, <1>10, <1>11 DEF Next

TypeInv == MapInv /\ SettingsInv /\ TypeOK

LEMMA TypeInit == Init => TypeInv
<1>1. Init => TypeOK
  <2> SUFFICES ASSUME Init PROVE TypeOK
    OBVIOUS
  <2>1. DOMAIN contents = Keys /\ DOMAIN written = Keys
    BY DEF Init, Empty
  <2>2. at_root \in BOOLEAN /\ spoiled \in BOOLEAN
    BY ReloadAssumption DEF Init
  <2>3. /\ thread_num_ = 0 /\ client_heartbeat_timeout_ = 0 /\ vec_size = 0
        /\ created = 0 /\ init_count_ = 0 /\ last_thread_ = -1
        /\ main = "load" /\ process = "up"
    BY DEF Init
  <2> QED
    BY <2>1, <2>2, <2>3 DEF TypeOK
<1> QED
  BY <1>1, SettingsInit DEF TypeInv

LEMMA TypeInvStep == TypeInv /\ [Next]_vars => TypeInv'
  BY SettingsStep, TypeStep DEF TypeInv

(***************************************************************************)
(* Whatever is reloaded, spoiled or not, the pool's counters stay in their *)
(* ranges: no more workers are created than vec_libevent_thread_ holds, no *)
(* more count themselves in than were created, and last_thread_ is a       *)
(* position of the vector.                                                 *)
(***************************************************************************)
THEOREM ReloadTypes == Spec => []TypeOK
<1>1. TypeInv => TypeOK
  BY DEF TypeInv
<1> QED
  BY <1>1, TypeInit, TypeInvStep, PTL DEF Spec

-----------------------------------------------------------------------------
(* The worker pool. *)

(***************************************************************************)
(* The inductive invariant.  The loops of InitThreads run until they have  *)
(* met thread_num_ as it is when they end.  From then on, unless spoiled,  *)
(* it only falls, so that vector and threads still cover it.               *)
(***************************************************************************)
PoolCovers ==
    ~spoiled =>
        /\ main # "load" => thread_num_ > 0
        /\ main \in {"create", "wait", "serving"} => thread_num_ <= vec_size
        /\ main \in {"wait", "serving"} => thread_num_ <= created
        /\ last_thread_ < created
        /\ process # "aborted"

BeforePool ==
    /\ main \in {"load", "daemon"} => vec_size = 0
    /\ main \in {"load", "daemon", "setup"} => created = 0 /\ last_thread_ = -1

PoolInv == TypeOK /\ BeforePool /\ PoolCovers

\* A load that spoils nothing leaves the pool large enough.
LEMMA LoadKeepsPool ==
    ASSUME PoolInv, TypeOK', NEW f \in Files, SettingsAndPrint,
           UNCHANGED <<poolVars, process>>, main' = main \/ (main = "load" /\ main' = "daemon")
    PROVE  PoolInv'
<1>1. /\ spoiled' = (spoiled \/ Spoils)
      /\ thread_num_ \in Nat /\ thread_num_' \in Nat
      /\ vec_size \in Nat /\ created \in Nat
  BY DEF SettingsAndPrint, PoolInv, TypeOK
<1>2. BeforePool'
  BY DEF PoolInv, BeforePool
<1>3. PoolCovers'
  <2> SUFFICES ASSUME ~spoiled' PROVE PoolCovers'
    BY DEF PoolCovers
  <2>s. ~spoiled /\ ~Spoils
    BY <1>1
  <2>1. ~spoiled /\ thread_num_' > 0
        /\ (main \in {"create", "wait", "serving"} => thread_num_' <= thread_num_)
    BY <1>1, <2>s DEF Spoils
  <2> QED
    BY <1>1, <2>1 DEF PoolCovers, PoolInv
<1> QED
  BY <1>2, <1>3 DEF PoolInv

LEMMA PoolStep ==
    ASSUME PoolInv, TypeOK', [Next]_vars
    PROVE  PoolInv'
<1> USE DEF PoolInv, BeforePool, PoolCovers
<1>t. /\ thread_num_ \in Nat /\ vec_size \in Nat /\ created \in 0 .. vec_size
      /\ init_count_ \in 0 .. created /\ last_thread_ \in -1 .. vec_size - 1
  BY DEF TypeOK
<1>1. ASSUME NEW f \in FirstFiles, FirstLoad(f) PROVE PoolInv'
  BY <1>1, LoadKeepsPool, ReloadAssumption DEF FirstLoad
<1>2. ASSUME NEW f \in Files, SigUsr(f) PROVE PoolInv'
  <2>1. CASE FileFound
    BY <1>2, <2>1, LoadKeepsPool DEF SigUsr
  <2>2. CASE ~FileFound
    BY <1>2, <2>2 DEF SigUsr
  <2> QED
    BY <2>1, <2>2
<1>3. CASE Daemon
  BY <1>3 DEF Daemon
<1>4. CASE StartFails
  BY <1>4 DEF StartFails
<1>5. CASE SetupThread
  BY <1>5, <1>t DEF SetupThread
<1>6. CASE CreateWorker
  BY <1>6, <1>t DEF CreateWorker, MoreToCreate
<1>7. CASE WaitForThreads
  BY <1>7, <1>t DEF WaitForThreads, MoreToCreate
<1>8. CASE RegisterThread
  BY <1>8, <1>t DEF RegisterThread
<1>9. CASE Dispatch
  <2>1. thread_num_ > 0 => NextThread \in 0 .. thread_num_ - 1
    BY <1>t DEF NextThread
  <2> HIDE DEF NextThread
  <2> QED
    BY <1>9, <1>t, <2>1 DEF Dispatch
<1>10. CASE SigTerm
  BY <1>10 DEF SigTerm
<1>11. CASE UNCHANGED vars
  BY <1>11 DEF vars
<1> QED
  BY <1>1, <1>2, <1>3, <1>4, <1>5, <1>6, <1>7, <1>8, <1>9, <1>10, <1>11 DEF Next

LEMMA PoolCorrect == Spec => []PoolInv
<1>1. Init => PoolInv
  BY TypeInit DEF TypeInv, Init, PoolInv, BeforePool, PoolCovers
<1>2. TypeInv /\ PoolInv /\ [Next]_vars => PoolInv'
  BY TypeInvStep, PoolStep DEF TypeInv
<1> QED
  BY <1>1, <1>2, TypeInit, TypeInvStep, PTL DEF Spec

(***************************************************************************)
(* Whatever the files say and whenever SIGUSR1 comes, a connection goes to *)
(* a worker that has been started, as long as no load gave no workers or   *)
(* raised their number after the vector was set up.                        *)
(***************************************************************************)
THEOREM PoolCoversRoundRobin == Spec => []DispatchHasThread
<1>1. PoolInv => DispatchHasThread
  BY DEF PoolInv, PoolCovers, DispatchHasThread
<1> QED
  BY <1>1, PoolCorrect, PTL

(***************************************************************************)
(* With such loads only, neither InitThreads nor DispatchSfdToWorker reads *)
(* past vec_libevent_thread_, and no remainder is taken by zero.           *)
(***************************************************************************)
THEOREM PoolArithmeticIsSafe == Spec => []AbortsOnlyIfSpoiled
<1>1. PoolInv => AbortsOnlyIfSpoiled
  BY DEF PoolInv, PoolCovers, AbortsOnlyIfSpoiled
<1> QED
  BY <1>1, PoolCorrect, PTL

=============================================================================
