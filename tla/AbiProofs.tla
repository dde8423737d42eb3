------------------------------ MODULE AbiProofs ------------------------------
(***************************************************************************)
(* What Core's run checks of the C ABI, proved for every core the contents *)
(* allow: a packed cell, a packed row and a packed style read back as what *)
(* they were packed from, a reader's snapshot is the core's own, and two   *)
(* snapshots that compare as equal are equal. The invariant AbiInv says    *)
(* that the cache is empty or the core's snapshot of this moment, and that *)
(* a live reference stands where the cache has what it was minted at.      *)
(***************************************************************************)
EXTENDS Core, Climbing, SequenceTheorems

-----------------------------------------------------------------------------
(* A word and its fields.                                                  *)

LEMMA Divides ==
  ASSUME NEW n \in Nat \ {0}, NEW q \in Nat, NEW r \in 0 .. n - 1
  PROVE  (r + n * q) \div n = q /\ (r + n * q) % n = r
<1> DEFINE m == r + n * q
           p == m \div n
           s == m % n
<1>1. m \in Nat /\ n * q \in Nat
  OBVIOUS
<1>2. p \in Int /\ s \in 0 .. n - 1 /\ m = n * p + s
  BY <1>1
<1>3. n * (q - p) = s - r
  <2>1. n * (q - p) = n * q - n * p
    BY <1>2
  <2>2. QED
    BY <2>1, <1>1, <1>2
<1>4. s - r < n /\ -n < s - r
  BY <1>2
<1>5. q - p \in Int
  BY <1>2
<1> DEFINE d == q - p
<1>10. n * d = s - r /\ d \in Int /\ s \in Int
  BY <1>3, <1>5, <1>2
<1> HIDE DEF p, s, m, d
<1>6. d = 0
  <2>1. CASE d >= 1
    <3>1. n * d >= n
      BY <2>1, <1>10
    <3>2. QED
      BY <3>1, <1>10, <1>4
  <2>2. CASE d <= -1
    <3>1. n * d <= -n
      BY <2>2, <1>10
    <3>2. QED
      BY <3>1, <1>10, <1>4
  <2>3. QED
    BY <2>1, <2>2, <1>10
<1>7. q = p
  BY <1>6, <1>2 DEF d
<1>8. s = r
  BY <1>6, <1>10
<1>9. QED
  BY <1>7, <1>8 DEF p, s, m

\* A field read from a word: below it what is lower, above it whole multiples.
Sits(w, at, holds, low, v, high) == w = low + at * (v + holds * high)

LEMMA FieldReads ==
  ASSUME NEW at \in Nat \ {0}, NEW holds \in Nat \ {0}, NEW low \in 0 .. at - 1,
         NEW v \in 0 .. holds - 1, NEW high \in Nat, NEW w, Sits(w, at, holds, low, v, high)
  PROVE  Field(w, at, holds) = v
<1> DEFINE q == v + holds * high
<1>0. q \in Nat /\ w = low + at * q
  BY DEF Sits
<1>1. q % holds = v
  BY Divides
<1> HIDE DEF q
<1>2. w \div at = q
  BY <1>0, Divides
<1>4. QED
  BY <1>2, <1>1 DEF Field

LEMMA Gathers ==
  ASSUME NEW l \in Nat, NEW at \in Nat, NEW d \in Nat, NEW n \in Nat, NEW h \in Nat
  PROVE  (l + at * d) + (at * n) * h = l + at * (d + n * h)
<1>1. at * (d + n * h) = at * d + at * (n * h)
  OBVIOUS
<1>2. at * (n * h) = (at * n) * h
  OBVIOUS
<1>3. at * d \in Nat /\ at * (n * h) \in Nat
  OBVIOUS
<1>4. QED
  BY <1>1, <1>2, <1>3

\* The digits of a cell's word.
Packed(d0, d1, d2, d3, d4, d5) ==
  d0 + d1 * WideAt + d2 * SemanticAt + d3 * StyleAt + d4 * StyledAt + d5 * ClusterAt

LEMMA WordReads ==
  ASSUME NEW d0 \in 0 .. CpSpan - 1, NEW d1 \in 0 .. 3, NEW d2 \in 0 .. 3, NEW d3 \in 0 .. StyleSpan - 1,
         NEW d4 \in 0 .. 1, NEW d5 \in 0 .. 1
  PROVE  LET w == Packed(d0, d1, d2, d3, d4, d5) IN
         /\ Field(w, 1, CpSpan) = d0 /\ Field(w, WideAt, 4) = d1 /\ Field(w, SemanticAt, 4) = d2
         /\ Field(w, StyleAt, StyleSpan) = d3 /\ Field(w, StyledAt, 2) = d4 /\ Field(w, ClusterAt, 2) = d5
<1> DEFINE S  == StyleSpan
           h4 == d4 + 2 * d5
           h3 == d3 + S * h4
           h2 == d2 + 4 * h3
           h1 == d1 + 4 * h2
           l1 == d0
           l2 == d0 + CpSpan * d1
           l3 == l2 + SemanticAt * d2
           l4 == l3 + StyleAt * d3
           l5 == l4 + StyledAt * d4
           w  == Packed(d0, d1, d2, d3, d4, d5)
<1>1. CpSpan \in Nat \ {0} /\ S \in Nat \ {0, 1}
  BY AbiAssumption
<1>2. /\ WideAt \in Nat \ {0} /\ WideAt = CpSpan
      /\ SemanticAt \in Nat \ {0} /\ SemanticAt = CpSpan * 4
      /\ StyleAt \in Nat \ {0} /\ StyleAt = SemanticAt * 4
      /\ StyledAt \in Nat \ {0} /\ StyledAt = StyleAt * S
      /\ ClusterAt \in Nat \ {0} /\ ClusterAt = StyledAt * 2
  BY <1>1 DEF WideAt, SemanticAt, StyleAt, StyledAt, ClusterAt
<1> HIDE DEF S
<1>3. h4 \in Nat /\ h3 \in Nat /\ h2 \in Nat /\ h1 \in Nat
  <2>1. h4 \in Nat
    OBVIOUS
  <2>2. h3 \in Nat
    <3> HIDE DEF h4
    <3>1. QED
      BY <2>1, <1>1 DEF S
  <2>3. QED
    <3> HIDE DEF h3
    <3>1. QED
      BY <2>1, <2>2
<1>4. /\ l2 \in 0 .. SemanticAt - 1 /\ l3 \in 0 .. StyleAt - 1
      /\ l4 \in 0 .. StyledAt - 1 /\ l5 \in 0 .. ClusterAt - 1
  <2>1. ASSUME NEW a \in Nat \ {0}, NEW n \in Nat \ {0}, NEW l \in 0 .. a - 1, NEW d \in 0 .. n - 1
        PROVE  l + a * d \in 0 .. a * n - 1
    <3>1. a * d + a <= a * n
      <4>1. a * (d + 1) <= a * n
        OBVIOUS
      <4>2. QED
        BY <4>1
    <3>2. a * d \in Nat
      OBVIOUS
    <3>3. QED
      BY <3>1, <3>2
  <2>2. l2 \in 0 .. SemanticAt - 1
    BY <2>1, <1>1, <1>2
  <2>3. l3 \in 0 .. StyleAt - 1
    <3> HIDE DEF l2
    <3>1. QED
      BY <2>1, <2>2, <1>2
  <2>4. l4 \in 0 .. StyledAt - 1
    <3> HIDE DEF l3
    <3>1. QED
      BY <2>1, <2>3, <1>1, <1>2 DEF S
  <2>5. l5 \in 0 .. ClusterAt - 1
    <3> HIDE DEF l4
    <3>1. QED
      BY <2>1, <2>4, <1>2
  <2>6. QED
    BY <2>2, <2>3, <2>4, <2>5
<1>5. /\ w = 0 + 1 * (d0 + CpSpan * h1) /\ w = l1 + WideAt * (d1 + 4 * h2)
      /\ w = l2 + SemanticAt * (d2 + 4 * h3) /\ w = l3 + StyleAt * (d3 + S * h4)
      /\ w = l4 + StyledAt * (d4 + 2 * d5) /\ w = l5 + ClusterAt * (d5 + 2 * 0)
  <2>1. l5 \in Nat /\ l4 \in Nat /\ l3 \in Nat /\ l2 \in Nat /\ l1 \in Nat /\ d5 \in Nat /\ d4 \in Nat
        /\ d3 \in Nat /\ d2 \in Nat /\ d1 \in Nat /\ d0 \in Nat /\ S \in Nat /\ ClusterAt \in Nat
        /\ StyledAt \in Nat /\ StyleAt \in Nat /\ SemanticAt \in Nat /\ WideAt \in Nat /\ CpSpan \in Nat
    <3> HIDE DEF l5, l4, l3, l2
    <3>1. QED
      BY <1>1, <1>2, <1>4
  <2>2. w = l5 + ClusterAt * d5
    BY <1>2 DEF Packed
  <2>3. w = l4 + StyledAt * h4
    <3>1. w = (l4 + StyledAt * d4) + (StyledAt * 2) * d5
      <4> HIDE DEF w, l4
      <4>1. QED
        BY <2>2, <1>2
    <3> HIDE DEF w, l4
    <3>2. QED
      BY <3>1, <2>1, Gathers
  <2>4. w = l3 + StyleAt * h3
    <3> HIDE DEF w, l3, h4
    <3>1. w = (l3 + StyleAt * d3) + (StyleAt * S) * h4
      BY <2>3, <1>2
    <3>2. QED
      BY <3>1, <2>1, <1>3, Gathers
  <2>5. w = l2 + SemanticAt * h2
    <3> HIDE DEF w, l2, h3
    <3>1. w = (l2 + SemanticAt * d2) + (SemanticAt * 4) * h3
      BY <2>4, <1>2
    <3>2. QED
      BY <3>1, <2>1, <1>3, Gathers
  <2>6. w = l1 + WideAt * h1
    <3> HIDE DEF w, h2
    <3>1. w = (l1 + WideAt * d1) + (WideAt * 4) * h2
      BY <2>5, <1>2
    <3> HIDE DEF l1
    <3>2. QED
      BY <3>1, <2>1, <1>3, Gathers
  <2>7. w = 0 + 1 * (d0 + CpSpan * h1)
    <3> HIDE DEF w, h1
    <3>1. CpSpan * h1 \in Nat
      BY <2>1, <1>3
    <3>2. QED
      BY <3>1, <2>1, <2>6, <1>2
  <2>8. w = l5 + ClusterAt * (d5 + 2 * 0)
    <3> HIDE DEF w, l5
    <3>1. QED
      BY <2>1, <2>2
  <2>9. QED
    <3> HIDE DEF w, l1, l2, l3, l4, l5
    <3>1. QED
      BY <2>3, <2>4, <2>5, <2>6, <2>7, <2>8
<1>6. Field(w, 1, CpSpan) = d0
  <2> HIDE DEF w, h1
  <2>1. 0 \in 0 .. 1 - 1 /\ d0 \in 0 .. CpSpan - 1 /\ h1 \in Nat /\ 1 \in Nat \ {0} /\ CpSpan \in Nat \ {0}
    BY <1>1, <1>2, <1>3, <1>4
  <2>2. Sits(w, 1, CpSpan, 0, d0, h1)
    BY <1>5 DEF Sits
  <2>3. Field(w, 1, CpSpan) = d0
    BY <2>1, <2>2, FieldReads
  <2>4. QED
    BY <2>3
<1>7. Field(w, WideAt, 4) = d1
  <2> HIDE DEF w, h2
  <2>1. l1 \in 0 .. WideAt - 1 /\ d1 \in 0 .. 4 - 1 /\ h2 \in Nat /\ WideAt \in Nat \ {0} /\ 4 \in Nat \ {0}
    BY <1>1, <1>2, <1>3, <1>4
  <2>2. Sits(w, WideAt, 4, l1, d1, h2)
    BY <1>5 DEF Sits
  <2>3. Field(w, WideAt, 4) = d1
    BY <2>1, <2>2, FieldReads
  <2>4. QED
    BY <2>3
<1>8. Field(w, SemanticAt, 4) = d2
  <2> HIDE DEF w, l2, h3
  <2>1. l2 \in 0 .. SemanticAt - 1 /\ d2 \in 0 .. 4 - 1 /\ h3 \in Nat /\ SemanticAt \in Nat \ {0} /\ 4 \in Nat \ {0}
    BY <1>1, <1>2, <1>3, <1>4
  <2>2. Sits(w, SemanticAt, 4, l2, d2, h3)
    BY <1>5 DEF Sits
  <2>3. Field(w, SemanticAt, 4) = d2
    BY <2>1, <2>2, FieldReads
  <2>4. QED
    BY <2>3
<1>9. Field(w, StyleAt, StyleSpan) = d3
  <2> HIDE DEF w, l3, h4
  <2>0. d3 \in 0 .. S - 1
    BY DEF S
  <2>1. l3 \in 0 .. StyleAt - 1 /\ d3 \in 0 .. S - 1 /\ h4 \in Nat /\ StyleAt \in Nat \ {0} /\ S \in Nat \ {0}
    BY <2>0, <1>1, <1>2, <1>3, <1>4
  <2>2. Sits(w, StyleAt, S, l3, d3, h4)
    BY <1>5 DEF Sits
  <2>3. Field(w, StyleAt, S) = d3
    BY <2>1, <2>2, FieldReads
  <2>4. QED
    BY <2>3 DEF S
<1>10. Field(w, StyledAt, 2) = d4
  <2> HIDE DEF w, l4
  <2>1. l4 \in 0 .. StyledAt - 1 /\ d4 \in 0 .. 2 - 1 /\ d5 \in Nat /\ StyledAt \in Nat \ {0} /\ 2 \in Nat \ {0}
    BY <1>1, <1>2, <1>3, <1>4
  <2>2. Sits(w, StyledAt, 2, l4, d4, d5)
    BY <1>5 DEF Sits
  <2>3. Field(w, StyledAt, 2) = d4
    BY <2>1, <2>2, FieldReads
  <2>4. QED
    BY <2>3
<1>11. Field(w, ClusterAt, 2) = d5
  <2> HIDE DEF w, l5
  <2>1. l5 \in 0 .. ClusterAt - 1 /\ d5 \in 0 .. 2 - 1 /\ 0 \in Nat /\ ClusterAt \in Nat \ {0} /\ 2 \in Nat \ {0}
    BY <1>1, <1>2, <1>3, <1>4
  <2>2. Sits(w, ClusterAt, 2, l5, d5, 0)
    BY <1>5 DEF Sits
  <2>3. Field(w, ClusterAt, 2) = d5
    BY <2>1, <2>2, FieldReads
  <2>4. QED
    BY <2>3
<1>12. QED
  BY <1>6, <1>7, <1>8, <1>9, <1>10, <1>11

-----------------------------------------------------------------------------
(* Cells, rows and styles read back.                                       *)

LEMMA BitIs ==
  ASSUME NEW b
  PROVE  Bit(b) \in 0 .. 1 /\ ((Bit(b) = 1) <=> b) /\ ((Bit(b) = 0) <=> ~b)
  BY DEF Bit

LEMMA StyleIdIs ==
  ASSUME NEW s, Hash(s) \in Nat
  PROVE  StyleId(s) \in 0 .. StyleSpan - 1 /\ ((StyleId(s) = 0) <=> (s = Plain))
<1> DEFINE n == StyleSpan - 1
           h == Hash(s)
<1>1. n \in Nat \ {0} /\ h \in Nat /\ StyleSpan = n + 1
  BY AbiAssumption
<1> HIDE DEF n, h
<1>2. h % n \in 0 .. n - 1
  BY <1>1
<1>3. StyleId(s) = IF s = Plain THEN 0 ELSE (h % n) + 1
  BY DEF StyleId, n, h
<1>4. QED
  BY <1>1, <1>2, <1>3

LEMMA PackingReads ==
  ASSUME NEW c \in Cells, Hash(c.style) \in Nat
  PROVE  PackingHolds(c)
<1> DEFINE d0 == IF c.text = <<>> THEN 0 ELSE c.text[1] % CpSpan
           d3 == StyleId(c.style)
           d4 == Bit(c.style # Plain)
           d5 == Bit(Len(c.text) > 1)
           w  == Packed(d0, c.wide, c.semantic, d3, d4, d5)
<1>0. CpSpan \in Nat \ {0}
  BY AbiAssumption
<1>1. c.text \in Seq(1 .. (CpSpan - 1)) /\ c.wide \in 0 .. 3 /\ c.semantic \in 0 .. 2
  BY DEF Cells
<1>2. d0 \in 0 .. CpSpan - 1 /\ ((d0 = 0) <=> (c.text = <<>>))
  <2>1. CASE c.text = <<>>
    BY <2>1, <1>0
  <2>2. CASE c.text # <<>>
    <3>1. c.text[1] \in 1 .. CpSpan - 1
      <4>1. Len(c.text) \in Nat /\ Len(c.text) # 0
        BY <1>1, <2>2, EmptySeq
      <4>2. 1 \in 1 .. Len(c.text)
        BY <4>1
      <4>3. QED
        BY <1>1, <4>2, ElementOfSeq
    <3> DEFINE t == c.text[1]
    <3>2. t \in 1 .. CpSpan - 1 /\ d0 = t % CpSpan
      BY <3>1, <2>2
    <3> HIDE DEF t, d0
    <3>3. t % CpSpan = t
      <4>1. t \in 0 .. CpSpan - 1 /\ t + CpSpan * 0 = t
        BY <3>2, <1>0
      <4>2. (t + CpSpan * 0) % CpSpan = t
        BY <4>1, <1>0, Divides
      <4>3. QED
        BY <4>1, <4>2
    <3>4. QED
      BY <3>2, <3>3, <2>2
  <2>3. QED
    BY <2>1, <2>2
<1>3. d3 \in 0 .. StyleSpan - 1 /\ ((d3 = 0) <=> (c.style = Plain))
  BY StyleIdIs
<1>4. /\ d4 \in 0 .. 1 /\ ((d4 = 1) <=> (c.style # Plain))
      /\ d5 \in 0 .. 1 /\ ((d5 = 1) <=> (Len(c.text) > 1))
  BY DEF Bit
<1>5. PackCell(c) = w
  BY DEF PackCell, Packed
<1> HIDE DEF d0, d3, d4, d5
<1>6. /\ Field(w, 1, CpSpan) = d0 /\ Field(w, WideAt, 4) = c.wide /\ Field(w, SemanticAt, 4) = c.semantic
      /\ Field(w, StyleAt, StyleSpan) = d3 /\ Field(w, StyledAt, 2) = d4 /\ Field(w, ClusterAt, 2) = d5
  BY <1>1, <1>2, <1>3, <1>4, WordReads
<1> HIDE DEF w
<1>7. /\ CellGet(w, "wide") = c.wide /\ CellGet(w, "semantic") = c.semantic /\ CellGet(w, "style id") = d3
      /\ CellGet(w, "styled") = d4 /\ CellGet(w, "cluster") = d5 /\ CellGet(w, "has text") = Bit(d0 # 0)
  BY <1>6 DEF CellGet
<1>8. (Bit(d0 # 0) = 1) <=> (c.text # <<>>)
  BY <1>2 DEF Bit
<1>9. /\ (CellGet(w, "style id") = 0) = (c.style = Plain) /\ (CellGet(w, "styled") = 1) = (c.style # Plain)
      /\ (CellGet(w, "cluster") = 1) = (Len(c.text) > 1) /\ (CellGet(w, "has text") = 1) = (c.text # <<>>)
  <2>1. (CellGet(w, "style id") = 0) = (c.style = Plain)
    BY <1>3, <1>7
  <2>2. (CellGet(w, "styled") = 1) = (c.style # Plain)
    BY <1>4, <1>7
  <2>3. (CellGet(w, "cluster") = 1) = (Len(c.text) > 1)
    <3> DEFINE many == Len(c.text) > 1
    <3>1. many \in BOOLEAN
      OBVIOUS
    <3>2. (CellGet(w, "cluster") = 1) <=> many
      BY <1>4, <1>7
    <3> HIDE DEF many
    <3>3. (CellGet(w, "cluster") = 1) = many
      BY <3>1, <3>2
    <3>4. QED
      BY <3>3 DEF many
  <2>4. (CellGet(w, "has text") = 1) = (c.text # <<>>)
    BY <1>8, <1>7
  <2>5. QED
    BY <2>1, <2>2, <2>3, <2>4
<1>10. QED
  BY <1>5, <1>7, <1>9 DEF PackingHolds

\* Some cell of a row is styled.
Styled(r) == \E i \in DOMAIN r.cells : r.cells[i].style # Plain

LEMMA RowReads ==
  ASSUME NEW r \in ShownRows, NEW dirty
  PROVE  LET w == PackRow(r, dirty) IN
         /\ (RowGet(w, "wrap") = 1) = r.wrap /\ (RowGet(w, "continued") = 1) = r.continued
         /\ RowGet(w, "prompt") = r.prompt /\ (RowGet(w, "styled") = 1) = Styled(r)
<1> DEFINE many == \E i \in DOMAIN r.cells : Len(r.cells[i].text) > 1
           b0 == Bit(r.wrap)
           b1 == Bit(r.continued)
           b2 == Bit(many)
           b3 == Bit(Styled(r))
           p  == r.prompt
           b6 == Bit(dirty)
           w  == PackRow(r, dirty)
<1>1. r.wrap \in BOOLEAN /\ r.continued \in BOOLEAN /\ p \in 0 .. 2
  BY DEF ShownRows
<1>2. /\ b0 \in 0 .. 1 /\ ((b0 = 1) <=> r.wrap) /\ b1 \in 0 .. 1 /\ ((b1 = 1) <=> r.continued)
      /\ b2 \in 0 .. 1 /\ b3 \in 0 .. 1 /\ ((b3 = 1) <=> Styled(r)) /\ b6 \in 0 .. 1
  BY DEF Bit
<1>3. w = b0 + b1 * 2 + b2 * 4 + b3 * 8 + p * 16 + b6 * 64
  BY DEF PackRow, Styled
<1> HIDE DEF b0, b1, b2, b3, p, b6, w
<1>4. /\ Field(w, 1, 2) = b0 /\ Field(w, 2, 2) = b1 /\ Field(w, 8, 2) = b3 /\ Field(w, 16, 4) = p
  BY <1>1, <1>2, <1>3 DEF Field
<1>5. /\ RowGet(w, "wrap") = b0 /\ RowGet(w, "continued") = b1 /\ RowGet(w, "styled") = b3
      /\ RowGet(w, "prompt") = p
  BY <1>4 DEF RowGet
<1>6. QED
  BY <1>1, <1>2, <1>5 DEF w, p, Styled

LEMMA PairJoins ==
  ASSUME NEW a, NEW b
  PROVE  Tail(<< a, b >>) = << b >> /\ << a >> \o << b >> = << a, b >>
<1> DEFINE S == {a, b}
           o == << a >>
           u == << b >>
           v == << a, b >>
           t == Tail(v)
           w == o \o u
<1>1. /\ o \in Seq(S) /\ Len(o) = 1 /\ o[1] = a /\ u \in Seq(S) /\ Len(u) = 1 /\ u[1] = b
      /\ v \in Seq(S) /\ Len(v) = 2 /\ v[1] = a /\ v[2] = b
  OBVIOUS
<1> HIDE DEF S, o, u, v
<1>2. t \in Seq(S) /\ Len(t) = 1 /\ t[1] = b
  <2>1. v # << >>
    BY <1>1, EmptySeq
  <2>2. t \in Seq(S) /\ Len(t) = 1 /\ \A i \in 1 .. Len(t) : t[i] = v[i + 1]
    BY <1>1, <2>1, HeadTailProperties
  <2> HIDE DEF t
  <2>3. QED
    BY <1>1, <2>2
<1>3. w \in Seq(S) /\ Len(w) = 2 /\ w[1] = a /\ w[2] = b
  <2>1. w \in Seq(S) /\ Len(w) = Len(o) + Len(u)
        /\ \A i \in 1 .. Len(o) + Len(u) : w[i] = IF i <= Len(o) THEN o[i] ELSE u[i - Len(o)]
    BY <1>1, ConcatProperties
  <2> HIDE DEF w
  <2>2. QED
    BY <1>1, <2>1
<1> HIDE DEF t, w
<1>4. t = u
  <2>1. \A i \in 1 .. Len(t) : t[i] = u[i]
    BY <1>1, <1>2
  <2>2. QED
    BY <1>1, <1>2, <2>1, SeqEqual
<1>5. w = v
  <2>1. \A i \in 1 .. Len(w) : w[i] = v[i]
    BY <1>1, <1>3
  <2>2. QED
    BY <1>1, <1>3, <2>1, SeqEqual
<1>6. QED
  BY <1>4, <1>5 DEF t, u, v, w, o

LEMMA FourJoin ==
  ASSUME NEW a, NEW b, NEW c, NEW d
  PROVE  Tail(<< a, b, c, d >>) = << b, c, d >> /\ << a >> \o << b, c, d >> = << a, b, c, d >>
<1> DEFINE S == {a, b, c, d}
           u == << b, c, d >>
           v == << a, b, c, d >>
           t == Tail(v)
           w == << a >> \o u
<1>1. /\ << a >> \in Seq(S) /\ u \in Seq(S) /\ Len(u) = 3 /\ u[1] = b /\ u[2] = c /\ u[3] = d
      /\ v \in Seq(S) /\ Len(v) = 4 /\ v[1] = a /\ v[2] = b /\ v[3] = c /\ v[4] = d
      /\ Len(<< a >>) = 1 /\ << a >>[1] = a
  OBVIOUS
<1> HIDE DEF S, u, v
<1>2. /\ t \in Seq(S) /\ Len(t) = 3 /\ t[1] = b /\ t[2] = c /\ t[3] = d
  <2>1. v # << >>
    BY <1>1, EmptySeq
  <2>2. t \in Seq(S) /\ Len(t) = 3 /\ \A i \in 1 .. Len(t) : t[i] = v[i + 1]
    BY <1>1, <2>1, HeadTailProperties
  <2> HIDE DEF t
  <2>3. QED
    BY <1>1, <2>2
<1>3. /\ w \in Seq(S) /\ Len(w) = 4 /\ w[1] = a /\ w[2] = b /\ w[3] = c /\ w[4] = d
  <2> DEFINE o == << a >>
  <2> HIDE DEF o
  <2>1. o \in Seq(S) /\ Len(o) = 1 /\ o[1] = a
    BY <1>1 DEF o
  <2>2. o \o u \in Seq(S) /\ Len(o \o u) = Len(o) + Len(u)
        /\ \A i \in 1 .. Len(o) + Len(u) : (o \o u)[i] = IF i <= Len(o) THEN o[i] ELSE u[i - Len(o)]
    BY <1>1, <2>1, ConcatProperties
  <2> DEFINE z == o \o u
  <2> HIDE DEF z
  <2>3. z \in Seq(S) /\ Len(z) = 4 /\ \A i \in 1 .. 4 : z[i] = IF i <= 1 THEN o[i] ELSE u[i - 1]
    BY <1>1, <2>1, <2>2 DEF z
  <2>4. z[1] = a /\ z[2] = b /\ z[3] = c /\ z[4] = d
    BY <1>1, <2>1, <2>3
  <2>5. QED
    BY <2>3, <2>4 DEF z, o
<1> HIDE DEF t, w
<1>4. t = u
  <2>1. \A i \in 1 .. Len(t) : t[i] = u[i]
    BY <1>1, <1>2
  <2>2. QED
    BY <1>1, <1>2, <2>1, SeqEqual
<1>5. w = v
  <2>1. \A i \in 1 .. Len(w) : w[i] = v[i]
    BY <1>1, <1>3
  <2>2. QED
    BY <1>1, <1>3, <2>1, SeqEqual
<1>6. QED
  BY <1>4, <1>5 DEF t, u, v, w

LEMMA ColorReads ==
  ASSUME NEW c \in Colors
  PROVE  ConvertColor(PackColor(c)) = c
<1>1. CASE c = DefaultColor
  BY <1>1 DEF DefaultColor, PackColor, ConvertColor
<1>2. CASE c \in {"palette"} \X (0 .. 255)
  <2>1. PICK i \in 0 .. 255 : c = <<"palette", i>>
    BY <1>2
  <2>2. Tail(c) = << i >> /\ <<"palette">> \o << i >> = c
    BY <2>1, PairJoins
  <2>3. QED
    BY <2>1, <2>2 DEF PackColor, ConvertColor
<1>3. CASE c \in {"rgb"} \X (0 .. 255) \X (0 .. 255) \X (0 .. 255)
  <2> DEFINE i == c[2]
             j == c[3]
             k == c[4]
  <2>1. c = <<"rgb", i, j, k>>
    BY <1>3
  <2> HIDE DEF i, j, k
  <2>2. Tail(<<"rgb", i, j, k>>) = << i, j, k >> /\ <<"rgb">> \o << i, j, k >> = <<"rgb", i, j, k>>
    BY FourJoin
  <2>3. PackColor(c) = [tag |-> 2, value |-> << i, j, k >>]
    <3>1. c[1] = "rgb" /\ Tail(c) = << i, j, k >>
      BY <2>1, <2>2
    <3>2. QED
      BY <3>1 DEF PackColor
  <2> DEFINE q == << i, j, k >>
             e == PackColor(c)
  <2>4. e.tag = 2 /\ e.value = q
    BY <2>3
  <2>5. <<"rgb">> \o q = c
    BY <2>1, <2>2
  <2> HIDE DEF q, e
  <2>6. ConvertColor(e) = <<"rgb">> \o q
    BY <2>4 DEF ConvertColor
  <2>7. QED
    BY <2>5, <2>6 DEF e
<1>4. QED
  BY <1>1, <1>2, <1>3 DEF Colors

LEMMA StyleReads ==
  ASSUME NEW s \in Styles
  PROVE  ConvertStyle(PackStyle(s)) = s
<1>1. s.fg \in Colors /\ s.bg \in Colors /\ s.line \in Colors
  BY DEF Styles
<1> DEFINE u == PackStyle(s).underline
           t == ConvertStyle(PackStyle(s))
<1>2. (IF u = 0 THEN "none" ELSE Underlines[u]) = s.underline
  <2>1. u = IF s.underline = "none" THEN 0 ELSE CHOOSE k \in 1..5 : Underlines[k] = s.underline
    BY DEF PackStyle
  <2>2. CASE s.underline = "none"
    BY <2>1, <2>2
  <2>3. CASE s.underline # "none"
    <3>1. \E k \in 1 .. 5 : Underlines[k] = s.underline
      <4>1. s.underline \in {"none"} \union {Underlines[k] : k \in 1..5}
        BY DEF Styles
      <4>2. QED
        BY <4>1, <2>3
    <3>2. u \in 1 .. 5 /\ Underlines[u] = s.underline
      BY <2>1, <2>3, <3>1
    <3>3. QED
      BY <3>2
  <2>4. QED
    BY <2>2, <2>3
<1>3. t = [flags |-> s.flags, fg |-> s.fg, bg |-> s.bg, line |-> s.line, underline |-> s.underline]
  <2>1. /\ ConvertColor(PackColor(s.fg)) = s.fg /\ ConvertColor(PackColor(s.bg)) = s.bg
        /\ ConvertColor(PackColor(s.line)) = s.line
    BY <1>1, ColorReads
  <2>2. QED
    BY <2>1, <1>2 DEF ConvertStyle, PackStyle
<1>4. s = [flags |-> s.flags, fg |-> s.fg, bg |-> s.bg, line |-> s.line, underline |-> s.underline]
  BY DEF Styles
<1>5. QED
  BY <1>3, <1>4

-----------------------------------------------------------------------------
(* The view a terminal caches shows what its core shows.                   *)

RowOK(row, cols) ==
  /\ row \in ShownRows /\ Len(row.cells) = cols
  /\ \A x \in 1 .. cols : row.cells[x] \in Cells /\ Hash(row.cells[x].style) \in Nat
ShotOK(c) ==
  /\ c \in Shots /\ c.modes \subseteq Answered /\ Len(c.grid) = c.rows
  /\ \A y \in 1 .. Len(c.grid) : RowOK(c.grid[y], c.cols)
  /\ \A y \in 1 .. Len(c.history) : RowOK(c.history[y], c.cols)
Mirrors(v, c) ==
  /\ v.cols = c.cols /\ v.rows = c.rows /\ v.screen = c.screen /\ v.cursor = c.cursor /\ v.modes = c.modes
  /\ v.grid = c.grid /\ v.history = c.history /\ v.title = c.title /\ v.pwd = c.pwd /\ v.colors = c.colors

LEMMA RowsAsWide ==
  ASSUME NEW rows \in Seq(ShownRows), NEW cols \in Nat, AsWide(rows, cols)
  PROVE  \A y \in 1 .. Len(rows) : RowOK(rows[y], cols)
<1> SUFFICES ASSUME NEW y \in 1 .. Len(rows) PROVE RowOK(rows[y], cols)
  OBVIOUS
<1> DEFINE row == rows[y]
<1>1. row \in ShownRows /\ y \in DOMAIN rows
  BY ElementOfSeq, LenProperties
<1>2. Len(row.cells) = cols /\ \A x \in 1 .. cols : Hash(row.cells[x].style) \in Nat
  BY <1>1 DEF AsWide
<1> HIDE DEF row
<1>3. row.cells \in Seq(Cells)
  BY <1>1 DEF ShownRows
<1>4. \A x \in 1 .. cols : row.cells[x] \in Cells
  BY <1>2, <1>3, ElementOfSeq
<1>5. RowOK(row, cols)
  BY <1>1, <1>2, <1>4 DEF RowOK
<1>6. QED
  BY <1>5 DEF row

LEMMA ContentsOK ==
  ASSUME NEW c \in Contents
  PROVE  ShotOK(c)
<1>1. /\ c \in Shots /\ c.modes \subseteq Answered /\ Len(c.grid) = c.rows
      /\ AsWide(c.grid, c.cols) /\ AsWide(c.history, c.cols)
  BY AbiAssumption
<1>2. c.grid \in Seq(ShownRows) /\ c.history \in Seq(ShownRows) /\ c.cols \in Nat
  BY <1>1 DEF Shots
<1>3. /\ \A y \in 1 .. Len(c.grid) : RowOK(c.grid[y], c.cols)
      /\ \A y \in 1 .. Len(c.history) : RowOK(c.history[y], c.cols)
  BY <1>1, <1>2, RowsAsWide
<1>4. QED
  BY <1>1, <1>3 DEF ShotOK

LEMMA FillShows ==
  ASSUME NEW h, h.core \in Shots
  PROVE  Mirrors(Fill(h), h.core)
<1> DEFINE c == h.core
           v == Fill(h)
<1>1. \A f \in DOMAIN c : f # "damage" => v[f] = c[f]
  BY DEF Fill
<1>2. DOMAIN c = {"cols", "rows", "screen", "cursor", "modes", "grid", "history", "title", "pwd", "colors"}
  BY DEF Shots
<1> HIDE DEF v, c
<1>3. Mirrors(v, c)
  BY <1>1, <1>2 DEF Mirrors
<1>4. QED
  BY <1>3 DEF c, v

LEMMA RowsAt ==
  ASSUME NEW v, NEW c, ShotOK(c), Mirrors(v, c), NEW y \in Nat
  PROVE  /\ y < Len(c.history) => RowAt(v, y) = << c.history[y + 1] >> /\ RowOK(c.history[y + 1], c.cols)
         /\ y >= Len(c.history) /\ y < Len(c.history) + c.rows =>
              RowAt(v, y) = << c.grid[y - Len(c.history) + 1] >> /\ RowOK(c.grid[y - Len(c.history) + 1], c.cols)
         /\ y >= Len(c.history) + c.rows => RowAt(v, y) = << >>
<1> DEFINE below == Len(c.history)
           high == Len(c.grid)
<1>1. below \in Nat /\ high = c.rows /\ high \in Nat /\ c.rows \in Nat
  BY DEF ShotOK, Shots
<1>2. v.history = c.history /\ v.grid = c.grid
  BY DEF Mirrors
<1>3. /\ \A k \in 1 .. high : RowOK(c.grid[k], c.cols)
      /\ \A k \in 1 .. below : RowOK(c.history[k], c.cols)
  BY DEF ShotOK
<1>4. RowAt(v, y) = CASE y < below -> << c.history[y + 1] >>
                      [] y >= below /\ y - below < high -> << c.grid[y - below + 1] >>
                      [] OTHER -> << >>
  BY <1>2 DEF RowAt
<1> HIDE DEF below, high
<1>5. ASSUME y < below PROVE RowAt(v, y) = << c.history[y + 1] >> /\ RowOK(c.history[y + 1], c.cols)
  <2>1. y + 1 \in 1 .. below
    BY <1>1, <1>5
  <2>2. QED
    BY <1>1, <1>3, <1>4, <1>5, <2>1
<1>6. ASSUME y >= below, y < below + c.rows
      PROVE  RowAt(v, y) = << c.grid[y - below + 1] >> /\ RowOK(c.grid[y - below + 1], c.cols)
  <2>1. y - below + 1 \in 1 .. high /\ ~(y < below) /\ y - below < high
    BY <1>1, <1>6
  <2>2. QED
    BY <1>3, <1>4, <1>6, <2>1
<1>7. ASSUME y >= below + c.rows PROVE RowAt(v, y) = << >>
  <2>1. ~(y < below) /\ ~(y - below < high)
    BY <1>1, <1>7
  <2>2. QED
    BY <1>4, <2>1
<1>8. QED
  BY <1>5, <1>6, <1>7 DEF below

-----------------------------------------------------------------------------
(* What a reader reads.                                                    *)

LEMMA Answers ==
  ASSUME NEW a, NEW b
  PROVE  /\ Fine(a) # Invalid /\ Fine(a)[2] = a /\ Fine(a)[1] = "SUCCESS"
         /\ ((Fine(a) = Fine(b)) <=> (a = b))
         /\ Fine(a) # <<"NO_VALUE">> /\ <<"NO_VALUE">> # Invalid
  BY DEF Fine, Invalid

\* A cluster without a NUL is read whole: after each codepoint what is kept is
\* what there is so far.
LEMMA NoZeroKeeps ==
  ASSUME NEW text \in Seq(Nat \ {0})
  PROVE  NoZero(text) = text
<1> DEFINE m        == Len(text)
           Built(f) == f = [n \in 0 .. m |-> IF n = 0 THEN << >> ELSE
                                 IF text[n] = 0 THEN f[n - 1] ELSE Append(f[n - 1], text[n])]
           so(n)    == SubSeq(text, 1, n)
           whole    == [n \in 0 .. m |-> so(n)]
           x        == CHOOSE f : Built(f)
<1>1. m \in Nat /\ \A n \in 1 .. m : text[n] \in Nat /\ text[n] # 0
  BY ElementOfSeq, LenProperties
<1>2. NoZero(text) = x[m]
  BY DEF NoZero
<1>3. so(0) = << >> /\ so(m) = text
  <2>1. so(0) = << >>
    BY SubSeqEmpty
  <2>2. so(m) = text
    BY SubSeqFull
  <2>3. QED
    BY <2>1, <2>2
<1>4. \A n \in 1 .. m : so(n) = Append(so(n - 1), text[n])
  <2>1. TAKE n \in 1 .. m
  <2> DEFINE s == so(n - 1)
             e == text[n]
  <2>2. so(n) = s \o << e >>
    <3>1. 1 \in 1 .. m /\ n \in 1 .. Len(text) /\ 1 \in 1 .. Len(text)
      BY <1>1
    <3>2. QED
      BY <3>1, SubSeqRecursiveSecond
  <2>3. s \in Seq(Nat) /\ e \in Nat
    <3>1. \A i \in 1 .. n - 1 : text[i] \in Nat
      BY <1>1
    <3>2. n - 1 \in Int
      BY <1>1
    <3>3. QED
      BY <3>1, <3>2, <1>1, SubSeqProperties
  <2> HIDE DEF s, e, so
  <2>4. Append(s, e) = s \o << e >>
    BY <2>3, AppendIsConcat
  <2>5. QED
    BY <2>2, <2>4 DEF s, e
<1> HIDE DEF so
<1>5. Built(whole)
  <2> DEFINE other == [n \in 0 .. m |-> IF n = 0 THEN << >> ELSE
                         IF text[n] = 0 THEN whole[n - 1] ELSE Append(whole[n - 1], text[n])]
  <2>1. ASSUME NEW n \in 0 .. m PROVE whole[n] = other[n]
    <3>1. CASE n = 0
      BY <3>1, <1>3
    <3>2. CASE n \in 1 .. m
      <4>1. n - 1 \in 0 .. m
        BY <3>2, <1>1
      <4>2. other[n] = Append(whole[n - 1], text[n]) /\ whole[n - 1] = so(n - 1) /\ whole[n] = so(n)
        BY <3>2, <4>1, <1>1
      <4>3. QED
        BY <4>2, <3>2, <1>4
    <3>3. n = 0 \/ n \in 1 .. m
      BY <1>1
    <3> HIDE DEF whole, other
    <3>4. QED
      BY <3>1, <3>2, <3>3
  <2>2. whole = other
    <3>1. whole = [n \in 0 .. m |-> whole[n]] /\ other = [n \in 0 .. m |-> other[n]]
      OBVIOUS
    <3>2. QED
      BY <3>1, <2>1
  <2>3. QED
    BY <2>2
<1>6. Built(x)
  <2> HIDE DEF Built, whole
  <2>1. QED
    BY <1>5
<1> HIDE DEF x
<1>7. /\ x[0] = << >>
      /\ \A n \in 1 .. m : x[n] = IF text[n] = 0 THEN x[n - 1] ELSE Append(x[n - 1], text[n])
  <2>1. \A n \in 0 .. m : x[n] = IF n = 0 THEN << >> ELSE
                            IF text[n] = 0 THEN x[n - 1] ELSE Append(x[n - 1], text[n])
    BY <1>6, Zenon
  <2>2. QED
    BY <2>1, <1>1
<1> DEFINE Same == {n \in 0 .. m : x[n] = so(n)}
<1>8. 0 \in Same
  BY <1>1, <1>3, <1>7
<1>9. ASSUME NEW n \in 1 .. m, n - 1 \in Same PROVE n \in Same
  <2>1. x[n] = Append(x[n - 1], text[n]) /\ x[n - 1] = so(n - 1)
    BY <1>1, <1>7, <1>9
  <2>2. so(n) = Append(so(n - 1), text[n])
    BY <1>4
  <2>3. n \in 0 .. m
    BY <1>1
  <2>4. QED
    BY <2>1, <2>2, <2>3
<1>10. \A n \in 0 .. m : n \in Same
  <2> HIDE DEF Same, m
  <2>1. QED
    BY <1>1, <1>8, <1>9, Climbs
<1>11. x[m] = so(m)
  BY <1>1, <1>10
<1>12. QED
  BY <1>2, <1>3, <1>11

\* A reference to a cell the view has answers for that cell and for its row.
Stands(v, r, row, cell) ==
  /\ RowAt(v, r.y) = << row >> /\ r.x \in Nat /\ r.x < Len(row.cells) /\ row \in ShownRows
  /\ cell = row.cells[r.x + 1] /\ cell \in Cells /\ Hash(cell.style) \in Nat

LEMMA RefReads ==
  ASSUME NEW v, NEW r, NEW row, NEW cell, Stands(v, r, row, cell)
  PROVE  /\ CellThere(<< v >>, r) = << cell >>
         /\ RefCell(<< v >>, r) = Fine(PackCell(cell)) /\ RefStyle(<< v >>, r) = Fine(PackStyle(cell.style))
         /\ RefRow(<< v >>, r) = Fine(PackRow(row, DirtyAt(v, r.y - Len(v.history))))
<1> DEFINE c == << v >>
<1>1. c # << >> /\ c[1] = v
  OBVIOUS
<1> HIDE DEF c
<1>2. RowThere(c, r) = << row >>
  BY <1>1 DEF RowThere, Stands
<1>3. CellThere(c, r) = << cell >>
  BY <1>2 DEF CellThere, Nth, Stands
<1>4. RefCell(c, r) = Fine(PackCell(cell)) /\ RefStyle(c, r) = Fine(PackStyle(cell.style))
  BY <1>3 DEF RefCell, RefStyle, Told
<1>5. RefRow(c, r) = Fine(PackRow(row, DirtyAt(v, r.y - Len(v.history))))
  BY <1>1, <1>2 DEF RefRow, Told
<1>6. QED
  BY <1>3, <1>4, <1>5 DEF c

LEMMA TextReads ==
  ASSUME NEW c, NEW r, NEW cell \in Cells, CellThere(c, r) = << cell >>
  PROVE  ReadText(c, r) = cell.text
<1> DEFINE text == cell.text
           first == RefGraphemes(c, r, Inline)
<1>0. Inline \in Nat /\ CpSpan \in Nat
  BY AbiAssumption
<1>1. text \in Seq(Nat \ {0}) /\ Len(text) \in Nat
  <2>1. text \in Seq(1 .. (CpSpan - 1))
    BY DEF Cells
  <2>2. 1 .. (CpSpan - 1) \subseteq Nat \ {0}
    BY <1>0
  <2> HIDE DEF text
  <2>3. QED
    BY <2>1, <2>2, SeqMonotonic, LenProperties
<1>2. \A room \in Nat : RefGraphemes(c, r, room) =
        IF room < Len(text) THEN <<"OUT_OF_SPACE", Len(text)>> ELSE Fine(text)
  BY DEF RefGraphemes, Cluster
<1> HIDE DEF text
<1>3. Retry(c, r, first) = Fine(text)
  <2>1. CASE Inline < Len(text)
    <3>1. first = <<"OUT_OF_SPACE", Len(text)>>
      BY <1>0, <1>2, <2>1
    <3> HIDE DEF first
    <3>2. Retry(c, r, first) = RefGraphemes(c, r, Len(text))
      BY <3>1 DEF Retry
    <3>3. QED
      BY <1>1, <1>2, <3>2
  <2>2. CASE ~(Inline < Len(text))
    <3>1. first = Fine(text)
      BY <1>0, <1>2, <2>2
    <3>2. first[1] = "SUCCESS"
      BY <3>1, Answers
    <3> HIDE DEF first
    <3>3. QED
      BY <3>1, <3>2 DEF Retry
  <2>3. QED
    BY <2>1, <2>2
<1>4. ReadText(c, r) = NoZero(text)
  <2>1. Fine(text)[2] = text
    BY Answers
  <2>2. QED
    BY <1>3, <2>1 DEF ReadText, first
<1>5. QED
  BY <1>1, <1>4, NoZeroKeeps DEF text

LEMMA CellReads ==
  ASSUME NEW v, NEW r, NEW row, NEW cell, Stands(v, r, row, cell)
  PROVE  ReadCellAt(<< v >>, Fine(r)) = Fine(cell)
<1> DEFINE c == << v >>
           w == PackCell(cell)
           p == PackStyle(cell.style)
<1>1. cell \in Cells /\ Hash(cell.style) \in Nat
  BY DEF Stands
<1>2. CellThere(c, r) = << cell >> /\ RefCell(c, r) = Fine(w) /\ RefStyle(c, r) = Fine(p)
  BY RefReads
<1>3. CellGet(w, "wide") = cell.wide /\ CellGet(w, "semantic") = cell.semantic
  BY <1>1, PackingReads DEF PackingHolds
<1>4. cell.style \in Styles
  BY <1>1 DEF Cells
<1>5. ConvertStyle(p) = cell.style
  BY <1>4, StyleReads
<1>6. ReadText(c, r) = cell.text
  BY <1>1, <1>2, TextReads
<1> HIDE DEF c, w, p
<1>7. Fine(r) # Invalid /\ Fine(r)[2] = r /\ Fine(w)[2] = w /\ Fine(p)[2] = p
  BY Answers
<1>8. ReadCellAt(c, Fine(r)) =
        Fine([text |-> cell.text, wide |-> cell.wide, semantic |-> cell.semantic, style |-> cell.style])
  BY <1>2, <1>3, <1>5, <1>6, <1>7 DEF ReadCellAt
<1>9. cell = [text |-> cell.text, wide |-> cell.wide, semantic |-> cell.semantic, style |-> cell.style]
  BY <1>1 DEF Cells
<1>10. QED
  BY <1>8, <1>9 DEF c


LEMMA RefsMint ==
  ASSUME NEW v, NEW c, ShotOK(c), Mirrors(v, c), NEW tag \in {"active", "viewport", "screen", "history"},
         NEW x \in Nat, NEW y \in Nat, x < c.cols,
         NEW at, at = IF tag \in {"active", "viewport"} THEN Len(c.history) + y ELSE y,
         at < Len(c.history) + c.rows
  PROVE  GridRef(v, tag, x, y) = IF at <= MaxIndex THEN Fine([x |-> x, y |-> at]) ELSE Invalid
<1>1. v.history = c.history /\ v.rows = c.rows /\ v.cols = c.cols
  BY DEF Mirrors
<1>2. QED
  BY <1>1 DEF GridRef

\* Answers that are all fine put together what was asked for.
LEMMA AllFine ==
  ASSUME NEW S, NEW s \in Seq(S), NEW n \in Nat, n = Len(s), NEW e, DOMAIN e = 1 .. n,
         \A i \in 1 .. n : e[i] = Fine(s[i])
  PROVE  ~Failed(e) /\ Values(e) = s
<1>1. ~Failed(e)
  BY Answers DEF Failed
<1>2. Values(e) = [i \in 1 .. n |-> s[i]]
  <2>1. \A i \in 1 .. n : e[i][2] = s[i]
    BY Answers
  <2>2. QED
    BY <2>1 DEF Values
<1>3. s = [i \in 1 .. n |-> s[i]]
  BY LenProperties
<1>4. QED
  BY <1>1, <1>2, <1>3

LEMMA RowReadsBack ==
  ASSUME NEW v, NEW c, ShotOK(c), Mirrors(v, c), NEW tag \in {"active", "history"}, NEW y \in Nat,
         NEW at \in Nat, at = IF tag = "active" THEN Len(c.history) + y ELSE y,
         at < Len(c.history) + c.rows,
         NEW row, RowAt(v, at) = << row >>, RowOK(row, c.cols)
  PROVE  ReadRow(<< v >>, tag, y) = IF at <= MaxIndex THEN Fine(row) ELSE Invalid
<1> DEFINE k     == << v >>
           cells == [x \in 1 .. c.cols |-> ReadCellAt(k, GridRef(v, tag, x - 1, y))]
           first == GridRef(v, tag, 0, y)
           w     == IF first = Invalid THEN Invalid ELSE RefRow(k, first[2])
           ref(x) == [x |-> x, y |-> at]
<1>1. k[1] = v /\ v.cols = c.cols /\ c.cols \in Nat \ {0} /\ MaxIndex \in Nat
  BY AbiAssumption DEF Mirrors, ShotOK, Shots
<1>2. ReadRow(k, tag, y) = RowFrom(w, cells)
  BY <1>1 DEF ReadRow
<1>3. \A x \in 0 .. c.cols - 1 : GridRef(v, tag, x, y) = IF at <= MaxIndex THEN Fine(ref(x)) ELSE Invalid
  <2>1. TAKE x \in 0 .. c.cols - 1
  <2>2. x \in Nat /\ x < c.cols
    BY <1>1
  <2>3. tag \in {"active", "viewport", "screen", "history"}
        /\ at = IF tag \in {"active", "viewport"} THEN Len(c.history) + y ELSE y
    OBVIOUS
  <2>4. QED
    BY <2>2, <2>3, RefsMint
<1>4. first = IF at <= MaxIndex THEN Fine(ref(0)) ELSE Invalid
  <2>1. 0 \in 0 .. c.cols - 1
    BY <1>1
  <2> HIDE DEF ref
  <2>2. QED
    BY <1>3, <2>1
<1>5. ASSUME ~(at <= MaxIndex) PROVE RowFrom(w, cells) = Invalid
  BY <1>4, <1>5 DEF RowFrom
<1>6. ASSUME at <= MaxIndex PROVE RowFrom(w, cells) = Fine(row)
  <2>1. row \in ShownRows /\ Len(row.cells) = c.cols /\ row.cells \in Seq(Cells)
        /\ \A x \in 1 .. c.cols : row.cells[x] \in Cells /\ Hash(row.cells[x].style) \in Nat
    BY DEF RowOK, ShownRows
  <2>2. \A x \in 1 .. c.cols : Stands(v, ref(x - 1), row, row.cells[x])
    <3>1. TAKE x \in 1 .. c.cols
    <3> DEFINE r == ref(x - 1)
    <3>2. r.x = x - 1 /\ r.y = at /\ x - 1 \in Nat /\ x - 1 < c.cols /\ (x - 1) + 1 = x
      BY <1>1
    <3> HIDE DEF r
    <3>3. Stands(v, r, row, row.cells[x])
      BY <2>1, <3>2 DEF Stands
    <3>4. QED
      BY <3>3 DEF r
  <2>3. \A x \in 1 .. c.cols : cells[x] = Fine(row.cells[x])
    <3>1. TAKE x \in 1 .. c.cols
    <3> DEFINE r == ref(x - 1)
               cell == row.cells[x]
    <3>2. x - 1 \in 0 .. c.cols - 1
      BY <1>1
    <3>3. GridRef(v, tag, x - 1, y) = Fine(r)
      BY <1>3, <1>6, <3>2
    <3>4. Stands(v, r, row, cell)
      BY <2>2
    <3> HIDE DEF r, cell
    <3>5. ReadCellAt(k, Fine(r)) = Fine(cell)
      BY <3>4, CellReads
    <3>6. QED
      BY <3>3, <3>5 DEF cell
  <2>4. ~Failed(cells) /\ Values(cells) = row.cells
    <3>1. DOMAIN cells = 1 .. c.cols
      OBVIOUS
    <3> HIDE DEF cells
    <3>2. QED
      BY <1>1, <2>1, <2>3, <3>1, AllFine
  <2> DEFINE dirty == DirtyAt(v, at - Len(v.history))
             p == PackRow(row, dirty)
  <2>5. w = Fine(p)
    <3> DEFINE r == ref(0)
    <3>1. Stands(v, r, row, row.cells[1])
      <4>1. 1 \in 1 .. c.cols /\ 1 - 1 = 0
        BY <1>1
      <4>2. Stands(v, ref(1 - 1), row, row.cells[1])
        BY <2>2, <4>1
      <4>3. QED
        BY <4>1, <4>2
    <3>2. r.y = at
      OBVIOUS
    <3> HIDE DEF r
    <3>3. RefRow(k, r) = Fine(p)
      BY <3>1, <3>2, RefReads
    <3>4. first = Fine(r) /\ Fine(r) # Invalid /\ Fine(r)[2] = r
      BY <1>4, <1>6, Answers DEF r
    <3> HIDE DEF first, p
    <3>5. QED
      BY <3>3, <3>4
  <2>6. /\ (RowGet(p, "wrap") = 1) = row.wrap /\ (RowGet(p, "continued") = 1) = row.continued
        /\ RowGet(p, "prompt") = row.prompt
    BY <2>1, RowReads
  <2> HIDE DEF p, w, cells
  <2>7. w # Invalid /\ w[2] = p
    BY <2>5, Answers
  <2>8. RowFrom(w, cells) = Fine([wrap |-> row.wrap, continued |-> row.continued,
                                  prompt |-> row.prompt, cells |-> row.cells])
    BY <2>4, <2>6, <2>7 DEF RowFrom
  <2>9. row = [wrap |-> row.wrap, continued |-> row.continued, prompt |-> row.prompt, cells |-> row.cells]
    BY <2>1 DEF ShownRows
  <2>10. QED
    BY <2>8, <2>9
<1>7. QED
  BY <1>2, <1>5, <1>6

\* The questions of the terminal itself.
LEMMA TerminalReads ==
  ASSUME NEW v, NEW c, ShotOK(c), Mirrors(v, c)
  PROVE  /\ TerminalGet(v, "cols") = Fine(c.cols) /\ TerminalGet(v, "rows") = Fine(c.rows)
         /\ TerminalGet(v, "screen") = Fine(c.screen) /\ TerminalGet(v, "title") = Fine(c.title)
         /\ TerminalGet(v, "pwd") = Fine(c.pwd)
         /\ Caret(TerminalGet(v, "cursor")[2]) = c.cursor
         /\ [f \in {"foreground", "background", "caret", "palette"} |-> Colour(TerminalGet(v, f))] = c.colors
         /\ {m \in Answered : ModeGet(v, m) = Fine(TRUE)} = c.modes
<1>1. /\ v.cols = c.cols /\ v.rows = c.rows /\ v.screen = c.screen /\ v.cursor = c.cursor /\ v.modes = c.modes
      /\ v.title = c.title /\ v.pwd = c.pwd /\ v.colors = c.colors
  BY DEF Mirrors
<1>2. c \in Shots /\ c.modes \subseteq Answered
  BY DEF ShotOK
<1>3. /\ TerminalGet(v, "cols") = Fine(c.cols) /\ TerminalGet(v, "rows") = Fine(c.rows)
      /\ TerminalGet(v, "screen") = Fine(c.screen) /\ TerminalGet(v, "title") = Fine(c.title)
      /\ TerminalGet(v, "pwd") = Fine(c.pwd)
  BY <1>1 DEF TerminalGet
<1>4. Caret(TerminalGet(v, "cursor")[2]) = c.cursor
  <2> DEFINE q  == c.cursor
             p  == PackStyle(q.style)
             q2 == [q EXCEPT !.style = PackStyle(@)]
  <2>1. q = [x |-> q.x, y |-> q.y, pending_wrap |-> q.pending_wrap, visible |-> q.visible, style |-> q.style]
        /\ q.style \in Styles
    BY <1>2 DEF Shots
  <2>2. TerminalGet(v, "cursor") = Fine(q2)
    BY <1>1 DEF TerminalGet
  <2>3. ConvertStyle(p) = q.style
    BY <2>1, StyleReads
  <2> HIDE DEF q, p
  <2>4. q2 = [x |-> q.x, y |-> q.y, pending_wrap |-> q.pending_wrap, visible |-> q.visible, style |-> p]
    BY <2>1 DEF p
  <2>5. TerminalGet(v, "cursor")[2] = q2
    BY <2>2, Answers
  <2> HIDE DEF q2
  <2>6. Caret(q2) = [x |-> q.x, y |-> q.y, pending_wrap |-> q.pending_wrap, visible |-> q.visible,
                     style |-> ConvertStyle(p)]
    BY <2>4 DEF Caret
  <2>7. QED
    BY <2>1, <2>3, <2>5, <2>6 DEF q
<1>5. [f \in {"foreground", "background", "caret", "palette"} |-> Colour(TerminalGet(v, f))] = c.colors
  <2> DEFINE D == {"foreground", "background", "caret", "palette"}
             k == c.colors
  <2>1. k = [f \in D |-> k[f]]
    BY <1>2 DEF Shots
  <2>2. ASSUME NEW f \in D PROVE Colour(TerminalGet(v, f)) = k[f]
    <3>1. CASE f = "palette"
      <4>1. TerminalGet(v, f) = Fine(k[f])
        BY <1>1, <3>1 DEF TerminalGet
      <4>2. QED
        BY <4>1, Answers DEF Colour
    <3>2. CASE f # "palette"
      <4>1. TerminalGet(v, f) = IF k[f] = << >> THEN <<"NO_VALUE">> ELSE Fine(k[f])
        BY <1>1, <3>2 DEF TerminalGet
      <4>2. QED
        BY <4>1, Answers DEF Colour
    <3>3. QED
      BY <3>1, <3>2
  <2> HIDE DEF k
  <2>3. [f \in D |-> Colour(TerminalGet(v, f))] = [f \in D |-> k[f]]
    BY <2>2
  <2>4. QED
    BY <2>1, <2>3 DEF k
<1>6. {m \in Answered : ModeGet(v, m) = Fine(TRUE)} = c.modes
  <2>1. ASSUME NEW m \in Answered PROVE ModeGet(v, m) = Fine(m \in c.modes)
    <3>1. CASE m \in {"dec"} \X DecAnswered
      <4>1. m[1] = "dec" /\ m[2] \in DecAnswered
        BY <3>1
      <4>2. QED
        BY <4>1, <1>1 DEF ModeGet
    <3>2. CASE m \in {"ansi"} \X AnsiAnswered
      <4>1. m[1] = "ansi" /\ m[2] \in AnsiAnswered
        BY <3>2
      <4>2. QED
        BY <4>1, <1>1 DEF ModeGet
    <3>3. QED
      BY <3>1, <3>2 DEF Answered
  <2>2. \A m \in Answered : (ModeGet(v, m) = Fine(TRUE)) <=> m \in c.modes
    <3>1. TAKE m \in Answered
    <3>2. (Fine(m \in c.modes) = Fine(TRUE)) <=> ((m \in c.modes) = TRUE)
      BY Answers
    <3>3. QED
      BY <2>1, <3>2
  <2>3. QED
    BY <1>2, <2>2
<1>7. QED
  BY <1>3, <1>4, <1>5, <1>6

\* A reader's snapshot is the core's while a reference can name every row, and
\* an error when the last row has no name.
LEMMA SnapshotReads ==
  ASSUME NEW v, NEW c, ShotOK(c), Mirrors(v, c)
  PROVE  ReadSnapshot(<< v >>) = IF Len(c.history) + c.rows <= MaxIndex + 1 THEN Fine(c) ELSE Invalid
<1> DEFINE k       == << v >>
           old     == Len(c.history)
           rows    == c.rows
           grid    == [y \in 1 .. rows |-> ReadRow(k, "active", y - 1)]
           history == [y \in 1 .. old |-> ReadRow(k, "history", y - 1)]
<1>1. k[1] = v /\ v.rows = c.rows /\ v.history = c.history
  BY DEF Mirrors
<1>2. /\ c \in Shots /\ Len(c.grid) = rows /\ rows \in Nat \ {0} /\ old \in Nat
      /\ c.grid \in Seq(ShownRows) /\ c.history \in Seq(ShownRows) /\ MaxIndex \in Nat
  BY AbiAssumption DEF ShotOK, Shots
<1>3. ReadSnapshot(k) = SnapshotFrom(v, grid, history)
  BY <1>1 DEF ReadSnapshot
<1>4. \A y \in 1 .. rows : grid[y] = IF old + y - 1 <= MaxIndex THEN Fine(c.grid[y]) ELSE Invalid
  <2>1. TAKE y \in 1 .. rows
  <2> DEFINE at == old + (y - 1)
  <2>2. at \in Nat /\ at >= old /\ at < old + rows /\ at - old + 1 = y /\ y - 1 \in Nat
    BY <1>2
  <2>3. RowAt(v, at) = << c.grid[y] >> /\ RowOK(c.grid[y], c.cols)
    <3>1. at >= Len(c.history) /\ at < Len(c.history) + c.rows /\ at - Len(c.history) + 1 = y
      BY <2>2
    <3> HIDE DEF at
    <3>2. RowAt(v, at) = << c.grid[at - Len(c.history) + 1] >> /\ RowOK(c.grid[at - Len(c.history) + 1], c.cols)
      BY <2>2, <3>1, RowsAt
    <3>3. QED
      BY <3>1, <3>2
  <2>4. at = IF "active" = "active" THEN Len(c.history) + (y - 1) ELSE y - 1
    OBVIOUS
  <2> DEFINE row == c.grid[y]
  <2> HIDE DEF row, at
  <2>5. ReadRow(k, "active", y - 1) = IF at <= MaxIndex THEN Fine(row) ELSE Invalid
    <3>1. at < Len(c.history) + c.rows
      BY <2>2
    <3>2. QED
      BY <2>2, <2>3, <2>4, <3>1, RowReadsBack DEF row
  <2>6. at = old + y - 1
    BY <1>2 DEF at
  <2>7. QED
    BY <2>5, <2>6 DEF row
<1>5. \A y \in 1 .. old : history[y] = IF y - 1 <= MaxIndex THEN Fine(c.history[y]) ELSE Invalid
  <2>1. TAKE y \in 1 .. old
  <2> DEFINE at == y - 1
  <2>2. at \in Nat /\ at < old /\ at + 1 = y /\ at < old + rows
    BY <1>2
  <2> HIDE DEF at
  <2>3. RowAt(v, at) = << c.history[y] >> /\ RowOK(c.history[y], c.cols)
    BY <2>2, RowsAt
  <2>4. at = IF "history" = "active" THEN Len(c.history) + at ELSE at
    OBVIOUS
  <2>5. ReadRow(k, "history", at) = IF at <= MaxIndex THEN Fine(c.history[y]) ELSE Invalid
    BY <2>2, <2>3, <2>4, RowReadsBack
  <2>6. QED
    BY <2>5 DEF at
<1>6. ASSUME ~(old + rows <= MaxIndex + 1) PROVE SnapshotFrom(v, grid, history) = Invalid
  <2>1. rows \in 1 .. rows /\ ~(old + rows - 1 <= MaxIndex)
    BY <1>2, <1>6
  <2>2. rows \in DOMAIN grid /\ grid[rows] = Invalid
    BY <1>4, <2>1
  <2> HIDE DEF grid, history
  <2>3. Failed(grid)
    BY <2>2 DEF Failed
  <2>4. QED
    BY <2>3 DEF SnapshotFrom
<1>7. ASSUME old + rows <= MaxIndex + 1 PROVE SnapshotFrom(v, grid, history) = Fine(c)
  <2>1. ~Failed(grid) /\ Values(grid) = c.grid
    <3>1. \A y \in 1 .. rows : grid[y] = Fine(c.grid[y])
      <4>1. \A y \in 1 .. rows : old + y - 1 <= MaxIndex
        BY <1>2, <1>7
      <4> HIDE DEF grid
      <4>2. QED
        BY <1>4, <4>1
    <3>2. DOMAIN grid = 1 .. rows
      OBVIOUS
    <3> HIDE DEF grid, rows
    <3>3. QED
      BY <1>2, <3>1, <3>2, AllFine
  <2>2. ~Failed(history) /\ Values(history) = c.history
    <3>1. \A y \in 1 .. old : history[y] = Fine(c.history[y])
      <4>1. \A y \in 1 .. old : y - 1 <= MaxIndex
        BY <1>2, <1>7
      <4> HIDE DEF history
      <4>2. QED
        BY <1>5, <4>1
    <3>2. DOMAIN history = 1 .. old /\ old = Len(c.history)
      OBVIOUS
    <3> HIDE DEF history, old
    <3>3. QED
      BY <1>2, <3>1, <3>2, AllFine
  <2> HIDE DEF grid, history
  <2> DEFINE colors == [f \in {"foreground", "background", "caret", "palette"} |-> Colour(TerminalGet(v, f))]
             modes  == {m \in Answered : ModeGet(v, m) = Fine(TRUE)}
             cursor == Caret(TerminalGet(v, "cursor")[2])
  <2>3. /\ TerminalGet(v, "cols")[2] = c.cols /\ TerminalGet(v, "rows")[2] = c.rows
        /\ TerminalGet(v, "screen")[2] = c.screen /\ TerminalGet(v, "title")[2] = c.title
        /\ TerminalGet(v, "pwd")[2] = c.pwd /\ cursor = c.cursor /\ colors = c.colors /\ modes = c.modes
    <3>1. /\ TerminalGet(v, "cols") = Fine(c.cols) /\ TerminalGet(v, "rows") = Fine(c.rows)
          /\ TerminalGet(v, "screen") = Fine(c.screen) /\ TerminalGet(v, "title") = Fine(c.title)
          /\ TerminalGet(v, "pwd") = Fine(c.pwd)
          /\ cursor = c.cursor /\ colors = c.colors /\ modes = c.modes
      BY TerminalReads
    <3>2. /\ Fine(c.cols)[2] = c.cols /\ Fine(c.rows)[2] = c.rows /\ Fine(c.screen)[2] = c.screen
          /\ Fine(c.title)[2] = c.title /\ Fine(c.pwd)[2] = c.pwd
      BY Answers
    <3> HIDE DEF cursor, colors, modes
    <3>3. QED
      BY <3>1, <3>2
  <2>4. SnapshotFrom(v, grid, history) =
          Fine([cols |-> TerminalGet(v, "cols")[2], rows |-> TerminalGet(v, "rows")[2],
                screen |-> TerminalGet(v, "screen")[2], cursor |-> cursor, modes |-> modes,
                grid |-> Values(grid), history |-> Values(history), title |-> TerminalGet(v, "title")[2],
                pwd |-> TerminalGet(v, "pwd")[2], colors |-> colors])
    BY <2>1, <2>2 DEF SnapshotFrom
  <2> HIDE DEF colors, modes, cursor
  <2>5. c = [cols |-> c.cols, rows |-> c.rows, screen |-> c.screen, cursor |-> c.cursor, modes |-> c.modes,
             grid |-> c.grid, history |-> c.history, title |-> c.title, pwd |-> c.pwd, colors |-> c.colors]
    BY <1>2 DEF Shots
  <2>6. QED
    BY <2>1, <2>2, <2>3, <2>4, <2>5
<1>8. QED
  BY <1>3, <1>6, <1>7

-----------------------------------------------------------------------------
(* Snapshots that compare as equal are equal.                              *)

LEMMA ApartTells ==
  ASSUME NEW path, NEW a, NEW b
  PROVE  (Apart(path, a, b) = {}) <=> (\A f \in DOMAIN a : a[f] = b[f])
  BY DEF Apart

LEMMA CellsTell ==
  ASSUME NEW path, NEW a \in Cells, NEW b \in Cells
  PROVE  (Apart(path, a, b) = {}) <=> (a = b)
<1>1. DOMAIN a = {"text", "wide", "semantic", "style"}
  BY DEF Cells
<1>2. /\ a = [text |-> a.text, wide |-> a.wide, semantic |-> a.semantic, style |-> a.style]
      /\ b = [text |-> b.text, wide |-> b.wide, semantic |-> b.semantic, style |-> b.style]
  BY DEF Cells
<1>3. (\A f \in DOMAIN a : a[f] = b[f]) <=>
        a.text = b.text /\ a.wide = b.wide /\ a.semantic = b.semantic /\ a.style = b.style
  BY <1>1
<1>4. QED
  BY <1>2, <1>3, ApartTells

LEMMA RowsTell ==
  ASSUME NEW path, NEW cols \in Nat, NEW a, NEW b, RowOK(a, cols), RowOK(b, cols)
  PROVE  (DiffRow(path, a, b) = {}) <=> (a = b)
<1> DEFINE heads == {path \o <<f>> : f \in {g \in {"wrap", "continued", "prompt"} : a[g] # b[g]}}
           cell(i) == Apart(path \o <<i>>, a.cells[i], b.cells[i])
           cells == UNION {cell(i) : i \in 1 .. cols}
           odd   == Uneven(path \o <<"cells.len">>, a.cells, b.cells)
<1>1. /\ a \in ShownRows /\ b \in ShownRows /\ Len(a.cells) = cols /\ Len(b.cells) = cols
      /\ \A x \in 1 .. cols : a.cells[x] \in Cells /\ b.cells[x] \in Cells
  BY DEF RowOK
<1>2. Shorter(a.cells, b.cells) = 1 .. cols /\ odd = {}
  BY <1>1 DEF Shorter, Uneven
<1>3. DiffRow(path, a, b) = heads \union cells \union odd
  BY <1>2 DEF DiffRow
<1>4. (heads = {}) <=> (a.wrap = b.wrap /\ a.continued = b.continued /\ a.prompt = b.prompt)
  OBVIOUS
<1>5. (cells = {}) <=> (a.cells = b.cells)
  <2>1. \A i \in 1 .. cols : (cell(i) = {}) <=> (a.cells[i] = b.cells[i])
    BY <1>1, CellsTell
  <2> HIDE DEF cell
  <2>2. (cells = {}) <=> (\A i \in 1 .. cols : cell(i) = {})
    OBVIOUS
  <2>3. (a.cells = b.cells) <=> (\A i \in 1 .. cols : a.cells[i] = b.cells[i])
    <3>1. a.cells \in Seq(Cells) /\ b.cells \in Seq(Cells)
      BY <1>1 DEF ShownRows
    <3>2. QED
      BY <1>1, <3>1, SeqEqual
  <2>4. QED
    BY <2>1, <2>2, <2>3
<1> HIDE DEF heads, cells, odd
<1>6. (DiffRow(path, a, b) = {}) <=> (heads = {} /\ cells = {})
  BY <1>2, <1>3
<1>7. /\ a = [wrap |-> a.wrap, continued |-> a.continued, prompt |-> a.prompt, cells |-> a.cells]
      /\ b = [wrap |-> b.wrap, continued |-> b.continued, prompt |-> b.prompt, cells |-> b.cells]
  BY <1>1 DEF ShownRows
<1>8. QED
  BY <1>4, <1>5, <1>6, <1>7

RowsApart(name, s, t) == UNION {DiffRow(<<name, y>>, s[y], t[y]) : y \in 1 .. Len(s)}

AllOK(rows, cols) == \A y \in 1 .. Len(rows) : RowOK(rows[y], cols)

LEMMA GridsTell ==
  ASSUME NEW name, NEW cols \in Nat, NEW s \in Seq(ShownRows), NEW t \in Seq(ShownRows), Len(s) = Len(t),
         AllOK(s, cols), AllOK(t, cols)
  PROVE  (RowsApart(name, s, t) = {}) <=> (s = t)
<1> DEFINE row(y) == DiffRow(<<name, y>>, s[y], t[y])
<1>1. \A y \in 1 .. Len(s) : (row(y) = {}) <=> (s[y] = t[y])
  BY RowsTell DEF AllOK
<1> HIDE DEF row
<1>2. (UNION {row(y) : y \in 1 .. Len(s)} = {}) <=> (\A y \in 1 .. Len(s) : row(y) = {})
  OBVIOUS
<1>3. (s = t) <=> (\A y \in 1 .. Len(s) : s[y] = t[y])
  BY SeqEqual
<1>4. QED
  BY <1>1, <1>2, <1>3 DEF row, RowsApart

LEMMA ColorsTell ==
  ASSUME NEW a, NEW b,
         a \in [foreground : Seq(Nat), background : Seq(Nat), caret : Seq(Nat), palette : Seq(Nat)],
         b \in [foreground : Seq(Nat), background : Seq(Nat), caret : Seq(Nat), palette : Seq(Nat)]
  PROVE  (DiffColors(a, b) = {}) <=> (a = b)
<1> DEFINE named == {<<"colors", f>> : f \in {g \in {"foreground", "background", "caret"} : a[g] # b[g]}}
           each  == {<<"colors", "palette", i>> : i \in {k \in DOMAIN a.palette : a.palette[k] # b.palette[k]}}
           rest  == IF Len(a.palette) # Len(b.palette) THEN {<<"colors", "palette.len">>} ELSE each
<1>1. DiffColors(a, b) = named \union rest
  BY DEF DiffColors
<1>2. (named = {}) <=> (a.foreground = b.foreground /\ a.background = b.background /\ a.caret = b.caret)
  OBVIOUS
<1>3. (rest = {}) <=> (a.palette = b.palette)
  <2>1. a.palette \in Seq(Nat) /\ b.palette \in Seq(Nat) /\ DOMAIN a.palette = 1 .. Len(a.palette)
    BY LenProperties
  <2>2. CASE Len(a.palette) # Len(b.palette)
    BY <2>2
  <2>3. CASE Len(a.palette) = Len(b.palette)
    <3>1. (each = {}) <=> (\A k \in DOMAIN a.palette : a.palette[k] = b.palette[k])
      OBVIOUS
    <3>2. (a.palette = b.palette) <=> (\A k \in 1 .. Len(a.palette) : a.palette[k] = b.palette[k])
      BY <2>1, <2>3, SeqEqual
    <3> HIDE DEF each
    <3>3. QED
      BY <2>1, <2>3, <3>1, <3>2
  <2>4. QED
    BY <2>2, <2>3
<1>4. /\ a = [foreground |-> a.foreground, background |-> a.background, caret |-> a.caret, palette |-> a.palette]
      /\ b = [foreground |-> b.foreground, background |-> b.background, caret |-> b.caret, palette |-> b.palette]
  OBVIOUS
<1> HIDE DEF named, rest
<1>5. QED
  BY <1>1, <1>2, <1>3, <1>4

\* diff: nothing is reported exactly when nothing differs.
LEMMA DiffTells ==
  ASSUME NEW a, NEW b, ShotOK(a), ShotOK(b)
  PROVE  (Diff(a, b) = {}) <=> (a = b)
<1> DEFINE sizes   == {<<"dims", f>> : f \in {g \in {"cols", "rows"} : a[g] # b[g]}}
           heads   == {<<f>> : f \in {g \in {"screen", "title", "pwd"} : a[g] # b[g]}}
           colors  == DiffColors(a.colors, b.colors)
           modes   == {<<"modes", m>> : m \in (a.modes \ b.modes) \union (b.modes \ a.modes)}
           cursor  == Apart(<<"cursor">>, a.cursor, b.cursor)
           lines   == UNION {DiffRow(<<"history", y>>, a.history[y], b.history[y]) : y \in DOMAIN a.history}
           history == IF Len(a.history) # Len(b.history) THEN {<<"history.len">>} ELSE lines
           grid    == UNION {DiffRow(<<"row", y>>, a.grid[y], b.grid[y]) : y \in Shorter(a.grid, b.grid)}
           odd     == Uneven(<<"grid.len">>, a.grid, b.grid)
<1>1. /\ a \in Shots /\ b \in Shots /\ Len(a.grid) = a.rows /\ Len(b.grid) = b.rows
      /\ a.cols \in Nat /\ b.cols \in Nat /\ a.rows \in Nat /\ b.rows \in Nat
      /\ a.grid \in Seq(ShownRows) /\ b.grid \in Seq(ShownRows)
      /\ a.history \in Seq(ShownRows) /\ b.history \in Seq(ShownRows)
  BY DEF ShotOK, Shots
<1>2. Diff(a, b) = IF sizes # {} THEN sizes
                   ELSE heads \union colors \union modes \union cursor \union history \union grid \union odd
  BY DEF Diff
<1>3. (sizes = {}) <=> (a.cols = b.cols /\ a.rows = b.rows)
  OBVIOUS
<1>4. (heads = {}) <=> (a.screen = b.screen /\ a.title = b.title /\ a.pwd = b.pwd)
  OBVIOUS
<1>5. (colors = {}) <=> (a.colors = b.colors)
  <2>1. /\ a.colors \in [foreground : Seq(Nat), background : Seq(Nat), caret : Seq(Nat), palette : Seq(Nat)]
        /\ b.colors \in [foreground : Seq(Nat), background : Seq(Nat), caret : Seq(Nat), palette : Seq(Nat)]
    BY <1>1 DEF Shots
  <2>2. QED
    BY <2>1, ColorsTell
<1>6. (modes = {}) <=> (a.modes = b.modes)
  OBVIOUS
<1>7. (cursor = {}) <=> (a.cursor = b.cursor)
  <2> DEFINE p == a.cursor
             q == b.cursor
  <2>1. /\ DOMAIN p = {"x", "y", "pending_wrap", "visible", "style"}
        /\ p = [x |-> p.x, y |-> p.y, pending_wrap |-> p.pending_wrap, visible |-> p.visible, style |-> p.style]
        /\ q = [x |-> q.x, y |-> q.y, pending_wrap |-> q.pending_wrap, visible |-> q.visible, style |-> q.style]
    BY <1>1 DEF Shots
  <2> HIDE DEF p, q
  <2>2. (\A f \in DOMAIN p : p[f] = q[f]) <=>
          p.x = q.x /\ p.y = q.y /\ p.pending_wrap = q.pending_wrap /\ p.visible = q.visible /\ p.style = q.style
    BY <2>1
  <2>3. (Apart(<<"cursor">>, p, q) = {}) <=> (p = q)
    BY <2>1, <2>2, ApartTells
  <2>4. QED
    BY <2>3 DEF p, q
<1>8. ASSUME sizes = {} PROVE ((history = {}) <=> (a.history = b.history)) /\ ((grid = {}) <=> (a.grid = b.grid)) /\ odd = {}
  <2>1. a.cols = b.cols /\ a.rows = b.rows
    BY <1>3, <1>8
  <2>2. AllOK(a.grid, a.cols) /\ AllOK(b.grid, a.cols) /\ Len(a.grid) = Len(b.grid)
    BY <1>1, <2>1 DEF ShotOK, AllOK
  <2>3. Shorter(a.grid, b.grid) = 1 .. Len(a.grid) /\ odd = {}
    BY <2>2 DEF Shorter, Uneven
  <2>4. (grid = {}) <=> (a.grid = b.grid)
    <3>1. grid = RowsApart("row", a.grid, b.grid)
      BY <2>3 DEF RowsApart
    <3> DEFINE s == a.grid
               t == b.grid
               k == a.cols
    <3>2. /\ s \in Seq(ShownRows) /\ t \in Seq(ShownRows) /\ Len(s) = Len(t)
          /\ k \in Nat /\ AllOK(s, k) /\ AllOK(t, k)
      BY <1>1, <2>2
    <3> HIDE DEF grid, s, t, k
    <3>3. (RowsApart("row", s, t) = {}) <=> (s = t)
      BY <3>2, GridsTell
    <3>4. QED
      BY <3>1, <3>3 DEF s, t
  <2>5. (history = {}) <=> (a.history = b.history)
    <3>1. CASE Len(a.history) # Len(b.history)
      BY <3>1
    <3>2. CASE Len(a.history) = Len(b.history)
      <4>1. AllOK(a.history, a.cols) /\ AllOK(b.history, a.cols)
        BY <2>1 DEF ShotOK, AllOK
      <4>2. DOMAIN a.history = 1 .. Len(a.history)
        BY <1>1, LenProperties
      <4>3. lines = RowsApart("history", a.history, b.history)
        BY <4>2 DEF RowsApart
      <4>4. (RowsApart("history", a.history, b.history) = {}) <=> (a.history = b.history)
        <5> DEFINE s == a.history
                   t == b.history
                   k == a.cols
        <5>1. /\ s \in Seq(ShownRows) /\ t \in Seq(ShownRows) /\ Len(s) = Len(t)
              /\ k \in Nat /\ AllOK(s, k) /\ AllOK(t, k)
          BY <1>1, <3>2, <4>1
        <5> HIDE DEF s, t, k
        <5>2. (RowsApart("history", s, t) = {}) <=> (s = t)
          BY <5>1, GridsTell
        <5>3. QED
          BY <5>2 DEF s, t
      <4> HIDE DEF lines
      <4>5. QED
        BY <3>2, <4>3, <4>4
    <3>3. QED
      BY <3>1, <3>2
  <2>6. QED
    BY <2>3, <2>4, <2>5
<1> HIDE DEF sizes, heads, colors, modes, cursor, lines, history, grid, odd
<1>9. (Diff(a, b) = {}) <=> (/\ sizes = {} /\ heads = {} /\ colors = {} /\ modes = {}
                             /\ cursor = {} /\ history = {} /\ grid = {} /\ odd = {})
  BY <1>2
<1>10. /\ a = [cols |-> a.cols, rows |-> a.rows, screen |-> a.screen, cursor |-> a.cursor, modes |-> a.modes,
               grid |-> a.grid, history |-> a.history, title |-> a.title, pwd |-> a.pwd, colors |-> a.colors]
       /\ b = [cols |-> b.cols, rows |-> b.rows, screen |-> b.screen, cursor |-> b.cursor, modes |-> b.modes,
               grid |-> b.grid, history |-> b.history, title |-> b.title, pwd |-> b.pwd, colors |-> b.colors]
  BY <1>1 DEF Shots
<1>11. (a = b) <=> (/\ a.cols = b.cols /\ a.rows = b.rows /\ a.screen = b.screen /\ a.cursor = b.cursor
                    /\ a.modes = b.modes /\ a.grid = b.grid /\ a.history = b.history /\ a.title = b.title
                    /\ a.pwd = b.pwd /\ a.colors = b.colors)
  BY <1>10
<1>12. QED
  BY <1>3, <1>4, <1>5, <1>6, <1>7, <1>8, <1>9, <1>11

-----------------------------------------------------------------------------
(* The invariant.                                                          *)

Minted(r) == DOMAIN r = {"x", "y", "cell", "row", "live"}

AbiInv ==
  /\ held = << >> \/ \E h : held = << h >> /\ h.core \in Contents
  /\ cache = << >> \/ (held # << >> /\ cache = << Fill(held[1]) >>)
  /\ \A r \in grefs : /\ Minted(r) /\ r.live \in BOOLEAN
                      /\ r.live => cache # << >> /\ Stands(cache[1], r, r.row, r.cell)
  /\ kept = << >> \/ \E k : kept = << k >> /\ ShotOK(k)

LEMMA FilledIs ==
  ASSUME AbiInv, held # << >>
  PROVE  /\ Filled(held[1], cache) = << Fill(held[1]) >> /\ held[1].core \in Contents
         /\ ShotOK(held[1].core) /\ Mirrors(Fill(held[1]), held[1].core)
<1>1. held[1].core \in Contents
  BY DEF AbiInv
<1>2. Filled(held[1], cache) = << Fill(held[1]) >>
  BY DEF AbiInv, Filled
<1>3. ShotOK(held[1].core)
  BY <1>1, ContentsOK
<1>4. Mirrors(Fill(held[1]), held[1].core)
  BY <1>3, FillShows DEF ShotOK
<1>5. QED
  BY <1>1, <1>2, <1>3, <1>4

LEMMA AbiBegins ==
  ASSUME AbiInit
  PROVE  AbiInv
  BY DEF AbiInit, AbiInv

LEMMA NewKeeps ==
  ASSUME AbiInv, TerminalNew
  PROVE  AbiInv'
<1>1. PICK c \in Contents : held' = <<[core |-> c, dirty |-> [y \in 1..c.rows |-> FALSE], full |-> FALSE]>>
  BY DEF TerminalNew
<1> DEFINE h == [core |-> c, dirty |-> [y \in 1..c.rows |-> FALSE], full |-> FALSE]
<1>2. held' = << h >> /\ h.core = c
  BY <1>1
<1>3. held = << >> /\ cache' = << >> /\ grefs' = grefs /\ kept' = kept
  BY DEF TerminalNew
<1>4. cache = << >>
  BY <1>3 DEF AbiInv
<1> HIDE DEF h
<1>5. QED
  BY <1>2, <1>3, <1>4 DEF AbiInv

LEMMA FreeKeeps ==
  ASSUME AbiInv, TerminalFree
  PROVE  AbiInv'
  BY DEF TerminalFree, AbiInv

\* No reference is alive once a write has been.
LEMMA KilledAre ==
  ASSUME AbiInv, NEW r \in Killed
  PROVE  Minted(r) /\ r.live = FALSE
<1>1. PICK q \in grefs : r = [q EXCEPT !.live = FALSE]
  BY DEF Killed
<1>2. Minted(q)
  BY <1>1 DEF AbiInv
<1>3. QED
  BY <1>1, <1>2 DEF Minted

LEMMA WriteKeeps ==
  ASSUME AbiInv, held # << >>, NEW c \in Contents, held' = << Written(held[1], c) >>, cache' = << >>,
         grefs' = Killed, UNCHANGED kept
  PROVE  AbiInv'
<1> DEFINE h == Written(held[1], c)
<1>1. held' = << h >> /\ h.core \in Contents
  BY DEF Written
<1>2. \A r \in grefs' : Minted(r) /\ r.live = FALSE
  BY KilledAre
<1> HIDE DEF h
<1>3. QED
  BY <1>1, <1>2 DEF AbiInv

LEMMA AsksKeeps ==
  ASSUME AbiInv, Asks
  PROVE  AbiInv'
<1>1. held # << >> /\ cache' = Filled(held[1], cache) /\ UNCHANGED <<held, grefs, kept>>
  BY DEF Asks
<1>2. cache' = << Fill(held[1]) >>
  BY <1>1, FilledIs
<1>3. cache = << >> \/ cache' = cache
  BY <1>2 DEF AbiInv
<1>4. QED
  BY <1>1, <1>2, <1>3 DEF AbiInv

LEMMA MintsKeeps ==
  ASSUME AbiInv, NEW tag, NEW x \in Nat, NEW y \in Nat, Mints(tag, x, y)
  PROVE  AbiInv'
<1> DEFINE c  == held[1].core
           w  == Fill(held[1])
           at == GridRef(w, tag, x, y)
           new == [x |-> at[2].x, y |-> at[2].y, cell |-> RowAt(w, at[2].y)[1].cells[at[2].x + 1],
                   row |-> RowAt(w, at[2].y)[1], live |-> TRUE]
<1>1. held # << >> /\ UNCHANGED <<held, kept>>
  BY DEF Mints
<1>2. Filled(held[1], cache) = << w >> /\ c \in Contents /\ ShotOK(c) /\ Mirrors(w, c)
  BY <1>1, FilledIs
<1>3. cache' = << w >> /\ grefs' = IF at = Invalid THEN grefs ELSE {new}
  BY <1>2 DEF Mints
<1>4. cache = << >> \/ cache' = cache
  BY <1>3 DEF AbiInv
<1>5. CASE at = Invalid
  BY <1>1, <1>3, <1>4, <1>5 DEF AbiInv
<1>6. CASE at # Invalid
  <2> DEFINE n == IF tag \in {"active", "viewport"} THEN Len(c.history) + y ELSE y
  <2>1. c.cols \in Nat /\ c.rows \in Nat /\ Len(c.history) \in Nat /\ Len(c.grid) = c.rows
    <3> HIDE DEF c, w
    <3>1. c \in Shots /\ Len(c.grid) = c.rows
      BY <1>2 DEF ShotOK
    <3>2. c.cols \in Nat /\ c.rows \in Nat /\ c.history \in Seq(ShownRows)
      BY <3>1 DEF Shots
    <3>3. QED
      BY <3>1, <3>2
  <2>2. w.history = c.history /\ w.rows = c.rows /\ w.cols = c.cols
    BY <1>2 DEF Mirrors
  <2>3. at = Fine([x |-> x, y |-> n]) /\ n < Len(c.history) + c.rows /\ x < c.cols /\ n \in Nat
    <3> HIDE DEF c, w
    <3>1. QED
      BY <1>6, <2>1, <2>2 DEF GridRef
  <2>4. at[2].x = x /\ at[2].y = n
    <3>1. at[2] = [x |-> x, y |-> n]
      BY <2>3, Answers
    <3> HIDE DEF at
    <3>2. QED
      BY <3>1
  <2> HIDE DEF n
  <2>5. PICK row : RowAt(w, n) = << row >> /\ RowOK(row, c.cols)
    <3>1. CASE n < Len(c.history)
      BY <1>2, <2>3, <3>1, RowsAt
    <3>2. CASE ~(n < Len(c.history))
      <4>1. n >= Len(c.history)
        BY <2>1, <2>3, <3>2
      <4>2. QED
        BY <1>2, <2>3, <4>1, RowsAt
    <3>3. QED
      BY <3>1, <3>2
  <2>6. /\ new.x = x /\ new.y = n /\ new.row = row /\ new.cell = row.cells[x + 1] /\ new.live = TRUE
        /\ Minted(new)
    <3> HIDE DEF at
    <3>1. QED
      BY <2>4, <2>5 DEF Minted
  <2> HIDE DEF new
  <2>7. Stands(w, new, new.row, new.cell)
    <3>1. x + 1 \in 1 .. c.cols /\ row.cells[x + 1] \in Cells /\ Hash(row.cells[x + 1].style) \in Nat
          /\ row \in ShownRows /\ Len(row.cells) = c.cols
      BY <2>1, <2>3, <2>5 DEF RowOK
    <3>2. QED
      BY <2>3, <2>5, <2>6, <3>1 DEF Stands
  <2>8. grefs' = {new}
    BY <1>3, <1>6
  <2> HIDE DEF w
  <2>9. QED
    BY <1>1, <1>3, <2>6, <2>7, <2>8 DEF AbiInv, w
<1>7. QED
  BY <1>5, <1>6

LEMMA ReadsKeeps ==
  ASSUME AbiInv, Reads
  PROVE  AbiInv'
<1> DEFINE c == held[1].core
           w == Fill(held[1])
<1>1. held # << >> /\ UNCHANGED <<held, grefs>>
  BY DEF Reads
<1>2. Filled(held[1], cache) = << w >> /\ ShotOK(c) /\ Mirrors(w, c)
  BY <1>1, FilledIs
<1>3. cache' = << w >> /\ kept' = Keeping(ReadSnapshot(<< w >>))
  BY <1>2 DEF Reads
<1>4. cache = << >> \/ cache' = cache
  BY <1>3 DEF AbiInv
<1>5. ReadSnapshot(<< w >>) = Fine(c) \/ ReadSnapshot(<< w >>) = Invalid
  BY <1>2, SnapshotReads
<1>6. kept' = kept \/ kept' = << c >>
  BY <1>3, <1>5, Answers DEF Keeping
<1>7. kept' = << >> \/ \E k : kept' = << k >> /\ ShotOK(k)
  BY <1>2, <1>6 DEF AbiInv
<1>8. QED
  BY <1>1, <1>3, <1>4, <1>7 DEF AbiInv

LEMMA AbiStays ==
  ASSUME AbiInv, UNCHANGED bvars
  PROVE  AbiInv'
  BY DEF AbiInv, bvars

LEMMA AbiKeeps ==
  ASSUME AbiInv, AbiNext
  PROVE  AbiInv'
<1>1. CASE TerminalNew
  BY <1>1, NewKeeps
<1>2. CASE TerminalFree
  BY <1>2, FreeKeeps
<1>3. ASSUME NEW bytes \in {<< >>} \union {<< c >> : c \in Contents}, VtWrite(bytes) PROVE AbiInv'
  <2>1. CASE bytes = << >>
    BY <1>3, <2>1, AbiStays DEF VtWrite
  <2>2. CASE bytes # << >>
    <3>1. bytes[1] \in Contents
      BY <2>2
    <3>2. held # << >> /\ held' = << Written(held[1], bytes[1]) >> /\ cache' = << >> /\ grefs' = Killed
          /\ UNCHANGED kept
      BY <1>3, <2>2 DEF VtWrite
    <3>3. QED
      BY <3>1, <3>2, WriteKeeps
  <2>3. QED
    BY <2>1, <2>2
<1>4. ASSUME NEW c \in Contents, TerminalResize(c) PROVE AbiInv'
  BY <1>4, WriteKeeps DEF TerminalResize
<1>5. CASE Asks
  BY <1>5, AsksKeeps
<1>6. ASSUME NEW tag \in {"active", "screen", "none"}, NEW x \in 0 .. 2, NEW y \in 0 .. 2, Mints(tag, x, y)
      PROVE  AbiInv'
  <2>1. x \in Nat /\ y \in Nat
    OBVIOUS
  <2>2. QED
    BY <1>6, <2>1, MintsKeeps
<1>7. CASE Reads
  BY <1>7, ReadsKeeps
<1>8. QED
  BY <1>1, <1>2, <1>3, <1>4, <1>5, <1>6, <1>7 DEF AbiNext

-----------------------------------------------------------------------------
(* The theorems.                                                           *)

\* The cache is the core's snapshot of this moment or nothing, whatever calls
\* are made in whatever order (view_filled, invalidate).
THEOREM AbiInvariant == CoreSpec => []AbiInv
<1>1. CoreInit => AbiInv
  BY AbiBegins DEF CoreInit
<1>2. AbiInv /\ [CoreNext]_cvars => AbiInv'
  <2>1. SUFFICES ASSUME AbiInv, [CoreNext]_cvars PROVE AbiInv'
    OBVIOUS
  <2>2. CASE AbiNext
    BY <2>1, <2>2, AbiKeeps
  <2>3. CASE UNCHANGED bvars
    BY <2>1, <2>3, AbiStays
  <2>4. QED
    BY <2>1, <2>2, <2>3 DEF CoreNext, cvars
<1>3. QED
  BY <1>1, <1>2, PTL DEF CoreSpec

LEMMA ReferencesRead ==
  ASSUME AbiInv
  PROVE  ReferencesHold
<1>1. cache # << >> => cache[1] = Fill(held[1])
  BY DEF AbiInv
<1>2. ASSUME NEW r \in grefs, r.live
      PROVE  /\ RefCell(cache, r) = Fine(PackCell(r.cell)) /\ PackingHolds(r.cell)
             /\ RefStyle(cache, r) = Fine(PackStyle(r.cell.style))
             /\ RefRow(cache, r)[1] = "SUCCESS"
             /\ (RowGet(RefRow(cache, r)[2], "styled") = 1) = (\E i \in DOMAIN r.row.cells : r.row.cells[i].style # Plain)
  <2> DEFINE w == Fill(held[1])
             row == r.row
             cell == r.cell
             p == PackRow(row, DirtyAt(w, r.y - Len(w.history)))
  <2>1. cache = << w >> /\ Stands(w, r, row, cell)
    <3>1. cache # << >> /\ Stands(cache[1], r, r.row, r.cell)
      BY <1>2 DEF AbiInv
    <3>2. cache = << w >>
      BY <3>1 DEF AbiInv
    <3> HIDE DEF w
    <3>3. cache[1] = w
      BY <3>2
    <3>4. QED
      BY <3>1, <3>2, <3>3
  <2>2. cell \in Cells /\ Hash(cell.style) \in Nat /\ row \in ShownRows
    BY <2>1 DEF Stands
  <2> HIDE DEF w, row, cell
  <2>3. /\ RefCell(cache, r) = Fine(PackCell(cell)) /\ RefStyle(cache, r) = Fine(PackStyle(cell.style))
        /\ RefRow(cache, r) = Fine(p)
    BY <2>1, RefReads
  <2>4. PackingHolds(cell)
    BY <2>2, PackingReads
  <2>5. (RowGet(p, "styled") = 1) = Styled(row)
    BY <2>2, RowReads
  <2> HIDE DEF p
  <2>6. RefRow(cache, r)[1] = "SUCCESS" /\ RefRow(cache, r)[2] = p
    BY <2>3, Answers
  <2>7. QED
    BY <2>3, <2>4, <2>5, <2>6 DEF Styled, row, cell
<1>3. ASSUME NEW r \in grefs, cache = << >>
      PROVE  RefCell(cache, r) = Invalid /\ RefRow(cache, r) = Invalid
  BY <1>3 DEF RefCell, RefRow, Told, CellThere, Nth, RowThere
<1>4. QED
  BY <1>1, <1>2, <1>3 DEF ReferencesHold

LEMMA SnapshotsRead ==
  ASSUME AbiInv
  PROVE  SnapshotsHold
<1> SUFFICES ASSUME held # << >>
             PROVE  /\ ReadSnapshot(Filled(held[1], cache)) =
                         IF Len(held[1].core.history) + held[1].core.rows <= MaxIndex + 1
                         THEN Fine(held[1].core) ELSE Invalid
                    /\ kept # << >> => (Diff(kept[1], held[1].core) = {}) = (kept[1] = held[1].core)
  BY DEF SnapshotsHold
<1> DEFINE c == held[1].core
           w == Fill(held[1])
<1>1. Filled(held[1], cache) = << w >> /\ ShotOK(c) /\ Mirrors(w, c)
  BY FilledIs
<1> HIDE DEF c, w
<1>2. ReadSnapshot(<< w >>) = IF Len(c.history) + c.rows <= MaxIndex + 1 THEN Fine(c) ELSE Invalid
  BY <1>1, SnapshotReads
<1>3. ASSUME kept # << >> PROVE (Diff(kept[1], c) = {}) = (kept[1] = c)
  <2>1. ShotOK(kept[1])
    BY <1>3 DEF AbiInv
  <2>2. QED
    BY <1>1, <2>1, DiffTells
<1>4. QED
  BY <1>1, <1>2, <1>3 DEF c

\* For every core there is and any order of calls: a live reference answers for
\* the cell and the row it was minted at, packed so that they read back, none
\* answers from an emptied cache, a reader's snapshot is the core's own while a
\* reference can name every row, and a comparison that is empty says that
\* nothing changed (exports.rs, ghostty/terminal.rs, difference.rs).
THEOREM AbiReadsTrue == CoreSpec => []AbiHolds
<1>1. AbiInv => AbiHolds
  BY ReferencesRead, SnapshotsRead DEF AbiHolds
<1>2. QED
  BY <1>1, AbiInvariant, PTL
=============================================================================
