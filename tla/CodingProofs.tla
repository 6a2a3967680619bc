---------------------------- MODULE CodingProofs ----------------------------
(***************************************************************************)
(* What the reader and the writer are made of, for every block, decoder    *)
(* and window: what the operations on blocks of memory and the loop of     *)
(* Encoder around them return, the payloads of a stream, and what          *)
(* dnswire_decoder_decode() makes of a window.                             *)
(***************************************************************************)
EXTENDS Decoder, Encoder, FiniteSetTheorems, TLAPS

-----------------------------------------------------------------------------
(***************************************************************************)
(* Blocks of memory, the encoding loop, sequences and their payloads.      *)
(***************************************************************************)
(* Fresh memory has the type of any other.                                  *)
LEMMA JunkType == Junk \in Cell
  BY DEF Junk, Cell, Element

(* Reading n cells gives n cells, wherever they are read.                   *)
LEMMA SliceType ==
    ASSUME NEW b \in Seq(Cell), NEW at \in Int, NEW n \in Nat
    PROVE  /\ Slice(b, at, n) \in Seq(Cell)
           /\ Len(Slice(b, at, n)) = n
           /\ \A i \in 1..n : at + i \in 1..Len(b) => Slice(b, at, n)[i] = b[at + i]
  <1>1. \A i \in 1..n : (IF at + i \in 1..Len(b) THEN b[at + i] ELSE Junk) \in Cell
    BY JunkType
  <1> QED BY <1>1 DEF Slice

(* memcpy() changes the cells it writes to and no others, and not the       *)
(* length of the block.                                                     *)
LEMMA OverlayType ==
    ASSUME NEW b \in Seq(Cell), NEW at \in Int, NEW s \in Seq(Cell)
    PROVE  /\ Overlay(b, at, s) \in Seq(Cell)
           /\ Len(Overlay(b, at, s)) = Len(b)
           /\ \A i \in 1..Len(b) :
                 Overlay(b, at, s)[i] = IF i - at \in 1..Len(s) THEN s[i - at] ELSE b[i]
  <1>1. \A i \in 1..Len(b) : (IF i - at \in 1..Len(s) THEN s[i - at] ELSE b[i]) \in Cell
    OBVIOUS
  <1> QED BY <1>1 DEF Overlay

(* memmove() brings the n cells from offset at to the start.                *)
LEMMA MoveToStartType ==
    ASSUME NEW b \in Seq(Cell), NEW at \in Nat, NEW n \in Nat, at + n <= Len(b)
    PROVE  /\ MoveToStart(b, at, n) \in Seq(Cell)
           /\ Len(MoveToStart(b, at, n)) = Len(b)
           /\ \A i \in 1..n : MoveToStart(b, at, n)[i] = b[at + i]
  BY SliceType, OverlayType DEF MoveToStart

(* realloc() gives a block of the new size that begins like the old one.    *)
LEMMA ReallocType ==
    ASSUME NEW b \in Seq(Cell), NEW size \in Nat
    PROVE  /\ Realloc(b, size) \in Seq(Cell)
           /\ Len(Realloc(b, size)) = size
           /\ \A i \in 1..size : i <= Len(b) => Realloc(b, size)[i] = b[i]
  <1>1. \A i \in 1..size : (IF i <= Len(b) THEN b[i] ELSE Junk) \in Cell
    BY JunkType
  <1> QED BY <1>1 DEF Realloc

(* As long as the sum does not wrap, a block that is not at its maximum     *)
(* gets larger, and no larger than the maximum.                             *)
LEMMA ExpandedType ==
    ASSUME NEW size \in Nat, NEW inc \in Nat \ {0}, NEW max \in Nat,
           size < max, size + inc < SizeMod
    PROVE  /\ Expanded(size, inc, max) \in Nat
           /\ size < Expanded(size, inc, max)
           /\ Expanded(size, inc, max) <= max
  BY SizeModAssumption DEF Expanded, Plus, LeastOf

-----------------------------------------------------------------------------
(* An element has the cells of its size, and at least one.                  *)
LEMMA CellsType ==
    ASSUME NEW e \in Element
    PROVE  /\ Size(e) \in Nat \ {0}
           /\ Cells(e) \in Seq(Cell)
           /\ Len(Cells(e)) = Size(e)
  <1>1. Size(e) \in Nat \ {0}
    BY LengthAssumption DEF Size
  <1> QED BY <1>1 DEF Cells, Cell

(* The encoder's answers: what ACCEPT and FINISH take on the wire.          *)
LEMMA AnswerCells ==
    /\ Encoding("control_accept", NoDnstap).cells \in Seq(Cell)
    /\ Len(Encoding("control_accept", NoDnstap).cells) = HeaderLen + FieldLen
    /\ Encoding("control_finish", NoDnstap).cells \in Seq(Cell)
    /\ Len(Encoding("control_finish", NoDnstap).cells) = HeaderLen
    /\ Encoding("control_accept", NoDnstap).res = "again"
    /\ Encoding("control_accept", NoDnstap).next = "control_finish"
    /\ Encoding("control_finish", NoDnstap).res = "endofdata"
    /\ Encoding("control_finish", NoDnstap).next = "done"
  <1>1. /\ Control("ACCEPT", 1) \in Element /\ Size(Control("ACCEPT", 1)) = HeaderLen
        /\ Control("FINISH", 0) \in Element /\ Size(Control("FINISH", 0)) = HeaderLen
        /\ Field("dnstap") \in Element /\ Size(Field("dnstap")) = FieldLen
    BY DEF Control, Field, Element, ControlType, FieldValue, Size
  <1>2. /\ Encoding("control_accept", NoDnstap).cells
              = Cells(Control("ACCEPT", 1)) \o Cells(Field("dnstap"))
        /\ Encoding("control_finish", NoDnstap).cells = Cells(Control("FINISH", 0))
    BY DEF Encoding
  <1>3. /\ Cells(Control("ACCEPT", 1)) \in Seq(Cell) /\ Len(Cells(Control("ACCEPT", 1))) = HeaderLen
        /\ Cells(Control("FINISH", 0)) \in Seq(Cell) /\ Len(Cells(Control("FINISH", 0))) = HeaderLen
        /\ Cells(Field("dnstap")) \in Seq(Cell) /\ Len(Cells(Field("dnstap"))) = FieldLen
    BY <1>1, CellsType
  <1>4. ASSUME NEW s \in Seq(Cell), NEW t \in Seq(Cell)
        PROVE  s \o t \in Seq(Cell) /\ Len(s \o t) = Len(s) + Len(t)
    OBVIOUS
  <1>5. /\ Encoding("control_accept", NoDnstap).cells \in Seq(Cell)
        /\ Len(Encoding("control_accept", NoDnstap).cells) = HeaderLen + FieldLen
    BY <1>2, <1>3, <1>4
  <1>6. /\ Encoding("control_accept", NoDnstap).res = "again"
        /\ Encoding("control_accept", NoDnstap).next = "control_finish"
        /\ Encoding("control_finish", NoDnstap).res = "endofdata"
        /\ Encoding("control_finish", NoDnstap).next = "done"
    BY DEF Encoding
  <1> QED BY <1>2, <1>3, <1>5, <1>6

-----------------------------------------------------------------------------
(* The sizes _encoding() goes through lie between the size it finds and the *)
(* maximum, and begin with the first.                                       *)
LEMMA ExpansionsType ==
    ASSUME NEW size \in Nat, NEW inc \in Nat, NEW max \in Nat, size <= max
    PROVE  /\ \A z \in Expansions(size, inc, max) : z \in Nat /\ size <= z /\ z <= max
           /\ size \in Expansions(size, inc, max)
  <1>1. ASSUME NEW k \in 0..max
        PROVE  LET z == LeastOf(size + k * inc, max) IN z \in Nat /\ size <= z /\ z <= max
    <2>1. k * inc \in Nat
      OBVIOUS
    <2>2. ASSUME NEW j \in Nat
          PROVE  LET z == LeastOf(size + j, max) IN z \in Nat /\ size <= z /\ z <= max
      BY DEF LeastOf
    <2> QED BY <2>1, <2>2
  <1>2. 0 * inc = 0 /\ LeastOf(size, max) = size
    BY DEF LeastOf
  <1> QED BY <1>1, <1>2 DEF Expansions

(* What comes out of _encoding(): a block that holds all that was encoded,  *)
(* of a size that was allowed; all of the element or nothing of it; and no  *)
(* failure where there is room for it at once.                              *)
LEMMA EncodeLoopType ==
    ASSUME NEW s, NEW dnstap, NEW b \in Seq(Cell), NEW size \in Nat, NEW inc \in Nat,
           NEW max \in Nat, NEW at \in Nat, NEW fail \in BOOLEAN,
           size <= max, at <= size,
           Encoding(s, dnstap).cells \in Seq(Cell),
           NEW o \in EncodeLoop(s, dnstap, b, size, inc, max, at, fail)
    PROVE  /\ o.size \in Nat /\ size <= o.size /\ o.size <= max
           /\ o.buf \in Seq(Cell) /\ Len(o.buf) = o.size
           /\ o.cells \in Seq(Cell) /\ at + Len(o.cells) <= o.size
           /\ \/ /\ o.cells = Encoding(s, dnstap).cells
                 /\ o.res = Encoding(s, dnstap).res
                 /\ o.state = Encoding(s, dnstap).next
              \/ /\ o.cells = <<>> /\ o.state = s
                 /\ o.res \in {"error", "abort"}
                 /\ o.res = "abort" => b = <<>> \/ size <= at
                 /\ \/ size < at + Len(Encoding(s, dnstap).cells)
                    \/ b = <<>> \/ size <= at
  <1> DEFINE x == Encoding(s, dnstap)
             Fits(z) == Len(x.cells) <= z - at
             Sizes == Expansions(size, inc, max)
             Encoded(z) == [res |-> x.res, state |-> x.next, size |-> z, cells |-> x.cells,
                            buf |-> Overlay(Realloc(b, z), at, x.cells)]
             Failed(z, res) == [res |-> res, state |-> s, size |-> z, cells |-> <<>>,
                                buf |-> Realloc(b, z)]
  <1>1. /\ \A z \in Sizes : z \in Nat /\ size <= z /\ z <= max
        /\ size \in Sizes
    BY ExpansionsType
  <1>2. ASSUME NEW z \in Nat
        PROVE  /\ Realloc(b, z) \in Seq(Cell) /\ Len(Realloc(b, z)) = z
               /\ Overlay(Realloc(b, z), at, x.cells) \in Seq(Cell)
               /\ Len(Overlay(Realloc(b, z), at, x.cells)) = z
    <2>1. Realloc(b, z) \in Seq(Cell) /\ Len(Realloc(b, z)) = z
      BY ReallocType
    <2>2. x.cells \in Seq(Cell) /\ at \in Int
      OBVIOUS
    <2> QED BY <2>1, <2>2, OverlayType
  <1>3. \/ o = Failed(size, "abort") /\ (b = <<>> \/ size <= at)
        \/ \E z \in Sizes : o = Encoded(z) /\ Fits(z)
        \/ \E z \in Sizes : o = Failed(z, "error") /\ \A v \in Sizes : v <= z => ~Fits(v)
    BY DEF EncodeLoop
  <1>4. CASE o = Failed(size, "abort") /\ (b = <<>> \/ size <= at)
    BY <1>2, <1>4
  <1>5. ASSUME NEW z \in Sizes, o = Encoded(z), Fits(z)
        PROVE  /\ o.size \in Nat /\ size <= o.size /\ o.size <= max
               /\ o.buf \in Seq(Cell) /\ Len(o.buf) = o.size
               /\ o.cells \in Seq(Cell) /\ at + Len(o.cells) <= o.size
               /\ o.cells = x.cells /\ o.res = x.res /\ o.state = x.next
    BY <1>1, <1>2, <1>5
  <1>6. ASSUME NEW z \in Sizes, o = Failed(z, "error"), \A v \in Sizes : v <= z => ~Fits(v)
        PROVE  /\ o.size \in Nat /\ size <= o.size /\ o.size <= max
               /\ o.buf \in Seq(Cell) /\ Len(o.buf) = o.size
               /\ o.cells = <<>> /\ o.state = s /\ o.res = "error"
               /\ ~Fits(size)
    BY <1>1, <1>2, <1>6
  <1>7. /\ <<>> \in Seq(Cell) /\ Len(<<>>) = 0
        /\ Len(x.cells) \in Nat
        /\ ~Fits(size) => size < at + Len(x.cells)
    OBVIOUS
  <1>8. CASE \E z \in Sizes : o = Encoded(z) /\ Fits(z)
    BY <1>5, <1>8
  <1>9. CASE \E z \in Sizes : o = Failed(z, "error") /\ \A v \in Sizes : v <= z => ~Fits(v)
    <2>1. /\ o.size \in Nat /\ size <= o.size /\ o.size <= max
          /\ o.buf \in Seq(Cell) /\ Len(o.buf) = o.size
          /\ o.cells = <<>> /\ o.state = s /\ o.res = "error"
          /\ ~Fits(size)
      BY <1>6, <1>9
    <2> HIDE DEF x, Fits
    <2>2. at + Len(o.cells) <= o.size
      BY <2>1, <1>7
    <2> QED BY <2>1, <2>2, <1>7 DEF x
  <1> HIDE DEF x, Fits, Sizes, Encoded, Failed
  <1>10. CASE o = Failed(size, "abort") /\ (b = <<>> \/ size <= at)
    BY <1>4, <1>10 DEF x
  <1> QED BY <1>3, <1>8, <1>9, <1>10

-----------------------------------------------------------------------------
(* Putting sequences behind one another needs no parentheses.               *)
LEMMA ConcatAssociates ==
    \A s, t, u \in Seq(Cell) : (s \o t) \o u = s \o (t \o u)
  <1> SUFFICES ASSUME NEW s \in Seq(Cell), NEW t \in Seq(Cell), NEW u \in Seq(Cell)
               PROVE  (s \o t) \o u = s \o (t \o u)
    OBVIOUS
  <1> DEFINE v == s \o t
             w == t \o u
             x == v \o u
             y == s \o w
             a == Len(s)
             b == Len(t)
             c == Len(u)
  <1>1. a \in Nat /\ b \in Nat /\ c \in Nat
    OBVIOUS
  <1>2. v \in Seq(Cell) /\ Len(v) = a + b
    OBVIOUS
  <1>3. w \in Seq(Cell) /\ Len(w) = b + c
    OBVIOUS
  <1>4. \A i \in 1..(a + b) : v[i] = IF i <= a THEN s[i] ELSE t[i - a]
    OBVIOUS
  <1>5. \A i \in 1..(b + c) : w[i] = IF i <= b THEN t[i] ELSE u[i - b]
    OBVIOUS
  <1> HIDE DEF v, w
  <1>6. /\ x \in Seq(Cell) /\ Len(x) = a + b + c
        /\ \A i \in 1..(a + b + c) : x[i] = IF i <= a + b THEN v[i] ELSE u[i - (a + b)]
    <2>1. v \in Seq(Cell)
      BY <1>2
    <2>2. /\ x \in Seq(Cell) /\ Len(x) = Len(v) + Len(u)
          /\ \A i \in 1..(Len(v) + Len(u)) : x[i] = IF i <= Len(v) THEN v[i] ELSE u[i - Len(v)]
      BY <2>1
    <2> HIDE DEF x, a, b
    <2> QED BY <1>1, <1>2, <2>2 DEF c
  <1>7. /\ y \in Seq(Cell) /\ Len(y) = a + b + c
        /\ \A i \in 1..(a + b + c) : y[i] = IF i <= a THEN s[i] ELSE w[i - a]
    <2>1. w \in Seq(Cell)
      BY <1>3
    <2>2. /\ y \in Seq(Cell) /\ Len(y) = Len(s) + Len(w)
          /\ \A i \in 1..(Len(s) + Len(w)) : y[i] = IF i <= Len(s) THEN s[i] ELSE w[i - Len(s)]
      BY <2>1
    <2>3. Len(s) + Len(w) = a + b + c
      BY <1>1, <1>3
    <2> HIDE DEF y, b, c
    <2> QED BY <2>2, <2>3 DEF a
  <1> HIDE DEF x, y, a, b, c
  <1>8. ASSUME NEW i \in 1..(a + b + c)
        PROVE  x[i] = y[i]
    <2>1. i \in Nat /\ i >= 1 /\ i <= a + b + c
      BY <1>1
    <2>2. CASE i <= a
      <3>1. i \in 1..(a + b) /\ i <= a + b
        BY <1>1, <2>1, <2>2
      <3> QED BY <1>4, <1>6, <1>7, <2>2, <3>1
    <2>3. CASE i > a /\ i <= a + b
      <3>1. i \in 1..(a + b) /\ i - a \in 1..(b + c) /\ i - a <= b /\ ~(i <= a)
        BY <1>1, <2>1, <2>3
      <3> QED BY <1>4, <1>5, <1>6, <1>7, <2>3, <3>1
    <2>4. CASE i > a + b
      <3>1. /\ i - a \in 1..(b + c) /\ ~(i - a <= b) /\ ~(i <= a) /\ ~(i <= a + b)
            /\ (i - a) - b = i - (a + b)
        BY <1>1, <2>1, <2>4
      <3> QED BY <1>5, <1>6, <1>7, <3>1
    <2> QED BY <1>1, <2>1, <2>2, <2>3, <2>4
  <1>9. x = y
    BY <1>6, <1>7, <1>8
  <1> QED BY <1>9 DEF x, y, v, w

(* What follows one another in a block can be read at once.                 *)
LEMMA SliceConcat ==
    ASSUME NEW b \in Seq(Cell), NEW p \in Int, NEW m \in Nat, NEW n \in Nat
    PROVE  Slice(b, p, m + n) = Slice(b, p, m) \o Slice(b, p + m, n)
  <1> DEFINE c(i) == IF p + i \in 1..Len(b) THEN b[p + i] ELSE Junk
             d(i) == IF (p + m) + i \in 1..Len(b) THEN b[(p + m) + i] ELSE Junk
  <1>1. /\ Slice(b, p, m + n) = [i \in 1..(m + n) |-> c(i)]
        /\ Slice(b, p, m) = [i \in 1..m |-> c(i)]
        /\ Slice(b, p + m, n) = [i \in 1..n |-> d(i)]
    BY DEF Slice
  <1>2. \A i \in 1..n : d(i) = c(m + i)
    <2>1. ASSUME NEW i \in 1..n
          PROVE  (p + m) + i = p + (m + i)
      OBVIOUS
    <2> QED BY <2>1
  <1>3. \A i \in 1..(m + n) : c(i) \in Cell
    BY JunkType
  <1> HIDE DEF c, d
  <1>4. /\ [i \in 1..m |-> c(i)] \in Seq(Cell) /\ Len([i \in 1..m |-> c(i)]) = m
        /\ [i \in 1..n |-> d(i)] \in Seq(Cell) /\ Len([i \in 1..n |-> d(i)]) = n
        /\ [i \in 1..(m + n) |-> c(i)] \in Seq(Cell)
        /\ Len([i \in 1..(m + n) |-> c(i)]) = m + n
    BY <1>2, <1>3
  <1> DEFINE u == [i \in 1..m |-> c(i)]
             v == [i \in 1..n |-> d(i)]
             w == [i \in 1..(m + n) |-> c(i)]
  <1>5. /\ \A i \in 1..m : u[i] = c(i)
        /\ \A i \in 1..n : v[i] = c(m + i)
        /\ \A i \in 1..(m + n) : w[i] = c(i)
    BY <1>2
  <1> HIDE DEF u, v, w
  <1>6. u \o v \in Seq(Cell) /\ Len(u \o v) = m + n
    BY <1>4 DEF u, v
  <1>7. ASSUME NEW i \in 1..(m + n)
        PROVE  (u \o v)[i] = w[i]
    <2>1. Len(u) = m /\ Len(v) = n /\ u \in Seq(Cell) /\ v \in Seq(Cell)
      BY <1>4 DEF u, v
    <2>2. CASE i <= m
      BY <1>5, <2>1, <2>2
    <2>3. CASE i > m
      <3>1. i - m \in 1..n /\ m + (i - m) = i
        BY <2>3
      <3>2. (u \o v)[i] = v[i - m]
        BY <2>1, <2>3
      <3> QED BY <1>5, <3>1, <3>2
    <2>4. i <= m \/ i > m
      OBVIOUS
    <2> QED BY <2>2, <2>3, <2>4
  <1>8. u \o v = w
    <2>1. w \in Seq(Cell) /\ Len(w) = m + n
      BY <1>4 DEF w
    <2> QED BY <1>6, <1>7, <2>1
  <1> QED BY <1>1, <1>8 DEF u, v, w

(* Blocks that have the same cells are read alike.                          *)
LEMMA SliceEqual ==
    ASSUME NEW b \in Seq(Cell), NEW c \in Seq(Cell), NEW p \in Nat, NEW n \in Nat,
           p + n <= Len(b), p + n <= Len(c),
           \A i \in 1..n : b[p + i] = c[p + i]
    PROVE  Slice(b, p, n) = Slice(c, p, n)
  <1>1. \A i \in 1..n : p + i \in 1..Len(b) /\ p + i \in 1..Len(c)
    OBVIOUS
  <1> QED BY <1>1 DEF Slice

(* Nothing is read when nothing is asked for.                               *)
LEMMA SliceEmpty ==
    ASSUME NEW b, NEW p
    PROVE  Slice(b, p, 0) = <<>>
  BY DEF Slice

(* What went out and the l cells before offset a of b are all there is.     *)
Joined(sent, b, a, l, all) == sent \o Slice(b, a - l, l) = all

(* That stays so when the first n of the l cells go out and r are left.     *)
LEMMA PartGiven ==
    ASSUME NEW b \in Seq(Cell), NEW a \in Nat, NEW l \in Nat, NEW n \in Nat, n <= l, l <= a,
           NEW sent \in Seq(Cell), NEW all, Joined(sent, b, a, l, all),
           NEW given, given = sent \o Slice(b, a - l, n),
           NEW r, r = l - n
    PROVE  given \in Seq(Cell) /\ Joined(given, b, a, r, all)
  <1> DEFINE p == a - l
             m == l - n
             x == Slice(b, p, n)
             y == Slice(b, p + n, m)
  <1>1. p \in Nat /\ m \in Nat /\ n + m = l /\ p + n = a - m
    OBVIOUS
  <1> HIDE DEF p, m
  <1>2. p \in Int /\ p + n \in Int
    BY <1>1
  <1>3. x \in Seq(Cell) /\ y \in Seq(Cell)
    BY <1>1, <1>2, SliceType
  <1>4. Slice(b, p, n + m) = x \o y
    <2>1. p \in Int /\ m \in Nat
      BY <1>1, <1>2
    <2> QED BY <2>1, SliceConcat
  <1> HIDE DEF x, y
  <1>5. sent \o x \in Seq(Cell)
    BY <1>3
  <1>6. (sent \o x) \o y = sent \o (x \o y)
    BY <1>3, ConcatAssociates
  <1>7. Slice(b, p, l) = x \o y
    BY <1>1, <1>4
  <1>8. given = sent \o x /\ given \o y = all
    BY <1>6, <1>7 DEF x, p, Joined
  <1>9. Slice(b, a - r, r) = y
    BY <1>1 DEF y, m
  <1> QED BY <1>5, <1>8, <1>9 DEF Joined

(* realloc() keeps what is in the part that remains.                        *)
LEMMA ReallocSlice ==
    ASSUME NEW b \in Seq(Cell), NEW z \in Nat, NEW p \in Nat, NEW n \in Nat,
           p + n <= Len(b), p + n <= z
    PROVE  Slice(Realloc(b, z), p, n) = Slice(b, p, n)
  <1>1. /\ Realloc(b, z) \in Seq(Cell) /\ Len(Realloc(b, z)) = z
        /\ \A i \in 1..z : i <= Len(b) => Realloc(b, z)[i] = b[i]
    BY ReallocType
  <1>2. ASSUME NEW i \in 1..n
        PROVE  Realloc(b, z)[p + i] = b[p + i]
    <2>1. p + i \in 1..z /\ p + i <= Len(b)
      OBVIOUS
    <2> QED BY <1>1, <2>1
  <1> QED BY <1>1, <1>2, SliceEqual

(* memcpy() behind the data leaves it, followed by what was copied.         *)
LEMMA OverlaySlice ==
    ASSUME NEW b \in Seq(Cell), NEW s \in Seq(Cell), NEW p \in Nat, NEW n \in Nat,
           p + n + Len(s) <= Len(b)
    PROVE  Slice(Overlay(b, p + n, s), p, n + Len(s)) = Slice(b, p, n) \o s
  <1> DEFINE k == p + n
             o == Overlay(b, k, s)
  <1>1. k \in Int /\ k \in Nat /\ Len(s) \in Nat /\ k + Len(s) <= Len(b)
    OBVIOUS
  <1> HIDE DEF k
  <1>2. /\ o \in Seq(Cell) /\ Len(o) = Len(b)
        /\ \A i \in 1..Len(b) : o[i] = IF i - k \in 1..Len(s) THEN s[i - k] ELSE b[i]
    BY <1>1, OverlayType
  <1> HIDE DEF o
  <1>3. Slice(o, p, n) = Slice(b, p, n)
    <2>1. ASSUME NEW i \in 1..n
          PROVE  o[p + i] = b[p + i]
      <3>1. p + i \in 1..Len(b) /\ (p + i) - k \notin 1..Len(s)
        BY <1>1 DEF k
      <3> QED BY <1>2, <3>1
    <2>2. p + n <= Len(b)
      BY <1>1 DEF k
    <2> QED BY <1>2, <2>1, <2>2, SliceEqual
  <1>4. Slice(o, k, Len(s)) = s
    <2>1. /\ Slice(o, k, Len(s)) \in Seq(Cell)
          /\ Len(Slice(o, k, Len(s))) = Len(s)
          /\ \A i \in 1..Len(s) : k + i \in 1..Len(o) => Slice(o, k, Len(s))[i] = o[k + i]
      BY <1>1, <1>2, SliceType
    <2>2. ASSUME NEW i \in 1..Len(s)
          PROVE  Slice(o, k, Len(s))[i] = s[i]
      <3>1. k + i \in 1..Len(b) /\ (k + i) - k = i
        BY <1>1
      <3>2. o[k + i] = s[i]
        BY <1>2, <3>1
      <3> QED BY <1>2, <2>1, <3>1, <3>2
    <2> QED BY <2>1, <2>2
  <1>5. Slice(o, p, n + Len(s)) = Slice(o, p, n) \o Slice(o, p + n, Len(s))
    <2>1. o \in Seq(Cell) /\ p \in Int /\ n \in Nat /\ Len(s) \in Nat
      BY <1>1, <1>2
    <2> QED BY <2>1, SliceConcat
  <1> QED BY <1>3, <1>4, <1>5 DEF k, o

-----------------------------------------------------------------------------
(* What the encoder says of a message it has, or of none.                   *)
LEMMA EncodingType ==
    ASSUME NEW s \in EncoderState, NEW d \in Message \cup {NoDnstap}
    PROVE  /\ Encoding(s, d).cells \in Seq(Cell)
           /\ Encoding(s, d).next \in EncoderState
           /\ Encoding(s, d).res \in {"again", "ok", "endofdata", "error"}
           /\ Encoding(s, d).res = "ok" => s = "frames" /\ d \in Message
           /\ Encoding(s, d).res = "endofdata" <=> s \in {"control_finish", "control_stop"}
           /\ Encoding(s, d).res = "error" => Encoding(s, d).next = s
           /\ Encoding(s, d).res = "error" => Encoding(s, d).cells = <<>>
  <1>1. /\ \A t \in ControlType, k \in Nat : Control(t, k) \in Element
        /\ Field("dnstap") \in Element
        /\ \A m \in Message : Frame(m) \in Element
    BY DEF Control, Field, Frame, Element, FieldValue
  <1>2. /\ Cells(Control("READY", 1)) \in Seq(Cell)
        /\ Cells(Control("START", 1)) \in Seq(Cell)
        /\ Cells(Control("ACCEPT", 1)) \in Seq(Cell)
        /\ Cells(Control("STOP", 0)) \in Seq(Cell)
        /\ Cells(Control("FINISH", 0)) \in Seq(Cell)
        /\ Cells(Field("dnstap")) \in Seq(Cell)
        /\ d # NoDnstap => Cells(Frame(d)) \in Seq(Cell)
    BY <1>1, CellsType DEF ControlType
  <1>3. \A u, v \in Seq(Cell) : u \o v \in Seq(Cell)
    OBVIOUS
  <1>4. /\ Cells(Control("READY", 1)) \o Cells(Field("dnstap")) \in Seq(Cell)
        /\ Cells(Control("START", 1)) \o Cells(Field("dnstap")) \in Seq(Cell)
        /\ Cells(Control("ACCEPT", 1)) \o Cells(Field("dnstap")) \in Seq(Cell)
        /\ <<>> \in Seq(Cell)
    BY <1>2, <1>3
  <1> QED BY <1>2, <1>4 DEF Encoding, EncoderState

(* What was in the block b before offset at is in that of the outcome o,    *)
(* and what was encoded is behind it.                                       *)
Appends(o, b, at) ==
    \A p, l \in Nat : p + l = at =>
        Slice(o.buf, p, l + Len(o.cells)) = Slice(b, p, l) \o o.cells

(* _encoding() leaves what waits in the block and puts what it encodes      *)
(* behind it, however the block was expanded.                               *)
LEMMA EncodeLoopExtends ==
    ASSUME NEW s, NEW dnstap, NEW b \in Seq(Cell), NEW size \in Nat, NEW inc \in Nat,
           NEW max \in Nat, NEW at \in Nat, NEW fail \in BOOLEAN,
           size <= max, at <= size, size <= Len(b),
           Encoding(s, dnstap).cells \in Seq(Cell),
           NEW o \in EncodeLoop(s, dnstap, b, size, inc, max, at, fail)
    PROVE  Appends(o, b, at)
  <1> SUFFICES ASSUME NEW p \in Nat, NEW l \in Nat, p + l = at
               PROVE  Slice(o.buf, p, l + Len(o.cells)) = Slice(b, p, l) \o o.cells
    BY DEF Appends
  <1> DEFINE x == Encoding(s, dnstap)
             Sizes == Expansions(size, inc, max)
             Encoded(z) == [res |-> x.res, state |-> x.next, size |-> z, cells |-> x.cells,
                            buf |-> Overlay(Realloc(b, z), at, x.cells)]
             Failed(z, res) == [res |-> res, state |-> s, size |-> z, cells |-> <<>>,
                                buf |-> Realloc(b, z)]
  <1>1. /\ \A z \in Sizes : z \in Nat /\ size <= z
        /\ size \in Sizes
    BY ExpansionsType
  <1>2. /\ p \in Nat /\ p \in Int /\ p + l = at
        /\ Slice(b, p, l) \in Seq(Cell)
    BY SliceType
  <1>3. /\ \/ \E z \in Sizes : o = Encoded(z) /\ Len(x.cells) <= z - at
           \/ \E z \in Sizes : o = Failed(z, "error") \/ o = Failed(z, "abort")
        /\ x.cells \in Seq(Cell) /\ Len(x.cells) \in Nat
    BY <1>1 DEF EncodeLoop
  <1> HIDE DEF x, Sizes, Encoded, Failed
  <1>4. ASSUME NEW z \in Sizes
        PROVE  /\ Realloc(b, z) \in Seq(Cell) /\ Len(Realloc(b, z)) = z
               /\ Slice(Realloc(b, z), p, l) = Slice(b, p, l)
    <2>1. z \in Nat /\ p + l <= Len(b) /\ p + l <= z
      BY <1>1, <1>2
    <2> QED BY <1>2, <2>1, ReallocType, ReallocSlice
  <1>5. ASSUME NEW z \in Sizes, o = Encoded(z), Len(x.cells) <= z - at
        PROVE  Slice(o.buf, p, l + Len(o.cells)) = Slice(b, p, l) \o o.cells
    <2> DEFINE c == Realloc(b, z)
    <2>1. c \in Seq(Cell) /\ Len(c) = z /\ Slice(c, p, l) = Slice(b, p, l) /\ z \in Nat
      BY <1>1, <1>4
    <2> HIDE DEF c
    <2>2. p + l + Len(x.cells) <= Len(c)
      <3>1. Len(x.cells) <= z - at /\ Len(x.cells) \in Nat
        BY <1>3, <1>5
      <3>2. ASSUME NEW k \in Nat, NEW y \in Nat, k <= y - at
            PROVE  p + l + k <= y
        BY <1>2, <3>2
      <3> QED BY <2>1, <3>1, <3>2
    <2>3. Slice(Overlay(c, p + l, x.cells), p, l + Len(x.cells)) = Slice(c, p, l) \o x.cells
      <3>1. p \in Nat /\ x.cells \in Seq(Cell)
        BY <1>2, <1>3
      <3>2. ASSUME NEW t \in Seq(Cell), p + l + Len(t) <= Len(c)
            PROVE  Slice(Overlay(c, p + l, t), p, l + Len(t)) = Slice(c, p, l) \o t
        BY <2>1, <3>1, <3>2, OverlaySlice
      <3> QED BY <2>2, <3>1, <3>2
    <2>4. o.cells = x.cells /\ o.buf = Overlay(c, at, x.cells)
      BY <1>5 DEF c, Encoded
    <2> QED BY <1>2, <2>1, <2>3, <2>4
  <1>6. ASSUME NEW z \in Sizes, o = Failed(z, "error") \/ o = Failed(z, "abort")
        PROVE  Slice(o.buf, p, l + Len(o.cells)) = Slice(b, p, l) \o o.cells
    <2>1. o.buf = Realloc(b, z) /\ o.cells = <<>>
      BY <1>6 DEF Failed
    <2>2. Slice(o.buf, p, l) = Slice(b, p, l)
      BY <1>4, <2>1
    <2>3. l + Len(<<>>) = l /\ Slice(b, p, l) \o <<>> = Slice(b, p, l)
      BY <1>2
    <2> QED BY <2>1, <2>2, <2>3
  <1> QED BY <1>3, <1>5, <1>6

(* At the start of a block there is what was encoded, and nothing before it. *)
LEMMA EncodeLoopAtStart ==
    ASSUME NEW s, NEW dnstap, NEW b \in Seq(Cell), NEW size \in Nat, NEW inc \in Nat,
           NEW max \in Nat, NEW fail \in BOOLEAN, size <= max, size <= Len(b),
           Encoding(s, dnstap).cells \in Seq(Cell),
           NEW o \in EncodeLoop(s, dnstap, b, size, inc, max, 0, fail)
    PROVE  Slice(o.buf, 0, Len(o.cells)) = o.cells
  <1>1. o.cells \in Seq(Cell)
    BY EncodeLoopType
  <1>2. Appends(o, b, 0)
    BY EncodeLoopExtends
  <1>3. Slice(o.buf, 0, 0 + Len(o.cells)) = Slice(b, 0, 0) \o o.cells
    BY <1>2 DEF Appends
  <1>4. 0 + Len(o.cells) = Len(o.cells) /\ Slice(b, 0, 0) = <<>> /\ <<>> \o o.cells = o.cells
    BY <1>1, SliceEmpty
  <1> QED BY <1>3, <1>4

-----------------------------------------------------------------------------
(***************************************************************************)
(* What a sequence has at some of its positions.                           *)
(***************************************************************************)
(* The positions are counted from 1 to their number, each once and in their *)
(* order.                                                                   *)
LEMMA RankType ==
    ASSUME NEW n \in Nat, NEW I \in SUBSET (1..n)
    PROVE  /\ IsFiniteSet(I) /\ Cardinality(I) \in Nat
           /\ \A i \in I : Rank(I, i) \in 1..Cardinality(I)
           /\ \A i, j \in I : i < j => Rank(I, i) < Rank(I, j)
           /\ \A k \in 1..Cardinality(I) : \E i \in I : Rank(I, i) = k
<1>1. IsFiniteSet(I) /\ Cardinality(I) \in Nat
  <2>1. IsFiniteSet(1..n)
    BY FS_Interval
  <2> QED BY <2>1, FS_Subset, FS_CardinalityType
<1>2. \A i \in I : Rank(I, i) \in 1..Cardinality(I)
  <2> TAKE i \in I
  <2> DEFINE J == {j \in I : j <= i}
  <2>1. IsFiniteSet(J) /\ Cardinality(J) \in Nat /\ Cardinality(J) <= Cardinality(I)
    BY <1>1, FS_Subset, FS_CardinalityType
  <2>2. J # {}
    <3>1. i \in 1..n
      OBVIOUS
    <3>2. i \in J
      BY <3>1
    <3> QED BY <3>2
  <2>3. Cardinality(J) # 0
    BY <2>1, <2>2, FS_EmptySet
  <2> QED BY <1>1, <2>1, <2>3 DEF Rank
<1>3. \A i, j \in I : i < j => Rank(I, i) < Rank(I, j)
  <2> TAKE i, j \in I
  <2> HAVE i < j
  <2> DEFINE A == {h \in I : h <= i}  B == {h \in I : h <= j}
  <2>1. IsFiniteSet(B) /\ Cardinality(B) \in Nat
    BY <1>1, FS_Subset, FS_CardinalityType
  <2>2. A \in SUBSET B /\ A # B
    <3>1. I \subseteq 1..n /\ i \in 1..n /\ j \in 1..n
      OBVIOUS
    <3>2. j \in B /\ j \notin A
      BY <3>1
    <3>3. ASSUME NEW h \in I, h <= i
          PROVE  h <= j
      <4>1. h \in 1..n
        BY <3>1
      <4> QED BY <3>1, <3>3, <4>1
    <3> QED BY <3>2, <3>3
  <2>3. Cardinality(A) <= Cardinality(B) /\ Cardinality(A) # Cardinality(B)
    BY <2>1, <2>2, FS_Subset
  <2>4. Cardinality(A) \in Nat
    BY <2>1, <2>2, FS_Subset, FS_CardinalityType
  <2> QED BY <2>1, <2>3, <2>4 DEF Rank
<1>4. \A k \in 1..Cardinality(I) : \E i \in I : Rank(I, i) = k
  <2> DEFINE f == [i \in I |-> Rank(I, i)]
             K == 1..Cardinality(I)
  <2>1. f \in Injection(I, K)
    <3>1. f \in [I -> K]
      BY <1>2
    <3>2. ASSUME NEW i \in I, NEW j \in I, f[i] = f[j]
          PROVE  i = j
      <4>1. Rank(I, i) = Rank(I, j) /\ Rank(I, i) \in Int
        BY <3>2, <1>2
      <4>2. ~(i < j) /\ ~(j < i)
        BY <4>1, <1>3, <1>2
      <4> QED BY <4>2
    <3> HIDE DEF f, K
    <3> QED BY <3>1, <3>2 DEF Injection, IsInjective
  <2>2. IsFiniteSet(K) /\ Cardinality(K) = Cardinality(I)
    BY <1>1, FS_Interval
  <2> HIDE DEF K
  <2>3. f \in Surjection(I, K)
    BY <2>1, <2>2, FS_Injection
  <2>4. \A k \in K : \E i \in I : f[i] = k
    BY <2>3 DEF Surjection
  <2> QED BY <2>4 DEF K
<1> QED BY <1>1, <1>2, <1>3, <1>4

(* What is selected: what the sequence has there, counted so.               *)
LEMMA SelectedAt ==
    ASSUME NEW S, NEW s \in Seq(S), NEW I \in SUBSET DOMAIN s
    PROVE  /\ Selected(s, I) \in Seq(S)
           /\ Len(Selected(s, I)) = Cardinality(I)
           /\ \A i \in I : Selected(s, I)[Rank(I, i)] = s[i]
<1>1. Len(s) \in Nat /\ I \in SUBSET (1..Len(s))
  OBVIOUS
<1>2. /\ Cardinality(I) \in Nat
      /\ \A i \in I : Rank(I, i) \in 1..Cardinality(I)
      /\ \A i, j \in I : i < j => Rank(I, i) < Rank(I, j)
      /\ \A k \in 1..Cardinality(I) : \E i \in I : Rank(I, i) = k
  BY <1>1, RankType
<1>3. ASSUME NEW i \in I
      PROVE  (CHOOSE j \in I : Rank(I, j) = Rank(I, i)) = i
  <2>1. ASSUME NEW j \in I, Rank(I, j) = Rank(I, i)
        PROVE  j = i
    <3>1. ~(i < j) /\ ~(j < i)
      BY <2>1, <1>2
    <3>2. i \in Int /\ j \in Int
      BY <1>1
    <3> QED BY <3>1, <3>2
  <2> QED BY <2>1
<1>4. ASSUME NEW k \in 1..Cardinality(I)
      PROVE  (CHOOSE j \in I : Rank(I, j) = k) \in I
  BY <1>2
<1>5. \A k \in 1..Cardinality(I) : s[CHOOSE j \in I : Rank(I, j) = k] \in S
  BY <1>4
<1>6. Selected(s, I) \in Seq(S) /\ Len(Selected(s, I)) = Cardinality(I)
  BY <1>2, <1>5 DEF Selected
<1>7. ASSUME NEW i \in I
      PROVE  Selected(s, I)[Rank(I, i)] = s[i]
  BY <1>2, <1>3 DEF Selected
<1> QED BY <1>6, <1>7

-----------------------------------------------------------------------------
(***************************************************************************)
(* The payloads of the frames that begin in a run of cells.                *)
(***************************************************************************)
LEMMA HeadsType ==
    ASSUME NEW s \in Seq(Cell)
    PROVE  /\ Heads(s) \in SUBSET (1..Len(s)) /\ Heads(s) \in SUBSET DOMAIN s
           /\ \A i \in Heads(s) : s[i][1].what \in Message \cup {BadPayload}
<1>1. Heads(s) \in SUBSET (1..Len(s)) /\ Heads(s) \in SUBSET DOMAIN s
  BY DEF Heads
<1>2. ASSUME NEW i \in Heads(s)
      PROVE  s[i][1].what \in Message \cup {BadPayload}
  <2>1. s[i] \in Cell /\ s[i][1].kind = "frame"
    BY DEF Heads
  <2> QED BY <2>1 DEF Cell, Element
<1> QED BY <1>1, <1>2

LEMMA PayloadsAt ==
    ASSUME NEW s \in Seq(Cell)
    PROVE  /\ Payloads(s) \in Seq(Message \cup {BadPayload})
           /\ Len(Payloads(s)) = Cardinality(Heads(s))
           /\ \A i \in Heads(s) : Payloads(s)[Rank(Heads(s), i)] = s[i][1].what
<1> DEFINE H == Heads(s)
<1>1. /\ H \in SUBSET (1..Len(s)) /\ H \in SUBSET DOMAIN s
      /\ \A i \in H : s[i][1].what \in Message \cup {BadPayload}
  BY HeadsType
<1> HIDE DEF H
<1>2. /\ Cardinality(H) \in Nat
      /\ \A i \in H : Rank(H, i) \in 1..Cardinality(H)
      /\ \A k \in 1..Cardinality(H) : \E i \in H : Rank(H, i) = k
  <2>1. Len(s) \in Nat
    OBVIOUS
  <2> QED BY <1>1, <2>1, RankType
<1>3. /\ Len(Selected(s, H)) = Cardinality(H)
      /\ \A i \in H : Selected(s, H)[Rank(H, i)] = s[i]
  BY <1>1, SelectedAt
<1>4. Payloads(s) = [k \in 1..Cardinality(H) |-> Selected(s, H)[k][1].what]
  BY <1>3 DEF Payloads, H
<1>5. \A k \in 1..Cardinality(H) : Selected(s, H)[k][1].what \in Message \cup {BadPayload}
  BY <1>1, <1>2, <1>3
<1>6. Payloads(s) \in Seq(Message \cup {BadPayload}) /\ Len(Payloads(s)) = Cardinality(H)
  BY <1>2, <1>4, <1>5
<1>7. \A i \in H : Payloads(s)[Rank(H, i)] = s[i][1].what
  BY <1>2, <1>3, <1>4
<1> QED BY <1>6, <1>7 DEF H

(* They are the only sequence with that length and these elements.          *)
LEMMA PayloadsOnly ==
    ASSUME NEW s \in Seq(Cell), NEW p \in Seq(Message \cup {BadPayload}),
           Len(p) = Cardinality(Heads(s)),
           \A i \in Heads(s) : p[Rank(Heads(s), i)] = s[i][1].what
    PROVE  p = Payloads(s)
<1> DEFINE H == Heads(s)  q == Payloads(s)
<1>1. H \in SUBSET (1..Len(s)) /\ Len(s) \in Nat
  BY HeadsType
<1>2. q \in Seq(Message \cup {BadPayload}) /\ Len(q) = Cardinality(H)
  BY PayloadsAt
<1>3. \A i \in H : q[Rank(H, i)] = s[i][1].what
  BY PayloadsAt
<1>4. \A i \in H : p[Rank(H, i)] = s[i][1].what
  OBVIOUS
<1>5. Len(p) = Cardinality(H)
  OBVIOUS
<1> HIDE DEF H, q
<1>6. \A k \in 1..Cardinality(H) : \E i \in H : Rank(H, i) = k
  BY <1>1, RankType
<1>7. \A k \in 1..Len(p) : p[k] = q[k]
  BY <1>3, <1>4, <1>5, <1>6
<1>8. p = q
  BY <1>2, <1>5, <1>7
<1> QED BY <1>8 DEF q

(* As many positions in two sequences as in the one put behind the other.   *)
LEMMA ShiftedCardinality ==
    ASSUME NEW n \in Nat, NEW m \in Nat, NEW H \in SUBSET (1..n), NEW G \in SUBSET (1..m)
    PROVE  Cardinality(H \cup {n + j : j \in G}) = Cardinality(H) + Cardinality(G)
<1> DEFINE T == {n + j : j \in G}
<1>1. IsFiniteSet(H) /\ IsFiniteSet(G) /\ Cardinality(H) \in Nat /\ Cardinality(G) \in Nat
  <2>1. IsFiniteSet(1..n) /\ IsFiniteSet(1..m)
    BY FS_Interval
  <2> QED BY <2>1, FS_Subset, FS_CardinalityType
<1>2. H \cap T = {}
  <2>1. ASSUME NEW j \in G
        PROVE  n + j \notin H
    <3>1. j \in 1..m /\ H \subseteq 1..n
      OBVIOUS
    <3> QED BY <3>1
  <2> QED BY <2>1
<1>3. IsFiniteSet(T) /\ Cardinality(T) = Cardinality(G)
  <2> DEFINE f == [j \in G |-> n + j]
  <2>1. f \in [G -> T]
    OBVIOUS
  <2>2. ASSUME NEW i \in G, NEW j \in G, f[i] = f[j]
        PROVE  i = j
    <3>1. i \in 1..m /\ j \in 1..m
      OBVIOUS
    <3> QED BY <2>2, <3>1
  <2>3. \A t \in T : \E j \in G : f[j] = t
    OBVIOUS
  <2> HIDE DEF f, T
  <2>4. f \in Injection(G, T)
    BY <2>1, <2>2 DEF Injection, IsInjective
  <2>5. f \in Surjection(G, T)
    BY <2>1, <2>3 DEF Surjection
  <2>6. ExistsBijection(G, T)
    BY <2>4, <2>5 DEF ExistsBijection, Bijection
  <2> QED BY <1>1, <2>6, FS_Bijection
<1>4. Cardinality(H \cup T) = Cardinality(H) + Cardinality(T) - Cardinality(H \cap T)
  BY <1>1, <1>3, FS_Union
<1>5. Cardinality(H \cap T) = 0
  BY <1>2, FS_EmptySet
<1> HIDE DEF T
<1>6. Cardinality(H \cup T) = Cardinality(H) + Cardinality(G)
  BY <1>1, <1>3, <1>4, <1>5
<1> QED BY <1>6 DEF T

(* The payloads of two runs of cells, one behind the other.                 *)
LEMMA PayloadsConcat ==
    ASSUME NEW s \in Seq(Cell), NEW t \in Seq(Cell)
    PROVE  Payloads(s \o t) = Payloads(s) \o Payloads(t)
<1> DEFINE n == Len(s)  m == Len(t)  H == Heads(s)  G == Heads(t)
           u == s \o t  p == Payloads(s)  q == Payloads(t)
           T == {n + j : j \in G}
           P == Message \cup {BadPayload}
<1>1. /\ n \in Nat /\ m \in Nat /\ u \in Seq(Cell) /\ Len(u) = n + m
      /\ \A i \in 1..n : u[i] = s[i]
      /\ \A i \in 1..m : u[n + i] = t[i]
  OBVIOUS
<1>2. H \in SUBSET (1..n) /\ G \in SUBSET (1..m)
  BY HeadsType
<1>3. Heads(u) = H \cup T
  <2>1. ASSUME NEW i \in Heads(u)
        PROVE  i \in H \cup T
    <3>1. i \in 1..(n + m) /\ u[i][1].kind = "frame" /\ u[i][2] = 1
      BY <1>1 DEF Heads
    <3>2. CASE i <= n
      <4>1. i \in 1..n
        BY <3>1, <3>2
      <4> QED BY <1>1, <3>1, <4>1 DEF Heads
    <3>3. CASE i > n
      <4>1. i - n \in 1..m /\ i = n + (i - n)
        BY <1>1, <3>1, <3>3
      <4>2. i - n \in G
        BY <1>1, <3>1, <4>1 DEF Heads
      <4> QED BY <4>1, <4>2
    <3> QED BY <1>1, <3>1, <3>2, <3>3
  <2>2. ASSUME NEW i \in H
        PROVE  i \in Heads(u)
    <3>1. i \in 1..n /\ i \in 1..(n + m)
      BY <1>1, <1>2
    <3> QED BY <1>1, <3>1 DEF Heads
  <2>3. ASSUME NEW j \in G
        PROVE  n + j \in Heads(u)
    <3>1. j \in 1..m /\ n + j \in 1..(n + m)
      BY <1>1, <1>2
    <3> QED BY <1>1, <3>1 DEF Heads
  <2> QED BY <2>1, <2>2, <2>3
<1>4. /\ p \in Seq(P) /\ Len(p) = Cardinality(H)
      /\ \A i \in H : p[Rank(H, i)] = s[i][1].what
  BY PayloadsAt
<1>5. /\ q \in Seq(P) /\ Len(q) = Cardinality(G)
      /\ \A j \in G : q[Rank(G, j)] = t[j][1].what
  BY PayloadsAt
<1>6. /\ \A i \in H : Rank(H, i) \in 1..Cardinality(H)
      /\ \A j \in G : Rank(G, j) \in 1..Cardinality(G)
      /\ Cardinality(H) \in Nat /\ Cardinality(G) \in Nat
  BY <1>1, <1>2, RankType
<1> HIDE DEF n, m, u, p, q, H, G, P
<1>7. Len(p \o q) = Cardinality(H \cup T) /\ p \o q \in Seq(P)
  <2>1. Cardinality(H \cup T) = Cardinality(H) + Cardinality(G)
    BY <1>1, <1>2, ShiftedCardinality
  <2> HIDE DEF T
  <2>2. p \o q \in Seq(P) /\ Len(p \o q) = Len(p) + Len(q)
    <3>1. p \in Seq(P) /\ q \in Seq(P)
      BY <1>4, <1>5
    <3> QED BY <3>1
  <2>3. Len(p) = Cardinality(H) /\ Len(q) = Cardinality(G)
    BY <1>4, <1>5
  <2> QED BY <2>1, <2>2, <2>3
<1>8. ASSUME NEW i \in H
      PROVE  (p \o q)[Rank(H \cup T, i)] = u[i][1].what
  <2>1. {j \in H \cup T : j <= i} = {j \in H : j <= i}
    <3>1. i \in 1..n /\ \A j \in G : j \in 1..m
      BY <1>2
    <3>2. \A j \in G : ~(n + j <= i)
      BY <1>1, <3>1
    <3> QED BY <3>2
  <2>2. Rank(H \cup T, i) = Rank(H, i)
    BY <2>1 DEF Rank
  <2>3. (p \o q)[Rank(H, i)] = p[Rank(H, i)]
    BY <1>4, <1>5, <1>6
  <2>4. u[i] = s[i]
    BY <1>1, <1>2
  <2> QED BY <2>2, <2>3, <2>4, <1>4
<1>9. ASSUME NEW j \in G
      PROVE  (p \o q)[Rank(H \cup T, n + j)] = u[n + j][1].what
  <2> DEFINE K == {h \in G : h <= j}
  <2>1. {h \in H \cup T : h <= n + j} = H \cup {n + h : h \in K}
    <3>1. j \in 1..m /\ (\A h \in G : h \in 1..m) /\ (\A h \in H : h \in 1..n)
      BY <1>2
    <3>2. \A h \in H : h <= n + j
      BY <1>1, <3>1
    <3>3. \A h \in G : n + h <= n + j <=> h <= j
      BY <1>1, <3>1
    <3> QED BY <3>2, <3>3
  <2>2. K \in SUBSET (1..m)
    BY <1>2
  <2>3. Cardinality(H \cup {n + h : h \in K}) = Cardinality(H) + Cardinality(K)
    <3> HIDE DEF K
    <3> QED BY <1>1, <1>2, <2>2, ShiftedCardinality
  <2>4. Rank(H \cup T, n + j) = Cardinality(H) + Rank(G, j)
    BY <2>1, <2>3 DEF Rank
  <2>5. (p \o q)[Cardinality(H) + Rank(G, j)] = q[Rank(G, j)]
    BY <1>4, <1>5, <1>6
  <2>6. u[n + j] = t[j]
    BY <1>1, <1>2
  <2> QED BY <2>4, <2>5, <2>6, <1>5
<1>10. \A i \in Heads(u) : (p \o q)[Rank(Heads(u), i)] = u[i][1].what
  BY <1>3, <1>8, <1>9
<1>11. Len(p \o q) = Cardinality(Heads(u))
  BY <1>3, <1>7
<1>12. p \o q = Payloads(u)
  <2> DEFINE pq == p \o q
  <2>1. pq \in Seq(P) /\ Len(pq) = Cardinality(Heads(u)) /\ u \in Seq(Cell)
    BY <1>1, <1>7, <1>11
  <2>2. \A i \in Heads(u) : pq[Rank(Heads(u), i)] = u[i][1].what
    BY <1>10
  <2> HIDE DEF pq
  <2>3. pq = Payloads(u)
    BY <2>1, <2>2, PayloadsOnly DEF P
  <2> QED BY <2>3 DEF pq
<1> QED BY <1>12 DEF u, p, q

(* A whole element has a payload if it is a frame.                          *)
LEMMA PayloadsCells ==
    ASSUME NEW e \in Element
    PROVE  Payloads(Cells(e)) = IF e.kind = "frame" THEN <<e.what>> ELSE <<>>
<1> DEFINE s == Cells(e)  H == Heads(s)
<1>1. s \in Seq(Cell) /\ Len(s) = Size(e) /\ Size(e) \in Nat \ {0}
      /\ \A i \in 1..Size(e) : s[i] = <<e, i>>
  BY LengthAssumption DEF Cells, Size, Cell
<1>2. H = IF e.kind = "frame" THEN {1} ELSE {}
  <2>1. 1 \in 1..Size(e)
    BY <1>1
  <2>2. DOMAIN s = 1..Size(e)
    BY <1>1
  <2> HIDE DEF s
  <2>3. \A i \in DOMAIN s : s[i][1] = e /\ s[i][2] = i
    BY <1>1, <2>2
  <2> QED BY <2>1, <2>2, <2>3 DEF Heads
<1>3. CASE e.kind = "frame"
  <2>1. H = {1} /\ Cardinality(H) = 1
    BY <1>2, <1>3, FS_Singleton
  <2>2. {j \in {1} : j <= 1} = {1}
    OBVIOUS
  <2>3. Rank(H, 1) = 1
    BY <2>1, <2>2 DEF Rank
  <2>4. s[1][1].what = e.what /\ e.what \in Message \cup {BadPayload}
    BY <1>1, <1>3 DEF Element
  <2>5. <<e.what>> \in Seq(Message \cup {BadPayload}) /\ Len(<<e.what>>) = 1 /\ <<e.what>>[1] = e.what
    BY <2>4
  <2> HIDE DEF s
  <2>6. \A i \in Heads(s) : <<e.what>>[Rank(Heads(s), i)] = s[i][1].what
    BY <2>1, <2>3, <2>4, <2>5
  <2>7. <<e.what>> = Payloads(s)
    BY <1>1, <2>1, <2>5, <2>6, PayloadsOnly
  <2> QED BY <1>3, <2>7 DEF s
<1>4. CASE e.kind # "frame"
  <2>1. H = {} /\ Cardinality(H) = 0
    BY <1>2, <1>4, FS_EmptySet
  <2> HIDE DEF s
  <2>2. <<>> = Payloads(s)
    <3>1. <<>> \in Seq(Message \cup {BadPayload}) /\ Len(<<>>) = 0
      OBVIOUS
    <3> QED BY <1>1, <2>1, <3>1, PayloadsOnly
  <2> QED BY <1>4, <2>2 DEF s
<1> QED BY <1>3, <1>4

LEMMA PayloadsNone ==
    Payloads(<<>>) = <<>>
<1>1. <<>> \in Seq(Cell) /\ Heads(<<>>) = {}
  BY DEF Heads
<1>2. Payloads(<<>>) \in Seq(Message \cup {BadPayload}) /\ Len(Payloads(<<>>)) = 0
  BY <1>1, PayloadsAt, FS_EmptySet
<1> QED BY <1>2

(* What the encoder puts on the wire has a payload, the message it was      *)
(* given, when it returns ok, and none when it does not.                    *)
LEMMA EncodingPayloads ==
    ASSUME NEW s \in EncoderState, NEW d \in Message \cup {NoDnstap}
    PROVE  /\ Encoding(s, d).res = "ok" => /\ Payloads(Encoding(s, d).cells) = <<d>>
                                          /\ Len(Encoding(s, d).cells) > 0
           /\ Encoding(s, d).res # "ok" => Payloads(Encoding(s, d).cells) = <<>>
<1> DEFINE F == Cells(Field("dnstap"))
           C(t, n) == Cells(Control(t, n))
<1>1. /\ Field("dnstap") \in Element /\ Field("dnstap").kind = "field"
      /\ \A t \in ControlType, n \in Nat : Control(t, n) \in Element
      /\ \A t \in ControlType, n \in Nat : Control(t, n).kind = "control"
  BY DEF Field, Control, Element, FieldValue
<1>2. F \in Seq(Cell) /\ Payloads(F) = <<>>
  BY <1>1, CellsType, PayloadsCells
<1>3. \A t \in ControlType, n \in Nat : C(t, n) \in Seq(Cell) /\ Payloads(C(t, n)) = <<>>
  BY <1>1, CellsType, PayloadsCells
<1>4. ASSUME NEW t \in {"READY", "START", "ACCEPT"}
      PROVE  Payloads(C(t, 1) \o F) = <<>>
  <2>1. C(t, 1) \in Seq(Cell) /\ Payloads(C(t, 1)) = <<>>
    <3>1. t \in ControlType /\ 1 \in Nat
      BY DEF ControlType
    <3> HIDE DEF C
    <3> QED BY <1>3, <3>1
  <2> HIDE DEF C, F
  <2>2. Payloads(C(t, 1) \o F) = Payloads(C(t, 1)) \o Payloads(F)
    BY <1>2, <2>1, PayloadsConcat
  <2> QED BY <1>2, <2>1, <2>2
<1>5. Payloads(C("STOP", 0)) = <<>> /\ Payloads(C("FINISH", 0)) = <<>>
  <2>1. "STOP" \in ControlType /\ "FINISH" \in ControlType /\ 0 \in Nat
    BY DEF ControlType
  <2> HIDE DEF C
  <2> QED BY <1>3, <2>1
<1>6. ASSUME d \in Message
      PROVE  Payloads(Cells(Frame(d))) = <<d>> /\ Len(Cells(Frame(d))) > 0
  <2>1. Frame(d) \in Element /\ Frame(d).kind = "frame" /\ Frame(d).what = d
    BY <1>6 DEF Frame, Element
  <2>2. Payloads(Cells(Frame(d))) = <<d>>
    BY <2>1, PayloadsCells
  <2>3. Len(Cells(Frame(d))) > 0
    BY <2>1, CellsType
  <2> QED BY <2>2, <2>3
<1>7. Encoding(s, d).res = "ok" => d \in Message
  BY EncodingType
<1>8. Encoding(s, d).res = "ok" => Encoding(s, d).cells = Cells(Frame(d))
  BY DEF Encoding
<1>9. Encoding(s, d).res # "ok" =>
        Encoding(s, d).cells \in {C("READY", 1) \o F, C("START", 1) \o F, C("ACCEPT", 1) \o F,
                                 C("STOP", 0), C("FINISH", 0), <<>>}
  BY DEF Encoding
<1> HIDE DEF C, F
<1>10. \A x \in {C("READY", 1) \o F, C("START", 1) \o F, C("ACCEPT", 1) \o F,
                 C("STOP", 0), C("FINISH", 0), <<>>} : Payloads(x) = <<>>
  BY <1>4, <1>5, PayloadsNone
<1> QED BY <1>6, <1>7, <1>8, <1>9, <1>10

-----------------------------------------------------------------------------
(***************************************************************************)
(* What is left of a sequence when elements are taken out of it.           *)
(***************************************************************************)
(* s is p without some of its elements: f says where those of s come from.   *)
Picks(f, s, p) ==
    /\ s = [i \in 1..Len(s) |-> p[f[i]]]
    /\ f \in [1..Len(s) -> DOMAIN p]
    /\ \A i, j \in 1..Len(s) : i < j => f[i] < f[j]

LEMMA SubsequencesPick ==
    ASSUME NEW S, NEW p \in Seq(S), NEW s \in Seq(S)
    PROVE  s \in Subsequences(p) <=> Len(s) <= Len(p) /\ \E f : Picks(f, s, p)
<1>1. Len(s) \in Nat /\ Len(p) \in Nat /\ DOMAIN s = 1..Len(s) /\ DOMAIN p = 1..Len(p)
  OBVIOUS
<1>2. ASSUME s \in Subsequences(p)
      PROVE  Len(s) <= Len(p) /\ \E f : Picks(f, s, p)
  <2>1. PICK n \in 0..Len(p) :
            \E f \in {g \in [1..n -> DOMAIN p] : \A i, j \in 1..n : i < j => g[i] < g[j]} :
                s = [i \in 1..n |-> p[f[i]]]
    BY <1>2 DEF Subsequences
  <2>2. n \in Nat /\ n <= Len(p)
    BY <1>1, <2>1
  <2>3. DOMAIN s = 1..n
    BY <2>1
  <2>4. Len(s) = n
    <3> DEFINE k == Len(s)
    <3>1. k \in Nat /\ \A i : i \in 1..n <=> i \in 1..k
      BY <1>1, <2>3
    <3> HIDE DEF k
    <3>2. k > 0 => k <= n
      <4>1. k > 0 => k \in 1..k
        BY <3>1
      <4>2. k > 0 => k \in 1..n
        BY <3>1, <4>1
      <4> QED BY <2>2, <4>2
    <3>3. n > 0 => n <= k
      <4>1. n > 0 => n \in 1..n
        BY <2>2
      <4>2. n > 0 => n \in 1..k
        BY <3>1, <4>1
      <4> QED BY <3>1, <4>2
    <3> QED BY <2>2, <3>1, <3>2, <3>3 DEF k
  <2> QED BY <2>1, <2>2, <2>4 DEF Picks
<1>3. ASSUME Len(s) <= Len(p), NEW f, Picks(f, s, p)
      PROVE  s \in Subsequences(p)
  <2>1. Len(s) \in 0..Len(p)
    BY <1>1, <1>3
  <2>2. f \in {g \in [1..Len(s) -> DOMAIN p] : \A i, j \in 1..Len(s) : i < j => g[i] < g[j]}
    BY <1>3 DEF Picks
  <2> QED BY <1>3, <2>1, <2>2 DEF Subsequences, Picks
<1> QED BY <1>2, <1>3

(* It still is when p goes on.                                              *)
LEMMA SubsequencesGrow ==
    ASSUME NEW S, NEW p \in Seq(S), NEW q \in Seq(S), NEW s \in Seq(S), s \in Subsequences(p)
    PROVE  s \in Subsequences(p \o q)
<1> DEFINE u == p \o q
<1>1. /\ u \in Seq(S) /\ Len(p) <= Len(u) /\ Len(p) \in Nat /\ Len(u) \in Nat
      /\ DOMAIN p \subseteq DOMAIN u
      /\ \A i \in DOMAIN p : u[i] = p[i]
  OBVIOUS
<1> HIDE DEF u
<1>2. PICK f : Picks(f, s, p)
  BY SubsequencesPick
<1>3. Len(s) <= Len(p) /\ Len(s) \in Nat
  BY SubsequencesPick
<1>4. Picks(f, s, u)
  <2>1. /\ f \in [1..Len(s) -> DOMAIN p] /\ s = [i \in 1..Len(s) |-> p[f[i]]]
        /\ \A i, j \in 1..Len(s) : i < j => f[i] < f[j]
    BY <1>2 DEF Picks
  <2>2. f \in [1..Len(s) -> DOMAIN u]
    BY <1>1, <2>1
  <2>3. \A i \in 1..Len(s) : u[f[i]] = p[f[i]]
    BY <1>1, <2>1
  <2>4. s = [i \in 1..Len(s) |-> u[f[i]]]
    BY <2>1, <2>3
  <2> QED BY <2>1, <2>2, <2>4 DEF Picks
<1>5. u \in Seq(S) /\ Len(s) <= Len(u)
  BY <1>1, <1>3
<1>6. s \in Subsequences(u)
  BY <1>4, <1>5, SubsequencesPick
<1> QED BY <1>6 DEF u

(* Or when the same element is put behind both.                             *)
LEMMA SubsequencesAppend ==
    ASSUME NEW S, NEW p \in Seq(S), NEW s \in Seq(S), NEW e \in S, s \in Subsequences(p)
    PROVE  Append(s, e) \in Subsequences(p \o <<e>>)
<1> DEFINE u == p \o <<e>>
           t == Append(s, e)
           n == Len(s)
           m == Len(p)
<1>1. /\ u \in Seq(S) /\ Len(u) = m + 1 /\ m \in Nat
      /\ DOMAIN u = 1..(m + 1) /\ DOMAIN p = 1..m
      /\ \A i \in 1..m : u[i] = p[i]
      /\ u[m + 1] = e
  OBVIOUS
<1>2. /\ t \in Seq(S) /\ Len(t) = n + 1 /\ n \in Nat
      /\ \A i \in 1..n : t[i] = s[i]
      /\ t[n + 1] = e
      /\ t = [i \in 1..(n + 1) |-> t[i]]
  <2>1. /\ t \in Seq(S) /\ Len(t) = n + 1 /\ n \in Nat
        /\ \A i \in 1..n : t[i] = s[i]
        /\ t[n + 1] = e
    OBVIOUS
  <2> HIDE DEF t
  <2>2. t = [i \in 1..Len(t) |-> t[i]]
    BY <2>1
  <2> QED BY <2>1, <2>2
<1>3. PICK f : Picks(f, s, p)
  BY SubsequencesPick
<1>4. n <= m
  BY SubsequencesPick
<1> DEFINE g == [i \in 1..(n + 1) |-> IF i <= n THEN f[i] ELSE m + 1]
<1>5. /\ f \in [1..n -> 1..m] /\ s = [i \in 1..n |-> p[f[i]]]
      /\ \A i, j \in 1..n : i < j => f[i] < f[j]
  BY <1>1, <1>3 DEF Picks
<1> HIDE DEF u, t, n, m
<1>6. \A i \in 1..n : i \in 1..(n + 1) /\ g[i] = f[i] /\ f[i] \in 1..m
  BY <1>2, <1>5
<1>7. g[n + 1] = m + 1 /\ n + 1 \in 1..(n + 1)
  BY <1>2
<1>8. \A i \in 1..(n + 1) : i \in 1..n \/ i = n + 1
  BY <1>2
<1>9. g \in [1..(n + 1) -> 1..(m + 1)]
  <2>1. \A k \in 1..m : k \in 1..(m + 1)
    BY <1>1
  <2>2. m + 1 \in 1..(m + 1)
    BY <1>1
  <2>3. ASSUME NEW i \in 1..(n + 1)
        PROVE  g[i] \in 1..(m + 1)
    <3> HIDE DEF g
    <3> QED BY <1>6, <1>7, <1>8, <2>1, <2>2
  <2>4. g = [i \in 1..(n + 1) |-> g[i]]
    OBVIOUS
  <2> HIDE DEF g
  <2> QED BY <2>3, <2>4
<1> HIDE DEF g
<1>10. ASSUME NEW i \in 1..(n + 1)
       PROVE  t[i] = u[g[i]]
  <2>1. CASE i \in 1..n
    <3>1. t[i] = s[i] /\ g[i] = f[i] /\ f[i] \in 1..m
      BY <1>2, <1>6, <2>1
    <3>2. s[i] = p[f[i]]
      BY <1>5, <2>1
    <3> QED BY <1>1, <3>1, <3>2
  <2>2. CASE i = n + 1
    BY <1>1, <1>2, <1>7, <2>2
  <2> QED BY <1>8, <2>1, <2>2
<1>11. ASSUME NEW i \in 1..(n + 1), NEW j \in 1..(n + 1), i < j
       PROVE  g[i] < g[j]
  <2>1. i \in 1..n
    BY <1>2, <1>11
  <2>2. CASE j \in 1..n
    BY <1>5, <1>6, <1>11, <2>1, <2>2
  <2>3. CASE j = n + 1
    BY <1>1, <1>6, <1>7, <2>1, <2>3
  <2> QED BY <1>8, <2>2, <2>3
<1>12. Picks(g, t, u)
  <2>1. t = [i \in 1..(n + 1) |-> u[g[i]]]
    BY <1>2, <1>10
  <2> QED BY <1>1, <1>2, <1>9, <1>11, <2>1 DEF Picks
<1>13. Len(t) <= Len(u)
  BY <1>1, <1>2, <1>4
<1>14. t \in Subsequences(u)
  BY <1>1, <1>2, <1>12, <1>13, SubsequencesPick
<1> QED BY <1>14 DEF t, u

-----------------------------------------------------------------------------
(***************************************************************************)
(* dnswire_decoder_decode(): how much it consumes, when it has a message   *)
(* and when a READY or ACCEPT is complete; and that an orderly stream is   *)
(* decoded without an error.                                               *)
(***************************************************************************)
DecodeResult == {"need_more", "again", "bidirectional", "have_dnstap", "endofdata", "error"}

(* The results after which the reader and the writer take the decoded       *)
(* element out of their buffer.                                             *)
Consuming == {"again", "bidirectional", "have_dnstap"}

(* The states of a decoder that may still meet the handshake.               *)
Early == {"reading_control", "checking_ready", "checking_accept"}

(* tinyframe_read() reads no more than it is given, and at least one cell   *)
(* when it reads anything.                                                  *)
LEMMA TinyReadType ==
    ASSUME NEW r \in TinyReader, NEW w \in Seq(Cell), w # <<>>
    PROVE  LET t == TinyRead(r, w) IN
           /\ t.reader \in TinyReader
           /\ t.el \in Element
           /\ t.res \in {"need_more", "error", "stopped", "finished", "have_control",
                         "have_control_field", "have_frame"}
           /\ t.res \notin {"need_more", "error"} => t.n \in 1..Len(w)
           /\ t.res = "have_frame" => t.el.kind = "frame"
  <1> DEFINE e == w[1][1]
  <1>1. e \in Element /\ Size(e) \in Nat \ {0}
    BY CellsType DEF Cell
  <1>2. CASE Len(w) < Size(e)
    BY <1>1, <1>2 DEF TinyRead
  <1>3. CASE Len(w) >= Size(e) /\ (~Whole(w, e) \/ ~Expected(r, e))
    BY <1>1, <1>3 DEF TinyRead
  <1> DEFINE Read(x) == [res |-> x.res, reader |-> x.reader, el |-> e, n |-> Size(e)]
  <1>4. CASE Len(w) >= Size(e) /\ Whole(w, e) /\ Expected(r, e)
    <2>1. TinyRead(r, w) = CASE e.kind = "control" -> Read(ReadControl(r, e))
                             [] e.kind = "field"   -> Read(ReadField(r))
                             [] OTHER -> Read([res |-> "have_frame", reader |-> r])
      BY <1>1, <1>4 DEF TinyRead
    <2>2. CASE e.kind = "control"
      <3>1. e.what \in ControlType /\ e.fields \in Nat
        BY <1>1, <2>2 DEF Element
      <3>2. /\ ReadControl(r, e).reader \in TinyReader
            /\ ReadControl(r, e).res \in {"stopped", "finished", "have_control"}
        BY <3>1 DEF ReadControl, TinyReader, AfterFields
      <3> QED BY <1>1, <1>4, <2>1, <2>2, <3>2
    <2>3. CASE e.kind = "field"
      <3>1. r.fields - 1 \in Nat
        BY <1>4, <2>3 DEF Expected, TinyReader
      <3>2. /\ ReadField(r).reader \in TinyReader
            /\ ReadField(r).res = "have_control_field"
        BY <3>1 DEF ReadField, TinyReader, AfterFields, ControlType
      <3> QED BY <1>1, <1>4, <2>1, <2>3, <3>2
    <2>4. CASE e.kind \notin {"control", "field"}
      BY <1>1, <1>4, <2>1, <2>4 DEF Expected
    <2> QED BY <2>2, <2>3, <2>4
  <1> QED BY <1>1, <1>2, <1>3, <1>4

(* The decoder goes on only when something was read, hands over only what  *)
(* unpacked, and once the handshake is complete or over it never returns to *)
(* it: a second READY is not answered.                                      *)
LEMMA VerdictType ==
    ASSUME NEW d \in DecoderType, NEW t, t.el \in Element,
           t.res = "have_frame" => t.el.kind = "frame"
    PROVE  LET v == Verdict(d, t) IN
           /\ v.res \in DecodeResult /\ v.state \in DecoderState
           /\ v.res \in Consuming => t.res \in {"have_control", "have_control_field", "have_frame"}
           /\ v.res = "have_dnstap" => t.el.what \in Message
           /\ v.state \in Early => d.state \in Early
           /\ v.res = "bidirectional" => d.state \in Early /\ v.state \notin Early
           /\ v.res = "endofdata" => v.state \notin Early
  <1>1. d.state \in DecoderState
    BY DEF DecoderType
  <1>2. t.el.kind = "frame" /\ t.el.what # BadPayload => t.el.what \in Message
    BY DEF Element
  <1> QED BY ZenonT(30), <1>1, <1>2 DEF Verdict, DecodeResult, Consuming, Early, DecoderState

(* The decoder consumes part of what it is given and never nothing: no call *)
(* that is told to go on goes on without having moved.                      *)
LEMMA DecodeType ==
    ASSUME NEW d \in DecoderType, NEW w \in Seq(Cell), w # <<>>
    PROVE  LET r == Decode(d, w) IN
           /\ r.decoder \in DecoderType
           /\ r.res \in DecodeResult
           /\ r.res \in Consuming => r.n \in 1..Len(w)
           /\ r.res = "have_dnstap" => r.msg \in Message
           /\ r.decoder.state \in Early => d.state \in Early
           /\ r.res = "bidirectional" => d.state \in Early /\ r.decoder.state \notin Early
           /\ r.res = "endofdata" => r.decoder.state \notin Early
  <1> DEFINE t == TinyRead(d.reader, w)
             v == Verdict(d, t)
  <1>1. /\ t.reader \in TinyReader
        /\ t.el \in Element
        /\ t.res \in {"have_control", "have_control_field", "have_frame"} => t.n \in 1..Len(w)
        /\ t.res = "have_frame" => t.el.kind = "frame"
    BY TinyReadType DEF DecoderType
  <1>2. /\ d.ready_support_dnstap_protobuf \in BOOLEAN
        /\ d.accept_support_dnstap_protobuf \in BOOLEAN
    BY DEF DecoderType
  <1> HIDE DEF t
  <1>3. /\ v.res \in DecodeResult /\ v.state \in DecoderState
        /\ v.res \in Consuming => t.res \in {"have_control", "have_control_field", "have_frame"}
        /\ v.res = "have_dnstap" => t.el.what \in Message
        /\ v.state \in Early => d.state \in Early
        /\ v.res = "bidirectional" => d.state \in Early /\ v.state \notin Early
        /\ v.res = "endofdata" => v.state \notin Early
    BY <1>1, VerdictType
  <1> HIDE DEF v
  <1>4. /\ Decode(d, w).res = v.res
        /\ Decode(d, w).n = t.n
        /\ Decode(d, w).msg = t.el.what
        /\ Decode(d, w).decoder.state = v.state
        /\ Decode(d, w).decoder \in DecoderType
    BY <1>1, <1>2, <1>3 DEF Decode, DecoderType, t, v
  <1> QED BY <1>1, <1>3, <1>4

-----------------------------------------------------------------------------
(* That the peer accepts the DNSTAP content type is only noted while its    *)
(* ACCEPT is decoded.                                                       *)
AcceptNoted(d) == d.accept_support_dnstap_protobuf =>
                     d.state \in {"checking_accept", "checking_finish", "done"}

(* A decoder that has been through an ACCEPT waits for FINISH.              *)
AcceptOver == {"checking_finish", "done"}

(* A handshake that is over leads to START or to FINISH; behind an ACCEPT   *)
(* nothing but FINISH is decoded, and what was noted stays noted.           *)
LEMMA DecodeHandshake ==
    ASSUME NEW d \in DecoderType, NEW w \in Seq(Cell), w # <<>>
    PROVE  LET r == Decode(d, w) IN
           /\ AcceptNoted(d) => AcceptNoted(r.decoder)
           /\ d.accept_support_dnstap_protobuf => r.decoder.accept_support_dnstap_protobuf
           /\ r.res = "bidirectional" => r.decoder.state \in {"reading_start", "checking_finish"}
           /\ d.state \in AcceptOver =>
                 r.decoder.state \in AcceptOver /\ r.res \in {"need_more", "endofdata", "error"}
  <1> DEFINE t == TinyRead(d.reader, w)
             v == Verdict(d, t)
             r == Decode(d, w)
             Offered == d.state = "checking_accept" /\ t.res = "have_control_field"
                           /\ t.el.what = "dnstap"
  <1>1. /\ r.res = v.res /\ r.decoder.state = v.state
        /\ r.decoder.accept_support_dnstap_protobuf
              = (d.accept_support_dnstap_protobuf \/ Offered)
    BY DEF Decode
  <1> HIDE DEF t, r
  <1>2. /\ d.state \in AcceptOver =>
              v.state \in AcceptOver /\ v.res \in {"need_more", "endofdata", "error"}
        /\ v.res = "bidirectional" => v.state \in {"reading_start", "checking_finish"}
        /\ d.state = "checking_accept" => v.state \in {"checking_accept", "checking_finish"}
    BY DEF Verdict, AcceptOver
  <1> HIDE DEF v
  <1>3. /\ d.accept_support_dnstap_protobuf \in BOOLEAN
        /\ r.decoder.accept_support_dnstap_protobuf \in BOOLEAN
    BY <1>1 DEF DecoderType
  <1>4. r.decoder.accept_support_dnstap_protobuf
           => d.accept_support_dnstap_protobuf \/ d.state = "checking_accept"
    BY <1>1, <1>3
  <1>5. AcceptNoted(d) => AcceptNoted(r.decoder)
    BY <1>1, <1>2, <1>4 DEF AcceptNoted, AcceptOver
  <1>6. d.accept_support_dnstap_protobuf => r.decoder.accept_support_dnstap_protobuf
    BY <1>1
  <1> QED BY <1>1, <1>2, <1>5, <1>6 DEF r

(* A decoder that waits for FINISH reaches the end of the data by reading   *)
(* all of it.                                                               *)
LEMMA DecodeFinish ==
    ASSUME NEW d \in DecoderType, NEW w \in Seq(Cell), w # <<>>,
           d.state \in AcceptOver, Decode(d, w).res = "endofdata"
    PROVE  /\ HeaderLen <= Len(w)
           /\ w[1][1].kind = "control" /\ w[1][1].what = "FINISH"
           /\ w[1][2] = 1
  <1> DEFINE t == TinyRead(d.reader, w)
             e == w[1][1]
  <1>1. Decode(d, w).res = Verdict(d, t).res
    BY DEF Decode
  <1> HIDE DEF t
  <1>2. t.res = "finished"
    BY <1>1 DEF Verdict, AcceptOver
  <1>3. /\ e \in Element /\ Size(e) \in Nat \ {0} /\ Len(w) >= Size(e)
        /\ Whole(w, e) /\ e.kind = "control" /\ e.what = "FINISH"
    <2>1. e \in Element /\ Size(e) \in Nat \ {0}
      BY CellsType DEF Cell
    <2>2. e.kind = "control" /\ e.what = "FINISH" /\ Whole(w, e) /\ Len(w) >= Size(e)
      BY <1>2, <2>1 DEF t, TinyRead, ReadControl, ReadField
    <2> QED BY <2>1, <2>2
  <1>4. Size(e) = HeaderLen
    BY <1>3 DEF Size
  <1>5. w[1] = <<e, 1>>
    <2>1. SubSeq(w, 1, Size(e))[1] = w[1]
      <3> DEFINE k == Size(e)
      <3>1. k \in Nat \ {0} /\ k <= Len(w)
        BY <1>3
      <3> HIDE DEF k, e
      <3>2. SubSeq(w, 1, k)[1] = w[1]
        BY <3>1
      <3> QED BY <3>2 DEF k
    <2>2. Cells(e)[1] = <<e, 1>>
      BY <1>3 DEF Cells
    <2> QED BY <1>3, <2>1, <2>2 DEF Whole
  <1> QED BY <1>3, <1>4, <1>5

(* The DNSTAP content type is noted when the last cell of a field is read.  *)
LEMMA DecodeOffer ==
    ASSUME NEW d \in DecoderType, NEW w \in Seq(Cell), w # <<>>,
           ~d.accept_support_dnstap_protobuf,
           Decode(d, w).decoder.accept_support_dnstap_protobuf
    PROVE  /\ FieldLen \in 1..Len(w)
           /\ w[FieldLen][1].kind = "field" /\ w[FieldLen][2] = FieldLen
  <1> DEFINE t == TinyRead(d.reader, w)
             e == w[1][1]
  <1>1. t.res = "have_control_field"
    BY DEF Decode
  <1>2. e \in Element /\ Size(e) \in Nat \ {0}
    BY CellsType DEF Cell
  <1>3. ~(Len(w) < Size(e)) /\ Whole(w, e) /\ e.kind = "field"
    BY <1>1, <1>2 DEF TinyRead, ReadControl, Element
  <1>4. Size(e) = FieldLen /\ FieldLen \in Nat \ {0} /\ FieldLen <= Len(w) /\ Len(w) \in Nat
    BY <1>2, <1>3, LengthAssumption DEF Size
  <1>5. w[FieldLen] = <<e, FieldLen>>
    <2>1. SubSeq(w, 1, FieldLen)[FieldLen] = w[FieldLen]
      BY <1>4
    <2>2. Cells(e)[FieldLen] = <<e, FieldLen>>
      BY <1>4 DEF Cells
    <2> QED BY <1>3, <1>4, <2>1, <2>2 DEF Whole
  <1> QED BY <1>3, <1>4, <1>5

(* What the decoder takes out is a whole element, and a frame exactly when  *)
(* it hands over a message: the payload of that frame.                      *)
LEMMA DecodeElement ==
    ASSUME NEW d \in DecoderType, NEW w \in Seq(Cell), w # <<>>, Decode(d, w).res \in Consuming
    PROVE  LET r == Decode(d, w)
               e == w[1][1]
           IN  /\ e \in Element /\ r.n = Size(e) /\ r.n <= Len(w) /\ SubSeq(w, 1, r.n) = Cells(e)
               /\ r.msg = e.what
               /\ e.kind = "frame" <=> r.res = "have_dnstap"
               /\ r.res = "bidirectional" => e.kind = "field"
  <1> DEFINE t == TinyRead(d.reader, w)
             v == Verdict(d, t)
             r == Decode(d, w)
             e == w[1][1]
  <1>1. r.res = v.res /\ r.n = t.n /\ r.msg = t.el.what
    BY DEF Decode
  <1>2. e \in Element /\ Size(e) \in Nat \ {0}
    BY CellsType DEF Cell
  <1> HIDE DEF t, r
  <1>3. t.res \in {"have_control", "have_control_field", "have_frame"}
        /\ (v.res = "have_dnstap" <=> t.res = "have_frame")
        /\ (v.res = "bidirectional" => t.res = "have_control_field")
    <2>1. v.res \in Consuming
      BY <1>1 DEF r
    <2> QED BY <2>1 DEF Verdict, Consuming
  <1>4. t.el = e /\ t.n = Size(e) /\ Size(e) <= Len(w) /\ Whole(w, e)
        /\ (t.res = "have_frame" <=> e.kind = "frame")
        /\ (t.res = "have_control_field" => e.kind = "field")
    <2>1. e.kind \in {"control", "field", "frame", "junk"}
      BY <1>2 DEF Element
    <2>2. ~(Len(w) < Size(e)) /\ Whole(w, e) /\ Expected(d.reader, e)
      BY <1>3 DEF t, TinyRead
    <2>3. t.el = e /\ t.n = Size(e)
      BY <1>3 DEF t, TinyRead
    <2>4. e.kind # "junk"
      BY <2>2 DEF Expected
    <2>5. /\ e.kind = "control" => t.res \in {"stopped", "finished", "have_control"}
          /\ e.kind = "field" => t.res = "have_control_field"
          /\ e.kind = "frame" => t.res = "have_frame"
      BY <2>1, <2>2 DEF t, TinyRead, ReadControl, ReadField
    <2>6. Size(e) <= Len(w)
      BY <1>2, <2>2
    <2> QED BY <1>3, <2>1, <2>2, <2>3, <2>4, <2>5, <2>6
  <1> HIDE DEF v
  <1> QED BY <1>1, <1>2, <1>3, <1>4 DEF Whole, r

(* The data ends at the first cell of a STOP or of a FINISH.                *)
LEMMA DecodeStop ==
    ASSUME NEW d \in DecoderType, NEW w \in Seq(Cell), w # <<>>, Decode(d, w).res = "endofdata"
    PROVE  LET e == w[1][1] IN
           w[1] = <<e, 1>> /\ e \in Element /\ e.kind = "control" /\ e.what \in {"STOP", "FINISH"}
  <1> DEFINE t == TinyRead(d.reader, w)
             e == w[1][1]
  <1>1. Decode(d, w).res = Verdict(d, t).res
    BY DEF Decode
  <1> HIDE DEF t
  <1>2. t.res \in {"stopped", "finished"}
    BY <1>1 DEF Verdict
  <1>3. /\ e \in Element /\ Size(e) \in Nat \ {0} /\ Len(w) >= Size(e)
        /\ Whole(w, e) /\ e.kind = "control" /\ e.what \in {"STOP", "FINISH"}
    <2>1. e \in Element /\ Size(e) \in Nat \ {0}
      BY CellsType DEF Cell
    <2>2. /\ e.kind = "control" /\ e.what \in {"STOP", "FINISH"}
          /\ Whole(w, e) /\ Len(w) >= Size(e)
      BY <1>2, <2>1 DEF t, TinyRead, ReadControl, ReadField
    <2> QED BY <2>1, <2>2
  <1>4. w[1] = <<e, 1>>
    <2>1. SubSeq(w, 1, Size(e))[1] = w[1]
      <3> DEFINE k == Size(e)
      <3>1. k \in Nat \ {0} /\ k <= Len(w)
        BY <1>3
      <3> HIDE DEF k, e
      <3>2. SubSeq(w, 1, k)[1] = w[1]
        BY <3>1
      <3> QED BY <3>2 DEF k
    <2>2. Cells(e)[1] = <<e, 1>>
      BY <1>3 DEF Cells
    <2> QED BY <1>3, <2>1, <2>2 DEF Whole
  <1> QED BY <1>3, <1>4

(* With a message its payload is taken out, with anything else none.        *)
LEMMA DecodePayloads ==
    ASSUME NEW d \in DecoderType, NEW w \in Seq(Cell), w # <<>>, Decode(d, w).res \in Consuming
    PROVE  LET r == Decode(d, w) IN
           Payloads(SubSeq(w, 1, r.n)) = IF r.res = "have_dnstap" THEN <<r.msg>> ELSE <<>>
  <1> DEFINE r == Decode(d, w)
             e == w[1][1]
  <1>1. /\ e \in Element /\ SubSeq(w, 1, r.n) = Cells(e) /\ r.msg = e.what
        /\ e.kind = "frame" <=> r.res = "have_dnstap"
    BY DecodeElement
  <1> HIDE DEF e, r
  <1>2. Payloads(Cells(e)) = IF e.kind = "frame" THEN <<e.what>> ELSE <<>>
    BY <1>1, PayloadsCells
  <1>3. Payloads(SubSeq(w, 1, r.n)) = IF r.res = "have_dnstap" THEN <<r.msg>> ELSE <<>>
    BY <1>1, <1>2
  <1> QED BY <1>3 DEF r
-----------------------------------------------------------------------------
(***************************************************************************)
(* An orderly stream is decoded without an error.                          *)
(***************************************************************************)
(* Where READY ends.                                                        *)
Preamble == {0, HeaderLen + FieldLen}

(* Where the decoder d stands when n cells of such a stream are decoded.    *)
DecoderAt(d, n, p) ==
    \/ n = 0 /\ d = DecoderInit
    \/ /\ p > 0 /\ n = HeaderLen /\ d.state = "checking_ready"
       /\ d.reader = [expect |-> "field", type |-> "READY", fields |-> 1]
    \/ /\ p > 0 /\ n = p /\ d.state = "reading_start" /\ d.reader.expect = "control"
       /\ d.ready_support_dnstap_protobuf
    \/ /\ n = p + HeaderLen /\ d.state = "checking_start"
       /\ d.reader = [expect |-> "field", type |-> "START", fields |-> 1]
    \/ n >= p + HeaderLen + FieldLen /\ d.state = "reading_frames" /\ d.reader.expect = "frame"

(* The elements of such a stream are elements.                              *)
LEMMA BelongsType ==
    ASSUME NEW e, NEW i \in Nat, NEW p \in Preamble, Belongs(e, i, p)
    PROVE  /\ e \in Element /\ Size(e) \in Nat \ {0}
           /\ e.kind = "control" => Size(e) = HeaderLen
           /\ e.kind = "field" => Size(e) = FieldLen
  <1>1. e \in Element
    BY DEF Belongs, Element, Control, Field, Frame, StopElement, ControlType, FieldValue
  <1> QED BY <1>1, CellsType DEF Size

(* Every cell of such a stream is one of an element that begins before it.  *)
LEMMA OrderlyCell ==
    ASSUME NEW p \in Preamble, NEW s \in Seq(Cell), Orderly(s, p), NEW i \in 1..Len(s)
    PROVE  \E k \in 1..i : /\ s[k][2] = 1 /\ Belongs(s[k][1], k, p)
                           /\ s[i] = <<s[k][1], (i - k) + 1>>
  <1>1. PICK k \in 1..i : s[k][2] = 1 /\ i < k + Size(s[k][1])
    BY DEF Orderly
  <1> DEFINE e == s[k][1]
             j == (i - k) + 1
  <1>2. k \in 1..Len(s) /\ Len(s) \in Nat /\ i \in Nat /\ k \in Nat
    OBVIOUS
  <1>3. Begins(s, k, p)
    BY <1>1, <1>2 DEF Orderly
  <1>4. /\ Belongs(e, k, p)
        /\ \A m \in 1..Size(e) : (k - 1) + m <= Len(s) => s[(k - 1) + m] = <<e, m>>
    BY <1>3 DEF Begins
  <1>5. Size(e) \in Nat
    BY <1>2, <1>4, BelongsType
  <1> HIDE DEF e
  <1>6. j \in 1..Size(e) /\ (k - 1) + j = i /\ i <= Len(s)
    BY <1>1, <1>2, <1>5 DEF e
  <1>7. s[i] = <<e, j>>
    BY <1>4, <1>6
  <1> QED BY <1>1, <1>4, <1>7 DEF e

(* What comes before any of its cells is orderly, too.                      *)
LEMMA OrderlyPrefix ==
    ASSUME NEW p, NEW s \in Seq(Cell), NEW t \in Seq(Cell), Orderly(s \o t, p)
    PROVE  Orderly(s, p)
  <1> DEFINE u == s \o t
  <1>1. /\ Len(s) \in Nat /\ Len(t) \in Nat /\ Len(u) = Len(s) + Len(t)
        /\ \A i \in 1..Len(s) : u[i] = s[i]
    OBVIOUS
  <1>2. Orderly(u, p)
    OBVIOUS
  <1> HIDE DEF u
  <1>3. \A i \in 1..Len(s) : i \in 1..Len(u)
    BY <1>1
  <1>4. ASSUME NEW i \in 1..Len(s), s[i][2] = 1
        PROVE  Begins(s, i, p)
    <2> DEFINE e == s[i][1]
    <2>1. u[i] = s[i] /\ Begins(u, i, p)
      BY <1>1, <1>2, <1>3, <1>4 DEF Orderly
    <2>2. /\ Belongs(e, i, p)
          /\ \A k \in 1..Size(e) : (i - 1) + k <= Len(u) => u[(i - 1) + k] = <<e, k>>
          /\ i + Size(e) <= Len(u) => u[i + Size(e)][2] = 1 /\ e # StopElement
      BY <2>1 DEF Begins
    <2>3. ASSUME NEW k \in 1..Size(e), (i - 1) + k <= Len(s)
          PROVE  s[(i - 1) + k] = <<e, k>>
      <3>1. (i - 1) + k \in 1..Len(s) /\ (i - 1) + k <= Len(u)
        BY <1>1, <2>3
      <3> QED BY <1>1, <2>2, <3>1
    <2>4. ASSUME i + Size(e) <= Len(s)
          PROVE  s[i + Size(e)][2] = 1 /\ e # StopElement
      <3>1. Size(e) \in Nat
        BY LengthAssumption DEF Size
      <3> HIDE DEF e
      <3>2. i + Size(e) \in 1..Len(s) /\ i + Size(e) <= Len(u)
        BY <1>1, <2>4, <3>1
      <3> QED BY <1>1, <2>2, <3>2
    <2> QED BY <1>4, <2>2, <2>3, <2>4 DEF Begins
  <1>5. ASSUME NEW i \in 1..Len(s)
        PROVE  \E k \in 1..i : s[k][2] = 1 /\ i < k + Size(s[k][1])
    <2>1. PICK k \in 1..i : u[k][2] = 1 /\ i < k + Size(u[k][1])
      BY <1>2, <1>3 DEF Orderly
    <2>2. k \in 1..Len(s)
      BY <1>1
    <2>3. u[k] = s[k]
      BY <1>1, <2>2
    <2> QED BY <2>1, <2>3
  <1> QED BY <1>4, <1>5 DEF Orderly

(* And it may go on with an element that belongs there.                     *)
LEMMA OrderlyGrows ==
    ASSUME NEW p \in Preamble, NEW s \in Seq(Cell), Orderly(s, p), Complete(s), Open(s),
           NEW e, Belongs(e, Len(s) + 1, p)
    PROVE  LET t == s \o Cells(e)
           IN  /\ t \in Seq(Cell) /\ Len(t) = Len(s) + Size(e)
               /\ Orderly(t, p) /\ Complete(t)
               /\ e # StopElement => Open(t)
  <1> DEFINE c == Cells(e)
             t == s \o c
             n == Len(s)
  <1>1. n \in Nat /\ e \in Element /\ Size(e) \in Nat \ {0}
    <2>1. n \in Nat
      OBVIOUS
    <2> QED BY <2>1, BelongsType
  <1>2. /\ c \in Seq(Cell) /\ Len(c) = Size(e)
        /\ \A k \in 1..Size(e) : c[k] = <<e, k>>
    BY <1>1, CellsType DEF Cells
  <1> HIDE DEF c
  <1>3. /\ t \in Seq(Cell) /\ Len(t) = n + Size(e)
        /\ \A i \in 1..n : t[i] = s[i]
        /\ \A k \in 1..Size(e) : t[n + k] = <<e, k>>
    <2>1. /\ t \in Seq(Cell) /\ Len(t) = n + Len(c)
          /\ \A i \in 1..n : t[i] = s[i]
          /\ \A k \in 1..Len(c) : t[n + k] = c[k]
      <3>1. c \in Seq(Cell) /\ s \in Seq(Cell)
        BY <1>2
      <3>2. t \in Seq(Cell) /\ Len(t) = n + Len(c)
        BY <3>1
      <3>3. \A i \in 1..n : t[i] = s[i]
        BY <3>1
      <3>4. \A k \in 1..Len(c) : t[n + k] = c[k]
        BY <3>1
      <3> QED BY <3>2, <3>3, <3>4
    <2> HIDE DEF t
    <2> QED BY <1>2, <2>1
  <1> HIDE DEF t
  <1>4. \A i \in 1..Len(t) : i \in 1..n \/ \E k \in 1..Size(e) : i = n + k
    <2>1. ASSUME NEW i \in 1..Len(t), i \notin 1..n
          PROVE  \E k \in 1..Size(e) : i = n + k
      <3>1. i - n \in 1..Size(e) /\ i = n + (i - n)
        BY <1>1, <1>3, <2>1
      <3> QED BY <3>1
    <2> QED BY <2>1
  <1>5. t[n + 1] = <<e, 1>> /\ n + 1 \in 1..Len(t)
    BY <1>1, <1>3
  <1>6. ASSUME NEW i \in 1..Len(t), t[i][2] = 1
        PROVE  Begins(t, i, p) /\ i + Size(t[i][1]) <= Len(t) + 1
    <2>1. CASE i \in 1..n
      <3> DEFINE f == s[i][1]
      <3>1. s[i][2] = 1 /\ t[i] = s[i]
        BY <1>3, <1>6, <2>1
      <3>2. /\ Belongs(f, i, p)
            /\ \A k \in 1..Size(f) : (i - 1) + k <= n => s[(i - 1) + k] = <<f, k>>
            /\ i + Size(f) <= n => s[i + Size(f)][2] = 1 /\ f # StopElement
            /\ i + Size(f) <= n + 1
            /\ f # StopElement
        BY <2>1, <3>1 DEF Orderly, Begins, Complete, Open
      <3>3. Size(f) \in Nat \ {0}
        BY <3>2, BelongsType
      <3> HIDE DEF f
      <3>4. ASSUME NEW k \in 1..Size(f)
            PROVE  t[(i - 1) + k] = <<f, k>>
        <4>1. (i - 1) + k \in 1..n /\ (i - 1) + k <= n
          BY <1>1, <2>1, <3>2, <3>3
        <4> QED BY <1>3, <3>2, <4>1
      <3>5. t[i + Size(f)][2] = 1
        <4>1. CASE i + Size(f) <= n
          <5>1. i + Size(f) \in 1..n
            BY <1>1, <2>1, <3>3, <4>1
          <5> QED BY <1>3, <3>2, <4>1, <5>1
        <4>2. CASE ~(i + Size(f) <= n)
          <5>1. i + Size(f) = n + 1
            <6>1. i + Size(f) \in Nat /\ i + Size(f) <= n + 1
              BY <2>1, <3>2, <3>3
            <6> QED BY <1>1, <4>2, <6>1
          <5> QED BY <1>5, <5>1
        <4> QED BY <4>1, <4>2
      <3>6. i + Size(f) <= Len(t) + 1
        BY <1>1, <1>3, <2>1, <3>2, <3>3
      <3>7. t[i][1] = f
        BY <3>1 DEF f
      <3> QED BY <1>6, <3>2, <3>4, <3>5, <3>6, <3>7 DEF Begins
    <2>2. CASE \E k \in 1..Size(e) : i = n + k
      <3>1. PICK k \in 1..Size(e) : i = n + k
        BY <2>2
      <3>2. k = 1 /\ i = n + 1 /\ t[i][1] = e
        BY <1>3, <1>6, <3>1
      <3>3. \A m \in 1..Size(e) : (i - 1) + m = n + m
        BY <1>1, <3>2
      <3>4. \A m \in 1..Size(e) : t[(i - 1) + m] = <<e, m>>
        BY <1>3, <3>3
      <3>5. ~(i + Size(e) <= Len(t)) /\ i + Size(e) <= Len(t) + 1
        BY <1>1, <1>3, <3>2
      <3> QED BY <1>6, <3>2, <3>4, <3>5 DEF Begins
    <2> QED BY <1>4, <2>1, <2>2
  <1>7. ASSUME NEW i \in 1..Len(t)
        PROVE  \E k \in 1..i : t[k][2] = 1 /\ i < k + Size(t[k][1])
    <2>1. CASE i \in 1..n
      <3>1. PICK k \in 1..i : s[k][2] = 1 /\ i < k + Size(s[k][1])
        BY <2>1 DEF Orderly
      <3>2. k \in 1..n
        BY <1>1, <2>1
      <3>3. t[k] = s[k]
        BY <1>3, <3>2
      <3> QED BY <3>1, <3>3
    <2>2. CASE \E k \in 1..Size(e) : i = n + k
      <3>1. n + 1 \in 1..i /\ i < n + 1 + Size(e)
        BY <1>1, <2>2
      <3>2. t[n + 1][2] = 1 /\ t[n + 1][1] = e
        BY <1>5
      <3> QED BY <3>1, <3>2
    <2> QED BY <1>4, <2>1, <2>2
  <1>8. Orderly(t, p) /\ Complete(t)
    BY <1>6, <1>7 DEF Orderly, Complete
  <1>9. ASSUME e # StopElement
        PROVE  Open(t)
    <2>1. ASSUME NEW i \in 1..Len(t)
          PROVE  t[i][1] # StopElement
      <3>1. CASE i \in 1..n
        <4>1. t[i] = s[i]
          BY <1>3, <3>1
        <4> QED BY <3>1, <4>1 DEF Open
      <3>2. CASE \E k \in 1..Size(e) : i = n + k
        BY <1>3, <1>9, <3>2
      <3> QED BY <1>4, <3>1, <3>2
    <2> QED BY <2>1 DEF Open
  <1> QED BY <1>3, <1>8, <1>9 DEF t, c

(* READY and START have the DNSTAP content type behind them.                *)
LEMMA PairGrows ==
    ASSUME NEW p \in Preamble, NEW s \in Seq(Cell), Orderly(s, p), Complete(s), Open(s),
           NEW e, Belongs(e, Len(s) + 1, p), Size(e) = HeaderLen, e # StopElement,
           Belongs(Field("dnstap"), Len(s) + HeaderLen + 1, p)
    PROVE  LET t == s \o (Cells(e) \o Cells(Field("dnstap")))
           IN  Orderly(t, p) /\ Complete(t) /\ Open(t) /\ Len(t) = Len(s) + HeaderLen + FieldLen
  <1> DEFINE f == Field("dnstap")
             u == s \o Cells(e)
             v == u \o Cells(f)
  <1>1. /\ u \in Seq(Cell) /\ Len(u) = Len(s) + HeaderLen
        /\ Orderly(u, p) /\ Complete(u) /\ Open(u)
    BY OrderlyGrows
  <1>2. f # StopElement /\ Size(f) = FieldLen
    BY DEF Field, StopElement, Control, Size
  <1>3. Cells(e) \in Seq(Cell) /\ Cells(f) \in Seq(Cell)
    <2>1. e \in Element /\ f \in Element
      <3>1. Len(s) + 1 \in Nat /\ Len(s) + HeaderLen + 1 \in Nat
        BY LengthAssumption
      <3> QED BY <3>1, BelongsType
    <2> QED BY <2>1, CellsType
  <1>4. v = s \o (Cells(e) \o Cells(f))
    BY <1>3, ConcatAssociates
  <1> HIDE DEF u
  <1>5. Belongs(f, Len(u) + 1, p)
    <2>1. Len(u) + 1 = Len(s) + HeaderLen + 1
      BY <1>1
    <2> QED BY <2>1
  <1> HIDE DEF f
  <1>6. Orderly(v, p) /\ Complete(v) /\ Open(v) /\ Len(v) = Len(u) + FieldLen
    BY <1>1, <1>2, <1>5, OrderlyGrows
  <1> HIDE DEF v
  <1>7. Len(v) = Len(s) + HeaderLen + FieldLen
    BY <1>1, <1>6
  <1> QED BY <1>4, <1>6, <1>7 DEF f

(* With all of an element there, and expected, it is read.                  *)
LEMMA TinyReads ==
    ASSUME NEW r \in TinyReader, NEW w \in Seq(Cell), w # <<>>, NEW e \in Element, w[1][1] = e,
           Size(e) <= Len(w), Whole(w, e), Expected(r, e)
    PROVE  LET t == TinyRead(r, w) IN
           /\ t.el = e /\ t.n = Size(e)
           /\ e.kind = "control" => t.res = ReadControl(r, e).res /\ t.reader = ReadControl(r, e).reader
           /\ e.kind = "field" => t.res = "have_control_field" /\ t.reader = ReadField(r).reader
           /\ e.kind = "frame" => t.res = "have_frame" /\ t.reader = r
  <1>1. Size(e) \in Nat \ {0} /\ ~(Len(w) < Size(e))
    BY CellsType
  <1> DEFINE Read(x) == [res |-> x.res, reader |-> x.reader, el |-> e, n |-> Size(e)]
  <1>2. TinyRead(r, w) = CASE e.kind = "control" -> Read(ReadControl(r, e))
                           [] e.kind = "field"   -> Read(ReadField(r))
                           [] OTHER -> Read([res |-> "have_frame", reader |-> r])
    BY <1>1 DEF TinyRead
  <1> QED BY <1>2 DEF ReadField

(* The field of a control header with one field is the last.                *)
LEMMA ReadsLastField ==
    ASSUME NEW type \in ControlType
    PROVE  LET x == ReadField([expect |-> "field", type |-> type, fields |-> 1]) IN
           x.reader.fields = 0 /\ x.reader.expect = AfterFields(type)
  <1> DEFINE r == [expect |-> "field", type |-> type, fields |-> 1]
  <1>1. r.fields = 1 /\ r.type = type /\ DOMAIN r = {"expect", "type", "fields"}
    OBVIOUS
  <1> HIDE DEF r
  <1>2. ReadField(r).reader = [r EXCEPT !.fields = 0, !.expect = AfterFields(type)]
    BY <1>1 DEF ReadField
  <1>3. ReadField(r).reader.fields = 0 /\ ReadField(r).reader.expect = AfterFields(type)
    BY <1>1, <1>2
  <1> QED BY <1>3 DEF r

(* What the decoder makes of an element of an orderly stream, in the order  *)
(* they come.                                                               *)
LEMMA OrderlyVerdict ==
    ASSUME BadPayload \notin Message,
           NEW d \in DecoderType, NEW n \in Nat, NEW p \in Preamble, DecoderAt(d, n, p),
           NEW w \in Seq(Cell), w # <<>>, NEW e, w[1][1] = e, Belongs(e, n + 1, p),
           Size(e) <= Len(w), Whole(w, e)
    PROVE  LET r == Decode(d, w) IN
           /\ r.n = Size(e) /\ r.msg = e.what
           /\ \/ /\ r.res = "endofdata" /\ e = StopElement /\ r.decoder.state = "done"
                 /\ d.state = "reading_frames"
              \/ /\ r.res \in Consuming /\ DecoderAt(r.decoder, n + Size(e), p)
                 /\ e # StopElement
                 /\ r.res = "bidirectional" =>
                       p > 0 /\ n + Size(e) = p /\ r.decoder.ready_support_dnstap_protobuf
                 /\ r.res = "have_dnstap" => d.state = "reading_frames"
  <1> DEFINE t == TinyRead(d.reader, w)
             v == Verdict(d, t)
             r == Decode(d, w)
  <1>1. /\ e \in Element /\ Size(e) \in Nat \ {0}
        /\ e.kind = "control" => Size(e) = HeaderLen
        /\ e.kind = "field" => Size(e) = FieldLen
    <2>1. n + 1 \in Nat
      OBVIOUS
    <2> QED BY <2>1, BelongsType
  <1>2. /\ p = 0 \/ p = HeaderLen + FieldLen
        /\ HeaderLen \in Nat \ {0} /\ FieldLen \in Nat \ {0}
    BY LengthAssumption DEF Preamble
  <1>3. d.reader \in TinyReader /\ d.ready_support_dnstap_protobuf \in BOOLEAN
    BY DEF DecoderType
  <1>4. ASSUME Expected(d.reader, e)
        PROVE  /\ t.el = e /\ t.n = Size(e)
               /\ e.kind = "control" => /\ t.res = ReadControl(d.reader, e).res
                                        /\ t.reader = ReadControl(d.reader, e).reader
               /\ e.kind = "field" => t.res = "have_control_field" /\ t.reader = ReadField(d.reader).reader
               /\ e.kind = "frame" => t.res = "have_frame" /\ t.reader = d.reader
    BY <1>1, <1>3, <1>4, TinyReads
  <1>5. /\ r.res = v.res /\ r.decoder.state = v.state /\ r.decoder.reader = t.reader
        /\ r.n = t.n /\ r.msg = t.el.what
        /\ r.decoder.ready_support_dnstap_protobuf =
              (d.ready_support_dnstap_protobuf \/
                 (d.state = "checking_ready" /\ t.res = "have_control_field" /\ t.el.what = "dnstap"))
    BY DEF Decode
  <1> HIDE DEF t, r
  <1> SUFFICES \/ /\ r.res = "endofdata" /\ e = StopElement /\ r.decoder.state = "done"
                  /\ d.state = "reading_frames" /\ r.n = Size(e) /\ r.msg = e.what
               \/ /\ r.res \in Consuming /\ DecoderAt(r.decoder, n + Size(e), p)
                  /\ e # StopElement /\ r.n = Size(e) /\ r.msg = e.what
                  /\ r.res = "bidirectional" =>
                        p > 0 /\ n + Size(e) = p /\ r.decoder.ready_support_dnstap_protobuf
                  /\ r.res = "have_dnstap" => d.state = "reading_frames"
    BY DEF r
  <1>6. CASE n = 0 /\ d = DecoderInit
    <2>1. /\ d.state = "reading_control" /\ d.reader = TinyReaderInit
          /\ d.reader.expect = "control"
      BY <1>6 DEF DecoderInit, TinyReaderInit
    <2>2. \/ p > 0 /\ e = Control("READY", 1)
          \/ p = 0 /\ e = Control("START", 1)
      BY <1>2, <1>6 DEF Belongs
    <2>3. Expected(d.reader, e) /\ e.kind = "control" /\ e # StopElement
      BY <2>1, <2>2 DEF Expected, Control, StopElement
    <2>4. CASE e = Control("READY", 1)
      <3>1. /\ t.res = "have_control" /\ t.el = e /\ t.n = Size(e) /\ e.what = "READY"
            /\ t.reader = [expect |-> "field", type |-> "READY", fields |-> 1]
        BY <1>4, <2>3, <2>4 DEF ReadControl, Control
      <3>2. v = [res |-> "again", state |-> "checking_ready"]
        BY <2>1, <3>1 DEF Verdict
      <3> QED BY <1>1, <1>2, <1>5, <1>6, <2>2, <2>3, <2>4, <3>1, <3>2
              DEF DecoderAt, Control, Consuming
    <2>5. CASE e = Control("START", 1)
      <3>1. /\ t.res = "have_control" /\ t.el = e /\ t.n = Size(e) /\ e.what = "START"
            /\ t.reader = [expect |-> "field", type |-> "START", fields |-> 1]
        BY <1>4, <2>3, <2>5 DEF ReadControl, Control
      <3>2. v = [res |-> "again", state |-> "checking_start"]
        BY <2>1, <3>1 DEF Verdict
      <3>3. p = 0 /\ n + Size(e) = p + HeaderLen
        BY <1>1, <1>2, <1>6, <2>2, <2>3, <2>5 DEF Control
      <3> QED BY <1>5, <2>3, <3>1, <3>2, <3>3 DEF DecoderAt, Consuming
    <2> QED BY <2>2, <2>4, <2>5
  <1>7. CASE /\ p > 0 /\ n = HeaderLen /\ d.state = "checking_ready"
             /\ d.reader = [expect |-> "field", type |-> "READY", fields |-> 1]
    <2>1. e = Field("dnstap")
      BY <1>2, <1>7 DEF Belongs
    <2>2. Expected(d.reader, e) /\ e.kind = "field" /\ e.what = "dnstap" /\ e # StopElement
      BY <1>7, <2>1 DEF Expected, Field, StopElement, Control
    <2>3. /\ t.res = "have_control_field" /\ t.el = e /\ t.n = Size(e)
          /\ t.reader.fields = 0 /\ t.reader.expect = "control"
      <3>1. /\ ReadField(d.reader).reader.fields = 0
            /\ ReadField(d.reader).reader.expect = "control"
        BY <1>7, ReadsLastField DEF AfterFields, ControlType
      <3> QED BY <1>4, <2>2, <3>1
    <2>4. v = [res |-> "bidirectional", state |-> "reading_start"]
      BY <1>7, <2>2, <2>3 DEF Verdict
    <2>5. n + Size(e) = p
      BY <1>1, <1>2, <1>7, <2>2
    <2>6. r.decoder.ready_support_dnstap_protobuf
      BY <1>5, <1>7, <2>2, <2>3
    <2>7. DecoderAt(r.decoder, n + Size(e), p)
      BY <1>5, <1>7, <2>3, <2>4, <2>5, <2>6 DEF DecoderAt
    <2> QED BY <1>5, <1>7, <2>2, <2>3, <2>4, <2>5, <2>6, <2>7 DEF Consuming
  <1>8. CASE /\ p > 0 /\ n = p /\ d.state = "reading_start" /\ d.reader.expect = "control"
             /\ d.ready_support_dnstap_protobuf
    <2>1. e = Control("START", 1)
      BY <1>2, <1>8 DEF Belongs
    <2>2. Expected(d.reader, e) /\ e.kind = "control" /\ e # StopElement
      BY <1>8, <2>1 DEF Expected, Control, StopElement
    <2>3. /\ t.res = "have_control" /\ t.el = e /\ t.n = Size(e) /\ e.what = "START"
          /\ t.reader = [expect |-> "field", type |-> "START", fields |-> 1]
      BY <1>4, <2>1, <2>2 DEF ReadControl, Control
    <2>4. v = [res |-> "again", state |-> "checking_start"]
      BY <1>8, <2>3 DEF Verdict
    <2>5. n + Size(e) = p + HeaderLen
      BY <1>1, <1>8, <2>2
    <2> QED BY <1>5, <2>2, <2>3, <2>4, <2>5 DEF DecoderAt, Consuming
  <1>9. CASE /\ n = p + HeaderLen /\ d.state = "checking_start"
             /\ d.reader = [expect |-> "field", type |-> "START", fields |-> 1]
    <2>1. e = Field("dnstap")
      BY <1>2, <1>9 DEF Belongs
    <2>2. Expected(d.reader, e) /\ e.kind = "field" /\ e.what = "dnstap" /\ e # StopElement
      BY <1>9, <2>1 DEF Expected, Field, StopElement, Control
    <2>3. /\ t.res = "have_control_field" /\ t.el = e /\ t.n = Size(e)
          /\ t.reader.expect = "frame"
      <3>1. ReadField(d.reader).reader.expect = "frame"
        BY <1>9, ReadsLastField DEF AfterFields, ControlType
      <3> QED BY <1>4, <2>2, <3>1
    <2>4. v = [res |-> "again", state |-> "reading_frames"]
      BY <1>9, <2>2, <2>3 DEF Verdict
    <2>5. n + Size(e) >= p + HeaderLen + FieldLen
      BY <1>1, <1>2, <1>9, <2>2
    <2> QED BY <1>5, <2>2, <2>3, <2>4, <2>5 DEF DecoderAt, Consuming
  <1>10. CASE /\ n >= p + HeaderLen + FieldLen
              /\ d.state = "reading_frames" /\ d.reader.expect = "frame"
    <2>1. e = StopElement \/ \E m \in Message : e = Frame(m)
      BY <1>2, <1>10 DEF Belongs
    <2>2. CASE e = StopElement
      <3>1. Expected(d.reader, e) /\ e.kind = "control" /\ e.what = "STOP"
        BY <1>10, <2>2 DEF Expected, StopElement, Control
      <3>2. t.res = "stopped" /\ t.el = e /\ t.n = Size(e)
        BY <1>4, <3>1 DEF ReadControl
      <3>3. v = [res |-> "endofdata", state |-> "done"]
        BY <1>10, <3>2 DEF Verdict
      <3> QED BY <1>5, <1>10, <2>2, <3>2, <3>3
    <2>3. CASE \E m \in Message : e = Frame(m)
      <3>1. /\ Expected(d.reader, e) /\ e.kind = "frame" /\ e.what \in Message
            /\ e.what # BadPayload /\ e # StopElement
        BY <1>10, <2>3 DEF Expected, StopElement, Control, Frame
      <3>2. t.res = "have_frame" /\ t.el = e /\ t.n = Size(e) /\ t.reader = d.reader
        BY <1>4, <3>1
      <3>3. v = [res |-> "have_dnstap", state |-> "reading_frames"]
        BY <1>10, <3>1, <3>2 DEF Verdict
      <3>4. n + Size(e) >= p + HeaderLen + FieldLen
        BY <1>1, <1>2, <1>10
      <3> QED BY <1>5, <1>10, <3>1, <3>2, <3>3, <3>4 DEF DecoderAt, Consuming
    <2> QED BY <2>1, <2>2, <2>3
  <1>11. \/ n = 0 /\ d = DecoderInit
         \/ /\ p > 0 /\ n = HeaderLen /\ d.state = "checking_ready"
            /\ d.reader = [expect |-> "field", type |-> "READY", fields |-> 1]
         \/ /\ p > 0 /\ n = p /\ d.state = "reading_start" /\ d.reader.expect = "control"
            /\ d.ready_support_dnstap_protobuf
         \/ /\ n = p + HeaderLen /\ d.state = "checking_start"
            /\ d.reader = [expect |-> "field", type |-> "START", fields |-> 1]
         \/ /\ n >= p + HeaderLen + FieldLen
            /\ d.state = "reading_frames" /\ d.reader.expect = "frame"
    BY DEF DecoderAt
  <1> QED BY <1>6, <1>7, <1>8, <1>9, <1>10, <1>11

(* Of an orderly stream the decoder makes no error: it waits for the rest of *)
(* an element, or takes it out.                                             *)
LEMMA OrderlyDecodes ==
    ASSUME BadPayload \notin Message,
           NEW d \in DecoderType, NEW n \in Nat, NEW p \in Preamble, DecoderAt(d, n, p),
           NEW s \in Seq(Cell), Orderly(s, p), NEW w \in Seq(Cell), w # <<>>,
           n + Len(w) <= Len(s), \A i \in 1..Len(w) : w[i] = s[n + i], s[n + 1][2] = 1
    PROVE  LET r == Decode(d, w)
               e == s[n + 1][1]
           IN  /\ e \in Element
               /\ \/ r.res = "need_more" /\ r.decoder = d /\ Len(w) < Size(e)
                  \/ /\ r.res = "endofdata" /\ e = StopElement /\ r.decoder.state = "done"
                     /\ d.state = "reading_frames"
                  \/ /\ r.res \in Consuming /\ r.n = Size(e) /\ Size(e) \in Nat \ {0}
                     /\ DecoderAt(r.decoder, n + r.n, p)
                     /\ n + r.n < Len(s) => s[n + r.n + 1][2] = 1
                     /\ r.res = "bidirectional" =>
                           p > 0 /\ n + r.n = p /\ r.decoder.ready_support_dnstap_protobuf
                     /\ r.res = "have_dnstap" => d.state = "reading_frames"
  <1> DEFINE e == s[n + 1][1]
             r == Decode(d, w)
  <1>1. Len(w) \in Nat \ {0} /\ Len(s) \in Nat /\ n + 1 \in 1..Len(s) /\ 1 \in 1..Len(w)
    OBVIOUS
  <1>2. w[1] = s[n + 1] /\ w[1][1] = e
    BY <1>1
  <1>3. Begins(s, n + 1, p)
    BY <1>1 DEF Orderly
  <1>4. /\ Belongs(e, n + 1, p)
        /\ \A k \in 1..Size(e) : ((n + 1) - 1) + k <= Len(s) => s[((n + 1) - 1) + k] = <<e, k>>
        /\ (n + 1) + Size(e) <= Len(s) => s[(n + 1) + Size(e)][2] = 1 /\ e # StopElement
    BY <1>3 DEF Begins
  <1> HIDE DEF e
  <1>5. e \in Element /\ Size(e) \in Nat \ {0}
    <2>1. n + 1 \in Nat
      OBVIOUS
    <2> QED BY <1>4, <2>1, BelongsType
  <1>6. CASE Len(w) < Size(e)
    <2> DEFINE t == TinyRead(d.reader, w)
    <2>1. t.res = "need_more" /\ t.reader = d.reader
      BY <1>2, <1>6 DEF TinyRead
    <2> HIDE DEF t
    <2>2. d.state # "done"
      BY DEF DecoderAt, DecoderInit
    <2>3. Verdict(d, t) = [res |-> "need_more", state |-> d.state]
      BY <2>1, <2>2 DEF Verdict
    <2>4. /\ d.ready_support_dnstap_protobuf \in BOOLEAN
          /\ d.accept_support_dnstap_protobuf \in BOOLEAN
          /\ d = [state |-> d.state, reader |-> d.reader,
                  ready_support_dnstap_protobuf |-> d.ready_support_dnstap_protobuf,
                  accept_support_dnstap_protobuf |-> d.accept_support_dnstap_protobuf]
      BY DEF DecoderType
    <2>5. r.res = "need_more" /\ r.decoder =
             [state |-> d.state, reader |-> d.reader,
              ready_support_dnstap_protobuf |-> d.ready_support_dnstap_protobuf,
              accept_support_dnstap_protobuf |-> d.accept_support_dnstap_protobuf]
      BY <2>1, <2>3, <2>4 DEF Decode, t
    <2> QED BY <1>5, <1>6, <2>4, <2>5 DEF e
  <1>7. CASE ~(Len(w) < Size(e))
    <2>1. Size(e) <= Len(w)
      BY <1>1, <1>5, <1>7
    <2>2. Whole(w, e)
      <3> DEFINE c == Cells(e)
                 z == Size(e)
      <3>1. z \in Nat /\ z <= Len(w)
        BY <1>5, <2>1
      <3> HIDE DEF z
      <3>2. /\ SubSeq(w, 1, z) \in Seq(Cell) /\ Len(SubSeq(w, 1, z)) = z
            /\ \A k \in 1..z : SubSeq(w, 1, z)[k] = w[k]
        BY <3>1
      <3>3. \A k \in 1..z : w[k] = <<e, k>>
        <4> TAKE k \in 1..z
        <4>1. k \in 1..Len(w) /\ ((n + 1) - 1) + k = n + k /\ n + k <= Len(s)
          BY <1>1, <3>1
        <4>2. s[n + k] = <<e, k>>
          BY <1>4, <4>1 DEF z
        <4> QED BY <4>1, <4>2
      <3>4. c \in Seq(Cell) /\ Len(c) = z /\ \A k \in 1..z : c[k] = <<e, k>>
        BY <1>5, CellsType DEF z, Cells
      <3> DEFINE u == SubSeq(w, 1, z)
      <3> HIDE DEF c, u
      <3>5. u \in Seq(Cell) /\ Len(u) = z /\ \A k \in 1..z : u[k] = w[k]
        BY <3>2 DEF u
      <3>6. \A k \in 1..z : u[k] = c[k]
        BY <3>3, <3>4, <3>5
      <3>7. u = c
        BY <3>4, <3>5, <3>6
      <3> QED BY <3>7 DEF Whole, c, u, z
    <2>3. /\ r.n = Size(e)
          /\ \/ /\ r.res = "endofdata" /\ e = StopElement /\ r.decoder.state = "done"
                /\ d.state = "reading_frames"
             \/ /\ r.res \in Consuming /\ DecoderAt(r.decoder, n + Size(e), p)
                /\ e # StopElement
                /\ r.res = "bidirectional" =>
                      p > 0 /\ n + Size(e) = p /\ r.decoder.ready_support_dnstap_protobuf
                /\ r.res = "have_dnstap" => d.state = "reading_frames"
      BY <1>2, <1>4, <2>1, <2>2, OrderlyVerdict
    <2>4. n + Size(e) < Len(s) => s[n + Size(e) + 1][2] = 1
      <3>1. (n + 1) + Size(e) = n + Size(e) + 1 /\ (n + Size(e) < Len(s) => (n + 1) + Size(e) <= Len(s))
        BY <1>1, <1>5
      <3> QED BY <1>4, <3>1
    <2> QED BY <1>5, <2>3, <2>4 DEF e
  <1> QED BY <1>6, <1>7

-----------------------------------------------------------------------------
(***************************************************************************)
(* The answer of a reader: ACCEPT with the DNSTAP content type, FINISH.    *)
(***************************************************************************)
ContentLen == HeaderLen + FieldLen  \* a control header that has the content type

(* Its i-th cell.                                                          *)
AnswerCell(i) ==
    IF i <= HeaderLen THEN <<Control("ACCEPT", 1), i>>
    ELSE IF i <= ContentLen THEN <<Field("dnstap"), i - HeaderLen>>
    ELSE <<Control("FINISH", 0), i - ContentLen>>

(* The decoder d has gone through the first n cells of it.                 *)
AnswerAt(d, n) ==
    \/ n = 0 /\ d = DecoderInit
    \/ n = HeaderLen
       /\ d = [state |-> "checking_accept",
               reader |-> [expect |-> "field", type |-> "ACCEPT", fields |-> 1],
               ready_support_dnstap_protobuf |-> FALSE,
               accept_support_dnstap_protobuf |-> FALSE]
    \/ n = ContentLen
       /\ d = [state |-> "checking_finish",
               reader |-> [expect |-> "control", type |-> "ACCEPT", fields |-> 0],
               ready_support_dnstap_protobuf |-> FALSE,
               accept_support_dnstap_protobuf |-> TRUE]

(* All of an element is ahead.                                             *)
LEMMA WholeAhead ==
    ASSUME NEW e \in Element, NEW w \in Seq(Cell), Size(e) <= Len(w),
           \A k \in 1..Size(e) : w[k] = <<e, k>>
    PROVE  Whole(w, e)
  <1> DEFINE c == Cells(e)
             z == Size(e)
             u == SubSeq(w, 1, z)
  <1>1. z \in Nat /\ z <= Len(w)
    BY CellsType
  <1>2. c \in Seq(Cell) /\ Len(c) = z /\ \A k \in 1..z : c[k] = <<e, k>>
    BY CellsType DEF Cells
  <1>3. \A k \in 1..z : w[k] = <<e, k>>
    OBVIOUS
  <1> HIDE DEF z, c
  <1>4. u \in Seq(Cell) /\ Len(u) = z /\ \A k \in 1..z : u[k] = w[k]
    BY <1>1
  <1> HIDE DEF u
  <1>5. \A k \in 1..z : u[k] = c[k]
    BY <1>2, <1>3, <1>4
  <1>6. u = c
    BY <1>2, <1>4, <1>5
  <1> QED BY <1>6 DEF Whole, c, u, z

(* What the decoder makes of it: nothing but an element of it in its turn,  *)
(* or a part of one, for the rest of which it waits.                       *)
LEMMA AnswerDecoded ==
    ASSUME NEW d, NEW n \in Nat, AnswerAt(d, n), NEW w \in Seq(Cell), w # <<>>,
           \A i \in 1..Len(w) : w[i] = AnswerCell(n + i)
    PROVE  LET r == Decode(d, w) IN
           /\ n < ContentLen =>
                 \/ r.res = "need_more" /\ r.decoder = d
                 \/ /\ r.res = "again" /\ r.n \in 1..Len(w) /\ n + r.n < ContentLen
                    /\ AnswerAt(r.decoder, n + r.n)
                 \/ /\ r.res = "bidirectional" /\ r.n \in 1..Len(w) /\ n + r.n = ContentLen
                    /\ AnswerAt(r.decoder, n + r.n) /\ r.decoder.accept_support_dnstap_protobuf
           /\ n = ContentLen /\ HeaderLen <= Len(w) => r.res = "endofdata"
  <1> DEFINE t == TinyRead(d.reader, w)
             v == Verdict(d, t)
             r == Decode(d, w)
  <1>1. /\ HeaderLen \in Nat \ {0} /\ FieldLen \in Nat \ {0} /\ Len(w) \in Nat \ {0}
        /\ ContentLen = HeaderLen + FieldLen /\ ContentLen \in Nat
    BY LengthAssumption DEF ContentLen
  <1>2. d \in DecoderType /\ d.state # "done"
    <2>1. /\ [expect |-> "control", type |-> "READY", fields |-> 0] \in TinyReader
          /\ [expect |-> "field", type |-> "ACCEPT", fields |-> 1] \in TinyReader
          /\ [expect |-> "control", type |-> "ACCEPT", fields |-> 0] \in TinyReader
      BY DEF TinyReader, ControlType
    <2>2. \A q \in TinyReader, s \in DecoderState, x, y \in BOOLEAN :
             [state |-> s, reader |-> q, ready_support_dnstap_protobuf |-> x,
              accept_support_dnstap_protobuf |-> y] \in DecoderType
      BY DEF DecoderType
    <2>3. {"reading_control", "checking_accept", "checking_finish"} \subseteq DecoderState
      BY DEF DecoderState
    <2>4. CASE n = 0 /\ d = DecoderInit
      <3>1. DecoderInit \in DecoderType
        BY <2>1, <2>2, <2>3 DEF DecoderInit, TinyReaderInit
      <3>2. DecoderInit.state # "done"
        BY DEF DecoderInit
      <3> QED BY <2>4, <3>1, <3>2
    <2>5. ASSUME NEW q \in TinyReader, NEW s \in DecoderState, NEW x \in BOOLEAN, s # "done",
                 d = [state |-> s, reader |-> q, ready_support_dnstap_protobuf |-> FALSE,
                      accept_support_dnstap_protobuf |-> x]
          PROVE  d \in DecoderType /\ d.state # "done"
      BY <2>2, <2>5
    <2> QED BY <2>1, <2>3, <2>4, <2>5 DEF AnswerAt
  <1>3. /\ r.res = v.res /\ r.n = t.n
        /\ r.decoder = [state |-> v.state, reader |-> t.reader,
                        ready_support_dnstap_protobuf |->
                            d.ready_support_dnstap_protobuf \/
                              (d.state = "checking_ready" /\ t.res = "have_control_field" /\ t.el.what = "dnstap"),
                        accept_support_dnstap_protobuf |->
                            d.accept_support_dnstap_protobuf \/
                              (d.state = "checking_accept" /\ t.res = "have_control_field" /\ t.el.what = "dnstap")]
    BY DEF Decode
  <1>4. ASSUME NEW e \in Element, \A k \in 1..Size(e) : k <= Len(w) => w[k] = <<e, k>>,
               Expected(d.reader, e)
        PROVE  \/ r.res = "need_more" /\ r.decoder = d /\ Len(w) < Size(e)
               \/ /\ Size(e) <= Len(w) /\ t.el = e /\ t.n = Size(e) /\ Size(e) \in Nat \ {0}
                  /\ e.kind = "control" => /\ t.res = ReadControl(d.reader, e).res
                                           /\ t.reader = ReadControl(d.reader, e).reader
                  /\ e.kind = "field" => /\ t.res = "have_control_field"
                                         /\ t.reader = ReadField(d.reader).reader
    <2>1. Size(e) \in Nat \ {0}
      BY CellsType
    <2>2. w[1][1] = e
      <3>1. 1 \in 1..Size(e) /\ 1 <= Len(w)
        BY <1>1, <2>1
      <3>2. w[1] = <<e, 1>>
        BY <1>4, <3>1
      <3> QED BY <3>2
    <2>3. CASE Len(w) < Size(e)
      <3>1. t.res = "need_more" /\ t.reader = d.reader
        BY <2>2, <2>3 DEF TinyRead
      <3> HIDE DEF t
      <3>2. v = [res |-> "need_more", state |-> d.state]
        BY <1>2, <3>1 DEF Verdict
      <3>3. /\ d.ready_support_dnstap_protobuf \in BOOLEAN
            /\ d.accept_support_dnstap_protobuf \in BOOLEAN
            /\ d = [state |-> d.state, reader |-> d.reader,
                    ready_support_dnstap_protobuf |-> d.ready_support_dnstap_protobuf,
                    accept_support_dnstap_protobuf |-> d.accept_support_dnstap_protobuf]
        BY <1>2 DEF DecoderType
      <3> HIDE DEF v, r
      <3>4. /\ r.res = "need_more"
            /\ r.decoder = [state |-> d.state, reader |-> d.reader,
                    ready_support_dnstap_protobuf |-> d.ready_support_dnstap_protobuf,
                    accept_support_dnstap_protobuf |-> d.accept_support_dnstap_protobuf]
        BY <1>3, <3>1, <3>2, <3>3
      <3> QED BY <2>3, <3>3, <3>4
    <2>4. CASE ~(Len(w) < Size(e))
      <3>1. Size(e) <= Len(w)
        BY <1>1, <2>1, <2>4
      <3>2. \A k \in 1..Size(e) : w[k] = <<e, k>>
        BY <1>1, <1>4, <2>1, <3>1
      <3>3. Whole(w, e)
        BY <3>1, <3>2, WholeAhead
      <3>4. d.reader \in TinyReader
        BY <1>2 DEF DecoderType
      <3>5. /\ t.el = e /\ t.n = Size(e)
            /\ e.kind = "control" => /\ t.res = ReadControl(d.reader, e).res
                                     /\ t.reader = ReadControl(d.reader, e).reader
            /\ e.kind = "field" => /\ t.res = "have_control_field"
                                   /\ t.reader = ReadField(d.reader).reader
        BY <1>4, <2>2, <3>1, <3>3, <3>4, TinyReads
      <3> QED BY <2>1, <3>1, <3>5
    <2> QED BY <2>3, <2>4
  <1> HIDE DEF t, r
  <1> SUFFICES /\ n < ContentLen =>
                     \/ r.res = "need_more" /\ r.decoder = d
                     \/ /\ r.res = "again" /\ r.n \in 1..Len(w) /\ n + r.n < ContentLen
                        /\ AnswerAt(r.decoder, n + r.n)
                     \/ /\ r.res = "bidirectional" /\ r.n \in 1..Len(w) /\ n + r.n = ContentLen
                        /\ AnswerAt(r.decoder, n + r.n)
                        /\ r.decoder.accept_support_dnstap_protobuf
               /\ n = ContentLen /\ HeaderLen <= Len(w) => r.res = "endofdata"
    BY DEF r
  <1>5. CASE n = 0 /\ d = DecoderInit
    <2> DEFINE e == Control("ACCEPT", 1)
    <2>1. e \in Element /\ Size(e) = HeaderLen /\ e.kind = "control" /\ e.what = "ACCEPT" /\ e.fields = 1
      BY DEF Control, Element, ControlType, Size
    <2>2. /\ d.state = "reading_control" /\ d.reader = TinyReaderInit
          /\ d.reader.expect = "control"
          /\ d.ready_support_dnstap_protobuf = FALSE /\ d.accept_support_dnstap_protobuf = FALSE
      BY <1>5 DEF DecoderInit, TinyReaderInit
    <2>3. Expected(d.reader, e)
      BY <2>1, <2>2 DEF Expected
    <2>4. \A k \in 1..Size(e) : k <= Len(w) => w[k] = <<e, k>>
      <3> TAKE k \in 1..Size(e)
      <3> HAVE k <= Len(w)
      <3>1. k \in 1..Len(w) /\ n + k <= HeaderLen /\ n + k = k
        BY <1>1, <1>5, <2>1
      <3>2. w[k] = AnswerCell(n + k)
        BY <3>1
      <3> QED BY <3>1, <3>2 DEF AnswerCell
    <2> HIDE DEF e
    <2>5. CASE r.res = "need_more" /\ r.decoder = d
      BY <1>1, <1>5, <2>5
    <2>6. CASE /\ Size(e) <= Len(w) /\ t.el = e /\ t.n = Size(e)
               /\ t.res = ReadControl(d.reader, e).res
               /\ t.reader = ReadControl(d.reader, e).reader
      <3>1. /\ t.res = "have_control"
            /\ t.reader = [expect |-> "field", type |-> "ACCEPT", fields |-> 1]
        BY <2>1, <2>6 DEF ReadControl
      <3>2. v = [res |-> "again", state |-> "checking_accept"]
        BY <2>1, <2>2, <2>6, <3>1 DEF Verdict
      <3> HIDE DEF v
      <3>3. /\ r.res = "again" /\ r.n = HeaderLen
            /\ r.decoder = [state |-> "checking_accept",
                            reader |-> [expect |-> "field", type |-> "ACCEPT", fields |-> 1],
                            ready_support_dnstap_protobuf |-> FALSE,
                            accept_support_dnstap_protobuf |-> FALSE]
        BY <1>3, <2>1, <2>2, <2>6, <3>1, <3>2
      <3>4. n + r.n = HeaderLen /\ r.n \in 1..Len(w) /\ n + r.n < ContentLen /\ n # ContentLen
        BY <1>1, <1>5, <2>1, <2>6, <3>3
      <3>5. AnswerAt(r.decoder, n + r.n)
        BY <3>3, <3>4 DEF AnswerAt
      <3> QED BY <3>3, <3>4, <3>5
    <2> QED BY <1>4, <2>1, <2>3, <2>4, <2>5, <2>6
  <1>6. CASE /\ n = HeaderLen
             /\ d = [state |-> "checking_accept",
                     reader |-> [expect |-> "field", type |-> "ACCEPT", fields |-> 1],
                     ready_support_dnstap_protobuf |-> FALSE,
                     accept_support_dnstap_protobuf |-> FALSE]
    <2> DEFINE e == Field("dnstap")
    <2>1. e \in Element /\ Size(e) = FieldLen /\ e.kind = "field" /\ e.what = "dnstap"
      BY DEF Field, Element, FieldValue, Size
    <2>2. /\ d.state = "checking_accept"
          /\ d.reader = [expect |-> "field", type |-> "ACCEPT", fields |-> 1]
          /\ d.ready_support_dnstap_protobuf = FALSE /\ d.accept_support_dnstap_protobuf = FALSE
      BY <1>6
    <2>3. Expected(d.reader, e)
      BY <2>1, <2>2 DEF Expected
    <2>4. \A k \in 1..Size(e) : k <= Len(w) => w[k] = <<e, k>>
      <3> TAKE k \in 1..Size(e)
      <3> HAVE k <= Len(w)
      <3>1. k \in 1..Len(w) /\ ~(n + k <= HeaderLen) /\ n + k <= ContentLen /\ (n + k) - HeaderLen = k
        BY <1>1, <1>6, <2>1
      <3>2. w[k] = AnswerCell(n + k)
        BY <3>1
      <3> QED BY <3>1, <3>2 DEF AnswerCell
    <2> HIDE DEF e
    <2>5. CASE r.res = "need_more" /\ r.decoder = d
      BY <1>1, <1>6, <2>5
    <2>6. CASE /\ Size(e) <= Len(w) /\ t.el = e /\ t.n = Size(e)
               /\ t.res = "have_control_field"
               /\ t.reader = ReadField(d.reader).reader
      <3>1. t.reader = [expect |-> "control", type |-> "ACCEPT", fields |-> 0]
        <4>1. ReadField([expect |-> "field", type |-> "ACCEPT", fields |-> 1]).reader
                 = [expect |-> "control", type |-> "ACCEPT", fields |-> 0]
          <5> DEFINE q == [expect |-> "field", type |-> "ACCEPT", fields |-> 1]
          <5>1. q.fields = 1 /\ q.type = "ACCEPT" /\ 1 - 1 = 0 /\ AfterFields("ACCEPT") = "control"
            BY DEF AfterFields
          <5>2. [q EXCEPT !.fields = 0, !.expect = "control"]
                   = [expect |-> "control", type |-> "ACCEPT", fields |-> 0]
            <6>1. [q EXCEPT !.fields = 0] = [expect |-> "field", type |-> "ACCEPT", fields |-> 0]
              OBVIOUS
            <6>2. [[expect |-> "field", type |-> "ACCEPT", fields |-> 0] EXCEPT !.expect = "control"]
                     = [expect |-> "control", type |-> "ACCEPT", fields |-> 0]
              OBVIOUS
            <6> QED BY <6>1, <6>2
          <5> HIDE DEF q
          <5>3. ReadField(q).reader = [q EXCEPT !.fields = 0, !.expect = "control"]
            BY <5>1 DEF ReadField
          <5> QED BY <5>2, <5>3 DEF q
        <4> QED BY <2>2, <2>6, <4>1
      <3>2. v = [res |-> "bidirectional", state |-> "checking_finish"]
        BY <2>1, <2>2, <2>6, <3>1 DEF Verdict
      <3> HIDE DEF v
      <3>3. /\ r.res = "bidirectional" /\ r.n = FieldLen
            /\ r.decoder = [state |-> "checking_finish",
                            reader |-> [expect |-> "control", type |-> "ACCEPT", fields |-> 0],
                            ready_support_dnstap_protobuf |-> FALSE,
                            accept_support_dnstap_protobuf |-> TRUE]
        BY <1>3, <2>1, <2>2, <2>6, <3>1, <3>2
      <3>4. n + r.n = ContentLen /\ r.n \in 1..Len(w) /\ n # ContentLen
        BY <1>1, <1>6, <2>1, <2>6, <3>3
      <3>5. AnswerAt(r.decoder, n + r.n) /\ r.decoder.accept_support_dnstap_protobuf
        BY <3>3, <3>4 DEF AnswerAt
      <3> QED BY <3>3, <3>4, <3>5
    <2> QED BY <1>4, <2>1, <2>3, <2>4, <2>5, <2>6
  <1>7. CASE /\ n = ContentLen
             /\ d = [state |-> "checking_finish",
                     reader |-> [expect |-> "control", type |-> "ACCEPT", fields |-> 0],
                     ready_support_dnstap_protobuf |-> FALSE,
                     accept_support_dnstap_protobuf |-> TRUE]
    <2> DEFINE e == Control("FINISH", 0)
    <2>1. e \in Element /\ Size(e) = HeaderLen /\ e.kind = "control" /\ e.what = "FINISH"
      BY DEF Control, Element, ControlType, Size
    <2>2. d.state = "checking_finish" /\ d.reader.expect = "control"
      BY <1>7
    <2>3. Expected(d.reader, e)
      BY <2>1, <2>2 DEF Expected
    <2>4. \A k \in 1..Size(e) : k <= Len(w) => w[k] = <<e, k>>
      <3> TAKE k \in 1..Size(e)
      <3> HAVE k <= Len(w)
      <3>1. /\ k \in 1..Len(w) /\ ~(n + k <= HeaderLen) /\ ~(n + k <= ContentLen)
            /\ (n + k) - ContentLen = k
        BY <1>1, <1>7, <2>1
      <3>2. w[k] = AnswerCell(n + k)
        BY <3>1
      <3> QED BY <3>1, <3>2 DEF AnswerCell
    <2> HIDE DEF e
    <2>5. CASE Len(w) < Size(e)
      BY <1>1, <1>7, <2>1, <2>5
    <2>6. CASE t.res = ReadControl(d.reader, e).res
      <3>1. t.res = "finished"
        BY <2>1, <2>6 DEF ReadControl
      <3>2. v = [res |-> "endofdata", state |-> "done"]
        BY <2>2, <3>1 DEF Verdict
      <3> HIDE DEF v
      <3>3. r.res = "endofdata"
        BY <1>3, <3>2
      <3> QED BY <1>7, <3>3
    <2> QED BY <1>4, <2>1, <2>3, <2>4, <2>5, <2>6
  <1> QED BY <1>5, <1>6, <1>7 DEF AnswerAt

(* It is what the encoder makes of ACCEPT, and then of FINISH.             *)
LEMMA AnswerEncoded ==
    ASSUME NEW d \in Message \cup {NoDnstap}
    PROVE  LET a == Encoding("control_accept", d).cells
               f == Encoding("control_finish", d).cells
           IN  /\ a \in Seq(Cell) /\ f \in Seq(Cell)
               /\ Len(a) = ContentLen /\ Len(a \o f) = ContentLen + HeaderLen
               /\ \A i \in 1..ContentLen : a[i] = AnswerCell(i)
               /\ \A i \in 1..(ContentLen + HeaderLen) : (a \o f)[i] = AnswerCell(i)
  <1> DEFINE x == Cells(Control("ACCEPT", 1))
             y == Cells(Field("dnstap"))
             f == Cells(Control("FINISH", 0))
             a == x \o y
  <1>1. Encoding("control_accept", d).cells = a /\ Encoding("control_finish", d).cells = f
    BY DEF Encoding
  <1>2. /\ HeaderLen \in Nat \ {0} /\ FieldLen \in Nat \ {0}
        /\ ContentLen = HeaderLen + FieldLen /\ ContentLen \in Nat
    BY LengthAssumption DEF ContentLen
  <1>3. /\ Control("ACCEPT", 1) \in Element /\ Size(Control("ACCEPT", 1)) = HeaderLen
        /\ Field("dnstap") \in Element /\ Size(Field("dnstap")) = FieldLen
        /\ Control("FINISH", 0) \in Element /\ Size(Control("FINISH", 0)) = HeaderLen
    BY DEF Control, Field, Element, ControlType, FieldValue, Size
  <1>4. /\ x \in Seq(Cell) /\ Len(x) = HeaderLen
        /\ y \in Seq(Cell) /\ Len(y) = FieldLen
        /\ f \in Seq(Cell) /\ Len(f) = HeaderLen
    BY <1>3, CellsType
  <1>5. /\ \A i \in 1..HeaderLen : x[i] = <<Control("ACCEPT", 1), i>>
        /\ \A i \in 1..FieldLen : y[i] = <<Field("dnstap"), i>>
        /\ \A i \in 1..HeaderLen : f[i] = <<Control("FINISH", 0), i>>
    BY <1>3 DEF Cells
  <1> HIDE DEF x, y, f
  <1>6. a \in Seq(Cell) /\ Len(a) = ContentLen
    BY <1>2, <1>4
  <1>7. ASSUME NEW i \in 1..ContentLen
        PROVE  a[i] = AnswerCell(i)
    <2>1. CASE i <= HeaderLen
      <3>1. i \in 1..HeaderLen /\ a[i] = x[i]
        BY <1>2, <1>4, <2>1
      <3> QED BY <1>5, <2>1, <3>1 DEF AnswerCell
    <2>2. CASE ~(i <= HeaderLen)
      <3>1. i - HeaderLen \in 1..FieldLen /\ i <= ContentLen
        BY <1>2, <2>2
      <3>2. a[i] = y[i - HeaderLen]
        BY <1>2, <1>4, <2>2, <3>1
      <3> QED BY <1>5, <2>2, <3>1, <3>2 DEF AnswerCell
    <2> QED BY <2>1, <2>2
  <1> HIDE DEF a
  <1>8. Len(a \o f) = ContentLen + HeaderLen
    <2>1. \A s, t \in Seq(Cell) : Len(s \o t) = Len(s) + Len(t)
      OBVIOUS
    <2>2. Len(a \o f) = Len(a) + Len(f)
      BY <1>4, <1>6, <2>1
    <2> QED BY <1>4, <1>6, <2>2
  <1>9. ASSUME NEW i \in 1..(ContentLen + HeaderLen)
        PROVE  (a \o f)[i] = AnswerCell(i)
    <2>1. CASE i <= ContentLen
      <3>1. i \in 1..ContentLen /\ (a \o f)[i] = a[i]
        BY <1>2, <1>4, <1>6, <2>1
      <3> QED BY <1>7, <3>1
    <2>2. CASE ~(i <= ContentLen)
      <3>1. i - ContentLen \in 1..HeaderLen /\ ~(i <= HeaderLen)
        BY <1>2, <2>2
      <3>2. (a \o f)[i] = f[i - ContentLen]
        BY <1>2, <1>4, <1>6, <2>2, <3>1
      <3> QED BY <1>5, <2>2, <3>1, <3>2 DEF AnswerCell
    <2> QED BY <2>1, <2>2
  <1> QED BY <1>1, <1>4, <1>6, <1>7, <1>8, <1>9

=============================================================================
