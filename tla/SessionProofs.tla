--------------------------- MODULE SessionProofs ----------------------------
(***************************************************************************)
(* Proofs about a connection from end to end, and about the Event its       *)
(* threads wait for.                                                        *)
(*                                                                         *)
(* Tiling, for frames and tiles of any size and any number of Compressors:  *)
(* their tiles cut the frame exactly.  What a loop computes is proved by    *)
(* induction over the rounds it still has to go (SetInduction).             *)
(*                                                                         *)
(* Session, for any versions, images, windows and bounds: both ends are in  *)
(* the same phase of the negotiation, so no header is misread, neither end  *)
(* waits for ever, and the sender throws only for the reasons               *)
(* ThrowsOnlyWhen names; and the window shows the frame that was sent last, *)
(* but in the cases that FrameShown names.                                  *)
(*                                                                         *)
(* Event, for any number of threads: no wake-up is lost, and wait() and     *)
(* signal() are as good as indivisible.                                     *)
(***************************************************************************)
EXTENDS Session, Event, SequenceFacts, WellFoundedInduction,
        FiniteSetTheorems, SequenceTheorems, TLAPS

-----------------------------------------------------------------------------
(* Tiling *)

(* Every set of numbers has a least element,                                 *)
LEMMA LeastNumber ==
    ASSUME NEW T, T \subseteq Nat, T # {}
    PROVE  \E n \in T : \A m \in T : n <= m
<1> DEFINE less == {pair \in Nat \X Nat : pair[1] < pair[2]}
<1>1. IsWellFoundedOn(less, Nat)
  BY NatLessThanWellFounded DEF OpToRel
<1>2. PICK n \in T : \A m \in T : <<m, n>> \notin less
  BY <1>1, WFMin, Zenon
<1>3. ASSUME NEW m \in T PROVE n <= m
  <2>1. <<m, n>> \in less <=> m < n
    OBVIOUS
  <2> QED
    BY <1>2, <2>1
<1> QED
  BY <1>3

(* so a set that has 0, and with every number the next, has all numbers.     *)
LEMMA SetInduction ==
    ASSUME NEW S, 0 \in S, \A n \in Nat : n \in S => n + 1 \in S
    PROVE  Nat \subseteq S
<1> SUFFICES ASSUME Nat \ S # {} PROVE FALSE
  OBVIOUS
<1>1. PICK n \in Nat \ S : \A m \in Nat \ S : n <= m
  BY LeastNumber
<1>2. n # 0 /\ n - 1 \in Nat
  OBVIOUS
<1>3. n - 1 \in S
  BY <1>1, <1>2
<1>4. (n - 1) + 1 \in S
  BY <1>2, <1>3
<1> QED
  BY <1>1, <1>4

(* Division with remainder,                                                  *)
LEMMA DivMod ==
    ASSUME NEW a \in Nat, NEW b \in Nat \ {0}
    PROVE  /\ a \div b \in Nat /\ a % b \in 0 .. b - 1
           /\ a = b * (a \div b) + (a % b)
  BY SMT

(* what it needs of multiplication,                                          *)
LEMMA Less ==
    ASSUME NEW b \in Nat \ {0}, NEW x \in Int, NEW y \in Int, x < y
    PROVE  b * x + b <= b * y
<1>1. b * (y - x) >= b
  BY SMT
<1> QED BY <1>1, SMT

(* and that quotient and remainder are the only ones that fit.               *)
LEMMA DivModUnique ==
    ASSUME NEW b \in Nat \ {0}, NEW q \in Nat, NEW r \in 0 .. b - 1
    PROVE  (b * q + r) \div b = q /\ (b * q + r) % b = r
<1> DEFINE a == b * q + r
<1>1. a \in Nat
  BY SMT
<1>2. a \div b \in Nat /\ a % b \in 0 .. b - 1 /\ a = b * (a \div b) + (a % b)
  BY <1>1, DivMod
<1>3. a \div b = q
  BY <1>2, Less
<1> QED BY <1>2, <1>3

(* One round of the loop from i, given what the later rounds give.           *)
Round(length, size, from, i) ==
    IF i >= length THEN <<>>
    ELSE IF length - i < (3 * size) \div 2
    THEN <<[at |-> i, len |-> length - i]>> \o from[i + 2 * size]
    ELSE <<[at |-> i, len |-> size]>> \o from[i + size]

(* The function that Cuts takes its value from exists: it is built up from   *)
(* the rounds that reach the end at once, to those n pixels before it.       *)
LEMMA LoopIsDefined ==
    ASSUME NEW length \in Nat, NEW size \in Nat \ {0}
    PROVE  \E from : from = [i \in Nat |-> Round(length, size, from, i)]
<1> DEFINE Upto(f, n) == [i \in Nat |-> IF i + n >= length
                                        THEN Round(length, size, f, i) ELSE <<>>]
           S == {n \in Nat : \E f : f = Upto(f, n)}
<1>1. 0 \in S
  <2> DEFINE f == [i \in Nat |-> <<>>]
  <2>1. f = Upto(f, 0)
    BY DEF Round
  <2> QED
    BY <2>1
<1>2. ASSUME NEW n \in Nat, n \in S PROVE n + 1 \in S
  <2>1. PICK f : f = Upto(f, n)
    BY <1>2
  <2> DEFINE g == Upto(f, n + 1)
  <2> HIDE DEF g
  <2>2. ASSUME NEW i \in Nat, i + n >= length PROVE g[i] = f[i]
    <3>1. g[i] = Round(length, size, f, i)
      BY <2>2 DEF g
    <3>2. f[i] = Upto(f, n)[i]
      BY <2>1
    <3>3. Upto(f, n)[i] = Round(length, size, f, i)
      BY <2>2
    <3> QED
      BY <3>1, <3>2, <3>3
  <2>3. ASSUME NEW i \in Nat, i + (n + 1) >= length
        PROVE  Round(length, size, f, i) = Round(length, size, g, i)
    <3>1. g[i + size] = f[i + size] /\ g[i + 2 * size] = f[i + 2 * size]
      BY <2>2, <2>3
    <3> QED
      BY <3>1 DEF Round
  <2>4. g = Upto(g, n + 1)
    BY <2>3 DEF g
  <2> QED
    BY <2>4
<1>3. length \in S
  <2> HIDE DEF S
  <2> QED
    BY <1>1, <1>2, SetInduction
<1>4. PICK f : f = Upto(f, length)
  BY <1>3
<1>5. Upto(f, length) = [i \in Nat |-> Round(length, size, f, i)]
  OBVIOUS
<1> QED
  BY <1>4, <1>5

(* Cuts is what the loop gives from the first pixel.                         *)
LEMMA CutsFollowLoop ==
    ASSUME NEW length \in Nat, NEW size \in Nat \ {0}
    PROVE  \E from : /\ from = [i \in Nat |-> Round(length, size, from, i)]
                     /\ Cuts(length, size) = from[0]
<1> DEFINE from == CHOOSE f : f = [i \in Nat |-> Round(length, size, f, i)]
<1>1. from = [i \in Nat |-> Round(length, size, from, i)]
  BY LoopIsDefined
<1>2. Cuts(length, size) = from[0]
  BY DEF Cuts, Round
<1> QED
  BY <1>1, <1>2

(* The pieces that Cuts makes, and the pixels of one                         *)
Piece == [at : Nat, len : Nat \ {0}]

Reaches(c, p) == c.at <= p /\ p < c.at + c.len

(* The pieces s cut what is from i to length.                                *)
CutUp(s, i, length) ==
    /\ s \in Seq(Piece)
    /\ \A k \in 1 .. Len(s) : i <= s[k].at /\ s[k].at + s[k].len <= length
    /\ \A j, k \in 1 .. Len(s) : j < k => s[j].at + s[j].len <= s[k].at
    /\ \A p \in Nat : i <= p /\ p < length =>
          \E k \in 1 .. Len(s) : Reaches(s[k], p)

(* A round in front of the rest cuts from where it starts,                   *)
LEMMA CutFurther ==
    ASSUME NEW length \in Nat, NEW i \in Nat, NEW n \in Nat \ {0},
           i + n <= length, NEW s, CutUp(s, i + n, length)
    PROVE  CutUp(<<[at |-> i, len |-> n]>> \o s, i, length)
<1> DEFINE c == [at |-> i, len |-> n]
           t == <<c>> \o s
<1>1. s \in Seq(Piece) /\ c \in Piece
  BY DEF CutUp, Piece
<1>2. /\ t \in Seq(Piece) /\ Len(t) = Len(s) + 1 /\ Len(s) \in Nat
      /\ t[1] = c /\ \A k \in 1 .. Len(s) : t[k + 1] = s[k]
  BY <1>1
<1>3. \A k \in 2 .. Len(t) : k - 1 \in 1 .. Len(s) /\ t[k] = s[k - 1]
  BY <1>2
<1>4. ASSUME NEW k \in 1 .. Len(t)
      PROVE  i <= t[k].at /\ t[k].at + t[k].len <= length
  <2>1. CASE k = 1
    BY <2>1, <1>2
  <2>2. CASE k \in 2 .. Len(t)
    <3>1. s[k - 1] \in Piece /\ i + n <= s[k - 1].at
          /\ s[k - 1].at + s[k - 1].len <= length
      BY <1>1, <1>3, <2>2 DEF CutUp
    <3> QED
      BY <3>1, <1>3, <2>2 DEF Piece
  <2> QED
    BY <2>1, <2>2, <1>2
<1>5. ASSUME NEW j \in 1 .. Len(t), NEW k \in 1 .. Len(t), j < k
      PROVE  t[j].at + t[j].len <= t[k].at
  <2>1. k \in 2 .. Len(t)
    BY <1>2, <1>5
  <2>2. CASE j = 1
    <3>1. i + n <= s[k - 1].at
      BY <1>3, <2>1 DEF CutUp
    <3> QED
      BY <3>1, <1>2, <1>3, <2>1, <2>2
  <2>3. CASE j \in 2 .. Len(t)
    <3>1. j - 1 < k - 1 /\ j - 1 \in 1 .. Len(s) /\ k - 1 \in 1 .. Len(s)
      BY <1>3, <1>5, <2>1, <2>3
    <3>2. s[j - 1].at + s[j - 1].len <= s[k - 1].at
      BY <3>1 DEF CutUp
    <3> QED
      BY <3>2, <1>3, <2>1, <2>3
  <2> QED
    BY <2>2, <2>3, <1>2
<1>6. ASSUME NEW p \in Nat, i <= p, p < length
      PROVE  \E k \in 1 .. Len(t) : Reaches(t[k], p)
  <2>1. CASE p < i + n
    <3>1. Reaches(t[1], p)
      BY <1>2, <1>6, <2>1 DEF Reaches
    <3> QED
      BY <3>1, <1>2
  <2>2. CASE i + n <= p
    <3>1. PICK k \in 1 .. Len(s) : Reaches(s[k], p)
      BY <1>6, <2>2 DEF CutUp
    <3>2. k + 1 \in 1 .. Len(t) /\ t[k + 1] = s[k]
      BY <1>2
    <3> QED
      BY <3>1, <3>2
  <2> QED
    BY <2>1, <2>2
<1> HIDE DEF t
<1> QED
  BY <1>2, <1>4, <1>5, <1>6 DEF CutUp, t

(* and none is needed when nothing is left.                                  *)
LEMMA NothingLeft ==
    ASSUME NEW length \in Nat, NEW i \in Nat, i >= length
    PROVE  CutUp(<<>>, i, length)
  BY DEF CutUp

(* So the loop cuts all there is, for any length and any size of tile:       *)
LEMMA LoopCuts ==
    ASSUME NEW length \in Nat, NEW size \in Nat \ {0}, NEW from,
           from = [i \in Nat |-> Round(length, size, from, i)]
    PROVE  CutUp(from[0], 0, length)
<1> DEFINE S == {n \in Nat : \A i \in Nat : i + n >= length =>
                                CutUp(from[i], i, length)}
<1>a. \A i \in Nat : from[i] = Round(length, size, from, i)
  <2> DEFINE r(i) == Round(length, size, from, i)
  <2>1. from = [i \in Nat |-> r(i)]
    OBVIOUS
  <2> HIDE DEF r
  <2>2. \A i \in Nat : from[i] = r(i)
    BY <2>1
  <2> QED
    BY <2>2 DEF r
<1>b. ASSUME NEW i \in Nat, i >= length
      PROVE  from[i] = <<>> /\ CutUp(from[i], i, length)
  <2>1. from[i] = <<>>
    BY <1>a, <1>b DEF Round
  <2> QED
    BY <2>1, <1>b, NothingLeft
<1>1. 0 \in S
  BY <1>b
<1>2. ASSUME NEW n \in Nat, n \in S PROVE n + 1 \in S
  <2> SUFFICES ASSUME NEW i \in Nat, i + (n + 1) >= length, i < length
               PROVE  CutUp(from[i], i, length)
    BY <1>b
  <2>0. from[i] = Round(length, size, from, i) /\ ~(i >= length)
    BY <1>a
  <2>1. CASE length - i < (3 * size) \div 2
    <3>1. i + 2 * size \in Nat /\ i + 2 * size >= length
      BY <2>1
    <3>2. from[i] = <<[at |-> i, len |-> length - i]>> \o from[i + 2 * size]
      BY <2>0, <2>1 DEF Round
    <3>3. length - i \in Nat \ {0} /\ i + (length - i) = length
      OBVIOUS
    <3>4. CutUp(from[i + 2 * size], i + (length - i), length)
      BY <3>1, <3>3, <1>b, NothingLeft
    <3>5. CutUp(<<[at |-> i, len |-> length - i]>> \o from[i + 2 * size], i, length)
      BY <3>3, <3>4, CutFurther
    <3> QED
      BY <3>2, <3>5
  <2>2. CASE ~(length - i < (3 * size) \div 2)
    <3>1. i + size <= length
      BY <2>2
    <3>2. CutUp(from[i + size], i + size, length)
      BY <1>2
    <3>3. from[i] = <<[at |-> i, len |-> size]>> \o from[i + size]
      BY <2>0, <2>2 DEF Round
    <3>4. CutUp(<<[at |-> i, len |-> size]>> \o from[i + size], i, length)
      BY <3>1, <3>2, CutFurther
    <3> QED
      BY <3>3, <3>4
  <2> QED
    BY <2>1, <2>2
<1>3. length \in S
  <2> HIDE DEF S
  <2> QED
    BY <1>1, <1>2, SetInduction
<1> QED
  BY <1>3

(* rows and columns are pieces in order, without gaps, within the frame.     *)
LEMMA CutsCutUp ==
    ASSUME NEW length \in Nat, NEW size \in Nat \ {0}
    PROVE  CutUp(Cuts(length, size), 0, length)
  BY CutsFollowLoop, LoopCuts

(* Of pieces in order that reach a pixel, there is one.                      *)
LEMMA OnePieceReaches ==
    ASSUME NEW length \in Nat, NEW s, CutUp(s, 0, length),
           NEW p \in 0 .. length - 1
    PROVE  \E k \in 1 .. Len(s) :
              /\ Reaches(s[k], p)
              /\ \A j \in 1 .. Len(s) : Reaches(s[j], p) => j = k
<1>1. PICK k \in 1 .. Len(s) : Reaches(s[k], p)
  BY DEF CutUp
<1>2. ASSUME NEW j \in 1 .. Len(s), Reaches(s[j], p) PROVE j = k
  <2>1. Len(s) \in Nat /\ s[j] \in Piece /\ s[k] \in Piece
    BY DEF CutUp
  <2>2. j < k => s[j].at + s[j].len <= s[k].at
    BY DEF CutUp
  <2>3. k < j => s[k].at + s[k].len <= s[j].at
    BY DEF CutUp
  <2>4. /\ s[j].at \in Nat /\ s[j].len \in Nat /\ s[k].at \in Nat /\ s[k].len \in Nat
        /\ s[j].at <= p /\ p < s[j].at + s[j].len
        /\ s[k].at <= p /\ p < s[k].at + s[k].len
    BY <1>1, <1>2, <2>1 DEF Reaches, Piece
  <2> QED
    BY <2>1, <2>2, <2>3, <2>4, SMTT(30)
<1> QED
  BY <1>1, <1>2

(* Rows and columns make at least one tile.                                  *)
LEMMA Product ==
    ASSUME NEW a \in Nat \ {0}, NEW b \in Nat \ {0}
    PROVE  a * b \in Nat \ {0}
  BY SMT

(* Tile n has a row and a column,                                            *)
LEMMA NumberOfTile ==
    ASSUME NEW R \in Nat \ {0}, NEW C \in Nat \ {0}, NEW n \in 1 .. R * C
    PROVE  /\ ((n - 1) \div C) + 1 \in 1 .. R /\ ((n - 1) % C) + 1 \in 1 .. C
           /\ n = C * ((n - 1) \div C) + ((n - 1) % C) + 1
<1>1. n - 1 \in Nat /\ R * C \in Nat
  BY Product
<1>2. /\ (n - 1) \div C \in Nat /\ (n - 1) % C \in 0 .. C - 1
      /\ n - 1 = C * ((n - 1) \div C) + ((n - 1) % C)
  BY <1>1, DivMod
<1>3. ~((n - 1) \div C >= R)
  <2> SUFFICES ASSUME (n - 1) \div C >= R PROVE FALSE
    OBVIOUS
  <2> DEFINE q == (n - 1) \div C
  <2>1. q \in Nat /\ q >= R
    BY <1>2
  <2> HIDE DEF q
  <2>2. C * (q - R) \in Nat
    BY <2>1, SMT
  <2>3. C * q >= R * C
    BY <2>1, <2>2, SMT
  <2>4. C * q \in Nat
    BY <2>1, SMT
  <2>5. n - 1 >= C * q
    BY <1>2, <2>4 DEF q
  <2> QED
    BY <1>1, <2>3, <2>4, <2>5
<1> QED
  BY <1>1, <1>2, <1>3

(* and the tile in a row and a column a number.                              *)
LEMMA TileOfNumber ==
    ASSUME NEW R \in Nat \ {0}, NEW C \in Nat \ {0},
           NEW r \in 1 .. R, NEW c \in 1 .. C
    PROVE  \E n \in 1 .. R * C : /\ n = C * (r - 1) + (c - 1) + 1
                                  /\ ((n - 1) \div C) + 1 = r
                                  /\ ((n - 1) % C) + 1 = c
<1> DEFINE m == C * (r - 1) + (c - 1)
<1>1. r - 1 \in Nat /\ c - 1 \in 0 .. C - 1
  OBVIOUS
<1>2. m \div C = r - 1 /\ m % C = c - 1
  BY <1>1, DivModUnique
<1>3. C * (r - 1) \in Nat /\ C * (r - 1) + C <= C * R /\ C * R = R * C
  <2>1. C * (r - 1) + C <= C * R
    BY <1>1, Less
  <2> QED
    BY <1>1, <2>1, SMT
<1>4. m \in Nat /\ m + 1 \in 1 .. R * C
  BY <1>1, <1>3, Product
<1>5. (m + 1) - 1 = m
  BY <1>4
<1> HIDE DEF m
<1>6. /\ m + 1 \in 1 .. R * C /\ (((m + 1) - 1) \div C) + 1 = r
      /\ (((m + 1) - 1) % C) + 1 = c /\ m + 1 = C * (r - 1) + (c - 1) + 1
  <2>1. m + 1 = C * (r - 1) + (c - 1) + 1
    BY DEF m
  <2> QED
    BY <1>2, <1>4, <1>5, <2>1
<1> QED
  BY <1>6

(* The tiles are numbered from 1, lie in the frame and share no pixel.       *)
TilesCutUp(T, w, h, total) ==
    /\ DOMAIN T = 1 .. total /\ Len(T) = total
    /\ \A n \in 1 .. total : T[n] \in [x : Nat, y : Nat, w : Nat, h : Nat]
    /\ \A n \in 1 .. total : T[n].x + T[n].w <= w /\ T[n].y + T[n].h <= h
    /\ \A px \in 0 .. w - 1, py \in 0 .. h - 1 :
          \E n \in 1 .. total : /\ Covers(T[n], px, py)
                                /\ \A m \in 1 .. total :
                                      Covers(T[m], px, py) => m = n

(* Every pixel is in one tile, that of its row and its column.               *)
LEMMA TilesAreCut ==
    ASSUME NEW w \in Nat \ {0}, NEW h \in Nat \ {0}, NEW tilesize \in Nat
    PROVE  \E total \in Nat \ {0} : TilesCutUp(Tiles(w, h, tilesize), w, h, total)
<1> DEFINE rows == Cuts(h, IF tilesize = 0 THEN h ELSE tilesize)
           cols == Cuts(w, IF tilesize = 0 THEN w ELSE tilesize)
           R == Len(rows)
           C == Len(cols)
           row(n) == ((n - 1) \div C) + 1
           col(n) == ((n - 1) % C) + 1
           T == [n \in 1 .. R * C |->
                   [x |-> cols[col(n)].at, y |-> rows[row(n)].at,
                    w |-> cols[col(n)].len, h |-> rows[row(n)].len]]
<1>1. Tiles(w, h, tilesize) = T
  BY DEF Tiles
<1>2. CutUp(rows, 0, h) /\ CutUp(cols, 0, w)
  BY CutsCutUp
<1> HIDE DEF rows, cols
<1>3. R \in Nat \ {0} /\ C \in Nat \ {0}
  <2>1. 0 \in 0 .. h - 1 /\ 0 \in 0 .. w - 1
    OBVIOUS
  <2>2. (\E k \in 1 .. R : TRUE) /\ (\E k \in 1 .. C : TRUE)
    BY <1>2, <2>1, OnePieceReaches
  <2>3. R \in Nat /\ C \in Nat
    BY <1>2 DEF CutUp
  <2> QED
    BY <2>2, <2>3
<1>4. R * C \in Nat \ {0}
  BY <1>3, Product
<1>5. ASSUME NEW n \in 1 .. R * C
      PROVE  row(n) \in 1 .. R /\ col(n) \in 1 .. C
  BY <1>3, NumberOfTile
<1>6. ASSUME NEW n \in 1 .. R * C
      PROVE  /\ T[n].x = cols[col(n)].at /\ T[n].w = cols[col(n)].len
             /\ T[n].y = rows[row(n)].at /\ T[n].h = rows[row(n)].len
  OBVIOUS
<1> HIDE DEF T
<1>7. ASSUME NEW n \in 1 .. R * C
      PROVE  T[n].x + T[n].w <= w /\ T[n].y + T[n].h <= h
  BY <1>2, <1>5, <1>6 DEF CutUp
<1>t. ASSUME NEW n \in 1 .. R * C
      PROVE  T[n] \in [x : Nat, y : Nat, w : Nat, h : Nat]
  <2>1. cols[col(n)] \in Piece /\ rows[row(n)] \in Piece
    BY <1>2, <1>5, ElementOfSeq DEF CutUp
  <2> HIDE DEF row, col
  <2> QED
    BY <2>1 DEF T, Piece
<1>8. ASSUME NEW n \in 1 .. R * C, NEW px, NEW py
      PROVE  Covers(T[n], px, py) <=> /\ Reaches(cols[col(n)], px)
                                      /\ Reaches(rows[row(n)], py)
  BY <1>6 DEF Covers, Reaches
<1>9. ASSUME NEW px \in 0 .. w - 1, NEW py \in 0 .. h - 1
      PROVE  \E n \in 1 .. R * C :
                /\ Covers(T[n], px, py)
                /\ \A m \in 1 .. R * C : Covers(T[m], px, py) => m = n
  <2>1. PICK r \in 1 .. R :
             /\ Reaches(rows[r], py)
             /\ \A j \in 1 .. R : Reaches(rows[j], py) => j = r
    BY <1>2, OnePieceReaches
  <2>2. PICK c \in 1 .. C :
             /\ Reaches(cols[c], px)
             /\ \A j \in 1 .. C : Reaches(cols[j], px) => j = c
    BY <1>2, OnePieceReaches
  <2>3. PICK n \in 1 .. R * C : n = C * (r - 1) + (c - 1) + 1
                               /\ row(n) = r /\ col(n) = c
    <3> HIDE DEF R, C
    <3>1. \E n \in 1 .. R * C : /\ n = C * (r - 1) + (c - 1) + 1
                                 /\ ((n - 1) \div C) + 1 = r
                                 /\ ((n - 1) % C) + 1 = c
      BY <1>3, TileOfNumber
    <3> QED
      BY <3>1
  <2>4. Covers(T[n], px, py)
    BY <1>8, <2>1, <2>2, <2>3
  <2>5. ASSUME NEW m \in 1 .. R * C, Covers(T[m], px, py) PROVE m = n
    <3>1. row(m) = r /\ col(m) = c
      BY <1>5, <1>8, <2>1, <2>2, <2>5
    <3>2. m = C * (row(m) - 1) + (col(m) - 1) + 1
      <4>1. m = C * ((m - 1) \div C) + ((m - 1) % C) + 1
        BY <1>3, NumberOfTile
      <4>2. m - 1 \in Nat
        BY <1>4
      <4>3. (m - 1) \div C \in Nat /\ (m - 1) % C \in 0 .. C - 1
        BY <4>2, <1>3, DivMod
      <4> QED
        BY <4>1, <4>3
    <3> HIDE DEF row, col
    <3> QED
      BY <3>1, <3>2, <2>3
  <2> QED
    BY <2>4, <2>5
<1>10. DOMAIN T = 1 .. R * C /\ Len(T) = R * C
  BY <1>4 DEF T
<1> QED
  BY <1>1, <1>4, <1>7, <1>9, <1>10, <1>t DEF TilesCutUp

(* What a rank takes: its k-th tile is tile (k - 1) * nprocs + rank + 1.     *)
LEMMA RankTakes ==
    ASSUME NEW total \in Nat \ {0}, NEW nprocs \in Nat \ {0},
           NEW rank \in 0 .. nprocs - 1, NEW k \in Nat \ {0}
    PROVE  k <= (total - rank + nprocs - 1) \div nprocs
               <=> (k - 1) * nprocs + rank + 1 <= total
<1> DEFINE X == total - rank + nprocs - 1
           q == X \div nprocs
<1>1. X \in Nat
  OBVIOUS
<1>2. q \in Nat /\ X % nprocs \in 0 .. nprocs - 1
      /\ X = nprocs * q + (X % nprocs)
  BY <1>1, DivMod
<1>3. /\ nprocs * k \in Nat /\ nprocs * q \in Nat /\ (k - 1) * nprocs \in Nat
      /\ (k - 1) * nprocs + nprocs = nprocs * k
  <2> HIDE DEF q
  <2>1. nprocs * k \in Nat /\ nprocs * q \in Nat
    BY <1>2, SMT
  <2>2. k - 1 \in Nat
    OBVIOUS
  <2> QED
    BY <2>1, <2>2, SMT
<1>4. CASE k <= q
  <2>1. nprocs * k <= nprocs * q
    <3>1. k < q \/ k = q
      BY <1>2, <1>4
    <3>2. k < q => nprocs * k + nprocs <= nprocs * q
      BY <1>2, Less
    <3> QED
      BY <3>1, <3>2, <1>3
  <2> QED
    BY <2>1, <1>2, <1>3, <1>4
<1>5. CASE q < k
  <2>1. nprocs * q + nprocs <= nprocs * k
    BY <1>2, <1>5, Less
  <2> QED
    BY <2>1, <1>2, <1>3, <1>5
<1> QED
  BY <1>2, <1>4, <1>5

(* Where the k-th tile of a rank is among all.                               *)
TileNumber(nprocs, rank, k) == (k - 1) * nprocs + rank + 1

(* Tile n is the k-th of this rank, and no other of any.                     *)
TakenBy(nprocs, n, rank, k) ==
    /\ n = TileNumber(nprocs, rank, k)
    /\ \A i \in 0 .. nprocs - 1, j \in Nat \ {0} :
          n = TileNumber(nprocs, i, j) => i = rank /\ j = k

(* No tile is left to nobody, and none is taken twice.                       *)
LEMMA OneRankTakes ==
    ASSUME NEW nprocs \in Nat \ {0}, NEW n \in Nat \ {0}
    PROVE  \E rank \in 0 .. nprocs - 1, k \in Nat \ {0} :
              TakenBy(nprocs, n, rank, k)
<1> DEFINE rank == (n - 1) % nprocs
           k == ((n - 1) \div nprocs) + 1
<1>1. /\ rank \in 0 .. nprocs - 1 /\ k - 1 \in Nat /\ k \in Nat \ {0}
      /\ n - 1 = nprocs * (k - 1) + rank
  <2>1. n - 1 \in Nat
    OBVIOUS
  <2>2. /\ (n - 1) \div nprocs \in Nat /\ rank \in 0 .. nprocs - 1
        /\ n - 1 = nprocs * ((n - 1) \div nprocs) + rank
    BY <2>1, DivMod
  <2>3. k - 1 = (n - 1) \div nprocs
    BY <2>2
  <2> QED
    BY <2>2, <2>3
<1>2. \A j \in Nat \ {0} : /\ (j - 1) * nprocs = nprocs * (j - 1)
                           /\ nprocs * (j - 1) \in Nat
  <2> SUFFICES ASSUME NEW j \in Nat \ {0}
               PROVE  /\ (j - 1) * nprocs = nprocs * (j - 1)
                      /\ nprocs * (j - 1) \in Nat
    OBVIOUS
  <2>1. j - 1 \in Nat
    OBVIOUS
  <2> QED
    BY <2>1, SMT
<1>3. ASSUME NEW i \in 0 .. nprocs - 1, NEW j \in Nat \ {0},
             n = TileNumber(nprocs, i, j)
      PROVE  i = rank /\ j = k
  <2>1. n - 1 = nprocs * (j - 1) + i /\ j - 1 \in Nat
    BY <1>2, <1>3 DEF TileNumber
  <2>2. (n - 1) \div nprocs = j - 1 /\ (n - 1) % nprocs = i
    BY <2>1, DivModUnique
  <2> QED
    BY <2>2
<1>4. n = TileNumber(nprocs, rank, k)
  <2> HIDE DEF k, rank
  <2>1. (k - 1) * nprocs = nprocs * (k - 1) /\ nprocs * (k - 1) \in Nat
    BY <1>1, <1>2
  <2> QED
    BY <1>1, <2>1 DEF TileNumber
<1> HIDE DEF k, rank
<1>5. TakenBy(nprocs, n, rank, k)
  BY <1>3, <1>4 DEF TakenBy
<1> QED
  BY <1>1, <1>5

(* The conclusion of ExactCut for one frame                                  *)
CutExactly(tiles, w, h) ==
    /\ \A s \in DOMAIN tiles : tiles[s].x + tiles[s].w <= w
                               /\ tiles[s].y + tiles[s].h <= h
    /\ \A px \in 0 .. w - 1, py \in 0 .. h - 1 :
          Cardinality({s \in DOMAIN tiles : Covers(tiles[s], px, py)}) = 1

(* The frame is cut exactly, whatever its size and that of the tiles.        *)
LEMMA FrameCutExactly ==
    ASSUME NEW w \in Nat \ {0}, NEW h \in Nat \ {0}, NEW ts \in Nat,
           NEW nprocs \in Nat \ {0},
           NEW tiles,
           tiles = [s \in Sent(w, h, ts, nprocs) |->
                      TilesOfRank(w, h, ts, s[1], nprocs)[s[2]]]
    PROVE  CutExactly(tiles, w, h)
<1> DEFINE T == Tiles(w, h, ts)
           number(rank, k) == TileNumber(nprocs, rank, k)
<1>1. PICK total \in Nat \ {0} : TilesCutUp(T, w, h, total)
  BY TilesAreCut
<1>2. ASSUME NEW rank \in 0 .. nprocs - 1
      PROVE  TilesOfRank(w, h, ts, rank, nprocs) =
             [k \in 1 .. (total - rank + nprocs - 1) \div nprocs |-> T[number(rank,
                 k)]]
  <2>1. Len(T) = total
    BY <1>1 DEF TilesCutUp
  <2> QED
    BY <2>1 DEF TilesOfRank, TileNumber
<1> HIDE DEF T
<1>3. ASSUME NEW rank \in 0 .. nprocs - 1
      PROVE  /\ DOMAIN TilesOfRank(w, h, ts, rank, nprocs)
                = {k \in Nat \ {0} : number(rank, k) \in 1 .. total}
             /\ \A k \in Nat \ {0} : number(rank, k) \in 1 .. total =>
                   TilesOfRank(w, h, ts, rank, nprocs)[k] = T[number(rank, k)]
  <2> DEFINE q == (total - rank + nprocs - 1) \div nprocs
  <2>1. q \in Nat
    <3>1. total - rank + nprocs - 1 \in Nat
      OBVIOUS
    <3> QED
      BY <3>1, DivMod
  <2>2. ASSUME NEW k \in Nat \ {0}
        PROVE  k \in 1 .. q <=> number(rank, k) \in 1 .. total
    <3>1. k <= q <=> number(rank, k) <= total
      BY RankTakes DEF TileNumber
    <3>2. number(rank, k) \in Nat \ {0}
      <4>1. k - 1 \in Nat
        OBVIOUS
      <4>2. (k - 1) * nprocs \in Nat
        BY <4>1, SMT
      <4> QED
        BY <4>2 DEF TileNumber
    <3> HIDE DEF q
    <3> QED
      BY <2>1, <3>1, <3>2
  <2> HIDE DEF q
  <2>3. 1 .. q = {k \in Nat \ {0} : number(rank, k) \in 1 .. total}
    BY <2>1, <2>2
  <2>4. TilesOfRank(w, h, ts, rank, nprocs) = [k \in 1 .. q |-> T[number(rank, k)]]
    BY <1>2 DEF q
  <2> QED
    BY <2>3, <2>4
<1>4. Sent(w, h, ts, nprocs) =
      {s \in (0 .. nprocs - 1) \X (Nat \ {0}) : number(s[1], s[2]) \in 1 .. total}
  <2> DEFINE domain(rank) == DOMAIN TilesOfRank(w, h, ts, rank, nprocs)
  <2>1. Sent(w, h, ts, nprocs)
        = UNION {{<<rank, n>> : n \in domain(rank)} : rank \in 0 .. nprocs - 1}
    BY DEF Sent
  <2>2. \A rank \in 0 .. nprocs - 1 :
           domain(rank) = {k \in Nat \ {0} : number(rank, k) \in 1 .. total}
    BY <1>3
  <2> HIDE DEF domain
  <2>3. ASSUME NEW s \in Sent(w, h, ts, nprocs)
        PROVE  s \in (0 .. nprocs - 1) \X (Nat \ {0})
               /\ number(s[1], s[2]) \in 1 .. total
    <3>1. PICK rank \in 0 .. nprocs - 1 : s \in {<<rank, n>> : n \in domain(rank)}
      BY <2>1
    <3>2. PICK n \in domain(rank) : s = <<rank, n>>
      BY <3>1
    <3> QED
      BY <2>2, <3>2
  <2>4. ASSUME NEW rank \in 0 .. nprocs - 1, NEW k \in Nat \ {0},
               number(rank, k) \in 1 .. total
        PROVE  <<rank, k>> \in Sent(w, h, ts, nprocs)
    <3>1. k \in domain(rank)
      BY <2>2, <2>4
    <3>2. <<rank, k>> \in {<<rank, n>> : n \in domain(rank)}
      BY <3>1
    <3> QED
      BY <2>1, <3>2
  <2> QED
    BY <2>3, <2>4
<1>5. ASSUME NEW s \in DOMAIN tiles
      PROVE  /\ s \in (0 .. nprocs - 1) \X (Nat \ {0})
             /\ number(s[1], s[2]) \in 1 .. total
             /\ tiles[s] = T[number(s[1], s[2])]
  <2>1. s \in (0 .. nprocs - 1) \X (Nat \ {0}) /\ number(s[1], s[2]) \in 1 .. total
    BY <1>4
  <2>2. tiles[s] = TilesOfRank(w, h, ts, s[1], nprocs)[s[2]]
    OBVIOUS
  <2> QED
    BY <1>3, <2>1, <2>2
<1>6. ASSUME NEW s \in DOMAIN tiles
      PROVE  tiles[s].x + tiles[s].w <= w /\ tiles[s].y + tiles[s].h <= h
  BY <1>1, <1>5 DEF TilesCutUp
<1>7. ASSUME NEW px \in 0 .. w - 1, NEW py \in 0 .. h - 1
      PROVE  Cardinality({s \in DOMAIN tiles : Covers(tiles[s], px, py)}) = 1
  <2>1. PICK n \in 1 .. total :
             /\ Covers(T[n], px, py)
             /\ \A m \in 1 .. total : Covers(T[m], px, py) => m = n
    BY <1>1 DEF TilesCutUp
  <2>2. PICK rank \in 0 .. nprocs - 1, k \in Nat \ {0} :
             TakenBy(nprocs, n, rank, k)
    <3>1. n \in Nat \ {0}
      OBVIOUS
    <3> QED
      BY <3>1, OneRankTakes
  <2>3. <<rank, k>> \in DOMAIN tiles
    BY <1>4, <2>2 DEF TakenBy
  <2>4. Covers(tiles[<<rank, k>>], px, py)
    BY <1>5, <2>1, <2>2, <2>3 DEF TakenBy
  <2>5. ASSUME NEW s \in DOMAIN tiles, Covers(tiles[s], px, py)
        PROVE  s = <<rank, k>>
    BY <1>5, <2>1, <2>2, <2>5 DEF TakenBy
  <2>6. {s \in DOMAIN tiles : Covers(tiles[s], px, py)} = {<<rank, k>>}
    BY <2>3, <2>4, <2>5
  <2> QED
    BY <2>6, FS_Singleton
<1> QED
  BY <1>6, <1>7 DEF CutExactly

(* compressSend(): whatever the size of the frame and of the tiles and       *)
(* however many Compressors there are, their tiles together cut the frame    *)
(* exactly.                                                                  *)
THEOREM FramesAreCutExactly == ExactCut
<1> SUFFICES ASSUME NEW w \in 1 .. MaxSize, NEW h \in 1 .. MaxSize,
                    NEW ts \in 0 .. MaxSize, NEW nprocs \in 1 .. MaxProcs
             PROVE  LET part == [rank \in 0 .. nprocs - 1 |->
                                   TilesOfRank(w, h, ts, rank, nprocs)]
                        tiles == [s \in Sent(w, h, ts, nprocs) |-> part[s[1]][s[2]]]
                    IN  /\ \A s \in DOMAIN tiles : tiles[s].x + tiles[s].w <= w
                                                   /\ tiles[s].y + tiles[s].h <= h
                        /\ \A px \in 0 .. w - 1, py \in 0 .. h - 1 :
                              Cardinality({s \in DOMAIN tiles :
                                             Covers(tiles[s], px, py)}) = 1
  BY DEF ExactCut
<1> DEFINE part == [rank \in 0 .. nprocs - 1 |-> TilesOfRank(w, h, ts, rank,
    nprocs)]
           tiles == [s \in Sent(w, h, ts, nprocs) |-> part[s[1]][s[2]]]
<1>1. w \in Nat \ {0} /\ h \in Nat \ {0} /\ ts \in Nat /\ nprocs \in Nat \ {0}
  BY TilingAssumption
<1>2. ASSUME NEW s \in Sent(w, h, ts, nprocs)
      PROVE  part[s[1]][s[2]] = TilesOfRank(w, h, ts, s[1], nprocs)[s[2]]
  <2>1. s[1] \in 0 .. nprocs - 1
    BY DEF Sent
  <2> QED
    BY <2>1
<1>3. tiles = [s \in Sent(w, h, ts, nprocs) |->
                 TilesOfRank(w, h, ts, s[1], nprocs)[s[2]]]
  BY <1>2
<1>4. CutExactly(tiles, w, h)
  <2> HIDE DEF tiles
  <2> QED
    BY <1>1, <1>3, FrameCutExactly
<1> QED
  BY <1>4, Zenon DEF CutExactly

-----------------------------------------------------------------------------
(* Session *)

(* What a frame and a message can be                                         *)
Kinds == {"JPEG", "RGB", "YUV"}

Frames == [n : Nat, l : Images, r : RightImages \cup {None}, compress : Kinds,
           subsamp : Subsampling]

(* Messages with the header of one format                                    *)
Formatted(f) ==
    [type : {"tile"}, fmt : {f}, compress : Kinds, px : SUBSET Int,
     stereo : BOOLEAN, l : Images, r : RightImages \cup {None}]
    \cup [type : {"eof"}, n : Nat, fmt : {f}, compress : Kinds]

(* The types of the variables; the types of the connection and of the        *)
(* client are parts of ProtocolInv.                                          *)
ConfigType ==
    /\ config \in [compress : Kinds, interframe : BOOLEAN, tilesize : Nat,
                   subsamp : Subsampling]
    /\ setting \subseteq Setters

ServerType ==
    /\ server \in [at : {"idle", "subsamp", "compress", "hello", "eof", "cts",
                         "failed"},
                   rank : 0 .. Nprocs - 1, version : {0, 10, 20, 21}]
    /\ lastf \in Frames \cup {None}
    /\ server.at \notin {"idle", "cts"} => frame \in Frames

PeerType == peer \in [server : {10, 21}, client : {10, 20, 21}]

HistoryType ==
    history \in [mixed : BOOLEAN, torn : BOOLEAN, retiled : BOOLEAN,
                 sampled : BOOLEAN, unsettled : BOOLEAN]

TypeInv == ConfigType /\ ServerType /\ PeerType /\ HistoryType

(* The phases of the negotiation: nothing has been said ...                  *)
Untouched ==
    /\ peer.server = 21 /\ server.version = 0
    /\ server.at \in {"idle", "subsamp", "compress"}
    /\ toClient = <<>> /\ toServer = <<>> /\ client = [at |-> "hello", v |-> 0]

(* ... the sender waits for the answer to its v1.0 end of frame, which is    *)
(* on its way, or for a v1.0 client to begin ...                             *)
Asking ==
    /\ peer.server = 21 /\ server.version = 0 /\ server.at = "hello"
    /\ \/ /\ toClient = <<[type |-> "fake", fmt |-> 1]>> /\ toServer = <<>>
          /\ client = [at |-> "hello", v |-> 0]
       \/ /\ toClient = <<>> /\ toServer = <<CTS>>
          /\ client = [at |-> "run", v |-> 10] /\ peer.client = 10
       \/ /\ toClient = <<>> /\ toServer = <<peer.client>>
          /\ client = [at |-> "version", v |-> 0] /\ peer.client # 10

(* ... both ends speak version 1.0 and the client owes a CTS for each        *)
(* frame ...                                                                 *)
TalkOld ==
    /\ server.version = 10 /\ server.at # "hello"
    /\ toClient \in Seq(Formatted(1)) /\ toServer \in Seq({CTS})
    /\ \/ client = [at |-> "run", v |-> 10]
       \/ client = [at |-> "hello", v |-> 0] /\ peer.server = 10

(* ... or the sender has answered with its own version, which the client     *)
(* reads before anything that follows it.                                    *)
VersionMessage == [type |-> "version", fmt |-> 2, v |-> 21]

Announced ==
    /\ client = [at |-> "version", v |-> 0]
    /\ toClient \in Seq({VersionMessage} \cup Formatted(2)) /\ toClient # <<>>
    /\ Head(toClient) = VersionMessage
    /\ Tail(toClient) \in Seq(Formatted(2))

Agreed ==
    client = [at |-> "run", v |-> 21] /\ toClient \in Seq(Formatted(2))

TalkNew ==
    /\ peer.server = 21 /\ server.version \in {20, 21} /\ server.at # "hello"
    /\ toServer = <<>>
    /\ Announced \/ Agreed

(* Both ends are always in the same phase.                                   *)
ProtocolInv == Untouched \/ Asking \/ TalkOld \/ TalkNew

(* A subsampling that no compression but RGB leaves alone                    *)
Suits(compress, subsamp) ==
    subsamp \in {0, 1, 2, 4} /\ (compress = "YUV" => subsamp = 4)

(* What ThrowsOnlyWhen needs: outside fconfig_setcompress() the subsampling  *)
(* fits the compression unless it was written directly, and so does that of  *)
(* the frame, or the one which it is going to have, if it did when           *)
(* readback() began.                                                         *)
ThrowInv ==
    /\ setting = {} /\ ~history.sampled => Suits(config.compress, config.subsamp)
    /\ ~history.sampled => config.subsamp \in {0, 1, 2, 4}
    /\ server.at = "subsamp" /\ ~history.unsettled =>
          Suits(frame.compress, config.subsamp)
    /\ server.at \in {"compress", "hello"} /\ ~history.unsettled =>
          Suits(frame.compress, frame.subsamp)
    /\ ThrowsOnlyWhen

(* The steps of the dialog, and of the environment but for the tile size     *)
Configures == \/ \E s \in Setters : SetCompress(s) \/ SetSubsamp(s)
              \/ SampCB \/ ReloadSubsamp

(* What the loop of compressSend() appends in its rounds, before any of them. *)
ImageOf(f, fmt, px) ==
    [type |-> "tile", fmt |-> fmt, compress |-> f.compress, px |-> px,
     stereo |-> f.r # None, l |-> f.l, r |-> f.r]

AreaOf(t) == t.x .. t.x + t.w - 1

(* The messages s are those of the tiles up to k that differ.                *)
Made(s, tiles, k, f, last) ==
    /\ s \in Seq(Formatted(HeaderFormat(server.version)))
    /\ \A j \in 1 .. Len(s) : \E i \in 1 .. k :
          /\ ~(config.interframe /\ tileEquals(f, last, AreaOf(tiles[i])))
          /\ s[j] = ImageOf(f, HeaderFormat(server.version), AreaOf(tiles[i]))
    /\ \A i \in 1 .. k :
          ~(config.interframe /\ tileEquals(f, last, AreaOf(tiles[i]))) =>
          \E j \in 1 .. Len(s) :
             s[j] = ImageOf(f, HeaderFormat(server.version), AreaOf(tiles[i]))
    /\ ~config.interframe => Len(s) = k

(* It is a message with the header asked for.                                *)
LEMMA ImageIsFormatted ==
    ASSUME NEW f \in Frames, NEW fmt, NEW px \in SUBSET Int
    PROVE  ImageOf(f, fmt, px) \in Formatted(fmt)
  BY DEF ImageOf, Formatted, Frames

(* compressSend() of one rank: the image of a YUV frame, or one message      *)
(* for each of its tiles that differs, and no other.                         *)
LEMMA MessagesMade ==
    ASSUME NEW f \in Frames, NEW last, NEW rank,
           Len(TilesOfRank(Width, 1, config.tilesize, rank, Nprocs)) \in Nat
    PROVE  IF f.compress = "YUV"
           THEN Messages(f, last, rank)
                = <<ImageOf(f, HeaderFormat(server.version), Pixels)>>
           ELSE Made(Messages(f, last, rank),
                     TilesOfRank(Width, 1, config.tilesize, rank, Nprocs),
                     Len(TilesOfRank(Width, 1, config.tilesize, rank, Nprocs)),
                     f, last)
<1> DEFINE
        fmt == HeaderFormat(server.version)
        Image(px) == [type |-> "tile", fmt |-> HeaderFormat(server.version),
                      compress |-> f.compress, px |-> px, stereo |-> f.r # None,
                      l |-> f.l, r |-> f.r]
        Area(t) == t.x .. t.x + t.w - 1
        Differs(t) == ~(config.interframe /\ tileEquals(f, last, Area(t)))
        tiles == TilesOfRank(Width, 1, config.tilesize, rank, Nprocs)
        Body(g, k) == IF k = 0 THEN <<>>
                      ELSE IF Differs(tiles[k])
                      THEN Append(g[k - 1], Image(Area(tiles[k])))
                      ELSE g[k - 1]
        changed == CHOOSE g : g = [k \in 0 .. Len(tiles) |-> Body(g, k)]
        N == Len(tiles)
<1>1. Messages(f, last, rank) =
      IF f.compress = "YUV" THEN <<Image(Pixels)>> ELSE changed[Len(tiles)]
  BY DEF Messages
<1>2. \E g : g = [k \in 0 .. N |-> Body(g, k)]
  <2> DEFINE A == {m \in Nat : \E g : g = [k \in 0 .. m |-> Body(g, k)]}
  <2> HIDE DEF Differs, tiles, Image, Area
  <2>1. 0 \in A
    <3> DEFINE g == [k \in 0 .. 0 |-> <<>>]
    <3>1. g = [k \in 0 .. 0 |-> Body(g, k)]
      OBVIOUS
    <3> QED
      BY <3>1
  <2>2. ASSUME NEW m \in Nat, m \in A PROVE m + 1 \in A
    <3>1. PICK g : g = [k \in 0 .. m |-> Body(g, k)]
      BY <2>2
    <3> DEFINE h == [k \in 0 .. m + 1 |-> Body(g, k)]
    <3> HIDE DEF h
    <3>2. \A k \in 0 .. m : h[k] = g[k]
      <4>1. \A k \in 0 .. m : h[k] = Body(g, k)
        BY DEF h
      <4>2. \A k \in 0 .. m : [i \in 0 .. m |-> Body(g, i)][k] = Body(g, k)
        OBVIOUS
      <4> HIDE DEF Body
      <4> QED
        BY <3>1, <4>1, <4>2
    <3>3. \A k \in 0 .. m + 1 : Body(g, k) = Body(h, k)
      BY <3>2
    <3>4. h = [k \in 0 .. m + 1 |-> Body(h, k)]
      BY <3>3 DEF h
    <3> QED
      BY <3>4
  <2>3. Nat \subseteq A
    <3> HIDE DEF A
    <3> QED
      BY <2>1, <2>2, SetInduction
  <2>4. N \in Nat
    BY DEF tiles
  <2> QED
    BY <2>3, <2>4
<1>3. changed = [k \in 0 .. N |-> Body(changed, k)]
  BY <1>2
<1>4. \A k \in 0 .. N : changed[k] = Body(changed, k)
  <2> DEFINE b(k) == Body(changed, k)
  <2>1. changed = [k \in 0 .. N |-> b(k)]
    BY <1>3
  <2> HIDE DEF b, changed
  <2>2. \A k \in 0 .. N : changed[k] = b(k)
    BY <2>1
  <2> QED
    BY <2>2 DEF b
<1>5. \A px : Image(px) = ImageOf(f, fmt, px)
  BY DEF ImageOf
<1>6. \A t : Area(t) = AreaOf(t) /\ AreaOf(t) \in SUBSET Int
  BY DEF AreaOf
<1>7. N \in Nat
  OBVIOUS
<1> HIDE DEF changed, tiles, Image, fmt
<1>8. Made(changed[N], tiles, N, f, last)
  <2> DEFINE A == {k \in Nat : k <= N => Made(changed[k], tiles, k, f, last)}
  <2>1. 0 \in A
    <3>1. changed[0] = <<>>
      BY <1>4, <1>7
    <3>2. /\ <<>> \in Seq(Formatted(HeaderFormat(server.version)))
          /\ 1 .. 0 = {} /\ 1 .. Len(<<>>) = {} /\ Len(<<>>) = 0
      OBVIOUS
    <3> QED
      BY <3>1, <3>2, Zenon DEF Made
  <2>2. ASSUME NEW k \in Nat, k \in A PROVE k + 1 \in A
    <3> SUFFICES ASSUME k + 1 <= N
                 PROVE  Made(changed[k + 1], tiles, k + 1, f, last)
      OBVIOUS
    <3> DEFINE s == changed[k]
               i == k + 1
               e == ImageOf(f, fmt, AreaOf(tiles[i]))
    <3>1. Made(s, tiles, k, f, last)
      BY <2>2, <1>7
    <3>2. CASE ~Differs(tiles[i])
      <4>1. changed[i] = s
        BY <1>4, <1>7, <3>2
      <4>2. config.interframe /\ tileEquals(f, last, AreaOf(tiles[i]))
        BY <3>2, <1>6
      <4> QED
        BY <3>1, <4>1, <4>2 DEF Made
    <3>3. CASE Differs(tiles[i])
      <4>1. changed[i] = Append(s, e)
        <5>1. changed[i] = Body(changed, i) /\ i # 0 /\ i - 1 = k
          BY <1>4, <1>7
        <5>2. changed[i] = Append(changed[i - 1], Image(Area(tiles[i])))
          BY <5>1, <3>3
        <5>3. Image(Area(tiles[i])) = e
          BY <1>5, <1>6
        <5> QED
          BY <5>1, <5>2, <5>3
      <4>2. ~(config.interframe /\ tileEquals(f, last, AreaOf(tiles[i])))
        BY <3>3, <1>6
      <4>3. e \in Formatted(fmt) /\ s \in Seq(Formatted(fmt))
        BY <3>1, <1>6, ImageIsFormatted DEF Made, fmt
      <4> DEFINE t == Append(s, e)
      <4>4. /\ t \in Seq(Formatted(fmt)) /\ Len(s) \in Nat /\ Len(t) = Len(s) + 1
            /\ \A j \in 1 .. Len(s) : t[j] = s[j]
            /\ t[Len(s) + 1] = e
        BY <4>3, AppendFacts
      <4> HIDE DEF t, s, e
      <4>5. ASSUME NEW j \in 1 .. Len(t)
            PROVE  \E m \in 1 .. i :
               /\ ~(config.interframe /\ tileEquals(f, last, AreaOf(tiles[m])))
               /\ t[j] = ImageOf(f, HeaderFormat(server.version), AreaOf(tiles[m]))
        <5>1. CASE j \in 1 .. Len(s)
          BY <3>1, <4>4, <5>1 DEF Made
        <5>2. CASE j = Len(s) + 1
          BY <4>2, <4>4, <5>2 DEF e, fmt
        <5> QED
          BY <4>4, <5>1, <5>2
      <4>6. ASSUME NEW m \in 1 .. i,
                   ~(config.interframe /\ tileEquals(f, last, AreaOf(tiles[m])))
            PROVE  \E j \in 1 .. Len(t) :
               t[j] = ImageOf(f, HeaderFormat(server.version), AreaOf(tiles[m]))
        <5>1. CASE m \in 1 .. k
          <6>1. PICK j \in 1 .. Len(s) :
                s[j] = ImageOf(f, HeaderFormat(server.version), AreaOf(tiles[m]))
            BY <3>1, <4>6, <5>1 DEF Made
          <6>2. j \in 1 .. Len(t) /\ t[j] = s[j]
            BY <4>4
          <6> QED
            BY <6>1, <6>2
        <5>2. CASE m = i
          <6>1. Len(s) + 1 \in 1 .. Len(t)
            BY <4>4
          <6> QED
            BY <4>4, <5>2, <6>1 DEF e, fmt
        <5> QED
          BY <5>1, <5>2
      <4>c. ~config.interframe => Len(t) = i
        BY <3>1, <4>4 DEF Made
      <4>7. Made(t, tiles, i, f, last)
        BY <4>4, <4>5, <4>6, <4>c, Zenon DEF Made, fmt
      <4> QED
        BY <4>1, <4>7 DEF t
    <3> QED
      BY <3>2, <3>3
  <2>3. N \in A
    <3> HIDE DEF A
    <3> QED
      BY <1>7, <2>1, <2>2, SetInduction
  <2> QED
    BY <2>3
<1> QED
  BY <1>1, <1>5, <1>8 DEF tiles, fmt

(* What a rank takes is a list.                                              *)
LEMMA RanksTilesAreListed ==
    ASSUME NEW w \in Nat \ {0}, NEW h \in Nat \ {0}, NEW ts \in Nat,
           NEW nprocs \in Nat \ {0}, NEW rank \in 0 .. nprocs - 1
    PROVE  /\ Len(TilesOfRank(w, h, ts, rank, nprocs)) \in Nat
           /\ DOMAIN TilesOfRank(w, h, ts, rank, nprocs)
              = 1 .. Len(TilesOfRank(w, h, ts, rank, nprocs))
<1>1. PICK total \in Nat \ {0} : TilesCutUp(Tiles(w, h, ts), w, h, total)
  BY TilesAreCut
<1> DEFINE q == (total - rank + nprocs - 1) \div nprocs
<1>2. q \in Nat
  <2>1. total - rank + nprocs - 1 \in Nat
    OBVIOUS
  <2> QED
    BY <2>1, DivMod
<1>3. Len(Tiles(w, h, ts)) = total
  BY <1>1 DEF TilesCutUp
<1> DEFINE t(k) == Tiles(w, h, ts)[(k - 1) * nprocs + rank + 1]
<1>4. TilesOfRank(w, h, ts, rank, nprocs) = [k \in 1 .. q |-> t(k)]
  BY <1>3 DEF TilesOfRank
<1> HIDE DEF q, t
<1> QED
  BY <1>2, <1>4

(* The messages that a rank sends have the header's format.                  *)
LEMMA MessagesFormatted ==
    ASSUME TypeInv, frame \in Frames
    PROVE  Messages(frame, lastf, server.rank)
           \in Seq(Formatted(HeaderFormat(server.version)))
<1>1. /\ Width \in Nat \ {0} /\ 1 \in Nat \ {0} /\ config.tilesize \in Nat
      /\ Nprocs \in Nat \ {0} /\ server.rank \in 0 .. Nprocs - 1
  BY SessionAssumption, TilingAssumption
     DEF TypeInv, ConfigType, ServerType, Nprocs
<1>2. Len(TilesOfRank(Width, 1, config.tilesize, server.rank, Nprocs)) \in Nat
  BY <1>1, RanksTilesAreListed
<1> DEFINE fmt == HeaderFormat(server.version)
           image == ImageOf(frame, fmt, Pixels)
           tiles == TilesOfRank(Width, 1, config.tilesize, server.rank, Nprocs)
<1>3. CASE frame.compress = "YUV"
  <2>1. Messages(frame, lastf, server.rank) = <<image>>
    BY <1>2, <1>3, MessagesMade
  <2>2. Pixels \in SUBSET Int
    BY DEF Pixels
  <2>3. image \in Formatted(fmt)
    BY <2>2, ImageIsFormatted
  <2> QED
    BY <2>1, <2>3
<1>4. CASE frame.compress # "YUV"
  <2>1. Made(Messages(frame, lastf, server.rank), tiles, Len(tiles), frame, lastf)
    BY <1>2, <1>4, MessagesMade
  <2> QED
    BY <2>1 DEF Made
<1> QED
  BY <1>3, <1>4

(* The inductive invariant                                                   *)
SessionInv == TypeInv /\ ProtocolInv /\ ThrowInv

(* It holds before the first frame.                                          *)
LEMMA SessionInitHolds == SessionInit => SessionInv
<1> SUFFICES ASSUME SessionInit PROVE SessionInv
  OBVIOUS
<1>0. PICK c \in Compressions, i \in BOOLEAN, ts \in TileSizes :
         \E v \in Allowed(c) \cap (Subsamps \cup {Defsubsamp(c)}) :
            /\ config = [compress |-> c, interframe |-> i, tilesize |-> ts,
                         subsamp |-> v]
            /\ history = [mixed |-> FALSE, torn |-> FALSE, retiled |-> FALSE,
                          sampled |-> v # Defsubsamp(c), unsettled |-> FALSE]
  BY Zenon DEF SessionInit
<1>a. PICK v \in Subsamps \cup {Defsubsamp(c)} :
         /\ config = [compress |-> c, interframe |-> i, tilesize |-> ts,
                      subsamp |-> v]
         /\ history = [mixed |-> FALSE, torn |-> FALSE, retiled |-> FALSE,
                       sampled |-> v # Defsubsamp(c), unsettled |-> FALSE]
  BY <1>0
<1> USE SessionAssumption DEF SessionInit
<1>1. TypeInv
  <2>1. ConfigType
    <3>1. setting = {}
      OBVIOUS
    <3>2. Subsamps \cup {Defsubsamp(c)} \subseteq Subsampling
      BY DEF Defsubsamp, Subsampling
    <3> QED
      BY <1>a, <3>1, <3>2 DEF ConfigType, Kinds
  <2>2. ServerType
    <3>1. server \in [at : {"idle"}, rank : {0}, version : {0, 10}]
      OBVIOUS
    <3> QED
      BY <3>1 DEF ServerType, Nprocs
  <2>3. PeerType
    <3>1. \/ peer \in [server : {21}, client : Versions]
          \/ peer = [server |-> 10, client |-> 21]
      OBVIOUS
    <3>2. Versions \subseteq {10, 20, 21}
      OBVIOUS
    <3>3. [server : {21}, client : Versions]
          \subseteq [server : {10, 21}, client : {10, 20, 21}]
      BY <3>2, Zenon
    <3>4. [server |-> 10, client |-> 21]
          \in [server : {10, 21}, client : {10, 20, 21}]
      OBVIOUS
    <3> QED
      BY ONLY <3>1, <3>3, <3>4, Zenon DEF PeerType
  <2>4. HistoryType
    BY DEF HistoryType
  <2> QED
    BY <2>1, <2>2, <2>3, <2>4 DEF TypeInv
<1>2. ProtocolInv
  <2>1. CASE peer.server = 21
    BY <2>1 DEF ProtocolInv, Untouched
  <2>2. CASE peer.server # 21
    BY <2>2 DEF ProtocolInv, TalkOld
  <2> QED
    BY <2>1, <2>2
<1>3. ThrowInv
  <2>1. /\ config.compress = c /\ config.subsamp = v
        /\ history.sampled = (v # Defsubsamp(c)) /\ ~history.unsettled
    BY <1>a
  <2>2. ~history.sampled => Suits(config.compress, config.subsamp)
    BY <2>1 DEF Suits, Defsubsamp
  <2> QED
    BY <2>2 DEF ThrowInv, ThrowsOnlyWhen, Suits
<1> QED
  BY <1>1, <1>2, <1>3 DEF SessionInv

(* The first byte that waits for the sender is a CTS or the client's version. *)
LEMMA NextByte ==
    ASSUME SessionInv, toServer # <<>>
    PROVE  /\ Head(toServer) \in {CTS, 10, 20, 21}
           /\ server.at # "hello" => Head(toServer) = CTS
<1>1. CASE Asking
  <2>1. Head(toServer) \in {CTS, peer.client}
    BY <1>1 DEF Asking
  <2>2. peer.client \in {10, 20, 21} /\ server.at = "hello"
    BY <1>1 DEF Asking, SessionInv, TypeInv, PeerType
  <2> QED
    BY <2>1, <2>2
<1>2. CASE TalkOld
  BY <1>2 DEF TalkOld
<1>3. CASE Untouched \/ TalkNew
  BY <1>3 DEF Untouched, TalkNew
<1> QED
  BY <1>1, <1>2, <1>3 DEF SessionInv, ProtocolInv

(* Every step keeps the types.                                               *)
LEMMA TypeStep ==
    ASSUME SessionInv, [SessionNext]_sessionVars
    PROVE  TypeInv'
<1>0. ConfigType /\ ServerType /\ PeerType /\ HistoryType
  BY DEF SessionInv, TypeInv
<1>a. UNCHANGED <<config, setting>> => ConfigType'
  BY <1>0 DEF ConfigType
<1>b. UNCHANGED <<server, frame, lastf>> => ServerType'
  BY <1>0 DEF ServerType
<1>c. UNCHANGED peer => PeerType'
  BY <1>0 DEF PeerType
<1>d. UNCHANGED history => HistoryType'
  BY <1>0 DEF HistoryType
<1> USE SessionAssumption DEF senderVars, configVars, clientVars
<1>1. ASSUME NEW s \in Setters, SetCompress(s)
      PROVE  TypeInv'
  <2>1. ConfigType'
    BY <1>0, <1>1 DEF SetCompress, ConfigType, Kinds
  <2> QED
    BY <1>1, <1>b, <1>c, <1>d, <2>1 DEF SetCompress, TypeInv
<1>2. ASSUME NEW s \in Setters, SetSubsamp(s)
      PROVE  TypeInv'
  <2>1. ConfigType'
    BY <1>0, <1>2 DEF SetSubsamp, ConfigType, Defsubsamp, Subsampling
  <2>2. HistoryType'
    BY <1>0, <1>2 DEF SetSubsamp, HistoryType
  <2> QED
    BY <1>2, <1>b, <1>c, <2>1, <2>2 DEF SetSubsamp, TypeInv
<1>13. ASSUME NEW s, NEW values \in SUBSET Subsamps, WriteSubsamp(s, values)
       PROVE  TypeInv'
  <2>1. ConfigType'
    BY <1>0, <1>13 DEF WriteSubsamp, ConfigType
  <2>2. HistoryType'
    BY <1>0, <1>13 DEF WriteSubsamp, HistoryType
  <2> QED
    BY <1>13, <1>b, <1>c, <2>1, <2>2 DEF WriteSubsamp, TypeInv
<1>14. CASE SampCB \/ ReloadSubsamp
  BY <1>13, <1>14 DEF SampCB, ReloadSubsamp
<1>3. CASE SetTilesize
  <2>1. ConfigType'
    BY <1>0, <1>3 DEF SetTilesize, ConfigType
  <2>2. HistoryType'
    BY <1>0, <1>3 DEF SetTilesize, HistoryType
  <2> QED
    BY <1>3, <1>b, <1>c, <2>1, <2>2 DEF SetTilesize, TypeInv
<1>4. CASE Readback
  <2>1. ServerType'
    BY <1>0, <1>4 DEF Readback, ServerType, ConfigType, Frames, Subsampling
  <2>2. HistoryType'
    BY <1>0, <1>4 DEF Readback, HistoryType
  <2> QED
    BY <1>4, <1>a, <1>c, <2>1, <2>2 DEF Readback, TypeInv
<1>5. CASE SendVGL
  <2>1. ServerType'
    <3>1. server' \in [at : {"compress"}, rank : {0}, version : {0, 10, 20, 21}]
      BY <1>0, <1>5 DEF SendVGL, ServerType
    <3>2. frame \in Frames /\ config.subsamp \in Subsampling
      BY <1>0, <1>5 DEF SendVGL, ServerType, ConfigType
    <3>3. frame' \in Frames /\ lastf' = lastf
      BY <1>5, <3>2 DEF SendVGL, Frames
    <3> QED
      BY <1>0, <3>1, <3>3 DEF ServerType, Nprocs
  <2> QED
    BY <1>5, <1>a, <1>c, <1>d, <2>1 DEF SendVGL, TypeInv
<1>6. CASE Hello
  <2>1. ServerType'
    BY <1>0, <1>6 DEF Hello, ServerType
  <2> QED
    BY <1>6, <1>a, <1>c, <1>d, <2>1 DEF Hello, TypeInv
<1>7. CASE Reply
  <2>1. Head(toServer) \in {CTS, 10, 20, 21}
    BY <1>7, NextByte DEF Reply
  <2>a. server \in [at : {"hello"}, rank : 0 .. Nprocs - 1,
                    version : {0, 10, 20, 21}]
        /\ frame \in Frames /\ lastf \in Frames \cup {None}
    BY <1>0, <1>7 DEF Reply, ServerType
  <2>b. PICK v \in {10, 20, 21} :
            server' = [server EXCEPT !.at = "compress", !.version = v]
    <3>1. CASE Head(toServer) = CTS
      BY <1>7, <3>1 DEF Reply
    <3>2. CASE Head(toServer) # CTS
      <4>1. Head(toServer) \in {10, 20, 21}
        BY <2>1, <3>2
      <4> QED
        BY <1>7, <3>2, <4>1 DEF Reply
    <3> QED
      BY <3>1, <3>2
  <2>c. frame' = frame /\ lastf' = lastf
    BY <1>7 DEF Reply
  <2>2. /\ server' \in [at : {"compress"}, rank : 0 .. Nprocs - 1,
                        version : {0, 10, 20, 21}]
        /\ frame' \in Frames /\ lastf' \in Frames \cup {None}
    BY <2>a, <2>b, <2>c
  <2>3. server'.at = "compress"
    BY <2>2
  <2>4. ServerType'
    BY <2>2, <2>3 DEF ServerType
  <2> QED
    BY <1>7, <1>a, <1>c, <1>d, <2>4 DEF Reply, TypeInv
<1>8. CASE CompressSend
  <2>1. ServerType'
    BY <1>0, <1>8 DEF CompressSend, ServerType, Nprocs
  <2> QED
    BY <1>8, <1>a, <1>c, <1>d, <2>1 DEF CompressSend, TypeInv
<1>9. CASE SendEOF
  <2>1. ServerType'
    BY <1>0, <1>9 DEF SendEOF, ServerType
  <2> QED
    BY <1>9, <1>a, <1>c, <1>d, <2>1 DEF SendEOF, TypeInv
<1>10. CASE RecvCTS
  <2>1. Head(toServer) = CTS
    BY <1>10, NextByte DEF RecvCTS
  <2>2. ServerType'
    BY <1>0, <1>10, <2>1 DEF RecvCTS, ServerType
  <2> QED
    BY <1>10, <1>a, <1>c, <1>d, <2>2 DEF RecvCTS, TypeInv
<1>11. CASE ClientHello \/ ClientVersion \/ Receive \/ Draw
  BY <1>11, <1>a, <1>b, <1>c, <1>d
     DEF ClientHello, ClientVersion, Receive, Draw, TypeInv
<1>12. CASE UNCHANGED sessionVars
  BY <1>12, <1>a, <1>b, <1>c, <1>d DEF sessionVars, TypeInv
<1> QED
  BY <1>1, <1>2, <1>3, <1>4, <1>5, <1>6, <1>7, <1>8, <1>9, <1>10, <1>11, <1>12,
     <1>14      DEF SessionNext, Sender, Listener

(* No step gives a frame a subsampling that does not fit, unless readback()  *)
(* began halfway through fconfig_setcompress() or one was written directly.  *)
LEMMA ThrowStep ==
    ASSUME SessionInv, [SessionNext]_sessionVars
    PROVE  ThrowInv'
<1>0. TypeInv /\ ThrowInv
  BY DEF SessionInv
<1>s. server \in [at : {"idle", "subsamp", "compress", "hello", "eof", "cts",
                        "failed"},
                  rank : 0 .. Nprocs - 1, version : {0, 10, 20, 21}]
  BY <1>0 DEF TypeInv, ServerType
<1>t. server.at \notin {"idle", "cts"} => frame \in Frames
  BY <1>0 DEF TypeInv, ServerType
<1>u. /\ config \in [compress : Kinds, interframe : BOOLEAN, tilesize : Nat,
                      subsamp : Subsampling]
      /\ history \in [mixed : BOOLEAN, torn : BOOLEAN, retiled : BOOLEAN,
                       sampled : BOOLEAN, unsettled : BOOLEAN]
  BY <1>0 DEF TypeInv, ConfigType, HistoryType
<1> USE <1>s, <1>t, <1>u, SessionAssumption
    DEF ThrowInv, ThrowsOnlyWhen, Suits, Subsampling, Kinds, senderVars, configVars, clientVars
<1>1. ASSUME NEW s \in Setters, SetCompress(s)
      PROVE  ThrowInv'
  <2>1. setting' # {}
    BY <1>1 DEF SetCompress
  <2> QED
    BY <1>0, <1>1, <2>1 DEF SetCompress
<1>2. ASSUME NEW s \in Setters, SetSubsamp(s)
      PROVE  ThrowInv'
  BY <1>0, <1>2 DEF SetSubsamp, Allowed, Defsubsamp
<1>13. ASSUME NEW s, NEW values, WriteSubsamp(s, values)
       PROVE  ThrowInv'
  BY <1>0, <1>13 DEF WriteSubsamp
<1>14. CASE SampCB \/ ReloadSubsamp
  BY <1>13, <1>14 DEF SampCB, ReloadSubsamp
<1>3. CASE SetTilesize
  BY <1>0, <1>3 DEF SetTilesize
<1>4. CASE Readback
  <2>1. /\ server'.at = "subsamp" /\ UNCHANGED <<config, setting>>
        /\ frame'.compress = config.compress
        /\ history'.sampled = history.sampled
        /\ history'.unsettled = (history.sampled \/ setting # {})
    BY <1>4 DEF Readback
  <2> QED
    BY <1>0, <2>1
<1>5. CASE SendVGL
  BY <1>0, <1>5 DEF SendVGL, Frames
<1>6. CASE Hello
  <2>1. server'.at = "hello" /\ server.at = "compress"
        /\ UNCHANGED <<config, setting, frame, history>>
    BY <1>0, <1>6 DEF Hello
  <2> QED
    BY <1>0, <2>1 DEF ThrowInv, ThrowsOnlyWhen
<1>7. CASE Reply
  <2>1. server'.at = "compress" /\ server.at = "hello"
        /\ UNCHANGED <<config, setting, frame, history>>
    <3>1. \E v \in {10, Head(toServer)} :
             server' = [server EXCEPT !.at = "compress", !.version = v]
      <4>1. CASE Head(toServer) = CTS
        BY <1>7, <4>1 DEF Reply
      <4>2. CASE Head(toServer) # CTS
        BY <1>7, <4>2 DEF Reply
      <4> QED
        BY <4>1, <4>2
    <3>2. server.at = "hello" /\ UNCHANGED <<config, setting, frame, history>>
      BY <1>7 DEF Reply, configVars
    <3> QED
      BY <1>0, <3>1, <3>2
  <2> QED
    <3>1. ~history.unsettled => Suits(frame.compress, frame.subsamp)
      BY <1>0, <2>1 DEF ThrowInv
    <3>2. server'.at \notin {"subsamp", "failed"}
      BY <2>1
    <3> QED
      BY <1>0, <2>1, <3>1, <3>2 DEF ThrowInv, ThrowsOnlyWhen
<1>8. CASE CompressSend
  <2>1. server.at = "compress" /\ UNCHANGED <<config, setting, frame, history>>
    BY <1>0, <1>8 DEF CompressSend
  <2>2. CASE Throws(frame)
    <3>1. server' = [server EXCEPT !.at = "failed"] /\ frame \in Frames
      BY <1>0, <1>8, <2>2 DEF CompressSend
    <3>2. server'.at = "failed" /\ server'.version = server.version
      BY <3>1
    <3>3. ~history.unsettled => Suits(frame.compress, frame.subsamp)
      BY <1>0, <2>1
    <3>4. CASE frame.compress # "JPEG" /\ server.version < 21
      BY <1>0, <2>1, <3>2, <3>4
    <3>5. CASE frame.compress = "YUV" /\ frame.subsamp # 4
      BY <1>0, <2>1, <3>2, <3>3, <3>5
    <3>6. CASE frame.subsamp > 4
      BY <1>0, <2>1, <3>1, <3>2, <3>3, <3>6 DEF Frames
    <3> QED
      BY <2>2, <3>4, <3>5, <3>6 DEF Throws
  <2>3. CASE ~Throws(frame)
    <3>1. \/ server' = [server EXCEPT !.at = "eof"]
          \/ server' = [server EXCEPT !.rank = @ + 1]
      BY <1>0, <1>8, <2>3 DEF CompressSend
    <3>2. server'.at \in {"eof", "compress"}
      BY <2>1, <3>1
    <3> QED
      BY <1>0, <2>1, <3>2
  <2> QED
    BY <2>2, <2>3
<1>9. CASE SendEOF
  BY <1>0, <1>9 DEF SendEOF
<1>10. CASE RecvCTS
  <2>1. Head(toServer) = CTS
    BY <1>10, NextByte DEF RecvCTS
  <2> QED
    BY <1>0, <1>10, <2>1 DEF RecvCTS
<1>11. CASE ClientHello \/ ClientVersion \/ Receive \/ Draw
  BY <1>0, <1>11 DEF ClientHello, ClientVersion, Receive, Draw
<1>12. CASE UNCHANGED sessionVars
  BY <1>0, <1>12 DEF sessionVars
<1> QED
  BY <1>1, <1>2, <1>3, <1>4, <1>5, <1>6, <1>7, <1>8, <1>9, <1>10, <1>11, <1>12,
     <1>14      DEF SessionNext, Sender, Listener

(* What is put behind others leaves the first of them where it is.           *)
LEMMA PrefixKept ==
    ASSUME NEW T, NEW U, NEW s \in Seq(T), s # <<>>, Tail(s) \in Seq(U),
           NEW m \in Seq(T), m \in Seq(U)
    PROVE  /\ s \o m \in Seq(T) /\ s \o m # <<>>
           /\ Head(s \o m) = Head(s) /\ Tail(s \o m) \in Seq(U)
<1>1. /\ s \o m \in Seq(T) /\ Len(s) >= 1 /\ Len(s) \in Nat /\ Len(m) \in Nat
      /\ Len(s \o m) = Len(s) + Len(m) /\ (s \o m)[1] = s[1] /\ Head(s) = s[1]
  BY TailFacts, ConcatProperties, LenProperties
<1>2. s \o m # <<>> /\ Head(s \o m) = s[1]
  BY <1>1, TailFacts
<1>3. Tail(s \o m) = Tail(s) \o m
  OBVIOUS
<1>4. Tail(s) \o m \in Seq(U)
  BY ConcatProperties
<1> QED
  BY <1>1, <1>2, <1>3, <1>4

(* Both ends stay in step: every message is put into, and taken from, the    *)
(* connection in the phase of the negotiation it belongs to.                 *)
LEMMA ProtocolStep ==
    ASSUME SessionInv, [SessionNext]_sessionVars
    PROVE  ProtocolInv'
<1>0. TypeInv /\ ProtocolInv
  BY DEF SessionInv
<1>1. CASE Configures \/ SetTilesize \/ Draw \/ UNCHANGED sessionVars
  BY <1>0, <1>1 DEF Configures, SetCompress, SetSubsamp, SampCB, ReloadSubsamp, WriteSubsamp,
         SetTilesize, Draw, sessionVars,
      ProtocolInv,
     Untouched, Asking, TalkOld, TalkNew, Announced, Agreed, senderVars,
     configVars, clientVars
<1>2. CASE Readback
  BY <1>0, <1>2 DEF Readback, ProtocolInv, TypeInv,
     Untouched, Asking, TalkOld, TalkNew, Announced, Agreed, senderVars,
     configVars, clientVars
<1>3. CASE SendVGL
  BY <1>0, <1>3 DEF SendVGL, ProtocolInv, TypeInv,
     Untouched, Asking, TalkOld, TalkNew, Announced, Agreed, senderVars,
     configVars, clientVars
<1>4. CASE Hello
  <2>1. Untouched
    BY <1>0, <1>4 DEF Hello, ProtocolInv, Untouched, Asking, TalkOld, TalkNew
  <2>2. Asking'
    BY <1>0, <1>4, <2>1 DEF Hello, Untouched, Asking, TypeInv, senderVars,
        configVars, clientVars
  <2> QED
    BY <2>2 DEF ProtocolInv
<1>5. CASE Reply
  <2>1. Asking
    BY <1>0, <1>5 DEF Reply, ProtocolInv, Untouched, Asking, TalkOld, TalkNew
  <2>a. peer.client \in {10, 20, 21} /\ peer.server = 21
    BY <1>0, <2>1 DEF TypeInv, PeerType, Asking
  <2>b. server' = [server EXCEPT !.at = "compress", !.version = server'.version]
        /\ server'.at = "compress"
    BY <1>0, <1>5 DEF Reply, TypeInv, ServerType
  <2>c. toServer # <<>> /\ toServer' = Tail(toServer)
        /\ UNCHANGED <<client, peer>>
    BY <1>5 DEF Reply, clientVars
  <2>2. CASE Head(toServer) = CTS
    <3>1. /\ toClient = <<>> /\ toServer = <<CTS>>
          /\ client = [at |-> "run", v |-> 10]
      BY <2>1, <2>2, <2>a, <2>c DEF Asking, CTS
    <3>2. toClient' = <<>> /\ toServer' = <<>>
      BY <1>5, <2>2, <3>1 DEF Reply
    <3>3. server'.version = 10
      BY <1>0, <1>5, <2>2 DEF Reply, TypeInv, ServerType
    <3>4. TalkOld'
      BY <2>b, <2>c, <3>1, <3>2, <3>3 DEF TalkOld
    <3> QED
      BY <3>4 DEF ProtocolInv
  <2>3. CASE Head(toServer) # CTS
    <3>1. /\ toClient = <<>> /\ toServer = <<peer.client>> /\ peer.client # 10
          /\ client = [at |-> "version", v |-> 0]
      BY <2>1, <2>3, <2>c DEF Asking
    <3>2. Head(toServer) = peer.client /\ Tail(toServer) = <<>>
      BY <3>1
    <3>3. toClient' = <<VersionMessage>>
      <4>1. toClient' = Append(<<>>, VersionMessage)
        BY <1>5, <2>3, <2>a, <3>1 DEF Reply, VersionMessage
      <4> QED
        BY <4>1
    <3>4. server'.version = peer.client
      BY <1>0, <1>5, <2>3, <3>2 DEF Reply, TypeInv, ServerType
    <3>5. /\ toClient' # <<>> /\ Head(toClient') = VersionMessage
          /\ Tail(toClient') = <<>> /\ Tail(toClient') \in Seq(Formatted(2))
          /\ toClient' \in Seq({VersionMessage} \cup Formatted(2))
      BY <3>3
    <3>6. Announced'
      BY <2>c, <3>1, <3>5 DEF Announced
    <3>7. TalkNew'
      BY <2>a, <2>b, <2>c, <3>1, <3>2, <3>4, <3>6 DEF TalkNew
    <3> QED
      BY <3>7 DEF ProtocolInv
  <2> QED
    BY <2>2, <2>3
<1>6. CASE CompressSend
  <2>1. TalkOld \/ TalkNew
    BY <1>0, <1>6 DEF CompressSend, ProtocolInv, Untouched, Asking
  <2>2. /\ frame \in Frames /\ server'.version = server.version
        /\ server'.at # "hello" /\ UNCHANGED <<client, peer, toServer>>
    BY <1>0, <1>6 DEF CompressSend, TypeInv, ServerType, clientVars
  <2> DEFINE m == Messages(frame, lastf, server.rank)
             F == Formatted(HeaderFormat(server.version))
  <2>3. m \in Seq(F)
    BY <1>0, <2>2, MessagesFormatted
  <2>4. toClient' = toClient \/ toClient' = toClient \o m
    BY <1>6 DEF CompressSend
  <2> HIDE DEF m, F
  <2>5. toClient \in Seq(F) => toClient' \in Seq(F)
    BY <2>3, <2>4, ConcatProperties
  <2>6. CASE TalkOld
    <3>1. F = Formatted(1)
      BY <2>6 DEF F, TalkOld, HeaderFormat
    <3>2. TalkOld'
      BY <2>2, <2>5, <2>6, <3>1 DEF TalkOld
    <3> QED
      BY <3>2 DEF ProtocolInv
  <2>7. CASE TalkNew
    <3>1. F = Formatted(2)
      BY <2>7 DEF F, TalkNew, HeaderFormat
    <3>2. ASSUME Agreed PROVE TalkNew'
      <4>1. Agreed'
        BY <2>2, <2>5, <3>1, <3>2 DEF Agreed
      <4> QED
        BY <2>2, <2>7, <4>1 DEF TalkNew
    <3>3. ASSUME Announced PROVE TalkNew'
      <4> DEFINE All == {VersionMessage} \cup F
      <4>1. /\ toClient \in Seq(All) /\ toClient # <<>> /\ m \in Seq(All)
            /\ Head(toClient) = VersionMessage /\ Tail(toClient) \in Seq(F)
        BY <2>3, <3>1, <3>3 DEF Announced
      <4> HIDE DEF All
      <4>2. /\ toClient \o m \in Seq(All) /\ toClient \o m # <<>>
            /\ Head(toClient \o m) = Head(toClient)
            /\ Tail(toClient \o m) \in Seq(F)
        BY <2>3, <4>1, PrefixKept
      <4>3. Announced'
        BY <2>2, <2>4, <3>1, <3>3, <4>1, <4>2 DEF Announced, All
      <4> QED
        BY <2>2, <2>7, <4>3 DEF TalkNew
    <3>4. TalkNew'
      BY <2>7, <3>2, <3>3 DEF TalkNew
    <3> QED
      BY <3>4 DEF ProtocolInv
  <2> QED
    BY <2>1, <2>6, <2>7
<1>7. CASE SendEOF
  <2>1. TalkOld \/ TalkNew
    BY <1>0, <1>7 DEF SendEOF, ProtocolInv, Untouched, Asking
  <2>2. /\ frame \in Frames /\ server'.version = server.version
        /\ server'.at # "hello" /\ UNCHANGED <<client, peer, toServer>>
    BY <1>0, <1>7 DEF SendEOF, TypeInv, ServerType, clientVars
  <2> DEFINE fmt == HeaderFormat(server.version)
             e == [type |-> "eof", n |-> frame.n, fmt |-> fmt,
                   compress |-> frame.compress]
             F == Formatted(fmt)
  <2>3. e \in F
    BY <2>2 DEF Formatted, Frames
  <2>4. toClient' = Append(toClient, e)
    BY <1>7 DEF SendEOF
  <2> HIDE DEF e, F
  <2>5. toClient \in Seq(F) => toClient' \in Seq(F)
    BY <2>3, <2>4, AppendFacts
  <2>6. CASE TalkOld
    <3>1. F = Formatted(1)
      BY <2>6 DEF F, TalkOld, HeaderFormat
    <3>2. TalkOld'
      BY <2>2, <2>5, <2>6, <3>1 DEF TalkOld
    <3> QED
      BY <3>2 DEF ProtocolInv
  <2>7. CASE TalkNew
    <3>1. F = Formatted(2)
      BY <2>7 DEF F, TalkNew, HeaderFormat
    <3>2. ASSUME Agreed PROVE TalkNew'
      <4>1. Agreed'
        BY <2>2, <2>5, <3>1, <3>2 DEF Agreed
      <4> QED
        BY <2>2, <2>7, <4>1 DEF TalkNew
    <3>3. ASSUME Announced PROVE TalkNew'
      <4> DEFINE All == {VersionMessage} \cup F
      <4>1. /\ toClient \in Seq(All) /\ toClient # <<>> /\ e \in All
            /\ Head(toClient) = VersionMessage /\ Tail(toClient) \in Seq(F)
        BY <2>3, <3>1, <3>3 DEF Announced
      <4> HIDE DEF All
      <4>2. toClient' = toClient \o <<e>> /\ <<e>> \in Seq(All) /\ <<e>> \in Seq(F)
        BY <2>3, <2>4, <4>1, AppendIsConcat
      <4>3. /\ toClient \o <<e>> \in Seq(All) /\ toClient \o <<e>> # <<>>
            /\ Head(toClient \o <<e>>) = Head(toClient)
            /\ Tail(toClient \o <<e>>) \in Seq(F)
        BY <4>1, <4>2, PrefixKept
      <4>5. Announced'
        BY <2>2, <3>1, <3>3, <4>1, <4>2, <4>3 DEF Announced, All
      <4> QED
        BY <2>2, <2>7, <4>5 DEF TalkNew
    <3>4. TalkNew'
      BY <2>7, <3>2, <3>3 DEF TalkNew
    <3> QED
      BY <3>4 DEF ProtocolInv
  <2> QED
    BY <2>1, <2>6, <2>7
<1>8. CASE RecvCTS
  <2>1. TalkOld
    BY <1>0, <1>8 DEF RecvCTS, ProtocolInv, Untouched, Asking, TalkNew
  <2>2. server'.version = 10 /\ server'.at # "hello" /\ UNCHANGED <<client,
      toClient, peer>>
    BY <1>0, <1>8, <2>1 DEF RecvCTS, TypeInv, ServerType, TalkOld, clientVars
  <2>3. toServer' \in Seq({CTS})
    BY <1>8, <2>1, TailFacts DEF RecvCTS, TalkOld
  <2>4. TalkOld'
    BY <2>1, <2>2, <2>3 DEF TalkOld
  <2> QED
    BY <2>4 DEF ProtocolInv
<1>9. CASE ClientHello
  <2>1. CASE Asking
    <3>1. /\ toClient = <<[type |-> "fake", fmt |-> 1]>> /\ toServer = <<>>
          /\ client = [at |-> "hello", v |-> 0]
      BY <1>9, <2>1 DEF ClientHello, Asking
    <3>2. UNCHANGED <<server, peer>> /\ peer.client \in {10, 20, 21}
      BY <1>0, <1>9 DEF ClientHello, senderVars, TypeInv, PeerType
    <3>3. /\ Head(toClient).type = "fake" /\ Tail(toClient) = <<>>
          /\ \A b : Append(toServer, b) = <<b>>
      BY <3>1
    <3>4. /\ toClient' = <<>>
          /\ IF peer.client = 10
             THEN toServer' = <<CTS>> /\ client' = [at |-> "run", v |-> 10]
             ELSE toServer' = <<peer.client>>
                  /\ client' = [client EXCEPT !.at = "version"]
      BY <1>9, <3>3 DEF ClientHello
    <3>5. Asking'
      BY <2>1, <3>1, <3>2, <3>4 DEF Asking
    <3> QED
      BY <3>5 DEF ProtocolInv
  <2>2. CASE TalkOld
    <3>1. Head(toClient) \in Formatted(1)
      BY <1>9, <2>2, TailFacts DEF ClientHello, TalkOld
    <3>2. Head(toClient).type # "fake"
      BY <3>1 DEF Formatted
    <3>3. client' = [at |-> "run", v |-> 10]
          /\ UNCHANGED <<toClient, toServer, server, peer>>
      BY <1>9, <3>2 DEF ClientHello, senderVars
    <3>4. TalkOld'
      BY <2>2, <3>3 DEF TalkOld
    <3> QED
      BY <3>4 DEF ProtocolInv
  <2> QED
    BY <1>0, <1>9, <2>1, <2>2 DEF ClientHello, ProtocolInv, Untouched, TalkNew,
       Announced, Agreed
<1>10. CASE ClientVersion
  <2>1. /\ TalkNew /\ client = [at |-> "version", v |-> 0] /\ toClient # <<>>
        /\ Head(toClient) = VersionMessage /\ Tail(toClient) \in Seq(Formatted(2))
    BY <1>0, <1>10 DEF ClientVersion, ProtocolInv, Untouched, Asking, TalkOld,
       TalkNew, Announced, Agreed
  <2>2. /\ client' = [at |-> "run", v |-> 21] /\ toClient' = Tail(toClient)
        /\ UNCHANGED <<toServer, server, peer>>
    BY <1>10, <2>1 DEF ClientVersion, senderVars, VersionMessage
  <2>3. TalkNew'
    BY <2>1, <2>2 DEF TalkNew, Agreed
  <2> QED
    BY <2>3 DEF ProtocolInv
<1>11. CASE Receive
  <2>1. /\ toClient # <<>> /\ client.at = "run" /\ toClient' = Tail(toClient)
        /\ toServer' = Answer(Head(toClient))
        /\ UNCHANGED <<server, peer, client>>
    BY <1>11 DEF Receive, senderVars
  <2>2. CASE TalkOld
    <3>1. toClient' \in Seq(Formatted(1))
      BY <2>1, <2>2, TailFacts DEF TalkOld
    <3>2. toServer' = toServer \/ toServer' = Append(toServer, CTS)
      BY <2>1 DEF Answer
    <3>3. toServer' \in Seq({CTS})
      BY <2>2, <3>2, AppendFacts DEF TalkOld
    <3>4. TalkOld'
      BY <2>1, <2>2, <3>1, <3>3 DEF TalkOld
    <3> QED
      BY <3>4 DEF ProtocolInv
  <2>3. CASE TalkNew
    <3>1. client = [at |-> "run", v |-> 21] /\ toClient \in Seq(Formatted(2))
      BY <2>1, <2>3 DEF TalkNew, Announced, Agreed
    <3>2. toClient' \in Seq(Formatted(2))
      BY <2>1, <3>1, TailFacts
    <3>3. toServer' = toServer
      BY <2>1, <3>1 DEF Answer
    <3>4. TalkNew'
      BY <2>1, <2>3, <3>1, <3>2, <3>3 DEF TalkNew, Agreed
    <3> QED
      BY <3>4 DEF ProtocolInv
  <2> QED
    BY <1>0, <2>1, <2>2, <2>3 DEF ProtocolInv, Untouched, Asking
<1> QED
  BY <1>1, <1>2, <1>3, <1>4, <1>5, <1>6, <1>7, <1>8, <1>9, <1>10, <1>11
     DEF SessionNext, Sender, Listener, Configures

(* Both ends of a connection agree in every reachable state.                 *)
THEOREM SessionInvariant == SessionSpec => []SessionInv
<1>1. SessionInv /\ [SessionNext]_sessionVars => SessionInv'
  BY TypeStep, ThrowStep, ProtocolStep DEF SessionInv
<1> QED
  BY <1>1, SessionInitHolds, PTL DEF SessionSpec

(* The Listener never reads a header in another format than it was sent      *)
(* in, whatever the versions of the two ends.                                *)
THEOREM HeadersUnderstood == SessionSpec => []HeaderUnderstood
<1>1. SessionInv => HeaderUnderstood
  <2> SUFFICES ASSUME SessionInv, client.at = "run", toClient # <<>>
               PROVE  Head(toClient).fmt = HeaderFormat(client.v)
    BY DEF HeaderUnderstood
  <2>1. CASE TalkOld
    <3>1. client.v = 10 /\ Head(toClient) \in Formatted(1)
      BY <2>1, TailFacts DEF TalkOld
    <3> QED
      BY <3>1 DEF Formatted, HeaderFormat
  <2>2. CASE TalkNew
    <3>1. client.v = 21 /\ Head(toClient) \in Formatted(2)
      BY <2>2, TailFacts DEF TalkNew, Announced, Agreed
    <3> QED
      BY <3>1 DEF Formatted, HeaderFormat
  <2> QED
    BY <2>1, <2>2 DEF SessionInv, ProtocolInv, Untouched, Asking
<1> QED
  BY <1>1, SessionInvariant, PTL

(* The sender dies of an exception only for a YUV frame that its client      *)
(* cannot draw, or that was caught between the two assignments.              *)
THEOREM ThrowsExplained == SessionSpec => []ThrowsOnlyWhen
<1>1. SessionInv => ThrowsOnlyWhen
  BY DEF SessionInv, ThrowInv
<1> QED
  BY <1>1, SessionInvariant, PTL

(* Every frame that is compressed is cut exactly.                            *)
THEOREM TilesPartitionFrames == SessionSpec => []TilesPartition
<1>1. TilesPartition
  BY FramesAreCutExactly DEF TilesPartition
<1> QED
  BY <1>1, PTL

(* FrameShown. The messages for the window that the Listener has still to    *)
(* read, ...                                                                 *)
Data == IF toClient # <<>> /\ Head(toClient).type \in {"fake", "version"}
        THEN Tail(toClient) ELSE toClient

(* ... behind those it has queued and the worker has not drawn.              *)
Flight == [i \in 1 .. Len(win.queue) + Len(Data) |->
              IF i <= Len(win.queue) THEN win.queue[i].msg
              ELSE Data[i - Len(win.queue)]]

(* A message for the window: an image, which says whether it has a right     *)
(* eye, or an end of frame; ...                                              *)
Message == {m \in Formatted(1) \cup Formatted(2) :
               m.type = "tile" => (m.stereo <=> m.r # None)}

(* ... an image that goes into the window's buffer, ...                      *)
IsTile(m) == m.type = "tile" /\ m.compress # "YUV"

(* ... an end of frame.                                                      *)
IsEOF(m) == m.type = "eof"

(* The pixels of one eye in a buffer, drawn or not yet, ...                  *)
EyeRow == [Pixels -> Nat \cup {None}]

(* ... a buffer, ...                                                         *)
Buffer == [gl : BOOLEAN, stereo : BOOLEAN, l : EyeRow, r : EyeRow]

(* ... a place in the window's queue.                                        *)
Queued == [slot : BOOLEAN \X {0, 1}, msg : Message]

(* The types of the window, of what it shows and of what is on its way.      *)
WinType ==
    /\ win \in [req : {"X11", "OGL"}, canGL : BOOLEAN, open : BOOLEAN,
                method : {"X11", "OGL"}, stereo : BOOLEAN, fb : Buffer,
                cfindex : {0, 1}, right : [{0, 1} -> BOOLEAN],
                queue : Seq(Queued)]
    /\ drawn \in [n : Nat, l : EyeRow, r : EyeRow \cup {None}]
    /\ Data \in Seq(Message)

(* A step that neither sends, reads nor draws, ...                           *)
Quiet == Data' = Data /\ win' = win /\ drawn' = drawn

(* ... and one that sends the messages s, which come after all that is on    *)
(* its way.                                                                  *)
Added(s) ==
    /\ win' = win /\ drawn' = drawn
    /\ s \in Seq(Message) /\ Data' \in Seq(Message)
    /\ Len(Data') = Len(Data) + Len(s)
    /\ \A k \in 1 .. Len(Data) : Data'[k] = Data[k]
    /\ \A k \in 1 .. Len(s) : Data'[Len(Data) + k] = s[k]
    /\ Len(Flight') = Len(Flight) + Len(s)
    /\ \A i \in 1 .. Len(Flight) : Flight'[i] = Flight[i]
    /\ \A k \in 1 .. Len(s) : Flight'[Len(Flight) + k] = s[k]

(* f is the queue q followed by the messages d.                              *)
FlightIs(q, d, f) ==
    /\ f \in Seq(Message) /\ Len(f) = Len(q) + Len(d)
    /\ \A i \in 1 .. Len(q) : f[i] = q[i].msg
    /\ \A i \in 1 .. Len(d) : f[Len(q) + i] = d[i]

(* What the fields of a message can be.                                      *)
LEMMA MessageFacts ==
    ASSUME NEW m \in Message
    PROVE  /\ m.type \in {"tile", "eof"} /\ m.compress \in Kinds
           /\ m.type = "eof" => m.n \in Nat
           /\ m.type = "tile" =>
                 /\ m.stereo \in BOOLEAN /\ (m.stereo <=> m.r # None)
                 /\ m.l \in Images /\ m.r \in RightImages \cup {None}
  BY DEF Message, Formatted

(* In every phase of the negotiation, what is left for the window is made of *)
(* headers in one of the two formats, and is all of toClient once the        *)
(* Listener runs.                                                            *)
LEMMA DataFacts ==
    ASSUME SessionInv
    PROVE  /\ Untouched \/ Asking => Data = <<>>
           /\ TalkOld \/ Agreed => Data = toClient
           /\ Announced => Data = Tail(toClient)
           /\ client.at = "run" => Data = toClient
           /\ Data \in Seq(Formatted(1) \cup Formatted(2))
<1>1. Untouched \/ Asking => Data = <<>>
  <2>1. CASE Untouched
    BY <2>1 DEF Untouched, Data
  <2>2. CASE Asking
    <3>1. toClient = <<>> \/ toClient = <<[type |-> "fake", fmt |-> 1]>>
      BY <2>2 DEF Asking
    <3>2. toClient = <<>> => Data = <<>>
      BY DEF Data
    <3>3. toClient = <<[type |-> "fake", fmt |-> 1]>> => Data = <<>>
      BY DEF Data
    <3> QED
      BY <3>1, <3>2, <3>3
  <2> QED
    BY <2>1, <2>2
<1>2. TalkOld \/ Agreed => Data = toClient
  <2>1. ASSUME toClient # <<>>, TalkOld \/ Agreed
        PROVE  Head(toClient).type \notin {"fake", "version"}
    <3>1. Head(toClient) \in Formatted(1) \cup Formatted(2)
      BY <2>1, TailFacts DEF TalkOld, Agreed
    <3> QED
      BY <3>1 DEF Formatted
  <2> QED
    BY <2>1 DEF Data
<1>3. Announced => Data = Tail(toClient)
  BY DEF Announced, Data, VersionMessage
<1>4. client.at = "run" => Data = toClient
  <2>1. client.at = "run" /\ Asking => toClient = <<>>
    BY DEF Asking
  <2>2. client.at = "run" => TalkOld \/ Agreed \/ Asking
    BY DEF SessionInv, ProtocolInv, Untouched, Announced, TalkNew
  <2> QED
    BY <1>1, <1>2, <2>1, <2>2
<1>5. Data \in Seq(Formatted(1) \cup Formatted(2))
  <2>1. CASE Untouched \/ Asking
    <3>1. <<>> \in Seq(Formatted(1) \cup Formatted(2))
      OBVIOUS
    <3> QED
      BY <2>1, <1>1, <3>1
  <2>2. CASE TalkOld
    <3>1. toClient \in Seq(Formatted(1))
      BY <2>2 DEF TalkOld
    <3> QED
      BY <3>1, <1>2, <2>2
  <2>3. CASE Announced
    <3>1. Tail(toClient) \in Seq(Formatted(2))
      BY <2>3 DEF Announced
    <3> QED
      BY <3>1, <1>3, <2>3
  <2>4. CASE Agreed
    <3>1. toClient \in Seq(Formatted(2))
      BY <2>4 DEF Agreed
    <3> QED
      BY <3>1, <1>2, <2>4
  <2> QED
    BY <2>1, <2>2, <2>3, <2>4 DEF SessionInv, ProtocolInv, TalkNew
<1> QED
  BY <1>1, <1>2, <1>3, <1>4, <1>5

(* Concatenation, as Flight writes it, for any queue and messages, ...       *)
LEMMA FlightOf ==
    ASSUME NEW q \in Seq(Queued), NEW d \in Seq(Message)
    PROVE  FlightIs(q, d, [i \in 1 .. Len(q) + Len(d) |->
              IF i <= Len(q) THEN q[i].msg ELSE d[i - Len(q)]])
<1> DEFINE val(i) == IF i <= Len(q) THEN q[i].msg ELSE d[i - Len(q)]
           f == [i \in 1 .. Len(q) + Len(d) |-> val(i)]
<1>1. Len(q) \in Nat /\ Len(d) \in Nat
  BY LenProperties
<1>2. \A i \in 1 .. Len(q) : q[i] \in Queued
  BY ElementOfSeq
<1>3. \A i \in 1 .. Len(d) : d[i] \in Message
  BY ElementOfSeq
<1>4. \A i \in 1 .. Len(q) + Len(d) : val(i) \in Message
  <2> TAKE i \in 1 .. Len(q) + Len(d)
  <2>1. CASE i <= Len(q)
    BY <1>1, <1>2, <2>1 DEF Queued
  <2>2. CASE ~(i <= Len(q))
    <3>1. i - Len(q) \in 1 .. Len(d)
      BY <1>1, <2>2
    <3> QED
      BY <1>3, <2>2, <3>1
  <2> QED
    BY <2>1, <2>2
<1>a. \A i \in 1 .. Len(q) : val(i) = q[i].msg
  BY <1>1
<1>b. \A i \in 1 .. Len(d) : val(Len(q) + i) = d[i] /\ Len(q) + i \in 1 .. Len(q) + Len(d)
  <2> TAKE i \in 1 .. Len(d)
  <2>1. /\ ~(Len(q) + i <= Len(q)) /\ (Len(q) + i) - Len(q) = i
        /\ Len(q) + i \in 1 .. Len(q) + Len(d)
    BY <1>1
  <2> QED
    BY <2>1
<1>c. \A i \in 1 .. Len(q) : i \in 1 .. Len(q) + Len(d)
  BY <1>1
<1> HIDE DEF val
<1>5. f \in Seq(Message) /\ Len(f) = Len(q) + Len(d)
  <2>1. Len(q) + Len(d) \in Nat
    BY <1>1
  <2>2. f \in [1 .. Len(q) + Len(d) -> Message]
    BY <1>4
  <2>3. f \in Seq(Message)
    BY <2>1, <2>2, SeqDef
  <2>4. Len(f) = Len(q) + Len(d)
    BY <2>1
  <2> QED
    BY <2>3, <2>4
<1>6. \A i \in 1 .. Len(q) : f[i] = q[i].msg
  BY <1>a, <1>c
<1>7. \A i \in 1 .. Len(d) : f[Len(q) + i] = d[i]
  BY <1>b
<1>8. FlightIs(q, d, f)
  BY <1>5, <1>6, <1>7 DEF FlightIs
<1> QED
  BY <1>8 DEF val

(* ... and for those of the window.                                          *)
LEMMA FlightFacts ==
    ASSUME WinType
    PROVE  FlightIs(win.queue, Data, Flight)
<1>1. win.queue \in Seq(Queued) /\ Data \in Seq(Message)
  BY DEF WinType
<1> QED
  BY <1>1, FlightOf DEF Flight

(* The dialog, readback(), the negotiation and the CTS are nothing the       *)
(* window would notice.                                                      *)
LEMMA QuietSteps ==
    ASSUME SessionInv, WinType,
           \/ Configures \/ SetTilesize \/ Readback \/ SendVGL
           \/ Hello \/ Reply \/ RecvCTS \/ ClientHello \/ ClientVersion
           \/ UNCHANGED sessionVars
    PROVE  Quiet /\ Flight' = Flight /\ WinType'
<1>1. Quiet
  <2>1. CASE \/ Configures \/ SetTilesize \/ Readback \/ SendVGL
             \/ RecvCTS \/ UNCHANGED sessionVars
    <3>1. UNCHANGED <<toClient, win, drawn>>
      BY <2>1 DEF Configures, SetCompress, SetSubsamp, SampCB, ReloadSubsamp, WriteSubsamp,
         SetTilesize, Readback, SendVGL, RecvCTS,
         sessionVars, clientVars
    <3> QED
      BY <3>1 DEF Quiet, Data
  <2>2. CASE Hello
    <3>1. UNCHANGED <<win, drawn>>
      BY <2>2 DEF Hello, clientVars
    <3>2. toClient = <<>>
      BY <2>2 DEF Hello, SessionInv, ProtocolInv, Untouched, Asking, TalkOld, TalkNew
    <3>3. toClient' = <<[type |-> "fake", fmt |-> 1]>>
      BY <2>2, <3>2 DEF Hello
    <3>4. Data = <<>> /\ Data' = <<>>
      BY <3>2, <3>3 DEF Data
    <3> QED
      BY <3>1, <3>4 DEF Quiet
  <2>3. CASE Reply
    <3>1. UNCHANGED <<win, drawn>>
      BY <2>3 DEF Reply, clientVars
    <3>2. toClient = <<>>
      BY <2>3 DEF Reply, SessionInv, ProtocolInv, Untouched, Asking, TalkOld, TalkNew
    <3>3. \/ toClient' = <<>>
          \/ toClient' = <<[type |-> "version", fmt |-> 2, v |-> peer.server]>>
      BY <2>3, <3>2 DEF Reply
    <3>4. Data = <<>>
      BY <3>2 DEF Data
    <3>5. toClient' = <<>> => Data' = <<>>
      BY DEF Data
    <3>6. toClient' = <<[type |-> "version", fmt |-> 2, v |-> peer.server]>>
          => Data' = <<>>
      BY DEF Data
    <3> QED
      BY <3>1, <3>3, <3>4, <3>5, <3>6 DEF Quiet
  <2>4. CASE ClientHello
    <3>1. UNCHANGED <<win, drawn>>
      BY <2>4 DEF ClientHello
    <3>2. CASE Head(toClient).type = "fake"
      <4>1. Asking
        <5>1. CASE TalkOld
          <6>1. Head(toClient) \in Formatted(1)
            BY <2>4, <5>1, TailFacts DEF ClientHello, TalkOld
          <6> QED
            BY <3>2, <6>1 DEF Formatted
        <5> QED
          BY <2>4, <5>1 DEF ClientHello, SessionInv, ProtocolInv, Untouched, TalkNew,
             Announced, Agreed
      <4>2. toClient = <<[type |-> "fake", fmt |-> 1]>> /\ toClient' = Tail(toClient)
        BY <2>4, <3>2, <4>1 DEF ClientHello, Asking
      <4>3. Data = <<>> /\ toClient' = <<>>
        BY <4>2 DEF Data
      <4> QED
        BY <3>1, <4>3 DEF Quiet, Data
    <3>3. CASE Head(toClient).type # "fake"
      BY <2>4, <3>1, <3>3 DEF ClientHello, Quiet, Data
    <3> QED
      BY <3>2, <3>3
  <2>5. CASE ClientVersion
    <3>1. Announced /\ UNCHANGED <<win, drawn>> /\ toClient' = Tail(toClient)
      BY <2>5 DEF ClientVersion, SessionInv, ProtocolInv, Untouched, Asking,
         TalkOld, TalkNew, Agreed
    <3>2. Data = toClient'
      BY <3>1, DataFacts
    <3>3. Agreed'
      <4>1. toClient' \in Seq(Formatted(2))
        BY <3>1 DEF Announced
      <4>2. client' = [at |-> "run", v |-> 21]
        BY <2>5, <3>1 DEF ClientVersion, Announced, VersionMessage
      <4> QED
        BY <4>1, <4>2 DEF Agreed
    <3>4. Data' = toClient'
      <4>1. ASSUME toClient' # <<>>
            PROVE  Head(toClient').type \notin {"fake", "version"}
        <5>1. Head(toClient') \in Formatted(2)
          BY <3>3, <4>1, TailFacts DEF Agreed
        <5> QED
          BY <5>1 DEF Formatted
      <4> QED
        BY <4>1 DEF Data
    <3> QED
      BY <3>1, <3>2, <3>4 DEF Quiet
  <2> QED
    BY <2>1, <2>2, <2>3, <2>4, <2>5
<1>2. Flight' = Flight
  BY <1>1 DEF Quiet, Flight
<1>3. WinType'
  BY <1>1 DEF Quiet, WinType
<1> QED
  BY <1>1, <1>2, <1>3

(* What two sequences one after the other hold.                              *)
LEMMA ConcatFacts ==
    ASSUME NEW T, NEW s \in Seq(T), NEW t \in Seq(T)
    PROVE  /\ s \o t \in Seq(T) /\ Len(s) \in Nat /\ Len(t) \in Nat
           /\ Len(s \o t) = Len(s) + Len(t)
           /\ \A k \in 1 .. Len(s) : (s \o t)[k] = s[k]
           /\ \A k \in 1 .. Len(t) : (s \o t)[Len(s) + k] = t[k]
<1>1. /\ s \o t \in Seq(T) /\ Len(s) \in Nat /\ Len(t) \in Nat
      /\ Len(s \o t) = Len(s) + Len(t)
      /\ \A i \in 1 .. Len(s) + Len(t) :
            (s \o t)[i] = IF i <= Len(s) THEN s[i] ELSE t[i - Len(s)]
  BY ConcatProperties, LenProperties
<1>2. ASSUME NEW k \in 1 .. Len(t) PROVE (s \o t)[Len(s) + k] = t[k]
  <2>1. Len(s) + k \in 1 .. Len(s) + Len(t) /\ ~(Len(s) + k <= Len(s))
        /\ (Len(s) + k) - Len(s) = k
    BY <1>1
  <2> QED
    BY <1>1, <2>1
<1> QED
  BY <1>1, <1>2

(* Messages that are put at the end of toClient end up at the end of Data    *)
(* and Flight.                                                               *)
LEMMA Appended ==
    ASSUME SessionInv, WinType, NEW s \in Seq(Message),
           server.version # 0, server.at # "hello",
           toClient' = toClient \o s, UNCHANGED <<win, drawn>>
    PROVE  Added(s) /\ WinType'
<1>1. TalkOld \/ Agreed \/ Announced
  BY DEF SessionInv, ProtocolInv, Untouched, Asking, TalkNew
<1>2. Data' = Data \o s
  <2>1. CASE TalkOld \/ Agreed
    <3>1. Data = toClient
      BY <2>1, DataFacts
    <3>2. toClient' \in Seq(Message)
      BY <3>1, ConcatFacts DEF WinType
    <3>3. ASSUME toClient' # <<>>
          PROVE  Head(toClient').type \notin {"fake", "version"}
      <4>1. Head(toClient') \in Message
        BY <3>2, <3>3, TailFacts
      <4> QED
        BY <4>1, MessageFacts
    <3>4. Data' = toClient'
      BY <3>3 DEF Data
    <3> QED
      BY <3>1, <3>4
  <2>2. CASE Announced
    <3> DEFINE All == {VersionMessage} \cup Formatted(2) \cup Message
    <3>1. /\ toClient \in Seq(All) /\ toClient # <<>>
          /\ Head(toClient).type = "version"
      BY <2>2 DEF Announced, VersionMessage
    <3>2. s \in Seq(All)
      OBVIOUS
    <3>3. Data = Tail(toClient) /\ Tail(toClient) \in Seq(Message)
      BY <2>2, DataFacts DEF WinType
    <3> HIDE DEF All
    <3>4. /\ toClient \o s # <<>> /\ Head(toClient \o s) = Head(toClient)
      BY <3>1, <3>2, <3>3, PrefixKept
    <3>5. Tail(toClient \o s) = Tail(toClient) \o s
      BY <3>1, <3>2
    <3> QED
      BY <3>1, <3>3, <3>4, <3>5 DEF Data
  <2> QED
    BY <1>1, <2>1, <2>2
<1>3. /\ Data' \in Seq(Message) /\ Len(Data) \in Nat /\ Len(s) \in Nat
      /\ Len(Data') = Len(Data) + Len(s)
      /\ \A k \in 1 .. Len(Data) : Data'[k] = Data[k]
      /\ \A k \in 1 .. Len(s) : Data'[Len(Data) + k] = s[k]
  <2>1. Data \in Seq(Message)
    BY DEF WinType
  <2> HIDE DEF Data
  <2>2. /\ Data \o s \in Seq(Message) /\ Len(Data) \in Nat /\ Len(s) \in Nat
        /\ Len(Data \o s) = Len(Data) + Len(s)
        /\ \A k \in 1 .. Len(Data) : (Data \o s)[k] = Data[k]
        /\ \A k \in 1 .. Len(s) : (Data \o s)[Len(Data) + k] = s[k]
    BY <2>1, ConcatFacts
  <2> QED
    BY <1>2, <2>2
<1>4. WinType'
  BY <1>3 DEF WinType
<1>5. FlightIs(win.queue, Data, Flight) /\ FlightIs(win.queue, Data', Flight')
  <2>1. win'.queue \in Seq(Queued) /\ Data' \in Seq(Message) /\ win' = win
    BY <1>4 DEF WinType
  <2>2. Flight' = [i \in 1 .. Len(win.queue) + Len(Data') |->
                     IF i <= Len(win.queue) THEN win.queue[i].msg
                     ELSE Data'[i - Len(win.queue)]]
    BY <2>1 DEF Flight
  <2>3. FlightIs(win.queue, Data', Flight')
    BY <2>1, <2>2, FlightOf
  <2> QED
    BY <2>3, FlightFacts
<1>6. Len(win.queue) \in Nat
  BY LenProperties DEF WinType
<1>7. /\ Len(Flight) = Len(win.queue) + Len(Data)
      /\ Len(Flight') = Len(win.queue) + Len(Data')
  BY <1>5 DEF FlightIs
<1>8. Len(Flight') = Len(Flight) + Len(s)
  <2>1. /\ Len(Data) \in Nat /\ Len(s) \in Nat /\ Len(win.queue) \in Nat
        /\ Len(Data') = Len(Data) + Len(s)
    BY <1>3, <1>6
  <2>2. \A q, d, n \in Nat : q + (d + n) = (q + d) + n
    OBVIOUS
  <2>3. Len(Flight') = Len(win.queue) + (Len(Data) + Len(s))
    BY <1>7, <2>1
  <2>4. Len(win.queue) + (Len(Data) + Len(s)) = (Len(win.queue) + Len(Data)) + Len(s)
    BY <2>1, <2>2
  <2> QED
    BY <1>7, <2>3, <2>4
<1>9. ASSUME NEW i \in 1 .. Len(Flight) PROVE Flight'[i] = Flight[i]
  <2>1. CASE i \in 1 .. Len(win.queue)
    BY <1>5, <2>1 DEF FlightIs
  <2>2. CASE i \notin 1 .. Len(win.queue)
    <3>1. PICK k \in 1 .. Len(Data) : i = Len(win.queue) + k
      <4>1. i - Len(win.queue) \in 1 .. Len(Data)
            /\ i = Len(win.queue) + (i - Len(win.queue))
        BY <1>3, <1>6, <1>7, <2>2
      <4> QED
        BY <4>1
    <3>2. Flight[i] = Data[k]
      BY <1>5, <3>1 DEF FlightIs
    <3>3. k \in 1 .. Len(Data')
      BY <1>3
    <3>4. Flight'[i] = Data'[k]
      BY <1>5, <3>1, <3>3 DEF FlightIs
    <3> QED
      BY <1>3, <3>2, <3>4
  <2> QED
    BY <2>1, <2>2
<1>10. ASSUME NEW k \in 1 .. Len(s) PROVE Flight'[Len(Flight) + k] = s[k]
  <2>1. Len(Data) + k \in 1 .. Len(Data')
        /\ Len(Flight) + k = Len(win.queue) + (Len(Data) + k)
    <3>1. /\ Len(Data) \in Nat /\ Len(s) \in Nat /\ Len(win.queue) \in Nat
          /\ Len(Data') = Len(Data) + Len(s) /\ k \in 1 .. Len(s)
      BY <1>3, <1>6
    <3>2. \A q, d \in Nat : (q + d) + k = q + (d + k)
      BY <3>1
    <3>3. Len(Data) + k \in 1 .. Len(Data) + Len(s)
      BY <3>1
    <3>4. Len(Flight) + k = (Len(win.queue) + Len(Data)) + k
      BY <1>7
    <3> QED
      BY <3>1, <3>2, <3>3, <3>4
  <2>2. Flight'[Len(win.queue) + (Len(Data) + k)] = Data'[Len(Data) + k]
    BY <1>5, <2>1 DEF FlightIs
  <2> QED
    BY <1>3, <2>1, <2>2
<1> QED
  BY <1>3, <1>4, <1>8, <1>9, <1>10 DEF Added

(* The image of a tile is a message, ...                                     *)
LEMMA ImageIsMessage ==
    ASSUME NEW f \in Frames, NEW v, NEW px \in SUBSET Int
    PROVE  ImageOf(f, HeaderFormat(v), px) \in Message
<1>1. ImageOf(f, HeaderFormat(v), px) \in Formatted(HeaderFormat(v))
  BY ImageIsFormatted
<1>2. HeaderFormat(v) \in {1, 2}
  BY DEF HeaderFormat
<1>3. ImageOf(f, HeaderFormat(v), px) \in Formatted(1) \cup Formatted(2)
  BY <1>1, <1>2
<1>4. /\ ImageOf(f, HeaderFormat(v), px).stereo = (f.r # None)
      /\ ImageOf(f, HeaderFormat(v), px).r = f.r
  BY DEF ImageOf
<1> QED
  BY <1>3, <1>4 DEF Message

(* ... and so is an end of frame.                                            *)
LEMMA EOFIsMessage ==
    ASSUME NEW f \in Frames, NEW v
    PROVE  [type |-> "eof", n |-> f.n, fmt |-> HeaderFormat(v),
            compress |-> f.compress] \in Message
<1>2. HeaderFormat(v) \in {1, 2}
  BY DEF HeaderFormat
<1> QED
  BY <1>2 DEF Message, Formatted, Frames, HeaderFormat

(* SendEOF adds one end of frame and nothing else.                           *)
LEMMA EOFSent ==
    ASSUME SessionInv, WinType, SendEOF
    PROVE  /\ frame \in Frames
           /\ Added(<<[type |-> "eof", n |-> frame.n,
                       fmt |-> HeaderFormat(server.version),
                       compress |-> frame.compress]>>)
           /\ WinType'
<1> DEFINE e == [type |-> "eof", n |-> frame.n, fmt |-> HeaderFormat(server.version),
                 compress |-> frame.compress]
<1>1. frame \in Frames
  BY DEF SendEOF, SessionInv, TypeInv, ServerType
<1>2. e \in Message
  BY <1>1, EOFIsMessage
<1>3. server.version # 0 /\ server.at # "hello" /\ UNCHANGED <<win, drawn>>
  BY DEF SendEOF, SessionInv, ProtocolInv, Untouched, Asking, TalkOld, TalkNew, clientVars
<1>4. toClient' = toClient \o <<e>>
  <2>1. toClient' = Append(toClient, e)
    BY DEF SendEOF
  <2> DEFINE All == {VersionMessage} \cup Message \cup Formatted(1) \cup Formatted(2)
  <2>2. toClient \in Seq(All)
    <3>1. CASE TalkOld
      BY <3>1 DEF TalkOld
    <3>2. CASE TalkNew
      BY <3>2 DEF TalkNew, Announced, Agreed
    <3> QED
      BY <1>3, <3>1, <3>2 DEF SessionInv, ProtocolInv, Untouched, Asking
  <2>3. e \in All
    BY <1>2
  <2> HIDE DEF All, e
  <2> QED
    BY <2>1, <2>2, <2>3, AppendIsConcat
<1>5. <<e>> \in Seq(Message)
  BY <1>2
<1> HIDE DEF e
<1>6. Added(<<e>>) /\ WinType'
  BY <1>3, <1>4, <1>5, Appended
<1> QED
  BY <1>1, <1>6 DEF e

(* A frame of quad-buffered stereo                                           *)
HasRight(f) == f.r # None

(* The pixels of one Compressor's tiles                                      *)
RankArea(rank) ==
    LET tiles == TilesOfRank(Width, 1, config.tilesize, rank, Nprocs)
    IN  UNION {AreaOf(tiles[k]) : k \in 1 .. Len(tiles)}

(* The number of tiles of a frame                                            *)
Count == Len(Tiles(Width, 1, config.tilesize))

(* Interframe comparison may leave this pixel out: it is the last frame's,   *)
(* in both eyes where both frames have two.                                  *)
Unchanged(p) ==
    /\ config.interframe /\ lastf # None /\ frame.l[p] = lastf.l[p]
    /\ HasRight(frame) /\ HasRight(lastf) => frame.r[p] = lastf.r[p]

(* An image of the frame f                                                   *)
OfFrame(m, f) ==
    /\ m.type = "tile" /\ m.compress = f.compress /\ (m.stereo <=> HasRight(f))
    /\ m.l = f.l /\ m.r = f.r

(* What one Compressor sends: a whole YUV image, or images of its own tiles, *)
(* in which every pixel of theirs is found that has changed.                 *)
Sends(s, rank) ==
    /\ s \in Seq(Message)
    /\ \A j \in 1 .. Len(s) : OfFrame(s[j], frame)
    /\ IF frame.compress = "YUV" THEN Len(s) = 1
       ELSE /\ \A j \in 1 .. Len(s) : s[j].px \subseteq RankArea(rank)
            /\ \A p \in RankArea(rank) :
                  Unchanged(p) \/ \E j \in 1 .. Len(s) : p \in s[j].px
            /\ ~config.interframe => Len(s) = IF Count = 1 THEN 1 - rank ELSE Len(s)
            /\ ~config.interframe /\ Count # 1 => Len(s) >= 1
            /\ rank = 0 /\ lastf = None => Len(s) >= 1

(* How many tiles a Compressor has: the one tile of a small frame is the     *)
(* first Compressor's, more than one leave none of the two without.          *)
LEMMA RankLengths ==
    ASSUME TypeInv, NEW rank \in 0 .. Nprocs - 1
    PROVE  LET n == Len(TilesOfRank(Width, 1, config.tilesize, rank, Nprocs))
           IN  /\ n \in Nat /\ Count \in Nat \ {0}
               /\ IF Count = 1 THEN n = 1 - rank ELSE n >= 1
               /\ rank = 0 => n >= 1
<1>1. /\ Width \in Nat \ {0} /\ 1 \in Nat \ {0} /\ config.tilesize \in Nat
      /\ Nprocs = 2
  BY SessionAssumption, TilingAssumption DEF TypeInv, ConfigType, Nprocs
<1>2. PICK total \in Nat \ {0} :
         TilesCutUp(Tiles(Width, 1, config.tilesize), Width, 1, total)
  BY <1>1, TilesAreCut
<1>3. Count = total
  BY <1>2 DEF TilesCutUp, Count
<1> DEFINE all == Tiles(Width, 1, config.tilesize)
           q == (total - rank + 2 - 1) \div 2
           t(k) == all[(k - 1) * 2 + rank + 1]
<1>4. TilesOfRank(Width, 1, config.tilesize, rank, Nprocs) = [k \in 1 .. q |-> t(k)]
  BY <1>1, <1>3 DEF TilesOfRank, Count
<1>5. rank \in {0, 1}
  BY <1>1
<1>6. /\ q \in Nat
      /\ IF total = 1 THEN q = 1 - rank ELSE q >= 1
      /\ rank = 0 => q >= 1
  <2>1. CASE rank = 0
    <3>1. \A n \in Nat \ {0} : (n + 1) \div 2 \in Nat /\ (n + 1) \div 2 >= 1
      OBVIOUS
    <3>2. total - rank + 2 - 1 = total + 1
      BY <2>1
    <3>3. q = (total + 1) \div 2
      BY <3>2
    <3>4. total = 1 => q = 1
      BY <3>3
    <3> QED
      BY <2>1, <3>1, <3>3, <3>4
  <2>2. CASE rank = 1
    <3>1. \A n \in Nat \ {0} : n \div 2 \in Nat /\ (n # 1 => n \div 2 >= 1)
      OBVIOUS
    <3>2. q = total \div 2
      BY <2>2
    <3>3. total = 1 => q = 0
      BY <3>2
    <3> QED
      BY <2>2, <3>1, <3>2, <3>3
  <2> QED
    BY <1>5, <2>1, <2>2
<1>7. Len(TilesOfRank(Width, 1, config.tilesize, rank, Nprocs)) = q
  <2> HIDE DEF q, t
  <2> QED
    BY <1>4, <1>6
<1> HIDE DEF q, t
<1> QED
  BY <1>3, <1>6, <1>7

(* The messages that Messages() makes are what Sends() says.                 *)
LEMMA RankSends ==
    ASSUME SessionInv, frame \in Frames
    PROVE  Sends(Messages(frame, lastf, server.rank), server.rank)
<1> DEFINE rank == server.rank
           s == Messages(frame, lastf, rank)
           tiles == TilesOfRank(Width, 1, config.tilesize, rank, Nprocs)
           n == Len(tiles)
           image(px) == ImageOf(frame, HeaderFormat(server.version), px)
<1>1. TypeInv /\ rank \in 0 .. Nprocs - 1
  BY DEF SessionInv, TypeInv, ServerType
<1>2. /\ n \in Nat /\ IF Count = 1 THEN n = 1 - rank ELSE n >= 1
      /\ rank = 0 => n >= 1
  BY <1>1, RankLengths
<1>3. IF frame.compress = "YUV" THEN s = <<image(Pixels)>>
      ELSE Made(s, tiles, n, frame, lastf)
  BY <1>2, MessagesMade
<1>4. \A px \in SUBSET Int : image(px) \in Message /\ OfFrame(image(px), frame)
  <2> TAKE px \in SUBSET Int
  <2>1. image(px) \in Message
    BY ImageIsMessage
  <2> QED
    BY <2>1 DEF OfFrame, ImageOf, HasRight
<1>5. CASE frame.compress = "YUV"
  <2>1. Pixels \in SUBSET Int
    BY DEF Pixels
  <2>2. s = <<image(Pixels)>>
    BY <1>3, <1>5
  <2>3. image(Pixels) \in Message /\ OfFrame(image(Pixels), frame)
    BY <1>4, <2>1
  <2> HIDE DEF image, s
  <2>4. s \in Seq(Message) /\ Len(s) = 1 /\ s[1] = image(Pixels)
    BY <2>2, <2>3
  <2>5. \A j \in 1 .. Len(s) : OfFrame(s[j], frame)
    BY <2>3, <2>4
  <2>6. Sends(s, server.rank)
    BY <1>5, <2>4, <2>5 DEF Sends
  <2> QED
    BY <2>6 DEF s
<1>6. CASE frame.compress # "YUV"
  <2>1. Made(s, tiles, n, frame, lastf)
    BY <1>3, <1>6
  <2> HIDE DEF s, tiles
  <2>2. Len(s) \in Nat /\ DOMAIN s = 1 .. Len(s)
    BY <2>1, LenProperties DEF Made
  <2>3. ASSUME NEW j \in 1 .. Len(s)
        PROVE  /\ s[j] \in Message /\ OfFrame(s[j], frame)
               /\ s[j].px \subseteq RankArea(rank)
    <3>1. PICK i \in 1 .. n : s[j] = image(AreaOf(tiles[i]))
      BY <2>1 DEF Made
    <3>2. AreaOf(tiles[i]) \in SUBSET Int
      BY DEF AreaOf
    <3>3. s[j].px = AreaOf(tiles[i])
      BY <3>1 DEF ImageOf
    <3>4. AreaOf(tiles[i]) \subseteq RankArea(rank)
      BY DEF RankArea, tiles
    <3> HIDE DEF image
    <3> QED
      BY <1>4, <3>1, <3>2, <3>3, <3>4
  <2>4. s \in Seq(Message)
    <3>1. s \in [1 .. Len(s) -> Message]
      <4>1. s \in [1 .. Len(s) -> Formatted(HeaderFormat(server.version))]
        BY <2>1, LenProperties DEF Made
      <4> QED
        BY <2>3, <4>1
    <3> QED
      BY <2>2, <3>1, SeqDef
  <2>5. ASSUME NEW p \in RankArea(rank), ~Unchanged(p)
        PROVE  \E j \in 1 .. Len(s) : p \in s[j].px
    <3>1. PICK i \in 1 .. n : p \in AreaOf(tiles[i])
      BY DEF RankArea, tiles
    <3>2. ~(config.interframe /\ tileEquals(frame, lastf, AreaOf(tiles[i])))
      BY <2>5, <3>1 DEF tileEquals, Unchanged, HasRight
    <3>3. PICK j \in 1 .. Len(s) : s[j] = image(AreaOf(tiles[i]))
      BY <2>1, <3>2 DEF Made
    <3>4. s[j].px = AreaOf(tiles[i])
      BY <3>3 DEF ImageOf
    <3> QED
      BY <3>1, <3>4
  <2>6. ~config.interframe => Len(s) = n
    BY <2>1 DEF Made
  <2>7. rank = 0 /\ lastf = None => Len(s) >= 1
    <3> SUFFICES ASSUME rank = 0, lastf = None PROVE Len(s) >= 1
      OBVIOUS
    <3>1. 1 \in 1 .. n
      BY <1>2
    <3>2. ~tileEquals(frame, lastf, AreaOf(tiles[1]))
      BY DEF tileEquals
    <3>3. PICK j \in 1 .. Len(s) : TRUE
      BY <2>1, <3>1, <3>2 DEF Made
    <3> QED
      BY <2>2, <3>3
  <2>8. /\ ~config.interframe => Len(s) = IF Count = 1 THEN 1 - rank ELSE Len(s)
        /\ ~config.interframe /\ Count # 1 => Len(s) >= 1
    BY <1>2, <2>6
  <2>9. Sends(s, rank)
    BY <1>6, <2>3, <2>4, <2>5, <2>7, <2>8 DEF Sends
  <2> QED
    BY <2>9 DEF s
<1> QED
  BY <1>5, <1>6

(* A Compressor's tiles are tiles of the frame, with natural sizes.          *)
LEMMA RanksTilesAreTiles ==
    ASSUME NEW w \in Nat \ {0}, NEW h \in Nat \ {0}, NEW ts \in Nat,
           NEW nprocs \in Nat \ {0}, NEW rank \in 0 .. nprocs - 1,
           NEW k \in 1 .. Len(TilesOfRank(w, h, ts, rank, nprocs))
    PROVE  TilesOfRank(w, h, ts, rank, nprocs)[k]
           \in [x : Nat, y : Nat, w : Nat, h : Nat]
<1>1. PICK total \in Nat \ {0} : TilesCutUp(Tiles(w, h, ts), w, h, total)
  BY TilesAreCut
<1> DEFINE q == (total - rank + nprocs - 1) \div nprocs
           i(j) == (j - 1) * nprocs + rank + 1
           t(j) == Tiles(w, h, ts)[i(j)]
<1>2. TilesOfRank(w, h, ts, rank, nprocs) = [j \in 1 .. q |-> t(j)]
  BY <1>1 DEF TilesOfRank, TilesCutUp
<1>3. q \in Nat
  <2>1. total - rank + nprocs - 1 \in Nat
    OBVIOUS
  <2> QED
    BY <2>1, DivMod
<1>4. k \in 1 .. q
  <2> HIDE DEF q, t
  <2> QED
    BY <1>2, <1>3
<1>5. TilesOfRank(w, h, ts, rank, nprocs)[k] = t(k)
  <2> HIDE DEF q, t
  <2> QED
    BY <1>2, <1>4
<1>6. i(k) \in 1 .. total
  <2>1. i(k) <= total
    BY <1>3, <1>4, RankTakes
  <2>2. (k - 1) * nprocs \in Nat
    <3>1. k - 1 \in Nat
      BY <1>3, <1>4
    <3> QED
      BY <3>1, SMT
  <2> QED
    BY <2>1, <2>2
<1> HIDE DEF i
<1> QED
  BY <1>1, <1>5, <1>6 DEF TilesCutUp

(* Every pixel is in some tile of some Compressor (FrameCutExactly), ...     *)
LEMMA RanksCoverFrame ==
    ASSUME NEW ts \in Nat, NEW p \in Pixels
    PROVE  \E rank \in 0 .. Nprocs - 1 :
           \E k \in 1 .. Len(TilesOfRank(Width, 1, ts, rank, Nprocs)) :
              p \in AreaOf(TilesOfRank(Width, 1, ts, rank, Nprocs)[k])
<1> DEFINE tiles == [s \in Sent(Width, 1, ts, Nprocs) |->
                      TilesOfRank(Width, 1, ts, s[1], Nprocs)[s[2]]]
<1>1. Width \in Nat \ {0} /\ Nprocs \in Nat \ {0} /\ p \in 0 .. Width - 1
      /\ 0 \in 0 .. 1 - 1
  BY SessionAssumption, TilingAssumption DEF Nprocs, Pixels
<1>a. tiles = [s \in Sent(Width, 1, ts, Nprocs) |->
                 TilesOfRank(Width, 1, ts, s[1], Nprocs)[s[2]]]
  OBVIOUS
<1>2. CutExactly(tiles, Width, 1)
  <2> HIDE DEF tiles
  <2>1. 1 \in Nat \ {0}
    OBVIOUS
  <2> QED
    BY <1>1, <1>a, <2>1, FrameCutExactly
<1>3. Cardinality({s \in DOMAIN tiles : Covers(tiles[s], p, 0)}) = 1
  <2> HIDE DEF tiles
  <2> QED
    BY <1>1, <1>2 DEF CutExactly
<1>4. PICK s \in DOMAIN tiles : Covers(tiles[s], p, 0)
  <2> HIDE DEF tiles
  <2>1. {s \in DOMAIN tiles : Covers(tiles[s], p, 0)} # {}
    <3>1. Cardinality({}) = 0
      BY FS_EmptySet
    <3> QED
      BY <1>3, <3>1
  <2> QED
    BY <2>1
<1> DEFINE domain(rank) == DOMAIN TilesOfRank(Width, 1, ts, rank, Nprocs)
<1>5. PICK rank \in 0 .. Nprocs - 1 : \E k \in domain(rank) : s = <<rank, k>>
  <2>1. s \in Sent(Width, 1, ts, Nprocs)
    OBVIOUS
  <2>2. PICK rank \in 0 .. Nprocs - 1 : s \in {<<rank, n>> : n \in domain(rank)}
    BY <2>1 DEF Sent
  <2> QED
    BY <2>2
<1>c. PICK k \in domain(rank) : s = <<rank, k>>
  BY <1>5
<1>6. k \in 1 .. Len(TilesOfRank(Width, 1, ts, rank, Nprocs))
  BY <1>1, <1>c, RanksTilesAreListed
<1>7. tiles[s] = TilesOfRank(Width, 1, ts, rank, Nprocs)[k]
  BY <1>c
<1>8. p \in AreaOf(tiles[s])
  <2>1. tiles[s].x <= p /\ p < tiles[s].x + tiles[s].w
    BY <1>4 DEF Covers
  <2>2. tiles[s] \in [x : Nat, y : Nat, w : Nat, h : Nat]
    <3>1. 1 \in Nat \ {0}
      OBVIOUS
    <3>2. TilesOfRank(Width, 1, ts, rank, Nprocs)[k]
          \in [x : Nat, y : Nat, w : Nat, h : Nat]
      BY <1>1, <1>6, <3>1, RanksTilesAreTiles
    <3> QED
      BY <1>7, <3>2
  <2>3. tiles[s].x \in Nat /\ tiles[s].w \in Nat /\ p \in Int
    BY <1>1, <2>2
  <2> QED
    BY <2>1, <2>3 DEF AreaOf
<1> QED
  BY <1>5, <1>6, <1>7, <1>8

(* ... that is, of the first or the second.                                  *)
LEMMA PixelsCovered ==
    ASSUME SessionInv, NEW p \in Pixels
    PROVE  p \in RankArea(0) \/ p \in RankArea(1)
<1>1. config.tilesize \in Nat
  BY DEF SessionInv, TypeInv, ConfigType
<1>2. PICK rank \in 0 .. Nprocs - 1 :
         \E k \in 1 .. Len(TilesOfRank(Width, 1, config.tilesize, rank, Nprocs)) :
              p \in AreaOf(TilesOfRank(Width, 1, config.tilesize, rank, Nprocs)[k])
  BY <1>1, RanksCoverFrame
<1>3. p \in RankArea(rank)
  BY <1>2 DEF RankArea
<1>4. rank = 0 \/ rank = 1
  BY DEF Nprocs
<1> QED
  BY <1>3, <1>4

(* CompressSend throws, and leaves everything else as it is, or adds what    *)
(* Sends() says.                                                             *)
LEMMA CompressSent ==
    ASSUME SessionInv, WinType, CompressSend
    PROVE  /\ frame \in Frames
           /\ \/ /\ Quiet /\ Flight' = Flight /\ WinType'
                 /\ server' = [server EXCEPT !.at = "failed"]
              \/ \E s : /\ Sends(s, server.rank) /\ Added(s) /\ WinType'
                        /\ server' = IF frame.compress = "YUV" \/ server.rank = 1
                                     THEN [server EXCEPT !.at = "eof"]
                                     ELSE [server EXCEPT !.rank = @ + 1]
<1>1. frame \in Frames
  BY DEF CompressSend, SessionInv, TypeInv, ServerType
<1>2. server.version # 0 /\ server.at # "hello" /\ UNCHANGED <<win, drawn>>
  BY DEF CompressSend, clientVars
<1>3. CASE Throws(frame)
  <2>1. server' = [server EXCEPT !.at = "failed"] /\ UNCHANGED toClient
    BY <1>3 DEF CompressSend
  <2>2. Quiet
    BY <1>2, <2>1 DEF Quiet, Data
  <2>3. Flight' = Flight
    BY <2>2 DEF Quiet, Flight
  <2>4. WinType'
    BY <2>2 DEF Quiet, WinType
  <2> QED
    BY <1>1, <2>1, <2>2, <2>3, <2>4
<1>4. CASE ~Throws(frame)
  <2> DEFINE s == Messages(frame, lastf, server.rank)
  <2>1. toClient' = toClient \o s
    BY <1>4 DEF CompressSend
  <2>2. server' = IF frame.compress = "YUV" \/ server.rank = 1
                  THEN [server EXCEPT !.at = "eof"]
                  ELSE [server EXCEPT !.rank = @ + 1]
    BY <1>4 DEF CompressSend, Nprocs
  <2>3. Sends(s, server.rank)
    BY <1>1, RankSends
  <2> HIDE DEF s
  <2>4. s \in Seq(Message)
    BY <2>3 DEF Sends
  <2>5. Added(s) /\ WinType'
    BY <1>2, <2>1, <2>4, Appended
  <2> QED
    BY <1>1, <2>2, <2>3, <2>5
<1> QED
  BY <1>3, <1>4

(* The window as WinType has it                                              *)
WinRec == [req : {"X11", "OGL"}, canGL : BOOLEAN, open : BOOLEAN,
           method : {"X11", "OGL"}, stereo : BOOLEAN, fb : Buffer,
           cfindex : {0, 1}, right : [{0, 1} -> BOOLEAN], queue : Seq(Queued)]

(* An open window that draws with OpenGL has a buffer for it; one that does  *)
(* not has no right eye, and nor has its buffer.                             *)
BufferOK(w) ==
    /\ w.open => \/ w.method = "OGL" /\ w.canGL /\ w.fb.gl
                 \/ w.method = "X11" /\ ~w.fb.gl /\ ~w.stereo
    /\ ~w.fb.gl => ~w.fb.stereo

(* Only how the window draws may differ.                                     *)
SameElse(w, u) ==
    /\ u.req = w.req /\ u.canGL = w.canGL /\ u.cfindex = w.cfindex
    /\ u.right = w.right /\ u.queue = w.queue

(* New buffers are buffers.                                                  *)
LEMMA Buffers ==
    /\ X11Buffer \in Buffer /\ GLBuffer \in Buffer
    /\ ~X11Buffer.gl /\ ~X11Buffer.stereo /\ GLBuffer.gl
<1>1. Blank \in EyeRow
  BY DEF Blank, EyeRow
<1> QED
  BY <1>1 DEF X11Buffer, GLBuffer, Buffer

(* addWindow() makes a window whose buffer fits, with stereo where the image *)
(* has it and OpenGL works, ...                                              *)
LEMMA Opened ==
    ASSUME NEW w \in WinRec, BufferOK(w), NEW b \in BOOLEAN
    PROVE  LET u == addWindow(w, b)
           IN  /\ u \in WinRec /\ BufferOK(u) /\ SameElse(w, u) /\ u.open
               /\ w.open => u = w
               /\ ~w.open => (u.stereo <=> b /\ w.canGL)
<1>1. CASE w.open
  BY <1>1 DEF addWindow, SameElse, WinRec
<1>2. CASE ~w.open
  <2> DEFINE v == [w EXCEPT !.open = TRUE, !.stereo = b,
                            !.method = IF b THEN "OGL" ELSE @]
             x == initGL(v)
             u == initX11(x)
  <2>1. /\ v \in WinRec /\ v.open /\ v.stereo = b /\ SameElse(w, v)
        /\ b => v.method = "OGL"
    BY DEF WinRec, SameElse
  <2> HIDE DEF v
  <2>2. /\ x \in WinRec /\ x.open /\ SameElse(w, x)
        /\ x.stereo <=> b /\ w.canGL
        /\ x.method = "X11" \/ (x.method = "OGL" /\ x.fb.gl /\ w.canGL)
        /\ x.method = "X11" => ~x.stereo
    <3>1. CASE v.method # "OGL"
      BY <2>1, <3>1 DEF initGL, WinRec, SameElse
    <3>2. CASE v.method = "OGL" /\ v.canGL
      <4>1. x = [v EXCEPT !.fb = GLBuffer]
        BY <3>2 DEF initGL
      <4> QED
        BY <2>1, <3>2, <4>1, Buffers DEF WinRec, SameElse
    <3>3. CASE v.method = "OGL" /\ ~v.canGL
      <4>1. x = [v EXCEPT !.method = "X11", !.stereo = FALSE]
        BY <3>3 DEF initGL
      <4> QED
        BY <2>1, <3>3, <4>1 DEF WinRec, SameElse
    <3> QED
      BY <3>1, <3>2, <3>3
  <2> HIDE DEF x
  <2>3. /\ u \in WinRec /\ u.open /\ SameElse(w, u) /\ BufferOK(u)
        /\ u.stereo <=> b /\ w.canGL
    <3>1. CASE x.method = "X11"
      <4>1. u = [x EXCEPT !.fb = X11Buffer]
        BY <3>1 DEF initX11
      <4> QED
        BY <2>2, <3>1, <4>1, Buffers DEF WinRec, SameElse, BufferOK
    <3>2. CASE x.method # "X11"
      <4>1. u = x
        BY <3>2 DEF initX11
      <4> QED
        BY <2>2, <3>2, <4>1 DEF WinRec, SameElse, BufferOK
    <3> QED
      BY <3>1, <3>2
  <2>4. addWindow(w, b) = u
    BY <1>2 DEF addWindow, x, v
  <2> HIDE DEF u
  <2> QED
    BY <1>2, <2>3, <2>4
<1> QED
  BY <1>1, <1>2

(* ... and so does a switch of drawFrame(): a tile sets stereo, an end of    *)
(* frame never takes it away, and the buffer goes only when stereo does.     *)
LEMMA Switched ==
    ASSUME NEW w \in WinRec, BufferOK(w), w.open, NEW m \in Message
    PROVE  LET u == Switch(w, m)
           IN  /\ u \in WinRec /\ BufferOK(u) /\ SameElse(w, u) /\ u.open
               /\ m.type = "tile" => (u.stereo <=> m.stereo /\ w.canGL)
               /\ m.type = "eof" =>
                     (u.stereo <=> w.stereo \/ (w.right[w.cfindex] /\ w.canGL))
               /\ u.stereo = w.stereo => u.fb = w.fb
<1> DEFINE right == IF m.type = "eof" THEN w.right[w.cfindex] ELSE m.stereo
           u == Switch(w, m)
<1>1. /\ m.type \in {"tile", "eof"} /\ right \in BOOLEAN
      /\ m.type = "tile" => m.stereo \in BOOLEAN
  BY MessageFacts DEF WinRec
<1>2. \/ w.method = "OGL" /\ w.canGL /\ w.fb.gl
      \/ w.method = "X11" /\ ~w.fb.gl /\ ~w.stereo
  BY DEF BufferOK
<1>3. CASE right /\ ~w.stereo /\ w.method = "OGL"
  <2>1. u = [w EXCEPT !.stereo = TRUE]
    BY <1>3 DEF Switch
  <2> HIDE DEF u
  <2> QED
    BY <1>1, <1>2, <1>3, <2>1 DEF WinRec, SameElse, BufferOK, u
<1>4. CASE right /\ ~w.stereo /\ w.method # "OGL"
  <2> DEFINE v == [w EXCEPT !.stereo = TRUE, !.method = "OGL"]
  <2>1. u = initGL(v)
    BY <1>4 DEF Switch
  <2>2. /\ v \in WinRec /\ v.method = "OGL" /\ v.open /\ SameElse(w, v)
        /\ v.stereo /\ v.fb = w.fb
    BY DEF WinRec, SameElse
  <2> HIDE DEF v
  <2>3. CASE w.canGL
    <3>1. u = [v EXCEPT !.fb = GLBuffer]
      BY <2>1, <2>2, <2>3 DEF initGL, SameElse
    <3>2. /\ u \in WinRec /\ BufferOK(u) /\ SameElse(w, u) /\ u.open /\ u.stereo
      <4> HIDE DEF u
      <4> QED
        BY <2>2, <2>3, <3>1, Buffers DEF WinRec, SameElse, BufferOK
    <3> QED
      BY <1>1, <1>4, <2>3, <3>2
  <2>4. CASE ~w.canGL
    <3>1. u = [v EXCEPT !.method = "X11", !.stereo = FALSE]
      BY <2>1, <2>2, <2>4 DEF initGL, SameElse
    <3>2. /\ u \in WinRec /\ BufferOK(u) /\ SameElse(w, u) /\ u.open /\ ~u.stereo
          /\ u.fb = w.fb
      <4>1. ~w.fb.gl /\ ~w.fb.stereo
        BY <1>2, <2>4 DEF BufferOK
      <4> HIDE DEF u
      <4> QED
        BY <2>2, <3>1, <4>1 DEF WinRec, SameElse, BufferOK
    <3> QED
      BY <1>1, <1>4, <2>4, <3>2
  <2> QED
    BY <2>3, <2>4
<1>5. CASE ~(right /\ ~w.stereo) /\ m.type = "tile" /\ ~m.stereo /\ w.stereo
  <2> DEFINE v == [w EXCEPT !.stereo = FALSE, !.method = w.req]
  <2>1. u = initX11(v)
    BY <1>5 DEF Switch
  <2>2. /\ v \in WinRec /\ v.method = w.req /\ v.open /\ SameElse(w, v)
        /\ ~v.stereo /\ v.fb = w.fb /\ w.fb.gl /\ w.canGL
        /\ v.method \in {"X11", "OGL"}
    BY <1>2, <1>5 DEF WinRec, SameElse
  <2> HIDE DEF v
  <2>3. CASE v.method = "X11"
    <3>1. u = [v EXCEPT !.fb = X11Buffer]
      BY <2>1, <2>3 DEF initX11
    <3>2. u \in WinRec /\ BufferOK(u) /\ SameElse(w, u) /\ u.open /\ ~u.stereo
      <4> HIDE DEF u
      <4> QED
        BY <2>2, <2>3, <3>1, Buffers DEF WinRec, SameElse, BufferOK
    <3> QED
      BY <1>1, <1>5, <3>2
  <2>4. CASE v.method = "OGL"
    <3>1. u = v
      BY <2>1, <2>4 DEF initX11
    <3>2. u \in WinRec /\ BufferOK(u) /\ SameElse(w, u) /\ u.open /\ ~u.stereo
      <4> HIDE DEF u
      <4> QED
        BY <2>2, <2>4, <3>1 DEF WinRec, SameElse, BufferOK
    <3> QED
      BY <1>1, <1>5, <3>2
  <2> QED
    BY <2>2, <2>3, <2>4
<1>6. CASE /\ ~(right /\ ~w.stereo)
           /\ ~(m.type = "tile" /\ ~m.stereo /\ w.stereo)
  <2>1. u = w
    <3>1. u = IF right /\ ~w.stereo
              THEN IF w.method = "OGL" THEN [w EXCEPT !.stereo = TRUE]
                   ELSE initGL([w EXCEPT !.stereo = TRUE, !.method = "OGL"])
              ELSE IF m.type = "tile" /\ ~m.stereo /\ w.stereo
              THEN initX11([w EXCEPT !.stereo = FALSE, !.method = w.req])
              ELSE w
      BY DEF Switch
    <3> HIDE DEF right, u
    <3> QED
      BY <1>6, <3>1
  <2>2. w.stereo => w.canGL
    BY <1>2
  <2>3. SameElse(w, w)
    BY DEF SameElse
  <2> HIDE DEF u
  <2> QED
    BY <1>1, <1>6, <2>1, <2>2, <2>3 DEF u
<1> QED
  BY <1>1, <1>3, <1>4, <1>5, <1>6

(* What reading the image m does to the window: it takes the next turn, its  *)
(* slot remembers its right eye, the window may switch, the buffer stays     *)
(* unless it does.                                                           *)
Received(m) ==
    /\ m = Data[1] /\ m \in Message /\ Len(Data) \in Nat /\ Len(Data) >= 1
    /\ m = Flight[Len(win.queue) + 1] /\ Len(win.queue) + 1 \in 1 .. Len(Flight)
    /\ Len(Data') = Len(Data) - 1
    /\ \A k \in 1 .. Len(Data') : Data'[k] = Data[k + 1]
    /\ Len(win'.queue) = Len(win.queue) + 1 /\ Len(Flight') = Len(Flight)
    /\ \A i \in 1 .. Len(Flight) : Flight'[i] = Flight[i]
    /\ drawn' = drawn /\ win'.open /\ win'.canGL = win.canGL
    /\ win'.cfindex = 1 - win.cfindex
    /\ win'.right = IF IsTile(m) THEN [win.right EXCEPT ![win.cfindex] = m.stereo]
                    ELSE win.right
    /\ IsTile(m) \/ (m.type = "tile" /\ ~win.open) =>
          (win'.stereo <=> m.stereo /\ win.canGL)
    /\ m.compress = "YUV" /\ win.open => win'.stereo = win.stereo
    /\ IsEOF(m) /\ m.compress # "YUV" /\ win.open =>
          (win'.stereo <=> win.stereo \/ (win.right[win.cfindex] /\ win.canGL))
    /\ win.open /\ win'.stereo = win.stereo => win'.fb = win.fb

(* That is what Receive does.                                                *)
LEMMA ReceiveSummary ==
    ASSUME SessionInv, WinType, BufferOK(win), Receive
    PROVE  Received(Head(toClient)) /\ WinType' /\ BufferOK(win')
<1> DEFINE m == Head(toClient)
           w == addWindow(win, m.type = "tile" /\ m.stereo)
           x == IF m.compress = "YUV" THEN w ELSE Switch(w, m)
           s == Slot(w, m)
           right == IF m.type = "tile" /\ m.compress # "YUV"
                    THEN [w.right EXCEPT ![w.cfindex] = m.stereo] ELSE w.right
<1>1. /\ client.at = "run" /\ toClient # <<>> /\ toClient' = Tail(toClient)
      /\ UNCHANGED <<client, drawn>>
  BY DEF Receive
<1>2. Data = toClient /\ toClient \in Seq(Message)
  BY <1>1, DataFacts DEF WinType
<1>3. m = toClient[1] /\ m \in Message /\ Tail(toClient) \in Seq(Message)
      /\ Len(toClient) \in Nat /\ Len(toClient) >= 1
      /\ Len(Tail(toClient)) = Len(toClient) - 1
      /\ \A k \in 1 .. Len(toClient) - 1 : Tail(toClient)[k] = toClient[k + 1]
  BY <1>1, <1>2, TailFacts
<1>4. Data' = Tail(toClient)
  <2>1. ASSUME Tail(toClient) # <<>>
        PROVE  Head(Tail(toClient)).type \notin {"fake", "version"}
    <3>1. Head(Tail(toClient)) \in Message
      BY <1>3, <2>1, TailFacts
    <3> QED
      BY <3>1, MessageFacts
  <2> QED
    BY <1>1, <2>1 DEF Data
<1>5. win \in WinRec
  BY DEF WinType, WinRec
<1>6. /\ m.type \in {"tile", "eof"} /\ m.compress \in Kinds
      /\ m.type = "tile" => m.stereo \in BOOLEAN
      /\ (m.type = "tile" /\ m.stereo) \in BOOLEAN
  BY <1>3, MessageFacts
<1>7. /\ w \in WinRec /\ BufferOK(w) /\ SameElse(win, w) /\ w.open
      /\ win.open => w = win
      /\ ~win.open => (w.stereo <=> m.type = "tile" /\ m.stereo /\ win.canGL)
  <2> DEFINE b == m.type = "tile" /\ m.stereo
  <2>1. b \in BOOLEAN
    BY <1>6
  <2> HIDE DEF b
  <2>2. LET u == addWindow(win, b)
        IN  /\ u \in WinRec /\ BufferOK(u) /\ SameElse(win, u) /\ u.open
            /\ win.open => u = win
            /\ ~win.open => (u.stereo <=> b /\ win.canGL)
    BY <1>5, <2>1, Opened
  <2> QED
    BY <2>2 DEF b
<1> HIDE DEF w
<1>8. /\ x \in WinRec /\ BufferOK(x) /\ SameElse(win, x) /\ x.open
      /\ IsTile(m) => (x.stereo <=> m.stereo /\ win.canGL)
      /\ IsEOF(m) /\ m.compress # "YUV" =>
            (x.stereo <=> w.stereo \/ (win.right[win.cfindex] /\ win.canGL))
      /\ x.stereo = w.stereo => x.fb = w.fb
      /\ m.compress = "YUV" => x = w
  <2>1. CASE m.compress = "YUV"
    BY <1>7, <2>1 DEF IsTile
  <2>2. CASE m.compress # "YUV"
    <3>1. x = Switch(w, m)
      BY <2>2
    <3> HIDE DEF x, m
    <3>2. LET u == Switch(w, m)
          IN  /\ u \in WinRec /\ BufferOK(u) /\ SameElse(w, u) /\ u.open
              /\ m.type = "tile" => (u.stereo <=> m.stereo /\ w.canGL)
              /\ m.type = "eof" =>
                    (u.stereo <=> w.stereo \/ (w.right[w.cfindex] /\ w.canGL))
              /\ u.stereo = w.stereo => u.fb = w.fb
      BY <1>3, <1>7, Switched
    <3> QED
      BY <1>7, <2>2, <3>1, <3>2 DEF SameElse, IsTile, IsEOF
  <2> QED
    BY <2>1, <2>2
<1>9. win' = [x EXCEPT !.cfindex = 1 - @,
                       !.queue = Append(@, [slot |-> s, msg |-> m]),
                       !.right = IF m.type = "tile" /\ m.compress # "YUV"
                                 THEN [@ EXCEPT ![w.cfindex] = m.stereo] ELSE @]
  BY DEF Receive, w
<1> HIDE DEF x, s, m
<1>a. [slot |-> s, msg |-> m] \in Queued
  <2>1. s \in BOOLEAN \X {0, 1}
    BY <1>7 DEF s, Slot, WinRec
  <2> QED
    BY <1>3, <2>1 DEF Queued
<1>b. /\ win'.queue = Append(win.queue, [slot |-> s, msg |-> m])
      /\ win'.cfindex = 1 - win.cfindex
      /\ win'.right = IF IsTile(m) THEN [win.right EXCEPT ![win.cfindex] = m.stereo]
                      ELSE win.right
      /\ win'.open /\ win'.canGL = win.canGL /\ win'.stereo = x.stereo
      /\ win'.fb = x.fb /\ win'.method = x.method /\ win'.req = x.req
  BY <1>7, <1>8, <1>9 DEF WinRec, SameElse, IsTile
<1>c. /\ win'.queue \in Seq(Queued) /\ Len(win.queue) \in Nat
      /\ Len(win'.queue) = Len(win.queue) + 1
      /\ \A i \in 1 .. Len(win.queue) : win'.queue[i] = win.queue[i]
      /\ win'.queue[Len(win.queue) + 1].msg = m
  <2>1. win.queue \in Seq(Queued)
    BY <1>5 DEF WinRec
  <2> DEFINE e == [slot |-> s, msg |-> m]
  <2>2. e \in Queued /\ e.msg = m
    BY <1>a
  <2> HIDE DEF e
  <2>3. /\ Append(win.queue, e) \in Seq(Queued) /\ Len(win.queue) \in Nat
        /\ Len(Append(win.queue, e)) = Len(win.queue) + 1
        /\ \A i \in 1 .. Len(win.queue) : Append(win.queue, e)[i] = win.queue[i]
        /\ Append(win.queue, e)[Len(win.queue) + 1] = e
    BY <2>1, <2>2, AppendFacts
  <2>4. win'.queue = Append(win.queue, e)
    BY <1>b DEF e
  <2> QED
    BY <2>2, <2>3, <2>4
<1>d. win' \in WinRec
  <2>1. /\ win'.right \in [{0, 1} -> BOOLEAN] /\ win'.cfindex \in {0, 1}
    BY <1>5, <1>6, <1>b DEF WinRec, IsTile
  <2>2. win' = [x EXCEPT !.cfindex = win'.cfindex, !.queue = win'.queue,
                         !.right = win'.right]
    BY <1>8, <1>9 DEF WinRec
  <2> QED
    BY <1>8, <1>c, <2>1, <2>2 DEF WinRec
<1>e. WinType'
  BY <1>1, <1>3, <1>4, <1>d DEF WinType, WinRec
<1>f. BufferOK(win')
  BY <1>8, <1>b DEF BufferOK, SameElse
<1>g. FlightIs(win.queue, Data, Flight) /\ FlightIs(win'.queue, Data', Flight')
  <2>1. win'.queue \in Seq(Queued) /\ Data' \in Seq(Message)
    BY <1>e DEF WinType
  <2>2. FlightIs(win'.queue, Data', Flight')
    BY <2>1, FlightOf DEF Flight
  <2> QED
    BY <2>2, FlightFacts
<1> DEFINE q == Len(win.queue)
           d == Len(Data)
<1>h. /\ q \in Nat /\ d \in Nat /\ d >= 1
      /\ Len(win'.queue) = q + 1 /\ Len(Data') = d - 1
      /\ Len(Flight) = q + d /\ Len(Flight') = (q + 1) + (d - 1)
      /\ \A k \in 1 .. d - 1 : Data'[k] = Data[k + 1]
      /\ m = Data[1]
  BY <1>2, <1>3, <1>4, <1>c, <1>g DEF FlightIs
<1>i. /\ Len(Flight') = Len(Flight) /\ 1 \in 1 .. d /\ 1 \in 1 .. Len(Data)
      /\ q + 1 \in 1 .. Len(Flight)
  BY <1>h
<1>j. Flight[q + 1] = m
  BY <1>g, <1>h, <1>i DEF FlightIs
<1>k. ASSUME NEW i \in 1 .. Len(Flight) PROVE Flight'[i] = Flight[i]
  <2>1. CASE i \in 1 .. q
    <3>1. Flight[i] = win.queue[i].msg
      BY <1>g, <2>1 DEF FlightIs
    <3>2. i \in 1 .. Len(win'.queue)
      BY <1>h, <2>1
    <3>3. Flight'[i] = win'.queue[i].msg
      BY <1>g, <3>2 DEF FlightIs
    <3> QED
      BY <1>c, <2>1, <3>1, <3>3
  <2>2. CASE i = q + 1
    <3>1. i \in 1 .. Len(win'.queue)
      BY <1>h, <2>2
    <3>2. Flight'[i] = win'.queue[i].msg
      BY <1>g, <3>1 DEF FlightIs
    <3> QED
      BY <1>c, <1>j, <2>2, <3>2
  <2>3. CASE i > q + 1
    <3> DEFINE k == i - (q + 1)
    <3>0. i \in 1 .. q + d /\ q \in Nat /\ d \in Nat
      BY <1>h
    <3>a. i \in Int /\ i >= q + 2 /\ i <= q + d
      <4> HIDE DEF q, d
      <4> QED
        BY <2>3, <3>0
    <3>b. k \in Int /\ 1 <= k /\ k <= d - 1 /\ i = (q + 1) + k /\ i = q + (k + 1)
      <4> HIDE DEF q, d
      <4> QED
        BY <3>0, <3>a
    <3>1. /\ k \in 1 .. d - 1 /\ k \in 1 .. Len(Data') /\ i = (q + 1) + k
          /\ k + 1 \in 1 .. d /\ i = q + (k + 1)
      <4>1. Len(Data') = d - 1
        BY <1>h
      <4> HIDE DEF k, q, d
      <4>2. k \in 1 .. d - 1 /\ k + 1 \in 1 .. d
        BY <3>0, <3>b
      <4> QED
        BY <3>b, <4>1, <4>2
    <3> HIDE DEF k
    <3>2. Flight'[i] = Data'[k]
      <4>1. Flight'[Len(win'.queue) + k] = Data'[k]
        BY <1>g, <3>1 DEF FlightIs
      <4> QED
        BY <1>h, <3>1, <4>1
    <3>3. Flight[i] = Data[k + 1]
      BY <1>g, <3>1 DEF FlightIs
    <3> QED
      BY <1>h, <3>1, <3>2, <3>3
  <2> QED
    BY <1>h, <2>1, <2>2, <2>3
<1>l. /\ IsTile(m) \/ (m.type = "tile" /\ ~win.open) =>
            (win'.stereo <=> m.stereo /\ win.canGL)
      /\ m.compress = "YUV" /\ win.open => win'.stereo = win.stereo
      /\ IsEOF(m) /\ m.compress # "YUV" /\ win.open =>
            (win'.stereo <=> win.stereo \/ (win.right[win.cfindex] /\ win.canGL))
      /\ win.open /\ win'.stereo = win.stereo => win'.fb = win.fb
  BY <1>6, <1>7, <1>8, <1>b DEF IsTile
<1>m. /\ \A k \in 1 .. Len(Data') : Data'[k] = Data[k + 1]
      /\ Len(Data') = Len(Data) - 1
  BY <1>h
<1>n. Received(m)
  BY <1>1, <1>3, <1>b, <1>h, <1>i, <1>j, <1>k, <1>l, <1>m DEF Received
<1> QED
  BY <1>e, <1>f, <1>n DEF m

(* What drawing the message m does to the window: a tile goes into the       *)
(* buffer, an end of frame shows the buffer, a YUV image is shown as it is.  *)
Drawn(m) ==
    /\ m = Flight[1] /\ m \in Message /\ Len(Flight) \in Nat /\ Len(Flight) >= 1
    /\ Len(win.queue) >= 1 /\ Len(win'.queue) = Len(win.queue) - 1
    /\ Data' = Data /\ Len(Flight') = Len(Flight) - 1
    /\ \A i \in 1 .. Len(Flight') : Flight'[i] = Flight[i + 1]
    /\ win'.open = win.open /\ win'.canGL = win.canGL /\ win'.stereo = win.stereo
    /\ win'.cfindex = win.cfindex /\ win'.right = win.right
    /\ win'.fb.gl = win.fb.gl /\ win'.fb \in Buffer
    /\ m.compress = "YUV" => win'.fb = win.fb
    /\ IsEOF(m) /\ m.compress # "YUV" =>
          /\ win'.fb.l = win.fb.l
          /\ win.fb.gl => win'.fb.stereo = win.stereo
          /\ win.stereo /\ win.fb.stereo /\ win.fb.gl => win'.fb.r = win.fb.r
    /\ IsTile(m) =>
          /\ \A p \in Pixels : win'.fb.l[p] = IF p \in m.px THEN m.l[p]
                                              ELSE win.fb.l[p]
          /\ win.fb.gl /\ m.stereo =>
                /\ win'.fb.stereo
                /\ \A p \in Pixels : p \in m.px => win'.fb.r[p] = m.r[p]
                /\ \A p \in Pixels : p \notin m.px /\ win.fb.stereo =>
                                         win'.fb.r[p] = win.fb.r[p]
    /\ drawn' = IF IsEOF(m)
                THEN IF m.compress = "YUV" THEN [drawn EXCEPT !.n = m.n]
                     ELSE [n |-> m.n, l |-> win'.fb.l,
                           r |-> IF win'.fb.stereo THEN win'.fb.r ELSE None]
                ELSE IF m.compress = "YUV"
                THEN [drawn EXCEPT !.l = m.l, !.r = None] ELSE drawn

(* Frame::init() keeps the left eye, and the right one between two stereo    *)
(* frames.                                                                   *)
LEMMA EyesFacts ==
    ASSUME NEW fb \in Buffer, NEW b \in BOOLEAN
    PROVE  /\ Eyes(fb, b) \in Buffer /\ Eyes(fb, b).gl = fb.gl
           /\ Eyes(fb, b).l = fb.l
           /\ fb.gl => Eyes(fb, b).stereo = b
           /\ ~fb.gl => Eyes(fb, b) = fb
           /\ b /\ fb.stereo => Eyes(fb, b).r = fb.r
<1>1. Blank \in EyeRow
  BY DEF Blank, EyeRow
<1> QED
  BY <1>1 DEF Eyes, Buffer

(* Decompressing a tile sets its pixels, and no others, in the eyes it has.  *)
LEMMA DecompressFacts ==
    ASSUME NEW fb \in Buffer, ~fb.gl => ~fb.stereo, NEW m \in Message, IsTile(m)
    PROVE  LET u == Decompress(fb, m)
           IN  /\ u \in Buffer /\ u.gl = fb.gl /\ (~u.gl => ~u.stereo)
               /\ \A p \in Pixels : u.l[p] = IF p \in m.px THEN m.l[p] ELSE fb.l[p]
               /\ fb.gl /\ m.stereo =>
                     /\ u.stereo
                     /\ \A p \in Pixels : p \in m.px => u.r[p] = m.r[p]
                     /\ \A p \in Pixels : p \notin m.px /\ fb.stereo =>
                                              u.r[p] = fb.r[p]
<1> DEFINE e == Eyes(fb, m.stereo)
           left(p) == IF p \in m.px THEN m.l[p] ELSE e.l[p]
           other(p) == IF e.stereo /\ p \in m.px THEN m.r[p] ELSE e.r[p]
           u == [e EXCEPT !.l = [p \in Pixels |-> left(p)],
                          !.r = [p \in Pixels |-> other(p)]]
<1>1. /\ m.stereo \in BOOLEAN /\ m.l \in [Pixels -> Nat]
      /\ m.stereo => m.r \in [Pixels -> Nat]
  BY MessageFacts, SessionAssumption DEF IsTile
<1>2. /\ e \in Buffer /\ e.gl = fb.gl /\ e.l = fb.l
      /\ fb.gl => e.stereo = m.stereo
      /\ ~fb.gl => e = fb
      /\ m.stereo /\ fb.stereo => e.r = fb.r
  BY <1>1, EyesFacts
<1> HIDE DEF e
<1>3. /\ e.l \in [Pixels -> Nat \cup {None}] /\ e.r \in [Pixels -> Nat \cup {None}]
      /\ e.stereo => m.stereo
  BY <1>2 DEF Buffer, EyeRow
<1>4. \A p \in Pixels : left(p) \in Nat \cup {None} /\ other(p) \in Nat \cup {None}
  BY <1>1, <1>3
<1>5. Decompress(fb, m) = u
  BY DEF Decompress, e
<1> HIDE DEF left, other
<1>6. /\ [p \in Pixels |-> left(p)] \in EyeRow /\ [p \in Pixels |-> other(p)] \in EyeRow
  BY <1>4 DEF EyeRow
<1>7. /\ u \in Buffer /\ u.gl = e.gl /\ u.stereo = e.stereo
      /\ u.l = [p \in Pixels |-> left(p)] /\ u.r = [p \in Pixels |-> other(p)]
  BY <1>2, <1>6 DEF Buffer
<1>8. \A p \in Pixels : u.l[p] = left(p) /\ u.r[p] = other(p)
  BY <1>7
<1> HIDE DEF u
<1>9. \A p \in Pixels : u.l[p] = IF p \in m.px THEN m.l[p] ELSE fb.l[p]
  BY <1>2, <1>8 DEF left
<1>10. fb.gl /\ m.stereo =>
          /\ u.stereo
          /\ \A p \in Pixels : p \in m.px => u.r[p] = m.r[p]
          /\ \A p \in Pixels : p \notin m.px /\ fb.stereo => u.r[p] = fb.r[p]
  BY <1>2, <1>7, <1>8 DEF other
<1> QED
  BY <1>2, <1>5, <1>7, <1>9, <1>10

(* That is what Draw does.                                                   *)
LEMMA DrawSummary ==
    ASSUME SessionInv, WinType, BufferOK(win), Draw
    PROVE  Drawn(Head(win.queue).msg) /\ WinType' /\ BufferOK(win')
<1> DEFINE m == Head(win.queue).msg
           fb == IF m.compress = "YUV" THEN win.fb
                 ELSE IF m.type = "eof" THEN Eyes(win.fb, win.stereo)
                 ELSE Decompress(win.fb, m)
<1>1. /\ win.queue # <<>> /\ toClient' = toClient
      /\ win' = [win EXCEPT !.queue = Tail(@), !.fb = fb]
      /\ drawn' = IF m.type = "eof"
                  THEN IF m.compress = "YUV" THEN [drawn EXCEPT !.n = m.n]
                       ELSE [n |-> m.n, l |-> fb.l,
                             r |-> IF fb.stereo THEN fb.r ELSE None]
                  ELSE IF m.compress = "YUV"
                  THEN [drawn EXCEPT !.l = m.l, !.r = None] ELSE drawn
  BY DEF Draw
<1>2. win \in WinRec /\ Data \in Seq(Message)
      /\ drawn \in [n : Nat, l : EyeRow, r : EyeRow \cup {None}]
  BY DEF WinType, WinRec
<1>3. /\ Tail(win.queue) \in Seq(Queued) /\ Head(win.queue) \in Queued
      /\ Head(win.queue) = win.queue[1]
      /\ Len(win.queue) \in Nat /\ Len(win.queue) >= 1
      /\ Len(Tail(win.queue)) = Len(win.queue) - 1
      /\ \A i \in 1 .. Len(win.queue) - 1 : Tail(win.queue)[i] = win.queue[i + 1]
  <2>1. win.queue \in Seq(Queued)
    BY <1>2 DEF WinRec
  <2> QED
    BY <1>1, <2>1, TailFacts, SMTT(30)
<1>4. m \in Message /\ m.type \in {"tile", "eof"} /\ m = win.queue[1].msg
  BY <1>3, MessageFacts DEF Queued
<1>5. win.fb \in Buffer /\ (~win.fb.gl => ~win.fb.stereo) /\ win.stereo \in BOOLEAN
  BY <1>2 DEF WinRec, BufferOK
<1> HIDE DEF m
<1>6. /\ fb \in Buffer /\ fb.gl = win.fb.gl /\ (~fb.gl => ~fb.stereo)
      /\ m.compress = "YUV" => fb = win.fb
      /\ IsEOF(m) /\ m.compress # "YUV" =>
            /\ fb.l = win.fb.l
            /\ win.fb.gl => fb.stereo = win.stereo
            /\ win.stereo /\ win.fb.stereo /\ win.fb.gl => fb.r = win.fb.r
      /\ IsTile(m) =>
            /\ \A p \in Pixels : fb.l[p] = IF p \in m.px THEN m.l[p]
                                           ELSE win.fb.l[p]
            /\ win.fb.gl /\ m.stereo =>
                  /\ fb.stereo
                  /\ \A p \in Pixels : p \in m.px => fb.r[p] = m.r[p]
                  /\ \A p \in Pixels : p \notin m.px /\ win.fb.stereo =>
                                           fb.r[p] = win.fb.r[p]
  <2>1. CASE m.compress = "YUV"
    BY <1>5, <2>1 DEF IsTile
  <2>2. CASE m.compress # "YUV" /\ m.type = "eof"
    <3>1. fb = Eyes(win.fb, win.stereo)
      BY <2>2
    <3> HIDE DEF fb
    <3> QED
      BY <1>5, <2>2, <3>1, EyesFacts DEF IsTile
  <2>3. CASE m.compress # "YUV" /\ m.type = "tile"
    <3>1. fb = Decompress(win.fb, m) /\ IsTile(m)
      BY <2>3 DEF IsTile
    <3> HIDE DEF fb
    <3>2. LET u == Decompress(win.fb, m)
          IN  /\ u \in Buffer /\ u.gl = win.fb.gl /\ (~u.gl => ~u.stereo)
              /\ \A p \in Pixels : u.l[p] = IF p \in m.px THEN m.l[p]
                                            ELSE win.fb.l[p]
              /\ win.fb.gl /\ m.stereo =>
                    /\ u.stereo
                    /\ \A p \in Pixels : p \in m.px => u.r[p] = m.r[p]
                    /\ \A p \in Pixels : p \notin m.px /\ win.fb.stereo =>
                                             u.r[p] = win.fb.r[p]
      BY <1>4, <1>5, <3>1, DecompressFacts
    <3> QED
      BY <2>3, <3>1, <3>2 DEF IsEOF
  <2> QED
    BY <1>4, <2>1, <2>2, <2>3
<1> HIDE DEF fb
<1>7. /\ win' \in WinRec /\ win'.fb = fb /\ win'.queue = Tail(win.queue)
      /\ win'.open = win.open /\ win'.canGL = win.canGL /\ win'.stereo = win.stereo
      /\ win'.cfindex = win.cfindex /\ win'.right = win.right
      /\ win'.method = win.method
  BY <1>1, <1>2, <1>3, <1>6 DEF WinRec
<1>8. Data' = Data
  BY <1>1 DEF Data
<1>9. drawn' \in [n : Nat, l : EyeRow, r : EyeRow \cup {None}]
  <2>1. fb.l \in EyeRow /\ fb.r \in EyeRow
    BY <1>6 DEF Buffer
  <2>2. m.type = "eof" => m.n \in Nat
    BY <1>4, MessageFacts
  <2>3. m.type = "tile" => m.l \in EyeRow
    <3>1. m.type = "tile" => m.l \in [Pixels -> Nat]
      BY <1>4, MessageFacts, SessionAssumption
    <3> QED
      BY <3>1 DEF EyeRow
  <2> QED
    BY <1>1, <1>2, <1>4, <2>1, <2>2, <2>3
<1>10. WinType'
  BY <1>2, <1>7, <1>8, <1>9 DEF WinType, WinRec
<1>11. BufferOK(win')
  BY <1>6, <1>7 DEF BufferOK
<1>12. FlightIs(win.queue, Data, Flight) /\ FlightIs(win'.queue, Data, Flight')
  <2>1. win'.queue \in Seq(Queued) /\ Data' \in Seq(Message)
    BY <1>10 DEF WinType
  <2>2. FlightIs(win'.queue, Data', Flight')
    BY <2>1, FlightOf DEF Flight
  <2> QED
    BY <1>8, <2>2, FlightFacts
<1> DEFINE q == Len(win.queue)
           d == Len(Data)
<1>13. /\ q \in Nat /\ d \in Nat /\ q >= 1
       /\ Len(win'.queue) = q - 1
       /\ Len(Flight) = q + d /\ Len(Flight') = (q - 1) + d
       /\ \A i \in 1 .. q - 1 : win'.queue[i] = win.queue[i + 1]
  BY <1>2, <1>3, <1>7, <1>12, LenProperties DEF FlightIs
<1>14. /\ Len(Flight) \in Nat /\ Len(Flight) >= 1 /\ Len(Flight') = Len(Flight) - 1
       /\ 1 \in 1 .. q
  BY <1>13
<1>15. Flight[1] = m
  BY <1>4, <1>12, <1>14 DEF FlightIs
<1>16. ASSUME NEW i \in 1 .. Len(Flight') PROVE Flight'[i] = Flight[i + 1]
  <2>1. CASE i \in 1 .. q - 1
    <3>1. /\ i \in 1 .. Len(win'.queue) /\ i + 1 \in 1 .. q
      BY <1>13, <2>1
    <3>2. Flight'[i] = win'.queue[i].msg /\ Flight[i + 1] = win.queue[i + 1].msg
      BY <1>12, <3>1 DEF FlightIs
    <3> QED
      BY <1>13, <2>1, <3>2
  <2>2. CASE i > q - 1
    <3> DEFINE k == i - (q - 1)
    <3>0. i \in 1 .. (q - 1) + d /\ q \in Nat /\ d \in Nat
      BY <1>13
    <3>a. i \in Int /\ i >= q /\ i <= (q - 1) + d
      <4> HIDE DEF q, d
      <4> QED
        BY <2>2, <3>0
    <3>1. k \in 1 .. d /\ i = (q - 1) + k /\ i + 1 = q + k
      <4> HIDE DEF q, d
      <4> QED
        BY <3>0, <3>a
    <3> HIDE DEF k
    <3>2. Flight'[i] = Data[k]
      <4>1. Flight'[Len(win'.queue) + k] = Data[k]
        BY <1>12, <3>1 DEF FlightIs
      <4> QED
        BY <1>13, <3>1, <4>1
    <3>3. Flight[i + 1] = Data[k]
      <4>1. Flight[Len(win.queue) + k] = Data[k]
        BY <1>12, <3>1 DEF FlightIs
      <4> QED
        BY <3>1, <4>1
    <3> QED
      BY <3>2, <3>3
  <2> QED
    BY <1>13, <2>1, <2>2
<1>17. drawn' = IF IsEOF(m)
                THEN IF m.compress = "YUV" THEN [drawn EXCEPT !.n = m.n]
                     ELSE [n |-> m.n, l |-> win'.fb.l,
                           r |-> IF win'.fb.stereo THEN win'.fb.r ELSE None]
                ELSE IF m.compress = "YUV"
                THEN [drawn EXCEPT !.l = m.l, !.r = None] ELSE drawn
  BY <1>1, <1>7 DEF IsEOF
<1>18. Drawn(m)
  BY <1>4, <1>6, <1>7, <1>8, <1>13, <1>14, <1>15, <1>16, <1>17 DEF Drawn
<1> QED
  BY <1>10, <1>11, <1>18 DEF m

(* The number of the last frame sent                                         *)
LastNumber == IF lastf = None THEN 0 ELSE lastf.n

(* What the properties see of the configuration, ...                         *)
SameConfig == /\ config'.interframe = config.interframe
              /\ config'.tilesize = config.tilesize

(* ... of the sender's frames ...                                            *)
SameFrames == frame' = frame /\ lastf' = lastf

(* ... and of history stays the same.                                        *)
SameHistory == /\ history'.mixed = history.mixed /\ history'.torn = history.torn
               /\ history'.retiled = history.retiled

(* What a step can be to the frames: none of their business, ...             *)
Aside == SameConfig /\ SameFrames /\ SameHistory /\ server' = server

(* ... another tile size, ...                                                *)
Retiles ==
    /\ Quiet /\ SameFrames /\ server' = server
    /\ config'.interframe = config.interframe
    /\ history'.mixed = history.mixed /\ history'.retiled
    /\ history'.torn = (history.torn \/ server.at = "compress")

(* ... a frame rendered, ...                                                 *)
Renders ==
    /\ Quiet /\ SameConfig /\ lastf' = lastf
    /\ server.at = "idle" /\ server'.at = "subsamp"
    /\ frame' \in Frames /\ frame'.n = LastNumber + 1
    /\ frame'.compress = "YUV" => ~HasRight(frame')
    /\ history'.torn = history.torn /\ history'.retiled = history.retiled
    /\ history'.mixed =
          (history.mixed \/ (lastf # None /\ ~SameKind(lastf, frame')))

(* ... and given to the sender, ...                                          *)
Starts ==
    /\ Quiet /\ SameConfig /\ SameHistory /\ lastf' = lastf
    /\ server.at = "subsamp" /\ server'.at = "compress" /\ server'.rank = 0
    /\ frame \in Frames
    /\ frame' \in Frames /\ frame'.n = frame.n /\ frame'.compress = frame.compress
    /\ frame'.l = frame.l /\ frame'.r = frame.r

(* ... a step of the negotiation, ...                                        *)
Negotiates ==
    /\ Quiet /\ SameConfig /\ SameHistory /\ SameFrames
    /\ server'.rank = server.rank
    /\ \/ server.at = "compress" /\ server.version = 0 /\ server'.at = "hello"
       \/ server.at = "hello" /\ server'.at = "compress"

(* ... an exception, ...                                                     *)
Fails ==
    /\ Quiet /\ SameConfig /\ SameHistory /\ SameFrames
    /\ server.at = "compress" /\ server'.at = "failed"

(* ... a Compressor that has sent its messages, ...                          *)
Compresses ==
    /\ SameConfig /\ SameHistory /\ SameFrames /\ frame \in Frames
    /\ server.at = "compress" /\ server.rank \in {0, 1}
    /\ server.version # 0 /\ server'.version = server.version
    /\ \E s : Sends(s, server.rank) /\ Added(s)
    /\ IF frame.compress = "YUV" \/ server.rank = 1 THEN server'.at = "eof"
       ELSE server'.at = "compress" /\ server'.rank = 1

(* (the header of an end of frame)                                           *)
EndOf(f) == [type |-> "eof", n |-> f.n, fmt |-> HeaderFormat(server.version),
             compress |-> f.compress]

(* ... the end of the frame, ...                                             *)
Ends ==
    /\ SameConfig /\ SameHistory /\ frame \in Frames /\ lastf' = frame
    /\ server.at = "eof" /\ server'.version = server.version
    /\ server'.at = IF server.version = 10 THEN "cts" ELSE "idle"
    /\ Added(<<EndOf(frame)>>)

(* ... its answer, ...                                                       *)
IsAnswered ==
    /\ Quiet /\ SameConfig /\ SameHistory /\ SameFrames
    /\ server.at = "cts" /\ server'.at = "idle"

(* ... an image read, ...                                                    *)
Reads == Aside /\ \E m : Received(m)

(* ... or a message drawn.                                                   *)
Draws == Aside /\ \E m : Drawn(m)

(* There is no other step.                                                   *)
AnyStep == \/ Quiet /\ Aside
           \/ Retiles \/ Renders \/ Starts \/ Negotiates \/ Fails \/ Compresses
           \/ Ends \/ IsAnswered \/ Reads \/ Draws

(* A quiet step leaves all that is on its way.                               *)
LEMMA QuietFlight == Quiet => Flight' = Flight
  BY DEF Quiet, Flight

(* Every step of the specification is one of these, and keeps the types of   *)
(* the window and a buffer that fits.                                        *)
LEMMA Steps ==
    ASSUME SessionInv, WinType, BufferOK(win), [SessionNext]_sessionVars
    PROVE  AnyStep /\ WinType' /\ BufferOK(win')
<1>0. /\ server \in [at : {"idle", "subsamp", "compress", "hello", "eof", "cts",
                           "failed"},
                     rank : 0 .. Nprocs - 1, version : {0, 10, 20, 21}]
      /\ lastf \in Frames \cup {None}
      /\ server.at \notin {"idle", "cts"} => frame \in Frames
      /\ config \in [compress : Kinds, interframe : BOOLEAN, tilesize : Nat,
                     subsamp : Subsampling]
      /\ history \in [mixed : BOOLEAN, torn : BOOLEAN, retiled : BOOLEAN,
                      sampled : BOOLEAN, unsettled : BOOLEAN]
  BY DEF SessionInv, TypeInv, ServerType, ConfigType, HistoryType
<1> USE <1>0 DEF SameConfig, SameFrames, SameHistory, senderVars, configVars, clientVars
<1>q. ASSUME \/ Configures \/ SetTilesize \/ Readback \/ SendVGL
             \/ Hello \/ Reply \/ RecvCTS \/ ClientHello \/ ClientVersion
             \/ UNCHANGED sessionVars
      PROVE  Quiet /\ WinType' /\ BufferOK(win')
  <2>1. Quiet /\ WinType'
    BY <1>q, QuietSteps
  <2>2. win' = win
    BY <2>1 DEF Quiet
  <2> QED
    BY <2>1, <2>2
<1>1. CASE Configures
  <2>1. Aside
    BY <1>1 DEF Configures, SetCompress, SetSubsamp, SampCB, ReloadSubsamp, WriteSubsamp,
         Aside
  <2> QED
    BY <1>1, <1>q, <2>1 DEF AnyStep
<1>2. CASE SetTilesize
  <2>1. Quiet
    BY <1>2, <1>q
  <2>2. Retiles
    BY <1>2, <2>1 DEF SetTilesize, Retiles
  <2> QED
    BY <1>2, <1>q, <2>2 DEF AnyStep
<1>3. CASE Readback
  <2>1. Quiet
    BY <1>3, <1>q
  <2>2. PICK l \in Images, r \in RightImages \cup {None} :
          /\ r # None => config.compress # "YUV" /\ peer.server = 21
          /\ frame' = [n |-> LastNumber + 1, l |-> l,
                       r |-> r, compress |-> config.compress, subsamp |-> 0]
          /\ history' = [history EXCEPT
                !.mixed = @ \/ (lastf # None /\ ~SameKind(lastf, frame')),
                !.unsettled = history.sampled \/ setting # {}]
    BY <1>3 DEF Readback, LastNumber
  <2>3. LastNumber \in Nat
    BY DEF LastNumber, Frames
  <2>4. /\ frame' \in Frames /\ frame'.n = LastNumber + 1
        /\ frame'.compress = "YUV" => ~HasRight(frame')
    BY <2>2, <2>3 DEF Frames, HasRight, Subsampling
  <2>5. /\ history'.torn = history.torn /\ history'.retiled = history.retiled
        /\ history'.mixed =
              (history.mixed \/ (lastf # None /\ ~SameKind(lastf, frame')))
    BY <2>2
  <2>6. server.at = "idle" /\ server'.at = "subsamp" /\ lastf' = lastf
        /\ config' = config
    BY <1>3 DEF Readback
  <2>7. Renders
    BY <2>1, <2>4, <2>5, <2>6 DEF Renders
  <2> QED
    BY <1>3, <1>q, <2>7 DEF AnyStep
<1>4. CASE SendVGL
  <2>1. Quiet
    BY <1>4, <1>q
  <2>2. frame \in Frames /\ frame' = [frame EXCEPT !.subsamp = config.subsamp]
        /\ config.subsamp \in Subsampling
    BY <1>4 DEF SendVGL
  <2>3. /\ frame' \in Frames /\ frame'.n = frame.n
        /\ frame'.compress = frame.compress
        /\ frame'.l = frame.l /\ frame'.r = frame.r
    BY <2>2 DEF Frames
  <2>4. Starts
    BY <1>4, <2>1, <2>2, <2>3 DEF SendVGL, Starts
  <2> QED
    BY <1>4, <1>q, <2>4 DEF AnyStep
<1>5. CASE Hello \/ Reply
  <2>1. Quiet
    BY <1>5, <1>q
  <2>2. Negotiates
    BY <1>5, <2>1 DEF Hello, Reply, Negotiates
  <2> QED
    BY <1>5, <1>q, <2>2 DEF AnyStep
<1>6. CASE CompressSend
  <2>1. /\ server.at = "compress" /\ server.version # 0
        /\ UNCHANGED <<config, history, frame, lastf>>
    BY <1>6 DEF CompressSend
  <2>2. CASE Quiet /\ Flight' = Flight /\ WinType'
             /\ server' = [server EXCEPT !.at = "failed"]
    <3>1. Fails
      BY <2>1, <2>2 DEF Fails
    <3>2. BufferOK(win')
      BY <2>2 DEF Quiet
    <3> QED
      BY <2>2, <3>1, <3>2 DEF AnyStep
  <2>3. ASSUME NEW s, Sends(s, server.rank), Added(s), WinType',
               server' = IF frame.compress = "YUV" \/ server.rank = 1
                         THEN [server EXCEPT !.at = "eof"]
                         ELSE [server EXCEPT !.rank = @ + 1]
        PROVE  AnyStep /\ WinType' /\ BufferOK(win')
    <3>1. server.rank \in {0, 1} /\ frame \in Frames
      BY <2>1 DEF Nprocs
    <3>2. /\ server'.version = server.version
          /\ IF frame.compress = "YUV" \/ server.rank = 1 THEN server'.at = "eof"
             ELSE server'.at = "compress" /\ server'.rank = 1
      <4>1. CASE frame.compress = "YUV" \/ server.rank = 1
        BY <2>3, <4>1
      <4>2. CASE ~(frame.compress = "YUV" \/ server.rank = 1)
        BY <2>1, <2>3, <3>1, <4>2
      <4> QED
        BY <4>1, <4>2
    <3>3. Compresses
      BY <2>1, <2>3, <3>1, <3>2 DEF Compresses
    <3>4. BufferOK(win')
      BY <2>3 DEF Added
    <3> QED
      BY <2>3, <3>3, <3>4 DEF AnyStep
  <2> QED
    BY <1>6, <2>2, <2>3, CompressSent
<1>7. CASE SendEOF
  <2>1. frame \in Frames /\ Added(<<EndOf(frame)>>) /\ WinType'
    BY <1>7, EOFSent DEF EndOf
  <2>2. /\ server.at = "eof" /\ lastf' = frame
        /\ UNCHANGED <<config, history>>
        /\ server' = [server EXCEPT !.at = IF server.version = 10 THEN "cts"
                                           ELSE "idle"]
    BY <1>7 DEF SendEOF
  <2>3. Ends
    BY <2>1, <2>2 DEF Ends
  <2>4. BufferOK(win')
    BY <2>1 DEF Added
  <2> QED
    BY <2>1, <2>3, <2>4 DEF AnyStep
<1>8. CASE RecvCTS
  <2>1. Quiet
    BY <1>8, <1>q
  <2>2. server.at = "cts" /\ toServer # <<>>
    BY <1>8 DEF RecvCTS
  <2>3. Head(toServer) = CTS
    BY <2>2, NextByte
  <2>4. server' = [server EXCEPT !.at = "idle"]
    BY <1>8, <2>3 DEF RecvCTS
  <2>5. IsAnswered
    BY <1>8, <2>1, <2>2, <2>4 DEF RecvCTS, IsAnswered
  <2> QED
    BY <1>8, <1>q, <2>5 DEF AnyStep
<1>9. CASE ClientHello \/ ClientVersion \/ UNCHANGED sessionVars
  <2>1. Aside
    BY <1>9 DEF ClientHello, ClientVersion, sessionVars, Aside
  <2> QED
    BY <1>9, <1>q, <2>1 DEF AnyStep
<1>10. CASE Receive
  <2>1. Received(Head(toClient)) /\ WinType' /\ BufferOK(win')
    BY <1>10, ReceiveSummary
  <2>2. Aside
    BY <1>10 DEF Receive, Aside
  <2> QED
    BY <2>1, <2>2 DEF AnyStep, Reads
<1>11. CASE Draw
  <2>1. Drawn(Head(win.queue).msg) /\ WinType' /\ BufferOK(win')
    BY <1>11, DrawSummary
  <2>2. Aside
    BY <1>11 DEF Draw, Aside
  <2> QED
    BY <2>1, <2>2 DEF AnyStep, Draws
<1> QED
  BY <1>1, <1>2, <1>3, <1>4, <1>5, <1>6, <1>7, <1>8, <1>9, <1>10, <1>11
     DEF SessionNext, Sender, Listener, Configures

(* Flight is the queue and Data, and all of it is messages.                  *)
LEMMA Lengths ==
    ASSUME WinType
    PROVE  /\ Len(Data) \in Nat /\ Len(win.queue) \in Nat /\ Len(Flight) \in Nat
           /\ Len(Flight) = Len(win.queue) + Len(Data)
           /\ \A k \in 1 .. Len(Data) : /\ Data[k] \in Message
                                        /\ Flight[Len(win.queue) + k] = Data[k]
           /\ \A i \in 1 .. Len(Flight) : Flight[i] \in Message
<1>1. win.queue \in Seq(Queued) /\ Data \in Seq(Message)
  BY DEF WinType
<1>2. FlightIs(win.queue, Data, Flight)
  BY FlightFacts
<1>3. /\ Len(Data) \in Nat /\ Len(win.queue) \in Nat /\ Len(Flight) \in Nat
  BY <1>1, <1>2, LenProperties DEF FlightIs
<1>4. \A k \in 1 .. Len(Data) : Data[k] \in Message
  BY <1>1, ElementOfSeq
<1>5. \A i \in 1 .. Len(Flight) : Flight[i] \in Message
  BY <1>2, ElementOfSeq DEF FlightIs
<1> QED
  BY <1>2, <1>3, <1>4, <1>5 DEF FlightIs

(* The negotiation comes before the first Compressor's turn, a YUV frame has *)
(* only one turn and no right eye, and only a v1.0 client is waited for,     *)
(* after a frame.                                                            *)
ControlInv ==
    /\ server.at = "hello" => server.rank = 0
    /\ server.at = "compress" /\ server.version = 0 => server.rank = 0
    /\ server.at = "cts" => server.version = 10
    /\ server.at = "cts" => lastf # None
    /\ server.at = "compress" /\ frame.compress = "YUV" => server.rank = 0
    /\ server.at \notin {"idle", "cts"} /\ frame.compress = "YUV" =>
          ~HasRight(frame)

(* A frame is not the value that stands for none.                            *)
LEMMA FrameIsSome ==
    ASSUME NEW f \in Frames
    PROVE  f # None
  BY SessionAssumption DEF Frames, Kinds

(* Every step preserves ControlInv.                                          *)
LEMMA ControlStep ==
    ASSUME SessionInv, ControlInv, AnyStep
    PROVE  ControlInv'
<1> USE DEF ControlInv, SameFrames, SameConfig
<1>1. CASE Quiet /\ Aside
  BY <1>1 DEF Aside
<1>2. CASE Retiles
  BY <1>2 DEF Retiles
<1>3. CASE Renders
  BY <1>3 DEF Renders, HasRight
<1>4. CASE Starts
  BY <1>4 DEF Starts, HasRight
<1>5. CASE Negotiates
  BY <1>5 DEF Negotiates, HasRight
<1>6. CASE Fails
  BY <1>6 DEF Fails, HasRight
<1>7. CASE Compresses
  <2>1. \/ server'.at = "eof"
        \/ server'.at = "compress" /\ frame.compress # "YUV"
    BY <1>7 DEF Compresses
  <2>2. frame' = frame /\ server'.version = server.version /\ server.version # 0
        /\ server.at = "compress"
    BY <1>7 DEF Compresses
  <2> QED
    BY <2>1, <2>2 DEF HasRight
<1>8. CASE Ends
  <2>1. /\ lastf' = frame /\ frame \in Frames /\ server'.version = server.version
        /\ server'.at = IF server.version = 10 THEN "cts" ELSE "idle"
    BY <1>8 DEF Ends
  <2>2. frame # None
    BY <1>8, FrameIsSome DEF Ends
  <2> QED
    BY <2>1, <2>2
<1>9. CASE IsAnswered
  BY <1>9 DEF IsAnswered
<1>10. CASE Reads \/ Draws
  BY <1>10 DEF Reads, Draws, Aside
<1> QED
  BY <1>1, <1>2, <1>3, <1>4, <1>5, <1>6, <1>7, <1>8, <1>9, <1>10 DEF AnyStep

(* The sender has given an image to the connection.                          *)
Begun == \/ lastf # None \/ server.at = "eof"
         \/ server.at = "compress" /\ server.rank = 1

(* Nothing comes before the first image, with which the window is made.      *)
OpenInv ==
    /\ ~win.open => /\ \A k \in {0, 1} : ~win.right[k]
                    /\ Len(Data) >= 1 => Data[1].type = "tile"
    /\ server.at # "failed" => (Begun <=> win.open \/ Len(Data) >= 1)

(* A quiet step, conjunct by conjunct                                        *)
LEMMA QuietLengths ==
    ASSUME Quiet
    PROVE  /\ Len(Data') = Len(Data) /\ Len(Flight') = Len(Flight)
           /\ Data' = Data /\ Flight' = Flight /\ win' = win /\ drawn' = drawn
  BY QuietFlight DEF Quiet

(* Every step preserves OpenInv.                                             *)
LEMMA OpenStep ==
    ASSUME SessionInv, WinType, WinType', ControlInv, OpenInv, AnyStep
    PROVE  OpenInv'
<1>0. Len(Data) \in Nat
  BY Lengths
<1>1. CASE Quiet /\ Aside
  BY <1>1, QuietLengths DEF Aside, SameFrames, OpenInv, Begun
<1>2. CASE Retiles
  <2>1. Quiet
    BY <1>2 DEF Retiles
  <2> QED
    BY <1>2, <2>1, QuietLengths DEF Retiles, SameFrames, OpenInv, Begun
<1>3. CASE Renders
  <2>1. Quiet
    BY <1>3 DEF Renders
  <2> QED
    BY <1>3, <2>1, QuietLengths DEF Renders, OpenInv, Begun
<1>4. CASE Starts
  <2>1. Quiet
    BY <1>4 DEF Starts
  <2> QED
    BY <1>4, <2>1, QuietLengths DEF Starts, OpenInv, Begun
<1>5. CASE Negotiates
  <2>1. Quiet
    BY <1>5 DEF Negotiates
  <2> QED
    BY <1>5, <2>1, QuietLengths DEF Negotiates, SameFrames, OpenInv, Begun, ControlInv
<1>6. CASE Fails
  <2>1. Quiet
    BY <1>6 DEF Fails
  <2> QED
    BY <1>6, <2>1, QuietLengths DEF Fails, OpenInv
<1>7. CASE Compresses
  <2>1. PICK s : Sends(s, server.rank) /\ Added(s)
    BY <1>7 DEF Compresses
  <2>2. /\ Len(s) \in Nat /\ Len(Data') = Len(Data) + Len(s) /\ win' = win
        /\ \A k \in 1 .. Len(Data) : Data'[k] = Data[k]
        /\ \A k \in 1 .. Len(s) : Data'[Len(Data) + k] = s[k]
    BY <2>1, LenProperties DEF Added
  <2>3. /\ server.at = "compress" /\ lastf' = lastf /\ server'.at # "failed" /\ Begun'
    BY <1>7 DEF Compresses, SameFrames, Begun
  <2>4. /\ \A j \in 1 .. Len(s) : s[j].type = "tile"
        /\ server.rank = 0 /\ lastf = None => Len(s) >= 1
    <3>1. \A j \in 1 .. Len(s) : s[j].type = "tile"
      BY <2>1 DEF Sends, OfFrame
    <3>2. CASE frame.compress = "YUV"
      <4>1. Len(s) = 1
        BY <2>1, <3>2 DEF Sends
      <4> QED
        BY <3>1, <4>1
    <3>3. CASE frame.compress # "YUV"
      BY <2>1, <3>1, <3>3 DEF Sends
    <3> QED
      BY <3>2, <3>3
  <2>5. ASSUME ~win.open, Len(Data') >= 1 PROVE Data'[1].type = "tile"
    <3>1. CASE Len(Data) >= 1
      <4>1. 1 \in 1 .. Len(Data)
        BY <1>0, <3>1
      <4> QED
        BY <2>2, <2>5, <3>1, <4>1 DEF OpenInv
    <3>2. CASE Len(Data) = 0
      <4>1. 1 \in 1 .. Len(s) /\ Len(Data) + 1 = 1
        BY <2>2, <2>5, <3>2
      <4>2. Data'[1] = s[1]
        BY <2>2, <4>1
      <4> QED
        BY <2>4, <4>1, <4>2
    <3> QED
      BY <1>0, <3>1, <3>2
  <2>6. win.open \/ Len(Data') >= 1
    <3>1. CASE Begun
      <4>1. win.open \/ Len(Data) >= 1
        BY <2>3, <3>1 DEF OpenInv
      <4> QED
        BY <1>0, <2>2, <4>1
    <3>2. CASE ~Begun
      <4>1. server.rank = 0 /\ lastf = None
        BY <1>7, <2>3, <3>2 DEF Begun, Compresses
      <4> QED
        BY <1>0, <2>2, <2>4, <4>1
    <3> QED
      BY <3>1, <3>2
  <2>7. ~win'.open => \A k \in {0, 1} : ~win'.right[k]
    BY <2>2 DEF OpenInv
  <2>8. ~win'.open /\ Len(Data') >= 1 => Data'[1].type = "tile"
    BY <2>2, <2>5
  <2> QED
    BY <2>2, <2>3, <2>6, <2>7, <2>8 DEF OpenInv
<1>8. CASE Ends
  <2> DEFINE e == EndOf(frame)
  <2>1. Added(<<e>>) /\ server.at = "eof" /\ lastf' = frame /\ frame \in Frames
    BY <1>8 DEF Ends
  <2> HIDE DEF e
  <2>2. /\ Len(Data') = Len(Data) + 1 /\ win' = win
        /\ \A k \in 1 .. Len(Data) : Data'[k] = Data[k]
    BY <2>1 DEF Added
  <2>3. win.open \/ Len(Data) >= 1
    BY <2>1 DEF OpenInv, Begun
  <2>4. Begun'
    BY <2>1, FrameIsSome DEF Begun
  <2>5. ~win.open => 1 \in 1 .. Len(Data) /\ Data'[1] = Data[1]
    BY <1>0, <2>2, <2>3
  <2>6. Len(Data') >= 1
    BY <1>0, <2>2
  <2> QED
    BY <2>2, <2>3, <2>4, <2>5, <2>6 DEF OpenInv
<1>9. CASE IsAnswered
  <2>1. Quiet
    BY <1>9 DEF IsAnswered
  <2> QED
    BY <1>9, <2>1, QuietLengths DEF IsAnswered, SameFrames, OpenInv, Begun
<1>10. CASE Reads
  <2>1. PICK m : Received(m)
    BY <1>10 DEF Reads
  <2>2. win'.open /\ Len(Data) >= 1
    BY <2>1 DEF Received
  <2> QED
    BY <1>10, <2>2 DEF Reads, Aside, SameFrames, OpenInv, Begun
<1>11. CASE Draws
  <2>1. PICK m : Drawn(m)
    BY <1>11 DEF Draws
  <2>2. Data' = Data /\ win'.open = win.open /\ win'.right = win.right
    BY <2>1 DEF Drawn
  <2> QED
    BY <1>11, <2>2 DEF Draws, Aside, SameFrames, OpenInv, Begun
<1> QED
  BY <1>1, <1>2, <1>3, <1>4, <1>5, <1>6, <1>7, <1>8, <1>9, <1>10, <1>11 DEF AnyStep

(* The ends of frame on their way are in order, later than what is drawn and *)
(* not later than what was sent, ...                                         *)
EndNumbers ==
    /\ \A i \in 1 .. Len(Flight) : IsEOF(Flight[i]) =>
          drawn.n < Flight[i].n /\ Flight[i].n <= LastNumber
    /\ \A i, j \in 1 .. Len(Flight) :
          i < j /\ IsEOF(Flight[i]) /\ IsEOF(Flight[j]) => Flight[i].n < Flight[j].n

(* ... and between frames the last message is the last frame's end, or all   *)
(* is drawn.                                                                 *)
LastEnd ==
    server.at \in {"idle", "cts"} =>
        IF Len(Flight) = 0 THEN drawn.n = LastNumber
        ELSE /\ lastf # None /\ IsEOF(Flight[Len(Flight)])
             /\ Flight[Len(Flight)].n = lastf.n
             /\ Flight[Len(Flight)].compress = lastf.compress

(* With that, frames are numbered one after the other.                       *)
NumberInv ==
    /\ drawn.n <= LastNumber
    /\ EndNumbers /\ LastEnd
    /\ server.at \notin {"idle", "cts"} => frame.n = LastNumber + 1

(* It is a number.                                                           *)
LEMMA LastNumberType ==
    ASSUME SessionInv
    PROVE  LastNumber \in Nat
  BY DEF LastNumber, SessionInv, TypeInv, ServerType, Frames

(* Every step preserves NumberInv.                                           *)
LEMMA NumberStep ==
    ASSUME SessionInv, SessionInv', WinType, WinType', ControlInv, NumberInv, AnyStep
    PROVE  NumberInv'
<1>0. /\ Len(Flight) \in Nat /\ LastNumber \in Nat /\ drawn.n \in Nat
      /\ \A i \in 1 .. Len(Flight) : Flight[i] \in Message
  BY Lengths, LastNumberType DEF WinType
<1>1. CASE Quiet /\ Aside
  BY <1>1, QuietLengths
     DEF Aside, SameFrames, NumberInv, EndNumbers, LastEnd, LastNumber
<1>2. CASE Retiles
  <2>1. Quiet
    BY <1>2 DEF Retiles
  <2> QED
    BY <1>2, <2>1, QuietLengths
       DEF Retiles, SameFrames, NumberInv, EndNumbers, LastEnd, LastNumber
<1>3. CASE Renders
  <2>1. Quiet
    BY <1>3 DEF Renders
  <2> QED
    BY <1>3, <2>1, QuietLengths
       DEF Renders, NumberInv, EndNumbers, LastEnd, LastNumber
<1>4. CASE Starts
  <2>1. Quiet
    BY <1>4 DEF Starts
  <2> QED
    BY <1>4, <2>1, QuietLengths
       DEF Starts, NumberInv, EndNumbers, LastEnd, LastNumber
<1>5. CASE Negotiates
  <2>1. Quiet
    BY <1>5 DEF Negotiates
  <2> QED
    BY <1>5, <2>1, QuietLengths
       DEF Negotiates, SameFrames, NumberInv, EndNumbers, LastEnd, LastNumber
<1>6. CASE Fails
  <2>1. Quiet
    BY <1>6 DEF Fails
  <2> QED
    BY <1>6, <2>1, QuietLengths
       DEF Fails, SameFrames, NumberInv, EndNumbers, LastEnd, LastNumber
<1>7. CASE Compresses
  <2>1. PICK s : Sends(s, server.rank) /\ Added(s)
    BY <1>7 DEF Compresses
  <2>2. /\ Len(s) \in Nat /\ Len(Flight') = Len(Flight) + Len(s) /\ drawn' = drawn
        /\ \A i \in 1 .. Len(Flight) : Flight'[i] = Flight[i]
        /\ \A k \in 1 .. Len(s) : Flight'[Len(Flight) + k] = s[k]
    BY <2>1, LenProperties DEF Added
  <2>3. \A k \in 1 .. Len(s) : s[k].type = "tile"
    BY <2>1 DEF Sends, OfFrame
  <2>4. /\ server'.at \notin {"idle", "cts"} /\ server.at = "compress"
        /\ lastf' = lastf /\ frame' = frame /\ LastNumber' = LastNumber
    BY <1>7 DEF Compresses, SameFrames, LastNumber
  <2>5. ASSUME NEW i \in 1 .. Len(Flight'), IsEOF(Flight'[i])
        PROVE  i \in 1 .. Len(Flight) /\ Flight'[i] = Flight[i]
    <3>1. CASE i \in 1 .. Len(Flight)
      BY <2>2, <3>1
    <3>2. CASE i \notin 1 .. Len(Flight)
      <4> DEFINE k == i - Len(Flight)
      <4>1. k \in 1 .. Len(s) /\ i = Len(Flight) + k
        BY <1>0, <2>2, <3>2
      <4> HIDE DEF k
      <4>2. Flight'[i].type = "tile"
        BY <2>2, <2>3, <4>1
      <4> QED
        BY <2>5, <4>2 DEF IsEOF
    <3> QED
      BY <3>1, <3>2
  <2>6. EndNumbers'
    BY <2>2, <2>4, <2>5 DEF EndNumbers, NumberInv
  <2> QED
    BY <2>2, <2>4, <2>6 DEF NumberInv, LastEnd
<1>8. CASE Ends
  <2> DEFINE e == EndOf(frame)
  <2>1. /\ Added(<<e>>) /\ server.at = "eof" /\ lastf' = frame /\ frame \in Frames
        /\ server'.at \in {"idle", "cts"}
    BY <1>8 DEF Ends
  <2>2. /\ IsEOF(e) /\ e.n = frame.n /\ e.compress = frame.compress
    BY DEF EndOf, IsEOF
  <2> HIDE DEF e
  <2>3. /\ Len(Flight') = Len(Flight) + 1 /\ drawn' = drawn
        /\ \A i \in 1 .. Len(Flight) : Flight'[i] = Flight[i]
        /\ Flight'[Len(Flight) + 1] = e
    BY <2>1 DEF Added
  <2>4. /\ frame.n = LastNumber + 1 /\ LastNumber' = frame.n
    BY <2>1, FrameIsSome DEF NumberInv, LastNumber
  <2>5. ASSUME NEW i \in 1 .. Len(Flight')
        PROVE  \/ i \in 1 .. Len(Flight) /\ Flight'[i] = Flight[i]
               \/ i = Len(Flight) + 1 /\ Flight'[i] = e
    BY <1>0, <2>3
  <2>6. ASSUME NEW i \in 1 .. Len(Flight), IsEOF(Flight[i])
        PROVE  /\ Flight[i].n \in Nat /\ drawn.n < Flight[i].n
               /\ Flight[i].n <= LastNumber
    <3>1. Flight[i].n \in Nat
      BY <1>0, <2>6, MessageFacts DEF IsEOF
    <3> QED
      BY <2>6, <3>1 DEF NumberInv, EndNumbers
  <2>7. ASSUME NEW i \in 1 .. Len(Flight'), IsEOF(Flight'[i])
        PROVE  drawn'.n < Flight'[i].n /\ Flight'[i].n <= LastNumber'
    <3>1. CASE i \in 1 .. Len(Flight) /\ Flight'[i] = Flight[i]
      BY <1>0, <2>3, <2>4, <2>6, <2>7, <3>1
    <3>2. CASE Flight'[i] = e
      <4>1. drawn.n <= LastNumber
        BY DEF NumberInv
      <4> QED
        BY <1>0, <2>2, <2>3, <2>4, <3>2, <4>1
    <3> QED
      BY <2>5, <3>1, <3>2
  <2>8. ASSUME NEW i \in 1 .. Len(Flight'), NEW j \in 1 .. Len(Flight'), i < j,
               IsEOF(Flight'[i]), IsEOF(Flight'[j])
        PROVE  Flight'[i].n < Flight'[j].n
    <3>1. i \in 1 .. Len(Flight) /\ Flight'[i] = Flight[i]
      BY <1>0, <2>3, <2>5, <2>8
    <3>2. CASE j \in 1 .. Len(Flight) /\ Flight'[j] = Flight[j]
      BY <2>8, <3>1, <3>2 DEF NumberInv, EndNumbers
    <3>3. CASE Flight'[j] = e
      BY <1>0, <2>2, <2>4, <2>6, <2>8, <3>1, <3>3
    <3> QED
      BY <2>5, <3>2, <3>3
  <2>9. EndNumbers'
    BY <2>7, <2>8 DEF EndNumbers
  <2>10. LastEnd'
    <3>1. Len(Flight') # 0 /\ Flight'[Len(Flight')] = e
      BY <1>0, <2>3
    <3> QED
      BY <2>1, <2>2, <3>1, FrameIsSome DEF LastEnd
  <2>11. drawn'.n <= LastNumber'
    BY <1>0, <2>3, <2>4 DEF NumberInv
  <2> QED
    BY <2>1, <2>9, <2>10, <2>11 DEF NumberInv
<1>9. CASE IsAnswered
  <2>1. Quiet
    BY <1>9 DEF IsAnswered
  <2> QED
    BY <1>9, <2>1, QuietLengths
       DEF IsAnswered, SameFrames, NumberInv, EndNumbers, LastEnd, LastNumber
<1>10. CASE Reads
  <2>1. PICK m : Received(m)
    BY <1>10 DEF Reads
  <2>2. /\ Len(Flight') = Len(Flight) /\ drawn' = drawn
        /\ \A i \in 1 .. Len(Flight) : Flight'[i] = Flight[i]
    BY <2>1 DEF Received
  <2>3. Len(Flight) # 0 => Flight'[Len(Flight)] = Flight[Len(Flight)]
    BY <1>0, <2>2
  <2> QED
    BY <1>10, <2>2, <2>3
       DEF Reads, Aside, SameFrames, NumberInv, EndNumbers, LastEnd, LastNumber
<1>11. CASE Draws
  <2>1. PICK m : Drawn(m)
    BY <1>11 DEF Draws
  <2>2. /\ Len(Flight') = Len(Flight) - 1 /\ Len(Flight) >= 1 /\ m = Flight[1]
        /\ \A i \in 1 .. Len(Flight') : Flight'[i] = Flight[i + 1]
        /\ m \in Message
    BY <2>1 DEF Drawn
  <2>3. /\ LastNumber' = LastNumber /\ lastf' = lastf /\ frame' = frame
        /\ server' = server
    BY <1>11 DEF Draws, Aside, SameFrames, LastNumber
  <2>4. /\ drawn'.n = IF IsEOF(m) THEN m.n ELSE drawn.n
        /\ IsEOF(m) => m.n \in Nat
    <3>1. drawn' = IF IsEOF(m)
                   THEN IF m.compress = "YUV" THEN [drawn EXCEPT !.n = m.n]
                        ELSE [n |-> m.n, l |-> win'.fb.l,
                              r |-> IF win'.fb.stereo THEN win'.fb.r ELSE None]
                   ELSE IF m.compress = "YUV"
                   THEN [drawn EXCEPT !.l = m.l, !.r = None] ELSE drawn
      BY <2>1 DEF Drawn
    <3>2. drawn \in [n : Nat, l : EyeRow, r : EyeRow \cup {None}]
      BY DEF WinType
    <3> QED
      BY <2>2, <3>1, <3>2, MessageFacts DEF IsEOF
  <2>5. 1 \in 1 .. Len(Flight)
    BY <1>0, <2>2
  <2>6. /\ drawn'.n \in Nat /\ drawn'.n <= LastNumber /\ drawn.n <= drawn'.n
    BY <1>0, <2>2, <2>4, <2>5 DEF NumberInv, EndNumbers
  <2>7. ASSUME NEW i \in 1 .. Len(Flight')
        PROVE  i + 1 \in 1 .. Len(Flight) /\ 1 < i + 1
    BY <1>0, <2>2
  <2>8. ASSUME NEW i \in 1 .. Len(Flight'), IsEOF(Flight'[i])
        PROVE  drawn'.n < Flight'[i].n /\ Flight'[i].n <= LastNumber
    <3>1. Flight'[i] = Flight[i + 1] /\ i + 1 \in 1 .. Len(Flight) /\ 1 < i + 1
      BY <2>2, <2>7
    <3>2. drawn.n < Flight[i + 1].n /\ Flight[i + 1].n <= LastNumber
      BY <2>8, <3>1 DEF NumberInv, EndNumbers
    <3>3. IsEOF(m) => m.n < Flight[i + 1].n
      BY <2>2, <2>5, <2>8, <3>1 DEF NumberInv, EndNumbers
    <3> QED
      BY <2>4, <3>1, <3>2, <3>3
  <2>9. ASSUME NEW i \in 1 .. Len(Flight'), NEW j \in 1 .. Len(Flight'), i < j,
               IsEOF(Flight'[i]), IsEOF(Flight'[j])
        PROVE  Flight'[i].n < Flight'[j].n
    <3>1. /\ Flight'[i] = Flight[i + 1] /\ i + 1 \in 1 .. Len(Flight)
          /\ Flight'[j] = Flight[j + 1] /\ j + 1 \in 1 .. Len(Flight)
      BY <2>2, <2>7
    <3>2. i + 1 < j + 1
      BY <1>0, <2>2, <2>9
    <3> QED
      BY <2>9, <3>1, <3>2 DEF NumberInv, EndNumbers
  <2>10. EndNumbers'
    BY <2>3, <2>8, <2>9 DEF EndNumbers
  <2>11. LastEnd'
    <3> SUFFICES ASSUME server.at \in {"idle", "cts"} PROVE LastEnd'
      BY <2>3 DEF LastEnd
    <3>1. /\ lastf # None /\ IsEOF(Flight[Len(Flight)])
          /\ Flight[Len(Flight)].n = lastf.n
          /\ Flight[Len(Flight)].compress = lastf.compress
      BY <1>0, <2>2 DEF NumberInv, LastEnd
    <3>2. CASE Len(Flight) = 1
      <4>1. Len(Flight') = 0 /\ m = Flight[Len(Flight)]
        BY <1>0, <2>2, <3>2
      <4>2. drawn'.n = LastNumber'
        BY <2>3, <2>4, <3>1, <4>1 DEF LastNumber
      <4> QED
        BY <4>1, <4>2 DEF LastEnd
    <3>3. CASE Len(Flight) # 1
      <4>1. /\ Len(Flight') # 0 /\ Len(Flight') \in 1 .. Len(Flight')
            /\ Len(Flight') + 1 = Len(Flight)
        BY <1>0, <2>2, <3>3
      <4>2. Flight'[Len(Flight')] = Flight[Len(Flight)]
        BY <2>2, <4>1
      <4> QED
        BY <2>3, <3>1, <4>1, <4>2 DEF LastEnd
    <3> QED
      BY <3>2, <3>3
  <2> QED
    BY <2>3, <2>6, <2>10, <2>11 DEF NumberInv
<1> QED
  BY <1>1, <1>2, <1>3, <1>4, <1>5, <1>6, <1>7, <1>8, <1>9, <1>10, <1>11 DEF AnyStep

(* The last frame and the one that is being made or sent                     *)
InUse == ({lastf} \ {None})
           \cup (IF server.at \in {"idle", "cts"} THEN {} ELSE {frame})

(* The messages d and the window w are of the kind of the frame f: every     *)
(* message is YUV or not as it is, every image has its eyes; ...             *)
AllOfIn(f, d, w) ==
    /\ \A i \in 1 .. Len(d) :
          /\ d[i].compress = "YUV" <=> f.compress = "YUV"
          /\ d[i].type = "tile" => (d[i].stereo <=> HasRight(f))
    /\ w.open => (w.stereo <=> HasRight(f) /\ w.canGL)
    /\ \A k \in {0, 1} : w.right[k] => HasRight(f)

(* ... so is all that is on its way.                                         *)
AllOf(f) == AllOfIn(f, Flight, win)

(* As long as frames are all of one kind, so is everything else.             *)
KindInv ==
    ~history.mixed =>
        \A f \in InUse : AllOf(f) /\ \A g \in InUse : SameKind(f, g)

(* A quiet step leaves it so, for any frame of that kind.                    *)
LEMMA QuietKind ==
    ASSUME Quiet, NEW f, NEW g, AllOf(f), SameKind(f, g)
    PROVE  AllOfIn(g, Flight', win')
<1>1. /\ Flight' = Flight /\ win' = win
  BY QuietFlight DEF Quiet
<1>2. AllOf(g)
  BY DEF AllOf, AllOfIn, SameKind, HasRight
<1> QED
  BY <1>1, <1>2 DEF AllOf, AllOfIn, HasRight

(* Every step preserves KindInv.                                             *)
LEMMA KindStep ==
    ASSUME SessionInv, WinType, WinType', OpenInv, NumberInv, KindInv, AnyStep
    PROVE  KindInv'
<1>0. /\ Len(Flight) \in Nat /\ lastf \in Frames \cup {None}
  BY Lengths DEF SessionInv, TypeInv, ServerType
<1>a. ASSUME Quiet, InUse' = InUse, history'.mixed = history.mixed
      PROVE  KindInv'
  <2> SUFFICES ASSUME ~history.mixed
               PROVE  \A f \in InUse : AllOfIn(f, Flight', win') /\ \A g \in InUse : SameKind(f, g)
    BY <1>a DEF KindInv, AllOf, SameKind, HasRight
  <2>1. \A f \in InUse : AllOf(f) /\ \A g \in InUse : SameKind(f, g)
    BY DEF KindInv
  <2>2. ASSUME NEW f \in InUse PROVE AllOfIn(f, Flight', win')
    BY <1>a, <2>1, QuietKind
  <2> QED
    BY <2>1, <2>2
<1>1. CASE Quiet /\ Aside
  BY <1>1, <1>a DEF Aside, SameFrames, SameHistory, InUse
<1>2. CASE Retiles
  BY <1>2, <1>a DEF Retiles, SameFrames, InUse
<1>3. CASE Renders
  <2> SUFFICES ASSUME ~history'.mixed PROVE KindInv'
    BY DEF KindInv
  <2>1. /\ Quiet /\ server.at = "idle" /\ server'.at = "subsamp"
        /\ lastf' = lastf /\ ~history.mixed /\ frame' \in Frames
        /\ lastf # None => SameKind(lastf, frame')
    BY <1>3 DEF Renders, SameKind, HasRight
  <2>2. InUse' = ({lastf} \ {None}) \cup {frame'} /\ InUse = {lastf} \ {None}
    BY <2>1 DEF InUse
  <2>3. AllOfIn(frame', Flight', win')
    <3>1. CASE lastf = None
      <4>1. Len(Flight) = 0
        BY <2>1, <3>1 DEF NumberInv, LastEnd
      <4>2. ~win.open /\ \A k \in {0, 1} : ~win.right[k]
        BY <2>1, <3>1 DEF OpenInv, Begun
      <4>3. Flight' = Flight /\ win' = win
        BY <2>1, QuietFlight DEF Quiet
      <4>4. 1 .. Len(Flight') = {}
        BY <4>1, <4>3
      <4> QED
        BY <4>2, <4>3, <4>4 DEF AllOf, AllOfIn
    <3>2. CASE lastf # None
      <4>1. AllOf(lastf)
        BY <2>1, <2>2, <3>2 DEF KindInv
      <4> QED
        BY <2>1, <3>2, <4>1, QuietKind
    <3> QED
      BY <3>1, <3>2
  <2>4. ASSUME NEW f \in InUse' PROVE AllOfIn(f, Flight', win')
    <3>1. CASE f = frame'
      BY <2>3, <3>1
    <3>2. CASE f = lastf /\ lastf # None
      <4>1. AllOf(f) /\ SameKind(f, f)
        BY <2>1, <2>2, <3>2 DEF KindInv
      <4> QED
        BY <2>1, <4>1, QuietKind
    <3> QED
      BY <2>2, <2>4, <3>1, <3>2
  <2>5. ASSUME NEW f \in InUse', NEW g \in InUse' PROVE SameKind(f, g)
    BY <2>1, <2>2, <2>5 DEF SameKind, HasRight
  <2> QED
    BY <2>4, <2>5 DEF KindInv, AllOf, SameKind, HasRight
<1>4. CASE Starts
  <2>1. /\ Quiet /\ SameKind(frame, frame') /\ lastf' = lastf
        /\ history'.mixed = history.mixed
        /\ InUse' = ({lastf} \ {None}) \cup {frame'}
        /\ InUse = ({lastf} \ {None}) \cup {frame}
    BY <1>4 DEF Starts, SameKind, SameHistory, InUse, HasRight
  <2> SUFFICES ASSUME ~history.mixed PROVE KindInv'
    BY <2>1 DEF KindInv
  <2>2. \A f \in InUse : AllOf(f) /\ \A g \in InUse : SameKind(f, g)
    BY DEF KindInv
  <2>3. ASSUME NEW f \in InUse' PROVE \E e \in InUse : SameKind(e, f)
    BY <2>1, <2>2, <2>3 DEF SameKind, HasRight
  <2>4. ASSUME NEW f \in InUse' PROVE AllOfIn(f, Flight', win')
    BY <2>1, <2>2, <2>3, <2>4, QuietKind
  <2>5. ASSUME NEW f \in InUse', NEW g \in InUse' PROVE SameKind(f, g)
    BY <2>2, <2>3, <2>5 DEF SameKind, HasRight
  <2> QED
    BY <2>4, <2>5 DEF KindInv, AllOf, SameKind, HasRight
<1>5. CASE Negotiates
  BY <1>5, <1>a DEF Negotiates, SameFrames, SameHistory, InUse
<1>6. CASE Fails
  BY <1>6, <1>a DEF Fails, SameFrames, SameHistory, InUse
<1>9. CASE IsAnswered
  BY <1>9, <1>a DEF IsAnswered, SameFrames, SameHistory, InUse
<1>b. ASSUME NEW s, Added(s), SameHistory, InUse' \subseteq InUse,
             NEW e \in InUse,
             \A k \in 1 .. Len(s) :
                /\ s[k].compress = e.compress
                /\ s[k].type = "tile" => (s[k].stereo <=> HasRight(e))
      PROVE  KindInv'
  <2>1. /\ Len(s) \in Nat /\ Len(Flight') = Len(Flight) + Len(s) /\ win' = win
        /\ \A i \in 1 .. Len(Flight) : Flight'[i] = Flight[i]
        /\ \A k \in 1 .. Len(s) : Flight'[Len(Flight) + k] = s[k]
    BY <1>b, LenProperties DEF Added
  <2> SUFFICES ASSUME ~history.mixed PROVE KindInv'
    BY <1>b DEF KindInv, SameHistory
  <2>2. \A f \in InUse : AllOf(f) /\ \A g \in InUse : SameKind(f, g)
    BY DEF KindInv
  <2>3. ASSUME NEW f \in InUse' PROVE AllOfIn(f, Flight', win')
    <3>1. AllOf(f) /\ SameKind(f, e)
      BY <1>b, <2>2, <2>3
    <3>2. ASSUME NEW i \in 1 .. Len(Flight')
          PROVE  /\ Flight'[i].compress = "YUV" <=> f.compress = "YUV"
                 /\ Flight'[i].type = "tile" =>
                       (Flight'[i].stereo <=> HasRight(f))
      <4>1. CASE i \in 1 .. Len(Flight)
        BY <2>1, <3>1, <4>1 DEF AllOf, AllOfIn
      <4>2. CASE i \notin 1 .. Len(Flight)
        <5> DEFINE k == i - Len(Flight)
        <5>1. k \in 1 .. Len(s) /\ i = Len(Flight) + k
          BY <1>0, <2>1, <4>2
        <5> HIDE DEF k
        <5>2. Flight'[i] = s[k]
          BY <2>1, <5>1
        <5> QED
          BY <1>b, <3>1, <5>1, <5>2 DEF SameKind, HasRight
      <4> QED
        BY <4>1, <4>2
    <3> QED
      BY <2>1, <3>1, <3>2 DEF AllOf, AllOfIn, HasRight
  <2> QED
    BY <1>b, <2>2, <2>3 DEF KindInv, AllOf, SameKind, HasRight
<1>7. CASE Compresses
  <2>1. PICK s : Sends(s, server.rank) /\ Added(s)
    BY <1>7 DEF Compresses
  <2>2. /\ server.at = "compress" /\ server'.at \in {"compress", "eof"}
        /\ SameFrames /\ SameHistory
    BY <1>7 DEF Compresses
  <2>3. frame \in InUse /\ InUse' = InUse
    BY <2>2 DEF InUse, SameFrames
  <2>4. \A k \in 1 .. Len(s) :
           /\ s[k].compress = frame.compress
           /\ s[k].type = "tile" => (s[k].stereo <=> HasRight(frame))
    BY <2>1 DEF Sends, OfFrame
  <2> QED
    BY <1>b, <2>1, <2>2, <2>3, <2>4
<1>8. CASE Ends
  <2> DEFINE e == EndOf(frame)
             s == <<e>>
  <2>1. /\ Added(s) /\ SameHistory /\ server.at = "eof"
        /\ lastf' = frame /\ server'.at \in {"idle", "cts"}
    BY <1>8 DEF Ends
  <2>2. frame \in InUse /\ InUse' \subseteq InUse
    BY <2>1 DEF InUse
  <2>3. \A k \in 1 .. Len(s) :
           /\ s[k].compress = frame.compress
           /\ s[k].type = "tile" => (s[k].stereo <=> HasRight(frame))
    BY DEF EndOf
  <2> HIDE DEF s
  <2> QED
    BY <1>b, <2>1, <2>2, <2>3
<1>10. CASE Reads
  <2>1. PICK m : Received(m)
    BY <1>10 DEF Reads
  <2>2. InUse' = InUse /\ history'.mixed = history.mixed
    BY <1>10 DEF Reads, Aside, SameFrames, SameHistory, InUse
  <2> SUFFICES ASSUME ~history.mixed PROVE KindInv'
    BY <2>2 DEF KindInv
  <2>3. \A f \in InUse : AllOf(f) /\ \A g \in InUse : SameKind(f, g)
    BY DEF KindInv
  <2>4. ASSUME NEW f \in InUse PROVE AllOfIn(f, Flight', win')
    <3>1. AllOf(f)
      BY <2>3, <2>4
    <3>2. /\ Len(Flight') = Len(Flight)
          /\ \A i \in 1 .. Len(Flight) : Flight'[i] = Flight[i]
          /\ m = Flight[Len(win.queue) + 1]
          /\ Len(win.queue) + 1 \in 1 .. Len(Flight)
          /\ m \in Message /\ m = Data[1] /\ Len(Data) >= 1
      BY <2>1 DEF Received
    <3>3. /\ m.compress = "YUV" <=> f.compress = "YUV"
          /\ m.type = "tile" => (m.stereo <=> HasRight(f))
          /\ m.type \in {"tile", "eof"}
      BY <3>1, <3>2, MessageFacts DEF AllOf, AllOfIn
    <3>4. ~win.open => m.type = "tile"
      BY <3>2 DEF OpenInv
    <3>5. /\ IsTile(m) \/ (m.type = "tile" /\ ~win.open) =>
                (win'.stereo <=> m.stereo /\ win.canGL)
          /\ m.compress = "YUV" /\ win.open => win'.stereo = win.stereo
          /\ IsEOF(m) /\ m.compress # "YUV" /\ win.open =>
                (win'.stereo <=> win.stereo \/ (win.right[win.cfindex] /\ win.canGL))
          /\ win'.canGL = win.canGL
      BY <2>1 DEF Received
    <3>6. win.cfindex \in {0, 1} /\ win.right \in [{0, 1} -> BOOLEAN]
      BY DEF WinType
    <3>7. win'.stereo <=> HasRight(f) /\ win'.canGL
      <4>1. CASE ~win.open
        BY <3>3, <3>4, <3>5, <4>1
      <4>2. CASE win.open
        <5>1. /\ win.stereo <=> HasRight(f) /\ win.canGL
              /\ win.right[win.cfindex] => HasRight(f)
          BY <3>1, <3>6, <4>2 DEF AllOf, AllOfIn
        <5> QED
          BY <3>3, <3>5, <4>2, <5>1 DEF IsTile, IsEOF
      <4> QED
        BY <4>1, <4>2
    <3>8. \A k \in {0, 1} : win'.right[k] => HasRight(f)
      <4>1. win'.right = IF IsTile(m)
                         THEN [win.right EXCEPT ![win.cfindex] = m.stereo]
                         ELSE win.right
        BY <2>1 DEF Received
      <4>2. \A k \in {0, 1} : win.right[k] => HasRight(f)
        BY <3>1 DEF AllOf, AllOfIn
      <4>3. IsTile(m) => (m.stereo <=> HasRight(f))
        BY <3>3 DEF IsTile
      <4>4. CASE IsTile(m)
        <5>1. \A k \in {0, 1} : win'.right[k] = IF k = win.cfindex THEN m.stereo
                                                ELSE win.right[k]
          BY <3>6, <4>1, <4>4
        <5> QED
          BY <4>2, <4>3, <4>4, <5>1
      <4>5. CASE ~IsTile(m)
        BY <4>1, <4>2, <4>5
      <4> QED
        BY <4>4, <4>5
    <3>9. \A i \in 1 .. Len(Flight') :
             /\ Flight'[i].compress = "YUV" <=> f.compress = "YUV"
             /\ Flight'[i].type = "tile" => (Flight'[i].stereo <=> HasRight(f))
      BY <3>1, <3>2 DEF AllOf, AllOfIn
    <3> QED
      BY <3>7, <3>8, <3>9 DEF AllOf, AllOfIn, HasRight
  <2> QED
    BY <2>2, <2>3, <2>4 DEF KindInv, AllOf, SameKind, HasRight
<1>11. CASE Draws
  <2>1. PICK m : Drawn(m)
    BY <1>11 DEF Draws
  <2>2. InUse' = InUse /\ history'.mixed = history.mixed
    BY <1>11 DEF Draws, Aside, SameFrames, SameHistory, InUse
  <2> SUFFICES ASSUME ~history.mixed PROVE KindInv'
    BY <2>2 DEF KindInv
  <2>3. \A f \in InUse : AllOf(f) /\ \A g \in InUse : SameKind(f, g)
    BY DEF KindInv
  <2>4. /\ Len(Flight') = Len(Flight) - 1
        /\ \A i \in 1 .. Len(Flight') : Flight'[i] = Flight[i + 1]
        /\ win'.open = win.open /\ win'.stereo = win.stereo
        /\ win'.canGL = win.canGL /\ win'.right = win.right
    BY <2>1 DEF Drawn
  <2>5. \A i \in 1 .. Len(Flight') :
           i + 1 \in 1 .. Len(Flight) /\ Flight'[i] = Flight[i + 1]
    BY <1>0, <2>4
  <2>6. ASSUME NEW f \in InUse PROVE AllOfIn(f, Flight', win')
    <3>1. AllOf(f)
      BY <2>3, <2>6
    <3>2. \A i \in 1 .. Len(Flight') :
             /\ Flight'[i].compress = "YUV" <=> f.compress = "YUV"
             /\ Flight'[i].type = "tile" => (Flight'[i].stereo <=> HasRight(f))
      BY <2>5, <3>1 DEF AllOf, AllOfIn
    <3> QED
      BY <2>4, <3>1, <3>2 DEF AllOf, AllOfIn, HasRight
  <2> QED
    BY <2>2, <2>3, <2>6 DEF KindInv, AllOf, SameKind, HasRight
<1> QED
  BY <1>1, <1>2, <1>3, <1>4, <1>5, <1>6, <1>7, <1>8, <1>9, <1>10, <1>11 DEF AnyStep

(* Every tile of every frame is sent, and tiles have one size.               *)
Steady == ~history.torn /\ ~history.retiled /\ ~config.interframe

(* What FrameShown leaves: no frame is cut in two ways, and if frames of two *)
(* kinds follow one another, all their tiles are sent.                       *)
Regular == ~history.torn /\ (~history.mixed \/ Steady)

(* The first Compressor has sent its tiles of this frame.                    *)
TileSent == server.at = "eof" \/ (server.at = "compress" /\ server.rank = 1)

(* Where a frame is one tile, images are read into slot 0 and ends of frame  *)
(* into slot 1, which never has a right eye.                                 *)
OneTile ==
    /\ ~win.right[1]
    /\ \A k \in 1 .. Len(Data) :
          Data[k].type = IF (win.cfindex + k) % 2 = 1 THEN "tile" ELSE "eof"
    /\ server.at # "failed" =>
          ((win.cfindex + Len(Data)) % 2 = 1 <=> TileSent)

(* The image k messages before those that are to be read had, or has, a      *)
(* right eye if b says so: it is on its way, it was the last one read and    *)
(* has set the window's stereo, or it is the one before, whose slot is the   *)
(* next.                                                                     *)
HeadedIn(k, b, d, w) ==
    IF k > 0 THEN IsTile(d[k]) /\ (d[k].stereo <=> b)
    ELSE IF k = 0
    THEN /\ w.open /\ (w.right[1 - w.cfindex] <=> b)
         /\ w.stereo <=> b /\ w.canGL
    ELSE w.right[w.cfindex] <=> b

(* The same, of the messages for the window                                  *)
Headed(k, b) == HeadedIn(k, b, Data, win)

(* Where a frame has more tiles, two images of its own come before its end,  *)
(* so the slot that the end is read into held one of the same frame.         *)
MoreTiles ==
    /\ \A k \in 1 .. Len(Data) : IsEOF(Data[k]) /\ Data[k].compress # "YUV" =>
          \E b \in BOOLEAN : Headed(k - 1, b) /\ Headed(k - 2, b)
    /\ server.at = "eof" /\ frame.compress # "YUV" =>
          Headed(Len(Data), HasRight(frame)) /\ Headed(Len(Data) - 1, HasRight(frame))
    /\ server.at = "compress" /\ server.rank = 1 =>
          Headed(Len(Data), HasRight(frame))

(* One of the two is the case.                                               *)
SteadyInv == Steady => IF Count = 1 THEN OneTile ELSE MoreTiles

(* What is steady after a step was so before it, with as many tiles.         *)
LEMMA SteadyBefore ==
    ASSUME AnyStep, Steady'
    PROVE  Steady /\ Count' = Count /\ SameConfig
<1>1. CASE Retiles
  BY <1>1 DEF Retiles, Steady
<1>2. CASE ~Retiles
  <2>1. SameConfig
    BY <1>2 DEF AnyStep, Aside, Renders, Starts, Negotiates, Fails, Compresses,
                Ends, IsAnswered, Reads, Draws
  <2>2. (history'.torn = history.torn /\ history'.retiled = history.retiled)
    BY <1>2 DEF AnyStep, Aside, Renders, Starts, Negotiates, Fails, Compresses,
                Ends, IsAnswered, Reads, Draws, SameHistory
  <2> QED
    BY <2>1, <2>2 DEF SameConfig, Steady, Count
<1> QED
  BY <1>1, <1>2

(* The number of messages of one Compressor, while all tiles are sent.       *)
LEMMA SentInSteps ==
    ASSUME SessionInv, WinType, Steady, NEW s, Sends(s, server.rank),
           server.rank \in {0, 1}
    PROVE  /\ Len(s) \in Nat
           /\ frame.compress = "YUV" => Len(s) = 1
           /\ frame.compress # "YUV" /\ Count = 1 => Len(s) = 1 - server.rank
           /\ frame.compress # "YUV" /\ Count # 1 => Len(s) >= 1
  BY LenProperties DEF Sends, Steady

(* Every step preserves OneTile, but a change of the tile size.              *)
LEMMA OneTileStep ==
    ASSUME SessionInv, WinType, WinType', ControlInv, Steady, OneTile, Count = 1,
           AnyStep, ~Retiles
    PROVE  OneTile'
<1>0. /\ Len(Data) \in Nat /\ win.cfindex \in {0, 1}
      /\ win.right \in [{0, 1} -> BOOLEAN]
  BY Lengths DEF WinType
<1>a. ASSUME Quiet, server'.at # "failed" => (TileSent' <=> TileSent),
             server.at = "failed" => server'.at = "failed"
      PROVE  OneTile'
  BY <1>a, QuietLengths DEF OneTile
<1>1. CASE Quiet /\ Aside
  BY <1>1, <1>a DEF Aside, TileSent
<1>3. CASE Renders
  BY <1>3, <1>a DEF Renders, TileSent
<1>4. CASE Starts
  BY <1>4, <1>a DEF Starts, TileSent
<1>5. CASE Negotiates
  BY <1>5, <1>a DEF Negotiates, TileSent, ControlInv
<1>6. CASE Fails
  BY <1>6, <1>a DEF Fails
<1>9. CASE IsAnswered
  BY <1>9, <1>a DEF IsAnswered, TileSent
<1>7. CASE Compresses
  <2>1. PICK s : Sends(s, server.rank) /\ Added(s)
    BY <1>7 DEF Compresses
  <2>2. /\ server.at = "compress" /\ server.rank \in {0, 1} /\ TileSent'
        /\ server'.at # "failed"
    BY <1>7 DEF Compresses, TileSent
  <2>3. /\ Len(s) = 1 - server.rank
        /\ \A k \in 1 .. Len(s) : s[k].type = "tile"
    <3>1. frame.compress = "YUV" => server.rank = 0
      BY <2>2 DEF ControlInv
    <3>2. \A k \in 1 .. Len(s) : s[k].type = "tile"
      BY <2>1 DEF Sends, OfFrame
    <3> QED
      BY <2>1, <2>2, <3>1, <3>2, SentInSteps
  <2>4. /\ Len(Data') = Len(Data) + Len(s) /\ win' = win
        /\ \A k \in 1 .. Len(Data) : Data'[k] = Data[k]
        /\ \A k \in 1 .. Len(s) : Data'[Len(Data) + k] = s[k]
    BY <2>1 DEF Added
  <2>5. (win.cfindex + Len(Data)) % 2 = 1 <=> server.rank = 1
    BY <2>2 DEF OneTile, TileSent
  <2>6. CASE server.rank = 1
    <3>1. Len(Data') = Len(Data)
      BY <1>0, <2>3, <2>4, <2>6
    <3> QED
      BY <2>2, <2>4, <2>5, <2>6, <3>1 DEF OneTile
  <2>7. CASE server.rank = 0
    <3>1. Len(Data') = Len(Data) + 1 /\ Data'[Len(Data) + 1].type = "tile"
      <4>1. 1 \in 1 .. Len(s) /\ Len(s) = 1
        BY <2>3, <2>7
      <4> QED
        BY <2>3, <2>4, <4>1
    <3> HIDE DEF Data
    <3>2. (win.cfindex + (Len(Data) + 1)) % 2 = 1
      BY <1>0, <2>5, <2>7
    <3>3. \A k \in 1 .. Len(Data') : k \in 1 .. Len(Data) \/ k = Len(Data) + 1
      BY <1>0, <3>1
    <3>4. \A k \in 1 .. Len(Data') :
             Data'[k].type = IF (win.cfindex + k) % 2 = 1 THEN "tile" ELSE "eof"
      BY <2>4, <3>1, <3>2, <3>3 DEF OneTile
    <3> QED
      BY <2>2, <2>4, <3>1, <3>2, <3>4 DEF OneTile
  <2> QED
    BY <2>2, <2>6, <2>7
<1>8. CASE Ends
  <2> DEFINE e == EndOf(frame)
  <2>1. /\ Added(<<e>>) /\ server.at = "eof" /\ ~TileSent' /\ e.type = "eof"
    BY <1>8 DEF Ends, TileSent, EndOf
  <2> HIDE DEF e
  <2>2. /\ Len(Data') = Len(Data) + 1 /\ win' = win
        /\ \A k \in 1 .. Len(Data) : Data'[k] = Data[k]
        /\ Data'[Len(Data) + 1] = e
    BY <2>1 DEF Added
  <2>3. (win.cfindex + Len(Data)) % 2 = 1
    BY <2>1 DEF OneTile, TileSent
  <2>4. (win.cfindex + (Len(Data) + 1)) % 2 # 1
    BY <1>0, <2>3
  <2>5. \A k \in 1 .. Len(Data') : k \in 1 .. Len(Data) \/ k = Len(Data) + 1
    BY <1>0, <2>2
  <2>6. \A k \in 1 .. Len(Data') :
           Data'[k].type = IF (win.cfindex + k) % 2 = 1 THEN "tile" ELSE "eof"
    BY <2>1, <2>2, <2>4, <2>5 DEF OneTile
  <2> QED
    BY <2>1, <2>2, <2>4, <2>6 DEF OneTile
<1>10. CASE Reads
  <2>1. PICK m : Received(m)
    BY <1>10 DEF Reads
  <2>2. /\ m = Data[1] /\ Len(Data) >= 1 /\ Len(Data') = Len(Data) - 1
        /\ \A k \in 1 .. Len(Data') : Data'[k] = Data[k + 1]
        /\ win'.cfindex = 1 - win.cfindex
        /\ win'.right = IF IsTile(m)
                        THEN [win.right EXCEPT ![win.cfindex] = m.stereo]
                        ELSE win.right
    BY <2>1 DEF Received
  <2>3. server' = server /\ TileSent' = TileSent
    BY <1>10 DEF Reads, Aside, TileSent
  <2>4. ~win'.right[1]
    <3>1. CASE win.cfindex = 0
      BY <1>0, <2>2, <3>1 DEF OneTile
    <3>2. CASE win.cfindex = 1
      <4>1. 1 \in 1 .. Len(Data) /\ (win.cfindex + 1) % 2 # 1
        BY <1>0, <2>2, <3>2
      <4>2. m.type = "eof"
        BY <2>2, <4>1 DEF OneTile
      <4> QED
        BY <2>2, <4>2 DEF OneTile, IsTile
    <3> QED
      BY <1>0, <3>1, <3>2
  <2>5. ASSUME NEW k \in 1 .. Len(Data')
        PROVE  Data'[k].type = IF (win'.cfindex + k) % 2 = 1 THEN "tile" ELSE "eof"
    <3>1. k + 1 \in 1 .. Len(Data) /\ Data'[k] = Data[k + 1] /\ k \in Nat
      BY <1>0, <2>2
    <3>2. (win'.cfindex + k) % 2 = (win.cfindex + (k + 1)) % 2
      BY <1>0, <2>2, <3>1
    <3> QED
      BY <3>1, <3>2 DEF OneTile
  <2>6. (win'.cfindex + Len(Data')) % 2 = (win.cfindex + Len(Data)) % 2
    BY <1>0, <2>2
  <2> QED
    BY <2>3, <2>4, <2>5, <2>6 DEF OneTile
<1>11. CASE Draws
  <2>1. PICK m : Drawn(m)
    BY <1>11 DEF Draws
  <2>2. /\ Data' = Data /\ win'.cfindex = win.cfindex /\ win'.right = win.right
    BY <2>1 DEF Drawn
  <2>3. server' = server /\ TileSent' = TileSent
    BY <1>11 DEF Draws, Aside, TileSent
  <2> QED
    BY <2>2, <2>3 DEF OneTile
<1> QED
  BY <1>1, <1>3, <1>4, <1>5, <1>6, <1>7, <1>8, <1>9, <1>10, <1>11 DEF AnyStep

(* Every step preserves MoreTiles, but a change of the tile size.            *)
LEMMA MoreTilesStep ==
    ASSUME SessionInv, WinType, WinType', ControlInv, Steady, MoreTiles, Count # 1,
           AnyStep, ~Retiles
    PROVE  MoreTiles'
<1>0. /\ Len(Data) \in Nat /\ win.cfindex \in {0, 1}
      /\ win.right \in [{0, 1} -> BOOLEAN]
  BY Lengths DEF WinType
<1>a. ASSUME Quiet, server'.at # "eof",
             ~(server'.at = "compress" /\ server'.rank = 1)
      PROVE  MoreTiles'
  <2>1. Data' = Data /\ win' = win
    BY <1>a DEF Quiet
  <2> QED
    BY <1>a, <2>1 DEF MoreTiles, Headed
<1>1. CASE Quiet /\ Aside
  <2>1. Data' = Data /\ win' = win /\ server' = server /\ frame' = frame
    BY <1>1 DEF Quiet, Aside, SameFrames
  <2> QED
    BY <2>1 DEF MoreTiles, Headed
<1>3. CASE Renders
  BY <1>3, <1>a DEF Renders
<1>4. CASE Starts
  BY <1>4, <1>a DEF Starts
<1>5. CASE Negotiates
  BY <1>5, <1>a DEF Negotiates, ControlInv
<1>6. CASE Fails
  BY <1>6, <1>a DEF Fails
<1>9. CASE IsAnswered
  BY <1>9, <1>a DEF IsAnswered
<1>b. ASSUME NEW s, Added(s), NEW k \in Int, k <= Len(Data), NEW b, Headed(k, b)
      PROVE  HeadedIn(k, b, Data', win')
  <2>1. win' = win /\ \A i \in 1 .. Len(Data) : Data'[i] = Data[i]
    BY <1>b DEF Added
  <2>2. k > 0 => k \in 1 .. Len(Data)
    BY <1>0, <1>b
  <2> QED
    BY <1>b, <2>1, <2>2 DEF Headed, HeadedIn
<1>7. CASE Compresses
  <2> DEFINE b == HasRight(frame)
  <2>1. PICK s : Sends(s, server.rank) /\ Added(s)
    BY <1>7 DEF Compresses
  <2>2. /\ server.at = "compress" /\ server.rank \in {0, 1} /\ frame' = frame
        /\ IF frame.compress = "YUV" \/ server.rank = 1 THEN server'.at = "eof"
           ELSE server'.at = "compress" /\ server'.rank = 1
    BY <1>7 DEF Compresses, SameFrames
  <2>3. \A k \in 1 .. Len(s) :
           /\ s[k].type = "tile" /\ s[k].compress = frame.compress
           /\ s[k].stereo <=> b
    BY <2>1 DEF Sends, OfFrame
  <2>4. /\ Len(s) \in Nat /\ Len(Data') = Len(Data) + Len(s)
        /\ \A k \in 1 .. Len(Data) : Data'[k] = Data[k]
        /\ \A k \in 1 .. Len(s) : Data'[Len(Data) + k] = s[k]
    BY <2>1, LenProperties DEF Added
  <2> HIDE DEF b
  <2>5. ASSUME NEW k \in 1 .. Len(Data'), IsEOF(Data'[k])
        PROVE  k \in 1 .. Len(Data) /\ Data'[k] = Data[k]
    <3>1. CASE k \in 1 .. Len(Data)
      BY <2>4, <3>1
    <3>2. CASE k \notin 1 .. Len(Data)
      <4> DEFINE j == k - Len(Data)
      <4>1. j \in 1 .. Len(s) /\ k = Len(Data) + j
        BY <1>0, <2>4, <3>2
      <4> HIDE DEF j
      <4>2. Data'[k].type = "tile"
        BY <2>3, <2>4, <4>1
      <4> QED
        BY <2>5, <4>2 DEF IsEOF
    <3> QED
      BY <3>1, <3>2
  <2>6. ASSUME NEW k \in 1 .. Len(Data'), IsEOF(Data'[k]), Data'[k].compress # "YUV"
        PROVE  \E e \in BOOLEAN : /\ HeadedIn(k - 1, e, Data', win')
                                  /\ HeadedIn(k - 2, e, Data', win')
    <3>1. k \in 1 .. Len(Data) /\ Data'[k] = Data[k]
      BY <2>5, <2>6
    <3>2. PICK e \in BOOLEAN : Headed(k - 1, e) /\ Headed(k - 2, e)
      BY <2>6, <3>1 DEF MoreTiles
    <3>3. /\ k - 1 \in Int /\ k - 1 <= Len(Data)
          /\ k - 2 \in Int /\ k - 2 <= Len(Data)
      BY <1>0, <3>1
    <3> QED
      BY <1>b, <2>1, <3>2, <3>3
  <2>7. ASSUME frame.compress # "YUV"
        PROVE  HeadedIn(Len(Data'), b, Data', win')
    <3>1. Len(s) >= 1
      BY <2>1, <2>2, <2>7, SentInSteps
    <3>2. /\ Len(s) \in 1 .. Len(s) /\ Len(Data') > 0
          /\ Data'[Len(Data')] = s[Len(s)]
      BY <1>0, <2>4, <3>1
    <3> QED
      BY <2>3, <2>7, <3>2 DEF HeadedIn, IsTile
  <2>8. ASSUME frame.compress # "YUV", server'.at = "eof"
        PROVE  HeadedIn(Len(Data') - 1, b, Data', win')
    <3>1. server.rank = 1 /\ Len(s) >= 1
      BY <2>1, <2>2, <2>8, SentInSteps
    <3>2. CASE Len(s) = 1
      <4>1. Headed(Len(Data), b)
        BY <2>2, <3>1 DEF MoreTiles, b
      <4>2. Len(Data') - 1 = Len(Data) /\ Len(Data) \in Int /\ Len(Data) <= Len(Data)
        BY <1>0, <2>4, <3>2
      <4> QED
        BY <1>b, <2>1, <4>1, <4>2
    <3>3. CASE Len(s) # 1
      <4>3. PICK j \in Nat : j = Len(s) - 1
        BY <2>4, <3>1
      <4>1. /\ j \in 1 .. Len(s) /\ Len(Data') - 1 = Len(Data) + j
            /\ Len(Data) + j > 0
        BY <1>0, <2>4, <3>1, <3>3, <4>3
      <4>2. Data'[Len(Data') - 1] = s[j]
        BY <2>4, <4>1
      <4> QED
        BY <2>3, <2>8, <4>1, <4>2 DEF HeadedIn, IsTile
    <3> QED
      BY <3>2, <3>3
  <2>9. server'.at = "compress" => frame.compress # "YUV"
    BY <2>2
  <2> QED
    BY <2>2, <2>6, <2>7, <2>8, <2>9 DEF MoreTiles, Headed, b, HasRight
<1>8. CASE Ends
  <2> DEFINE e == EndOf(frame)
             b == HasRight(frame)
  <2>1. /\ Added(<<e>>) /\ server.at = "eof" /\ server'.at \in {"idle", "cts"}
        /\ e.compress = frame.compress
    BY <1>8 DEF Ends, EndOf
  <2> HIDE DEF e
  <2>2. /\ Len(Data') = Len(Data) + 1
        /\ \A k \in 1 .. Len(Data) : Data'[k] = Data[k]
        /\ Data'[Len(Data) + 1] = e
    BY <2>1 DEF Added
  <2>3. b \in BOOLEAN
    BY DEF HasRight
  <2> HIDE DEF b
  <2>4. ASSUME NEW k \in 1 .. Len(Data'), IsEOF(Data'[k]), Data'[k].compress # "YUV"
        PROVE  \E x \in BOOLEAN : Headed(k - 1, x) /\ Headed(k - 2, x)
    <3>1. CASE k \in 1 .. Len(Data)
      BY <2>2, <2>4, <3>1 DEF MoreTiles
    <3>2. CASE k \notin 1 .. Len(Data)
      <4>1. k = Len(Data) + 1
        BY <1>0, <2>2, <3>2
      <4>2. k - 1 = Len(Data) /\ k - 2 = Len(Data) - 1 /\ frame.compress # "YUV"
        BY <1>0, <2>1, <2>2, <2>4, <4>1
      <4>3. Headed(Len(Data), b) /\ Headed(Len(Data) - 1, b)
        BY <2>1, <4>2 DEF MoreTiles, b
      <4> QED
        BY <2>3, <4>2, <4>3
    <3> QED
      BY <3>1, <3>2
  <2>5. ASSUME NEW k \in 1 .. Len(Data'), IsEOF(Data'[k]), Data'[k].compress # "YUV"
        PROVE  \E x \in BOOLEAN : /\ HeadedIn(k - 1, x, Data', win')
                                  /\ HeadedIn(k - 2, x, Data', win')
    <3>1. PICK x \in BOOLEAN : Headed(k - 1, x) /\ Headed(k - 2, x)
      BY <2>4, <2>5
    <3>2. /\ k - 1 \in Int /\ k - 1 <= Len(Data)
          /\ k - 2 \in Int /\ k - 2 <= Len(Data)
      BY <1>0, <2>2
    <3> QED
      BY <1>b, <2>1, <3>1, <3>2
  <2> QED
    BY <2>1, <2>5 DEF MoreTiles, Headed
<1>10. CASE Reads
  <2>1. PICK m : Received(m)
    BY <1>10 DEF Reads
  <2>2. /\ m = Data[1] /\ Len(Data) >= 1 /\ Len(Data') = Len(Data) - 1
        /\ \A k \in 1 .. Len(Data') : Data'[k] = Data[k + 1]
        /\ win'.cfindex = 1 - win.cfindex /\ win'.open /\ win'.canGL = win.canGL
        /\ win'.right = IF IsTile(m)
                        THEN [win.right EXCEPT ![win.cfindex] = m.stereo]
                        ELSE win.right
        /\ IsTile(m) => (win'.stereo <=> m.stereo /\ win.canGL)
    BY <2>1 DEF Received
  <2>3. server' = server /\ frame' = frame
    BY <1>10 DEF Reads, Aside, SameFrames
  <2>4. ASSUME NEW k \in Int, k >= -1, k <= Len(Data'), NEW b, Headed(k + 1, b)
        PROVE  HeadedIn(k, b, Data', win')
    <3>1. CASE k > 0
      <4>1. k \in 1 .. Len(Data') /\ k + 1 > 0
        BY <1>0, <2>2, <2>4, <3>1
      <4> QED
        BY <2>2, <2>4, <3>1, <4>1 DEF Headed, HeadedIn
    <3>2. CASE k = 0
      <4>1. IsTile(m) /\ (m.stereo <=> b)
        BY <2>2, <2>4, <3>2 DEF Headed, HeadedIn
      <4>2. win'.right[win.cfindex] = m.stereo /\ 1 - win'.cfindex = win.cfindex
        BY <1>0, <2>2, <4>1
      <4> QED
        BY <2>2, <3>2, <4>1, <4>2 DEF HeadedIn
    <3>3. CASE k = -1
      <4>1. win.right[1 - win.cfindex] <=> b
        BY <2>4, <3>3 DEF Headed, HeadedIn
      <4>2. win'.right[1 - win.cfindex] = win.right[1 - win.cfindex]
        BY <1>0, <2>2
      <4> QED
        BY <2>2, <3>3, <4>1, <4>2 DEF HeadedIn
    <3> QED
      BY <2>4, <3>1, <3>2, <3>3
  <2>5. ASSUME NEW k \in 1 .. Len(Data'), IsEOF(Data'[k]), Data'[k].compress # "YUV"
        PROVE  \E b \in BOOLEAN : /\ HeadedIn(k - 1, b, Data', win')
                                  /\ HeadedIn(k - 2, b, Data', win')
    <3>1. k + 1 \in 1 .. Len(Data) /\ Data'[k] = Data[k + 1]
      BY <1>0, <2>2
    <3>2. PICK b \in BOOLEAN : Headed((k + 1) - 1, b) /\ Headed((k + 1) - 2, b)
      BY <2>5, <3>1 DEF MoreTiles
    <3>3. /\ (k + 1) - 1 = (k - 1) + 1 /\ (k + 1) - 2 = (k - 2) + 1
          /\ k - 1 \in Int /\ k - 1 >= -1 /\ k - 1 <= Len(Data')
          /\ k - 2 \in Int /\ k - 2 >= -1 /\ k - 2 <= Len(Data')
      BY <1>0, <2>2
    <3> QED
      BY <2>4, <3>2, <3>3
  <2>6. /\ Len(Data') \in Int /\ Len(Data') >= -1 /\ Len(Data') <= Len(Data')
        /\ Len(Data') - 1 \in Int /\ Len(Data') - 1 >= -1
        /\ Len(Data') - 1 <= Len(Data')
        /\ Len(Data') + 1 = Len(Data) /\ (Len(Data') - 1) + 1 = Len(Data) - 1
    BY <1>0, <2>2
  <2>7. \A b : /\ Headed(Len(Data), b) => HeadedIn(Len(Data'), b, Data', win')
               /\ Headed(Len(Data) - 1, b) =>
                     HeadedIn(Len(Data') - 1, b, Data', win')
    BY <2>4, <2>6
  <2> QED
    BY <2>3, <2>5, <2>7 DEF MoreTiles, Headed, HasRight
<1>11. CASE Draws
  <2>1. PICK m : Drawn(m)
    BY <1>11 DEF Draws
  <2>2. /\ Data' = Data /\ win'.cfindex = win.cfindex /\ win'.right = win.right
        /\ win'.open = win.open /\ win'.stereo = win.stereo
        /\ win'.canGL = win.canGL
    BY <2>1 DEF Drawn
  <2>3. server' = server /\ frame' = frame
    BY <1>11 DEF Draws, Aside, SameFrames
  <2>4. \A k, b : HeadedIn(k, b, Data', win') <=> Headed(k, b)
    BY <2>2 DEF Headed, HeadedIn
  <2> QED
    BY <2>2, <2>3, <2>4 DEF MoreTiles, Headed, HasRight
<1> QED
  BY <1>1, <1>3, <1>4, <1>5, <1>6, <1>7, <1>8, <1>9, <1>10, <1>11 DEF AnyStep

(* Every step preserves SteadyInv.                                           *)
LEMMA SteadyStep ==
    ASSUME SessionInv, WinType, WinType', ControlInv, SteadyInv, AnyStep
    PROVE  SteadyInv'
<1> SUFFICES ASSUME Steady' PROVE IF Count' = 1 THEN OneTile' ELSE MoreTiles'
  BY DEF SteadyInv
<1>1. Steady /\ Count' = Count
  BY SteadyBefore
<1>2. ~Retiles
  BY DEF Retiles, Steady
<1> QED
  BY <1>1, <1>2, OneTileStep, MoreTilesStep DEF SteadyInv

(* The end of a frame never makes a regular window switch to stereo: the     *)
(* right eye that its slot still has is the one the window shows.            *)
LEMMA EndKeepsStereo ==
    ASSUME SessionInv, WinType, OpenInv, KindInv, SteadyInv, Regular,
           Len(Data) >= 1, IsEOF(Data[1]), Data[1].compress # "YUV", win.open,
           win.right[win.cfindex], win.canGL
    PROVE  win.stereo
<1>0. Len(Data) \in Nat /\ win.cfindex \in {0, 1} /\ 1 \in 1 .. Len(Data)
  BY Lengths DEF WinType
<1>1. CASE Steady /\ Count = 1
  <2>1. (win.cfindex + 1) % 2 # 1
    BY <1>0, <1>1 DEF SteadyInv, OneTile, IsEOF
  <2>2. win.cfindex = 1
    BY <1>0, <2>1
  <2> QED
    BY <1>1, <2>2 DEF SteadyInv, OneTile
<1>2. CASE Steady /\ Count # 1
  <2>1. PICK b \in BOOLEAN : Headed(1 - 1, b) /\ Headed(1 - 2, b)
    BY <1>0, <1>2 DEF SteadyInv, MoreTiles
  <2>2. /\ win.stereo <=> b /\ win.canGL
        /\ win.right[win.cfindex] <=> b
    BY <2>1 DEF Headed, HeadedIn
  <2> QED
    BY <2>2
<1>3. CASE ~Steady
  <2>1. ~history.mixed
    BY <1>3 DEF Regular
  <2>2. PICK f \in InUse : TRUE
    <3>1. CASE server.at \in {"idle", "cts"}
      <4>1. lastf # None
        BY <1>0, <3>1 DEF OpenInv, Begun
      <4> QED
        BY <4>1 DEF InUse
    <3>2. CASE server.at \notin {"idle", "cts"}
      BY <3>2 DEF InUse
    <3> QED
      BY <3>1, <3>2
  <2>3. AllOf(f)
    BY <2>1, <2>2 DEF KindInv
  <2> QED
    BY <1>0, <2>3 DEF AllOf, AllOfIn
<1> QED
  BY <1>1, <1>2, <1>3

(* The image m has the frame's value for pixel p.                            *)
Says(m, p, f) == m.l[p] = f.l[p] /\ (HasRight(f) => m.r[p] = f.r[p])

(* The image m does not say anything else of it, nor of the eyes.            *)
Fits(m, p, f) ==
    IsTile(m) => (m.stereo <=> HasRight(f)) /\ (p \in m.px => Says(m, p, f))

(* The window has the frame's eyes, as far as OpenGL works.                  *)
Eyed(w, f) == w.open /\ (w.stereo <=> HasRight(f) /\ w.canGL)

(* The buffer has the frame's value for pixel p.                             *)
Holds(w, p, f) ==
    /\ w.fb.l[p] = f.l[p]
    /\ HasRight(f) /\ w.canGL => w.fb.stereo /\ w.fb.r[p] = f.r[p]

(* Message i says the pixel, or the buffer holds it for i = 0, and nothing   *)
(* that comes later says otherwise; if it has been read, the window has the  *)
(* eyes for it.                                                              *)
SaidAt(i, p, f, d, w) ==
    /\ \A j \in 1 .. Len(d) : i < j => Fits(d[j], p, f)
    /\ i > 0 => IsTile(d[i]) /\ p \in d[i].px /\ Fits(d[i], p, f)
    /\ i <= Len(w.queue) => Eyed(w, f)
    /\ i = 0 => Holds(w, p, f)

(* The pixel of the frame is said somewhere on the way.                      *)
SaidIn(p, f, d, w) == \E i \in 0 .. Len(d) : SaidAt(i, p, f, d, w)

(* The frame that the window is owed a pixel of: the one being sent once the *)
(* pixel's Compressor is through, the last one until then, as far as frames  *)
(* are of one kind.                                                          *)
Due(p) ==
    IF server.at \in {"idle", "cts"} THEN lastf
    ELSE IF server.at = "eof" THEN frame
    ELSE IF server.at = "failed" THEN None
    ELSE IF server.at = "compress" /\ server.rank = 1 /\ p \in RankArea(0)
    THEN frame
    ELSE IF history.mixed THEN None ELSE lastf

(* What the window is owed is on its way or there.                           *)
SaidInv ==
    Regular =>
        \A p \in Pixels : Due(p) # None /\ Due(p).compress # "YUV" =>
            SaidIn(p, Due(p), Flight, win)

(* What is on its way stays so when messages that fit are sent after it.     *)
LEMMA SaidCarried ==
    ASSUME WinType, NEW s, Added(s), NEW p, NEW f, SaidIn(p, f, Flight, win),
           \A k \in 1 .. Len(s) : Fits(s[k], p, f)
    PROVE  SaidIn(p, f, Flight', win')
<1>1. /\ Len(s) \in Nat /\ Len(Flight') = Len(Flight) + Len(s) /\ win' = win
      /\ \A i \in 1 .. Len(Flight) : Flight'[i] = Flight[i]
      /\ \A k \in 1 .. Len(s) : Flight'[Len(Flight) + k] = s[k]
      /\ Len(Flight) \in Nat
  BY Lengths, LenProperties DEF Added
<1>2. PICK i \in 0 .. Len(Flight) : SaidAt(i, p, f, Flight, win)
  BY DEF SaidIn
<1>3. i \in 0 .. Len(Flight')
  BY <1>1, <1>2
<1>4. ASSUME NEW j \in 1 .. Len(Flight'), i < j
      PROVE  Fits(Flight'[j], p, f)
  <2>1. CASE j \in 1 .. Len(Flight)
    BY <1>1, <1>2, <1>4, <2>1 DEF SaidAt
  <2>2. CASE j \notin 1 .. Len(Flight)
    <3>1. PICK k \in 1 .. Len(s) : j = Len(Flight) + k
      <4>1. j - Len(Flight) \in 1 .. Len(s)
        BY <1>1, <1>4, <2>2
      <4>2. j = Len(Flight) + (j - Len(Flight))
        BY <1>1, <1>4
      <4> QED
        BY <4>1, <4>2
    <3> QED
      BY <1>1, <3>1
  <2> QED
    BY <2>1, <2>2
<1>5. i > 0 => i \in 1 .. Len(Flight)
  BY <1>1, <1>2
<1>6. i > 0 => IsTile(Flight'[i]) /\ p \in Flight'[i].px /\ Fits(Flight'[i], p, f)
  BY <1>1, <1>2, <1>5 DEF SaidAt
<1>7. SaidAt(i, p, f, Flight', win')
  BY <1>1, <1>2, <1>4, <1>6 DEF SaidAt
<1> QED
  BY <1>3, <1>7 DEF SaidIn

(* What an image says when it is sent is on its way from then on.            *)
LEMMA SaidNow ==
    ASSUME WinType, NEW s, Added(s), NEW p, NEW f, NEW k \in 1 .. Len(s),
           IsTile(s[k]), p \in s[k].px,
           \A j \in 1 .. Len(s) : Fits(s[j], p, f)
    PROVE  SaidIn(p, f, Flight', win')
<1>1. /\ Len(s) \in Nat /\ Len(Flight') = Len(Flight) + Len(s) /\ win' = win
      /\ \A j \in 1 .. Len(s) : Flight'[Len(Flight) + j] = s[j]
      /\ Len(Flight) \in Nat /\ Len(Flight) = Len(win.queue) + Len(Data)
      /\ Len(win.queue) \in Nat /\ Len(Data) \in Nat
  BY Lengths, LenProperties DEF Added
<1>2. PICK i \in Nat : i = Len(Flight) + k
  BY <1>1
<1>a. Flight'[i] = s[k]
  BY <1>1, <1>2
<1>b. k \in Nat /\ k >= 1 /\ k <= Len(s)
  BY <1>1
<1>c. win'.queue = win.queue
  BY <1>1
<1>3. /\ i \in 0 .. Len(Flight') /\ ~(i <= Len(win'.queue)) /\ i # 0
      /\ Flight'[i] = s[k]
  BY <1>1, <1>2, <1>a, <1>b, <1>c
<1>4. ASSUME NEW j \in 1 .. Len(Flight'), i < j
      PROVE  Fits(Flight'[j], p, f)
  <2>0. j \in Nat /\ j <= Len(Flight) + Len(s)
    BY <1>1, <1>4
  <2>a. Len(Flight) \in Nat /\ Len(s) \in Nat
    BY <1>1
  <2>1. j - Len(Flight) \in 1 .. Len(s) /\ j = Len(Flight) + (j - Len(Flight))
    BY <1>2, <1>4, <1>b, <2>0, <2>a
  <2>2. Flight'[j] = s[j - Len(Flight)]
    BY <1>1, <2>1
  <2> QED
    BY <2>1, <2>2
<1>5. SaidAt(i, p, f, Flight', win')
  BY <1>3, <1>4 DEF SaidAt
<1> QED
  BY <1>3, <1>5 DEF SaidIn

(* What is said for one frame is said for another with the same pixel.       *)
LEMMA SaidAlike ==
    ASSUME NEW p, NEW f, NEW g, SaidIn(p, f, Flight, win),
           HasRight(f) <=> HasRight(g), f.l[p] = g.l[p],
           HasRight(f) => f.r[p] = g.r[p]
    PROVE  SaidIn(p, g, Flight, win)
<1>1. \A m : Fits(m, p, f) => Fits(m, p, g)
  BY DEF Fits, Says
<1>2. Eyed(win, f) => Eyed(win, g)
  BY DEF Eyed
<1>3. Holds(win, p, f) => Holds(win, p, g)
  BY DEF Holds
<1>4. PICK i \in 0 .. Len(Flight) : SaidAt(i, p, f, Flight, win)
  BY DEF SaidIn
<1>5. SaidAt(i, p, g, Flight, win)
  BY <1>1, <1>2, <1>3, <1>4 DEF SaidAt
<1> QED
  BY <1>5 DEF SaidIn

(* Reading an image loses nothing: stereo switches, and with it the buffer,  *)
(* only when no pixel relies on it.                                          *)
LEMMA SaidRead ==
    ASSUME SessionInv, WinType, WinType', OpenInv, KindInv, SteadyInv, Regular,
           NEW m, Received(m), NEW p, NEW f, SaidIn(p, f, Flight, win)
    PROVE  SaidIn(p, f, Flight', win')
<1>1. /\ m = Data[1] /\ Len(Data) >= 1 /\ m \in Message
      /\ m = Flight[Len(win.queue) + 1] /\ Len(win.queue) + 1 \in 1 .. Len(Flight)
      /\ Len(win'.queue) = Len(win.queue) + 1 /\ Len(Flight') = Len(Flight)
      /\ \A i \in 1 .. Len(Flight) : Flight'[i] = Flight[i]
      /\ win'.open /\ win'.canGL = win.canGL
      /\ IsTile(m) => (win'.stereo <=> m.stereo /\ win.canGL)
      /\ m.compress = "YUV" /\ win.open => win'.stereo = win.stereo
      /\ IsEOF(m) /\ m.compress # "YUV" /\ win.open =>
            (win'.stereo <=> win.stereo \/ (win.right[win.cfindex] /\ win.canGL))
      /\ win.open /\ win'.stereo = win.stereo => win'.fb = win.fb
  BY DEF Received
<1>2. /\ Len(Flight) \in Nat /\ Len(win.queue) \in Nat
      /\ win.stereo \in BOOLEAN /\ win'.stereo \in BOOLEAN
  BY Lengths DEF WinType
<1>3. PICK i \in 0 .. Len(Flight) : SaidAt(i, p, f, Flight, win)
  BY DEF SaidIn
<1>4. m.type \in {"tile", "eof"}
  BY <1>1, MessageFacts
<1>5. ASSUME i <= Len(win.queue)
      PROVE  Eyed(win', f) /\ win'.stereo = win.stereo /\ win.open
  <2>1. Eyed(win, f)
    BY <1>3, <1>5 DEF SaidAt
  <2>2. Fits(m, p, f)
    <3>1. i < Len(win.queue) + 1
      BY <1>2, <1>3, <1>5
    <3> QED
      BY <1>1, <1>3, <3>1 DEF SaidAt
  <2>3. CASE IsTile(m)
    BY <1>1, <1>2, <2>1, <2>2, <2>3 DEF Eyed, Fits
  <2>4. CASE m.compress = "YUV"
    BY <1>1, <2>1, <2>4 DEF Eyed
  <2>5. CASE IsEOF(m) /\ m.compress # "YUV"
    <3>1. win.right[win.cfindex] /\ win.canGL => win.stereo
      BY <1>1, <2>1, <2>5, EndKeepsStereo DEF Eyed
    <3>2. win'.stereo = win.stereo
      BY <1>1, <1>2, <2>1, <2>5, <3>1 DEF Eyed
    <3> QED
      BY <1>1, <2>1, <3>2 DEF Eyed
  <2> QED
    BY <1>4, <2>3, <2>4, <2>5 DEF IsTile, IsEOF
<1>6. i = Len(win.queue) + 1 => Eyed(win', f)
  <2> SUFFICES ASSUME i = Len(win.queue) + 1 PROVE Eyed(win', f)
    OBVIOUS
  <2>1. i > 0
    BY <1>2
  <2>2. IsTile(m) /\ Fits(m, p, f)
    BY <1>1, <1>3, <2>1 DEF SaidAt
  <2> QED
    BY <1>1, <2>2 DEF Eyed, Fits
<1>7. i <= Len(win'.queue) => Eyed(win', f)
  <2>1. i <= Len(win'.queue) => i <= Len(win.queue) \/ i = Len(win.queue) + 1
    BY <1>1, <1>2, <1>3
  <2> QED
    BY <1>5, <1>6, <2>1
<1>8. i = 0 => Holds(win', p, f)
  <2> SUFFICES ASSUME i = 0 PROVE Holds(win', p, f)
    OBVIOUS
  <2>1. i <= Len(win.queue)
    BY <1>2
  <2>2. win'.fb = win.fb
    BY <1>1, <1>5, <2>1
  <2> QED
    BY <1>1, <1>3, <2>2 DEF SaidAt, Holds
<1>9. i > 0 => i \in 1 .. Len(Flight)
  BY <1>2, <1>3
<1>10. SaidAt(i, p, f, Flight', win')
  BY <1>1, <1>3, <1>7, <1>8, <1>9 DEF SaidAt
<1> QED
  BY <1>1, <1>3, <1>10 DEF SaidIn

(* The buffer has the pixel after a tile of it was drawn, and keeps it ...   *)
LEMMA HoldsDrawn ==
    ASSUME WinType, BufferOK(win), NEW m, Drawn(m), NEW p \in Pixels, NEW f,
           Eyed(win, f), Fits(m, p, f),
           Holds(win, p, f) \/ (IsTile(m) /\ p \in m.px)
    PROVE  Holds(win', p, f)
<1>1. /\ m \in Message /\ win'.canGL = win.canGL
      /\ m.compress = "YUV" => win'.fb = win.fb
      /\ IsEOF(m) /\ m.compress # "YUV" =>
            /\ win'.fb.l = win.fb.l
            /\ win.fb.gl => win'.fb.stereo = win.stereo
            /\ win.stereo /\ win.fb.stereo /\ win.fb.gl => win'.fb.r = win.fb.r
      /\ IsTile(m) =>
            /\ win'.fb.l[p] = IF p \in m.px THEN m.l[p] ELSE win.fb.l[p]
            /\ win.fb.gl /\ m.stereo =>
                  /\ win'.fb.stereo
                  /\ p \in m.px => win'.fb.r[p] = m.r[p]
                  /\ p \notin m.px /\ win.fb.stereo => win'.fb.r[p] = win.fb.r[p]
  BY DEF Drawn
<1>2. HasRight(f) /\ win.canGL => win.stereo /\ win.fb.gl
  BY DEF Eyed, BufferOK
<1>3. m.type \in {"tile", "eof"}
  BY <1>1, MessageFacts
<1>4. CASE m.compress = "YUV"
  BY <1>1, <1>4 DEF Holds, IsTile
<1>5. CASE IsEOF(m) /\ m.compress # "YUV"
  BY <1>1, <1>2, <1>5 DEF Holds, IsTile, IsEOF
<1>6. CASE IsTile(m)
  <2>1. m.stereo <=> HasRight(f)
    BY <1>6 DEF Fits
  <2>2. CASE p \in m.px
    <3>1. Says(m, p, f)
      BY <1>6, <2>2 DEF Fits
    <3> QED
      BY <1>1, <1>2, <1>6, <2>1, <2>2, <3>1 DEF Holds, Says
  <2>3. CASE p \notin m.px
    BY <1>1, <1>2, <1>6, <2>1, <2>3 DEF Holds
  <2> QED
    BY <2>2, <2>3
<1> QED
  BY <1>3, <1>4, <1>5, <1>6 DEF IsTile, IsEOF

(* ... so nothing is lost when a message is drawn.                           *)
LEMMA SaidDrawn ==
    ASSUME WinType, BufferOK(win), NEW m, Drawn(m), NEW p \in Pixels, NEW f,
           SaidIn(p, f, Flight, win)
    PROVE  SaidIn(p, f, Flight', win')
<1>1. /\ m = Flight[1] /\ Len(Flight) >= 1 /\ Len(win.queue) >= 1
      /\ Len(win'.queue) = Len(win.queue) - 1 /\ Len(Flight') = Len(Flight) - 1
      /\ \A i \in 1 .. Len(Flight') : Flight'[i] = Flight[i + 1]
      /\ win'.open = win.open /\ win'.canGL = win.canGL
      /\ win'.stereo = win.stereo
  BY DEF Drawn
<1>2. /\ Len(Flight) \in Nat /\ Len(win.queue) \in Nat
  BY Lengths
<1>3. PICK i \in 0 .. Len(Flight) : SaidAt(i, p, f, Flight, win)
  BY DEF SaidIn
<1>4. Eyed(win, f) => Eyed(win', f)
  BY <1>1 DEF Eyed
<1>5. ASSUME NEW j \in 1 .. Len(Flight')
      PROVE  j + 1 \in 1 .. Len(Flight) /\ Flight'[j] = Flight[j + 1] /\ j \in Nat
  BY <1>1, <1>2
<1>6. CASE i <= 1
  <2>1. Eyed(win, f)
    <3>1. i <= Len(win.queue)
      BY <1>1, <1>2, <1>3, <1>6
    <3> QED
      BY <1>3, <3>1 DEF SaidAt
  <2>2. 1 \in 1 .. Len(Flight) /\ (i = 0 \/ i = 1)
    BY <1>1, <1>2, <1>3, <1>6
  <2>3. /\ Fits(m, p, f)
        /\ Holds(win, p, f) \/ (IsTile(m) /\ p \in m.px)
    <3>1. CASE i = 0
      <4>1. 0 < 1
        OBVIOUS
      <4> QED
        BY <1>1, <1>3, <2>2, <3>1, <4>1 DEF SaidAt
    <3>2. CASE i = 1
      BY <1>1, <1>3, <3>2 DEF SaidAt
    <3> QED
      BY <2>2, <3>1, <3>2
  <2>4. Holds(win', p, f)
    BY <2>1, <2>3, HoldsDrawn
  <2>5. \A j \in 1 .. Len(Flight') : Fits(Flight'[j], p, f)
    <3> TAKE j \in 1 .. Len(Flight')
    <3>1. i < j + 1
      BY <1>3, <1>5, <1>6
    <3> QED
      BY <1>3, <1>5, <3>1 DEF SaidAt
  <2>6. SaidAt(0, p, f, Flight', win')
    BY <1>4, <2>1, <2>4, <2>5 DEF SaidAt
  <2>7. 0 \in 0 .. Len(Flight')
    BY <1>1, <1>2
  <2> QED
    BY <2>6, <2>7 DEF SaidIn
<1>7. CASE ~(i <= 1)
  <2>1. PICK k \in Nat : k = i - 1
    BY <1>2, <1>3, <1>7
  <2>2. /\ k \in 0 .. Len(Flight') /\ k \in 1 .. Len(Flight') /\ k # 0
        /\ k + 1 = i
    BY <1>1, <1>2, <1>3, <1>7, <2>1
  <2>3. Flight'[k] = Flight[i] /\ i > 0
    BY <1>2, <1>3, <1>5, <1>7, <2>2
  <2>4. k <= Len(win'.queue) => Eyed(win', f)
    <3>1. k <= Len(win'.queue) => i <= Len(win.queue)
      BY <1>1, <1>2, <2>2
    <3> QED
      BY <1>3, <1>4, <3>1 DEF SaidAt
  <2>5. ASSUME NEW j \in 1 .. Len(Flight'), k < j
        PROVE  Fits(Flight'[j], p, f)
    <3>1. i < j + 1
      BY <1>5, <2>2, <2>5
    <3> QED
      BY <1>3, <1>5, <3>1 DEF SaidAt
  <2>6. IsTile(Flight'[k]) /\ p \in Flight'[k].px /\ Fits(Flight'[k], p, f)
    BY <1>3, <2>3 DEF SaidAt
  <2>7. SaidAt(k, p, f, Flight', win')
    BY <2>2, <2>4, <2>5, <2>6 DEF SaidAt
  <2> QED
    BY <2>2, <2>7 DEF SaidIn
<1> QED
  BY <1>6, <1>7

(* What is regular after a step was so before it.                            *)
LEMMA RegularBefore ==
    ASSUME SessionInv, AnyStep, Regular'
    PROVE  /\ Regular
           /\ history.mixed => history'.mixed
           /\ history.mixed = history'.mixed \/ Renders
           /\ SameConfig \/ (Retiles /\ server.at # "compress")
<1>1. history \in [mixed : BOOLEAN, torn : BOOLEAN, retiled : BOOLEAN,
                   sampled : BOOLEAN, unsettled : BOOLEAN]
  BY DEF SessionInv, TypeInv, HistoryType
<1>2. CASE Retiles
  BY <1>1, <1>2 DEF Retiles, Regular, Steady
<1>3. CASE ~Retiles
  <2>1. /\ SameConfig
        /\ history'.torn = history.torn /\ history'.retiled = history.retiled
    BY <1>3 DEF AnyStep, Aside, Renders, Starts, Negotiates, Fails, Compresses,
                Ends, IsAnswered, Reads, Draws, SameHistory
  <2>2. history.mixed = history'.mixed \/ Renders
    BY <1>3 DEF AnyStep, Aside, Starts, Negotiates, Fails, Compresses,
                Ends, IsAnswered, Reads, Draws, SameHistory
  <2>3. history.mixed => history'.mixed
    BY <2>2 DEF Renders
  <2> QED
    BY <2>1, <2>2, <2>3 DEF Regular, Steady, SameConfig
<1> QED
  BY <1>2, <1>3

(* A Compressor's messages say what is due from then on: a pixel of its      *)
(* tiles is in one of them, or is as the last frame left it.                 *)
LEMMA SaidCompressed ==
    ASSUME SessionInv, WinType, ControlInv, KindInv, SaidInv, Regular,
           Compresses, NEW p \in Pixels, Due(p)' # None, Due(p)'.compress # "YUV"
    PROVE  SaidIn(p, Due(p)', Flight', win')
<1>1. PICK s : Sends(s, server.rank) /\ Added(s)
  BY DEF Compresses
<1>2. /\ SameConfig /\ SameHistory /\ frame' = frame /\ lastf' = lastf
      /\ frame \in Frames /\ server.at = "compress" /\ server.rank \in {0, 1}
      /\ IF frame.compress = "YUV" \/ server.rank = 1 THEN server'.at = "eof"
         ELSE server'.at = "compress" /\ server'.rank = 1
  BY DEF Compresses, SameFrames
<1>3. frame.compress # "YUV"
  BY <1>2 DEF Due
<1>4. RankArea(0)' = RankArea(0)
  BY <1>2 DEF SameConfig, RankArea
<1>5. /\ \A j \in 1 .. Len(s) : OfFrame(s[j], frame)
      /\ \A j \in 1 .. Len(s) : s[j].px \subseteq RankArea(server.rank)
      /\ \A q \in RankArea(server.rank) :
            Unchanged(q) \/ \E j \in 1 .. Len(s) : q \in s[j].px
  BY <1>1, <1>3 DEF Sends
<1>6. \A j \in 1 .. Len(s) : IsTile(s[j]) /\ Fits(s[j], p, frame)
  BY <1>3, <1>5 DEF OfFrame, IsTile, Fits, Says
<1>7. ASSUME lastf # None, ~history.mixed
      PROVE  SameKind(frame, lastf) /\ lastf.compress # "YUV"
  <2>1. frame \in InUse /\ lastf \in InUse
    BY <1>2, <1>7 DEF InUse
  <2> QED
    BY <1>3, <1>7, <2>1 DEF KindInv, SameKind, HasRight
<1>8. ASSUME p \in RankArea(server.rank), ~(server.rank = 1 /\ p \in RankArea(0))
      PROVE  SaidIn(p, frame, Flight', win')
  <2>1. CASE \E j \in 1 .. Len(s) : p \in s[j].px
    <3>1. PICK j \in 1 .. Len(s) : p \in s[j].px
      BY <2>1
    <3>2. IsTile(s[j])
      BY <1>6, <3>1
    <3> QED
      BY <1>1, <1>6, <3>1, <3>2, SaidNow
  <2>2. CASE Unchanged(p)
    <3>1. /\ config.interframe /\ lastf # None /\ frame.l[p] = lastf.l[p]
          /\ HasRight(frame) /\ HasRight(lastf) => frame.r[p] = lastf.r[p]
      BY <2>2 DEF Unchanged
    <3>2. ~history.mixed
      BY <3>1 DEF Regular, Steady
    <3>3. SameKind(frame, lastf) /\ lastf.compress # "YUV"
      BY <1>7, <3>1, <3>2
    <3>4. Due(p) = lastf
      BY <1>2, <1>8, <3>2 DEF Due
    <3>5. SaidIn(p, lastf, Flight, win)
      BY <3>1, <3>3, <3>4 DEF SaidInv
    <3>6. SaidIn(p, frame, Flight, win)
      BY <3>1, <3>3, <3>5, SaidAlike DEF SameKind, HasRight
    <3> QED
      BY <1>1, <1>6, <3>6, SaidCarried
  <2> QED
    BY <1>5, <1>8, <2>1, <2>2
<1>9. CASE server.rank = 0
  <2>1. Due(p)' = IF p \in RankArea(0) THEN frame
                  ELSE IF history.mixed THEN None ELSE lastf
    BY <1>2, <1>3, <1>4, <1>9 DEF Due, SameHistory
  <2>2. CASE p \in RankArea(0)
    BY <1>8, <1>9, <2>1, <2>2
  <2>3. CASE p \notin RankArea(0)
    <3>1. ~history.mixed /\ lastf # None /\ Due(p)' = lastf
      BY <2>1, <2>3
    <3>2. SameKind(frame, lastf) /\ lastf.compress # "YUV"
      BY <1>7, <3>1
    <3>3. Due(p) = lastf
      BY <1>2, <1>9, <3>1 DEF Due
    <3>4. SaidIn(p, lastf, Flight, win)
      BY <3>1, <3>2, <3>3 DEF SaidInv
    <3>5. \A j \in 1 .. Len(s) : Fits(s[j], p, lastf)
      <4> TAKE j \in 1 .. Len(s)
      <4>1. p \notin s[j].px
        BY <1>5, <1>9, <2>3
      <4>2. s[j].stereo <=> HasRight(lastf)
        BY <1>5, <3>2 DEF OfFrame, SameKind, HasRight
      <4> QED
        BY <4>1, <4>2 DEF Fits
    <3>6. SaidIn(p, lastf, Flight', win')
      BY <1>1, <3>4, <3>5, SaidCarried
    <3> QED
      BY <3>1, <3>6
  <2> QED
    BY <2>2, <2>3
<1>10. CASE server.rank = 1
  <2>1. Due(p)' = frame
    BY <1>2, <1>10 DEF Due
  <2>2. CASE p \in RankArea(0)
    <3>1. Due(p) = frame
      BY <1>2, <1>10, <2>2 DEF Due
    <3>2. frame # None
      BY <1>2, FrameIsSome
    <3>3. SaidIn(p, frame, Flight, win)
      BY <1>3, <3>1, <3>2 DEF SaidInv
    <3>4. SaidIn(p, frame, Flight', win')
      BY <1>1, <1>6, <3>3, SaidCarried
    <3> QED
      BY <2>1, <3>4
  <2>3. CASE p \notin RankArea(0)
    <3>1. p \in RankArea(1)
      BY <2>3, PixelsCovered
    <3> QED
      BY <1>8, <1>10, <2>1, <2>3, <3>1
  <2> QED
    BY <2>2, <2>3
<1> QED
  BY <1>2, <1>9, <1>10

(* Every step preserves SaidInv.                                             *)
LEMMA SaidStep ==
    ASSUME SessionInv, WinType, WinType', BufferOK(win), ControlInv, OpenInv,
           KindInv, SteadyInv, SaidInv, AnyStep
    PROVE  SaidInv'
<1> SUFFICES ASSUME Regular', NEW p \in Pixels, Due(p)' # None,
                    Due(p)'.compress # "YUV"
             PROVE  SaidIn(p, Due(p)', Flight', win')
  BY DEF SaidInv, Pixels
<1>0. Regular /\ (history.mixed => history'.mixed)
  BY RegularBefore
<1>a. ASSUME Quiet, Due(p)' = Due(p)
      PROVE  SaidIn(p, Due(p)', Flight', win')
  <2>1. SaidIn(p, Due(p), Flight, win)
    BY <1>0, <1>a DEF SaidInv
  <2> QED
    BY <1>a, <2>1, QuietLengths
<1>b. SameConfig => RankArea(0)' = RankArea(0)
  BY DEF SameConfig, RankArea
<1>1. CASE Quiet /\ Aside
  BY <1>1, <1>a, <1>b DEF Aside, SameFrames, SameHistory, Due
<1>2. CASE Retiles
  <2>1. server.at # "compress"
    BY <1>2 DEF Retiles, Regular
  <2> QED
    BY <1>2, <1>a, <2>1 DEF Retiles, SameFrames, Due
<1>3. CASE Renders
  <2>1. /\ server.at = "idle" /\ server'.at = "subsamp" /\ lastf' = lastf /\ Quiet
    BY <1>3 DEF Renders
  <2>2. Due(p) = lastf /\ Due(p)' = IF history'.mixed THEN None ELSE lastf
    BY <2>1 DEF Due
  <2> QED
    BY <1>a, <2>1, <2>2
<1>4. CASE Starts
  BY <1>4, <1>a DEF Starts, SameHistory, Due
<1>5. CASE Negotiates
  BY <1>5, <1>a DEF Negotiates, SameHistory, SameFrames, ControlInv, Due
<1>6. CASE Fails
  BY <1>6 DEF Fails, Due
<1>7. CASE Compresses
  BY <1>0, <1>7, SaidCompressed
<1>8. CASE Ends
  <2> DEFINE e == EndOf(frame)
             s == <<e>>
  <2>1. /\ Added(s) /\ server.at = "eof" /\ lastf' = frame
        /\ server'.at \in {"idle", "cts"}
    BY <1>8 DEF Ends
  <2>2. Due(p) = frame /\ Due(p)' = frame
    BY <2>1 DEF Due
  <2>3. SaidIn(p, frame, Flight, win)
    BY <1>0, <2>2 DEF SaidInv
  <2>4. \A k \in 1 .. Len(s) : Fits(s[k], p, frame)
    BY DEF EndOf, Fits, IsTile
  <2> HIDE DEF s
  <2>5. SaidIn(p, frame, Flight', win')
    BY <2>1, <2>3, <2>4, SaidCarried
  <2> QED
    BY <2>2, <2>5
<1>9. CASE IsAnswered
  BY <1>9, <1>a DEF IsAnswered, SameHistory, SameFrames, Due
<1>10. CASE Reads \/ Draws
  <2>1. Due(p)' = Due(p)
    BY <1>10, <1>b DEF Reads, Draws, Aside, SameFrames, SameHistory, Due
  <2>2. SaidIn(p, Due(p), Flight, win)
    BY <1>0, <2>1 DEF SaidInv
  <2>3. CASE Reads
    <3>1. PICK m : Received(m)
      BY <2>3 DEF Reads
    <3>2. SaidIn(p, Due(p), Flight', win')
      BY <1>0, <2>2, <3>1, SaidRead
    <3> QED
      BY <2>1, <3>2
  <2>4. CASE Draws
    <3>1. PICK m : Drawn(m)
      BY <2>4 DEF Draws
    <3>2. SaidIn(p, Due(p), Flight', win')
      BY <2>2, <3>1, SaidDrawn
    <3> QED
      BY <2>1, <3>2
  <2> QED
    BY <1>10, <2>3, <2>4
<1> QED
  BY <1>1, <1>2, <1>3, <1>4, <1>5, <1>6, <1>7, <1>8, <1>9, <1>10 DEF AnyStep

(* A YUV image is message i, or shown for i = 0, and only ends of YUV frames *)
(* follow it.                                                                *)
WholeAt(i, f, d, s) ==
    /\ \A j \in 1 .. Len(d) : i < j => IsEOF(d[j]) /\ d[j].compress = "YUV"
    /\ i > 0 => d[i].type = "tile" /\ d[i].compress = "YUV" /\ d[i].l = f.l
    /\ i = 0 => s.l = f.l /\ s.r = None

(* The YUV image of the frame is somewhere on the way.                       *)
WholeIn(f, d, s) == \E i \in 0 .. Len(d) : WholeAt(i, f, d, s)

(* The last frame that is sent but for its end                               *)
Ended == IF server.at = "eof" THEN frame ELSE lastf

(* If it is YUV, it is on its way or shown, and has one eye.                 *)
WholeInv ==
    server.at \in {"idle", "cts", "eof"} /\ Ended # None
        /\ Ended.compress = "YUV" =>
            ~HasRight(Ended) /\ WholeIn(Ended, Flight, drawn)

(* Every step preserves WholeInv.                                            *)
LEMMA WholeStep ==
    ASSUME SessionInv, WinType, WinType', ControlInv, WholeInv, AnyStep
    PROVE  WholeInv'
<1> SUFFICES ASSUME server'.at \in {"idle", "cts", "eof"}, Ended' # None,
                    Ended'.compress = "YUV"
             PROVE  ~HasRight(Ended') /\ WholeIn(Ended', Flight', drawn')
  BY DEF WholeInv, HasRight
<1>0. Len(Flight) \in Nat
  BY Lengths
<1>a. ASSUME server.at \in {"idle", "cts", "eof"}, Ended' = Ended
      PROVE  ~HasRight(Ended) /\ WholeIn(Ended, Flight, drawn)
  BY <1>a DEF WholeInv
<1>b. ASSUME Quiet, server.at \in {"idle", "cts", "eof"}, Ended' = Ended
      PROVE  ~HasRight(Ended') /\ WholeIn(Ended', Flight', drawn')
  BY <1>a, <1>b, QuietLengths
<1>1. CASE Quiet /\ Aside
  BY <1>1, <1>b DEF Aside, SameFrames, Ended
<1>2. CASE Retiles
  BY <1>2, <1>b DEF Retiles, SameFrames, Ended
<1>3. CASE Renders \/ Starts \/ Negotiates \/ Fails
  BY <1>3 DEF Renders, Starts, Negotiates, Fails
<1>7. CASE Compresses
  <2>1. PICK s : Sends(s, server.rank) /\ Added(s)
    BY <1>7 DEF Compresses
  <2>2. /\ server.at = "compress" /\ Ended' = frame /\ frame.compress = "YUV"
    BY <1>7 DEF Compresses, SameFrames, Ended
  <2>3. ~HasRight(frame)
    BY <2>2 DEF ControlInv
  <2>4. Len(s) = 1 /\ OfFrame(s[1], frame)
    BY <2>1, <2>2 DEF Sends
  <2>5. /\ Len(Flight') = Len(Flight) + 1 /\ Flight'[Len(Flight) + 1] = s[1]
    <3>1. 1 \in 1 .. Len(s)
      BY <2>4
    <3> QED
      BY <2>1, <2>4, <3>1 DEF Added
  <2>6. WholeAt(Len(Flight'), frame, Flight', drawn')
    <3>1. Len(Flight') > 0 /\ \A j \in 1 .. Len(Flight') : ~(Len(Flight') < j)
      BY <1>0, <2>5
    <3>2. Flight'[Len(Flight')] = s[1]
      BY <2>5
    <3> QED
      BY <2>2, <2>4, <3>1, <3>2 DEF WholeAt, OfFrame
  <2>7. Len(Flight') \in 0 .. Len(Flight')
    BY <1>0, <2>5
  <2> QED
    BY <2>2, <2>3, <2>6, <2>7 DEF WholeIn
<1>8. CASE Ends
  <2> DEFINE e == EndOf(frame)
  <2>1. /\ Added(<<e>>) /\ server.at = "eof" /\ lastf' = frame /\ frame \in Frames
        /\ server'.at \in {"idle", "cts"} /\ IsEOF(e) /\ e.compress = frame.compress
    BY <1>8 DEF Ends, EndOf, IsEOF
  <2> HIDE DEF e
  <2>2. Ended = frame /\ Ended' = frame
    BY <2>1 DEF Ended
  <2>3. ~HasRight(frame) /\ WholeIn(frame, Flight, drawn)
    BY <1>a, <2>1, <2>2
  <2>4. /\ Len(Flight') = Len(Flight) + 1 /\ Flight'[Len(Flight) + 1] = e
        /\ \A i \in 1 .. Len(Flight) : Flight'[i] = Flight[i]
        /\ drawn' = drawn
    BY <2>1 DEF Added
  <2>5. PICK i \in 0 .. Len(Flight) : WholeAt(i, frame, Flight, drawn)
    BY <2>3 DEF WholeIn
  <2>6. ASSUME NEW j \in 1 .. Len(Flight'), i < j
        PROVE  IsEOF(Flight'[j]) /\ Flight'[j].compress = "YUV"
    <3>1. CASE j \in 1 .. Len(Flight)
      BY <2>4, <2>5, <2>6, <3>1 DEF WholeAt
    <3>2. CASE j \notin 1 .. Len(Flight)
      <4>1. j = Len(Flight) + 1
        BY <1>0, <2>4, <3>2
      <4> QED
        BY <2>1, <2>2, <2>4, <4>1
    <3> QED
      BY <3>1, <3>2
  <2>7. i \in 0 .. Len(Flight') /\ (i > 0 => i \in 1 .. Len(Flight))
    BY <1>0, <2>4, <2>5
  <2>8. WholeAt(i, frame, Flight', drawn')
    BY <2>4, <2>5, <2>6, <2>7 DEF WholeAt
  <2> QED
    BY <2>2, <2>3, <2>7, <2>8 DEF WholeIn
<1>9. CASE IsAnswered
  BY <1>9, <1>b DEF IsAnswered, SameFrames, Ended
<1>10. CASE Reads
  <2>1. PICK m : Received(m)
    BY <1>10 DEF Reads
  <2>2. /\ Len(Flight') = Len(Flight) /\ drawn' = drawn
        /\ \A i \in 1 .. Len(Flight) : Flight'[i] = Flight[i]
    BY <2>1 DEF Received
  <2>3. Ended' = Ended /\ server' = server
    BY <1>10 DEF Reads, Aside, SameFrames, Ended
  <2>4. ~HasRight(Ended) /\ WholeIn(Ended, Flight, drawn)
    BY <1>a, <2>3
  <2>5. PICK i \in 0 .. Len(Flight) : WholeAt(i, Ended, Flight, drawn)
    BY <2>4 DEF WholeIn
  <2>6. i > 0 => i \in 1 .. Len(Flight)
    BY <1>0, <2>5
  <2>7. WholeAt(i, Ended, Flight', drawn')
    BY <2>2, <2>5, <2>6 DEF WholeAt
  <2> QED
    BY <2>2, <2>3, <2>4, <2>5, <2>7 DEF WholeIn
<1>11. CASE Draws
  <2>1. PICK m : Drawn(m)
    BY <1>11 DEF Draws
  <2>2. /\ m = Flight[1] /\ Len(Flight) >= 1 /\ Len(Flight') = Len(Flight) - 1
        /\ \A i \in 1 .. Len(Flight') : Flight'[i] = Flight[i + 1]
    BY <2>1 DEF Drawn
  <2>3. Ended' = Ended /\ server' = server
    BY <1>11 DEF Draws, Aside, SameFrames, Ended
  <2>4. ~HasRight(Ended) /\ WholeIn(Ended, Flight, drawn)
    BY <1>a, <2>3
  <2>5. PICK i \in 0 .. Len(Flight) : WholeAt(i, Ended, Flight, drawn)
    BY <2>4 DEF WholeIn
  <2>6. ASSUME NEW j \in 1 .. Len(Flight')
        PROVE  j + 1 \in 1 .. Len(Flight) /\ Flight'[j] = Flight[j + 1] /\ j \in Nat
    BY <1>0, <2>2
  <2>7. CASE i <= 1
    <3>1. 1 \in 1 .. Len(Flight) /\ (i = 0 \/ i = 1)
      BY <1>0, <2>2, <2>5, <2>7
    <3>2. m.compress = "YUV" /\ drawn'.l = Ended.l /\ drawn'.r = None
      <4>1. drawn' = IF IsEOF(m)
                     THEN IF m.compress = "YUV" THEN [drawn EXCEPT !.n = m.n]
                          ELSE [n |-> m.n, l |-> win'.fb.l,
                                r |-> IF win'.fb.stereo THEN win'.fb.r ELSE None]
                     ELSE IF m.compress = "YUV"
                     THEN [drawn EXCEPT !.l = m.l, !.r = None] ELSE drawn
        BY <2>1 DEF Drawn
      <4>2. drawn \in [n : Nat, l : EyeRow, r : EyeRow \cup {None}]
        BY DEF WinType
      <4>3. CASE i = 0
        <5>1. IsEOF(m) /\ m.compress = "YUV" /\ drawn.l = Ended.l /\ drawn.r = None
          BY <2>2, <2>5, <3>1, <4>3 DEF WholeAt
        <5> QED
          BY <4>1, <4>2, <5>1
      <4>4. CASE i = 1
        <5>1. m.type = "tile" /\ m.compress = "YUV" /\ m.l = Ended.l
          BY <2>2, <2>5, <4>4 DEF WholeAt
        <5> QED
          BY <4>1, <4>2, <5>1 DEF IsEOF
      <4> QED
        BY <3>1, <4>3, <4>4
    <3>3. \A j \in 1 .. Len(Flight') :
             IsEOF(Flight'[j]) /\ Flight'[j].compress = "YUV"
      <4> TAKE j \in 1 .. Len(Flight')
      <4>1. i < j + 1
        BY <2>5, <2>6, <2>7
      <4> QED
        BY <2>5, <2>6, <4>1 DEF WholeAt
    <3>4. WholeAt(0, Ended, Flight', drawn')
      BY <3>2, <3>3 DEF WholeAt
    <3>5. 0 \in 0 .. Len(Flight')
      BY <1>0, <2>2
    <3> QED
      BY <2>3, <2>4, <3>4, <3>5 DEF WholeIn
  <2>8. CASE ~(i <= 1)
    <3>1. PICK k \in Nat : k = i - 1
      BY <1>0, <2>5, <2>8
    <3>2. k \in 0 .. Len(Flight') /\ k \in 1 .. Len(Flight') /\ k # 0 /\ k + 1 = i
      BY <1>0, <2>2, <2>5, <2>8, <3>1
    <3>3. Flight'[k] = Flight[i] /\ i > 0
      BY <1>0, <2>5, <2>6, <2>8, <3>2
    <3>4. ASSUME NEW j \in 1 .. Len(Flight'), k < j
          PROVE  IsEOF(Flight'[j]) /\ Flight'[j].compress = "YUV"
      <4>1. i < j + 1
        BY <2>6, <3>2, <3>4
      <4> QED
        BY <2>5, <2>6, <4>1 DEF WholeAt
    <3>5. WholeAt(k, Ended, Flight', drawn')
      BY <2>5, <3>2, <3>3, <3>4 DEF WholeAt
    <3> QED
      BY <2>3, <2>4, <3>2, <3>5 DEF WholeIn
  <2> QED
    BY <2>7, <2>8
<1> QED
  BY <1>1, <1>2, <1>3, <1>7, <1>8, <1>9, <1>10, <1>11 DEF AnyStep

(* When all is drawn, the window shows the last frame.                       *)
ShownInv ==
    Regular /\ server.at \in {"idle", "cts"} /\ lastf # None /\ Len(Flight) = 0 =>
        Shows(lastf)

(* The inductive invariant, on top of SessionInv                             *)
ShowInv == /\ WinType /\ BufferOK(win) /\ ControlInv /\ OpenInv /\ NumberInv
           /\ KindInv /\ SteadyInv /\ SaidInv /\ WholeInv /\ ShownInv

(* Drawing the last end of frame shows the frame: its pixels are in the      *)
(* buffer (SaidInv), or its image is there already (WholeInv).               *)
LEMMA ShownAtEnd ==
    ASSUME SessionInv, WinType, WinType', BufferOK(win'), NumberInv, SaidInv', WholeInv',
           Regular', Draws, server.at \in {"idle", "cts"}, lastf # None,
           Len(Flight') = 0
    PROVE  Shows(lastf)'
<1>1. PICK m : Drawn(m)
  BY DEF Draws
<1>2. /\ m = Flight[1] /\ Len(Flight) = 1 /\ win'.canGL = win.canGL
      /\ win'.fb.gl = win.fb.gl /\ win'.stereo = win.stereo
  BY <1>1 DEF Drawn
<1>3. server' = server /\ lastf' = lastf
  BY DEF Draws, Aside, SameFrames
<1>4. IsEOF(m) /\ m.compress = lastf.compress
  BY <1>2 DEF NumberInv, LastEnd
<1>5. lastf \in Frames
  BY DEF SessionInv, TypeInv, ServerType
<1>6. /\ lastf.l \in [Pixels -> Nat]
      /\ lastf.r # None => lastf.r \in [Pixels -> Nat]
  BY <1>5, SessionAssumption DEF Frames
<1>7. CASE lastf.compress = "YUV"
  <2>1. Ended' = lastf /\ server'.at \in {"idle", "cts", "eof"}
    BY <1>3 DEF Ended
  <2>2. ~HasRight(lastf) /\ WholeIn(lastf, Flight', drawn')
    BY <1>7, <2>1 DEF WholeInv
  <2>3. WholeAt(0, lastf, Flight', drawn')
    BY <2>2 DEF WholeIn
  <2> QED
    BY <1>3, <2>2, <2>3 DEF WholeAt, Shows, HasRight
<1>8. CASE lastf.compress # "YUV"
  <2>1. drawn' = [n |-> m.n, l |-> win'.fb.l,
                  r |-> IF win'.fb.stereo THEN win'.fb.r ELSE None]
    BY <1>1, <1>4, <1>8 DEF Drawn
  <2>2. ASSUME NEW p \in Pixels PROVE Eyed(win', lastf) /\ Holds(win', p, lastf)
    <3>1. Due(p)' = lastf
      BY <1>3 DEF Due
    <3>2. SaidIn(p, lastf, Flight', win')
      BY <1>8, <3>1 DEF SaidInv, Pixels
    <3>3. SaidAt(0, p, lastf, Flight', win')
      BY <3>2 DEF SaidIn
    <3>4. Len(win'.queue) \in Nat
      BY LenProperties DEF WinType
    <3> QED
      BY <3>3, <3>4 DEF SaidAt
  <2>3. 0 \in Pixels
    BY SessionAssumption, TilingAssumption DEF Pixels
  <2>4. Eyed(win', lastf)
    BY <2>2, <2>3
  <2>5. win'.fb.l \in EyeRow /\ win'.fb.r \in EyeRow
    BY <1>1 DEF Drawn, Buffer
  <2>6. drawn'.l = lastf.l
    <3>1. \A p \in Pixels : win'.fb.l[p] = lastf.l[p]
      BY <2>2 DEF Holds
    <3> QED
      BY <1>6, <2>1, <2>5, <3>1 DEF EyeRow
  <2>7. CASE HasRight(lastf) /\ win.canGL
    <3>1. win'.fb.stereo /\ \A p \in Pixels : win'.fb.r[p] = lastf.r[p]
      BY <1>2, <2>2, <2>3, <2>7 DEF Holds
    <3>2. win'.fb.r = lastf.r
      BY <1>6, <2>5, <2>7, <3>1 DEF EyeRow, HasRight
    <3> QED
      BY <1>2, <1>3, <2>1, <2>6, <2>7, <3>1, <3>2 DEF Shows
  <2>8. CASE ~(HasRight(lastf) /\ win.canGL)
    <3>1. ~win'.stereo
      BY <1>2, <2>4, <2>8 DEF Eyed
    <3>2. win'.fb.gl => win'.fb.stereo = win'.stereo
      BY <1>1, <1>2, <1>4, <1>8 DEF Drawn
    <3>3. ~win'.fb.stereo
      BY <3>1, <3>2 DEF BufferOK
    <3> QED
      BY <1>2, <1>3, <2>1, <2>6, <2>8, <3>3 DEF Shows, HasRight
  <2> QED
    BY <2>7, <2>8
<1> QED
  BY <1>7, <1>8

(* Every step preserves ShownInv.                                            *)
LEMMA ShownStep ==
    ASSUME SessionInv, WinType, WinType', BufferOK(win'), NumberInv, SaidInv', WholeInv',
           ShownInv, AnyStep
    PROVE  ShownInv'
<1> SUFFICES ASSUME Regular', server'.at \in {"idle", "cts"}, lastf' # None,
                    Len(Flight') = 0
             PROVE  Shows(lastf)'
  BY DEF ShownInv
<1>0. Regular /\ Len(Flight) \in Nat
  BY RegularBefore, Lengths
<1>a. ASSUME Quiet, server.at \in {"idle", "cts"}, lastf' = lastf
      PROVE  Shows(lastf)'
  <2>1. Shows(lastf)
    BY <1>0, <1>a, QuietLengths DEF ShownInv
  <2> QED
    BY <1>a, <2>1, QuietLengths DEF Shows
<1>1. CASE Quiet /\ Aside
  BY <1>1, <1>a DEF Aside, SameFrames
<1>2. CASE Retiles
  BY <1>2, <1>a DEF Retiles, SameFrames
<1>3. CASE Renders \/ Starts \/ Negotiates \/ Fails
  BY <1>3 DEF Renders, Starts, Negotiates, Fails
<1>7. CASE Compresses
  BY <1>7 DEF Compresses
<1>8. CASE Ends
  <2> DEFINE e == EndOf(frame)
  <2>1. Added(<<e>>)
    BY <1>8 DEF Ends
  <2> HIDE DEF e
  <2>2. Len(Flight') = Len(Flight) + 1
    BY <2>1 DEF Added
  <2> QED
    BY <1>0, <2>2
<1>9. CASE IsAnswered
  BY <1>9, <1>a DEF IsAnswered, SameFrames
<1>10. CASE Reads
  <2>1. PICK m : Received(m)
    BY <1>10 DEF Reads
  <2>2. Len(Flight') = Len(Flight) /\ Len(win.queue) + 1 \in 1 .. Len(Flight)
    BY <2>1 DEF Received
  <2> QED
    BY <1>0, <2>2
<1>11. CASE Draws
  BY <1>11, ShownAtEnd DEF Draws, Aside, SameFrames
<1> QED
  BY <1>1, <1>2, <1>3, <1>7, <1>8, <1>9, <1>10, <1>11 DEF AnyStep

(* It holds before the first frame.                                          *)
LEMMA ShowInitHolds == SessionInit => ShowInv
<1> SUFFICES ASSUME SessionInit PROVE ShowInv
  OBVIOUS
<1>1. /\ toClient = <<>> /\ server.at = "idle" /\ frame = None /\ lastf = None
      /\ drawn = [n |-> 0, l |-> Blank, r |-> None]
      /\ ~history.mixed /\ ~history.torn /\ ~history.retiled
  BY DEF SessionInit
<1>2. Data = <<>> /\ Len(Data) = 0 /\ Data \in Seq(Message)
  BY <1>1 DEF Data
<1>3. PICK w \in Windows :
         win = [req |-> w[1], canGL |-> w[2], open |-> FALSE, method |-> w[1],
                stereo |-> FALSE, fb |-> X11Buffer, cfindex |-> 0,
                right |-> [k \in {0, 1} |-> FALSE], queue |-> <<>>]
  BY DEF SessionInit
<1>4. WinType
  <2>1. w[1] \in {"X11", "OGL"} /\ w[2] \in BOOLEAN
    BY <1>3, SessionAssumption
  <2>2. Blank \in EyeRow
    BY DEF Blank, EyeRow
  <2>3. <<>> \in Seq(Queued)
    OBVIOUS
  <2>4. drawn \in [n : Nat, l : EyeRow, r : EyeRow \cup {None}]
    BY <1>1, <2>2
  <2>5. [k \in {0, 1} |-> FALSE] \in [{0, 1} -> BOOLEAN]
    OBVIOUS
  <2> QED
    BY <1>2, <1>3, <2>1, <2>3, <2>4, <2>5, Buffers DEF WinType
<1>5. Len(Flight) = 0
  <2>1. Len(win.queue) = 0
    BY <1>3
  <2> QED
    BY <1>2, <1>4, <2>1, Lengths
<1>6. /\ ~win.open /\ win.cfindex = 0 /\ \A k \in {0, 1} : ~win.right[k]
      /\ win.fb = X11Buffer
  BY <1>3
<1>7. BufferOK(win)
  BY <1>6, Buffers DEF BufferOK
<1>8. ControlInv
  BY <1>1 DEF ControlInv
<1>9. OpenInv
  BY <1>1, <1>2, <1>6 DEF OpenInv, Begun
<1>10. NumberInv
  <2>1. 1 .. Len(Flight) = {} /\ LastNumber = 0 /\ drawn.n = 0
    BY <1>1, <1>5 DEF LastNumber
  <2>2. EndNumbers /\ LastEnd
    BY <1>5, <2>1 DEF EndNumbers, LastEnd
  <2> QED
    BY <1>1, <2>1, <2>2 DEF NumberInv
<1>11. KindInv
  <2>1. InUse = {}
    BY <1>1 DEF InUse
  <2> QED
    BY <2>1 DEF KindInv
<1>12. SteadyInv
  <2>1. ~TileSent /\ 1 .. Len(Data) = {}
    BY <1>1, <1>2 DEF TileSent
  <2>2. OneTile
    BY <1>2, <1>6, <2>1 DEF OneTile
  <2>3. MoreTiles
    BY <1>1, <2>1 DEF MoreTiles
  <2> QED
    BY <2>2, <2>3 DEF SteadyInv
<1>13. SaidInv
  BY <1>1 DEF SaidInv, Due
<1>14. WholeInv
  BY <1>1 DEF WholeInv, Ended
<1>15. ShownInv
  BY <1>1 DEF ShownInv
<1> QED
  BY <1>4, <1>7, <1>8, <1>9, <1>10, <1>11, <1>12, <1>13, <1>14, <1>15 DEF ShowInv

(* Every step preserves it.                                                  *)
LEMMA ShowStep ==
    SessionInv /\ SessionInv' /\ ShowInv /\ [SessionNext]_sessionVars => ShowInv'
<1> SUFFICES ASSUME SessionInv, SessionInv', ShowInv, [SessionNext]_sessionVars
             PROVE  ShowInv'
  OBVIOUS
<1>1. AnyStep /\ WinType' /\ BufferOK(win')
  BY Steps DEF ShowInv
<1>2. ControlInv'
  BY <1>1, ControlStep DEF ShowInv
<1>3. OpenInv'
  BY <1>1, OpenStep DEF ShowInv
<1>4. NumberInv'
  BY <1>1, NumberStep DEF ShowInv
<1>5. KindInv'
  BY <1>1, KindStep DEF ShowInv
<1>6. SteadyInv'
  BY <1>1, SteadyStep DEF ShowInv
<1>7. SaidInv'
  BY <1>1, SaidStep DEF ShowInv
<1>8. WholeInv'
  BY <1>1, WholeStep DEF ShowInv
<1>9. ShownInv'
  BY <1>1, <1>7, <1>8, ShownStep DEF ShowInv
<1> QED
  BY <1>1, <1>2, <1>3, <1>4, <1>5, <1>6, <1>7, <1>8, <1>9 DEF ShowInv

(* A window whose frames have all been drawn shows the last one, both eyes   *)
(* where it can, for any images, versions, sizes and windows, but for a      *)
(* frame cut in two ways, or frames of several kinds while tiles are         *)
(* compared or their number changes.                                         *)
THEOREM FrameIsShown == SessionSpec => []FrameShown
<1>1. SessionInv /\ ShowInv => FrameShown
  <2> SUFFICES ASSUME SessionInv, ShowInv, ~history.torn,
                      ~(history.mixed /\ (config.interframe \/ history.retiled)),
                      lastf # None, drawn.n = lastf.n, server.at = "idle"
               PROVE  Shows(lastf)
    BY DEF FrameShown, ClientShowsFrame
  <2>1. Regular
    BY DEF Regular, Steady
  <2>2. Len(Flight) = 0
    <3> SUFFICES ASSUME Len(Flight) # 0 PROVE FALSE
      OBVIOUS
    <3>1. /\ IsEOF(Flight[Len(Flight)]) /\ Flight[Len(Flight)].n = lastf.n
      BY DEF ShowInv, NumberInv, LastEnd
    <3>2. Len(Flight) \in 1 .. Len(Flight)
      BY Lengths DEF ShowInv
    <3>3. drawn.n < lastf.n /\ drawn.n \in Nat
      BY <3>1, <3>2 DEF ShowInv, NumberInv, EndNumbers, WinType
    <3> QED
      BY <3>3
  <2> QED
    BY <2>1, <2>2 DEF ShowInv, ShownInv
<1>2. SessionInit => SessionInv /\ ShowInv
  BY SessionInitHolds, ShowInitHolds
<1>3. SessionInv /\ ShowInv /\ [SessionNext]_sessionVars => SessionInv' /\ ShowInv'
  <2>1. SessionInv /\ [SessionNext]_sessionVars => SessionInv'
    BY TypeStep, ThrowStep, ProtocolStep DEF SessionInv
  <2> QED
    BY <2>1, ShowStep
<1> QED
  BY <1>1, <1>2, <1>3, PTL DEF SessionSpec

(* The CTS that the sender waits for is on its way, or the end of frame that *)
(* it answers.                                                               *)
AnswerInv ==
    server.at = "cts" =>
        toServer # <<>> \/ \E k \in 1 .. Len(Data) : IsEOF(Data[k])

(* Every step preserves AnswerInv.                                           *)
LEMMA AnswerStep ==
    ASSUME SessionInv, ShowInv, ShowInv', AnswerInv, [SessionNext]_sessionVars
    PROVE  AnswerInv'
<1> SUFFICES ASSUME server'.at = "cts"
             PROVE  toServer' # <<>> \/ \E k \in 1 .. Len(Data') : IsEOF(Data'[k])
  BY DEF AnswerInv
<1>0. /\ WinType /\ WinType' /\ BufferOK(win) /\ ControlInv
      /\ Len(Data) \in Nat
  BY Lengths DEF ShowInv
<1>1. CASE server.at # "cts"
  <2> DEFINE e == EndOf(frame)
  <2>1. AnyStep
    BY <1>0, Steps
  <2>2. Ends
    BY <1>1, <2>1
       DEF AnyStep, Aside, Retiles, Renders, Starts, Negotiates, Fails, Compresses,
           IsAnswered, Reads, Draws
  <2>3. Added(<<e>>) /\ IsEOF(e)
    BY <2>2 DEF Ends, EndOf, IsEOF
  <2> HIDE DEF e
  <2>4. Len(Data') = Len(Data) + 1 /\ Data'[Len(Data) + 1] = e
    BY <2>3 DEF Added
  <2>5. Len(Data) + 1 \in 1 .. Len(Data')
    BY <1>0, <2>4
  <2> QED
    BY <2>3, <2>4, <2>5
<1>2. CASE server.at = "cts"
  <2>1. toServer # <<>> \/ \E k \in 1 .. Len(Data) : IsEOF(Data[k])
    BY <1>2 DEF AnswerInv
  <2>2. TalkOld
    <3>1. server.version = 10
      BY <1>0, <1>2 DEF ControlInv
    <3> QED
      BY <1>2, <3>1 DEF SessionInv, ProtocolInv, Untouched, Asking, TalkNew,
                        Announced, Agreed
  <2>3. \/ client.at = "run" /\ client.v = 10
        \/ client.at = "hello"
    BY <2>2 DEF TalkOld
  <2>4. CASE Receive
    <3> DEFINE m == Head(toClient)
    <3>1. Received(m)
      BY <1>0, <2>4, ReceiveSummary
    <3>2. toServer' = Answer(m) /\ client.v = 10
      BY <2>3, <2>4 DEF Receive
    <3> HIDE DEF m
    <3>3. toServer \in Seq({CTS})
      BY <2>2 DEF TalkOld
    <3>4. CASE m.type = "eof"
      <4>1. toServer' = Append(toServer, CTS)
        BY <3>2, <3>4 DEF Answer
      <4> QED
        BY <3>3, <4>1
    <3>5. CASE m.type # "eof"
      <4>1. toServer' = toServer
        BY <3>2, <3>5 DEF Answer
      <4>2. ASSUME NEW k \in 1 .. Len(Data), IsEOF(Data[k])
            PROVE  \E j \in 1 .. Len(Data') : IsEOF(Data'[j])
        <5>1. k # 1
          BY <3>1, <3>5, <4>2 DEF Received, IsEOF
        <5>2. PICK j \in Nat : j = k - 1
          BY <1>0
        <5>3. j \in 1 .. Len(Data') /\ j + 1 = k
          BY <1>0, <3>1, <5>1, <5>2 DEF Received
        <5>4. Data'[j] = Data[k]
          BY <3>1, <5>3 DEF Received
        <5> QED
          BY <4>2, <5>3, <5>4
      <4> QED
        BY <2>1, <4>1, <4>2
    <3> QED
      BY <3>4, <3>5
  <2>5. CASE Draw
    <3>1. Drawn(Head(win.queue).msg)
      BY <1>0, <2>5, DrawSummary
    <3>2. Data' = Data /\ toServer' = toServer
      BY <2>5, <3>1 DEF Draw, Drawn
    <3> QED
      BY <2>1, <3>2
  <2>6. CASE Configures \/ SetTilesize \/ UNCHANGED sessionVars
    <3>1. toServer' = toServer /\ toClient' = toClient
      BY <2>6 DEF Configures, SetCompress, SetSubsamp, SampCB, ReloadSubsamp, WriteSubsamp,
         SetTilesize, sessionVars
    <3> QED
      BY <2>1, <3>1 DEF Data
  <2>7. CASE ClientHello
    <3>1. toClient # <<>> /\ Head(toClient).type # "fake"
      <4>1. toClient # <<>> /\ toClient \in Seq(Formatted(1))
        BY <2>2, <2>7 DEF ClientHello, TalkOld
      <4>2. Head(toClient) \in Formatted(1)
        BY <4>1
      <4> QED
        BY <4>1, <4>2 DEF Formatted
    <3>2. toServer' = toServer /\ toClient' = toClient
      BY <2>7, <3>1 DEF ClientHello
    <3> QED
      BY <2>1, <3>2 DEF Data
  <2>8. ~ClientVersion
    BY <2>3 DEF ClientVersion
  <2>9. ~RecvCTS
    BY DEF RecvCTS, SessionInv, TypeInv, ServerType
  <2>10. ~(Readback \/ SendVGL \/ Hello \/ Reply \/ CompressSend \/ SendEOF)
    BY <1>2 DEF Readback, SendVGL, Hello, Reply, CompressSend, SendEOF
  <2> QED
    BY <2>4, <2>5, <2>6, <2>7, <2>8, <2>9, <2>10
       DEF SessionNext, Sender, Listener, Configures
<1> QED
  BY <1>1, <1>2

(* Neither end waits for an answer that the other does not give: in every    *)
(* state a thread of theirs can move (CanMove), unless the sender has thrown *)
(* or all that was rendered is drawn. NoMutualWait says so with ENABLED.     *)
THEOREM NobodyWaitsForever == SessionSpec => []SomebodyMoves
<1>1. SessionInv /\ ShowInv /\ AnswerInv => SomebodyMoves
  <2> SUFFICES ASSUME SessionInv, ShowInv, AnswerInv, ~CanMove, server.at # "failed"
               PROVE  server.at = "idle" /\ drawn.n = LastNumber
    BY DEF SomebodyMoves, LastNumber
  <2>1. toClient = <<>> /\ win.queue = <<>>
    BY DEF CanMove
  <2>2. Data = <<>> /\ Len(toClient) = 0
    BY <2>1 DEF Data
  <2>3. Len(Data) = 0 /\ Len(Flight) = 0
    <3>1. Len(Data) = 0 /\ Len(win.queue) = 0
      BY <2>1, <2>2
    <3>2. Len(Flight) = Len(win.queue) + Len(Data)
      BY Lengths DEF ShowInv
    <3> QED
      BY <3>1, <3>2
  <2>4. Len(toClient) < MaxBacklog
    BY <2>2, SessionAssumption
  <2>5. server.at \in {"idle", "hello", "cts"}
    BY <2>4 DEF CanMove, SessionInv, TypeInv, ServerType
  <2>6. CASE server.at = "idle"
    BY <2>3, <2>6 DEF ShowInv, NumberInv, LastEnd
  <2>7. CASE server.at = "hello"
    <3>1. Asking
      BY <2>7 DEF SessionInv, ProtocolInv, Untouched, TalkOld, TalkNew, Announced,
                  Agreed
    <3> QED
      BY <2>1, <2>7, <3>1 DEF Asking, CanMove
  <2>8. CASE server.at = "cts"
    <3>1. toServer # <<>>
      <4>1. 1 .. Len(Data) = {}
        BY <2>3
      <4> QED
        BY <2>8, <4>1 DEF AnswerInv
    <3> QED
      BY <2>8, <3>1 DEF CanMove
  <2> QED
    BY <2>5, <2>6, <2>7, <2>8
<1>2. SessionInit => SessionInv /\ ShowInv /\ AnswerInv
  <2>1. SessionInit => AnswerInv
    BY DEF SessionInit, AnswerInv
  <2> QED
    BY <2>1, SessionInitHolds, ShowInitHolds
<1>3. SessionInv /\ ShowInv /\ AnswerInv /\ [SessionNext]_sessionVars
         => SessionInv' /\ ShowInv' /\ AnswerInv'
  <2>1. SessionInv /\ [SessionNext]_sessionVars => SessionInv'
    BY TypeStep, ThrowStep, ProtocolStep DEF SessionInv
  <2> QED
    BY <2>1, ShowStep, AnswerStep
<1> QED
  BY <1>1, <1>2, <1>3, PTL DEF SessionSpec
-----------------------------------------------------------------------------
(* Event *)


(* Together the three invariants are inductive.                              *)
IInv == TypeOK /\ NoLostWakeup /\ PolledIsFree

-----------------------------------------------------------------------------
(* They hold when the Event is constructed.                                  *)
LEMMA InitHolds == Init => IInv
<1> SUFFICES ASSUME Init PROVE IInv
  OBVIOUS
<1> USE EventAssumption DEF Init, Threads
<1>1. LockInv
  BY DEF LockInv, Inside
<1>2. TypeOK
  BY <1>1 DEF TypeOK
<1>3. NoLostWakeup
  BY DEF NoLostWakeup, Asleep
<1>4. PolledIsFree
  BY DEF PolledIsFree
<1> QED
  BY <1>2, <1>3, <1>4 DEF IInv

(* Types and the mutex: one thread at a time tests, reads or sets the flag.  *)
LEMMA LockStep ==
    ASSUME TypeOK, [Next]_vars
    PROVE  TypeOK'
<1> USE EventAssumption
    DEF TypeOK, LockInv, Inside, Threads, Goes, Acquire, Unlock
<1>1. ASSUME NEW t \in Threads, Call(t) PROVE TypeOK'
  BY <1>1 DEF Call
<1>2. ASSUME NEW t \in Threads, Lock(t) PROVE TypeOK'
  BY <1>2 DEF Lock
<1>3. ASSUME NEW t \in Waiters, Test(t) PROVE TypeOK'
  BY <1>3, ZenonT(60) DEF Test
<1>4. ASSUME NEW t \in Waiters, IsLocked(t) PROVE TypeOK'
  BY <1>4 DEF IsLocked
<1>5. ASSUME NEW t \in Waiters, Return(t) PROVE TypeOK'
  BY <1>5 DEF Return
<1>6. ASSUME NEW t \in Waiters, Spurious(t) PROVE TypeOK'
  BY <1>6 DEF Spurious
<1>7. ASSUME NEW t \in Signallers, SetReady(t) PROVE TypeOK'
  BY <1>7 DEF SetReady
<1>8. ASSUME NEW t \in Signallers, Notify(t) PROVE TypeOK'
  BY <1>8 DEF Notify, Asleep
<1>9. CASE UNCHANGED vars
  BY <1>9 DEF vars
<1> QED
  BY <1>1, <1>2, <1>3, <1>4, <1>5, <1>6, <1>7, <1>8, <1>9
     DEF Next, WaiterStep, SignallerStep

(* A sleeper is never left on a set flag without someone to deal with it.    *)
LEMMA WakeupStep ==
    ASSUME TypeOK, NoLostWakeup, [Next]_vars
    PROVE  NoLostWakeup'
<1> USE EventAssumption DEF TypeOK, NoLostWakeup, Asleep, Threads, Goes
<1>1. ASSUME NEW t \in Threads, Call(t) PROVE NoLostWakeup'
  BY <1>1 DEF Call
<1>2. ASSUME NEW t \in Threads, Lock(t) PROVE NoLostWakeup'
  BY <1>2 DEF Lock
<1>3. ASSUME NEW t \in Waiters, Test(t) PROVE NoLostWakeup'
  BY <1>3 DEF Test
<1>4. ASSUME NEW t \in Waiters, IsLocked(t) PROVE NoLostWakeup'
  BY <1>4 DEF IsLocked
<1>5. ASSUME NEW t \in Waiters, Return(t) PROVE NoLostWakeup'
  BY <1>5 DEF Return
<1>6. ASSUME NEW t \in Waiters, Spurious(t) PROVE NoLostWakeup'
  BY <1>6 DEF Spurious
<1>7. ASSUME NEW t \in Signallers, SetReady(t) PROVE NoLostWakeup'
  BY <1>7 DEF SetReady
<1>8. ASSUME NEW t \in Signallers, Notify(t) PROVE NoLostWakeup'
  BY <1>8 DEF Notify
<1>9. CASE UNCHANGED vars
  BY <1>9 DEF vars
<1> QED
  BY <1>1, <1>2, <1>3, <1>4, <1>5, <1>6, <1>7, <1>8, <1>9
     DEF Next, WaiterStep, SignallerStep

(* Only a take resets the flag, and it makes everyone forget what they saw.  *)
LEMMA PolledStep ==
    ASSUME TypeOK, PolledIsFree, [Next]_vars
    PROVE  PolledIsFree'
<1> USE EventAssumption DEF TypeOK, PolledIsFree, Threads, Goes
<1>1. ASSUME NEW t \in Threads, Call(t) PROVE PolledIsFree'
  BY <1>1 DEF Call
<1>2. ASSUME NEW t \in Threads, Lock(t) PROVE PolledIsFree'
  BY <1>2 DEF Lock
<1>3. ASSUME NEW t \in Waiters, Test(t) PROVE PolledIsFree'
  BY <1>3 DEF Test
<1>4. ASSUME NEW t \in Waiters, IsLocked(t) PROVE PolledIsFree'
  BY <1>4 DEF IsLocked
<1>5. ASSUME NEW t \in Waiters, Return(t) PROVE PolledIsFree'
  BY <1>5 DEF Return
<1>6. ASSUME NEW t \in Waiters, Spurious(t) PROVE PolledIsFree'
  BY <1>6 DEF Spurious
<1>7. ASSUME NEW t \in Signallers, SetReady(t) PROVE PolledIsFree'
  BY <1>7 DEF SetReady
<1>8. ASSUME NEW t \in Signallers, Notify(t) PROVE PolledIsFree'
  BY <1>8 DEF Notify, Asleep
<1>9. CASE UNCHANGED vars
  BY <1>9 DEF vars
<1> QED
  BY <1>1, <1>2, <1>3, <1>4, <1>5, <1>6, <1>7, <1>8, <1>9
     DEF Next, WaiterStep, SignallerStep

(* The three parts are an inductive invariant.                                *)
THEOREM EventInvariance == Spec => []IInv
<1>1. IInv /\ [Next]_vars => IInv'
  BY LockStep, WakeupStep, PolledStep DEF IInv
<1> QED
  BY InitHolds, <1>1, PTL DEF Spec

(* The mutex is held by exactly the thread that is between lock and unlock.  *)
THEOREM EventTypeCorrect == Spec => []TypeOK
<1>1. IInv => TypeOK
  BY DEF IInv
<1> QED
  BY EventInvariance, <1>1, PTL

(* No wake-up is lost between a waiter's test and its sleep, for any number  *)
(* of waiters and signallers.                                                *)
THEOREM WakeupNeverLost == Spec => []NoLostWakeup
<1>1. IInv => NoLostWakeup
  BY DEF IInv
<1> QED
  BY EventInvariance, <1>1, PTL

(* isComplete() followed by waitUntilComplete(), with nobody else taking the *)
(* flag, never blocks: the pool scan of getFrame() does not wait.            *)
THEOREM PollThenWaitIsFree == Spec => []PolledIsFree
<1>1. IInv => PolledIsFree
  BY DEF IInv
<1> QED
  BY EventInvariance, <1>1, PTL

-----------------------------------------------------------------------------
(* Seen through Phase, every step of wait() and signal() is a step of the    *)
(* indivisible Event or no step at all; isLocked() never changes anything.   *)
THEOREM StepsAreAtomic ==
    Spec => Atomic!EventInit /\ [][Atomic!EventNext]_(Atomic!evars)
<1>1. Init => Atomic!EventInit
  BY DEF Init, Atomic!EventInit, Threads, Phase
<1>2. IInv /\ [Next]_vars => [Atomic!EventNext]_(Atomic!evars)
  <2> SUFFICES ASSUME IInv, [Next]_vars
               PROVE  Atomic!EventNext \/ UNCHANGED Atomic!evars
    BY DEF Atomic!evars
  <2> USE EventAssumption
      DEF IInv, TypeOK, Threads, Goes, Phase, Atomic!EventNext, Atomic!evars
  <2>1. ASSUME NEW t \in Threads, Call(t)
        PROVE  Atomic!EventNext \/ UNCHANGED Atomic!evars
    BY <2>1, ZenonT(60) DEF Call, Atomic!Enter
  <2>2. ASSUME NEW t \in Threads, Lock(t)
        PROVE  Atomic!EventNext \/ UNCHANGED Atomic!evars
    BY <2>2 DEF Lock
  <2>3. ASSUME NEW t \in Waiters, Test(t)
        PROVE  Atomic!EventNext \/ UNCHANGED Atomic!evars
    <3>1. CASE ready
      <4>1. Atomic!Take(t)
        BY <2>3, <3>1 DEF Test, Atomic!Take
      <4> QED
        BY <4>1 DEF Atomic!TakeSome
    <3>2. CASE ~ready
      BY <2>3, <3>2 DEF Test
    <3> QED
      BY <3>1, <3>2
  <2>4. ASSUME NEW t \in Waiters, IsLocked(t)
        PROVE  Atomic!EventNext \/ UNCHANGED Atomic!evars
    BY <2>4 DEF IsLocked
  <2>5. ASSUME NEW t \in Waiters, Return(t)
        PROVE  Atomic!EventNext \/ UNCHANGED Atomic!evars
    BY <2>5 DEF Return, Atomic!Leave
  <2>6. ASSUME NEW t \in Waiters, Spurious(t)
        PROVE  Atomic!EventNext \/ UNCHANGED Atomic!evars
    BY <2>6 DEF Spurious
  <2>7. ASSUME NEW t \in Signallers, SetReady(t)
        PROVE  Atomic!EventNext \/ UNCHANGED Atomic!evars
    BY <2>7, ZenonT(60) DEF SetReady, Atomic!Raise
  <2>8. ASSUME NEW t \in Signallers, Notify(t)
        PROVE  Atomic!EventNext \/ UNCHANGED Atomic!evars
    BY <2>8, ZenonT(60) DEF Notify, Asleep, Atomic!Leave
  <2>9. CASE UNCHANGED vars
    BY <2>9 DEF vars
  <2> QED
    BY <2>1, <2>2, <2>3, <2>4, <2>5, <2>6, <2>7, <2>8, <2>9
       DEF Next, WaiterStep, SignallerStep
<1> QED
  BY <1>1, <1>2, EventInvariance, PTL DEF Spec
=============================================================================
