--------------------------- MODULE SequenceFacts ---------------------------
(***************************************************************************)
(* Facts about the lists that join the threads (GenericQ's entries): what   *)
(* unlinking the oldest and linking a new entry do to a list, to the set of *)
(* what it holds, and how many things a short list can name.                *)
(***************************************************************************)
EXTENDS Integers, Sequences, FiniteSets, Functions, SequenceTheorems,
        FiniteSetTheorems, TLAPS

(* What unlinking the oldest entry of the list leaves.                       *)
LEMMA TailFacts ==
    ASSUME NEW S, NEW s \in Seq(S), s # <<>>
    PROVE  /\ Tail(s) \in Seq(S) /\ Head(s) \in S /\ Head(s) = s[1]
           /\ Len(s) \in Nat /\ Len(s) >= 1 /\ Len(Tail(s)) = Len(s) - 1
           /\ DOMAIN s = 1 .. Len(s) /\ DOMAIN Tail(s) = 1 .. (Len(s) - 1)
           /\ \A i \in DOMAIN Tail(s) :
                i \in DOMAIN s /\ i + 1 \in DOMAIN s /\ Tail(s)[i] = s[i + 1]
BY HeadTailProperties, EmptySeq, LenProperties

(* What appending to it adds.                                                *)
LEMMA AppendFacts ==
    ASSUME NEW S, NEW s \in Seq(S), NEW e \in S
    PROVE  /\ Append(s, e) \in Seq(S)
           /\ Len(s) \in Nat /\ Len(Append(s, e)) = Len(s) + 1
           /\ DOMAIN s = 1 .. Len(s) /\ DOMAIN Append(s, e) = 1 .. (Len(s) + 1)
           /\ \A i \in DOMAIN s : i \in DOMAIN Append(s, e)
                                  /\ Append(s, e)[i] = s[i]
           /\ Append(s, e)[Len(s) + 1] = e
BY AppendProperties, LenProperties

(* The last entry of a list stays so until it is unlinked.                   *)
LEMMA LastFacts ==
    ASSUME NEW S, NEW s \in Seq(S), s # <<>>
    PROVE  /\ Tail(s) = <<>> => Head(s) = s[Len(s)]
           /\ Tail(s) # <<>> => Tail(s)[Len(Tail(s))] = s[Len(s)]
<1>1. /\ Tail(s) \in Seq(S) /\ Head(s) = s[1]
      /\ Len(s) \in Nat /\ Len(s) >= 1 /\ Len(Tail(s)) = Len(s) - 1
      /\ DOMAIN Tail(s) = 1 .. (Len(s) - 1)
      /\ \A i \in DOMAIN Tail(s) : Tail(s)[i] = s[i + 1]
  BY TailFacts
<1>2. ASSUME Tail(s) = <<>> PROVE Len(s) = 1
  <2>1. Len(<<>>) = 0
    OBVIOUS
  <2>2. Len(Tail(s)) = 0
    BY <1>2, <2>1, Zenon
  <2>3. Len(s) - 1 = 0 /\ Len(s) \in Nat
    BY <1>1, <2>2
  <2> QED
    BY ONLY <2>3
<1>3. ASSUME Tail(s) # <<>> PROVE Len(s) - 1 \in 1 .. (Len(s) - 1)
  BY <1>1, <1>3, EmptySeq
<1> QED
  BY <1>1, <1>2, <1>3

(* What Append() adds is the last element.                                   *)
LEMMA AppendIsLast ==
    ASSUME NEW S, NEW s \in Seq(S), NEW e \in S
    PROVE  Append(s, e) # <<>> /\ Append(s, e)[Len(Append(s, e))] = e
<1>1. /\ Len(s) \in Nat /\ Len(Append(s, e)) = Len(s) + 1
      /\ Append(s, e)[Len(s) + 1] = e
  BY AppendFacts
<1>2. Append(s, e) # <<>>
  BY <1>1, EmptySeq
<1> QED
  BY <1>1, <1>2

(* Unlinking the oldest of distinct entries removes it from the range and    *)
(* keeps the rest distinct.                                                  *)
LEMMA TailHoldsRest ==
    ASSUME NEW S, NEW s \in Seq(S), s # <<>>, IsInjective(s)
    PROVE  /\ Range(Tail(s)) = Range(s) \ {Head(s)}
           /\ Head(s) \in Range(s)
           /\ IsInjective(Tail(s))
<1>1. /\ Head(s) = s[1] /\ Len(s) \in Nat /\ Len(s) >= 1
      /\ DOMAIN s = 1 .. Len(s) /\ DOMAIN Tail(s) = 1 .. (Len(s) - 1)
      /\ \A i \in DOMAIN Tail(s) : Tail(s)[i] = s[i + 1]
  BY TailFacts
<1>2. ASSUME NEW i \in DOMAIN s, s[i] # Head(s)
      PROVE  i - 1 \in DOMAIN Tail(s) /\ Tail(s)[i - 1] = s[i]
  BY <1>1, <1>2
<1>3. ASSUME NEW i \in DOMAIN Tail(s)
      PROVE  i + 1 \in DOMAIN s /\ Tail(s)[i] = s[i + 1] /\ s[i + 1] # Head(s)
  <2>1. i + 1 \in DOMAIN s /\ 1 \in DOMAIN s /\ i + 1 # 1
    BY <1>1, <1>3
  <2> QED
    BY <2>1, <1>1 DEF IsInjective
<1>4. Range(Tail(s)) = Range(s) \ {Head(s)}
  <2>1. ASSUME NEW x \in Range(s) \ {Head(s)} PROVE x \in Range(Tail(s))
    BY <2>1, <1>2 DEF Range
  <2>2. ASSUME NEW x \in Range(Tail(s)) PROVE x \in Range(s) \ {Head(s)}
    BY <2>2, <1>3 DEF Range
  <2> QED
    BY <2>1, <2>2
<1>5. Head(s) \in Range(s)
  BY <1>1 DEF Range
<1>6. ASSUME NEW i \in DOMAIN Tail(s), NEW j \in DOMAIN Tail(s),
             Tail(s)[i] = Tail(s)[j]
      PROVE  i = j
  <2>1. i + 1 = j + 1
    BY <1>3, <1>6 DEF IsInjective
  <2> QED
    BY <2>1, <1>1
<1> QED
  BY <1>4, <1>5, <1>6 DEF IsInjective

(* Appending an element that is not there adds it and keeps them distinct.   *)
LEMMA AppendHoldsAll ==
    ASSUME NEW S, NEW s \in Seq(S), NEW e \in S, e \notin Range(s),
           IsInjective(s)
    PROVE  /\ Range(Append(s, e)) = Range(s) \cup {e}
           /\ IsInjective(Append(s, e))
<1>1. /\ Len(s) \in Nat /\ DOMAIN s = 1 .. Len(s)
      /\ DOMAIN Append(s, e) = 1 .. (Len(s) + 1)
      /\ \A i \in DOMAIN s : Append(s, e)[i] = s[i]
      /\ Append(s, e)[Len(s) + 1] = e
  BY AppendFacts
<1>2. \A i \in DOMAIN Append(s, e) : i \in DOMAIN s \/ i = Len(s) + 1
  BY <1>1
<1>3. DOMAIN s \subseteq DOMAIN Append(s, e)
      /\ Len(s) + 1 \in DOMAIN Append(s, e)
  BY <1>1
<1>4. Range(Append(s, e)) = Range(s) \cup {e}
  BY <1>1, <1>2, <1>3 DEF Range
<1>5. \A i \in DOMAIN s : Append(s, e)[i] # e
  BY <1>1 DEF Range
<1>6. IsInjective(Append(s, e))
  BY <1>1, <1>2, <1>5 DEF IsInjective
<1> QED
  BY <1>4, <1>6

(* A sequence of at most two elements has nothing but its first and second.  *)
LEMMA TwoAtMost ==
    ASSUME NEW S, NEW s \in Seq(S), Len(s) <= 2
    PROVE  \A x \in Range(s) : \/ x = s[1] /\ Len(s) >= 1
                               \/ x = s[2] /\ Len(s) = 2
<1>1. Len(s) \in Nat /\ DOMAIN s = 1 .. Len(s)
  BY LenProperties
<1>2. ASSUME NEW n \in Nat, n <= 2, NEW i \in 1 .. n
      PROVE  (i = 1 /\ n >= 1) \/ (i = 2 /\ n = 2)
  BY <1>2
<1> QED
  BY <1>1, <1>2 DEF Range

(* Two names name at most two things.                                        *)
LEMMA TwoNamed ==
    ASSUME NEW a, NEW b
    PROVE  IsFiniteSet({a, b}) /\ Cardinality({a, b}) <= 2
<1>1. IsFiniteSet({a}) /\ Cardinality({a}) = 1
  BY FS_Singleton
<1>2. /\ IsFiniteSet({a} \cup {b})
      /\ Cardinality({a} \cup {b}) = IF b \in {a} THEN Cardinality({a})
                                    ELSE Cardinality({a}) + 1
  BY <1>1, FS_AddElement, Zenon
<1>3. Cardinality({a} \cup {b}) <= 2
  BY <1>1, <1>2
<1>4. {a, b} = {a} \cup {b}
  OBVIOUS
<1> QED
  BY <1>2, <1>3, <1>4

(* Three names name at most three.                                           *)
LEMMA ThreeNamed ==
    ASSUME NEW a, NEW b, NEW c
    PROVE  IsFiniteSet({a, b, c}) /\ Cardinality({a, b, c}) <= 3
<1> DEFINE ab == {a, b}
<1>1. IsFiniteSet(ab) /\ Cardinality(ab) <= 2
  BY TwoNamed
<1> HIDE DEF ab
<1>2. /\ IsFiniteSet(ab \cup {c})
      /\ Cardinality(ab \cup {c}) = IF c \in ab THEN Cardinality(ab)
                                    ELSE Cardinality(ab) + 1
  BY <1>1, FS_AddElement, Zenon
<1>3. Cardinality(ab) \in Nat
  BY <1>1, FS_CardinalityType
<1>4. Cardinality(ab \cup {c}) <= 3
  BY <1>1, <1>2, <1>3
<1>5. {a, b, c} = ab \cup {c}
  BY DEF ab
<1> QED
  BY <1>2, <1>4, <1>5

-----------------------------------------------------------------------------
(* Where each entry of a list carries a number                               *)

(* The number of each thing that can be in the list, and the list's numbers  *)
Numbering(S) == [S -> Nat]
Mapped(c, s) == [i \in DOMAIN s |-> c[s[i]]]

(* The numbers are a list as long as that of the entries.                    *)
LEMMA MappedType ==
    ASSUME NEW S, NEW c \in Numbering(S), NEW s \in Seq(S)
    PROVE  /\ Mapped(c, s) \in Seq(Nat) /\ Len(Mapped(c, s)) = Len(s)
           /\ Len(s) \in Nat /\ DOMAIN Mapped(c, s) = 1 .. Len(s)
           /\ \A i \in 1 .. Len(s) : Mapped(c, s)[i] = c[s[i]]
<1>1. Len(s) \in Nat /\ DOMAIN s = 1 .. Len(s) /\ s \in [1 .. Len(s) -> S]
  BY LenProperties
<1>2. Mapped(c, s) \in [1 .. Len(s) -> Nat]
  BY <1>1 DEF Mapped, Numbering
<1>3. Mapped(c, s) \in Seq(Nat)
  BY <1>1, <1>2, SeqDef
<1>4. Len(Mapped(c, s)) \in Nat
      /\ DOMAIN Mapped(c, s) = 1 .. Len(Mapped(c, s))
  BY <1>3, LenProperties
<1>5. Len(Mapped(c, s)) = Len(s)
  <2>1. 1 .. Len(Mapped(c, s)) = 1 .. Len(s)
    BY <1>2, <1>4
  <2>2. ASSUME NEW m \in Nat, NEW n \in Nat, 1 .. m = 1 .. n
        PROVE  m = n
    <3>1. /\ m < n => n \in 1 .. n /\ n \notin 1 .. m
          /\ n < m => m \in 1 .. m /\ m \notin 1 .. n
      OBVIOUS
    <3> QED
      BY <2>2, <3>1
  <2> QED
    BY <2>1, <2>2, <1>1, <1>4
<1> QED
  BY <1>1, <1>2, <1>3, <1>5 DEF Mapped

(* The same of every list at once                                            *)
LEMMA MappedAll ==
    ASSUME NEW S, NEW c \in Numbering(S)
    PROVE  \A s \in Seq(S) :
              /\ Mapped(c, s) \in Seq(Nat) /\ Len(Mapped(c, s)) = Len(s)
              /\ \A i \in 1 .. Len(s) : Mapped(c, s)[i] = c[s[i]]
<1> TAKE s \in Seq(S)
<1> QED
  BY MappedType

(* The numbers of what is left when the oldest entry is unlinked             *)
LEMMA MappedTail ==
    ASSUME NEW S, NEW c \in Numbering(S), NEW s \in Seq(S), s # <<>>
    PROVE  /\ Mapped(c, s) # <<>>
           /\ Head(Mapped(c, s)) = c[Head(s)]
           /\ Mapped(c, Tail(s)) = Tail(Mapped(c, s))
<1>1. /\ Tail(s) \in Seq(S) /\ Head(s) = s[1]
      /\ Len(s) \in Nat /\ Len(s) >= 1 /\ Len(Tail(s)) = Len(s) - 1
      /\ \A i \in 1 .. Len(s) - 1 : Tail(s)[i] = s[i + 1]
  BY TailFacts
<1>all. \A t \in Seq(S) :
          /\ Mapped(c, t) \in Seq(Nat) /\ Len(Mapped(c, t)) = Len(t)
          /\ \A i \in 1 .. Len(t) : Mapped(c, t)[i] = c[t[i]]
  BY MappedAll
<1>2. /\ Mapped(c, s) \in Seq(Nat) /\ Len(Mapped(c, s)) = Len(s)
      /\ \A i \in 1 .. Len(s) : Mapped(c, s)[i] = c[s[i]]
  BY <1>all
<1>3. /\ Mapped(c, Tail(s)) \in Seq(Nat)
      /\ Len(Mapped(c, Tail(s))) = Len(s) - 1
      /\ \A i \in 1 .. Len(s) - 1 : Mapped(c, Tail(s))[i] = c[s[i + 1]]
  <2>1. /\ Mapped(c, Tail(s)) \in Seq(Nat)
        /\ Len(Mapped(c, Tail(s))) = Len(Tail(s))
        /\ \A i \in 1 .. Len(Tail(s)) :
              Mapped(c, Tail(s))[i] = c[Tail(s)[i]]
    BY <1>1, <1>all
  <2> QED
    BY <1>1, <2>1
<1>4. Mapped(c, s) # <<>>
  BY <1>1, <1>2, EmptySeq
<1>5. /\ Tail(Mapped(c, s)) \in Seq(Nat) /\ Len(Tail(Mapped(c, s))) = Len(s) - 1
      /\ Head(Mapped(c, s)) = c[s[1]]
      /\ \A i \in 1 .. Len(s) - 1 : Tail(Mapped(c, s))[i] = c[s[i + 1]]
  BY <1>1, <1>2, <1>4, TailFacts
<1>6. Mapped(c, Tail(s)) = Tail(Mapped(c, s))
  <2> DEFINE t == Mapped(c, Tail(s))
             u == Tail(Mapped(c, s))
  <2>1. /\ t \in Seq(Nat) /\ u \in Seq(Nat) /\ Len(t) = Len(u)
        /\ \A i \in 1 .. Len(t) : t[i] = u[i]
    BY <1>1, <1>3, <1>5
  <2> HIDE DEF t, u
  <2>2. t = u
    BY <2>1, SeqEqual
  <2> QED
    BY <2>2 DEF t, u
<1> QED
  BY <1>1, <1>4, <1>5, <1>6

(* ... and with a new entry linked at the end                                *)
LEMMA MappedAppend ==
    ASSUME NEW S, NEW c \in Numbering(S), NEW s \in Seq(S), NEW e \in S
    PROVE  Mapped(c, Append(s, e)) = Append(Mapped(c, s), c[e])
<1>1. /\ Append(s, e) \in Seq(S) /\ Len(s) \in Nat
      /\ Len(Append(s, e)) = Len(s) + 1
      /\ \A i \in 1 .. Len(s) : Append(s, e)[i] = s[i]
      /\ Append(s, e)[Len(s) + 1] = e
  BY AppendFacts
<1>all. \A t \in Seq(S) :
          /\ Mapped(c, t) \in Seq(Nat) /\ Len(Mapped(c, t)) = Len(t)
          /\ \A i \in 1 .. Len(t) : Mapped(c, t)[i] = c[t[i]]
  BY MappedAll
<1>2. /\ Mapped(c, s) \in Seq(Nat) /\ Len(Mapped(c, s)) = Len(s)
      /\ \A i \in 1 .. Len(s) : Mapped(c, s)[i] = c[s[i]]
  BY <1>all
<1>3. /\ Mapped(c, Append(s, e)) \in Seq(Nat)
      /\ Len(Mapped(c, Append(s, e))) = Len(s) + 1
      /\ \A i \in 1 .. Len(s) + 1 :
            Mapped(c, Append(s, e))[i] = c[Append(s, e)[i]]
  <2>1. /\ Mapped(c, Append(s, e)) \in Seq(Nat)
        /\ Len(Mapped(c, Append(s, e))) = Len(Append(s, e))
        /\ \A i \in 1 .. Len(Append(s, e)) :
              Mapped(c, Append(s, e))[i] = c[Append(s, e)[i]]
    BY <1>1, <1>all
  <2> QED
    BY <1>1, <2>1
<1>4. /\ Append(Mapped(c, s), c[e]) \in Seq(Nat)
      /\ Len(Append(Mapped(c, s), c[e])) = Len(s) + 1
      /\ \A i \in 1 .. Len(s) : Append(Mapped(c, s), c[e])[i] = c[s[i]]
      /\ Append(Mapped(c, s), c[e])[Len(s) + 1] = c[e]
  <2>1. c[e] \in Nat
    BY DEF Numbering
  <2> QED
    BY <1>1, <1>2, <2>1, AppendProperties
<1>5. ASSUME NEW i \in 1 .. Len(s) + 1
      PROVE  Mapped(c, Append(s, e))[i] = Append(Mapped(c, s), c[e])[i]
  <2>1. CASE i = Len(s) + 1
    BY <2>1, <1>1, <1>3, <1>4
  <2>2. CASE i \in 1 .. Len(s)
    BY <2>2, <1>1, <1>3, <1>4, ZenonT(60)
  <2>3. i = Len(s) + 1 \/ i \in 1 .. Len(s)
    <3>1. Len(s) \in Nat
      BY <1>1
    <3> QED
      BY <3>1
  <2> QED
    BY <2>1, <2>2, <2>3
<1> QED
  BY <1>1, <1>3, <1>4, <1>5, SeqEqual, SMTT(30)

(* What is put before a list is the first to leave it.                       *)
LEMMA Prefixed ==
    ASSUME NEW T, NEW x \in T, NEW s \in Seq(T)
    PROVE  /\ <<x>> \o s \in Seq(T) /\ <<x>> \o s # <<>>
           /\ Len(<<x>> \o s) = Len(s) + 1 /\ Len(s) \in Nat
           /\ Head(<<x>> \o s) = x /\ Tail(<<x>> \o s) = s
           /\ s # <<>> => <<Head(s)>> \o Tail(s) = s
<1>1. <<x>> \in Seq(T) /\ Len(<<x>>) = 1 /\ <<x>>[1] = x
  OBVIOUS
<1>2. Len(s) \in Nat
  BY LenProperties
<1>3. /\ <<x>> \o s \in Seq(T) /\ Len(<<x>> \o s) = Len(s) + 1
      /\ \A i \in 1 .. 1 + Len(s) :
            (<<x>> \o s)[i] = IF i <= 1 THEN <<x>>[i] ELSE s[i - 1]
  BY <1>1, <1>2, ConcatProperties
<1>4. <<x>> \o s # <<>>
  BY <1>2, <1>3, EmptySeq
<1>5. /\ Head(<<x>> \o s) = x
      /\ Tail(<<x>> \o s) \in Seq(T) /\ Len(Tail(<<x>> \o s)) = Len(s)
      /\ \A i \in 1 .. Len(s) : Tail(<<x>> \o s)[i] = (<<x>> \o s)[i + 1]
  BY <1>1, <1>2, <1>3, <1>4, TailFacts
<1>6. Tail(<<x>> \o s) = s
  <2>1. \A i \in 1 .. Len(s) : Tail(<<x>> \o s)[i] = s[i]
    BY <1>2, <1>3, <1>5
  <2> QED
    BY <2>1, <1>5, SeqEqual
<1>7. ASSUME s # <<>> PROVE <<Head(s)>> \o Tail(s) = s
  BY <1>7, HeadTailAppend, HeadTailProperties, SubSeqRecursiveFirst, SubSeqFull,
     TailIsSubSeq, TailFacts
<1> QED
  BY <1>2, <1>3, <1>4, <1>5, <1>6, <1>7

(* It does not disturb what is linked at the end.                            *)
LEMMA PrefixedAppend ==
    ASSUME NEW x \in Nat, NEW s \in Seq(Nat), NEW y \in Nat
    PROVE  <<x>> \o Append(s, y) = Append(<<x>> \o s, y)
<1>1. <<x>> \in Seq(Nat) /\ <<y>> \in Seq(Nat)
  OBVIOUS
<1>2. <<x>> \o s \in Seq(Nat)
  BY Prefixed
<1> QED
  BY <1>1, <1>2, ConcatAssociative, AppendIsConcat, SMTT(30)

(* What is left of a list when its oldest entry is taken out of it, and when *)
(* that is done behind a first number.                                       *)
LEMMA WithoutOldest ==
    ASSUME NEW T, NEW s \in Seq(T), s # <<>>
    PROVE  /\ SubSeq(s, 1, 0) \o SubSeq(s, 2, Len(s)) = Tail(s)
           /\ 1 \in DOMAIN s
<1>1. SubSeq(s, 1, 0) = <<>>
  BY SubSeqEmpty
<1>2. SubSeq(s, 2, Len(s)) = Tail(s) /\ Tail(s) \in Seq(T) /\ 1 \in DOMAIN s
  BY TailIsSubSeq, TailFacts
<1> QED
  BY <1>1, <1>2, ConcatEmptySeq

(* Taking the second of a sequence takes the first behind a prefix of one.   *)
LEMMA WithoutSecond ==
    ASSUME NEW T, NEW x \in T, NEW s \in Seq(T), s # <<>>, NEW p, p = <<x>> \o s
    PROVE  /\ SubSeq(p, 1, 1) \o SubSeq(p, 3, Len(p)) = <<x>> \o Tail(s)
           /\ 2 \in DOMAIN p
<1>1. /\ p \in Seq(T) /\ p # <<>> /\ Len(p) = Len(s) + 1 /\ Len(s) \in Nat
      /\ Head(p) = x /\ Tail(p) = s
  BY Prefixed
<1>2. Len(s) >= 1 /\ DOMAIN p = 1 .. Len(p) /\ p[1] = x
  BY <1>1, TailFacts
<1>3. SubSeq(p, 1, 1) = <<x>>
  <2>1. 1 \in 1 .. Len(p)
    BY <1>1, <1>2
  <2>2. SubSeq(p, 1, 1) = <<p[1]>> \o SubSeq(p, 2, 1)
    BY <1>1, <2>1, SubSeqRecursiveFirst
  <2>3. SubSeq(p, 2, 1) = <<>>
    BY SubSeqEmpty
  <2>4. <<x>> \in Seq(T)
    OBVIOUS
  <2>5. <<x>> \o <<>> = <<x>>
    BY <2>4, ConcatEmptySeq
  <2> QED
    BY <1>2, <2>2, <2>3, <2>5
<1>4. SubSeq(p, 3, Len(p)) = Tail(s)
  <2>1. 2 \in 1 .. Len(p) /\ Len(p) \in 2 .. Len(p)
    BY <1>1, <1>2
  <2>2. Tail(SubSeq(p, 2, Len(p))) = SubSeq(p, 3, Len(p))
    BY <1>1, <2>1, HeadTailOfSubSeq
  <2>3. SubSeq(p, 2, Len(p)) = s
    BY <1>1, TailIsSubSeq
  <2> QED
    BY <2>2, <2>3
<1> QED
  BY <1>1, <1>2, <1>3, <1>4
=============================================================================
