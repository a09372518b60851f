-------------------------- MODULE TopicFileProofs --------------------------
(***************************************************************************)
(* What reading the file of a topic returns, for every file.               *)
(***************************************************************************)
EXTENDS TopicFile, SequenceTheorems, WellFoundedInduction, TLAPS

Frame == LogRecord \cup {Torn}

-----------------------------------------------------------------------------
(* Where the first tear is.                                                *)

(* Among some natural numbers one is the least. *)
LEMMA SomeLeast ==
  ASSUME NEW S \in SUBSET Nat, S # {}
  PROVE  \E x \in S : \A y \in S : x <= y
<1> DEFINE Less == {p \in Nat \X Nat : p[1] < p[2]}
<1>1. IsWellFoundedOn(Less, Nat)
  BY NatLessThanWellFounded DEF OpToRel
<1>2. PICK x \in S : \A y \in S : ~(<<y, x>> \in Less)
  <2> HIDE DEF Less
  <2> QED
    BY <1>1, WFMin
<1>3. ASSUME NEW y \in S PROVE x <= y
  <2>1. <<y, x>> \notin Less
    BY <1>2
  <2> QED
    BY <2>1
<1> QED
  BY <1>3

LEMMA TearFreePrefix ==
  ASSUME NEW f \in Seq(Frame), NEW n \in 0 .. Len(f)
  PROVE  TearFree(SubSeq(f, 1, n)) <=> \A i \in 1 .. n : f[i] # Torn
<1>1. Len(SubSeq(f, 1, n)) = n /\ \A i \in 1 .. n : SubSeq(f, 1, n)[i] = f[i]
  BY SubSeqProperties
<1> QED
  BY <1>1 DEF TearFree

(* The defining properties of WholeLength hold of exactly one number.      *)
LEMMA WholeLengthExists ==
  ASSUME NEW f \in Seq(Frame)
  PROVE  /\ WholeLength(f) \in 0 .. Len(f)
         /\ \A i \in 1 .. WholeLength(f) : f[i] # Torn
         /\ WholeLength(f) < Len(f) => f[WholeLength(f) + 1] = Torn
<1> DEFINE P(n) == /\ TearFree(SubSeq(f, 1, n))
                   /\ n < Len(f) => f[n + 1] = Torn
           tears == {i \in 1 .. Len(f) : f[i] = Torn}
<1>1. \E n \in 0 .. Len(f) : P(n)
  <2>1. CASE tears = {}
    <3>1. \A i \in 1 .. Len(f) : f[i] # Torn
      BY <2>1
    <3> QED
      BY <3>1, TearFreePrefix
  <2>2. CASE tears # {}
    <3>1. PICK t \in tears : \A y \in tears : t <= y
      <4>1. tears \in SUBSET Nat
        OBVIOUS
      <4> HIDE DEF tears
      <4> QED
        BY <2>2, <4>1, SomeLeast
    <3>2. t - 1 \in 0 .. Len(f) /\ \A i \in 1 .. (t - 1) : f[i] # Torn
      BY <3>1
    <3>3. TearFree(SubSeq(f, 1, t - 1))
      BY <3>2, TearFreePrefix
    <3>4. (t - 1) + 1 = t /\ f[t] = Torn
      BY <3>1
    <3>5. P(t - 1)
      BY <3>3, <3>4
    <3> QED
      BY <3>2, <3>5
  <2> QED
    BY <2>1, <2>2
<1>2. WholeLength(f) \in 0 .. Len(f) /\ P(WholeLength(f))
  <2>1. WholeLength(f) = CHOOSE n \in 0 .. Len(f) : P(n)
    BY DEF WholeLength
  <2> HIDE DEF P
  <2> QED
    BY <1>1, <2>1
<1> QED
  BY <1>2, TearFreePrefix

LEMMA WholeLengthIs ==
  ASSUME NEW f \in Seq(Frame), NEW n \in 0 .. Len(f),
         \A i \in 1 .. n : f[i] # Torn,
         n < Len(f) => f[n + 1] = Torn
  PROVE  WholeLength(f) = n
<1>1. ~(WholeLength(f) < n)
  <2>1. WholeLength(f) < n => WholeLength(f) + 1 \in 1 .. n /\ WholeLength(f) < Len(f)
    BY WholeLengthExists
  <2> QED
    BY <2>1, WholeLengthExists
<1>2. ~(n < WholeLength(f))
  <2>1. n < WholeLength(f) => n + 1 \in 1 .. WholeLength(f) /\ n < Len(f)
    BY WholeLengthExists
  <2> QED
    BY <2>1, WholeLengthExists
<1> QED
  BY <1>1, <1>2, WholeLengthExists

LEMMA WholeLengthTearFree ==
  ASSUME NEW f \in Seq(Frame)
  PROVE  TearFree(f) <=> WholeLength(f) = Len(f)
<1>1. TearFree(f) => WholeLength(f) = Len(f)
  BY WholeLengthIs DEF TearFree
<1>2. WholeLength(f) = Len(f) => TearFree(f)
  BY WholeLengthExists DEF TearFree
<1> QED
  BY <1>1, <1>2

(* A frame written behind a tear, or a tear, leaves the first tear where   *)
(* it is; a record written behind whole records is one of them.            *)
LEMMA WholeLengthAppend ==
  ASSUME NEW f \in Seq(Frame), NEW frame \in Frame
  PROVE  WholeLength(Append(f, frame)) =
           IF TearFree(f) /\ frame # Torn THEN Len(f) + 1 ELSE WholeLength(f)
<1> DEFINE g == Append(f, frame)
<1>1. /\ g \in Seq(Frame)
      /\ Len(g) = Len(f) + 1
      /\ g[Len(f) + 1] = frame
      /\ \A i \in 1 .. Len(f) : g[i] = f[i]
  BY AppendProperties
<1> HIDE DEF g
<1>2. CASE TearFree(f) /\ frame # Torn
  <2>1. TearFree(g)
    BY <1>1, <1>2 DEF TearFree
  <2> QED
    BY <1>1, <1>2, <2>1, WholeLengthTearFree DEF g
<1>3. CASE TearFree(f) /\ frame = Torn
  <2>1. WholeLength(f) = Len(f)
    BY <1>3, WholeLengthTearFree
  <2>2. WholeLength(g) = Len(f)
    BY <1>1, <1>3, WholeLengthIs DEF TearFree
  <2> QED
    BY <1>3, <2>1, <2>2 DEF g
<1>4. CASE ~TearFree(f)
  <2>1. WholeLength(f) \in 0 .. Len(f) /\ WholeLength(f) # Len(f)
    BY <1>4, WholeLengthExists, WholeLengthTearFree
  <2>2. /\ \A i \in 1 .. WholeLength(f) : g[i] # Torn
        /\ g[WholeLength(f) + 1] = Torn
    <3>1. /\ \A i \in 1 .. WholeLength(f) : i \in 1 .. Len(f)
          /\ WholeLength(f) + 1 \in 1 .. Len(f)
          /\ WholeLength(f) < Len(f)
      BY <2>1
    <3> QED
      BY <1>1, <3>1, WholeLengthExists
  <2>3. WholeLength(g) = WholeLength(f)
    <3>1. WholeLength(f) \in 0 .. Len(g)
      BY <1>1, <2>1
    <3> QED
      BY <1>1, <2>2, <3>1, WholeLengthIs
  <2> QED
    BY <1>4, <2>3 DEF g
<1> QED
  BY <1>2, <1>3, <1>4

-----------------------------------------------------------------------------
(* What is read.                                                           *)

LEMMA WholePrefixType ==
  ASSUME NEW f \in Seq(Frame)
  PROVE  WholePrefix(f) \in Seq(LogRecord)
<1>1. \A i \in 1 .. WholeLength(f) : f[i] \in LogRecord
  <2> SUFFICES ASSUME NEW i \in 1 .. WholeLength(f) PROVE f[i] \in LogRecord
    OBVIOUS
  <2>1. i \in 1 .. Len(f) /\ f[i] # Torn
    BY WholeLengthExists
  <2> QED
    BY <2>1 DEF Frame
<1>2. WholeLength(f) \in Int
  BY WholeLengthExists
<1> QED
  BY <1>1, <1>2, SubSeqProperties DEF WholePrefix

(* A file without a tear is read as it is. *)
LEMMA ReadingWhole ==
  ASSUME NEW f \in Seq(Frame), TearFree(f)
  PROVE  Readings(f) = {f}
<1>1. WholeLength(f) = Len(f) /\ Len(f) \in Nat
  BY WholeLengthTearFree
<1>2. ~TearInside(f)
  BY <1>1 DEF TearInside
<1>3. WholePrefix(f) = f
  BY <1>1, SubSeqFull DEF WholePrefix
<1> QED
  BY <1>2, <1>3 DEF Readings

(* Whatever the file, only records are read.                               *)
LEMMA ReadingType ==
  ASSUME NEW f \in Seq(Frame), NEW data \in Readings(f)
  PROVE  data \in Seq(LogRecord)
<1>1. CASE ~TearInside(f)
  BY <1>1, WholePrefixType DEF Readings
<1>2. CASE TearInside(f)
  <2>1. PICK b \in Blend, j \in (WholeLength(f) + 3) .. (Len(f) + 1) :
          data = WholePrefix(f) \o b \o WholePrefix(SubSeq(f, j, Len(f)))
    <3> DEFINE after(j) == WholePrefix(SubSeq(f, j, Len(f)))
               resumed == {after(j) : j \in (WholeLength(f) + 3) .. (Len(f) + 1)}
           joined(b, r) == WholePrefix(f) \o b \o r
    <3>1. Readings(f) = {joined(b, r) : b \in Blend, r \in resumed}
      BY <1>2 DEF Readings
    <3>2. PICK b \in Blend, r \in resumed : data = joined(b, r)
      <4> HIDE DEF resumed, joined
      <4>1. data \in {joined(b, r) : b \in Blend, r \in resumed}
        BY <3>1
      <4> QED
        BY <4>1
    <3>3. PICK j \in (WholeLength(f) + 3) .. (Len(f) + 1) : r = after(j)
      <4> HIDE DEF after
      <4> QED
        BY <3>2
    <3> QED
      BY <3>2, <3>3
  <2>2. b \in Seq(LogRecord)
    <3>1. CASE b = << >>
      BY <3>1
    <3>2. CASE b # << >>
      <4>1. PICK n \in 0 .. MaxRecords, m \in Messages :
              b = <<[offset |-> n, message |-> m]>>
        BY <2>1, <3>2 DEF Blend
      <4>2. [offset |-> n, message |-> m] \in LogRecord
        BY TopicFileAssumption DEF LogRecord
      <4> QED
        BY <4>1, <4>2
    <3> QED
      BY <3>1, <3>2
  <2>3. WholePrefix(SubSeq(f, j, Len(f))) \in Seq(LogRecord)
    <3>1. j \in Int /\ Len(f) \in Int /\ \A i \in j .. Len(f) : f[i] \in Frame
      BY WholeLengthExists
    <3>2. SubSeq(f, j, Len(f)) \in Seq(Frame)
      BY <3>1, SubSeqProperties
    <3> QED
      BY <3>2, WholePrefixType
  <2>4. WholePrefix(f) \in Seq(LogRecord)
    BY WholePrefixType
  <2> QED
    BY <2>1, <2>2, <2>3, <2>4
<1> QED
  BY <1>1, <1>2

=============================================================================
