------------------------ MODULE PackageDataStreamProofs ------------------------
(***************************************************************************)
(* Proofs about the sizes and positions of PackageSequence and about the   *)
(* streams of PackageDataStream, for packages of any size, any lengths of  *)
(* segments and data files, and any number of slots and requests.          *)
(*                                                                         *)
(* The sums of GetSizeOfParts and the concatenations are recursive         *)
(* functions; what they compute is proved by induction in the form of      *)
(* NatSet: a set that has 0, and the successor of all it has, is Nat.      *)
(***************************************************************************)
EXTENDS PackageDataStream, SequenceTheorems, WellFoundedInduction, TLAPS

-----------------------------------------------------------------------------
(* Arithmetic. *)

LEMMA DivMod ==
    ASSUME NEW a \in Nat, NEW b \in Nat \ {0}
    PROVE  /\ a \div b \in Nat
           /\ a % b \in 0..(b - 1)
           /\ a = b * (a \div b) + (a % b)
OBVIOUS

LEMMA DivModUnique ==
    ASSUME NEW b \in Nat \ {0}, NEW q \in Nat, NEW r \in 0..(b - 1)
    PROVE  /\ (b * q + r) \div b = q
           /\ (b * q + r) % b = r
<1>1. (b * q + r) \div b = q
    OBVIOUS
<1>2. b * q \in Nat
    OBVIOUS
<1>3. b * q + r = b * ((b * q + r) \div b) + ((b * q + r) % b)
    BY <1>2, DivMod
<1>4. QED
    BY <1>1, <1>2, <1>3

LEMMA TimesMonotonic ==
    ASSUME NEW x \in Int, NEW y \in Int, NEW b \in Nat, x <= y
    PROVE  b * x <= b * y
OBVIOUS

-----------------------------------------------------------------------------
(* Pieces. *)

\* All pieces but the last are full, and the last is not empty.
LEMMA Pieces ==
    ASSUME NEW n \in Nat \ {0}, NEW length \in Nat \ {0}
    PROVE  /\ PiecesCount(n, length) \in Nat \ {0}
           /\ LastLength(n, length) \in 1..length
           /\ n = length * (PiecesCount(n, length) - 1) + LastLength(n, length)
<1> DEFINE count == PiecesCount(n, length)
           rest  == (n + length - 1) % length
<1>1. /\ count \in Nat /\ rest \in 0..(length - 1)
      /\ n + length - 1 = length * count + rest
    BY DivMod, n + length - 1 \in Nat DEF PiecesCount
<1>2. count # 0
    BY <1>1
<1> HIDE DEF count, rest
<1>3. length * (count - 1) = length * count - length
    BY <1>1
<1>4. n = length * (count - 1) + (rest + 1)
    BY <1>1, <1>3
<1>5. CASE rest = length - 1
    <2>1. n = length * count + 0
        BY <1>1, <1>5
    <2>2. n % length = 0
        BY <1>1, <2>1, DivModUnique, 0 \in 0..(length - 1)
    <2>3. QED
        BY <1>1, <1>2, <1>4, <1>5, <2>2 DEF LastLength, count
<1>6. CASE rest # length - 1
    <2>1. rest + 1 \in 0..(length - 1) /\ count - 1 \in Nat
        BY <1>1, <1>2, <1>6
    <2>2. n % length = rest + 1
        BY <1>4, <2>1, DivModUnique
    <2>3. QED
        BY <1>1, <1>2, <1>4, <2>1, <2>2 DEF LastLength, count
<1>7. QED
    BY <1>5, <1>6

\* The segments of a package are laid one after the other, and the last one ends
\* with the package.
THEOREM SegmentsTile ==
    ASSUME NEW n \in Nat \ {0}, NEW i \in 0..(SegmentsCount(n) - 1)
    PROVE  /\ SizeOfSegment(n, i) \in 1..SegmentLength
           /\ SegmentLength * i + SizeOfSegment(n, i)
                = IF i = SegmentsCount(n) - 1 THEN n ELSE SegmentLength * (i + 1)
<1>1. /\ SegmentsCount(n) \in Nat \ {0}
      /\ LastLength(n, SegmentLength) \in 1..SegmentLength
      /\ n = SegmentLength * (SegmentsCount(n) - 1) + LastLength(n, SegmentLength)
    BY Pieces, SequenceAssumption DEF SegmentsCount
<1>2. CASE i = SegmentsCount(n) - 1
    BY <1>1, <1>2, SequenceAssumption DEF SizeOfSegment
<1>3. CASE i # SegmentsCount(n) - 1
    <2>1. SegmentLength * (i + 1) = SegmentLength * i + SegmentLength
        BY <1>1, SequenceAssumption
    <2>2. QED
        BY <1>1, <1>3, <2>1, SequenceAssumption DEF SizeOfSegment
<1>4. QED
    BY <1>2, <1>3

\* Where GetPartsInternal looks for a segment is its place in the data files laid
\* one after the other.
THEOREM SegmentPosition ==
    ASSUME NEW i \in Nat
    PROVE  /\ DataFileIndex(i) \in Nat
           /\ SegmentOffsetInDataFile(i) \in 0..(DataFileLength - SegmentLength)
           /\ DataFileLength * DataFileIndex(i) + SegmentOffsetInDataFile(i)
                = SegmentLength * i
<1> DEFINE S == SegmentsPerDataFile
           L == SegmentLength
           q == i \div S
           r == i % S
<1>1. S \in Nat \ {0} /\ L \in Nat \ {0}
    BY SequenceAssumption
<1>2. q \in Nat /\ r \in 0..(S - 1) /\ i = S * q + r
    BY <1>1, DivMod
<1>3. DataFileIndex(i) = q /\ SegmentOffsetInDataFile(i) = r * L /\ DataFileLength = S * L
    BY DEF DataFileIndex, SegmentOffsetInDataFile, DataFileLength
<1> HIDE DEF S, L, q, r
<1>4. r * L \in Nat /\ r * L <= (S - 1) * L /\ (S - 1) * L = S * L - L
    BY <1>1, <1>2
<1>5. (S * L) * q + r * L = L * i
    BY <1>1, <1>2
<1>6. QED
    BY <1>1, <1>2, <1>3, <1>4, <1>5 DEF L

\* No part that is read, written or hashed leaves its data file: the file exists,
\* and it is long enough, the last one included.
THEOREM PartInDataFile ==
    ASSUME NEW n \in Nat \ {0}, NEW i \in 0..(SegmentsCount(n) - 1)
    PROVE  /\ DataFileIndex(i) \in 0..(DataFilesCount(n) - 1)
           /\ SegmentOffsetInDataFile(i) + SizeOfSegment(n, i)
                <= SizeOfDataFile(n, DataFileIndex(i))
<1> DEFINE F      == DataFileLength
           L      == SegmentLength
           f      == DataFileIndex(i)
           offset == SegmentOffsetInDataFile(i)
           part   == SizeOfSegment(n, i)
           s      == SegmentsCount(n)
           c      == DataFilesCount(n)
           last   == LastLength(n, F)
<1>1. L \in Nat \ {0} /\ F \in Nat \ {0}
    BY SequenceAssumption DEF DataFileLength
<1>2. /\ c \in Nat \ {0} /\ last \in 1..F
      /\ n = F * (c - 1) + last
    BY <1>1, Pieces DEF DataFilesCount
<1>3. s \in Nat \ {0}
    BY <1>1, Pieces DEF SegmentsCount
<1>4. f \in Nat /\ offset \in 0..(F - L) /\ F * f + offset = L * i
    BY <1>3, SegmentPosition
<1>5. part \in 1..L /\ L * i + part = IF i = s - 1 THEN n ELSE L * (i + 1)
    BY SegmentsTile
<1>6. SizeOfDataFile(n, f) = IF f = c - 1 THEN last ELSE F
    BY DEF SizeOfDataFile
<1>7. L * (s - 1) < n
    BY <1>1, Pieces DEF SegmentsCount
<1> HIDE DEF F, L, f, offset, part, s, c, last
<1>8. L * i + part <= n
    <2>1. CASE i = s - 1
        BY <1>1, <1>3, <1>5, <2>1
    <2>2. CASE i # s - 1
        <3>1. i \in Int /\ i + 1 <= s - 1
            BY <1>3, <2>2 DEF s
        <3>2. L * (i + 1) <= L * (s - 1)
            BY <1>1, <1>3, <3>1, TimesMonotonic
        <3>3. QED
            BY <1>1, <1>3, <1>5, <1>7, <2>2, <3>1, <3>2
    <2>3. QED
        BY <2>1, <2>2
<1>9. F * f + offset + part <= n
    BY <1>1, <1>3, <1>4, <1>5, <1>8
<1>10. f <= c - 1
    <2>1. SUFFICES ASSUME c <= f PROVE FALSE
        BY <1>2, <1>4
    <2>2. F * c <= F * f /\ F * (c - 1) = F * c - F
        BY <1>1, <1>2, <1>4, <2>1, TimesMonotonic
    <2>3. QED
        BY <1>1, <1>2, <1>4, <1>5, <1>9, <2>2
<1>11. offset + part <= IF f = c - 1 THEN last ELSE F
    BY <1>1, <1>2, <1>4, <1>5, <1>9
<1>12. QED
    BY <1>2, <1>4, <1>6, <1>10, <1>11 DEF f, offset, part, c

-----------------------------------------------------------------------------
(* Induction. *)

LEMMA NatMin ==
    ASSUME NEW T \in SUBSET Nat, T # {}
    PROVE  \E n \in T : \A m \in T : n <= m
<1> DEFINE R == OpToRel(<, Nat)
<1>1. IsWellFoundedOn(R, Nat)
    BY NatLessThanWellFounded, Zenon
<1>2. \A x, y \in Nat : <<y, x>> \in R <=> y < x
    BY DEF OpToRel
<1> HIDE DEF R
<1>3. PICK n \in T : \A m \in T : ~ (<<m, n>> \in R)
    BY <1>1, WFMin, Zenon
<1>4. ASSUME NEW m \in T PROVE ~(m < n)
    BY <1>2, <1>3
<1>5. \A m \in T : n <= m
    BY <1>4
<1>6. QED
    BY <1>5

LEMMA NatSet ==
    ASSUME NEW T \in SUBSET Nat, 0 \in T, \A n \in T : n + 1 \in T
    PROVE  T = Nat
<1> SUFFICES ASSUME T # Nat PROVE FALSE
    OBVIOUS
<1>1. PICK n \in Nat \ T : \A m \in Nat \ T : n <= m
    BY NatMin
<1>2. n - 1 \in T
    BY <1>1
<1>3. QED
    BY <1>1, <1>2

-----------------------------------------------------------------------------
(* The running sum of GetSizeOfParts. *)

\* s adds up x.
Sums(s, x, n) ==
    /\ s \in [0..n -> Nat]
    /\ s[0] = 0
    /\ \A k \in 1..n : s[k] = s[k - 1] + x[k]

LEMMA SumsExist ==
    ASSUME NEW n \in Nat, NEW x \in [1..n -> Nat]
    PROVE  \E s : Sums(s, x, n)
<1> DEFINE UpTo(s, m) == /\ s \in [0..n -> Nat]
                         /\ s[0] = 0
                         /\ \A k \in 1..n : k <= m => s[k] = s[k - 1] + x[k]
           T == {m \in Nat : m <= n => \E s : UpTo(s, m)}
<1>1. 0 \in T
    <2>1. UpTo([k \in 0..n |-> 0], 0)
        OBVIOUS
    <2>2. QED
        BY <2>1
<1>2. ASSUME NEW m \in Nat, m + 1 <= n, NEW s, UpTo(s, m)
      PROVE  \E r : UpTo(r, m + 1)
    <2> DEFINE r == [s EXCEPT ![m + 1] = s[m] + x[m + 1]]
    <2>2. m + 1 \in 0..n /\ m \in 0..n /\ m + 1 \in 1..n
        BY <1>2
    <2>3. /\ r \in [0..n -> Nat]
          /\ r[m + 1] = s[m] + x[m + 1]
          /\ \A k \in 0..n : k # m + 1 => r[k] = s[k]
        BY <1>2, <2>2
    <2> HIDE DEF r
    <2>4. ASSUME NEW k \in 1..n, k <= m + 1
          PROVE  r[k] = r[k - 1] + x[k]
        <3>1. k - 1 \in 0..n /\ k \in 0..n /\ k - 1 # m + 1 /\ r[k - 1] = s[k - 1]
            BY <2>3, <2>4
        <3>2. CASE k = m + 1
            BY <2>3, <3>1, <3>2
        <3>3. CASE k # m + 1
            BY <1>2, <2>3, <2>4, <3>1, <3>3
        <3>4. QED
            BY <3>2, <3>3
    <2>5. UpTo(r, m + 1)
        BY <1>2, <2>3, <2>4
    <2>6. QED
        BY <2>5
<1> HIDE DEF UpTo
<1>3. T = Nat
    <2>1. ASSUME NEW m \in T PROVE m + 1 \in T
        BY <1>2
    <2>2. QED
        BY <1>1, <2>1, NatSet
<1> HIDE DEF T
<1>4. PICK s : UpTo(s, n)
    <2>1. n \in T
        BY <1>3
    <2>2. QED
        BY <2>1 DEF T
<1>5. Sums(s, x, n)
    BY <1>4 DEF Sums, UpTo
<1>6. QED
    BY <1>5

\* The sum of the loop is what it says.
LEMMA SizesOfPartsSums ==
    ASSUME NEW n \in Nat \ {0}, NEW parts \in Seq(0..(SegmentsCount(n) - 1))
    PROVE  Sums(SizesOfParts(n, parts), [k \in 1..Len(parts) |-> SizeOfSegment(n, parts[k])],
                Len(parts))
<1> DEFINE N == Len(parts)
           x == [k \in 1..N |-> SizeOfSegment(n, parts[k])]
           D(s) == s = [k \in 0..N |-> IF k = 0 THEN 0 ELSE s[k - 1] + SizeOfSegment(n, parts[k])]
           sum == CHOOSE s : D(s)
<1>1. N \in Nat /\ \A k \in 1..N : parts[k] \in 0..(SegmentsCount(n) - 1)
    BY LenProperties, ElementOfSeq
<1>2. x \in [1..N -> Nat]
    BY <1>1, SegmentsTile, SequenceAssumption
<1>3. PICK s : Sums(s, x, N)
    BY <1>1, <1>2, SumsExist
<1>4. D(s)
    BY <1>1, <1>3 DEF Sums
<1>5. D(sum)
    BY <1>4, Zenon
<1>6. SizesOfParts(n, parts) = sum
    BY Zenon DEF SizesOfParts
<1> HIDE DEF sum
<1>7. /\ \A k \in 0..N : sum[k] = IF k = 0 THEN 0 ELSE sum[k - 1] + SizeOfSegment(n, parts[k])
      /\ sum = [k \in 0..N |-> sum[k]]
    BY <1>5
<1>8. /\ sum[0] = 0
      /\ \A k \in 1..N : sum[k] = sum[k - 1] + x[k]
    <2>1. \A k \in 1..N : k \in 0..N /\ k # 0 /\ x[k] = SizeOfSegment(n, parts[k])
        BY <1>1
    <2>2. 0 \in 0..N
        BY <1>1
    <2> HIDE DEF x, N
    <2>3. QED
        BY <1>7, <2>1, <2>2
<1> HIDE DEF D, x, N
<1> DEFINE T == {m \in Nat : m <= N => sum[m] \in Nat}
<1>9. 0 \in T
    BY <1>8
<1>10. ASSUME NEW m \in T PROVE m + 1 \in T
    <2>1. ASSUME m + 1 <= N PROVE sum[m + 1] \in Nat
        <3>1. m + 1 \in 1..N /\ (m + 1) - 1 = m
            BY <1>1, <2>1
        <3>2. sum[m + 1] = sum[m] + x[m + 1]
            BY <1>8, <3>1
        <3>3. sum[m] \in Nat /\ x[m + 1] \in Nat
            BY <1>1, <1>2, <1>10, <2>1, <3>1
        <3>4. QED
            BY <3>2, <3>3
    <2>2. QED
        BY <2>1
<1>11. T = Nat
    BY <1>9, <1>10, NatSet
<1>12. sum \in [0..N -> Nat]
    BY <1>1, <1>7, <1>11
<1>13. Sums(sum, x, N)
    BY <1>8, <1>12 DEF Sums
<1>14. QED
    BY <1>6, <1>13 DEF x, N

\* Only all of the parts add up to the whole.
LEMMA SumsIncrease ==
    ASSUME NEW n \in Nat, NEW x \in [1..n -> Nat \ {0}], NEW s, Sums(s, x, n),
           NEW j \in 0..n, j # n
    PROVE  s[j] < s[n]
<1> DEFINE T == {m \in Nat : m <= n => \A k \in 0..n : k < m => s[k] < s[m]}
<1>1. 0 \in T
    OBVIOUS
<1>2. ASSUME NEW m \in T PROVE m + 1 \in T
    <2>1. ASSUME m + 1 <= n, NEW k \in 0..n, k < m + 1
          PROVE  s[k] < s[m + 1]
        <3>1. m + 1 \in 1..n /\ (m + 1) - 1 = m /\ m \in 0..n
            BY <2>1
        <3>2. s[m + 1] = s[m] + x[m + 1] /\ x[m + 1] \in Nat \ {0}
            BY <3>1 DEF Sums
        <3>3. s[m] \in Nat /\ s[k] \in Nat
            BY <3>1, <2>1 DEF Sums
        <3>4. k = m \/ s[k] < s[m]
            BY <1>2, <2>1, <3>1
        <3>5. QED
            BY <3>2, <3>3, <3>4
    <2>2. QED
        BY <2>1
<1>3. T = Nat
    BY <1>1, <1>2, NatSet
<1>4. n \in T
    BY <1>3
<1>5. QED
    BY <1>4

-----------------------------------------------------------------------------
(* Sequences of bytes. *)

LEMMA FunctionIsSeq ==
    ASSUME NEW n \in Nat, NEW f \in [1..n -> Int]
    PROVE  f \in Seq(Int) /\ Len(f) = n
<1>1. f \in Seq(Int)
    BY SeqDef
<1>2. Len(f) \in Nat /\ DOMAIN f = 1..Len(f)
    BY <1>1, LenProperties
<1>3. 1..n = 1..Len(f)
    BY <1>2
<1>4. Len(f) = n
    BY <1>2, <1>3
<1>5. QED
    BY <1>1, <1>4

LEMMA SubSeqFunction ==
    ASSUME NEW s \in Seq(Int), NEW a \in Nat, NEW n \in Nat, a + n <= Len(s)
    PROVE  /\ SubSeq(s, a + 1, a + n) = [k \in 1..n |-> s[a + k]]
           /\ SubSeq(s, a + 1, a + n) \in Seq(Int)
           /\ Len(SubSeq(s, a + 1, a + n)) = n
<1> DEFINE t == SubSeq(s, a + 1, a + n)
<1>1. a + 1 \in Int /\ a + n \in Int /\ \A i \in (a + 1)..(a + n) : s[i] \in Int
    BY ElementOfSeq, LenProperties
<1>2. /\ t \in Seq(Int)
      /\ Len(t) = IF a + 1 <= a + n THEN (a + n) - (a + 1) + 1 ELSE 0
      /\ \A i \in 1..((a + n) - (a + 1) + 1) : t[i] = s[(a + 1) + i - 1]
    BY <1>1, SubSeqProperties
<1> HIDE DEF t
<1>3. Len(t) = n
    BY <1>2
<1>4. \A i \in 1..n : t[i] = s[a + i]
    <2>1. \A i \in 1..n : i \in 1..((a + n) - (a + 1) + 1) /\ (a + 1) + i - 1 = a + i
        OBVIOUS
    <2>2. QED
        BY <1>2, <2>1
<1>5. t = [i \in 1..n |-> t[i]]
    BY <1>2, <1>3, LenProperties
<1>6. t = [i \in 1..n |-> s[a + i]]
    BY <1>4, <1>5
<1>7. QED
    BY <1>2, <1>3, <1>6 DEF t

\* Bytes of the archive are a sequence, cut as one expects.
LEMMA ArchiveType ==
    ASSUME NEW a \in Int, NEW n \in Nat
    PROVE  /\ Archive(a, n) \in Seq(Int)
           /\ Len(Archive(a, n)) = n
           /\ \A k \in 1..n : Archive(a, n)[k] = a + k
BY FunctionIsSeq DEF Archive

LEMMA ArchivePrefix ==
    ASSUME NEW a \in Int, NEW n \in Nat, NEW k \in 0..n
    PROVE  SubSeq(Archive(a, n), 1, k) = Archive(a, k)
<1>1. SubSeq(Archive(a, n), 0 + 1, 0 + k) = [j \in 1..k |-> Archive(a, n)[0 + j]]
    BY ArchiveType, SubSeqFunction
<1>2. \A j \in 1..k : Archive(a, n)[0 + j] = a + j
    BY ArchiveType
<1>3. [j \in 1..k |-> Archive(a, n)[0 + j]] = [j \in 1..k |-> a + j]
    BY <1>2
<1>4. QED
    BY <1>1, <1>3 DEF Archive

LEMMA ArchiveConcat ==
    ASSUME NEW a \in Int, NEW m \in Nat, NEW n \in Nat
    PROVE  Archive(a, m) \o Archive(a + m, n) = Archive(a, m + n)
<1> DEFINE s == Archive(a, m)
           t == Archive(a + m, n)
           u == Archive(a, m + n)
           c == s \o t
<1>1. /\ s \in Seq(Int) /\ Len(s) = m /\ \A k \in 1..m : s[k] = a + k
      /\ t \in Seq(Int) /\ Len(t) = n /\ \A k \in 1..n : t[k] = a + m + k
      /\ u \in Seq(Int) /\ Len(u) = m + n /\ \A k \in 1..(m + n) : u[k] = a + k
    BY ArchiveType
<1> HIDE DEF s, t, u
<1>2. /\ c \in Seq(Int)
      /\ Len(c) = m + n
      /\ \A i \in 1..(m + n) : c[i] = IF i <= m THEN s[i] ELSE t[i - m]
    BY <1>1, ConcatProperties
<1> HIDE DEF c
<1>3. \A i \in 1..(m + n) : c[i] = a + i
    <2> TAKE i \in 1..(m + n)
    <2>1. CASE i <= m
        BY <1>1, <1>2, <2>1
    <2>2. CASE i > m
        <3>1. i - m \in 1..n
            BY <2>2
        <3>2. QED
            BY <1>1, <1>2, <2>2, <3>1
    <2>3. QED
        BY <2>1, <2>2
<1>4. c = u
    BY <1>1, <1>2, <1>3, SeqEqual
<1>5. QED
    BY <1>4 DEF s, t, u, c

\* A write inside a file replaces the bytes it covers.
LEMMA OverwriteProperties ==
    ASSUME NEW f \in Seq(Int), NEW offset \in Nat, NEW bytes \in Seq(Int),
           offset + Len(bytes) <= Len(f)
    PROVE  /\ Overwrite(f, offset, bytes) \in Seq(Int)
           /\ Len(Overwrite(f, offset, bytes)) = Len(f)
           /\ \A k \in 1..Len(f) : Overwrite(f, offset, bytes)[k] =
                 IF k \in (offset + 1)..(offset + Len(bytes)) THEN bytes[k - offset] ELSE f[k]
<1> DEFINE n == Len(bytes)
           l == Len(f)
           a == SubSeq(f, 1, offset)
           b == SubSeq(f, offset + n + 1, l)
           u == a \o bytes
           w == u \o b
<1>1. n \in Nat /\ l \in Nat
    BY LenProperties
<1>2. a \in Seq(Int) /\ Len(a) = offset /\ \A k \in 1..offset : a[k] = f[k]
    BY <1>1, SubSeqFunction, 0 \in Nat, 0 + 1 = 1, 0 + offset = offset
<1>3. b \in Seq(Int) /\ Len(b) = l - offset - n
      /\ \A k \in 1..(l - offset - n) : b[k] = f[offset + n + k]
    <2>1. offset + n \in Nat /\ l - offset - n \in Nat /\ (offset + n) + (l - offset - n) = l
        BY <1>1
    <2>2. QED
        BY <1>1, <2>1, SubSeqFunction
<1>4. /\ u \in Seq(Int) /\ Len(u) = offset + n
      /\ \A i \in 1..(offset + n) : u[i] = IF i <= offset THEN a[i] ELSE bytes[i - offset]
    <2> HIDE DEF a
    <2>1. QED
        BY <1>2, ConcatProperties
<1>5. /\ w \in Seq(Int) /\ Len(w) = l
      /\ \A i \in 1..l : w[i] = IF i <= offset + n THEN u[i] ELSE b[i - (offset + n)]
    <2> HIDE DEF u, b
    <2>1. offset + n + (l - offset - n) = l
        BY <1>1
    <2>2. QED
        BY <1>3, <1>4, <2>1, ConcatProperties
<1>6. Overwrite(f, offset, bytes) = w
    BY DEF Overwrite
<1> HIDE DEF n, l, a, b, u, w
<1>7. ASSUME NEW k \in 1..l
      PROVE  w[k] = IF k \in (offset + 1)..(offset + n) THEN bytes[k - offset] ELSE f[k]
    <2>1. CASE k <= offset
        <3>1. k \in 1..offset /\ k \in 1..(offset + n)
            BY <1>1, <2>1
        <3>2. QED
            BY <1>1, <1>2, <1>4, <1>5, <2>1, <3>1
    <2>2. CASE k > offset /\ k <= offset + n
        BY <1>1, <1>4, <1>5, <2>2
    <2>3. CASE k > offset + n
        <3>1. k - (offset + n) \in 1..(l - offset - n) /\ offset + n + (k - (offset + n)) = k
            BY <1>1, <2>3
        <3>2. b[k - (offset + n)] = f[k]
            BY <1>3, <3>1
        <3>3. w[k] = b[k - (offset + n)]
            BY <1>1, <1>5, <2>3
        <3>4. k \notin (offset + 1)..(offset + n)
            BY <1>1, <2>3
        <3>5. QED
            BY <3>2, <3>3, <3>4
    <2>4. QED
        BY <1>1, <2>1, <2>2, <2>3
<1>8. QED
    BY <1>5, <1>6, <1>7 DEF n, l

\* What the concatenation of sequences is: its length is the sum of theirs, and
\* pieces of the archive laid end to end are the archive.
LEMMA FlattenSums ==
    ASSUME NEW n \in Nat, NEW seqs \in [1..n -> Seq(Int)],
           NEW g, Sums(g, [k \in 1..n |-> Len(seqs[k])], n)
    PROVE  /\ FlattenSeq(seqs) \in Seq(Int)
           /\ Len(FlattenSeq(seqs)) = g[n]
           /\ (\A k \in 1..n : seqs[k] = Archive(g[k - 1], Len(seqs[k])))
                 => FlattenSeq(seqs) = Archive(0, g[n])
<1>1. /\ g \in [0..n -> Nat] /\ g[0] = 0
      /\ \A k \in 1..n : g[k] = g[k - 1] + Len(seqs[k])
    BY DEF Sums
<1>2. seqs \in Seq(Seq(Int)) /\ Len(seqs) = n
    <2>1. seqs \in Seq(Seq(Int))
        BY SeqDef
    <2>2. Len(seqs) \in Nat /\ DOMAIN seqs = 1..Len(seqs)
        BY <2>1, LenProperties
    <2>3. 1..n = 1..Len(seqs)
        BY <2>2
    <2>4. QED
        BY <2>1, <2>2, <2>3
<1>3. CASE n = 0
    <2>1. FlattenSeq(seqs) = seqs /\ seqs = <<>>
        BY <1>2, <1>3, EmptySeq DEF FlattenSeq
    <2>2. <<>> \in Seq(Int) /\ Len(<<>>) = 0
        BY EmptySeq
    <2>3. Archive(0, 0) = <<>>
        BY ArchiveType, EmptySeq
    <2>4. QED
        BY <1>1, <1>3, <2>1, <2>2, <2>3
<1>4. CASE n # 0
    <2> DEFINE D(h) == h = [i \in 1..n |-> IF i = 1 THEN seqs[i] ELSE h[i - 1] \o seqs[i]]
               flat == CHOOSE h : D(h)
               tiled == \A k \in 1..n : seqs[k] = Archive(g[k - 1], Len(seqs[k]))
               Good(x, m) == /\ x \in Seq(Int)
                             /\ Len(x) = g[m]
                             /\ tiled => x = Archive(0, g[m])
               UpTo(h, m) == /\ h \in [1..n -> Seq(Int)]
                             /\ \A i \in 1..n : i <= m =>
                                  h[i] = IF i = 1 THEN seqs[i] ELSE h[i - 1] \o seqs[i]
               T == {m \in Nat : m + 1 <= n => \E h : UpTo(h, m + 1)}
    <2>1. 0 \in T
        <3>1. UpTo([i \in 1..n |-> seqs[1]], 0 + 1)
            BY <1>4
        <3> HIDE DEF UpTo
        <3>2. QED
            BY <3>1
    <2>2. ASSUME NEW m \in Nat \ {0}, m + 1 <= n, NEW h, UpTo(h, m)
          PROVE  \E r : UpTo(r, m + 1)
        <3> DEFINE r == [h EXCEPT ![m + 1] = h[m] \o seqs[m + 1]]
        <3>1. m + 1 \in 1..n /\ m \in 1..n /\ m + 1 # 1 /\ (m + 1) - 1 = m
            BY <2>2
        <3>2. h[m] \o seqs[m + 1] \in Seq(Int)
            BY <2>2, <3>1, ConcatProperties
        <3>3. /\ r \in [1..n -> Seq(Int)]
              /\ r[m + 1] = h[m] \o seqs[m + 1]
              /\ \A k \in 1..n : k # m + 1 => r[k] = h[k]
            BY <2>2, <3>1, <3>2
        <3> HIDE DEF r
        <3>4. ASSUME NEW k \in 1..n, k <= m + 1
              PROVE  r[k] = IF k = 1 THEN seqs[k] ELSE r[k - 1] \o seqs[k]
            <4>1. CASE k = m + 1
                <5>1. r[m] = h[m]
                    BY <3>1, <3>3
                <5>2. QED
                    BY <3>1, <3>3, <4>1, <5>1
            <4>2. CASE k # m + 1
                <5>1. k <= m /\ (k # 1 => k - 1 \in 1..n /\ k - 1 # m + 1)
                    BY <2>2, <3>4, <4>2
                <5>2. QED
                    BY <2>2, <3>3, <4>2, <5>1
            <4>3. QED
                BY <4>1, <4>2
        <3>5. UpTo(r, m + 1)
            BY <3>3, <3>4
        <3>6. QED
            BY <3>5
    <2> HIDE DEF UpTo
    <2>3. ASSUME NEW m \in T PROVE m + 1 \in T
        <3>1. ASSUME (m + 1) + 1 <= n PROVE \E h : UpTo(h, (m + 1) + 1)
            <4>1. m + 1 \in Nat \ {0} /\ m + 1 <= n
                BY <3>1
            <4>2. PICK h : UpTo(h, m + 1)
                BY <2>3, <4>1
            <4>3. QED
                BY <2>2, <3>1, <4>1, <4>2
        <3>2. QED
            BY <3>1
    <2>4. T = Nat
        BY <2>1, <2>3, NatSet
    <2> HIDE DEF T
    <2>5. PICK h : UpTo(h, n)
        <3>1. n - 1 \in Nat /\ (n - 1) + 1 = n
            BY <1>4
        <3>2. n - 1 \in T
            BY <2>4, <3>1
        <3>3. QED
            BY <3>1, <3>2 DEF T
    <2>6. D(h)
        BY <2>5 DEF UpTo
    <2>7. D(flat)
        BY <2>6, Zenon
    <2>8. FlattenSeq(seqs) = flat[n]
        <3>1. Len(seqs) # 0
            BY <1>2, <1>4
        <3>2. FlattenSeq(seqs) = (CHOOSE x : x = [i \in 1..Len(seqs) |->
                    IF i = 1 THEN seqs[i] ELSE x[i - 1] \o seqs[i]])[Len(seqs)]
            BY <3>1, Zenon DEF FlattenSeq
        <3>3. QED
            BY <1>2, <3>2, Zenon
    <2> HIDE DEF flat
    <2>9. \A i \in 1..n : flat[i] = IF i = 1 THEN seqs[i] ELSE flat[i - 1] \o seqs[i]
        BY <2>7
    <2> HIDE DEF D
    <2>10. Good(flat[1], 1)
        <3>1. flat[1] = seqs[1] /\ 1 \in 1..n /\ g[1] = g[0] + Len(seqs[1]) /\ 1 - 1 = 0
            BY <1>1, <1>4, <2>9
        <3>2. Len(seqs[1]) \in Nat
            BY <3>1, LenProperties
        <3>3. g[1] = Len(seqs[1])
            BY <1>1, <3>1, <3>2
        <3>4. tiled => seqs[1] = Archive(0, Len(seqs[1]))
            BY <1>1, <3>1
        <3>5. QED
            BY <3>1, <3>3, <3>4
    <2>11. ASSUME NEW m \in 1..n, m + 1 <= n, Good(flat[m], m)
           PROVE  Good(flat[m + 1], m + 1)
        <3>1. m + 1 \in 1..n /\ m + 1 # 1 /\ (m + 1) - 1 = m /\ m \in 0..n
            BY <2>11
        <3>2. flat[m + 1] = flat[m] \o seqs[m + 1] /\ g[m + 1] = g[m] + Len(seqs[m + 1])
            BY <1>1, <2>9, <3>1
        <3>3. seqs[m + 1] \in Seq(Int) /\ Len(seqs[m + 1]) \in Nat /\ g[m] \in Nat
            BY <1>1, <3>1, LenProperties
        <3>4. flat[m + 1] \in Seq(Int) /\ Len(flat[m + 1]) = g[m + 1]
            <4>1. flat[m] \in Seq(Int) /\ Len(flat[m]) = g[m]
                BY <2>11
            <4>2. /\ flat[m] \o seqs[m + 1] \in Seq(Int)
                  /\ Len(flat[m] \o seqs[m + 1]) = Len(flat[m]) + Len(seqs[m + 1])
                BY <3>3, <4>1, ConcatProperties
            <4>3. QED
                BY <3>2, <4>1, <4>2
        <3>5. ASSUME tiled PROVE flat[m + 1] = Archive(0, g[m + 1])
            <4>1. flat[m] = Archive(0, g[m])
                BY <2>11, <3>5
            <4>2. seqs[m + 1] = Archive(0 + g[m], Len(seqs[m + 1]))
                BY <3>1, <3>3, <3>5
            <4>3. QED
                BY <3>2, <3>3, <4>1, <4>2, ArchiveConcat, 0 \in Int
        <3>6. QED
            BY <3>4, <3>5
    <2> HIDE DEF Good
    <2> DEFINE U == {m \in Nat : m + 1 <= n => Good(flat[m + 1], m + 1)}
    <2>12. 0 \in U
        BY <2>10
    <2>13. ASSUME NEW m \in U PROVE m + 1 \in U
        <3>1. ASSUME (m + 1) + 1 <= n PROVE Good(flat[(m + 1) + 1], (m + 1) + 1)
            <4>1. m + 1 \in 1..n /\ Good(flat[m + 1], m + 1)
                BY <2>13, <3>1
            <4>2. QED
                BY <2>11, <3>1, <4>1
        <3>2. QED
            BY <3>1
    <2>14. U = Nat
        BY <2>12, <2>13, NatSet
    <2> HIDE DEF U
    <2>15. Good(flat[n], n)
        <3>1. n - 1 \in Nat /\ (n - 1) + 1 = n
            BY <1>4
        <3>2. n - 1 \in U
            BY <2>14, <3>1
        <3>3. QED
            BY <3>1, <3>2 DEF U
    <2>16. QED
        BY <2>8, <2>15 DEF Good
<1>5. QED
    BY <1>3, <1>4

-----------------------------------------------------------------------------
(* Cutting the archive. *)

\* The pieces that are cut, laid end to end, are the archive.
LEMMA CutFlatten ==
    ASSUME NEW n \in Nat, NEW length \in Nat \ {0}
    PROVE  FlattenSeq(Cut(n, length)) = Archive(0, n) /\ Len(FlattenSeq(Cut(n, length))) = n
<1> DEFINE q == n \div length
           seqs == Cut(n, length)
           len(k) == IF k <= q THEN length ELSE n % length
           g == [k \in 0..(q + 1) |-> IF k = q + 1 THEN n ELSE length * k]
<1>1. q \in Nat /\ n % length \in 0..(length - 1) /\ n = length * q + (n % length)
    BY DivMod
<1>2. \A k \in 1..(q + 1) : len(k) \in Nat /\ length * (k - 1) \in Nat
    BY <1>1
<1>3. \A k \in 1..(q + 1) : /\ seqs[k] = Archive(length * (k - 1), len(k))
                            /\ seqs[k] \in Seq(Int) /\ Len(seqs[k]) = len(k)
    <2>1. \A k \in 1..(q + 1) : seqs[k] = Archive(length * (k - 1), len(k))
        BY DEF Cut
    <2> HIDE DEF seqs, len
    <2> TAKE k \in 1..(q + 1)
    <2>2. len(k) \in Nat /\ length * (k - 1) \in Int /\ length * (k - 1) \in Nat
        BY <1>2
    <2>3. /\ Archive(length * (k - 1), len(k)) \in Seq(Int)
          /\ Len(Archive(length * (k - 1), len(k))) = len(k)
        BY <2>2, ArchiveType
    <2>4. QED
        BY <2>1, <2>3
<1>4. seqs = [k \in 1..(q + 1) |-> seqs[k]]
    BY DEF Cut
<1>5. seqs \in [1..(q + 1) -> Seq(Int)]
    BY <1>3, <1>4
<1>6. \A k \in 1..(q + 1) : g[k - 1] = length * (k - 1) /\ g[k] = g[k - 1] + len(k)
    <2> TAKE k \in 1..(q + 1)
    <2>1. k - 1 \in 0..(q + 1) /\ k \in 0..(q + 1) /\ k - 1 # q + 1
        BY <1>1
    <2>2. g[k - 1] = length * (k - 1)
        BY <2>1
    <2>3. length * k = length * (k - 1) + length
        BY <1>1
    <2>4. CASE k = q + 1
        <3>1. g[k] = n /\ k - 1 = q /\ len(k) = n % length
            BY <1>1, <2>1, <2>4
        <3>2. QED
            BY <1>1, <2>2, <3>1
    <2>5. CASE k # q + 1
        <3>1. g[k] = length * k /\ len(k) = length
            BY <1>1, <2>1, <2>5
        <3>2. QED
            BY <2>2, <2>3, <3>1
    <2>6. QED
        BY <2>4, <2>5, <2>2
<1>7. g \in [0..(q + 1) -> Nat] /\ g[0] = 0 /\ g[q + 1] = n
    <2>1. \A k \in 0..(q + 1) : length * k \in Nat
        BY <1>1
    <2>2. 0 \in 0..(q + 1) /\ q + 1 \in 0..(q + 1) /\ 0 # q + 1
        BY <1>1
    <2>3. QED
        BY <2>1, <2>2
<1> HIDE DEF g, seqs, len
<1>8. Sums(g, [k \in 1..(q + 1) |-> Len(seqs[k])], q + 1)
    BY <1>3, <1>6, <1>7 DEF Sums
<1>9. \A k \in 1..(q + 1) : seqs[k] = Archive(g[k - 1], Len(seqs[k]))
    BY <1>3, <1>6
<1>10. q + 1 \in Nat
    BY <1>1
<1> HIDE DEF q
<1>11. FlattenSeq(seqs) = Archive(0, n) /\ Len(FlattenSeq(seqs)) = n
    BY <1>5, <1>7, <1>8, <1>9, <1>10, FlattenSums
<1>12. QED
    BY <1>11 DEF seqs

\* The pieces that are cut have the sizes of the parts; beyond them there is
\* only the empty one behind an exact multiple.
LEMMA CutSizes ==
    ASSUME NEW n \in Nat \ {0}, NEW length \in Nat \ {0}
    PROVE  /\ PiecesCount(n, length) \in 1..(n \div length + 1)
           /\ n % length # 0 => PiecesCount(n, length) = n \div length + 1
           /\ n % length = 0 => PiecesCount(n, length) = n \div length
           /\ \A j \in 1..PiecesCount(n, length) :
                (IF j - 1 = PiecesCount(n, length) - 1 THEN LastLength(n, length) ELSE length)
                  = (IF j <= n \div length THEN length ELSE n % length)
<1> DEFINE c == PiecesCount(n, length)
           last == LastLength(n, length)
<1>1. c \in Nat \ {0} /\ last \in 1..length /\ n = length * (c - 1) + last
    BY Pieces
<1> HIDE DEF c, last
<1>2. length * c = length * (c - 1) + length
    BY <1>1
<1>3. CASE last = length
    <2>1. n = length * c + 0 /\ c \in Nat /\ 0 \in 0..(length - 1)
        BY <1>1, <1>2, <1>3
    <2>2. n \div length = c /\ n % length = 0
        BY <2>1, DivModUnique
    <2>3. QED
        BY <1>1, <1>3, <2>2 DEF c, last
<1>4. CASE last # length
    <2>1. c - 1 \in Nat /\ last \in 0..(length - 1)
        BY <1>1, <1>4
    <2>2. n \div length = c - 1 /\ n % length = last
        BY <1>1, <2>1, DivModUnique
    <2>3. QED
        BY <1>1, <1>4, <2>2 DEF c, last
<1>5. QED
    BY <1>3, <1>4

LEMMA Lengths ==
    /\ SegmentLength \in Nat \ {0}
    /\ DataFileLength \in Nat \ {0}
    /\ SegmentLength <= DataFileLength
<1>1. SegmentsPerDataFile * SegmentLength \in Nat \ {0}
    BY SequenceAssumption
<1>2. 1 * SegmentLength <= SegmentsPerDataFile * SegmentLength
    BY SequenceAssumption
<1>3. QED
    BY <1>1, <1>2, SequenceAssumption DEF DataFileLength

-----------------------------------------------------------------------------
(* What a closed creator leaves behind. *)

\* The facts about a created package the rest of the module needs.
Created ==
    /\ creator.closed
    /\ size \in Nat
    /\ source = Cut(size, DataFileLength)
    /\ hashes = Cut(size, SegmentLength)

LEMMA CreatedPackage ==
    ASSUME Created
    PROVE  /\ PackageSize = size
           /\ \A f \in 1..(size \div DataFileLength + 1) :
                source[f] = Archive(DataFileLength * (f - 1),
                                IF f <= size \div DataFileLength
                                THEN DataFileLength ELSE size % DataFileLength)
           /\ Len(hashes) = size \div SegmentLength + 1
<1>1. PackageSize = size
    BY CutFlatten, Lengths DEF Created, PackageSize
<1>2. \A f \in 1..(size \div DataFileLength + 1) :
         source[f] = Archive(DataFileLength * (f - 1),
                         IF f <= size \div DataFileLength
                         THEN DataFileLength ELSE size % DataFileLength)
    BY DEF Created, Cut
<1>3. Len(hashes) = size \div SegmentLength + 1
    <2> DEFINE q == size \div SegmentLength
    <2>1. q \in Nat
        BY Lengths, DivMod DEF Created
    <2> HIDE DEF q
    <2>2. Len([j \in 1..(q + 1) |->
               Archive(SegmentLength * (j - 1), IF j <= q THEN SegmentLength ELSE size % SegmentLength)])
            = q + 1
        BY <2>1
    <2>3. QED
        BY <2>2 DEF q, Created, Cut
<1>4. QED
    BY <1>1, <1>2, <1>3

\* The data files that hold segments: their lengths and their bytes.
LEMMA CreatedFiles ==
    ASSUME Created, size > 0, NEW f \in 1..DataFilesCount(size)
    PROVE  /\ SizeOfDataFile(size, f - 1) \in Nat
           /\ source[f] \in Seq(Int)
           /\ Len(source[f]) = SizeOfDataFile(size, f - 1)
           /\ \A k \in 1..SizeOfDataFile(size, f - 1) :
                 source[f][k] = DataFileLength * (f - 1) + k
<1> DEFINE F == DataFileLength
           c == DataFilesCount(size)
           len == IF f <= size \div F THEN F ELSE size % F
<1>1. size \in Nat \ {0} /\ F \in Nat \ {0}
    BY Lengths DEF Created
<1>2. c \in 1..(size \div F + 1) /\ SizeOfDataFile(size, f - 1) = len
    BY <1>1, CutSizes DEF DataFilesCount, SizeOfDataFile
<1>3. size \div F \in Nat /\ size % F \in 0..(F - 1)
    BY <1>1, DivMod
<1>4. f \in 1..(size \div F + 1) /\ f - 1 \in Nat
    BY <1>2, <1>3
<1>5. source[f] = Archive(F * (f - 1), len)
    BY <1>4, CreatedPackage
<1>6. len \in Nat /\ F * (f - 1) \in Int
    BY <1>1, <1>3, <1>4
<1> HIDE DEF F, c, len
<1>7. /\ source[f] \in Seq(Int) /\ Len(source[f]) = len
      /\ \A k \in 1..len : source[f][k] = F * (f - 1) + k
    BY <1>5, <1>6, ArchiveType
<1>8. QED
    BY <1>2, <1>6, <1>7 DEF F

\* Readers find a segment's bytes where the creator has put them.
LEMMA CreatedBytes ==
    ASSUME Created, NEW i \in 0..(SegmentsCount(size) - 1)
    PROVE  /\ size > 0
           /\ SizeOfSegment(size, i) \in 1..SegmentLength
           /\ SegmentLength * i \in Nat
           /\ BytesOf(source, i) = Archive(SegmentLength * i, SizeOfSegment(size, i))
           /\ i + 1 \in 1..Len(hashes)
           /\ hashes[i + 1] = Archive(SegmentLength * i, SizeOfSegment(size, i))
<1> DEFINE L == SegmentLength
           n == SizeOfSegment(size, i)
           D == DataFileIndex(i)
           offset == SegmentOffsetInDataFile(i)
           len == SizeOfDataFile(size, D)
<1>1. L \in Nat \ {0} /\ DataFileLength \in Nat \ {0} /\ size \in Nat
    BY Lengths DEF Created
<1>2. size > 0
    <2> SUFFICES ASSUME size = 0 PROVE FALSE
        BY <1>1
    <2>1. (0 + L - 1) \div L = 0
        <3>1. L * 0 + (L - 1) = 0 + L - 1 /\ L - 1 \in 0..(L - 1)
            BY <1>1
        <3>2. (L * 0 + (L - 1)) \div L = 0
            BY <1>1, <3>1, DivModUnique
        <3>3. QED
            BY <3>1, <3>2
    <2>2. SegmentsCount(size) = 0
        BY <2>1 DEF SegmentsCount, PiecesCount
    <2>3. QED
        BY <2>2
<1> HIDE DEF L
<1>3. SegmentsCount(size) \in 1..(size \div L + 1) /\ size \div L \in Nat
    <2>1. size \in Nat \ {0}
        BY <1>1, <1>2
    <2>2. PiecesCount(size, L) \in 1..(size \div L + 1)
        BY <1>1, <2>1, CutSizes
    <2>3. size \div L \in Nat
        BY <1>1, DivMod
    <2>4. QED
        BY <2>2, <2>3 DEF SegmentsCount, L
<1> USE DEF L
<1>4. i \in Nat /\ i + 1 \in 1..(size \div L + 1) /\ i + 1 \in 1..SegmentsCount(size)
    BY <1>3
<1>5. n \in 1..L
    BY <1>1, <1>2, SegmentsTile
<1>6. L * i \in Nat
    BY <1>1, <1>4
<1>7. /\ D \in 0..(DataFilesCount(size) - 1)
      /\ offset + n <= len
    BY <1>1, <1>2, PartInDataFile
<1>8. D \in Nat /\ offset \in Nat /\ DataFileLength * D + offset = L * i
    BY <1>1, <1>4, SegmentPosition
<1>9. DataFilesCount(size) \in Nat
    <2>1. size \in Nat \ {0}
        BY <1>1, <1>2
    <2>2. PiecesCount(size, DataFileLength) \in Nat
        BY <1>1, <2>1, Pieces
    <2>3. QED
        BY <2>2 DEF DataFilesCount
<1>10. D + 1 \in 1..DataFilesCount(size) /\ (D + 1) - 1 = D
    BY <1>7, <1>9
<1>11. /\ source[D + 1] \in Seq(Int) /\ Len(source[D + 1]) = len
       /\ \A k \in 1..len : source[D + 1][k] = DataFileLength * D + k
    BY <1>2, <1>10, CreatedFiles
<1>12. BytesOf(source, i) = SubSeq(source[D + 1], offset + 1, offset + n)
    BY CreatedPackage DEF BytesOf
<1> HIDE DEF L, n, D, offset, len
<1>13. BytesOf(source, i) = [k \in 1..n |-> source[D + 1][offset + k]]
    <2>1. n \in Nat
        BY <1>1, <1>5
    <2>2. QED
        BY <1>7, <1>8, <1>11, <1>12, <2>1, SubSeqFunction
<1>14. \A k \in 1..n : source[D + 1][offset + k] = L * i + k
    <2> TAKE k \in 1..n
    <2>1. len \in Nat
        BY <1>11, LenProperties
    <2>2. offset + k \in 1..len
        BY <1>1, <1>5, <1>7, <1>8, <2>1
    <2>3. source[D + 1][offset + k] = DataFileLength * D + (offset + k)
        BY <1>11, <2>2
    <2>4. DataFileLength * D \in Nat
        BY <1>1, <1>8
    <2>5. QED
        BY <1>1, <1>5, <1>8, <2>3, <2>4
<1>15. BytesOf(source, i) = Archive(L * i, n)
    BY <1>13, <1>14 DEF Archive
<1>16. hashes[i + 1] = Archive(L * i, n)
    <2>1. hashes[i + 1] = Archive(L * ((i + 1) - 1), IF i + 1 <= size \div L THEN L ELSE size % L)
        BY <1>4 DEF Created, Cut, L
    <2>2. n = IF i + 1 <= size \div L THEN L ELSE size % L
        <3>1. i = (i + 1) - 1
            BY <1>4
        <3>2. n = IF (i + 1) - 1 = SegmentsCount(size) - 1 THEN LastLength(size, L) ELSE L
            BY <3>1 DEF n, SizeOfSegment, L
        <3>3. size \in Nat \ {0} /\ i + 1 \in 1..PiecesCount(size, L)
            BY <1>1, <1>2, <1>4 DEF SegmentsCount, L
        <3>4. (IF (i + 1) - 1 = PiecesCount(size, L) - 1 THEN LastLength(size, L) ELSE L)
                = (IF i + 1 <= size \div L THEN L ELSE size % L)
            BY <1>1, <3>3, CutSizes
        <3>5. QED
            BY <3>2, <3>4 DEF SegmentsCount, L
    <2>3. (i + 1) - 1 = i
        BY <1>4
    <2>4. QED
        BY <2>1, <2>2, <2>3
<1>17. i + 1 \in 1..Len(hashes)
    BY <1>4, CreatedPackage DEF L
<1>18. QED
    BY <1>2, <1>5, <1>6, <1>15, <1>16, <1>17 DEF L, n

-----------------------------------------------------------------------------
(* The creation, step by step. *)

LEMMA ArchiveEmpty ==
    ASSUME NEW a \in Int
    PROVE  Archive(a, 0) = <<>>
<1>1. Archive(a, 0) \in Seq(Int) /\ Len(Archive(a, 0)) = 0
    BY ArchiveType
<1> HIDE DEF Archive
<1>2. QED
    BY <1>1, EmptySeq

LEMMA AppendFunction ==
    ASSUME NEW S, NEW n \in Nat, NEW f \in [1..n -> S], NEW x \in S
    PROVE  /\ Len(f) = n
           /\ Append(f, x) = [k \in 1..(n + 1) |-> IF k = n + 1 THEN x ELSE f[k]]
<1>1. f \in Seq(S) /\ Len(f) = n
    BY SeqDef
<1> DEFINE a == Append(f, x)
<1>2. /\ a \in Seq(S) /\ Len(a) = n + 1
      /\ \A k \in 1..n : a[k] = f[k]
      /\ a[n + 1] = x
    BY <1>1, AppendProperties
<1> HIDE DEF a
<1>3. a = [k \in 1..Len(a) |-> a[k]]
    BY <1>2
<1>4. \A k \in 1..(n + 1) : a[k] = IF k = n + 1 THEN x ELSE f[k]
    BY <1>2
<1>5. a = [k \in 1..(n + 1) |-> IF k = n + 1 THEN x ELSE f[k]]
    BY <1>2, <1>3, <1>4
<1>6. QED
    BY <1>1, <1>5 DEF a

\* A segment is in the data file of the one before it, or first in the next one.
LEMMA NextIndex ==
    ASSUME NEW t \in Nat \ {0}
    PROVE  \/ DataFileIndex(t) = DataFileIndex(t - 1)
           \/ /\ DataFileIndex(t) = DataFileIndex(t - 1) + 1
              /\ SegmentOffsetInDataFile(t) = 0
<1> DEFINE S == SegmentsPerDataFile
           q == (t - 1) \div S
           r == (t - 1) % S
<1>1. S \in Nat \ {0} /\ t - 1 \in Nat /\ SegmentLength \in Nat
    BY SequenceAssumption
<1>2. q \in Nat /\ r \in 0..(S - 1) /\ t - 1 = S * q + r
    BY <1>1, DivMod
<1> HIDE DEF q, r, S
<1>3. CASE r # S - 1
    <2>1. r + 1 \in 0..(S - 1) /\ t = S * q + (r + 1)
        BY <1>1, <1>2, <1>3
    <2>2. t \div S = q
        BY <1>1, <1>2, <2>1, DivModUnique
    <2>3. QED
        BY <2>2 DEF DataFileIndex, q, S
<1>4. CASE r = S - 1
    <2>1. S * (q + 1) = S * q + S
        BY <1>1, <1>2
    <2>2. t = S * (q + 1) + 0 /\ q + 1 \in Nat /\ 0 \in 0..(S - 1)
        BY <1>1, <1>2, <1>4, <2>1
    <2>3. t \div S = q + 1 /\ t % S = 0
        BY <1>1, <2>2, DivModUnique
    <2>4. 0 * SegmentLength = 0
        BY <1>1
    <2>5. QED
        BY <2>3, <2>4 DEF DataFileIndex, SegmentOffsetInDataFile, q, S
<1>5. QED
    BY <1>3, <1>4

Streams == [pos : Nat, next : Nat, taken : Nat, segment : Seq(Int), closed : BOOLEAN]

LEMMA DataFileType ==
    ASSUME NEW f \in Nat \ {0}, NEW p \in Nat
    PROVE  DataFile(f, p) \in [1..DataFileLength -> Int]
<1>1. DataFileLength * (f - 1) \in Int
    BY Lengths
<1>2. QED
    BY <1>1, Lengths DEF DataFile, Zero

\* Where an open stream that has taken a part is.
LEMMA OpenFacts ==
    ASSUME NEW c \in Streams, c.taken # 0, NEW files, NEW parts, Open(c, files, parts),
           NEW N, N = DataFileIndex(c.taken - 1) + 1
    PROVE  /\ N \in Nat \ {0}
           /\ files = [f \in 1..N |-> DataFile(f, c.pos)]
           /\ files \in [1..N -> [1..DataFileLength -> Int]]
           /\ Len(files) = N
           /\ PartStart(c) = SegmentLength * (c.taken - 1)
           /\ PartStart(c) \in Nat
           /\ c.next = PartStart(c) + SegmentLength
           /\ c.pos \in PartStart(c)..c.next
           /\ DataFileLength * (N - 1) \in Nat
           /\ DataFileLength * (N - 1) <= PartStart(c)
           /\ Position(c) = c.pos - DataFileLength * (N - 1)
           /\ Position(c) + (c.next - c.pos) <= DataFileLength
           /\ Position(c) \in Nat
<1> DEFINE L == SegmentLength
           F == DataFileLength
           offset == SegmentOffsetInDataFile(c.taken - 1)
<1>1. c.pos \in Nat /\ c.next \in Nat /\ c.taken \in Nat \ {0} /\ c.taken - 1 \in Nat
    BY DEF Streams
<1>2. L \in Nat \ {0} /\ F \in Nat \ {0} /\ L <= F
    BY Lengths
<1>3. /\ N - 1 = DataFileIndex(c.taken - 1) /\ N - 1 \in Nat /\ N \in Nat \ {0}
      /\ offset \in 0..(F - L)
      /\ F * (N - 1) + offset = L * (c.taken - 1)
    BY <1>1, SegmentPosition
<1>4. files = [f \in 1..N |-> DataFile(f, c.pos)]
    BY <1>1 DEF Open
<1>5. files \in [1..N -> [1..F -> Int]]
    BY <1>1, <1>3, <1>4, DataFileType
<1>6. Len(files) = N
    BY <1>3, <1>4
<1>7. c.next = L * c.taken /\ c.pos \in PartStart(c)..c.next /\ PartStart(c) = c.next - L
    BY <1>1 DEF Open, PartStart
<1>8. L * c.taken = L * (c.taken - 1) + L /\ L * (c.taken - 1) \in Nat /\ F * (N - 1) \in Nat
    BY <1>1, <1>2, <1>3
<1>9. Position(c) = offset + c.pos - (c.next - L)
    BY DEF Position
<1> HIDE DEF L, F, offset
<1>10. PartStart(c) = L * (c.taken - 1) /\ PartStart(c) \in Nat /\ c.next = PartStart(c) + L
    BY <1>1, <1>2, <1>7, <1>8
<1>11. F * (N - 1) <= PartStart(c)
    BY <1>2, <1>3, <1>8, <1>10
<1>12. Position(c) = c.pos - F * (N - 1)
    BY <1>1, <1>2, <1>3, <1>8, <1>9, <1>10
<1>13. Position(c) + (c.next - c.pos) <= F
    BY <1>1, <1>2, <1>3, <1>7, <1>9
<1>14. Position(c) \in Nat
    BY <1>1, <1>2, <1>3, <1>7, <1>8, <1>10, <1>11, <1>12
<1>15. QED
    BY <1>3, <1>4, <1>5, <1>6, <1>7, <1>8, <1>10, <1>11, <1>12, <1>13, <1>14 DEF L, F

\* The next part of an open stream is open.
LEMMA NextPartOpen ==
    ASSUME creator \in Streams, Open(creator, source, hashes), creator.pos = creator.next
    PROVE  /\ NextPart.creator \in Streams
           /\ NextPart.creator = [creator EXCEPT !.next = creator.next + SegmentLength,
                                                 !.taken = creator.taken + 1,
                                                 !.segment = <<>>]
           /\ Open(NextPart.creator, NextPart.source, NextPart.hashes)
<1> DEFINE L == SegmentLength
           F == DataFileLength
           t == creator.taken
           p == creator.pos
           c == NextPart.creator
           D == DataFileIndex(t)
<1>1. t \in Nat /\ p \in Nat /\ creator.next \in Nat /\ creator.closed \in BOOLEAN
    BY DEF Streams
<1>2. L \in Nat \ {0} /\ F \in Nat \ {0}
    BY Lengths
<1>3. c = [creator EXCEPT !.next = creator.next + L, !.taken = t + 1, !.segment = <<>>]
    BY DEF NextPart
<1>4. <<>> \in Seq(Int)
    OBVIOUS
<1>5. /\ c \in Streams /\ c.pos = p /\ c.next = creator.next + L /\ c.taken = t + 1
      /\ c.segment = <<>>
    <2>1. creator.next + L \in Nat /\ t + 1 \in Nat
        BY <1>1, <1>2
    <2>2. creator \in [pos : Nat, next : Nat, taken : Nat, segment : Seq(Int), closed : BOOLEAN]
        BY DEF Streams
    <2> HIDE DEF c, L
    <2>3. c \in [pos : Nat, next : Nat, taken : Nat, segment : Seq(Int), closed : BOOLEAN]
        BY <1>3, <1>4, <2>1, <2>2
    <2>4. /\ c.pos = p /\ c.next = creator.next + L /\ c.taken = t + 1
          /\ c.segment = <<>>
        BY <1>3, <2>2
    <2>5. QED
        BY <2>3, <2>4 DEF Streams
<1> HIDE DEF c
<1>6. p = L * t /\ creator.next = L * t /\ L * t \in Nat /\ L * (t + 1) = L * t + L
    BY <1>1, <1>2 DEF Open
<1>7. c.next = L * c.taken
    BY <1>5, <1>6
<1>8. PartStart(c) = p /\ c.pos \in PartStart(c)..c.next
    BY <1>1, <1>2, <1>5, <1>6 DEF PartStart
<1>9. c.segment = Archive(PartStart(c), c.pos - PartStart(c))
    BY <1>1, <1>5, <1>8, ArchiveEmpty
<1>10. /\ D \in Nat
       /\ F * D + SegmentOffsetInDataFile(t) = L * t
    BY <1>1, SegmentPosition
<1> DEFINE N == IF t = 0 THEN 0 ELSE DataFileIndex(t - 1) + 1
<1>11. /\ N \in Nat /\ (D = N \/ D + 1 = N)
       /\ D = N => F * N = p
       /\ source = [f \in 1..N |-> DataFile(f, p)]
    <2>1. source = [f \in 1..N |-> DataFile(f, p)]
        BY DEF Open
    <2>2. CASE t = 0
        <3>1. 0 = SegmentsPerDataFile * 0 + 0 /\ 0 \in 0..(SegmentsPerDataFile - 1)
              /\ SegmentsPerDataFile \in Nat \ {0}
            BY SequenceAssumption
        <3>2. (SegmentsPerDataFile * 0 + 0) \div SegmentsPerDataFile = 0
            BY <3>1, DivModUnique
        <3>3. D = 0
            BY <2>2, <3>1, <3>2 DEF DataFileIndex
        <3>4. F * 0 = 0 /\ L * 0 = 0
            BY <1>2
        <3>5. QED
            BY <1>6, <2>1, <2>2, <3>3, <3>4
    <2>3. CASE t # 0
        <3>1. t \in Nat \ {0} /\ t - 1 \in Nat
            BY <1>1, <2>3
        <3>2. DataFileIndex(t - 1) \in Nat
            BY <3>1, SegmentPosition
        <3>3. N = DataFileIndex(t - 1) + 1
            BY <2>3
        <3>4. \/ D = DataFileIndex(t - 1)
              \/ D = DataFileIndex(t - 1) + 1 /\ SegmentOffsetInDataFile(t) = 0
            BY <3>1, NextIndex
        <3>5. F * D \in Nat
            BY <1>2, <1>10
        <3> HIDE DEF N, D
        <3>6. N \in Nat /\ (D = N \/ D + 1 = N)
            BY <3>2, <3>3, <3>4
        <3>7. D = N => SegmentOffsetInDataFile(t) = 0
            BY <3>2, <3>3, <3>4
        <3>8. D = N => F * N = p
            BY <1>6, <1>10, <3>5, <3>7
        <3>9. QED
            BY <2>1, <3>6, <3>8
    <2>4. QED
        BY <2>2, <2>3
<1> HIDE DEF N, D
<1>12. Len(source) = N
    BY <1>11
<1>13. NextPart.source = IF D = N THEN Append(source, Zeros(F)) ELSE source
    BY <1>12 DEF NextPart, D
<1>14. NextPart.source = [f \in 1..(D + 1) |-> DataFile(f, p)]
    <2>1. CASE D = N
        <3> DEFINE S == [1..F -> Int]
        <3>1. \A f \in 1..N : DataFile(f, p) \in S
            <4> TAKE f \in 1..N
            <4>1. f \in Nat \ {0}
                BY <1>11
            <4>2. QED
                BY <1>1, <4>1, DataFileType
        <3>2. source \in [1..N -> S]
            BY <1>11, <3>1
        <3>3. Zeros(F) \in S
            BY DEF Zeros, Zero
        <3> HIDE DEF S
        <3>4. Append(source, Zeros(F)) = [f \in 1..(N + 1) |-> IF f = N + 1 THEN Zeros(F) ELSE source[f]]
            BY <1>11, <3>2, <3>3, AppendFunction
        <3>5. Zeros(F) = DataFile(N + 1, p)
            <4>1. F * ((N + 1) - 1) = p
                BY <1>11, <2>1
            <4>2. DataFile(N + 1, p) = [k \in 1..F |-> IF p + k <= p THEN p + k ELSE Zero]
                BY <4>1 DEF DataFile
            <4>3. \A k \in 1..F : ~(p + k <= p)
                BY <1>1, <1>2
            <4>4. QED
                BY <4>2, <4>3 DEF Zeros
        <3>6. \A f \in 1..(N + 1) : (IF f = N + 1 THEN Zeros(F) ELSE source[f]) = DataFile(f, p)
            BY <1>11, <3>5
        <3>7. QED
            BY <1>13, <2>1, <3>4, <3>6
    <2>2. CASE D # N
        BY <1>11, <1>13, <2>2
    <2>3. QED
        BY <2>1, <2>2
<1>15. NextPart.hashes = [j \in 1..t |-> Archive(L * (j - 1), L)]
    <2>1. NextPart.hashes = IF t = 0 THEN hashes ELSE Append(hashes, creator.segment)
        BY DEF NextPart
    <2>2. hashes = [j \in 1..(IF t = 0 THEN 0 ELSE t - 1) |-> Archive(L * (j - 1), L)]
        BY DEF Open
    <2>3. CASE t = 0
        BY <2>1, <2>2, <2>3
    <2>4. CASE t # 0
        <3>1. t - 1 \in Nat /\ hashes = [j \in 1..(t - 1) |-> Archive(L * (j - 1), L)]
              /\ (t - 1) + 1 = t
            BY <1>1, <2>2, <2>4
        <3>2. \A j \in 1..(t - 1) : Archive(L * (j - 1), L) \in Seq(Int)
            <4> TAKE j \in 1..(t - 1)
            <4>1. L * (j - 1) \in Int
                BY <1>1, <1>2
            <4>2. QED
                BY <1>2, <4>1, ArchiveType
        <3>3. hashes \in [1..(t - 1) -> Seq(Int)]
            BY <3>1, <3>2
        <3>4. creator.segment = Archive(L * (t - 1), L) /\ creator.segment \in Seq(Int)
            <4>1. L * t - L = L * (t - 1)
                BY <1>1, <1>2
            <4>2. PartStart(creator) = L * (t - 1)
                BY <1>6, <2>4, <4>1 DEF PartStart
            <4>3. p - PartStart(creator) = L
                BY <1>1, <1>2, <1>6, <4>1, <4>2
            <4>4. QED
                BY <4>2, <4>3 DEF Open, Streams
        <3>5. Append(hashes, creator.segment)
                = [j \in 1..((t - 1) + 1) |-> IF j = (t - 1) + 1 THEN creator.segment ELSE hashes[j]]
            BY <3>1, <3>3, <3>4, AppendFunction
        <3>6. \A j \in 1..t : (IF j = t THEN creator.segment ELSE hashes[j]) = Archive(L * (j - 1), L)
            <4> TAKE j \in 1..t
            <4>1. j # t => j \in 1..(t - 1)
                BY <1>1
            <4>2. QED
                BY <3>1, <3>4, <4>1
        <3>7. Append(hashes, creator.segment)
                = [j \in 1..t |-> IF j = t THEN creator.segment ELSE hashes[j]]
            BY <3>1, <3>5
        <3>8. Append(hashes, creator.segment) = [j \in 1..t |-> Archive(L * (j - 1), L)]
            BY <3>6, <3>7
        <3>9. QED
            BY <2>1, <2>4, <3>8
    <2>5. QED
        BY <2>3, <2>4
<1>16. t + 1 # 0 /\ (t + 1) - 1 = t
    BY <1>1
<1>17. Open(c, NextPart.source, NextPart.hashes)
    BY <1>5, <1>7, <1>8, <1>9, <1>14, <1>15, <1>16 DEF Open, D
<1>18. QED
    BY <1>3, <1>5, <1>17 DEF c

LEMMA CreateInvInit == Init => CreateInv
<1> SUFFICES ASSUME Init PROVE CreateInv
    OBVIOUS
<1>1. creator = [pos |-> 0, next |-> 0, taken |-> 0, segment |-> <<>>, closed |-> FALSE]
    BY DEF Init
<1>2. size \in Nat
    BY StreamAssumption DEF Init
<1>3. creator \in Creators
    BY <1>1, <1>2 DEF Creators
<1>4. ~creator.closed /\ creator.pos = 0 /\ creator.next = 0 /\ creator.taken = 0
      /\ creator.segment = <<>>
    BY <1>1
<1>5. Archive(0, 0) = <<>>
    BY ArchiveEmpty
<1>6. SegmentLength * 0 = 0
    BY Lengths
<1>7. /\ [f \in 1..0 |-> DataFile(f, 0)] = <<>>
      /\ [j \in 1..0 |-> Archive(SegmentLength * (j - 1), SegmentLength)] = <<>>
    OBVIOUS
<1>8. Open(creator, source, hashes)
    BY <1>4, <1>5, <1>6, <1>7 DEF Open, PartStart, Init
<1>9. QED
    BY <1>2, <1>3, <1>4, <1>8 DEF CreateInv

\* A write inside a part goes on with the part's hash and its data file.
LEMMA CreateWriteOpen ==
    ASSUME CreateInv, NEW n \in 1..SegmentLength, CreateWrite(n)
    PROVE  CreateInv'
<1> DEFINE L == SegmentLength
           F == DataFileLength
           p == creator.pos
           N == DataFileIndex(creator.taken - 1) + 1
           start == F * (N - 1)
           bytes == [k \in 1..n |-> p + k]
           c == creator'
<1>1. L \in Nat \ {0} /\ F \in Nat \ {0} /\ n \in Nat \ {0} /\ n <= L
    BY Lengths
<1>2. /\ creator \in Streams /\ Open(creator, source, hashes) /\ ~creator.closed
      /\ size \in Nat /\ creator.pos \in 0..size
    BY DEF CreateInv, CreateWrite, Creators, Streams
<1>3. /\ n <= creator.next - p /\ n <= size - p
      /\ creator' = [creator EXCEPT !.pos = creator.pos + n, !.segment = creator.segment \o bytes]
      /\ source' = [source EXCEPT ![Len(source)] = Overwrite(source[Len(source)], Position(creator), bytes)]
      /\ size' = size /\ hashes' = hashes
    BY DEF CreateWrite
<1>4. creator.taken # 0
    <2> SUFFICES ASSUME creator.taken = 0 PROVE FALSE
        OBVIOUS
    <2>1. creator.next = L * 0 /\ L * 0 = 0
        BY <1>1, <1>2 DEF Open
    <2>2. QED
        BY <1>1, <1>2, <1>3, <2>1
<1>5. p \in Nat /\ creator.next \in Nat /\ creator.taken \in Nat \ {0} /\ creator.segment \in Seq(Int)
    BY <1>2, <1>4 DEF Streams
<1>6. bytes = Archive(p, n) /\ bytes \in Seq(Int) /\ Len(bytes) = n
      /\ \A k \in 1..n : bytes[k] = p + k
    <2>1. bytes = Archive(p, n)
        BY DEF Archive
    <2>2. p \in Int /\ n \in Nat
        BY <1>1, <1>5
    <2> HIDE DEF bytes, p
    <2>3. /\ Archive(p, n) \in Seq(Int) /\ Len(Archive(p, n)) = n
          /\ \A k \in 1..n : Archive(p, n)[k] = p + k
        BY <2>2, ArchiveType
    <2>4. QED
        BY <2>1, <2>3
<1> HIDE DEF bytes, c, L, F, N, start
<1>7. creator.segment \o bytes \in Seq(Int)
    BY <1>5, <1>6, ConcatProperties
<1>8. /\ c \in Streams /\ c.pos = p + n /\ c.next = creator.next /\ c.taken = creator.taken
      /\ c.segment = creator.segment \o bytes /\ c.closed = creator.closed
    <2>1. p + n \in Nat
        BY <1>1, <1>5
    <2>2. creator \in [pos : Nat, next : Nat, taken : Nat, segment : Seq(Int), closed : BOOLEAN]
        BY <1>2 DEF Streams
    <2>3. c = [creator EXCEPT !.pos = p + n, !.segment = creator.segment \o bytes]
        BY <1>3 DEF c
    <2>4. c \in [pos : Nat, next : Nat, taken : Nat, segment : Seq(Int), closed : BOOLEAN]
        BY <1>7, <2>1, <2>2, <2>3
    <2>5. /\ c.pos = p + n /\ c.next = creator.next /\ c.taken = creator.taken
          /\ c.segment = creator.segment \o bytes /\ c.closed = creator.closed
        BY <2>2, <2>3
    <2>6. QED
        BY <2>4, <2>5 DEF Streams
<1>9. /\ N \in Nat \ {0}
      /\ source = [f \in 1..N |-> DataFile(f, p)]
      /\ Len(source) = N
      /\ PartStart(creator) \in Nat
      /\ creator.next = PartStart(creator) + L
      /\ p \in PartStart(creator)..creator.next
      /\ start \in Nat /\ start <= PartStart(creator)
      /\ Position(creator) = p - start
      /\ Position(creator) + (creator.next - p) <= F
      /\ Position(creator) \in Nat
    BY <1>2, <1>4, OpenFacts DEF N, F, L, start
<1> DEFINE P == PartStart(creator)
<1>20. /\ N \in Nat \ {0} /\ P \in Nat /\ creator.next = P + L /\ p \in Nat
       /\ p \in P..creator.next /\ creator.next \in Nat
       /\ start \in Nat /\ start <= P
       /\ Position(creator) = p - start
       /\ Position(creator) + (creator.next - p) <= F
       /\ Position(creator) \in Nat
       /\ n <= creator.next - p /\ p + n \in 0..size
    <2>1. p + n \in 0..size
        BY <1>1, <1>2, <1>3, <1>5
    <2>2. QED
        BY <1>3, <1>5, <1>9, <2>1
<1>21. p = creator.pos
    OBVIOUS
<1> HIDE DEF p, P
<1>10. PartStart(c) = P
    BY <1>8 DEF PartStart, P
<1>11. c.segment = Archive(PartStart(c), c.pos - PartStart(c))
    <2> DEFINE m == p - P
    <2>1. m \in Nat /\ P + m = p /\ P \in Int
          /\ (p + n) - P = m + n
        BY <1>1, <1>20
    <2>2. creator.segment = Archive(P, m)
        BY <1>2, <1>21 DEF Open, P
    <2> HIDE DEF m
    <2>3. Archive(P, m) \o Archive(P + m, n) = Archive(P, m + n)
        BY <1>1, <2>1, ArchiveConcat
    <2>4. QED
        BY <1>6, <1>8, <1>10, <2>1, <2>2, <2>3
<1>12. c.pos \in PartStart(c)..c.next
    <2>1. c.pos = p + n /\ c.next = creator.next
        BY <1>8
    <2> HIDE DEF c
    <2>2. p + n \in P..creator.next
        BY <1>1, <1>20
    <2>3. QED
        BY <1>10, <2>1, <2>2
<1>13. source' = [f \in 1..N |-> DataFile(f, p + n)]
    <2> DEFINE old == DataFile(N, p)
               offset == Position(creator)
               new == Overwrite(old, offset, bytes)
    <2>1. source' = [f \in 1..N |-> IF f = N THEN new ELSE DataFile(f, p)]
        BY <1>3, <1>9, <1>21
    <2>2. old \in [1..F -> Int]
        BY <1>20, DataFileType DEF F
    <2>3. old \in Seq(Int) /\ Len(old) = F
        BY <1>1, <2>2, FunctionIsSeq
    <2>4. \A k \in 1..F : old[k] = IF start + k <= p THEN start + k ELSE Zero
        BY DEF DataFile, start, F
    <2>5. offset \in Nat /\ offset = p - start /\ offset + n <= F
        BY <1>1, <1>20
    <2> HIDE DEF old, offset
    <2>6. /\ new \in Seq(Int) /\ Len(new) = F
          /\ \A k \in 1..F : new[k] = IF k \in (offset + 1)..(offset + n) THEN bytes[k - offset] ELSE old[k]
        <3>1. offset + Len(bytes) <= Len(old)
            BY <1>6, <2>3, <2>5
        <3>2. /\ new \in Seq(Int) /\ Len(new) = Len(old)
              /\ \A k \in 1..Len(old) : new[k] =
                    IF k \in (offset + 1)..(offset + Len(bytes)) THEN bytes[k - offset] ELSE old[k]
            <4>1. old \in Seq(Int) /\ offset \in Nat /\ bytes \in Seq(Int)
                BY <1>6, <2>3, <2>5
            <4>2. QED
                BY <3>1, <4>1, OverwriteProperties DEF new
        <3>3. QED
            BY <1>6, <2>3, <3>2
    <2> HIDE DEF new
    <2>7. \A k \in 1..F : new[k] = IF start + k <= p + n THEN start + k ELSE Zero
        <3> TAKE k \in 1..F
        <3>1. CASE k \in (offset + 1)..(offset + n)
            <4>1. k - offset \in 1..n /\ p + (k - offset) = start + k /\ start + k <= p + n
                BY <1>1, <1>20, <2>5, <3>1
            <4>2. QED
                BY <1>6, <2>6, <3>1, <4>1
        <3>2. CASE k \notin (offset + 1)..(offset + n)
            <4>1. start + k <= p \/ ~(start + k <= p + n)
                BY <1>1, <1>20, <2>5, <3>2
            <4>2. start + k <= p => start + k <= p + n
                BY <1>1, <1>20
            <4>3. new[k] = IF start + k <= p THEN start + k ELSE Zero
                BY <2>4, <2>6, <3>2
            <4>4. QED
                BY <4>1, <4>2, <4>3
        <3>3. QED
            BY <3>1, <3>2
    <2>8. new = DataFile(N, p + n)
        <3>1. new = [k \in 1..F |-> new[k]]
            BY <2>6
        <3>2. QED
            BY <2>7, <3>1 DEF DataFile, start, F
    <2>9. \A f \in 1..N : f # N => DataFile(f, p) = DataFile(f, p + n)
        <3> SUFFICES ASSUME NEW f \in 1..N, f # N PROVE DataFile(f, p) = DataFile(f, p + n)
            OBVIOUS
        <3>1. f \in Nat \ {0} /\ f <= N - 1 /\ N - 1 \in Nat
            BY <1>20
        <3>2. F * f <= start
            BY <1>1, <3>1, TimesMonotonic DEF start
        <3>3. F * f = F * (f - 1) + F /\ F * (f - 1) \in Nat
            BY <1>1, <3>1
        <3>4. \A k \in 1..F : F * (f - 1) + k <= p /\ F * (f - 1) + k <= p + n
            BY <1>1, <1>20, <3>2, <3>3
        <3>5. QED
            BY <3>4 DEF DataFile, F
    <2>10. QED
        BY <2>1, <2>8, <2>9
<1>22. N = IF c.taken = 0 THEN 0 ELSE DataFileIndex(c.taken - 1) + 1
    BY <1>4, <1>8 DEF N
<1>14. Open(c, source', hashes')
    BY <1>2, <1>3, <1>8, <1>11, <1>12, <1>13, <1>22 DEF Open, L
<1>15. creator' \in Creators'
    <2>1. c.pos \in 0..size
        BY <1>8, <1>20
    <2>2. creator' \in [pos : 0..size, next : Nat, taken : Nat, segment : Seq(Int), closed : BOOLEAN]
        BY <1>8, <2>1 DEF Streams, c
    <2>3. QED
        BY <1>3, <2>2 DEF Creators
<1>16. QED
    BY <1>2, <1>3, <1>8, <1>14, <1>15 DEF CreateInv, c

\* Closing an open stream at the end of the archive cuts the archive.
LEMMA CloseCuts ==
    ASSUME NEW c \in Streams, c.taken # 0, c.pos # c.next, NEW files, NEW parts,
           Open(c, files, parts)
    PROVE  /\ Append(parts, c.segment) = Cut(c.pos, SegmentLength)
           /\ [files EXCEPT ![Len(files)] = SubSeq(files[Len(files)], 1, Position(c))]
                = Cut(c.pos, DataFileLength)
<1> DEFINE L == SegmentLength
           F == DataFileLength
           n == c.pos
           t == c.taken
           N == DataFileIndex(t - 1) + 1
           start == F * (N - 1)
           rest == n - start
<1>1. L \in Nat \ {0} /\ F \in Nat \ {0}
    BY Lengths
<1>2. n \in Nat /\ t \in Nat \ {0} /\ c.next \in Nat /\ c.segment \in Seq(Int)
    BY DEF Streams
<1>3. /\ N \in Nat \ {0}
      /\ files = [f \in 1..N |-> DataFile(f, n)]
      /\ Len(files) = N
      /\ PartStart(c) = L * (t - 1)
      /\ PartStart(c) \in Nat
      /\ c.next = PartStart(c) + L
      /\ n \in PartStart(c)..c.next
      /\ start \in Nat /\ start <= PartStart(c)
      /\ Position(c) = rest
      /\ Position(c) + (c.next - n) <= F
      /\ Position(c) \in Nat
    BY OpenFacts
<1> DEFINE P == PartStart(c)
<1>20. /\ N \in Nat \ {0} /\ P = L * (t - 1) /\ P \in Nat /\ c.next = P + L
       /\ n \in P..c.next /\ n # c.next /\ n \in Nat /\ t \in Nat \ {0} /\ c.next \in Nat
       /\ start \in Nat /\ start <= P
       /\ rest \in Nat /\ rest + (c.next - n) <= F
    BY <1>2, <1>3
<1>21. rest = n - start /\ n - start \in 0..(F - 1) /\ n = start + (n - start)
    <2> HIDE DEF N, start, L, F, P, n, t
    <2>1. rest = n - start
        OBVIOUS
    <2>2. QED
        BY <1>1, <1>20, <2>1
<1> HIDE DEF N, start, L, F, P
<1>4. n \div L = t - 1 /\ n % L = n - P
    <2> DEFINE r == n - P
    <2>1. t - 1 \in Nat /\ r \in 0..(L - 1) /\ n = L * (t - 1) + r
        BY <1>1, <1>20
    <2> HIDE DEF r
    <2>2. n \div L = t - 1 /\ n % L = r
        BY <1>1, <2>1, DivModUnique
    <2>3. QED
        BY <2>2 DEF r
<1>5. n \div F = N - 1 /\ n % F = rest
    <2>2. rest \in 0..(F - 1) /\ n = start + rest
        BY <1>21
    <2> HIDE DEF rest
    <2>3. N - 1 \in Nat /\ n = F * (N - 1) + rest
        BY <1>3, <2>2 DEF start
    <2>4. QED
        BY <1>1, <2>2, <2>3, DivModUnique
<1>6. Append(parts, c.segment) = Cut(n, L)
    <2>1. parts = [j \in 1..(t - 1) |-> Archive(L * (j - 1), L)]
        BY <1>2 DEF Open, L
    <2>2. \A j \in 1..(t - 1) : Archive(L * (j - 1), L) \in Seq(Int)
        <3> TAKE j \in 1..(t - 1)
        <3>1. L * (j - 1) \in Int
            BY <1>1, <1>2
        <3>2. QED
            BY <1>1, <3>1, ArchiveType
    <2>3. parts \in [1..(t - 1) -> Seq(Int)]
        BY <2>1, <2>2
    <2>4. t - 1 \in Nat /\ (t - 1) + 1 = t
        BY <1>2
    <2>5. Append(parts, c.segment)
            = [j \in 1..((t - 1) + 1) |-> IF j = (t - 1) + 1 THEN c.segment ELSE parts[j]]
        BY <1>2, <2>3, <2>4, AppendFunction
    <2>6. Append(parts, c.segment) = [j \in 1..t |-> IF j = t THEN c.segment ELSE parts[j]]
        BY <2>4, <2>5
    <2>7. c.segment = Archive(L * (t - 1), n % L)
        BY <1>3, <1>4 DEF Open, P
    <2>8. \A j \in 1..t : (IF j = t THEN c.segment ELSE parts[j])
                            = Archive(L * (j - 1), IF j <= t - 1 THEN L ELSE n % L)
        <3> TAKE j \in 1..t
        <3>1. CASE j = t
            <4>1. ~(j <= t - 1)
                BY <1>2, <3>1
            <4>2. QED
                BY <2>7, <3>1, <4>1
        <3>2. CASE j # t
            <4>1. j <= t - 1 /\ j \in 1..(t - 1)
                BY <1>2, <3>2
            <4>2. QED
                BY <2>1, <3>2, <4>1
        <3>3. QED
            BY <3>1, <3>2
    <2>9. Cut(n, L) = [j \in 1..t |-> Archive(L * (j - 1), IF j <= t - 1 THEN L ELSE n % L)]
        BY <1>4, <2>4 DEF Cut
    <2>10. QED
        BY <2>6, <2>8, <2>9
<1>7. [files EXCEPT ![Len(files)] = SubSeq(files[Len(files)], 1, Position(c))] = Cut(n, F)
    <2> DEFINE last == SubSeq(DataFile(N, n), 1, rest)
    <2>1. [files EXCEPT ![Len(files)] = SubSeq(files[Len(files)], 1, Position(c))]
            = [f \in 1..N |-> IF f = N THEN last ELSE DataFile(f, n)]
        BY <1>3
    <2>2. last = Archive(F * (N - 1), rest)
        <3> DEFINE file0 == DataFile(N, n)
        <3>1. file0 \in [1..F -> Int]
            BY <1>2, <1>3, DataFileType DEF F
        <3>2. \A k \in 1..F : file0[k] = IF start + k <= n THEN start + k ELSE Zero
            BY DEF DataFile, F, start
        <3>3. rest \in Nat /\ rest <= F /\ n = start + rest
            BY <1>1, <1>20, <1>21
        <3> HIDE DEF file0, rest
        <3>4. file0 \in Seq(Int) /\ Len(file0) = F
            BY <1>1, <3>1, FunctionIsSeq
        <3>5. SubSeq(file0, 0 + 1, 0 + rest) = [k \in 1..rest |-> file0[0 + k]]
            BY <3>3, <3>4, SubSeqFunction
        <3>6. SubSeq(file0, 1, rest) = [k \in 1..rest |-> file0[k]]
            BY <3>3, <3>5
        <3>7. \A k \in 1..rest : file0[k] = start + k
            <4> TAKE k \in 1..rest
            <4>1. k \in 1..F /\ start + k <= n
                BY <1>1, <1>3, <3>3
            <4>2. QED
                BY <3>2, <4>1
        <3>8. QED
            BY <3>6, <3>7 DEF file0, Archive, start
    <2>3. \A f \in 1..N : f # N => DataFile(f, n) = Archive(F * (f - 1), F)
        <3> SUFFICES ASSUME NEW f \in 1..N, f # N PROVE DataFile(f, n) = Archive(F * (f - 1), F)
            OBVIOUS
        <3>1. f \in Nat \ {0} /\ f <= N - 1 /\ N - 1 \in Nat
            BY <1>3
        <3>2. F * f <= start
            BY <1>1, <3>1, TimesMonotonic DEF start
        <3>3. F * f = F * (f - 1) + F /\ F * (f - 1) \in Nat
            BY <1>1, <3>1
        <3>4. \A k \in 1..F : F * (f - 1) + k <= n
            BY <1>1, <1>2, <1>3, <3>2, <3>3
        <3>5. QED
            BY <3>4 DEF DataFile, Archive, F
    <2> HIDE DEF last, rest
    <2>4. \A f \in 1..N : (IF f = N THEN last ELSE DataFile(f, n))
                            = Archive(F * (f - 1), IF f <= N - 1 THEN F ELSE rest)
        <3> TAKE f \in 1..N
        <3>1. CASE f = N
            <4>1. ~(f <= N - 1)
                BY <1>3, <3>1
            <4>2. QED
                BY <2>2, <3>1, <4>1
        <3>2. CASE f # N
            <4>1. f <= N - 1
                BY <1>3, <3>2
            <4>2. QED
                BY <2>3, <3>2, <4>1
        <3>3. QED
            BY <3>1, <3>2
    <2>5. (N - 1) + 1 = N
        BY <1>3
    <2>6. Cut(n, F) = [f \in 1..N |-> Archive(F * (f - 1), IF f <= N - 1 THEN F ELSE rest)]
        BY <1>5, <2>5 DEF Cut
    <2>7. QED
        BY <2>1, <2>4, <2>6
<1>8. QED
    BY <1>6, <1>7 DEF L, F

LEMMA CreateInvNext ==
    ASSUME CreateInv, [Next]_vars
    PROVE  CreateInv'
<1>1. CASE CreatePart
    <2>1. /\ creator \in Streams /\ Open(creator, source, hashes) /\ creator.pos = creator.next
          /\ ~creator.closed /\ creator.pos \in 0..size
        BY <1>1 DEF CreateInv, CreatePart, Creators, Streams
    <2>2. /\ NextPart.creator \in Streams
          /\ NextPart.creator = [creator EXCEPT !.next = creator.next + SegmentLength,
                                                !.taken = creator.taken + 1, !.segment = <<>>]
          /\ Open(NextPart.creator, NextPart.source, NextPart.hashes)
        BY <2>1, NextPartOpen
    <2>3. /\ creator' = NextPart.creator /\ source' = NextPart.source /\ hashes' = NextPart.hashes
          /\ size' = size
        BY <1>1 DEF CreatePart
    <2>4. Open(creator', source', hashes')
        BY <2>2, <2>3
    <2>5. creator'.pos = creator.pos /\ creator'.closed = creator.closed
        BY <2>1, <2>2, <2>3 DEF Streams
    <2>6. creator' \in Creators'
        BY <2>1, <2>2, <2>3, <2>5 DEF Streams, Creators
    <2>7. QED
        BY <2>1, <2>3, <2>4, <2>5, <2>6 DEF CreateInv
<1>2. CASE CreateClose
    <2> DEFINE at == IF creator.pos = creator.next
                     THEN NextPart
                     ELSE [creator |-> creator, source |-> source, hashes |-> hashes]
    <2>1. /\ creator \in Streams /\ Open(creator, source, hashes)
          /\ ~creator.closed /\ creator.pos = size /\ size \in Nat
        BY <1>2 DEF CreateInv, CreateClose, Creators, Streams
    <2>2. /\ creator' = [at.creator EXCEPT !.closed = TRUE]
          /\ hashes' = Append(at.hashes, at.creator.segment)
          /\ source' = [at.source EXCEPT ![Len(at.source)]
                          = SubSeq(at.source[Len(at.source)], 1, Position(at.creator))]
          /\ size' = size
        BY <1>2 DEF CreateClose
    <2>3. /\ at.creator \in Streams /\ Open(at.creator, at.source, at.hashes)
          /\ at.creator.taken # 0 /\ at.creator.pos # at.creator.next
          /\ at.creator.pos = size
        <3>1. CASE creator.pos = creator.next
            <4>1. at = NextPart
                BY <3>1
            <4>2. /\ NextPart.creator \in Streams
                  /\ NextPart.creator = [creator EXCEPT !.next = creator.next + SegmentLength,
                                                        !.taken = creator.taken + 1,
                                                        !.segment = <<>>]
                  /\ Open(NextPart.creator, NextPart.source, NextPart.hashes)
                BY <2>1, <3>1, NextPartOpen
            <4>3. /\ NextPart.creator.pos = creator.pos
                  /\ NextPart.creator.next = creator.next + SegmentLength
                  /\ NextPart.creator.taken = creator.taken + 1
                BY <2>1, <4>2 DEF Streams
            <4>4. creator.taken + 1 # 0 /\ creator.pos # creator.next + SegmentLength
                BY <2>1, <3>1, Lengths DEF Streams
            <4>5. QED
                BY <2>1, <4>1, <4>2, <4>3, <4>4
        <3>2. CASE creator.pos # creator.next
            <4>1. at.creator = creator /\ at.source = source /\ at.hashes = hashes
                BY <3>2
            <4>2. creator.taken # 0
                <5> SUFFICES ASSUME creator.taken = 0 PROVE FALSE
                    OBVIOUS
                <5>1. creator.next = SegmentLength * 0 /\ SegmentLength * 0 = 0
                      /\ creator.pos \in 0..creator.next
                    BY <2>1, Lengths DEF Open, PartStart
                <5>2. QED
                    BY <3>2, <5>1
            <4>3. QED
                BY <2>1, <3>2, <4>1, <4>2
        <3>3. QED
            BY <3>1, <3>2
    <2> HIDE DEF at
    <2>4. hashes' = Cut(size, SegmentLength) /\ source' = Cut(size, DataFileLength)
        BY <2>2, <2>3, CloseCuts
    <2>5. creator' \in Creators' /\ creator'.closed
        <3>1. size \in 0..size
            BY <2>1
        <3>2. creator' \in [pos : 0..size, next : Nat, taken : Nat, segment : Seq(Int), closed : BOOLEAN]
              /\ creator'.closed = TRUE
            BY <2>2, <2>3, <3>1 DEF Streams
        <3>3. QED
            BY <2>2, <3>2 DEF Creators
    <2>6. QED
        BY <2>1, <2>2, <2>4, <2>5 DEF CreateInv
<1>3. CASE \E n \in 1..SegmentLength : CreateWrite(n)
    BY <1>3, CreateWriteOpen
<1>4. CASE UNCHANGED createVars
    BY <1>4 DEF CreateInv, createVars, Creators
<1>5. ASSUME NEW s \in Slots, SlotStep(s)
      PROVE  UNCHANGED createVars
    BY <1>5 DEF SlotStep, Request, EnterPart, Receive, EndTransfer, TransferFails, CloseThrows,
                CloseValidate, CloseWrite, Succeed, Fail
<1>6. Allocate \/ UNCHANGED vars => UNCHANGED createVars
    BY DEF Allocate, vars
<1>7. QED
    BY <1>1, <1>2, <1>3, <1>4, <1>5, <1>6 DEF Next, Create

LEMMA CreateInvariant == Spec => []CreateInv
<1>1. Init => CreateInv
    BY CreateInvInit
<1>2. CreateInv /\ [Next]_vars => CreateInv'
    BY CreateInvNext
<1>3. QED
    BY <1>1, <1>2, PTL DEF Spec

LEMMA CreatedFacts ==
    ASSUME CreateInv, creator.closed
    PROVE  Created /\ PackageSize = size /\ Segments = 0..(SegmentsCount(size) - 1)
<1>1. Created
    BY DEF CreateInv, Created
<1>2. QED
    BY <1>1, CreatedPackage DEF Segments

\* The segments of a created package, laid end to end, are the archive.
LEMMA SegmentsAreArchive ==
    ASSUME CreateInv, creator.closed
    PROVE  FlattenSeq([i \in 1..SegmentsCount(size) |-> BytesOf(source, i - 1)])
              = [k \in 1..size |-> k]
<1> DEFINE L == SegmentLength
           c == SegmentsCount(size)
           seqs == [i \in 1..c |-> BytesOf(source, i - 1)]
           g == [k \in 0..c |-> IF k = c THEN size ELSE L * k]
<1>1. Created /\ size \in Nat /\ L \in Nat \ {0}
    BY CreatedFacts, Lengths DEF Created
<1>2. c \in Nat /\ (c = 0 => size = 0)
    <2>1. CASE size = 0
        <3>1. L * 0 + (L - 1) = size + L - 1 /\ L - 1 \in 0..(L - 1) /\ 0 \in Nat
            BY <1>1, <2>1
        <3>2. (L * 0 + (L - 1)) \div L = 0
            BY <1>1, <3>1, DivModUnique
        <3>3. c = 0
            BY <3>1, <3>2 DEF SegmentsCount, PiecesCount
        <3>4. QED
            BY <2>1, <3>3
    <2>2. CASE size # 0
        <3>1. size \in Nat \ {0}
            BY <1>1, <2>2
        <3>2. PiecesCount(size, L) \in Nat \ {0}
            BY <1>1, <3>1, Pieces
        <3>3. QED
            BY <3>2 DEF SegmentsCount
    <2>3. QED
        BY <2>1, <2>2
<1> HIDE DEF c, L
<1>3. \A i \in 1..c : /\ SizeOfSegment(size, i - 1) \in Nat
                      /\ L * (i - 1) \in Nat
                      /\ seqs[i] = Archive(L * (i - 1), SizeOfSegment(size, i - 1))
                      /\ L * (i - 1) + SizeOfSegment(size, i - 1) = IF i = c THEN size ELSE L * i
    <2> TAKE i \in 1..c
    <2>1. i - 1 \in 0..(SegmentsCount(size) - 1)
        BY <1>2 DEF c
    <2>2. /\ size > 0 /\ SizeOfSegment(size, i - 1) \in 1..L /\ L * (i - 1) \in Nat
          /\ BytesOf(source, i - 1) = Archive(L * (i - 1), SizeOfSegment(size, i - 1))
        BY <1>1, <2>1, CreatedBytes DEF L
    <2>3. L * (i - 1) + SizeOfSegment(size, i - 1)
            = IF i - 1 = c - 1 THEN size ELSE L * ((i - 1) + 1)
        BY <1>1, <2>1, <2>2, SegmentsTile DEF L, c
    <2>4. (i - 1) + 1 = i /\ (i - 1 = c - 1 <=> i = c)
        BY <1>2
    <2>5. QED
        BY <1>1, <2>2, <2>3, <2>4
<1>4. \A i \in 1..c : seqs[i] \in Seq(Int) /\ Len(seqs[i]) = SizeOfSegment(size, i - 1)
    <2> HIDE DEF seqs
    <2> TAKE i \in 1..c
    <2>1. L * (i - 1) \in Int /\ SizeOfSegment(size, i - 1) \in Nat
        BY <1>3
    <2>2. /\ Archive(L * (i - 1), SizeOfSegment(size, i - 1)) \in Seq(Int)
          /\ Len(Archive(L * (i - 1), SizeOfSegment(size, i - 1))) = SizeOfSegment(size, i - 1)
        BY <2>1, ArchiveType
    <2>3. QED
        BY <1>3, <2>2
<1>5. seqs \in [1..c -> Seq(Int)]
    BY <1>4
<1>6. \A k \in 1..c : g[k - 1] = L * (k - 1) /\ g[k] = IF k = c THEN size ELSE L * k
    <2> TAKE k \in 1..c
    <2>1. k - 1 \in 0..c /\ k \in 0..c /\ k - 1 # c
        BY <1>2
    <2>2. QED
        BY <2>1
<1>7. g \in [0..c -> Nat] /\ g[0] = 0 /\ g[c] = size
    <2>1. \A k \in 0..c : L * k \in Nat
        BY <1>1, <1>2
    <2>2. 0 \in 0..c /\ c \in 0..c /\ L * 0 = 0
        BY <1>1, <1>2
    <2>3. QED
        BY <1>1, <1>2, <2>1, <2>2
<1> HIDE DEF g, seqs
<1>8. Sums(g, [k \in 1..c |-> Len(seqs[k])], c)
    BY <1>3, <1>4, <1>6, <1>7 DEF Sums
<1>9. \A k \in 1..c : seqs[k] = Archive(g[k - 1], Len(seqs[k]))
    BY <1>3, <1>4, <1>6
<1>10. FlattenSeq(seqs) = Archive(0, size)
    BY <1>2, <1>5, <1>7, <1>8, <1>9, FlattenSums
<1>11. Archive(0, size) = [k \in 1..size |-> k]
    BY DEF Archive
<1>12. QED
    BY <1>10, <1>11 DEF seqs, c

\* Theorem: whatever the lengths of the writes, the data files of a created
\* package are the archive cut where readers look for its segments
\* (CreatePackageDataStreamController against PackagePartsSequencer).
THEOREM CreatedFilesInPlace == Spec => []CreatedInPlace
<1>1. CreateInv => CreatedInPlace
    BY CreatedFacts, SegmentsAreArchive DEF CreatedInPlace
<1>2. QED
    BY <1>1, CreateInvariant, PTL

\* Theorem: the hash at the index of a segment is the segment's
\* (OnStreamPartChange and OnStreamClosed of CreatePackageDataStreamController).
THEOREM HashesMatchSegments == Spec => []HashesOfSegments
<1>1. ASSUME CreateInv, creator.closed, NEW i \in Segments
      PROVE  hashes[i + 1] = BytesOf(source, i)
    <2>1. Created /\ i \in 0..(SegmentsCount(size) - 1)
        BY <1>1, CreatedFacts
    <2>2. QED
        BY <2>1, CreatedBytes
<1>2. CreateInv => HashesOfSegments
    BY <1>1 DEF HashesOfSegments
<1>3. QED
    BY <1>2, CreateInvariant, PTL

-----------------------------------------------------------------------------
(* Data files of a node that downloads. *)

\* Where a segment is read in data files of the right lengths.
LEMMA BytesInFiles ==
    ASSUME Created, size > 0, NEW files, Partial(files),
           NEW i \in 0..(SegmentsCount(size) - 1)
    PROVE  /\ BytesOf(files, i) \in Seq(Int)
           /\ Len(BytesOf(files, i)) = SizeOfSegment(size, i)
           /\ BytesOf(files, i) = [m \in 1..SizeOfSegment(size, i) |->
                 files[DataFileIndex(i) + 1][SegmentOffsetInDataFile(i) + m]]
           /\ DataFileIndex(i) + 1 \in 1..DataFilesCount(size)
           /\ SegmentOffsetInDataFile(i) \in Nat
           /\ SegmentOffsetInDataFile(i) + SizeOfSegment(size, i) <= Len(files[DataFileIndex(i) + 1])
           /\ DataFileLength * DataFileIndex(i) + SegmentOffsetInDataFile(i) = SegmentLength * i
           /\ DataFileLength * DataFileIndex(i) \in Nat
           /\ (DataFileIndex(i) + 1) - 1 = DataFileIndex(i)
<1> DEFINE D == DataFileIndex(i)
           offset == SegmentOffsetInDataFile(i)
           n == SizeOfSegment(size, i)
           f == files[D + 1]
<1>1. size \in Nat \ {0} /\ i \in Nat /\ DataFileLength \in Nat \ {0}
    <2>1. SegmentsCount(size) \in Int
        <3>1. size \in Nat \ {0} /\ SegmentLength \in Nat \ {0}
            BY Lengths DEF Created
        <3>2. PiecesCount(size, SegmentLength) \in Nat
            BY <3>1, Pieces
        <3>3. QED
            BY <3>2 DEF SegmentsCount
    <2>2. QED
        BY <2>1, Lengths DEF Created
<1>2. n \in Nat
    BY <1>1, SegmentsTile, Lengths
<1>3. D \in Nat /\ offset \in Nat /\ DataFileLength * D + offset = SegmentLength * i
      /\ DataFileLength * D \in Nat
    <2>1. D \in Nat /\ offset \in 0..(DataFileLength - SegmentLength)
          /\ DataFileLength * D + offset = SegmentLength * i
        BY <1>1, SegmentPosition
    <2> HIDE DEF D, offset
    <2>2. QED
        BY <1>1, <2>1
<1>4. D \in 0..(DataFilesCount(size) - 1) /\ offset + n <= SizeOfDataFile(size, D)
    BY <1>1, PartInDataFile
<1>5. DataFilesCount(size) \in Nat
    <2>1. PiecesCount(size, DataFileLength) \in Nat
        BY <1>1, Pieces
    <2>2. QED
        BY <2>1 DEF DataFilesCount
<1> HIDE DEF D
<1>6. D + 1 \in 1..DataFilesCount(size) /\ (D + 1) - 1 = D
    BY <1>3, <1>4, <1>5
<1>7. f \in Seq(Int) /\ Len(f) = SizeOfDataFile(size, D)
    BY <1>6 DEF Partial
<1>8. BytesOf(files, i) = SubSeq(f, offset + 1, offset + n)
    BY CreatedPackage DEF BytesOf, D
<1> HIDE DEF f, offset, n
<1>9. /\ SubSeq(f, offset + 1, offset + n) = [k \in 1..n |-> f[offset + k]]
      /\ SubSeq(f, offset + 1, offset + n) \in Seq(Int)
      /\ Len(SubSeq(f, offset + 1, offset + n)) = n
    BY <1>2, <1>3, <1>4, <1>7, SubSeqFunction
<1>10. QED
    BY <1>3, <1>4, <1>6, <1>7, <1>8, <1>9 DEF f, offset, n, D

\* A segment is on disk when each of its bytes is.
LEMMA OnDiskBytes ==
    ASSUME Created, size > 0, NEW files, Partial(files),
           NEW i \in 0..(SegmentsCount(size) - 1)
    PROVE  BytesOf(files, i) = BytesOf(source, i)
             <=> \A m \in 1..SizeOfSegment(size, i) :
                    files[DataFileIndex(i) + 1][SegmentOffsetInDataFile(i) + m]
                      = SegmentLength * i + m
<1> DEFINE n == SizeOfSegment(size, i)
           b(m) == files[DataFileIndex(i) + 1][SegmentOffsetInDataFile(i) + m]
<1>1. BytesOf(files, i) = [m \in 1..n |-> b(m)]
    BY BytesInFiles
<1>2. BytesOf(source, i) = [m \in 1..n |-> SegmentLength * i + m]
    BY CreatedBytes DEF Archive
<1> HIDE DEF n, b
<1>3. BytesOf(files, i) = BytesOf(source, i) <=> \A m \in 1..n : b(m) = SegmentLength * i + m
    <2>1. ASSUME BytesOf(files, i) = BytesOf(source, i), NEW m \in 1..n
          PROVE  b(m) = SegmentLength * i + m
        <3>1. [k \in 1..n |-> b(k)][m] = [k \in 1..n |-> SegmentLength * i + k][m]
            BY <1>1, <1>2, <2>1
        <3>2. QED
            BY <3>1
    <2>2. QED
        BY <1>1, <1>2, <2>1
<1>4. QED
    BY <1>3 DEF n, b

\* Data files that change to what the archive has there, if at all.
Grows(old, new) ==
    /\ Partial(old) /\ Partial(new)
    /\ \A f \in 1..DataFilesCount(size) : \A k \in 1..Len(old[f]) :
          new[f][k] = old[f][k] \/ new[f][k] = DataFileLength * (f - 1) + k

LEMMA GrowsKeepsSegments ==
    ASSUME Created, size > 0, NEW old, NEW new, Grows(old, new),
           NEW i \in 0..(SegmentsCount(size) - 1),
           BytesOf(old, i) = BytesOf(source, i)
    PROVE  BytesOf(new, i) = BytesOf(source, i)
<1> DEFINE D == DataFileIndex(i)
           offset == SegmentOffsetInDataFile(i)
           n == SizeOfSegment(size, i)
<1>1. Partial(old) /\ Partial(new)
    BY DEF Grows
<1>2. \A m \in 1..n : old[D + 1][offset + m] = SegmentLength * i + m
    BY <1>1, OnDiskBytes
<1>3. /\ D + 1 \in 1..DataFilesCount(size) /\ (D + 1) - 1 = D
      /\ offset \in Nat /\ offset + n <= Len(old[D + 1])
      /\ DataFileLength * D + offset = SegmentLength * i /\ DataFileLength * D \in Nat
    BY <1>1, BytesInFiles
<1>4. n \in Nat /\ SegmentLength * i \in Nat
    BY CreatedBytes
<1>5. Len(old[D + 1]) \in Nat
    BY <1>1, <1>3, LenProperties DEF Partial
<1> HIDE DEF D, offset, n
<1>6. \A m \in 1..n : new[D + 1][offset + m] = SegmentLength * i + m
    <2> TAKE m \in 1..n
    <2>1. offset + m \in 1..Len(old[D + 1])
        BY <1>3, <1>4, <1>5
    <2>2. DataFileLength * D + (offset + m) = SegmentLength * i + m
        BY <1>3, <1>4
    <2>3. new[D + 1][offset + m] = old[D + 1][offset + m]
          \/ new[D + 1][offset + m] = DataFileLength * ((D + 1) - 1) + (offset + m)
        BY <1>3, <2>1 DEF Grows
    <2>4. QED
        BY <1>2, <1>3, <2>2, <2>3
<1>7. QED
    BY <1>1, <1>6, OnDiskBytes DEF D, offset, n

LEMMA GrowsReflexive ==
    ASSUME NEW files, Partial(files)
    PROVE  Grows(files, files)
BY DEF Grows

\* The first k bytes of a segment are written where its readers look for them.
LEMMA WriteGrows ==
    ASSUME Created, size > 0, NEW files, Partial(files),
           NEW i \in 0..(SegmentsCount(size) - 1),
           NEW k \in 0..SizeOfSegment(size, i),
           NEW new, new = [files EXCEPT ![DataFileIndex(i) + 1] =
                              Overwrite(files[DataFileIndex(i) + 1], SegmentOffsetInDataFile(i),
                                        Archive(SegmentLength * i, k))]
    PROVE  /\ Grows(files, new)
           /\ k = SizeOfSegment(size, i) => BytesOf(new, i) = BytesOf(source, i)
<1> DEFINE D == DataFileIndex(i)
           offset == SegmentOffsetInDataFile(i)
           n == SizeOfSegment(size, i)
           bytes == Archive(SegmentLength * i, k)
           old == files[D + 1]
           over == Overwrite(old, offset, bytes)
<1>1. new = [files EXCEPT ![D + 1] = over]
    OBVIOUS
<1>2. /\ D + 1 \in 1..DataFilesCount(size) /\ (D + 1) - 1 = D
      /\ offset \in Nat /\ offset + n <= Len(old)
      /\ DataFileLength * D + offset = SegmentLength * i /\ DataFileLength * D \in Nat
    BY BytesInFiles
<1>3. n \in Nat /\ SegmentLength * i \in Nat
    BY CreatedBytes
<1>4. k \in Nat /\ k <= n /\ SegmentLength * i \in Int
    BY <1>3
<1> HIDE DEF D, offset, n, over
<1>5. bytes \in Seq(Int) /\ Len(bytes) = k /\ \A m \in 1..k : bytes[m] = SegmentLength * i + m
    <2> DEFINE start == SegmentLength * i
    <2>1. start \in Int
        BY <1>4
    <2> HIDE DEF start
    <2>2. /\ Archive(start, k) \in Seq(Int) /\ Len(Archive(start, k)) = k
          /\ \A m \in 1..k : Archive(start, k)[m] = start + m
        BY <1>4, <2>1, ArchiveType
    <2>3. QED
        BY <2>2 DEF start
<1> HIDE DEF bytes
<1>6. /\ old \in Seq(Int) /\ Len(old) \in Nat
      /\ Len(old) = SizeOfDataFile(size, D)
      /\ \A x \in 1..Len(old) : old[x] \in {Zero, DataFileLength * D + x}
    <2>1. /\ old \in Seq(Int) /\ Len(old) = SizeOfDataFile(size, (D + 1) - 1)
          /\ \A x \in 1..Len(old) : old[x] \in {Zero, DataFileLength * ((D + 1) - 1) + x}
        BY <1>2 DEF Partial
    <2> HIDE DEF old
    <2>2. QED
        BY <1>2, <2>1, LenProperties
<1> HIDE DEF old
<1>7. /\ over \in Seq(Int) /\ Len(over) = Len(old)
      /\ \A x \in 1..Len(old) : over[x] =
            IF x \in (offset + 1)..(offset + k) THEN bytes[x - offset] ELSE old[x]
    <2>1. offset + Len(bytes) <= Len(old)
        BY <1>2, <1>3, <1>4, <1>5, <1>6
    <2>2. /\ Overwrite(old, offset, bytes) \in Seq(Int)
          /\ Len(Overwrite(old, offset, bytes)) = Len(old)
          /\ \A x \in 1..Len(old) : Overwrite(old, offset, bytes)[x] =
                IF x \in (offset + 1)..(offset + Len(bytes)) THEN bytes[x - offset] ELSE old[x]
        BY <1>2, <1>5, <1>6, <2>1, OverwriteProperties
    <2>3. QED
        BY <1>5, <2>2 DEF over
<1>8. \A x \in 1..Len(old) :
         /\ over[x] = old[x] \/ over[x] = DataFileLength * D + x
         /\ x \in (offset + 1)..(offset + k) => over[x] = DataFileLength * D + x
    <2> TAKE x \in 1..Len(old)
    <2>1. CASE x \in (offset + 1)..(offset + k)
        <3>1. x - offset \in 1..k /\ SegmentLength * i + (x - offset) = DataFileLength * D + x
            BY <1>2, <1>3, <1>4, <1>6, <2>1
        <3>2. QED
            BY <1>5, <1>7, <2>1, <3>1
    <2>2. CASE x \notin (offset + 1)..(offset + k)
        BY <1>7, <2>2
    <2>3. QED
        BY <2>1, <2>2
<1>9. /\ files \in [1..DataFilesCount(size) -> Seq(Int)]
      /\ files[D + 1] = old /\ new[D + 1] = over
      /\ \A f \in 1..DataFilesCount(size) : f # D + 1 => new[f] = files[f]
      /\ new \in [1..DataFilesCount(size) -> Seq(Int)]
    <2>1. files \in [1..DataFilesCount(size) -> Seq(Int)]
        BY DEF Partial
    <2>2. QED
        BY <1>1, <1>2, <1>7, <2>1 DEF old
<1>10. Partial(new)
    <2>1. ASSUME NEW f \in 1..DataFilesCount(size)
          PROVE  /\ Len(new[f]) = SizeOfDataFile(size, f - 1)
                 /\ \A x \in 1..Len(new[f]) : new[f][x] \in {Zero, DataFileLength * (f - 1) + x}
        <3>1. CASE f = D + 1
            <4>1. new[f] = over /\ f - 1 = D
                BY <1>2, <1>9, <3>1
            <4>2. Len(over) = SizeOfDataFile(size, D)
                BY <1>6, <1>7
            <4>3. \A x \in 1..Len(over) : over[x] \in {Zero, DataFileLength * D + x}
                BY <1>6, <1>7, <1>8
            <4>4. QED
                BY <4>1, <4>2, <4>3
        <3>2. CASE f # D + 1
            BY <1>9, <3>2 DEF Partial
        <3>3. QED
            BY <3>1, <3>2
    <2>2. QED
        BY <1>9, <2>1 DEF Partial
<1>11. Grows(files, new)
    <2>1. ASSUME NEW f \in 1..DataFilesCount(size), NEW x \in 1..Len(files[f])
          PROVE  new[f][x] = files[f][x] \/ new[f][x] = DataFileLength * (f - 1) + x
        <3>1. CASE f = D + 1
            <4>1. new[f] = over /\ files[f] = old /\ f - 1 = D
                BY <1>2, <1>9, <3>1
            <4>2. QED
                BY <1>8, <2>1, <4>1
        <3>2. CASE f # D + 1
            BY <1>9, <3>2
        <3>3. QED
            BY <3>1, <3>2
    <2>2. QED
        BY <1>10, <2>1 DEF Grows
<1>12. k = n => BytesOf(new, i) = BytesOf(source, i)
    <2> SUFFICES ASSUME k = n PROVE BytesOf(new, i) = BytesOf(source, i)
        OBVIOUS
    <2>1. \A m \in 1..n : new[D + 1][offset + m] = SegmentLength * i + m
        <3> TAKE m \in 1..n
        <3>1. offset + m \in 1..Len(old) /\ offset + m \in (offset + 1)..(offset + k)
              /\ DataFileLength * D + (offset + m) = SegmentLength * i + m
            <4>1. offset + n <= Len(old)
                BY <1>2 DEF old
            <4>2. QED
                BY <1>2, <1>3, <1>4, <1>6, <4>1
        <3>2. QED
            BY <1>8, <1>9, <3>1
    <2>2. QED
        BY <1>10, <2>1, OnDiskBytes DEF D, offset, n
<1>13. QED
    BY <1>11, <1>12 DEF n

-----------------------------------------------------------------------------
(* Download slots. *)

LEMMA GoodState ==
    ASSUME StreamInv, disk # <<>>
    PROVE  /\ Created /\ size > 0 /\ size \in Nat \ {0}
           /\ PackageSize = size
           /\ Segments = 0..(SegmentsCount(size) - 1)
           /\ Partial(disk)
           /\ SegmentsCount(size) \in Nat \ {0} /\ DataFilesCount(size) \in Nat \ {0}
<1>1. CreateInv /\ creator.closed /\ size > 0 /\ Partial(disk)
    BY DEF StreamInv, DiskInv
<1>2. Created /\ PackageSize = size /\ Segments = 0..(SegmentsCount(size) - 1)
    BY <1>1, CreatedFacts
<1>3. size \in Nat \ {0}
    BY <1>1, <1>2 DEF Created
<1>4. /\ PiecesCount(size, SegmentLength) \in Nat \ {0}
      /\ PiecesCount(size, DataFileLength) \in Nat \ {0}
    BY <1>3, Lengths, Pieces
<1>5. QED
    BY <1>1, <1>2, <1>3, <1>4 DEF SegmentsCount, DataFilesCount

\* The data files after a step of a slot.
LEMMA FilesKept ==
    ASSUME StreamInv, disk # <<>>, UNCHANGED createVars, Grows(disk, disk')
    PROVE  /\ disk' # <<>>
           /\ CreateInv' /\ DiskInv'
           /\ PackageSize' = PackageSize
           /\ \A i \in 0..(SegmentsCount(size) - 1) :
                 /\ OnDisk(i)' <=> BytesOf(disk', i) = BytesOf(source, i)
                 /\ OnDisk(i) => OnDisk(i)'
<1>1. /\ Created /\ size > 0 /\ size \in Nat \ {0} /\ Partial(disk)
      /\ DataFilesCount(size) \in Nat \ {0}
    BY GoodState
<1>2. size' = size /\ creator' = creator /\ source' = source /\ hashes' = hashes
    BY DEF createVars
<1>3. Partial(disk')
    BY DEF Grows
<1>4. disk' # <<>>
    <2>1. disk' \in [1..DataFilesCount(size) -> Seq(Int)] /\ 1 \in 1..DataFilesCount(size)
        BY <1>1, <1>3 DEF Partial
    <2>2. DOMAIN disk' # {}
        BY <2>1
    <2>3. QED
        BY <2>2
<1>5. DiskInv'
    <2>1. Partial(disk)'
        BY <1>2, <1>3 DEF Partial
    <2>2. QED
        BY <1>1, <1>2, <2>1 DEF DiskInv, Created
<1>6. CreateInv'
    BY <1>2 DEF StreamInv, CreateInv, Creators
<1>7. PackageSize' = PackageSize
    BY <1>2 DEF PackageSize
<1>8. ASSUME NEW i \in 0..(SegmentsCount(size) - 1)
      PROVE  /\ OnDisk(i)' <=> BytesOf(disk', i) = BytesOf(source, i)
             /\ OnDisk(i) => OnDisk(i)'
    <2>1. BytesOf(disk, i)' = BytesOf(disk', i) /\ BytesOf(source, i)' = BytesOf(source, i)
        BY <1>2, <1>7 DEF BytesOf
    <2>2. OnDisk(i)' <=> BytesOf(disk', i) = BytesOf(source, i)
        BY <2>1 DEF OnDisk
    <2>3. OnDisk(i) => BytesOf(disk', i) = BytesOf(source, i)
        BY <1>1, GrowsKeepsSegments DEF OnDisk
    <2>4. QED
        BY <2>2, <2>3
<1>9. QED
    BY <1>4, <1>5, <1>6, <1>7, <1>8

\* One slot's variables after a step.
SlotIs(s, st, v, w, req) ==
    /\ stage' = [stage EXCEPT ![s] = st]
    /\ validate' = [validate EXCEPT ![s] = v]
    /\ write' = [write EXCEPT ![s] = w]
    /\ request' = [request EXCEPT ![s] = req]

\* A step of one slot keeps the invariant if what it leaves in the slot is good.
LEMMA SlotStepInv ==
    ASSUME StreamInv, disk # <<>>, UNCHANGED createVars, Grows(disk, disk'),
           NEW s \in Slots, NEW st \in Stages, NEW v \in Validates, NEW w \in Writes,
           NEW req \in Seq(0..(SegmentsCount(size) - 1)),
           SlotIs(s, st, v, w, req),
           st = "idle" => v = NewValidate /\ w = NewStream,
           st # "idle" => req # <<>>,
           st \in SoundStages => /\ Sound(st, v, w.taken, req)
                                 /\ w.taken <= Len(req)
                                 /\ \A j \in 1..w.taken :
                                       BytesOf(disk', req[j]) = BytesOf(source, req[j]),
           \A i \in have' : \/ i \in have
                            \/ /\ i \in 0..(SegmentsCount(size) - 1)
                               /\ BytesOf(disk', i) = BytesOf(source, i)
    PROVE  StreamInv'
<1>1. /\ disk' # <<>>
      /\ CreateInv' /\ DiskInv'
      /\ PackageSize' = PackageSize
      /\ \A i \in 0..(SegmentsCount(size) - 1) :
            /\ OnDisk(i)' <=> BytesOf(disk', i) = BytesOf(source, i)
            /\ OnDisk(i) => OnDisk(i)'
    BY FilesKept
<1>2. size' = size
    BY DEF createVars
<1>3. HaveInv'
    <2>1. ASSUME NEW i \in have'
          PROVE  i \in 0..(SegmentsCount(size) - 1) /\ OnDisk(i)'
        BY <1>1, <2>1 DEF StreamInv, HaveInv
    <2>2. QED
        BY <1>1, <1>2, <2>1 DEF HaveInv
<1>4. /\ stage \in [Slots -> Stages] /\ validate \in [Slots -> Validates]
      /\ write \in [Slots -> Writes] /\ request \in [Slots -> Seq(0..(SegmentsCount(size) - 1))]
      /\ \A t \in Slots : SlotInv(t)
    BY DEF StreamInv, SlotsInv
<1>5. /\ stage' \in [Slots -> Stages] /\ validate' \in [Slots -> Validates]
      /\ write' \in [Slots -> Writes] /\ request' \in [Slots -> Seq(0..(SegmentsCount(size) - 1))]
    BY <1>4 DEF SlotIs
<1>6. /\ stage'[s] = st /\ validate'[s] = v /\ write'[s] = w /\ request'[s] = req
      /\ \A t \in Slots : t # s => /\ stage'[t] = stage[t] /\ validate'[t] = validate[t]
                                   /\ write'[t] = write[t] /\ request'[t] = request[t]
    BY <1>4 DEF SlotIs
<1>7. SlotInv(s)'
    <2>1. ASSUME st \in SoundStages
          PROVE  SoundInv(s)'
        <3>1. Sound(stage[s], validate[s], write[s].taken, request[s])'
            BY <1>2, <1>6, <2>1 DEF Sound
        <3>2. ASSUME NEW j \in 1..w.taken
              PROVE  OnDisk(req[j])'
            <4>1. w.taken \in Nat /\ Len(req) \in Nat
                BY LenProperties DEF Writes
            <4>2. req[j] \in 0..(SegmentsCount(size) - 1)
                <5>1. j \in 1..Len(req)
                    BY <2>1, <4>1
                <5>2. QED
                    BY <5>1, ElementOfSeq
            <4>3. QED
                BY <1>1, <2>1, <4>2
        <3>3. \A j \in 1..write'[s].taken : OnDisk(req[j])'
            BY <1>6, <3>2
        <3>4. QED
            BY <1>6, <3>1, <3>3 DEF SoundInv, OnDisk, BytesOf
    <2>2. QED
        BY <1>1, <1>2, <1>6, <2>1 DEF SlotInv
<1>8. ASSUME NEW t \in Slots, t # s
      PROVE  SlotInv(t)'
    <2>1. /\ stage'[t] = stage[t] /\ validate'[t] = validate[t]
          /\ write'[t] = write[t] /\ request'[t] = request[t]
        BY <1>6, <1>8
    <2>2. SlotInv(t) /\ stage[t] \in Stages /\ write[t] \in Writes
        BY <1>4, <1>8
    <2>3. ASSUME stage[t] \in SoundStages
          PROVE  SoundInv(t)'
        <3>1. /\ Sound(stage[t], validate[t], write[t].taken, request[t])
              /\ \A j \in 1..write[t].taken : OnDisk(request[t][j])
              /\ request[t] \in Seq(0..(SegmentsCount(size) - 1))
            BY <1>4, <2>2, <2>3 DEF SlotInv, SoundInv, SoundStages
        <3>2. Sound(stage[t], validate[t], write[t].taken, request[t])'
            BY <1>2, <2>1, <3>1 DEF Sound
        <3>3. Len(request[t]) \in Nat /\ write[t].taken <= Len(request[t]) /\ write[t].taken \in Nat
            <4>1. Len(request[t]) \in Nat
                BY <3>1, LenProperties
            <4>2. QED
                BY <2>2, <3>1, <4>1 DEF Sound, Writes
        <3>4. ASSUME NEW j \in 1..write[t].taken
              PROVE  OnDisk(request[t][j])'
            <4>1. j \in 1..Len(request[t])
                BY <3>3
            <4>2. request[t][j] \in 0..(SegmentsCount(size) - 1)
                BY <3>1, <4>1, ElementOfSeq
            <4>3. OnDisk(request[t][j])
                BY <3>1
            <4>4. BytesOf(disk', request[t][j]) = BytesOf(source, request[t][j])
                BY <1>1, <4>2, <4>3
            <4>5. QED
                BY <1>1, <2>1, <4>2, <4>4
        <3>5. QED
            BY <2>1, <3>2, <3>4 DEF SoundInv
    <2>4. QED
        BY <1>1, <1>2, <2>1, <2>2, <2>3 DEF SlotInv
<1>9. QED
    BY <1>1, <1>2, <1>3, <1>5, <1>7, <1>8 DEF StreamInv, SlotsInv

LEMMA RequestSums ==
    ASSUME size \in Nat \ {0}, NEW req \in Seq(0..(SegmentsCount(size) - 1)),
           NEW g, g = SizesOfParts(size, req), NEW n, n = Len(req)
    PROVE  /\ n \in Nat /\ g[0] = 0
           /\ \A k \in 0..n : g[k] \in Nat /\ g[k] <= g[n] /\ (g[k] = g[n] => k = n)
           /\ \A k \in 1..n : /\ req[k] \in 0..(SegmentsCount(size) - 1)
                              /\ SizeOfSegment(size, req[k]) \in Nat \ {0}
                              /\ g[k] = g[k - 1] + SizeOfSegment(size, req[k])
           /\ SizeOfParts(size, req) = g[n]
<1> DEFINE x == [k \in 1..n |-> SizeOfSegment(size, req[k])]
<1>1. Sums(g, x, n)
    BY SizesOfPartsSums
<1>2. n \in Nat /\ \A k \in 1..n : req[k] \in 0..(SegmentsCount(size) - 1)
    BY LenProperties, ElementOfSeq
<1>3. \A k \in 1..n : SizeOfSegment(size, req[k]) \in Nat \ {0}
    <2> TAKE k \in 1..n
    <2>1. SizeOfSegment(size, req[k]) \in 1..SegmentLength
        BY <1>2, SegmentsTile
    <2>2. QED
        BY <2>1, Lengths
<1>4. x \in [1..n -> Nat \ {0}]
    BY <1>3
<1>5. \A k \in 1..n : x[k] = SizeOfSegment(size, req[k])
    OBVIOUS
<1> HIDE DEF x
<1>6. \A k \in 0..n : k # n => g[k] < g[n]
    BY <1>1, <1>2, <1>4, SumsIncrease
<1>7. /\ g \in [0..n -> Nat] /\ g[0] = 0
      /\ \A k \in 1..n : g[k] = g[k - 1] + x[k]
    BY <1>1 DEF Sums
<1>8. \A k \in 0..n : g[k] \in Nat /\ g[k] <= g[n] /\ (g[k] = g[n] => k = n)
    <2> TAKE k \in 0..n
    <2>1. g[k] \in Nat /\ g[n] \in Nat
        BY <1>2, <1>7
    <2>2. k # n => g[k] < g[n]
        BY <1>6
    <2>3. QED
        BY <2>1, <2>2
<1>9. SizeOfParts(size, req) = g[n]
    BY DEF SizeOfParts
<1>10. QED
    BY <1>2, <1>3, <1>5, <1>7, <1>8, <1>9

LEMMA SoundSlot ==
    ASSUME StreamInv, NEW s \in Slots, stage[s] \in SoundStages
    PROVE  /\ disk # <<>>
           /\ request[s] \in Seq(0..(SegmentsCount(size) - 1)) /\ request[s] # <<>>
           /\ validate[s] \in Validates /\ write[s] \in Writes
           /\ Sound(stage[s], validate[s], write[s].taken, request[s])
           /\ write[s].taken <= Len(request[s])
           /\ \A j \in 1..write[s].taken :
                 /\ request[s][j] \in 0..(SegmentsCount(size) - 1)
                 /\ BytesOf(disk, request[s][j]) = BytesOf(source, request[s][j])
<1>1. /\ SlotInv(s) /\ validate[s] \in Validates /\ write[s] \in Writes
      /\ request[s] \in Seq(0..(SegmentsCount(size) - 1))
    BY DEF StreamInv, SlotsInv
<1>2. /\ disk # <<>>
      /\ request[s] \in Seq(0..(SegmentsCount(size) - 1)) /\ request[s] # <<>>
      /\ Sound(stage[s], validate[s], write[s].taken, request[s])
      /\ \A j \in 1..write[s].taken : OnDisk(request[s][j])
    BY <1>1 DEF SlotInv, SoundInv, SoundStages
<1>3. write[s].taken <= Len(request[s]) /\ write[s].taken \in Nat /\ Len(request[s]) \in Nat
    <2>1. Len(request[s]) \in Nat
        BY <1>2, LenProperties
    <2>2. QED
        BY <1>1, <1>2, <2>1 DEF Sound, Writes
<1>4. \A j \in 1..write[s].taken : request[s][j] \in 0..(SegmentsCount(size) - 1)
    <2> TAKE j \in 1..write[s].taken
    <2>1. j \in 1..Len(request[s])
        BY <1>3
    <2>2. QED
        BY <1>2, <2>1, ElementOfSeq
<1>5. QED
    BY <1>1, <1>2, <1>3, <1>4 DEF OnDisk

\* Of the next part, or none behind the last.
Advanced(v, req) ==
    [v EXCEPT !.segment = <<>>, !.taken = v.taken + 1,
              !.next = IF v.taken < Len(req)
                       THEN v.next + SizeOfSegment(size, req[v.taken + 1]) ELSE v.next]

\* The stages a change of a part begins and ends in.
Resolves(st, resolved, thrown) ==
    \/ st = "copy" /\ resolved = "copy" /\ thrown = "broken"
    \/ st = "close" /\ resolved = "closeWrite" /\ thrown = "thrown"

LEMMA AdvancedSound ==
    ASSUME size \in Nat \ {0}, NEW req \in Seq(0..(SegmentsCount(size) - 1)), req # <<>>,
           NEW v \in Validates, NEW st, NEW resolved, NEW thrown, Resolves(st, resolved, thrown),
           NEW taken, Sound(st, v, taken, req), v.pos = v.next, v.taken <= Len(req)
    PROVE  /\ Advanced(v, req) \in Validates
           /\ Sound(resolved, Advanced(v, req), v.taken, req)
<1> DEFINE n == Len(req)
           g == SizesOfParts(size, req)
           w == Advanced(v, req)
           t == v.taken
<1>1. /\ n \in Nat /\ g[0] = 0
      /\ \A k \in 0..n : g[k] \in Nat /\ g[k] <= g[n] /\ (g[k] = g[n] => k = n)
      /\ \A k \in 1..n : /\ SizeOfSegment(size, req[k]) \in Nat \ {0}
                         /\ g[k] = g[k - 1] + SizeOfSegment(size, req[k])
      /\ SizeOfParts(size, req) = g[n]
    BY RequestSums
<1>2. v \in [pos : Nat, next : Nat, taken : Nat, segment : Seq(Int), bytes : Int]
    BY DEF Validates
<1>3. t \in 0..n /\ t \in Nat
    BY <1>1, <1>2
<1>4. v.next = g[t]
    BY <1>3 DEF Sound
<1>5. n # 0
    BY EmptySeq
<1> DEFINE next == IF t < n THEN v.next + SizeOfSegment(size, req[t + 1]) ELSE v.next
<1>6. w = [v EXCEPT !.segment = <<>>, !.taken = t + 1, !.next = next]
    BY DEF Advanced
<1>20. n \in Nat /\ t \in Nat /\ t <= n
    BY <1>1, <1>2
<1> HIDE DEF g, w, n
<1>7. next = g[IF t + 1 <= n THEN t + 1 ELSE n] /\ next \in Nat /\ v.next <= next
    <2>1. CASE t < n
        <3>1. t + 1 \in 1..n /\ (t + 1) - 1 = t /\ t + 1 \in 0..n /\ t \in 0..n
            <4> HIDE DEF t
            <4>1. QED
                BY <1>20, <2>1
        <3>2. next = v.next + SizeOfSegment(size, req[t + 1])
            BY <2>1
        <3>3. g[t + 1] = g[t] + SizeOfSegment(size, req[t + 1]) /\ g[t] \in Nat
              /\ SizeOfSegment(size, req[t + 1]) \in Nat
            BY <1>1, <3>1
        <3> HIDE DEF next
        <3>4. QED
            BY <1>4, <3>1, <3>2, <3>3
    <2>2. CASE ~(t < n)
        <3>1. t = n /\ ~(t + 1 <= n)
            BY <1>1, <1>3, <2>2
        <3>2. next = v.next /\ g[n] \in Nat
            BY <1>1, <2>2
        <3>3. QED
            BY <1>4, <3>1, <3>2
    <2>3. QED
        BY <2>1, <2>2
<1> HIDE DEF next
<1>8. <<>> \in Seq(Int) /\ t + 1 \in Nat
    BY <1>3
<1>9. /\ w \in Validates /\ w.pos = v.pos /\ w.next = next /\ w.taken = t + 1 /\ w.bytes = v.bytes
    <2>1. w \in [pos : Nat, next : Nat, taken : Nat, segment : Seq(Int), bytes : Int]
        BY <1>2, <1>6, <1>7, <1>8
    <2>2. /\ w.pos = v.pos /\ w.next = next /\ w.taken = t + 1 /\ w.bytes = v.bytes
        BY <1>2, <1>6
    <2>3. QED
        BY <2>1, <2>2 DEF Validates
<1>10. w.taken \in 0..(n + 1) /\ w.taken # 0 /\ t = w.taken - 1
    <2>1. w.taken = t + 1
        BY <1>9
    <2> HIDE DEF t
    <2>2. QED
        BY <1>20, <2>1
<1>11. w.next = g[IF w.taken <= n THEN w.taken ELSE n] /\ w.pos <= w.next
    BY <1>2, <1>7, <1>9
<1>12. w.bytes \in IF resolved = "copy" THEN {-1} ELSE {-1, w.pos}
    BY <1>9 DEF Sound, Resolves
<1>13. w.bytes = g[n] => w.taken = n + 1
    <2>1. v.bytes \in {-1, v.pos}
        BY DEF Sound
    <2>2. g[n] \in Nat /\ g[t] \in Nat /\ (g[t] = g[n] => t = n)
        BY <1>1, <1>3
    <2>3. v.bytes = g[n] => t = n
        BY <1>4, <2>1, <2>2
    <2>4. QED
        BY <1>9, <2>3
<1>14. QED
    BY <1>1, <1>9, <1>10, <1>11, <1>12, <1>13 DEF Sound, g, w, n

\* A verified segment goes to the data files, as a whole or not.
LEMMA NestedWriteGrows ==
    ASSUME StreamInv, NEW s \in Slots, stage[s] \in SoundStages,
           validate[s].taken \in 1..Len(request[s]), HashMatches(s),
           NEW k \in 0..Len(validate[s].segment), NestedWrite(s, k)
    PROVE  /\ Grows(disk, disk')
           /\ k = Len(validate[s].segment) =>
                 LET i == request[s][validate[s].taken]
                 IN  BytesOf(disk', i) = BytesOf(source, i)
           /\ \E w \in Writes : /\ write' = [write EXCEPT ![s] = w]
                                /\ w.taken = validate[s].taken
<1> DEFINE v == validate[s]
           req == request[s]
           i == req[v.taken]
           n == SizeOfSegment(size, i)
<1>1. /\ disk # <<>> /\ req \in Seq(0..(SegmentsCount(size) - 1))
      /\ v \in Validates /\ write[s] \in Writes
      /\ Sound(stage[s], v, write[s].taken, req)
    BY SoundSlot
<1>2. /\ Created /\ size > 0 /\ size \in Nat \ {0} /\ PackageSize = size /\ Partial(disk)
    BY <1>1, GoodState
<1>3. i \in 0..(SegmentsCount(size) - 1)
    BY <1>1, ElementOfSeq
<1>4. v.taken \in Nat /\ write[s].taken + 1 = v.taken
    <2>1. v.taken \in Nat /\ v.taken # 0 /\ write[s].taken = v.taken - 1
        BY <1>1 DEF Sound, Validates
    <2>2. QED
        BY <2>1
<1>5. n \in Nat \ {0} /\ v.segment = Archive(SegmentLength * i, n) /\ SegmentLength * i \in Nat
    <2>1. /\ n \in 1..SegmentLength /\ SegmentLength * i \in Nat
          /\ hashes[i + 1] = Archive(SegmentLength * i, n)
        BY <1>2, <1>3, CreatedBytes
    <2>2. v.segment = hashes[i + 1]
        BY DEF HashMatches
    <2>3. QED
        BY <2>1, <2>2, Lengths
<1> DEFINE bytes == SubSeq(v.segment, 1, k)
<1>6. /\ write' = [write EXCEPT ![s] = [pos   |-> write[s].pos + k,
                                        next  |-> write[s].next + n,
                                        taken |-> write[s].taken + 1]]
      /\ disk' = [disk EXCEPT ![DataFileIndex(i) + 1] =
                     Overwrite(disk[DataFileIndex(i) + 1], SegmentOffsetInDataFile(i), bytes)]
    BY <1>2, <1>4 DEF NestedWrite, WriteOffset
<1> HIDE DEF v, req, n, i
<1>7. Len(v.segment) = n /\ k \in 0..n /\ bytes = Archive(SegmentLength * i, k)
    <2> DEFINE a == SegmentLength * i
    <2>1. a \in Int /\ n \in Nat /\ v.segment = Archive(a, n)
        BY <1>5
    <2> HIDE DEF a
    <2>2. Len(Archive(a, n)) = n
        BY <2>1, ArchiveType
    <2>3. k \in 0..n
        BY <2>1, <2>2 DEF v
    <2>4. SubSeq(Archive(a, n), 1, k) = Archive(a, k)
        BY <2>1, <2>3, ArchivePrefix
    <2>5. QED
        BY <2>1, <2>2, <2>3, <2>4 DEF a
<1> HIDE DEF bytes
<1>8. Grows(disk, disk') /\ (k = n => BytesOf(disk', i) = BytesOf(source, i))
    <2>1. disk' = [disk EXCEPT ![DataFileIndex(i) + 1] =
                      Overwrite(disk[DataFileIndex(i) + 1], SegmentOffsetInDataFile(i),
                                Archive(SegmentLength * i, k))]
        BY <1>6, <1>7
    <2>2. k \in 0..SizeOfSegment(size, i)
        BY <1>7 DEF n
    <2>3. QED
        BY <1>2, <1>3, <2>1, <2>2, WriteGrows DEF n
<1>9. [pos |-> write[s].pos + k, next |-> write[s].next + n, taken |-> write[s].taken + 1] \in Writes
    BY <1>1, <1>5, <1>7 DEF Writes
<1>10. QED
    <2> DEFINE w == [pos |-> write[s].pos + k, next |-> write[s].next + n,
                     taken |-> write[s].taken + 1]
    <2>1. w \in Writes /\ w.taken = v.taken /\ write' = [write EXCEPT ![s] = w]
        BY <1>4, <1>6, <1>9
    <2> HIDE DEF w
    <2>2. QED
        BY <1>7, <1>8, <2>1 DEF v, i, req

\* What does not change is kept as it is.
LEMMA SlotKept ==
    ASSUME StreamInv, NEW s \in Slots
    PROVE  /\ stage = [stage EXCEPT ![s] = stage[s]]
           /\ validate = [validate EXCEPT ![s] = validate[s]]
           /\ write = [write EXCEPT ![s] = write[s]]
           /\ request = [request EXCEPT ![s] = request[s]]
           /\ stage[s] \in Stages
           /\ SlotInv(s)
BY DEF StreamInv, SlotsInv

LEMMA ResolveInv ==
    ASSUME StreamInv, NEW s \in Slots, AtBoundary(validate[s]),
           NEW resolved, NEW thrown, Resolves(stage[s], resolved, thrown),
           Resolve(s, resolved, thrown), UNCHANGED <<createVars, request, have>>
    PROVE  StreamInv'
<1> DEFINE v == validate[s]
           req == request[s]
<1>1. stage[s] \in SoundStages /\ resolved \in SoundStages /\ resolved # "idle"
      /\ thrown \notin SoundStages /\ thrown # "idle"
      /\ resolved \in Stages /\ thrown \in Stages
    BY DEF Resolves, SoundStages, Stages
<1>2. /\ disk # <<>> /\ req \in Seq(0..(SegmentsCount(size) - 1)) /\ req # <<>>
      /\ v \in Validates /\ write[s] \in Writes
      /\ Sound(stage[s], v, write[s].taken, req)
      /\ write[s].taken <= Len(req)
      /\ \A j \in 1..write[s].taken :
            /\ req[j] \in 0..(SegmentsCount(size) - 1)
            /\ BytesOf(disk, req[j]) = BytesOf(source, req[j])
    BY <1>1, SoundSlot
<1>3. /\ Created /\ size > 0 /\ size \in Nat \ {0} /\ PackageSize = size /\ Partial(disk)
    BY <1>2, GoodState
<1>4. /\ stage = [stage EXCEPT ![s] = stage[s]]
      /\ validate = [validate EXCEPT ![s] = v]
      /\ write = [write EXCEPT ![s] = write[s]]
      /\ request = [request EXCEPT ![s] = req]
    BY SlotKept
<1>5. v.pos = v.next /\ v.taken \in Nat /\ Len(req) \in Nat /\ v.taken \in 0..(Len(req) + 1)
      /\ write[s].taken = IF v.taken = 0 THEN 0 ELSE v.taken - 1
    BY <1>2, LenProperties DEF AtBoundary, Sound, Validates
<1>6. UNCHANGED createVars /\ request' = request /\ have' = have
    OBVIOUS
<1>7. v.taken <= Len(req) =>
         /\ Advanced(v, req) \in Validates
         /\ Sound(resolved, Advanced(v, req), v.taken, req)
    BY <1>2, <1>3, <1>5, AdvancedSound
<1>8. Advance(s) => validate' = [validate EXCEPT ![s] = Advanced(v, req)]
    BY <1>3 DEF Advance, Advanced
<1>9. \A w \in Writes : Grows(disk, disk') /\ stage' = [stage EXCEPT ![s] = thrown]
                        /\ write' = [write EXCEPT ![s] = w] /\ validate' = validate => StreamInv'
    <2> TAKE w \in Writes
    <2> HAVE Grows(disk, disk') /\ stage' = [stage EXCEPT ![s] = thrown]
             /\ write' = [write EXCEPT ![s] = w] /\ validate' = validate
    <2>1. SlotIs(s, thrown, v, w, req)
        BY <1>4, <1>6 DEF SlotIs
    <2> HIDE DEF v, req
    <2>2. QED
        BY <1>1, <1>2, <1>6, <2>1, SlotStepInv
<1>10. CASE v.taken = 0 /\ Advance(s) /\ Goto(s, resolved) /\ UNCHANGED <<write, file, disk>>
    <2>1. SlotIs(s, resolved, Advanced(v, req), write[s], req)
        BY <1>4, <1>6, <1>8, <1>10 DEF SlotIs, Goto
    <2>2. Grows(disk, disk')
        BY <1>3, <1>10, GrowsReflexive
    <2>3. v.taken <= Len(req) /\ write[s].taken = v.taken
        BY <1>5, <1>10
    <2>4. Advanced(v, req) \in Validates /\ Sound(resolved, Advanced(v, req), write[s].taken, req)
        BY <1>7, <2>3
    <2>5. \A j \in 1..write[s].taken : BytesOf(disk', req[j]) = BytesOf(source, req[j])
        BY <1>2, <1>10
    <2> DEFINE a == Advanced(v, req)
    <2> HIDE DEF a, v, req
    <2>6. QED
        BY <1>1, <1>2, <1>6, <2>1, <2>2, <2>4, <2>5, SlotStepInv DEF a
<1>11. CASE /\ v.taken \in 1..Len(req) /\ HashMatches(s)
            /\ NestedWrite(s, Len(v.segment)) /\ Advance(s) /\ Goto(s, resolved)
    <2>1. Len(v.segment) \in 0..Len(v.segment)
        BY <1>2, LenProperties DEF Validates
    <2>2. /\ Grows(disk, disk')
          /\ BytesOf(disk', req[v.taken]) = BytesOf(source, req[v.taken])
          /\ \E w \in Writes : write' = [write EXCEPT ![s] = w] /\ w.taken = v.taken
        BY <1>1, <1>11, <2>1, NestedWriteGrows
    <2>3. PICK w \in Writes : write' = [write EXCEPT ![s] = w] /\ w.taken = v.taken
        BY <2>2
    <2>4. SlotIs(s, resolved, Advanced(v, req), w, req)
        BY <1>4, <1>6, <1>8, <1>11, <2>3 DEF SlotIs, Goto
    <2>5. v.taken <= Len(req)
        BY <1>5, <1>11
    <2>6. Advanced(v, req) \in Validates /\ Sound(resolved, Advanced(v, req), w.taken, req)
        BY <1>7, <2>3, <2>5
    <2>7. \A j \in 1..w.taken : BytesOf(disk', req[j]) = BytesOf(source, req[j])
        <3> TAKE j \in 1..w.taken
        <3>1. CASE j = v.taken
            BY <2>2, <3>1
        <3>2. CASE j # v.taken
            <4>1. j \in 1..write[s].taken
                BY <1>5, <1>11, <2>3, <3>2
            <4>2. /\ req[j] \in 0..(SegmentsCount(size) - 1)
                  /\ BytesOf(disk, req[j]) = BytesOf(source, req[j])
                BY <1>2, <4>1
            <4>3. QED
                BY <1>3, <2>2, <4>2, GrowsKeepsSegments
        <3>3. QED
            BY <3>1, <3>2
    <2>8. w.taken <= Len(req)
        BY <2>3, <2>5
    <2> DEFINE a == Advanced(v, req)
    <2> HIDE DEF a, v, req
    <2>9. QED
        BY <1>1, <1>2, <1>6, <2>2, <2>4, <2>6, <2>7, <2>8, SlotStepInv DEF a
<1>12. CASE Goto(s, thrown) /\ UNCHANGED <<validate, write, file, disk>>
    <2>1. Grows(disk, disk')
        BY <1>3, <1>12, GrowsReflexive
    <2>2. write' = [write EXCEPT ![s] = write[s]]
        BY <1>4, <1>12
    <2>3. QED
        BY <1>2, <1>9, <1>12, <2>1, <2>2 DEF Goto
<1>13. CASE /\ v.taken \in 1..Len(req) /\ HashMatches(s)
            /\ \/ NestedOpenFails(s)
               \/ \E k \in 0..(Len(v.segment) - 1) : NestedWrite(s, k)
            /\ Goto(s, thrown) /\ UNCHANGED validate
    <2>1. CASE NestedOpenFails(s)
        <3>1. UNCHANGED <<write, disk>>
            BY <2>1 DEF NestedOpenFails
        <3>2. Grows(disk, disk')
            BY <1>3, <3>1, GrowsReflexive
        <3>3. write' = [write EXCEPT ![s] = write[s]]
            BY <1>4, <3>1
        <3>4. QED
            BY <1>2, <1>9, <1>13, <3>2, <3>3 DEF Goto
    <2>2. CASE \E k \in 0..(Len(v.segment) - 1) : NestedWrite(s, k)
        <3>1. PICK k \in 0..(Len(v.segment) - 1) : NestedWrite(s, k)
            BY <2>2
        <3>2. k \in 0..Len(v.segment)
            BY <1>2, LenProperties DEF Validates
        <3>3. /\ Grows(disk, disk')
              /\ \E w \in Writes : write' = [write EXCEPT ![s] = w] /\ w.taken = v.taken
            BY <1>1, <1>13, <3>1, <3>2, NestedWriteGrows
        <3>4. QED
            BY <1>9, <1>13, <3>3 DEF Goto
    <2>3. QED
        BY <1>13, <2>1, <2>2
<1>14. CASE v.taken > Len(req) /\ Goto(s, resolved) /\ UNCHANGED <<validate, write, file, disk>>
    <2>1. SlotIs(s, resolved, v, write[s], req)
        BY <1>4, <1>6, <1>14 DEF SlotIs, Goto
    <2>2. Grows(disk, disk')
        BY <1>3, <1>14, GrowsReflexive
    <2>3. v.taken = Len(req) + 1
        BY <1>5, <1>14
    <2>4. Sound(resolved, v, write[s].taken, req)
        BY <1>2, <2>3 DEF Sound, Resolves
    <2>5. \A j \in 1..write[s].taken : BytesOf(disk', req[j]) = BytesOf(source, req[j])
        BY <1>2, <1>14
    <2> HIDE DEF v, req
    <2>6. QED
        BY <1>1, <1>2, <1>6, <2>1, <2>2, <2>4, <2>5, SlotStepInv
<1>15. QED
    BY <1>10, <1>11, <1>12, <1>13, <1>14 DEF Resolve

LEMMA RequestInv ==
    ASSUME StreamInv, NEW s \in Slots, NEW req \in Requests, Request(s, req)
    PROVE  StreamInv'
<1>1. /\ disk # <<>> /\ stage[s] = "idle"
      /\ request' = [request EXCEPT ![s] = req] /\ stage' = [stage EXCEPT ![s] = "copy"]
      /\ UNCHANGED createVars /\ disk' = disk /\ validate' = validate /\ write' = write
      /\ have' = have
    BY DEF Request
<1>2. /\ size \in Nat \ {0} /\ Partial(disk) /\ Segments = 0..(SegmentsCount(size) - 1)
    BY <1>1, GoodState
<1>3. req \in Seq(0..(SegmentsCount(size) - 1)) /\ req # <<>>
    <2> DEFINE free == Segments \ (have \union UNION {Requested(t) : t \in Slots})
    <2>1. PICK n \in 1..SegmentsPerRequest : req \in [1..n -> free]
        BY DEF Requests
    <2>2. n \in Nat \ {0}
        BY StreamAssumption
    <2>3. free \subseteq 0..(SegmentsCount(size) - 1)
        BY <1>2
    <2> HIDE DEF free
    <2>4. req \in [1..n -> 0..(SegmentsCount(size) - 1)]
        BY <2>1, <2>3
    <2>5. req \in Seq(0..(SegmentsCount(size) - 1)) /\ Len(req) = n
        <3> DEFINE S == 0..(SegmentsCount(size) - 1)
        <3>0. req \in [1..n -> S] /\ n \in Nat
            BY <2>2, <2>4
        <3> HIDE DEF S
        <3>1. req \in Seq(S) /\ Len(req) = n
            BY <3>0, SeqDef
        <3>2. QED
            BY <3>1 DEF S
    <2>6. QED
        BY <2>2, <2>5, EmptySeq
<1>4. /\ validate = [validate EXCEPT ![s] = validate[s]] /\ write = [write EXCEPT ![s] = write[s]]
      /\ validate[s] = NewValidate /\ write[s] = NewStream
    BY <1>1, SlotKept DEF SlotInv
<1>5. SlotIs(s, "copy", NewValidate, NewStream, req)
    BY <1>1, <1>4 DEF SlotIs
<1>6. /\ "copy" \in Stages /\ "copy" # "idle" /\ "copy" \in SoundStages
      /\ NewValidate \in Validates /\ NewStream \in Writes
    <2>1. <<>> \in Seq(Int)
        OBVIOUS
    <2>2. QED
        BY <2>1 DEF Stages, SoundStages, Validates, Writes, NewValidate, NewStream
<1>7. Sound("copy", NewValidate, NewStream.taken, req) /\ NewStream.taken <= Len(req)
    <2>1. Len(req) \in Nat /\ SizesOfParts(size, req)[0] = 0
        BY <1>2, <1>3, RequestSums
    <2>2. QED
        BY <2>1 DEF Sound, NewValidate, NewStream
<1>8. \A j \in 1..NewStream.taken : FALSE
    BY DEF NewStream
<1>9. Grows(disk, disk')
    BY <1>1, <1>2, GrowsReflexive
<1>10. QED
    BY <1>1, <1>3, <1>5, <1>6, <1>7, <1>8, <1>9, SlotStepInv

\* The stream of an upload has the bytes of its parts.
LEMMA UploadType ==
    ASSUME StreamInv, disk # <<>>, NEW req \in Seq(0..(SegmentsCount(size) - 1))
    PROVE  Upload(req) \in Seq(Int) /\ Len(Upload(req)) = SizeOfParts(size, req)
<1> DEFINE n == Len(req)
           seqs == [k \in 1..n |-> BytesOf(source, req[k])]
           g == SizesOfParts(size, req)
<1>1. Created /\ size \in Nat \ {0}
    BY GoodState
<1>2. n \in Nat
    BY LenProperties
<1>3. \A k \in 1..n : req[k] \in 0..(SegmentsCount(size) - 1)
    BY ElementOfSeq
<1>4. \A k \in 1..n : /\ BytesOf(source, req[k]) \in Seq(Int)
                      /\ Len(BytesOf(source, req[k])) = SizeOfSegment(size, req[k])
    <2> TAKE k \in 1..n
    <2> DEFINE a == SegmentLength * req[k]
               m == SizeOfSegment(size, req[k])
    <2>1. m \in 1..SegmentLength /\ a \in Nat /\ BytesOf(source, req[k]) = Archive(a, m)
        BY <1>1, <1>3, CreatedBytes
    <2> HIDE DEF a, m
    <2>2. m \in Nat /\ a \in Int
        BY <2>1, Lengths
    <2>3. Archive(a, m) \in Seq(Int) /\ Len(Archive(a, m)) = m
        BY <2>2, ArchiveType
    <2>4. QED
        BY <2>1, <2>3 DEF m
<1>5. seqs \in [1..n -> Seq(Int)]
    BY <1>4
<1>6. Sums(g, [k \in 1..n |-> SizeOfSegment(size, req[k])], n)
    BY <1>1, SizesOfPartsSums
<1>7. [k \in 1..n |-> Len(seqs[k])] = [k \in 1..n |-> SizeOfSegment(size, req[k])]
    BY <1>4
<1> HIDE DEF seqs, g
<1>8. FlattenSeq(seqs) \in Seq(Int) /\ Len(FlattenSeq(seqs)) = g[n]
    <2>1. Sums(g, [k \in 1..n |-> Len(seqs[k])], n)
        BY <1>6, <1>7
    <2>2. QED
        BY <1>2, <1>5, <2>1, FlattenSums
<1>9. QED
    BY <1>8 DEF Upload, SizeOfParts, seqs, g

LEMMA ReceiveInv ==
    ASSUME StreamInv, NEW s \in Slots, NEW n \in 1..SegmentLength, NEW clean \in BOOLEAN,
           Receive(s, n, clean)
    PROVE  StreamInv'
<1> DEFINE v == validate[s]
           req == request[s]
           sent == SubSeq(Upload(req), v.pos + 1, v.pos + n)
           bytes == IF clean THEN sent ELSE [sent EXCEPT ![1] = Bad]
           w == [v EXCEPT !.pos = v.pos + n, !.segment = v.segment \o bytes]
<1>1. /\ stage[s] = "copy" /\ n <= v.next - v.pos
      /\ validate' = [validate EXCEPT ![s] = w]
      /\ UNCHANGED createVars /\ disk' = disk /\ request' = request /\ stage' = stage
      /\ write' = write /\ have' = have
    BY DEF Receive
<1>2. stage[s] \in SoundStages /\ "copy" \in Stages
    BY <1>1 DEF SoundStages, Stages
<1>3. /\ disk # <<>> /\ req \in Seq(0..(SegmentsCount(size) - 1)) /\ req # <<>>
      /\ v \in Validates /\ write[s] \in Writes
      /\ Sound("copy", v, write[s].taken, req)
      /\ write[s].taken <= Len(req)
      /\ \A j \in 1..write[s].taken :
            /\ req[j] \in 0..(SegmentsCount(size) - 1)
            /\ BytesOf(disk, req[j]) = BytesOf(source, req[j])
    BY <1>1, <1>2, SoundSlot
<1>4. size \in Nat \ {0} /\ Partial(disk)
    BY <1>3, GoodState
<1>5. v.pos \in Nat /\ v.next \in Nat /\ v.segment \in Seq(Int) /\ n \in Nat \ {0}
    BY <1>3, Lengths DEF Validates
<1>6. v.pos + n <= v.next /\ v.pos + n \in Nat
    BY <1>1, <1>5
<1>7. v.next <= SizeOfParts(size, req) /\ SizeOfParts(size, req) \in Nat
    <2> DEFINE N == Len(req)
               g == SizesOfParts(size, req)
               k == IF v.taken <= N THEN v.taken ELSE N
    <2>1. N \in Nat /\ (\A m \in 0..N : g[m] \in Nat /\ g[m] <= g[N]) /\ SizeOfParts(size, req) = g[N]
        BY <1>3, <1>4, RequestSums
    <2>2. v.taken \in 0..(N + 1) /\ v.next = g[k]
        BY <1>3 DEF Sound
    <2> HIDE DEF N, g
    <2>3. k \in 0..N /\ N \in 0..N
        BY <2>1, <2>2
    <2> HIDE DEF k
    <2>4. QED
        BY <2>1, <2>2, <2>3
<1>8. Upload(req) \in Seq(Int) /\ Len(Upload(req)) = SizeOfParts(size, req)
    BY <1>3, UploadType
<1>9. sent \in Seq(Int) /\ Len(sent) = n
    <2>1. v.pos + n <= Len(Upload(req))
        BY <1>5, <1>6, <1>7, <1>8
    <2> HIDE DEF v, req
    <2>2. QED
        BY <1>5, <1>8, <2>1, SubSeqFunction
<1> HIDE DEF sent
<1>10. bytes \in Seq(Int)
    <2>1. sent \in [1..n -> Int] /\ n \in Nat
        BY <1>5, <1>9
    <2>2. [sent EXCEPT ![1] = Bad] \in [1..n -> Int]
        BY <2>1 DEF Bad
    <2>3. [sent EXCEPT ![1] = Bad] \in Seq(Int)
        BY <2>1, <2>2, FunctionIsSeq
    <2>4. QED
        BY <1>9, <2>3
<1> HIDE DEF bytes
<1>11. v.segment \o bytes \in Seq(Int)
    BY <1>5, <1>10, ConcatProperties
<1>12. /\ w \in Validates /\ w.pos = v.pos + n /\ w.next = v.next /\ w.taken = v.taken
       /\ w.bytes = v.bytes
    <2>1. v \in [pos : Nat, next : Nat, taken : Nat, segment : Seq(Int), bytes : Int]
        BY <1>3 DEF Validates
    <2>2. w \in [pos : Nat, next : Nat, taken : Nat, segment : Seq(Int), bytes : Int]
        BY <1>6, <1>11, <2>1
    <2>3. w.pos = v.pos + n /\ w.next = v.next /\ w.taken = v.taken /\ w.bytes = v.bytes
        BY <2>1
    <2>4. QED
        BY <2>2, <2>3 DEF Validates
<1> HIDE DEF w
<1>13. Sound("copy", w, write[s].taken, req)
    BY <1>3, <1>6, <1>12 DEF Sound
<1>14. SlotIs(s, "copy", w, write[s], req)
    BY <1>1, SlotKept DEF SlotIs
<1>15. Grows(disk, disk')
    BY <1>1, <1>4, GrowsReflexive
<1> HIDE DEF v, req
<1>16. "copy" # "idle"
    OBVIOUS
<1>17. QED
    BY <1>1, <1>2, <1>3, <1>12, <1>13, <1>14, <1>15, <1>16, SlotStepInv

\* The end of a transfer, with the count of its bytes or without.
LEMMA TransferEndsInv ==
    ASSUME StreamInv, NEW s \in Slots, EndTransfer(s) \/ TransferFails(s)
    PROVE  StreamInv'
<1> DEFINE v == validate[s]
           req == request[s]
           done == [v EXCEPT !.bytes = v.pos]
<1>1. /\ stage[s] = "copy" /\ stage' = [stage EXCEPT ![s] = "close"]
      /\ UNCHANGED createVars /\ disk' = disk /\ request' = request
      /\ write' = write /\ have' = have
      /\ validate' = validate \/ validate' = [validate EXCEPT ![s].bytes = v.pos]
    BY DEF EndTransfer, TransferFails, Goto
<1>2. stage[s] \in SoundStages /\ "close" \in Stages /\ "close" # "idle"
    BY <1>1 DEF SoundStages, Stages
<1>3. /\ disk # <<>> /\ req \in Seq(0..(SegmentsCount(size) - 1)) /\ req # <<>>
      /\ v \in Validates /\ write[s] \in Writes
      /\ Sound("copy", v, write[s].taken, req)
      /\ write[s].taken <= Len(req)
      /\ \A j \in 1..write[s].taken :
            /\ req[j] \in 0..(SegmentsCount(size) - 1)
            /\ BytesOf(disk, req[j]) = BytesOf(source, req[j])
    BY <1>1, <1>2, SoundSlot
<1>4. Grows(disk, disk')
    BY <1>1, <1>3, GoodState, GrowsReflexive
<1>5. \E w \in {v, done} : validate' = [validate EXCEPT ![s] = w]
    <2>1. validate = [validate EXCEPT ![s] = v]
        BY SlotKept
    <2>2. [validate EXCEPT ![s].bytes = v.pos] = [validate EXCEPT ![s] = done]
        OBVIOUS
    <2>3. QED
        BY <1>1, <2>1, <2>2
<1>6. /\ done \in Validates /\ done.pos = v.pos /\ done.next = v.next /\ done.taken = v.taken
      /\ done.bytes = v.pos
    BY <1>3 DEF Validates
<1> HIDE DEF done
<1>7. PICK w \in {v, done} : validate' = [validate EXCEPT ![s] = w]
    BY <1>5
<1>8. w \in Validates /\ Sound("close", w, write[s].taken, req)
    BY <1>3, <1>6 DEF Sound
<1>9. SlotIs(s, "close", w, write[s], req)
    BY <1>1, <1>7, SlotKept DEF SlotIs
<1> HIDE DEF v, req
<1>10. QED
    BY <1>1, <1>2, <1>3, <1>4, <1>8, <1>9, SlotStepInv

\* A step that only changes the stage.
LEMMA GotoInv ==
    ASSUME StreamInv, NEW s \in Slots, stage[s] # "idle", NEW st \in Stages, Goto(s, st),
           st # "idle",
           st \in SoundStages => /\ stage[s] \in SoundStages
                                 /\ Sound(st, validate[s], write[s].taken, request[s]),
           UNCHANGED <<createVars, disk, request, validate, write, have>>
    PROVE  StreamInv'
<1> DEFINE v == validate[s]
           req == request[s]
<1>1. /\ UNCHANGED createVars /\ disk' = disk /\ request' = request
      /\ write' = write /\ have' = have /\ validate' = validate
      /\ stage' = [stage EXCEPT ![s] = st]
    BY DEF Goto
<1>2. /\ disk # <<>> /\ req \in Seq(0..(SegmentsCount(size) - 1)) /\ req # <<>>
      /\ v \in Validates /\ write[s] \in Writes
    BY DEF StreamInv, SlotsInv, SlotInv
<1>3. Grows(disk, disk')
    BY <1>1, <1>2, GoodState, GrowsReflexive
<1>4. SlotIs(s, st, v, write[s], req)
    BY <1>1, SlotKept DEF SlotIs
<1>5. st \in SoundStages => /\ Sound(st, v, write[s].taken, req)
                            /\ write[s].taken <= Len(req)
                            /\ \A j \in 1..write[s].taken :
                                  BytesOf(disk', req[j]) = BytesOf(source, req[j])
    BY <1>1, SoundSlot
<1> HIDE DEF v, req
<1>6. QED
    BY <1>1, <1>2, <1>3, <1>4, <1>5, SlotStepInv

LEMMA CloseInv ==
    ASSUME StreamInv, NEW s \in Slots, CloseThrows(s) \/ CloseValidate(s) \/ CloseWrite(s)
    PROVE  StreamInv'
<1>1. /\ {"thrown", "closeWrite", "decide"} \subseteq Stages /\ "thrown" \notin SoundStages
      /\ "close" \in SoundStages /\ "closeWrite" \in SoundStages
    BY DEF Stages, SoundStages
<1>2. CASE CloseThrows(s)
    BY <1>1, <1>2, GotoInv DEF CloseThrows
<1>3. CASE CloseValidate(s)
    <2>1. stage[s] = "close" /\ UNCHANGED <<createVars, request, have>>
        BY <1>3 DEF CloseValidate
    <2>2. CASE AtBoundary(validate[s])
        <3>1. Resolve(s, "closeWrite", "thrown")
            BY <1>3, <2>2 DEF CloseValidate
        <3>2. Resolves(stage[s], "closeWrite", "thrown")
            BY <2>1 DEF Resolves
        <3>3. QED
            BY <2>1, <2>2, <3>1, <3>2, ResolveInv
    <2>3. CASE ~AtBoundary(validate[s])
        <3>1. Goto(s, "closeWrite") /\ UNCHANGED <<validate, write, file, disk>>
            BY <1>3, <2>3 DEF CloseValidate
        <3> DEFINE v == validate[s]
                   req == request[s]
                   n == Len(req)
                   g == SizesOfParts(size, req)
        <3>2. /\ disk # <<>> /\ req \in Seq(0..(SegmentsCount(size) - 1))
              /\ v \in Validates /\ Sound("close", v, write[s].taken, req)
            BY <1>1, <2>1, SoundSlot
        <3>3. size \in Nat \ {0}
            BY <3>2, GoodState
        <3>4. /\ n \in Nat
              /\ \A k \in 0..n : g[k] \in Nat /\ g[k] <= g[n]
              /\ SizeOfParts(size, req) = g[n]
            BY <3>2, <3>3, RequestSums
        <3>5. v.bytes # SizeOfParts(size, req)
            <4> DEFINE k == IF v.taken <= n THEN v.taken ELSE n
            <4>1. /\ v.taken \in 0..(n + 1) /\ v.next = g[k] /\ v.pos <= v.next
                  /\ v.bytes \in {-1, v.pos}
                BY <3>2 DEF Sound
            <4>2. v.pos \in Nat /\ v.pos # v.next
                BY <2>3, <3>2 DEF AtBoundary, Validates
            <4> HIDE DEF n, g
            <4>3. k \in 0..n /\ n \in 0..n
                BY <3>4, <4>1
            <4> HIDE DEF k
            <4>4. g[k] \in Nat /\ g[n] \in Nat /\ g[k] <= g[n]
                BY <3>4, <4>3
            <4>5. QED
                BY <3>4, <4>1, <4>2, <4>4
        <3>6. Sound("closeWrite", v, write[s].taken, req)
            BY <3>2, <3>5 DEF Sound
        <3>7. QED
            BY <1>1, <2>1, <3>1, <3>6, GotoInv
    <2>4. QED
        BY <2>2, <2>3
<1>4. CASE CloseWrite(s)
    <2>1. /\ stage[s] = "closeWrite" /\ UNCHANGED <<createVars, disk, request, validate, write, have>>
          /\ Goto(s, "decide") \/ Goto(s, "thrown")
        BY <1>4 DEF CloseWrite
    <2>2. Sound("closeWrite", validate[s], write[s].taken, request[s])
        BY <1>1, <2>1, SoundSlot
    <2>3. Sound("decide", validate[s], write[s].taken, request[s])
        BY <2>2 DEF Sound
    <2>4. CASE Goto(s, "decide")
        BY <1>1, <2>1, <2>3, <2>4, GotoInv
    <2>5. CASE Goto(s, "thrown")
        BY <1>1, <2>1, <2>5, GotoInv
    <2>6. QED
        BY <2>1, <2>4, <2>5
<1>5. QED
    BY <1>2, <1>3, <1>4

\* A slot that ends is as good as new; what it reports is on disk.
LEMMA EndedInv ==
    ASSUME StreamInv, NEW s \in Slots, Succeed(s) \/ Fail(s)
    PROVE  StreamInv'
<1> DEFINE v == validate[s]
           req == request[s]
<1>1. /\ UNCHANGED createVars /\ disk' = disk
      /\ SlotIs(s, "idle", NewValidate, NewStream, <<>>)
      /\ stage[s] \in {"decide", "thrown"}
    BY DEF Succeed, Fail, Ended, Goto, SlotIs
<1>2. disk # <<>>
    BY <1>1, SlotKept DEF SlotInv
<1>3. Partial(disk) /\ PackageSize = size /\ size \in Nat \ {0}
    BY <1>2, GoodState
<1>4. Grows(disk, disk')
    BY <1>1, <1>3, GrowsReflexive
<1>5. /\ "idle" \in Stages /\ "idle" \notin SoundStages
      /\ NewValidate \in Validates /\ NewStream \in Writes
      /\ <<>> \in Seq(0..(SegmentsCount(size) - 1))
    <2>1. <<>> \in Seq(Int) /\ <<>> \in Seq(0..(SegmentsCount(size) - 1))
        OBVIOUS
    <2>2. QED
        BY <2>1 DEF Stages, SoundStages, Validates, Writes, NewValidate, NewStream
<1>6. ASSUME NEW i \in have'
      PROVE  i \in have \/ (i \in 0..(SegmentsCount(size) - 1) /\ BytesOf(disk', i) = BytesOf(source, i))
    <2>1. CASE Fail(s)
        BY <1>6, <2>1 DEF Fail
    <2>2. CASE Succeed(s)
        <3>1. /\ stage[s] = "decide" /\ v.bytes = SizeOfParts(size, req)
              /\ have' = have \union Requested(s)
            BY <1>3, <2>2 DEF Succeed
        <3>2. /\ Sound("decide", v, write[s].taken, req)
              /\ \A j \in 1..write[s].taken :
                    /\ req[j] \in 0..(SegmentsCount(size) - 1)
                    /\ BytesOf(disk, req[j]) = BytesOf(source, req[j])
              /\ Len(req) \in Nat
            <4>1. stage[s] \in SoundStages
                BY <3>1 DEF SoundStages
            <4>2. QED
                BY <3>1, <4>1, SoundSlot, LenProperties
        <3>3. v.taken = Len(req) + 1 /\ write[s].taken = IF v.taken = 0 THEN 0 ELSE v.taken - 1
            BY <3>1, <3>2 DEF Sound
        <3>4. write[s].taken = Len(req)
            BY <3>2, <3>3
        <3>5. QED
            BY <1>1, <1>6, <3>1, <3>2, <3>4 DEF Requested
    <2>3. QED
        BY <2>1, <2>2
<1>7. QED
    BY <1>1, <1>2, <1>4, <1>5, <1>6, SlotStepInv

LEMMA SlotInvNext ==
    ASSUME StreamInv, NEW s \in Slots, SlotStep(s)
    PROVE  StreamInv'
<1>1. CASE \E req \in Requests : Request(s, req)
    BY <1>1, RequestInv
<1>2. CASE EnterPart(s)
    <2>1. /\ stage[s] = "copy" /\ AtBoundary(validate[s]) /\ Resolve(s, "copy", "broken")
          /\ UNCHANGED <<createVars, request, have>>
        BY <1>2 DEF EnterPart
    <2>2. Resolves(stage[s], "copy", "broken")
        BY <2>1 DEF Resolves
    <2>3. QED
        BY <2>1, <2>2, ResolveInv
<1>3. CASE \E n \in 1..SegmentLength, clean \in BOOLEAN : Receive(s, n, clean)
    BY <1>3, ReceiveInv
<1>4. CASE EndTransfer(s) \/ TransferFails(s)
    BY <1>4, TransferEndsInv
<1>5. CASE CloseThrows(s) \/ CloseValidate(s) \/ CloseWrite(s)
    BY <1>5, CloseInv
<1>6. CASE Succeed(s) \/ Fail(s)
    BY <1>6, EndedInv
<1>7. QED
    BY <1>1, <1>2, <1>3, <1>4, <1>5, <1>6 DEF SlotStep

-----------------------------------------------------------------------------
(* The invariant. *)

LEMMA StreamInvInit == Init => StreamInv
<1> SUFFICES ASSUME Init PROVE StreamInv
    OBVIOUS
<1>1. CreateInv
    BY CreateInvInit
<1>2. /\ disk = <<>> /\ have = {}
      /\ request = [s \in Slots |-> <<>>]
      /\ stage = [s \in Slots |-> "idle"]
      /\ validate = [s \in Slots |-> NewValidate]
      /\ write = [s \in Slots |-> NewStream]
    BY DEF Init
<1>3. /\ "idle" \in Stages /\ "idle" \notin SoundStages
      /\ NewValidate \in Validates /\ NewStream \in Writes
      /\ <<>> \in Seq(0..(SegmentsCount(size) - 1))
    <2>1. <<>> \in Seq(Int) /\ <<>> \in Seq(0..(SegmentsCount(size) - 1))
        OBVIOUS
    <2>2. QED
        BY <2>1 DEF Stages, SoundStages, Validates, Writes, NewValidate, NewStream
<1>4. SlotsInv
    BY <1>2, <1>3 DEF SlotsInv, SlotInv
<1>5. QED
    BY <1>1, <1>2, <1>4 DEF StreamInv, DiskInv, HaveInv

\* While the package is created and its data files allocated nothing is
\* downloaded.
LEMMA CreateKeepsDownloads ==
    ASSUME StreamInv, Create
    PROVE  StreamInv'
<1>1. CreateInv'
    <2>1. CreateInv /\ [Next]_vars
        BY DEF StreamInv, Next
    <2>2. QED
        BY <2>1, CreateInvNext
<1>2. /\ disk = <<>> /\ size' = size
      /\ UNCHANGED <<request, stage, validate, write, file, have>>
      /\ disk' = disk \/ Allocate
    BY DEF Create, CreatePart, CreateWrite, CreateClose, Allocate, downloadVars, createVars,
           StreamInv, DiskInv
<1>3. HaveInv' /\ have' = {}
    BY <1>2 DEF StreamInv, HaveInv
<1>4. SlotsInv'
    <2>1. \A s \in Slots : SlotInv(s) /\ stage[s] = "idle"
        BY <1>2 DEF StreamInv, SlotsInv, SlotInv
    <2>2. "idle" \notin SoundStages
        BY DEF SoundStages
    <2>3. \A s \in Slots : SlotInv(s)'
        BY <1>2, <2>1, <2>2 DEF SlotInv
    <2>4. QED
        BY <1>2, <2>3 DEF StreamInv, SlotsInv
<1>5. DiskInv'
    <2>1. CASE disk' = disk
        BY <1>2, <2>1 DEF DiskInv
    <2>2. CASE Allocate
        <3>1. /\ creator.closed /\ UNCHANGED createVars
              /\ disk' = [f \in 1..DataFilesCount(PackageSize) |->
                            Zeros(SizeOfDataFile(PackageSize, f - 1))]
            BY <2>2 DEF Allocate
        <3>2. Created /\ PackageSize = size
            BY <3>1, CreatedFacts DEF StreamInv
        <3>3. CASE size = 0
            <4> DEFINE F == DataFileLength
            <4>1. F * 0 + (F - 1) = size + F - 1 /\ F - 1 \in 0..(F - 1) /\ 0 \in Nat
                  /\ F \in Nat \ {0}
                BY <3>3, Lengths
            <4> HIDE DEF F
            <4>2. (F * 0 + (F - 1)) \div F = 0
                BY <4>1, DivModUnique
            <4>3. DataFilesCount(size) = 0
                BY <4>1, <4>2 DEF DataFilesCount, PiecesCount, F
            <4>4. disk' = <<>>
                BY <3>1, <3>2, <4>3
            <4>5. QED
                BY <4>4 DEF DiskInv
        <3>4. CASE size # 0
            <4>1. size > 0
                BY <3>2, <3>4 DEF Created
            <4>2. \A f \in 1..DataFilesCount(size) : SizeOfDataFile(size, f - 1) \in Nat
                BY <3>2, <4>1, CreatedFiles
            <4>3. ASSUME NEW f \in 1..DataFilesCount(size)
                  PROVE  /\ disk'[f] \in Seq(Int)
                         /\ Len(disk'[f]) = SizeOfDataFile(size, f - 1)
                         /\ \A k \in 1..Len(disk'[f]) : disk'[f][k] = Zero
                <5> DEFINE n == SizeOfDataFile(size, f - 1)
                <5>1. disk'[f] = Zeros(n)
                    BY <3>1, <3>2
                <5>2. n \in Nat
                    BY <4>2
                <5> HIDE DEF n
                <5>3. Zeros(n) \in [1..n -> Int] /\ \A k \in 1..n : Zeros(n)[k] = Zero
                    BY DEF Zeros, Zero
                <5>4. Zeros(n) \in Seq(Int) /\ Len(Zeros(n)) = n
                    BY <5>2, <5>3, FunctionIsSeq
                <5>5. QED
                    BY <5>1, <5>3, <5>4 DEF n
            <4>4. DOMAIN disk' = 1..DataFilesCount(size) /\ disk' = [f \in 1..DataFilesCount(size) |-> disk'[f]]
                BY <3>1, <3>2
            <4>5. disk' \in [1..DataFilesCount(size) -> Seq(Int)]
                BY <4>3, <4>4
            <4>6. Partial(disk')
                BY <4>3, <4>5 DEF Partial
            <4>7. Partial(disk)'
                BY <1>2, <4>6 DEF Partial
            <4>8. QED
                BY <1>2, <3>1, <4>1, <4>7 DEF DiskInv, createVars
        <3>5. QED
            BY <3>3, <3>4
    <2>3. QED
        BY <1>2, <2>1, <2>2
<1>6. QED
    BY <1>1, <1>3, <1>4, <1>5 DEF StreamInv

LEMMA StreamInvStutter ==
    ASSUME StreamInv, UNCHANGED vars
    PROVE  StreamInv'
<1>1. /\ size' = size /\ creator' = creator /\ source' = source /\ hashes' = hashes
      /\ disk' = disk /\ request' = request /\ stage' = stage /\ validate' = validate
      /\ write' = write /\ have' = have
    BY DEF vars, createVars
<1>2. CreateInv'
    BY <1>1 DEF StreamInv, CreateInv, Creators
<1>3. PackageSize' = PackageSize
    BY <1>1 DEF PackageSize
<1>4. \A i : OnDisk(i)' = OnDisk(i)
    BY <1>1, <1>3 DEF OnDisk, BytesOf
<1>5. DiskInv'
    BY <1>1 DEF StreamInv, DiskInv, Partial
<1>6. HaveInv'
    BY <1>1, <1>4 DEF StreamInv, HaveInv
<1>7. ASSUME NEW s \in Slots
      PROVE  SlotInv(s)'
    <2>1. SlotInv(s)
        BY DEF StreamInv, SlotsInv
    <2>2. Sound(stage[s], validate[s], write[s].taken, request[s])'
            = Sound(stage[s], validate[s], write[s].taken, request[s])
        BY <1>1 DEF Sound
    <2>3. SoundInv(s) => SoundInv(s)'
        BY <1>1, <1>4, <2>2 DEF SoundInv
    <2>4. QED
        BY <1>1, <2>1, <2>3 DEF SlotInv
<1>8. SlotsInv'
    BY <1>1, <1>7 DEF StreamInv, SlotsInv
<1>9. QED
    BY <1>2, <1>5, <1>6, <1>8 DEF StreamInv

\* Theorem: the invariant of the creation of a package and of its downloads
\* (CreatePackageDataStreamController, DownloadSegmentsInternalAsync) holds in
\* every reachable state.
THEOREM StreamInvariant == Spec => []StreamInv
<1>1. Init => StreamInv
    BY StreamInvInit
<1>2. StreamInv /\ [Next]_vars => StreamInv'
    BY CreateKeepsDownloads, SlotInvNext, StreamInvStutter DEF Next
<1>3. QED
    BY <1>1, <1>2, PTL DEF Spec

-----------------------------------------------------------------------------
(* Theorems about downloads. *)

\* Theorem: whatever peers send, however requests overlap and wherever they
\* fail, a byte in a data file of the node is an allocated one or the creator's
\* (DownloadSegmentsInternalAsync with ValidatePackageDataStreamController before
\* WritePackageDataStreamController).
THEOREM DisksHoldVerifiedBytes == Spec => []OnlyVerifiedBytes
<1>1. ASSUME StreamInv
      PROVE  OnlyVerifiedBytes
    <2>1. CASE disk = <<>>
        BY <2>1 DEF OnlyVerifiedBytes
    <2>2. CASE disk # <<>>
        <3>1. /\ Created /\ size > 0 /\ PackageSize = size /\ Partial(disk)
              /\ DataFilesCount(size) \in Nat
            BY <1>1, <2>2, GoodState
        <3>2. Len(disk) = DataFilesCount(size)
            BY <3>1 DEF Partial
        <3>3. ASSUME NEW f \in 1..DataFilesCount(size)
              PROVE  /\ Len(disk[f]) = SizeOfDataFile(size, f - 1)
                     /\ \A k \in 1..Len(disk[f]) : disk[f][k] \in {Zero, source[f][k]}
            <4>1. /\ Len(disk[f]) = SizeOfDataFile(size, f - 1)
                  /\ \A k \in 1..Len(disk[f]) : disk[f][k] \in {Zero, DataFileLength * (f - 1) + k}
                BY <3>1 DEF Partial
            <4>2. \A k \in 1..SizeOfDataFile(size, f - 1) : source[f][k] = DataFileLength * (f - 1) + k
                BY <3>1, CreatedFiles
            <4>3. QED
                BY <4>1, <4>2
        <3>4. QED
            BY <3>1, <3>2, <3>3 DEF OnlyVerifiedBytes
    <2>3. QED
        BY <2>1, <2>2
<1>2. QED
    BY <1>1, StreamInvariant, PTL

\* Theorem: a segment DownloadSegmentsInternalAsync has reported as downloaded is
\* on disk as a whole, and stays there.
THEOREM ReportedIsOnDisk == Spec => []SuccessIsOnDisk
<1>1. StreamInv => SuccessIsOnDisk
    BY DEF StreamInv, HaveInv, SuccessIsOnDisk, OnDisk
<1>2. QED
    BY <1>1, StreamInvariant, PTL

LEMMA SizeZero ==
    /\ 0 \div SegmentLength = 0 /\ 0 % SegmentLength = 0
    /\ SegmentsCount(0) = 0
<1> DEFINE L == SegmentLength
<1>1. L \in Nat \ {0} /\ 0 \in Nat /\ 0 \in 0..(L - 1) /\ L - 1 \in 0..(L - 1)
      /\ L * 0 + 0 = 0 /\ L * 0 + (L - 1) = 0 + L - 1
    BY Lengths
<1> HIDE DEF L
<1>2. (L * 0 + 0) \div L = 0 /\ (L * 0 + 0) % L = 0 /\ (L * 0 + (L - 1)) \div L = 0
    BY <1>1, DivModUnique
<1>3. QED
    BY <1>1, <1>2 DEF SegmentsCount, PiecesCount, L

\* The hashes of a created package are as many as its segments, unless its size
\* is a multiple of a segment's.
LEMMA HashesCount ==
    ASSUME Created
    PROVE  /\ SegmentsCount(size) \in Nat
           /\ SegmentsCount(size) = Len(hashes) <=> size % SegmentLength # 0
<1>1. Len(hashes) = size \div SegmentLength + 1
    BY CreatedPackage
<1>2. CASE size = 0
    BY <1>1, <1>2, SizeZero
<1>3. CASE size # 0
    <2>1. size \in Nat \ {0} /\ SegmentLength \in Nat \ {0}
        BY <1>3, Lengths DEF Created
    <2>2. /\ size % SegmentLength # 0 => SegmentsCount(size) = size \div SegmentLength + 1
          /\ size % SegmentLength = 0 => SegmentsCount(size) = size \div SegmentLength
        BY <2>1, CutSizes DEF SegmentsCount
    <2>3. size \div SegmentLength \in Nat
        BY <2>1, DivMod
    <2>4. SegmentsCount(size) \in Nat
        <3>1. PiecesCount(size, SegmentLength) \in Nat
            BY <2>1, Pieces
        <3>2. QED
            BY <3>1 DEF SegmentsCount
    <2> HIDE DEF SegmentsCount
    <2>5. QED
        BY <1>1, <2>2, <2>3, <2>4
<1>4. QED
    BY <1>2, <1>3

\* What the validation asks of data files.
LEMMA ValidFiles ==
    ASSUME CreateInv, creator.closed, size % SegmentLength # 0, NEW files,
           \A f \in 1..DataFilesCount(size) :
              ~(f > Len(files)) /\ Len(files[f]) = SizeOfDataFile(size, f - 1),
           \A i \in Segments : BytesOf(files, i) = BytesOf(source, i)
    PROVE  Validate(files) = "valid"
<1>1. Created /\ PackageSize = size /\ Segments = 0..(SegmentsCount(size) - 1)
    BY CreatedFacts
<1>2. SegmentsCount(size) = Len(hashes)
    BY <1>1, HashesCount
<1>3. \A i \in Segments : BytesOf(files, i) = hashes[i + 1]
    BY <1>1, CreatedBytes
<1>4. QED
    BY <1>1, <1>2, <1>3 DEF Validate

\* Theorem: a package all of whose segments were downloaded passes
\* ValidatePackageAsyncInternal, unless its size is a multiple of a segment's.
THEOREM CompletePassesValidation == Spec => []CompleteIsValid
<1>1. ASSUME StreamInv, creator.closed, size % SegmentLength # 0, have = Segments
      PROVE  Validate(disk) = "valid"
    <2>1. Created /\ PackageSize = size /\ Segments = 0..(SegmentsCount(size) - 1) /\ CreateInv
        BY <1>1, CreatedFacts DEF StreamInv
    <2>2. size \in Nat \ {0}
        BY <1>1, <2>1, SizeZero DEF Created
    <2>3. SegmentsCount(size) \in Nat \ {0}
        <3>1. PiecesCount(size, SegmentLength) \in Nat \ {0}
            BY <2>2, Lengths, Pieces
        <3>2. QED
            BY <3>1 DEF SegmentsCount
    <2>4. disk # <<>> /\ \A i \in Segments : OnDisk(i)
        <3>1. 0 \in Segments
            BY <2>1, <2>3
        <3>2. have # {}
            BY <1>1, <3>1
        <3>3. QED
            BY <1>1, <3>2 DEF StreamInv, HaveInv
    <2>5. Partial(disk) /\ DataFilesCount(size) \in Nat
        BY <1>1, <2>4, GoodState
    <2>6. Len(disk) = DataFilesCount(size)
        BY <2>5 DEF Partial
    <2>7. \A f \in 1..DataFilesCount(size) :
             ~(f > Len(disk)) /\ Len(disk[f]) = SizeOfDataFile(size, f - 1)
        BY <2>5, <2>6 DEF Partial
    <2>8. \A i \in Segments : BytesOf(disk, i) = BytesOf(source, i)
        BY <2>4 DEF OnDisk
    <2>9. QED
        BY <1>1, <2>1, <2>7, <2>8, ValidFiles
<1>2. StreamInv => CompleteIsValid
    BY <1>1 DEF CompleteIsValid
<1>3. QED
    BY <1>2, StreamInvariant, PTL

\* Theorem: a package that was just created passes the validation exactly when
\* its size is no multiple of a segment's.  CreatedIsValid, which a run refutes,
\* is wrong for the multiples, all of them, and for nothing else.
THEOREM ValidUnlessExact ==
    Spec => [](creator.closed => (Validate(source) = "valid" <=> size % SegmentLength # 0))
<1>1. ASSUME CreateInv, creator.closed, size % SegmentLength # 0
      PROVE  Validate(source) = "valid"
    <2>1. Created
        BY <1>1, CreatedFacts
    <2>2. size \in Nat \ {0} /\ size > 0
        BY <1>1, <2>1, SizeZero DEF Created
    <2> DEFINE q == size \div DataFileLength
    <2>3. DataFilesCount(size) \in 1..(q + 1) /\ q \in Nat
        <3>1. DataFileLength \in Nat \ {0}
            BY Lengths
        <3>2. q \in Nat
            BY <2>2, <3>1, DivMod
        <3>3. DataFilesCount(size) \in 1..(q + 1)
            BY <2>2, <3>1, CutSizes DEF DataFilesCount
        <3>4. QED
            BY <3>2, <3>3
    <2> HIDE DEF q
    <2>4. Len(source) = q + 1
        <3>1. source = [f \in 1..(q + 1) |-> source[f]]
            BY <2>1 DEF Created, Cut, q
        <3>2. QED
            BY <2>3, <3>1
    <2>5. \A f \in 1..DataFilesCount(size) :
             ~(f > Len(source)) /\ Len(source[f]) = SizeOfDataFile(size, f - 1)
        <3> TAKE f \in 1..DataFilesCount(size)
        <3>1. Len(source[f]) = SizeOfDataFile(size, f - 1)
            BY <2>1, <2>2, CreatedFiles
        <3>2. ~(f > Len(source))
            BY <2>3, <2>4
        <3>3. QED
            BY <3>1, <3>2
    <2>6. QED
        BY <1>1, <2>5, ValidFiles
<1>2. ASSUME CreateInv, creator.closed, size % SegmentLength = 0
      PROVE  Validate(source) # "valid"
    <2>1. SegmentsCount(PackageSize) # Len(hashes)
        BY <1>2, CreatedFacts, HashesCount
    <2>2. Validate(source) = "invalid count of segments"
        BY <2>1 DEF Validate
    <2>3. QED
        BY <2>2
<1>3. CreateInv => (creator.closed => (Validate(source) = "valid" <=> size % SegmentLength # 0))
    BY <1>1, <1>2
<1>4. QED
    BY <1>3, CreateInvariant, PTL
================================================================================
