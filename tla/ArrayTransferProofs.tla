------------------------ MODULE ArrayTransferProofs -------------------------
(***************************************************************************)
(* What holds of ArrayTransfer for every size of an element and of an      *)
(* array, every width of its counters, and every request.                  *)
(***************************************************************************)
EXTENDS ArrayTransfer, SequenceTheorems, TLAPS

(* Sizes in elements and in bytes.                                         *)
LEMMA MulMono ==
  ASSUME NEW a \in Nat, NEW b \in Nat, NEW e \in Nat, a <= b
  PROVE  a * e <= b * e
OBVIOUS

LEMMA MulCancel ==
  ASSUME NEW a \in Nat, NEW b \in Nat, NEW e \in Nat \ {0}, a * e <= b * e
  PROVE  a <= b
OBVIOUS

LEMMA MulPositive ==
  ASSUME NEW a \in Nat \ {0}, NEW e \in Nat \ {0}
  PROVE  a * e \in Nat \ {0} /\ a <= a * e
OBVIOUS

LEMMA MulAdd ==
  ASSUME NEW a \in Nat, NEW b \in Nat, NEW e \in Nat
  PROVE  a * e + b * e = (a + b) * e
OBVIOUS

LEMMA DivBound ==
  ASSUME NEW n \in Nat, NEW l \in Nat, NEW e \in Nat \ {0}, n < l * e
  PROVE  n \div e \in Nat /\ n \div e < l
<1>1. n \div e \in Nat
  OBVIOUS
<1>2. n \div e < l
  OBVIOUS
<1>. QED BY <1>1, <1>2

LEMMA ModBound ==
  ASSUME NEW n \in Nat, NEW e \in Nat \ {0}
  PROVE  n % e \in 0 .. e - 1
OBVIOUS

LEMMA ModSmall ==
  ASSUME NEW n \in Nat, NEW w \in Nat \ {0}
  PROVE  n % w \in Nat /\ n % w <= n /\ (n < w => n % w = n)
OBVIOUS

LEMMA DivExact ==
  ASSUME NEW a \in Nat, NEW e \in Nat \ {0}
  PROVE  (a * e) \div e = a
OBVIOUS

(* Byte k of element j, and back.                                          *)
LEMMA Position ==
  ASSUME NEW e \in Nat \ {0}, NEW n \in Nat, NEW j \in 1 .. n,
         NEW k \in 1 .. e
  PROVE  /\ (j - 1) * e + k \in 1 .. n * e
         /\ (((j - 1) * e + k - 1) \div e) + 1 = j
         /\ (((j - 1) * e + k - 1) % e) + 1 = k
<1> DEFINE a == j - 1
           b == k - 1
<1>1. a \in Nat /\ b \in Nat /\ b < e /\ a + 1 <= n
  OBVIOUS
<1>. HIDE DEF a, b
<1>2. (a * e + b) \div e = a
  BY <1>1
<1>3. (a * e + b) % e = b
  BY <1>1
<1>4. (a + 1) * e <= n * e
  BY <1>1, MulMono
<1>5. (a + 1) * e = a * e + e
  BY <1>1
<1>6. a * e \in Nat /\ n * e \in Nat
  BY <1>1
<1>7. j = a + 1 /\ k = b + 1
  BY DEF a, b
<1>8. a * e + (b + 1) \in 1 .. n * e
  BY <1>1, <1>4, <1>5, <1>6
<1>9. a * e + (b + 1) - 1 = a * e + b
  BY <1>1, <1>6
<1>10. j - 1 = a
  BY DEF a
<1>. QED BY <1>2, <1>3, <1>7, <1>8, <1>9, <1>10

-----------------------------------------------------------------------------
LEMMA Constants ==
  /\ ElemSize \in Nat \ {0} /\ Size \in Nat \ {0} /\ Word \in Nat \ {0}
  /\ Size * ElemSize \in Nat \ {0}
  /\ Size <= Size * ElemSize
<1>1. ElemSize \in Nat \ {0} /\ Size \in Nat \ {0} /\ Word \in Nat \ {0}
  BY TransferAssumption
<1>. QED BY <1>1, MulPositive

(* A function on 1 .. n is a sequence of length n.                         *)
LEMMA FixedLength ==
  ASSUME NEW S, NEW n \in Nat, NEW f \in [1 .. n -> S]
  PROVE  f \in Seq(S) /\ Len(f) = n /\ DOMAIN f = 1 .. n
<1>1. f \in Seq(S)
  BY IsASeq
<1>2. DOMAIN f = 1 .. n /\ DOMAIN f = 1 .. Len(f) /\ Len(f) \in Nat
  BY <1>1, LenProperties
<1>. QED BY <1>1, <1>2

(* Elements are equal byte by byte.                                        *)
LEMMA SameElement ==
  ASSUME NEW e, NEW f, e \in [1 .. ElemSize -> Byte],
         f \in [1 .. ElemSize -> Byte],
         \A b \in 1 .. ElemSize : e[b] = f[b]
  PROVE  e = f
<1>1. e = [b \in 1 .. ElemSize |-> e[b]] /\ f = [b \in 1 .. ElemSize |-> f[b]]
  OBVIOUS
<1>2. [b \in 1 .. ElemSize |-> e[b]] = [b \in 1 .. ElemSize |-> f[b]]
  OBVIOUS
<1>. QED BY <1>1, <1>2

(* The bytes of a sequence of elements.                                    *)
LEMMA BytesAre ==
  ASSUME NEW xs \in Seq(Elem)
  PROVE  /\ Bytes(xs) \in [1 .. Len(xs) * ElemSize -> Byte]
         /\ \A j \in 1 .. Len(xs), k \in 1 .. ElemSize :
              Bytes(xs)[(j - 1) * ElemSize + k] = xs[j][k]
<1>1. Len(xs) \in Nat /\ ElemSize \in Nat \ {0} /\ Len(xs) * ElemSize \in Nat
  BY Constants, LenProperties
<1>2. \A j \in 1 .. Len(xs) : xs[j] \in [1 .. ElemSize -> Byte]
  BY <1>1, ElementOfSeq DEF Elem
<1>3. ASSUME NEW i \in 1 .. Len(xs) * ElemSize
      PROVE  xs[((i - 1) \div ElemSize) + 1][((i - 1) % ElemSize) + 1]
               \in Byte
  <2>1. i - 1 \in Nat /\ i - 1 < Len(xs) * ElemSize
    BY <1>1
  <2>2. (i - 1) \div ElemSize \in Nat /\ (i - 1) \div ElemSize < Len(xs)
    BY <1>1, <2>1, DivBound
  <2>3. ((i - 1) \div ElemSize) + 1 \in 1 .. Len(xs)
    BY <1>1, <2>2
  <2>4. (i - 1) % ElemSize \in 0 .. ElemSize - 1
    BY <1>1, <2>1, ModBound
  <2>5. ((i - 1) % ElemSize) + 1 \in 1 .. ElemSize
    BY <1>1, <2>4
  <2>. QED BY <1>2, <2>3, <2>5
<1>4. Bytes(xs) \in [1 .. Len(xs) * ElemSize -> Byte]
  BY <1>3 DEF Bytes
<1>5. ASSUME NEW j \in 1 .. Len(xs), NEW k \in 1 .. ElemSize
      PROVE  Bytes(xs)[(j - 1) * ElemSize + k] = xs[j][k]
  <2> DEFINE i == (j - 1) * ElemSize + k
  <2>1. /\ i \in 1 .. Len(xs) * ElemSize
        /\ ((i - 1) \div ElemSize) + 1 = j
        /\ ((i - 1) % ElemSize) + 1 = k
    BY <1>1, Position
  <2>. HIDE DEF i
  <2>2. Bytes(xs)[i] = xs[j][k]
    BY <2>1 DEF Bytes
  <2>. QED BY <2>2 DEF i
<1>. QED BY <1>4, <1>5

(* The elements in n times ElemSize bytes.                                 *)
LEMMA ElementsAre ==
  ASSUME NEW n \in Nat, NEW b \in [1 .. n * ElemSize -> Byte]
  PROVE  /\ Elements(b) \in [1 .. n -> Elem]
         /\ Elements(b) \in Seq(Elem)
         /\ Len(Elements(b)) = n
         /\ \A j \in 1 .. n, k \in 1 .. ElemSize :
              Elements(b)[j][k] = b[(j - 1) * ElemSize + k]
<1>1. ElemSize \in Nat \ {0} /\ n * ElemSize \in Nat
  BY Constants
<1>2. Len(b) \div ElemSize = n
  BY <1>1, FixedLength, DivExact
<1>3. ASSUME NEW j \in 1 .. n, NEW k \in 1 .. ElemSize
      PROVE  b[(j - 1) * ElemSize + k] \in Byte
  BY <1>1, Position
<1>4. Elements(b) =
        [j \in 1 .. n |-> [k \in 1 .. ElemSize |-> b[(j - 1) * ElemSize + k]]]
  BY <1>2 DEF Elements
<1>5. Elements(b) \in [1 .. n -> Elem]
  BY <1>3, <1>4 DEF Elem
<1>6. Elements(b) \in Seq(Elem) /\ Len(Elements(b)) = n
  BY <1>5, FixedLength
<1>7. \A j \in 1 .. n, k \in 1 .. ElemSize :
        Elements(b)[j][k] = b[(j - 1) * ElemSize + k]
  BY <1>4
<1>. QED BY <1>5, <1>6, <1>7

(* A copy inside both regions leaves bytes where bytes were.               *)
LEMMA CopiedBytes ==
  ASSUME NEW m \in Nat, NEW n \in Nat,
         NEW src \in [1 .. m -> Byte], NEW dst \in [1 .. n -> Byte],
         NEW src_offset \in Nat, NEW dst_offset \in Nat, NEW count \in Nat,
         src_offset + count <= m
  PROVE  Copied(src, src_offset, dst, dst_offset, count) \in [1 .. n -> Byte]
<1>1. ASSUME NEW i \in 1 .. n, i > dst_offset, i <= dst_offset + count
      PROVE  src[i - dst_offset + src_offset] \in Byte
  <2>1. i - dst_offset + src_offset \in 1 .. m
    BY <1>1
  <2>. QED BY <2>1
<1>. QED BY <1>1 DEF Copied

(* Copying the whole of one region over another makes them equal.          *)
LEMMA CopiedAll ==
  ASSUME NEW n \in Nat, NEW src \in [1 .. n -> Byte],
         NEW dst \in [1 .. n -> Byte]
  PROVE  Copied(src, 0, dst, 0, n) = src
<1>1. \A i \in 1 .. n : i > 0 /\ i <= 0 + n /\ i - 0 + 0 = i
  OBVIOUS
<1>2. Copied(src, 0, dst, 0, n) = [i \in 1 .. n |-> src[i]]
  BY <1>1 DEF Copied
<1>. QED BY <1>2

(* The first elements of xs, written over those at the beginning of d.     *)
LEMMA Uploaded ==
  ASSUME NEW xs \in Seq(Elem), NEW n \in Nat,
         NEW d \in [1 .. n * ElemSize -> Byte],
         NEW k \in 0 .. Len(xs), k <= n
  PROVE  Elements(Copied(Bytes(xs), 0, d, 0, k * ElemSize)) =
           [j \in 1 .. n |-> IF j <= k THEN xs[j] ELSE Elements(d)[j]]
<1> DEFINE new == Copied(Bytes(xs), 0, d, 0, k * ElemSize)
<1>1. /\ Len(xs) \in Nat /\ ElemSize \in Nat \ {0} /\ k \in Nat
      /\ k <= Len(xs)
      /\ Len(xs) * ElemSize \in Nat /\ k * ElemSize \in Nat
      /\ n * ElemSize \in Nat
  BY Constants, LenProperties
<1>2. k * ElemSize <= Len(xs) * ElemSize
  BY <1>1, MulMono
<1>3. new \in [1 .. n * ElemSize -> Byte]
  <2>1. Bytes(xs) \in [1 .. Len(xs) * ElemSize -> Byte]
    BY BytesAre
  <2>2. 0 \in Nat /\ 0 + k * ElemSize <= Len(xs) * ElemSize
    BY <1>1, <1>2
  <2>. QED BY <1>1, <2>1, <2>2, CopiedBytes
<1>4. /\ Elements(new) \in [1 .. n -> Elem]
      /\ \A j \in 1 .. n, b \in 1 .. ElemSize :
           Elements(new)[j][b] = new[(j - 1) * ElemSize + b]
  BY <1>3, ElementsAre
<1>5. /\ Elements(d) \in [1 .. n -> Elem]
      /\ \A j \in 1 .. n, b \in 1 .. ElemSize :
           Elements(d)[j][b] = d[(j - 1) * ElemSize + b]
  BY ElementsAre
<1>6. ASSUME NEW j \in 1 .. n, j <= k
      PROVE  Elements(new)[j] = xs[j]
  <2>1. xs[j] \in [1 .. ElemSize -> Byte]
    BY <1>1, <1>6, ElementOfSeq DEF Elem
  <2>2. Elements(new)[j] \in [1 .. ElemSize -> Byte]
    BY <1>4 DEF Elem
  <2>3. ASSUME NEW b \in 1 .. ElemSize
        PROVE  Elements(new)[j][b] = xs[j][b]
    <3>1. j \in 1 .. k /\ j \in 1 .. Len(xs)
      BY <1>1, <1>6
    <3>2. (j - 1) * ElemSize + b \in 1 .. k * ElemSize
      BY <1>1, <3>1, Position
    <3>3. (j - 1) * ElemSize + b \in 1 .. n * ElemSize
      BY <1>1, Position
    <3>4. new[(j - 1) * ElemSize + b] = Bytes(xs)[(j - 1) * ElemSize + b]
      <4> DEFINE i == (j - 1) * ElemSize + b
      <4>1. i > 0 /\ i <= 0 + k * ElemSize /\ i - 0 + 0 = i
        BY <1>1, <3>2
      <4>2. i \in DOMAIN d
        BY <3>3
      <4>. HIDE DEF i
      <4>3. new[i] = Bytes(xs)[i]
        BY <4>1, <4>2 DEF Copied
      <4>. QED BY <4>3 DEF i
    <3>5. Bytes(xs)[(j - 1) * ElemSize + b] = xs[j][b]
      BY <3>1, BytesAre
    <3>. QED BY <1>4, <3>4, <3>5
  <2>. QED BY <2>1, <2>2, <2>3, SameElement
<1>7. ASSUME NEW j \in 1 .. n, ~(j <= k)
      PROVE  Elements(new)[j] = Elements(d)[j]
  <2>1. /\ Elements(d)[j] \in [1 .. ElemSize -> Byte]
        /\ Elements(new)[j] \in [1 .. ElemSize -> Byte]
    BY <1>4, <1>5 DEF Elem
  <2>2. ASSUME NEW b \in 1 .. ElemSize
        PROVE  Elements(new)[j][b] = Elements(d)[j][b]
    <3>1. (j - 1) * ElemSize + b \in 1 .. n * ElemSize
      BY <1>1, Position
    <3>2. k <= j - 1 /\ j - 1 \in Nat
      BY <1>1, <1>7
    <3>3. k * ElemSize <= (j - 1) * ElemSize /\ (j - 1) * ElemSize \in Nat
      BY <1>1, <3>2, MulMono
    <3>4. new[(j - 1) * ElemSize + b] = d[(j - 1) * ElemSize + b]
      <4> DEFINE i == (j - 1) * ElemSize + b
      <4>1. ~(i <= 0 + k * ElemSize)
        BY <1>1, <3>3
      <4>2. i \in DOMAIN d
        BY <3>1
      <4>. HIDE DEF i
      <4>3. new[i] = d[i]
        BY <4>1, <4>2 DEF Copied
      <4>. QED BY <4>3 DEF i
    <3>. QED BY <1>4, <1>5, <3>4
  <2>. QED BY <2>1, <2>2, SameElement
<1>. HIDE DEF new
<1>8. Elements(new) =
        [j \in 1 .. n |-> IF j <= k THEN xs[j] ELSE Elements(d)[j]]
  BY <1>4, <1>6, <1>7
<1>. QED BY <1>8 DEF new

-----------------------------------------------------------------------------
(* What the overloads pass on is numbers, elements and functions on these. *)
LEMMA Passed ==
  ASSUME NEW c \in Requests
  PROVE  /\ CountOf(c) \in Nat /\ HostOffset(c) \in Nat
         /\ SrcOffset(c) \in Nat /\ DstOffset(c) \in Nat
         /\ IsUpload(c) => /\ c.xs \in Seq(Elem) /\ CountOf(c) = Len(c.xs)
                           /\ CountOf(c) > 0
                           /\ HostOffset(c) = 0 /\ SrcOffset(c) = 0
         /\ ~IsUpload(c) => FuncOf(c) \in [Elem -> Elem] /\ DstOffset(c) = 0
<1>1. /\ MaxIndex \in Nat /\ ElemSize \in Nat /\ SizeOf \in Nat
      /\ Funcs \subseteq [Elem -> Elem] /\ Plain \in [Elem -> Elem]
  BY Constants, ModSmall, TransferAssumption DEF SizeOf, Plain
<1>2. CASE c \in Uploads
  <2>1. /\ c.op \in {"fromHost", "fromHostAt"}
        /\ c.xs \in Inputs /\ c.offset \in Nat
    BY <1>1, <1>2 DEF Uploads, Index
  <2>2. c.xs \in Seq(Elem) /\ c.xs # <<>>
    BY <2>1, TransferAssumption
  <2>3. Len(c.xs) \in Nat /\ Len(c.xs) > 0
    BY <2>2, LenProperties, EmptySeq
  <2>4. c.offset * ElemSize \in Nat
    BY <1>1, <2>1
  <2>. QED
    BY <2>1, <2>2, <2>3, <2>4
       DEF CountOf, HostOffset, SrcOffset, DstOffset, IsUpload
<1>3. CASE c \in [op : {"toHost"}, func : Funcs \cup {Plain}]
  <2>1. c.op = "toHost" /\ c.func \in [Elem -> Elem]
    BY <1>1, <1>3
  <2>. QED
    BY <1>1, <2>1
       DEF CountOf, HostOffset, SrcOffset, DstOffset, IsUpload, FuncOf
<1>4. CASE c \in [op : {"toHostN"}, size : Index \ {0}, func : Funcs]
  <2>1. c.op = "toHostN" /\ c.func \in [Elem -> Elem] /\ c.size \in Nat
    BY <1>1, <1>4 DEF Index
  <2>. QED
    BY <2>1 DEF CountOf, HostOffset, SrcOffset, DstOffset, IsUpload, FuncOf
<1>5. CASE c \in {r \in [op : {"rangeToHost"}, first : Index, last : Index] :
                    r.first < r.last}
  <2>1. /\ c.op = "rangeToHost"
        /\ c.first \in Nat /\ c.last \in Nat /\ c.first < c.last
    BY <1>1, <1>5 DEF Index
  <2>2. c.last - c.first \in Nat
    BY <2>1
  <2>. QED
    BY <1>1, <2>1, <2>2
       DEF CountOf, HostOffset, SrcOffset, DstOffset, IsUpload, FuncOf
<1>. QED BY <1>2, <1>3, <1>4, <1>5 DEF Requests, Downloads

(* No request asks for nothing, if the array is one that has a size.       *)
LEMMA AsksForSome ==
  ASSUME NEW c \in Requests, Size < Word
  PROVE  CountOf(c) > 0
<1>1. SizeOf = Size /\ SizeOf > 0
  BY Constants, ModSmall DEF SizeOf
<1>2. CASE IsUpload(c)
  BY <1>2, Passed
<1>3. CASE c \in [op : {"toHost"}, func : Funcs \cup {Plain}]
  BY <1>1, <1>3 DEF CountOf, IsUpload
<1>4. CASE c \in [op : {"toHostN"}, size : Index \ {0}, func : Funcs]
  BY <1>4, TransferAssumption DEF CountOf, IsUpload, Index
<1>5. CASE c \in {r \in [op : {"rangeToHost"}, first : Index, last : Index] :
                    r.first < r.last}
  <2>1. /\ c.op = "rangeToHost"
        /\ c.first \in Nat /\ c.last \in Nat /\ c.first < c.last
    BY <1>5, TransferAssumption DEF Index
  <2>. QED BY <2>1 DEF CountOf, IsUpload
<1>. QED BY <1>2, <1>3, <1>4, <1>5 DEF Requests, Downloads, Uploads, IsUpload

(* size_bytes() is cut to 32 bits.                                         *)
LEMMA Cut ==
  /\ SizeBytes \in Nat /\ SizeBytes <= Size * ElemSize
  /\ SizeOf \in Nat /\ SizeOf <= Size
  /\ Size * ElemSize < Word =>
       SizeBytes = Size * ElemSize /\ SizeOf = Size /\ Size < Word
<1> PICK bytes \in Nat : bytes = Size * ElemSize
  BY Constants
<1>1. /\ SizeBytes = bytes % Word /\ SizeOf = Size % Word
      /\ Word \in Nat \ {0} /\ Size \in Nat /\ Size <= bytes
  BY Constants DEF SizeBytes, SizeOf
<1>2. /\ bytes % Word \in Nat /\ bytes % Word <= bytes
      /\ bytes < Word => bytes % Word = bytes
  BY <1>1, ModSmall
<1>3. /\ Size % Word \in Nat /\ Size % Word <= Size
      /\ Size < Word => Size % Word = Size
  BY <1>1, ModSmall
<1>4. bytes < Word => Size < Word
  BY <1>1
<1>. QED BY <1>1, <1>2, <1>3, <1>4

(* Bytes of a mapping that are inside it are elements of the array.        *)
LEMMA MappedElements ==
  ASSUME NEW c \in Requests, HostWithin(c)
  PROVE  /\ HostOffset(c) + CountOf(c) <= Size
         /\ CountOf(c) * ElemSize <= Size * ElemSize
<1> PICK from \in Nat : from = HostOffset(c)
  BY Passed
<1> PICK count \in Nat : count = CountOf(c)
  BY Passed
<1>1. from * ElemSize + count * ElemSize <= Size * ElemSize
  BY Cut, Constants DEF HostWithin, Within
<1>2. (from + count) * ElemSize <= Size * ElemSize
  BY <1>1, Constants, MulAdd
<1>3. from + count <= Size
  BY <1>2, Constants, MulCancel
<1>4. count * ElemSize <= Size * ElemSize
  BY <1>3, Constants, MulMono
<1>. QED BY <1>3, <1>4

(* The accesses of a sound request are inside: of the mapped memory ...    *)
LEMMA SoundMapped ==
  ASSUME NEW c \in Requests, host_visible, Sound(c)
  PROVE  HostWithin(c)
<1> PICK from \in Nat : from = HostOffset(c)
  BY Passed
<1> PICK count \in Nat : count = CountOf(c)
  BY Passed
<1>1. SizeBytes = Size * ElemSize /\ Size < Word /\ from + count <= Size
  BY Cut DEF Sound
<1>2. count > 0
  BY <1>1, AsksForSome
<1>3. count * ElemSize > 0 /\ count * ElemSize \in Nat
      /\ from * ElemSize \in Nat
  BY <1>2, Constants, MulPositive
<1>4. (from + count) * ElemSize <= Size * ElemSize
  BY <1>1, Constants, MulMono
<1>5. from * ElemSize + count * ElemSize <= Size * ElemSize
  BY <1>4, Constants, MulAdd
<1>. QED BY <1>1, <1>3, <1>5 DEF HostWithin, Within

(* ... and of the staging buffer and the array.                            *)
LEMMA SoundStaged ==
  ASSUME NEW c \in Requests, ~host_visible, Sound(c)
  PROVE  BufWithin(c) /\ CountOf(c) = Size /\ SizeBytes = Size * ElemSize
         /\ SizeOf = Size /\ Size < Word
         /\ SrcOffset(c) = 0 /\ DstOffset(c) = 0
<1>1. /\ SizeBytes = Size * ElemSize /\ SizeOf = Size /\ Size < Word
      /\ CountOf(c) = Size /\ SrcOffset(c) = 0
      /\ c.op = "fromHostAt" => c.offset = 0
  BY Cut DEF Sound
<1>2. DstOffset(c) = 0
  BY <1>1, Constants DEF DstOffset
<1>3. Within(0, Size * ElemSize, Size * ElemSize)
  BY Constants DEF Within
<1>4. BufWithin(c)
  BY <1>1, <1>2, <1>3 DEF BufWithin
<1>. QED BY <1>1, <1>2, <1>4

-----------------------------------------------------------------------------
(* What an upload through mapped memory leaves in it, finished or not.     *)
LEMMA WrittenBytes ==
  ASSUME NEW d \in [1 .. Size * ElemSize -> Byte], data = d,
         NEW c \in Requests, IsUpload(c),
         NEW k \in 0 .. CountOf(c), NEW new \in Written(c, k)
  PROVE  new \in [1 .. Size * ElemSize -> Byte]
<1>1. CASE HostWithin(c)
  <2>1. /\ c.xs \in Seq(Elem) /\ CountOf(c) = Len(c.xs) /\ Len(c.xs) \in Nat
        /\ k \in Nat /\ k <= Len(c.xs) /\ ElemSize \in Nat
        /\ Size * ElemSize \in Nat
    BY Passed, Constants
  <2>2. /\ Len(c.xs) * ElemSize \in Nat /\ k * ElemSize \in Nat
        /\ 0 + k * ElemSize <= Len(c.xs) * ElemSize
    BY <2>1, MulMono
  <2>3. Bytes(c.xs) \in [1 .. Len(c.xs) * ElemSize -> Byte]
    BY <2>1, BytesAre
  <2>4. Copied(Bytes(c.xs), 0, d, 0, k * ElemSize)
          \in [1 .. Size * ElemSize -> Byte]
    BY <2>1, <2>2, <2>3, CopiedBytes
  <2>. QED BY <1>1, <2>4 DEF Written
<1>2. CASE ~HostWithin(c)
  BY <1>2 DEF Written
<1>. QED BY <1>1, <1>2

(* An element of the array through a function of the client.               *)
LEMMA Applied ==
  ASSUME NEW func \in [Elem -> Elem], NEW xs \in Seq(Elem)
  PROVE  Apply(func, xs) \in Seq(Elem)
<1>1. Len(xs) \in Nat /\ xs \in [1 .. Len(xs) -> Elem]
  BY LenProperties
<1>2. Apply(func, xs) \in [1 .. Len(xs) -> Elem]
  BY <1>1 DEF Apply
<1>. QED BY <1>1, <1>2, IsASeq

(* What a step keeps of the type: all but the data and the reply.          *)
LEMMA Rest ==
  ASSUME TypeOK, NEW c \in Requests,
         FromHostMapped(c) \/ ToHostMapped(c) \/ MapThrows(c) \/ CopyThrows(c)
           \/ FromHostStaged(c) \/ ToHostStaged(c) \/ StagedThrows(c)
  PROVE  /\ host_visible' = host_visible /\ call' = c
         /\ mapped' \in BOOLEAN /\ interrupted' \in BOOLEAN
         /\ misuse' \subseteq {"out of bounds", "mapped twice"}
BY DEF TypeOK, FromHostMapped, ToHostMapped, MapThrows, CopyThrows,
       FromHostStaged, ToHostStaged, StagedThrows, Call, Note

LEMMA InitTypeOK == Init => TypeOK
BY DEF Init, TypeOK

LEMMA StepData ==
  ASSUME TypeOK, NEW c \in Requests,
         FromHostMapped(c) \/ ToHostMapped(c) \/ MapThrows(c) \/ CopyThrows(c)
           \/ FromHostStaged(c) \/ ToHostStaged(c) \/ StagedThrows(c)
  PROVE  data' \in [1 .. Size * ElemSize -> Byte]
<1> PICK d \in [1 .. Size * ElemSize -> Byte] : data = d
  BY DEF TypeOK
<1> PICK new : data' = new
  OBVIOUS
<1>1. CASE data' = data
  BY <1>1
<1>2. CASE FromHostMapped(c)
  <2>1. IsUpload(c) /\ new \in Written(c, CountOf(c))
    BY <1>2 DEF FromHostMapped
  <2>2. CountOf(c) \in 0 .. CountOf(c)
    BY Passed
  <2>. QED BY <2>1, <2>2, WrittenBytes
<1>3. CASE CopyThrows(c) /\ IsUpload(c)
  <2>1. PICK k \in 0 .. CountOf(c) - 1 : new \in Written(c, k)
    BY <1>3 DEF CopyThrows
  <2>2. k \in 0 .. CountOf(c)
    BY <2>1, Passed
  <2>. QED BY <1>3, <2>1, <2>2, WrittenBytes
<1>4. CASE FromHostStaged(c)
  <2>1. IsUpload(c)
    BY <1>4 DEF FromHostStaged
  <2>2. CASE BufWithin(c)
    <3>1. /\ c.xs \in Seq(Elem) /\ CountOf(c) = Len(c.xs)
          /\ Len(c.xs) \in Nat /\ Len(c.xs) * ElemSize \in Nat
          /\ SrcOffset(c) \in Nat /\ DstOffset(c) \in Nat
          /\ SizeBytes \in Nat /\ Size * ElemSize \in Nat
      BY <2>1, Passed, Constants, Cut
    <3>2. SrcOffset(c) + SizeBytes <= Len(c.xs) * ElemSize
      BY <2>1, <2>2, <3>1 DEF BufWithin, Within
    <3>3. Bytes(c.xs) \in [1 .. Len(c.xs) * ElemSize -> Byte]
      BY <3>1, BytesAre
    <3>4. Copied(Bytes(c.xs), SrcOffset(c), d, DstOffset(c), SizeBytes)
            \in [1 .. Size * ElemSize -> Byte]
      BY <3>1, <3>2, <3>3, CopiedBytes
    <3>. QED BY <1>4, <2>2, <3>4 DEF FromHostStaged
  <2>3. CASE ~BufWithin(c)
    BY <1>4, <2>3 DEF FromHostStaged
  <2>. QED BY <2>2, <2>3
<1>. QED
  BY <1>1, <1>2, <1>3, <1>4
     DEF ToHostMapped, MapThrows, CopyThrows, ToHostStaged, StagedThrows

(* What arrives in the staging buffer of a download.                       *)
LEMMA StagedBytes ==
  ASSUME NEW d \in [1 .. Size * ElemSize -> Byte],
         NEW c \in Requests, ~IsUpload(c),
         NEW stage \in [1 .. CountOf(c) * ElemSize -> Byte],
         BufWithin(c)
  PROVE  Copied(d, SrcOffset(c), stage, DstOffset(c), SizeBytes)
           \in [1 .. CountOf(c) * ElemSize -> Byte]
<1> PICK n \in Nat : n = CountOf(c) * ElemSize
  BY Passed, Constants
<1>1. /\ SrcOffset(c) \in Nat /\ DstOffset(c) \in Nat
      /\ SizeBytes \in Nat /\ Size * ElemSize \in Nat
  BY Passed, Constants, Cut
<1>2. SrcOffset(c) + SizeBytes <= Size * ElemSize
  BY <1>1 DEF BufWithin, Within
<1>. QED BY <1>1, <1>2, CopiedBytes

(* A download gives the client elements, whatever it asks for.             *)
LEMMA StepReply ==
  ASSUME TypeOK, NEW c \in Requests,
         FromHostMapped(c) \/ ToHostMapped(c) \/ MapThrows(c) \/ CopyThrows(c)
           \/ FromHostStaged(c) \/ ToHostStaged(c) \/ StagedThrows(c)
  PROVE  reply' = Null \/ reply' \in Seq(Elem)
<1> PICK d \in [1 .. Size * ElemSize -> Byte] : data = d
  BY DEF TypeOK
<1> PICK count \in Nat : count = CountOf(c)
  BY Passed
<1>1. <<>> \in Seq(Elem)
  BY EmptySeq
<1>2. CASE ToHostMapped(c) /\ HostWithin(c)
  <2>1. /\ ~IsUpload(c) /\ FuncOf(c) \in [Elem -> Elem]
        /\ HostOffset(c) \in Nat /\ HostOffset(c) + count <= Size
    BY <1>2, Passed, MappedElements DEF ToHostMapped
  <2>2. Elements(d) \in Seq(Elem) /\ Len(Elements(d)) = Size
    BY Constants, ElementsAre
  <2>3. \A i \in HostOffset(c) + 1 .. HostOffset(c) + count :
          Elements(d)[i] \in Elem
    BY <2>1, <2>2, Constants, ElementOfSeq
  <2>4. SubSeq(Elements(d), HostOffset(c) + 1, HostOffset(c) + count)
          \in Seq(Elem)
    BY <2>1, <2>2, Constants, SubSeqProperties
  <2>5. reply' = Apply(FuncOf(c), SubSeq(Elements(d), HostOffset(c) + 1,
                                         HostOffset(c) + count))
    BY <1>2 DEF ToHostMapped
  <2>. QED BY <2>1, <2>4, <2>5, Applied
<1>3. CASE ToHostMapped(c) /\ ~HostWithin(c)
  <2>1. reply' \in [1 .. count -> Elem]
    BY <1>3 DEF ToHostMapped
  <2>. QED BY <2>1, IsASeq
<1>4. CASE ToHostStaged(c)
  <2>1. ~IsUpload(c) /\ FuncOf(c) \in [Elem -> Elem]
    BY <1>4, Passed DEF ToHostStaged
  <2>2. PICK stage \in [1 .. count * ElemSize -> Byte] :
          reply' = Apply(FuncOf(c),
                         SubSeq(Elements(IF BufWithin(c)
                                           THEN Copied(d, SrcOffset(c), stage,
                                                       DstOffset(c), SizeBytes)
                                           ELSE stage),
                                1, count % Word))
    BY <1>4 DEF ToHostStaged
  <2> PICK filled : filled = IF BufWithin(c)
                               THEN Copied(d, SrcOffset(c), stage,
                                           DstOffset(c), SizeBytes)
                               ELSE stage
    OBVIOUS
  <2>3. filled \in [1 .. count * ElemSize -> Byte]
    BY <2>1, StagedBytes
  <2>4. Elements(filled) \in Seq(Elem) /\ Len(Elements(filled)) = count
    BY <2>3, ElementsAre
  <2>5. count % Word \in Nat /\ count % Word <= count
    BY Constants, ModSmall
  <2>6. SubSeq(Elements(filled), 1, count % Word) \in Seq(Elem)
    BY <2>4, <2>5, SubSeqProperties
  <2>. QED BY <2>1, <2>2, <2>6, Applied
<1>. QED
  BY <1>1, <1>2, <1>3, <1>4
     DEF FromHostMapped, MapThrows, CopyThrows, FromHostStaged, StagedThrows

(* Every request, sound or not, leaves an array of bytes and a reply of    *)
(* elements; what is read from it lies inside what was copied.             *)
THEOREM TypeCorrect == Spec => []TypeOK
<1>1. ASSUME TypeOK, [Next]_vars PROVE TypeOK'
  <2>1. CASE UNCHANGED vars
    BY <1>1, <2>1 DEF TypeOK, vars
  <2>2. CASE Next
    <3>1. PICK c \in Requests :
            FromHostMapped(c) \/ ToHostMapped(c) \/ MapThrows(c)
              \/ CopyThrows(c) \/ FromHostStaged(c) \/ ToHostStaged(c)
              \/ StagedThrows(c)
      BY <2>2 DEF Next
    <3>2. data' \in [1 .. Size * ElemSize -> Byte]
      BY <1>1, <3>1, StepData
    <3>3. reply' = Null \/ reply' \in Seq(Elem)
      BY <1>1, <3>1, StepReply
    <3>4. /\ host_visible' = host_visible /\ call' = c
          /\ mapped' \in BOOLEAN /\ interrupted' \in BOOLEAN
          /\ misuse' \subseteq {"out of bounds", "mapped twice"}
      BY <1>1, <3>1, Rest
    <3>. QED BY <1>1, <3>1, <3>2, <3>3, <3>4 DEF TypeOK
  <2>. QED BY <1>1, <2>1, <2>2
<1>. QED BY <1>1, InitTypeOK, PTL DEF Spec

(* Whatever is asked for, sound or not: memory stays mapped only if an     *)
(* iterator or a function of the client threw.                             *)
THEOREM UnmappedUnlessThrown == Spec => []MappedByThrowOnly
<1>1. Init => MappedByThrowOnly
  BY DEF Init, MappedByThrowOnly
<1>2. ASSUME TypeOK, MappedByThrowOnly, [Next]_vars
      PROVE  MappedByThrowOnly'
  <2>1. CASE UNCHANGED vars
    BY <1>2, <2>1 DEF MappedByThrowOnly, vars
  <2>2. ASSUME NEW c \in Requests, NEW inside,
               Note(mapped, inside), mapped' = FALSE, host_visible,
               UNCHANGED <<host_visible, interrupted>>
        PROVE  MappedByThrowOnly'
    <3>1. CASE mapped
      BY <1>2, <2>2, <3>1 DEF MappedByThrowOnly
    <3>2. CASE ~mapped
      <4>1. "mapped twice" \in misuse' => "mapped twice" \in misuse
        BY <2>2, <3>2 DEF Note
      <4>. QED BY <1>2, <2>2, <3>2, <4>1 DEF MappedByThrowOnly
    <3>. QED BY <3>1, <3>2
  <2>3. ASSUME NEW c \in Requests, CopyThrows(c) PROVE MappedByThrowOnly'
    BY <2>3 DEF MappedByThrowOnly, CopyThrows, Call
  <2>4. ASSUME NEW c \in Requests,
               MapThrows(c) \/ FromHostStaged(c) \/ ToHostStaged(c)
                 \/ StagedThrows(c)
        PROVE  MappedByThrowOnly'
    <3>1. UNCHANGED <<host_visible, mapped, interrupted>>
      BY <2>4
         DEF MapThrows, FromHostStaged, ToHostStaged, StagedThrows, Call
    <3>2. "mapped twice" \in misuse' => "mapped twice" \in misuse
      <4>1. misuse' = misuse \/ Note(FALSE, BufWithin(c))
        BY <2>4 DEF MapThrows, FromHostStaged, ToHostStaged, StagedThrows
      <4>2. CASE BufWithin(c)
        BY <4>1, <4>2 DEF Note
      <4>3. CASE ~BufWithin(c)
        <5>1. "mapped twice" # "out of bounds"
          OBVIOUS
        <5>2. misuse' = misuse \/ misuse' = misuse \cup {"out of bounds"}
          BY <4>1, <4>3 DEF Note
        <5>. QED BY <5>1, <5>2
      <4>. QED BY <4>2, <4>3
    <3>. QED BY <1>2, <3>1, <3>2 DEF MappedByThrowOnly
  <2>5. ASSUME NEW c \in Requests, FromHostMapped(c) \/ ToHostMapped(c)
        PROVE  MappedByThrowOnly'
    BY <2>2, <2>5 DEF FromHostMapped, ToHostMapped, Call
  <2>. QED BY <1>2, <2>1, <2>3, <2>4, <2>5 DEF Next
<1>. QED BY <1>1, <1>2, TypeCorrect, PTL DEF Spec

-----------------------------------------------------------------------------
(* A sound request accesses nothing outside the array, the staging buffer  *)
(* and the mapping, although their sizes are in different units and        *)
(* 32 bits wide.                                                           *)
THEOREM SoundIsInside == Spec => SoundStaysInside
<1>1. ASSUME [Next]_vars, Sound(call')
      PROVE  misuse' \subseteq misuse \cup {"mapped twice"}
  <2>1. CASE UNCHANGED vars
    BY <2>1 DEF vars
  <2>2. ASSUME NEW c \in Requests,
               FromHostMapped(c) \/ ToHostMapped(c) \/ MapThrows(c)
                 \/ CopyThrows(c) \/ FromHostStaged(c) \/ ToHostStaged(c)
                 \/ StagedThrows(c)
        PROVE  misuse' \subseteq misuse \cup {"mapped twice"}
    <3>1. Sound(c)
      <4>1. call' = c
        BY <2>2 DEF FromHostMapped, ToHostMapped, MapThrows, CopyThrows,
                    FromHostStaged, ToHostStaged, StagedThrows, Call
      <4>. QED BY <1>1, <4>1
    <3>2. host_visible => HostWithin(c)
      BY <3>1, SoundMapped
    <3>3. ~host_visible => BufWithin(c)
      BY <3>1, SoundStaged
    <3>. QED
      BY <2>2, <3>2, <3>3
         DEF FromHostMapped, ToHostMapped, MapThrows, CopyThrows,
             FromHostStaged, ToHostStaged, StagedThrows, Note
  <2>. QED BY <1>1, <2>1, <2>2 DEF Next
<1>. QED BY <1>1, PTL DEF Spec, SoundStaysInside

-----------------------------------------------------------------------------
(* ArrayTransfer implements ElementArray.                                  *)

(* A request in terms of ElementArray; a sound upload begins at the first  *)
(* element.                                                                *)
LEMMA AskedIs ==
  ASSUME NEW c \in Requests
  PROVE  /\ IsUpload(c) /\ Sound(c) =>
              Asked(c) = [kind |-> "write", at |-> 0, xs |-> c.xs]
         /\ ~IsUpload(c) =>
              Asked(c) = [kind |-> "read", at |-> HostOffset(c),
                          count |-> CountOf(c), func |-> FuncOf(c)]
<1>1. c # Null
  BY TransferAssumption
<1>2. CASE c.op = "fromHost"
  BY <1>1, <1>2 DEF Asked, IsUpload
<1>3. CASE c.op = "fromHostAt"
  BY <1>1, <1>3 DEF Asked, IsUpload, Sound
<1>4. CASE ~IsUpload(c)
  BY <1>1, <1>4 DEF Asked, IsUpload
<1>. QED BY <1>2, <1>3, <1>4 DEF IsUpload

(* Elements written over the first ones of the array.                      *)
LEMMA OverlayIs ==
  ASSUME NEW xs \in Seq(Elem), NEW old \in [1 .. Size -> Elem]
  PROVE  Promise!Overlay(old, 0, xs) =
           [j \in 1 .. Size |-> IF j <= Len(xs) THEN xs[j] ELSE old[j]]
<1>1. Len(xs) \in Nat
  BY LenProperties
<1>2. Promise!Overlay(old, 0, xs) =
        [j \in 1 .. Size |-> IF j > 0 /\ j <= 0 + Len(xs)
                               THEN xs[j - 0] ELSE old[j]]
  BY DEF Promise!Overlay
<1>3. \A j \in 1 .. Size :
        /\ j > 0 /\ j <= 0 + Len(xs) <=> j <= Len(xs)
        /\ j - 0 = j
  BY <1>1, Constants
<1>. QED BY <1>2, <1>3

(* The first k elements of an upload are what ElementArray overlays.       *)
LEMMA UploadOverlays ==
  ASSUME NEW d \in [1 .. Size * ElemSize -> Byte],
         NEW xs \in Seq(Elem), NEW k \in 1 .. Len(xs), k <= Size
  PROVE  Elements(Copied(Bytes(xs), 0, d, 0, k * ElemSize)) =
           Promise!Overlay(Elements(d), 0, SubSeq(xs, 1, k))
<1>1. Len(xs) \in Nat /\ k \in 0 .. Len(xs) /\ Size \in Nat
  BY LenProperties, Constants
<1>2. Elements(d) \in [1 .. Size -> Elem]
  BY <1>1, ElementsAre
<1>3. \A i \in 1 .. k : xs[i] \in Elem
  BY <1>1, ElementOfSeq
<1>4. /\ SubSeq(xs, 1, k) \in Seq(Elem)
      /\ Len(SubSeq(xs, 1, k)) = k
      /\ \A i \in 1 .. k : SubSeq(xs, 1, k)[i] = xs[i]
  <2>1. 1 \in Int /\ k \in Int /\ k - 1 + 1 = k /\ 1 <= k
    BY <1>1
  <2>2. /\ SubSeq(xs, 1, k) \in Seq(Elem)
        /\ Len(SubSeq(xs, 1, k)) = k - 1 + 1
        /\ \A i \in 1 .. k - 1 + 1 : SubSeq(xs, 1, k)[i] = xs[1 + i - 1]
    BY <1>3, <2>1, SubSeqProperties
  <2>3. \A i \in 1 .. k : 1 + i - 1 = i
    BY <1>1
  <2>. QED BY <2>1, <2>2, <2>3
<1>5. Promise!Overlay(Elements(d), 0, SubSeq(xs, 1, k)) =
        [j \in 1 .. Size |-> IF j <= k THEN SubSeq(xs, 1, k)[j]
                                       ELSE Elements(d)[j]]
  <2> PICK ys \in Seq(Elem) : ys = SubSeq(xs, 1, k)
    BY <1>4
  <2> PICK old \in [1 .. Size -> Elem] : old = Elements(d)
    BY <1>2
  <2>1. Promise!Overlay(old, 0, ys) =
          [j \in 1 .. Size |-> IF j <= Len(ys) THEN ys[j] ELSE old[j]]
    BY OverlayIs
  <2>2. Len(ys) = k
    BY <1>4
  <2>. QED BY <2>1, <2>2
<1>6. \A j \in 1 .. Size : j <= k => SubSeq(xs, 1, k)[j] = xs[j]
  BY <1>1, <1>4
<1>7. Elements(Copied(Bytes(xs), 0, d, 0, k * ElemSize)) =
        [j \in 1 .. Size |-> IF j <= k THEN xs[j] ELSE Elements(d)[j]]
  <2>1. \A m \in 0 .. Len(xs) : m <= Size =>
          Elements(Copied(Bytes(xs), 0, d, 0, m * ElemSize)) =
            [j \in 1 .. Size |-> IF j <= m THEN xs[j] ELSE Elements(d)[j]]
    BY <1>1, Uploaded
  <2>. QED BY <1>1, <2>1
<1>. QED BY <1>5, <1>6, <1>7

(* An upload that is complete.                                             *)
LEMMA UploadAll ==
  ASSUME NEW d \in [1 .. Size * ElemSize -> Byte],
         NEW xs \in Seq(Elem), Len(xs) <= Size
  PROVE  Elements(Copied(Bytes(xs), 0, d, 0, Len(xs) * ElemSize)) =
           Promise!Overlay(Elements(d), 0, xs)
<1>1. Len(xs) \in Nat /\ Len(xs) \in 0 .. Len(xs) /\ Size \in Nat
  BY LenProperties, Constants
<1>2. Elements(d) \in [1 .. Size -> Elem]
  BY <1>1, ElementsAre
<1>3. Elements(Copied(Bytes(xs), 0, d, 0, Len(xs) * ElemSize)) =
        [j \in 1 .. Size |-> IF j <= Len(xs) THEN xs[j] ELSE Elements(d)[j]]
  <2>1. \A m \in 0 .. Len(xs) : m <= Size =>
          Elements(Copied(Bytes(xs), 0, d, 0, m * ElemSize)) =
            [j \in 1 .. Size |-> IF j <= m THEN xs[j] ELSE Elements(d)[j]]
    BY <1>1, Uploaded
  <2>. QED BY <1>1, <2>1
<1>. QED BY <1>2, <1>3, OverlayIs

(* A range of the array through a function.                                *)
Reading(func, old, at, count) == [i \in 1 .. count |-> func[old[at + i]]]

LEMMA DownloadReads ==
  ASSUME NEW old \in Seq(Elem), Len(old) = Size, NEW func \in [Elem -> Elem],
         NEW at \in Nat, NEW count \in Nat, at + count <= Size
  PROVE  Apply(func, SubSeq(old, at + 1, at + count)) =
           Reading(func, old, at, count)
<1>1. Size \in Nat /\ at + 1 \in Int /\ at + count \in Int
  BY Constants
<1>2. \A i \in at + 1 .. at + count : old[i] \in Elem
  BY <1>1, ElementOfSeq
<1> PICK s : s = SubSeq(old, at + 1, at + count)
  OBVIOUS
<1>3. /\ s \in Seq(Elem)
      /\ Len(s) = IF at + 1 <= at + count THEN at + count - (at + 1) + 1 ELSE 0
      /\ \A i \in 1 .. at + count - (at + 1) + 1 :
           s[i] = old[at + 1 + i - 1]
  BY <1>1, <1>2, SubSeqProperties
<1>4. Len(s) = count /\ DOMAIN s = 1 .. count
  <2>1. (IF at + 1 <= at + count THEN at + count - (at + 1) + 1 ELSE 0) = count
    OBVIOUS
  <2>. QED BY <1>3, <2>1, LenProperties
<1>5. at + count - (at + 1) + 1 = count
  OBVIOUS
<1>6. \A i \in 1 .. count : s[i] = old[at + i]
  <2>1. \A i \in 1 .. count : at + 1 + i - 1 = at + i
    OBVIOUS
  <2>. QED BY <1>3, <1>5, <2>1
<1>. QED BY <1>4, <1>6 DEF Apply, Reading

(* How the variables of ElementArray change with those of the code.        *)
LEMMA Mapped ==
  ASSUME NEW c, call' = c, NEW new, data' = new
  PROVE  Asked(call)' = Asked(c) /\ Elements(data)' = Elements(new)
BY DEF Asked, Elements, HostOffset, CountOf, FuncOf, SizeOf, IsUpload

LEMMA Writes ==
  ASSUME NEW c \in Requests, IsUpload(c), Sound(c), Len(c.xs) <= Size,
         call' = c, host_visible' = host_visible, NEW new, data' = new,
         Elements(new) = Promise!Overlay(Elements(data), 0, c.xs),
         reply' = <<>>
  PROVE  Promise!Next
<1>1. Asked(call)' = [kind |-> "write", at |-> 0, xs |-> c.xs]
  BY Mapped, AskedIs
<1>2. Elements(data)' = Elements(new)
  BY Mapped
<1>3. Len(c.xs) \in Nat
  BY Passed, LenProperties
<1>. QED BY <1>1, <1>2, <1>3 DEF Promise!Next, Promise!Write

LEMMA Reads ==
  ASSUME NEW c \in Requests, ~IsUpload(c),
         HostOffset(c) + CountOf(c) <= Size,
         call' = c, host_visible' = host_visible, data' = data,
         reply' = [i \in 1 .. CountOf(c) |->
                     FuncOf(c)[Elements(data)[HostOffset(c) + i]]]
  PROVE  Promise!Next
<1>1. Asked(call)' = [kind |-> "read", at |-> HostOffset(c),
                      count |-> CountOf(c), func |-> FuncOf(c)]
  BY Mapped, AskedIs
<1>2. Elements(data)' = Elements(data)
  BY Mapped
<1>. QED BY <1>1, <1>2 DEF Promise!Next, Promise!Read

LEMMA Fails ==
  ASSUME host_visible' = host_visible, data' = data, reply' = Null
  PROVE  Promise!Next
<1>1. Elements(data)' = Elements(data)
  BY DEF Elements
<1>. QED BY <1>1 DEF Promise!Next, Promise!Fail

LEMMA FailsHalfWay ==
  ASSUME NEW c \in Requests, IsUpload(c), Sound(c), host_visible = TRUE,
         call' = c, host_visible' = host_visible, NEW new, data' = new,
         NEW k \in 1 .. Len(c.xs),
         Elements(new) =
           Promise!Overlay(Elements(data), 0, SubSeq(c.xs, 1, k)),
         reply' = Null
  PROVE  Promise!Next
<1>1. Asked(call)' = [kind |-> "write", at |-> 0, xs |-> c.xs]
  BY Mapped, AskedIs
<1>2. Elements(data)' = Elements(new)
  BY Mapped
<1>. QED BY <1>1, <1>2 DEF Promise!Next, Promise!Fail

(* Through mapped memory.                                                  *)
LEMMA FromHostMappedRefines ==
  ASSUME TypeOK, NEW c \in Requests, Sound(c), FromHostMapped(c)
  PROVE  Promise!Next
<1> PICK d \in [1 .. Size * ElemSize -> Byte] : data = d
  BY DEF TypeOK
<1>1. /\ call' = c /\ host_visible' = host_visible /\ host_visible
      /\ IsUpload(c) /\ reply' = <<>> /\ data' \in Written(c, CountOf(c))
  BY DEF FromHostMapped, Call
<1>2. HostWithin(c)
  BY <1>1, SoundMapped
<1>3. c.xs \in Seq(Elem) /\ CountOf(c) = Len(c.xs) /\ HostOffset(c) = 0
  BY <1>1, Passed
<1>4. HostOffset(c) + CountOf(c) <= Size
  BY <1>2, MappedElements
<1>5. Len(c.xs) <= Size
  BY <1>3, <1>4, LenProperties
<1> PICK new : new = Copied(Bytes(c.xs), 0, d, 0, Len(c.xs) * ElemSize)
  OBVIOUS
<1>6. data' = new
  BY <1>1, <1>2, <1>3 DEF Written
<1>7. Elements(new) = Promise!Overlay(Elements(d), 0, c.xs)
  BY <1>3, <1>5, UploadAll
<1>. QED BY <1>1, <1>5, <1>6, <1>7, Writes

LEMMA ToHostMappedRefines ==
  ASSUME TypeOK, NEW c \in Requests, Sound(c), ToHostMapped(c)
  PROVE  Promise!Next
<1> PICK d \in [1 .. Size * ElemSize -> Byte] : data = d
  BY DEF TypeOK
<1>1. /\ call' = c /\ host_visible' = host_visible /\ host_visible
      /\ ~IsUpload(c) /\ data' = data
  BY DEF ToHostMapped, Call
<1>2. HostWithin(c)
  BY <1>1, SoundMapped
<1>3. /\ HostOffset(c) \in Nat /\ CountOf(c) \in Nat
      /\ HostOffset(c) + CountOf(c) <= Size
  BY <1>2, Passed, MappedElements
<1>4. Elements(d) \in Seq(Elem) /\ Len(Elements(d)) = Size
  BY Constants, ElementsAre
<1>5. reply' = Apply(FuncOf(c),
                     SubSeq(Elements(d), HostOffset(c) + 1,
                            HostOffset(c) + CountOf(c)))
  BY <1>2 DEF ToHostMapped
<1>6. reply' = [i \in 1 .. CountOf(c) |->
                  FuncOf(c)[Elements(d)[HostOffset(c) + i]]]
  <2> PICK old \in Seq(Elem) : old = Elements(d)
    BY <1>4
  <2> PICK func \in [Elem -> Elem] : func = FuncOf(c)
    BY <1>1, Passed
  <2> PICK at \in Nat : at = HostOffset(c)
    BY <1>3
  <2> PICK count \in Nat : count = CountOf(c)
    BY <1>3
  <2>1. Apply(func, SubSeq(old, at + 1, at + count)) =
          Reading(func, old, at, count)
    BY <1>3, <1>4, DownloadReads
  <2>. QED BY <1>5, <2>1 DEF Reading
<1>. QED BY <1>1, <1>3, <1>6, Reads

LEMMA CopyThrowsRefines ==
  ASSUME TypeOK, NEW c \in Requests, Sound(c), CopyThrows(c)
  PROVE  Promise!Next
<1> PICK d \in [1 .. Size * ElemSize -> Byte] : data = d
  BY DEF TypeOK
<1>1. /\ call' = c /\ host_visible' = host_visible /\ host_visible
      /\ host_visible = TRUE /\ reply' = Null
  BY DEF CopyThrows, Call, TypeOK
<1>2. CASE ~IsUpload(c)
  BY <1>1, <1>2, Fails DEF CopyThrows
<1>3. CASE IsUpload(c)
  <2>1. HostWithin(c)
    BY <1>1, SoundMapped
  <2>2. /\ c.xs \in Seq(Elem) /\ CountOf(c) = Len(c.xs) /\ HostOffset(c) = 0
        /\ Len(c.xs) \in Nat
    BY <1>3, Passed, LenProperties
  <2>3. HostOffset(c) + CountOf(c) <= Size
    BY <2>1, MappedElements
  <2>4. PICK k \in 0 .. Len(c.xs) - 1 :
          data' = Copied(Bytes(c.xs), 0, d, 0, k * ElemSize)
    BY <1>3, <2>1, <2>2 DEF CopyThrows, Written
  <2>5. k \in Nat /\ k < Len(c.xs) /\ k < Size
    BY <2>2, <2>3, <2>4, Constants
  <2>6. CASE k = 0
    <3>1. data' = d
      <4>1. k * ElemSize = 0
        BY <2>6, Constants
      <4>2. \A i \in DOMAIN d : ~(i > 0 /\ i <= 0 + 0)
        OBVIOUS
      <4>3. Copied(Bytes(c.xs), 0, d, 0, 0) = [i \in DOMAIN d |-> d[i]]
        BY <4>2 DEF Copied
      <4>. QED BY <2>4, <4>1, <4>3
    <3>. QED BY <1>1, <3>1, Fails
  <2>7. CASE k # 0
    <3>1. k \in 1 .. Len(c.xs) /\ k <= Size
      BY <2>2, <2>5, <2>7, Constants
    <3> PICK new : new = Copied(Bytes(c.xs), 0, d, 0, k * ElemSize)
      OBVIOUS
    <3>2. Elements(new) = Promise!Overlay(Elements(d), 0, SubSeq(c.xs, 1, k))
      BY <2>2, <3>1, UploadOverlays
    <3>3. data' = new
      BY <2>4
    <3>. QED BY <1>1, <1>3, <3>1, <3>2, <3>3, FailsHalfWay
  <2>. QED BY <2>6, <2>7
<1>. QED BY <1>2, <1>3

(* Through a staging buffer.                                               *)
LEMMA FromHostStagedRefines ==
  ASSUME TypeOK, NEW c \in Requests, Sound(c), FromHostStaged(c)
  PROVE  Promise!Next
<1> PICK d \in [1 .. Size * ElemSize -> Byte] : data = d
  BY DEF TypeOK
<1>1. /\ call' = c /\ host_visible' = host_visible /\ ~host_visible
      /\ IsUpload(c) /\ reply' = <<>>
  BY DEF FromHostStaged, Call
<1>2. /\ BufWithin(c) /\ CountOf(c) = Size /\ SizeBytes = Size * ElemSize
      /\ SrcOffset(c) = 0 /\ DstOffset(c) = 0
  BY <1>1, SoundStaged
<1>3. c.xs \in Seq(Elem) /\ Len(c.xs) = Size
  BY <1>1, <1>2, Passed
<1>4. Len(c.xs) <= Size
  BY <1>3, Constants
<1> PICK new : new = Copied(Bytes(c.xs), 0, d, 0, Len(c.xs) * ElemSize)
  OBVIOUS
<1>5. data' = new
  BY <1>2, <1>3 DEF FromHostStaged
<1>6. Elements(new) = Promise!Overlay(Elements(d), 0, c.xs)
  BY <1>3, <1>4, UploadAll
<1>. QED BY <1>1, <1>4, <1>5, <1>6, Writes

LEMMA ToHostStagedRefines ==
  ASSUME TypeOK, NEW c \in Requests, Sound(c), ToHostStaged(c)
  PROVE  Promise!Next
<1> PICK d \in [1 .. Size * ElemSize -> Byte] : data = d
  BY DEF TypeOK
<1>1. /\ call' = c /\ host_visible' = host_visible /\ ~host_visible
      /\ ~IsUpload(c) /\ data' = data
  BY DEF ToHostStaged, Call
<1>2. /\ BufWithin(c) /\ CountOf(c) = Size /\ SizeBytes = Size * ElemSize
      /\ SizeOf = Size /\ Size < Word
      /\ SrcOffset(c) = 0 /\ DstOffset(c) = 0
  BY <1>1, SoundStaged
<1>3. HostOffset(c) = 0
  BY <1>2 DEF HostOffset, SrcOffset
<1>4. CountOf(c) % Word = Size
  BY <1>2, Constants, ModSmall
<1>5. PICK stage \in [1 .. CountOf(c) * ElemSize -> Byte] :
        reply' = Apply(FuncOf(c),
                       SubSeq(Elements(Copied(d, 0, stage, 0,
                                              Size * ElemSize)),
                              1, Size))
  BY <1>2, <1>4 DEF ToHostStaged
<1>6. Copied(d, 0, stage, 0, Size * ElemSize) = d
  BY <1>2, <1>5, Constants, CopiedAll
<1>7. reply' = Apply(FuncOf(c), SubSeq(Elements(d), 0 + 1, 0 + Size))
  BY <1>5, <1>6, Constants
<1>8. Elements(d) \in Seq(Elem) /\ Len(Elements(d)) = Size
  BY Constants, ElementsAre
<1>9. reply' = [i \in 1 .. Size |-> FuncOf(c)[Elements(d)[0 + i]]]
  <2> PICK old \in Seq(Elem) : old = Elements(d)
    BY <1>8
  <2> PICK func \in [Elem -> Elem] : func = FuncOf(c)
    BY <1>1, Passed
  <2>1. 0 \in Nat /\ Size \in Nat /\ 0 + Size <= Size
    BY Constants
  <2>2. Apply(func, SubSeq(old, 0 + 1, 0 + Size)) =
          Reading(func, old, 0, Size)
    BY <1>8, <2>1, DownloadReads
  <2>. QED BY <1>7, <2>2 DEF Reading
<1>10. HostOffset(c) + CountOf(c) <= Size
  BY <1>2, <1>3, Constants
<1>. QED BY <1>1, <1>2, <1>3, <1>9, <1>10, Reads

(* A sound request, and its failure, is a step of ElementArray.            *)
LEMMA StepRefines ==
  ASSUME TypeOK, [Next]_vars
  PROVE  [Sound(call') => Promise!Next]_(Promise!vars)
<1>1. CASE UNCHANGED vars
  BY <1>1 DEF vars, Promise!vars
<1>2. ASSUME NEW c \in Requests, Sound(c),
             FromHostMapped(c) \/ ToHostMapped(c) \/ MapThrows(c)
               \/ CopyThrows(c) \/ FromHostStaged(c) \/ ToHostStaged(c)
               \/ StagedThrows(c)
      PROVE  Promise!Next
  <2>1. CASE MapThrows(c) \/ StagedThrows(c)
    BY <2>1, Fails DEF MapThrows, StagedThrows, Call
  <2>. QED
    BY <1>2, <2>1, FromHostMappedRefines, ToHostMappedRefines,
       CopyThrowsRefines, FromHostStagedRefines, ToHostStagedRefines
<1>3. ASSUME NEW c \in Requests,
             FromHostMapped(c) \/ ToHostMapped(c) \/ MapThrows(c)
               \/ CopyThrows(c) \/ FromHostStaged(c) \/ ToHostStaged(c)
               \/ StagedThrows(c)
      PROVE  call' = c
  BY <1>3 DEF FromHostMapped, ToHostMapped, MapThrows, CopyThrows,
              FromHostStaged, ToHostStaged, StagedThrows, Call
<1>4. CASE Next
  BY <1>2, <1>3, <1>4 DEF Next
<1>. QED BY <1>1, <1>4

LEMMA InitRefines == Init => Promise!Init
<1> SUFFICES ASSUME Init PROVE Promise!Init
  OBVIOUS
<1>1. Len(Elements(data)) = Size
  BY Constants, ElementsAre DEF Init
<1>2. Asked(call) = Null
  BY DEF Init, Asked
<1>. QED BY <1>1, <1>2 DEF Init, Promise!Init

(* For all sizes and widths: bytes, staging buffers, mappings, offsets and *)
(* exceptions amount to reads and writes of elements, as long as the       *)
(* request in hand is sound, whatever the earlier ones were.               *)
THEOREM TransfersImplementElements == Spec => ImplementsElementArray
<1>1. Init => Promise!Init
  BY InitRefines
<1>2. TypeOK /\ [Next]_vars => [Sound(call') => Promise!Next]_(Promise!vars)
  BY StepRefines
<1>. QED BY <1>1, <1>2, TypeCorrect, PTL DEF Spec, ImplementsElementArray

=============================================================================
