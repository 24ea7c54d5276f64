------------------------- MODULE ChecksumStateProofs -------------------------
(***************************************************************************)
(* ChecksumState for chunks of any size and streams of any length, cut     *)
(* into Updates in any way.                                                *)
(***************************************************************************)
EXTENDS ChecksumState, TLAPS, WellFoundedInduction

USE ChunkAssumption, BoundsAssumption, DigestsAssumption
----------------------------------------------------------------------------
(***************************************************************************)
(* Pieces of the stream                                                    *)
(***************************************************************************)

\* A piece of the stream is a sequence of positions.
LEMMA StreamType ==
  ASSUME NEW a \in Nat, NEW b \in Nat, a <= b
  PROVE  /\ Stream(a, b) \in Seq(Nat) /\ Len(Stream(a, b)) = b - a
         /\ \A i \in 1 .. (b - a) : Stream(a, b)[i] = a + i
<1>1. b - a \in Nat
  OBVIOUS
<1>2. DOMAIN Stream(a, b) = 1 .. (b - a) /\ \A i \in 1 .. (b - a) : Stream(a, b)[i] = a + i
  BY DEF Stream
<1>3. Stream(a, b) \in Seq(Nat)
  BY <1>1, <1>2 DEF Stream
<1>4. QED BY <1>1, <1>2, <1>3

\* Two sequences with the same elements.
LEMMA SameElements ==
  ASSUME NEW s \in Seq(Nat), NEW r \in Seq(Nat), Len(s) = Len(r),
         \A i \in 1 .. Len(s) : s[i] = r[i]
  PROVE  s = r
OBVIOUS

\* Pieces that follow each other make a longer piece.
LEMMA StreamConcat ==
  ASSUME NEW a \in Nat, NEW b \in Nat, NEW c \in Nat, a <= b, b <= c
  PROVE  Stream(a, b) \o Stream(b, c) = Stream(a, c)
<1> DEFINE s == Stream(a, b)
           r == Stream(b, c)
           u == s \o r
           v == Stream(a, c)
<1>a. s \in Seq(Nat) /\ Len(s) = b - a /\ \A i \in 1 .. (b - a) : s[i] = a + i
  BY StreamType
<1>b. r \in Seq(Nat) /\ Len(r) = c - b /\ \A i \in 1 .. (c - b) : r[i] = b + i
  BY StreamType
<1>c. a <= c
  OBVIOUS
<1>d. v \in Seq(Nat) /\ Len(v) = c - a /\ \A i \in 1 .. (c - a) : v[i] = a + i
  BY <1>c, StreamType
<1> HIDE DEF s, r, v
<1>1. Len(s) + Len(r) = c - a
  BY <1>a, <1>b
<1>2. u \in Seq(Nat) /\ Len(u) = c - a
  BY <1>a, <1>b, <1>1
<1>3. ASSUME NEW i \in 1 .. (c - a) PROVE u[i] = v[i]
  <2>1. CASE i <= b - a
    BY <1>a, <1>b, <1>d, <2>1
  <2>2. CASE i > b - a
    <3>1. i - (b - a) \in 1 .. (c - b)
      BY <2>2
    <3>2. u[i] = r[i - (b - a)]
      BY <1>a, <1>b, <1>1, <2>2, SMTT(30)
    <3>3. QED BY <1>b, <1>d, <3>1, <3>2
  <2>3. i <= b - a \/ i > b - a
    OBVIOUS
  <2>4. QED BY <2>1, <2>2, <2>3
<1> HIDE DEF u
<1>4. u = v
  BY <1>d, <1>2, <1>3, SameElements
<1>5. QED BY <1>4 DEF u, s, r, v

\* What SHA1_Update gets from position i of a buffer on, up to j.
Part(s, i, j) == SubSeq(s, i + 1, j)

\* A part of a piece.
LEMMA StreamPart ==
  ASSUME NEW a \in Nat, NEW b \in Nat, a <= b,
         NEW i \in Nat, NEW j \in Nat, i <= j, j <= b - a
  PROVE  Part(Stream(a, b), i, j) = Stream(a + i, a + j)
<1> DEFINE s == Stream(a, b)
           u == SubSeq(s, i + 1, j)
           v == Stream(a + i, a + j)
<1>1. s \in Seq(Nat) /\ Len(s) = b - a /\ \A k \in 1 .. (b - a) : s[k] = a + k
  BY StreamType
<1>2. v \in Seq(Nat) /\ Len(v) = j - i /\ \A k \in 1 .. (j - i) : v[k] = a + i + k
  <2>1. a + i \in Nat /\ a + j \in Nat /\ a + i <= a + j /\ (a + j) - (a + i) = j - i
    OBVIOUS
  <2>2. v \in Seq(Nat) /\ Len(v) = (a + j) - (a + i)
        /\ \A k \in 1 .. ((a + j) - (a + i)) : v[k] = (a + i) + k
    BY <2>1, StreamType
  <2>3. QED BY <2>1, <2>2
<1> HIDE DEF s, v
<1>3. u \in Seq(Nat) /\ Len(u) = j - i /\ \A k \in 1 .. (j - i) : u[k] = s[i + k]
  BY <1>1
<1> HIDE DEF u
<1>4. ASSUME NEW k \in 1 .. (j - i) PROVE u[k] = v[k]
  <2>1. i + k \in 1 .. (b - a)
    OBVIOUS
  <2>2. QED BY <1>1, <1>2, <1>3, <2>1
<1>5. u = v
  BY <1>2, <1>3, <1>4, SameElements
<1>6. QED BY <1>5 DEF Part, u, s, v
----------------------------------------------------------------------------
(***************************************************************************)
(* The bytes of the size                                                   *)
(***************************************************************************)

\* A set of natural numbers has a least element.
LEMMA LeastNatural ==
  ASSUME NEW T, T \subseteq Nat, T # {}
  PROVE  \E x \in T : \A y \in T : x <= y
<1>1. PICK x \in T : \A y \in T : ~(<<y, x>> \in OpToRel(<, Nat))
  BY NatLessThanWellFounded, WFMin
<1>2. \A y \in T : ~(y < x)
  <2> SUFFICES ASSUME NEW y \in T, y < x PROVE <<y, x>> \in OpToRel(<, Nat)
    BY <1>1
  <2>1. <<y, x>> \in Nat \X Nat
    OBVIOUS
  <2>2. QED BY <2>1 DEF OpToRel
<1>3. QED BY <1>2

\* What is left of a number after its lowest byte is smaller.
LEMMA ShiftSmaller ==
  ASSUME NEW n \in Nat, n > 0
  PROVE  /\ n \div ByteRange \in 0 .. (n - 1) /\ n % ByteRange \in Nat
<1>1. /\ n \div ByteRange \in Int /\ n % ByteRange \in 0 .. (ByteRange - 1)
      /\ n = ByteRange * (n \div ByteRange) + (n % ByteRange)
  OBVIOUS
<1> DEFINE q == n \div ByteRange
           r == n % ByteRange
<1> HIDE DEF q, r
<1>2. q \in Int /\ r \in 0 .. (ByteRange - 1) /\ n = ByteRange * q + r
  BY <1>1 DEF q, r
<1>3. q >= 0
  BY <1>2
<1>4. ByteRange * q >= 2 * q
  BY <1>2, <1>3
<1>5. q <= n - 1
  BY <1>2, <1>3, <1>4
<1>6. QED BY <1>1, <1>3, <1>5 DEF q

\* One turn of Finalize's loop over the size, given what the later ones leave.
SizeTurn(h, n) ==
  IF n = 0 THEN << >> ELSE <<n % ByteRange>> \o h[n \div ByteRange]

\* h lists the bytes of the sizes up to n.
SizesTo(h, n) ==
  h \in [0 .. n -> Seq(Nat)] /\ \A k \in 0 .. n : h[k] = SizeTurn(h, k)

LEMMA SizeTurnType ==
  ASSUME NEW n \in Nat, NEW h, n > 0 => h[n \div ByteRange] \in Seq(Nat)
  PROVE  SizeTurn(h, n) \in Seq(Nat)
<1>1. CASE n = 0
  BY <1>1 DEF SizeTurn
<1>2. CASE n > 0
  <2>1. <<n % ByteRange>> \in Seq(Nat)
    BY <1>2, ShiftSmaller
  <2>2. \A s, r \in Seq(Nat) : s \o r \in Seq(Nat)
    OBVIOUS
  <2>3. QED BY <1>2, <2>1, <2>2 DEF SizeTurn
<1>3. QED BY <1>1, <1>2

\* There is such a list for every n.
LEMMA SizesExist == \A n \in Nat : \E h : SizesTo(h, n)
<1> DEFINE T == {n \in Nat : ~\E h : SizesTo(h, n)}
<1> SUFFICES ASSUME T # {} PROVE FALSE
  OBVIOUS
<1>1. PICK n \in T : \A k \in T : n <= k
  BY LeastNatural
<1>2. CASE n = 0
  <2> DEFINE g == [k \in 0 .. 0 |-> << >>]
  <2>1. g \in [0 .. 0 -> Seq(Nat)]
    OBVIOUS
  <2>2. \A k \in 0 .. 0 : k = 0 /\ g[k] = << >>
    OBVIOUS
  <2> HIDE DEF g
  <2>3. SizesTo(g, 0)
    BY <2>1, <2>2 DEF SizesTo, SizeTurn
  <2>4. QED BY <1>2, <2>3
<1>3. CASE n > 0
  <2>1. n \in Nat /\ n - 1 \in Nat /\ n - 1 \notin T
    BY <1>1, <1>3
  <2>2. PICK h : SizesTo(h, n - 1)
    BY <2>1
  <2> HIDE DEF T
  <2> DEFINE x == SizeTurn(h, n)
             g == [k \in 0 .. n |-> IF k = n THEN x ELSE h[k]]
  <2>3. /\ h \in [0 .. (n - 1) -> Seq(Nat)]
        /\ \A k \in 0 .. (n - 1) : h[k] = SizeTurn(h, k)
    BY <2>2 DEF SizesTo
  <2>4. n \div ByteRange \in 0 .. (n - 1)
    BY <1>3, <2>1, ShiftSmaller
  <2>5. x \in Seq(Nat)
    <3>1. h[n \div ByteRange] \in Seq(Nat)
      BY <2>3, <2>4
    <3>2. QED BY <2>1, <3>1, SizeTurnType
  <2> HIDE DEF x
  <2>6. g \in [0 .. n -> Seq(Nat)] /\ g[n] = x /\ \A k \in 0 .. (n - 1) : g[k] = h[k]
    BY <2>1, <2>3, <2>5
  <2> HIDE DEF g
  <2>7. ASSUME NEW k \in 0 .. n PROVE SizeTurn(g, k) = SizeTurn(h, k)
    <3>1. CASE k = 0
      BY <3>1 DEF SizeTurn
    <3>2. CASE k > 0
      <4> DEFINE q == k \div ByteRange
      <4>1. q \in 0 .. (k - 1)
        BY <3>2, ShiftSmaller
      <4> HIDE DEF q
      <4>2. q \in 0 .. (n - 1)
        BY <2>1, <4>1
      <4>3. g[q] = h[q]
        BY <2>6, <4>2
      <4>4. QED BY <4>3 DEF SizeTurn, q
    <3>3. QED BY <2>1, <3>1, <3>2
  <2>8. ASSUME NEW k \in 0 .. n PROVE g[k] = SizeTurn(g, k)
    <3>1. CASE k = n
      BY <2>6, <2>7, <3>1 DEF x
    <3>2. CASE k \in 0 .. (n - 1)
      BY <2>3, <2>6, <2>7, <3>2
    <3>3. QED BY <2>1, <3>1, <3>2
  <2>9. SizesTo(g, n)
    BY <2>6, <2>8 DEF SizesTo
  <2>10. QED BY <1>1, <2>9 DEF T
<1>4. n = 0 \/ n > 0
  OBVIOUS
<1>5. QED BY <1>2, <1>3, <1>4

\* Two of them agree.
LEMMA SizesAgree ==
  ASSUME NEW m \in Nat, NEW n \in Nat, NEW g, NEW h, SizesTo(g, m), SizesTo(h, n),
         NEW k \in Nat, k <= m, k <= n
  PROVE  g[k] = h[k]
<1> DEFINE T == {j \in Nat : j <= m /\ j <= n /\ g[j] # h[j]}
<1> SUFFICES ASSUME T # {} PROVE FALSE
  OBVIOUS
<1>1. PICK j \in T : \A i \in T : j <= i
  BY LeastNatural
<1>2. j \in Nat /\ j <= m /\ j <= n /\ g[j] # h[j]
  BY <1>1
<1>3. g[j] = SizeTurn(g, j) /\ h[j] = SizeTurn(h, j)
  BY <1>2 DEF SizesTo
<1>4. j > 0
  BY <1>2, <1>3 DEF SizeTurn
<1> DEFINE q == j \div ByteRange
<1>5. q \in 0 .. (j - 1)
  BY <1>2, <1>4, ShiftSmaller
<1>6. g[q] = h[q]
  <2> HIDE DEF q
  <2>1. q \in Nat /\ q <= m /\ q <= n /\ q < j
    BY <1>2, <1>5
  <2>2. q \notin T
    BY <1>1, <2>1
  <2>3. QED BY <2>1, <2>2
<1>7. QED BY <1>2, <1>3, <1>6 DEF SizeTurn

\* SizeBytes is what its definition says, and lists bytes.
LEMMA SizeBytesType ==
  /\ SizeBytes = [n \in Nat |-> SizeTurn(SizeBytes, n)]
  /\ SizeBytes \in [Nat -> Seq(Nat)]
<1> DEFINE H(n) == CHOOSE h : SizesTo(h, n)
           F == [n \in Nat |-> H(n)[n]]
<1>1. \A n \in Nat : SizesTo(H(n), n)
  BY SizesExist
<1> HIDE DEF H
<1>2. ASSUME NEW n \in Nat PROVE F[n] = SizeTurn(F, n)
  <2>1. F[n] = SizeTurn(H(n), n)
    BY <1>1 DEF SizesTo
  <2>2. CASE n = 0
    BY <2>1, <2>2 DEF SizeTurn
  <2>3. CASE n > 0
    <3> DEFINE q == n \div ByteRange
    <3>1. q \in Nat /\ q <= n
      BY <2>3, ShiftSmaller
    <3> HIDE DEF q
    <3>2. F[q] = H(n)[q]
      BY <1>1, <3>1, SizesAgree
    <3> HIDE DEF F
    <3>3. QED BY <2>1, <2>3, <3>2 DEF SizeTurn, q
  <2>4. QED BY <2>2, <2>3
<1>3. F = [n \in Nat |-> SizeTurn(F, n)]
  BY <1>2
<1> HIDE DEF F
<1>4. SizeBytes = [n \in Nat |-> SizeTurn(SizeBytes, n)]
  BY <1>3 DEF SizeBytes, SizeTurn
<1> DEFINE T == {n \in Nat : SizeBytes[n] \notin Seq(Nat)}
<1>5. ASSUME T # {} PROVE FALSE
  <2>1. PICK n \in T : \A k \in T : n <= k
    BY <1>5, LeastNatural
  <2>2. n \in Nat /\ SizeBytes[n] \notin Seq(Nat)
    BY <2>1
  <2>3. SizeBytes[n] = SizeTurn(SizeBytes, n)
    BY <1>4, <2>2
  <2>4. n > 0 => SizeBytes[n \div ByteRange] \in Seq(Nat)
    <3> SUFFICES ASSUME n > 0 PROVE SizeBytes[n \div ByteRange] \in Seq(Nat)
      OBVIOUS
    <3> DEFINE q == n \div ByteRange
    <3>1. q \in 0 .. (n - 1)
      BY <2>2, ShiftSmaller
    <3> HIDE DEF q
    <3>2. q \in Nat /\ q < n
      BY <2>2, <3>1
    <3>3. q \notin T
      BY <2>1, <3>2
    <3>4. SizeBytes[q] \in Seq(Nat)
      BY <3>2, <3>3
    <3>5. QED BY <3>4 DEF q
  <2>5. QED BY <2>2, <2>3, <2>4, SizeTurnType
<1>6. \A n \in Nat : SizeBytes[n] \in Seq(Nat)
  BY <1>5
<1>7. QED BY <1>4, <1>6
----------------------------------------------------------------------------
(***************************************************************************)
(* The types and the buffer of an Update                                   *)
(***************************************************************************)

\* Where in the stream the buffer of the Update under way begins.
Base == m_offset - Len(buf.buffer)

\* The buffer is the last piece of the stream; the loop has not run past its
\* end, and total counts the bytes of the chunk and those that are left.
BufferInv ==
  pc = "loop" =>
    /\ "CVMFS" \in m_digests
    /\ Len(buf.buffer) <= m_offset /\ buf.offset <= Len(buf.buffer)
    /\ buf.buffer = Stream(Base, m_offset)
    /\ buf.total = m_cur_chunk_bytes + (Len(buf.buffer) - buf.offset)

LEMMA ConcatType ==
  ASSUME NEW s \in Seq(Nat), NEW r \in Seq(Nat)
  PROVE  s \o r \in Seq(Nat) /\ Len(s \o r) = Len(s) + Len(r)
OBVIOUS

LEMMA FeedType ==
  ASSUME NEW name, NEW s \in Seq(Nat), NEW r \in Seq(Nat)
  PROVE  Feed(name, s, r) \in Seq(Nat)
BY ConcatType DEF Feed

\* A part of a sequence.
LEMMA PartType ==
  ASSUME NEW s \in Seq(Nat), NEW i \in Nat, NEW j \in Nat, i <= j, j <= Len(s)
  PROVE  SubSeq(s, i + 1, j) \in Seq(Nat) /\ Len(SubSeq(s, i + 1, j)) = j - i
OBVIOUS

\* The fields of buf.
LEMMA BufType ==
  ASSUME TypeOK
  PROVE  buf.buffer \in Seq(Nat) /\ buf.total \in Nat /\ buf.offset \in Nat
         /\ Len(buf.buffer) \in Nat
BY DEF TypeOK

LEMMA InitTyped == Init => TypeOK /\ BufferInv
<1> SUFFICES ASSUME Init PROVE TypeOK /\ BufferInv
  OBVIOUS
<1>1. << >> \in Seq(Nat) /\ << >> \in Seq(Chunk)
  OBVIOUS
<1>2. /\ m_crc32 \in [fed : Seq(Nat), wild : BOOLEAN]
      /\ m_cksum \in [fed : Seq(Nat), size : Seq(Nat), inverted : BOOLEAN]
  BY <1>1 DEF Init
<1>3. /\ m_graft \in [size : Nat, checksum : Seq(Nat), chunks : Seq(Chunk)]
      /\ buf \in [buffer : Seq(Nat), total : Nat, offset : Nat]
  BY <1>1 DEF Init, NoBuf, NoGraft
<1>4. TypeOK
  BY <1>1, <1>2, <1>3 DEF Init, TypeOK
<1>5. QED BY <1>4 DEF Init, BufferInv

LEMMA UpdateBeginTyped ==
  ASSUME TypeOK, BufferInv, NEW bsize \in 0 .. MaxWrite, UpdateBegin(bsize)
  PROVE  TypeOK' /\ BufferInv'
<1> DEFINE buffer == Stream(m_offset, m_offset + bsize)
<1>1. m_offset \in Nat /\ bsize \in Nat /\ m_offset + bsize \in Nat
  BY DEF TypeOK
<1>2. buffer \in Seq(Nat) /\ Len(buffer) = bsize
  <2>1. m_offset <= m_offset + bsize /\ (m_offset + bsize) - m_offset = bsize
    BY <1>1
  <2>2. QED BY <1>1, <2>1, StreamType
<1>3. /\ pc = "ready" /\ m_offset' = m_offset + bsize
      /\ m_adler32' = Feed("ADLER32", m_adler32, buffer)
      /\ m_cksum' = [m_cksum EXCEPT !.fed = Feed("CKSUM", m_cksum.fed, buffer)]
      /\ m_crc32' = [m_crc32 EXCEPT !.fed = Feed("CRC32", m_crc32.fed, buffer)]
      /\ m_md5' = Feed("MD5", m_md5, buffer)
      /\ m_file_sha1' = Feed("CVMFS", m_file_sha1, buffer)
      /\ UNCHANGED <<m_digests, m_chunk_sha1, m_cur_chunk_bytes, m_chunks, m_graft>>
      /\ \/ UNCHANGED <<pc, buf>>
         \/ /\ "CVMFS" \in m_digests /\ pc' = "loop"
            /\ buf' = [buffer |-> buffer, total |-> m_cur_chunk_bytes + bsize, offset |-> 0]
  BY DEF UpdateBegin
<1> HIDE DEF buffer
<1>4. m_adler32' \in Seq(Nat) /\ m_md5' \in Seq(Nat) /\ m_file_sha1' \in Seq(Nat)
  BY <1>2, <1>3, FeedType DEF TypeOK
<1>5. m_cksum' \in [fed : Seq(Nat), size : Seq(Nat), inverted : BOOLEAN]
  <2>1. Feed("CKSUM", m_cksum.fed, buffer) \in Seq(Nat)
    BY <1>2, FeedType DEF TypeOK
  <2>2. QED BY <1>3, <2>1 DEF TypeOK
<1>6. m_crc32' \in [fed : Seq(Nat), wild : BOOLEAN]
  <2>1. Feed("CRC32", m_crc32.fed, buffer) \in Seq(Nat)
    BY <1>2, FeedType DEF TypeOK
  <2>2. QED BY <1>3, <2>1 DEF TypeOK
<1>7. buf' \in [buffer : Seq(Nat), total : Nat, offset : Nat] /\ pc' \in {"ready", "loop"}
  <2>1. m_cur_chunk_bytes + bsize \in Nat
    BY <1>1 DEF TypeOK
  <2>2. [buffer |-> buffer, total |-> m_cur_chunk_bytes + bsize, offset |-> 0]
          \in [buffer : Seq(Nat), total : Nat, offset : Nat]
    BY <1>2, <2>1
  <2>3. QED BY <1>3, <2>2 DEF TypeOK
<1>8. TypeOK'
  BY <1>1, <1>3, <1>4, <1>5, <1>6, <1>7 DEF TypeOK
<1>9. BufferInv'
  <2> SUFFICES ASSUME pc' = "loop" PROVE BufferInv'
    BY DEF BufferInv
  <2>1. /\ buf'.buffer = buffer /\ buf'.total = m_cur_chunk_bytes + bsize /\ buf'.offset = 0
        /\ "CVMFS" \in m_digests
    BY <1>3
  <2>2. Base' = m_offset
    BY <1>1, <1>2, <1>3, <2>1 DEF Base
  <2>3. buf'.buffer = Stream(Base', m_offset')
    BY <1>3, <2>1, <2>2 DEF buffer
  <2>4. m_cur_chunk_bytes \in Nat
    BY DEF TypeOK
  <2>5. QED BY <1>1, <1>2, <1>3, <2>1, <2>3, <2>4 DEF BufferInv
<1>10. QED BY <1>8, <1>9

\* What a turn of the loop finds and leaves.
LEMMA UpdateChunkSteps ==
  ASSUME TypeOK, BufferInv, UpdateChunk
  PROVE  LET new_bytes == ChunkSize - m_cur_chunk_bytes
             piece == SubSeq(buf.buffer, buf.offset + 1, buf.offset + new_bytes)
         IN
         /\ new_bytes \in Nat /\ buf.offset + new_bytes <= Len(buf.buffer)
         /\ piece \in Seq(Nat) /\ Len(piece) = new_bytes
         /\ buf' \in [buffer : Seq(Nat), total : Nat, offset : Nat]
         /\ buf'.buffer = buf.buffer /\ buf'.offset = buf.offset + new_bytes
         /\ buf'.total = buf.total - ChunkSize
<1> DEFINE new_bytes == ChunkSize - m_cur_chunk_bytes
           piece == SubSeq(buf.buffer, buf.offset + 1, buf.offset + new_bytes)
<1>1. new_bytes \in Nat /\ m_cur_chunk_bytes \in Nat
  BY DEF TypeOK
<1>2. /\ buf.total >= ChunkSize /\ buf.total = m_cur_chunk_bytes + (Len(buf.buffer) - buf.offset)
      /\ buf' = [buf EXCEPT !.offset = buf.offset + new_bytes, !.total = buf.total - ChunkSize]
  BY DEF UpdateChunk, BufferInv, ChunkFull
<1>3. buf.offset + new_bytes <= Len(buf.buffer)
  BY <1>1, <1>2, BufType, SMTT(30)
<1> HIDE DEF new_bytes
<1>4. piece \in Seq(Nat) /\ Len(piece) = new_bytes
  <2>1. buf.offset + new_bytes \in Nat /\ buf.offset <= buf.offset + new_bytes
        /\ (buf.offset + new_bytes) - buf.offset = new_bytes
    BY <1>1, BufType
  <2>2. QED BY <1>3, <2>1, BufType, PartType
<1>5. buf.total - ChunkSize \in Nat
  BY <1>2, BufType
<1>6. /\ buf' \in [buffer : Seq(Nat), total : Nat, offset : Nat]
      /\ buf'.buffer = buf.buffer /\ buf'.offset = buf.offset + new_bytes
      /\ buf'.total = buf.total - ChunkSize
  <2> DEFINE o == buf.offset + new_bytes
             n == buf.total - ChunkSize
  <2>1. o \in Nat /\ n \in Nat /\ buf' = [buf EXCEPT !.offset = o, !.total = n]
    BY <1>1, <1>2, <1>5, BufType DEF new_bytes
  <2> HIDE DEF o, n
  <2>2. /\ buf' \in [buffer : Seq(Nat), total : Nat, offset : Nat]
        /\ buf'.buffer = buf.buffer /\ buf'.offset = o /\ buf'.total = n
    BY <2>1 DEF TypeOK
  <2>3. QED BY <2>2 DEF o, n
<1>7. QED BY <1>1, <1>3, <1>4, <1>6 DEF new_bytes

\* The offset of a new chunk is a number.
LEMMA NewOffsetType == ASSUME TypeOK PROVE NewOffset \in Nat
<1>1. CASE m_chunks = << >>
  BY <1>1 DEF NewOffset
<1>2. CASE m_chunks # << >>
  <2>1. m_chunks \in Seq(Chunk)
    BY DEF TypeOK
  <2>2. m_chunks[Len(m_chunks)] \in Chunk
    BY <1>2, <2>1
  <2>3. m_chunks[Len(m_chunks)].offset \in Nat
    BY <2>2 DEF Chunk
  <2>4. QED BY <1>2, <2>3 DEF NewOffset
<1>3. QED BY <1>1, <1>2

LEMMA UpdateChunkTyped ==
  ASSUME TypeOK, BufferInv, UpdateChunk
  PROVE  TypeOK' /\ BufferInv'
<1> DEFINE new_bytes == ChunkSize - m_cur_chunk_bytes
           piece == SubSeq(buf.buffer, buf.offset + 1, buf.offset + new_bytes)
           chunk == [offset |-> NewOffset, sha1 |-> m_chunk_sha1 \o piece]
<1>1. /\ new_bytes \in Nat /\ buf.offset + new_bytes <= Len(buf.buffer)
      /\ piece \in Seq(Nat)
      /\ buf' \in [buffer : Seq(Nat), total : Nat, offset : Nat]
      /\ buf'.buffer = buf.buffer /\ buf'.offset = buf.offset + new_bytes
      /\ buf'.total = buf.total - ChunkSize
  BY UpdateChunkSteps
<1>2. /\ pc = "loop" /\ m_chunks' = Append(m_chunks, chunk)
      /\ m_chunk_sha1' = << >> /\ m_cur_chunk_bytes' = 0
      /\ UNCHANGED <<m_digests, plainVars, m_file_sha1, m_graft, pc>>
  BY DEF UpdateChunk
<1>3. chunk \in Chunk
  <2>1. m_chunk_sha1 \o piece \in Seq(Nat)
    BY <1>1, ConcatType DEF TypeOK
  <2>2. QED BY <2>1, NewOffsetType DEF Chunk
<1> HIDE DEF chunk, piece
<1>4. m_chunks' \in Seq(Chunk)
  BY <1>2, <1>3 DEF TypeOK
<1>5. TypeOK'
  <2>1. m_chunk_sha1' \in Seq(Nat) /\ m_cur_chunk_bytes' \in 0 .. (ChunkSize - 1)
    BY <1>2
  <2>2. QED BY <1>1, <1>2, <1>4, <2>1 DEF TypeOK, plainVars
<1>6. BufferInv'
  <2>1. /\ "CVMFS" \in m_digests /\ Len(buf.buffer) <= m_offset
        /\ buf.buffer = Stream(Base, m_offset)
        /\ buf.total = m_cur_chunk_bytes + (Len(buf.buffer) - buf.offset)
    BY <1>2 DEF BufferInv
  <2>2. Base' = Base /\ m_offset' = m_offset /\ m_digests' = m_digests
    BY <1>1, <1>2 DEF Base, plainVars
  <2>3. m_cur_chunk_bytes \in Nat /\ ChunkSize \in Nat
    BY DEF TypeOK
  <2>4. buf.total - ChunkSize = 0 + (Len(buf.buffer) - (buf.offset + new_bytes))
    BY <2>1, <2>3, BufType
  <2> HIDE DEF new_bytes
  <2>5. QED BY <1>1, <1>2, <2>1, <2>2, <2>4 DEF BufferInv
<1>7. QED BY <1>5, <1>6

\* What the end of the loop finds.
LEMMA UpdateEndRest ==
  ASSUME TypeOK, BufferInv, UpdateEnd
  PROVE  LET rest == SubSeq(buf.buffer, buf.offset + 1, Len(buf.buffer)) IN
         /\ rest \in Seq(Nat) /\ Len(rest) = Len(buf.buffer) - buf.offset
         /\ m_cur_chunk_bytes' = m_cur_chunk_bytes + (Len(buf.buffer) - buf.offset)
         /\ m_cur_chunk_bytes' \in 0 .. (ChunkSize - 1)
<1> DEFINE rest == SubSeq(buf.buffer, buf.offset + 1, Len(buf.buffer))
<1>1. /\ pc = "loop" /\ buf.total < ChunkSize /\ m_cur_chunk_bytes' = m_cur_chunk_bytes + Len(rest)
  BY BufType DEF UpdateEnd, ChunkFull
<1>2. /\ buf.offset <= Len(buf.buffer)
      /\ buf.total = m_cur_chunk_bytes + (Len(buf.buffer) - buf.offset)
  BY <1>1 DEF BufferInv
<1>3. rest \in Seq(Nat) /\ Len(rest) = Len(buf.buffer) - buf.offset
  <2>1. Len(buf.buffer) <= Len(buf.buffer)
    BY BufType
  <2>2. QED BY <1>2, <2>1, BufType, PartType
<1> HIDE DEF rest
<1>4. m_cur_chunk_bytes' = buf.total
  BY <1>1, <1>2, <1>3
<1>5. m_cur_chunk_bytes' \in 0 .. (ChunkSize - 1)
  BY <1>1, <1>4, BufType
<1>6. QED BY <1>1, <1>3, <1>5 DEF rest

LEMMA UpdateEndTyped ==
  ASSUME TypeOK, BufferInv, UpdateEnd
  PROVE  TypeOK' /\ BufferInv'
<1> DEFINE rest == SubSeq(buf.buffer, buf.offset + 1, Len(buf.buffer))
<1>1. /\ rest \in Seq(Nat) /\ m_cur_chunk_bytes' \in 0 .. (ChunkSize - 1)
      /\ m_chunk_sha1' = m_chunk_sha1 \o rest /\ pc' = "ready" /\ buf' = NoBuf
      /\ UNCHANGED <<m_digests, plainVars, m_file_sha1, m_chunks, m_graft>>
  BY UpdateEndRest DEF UpdateEnd
<1> HIDE DEF rest
<1>2. m_chunk_sha1' \in Seq(Nat)
  BY <1>1, ConcatType DEF TypeOK
<1>3. buf' \in [buffer : Seq(Nat), total : Nat, offset : Nat]
  BY <1>1 DEF NoBuf
<1>4. TypeOK'
  BY <1>1, <1>2, <1>3 DEF TypeOK, plainVars
<1>5. QED BY <1>1, <1>4 DEF BufferInv

LEMMA FinalizeTyped ==
  ASSUME TypeOK, BufferInv, Finalize
  PROVE  TypeOK' /\ BufferInv'
<1>1. m_cksum' \in [fed : Seq(Nat), size : Seq(Nat), inverted : BOOLEAN]
  <2>1. SizeBytes[m_offset] \in Seq(Nat)
    BY SizeBytesType DEF TypeOK
  <2>2. m_cksum' = m_cksum
        \/ m_cksum' = [m_cksum EXCEPT !.size = SizeBytes[m_offset], !.inverted = TRUE]
    BY DEF Finalize, CksumFinal
  <2>3. m_cksum \in [fed : Seq(Nat), size : Seq(Nat), inverted : BOOLEAN]
    BY DEF TypeOK
  <2> DEFINE s == SizeBytes[m_offset]
  <2> HIDE DEF s
  <2>4. s \in Seq(Nat) /\ (m_cksum' = m_cksum \/ m_cksum' = [m_cksum EXCEPT !.size = s, !.inverted = TRUE])
    BY <2>1, <2>2 DEF s
  <2>5. QED BY <2>3, <2>4
<1>2. GraftChunks \in Seq(Chunk)
  <2>1. [offset |-> 0, sha1 |-> m_file_sha1] \in Chunk
    BY DEF TypeOK, Chunk
  <2>2. \A c \in Chunk : <<c>> \in Seq(Chunk)
    OBVIOUS
  <2>3. QED BY <2>1, <2>2 DEF GraftChunks, TypeOK
<1>3. m_graft' \in [size : Nat, checksum : Seq(Nat), chunks : Seq(Chunk)]
  BY <1>2 DEF Finalize, TypeOK
<1>4. TypeOK'
  BY <1>1, <1>3 DEF Finalize, TypeOK
<1>5. QED BY <1>4 DEF Finalize, BufferInv

LEMMA NextTyped == TypeOK /\ BufferInv /\ [Next]_vars => TypeOK' /\ BufferInv'
<1> SUFFICES ASSUME TypeOK, BufferInv, [Next]_vars PROVE TypeOK' /\ BufferInv'
  OBVIOUS
<1>1. CASE Destroy
  <2>1. TypeOK'
    BY <1>1 DEF Destroy, TypeOK, plainVars, cvmfsVars
  <2>2. QED BY <1>1, <2>1 DEF Destroy, BufferInv
<1>2. CASE UNCHANGED vars
  <2>1. TypeOK'
    BY <1>2 DEF vars, TypeOK, plainVars, cvmfsVars
  <2>2. QED BY <1>2, <2>1 DEF vars, BufferInv, Base, plainVars, cvmfsVars
<1>3. QED
  BY <1>1, <1>2, UpdateBeginTyped, UpdateChunkTyped, UpdateEndTyped, FinalizeTyped DEF Next

\* The buffer that Update hands to the loop over the chunks is accounted for.
THEOREM BufferInvHolds == Spec => [](TypeOK /\ BufferInv)
BY InitTyped, NextTyped, PTL DEF Spec

\* Whatever the size of the Updates, the variables of a ChecksumState have their
\* types; in particular the loop over the chunks neither makes total negative nor
\* leaves a full chunk behind.
THEOREM TypeCorrect == Spec => []TypeOK
BY BufferInvHolds, PTL
----------------------------------------------------------------------------
(***************************************************************************)
(* The chunks                                                              *)
(***************************************************************************)

\* How far into the stream the chunks have come.
Seen == IF pc = "loop" THEN Base + buf.offset ELSE m_offset

\* The chunks are the first chunks of the stream.
Tiled(chunks) ==
  \A i \in 1 .. Len(chunks) :
    chunks[i] = [offset |-> (i - 1) * ChunkSize,
                 sha1 |-> Stream((i - 1) * ChunkSize, i * ChunkSize)]

\* At every turn of the loop too, the current chunk holds what the full ones
\* leave of the bytes seen.
TileInv ==
  "CVMFS" \in m_digests =>
    /\ Tiled(m_chunks)
    /\ Len(m_chunks) * ChunkSize + m_cur_chunk_bytes = Seen
    /\ m_chunk_sha1 = Stream(Len(m_chunks) * ChunkSize, Seen)

\* The end of the full chunks.
LEMMA FullBytes ==
  ASSUME NEW n \in Nat
  PROVE  /\ n * ChunkSize \in Nat /\ (n + 1) * ChunkSize = n * ChunkSize + ChunkSize
         /\ n > 0 => (n - 1) * ChunkSize + ChunkSize = n * ChunkSize
OBVIOUS

\* A chunk is added where the last one ended.
LEMMA NewOffsetIs ==
  ASSUME TypeOK, Tiled(m_chunks)
  PROVE  NewOffset = Len(m_chunks) * ChunkSize
<1>1. m_chunks \in Seq(Chunk) /\ Len(m_chunks) \in Nat
  BY DEF TypeOK
<1>2. CASE m_chunks = << >>
  BY <1>2 DEF NewOffset
<1>3. CASE m_chunks # << >>
  <2>1. Len(m_chunks) \in 1 .. Len(m_chunks) /\ Len(m_chunks) > 0
    BY <1>1, <1>3
  <2>2. m_chunks[Len(m_chunks)].offset = (Len(m_chunks) - 1) * ChunkSize
    <3> DEFINE n == Len(m_chunks)
    <3>1. m_chunks[n] = [offset |-> (n - 1) * ChunkSize,
                         sha1 |-> Stream((n - 1) * ChunkSize, n * ChunkSize)]
      BY <2>1 DEF Tiled
    <3>2. QED BY <3>1
  <2>3. QED BY <1>1, <1>3, <2>1, <2>2, FullBytes DEF NewOffset
<1>4. QED BY <1>2, <1>3

LEMMA UpdateBeginTiles ==
  ASSUME TypeOK, BufferInv, TileInv, NEW bsize \in 0 .. MaxWrite, UpdateBegin(bsize)
  PROVE  TileInv'
<1> SUFFICES ASSUME "CVMFS" \in m_digests PROVE TileInv'
  BY DEF UpdateBegin, TileInv
<1> DEFINE buffer == Stream(m_offset, m_offset + bsize)
<1>1. m_offset \in Nat /\ bsize \in Nat /\ m_offset <= m_offset + bsize
      /\ m_offset + bsize \in Nat /\ (m_offset + bsize) - m_offset = bsize
  BY DEF TypeOK
<1>2. Len(buffer) = bsize
  BY <1>1, StreamType
<1>3. /\ pc = "ready" /\ pc' = "loop" /\ m_offset' = m_offset + bsize
      /\ buf' = [buffer |-> buffer, total |-> m_cur_chunk_bytes + bsize, offset |-> 0]
      /\ UNCHANGED <<m_digests, m_chunk_sha1, m_cur_chunk_bytes, m_chunks>>
  BY DEF UpdateBegin
<1> HIDE DEF buffer
<1>4. buf'.buffer = buffer /\ buf'.offset = 0
  BY <1>3
<1>5. Seen = m_offset
  BY <1>3 DEF Seen
<1>6. Seen' = m_offset
  BY <1>1, <1>2, <1>3, <1>4 DEF Seen, Base
<1>7. QED BY <1>3, <1>5, <1>6 DEF TileInv, Tiled

LEMMA UpdateChunkTiles ==
  ASSUME TypeOK, BufferInv, TileInv, UpdateChunk
  PROVE  TileInv'
<1> DEFINE new_bytes == ChunkSize - m_cur_chunk_bytes
           piece == SubSeq(buf.buffer, buf.offset + 1, buf.offset + new_bytes)
           n == Len(m_chunks)
           full == n * ChunkSize
           chunk == [offset |-> NewOffset, sha1 |-> m_chunk_sha1 \o piece]
<1>1. /\ new_bytes \in Nat /\ buf.offset + new_bytes <= Len(buf.buffer)
      /\ buf'.buffer = buf.buffer /\ buf'.offset = buf.offset + new_bytes
  BY UpdateChunkSteps
<1>2. /\ pc = "loop" /\ m_chunks' = Append(m_chunks, chunk)
      /\ m_chunk_sha1' = << >> /\ m_cur_chunk_bytes' = 0
      /\ UNCHANGED <<m_digests, m_offset, pc>>
  BY DEF UpdateChunk, plainVars
<1>3. /\ "CVMFS" \in m_digests /\ Len(buf.buffer) <= m_offset
      /\ buf.buffer = Stream(Base, m_offset)
  BY <1>2 DEF BufferInv
<1>4. /\ Tiled(m_chunks) /\ full + m_cur_chunk_bytes = Seen
      /\ m_chunk_sha1 = Stream(full, Seen) /\ Seen = Base + buf.offset
  BY <1>2, <1>3 DEF TileInv, Seen
<1>5. /\ m_offset \in Nat /\ m_cur_chunk_bytes \in Nat /\ n \in Nat /\ full \in Nat
      /\ m_chunks \in Seq(Chunk)
  BY FullBytes DEF TypeOK
<1>6. Base \in Nat /\ m_offset - Base = Len(buf.buffer)
  BY <1>3, <1>5, BufType DEF Base
<1>7. Base' = Base
  BY <1>1, <1>2 DEF Base
<1>8. Seen' = full + ChunkSize
  <2>1. Seen' = Base + (buf.offset + new_bytes)
    BY <1>1, <1>2, <1>7 DEF Seen
  <2> HIDE DEF full
  <2>2. QED BY <1>4, <1>5, <1>6, <2>1, BufType, SMTT(30)
<1>9. piece = Stream(Seen, full + ChunkSize)
  <2>1. piece = Stream(Base + buf.offset, Base + (buf.offset + new_bytes))
    <3> DEFINE o == buf.offset
               j == buf.offset + new_bytes
    <3>1. o \in Nat /\ j \in Nat /\ o <= j /\ j <= m_offset - Base /\ Base <= m_offset
      BY <1>1, <1>3, <1>5, <1>6, BufType
    <3> HIDE DEF o, j
    <3>2. Part(Stream(Base, m_offset), o, j) = Stream(Base + o, Base + j)
      BY <1>5, <1>6, <3>1, StreamPart
    <3>3. QED BY <1>3, <3>2 DEF o, j, Part
  <2> HIDE DEF piece, full
  <2>2. Base + (buf.offset + new_bytes) = full + ChunkSize
    <3> DEFINE o == buf.offset
    <3>1. o \in Nat /\ full + m_cur_chunk_bytes = Base + o
      BY <1>4, BufType
    <3> HIDE DEF o
    <3>2. Base + (o + (ChunkSize - m_cur_chunk_bytes)) = full + ChunkSize
      BY <1>5, <1>6, <3>1
    <3>3. QED BY <3>2 DEF o
  <2>3. QED BY <1>4, <2>1, <2>2
<1>10. m_chunk_sha1 \o piece = Stream(full, full + ChunkSize)
  <2> HIDE DEF piece, full
  <2>1. Seen \in Nat /\ full <= Seen /\ Seen <= full + ChunkSize /\ full + ChunkSize \in Nat
    BY <1>4, <1>5, SMTT(30) DEF TypeOK
  <2>2. QED BY <1>4, <1>5, <1>9, <2>1, StreamConcat
<1>11. chunk = [offset |-> full, sha1 |-> Stream(full, full + ChunkSize)]
  BY <1>4, <1>10, NewOffsetIs
<1> HIDE DEF chunk, piece, new_bytes
<1>12. /\ Len(m_chunks') = n + 1 /\ m_chunks'[n + 1] = chunk
       /\ \A i \in 1 .. n : m_chunks'[i] = m_chunks[i]
  BY <1>2, <1>5
<1>13. (n + 1) * ChunkSize = full + ChunkSize /\ (n + 1) - 1 = n
  BY <1>5, FullBytes
<1>14. Tiled(m_chunks')
  <2> SUFFICES ASSUME NEW i \in 1 .. (n + 1)
               PROVE  m_chunks'[i] = [offset |-> (i - 1) * ChunkSize,
                                      sha1 |-> Stream((i - 1) * ChunkSize, i * ChunkSize)]
    BY <1>12 DEF Tiled
  <2>1. CASE i = n + 1
    BY <1>11, <1>12, <1>13, <2>1
  <2>2. CASE i \in 1 .. n
    BY <1>4, <1>12, <2>2 DEF Tiled
  <2>3. QED BY <1>5, <2>1, <2>2
<1>15. Stream(full + ChunkSize, full + ChunkSize) = << >>
  <2> DEFINE m == full + ChunkSize
             s == Stream(m, m)
  <2>1. m \in Nat /\ m <= m /\ m - m = 0
    BY <1>5
  <2> HIDE DEF m
  <2>2. s \in Seq(Nat) /\ Len(s) = 0
    BY <2>1, StreamType
  <2> HIDE DEF s
  <2>3. s = << >>
    BY <2>2
  <2>4. QED BY <2>3 DEF s, m
<1>16. Len(m_chunks') * ChunkSize = Seen' /\ Seen' \in Nat
  BY <1>5, <1>8, <1>12, <1>13
<1>17. QED BY <1>2, <1>8, <1>14, <1>15, <1>16 DEF TileInv, Tiled

LEMMA UpdateEndTiles ==
  ASSUME TypeOK, BufferInv, TileInv, UpdateEnd
  PROVE  TileInv'
<1> DEFINE rest == SubSeq(buf.buffer, buf.offset + 1, Len(buf.buffer))
           full == Len(m_chunks) * ChunkSize
<1>1. /\ pc = "loop" /\ pc' = "ready" /\ m_chunk_sha1' = m_chunk_sha1 \o rest
      /\ m_cur_chunk_bytes' = m_cur_chunk_bytes + (Len(buf.buffer) - buf.offset)
      /\ UNCHANGED <<m_digests, m_offset, m_chunks>>
  BY UpdateEndRest DEF UpdateEnd, plainVars
<1>2. /\ "CVMFS" \in m_digests /\ Len(buf.buffer) <= m_offset
      /\ buf.offset <= Len(buf.buffer) /\ buf.buffer = Stream(Base, m_offset)
  BY <1>1 DEF BufferInv
<1>3. /\ Tiled(m_chunks) /\ full + m_cur_chunk_bytes = Seen
      /\ m_chunk_sha1 = Stream(full, Seen) /\ Seen = Base + buf.offset
  BY <1>1, <1>2 DEF TileInv, Seen
<1>4. /\ m_offset \in Nat /\ m_cur_chunk_bytes \in Nat /\ full \in Nat
  <2>1. Len(m_chunks) \in Nat
    BY DEF TypeOK
  <2>2. QED BY <2>1, FullBytes DEF TypeOK
<1>5. Base \in Nat /\ m_offset - Base = Len(buf.buffer) /\ Base + Len(buf.buffer) = m_offset
  BY <1>2, <1>4, BufType DEF Base
<1> HIDE DEF full
<1>6. rest = Stream(Seen, m_offset)
  <2>1. Base <= m_offset /\ Len(buf.buffer) <= m_offset - Base
    BY <1>4, <1>5, BufType
  <2>2. SubSeq(Stream(Base, m_offset), buf.offset + 1, Len(buf.buffer))
          = Stream(Base + buf.offset, Base + Len(buf.buffer))
    <3> DEFINE o == buf.offset
               l == Len(buf.buffer)
    <3>1. /\ Base \in Nat /\ m_offset \in Nat /\ Base <= m_offset
          /\ o \in Nat /\ l \in Nat /\ o <= l /\ l <= m_offset - Base
      BY <1>2, <1>4, <1>5, <2>1, BufType
    <3> HIDE DEF o, l
    <3>2. Part(Stream(Base, m_offset), o, l) = Stream(Base + o, Base + l)
      BY <3>1, StreamPart
    <3>3. QED BY <3>2 DEF o, l, Part
  <2>3. QED BY <1>2, <1>3, <1>5, <2>2
<1> HIDE DEF rest
<1>7. Seen \in Nat /\ full <= Seen /\ Seen <= m_offset
  BY <1>2, <1>3, <1>4, <1>5, BufType
<1>8. m_chunk_sha1' = Stream(full, m_offset)
  BY <1>1, <1>3, <1>4, <1>6, <1>7, StreamConcat
<1>9. full + m_cur_chunk_bytes' = m_offset
  <2> DEFINE o == buf.offset
             l == Len(buf.buffer)
             c == m_cur_chunk_bytes
  <2>1. o \in Nat /\ l \in Nat /\ c \in Nat /\ full + c = Base + o /\ Base + l = m_offset
    BY <1>3, <1>4, <1>5, BufType
  <2>2. m_cur_chunk_bytes' = c + (l - o)
    BY <1>1
  <2> HIDE DEF o, l, c
  <2>3. full + (c + (l - o)) = m_offset
    BY <1>4, <1>5, <2>1
  <2>4. QED BY <2>2, <2>3
<1>10. Seen' = m_offset
  BY <1>1 DEF Seen
<1>11. QED BY <1>1, <1>3, <1>8, <1>9, <1>10 DEF TileInv, Tiled, full

LEMMA InitTiles == Init => TileInv
<1> SUFFICES ASSUME Init PROVE TileInv
  OBVIOUS
<1>1. Seen = 0 /\ Len(m_chunks) = 0 /\ m_cur_chunk_bytes = 0 /\ m_chunk_sha1 = << >>
  BY DEF Init, Seen
<1>2. Stream(0, 0) = << >>
  BY DEF Stream
<1>3. 0 * ChunkSize = 0
  OBVIOUS
<1>4. QED BY <1>1, <1>2, <1>3 DEF TileInv, Tiled

LEMMA NextTiles == TypeOK /\ BufferInv /\ TileInv /\ [Next]_vars => TileInv'
<1> SUFFICES ASSUME TypeOK, BufferInv, TileInv, [Next]_vars PROVE TileInv'
  OBVIOUS
<1>1. CASE Finalize
  BY <1>1 DEF Finalize, TileInv, Tiled, Seen
<1>2. CASE Destroy
  BY <1>2 DEF Destroy, TileInv, Tiled, Seen, plainVars, cvmfsVars
<1>3. CASE UNCHANGED vars
  BY <1>3 DEF vars, TileInv, Tiled, Seen, Base, plainVars, cvmfsVars
<1>4. QED
  BY <1>1, <1>2, <1>3, UpdateBeginTiles, UpdateChunkTiles, UpdateEndTiles DEF Next

\* At every turn of Update's loop the chunks are the first ones of the stream.
THEOREM TileInvHolds == Spec => []TileInv
BY InitTiles, NextTiles, BufferInvHolds, PTL DEF Spec

\* However Write and Calc cut the stream into Updates, and whatever the chunk
\* size, each chunk has its own offset and bytes, and the current one the rest.
THEOREM ChunksTile == Spec => []ChunksTileStream
<1>1. TypeOK /\ TileInv => ChunksTileStream
  <2> SUFFICES ASSUME TypeOK, TileInv, "CVMFS" \in m_digests, pc # "loop"
               PROVE  ChunksTileStream
    BY DEF ChunksTileStream
  <2> DEFINE full == Len(m_chunks) * ChunkSize
  <2>1. full + m_cur_chunk_bytes = m_offset /\ m_chunk_sha1 = Stream(full, m_offset)
        /\ Tiled(m_chunks)
    BY DEF TileInv, Seen
  <2>2. m_offset \in Nat /\ full \in Nat /\ m_cur_chunk_bytes \in Nat
    <3>1. Len(m_chunks) \in Nat
      BY DEF TypeOK
    <3>2. QED BY <3>1, FullBytes DEF TypeOK
  <2> HIDE DEF full
  <2>3. full <= m_offset
    BY <2>1, <2>2
  <2>4. Len(m_chunk_sha1) = m_offset - full
    BY <2>1, <2>2, <2>3, StreamType
  <2>5. m_cur_chunk_bytes = Len(m_chunk_sha1)
    BY <2>1, <2>2, <2>4
  <2>6. QED BY <2>1, <2>5 DEF ChunksTileStream, Tiled, full
<1>2. QED BY <1>1, TypeCorrect, TileInvHolds, PTL
----------------------------------------------------------------------------
(***************************************************************************)
(* The digests and the graft                                               *)
(***************************************************************************)

\* Every digest asked for has run over the stream so far.
FedInv ==
  /\ "ADLER32" \in m_digests => m_adler32 = Stream(0, m_offset)
  /\ "MD5" \in m_digests => m_md5 = Stream(0, m_offset)
  /\ "CRC32" \in m_digests => m_crc32.fed = Stream(0, m_offset)
  /\ "CKSUM" \in m_digests => m_cksum.fed = Stream(0, m_offset)
  /\ "CVMFS" \in m_digests => m_file_sha1 = Stream(0, m_offset)

\* What Finalize has made of them.
FinalInv ==
  pc = "final" =>
    /\ "CKSUM" \in m_digests => m_cksum.size = SizeBytes[m_offset] /\ m_cksum.inverted = TRUE
    /\ "CVMFS" \in m_digests =>
         /\ m_graft.size = m_offset /\ m_graft.checksum = m_file_sha1
         /\ m_graft.chunks = GraftChunks

LEMMA InitFed == Init => FedInv /\ FinalInv
<1>1. Stream(0, 0) = << >>
  BY DEF Stream
<1>2. QED BY <1>1 DEF Init, FedInv, FinalInv

LEMMA UpdateBeginFeeds ==
  ASSUME TypeOK, FedInv, NEW bsize \in 0 .. MaxWrite, UpdateBegin(bsize)
  PROVE  FedInv' /\ FinalInv'
<1> DEFINE buffer == Stream(m_offset, m_offset + bsize)
<1>1. m_offset \in Nat /\ m_offset + bsize \in Nat /\ m_offset <= m_offset + bsize /\ 0 <= m_offset
  BY DEF TypeOK
<1>2. Stream(0, m_offset) \o buffer = Stream(0, m_offset + bsize)
  BY <1>1, StreamConcat
<1>3. /\ pc = "ready" /\ m_offset' = m_offset + bsize
      /\ m_adler32' = Feed("ADLER32", m_adler32, buffer)
      /\ m_cksum' = [m_cksum EXCEPT !.fed = Feed("CKSUM", m_cksum.fed, buffer)]
      /\ m_crc32' = [m_crc32 EXCEPT !.fed = Feed("CRC32", m_crc32.fed, buffer)]
      /\ m_md5' = Feed("MD5", m_md5, buffer)
      /\ m_file_sha1' = Feed("CVMFS", m_file_sha1, buffer)
      /\ m_digests' = m_digests /\ pc' \in {"ready", "loop"}
  BY DEF UpdateBegin
<1> HIDE DEF buffer
<1>4. m_cksum'.fed = Feed("CKSUM", m_cksum.fed, buffer)
  BY <1>3 DEF TypeOK
<1>5. m_crc32'.fed = Feed("CRC32", m_crc32.fed, buffer)
  BY <1>3 DEF TypeOK
<1>6. \A name : name \in m_digests =>
        Feed(name, Stream(0, m_offset), buffer) = Stream(0, m_offset + bsize)
  BY <1>2 DEF Feed
<1>7. FedInv'
  BY <1>3, <1>4, <1>5, <1>6 DEF FedInv
<1>8. QED BY <1>3, <1>7 DEF FinalInv

LEMMA FinalizeFeeds ==
  ASSUME TypeOK, FedInv, Finalize
  PROVE  FedInv' /\ FinalInv'
<1>1. /\ UNCHANGED <<m_digests, m_offset, m_adler32, m_md5, m_crc32, m_file_sha1, m_chunks>>
      /\ "CKSUM" \notin m_digests \/ m_cksum' = CksumFinal
      /\ "CVMFS" \notin m_digests
         \/ m_graft' = [size |-> m_offset, checksum |-> m_file_sha1, chunks |-> GraftChunks]
  BY DEF Finalize
<1>2. /\ CksumFinal.fed = m_cksum.fed /\ CksumFinal.size = SizeBytes[m_offset]
      /\ CksumFinal.inverted = TRUE
  <2> DEFINE s == SizeBytes[m_offset]
  <2> HIDE DEF s
  <2>1. CksumFinal = [m_cksum EXCEPT !.size = s, !.inverted = TRUE]
    BY DEF CksumFinal, s
  <2>2. CksumFinal.fed = m_cksum.fed /\ CksumFinal.size = s /\ CksumFinal.inverted = TRUE
    BY <2>1 DEF TypeOK
  <2>3. QED BY <2>2 DEF s
<1>3. GraftChunks' = GraftChunks
  BY <1>1 DEF GraftChunks
<1>4. "CVMFS" \in m_digests => /\ m_graft'.size = m_offset /\ m_graft'.checksum = m_file_sha1
                               /\ m_graft'.chunks = GraftChunks
  BY <1>1
<1>5. FedInv'
  BY <1>1, <1>2 DEF FedInv
<1>6. FinalInv'
  BY <1>1, <1>2, <1>3, <1>4 DEF FinalInv
<1>7. QED BY <1>5, <1>6

LEMMA NextFed == TypeOK /\ FedInv /\ FinalInv /\ [Next]_vars => FedInv' /\ FinalInv'
<1> SUFFICES ASSUME TypeOK, FedInv, FinalInv, [Next]_vars PROVE FedInv' /\ FinalInv'
  OBVIOUS
<1>1. CASE UpdateChunk
  BY <1>1 DEF UpdateChunk, FedInv, FinalInv, plainVars
<1>2. CASE UpdateEnd
  BY <1>2 DEF UpdateEnd, FedInv, FinalInv, plainVars
<1>3. CASE Destroy
  BY <1>3 DEF Destroy, FedInv, FinalInv, plainVars, cvmfsVars
<1>4. CASE UNCHANGED vars
  BY <1>4 DEF vars, FedInv, FinalInv, GraftChunks, plainVars, cvmfsVars
<1>5. QED BY <1>1, <1>2, <1>3, <1>4, UpdateBeginFeeds, FinalizeFeeds DEF Next

\* Every digest asked for follows the stream, and Finalize keeps it.
THEOREM FedInvHolds == Spec => [](FedInv /\ FinalInv)
BY InitFed, NextFed, TypeCorrect, PTL DEF Spec

\* However the stream was cut into Updates, what Get returns after Finalize for
\* ADLER32, MD5, CRC32 and CKSUM is the digest of the whole stream, and CKSUM's
\* of its size too.
THEOREM DigestsAreOfStream == Spec => []DigestsOfStream
<1>1. TypeOK /\ FedInv /\ FinalInv => DigestsOfStream
  <2> SUFFICES ASSUME TypeOK, FedInv, FinalInv, pc = "final" PROVE DigestsOfStream
    BY DEF DigestsOfStream
  <2>1. /\ "ADLER32" \in m_digests => Get("ADLER32") = m_adler32
        /\ "MD5" \in m_digests => Get("MD5") = m_md5
        /\ "CRC32" \in m_digests => Get("CRC32") = m_crc32
        /\ "CKSUM" \in m_digests => Get("CKSUM") = m_cksum
    BY DEF Get
  <2>2. "CKSUM" \in m_digests =>
          m_cksum = [fed |-> Stream(0, m_offset), size |-> SizeBytes[m_offset], inverted |-> TRUE]
    <3> SUFFICES ASSUME "CKSUM" \in m_digests
                 PROVE  m_cksum = [fed |-> Stream(0, m_offset), size |-> SizeBytes[m_offset],
                                   inverted |-> TRUE]
      OBVIOUS
    <3> DEFINE f == Stream(0, m_offset)
               s == SizeBytes[m_offset]
    <3>1. m_cksum.fed = f /\ m_cksum.size = s /\ m_cksum.inverted = TRUE
      BY DEF FedInv, FinalInv
    <3> HIDE DEF f, s
    <3>2. m_cksum = [fed |-> f, size |-> s, inverted |-> TRUE]
      BY <3>1 DEF TypeOK
    <3>3. QED BY <3>2 DEF f, s
  <2>3. QED BY <2>1, <2>2 DEF FedInv, DigestsOfStream
<1>2. QED BY <1>1, TypeCorrect, FedInvHolds, PTL

\* What a stream leaves after its full chunks.
LEMMA Remainder ==
  ASSUME NEW n \in Nat, NEW k \in Nat, NEW r \in 0 .. (ChunkSize - 1), n = k * ChunkSize + r
  PROVE  n % ChunkSize = r
<1> DEFINE q == n \div ChunkSize
           s == n % ChunkSize
<1>1. q \in Int /\ s \in 0 .. (ChunkSize - 1) /\ n = ChunkSize * q + s
  OBVIOUS
<1> HIDE DEF q, s
<1>2. k = q
  <2>1. CASE k > q
    <3>1. (k - q) * ChunkSize >= ChunkSize
      BY <1>1, <2>1
    <3>2. k * ChunkSize - ChunkSize * q >= ChunkSize
      BY <1>1, <3>1
    <3>3. QED BY <1>1, <3>2
  <2>2. CASE k < q
    <3>1. (q - k) * ChunkSize >= ChunkSize
      BY <1>1, <2>2
    <3>2. ChunkSize * q - k * ChunkSize >= ChunkSize
      BY <1>1, <3>1
    <3>3. QED BY <1>1, <3>2
  <2>3. QED BY <1>1, <2>1, <2>2
<1>3. k * ChunkSize = ChunkSize * q
  BY <1>1, <1>2
<1>4. s = r
  BY <1>1, <1>3
<1>5. QED BY <1>4 DEF s

\* The full chunks cover the stream up to the end of the last one.
LEMMA TiledCovers ==
  ASSUME NEW chunks \in Seq(Chunk), Len(chunks) > 0, Tiled(chunks)
  PROVE  Covers(chunks, Len(chunks) * ChunkSize)
<1>1. Len(chunks) \in Nat /\ chunks # << >>
  OBVIOUS
<1>2. ASSUME NEW i \in 1 .. Len(chunks)
      PROVE  /\ chunks[i].offset = (i - 1) * ChunkSize
             /\ chunks[i].sha1 = Stream((i - 1) * ChunkSize, i * ChunkSize)
  <2>1. chunks[i] = [offset |-> (i - 1) * ChunkSize,
                     sha1 |-> Stream((i - 1) * ChunkSize, i * ChunkSize)]
    BY DEF Tiled
  <2>2. QED BY <2>1
<1>3. chunks[1].offset = 0
  <2>1. 1 \in 1 .. Len(chunks) /\ (1 - 1) * ChunkSize = 0
    BY <1>1
  <2>2. QED BY <1>2, <2>1
<1>4. ASSUME NEW i \in 1 .. Len(chunks)
      PROVE  (IF i = Len(chunks) THEN Len(chunks) * ChunkSize ELSE chunks[i + 1].offset)
               = i * ChunkSize
  <2>1. CASE i = Len(chunks)
    BY <2>1
  <2>2. CASE i # Len(chunks)
    <3>1. i + 1 \in 1 .. Len(chunks) /\ (i + 1) - 1 = i
      BY <1>1, <2>2
    <3>2. chunks[i + 1].offset = ((i + 1) - 1) * ChunkSize
      BY <1>2, <3>1
    <3>3. QED BY <2>2, <3>1, <3>2
  <2>3. QED BY <2>1, <2>2
<1>5. QED BY <1>1, <1>2, <1>3, <1>4 DEF Covers

\* The file itself as the only chunk.
LEMMA OneCovers ==
  ASSUME NEW n \in Nat
  PROVE  Covers(<<[offset |-> 0, sha1 |-> Stream(0, n)]>>, n)
BY DEF Covers

\* However the stream was cut into Updates, and whatever the chunk size, the
\* graft that Finalize writes has the size and digest of the stream, and chunks
\* without gap or overlap up to the last full one.
THEOREM GraftCovers == Spec => []GraftCoversFullChunks
<1>1. TypeOK /\ TileInv /\ FedInv /\ FinalInv => GraftCoversFullChunks
  <2> SUFFICES ASSUME TypeOK, TileInv, FedInv, FinalInv, pc = "final", "CVMFS" \in m_digests
               PROVE  GraftCoversFullChunks
    BY DEF GraftCoversFullChunks
  <2> DEFINE k == Len(m_chunks)
             end == IF m_offset < 2 * ChunkSize THEN m_offset
                    ELSE m_offset - (m_offset % ChunkSize)
  <2>1. /\ Get("CVMFS") = m_graft /\ m_file_sha1 = Stream(0, m_offset)
        /\ m_graft.size = m_offset /\ m_graft.checksum = m_file_sha1
        /\ m_graft.chunks = GraftChunks
    BY DEF Get, FedInv, FinalInv
  <2>2. /\ m_offset = k * ChunkSize + m_cur_chunk_bytes /\ Tiled(m_chunks)
    BY DEF TileInv, Seen
  <2>3. /\ m_offset \in Nat /\ k \in Nat /\ m_cur_chunk_bytes \in 0 .. (ChunkSize - 1)
        /\ m_chunks \in Seq(Chunk)
    BY DEF TypeOK
  <2> HIDE DEF k
  <2>4. Covers(GraftChunks, end)
    <3>1. CASE k < 2
      <4>1. k * ChunkSize <= ChunkSize
        BY <2>3, <3>1
      <4>2. m_offset < 2 * ChunkSize
        BY <2>2, <2>3, <4>1
      <4>3. GraftChunks = <<[offset |-> 0, sha1 |-> Stream(0, m_offset)]>>
        BY <2>1, <3>1 DEF GraftChunks, k
      <4>4. QED BY <2>3, <4>2, <4>3, OneCovers
    <3>2. CASE k >= 2
      <4>1. k * ChunkSize >= 2 * ChunkSize /\ k * ChunkSize \in Nat
        BY <2>3, <3>2
      <4>2. ~(m_offset < 2 * ChunkSize)
        BY <2>2, <2>3, <4>1
      <4>3. m_offset % ChunkSize = m_cur_chunk_bytes
        BY <2>2, <2>3, Remainder
      <4>4. m_offset - m_cur_chunk_bytes = k * ChunkSize
        BY <2>2, <2>3, <4>1
      <4>5. end = k * ChunkSize
        BY <4>2, <4>3, <4>4
      <4> HIDE DEF end
      <4>6. GraftChunks = m_chunks
        BY <2>3, <3>2 DEF GraftChunks, k
      <4>7. Covers(m_chunks, k * ChunkSize)
        BY <2>2, <2>3, <3>2, TiledCovers DEF k
      <4>8. QED BY <4>5, <4>6, <4>7
    <3>3. QED BY <2>3, <3>1, <3>2
  <2>5. QED BY <2>1, <2>4 DEF GraftCoversFullChunks
<1>2. QED BY <1>1, TypeCorrect, TileInvHolds, FedInvHolds, PTL
=============================================================================
