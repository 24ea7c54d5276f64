---------------------------- MODULE ChecksumState ----------------------------
(***************************************************************************)
(* ChecksumState (XrdHdfsChecksum.hh, XrdHdfsChecksumCalc.cc): the digests  *)
(* that run over the bytes of a file as Write or Calc hand them over, in    *)
(* pieces of any size.  Update is one step up to the loop over the CVMFS    *)
(* chunks, one for each turn of it and one for the rest.                    *)
(*                                                                         *)
(* A digest is what it was computed from: the sequence of bytes fed to it.  *)
(* A byte is named by its position in the stream, from 1 on.  Wild is the   *)
(* value of memory that nobody set.  Left out: the arithmetic of the        *)
(* digests and the text of the graft, of which the size, the offsets and    *)
(* the digests are kept.                                                    *)
(***************************************************************************)
EXTENDS Integers, Sequences

CONSTANTS
  DigestSets,  \* the sets of digests a state may be constructed for
  ChunkSize,   \* CVMFS_CHUNK_SIZE
  ByteRange,   \* values of a byte, 256: Finalize feeds CKSUM the size bytewise
  MaxWrite,    \* bound: bytes of one Update
  MaxBytes,    \* bound: bytes of a stream
  NULL

ASSUME ChunkAssumption == ChunkSize \in Nat \ {0} /\ ByteRange \in Nat \ {0, 1}
ASSUME BoundsAssumption == MaxWrite \in Nat /\ MaxBytes \in Nat
ASSUME DigestsAssumption ==
  DigestSets \subseteq SUBSET {"CKSUM", "ADLER32", "CRC32", "MD5", "CVMFS"}

VARIABLES
  m_digests,          \* the digests to compute
  m_offset,           \* bytes so far
  m_adler32, m_md5,   \* the bytes they have run over
  m_cksum,            \* the same, the size fed after them, and whether inverted
  m_crc32,            \* the same, and whether it started from 0
  m_file_sha1,        \* CVMFS: the bytes of the whole file
  m_chunk_sha1,       \* CVMFS: the bytes of the current chunk
  m_cur_chunk_bytes,  \* their number
  m_chunks,           \* CVMFS: the chunks completed
  m_graft,            \* CVMFS: what Finalize makes of them
  pc,                 \* "ready", in the loop of Update, or "final"
  buf                 \* the arguments and locals of the Update under way

cvmfsVars == <<m_file_sha1, m_chunk_sha1, m_cur_chunk_bytes, m_chunks, m_graft>>
plainVars == <<m_offset, m_adler32, m_md5, m_cksum, m_crc32>>
vars == <<m_digests, plainVars, cvmfsVars, pc, buf>>

\* The bytes at positions a + 1 to b of the stream.
Stream(a, b) == [i \in 1 .. (b - a) |-> a + i]
NoBuf == [buffer |-> << >>, total |-> 0, offset |-> 0]
NoGraft == [size |-> 0, checksum |-> << >>, chunks |-> << >>]

\* The constructor sets everything but m_crc32.
Init ==
  /\ m_digests \in DigestSets
  /\ m_offset = 0
  /\ m_adler32 = << >> /\ m_md5 = << >>
  /\ m_cksum = [fed |-> << >>, size |-> << >>, inverted |-> FALSE]
  /\ m_crc32 \in [fed : {<< >>}, wild : BOOLEAN]
  /\ m_file_sha1 = << >> /\ m_chunk_sha1 = << >>
  /\ m_cur_chunk_bytes = 0
  /\ m_chunks = << >>
  /\ m_graft = NoGraft
  /\ pc = "ready"
  /\ buf = NoBuf
----------------------------------------------------------------------------
(***************************************************************************)
(* Update                                                                  *)
(***************************************************************************)

\* EVP_DigestUpdate and its like, if the digest was asked for.
Feed(name, context, bytes) == IF name \in m_digests THEN context \o bytes ELSE context

\* The whole buffer goes to the plain digests and to the SHA1 of the file.
UpdateBegin(bsize) ==
  LET buffer == Stream(m_offset, m_offset + bsize) IN
  /\ pc = "ready"
  /\ m_offset + bsize <= MaxBytes
  /\ m_offset' = m_offset + bsize
  /\ m_adler32' = Feed("ADLER32", m_adler32, buffer)
  /\ m_cksum' = [m_cksum EXCEPT !.fed = Feed("CKSUM", @, buffer)]
  /\ m_crc32' = [m_crc32 EXCEPT !.fed = Feed("CRC32", @, buffer)]
  /\ m_md5' = Feed("MD5", m_md5, buffer)
  /\ m_file_sha1' = Feed("CVMFS", m_file_sha1, buffer)
  /\ IF "CVMFS" \in m_digests
     THEN /\ pc' = "loop"
          /\ buf' = [buffer |-> buffer, total |-> m_cur_chunk_bytes + bsize, offset |-> 0]
     ELSE UNCHANGED <<pc, buf>>
  /\ UNCHANGED <<m_digests, m_chunk_sha1, m_cur_chunk_bytes, m_chunks, m_graft>>

\* Mutant: a chunk that is exactly full waits for another byte.
ChunkFullStrict == buf.total > ChunkSize

\* Chunk and buffer together hold a full chunk.
ChunkFull == buf.total >= ChunkSize

\* Mutant: the offset is that of the bytes the call began with.
NewOffsetOfCall == m_offset - Len(buf.buffer)

NewOffset == IF m_chunks = << >> THEN 0 ELSE m_chunks[Len(m_chunks)].offset + ChunkSize

\* A turn of the loop: the buffer completes a chunk.
UpdateChunk ==
  LET new_bytes == ChunkSize - m_cur_chunk_bytes
      piece == SubSeq(buf.buffer, buf.offset + 1, buf.offset + new_bytes)
  IN
  /\ pc = "loop"
  /\ ChunkFull
  /\ m_chunks' = Append(m_chunks, [offset |-> NewOffset, sha1 |-> m_chunk_sha1 \o piece])
  /\ m_chunk_sha1' = << >>
  /\ m_cur_chunk_bytes' = 0
  /\ buf' = [buf EXCEPT !.offset = @ + new_bytes, !.total = @ - ChunkSize]
  /\ UNCHANGED <<m_digests, plainVars, m_file_sha1, m_graft, pc>>

\* What is left of the buffer begins the next chunk.
UpdateEnd ==
  LET rest == SubSeq(buf.buffer, buf.offset + 1, Len(buf.buffer)) IN
  /\ pc = "loop"
  /\ ~ChunkFull
  /\ m_chunk_sha1' = m_chunk_sha1 \o rest
  /\ m_cur_chunk_bytes' = m_cur_chunk_bytes + Len(rest)
  /\ pc' = "ready"
  /\ buf' = NoBuf
  /\ UNCHANGED <<m_digests, plainVars, m_file_sha1, m_chunks, m_graft>>
----------------------------------------------------------------------------
(***************************************************************************)
(* Finalize and Get                                                        *)
(***************************************************************************)

\* The size, lowest byte first, without leading zeros.
SizeBytes[n \in Nat] ==
  IF n = 0 THEN << >> ELSE <<n % ByteRange>> \o SizeBytes[n \div ByteRange]

\* Mutant: a single chunk is listed, not replaced by the file.
GraftChunksOne == IF m_chunks = << >> THEN <<[offset |-> 0, sha1 |-> m_file_sha1]>> ELSE m_chunks

\* The list of chunks in the graft: the file as one chunk if there are fewer
\* than two.  The chunk Finalize makes of the bytes after the last full one is
\* not added to m_chunks.
GraftChunks ==
  IF Len(m_chunks) < 2 THEN <<[offset |-> 0, sha1 |-> m_file_sha1]>> ELSE m_chunks

\* Mutant: the size that follows the data is that of the last chunk.
CksumFinalOfChunk ==
  [m_cksum EXCEPT !.size = SizeBytes[m_cur_chunk_bytes], !.inverted = TRUE]

\* CKSUM runs over the bytes of the size too and is inverted.
CksumFinal == [m_cksum EXCEPT !.size = SizeBytes[m_offset], !.inverted = TRUE]

Finalize ==
  /\ pc = "ready"
  /\ m_cksum' = IF "CKSUM" \in m_digests THEN CksumFinal ELSE m_cksum
  /\ m_graft' = IF "CVMFS" \in m_digests
                THEN [size |-> m_offset, checksum |-> m_file_sha1, chunks |-> GraftChunks]
                ELSE m_graft
  /\ pc' = "final"
  /\ UNCHANGED <<m_digests, m_offset, m_adler32, m_md5, m_crc32, m_file_sha1,
                 m_chunk_sha1, m_cur_chunk_bytes, m_chunks, buf>>

\* The object goes, after Finalize or without it (a file that is not closed).
Destroy ==
  /\ pc \in {"ready", "final"}
  /\ pc' = "destroyed"
  /\ UNCHANGED <<m_digests, plainVars, cvmfsVars, buf>>

\* The value of a digest; NULL is the empty string.
Get(digest) ==
  CASE digest \notin m_digests -> NULL
    [] digest = "CKSUM" -> m_cksum
    [] digest = "CRC32" -> m_crc32
    [] digest = "ADLER32" -> m_adler32
    [] digest = "MD5" -> m_md5
    [] digest = "CVMFS" -> m_graft

Next ==
  \/ \E bsize \in 0 .. MaxWrite : UpdateBegin(bsize)
  \/ UpdateChunk
  \/ UpdateEnd
  \/ Finalize
  \/ Destroy

Spec == Init /\ [][Next]_vars
----------------------------------------------------------------------------
(***************************************************************************)
(* Properties                                                              *)
(***************************************************************************)

Chunk == [offset : Nat, sha1 : Seq(Nat)]

\* Every variable has its type; between two Updates the current chunk is not
\* full.
TypeOK ==
  /\ m_digests \in DigestSets
  /\ m_offset \in Nat
  /\ m_adler32 \in Seq(Nat) /\ m_md5 \in Seq(Nat)
  /\ m_cksum \in [fed : Seq(Nat), size : Seq(Nat), inverted : BOOLEAN]
  /\ m_crc32 \in [fed : Seq(Nat), wild : BOOLEAN]
  /\ m_file_sha1 \in Seq(Nat) /\ m_chunk_sha1 \in Seq(Nat)
  /\ m_cur_chunk_bytes \in 0 .. (ChunkSize - 1)
  /\ m_chunks \in Seq(Chunk)
  /\ m_graft \in [size : Nat, checksum : Seq(Nat), chunks : Seq(Chunk)]
  /\ pc \in {"ready", "loop", "final", "destroyed"}
  /\ buf \in [buffer : Seq(Nat), total : Nat, offset : Nat]

\* However the stream was cut into Updates, the chunks completed are the
\* stream's first chunks of CVMFS_CHUNK_SIZE bytes, each with its own bytes and
\* offset, and the current one holds what came after them.
ChunksTileStream ==
  ("CVMFS" \in m_digests /\ pc # "loop") =>
    /\ \A i \in 1 .. Len(m_chunks) :
         m_chunks[i] = [offset |-> (i - 1) * ChunkSize,
                        sha1 |-> Stream((i - 1) * ChunkSize, i * ChunkSize)]
    /\ m_chunk_sha1 = Stream(Len(m_chunks) * ChunkSize, m_offset)
    /\ m_cur_chunk_bytes = Len(m_chunk_sha1)

\* However the stream was cut, ADLER32, MD5, CRC32 and CKSUM have run over the
\* stream, each byte once and in order; CKSUM, as POSIX has it, over its size
\* too.  (CRC32 may have started from any value.)
DigestsOfStream ==
  pc = "final" =>
    /\ "ADLER32" \in m_digests => Get("ADLER32") = Stream(0, m_offset)
    /\ "MD5" \in m_digests => Get("MD5") = Stream(0, m_offset)
    /\ "CRC32" \in m_digests => Get("CRC32").fed = Stream(0, m_offset)
    /\ "CKSUM" \in m_digests =>
         Get("CKSUM") = [fed |-> Stream(0, m_offset), size |-> SizeBytes[m_offset],
                         inverted |-> TRUE]

\* Chunks that follow each other without a gap, each with the digest of the
\* bytes from its offset on, and cover the first n bytes of the stream.
Covers(chunks, n) ==
  LET End(i) == IF i = Len(chunks) THEN n ELSE chunks[i + 1].offset IN
  /\ chunks # << >> /\ chunks[1].offset = 0
  /\ \A i \in 1 .. Len(chunks) : chunks[i].sha1 = Stream(chunks[i].offset, End(i))

\* The graft has the size and SHA1 of the whole stream, and its chunks cover
\* the stream up to the last full chunk, or all of it if it is shorter than two.
GraftCoversFullChunks ==
  (pc = "final" /\ "CVMFS" \in m_digests) =>
    /\ Get("CVMFS").size = m_offset
    /\ Get("CVMFS").checksum = Stream(0, m_offset)
    /\ Covers(Get("CVMFS").chunks,
              IF m_offset < 2 * ChunkSize THEN m_offset ELSE m_offset - (m_offset % ChunkSize))
=============================================================================
