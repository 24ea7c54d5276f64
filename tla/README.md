# A TLA+ model of the XRootD HDFS plugin

The plugin (`src/`) lets an XRootD server keep its files in HDFS. XRootD calls
it through the OSS interface (`XrdOss`, `XrdOssDF`) and the checksum interface
(`XrdCks`); it calls HDFS through libhdfs. It has no threads of its own: every
operation runs on whichever server thread XRootD uses, and what two threads
share is the members of one object, four static variables, and HDFS itself.

This directory holds TLA+ models of its parts, the TLC configurations that check
them on small instances, and proofs, checked by TLAPS, that the main properties
hold for instances of every size. `PROJECT.json` lists components, runs,
mutants, the source lines of every definition, findings, hazards and theorems.

## The system

| Part | State | Operations | Interacts with |
|---|---|---|---|
| `XrdHdfsFile` | `fh`, `fname`, `m_nextoff`, the read-ahead buffer, the digests `m_state` of the file being written | `Open`, `Read`, `Write`, `Close`, destructor, `Fstat` | libhdfs; `ChecksumManager::Set` from `Close`; used in turn by the checksum manager for the files under `/cksums` |
| `XrdHdfsDirectory` | the array of `hdfsListDirectory`, `dirPos`, `isopen`, the stat buffer | `Opendir`, `Readdir`, `StatRet`, `Close`, destructor | libhdfs |
| Connection caches | `g_fs_map` under `g_fs_mutex`, `m_cmsd_fs` under `m_fs_mutex` | `hadoop_connect`, `ExtractAuthName`, the client-less branch of `Stat` | every operation starts here |
| `ChecksumManager` | none in memory; one file `/cksums/<path>` per data file | `Get`, `Set` (two of them), `Calc`, `Ver`, `Del`, `List` | `XrdHdfsFile` for both kinds of file, `XrdHdfsSys::Unlink` |
| `ChecksumState` | running CKSUM, CRC32, ADLER32, MD5 and the CVMFS chunks | `Update`, `Finalize`, `Get` | fed by `Write` and by `Calc` |
| `XrdHdfsSys` namespace operations | none | `Stat`, `Chmod`, `Mkdir`, `Remdir`, `Rename`, `Truncate`, `Unlink`, `Create` | libhdfs; they do not touch the checksum files |
| Configuration | `N2N_Lib`, `N2N_Parms`, `the_N2N`, `g_hdfs_oss` | `XrdOssGetStorageSystem`, `Init`, `Configure`, `ConfigN2N`, `xnml` | called by the server until it succeeds |
| Name translation | none | `GetRealPath`, `Lfn2Pfn`, `GetChecksumFilename` | `GetRealPath` from every operation, `Lfn2Pfn` from checksum queries |
| Bootstrap, EnvCheck | the process environment | `DetermineEnvironment`, `loadJvm`; `safe_write` of the child | a pipe between the two processes |

What is hard here, and what correctness means for each part:

* **File, reading.** Several threads read one handle and share one buffer, under
  `readbuf_mutex`; `Close` frees the buffer under the mutex but drops the handle
  outside it. `Read` may return from the middle of its load loop. Correct: a
  `Read` delivers the bytes of the file at the offset asked for, whatever mix of
  buffered tail and fresh load they came from, and is short only at the end.
* **File, writing.** HDFS appends only. `Write` accepts one offset, may be cut
  short, and feeds digests on the side. Correct: bytes land at the offset they
  were sent for, and the digest recorded by `Close` is that of the file closed.
* **Connections.** Two caches and two nested mutexes, one held across a
  connection to HDFS. Correct: one handle per user and none lost, no operation
  acts as somebody else, nobody waits for ever.
* **Checksums.** `Get`, `Close`, `Calc` and `Set` of different threads meet in a
  small file that is emptied, written and closed in separate calls; the server
  may die between any two. Correct: an answer is a digest of the file, the
  entries belong together, and asking for a checksum does no harm.
* **Directory.** Other clients change it while it is read; the object may be
  closed, reopened and destroyed in any order. Correct: a listing is one
  snapshot, and the array is freed once.
* **Digests.** A stream arrives in pieces that have nothing to do with the chunks
  it is divided into. Correct: digests and chunks depend on the stream alone.
* **Namespace.** Several libhdfs calls make up one operation and one return code,
  other threads come between, and `errno` carries over. Correct: no failure is
  reported as success, `ENOENT` is true, and `Mkdir` looks for the parent.
* **Names.** A name is translated once by `Open` and twice by a checksum query.
  Correct: both reach the same file, and recording a checksum ends.
* **Start-up.** Two processes and a pipe, values of any length, a configuration
  that fails and is tried again. Correct: it ends, the values arrive, and the
  translation is the one the file asks for.

## Modules

`XrdHdfsFile`, `HadoopConnect`, `ChecksumManager`, `ChecksumState`, `XrdHdfsSys`,
`XrdHdfsDirectory`, `NameTranslation`, `XrdHdfsConfig` and `XrdHdfsBootstrap` model
one part each; `ConnectionCache` is the abstract specification that `HadoopConnect`
implements; `MC*` give the constants of small instances; `*Proofs` hold the
theorems. The operators marked "Mutant" in the comments are plausible bugs,
used to show that each property can fail: with the operator that follows them
replaced by the mutant, TLC finds the property violated.

### XrdHdfsFile

The variables are the members of the object, the contents of the HDFS files it
reaches, the holder of `readbuf_mutex`, and for each thread the `Read` or `Close`
it is executing. A byte is named by the offset its writer meant it for, so a
file is in order exactly when position p holds p; bytes nobody has written are
`Junk`.

| Code | Actions |
|---|---|
| constructor, destructor | `Init`, `Destroy` |
| `Open` | `OpenFails`, `OpenSucceeds` (both begin with `PrepareOpen`) |
| `Read` | `ReadBypass`, `ReadHit`, `ReadMiss`; then the load loop, one `ReadLoad` per `hdfsPread`, and `ReadFinish` or `ReadError` |
| `Write` | `Write` |
| `Close` | `CloseHandle` (outside the mutex), `CloseRest` (inside and after it) |
| another client | `OtherAppends` |

`hdfsPread` may deliver any positive number of bytes up to the request and the
end of the file, or fail; `hdfsWrite` may take any number, or fail;
`hdfsCloseFile` may fail; `malloc` may fail. Assumed: `Open`, `Write` and the
destructor are not concurrent with other calls on the object (the header says
the class is not thread-safe beyond `readbuf`), `Close` is called once at a time,
nobody starts a `Read` on an object that is not open (`Read` itself does not
check), each libhdfs call is one step, and a file somebody has open for reading
only grows. A `Close` that pulls the handle from under a running `hdfsPread` is
undefined behaviour inside libhdfs and is not modelled; one that comes between
two of them is.

### HadoopConnect and ConnectionCache

One action per critical section or blocking point: `Call`, then `CmsdKnown` or
`CmsdUnknown` for the client-less `Stat` (under `m_fs_mutex`), `FindKnown` or
`FindUnknown` (under `g_fs_mutex`), `Connected` or `ConnectFailed` when
`hdfsConnectAsUserNewInstance` returns with the mutex still held, `CmsdStore`,
`Return`. All operations other than `Stat` use the cache the same way and are
one kind of call. `ConnectionCache` has no locks: a request is answered in one
step by the handle the user has, a new one that all later requests get, or a
failure that leaves nothing. `ImplementsCache` states the refinement; the mapping
takes the map as the table and a thread's position as its phase. `Rightful` says
whom an operation should be from the comments of the code and not from its tests:
the `request.name` unless it is blank, else the entity's name, else "nobody", and
root for a client-less `Stat`. `ActsAsCaller` compares that with what
`ExtractAuthName` and `Stat` choose, and names the one client for whom they choose
otherwise (deviation 3).

### ChecksumManager

A content of a file is a number, a digest is the content it was computed from,
and a checksum file is a sequence of (name, digest) entries, NULL if absent. The
bytes a client wrote are a content as well: `Fed` is the stream that the digests of
a `Close` have run over, the file itself or, if HDFS took only part of it, one the
file never had. `Set` of a digest records whatever its caller gives (`Told`), for a
file that need not be there. `Calc` records all digests, or with `do_set` = 0 the one
it was asked for. Of a `Close` after writing, `SetMultiple`, `Get` and `Calc`, each HDFS call that other
threads can come between is a step: `WriteOpen`, `WriteClose`, `SetOpen`,
`SetWrite`, `Get`, `GetDel`, `GetReturns`, `Calc`. HDFS gives a file to its last
opener; an earlier writer's later calls fail. `Remains` is what a failed write
may leave: whole entries and then a cut one, whose name does not parse or whose
value is `Torn`. `Crash` forgets all calls and closes all files as they are.
A workload, one of the constant `Workloads` chosen at the start, says which
operations there are, whether they follow each other, and whether HDFS fails and
the server crashes; the properties say which workloads they are about. `Serial` has
all the manager's operations and writers, one after the other, `SerialFull` the same
without `do_set` = 0, `Shared` has writers, queries and namespace operations at once,
`Faulty` everything with failures and crashes, `Short` writes that HDFS takes in part. A file that is being
written is seen as empty until its writer closes it, and one `Calc` or `Get` sees
one content: HDFS does not show a reader two versions of a file. A `Get` that
cannot read an existing checksum file returns its error and changes nothing, so
it is not a step.

### XrdHdfsDirectory

One action per method, a set of successors for what other clients do to the
directory (`Others`), and a count of the arrays allocated and not freed. `ToStat`
is the conversion to `struct stat` that `Readdir`, `Stat` and `Fstat` share.

### XrdHdfsSys

The namespace is a function from the paths of a small tree to "dir", "file" or
"none". A thread's operation is a sequence of libhdfs calls, one action each:
`Begin` (up to the first call) or `ConnectFails`, then `MkdirParent` and
`MkdirCreate`, `Delete` (of `Remdir` and `Unlink`) and `UnlinkExists`, `Rename`,
`OpenForWriting` (of `Truncate` and `Create`), `Chmod` (also of `Create`), `Close` (the
`hdfsCloseFile` that ends `Truncate` and `Create`, whose failure nobody looks at),
`Stat`, and `Return`. `WriteRefused` is the one return of `XrdHdfsFile::Write` that
calls `Emsg`. Every action carries `errno` of its thread through, and `Emsg` makes the
return code of it: `hadoop_connect` clears it, the client-less `Stat` does not call
that, and `Stat` does not clear it before `hdfsGetPathInfo`, so that a failure which
leaves it alone is reported with what was there. Assumed of libhdfs: a call that
succeeds leaves `errno` alone; one that fails sets it or leaves it, except that `hdfsExists` fails without an
`errno` only for an absent path, and `hdfsDelete` of an absent path reports `EIO`,
the case `Unlink` is written for. `saw` records what the path in question (the file
of `Unlink`, `Truncate` and `Create`, the parent of `Mkdir`) has been during a call.

### ChecksumState

The variables are the members. A digest is the sequence of bytes fed to it, a
byte its position in the stream, so "the SHA1 of these bytes" is the bytes.
`UpdateBegin` feeds the plain digests, `UpdateChunk` is a turn of the loop over full
chunks, `UpdateEnd` keeps the rest. `m_crc32` starts from an arbitrary value, the
constructor not setting it. `Finalize` builds the graft; the chunk it computes for
the rest and drops does not appear, as in the code.

### NameTranslation

Paths are sequences of components. `the_N2N` is the translation plugin, or NULL, and
the operator constant `lfn2pfn` what it makes of a path. One thread runs, with the stack of its Closes: `CloseRecords`
is the part of `Close` up to the `Write` of the checksum file, whose own `Close` is then
on top, and `CloseReturn` the end of a `Close`. `Get`, `Calc` and `Del` are what a
checksum query reaches through `Lfn2Pfn`. The two plugins of `MCNames` are one that
knows `/store` and refuses other names (in the manner of the file catalogue in
`rpm/xrootd.sample.hdfs.cfg.in`) and one that prefixes every name.

### XrdHdfsConfig

One action for each directive (`Namelib`), for the end of the file (`ConfigEnds`,
with `ConfigN2N`), and for each way `XrdOssGetStorageSystem` of the two libraries may
go on (`GetAgain`, `LoadFails`, `OpenFails`, `Load`, `Loaded`). `Edit` changes the file
between attempts.

### XrdHdfsBootstrap

Both processes and the pipe, cell by cell: the child's `safe_write` (`ChildCalls`,
`ChildPushes`, `ChildWrote`, `ChildFails`), `fgets` (`FgetsReads`, `FgetsReturns`) and the
scan (`Scan`, `ScanEnds`). A record longer than the child's buffer makes it write what
lies behind the buffer, as the result of `snprintf` is taken for the length.
Values contain no newline and no `=` that would make a fragment look like a
variable.

## Runs

| Run | Expect | Instance | Shows |
|---|---|---|---|
| `FileRead` | pass | 2 threads, 1 file of up to 3 bytes, buffer of 2, requests of 0 to 3 bytes, 2 opens of an object, fairness | `BufferCoherent`, `ReadDelivers`, `ShortReadMeansEOF`, `ReadbufProtected`, `ReadReturns` |
| `FileWrite` | pass | 1 thread, a data file and a checksum file of up to 2 bytes, all open modes, short and failed writes | `DigestFollowsFile`, `WriteLandsAtOffset`, `RecordedWasClosed` |
| `Connect` | pass | 2 threads, 5 names, 7 kinds of client and none, fairness | `NoOrphanHandle`, `ActsAsCaller`, `CmsdHandleIsRoots`, `ImplementsCache`, `SomebodyGetsThrough` |
| `Checksum` | pass | 2 threads, 1 file, 3 contents, 2 digests; the five workloads | `EmptyOnlyWhileWritten`, `OneContentPerFile`, `AnswerWasContent`, `RecordedIsCurrent`, `DelOnlyWhileWritten` |
| `Directory` | pass | up to 2 entries of 3 kinds, 2 stat buffers | `ReadsSnapshot`, `NoArrayLost`, `StatIsOfEntry` |
| `Sys` | pass | 2 threads, `/a`, `/a/b`, `/c`; all operations against mkdir, rmdir, create | `OkMeansDone`, `EnoentMeansAbsent`, `MkdirHadParent` |
| `StateUpdate` | pass | streams of up to 13 bytes, chunks of 3, all cuts, all digests and each alone | `ChunksTileStream`, `DigestsOfStream`, `GraftCoversFullChunks` |
| `Bootstrap` | pass | 3 variables, values of 0 to 2 cells and of more than the buffer, a pipe of 2, 2 signals, fairness | `ScanInBuffer`, `EnvironmentArrives`, `BootstrapEnds` |
| `Config` | pass | a good and a bad library, files of 2 directives | `UpMeansTranslated`, `TranslationStable` |
| `Names` | pass | 3 names of 2 files; a catalogue, a prefix, no translation; paths of up to 11 components, fairness | `AnswersOwnFileOnce`, `CloseReturns` |
| `ChecksumQuery` | violation | a writer and a client that asks | `QueryKeepsData` fails: finding 1 |
| `NamesTwice` | violation | 2 names, a prefix | `AnswersOwnFile` fails: finding 2 |

A module's `TypeOK`, where it has one, is checked with its run (that of `XrdHdfsFile`
in `FileRead`).

Why the bounds are enough. In `FileRead`, a buffer of 2 and a file of 3 bytes
give requests smaller than, as large as and larger than the buffer, partial hits
with a non-empty rest, loads that take two `hdfsPread`s, and offsets at and past the
end; the theorems below cover all sizes anyway. In `FileWrite` two bytes allow a
short write, its repetition and a failed one; the object is opened once, since
with two opens `WriteLandsAtOffset` is false (deviation 1 below). In `Connect` the
names have none, one, two and more characters, and `MaxConns` of 4 is one handle
for each name that anybody is connected as (all but the blank one); it is never
reached in need of more because no user gets two. In `Checksum` three
contents are the versions of a file before, during and after a race, or two files
and a stream of which HDFS took a part; the second
digest is one that `Calc` cannot compute and `Get` cannot return; threads are
interchangeable, hence the symmetry (all its properties are safety properties).
`Directory` needs two entries to tell "the next" from "the first". The tree of
`Sys` has a directory with something in it and one without, and two threads are
what a race takes. `StateUpdate` has Updates that end before, on and after a chunk
boundary and that complete up to three chunks at once, and streams with and
without a rest. In `Bootstrap` three records fill one line of `fgets`, stay below it
or take several, and one value is longer than the child's own buffer; two signals
hit one `write(2)` twice or two of them. In `Config` two directives are one that
counts and one before it. Under the prefix of `Names` Close nests up to six deep
before the path limit, and `MaxDepth` is above that.

**Fairness.** `Connect` uses weak fairness of each thread's steps once it is inside
the code: a scheduler that runs runnable threads, and a libhdfs connect call that
returns, with a handle or without. Nothing is assumed of the order in which a
mutex serves waiting threads, so the property is that some thread gets through,
not each; with `XrdSysMutex` a single thread could be overtaken for ever. Nobody is
obliged to call. `FileRead` uses weak fairness of the steps of a thread in the load
loop, which holds the mutex: its `hdfsPread` returns (with an error if the handle is
gone; an error is not assumed otherwise). `Bootstrap` assumes that each of the two
processes runs and that signals do not come for ever, `Names` that a thread inside
`Close` goes on.

## Findings

1. `Get` that finds no digest of the requested name calls `Del`, which unlinks the
   data file. The shortest way there is a `Get` between the `Open` and the `Write` of
   `SetMultiple`. It takes an HDFS where user "nobody" may delete the file, since
   `Del` passes no client. Where nothing fails and everybody records all digests,
   this race is the only way for a digest that `Close` records (`DelOnlyWhileWritten`).
   Otherwise it takes no race: `Get` also deletes the data file when it asks for a
   digest that is never recorded, for another one than a `Calc` with `do_set` = 0 has
   recorded, after a `Set` that met an empty checksum file, and after a failure or a
   crash that left a checksum file without the digest.
2. `Calc` (and `Del`) translate a name that is translated already. A plugin that
   leaves translated names alone hides this (`AnswersOwnFileOnce`); one that
   prefixes every name makes `Calc` read another file, or none.

## Deviations the properties work around

Met while modelling; the models show them, and the properties named say what
holds all the same.

1. `m_nextoff` survives `Close` and a second `Open`. `Open` is written for an object
   that is opened again (it invalidates `readbuf`), but the second file's first
   `Write` is checked against the end of the first. XRootD and the plugin make one
   object per open; `WriteLandsAtOffset` is checked for such objects (`MaxOpens` = 1
   in `FileWrite`; with 2 it fails).
2. `Write` feeds the digests all bytes whatever `hdfsWrite` took: after a short write
   and the client's retry the digest recorded is of a longer stream than the file.
   `DigestFollowsFile` and `RecordedWasClosed` speak of digests as long as the file.
   `Get` then answers a digest of no content the file ever had, so `AnswerWasContent`
   is about workloads in which HDFS takes what clients write; without that
   condition it fails in `Short`.
3. `ExtractAuthName` ignores a `request.name` of one character, although its comment
   speaks of blank ones. `ActsAsCaller` names this client as the exception and says whom
   it works as: the entity's own name (root, in the instance), or "nobody".
4. `Mkdir` without `mkpath` looks for the parent and then calls
   `hdfsCreateDirectory`, which makes parents: a parent removed in between comes
   back. `MkdirHadParent` says the parent was there during the call.
5. `Emsg` returns `errno`, or -1, and not the code it is given. An out-of-order
   `Write` returns -1 or what an earlier call of the thread left; an `Unlink` whose
   `hdfsDelete` failed with `EIO` returns -1 if the file is there; a `Stat` may return
   what an earlier call left. `OkMeansDone` says that none of this comes out as
   `XrdOssOK`, not which code it is.
6. `Finalize` drops the chunk it computes for the end of the file: the graft of a
   file of two or more full chunks and a rest does not cover the rest
   (`GraftCoversFullChunks`).
7. `m_crc32` is not initialised, so the recorded CRC32 starts from an arbitrary
   value (`DigestsOfStream` is about the bytes it has run over).
8. `DetermineEnvironment` scans the second and later lines of `fgets` from where the
   first ended: of an environment of more than `BUFSIZE` - 2 bytes values may be cut
   or lost, and start-up goes on. `EnvironmentArrives` is about one line.
9. Under a translation that prefixes every name, checksum files are no longer under
   `/cksums`, so that each gets a checksum file of its own, until the name is too
   long to be translated. `CloseReturns` says that this ends.
10. `Truncate` and `Create` ignore a failure of `hdfsCloseFile` and return `XrdOssOK`.
   `OkMeansDone` says of the file they opened that it was there during the call, not
   that it was closed.

## Proofs

The theorems say `Spec => []P` or `Spec => [][A]_vars` and hold for all values of the
constants that satisfy the `ASSUME`s of the modules: any number of threads, users,
paths and buffers, any buffer, chunk and file size and any bounds. Two of them have
a hypothesis more, stated below. Each module has its own inductive invariants, built
on top of one another; the theorems named `...InvHolds` or `...Holds` establish them.

* **XrdHdfsFileProofs.** `BufferCoherent` is not inductive by itself: a step that
  moves `readbuf_offset` must be the loader's, and a copy out of the buffer must stay
  within it. The invariant is `Inv == TypeOK /\ LockHeld /\ LenFits /\
  BufferCoherent /\ PartialDelivered`: a thread that loads holds the mutex and
  there is a file name as long as it does; `readbuf_len` never exceeds
  `readbuf_size`; and what a loading `Read` has already copied to its caller are the
  bytes of the file just before `readbuf_offset`. From it: `TypeCorrect`,
  `BufferIsCopy`, `ReadIsCorrect`, `ShortOnlyAtEOF`, `LoaderIsAlone`. That files
  only grow under a reader is what keeps the copies valid.

  The write path has a second invariant on top, `RecordInv`: at most one `Close` is
  under way, there is a checksum state exactly while a file other than a checksum
  file is being written or such a `Close` has not recorded it yet, and the state has
  been fed at least what is in the file. From it: `RecordsAreOfClosed`.
  `WritesInPlace` and `DigestsFollow` have the hypothesis `[]OpenedOnce`: the object is opened
  at most once, as by XRootD, which makes an `XrdOssDF` for each open. `Open` does not reset
  `m_nextoff`, so they are false without it. Their invariant, `OnceInv`, adds that
  `m_nextoff` is the length of the file being written.
* **HadoopConnectProofs.** The invariant relates the two mutexes to the threads'
  positions (who is connecting holds `g_fs_mutex`, who will store holds
  `m_fs_mutex`), the map to the list of handles given out, and each answer to
  its user. The key step is that nobody else can add the user to the map
  between `FindUnknown` and `Connected`, so that `map::insert` never finds an old
  entry. From it: `TypeCorrect`, `HandlesKept`, `CallersSafe`, `CmsdShares`, and
  `Refinement`: every step of `HadoopConnect` is a step of `ConnectionCache` or
  leaves its variables alone.
* **XrdHdfsDirectoryProofs.** `Inv` adds to the two properties where `dirPos`
  stands: while the object is open, `dh` is the snapshot, `numEntries` its length,
  and `dirPos` the number of entries returned. From it: `TypeCorrect`, `ListsOnce`,
  `FreesOnce`, `StatMatchesEntry`.
* **ChecksumManagerProofs.** `FileInv`: a checksum file that is open is being written by
  the thread HDFS gave it to, no thread is about to write nothing, and, without
  failures, an empty checksum file is open; from it `NoEmptyFileLeft`. `SeenInv`, for the
  workloads in which HDFS takes what is written: the digests in checksum files, in what
  threads are about to record and in answers are of contents the file has had, or
  `Excused`, given to `Set` or cut by a failure; from it `AnswersAreOfContents`, with
  crashes, cut writes of checksum files and all interleavings. `NoMix`: all digests of a
  checksum file that the plugin computed, and all that one thread is about to write, are
  of one content; from it `NeverMixed`, for every workload. `SerialInv`, for the workloads
  whose operations follow each other: one thread is at work and holds all open files,
  what it will record is of the content the file has, or `Told`, and so is every record
  of a file that is there; from it `RecordsAreCurrent`. `KnownInv`, where everybody records
  all digests (`FullRecords`): so does what a thread is about to write, and every checksum
  file that is not empty has them all; with `FileInv`, `DelsOnlyWhileWritten`.
  `WorkloadsAssumption` says what a workload of operations that follow each other is: no
  failures, and any of the manager's own operations, `Del` and a `Calc` with `do_set` = 0
  among them; a namespace operation that changes the data file is not.
* **ChecksumStateProofs.** A lemma library about pieces of the stream (concatenation,
  prefixes, lengths), then three invariants: `BufferInv`, where the turn of the loop
  stands in its buffer and that the buffer is the last piece of the stream; `TileInv`,
  the property at every turn of the loop and not only between calls; `FedInv` and
  `FinalInv`, what each digest has been fed. From them: `TypeCorrect`, `ChunksTile`,
  `DigestsAreOfStream`, `GraftCovers`. `SizeBytes`, the bytes of the length that `cksum` appends, is
  a recursive function; that it exists and has its type is shown by a least
  counterexample (`SizesExist`, `SizesAgree`, `SizeBytesType`).
* **XrdHdfsSysProofs.** `SysInv` says for each thread that `retc` is `XrdOssOK` until the
  operation fails and then only the cleanup is left, that it is at a step its operation
  has, and that what it has seen of the path supports the answer it is about to give and
  the file it is about to close. From it: `TypeCorrect`, `OksAreTrue`, `EnoentIsTrue`,
  `MkdirsHadParent`. `OksAreTrue` has a lemma for every action that ends an operation; the
  longest is `RenameComes`, that what was at the old path is at the new one.
  `OpsAssumption` and `PathsAssumption` say that the operations are those of the class and
  the paths a tree.
* **XrdHdfsConfigProofs.** `ConfigInv`: while the file is read, `N2N_Lib` and `N2N_Parms` are
  those of the last directive and `the_N2N` is empty; after it, `the_N2N` is the one
  the file asks for. From it: `UpTranslates`, `TranslationStays`.
* **XrdHdfsBootstrapProofs.** `ScanInBuffer` is not inductive: that the last byte is 0 allows
  a string to end there, and `cur_pos` to move one past it. `BufferInv` says that the byte before it
  is 0 as well, since `fgets` is given `BUFSIZE-1`. From it: `ScanStaysInBuffer`.

  `ValuesArrive` needs the whole way of a byte. Positions in the output are counted
  without recursion: `Ends(g, k)`, where the record of variable `k` ends, is the
  cardinality of the set of cells printed up to there. `ChildInv` is about `safe_write`: `len` is
  what is left of the text, or -1 once a byte too many was written, since after an EINTR
  `len - result` is `len + 1`. A child that has written that byte is bound to fail, its next
  count being negative (`Bad`, which no step undoes). `StreamInv`: as long as the output fits one `fgets` and the child
  is not `Bad`, the line and the pipe together are the first `Sent` cells of the output, then
  the buffer holds all of it, `cur_pos` is where a record begins, and exactly the
  variables before it are set. `DoneInv`: `pclose` has waited for the child.
  `VarsAssumption` says that the names differ and a 0 byte is not part of a value.

Only model-checked: the liveness properties `SomebodyGetsThrough`, `ReadReturns`,
`BootstrapEnds` and `CloseReturns` (liveness is out of the prover's reach), and
`AnswersOwnFileOnce` of `NameTranslation`, whose proof has not been attempted.

## Not modelled

`loadJvm` (a search with `dlopen` whose result is ignored), log messages and error
texts, the arithmetic of the digests, memory exhaustion except for `readbuf`,
`Fstat`, `List`, `Size` and `Name` (they change nothing), and the translation plugin,
libhdfs and XRootD themselves, which appear only as what the code sees of them.
`Rename` and the checksum file it leaves behind are in different modules: a
digest that stays under the old name is covered for `Unlink`, `Truncate` and
`Create` only.

## Plan

Done: models and runs of all components but those listed above; proofs of every
safety property of the passing runs but one.

Next: a proof of `AnswersOwnFileOnce` for every translation that is the identity on its
own results.
