# A TLA+ model of gos3

gos3 downloads one object, or all objects under a prefix, from an S3-compatible
server: a HEAD request, range GETs by a bounded pool of goroutines into a
preallocated temporary file, retries with back-off, a checksum and a rename; above
it a second pool, of files, fed by a paged listing; around it signed requests,
redirects and a command line. This directory holds TLA+ modules translated from the
Go code, the TLC instances that check them and TLAPS proofs of what they check.

## The system

| Component (source) | State | Operations | Hard behaviour | What makes it correct |
|---|---|---|---|---|
| Object download (`downloader.go`, `writer.go`, `prealloc_*.go`) | temporary file, output path, chunks and their attempts, `firstErr`, `cancel`, slots of `sem`, `wg`, `totalWritten` | `Download`, `headObject`, `downloadSingle[WithRetry]`, `downloadParallel`, `downloadChunk[WithRetry]`, `verifyMD5`, `atomicRename` | goroutines writing one file, retries, cancellation by a sibling or by Ctrl-C, replies of the wrong kind or size, an object replaced in the middle, crash and power failure | the output path changes in one step, to the object that HEAD described; nothing is left over; the cause of an error is the one reported; every call returns |
| Progress reporting (`downloader.go`, `multi.go`, `main.go`) | `bytesCounter`, `lastReported`, `globalBytesCounter`, `liveBytes` | `countingReader.Read`, roll-back of a failed attempt, the `OnProgress` callbacks, the ticker | one counter and one callback used by all goroutines | the counter counts what was read, the aggregate counts it once, the display ends at the total |
| Prefix download (`multi.go`) | pool of files, results, `firstErr`, `cancel` | `DownloadPrefix` | fail-fast, one file failing while others run, interruption, a second run over the files of the first | nil means everything is there; an error is neither lost nor invented; a second run resumes |
| Object listing (`lister.go`) | page token, object and error channels | `ListObjects`, `listPage` | pages, back-pressure, cancellation inside a page | every object once, or an error |
| HTTP client (`client.go`) | redirect count, headers of the redirected request | `newHTTPClient`, `CheckRedirect` | multi-hop 307, signing again | Range survives, at most `maxRedirects` hops |
| Signing (`signer.go`) | signing-key cache | `signRequest`, `signingKeyCache.get` | concurrent misses, change of day | the key used is the key of the request's date |
| Credentials (`credentials.go`) | none | `LoadAWSCredentials`, `LoadAWSRegion` | order of sources | the first source in the order wins |
| Command line (`main.go`) | context, signal channel, ticker handshake, exit code | `main`, `runSingleDownload`, `runPrefixDownload`, `progressTicker` | Ctrl-C, the output removed on an error | exit code and files agree |

They interact by calls (`DownloadPrefix` calls `ListObjects`, then `Download` in
each goroutine), by the context (Ctrl-C cancels `main`'s, `DownloadPrefix` and
`downloadParallel` each derive one that they cancel on the first error), by
callbacks (`OnProgress`, called from every goroutine that reads) and by the file
system (a second run sees the files of the first).

## The modules

| Module | Models | Composed with |
|---|---|---|
| `AtomicDownload` | what `Download` promises about the output path: one step to a complete object, or nothing | abstract specification |
| `ObjectDownload`, `MCObjectDownload` | one call of `Download`, its goroutines, the server, the disk and restarts | implements `AtomicDownload` |
| `Progress`, `MCProgress` | the four counters, one atomic operation a step | |
| `OrderedListing` | what `ListObjects` promises its reader: the objects one by one in order, then the end, or an error | abstract specification |
| `ObjectListing` | the goroutine of `ListObjects`, pages, both channels, cancellation | extended by `PrefixDownload`; the two implement `OrderedListing` |
| `LocalPaths` | from a key to the output and the temporary path | extended by `PrefixDownload` |
| `PrefixDownload`, `MCPrefixDownload` | `DownloadPrefix`: consumer of the listing, pool of files | `ObjectListing`, `LocalPaths`; over `AtomicDownload`'s outcomes |
| `RequestSigning`, `MCRequestSigning` | requests of several goroutines: date, signing-key cache, signature, redirects | |
| `CliRun`, `MCCliRun` | one run of the program: sources, mode, signals, ticker, output, exit status | `INSTANCE AtomicDownload` |
| `ObjectDownload_proofs`, `Retries_proofs` | theorems about `ObjectDownload`, checked by TLAPS | `Retries_proofs` extends the other |
| `Progress_proofs`, `Counters_proofs` | theorems about `Progress`; sums over the chunks | `Counters_proofs` extends the other |
| `PrefixDownload_proofs`, `PrefixFiles_proofs` | theorems about `PrefixDownload` and the listing; about the keys whose files collide | `PrefixFiles_proofs` extends the other |
| `RequestSigning_proofs`, `CliRun_proofs` | theorems about these modules | |

The composition goes by promises. `ObjectDownload` is shown to implement
`AtomicDownload`; `PrefixDownload` and `CliRun` stand on `AtomicDownload`: `Install`
and `GiveUp` are the two outcomes of a `Download` that they know, as an instance in
`CliRun` and as `DownloadOk` and `DownloadFails` in `PrefixDownload`. In the same way
their fairness is what the layer below was checked for: that a `Download` by chunks
returns (`ParallelTerminates`), and that every `Download`, and `DownloadPrefix`, returns
after Ctrl-C (`CancelTerminates`, `CancelReturns`). That a `Download` of a small object
returns without Ctrl-C is false (`od_single_stall`), and is assumed nowhere.

### ObjectDownload

Data are cells: `Contents(v)` is the function from `0 .. Size[v] - 1` to the
pairs `<<v, i>>`, so that a cell tells which version of the object it belongs to
and where. A cell stands for a run of bytes that is written together; the sizes
in the instances are in cells, `ChunkSize` included.

`pc` is where `Download` stands: `head`, `prepare`, then `single`
(`downloadSingleWithRetry`) or `loop`/`acquire`/`wait` (`downloadParallel`: the
test of `ctx.Err()`, the send to `sem`, `wg.Wait`), then `verify`, `rename`, and
`ok` or `failed` when it has returned. `task` holds the goroutines launched, by
the offset of their chunk, each at `attempt` (request sent), `copying` (a reply is
being copied; `ver`, `lo` and `len` say what it holds, `n` how much was copied),
`backoff`, `done` or `failed`. The single GET is the task at offset 0.

| Action | Code |
|---|---|
| `HeadObject`, `HeadFails` | `headObject`, called once |
| `PrepareSingle`, `PrepareParallel` | `MkdirAll`, the choice by size, `preallocateFile` |
| `MkdirFails`, `AllocFails` | the error of `MkdirAll`, after which a stale temporary file stays; the error of `preallocateFile`, after which it is removed |
| `CheckLoop`, `Launch` | one turn of `downloadParallel`'s loop; the test comes before the wait for a slot |
| `RangeReply`, `FullReply`, `SingleReply` | 206; 200, which `downloadChunk` accepts too; the reply to the single GET |
| `CopyBlock` | one read of the body and one `WriteAt` of `SectionWriter`, past the end of the file if the reply is longer |
| `ChunkDone`, `SingleDone` | the copy ends; a chunk compares its length, the single GET does not |
| `AttemptRetried`, `AttemptsExhausted`, `AttemptAborted` | any failure of an attempt: status, connection, length, timeout, disk; with or without attempts left, or with the context done |
| `BackoffElapsed`, `BackoffCancelled` | the `select` of the retry loops |
| `WaitDone`, `WaitFails` | `wg.Wait`, `firstErr`, `f.Sync` |
| `VerifyOk`, `VerifyFails`, `Rename`, `RenameFails` | the end of `Download`; with `DiskFaults` the `os.Remove` of the temporary file (`RemoveTmp`) may fail, which the code ignores |
| `Interrupt`, `Overwrite`, `Restart` | Ctrl-C; another client replaces the object; a return or a crash and a second start, in which any set of cells not yet synced may be lost and the object may be another one by then |

The wrong body of a range GET (short, long, of another status) is either a `FullReply`,
whose cells matter because they are written, or just a failed attempt. A reply that breaks
off is `CopyBlock`s followed by a failed attempt. `downloadSingle` does not compare
lengths: its body is a whole version, which fails at line 184 when it is not of the size
HEAD gave; a body that ends early without an error and fails there too is not modelled. The sizes of two versions differ, so
a replaced object is also one that shrinks or grows under the download.

### Progress

One step is one atomic operation, or one access to `lastReported`, which is a
plain variable. A chunk's goroutine goes through `attempt` (about to load
`preAttemptCounter`), `read`, `report` (about to call `OnProgress` with the total
its own addition returned), in prefix mode `store`, `add`, `show`, and after a
failure `rollback` (between the load of `currentCounter` and the subtraction).
When a chunk has failed the others may go on, be cancelled, or not be launched:
`cancel()` comes some time after the failure. `mode` is the caller: `main.go`'s
store into `liveBytes`, or `multi.go`'s deltas; `pool` is `cfg.Concurrency`. Both are
chosen at the start and never change. A race on `lastReported` is a read
and a write of different steps; torn values are not considered (an `int64` on a
64-bit build).

### ObjectListing

A key is its place in S3's order; `bucket` is what is under the prefix, any subset of
`Keys`, and does not change while it is listed. `token` stands for the opaque
continuation token by the last key of the page before. `lister` is where the
goroutine is: `check` (`ctx.Err()` at the top of the loop), `request`, `send`, and
`closed` after the two deferred closes.

| Action | Code |
|---|---|
| `CheckContext` | the test at the top of the loop |
| `PageReply`, `PageFails`, `PageCancelled` | `listPage`: a page of the first `PageSize` keys after the token; any error; the error of a request whose context is done |
| `SkipMarker`, `SendObject`, `SendCancelled` | a directory marker is passed over; the `select` between the channel, when it has room, and the context |
| `PageDone` | the end, or the next turn of the loop, by `truncated` |

`errCh` has one place and is looked at only after `objectCh` is closed and drained,
which is `ListEnds` of `PrefixDownload`. The two closes are one step: nobody waits for
the first.

### LocalPaths

Keys, prefix and paths are sequences of segments. What the model keeps of the
`filepath` functions is that they drop empty and `.` segments, and of `TrimPrefix` that
the key of the prefix itself leaves nothing, for which the code takes the key's base.
A temporary path differs in its last segment, `.x.tmp` for `x` (`TempName`). Segments
`..` are not resolved. `KeysAssumption` of `PrefixDownload` is what S3 gives: keys that are
different and begin with the prefix. It does not give every key a path of its own, and the
code does not look. That each has one is the premise under which `PrefixDownload` keeps
one local file for each key; `PathsApart` checks it for the keys of the instance, and
`CollidingKeys`, below, says which keys do not meet it.

### PrefixDownload

`pc` is `start` (`MkdirAll`), `list`, `loop`, `acquire`, `wait`, `returned`; `file[k]`
is the goroutine of key `k`: `waiting` (not launched), `stat`, `download`, `failed` or
`canceled` (`Download` returned an error that is not recorded yet), and `skipped`, `ok`,
`error` when it has given its slot back. A local file is absent, of another size,
of the same size and the user's own (`lookalike`), `partial` (of the same size,
never finished) or the object. The rule of the code is to skip by size, so a
`lookalike` counts as complete; what the properties ask is that gos3 itself never
leaves a `partial` file there. `Restart` starts a second run at any moment.

| Action | Code |
|---|---|
| `Start` | the output directory is made, or not |
| `Listing` | a step of the goroutine of `ObjectListing` |
| `Receive`, `ListEnds` | the `range` over `objectCh`; then `errCh`, and the empty list |
| `CheckLoop`, `Launch` | the launching loop, in the order the objects came |
| `Skip`, `StartDownload` | `os.Stat` and the comparison of sizes |
| `DownloadOk`, `DownloadFails` | what `Download` returns |
| `RecordError` | the result, and with `FailFast` `firstErr` and `cancel()` under `mu` |
| `Return` | `wg.Wait` and the choice of the error |
| `Interrupt`, `Restart` | Ctrl-C; a return or a crash, and a second start |

### RequestSigning

Time is the day. A signing key is the pair of the secret and the day it was derived
from; a signature is what it covers. Each request is a goroutine that goes from
`new` through `lookup` (the read lock), `derive` and the store (the write lock), `sign`
and `sent` to `done` or `failed`, and back to `lookup` at each redirect; the
read-locked and the write-locked part of `signingKeyCache.get` are separate steps, so
that two goroutines and midnight come in between.

| Action | Code |
|---|---|
| `Create` | a request is made; `signRequest` reads the clock once and sets the `Host` header |
| `Lookup`, `Store` | `signingKeyCache.get`: the two halves |
| `Send` | the canonical headers and `Authorization` |
| `Redirected` | `net/http` makes the next request (new URL, empty `req.Host`, old headers), `CheckRedirect` counts, deletes and signs again |
| `Answered`, `Fails` | the headers of a final answer; `ResponseHeaderTimeout`, a lost connection or the context |
| `Midnight` | the date changes |

The behaviour of `net/http` in `NextRequest` is modelled from how `CheckRedirect` meets it.
A request is modelled up to the headers of its response. Reading the body has no deadline of
the client's; it is a copy in `ObjectDownload` and part of a page in `ObjectListing`.

### CliRun

`given` is what the program finds: the flags, the profiles of `~/.aws/credentials`, the
environment. Values are represented by their source: `id` and `secret` are the sources
from which the two halves of the credentials came. `pc` follows `main` down to the call of
`Download` or `DownloadPrefix`, and from `stop` (`close(stopTicker)`) over `join`
(`<-tickerDone`) to `report`, `leave` and `exited`.

| Action | Code |
|---|---|
| `ResolveCredentials`, `ProfileFails`, `ResolveRegion`, `ValidateFails` | the beginning of `main`, `LoadAWSCredentials…`, `LoadAWSRegion` |
| `Notify`, `Call` | `signal.Notify` and its goroutine; the ticker's goroutine and the call |
| `DownloadReturns` | `AtomicDownload`'s `Install` or `GiveUp`; in prefix mode any result |
| `StopTicker`, `JoinTicker`, `Draw`, `TickerEnds` | both sides of the handshake |
| `Succeed`, `Fail`, `Leave` | the summary; the error and `os.Remove` of the output; the exit status |
| `Signal`, `HandleSignal` | a signal kills the program until `Notify`; afterwards one is buffered and the handler takes one, and writes its line on the screen of `main` and the ticker |

## The runs

| Run | Shows | Bounds |
|---|---|---|
| `od_honest` | type and control invariants, the installed file, no litter, refinement of `AtomicDownload`, a failure needs more than `MaxRetries` failed attempts, a download by chunks returns, after Ctrl-C every call returns; with failing attempts, Ctrl-C, a crash and another object in the second start; HEAD and disk work | objects of 5 and 2 cells, chunks of 2: three chunks of which the last is short, or a single GET; 2 goroutines, so one chunk waits for a slot; 1 retry; 2 starts (160,000 states) |
| `od_checksum` | with every ETag checked the installed file is right although the object may be replaced at any moment, the server answers range GETs with 200, and HEAD and disk fail, `os.Remove` included | 3 and 2 cells, 1 replacement, 2 starts (465,000 states) |
| `pg_counters` | counter, aggregate and display exact with one goroutine at a time; counter exact and aggregate complete with two as long as nothing fails; the aggregate never goes back | 2 chunks of 2 reads, 1 or 2 goroutines, 1 retry, 2 failures |
| `pf_prefix` | the listing and `DownloadPrefix` together: refinement of `OrderedListing`, every object once or an error, paths apart, first error reported, pool bounded, nothing after the return, no partial file skipped, nil means all, all are tried, a second run resumes, `DownloadPrefix` returns unless the GET of the small object stalls, and after Ctrl-C it returns also from a page that never comes | every bucket of 4 keys, one of them a directory marker, one the prefix itself and one a small object; pages of 2, so two pages, a page of a marker only and an empty bucket; a channel of 1, so that the goroutine waits; 2 files at a time, with and without `FailFast`, 2 failures, Ctrl-C, 2 starts (303,000 states) |
| `rq_signed` | each hop is signed with its own date's key; every request ends, as far as its response's headers | 2 requests, with and without credentials, 3 hosts, 3 redirects, 2 midnights (72,000 states) |
| `cli_run` | source order, exit status and file agree, the ticker is silent once `main` reports, a signal ends the program | every combination of credential sources for a single file; every mode and region with full credentials; 2 signals (37,000 states) |

Three chunks with two goroutines are the smallest instance in which a chunk is
launched after another has finished or failed; two sizes are enough for an object
that shrinks and for one that grows; with one retry a task makes a first and a last
attempt; a second start is the first that finds the files of another. Two requests are
enough for a miss, a store and a hit to interleave, and two midnights for a key that is
older by more than one change; three redirects reach the limit after a chain of three
hosts; the second signal is the one that the handler no longer takes. No symmetry is
used: the instances are small enough without, and several of them check liveness.

Six runs show a disagreement between the code and what its documentation says:

| Run | What happens |
|---|---|
| `od_full_reply` | a range GET is answered 200: the whole body is written at the chunk's offset, past the end of the file, before the length is compared; a retry that gets a 206 makes the download succeed, with a file that is too long, when the ETag is not an MD5 |
| `od_single_stall` | nothing bounds the body of the single GET of a small object |
| `pg_rollback` | a failed attempt subtracts what other goroutines counted in the meantime |
| `pg_aggregate` | two callbacks read the same `lastReported` and add the same bytes twice |
| `rq_redirect` | after a redirect the signature covers an empty host: `CheckRedirect` deletes the `Host` header, `net/http` leaves `req.Host` empty in the request it makes for an absolute `Location`, and that is what `signRequest` takes ("Re-sign the request for the new host") |
| `pf_interrupt` | Ctrl-C while no `Download` runs: `DownloadPrefix` returns nil with objects it never tried |

Other disagreements are known and have no run of their own:

- A body that answers a range GET with 200 overwrites chunks that are already
  downloaded: with `FullReplies` the property `DoneChunksStable` is false too.
- `headObject` and `listPage` are not retried: one lost HEAD or page fails the
  download whatever `MaxRetries` is (`HeadFaults`, `PageFails`), while `src/README.md:14`
  promises retries for transient errors.
- With two goroutines the display may end below the total, because two callbacks store
  their totals in the other order (`DisplayComplete` without `pool = 1`).
- `main.go:193` removes the output path on every error of `Download`, so a failed HEAD
  deletes a complete file of an earlier run, which `AtomicDownload`'s `GiveUp` left alone
  ("renames it only upon successful completion", `src/README.md:16`). `RemoveOutput` has both
  outcomes of the `os.Remove`, and no property asks for either: `ExitTellsFile` is about
  the object of this run.
- `LoadAWSRegion` reads the environment before `~/.aws/config`; its comment has them in
  the other order. `RegionSource` has the code's.
- The key of the signing-key cache has no secret in it: two `Config`s with different
  secrets in one process get each other's signing keys. gos3 has one `Config`;
  `KeyOfDate` is checked with one secret, and is false with two.
- A directory marker with bytes in it, `m/` next to `m/m`; `p/a//b` next to `p/a/b`; a
  prefix without a final slash; a key `.a.tmp` next to `a`: two keys with one local
  path, or with one temporary path, which two goroutines write together. The instance has
  no such keys; `CollidingKeys` says which they are.
- A page that says it is truncated and has no token is asked for again without end.
- A second Ctrl-C is swallowed: the handler has taken the first and is gone, while
  `signal.Notify` stays in force.
- `rand.Int63n` panics with a `RetryBaseDelay` below 4 ns, which `validateConfig` accepts.

## Fairness

`FairSpec` of `ObjectDownload` assumes that Download's own goroutine goes on, that
a goroutine whose copy is complete notices, that a back-off timer fires, and that an
attempt that gets nowhere ends: a chunk's because of
`context.WithTimeout(ctx, cfg.ChunkTimeout)`, a single GET's only while it waits for
a header (`ResponseHeaderTimeout`, 30 s) or when its context is done. Nothing is
assumed of the server: replies and blocks need not come. All are weak fairness,
because none of these steps is ever disabled by another before it happens, except
by the end of the task; the slot of `sem` is waited for by one goroutine only.
`ParallelTerminates` is about objects that take range GETs, and about a process that is not
killed on the way; for the single GET the same claim, `Termination`, is false
(`od_single_stall`).

`FairSpec` of `PrefixDownload` assumes that its goroutines go on, the listing's included,
and that a `Download` returns when it goes by chunks (`ParallelTerminates`) or when its
context is done (`CancelTerminates`): `Bounded` in `FileProgress`. The single GET of an object
in `Small` is under no fairness, so it may stall for ever; `Returns` says that this is the only
thing `DownloadPrefix` can wait for without end: it returns if no small object's GET stalls.
Without that hypothesis TLC refutes it. Nothing is assumed of a page: `PageReply` is under no fairness, and
only a context that is done ends its request (`ListerStep`), which is why `Returns` begins
with the list at hand and `CancelReturns` does not.

`FairSpec` of `RequestSigning` assumes that goroutines go on and that the wait for an
answer's headers ends (`Fails`: `ResponseHeaderTimeout` is 30 s); no answer and no end of redirects is
assumed. `FairSpec` of `CliRun` assumes that `main`, the handler and the ticker go on; the
ticker sees a closed stop channel because the other case of its `select` is ready only
twice a second. A download is assumed to return only once its context is cancelled.

## What is proved

`ObjectDownload_proofs` proves, for every number of versions and every size, chunk
size, pool, retry count, number of replacements and of starts:

| Theorem | Statement |
|---|---|
| `ControlInvariant`, `TypeCorrect` | `Spec => []Control`, `Spec => []TypeOK` |
| `QuiescentTailHolds` | `Spec => []QuiescentTail` |
| `RootCauseHolds` | `Spec => []RootCause` |
| `NoLitterHolds` | `Spec => []NoLitter`, from `DiskFaults = FALSE`: a failing `os.Remove` leaves the file |
| `DoneChunksStableHolds` | `Spec => DoneChunksStable`, from `FullReplies = FALSE` |
| `InstallableInvariant` | `Spec => []Installable` |
| `AssuredInstalls` | `Spec => [](pc = "ok" /\ Assured => out = Contents(head))`: the installed file is right in every call in which the ETag is checked, whatever the server does, and in every call of an honest server |
| `OnlyVerifiedReplaces` | `Spec => [][out' # out => Replaced]_vars`: the output path changes only by the rename of a file that is counted, checked where it can be, and on disk |
| `InstalledIsHeadHolds` | `Spec => []InstalledIsHead`, from `Honest \/ AllChecked` |
| `AtomicInstallHolds` | `Spec => AtomicInstall` (the refinement of `AtomicDownload`), from `Honest \/ AllChecked` |

All of them use the assumptions on constants `SizeAssumption`, `ConfigAssumption` and
`SentinelAssumption`; the table names any further one. `Honest` says that range GETs
are answered with the range and the object is not replaced; `AllChecked` that the
checksum is not skipped and every ETag is an MD5. Without either, `InstalledIsHead` is
false: `od_full_reply` is the counterexample.

`Control` strengthens the type invariant by three conjuncts. `Phases`: what `pc` says
of `head`, of the way chosen and of the goroutines (outside `single`, `loop`,
`acquire` and `wait` every one has returned). `Launched`: the chunks launched start
below the object's size, at least `ChunkSize` apart, and end at or below `next`, which
is what makes their ranges disjoint. `Causes`: `cancelled` is set only after
`firstErr`.

`InstalledIsHead` is not inductive: that the totals agree says nothing of the file.
`HonestContent` adds what does. `Allocated`: the temporary file has exactly the
object's cells while the download goes on. `Copies`: what a copy has written is the
object's cells from the chunk's start on, and a finished chunk holds all of its range.
`Counted`: `totalBytes` is the number of cells in the finished chunks (`Covered`),
a cardinality because chunks finish in any order. When the totals agree, `Covered` is
a subset of the object's cells of the same cardinality, hence all of them, and with
`Copies` the file is the object. This argument is also why the unlaunched chunks of a
cancelled loop can never be installed, although `downloadParallel` reports no error
for them. `Installing` carries the result through `rename` for the calls that are
`Assured`, and says that nothing unsynced is left then, in any call, so that a crash
after the rename cannot change the file; the refinement follows from it step by step.

`DoneChunksStable` needs `Bounded`: the file has all the object's cells while chunks
are downloaded, and a reply being copied is no longer than its chunk. With `Launched`
it makes the cells written by two goroutines disjoint. A replaced object is allowed
here, a 200 in answer to a range GET is not.

`Retries_proofs` adds `TransientFaultsToleratedHolds`: `Spec => []TransientFaultsTolerated`
from `Honest` and `OnlyAttemptsFail` (`HeadFaults` and `DiskFaults` are `FALSE`). Its
invariant `Retries` says that every attempt after the first is paid for by a failed one
(`Charged`), that a goroutine that failed has said so (`Blamed`), that the chunks
launched leave no gap (`Tiled`), and that without a cancellation the file is checked
only with all chunks launched and done (`Reached`). Then `Covered` is the whole object,
`Counted` makes the totals agree, and the check of the size cannot fail: every failure is
`Explained` by an exhausted chunk.

`WithinBudgetHolds`, in the same module, is the other side and assumes nothing of the
server: `Spec => []WithinBudget`, at most `Concurrency` goroutines are active, no more are
launched than there are chunks, and the failed attempts of a run are at most
`MaxRetries + 1` for each. The invariant `Budget` counts them as the set `Tried` of pairs
of a chunk and a number, which grows by one pair when an attempt fails, and has
`Cardinality(DOMAIN task) * ChunkSize = next`. TLC checked `Budget` on the instances of
`od_honest` and `od_checksum`; it is in no run.

`PrefixDownload_proofs` proves for every set of keys, bucket, page size, channel capacity,
pool, number of failures and of starts, from `ListingAssumption`, `PrefixAssumption` and the
premise that keys have files of their own:

| Theorem | Statement |
|---|---|
| `ListsInOrderHolds` | `Spec => ListsInOrder` (the refinement of `OrderedListing`) |
| `ListedOnceHolds`, `ListingCompleteHolds` | `Spec => []ListedOnce` (no key arrives twice), `Spec => []ListingComplete` |
| `PrefixTypes` | `Spec => []TypeOK` (with the bound of the pool) |
| `QuietAfterReturnHolds`, `SkippedIsCompleteHolds`, `ErrorsReportedHolds`, `FirstCauseHolds` | `QuietAfterReturn`, `SkippedIsComplete`, `ErrorsReported`, `RootCause` |
| `OthersGoOnHolds`, `NilMeansAllHolds`, `ResumesHolds` | `OthersGoOn`, `NilMeansAll`, and the action property `Resumes` |

`ListInv` is about the listing. `Sorted`: what was received and what is in the channel are in
order, before what is left of the page and up to the token. `Lossless`: every object up to
the token was sent or is in the page, and a last page or a channel closed without an
error has all of the bucket before it. `Waited`: `DownloadPrefix` goes on only when the
listing has ended without an error and the channel is drained. That every nonempty set of keys has a
least and a greatest one is proved from finiteness. The refinement of `OrderedListing` maps what
was received followed by what is in the channel to `listed`; by `Sorted` and `Lossless` the least
key of the page is the least that has not arrived (`RestOfListing`), so a send is a `Deliver`,
and the last page leaves nothing (`Finish`). Pages, tokens and receiving are stutters. `FileInv` is about the files:
`Whole` (no path holds a `partial` file, and what is `skipped` or `ok` is complete), `Recorded`
and `Echo` (`firstErr`, `cancelled` and the fates of files), `AllTried`, `Quiet` and `Told`
(what is returned is `Outcome`).

`PrefixFiles_proofs` looks at that premise. `CollidingKeys`, from `KeysAssumption` and the fact
about strings that two names with one temporary name are equal (`OneTempName`), is about any
two objects none of whose segments is empty, `.` or `..` (`Odd` are the others): `Files(j)` and
`Files(k)` meet exactly if one of them is the prefix itself and the other is its base name under
the prefix (`BaseOf`), or one is called like the temporary file of the other, in the
same directory (`TempOf`). `Clean` leaves such keys as they are (`CleanPlain`), so two local paths
are equal only through `BaseOf` (`LocalPathsApart`), and a local path is the temporary
path of another only through `TempOf` (`TempPaths`). A check before the launching loop would have to
look for these two cases and for odd segments, and for nothing else.

`Progress_proofs`, for every number of chunks, reads, retries and failures, from
`ProgressAssumption`: `ProgressTypes`; `AggregateMonotoneHolds`, for any number of goroutines (a delta
is added only when it was positive); `AggregateBoundedHolds` and `DisplayCompleteHolds`, which
are about one goroutine at a time. Their invariants are `Solo` and `Accounts`: at most one
goroutine runs, and the counter is `ChunkUnits` times the number of finished chunks plus what the
one that runs has read. With one goroutine a cardinality does what a sum would.

`Counters_proofs` is about any number of goroutines as long as nothing fails, and one at a time
whatever fails: `CounterMatchesHolds` and `AggregateCompleteHolds`. A sum over the chunks is
written as the cardinality of the set of pairs below it (`Below`), because induction over the
set is not available: `BelowPut` says what a change of one summand does, `BelowFull` what
the sum is at its greatest. `Counted` has the counter equal to what was read (`UnitsRead`,
as `CounterExact` states it). `Flow` is what makes the aggregate complete although
`lastReported` is raced for: every byte counted is in the aggregate, or in the delta that some
goroutine is about to add (`Pend`), or still to be reported by the goroutine that holds the
newest total (`NewestDue`). Bytes can be added twice, which `pg_aggregate` shows, but not lost.

`RequestSigning_proofs`, for every number of requests, hosts, secrets, redirects and days, from
`SigningAssumption`: `RequestInvariant`, `RequestTypes` (with the limit of redirects),
`OnlyFirstHostSignedHolds` (the first request is signed for its host, every later one for the empty
host and so never for the old one), and `KeyOfDateHolds` from `OneSecret`. The cache may hold the key of any
day; what the invariant says is that its date and its key belong together.

`CliRun_proofs`, for every set of `Givens` and number of signals, from `CliAssumption` and
`GivenAssumption`: `RunTypes`, `ExitTellsFileHolds`, `TickerSilentHolds` (the ticker is done from `report`
on) and `SourceOrderHolds`.

Only model-checked: the liveness properties (`ParallelTerminates`, `CancelTerminates`,
`Returns`, `CancelReturns`, `RequestsEnd`, `SignalEnds`); liveness under fairness is outside
the prover's reach. And `PathsApart`, which is a fact about the keys of the instance. Every
other invariant, action property and refinement that a passing run checks has a theorem.

## Not modelled

- A bucket that changes while it is listed or between two runs; pages whose token is
  missing.
- The connection pool, the log of redirects, and that the Range header survives a
  redirect (both `net/http` and `CheckRedirect` copy it).
- The canonical request beyond host and date, `SessionToken` (read from the file, used
  nowhere), the syntax of `~/.aws` files.
- The statistics of `MultiResult`, the aggregate over several files and the size that a
  skipped file adds to it; the text of the summary, which says "Prefix download
  complete!" (`main.go:267`) also when files failed.
- The delay of a retry: a timer that fires, at any moment.
- Contents of HTTP messages, URL building and formatting: pure functions of strings.
- `GOMAXPROCS` from the cgroup quota, the buffer pool, connection tuning: they
  influence speed only.
- A power failure that undoes the rename itself: the directory is not synced, so the
  old file may come back; `AtomicDownload` would allow it, and `Restart` does not do it.
- A temporary file found by a run whose HEAD fails is left there; `NoLitter` therefore
  speaks of calls that got as far as knowing the object.
- The body of a single GET that ends early without an error.
- What a second signal would be needed for: a download that does not return when its
  context is cancelled.

## Plan

Done, in this order: `AtomicDownload`, `ObjectDownload` with its runs and first
theorems, `Progress`, `PrefixDownload`; then `ObjectListing` and `LocalPaths` composed with
it, `RequestSigning` (with the redirects), `CliRun` (with the order of the sources), and the
theorems of all of them.

Next:

1. `RetryDelay`: the delay of `downloadChunkWithRetry` in 64 bits as pure operators over bounded
   inputs, with the delays that make `rand.Int63n` panic.
2. `Progress` over several files of one `DownloadPrefix`: one aggregate, one `lastReported`
   per file, and the size of a skipped file.
3. A bucket that changes while it is listed, against "every object that was there all
   along, once".
4. A measure that every step of Download's own goroutines decreases, as the part of
   `ParallelTerminates` that can be proved.
