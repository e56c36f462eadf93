# A specification of portal-plugin-lbry

The plugin makes a portal speak LBRY: it keeps streams (an *SD blob* that lists
*content blobs*), serves them to peers, and takes uploads over HTTP and over
LBRY's reflector protocol. This directory models it in TLA+: the reflector's upload
path, the permanent blob store, uploads and pin requests of the HTTP API, and the
devices that decide whose an upload is. Small instances are checked with TLC and the
main properties are proved with TLAPS.

## 1. The system

| Component | Source | State | Operations |
|---|---|---|---|
| Reflector store | `internal/protocol/reflector_store.go` | temporary storage of each user | `PutSD`, `Put`, `Has`, `Get`, `Delete` |
| Pending uploads | `internal/service/upload/upload.go` | `lbry_pending_streams`, `lbry_pending_blobs` | `StorePendingStream`, `MarkPendingBlobAsReceived`, `GetMissingBlobs`, `GetPendingBlobCount`, `CleanupPendingBlobs` |
| Reflector assembly | `internal/protocol/op_reflector_assembly.go` | the runs of its workflow | `Execute`, retried by the portal |
| Blob store | `internal/protocol/blob_store.go` | `lbry_streams`, `lbry_stream_blobs`, `lbry_blobs`, object storage | `PutSD`, `Put`, `Has`, `Get`, `Delete`, `List` |
| Stream pins | `internal/service/upload/upload.go`, `internal/protocol/stream_processor.go` | `lbry_stream_pins`, the portal's uploads and pins | `ProcessUpload`, `CreateStreamPin`, `DeleteStream`, `ListStreams` |
| Devices, access control | `internal/service/devices/device.go`, `internal/protocol/protocol.go` | `lbry_devices` | create, update, rename, delete, look up by IP |
| Direct and TUS uploads | `internal/protocol/op_post_upload.go`, `upload_processor.go`, `tus_upload_processor.go` | the runs of their workflows, the file each was sent | `HandleUpload`, `Execute`, `Cleanup` |
| Retrieve (pin) workflow | `internal/protocol/op_retrieve.go` | the runs of its workflow | `Execute` |
| HTTP API | `internal/api` | none | handlers around the services |

**Interaction.** A reflector client opens a connection; its IP address names a
device and the device a user. The protocol server (a library) calls
`ReflectorStore.PutSD` for an SD blob and `Put` for each content blob. `PutSD`
writes the pending rows and starts a workflow; `Put` writes temporary storage and
marks the pending row received. A run of the workflow rebuilds the SD blob from
the pending rows, publishes it in the blob store, copies each content blob from
temporary to permanent storage, writes the portal's upload and pin records and
the stream pin, soft-deletes the pending rows and deletes the temporary data.
Anything that fails makes the portal execute the run again from its start. An upload
over HTTP is kept as a file; its workflow cuts the file into blobs, stores them one
by one, publishes the SD blob and pins the stream. A pin request's workflow fetches an
SD blob from the network, publishes it and pins it in the same way. The components
share the database and two storages and nothing else: no lock is held from one call to
the next.

**What makes it hard.** Connections, runs and users' API calls interleave between
any two transactions. One `PutSD` is five separate effects and one run about ten,
each of which may be the last before an error or a crash. Every delete is a soft
delete, so rows outlive their uploads and keep their place in the unique keys.
Rows, temporary data and permanent data are shared: by the runs of one upload, by
two streams of a user with a blob in common, by two users with a stream in common.
The list of hazards, each at its line, is in `PROJECT.json`.

**What makes each component correct.**

- Reflector store: a receipt is given only for data that is kept; an accepted SD
  blob is worked on.
- Pending uploads: a received flag is never taken back; cleanup removes what the
  finished stream owns and nothing else; no row is left that no cleanup will find.
- Assembly: it takes temporary data away only after it is stored, ends a pending
  stream only after it is pinned, tolerates being repeated at any point, and
  finishes once it has what it needs.
- Blob store and pins: a pinned stream has all its data, all its user's pins and an SD
  blob that can be read, unless another stream lists one of its blobs under another IV.
- Devices: an address names one device, and a connection one user throughout.
- Retrieve and direct uploads: a pin appears only over a stream that is there.

## 2. The modules

```
StreamCatalog                 users, streams, blobs; soft-deleted rows
 |- PendingUploads            lbry_pending_streams, lbry_pending_blobs
 |   `- ReflectorStore        connections: PutSD, Put; temporary storage
 |- BlobStore                 lbry_streams, lbry_stream_blobs, lbry_blobs, objects
 |   |- StreamPins            the portal's pins, lbry_stream_pins
 |   |   `- StreamWorkflows   uploads and pin requests of the HTTP API
 |   `- BlobStoreCalls        callers of Put, PutSD, Delete, Has and Get
 |- ReflectorAssembly         runs; extends ReflectorStore, BlobStore, StreamPins
 |   `- ReflectorUpload       the reflector's upload path: Spec, properties, fairness
 |- Devices                   lbry_devices and the transactions open on it
 |   `- DeviceUploads         connections, with PendingUploads: whose is an upload
 |- UploadCustody             abstract specification, implemented by ReflectorUpload
 `- BlobShelf                 abstract specification, implemented by BlobStoreCalls;
                              the part that only puts, by ReflectorUpload and
                              StreamWorkflows
```

There are four specifications, one for each question: `ReflectorUpload`,
`BlobStoreCalls`, `StreamWorkflows` and `DeviceUploads`. Each has a module `MC...` with
constants for TLC. The proofs are in `StreamCatalogFacts`, `PendingUploadsFacts` and
`BlobStoreFacts` (lemmas on the operators that the specifications share),
`ReflectorUploadPending` (types and pending rows), `ReflectorUploadSafety` (data, pins
and the abstract specifications), `BlobStoreCallsProofs`, `StreamWorkflowsProofs` and
`DeviceUploadsProofs`.

**Actions and code.** A module with variables of its own defines operators that
are one transaction or one storage call of its component (`UpsertPendingStream`,
`ProcessStreamBlobs`, `CreateStreamPin`, ...). The modules with processes call them
one at a time: `conns[c].step`, `runs[w].step`, `calls[c].step`, `work[w].step`,
`peers[p].step` and `requests[q].step` say which call comes next. So every action is
atomic exactly where the database or the storage is, and other processes may act
between any two.

| In the model | In the code |
|---|---|
| **ReflectorUpload** | |
| `PutSDAlreadyPending`, `PutSDNotPending` | the check and early return of `PutSD`, 51-59 |
| `PutSDStream`, `PutSDBlobs`, `PutSDTerminating` | the three transactions of `StorePendingStream` |
| `PutSDWorkflow` | `StartWorkflow` and the return |
| `PutTemporary`, `PutMarkReceived`, `PutMarkRejected` | the two halves of `Put` |
| `RebuildSDBlob`, `CheckMissing`, `CheckCount` | `checkAndAssembleStream` |
| `AddStream` ... `AddBlobRow` | `AddSDBlob` and the copying loop of `assembleStream` |
| `PinNextBlob`, `PinStream` | `ProcessStreamResult` |
| `Cleanup`, `DeleteTemporary`, `DeleteTemporaryFails` | the end of `assembleStream` |
| `CallFails`, `RunFails` | any `return err`, a dropped connection, a crash |
| `UserDeletesStream` | the API's delete, `DeleteStream` |
| **BlobStoreCalls** | |
| `PutSDStream`, `PutSDBlobs`, `PutSDRejected` | `PutSD`: the upsert, `processStreamBlobs`, its failing reload (381) |
| `PutObject`, `PutRow` | `putBlobData` |
| `CallDelete`, `DeleteData`, `DeleteRow` | `Delete` |
| `FindStream`, `GetStream`, `GetStreamBlobs`, `GetBlobRow`, `CheckSDBlob` | `isSDBlob`, the queries of `buildBlobInfosFromDb`, the hash check of `getSDBlob` |
| `FindBlobRow`, `GetObject` | `getRegularBlob`, and `Has` |
| **StreamWorkflows** | |
| `HandleUpload`, `StartUpload`, `RefuseUpload` | `handleStreamUpload`: the file is kept, the workflow starts or does not |
| `OpenSource`, `AddChunkObject`, `AddChunkRow` | `ProcessStreamUpload` up to `CreateStream`, with its chunk handler |
| `HandleStreamPin`, `AcquireSDBlob` | `handleStreamPin`, the first step of the retrieve operation |
| `AddStream`, `AddStreamBlobs`, `PinNextBlob`, `PinStream` | `AddSDBlob` and `ProcessStreamResult`, of both |
| `Finish`, `Cleanup` | the end of `Execute`, `Cleanup` |
| `UploadFails`, `RetrieveFails` | any error or crash; `newRetryStep` |
| **DeviceUploads** | |
| `CreateDeviceCheck`, `CreateDeviceInsert`, `CreateDeviceCommit` | the transaction of `CreateDevice` |
| `UpdateDeviceCheck`, `UpdateDeviceCommit` | the transaction of `UpdateDevice` |
| `DeleteDevice`, `RollBack` | `DeleteDevice`; any error in a transaction |
| `Connect` | `accessControl.Allow` |
| `PutSDUser`, `PutSDDevice`, `PutUser`, `PutDevice` | the lookups of user and device in `PutSD`, `Put`, `markBlobAsReceived` |
| `PutSDPending` ... `PutSDStart`, `PutTemporary`, `PutMark`, `PutMarkRejected` | the rest of both calls |

**Abstractions.** Those of the catalogue are the same in every module.

- A stream is its SD hash, and the SD blob fixes what it lists: the blobs, their numbers
  and, as `IV[s][b]`, the IV under which it lists each. A pending row has a number and a
  stream of its own, because it may belong to the wrong one. Stream hash and SD hash are
  one name. A stream row has its terminating blob or not.
- A row of `lbry_blobs` has the IV that was written last, whichever stream it came from,
  or none (section 5 says what that means for two streams that list one blob). A pending
  row's IV goes with its stream: `createPendingBlobsFromSDBlob` writes both at once.
- The size in a blob's row is left out: the `Length` that an SD blob gives is taken to be
  the length of the blob's data. `Put` and `MarkPendingBlobAsReceived` write the latter
  and `PutSD` the former, so an SD blob that gave a wrong `Length` would stop matching its
  hash when the data comes; such SD blobs are not modelled.
- A rebuilt SD blob matches its hash when it lists the right blobs at the right
  numbers and its terminating blob. The two sort profiles are left out.
- A row is "none", "live" or "deleted". An upsert leaves "deleted" as it is, as no
  `DoUpdates` of the code names `deleted_at`; only `ensureActivePin` restores a row.
- After an upsert the code knows the id of the row, as with SQLite's `RETURNING`.
  What MySQL's driver reports after an upsert that updates is outside `src/`.
- A run reads its pending stream three times; that is one lookup here, because a
  stream that the last lookup finds was live at the ones before, and the columns
  read do not change except `terminating_blob_number`, which is only ever set.
  `Has` and `Get` of a temporary blob are one read: a blob that is gone at `Get`
  fails the run as it would at `Has`.
- SQLite and MySQL differ in two constraints, given as the constants
  `UniqueBlobNumber` (SQLite's `UNIQUE(user_id, stream_id, blob_number)`, which
  MySQL's second migration drops) and `ForeignKeys` (enforced by MySQL).
- In `ReflectorUpload` a connection belongs to one user, `ConnUser`. That a call keeps
  the user it found, whatever happens to devices, is the subject of `DeviceUploads`
  (`UploadStaysWithUser`); a connection that changes hands between calls is, for
  `ReflectorUpload`, two connections.
- In `DeviceUploads` a started workflow is the pair of user and SD hash it is given;
  what it does is in `ReflectorUpload`. A device is an id, an owner and an address;
  ids are given out in order. SQLite and MySQL differ in `SnapshotReads`: a MySQL
  transaction reads a snapshot and its plain `SELECT` locks nothing, where SQLite's
  transactions that write take turns (a second one that gets in the way fails, and
  `RetryableComponentTransaction` runs it again).
- In `StreamWorkflows` each attempt of an upload makes another stream of other blobs,
  because `CreateStream` draws fresh keys: `Makes` lists them. Workflows do not touch
  pending rows or temporary blobs, and the reflector's assembly does not share streams
  that are made here, so the two are specified apart; what they share, the blob store,
  is `BlobStoreCalls`, where callers may do anything in any order.
- `AcquireSDBlob` is a library call that finds an SD blob in the portal's own store or
  at peers. When the portal calls `Cleanup` is up to the portal: after the workflow is
  done, at any time.
- Progress tracking, logging, and reads that change nothing are left out.

**The abstract specifications.** `UploadCustody` says what the portal promises about
data without saying how: a blob lies in its sender's inbox until it is stored; a
receipt is given only for a blob that is in the inbox or stored; storage takes only
what was sent and never loses it; the inbox lets go only of what is stored; a
stream is pinned only when all of it is stored. `ReflectorUpload` implements it with
temporary storage as the inbox, received flags as receipts, object storage as the
store and live stream pins as pins; all other steps are stuttering.

`BlobShelf` says what the permanent store is to a reader: a set of blobs that are
served and a set of SD hashes that are readable. A blob may be withdrawn and served
again, but one that is *retired* never is, and takes with it every SD blob that lists
it. An SD blob that is *published* is readable from then on and displaces those that
clash with it: that list a blob of it under another IV. One that was displaced may come
back with it if it gives the shared blobs the same IVs. Nothing else makes an SD blob
unreadable. `BlobStoreCalls` implements it with "row and object" as served, "row
soft-deleted" as retired, "row and associations there" as published and "every row with
the stream's IV" as readable. Retirement for good is what the code does: no upsert of a blob
restores a deleted row, so a blob that is deleted and put again is stored and not
served. `ReflectorUpload` and `StreamWorkflows` never delete a blob, and implement
`PutsOnlySpec`, a shelf from which nothing is withdrawn or retired. The mapping, `Shelf`, is in
`BlobStore`, because it is the same for the three.

## 3. What TLC checks

Times are a few seconds to two minutes.

| Run | Instance | Checked |
|---|---|---|
| `reflector_shared` | one user, two connections, streams `<<b1,b2>>` and `<<b2>>` that list `b2` under two IVs, one run each, faults | `TypeOK`, `IInv`, `PendingInv`, `NoReceivedBlobLost`, `ConstraintsHold`, `TempKeptUntilStored`, `ReceivedNeverReverts`, `PendingKeptUntilPinned`, `KeepsCustody`, `OnlyPutsOnShelf` |
| `reflector_race` | one user, two connections, one stream of two blobs, two runs of it, faults | `PinnedStreamComplete`, `NoStrandedRows`, `ReceivedHasData`, `RunsNotBlocked`, `CompleteUntilPinned`, `CompleteIsAssembled` |
| `reflector_reliable` | as `reflector_race`, without faults | `AckedIsServed`, `ServedInv` |
| `reflector_completes` | one user and connection, one stream of two blobs, two runs, faults, MySQL's constraints | `UploadCompletes`, `ConstraintsHold` |
| `reflector_one_run` | two connections send one SD blob | violates `OneRunPerUpload` |
| `reflector_lost_start` | one connection, faults | violates `AckedIsServed` |
| `reflector_ready` | one connection | violates `ReadyMeansReceived` |
| `reflector_again` | one connection, two runs of one stream | violates `StoredStreamIsPending` |
| `blob_store` | two callers, streams `<<b1,b2>>` and `<<b2>>` that list `b2` under two IVs, faults | `TypeOK`, `IInv`, `PutIsServed`, `GetFailsForCause`, `ReadableUntilDisplaced`, `KeepsShelf` |
| `stream_workflows` | an upload of two attempts, a second user's pin request for the stream it makes, the uploader's pin request for a stream peers have, faults | `TypeOK`, `IInv`, `PinnedStreamReadable`, `PublishedIsStored`, `WorksNotBlocked`, `WorkflowsFinish`, `OnlyPutsOnShelf` |
| `device_uploads` | SQLite; two users, two addresses, two devices, two requests, one peer, one stream of one blob and a blob of no stream, faults | `TypeOK`, `IInv`, `OneDevicePerAddress`, `UploadStaysWithUser`, `AddressKeepsOwner`, `RevokedUsersKeepOut` |
| `device_unique` | the same on MySQL | violates `OneDevicePerAddress` |

**What the passing runs show.** Whatever interleaves, fails or is repeated:

- `PinnedStreamComplete`: a stream that a user has or had pinned can be served: each blob
  has row and data, the user has the portal's pins, and its SD blob is rebuilt under its
  hash, unless another stream that is there lists one of its blobs under another IV
  (`Published`).
- `NoReceivedBlobLost`, `TempKeptUntilStored`, `KeepsCustody`: data that the portal
  says it received is never lost on the way, although two streams' cleanups and two
  runs share it.
- `ReceivedNeverReverts`, `PendingKeptUntilPinned`: pending state only moves
  forward, and only the upload's own assembly ends it.
- `NoStrandedRows`, `ReceivedHasData`: for a blob that only one stream lists
  (`Unshared`), rows end with their streams and point to data that is there. For a blob
  that two streams of a user list both are false: the second SD blob takes the row over,
  even into a stream that is assembled already, and the first one's cleanup deletes the
  data.
- `ConstraintsHold`: the key of user, stream and number (SQLite, `reflector_shared`) and
  the foreign key on `stream_id` (MySQL, `reflector_completes`) refuse one write of a
  pending row only, the insert of an early blob, which the code prepares for
  (`CanInsertEarlyBlob`): `StorePendingStream` gives a blob the number its SD blob has for
  it, which no other row of that stream has, and a row never outlives the row of the
  stream it names. It says nothing of the foreign key on `device_id`, which on MySQL
  refuses a mark without a device; that is `CanMark` of `DeviceUploads`.
- `OnlyPutsOnShelf`: an assembly, upload or pin request, however often it starts over,
  makes no blob unreadable for a moment, and no SD blob but those that clash with the one
  it publishes, although the stream's row is written before the rows of its blobs and both
  are written again by every attempt. In `reflector_shared` the two streams clash and each
  run displaces the other's SD blob; in `stream_workflows` no blob is listed twice.
- `CompleteUntilPinned`, `CompleteIsAssembled`: an upload that has all come
  (`AllReceived`) stays so until it is pinned, and from then on no test of
  `checkAndAssembleStream` or `assembleStream` sends a run of it back to its start; only a
  failing call does. Both are about a stream that shares no blob (`SharesNoBlob`): where
  two streams list one, the first can lose the row, or its data, to the second.
- `RunsNotBlocked`: the guards of a run that stand for an error of the code hold where the
  run needs them: the SD blob that is rebuilt is the one that was sent, also after an early
  blob's row was given its number late; the transaction of `PutSD` meets no deleted blob
  (an upload deletes none; what a `Delete` does to a later `PutSD` is in
  `BlobStoreCalls`); and `CreateStreamPin` finds the stream.
- `UploadCompletes`: an upload with all its data and a run is pinned in the end.
  Again for a blob that only one stream lists: where two do, the stream whose row
  was taken over waits for good.
- `AckedIsServed`: without failures, the shortcut of `PutSD` is right; `ServedInv` says
  why: a pending stream has a run, or the call that made it pending is about to start one.
- `PutIsServed`: a blob that was accepted is served until somebody calls `Delete`, also
  when `PutSD` knew the blob before its data came or another `Put` of it failed half way;
  an SD blob that was accepted can be read until then, unless a clashing one is there.
- `GetFailsForCause`: an SD blob is read in several queries without a transaction. A
  `Get` that began when the SD blob was readable fails only if a blob of the stream is
  deleted or a clashing SD blob is there; what it mixes together is otherwise never wrong.
- `ReadableUntilDisplaced`, `KeepsShelf`: see `BlobShelf`. A blob's IV survives a `Put`
  that brings none; a `PutSD` makes an SD blob unreadable only if the two clash, and then
  its own is the one that can be read.
- `PinnedStreamReadable`, `PublishedIsStored`: no failed or repeated attempt, no other
  user's workflow and no unpinning leaves a pin over a stream that is not published, or
  a published stream of this portal without its data. For streams of peers the second
  is not promised: a pin request stores the SD blob and pins the content blobs, and
  nothing in `src/` fetches or waits for their data.
- `WorksNotBlocked`: what a step of a workflow needs is never gone for good: an upload's
  file is there for each attempt, the stream of a pin is there, no blob of it is deleted;
  and a workflow that reports success has pinned its stream.
- `WorkflowsFinish`: every upload's workflow that was started ends with the stream
  pinned, and so does a pin request's if peers have the stream, once failures end.
- `AddressKeepsOwner`, `OneDevicePerAddress`: on SQLite nobody takes an address over.
- `UploadStaysWithUser`: a call that began for a user ends for that user, although the
  device is deleted, moved or replaced between its two lookups.
- `RevokedUsersKeepOut`: an open connection is no way in for a user without a device.

**What the violated ones show.** Each states what a comment says, quoted in
`PROJECT.json`, and TLC finds a run of the code against it: two workflow instances
for one upload; an upload with none, after a failed `PutSD` and its retry; a stream
that passes for complete before any blob has come; a second upload of an assembled
stream that is accepted into deleted rows; one address registered twice, on MySQL. On
MySQL the other properties of `device_uploads` that do not rest on unique addresses
(`UploadStaysWithUser`, `RevokedUsersKeepOut`) hold as well; that is proved.

**Bounds.** `MaxRuns` is the number of workflow runs that can be started for one
upload; a `PutSD` begins only while one is left for it. It is the only counter of
`ReflectorUpload`. Two runs are enough for every race between runs, as each interacts with the others
through shared rows and storage only. Two blobs make a loop that can fail half way;
two streams with one blob in common make the sharing; in `<<b1,b2>>` and `<<b2>>`
the shared blob has a different number and a different IV in each, so a row taken over or
overwritten is seen. (With equal IVs the streams do not clash, which is the easier case:
`~Clash` then makes every property say plainly that the SD blob is readable.)
Two connections make each race of two calls, and with a run in the background three
actors.

`MaxDevices` bounds the rows ever inserted in `lbry_devices`: with two, a device can
be registered again at an address whose device was deleted or moved away; three give
no further kind of step (with one blob, that instance passes too, in about five
minutes). The blob of no stream is there for SQLite's one early blob per user: a
second one is refused. `Makes` bounds the failures of an upload by the streams it may
make: two attempts are a failure at any point and a success after it. `Callers` are
two: a reader and a writer, or two writers, of streams that share a blob.
`HandleStreamPin` may repeat without bound.

Symmetry is used where no property names the elements: connections, callers, users and
requests of the device API; not where liveness is checked.

**Fairness.** `WF_vars(RunProgress(w))` for each run: a workflow's only step is a
`RetryStep` (`protocol.go`, 241-247), so the portal executes a run again until it
succeeds. `UploadCompletes` assumes `FaultsEnd`: from some point on, no run fails by a
fault. A run that starts over because its stream is not ready or a blob is missing is
no fault (`Faulty` leaves out what `RunProgress` explains) and is not excluded.
`StreamWorkflows` has `WF_vars(UploadProgress(w))` and `WF_vars(RetrieveProgress(w))`
for the same reason: each of its workflows is one `RetryStep` (`protocol.go`,
249-277). Its `FaultsEnd` is about pin requests; an upload's failures are bounded by
`Makes`. Nothing is assumed of clients, users, `StartUpload` or `Cleanup`. A run that
waits for data that never comes waits for good, as in the code, and so does a pin
request for a stream that nobody has.

## 4. What is proved

For every value of the constants that the named assumptions allow: any users, streams,
contents, connections, callers, addresses, any bounds, both databases, with and without
faults. `OneDevicePerAddress` and `AddressKeepsOwner` need `~SnapshotReads`, which the
theorems assume; `device_unique` shows that they do. `AckedIsServed` needs
`Faults = FALSE` in the same way, and `reflector_lost_start` shows that it does.
The two `PinnedStreamsReadable` assume that no two SD blobs list a blob under different
IVs; `KeepsShelf` and section 5 say what happens otherwise. Streams may share blobs, under
any IVs, in all the others.

| Theorem | Module | States |
|---|---|---|
| `TypeCorrect` | `ReflectorUploadPending` | `Spec => []TypeOK` |
| `PendingInductive` | `ReflectorUploadPending` | `Spec => []PendingInv` |
| `SchemaConstraints` | `ReflectorUploadPending` | `Spec => []ConstraintsHold` |
| `RowsEndWithStreams` | `ReflectorUploadPending` | `Spec => []NoStrandedRows` |
| `ReceivedRowsHaveData` | `ReflectorUploadPending` | `Spec => []ReceivedHasData` |
| `ServedInductive` | `ReflectorUploadPending` | `Spec => []ServedInv` |
| `AcceptedIsServed` | `ReflectorUploadPending` | `Spec => []AckedIsServed` |
| `Inductive` | `ReflectorUploadSafety` | `Spec => []IInv` |
| `PinnedStreams` | `ReflectorUploadSafety` | `Spec => []PinnedStreamComplete` |
| `PinnedStreamsReadable` | `ReflectorUploadSafety` | without clashes, what was ever pinned is `SDBlobReadable` |
| `ReceivedBlobs` | `ReflectorUploadSafety` | `Spec => []NoReceivedBlobLost` |
| `TempDeletion` | `ReflectorUploadSafety` | `Spec => TempKeptUntilStored` |
| `ReceivedForGood` | `ReflectorUploadSafety` | `Spec => ReceivedNeverReverts` |
| `PendingEnds` | `ReflectorUploadSafety` | `Spec => PendingKeptUntilPinned` |
| `CompleteStays` | `ReflectorUploadSafety` | `Spec => CompleteUntilPinned` |
| `CompleteAssembles` | `ReflectorUploadSafety` | `Spec => CompleteIsAssembled` |
| `NotBlocked` | `ReflectorUploadSafety` | `Spec => []RunsNotBlocked` |
| `CustodyKept` | `ReflectorUploadSafety` | `Spec => KeepsCustody` |
| `OnlyPuts` | `ReflectorUploadSafety` | `Spec => OnlyPutsOnShelf` |
| `TypeCorrect`, `Inductive` | `BlobStoreCallsProofs` | `Spec => []TypeOK`, `Spec => []IInv` |
| `PutsAreServed` | `BlobStoreCallsProofs` | `Spec => []PutIsServed` |
| `GetsFailForCause` | `BlobStoreCallsProofs` | `Spec => []GetFailsForCause` |
| `StaysReadable` | `BlobStoreCallsProofs` | `Spec => ReadableUntilDisplaced` |
| `ImplementsShelf` | `BlobStoreCallsProofs` | `Spec => KeepsShelf` |
| `TypeCorrect`, `Inductive` | `StreamWorkflowsProofs` | `Spec => []TypeOK`, `Spec => []IInv` |
| `PinnedIsReadable` | `StreamWorkflowsProofs` | `Spec => []PinnedStreamReadable` |
| `PinnedStreamsReadable` | `StreamWorkflowsProofs` | without clashes, what was ever pinned is `SDBlobReadable` |
| `PublishedStreamsStored` | `StreamWorkflowsProofs` | `Spec => []PublishedIsStored` |
| `NotBlocked` | `StreamWorkflowsProofs` | `Spec => []WorksNotBlocked` |
| `OnlyPuts` | `StreamWorkflowsProofs` | `Spec => OnlyPutsOnShelf` |
| `TypeCorrect`, `Inductive` | `DeviceUploadsProofs` | `Spec => []TypeOK`, `Spec => []IInv` |
| `AddressesStayUnique` | `DeviceUploadsProofs` | `Spec => []OneDevicePerAddress` |
| `OwnersKeepAddresses` | `DeviceUploadsProofs` | `Spec => AddressKeepsOwner` |
| `CallsKeepTheirUser` | `DeviceUploadsProofs` | `Spec => []UploadStaysWithUser` |
| `RevokedStayOut` | `DeviceUploadsProofs` | `Spec => RevokedUsersKeepOut` |

**The reflector's upload path.** That a pinned stream is complete is not inductive: when
a run pins, it does not look at what it stored. The invariant `IInv` therefore says, for
each step of a run, what the run has done before (`RunHasDone`): past `addBlobs` the
stream is published (`Published`: rows and associations there, and readable but for a
rival); in the copying loop the blobs before `next` are objects; past it
all are; in the pinning loop those before `next` are pinned; from the cleanup on
the stream pin exists. These facts are stable whatever anybody else does, because
objects, blob rows, stream rows and the portal's pins only grow, and an IV is only ever
replaced by that of a stream that is there (`RowsFollowStreams`, `BlobStoreGrows`): an SD
blob that stops being readable has a rival, and has it for good. Two runs, or a run repeated from
the start, therefore cannot harm each other. For received data, `MarkHasData` covers
the half-done `Put`: its data may leave temporary storage before the mark, but only
when it is stored already. `UserDeletesStream` only unpins.

The refinement proof maps each action to a step of `UploadCustody` or to
stuttering, using `IInv` where the abstract guard asks for it: `MarkHasData` at
`GiveReceipt`, `ContentBlobs(s) \subseteq objects` at `Pin` and at `TakeOut`.

**Pending rows.** `NoStrandedRows` is not inductive either, for two reasons. A `PutSD`
whose stream is cleaned up between its transactions upserts the rows of the blobs
afterwards; the rows are harmless only because the cleanup deleted all of them, and an
upsert leaves a deleted row deleted. `CleanedUp` says that: where a stream's row is
deleted, so are the rows of its own blobs, all of them. It in turn needs to know that a
cleanup finds all of them, although it looks for rows by the stream they name:
`RunsFollowRows` says that a run past `RebuildSDBlob` has the stream's own blobs in live
rows as long as the stream is live, which `SDBlobMatches` established, and no other
stream can take an unshared row (`RowsFollowSDBlobs`: a row names a stream that lists the
blob). `CallsFollowRows` gives the calls between the upsert of a stream and those of its
blobs a stream to refer to, which is also the foreign key of `ConstraintsHold`.
`ReceivedHasData` needs `MarkMayFail`: data that goes between the two halves of a `Put`
goes by a run that has deleted the row before, and a deleted row refuses the mark.
The unique key follows from numbers: a row of a stream has the number of its blob
(`RowsFollowSDBlobs`), and no two blobs of a stream have one number
(`BlobNumberInjective`). Where several early rows could meet, `CanInsertEarlyBlob` is the
code's own refusal.

**Uploads that have all come.** Four facts together are the safety half of
`UploadCompletes`. `CompleteUntilPinned`: rows of the stream's own blobs stay as long as
the stream does (`OwnRowsStay`), received flags and the terminating blob are never taken
back, and the stream ends only after it is pinned (`PendingNext`). `CompleteIsAssembled`:
the rows of the stream are then exactly the blobs it lists (`AllReceivedFacts`), as many
as `total_blobs` says without the terminating one (`ContentCount`, a bijection with the
places in the SD blob), and each has its data (`ReceivedHasData`). `RunsNotBlocked`: no
guard stops a run that has got there. `RunHasDone`: a run that is done has pinned the
stream. What is left to TLC is that fairness takes the run through its loops to the end.

`AckedIsServed` is proved with `ServedInv`, under `Faults = FALSE`: whatever is
acknowledged was pending, or is by this call; what is pending has a run that was started,
which stays, or a call in `PutSD`, which without failures goes on to start one.

**What readers see.** `BlobStoreFacts` has what each operator of `BlobStore` makes of the
tables and of the shelf, under `TablesInv`: a stream's associations come all at once, with
rows that have the IV of one of the streams that list the blob. The three specifications that use the store then differ only in
which operators they call and when: `UpsertStream` is a stutter to readers (`ShelfKeeps`),
`ProcessStreamBlobs` publishes if the stream's row is there (`ShelfPublish`): an SD blob
that was readable clashes with the stream or has the same IVs in its rows as before, and
one that becomes readable does not clash with it. An upload or
an upsert of a blob serves it or changes nothing (`ShelfServe`). That the row is there is
what `RunHasDone` and `WorkHasDone` say at `addBlobs`.

**The blob store.** Here blobs are deleted, so little only grows: stream rows with their
associations do (`RowsFollowStreams`), and so do `deleteCalled` and the set of
soft-deleted rows. `WriteTrue` and `ReadTrue` say what a call has written or read where
it stands, up to deletes: a `Get` of an SD blob that was readable has seen the
terminating blob, and each blob of the stream is still to be read, was found, or has a
deleted row, or else the stream has a rival. A deleted row stays deleted and a rival stays
there, so either explains the failure when it comes. `ImplementsShelf` maps `PutRow` and `PutObject` to `Serve`, `DeleteData` to
`Withdraw`, `DeleteRow` to `Retire` and `PutSDBlobs` to `Publish`, or to stuttering where
nothing changes for a reader.

**Workflows.** `WorkHasDone` is the counterpart of `RunHasDone`. The proof rests on two
facts about the system: no workflow deletes a blob (`RowsStay`), and a stream made by an
upload is made by one attempt of one upload (`WorkflowsAssumption`), so a pin request
that finds such a stream finds it published, hence stored. `WorksNotBlocked` needs two
facts of its own, `SourcesKept` (the file comes with the request and goes after the last
step, and no step of a failed attempt touches it) and `FinishedPinned`; only `Finish`
follows `PinStream` (`EndsByPinning`), and a pin may be deleted but its row is never gone.

**Devices.** Where writers take turns there is one open transaction (`OneWriter`), so what
it found about its address still holds when it commits (`AddressStillFree`): the only
other step on the table is the commit itself, or a roll-back. `RowsOpen` ties an
uncommitted row to its transaction, which keeps two transactions apart on MySQL as well.
`CallsKeepUser` says what a call has done for its user where it stands; no step of
devices touches it, which is the point: the user is looked up once and kept.

Each proof follows the structure of `Next`: a lemma for each action, or group of actions
with the same frame, and a QED that combines them.

**Only model-checked.** `UploadCompletes` and `WorkflowsFinish`: liveness under fairness is
out of the prover's reach (the safety half of each is proved: see "Uploads that have all come"
and `WorksNotBlocked`). Every other property of a passing run is proved.

## 5. Two streams that list one blob; what is not modelled

`lbry_blobs` has one row for a blob, and `upsertBlobRecord` (`blob_store.go`, 48-74) gives
it the IV it is called with, if any. So a `PutSD` of a stream that lists a blob of another
stream under another IV (`Clash`) makes the other SD blob unreadable: what
`buildBlobInfosFromDb` collects hashes to something else. The other SD blob may have been
acknowledged and pinned. A `PutSD` of it gives the row its own IV again, and then the first
one is unreadable. Each content blob stays available under its own hash all the time.
Streams made by `CreateStream` never clash, as their blobs are encrypted under fresh keys;
of two streams that clash at most one lists the blob under the IV it was encrypted with.
No comment or test of the repository promises that both stay readable, so this is not in
the findings: the properties name the case (`HasRival`, `Clash`), `BlobShelf` says
exactly which SD blobs are displaced and when, and it is a hazard in `PROJECT.json`.

`PROJECT.json` lists every component. Not modelled are:

- `BlobStore.List` and the listing queries of devices and streams are reads. (`List`
  builds its query without a model and so lists soft-deleted blobs too; only the server
  library may call it. `Has` does not know SD hashes, which `Get` serves.)
- `StorePendingBlob` has no caller. `UpdateDevice` has no HTTP handler (`handleDeviceUpdate`
  only renames) but is part of the public `DeviceService`, so it is an action. Names of
  devices are left out.
- Decoding, encoding, routes, configuration and start-up. The `UploadHash` that
  `handleStreamUpload` returns is the hash of the file that was sent; it is neither an SD
  hash nor a blob's, so it is in no table of the model.
- SD blobs that give a blob a `Length` other than that of its data (section 2).
- Two layouts of one SD blob (`hash.go`, 59-97): a stream has one SD hash here.
- `DeleteStream` is documented in `core/upload.go:30` as deleting "a stream and all
  associated data" and in the implementation as removing only the pin; the model does
  what the implementation does.
- The reflector server, object storage, the portal's workflow engine and `AcquireSDBlob`
  are libraries, modelled only by what the code here relies on: a call happens once and
  returns or fails; a retried step is executed again; a blob put is there.

## 6. Plan

1. Done: the reflector upload path, the blob store, uploads and pin requests, devices;
   both abstract specifications; the proofs of section 4.
2. Done: the proofs about pending rows, `AckedIsServed` and `OnlyPutsOnShelf`.
3. `BlobStore` with a stream hash apart from the SD hash, to state what `PutSD` does with
   the second layout of a stream.
4. Done: what `UploadCompletes` and `WorkflowsFinish` need of safety.
