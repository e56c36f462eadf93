--------------------------- MODULE ReflectorAssembly ---------------------------
(***************************************************************************)
(* The assembly workflow (internal/protocol/op_reflector_assembly.go),     *)
(* started by PutSD: each run moves one pending stream from temporary to   *)
(* permanent storage.  Its only step is a RetryStep, so a run that returns *)
(* an error, or is cut short by a crash, is executed again from the start. *)
(***************************************************************************)
EXTENDS ReflectorStore, BlobStore, StreamPins

RunSteps == {"unused", "ready", "check", "count", "addStream", "addBlobs",
             "readTemp", "upload", "upsert", "pinBlobs", "pinStream", "cleanup",
             "deleteTemp", "done"}

\* next: the content blob that the loop of the step has reached.
RunsTypeOK == runs \in [Runs -> [step : RunSteps, next : Nat \ {0}]]

RunsInit == runs = [w \in Runs |-> [step |-> "unused", next |-> 1]]

-----------------------------------------------------------------------------
(* ReflectorAssemblyOperationHandler.Execute, run w = <<u, s, k>>.         *)

NextBlob(w) == Content[w[2]][runs[w].next]

GoTo(w, step) == runs' = [runs EXCEPT ![w] = [step |-> step, next |-> 1]]

\* The end of a loop's body: around again at the same loop, or past it.
NextIn(w, loop, after) ==
    IF runs[w].next < Len(Content[w[2]])
    THEN runs' = [runs EXCEPT ![w] = [step |-> loop, next |-> @.next + 1]]
    ELSE GoTo(w, after)

\* The pending stream is read and its SD blob rebuilt from the rows.  The three
\* lookups of the stream are one: a stream that the last finds was there before.
RebuildSDBlob(w) ==
    /\ runs[w].step = "ready"
    /\ PendingStreamExists(w[1], w[2])
    /\ SDBlobMatches(w[1], w[2])
    /\ GoTo(w, "check")
    /\ UNCHANGED <<pendingVars, blobStoreVars, pinVars, conns, tempData, acked>>

\* The run goes on when every blob that the SD blob lists has a row of the
\* stream, whether it was received or not, and then when the stream has as many
\* rows: the terminating blob, which has none, is added to one side and is in the
\* total on the other.
CheckMissing(w) ==
    /\ runs[w].step = "check"
    /\ GoTo(w, IF GetMissingBlobs(w[1], w[2]) = {} THEN "count" ELSE "ready")
    /\ UNCHANGED <<pendingVars, blobStoreVars, pinVars, conns, tempData, acked>>

\* A bug to catch: the terminating blob is not added.
CheckCountOffByOne(w) ==
    /\ runs[w].step = "count"
    /\ GoTo(w, IF GetPendingBlobCount(w[1], w[2]) = Len(Content[w[2]]) + 1
                THEN "addStream" ELSE "ready")
    /\ UNCHANGED <<pendingVars, blobStoreVars, pinVars, conns, tempData, acked>>

CheckCount(w) ==
    /\ runs[w].step = "count"
    /\ GoTo(w, IF GetPendingBlobCount(w[1], w[2]) = Len(Content[w[2]])
                THEN "addStream" ELSE "ready")
    /\ UNCHANGED <<pendingVars, blobStoreVars, pinVars, conns, tempData, acked>>

\* A bug to catch: a stream that an earlier attempt published is not added again.
AddStreamOnce(w) ==
    /\ runs[w].step = "addStream"
    /\ UpsertStream(w[2])
    /\ GoTo(w, IF streams[w[2]].stored THEN "readTemp" ELSE "addBlobs")
    /\ UNCHANGED <<pendingVars, pinVars, conns, tempData, acked>>

\* AddSDBlob: the stream is published before any of its blobs is.
AddStream(w) ==
    /\ runs[w].step = "addStream"
    /\ UpsertStream(w[2])
    /\ GoTo(w, "addBlobs")
    /\ UNCHANGED <<pendingVars, pinVars, conns, tempData, acked>>

AddStreamBlobs(w) ==
    /\ runs[w].step = "addBlobs"
    /\ ProcessStreamBlobs(w[2])
    /\ GoTo(w, "readTemp")
    /\ UNCHANGED <<pendingVars, pinVars, conns, tempData, acked>>

\* A bug to catch: a blob without data is skipped.
ReadTemporaryOrSkip(w) ==
    /\ runs[w].step = "readTemp"
    /\ IF NextBlob(w) \in tempData[w[1]]
       THEN runs' = [runs EXCEPT ![w].step = "upload"]
       ELSE NextIn(w, "readTemp", "pinBlobs")
    /\ UNCHANGED <<pendingVars, blobStoreVars, pinVars, conns, tempData, acked>>

\* Has and Get of the next blob: without its data the run fails.
ReadTemporary(w) ==
    /\ runs[w].step = "readTemp"
    /\ IF NextBlob(w) \in tempData[w[1]]
       THEN runs' = [runs EXCEPT ![w].step = "upload"]
       ELSE GoTo(w, "ready")
    /\ UNCHANGED <<pendingVars, blobStoreVars, pinVars, conns, tempData, acked>>

\* AddBlob: the object, then its row.
AddBlobObject(w) ==
    /\ runs[w].step = "upload"
    /\ UploadObject(NextBlob(w))
    /\ runs' = [runs EXCEPT ![w].step = "upsert"]
    /\ UNCHANGED <<pendingVars, pinVars, conns, tempData, acked>>

AddBlobRow(w) ==
    /\ runs[w].step = "upsert"
    /\ UpsertBlobRecord(NextBlob(w))
    /\ NextIn(w, "readTemp", "pinBlobs")
    /\ UNCHANGED <<pendingVars, pinVars, conns, tempData, acked>>

\* ProcessStreamResult: the records of each blob, then the stream pin.
PinNextBlob(w) ==
    /\ runs[w].step = "pinBlobs"
    /\ ProcessUploadBlob(w[1], NextBlob(w))
    /\ NextIn(w, "pinBlobs", "pinStream")
    /\ UNCHANGED <<pendingVars, blobStoreVars, conns, tempData, acked>>

PinStream(w) ==
    /\ runs[w].step = "pinStream"
    /\ CreateStreamPin(w[1], w[2])
    /\ GoTo(w, "cleanup")
    /\ UNCHANGED <<pendingVars, blobStoreVars, conns, tempData, acked>>

Cleanup(w) ==
    /\ runs[w].step = "cleanup"
    /\ CleanupPendingBlobs(w[1], w[2])
    /\ GoTo(w, "deleteTemp")
    /\ UNCHANGED <<blobStoreVars, pinVars, conns, tempData, acked>>

DeleteTemporary(w) ==
    /\ runs[w].step = "deleteTemp"
    /\ tempData' = [tempData EXCEPT ![w[1]] = @ \ {NextBlob(w)}]
    /\ NextIn(w, "deleteTemp", "done")
    /\ UNCHANGED <<pendingVars, blobStoreVars, pinVars, conns, acked>>

\* An error of this loop is logged and the loop goes on.
DeleteTemporaryFails(w) ==
    /\ Faults
    /\ runs[w].step = "deleteTemp"
    /\ NextIn(w, "deleteTemp", "done")
    /\ UNCHANGED <<pendingVars, blobStoreVars, pinVars, conns, tempData, acked>>

\* A bug to catch: a step that is not retried leaves the run failed.
RunFailsForGood(w) ==
    /\ Faults
    /\ runs[w].step \notin {"unused", "ready", "done"}
    /\ GoTo(w, "failed")
    /\ UNCHANGED <<pendingVars, blobStoreVars, pinVars, conns, tempData, acked>>

\* An error anywhere, or a crash: Execute starts over.
RunFails(w) ==
    /\ Faults
    /\ runs[w].step \notin {"unused", "ready", "done"}
    /\ GoTo(w, "ready")
    /\ UNCHANGED <<pendingVars, blobStoreVars, pinVars, conns, tempData, acked>>

-----------------------------------------------------------------------------
\* What a run does when nothing goes wrong.
RunProgress(w) ==
    \/ RebuildSDBlob(w)
    \/ CheckMissing(w)
    \/ CheckCount(w)
    \/ AddStream(w)
    \/ AddStreamBlobs(w)
    \/ ReadTemporary(w)
    \/ AddBlobObject(w)
    \/ AddBlobRow(w)
    \/ PinNextBlob(w)
    \/ PinStream(w)
    \/ Cleanup(w)
    \/ DeleteTemporary(w)

RunNext(w) ==
    \/ RunProgress(w)
    \/ DeleteTemporaryFails(w)
    \/ RunFails(w)
=============================================================================
