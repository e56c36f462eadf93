--------------------------- MODULE ReflectorUpload ---------------------------
(***************************************************************************)
(* An upload through the reflector protocol, from the first byte to the    *)
(* pinned stream: the connections of the reflector server, the runs of the *)
(* assembly workflow and the users, who may unpin a stream at any time,    *)
(* over one database and one object storage.                               *)
(***************************************************************************)
EXTENDS ReflectorAssembly

vars == <<pendingVars, blobStoreVars, pinVars, conns, tempData, acked, runs>>

TypeOK ==
    /\ PendingTypeOK
    /\ BlobStoreTypeOK
    /\ PinsTypeOK
    /\ ReflectorStoreTypeOK
    /\ RunsTypeOK

Init ==
    /\ PendingInit
    /\ BlobStoreInit
    /\ PinsInit
    /\ ReflectorStoreInit
    /\ RunsInit

ConnStep(c) == ConnNext(c) /\ UNCHANGED <<blobStoreVars, pinVars>>

UserDeletesStream(u, s) ==
    /\ DeleteStream(u, s)
    /\ UNCHANGED <<pendingVars, blobStoreVars, conns, tempData, acked, runs>>

Next ==
    \/ \E c \in Conns : ConnStep(c)
    \/ \E w \in Runs : RunNext(w)
    \/ \E u \in Users, s \in SDs : UserDeletesStream(u, s)

Spec == Init /\ [][Next]_vars

-----------------------------------------------------------------------------
(* Safety.                                                                 *)

\* A stream that was ever pinned is stored whole, each content blob with its row and
\* its data, the user has the portal's pin of each, and the SD blob can be rebuilt
\* under its hash, unless another stream that is there lists one of its blobs under
\* another IV.  (assembleStream creates the pin last; see also ProcessStreamResult.)
PinnedStreamComplete ==
    \A u \in Users, s \in SDs : streamPins[u][s] # "none" =>
        /\ Published(s)
        /\ \A b \in ContentBlobs(s) : HasBlob(b) /\ b \in corePins[u]

\* Data the portal has recorded as received is never lost: it is in the user's
\* temporary storage or in permanent storage, whichever runs raced, failed or
\* cleaned up another stream with the same blob.
NoReceivedBlobLost ==
    \A u \in Users, b \in Blobs :
        pendingBlobs[u][b].received => b \in tempData[u] \/ b \in objects

\* assembleStream deletes a temporary blob only after it is stored for good.
TempKeptUntilStored ==
    [][\A u \in Users : (tempData[u] \ tempData'[u]) \subseteq objects]_vars

\* "Only setting Received=true and never setting it back to false"
\* (reflector_store.go:408): no SD blob that arrives later, no retry and no
\* cleanup forgets that a blob was received.
ReceivedNeverReverts ==
    [][\A u \in Users, b \in Blobs :
           pendingBlobs[u][b].received => pendingBlobs'[u][b].received]_vars

\* CleanupPendingBlobs "removes pending blob records after successful assembly":
\* nothing but a finished assembly, of this very upload, ends a pending stream.
PendingKeptUntilPinned ==
    [][\A u \in Users, s \in SDs :
           PendingStreamExists(u, s) /\ ~PendingStreamExists(u, s)'
               => streamPins[u][s] # "none"]_vars

\* A blob that at most one stream lists.
Unshared(b) ==
    \A s, t \in SDs : b \in ContentBlobs(s) /\ b \in ContentBlobs(t) => s = t

\* A live pending blob that an SD blob has claimed belongs to a live pending
\* stream, whose cleanup will find it.  (A second stream that lists the blob may
\* take the row over when it is itself assembled already.)
NoStrandedRows ==
    \A u \in Users, b \in Blobs :
        LET row == pendingBlobs[u][b]
        IN  Unshared(b) /\ row.row = "live" /\ row.stream # NoStream
                => PendingStreamExists(u, row.stream)

\* A live row marked received has its data where the assembly will look for it.
\* (The temporary copy of a blob that two streams list goes with the first.)
ReceivedHasData ==
    \A u \in Users, b \in Blobs :
        LET row == pendingBlobs[u][b]
        IN  Unshared(b) /\ row.row = "live" /\ row.received => b \in tempData[u]

\* All of an upload has come: its SD blob is stored, with its terminating blob, and
\* each blob it lists has its row and is received.
AllReceived(u, s) ==
    /\ PendingStreamExists(u, s)
    /\ pendingStreams[u][s].terminating
    /\ \A b \in ContentBlobs(s) :
           b \in PendingBlobsOf(u, s) /\ pendingBlobs[u][b].received

\* A stream that shares no blob with another.
SharesNoBlob(s) == \A b \in ContentBlobs(s) : Unshared(b)

\* An upload that has all come stays so until it is pinned: nothing that is sent
\* again, fails or starts over takes a part of it back.
CompleteUntilPinned ==
    [][\A u \in Users, s \in SDs :
           SharesNoBlob(s) /\ AllReceived(u, s)
               => AllReceived(u, s)' \/ streamPins[u][s] # "none"]_vars

\* checkAndAssembleStream and assembleStream turn no upload away that has all come:
\* each of their tests finds what it looks for, whatever was sent first, stored by
\* an earlier attempt or taken by another run, so only a failing call makes a run
\* of it start over.
CompleteIsAssembled ==
    [][\A w \in Runs :
           SharesNoBlob(w[2]) /\ AllReceived(w[1], w[2]) /\ RunProgress(w)
               => runs'[w].step # "ready"]_vars

\* Nor do they wait for good: the SD blob that is rebuilt is the one that was sent,
\* the transaction of PutSD meets no deleted blob, and CreateStreamPin its stream.
RunsNotBlocked ==
    \A w \in Runs :
        /\ AllReceived(w[1], w[2]) => SDBlobMatches(w[1], w[2])
        /\ runs[w].step = "addBlobs" => CanProcessStreamBlobs(w[2])
        /\ runs[w].step = "pinStream" => streams[w[2]].stored

\* The two rows are of one stream, and with the same number.
SamePlace(row, other) == row.stream = other.stream /\ row.num = other.num

\* The pending rows keep two constraints of the schema, although the model lets them
\* refuse only the insert of an early blob (CanInsertEarlyBlob): UNIQUE(user_id,
\* stream_id, blob_number) and the foreign key on stream_id.  No SD blob meets a row
\* that has its stream and number already, however often it is sent, whatever other
\* stream had its rows and whatever was deleted.  (The foreign key on device_id, which
\* refuses marks as well, is CanMark's in DeviceUploads.)
ConstraintsHold ==
    \A u \in Users, b \in Blobs :
        LET row == pendingBlobs[u][b]
        IN  row.row # "none" =>
                /\ UniqueBlobNumber =>
                       \A other \in Blobs \ {b} :
                           pendingBlobs[u][other].row # "none"
                               => ~SamePlace(row, pendingBlobs[u][other])
                /\ ForeignKeys => row.stream # NoStream
                /\ row.stream # NoStream
                       => pendingStreams[u][row.stream].row # "none"

\* An SD blob of the user that is being worked on, or was.
Served(u, s) ==
    \/ \E k \in 1 .. MaxRuns : runs[<<u, s, k>>].step # "unused"
    \/ PutSDCalls(u, s) # {}

\* An SD blob that PutSD accepted is served: the shortcut for a stream that is
\* pending already relies on the call that made it so.
AckedIsServed == \A u \in Users, s \in SDs : <<u, s>> \in acked => Served(u, s)

-----------------------------------------------------------------------------
(* The promise that the upload keeps.                                      *)

Received(u) == {b \in Blobs : pendingBlobs[u][b].received}

Pinned(u) == {s \in SDs : streamPins[u][s] = "live"}

Custody ==
    INSTANCE UploadCustody
        WITH inbox    <- tempData,
             receipts <- [u \in Users |-> Received(u)],
             stored   <- objects,
             pinned   <- [u \in Users |-> Pinned(u)]

\* Whatever calls and runs interleave, fail and start over, the data of an upload
\* is handled as UploadCustody promises: received flags are receipts for data the
\* portal has, runs store what was sent, clean up what is stored, and pin what
\* is complete.
KeepsCustody == Custody!Spec

\* To readers an assembly takes nothing away: however often a run starts over, no
\* blob that was served is gone for a moment, and an SD blob that was readable stays
\* so, unless the assembly publishes a stream that lists a blob of it under another IV.
OnlyPutsOnShelf == Shelf!PutsOnlySpec

-----------------------------------------------------------------------------
(* The inductive invariant behind the properties above.                    *)

\* A call that works on an SD blob or a content blob names it.
CallsNamed ==
    \A c \in Conns :
        /\ conns[c].step \in {"sdStream", "sdBlobs", "sdTerminating", "sdWorkflow"}
               => conns[c].sd \in SDs
        /\ conns[c].step = "mark" => conns[c].blob \in Blobs

LoopsInBounds == \A w \in Runs : runs[w].next \in DOMAIN Content[w[2]]

TypeInv == TypeOK /\ CallsNamed /\ LoopsInBounds

\* The blob whose Put is half done is stored already, here or there.
MarkHasData ==
    \A c \in Conns : conns[c].step = "mark" =>
        conns[c].blob \in tempData[ConnUser[c]] \/ conns[c].blob \in objects

\* The steps at which a run has published the stream, and those at which it has
\* stored, and then pinned, every blob.
CopySteps == {"readTemp", "upload", "upsert"}
PinnedSteps == {"pinStream", "cleanup", "deleteTemp"}

BlobsBefore(s, n) == {Content[s][i] : i \in {j \in DOMAIN Content[s] : j < n}}

\* What a run has done when it stands at a step.
RunHasDone(w) ==
    LET u    == w[1]
        s    == w[2]
        step == runs[w].step
        done == BlobsBefore(s, runs[w].next)
    IN  /\ step = "addBlobs" => streams[s].stored
        /\ step \in CopySteps \cup {"pinBlobs"} \cup PinnedSteps => Published(s)
        /\ step \in CopySteps => done \subseteq objects
        /\ step = "upload" => NextBlob(w) \in tempData[u] \cup objects
        /\ step = "upsert" => NextBlob(w) \in objects
        /\ step \in {"pinBlobs"} \cup PinnedSteps => ContentBlobs(s) \subseteq objects
        /\ step = "pinBlobs" => done \subseteq corePins[u]
        /\ step \in PinnedSteps => ContentBlobs(s) \subseteq corePins[u]
        /\ step \in {"cleanup", "deleteTemp", "done"} => streamPins[u][s] # "none"

IInv ==
    /\ TypeInv
    /\ MarkHasData
    /\ NoReceivedBlobLost
    /\ RowsFollowStreams
    /\ \A w \in Runs : RunHasDone(w)
    /\ PinnedStreamComplete

-----------------------------------------------------------------------------
(* The inductive invariant of the pending rows.                            *)

\* A row that a stream has is numbered as the stream's SD blob says, and the
\* stream's row was there before it.
RowsFollowSDBlobs ==
    \A u \in Users, b \in Blobs :
        LET row == pendingBlobs[u][b]
        IN  /\ row.stream # NoStream =>
                   /\ row.row # "none"
                   /\ b \in ContentBlobs(row.stream)
                   /\ row.num = BlobNumber(row.stream, b)
                   /\ pendingStreams[u][row.stream].row # "none"
            /\ row.received => row.row # "none"

\* A call that is past the stream's upsert has the stream's row behind it.
CallsFollowRows ==
    \A c \in Conns : conns[c].step \in {"sdBlobs", "sdTerminating", "sdWorkflow"} =>
        pendingStreams[ConnUser[c]][conns[c].sd].row # "none"

\* The blobs that a stream shares with no other.
OwnBlobs(s) == {b \in ContentBlobs(s) : Unshared(b)}

\* A cleanup leaves no row behind, early, late or taken over.
CleanedUp ==
    \A u \in Users, s \in SDs : pendingStreams[u][s].row = "deleted" =>
        \A b \in OwnBlobs(s) : pendingBlobs[u][b].row = "deleted"

\* A run that has rebuilt its SD blob still finds the stream's rows, unless
\* another run has cleaned them up; after its own cleanup they are gone.
RunsFollowRows ==
    \A w \in Runs :
        /\ runs[w].step \notin {"unused", "ready"} =>
               /\ pendingStreams[w[1]][w[2]].row # "none"
               /\ PendingStreamExists(w[1], w[2])
                      => OwnBlobs(w[2]) \subseteq PendingBlobsOf(w[1], w[2])
        /\ runs[w].step = "deleteTemp" => pendingStreams[w[1]][w[2]].row = "deleted"

\* The blob whose Put is half done has its data, or a row that refuses the mark.
MarkMayFail ==
    \A c \in Conns : conns[c].step = "mark" /\ Unshared(conns[c].blob) =>
        \/ conns[c].blob \in tempData[ConnUser[c]]
        \/ pendingBlobs[ConnUser[c]][conns[c].blob].row = "deleted"

PendingInv ==
    /\ TypeInv
    /\ ConstraintsHold
    /\ RowsFollowSDBlobs
    /\ CallsFollowRows
    /\ CleanedUp
    /\ RunsFollowRows
    /\ MarkMayFail
    /\ ReceivedHasData

\* Without failures every pending stream has its call or its run, and a call that
\* is not in PutSD names no stream.
ServedInv ==
    /\ TypeInv
    /\ \A c \in Conns : conns[c].step \in {"idle", "mark"} => conns[c].sd = NoStream
    /\ \A u \in Users, s \in SDs : pendingStreams[u][s].row # "none" => Served(u, s)
    /\ AckedIsServed

-----------------------------------------------------------------------------
(* What the comments say, and the code does not do.                        *)

\* reflector_store.go:51, "Check if pending stream already exists to avoid
\* creating multiple workflow instances".
OneRunPerUpload ==
    \A u \in Users, s \in SDs : \A j, k \in 1 .. MaxRuns :
        /\ runs[<<u, s, j>>].step \notin {"unused", "done"}
        /\ runs[<<u, s, k>>].step \notin {"unused", "done"}
        => j = k

\* op_reflector_assembly.go:142, "checkAndAssembleStream checks if all required
\* blobs are available and assembles the stream".
ReadyMeansReceived ==
    \A w \in Runs : runs[w].step = "addStream" =>
        \A b \in ContentBlobs(w[2]) : pendingBlobs[w[1]][b].received

\* upload.go:406, "StorePendingStream stores an SD blob with full stream metadata
\* in pending state": when it has returned, the stream is pending, or a run of
\* the workflow has this upload behind it.
StoredStreamIsPending ==
    \A c \in Conns : conns[c].step = "sdWorkflow" =>
        PendingStreamExists(ConnUser[c], conns[c].sd)

-----------------------------------------------------------------------------
(* Liveness.                                                               *)

\* The portal executes a run until it succeeds (RetryStep); nothing obliges a
\* client to send, or a user to unpin, anything.
Fairness == \A w \in Runs : WF_vars(RunProgress(w))

\* A step of a run that only a fault explains: a run that starts over because
\* the stream is not ready, or a blob is not there, does so without any fault.
Faulty(w) == (RunFails(w) \/ DeleteTemporaryFails(w)) /\ ~RunProgress(w)

\* Retries help when failures end.
FaultsEnd == <>[][~(\E w \in Runs : Faulty(w))]_vars

FairSpec == Spec /\ Fairness

Uploaded(u, s) ==
    /\ AllReceived(u, s)
    /\ \E k \in 1 .. MaxRuns : runs[<<u, s, k>>].step \notin {"unused", "done"}

\* An upload with all its data and a workflow run ends as a pinned stream.
\* (Where no two streams share a blob.)
UploadCompletes ==
    FaultsEnd => \A u \in Users, s \in SDs :
        Uploaded(u, s) ~> streamPins[u][s] # "none"
=============================================================================
