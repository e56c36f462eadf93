---------------------------- MODULE StreamWorkflows ----------------------------
(***************************************************************************)
(* The workflows that the HTTP API starts (internal/api/stream_api.go):    *)
(*   - an upload, by POST or TUS, is cut into blobs and made a stream      *)
(*     (op_post_upload.go, upload_processor.go, Operations of protocol.go);*)
(*   - a pin takes a stream from the network (op_retrieve.go).             *)
(* Both end in ProcessStreamResult, and both are retried until they        *)
(* succeed.  An upload is encrypted with fresh keys by each attempt, so    *)
(* each attempt makes another stream, of other blobs.                      *)
(***************************************************************************)
EXTENDS StreamPins

CONSTANTS
    Uploads,    \* uploads by POST or TUS
    Retrieves,  \* pin requests
    RunUser,    \* RunUser[w]: who asked for it
    Makes,      \* Makes[w][k]: SD hash made by the k-th attempt of upload w
    Asked,      \* Asked[w]: SD hash that the pin request w names
    Network,    \* SD hashes that AcquireSDBlob finds at peers
    Faults      \* whether calls may fail

Works == Uploads \cup Retrieves

MadeStreams == {s \in SDs : \E w \in Uploads : \E k \in DOMAIN Makes[w] : Makes[w][k] = s}

\* A stream made here is like no other, and no peer has it before the portal does.
ASSUME WorkflowsAssumption ==
    /\ Uploads \cap Retrieves = {}
    /\ RunUser \in [Works -> Users]
    /\ Makes \in [Uploads -> Seq(SDs)]
    /\ \A w \in Uploads : Len(Makes[w]) > 0
    /\ \A v, w \in Uploads : \A j \in DOMAIN Makes[v], k \in DOMAIN Makes[w] :
           Makes[v][j] = Makes[w][k] => v = w /\ j = k
    /\ Asked \in [Retrieves -> SDs]
    /\ Network \subseteq SDs \ MadeStreams
    /\ \A s \in MadeStreams : \A t \in SDs \ {s} :
           ContentBlobs(s) \cap ContentBlobs(t) = {}
    /\ Faults \in BOOLEAN

VARIABLES
    work,       \* [Works -> progress of the workflow]
    sources     \* uploads whose file is kept for their workflow

vars == <<blobStoreVars, pinVars, work, sources>>

WorkSteps == {"unused", "sent", "refused", "ready", "chunk", "chunkRow",
              "addStream", "addBlobs", "pinBlobs", "pinStream", "finish", "done"}

\* try: the attempt; next: the blob that the loop of the step has reached.
Progress(step, try, next) == [step |-> step, try |-> try, next |-> next]

\* The stream that the workflow is about.
StreamOf(w) == IF w \in Uploads THEN Makes[w][work[w].try] ELSE Asked[w]

TypeOK ==
    /\ BlobStoreTypeOK
    /\ PinsTypeOK
    /\ work \in [Works -> [step : WorkSteps, try : Nat \ {0}, next : Nat \ {0}]]
    /\ \A w \in Uploads : work[w].try \in DOMAIN Makes[w]
    /\ \A w \in Works : work[w].next \in DOMAIN Content[StreamOf(w)]
    /\ sources \subseteq Uploads

Init ==
    /\ BlobStoreInit
    /\ PinsInit
    /\ work = [w \in Works |-> Progress("unused", 1, 1)]
    /\ sources = {}

-----------------------------------------------------------------------------
GoTo(w, step) == work' = [work EXCEPT ![w] = Progress(step, @.try, 1)]

NextBlob(w) == Content[StreamOf(w)][work[w].next]

\* A bug to catch: the loop runs once too often.
NextInOffByOne(w, loop, after) ==
    IF work[w].next <= Len(Content[StreamOf(w)])
    THEN work' = [work EXCEPT ![w] = Progress(loop, @.try, @.next + 1)]
    ELSE GoTo(w, after)

\* The end of a loop's body: around again at the same loop, or past it.
NextIn(w, loop, after) ==
    IF work[w].next < Len(Content[StreamOf(w)])
    THEN work' = [work EXCEPT ![w] = Progress(loop, @.try, @.next + 1)]
    ELSE GoTo(w, after)

-----------------------------------------------------------------------------
(* The handlers of the API.                                                *)

\* handleStreamUpload: HandleUpload keeps the file, then the workflow starts.
HandleUpload(w) ==
    /\ work[w].step = "unused"
    /\ sources' = sources \cup {w}
    /\ GoTo(w, "sent")
    /\ UNCHANGED <<blobStoreVars, pinVars>>

StartUpload(w) ==
    /\ work[w].step = "sent"
    /\ GoTo(w, "ready")
    /\ UNCHANGED <<blobStoreVars, pinVars, sources>>

\* The workflow does not start: the client has an error, the file stays.
RefuseUpload(w) ==
    /\ Faults
    /\ work[w].step = "sent"
    /\ GoTo(w, "refused")
    /\ UNCHANGED <<blobStoreVars, pinVars, sources>>

\* handleStreamPin starts a workflow each time; w stands for all requests of one
\* user for one stream that come one after another.
HandleStreamPin(w) ==
    /\ work[w].step \in {"unused", "done"}
    /\ GoTo(w, "ready")
    /\ UNCHANGED <<blobStoreVars, pinVars, sources>>

HandleStreamDelete(u, s) ==
    /\ DeleteStream(u, s)
    /\ UNCHANGED <<blobStoreVars, work, sources>>

-----------------------------------------------------------------------------
(* What Execute does.                                                      *)

\* GetReader, then the file is cut up, each chunk going to the chunk handler.
OpenSource(w) ==
    /\ work[w].step = "ready"
    /\ w \in sources
    /\ GoTo(w, "chunk")
    /\ UNCHANGED <<blobStoreVars, pinVars, sources>>

\* A bug to catch: the chunk handler drops the error of AddBlob.
AddChunkUnchecked(w) ==
    /\ work[w].step = "chunk"
    /\ objects' \in {objects, objects \cup {NextBlob(w)}}
    /\ work' = [work EXCEPT ![w] = Progress("chunkRow", @.try, @.next)]
    /\ UNCHANGED <<streams, blobRows, pinVars, sources>>

\* The chunk handler's AddBlob: the object, then its row.
AddChunkObject(w) ==
    /\ work[w].step = "chunk"
    /\ UploadObject(NextBlob(w))
    /\ work' = [work EXCEPT ![w] = Progress("chunkRow", @.try, @.next)]
    /\ UNCHANGED <<pinVars, sources>>

AddChunkRow(w) ==
    /\ work[w].step = "chunkRow"
    /\ UpsertBlobRecord(NextBlob(w))
    /\ NextIn(w, "chunk", "addStream")
    /\ UNCHANGED <<pinVars, sources>>

\* AcquireSDBlob finds the SD blob here or at a peer.
AcquireSDBlob(w) ==
    /\ work[w].step = "ready"
    /\ StreamOf(w) \in Network \/ SDBlobReadable(StreamOf(w))
    /\ GoTo(w, "addStream")
    /\ UNCHANGED <<blobStoreVars, pinVars, sources>>

\* AddSDBlob: the stream, then its blobs.
AddStream(w) ==
    /\ work[w].step = "addStream"
    /\ UpsertStream(StreamOf(w))
    /\ GoTo(w, "addBlobs")
    /\ UNCHANGED <<pinVars, sources>>

AddStreamBlobs(w) ==
    /\ work[w].step = "addBlobs"
    /\ ProcessStreamBlobs(StreamOf(w))
    /\ GoTo(w, "pinBlobs")
    /\ UNCHANGED <<pinVars, sources>>

\* ProcessStreamResult: the records of each blob, then the stream pin.
PinNextBlob(w) ==
    /\ work[w].step = "pinBlobs"
    /\ ProcessUploadBlob(RunUser[w], NextBlob(w))
    /\ NextIn(w, "pinBlobs", "pinStream")
    /\ UNCHANGED <<blobStoreVars, sources>>

PinStream(w) ==
    /\ work[w].step = "pinStream"
    /\ CreateStreamPin(RunUser[w], StreamOf(w))
    /\ GoTo(w, "finish")
    /\ UNCHANGED <<blobStoreVars, sources>>

\* Execute returns and the portal records it.
Finish(w) ==
    /\ work[w].step = "finish"
    /\ GoTo(w, "done")
    /\ UNCHANGED <<blobStoreVars, pinVars, sources>>

\* A bug to catch: the file goes after each attempt, whether it succeeded or not.
CleanupAfterAttempt(w) ==
    /\ work[w].step \in {"ready", "done"}
    /\ sources' = sources \ {w}
    /\ UNCHANGED <<blobStoreVars, pinVars, work>>

\* Cleanup deletes the file of an upload that is done.
Cleanup(w) ==
    /\ work[w].step = "done"
    /\ sources' = sources \ {w}
    /\ UNCHANGED <<blobStoreVars, pinVars, work>>

-----------------------------------------------------------------------------
Running(w) == work[w].step \notin {"unused", "sent", "refused", "ready", "done"}

\* A bug to catch: a step that is not retried leaves the workflow failed.
UploadFailsForGood(w) ==
    /\ Faults
    /\ Running(w)
    /\ work' = [work EXCEPT ![w].step = "refused"]
    /\ UNCHANGED <<blobStoreVars, pinVars, sources>>

\* An error anywhere, or a crash: Execute starts over and makes another stream.
\* The number of streams that Makes gives an upload bounds its failures.
UploadFails(w) ==
    /\ Faults
    /\ Running(w)
    /\ work[w].try < Len(Makes[w])
    /\ work' = [work EXCEPT ![w] = Progress("ready", @.try + 1, 1)]
    /\ UNCHANGED <<blobStoreVars, pinVars, sources>>

RetrieveFails(w) ==
    /\ Faults
    /\ Running(w)
    /\ GoTo(w, "ready")
    /\ UNCHANGED <<blobStoreVars, pinVars, sources>>

-----------------------------------------------------------------------------
\* What both kinds of workflow do in the end.
StreamProgress(w) ==
    \/ AddStream(w)
    \/ AddStreamBlobs(w)
    \/ PinNextBlob(w)
    \/ PinStream(w)
    \/ Finish(w)

UploadProgress(w) ==
    \/ OpenSource(w)
    \/ AddChunkObject(w)
    \/ AddChunkRow(w)
    \/ StreamProgress(w)

RetrieveProgress(w) == AcquireSDBlob(w) \/ StreamProgress(w)

UploadNext(w) ==
    \/ HandleUpload(w)
    \/ StartUpload(w)
    \/ RefuseUpload(w)
    \/ UploadProgress(w)
    \/ UploadFails(w)
    \/ Cleanup(w)

RetrieveNext(w) ==
    \/ HandleStreamPin(w)
    \/ RetrieveProgress(w)
    \/ RetrieveFails(w)

Next ==
    \/ \E w \in Uploads : UploadNext(w)
    \/ \E w \in Retrieves : RetrieveNext(w)
    \/ \E u \in Users, s \in SDs : HandleStreamDelete(u, s)

Spec == Init /\ [][Next]_vars

-----------------------------------------------------------------------------
(* Properties.                                                             *)

\* A stream that was ever pinned, by an upload or a pin request, can be read under
\* its SD hash and the user has the portal's pin of each of its blobs, however
\* workflows of several users race for it, fail and start over; only a stream that
\* lists one of its blobs under another IV makes it unreadable.  (Whether its content
\* is stored here is not promised: see PublishedIsStored.)
PinnedStreamReadable ==
    \A u \in Users, s \in SDs : streamPins[u][s] # "none" =>
        /\ Published(s)
        /\ ContentBlobs(s) \subseteq corePins[u]

\* A stream made here is published, and so can be found, pinned and fetched by
\* others, only when all of its data is stored; an attempt that failed half way
\* leaves no stream without data behind.  (ProcessStreamUpload adds the SD blob
\* after the chunk handler has added every blob.)
PublishedIsStored ==
    \A s \in MadeStreams : streams[s].stored =>
        \A b \in ContentBlobs(s) : HasBlob(b)

\* To readers a workflow takes nothing away: attempts that fail, and workflows that
\* store a stream that is there already, make nothing unreadable meanwhile.  (Only an
\* SD blob that lists a blob under another IV than one that is there displaces it.)
OnlyPutsOnShelf == Shelf!PutsOnlySpec

\* Nothing that a workflow's step needs can be missing for good: an upload's file is
\* there for whichever attempt, the transaction of PutSD meets no deleted blob,
\* CreateStreamPin finds its stream, and a workflow that says it is done has pinned
\* it (Cleanup takes the file then, and not before).
WorksNotBlocked ==
    \A w \in Works :
        /\ w \in Uploads /\ work[w].step \notin {"unused", "refused", "done"}
               => w \in sources
        /\ work[w].step = "addBlobs" => CanProcessStreamBlobs(StreamOf(w))
        /\ work[w].step = "pinStream" => streams[StreamOf(w)].stored
        /\ work[w].step \in {"finish", "done"}
               => streamPins[RunUser[w]][StreamOf(w)] # "none"

Fairness ==
    /\ \A w \in Uploads : WF_vars(UploadProgress(w))
    /\ \A w \in Retrieves : WF_vars(RetrieveProgress(w))

FairSpec == Spec /\ Fairness

\* Retries of a pin request help when failures end.
FaultsEnd == <>[][~(\E w \in Retrieves : RetrieveFails(w))]_vars

\* A workflow that was started ends with the stream pinned: an upload always, a
\* pin request if the stream can be found.  A user who unpins the stream
\* meanwhile ends it no earlier.
WorkflowsFinish ==
    FaultsEnd =>
        /\ \A w \in Uploads : work[w].step = "ready" ~>
               /\ work[w].step = "done"
               /\ streamPins[RunUser[w]][StreamOf(w)] # "none"
        /\ \A w \in Retrieves : work[w].step = "ready" /\ Asked[w] \in Network ~>
               /\ work[w].step = "done"
               /\ streamPins[RunUser[w]][Asked[w]] # "none"

-----------------------------------------------------------------------------
(* The inductive invariant.                                                *)

\* The workflows delete no blob.
RowsStay == \A b \in Blobs : blobRows[b].row # "deleted"

\* Blobs that the loop of the step has passed.
PassedBlobs(w) == {Content[StreamOf(w)][i] : i \in 1 .. work[w].next - 1}

\* What a workflow has done when it stands at a step.
WorkHasDone(w) ==
    /\ work[w].step = "addBlobs" => streams[StreamOf(w)].stored
    /\ work[w].step \in {"pinBlobs", "pinStream", "finish", "done"} =>
           Published(StreamOf(w))
    /\ work[w].step = "pinBlobs" => PassedBlobs(w) \subseteq corePins[RunUser[w]]
    /\ work[w].step \in {"pinStream", "finish", "done"} =>
           ContentBlobs(StreamOf(w)) \subseteq corePins[RunUser[w]]
    /\ w \in Uploads =>
           /\ work[w].step \in {"chunk", "chunkRow"} =>
                  \A b \in PassedBlobs(w) : HasBlob(b)
           /\ work[w].step = "chunkRow" => NextBlob(w) \in objects
           /\ work[w].step = "addStream" =>
                  \A b \in ContentBlobs(StreamOf(w)) : HasBlob(b)
    /\ w \in Retrieves /\ work[w].step = "addStream" /\ StreamOf(w) \in MadeStreams =>
           streams[StreamOf(w)].stored

IInv ==
    /\ TypeOK
    /\ RowsStay
    /\ RowsFollowStreams
    /\ PinnedStreamReadable
    /\ PublishedIsStored
    /\ \A w \in Works : WorkHasDone(w)
=============================================================================
