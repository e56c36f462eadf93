------------------------ MODULE StreamWorkflowsProofs ------------------------
(***************************************************************************)
(* Proofs about StreamWorkflows, for every value of its constants.         *)
(***************************************************************************)
EXTENDS StreamWorkflows, BlobStoreFacts

\* The part of the invariant that is about the tables, and what the tables keep for
\* the workflows that are under way: nothing is ever taken from them.
StoreInv ==
    /\ TablesInv
    /\ PinsTypeOK
    /\ RowsStay
    /\ PinnedStreamReadable
    /\ PublishedIsStored

StoreGrows ==
    /\ BlobStoreGrows
    /\ \A u \in Users : corePins[u] \subseteq corePins'[u]

-----------------------------------------------------------------------------
(* Streams and workflows.                                                  *)

LEMMA Stream ==
    ASSUME TypeOK, NEW w \in Works
    PROVE  /\ StreamOf(w) \in SDs
           /\ RunUser[w] \in Users
           /\ NextBlob(w) \in ContentBlobs(StreamOf(w))
           /\ ContentBlobs(StreamOf(w)) \subseteq Blobs
           /\ PassedBlobs(w) \subseteq ContentBlobs(StreamOf(w))
           /\ work[w].next \in 1 .. Len(Content[StreamOf(w)])
           /\ Len(Content[StreamOf(w)]) \in Nat \ {0}
           /\ DOMAIN Content[StreamOf(w)] = 1 .. Len(Content[StreamOf(w)])
<1>1. StreamOf(w) \in SDs
  BY WorkflowsAssumption DEF TypeOK, StreamOf, Works
<1>2. /\ Len(Content[StreamOf(w)]) \in Nat \ {0}
      /\ DOMAIN Content[StreamOf(w)] = 1 .. Len(Content[StreamOf(w)])
      /\ ContentBlobs(StreamOf(w)) \subseteq Blobs
  BY <1>1, ContentFacts
<1>3. work[w].next \in 1 .. Len(Content[StreamOf(w)])
  BY <1>2 DEF TypeOK
<1>4. PassedBlobs(w) \subseteq ContentBlobs(StreamOf(w))
  BY <1>2, <1>3 DEF PassedBlobs, ContentBlobs
<1>5. RunUser[w] \in Users /\ NextBlob(w) \in ContentBlobs(StreamOf(w))
  BY <1>2, <1>3, WorkflowsAssumption DEF NextBlob, ContentBlobs
<1>6. QED
  BY <1>1, <1>2, <1>3, <1>4, <1>5

LEMMA AllBlobs ==
    ASSUME TypeOK, NEW w \in Works, work[w].next >= Len(Content[StreamOf(w)])
    PROVE  PassedBlobs(w) \cup {NextBlob(w)} = ContentBlobs(StreamOf(w))
<1>1. /\ work[w].next = Len(Content[StreamOf(w)])
      /\ Len(Content[StreamOf(w)]) \in Nat \ {0}
      /\ DOMAIN Content[StreamOf(w)] = 1 .. Len(Content[StreamOf(w)])
  BY Stream
<1>2. QED
  BY <1>1 DEF PassedBlobs, NextBlob, ContentBlobs

LEMMA InvInit == Init => IInv
<1> SUFFICES ASSUME Init PROVE IInv
  OBVIOUS
<1> USE DEF Init, BlobStoreInit, PinsInit
<1>1. BlobStoreTypeOK /\ PinsTypeOK
  BY DEF BlobStoreTypeOK, StreamRow, BlobRow, PinsTypeOK, RowStates
<1>2. \A w \in Uploads : 1 \in DOMAIN Makes[w] /\ Makes[w][1] \in SDs
  BY WorkflowsAssumption
<1>3. \A w \in Works : work[w] = Progress("unused", 1, 1)
  OBVIOUS
<1>4. \A w \in Works : StreamOf(w) \in SDs
  BY <1>2, <1>3, WorkflowsAssumption DEF StreamOf, Progress, Works
<1>5. \A s \in SDs : 1 \in DOMAIN Content[s]
  BY ContentFacts
<1>6. TypeOK
  <2>1. work \in [Works -> [step : WorkSteps, try : Nat \ {0}, next : Nat \ {0}]]
    BY DEF Progress, WorkSteps
  <2>2. \A w \in Uploads : work[w].try \in DOMAIN Makes[w]
    BY <1>2, <1>3 DEF Progress, Works
  <2>3. \A w \in Works : work[w].next \in DOMAIN Content[StreamOf(w)]
    BY <1>3, <1>4, <1>5 DEF Progress
  <2>4. QED
    BY <1>1, <2>1, <2>2, <2>3 DEF TypeOK
<1>7. RowsStay /\ RowsFollowStreams /\ PinnedStreamReadable /\ PublishedIsStored
  BY DEF RowsStay, RowsFollowStreams, PinnedStreamReadable, PublishedIsStored, MadeStreams
<1>8. \A w \in Works : WorkHasDone(w)
  BY <1>3 DEF WorkHasDone, Progress
<1>9. QED
  BY <1>6, <1>7, <1>8 DEF IInv

-----------------------------------------------------------------------------
(* The tables.                                                             *)

\* What is pinned stays published, and what is published stays stored, if only a
\* published stream is pinned and only a stored one published.
LEMMA StoreGoesTo ==
    ASSUME StoreInv, TablesInv', BlobStoreGrows, PinsTypeOK', RowsStay',
           \A u \in Users : corePins[u] \subseteq corePins'[u],
           \A u \in Users, s \in SDs : streamPins'[u][s] # "none" =>
               \/ streamPins[u][s] # "none"
               \/ Published(s) /\ ContentBlobs(s) \subseteq corePins[u],
           \A s \in MadeStreams : streams'[s].stored =>
               streams[s].stored \/ \A b \in ContentBlobs(s) : HasBlob(b)
    PROVE  StoreInv' /\ StoreGrows
<1>1. PinnedStreamReadable'
  <2> SUFFICES ASSUME NEW u \in Users, NEW s \in SDs, streamPins'[u][s] # "none"
               PROVE  Published(s)' /\ ContentBlobs(s) \subseteq corePins'[u]
    BY DEF PinnedStreamReadable
  <2>1. Published(s) /\ ContentBlobs(s) \subseteq corePins[u]
    BY DEF StoreInv, PinnedStreamReadable
  <2>2. QED
    BY <2>1 DEF BlobStoreGrows
<1>2. PublishedIsStored'
  <2> SUFFICES ASSUME NEW s \in MadeStreams, streams'[s].stored, NEW b \in ContentBlobs(s)
               PROVE  HasBlob(b)'
    BY DEF PublishedIsStored, MadeStreams
  <2>1. b \in Blobs
    BY ContentFacts DEF MadeStreams
  <2>2. HasBlob(b)
    BY DEF StoreInv, PublishedIsStored
  <2>3. QED
    BY <2>1, <2>2 DEF BlobStoreGrows
<1>3. QED
  BY <1>1, <1>2 DEF StoreInv, StoreGrows

LEMMA StoreFrame ==
    ASSUME StoreInv, UNCHANGED <<blobStoreVars, pinVars>>
    PROVE  StoreInv' /\ StoreGrows
<1>1. TablesInv' /\ BlobStoreGrows
  BY SameStoreGrows DEF StoreInv
<1>2. QED
  BY <1>1, StoreGoesTo DEF StoreInv, blobStoreVars, pinVars, PinsTypeOK, RowsStay

LEMMA GrowStream ==
    ASSUME StoreInv, NEW s \in SDs, UpsertStream(s), UNCHANGED pinVars,
           s \in MadeStreams => \A b \in ContentBlobs(s) : HasBlob(b)
    PROVE  StoreInv' /\ StoreGrows /\ streams'[s].stored
<1>1. TablesInv' /\ BlobStoreGrows /\ streams'[s].stored
  BY UpsertStreamGrows DEF StoreInv
<1>2. \A t \in SDs : t # s => streams'[t].stored = streams[t].stored
  BY UpsertStreamRows DEF StoreInv, TablesInv
<1>3. QED
  BY <1>1, <1>2, StoreGoesTo DEF StoreInv, UpsertStream, pinVars, PinsTypeOK, RowsStay,
     MadeStreams

LEMMA GrowStreamBlobs ==
    ASSUME StoreInv, NEW s \in SDs, streams[s].stored, ProcessStreamBlobs(s),
           UNCHANGED pinVars
    PROVE  StoreInv' /\ StoreGrows /\ Published(s)'
<1>1. TablesInv' /\ BlobStoreGrows /\ Published(s)'
  BY ProcessStreamBlobsGrows DEF StoreInv
<1>2. /\ \A t \in SDs : streams'[t].stored => streams[t].stored
      /\ RowsStay'
  BY ProcessStreamBlobsRows DEF StoreInv, RowsStay
<1>3. QED
  BY <1>1, <1>2, StoreGoesTo DEF StoreInv, pinVars, PinsTypeOK, MadeStreams

LEMMA GrowObject ==
    ASSUME StoreInv, NEW b \in Blobs, UploadObject(b), UNCHANGED pinVars
    PROVE  StoreInv' /\ StoreGrows
<1>1. TablesInv' /\ BlobStoreGrows
  BY BlobGrows DEF StoreInv
<1>2. QED
  BY <1>1, StoreGoesTo DEF StoreInv, UploadObject, pinVars, PinsTypeOK, RowsStay

LEMMA GrowRow ==
    ASSUME StoreInv, NEW b \in Blobs, UpsertBlobRecord(b), UNCHANGED pinVars
    PROVE  StoreInv' /\ StoreGrows /\ HasBlobMetadata(b)'
<1>1. TablesInv' /\ BlobStoreGrows
  BY BlobGrows DEF StoreInv
<1>2. RowsStay' /\ HasBlobMetadata(b)'
  BY UpsertBlobRecordRows DEF StoreInv, TablesInv, BlobStoreTypeOK, BlobRow, RowStates,
     RowsStay, HasBlobMetadata
<1>3. QED
  BY <1>1, <1>2, StoreGoesTo DEF StoreInv, UpsertBlobRecord, pinVars, PinsTypeOK

LEMMA GrowPins ==
    ASSUME StoreInv, NEW u \in Users, UNCHANGED blobStoreVars,
           \/ \E b \in Blobs : ProcessUploadBlob(u, b)
           \/ \E s \in SDs : /\ CreateStreamPin(u, s) \/ DeleteStream(u, s)
                             /\ Published(s)
                             /\ ContentBlobs(s) \subseteq corePins[u]
    PROVE  StoreInv' /\ StoreGrows
<1>1. /\ TablesInv' /\ BlobStoreGrows /\ RowsStay'
      /\ \A s \in SDs : streams'[s].stored = streams[s].stored
  BY SameStoreGrows DEF StoreInv, RowsStay, blobStoreVars
<1>2. ASSUME NEW b \in Blobs, ProcessUploadBlob(u, b) PROVE StoreInv' /\ StoreGrows
  <2>1. PinsTypeOK' /\ \A v \in Users : corePins[v] \subseteq corePins'[v]
    BY <1>2 DEF ProcessUploadBlob, StoreInv, PinsTypeOK
  <2>2. QED
    BY <1>1, <1>2, <2>1, StoreGoesTo DEF ProcessUploadBlob, MadeStreams
<1>3. ASSUME NEW s \in SDs, CreateStreamPin(u, s) \/ DeleteStream(u, s),
             Published(s), ContentBlobs(s) \subseteq corePins[u]
      PROVE  StoreInv' /\ StoreGrows
  <2>1. PinsTypeOK' /\ UNCHANGED corePins
    BY <1>3 DEF CreateStreamPin, DeleteStream, StoreInv, PinsTypeOK, RowStates
  <2>2. \A v \in Users, t \in SDs : v # u \/ t # s => streamPins'[v][t] = streamPins[v][t]
    BY <1>3 DEF CreateStreamPin, DeleteStream, StoreInv, PinsTypeOK
  <2>3. QED
    BY <1>1, <1>3, <2>1, <2>2, StoreGoesTo DEF MadeStreams
<1>4. QED
  BY <1>2, <1>3

-----------------------------------------------------------------------------
(* The workflows.                                                          *)

\* A workflow goes on to r: what the others have done is still done.
LEMMA WorkGoesTo ==
    ASSUME IInv, StoreInv', StoreGrows, NEW w \in Works,
           NEW r \in [step : WorkSteps, try : Nat \ {0}, next : Nat \ {0}],
           work' = [work EXCEPT ![w] = r],
           w \in Uploads => r.try \in DOMAIN Makes[w],
           r.next \in DOMAIN Content[StreamOf(w)'],
           sources' \subseteq Uploads,
           WorkHasDone(w)'
    PROVE  IInv'
<1>1. ASSUME NEW o \in Works, o # w
      PROVE  /\ work'[o] = work[o]
             /\ StreamOf(o)' = StreamOf(o)
             /\ PassedBlobs(o)' = PassedBlobs(o)
             /\ NextBlob(o)' = NextBlob(o)
  BY <1>1 DEF StreamOf, PassedBlobs, NextBlob, IInv, TypeOK
<1>2. work'[w] = r
  BY DEF IInv, TypeOK
<1>3. TypeOK'
  <2>1. work' \in [Works -> [step : WorkSteps, try : Nat \ {0}, next : Nat \ {0}]]
    BY DEF IInv, TypeOK
  <2>2. \A o \in Uploads : work'[o].try \in DOMAIN Makes[o]
    BY <1>1, <1>2 DEF IInv, TypeOK, Works
  <2>3. \A o \in Works : work'[o].next \in DOMAIN Content[StreamOf(o)']
    BY <1>1, <1>2 DEF IInv, TypeOK
  <2>4. QED
    BY <2>1, <2>2, <2>3 DEF TypeOK, TablesInv, StoreInv
<1>4. ASSUME NEW o \in Works, o # w PROVE WorkHasDone(o)'
  <2>1. WorkHasDone(o) /\ TypeOK
    BY DEF IInv
  <2>2. /\ StreamOf(o) \in SDs
        /\ RunUser[o] \in Users
        /\ ContentBlobs(StreamOf(o)) \subseteq Blobs
        /\ PassedBlobs(o) \subseteq Blobs
    BY <2>1, Stream
  <2>3. QED
    BY <1>1, <1>4, <2>1, <2>2 DEF WorkHasDone, StoreGrows, BlobStoreGrows
<1>5. \A o \in Works : WorkHasDone(o)'
  BY <1>4
<1>6. QED
  BY <1>3, <1>5 DEF IInv, TablesInv, StoreInv

\* The same for a step that stays with the attempt: its stream is the same.
LEMMA WorkMoves ==
    ASSUME IInv, StoreInv', StoreGrows, NEW w \in Works, NEW step \in WorkSteps,
           NEW next \in DOMAIN Content[StreamOf(w)],
           work' = [work EXCEPT ![w] = Progress(step, work[w].try, next)],
           sources' \subseteq Uploads,
           /\ work'[w] = Progress(step, work[w].try, next)
           /\ StreamOf(w)' = StreamOf(w)
           => WorkHasDone(w)'
    PROVE  IInv'
<1> DEFINE r == Progress(step, work[w].try, next)
<1>1. next \in Nat \ {0}
  BY Stream DEF IInv
<1>2. /\ r \in [step : WorkSteps, try : Nat \ {0}, next : Nat \ {0}]
      /\ r.try = work[w].try
      /\ r.next = next
  BY <1>1 DEF Progress, IInv, TypeOK
<1>3. work'[w] = r
  BY DEF IInv, TypeOK
<1>4. StreamOf(w)' = StreamOf(w)
  BY <1>2, <1>3 DEF StreamOf
<1>5. WorkHasDone(w)'
  BY <1>3, <1>4
<1>6. w \in Uploads => r.try \in DOMAIN Makes[w]
  BY <1>2 DEF IInv, TypeOK
<1> HIDE DEF r
<1>7. work' = [work EXCEPT ![w] = r]
  BY DEF r
<1>8. r.next \in DOMAIN Content[StreamOf(w)']
  BY <1>2, <1>4
<1>9. QED
  BY <1>2, <1>5, <1>6, <1>7, <1>8, WorkGoesTo

LEMMA FirstOf ==
    ASSUME IInv, NEW w \in Works
    PROVE  1 \in DOMAIN Content[StreamOf(w)]
BY Stream DEF IInv

\* A workflow that goes to the beginning of a step has passed no blob in it.
LEMMA GoesTo ==
    ASSUME IInv, StoreInv', StoreGrows, NEW w \in Works, NEW step \in WorkSteps,
           GoTo(w, step), NEW s \in SDs, s = StreamOf(w),
           sources' \subseteq Uploads, step # "chunkRow",
           step = "addBlobs" => streams'[s].stored,
           step \in {"pinBlobs", "pinStream", "finish", "done"} =>
               Published(s)',
           step \in {"pinStream", "finish", "done"} =>
               ContentBlobs(s) \subseteq corePins'[RunUser[w]],
           w \in Uploads /\ step = "addStream" =>
               \A b \in ContentBlobs(s) : HasBlob(b)',
           w \in Retrieves /\ step = "addStream" /\ s \in MadeStreams =>
               streams'[s].stored
    PROVE  IInv'
<1>1. work' = [work EXCEPT ![w] = Progress(step, work[w].try, 1)]
  BY DEF GoTo, IInv, TypeOK
<1>2. ASSUME work'[w] = Progress(step, work[w].try, 1), StreamOf(w)' = StreamOf(w)
      PROVE  WorkHasDone(w)'
  <2>1. /\ work'[w].step = step /\ work'[w].next = 1
        /\ PassedBlobs(w)' = {}
    BY <1>2 DEF Progress, PassedBlobs
  <2>2. QED
    BY <1>2, <2>1 DEF WorkHasDone
<1>3. QED
  BY <1>1, <1>2, FirstOf, WorkMoves

\* A turn of a loop: the blob at which it stood is passed, or was the last.
LEMMA LoopsTo ==
    ASSUME IInv, NEW w \in Works, NEW loop, NEW after, NextIn(w, loop, after)
    PROVE  \/ /\ work[w].next + 1 \in DOMAIN Content[StreamOf(w)]
              /\ work' = [work EXCEPT ![w] = Progress(loop, work[w].try, work[w].next + 1)]
              /\ work'[w] = Progress(loop, work[w].try, work[w].next + 1)
                     /\ StreamOf(w)' = StreamOf(w)
                  => PassedBlobs(w)' = PassedBlobs(w) \cup {NextBlob(w)}
           \/ /\ GoTo(w, after)
              /\ PassedBlobs(w) \cup {NextBlob(w)} = ContentBlobs(StreamOf(w))
<1>1. /\ TypeOK
      /\ work[w].next \in 1 .. Len(Content[StreamOf(w)])
      /\ Len(Content[StreamOf(w)]) \in Nat \ {0}
      /\ DOMAIN Content[StreamOf(w)] = 1 .. Len(Content[StreamOf(w)])
  BY Stream DEF IInv
<1>2. CASE work[w].next < Len(Content[StreamOf(w)])
  <2>1. work[w].next + 1 \in DOMAIN Content[StreamOf(w)]
    BY <1>1, <1>2
  <2>2. work' = [work EXCEPT ![w] = Progress(loop, work[w].try, work[w].next + 1)]
    BY <1>2 DEF NextIn, IInv, TypeOK
  <2>3. ASSUME work'[w] = Progress(loop, work[w].try, work[w].next + 1),
               StreamOf(w)' = StreamOf(w)
        PROVE  PassedBlobs(w)' = PassedBlobs(w) \cup {NextBlob(w)}
    <3>1. work'[w].next = work[w].next + 1
      BY <2>3 DEF Progress
    <3>2. 1 .. work'[w].next - 1 = (1 .. work[w].next - 1) \cup {work[w].next}
      BY <1>1, <3>1
    <3>3. QED
      BY <2>3, <3>2 DEF PassedBlobs, NextBlob
  <2>4. QED
    BY <2>1, <2>2, <2>3
<1>3. CASE ~(work[w].next < Len(Content[StreamOf(w)]))
  BY <1>1, <1>3, AllBlobs DEF NextIn
<1>4. QED
  BY <1>2, <1>3

\* The steps of the chunk handler.
LEMMA ChunkStep ==
    ASSUME IInv, NEW w \in Uploads, AddChunkObject(w) \/ AddChunkRow(w)
    PROVE  IInv'
<1>1. /\ w \in Works /\ StoreInv /\ WorkHasDone(w) /\ TypeOK
      /\ sources \subseteq Uploads
      /\ StreamOf(w) \in SDs
      /\ NextBlob(w) \in Blobs
      /\ PassedBlobs(w) \subseteq Blobs
      /\ "chunk" \in WorkSteps /\ "chunkRow" \in WorkSteps /\ "addStream" \in WorkSteps
  BY Stream DEF IInv, TypeOK, TablesInv, StoreInv, Works, WorkSteps
<1>2. CASE AddChunkObject(w)
  <2>1. StoreInv' /\ StoreGrows /\ NextBlob(w) \in objects'
    BY <1>1, <1>2, GrowObject DEF AddChunkObject, UploadObject
  <2>2. work' = [work EXCEPT ![w] = Progress("chunkRow", work[w].try, work[w].next)]
    BY <1>1, <1>2 DEF AddChunkObject, TypeOK
  <2>3. ASSUME work'[w] = Progress("chunkRow", work[w].try, work[w].next),
               StreamOf(w)' = StreamOf(w)
        PROVE  WorkHasDone(w)'
    <3>1. /\ work'[w].step = "chunkRow"
          /\ work'[w].next = work[w].next
          /\ PassedBlobs(w)' = PassedBlobs(w)
          /\ NextBlob(w)' = NextBlob(w)
      BY <2>3 DEF Progress, PassedBlobs, NextBlob
    <3>2. \A b \in PassedBlobs(w) : HasBlob(b)'
      BY <1>1, <1>2, <2>1 DEF AddChunkObject, WorkHasDone, StoreGrows, BlobStoreGrows
    <3>3. QED
      BY <2>1, <3>1, <3>2 DEF WorkHasDone
  <2>4. QED
    BY <1>1, <1>2, <2>1, <2>2, <2>3, WorkMoves DEF AddChunkObject, TypeOK
<1>3. CASE AddChunkRow(w)
  <2>1. PICK b \in Blobs : b = NextBlob(w)
    BY <1>1
  <2>2. StoreInv' /\ StoreGrows /\ HasBlobMetadata(b)'
    BY <1>1, <1>3, <2>1, GrowRow DEF AddChunkRow
  <2>3. b \in objects'
    BY <1>1, <1>3, <2>1, <2>2 DEF AddChunkRow, WorkHasDone, StoreGrows, BlobStoreGrows
  <2>4. \A o \in PassedBlobs(w) \cup {b} : HasBlob(o)'
    BY <1>1, <1>3, <2>2, <2>3 DEF AddChunkRow, WorkHasDone, StoreGrows, BlobStoreGrows, HasBlob
  <2>5. CASE /\ work[w].next + 1 \in DOMAIN Content[StreamOf(w)]
             /\ work' = [work EXCEPT ![w] = Progress("chunk", work[w].try, work[w].next + 1)]
             /\ work'[w] = Progress("chunk", work[w].try, work[w].next + 1)
                    /\ StreamOf(w)' = StreamOf(w)
                 => PassedBlobs(w)' = PassedBlobs(w) \cup {NextBlob(w)}
    <3>1. ASSUME work'[w] = Progress("chunk", work[w].try, work[w].next + 1),
                 StreamOf(w)' = StreamOf(w)
          PROVE  WorkHasDone(w)'
      <4>1. work'[w].step = "chunk" /\ PassedBlobs(w)' = PassedBlobs(w) \cup {b}
        BY <2>1, <2>5, <3>1 DEF Progress
      <4>2. QED
        BY <2>4, <4>1 DEF WorkHasDone
    <3>2. QED
      BY <1>1, <1>3, <2>2, <2>5, <3>1, WorkMoves DEF AddChunkRow
  <2>6. CASE /\ GoTo(w, "addStream")
             /\ PassedBlobs(w) \cup {NextBlob(w)} = ContentBlobs(StreamOf(w))
    <3>1. \A o \in ContentBlobs(StreamOf(w)) : HasBlob(o)'
      BY <2>1, <2>4, <2>6
    <3>2. w \notin Retrieves
      BY WorkflowsAssumption
    <3>3. QED
      BY <1>1, <1>3, <2>2, <2>6, <3>1, <3>2, GoesTo DEF AddChunkRow
  <2>7. QED
    BY <1>1, <1>3, <2>5, <2>6, LoopsTo DEF AddChunkRow
<1>4. QED
  BY <1>2, <1>3

\* The records of each blob, then the stream pin.
LEMMA PinStep ==
    ASSUME IInv, NEW w \in Works, PinNextBlob(w) \/ PinStream(w)
    PROVE  IInv'
<1>1. /\ StoreInv /\ WorkHasDone(w) /\ TypeOK
      /\ sources \subseteq Uploads
      /\ RunUser[w] \in Users
      /\ NextBlob(w) \in Blobs
      /\ PassedBlobs(w) \subseteq Blobs
      /\ "pinBlobs" \in WorkSteps /\ "pinStream" \in WorkSteps /\ "finish" \in WorkSteps
  BY Stream DEF IInv, TypeOK, TablesInv, StoreInv, WorkSteps
<1>2. PICK s \in SDs : s = StreamOf(w)
  BY <1>1, Stream
<1>3. CASE PinNextBlob(w)
  <2>1. StoreInv' /\ StoreGrows /\ UNCHANGED sources
    BY <1>1, <1>3, GrowPins DEF PinNextBlob
  <2>2. Published(s)'
    BY <1>1, <1>2, <1>3, <2>1 DEF PinNextBlob, WorkHasDone, StoreGrows, BlobStoreGrows
  <2>3. PassedBlobs(w) \cup {NextBlob(w)} \subseteq corePins'[RunUser[w]]
    BY <1>1, <1>3, <2>1 DEF PinNextBlob, ProcessUploadBlob, WorkHasDone, StoreInv, PinsTypeOK
  <2>4. CASE /\ work[w].next + 1 \in DOMAIN Content[StreamOf(w)]
             /\ work' = [work EXCEPT ![w] = Progress("pinBlobs", work[w].try, work[w].next + 1)]
             /\ work'[w] = Progress("pinBlobs", work[w].try, work[w].next + 1)
                    /\ StreamOf(w)' = StreamOf(w)
                 => PassedBlobs(w)' = PassedBlobs(w) \cup {NextBlob(w)}
    <3>1. ASSUME work'[w] = Progress("pinBlobs", work[w].try, work[w].next + 1),
                 StreamOf(w)' = StreamOf(w)
          PROVE  WorkHasDone(w)'
      <4>1. /\ work'[w].step = "pinBlobs"
            /\ PassedBlobs(w)' = PassedBlobs(w) \cup {NextBlob(w)}
        BY <2>4, <3>1 DEF Progress
      <4>2. QED
        BY <1>2, <2>2, <2>3, <3>1, <4>1 DEF WorkHasDone
    <3>2. QED
      BY <1>1, <2>1, <2>4, <3>1, WorkMoves
  <2>5. CASE /\ GoTo(w, "pinStream")
             /\ PassedBlobs(w) \cup {NextBlob(w)} = ContentBlobs(StreamOf(w))
    BY <1>1, <1>2, <2>1, <2>2, <2>3, <2>5, GoesTo
  <2>6. QED
    BY <1>1, <1>3, <2>4, <2>5, LoopsTo DEF PinNextBlob
<1>4. CASE PinStream(w)
  <2>1. Published(s) /\ ContentBlobs(s) \subseteq corePins[RunUser[w]]
    BY <1>1, <1>2, <1>4 DEF PinStream, WorkHasDone
  <2>2. StoreInv' /\ StoreGrows /\ UNCHANGED sources
    BY <1>1, <1>2, <1>4, <2>1, GrowPins DEF PinStream
  <2>3. Published(s)' /\ ContentBlobs(s) \subseteq corePins'[RunUser[w]]
    BY <1>1, <2>1, <2>2 DEF StoreGrows, BlobStoreGrows
  <2>4. QED
    BY <1>1, <1>2, <1>4, <2>2, <2>3, GoesTo DEF PinStream
<1>5. QED
  BY <1>3, <1>4

\* AddSDBlob.
LEMMA AddStep ==
    ASSUME IInv, NEW w \in Works, AddStream(w) \/ AddStreamBlobs(w)
    PROVE  IInv'
<1>1. /\ StoreInv /\ WorkHasDone(w) /\ TypeOK
      /\ sources \subseteq Uploads
      /\ "addBlobs" \in WorkSteps /\ "pinBlobs" \in WorkSteps
  BY DEF IInv, TypeOK, TablesInv, StoreInv, WorkSteps
<1>2. PICK s \in SDs : s = StreamOf(w)
  BY <1>1, Stream
<1>3. CASE AddStream(w)
  <2>1. s \in MadeStreams => \A b \in ContentBlobs(s) : HasBlob(b)
    <3>1. CASE w \in Uploads
      BY <1>1, <1>2, <1>3, <3>1 DEF AddStream, WorkHasDone
    <3>2. CASE w \in Retrieves
      BY <1>1, <1>2, <1>3, <3>2 DEF AddStream, WorkHasDone, StoreInv, PublishedIsStored
    <3>3. QED
      BY <3>1, <3>2 DEF Works
  <2>2. StoreInv' /\ StoreGrows /\ streams'[s].stored
    BY <1>1, <1>2, <1>3, <2>1, GrowStream DEF AddStream
  <2>3. QED
    BY <1>1, <1>2, <1>3, <2>2, GoesTo DEF AddStream
<1>4. CASE AddStreamBlobs(w)
  <2>1. StoreInv' /\ StoreGrows /\ Published(s)'
    BY <1>1, <1>2, <1>4, GrowStreamBlobs DEF AddStreamBlobs, WorkHasDone
  <2>2. QED
    BY <1>1, <1>2, <1>4, <2>1, GoesTo DEF AddStreamBlobs
<1>5. QED
  BY <1>3, <1>4

\* What a workflow has done depends on the blob store, the CoreInstance and its place only.
LEMMA SameDone ==
    ASSUME \A w \in Works : WorkHasDone(w), UNCHANGED <<blobStoreVars, corePins, work>>
    PROVE  (\A w \in Works : WorkHasDone(w))'
<1>1. \A w \in Works : WorkHasDone(w)' = WorkHasDone(w)
  BY DEF WorkHasDone, StreamOf, PassedBlobs, NextBlob, blobStoreVars, Published, StreamWhole,
         SDBlobReadable, HasRival, HasBlob, HasBlobMetadata
<1>2. QED
  BY <1>1

\* Steps that write no table.
LEMMA OtherStep ==
    ASSUME IInv, NEW w \in Works,
           \/ /\ w \in Uploads
              /\ \/ HandleUpload(w) \/ StartUpload(w) \/ RefuseUpload(w) \/ OpenSource(w)
                 \/ UploadFails(w) \/ Cleanup(w)
           \/ /\ w \in Retrieves
              /\ HandleStreamPin(w) \/ AcquireSDBlob(w) \/ RetrieveFails(w)
           \/ Finish(w)
    PROVE  IInv'
<1>1. /\ StoreInv /\ WorkHasDone(w) /\ TypeOK
      /\ {"sent", "ready", "refused", "chunk", "addStream", "done"} \subseteq WorkSteps
  BY DEF IInv, TypeOK, TablesInv, StoreInv, WorkSteps
<1>2. PICK s \in SDs : s = StreamOf(w)
  BY <1>1, Stream
<1>3. StoreInv' /\ StoreGrows /\ sources' \subseteq Uploads
  <2>1. UNCHANGED <<blobStoreVars, pinVars>> /\ sources' \subseteq Uploads
    BY <1>1 DEF HandleUpload, StartUpload, RefuseUpload, OpenSource, UploadFails, Cleanup,
           HandleStreamPin, AcquireSDBlob, RetrieveFails, Finish, TypeOK
  <2>2. QED
    BY <1>1, <2>1, StoreFrame
<1>4. CASE \E step \in {"sent", "ready", "refused", "chunk"} : GoTo(w, step)
  BY <1>1, <1>2, <1>3, <1>4, GoesTo
<1>5. CASE AcquireSDBlob(w) /\ w \in Retrieves
  <2>1. s \in MadeStreams => streams'[s].stored
    BY <1>2, <1>5, WorkflowsAssumption DEF AcquireSDBlob, SDBlobReadable, blobStoreVars
  <2>2. w \notin Uploads
    BY <1>5, WorkflowsAssumption
  <2>3. QED
    BY <1>1, <1>2, <1>3, <1>5, <2>1, <2>2, GoesTo DEF AcquireSDBlob
<1>6. CASE Finish(w)
  <2>1. Published(s)' /\ ContentBlobs(s) \subseteq corePins'[RunUser[w]]
    BY <1>1, <1>2, <1>3, <1>6, WorkflowsAssumption DEF Finish, WorkHasDone, StoreGrows, BlobStoreGrows, Works
  <2>2. QED
    BY <1>1, <1>2, <1>3, <1>6, <2>1, GoesTo DEF Finish
<1>7. CASE UploadFails(w) /\ w \in Uploads
  <2> DEFINE r == Progress("ready", work[w].try + 1, 1)
  <2>1. /\ work[w].try + 1 \in Nat \ {0}
        /\ work[w].try + 1 \in DOMAIN Makes[w]
        /\ Makes[w][work[w].try + 1] \in SDs
    BY <1>1, <1>7, WorkflowsAssumption DEF UploadFails, TypeOK
  <2>2. /\ r \in [step : WorkSteps, try : Nat \ {0}, next : Nat \ {0}]
        /\ r.step = "ready" /\ r.try = work[w].try + 1 /\ r.next = 1
    BY <1>1, <2>1 DEF Progress
  <2>3. work' = [work EXCEPT ![w] = r] /\ work'[w] = r
    BY <1>1, <1>7 DEF UploadFails, TypeOK
  <2> HIDE DEF r
  <2>4. WorkHasDone(w)'
    BY <2>2, <2>3 DEF WorkHasDone
  <2>5. StreamOf(w)' \in SDs
    BY <1>7, <2>1, <2>2, <2>3 DEF StreamOf
  <2>6. r.next \in DOMAIN Content[StreamOf(w)']
    BY <2>2, <2>5, ContentFacts
  <2>7. QED
    BY <1>3, <2>1, <2>2, <2>3, <2>4, <2>6, WorkGoesTo
<1>8. CASE Cleanup(w)
  <2>1. UNCHANGED <<blobStoreVars, pinVars, work>>
    BY <1>8 DEF Cleanup
  <2>2. \A o \in Works : WorkHasDone(o)'
    BY <2>1, SameDone DEF IInv, pinVars
  <2>3. TypeOK'
    BY <1>1, <1>3, <2>1 DEF TypeOK, TablesInv, StreamOf, StoreInv
  <2>4. QED
    BY <1>3, <2>2, <2>3 DEF IInv, TablesInv, StoreInv
<1>9. QED
  BY <1>4, <1>5, <1>6, <1>7, <1>8 DEF HandleUpload, StartUpload, RefuseUpload, OpenSource,
         HandleStreamPin, RetrieveFails

LEMMA UnpinStep ==
    ASSUME IInv, NEW u \in Users, NEW s \in SDs, HandleStreamDelete(u, s)
    PROVE  IInv'
<1>1. StoreInv /\ TypeOK
  BY DEF IInv, TypeOK, TablesInv, StoreInv
<1>2. Published(s) /\ ContentBlobs(s) \subseteq corePins[u]
  BY <1>1 DEF HandleStreamDelete, DeleteStream, StoreInv, PinnedStreamReadable
<1>3. StoreInv' /\ UNCHANGED <<blobStoreVars, corePins, work, sources>>
  BY <1>1, <1>2, GrowPins DEF HandleStreamDelete, DeleteStream
<1>4. \A o \in Works : WorkHasDone(o)'
  BY <1>3, SameDone DEF IInv
<1>5. TypeOK'
  BY <1>1, <1>3 DEF TypeOK, TablesInv, StreamOf, StoreInv
<1>6. QED
  BY <1>3, <1>4, <1>5 DEF IInv, TablesInv, StoreInv

LEMMA InvNext == IInv /\ [Next]_vars => IInv'
<1> SUFFICES ASSUME IInv, [Next]_vars PROVE IInv'
  OBVIOUS
<1>1. ASSUME NEW w \in Uploads, UploadNext(w) PROVE IInv'
  <2>1. w \in Works
    BY DEF Works
  <2>2. QED
    BY <1>1, <2>1, ChunkStep, PinStep, AddStep, OtherStep
       DEF UploadNext, UploadProgress, StreamProgress
<1>2. ASSUME NEW w \in Retrieves, RetrieveNext(w) PROVE IInv'
  <2>1. w \in Works
    BY DEF Works
  <2>2. QED
    BY <1>2, <2>1, PinStep, AddStep, OtherStep
       DEF RetrieveNext, RetrieveProgress, StreamProgress
<1>3. ASSUME NEW u \in Users, NEW s \in SDs, HandleStreamDelete(u, s) PROVE IInv'
  BY <1>3, UnpinStep
<1>4. CASE UNCHANGED vars
  <2>1. StoreInv' /\ UNCHANGED <<blobStoreVars, pinVars, work, sources>>
    BY <1>4, StoreFrame DEF vars, IInv, TypeOK, TablesInv, StoreInv
  <2>2. \A o \in Works : WorkHasDone(o)'
    BY <2>1, SameDone DEF IInv, pinVars
  <2>3. TypeOK'
    BY <2>1 DEF IInv, TypeOK, TablesInv, StreamOf, StoreInv
  <2>4. QED
    BY <2>1, <2>2, <2>3 DEF IInv, TablesInv, StoreInv
<1>5. QED
  BY <1>1, <1>2, <1>3, <1>4 DEF Next

-----------------------------------------------------------------------------
(* What readers see.                                                       *)

LEMMA WorksKeepTables == IInv => TablesInv
BY DEF IInv, TypeOK, TablesInv

\* Readers see the workflows put what they store.
LEMMA ShelfNext ==
    ASSUME IInv, [Next]_vars
    PROVE  [Shelf!Put]_(Shelf!shelfVars)
<1>1. TablesInv
  BY WorksKeepTables
<1>2. CASE UNCHANGED blobStoreVars
  BY <1>2, ShelfFrame
<1>3. ASSUME NEW w \in Works,
             \/ AddStream(w) \/ AddStreamBlobs(w)
             \/ w \in Uploads /\ (AddChunkObject(w) \/ AddChunkRow(w))
      PROVE  [Shelf!Put]_(Shelf!shelfVars)
  <2>1. StreamOf(w) \in SDs /\ NextBlob(w) \in Blobs
    BY Stream DEF IInv
  <2>2. CASE AddStream(w)
    BY <1>1, <2>1, <2>2, ShelfKeeps DEF AddStream
  <2>3. CASE AddStreamBlobs(w)
    <3>1. streams[StreamOf(w)].stored
      BY <2>3 DEF AddStreamBlobs, IInv, WorkHasDone
    <3>2. QED
      BY <1>1, <2>1, <2>3, <3>1, ShelfPublish DEF AddStreamBlobs, Shelf!Put
  <2>4. CASE AddChunkObject(w)
    BY <1>1, <2>1, <2>4, ShelfServe DEF AddChunkObject, Shelf!Put
  <2>5. CASE AddChunkRow(w)
    BY <1>1, <2>1, <2>5, ShelfServe DEF AddChunkRow, Shelf!Put
  <2>6. QED
    BY <1>3, <2>2, <2>3, <2>4, <2>5
<1>4. ASSUME NEW w \in Uploads, UploadNext(w) PROVE [Shelf!Put]_(Shelf!shelfVars)
  BY <1>2, <1>3, <1>4 DEF UploadNext, UploadProgress, StreamProgress, HandleUpload,
     StartUpload, RefuseUpload, OpenSource, PinNextBlob, PinStream, Finish, UploadFails,
     Cleanup, Works
<1>5. ASSUME NEW w \in Retrieves, RetrieveNext(w) PROVE [Shelf!Put]_(Shelf!shelfVars)
  BY <1>2, <1>3, <1>5 DEF RetrieveNext, RetrieveProgress, StreamProgress, HandleStreamPin,
     AcquireSDBlob, PinNextBlob, PinStream, Finish, RetrieveFails, Works
<1>6. QED
  BY <1>2, <1>4, <1>5 DEF Next, vars, HandleStreamDelete

-----------------------------------------------------------------------------
(* What the steps of a workflow need.                                      *)

SourcesKept ==
    \A w \in Uploads :
        work[w].step \notin {"unused", "refused", "done"} => w \in sources

FinishedPinned ==
    \A w \in Works : work[w].step \in {"finish", "done"} =>
        streamPins[RunUser[w]][StreamOf(w)] # "none"

\* A pin may be deleted, and is never gone.
LEMMA PinsStay ==
    ASSUME TypeOK, [Next]_vars, NEW u \in Users, NEW s \in SDs, streamPins[u][s] # "none"
    PROVE  streamPins'[u][s] # "none"
<1>1. streamPins \in [Users -> [SDs -> RowStates]]
  BY DEF TypeOK, PinsTypeOK
<1>2. CASE UNCHANGED streamPins
  BY <1>2
<1>3. ASSUME NEW v \in Users, NEW t \in SDs, CreateStreamPin(v, t) \/ DeleteStream(v, t)
      PROVE  streamPins'[u][s] # "none"
  BY <1>1, <1>3 DEF CreateStreamPin, DeleteStream
<1>4. ASSUME NEW w \in Works, StreamProgress(w) PROVE streamPins'[u][s] # "none"
  <2>1. StreamOf(w) \in SDs /\ RunUser[w] \in Users
    BY Stream
  <2>2. QED
    BY <1>2, <1>3, <1>4, <2>1 DEF StreamProgress, AddStream, AddStreamBlobs, PinNextBlob,
       ProcessUploadBlob, PinStream, Finish, pinVars
<1>5. ASSUME NEW w \in Uploads, UploadNext(w) PROVE streamPins'[u][s] # "none"
  BY <1>2, <1>4, <1>5 DEF UploadNext, UploadProgress, HandleUpload, StartUpload, RefuseUpload,
     OpenSource, AddChunkObject, AddChunkRow, UploadFails, Cleanup, pinVars, Works
<1>6. ASSUME NEW w \in Retrieves, RetrieveNext(w) PROVE streamPins'[u][s] # "none"
  BY <1>2, <1>4, <1>6 DEF RetrieveNext, RetrieveProgress, HandleStreamPin, AcquireSDBlob,
     RetrieveFails, pinVars, Works
<1>7. QED
  BY <1>2, <1>3, <1>5, <1>6 DEF Next, HandleStreamDelete, vars, pinVars

\* A workflow is moved by its own steps only.
LEMMA OthersStay ==
    ASSUME TypeOK, [Next]_vars, NEW w \in Works
    PROVE  \/ work'[w] = work[w]
           \/ w \in Uploads /\ UploadNext(w)
           \/ w \in Retrieves /\ RetrieveNext(w)
<1>1. work \in [Works -> [step : WorkSteps, try : Nat \ {0}, next : Nat \ {0}]]
  BY DEF TypeOK
<1>2. ASSUME NEW v \in Works, v # w, UploadNext(v) \/ RetrieveNext(v) PROVE work'[w] = work[w]
  BY <1>1, <1>2 DEF UploadNext, UploadProgress, RetrieveNext, RetrieveProgress, StreamProgress,
     HandleUpload, StartUpload, RefuseUpload, OpenSource, AddChunkObject, AddChunkRow, AddStream,
     AddStreamBlobs, PinNextBlob, PinStream, Finish, UploadFails, Cleanup, HandleStreamPin,
     AcquireSDBlob, RetrieveFails, GoTo, NextIn
<1>3. QED
  BY <1>2 DEF Next, Works, vars, HandleStreamDelete

\* A workflow is at its end by pinning its stream, or by Finish.
LEMMA EndsByPinning ==
    ASSUME TypeOK, [Next]_vars, NEW w \in Works, work'[w].step \in {"finish", "done"}
    PROVE  \/ work'[w] = work[w]
           \/ PinStream(w) \/ Finish(w)
<1>1. work \in [Works -> [step : WorkSteps, try : Nat \ {0}, next : Nat \ {0}]]
  BY DEF TypeOK
<1>2. ASSUME NEW step, GoTo(w, step) PROVE work'[w].step = step
  BY <1>1, <1>2 DEF GoTo, Progress
<1>3. ASSUME NEW loop, NEW after, NextIn(w, loop, after) PROVE work'[w].step \in {loop, after}
  BY <1>1, <1>2, <1>3 DEF NextIn, Progress
<1>4. ASSUME AddChunkObject(w) \/ UploadFails(w) PROVE work'[w].step \in {"chunkRow", "ready"}
  BY <1>1, <1>4 DEF AddChunkObject, UploadFails, Progress
<1>5. ASSUME UploadNext(w) \/ RetrieveNext(w)
      PROVE  work'[w] = work[w] \/ PinStream(w) \/ Finish(w)
  BY <1>2, <1>3, <1>4, <1>5
     DEF UploadNext, UploadProgress, RetrieveNext, RetrieveProgress, StreamProgress,
         HandleUpload, StartUpload, RefuseUpload, OpenSource, AddChunkRow, AddStream,
         AddStreamBlobs, PinNextBlob, Cleanup, HandleStreamPin, AcquireSDBlob, RetrieveFails
<1>6. QED
  BY <1>5, OthersStay

LEMMA FinishedPinnedNext ==
    ASSUME TypeOK, FinishedPinned, [Next]_vars
    PROVE  FinishedPinned'
<1> SUFFICES ASSUME NEW w \in Works, work'[w].step \in {"finish", "done"}
             PROVE  streamPins'[RunUser[w]][StreamOf(w)'] # "none"
  BY DEF FinishedPinned
<1>1. StreamOf(w) \in SDs /\ RunUser[w] \in Users
  BY Stream
<1>2. /\ work \in [Works -> [step : WorkSteps, try : Nat \ {0}, next : Nat \ {0}]]
      /\ streamPins \in [Users -> [SDs -> RowStates]]
  BY DEF TypeOK, PinsTypeOK
<1>3. CASE work'[w] = work[w]
  <2>1. StreamOf(w)' = StreamOf(w)
    BY <1>3 DEF StreamOf
  <2>2. QED
    BY <1>1, <1>3, <2>1, PinsStay DEF FinishedPinned
<1>4. CASE PinStream(w) \/ Finish(w)
  <2>1. StreamOf(w)' = StreamOf(w)
    BY <1>2, <1>4 DEF PinStream, Finish, GoTo, Progress, StreamOf
  <2>2. CASE PinStream(w)
    BY <1>1, <1>2, <2>1, <2>2 DEF PinStream, CreateStreamPin
  <2>3. CASE Finish(w)
    BY <1>1, <2>1, <2>3, PinsStay DEF Finish, FinishedPinned
  <2>4. QED
    BY <1>4, <2>2, <2>3
<1>5. QED
  BY <1>3, <1>4, EndsByPinning

LEMMA SourcesKeptNext ==
    ASSUME TypeOK, SourcesKept, [Next]_vars
    PROVE  SourcesKept'
<1> SUFFICES ASSUME NEW w \in Uploads, work'[w].step \notin {"unused", "refused", "done"}
             PROVE  w \in sources'
  BY DEF SourcesKept
<1>1. work \in [Works -> [step : WorkSteps, try : Nat \ {0}, next : Nat \ {0}]] /\ w \in Works
  BY DEF TypeOK, Works
<1>2. CASE work[w].step \in {"unused", "refused", "done"}
  <2>1. UploadNext(w) /\ work'[w] # work[w]
    BY <1>1, <1>2, OthersStay, WorkflowsAssumption
  <2>2. HandleUpload(w)
    BY <1>2, <2>1 DEF UploadNext, UploadProgress, StreamProgress, StartUpload, RefuseUpload,
       OpenSource, AddChunkObject, AddChunkRow, AddStream, AddStreamBlobs, PinNextBlob, PinStream,
       Finish, UploadFails, Running, Cleanup
  <2>3. QED
    BY <2>2 DEF HandleUpload
<1>3. CASE work[w].step \notin {"unused", "refused", "done"}
  <2>1. w \in sources
    BY <1>3 DEF SourcesKept
  <2>2. ASSUME NEW v \in Uploads, UploadNext(v) PROVE w \in sources'
    BY <1>3, <2>1, <2>2 DEF UploadNext, UploadProgress, StreamProgress, HandleUpload, StartUpload,
       RefuseUpload, OpenSource, AddChunkObject, AddChunkRow, AddStream, AddStreamBlobs,
       PinNextBlob, PinStream, Finish, UploadFails, Cleanup
  <2>3. ASSUME NEW v \in Retrieves, RetrieveNext(v) PROVE sources' = sources
    BY <2>3 DEF RetrieveNext, RetrieveProgress, StreamProgress, HandleStreamPin, AcquireSDBlob,
       AddStream, AddStreamBlobs, PinNextBlob, PinStream, Finish, RetrieveFails
  <2>4. QED
    BY <2>1, <2>2, <2>3 DEF Next, HandleStreamDelete, vars
<1>4. QED
  BY <1>2, <1>3

-----------------------------------------------------------------------------
(* The theorems.                                                           *)

\* The tables and the workflows keep to their types and to what the workflows have
\* done.
THEOREM Inductive == Spec => []IInv
BY InvInit, InvNext, PTL DEF Spec

\* Every table and workflow keeps to its type, and every loop to its stream.
THEOREM TypeCorrect == Spec => []TypeOK
<1>1. IInv => TypeOK
  BY DEF IInv
<1>2. QED
  BY <1>1, Inductive, PTL

\* A pinned stream is readable, but for a stream that lists a blob of it under another
\* IV, and its user has the portal's pin of each blob, for any number of users,
\* workflows and attempts.
THEOREM PinnedIsReadable == Spec => []PinnedStreamReadable
<1>1. IInv => PinnedStreamReadable
  BY DEF IInv
<1>2. QED
  BY <1>1, Inductive, PTL

\* Where no two SD blobs list a blob under different IVs, a pinned stream can be read
\* under its SD hash.
THEOREM PinnedStreamsReadable ==
    ASSUME \A s, t \in SDs : ~Clash(s, t)
    PROVE  Spec => [](\A u \in Users, s \in SDs :
                          streamPins[u][s] # "none" => SDBlobReadable(s))
<1>1. PinnedStreamReadable =>
          \A u \in Users, s \in SDs : streamPins[u][s] # "none" => SDBlobReadable(s)
  BY DEF PinnedStreamReadable, Published, HasRival
<1>2. QED
  BY <1>1, PinnedIsReadable, PTL

\* A stream made here is not published before all of its data is stored.
THEOREM PublishedStreamsStored == Spec => []PublishedIsStored
<1>1. IInv => PublishedIsStored
  BY DEF IInv
<1>2. QED
  BY <1>1, Inductive, PTL

\* No step of a workflow waits for what has gone: every attempt finds its file, no
\* transaction is refused, and what is done is pinned.
THEOREM NotBlocked == Spec => []WorksNotBlocked
<1>1. Init => SourcesKept /\ FinishedPinned
  BY DEF Init, SourcesKept, FinishedPinned, Works, Progress
<1>2. IInv /\ SourcesKept /\ FinishedPinned /\ [Next]_vars => SourcesKept' /\ FinishedPinned'
  BY SourcesKeptNext, FinishedPinnedNext DEF IInv
<1>3. IInv /\ SourcesKept /\ FinishedPinned => WorksNotBlocked
  <2> SUFFICES ASSUME IInv, NEW w \in Works
               PROVE  /\ CanProcessStreamBlobs(StreamOf(w))
                      /\ work[w].step = "pinStream" => streams[StreamOf(w)].stored
    BY DEF WorksNotBlocked, SourcesKept, FinishedPinned
  <2>1. ContentBlobs(StreamOf(w)) \subseteq Blobs
    BY Stream DEF IInv
  <2>2. QED
    BY <2>1 DEF IInv, RowsStay, CanProcessStreamBlobs, WorkHasDone, Published,
           StreamWhole
<1>4. QED
  BY <1>1, <1>2, <1>3, Inductive, PTL DEF Spec

\* Uploads and pin requests, whatever fails and is done again, take nothing from the
\* readers of the permanent store but the SD blobs that clash with one they store.
THEOREM OnlyPuts == Spec => OnlyPutsOnShelf
<1>1. IInv /\ [Next]_vars => [Shelf!Put]_(Shelf!shelfVars)
  BY ShelfNext
<1>2. QED
  BY <1>1, ShelfInit, Inductive, PTL DEF Init, Spec, OnlyPutsOnShelf, Shelf!PutsOnlySpec
=============================================================================
