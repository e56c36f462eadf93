------------------------ MODULE ReflectorUploadPending ------------------------
(***************************************************************************)
(* Type correctness of ReflectorUpload and what holds of its pending rows, *)
(* for every value of its constants.                                       *)
(***************************************************************************)
EXTENDS ReflectorUpload, PendingUploadsFacts

-----------------------------------------------------------------------------
(* Facts about runs and rows.                                              *)

LEMMA RunParts ==
    ASSUME NEW w \in Runs
    PROVE  w[1] \in Users /\ w[2] \in SDs
BY DEF Runs

\* What an action makes of a row is a row.
LEMMA StreamRows ==
    ASSUME NEW r \in StreamRow, NEW X \in SUBSET Blobs
    PROVE  /\ [r EXCEPT !.stored = TRUE] \in StreamRow
           /\ [r EXCEPT !.blobs = r.blobs \cup X, !.terminating = TRUE] \in StreamRow
BY DEF StreamRow

-----------------------------------------------------------------------------
(* Type correctness.                                                       *)

LEMMA TypeInit == Init => TypeInv
<1> SUFFICES ASSUME Init PROVE TypeInv
  OBVIOUS
<1> USE DEF Init, PendingInit, BlobStoreInit, PinsInit, ReflectorStoreInit, RunsInit
<1>1. PendingTypeOK /\ BlobStoreTypeOK /\ PinsTypeOK
  BY DEF PendingTypeOK, PendingStreamRow, PendingBlobRow, BlobStoreTypeOK,
         StreamRow, BlobRow, PinsTypeOK, RowStates
<1>2. ReflectorStoreTypeOK /\ CallsNamed
  BY DEF ReflectorStoreTypeOK, ConnSteps, Idle, CallsNamed
<1>3. RunsTypeOK
  BY DEF RunsTypeOK, RunSteps
<1>4. LoopsInBounds
  BY RunParts, ContentFacts DEF LoopsInBounds
<1>5. QED
  BY <1>1, <1>2, <1>3, <1>4 DEF TypeInv, TypeOK

\* A run that goes to a step, or around its loop, stays within its stream.
LEMMA RunMoves ==
    ASSUME TypeInv, NEW w \in Runs,
           \/ \E step \in RunSteps : GoTo(w, step)
           \/ \E loop, after \in RunSteps : NextIn(w, loop, after)
           \/ \E step \in RunSteps : runs' = [runs EXCEPT ![w].step = step]
    PROVE  RunsTypeOK' /\ LoopsInBounds'
<1> USE DEF TypeInv, TypeOK, RunsTypeOK, LoopsInBounds
<1>1. /\ Len(Content[w[2]]) \in Nat \ {0}
      /\ DOMAIN Content[w[2]] = 1 .. Len(Content[w[2]])
  BY RunParts, ContentFacts
<1>2. CASE \E step \in RunSteps : GoTo(w, step)
  BY <1>1, <1>2 DEF GoTo
<1>3. CASE \E loop, after \in RunSteps : NextIn(w, loop, after)
  <2>1. CASE \E after \in RunSteps : GoTo(w, after)
    BY <1>2, <2>1
  <2>2. CASE /\ runs[w].next < Len(Content[w[2]])
             /\ \E loop \in RunSteps :
                    runs' = [runs EXCEPT ![w] = [step |-> loop, next |-> @.next + 1]]
    <3>1. runs[w].next + 1 \in Nat \ {0} /\ runs[w].next + 1 \in DOMAIN Content[w[2]]
      BY <1>1, <2>2
    <3>2. PICK loop \in RunSteps :
              runs' = [runs EXCEPT ![w] = [step |-> loop, next |-> runs[w].next + 1]]
      BY <2>2
    <3>3. QED
      BY <3>1, <3>2
  <2>3. QED
    BY <1>3, <2>1, <2>2 DEF NextIn
<1>4. CASE \E step \in RunSteps : runs' = [runs EXCEPT ![w].step = step]
  BY <1>1, <1>4
<1>5. QED
  BY <1>2, <1>3, <1>4

\* The steps of a connection keep the types of the tables they write.
LEMMA TypeConn ==
    ASSUME TypeInv, NEW c \in Conns, ConnStep(c)
    PROVE  TypeInv'
<1> USE ReflectorAssumption
<1> USE DEF TypeInv, TypeOK, ReflectorStoreTypeOK, CallsNamed, pendingVars
<1>0. BlobStoreTypeOK' /\ PinsTypeOK'
  BY DEF ConnStep, BlobStoreTypeOK, PinsTypeOK, blobStoreVars, pinVars
<1>1. ASSUME NEW s \in SDs, PutSDAlreadyPending(c, s) PROVE TypeInv'
  BY <1>0, <1>1 DEF PutSDAlreadyPending, Acknowledge, PendingTypeOK, RunsTypeOK, LoopsInBounds
<1>2. ASSUME NEW s \in SDs, PutSDNotPending(c, s) PROVE TypeInv'
  BY <1>0, <1>2 DEF PutSDNotPending, ConnSteps, PendingTypeOK, RunsTypeOK, LoopsInBounds
<1>3. CASE PutSDStream(c)
  <2>1. ConnUser[c] \in Users /\ conns[c].sd \in SDs
    BY <1>3 DEF PutSDStream
  <2>2. PendingTypeOK'
    BY <1>3, <2>1, UpsertPendingStreamTypes DEF PutSDStream
  <2>3. QED
    BY <1>0, <1>3, <2>2 DEF PutSDStream, ConnSteps, RunsTypeOK, LoopsInBounds
<1>4. CASE PutSDBlobs(c)
  <2>1. ConnUser[c] \in Users /\ conns[c].sd \in SDs
    BY <1>4 DEF PutSDBlobs
  <2>2. PendingTypeOK'
    BY <1>4, <2>1, CreatePendingBlobsTypes DEF PutSDBlobs
  <2>3. QED
    BY <1>0, <1>4, <2>2 DEF PutSDBlobs, ConnSteps, RunsTypeOK, LoopsInBounds
<1>5. CASE PutSDTerminating(c)
  <2>1. ConnUser[c] \in Users /\ conns[c].sd \in SDs
    BY <1>5 DEF PutSDTerminating
  <2>2. PendingTypeOK'
    BY <1>5, <2>1, SetTerminatingTypes DEF PutSDTerminating
  <2>3. QED
    BY <1>0, <1>5, <2>2 DEF PutSDTerminating, ConnSteps, RunsTypeOK, LoopsInBounds
<1>6. CASE PutSDWorkflow(c)
  <2>1. ConnUser[c] \in Users /\ conns[c].sd \in SDs
    BY <1>6 DEF PutSDWorkflow
  <2>2. PICK k \in 1 .. MaxRuns :
            runs' = [runs EXCEPT ![<<ConnUser[c], conns[c].sd, k>>].step = "ready"]
    BY <1>6 DEF PutSDWorkflow, UnusedRuns
  <2>3. RunsTypeOK' /\ LoopsInBounds'
    <3> DEFINE w == <<ConnUser[c], conns[c].sd, k>>
    <3>1. w \in Runs
      BY <2>1 DEF Runs
    <3>2. "ready" \in RunSteps
      BY DEF RunSteps
    <3>3. QED
      BY <2>2, <3>1, <3>2, RunMoves
  <2>4. PendingTypeOK' /\ ReflectorStoreTypeOK' /\ CallsNamed'
    BY <1>6, <2>1 DEF PutSDWorkflow, PendingTypeOK, Acknowledge, Idle, ConnSteps
  <2>5. QED
    BY <1>0, <2>3, <2>4
<1>7. ASSUME NEW b \in Blobs, PutTemporary(c, b) PROVE TypeInv'
  BY <1>0, <1>7 DEF PutTemporary, ConnSteps, PendingTypeOK, RunsTypeOK, LoopsInBounds
<1>8. CASE PutMarkReceived(c)
  <2>1. ConnUser[c] \in Users /\ conns[c].blob \in Blobs
    BY <1>8 DEF PutMarkReceived
  <2>2. PendingTypeOK'
    BY <1>8, <2>1, MarkReceivedTypes DEF PutMarkReceived
  <2>3. ReflectorStoreTypeOK' /\ CallsNamed'
    BY <1>8 DEF PutMarkReceived, Idle, ConnSteps
  <2>4. QED
    BY <1>0, <1>8, <2>2, <2>3 DEF PutMarkReceived, RunsTypeOK, LoopsInBounds
<1>9. CASE PutMarkRejected(c) \/ CallFails(c)
  <2>1. PendingTypeOK' /\ RunsTypeOK' /\ LoopsInBounds'
    BY <1>9 DEF PutMarkRejected, CallFails, PendingTypeOK, RunsTypeOK, LoopsInBounds
  <2>2. ReflectorStoreTypeOK' /\ CallsNamed'
    BY <1>9 DEF PutMarkRejected, CallFails, Idle, ConnSteps
  <2>3. QED
    BY <1>0, <2>1, <2>2
<1>10. QED
  BY <1>1, <1>2, <1>3, <1>4, <1>5, <1>6, <1>7, <1>8, <1>9 DEF ConnStep, ConnNext

LEMMA TypeRun ==
    ASSUME TypeInv, NEW w \in Runs, RunNext(w)
    PROVE  TypeInv'
<1> USE DEF TypeInv, TypeOK, PendingTypeOK, BlobStoreTypeOK, PinsTypeOK,
            ReflectorStoreTypeOK, CallsNamed, pendingVars, blobStoreVars, pinVars
<1>1. w[1] \in Users /\ w[2] \in SDs /\ NextBlob(w) \in Blobs /\ ContentBlobs(w[2]) \subseteq Blobs
  BY RunParts, ContentFacts DEF LoopsInBounds, NextBlob
<1>2. ASSUME UNCHANGED <<pendingVars, blobStoreVars, pinVars, conns, tempData, acked>>,
             RunsTypeOK' /\ LoopsInBounds'
      PROVE  TypeInv'
  BY <1>2
<1>3. CASE RebuildSDBlob(w)
  BY <1>2, <1>3, RunMoves DEF RebuildSDBlob, RunSteps
<1>4. CASE CheckMissing(w) \/ CheckCount(w)
  BY <1>2, <1>4, RunMoves DEF CheckMissing, CheckCount, RunSteps
<1>5. CASE AddStream(w)
  <2>1. RunsTypeOK' /\ LoopsInBounds'
    BY <1>5, RunMoves DEF AddStream, RunSteps
  <2>2. QED
    <3>1. [streams[w[2]] EXCEPT !.stored = TRUE] \in StreamRow
      BY <1>1, StreamRows
    <3>2. QED
      BY <1>1, <1>5, <2>1, <3>1 DEF AddStream, UpsertStream
<1>6. CASE AddStreamBlobs(w)
  <2>1. RunsTypeOK' /\ LoopsInBounds'
    BY <1>6, RunMoves DEF AddStreamBlobs, RunSteps
  <2>2. streams' \in [SDs -> StreamRow]
    <3> DEFINE r == streams[w[2]]
    <3>1. [r EXCEPT !.blobs = r.blobs \cup ContentBlobs(w[2]), !.terminating = TRUE]
              \in StreamRow
      BY <1>1, StreamRows
    <3>2. QED
      BY <1>1, <1>6, <3>1 DEF AddStreamBlobs, ProcessStreamBlobs
  <2>3. blobRows' \in [Blobs -> BlobRow]
    <3>1. \A b \in ContentBlobs(w[2]) : IV[w[2]][b] \in IVs
      BY <1>1, IVAssumption
    <3>2. QED
      BY <1>1, <1>6, <3>1 DEF AddStreamBlobs, ProcessStreamBlobs, BlobRow, RowStates
  <2>4. QED
    BY <1>6, <2>1, <2>2, <2>3 DEF AddStreamBlobs, ProcessStreamBlobs
<1>7. CASE ReadTemporary(w)
  BY <1>2, <1>7, RunMoves DEF ReadTemporary, RunSteps
<1>8. CASE AddBlobObject(w)
  <2>1. RunsTypeOK' /\ LoopsInBounds'
    BY <1>8, RunMoves DEF AddBlobObject, RunSteps
  <2>2. QED
    BY <1>1, <1>8, <2>1 DEF AddBlobObject, UploadObject
<1>9. CASE AddBlobRow(w)
  <2>1. RunsTypeOK' /\ LoopsInBounds'
    BY <1>9, RunMoves DEF AddBlobRow, RunSteps
  <2>2. QED
    BY <1>1, <1>9, <2>1, UpsertedRow DEF AddBlobRow, UpsertBlobRecord, BlobRow
<1>10. CASE PinNextBlob(w)
  <2>1. RunsTypeOK' /\ LoopsInBounds'
    BY <1>10, RunMoves DEF PinNextBlob, RunSteps
  <2>2. QED
    BY <1>1, <1>10, <2>1 DEF PinNextBlob, ProcessUploadBlob
<1>11. CASE PinStream(w)
  <2>1. RunsTypeOK' /\ LoopsInBounds'
    BY <1>11, RunMoves DEF PinStream, RunSteps
  <2>2. QED
    BY <1>1, <1>11, <2>1 DEF PinStream, CreateStreamPin, RowStates
<1>12. CASE Cleanup(w)
  <2>1. RunsTypeOK' /\ LoopsInBounds'
    BY <1>12, RunMoves DEF Cleanup, RunSteps
  <2>2. PendingTypeOK'
    BY <1>1, <1>12, CleanupPendingTypes DEF Cleanup
  <2>3. QED
    BY <1>12, <2>1, <2>2 DEF Cleanup
<1>13. CASE DeleteTemporary(w)
  <2>1. RunsTypeOK' /\ LoopsInBounds'
    BY <1>13, RunMoves DEF DeleteTemporary, RunSteps
  <2>2. QED
    BY <1>1, <1>13, <2>1 DEF DeleteTemporary
<1>14. CASE DeleteTemporaryFails(w)
  BY <1>2, <1>14, RunMoves DEF DeleteTemporaryFails, RunSteps
<1>15. CASE RunFails(w)
  BY <1>2, <1>15, RunMoves DEF RunFails, RunSteps
<1>16. QED
  BY <1>3, <1>4, <1>5, <1>6, <1>7, <1>8, <1>9, <1>10, <1>11, <1>12, <1>13, <1>14, <1>15
     DEF RunNext, RunProgress

LEMMA TypeNext == TypeInv /\ [Next]_vars => TypeInv'
<1> SUFFICES ASSUME TypeInv, [Next]_vars PROVE TypeInv'
  OBVIOUS
<1>1. ASSUME NEW c \in Conns, ConnStep(c) PROVE TypeInv'
  BY <1>1, TypeConn
<1>2. ASSUME NEW w \in Runs, RunNext(w) PROVE TypeInv'
  BY <1>2, TypeRun
<1>3. ASSUME NEW u \in Users, NEW s \in SDs, UserDeletesStream(u, s) PROVE TypeInv'
  BY <1>3 DEF UserDeletesStream, DeleteStream, pendingVars, blobStoreVars, TypeInv, TypeOK,
         PendingTypeOK, BlobStoreTypeOK, PinsTypeOK, RowStates, ReflectorStoreTypeOK,
         RunsTypeOK, CallsNamed, LoopsInBounds
<1>4. CASE UNCHANGED vars
  BY <1>4 DEF vars, pendingVars, blobStoreVars, pinVars, TypeInv, TypeOK, PendingTypeOK,
         BlobStoreTypeOK, PinsTypeOK, ReflectorStoreTypeOK, RunsTypeOK, CallsNamed,
         LoopsInBounds
<1>5. QED
  BY <1>1, <1>2, <1>3, <1>4 DEF Next

\* Every table, call and run keeps to its type, and every call and loop to the
\* stream or blob it works on.
THEOREM TypeCorrect == Spec => []TypeOK
<1>1. Spec => []TypeInv
  BY TypeInit, TypeNext, PTL DEF Spec
<1>2. TypeInv => TypeOK
  BY DEF TypeInv
<1>3. QED
  BY <1>1, <1>2, PTL

-----------------------------------------------------------------------------
(* Received flags.                                                         *)

\* A blob becomes received by the call that stored it, and in no other way.
LEMMA ReceivedByMark ==
    ASSUME TypeInv, NEW c \in Conns, PutMarkReceived(c), NEW u \in Users, NEW b \in Blobs
    PROVE  pendingBlobs'[u][b].received <=>
               pendingBlobs[u][b].received \/ (u = ConnUser[c] /\ b = conns[c].blob)
<1>1. pendingBlobs \in [Users -> [Blobs -> PendingBlobRow]]
  BY DEF TypeInv, TypeOK, PendingTypeOK
<1>2. ConnUser[c] \in Users /\ conns[c].blob \in Blobs
  BY ReflectorAssumption DEF PutMarkReceived, TypeInv, CallsNamed
<1>3. pendingBlobs' = [pendingBlobs EXCEPT ![ConnUser[c]][conns[c].blob] =
                           [@ EXCEPT !.row = "live", !.received = TRUE]]
  BY DEF PutMarkReceived, MarkPendingBlobAsReceived
<1>4. CASE u = ConnUser[c] /\ b = conns[c].blob
  <2>1. pendingBlobs'[u][b] = [pendingBlobs[u][b] EXCEPT !.row = "live", !.received = TRUE]
    BY <1>1, <1>3, <1>4
  <2>2. pendingBlobs'[u][b].received
    BY <1>1, <2>1 DEF PendingBlobRow
  <2>3. QED
    BY <1>4, <2>2
<1>5. CASE ~(u = ConnUser[c] /\ b = conns[c].blob)
  BY <1>1, <1>2, <1>3, <1>5
<1>6. QED
  BY <1>4, <1>5

LEMMA ReceivedOtherwise ==
    ASSUME TypeInv, [Next]_vars, \A c \in Conns : ~(ConnStep(c) /\ PutMarkReceived(c)),
           NEW u \in Users, NEW b \in Blobs
    PROVE  pendingBlobs'[u][b].received <=> pendingBlobs[u][b].received
<1>1. pendingBlobs \in [Users -> [Blobs -> PendingBlobRow]]
  BY DEF TypeInv, TypeOK, PendingTypeOK
<1>2. CASE UNCHANGED pendingBlobs
  BY <1>2
<1>3. ASSUME NEW c \in Conns, NEW s \in SDs, CreatePendingBlobsFromSDBlob(ConnUser[c], s)
      PROVE  pendingBlobs'[u][b].received = pendingBlobs[u][b].received
  BY <1>1, <1>3 DEF CreatePendingBlobsFromSDBlob
<1>4. ASSUME NEW w \in Runs, CleanupPendingBlobs(w[1], w[2])
      PROVE  pendingBlobs'[u][b].received = pendingBlobs[u][b].received
  <2>1. CASE u = w[1]
    BY <1>1, <1>4, <2>1 DEF CleanupPendingBlobs, PendingBlobRow
  <2>2. CASE u # w[1]
    BY <1>1, <1>4, <2>2 DEF CleanupPendingBlobs
  <2>3. QED
    BY <2>1, <2>2
<1>5. ASSUME NEW c \in Conns, ConnStep(c)
      PROVE  \/ UNCHANGED pendingBlobs
             \/ \E s \in SDs : CreatePendingBlobsFromSDBlob(ConnUser[c], s)
  BY <1>5 DEF ConnStep, ConnNext, PutSDAlreadyPending, PutSDNotPending, PutSDStream,
       UpsertPendingStream, PutSDBlobs, PutSDTerminating, SetTerminatingBlob, PutSDWorkflow,
       PutTemporary, PutMarkRejected, CallFails, pendingVars, TypeInv, CallsNamed
<1>6. ASSUME NEW w \in Runs, RunNext(w)
      PROVE  UNCHANGED pendingBlobs \/ CleanupPendingBlobs(w[1], w[2])
  BY <1>6 DEF RunNext, RunProgress, RebuildSDBlob, CheckMissing, CheckCount, AddStream,
       AddStreamBlobs, ReadTemporary, AddBlobObject, AddBlobRow, PinNextBlob, PinStream,
       Cleanup, DeleteTemporary, DeleteTemporaryFails, RunFails, pendingVars
<1>7. CASE UNCHANGED vars \/ \E v \in Users, s \in SDs : UserDeletesStream(v, s)
  BY <1>2, <1>7 DEF vars, UserDeletesStream, pendingVars
<1>8. QED
  BY <1>2, <1>3, <1>4, <1>5, <1>6, <1>7 DEF Next

LEMMA ReceivedNext ==
    ASSUME TypeInv, [Next]_vars, NEW u \in Users, NEW b \in Blobs
    PROVE  /\ pendingBlobs[u][b].received => pendingBlobs'[u][b].received
           /\ pendingBlobs'[u][b].received =>
                  \/ pendingBlobs[u][b].received
                  \/ \E c \in Conns : /\ conns[c].step = "mark"
                                      /\ ConnUser[c] = u /\ conns[c].blob = b
<1>1. CASE \A c \in Conns : ~(ConnStep(c) /\ PutMarkReceived(c))
  BY <1>1, ReceivedOtherwise
<1>2. ASSUME NEW c \in Conns, PutMarkReceived(c)
      PROVE  /\ conns[c].step = "mark"
             /\ pendingBlobs'[u][b].received <=>
                    \/ pendingBlobs[u][b].received
                    \/ ConnUser[c] = u /\ conns[c].blob = b
  BY <1>2, ReceivedByMark DEF PutMarkReceived
<1>3. QED
  BY <1>1, <1>2

-----------------------------------------------------------------------------
(* The constraints of the schema.                                          *)

RowsInv == ConstraintsHold /\ RowsFollowSDBlobs

\* Operations that leave every pending blob with the stream, number and flag it has,
\* and take away no row.
SamePlaces ==
    /\ \A u \in Users, s \in SDs :
           pendingStreams[u][s].row # "none" => pendingStreams'[u][s].row # "none"
    /\ \A u \in Users, b \in Blobs :
           LET row  == pendingBlobs[u][b]
               row2 == pendingBlobs'[u][b]
           IN  /\ row2.stream = row.stream /\ row2.num = row.num
               /\ row2.row = "none" <=> row.row = "none"
               /\ row2.received => row.received \/ row.row # "none"

LEMMA RowsSamePlaces ==
    ASSUME TypeInv, RowsInv, SamePlaces
    PROVE  RowsInv'
<1>1. \A u \in Users, b \in Blobs : pendingBlobs[u][b].stream \in SDs \cup {NoStream}
  BY DEF TypeInv, TypeOK, PendingTypeOK, PendingBlobRow
<1>2. ConstraintsHold'
  BY <1>1 DEF RowsInv, SamePlaces, ConstraintsHold, SamePlace
<1>3. RowsFollowSDBlobs'
  BY <1>1 DEF RowsInv, SamePlaces, RowsFollowSDBlobs
<1>4. QED
  BY <1>2, <1>3 DEF RowsInv

LEMMA UpsertPendingStreamPlaces ==
    ASSUME TypeInv, NEW u \in Users, NEW s \in SDs,
           UpsertPendingStream(u, s) \/ SetTerminatingBlob(u, s)
    PROVE  SamePlaces
<1>1. pendingStreams \in [Users -> [SDs -> PendingStreamRow]]
  BY DEF TypeInv, TypeOK, PendingTypeOK
<1>2. \A v \in Users, t \in SDs :
          pendingStreams[v][t].row # "none" => pendingStreams'[v][t].row # "none"
  <2>1. CASE UpsertPendingStream(u, s)
    BY <1>1, <2>1 DEF UpsertPendingStream, Upserted, PendingStreamRow
  <2>2. CASE SetTerminatingBlob(u, s)
    BY <1>1, <2>2 DEF SetTerminatingBlob, PendingStreamRow
  <2>3. QED
    BY <2>1, <2>2
<1>3. pendingBlobs' = pendingBlobs
  BY DEF UpsertPendingStream, SetTerminatingBlob
<1>4. QED
  BY <1>2, <1>3 DEF SamePlaces

LEMMA CleanupPlaces ==
    ASSUME TypeInv, NEW u \in Users, NEW s \in SDs, CleanupPendingBlobs(u, s)
    PROVE  SamePlaces
<1>1. /\ pendingStreams \in [Users -> [SDs -> PendingStreamRow]]
      /\ pendingBlobs \in [Users -> [Blobs -> PendingBlobRow]]
  BY DEF TypeInv, TypeOK, PendingTypeOK
<1>2. \A v \in Users, t \in SDs :
          pendingStreams[v][t].row # "none" => pendingStreams'[v][t].row # "none"
  BY <1>1 DEF CleanupPendingBlobs, PendingStreamRow
<1>3. ASSUME NEW v \in Users, NEW b \in Blobs
      PROVE  /\ pendingBlobs'[v][b].stream = pendingBlobs[v][b].stream
             /\ pendingBlobs'[v][b].num = pendingBlobs[v][b].num
             /\ pendingBlobs'[v][b].received = pendingBlobs[v][b].received
             /\ pendingBlobs'[v][b].row = "none" <=> pendingBlobs[v][b].row = "none"
  <2>1. CASE v = u
    BY <1>1, <2>1 DEF CleanupPendingBlobs, PendingBlobsOf, PendingBlobRow
  <2>2. CASE v # u
    BY <1>1, <2>2 DEF CleanupPendingBlobs
  <2>3. QED
    BY <2>1, <2>2
<1>4. QED
  BY <1>2, <1>3 DEF SamePlaces

\* A row that is there is marked in place; an early blob finds no other.
LEMMA MarkRows ==
    ASSUME TypeInv, RowsInv, NEW u \in Users, NEW b \in Blobs, MarkPendingBlobAsReceived(u, b)
    PROVE  RowsInv'
<1>1. pendingBlobs \in [Users -> [Blobs -> PendingBlobRow]]
  BY DEF TypeInv, TypeOK, PendingTypeOK
<1>2. /\ pendingBlobs' = [pendingBlobs EXCEPT ![u][b] =
                              [@ EXCEPT !.row = "live", !.received = TRUE]]
      /\ pendingStreams' = pendingStreams
  BY DEF MarkPendingBlobAsReceived
<1>3. /\ pendingBlobs'[u][b].stream = pendingBlobs[u][b].stream
      /\ pendingBlobs'[u][b].num = pendingBlobs[u][b].num
      /\ pendingBlobs'[u][b].row = "live"
  <2>1. pendingBlobs'[u][b] = [pendingBlobs[u][b] EXCEPT !.row = "live", !.received = TRUE]
    BY <1>1, <1>2
  <2>2. QED
    BY <1>1, <2>1 DEF PendingBlobRow
<1>4. \A v \in Users, a \in Blobs :
          v # u \/ a # b => pendingBlobs'[v][a] = pendingBlobs[v][a]
  BY <1>1, <1>2
<1>5. CASE pendingBlobs[u][b].row = "live"
  <2>1. SamePlaces
    BY <1>2, <1>3, <1>4, <1>5 DEF SamePlaces
  <2>2. QED
    BY <2>1, RowsSamePlaces
<1>6. CASE CanInsertEarlyBlob(u, b)
  <2>1. pendingBlobs[u][b].row = "none" /\ pendingBlobs[u][b].stream = NoStream /\ ~ForeignKeys
    BY <1>6 DEF CanInsertEarlyBlob, RowsInv, RowsFollowSDBlobs
  <2>2. UniqueBlobNumber => \A a \in Blobs : pendingBlobs[u][a].row # "none"
                                                => pendingBlobs[u][a].stream # NoStream
    BY <1>6 DEF CanInsertEarlyBlob
  <2>3. ConstraintsHold'
    BY <1>2, <1>3, <1>4, <2>1, <2>2 DEF RowsInv, ConstraintsHold, SamePlace
  <2>4. RowsFollowSDBlobs'
    BY <1>2, <1>3, <1>4, <2>1 DEF RowsInv, RowsFollowSDBlobs
  <2>5. QED
    BY <2>3, <2>4 DEF RowsInv
<1>7. QED
  BY <1>5, <1>6 DEF MarkPendingBlobAsReceived, CanMarkReceived

\* The rows of an SD blob come with its numbers, to a stream that has no others.
LEMMA CreatePendingBlobsRows ==
    ASSUME TypeInv, RowsInv, NEW u \in Users, NEW s \in SDs,
           pendingStreams[u][s].row # "none", CreatePendingBlobsFromSDBlob(u, s)
    PROVE  RowsInv'
<1>1. /\ pendingBlobs \in [Users -> [Blobs -> PendingBlobRow]]
      /\ pendingStreams' = pendingStreams
      /\ s # NoStream
  BY PendingAssumption DEF TypeInv, TypeOK, PendingTypeOK, CreatePendingBlobsFromSDBlob
<1>2. \A v \in Users, b \in Blobs :
          v # u \/ b \notin ContentBlobs(s) => pendingBlobs'[v][b] = pendingBlobs[v][b]
  BY <1>1 DEF CreatePendingBlobsFromSDBlob
<1>3. \A b \in Blobs : b \in ContentBlobs(s) =>
          /\ pendingBlobs'[u][b].stream = s
          /\ pendingBlobs'[u][b].num = BlobNumber(s, b)
          /\ pendingBlobs'[u][b].row # "none"
  BY <1>1 DEF CreatePendingBlobsFromSDBlob, Upserted
<1>4. RowsFollowSDBlobs'
  BY <1>1, <1>2, <1>3 DEF RowsInv, RowsFollowSDBlobs
<1>5. ASSUME NEW v \in Users, NEW a \in Blobs, NEW b \in Blobs, a # b, UniqueBlobNumber,
             pendingBlobs'[v][a].row # "none", pendingBlobs'[v][b].row # "none",
             SamePlace(pendingBlobs'[v][a], pendingBlobs'[v][b])
      PROVE  FALSE
  <2>1. CASE v = u /\ pendingBlobs'[v][a].stream = s
    <3>1. /\ a \in ContentBlobs(s) /\ b \in ContentBlobs(s)
          /\ BlobNumber(s, a) = BlobNumber(s, b)
      BY <1>1, <1>4, <1>5, <2>1 DEF SamePlace, RowsFollowSDBlobs
    <3>2. QED
      BY <1>5, <3>1, BlobNumberInjective
  <2>2. CASE ~(v = u /\ pendingBlobs'[v][a].stream = s)
    <3>1. /\ pendingBlobs'[v][a] = pendingBlobs[v][a]
          /\ pendingBlobs'[v][b] = pendingBlobs[v][b]
      BY <1>2, <1>3, <1>5, <2>2 DEF SamePlace
    <3>2. QED
      BY <1>5, <3>1 DEF RowsInv, ConstraintsHold
  <2>3. QED
    BY <2>1, <2>2
<1>6. ASSUME NEW v \in Users, NEW b \in Blobs, pendingBlobs'[v][b].row # "none"
      PROVE  /\ ForeignKeys => pendingBlobs'[v][b].stream # NoStream
             /\ pendingBlobs'[v][b].stream # NoStream
                    => pendingStreams'[v][pendingBlobs'[v][b].stream].row # "none"
  BY <1>1, <1>2, <1>3, <1>6 DEF RowsInv, ConstraintsHold
<1>7. ConstraintsHold'
  BY <1>5, <1>6 DEF ConstraintsHold
<1>8. QED
  BY <1>4, <1>7 DEF RowsInv

\* The steps that write the pending tables.
LEMMA PendingSteps ==
    ASSUME TypeInv, [Next]_vars
    PROVE  \/ UNCHANGED pendingVars
           \/ \E c \in Conns : /\ PutSDStream(c) \/ PutSDTerminating(c) \/ PutSDBlobs(c)
                               /\ ConnUser[c] \in Users /\ conns[c].sd \in SDs
           \/ \E c \in Conns : /\ PutMarkReceived(c)
                               /\ ConnUser[c] \in Users /\ conns[c].blob \in Blobs
           \/ \E w \in Runs : Cleanup(w) /\ w[1] \in Users /\ w[2] \in SDs
<1>1. ASSUME NEW c \in Conns, ConnStep(c)
      PROVE  \/ UNCHANGED pendingVars
             \/ /\ PutSDStream(c) \/ PutSDTerminating(c) \/ PutSDBlobs(c)
                /\ ConnUser[c] \in Users /\ conns[c].sd \in SDs
             \/ /\ PutMarkReceived(c)
                /\ ConnUser[c] \in Users /\ conns[c].blob \in Blobs
  <2>1. ConnUser[c] \in Users
    BY ReflectorAssumption
  <2>2. /\ conns[c].step \in {"sdStream", "sdBlobs", "sdTerminating"} => conns[c].sd \in SDs
        /\ conns[c].step = "mark" => conns[c].blob \in Blobs
    BY DEF TypeInv, CallsNamed
  <2>3. CASE PutSDStream(c) \/ PutSDTerminating(c) \/ PutSDBlobs(c)
    BY <2>1, <2>2, <2>3 DEF PutSDStream, PutSDTerminating, PutSDBlobs
  <2>4. CASE PutMarkReceived(c)
    BY <2>1, <2>2, <2>4 DEF PutMarkReceived
  <2>5. QED
    BY <1>1, <2>3, <2>4 DEF ConnStep, ConnNext, PutSDAlreadyPending, PutSDNotPending, PutSDWorkflow,
         PutTemporary, PutMarkRejected, CallFails
<1>2. ASSUME NEW w \in Runs, RunNext(w)
      PROVE  UNCHANGED pendingVars \/ (Cleanup(w) /\ w[1] \in Users /\ w[2] \in SDs)
  BY <1>2, RunParts DEF RunNext, RunProgress, RebuildSDBlob, CheckMissing, CheckCount, AddStream,
     AddStreamBlobs, ReadTemporary, AddBlobObject, AddBlobRow, PinNextBlob, PinStream,
     DeleteTemporary, DeleteTemporaryFails, RunFails
<1>3. CASE UNCHANGED vars \/ \E u \in Users, s \in SDs : UserDeletesStream(u, s)
  BY <1>3 DEF vars, UserDeletesStream
<1>4. QED
  BY <1>1, <1>2, <1>3 DEF Next

LEMMA RowsInvNext ==
    ASSUME TypeInv, RowsInv, CallsFollowRows, [Next]_vars
    PROVE  RowsInv'
<1>1. CASE UNCHANGED pendingVars
  <2>1. SamePlaces
    BY <1>1 DEF SamePlaces, pendingVars
  <2>2. QED
    BY <2>1, RowsSamePlaces
<1>2. ASSUME NEW c \in Conns, ConnUser[c] \in Users, conns[c].sd \in SDs,
             PutSDStream(c) \/ PutSDTerminating(c)
      PROVE  RowsInv'
  BY <1>2, UpsertPendingStreamPlaces, RowsSamePlaces DEF PutSDStream, PutSDTerminating
<1>3. ASSUME NEW c \in Conns, ConnUser[c] \in Users, conns[c].sd \in SDs, PutSDBlobs(c)
      PROVE  RowsInv'
  BY <1>3, CreatePendingBlobsRows DEF PutSDBlobs, CallsFollowRows
<1>4. ASSUME NEW c \in Conns, ConnUser[c] \in Users, conns[c].blob \in Blobs, PutMarkReceived(c)
      PROVE  RowsInv'
  BY <1>4, MarkRows DEF PutMarkReceived
<1>5. ASSUME NEW w \in Runs, w[1] \in Users, w[2] \in SDs, Cleanup(w)
      PROVE  RowsInv'
  BY <1>5, CleanupPlaces, RowsSamePlaces DEF Cleanup
<1>6. QED
  BY <1>1, <1>2, <1>3, <1>4, <1>5, PendingSteps

-----------------------------------------------------------------------------
(* The life of a row.                                                      *)

\* No row goes back to an earlier state.
RowsOnlyAge ==
    /\ \A u \in Users, s \in SDs :
           /\ pendingStreams[u][s].row # "none" => pendingStreams'[u][s].row # "none"
           /\ pendingStreams[u][s].row = "deleted" => pendingStreams'[u][s].row = "deleted"
    /\ \A u \in Users, b \in Blobs :
           pendingBlobs[u][b].row = "deleted" => pendingBlobs'[u][b].row = "deleted"

LEMMA RowsAge ==
    ASSUME TypeInv, [Next]_vars
    PROVE  RowsOnlyAge
<1>1. /\ pendingStreams \in [Users -> [SDs -> PendingStreamRow]]
      /\ pendingBlobs \in [Users -> [Blobs -> PendingBlobRow]]
  BY DEF TypeInv, TypeOK, PendingTypeOK
<1>2. CASE UNCHANGED pendingVars
  BY <1>2 DEF RowsOnlyAge, pendingVars
<1>3. ASSUME NEW u \in Users, NEW s \in SDs, UpsertPendingStream(u, s)
      PROVE  RowsOnlyAge
  BY <1>1, <1>3 DEF RowsOnlyAge, UpsertPendingStream, Upserted, PendingStreamRow
<1>4. ASSUME NEW u \in Users, NEW s \in SDs, SetTerminatingBlob(u, s)
      PROVE  RowsOnlyAge
  BY <1>1, <1>4 DEF RowsOnlyAge, SetTerminatingBlob, PendingStreamRow
<1>5. ASSUME NEW u \in Users, NEW s \in SDs, CreatePendingBlobsFromSDBlob(u, s)
      PROVE  RowsOnlyAge
  BY <1>1, <1>5 DEF RowsOnlyAge, CreatePendingBlobsFromSDBlob, Upserted
<1>6. ASSUME NEW u \in Users, NEW b \in Blobs, MarkPendingBlobAsReceived(u, b)
      PROVE  RowsOnlyAge
  BY <1>1, <1>6 DEF RowsOnlyAge, MarkPendingBlobAsReceived, CanMarkReceived, CanInsertEarlyBlob
<1>7. ASSUME NEW u \in Users, NEW s \in SDs, CleanupPendingBlobs(u, s)
      PROVE  RowsOnlyAge
  <2>1. \A v \in Users, t \in SDs :
            /\ pendingStreams[v][t].row # "none" => pendingStreams'[v][t].row # "none"
            /\ pendingStreams[v][t].row = "deleted" => pendingStreams'[v][t].row = "deleted"
    BY <1>1, <1>7 DEF CleanupPendingBlobs, PendingStreamRow
  <2>2. \A v \in Users, b \in Blobs :
            pendingBlobs[v][b].row = "deleted" => pendingBlobs'[v][b].row = "deleted"
    BY <1>1, <1>7 DEF CleanupPendingBlobs, PendingBlobsOf, PendingBlobRow
  <2>3. QED
    BY <2>1, <2>2 DEF RowsOnlyAge
<1>8. QED
  BY <1>2, <1>3, <1>4, <1>5, <1>6, <1>7, PendingSteps
     DEF PutSDStream, PutSDTerminating, PutSDBlobs, PutMarkReceived, Cleanup

\* What a cleanup does to the rows of its stream.
LEMMA CleanupRows ==
    ASSUME TypeInv, NEW u \in Users, NEW s \in SDs, CleanupPendingBlobs(u, s)
    PROVE  /\ pendingStreams[u][s].row # "none" => pendingStreams'[u][s].row = "deleted"
           /\ \A v \in Users, t \in SDs : v # u \/ t # s
                  => pendingStreams'[v][t].row = pendingStreams[v][t].row
           /\ \A b \in ContentBlobs(s) :
                  PendingStreamExists(u, s) /\ b \in PendingBlobsOf(u, s)
                      => pendingBlobs'[u][b].row = "deleted"
           /\ \A v \in Users, b \in Blobs :
                  \/ pendingBlobs'[v][b] = pendingBlobs[v][b]
                  \/ /\ v = u /\ PendingStreamExists(u, s)
                     /\ b \in PendingBlobsOf(u, s) \cap ContentBlobs(s)
<1>1. /\ pendingStreams \in [Users -> [SDs -> PendingStreamRow]]
      /\ pendingBlobs \in [Users -> [Blobs -> PendingBlobRow]]
      /\ ContentBlobs(s) \subseteq Blobs
  BY ContentFacts DEF TypeInv, TypeOK, PendingTypeOK
<1>2. /\ pendingStreams[u][s].row # "none" => pendingStreams'[u][s].row = "deleted"
      /\ \A v \in Users, t \in SDs : v # u \/ t # s
             => pendingStreams'[v][t].row = pendingStreams[v][t].row
  BY <1>1 DEF CleanupPendingBlobs, PendingStreamRow, RowStates
<1>3. /\ \A b \in ContentBlobs(s) :
             PendingStreamExists(u, s) /\ b \in PendingBlobsOf(u, s)
                 => pendingBlobs'[u][b].row = "deleted"
      /\ \A v \in Users, b \in Blobs :
             \/ pendingBlobs'[v][b] = pendingBlobs[v][b]
             \/ /\ v = u /\ PendingStreamExists(u, s)
                /\ b \in PendingBlobsOf(u, s) \cap ContentBlobs(s)
  BY <1>1 DEF CleanupPendingBlobs, PendingBlobRow
<1>4. QED
  BY <1>2, <1>3

\* Only the cleanup of a run of its own ends a pending stream.
LEMMA DeletedByCleanup ==
    ASSUME TypeInv, [Next]_vars, NEW u \in Users, NEW s \in SDs,
           pendingStreams[u][s].row # "deleted", pendingStreams'[u][s].row = "deleted"
    PROVE  \E w \in Runs : Cleanup(w) /\ w[1] = u /\ w[2] = s
<1>1. pendingStreams \in [Users -> [SDs -> PendingStreamRow]]
  BY DEF TypeInv, TypeOK, PendingTypeOK
<1>2. CASE UNCHANGED pendingStreams
  BY <1>2
<1>3. ASSUME NEW v \in Users, NEW t \in SDs, UpsertPendingStream(v, t) PROVE FALSE
  BY <1>1, <1>3 DEF UpsertPendingStream, Upserted, PendingStreamRow
<1>4. ASSUME NEW v \in Users, NEW t \in SDs, SetTerminatingBlob(v, t) PROVE FALSE
  BY <1>1, <1>4 DEF SetTerminatingBlob, PendingStreamRow
<1>5. PICK w \in Runs : Cleanup(w) /\ w[1] \in Users /\ w[2] \in SDs
  BY <1>2, <1>3, <1>4, PendingSteps DEF pendingVars, PutSDStream, PutSDTerminating, PutSDBlobs,
     CreatePendingBlobsFromSDBlob, PutMarkReceived, MarkPendingBlobAsReceived
<1>6. w[1] = u /\ w[2] = s
  BY <1>5, CleanupRows DEF Cleanup
<1>7. QED
  BY <1>5, <1>6

\* While a stream is pending, nothing takes from it the rows of its own blobs.
LEMMA OwnRowsStay ==
    ASSUME TypeInv, [Next]_vars, NEW u \in Users, NEW s \in SDs, NEW b \in OwnBlobs(s),
           PendingStreamExists(u, s), PendingStreamExists(u, s)', b \in PendingBlobsOf(u, s)
    PROVE  b \in PendingBlobsOf(u, s)'
<1>1. /\ pendingBlobs \in [Users -> [Blobs -> PendingBlobRow]]
      /\ b \in Blobs /\ b \in ContentBlobs(s)
      /\ \A t \in SDs : b \in ContentBlobs(t) => t = s
      /\ pendingBlobs[u][b].row = "live" /\ pendingBlobs[u][b].stream = s
  BY DEF TypeInv, TypeOK, PendingTypeOK, OwnBlobs, Unshared, PendingBlobsOf
<1>2. SUFFICES pendingBlobs'[u][b].row = "live" /\ pendingBlobs'[u][b].stream = s
  BY <1>1 DEF PendingBlobsOf
<1>3. CASE UNCHANGED pendingBlobs
  BY <1>1, <1>3
<1>4. ASSUME NEW v \in Users, NEW t \in SDs, CreatePendingBlobsFromSDBlob(v, t)
      PROVE  pendingBlobs'[u][b].row = "live" /\ pendingBlobs'[u][b].stream = s
  BY <1>1, <1>4 DEF CreatePendingBlobsFromSDBlob, Upserted
<1>5. ASSUME NEW v \in Users, NEW a \in Blobs, MarkPendingBlobAsReceived(v, a)
      PROVE  pendingBlobs'[u][b].row = "live" /\ pendingBlobs'[u][b].stream = s
  BY <1>1, <1>5 DEF MarkPendingBlobAsReceived, PendingBlobRow
<1>6. ASSUME NEW w \in Runs, w[1] \in Users, w[2] \in SDs, Cleanup(w)
      PROVE  pendingBlobs'[u][b].row = "live" /\ pendingBlobs'[u][b].stream = s
  <2>1. ~(w[1] = u /\ w[2] = s)
    BY <1>6, CleanupRows DEF Cleanup, PendingStreamExists
  <2>2. pendingBlobs'[u][b] = pendingBlobs[u][b]
    BY <1>1, <1>6, <2>1, CleanupRows DEF Cleanup
  <2>3. QED
    BY <1>1, <2>2
<1>7. QED
  BY <1>3, <1>4, <1>5, <1>6, PendingSteps DEF pendingVars, PutSDStream, UpsertPendingStream,
     PutSDTerminating, SetTerminatingBlob, PutSDBlobs, PutMarkReceived

-----------------------------------------------------------------------------
(* Calls and runs against the rows they work on.                           *)

LEMMA CallsFollowRowsNext ==
    ASSUME TypeInv, CallsFollowRows, [Next]_vars
    PROVE  CallsFollowRows'
<1>1. SUFFICES ASSUME NEW c \in Conns,
                      conns'[c].step \in {"sdBlobs", "sdTerminating", "sdWorkflow"}
               PROVE  pendingStreams'[ConnUser[c]][conns'[c].sd].row # "none"
  BY DEF CallsFollowRows
<1>2. ConnUser[c] \in Users /\ conns \in [Conns -> [step : ConnSteps,
                                                    sd   : SDs \cup {NoStream},
                                                    blob : Blobs \cup {NoBlob}]]
  BY ReflectorAssumption DEF TypeInv, TypeOK, ReflectorStoreTypeOK
<1>3. CASE /\ conns'[c].sd = conns[c].sd
           /\ conns[c].step \in {"sdBlobs", "sdTerminating", "sdWorkflow"}
  <2>1. conns[c].sd \in SDs /\ pendingStreams[ConnUser[c]][conns[c].sd].row # "none"
    BY <1>3 DEF TypeInv, CallsNamed, CallsFollowRows
  <2>2. QED
    BY <1>2, <1>3, <2>1, RowsAge DEF RowsOnlyAge
<1>4. CASE PutSDStream(c)
  <2>1. conns[c].sd \in SDs /\ conns'[c].sd = conns[c].sd
    BY <1>2, <1>4 DEF PutSDStream, TypeInv, CallsNamed
  <2>2. pendingStreams \in [Users -> [SDs -> PendingStreamRow]]
    BY DEF TypeInv, TypeOK, PendingTypeOK
  <2>3. pendingStreams'[ConnUser[c]][conns[c].sd].row # "none"
    BY <1>2, <1>4, <2>1, <2>2 DEF PutSDStream, UpsertPendingStream, Upserted, PendingStreamRow
  <2>4. QED
    BY <2>1, <2>3
<1>5. ASSUME NEW d \in Conns, ConnStep(d), ~PutSDStream(c)
      PROVE  /\ conns'[c].sd = conns[c].sd
             /\ conns[c].step \in {"sdBlobs", "sdTerminating", "sdWorkflow"}
  BY <1>1, <1>2, <1>5 DEF ConnStep, ConnNext, PutSDAlreadyPending, PutSDNotPending, PutSDStream,
     PutSDBlobs, PutSDTerminating, PutSDWorkflow, PutTemporary, PutMarkReceived,
     PutMarkRejected, CallFails, Idle
<1>6. ASSUME \/ UNCHANGED vars
             \/ \E w \in Runs : RunNext(w)
             \/ \E u \in Users, s \in SDs : UserDeletesStream(u, s)
      PROVE  conns'[c] = conns[c]
  BY <1>6 DEF vars, UserDeletesStream, RunNext, RunProgress, RebuildSDBlob, CheckMissing, CheckCount,
       AddStream, AddStreamBlobs, ReadTemporary, AddBlobObject, AddBlobRow, PinNextBlob,
       PinStream, Cleanup, DeleteTemporary, DeleteTemporaryFails, RunFails
<1>7. QED
  BY <1>1, <1>3, <1>4, <1>5, <1>6 DEF Next

LEMMA CleanedUpNext ==
    ASSUME TypeInv, CleanedUp, RunsFollowRows, [Next]_vars
    PROVE  CleanedUp'
<1>1. SUFFICES ASSUME NEW u \in Users, NEW s \in SDs, pendingStreams'[u][s].row = "deleted",
                      NEW b \in OwnBlobs(s)
               PROVE  pendingBlobs'[u][b].row = "deleted"
  BY DEF CleanedUp, OwnBlobs, Unshared
<1>2. b \in ContentBlobs(s) /\ b \in Blobs
  BY ContentFacts DEF OwnBlobs
<1>3. CASE pendingStreams[u][s].row = "deleted"
  BY <1>2, <1>3, RowsAge DEF CleanedUp, RowsOnlyAge
<1>4. CASE pendingStreams[u][s].row # "deleted"
  <2>1. PICK w \in Runs : Cleanup(w) /\ w[1] = u /\ w[2] = s
    BY <1>1, <1>4, DeletedByCleanup
  <2>2. /\ pendingStreams[u][s].row # "none"
        /\ PendingStreamExists(u, s) => OwnBlobs(s) \subseteq PendingBlobsOf(u, s)
    BY <2>1 DEF Cleanup, RunsFollowRows
  <2>3. PendingStreamExists(u, s)
    BY <1>4, <2>2 DEF PendingStreamExists, TypeInv, TypeOK, PendingTypeOK, PendingStreamRow,
       RowStates
  <2>4. QED
    BY <1>2, <2>1, <2>2, <2>3, CleanupRows DEF Cleanup
<1>5. QED
  BY <1>3, <1>4

\* A run moves by its own steps, and becomes ready by a call's.
LEMMA RunStepsBy ==
    ASSUME TypeInv, [Next]_vars, NEW w \in Runs
    PROVE  runs'[w] = runs[w] \/ runs'[w].step = "ready" \/ RunNext(w)
<1>1. runs \in [Runs -> [step : RunSteps, next : Nat \ {0}]]
  BY DEF TypeInv, TypeOK, RunsTypeOK
<1>2. ASSUME NEW c \in Conns, ConnStep(c) PROVE runs'[w] = runs[w] \/ runs'[w].step = "ready"
  <2>1. CASE PutSDWorkflow(c)
    BY <1>1, <2>1 DEF PutSDWorkflow
  <2>2. CASE ~PutSDWorkflow(c)
    BY <1>2, <2>2 DEF ConnStep, ConnNext, PutSDAlreadyPending, PutSDNotPending, PutSDStream,
         PutSDBlobs, PutSDTerminating, PutTemporary, PutMarkReceived, PutMarkRejected, CallFails
  <2>3. QED
    BY <2>1, <2>2
<1>3. ASSUME NEW v \in Runs, RunNext(v), v # w PROVE runs'[w] = runs[w]
  BY <1>1, <1>3 DEF RunNext, RunProgress, RebuildSDBlob, CheckMissing, CheckCount, AddStream,
     AddStreamBlobs, ReadTemporary, AddBlobObject, AddBlobRow, PinNextBlob, PinStream, Cleanup,
     DeleteTemporary, DeleteTemporaryFails, RunFails, GoTo, NextIn
<1>4. CASE UNCHANGED vars \/ \E u \in Users, s \in SDs : UserDeletesStream(u, s)
  BY <1>4 DEF vars, UserDeletesStream
<1>5. QED
  BY <1>2, <1>3, <1>4 DEF Next

\* Where a run's own step takes it.
LEMMA RunGoesOn ==
    ASSUME TypeInv, NEW w \in Runs, RunNext(w)
    PROVE  /\ \/ runs[w].step \notin {"unused", "ready"}
              \/ RebuildSDBlob(w)
           /\ runs'[w].step = "deleteTemp" => Cleanup(w) \/ runs[w].step = "deleteTemp"
<1>1. runs \in [Runs -> [step : RunSteps, next : Nat \ {0}]]
  BY DEF TypeInv, TypeOK, RunsTypeOK
<1>2. runs[w].step \notin {"unused", "ready"} \/ RebuildSDBlob(w)
  BY DEF RunNext, RunProgress, CheckMissing, CheckCount, AddStream, AddStreamBlobs, ReadTemporary,
     AddBlobObject, AddBlobRow, PinNextBlob, PinStream, Cleanup, DeleteTemporary,
     DeleteTemporaryFails, RunFails
<1>3. ASSUME runs'[w].step = "deleteTemp" PROVE Cleanup(w) \/ runs[w].step = "deleteTemp"
  BY <1>1, <1>3 DEF RunNext, RunProgress, RebuildSDBlob, CheckMissing, CheckCount, AddStream,
     AddStreamBlobs, ReadTemporary, AddBlobObject, AddBlobRow, PinNextBlob, PinStream,
     DeleteTemporary, DeleteTemporaryFails, RunFails, GoTo, NextIn
<1>4. QED
  BY <1>2, <1>3

LEMMA RunsFollowRowsNext ==
    ASSUME TypeInv, RunsFollowRows, [Next]_vars
    PROVE  RunsFollowRows'
<1>1. SUFFICES ASSUME NEW w \in Runs
               PROVE  /\ runs'[w].step \notin {"unused", "ready"} =>
                             /\ pendingStreams'[w[1]][w[2]].row # "none"
                             /\ PendingStreamExists(w[1], w[2])'
                                    => OwnBlobs(w[2]) \subseteq PendingBlobsOf(w[1], w[2])'
                      /\ runs'[w].step = "deleteTemp"
                             => pendingStreams'[w[1]][w[2]].row = "deleted"
  BY DEF RunsFollowRows, OwnBlobs, Unshared
<1> DEFINE u == w[1]
           s == w[2]
<1>2. /\ u \in Users /\ s \in SDs
      /\ pendingStreams \in [Users -> [SDs -> PendingStreamRow]]
      /\ \A b \in OwnBlobs(s) : b \in ContentBlobs(s) /\ b \in Blobs
  BY RunParts, ContentFacts DEF TypeInv, TypeOK, PendingTypeOK, OwnBlobs
<1>3. CASE runs'[w].step = "ready"
  BY <1>3
<1>4. ASSUME runs[w].step \notin {"unused", "ready"}
      PROVE  /\ pendingStreams'[u][s].row # "none"
             /\ PendingStreamExists(u, s)' => OwnBlobs(s) \subseteq PendingBlobsOf(u, s)'
  <2>1. /\ pendingStreams[u][s].row # "none"
        /\ PendingStreamExists(u, s) => OwnBlobs(s) \subseteq PendingBlobsOf(u, s)
    BY <1>4 DEF RunsFollowRows
  <2>2. pendingStreams'[u][s].row # "none"
    BY <1>2, <2>1, RowsAge DEF RowsOnlyAge
  <2>3. ASSUME PendingStreamExists(u, s)' PROVE OwnBlobs(s) \subseteq PendingBlobsOf(u, s)'
    <3>1. PendingStreamExists(u, s)
      BY <1>2, <2>1, <2>3, RowsAge DEF RowsOnlyAge, PendingStreamExists, PendingStreamRow,
         RowStates
    <3>2. QED
      BY <1>2, <2>1, <2>3, <3>1, OwnRowsStay
  <2>4. QED
    BY <2>2, <2>3
<1>5. CASE runs'[w] = runs[w]
  BY <1>2, <1>4, <1>5, RowsAge DEF RunsFollowRows, RowsOnlyAge
<1>6. CASE RebuildSDBlob(w)
  <2>1. /\ PendingStreamExists(u, s) /\ SDBlobMatches(u, s)
        /\ UNCHANGED pendingVars
        /\ runs'[w].step # "deleteTemp"
    BY <1>6 DEF RebuildSDBlob, GoTo, TypeInv, TypeOK, RunsTypeOK
  <2>2. ASSUME NEW b \in OwnBlobs(s) PROVE b \in PendingBlobsOf(u, s)
    <3>1. <<BlobNumber(s, b), b>> \in PendingBlobInfos(u, s)
      BY <1>2, <2>1 DEF SDBlobMatches, SDBlobInfos
    <3>2. PICK a \in PendingBlobsOf(u, s) : <<BlobNumber(s, b), b>> = <<pendingBlobs[u][a].num, a>>
      BY <3>1 DEF PendingBlobInfos
    <3>3. QED
      BY <3>2
  <2>3. QED
    BY <2>1, <2>2 DEF pendingVars, PendingStreamExists, PendingBlobsOf
<1>7. CASE RunNext(w) /\ ~RebuildSDBlob(w)
  <2>1. CASE Cleanup(w)
    BY <1>2, <1>4, <1>7, <2>1, RunGoesOn, CleanupRows DEF Cleanup, RunsFollowRows
  <2>2. CASE ~Cleanup(w)
    BY <1>2, <1>4, <1>7, <2>2, RunGoesOn, RowsAge DEF RunsFollowRows, RowsOnlyAge
  <2>3. QED
    BY <2>1, <2>2
<1>8. QED
  BY <1>3, <1>5, <1>6, <1>7, RunStepsBy

-----------------------------------------------------------------------------
(* Data in temporary storage.                                              *)

\* The steps that write temporary storage.
LEMMA TempSteps ==
    ASSUME TypeInv, [Next]_vars
    PROVE  \/ \A u \in Users : tempData[u] \subseteq tempData'[u]
           \/ \E w \in Runs : DeleteTemporary(w)
<1>1. tempData \in [Users -> SUBSET Blobs]
  BY DEF TypeInv, TypeOK, ReflectorStoreTypeOK
<1>2. ASSUME NEW c \in Conns, ConnStep(c)
      PROVE  \A u \in Users : tempData[u] \subseteq tempData'[u]
  BY <1>1, <1>2 DEF ConnStep, ConnNext, PutSDAlreadyPending, PutSDNotPending, PutSDStream, PutSDBlobs,
     PutSDTerminating, PutSDWorkflow, PutTemporary, PutMarkReceived, PutMarkRejected, CallFails
<1>3. ASSUME NEW w \in Runs, RunNext(w) PROVE tempData' = tempData \/ DeleteTemporary(w)
  BY <1>3 DEF RunNext, RunProgress, RebuildSDBlob, CheckMissing, CheckCount, AddStream,
     AddStreamBlobs, ReadTemporary, AddBlobObject, AddBlobRow, PinNextBlob, PinStream, Cleanup,
     DeleteTemporaryFails, RunFails
<1>4. CASE UNCHANGED vars \/ \E u \in Users, s \in SDs : UserDeletesStream(u, s)
  BY <1>4 DEF vars, UserDeletesStream
<1>5. QED
  BY <1>2, <1>3, <1>4 DEF Next

\* The temporary copy of a blob that no other stream lists goes after its row.
LEMMA TempGoesAfterRow ==
    ASSUME TypeInv, CleanedUp, RunsFollowRows, [Next]_vars,
           NEW u \in Users, NEW b \in Blobs, Unshared(b), b \in tempData[u], b \notin tempData'[u]
    PROVE  pendingBlobs[u][b].row = "deleted"
<1>1. PICK w \in Runs : DeleteTemporary(w)
  BY TempSteps
<1>2. /\ w[1] \in Users /\ w[2] \in SDs
      /\ NextBlob(w) \in ContentBlobs(w[2])
  BY RunParts DEF TypeInv, LoopsInBounds, NextBlob, ContentBlobs
<1>3. w[1] = u /\ NextBlob(w) = b
  BY <1>1, <1>2 DEF DeleteTemporary, TypeInv, TypeOK, ReflectorStoreTypeOK
<1>4. pendingStreams[u][w[2]].row = "deleted" /\ b \in OwnBlobs(w[2])
  BY <1>1, <1>2, <1>3 DEF DeleteTemporary, RunsFollowRows, OwnBlobs
<1>5. QED
  BY <1>2, <1>4 DEF CleanedUp

\* A call comes to its mark by storing the blob's data.
LEMMA MarkBegins ==
    ASSUME TypeInv, [Next]_vars, NEW c \in Conns, conns'[c].step = "mark"
    PROVE  \/ conns'[c] = conns[c]
           \/ conns'[c].blob \in tempData'[ConnUser[c]]
<1>1. ConnUser[c] \in Users
  BY ReflectorAssumption
<1>2. ASSUME NEW d \in Conns, ConnStep(d), conns'[c] # conns[c]
      PROVE  \E b \in Blobs : PutTemporary(c, b)
  BY <1>2 DEF ConnStep, ConnNext, PutSDAlreadyPending, PutSDNotPending, PutSDStream, PutSDBlobs,
     PutSDTerminating, PutSDWorkflow, PutTemporary, PutMarkReceived, PutMarkRejected, CallFails,
     Idle, TypeInv, TypeOK, ReflectorStoreTypeOK
<1>3. ASSUME \E b \in Blobs : PutTemporary(c, b)
      PROVE  conns'[c].blob \in tempData'[ConnUser[c]]
  BY <1>1, <1>3 DEF PutTemporary, TypeInv, TypeOK, ReflectorStoreTypeOK
<1>4. ASSUME \/ UNCHANGED vars
             \/ \E w \in Runs : RunNext(w)
             \/ \E u \in Users, s \in SDs : UserDeletesStream(u, s)
      PROVE  conns'[c] = conns[c]
  BY <1>4 DEF vars, UserDeletesStream, RunNext, RunProgress, RebuildSDBlob, CheckMissing, CheckCount,
       AddStream, AddStreamBlobs, ReadTemporary, AddBlobObject, AddBlobRow, PinNextBlob,
       PinStream, Cleanup, DeleteTemporary, DeleteTemporaryFails, RunFails
<1>5. QED
  BY <1>2, <1>3, <1>4 DEF Next

LEMMA MarkMayFailNext ==
    ASSUME TypeInv, CleanedUp, RunsFollowRows, MarkMayFail, [Next]_vars
    PROVE  MarkMayFail'
<1>1. SUFFICES ASSUME NEW c \in Conns, conns'[c].step = "mark", Unshared(conns'[c].blob)
               PROVE  \/ conns'[c].blob \in tempData'[ConnUser[c]]
                      \/ pendingBlobs'[ConnUser[c]][conns'[c].blob].row = "deleted"
  BY DEF MarkMayFail, Unshared
<1>2. CASE conns'[c] = conns[c]
  <2>1. ConnUser[c] \in Users /\ conns[c].blob \in Blobs
    BY <1>1, <1>2, ReflectorAssumption DEF TypeInv, CallsNamed
  <2>2. \/ conns[c].blob \in tempData[ConnUser[c]]
        \/ pendingBlobs[ConnUser[c]][conns[c].blob].row = "deleted"
    BY <1>1, <1>2 DEF MarkMayFail
  <2>3. QED
    BY <1>1, <1>2, <2>1, <2>2, TempGoesAfterRow, RowsAge DEF RowsOnlyAge
<1>3. QED
  BY <1>1, <1>2, MarkBegins

LEMMA ReceivedHasDataNext ==
    ASSUME TypeInv, RowsInv, CleanedUp, RunsFollowRows, MarkMayFail, ReceivedHasData, [Next]_vars
    PROVE  ReceivedHasData'
<1>1. SUFFICES ASSUME NEW u \in Users, NEW b \in Blobs, Unshared(b),
                      pendingBlobs'[u][b].row = "live", pendingBlobs'[u][b].received
               PROVE  b \in tempData'[u]
  BY DEF ReceivedHasData, Unshared
<1>2. pendingBlobs[u][b].row # "deleted"
  BY <1>1, RowsAge DEF RowsOnlyAge
<1>3. CASE pendingBlobs[u][b].received
  <2>1. pendingBlobs[u][b].row = "live"
    BY <1>2, <1>3 DEF RowsInv, RowsFollowSDBlobs, TypeInv, TypeOK, PendingTypeOK,
       PendingBlobRow, RowStates
  <2>2. QED
    BY <1>1, <1>2, <1>3, <2>1, TempGoesAfterRow DEF ReceivedHasData
<1>4. CASE \E c \in Conns : conns[c].step = "mark" /\ ConnUser[c] = u /\ conns[c].blob = b
  <2>1. b \in tempData[u]
    BY <1>1, <1>2, <1>4 DEF MarkMayFail
  <2>2. QED
    BY <1>1, <1>2, <2>1, TempGoesAfterRow
<1>5. QED
  BY <1>1, <1>3, <1>4, ReceivedNext

-----------------------------------------------------------------------------
(* The inductive invariant of the pending rows and what follows from it.   *)

LEMMA PendingInvInit == Init => PendingInv
<1> SUFFICES ASSUME Init PROVE PendingInv
  OBVIOUS
<1>1. TypeInv
  BY TypeInit
<1>2. ConstraintsHold /\ RowsFollowSDBlobs /\ CleanedUp /\ ReceivedHasData
  BY DEF Init, PendingInit, ConstraintsHold, RowsFollowSDBlobs, CleanedUp, ReceivedHasData
<1>3. CallsFollowRows /\ MarkMayFail
  BY DEF Init, ReflectorStoreInit, Idle, CallsFollowRows, MarkMayFail
<1>4. RunsFollowRows
  BY DEF Init, RunsInit, RunsFollowRows
<1>5. QED
  BY <1>1, <1>2, <1>3, <1>4 DEF PendingInv

LEMMA PendingInvNext == PendingInv /\ [Next]_vars => PendingInv'
<1> SUFFICES ASSUME PendingInv, [Next]_vars PROVE PendingInv'
  OBVIOUS
<1>1. /\ TypeInv /\ RowsInv /\ CallsFollowRows /\ CleanedUp /\ RunsFollowRows
      /\ MarkMayFail /\ ReceivedHasData
  BY DEF PendingInv, RowsInv
<1>2. TypeInv' /\ RowsInv' /\ CallsFollowRows'
  BY <1>1, TypeNext, RowsInvNext, CallsFollowRowsNext
<1>3. CleanedUp' /\ RunsFollowRows'
  BY <1>1, CleanedUpNext, RunsFollowRowsNext
<1>4. MarkMayFail' /\ ReceivedHasData'
  BY <1>1, MarkMayFailNext, ReceivedHasDataNext
<1>5. QED
  BY <1>2, <1>3, <1>4 DEF PendingInv, RowsInv

\* The rows of each upload, the calls that write them and the runs that clean them
\* up keep in step, whichever of them fails or starts over.
THEOREM PendingInductive == Spec => []PendingInv
BY PendingInvInit, PendingInvNext, PTL DEF Spec

\* No upsert of a pending row meets the key of user, stream and number or the foreign
\* key on stream_id; the insert of an early blob, which both may refuse, is refused in
\* the model by CanInsertEarlyBlob.
THEOREM SchemaConstraints == Spec => []ConstraintsHold
<1>1. PendingInv => ConstraintsHold
  BY DEF PendingInv
<1>2. QED
  BY <1>1, PendingInductive, PTL

\* CleanupPendingBlobs leaves no row of a blob that is the stream's alone, neither
\* one that came before the SD blob nor one that a late PutSD or Put touched.
THEOREM RowsEndWithStreams == Spec => []NoStrandedRows
<1>1. PendingInv => NoStrandedRows
  <2> SUFFICES ASSUME PendingInv, NEW u \in Users, NEW b \in Blobs, Unshared(b),
                      pendingBlobs[u][b].row = "live", pendingBlobs[u][b].stream # NoStream
               PROVE  PendingStreamExists(u, pendingBlobs[u][b].stream)
    BY DEF NoStrandedRows
  <2> DEFINE s == pendingBlobs[u][b].stream
  <2>1. s \in SDs /\ pendingStreams[u][s].row \in RowStates
    BY DEF PendingInv, TypeInv, TypeOK, PendingTypeOK, PendingBlobRow, PendingStreamRow
  <2>2. b \in OwnBlobs(s) /\ pendingStreams[u][s].row # "none"
    BY DEF PendingInv, RowsFollowSDBlobs, OwnBlobs
  <2>3. pendingStreams[u][s].row # "deleted"
    BY <2>1, <2>2 DEF PendingInv, CleanedUp
  <2>4. QED
    BY <2>1, <2>2, <2>3 DEF RowStates, PendingStreamExists
<1>2. QED
  BY <1>1, PendingInductive, PTL

\* The received flag of a live row can be relied on: the run that reads the blob's
\* data finds it, unless another stream of the user lists the blob.
THEOREM ReceivedRowsHaveData == Spec => []ReceivedHasData
<1>1. PendingInv => ReceivedHasData
  BY DEF PendingInv
<1>2. QED
  BY <1>1, PendingInductive, PTL

-----------------------------------------------------------------------------
(* Without failures every accepted SD blob is served.                      *)

\* A call that is not in PutSD names no stream.
OnlyPutSDNames ==
    \A c \in Conns : conns[c].step \in {"idle", "mark"} => conns[c].sd = NoStream

\* A pending stream has its call or its run.
RowsServed ==
    \A u \in Users, s \in SDs : pendingStreams[u][s].row # "none" => Served(u, s)

\* How the stream that a call names changes, when no call fails.
LEMMA CallMoves ==
    ASSUME TypeInv, OnlyPutSDNames, [Next]_vars, ~Faults, NEW c \in Conns
    PROVE  /\ conns'[c].step \in {"idle", "mark"} => conns'[c].sd = NoStream
           /\ \/ conns'[c].sd = conns[c].sd
              \/ conns[c].sd = NoStream
              \/ PutSDWorkflow(c)
<1>1. conns \in [Conns -> [step : ConnSteps,
                           sd   : SDs \cup {NoStream},
                           blob : Blobs \cup {NoBlob}]]
  BY DEF TypeInv, TypeOK, ReflectorStoreTypeOK
<1>2. CASE conns'[c] = conns[c]
  BY <1>2 DEF OnlyPutSDNames
<1>3. ASSUME NEW d \in Conns, ConnStep(d), conns'[c] # conns[c]
      PROVE  /\ conns'[c].step \in {"idle", "mark"} => conns'[c].sd = NoStream
             /\ \/ conns'[c].sd = conns[c].sd
                \/ conns[c].sd = NoStream
                \/ PutSDWorkflow(c)
  <2>1. c = d
    BY <1>1, <1>3 DEF ConnStep, ConnNext, PutSDAlreadyPending, PutSDNotPending, PutSDStream,
       PutSDBlobs, PutSDTerminating, PutSDWorkflow, PutTemporary, PutMarkReceived,
       PutMarkRejected, CallFails
  <2>2. CASE \/ \E s \in SDs : PutSDAlreadyPending(c, s)
             \/ CallFails(c)
    BY <1>3, <2>2 DEF PutSDAlreadyPending, CallFails
  <2>3. CASE \E s \in SDs : PutSDNotPending(c, s)
    BY <1>1, <2>3 DEF PutSDNotPending, OnlyPutSDNames
  <2>4. CASE PutSDStream(c) \/ PutSDBlobs(c) \/ PutSDTerminating(c)
    BY <1>1, <2>4 DEF PutSDStream, PutSDBlobs, PutSDTerminating
  <2>5. CASE PutSDWorkflow(c)
    BY <1>1, <2>5 DEF PutSDWorkflow, Idle
  <2>6. CASE \E b \in Blobs : PutTemporary(c, b)
    BY <1>1, <2>6 DEF PutTemporary, OnlyPutSDNames
  <2>7. CASE PutMarkReceived(c) \/ PutMarkRejected(c)
    BY <1>1, <2>7 DEF PutMarkReceived, PutMarkRejected, Idle, OnlyPutSDNames
  <2>8. QED
    BY <1>3, <2>1, <2>2, <2>3, <2>4, <2>5, <2>6, <2>7 DEF ConnStep, ConnNext
<1>4. ASSUME \/ UNCHANGED vars
             \/ \E w \in Runs : RunNext(w)
             \/ \E u \in Users, s \in SDs : UserDeletesStream(u, s)
      PROVE  conns'[c] = conns[c]
  BY <1>4 DEF vars, UserDeletesStream, RunNext, RunProgress, RebuildSDBlob, CheckMissing, CheckCount,
       AddStream, AddStreamBlobs, ReadTemporary, AddBlobObject, AddBlobRow, PinNextBlob,
       PinStream, Cleanup, DeleteTemporary, DeleteTemporaryFails, RunFails
<1>5. QED
  BY <1>2, <1>3, <1>4 DEF Next

\* A run that has begun is never unused again.
LEMMA RunsStayUsed ==
    ASSUME TypeInv, [Next]_vars, NEW w \in Runs, runs[w].step # "unused"
    PROVE  runs'[w].step # "unused"
<1>1. runs \in [Runs -> [step : RunSteps, next : Nat \ {0}]]
  BY DEF TypeInv, TypeOK, RunsTypeOK
<1>2. ASSUME RunNext(w) PROVE runs'[w].step # "unused"
  BY <1>1, <1>2 DEF RunNext, RunProgress, RebuildSDBlob, CheckMissing, CheckCount, AddStream,
     AddStreamBlobs, ReadTemporary, AddBlobObject, AddBlobRow, PinNextBlob, PinStream, Cleanup,
     DeleteTemporary, DeleteTemporaryFails, RunFails, GoTo, NextIn
<1>3. QED
  BY <1>2, RunStepsBy

\* The call that started a run has served its stream with it.
LEMMA WorkflowServes ==
    ASSUME TypeInv, NEW c \in Conns, PutSDWorkflow(c)
    PROVE  \E k \in 1 .. MaxRuns : runs'[<<ConnUser[c], conns[c].sd, k>>].step # "unused"
<1>1. ConnUser[c] \in Users /\ conns[c].sd \in SDs
  BY ReflectorAssumption DEF PutSDWorkflow, TypeInv, CallsNamed
<1>2. PICK k \in 1 .. MaxRuns :
          runs' = [runs EXCEPT ![<<ConnUser[c], conns[c].sd, k>>].step = "ready"]
  BY DEF PutSDWorkflow, UnusedRuns
<1>3. <<ConnUser[c], conns[c].sd, k>> \in Runs
  BY <1>1 DEF Runs
<1>4. runs'[<<ConnUser[c], conns[c].sd, k>>].step = "ready"
  BY <1>2, <1>3 DEF TypeInv, TypeOK, RunsTypeOK
<1>5. QED
  BY <1>4

LEMMA ServedStays ==
    ASSUME TypeInv, OnlyPutSDNames, [Next]_vars, ~Faults,
           NEW u \in Users, NEW s \in SDs, Served(u, s)
    PROVE  Served(u, s)'
<1>1. ASSUME NEW k \in 1 .. MaxRuns, runs[<<u, s, k>>].step # "unused"
      PROVE  Served(u, s)'
  <2>1. <<u, s, k>> \in Runs
    BY DEF Runs
  <2>2. runs'[<<u, s, k>>].step # "unused"
    BY <1>1, <2>1, RunsStayUsed
  <2>3. QED
    BY <2>2 DEF Served
<1>2. ASSUME NEW c \in PutSDCalls(u, s) PROVE Served(u, s)'
  <2>1. c \in Conns /\ conns[c].sd = s /\ ConnUser[c] = u /\ s # NoStream
    BY PendingAssumption DEF PutSDCalls
  <2>2. CASE conns'[c].sd = s
    BY <2>1, <2>2 DEF Served, PutSDCalls
  <2>3. CASE PutSDWorkflow(c)
    BY <2>1, <2>3, WorkflowServes DEF Served
  <2>4. QED
    BY <2>1, <2>2, <2>3, CallMoves
<1>3. QED
  BY <1>1, <1>2 DEF Served

\* A stream's row is written by a call that works on it, or is there already.
LEMMA RowComesByCall ==
    ASSUME TypeInv, [Next]_vars, NEW u \in Users, NEW s \in SDs,
           pendingStreams[u][s].row = "none", pendingStreams'[u][s].row # "none"
    PROVE  PutSDCalls(u, s) # {}
<1>1. pendingStreams \in [Users -> [SDs -> PendingStreamRow]]
  BY DEF TypeInv, TypeOK, PendingTypeOK
<1>2. ASSUME NEW v \in Users, NEW t \in SDs, UpsertPendingStream(v, t) PROVE v = u /\ t = s
  BY <1>1, <1>2 DEF UpsertPendingStream
<1>3. ASSUME NEW v \in Users, NEW t \in SDs, SetTerminatingBlob(v, t) PROVE FALSE
  BY <1>1, <1>3 DEF SetTerminatingBlob, PendingStreamRow
<1>4. ASSUME NEW v \in Users, NEW t \in SDs, CleanupPendingBlobs(v, t) PROVE FALSE
  BY <1>1, <1>4 DEF CleanupPendingBlobs, PendingStreamRow
<1>5. PICK c \in Conns : /\ PutSDStream(c)
                         /\ ConnUser[c] \in Users /\ conns[c].sd \in SDs
  BY <1>3, <1>4, PendingSteps DEF pendingVars, PutSDTerminating, PutSDBlobs,
     CreatePendingBlobsFromSDBlob, PutMarkReceived, MarkPendingBlobAsReceived, Cleanup
<1>6. QED
  BY <1>2, <1>5 DEF PutSDStream, PutSDCalls

\* An acknowledgement is of a stream that is pending, or of a call's own.
LEMMA AcknowledgedFor ==
    ASSUME TypeInv, [Next]_vars, NEW u \in Users, NEW s \in SDs,
           <<u, s>> \notin acked, <<u, s>> \in acked'
    PROVE  \/ PendingStreamExists(u, s)
           \/ PutSDCalls(u, s) # {}
<1>1. ASSUME NEW c \in Conns, ConnStep(c)
      PROVE  \/ PendingStreamExists(u, s)
             \/ PutSDCalls(u, s) # {}
  <2>1. CASE \E t \in SDs : PutSDAlreadyPending(c, t)
    BY <2>1 DEF PutSDAlreadyPending, Acknowledge
  <2>2. CASE PutSDWorkflow(c)
    BY <2>2 DEF PutSDWorkflow, Acknowledge, PutSDCalls
  <2>3. QED
    BY <1>1, <2>1, <2>2 DEF ConnStep, ConnNext, PutSDNotPending, PutSDStream, PutSDBlobs,
       PutSDTerminating, PutTemporary, PutMarkReceived, PutMarkRejected, CallFails
<1>2. ASSUME \/ UNCHANGED vars
             \/ \E w \in Runs : RunNext(w)
             \/ \E v \in Users, t \in SDs : UserDeletesStream(v, t)
      PROVE  acked' = acked
  BY <1>2 DEF vars, UserDeletesStream, RunNext, RunProgress, RebuildSDBlob, CheckMissing, CheckCount,
       AddStream, AddStreamBlobs, ReadTemporary, AddBlobObject, AddBlobRow, PinNextBlob,
       PinStream, Cleanup, DeleteTemporary, DeleteTemporaryFails, RunFails
<1>3. QED
  BY <1>1, <1>2 DEF Next

LEMMA ServedInvNext ==
    ASSUME ~Faults, ServedInv, [Next]_vars
    PROVE  ServedInv'
<1>1. TypeInv /\ OnlyPutSDNames /\ RowsServed /\ AckedIsServed
  BY DEF ServedInv, OnlyPutSDNames, RowsServed
<1>2. TypeInv'
  BY <1>1, TypeNext
<1>3. OnlyPutSDNames'
  BY <1>1, CallMoves DEF OnlyPutSDNames
<1>4. RowsServed'
  <2> SUFFICES ASSUME NEW u \in Users, NEW s \in SDs, pendingStreams'[u][s].row # "none"
               PROVE  Served(u, s)'
    BY DEF RowsServed
  <2>1. Served(u, s)
    BY <1>1, RowComesByCall DEF RowsServed, Served
  <2>2. QED
    BY <1>1, <2>1, ServedStays
<1>5. AckedIsServed'
  <2> SUFFICES ASSUME NEW u \in Users, NEW s \in SDs, <<u, s>> \in acked'
               PROVE  Served(u, s)'
    BY DEF AckedIsServed
  <2>1. Served(u, s)
    BY <1>1, AcknowledgedFor DEF AckedIsServed, RowsServed, Served, PendingStreamExists
  <2>2. QED
    BY <1>1, <2>1, ServedStays
<1>6. QED
  BY <1>2, <1>3, <1>4, <1>5 DEF ServedInv, OnlyPutSDNames, RowsServed

LEMMA ServedInvInit == Init => ServedInv
<1> SUFFICES ASSUME Init PROVE ServedInv
  OBVIOUS
<1>1. TypeInv
  BY TypeInit
<1>2. \A c \in Conns : conns[c].step \in {"idle", "mark"} => conns[c].sd = NoStream
  BY DEF Init, ReflectorStoreInit, Idle
<1>3. \A u \in Users, s \in SDs : pendingStreams[u][s].row # "none" => Served(u, s)
  BY DEF Init, PendingInit
<1>4. AckedIsServed
  BY DEF Init, ReflectorStoreInit, AckedIsServed
<1>5. QED
  BY <1>1, <1>2, <1>3, <1>4 DEF ServedInv

\* While no call fails, a stream is pending only with a call or a run behind it, so
\* PutSD may take it for served ("Check if pending stream already exists").
THEOREM ServedInductive == ASSUME Faults = FALSE PROVE Spec => []ServedInv
<1>1. ServedInv /\ [Next]_vars => ServedInv'
  BY ServedInvNext
<1>2. QED
  BY <1>1, ServedInvInit, PTL DEF Spec

\* PutSD accepts no SD blob that it leaves without a workflow run, whichever calls
\* race for the stream.  (The run reflector_lost_start shows the failure that does.)
THEOREM AcceptedIsServed == ASSUME Faults = FALSE PROVE Spec => []AckedIsServed
<1>1. ServedInv => AckedIsServed
  BY DEF ServedInv
<1>2. QED
  BY <1>1, ServedInductive, PTL
=============================================================================
