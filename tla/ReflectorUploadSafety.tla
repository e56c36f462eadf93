------------------------ MODULE ReflectorUploadSafety ------------------------
(***************************************************************************)
(* The safety properties of ReflectorUpload that follow from the inductive *)
(* invariant IInv, for every value of the constants, and that it           *)
(* implements UploadCustody and BlobShelf.                                 *)
(***************************************************************************)
EXTENDS ReflectorUploadPending, BlobStoreFacts

-----------------------------------------------------------------------------
(* The blobs a loop has behind it.                                         *)

LEMMA BlobsBeforeFacts ==
    ASSUME NEW s \in SDs
    PROVE  /\ BlobsBefore(s, 1) = {}
           /\ \A n \in DOMAIN Content[s] :
                  BlobsBefore(s, n + 1) = BlobsBefore(s, n) \cup {Content[s][n]}
           /\ BlobsBefore(s, Len(Content[s]) + 1) = ContentBlobs(s)
<1> DEFINE L == Len(Content[s])
<1>1. L \in Nat /\ DOMAIN Content[s] = 1 .. L
  BY ContentFacts
<1>2. BlobsBefore(s, 1) = {}
  BY <1>1 DEF BlobsBefore
<1>3. ASSUME NEW n \in 1 .. L
      PROVE  BlobsBefore(s, n + 1) = BlobsBefore(s, n) \cup {Content[s][n]}
  <2>1. \A j \in 1 .. L : j < n + 1 <=> (j < n \/ j = n)
    BY <1>1, <1>3
  <2>2. QED
    BY <1>1, <1>3, <2>1 DEF BlobsBefore
<1>4. BlobsBefore(s, L + 1) = ContentBlobs(s)
  <2>1. \A j \in 1 .. L : j < L + 1
    BY <1>1
  <2>2. QED
    BY <1>1, <2>1 DEF BlobsBefore, ContentBlobs
<1>5. QED
  BY <1>1, <1>2, <1>3, <1>4

-----------------------------------------------------------------------------
(* What is stored, and what is pinned, stays.                              *)

PinsGrow ==
    \A u \in Users :
        /\ corePins[u] \subseteq corePins'[u]
        /\ \A s \in SDs : streamPins[u][s] # "none" => streamPins'[u][s] # "none"

LEMMA Grows ==
    ASSUME TypeInv, RowsFollowStreams, \A w \in Runs : RunHasDone(w), [Next]_vars
    PROVE  RowsFollowStreams' /\ BlobStoreGrows /\ PinsGrow
<1>1. TablesInv
  BY DEF TypeInv, TypeOK, TablesInv
<1>2. PinsGrow
  <2> USE DEF PinsGrow, pinVars, TypeInv, TypeOK, PinsTypeOK
  <2>1. CASE UNCHANGED pinVars
    BY <2>1
  <2>2. ASSUME NEW u \in Users, NEW s \in SDs, UserDeletesStream(u, s) PROVE PinsGrow
    BY <2>2 DEF UserDeletesStream, DeleteStream
  <2>3. ASSUME NEW w \in Runs, PinNextBlob(w) \/ PinStream(w) PROVE PinsGrow
    <3>1. w[1] \in Users /\ w[2] \in SDs
      BY RunParts
    <3>2. CASE PinNextBlob(w)
      BY <3>1, <3>2 DEF PinNextBlob, ProcessUploadBlob
    <3>3. CASE PinStream(w)
      BY <3>1, <3>3 DEF PinStream, CreateStreamPin
    <3>4. QED
      BY <2>3, <3>2, <3>3
  <2>4. QED
    BY <2>1, <2>2, <2>3
       DEF Next, vars, ConnStep, RunNext, RunProgress, RebuildSDBlob, CheckMissing,
           CheckCount, AddStream, AddStreamBlobs, ReadTemporary, AddBlobObject, AddBlobRow,
           Cleanup, DeleteTemporary, DeleteTemporaryFails, RunFails
<1>3. CASE UNCHANGED blobStoreVars
  BY <1>1, <1>2, <1>3, SameStoreGrows DEF TablesInv
<1>4. ASSUME NEW w \in Runs, RunNext(w) PROVE RowsFollowStreams' /\ BlobStoreGrows
  <2>1. w[2] \in SDs /\ NextBlob(w) \in Blobs
    BY RunParts, ContentFacts DEF TypeInv, LoopsInBounds, NextBlob
  <2>2. CASE AddStream(w)
    BY <1>1, <2>1, <2>2, UpsertStreamGrows DEF AddStream, TablesInv
  <2>3. CASE AddStreamBlobs(w)
    <3>1. streams[w[2]].stored
      BY <2>3 DEF AddStreamBlobs, RunHasDone
    <3>2. QED
      BY <1>1, <2>1, <2>3, <3>1, ProcessStreamBlobsGrows DEF AddStreamBlobs, TablesInv
  <2>4. CASE AddBlobObject(w) \/ AddBlobRow(w)
    BY <1>1, <2>1, <2>4, BlobGrows DEF AddBlobObject, AddBlobRow, TablesInv
  <2>5. QED
    BY <1>3, <1>4, <2>2, <2>3, <2>4
       DEF RunNext, RunProgress, RebuildSDBlob, CheckMissing, CheckCount, ReadTemporary,
           PinNextBlob, PinStream, Cleanup, DeleteTemporary, DeleteTemporaryFails, RunFails
<1>5. QED
  BY <1>2, <1>3, <1>4 DEF Next, vars, ConnStep, UserDeletesStream

-----------------------------------------------------------------------------
(* What a run has done stays done.                                         *)

TempStays == \A u \in Users : (tempData[u] \ tempData'[u]) \subseteq objects

\* Only the last loop of a run takes data from temporary storage, and by then
\* every blob of its stream is in permanent storage.
LEMMA TempKept ==
    ASSUME TypeInv, \A w \in Runs : RunHasDone(w), [Next]_vars
    PROVE  TempStays
<1>1. ASSUME NEW w \in Runs, DeleteTemporary(w) PROVE TempStays
  <2>1. NextBlob(w) \in ContentBlobs(w[2])
    BY DEF TypeInv, LoopsInBounds, NextBlob, ContentBlobs
  <2>2. ContentBlobs(w[2]) \subseteq objects
    BY <1>1 DEF DeleteTemporary, RunHasDone, PinnedSteps
  <2>3. QED
    BY <1>1, <2>1, <2>2 DEF DeleteTemporary, TempStays, TypeInv, TypeOK, ReflectorStoreTypeOK
<1>2. QED
  BY <1>1, TempSteps DEF TempStays

LEMMA DoneStays ==
    ASSUME BlobStoreGrows, PinsGrow, TempStays,
           NEW w \in Runs, RunHasDone(w), runs'[w] = runs[w]
    PROVE  RunHasDone(w)'
<1>1. w[1] \in Users /\ w[2] \in SDs
  BY RunParts
<1>2. NextBlob(w)' = NextBlob(w)
  BY DEF NextBlob
<1>3. QED
  BY <1>1, <1>2 DEF RunHasDone, BlobStoreGrows, PinsGrow, TempStays

\* Each action of a run adds what the step it goes to takes for done.
LEMMA DoneByRun ==
    ASSUME TypeInv, RowsFollowStreams, BlobStoreGrows, PinsGrow,
           NEW w \in Runs, RunHasDone(w), RunNext(w)
    PROVE  RunHasDone(w)'
<1> DEFINE u == w[1]
           s == w[2]
           n == runs[w].next
           L == Len(Content[s])
<1>1. /\ u \in Users /\ s \in SDs
      /\ runs \in [Runs -> [step : RunSteps, next : Nat \ {0}]]
      /\ DOMAIN Content[s] = 1 .. L /\ L \in Nat \ {0} /\ n \in 1 .. L
      /\ NextBlob(w) = Content[s][n] /\ NextBlob(w) \in ContentBlobs(s)
      /\ NextBlob(w) \in Blobs
  BY RunParts, ContentFacts DEF TypeInv, TypeOK, RunsTypeOK, LoopsInBounds, NextBlob, ContentBlobs
<1>2. /\ BlobsBefore(s, 1) = {}
      /\ BlobsBefore(s, n + 1) = BlobsBefore(s, n) \cup {NextBlob(w)}
      /\ n = L => BlobsBefore(s, n) \cup {NextBlob(w)} = ContentBlobs(s)
  BY <1>1, BlobsBeforeFacts
<1>3. /\ objects \subseteq objects'
      /\ corePins[u] \subseteq corePins'[u]
      /\ streams[s].stored => streams'[s].stored
      /\ Published(s) => Published(s)'
      /\ streamPins[u][s] # "none" => streamPins'[u][s] # "none"
  BY <1>1 DEF BlobStoreGrows, PinsGrow
<1>4. ASSUME NEW step, GoTo(w, step)
      PROVE  runs'[w].step = step /\ runs'[w].next = 1
  BY <1>1, <1>4 DEF GoTo
<1>5. ASSUME NEW loop, NEW after, NextIn(w, loop, after)
      PROVE  \/ runs'[w].step = loop /\ runs'[w].next = n + 1
             \/ n = L /\ runs'[w].step = after /\ runs'[w].next = 1
  <2>1. CASE n < L
    BY <1>1, <1>5, <2>1 DEF NextIn
  <2>2. CASE ~(n < L)
    BY <1>1, <1>4, <1>5, <2>2 DEF NextIn
  <2>3. QED
    BY <2>1, <2>2
<1>6. ASSUME runs'[w].step \in {"ready", "check", "count", "addStream"}
      PROVE  RunHasDone(w)'
  BY <1>6 DEF RunHasDone, CopySteps, PinnedSteps
<1>7. CASE RebuildSDBlob(w) \/ CheckMissing(w) \/ CheckCount(w) \/ RunFails(w)
  BY <1>4, <1>6, <1>7 DEF RebuildSDBlob, CheckMissing, CheckCount, RunFails
<1>8. CASE AddStream(w)
  <2>1. runs'[w].step = "addBlobs"
    BY <1>4, <1>8 DEF AddStream
  <2>2. streams'[s].stored
    BY <1>1, <1>8, UpsertStreamGrows DEF AddStream, TypeInv, TypeOK, TablesInv
  <2>3. QED
    BY <2>1, <2>2 DEF RunHasDone, CopySteps, PinnedSteps
<1>9. CASE AddStreamBlobs(w)
  <2>1. runs'[w].step = "readTemp" /\ runs'[w].next = 1
    BY <1>4, <1>9 DEF AddStreamBlobs
  <2>2. streams[s].stored
    BY <1>9 DEF AddStreamBlobs, RunHasDone
  <2>3. Published(s)'
    BY <1>1, <1>9, <2>2, ProcessStreamBlobsGrows DEF AddStreamBlobs, TypeInv, TypeOK, TablesInv
  <2>4. QED
    BY <1>2, <2>1, <2>3 DEF RunHasDone, CopySteps, PinnedSteps
<1>10. CASE ReadTemporary(w)
  <2>1. CASE GoTo(w, "ready")
    BY <1>4, <1>6, <2>1
  <2>2. CASE runs' = [runs EXCEPT ![w].step = "upload"]
    <3>1. runs'[w].step = "upload" /\ runs'[w].next = n
      BY <1>1, <2>2
    <3>2. Published(s) /\ BlobsBefore(s, n) \subseteq objects
      BY <1>10 DEF ReadTemporary, RunHasDone, CopySteps
    <3>3. NextBlob(w) \in tempData[u] /\ tempData' = tempData /\ NextBlob(w)' = NextBlob(w)
      BY <1>4, <1>10, <2>2, <3>1 DEF ReadTemporary, NextBlob
    <3>4. QED
      BY <1>3, <3>1, <3>2, <3>3 DEF RunHasDone, CopySteps, PinnedSteps
  <2>3. QED
    BY <1>10, <2>1, <2>2 DEF ReadTemporary
<1>11. CASE AddBlobObject(w)
  <2>1. runs'[w].step = "upsert" /\ runs'[w].next = n
    BY <1>1, <1>11 DEF AddBlobObject
  <2>2. Published(s) /\ BlobsBefore(s, n) \subseteq objects
    BY <1>11 DEF AddBlobObject, RunHasDone, CopySteps
  <2>3. NextBlob(w) \in objects' /\ NextBlob(w)' = NextBlob(w)
    BY <1>11, <2>1 DEF AddBlobObject, UploadObject, NextBlob
  <2>4. QED
    BY <1>3, <2>1, <2>2, <2>3 DEF RunHasDone, CopySteps, PinnedSteps
<1>12. CASE AddBlobRow(w)
  <2>1. /\ Published(s)
        /\ BlobsBefore(s, n) \subseteq objects /\ NextBlob(w) \in objects
    BY <1>12 DEF AddBlobRow, RunHasDone, CopySteps
  <2>2. CASE runs'[w].step = "readTemp" /\ runs'[w].next = n + 1
    BY <1>2, <1>3, <2>1, <2>2 DEF RunHasDone, CopySteps, PinnedSteps
  <2>3. CASE n = L /\ runs'[w].step = "pinBlobs" /\ runs'[w].next = 1
    BY <1>2, <1>3, <2>1, <2>3 DEF RunHasDone, CopySteps, PinnedSteps
  <2>4. QED
    BY <1>5, <1>12, <2>2, <2>3 DEF AddBlobRow
<1>13. CASE PinNextBlob(w)
  <2>1. /\ Published(s) /\ ContentBlobs(s) \subseteq objects
        /\ BlobsBefore(s, n) \subseteq corePins[u]
    BY <1>13 DEF PinNextBlob, RunHasDone
  <2>2. NextBlob(w) \in corePins'[u]
    BY <1>1, <1>13 DEF PinNextBlob, ProcessUploadBlob, TypeInv, TypeOK, PinsTypeOK
  <2>3. CASE runs'[w].step = "pinBlobs" /\ runs'[w].next = n + 1
    BY <1>2, <1>3, <2>1, <2>2, <2>3 DEF RunHasDone, CopySteps, PinnedSteps
  <2>4. CASE n = L /\ runs'[w].step = "pinStream" /\ runs'[w].next = 1
    BY <1>2, <1>3, <2>1, <2>2, <2>4 DEF RunHasDone, CopySteps, PinnedSteps
  <2>5. QED
    BY <1>5, <1>13, <2>3, <2>4 DEF PinNextBlob
<1>14. CASE PinStream(w)
  <2>1. runs'[w].step = "cleanup"
    BY <1>4, <1>14 DEF PinStream
  <2>2. /\ Published(s) /\ ContentBlobs(s) \subseteq objects
        /\ ContentBlobs(s) \subseteq corePins[u]
    BY <1>14 DEF PinStream, RunHasDone, PinnedSteps
  <2>3. streamPins'[u][s] = "live"
    BY <1>1, <1>14 DEF PinStream, CreateStreamPin, TypeInv, TypeOK, PinsTypeOK
  <2>4. QED
    BY <1>3, <2>1, <2>2, <2>3 DEF RunHasDone, CopySteps, PinnedSteps
<1>15. CASE Cleanup(w) \/ DeleteTemporary(w) \/ DeleteTemporaryFails(w)
  <2>1. /\ Published(s) /\ ContentBlobs(s) \subseteq objects
        /\ ContentBlobs(s) \subseteq corePins[u]
        /\ streamPins[u][s] # "none"
    BY <1>15 DEF Cleanup, DeleteTemporary, DeleteTemporaryFails, RunHasDone, PinnedSteps
  <2>2. runs'[w].step \in {"deleteTemp", "done"}
    BY <1>4, <1>5, <1>15 DEF Cleanup, DeleteTemporary, DeleteTemporaryFails
  <2>3. QED
    BY <1>3, <2>1, <2>2 DEF RunHasDone, CopySteps, PinnedSteps
<1>16. QED
  BY <1>7, <1>8, <1>9, <1>10, <1>11, <1>12, <1>13, <1>14, <1>15 DEF RunNext, RunProgress

LEMMA DoneNext ==
    ASSUME TypeInv, RowsFollowStreams, \A w \in Runs : RunHasDone(w), [Next]_vars
    PROVE  \A w \in Runs : RunHasDone(w)'
<1>1. BlobStoreGrows /\ PinsGrow /\ TempStays
  BY Grows, TempKept
<1>2. SUFFICES ASSUME NEW w \in Runs PROVE RunHasDone(w)'
  OBVIOUS
<1>3. RunHasDone(w)
  OBVIOUS
<1>4. CASE runs'[w] = runs[w]
  BY <1>1, <1>3, <1>4, DoneStays
<1>5. CASE runs'[w].step = "ready"
  BY <1>5 DEF RunHasDone, CopySteps, PinnedSteps
<1>6. CASE RunNext(w)
  BY <1>1, <1>3, <1>6, DoneByRun
<1>7. QED
  BY <1>4, <1>5, <1>6, RunStepsBy

-----------------------------------------------------------------------------
(* The data of received blobs.                                             *)

LEMMA MarkNext ==
    ASSUME TypeInv, MarkHasData, BlobStoreGrows, \A w \in Runs : RunHasDone(w), [Next]_vars
    PROVE  MarkHasData'
<1>1. SUFFICES ASSUME NEW c \in Conns, conns'[c].step = "mark"
               PROVE  conns'[c].blob \in tempData'[ConnUser[c]] \/ conns'[c].blob \in objects'
  BY DEF MarkHasData
<1>2. ConnUser[c] \in Users
  BY ReflectorAssumption
<1>3. CASE conns'[c] = conns[c]
  BY <1>1, <1>2, <1>3, TempKept DEF MarkHasData, BlobStoreGrows, TempStays
<1>4. QED
  BY <1>1, <1>3, MarkBegins

LEMMA ReceivedKept ==
    ASSUME TypeInv, MarkHasData, NoReceivedBlobLost, BlobStoreGrows,
           \A w \in Runs : RunHasDone(w), [Next]_vars
    PROVE  NoReceivedBlobLost'
<1>1. SUFFICES ASSUME NEW u \in Users, NEW b \in Blobs, pendingBlobs'[u][b].received
               PROVE  b \in tempData'[u] \/ b \in objects'
  BY DEF NoReceivedBlobLost
<1>2. b \in tempData[u] \/ b \in objects
  BY <1>1, ReceivedNext DEF NoReceivedBlobLost, MarkHasData
<1>3. QED
  BY <1>2, TempKept DEF BlobStoreGrows, TempStays

-----------------------------------------------------------------------------
(* Pinned streams.                                                         *)

LEMMA PinnedNext ==
    ASSUME TypeInv, BlobStoreGrows, PinsGrow, PinnedStreamComplete,
           \A w \in Runs : RunHasDone(w), [Next]_vars
    PROVE  PinnedStreamComplete'
<1>1. SUFFICES ASSUME NEW u \in Users, NEW s \in SDs, streamPins'[u][s] # "none"
               PROVE  /\ Published(s)'
                      /\ \A b \in ContentBlobs(s) : HasBlob(b)' /\ b \in corePins'[u]
  BY DEF PinnedStreamComplete
<1>2. SUFFICES /\ Published(s)
               /\ ContentBlobs(s) \subseteq objects
               /\ ContentBlobs(s) \subseteq corePins[u]
  <2>1. /\ Published(s)'
        /\ ContentBlobs(s) \subseteq objects'
        /\ ContentBlobs(s) \subseteq corePins'[u]
    BY <1>2 DEF BlobStoreGrows, PinsGrow
  <2>2. QED
    BY <2>1 DEF Published, HasBlob
<1>3. CASE streamPins[u][s] # "none"
  BY <1>3 DEF PinnedStreamComplete, HasBlob
<1>4. CASE streamPins[u][s] = "none"
  <2>1. PICK w \in Runs : PinStream(w)
    <3>1. streamPins' # streamPins
      BY <1>1, <1>4
    <3>2. ASSUME NEW v \in Users, NEW t \in SDs, UserDeletesStream(v, t) PROVE FALSE
      BY <1>1, <1>4, <3>2 DEF UserDeletesStream, DeleteStream, TypeInv, TypeOK, PinsTypeOK
    <3>3. QED
      BY <3>1, <3>2 DEF Next, vars, pinVars, ConnStep, RunNext, RunProgress, RebuildSDBlob,
           CheckMissing, CheckCount, AddStream, AddStreamBlobs, ReadTemporary, AddBlobObject, AddBlobRow,
           PinNextBlob, ProcessUploadBlob, Cleanup, DeleteTemporary, DeleteTemporaryFails,
           RunFails
  <2>2. w[1] = u /\ w[2] = s
    BY <1>1, <1>4, <2>1, RunParts DEF PinStream, CreateStreamPin, TypeInv, TypeOK, PinsTypeOK
  <2>3. QED
    BY <2>1, <2>2 DEF PinStream, RunHasDone, PinnedSteps
<1>5. QED
  BY <1>3, <1>4

-----------------------------------------------------------------------------
(* The inductive invariant and what follows from it.                       *)

LEMMA IInvInit == Init => IInv
<1> SUFFICES ASSUME Init PROVE IInv
  OBVIOUS
<1>1. TypeInv
  BY TypeInit
<1>2. MarkHasData /\ NoReceivedBlobLost
  BY DEF Init, ReflectorStoreInit, PendingInit, Idle, MarkHasData, NoReceivedBlobLost
<1>3. RowsFollowStreams /\ PinnedStreamComplete
  BY DEF Init, BlobStoreInit, PinsInit, RowsFollowStreams, PinnedStreamComplete
<1>4. \A w \in Runs : RunHasDone(w)
  BY DEF Init, RunsInit, RunHasDone, CopySteps, PinnedSteps
<1>5. QED
  BY <1>1, <1>2, <1>3, <1>4 DEF IInv

LEMMA IInvNext == IInv /\ [Next]_vars => IInv'
<1> SUFFICES ASSUME IInv, [Next]_vars PROVE IInv'
  OBVIOUS
<1>1. /\ TypeInv /\ MarkHasData /\ NoReceivedBlobLost /\ RowsFollowStreams
      /\ PinnedStreamComplete
      /\ \A w \in Runs : RunHasDone(w)
  BY DEF IInv
<1>2. TypeInv'
  BY <1>1, TypeNext
<1>3. RowsFollowStreams' /\ BlobStoreGrows /\ PinsGrow
  BY <1>1, Grows
<1>4. MarkHasData' /\ NoReceivedBlobLost'
  BY <1>1, <1>3, MarkNext, ReceivedKept
<1>5. \A w \in Runs : RunHasDone(w)'
  BY <1>1, DoneNext
<1>6. PinnedStreamComplete'
  BY <1>1, <1>3, PinnedNext
<1>7. QED
  BY <1>2, <1>3, <1>4, <1>5, <1>6 DEF IInv

\* The inductive invariant holds of every reachable state: in particular each
\* run of the workflow has done all that its place in Execute presupposes,
\* however often it was restarted and whatever the other runs did meanwhile.
THEOREM Inductive == Spec => []IInv
BY IInvInit, IInvNext, PTL DEF Spec

\* What a user ever pinned is stored whole, and readable but for a stream that lists
\* a blob of it under another IV: assembleStream and ProcessStreamResult pin nothing
\* that is not stored.
THEOREM PinnedStreams == Spec => []PinnedStreamComplete
<1>1. IInv => PinnedStreamComplete
  BY DEF IInv
<1>2. QED
  BY <1>1, Inductive, PTL

\* Where no two SD blobs list a blob under different IVs, what a user ever pinned can
\* be read under its SD hash.
THEOREM PinnedStreamsReadable ==
    ASSUME \A s, t \in SDs : ~Clash(s, t)
    PROVE  Spec => [](\A u \in Users, s \in SDs :
                          streamPins[u][s] # "none" => SDBlobReadable(s))
<1>1. PinnedStreamComplete =>
          \A u \in Users, s \in SDs : streamPins[u][s] # "none" => SDBlobReadable(s)
  BY DEF PinnedStreamComplete, Published, HasRival
<1>2. QED
  BY <1>1, PinnedStreams, PTL

\* No received blob is lost, whichever runs clean up behind it.
THEOREM ReceivedBlobs == Spec => []NoReceivedBlobLost
<1>1. IInv => NoReceivedBlobLost
  BY DEF IInv
<1>2. QED
  BY <1>1, Inductive, PTL

\* The deletion loop of assembleStream takes nothing from temporary storage
\* that is not in permanent storage.
THEOREM TempDeletion == Spec => TempKeptUntilStored
<1>1. IInv /\ [Next]_vars
          => [\A u \in Users : (tempData[u] \ tempData'[u]) \subseteq objects]_vars
  BY TempKept DEF IInv, TempStays
<1>2. QED
  BY <1>1, Inductive, PTL DEF Spec, TempKeptUntilStored

\* The received flag of a pending blob is never cleared.
THEOREM ReceivedForGood == Spec => ReceivedNeverReverts
<1>1. IInv /\ [Next]_vars
          => [\A u \in Users, b \in Blobs :
                  pendingBlobs[u][b].received => pendingBlobs'[u][b].received]_vars
  BY ReceivedNext DEF IInv
<1>2. QED
  BY <1>1, Inductive, PTL DEF Spec, ReceivedNeverReverts

LEMMA PendingNext ==
    ASSUME IInv, [Next]_vars, NEW u \in Users, NEW s \in SDs,
           PendingStreamExists(u, s), ~PendingStreamExists(u, s)'
    PROVE  streamPins[u][s] # "none"
<1>1. TypeInv /\ TypeInv'
  BY TypeNext DEF IInv
<1>2. /\ pendingStreams[u][s].row # "deleted"
      /\ pendingStreams'[u][s].row = "deleted"
  BY <1>1, RowsAge DEF PendingStreamExists, RowsOnlyAge, TypeInv, TypeOK, PendingTypeOK,
     PendingStreamRow, RowStates
<1>3. PICK w \in Runs : Cleanup(w) /\ w[1] = u /\ w[2] = s
  BY <1>1, <1>2, DeletedByCleanup
<1>4. QED
  BY <1>3 DEF IInv, Cleanup, RunHasDone

\* A pending stream ends only when its own upload has been assembled and pinned.
THEOREM PendingEnds == Spec => PendingKeptUntilPinned
<1>1. IInv /\ [Next]_vars
          => [\A u \in Users, s \in SDs :
                  PendingStreamExists(u, s) /\ ~PendingStreamExists(u, s)'
                      => streamPins[u][s] # "none"]_vars
  BY PendingNext
<1>2. QED
  BY <1>1, Inductive, PTL DEF Spec, PendingKeptUntilPinned

-----------------------------------------------------------------------------
(* Uploads that have all come.                                             *)

\* What the assembly's tests find then: the SD blob's list, and nothing missing.
LEMMA AllReceivedFacts ==
    ASSUME RowsFollowSDBlobs, NEW u \in Users, NEW s \in SDs, AllReceived(u, s)
    PROVE  /\ PendingBlobsOf(u, s) = ContentBlobs(s)
           /\ SDBlobMatches(u, s)
           /\ GetMissingBlobs(u, s) = {}
           /\ GetPendingBlobCount(u, s) = Len(Content[s])
<1>1. PendingBlobsOf(u, s) = ContentBlobs(s)
  <2>1. ASSUME NEW b \in PendingBlobsOf(u, s) PROVE b \in ContentBlobs(s)
    BY PendingAssumption DEF PendingBlobsOf, RowsFollowSDBlobs
  <2>2. QED
    BY <2>1 DEF AllReceived
<1>2. \A b \in ContentBlobs(s) : pendingBlobs[u][b].num = BlobNumber(s, b)
  BY <1>1, PendingAssumption DEF PendingBlobsOf, RowsFollowSDBlobs
<1>3. PendingBlobInfos(u, s) = SDBlobInfos(s)
  BY <1>1, <1>2 DEF PendingBlobInfos, SDBlobInfos
<1>4. QED
  BY <1>1, <1>3, ContentCount DEF SDBlobMatches, GetMissingBlobs, GetPendingBlobCount, AllReceived

\* The terminating blob is never taken back.
LEMMA TerminatingStays ==
    ASSUME TypeInv, [Next]_vars, NEW u \in Users, NEW s \in SDs,
           pendingStreams[u][s].terminating
    PROVE  pendingStreams'[u][s].terminating
<1>1. pendingStreams \in [Users -> [SDs -> PendingStreamRow]]
  BY DEF TypeInv, TypeOK, PendingTypeOK
<1>2. CASE UNCHANGED pendingStreams
  BY <1>2
<1>3. ASSUME NEW v \in Users, NEW t \in SDs,
             \/ UpsertPendingStream(v, t)
             \/ SetTerminatingBlob(v, t)
             \/ CleanupPendingBlobs(v, t)
      PROVE  pendingStreams'[u][s].terminating
  <2>1. CASE UpsertPendingStream(v, t)
    BY <1>1, <2>1 DEF UpsertPendingStream, PendingStreamRow
  <2>2. CASE SetTerminatingBlob(v, t)
    BY <1>1, <2>2 DEF SetTerminatingBlob, PendingStreamRow
  <2>3. CASE CleanupPendingBlobs(v, t)
    BY <1>1, <2>3 DEF CleanupPendingBlobs, PendingStreamRow
  <2>4. QED
    BY <1>3, <2>1, <2>2, <2>3
<1>4. QED
  BY <1>2, <1>3, PendingSteps DEF pendingVars, PutSDStream, PutSDTerminating, PutSDBlobs,
     CreatePendingBlobsFromSDBlob, PutMarkReceived, MarkPendingBlobAsReceived, Cleanup

LEMMA CompleteNext ==
    ASSUME IInv, [Next]_vars, NEW u \in Users, NEW s \in SDs,
           SharesNoBlob(s), AllReceived(u, s)
    PROVE  AllReceived(u, s)' \/ streamPins[u][s] # "none"
<1>1. TypeInv /\ PendingStreamExists(u, s)
  BY DEF IInv, AllReceived
<1>2. CASE ~PendingStreamExists(u, s)'
  BY <1>1, <1>2, PendingNext
<1>3. CASE PendingStreamExists(u, s)'
  <2>1. pendingStreams'[u][s].terminating
    BY <1>1, TerminatingStays DEF AllReceived
  <2>2. ASSUME NEW b \in ContentBlobs(s)
        PROVE  b \in PendingBlobsOf(u, s)' /\ pendingBlobs'[u][b].received
    <3>1. b \in Blobs /\ b \in OwnBlobs(s)
      BY ContentFacts DEF SharesNoBlob, OwnBlobs
    <3>2. b \in PendingBlobsOf(u, s) /\ pendingBlobs[u][b].received
      BY DEF AllReceived
    <3>3. QED
      BY <1>1, <1>3, <3>1, <3>2, OwnRowsStay, ReceivedNext
  <2>3. QED
    BY <1>3, <2>1, <2>2 DEF AllReceived
<1>4. QED
  BY <1>2, <1>3

\* An upload that has all come stays so until it is pinned.
THEOREM CompleteStays == Spec => CompleteUntilPinned
<1>1. IInv /\ [Next]_vars
          => [\A u \in Users, s \in SDs :
                  SharesNoBlob(s) /\ AllReceived(u, s)
                      => AllReceived(u, s)' \/ streamPins[u][s] # "none"]_vars
  BY CompleteNext
<1>2. QED
  BY <1>1, Inductive, PTL DEF Spec, CompleteUntilPinned

LEMMA CompleteGoesOn ==
    ASSUME PendingInv, NEW w \in Runs, SharesNoBlob(w[2]), AllReceived(w[1], w[2]),
           RunProgress(w)
    PROVE  runs'[w].step # "ready"
<1> DEFINE u == w[1]
           s == w[2]
<1>1. /\ u \in Users /\ s \in SDs
      /\ runs \in [Runs -> [step : RunSteps, next : Nat \ {0}]]
      /\ runs[w].next \in DOMAIN Content[s]
  BY RunParts DEF PendingInv, TypeInv, TypeOK, RunsTypeOK, LoopsInBounds
<1>2. ASSUME NEW step, GoTo(w, step) PROVE runs'[w].step = step
  BY <1>1, <1>2 DEF GoTo
<1>3. ASSUME NEW loop, NEW after, NextIn(w, loop, after)
      PROVE  runs'[w].step \in {loop, after}
  BY <1>1, <1>2, <1>3 DEF NextIn
<1>4. CASE CheckMissing(w) \/ CheckCount(w)
  <2>1. GetMissingBlobs(u, s) = {} /\ GetPendingBlobCount(u, s) = Len(Content[s])
    BY <1>1, AllReceivedFacts DEF PendingInv
  <2>2. QED
    BY <1>2, <1>4, <2>1 DEF CheckMissing, CheckCount
<1>5. CASE ReadTemporary(w)
  <2>1. NextBlob(w) \in ContentBlobs(s)
    BY <1>1 DEF NextBlob, ContentBlobs
  <2>2. /\ NextBlob(w) \in Blobs /\ Unshared(NextBlob(w))
        /\ NextBlob(w) \in PendingBlobsOf(u, s)
        /\ pendingBlobs[u][NextBlob(w)].received
    BY <1>1, <2>1, ContentFacts DEF SharesNoBlob, AllReceived
  <2>3. NextBlob(w) \in tempData[u]
    BY <1>1, <2>2 DEF PendingInv, ReceivedHasData, PendingBlobsOf
  <2>4. QED
    BY <1>1, <1>5, <2>3 DEF ReadTemporary
<1>6. CASE AddBlobObject(w)
  BY <1>1, <1>6 DEF AddBlobObject
<1>7. CASE AddBlobRow(w) \/ PinNextBlob(w) \/ DeleteTemporary(w)
  BY <1>3, <1>7 DEF AddBlobRow, PinNextBlob, DeleteTemporary
<1>8. CASE RebuildSDBlob(w) \/ AddStream(w) \/ AddStreamBlobs(w) \/ PinStream(w) \/ Cleanup(w)
  BY <1>2, <1>8 DEF RebuildSDBlob, AddStream, AddStreamBlobs, PinStream, Cleanup
<1>9. QED
  BY <1>4, <1>5, <1>6, <1>7, <1>8 DEF RunProgress

\* Only a failing call makes a run start over once its upload has all come.
THEOREM CompleteAssembles == Spec => CompleteIsAssembled
<1>1. PendingInv
          => [\A w \in Runs :
                  SharesNoBlob(w[2]) /\ AllReceived(w[1], w[2]) /\ RunProgress(w)
                      => runs'[w].step # "ready"]_vars
  BY CompleteGoesOn
<1>2. QED
  BY <1>1, PendingInductive, PTL DEF CompleteIsAssembled

\* An upload never deletes a blob of the permanent store.
NoBlobDeleted == \A b \in Blobs : blobRows[b].row # "deleted"

LEMMA NoBlobDeletedNext ==
    ASSUME TypeInv, NoBlobDeleted, [Next]_vars
    PROVE  NoBlobDeleted'
<1>1. CASE UNCHANGED blobRows
  BY <1>1 DEF NoBlobDeleted
<1>2. ASSUME NEW w \in Runs, RunNext(w) PROVE NoBlobDeleted'
  <2>1. CASE AddStreamBlobs(w)
    BY <2>1 DEF AddStreamBlobs, ProcessStreamBlobs, NoBlobDeleted
  <2>2. CASE AddBlobRow(w)
    <3>1. blobRows \in [Blobs -> BlobRow]
      BY DEF TypeInv, TypeOK, BlobStoreTypeOK
    <3>2. QED
      BY <2>2, <3>1 DEF AddBlobRow, UpsertBlobRecord, Upserted, BlobRow, NoBlobDeleted
  <2>3. QED
    BY <1>1, <1>2, <2>1, <2>2 DEF RunNext, RunProgress, RebuildSDBlob, CheckMissing, CheckCount,
       AddStream, UpsertStream, ReadTemporary, AddBlobObject, UploadObject, PinNextBlob, PinStream,
       Cleanup, DeleteTemporary, DeleteTemporaryFails, RunFails, blobStoreVars
<1>3. QED
  BY <1>1, <1>2 DEF Next, vars, ConnStep, UserDeletesStream, blobStoreVars

\* An upload that has all come meets no test of the assembly, and no transaction,
\* that can refuse it.
THEOREM NotBlocked == Spec => []RunsNotBlocked
<1>1. Init => NoBlobDeleted
  BY DEF Init, BlobStoreInit, NoBlobDeleted
<1>2. IInv /\ NoBlobDeleted /\ [Next]_vars => NoBlobDeleted'
  BY NoBlobDeletedNext DEF IInv
<1>3. IInv /\ PendingInv /\ NoBlobDeleted => RunsNotBlocked
  <2> SUFFICES ASSUME IInv, PendingInv, NoBlobDeleted, NEW w \in Runs
               PROVE  /\ AllReceived(w[1], w[2]) => SDBlobMatches(w[1], w[2])
                      /\ runs[w].step = "addBlobs" => CanProcessStreamBlobs(w[2])
                      /\ runs[w].step = "pinStream" => streams[w[2]].stored
    BY DEF RunsNotBlocked
  <2>1. w[1] \in Users /\ w[2] \in SDs /\ ContentBlobs(w[2]) \subseteq Blobs
    BY RunParts, ContentFacts
  <2>2. AllReceived(w[1], w[2]) => SDBlobMatches(w[1], w[2])
    BY <2>1, AllReceivedFacts DEF PendingInv
  <2>3. CanProcessStreamBlobs(w[2])
    BY <2>1 DEF NoBlobDeleted, CanProcessStreamBlobs
  <2>4. runs[w].step = "pinStream" => streams[w[2]].stored
    BY DEF IInv, RunHasDone, PinnedSteps, Published, StreamWhole
  <2>5. QED
    BY <2>2, <2>3, <2>4
<1>4. QED
  BY <1>1, <1>2, <1>3, Inductive, PendingInductive, PTL DEF Spec

-----------------------------------------------------------------------------
(* The promise of UploadCustody: steps that it does not see.               *)

CustodyStep == [Custody!Next]_(Custody!custodyVars)

SameReceived ==
    \A u \in Users, b \in Blobs :
        pendingBlobs'[u][b].received <=> pendingBlobs[u][b].received

LEMMA ReceiptsSame ==
    ASSUME SameReceived
    PROVE  [u \in Users |-> Received(u)]' = [u \in Users |-> Received(u)]
<1>1. \A u \in Users : Received(u)' = Received(u)
  BY DEF SameReceived, Received
<1>2. QED
  BY <1>1

LEMMA PinnedSame ==
    ASSUME UNCHANGED streamPins
    PROVE  [u \in Users |-> Pinned(u)]' = [u \in Users |-> Pinned(u)]
BY DEF Pinned

LEMMA Stutters ==
    ASSUME SameReceived, UNCHANGED <<tempData, objects, streamPins>>
    PROVE  CustodyStep
BY ReceiptsSame, PinnedSame DEF CustodyStep, Custody!custodyVars

-----------------------------------------------------------------------------
(* The promise: its steps.                                                 *)

LEMMA SendRefines ==
    ASSUME TypeInv, SameReceived, NEW c \in Conns, NEW b \in Blobs, PutTemporary(c, b),
           UNCHANGED <<objects, streamPins>>
    PROVE  CustodyStep
<1>1. ConnUser[c] \in Users
  BY ReflectorAssumption
<1>2. Custody!Send(ConnUser[c], b)
  BY ReceiptsSame, PinnedSame DEF Custody!Send, PutTemporary
<1>3. QED
  BY <1>1, <1>2 DEF CustodyStep, Custody!Next

LEMMA ReceiptRefines ==
    ASSUME TypeInv, MarkHasData, NEW c \in Conns, PutMarkReceived(c),
           UNCHANGED <<objects, streamPins>>
    PROVE  CustodyStep
<1> DEFINE u == ConnUser[c]
           b == conns[c].blob
<1>1. u \in Users /\ b \in Blobs
  BY ReflectorAssumption DEF PutMarkReceived, TypeInv, CallsNamed
<1>2. b \in tempData[u] \cup objects
  BY DEF PutMarkReceived, MarkHasData
<1>3. \A v \in Users : Received(v)' = IF v = u THEN Received(v) \cup {b} ELSE Received(v)
  BY <1>1, ReceivedByMark DEF Received
<1>4. [v \in Users |-> Received(v)]' =
          [[v \in Users |-> Received(v)] EXCEPT ![u] = @ \cup {b}]
  BY <1>1, <1>3
<1>5. Custody!GiveReceipt(u, b)
  BY <1>2, <1>4, PinnedSame DEF Custody!GiveReceipt, PutMarkReceived
<1>6. QED
  BY <1>1, <1>5 DEF CustodyStep, Custody!Next

LEMMA StoreRefines ==
    ASSUME TypeInv, SameReceived, NEW w \in Runs, RunHasDone(w), AddBlobObject(w)
    PROVE  CustodyStep
<1>1. w[1] \in Users /\ NextBlob(w) \in Blobs
  BY RunParts, ContentFacts DEF TypeInv, LoopsInBounds, NextBlob
<1>2. NextBlob(w) \in tempData[w[1]] \cup objects
  BY DEF AddBlobObject, RunHasDone
<1>3. /\ objects' = objects \cup {NextBlob(w)}
      /\ UNCHANGED <<tempData, streamPins>>
  BY DEF AddBlobObject, UploadObject, pinVars
<1>4. CASE NextBlob(w) \in objects
  BY <1>3, <1>4, Stutters
<1>5. CASE NextBlob(w) \in tempData[w[1]]
  <2>1. Custody!Store(w[1], NextBlob(w))
    BY <1>3, <1>5, ReceiptsSame, PinnedSame DEF Custody!Store
  <2>2. QED
    BY <1>1, <2>1 DEF CustodyStep, Custody!Next
<1>6. QED
  BY <1>2, <1>4, <1>5

LEMMA TakeOutRefines ==
    ASSUME TypeInv, SameReceived, NEW w \in Runs, RunHasDone(w), DeleteTemporary(w)
    PROVE  CustodyStep
<1>1. /\ w[1] \in Users /\ NextBlob(w) \in Blobs
      /\ NextBlob(w) \in ContentBlobs(w[2])
  BY RunParts, ContentFacts DEF TypeInv, LoopsInBounds, NextBlob, ContentBlobs
<1>2. NextBlob(w) \in objects
  BY <1>1 DEF DeleteTemporary, RunHasDone, PinnedSteps
<1>3. Custody!TakeOut(w[1], NextBlob(w))
  BY <1>2, ReceiptsSame, PinnedSame DEF Custody!TakeOut, DeleteTemporary, blobStoreVars, pinVars
<1>4. QED
  BY <1>1, <1>3 DEF CustodyStep, Custody!Next

LEMMA PinRefines ==
    ASSUME TypeInv, SameReceived, NEW w \in Runs, RunHasDone(w), PinStream(w)
    PROVE  CustodyStep
<1> DEFINE u == w[1]
           s == w[2]
<1>1. u \in Users /\ s \in SDs
  BY RunParts
<1>2. ContentBlobs(s) \subseteq objects
  BY DEF PinStream, RunHasDone, PinnedSteps
<1>3. streamPins' = [streamPins EXCEPT ![u][s] = "live"]
  BY DEF PinStream, CreateStreamPin
<1>4. \A v \in Users : Pinned(v)' = IF v = u THEN Pinned(v) \cup {s} ELSE Pinned(v)
  BY <1>1, <1>3 DEF Pinned, TypeInv, TypeOK, PinsTypeOK
<1>5. [v \in Users |-> Pinned(v)]' = [[v \in Users |-> Pinned(v)] EXCEPT ![u] = @ \cup {s}]
  BY <1>1, <1>4
<1>6. Custody!Pin(u, s)
  BY <1>2, <1>5, ReceiptsSame DEF Custody!Pin, Custody!ContentBlobs, ContentBlobs, PinStream,
     blobStoreVars
<1>7. QED
  BY <1>1, <1>6 DEF CustodyStep, Custody!Next

LEMMA UnpinRefines ==
    ASSUME TypeInv, SameReceived, NEW u \in Users, NEW s \in SDs, UserDeletesStream(u, s)
    PROVE  CustodyStep
<1>1. streamPins' = [streamPins EXCEPT ![u][s] = "deleted"]
  BY DEF UserDeletesStream, DeleteStream
<1>2. \A v \in Users : Pinned(v)' = IF v = u THEN Pinned(v) \ {s} ELSE Pinned(v)
  BY <1>1 DEF Pinned, TypeInv, TypeOK, PinsTypeOK
<1>3. [v \in Users |-> Pinned(v)]' = [[v \in Users |-> Pinned(v)] EXCEPT ![u] = @ \ {s}]
  BY <1>2
<1>4. Custody!Unpin(u, s)
  BY <1>3, ReceiptsSame DEF Custody!Unpin, UserDeletesStream, blobStoreVars
<1>5. QED
  BY <1>4 DEF CustodyStep, Custody!Next

-----------------------------------------------------------------------------
(* The promise: each step of a call, a run or a user is one of its steps,  *)
(* or one that it does not see.                                            *)

LEMMA CustodyInit == Init => Custody!Init
<1> SUFFICES ASSUME Init PROVE Custody!Init
  OBVIOUS
<1>1. tempData = [u \in Users |-> {}] /\ objects = {}
  BY DEF Init, ReflectorStoreInit, BlobStoreInit
<1>2. \A u \in Users : Received(u) = {} /\ Pinned(u) = {}
  BY DEF Init, PendingInit, PinsInit, Received, Pinned
<1>3. QED
  BY <1>1, <1>2 DEF Custody!Init

LEMMA CustodyNext == IInv /\ [Next]_vars => CustodyStep
<1> SUFFICES ASSUME IInv, [Next]_vars PROVE CustodyStep
  OBVIOUS
<1>1. TypeInv /\ MarkHasData /\ \A w \in Runs : RunHasDone(w)
  BY DEF IInv
<1>2. ASSUME NEW c \in Conns, PutMarkReceived(c), ConnStep(c) PROVE CustodyStep
  BY <1>1, <1>2, ReceiptRefines DEF ConnStep, blobStoreVars, pinVars
<1>3. CASE \A c \in Conns : ~(ConnStep(c) /\ PutMarkReceived(c))
  <2>1. SameReceived
    BY <1>1, <1>3, ReceivedOtherwise DEF SameReceived
  <2>2. ASSUME NEW c \in Conns, ConnStep(c) PROVE CustodyStep
    <3>1. UNCHANGED <<objects, streamPins>>
      BY <2>2 DEF ConnStep, blobStoreVars, pinVars
    <3>2. CASE \E b \in Blobs : PutTemporary(c, b)
      BY <1>1, <2>1, <3>1, <3>2, SendRefines
    <3>3. CASE ~\E b \in Blobs : PutTemporary(c, b)
      <4>1. UNCHANGED tempData
        BY <1>3, <2>2, <3>3 DEF ConnStep, ConnNext, PutSDAlreadyPending, PutSDNotPending,
             PutSDStream, PutSDBlobs, PutSDTerminating, PutSDWorkflow, PutMarkRejected,
             CallFails
      <4>2. QED
        BY <2>1, <3>1, <4>1, Stutters
    <3>4. QED
      BY <3>2, <3>3
  <2>3. ASSUME NEW w \in Runs, RunNext(w) PROVE CustodyStep
    <3>1. CASE AddBlobObject(w)
      BY <1>1, <2>1, <3>1, StoreRefines
    <3>2. CASE DeleteTemporary(w)
      BY <1>1, <2>1, <3>2, TakeOutRefines
    <3>3. CASE PinStream(w)
      BY <1>1, <2>1, <3>3, PinRefines
    <3>4. CASE ~(AddBlobObject(w) \/ DeleteTemporary(w) \/ PinStream(w))
      <4>1. UNCHANGED <<tempData, objects, streamPins>>
        BY <2>3, <3>4 DEF RunNext, RunProgress, RebuildSDBlob, CheckMissing, CheckCount,
             AddStream, UpsertStream, AddStreamBlobs, ProcessStreamBlobs, ReadTemporary,
             AddBlobRow, UpsertBlobRecord, PinNextBlob, ProcessUploadBlob, Cleanup,
             DeleteTemporaryFails, RunFails, blobStoreVars, pinVars
      <4>2. QED
        BY <2>1, <4>1, Stutters
    <3>5. QED
      BY <3>1, <3>2, <3>3, <3>4
  <2>4. ASSUME NEW u \in Users, NEW s \in SDs, UserDeletesStream(u, s) PROVE CustodyStep
    BY <1>1, <2>1, <2>4, UnpinRefines
  <2>5. CASE UNCHANGED vars
    BY <2>1, <2>5, Stutters DEF vars, blobStoreVars, pinVars
  <2>6. QED
    BY <2>2, <2>3, <2>4, <2>5 DEF Next
<1>4. QED
  BY <1>2, <1>3

\* The uploads of the reflector protocol, with their races, failures and restarts,
\* implement the custody of data that UploadCustody promises.
THEOREM CustodyKept == Spec => KeepsCustody
<1>1. Spec => Custody!Init
  BY CustodyInit DEF Spec
<1>2. IInv /\ [Next]_vars => [Custody!Next]_(Custody!custodyVars)
  BY CustodyNext DEF CustodyStep
<1>3. QED
  BY <1>1, <1>2, Inductive, PTL DEF Spec, KeepsCustody, Custody!Spec

-----------------------------------------------------------------------------
(* What readers see.                                                       *)

\* Readers see the runs put what they store; calls and users do not write there.
LEMMA ShelfNext == IInv /\ [Next]_vars => [Shelf!Put]_(Shelf!shelfVars)
<1> SUFFICES ASSUME IInv, [Next]_vars PROVE [Shelf!Put]_(Shelf!shelfVars)
  OBVIOUS
<1>1. TablesInv
  BY DEF IInv, TypeInv, TypeOK, TablesInv
<1>2. CASE UNCHANGED blobStoreVars
  BY <1>2, ShelfFrame
<1>3. ASSUME NEW w \in Runs, RunNext(w) PROVE [Shelf!Put]_(Shelf!shelfVars)
  <2>1. w[2] \in SDs /\ NextBlob(w) \in Blobs
    BY RunParts, ContentFacts DEF IInv, TypeInv, LoopsInBounds, NextBlob
  <2>2. CASE AddStream(w)
    BY <1>1, <2>1, <2>2, ShelfKeeps DEF AddStream
  <2>3. CASE AddStreamBlobs(w)
    <3>1. streams[w[2]].stored
      BY <2>3 DEF AddStreamBlobs, IInv, RunHasDone
    <3>2. QED
      BY <1>1, <2>1, <2>3, <3>1, ShelfPublish DEF AddStreamBlobs, Shelf!Put
  <2>4. CASE AddBlobObject(w) \/ AddBlobRow(w)
    BY <1>1, <2>1, <2>4, ShelfServe DEF AddBlobObject, AddBlobRow, Shelf!Put
  <2>5. QED
    BY <1>2, <1>3, <2>2, <2>3, <2>4
       DEF RunNext, RunProgress, RebuildSDBlob, CheckMissing, CheckCount, ReadTemporary,
           PinNextBlob, PinStream, Cleanup, DeleteTemporary, DeleteTemporaryFails, RunFails
<1>4. QED
  BY <1>2, <1>3 DEF Next, vars, ConnStep, UserDeletesStream

\* Uploads through the reflector protocol, whatever fails and is done again, take
\* nothing from the readers of the permanent store but the SD blobs that clash with
\* one they publish.
THEOREM OnlyPuts == Spec => OnlyPutsOnShelf
<1>1. Init => Shelf!Init
  BY ShelfInit DEF Init
<1>2. QED
  BY <1>1, ShelfNext, Inductive, PTL DEF Spec, OnlyPutsOnShelf, Shelf!PutsOnlySpec
=============================================================================
