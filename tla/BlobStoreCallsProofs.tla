------------------------ MODULE BlobStoreCallsProofs ------------------------
(***************************************************************************)
(* Proofs about BlobStoreCalls, for every value of its constants, and that *)
(* it implements BlobShelf.                                                *)
(***************************************************************************)
EXTENDS BlobStoreCalls, BlobStoreFacts

\* The part of the invariant that is about the store, and what the store keeps for
\* the calls that are under way, whatever step another call takes.
StoreInv ==
    /\ BlobStoreTypeOK
    /\ ackedBlobs \subseteq Blobs
    /\ ackedSDs \subseteq SDs
    /\ deleteCalled \subseteq Blobs
    /\ RowsFollowStreams
    /\ DeletesCalled
    /\ AcksKept

StoreKeeps ==
    /\ \A s \in SDs : streams[s].stored => streams'[s].stored
    /\ \A s \in SDs : StreamWhole(s) => StreamWhole(s)'
    /\ \A s \in SDs : HasRival(s) => HasRival(s)'
    /\ \A b \in Blobs : blobRows[b].row = "deleted" => blobRows'[b].row = "deleted"
    /\ objects \cup deleteCalled \subseteq objects' \cup deleteCalled'
    /\ deleteCalled \subseteq deleteCalled'

-----------------------------------------------------------------------------
(* The store.                                                              *)

LEMMA InvInit == Init => IInv
<1> SUFFICES ASSUME Init PROVE IInv
  OBVIOUS
<1> USE DEF Init, BlobStoreInit
<1>1. TypeOK
  BY DEF TypeOK, BlobStoreTypeOK, StreamRow, BlobRow, RowStates, CallRecord, CallSteps,
         NoCall, NewCall, SDCallSteps, BlobCallSteps
<1>2. RowsFollowStreams /\ DeletesCalled /\ AcksKept
  BY DEF RowsFollowStreams, DeletesCalled, AcksKept
<1>3. \A c \in Callers : WriteTrue(c) /\ ReadTrue(c)
  BY DEF WriteTrue, ReadTrue, NoCall, NewCall, SDCallSteps
<1>4. QED
  BY <1>1, <1>2, <1>3 DEF IInv

LEMMA StreamRowOf ==
    ASSUME BlobStoreTypeOK, NEW s \in SDs
    PROVE  /\ streams[s].stored \in BOOLEAN
           /\ streams[s].blobs \subseteq Blobs
           /\ streams[s].terminating \in BOOLEAN
           /\ [streams[s] EXCEPT !.stored = TRUE] \in StreamRow
           /\ [streams[s] EXCEPT !.blobs = streams[s].blobs \cup ContentBlobs(s),
                                 !.terminating = TRUE] \in StreamRow
<1>1. streams[s] \in StreamRow /\ ContentBlobs(s) \subseteq Blobs
  BY ContentFacts DEF BlobStoreTypeOK
<1>2. QED
  BY <1>1 DEF StreamRow

\* What the calls have established is kept by a step that keeps the tables whole,
\* takes away only what is in deleteCalled, and adds what it acknowledges.
LEMMA StoreGoesTo ==
    ASSUME StoreInv, TablesInv',
           deleteCalled \subseteq deleteCalled', deleteCalled' \subseteq Blobs,
           ackedBlobs' \subseteq Blobs, ackedSDs' \subseteq SDs,
           \A s \in SDs : streams[s].stored => streams'[s].stored,
           \A s \in SDs : StreamWhole(s) => StreamWhole(s)',
           \A b \in Blobs : blobRows[b].row = "deleted" => blobRows'[b].row = "deleted",
           \A b \in Blobs :
               /\ blobRows'[b].row = "deleted" => blobRows[b].row = "deleted" \/ b \in deleteCalled'
               /\ b \in objects => b \in objects' \cup deleteCalled'
               /\ HasBlob(b) => HasBlob(b)' \/ b \in deleteCalled',
           \A b \in ackedBlobs' \ ackedBlobs : HasBlob(b)' \/ b \in deleteCalled',
           \A s \in ackedSDs' \ ackedSDs : StreamWhole(s)'
    PROVE  StoreInv' /\ StoreKeeps
<1>1. DeletesCalled'
  BY DEF StoreInv, DeletesCalled
<1>2. AcksKept'
  BY DEF StoreInv, AcksKept
<1>3. StoreKeeps
  BY DEF StoreInv, BlobStoreTypeOK, StoreKeeps, HasRival
<1>4. QED
  BY <1>1, <1>2, <1>3 DEF StoreInv, TablesInv

LEMMA StoreTables == StoreInv => TablesInv
BY DEF StoreInv, TablesInv

LEMMA StoresStream ==
    ASSUME StoreInv, NEW s \in SDs, UpsertStream(s), UNCHANGED historyVars
    PROVE  StoreInv' /\ StoreKeeps
<1>1. TablesInv /\ TablesInv'
  BY StoreTables, UpsertStreamTables
<1>2. /\ UNCHANGED <<blobRows, objects, deleteCalled, ackedBlobs, ackedSDs>>
      /\ \A b \in Blobs : HasBlob(b)' <=> HasBlob(b)
  BY DEF UpsertStream, historyVars, HasBlob, HasBlobMetadata
<1>3. \A t \in SDs : /\ streams[t].stored => streams'[t].stored
                     /\ StreamWhole(t) => StreamWhole(t)'
  BY <1>1, UpsertStreamRows DEF TablesInv, StreamWhole
<1>4. QED
  BY <1>1, <1>2, <1>3, StoreGoesTo DEF StoreInv

LEMMA StoresStreamBlobs ==
    ASSUME StoreInv, NEW s \in SDs, streams[s].stored, ProcessStreamBlobs(s),
           UNCHANGED <<ackedBlobs, deleteCalled>>, ackedSDs' = ackedSDs \cup {s}
    PROVE  StoreInv' /\ StoreKeeps
<1>1. TablesInv /\ TablesInv' /\ objects' = objects
  BY StoreTables, ProcessStreamBlobsTables DEF ProcessStreamBlobs
<1>2. \A t \in SDs : /\ streams[t].stored => streams'[t].stored
                     /\ StreamWhole(t) => StreamWhole(t)'
  BY <1>1, ProcessStreamBlobsRows DEF StreamWhole
<1>3. \A b \in Blobs : /\ (blobRows'[b].row = "deleted") = (blobRows[b].row = "deleted")
                       /\ HasBlob(b) => HasBlob(b)'
  BY <1>1, ProcessStreamBlobsRows DEF HasBlob, HasBlobMetadata
<1>4. StreamWhole(s)'
  BY <1>1, ProcessStreamBlobsRows
<1>5. QED
  BY <1>1, <1>2, <1>3, <1>4, StoreGoesTo DEF StoreInv

LEMMA StoresObject ==
    ASSUME StoreInv, NEW b \in Blobs, UploadObject(b), UNCHANGED historyVars
    PROVE  StoreInv' /\ StoreKeeps
<1>1. TablesInv'
  BY StoreTables, BlobTables
<1>2. QED
  BY <1>1, StoreGoesTo DEF UploadObject, historyVars, StoreInv, StreamWhole, HasBlob,
     HasBlobMetadata

LEMMA StoresRow ==
    ASSUME StoreInv, NEW b \in Blobs, b \in objects \cup deleteCalled, UpsertBlobRecord(b),
           ackedBlobs' = ackedBlobs \cup {b}, UNCHANGED <<ackedSDs, deleteCalled>>
    PROVE  StoreInv' /\ StoreKeeps
<1>1. TablesInv /\ TablesInv' /\ UNCHANGED <<streams, objects>>
  BY StoreTables, BlobTables DEF UpsertBlobRecord
<1>2. /\ blobRows'[b].row = IF blobRows[b].row = "none" THEN "live" ELSE blobRows[b].row
      /\ \A o \in Blobs : o # b => blobRows'[o] = blobRows[o]
  BY <1>1, UpsertBlobRecordRows DEF TablesInv
<1>3. blobRows[b].row \in {"none", "live", "deleted"}
  BY DEF StoreInv, BlobStoreTypeOK, BlobRow, RowStates
<1>4. HasBlob(b)' \/ b \in deleteCalled
  BY <1>1, <1>2, <1>3 DEF HasBlob, HasBlobMetadata, StoreInv, DeletesCalled
<1>5. \A o \in Blobs : HasBlob(o) => HasBlob(o)'
  BY <1>1, <1>2 DEF HasBlob, HasBlobMetadata
<1>6. \A o \in Blobs : (blobRows'[o].row = "deleted") = (blobRows[o].row = "deleted")
  BY <1>2, <1>3
<1>7. QED
  BY <1>1, <1>4, <1>5, <1>6, StoreGoesTo DEF StoreInv, StreamWhole

LEMMA DropsObject ==
    ASSUME StoreInv, NEW b \in deleteCalled, DeleteObject(b), UNCHANGED historyVars
    PROVE  StoreInv' /\ StoreKeeps
<1>1. TablesInv'
  BY StoreTables, BlobTables DEF StoreInv
<1>2. QED
  BY <1>1, StoreGoesTo DEF DeleteObject, historyVars, StoreInv, StreamWhole, HasBlob,
     HasBlobMetadata

LEMMA DropsRow ==
    ASSUME StoreInv, NEW b \in deleteCalled, DeleteBlobRecord(b), UNCHANGED historyVars
    PROVE  StoreInv' /\ StoreKeeps
<1>1. TablesInv /\ TablesInv' /\ b \in Blobs
  BY StoreTables, BlobTables DEF StoreInv
<1>2. /\ blobRows'[b].row = IF blobRows[b].row = "live" THEN "deleted" ELSE blobRows[b].row
      /\ \A o \in Blobs : o # b => blobRows'[o] = blobRows[o]
      /\ UNCHANGED <<streams, objects>>
  BY <1>1, DeleteBlobRecordRows DEF TablesInv, DeleteBlobRecord
<1>3. \A o \in Blobs : HasBlob(o) => HasBlob(o)' \/ o \in deleteCalled
  BY <1>2 DEF HasBlob, HasBlobMetadata
<1>4. QED
  BY <1>1, <1>2, <1>3, StoreGoesTo DEF historyVars, StoreInv, StreamWhole

-----------------------------------------------------------------------------
(* The calls.                                                              *)

\* Every step of a call keeps the store; steps that only read leave it as it was.
LEMMA StoreStep ==
    ASSUME IInv, NEW c \in Callers, CallNext(c)
    PROVE  StoreInv' /\ StoreKeeps
<1>1. StoreInv
  BY DEF IInv, TypeOK, StoreInv
<1>2. /\ calls[c] \in CallRecord
      /\ calls[c].step \in SDCallSteps => calls[c].sd \in SDs
      /\ calls[c].step \in BlobCallSteps => calls[c].blob \in Blobs
      /\ WriteTrue(c)
  BY DEF IInv, TypeOK
<1>3. CASE UNCHANGED <<blobStoreVars, historyVars>>
  BY <1>1, <1>3 DEF blobStoreVars, historyVars, StoreInv, StoreKeeps, BlobStoreTypeOK,
         RowsFollowStreams, HasIVOfStream, HasRival, DeletesCalled, AcksKept, StreamWhole,
         HasBlob, HasBlobMetadata
<1>4. ASSUME NEW s \in SDs, PutSDStream(c, s) PROVE StoreInv' /\ StoreKeeps
  BY <1>1, <1>4, StoresStream DEF PutSDStream
<1>5. CASE PutSDBlobs(c)
  <2>1. calls[c].sd \in SDs /\ streams[calls[c].sd].stored
    BY <1>2, <1>5 DEF PutSDBlobs, SDCallSteps, WriteTrue
  <2>2. QED
    BY <1>1, <1>5, <2>1, StoresStreamBlobs DEF PutSDBlobs
<1>6. ASSUME NEW b \in Blobs, PutObject(c, b) PROVE StoreInv' /\ StoreKeeps
  BY <1>1, <1>6, StoresObject DEF PutObject
<1>7. CASE PutRow(c)
  <2>1. calls[c].blob \in Blobs /\ calls[c].blob \in objects \cup deleteCalled
    BY <1>2, <1>7 DEF PutRow, BlobCallSteps, WriteTrue
  <2>2. QED
    BY <1>1, <1>7, <2>1, StoresRow DEF PutRow
<1>8. ASSUME NEW b \in Blobs, CallDelete(c, b) PROVE StoreInv' /\ StoreKeeps
  BY <1>1, <1>8 DEF CallDelete, blobStoreVars, StoreInv, StoreKeeps, BlobStoreTypeOK,
         RowsFollowStreams, HasIVOfStream, HasRival, DeletesCalled, AcksKept, StreamWhole,
         HasBlob, HasBlobMetadata
<1>9. CASE DeleteData(c)
  BY <1>1, <1>2, <1>9, DropsObject DEF DeleteData, WriteTrue
<1>10. CASE DeleteRow(c)
  BY <1>1, <1>2, <1>10, DropsRow DEF DeleteRow, WriteTrue
<1>11. QED
  BY <1>3, <1>4, <1>5, <1>6, <1>7, <1>8, <1>9, <1>10
     DEF CallNext, PutSDRejected, FindStream, GetStream, GetStreamBlobs, GetBlobRow,
         CheckSDBlob, FindBlobRow, GetObject, ReturnFailure, CallFails

\* A call goes on to r: what the other calls have read or written is still so.
LEMMA CallGoesTo ==
    ASSUME IInv, StoreInv', StoreKeeps, NEW c \in Callers, NEW r \in CallRecord,
           calls' = [calls EXCEPT ![c] = r],
           r.step = "idle" => r = NoCall,
           r.step \in SDCallSteps => r.sd \in SDs,
           r.step \in BlobCallSteps => r.blob \in Blobs,
           WriteTrue(c)', ReadTrue(c)'
    PROVE  IInv'
<1>1. TypeOK'
  BY DEF IInv, TypeOK, StoreInv
<1>2. ASSUME NEW o \in Callers PROVE WriteTrue(o)' /\ ReadTrue(o)'
  <2>1. CASE o = c
    BY <2>1
  <2>2. CASE o # c
    <3>1. calls'[o] = calls[o] /\ WriteTrue(o) /\ ReadTrue(o)
      BY <2>2 DEF IInv, TypeOK
    <3>2. /\ calls[o].step \in SDCallSteps => calls[o].sd \in SDs
          /\ calls[o].blob \in Blobs \cup {NoBlob}
          /\ calls[o].sd \in SDs => ContentBlobs(calls[o].sd) \subseteq Blobs
      BY ContentFacts DEF IInv, TypeOK, CallRecord
    <3>3. WriteTrue(o)'
      BY <3>1, <3>2 DEF WriteTrue, StoreKeeps, SDCallSteps
    <3>4. ReadTrue(o)'
      BY <3>1, <3>2 DEF ReadTrue, StoreKeeps, SDCallSteps
    <3>5. QED
      BY <3>3, <3>4
  <2>3. QED
    BY <2>1, <2>2
<1>3. QED
  BY <1>1, <1>2 DEF IInv, StoreInv

LEMMA NoCallIsCall ==
    /\ NoCall \in CallRecord
    /\ NoCall.step = "idle"
    /\ ~NoCall.promised
BY DEF NoCall, NewCall, CallRecord, CallSteps

\* A call that returns, whatever it was.
LEMMA Returns ==
    ASSUME IInv, StoreInv', StoreKeeps, NEW c \in Callers, Return(c)
    PROVE  IInv'
<1>1. calls'[c] = NoCall
  BY DEF Return, Call, IInv, TypeOK
<1>2. WriteTrue(c)' /\ ReadTrue(c)'
  BY <1>1, NoCallIsCall DEF WriteTrue, ReadTrue, SDCallSteps
<1>3. QED
  BY <1>2, NoCallIsCall, CallGoesTo DEF Return, Call, SDCallSteps, BlobCallSteps

\* A call that begins.
LEMMA Begins ==
    ASSUME IInv, StoreInv', StoreKeeps, NEW c \in Callers,
           NEW step \in SDCallSteps \cup BlobCallSteps,
           NEW s \in SDs \cup {NoSD}, NEW b \in Blobs \cup {NoBlob},
           NEW promised \in BOOLEAN,
           Call(c, NewCall(step, s, b, promised)),
           step \in SDCallSteps => s \in SDs /\ b = NoBlob,
           step \in BlobCallSteps => b \in Blobs /\ s = NoSD,
           step = "putBlobs" => streams'[s].stored,
           step = "putRow" => b \in objects',
           step = "deleteObject" => b \in deleteCalled',
           step \notin {"getBlobs", "getRows", "deleteRow"},
           step = "getStream" /\ promised => StreamWhole(s)',
           step = "getObject" /\ promised => b \in objects'
    PROVE  IInv'
<1> DEFINE r == NewCall(step, s, b, promised)
<1>1. /\ r \in CallRecord
      /\ r.step = step /\ r.sd = s /\ r.blob = b /\ r.promised = promised /\ r.found = {}
  BY DEF NewCall, CallRecord, CallSteps
<1>2. calls'[c] = r
  BY DEF Call, IInv, TypeOK
<1>3. WriteTrue(c)'
  BY <1>1, <1>2 DEF WriteTrue, SDCallSteps, BlobCallSteps
<1>4. ReadTrue(c)'
  BY <1>1, <1>2 DEF ReadTrue, SDCallSteps, BlobCallSteps
<1>5. step # "idle"
  BY DEF SDCallSteps, BlobCallSteps
<1> HIDE DEF r
<1>6. QED
  BY <1>1, <1>3, <1>4, <1>5, CallGoesTo DEF Call, r

\* A call that goes on to its next step.
LEMMA CallStep ==
    ASSUME IInv, NEW c \in Callers, CallNext(c)
    PROVE  IInv'
<1> DEFINE r == calls[c]
<1>1. StoreInv' /\ StoreKeeps
  BY StoreStep
<1>2. /\ calls \in [Callers -> CallRecord]
      /\ r \in CallRecord
      /\ r.step \in SDCallSteps =>
             /\ r.sd \in SDs
             /\ ContentBlobs(r.sd) \subseteq Blobs
             /\ r.blob = NoBlob
      /\ r.step \in BlobCallSteps => r.blob \in Blobs
      /\ WriteTrue(c)
      /\ ReadTrue(c)
  BY ContentFacts DEF IInv, TypeOK, ReadTrue
<1>3. ASSUME NEW s \in SDs, PutSDStream(c, s) PROVE IInv'
  <2>1. streams'[s].stored
    BY <1>3 DEF PutSDStream, UpsertStream, IInv, TypeOK, BlobStoreTypeOK, StreamRow
  <2>2. QED
    BY <1>1, <1>3, <2>1, Begins DEF PutSDStream, Begin, SDCallSteps, BlobCallSteps
<1>4. ASSUME NEW b \in Blobs, PutObject(c, b) PROVE IInv'
  BY <1>1, <1>4, Begins DEF PutObject, Begin, UploadObject, SDCallSteps, BlobCallSteps
<1>5. ASSUME NEW b \in Blobs, CallDelete(c, b) PROVE IInv'
  BY <1>1, <1>5, Begins DEF CallDelete, Begin, SDCallSteps, BlobCallSteps
<1>6. ASSUME NEW s \in SDs, FindStream(c, s) PROVE IInv'
  <2>1. SDBlobReadable(s) \in BOOLEAN /\ (SDBlobReadable(s) => StreamWhole(s)')
    BY <1>6 DEF FindStream, SDBlobReadable, StreamWhole, blobStoreVars, IInv, TypeOK,
           BlobStoreTypeOK, StreamRow
  <2>2. QED
    BY <1>1, <1>6, <2>1, Begins DEF FindStream, SDCallSteps, BlobCallSteps
<1>7. ASSUME NEW b \in Blobs, FindBlobRow(c, b) PROVE IInv'
  <2>1. HasBlob(b) \in BOOLEAN /\ (HasBlob(b) => b \in objects')
    BY <1>7 DEF FindBlobRow, HasBlob, HasBlobMetadata, blobStoreVars
  <2>2. QED
    BY <1>1, <1>7, <2>1, Begins DEF FindBlobRow, SDCallSteps, BlobCallSteps
<1>8. CASE Return(c)
  BY <1>1, <1>8, Returns
<1>9. CASE DeleteData(c)
  <2> DEFINE n == [r EXCEPT !.step = "deleteRow"]
  <2>1. /\ n \in CallRecord
        /\ n.step = "deleteRow" /\ n.blob = r.blob /\ n.blob \in Blobs
        /\ n.sd = r.sd /\ n.promised = r.promised
    BY <1>2, <1>9 DEF DeleteData, CallRecord, CallSteps, BlobCallSteps
  <2>2. calls' = [calls EXCEPT ![c] = n] /\ calls'[c] = n
    BY <1>2, <1>9 DEF DeleteData
  <2>3. WriteTrue(c)' /\ ReadTrue(c)'
    BY <1>2, <1>9, <2>1, <2>2 DEF DeleteData, WriteTrue, ReadTrue, SDCallSteps, historyVars
  <2> HIDE DEF n
  <2>4. QED
    BY <1>1, <2>1, <2>2, <2>3, CallGoesTo DEF SDCallSteps, BlobCallSteps
<1>10. CASE GetStream(c)
  <2> DEFINE n == [r EXCEPT !.step = "getBlobs", !.ending = streams[r.sd].terminating]
  <2>1. r.sd \in SDs /\ streams[r.sd].terminating \in BOOLEAN
    BY <1>2, <1>10, StreamRowOf DEF GetStream, SDCallSteps, IInv, TypeOK
  <2>2. /\ n \in CallRecord
        /\ n.step = "getBlobs" /\ n.blob = r.blob /\ n.sd = r.sd /\ n.promised = r.promised
        /\ n.ending = streams[r.sd].terminating /\ n.found = r.found
    BY <1>2, <2>1 DEF CallRecord, CallSteps, SDCallSteps
  <2>3. calls' = [calls EXCEPT ![c] = n] /\ calls'[c] = n
    BY <1>2, <1>10 DEF GetStream
  <2> HIDE DEF n
  <2>4. WriteTrue(c)' /\ ReadTrue(c)'
    BY <1>2, <1>10, <2>2, <2>3 DEF GetStream, WriteTrue, ReadTrue, SDCallSteps, StreamWhole,
           blobStoreVars
  <2>5. QED
    BY <1>1, <2>1, <2>2, <2>3, <2>4, CallGoesTo DEF SDCallSteps, BlobCallSteps
<1>11. CASE GetStreamBlobs(c)
  <2> DEFINE n == [r EXCEPT !.step = "getRows", !.left = streams[r.sd].blobs]
  <2>1. /\ r.sd \in SDs
        /\ streams[r.sd].blobs \subseteq Blobs
        /\ streams[r.sd].blobs \subseteq ContentBlobs(r.sd)
    BY <1>2, <1>11, StreamRowOf DEF GetStreamBlobs, SDCallSteps, IInv, TypeOK,
           RowsFollowStreams, StreamWhole
  <2>2. /\ n \in CallRecord
        /\ n.step = "getRows" /\ n.blob = r.blob /\ n.sd = r.sd /\ n.promised = r.promised
        /\ n.ending = r.ending /\ n.found = r.found /\ n.left = streams[r.sd].blobs
    BY <1>2, <2>1 DEF CallRecord, CallSteps, SDCallSteps
  <2>3. calls' = [calls EXCEPT ![c] = n] /\ calls'[c] = n
    BY <1>2, <1>11 DEF GetStreamBlobs
  <2> HIDE DEF n
  <2>4. WriteTrue(c)' /\ ReadTrue(c)'
    BY <1>2, <1>11, <2>1, <2>2, <2>3 DEF GetStreamBlobs, WriteTrue, ReadTrue, SDCallSteps,
           StreamWhole, HasRival, blobStoreVars
  <2>5. QED
    BY <1>1, <2>1, <2>2, <2>3, <2>4, CallGoesTo DEF SDCallSteps, BlobCallSteps
<1>12. CASE GetBlobRow(c)
  <2>1. PICK b \in r.left :
            calls' = [calls EXCEPT ![c].left = @ \ {b},
                          ![c].found = IF HasBlobMetadata(b) /\ blobRows[b].iv = IV[r.sd][b]
                                       THEN @ \cup {b} ELSE @]
    BY <1>12 DEF GetBlobRow
  <2> DEFINE found == IF HasBlobMetadata(b) /\ blobRows[b].iv = IV[r.sd][b]
                      THEN r.found \cup {b} ELSE r.found
             n == [r EXCEPT !.left = r.left \ {b}, !.found = found]
  <2>2. /\ r.step = "getRows" /\ r.sd \in SDs
        /\ r.left \subseteq Blobs /\ r.found \subseteq Blobs
        /\ b \in ContentBlobs(r.sd)
        /\ r.left \cup r.found \subseteq ContentBlobs(r.sd)
    BY <1>2, <1>12 DEF GetBlobRow, SDCallSteps, CallRecord, ReadTrue
  <2>3. /\ n \in CallRecord
        /\ n.step = "getRows" /\ n.blob = r.blob /\ n.sd = r.sd /\ n.promised = r.promised
        /\ n.ending = r.ending /\ n.found = found /\ n.left = r.left \ {b}
    BY <1>2, <2>2 DEF CallRecord, CallSteps, SDCallSteps
  <2>4. calls' = [calls EXCEPT ![c] = n] /\ calls'[c] = n
    BY <1>2, <2>1
  <2>5. /\ found \subseteq r.found \cup {b}
        /\ r.found \subseteq found
        /\ r.promised => \/ b \in found
                         \/ blobRows[b].row = "deleted"
                         \/ HasRival(r.sd)
    <3>1. r.promised => blobRows[b].row # "none" /\ HasIVOfStream(b)
      BY <1>2, <2>2 DEF ReadTrue, IInv, RowsFollowStreams, StreamWhole
    <3>2. blobRows[b].row \in RowStates
      BY <2>2 DEF IInv, TypeOK, BlobStoreTypeOK, BlobRow
    <3>3. blobRows[b].iv # IV[r.sd][b] /\ HasIVOfStream(b) => HasRival(r.sd)
      BY <2>2 DEF HasIVOfStream, HasRival, Clash
    <3>4. QED
      BY <3>1, <3>2, <3>3 DEF HasBlobMetadata, RowStates
  <2> HIDE DEF n, found
  <2>6. WriteTrue(c)'
    BY <2>3, <2>4 DEF WriteTrue
  <2>7. ReadTrue(c)'
    BY <1>2, <1>12, <2>2, <2>3, <2>4, <2>5 DEF GetBlobRow, ReadTrue, SDCallSteps,
           StreamWhole, HasRival, blobStoreVars
  <2>8. QED
    BY <1>1, <2>2, <2>3, <2>4, <2>6, <2>7, CallGoesTo DEF SDCallSteps, BlobCallSteps
<1>13. CASE /\ r.step \in {"getRows", "getObject"}
            /\ calls' = [calls EXCEPT ![c].step = "failed"]
            /\ CheckSDBlob(c) \/ GetObject(c)
            /\ r.step = "getRows" => r.left = {} /\ ~(r.ending /\ r.found = ContentBlobs(r.sd))
            /\ r.step = "getObject" => r.blob \notin objects
  <2> DEFINE n == [r EXCEPT !.step = "failed"]
  <2>1. /\ n \in CallRecord
        /\ n.step = "failed" /\ n.blob = r.blob /\ n.sd = r.sd /\ n.promised = r.promised
    BY <1>2 DEF CallRecord, CallSteps
  <2>2. calls' = [calls EXCEPT ![c] = n] /\ calls'[c] = n
    BY <1>2, <1>13
  <2>3. UNCHANGED <<blobStoreVars, historyVars>>
    BY <1>13 DEF CheckSDBlob, GetObject
  <2> HIDE DEF n
  <2>4. WriteTrue(c)'
    BY <2>1, <2>2 DEF WriteTrue
  <2>5. CASE r.step = "getRows"
    <3>1. r.promised => \/ \E b \in ContentBlobs(r.sd) : blobRows[b].row = "deleted"
                        \/ HasRival(r.sd)
      BY <1>2, <1>13, <2>5 DEF ReadTrue
    <3>2. r.blob = NoBlob /\ NoBlob \notin Blobs
      BY <1>2, <2>5, BlobStoreCallsAssumption DEF SDCallSteps
    <3>3. ReadTrue(c)'
      BY <2>1, <2>2, <2>3, <3>1, <3>2 DEF ReadTrue, HasRival, StreamWhole, blobStoreVars,
             SDCallSteps
    <3>4. QED
      BY <1>1, <2>1, <2>2, <2>4, <3>3, CallGoesTo DEF SDCallSteps, BlobCallSteps
  <2>6. CASE r.step = "getObject"
    <3>1. r.sd = NoSD /\ NoSD \notin SDs
      BY <1>2, <2>6, BlobStoreCallsAssumption DEF ReadTrue
    <3>2. r.promised => r.blob \in deleteCalled
      BY <1>2, <1>13, <2>6 DEF ReadTrue
    <3>3. ReadTrue(c)'
      BY <2>1, <2>2, <2>3, <3>1, <3>2 DEF ReadTrue, historyVars, SDCallSteps
    <3>4. QED
      BY <1>1, <2>1, <2>2, <2>4, <3>3, CallGoesTo DEF SDCallSteps, BlobCallSteps
  <2>7. QED
    BY <1>13, <2>5, <2>6
<1>14. CASE CheckSDBlob(c)
  BY <1>8, <1>13, <1>14 DEF CheckSDBlob
<1>15. CASE GetObject(c)
  BY <1>8, <1>13, <1>15 DEF GetObject
<1>16. QED
  BY <1>3, <1>4, <1>5, <1>6, <1>7, <1>8, <1>9, <1>10, <1>11, <1>12, <1>14, <1>15
     DEF CallNext, PutSDBlobs, PutSDRejected, PutRow, DeleteRow, ReturnFailure, CallFails

LEMMA InvNext == IInv /\ [Next]_vars => IInv'
<1> SUFFICES ASSUME IInv, [Next]_vars PROVE IInv'
  OBVIOUS
<1>1. CASE Next
  BY <1>1, CallStep DEF Next
<1>2. CASE UNCHANGED vars
  BY <1>2 DEF vars, blobStoreVars, historyVars, IInv, TypeOK, BlobStoreTypeOK,
         RowsFollowStreams, HasIVOfStream, HasRival, DeletesCalled, AcksKept, WriteTrue,
         ReadTrue, StreamWhole, HasBlob, HasBlobMetadata
<1>3. QED
  BY <1>1, <1>2

-----------------------------------------------------------------------------
(* What readers see.                                                       *)

LEMMA ShelfStep == IInv /\ [Next]_vars => [Shelf!Next]_(Shelf!shelfVars)
<1> SUFFICES ASSUME IInv, [Next]_vars PROVE Shelf!Next \/ UNCHANGED Shelf!shelfVars
  OBVIOUS
<1>1. TablesInv
  BY DEF IInv, TypeOK, TablesInv
<1>2. CASE UNCHANGED blobStoreVars
  BY <1>2, ShelfFrame
<1>3. ASSUME NEW c \in Callers, CallNext(c)
      PROVE  Shelf!Next \/ UNCHANGED Shelf!shelfVars
  <2>1. /\ calls[c].step \in SDCallSteps => calls[c].sd \in SDs
        /\ calls[c].step \in BlobCallSteps => calls[c].blob \in Blobs
        /\ WriteTrue(c)
    BY DEF IInv, TypeOK
  <2>2. ASSUME NEW s \in SDs, PutSDStream(c, s) PROVE UNCHANGED Shelf!shelfVars
    BY <1>1, <2>2, ShelfKeeps DEF PutSDStream
  <2>3. CASE PutSDBlobs(c)
    <3>1. calls[c].sd \in SDs /\ streams[calls[c].sd].stored
      BY <2>1, <2>3 DEF PutSDBlobs, SDCallSteps, WriteTrue
    <3>2. QED
      BY <1>1, <2>3, <3>1, ShelfPublish DEF PutSDBlobs, Shelf!Next, Shelf!Put
  <2>4. ASSUME NEW b \in Blobs, PutObject(c, b)
        PROVE  Shelf!Next \/ UNCHANGED Shelf!shelfVars
    BY <1>1, <2>4, ShelfServe DEF PutObject, Shelf!Next, Shelf!Put
  <2>5. CASE PutRow(c)
    BY <1>1, <2>1, <2>5, ShelfServe DEF PutRow, BlobCallSteps, Shelf!Next, Shelf!Put
  <2>6. CASE DeleteData(c)
    BY <2>1, <2>6, ShelfWithdraw DEF DeleteData, BlobCallSteps, Shelf!Next
  <2>7. CASE DeleteRow(c)
    BY <1>1, <2>1, <2>7, ShelfRetire DEF DeleteRow, BlobCallSteps, Shelf!Next
  <2>8. QED
    BY <1>2, <1>3, <2>2, <2>3, <2>4, <2>5, <2>6, <2>7
       DEF CallNext, PutSDRejected, CallDelete, FindStream, GetStream, GetStreamBlobs,
           GetBlobRow, CheckSDBlob, FindBlobRow, GetObject, ReturnFailure, CallFails
<1>4. QED
  BY <1>2, <1>3 DEF Next, vars, blobStoreVars

-----------------------------------------------------------------------------
(* The theorems.                                                           *)

\* The tables, the objects and the calls keep to their types and to what the calls
\* have established.
THEOREM Inductive == Spec => []IInv
BY InvInit, InvNext, PTL DEF Spec

\* Every table and call keeps to its type.
THEOREM TypeCorrect == Spec => []TypeOK
<1>1. IInv => TypeOK
  BY DEF IInv
<1>2. QED
  BY <1>1, Inductive, PTL

\* What a Put or a PutSD returned for without error is served until somebody deletes
\* a blob of it; only an SD blob that another one clashes with may be unreadable.
THEOREM PutsAreServed == Spec => []PutIsServed
<1>1. IInv => PutIsServed
  <2> SUFFICES ASSUME IInv, NEW s \in ackedSDs, ContentBlobs(s) \cap deleteCalled = {}
               PROVE  SDBlobReadable(s) \/ HasRival(s)
    BY DEF PutIsServed, IInv, AcksKept
  <2>1. StoreInv /\ s \in SDs
    BY DEF IInv, TypeOK, StoreInv
  <2>2. StreamWhole(s) /\ ContentBlobs(s) \subseteq Blobs
    BY <2>1, ContentFacts DEF IInv, AcksKept
  <2>3. \A b \in ContentBlobs(s) : blobRows[b].row # "deleted"
    BY <2>1, <2>2 DEF StoreInv, DeletesCalled
  <2>4. QED
    BY <2>1, <2>2, <2>3, StoreTables, PublishedNow DEF PublishedWhen, Published
<1>2. QED
  BY <1>1, Inductive, PTL

\* However its queries interleave with other calls, a Get of something that was
\* there when it began fails only because a blob is deleted, or because another SD
\* blob lists a blob of it under another IV.
THEOREM GetsFailForCause == Spec => []GetFailsForCause
<1>1. IInv => GetFailsForCause
  BY DEF IInv, ReadTrue, GetFailsForCause, HasBlobMetadata
<1>2. QED
  BY <1>1, Inductive, PTL

\* The store, with all its calls under way, is the shelf that BlobShelf describes.
THEOREM ImplementsShelf == Spec => KeepsShelf
<1>1. IInv /\ [Next]_vars => [Shelf!Next]_(Shelf!shelfVars)
  BY ShelfStep
<1>2. QED
  BY <1>1, ShelfInit, Inductive, PTL DEF Init, Spec, KeepsShelf, Shelf!Spec

\* An IV that is there changes only by the transaction of a PutSD.
LEMMA IVSteps ==
    ASSUME IInv, [Next]_vars, NEW b \in Blobs, blobRows'[b].iv # blobRows[b].iv
    PROVE  \E t \in SDs : streams[t].stored /\ ProcessStreamBlobs(t)
<1>1. ASSUME NEW o \in Blobs, UpsertBlobRecord(o) \/ DeleteBlobRecord(o)
      PROVE  blobRows'[b].iv = blobRows[b].iv
  BY <1>1, UpsertBlobRecordRows, DeleteBlobRecordRows DEF IInv, TypeOK
<1>2. blobRows' # blobRows
  OBVIOUS
<1>3. PICK c \in Callers : CallNext(c)
  BY <1>2 DEF Next, vars, blobStoreVars
<1>4. /\ calls[c].step \in SDCallSteps => calls[c].sd \in SDs
      /\ calls[c].step \in BlobCallSteps => calls[c].blob \in Blobs
      /\ WriteTrue(c)
  BY DEF IInv, TypeOK
<1>5. CASE PutSDBlobs(c)
  BY <1>4, <1>5 DEF PutSDBlobs, SDCallSteps, WriteTrue
<1>6. ~PutRow(c) /\ ~DeleteRow(c)
  BY <1>1, <1>4 DEF PutRow, DeleteRow, BlobCallSteps
<1>7. QED
  BY <1>2, <1>3, <1>5, <1>6
     DEF CallNext, blobStoreVars, PutSDStream, UpsertStream, PutSDRejected, PutObject,
         UploadObject, CallDelete, DeleteData, DeleteObject, FindStream, GetStream,
         GetStreamBlobs, GetBlobRow, CheckSDBlob, FindBlobRow, GetObject, ReturnFailure,
         CallFails

\* Only the delete of the row of one of its blobs makes an SD blob unreadable, or a
\* PutSD whose SD blob lists one of them under another IV, and which is readable then.
THEOREM StaysReadable == Spec => ReadableUntilDisplaced
<1> DEFINE Why(s) ==
               \/ \E b \in ContentBlobs(s) : HasBlobMetadata(b) /\ ~HasBlobMetadata(b)'
               \/ \E t \in SDs : /\ Clash(s, t)
                                 /\ ~SDBlobReadable(t)
                                 /\ SDBlobReadable(t)'
           Kept == \A s \in SDs : SDBlobReadable(s) /\ ~SDBlobReadable(s)' => Why(s)
<1>1. ASSUME IInv, [Next]_vars PROVE Kept
  <2> SUFFICES ASSUME NEW s \in SDs, SDBlobReadable(s), ~SDBlobReadable(s)'
               PROVE  Why(s)
    OBVIOUS
  <2>1. TablesInv /\ TablesInv'
    BY <1>1, InvNext DEF IInv, TypeOK, TablesInv
  <2>2. ReadableWhen /\ ReadableWhen'
    BY <2>1, ReadableNow, ReadableNext
  <2>3. /\ StreamWhole(s) /\ StreamWhole(s)'
        /\ \A b \in ContentBlobs(s) : HasBlobMetadata(b) /\ blobRows[b].iv = IV[s][b]
    <3>1. /\ StreamWhole(s)
          /\ \A b \in ContentBlobs(s) : HasBlobMetadata(b) /\ blobRows[b].iv = IV[s][b]
      BY DEF SDBlobReadable, StreamWhole
    <3>2. CASE Next
      BY <1>1, <3>1, <3>2, StoreStep DEF Next, StoreKeeps
    <3>3. CASE UNCHANGED vars
      BY <3>1, <3>3 DEF vars, blobStoreVars, StreamWhole
    <3>4. QED
      BY <1>1, <3>1, <3>2, <3>3
  <2>4. PICK b \in ContentBlobs(s) :
            blobRows'[b].row = "deleted" \/ blobRows'[b].iv # IV[s][b]
    BY <2>2, <2>3 DEF ReadableWhen
  <2>5. CASE blobRows'[b].row = "deleted"
    BY <2>3, <2>5 DEF HasBlobMetadata
  <2>6. CASE blobRows'[b].iv # IV[s][b]
    <3>1. b \in Blobs
      BY ContentFacts
    <3>2. PICK t \in SDs : streams[t].stored /\ ProcessStreamBlobs(t)
      BY <1>1, <2>3, <2>6, <3>1, IVSteps
    <3>3. b \in ContentBlobs(t) /\ blobRows'[b].iv = IV[t][b]
      BY <2>1, <2>3, <2>6, <3>1, <3>2, ProcessStreamBlobsRows
    <3>4. SDBlobReadable(t)'
      <4>1. ContentBlobs(t) \subseteq Blobs
        BY ContentFacts
      <4>2. QED
        BY <2>1, <2>2, <3>2, <4>1, ProcessStreamBlobsRows DEF ReadableWhen
    <3>5. ~SDBlobReadable(t) /\ Clash(s, t)
      BY <2>2, <2>3, <2>6, <3>3 DEF ReadableWhen, Clash
    <3>6. QED
      BY <3>4, <3>5
  <2>7. QED
    BY <2>4, <2>5, <2>6
<1>2. IInv /\ [Next]_vars => [Kept]_vars
  BY <1>1
<1>3. QED
  BY <1>2, Inductive, PTL DEF Spec, ReadableUntilDisplaced
=============================================================================
