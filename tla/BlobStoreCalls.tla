---------------------------- MODULE BlobStoreCalls ----------------------------
(***************************************************************************)
(* The permanent store as a service of its own: callers that put, delete   *)
(* and get content blobs and SD blobs at the same time.  In BlobStore an   *)
(* operator is one transaction or one storage call; here the calls that    *)
(* Put, PutSD, Delete and Get make are their steps.  Getting an SD blob    *)
(* takes a query for the stream (twice), one for its blobs and one for     *)
(* each of them, with no transaction around.                               *)
(***************************************************************************)
EXTENDS BlobStore

CONSTANTS
    Callers,    \* calls that may be open at once
    NoSD,       \* no SD hash
    NoBlob,     \* no blob
    Faults      \* whether calls may fail

ASSUME BlobStoreCallsAssumption ==
    /\ NoSD \notin SDs
    /\ NoBlob \notin Blobs
    /\ Faults \in BOOLEAN

VARIABLES
    calls,          \* [Callers -> the call and what it has read]
    ackedBlobs,     \* blobs for which a Put returned without error
    ackedSDs,       \* SD hashes for which a PutSD returned without error
    deleteCalled    \* blobs for which Delete was called

historyVars == <<ackedBlobs, ackedSDs, deleteCalled>>

vars == <<blobStoreVars, calls, historyVars>>

SDCallSteps == {"putBlobs",                             \* PutSD
                "getStream", "getBlobs", "getRows"}     \* Get of an SD blob

BlobCallSteps == {"putRow",                             \* Put
                  "deleteObject", "deleteRow",          \* Delete
                  "getObject"}                          \* Get of a content blob

CallSteps == {"idle", "failed"} \cup SDCallSteps \cup BlobCallSteps

\* promised: what is asked for was served when the call began.
\* ending: the stream has a terminating blob; left: blobs still to be read;
\* found: blobs that have a row with the IV under which the SD blob lists them.
CallRecord == [step : CallSteps, sd : SDs \cup {NoSD}, blob : Blobs \cup {NoBlob},
               promised : BOOLEAN, ending : BOOLEAN,
               left : SUBSET Blobs, found : SUBSET Blobs]

NewCall(step, s, b, promised) ==
    [step |-> step, sd |-> s, blob |-> b, promised |-> promised,
     ending |-> FALSE, left |-> {}, found |-> {}]

NoCall == NewCall("idle", NoSD, NoBlob, FALSE)

TypeOK ==
    /\ BlobStoreTypeOK
    /\ calls \in [Callers -> CallRecord]
    /\ \A c \in Callers : calls[c].step = "idle" => calls[c] = NoCall
    /\ \A c \in Callers : calls[c].step \in SDCallSteps => calls[c].sd \in SDs
    /\ \A c \in Callers : calls[c].step \in BlobCallSteps => calls[c].blob \in Blobs
    /\ ackedBlobs \subseteq Blobs
    /\ ackedSDs \subseteq SDs
    /\ deleteCalled \subseteq Blobs

Init ==
    /\ BlobStoreInit
    /\ calls = [c \in Callers |-> NoCall]
    /\ ackedBlobs = {}
    /\ ackedSDs = {}
    /\ deleteCalled = {}

-----------------------------------------------------------------------------
Call(c, call) == calls' = [calls EXCEPT ![c] = call]

Begin(c, step, s, b) ==
    /\ calls[c].step = "idle"
    /\ Call(c, NewCall(step, s, b, FALSE))

\* A bug to catch: what a call has read is there for the next one.
ReturnDirty(c) == calls' = [calls EXCEPT ![c].step = "idle"]

Return(c) == Call(c, NoCall)

\* Any call returns an error where it stands, with what it did kept.
CallFails(c) ==
    /\ Faults
    /\ calls[c].step \notin {"idle", "failed"}
    /\ Return(c)
    /\ UNCHANGED <<blobStoreVars, historyVars>>

-----------------------------------------------------------------------------
(* PutSD.                                                                  *)

PutSDStream(c, s) ==
    /\ Begin(c, "putBlobs", s, NoBlob)
    /\ UpsertStream(s)
    /\ UNCHANGED historyVars

PutSDBlobs(c) ==
    /\ calls[c].step = "putBlobs"
    /\ ProcessStreamBlobs(calls[c].sd)
    /\ ackedSDs' = ackedSDs \cup {calls[c].sd}
    /\ Return(c)
    /\ UNCHANGED <<ackedBlobs, deleteCalled>>

\* The transaction is rolled back: a blob of the stream has been deleted.
PutSDRejected(c) ==
    /\ calls[c].step = "putBlobs"
    /\ ~CanProcessStreamBlobs(calls[c].sd)
    /\ Return(c)
    /\ UNCHANGED <<blobStoreVars, historyVars>>

-----------------------------------------------------------------------------
(* Put.                                                                    *)

PutObject(c, b) ==
    /\ Begin(c, "putRow", NoSD, b)
    /\ UploadObject(b)
    /\ UNCHANGED historyVars

PutRow(c) ==
    /\ calls[c].step = "putRow"
    /\ UpsertBlobRecord(calls[c].blob)
    /\ ackedBlobs' = ackedBlobs \cup {calls[c].blob}
    /\ Return(c)
    /\ UNCHANGED <<ackedSDs, deleteCalled>>

-----------------------------------------------------------------------------
(* Delete.                                                                 *)

CallDelete(c, b) ==
    /\ Begin(c, "deleteObject", NoSD, b)
    /\ deleteCalled' = deleteCalled \cup {b}
    /\ UNCHANGED <<blobStoreVars, ackedBlobs, ackedSDs>>

DeleteData(c) ==
    /\ calls[c].step = "deleteObject"
    /\ DeleteObject(calls[c].blob)
    /\ calls' = [calls EXCEPT ![c].step = "deleteRow"]
    /\ UNCHANGED historyVars

DeleteRow(c) ==
    /\ calls[c].step = "deleteRow"
    /\ DeleteBlobRecord(calls[c].blob)
    /\ Return(c)
    /\ UNCHANGED historyVars

-----------------------------------------------------------------------------
(* Get of an SD blob.                                                      *)

\* isSDBlob finds the stream.
FindStream(c, s) ==
    /\ streams[s].stored
    /\ calls[c].step = "idle"
    /\ Call(c, NewCall("getStream", s, NoBlob, SDBlobReadable(s)))
    /\ UNCHANGED <<blobStoreVars, historyVars>>

\* buildBlobInfosFromDb reads the stream again for its terminating blob, ...
GetStream(c) ==
    /\ calls[c].step = "getStream"
    /\ calls' = [calls EXCEPT ![c].step = "getBlobs",
                              ![c].ending = streams[calls[c].sd].terminating]
    /\ UNCHANGED <<blobStoreVars, historyVars>>

\* ... then which blobs it has, ...
GetStreamBlobs(c) ==
    /\ calls[c].step = "getBlobs"
    /\ calls' = [calls EXCEPT ![c].step = "getRows",
                              ![c].left = streams[calls[c].sd].blobs]
    /\ UNCHANGED <<blobStoreVars, historyVars>>

\* ... then each of them, in order.  A row that is missing becomes a placeholder,
\* one without IV is skipped, and one with the IV of another stream is taken as it
\* is; none of them leaves the hash as it was.
GetBlobRow(c) ==
    /\ calls[c].step = "getRows"
    /\ \E b \in calls[c].left :
           /\ \A o \in calls[c].left :
                  BlobNumber(calls[c].sd, b) <= BlobNumber(calls[c].sd, o)
           /\ calls' = [calls EXCEPT ![c].left = @ \ {b},
                  ![c].found =
                      IF HasBlobMetadata(b) /\ blobRows[b].iv = IV[calls[c].sd][b]
                      THEN @ \cup {b} ELSE @]
    /\ UNCHANGED <<blobStoreVars, historyVars>>

\* The SD blob is rebuilt and compared with its hash.
CheckSDBlob(c) ==
    /\ calls[c].step = "getRows"
    /\ calls[c].left = {}
    /\ IF calls[c].ending /\ calls[c].found = ContentBlobs(calls[c].sd)
       THEN Return(c)
       ELSE calls' = [calls EXCEPT ![c].step = "failed"]
    /\ UNCHANGED <<blobStoreVars, historyVars>>

-----------------------------------------------------------------------------
(* Get of a content blob, and Has, which makes the same calls.             *)

FindBlobRow(c, b) ==
    /\ HasBlobMetadata(b)
    /\ calls[c].step = "idle"
    /\ Call(c, NewCall("getObject", NoSD, b, HasBlob(b)))
    /\ UNCHANGED <<blobStoreVars, historyVars>>

GetObject(c) ==
    /\ calls[c].step = "getObject"
    /\ IF calls[c].blob \in objects
       THEN Return(c)
       ELSE calls' = [calls EXCEPT ![c].step = "failed"]
    /\ UNCHANGED <<blobStoreVars, historyVars>>

\* The caller has the error of a Get.
ReturnFailure(c) ==
    /\ calls[c].step = "failed"
    /\ Return(c)
    /\ UNCHANGED <<blobStoreVars, historyVars>>

-----------------------------------------------------------------------------
CallNext(c) ==
    \/ \E s \in SDs : PutSDStream(c, s)
    \/ PutSDBlobs(c)
    \/ PutSDRejected(c)
    \/ \E b \in Blobs : PutObject(c, b)
    \/ PutRow(c)
    \/ \E b \in Blobs : CallDelete(c, b)
    \/ DeleteData(c)
    \/ DeleteRow(c)
    \/ \E s \in SDs : FindStream(c, s)
    \/ GetStream(c)
    \/ GetStreamBlobs(c)
    \/ GetBlobRow(c)
    \/ CheckSDBlob(c)
    \/ \E b \in Blobs : FindBlobRow(c, b)
    \/ GetObject(c)
    \/ ReturnFailure(c)
    \/ CallFails(c)

Next == \E c \in Callers : CallNext(c)

Spec == Init /\ [][Next]_vars

-----------------------------------------------------------------------------
(* Properties.                                                             *)

\* What was put is served until somebody calls Delete: neither a PutSD that knew
\* the blob before its data came, nor a failed, repeated or concurrent Put of it
\* leaves a blob or a stream half there.  ("Blob metadata exists" is not enough:
\* see the comment of Has on partial uploads.)  An SD blob that was put can be read,
\* unless another that is there lists one of its blobs under another IV: a blob has
\* one row, and upsertBlobRecord gives it the IV it is called with.
PutIsServed ==
    /\ \A b \in ackedBlobs \ deleteCalled : HasBlob(b)
    /\ \A s \in ackedSDs :
           ContentBlobs(s) \cap deleteCalled = {} => SDBlobReadable(s) \/ HasRival(s)

\* A Get reads its rows one at a time, and others write between: one that began
\* when the SD blob was readable fails only if one of its blobs has been deleted or
\* another SD blob lists one under another IV, and one that began when the blob was
\* served only if somebody deletes it.
GetFailsForCause ==
    \A c \in Callers : calls[c].step = "failed" /\ calls[c].promised =>
        /\ calls[c].sd \in SDs =>
               \/ \E b \in ContentBlobs(calls[c].sd) : ~HasBlobMetadata(b)
               \/ HasRival(calls[c].sd)
        /\ calls[c].blob \in Blobs => calls[c].blob \in deleteCalled

\* "This prevents nuking IV data when blobs are updated without IV information"
\* (blob_store.go:58): no Put makes an SD blob unreadable.  A PutSD does so only to
\* one that lists a blob of its stream under another IV, and then its own SD blob is
\* the one that can be read; otherwise only the delete of a blob does.
ReadableUntilDisplaced ==
    [][\A s \in SDs : SDBlobReadable(s) /\ ~SDBlobReadable(s)' =>
           \/ \E b \in ContentBlobs(s) : HasBlobMetadata(b) /\ ~HasBlobMetadata(b)'
           \/ \E t \in SDs : /\ Clash(s, t)
                             /\ ~SDBlobReadable(t)
                             /\ SDBlobReadable(t)']_vars

\* Whatever calls interleave and fail, readers see the store that BlobShelf
\* describes: a blob whose Delete is complete never comes back, whoever puts it
\* again, and no stream that lists it does; and of two SD blobs that list a blob
\* under different IVs the one that was put last can be read, and the other cannot.
KeepsShelf == Shelf!Spec

-----------------------------------------------------------------------------
(* The inductive invariant.                                                *)

\* Only a Delete takes a blob away.
DeletesCalled ==
    \A b \in Blobs : blobRows[b].row = "deleted" => b \in deleteCalled

AcksKept ==
    /\ \A b \in ackedBlobs \ deleteCalled : HasBlob(b)
    /\ \A s \in ackedSDs : StreamWhole(s)

\* What a Put, PutSD or Delete has done when it stands at a step.
WriteTrue(c) ==
    /\ calls[c].step = "putBlobs" => streams[calls[c].sd].stored
    /\ calls[c].step = "putRow" => calls[c].blob \in objects \cup deleteCalled
    /\ calls[c].step \in {"deleteObject", "deleteRow"} => calls[c].blob \in deleteCalled

\* What a Get has read, and why it could not read the rest.
ReadTrue(c) ==
    /\ calls[c].step \in {"getStream", "getBlobs"} => calls[c].found = {}
    /\ calls[c].step = "getRows" =>
           calls[c].left \cup calls[c].found \subseteq ContentBlobs(calls[c].sd)
    /\ calls[c].step = "getObject" => calls[c].sd = NoSD
    /\ calls[c].step \in SDCallSteps => calls[c].blob = NoBlob
    /\ calls[c].promised =>
           /\ calls[c].step \in {"getStream", "getBlobs", "getRows"} =>
                  StreamWhole(calls[c].sd)
           /\ calls[c].step \in {"getBlobs", "getRows"} => calls[c].ending
           /\ calls[c].step = "getRows" =>
                  \A b \in ContentBlobs(calls[c].sd) :
                      \/ b \in calls[c].left \cup calls[c].found
                      \/ blobRows[b].row = "deleted"
                      \/ HasRival(calls[c].sd)
           /\ calls[c].step = "getObject" => calls[c].blob \in objects \cup deleteCalled
           /\ calls[c].step = "failed" =>
                  /\ calls[c].sd \in SDs =>
                         \/ \E b \in ContentBlobs(calls[c].sd) : blobRows[b].row = "deleted"
                         \/ HasRival(calls[c].sd)
                  /\ calls[c].blob \in Blobs => calls[c].blob \in deleteCalled

IInv ==
    /\ TypeOK
    /\ RowsFollowStreams
    /\ DeletesCalled
    /\ AcksKept
    /\ \A c \in Callers : WriteTrue(c) /\ ReadTrue(c)
=============================================================================
