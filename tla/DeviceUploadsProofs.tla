------------------------- MODULE DeviceUploadsProofs -------------------------
(***************************************************************************)
(* Proofs about DeviceUploads, for every value of its constants; that an   *)
(* address has one device is proved where writers take turns.              *)
(***************************************************************************)
EXTENDS DeviceUploads, PendingUploadsFacts

-----------------------------------------------------------------------------
(* The device service.                                                     *)

LEMMA DevicesInitInv == DevicesInit => DevicesInv
<1> SUFFICES ASSUME DevicesInit PROVE DevicesInv
  OBVIOUS
<1>1. DevicesTypeOK
  BY DevicesAssumption DEF DevicesInit, DevicesTypeOK, DeviceRow, DeviceStates, RowStates,
         RequestSteps, NoRequest, DeviceIds
<1>2. RowsOpen /\ OneWriter /\ AddressStillFree /\ OneDevicePerAddress
  BY DEF DevicesInit, NoRequest, RowsOpen, OneWriter, AddressStillFree,
         OneDevicePerAddress, DevicesAt
<1>3. QED
  BY <1>1, <1>2 DEF DevicesInv

\* Each step of a request, and DeleteDevice, keeps the types.
LEMMA DevicesTypes ==
    ASSUME DevicesTypeOK, RowsOpen,
           \/ \E q \in Requests : HandleDeviceCreate(q) \/ MoveDevice(q)
           \/ HandleDeviceDelete
    PROVE  DevicesTypeOK'
<1> USE DevicesAssumption DEF DevicesTypeOK, DeviceRow, RequestSteps
<1>0. {"none", "open", "live", "deleted", "void"} \subseteq DeviceStates
  BY DEF DeviceStates, RowStates
<1>1. ASSUME NEW q \in Requests, NEW u \in Users, NEW a \in Addresses,
             CreateDeviceCheck(q, u, a)
      PROVE  DevicesTypeOK'
  BY <1>1 DEF CreateDeviceCheck
<1>2. ASSUME NEW q \in Requests, CreateDeviceInsert(q) PROVE DevicesTypeOK'
  <2>1. PICK i \in DeviceIds :
            /\ devices' = [devices EXCEPT ![i] =
                   [row |-> "open", user |-> requests[q].user, addr |-> requests[q].addr]]
            /\ requests' = [requests EXCEPT ![q].step = "commit", ![q].id = i]
    BY <1>2 DEF CreateDeviceInsert
  <2>2. requests[q].user \in Users /\ requests[q].addr \in Addresses
    BY <1>2 DEF CreateDeviceInsert
  <2>3. i \in 0 .. MaxDevices
    BY DEF DeviceIds
  <2>4. [row |-> "open", user |-> requests[q].user, addr |-> requests[q].addr] \in DeviceRow
    BY <1>0, <2>2
  <2>5. devices' \in [DeviceIds -> DeviceRow]
    BY <2>1, <2>4
  <2>6. \A j \in DeviceIds : devices'[j].row # "none" =>
            devices'[j].user \in Users /\ devices'[j].addr \in Addresses
    BY <2>1, <2>2
  <2>7. requests' \in [Requests -> [step : RequestSteps,
                                    user : Users \cup {NoUser},
                                    addr : Addresses \cup {NoAddress},
                                    id   : 0 .. MaxDevices]]
    <3>1. requests' = [requests EXCEPT ![q] =
                          [requests[q] EXCEPT !.step = "commit", !.id = i]]
      BY <2>1
    <3>2. [requests[q] EXCEPT !.step = "commit", !.id = i]
              \in [step : RequestSteps, user : Users \cup {NoUser},
                   addr : Addresses \cup {NoAddress}, id : 0 .. MaxDevices]
      BY <2>3
    <3>3. QED
      BY <3>1, <3>2
  <2>8. /\ \A r \in Requests : requests'[r].step # "idle" =>
               requests'[r].user \in Users /\ requests'[r].addr \in Addresses
        /\ \A r \in Requests : requests'[r].step \in {"commit", "update"} =>
               requests'[r].id \in DeviceIds
    BY <2>1, <2>2
  <2>9. QED
    BY <2>5, <2>6, <2>7, <2>8
<1>3. ASSUME NEW q \in Requests, CreateDeviceCommit(q) PROVE DevicesTypeOK'
  BY <1>0, <1>3 DEF CreateDeviceCommit, RowsOpen, NoRequest
<1>4. ASSUME NEW q \in Requests, RollBack(q) PROVE DevicesTypeOK'
  BY <1>0, <1>4 DEF RollBack, RowsOpen, NoRequest
<1>5. ASSUME NEW q \in Requests, NEW u \in Users, NEW i \in DeviceIds, NEW a \in Addresses,
             UpdateDeviceCheck(q, u, i, a)
      PROVE  DevicesTypeOK'
  BY <1>5 DEF UpdateDeviceCheck, DeviceIds
<1>6. ASSUME NEW q \in Requests, UpdateDeviceCommit(q) PROVE DevicesTypeOK'
  BY <1>0, <1>6 DEF UpdateDeviceCommit, NoRequest
<1>7. ASSUME NEW u \in Users, NEW i \in DeviceIds, DeleteDevice(u, i) PROVE DevicesTypeOK'
  BY <1>0, <1>7 DEF DeleteDevice
<1>8. QED
  BY <1>1, <1>2, <1>3, <1>4, <1>5, <1>6, <1>7
     DEF HandleDeviceCreate, MoveDevice, HandleDeviceDelete

\* A row that is open belongs to the one transaction that inserted it.
LEMMA OpenRows ==
    ASSUME DevicesTypeOK, RowsOpen,
           \/ \E q \in Requests : HandleDeviceCreate(q) \/ MoveDevice(q)
           \/ HandleDeviceDelete
    PROVE  RowsOpen'
<1> USE DevicesAssumption DEF RowsOpen
<1>1. ASSUME NEW q \in Requests, NEW u \in Users, NEW a \in Addresses,
             CreateDeviceCheck(q, u, a)
      PROVE  RowsOpen'
  BY <1>1 DEF CreateDeviceCheck, DevicesTypeOK
<1>2. ASSUME NEW q \in Requests, CreateDeviceInsert(q) PROVE RowsOpen'
  <2>1. PICK i \in DeviceIds :
            /\ devices[i].row = "none"
            /\ devices' = [devices EXCEPT ![i] =
                   [row |-> "open", user |-> requests[q].user, addr |-> requests[q].addr]]
            /\ requests' = [requests EXCEPT ![q].step = "commit", ![q].id = i]
    BY <1>2 DEF CreateDeviceInsert
  <2>2. ASSUME NEW r \in Requests, requests[r].step = "commit" PROVE requests[r].id # i
    BY <2>1, <2>2
  <2>3. QED
    BY <1>2, <2>1, <2>2 DEF CreateDeviceInsert, DevicesTypeOK
<1>3. ASSUME NEW q \in Requests, CreateDeviceCommit(q) PROVE RowsOpen'
  BY <1>3 DEF CreateDeviceCommit, DevicesTypeOK, NoRequest
<1>4. ASSUME NEW q \in Requests, RollBack(q) PROVE RowsOpen'
  BY <1>4 DEF RollBack, DevicesTypeOK, NoRequest
<1>5. ASSUME NEW q \in Requests, NEW u \in Users, NEW i \in DeviceIds, NEW a \in Addresses,
             UpdateDeviceCheck(q, u, i, a)
      PROVE  RowsOpen'
  BY <1>5 DEF UpdateDeviceCheck, DevicesTypeOK
<1>6. ASSUME NEW q \in Requests, UpdateDeviceCommit(q) PROVE RowsOpen'
  BY <1>6 DEF UpdateDeviceCommit, DevicesTypeOK, NoRequest
<1>7. ASSUME NEW u \in Users, NEW i \in DeviceIds, DeleteDevice(u, i) PROVE RowsOpen'
  BY <1>7 DEF DeleteDevice, DevicesTypeOK
<1>8. QED
  BY <1>1, <1>2, <1>3, <1>4, <1>5, <1>6, <1>7
     DEF HandleDeviceCreate, MoveDevice, HandleDeviceDelete

\* Where writers take turns, what a transaction found about an address holds until
\* it commits, because nobody else writes.
LEMMA AddressesUnique ==
    ASSUME DevicesTypeOK, RowsOpen, ~SnapshotReads,
           OneWriter, AddressStillFree, OneDevicePerAddress,
           \/ \E q \in Requests : HandleDeviceCreate(q) \/ MoveDevice(q)
           \/ HandleDeviceDelete
    PROVE  OneWriter' /\ AddressStillFree' /\ OneDevicePerAddress'
<1> DEFINE Unique == OneWriter /\ AddressStillFree /\ OneDevicePerAddress
<1> USE DEF DevicesTypeOK, OneWriter, AddressStillFree, OneDevicePerAddress, DevicesAt
<1>1. ASSUME NEW q \in Requests, NEW u \in Users, NEW a \in Addresses,
             CreateDeviceCheck(q, u, a)
      PROVE  Unique'
  <2>1. \A r \in Requests : requests[r].step = "idle"
    BY <1>1 DEF CreateDeviceCheck, CanBegin
  <2>2. QED
    BY <1>1, <2>1 DEF CreateDeviceCheck
<1>2. ASSUME NEW q \in Requests, CreateDeviceInsert(q) PROVE Unique'
  BY <1>2 DEF CreateDeviceInsert
<1>3. ASSUME NEW q \in Requests, CreateDeviceCommit(q) PROVE Unique'
  BY <1>3 DEF CreateDeviceCommit, RowsOpen, NoRequest
<1>4. ASSUME NEW q \in Requests, RollBack(q) PROVE Unique'
  BY <1>4 DEF RollBack, RowsOpen, NoRequest
<1>5. ASSUME NEW q \in Requests, NEW u \in Users, NEW i \in DeviceIds, NEW a \in Addresses,
             UpdateDeviceCheck(q, u, i, a)
      PROVE  Unique'
  <2>1. \A r \in Requests : requests[r].step = "idle"
    BY <1>5 DEF UpdateDeviceCheck, CanBegin
  <2>2. QED
    BY <1>5, <2>1 DEF UpdateDeviceCheck
<1>6. ASSUME NEW q \in Requests, UpdateDeviceCommit(q) PROVE Unique'
  BY <1>6 DEF UpdateDeviceCommit, NoRequest
<1>7. ASSUME NEW u \in Users, NEW i \in DeviceIds, DeleteDevice(u, i) PROVE Unique'
  BY <1>7 DEF DeleteDevice, CanBegin
<1>8. QED
  BY <1>1, <1>2, <1>3, <1>4, <1>5, <1>6, <1>7
     DEF HandleDeviceCreate, MoveDevice, HandleDeviceDelete

LEMMA DevicesStep == DevicesInv /\ DeviceNext => DevicesInv'
BY DevicesTypes, OpenRows, AddressesUnique DEF DevicesInv, DeviceNext

-----------------------------------------------------------------------------
(* The calls of the peers.                                                 *)

LEMMA PeersInitInv == Init => PeersInv
<1> SUFFICES ASSUME Init PROVE PeersInv
  OBVIOUS
<1> USE DEF Init, PendingInit
<1>1. PeersTypeOK
  BY DEF PeersTypeOK, PendingTypeOK, PendingStreamRow, PendingBlobRow, RowStates, NoCall, Call,
         PeerSteps, SDSteps, BlobSteps
<1>2. CallsKeepUser /\ UploadStaysWithUser
  BY DEF CallsKeepUser, UploadStaysWithUser, NoCall, Call
<1>3. QED
  BY <1>1, <1>2 DEF PeersInv

\* The device a lookup finds has an owner.
LEMMA FoundOwner ==
    ASSUME DevicesTypeOK, NEW p \in Peers, NEW i \in DeviceIds, FoundBy(p, i)
    PROVE  devices[i].user \in Users
BY DEF FoundBy, FindsDevice, DevicesAt, DevicesTypeOK

\* A peer goes on to r: what the other calls have done stays done, for rows and
\* stored data are never taken back.
LEMMA PeerGoesTo ==
    ASSUME PeersInv, NEW p \in Peers,
           NEW r \in [step   : PeerSteps,
                      user   : Users \cup {NoUser},
                      sd     : SDs \cup {NoStream},
                      blob   : Blobs \cup {NoBlob},
                      device : BOOLEAN],
           peers' = [peers EXCEPT ![p] = r],
           r.step \notin {"closed", "open"} => r.user \in Users,
           r.step \in SDSteps => r.sd \in SDs,
           r.step \in BlobSteps => r.blob \in Blobs,
           r.step \in {"device", "mark"} => r.blob \in tempData'[r.user],
           r.step \in {"blobs", "terminating", "start"} =>
               pendingStreams'[r.user][r.sd].row # "none",
           PendingTypeOK',
           tempData' \in [Users -> SUBSET Blobs],
           started' \subseteq Users \X SDs,
           \A u \in Users : tempData[u] \subseteq tempData'[u],
           \A u \in Users, s \in SDs :
               pendingStreams[u][s].row # "none" => pendingStreams'[u][s].row # "none",
           UploadStaysWithUser'
    PROVE  PeersInv'
<1>1. PeersTypeOK'
  BY DEF PeersInv, PeersTypeOK
<1>2. CallsKeepUser'
  <2>1. ASSUME NEW o \in Peers, o # p
        PROVE  /\ peers'[o].step \in {"device", "mark"} =>
                      peers'[o].blob \in tempData'[peers'[o].user]
               /\ peers'[o].step \in {"blobs", "terminating", "start"} =>
                      pendingStreams'[peers'[o].user][peers'[o].sd].row # "none"
    <3>1. peers'[o] = peers[o]
      BY <2>1 DEF PeersInv, PeersTypeOK
    <3>2. peers[o].step \in {"device", "mark"} =>
              peers[o].user \in Users /\ peers[o].blob \in tempData[peers[o].user]
      BY DEF PeersInv, PeersTypeOK, CallsKeepUser
    <3>3. peers[o].step \in {"blobs", "terminating", "start"} =>
              /\ peers[o].user \in Users
              /\ peers[o].sd \in SDs
              /\ pendingStreams[peers[o].user][peers[o].sd].row # "none"
      BY DEF PeersInv, PeersTypeOK, CallsKeepUser, SDSteps
    <3>4. QED
      BY <3>1, <3>2, <3>3
  <2>2. peers'[p] = r
    BY DEF PeersInv, PeersTypeOK
  <2>3. QED
    BY <2>1, <2>2 DEF CallsKeepUser
<1>3. QED
  BY <1>1, <1>2 DEF PeersInv

\* Steps that write no table.
LEMMA PeerMoves ==
    ASSUME DevicesTypeOK, PeersInv, NEW p \in Peers,
           \/ Connect(p) \/ Disconnect(p) \/ CallFails(p)
           \/ \E s \in SDs : PutSDUser(p, s)
           \/ PutSDPending(p) \/ PutSDDevice(p)
           \/ \E b \in Blobs : PutUser(p, b)
           \/ PutDevice(p) \/ PutMarkRejected(p)
    PROVE  PeersInv'
<1> USE DEF PeerSteps, SDSteps, BlobSteps
<1>1. UNCHANGED <<pendingVars, tempData, started>>
  BY DEF Connect, Disconnect, CallFails, PutSDUser, PutSDPending, PutSDDevice, PutUser,
         PutDevice, PutMarkRejected
<1>2. /\ PendingTypeOK'
      /\ tempData' \in [Users -> SUBSET Blobs]
      /\ started' \subseteq Users \X SDs
      /\ UploadStaysWithUser'
      /\ \A u \in Users : tempData[u] \subseteq tempData'[u]
      /\ \A u \in Users, s \in SDs :
             pendingStreams[u][s].row # "none" => pendingStreams'[u][s].row # "none"
  BY <1>1 DEF PeersInv, PeersTypeOK, PendingTypeOK, UploadStaysWithUser, pendingVars
<1> DEFINE q == peers[p]
<1>3. /\ q \in [step   : PeerSteps,
                user   : Users \cup {NoUser},
                sd     : SDs \cup {NoStream},
                blob   : Blobs \cup {NoBlob},
                device : BOOLEAN]
      /\ q.step \notin {"closed", "open"} => q.user \in Users
      /\ q.step \in SDSteps => q.sd \in SDs
      /\ q.step \in BlobSteps => q.blob \in Blobs
      /\ q.step \in {"device", "mark"} => q.blob \in tempData[q.user]
  BY DEF PeersInv, PeersTypeOK, CallsKeepUser
<1>4. CASE \E step \in {"open", "closed"} : GoOn(p, step)
  <2>1. PICK step \in {"open", "closed"} : peers' = [peers EXCEPT ![p].step = step]
    BY <1>4 DEF GoOn
  <2>2. peers' = [peers EXCEPT ![p] = [q EXCEPT !.step = step]]
    BY <2>1
  <2>3. QED
    BY <1>2, <1>3, <2>2, PeerGoesTo
<1>5. CASE Return(p)
  BY <1>2, <1>5, PeerGoesTo DEF Return, NoCall, Call
<1>6. CASE \E s \in SDs : PutSDUser(p, s)
  <2>1. PICK s \in SDs, i \in DeviceIds :
            /\ FoundBy(p, i)
            /\ peers' = [peers EXCEPT ![p] =
                   [step |-> "pending", user |-> devices[i].user, sd |-> s,
                    blob |-> NoBlob, device |-> FALSE]]
    BY <1>6 DEF PutSDUser, Call
  <2>2. devices[i].user \in Users
    BY <2>1, FoundOwner
  <2>3. QED
    BY <1>2, <2>1, <2>2, PeerGoesTo
<1>7. CASE \E b \in Blobs : PutUser(p, b)
  <2>1. PICK b \in Blobs, i \in DeviceIds :
            /\ FoundBy(p, i)
            /\ peers' = [peers EXCEPT ![p] =
                   [step |-> "store", user |-> devices[i].user, sd |-> NoStream,
                    blob |-> b, device |-> FALSE]]
    BY <1>7 DEF PutUser, Call
  <2>2. devices[i].user \in Users
    BY <2>1, FoundOwner
  <2>3. QED
    BY <1>2, <2>1, <2>2, PeerGoesTo
<1>8. CASE /\ q.step \in {"pending", "sdDevice"}
           /\ \E step \in {"sdDevice", "stream"} : GoOn(p, step)
  <2>1. PICK step \in {"sdDevice", "stream"} : peers' = [peers EXCEPT ![p].step = step]
    BY <1>8 DEF GoOn
  <2>2. peers' = [peers EXCEPT ![p] = [q EXCEPT !.step = step]]
    BY <2>1
  <2>3. QED
    BY <1>2, <1>3, <1>8, <2>2, PeerGoesTo
<1>9. CASE PutDevice(p)
  <2>1. PICK found \in BOOLEAN :
            peers' = [peers EXCEPT ![p].step = "mark", ![p].device = found]
    BY <1>9 DEF PutDevice, Found
  <2>2. peers' = [peers EXCEPT ![p] = [q EXCEPT !.step = "mark", !.device = found]]
    BY <2>1
  <2>3. [q EXCEPT !.step = "mark", !.device = found].blob \in tempData'[q.user]
    BY <1>1, <1>3, <1>9 DEF PutDevice
  <2>4. q.step = "device"
    BY <1>9 DEF PutDevice
  <2>5. QED
    BY <1>2, <1>3, <2>2, <2>3, <2>4, PeerGoesTo
<1>10. QED
  BY <1>4, <1>5, <1>6, <1>7, <1>8, <1>9
     DEF Connect, Disconnect, CallFails, PutSDPending, PutSDDevice, PutMarkRejected

\* Steps of a call that write a table, each for the user the call has found.
LEMMA PeerWrites ==
    ASSUME PeersInv, NEW p \in Peers,
           \/ PutSDStream(p) \/ PutSDBlobs(p) \/ PutSDTerminating(p) \/ PutSDStart(p)
           \/ PutTemporary(p) \/ PutMark(p)
    PROVE  PeersInv'
<1> USE DEF PeerSteps, SDSteps, BlobSteps
<1> DEFINE q == peers[p]
           Record == [step   : PeerSteps,
                      user   : Users \cup {NoUser},
                      sd     : SDs \cup {NoStream},
                      blob   : Blobs \cup {NoBlob},
                      device : BOOLEAN]
<1>1. /\ q \in Record
      /\ q.step \notin {"closed", "open"} => q.user \in Users
      /\ q.step \in SDSteps => q.sd \in SDs
      /\ q.step \in BlobSteps => q.blob \in Blobs
      /\ q.step \in {"device", "mark"} => q.blob \in tempData[q.user]
      /\ q.step \in {"blobs", "terminating", "start"} =>
             pendingStreams[q.user][q.sd].row # "none"
  BY DEF PeersInv, PeersTypeOK, CallsKeepUser
<1>2. /\ PendingTypeOK
      /\ tempData \in [Users -> SUBSET Blobs]
      /\ started \subseteq Users \X SDs
      /\ UploadStaysWithUser
  BY DEF PeersInv, PeersTypeOK
<1>3. ASSUME NEW step \in PeerSteps, GoOn(p, step)
      PROVE  peers' = [peers EXCEPT ![p] = [q EXCEPT !.step = step]]
  BY <1>3 DEF GoOn
<1>4. CASE PutSDStream(p)
  <2>1. q.user \in Users /\ q.sd \in SDs /\ UpsertPendingStream(q.user, q.sd)
    BY <1>1, <1>4 DEF PutSDStream
  <2>2. PendingTypeOK'
    BY <1>2, <2>1, UpsertPendingStreamTypes
  <2>3. /\ UNCHANGED <<tempData, started, pendingBlobs>>
        /\ \A u \in Users, s \in SDs :
               pendingStreams[u][s].row # "none" => pendingStreams'[u][s].row # "none"
        /\ pendingStreams'[q.user][q.sd].row # "none"
    BY <1>2, <1>4, <2>1 DEF PutSDStream, UpsertPendingStream, Upserted, PendingTypeOK,
           PendingStreamRow
  <2>4. UploadStaysWithUser'
    BY <1>2, <2>3 DEF UploadStaysWithUser
  <2>5. QED
    BY <1>1, <1>2, <1>3, <1>4, <2>1, <2>2, <2>3, <2>4, PeerGoesTo DEF PutSDStream
<1>5. CASE PutSDBlobs(p)
  <2>1. q.user \in Users /\ q.sd \in SDs /\ CreatePendingBlobsFromSDBlob(q.user, q.sd)
    BY <1>1, <1>5 DEF PutSDBlobs
  <2>2. PendingTypeOK'
    BY <1>2, <2>1, CreatePendingBlobsTypes
  <2>3. /\ UNCHANGED <<tempData, started, pendingStreams>>
        /\ \A u \in Users, b \in Blobs :
               pendingBlobs'[u][b].received = pendingBlobs[u][b].received
    BY <1>2, <1>5, <2>1 DEF PutSDBlobs, CreatePendingBlobsFromSDBlob, PendingTypeOK
  <2>4. UploadStaysWithUser'
    BY <1>2, <2>3 DEF UploadStaysWithUser
  <2>5. QED
    BY <1>1, <1>2, <1>3, <1>5, <2>1, <2>2, <2>3, <2>4, PeerGoesTo DEF PutSDBlobs
<1>6. CASE PutSDTerminating(p)
  <2>1. q.user \in Users /\ q.sd \in SDs /\ SetTerminatingBlob(q.user, q.sd)
    BY <1>1, <1>6 DEF PutSDTerminating
  <2>2. PendingTypeOK'
    BY <1>2, <2>1, SetTerminatingTypes
  <2>3. /\ UNCHANGED <<tempData, started, pendingBlobs>>
        /\ \A u \in Users, s \in SDs :
               pendingStreams'[u][s].row = pendingStreams[u][s].row
    BY <1>2, <1>6, <2>1 DEF PutSDTerminating, SetTerminatingBlob, PendingTypeOK,
           PendingStreamRow
  <2>4. UploadStaysWithUser'
    BY <1>2, <2>3 DEF UploadStaysWithUser
  <2>5. QED
    BY <1>1, <1>2, <1>3, <1>6, <2>1, <2>2, <2>3, <2>4, PeerGoesTo DEF PutSDTerminating
<1>7. CASE PutSDStart(p)
  <2>1. /\ UNCHANGED <<pendingVars, tempData>>
        /\ started' = started \cup {<<q.user, q.sd>>}
        /\ peers' = [peers EXCEPT ![p] = NoCall("open")]
        /\ q.user \in Users
        /\ q.sd \in SDs
        /\ pendingStreams[q.user][q.sd].row # "none"
    BY <1>1, <1>7 DEF PutSDStart, Return
  <2>2. started' \subseteq Users \X SDs
    BY <1>2, <2>1
  <2>3. UploadStaysWithUser'
    BY <1>2, <2>1 DEF UploadStaysWithUser, pendingVars
  <2>4. PendingTypeOK'
    BY <1>2, <2>1 DEF PendingTypeOK, pendingVars
  <2>5. QED
    BY <1>2, <2>1, <2>2, <2>3, <2>4, PeerGoesTo DEF pendingVars, NoCall, Call
<1>8. CASE PutTemporary(p)
  <2>1. /\ UNCHANGED <<pendingVars, started>>
        /\ tempData' = [tempData EXCEPT ![q.user] = @ \cup {q.blob}]
        /\ peers' = [peers EXCEPT ![p] = [q EXCEPT !.step = "device"]]
        /\ q.user \in Users
        /\ q.blob \in Blobs
    BY <1>1, <1>3, <1>8 DEF PutTemporary
  <2>2. /\ tempData' \in [Users -> SUBSET Blobs]
        /\ \A u \in Users : tempData[u] \subseteq tempData'[u]
        /\ q.blob \in tempData'[q.user]
    BY <1>2, <2>1
  <2>3. UploadStaysWithUser'
    BY <1>2, <2>1, <2>2 DEF UploadStaysWithUser, pendingVars
  <2>4. PendingTypeOK'
    BY <1>2, <2>1 DEF PendingTypeOK, pendingVars
  <2>5. QED
    BY <1>1, <1>2, <2>1, <2>2, <2>3, <2>4, PeerGoesTo DEF pendingVars
<1>9. CASE PutMark(p)
  <2>1. /\ UNCHANGED <<tempData, started, pendingStreams>>
        /\ MarkPendingBlobAsReceived(q.user, q.blob)
        /\ peers' = [peers EXCEPT ![p] = NoCall("open")]
        /\ q.user \in Users
        /\ q.blob \in Blobs
        /\ q.blob \in tempData[q.user]
    BY <1>1, <1>9 DEF PutMark, Return, MarkPendingBlobAsReceived
  <2>2. PendingTypeOK'
    BY <1>2, <2>1, MarkReceivedTypes
  <2>3. \A u \in Users, b \in Blobs :
            u # q.user \/ b # q.blob => pendingBlobs'[u][b] = pendingBlobs[u][b]
    BY <1>2, <2>1 DEF MarkPendingBlobAsReceived, PendingTypeOK
  <2>4. UploadStaysWithUser'
    BY <1>2, <2>1, <2>3 DEF UploadStaysWithUser
  <2>5. QED
    BY <1>2, <2>1, <2>2, <2>4, PeerGoesTo DEF NoCall, Call
<1>10. QED
  BY <1>4, <1>5, <1>6, <1>7, <1>8, <1>9

LEMMA IInvInit == Init => IInv
BY DevicesInitInv, PeersInitInv DEF Init, IInv

LEMMA IInvNext == IInv /\ [Next]_vars => IInv'
<1> SUFFICES ASSUME IInv, [Next]_vars PROVE IInv'
  OBVIOUS
<1>1. CASE DeviceNext
  <2>1. DevicesInv'
    BY <1>1, DevicesStep DEF IInv
  <2>2. PeersInv'
    BY <1>1 DEF IInv, DeviceNext, PeersInv, PeersTypeOK, PendingTypeOK, CallsKeepUser,
           UploadStaysWithUser, pendingVars
  <2>3. QED
    BY <2>1, <2>2 DEF IInv
<1>2. ASSUME NEW p \in Peers, PeerNext(p) PROVE IInv'
  <2>1. PeersInv'
    BY <1>2, PeerMoves, PeerWrites DEF PeerNext, IInv, DevicesInv
  <2>2. UNCHANGED deviceVars
    BY <1>2 DEF PeerNext, Connect, Disconnect, CallFails, PutSDUser, PutSDPending,
           PutSDDevice, PutSDStream, PutSDBlobs, PutSDTerminating, PutSDStart, PutUser,
           PutTemporary, PutDevice, PutMark, PutMarkRejected
  <2>3. DevicesInv'
    BY <2>2 DEF IInv, deviceVars, DevicesInv, DevicesTypeOK, RowsOpen, OneWriter,
           AddressStillFree, OneDevicePerAddress, DevicesAt
  <2>4. QED
    BY <2>1, <2>3 DEF IInv
<1>3. CASE UNCHANGED vars
  BY <1>3 DEF IInv, vars, deviceVars, pendingVars, DevicesInv, DevicesTypeOK, RowsOpen,
         OneWriter, AddressStillFree, OneDevicePerAddress, DevicesAt, PeersInv, PeersTypeOK,
         PendingTypeOK, CallsKeepUser, UploadStaysWithUser
<1>4. QED
  BY <1>1, <1>2, <1>3 DEF Next

-----------------------------------------------------------------------------
(* The theorems.                                                           *)

\* Users, devices, requests and calls keep to their types and to what their steps
\* have established.
THEOREM Inductive == Spec => []IInv
BY IInvInit, IInvNext, PTL DEF Spec

\* Every device, request, row and call keeps to its type.
THEOREM TypeCorrect == Spec => []TypeOK
<1>1. IInv => TypeOK
  BY DEF IInv, DevicesInv, PeersInv, TypeOK
<1>2. QED
  BY <1>1, Inductive, PTL

\* Where writers take turns (SQLite), the check of CreateDevice and UpdateDevice
\* is enough to keep addresses unique, without an index.
THEOREM AddressesStayUnique ==
    ASSUME ~SnapshotReads
    PROVE  Spec => []OneDevicePerAddress
<1>1. IInv => OneDevicePerAddress
  BY DEF IInv, DevicesInv
<1>2. QED
  BY <1>1, Inductive, PTL

\* What a call does stays with the user it found, whatever becomes of the devices.
THEOREM CallsKeepTheirUser == Spec => []UploadStaysWithUser
<1>1. IInv => UploadStaysWithUser
  BY DEF IInv, PeersInv
<1>2. QED
  BY <1>1, Inductive, PTL

\* Where writers take turns, the device that stands for an address does so until
\* it is deleted or moved.
THEOREM OwnersKeepAddresses ==
    ASSUME ~SnapshotReads
    PROVE  Spec => AddressKeepsOwner
<1> DEFINE Kept == \A a \in Addresses, i \in DeviceIds :
                       FindsDevice(i, a) /\ devices'[i] = devices[i] => FindsDevice(i, a)'
<1>1. ASSUME IInv' PROVE Kept
  <2> SUFFICES ASSUME NEW a \in Addresses, NEW i \in DeviceIds, FindsDevice(i, a),
                      devices'[i] = devices[i]
               PROVE  FindsDevice(i, a)'
    OBVIOUS
  <2>1. i \in DevicesAt(a)'
    BY DEF FindsDevice, DevicesAt
  <2>2. \A j \in DevicesAt(a)' : j = i
    BY <1>1, <2>1 DEF IInv, DevicesInv, OneDevicePerAddress
  <2>3. i <= i
    BY DevicesAssumption DEF DeviceIds
  <2>4. QED
    BY <2>1, <2>2, <2>3 DEF FindsDevice
<1>2. IInv /\ [Next]_vars => [Kept]_vars
  BY <1>1, IInvNext
<1>3. QED
  BY <1>2, Inductive, PTL DEF Spec, AddressKeepsOwner

\* A user whose devices are gone gets no further call, whatever connection the
\* devices had let in.
THEOREM RevokedStayOut == Spec => RevokedUsersKeepOut
<1> DEFINE Out == \A u \in Users : ~HasDevice(u) /\ ~InCall(u) => ~InCall(u)'
<1>1. ASSUME IInv, Next PROVE Out
  <2> SUFFICES ASSUME NEW u \in Users, ~HasDevice(u), NEW p \in Peers, peers'[p].user = u
               PROVE  InCall(u)
    BY DEF InCall
  <2>1. DevicesTypeOK /\ PeersTypeOK /\ u # NoUser
    BY <1>1, DevicesAssumption DEF IInv, DevicesInv, PeersInv
  <2>2. \A i \in DeviceIds : FoundBy(p, i) => devices[i].user # u
    BY DEF HasDevice, FoundBy, FindsDevice, DevicesAt
  <2>3. peers[p].user = u \/ UNCHANGED peers \/ \E o \in Peers : o # p /\ peers[p] = peers'[p]
    <3>1. CASE DeviceNext
      BY <3>1 DEF DeviceNext
    <3>2. ASSUME NEW o \in Peers, PeerNext(o), o # p PROVE peers[p] = peers'[p]
      BY <2>1, <3>2 DEF PeerNext, Connect, Disconnect, CallFails, PutSDUser, PutSDPending,
             PutSDDevice, PutSDStream, PutSDBlobs, PutSDTerminating, PutSDStart, PutUser,
             PutTemporary, PutDevice, PutMark, PutMarkRejected, GoOn, Return, PeersTypeOK
    <3>3. CASE PeerNext(p)
      <4>1. ASSUME NEW i \in DeviceIds, FoundBy(p, i), NEW s, NEW b, NEW step,
                   peers' = [peers EXCEPT ![p] = Call(step, devices[i].user, s, b)]
            PROVE  FALSE
        BY <2>1, <2>2, <4>1 DEF Call, PeersTypeOK
      <4>2. ~Return(p)
        BY <2>1 DEF Return, NoCall, Call, PeersTypeOK
      <4>3. CASE \E step : GoOn(p, step)
        BY <2>1, <4>3 DEF GoOn, PeersTypeOK
      <4>4. CASE PutDevice(p)
        BY <2>1, <4>4 DEF PutDevice, PeersTypeOK
      <4>5. CASE \E i \in DeviceIds, s \in SDs : FoundBy(p, i)
                     /\ peers' = [peers EXCEPT ![p] =
                                     Call("pending", devices[i].user, s, NoBlob)]
        BY <4>1, <4>5
      <4>6. CASE \E i \in DeviceIds, b \in Blobs : FoundBy(p, i)
                     /\ peers' = [peers EXCEPT ![p] =
                                     Call("store", devices[i].user, NoStream, b)]
        BY <4>1, <4>6
      <4>7. QED
        BY <3>3, <4>2, <4>3, <4>4, <4>5, <4>6 DEF PeerNext, Connect, Disconnect, CallFails,
               PutSDUser, PutSDPending, PutSDDevice, PutSDStream, PutSDBlobs,
               PutSDTerminating, PutSDStart, PutUser, PutTemporary, PutMark,
               PutMarkRejected
    <3>4. QED
      BY <1>1, <3>1, <3>2, <3>3 DEF Next
  <2>4. QED
    BY <2>3 DEF InCall
<1>2. IInv /\ [Next]_vars => [Out]_vars
  BY <1>1
<1>3. QED
  BY <1>2, Inductive, PTL DEF Spec, RevokedUsersKeepOut
=============================================================================
