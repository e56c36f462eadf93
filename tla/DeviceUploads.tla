---------------------------- MODULE DeviceUploads ----------------------------
(***************************************************************************)
(* Who an upload belongs to.  The reflector server lets a peer in when its *)
(* address is whitelisted (accessControl, internal/protocol/protocol.go);  *)
(* ReflectorStore then looks up the user, and later the device, by the     *)
(* same address in every call.  Meanwhile users register and delete        *)
(* devices through the API (internal/api/device_api.go), and other plugins *)
(* move them (UpdateDevice).  A call keeps the user it found to its end.   *)
(*                                                                         *)
(* ReflectorUpload takes this for granted: its ConnUser is the outcome of  *)
(* the lookup.  Here the lookups are steps, and the workflow that a PutSD  *)
(* starts is the pair <<user, SD hash>> it is started for.                 *)
(***************************************************************************)
EXTENDS Devices, PendingUploads

CONSTANTS
    Peers,          \* connections of the reflector server
    PeerAddress,    \* PeerAddress[p]: the address that p comes from
    NoBlob,         \* no blob in transfer
    Faults          \* whether calls may fail

ASSUME DeviceUploadsAssumption ==
    /\ PeerAddress \in [Peers -> Addresses]
    /\ NoBlob \notin Blobs
    /\ Faults \in BOOLEAN

VARIABLES
    peers,      \* [Peers -> the connection and the call it is in]
    tempData,   \* [Users -> blobs the user has in temporary storage]
    started     \* <<u, s>> for which an assembly workflow was started

vars == <<deviceVars, pendingVars, peers, tempData, started>>

SDSteps == {"pending", "sdDevice", "stream", "blobs", "terminating", "start"}

BlobSteps == {"store", "device", "mark"}

PeerSteps == {"closed", "open"} \cup SDSteps \cup BlobSteps

PeersTypeOK ==
    /\ PendingTypeOK
    /\ peers \in [Peers -> [step   : PeerSteps,
                            user   : Users \cup {NoUser},
                            sd     : SDs \cup {NoStream},
                            blob   : Blobs \cup {NoBlob},
                            device : BOOLEAN]]
    /\ \A p \in Peers : peers[p].step \notin {"closed", "open"} => peers[p].user \in Users
    /\ \A p \in Peers : peers[p].step \in SDSteps => peers[p].sd \in SDs
    /\ \A p \in Peers : peers[p].step \in BlobSteps => peers[p].blob \in Blobs
    /\ tempData \in [Users -> SUBSET Blobs]
    /\ started \subseteq Users \X SDs

TypeOK == DevicesTypeOK /\ PeersTypeOK

Call(step, u, s, b) == [step |-> step, user |-> u, sd |-> s, blob |-> b, device |-> FALSE]

NoCall(step) == Call(step, NoUser, NoStream, NoBlob)

Init ==
    /\ DevicesInit
    /\ PendingInit
    /\ peers = [p \in Peers |-> NoCall("closed")]
    /\ tempData = [u \in Users |-> {}]
    /\ started = {}

-----------------------------------------------------------------------------
(* Connections.                                                            *)

\* The device a lookup finds now.
FoundBy(p, i) == FindsDevice(i, PeerAddress[p])

Found(p) == \E i \in DeviceIds : FoundBy(p, i)

GoOn(p, step) == peers' = [peers EXCEPT ![p].step = step]

Return(p) == peers' = [peers EXCEPT ![p] = NoCall("open")]

\* Allow: any device at the address will do.
Connect(p) ==
    /\ peers[p].step = "closed"
    /\ Found(p)
    /\ GoOn(p, "open")
    /\ UNCHANGED <<deviceVars, pendingVars, tempData, started>>

\* Between two calls: what a call does after its peer has gone is CallFails.
Disconnect(p) ==
    /\ peers[p].step = "open"
    /\ GoOn(p, "closed")
    /\ UNCHANGED <<deviceVars, pendingVars, tempData, started>>

\* Any call returns an error where it stands, with what it did kept.
CallFails(p) ==
    /\ Faults
    /\ peers[p].step \notin {"closed", "open"}
    /\ Return(p)
    /\ UNCHANGED <<deviceVars, pendingVars, tempData, started>>

-----------------------------------------------------------------------------
(* PutSD.                                                                  *)

PutSDUser(p, s) ==
    /\ peers[p].step = "open"
    /\ \E i \in DeviceIds :
           /\ FoundBy(p, i)
           /\ peers' = [peers EXCEPT ![p] = Call("pending", devices[i].user, s, NoBlob)]
    /\ UNCHANGED <<deviceVars, pendingVars, tempData, started>>

\* A lookup that fails is taken for a stream that is not pending.
PutSDPending(p) ==
    /\ peers[p].step = "pending"
    /\ \/ PendingStreamExists(peers[p].user, peers[p].sd) /\ Return(p)
       \/ /\ ~PendingStreamExists(peers[p].user, peers[p].sd) \/ Faults
          /\ GoOn(p, "sdDevice")
    /\ UNCHANGED <<deviceVars, pendingVars, tempData, started>>

\* The device must still be there, or another one at the same address.
PutSDDevice(p) ==
    /\ peers[p].step = "sdDevice"
    /\ IF Found(p) THEN GoOn(p, "stream") ELSE Return(p)
    /\ UNCHANGED <<deviceVars, pendingVars, tempData, started>>

PutSDStream(p) ==
    /\ peers[p].step = "stream"
    /\ UpsertPendingStream(peers[p].user, peers[p].sd)
    /\ GoOn(p, "blobs")
    /\ UNCHANGED <<deviceVars, tempData, started>>

PutSDBlobs(p) ==
    /\ peers[p].step = "blobs"
    /\ CreatePendingBlobsFromSDBlob(peers[p].user, peers[p].sd)
    /\ GoOn(p, "terminating")
    /\ UNCHANGED <<deviceVars, tempData, started>>

PutSDTerminating(p) ==
    /\ peers[p].step = "terminating"
    /\ SetTerminatingBlob(peers[p].user, peers[p].sd)
    /\ GoOn(p, "start")
    /\ UNCHANGED <<deviceVars, tempData, started>>

\* A bug to catch: the workflow is given the user found by another lookup.
PutSDStartForFound(p) ==
    /\ peers[p].step = "start"
    /\ \E i \in DeviceIds :
           /\ FoundBy(p, i)
           /\ started' = started \cup {<<devices[i].user, peers[p].sd>>}
    /\ Return(p)
    /\ UNCHANGED <<deviceVars, pendingVars, tempData>>

PutSDStart(p) ==
    /\ peers[p].step = "start"
    /\ started' = started \cup {<<peers[p].user, peers[p].sd>>}
    /\ Return(p)
    /\ UNCHANGED <<deviceVars, pendingVars, tempData>>

-----------------------------------------------------------------------------
(* Put.                                                                    *)

PutUser(p, b) ==
    /\ peers[p].step = "open"
    /\ \E i \in DeviceIds :
           /\ FoundBy(p, i)
           /\ peers' = [peers EXCEPT ![p] = Call("store", devices[i].user, NoStream, b)]
    /\ UNCHANGED <<deviceVars, pendingVars, tempData, started>>

PutTemporary(p) ==
    /\ peers[p].step = "store"
    /\ tempData' = [tempData EXCEPT ![peers[p].user] = @ \cup {peers[p].blob}]
    /\ GoOn(p, "device")
    /\ UNCHANGED <<deviceVars, pendingVars, started>>

\* markBlobAsReceived goes on with device 0 when it finds none.
PutDevice(p) ==
    /\ peers[p].step = "device"
    /\ \E found \in {Found(p)} \cup (IF Faults THEN {FALSE} ELSE {}) :
           peers' = [peers EXCEPT ![p].step = "mark", ![p].device = found]
    /\ UNCHANGED <<deviceVars, pendingVars, tempData, started>>

\* Where foreign keys are enforced, no row takes device 0.
CanMark(p) ==
    /\ ForeignKeys => peers[p].device
    /\ CanMarkReceived(peers[p].user, peers[p].blob)

\* A bug to catch: the blob is marked for the user found by another lookup.
PutMarkForFound(p) ==
    /\ peers[p].step = "mark"
    /\ CanMark(p)
    /\ \E i \in DeviceIds :
           /\ FoundBy(p, i)
           /\ MarkPendingBlobAsReceived(devices[i].user, peers[p].blob)
    /\ Return(p)
    /\ UNCHANGED <<deviceVars, tempData, started>>

PutMark(p) ==
    /\ peers[p].step = "mark"
    /\ CanMark(p)
    /\ MarkPendingBlobAsReceived(peers[p].user, peers[p].blob)
    /\ Return(p)
    /\ UNCHANGED <<deviceVars, tempData, started>>

PutMarkRejected(p) ==
    /\ peers[p].step = "mark"
    /\ ~CanMark(p)
    /\ Return(p)
    /\ UNCHANGED <<deviceVars, pendingVars, tempData, started>>

-----------------------------------------------------------------------------
PeerNext(p) ==
    \/ Connect(p)
    \/ Disconnect(p)
    \/ CallFails(p)
    \/ \E s \in SDs : PutSDUser(p, s)
    \/ PutSDPending(p)
    \/ PutSDDevice(p)
    \/ PutSDStream(p)
    \/ PutSDBlobs(p)
    \/ PutSDTerminating(p)
    \/ PutSDStart(p)
    \/ \E b \in Blobs : PutUser(p, b)
    \/ PutTemporary(p)
    \/ PutDevice(p)
    \/ PutMark(p)
    \/ PutMarkRejected(p)

(* The device API (internal/api/device_api.go); it has no handler that     *)
(* moves a device, but the service has the operation.                      *)

HandleDeviceCreate(q) ==
    \/ \E u \in Users, a \in Addresses : CreateDeviceCheck(q, u, a)
    \/ CreateDeviceInsert(q)
    \/ CreateDeviceCommit(q)
    \/ RollBack(q)

HandleDeviceDelete == \E u \in Users, i \in DeviceIds : DeleteDevice(u, i)

MoveDevice(q) ==
    \/ \E u \in Users, i \in DeviceIds, a \in Addresses : UpdateDeviceCheck(q, u, i, a)
    \/ UpdateDeviceCommit(q)

DeviceNext ==
    /\ \/ \E q \in Requests : HandleDeviceCreate(q) \/ MoveDevice(q)
       \/ HandleDeviceDelete
    /\ UNCHANGED <<pendingVars, peers, tempData, started>>

Next == DeviceNext \/ \E p \in Peers : PeerNext(p)

Spec == Init /\ [][Next]_vars

-----------------------------------------------------------------------------
(* Properties.                                                             *)

\* The user that an address uploads for changes only when the device that stood
\* for it is deleted or moved: nobody else's registration takes an address over.
AddressKeepsOwner ==
    [][\A a \in Addresses, i \in DeviceIds :
           FindsDevice(i, a) /\ devices'[i] = devices[i] => FindsDevice(i, a)']_vars

\* However devices go, come back or change hands between the lookups of a call,
\* what the call does stays with one user: a receipt is given to the user whose
\* temporary storage has the data, and a workflow is started for the user whose
\* pending rows it will look for.  (extractUserIDFromContext is called once in each
\* call; what the workflow then takes out is in ReflectorUpload.)
UploadStaysWithUser ==
    /\ \A u \in Users, b \in Blobs : pendingBlobs[u][b].received => b \in tempData[u]
    /\ \A u \in Users, s \in SDs :
           <<u, s>> \in started => pendingStreams[u][s].row # "none"

HasDevice(u) == \E i \in DeviceIds : devices[i].row = "live" /\ devices[i].user = u

InCall(u) == \E p \in Peers : peers[p].user = u

\* A connection outlives the device that let it in, but once a user has no device
\* left no open connection begins another call for the user.
RevokedUsersKeepOut ==
    [][\A u \in Users : ~HasDevice(u) /\ ~InCall(u) => ~InCall(u)']_vars

-----------------------------------------------------------------------------
(* The inductive invariant.                                                *)

\* What a call has done for its user when it stands at a step.
CallsKeepUser ==
    \A p \in Peers :
        /\ peers[p].step \in {"device", "mark"} =>
               peers[p].blob \in tempData[peers[p].user]
        /\ peers[p].step \in {"blobs", "terminating", "start"} =>
               pendingStreams[peers[p].user][peers[p].sd].row # "none"

PeersInv == PeersTypeOK /\ CallsKeepUser /\ UploadStaysWithUser

IInv == DevicesInv /\ PeersInv
=============================================================================
