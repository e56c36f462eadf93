------------------------------- MODULE Devices -------------------------------
(***************************************************************************)
(* The device service (internal/service/devices/device.go): the whitelist  *)
(* that says which user an IP address uploads for.  The table lbry_devices *)
(* has no unique index on the address, so each call looks for the address  *)
(* and then writes, in one transaction.  A device is known by its id, and  *)
(* ids are given out in order at the INSERT, before the COMMIT.  Names are *)
(* left out: nothing depends on them.                                      *)
(***************************************************************************)
EXTENDS StreamCatalog

CONSTANTS
    Addresses,      \* IP addresses, all of them valid
    NoUser,         \* no user
    NoAddress,      \* no address
    Requests,       \* calls of the device API that may be open at once
    MaxDevices,     \* bound: rows that may be inserted
    SnapshotReads   \* a transaction reads what was committed when it began and
                    \* locks nothing (MySQL); otherwise writers take turns (SQLite)

ASSUME DevicesAssumption ==
    /\ NoUser \notin Users
    /\ NoAddress \notin Addresses
    /\ MaxDevices \in Nat \ {0}
    /\ SnapshotReads \in BOOLEAN

VARIABLES
    devices,        \* [DeviceIds -> row of lbry_devices]
    requests        \* [Requests -> the transaction the call has open]

deviceVars == <<devices, requests>>

DeviceIds == 1 .. MaxDevices

\* "open": inserted and not committed; "void": rolled back.
DeviceStates == RowStates \cup {"open", "void"}

DeviceRow == [row  : DeviceStates,
              user : Users \cup {NoUser},
              addr : Addresses \cup {NoAddress}]

RequestSteps == {"idle", "insert", "commit", "update"}

DevicesTypeOK ==
    /\ devices \in [DeviceIds -> DeviceRow]
    /\ requests \in [Requests -> [step : RequestSteps,
                                  user : Users \cup {NoUser},
                                  addr : Addresses \cup {NoAddress},
                                  id   : 0 .. MaxDevices]]
    /\ \A i \in DeviceIds : devices[i].row # "none" =>
           devices[i].user \in Users /\ devices[i].addr \in Addresses
    /\ \A q \in Requests : requests[q].step # "idle" =>
           requests[q].user \in Users /\ requests[q].addr \in Addresses
    /\ \A q \in Requests : requests[q].step \in {"commit", "update"} =>
           requests[q].id \in DeviceIds

NoRequest == [step |-> "idle", user |-> NoUser, addr |-> NoAddress, id |-> 0]

DevicesInit ==
    /\ devices = [i \in DeviceIds |->
                     [row |-> "none", user |-> NoUser, addr |-> NoAddress]]
    /\ requests = [q \in Requests |-> NoRequest]

-----------------------------------------------------------------------------
DevicesAt(a) == {i \in DeviceIds : devices[i].row = "live" /\ devices[i].addr = a}

\* A bug to catch: the lookup finds deleted devices as well.
FindsDeviceUnscoped(i, a) ==
    /\ devices[i].row \in {"live", "deleted"}
    /\ devices[i].addr = a
    /\ \A j \in DeviceIds :
           devices[j].row \in {"live", "deleted"} /\ devices[j].addr = a => i <= j

\* GetDeviceByIPAddress finds the device at an address: the one with the lowest
\* id, if there are several.
FindsDevice(i, a) == i \in DevicesAt(a) /\ \A j \in DevicesAt(a) : i <= j

\* A bug to catch: the address is looked for outside the transaction.
CanBeginAnyhow == TRUE

\* Where writers take turns, a transaction begins when no other is open.
CanBegin == SnapshotReads \/ \A q \in Requests : requests[q].step = "idle"

-----------------------------------------------------------------------------
(* CreateDevice.                                                           *)

\* A bug to catch: the address is not looked for.
CreateDeviceUnchecked(q, u, a) ==
    /\ requests[q].step = "idle"
    /\ CanBegin
    /\ requests' = [requests EXCEPT ![q] =
                       [step |-> "insert", user |-> u, addr |-> a, id |-> 0]]
    /\ UNCHANGED devices

CreateDeviceCheck(q, u, a) ==
    /\ requests[q].step = "idle"
    /\ CanBegin
    /\ DevicesAt(a) = {}
    /\ requests' = [requests EXCEPT ![q] =
                       [step |-> "insert", user |-> u, addr |-> a, id |-> 0]]
    /\ UNCHANGED devices

CreateDeviceInsert(q) ==
    /\ requests[q].step = "insert"
    /\ \E i \in DeviceIds :
           /\ devices[i].row = "none"
           /\ \A j \in DeviceIds : j < i => devices[j].row # "none"
           /\ devices' = [devices EXCEPT ![i] =
                  [row |-> "open", user |-> requests[q].user, addr |-> requests[q].addr]]
           /\ requests' = [requests EXCEPT ![q].step = "commit", ![q].id = i]

CreateDeviceCommit(q) ==
    /\ requests[q].step = "commit"
    /\ devices' = [devices EXCEPT ![requests[q].id].row = "live"]
    /\ requests' = [requests EXCEPT ![q] = NoRequest]

-----------------------------------------------------------------------------
(* UpdateDevice, which moves a device to another address.                  *)

\* Bugs to catch: the address is not looked for, or not validated.
UpdateDeviceUnchecked(q, u, i, a) ==
    /\ requests[q].step = "idle"
    /\ CanBegin
    /\ devices[i].row = "live"
    /\ devices[i].user = u
    /\ requests' = [requests EXCEPT ![q] =
                       [step |-> "update", user |-> u, addr |-> a, id |-> i]]
    /\ UNCHANGED devices

UpdateDeviceUnvalidated(q, u, i, a) ==
    /\ requests[q].step = "idle"
    /\ CanBegin
    /\ devices[i].row = "live"
    /\ devices[i].user = u
    /\ DevicesAt(a) \subseteq {i}
    /\ \E any \in {a, NoAddress} : requests' = [requests EXCEPT ![q] =
                       [step |-> "update", user |-> u, addr |-> any, id |-> i]]
    /\ UNCHANGED devices

UpdateDeviceCheck(q, u, i, a) ==
    /\ requests[q].step = "idle"
    /\ CanBegin
    /\ devices[i].row = "live"
    /\ devices[i].user = u
    /\ DevicesAt(a) \subseteq {i}
    /\ requests' = [requests EXCEPT ![q] =
                       [step |-> "update", user |-> u, addr |-> a, id |-> i]]
    /\ UNCHANGED devices

\* The UPDATE finds no row when the device was deleted meanwhile.
UpdateDeviceCommit(q) ==
    /\ requests[q].step = "update"
    /\ devices' = IF devices[requests[q].id].row = "live"
                  THEN [devices EXCEPT ![requests[q].id].addr = requests[q].addr]
                  ELSE devices
    /\ requests' = [requests EXCEPT ![q] = NoRequest]

\* A transaction fails, or its call: it is rolled back.
RollBack(q) ==
    /\ requests[q].step # "idle"
    /\ devices' = IF requests[q].step = "commit"
                  THEN [devices EXCEPT ![requests[q].id].row = "void"]
                  ELSE devices
    /\ requests' = [requests EXCEPT ![q] = NoRequest]

\* DeleteDevice: only the owner's call finds the row it may delete.
DeleteDevice(u, i) ==
    /\ CanBegin
    /\ devices[i].row = "live"
    /\ devices[i].user = u
    /\ devices' = [devices EXCEPT ![i].row = "deleted"]
    /\ UNCHANGED requests

-----------------------------------------------------------------------------
(* Properties.                                                             *)

\* "IPAddress is the IP address (IPv4 or IPv6) of the device, must be unique"
\* (internal/db/device.go:16): however creations, moves, deletions and roll-backs
\* interleave, no two devices share an address.  No index says so: it rests on
\* the check of CreateDevice and UpdateDevice and on writers taking turns.
OneDevicePerAddress ==
    \A a \in Addresses : \A i, j \in DevicesAt(a) : i = j

\* What makes it inductive.  A row that is inserted and not committed belongs to
\* one transaction; where writers take turns there is one transaction at most, and
\* what it found about its address still holds.
RowsOpen ==
    /\ \A q \in Requests : requests[q].step = "commit" =>
           /\ devices[requests[q].id].row = "open"
           /\ devices[requests[q].id].addr = requests[q].addr
    /\ \A q, r \in Requests :
           /\ requests[q].step = "commit"
           /\ requests[r].step = "commit"
           /\ requests[q].id = requests[r].id
           => q = r

OneWriter ==
    \A q, r \in Requests :
        requests[q].step # "idle" /\ requests[r].step # "idle" => q = r

AddressStillFree ==
    \A q \in Requests :
        /\ requests[q].step \in {"insert", "commit"} => DevicesAt(requests[q].addr) = {}
        /\ requests[q].step = "update" =>
               DevicesAt(requests[q].addr) \subseteq {requests[q].id}

DevicesInv ==
    /\ DevicesTypeOK
    /\ RowsOpen
    /\ ~SnapshotReads => OneWriter /\ AddressStillFree /\ OneDevicePerAddress
=============================================================================
