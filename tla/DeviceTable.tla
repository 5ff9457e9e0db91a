---------------------------- MODULE DeviceTable ----------------------------
(***************************************************************************)
(* The backend's devices table, repositories/devicesRepository.ts and      *)
(* routes/devices.ts: an installation presents an identifier it minted     *)
(* itself and is given a device of its account.                            *)
(*                                                                         *)
(* Ids of devices and identifiers of installations are UUIDs: numbers that *)
(* are used in order here, and never twice.                                *)
(***************************************************************************)
EXTENDS Naturals

CONSTANTS Account, DeviceId, Ident, Nothing

ASSUME UuidAssumption    == DeviceId \subseteq Nat /\ Ident \subseteq Nat
ASSUME NothingAssumption == Nothing \notin Account /\ Nothing \notin DeviceId /\ Nothing \notin Ident

VARIABLES
    device,   \* device[d]: the row, if there is or was one
    minted    \* history: the identifiers installations have minted

RowRec == [is : {"unused", "there", "deleted"}, owner : Account \cup {Nothing}, ident : Ident \cup {Nothing}]
Unused == [is |-> "unused", owner |-> Nothing, ident |-> Nothing]

\* What a socket presents: a device, and the account of its access token.
Presented == [id : DeviceId \cup {Nothing}, as : Account \cup {Nothing}]
NoSocket  == [id |-> Nothing, as |-> Nothing]

TableInit ==
    /\ device = [d \in DeviceId |-> Unused]
    /\ minted = {}

NextOf(S)   == {s \in S : \A t \in S : s <= t}
Unassigned  == {d \in DeviceId : device[d].is = "unused"}
Mintable    == NextOf(Ident \ minted)

\* listDevicesForUser
Listed(a) == {d \in DeviceId : device[d].is = "there" /\ device[d].owner = a}

With(i) == {d \in DeviceId : device[d].is = "there" /\ device[d].ident = i}

\* Mutant: ON CONFLICT without its WHERE clause.
AnyRow(a, i) == With(i)

\* The row that ON CONFLICT (public_identifier) ... WHERE updates and returns.
Adoptable(a, i) == With(i) \cap Listed(a)

\* createDevice, for account a and identifier i, returns device d.
Creates(a, i, d) ==
    \/ d \in Adoptable(a, i) /\ UNCHANGED device
    \/ /\ With(i) = {} /\ d \in NextOf(Unassigned)
       /\ device' = [device EXCEPT ![d] = [is |-> "there", owner |-> a, ident |-> i]]

\* DeviceOwnerConflictError: 409
Conflicts(a, i) == With(i) # {} /\ Adoptable(a, i) = {}

\* deleteDeviceForUser
Deletes(d) == device' = [device EXCEPT ![d].is = "deleted"]

TableTypeOK == device \in [DeviceId -> RowRec] /\ minted \subseteq Ident

=============================================================================
