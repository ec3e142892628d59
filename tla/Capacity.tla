------------------------------ MODULE Capacity ------------------------------
(***************************************************************************)
(* How the controller turns the CapacityRange of a CreateVolume or         *)
(* ControllerExpandVolume request into the size of a Linode volume         *)
(* (internal/driver/controllerserver_helper.go).                           *)
(*                                                                         *)
(* The arithmetic is exact and parametric in the number of bytes in a GiB, *)
(* so that a small GiB is enough to reach every rounding case.             *)
(***************************************************************************)
EXTENDS Integers

CONSTANTS
    GiB,                 \* bytes in a GiB: 2^30 in the code, any positive number here
    MinVolumeSizeGB      \* the smallest Linode volume, in GiB: 10 in the code

ASSUME GiBAssumption == GiB \in Nat \ {0}

ASSUME MinSizeAssumption == MinVolumeSizeGB \in Nat \ {0}

MinVolumeSizeBytes == MinVolumeSizeGB * GiB

(* The shift by 30 truncates, it does not round up. *)
bytesToGB(bytes) == bytes \div GiB

gbToBytes(gb) == gb * GiB

(***************************************************************************)
(* A CapacityRange.  `given' is FALSE for a request without one; a bound   *)
(* of 0 is a bound that was left out.                                      *)
(***************************************************************************)
CapacityRange == [given : BOOLEAN, required : Int, limit : Int]

NoRange == [given |-> FALSE, required |-> 0, limit |-> 0]

Refused == [ok |-> FALSE, size |-> 0]

Accepted(size) == [ok |-> TRUE, size |-> size]

adjustToMinimumSize(size) ==
    IF size < MinVolumeSizeBytes THEN MinVolumeSizeBytes ELSE size

determineOptimalSize(required, limit) ==
    IF required = 0 \/ required < limit THEN limit ELSE required

getRequestCapacitySize(range) ==
    IF ~range.given
      THEN Accepted(MinVolumeSizeBytes)
    ELSE IF \/ range.required = 0 /\ range.limit = 0
            \/ range.required < 0 \/ range.limit < 0
      THEN Refused
    ELSE IF range.limit = 0
      THEN Accepted(adjustToMinimumSize(range.required))
    ELSE IF range.limit < MinVolumeSizeBytes
      THEN Refused
      ELSE Accepted(determineOptimalSize(range.required, range.limit))

(* The size, in GiB, of the volume the driver asks the Linode API for. *)
TargetSizeGB(range) == bytesToGB(getRequestCapacitySize(range).size)

=============================================================================
