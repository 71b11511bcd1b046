----------------------------- MODULE Discovery ------------------------------
(***************************************************************************)
(* ow_get_device_list (src/src/overwitch.c): every program finds its       *)
(* devices by walking over the USB bus and searching, for each one, the    *)
(* description of its product id in three places: the files of devices.d,  *)
(* one description each; the array in the user's devices.json; the array   *)
(* that is distributed.  The description is read into the next free slot   *)
(* of the list, in place, so that a search that fails leaves its remains   *)
(* there for the next device.                                              *)
(*                                                                         *)
(* One step reads one description.  A file that cannot be read counts as a *)
(* description of another device, as it does in the code.                  *)
(***************************************************************************)
EXTENDS Integers, SequencesExt

CONSTANTS
  Pids,        \* product ids of Elektron devices
  Shipped,     \* the distributed devices.json
  MaxPlugged,  \* bound: Elektron devices on the bus
  MaxEntries   \* bound: files in devices.d; elements of the user's file

Kinds   == {"good", "broken"}
Entries == [pid : Pids, kind : Kinds]

ASSUME DiscoveryAssumption ==
  /\ Shipped \in Seq(Entries)
  /\ {MaxPlugged, MaxEntries} \subseteq Nat

Places == {"dir", "user", "shipped"}

OW_OK  == 0
ENODEV == -19
EINVAL == -22

VARIABLES
  places,   \* what each place holds, in the order in which it is read
  bus,      \* product ids of the devices on the bus
  dev,      \* the device being searched
  at,       \* the place being searched
  entry,    \* the description to be read next there
  err,      \* result of the last description read there
  slot,     \* ow_device->desc: where head, inputs and outputs come from
  listed    \* ow_devices: a device on the bus and its description

dvars == <<places, bus, dev, at, entry, err, slot, listed>>

Nowhere == <<"none", 0>>

BoundedEntries == BoundedSeq(Entries, MaxEntries)

DiscoveryInit ==
  /\ places \in [dir : BoundedEntries, user : BoundedEntries, shipped : {Shipped}]
  /\ bus \in BoundedSeq(Pids, MaxPlugged)
  /\ dev = 1
  /\ at = "dir"
  /\ entry = 1
  /\ err = ENODEV
  /\ slot = [head |-> Nowhere, inputs |-> Nowhere, outputs |-> Nowhere]
  /\ listed = <<>>

-----------------------------------------------------------------------------
Searching == dev <= Len(bus)

Here == places[at]

(* ow_get_device_desc_reader: the tracks are forgotten, and then           *)
(* overwritten as far as the description can be read.                      *)
ReadEntry ==
  LET e      == Here[entry]
      from   == <<at, entry>>
      tracks == [slot EXCEPT !.inputs = Nowhere, !.outputs = Nowhere]
  IN IF e.pid # bus[dev]
       THEN err' = ENODEV /\ slot' = tracks
       ELSE IF e.kind = "good"
       THEN /\ err' = OW_OK
            /\ slot' = [head |-> from, inputs |-> from, outputs |-> from]
       ELSE /\ err' = EINVAL
            /\ slot' \in {[tracks EXCEPT !.head = from],
                          [tracks EXCEPT !.head = from, !.inputs = from],
                          [head |-> from, inputs |-> from, outputs |-> from]}

(* devices.d: every file is read, whatever the one before it gave. *)
ReadFile ==
  /\ Searching
  /\ at = "dir"
  /\ entry <= Len(Here)
  /\ ReadEntry
  /\ entry' = entry + 1
  /\ UNCHANGED <<places, bus, dev, at, listed>>

(* An array: the search ends at the first element that is not ENODEV. *)
ReadElement ==
  /\ Searching
  /\ at # "dir"
  /\ entry <= Len(Here)
  /\ err = ENODEV
  /\ ReadEntry
  /\ entry' = entry + 1
  /\ UNCHANGED <<places, bus, dev, at, listed>>

PlaceRead ==
  IF at = "dir" THEN entry > Len(Here) ELSE entry > Len(Here) \/ err # ENODEV

(* Any error sends the search to the next place. *)
NextPlace ==
  /\ Searching
  /\ PlaceRead
  /\ err # OW_OK
  /\ at # "shipped"
  /\ at' = IF at = "dir" THEN "user" ELSE "shipped"
  /\ entry' = 1
  /\ err' = ENODEV
  /\ slot' = [slot EXCEPT !.inputs = Nowhere, !.outputs = Nowhere]
  /\ UNCHANGED <<places, bus, dev, listed>>

NextDevice ==
  /\ dev' = dev + 1
  /\ at' = "dir"
  /\ entry' = 1
  /\ err' = ENODEV
  /\ UNCHANGED <<places, bus>>

(* Mutant: only ENODEV is a failure. *)
FoundAnyhow ==
  /\ Searching
  /\ PlaceRead
  /\ err # ENODEV
  /\ NextDevice
  /\ listed' = Append(listed, [dev |-> dev, desc |-> slot])
  /\ slot' = [head |-> Nowhere, inputs |-> Nowhere, outputs |-> Nowhere]

(* The slot is filled and the next one, never written, becomes the free one. *)
Found ==
  /\ Searching
  /\ PlaceRead
  /\ err = OW_OK
  /\ NextDevice
  /\ listed' = Append(listed, [dev |-> dev, desc |-> slot])
  /\ slot' = [head |-> Nowhere, inputs |-> Nowhere, outputs |-> Nowhere]

(* Mutant: a description that cannot be read ends the search. *)
NotFoundWhenBroken ==
  /\ Searching
  /\ PlaceRead
  /\ err # OW_OK
  /\ err = EINVAL \/ at = "shipped"
  /\ NextDevice
  /\ UNCHANGED <<listed, slot>>

NotFound ==
  /\ Searching
  /\ PlaceRead
  /\ err # OW_OK
  /\ at = "shipped"
  /\ NextDevice
  /\ UNCHANGED <<listed, slot>>

DiscoveryNext ==
  \/ ReadFile \/ ReadElement \/ NextPlace \/ Found \/ NotFound
  \/ ~Searching /\ UNCHANGED dvars

DiscoverySpec == DiscoveryInit /\ [][DiscoveryNext]_dvars

-----------------------------------------------------------------------------
DiscoveryTypeOK ==
  /\ places \in [Places -> Seq(Entries)]
  /\ bus \in Seq(Pids)
  /\ dev \in 1..Len(bus) + 1
  /\ at \in Places
  /\ entry \in Nat \ {0}
  /\ err \in {OW_OK, ENODEV, EINVAL}
  /\ DOMAIN slot = {"head", "inputs", "outputs"}
  /\ Len(listed) < dev

(* What is listed is told by one description, whole and for that very      *)
(* device: neither a broken description nor the search for another device, *)
(* which used the same slot, is left in it (overwitch.c:77-90, 144-145).   *)
DescriptionWhole ==
  \A i \in 1..Len(listed) :
    LET d == listed[i].desc
        e == places[d.head[1]][d.head[2]]
    IN /\ d.head = d.inputs /\ d.head = d.outputs
       /\ e = [pid |-> bus[listed[i].dev], kind |-> "good"]

FirstOf(seq, pid) == SelectInSeq(seq, LAMBDA e : e.pid = pid)

(* A device that is shipped with Overwitch is always listed: whatever the  *)
(* user's files say, right, wrong or broken, the distributed description   *)
(* is the last resort (overwitch.c:417-429).                               *)
ShippedIsFallback ==
  \A d \in 1..dev - 1 :
    LET first == FirstOf(Shipped, bus[d])
    IN first # 0 /\ Shipped[first].kind = "good" =>
         \E i \in 1..Len(listed) : listed[i].dev = d

(* Overwitch first searches a device in all the files with json extension  *)
(* in devices.d (README.md:466): a device described there is listed with   *)
(* that description.                                                       *)
DirectoryFirst ==
  \A i \in 1..Len(listed) :
    (\E e \in ToSet(places["dir"]) :
        e = [pid |-> bus[listed[i].dev], kind |-> "good"])
      => listed[i].desc.head[1] = "dir"

=============================================================================
