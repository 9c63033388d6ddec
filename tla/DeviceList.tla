------------------------------ MODULE DeviceList -------------------------------
(***************************************************************************)
(* The ALDeviceList class (alFramework/src/aldlist.cpp): its constructor   *)
(* opens every device that OpenAL enumerates and lists those that work,    *)
(* each under the name that the opened device reports and only once; the   *)
(* caller then deselects devices by version and extension and walks over   *)
(* the ones that are left.  Indices into the list start at 0, as in C++.   *)
(***************************************************************************)
EXTENDS Integers, Sequences, FiniteSets, SequencesExt

CONSTANTS
  NumEnumerated,  (* devices that ALC_DEVICE_SPECIFIER enumerates           *)
  Names,          (* names that an opened device may report                 *)
  Versions,       (* versions, <<major, minor>>                             *)
  Extensions,     (* extensions that callers filter by                      *)
  MaxFilters,     (* bound: filters between two resets                      *)
  MaxPastEnd      (* bound: GetNextFilteredDevice calls behind the end      *)

ASSUME DeviceListAssumption ==
  /\ NumEnumerated \in Nat \ {0}
  /\ Versions \subseteq Nat \X Nat
  /\ MaxFilters \in Nat /\ MaxPastEnd \in Nat

VARIABLES
  pc,                  (* "scan": in the constructor; "ready": constructed  *)
  index,               (* devices enumerated so far                         *)
  defaultName,         (* which enumerated device has the default's name,   *)
                       (* NumEnumerated if none has                         *)
  defaultDeviceIndex,
  vDeviceInfo,         (* the list                                          *)
  filterIndex,         (* where GetNextFilteredDevice goes on               *)
  applied,             (* history: the filters applied since the last reset *)
  walk                 (* history: what the walk over the filtered devices  *)
                       (* returned since it was started                     *)

listVars == <<index, defaultName, defaultDeviceIndex>>
vars == <<pc, listVars, vDeviceInfo, filterIndex, applied, walk>>

(* A list entry; raw (history) is its place in the enumeration.             *)
DeviceInfo ==
  [strDeviceName : Names, version : Versions, extensions : SUBSET Extensions,
   bSelected : BOOLEAN, raw : Nat]

GetNumDevices == Len(vDeviceInfo)
Indices == 0 .. GetNumDevices - 1
Device(i) == vDeviceInfo[i + 1]
Selected(i) == Device(i).bSelected

Init ==
  /\ pc = "scan"
  /\ index = 0
  /\ defaultName \in 0 .. NumEnumerated
  /\ defaultDeviceIndex = 0
  /\ vDeviceInfo = << >>
  /\ filterIndex = 0
  /\ applied = {}
  /\ walk = << >>

-------------------------------------------------------------------------------
(* The constructor. *)

(* Mutant: the name is compared with that of the last entry only. *)
AlreadyListedLast(name) ==
  vDeviceInfo # << >> /\ Last(vDeviceInfo).strDeviceName = name

AlreadyListed(name) == \E i \in Indices : Device(i).strDeviceName = name

(* Mutant: every device counts as the default one. *)
DefaultSeenAlways == defaultDeviceIndex' = index

(* The index of the enumeration is stored for the default device. *)
DefaultSeen ==
  defaultDeviceIndex' = IF index = defaultName THEN index ELSE defaultDeviceIndex

(* The device does not open, gives no context, or reports an empty name.  A *)
(* NULL instead of a name is looked for too late, behind the strcmp with    *)
(* the names in the list, which crashes unless the list is empty: a device  *)
(* reports one only while it is, and is skipped then.                       *)
Skipped == UNCHANGED vDeviceInfo

(* It reports a name: it is listed unless it is there already. *)
Listed(name, version, extensions) ==
  vDeviceInfo' =
    IF AlreadyListed(name) THEN vDeviceInfo
    ELSE Append(vDeviceInfo,
           [strDeviceName |-> name, version |-> version,
            extensions |-> extensions, bSelected |-> TRUE, raw |-> index])

Scan ==
  /\ pc = "scan"
  /\ index < NumEnumerated
  /\ index' = index + 1
  /\ DefaultSeen
  /\ \/ Skipped
     \/ \E n \in Names, v \in Versions, x \in SUBSET Extensions : Listed(n, v, x)
  /\ UNCHANGED <<pc, defaultName, filterIndex, applied, walk>>

(* The end of the enumeration, or no library or no enumeration extension to *)
(* start with; ResetFilters changes nothing yet.                            *)
ScanEnds ==
  /\ pc = "scan"
  /\ index \in {0, NumEnumerated}
  /\ pc' = "ready"
  /\ UNCHANGED <<listVars, vDeviceInfo, filterIndex, applied, walk>>

-------------------------------------------------------------------------------
(* Filters. *)

VersionFilters == [kind : {"min", "max"}, version : Versions]
ExtensionFilters == [kind : {"extension"}, extension : Extensions]

Older(v, w) == v[1] < w[1] \/ (v[1] = w[1] /\ v[2] < w[2])

Deselects(f, d) ==
  \/ f.kind = "min" /\ Older(d.version, f.version)
  \/ f.kind = "max" /\ Older(f.version, d.version)
  \/ f.kind = "extension" /\ f.extension \notin d.extensions

(* Mutant: a filter selects what passes it, whatever earlier ones said. *)
AfterFilterOnly(f, d) == [d EXCEPT !.bSelected = ~Deselects(f, d)]

AfterFilter(f, d) ==
  IF Deselects(f, d) THEN [d EXCEPT !.bSelected = FALSE] ELSE d

(* FilterDevicesMinVer, FilterDevicesMaxVer, FilterDevicesExtension: the    *)
(* walk is not touched.                                                     *)
FilterDevices(f) ==
  /\ pc = "ready"
  /\ Cardinality(applied) < MaxFilters
  /\ vDeviceInfo' = [i \in DOMAIN vDeviceInfo |-> AfterFilter(f, vDeviceInfo[i])]
  /\ applied' = applied \cup {f}
  /\ UNCHANGED <<pc, listVars, filterIndex, walk>>

ResetFilters ==
  /\ pc = "ready"
  /\ vDeviceInfo' =
       [i \in DOMAIN vDeviceInfo |-> [vDeviceInfo[i] EXCEPT !.bSelected = TRUE]]
  /\ filterIndex' = 0
  /\ applied' = {}
  /\ walk' = << >>
  /\ UNCHANGED <<pc, listVars>>

-------------------------------------------------------------------------------
(* The walk over the selected devices. *)

(* Where a loop that starts at first stops: at a selected device, or where  *)
(* its condition fails.                                                     *)
StopsAt(first, i) ==
  \/ i \in Indices /\ i >= first /\ Selected(i)
     /\ \A j \in first .. i - 1 : ~Selected(j)
  \/ /\ \A j \in Indices : j >= first => ~Selected(j)
     /\ i = IF first < GetNumDevices THEN GetNumDevices ELSE first

GetFirstFilteredDevice ==
  /\ pc = "ready"
  /\ \E i \in 0 .. GetNumDevices :
       /\ StopsAt(0, i)
       /\ filterIndex' = i + 1
       /\ walk' = <<i>>
  /\ UNCHANGED <<pc, listVars, vDeviceInfo, applied>>

(* Mutants: the walk goes on at the device it returned; one is left out. *)
GoesOnAtSame(i) == i
GoesOnTooFar(i) == i + 2

GoesOnAt(i) == i + 1

GetNextFilteredDevice ==
  /\ pc = "ready"
  /\ filterIndex < GetNumDevices + MaxPastEnd
  /\ \E i \in 0 .. GetNumDevices + MaxPastEnd :
       /\ StopsAt(filterIndex, i)
       /\ filterIndex' = GoesOnAt(i)
       /\ walk' = Append(walk, i)
  /\ UNCHANGED <<pc, listVars, vDeviceInfo, applied>>

Next ==
  \/ Scan \/ ScanEnds
  \/ \E f \in VersionFilters \cup ExtensionFilters : FilterDevices(f)
  \/ ResetFilters \/ GetFirstFilteredDevice \/ GetNextFilteredDevice

Spec == Init /\ [][Next]_vars

-------------------------------------------------------------------------------
(* Every variable keeps its type, and no device is listed twice. *)
TypeOK ==
  /\ pc \in {"scan", "ready"}
  /\ index \in 0 .. NumEnumerated
  /\ defaultName \in Nat
  /\ defaultDeviceIndex \in Nat
  /\ vDeviceInfo \in Seq(DeviceInfo)
  /\ \A i, j \in Indices :
       Device(i).strDeviceName = Device(j).strDeviceName => i = j
  /\ filterIndex \in Nat
  /\ applied \subseteq VersionFilters \cup ExtensionFilters
  /\ walk \in Seq(Nat)

(* Filters compose: a device is selected exactly if it passes every filter  *)
(* applied since the last reset, in whatever order they were applied and    *)
(* wherever the walk was.                                                   *)
FiltersCompose ==
  \A i \in Indices : Selected(i) <=> ~\E f \in applied : Deselects(f, Device(i))

(* The walk returns no device twice and goes through the list in order,     *)
(* also when devices are deselected on the way.                             *)
WalkInOrder == \A i, j \in DOMAIN walk : i < j => walk[i] < walk[j]

(* A walk that has reached the end has returned every device that is still  *)
(* selected.                                                                *)
WalkComplete ==
  walk # << >> /\ Last(walk) >= GetNumDevices =>
    \A i \in Indices : Selected(i) => \E k \in DOMAIN walk : walk[k] = i

(* When every enumerated device was listed, GetDefaultDevice is the default *)
(* one's place in the list, and the first if none is the default.           *)
DefaultWhenAllListed ==
  pc = "ready" /\ GetNumDevices = NumEnumerated =>
    Device(defaultDeviceIndex).raw =
      IF defaultName < NumEnumerated THEN defaultName ELSE 0

(* What the comment above GetDefaultDevice says: "returns the index of the  *)
(* default device in the complete device list", if it is in it.             *)
DefaultInList ==
  pc = "ready" =>
    \A i \in Indices : Device(i).raw = defaultName => defaultDeviceIndex = i
===============================================================================
