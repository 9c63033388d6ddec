--------------------------- MODULE DeviceList_proofs ---------------------------
(***************************************************************************)
(* Proofs about DeviceList, for any number of devices, any names, versions *)
(* and extensions, and any sequence of filters and walks.                  *)
(***************************************************************************)
EXTENDS DeviceList, SequenceTheorems, TLAPS

-------------------------------------------------------------------------------
(* The list and its entries. *)

LEMMA FunctionIsSeq ==
  ASSUME NEW S, NEW n \in Nat, NEW s \in [1 .. n -> S]
  PROVE  s \in Seq(S) /\ Len(s) = n
<1>1. s \in Seq(S)
  BY SeqDef
<1>2. DOMAIN s = 1 .. Len(s) /\ DOMAIN s = 1 .. n /\ Len(s) \in Nat
  BY <1>1, LenProperties
<1> QED
  BY <1>1, <1>2

(* The list is as long as its indices say, and its entries are devices. *)
LEMMA ListFacts ==
  ASSUME vDeviceInfo \in Seq(DeviceInfo)
  PROVE  /\ GetNumDevices \in Nat
         /\ DOMAIN vDeviceInfo = 1 .. GetNumDevices
         /\ \A i \in Indices :
              /\ i \in Nat /\ i < GetNumDevices /\ i + 1 \in DOMAIN vDeviceInfo
              /\ Device(i) \in DeviceInfo
BY LenProperties, ElementOfSeq DEF GetNumDevices, Indices, Device

(* A filter takes the selection away from the devices that it deselects and *)
(* changes nothing else of any.                                             *)
LEMMA AfterFilterFacts ==
  ASSUME NEW f, NEW d \in DeviceInfo
  PROVE  /\ AfterFilter(f, d) \in DeviceInfo
         /\ AfterFilter(f, d).strDeviceName = d.strDeviceName
         /\ AfterFilter(f, d).version = d.version
         /\ AfterFilter(f, d).extensions = d.extensions
         /\ AfterFilter(f, d).raw = d.raw
         /\ AfterFilter(f, d).bSelected <=> d.bSelected /\ ~Deselects(f, d)
BY DEF AfterFilter, DeviceInfo

LEMMA SelectAgainFacts ==
  ASSUME NEW d \in DeviceInfo
  PROVE  LET e == [d EXCEPT !.bSelected = TRUE]
         IN  /\ e \in DeviceInfo
             /\ e.strDeviceName = d.strDeviceName
             /\ e.version = d.version
             /\ e.extensions = d.extensions
             /\ e.raw = d.raw
             /\ e.bSelected
BY DEF DeviceInfo

LEMMA SameDeselects ==
  ASSUME NEW f, NEW d, NEW e, e.version = d.version, e.extensions = d.extensions
  PROVE  Deselects(f, e) <=> Deselects(f, d)
BY DEF Deselects

(* The first selected device, or the end. *)
LEMMA StopFacts ==
  ASSUME vDeviceInfo \in Seq(DeviceInfo), NEW first \in Nat, NEW i \in Nat, StopsAt(first, i)
  PROVE  /\ i >= first
         /\ \A j \in Indices : first <= j /\ j < i => ~Selected(j)
BY ListFacts DEF StopsAt, Indices

-------------------------------------------------------------------------------
(* The inductive invariant. *)

(* The constructor: nothing is filtered or walked over before it ends, a    *)
(* device's place in the list is at most its place in the enumeration, and  *)
(* the same for all as long as none was left out.                           *)
ScanInv ==
  /\ pc \in {"scan", "ready"}
  /\ index \in 0 .. NumEnumerated
  /\ pc = "ready" => index \in {0, NumEnumerated}
  /\ pc = "scan" => applied = {} /\ filterIndex = 0 /\ walk = << >>
  /\ defaultName \in 0 .. NumEnumerated
  /\ defaultDeviceIndex = IF defaultName < index THEN defaultName ELSE 0

ListInv ==
  /\ vDeviceInfo \in Seq(DeviceInfo)
  /\ \A i, j \in Indices :
       Device(i).strDeviceName = Device(j).strDeviceName => i = j
  /\ GetNumDevices <= index
  /\ GetNumDevices = index => \A i \in Indices : Device(i).raw = i

(* The walk stands behind the last device it returned and has returned      *)
(* every selected device in front of that.                                  *)
WalkInv ==
  /\ filterIndex \in Nat
  /\ walk \in Seq(Nat)
  /\ IF walk = << >> THEN filterIndex = 0 ELSE filterIndex = Last(walk) + 1
  /\ \A k \in DOMAIN walk : walk[k] < filterIndex
  /\ WalkInOrder
  /\ \A i \in Indices :
       i < filterIndex /\ Selected(i) => \E k \in DOMAIN walk : walk[k] = i

FilterInv ==
  /\ applied \subseteq VersionFilters \cup ExtensionFilters
  /\ FiltersCompose

Inv == ScanInv /\ ListInv /\ WalkInv /\ FilterInv

LEMMA InvImplies ==
  ASSUME Inv
  PROVE  TypeOK /\ FiltersCompose /\ WalkInOrder /\ WalkComplete /\ DefaultWhenAllListed
<1> USE DeviceListAssumption
<1>1. TypeOK
  BY DEF Inv, TypeOK, ScanInv, ListInv, WalkInv, FilterInv
<1>2. WalkComplete
  <2> SUFFICES ASSUME walk # << >>, Last(walk) >= GetNumDevices,
                      NEW i \in Indices, Selected(i)
               PROVE  \E k \in DOMAIN walk : walk[k] = i
    BY DEF WalkComplete
  <2>1. Last(walk) \in Nat
    BY LenProperties, ElementOfSeq, EmptySeq DEF Inv, WalkInv, Last
  <2>2. i < filterIndex
    BY <2>1, ListFacts DEF Inv, ListInv, WalkInv
  <2> QED
    BY <2>2 DEF Inv, WalkInv
<1>3. DefaultWhenAllListed
  <2> SUFFICES ASSUME pc = "ready", GetNumDevices = NumEnumerated
               PROVE  Device(defaultDeviceIndex).raw =
                        IF defaultName < NumEnumerated THEN defaultName ELSE 0
    BY DEF DefaultWhenAllListed
  <2>1. index = NumEnumerated
    BY ListFacts DEF Inv, ScanInv, ListInv
  <2>2. defaultDeviceIndex \in Indices
        /\ defaultDeviceIndex = IF defaultName < NumEnumerated THEN defaultName ELSE 0
    BY <2>1 DEF Inv, ScanInv, Indices
  <2>3. Device(defaultDeviceIndex).raw = defaultDeviceIndex
    BY <2>1, <2>2 DEF Inv, ListInv
  <2> QED
    BY <2>2, <2>3
<1> QED
  BY <1>1, <1>2, <1>3 DEF Inv, WalkInv, FilterInv

LEMMA InitInv == Init => Inv
<1> SUFFICES ASSUME Init PROVE Inv
  OBVIOUS
<1>1. GetNumDevices = 0 /\ Indices = {} /\ vDeviceInfo \in Seq(DeviceInfo)
  BY EmptySeq DEF Init, GetNumDevices, Indices
<1>2. ScanInv
  BY DeviceListAssumption DEF Init, ScanInv
<1>3. ListInv
  BY <1>1 DEF Init, ListInv
<1>4. walk \in Seq(Nat) /\ DOMAIN walk = {}
  BY EmptySeq, LenProperties DEF Init
<1>5. WalkInv
  BY <1>1, <1>4 DEF Init, WalkInv, WalkInOrder
<1>6. FilterInv
  BY <1>1 DEF Init, FilterInv, FiltersCompose
<1> QED
  BY <1>2, <1>3, <1>5, <1>6 DEF Inv

-------------------------------------------------------------------------------
(* Steps that leave a part of the state alone. *)

LEMMA SameList ==
  ASSUME Inv, UNCHANGED vDeviceInfo
  PROVE  /\ GetNumDevices' = GetNumDevices /\ Indices' = Indices
         /\ \A i : Device(i)' = Device(i) /\ Selected(i)' = Selected(i)
         /\ UNCHANGED applied => FilterInv'
         /\ UNCHANGED index => ListInv'
         /\ UNCHANGED <<filterIndex, walk>> => WalkInv'
<1>1. /\ GetNumDevices' = GetNumDevices /\ Indices' = Indices
      /\ \A i : Device(i)' = Device(i) /\ Selected(i)' = Selected(i)
  BY DEF GetNumDevices, Indices, Device, Selected
<1>2. UNCHANGED applied => FilterInv'
  BY <1>1 DEF Inv, FilterInv, FiltersCompose
<1>3. UNCHANGED index => ListInv'
  BY <1>1 DEF Inv, ListInv
<1>4. UNCHANGED <<filterIndex, walk>> => WalkInv'
  BY <1>1 DEF Inv, WalkInv, WalkInOrder
<1> QED
  BY <1>1, <1>2, <1>3, <1>4

(* Steps that change nothing of the entries but their selection. *)
LEMMA SameEntries ==
  ASSUME Inv, vDeviceInfo' \in Seq(DeviceInfo), GetNumDevices' = GetNumDevices,
         UNCHANGED index,
         \A i \in Indices : /\ Device(i)'.strDeviceName = Device(i).strDeviceName
                            /\ Device(i)'.raw = Device(i).raw
  PROVE  Indices' = Indices /\ ListInv'
<1>1. Indices' = Indices
  BY DEF Indices
<1> QED
  BY <1>1 DEF Inv, ListInv

-------------------------------------------------------------------------------
(* Every action preserves the invariant. *)

LEMMA ListedKeeps ==
  ASSUME Inv, index' = index + 1, index < NumEnumerated,
         NEW n \in Names, NEW v \in Versions, NEW x \in SUBSET Extensions,
         Listed(n, v, x), ~AlreadyListed(n)
  PROVE  /\ ListInv'
         /\ \A i \in Indices' : i \in Indices => Device(i)' = Device(i)
         /\ \A i \in Indices' : i \notin Indices => Selected(i)'
<1> DEFINE d == [strDeviceName |-> n, version |-> v, extensions |-> x,
                 bSelected |-> TRUE, raw |-> index]
<1>1. /\ vDeviceInfo \in Seq(DeviceInfo) /\ GetNumDevices <= index /\ index \in Nat
      /\ vDeviceInfo' = Append(vDeviceInfo, d)
  BY DeviceListAssumption DEF Inv, ScanInv, ListInv, Listed
<1>2. d \in DeviceInfo /\ d.strDeviceName = n /\ d.raw = index /\ d.bSelected
  BY <1>1 DEF DeviceInfo
<1> HIDE DEF d
<1>3. /\ vDeviceInfo' \in Seq(DeviceInfo)
      /\ Len(vDeviceInfo') = Len(vDeviceInfo) + 1
      /\ \A k \in 1 .. Len(vDeviceInfo) : vDeviceInfo'[k] = vDeviceInfo[k]
      /\ vDeviceInfo'[Len(vDeviceInfo) + 1] = d
  BY <1>1, <1>2, AppendProperties
<1>4. /\ GetNumDevices \in Nat
      /\ GetNumDevices' = GetNumDevices + 1
      /\ \A i \in Indices : i \in Indices' /\ Device(i)' = Device(i)
      /\ \A i \in Indices' : i \in Indices \/ i = GetNumDevices
      /\ vDeviceInfo'[GetNumDevices + 1] = d
  BY <1>1, <1>3, LenProperties DEF GetNumDevices, Indices, Device
<1>5. \A i \in Indices : Device(i).strDeviceName # n
  BY DEF AlreadyListed
<1>6. \A i \in Indices' : i = GetNumDevices => Device(i)' = d
  BY <1>4 DEF Device
<1>7. \A i, j \in Indices' :
        Device(i)'.strDeviceName = Device(j)'.strDeviceName => i = j
  BY <1>2, <1>4, <1>5, <1>6 DEF Inv, ListInv
<1>8. GetNumDevices' = index' => \A i \in Indices' : Device(i)'.raw = i
  BY <1>1, <1>2, <1>4, <1>6 DEF Inv, ListInv
<1>9. GetNumDevices' <= index'
  BY <1>1, <1>4
<1>10. \A i \in Indices' : i \in Indices => Device(i)' = Device(i)
  BY <1>4
<1>11. \A i \in Indices' : i \notin Indices => Selected(i)'
  BY <1>2, <1>4, <1>6 DEF Selected
<1> QED
  BY <1>3, <1>7, <1>8, <1>9, <1>10, <1>11 DEF ListInv

LEMMA ScanKeeps == Inv /\ Scan => Inv'
<1> SUFFICES ASSUME Inv, Scan PROVE Inv'
  OBVIOUS
<1>1. /\ pc = "scan" /\ pc' = pc /\ index < NumEnumerated /\ index' = index + 1
      /\ DefaultSeen
      /\ UNCHANGED <<defaultName, filterIndex, applied, walk>>
      /\ applied = {} /\ filterIndex = 0 /\ walk = << >>
  BY DEF Scan, Inv, ScanInv
<1>2. ScanInv'
  BY <1>1, DeviceListAssumption DEF Inv, ScanInv, DefaultSeen
<1>3. CASE UNCHANGED vDeviceInfo
  <2>1. FilterInv' /\ WalkInv'
    BY <1>1, <1>3, SameList
  <2>2. ListInv'
    <3>1. /\ GetNumDevices' = GetNumDevices /\ Indices' = Indices
          /\ \A i : Device(i)' = Device(i)
      BY <1>3, SameList
    <3>2. GetNumDevices \in Nat /\ GetNumDevices <= index /\ index \in Nat
      BY DeviceListAssumption, ListFacts DEF Inv, ScanInv, ListInv
    <3>3. GetNumDevices' <= index' /\ GetNumDevices' # index'
      BY <1>1, <3>1, <3>2
    <3> QED
      BY <1>3, <3>1, <3>3 DEF Inv, ListInv
  <2> QED
    BY <1>2, <2>1, <2>2 DEF Inv
<1>4. ASSUME NEW n \in Names, NEW v \in Versions, NEW x \in SUBSET Extensions,
             Listed(n, v, x), ~AlreadyListed(n)
      PROVE  Inv'
  <2>1. /\ ListInv'
        /\ \A i \in Indices' : i \in Indices => Device(i)' = Device(i)
        /\ \A i \in Indices' : i \notin Indices => Selected(i)'
    BY <1>1, <1>4, ListedKeeps
  <2>2. \A i \in Indices : Selected(i)
    BY <1>1 DEF Inv, FilterInv, FiltersCompose
  <2>3. \A i \in Indices' : Selected(i)'
    <3>1. \A i \in Indices' : i \in Indices => Selected(i)'
      BY <2>1, <2>2 DEF Selected, Device
    <3> QED
      BY <2>1, <3>1
  <2>4. FilterInv'
    BY <1>1, <2>3 DEF Inv, FilterInv, FiltersCompose
  <2>5. WalkInv'
    <3>1. \A i \in Indices' : i \in Nat
      BY <2>1, ListFacts DEF ListInv, Indices
    <3>2. WalkInOrder'
      BY <1>1 DEF Inv, WalkInv, WalkInOrder
    <3> QED
      BY <1>1, <3>1, <3>2 DEF Inv, WalkInv
  <2> QED
    BY <1>2, <2>1, <2>4, <2>5 DEF Inv
<1> QED
  BY <1>3, <1>4 DEF Scan, Skipped, Listed

LEMMA ScanEndsKeeps == Inv /\ ScanEnds => Inv'
<1> SUFFICES ASSUME Inv, ScanEnds PROVE Inv'
  OBVIOUS
<1>1. UNCHANGED <<index, defaultName, defaultDeviceIndex, vDeviceInfo, filterIndex, applied, walk>>
      /\ pc = "scan" /\ pc' = "ready" /\ index \in {0, NumEnumerated}
  BY DEF ScanEnds, listVars
<1>2. ScanInv'
  BY <1>1 DEF Inv, ScanInv
<1> QED
  BY <1>1, <1>2, SameList DEF Inv

LEMMA FilterDevicesKeeps ==
  ASSUME Inv, NEW f \in VersionFilters \cup ExtensionFilters, FilterDevices(f)
  PROVE  Inv'
<1>1. /\ pc = "ready" /\ UNCHANGED <<pc, index, defaultName, defaultDeviceIndex, filterIndex, walk>>
      /\ vDeviceInfo' = [i \in DOMAIN vDeviceInfo |-> AfterFilter(f, vDeviceInfo[i])]
      /\ applied' = applied \cup {f}
      /\ vDeviceInfo \in Seq(DeviceInfo)
  BY DEF FilterDevices, listVars, Inv, ListInv
<1>2. /\ GetNumDevices \in Nat /\ DOMAIN vDeviceInfo = 1 .. GetNumDevices
      /\ \A k \in DOMAIN vDeviceInfo : vDeviceInfo[k] \in DeviceInfo
  BY <1>1, ListFacts, ElementOfSeq DEF GetNumDevices
<1>3. vDeviceInfo' \in [1 .. GetNumDevices -> DeviceInfo]
  BY <1>1, <1>2, AfterFilterFacts
<1>4. vDeviceInfo' \in Seq(DeviceInfo) /\ GetNumDevices' = GetNumDevices
  BY <1>2, <1>3, FunctionIsSeq DEF GetNumDevices
<1>5. \A i \in Indices : Device(i)' = AfterFilter(f, Device(i)) /\ Device(i) \in DeviceInfo
  BY <1>1, <1>2, ListFacts DEF Device
<1>6. \A i \in Indices : /\ Device(i)'.strDeviceName = Device(i).strDeviceName
                         /\ Device(i)'.raw = Device(i).raw
                         /\ Device(i)'.version = Device(i).version
                         /\ Device(i)'.extensions = Device(i).extensions
                         /\ Selected(i)' <=> Selected(i) /\ ~Deselects(f, Device(i))
  BY <1>5, AfterFilterFacts DEF Selected
<1>7. Indices' = Indices /\ ListInv'
  BY <1>1, <1>4, <1>6, SameEntries
<1>8. ScanInv'
  BY <1>1 DEF Inv, ScanInv
<1>9. FilterInv'
  <2>1. applied' \subseteq VersionFilters \cup ExtensionFilters
    BY <1>1 DEF Inv, FilterInv
  <2>2. ASSUME NEW i \in Indices
        PROVE  Selected(i)' <=> ~\E g \in applied' : Deselects(g, Device(i)')
    <3>1. \A g : Deselects(g, Device(i)') <=> Deselects(g, Device(i))
      BY <1>6, SameDeselects
    <3>2. Selected(i) <=> ~\E g \in applied : Deselects(g, Device(i))
      BY DEF Inv, FilterInv, FiltersCompose
    <3> QED
      BY <1>1, <1>6, <3>1, <3>2
  <2> QED
    BY <1>7, <2>1, <2>2 DEF FilterInv, FiltersCompose
<1>10. WalkInv'
  BY <1>1, <1>6, <1>7 DEF Inv, WalkInv, WalkInOrder
<1> QED
  BY <1>7, <1>8, <1>9, <1>10 DEF Inv

LEMMA ResetFiltersKeeps == Inv /\ ResetFilters => Inv'
<1> SUFFICES ASSUME Inv, ResetFilters PROVE Inv'
  OBVIOUS
<1>1. /\ pc = "ready" /\ UNCHANGED <<pc, index, defaultName, defaultDeviceIndex>>
      /\ vDeviceInfo' =
           [i \in DOMAIN vDeviceInfo |-> [vDeviceInfo[i] EXCEPT !.bSelected = TRUE]]
      /\ applied' = {} /\ filterIndex' = 0 /\ walk' = << >>
      /\ vDeviceInfo \in Seq(DeviceInfo)
  BY DEF ResetFilters, listVars, Inv, ListInv
<1>2. /\ GetNumDevices \in Nat /\ DOMAIN vDeviceInfo = 1 .. GetNumDevices
      /\ \A k \in DOMAIN vDeviceInfo : vDeviceInfo[k] \in DeviceInfo
  BY <1>1, ListFacts, ElementOfSeq DEF GetNumDevices
<1>3. vDeviceInfo' \in [1 .. GetNumDevices -> DeviceInfo]
  BY <1>1, <1>2, SelectAgainFacts
<1>4. vDeviceInfo' \in Seq(DeviceInfo) /\ GetNumDevices' = GetNumDevices
  BY <1>2, <1>3, FunctionIsSeq DEF GetNumDevices
<1>5. \A i \in Indices : Device(i)' = [Device(i) EXCEPT !.bSelected = TRUE]
                         /\ Device(i) \in DeviceInfo
  BY <1>1, <1>2, ListFacts DEF Device
<1>6. \A i \in Indices : /\ Device(i)'.strDeviceName = Device(i).strDeviceName
                         /\ Device(i)'.raw = Device(i).raw
                         /\ Selected(i)'
  BY <1>5, SelectAgainFacts DEF Selected
<1>7. Indices' = Indices /\ ListInv'
  BY <1>1, <1>4, <1>6, SameEntries
<1>8. ScanInv'
  BY <1>1 DEF Inv, ScanInv
<1>9. FilterInv'
  BY <1>1, <1>6, <1>7 DEF FilterInv, FiltersCompose
<1>10. WalkInv'
  <2>1. walk' \in Seq(Nat) /\ DOMAIN walk' = {}
    BY <1>1, EmptySeq, LenProperties
  <2>2. \A i \in Indices' : ~(i < filterIndex')
    BY <1>1, <1>7, ListFacts
  <2> QED
    BY <1>1, <2>1, <2>2 DEF WalkInv, WalkInOrder
<1> QED
  BY <1>7, <1>8, <1>9, <1>10 DEF Inv

(* The walk starts again. *)
LEMMA GetFirstKeeps == Inv /\ GetFirstFilteredDevice => Inv'
<1> SUFFICES ASSUME Inv, GetFirstFilteredDevice PROVE Inv'
  OBVIOUS
<1>1. PICK i \in 0 .. GetNumDevices :
        StopsAt(0, i) /\ filterIndex' = i + 1 /\ walk' = <<i>>
  BY DEF GetFirstFilteredDevice
<1>2. /\ pc = "ready"
      /\ UNCHANGED <<pc, index, defaultName, defaultDeviceIndex, vDeviceInfo, applied>>
      /\ vDeviceInfo \in Seq(DeviceInfo) /\ GetNumDevices \in Nat
  BY ListFacts DEF GetFirstFilteredDevice, listVars, Inv, ListInv
<1>3. ScanInv'
  BY <1>2 DEF Inv, ScanInv
<1>4. WalkInv'
  <2>1. i \in Nat /\ walk' \in Seq(Nat) /\ Len(walk') = 1 /\ DOMAIN walk' = {1} /\ walk'[1] = i
    BY <1>1, <1>2
  <2>2. Last(walk') = i /\ walk' # << >>
    <3>1. walk' # << >>
      BY <1>1
    <3>2. Last(walk') = walk'[Len(walk')]
      BY DEF Last
    <3> QED
      BY <2>1, <3>1, <3>2
  <2>3. WalkInOrder'
    BY <2>1 DEF WalkInOrder
  <2>4. \A j \in Indices' : j < filterIndex' /\ Selected(j)' => j = i
    BY <1>1, <1>2, <2>1, SameList, StopFacts, ListFacts
  <2> QED
    BY <1>1, <2>1, <2>2, <2>3, <2>4 DEF WalkInv
<1> QED
  BY <1>2, <1>3, <1>4, SameList DEF Inv

(* The walk goes on behind what it returned. *)
LEMMA GetNextKeeps == Inv /\ GetNextFilteredDevice => Inv'
<1> SUFFICES ASSUME Inv, GetNextFilteredDevice PROVE Inv'
  OBVIOUS
<1>1. PICK i \in 0 .. GetNumDevices + MaxPastEnd :
        StopsAt(filterIndex, i) /\ filterIndex' = i + 1 /\ walk' = Append(walk, i)
  BY DEF GetNextFilteredDevice, GoesOnAt
<1>2. /\ pc = "ready"
      /\ UNCHANGED <<pc, index, defaultName, defaultDeviceIndex, vDeviceInfo, applied>>
      /\ vDeviceInfo \in Seq(DeviceInfo)
      /\ i \in Nat /\ filterIndex \in Nat /\ walk \in Seq(Nat)
      /\ \A k \in DOMAIN walk : walk[k] < filterIndex
  BY DEF GetNextFilteredDevice, listVars, Inv, ListInv, WalkInv
<1>3. ScanInv'
  BY <1>2 DEF Inv, ScanInv
<1>4. /\ walk' \in Seq(Nat) /\ Len(walk) \in Nat /\ DOMAIN walk = 1 .. Len(walk)
      /\ Len(walk') = Len(walk) + 1 /\ DOMAIN walk' = 1 .. Len(walk) + 1
      /\ \A k \in DOMAIN walk : walk'[k] = walk[k] /\ walk[k] \in Nat
      /\ walk'[Len(walk) + 1] = i
  BY <1>1, <1>2, AppendProperties, LenProperties, ElementOfSeq
<1>5. i >= filterIndex /\ \A j \in Indices : filterIndex <= j /\ j < i => ~Selected(j)
  BY <1>1, <1>2, StopFacts
<1>6. Last(walk') = i /\ walk' # << >>
  BY <1>4, EmptySeq DEF Last
<1>7. \A k \in DOMAIN walk' : walk'[k] < filterIndex'
  BY <1>1, <1>2, <1>4, <1>5
<1>8. WalkInOrder'
  <2> SUFFICES ASSUME NEW a \in DOMAIN walk', NEW b \in DOMAIN walk', a < b
               PROVE  walk'[a] < walk'[b]
    BY DEF WalkInOrder
  <2>1. a \in DOMAIN walk /\ walk'[a] = walk[a] /\ walk[a] \in Nat
    BY <1>4
  <2>2. CASE b = Len(walk) + 1
    BY <1>2, <1>4, <1>5, <2>1, <2>2
  <2>3. CASE b \in DOMAIN walk
    <3>1. walk'[b] = walk[b]
      BY <1>4, <2>3
    <3> QED
      BY <2>1, <2>3, <3>1 DEF Inv, WalkInv, WalkInOrder
  <2> QED
    BY <1>4, <2>2, <2>3
<1>9. ASSUME NEW j \in Indices', j < filterIndex', Selected(j)'
      PROVE  \E k \in DOMAIN walk' : walk'[k] = j
  <2>1. j \in Indices /\ j \in Nat /\ Selected(j)
    BY <1>2, <1>9, SameList, ListFacts
  <2>2. CASE j < filterIndex
    <3>1. PICK k \in DOMAIN walk : walk[k] = j
      BY <2>1, <2>2 DEF Inv, WalkInv
    <3> QED
      BY <1>4, <3>1
  <2>3. CASE j = i
    BY <1>4, <2>3
  <2> QED
    BY <1>1, <1>2, <1>5, <1>9, <2>1, <2>2, <2>3
<1>10. WalkInv'
  BY <1>1, <1>2, <1>4, <1>6, <1>7, <1>8, <1>9 DEF WalkInv
<1> QED
  BY <1>2, <1>3, <1>10, SameList DEF Inv

LEMMA NextInv == Inv /\ [Next]_vars => Inv'
<1> SUFFICES ASSUME Inv, [Next]_vars PROVE Inv'
  OBVIOUS
<1>1. CASE UNCHANGED vars
  <2>1. ScanInv'
    BY <1>1 DEF vars, listVars, Inv, ScanInv
  <2> QED
    BY <1>1, <2>1, SameList DEF vars, listVars, Inv
<1> QED
  BY <1>1, ScanKeeps, ScanEndsKeeps, FilterDevicesKeeps, ResetFiltersKeeps,
     GetFirstKeeps, GetNextKeeps
     DEF Next

LEMMA SpecInv == Spec => []Inv
BY InitInv, NextInv, PTL DEF Spec

(* Every variable keeps its type, and no device is listed twice.            *)
THEOREM TypeCorrect == Spec => []TypeOK
<1>1. Inv => TypeOK
  BY InvImplies
<1> QED
  BY <1>1, SpecInv, PTL

(* Filters compose, in whatever order they come and wherever the walk is.   *)
THEOREM FiltersCorrect == Spec => []FiltersCompose
<1>1. Inv => FiltersCompose
  BY InvImplies
<1> QED
  BY <1>1, SpecInv, PTL

(* The walk goes through the list in order and returns no device twice.     *)
THEOREM WalkOrderCorrect == Spec => []WalkInOrder
<1>1. Inv => WalkInOrder
  BY InvImplies
<1> QED
  BY <1>1, SpecInv, PTL

(* A walk that is at the end has returned every device still selected.      *)
THEOREM WalkCompleteCorrect == Spec => []WalkComplete
<1>1. Inv => WalkComplete
  BY InvImplies
<1> QED
  BY <1>1, SpecInv, PTL

(* The default device's index is right when every enumerated device was     *)
(* listed.                                                                  *)
THEOREM DefaultCorrect == Spec => []DefaultWhenAllListed
<1>1. Inv => DefaultWhenAllListed
  BY InvImplies
<1> QED
  BY <1>1, SpecInv, PTL
===============================================================================
