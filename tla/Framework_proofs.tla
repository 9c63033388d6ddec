--------------------------- MODULE Framework_proofs ----------------------------
(***************************************************************************)
(* Proofs about Framework and the Waves that it composes, for tables of    *)
(* any size, any limit on open files, any files and any order of calls.    *)
(***************************************************************************)
EXTENDS Framework, FiniteSetTheorems, TLAPS

-------------------------------------------------------------------------------
(* Least and greatest elements. *)

LEMMA MinOfNats ==
  ASSUME NEW S, S \subseteq Nat, S # {}
  PROVE  Min(S) \in S /\ \A y \in S : Min(S) =< y
<1> DEFINE R == OpToRel(<, Nat)
<1>1. \A x, y \in Nat : <<y, x>> \in R <=> y < x
  BY DEF OpToRel
<1>2. IsWellFoundedOn(R, Nat)
  BY NatLessThanWellFounded
<1> HIDE DEF R
<1>3. PICK x \in S : \A y \in S : <<y, x>> \notin R
  BY <1>2, WFMin
<1>4. \A y \in S : x =< y
  <2> TAKE y \in S
  <2>1. x \in Nat /\ y \in Nat /\ ~(y < x)
    BY <1>1, <1>3
  <2> QED
    BY <2>1
<1> QED
  BY <1>4, Zenon DEF Min

LEMMA MinOfTwo ==
  ASSUME NEW a \in Nat, NEW b \in Nat
  PROVE  Min({a, b}) = IF a <= b THEN a ELSE b
<1>1. {a, b} \subseteq Nat /\ {a, b} # {}
  OBVIOUS
<1>2. Min({a, b}) \in {a, b} /\ \A y \in {a, b} : Min({a, b}) =< y
  BY <1>1, MinOfNats, Zenon
<1> DEFINE m == Min({a, b})
<1>3. (m = a \/ m = b) /\ m =< a /\ m =< b
  BY <1>2
<1> HIDE DEF m
<1>4. m = IF a <= b THEN a ELSE b
  BY <1>3
<1> QED
  BY <1>4 DEF m

LEMMA MaxOfTwo ==
  ASSUME NEW a \in Int, NEW b \in Int
  PROVE  Max({a, b}) = IF a >= b THEN a ELSE b
<1> DEFINE m == IF a >= b THEN a ELSE b
<1>1. m \in {a, b} /\ \A y \in {a, b} : m >= y
  OBVIOUS
<1>2. Max({a, b}) \in {a, b} /\ \A y \in {a, b} : Max({a, b}) >= y
  <2> HIDE DEF m
  <2> QED
    BY <1>1, Zenon DEF Max
<1> DEFINE x == Max({a, b})
<1>3. (x = a \/ x = b) /\ x >= a /\ x >= b
  BY <1>2
<1> HIDE DEF x
<1>4. x = IF a >= b THEN a ELSE b
  BY <1>3
<1> QED
  BY <1>4 DEF x

-------------------------------------------------------------------------------
(* Tables: what the framework's and the program's have in common. *)

Tables == [WaveIDs -> WaveInfo \cup {NoWave}]
SlotsOf(t) == {id \in WaveIDs : t[id] # NoWave}
StreamsOf(t) == {id \in SlotsOf(t) : t[id].pFile}
FreeIn(t) == Min(WaveIDs \ SlotsOf(t))

LEMMA BothAreTables ==
  /\ Taken = SlotsOf(m_WaveIDs) /\ Streams = StreamsOf(m_WaveIDs)
  /\ FreeId = FreeIn(m_WaveIDs)
  /\ Loader!Taken = SlotsOf(loaderIDs) /\ Loader!Streams = StreamsOf(loaderIDs)
  /\ Loader!FreeId = FreeIn(loaderIDs)
  /\ Loader!WaveIDs = WaveIDs /\ Loader!EmptyTable = EmptyTable
<1>1. Taken = SlotsOf(m_WaveIDs)
  BY DEF Taken, SlotsOf, IsWaveID
<1>2. Loader!Taken = SlotsOf(loaderIDs)
  BY DEF Loader!Taken, SlotsOf, Loader!IsWaveID, Loader!WaveIDs, WaveIDs, Loader!NoWave, NoWave
<1>3. Streams = StreamsOf(m_WaveIDs) /\ FreeId = FreeIn(m_WaveIDs)
  BY <1>1 DEF Streams, StreamsOf, FreeId, FreeIn
<1>4. Loader!Streams = StreamsOf(loaderIDs) /\ Loader!FreeId = FreeIn(loaderIDs)
  BY <1>2 DEF Loader!Streams, StreamsOf, Loader!FreeId, FreeIn, Loader!WaveIDs, WaveIDs,
       Loader!Min, Min
<1>5. Loader!WaveIDs = WaveIDs /\ Loader!EmptyTable = EmptyTable
  BY DEF Loader!WaveIDs, WaveIDs, Loader!EmptyTable, EmptyTable, Loader!NoWave, NoWave
<1> QED
  BY <1>1, <1>2, <1>3, <1>4, <1>5

LEMMA NoWaveIsNoInfo == NoWave \notin WaveInfo
<1>1. \A w \in WaveInfo : DOMAIN w = {"file", "pFile", "pos"}
  BY DEF WaveInfo
<1>2. DOMAIN NoWave = {"file"}
  BY DEF NoWave
<1> QED
  BY <1>1, <1>2

LEMMA WaveFacts ==
  ASSUME NEW w \in WaveInfo
  PROVE  w.file \in WaveFiles /\ w.file \in FileType /\ w.pFile \in BOOLEAN /\ w.pos \in Nat
BY WavesAssumption DEF WaveInfo

LEMMA FileFacts ==
  ASSUME NEW f \in WaveFiles
  PROVE  f.data \in Nat /\ f.stored \in Nat
<1>1. f \in FileType
  BY WavesAssumption
<1> QED
  BY <1>1 DEF FileType

LEMMA SlotFacts ==
  ASSUME NEW t \in Tables
  PROVE  /\ SlotsOf(t) \subseteq WaveIDs
         /\ \A id \in SlotsOf(t) : t[id] \in WaveInfo
         /\ StreamsOf(t) \subseteq SlotsOf(t)
         /\ IsFiniteSet(SlotsOf(t)) /\ Cardinality(SlotsOf(t)) \in Nat
         /\ IsFiniteSet(StreamsOf(t)) /\ Cardinality(StreamsOf(t)) \in Nat
<1>1. SlotsOf(t) \subseteq WaveIDs /\ StreamsOf(t) \subseteq SlotsOf(t)
  BY DEF SlotsOf, StreamsOf
<1>2. \A id \in SlotsOf(t) : t[id] \in WaveInfo
  BY DEF SlotsOf, Tables
<1>3. IsFiniteSet(WaveIDs)
  BY WavesAssumption, FS_Interval DEF WaveIDs
<1>4. IsFiniteSet(SlotsOf(t)) /\ IsFiniteSet(StreamsOf(t))
  BY <1>1, <1>3, FS_Subset
<1> QED
  BY <1>1, <1>2, <1>4, FS_CardinalityType

LEMMA FreeFacts ==
  ASSUME NEW t, SlotsOf(t) # WaveIDs
  PROVE  FreeIn(t) \in WaveIDs /\ FreeIn(t) \notin SlotsOf(t)
<1> DEFINE S == WaveIDs \ SlotsOf(t)
<1>1. S \subseteq Nat
  BY DEF WaveIDs
<1>2. S # {}
  BY DEF SlotsOf
<1>3. Min(S) \in S
  BY <1>1, <1>2, MinOfNats, Zenon
<1> QED
  BY <1>3 DEF FreeIn

LEMMA EmptyFacts ==
  /\ EmptyTable \in Tables /\ SlotsOf(EmptyTable) = {} /\ StreamsOf(EmptyTable) = {}
  /\ Cardinality(SlotsOf(EmptyTable)) = 0 /\ Cardinality(StreamsOf(EmptyTable)) = 0
<1>1. EmptyTable \in Tables /\ SlotsOf(EmptyTable) = {}
  BY DEF EmptyTable, Tables, SlotsOf
<1>2. StreamsOf(EmptyTable) = {}
  BY <1>1 DEF StreamsOf
<1> QED
  BY <1>1, <1>2, FS_EmptySet

LEMMA InsertFacts ==
  ASSUME NEW t \in Tables, NEW i \in WaveIDs, i \notin SlotsOf(t), NEW w \in WaveInfo
  PROVE  LET u == [t EXCEPT ![i] = w]
         IN  /\ u \in Tables /\ u[i] = w
             /\ \A j \in WaveIDs \ {i} : u[j] = t[j]
             /\ SlotsOf(u) = SlotsOf(t) \cup {i}
             /\ StreamsOf(u) = IF w.pFile THEN StreamsOf(t) \cup {i} ELSE StreamsOf(t)
             /\ i \notin StreamsOf(t)
<1> DEFINE u == [t EXCEPT ![i] = w]
<1>1. u \in Tables /\ u[i] = w /\ \A j \in WaveIDs \ {i} : u[j] = t[j]
  BY DEF Tables
<1> HIDE DEF u
<1>2. w # NoWave
  BY NoWaveIsNoInfo
<1>3. SlotsOf(u) = SlotsOf(t) \cup {i}
  BY <1>1, <1>2 DEF SlotsOf
<1>4. i \notin StreamsOf(t)
  BY DEF StreamsOf
<1>5. \A j \in SlotsOf(t) : u[j] = t[j]
  BY <1>1 DEF SlotsOf
<1>6. StreamsOf(u) = IF w.pFile THEN StreamsOf(t) \cup {i} ELSE StreamsOf(t)
  BY <1>1, <1>3, <1>5 DEF StreamsOf
<1> QED
  BY <1>1, <1>3, <1>4, <1>6 DEF u

LEMMA DeleteFacts ==
  ASSUME NEW t \in Tables, NEW i \in SlotsOf(t)
  PROVE  LET u == [t EXCEPT ![i] = NoWave]
         IN  /\ u \in Tables
             /\ \A j \in WaveIDs \ {i} : u[j] = t[j]
             /\ SlotsOf(u) = SlotsOf(t) \ {i}
             /\ StreamsOf(u) = StreamsOf(t) \ {i}
             /\ i \in StreamsOf(t) <=> t[i].pFile
<1> DEFINE u == [t EXCEPT ![i] = NoWave]
<1>1. u \in Tables /\ u[i] = NoWave /\ \A j \in WaveIDs \ {i} : u[j] = t[j]
  BY DEF Tables, SlotsOf
<1> HIDE DEF u
<1>2. SlotsOf(u) = SlotsOf(t) \ {i}
  BY <1>1 DEF SlotsOf
<1>3. \A j \in SlotsOf(u) : u[j] = t[j]
  BY <1>1, <1>2 DEF SlotsOf
<1>4. StreamsOf(u) = StreamsOf(t) \ {i}
  BY <1>2, <1>3 DEF StreamsOf
<1>5. i \in StreamsOf(t) <=> t[i].pFile
  BY DEF StreamsOf
<1> QED
  BY <1>1, <1>2, <1>4, <1>5 DEF u

(* Moving a file's position. *)
LEMMA MovedInfo ==
  ASSUME NEW w \in WaveInfo, NEW p \in Nat
  PROVE  LET v == [w EXCEPT !.pos = p]
         IN  v \in WaveInfo /\ v.file = w.file /\ v.pFile = w.pFile /\ v.pos = p
BY Zenon DEF WaveInfo

LEMMA MoveFacts ==
  ASSUME NEW t \in Tables, NEW i \in StreamsOf(t), NEW p \in Nat
  PROVE  LET u == [t EXCEPT ![i].pos = p]
         IN  /\ u \in Tables
             /\ \A j \in WaveIDs \ {i} : u[j] = t[j]
             /\ u[i] \in WaveInfo /\ u[i].file = t[i].file /\ u[i].pos = p
             /\ SlotsOf(u) = SlotsOf(t)
             /\ StreamsOf(u) = StreamsOf(t)
<1> DEFINE v == [t[i] EXCEPT !.pos = p]
           u == [t EXCEPT ![i].pos = p]
<1>1. t[i] \in WaveInfo /\ i \in SlotsOf(t) /\ i \in WaveIDs /\ t[i].pFile
  BY SlotFacts DEF StreamsOf, SlotsOf
<1>2. v \in WaveInfo /\ v.file = t[i].file /\ v.pFile = t[i].pFile /\ v.pos = p
  BY <1>1, MovedInfo, Zenon
<1>3. u = [t EXCEPT ![i] = v]
  BY Zenon
<1> HIDE DEF v
<1>4. u \in Tables /\ u[i] = v /\ \A j \in WaveIDs \ {i} : u[j] = t[j]
  BY <1>1, <1>2, <1>3 DEF Tables
<1> HIDE DEF u
<1>5. SlotsOf(u) = SlotsOf(t)
  BY <1>1, <1>2, <1>4, NoWaveIsNoInfo DEF SlotsOf
<1>6. \A j \in SlotsOf(t) : u[j].pFile = t[j].pFile
  BY <1>2, <1>4 DEF SlotsOf
<1>7. StreamsOf(u) = StreamsOf(t)
  BY <1>5, <1>6 DEF StreamsOf
<1> QED
  BY <1>2, <1>4, <1>5, <1>7 DEF u

-------------------------------------------------------------------------------
(* Reading. *)

(* The file's position is within the data or where nothing is left to read. *)
Settled(w) == w.pos <= w.file.data \/ w.pos >= w.file.stored

LEMMA SmallUlong ==
  ASSUME NEW x \in 0 .. UlongRange - 1
  PROVE  Ulong(x) = x
BY WavesAssumption DEF Ulong

(* From a settled position nothing is read that is not audio data, unless   *)
(* the sum in the clamp wraps: where its difference wraps the file has      *)
(* ended.                                                                   *)
LEMMA ReadFacts ==
  ASSUME NEW w \in WaveInfo, NEW n \in ReadSizes
  PROVE  /\ BytesRead(w, n) \in Nat
         /\ Settled(w) /\ w.pos + n < UlongRange =>
              /\ BytesRead(w, n) <= n
              /\ BytesRead(w, n) > 0 => w.pos + BytesRead(w, n) <= w.file.data
<1> DEFINE data == w.file.data
           stored == w.file.stored
           cut == Cut(data, w.pos, n)
           left == Max({0, stored - w.pos})
           got == BytesRead(w, n)
<1>1. data \in Nat /\ stored \in Nat /\ w.pos \in Nat /\ n \in Nat \ {0}
  BY WaveFacts, FileFacts, WavesAssumption
<1>2. data + stored < UlongRange /\ UlongRange \in Nat \ {0}
  <2>1. w.file \in WaveFiles /\ 0 \in Offsets \cup {0}
    BY WaveFacts
  <2>2. data + stored + 0 < UlongRange
    BY <2>1, WavesAssumption
  <2> QED
    BY <2>2, <1>1, WavesAssumption
<1>3. left = IF stored > w.pos THEN stored - w.pos ELSE 0
  <2>1. stored - w.pos \in Int
    BY <1>1
  <2>2. left = IF 0 >= stored - w.pos THEN 0 ELSE stored - w.pos
    BY <2>1, MaxOfTwo
  <2> HIDE DEF left
  <2> QED
    BY <2>2, <1>1
<1>4. cut \in Nat
  BY <1>1, <1>2 DEF Cut, Ulong
<1>5. w.pos <= data /\ w.pos + n < UlongRange => cut <= n /\ w.pos + cut <= data
  <2> SUFFICES ASSUME w.pos <= data, w.pos + n < UlongRange
               PROVE  cut <= n /\ w.pos + cut <= data
    OBVIOUS
  <2>1. Ulong(w.pos + n) = w.pos + n /\ Ulong(data - w.pos) = data - w.pos
    <3>1. w.pos + n \in 0 .. UlongRange - 1 /\ data - w.pos \in 0 .. UlongRange - 1
      BY <1>1, <1>2
    <3> QED
      BY <3>1, <1>2, SmallUlong
  <2> QED
    BY <1>1, <2>1 DEF Cut
<1>6. got = IF cut <= left THEN cut ELSE left
  <2> HIDE DEF cut, left
  <2>1. left \in Nat
    BY <1>1, <1>3
  <2>2. Min({cut, left}) = IF cut <= left THEN cut ELSE left
    BY <1>4, <2>1, MinOfTwo
  <2> QED
    BY <2>2 DEF BytesRead, cut, left
<1> DEFINE d == data
           s == stored
           p == w.pos
           small == p + n < UlongRange
<1>7. Settled(w) <=> p <= d \/ p >= s
  BY DEF Settled
<1>8. p \in Nat /\ d \in Nat /\ s \in Nat /\ n \in Nat
      /\ (p <= d /\ small => cut <= n /\ p + cut <= d)
      /\ left = IF s > p THEN s - p ELSE 0
  BY <1>1, <1>3, <1>5
<1>9. got \in Nat
      /\ ((p <= d \/ p >= s) /\ small => got <= n /\ (got > 0 => p + got <= d))
  <2> HIDE DEF got, cut, left, p, d, s, small
  <2> QED
    BY <1>4, <1>6, <1>8
<1> QED
  BY <1>7, <1>9

(* ParseFile leaves a file at its end. *)
LEMMA SettledAfterParse ==
  ASSUME NEW f \in WaveFiles
  PROVE  PosAfterParse(f) \in Nat /\ PosAfterParse(f) >= f.stored
<1>1. f.data \in Nat /\ f.stored \in Nat /\ f.data + (f.data % 2) \in Nat
  BY FileFacts
<1> DEFINE a == f.stored
           b == f.data + (f.data % 2)
<1>2. a \in Int /\ b \in Int
  BY <1>1
<1>3. Max({a, b}) = IF a >= b THEN a ELSE b
  <2> HIDE DEF a, b
  <2> QED
    BY <1>2, MaxOfTwo
<1> QED
  BY <1>1, <1>3 DEF PosAfterParse

(* The entry of a file that was loaded or opened. *)
LEMMA NewInfo ==
  ASSUME NEW f \in WaveFiles, NEW streamed \in BOOLEAN
  PROVE  LET w == [file |-> f, pFile |-> streamed,
                   pos |-> IF streamed THEN PosAfterParse(f) ELSE 0]
         IN  w \in WaveInfo /\ w.file = f /\ w.pFile = streamed /\ Settled(w)
BY SettledAfterParse, FileFacts DEF WaveInfo, Settled

-------------------------------------------------------------------------------
(* The inductive invariant. *)

(* The loader's table never refers to an open file. *)
TableInv ==
  /\ m_WaveIDs \in Tables
  /\ loaderIDs \in Tables
  /\ StreamsOf(loaderIDs) = {}

HandleInv ==
  /\ handles \in 0 .. FOPEN_MAX
  /\ leaky \in BOOLEAN
  /\ handles >= Cardinality(StreamsOf(m_WaveIDs))
  /\ ~leaky => handles = Cardinality(StreamsOf(m_WaveIDs))

(* The ids in use are those that the program holds. *)
OwnerInv ==
  /\ owned \subseteq [id : WaveIDs, file : WaveFiles]
  /\ SlotsOf(m_WaveIDs) = {o.id : o \in owned}
  /\ \A o \in owned : m_WaveIDs[o.id].file = o.file

LoaderInv ==
  /\ g_pWaveLoader \in BOOLEAN
  /\ refused \in Nat
  /\ Cardinality(SlotsOf(loaderIDs)) = refused

(* Without an offset beyond the data, or a read whose end wraps, every      *)
(* stream is settled.                                                       *)
ReadInv ==
  /\ misused \in BOOLEAN
  /\ strayed \in BOOLEAN
  /\ strayed => misused
  /\ ~misused => \A id \in StreamsOf(m_WaveIDs) : Settled(m_WaveIDs[id])

Inv == TableInv /\ HandleInv /\ OwnerInv /\ LoaderInv /\ ReadInv

LEMMA InvImplies ==
  ASSUME Inv
  PROVE  /\ TypeOK /\ HandlesBalanced /\ OwnersKeepTheirFiles
         /\ ReadsStayInData /\ SlotsAccountedFor
<1> USE DEF Inv
<1>1. WavesTypeOK
  BY DEF WavesTypeOK, TableInv, Tables, HandleInv, OwnerInv, ReadInv
<1>2. Loader!WavesTypeOK
  <2>1. Loader!WaveInfo = WaveInfo /\ Loader!WaveIDs = WaveIDs /\ Loader!NoWave = NoWave
    BY DEF Loader!WaveInfo, WaveInfo, Loader!WaveIDs, WaveIDs, Loader!NoWave, NoWave
  <2>2. loaderIDs \in [WaveIDs -> WaveInfo \cup {NoWave}]
    BY DEF TableInv, Tables
  <2> QED
    BY <2>1, <2>2 DEF Loader!WavesTypeOK, HandleInv, ReadInv
<1>3. TypeOK
  BY <1>1, <1>2 DEF TypeOK, LoaderInv
<1>4. HandlesBalanced
  <2>1. Cardinality(Streams) = Cardinality(StreamsOf(m_WaveIDs)) /\ Cardinality(Loader!Streams) = 0
        /\ Cardinality(StreamsOf(m_WaveIDs)) \in Nat
    BY BothAreTables, FS_EmptySet, SlotFacts DEF TableInv
  <2> DEFINE a == Cardinality(Streams)
             b == Cardinality(Loader!Streams)
  <2>2. a \in Nat /\ b = 0 /\ handles \in Nat /\ handles >= a /\ (~leaky => handles = a)
    BY <2>1 DEF HandleInv
  <2>3. handles >= a + b /\ (~leaky => handles = a + b)
    <3> HIDE DEF a, b
    <3> QED
      BY <2>2
  <2> QED
    BY <2>3 DEF HandlesBalanced
<1>5. OwnersKeepTheirFiles
  BY DEF OwnersKeepTheirFiles, IsWaveID, OwnerInv, SlotsOf
<1>6. ReadsStayInData
  BY DEF ReadsStayInData, ReadInv
<1>7. SlotsAccountedFor
  BY BothAreTables DEF SlotsAccountedFor, OwnerInv, LoaderInv
<1> QED
  BY <1>3, <1>4, <1>5, <1>6, <1>7

LEMMA InitInv == Init => Inv
<1> SUFFICES ASSUME Init PROVE Inv
  OBVIOUS
<1> USE WavesAssumption, EmptyFacts DEF Init, WavesInit
<1>1. TableInv
  BY DEF TableInv
<1>2. HandleInv
  <2> DEFINE c == Cardinality(StreamsOf(m_WaveIDs))
  <2>1. c = 0 /\ handles = 0 /\ leaky = FALSE /\ FOPEN_MAX \in Nat
    OBVIOUS
  <2>2. handles \in 0 .. FOPEN_MAX /\ handles >= c /\ handles = c
    <3> HIDE DEF c
    <3> QED
      BY <2>1
  <2> QED
    BY <2>1, <2>2 DEF HandleInv
<1>3. OwnerInv
  BY DEF OwnerInv
<1>4. LoaderInv
  BY DEF LoaderInv
<1>5. ReadInv
  BY DEF ReadInv
<1> QED
  BY <1>1, <1>2, <1>3, <1>4, <1>5 DEF Inv

-------------------------------------------------------------------------------
(* The steps, by what they do to the tables. *)

LEMMA StutterKeepsInv ==
  ASSUME Inv, UNCHANGED vars
  PROVE  Inv'
<1> USE DEF Inv, vars, loaderVars, wavesVars, tableVars, readVars
<1>1. TableInv'
  BY DEF TableInv
<1>2. HandleInv'
  BY DEF HandleInv
<1>3. OwnerInv'
  BY DEF OwnerInv
<1>4. LoaderInv'
  BY DEF LoaderInv
<1>5. ReadInv'
  BY DEF ReadInv
<1> QED
  BY <1>1, <1>2, <1>3, <1>4, <1>5

(* A call that opens a file and forgets it: only the leak is noted. *)
LEMMA ForgottenHandle ==
  ASSUME Inv, NEW e \in {0, 1}, e = 1 => handles < FOPEN_MAX,
         handles' = handles + e,
         leaky' \in BOOLEAN, ~leaky' => ~leaky /\ e = 0,
         UNCHANGED <<loaderVars, m_WaveIDs, owned, readVars>>
  PROVE  Inv'
<1> USE DEF Inv, loaderVars, readVars
<1>1. TableInv'
  BY DEF TableInv
<1>2. HandleInv'
  <2> DEFINE c == Cardinality(StreamsOf(m_WaveIDs))
  <2>1. c' = c
    OBVIOUS
  <2>2. c \in Nat
    BY SlotFacts DEF TableInv
  <2>3. handles \in 0 .. FOPEN_MAX /\ leaky \in BOOLEAN /\ handles >= c /\ (~leaky => handles = c)
        /\ FOPEN_MAX \in Nat
    BY WavesAssumption DEF HandleInv
  <2>4. handles' \in 0 .. FOPEN_MAX /\ leaky' \in BOOLEAN /\ handles' >= c
        /\ (~leaky' => handles' = c)
    <3> HIDE DEF c
    <3>1. handles' \in 0 .. FOPEN_MAX /\ handles' >= c
      BY <2>2, <2>3
    <3>2. ~leaky' => handles' = c
      BY <2>2, <2>3
    <3> QED
      BY <3>1, <3>2
  <2> QED
    BY <2>1, <2>4 DEF HandleInv
<1>3. OwnerInv'
  BY DEF OwnerInv
<1>4. LoaderInv'
  BY DEF LoaderInv
<1>5. ReadInv'
  BY DEF ReadInv
<1> QED
  BY <1>1, <1>2, <1>3, <1>4, <1>5

(* ParseFile forgets a file only when it opened it. *)
LEMMA ParseForgets ==
  ASSUME NEW f \in WaveFiles
  PROVE  LeftOpenByParse(f) \in {0, 1} /\ (LeftOpenByParse(f) = 1 => handles < FOPEN_MAX)
BY DEF LeftOpenByParse, Opens

LEMMA ParseFailsKeepsInv ==
  ASSUME Inv, NEW f \in WaveFiles, ParseFails(f), UNCHANGED loaderVars
  PROVE  Inv'
<1>1. LeftOpenByParse(f) \in {0, 1} /\ (LeftOpenByParse(f) = 1 => handles < FOPEN_MAX)
  BY ParseForgets
<1>2. /\ handles' = handles + LeftOpenByParse(f)
      /\ leaky' = (leaky \/ LeftOpenByParse(f) > 0)
      /\ UNCHANGED <<loaderVars, m_WaveIDs, owned, readVars>>
  BY DEF ParseFails
<1>3. leaky' \in BOOLEAN /\ (~leaky' => ~leaky /\ LeftOpenByParse(f) = 0)
  <2> DEFINE forgets == LeftOpenByParse(f) > 0
  <2>1. ~forgets => LeftOpenByParse(f) = 0
    BY <1>1
  <2>2. leaky' = (leaky \/ forgets)
    BY <1>2
  <2> HIDE DEF forgets
  <2> QED
    BY <2>1, <2>2, Zenon
<1> QED
  BY <1>1, <1>2, <1>3, ForgottenHandle

(* A file enters the program's table. *)
LEMMA InsertKeepsInv ==
  ASSUME Inv, NEW f \in WaveFiles, NEW streamed \in BOOLEAN, ~TableFull,
         streamed => handles < FOPEN_MAX,
         Insert(f, streamed), GiveOut(f),
         handles' = handles + (IF streamed THEN 1 ELSE 0),
         UNCHANGED <<loaderVars, leaky, readVars>>
  PROVE  Inv'
<1> DEFINE t == m_WaveIDs
           i == FreeIn(m_WaveIDs)
           w == [file |-> f, pFile |-> streamed,
                 pos |-> IF streamed THEN PosAfterParse(f) ELSE 0]
           u == [t EXCEPT ![i] = w]
<1> USE DEF Inv, loaderVars, readVars
<1>1. t \in Tables /\ i \in WaveIDs /\ i \notin SlotsOf(t)
  BY BothAreTables, FreeFacts DEF TableInv, TableFull
<1>2. w \in WaveInfo /\ w.file = f /\ w.pFile = streamed /\ Settled(w)
  BY NewInfo, Zenon
<1>3. m_WaveIDs' = u /\ owned' = owned \cup {[id |-> i, file |-> f]}
  BY BothAreTables DEF Insert, GiveOut
<1> HIDE DEF w
<1>4. /\ u \in Tables /\ u[i] = w
      /\ \A j \in WaveIDs \ {i} : u[j] = t[j]
      /\ SlotsOf(u) = SlotsOf(t) \cup {i}
      /\ StreamsOf(u) = IF streamed THEN StreamsOf(t) \cup {i} ELSE StreamsOf(t)
      /\ i \notin StreamsOf(t)
  <2>1. /\ u \in Tables /\ u[i] = w
        /\ \A j \in WaveIDs \ {i} : u[j] = t[j]
        /\ SlotsOf(u) = SlotsOf(t) \cup {i}
        /\ StreamsOf(u) = IF w.pFile THEN StreamsOf(t) \cup {i} ELSE StreamsOf(t)
        /\ i \notin StreamsOf(t)
    <3> HIDE DEF i, t
    <3> QED
      BY <1>1, <1>2, InsertFacts, Zenon
  <2> QED
    BY <1>2, <2>1
<1> HIDE DEF i, u
<1>5. TableInv'
  BY <1>3, <1>4 DEF TableInv
<1>6. HandleInv'
  <2> DEFINE c == Cardinality(StreamsOf(t))
             d == Cardinality(StreamsOf(u))
  <2>1. IsFiniteSet(StreamsOf(t)) /\ c \in Nat
    BY <1>1, SlotFacts
  <2>2. d = IF streamed THEN c + 1 ELSE c
    BY <1>4, <2>1, FS_AddElement
  <2>3. handles \in 0 .. FOPEN_MAX /\ leaky \in BOOLEAN /\ handles >= c /\ (~leaky => handles = c)
        /\ FOPEN_MAX \in Nat
    BY WavesAssumption DEF HandleInv
  <2>4. handles' \in 0 .. FOPEN_MAX /\ leaky' \in BOOLEAN /\ handles' >= d
        /\ (~leaky' => handles' = d)
    <3> HIDE DEF c, d
    <3> QED
      BY <2>1, <2>2, <2>3
  <2>5. Cardinality(StreamsOf(m_WaveIDs))' = d
    BY <1>3
  <2> QED
    BY <2>4, <2>5 DEF HandleInv
<1>7. OwnerInv'
  <2>1. owned' \subseteq [id : WaveIDs, file : WaveFiles]
    BY <1>1, <1>3 DEF OwnerInv
  <2>2. SlotsOf(u) = {o.id : o \in owned'}
    <3>1. {o.id : o \in owned'} = {o.id : o \in owned} \cup {[id |-> i, file |-> f].id}
      BY <1>3
    <3>2. [id |-> i, file |-> f].id = i
      OBVIOUS
    <3> QED
      BY <1>4, <3>1, <3>2 DEF OwnerInv
  <2>3. ASSUME NEW o \in owned' PROVE u[o.id].file = o.file
    <3>1. CASE o \in owned
      <4>1. o.id \in SlotsOf(t) /\ o.id \in WaveIDs
        BY <3>1 DEF OwnerInv
      <4> QED
        BY <1>1, <1>4, <3>1, <4>1 DEF OwnerInv
    <3>2. CASE o = [id |-> i, file |-> f]
      BY <1>2, <1>4, <3>2
    <3> QED
      BY <1>3, <3>1, <3>2
  <2> QED
    BY <1>3, <2>1, <2>2, <2>3 DEF OwnerInv
<1>8. LoaderInv'
  BY DEF LoaderInv
<1>9. ReadInv'
  <2>1. ASSUME ~misused, NEW id \in StreamsOf(u) PROVE Settled(u[id])
    <3>1. CASE id = i
      BY <1>2, <1>4, <3>1
    <3>2. CASE id # i
      <4>1. id \in StreamsOf(t) /\ id \in WaveIDs
        BY <1>4, <3>2, <1>1, SlotFacts
      <4> QED
        BY <1>4, <2>1, <3>2, <4>1 DEF ReadInv
    <3> QED
      BY <3>1, <3>2
  <2> QED
    BY <1>3, <2>1 DEF ReadInv
<1> QED
  BY <1>5, <1>6, <1>7, <1>8, <1>9

LEMMA LoadKeepsInv ==
  ASSUME Inv, NEW f \in WaveFiles, LoadWaveFile(f), UNCHANGED loaderVars
  PROVE  Inv'
<1>1. CASE Loaded(f) /\ GiveOut(f)
  <2>1. handles' = handles + (IF FALSE THEN 1 ELSE 0)
    BY <1>1 DEF Loaded, Inv, HandleInv
  <2> QED
    BY <1>1, <2>1, InsertKeepsInv DEF Loaded
<1>2. CASE ~Parses(f) /\ ParseFails(f)
  BY <1>2, ParseFailsKeepsInv
<1>3. CASE UNCHANGED <<m_WaveIDs, handles, owned, leaky, readVars>>
  BY <1>3, StutterKeepsInv DEF vars, wavesVars, tableVars
<1> QED
  BY <1>1, <1>2, <1>3 DEF LoadWaveFile, LoadFails

LEMMA OpenKeepsInv ==
  ASSUME Inv, NEW f \in WaveFiles, OpenWaveFile(f), UNCHANGED loaderVars
  PROVE  Inv'
<1>1. CASE ~Parses(f) /\ ParseFails(f)
  BY <1>1, ParseFailsKeepsInv
<1>2. CASE /\ Parses(f) /\ ~TableFull
           /\ Insert(f, TRUE)
           /\ GiveOut(f)
           /\ handles' = handles + 1
           /\ UNCHANGED <<leaky, readVars>>
  BY <1>2, InsertKeepsInv DEF Parses, Opens
<1>3. CASE /\ Parses(f) /\ TableFull
           /\ handles' = handles + 1
           /\ leaky' = TRUE
           /\ UNCHANGED <<m_WaveIDs, owned, readVars>>
  <2>1. handles < FOPEN_MAX /\ leaky' \in BOOLEAN /\ leaky'
    BY <1>3 DEF Parses, Opens
  <2> QED
    BY <1>3, <2>1, ForgottenHandle
<1> QED
  BY <1>1, <1>2, <1>3 DEF OpenWaveFile

(* A stream moves in its file; the ids and the open files stay. *)
LEMMA MoveKeepsInv ==
  ASSUME Inv, NEW id \in Streams, NEW p \in Nat,
         m_WaveIDs' = [m_WaveIDs EXCEPT ![id].pos = p],
         misused' \in BOOLEAN, strayed' \in BOOLEAN, strayed' => misused',
         ~misused' => /\ ~misused
                      /\ p <= m_WaveIDs[id].file.data \/ p >= m_WaveIDs[id].file.stored,
         UNCHANGED <<loaderVars, handles, owned, leaky>>
  PROVE  Inv'
<1> DEFINE t == m_WaveIDs
           u == [t EXCEPT ![id].pos = p]
<1> USE DEF Inv, loaderVars
<1>1. t \in Tables /\ id \in StreamsOf(t)
  BY BothAreTables DEF TableInv
<1>2. /\ u \in Tables
      /\ \A j \in WaveIDs \ {id} : u[j] = t[j]
      /\ u[id] \in WaveInfo /\ u[id].file = t[id].file /\ u[id].pos = p
      /\ SlotsOf(u) = SlotsOf(t)
      /\ StreamsOf(u) = StreamsOf(t)
  <2> HIDE DEF t
  <2> QED
    BY <1>1, MoveFacts, Zenon
<1>3. m_WaveIDs' = u
  OBVIOUS
<1> HIDE DEF u
<1>4. TableInv'
  BY <1>2, <1>3 DEF TableInv
<1>5. HandleInv'
  <2>1. Cardinality(StreamsOf(m_WaveIDs))' = Cardinality(StreamsOf(m_WaveIDs))
    BY <1>2, <1>3
  <2> QED
    BY <2>1 DEF HandleInv
<1>6. OwnerInv'
  <2>1. ASSUME NEW o \in owned PROVE u[o.id].file = o.file
    <3>1. o.id \in WaveIDs /\ t[o.id].file = o.file
      BY DEF OwnerInv
    <3> QED
      BY <1>2, <3>1
  <2> QED
    BY <1>2, <1>3, <2>1 DEF OwnerInv
<1>7. LoaderInv'
  BY DEF LoaderInv
<1>8. ReadInv'
  <2>1. ASSUME ~misused', NEW j \in StreamsOf(u) PROVE Settled(u[j])
    <3>1. CASE j = id
      BY <1>2, <2>1, <3>1 DEF Settled
    <3>2. CASE j # id
      <4>1. j \in StreamsOf(t) /\ j \in WaveIDs
        BY <1>1, <1>2, SlotFacts
      <4> QED
        BY <1>2, <2>1, <3>2, <4>1 DEF ReadInv
    <3> QED
      BY <3>1, <3>2
  <2> QED
    BY <1>3, <2>1 DEF ReadInv
<1> QED
  BY <1>4, <1>5, <1>6, <1>7, <1>8

LEMMA ReadKeepsInv ==
  ASSUME Inv, NEW id, NEW n \in ReadSizes, ReadWaveData(id, n), UNCHANGED loaderVars
  PROVE  Inv'
<1> DEFINE w == m_WaveIDs[id]
           got == BytesRead(w, n)
           Tame == Settled(w) /\ w.pos + n < UlongRange
<1>1. id \in Streams /\ w \in WaveInfo
  BY BothAreTables, SlotFacts DEF ReadWaveData, Inv, TableInv
<1>2. /\ got \in Nat /\ w.pos + got \in Nat
      /\ Tame => got <= n /\ (got > 0 => w.pos + got <= w.file.data)
  BY <1>1, ReadFacts, WaveFacts
<1>3. /\ m_WaveIDs' = [m_WaveIDs EXCEPT ![id].pos = w.pos + got]
      /\ strayed' = (strayed \/ got > n \/ (got > 0 /\ w.pos + got > w.file.data))
      /\ misused' = (misused \/ w.pos + n >= UlongRange)
      /\ UNCHANGED <<handles, owned, leaky>>
  BY DEF ReadWaveData
<1>4. ~misused => ~strayed /\ Settled(w)
  BY <1>1, BothAreTables DEF Inv, ReadInv
<1>5. w.file.data \in Nat /\ w.file.stored \in Nat /\ w.pos \in Nat /\ n \in Nat
      /\ UlongRange \in Nat
  BY <1>1, WaveFacts, FileFacts, WavesAssumption
<1>6. Tame => ~(got > n) /\ ~(got > 0 /\ w.pos + got > w.file.data)
  <2> DEFINE d == w.file.data
             p == w.pos
  <2>1. got \in Nat /\ d \in Nat /\ p \in Nat /\ n \in Nat
        /\ (Tame => got <= n /\ (got > 0 => p + got <= d))
    BY <1>2, <1>5
  <2>2. Tame => ~(got > n) /\ ~(got > 0 /\ p + got > d)
    <3> HIDE DEF d, p, got, w, Tame
    <3> QED
      BY <2>1
  <2> QED
    BY <2>2
<1>7. Tame => w.pos + got <= w.file.data \/ w.pos + got >= w.file.stored
  <2> DEFINE d == w.file.data
             s == w.file.stored
             p == w.pos
  <2>1. got \in Nat /\ d \in Nat /\ s \in Nat /\ p \in Nat
        /\ (Tame => (got > 0 => p + got <= d))
        /\ (Tame => p <= d \/ p >= s)
    BY <1>2, <1>5 DEF Settled
  <2>2. Tame => p + got <= d \/ p + got >= s
    <3> HIDE DEF d, s, p, got, w, Tame
    <3> QED
      BY <2>1
  <2> QED
    BY <2>2
<1>8. misused' \in BOOLEAN /\ (misused => misused') /\ (~misused' => ~misused /\ Tame)
  <2> DEFINE wraps == w.pos + n >= UlongRange
  <2>1. ~wraps => w.pos + n < UlongRange
    BY <1>5
  <2>2. ~wraps /\ Settled(w) => Tame
    BY <2>1
  <2>3. misused' = (misused \/ wraps) /\ misused \in BOOLEAN
    BY <1>3 DEF Inv, ReadInv
  <2> HIDE DEF wraps, w, Tame
  <2> QED
    BY <1>4, <2>2, <2>3, Zenon
<1>9. strayed' \in BOOLEAN /\ (strayed' => misused')
  <2> DEFINE strays == got > n \/ (got > 0 /\ w.pos + got > w.file.data)
  <2>1. Tame => ~strays
    BY <1>6
  <2>2. strayed' = (strayed \/ strays)
    BY <1>3
  <2> HIDE DEF strays, w, Tame
  <2> QED
    BY <1>4, <1>8, <2>1, <2>2, Zenon
<1> QED
  <2> HIDE DEF got
  <2> QED
    BY <1>1, <1>2, <1>3, <1>4, <1>7, <1>8, <1>9, MoveKeepsInv

LEMMA SeekKeepsInv ==
  ASSUME Inv, NEW id, NEW offset \in Offsets, SetWaveDataOffset(id, offset),
         UNCHANGED loaderVars
  PROVE  Inv'
<1> DEFINE w == m_WaveIDs[id]
<1>1. id \in Streams /\ w \in WaveInfo
  BY BothAreTables, SlotFacts DEF SetWaveDataOffset, Inv, TableInv
<1>2. offset \in Nat /\ w.file.data \in Nat /\ w.file.stored \in Nat
  BY <1>1, WaveFacts, FileFacts, WavesAssumption
<1>3. /\ m_WaveIDs' = [m_WaveIDs EXCEPT ![id].pos = offset]
      /\ misused' = (misused \/ offset > w.file.data)
      /\ UNCHANGED <<handles, owned, leaky, strayed>>
  BY DEF SetWaveDataOffset
<1>4. misused' \in BOOLEAN /\ (misused => misused') /\ (~misused' => offset <= w.file.data)
  <2> DEFINE beyond == offset > w.file.data
  <2>1. ~beyond => offset <= w.file.data
    BY <1>2
  <2>2. misused' = (misused \/ beyond)
    BY <1>3
  <2> HIDE DEF beyond, w
  <2> QED
    BY <2>1, <2>2, Zenon
<1>5. strayed' \in BOOLEAN /\ (strayed' => misused')
  BY <1>3, <1>4 DEF Inv, ReadInv
<1> QED
  BY <1>1, <1>2, <1>3, <1>4, <1>5, MoveKeepsInv

LEMMA DeleteKeepsInv ==
  ASSUME Inv, NEW i \in WaveIDs, DeleteWaveFile(i), UNCHANGED loaderVars
  PROVE  Inv'
<1> DEFINE t == m_WaveIDs
           u == [t EXCEPT ![i] = NoWave]
<1> USE DEF Inv, loaderVars, readVars
<1>1. t \in Tables /\ i \in SlotsOf(t)
  BY DEF TableInv, DeleteWaveFile, IsWaveID, SlotsOf
<1>2. /\ u \in Tables
      /\ \A j \in WaveIDs \ {i} : u[j] = t[j]
      /\ SlotsOf(u) = SlotsOf(t) \ {i}
      /\ StreamsOf(u) = StreamsOf(t) \ {i}
      /\ i \in StreamsOf(t) <=> t[i].pFile
  <2> HIDE DEF t
  <2> QED
    BY <1>1, DeleteFacts, Zenon
<1>3. /\ m_WaveIDs' = u
      /\ handles' = handles - ClosedByDelete(i)
      /\ owned' = {o \in owned : o.id # i}
      /\ UNCHANGED <<leaky, readVars>>
  BY DEF DeleteWaveFile
<1> HIDE DEF u
<1>4. TableInv'
  BY <1>2, <1>3 DEF TableInv
<1>5. HandleInv'
  <2> DEFINE c == Cardinality(StreamsOf(t))
             d == Cardinality(StreamsOf(u))
  <2>1. IsFiniteSet(StreamsOf(t)) /\ c \in Nat /\ d \in Nat
    BY <1>1, <1>2, SlotFacts
  <2>2. d = c - ClosedByDelete(i) /\ ClosedByDelete(i) \in {0, 1}
    <3>1. ClosedByDelete(i) = IF i \in StreamsOf(t) THEN 1 ELSE 0
      BY <1>2 DEF ClosedByDelete
    <3>2. d = IF i \in StreamsOf(t) THEN c - 1 ELSE c
      BY <1>2, <2>1, FS_RemoveElement
    <3> HIDE DEF c, d
    <3> QED
      BY <2>1, <3>1, <3>2
  <2>3. handles \in 0 .. FOPEN_MAX /\ leaky \in BOOLEAN /\ handles >= c /\ (~leaky => handles = c)
        /\ FOPEN_MAX \in Nat
    BY WavesAssumption DEF HandleInv
  <2>4. handles' \in 0 .. FOPEN_MAX /\ leaky' \in BOOLEAN /\ handles' >= d
        /\ (~leaky' => handles' = d)
    <3> HIDE DEF c, d
    <3> QED
      BY <1>3, <2>1, <2>2, <2>3
  <2>5. Cardinality(StreamsOf(m_WaveIDs))' = d
    BY <1>3
  <2> QED
    BY <2>4, <2>5 DEF HandleInv
<1>6. OwnerInv'
  <2>1. SlotsOf(u) = {o.id : o \in owned'}
    BY <1>2, <1>3 DEF OwnerInv
  <2>2. ASSUME NEW o \in owned' PROVE u[o.id].file = o.file
    <3>1. o \in owned /\ o.id # i /\ o.id \in WaveIDs /\ t[o.id].file = o.file
      BY <1>3 DEF OwnerInv
    <3> QED
      BY <1>2, <3>1
  <2> QED
    BY <1>3, <2>1, <2>2 DEF OwnerInv
<1>7. LoaderInv'
  BY DEF LoaderInv
<1>8. ReadInv'
  <2>1. ASSUME ~misused, NEW j \in StreamsOf(u) PROVE Settled(u[j])
    <3>1. j \in StreamsOf(t) /\ j \in WaveIDs /\ j # i
      BY <1>1, <1>2, SlotFacts
    <3> QED
      BY <1>2, <2>1, <3>1 DEF ReadInv
  <2> QED
    BY <1>3, <2>1 DEF ReadInv
<1> QED
  BY <1>4, <1>5, <1>6, <1>7, <1>8

LEMMA DestroyKeepsInv ==
  ASSUME Inv, Destroy, UNCHANGED loaderVars
  PROVE  Inv'
<1> USE DEF Inv, loaderVars, readVars
<1>1. /\ m_WaveIDs' = EmptyTable
      /\ handles' = handles - Cardinality(StreamsOf(m_WaveIDs))
      /\ owned' = {} /\ UNCHANGED <<leaky, readVars>>
  BY BothAreTables DEF Destroy
<1>2. TableInv'
  BY <1>1, EmptyFacts DEF TableInv
<1>3. HandleInv'
  <2> DEFINE c == Cardinality(StreamsOf(m_WaveIDs))
  <2>1. c \in Nat
    BY SlotFacts DEF TableInv
  <2>2. handles \in 0 .. FOPEN_MAX /\ leaky \in BOOLEAN /\ handles >= c /\ (~leaky => handles = c)
        /\ FOPEN_MAX \in Nat /\ handles' = handles - c /\ leaky' = leaky
    BY <1>1, WavesAssumption DEF HandleInv
  <2>3. handles' \in 0 .. FOPEN_MAX /\ leaky' \in BOOLEAN /\ handles' >= 0
        /\ (~leaky' => handles' = 0)
    <3> HIDE DEF c
    <3> QED
      BY <2>1, <2>2
  <2>4. Cardinality(StreamsOf(m_WaveIDs))' = 0
    BY <1>1, EmptyFacts
  <2> QED
    BY <2>3, <2>4 DEF HandleInv
<1>4. OwnerInv'
  BY <1>1, EmptyFacts DEF OwnerInv
<1>5. LoaderInv'
  BY DEF LoaderInv
<1>6. ReadInv'
  BY <1>1, EmptyFacts DEF ReadInv
<1> QED
  BY <1>2, <1>3, <1>4, <1>5, <1>6

-------------------------------------------------------------------------------
(* The framework's steps. *)

LEMMA ALFWInitKeepsInv ==
  ASSUME Inv, ALFWInit
  PROVE  Inv'
<1> USE DEF Inv, ALFWInit, wavesVars, tableVars, readVars
<1>1. TableInv'
  BY EmptyFacts DEF TableInv
<1>2. HandleInv'
  BY DEF HandleInv
<1>3. OwnerInv'
  BY DEF OwnerInv
<1>4. LoaderInv'
  BY EmptyFacts DEF LoaderInv
<1>5. ReadInv'
  BY DEF ReadInv
<1> QED
  BY <1>1, <1>2, <1>3, <1>4, <1>5

LEMMA SameCardinality == \A S : Loader!Cardinality(S) = Cardinality(S)
BY Zenon DEF Loader!Cardinality, Cardinality

(* The loader has no open file to close. *)
LEMMA ALFWShutdownKeepsInv ==
  ASSUME Inv, ALFWShutdown
  PROVE  Inv'
<1> USE DEF Inv, ALFWShutdown, programVars, readVars
<1>1. /\ loaderIDs' = EmptyTable
      /\ handles' = handles - Cardinality(StreamsOf(loaderIDs))
      /\ UNCHANGED <<leaky, misused, strayed>>
  BY BothAreTables, SameCardinality DEF Loader!Destroy, Loader!readVars
<1>2. handles' = handles
  BY <1>1, FS_EmptySet DEF TableInv, HandleInv
<1>3. TableInv'
  BY <1>1, EmptyFacts DEF TableInv
<1>4. HandleInv'
  BY <1>1, <1>2 DEF HandleInv
<1>5. OwnerInv'
  BY DEF OwnerInv
<1>6. LoaderInv'
  BY <1>1, EmptyFacts DEF LoaderInv
<1>7. ReadInv'
  BY <1>1 DEF ReadInv
<1> QED
  BY <1>3, <1>4, <1>5, <1>6, <1>7

(* The slot that a refused format leaves behind. *)
LEMMA BufferRefusedKeepsInv ==
  ASSUME Inv, NEW f \in WaveFiles, BufferRefused(f), UNCHANGED <<g_pWaveLoader, programVars>>
  PROVE  Inv'
<1> DEFINE t == loaderIDs
           i == FreeIn(loaderIDs)
           w == [file |-> f, pFile |-> FALSE, pos |-> 0]
           u == [t EXCEPT ![i] = w]
<1> USE DEF Inv, programVars, readVars
<1>1. t \in Tables /\ i \in WaveIDs /\ i \notin SlotsOf(t)
  BY BothAreTables, FreeFacts DEF TableInv, BufferRefused, Loader!Loaded, Loader!TableFull
<1>2. w \in WaveInfo /\ w.pFile = FALSE
  BY DEF WaveInfo
<1>3. loaderIDs' = u /\ refused' = refused + 1 /\ UNCHANGED <<handles, leaky, misused, strayed>>
  BY BothAreTables DEF BufferRefused, Loader!Loaded, Loader!Insert, Loader!readVars
<1> HIDE DEF w
<1>4. /\ u \in Tables /\ SlotsOf(u) = SlotsOf(t) \cup {i}
      /\ StreamsOf(u) = StreamsOf(t)
  <2>1. /\ u \in Tables /\ u[i] = w
        /\ \A j \in WaveIDs \ {i} : u[j] = t[j]
        /\ SlotsOf(u) = SlotsOf(t) \cup {i}
        /\ StreamsOf(u) = IF w.pFile THEN StreamsOf(t) \cup {i} ELSE StreamsOf(t)
        /\ i \notin StreamsOf(t)
    <3> HIDE DEF i, t
    <3> QED
      BY <1>1, <1>2, InsertFacts, Zenon
  <2> QED
    BY <1>2, <2>1
<1> HIDE DEF i, u
<1>5. TableInv'
  BY <1>3, <1>4 DEF TableInv
<1>6. HandleInv'
  BY <1>3 DEF HandleInv
<1>7. OwnerInv'
  BY DEF OwnerInv
<1>8. LoaderInv'
  <2> DEFINE c == Cardinality(SlotsOf(t))
             d == Cardinality(SlotsOf(u))
  <2>1. IsFiniteSet(SlotsOf(t)) /\ c \in Nat
    BY <1>1, SlotFacts
  <2>2. d = c + 1
    BY <1>1, <1>4, <2>1, FS_AddElement
  <2>3. refused' \in Nat /\ refused' = d
    <3>1. refused \in Nat /\ c = refused
      BY DEF LoaderInv
    <3> HIDE DEF c, d
    <3> QED
      BY <1>3, <2>2, <3>1
  <2>4. Cardinality(SlotsOf(loaderIDs))' = d
    BY <1>3
  <2> QED
    BY <2>3, <2>4 DEF LoaderInv
<1>9. ReadInv'
  BY <1>3 DEF ReadInv
<1> QED
  BY <1>5, <1>6, <1>7, <1>8, <1>9

LEMMA LoaderFailsKeepsInv ==
  ASSUME Inv, NEW f \in WaveFiles, Loader!LoadFails(f),
         UNCHANGED <<g_pWaveLoader, refused, programVars>>
  PROVE  Inv'
<1>1. CASE Loader!ParseFails(f)
  <2>1. Loader!LeftOpenByParse(f) = LeftOpenByParse(f)
    BY DEF Loader!LeftOpenByParse, LeftOpenByParse, Loader!Opens, Opens
  <2>2. ParseFails(f) /\ UNCHANGED loaderVars
    BY <1>1, <2>1 DEF Loader!ParseFails, ParseFails, Loader!readVars, readVars,
         loaderVars, programVars
  <2> QED
    BY <2>2, ParseFailsKeepsInv
<1>2. CASE UNCHANGED <<loaderIDs, handles, leaky, readVars>>
  BY <1>2, StutterKeepsInv DEF vars, loaderVars, wavesVars, tableVars, programVars
<1> QED
  BY <1>1, <1>2 DEF Loader!LoadFails, Loader!readVars, readVars

LEMMA ALFWLoadKeepsInv ==
  ASSUME Inv, NEW f \in WaveFiles, ALFWLoadWaveToBuffer(f)
  PROVE  Inv'
<1>1. CASE BufferFilled(f)
  BY <1>1, StutterKeepsInv
     DEF BufferFilled, ALFWLoadWaveToBuffer, vars, loaderVars, wavesVars, tableVars, programVars
<1>2. CASE BufferRefused(f)
  BY <1>2, BufferRefusedKeepsInv DEF ALFWLoadWaveToBuffer
<1>3. CASE Loader!LoadFails(f) /\ UNCHANGED refused
  BY <1>3, LoaderFailsKeepsInv DEF ALFWLoadWaveToBuffer
<1> QED
  BY <1>1, <1>2, <1>3 DEF ALFWLoadWaveToBuffer

-------------------------------------------------------------------------------
(* The program's own calls. *)

LEMMA WaveCallKeepsInv ==
  ASSUME Inv, WaveCall
  PROVE  Inv'
<1>1. UNCHANGED loaderVars
  BY DEF WaveCall
<1>2. CASE \E f \in WaveFiles : LoadWaveFile(f) \/ OpenWaveFile(f)
  BY <1>1, <1>2, LoadKeepsInv, OpenKeepsInv
<1>3. ASSUME NEW o \in owned, NEW n \in ReadSizes, ReadWaveData(o.id, n) PROVE Inv'
  BY <1>1, <1>3, ReadKeepsInv
<1>4. ASSUME NEW o \in owned, NEW offset \in Offsets, SetWaveDataOffset(o.id, offset) PROVE Inv'
  BY <1>1, <1>4, SeekKeepsInv
<1>5. ASSUME NEW o \in owned, DeleteWaveFile(o.id) PROVE Inv'
  <2>1. o.id \in WaveIDs
    BY DEF Inv, OwnerInv
  <2> QED
    BY <1>1, <1>5, <2>1, DeleteKeepsInv
<1>6. CASE Destroy
  BY <1>1, <1>6, DestroyKeepsInv
<1> QED
  BY <1>2, <1>3, <1>4, <1>5, <1>6 DEF WaveCall

-------------------------------------------------------------------------------
(* What follows for the specification. *)

LEMMA Invariant == Spec => []Inv
<1>1. Init => Inv
  BY InitInv
<1>2. Inv /\ [Next]_vars => Inv'
  BY StutterKeepsInv, ALFWInitKeepsInv, ALFWShutdownKeepsInv, ALFWLoadKeepsInv, WaveCallKeepsInv
     DEF Next
<1> QED
  BY <1>1, <1>2, PTL DEF Spec

(* Every variable keeps its type; in particular no file is closed twice,    *)
(* which would take the number of open files below zero.                    *)
THEOREM TypeCorrect == Spec => []TypeOK
BY Invariant, InvImplies, PTL

(* Every open FILE is referred to by a table, except after the calls that   *)
(* forget one, and every FILE that a table refers to is open.               *)
THEOREM HandlesCorrect == Spec => []HandlesBalanced
BY Invariant, InvImplies, PTL

(* An id that a caller holds refers to its file until the caller deletes    *)
(* it: no insertion finds a taken slot free.                                *)
THEOREM OwnersCorrect == Spec => []OwnersKeepTheirFiles
BY Invariant, InvImplies, PTL

(* ReadWaveData gives out audio data only, and no more than it was asked    *)
(* for, unless an offset beyond the data was set or a size was asked for    *)
(* with which the sum in the clamp wraps.                                   *)
THEOREM ReadsCorrect == Spec => []ReadsStayInData
BY Invariant, InvImplies, PTL

(* The slots in use are those of the program's ids and those of the         *)
(* framework's refused buffer loads.                                        *)
THEOREM SlotsCorrect == Spec => []SlotsAccountedFor
BY Invariant, InvImplies, PTL
================================================================================
