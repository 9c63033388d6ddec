----------------------------- MODULE SqliteDB_proofs ---------------------------
(***************************************************************************)
(* Proofs about SqliteDB, for any set of threads, any files and any number *)
(* of calls.                                                               *)
(***************************************************************************)
EXTENDS SqliteDB, TLAPS

(***************************************************************************)
(* Type correctness.  That the constructor runs in one thread needs the    *)
(* guard to be exactly the set of threads that are in it.                  *)
(***************************************************************************)
TypeInv == TypeOK /\ guard = {t \in Threads : pc[t] = "constructor"}

LEMMA TypeInit == Init => TypeInv
<1> SUFFICES ASSUME Init PROVE TypeInv
  OBVIOUS
<1>1. TypeOK
  <2>1. inited \in BOOLEAN /\ raced \in BOOLEAN
    BY DEF Init
  <2>2. guard \subseteq Threads /\ \A t, u \in guard : t = u
    BY DEF Init
  <2>3. pc \in [Threads -> {"idle", "check_flag", "set_flag", "enter", "constructor"}]
    BY DEF Init
  <2>4. file \in [Threads -> Files \cup {NoFile}] /\ instence \in Files \cup {NoFile}
    BY DEF Init
  <2>5. outcome \in [Threads -> Outcomes]
    BY DEF Init, Outcomes
  <2>6. calls \in [Threads -> 0 .. MaxCalls]
    BY SqliteAssumption DEF Init
  <2> QED
    BY <2>1, <2>2, <2>3, <2>4, <2>5, <2>6 DEF TypeOK
<1>2. guard = {t \in Threads : pc[t] = "constructor"}
  <2>1. \A t \in Threads : pc[t] = "idle"
    BY DEF Init
  <2> QED
    BY <2>1 DEF Init
<1> QED
  BY <1>1, <1>2 DEF TypeInv

LEMMA TypeStep == TypeInv /\ [Next]_vars => TypeInv'
<1> SUFFICES ASSUME TypeInv, [Next]_vars PROVE TypeInv'
  OBVIOUS
<1> USE DEF TypeInv, TypeOK, Outcomes
<1>1. ASSUME NEW t \in Threads, CallInit(t) PROVE TypeInv'
  BY <1>1, SqliteAssumption DEF CallInit, call, goto
<1>2. ASSUME NEW t \in Threads, CallUse(t) PROVE TypeInv'
  BY <1>2, SqliteAssumption DEF CallUse, call, goto
<1>3. ASSUME NEW t \in Threads, CheckFlag(t) PROVE TypeInv'
  BY <1>3 DEF CheckFlag, return, goto
<1>4. ASSUME NEW t \in Threads, SetFlag(t) PROVE TypeInv'
  BY <1>4 DEF SetFlag, goto
<1>5. ASSUME NEW t \in Threads, Exists(t) PROVE TypeInv'
  BY <1>5 DEF Exists, return, goto, Result
<1>6. ASSUME NEW t \in Threads, Construct(t) PROVE TypeInv'
  BY <1>6 DEF Construct, goto
<1>7. ASSUME NEW t \in Threads, Constructor(t) PROVE TypeInv'
  BY <1>7 DEF Constructor, CanOpen, return, goto, Result
<1>8. CASE UNCHANGED vars
  BY <1>8 DEF vars
<1> QED
  BY <1>1, <1>2, <1>3, <1>4, <1>5, <1>6, <1>7, <1>8 DEF Next, Step

(* Every variable keeps its type, and one thread at a time runs the         *)
(* constructor of the function-local static.                                *)
THEOREM TypeCorrect == Spec => []TypeOK
<1>1. TypeInv => TypeOK
  BY DEF TypeInv
<1> QED
  BY <1>1, TypeInit, TypeStep, PTL DEF Spec

LEMMA TypeAlways == Spec => []TypeInv
BY TypeInit, TypeStep, PTL DEF Spec

(***************************************************************************)
(* The instance.                                                           *)
(***************************************************************************)
InstanceInv ==
  /\ guard # {} => instence = NoFile
  /\ UsesAreOfAnOpenDatabase

LEMMA InstanceStep ==
  TypeInv /\ TypeInv' /\ InstanceInv /\ [Next]_vars => InstanceInv'
<1> SUFFICES ASSUME TypeInv, TypeInv', InstanceInv, [Next]_vars PROVE InstanceInv'
  OBVIOUS
<1> USE DEF TypeInv, TypeOK, InstanceInv, UsesAreOfAnOpenDatabase
<1>1. ASSUME NEW t \in Threads, CallInit(t) PROVE InstanceInv'
  BY <1>1 DEF CallInit, call, goto
<1>2. ASSUME NEW t \in Threads, CallUse(t) PROVE InstanceInv'
  BY <1>2 DEF CallUse, call, goto
<1>3. ASSUME NEW t \in Threads, CheckFlag(t) PROVE InstanceInv'
  BY <1>3 DEF CheckFlag, return, goto
<1>4. ASSUME NEW t \in Threads, SetFlag(t) PROVE InstanceInv'
  BY <1>4 DEF SetFlag, goto
<1>5. ASSUME NEW t \in Threads, Exists(t) PROVE InstanceInv'
  BY <1>5 DEF Exists, return, goto
<1>6. ASSUME NEW t \in Threads, Construct(t) PROVE InstanceInv'
  BY <1>6 DEF Construct, goto
<1>7. ASSUME NEW t \in Threads, Constructor(t) PROVE InstanceInv'
  BY <1>7, SqliteAssumption DEF Constructor, CanOpen, return, goto
<1>8. CASE UNCHANGED vars
  BY <1>8 DEF vars
<1> QED
  BY <1>1, <1>2, <1>3, <1>4, <1>5, <1>6, <1>7, <1>8 DEF Next, Step

LEMMA InstanceInit == Init => InstanceInv
BY DEF Init, InstanceInv, UsesAreOfAnOpenDatabase

LEMMA InstanceAlways == Spec => []InstanceInv
BY TypeAlways, InstanceInit, InstanceStep, PTL DEF Spec

(* No call gets past getInstence before a database file was opened.         *)
THEOREM UsesCorrect == Spec => []UsesAreOfAnOpenDatabase
<1>1. InstanceInv => UsesAreOfAnOpenDatabase
  BY DEF InstanceInv
<1> QED
  BY <1>1, InstanceAlways, PTL

(* Once there is an instance it is never replaced and no call throws.       *)
THEOREM FinalCorrect == Spec => InstenceIsFinal
<1> DEFINE Final == instence # NoFile =>
               /\ instence' = instence
               /\ \A t \in Threads : outcome'[t] = "threw" => outcome[t] = "threw"
<1>1. ASSUME TypeInv, InstanceInv, [Next]_vars PROVE Final
  <2> SUFFICES ASSUME instence # NoFile
               PROVE  /\ instence' = instence
                      /\ \A t \in Threads : outcome'[t] = "threw" => outcome[t] = "threw"
    OBVIOUS
  <2> USE DEF TypeInv, TypeOK
  <2>1. guard = {}
    BY <1>1 DEF InstanceInv
  <2>2. ASSUME NEW t \in Threads, CallInit(t) \/ CallUse(t) PROVE Final
    BY <1>1, <2>2 DEF CallInit, CallUse, call
  <2>3. ASSUME NEW t \in Threads, CheckFlag(t) \/ SetFlag(t) PROVE Final
    BY <1>1, <2>3 DEF CheckFlag, SetFlag, return, goto
  <2>4. ASSUME NEW t \in Threads, Exists(t) \/ Construct(t) PROVE Final
    BY <1>1, <2>4 DEF Exists, Construct, return, goto, Result
  <2>5. ASSUME NEW t \in Threads, Constructor(t) PROVE FALSE
    BY <1>1, <2>1, <2>5 DEF Constructor, return, goto
  <2>6. CASE UNCHANGED vars
    BY <2>6 DEF vars
  <2> QED
    BY <1>1, <2>2, <2>3, <2>4, <2>5, <2>6 DEF Next, Step
<1>2. TypeInv /\ InstanceInv /\ [Next]_vars => [Final]_vars
  BY <1>1
<1> QED
  BY <1>2, TypeAlways, InstanceAlways, PTL DEF Spec, InstenceIsFinal

(***************************************************************************)
(* Which file is opened.  Passed(t): t found the flag unset and has not    *)
(* returned yet.  As long as no two threads were about to set the flag at  *)
(* the same time, one thread at most has ever passed, and the instance is  *)
(* its own to create: every other thread in the constructor has no file.   *)
(***************************************************************************)
Passed(t) ==
  \/ pc[t] = "set_flag"
  \/ pc[t] \in {"enter", "constructor"} /\ file[t] # NoFile

FlagInv ==
  /\ ~inited =>
       /\ instence = NoFile
       /\ \A t \in Threads : Passed(t) => pc[t] = "set_flag"
  /\ ~raced =>
       /\ \A t \in Threads : pc[t] = "set_flag" => ~inited
       /\ \A t, u \in Threads : Passed(t) /\ Passed(u) => t = u
       /\ \A t \in Threads : Passed(t) => instence = NoFile

FileInv == FlagInv /\ InitOpensItsFile

LEMMA FileInit == Init => FileInv
BY DEF Init, FileInv, FlagInv, Passed, InitOpensItsFile

LEMMA FileStep ==
  TypeInv /\ InstanceInv /\ FileInv /\ [Next]_vars => FileInv'
<1> SUFFICES ASSUME TypeInv, InstanceInv, FileInv, [Next]_vars PROVE FileInv'
  OBVIOUS
<1> USE DEF TypeInv, TypeOK, FileInv, FlagInv, Passed, InitOpensItsFile
<1>1. ASSUME NEW t \in Threads, CallInit(t) PROVE FileInv'
  BY <1>1 DEF CallInit, call, goto
<1>2. ASSUME NEW t \in Threads, CallUse(t) PROVE FileInv'
  <2>1. /\ pc' = [pc EXCEPT ![t] = "enter"] /\ file' = [file EXCEPT ![t] = NoFile]
        /\ outcome' = [outcome EXCEPT ![t] = "none"]
        /\ UNCHANGED <<inited, guard, instence, raced>>
    BY <1>2 DEF CallUse, call, goto
  <2>2. \A u \in Threads : Passed(u)' => Passed(u) /\ u # t /\ pc'[u] = pc[u]
    BY <2>1
  <2>3. FlagInv'
    BY <2>1, <2>2
  <2>4. InitOpensItsFile'
    BY <2>1
  <2> QED
    BY <2>3, <2>4
<1>3. ASSUME NEW t \in Threads, CheckFlag(t) PROVE FileInv'
  <2>1. CASE inited
    BY <1>3, <2>1 DEF CheckFlag, return, goto
  <2>2. CASE ~inited
    <3>1. /\ pc[t] = "check_flag" /\ pc' = [pc EXCEPT ![t] = "set_flag"]
          /\ raced' = (raced \/ \E u \in Threads : pc[u] = "set_flag")
          /\ UNCHANGED <<inited, guard, instence, file, outcome>>
      BY <1>3, <2>2 DEF CheckFlag, goto
    <3>2. \A u \in Threads : Passed(u)' => u = t \/ (Passed(u) /\ pc'[u] = pc[u])
      BY <3>1
    <3>3. ~raced' => \A u \in Threads : Passed(u)' => u = t
      BY <2>2, <3>1, <3>2
    <3>4. FlagInv'
      BY <2>2, <3>1, <3>2, <3>3
    <3>5. InitOpensItsFile'
      BY <3>1
    <3> QED
      BY <3>4, <3>5
  <2> QED
    BY <2>1, <2>2
<1>4. ASSUME NEW t \in Threads, SetFlag(t) PROVE FileInv'
  BY <1>4 DEF SetFlag, goto
<1>5. ASSUME NEW t \in Threads, Exists(t) PROVE FileInv'
  BY <1>5 DEF Exists, return, goto, Result
<1>6. ASSUME NEW t \in Threads, Construct(t) PROVE FileInv'
  BY <1>6 DEF Construct, goto
<1>7. ASSUME NEW t \in Threads, Constructor(t) PROVE FileInv'
  BY <1>7, SqliteAssumption
  DEF Constructor, CanOpen, return, goto, Result, InstanceInv, UsesAreOfAnOpenDatabase
<1>8. CASE UNCHANGED vars
  BY <1>8 DEF vars
<1> QED
  BY <1>1, <1>2, <1>3, <1>4, <1>5, <1>6, <1>7, <1>8 DEF Next, Step

(* Without a race past the flag, an init that reports success has opened    *)
(* the file it was given.                                                   *)
THEOREM InitCorrect == Spec => []InitOpensItsFile
<1>1. FileInv => InitOpensItsFile
  BY DEF FileInv
<1> QED
  BY <1>1, TypeAlways, InstanceAlways, FileInit, FileStep, PTL DEF Spec
===============================================================================
