-------------------------------- MODULE SqliteDB -------------------------------
(***************************************************************************)
(* The SqliteDB class (include/seeker/database.h): a process-wide database *)
(* handle, created by the first getInstence call that succeeds.  init(file)*)
(* is meant to be that call; perpare, exec and lastInsertRowid call        *)
(* getInstence() without a file.  Any thread may make any of these calls.  *)
(*                                                                         *)
(* getInstence holds a function-local static: the language lets one thread *)
(* run its constructor while the others wait, and lets the next one try    *)
(* when the constructor throws.  init's own flag has no such protection,   *)
(* so reading and writing it are separate steps.                           *)
(***************************************************************************)
EXTENDS Naturals

CONSTANTS
  Threads,   (* the process's threads                                       *)
  Files,     (* database files that init is called with                     *)
  NoFile,    (* the empty file name, getInstence's default                  *)
  MaxCalls   (* bound: calls that each thread makes                         *)

ASSUME SqliteAssumption ==
  /\ NoFile \notin Files
  /\ MaxCalls \in Nat

VARIABLES
  inited,    (* the static flag in init                                     *)
  guard,     (* the threads that run instence's constructor                 *)
  instence,  (* the file of the constructed instance, or NoFile             *)
  pc,        (* where each thread is                                        *)
  file,      (* the file that its call was given                            *)
  outcome,   (* how its last call ended                                     *)
  calls,     (* calls it has made                                           *)
  raced      (* history: a thread found the flag unset while another one    *)
             (* was about to set it                                         *)

vars == <<inited, guard, instence, pc, file, outcome, calls, raced>>

Outcomes == {"none", "opened", "skipped", "used", "threw"}

Init ==
  /\ inited = FALSE
  /\ guard = {}
  /\ instence = NoFile
  /\ pc = [t \in Threads |-> "idle"]
  /\ file = [t \in Threads |-> NoFile]
  /\ outcome = [t \in Threads |-> "none"]
  /\ calls = [t \in Threads |-> 0]
  /\ raced = FALSE

goto(t, from, to) == pc[t] = from /\ pc' = [pc EXCEPT ![t] = to]

return(t, from, result) ==
  /\ goto(t, from, "idle")
  /\ outcome' = [outcome EXCEPT ![t] = result]

call(t, to, f) ==
  /\ goto(t, "idle", to)
  /\ calls[t] < MaxCalls
  /\ calls' = [calls EXCEPT ![t] = @ + 1]
  /\ file' = [file EXCEPT ![t] = f]
  /\ outcome' = [outcome EXCEPT ![t] = "none"]
  /\ UNCHANGED <<inited, guard, instence, raced>>

-------------------------------------------------------------------------------
(* init(file) *)

CallInit(t) == \E f \in Files : call(t, "check_flag", f)

CheckFlag(t) ==
  /\ \/ /\ inited
        /\ return(t, "check_flag", "skipped")
        /\ UNCHANGED raced
     \/ /\ ~inited
        /\ goto(t, "check_flag", "set_flag")
        /\ raced' = (raced \/ \E u \in Threads : pc[u] = "set_flag")
        /\ UNCHANGED outcome
  /\ UNCHANGED <<inited, guard, instence, file, calls>>

(* Mutant: the flag is never set. *)
SetFlagForgotten(t) ==
  /\ goto(t, "set_flag", "enter")
  /\ UNCHANGED <<inited, guard, instence, file, outcome, calls, raced>>

(* The flag is set before the database is opened. *)
SetFlag(t) ==
  /\ goto(t, "set_flag", "enter")
  /\ inited' = TRUE
  /\ UNCHANGED <<guard, instence, file, outcome, calls, raced>>

-------------------------------------------------------------------------------
(* perpare, exec, lastInsertRowid, getInsertMutex: what these do with the   *)
(* instance, a throw for bad SQL among it, is a use of it like any other.   *)
CallUse(t) == call(t, "enter", NoFile)

(* getInstence(file) *)

Result(t) == IF file[t] = NoFile THEN "used" ELSE "opened"

(* The instance is there: the file is not looked at. *)
Exists(t) ==
  /\ instence # NoFile
  /\ return(t, "enter", Result(t))
  /\ UNCHANGED <<inited, guard, instence, file, calls, raced>>

(* Mutant: an unprotected static. *)
ConstructUnguarded(t) ==
  /\ instence = NoFile
  /\ goto(t, "enter", "constructor")
  /\ guard' = guard \cup {t}
  /\ UNCHANGED <<inited, instence, file, outcome, calls, raced>>

(* One thread at a time runs the constructor. *)
Construct(t) ==
  /\ instence = NoFile
  /\ guard = {}
  /\ goto(t, "enter", "constructor")
  /\ guard' = {t}
  /\ UNCHANGED <<inited, instence, file, outcome, calls, raced>>

(* Mutant: the constructor does not mind an empty name (to SQLite that is a *)
(* temporary database).                                                     *)
CanOpenAny(t) == TRUE

(* The constructor throws on an empty name. *)
CanOpen(t) == file[t] # NoFile

(* Mutant: a constructor that throws keeps the static reserved. *)
ConstructorKeepsGuard(t) ==
  /\ \/ /\ CanOpen(t)
        /\ instence' = file[t]
        /\ guard' = guard \ {t}
        /\ return(t, "constructor", Result(t))
     \/ UNCHANGED <<instence, guard>> /\ return(t, "constructor", "threw")
  /\ UNCHANGED <<inited, file, calls, raced>>

Constructor(t) ==
  /\ \/ CanOpen(t) /\ instence' = file[t] /\ return(t, "constructor", Result(t))
     \/ UNCHANGED instence /\ return(t, "constructor", "threw")
  /\ guard' = guard \ {t}
  /\ UNCHANGED <<inited, file, calls, raced>>

-------------------------------------------------------------------------------
Step(t) ==
  \/ CheckFlag(t) \/ SetFlag(t)
  \/ Exists(t) \/ Construct(t) \/ Constructor(t)

Next == \E t \in Threads : CallInit(t) \/ CallUse(t) \/ Step(t)

Spec == Init /\ [][Next]_vars

(* A thread that is in a call goes on with it. *)
FairSpec == Spec /\ \A t \in Threads : WF_vars(Step(t))

-------------------------------------------------------------------------------
(* Every variable keeps its type, and the constructor runs in one thread.   *)
TypeOK ==
  /\ inited \in BOOLEAN
  /\ guard \subseteq Threads
  /\ \A t, u \in guard : t = u
  /\ instence \in Files \cup {NoFile}
  /\ pc \in [Threads -> {"idle", "check_flag", "set_flag", "enter", "constructor"}]
  /\ file \in [Threads -> Files \cup {NoFile}]
  /\ outcome \in [Threads -> Outcomes]
  /\ calls \in [Threads -> 0 .. MaxCalls]
  /\ raced \in BOOLEAN

(* No statement runs before a database file was opened, however the threads *)
(* interleave: a call that returned normally after getInstence finds the    *)
(* instance in place.                                                       *)
UsesAreOfAnOpenDatabase ==
  \A t \in Threads : outcome[t] \in {"used", "opened"} => instence # NoFile

(* The handle lasts: once there is an instance, no call makes another, and  *)
(* getInstence throws no more.                                              *)
InstenceIsFinal ==
  [][instence # NoFile =>
       /\ instence' = instence
       /\ \A t \in Threads : outcome'[t] = "threw" => outcome[t] = "threw"]_vars

(* Unless two threads raced past init's flag, an init that reports success  *)
(* has opened the very file it was given: a later one does not pretend to,  *)
(* and no other call can have created the instance before it.               *)
InitOpensItsFile ==
  ~raced =>
    \A t \in Threads : outcome[t] = "opened" => instence = file[t]

(* Every call returns: nobody waits for the static for ever, also when the  *)
(* thread that had it threw.                                                *)
CallsReturn == \A t \in Threads : pc[t] # "idle" ~> pc[t] = "idle"

(* What init's message says: "Database has been inited before, do nothing." *)
(* An init that was skipped finds the database inited.                      *)
SkippedMeansInited ==
  \A t \in Threads : outcome[t] = "skipped" => instence # NoFile
===============================================================================
