------------------------- MODULE FileAppenderProofs -------------------------
(***************************************************************************)
(* Theorems about FileAppender, for any files and any behaviour of the     *)
(* world.  The invariant says of a stream that can be written into that    *)
(* exists has not found its file missing since it was connected.           *)
(***************************************************************************)
EXTENDS FileAppender, TLAPS

USE DEF TypeOK, OrphanInv, IInv, vars, world, stream, observed

LEMMA InitHolds == Init => IInv
BY FileAppenderAssumption DEF Init

LEMMA StepHolds == IInv /\ [Next]_vars => IInv'
<1> SUFFICES ASSUME IInv, [Next]_vars PROVE IInv'
  OBVIOUS
<1> USE FileAppenderAssumption
<1>a. ASSUME NEW b \in Inodes \cup {NoFile}, Open(b)
      PROVE  /\ disk' \in Inodes \cup {NoFile} /\ buf' \in Inodes \cup {NoFile}
             /\ bad' \in BOOLEAN /\ told' \in BOOLEAN /\ late' \in BOOLEAN
             /\ bad' \/ (~told' /\ disk' # NoFile)
  <2>1. CASE /\ disk' \in IF disk = NoFile THEN Inodes ELSE {disk}
             /\ buf' = disk' /\ bad' = FALSE /\ told' = FALSE /\ late' = FALSE
    BY <2>1
  <2>2. CASE /\ buf' = b /\ bad' = TRUE /\ UNCHANGED <<disk, observed>>
    BY <2>2
  <2> QED BY <1>a, <2>1, <2>2 DEF Open
<1>1. CASE LogCall
  <2>1. UNCHANGED <<openable, full, fate>> /\ pc' = "exists"
    BY <1>1 DEF LogCall
  <2>2. CASE Open(buf)
    BY <1>a, <2>1, <2>2
  <2>3. CASE UNCHANGED <<disk, stream, observed>> /\ ~bad
    <3>1. pc = "idle"
      BY <1>1 DEF LogCall
    <3> QED BY <2>1, <2>3, <3>1
  <2> QED BY <1>1, <2>2, <2>3 DEF LogCall
<1>2. CASE Exists
  BY <1>2 DEF Exists
<1>3. CASE Reopen
  <2>1. UNCHANGED <<openable, full, fate>> /\ pc' = "write"
    BY <1>3 DEF Reopen
  <2>2. PICK b \in Inodes \cup {NoFile} : Open(b)
    BY <1>3 DEF Reopen
  <2> QED BY <1>a, <2>1, <2>2
<1>4. CASE Write
  BY <1>4 DEF Write
<1>5. CASE Delete
  BY <1>5 DEF Delete
<1>6. CASE Create
  BY <1>6 DEF Create
<1>7. CASE Forbid \/ Fill
  <2>1. UNCHANGED <<disk, stream, pc, fate, observed>> /\ openable' \in BOOLEAN /\ full' \in BOOLEAN
    BY <1>7 DEF Forbid, Fill
  <2>2. TypeOK'
    BY <2>1
  <2>3. OrphanInv'
    BY <2>1
  <2> QED BY <2>2, <2>3
<1>8. CASE UNCHANGED vars
  BY <1>8
<1> QED
  BY <1>1, <1>2, <1>3, <1>4, <1>5, <1>6, <1>7, <1>8 DEF Next, InCall

\* Types are kept.  FileLogAppender::log comes to its write with a stream whose
\* file exists has not found missing since it was connected, or with one in an
\* error state; and if the file is missing then, it was deleted after the call looked.
THEOREM Invariance == Spec => []IInv
<1>1. Init => IInv
  BY InitHolds
<1>2. IInv /\ [Next]_vars => IInv'
  BY StepHolds
<1> QED
  BY <1>1, <1>2, PTL DEF Spec

\* FileLogAppender::log writes an event into a file that is no longer the one of
\* its name only if no look of exists fell into the time there was none: another
\* file was put in its place between two looks, or it was deleted after the look
\* of this call.
THEOREM OrphansUnseen == Spec => OrphansAreUnseen
<1>1. IInv /\ [Next]_vars =>
        [pc = "write" /\ pc' = "idle" /\ fate' = "orphaned" =>
           ~told /\ (disk = NoFile => late)]_vars
  <2> SUFFICES ASSUME IInv, Next, pc = "write", pc' = "idle", fate' = "orphaned"
               PROVE  ~told /\ (disk = NoFile => late)
    OBVIOUS
  <2>1. Write
    BY DEF Next, InCall, LogCall, Exists, Reopen, Delete, Create, Forbid, Fill
  <2> QED BY <2>1 DEF Write
<1> QED
  BY <1>1, Invariance, PTL DEF Spec, OrphansAreUnseen
=============================================================================
