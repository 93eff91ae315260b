---------------------------- MODULE FileAppender ----------------------------
(***************************************************************************)
(* One FileLogAppender, nnysl/log.cpp, its std::ofstream and the file its  *)
(* name stands for, which others may delete, replace or make unwritable    *)
(* at any moment (log rotation, a full disk).                              *)
(*                                                                         *)
(* Logger::log holds the logger's lock around i->log, so an appender that  *)
(* is attached to one logger runs one call at a time; what is interleaved  *)
(* with the steps of a call is the rest of the world.                      *)
(*                                                                         *)
(* The stream is the one of libstdc++: default-constructed it is good but  *)
(* connected to no file; open on a connected stream fails; a successful    *)
(* open clears the error state; a write in an error state does nothing.    *)
(***************************************************************************)
CONSTANTS
  Inodes,     \* files the name may come to stand for; at least three
  NoFile,     \* no file
  World       \* what others do to the file, a subset of AllWorld

AllWorld == {"delete", "create", "forbid", "fill"}

ASSUME FileAppenderAssumption ==
  /\ NoFile \notin Inodes
  /\ \A i, j \in Inodes \cup {NoFile} : \E k \in Inodes : k \notin {i, j}
  /\ World \subseteq AllWorld

VARIABLES
  disk,       \* the file m_filename stands for, or NoFile
  openable,   \* may it be opened (and created, if there is none)?
  full,       \* is there no room to write?
  buf,        \* the file m_filestream is connected to, or NoFile
  bad,        \* is m_filestream in an error state?
  pc,         \* where the call of log stands
  fate,       \* what became of the last event logged (observer)
  told,       \* has exists found no file since the stream was connected? (observer)
  late        \* have others deleted or created the file since the appender last
              \* looked, by exists or by opening it? (observer)

stream   == <<buf, bad>>
world    == <<disk, openable, full>>
observed == <<told, late>>
vars     == <<world, stream, pc, fate, observed>>

TypeOK ==
  /\ disk \in Inodes \cup {NoFile}
  /\ openable \in BOOLEAN
  /\ full \in BOOLEAN
  /\ buf \in Inodes \cup {NoFile}
  /\ bad \in BOOLEAN
  /\ pc \in {"idle", "exists", "reopen", "write"}
  /\ fate \in {"none", "kept", "orphaned", "error"}
  /\ told \in BOOLEAN
  /\ late \in BOOLEAN

\* The constructor stores the name and leaves the stream alone.  There may or
\* may not be a file of that name.
Init ==
  /\ disk \in Inodes \cup {NoFile}
  /\ openable = TRUE
  /\ full = FALSE
  /\ buf = NoFile
  /\ bad = FALSE
  /\ pc = "idle"
  /\ fate = "none"
  /\ told = FALSE
  /\ late = FALSE

-----------------------------------------------------------------------------
(* The stream *)

\* m_filestream.open(m_filename, std::ios::app), on a stream connected to b.
Open(b) ==
  \/ /\ b = NoFile /\ openable
     /\ disk' \in IF disk = NoFile THEN Inodes ELSE {disk}
     /\ buf' = disk'
     /\ bad' = FALSE
     /\ told' = FALSE
     /\ late' = FALSE
  \/ /\ b # NoFile \/ ~openable
     /\ buf' = b
     /\ bad' = TRUE
     /\ UNCHANGED <<disk, observed>>

-----------------------------------------------------------------------------
(* log *)

\* Fault variant: the stream is never opened again after an error.
LogCallNoRetry ==
  /\ pc = "idle"
  /\ pc' = "exists"
  /\ UNCHANGED <<world, stream, fate, observed>>

\* The level lets the event through; a stream in an error state is opened.
LogCall ==
  /\ pc = "idle"
  /\ \/ bad /\ Open(buf)
     \/ ~bad /\ UNCHANGED <<disk, stream, observed>>
  /\ pc' = "exists"
  /\ UNCHANGED <<openable, full, fate>>

\* Fault variant: a missing file is not noticed.
ExistsAlways ==
  /\ pc = "exists"
  /\ pc' = "write"
  /\ told' = (told \/ disk = NoFile)
  /\ late' = FALSE
  /\ UNCHANGED <<world, stream, fate>>

\* exists(m_filename): whether there is a file, not whether it is the one the
\* stream is connected to.
Exists ==
  /\ pc = "exists"
  /\ \/ disk # NoFile /\ pc' = "write"
     \/ disk = NoFile /\ pc' = "reopen"
  /\ told' = (told \/ disk = NoFile)
  /\ late' = FALSE
  /\ UNCHANGED <<world, stream, fate>>

\* A stream in an error state is opened without being closed first.
Reopen ==
  /\ pc = "reopen"
  /\ Open(IF bad THEN buf ELSE NoFile)
  /\ pc' = "write"
  /\ UNCHANGED <<openable, full, fate>>

\* Under m_mutex: the event is formatted into the stream.  While it fits in the
\* stream's buffer the write succeeds even if the disk is full.
Write ==
  /\ pc = "write"
  /\ pc' = "idle"
  /\ \/ /\ ~bad /\ buf # NoFile
        /\ fate' = IF buf = disk THEN "kept" ELSE "orphaned"
        /\ UNCHANGED bad
     \/ /\ bad \/ buf = NoFile \/ full
        /\ fate' = "error"
        /\ bad' = TRUE
  /\ UNCHANGED <<world, buf, observed>>

-----------------------------------------------------------------------------
(* The world *)

Delete ==
  /\ "delete" \in World
  /\ disk # NoFile
  /\ disk' = NoFile
  /\ late' = TRUE
  /\ UNCHANGED <<openable, full, stream, pc, fate, told>>

Create ==
  /\ "create" \in World
  /\ disk = NoFile
  /\ disk' \in Inodes \ {buf}
  /\ late' = TRUE
  /\ UNCHANGED <<openable, full, stream, pc, fate, told>>

Forbid ==
  /\ "forbid" \in World
  /\ openable' = ~openable
  /\ UNCHANGED <<disk, full, stream, pc, fate, observed>>

Fill ==
  /\ "fill" \in World
  /\ full' = ~full
  /\ UNCHANGED <<disk, openable, stream, pc, fate, observed>>

-----------------------------------------------------------------------------
InCall == LogCall \/ Exists \/ Reopen \/ Write

Next == InCall \/ Delete \/ Create \/ Forbid \/ Fill

Spec == Init /\ [][Next]_vars

\* The program keeps logging, and a call that has begun keeps running.
FairSpec == Spec /\ WF_vars(InCall)

-----------------------------------------------------------------------------
(* Properties *)

\* A stream that can be written into is one of whose file exists has not found the
\* name gone since the stream was connected: if it did, the file is opened anew,
\* or the stream is in an error state.  And if there is no file of that name at
\* the write, it was deleted after this call had looked.
OrphanInv ==
  /\ ~bad /\ buf # NoFile /\ pc # "reopen" => ~told
  /\ ~bad /\ buf # NoFile /\ pc = "write" /\ disk = NoFile => late

IInv == TypeOK /\ OrphanInv

\* log writes into a file its name does not stand for only if no look of exists
\* fell into the time that there was no file of that name: it was deleted and
\* another put in its place between two looks, or it was deleted after the look
\* of this very call.  Such an event is gone, and no "error" is printed.
OrphansAreUnseen ==
  [][pc = "write" /\ pc' = "idle" /\ fate' = "orphaned" =>
       ~told /\ (disk = NoFile => late)]_vars

\* The last write failed on a connected stream: from then on open fails too.
Stuck == bad /\ buf # NoFile

\* When the file may be opened again for good, errors come to an end, however
\* often others go on deleting or replacing the file.  (Unless a write failed
\* on a connected stream: that one is never reconnected.)
Recovers ==
  <>[](openable /\ ~Stuck) => <>[](fate # "error")

\* log.h calls FileLogAppender the appender that outputs to a file.  With
\* nobody touching the file, every event should get there.  FALSE of the code:
\* a new stream is good but not connected, so if the file is already there
\* the first event goes nowhere.
EveryEventKept == fate \in {"none", "kept"}
=============================================================================
