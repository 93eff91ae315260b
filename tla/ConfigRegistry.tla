--------------------------- MODULE ConfigRegistry ---------------------------
(***************************************************************************)
(* Config, nnysl/config.h and config.cpp: the map from names to variables, *)
(* its reader-writer lock, and the four ways into it: Lookup with a        *)
(* default (finds or registers), Lookup without, Visit, and LoadFromYaml.  *)
(*                                                                         *)
(* LoadFromYaml finds variables with LookupBase, which takes NO lock.  The *)
(* map is an unordered_map: while another thread is inside an insertion a  *)
(* find is undefined behaviour, here the choice between finding the        *)
(* variable, missing it, and the end of the process.                       *)
(*                                                                         *)
(* A variable is its name, its type and its value; what happens inside     *)
(* setValue is ConfigVar's matter.                                         *)
(***************************************************************************)
EXTENDS Naturals, Sequences

CONSTANTS
  Threads,     \* threads that look variables up
  Loader,      \* the thread that calls LoadFromYaml
  Visitors,    \* threads that call Visit
  Names,       \* names asked for
  ValidNames,  \* those made of a-z 0-9 . _ only
  Types,       \* the T of ConfigVar<T>
  Texts,       \* what a node of the file may hold
  Fits,        \* the pairs <<T, text>> LexicalCast converts
  File,        \* the nodes of the YAML document in the order of the text
  Default,     \* the value a variable is constructed with
  None         \* no variable, no thread, no type

Everyone == Threads \cup Visitors \cup {Loader}

\* A node has the name its path spells, the place of its parent (0: the root),
\* whether the characters it adds to the path are valid, and its text.
ASSUME ConfigRegistryAssumption ==
  /\ ValidNames \subseteq Names
  /\ Fits \subseteq Types \X Texts
  /\ File \in Seq([key : Names, parent : Nat, valid : BOOLEAN, text : Texts])
  /\ \A i \in DOMAIN File : File[i].parent < i
  /\ Default \notin Texts
  /\ Loader \notin Threads \cup Visitors
  /\ None \notin Names \cup Types \cup Everyone
  /\ None \notin Names \X Types

VARIABLES
  m_datas,   \* the type of the variable registered under each name, or None
  m_val,     \* the value of each variable
  rd,        \* threads that hold m_mutex for reading
  wr,        \* the thread that holds it for writing, or None
  inserting, \* is a writer inside the insertion?
  pc,        \* where each thread stands
  want,      \* the name and type a Lookup asks for, or None
  seen,      \* the variables each Visit has called back with
  todo,      \* the nodes LoadFromYaml has yet to come to
  known,     \* the variables registered when it began (observer)
  torn,      \* did it look for a variable during an insertion? (observer)
  crashed    \* the process met undefined behaviour and died

lock == <<rd, wr>>
load == <<todo, known, torn>>
vars == <<m_datas, m_val, lock, inserting, pc, want, seen, load, crashed>>

Registered == {n \in Names : m_datas[n] # None}

TypeOK ==
  /\ m_datas \in [Names -> Types \cup {None}]
  /\ m_val \in [Names -> Texts \cup {Default}]
  /\ rd \subseteq Everyone
  /\ wr \in Everyone \cup {None}
  /\ inserting \in BOOLEAN
  /\ pc \in [Everyone -> {"idle", "lookup", "find", "insert", "visit", "load",
                          "cast", "loaded"}]
  /\ want \in [Everyone -> (Names \X Types) \cup {None}]
  /\ seen \in [Everyone -> SUBSET Names]
  /\ todo \subseteq DOMAIN File
  /\ known \subseteq Names
  /\ torn \in BOOLEAN
  /\ crashed \in BOOLEAN

Init ==
  /\ m_datas = [n \in Names |-> None]
  /\ m_val = [n \in Names |-> Default]
  /\ rd = {} /\ wr = None
  /\ inserting = FALSE
  /\ pc = [t \in Everyone |-> "idle"]
  /\ want = [t \in Everyone |-> None]
  /\ seen = [t \in Everyone |-> {}]
  /\ todo = {} /\ known = {} /\ torn = FALSE
  /\ crashed = FALSE

-----------------------------------------------------------------------------
(* m_mutex, an RWMutex: readers wait for a writer that holds it only. *)

\* Fault variant: no writer is waited for.
WriteLockBarges(t) ==
  /\ rd = {}
  /\ wr' = t
  /\ UNCHANGED rd

WriteLock(t) ==
  /\ wr = None /\ rd = {}
  /\ wr' = t
  /\ UNCHANGED rd

WriteUnlock == wr' = None /\ UNCHANGED rd

\* Fault variant: no lock is taken.
ReadLockNot(t) == UNCHANGED lock

ReadLock(t) ==
  /\ wr = None
  /\ rd' = rd \cup {t}
  /\ UNCHANGED wr

ReadUnlock(t) == rd' = rd \ {t} /\ UNCHANGED wr

Go(t, where) == pc' = [pc EXCEPT ![t] = where]

-----------------------------------------------------------------------------
(* Lookup(name, default) *)

LookupCall(t, n, T) ==
  /\ pc[t] = "idle"
  /\ want' = [want EXCEPT ![t] = <<n, T>>]
  /\ Go(t, "lookup")
  /\ UNCHANGED <<m_datas, m_val, lock, inserting, seen, load, crashed>>

LookupLock(t) ==
  /\ pc[t] = "lookup"
  /\ WriteLock(t)
  /\ Go(t, "find")
  /\ UNCHANGED <<m_datas, m_val, inserting, want, seen, load, crashed>>

\* The name is there: the caller gets the variable, or nullptr if its type is
\* another; or it is not there and not valid: invalid_argument.
LookupReturn(t) ==
  /\ pc[t] = "find"
  /\ want[t][1] \in Registered \/ want[t][1] \notin ValidNames
  /\ WriteUnlock
  /\ want' = [want EXCEPT ![t] = None]
  /\ Go(t, "idle")
  /\ UNCHANGED <<m_datas, m_val, inserting, seen, load, crashed>>

\* The name is new and valid: the map starts to change.
LookupInsert(t) ==
  /\ pc[t] = "find"
  /\ want[t][1] \notin Registered /\ want[t][1] \in ValidNames
  /\ inserting' = TRUE
  /\ Go(t, "insert")
  /\ UNCHANGED <<m_datas, m_val, lock, want, seen, load, crashed>>

LookupInserted(t) ==
  /\ pc[t] = "insert"
  /\ m_datas' = [m_datas EXCEPT ![want[t][1]] = want[t][2]]
  /\ m_val' = [m_val EXCEPT ![want[t][1]] = Default]
  /\ inserting' = FALSE
  /\ WriteUnlock
  /\ want' = [want EXCEPT ![t] = None]
  /\ Go(t, "idle")
  /\ UNCHANGED <<seen, load, crashed>>

-----------------------------------------------------------------------------
(* Visit: the callback is called for each variable under the read lock. *)

VisitCall(t) ==
  /\ pc[t] = "idle"
  /\ ReadLock(t)
  /\ Go(t, "visit")
  /\ UNCHANGED <<m_datas, m_val, inserting, want, seen, load, crashed>>

VisitOne(t) ==
  /\ pc[t] = "visit"
  /\ \E n \in Registered \ seen[t] : seen' = [seen EXCEPT ![t] = @ \cup {n}]
  /\ UNCHANGED <<m_datas, m_val, lock, inserting, pc, want, load, crashed>>

VisitReturn(t) ==
  /\ pc[t] = "visit"
  /\ Registered \subseteq seen[t]
  /\ ReadUnlock(t)
  /\ seen' = [seen EXCEPT ![t] = {}]
  /\ Go(t, "idle")
  /\ UNCHANGED <<m_datas, m_val, inserting, want, load, crashed>>

-----------------------------------------------------------------------------
(* LoadFromYaml *)

\* A node and those it hangs from.
Path ==
  LET up[i \in 0 .. Len(File)] ==
        IF i = 0 THEN {} ELSE {i} \cup up[File[i].parent]
  IN  up

\* Fault variant: a bad name drops the node, not what hangs from it.
ListAllMemberAlone == {i \in DOMAIN File : File[i].valid}

\* The nodes in output, in the file's order.  The prefix is checked whole at
\* each node: one bad character in it and the node is dropped with all below it.
ListAllMember == {i \in DOMAIN File : \A j \in Path[i] : File[j].valid}

\* i is the node LoadFromYaml has come to.
Current(i) == i \in todo /\ \A j \in todo : i <= j

LoadCall ==
  /\ pc[Loader] = "idle"
  /\ todo' = ListAllMember
  /\ known' = Registered
  /\ Go(Loader, "load")
  /\ UNCHANGED <<m_datas, m_val, lock, inserting, want, seen, torn, crashed>>

\* LookupBase(key), without the lock.
LookupBase ==
  /\ pc[Loader] = "load"
  /\ \E i \in todo :
       /\ Current(i)
       /\ \/ /\ File[i].key \in Registered
             /\ Go(Loader, "cast")
             /\ UNCHANGED <<todo, crashed>>
          \/ /\ File[i].key \notin Registered \/ inserting
             /\ todo' = todo \ {i}
             /\ UNCHANGED <<pc, crashed>>
          \/ /\ inserting
             /\ crashed' = TRUE
             /\ UNCHANGED <<todo, pc>>
  /\ torn' = (torn \/ inserting)
  /\ UNCHANGED <<m_datas, m_val, lock, inserting, want, seen, known>>

\* fromString: the value is set, or the conversion throws, fromString returns
\* false and LoadFromYaml goes on.
FromString ==
  /\ pc[Loader] = "cast"
  /\ \E i \in todo :
       /\ Current(i)
       /\ m_val' = [m_val EXCEPT ![File[i].key] =
                      IF <<m_datas[File[i].key], File[i].text>> \in Fits
                      THEN File[i].text ELSE @]
       /\ todo' = todo \ {i}
  /\ Go(Loader, "load")
  /\ UNCHANGED <<m_datas, lock, inserting, want, seen, known, torn, crashed>>

LoadReturn ==
  /\ pc[Loader] = "load"
  /\ todo = {}
  /\ Go(Loader, "loaded")
  /\ UNCHANGED <<m_datas, m_val, lock, inserting, want, seen, load, crashed>>

-----------------------------------------------------------------------------
LoadFromYaml == LoadCall \/ LookupBase \/ FromString \/ LoadReturn

Lookup(t) ==
  \/ \E n \in Names, T \in Types : LookupCall(t, n, T)
  \/ LookupLock(t) \/ LookupReturn(t) \/ LookupInsert(t) \/ LookupInserted(t)

Visit(t) == VisitCall(t) \/ VisitOne(t) \/ VisitReturn(t)

Next ==
  /\ ~crashed
  /\ \/ LoadFromYaml
     \/ \E t \in Threads : Lookup(t)
     \/ \E t \in Visitors : Visit(t)

Spec == Init /\ [][Next]_vars

-----------------------------------------------------------------------------
(* Properties *)

\* The lock and the places that hold it agree, and the map changes only in the
\* hands of one writer while nobody holds the lock for reading; the name it
\* inserts is still new, and callbacks were called for variables there are.
LockInv ==
  /\ wr # None => rd = {}
  /\ \A t \in Everyone :
       /\ pc[t] \in {"find", "insert"} <=> wr = t
       /\ pc[t] = "visit" <=> t \in rd
       /\ pc[t] \in {"lookup", "find", "insert"} <=> want[t] # None
       /\ pc[t] = "insert" => want[t][1] \notin Registered
       /\ seen[t] \subseteq Registered
  /\ inserting <=> \E t \in Everyone : pc[t] = "insert"

IInv == TypeOK /\ LockInv

\* A name once bound to a variable stays bound to it: whoever holds the
\* ConfigVar of a Lookup holds the one everybody else is given.
NeverRebound ==
  [][\A n \in Registered : m_datas'[n] = m_datas[n]]_vars

\* Visit shows exactly the variables there are, as if at one moment: nothing is
\* registered between its first callback and its return.
VisitIsSnapshot ==
  [][\A t \in Visitors : pc[t] = "visit" =>
       /\ m_datas' = m_datas
       /\ pc'[t] # "visit" => seen[t] = Registered]_vars

\* The nodes of the file for n whose text converts, those below a bad name left
\* out.
NodesFor(n) ==
  {i \in DOMAIN File :
     /\ File[i].key = n
     /\ <<m_datas[n], File[i].text>> \in Fits
     /\ \A j \in Path[i] : File[j].valid}

\* m_val[n] is the text of the last of the nodes, or Default if there is none.
LastOf(n, nodes) ==
  \/ nodes = {} /\ m_val[n] = Default
  \/ \E i \in nodes : (\A j \in nodes : j <= i) /\ m_val[n] = File[i].text

Loaded == \A n \in known : LastOf(n, NodesFor(n))

\* When LoadFromYaml returns, every variable that was registered when it began
\* has the last text the file has for it that converts, and a variable the file
\* does not name, or whose texts do not convert, has kept its value: provided
\* that nobody was registering a variable while it looked for one.
LoadedInFull == pc[Loader] = "loaded" /\ ~torn => Loaded

\* config.h says of LoadFromYaml that it loads the configuration.  FALSE of the
\* code: LookupBase takes no lock, and if another thread is registering some
\* other variable at that moment a setting of the file is dropped.
NothingDropped == pc[Loader] = "loaded" => Loaded
=============================================================================
