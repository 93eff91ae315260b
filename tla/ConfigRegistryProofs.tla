------------------------ MODULE ConfigRegistryProofs ------------------------
(***************************************************************************)
(* Theorems about ConfigRegistry, for any threads, names, types and file.  *)
(*                                                                         *)
(* IInv, the invariant the run checks, says who may be inside the map.     *)
(* LoadInv adds what a load has done so far: the nodes it has been through *)
(* are the first ones of the file, and every variable it knew of has the   *)
(* last text among those.                                                  *)
(***************************************************************************)
EXTENDS ConfigRegistry, TLAPS

USE ConfigRegistryAssumption

LEMMA NodeType ==
  /\ DOMAIN File \subseteq Nat
  /\ \A i \in DOMAIN File : File[i].key \in Names /\ File[i].text \in Texts
<1> DEFINE S == [key : Names, parent : Nat, valid : BOOLEAN, text : Texts]
<1>1. File \in Seq(S)
  OBVIOUS
<1> HIDE DEF S
<1>2. DOMAIN File = 1 .. Len(File) /\ \A i \in 1 .. Len(File) : File[i] \in S
  BY <1>1
<1> QED
  BY <1>2 DEF S

LEMMA InitHolds == Init => IInv
BY DEF Init, IInv, TypeOK, LockInv

LEMMA LookupKeeps ==
  ASSUME IInv, NEW t \in Threads, Lookup(t)
  PROVE  IInv'
<1> USE DEF IInv, TypeOK, LockInv, Go, Everyone, Registered, load, WriteUnlock
<1>1. ASSUME NEW n \in Names, NEW T \in Types, LookupCall(t, n, T)
      PROVE  IInv'
  BY <1>1 DEF LookupCall, lock
<1>2. CASE LookupLock(t)
  BY <1>2 DEF LookupLock, WriteLock
<1>3. CASE LookupReturn(t)
  BY <1>3 DEF LookupReturn
<1>4. CASE LookupInsert(t)
  BY <1>4 DEF LookupInsert, lock
<1>5. CASE LookupInserted(t)
  <2>1. PICK n \in Names, T \in Types : want[t] = <<n, T>>
    BY <1>5 DEF LookupInserted
  <2>2. TypeOK'
    <3>1. /\ m_datas' \in [Names -> Types \cup {None}]
          /\ m_val' \in [Names -> Texts \cup {Default}]
      BY <1>5, <2>1 DEF LookupInserted
    <3>2. /\ want' \in [Everyone -> (Names \X Types) \cup {None}]
          /\ pc' \in [Everyone -> {"idle", "lookup", "find", "insert", "visit",
                                  "load", "cast", "loaded"}]
      BY <1>5 DEF LookupInserted
    <3> QED
      BY <1>5, <3>1, <3>2 DEF LookupInserted
  <2>3. \A s \in Everyone : pc[s] = "insert" => s = t
    BY <1>5 DEF LookupInserted
  <2>4. LockInv'
    BY <1>5, <2>1, <2>3 DEF LookupInserted
  <2> QED
    BY <2>2, <2>4
<1> QED
  BY <1>1, <1>2, <1>3, <1>4, <1>5 DEF Lookup

LEMMA VisitKeeps ==
  ASSUME IInv, NEW t \in Visitors, Visit(t)
  PROVE  IInv'
<1> USE DEF IInv, TypeOK, LockInv, Go, Everyone, Registered, load
<1>1. CASE VisitCall(t)
  BY <1>1 DEF VisitCall, ReadLock
<1>2. CASE VisitOne(t)
  BY <1>2 DEF VisitOne, lock
<1>3. CASE VisitReturn(t)
  BY <1>3 DEF VisitReturn, ReadUnlock
<1> QED
  BY <1>1, <1>2, <1>3 DEF Visit

LEMMA LoadKeeps == IInv /\ LoadFromYaml => IInv'
<1> SUFFICES ASSUME IInv, LoadFromYaml PROVE IInv'
  OBVIOUS
<1> USE DEF IInv, TypeOK, LockInv, Go, Everyone, Registered, lock
<1>1. CASE LoadCall
  BY <1>1 DEF LoadCall, ListAllMember
<1>2. CASE LookupBase
  <2>1. /\ UNCHANGED <<m_datas, m_val, rd, wr, inserting, want, seen, known>>
        /\ todo' \subseteq todo
        /\ torn' \in BOOLEAN /\ crashed' \in BOOLEAN
        /\ pc[Loader] = "load"
        /\ pc' = pc \/ pc' = [pc EXCEPT ![Loader] = "cast"]
    BY <1>2 DEF LookupBase
  <2> QED
    BY <2>1
<1>3. CASE FromString
  <2>1. PICK i \in todo :
          /\ Current(i)
          /\ m_val' = [m_val EXCEPT ![File[i].key] =
                         IF <<m_datas[File[i].key], File[i].text>> \in Fits
                         THEN File[i].text ELSE @]
          /\ todo' = todo \ {i}
    BY <1>3 DEF FromString
  <2>2. File[i].key \in Names /\ File[i].text \in Texts
    BY <2>1, NodeType
  <2> QED
    BY <1>3, <2>1, <2>2 DEF FromString
<1>4. CASE LoadReturn
  BY <1>4 DEF LoadReturn, load
<1> QED
  BY <1>1, <1>2, <1>3, <1>4 DEF LoadFromYaml

LEMMA StutterKeeps == IInv /\ UNCHANGED vars => IInv'
BY DEF IInv, TypeOK, LockInv, vars, lock, load, Registered

\* Types are kept, the lock is held by those inside the map, and an insertion
\* has the map to itself as far as the lock's users go.
THEOREM Invariance == Spec => []IInv
<1>1. IInv /\ [Next]_vars => IInv'
  BY LookupKeeps, VisitKeeps, LoadKeeps, StutterKeeps DEF Next
<1> QED
  BY <1>1, InitHolds, PTL DEF Spec

-----------------------------------------------------------------------------
(* The map of names only grows, and not while somebody reads it. *)

\* What a step does to the map: an insertion of a name that is new.
LEMMA MapChanges ==
  ASSUME IInv, [Next]_vars, m_datas' # m_datas
  PROVE  \E t \in Threads : LookupInserted(t)
BY DEF Next, Lookup, Visit, LoadFromYaml, LookupCall, LookupLock, LookupReturn,
       LookupInsert, VisitCall, VisitOne, VisitReturn, LoadCall, LookupBase,
       FromString, LoadReturn, vars

LEMMA Inserts ==
  ASSUME IInv, NEW t \in Threads, LookupInserted(t)
  PROVE  /\ want[t][1] \in Names \ Registered
         /\ m_datas' = [m_datas EXCEPT ![want[t][1]] = want[t][2]]
         /\ m_val' = [m_val EXCEPT ![want[t][1]] = Default]
         /\ rd = {}
<1>1. PICK n \in Names, T \in Types : want[t] = <<n, T>>
  BY DEF LookupInserted, IInv, TypeOK, LockInv, Everyone
<1> QED
  BY <1>1 DEF LookupInserted, IInv, TypeOK, LockInv, Everyone

\* A name once bound to a variable stays bound to it, whoever looks it up.
THEOREM NamesAreNeverRebound == Spec => NeverRebound
<1>1. ASSUME IInv, [Next]_vars, NEW n \in Registered
      PROVE  m_datas'[n] = m_datas[n]
  <2>1. CASE m_datas' = m_datas
    BY <2>1
  <2>2. CASE m_datas' # m_datas
    BY <1>1, <2>2, MapChanges, Inserts DEF IInv, TypeOK, Registered
  <2> QED
    BY <2>1, <2>2
<1>2. IInv /\ [Next]_vars =>
        [\A n \in Registered : m_datas'[n] = m_datas[n]]_vars
  BY <1>1
<1> QED
  BY <1>2, Invariance, PTL DEF Spec, NeverRebound

\* Visit shows exactly the variables there are at one moment.
THEOREM VisitsAreSnapshots == Spec => VisitIsSnapshot
<1>1. ASSUME IInv, [Next]_vars, NEW t \in Visitors, pc[t] = "visit"
      PROVE  m_datas' = m_datas /\ (pc'[t] # "visit" => seen[t] = Registered)
  <2>1. m_datas' = m_datas
    BY <1>1, MapChanges, Inserts DEF IInv, LockInv, Everyone
  <2>2. seen[t] \subseteq Registered
    BY <1>1 DEF IInv, LockInv, Everyone
  <2>3. pc'[t] # "visit" => VisitReturn(t)
    <3> USE <1>1 DEF IInv, TypeOK, LockInv, Everyone, Go
    <3>1. CASE UNCHANGED vars
      BY <3>1 DEF vars
    <3>2. CASE LoadFromYaml
      BY <3>2 DEF LoadFromYaml, LoadCall, LookupBase, FromString, LoadReturn
    <3>3. ASSUME NEW s \in Threads, Lookup(s) PROVE pc'[t] = "visit"
      BY <3>3 DEF Lookup, LookupCall, LookupLock, LookupReturn, LookupInsert,
                  LookupInserted
    <3>4. ASSUME NEW s \in Visitors, Visit(s)
          PROVE  pc'[t] = "visit" \/ VisitReturn(t)
      BY <3>4 DEF Visit, VisitCall, VisitOne, VisitReturn
    <3> QED
      BY <3>1, <3>2, <3>3, <3>4 DEF Next
  <2> QED
    BY <2>1, <2>2, <2>3 DEF VisitReturn
<1>2. IInv /\ [Next]_vars =>
        [\A t \in Visitors : pc[t] = "visit" =>
           /\ m_datas' = m_datas
           /\ pc'[t] # "visit" => seen[t] = Registered]_vars
  BY <1>1
<1> QED
  BY <1>2, Invariance, PTL DEF Spec, VisitIsSnapshot

-----------------------------------------------------------------------------
(* What a load has done so far *)

LoadInv ==
  /\ \A t \in Everyone : pc[t] \in {"load", "cast", "loaded"} => t = Loader
  /\ pc[Loader] \in {"idle", "load", "cast", "loaded"}
  /\ pc[Loader] = "idle" => \A n \in Names : m_val[n] = Default
  /\ known \subseteq Registered
  /\ todo \subseteq ListAllMember
  /\ pc[Loader] = "loaded" => todo = {}
  /\ pc[Loader] # "idle" =>
       \A i \in todo, j \in ListAllMember \ todo : j < i
  /\ pc[Loader] # "idle" /\ ~torn =>
       \A n \in known : LastOf(n, NodesFor(n) \ todo)

LEMMA LoadInit == Init => LoadInv
BY DEF Init, LoadInv, Everyone, Registered

\* A registration changes a variable the load does not know of.
LEMMA InsertKeepsLoad ==
  ASSUME IInv, LoadInv, NEW t \in Threads, LookupInserted(t)
  PROVE  LoadInv'
<1> USE DEF IInv, TypeOK
<1>1. UNCHANGED load /\ t # Loader /\ pc' = [pc EXCEPT ![t] = "idle"]
  BY DEF LookupInserted, Go
<1>2. \A n \in known : n \in Names /\ m_datas'[n] = m_datas[n] /\ m_val'[n] = m_val[n]
  BY Inserts DEF LoadInv, Registered
<1>3. \A n \in known : NodesFor(n)' = NodesFor(n)
  BY <1>2 DEF NodesFor
<1>4. known \subseteq Registered'
  BY <1>2 DEF LoadInv, Registered
<1>5. \A n \in known : LastOf(n, NodesFor(n) \ todo) => LastOf(n, NodesFor(n) \ todo)'
  BY <1>1, <1>2, <1>3 DEF LastOf, load
<1>6. (\A n \in Names : m_val[n] = Default) => \A n \in Names : m_val'[n] = Default
  BY Inserts
<1>7. ListAllMember' = ListAllMember
  BY DEF ListAllMember
<1> QED
  BY <1>1, <1>4, <1>5, <1>6, <1>7 DEF LoadInv, load, Everyone

\* Steps that leave the variables and the load alone.
LEMMA OthersKeepLoad ==
  ASSUME IInv, LoadInv, UNCHANGED <<load, m_val, m_datas>>,
         pc'[Loader] = pc[Loader],
         \A s \in Everyone \ {Loader} :
           pc'[s] = pc[s] \/ pc'[s] \notin {"load", "cast", "loaded"}
  PROVE  LoadInv'
<1>1. ListAllMember' = ListAllMember /\ Registered' = Registered
  BY DEF ListAllMember, Registered
<1>2. \A n \in known : LastOf(n, NodesFor(n) \ todo)' <=> LastOf(n, NodesFor(n) \ todo)
  BY DEF LastOf, NodesFor, load
<1> QED
  BY <1>1, <1>2 DEF LoadInv, load, Everyone

LEMMA LookupKeepsLoad ==
  ASSUME IInv, LoadInv, NEW t \in Threads, Lookup(t)
  PROVE  LoadInv'
<1>1. CASE LookupInserted(t)
  BY <1>1, InsertKeepsLoad
<1>2. CASE ~LookupInserted(t)
  <2>1. UNCHANGED <<load, m_val, m_datas>> /\ t # Loader
    BY <1>2 DEF Lookup, LookupCall, LookupLock, LookupReturn, LookupInsert
  <2>2. \E p \in {"lookup", "find", "insert", "idle"} : pc' = [pc EXCEPT ![t] = p]
    BY <1>2 DEF Lookup, LookupCall, LookupLock, LookupReturn, LookupInsert, Go
  <2> QED
    BY <2>1, <2>2, OthersKeepLoad DEF IInv, TypeOK, Everyone
<1> QED
  BY <1>1, <1>2

LEMMA VisitKeepsLoad ==
  ASSUME IInv, LoadInv, NEW t \in Visitors, Visit(t)
  PROVE  LoadInv'
<1>1. UNCHANGED <<load, m_val, m_datas>> /\ t # Loader
  BY DEF Visit, VisitCall, VisitOne, VisitReturn
<1>2. pc' = pc \/ \E p \in {"visit", "idle"} : pc' = [pc EXCEPT ![t] = p]
  BY DEF Visit, VisitCall, VisitOne, VisitReturn, Go
<1> QED
  BY <1>1, <1>2, OthersKeepLoad DEF IInv, TypeOK, Everyone

\* The load begins with every variable as it was constructed.
LEMMA CallKeepsLoad == IInv /\ LoadInv /\ LoadCall => LoadInv'
<1> SUFFICES ASSUME IInv, LoadInv, LoadCall PROVE LoadInv'
  OBVIOUS
<1> USE DEF LoadCall, IInv, TypeOK
<1>1. pc' = [pc EXCEPT ![Loader] = "load"] /\ Registered' = Registered
  BY DEF Go, Registered
<1>2. todo' = ListAllMember /\ ListAllMember' = ListAllMember
  BY DEF ListAllMember
<1>3. \A n \in Names : NodesFor(n)' = NodesFor(n) /\ NodesFor(n) \subseteq ListAllMember
  BY DEF NodesFor, ListAllMember
<1>4. \A n \in known' : LastOf(n, NodesFor(n) \ todo)'
  BY <1>2, <1>3 DEF LastOf, Registered, LoadInv
<1> QED
  BY <1>1, <1>2, <1>4 DEF LoadInv, Everyone

\* A node that is passed over is not one of a variable the load knows of,
\* unless an insertion was going on.
LEMMA BaseKeepsLoad == IInv /\ LoadInv /\ LookupBase => LoadInv'
<1> SUFFICES ASSUME IInv, LoadInv, LookupBase PROVE LoadInv'
  OBVIOUS
<1> USE DEF IInv, TypeOK
<1>1. PICK i \in todo :
        /\ Current(i)
        /\ \/ File[i].key \in Registered /\ Go(Loader, "cast") /\ todo' = todo
           \/ /\ File[i].key \notin Registered \/ inserting
              /\ todo' = todo \ {i} /\ pc' = pc
           \/ inserting /\ todo' = todo /\ pc' = pc
  BY DEF LookupBase
<1>2. /\ UNCHANGED <<m_datas, m_val, known>> /\ torn' = (torn \/ inserting)
      /\ pc[Loader] = "load"
  BY DEF LookupBase
<1>3. Registered' = Registered /\ ListAllMember' = ListAllMember
  BY <1>2 DEF Registered, ListAllMember
<1>4. \A j \in todo', k \in ListAllMember \ todo' : k < j
  BY <1>1, <1>2, NodeType DEF LoadInv, Current, ListAllMember
<1>5. ASSUME ~torn', NEW n \in known
      PROVE  LastOf(n, NodesFor(n) \ todo)'
  <2>1. LastOf(n, NodesFor(n) \ todo)
    BY <1>2, <1>5 DEF LoadInv
  <2>2. NodesFor(n)' = NodesFor(n)
    BY <1>2 DEF NodesFor
  <2>3. NodesFor(n) \ todo' = NodesFor(n) \ todo
    BY <1>1, <1>2, <1>5 DEF NodesFor, LoadInv
  <2> QED
    BY <1>2, <2>1, <2>2, <2>3 DEF LastOf
<1>6. pc'[Loader] \in {"load", "cast"} /\ \A t \in Everyone \ {Loader} : pc'[t] = pc[t]
  BY <1>1, <1>2 DEF Go, Everyone
<1>7. known' \subseteq Registered' /\ todo' \subseteq ListAllMember'
  BY <1>1, <1>2, <1>3 DEF LoadInv
<1>8. \A t \in Everyone : pc'[t] \in {"load", "cast", "loaded"} => t = Loader
  BY <1>6 DEF LoadInv
<1> QED
  BY <1>3, <1>4, <1>5, <1>6, <1>7, <1>8, <1>2 DEF LoadInv

\* A text that converts becomes the last one its variable has.
LEMMA CastKeepsLoad == IInv /\ LoadInv /\ FromString => LoadInv'
<1> SUFFICES ASSUME IInv, LoadInv, FromString PROVE LoadInv'
  OBVIOUS
<1> USE DEF IInv, TypeOK
<1>1. PICK i \in todo :
        /\ Current(i)
        /\ m_val' = [m_val EXCEPT ![File[i].key] =
                       IF <<m_datas[File[i].key], File[i].text>> \in Fits
                       THEN File[i].text ELSE @]
        /\ todo' = todo \ {i}
  BY DEF FromString
<1>2. /\ UNCHANGED <<m_datas, known, torn>>
      /\ pc[Loader] = "cast" /\ pc' = [pc EXCEPT ![Loader] = "load"]
  BY DEF FromString, Go
<1>3. Registered' = Registered /\ ListAllMember' = ListAllMember
  BY <1>2 DEF Registered, ListAllMember
<1>4. \A j \in todo', k \in ListAllMember \ todo' : k < j
  BY <1>1, <1>2, NodeType DEF LoadInv, Current, ListAllMember
<1>5. ASSUME ~torn, NEW n \in known
      PROVE  LastOf(n, NodesFor(n) \ todo)'
  <2>1. LastOf(n, NodesFor(n) \ todo)
    BY <1>2, <1>5 DEF LoadInv
  <2>2. NodesFor(n)' = NodesFor(n) /\ n \in Names
    BY <1>2 DEF NodesFor, LoadInv, Registered
  <2>3. CASE i \in NodesFor(n)
    <3>1. m_val'[n] = File[i].text
      BY <1>1, <2>2, <2>3 DEF NodesFor
    <3>2. \A j \in ListAllMember \ todo : j < i
      BY <1>1, <1>2 DEF LoadInv
    <3>3. \A j \in NodesFor(n) \ todo' : j = i \/ j \in ListAllMember \ todo
      BY <1>1 DEF NodesFor, ListAllMember
    <3>4. i \in Nat /\ \A j \in NodesFor(n) : j \in Nat
      BY <1>1, NodeType DEF NodesFor
    <3>5. ASSUME NEW j \in NodesFor(n) \ todo' PROVE j <= i
      <4>1. j = i \/ j < i
        BY <3>2, <3>3
      <4>2. i \in Nat /\ j \in Nat
        BY <3>4
      <4> QED
        BY <4>1, <4>2
    <3>6. i \in NodesFor(n) \ todo'
      BY <1>1, <2>3
    <3> QED
      BY <2>2, <3>1, <3>5, <3>6 DEF LastOf
  <2>4. CASE i \notin NodesFor(n)
    <3>1. m_val'[n] = m_val[n]
      BY <1>1, <2>2, <2>4 DEF NodesFor, ListAllMember, LoadInv
    <3>2. NodesFor(n) \ todo' = NodesFor(n) \ todo
      BY <1>1, <2>4
    <3> QED
      BY <2>1, <2>2, <3>1, <3>2 DEF LastOf
  <2> QED
    BY <2>3, <2>4
<1>6. known' \subseteq Registered' /\ todo' \subseteq ListAllMember'
  BY <1>1, <1>2, <1>3 DEF LoadInv
<1>7. /\ pc'[Loader] = "load"
      /\ \A t \in Everyone : pc'[t] \in {"load", "cast", "loaded"} => t = Loader
  BY <1>2 DEF LoadInv, Everyone
<1> QED
  BY <1>2, <1>3, <1>4, <1>5, <1>6, <1>7 DEF LoadInv

LEMMA ReturnKeepsLoad == IInv /\ LoadInv /\ LoadReturn => LoadInv'
<1> SUFFICES ASSUME IInv, LoadInv, LoadReturn PROVE LoadInv'
  OBVIOUS
<1>1. UNCHANGED <<m_datas, m_val, todo, known, torn>> /\ todo = {}
  BY DEF LoadReturn, load
<1>2. pc[Loader] = "load" /\ pc' = [pc EXCEPT ![Loader] = "loaded"]
  BY DEF LoadReturn, Go
<1>3. ListAllMember' = ListAllMember /\ Registered' = Registered
  BY <1>1 DEF ListAllMember, Registered
<1>4. \A n \in known : LastOf(n, NodesFor(n) \ todo)' <=> LastOf(n, NodesFor(n) \ todo)
  BY <1>1 DEF LastOf, NodesFor
<1> QED
  BY <1>1, <1>2, <1>3, <1>4 DEF LoadInv, IInv, TypeOK, Everyone

\* When LoadFromYaml returns, and nobody registered a variable while it looked
\* for one, every variable it knew of has the last text of the file for it that
\* converts, or what it had if there is none.
THEOREM LoadsAreFull == Spec => []LoadedInFull
<1>1. IInv /\ LoadInv /\ [Next]_vars => LoadInv'
  <2> SUFFICES ASSUME IInv, LoadInv, [Next]_vars PROVE LoadInv'
    OBVIOUS
  <2>1. CASE UNCHANGED vars
    BY <2>1, OthersKeepLoad DEF vars
  <2>2. CASE LoadFromYaml
    BY <2>2, CallKeepsLoad, BaseKeepsLoad, CastKeepsLoad, ReturnKeepsLoad
       DEF LoadFromYaml
  <2> QED
    BY <2>1, <2>2, LookupKeepsLoad, VisitKeepsLoad DEF Next
<1>2. LoadInv => LoadedInFull
  <2> SUFFICES ASSUME LoadInv, pc[Loader] = "loaded", ~torn, NEW n \in known
               PROVE  LastOf(n, NodesFor(n))
    BY DEF LoadedInFull, Loaded
  <2>1. NodesFor(n) \ todo = NodesFor(n)
    BY DEF LoadInv
  <2> QED
    BY <2>1 DEF LoadInv
<1> QED
  BY <1>1, <1>2, LoadInit, Invariance, PTL DEF Spec
=============================================================================
