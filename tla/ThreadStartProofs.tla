-------------------------- MODULE ThreadStartProofs --------------------------
(***************************************************************************)
(* Theorems about ThreadStart, for any users, joiners and names, with and  *)
(* without interrupted waits.                                              *)
(*                                                                         *)
(* The invariant follows the one post of the semaphore: it exists only     *)
(* between the thread's notify and the constructor's return, so whoever    *)
(* holds the object knows that run no longer reads it (MeetInv).  The      *)
(* memory is there while somebody holds the pointer (HolderInv), and the   *)
(* handle says whether the pthread is still to be reaped (ReapInv).        *)
(***************************************************************************)
EXTENDS ThreadStart, TLAPS

Held == \E u \in Users : pc[u] \in Holding

\* How far the thread is, what it has done, and who can know.
MeetInv ==
  /\ child \in {"none", "start"} <=> ~t_thread
  /\ child \in {"take", "post", "log", "cb", "named", "done"} => m_id
  /\ child \in {"post", "log", "cb", "named", "done"} => ~m_cb
  /\ m_semaphore = 1 => child \notin Starting /\ child # "none" /\ ~Held
  /\ Held => child \notin Starting /\ child # "none"
  /\ pc[Owner] = "new" => child = "none"
  /\ pc[Owner] = "wait" => child # "none"
  /\ t_thread /\ child # "named" => t_thread_name = m_name

\* Who has the pointer, and what that says of the memory.
HolderInv ==
  /\ \A u \in Users : pc[u] \in {"new", "wait"} => u = Owner
  /\ pc[Owner] \in {"new", "wait"} => \A u \in Users \ {Owner} : pc[u] = "none"
  /\ pc[Owner] # "none"
  /\ obj = "none" <=> pc[Owner] = "new"
  /\ obj = "live" <=> pc[Owner] = "wait" \/ Held
  /\ threw => obj = "dead"
  /\ obj = "dead" /\ ~threw => child \notin Starting /\ child # "none"
  /\ \A u \in Users : pc[u] \in {"join", "joining"} => u \in Joiners

\* What has become of the pthread.
ReapInv ==
  /\ reaped = "detached" => obj = "dead"
  /\ child # "none" => (m_thread <=> reaped # "joined")
  /\ child = "none" => reaped = "no" /\ ~m_thread
  /\ obj = "dead" /\ child # "none" /\ ~threw => reaped # "no"
  /\ reaped = "joined" => child = "done"
  /\ obj = "dead" /\ ~threw /\ child # "done" => reaped = "detached"
  /\ \A u \in Users : pc[u] = "joining" => joiner = {u} /\ reaped = "no"
  /\ OneJoiner => \A u \in Users : pc[u] = "join" => reaped = "no"

IInv ==
  /\ TypeOK /\ MeetInv /\ HolderInv /\ ReapInv
  /\ StraysExplained /\ ReapedOnce

USE ThreadStartAssumption

LEMMA InitHolds == Init => IInv
<1> SUFFICES ASSUME Init PROVE IInv
  OBVIOUS
<1> USE DEF Init, Held, Holding, Starting
<1>1. TypeOK
  BY DEF TypeOK
<1>2. MeetInv
  BY DEF MeetInv
<1>3. HolderInv
  BY DEF HolderInv
<1>4. ReapInv /\ StraysExplained /\ ReapedOnce
  BY DEF ReapInv, StraysExplained, ReapedOnce
<1> QED
  BY <1>1, <1>2, <1>3, <1>4 DEF IInv

-----------------------------------------------------------------------------
(* The steps of the constructor *)

LEMMA ConstructorKeeps ==
  ASSUME IInv, wild = "no", Construct \/ Wait \/ Interrupt
  PROVE  IInv'
<1> USE DEF IInv, TypeOK, MeetInv, HolderInv, ReapInv, StraysExplained,
            ReapedOnce, Held, Holding, Starting
<1>1. CASE Construct
  <2>1. TypeOK'
    BY <1>1 DEF Construct, Throw, own, system
  <2>2. MeetInv'
    BY <1>1 DEF Construct, Throw, own, system
  <2>3. HolderInv'
    BY <1>1 DEF Construct, Throw, own, system
  <2>4. ReapInv'
    BY <1>1 DEF Construct, Throw, own, system
  <2>5. StraysExplained' /\ ReapedOnce'
    BY <1>1 DEF Construct, Throw, own, system
  <2> QED
    BY <2>1, <2>2, <2>3, <2>4, <2>5
<1>2. CASE Wait
  BY <1>2 DEF Wait, own, system
<1>3. CASE Interrupt
  BY <1>3 DEF Interrupt, Throw, fields, own, system
<1> QED
  BY <1>1, <1>2, <1>3

-----------------------------------------------------------------------------
(* The steps of the thread *)

LEMMA RunKeeps ==
  ASSUME IInv, wild = "no", Run
  PROVE  IInv'
<1> USE DEF IInv, TypeOK, MeetInv, HolderInv, ReapInv, StraysExplained,
            ReapedOnce, Held, Holding, Starting, Reach, fields, own, system
<1>1. CASE Start
  BY <1>1 DEF Start
<1>2. CASE Ident
  BY <1>2 DEF Ident
<1>3. CASE Take
  BY <1>3 DEF Take
<1>4. CASE Post
  BY <1>4 DEF Post
<1>5. CASE LogStart
  BY <1>5 DEF LogStart
<1>6. CASE \E n \in Names : SetName(n)
  BY <1>6 DEF SetName
<1>7. CASE SetOwnName
  BY <1>7 DEF SetOwnName
<1>8. CASE Finish
  BY <1>8 DEF Finish
<1>9. CASE Stray
  BY <1>9 DEF Stray
<1> QED
  BY <1>1, <1>2, <1>3, <1>4, <1>5, <1>6, <1>7, <1>8, <1>9 DEF Run

-----------------------------------------------------------------------------
(* The steps of the holders *)

LEMMA HoldersKeep ==
  ASSUME IInv, wild = "no", NEW u \in Users,
         Share(u) \/ JoinCall(u) \/ PthreadJoin(u) \/ Joined(u) \/ Drop(u)
  PROVE  IInv'
<1> USE DEF IInv, TypeOK, MeetInv, HolderInv, ReapInv, StraysExplained,
            ReapedOnce, Held, Holding, Starting, fields, own, system
<1>1. CASE Share(u)
  BY <1>1 DEF Share
<1>2. CASE JoinCall(u)
  BY <1>2 DEF JoinCall
<1>3. CASE PthreadJoin(u)
  BY <1>3 DEF PthreadJoin
<1>4. CASE Joined(u)
  <2>1. OneJoiner => \A v \in Users : pc[v] # "join"
    BY <1>4 DEF Joined, OneJoiner
  <2>2. TypeOK' /\ MeetInv' /\ HolderInv'
    BY <1>4 DEF Joined
  <2>3. OneJoiner' => OneJoiner
    BY DEF OneJoiner
  <2>4. ReapInv'
    BY <1>4, <2>1, <2>3 DEF Joined
  <2>5. StraysExplained' /\ ReapedOnce'
    BY <1>4, <2>3 DEF Joined
  <2> QED
    BY <2>2, <2>4, <2>5
<1>5. CASE Drop(u)
  <2>1. TypeOK'
    BY <1>5 DEF Drop
  <2>2. MeetInv'
    BY <1>5 DEF Drop
  <2>3. HolderInv'
    BY <1>5 DEF Drop
  <2>4. ReapInv'
    BY <1>5 DEF Drop
  <2>5. StraysExplained' /\ ReapedOnce'
    BY <1>5 DEF Drop
  <2> QED
    BY <2>1, <2>2, <2>3, <2>4, <2>5
<1> QED
  BY <1>1, <1>2, <1>3, <1>4, <1>5

LEMMA StutterKeeps == IInv /\ UNCHANGED vars => IInv'
BY DEF vars, IInv, TypeOK, MeetInv, HolderInv, ReapInv, StraysExplained,
       ReapedOnce, Held, Holding, Starting, fields, own, system

-----------------------------------------------------------------------------
LEMMA Invariance == Spec => []IInv
<1>1. Init => IInv
  BY InitHolds
<1>2. IInv /\ [Next]_vars => IInv'
  <2> SUFFICES ASSUME IInv, [Next]_vars PROVE IInv'
    OBVIOUS
  <2>1. CASE UNCHANGED vars
    BY <2>1, StutterKeeps
  <2>2. CASE Next
    BY <2>2, ConstructorKeeps, RunKeeps, HoldersKeep DEF Next
  <2> QED
    BY <2>1, <2>2
<1> QED
  BY <1>1, <1>2, PTL DEF Spec

\* Every variable keeps its type; the semaphore never counts past one.
THEOREM TypeCorrect == Spec => []TypeOK
BY Invariance, PTL DEF IInv

\* When the constructor of Thread has returned, the thread has set m_id and
\* t_thread, has taken the callback, and run no longer uses the object.
THEOREM HandshakeDone == Spec => []Handshake
<1>1. IInv => Handshake
  BY DEF IInv, TypeOK, MeetInv, Handshake, Held
<1> QED
  BY <1>1, Invariance, PTL

\* The thread uses freed memory only after a constructor that threw, or from
\* its callback when it was detached.
THEOREM StraysAreExplained == Spec => []StraysExplained
BY Invariance, PTL DEF IInv

\* getName and the name the log prints agree outside SetName.
THEOREM NamesAlwaysAgree == Spec => []NamesAgree
<1>1. IInv => NamesAgree
  BY DEF IInv, MeetInv, NamesAgree
<1> QED
  BY <1>1, Invariance, PTL

\* The pthread is reaped before its handle goes, and twice only if two users
\* are inside join at once.
THEOREM ReapedExactlyOnce == Spec => []ReapedOnce
BY Invariance, PTL DEF IInv
=============================================================================
