----------------------------- MODULE ThreadStart -----------------------------
(***************************************************************************)
(* One Thread object of nnysl/thread.h and the pthread behind it: the      *)
(* constructor and the new thread meet at m_semaphore; afterwards the      *)
(* object is shared through a Thread::ptr, joined by some and destroyed by *)
(* the last to drop it, while the thread still reaches it by t_thread.     *)
(*                                                                         *)
(* What runs after a use of freed memory is not defined: the model stops.  *)
(***************************************************************************)
EXTENDS Naturals

CONSTANTS
  Users,       \* threads that come to hold the Thread::ptr
  Owner,       \* the one that constructs the object
  Joiners,     \* those that call join
  Names,       \* names for SetName
  FirstName,   \* the name given to the constructor
  Interrupts   \* may a signal handler interrupt sem_wait?

ASSUME ThreadStartAssumption ==
  /\ Owner \in Users
  /\ Joiners \subseteq Users
  /\ FirstName \in Names
  /\ Interrupts \in BOOLEAN

VARIABLES
  obj,            \* the memory of the object: "none", "live", "dead"
  m_id,           \* is it the thread's id (or still -1)?
  m_thread,       \* is it the handle of a thread (or 0)?
  m_cb,           \* does it still hold the callback?
  m_name,
  m_semaphore,
  t_thread,       \* does the thread's own t_thread point to the object?
  t_thread_name,
  child,          \* where the thread stands in run
  pc,             \* where each user stands
  joiner,         \* the user whose pthread_join the system has accepted
  reaped,         \* the pthread: "no", "joined", "detached"
  threw,          \* did the constructor throw?
  wild            \* the undefined behaviour met, or "no"

fields == <<m_id, m_thread, m_cb, m_name, m_semaphore>>
own    == <<t_thread, t_thread_name>>
system == <<joiner, reaped>>
vars   == <<obj, fields, own, child, pc, system, threw, wild>>

\* Where run reads or writes the object.
Starting == {"start", "ident", "take", "post"}
Holding  == {"held", "join", "joining"}

TypeOK ==
  /\ obj \in {"none", "live", "dead"}
  /\ m_id \in BOOLEAN
  /\ m_thread \in BOOLEAN
  /\ m_cb \in BOOLEAN
  /\ m_name \in Names
  /\ m_semaphore \in {0, 1}
  /\ t_thread \in BOOLEAN
  /\ t_thread_name \in Names
  /\ child \in {"none", "log", "cb", "named", "done"} \cup Starting
  /\ pc \in [Users -> {"none", "new", "wait", "gone"} \cup Holding]
  /\ joiner \subseteq Users
  /\ reaped \in {"no", "joined", "detached"}
  /\ threw \in BOOLEAN
  /\ wild \in {"no", "stray", "reap"}

Init ==
  /\ obj = "none"
  /\ m_id = FALSE /\ m_thread = FALSE /\ m_cb = FALSE
  /\ m_name = FirstName
  /\ m_semaphore = 0
  /\ t_thread = FALSE
  /\ t_thread_name = FirstName
  /\ child = "none"
  /\ pc = [u \in Users |-> IF u = Owner THEN "new" ELSE "none"]
  /\ joiner = {} /\ reaped = "no"
  /\ threw = FALSE
  /\ wild = "no"

-----------------------------------------------------------------------------
(* The constructor *)

\* A constructor that throws runs no destructor of Thread: the members go and
\* the memory is freed, whatever became of the pthread.
Throw ==
  /\ obj' = "dead"
  /\ threw' = TRUE
  /\ pc' = [pc EXCEPT ![Owner] = "gone"]

\* The members are set, then pthread_create either starts the thread, after
\* storing its handle, or fails.
Construct ==
  /\ pc[Owner] = "new"
  /\ m_cb' = TRUE
  /\ \/ /\ obj' = "live"
        /\ m_thread' = TRUE
        /\ child' = "start"
        /\ pc' = [pc EXCEPT ![Owner] = "wait"]
        /\ UNCHANGED threw
     \/ /\ Throw
        /\ UNCHANGED <<m_thread, child>>
  /\ UNCHANGED <<m_id, m_name, m_semaphore, own, system, wild>>

\* Fault variant: the constructor does not wait for the thread.
WaitNot ==
  /\ pc[Owner] = "wait"
  /\ pc' = [pc EXCEPT ![Owner] = "held"]
  /\ UNCHANGED <<obj, fields, own, child, system, threw, wild>>

\* Semaphore::wait: sem_wait returns 0 and the constructor is done.
Wait ==
  /\ pc[Owner] = "wait"
  /\ m_semaphore > 0
  /\ m_semaphore' = m_semaphore - 1
  /\ pc' = [pc EXCEPT ![Owner] = "held"]
  /\ UNCHANGED <<obj, m_id, m_thread, m_cb, m_name, own, child, system, threw,
                 wild>>

\* sem_wait returns -1 when a handler interrupts it: no case of the switch is
\* -1, so wait throws from its default and its loop never takes a second turn.
Interrupt ==
  /\ Interrupts
  /\ pc[Owner] = "wait"
  /\ Throw
  /\ UNCHANGED <<fields, own, child, system, wild>>

-----------------------------------------------------------------------------
(* The thread: run *)

\* The thread reaches the object.
Reach == obj = "live"

\* t_thread and t_thread_name are set from the argument.
Start ==
  /\ child = "start" /\ Reach
  /\ t_thread' = TRUE
  /\ t_thread_name' = m_name
  /\ child' = "ident"
  /\ UNCHANGED <<obj, fields, pc, system, threw, wild>>

\* m_id is set, and the system told the name.
Ident ==
  /\ child = "ident" /\ Reach
  /\ m_id' = TRUE
  /\ child' = "take"
  /\ UNCHANGED <<obj, m_thread, m_cb, m_name, m_semaphore, own, pc, system,
                 threw, wild>>

\* Fault variant: the creator is released before the callback is taken.
TakeNotifies ==
  /\ child = "take" /\ Reach
  /\ m_semaphore' = 1
  /\ child' = "post"
  /\ UNCHANGED <<obj, m_id, m_thread, m_cb, m_name, own, pc, system, threw,
                 wild>>

\* The callback is swapped out of the object.
Take ==
  /\ child = "take" /\ Reach
  /\ m_cb' = FALSE
  /\ child' = "post"
  /\ UNCHANGED <<obj, m_id, m_thread, m_name, m_semaphore, own, pc, system,
                 threw, wild>>

\* Fault variant: the creator is not released.
PostNothing ==
  /\ child = "post" /\ Reach
  /\ child' = "log"
  /\ UNCHANGED <<obj, fields, own, pc, system, threw, wild>>

\* Semaphore::notify.
Post ==
  /\ child = "post" /\ Reach
  /\ m_semaphore' = m_semaphore + 1
  /\ child' = "log"
  /\ UNCHANGED <<obj, m_id, m_thread, m_cb, m_name, own, pc, system, threw,
                 wild>>

\* "thread start" is logged with the thread's own name; the object is not read.
LogStart ==
  /\ child = "log"
  /\ child' = "cb"
  /\ UNCHANGED <<obj, fields, own, pc, system, threw, wild>>

\* The callback calls Thread::SetName: first m_name of the object t_thread
\* points to, then the thread's own copy (SetOwnName).
SetName(n) ==
  /\ child = "cb" /\ Reach
  /\ m_name' = n
  /\ child' = "named"
  /\ UNCHANGED <<obj, m_id, m_thread, m_cb, m_semaphore, own, pc, system, threw,
                 wild>>

\* Fault variant: the thread's own copy is forgotten.
SetOwnNameNot ==
  /\ child = "named"
  /\ child' = "cb"
  /\ UNCHANGED <<obj, fields, own, pc, system, threw, wild>>

\* The name is the one just stored, even if the object is gone by now.
SetOwnName ==
  /\ child = "named"
  /\ t_thread_name' = m_name
  /\ child' = "cb"
  /\ UNCHANGED <<obj, fields, t_thread, pc, system, threw, wild>>

\* The callback returns, and with it the thread.
Finish ==
  /\ child = "cb"
  /\ child' = "done"
  /\ UNCHANGED <<obj, fields, own, pc, system, threw, wild>>

\* run, SetName, or the callback through GetThis(), uses an object that is no
\* longer there.
Stray ==
  /\ obj = "dead"
  /\ child \in Starting \/ child = "cb"
  /\ wild' = "stray"
  /\ UNCHANGED <<obj, fields, own, child, pc, system, threw>>

-----------------------------------------------------------------------------
(* The holders of the pointer *)

\* The pointer is copied to another user.
Share(u) ==
  /\ pc[Owner] = "held"
  /\ pc[u] = "none"
  /\ pc' = [pc EXCEPT ![u] = "held"]
  /\ UNCHANGED <<obj, fields, own, child, system, threw, wild>>

\* join finds a handle.
JoinCall(u) ==
  /\ pc[u] = "held" /\ u \in Joiners
  /\ m_thread
  /\ pc' = [pc EXCEPT ![u] = "join"]
  /\ UNCHANGED <<obj, fields, own, child, system, threw, wild>>

\* pthread_join: the system takes one joiner, answers EINVAL to another, of
\* which join makes a logic_error, and is undefined when the thread is gone.
PthreadJoin(u) ==
  /\ pc[u] = "join"
  /\ \/ /\ reaped = "no" /\ joiner = {}
        /\ joiner' = {u}
        /\ pc' = [pc EXCEPT ![u] = "joining"]
        /\ UNCHANGED wild
     \/ /\ reaped = "no" /\ joiner # {}
        /\ pc' = [pc EXCEPT ![u] = "held"]
        /\ UNCHANGED <<joiner, wild>>
     \/ /\ reaped # "no"
        /\ wild' = "reap"
        /\ UNCHANGED <<joiner, pc>>
  /\ UNCHANGED <<obj, fields, own, child, reaped, threw>>

\* Fault variant: the handle stays.
JoinedKeeps(u) ==
  /\ pc[u] = "joining" /\ child = "done"
  /\ reaped' = "joined"
  /\ pc' = [pc EXCEPT ![u] = "held"]
  /\ UNCHANGED <<obj, fields, own, child, joiner, threw, wild>>

\* The thread has ended and the handle is forgotten.
Joined(u) ==
  /\ pc[u] = "joining" /\ child = "done"
  /\ reaped' = "joined"
  /\ m_thread' = FALSE
  /\ pc' = [pc EXCEPT ![u] = "held"]
  /\ UNCHANGED <<obj, m_id, m_cb, m_name, m_semaphore, own, child, joiner, threw,
                 wild>>

\* A user drops the pointer; the last one runs ~Thread, which detaches a thread
\* that nobody has joined.
Drop(u) ==
  /\ pc[u] = "held"
  /\ pc' = [pc EXCEPT ![u] = "gone"]
  /\ \/ /\ \E v \in Users \ {u} : pc[v] \in Holding
        /\ UNCHANGED <<obj, reaped, wild>>
     \/ /\ \A v \in Users \ {u} : pc[v] \notin Holding
        /\ obj' = "dead"
        /\ \/ /\ m_thread
              /\ reaped' = "detached"
              /\ wild' = IF reaped = "no" THEN wild ELSE "reap"
           \/ ~m_thread /\ UNCHANGED <<reaped, wild>>
  /\ UNCHANGED <<fields, own, child, joiner, threw>>

-----------------------------------------------------------------------------
Run ==
  \/ Start \/ Ident \/ Take \/ Post \/ LogStart
  \/ \E n \in Names : SetName(n)
  \/ SetOwnName \/ Finish \/ Stray

Next ==
  /\ wild = "no"
  /\ \/ Construct \/ Wait \/ Interrupt
     \/ Run
     \/ \E u \in Users :
          Share(u) \/ JoinCall(u) \/ PthreadJoin(u) \/ Joined(u) \/ Drop(u)

Spec == Init /\ [][Next]_vars

\* The scheduler runs the new thread, the constructor once it is released, and
\* whoever is in join once the thread has ended.  Nothing says that the
\* callback ever returns.
FairSpec ==
  /\ Spec
  /\ WF_vars(wild = "no" /\ (Start \/ Ident \/ Take \/ Post))
  /\ WF_vars(wild = "no" /\ Wait)
  /\ \A u \in Users : WF_vars(wild = "no" /\ (PthreadJoin(u) \/ Joined(u)))

-----------------------------------------------------------------------------
(* Properties *)

\* What the constructor waits for: when it has returned, the thread has its id
\* and its name, has taken the callback, and its one post is used up.
Handshake ==
  (\E u \in Users : pc[u] \in Holding) =>
    /\ m_id /\ ~m_cb /\ m_semaphore = 0
    /\ t_thread /\ child \notin Starting

\* The thread uses freed memory only if the constructor threw while the thread
\* was already running, or from the callback, when the last pointer was dropped
\* and nobody had joined: never in the code of run itself.
StraysExplained ==
  wild = "stray" => threw \/ (reaped = "detached" /\ child = "cb")

\* t_thread_name, which the log prints, and m_name, which getName returns,
\* agree whenever the thread is not inside SetName.
NamesAgree ==
  t_thread /\ child # "named" => t_thread_name = m_name

OneJoiner == \A u, v \in Joiners : u = v

\* The pthread is joined or detached before the object that holds its handle
\* goes, and not twice: the destructor never detaches a thread that was joined,
\* and a second pthread_join takes two users that are inside join at once.
ReapedOnce ==
  /\ obj = "dead" /\ child # "none" /\ ~threw => reaped # "no"
  /\ wild = "reap" => ~OneJoiner /\ \E u \in Users : pc[u] = "join"

\* The constructor does not block for ever, nor does join when the thread has
\* ended.
BlockedMovesOn ==
  /\ pc[Owner] = "wait" ~> (pc[Owner] # "wait" \/ wild # "no")
  /\ \A u \in Users :
       pc[u] = "joining" /\ child = "done" ~> (pc[u] # "joining" \/ wild # "no")
=============================================================================
