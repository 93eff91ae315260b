------------------------------ MODULE ConfigVar ------------------------------
(***************************************************************************)
(* One configuration variable, nnysl/config.h ConfigVar<T>, used by        *)
(* several threads at once.                                                *)
(*                                                                         *)
(* setValue is NOT one critical section.  It compares and calls the        *)
(* listeners under the READ lock, drops that lock, and only then takes the *)
(* WRITE lock to store the new value.  Two setters can therefore be inside *)
(* their notification rounds together, and anything may happen in the gap  *)
(* between a round and its store.  The model keeps the lock acquisitions,  *)
(* the round (one listener per step, in key order, as the std::map is      *)
(* iterated) and the gap as separate steps.                                *)
(*                                                                         *)
(* A listener is identified with its key: addListener hands out a new key  *)
(* each time, and what matters about the callback is which change it heard *)
(* of last.                                                                *)
(***************************************************************************)
EXTENDS Naturals

CONSTANTS
  Vals,        \* values of type T the variable may take
  InitVal,     \* the default_value it is constructed with
  Setters,     \* threads that call setValue (fromString, LoadFromYaml)
  Admins,      \* threads that add, delete or clear listeners
  Readers,     \* threads that call getValue or toString
  InitCbs,     \* listeners registered before main: keys 1 .. InitCbs
  MaxId,       \* bound: largest listener key handed out
  CanThrow,    \* may a listener throw a std::exception?
  NoThread,    \* nobody holds the write lock
  NoVal        \* no value: not heard of, not asked for

Threads == Setters \cup Admins \cup Readers
Ids     == 1 .. MaxId

ASSUME ConfigVarAssumption ==
  /\ InitVal \in Vals
  /\ NoVal \notin Vals
  /\ NoThread \notin Threads
  /\ MaxId \in Nat \ {0}
  /\ InitCbs \in 0 .. MaxId
  /\ CanThrow \in BOOLEAN

VARIABLES
  m_val,       \* the value
  m_cbs,       \* keys of the registered listeners
  s_fun_id,    \* last key handed out
  rd,          \* threads that hold m_mutex for reading
  wr,          \* the thread that holds m_mutex for writing, or NoThread
  pc,          \* where each thread stands in its call
  arg,         \* the v of the setValue call a thread is in
  base,        \* the m_val a thread found when it locked for reading (observer)
  todo,        \* the listeners its round has not called yet
  heard,       \* for each key, the new_value its listener was last given
  mixed        \* have two setValue calls overlapped, or has a listener
               \* thrown? (observer)

vars == <<m_val, m_cbs, s_fun_id, rd, wr, pc, arg, base, todo, heard, mixed>>

\* Holding a read lock: "notify", "read".  Holding nothing, a store owed: "gap".
\* Holding the write lock: "store", "add", "del", "clear".
PCs == {"idle", "read", "notify", "gap", "store", "add", "del", "clear"}

TypeOK ==
  /\ m_val \in Vals
  /\ m_cbs \subseteq Ids
  /\ s_fun_id \in 0 .. MaxId
  /\ rd \subseteq Threads
  /\ wr \in Threads \cup {NoThread}
  /\ pc \in [Threads -> PCs]
  /\ arg \in [Threads -> Vals \cup {NoVal}]
  /\ base \in [Threads -> Vals \cup {NoVal}]
  /\ todo \in [Threads -> SUBSET Ids]
  /\ heard \in [Ids -> Vals \cup {NoVal}]
  /\ mixed \in BOOLEAN

Init ==
  /\ m_val = InitVal
  /\ m_cbs = 1 .. InitCbs
  /\ s_fun_id = InitCbs
  /\ rd = {}
  /\ wr = NoThread
  /\ pc = [t \in Threads |-> "idle"]
  /\ arg = [t \in Threads |-> NoVal]
  /\ base = [t \in Threads |-> NoVal]
  /\ todo = [t \in Threads |-> {}]
  /\ heard = [k \in Ids |-> NoVal]
  /\ mixed = FALSE

-----------------------------------------------------------------------------
(* The reader-writer lock, thread.h RWMutex over pthread_rwlock_t with its  *)
(* default attributes: a reader waits only for a writer that HOLDS the      *)
(* lock, not for one that waits for it.                                     *)

RdLock(t) ==
  /\ wr = NoThread
  /\ rd' = rd \cup {t}
  /\ UNCHANGED wr

RdUnlock(t) ==
  /\ rd' = rd \ {t}
  /\ UNCHANGED wr

\* Fault variant: the lock is granted to a writer while readers hold it.
WrLockIgnoresReaders(t) ==
  /\ wr = NoThread
  /\ wr' = t
  /\ UNCHANGED rd

WrLock(t) ==
  /\ wr = NoThread
  /\ rd = {}
  /\ wr' = t
  /\ UNCHANGED rd

WrUnlock(t) ==
  /\ wr' = NoThread
  /\ UNCHANGED rd

-----------------------------------------------------------------------------
(* setValue *)

\* t is between the comparison and the store.
Setting(t) == pc[t] \in {"notify", "gap", "store"}

\* The call up to the first listener: read-lock, compare, and either return
\* at once because nothing changes or enter the notification round.
SetValue(t, v) ==
  /\ pc[t] = "idle"
  /\ \/ /\ wr = NoThread
        /\ v = m_val
        /\ UNCHANGED vars
     \/ /\ v # m_val
        /\ RdLock(t)
        /\ pc' = [pc EXCEPT ![t] = "notify"]
        /\ arg' = [arg EXCEPT ![t] = v]
        /\ base' = [base EXCEPT ![t] = m_val]
        /\ todo' = [todo EXCEPT ![t] = m_cbs]
        /\ UNCHANGED <<m_val, m_cbs, s_fun_id, heard>>
        /\ mixed' = (mixed \/ \E u \in Setters \ {t} : Setting(u))

\* Fault variant: the listener is handed the values the wrong way round.
CallListenerSwapped(t) ==
  /\ pc[t] = "notify"
  /\ \E k \in todo[t] :
       /\ \A j \in todo[t] : k <= j
       /\ heard' = [heard EXCEPT ![k] = m_val]
       /\ todo' = [todo EXCEPT ![t] = @ \ {k}]
  /\ UNCHANGED <<m_val, m_cbs, s_fun_id, rd, wr, pc, arg, base, mixed>>

\* i.second(m_val, v) for the next entry of m_cbs.
CallListener(t) ==
  /\ pc[t] = "notify"
  /\ \E k \in todo[t] :
       /\ \A j \in todo[t] : k <= j
       /\ heard' = [heard EXCEPT ![k] = arg[t]]
       /\ todo' = [todo EXCEPT ![t] = @ \ {k}]
  /\ UNCHANGED <<m_val, m_cbs, s_fun_id, rd, wr, pc, arg, base, mixed>>

\* The next listener throws part-way: it may or may not have acted on the new
\* value.  The lock guard releases the read lock, nothing is stored, and
\* fromString catches the exception and returns false.
ListenerThrows(t) ==
  /\ CanThrow
  /\ pc[t] = "notify"
  /\ \E k \in todo[t] :
       /\ \A j \in todo[t] : k <= j
       /\ heard' \in {heard, [heard EXCEPT ![k] = arg[t]]}
  /\ RdUnlock(t)
  /\ pc' = [pc EXCEPT ![t] = "idle"]
  /\ arg' = [arg EXCEPT ![t] = NoVal]
  /\ base' = [base EXCEPT ![t] = NoVal]
  /\ todo' = [todo EXCEPT ![t] = {}]
  /\ UNCHANGED <<m_val, m_cbs, s_fun_id>>
  /\ mixed' = TRUE

\* The end of the block that holds the read lock.
EndRound(t) ==
  /\ pc[t] = "notify"
  /\ todo[t] = {}
  /\ RdUnlock(t)
  /\ pc' = [pc EXCEPT ![t] = "gap"]
  /\ base' = [base EXCEPT ![t] = NoVal]
  /\ UNCHANGED <<m_val, m_cbs, s_fun_id, arg, todo, heard, mixed>>

SetLock(t) ==
  /\ pc[t] = "gap"
  /\ WrLock(t)
  /\ pc' = [pc EXCEPT ![t] = "store"]
  /\ UNCHANGED <<m_val, m_cbs, s_fun_id, arg, base, todo, heard, mixed>>

\* Fault variant: setValue returns without releasing the write lock.
SetStoreKeepsLock(t) ==
  /\ pc[t] = "store"
  /\ m_val' = arg[t]
  /\ pc' = [pc EXCEPT ![t] = "idle"]
  /\ arg' = [arg EXCEPT ![t] = NoVal]
  /\ UNCHANGED <<m_cbs, s_fun_id, rd, wr, base, todo, heard, mixed>>

\* m_val = v, and the write lock is released on return.
SetStore(t) ==
  /\ pc[t] = "store"
  /\ m_val' = arg[t]
  /\ WrUnlock(t)
  /\ pc' = [pc EXCEPT ![t] = "idle"]
  /\ arg' = [arg EXCEPT ![t] = NoVal]
  /\ UNCHANGED <<m_cbs, s_fun_id, base, todo, heard, mixed>>

-----------------------------------------------------------------------------
(* getValue, toString and getListener: a copy of m_val, its conversion, or a *)
(* lookup in m_cbs, made under the read lock.                               *)

GetLock(t) ==
  /\ pc[t] = "idle"
  /\ RdLock(t)
  /\ pc' = [pc EXCEPT ![t] = "read"]
  /\ base' = [base EXCEPT ![t] = m_val]
  /\ UNCHANGED <<m_val, m_cbs, s_fun_id, arg, todo, heard, mixed>>

\* The copy is made (or its conversion throws, and toString returns "").
GetDone(t) ==
  /\ pc[t] = "read"
  /\ RdUnlock(t)
  /\ pc' = [pc EXCEPT ![t] = "idle"]
  /\ base' = [base EXCEPT ![t] = NoVal]
  /\ UNCHANGED <<m_val, m_cbs, s_fun_id, arg, todo, heard, mixed>>

-----------------------------------------------------------------------------
(* The listener table: every change is made under the write lock.           *)

AdminLock(t, op) ==
  /\ pc[t] = "idle"
  /\ op = "add" => s_fun_id < MaxId
  /\ WrLock(t)
  /\ pc' = [pc EXCEPT ![t] = op]
  /\ UNCHANGED <<m_val, m_cbs, s_fun_id, arg, base, todo, heard, mixed>>

\* The rest of a table operation: release and return.
AdminDone(t, op) ==
  /\ pc[t] = op
  /\ WrUnlock(t)
  /\ pc' = [pc EXCEPT ![t] = "idle"]
  /\ UNCHANGED <<m_val, arg, base, todo, heard, mixed>>

AddListener(t) ==
  /\ AdminDone(t, "add")
  /\ s_fun_id' = s_fun_id + 1
  /\ m_cbs' = m_cbs \cup {s_fun_id + 1}

\* Fault variant: delListener erases without taking the lock.
DelListenerUnlocked(t) ==
  /\ pc[t] = "idle"
  /\ \E k \in Ids : m_cbs' = m_cbs \ {k}
  /\ UNCHANGED <<m_val, s_fun_id, rd, wr, pc, arg, base, todo, heard, mixed>>

\* key is any number; erasing one that is not in the map changes nothing.
DelListener(t) ==
  /\ AdminDone(t, "del")
  /\ \E k \in Ids : m_cbs' = m_cbs \ {k}
  /\ UNCHANGED s_fun_id

ClearListener(t) ==
  /\ AdminDone(t, "clear")
  /\ m_cbs' = {}
  /\ UNCHANGED s_fun_id

-----------------------------------------------------------------------------
\* What a thread does once it is inside a call.
InCall(t) ==
  \/ CallListener(t) \/ ListenerThrows(t) \/ EndRound(t)
  \/ SetLock(t) \/ SetStore(t) \/ GetDone(t)
  \/ AddListener(t) \/ DelListener(t) \/ ClearListener(t)

Next ==
  \/ \E t \in Setters : \E v \in Vals : SetValue(t, v)
  \/ \E t \in Setters : CallListener(t)
  \/ \E t \in Setters : ListenerThrows(t)
  \/ \E t \in Setters : EndRound(t)
  \/ \E t \in Setters : SetLock(t)
  \/ \E t \in Setters : SetStore(t)
  \/ \E t \in Readers : GetLock(t)
  \/ \E t \in Readers : GetDone(t)
  \/ \E t \in Admins : \E op \in {"add", "del", "clear"} : AdminLock(t, op)
  \/ \E t \in Admins : AddListener(t)
  \/ \E t \in Admins : DelListener(t)
  \/ \E t \in Admins : ClearListener(t)

Spec == Init /\ [][Next]_vars

\* Each thread inside a call keeps running, a listener returns, and a writer
\* gets a lock that stays free.  Nothing is assumed of idle threads.
FairSpec == Spec /\ \A t \in Threads : WF_vars(InCall(t))

-----------------------------------------------------------------------------
(* Properties *)

\* The owner of the lock and the step of the call agree, and a writer is
\* alone.  (pthread's promise, carried by the calls that use it.)
LockInv ==
  /\ \A t \in Threads : pc[t] \in {"read", "notify"} <=> t \in rd
  /\ \A t \in Threads : pc[t] \in {"store", "add", "del", "clear"} <=> wr = t
  /\ wr # NoThread => rd = {}

\* What a call carries from step to step: a round exists only while its thread
\* holds the read lock, the value to store only until it is stored, and
\* a key is handed out under the lock that its bound was tested under.
CallInv ==
  \A t \in Threads :
    /\ pc[t] # "notify" => todo[t] = {}
    /\ pc[t] \in {"notify", "gap", "store"} <=> arg[t] # NoVal
    /\ pc[t] = "add" => s_fun_id < MaxId

\* What is read under the read lock stays put until it is released: every
\* listener of a round gets the old_value the call compared v with, and the
\* copy getValue makes is not overwritten half-way, whatever other setters do.
ReadsAreStable ==
  \A t \in Threads : pc[t] \in {"read", "notify"} => base[t] = m_val

\* The round iterates over m_cbs itself: no entry it still has to visit is
\* erased under its feet.
RoundIsLive ==
  \A t \in Threads : todo[t] \subseteq m_cbs

\* The inductive invariant: the two promises above, and the bookkeeping of
\* locks and calls they rest on.
IInv == TypeOK /\ LockInv /\ CallInv /\ ReadsAreStable /\ RoundIsLive

\* A listener hears of changes only while it is registered: once delListener
\* or clearListener has returned, its callback (and whatever it captured) is
\* never entered again, by any thread.
OnlyLiveListenersHear ==
  [][\A k \in Ids : heard'[k] # heard[k] => k \in m_cbs /\ k \in m_cbs']_vars

\* As long as setValue calls have not overlapped and no listener has thrown: a
\* registered listener has heard nothing yet, or what it heard last is the value
\* of the change in flight if its round has passed the listener, and the stored
\* value if not.
ListenersInSync ==
  ~mixed => \A k \in m_cbs :
    \/ heard[k] = NoVal
    \/ \E t \in Setters : Setting(t) /\ k \notin todo[t] /\ heard[k] = arg[t]
    \/ heard[k] = m_val /\ \A t \in Setters : Setting(t) => k \in todo[t]

\* A key that is not handed out yet has no listener and has heard nothing.
KeysAreFresh ==
  /\ m_cbs \subseteq 1 .. s_fun_id
  /\ \A k \in Ids : k > s_fun_id => heard[k] = NoVal

\* Listeners are told of every change: when the value becomes v, v is the
\* last thing each registered listener heard.  FALSE of the code as soon as
\* two threads set the variable: both announce, then store in either order.
NoSilentChange ==
  [][m_val' # m_val => \A k \in m_cbs : heard[k] = m_val']_vars

\* A thread starts a call that spans several steps.
NewCall == \E t \in Threads : pc[t] = "idle" /\ pc'[t] # "idle"

\* Once no new calls arrive, every call in progress returns: nothing keeps the
\* write lock, and no setter waits in its gap for ever.
QuietThenDone ==
  <>[][~NewCall]_vars => <>[](\A t \in Threads : pc[t] = "idle")

-----------------------------------------------------------------------------
(* ConfigVar implements ChangeFeed: no locks, a change is announced to the  *)
(* listeners one by one and then published, and neither a publication nor a *)
(* change of subscriptions falls inside anyone's round.                     *)

Feed == INSTANCE ChangeFeed WITH
          val <- m_val, live <- m_cbs, pend <- arg, due <- todo, told <- heard,
          InitLive <- 1 .. InitCbs

\* Every behaviour of the locked, multi-step code is one of ChangeFeed: what
\* the callers of setValue, addListener, delListener and clearListener see is
\* what the simple specification allows.
FeedSpec == Feed!Spec
=============================================================================
