--------------------------- MODULE ConfigVarProofs ---------------------------
(***************************************************************************)
(* Proofs about ConfigVar, for any values, threads and listeners.          *)
(***************************************************************************)
EXTENDS ConfigVar, TLAPS

LEMMA InitInv == Init => IInv
<1> SUFFICES ASSUME Init PROVE IInv
  OBVIOUS
<1> USE ConfigVarAssumption DEF Init
<1>1. TypeOK
  <2>1. m_cbs \subseteq Ids /\ s_fun_id \in 0 .. MaxId
    BY DEF Ids
  <2>2. /\ pc \in [Threads -> PCs]
        /\ todo \in [Threads -> SUBSET Ids]
    BY DEF PCs
  <2> QED BY <2>1, <2>2 DEF TypeOK
<1>2. LockInv /\ CallInv /\ ReadsAreStable /\ RoundIsLive
  BY DEF LockInv, CallInv, ReadsAreStable, RoundIsLive, Threads
<1> QED
  BY <1>1, <1>2 DEF IInv

LEMMA StepInv == IInv /\ [Next]_vars => IInv'
<1> SUFFICES ASSUME IInv, [Next]_vars PROVE IInv'
  OBVIOUS
<1> USE ConfigVarAssumption
<1> DEFINE Inv2 == LockInv /\ CallInv /\ ReadsAreStable /\ RoundIsLive
<1>1. ASSUME NEW t \in Setters, NEW v \in Vals, SetValue(t, v) PROVE IInv'
  <2>1. CASE UNCHANGED vars
    BY <2>1 DEF IInv, TypeOK, LockInv, CallInv, ReadsAreStable, RoundIsLive, vars
  <2>2. CASE pc' = [pc EXCEPT ![t] = "notify"]
    <3> USE <1>1, <2>2 DEF SetValue, RdLock
    <3>0. v # m_val
      BY DEF IInv, TypeOK, PCs, Threads, vars
    <3>1. TypeOK'
      BY <3>0 DEF IInv, TypeOK, Threads, PCs, vars
    <3>2. (LockInv /\ CallInv)'
      BY <3>0 DEF IInv, TypeOK, LockInv, CallInv, Threads, PCs, vars
    <3>3. (ReadsAreStable /\ RoundIsLive)'
      BY <3>0 DEF IInv, TypeOK, ReadsAreStable, RoundIsLive, Threads, PCs, vars
    <3> QED BY <3>1, <3>2, <3>3 DEF IInv
  <2> QED BY <1>1, <2>1, <2>2 DEF SetValue
<1>2. ASSUME NEW t \in Setters, CallListener(t) PROVE IInv'
  <2>1. TypeOK'
    BY <1>2 DEF IInv, TypeOK, CallListener, Threads, PCs, CallInv
  <2>2. Inv2'
    BY <1>2 DEF IInv, TypeOK, LockInv, CallInv, ReadsAreStable, RoundIsLive, CallListener,
       Threads, PCs
  <2> QED BY <2>1, <2>2 DEF IInv
<1>3. ASSUME NEW t \in Setters, ListenerThrows(t) PROVE IInv'
  <2>1. TypeOK'
    BY <1>3 DEF IInv, TypeOK, ListenerThrows, RdUnlock, Threads, PCs, CallInv
  <2>2. Inv2'
    BY <1>3 DEF IInv, TypeOK, LockInv, CallInv, ReadsAreStable, RoundIsLive,
       ListenerThrows, RdUnlock, Threads, PCs
  <2> QED BY <2>1, <2>2 DEF IInv
<1>4. ASSUME NEW t \in Setters, EndRound(t) PROVE IInv'
  <2>1. TypeOK'
    BY <1>4 DEF IInv, TypeOK, EndRound, RdUnlock, Threads, PCs
  <2>2. Inv2'
    BY <1>4 DEF IInv, TypeOK, LockInv, CallInv, ReadsAreStable, RoundIsLive, EndRound,
       RdUnlock, Threads, PCs
  <2> QED BY <2>1, <2>2 DEF IInv
<1>5. ASSUME NEW t \in Setters, SetLock(t) PROVE IInv'
  <2>1. TypeOK'
    BY <1>5 DEF IInv, TypeOK, SetLock, WrLock, Threads, PCs
  <2>2. Inv2'
    BY <1>5 DEF IInv, TypeOK, LockInv, CallInv, ReadsAreStable, RoundIsLive, SetLock,
       WrLock, Threads, PCs
  <2> QED BY <2>1, <2>2 DEF IInv
<1>6. ASSUME NEW t \in Setters, SetStore(t) PROVE IInv'
  <2>1. TypeOK'
    BY <1>6 DEF IInv, TypeOK, SetStore, WrUnlock, Threads, PCs, CallInv
  <2>2. Inv2'
    BY <1>6 DEF IInv, TypeOK, LockInv, CallInv, ReadsAreStable, RoundIsLive, SetStore,
       WrUnlock, Threads, PCs
  <2> QED BY <2>1, <2>2 DEF IInv
<1>7. ASSUME NEW t \in Readers, GetLock(t) PROVE IInv'
  <2>1. TypeOK'
    BY <1>7 DEF IInv, TypeOK, GetLock, RdLock, Threads, PCs
  <2>2. Inv2'
    BY <1>7 DEF IInv, TypeOK, LockInv, CallInv, ReadsAreStable, RoundIsLive, GetLock,
       RdLock, Threads, PCs
  <2> QED BY <2>1, <2>2 DEF IInv
<1>8. ASSUME NEW t \in Readers, GetDone(t) PROVE IInv'
  <2>1. TypeOK'
    BY <1>8 DEF IInv, TypeOK, GetDone, RdUnlock, Threads, PCs
  <2>2. Inv2'
    BY <1>8 DEF IInv, TypeOK, LockInv, CallInv, ReadsAreStable, RoundIsLive, GetDone,
       RdUnlock, Threads, PCs
  <2> QED BY <2>1, <2>2 DEF IInv
<1>9. ASSUME NEW t \in Admins, NEW op \in {"add", "del", "clear"}, AdminLock(t, op) PROVE IInv'
  <2>1. TypeOK'
    BY <1>9 DEF IInv, TypeOK, AdminLock, WrLock, Threads, PCs
  <2>2. Inv2'
    BY <1>9 DEF IInv, TypeOK, LockInv, CallInv, ReadsAreStable, RoundIsLive, AdminLock,
       WrLock, Threads, PCs
  <2> QED BY <2>1, <2>2 DEF IInv
<1>10. ASSUME NEW t \in Admins, AddListener(t) PROVE IInv'
  <2>1. TypeOK'
    BY <1>10 DEF IInv, TypeOK, CallInv, AddListener, AdminDone, WrUnlock, Threads, PCs, Ids
  <2>2. Inv2'
    BY <1>10
      DEF IInv, TypeOK, LockInv, CallInv, ReadsAreStable, RoundIsLive,
           AddListener, AdminDone, WrUnlock, Threads, PCs
  <2> QED BY <2>1, <2>2 DEF IInv
<1>11. ASSUME NEW t \in Admins, DelListener(t) PROVE IInv'
  <2>1. TypeOK'
    BY <1>11 DEF IInv, TypeOK, DelListener, AdminDone, WrUnlock, Threads, PCs
  <2>2. Inv2'
    BY <1>11
      DEF IInv, TypeOK, LockInv, CallInv, ReadsAreStable, RoundIsLive,
           DelListener, AdminDone, WrUnlock, Threads, PCs
  <2> QED BY <2>1, <2>2 DEF IInv
<1>12. ASSUME NEW t \in Admins, ClearListener(t) PROVE IInv'
  <2>1. TypeOK'
    BY <1>12 DEF IInv, TypeOK, ClearListener, AdminDone, WrUnlock, Threads, PCs
  <2>2. Inv2'
    BY <1>12
      DEF IInv, TypeOK, LockInv, CallInv, ReadsAreStable, RoundIsLive,
           ClearListener, AdminDone, WrUnlock, Threads, PCs
  <2> QED BY <2>1, <2>2 DEF IInv
<1>13. CASE UNCHANGED vars
  BY <1>13 DEF IInv, TypeOK, LockInv, CallInv, ReadsAreStable, RoundIsLive, vars
<1> QED
  BY <1>1, <1>2, <1>3, <1>4, <1>5, <1>6, <1>7, <1>8, <1>9, <1>10, <1>11, <1>12, <1>13
    DEF Next

\* Whatever threads set, read and manage listeners, the lock, the calls and the
\* rounds stay consistent.
THEOREM Invariance == Spec => []IInv
  BY InitInv, StepInv, PTL DEF Spec

\* Every value and table stays within its type.
THEOREM TypeCorrect == Spec => []TypeOK
  BY Invariance, PTL DEF IInv

\* The value compared, announced or copied under the read lock does not change
\* before the lock is released (getValue, and the rounds of setValue).
THEOREM StableReads == Spec => []ReadsAreStable
  BY Invariance, PTL DEF IInv

\* No registered listener a round has yet to call is ever erased under it.
THEOREM LiveRounds == Spec => []RoundIsLive
  BY Invariance, PTL DEF IInv

-----------------------------------------------------------------------------
LEMMA HearStep ==
  IInv /\ [Next]_vars
    => \A k \in Ids : heard'[k] # heard[k] => k \in m_cbs /\ k \in m_cbs'
<1> SUFFICES ASSUME IInv, [Next]_vars, NEW k \in Ids, heard'[k] # heard[k]
             PROVE  k \in m_cbs /\ k \in m_cbs'
  OBVIOUS
<1>1. ASSUME NEW t \in Setters, CallListener(t) PROVE k \in m_cbs /\ k \in m_cbs'
  BY <1>1 DEF IInv, TypeOK, RoundIsLive, CallListener, Threads
<1>2. ASSUME NEW t \in Setters, ListenerThrows(t) PROVE k \in m_cbs /\ k \in m_cbs'
  BY <1>2 DEF IInv, TypeOK, RoundIsLive, ListenerThrows, Threads
<1>3. heard' # heard
  OBVIOUS
<1> QED
  BY <1>1, <1>2, <1>3 DEF Next, SetValue, EndRound, SetLock, SetStore, GetLock,
     GetDone, AdminLock, AddListener, DelListener, ClearListener, AdminDone, vars

\* After delListener or clearListener has returned, the removed listener is not
\* called again.
THEOREM DeadListenersAreSilent == Spec => OnlyLiveListenersHear
<1>1. IInv /\ [Next]_vars
        => [\A k \in Ids : heard'[k] # heard[k] => k \in m_cbs /\ k \in m_cbs']_vars
  BY HearStep
<1> QED
  BY <1>1, Invariance, PTL DEF Spec, OnlyLiveListenersHear

-----------------------------------------------------------------------------
LEMMA FeedInit == Init => Feed!Init
  BY DEF Init, Feed!Init

LEMMA FeedStep == IInv /\ [Next]_vars => [Feed!Next]_(Feed!feed)
<1> SUFFICES ASSUME IInv, [Next]_vars, ~ UNCHANGED Feed!feed PROVE Feed!Next
  OBVIOUS
<1> USE ConfigVarAssumption
<1>1. ASSUME NEW t \in Setters, NEW v \in Vals, SetValue(t, v) PROVE Feed!Open(t, v)
  BY <1>1 DEF IInv, CallInv, SetValue, Feed!Open, Feed!feed, vars, Threads
<1>2. ASSUME NEW t \in Setters, CallListener(t) PROVE \E k \in Ids : Feed!Tell(t, k)
  BY <1>2 DEF IInv, TypeOK, RoundIsLive, CallListener, Feed!Tell, Threads
<1>3. ASSUME NEW t \in Setters, ListenerThrows(t) PROVE \E k \in Ids : Feed!Drop(t, k)
  BY <1>3 DEF IInv, TypeOK, RoundIsLive, ListenerThrows, Feed!Drop, Threads
<1>4. ASSUME NEW t \in Threads, wr = t PROVE Feed!Settled
  BY <1>4 DEF IInv, LockInv, CallInv, Feed!Settled, Threads
<1>5. ASSUME NEW t \in Setters, SetStore(t) PROVE Feed!Publish(t)
  <2>1. wr = t /\ arg[t] # NoVal
    BY <1>5 DEF IInv, LockInv, CallInv, SetStore, Threads
  <2> QED BY <1>4, <1>5, <2>1 DEF SetStore, Feed!Publish, Threads
<1>6. ASSUME NEW t \in Admins,
             AddListener(t) \/ DelListener(t) \/ ClearListener(t)
      PROVE  Feed!Resubscribe
  <2>1. wr = t
    BY <1>6 DEF IInv, LockInv, AddListener, DelListener, ClearListener, AdminDone, Threads
  <2>2. m_cbs' \in SUBSET Ids
    BY <1>6, StepInv DEF IInv, TypeOK
  <2> QED
    BY <1>4, <1>6, <2>1, <2>2
    DEF AddListener, DelListener, ClearListener, AdminDone, Feed!Resubscribe, Threads
<1>7. CASE \/ \E t \in Setters : EndRound(t) \/ SetLock(t)
           \/ \E t \in Readers : GetLock(t) \/ GetDone(t)
           \/ \E t \in Admins : \E op \in {"add", "del", "clear"} : AdminLock(t, op)
           \/ UNCHANGED vars
  BY <1>7 DEF EndRound, SetLock, GetLock, GetDone, AdminLock, Feed!feed, vars
<1> QED
  BY <1>1, <1>2, <1>3, <1>5, <1>6, <1>7 DEF Next, Feed!Next, Threads

\* The locked, multi-step ConfigVar implements the lock-free ChangeFeed: no
\* publication and no change of subscriptions falls inside anyone's round.
THEOREM ImplementsFeed == Spec => FeedSpec
  BY FeedInit, FeedStep, Invariance, PTL DEF Spec, FeedSpec, Feed!Spec

-----------------------------------------------------------------------------
LEMMA FreshInit == Init => KeysAreFresh
  BY ConfigVarAssumption DEF Init, KeysAreFresh, Ids

LEMMA FreshStep == IInv /\ KeysAreFresh /\ [Next]_vars => KeysAreFresh'
<1> SUFFICES ASSUME IInv, KeysAreFresh, [Next]_vars PROVE KeysAreFresh'
  OBVIOUS
<1> USE ConfigVarAssumption
<1>1. ASSUME NEW t \in Setters, CallListener(t) \/ ListenerThrows(t)
      PROVE  KeysAreFresh'
  <2>1. PICK k \in todo[t] : heard' \in {heard, [heard EXCEPT ![k] = arg[t]]}
    BY <1>1 DEF CallListener, ListenerThrows
  <2>2. k \in Ids /\ ~(k > s_fun_id)
    BY <2>1 DEF IInv, TypeOK, RoundIsLive, KeysAreFresh, Threads, Ids
  <2>3. m_cbs' = m_cbs /\ s_fun_id' = s_fun_id
    BY <1>1 DEF CallListener, ListenerThrows
  <2> QED BY <2>1, <2>2, <2>3 DEF KeysAreFresh, IInv, TypeOK
<1>2. ASSUME NEW t \in Admins, AddListener(t) PROVE KeysAreFresh'
  BY <1>2 DEF AddListener, AdminDone, KeysAreFresh, IInv, TypeOK, Ids
<1>3. ASSUME NEW t \in Admins, DelListener(t) \/ ClearListener(t) PROVE KeysAreFresh'
  BY <1>3 DEF DelListener, ClearListener, AdminDone, KeysAreFresh
<1>4. CASE UNCHANGED <<m_cbs, s_fun_id, heard>>
  BY <1>4 DEF KeysAreFresh
<1> QED
  BY <1>1, <1>2, <1>3, <1>4 DEF Next, SetValue, EndRound, SetLock, SetStore,
     GetLock, GetDone, AdminLock, vars

\* Until it gets mixed, one setter at most is between comparison and store.
AloneInv == ~mixed => \A t, u \in Setters : Setting(t) /\ Setting(u) => t = u

LEMMA AloneInit == Init => AloneInv
  BY DEF Init, AloneInv, Setting, Threads

LEMMA AloneStep == IInv /\ AloneInv /\ [Next]_vars => AloneInv'
<1> SUFFICES ASSUME IInv, AloneInv, [Next]_vars PROVE AloneInv'
  OBVIOUS
<1> USE DEF AloneInv, Setting
<1>1. ASSUME NEW t \in Setters, NEW v \in Vals, SetValue(t, v) PROVE AloneInv'
  BY <1>1 DEF SetValue, IInv, TypeOK, Threads, vars
<1>2. ASSUME NEW t \in Setters, ListenerThrows(t) PROVE AloneInv'
  BY <1>2 DEF ListenerThrows
<1>3. ASSUME NEW t \in Setters, CallListener(t) \/ EndRound(t) \/ SetLock(t) \/ SetStore(t)
      PROVE  AloneInv'
  BY <1>3 DEF CallListener, EndRound, SetLock, SetStore, IInv, TypeOK, Threads
<1>4. ASSUME NEW t \in Threads, pc[t] \notin {"notify", "gap", "store"},
             pc' \in {[pc EXCEPT ![t] = x] : x \in {"idle", "read", "add", "del", "clear"}},
             mixed' = mixed
      PROVE  AloneInv'
  BY <1>4 DEF IInv, TypeOK, Threads
<1>5. ASSUME NEW t \in Readers, GetLock(t) \/ GetDone(t) PROVE AloneInv'
  BY <1>4, <1>5 DEF GetLock, GetDone, Threads
<1>6. ASSUME NEW t \in Admins, NEW op \in {"add", "del", "clear"}, AdminLock(t, op)
      PROVE  AloneInv'
  BY <1>4, <1>6 DEF AdminLock, Threads
<1>7. ASSUME NEW t \in Admins, AddListener(t) \/ DelListener(t) \/ ClearListener(t)
      PROVE  AloneInv'
  BY <1>4, <1>7 DEF AddListener, DelListener, ClearListener, AdminDone, Threads
<1>8. CASE UNCHANGED vars
  BY <1>8 DEF vars
<1> QED
  BY <1>1, <1>2, <1>3, <1>5, <1>6, <1>7, <1>8 DEF Next

LEMMA SyncInit == Init => ListenersInSync
  BY ConfigVarAssumption DEF Init, ListenersInSync, Ids

LEMMA SyncStep ==
  ASSUME IInv, KeysAreFresh, AloneInv, ListenersInSync, [Next]_vars
  PROVE  ListenersInSync'
<1> USE ConfigVarAssumption
<1>1. ASSUME NEW t \in Setters, NEW v \in Vals, SetValue(t, v) PROVE ListenersInSync'
  BY <1>1 DEF SetValue, RdLock, ListenersInSync, Setting, IInv, TypeOK, Threads, vars
<1>2. ASSUME NEW t \in Setters, CallListener(t) PROVE ListenersInSync'
  BY <1>2 DEF CallListener, ListenersInSync, AloneInv, Setting, IInv, TypeOK, RoundIsLive,
     Threads
<1>3. ASSUME NEW t \in Setters, ListenerThrows(t) PROVE ListenersInSync'
  BY <1>3 DEF ListenerThrows, ListenersInSync
<1>4. ASSUME NEW t \in Setters, EndRound(t) \/ SetLock(t) PROVE ListenersInSync'
  BY <1>4 DEF EndRound, SetLock, ListenersInSync, Setting, IInv, TypeOK, Threads
<1>6. ASSUME NEW t \in Setters, SetStore(t) PROVE ListenersInSync'
  BY <1>6 DEF SetStore, ListenersInSync, AloneInv, Setting, IInv, TypeOK, CallInv, Threads
<1>7. ASSUME NEW t \in Threads, pc[t] \notin {"notify", "gap", "store"},
             pc' \in {[pc EXCEPT ![t] = x] : x \in {"idle", "read", "add", "del", "clear"}},
             UNCHANGED <<m_val, arg, todo, heard, mixed>>,
             \A k \in m_cbs' : k \in m_cbs \/ heard[k] = NoVal
      PROVE  ListenersInSync'
  BY <1>7 DEF ListenersInSync, Setting, IInv, TypeOK, Threads
<1>8. ASSUME NEW t \in Readers, GetLock(t) \/ GetDone(t) PROVE ListenersInSync'
  BY <1>7, <1>8 DEF GetLock, GetDone, Threads
<1>9. ASSUME NEW t \in Admins, NEW op \in {"add", "del", "clear"}, AdminLock(t, op)
      PROVE  ListenersInSync'
  BY <1>7, <1>9 DEF AdminLock, Threads
<1>10. ASSUME NEW t \in Admins, AddListener(t) \/ DelListener(t) \/ ClearListener(t)
       PROVE  ListenersInSync'
  <2>1. \A k \in m_cbs' : k \in m_cbs \/ heard[k] = NoVal
    <3>1. CASE AddListener(t)
      <4>1. s_fun_id + 1 \in Ids /\ s_fun_id + 1 > s_fun_id
        BY <3>1 DEF AddListener, AdminDone, IInv, TypeOK, CallInv, Threads, Ids
      <4> QED BY <3>1, <4>1 DEF AddListener, KeysAreFresh
    <3>2. CASE DelListener(t) \/ ClearListener(t)
      BY <3>2 DEF DelListener, ClearListener
    <3> QED BY <1>10, <3>1, <3>2
  <2> QED
    BY <1>7, <1>10, <2>1
    DEF AddListener, DelListener, ClearListener, AdminDone, Threads
<1>11. CASE UNCHANGED vars
  BY <1>11 DEF ListenersInSync, Setting, vars
<1> QED
  BY <1>1, <1>2, <1>3, <1>4, <1>6, <1>8, <1>9, <1>10, <1>11 DEF Next

\* As long as setValue calls do not overlap and no listener throws, listeners
\* and value agree: what a listener heard last is the value, or the change in
\* flight.  (When they overlap TLC finds the opposite: NoSilentChange.)
THEOREM ListenersAgree == Spec => []ListenersInSync
<1>1. IInv /\ KeysAreFresh /\ AloneInv /\ ListenersInSync /\ [Next]_vars => ListenersInSync'
  BY SyncStep
<1> QED
  BY <1>1, Invariance, FreshInit, FreshStep, AloneInit, AloneStep, SyncInit, PTL DEF Spec
=============================================================================
