----------------------------- MODULE ChangeFeed -----------------------------
(***************************************************************************)
(* What a ConfigVar promises its callers, without its locks.               *)
(*                                                                         *)
(* A change is opened, announced to every subscriber of that moment one    *)
(* after the other, and then published, or dropped if a subscriber refuses *)
(* it.  Rounds of several changes may overlap, but while any round is      *)
(* under way the value stays put and nobody joins or leaves.               *)
(***************************************************************************)
EXTENDS Naturals

CONSTANTS Vals, InitVal, Threads, Ids, InitLive, NoVal

VARIABLES
  val,    \* the published value
  live,   \* the subscribers
  pend,   \* for each thread, the change it has opened, or NoVal
  due,    \* for each thread, the subscribers its round has not reached
  told    \* for each subscriber, the last change it was told

feed == <<val, live, pend, due, told>>

Init ==
  /\ val = InitVal
  /\ live = InitLive
  /\ pend = [t \in Threads |-> NoVal]
  /\ due = [t \in Threads |-> {}]
  /\ told = [k \in Ids |-> NoVal]

\* No round is under way.
Settled == \A t \in Threads : due[t] = {}

Open(t, v) ==
  /\ pend[t] = NoVal
  /\ v # val
  /\ pend' = [pend EXCEPT ![t] = v]
  /\ due' = [due EXCEPT ![t] = live]
  /\ UNCHANGED <<val, live, told>>

Tell(t, k) ==
  /\ k \in due[t]
  /\ k \in live
  /\ told' = [told EXCEPT ![k] = pend[t]]
  /\ due' = [due EXCEPT ![t] = @ \ {k}]
  /\ UNCHANGED <<val, live, pend>>

\* Subscriber k refuses the change, perhaps after acting on it.
Drop(t, k) ==
  /\ k \in due[t]
  /\ k \in live
  /\ told' \in {told, [told EXCEPT ![k] = pend[t]]}
  /\ pend' = [pend EXCEPT ![t] = NoVal]
  /\ due' = [due EXCEPT ![t] = {}]
  /\ UNCHANGED <<val, live>>

Publish(t) ==
  /\ pend[t] # NoVal
  /\ Settled
  /\ val' = pend[t]
  /\ pend' = [pend EXCEPT ![t] = NoVal]
  /\ UNCHANGED <<live, due, told>>

Resubscribe ==
  /\ Settled
  /\ live' \in SUBSET Ids
  /\ UNCHANGED <<val, pend, due, told>>

Next ==
  \/ \E t \in Threads : \/ \E v \in Vals : Open(t, v)
                        \/ \E k \in Ids : Tell(t, k) \/ Drop(t, k)
                        \/ Publish(t)
  \/ Resubscribe

Spec == Init /\ [][Next]_feed
=============================================================================
