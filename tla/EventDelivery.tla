--------------------------- MODULE EventDelivery ---------------------------
(***************************************************************************)
(* What loggers promise those who log, without locks and levels.           *)
(*                                                                         *)
(* A logger hands one event at a time to its appenders, in the order of    *)
(* its list, each of them once, and the list stays as it is meanwhile.  A  *)
(* logger without appenders may have the root do this, and gets none until *)
(* the root is done.  Only clearing a list is not held up by a delivery:   *)
(* of one that it strikes nothing is promised any more.                    *)
(***************************************************************************)
EXTENDS Naturals, Sequences

CONSTANTS Threads, Loggers, Appenders, Root, NoThread

VARIABLES
  list,     \* the appenders of each logger
  who,      \* the thread whose event a logger is busy with, or NoThread
  got,      \* the appenders that have this event
  struck    \* the loggers whose list was cleared during the delivery

delivery == <<list, who, got, struck>>

Init ==
  /\ list = [l \in Loggers |-> <<>>]
  /\ who = [l \in Loggers |-> NoThread]
  /\ got = [l \in Loggers |-> <<>>]
  /\ struck = {}

\* Logger l turns to an event of t; or the root does, for a logger without
\* appenders that is busy with it.
Begin(t, l) ==
  /\ who[l] = NoThread
  /\ \A k \in Loggers : who[k] = t => l = Root /\ list[k] = <<>>
  /\ who' = [who EXCEPT ![l] = t]
  /\ UNCHANGED <<list, got, struck>>

\* The next appender gets the event.
Hand(l, a) ==
  /\ who[l] # NoThread
  /\ \/ Len(got[l]) < Len(list[l]) /\ a = list[l][Len(got[l]) + 1]
     \/ l \in struck
  /\ got' = [got EXCEPT ![l] = Append(@, a)]
  /\ UNCHANGED <<list, who, struck>>

\* Every appender has it, and the root is done with it.
End(l) ==
  /\ who[l] # NoThread
  /\ got[l] = list[l] \/ l \in struck
  /\ l # Root => who[Root] # who[l]
  /\ who' = [who EXCEPT ![l] = NoThread]
  /\ got' = [got EXCEPT ![l] = <<>>]
  /\ struck' = struck \ {l}
  /\ UNCHANGED list

Attach(l, a) ==
  /\ who[l] = NoThread
  /\ list' = [list EXCEPT ![l] = Append(@, a)]
  /\ UNCHANGED <<who, got, struck>>

Detach(l, k) ==
  /\ who[l] = NoThread
  /\ k \in 1 .. Len(list[l])
  /\ list' = [list EXCEPT ![l] = SubSeq(@, 1, k - 1) \o SubSeq(@, k + 1, Len(@))]
  /\ UNCHANGED <<who, got, struck>>

Clear(l) ==
  /\ list' = [list EXCEPT ![l] = <<>>]
  /\ struck' = IF who[l] = NoThread THEN struck ELSE struck \cup {l}
  /\ UNCHANGED <<who, got>>

Next ==
  \E l \in Loggers :
    \/ \E t \in Threads : Begin(t, l)
    \/ \E a \in Appenders : Hand(l, a) \/ Attach(l, a)
    \/ \E k \in 1 .. Len(list[l]) : Detach(l, k)
    \/ End(l)
    \/ Clear(l)

Spec == Init /\ [][Next]_delivery
=============================================================================
