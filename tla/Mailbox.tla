------------------------------ MODULE Mailbox ------------------------------
(***************************************************************************)
(* What the dispatcher promises about the commands posted for a device.    *)
(*                                                                         *)
(* Every sender id has one slot.  A command that is posted fills the slot  *)
(* or, when the slot is taken, is discarded; it never replaces the command *)
(* that waits.  The device's heartbeat empties the slot, and the command   *)
(* travels to the device, where it arrives once, or is lost.  Commands of  *)
(* one sender id arrive in the order they were posted.  CommandLeg         *)
(* implements this over a REQ/REP socket with a timeout.                   *)
(***************************************************************************)
EXTENDS Naturals, Sequences

CONSTANTS
  Uuids,      \* sender ids
  MaxPosts    \* bound on the commands posted; command n is the n-th

VARIABLES
  posted,     \* number of commands posted
  slot,       \* slot[u]: the command that waits for u, 0 when none does
  away,       \* set of [to, id]: commands fetched and not yet arrived
  arrived     \* sequence of [to, id]: commands that reached their device

mailvars == <<posted, slot, away, arrived>>

MailInit ==
  /\ posted = 0
  /\ slot = [u \in Uuids |-> 0]
  /\ away = {}
  /\ arrived = <<>>

Keep(u) ==
  /\ posted < MaxPosts
  /\ slot[u] = 0
  /\ posted' = posted + 1
  /\ slot' = [slot EXCEPT ![u] = posted + 1]
  /\ UNCHANGED <<away, arrived>>

\* The slot is taken, or nobody has that id.
Discard ==
  /\ posted < MaxPosts
  /\ posted' = posted + 1
  /\ UNCHANGED <<slot, away, arrived>>

Fetch(u) ==
  /\ slot[u] # 0
  /\ away' = away \cup {[to |-> u, id |-> slot[u]]}
  /\ slot' = [slot EXCEPT ![u] = 0]
  /\ UNCHANGED <<posted, arrived>>

InOrder(m) == \A i \in DOMAIN arrived : arrived[i].to = m.to => arrived[i].id < m.id

Arrive(m) ==
  /\ m \in away
  /\ InOrder(m)
  /\ away' = away \ {m}
  /\ arrived' = Append(arrived, m)
  /\ UNCHANGED <<posted, slot>>

Lose(m) ==
  /\ m \in away
  /\ away' = away \ {m}
  /\ UNCHANGED <<posted, slot, arrived>>

\* The dispatcher restarts: what waits there, and what it had in hand, is gone.
Forget ==
  /\ slot' = [u \in Uuids |-> 0]
  /\ away' \in SUBSET away
  /\ UNCHANGED <<posted, arrived>>

MailNext ==
  \/ \E u \in Uuids : Keep(u) \/ Fetch(u)
  \/ Discard
  \/ \E m \in away : Arrive(m) \/ Lose(m)
  \/ Forget

MailSpec == MailInit /\ [][MailNext]_mailvars
=============================================================================
