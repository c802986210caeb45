----------------------------- MODULE ReportLeg -----------------------------
(***************************************************************************)
(* The reports of input events: from report() in a device handler, through *)
(* its bounded queue and the th_io thread (LowLevel/Common/src/            *)
(* zmq_coms.cpp), over REQ/REP to th_io in the dispatcher, and from there  *)
(* to the clients of /ws (LowLevel/dispatcher/src/dispatcher.cpp and       *)
(* main.cpp).                                                              *)
(*                                                                         *)
(* The queue drops its oldest report when it is full; a report that is not *)
(* acknowledged in time is given up, although the dispatcher may still     *)
(* serve it; the dispatcher keeps one slot for the last action, which      *)
(* user_handler polls, and a map with an action per sender.                *)
(*                                                                         *)
(* An element of Devs is one handler process: its n-th report is the       *)
(* number n.  NoUuid is the key "" of a handler without unique_number.     *)
(***************************************************************************)
EXTENDS Naturals, Sequences, FiniteSets

CONSTANTS
  Devs,         \* handler processes
  Unregistered, \* those that got no answer to their registration
  NoUuid,       \* the empty unique_number
  Cap,          \* STACKED_IO_MSG
  History,      \* zmq_io.history
  Socks,        \* socket numbers: bounds the abandoned requests of a handler
  Users,        \* clients of /ws
  MaxReports,   \* bound on the reports of a handler
  MaxCrashes    \* bound on the crashes of the dispatcher

ASSUME ReportLegAssumption ==
  /\ Unregistered \subseteq Devs /\ NoUuid \notin Devs
  /\ Cap \in Nat \ {0} /\ History \in Nat \ {0}
  /\ Socks \subseteq Nat /\ 0 \in Socks
  /\ MaxReports \in Nat /\ MaxCrashes \in Nat

VARIABLES
  made,         \* made[d]: number of reports dispatched
  queue,        \* queue[d]: io_queue
  tpc,          \* tpc[d]: th_io of the handler: "pop", "send", "wait", "exited"
  cur,          \* cur[d]: the report it sends, 0 when there is none
  dying,        \* handlers whose die() was called
  sock,         \* sock[d]: the socket th_io uses
  acked,        \* handlers whose answer has arrived
  late,         \* late[d]: reports th_io gave up waiting for
  wire,         \* reports sent and not yet received: [dev, sock, n]
  up,           \* the dispatcher process is running
  ioReq,        \* the report th_io of the dispatcher has in hand, or NoReport
  LastAction,   \* the last action recorded, or NoReport
  uptodate,     \* it has not been streamed yet
  LastActions,  \* the map: an action per key
  recorded,     \* all actions recorded, in order (history variable)
  users,        \* clients connected to /ws
  seen,         \* seen[u]: the last action streamed to u since it connected
  crashes       \* number of dispatcher crashes

handler    == <<made, queue, tpc, cur, dying, sock, acked, late>>
slots      == <<LastAction, uptodate, LastActions, recorded>>
dispatcher == <<up, ioReq, slots, crashes>>
clients    == <<users, seen>>
vars       == <<handler, wire, dispatcher, clients>>

Key(d)   == IF d \in Unregistered THEN NoUuid ELSE d
NoReport == [dev |-> NoUuid, n |-> 0]
Report   == [dev : Devs, n : 1 .. MaxReports]

Used(d)   == {sock[d]} \cup {r.sock : r \in {q \in wire : q.dev = d}}
Unused(d) == {n \in Socks \ Used(d) : \A m \in Socks \ Used(d) : n <= m}

-----------------------------------------------------------------------------
Init ==
  /\ made = [d \in Devs |-> 0]
  /\ queue = [d \in Devs |-> <<>>]
  /\ tpc = [d \in Devs |-> "pop"]
  /\ cur = [d \in Devs |-> 0]
  /\ dying = {} /\ acked = {}
  /\ sock = [d \in Devs |-> 0]
  /\ late = [d \in Devs |-> {}]
  /\ wire = {}
  /\ up = TRUE
  /\ ioReq = NoReport /\ LastAction = NoReport
  /\ uptodate = FALSE
  /\ LastActions = <<>>
  /\ recorded = <<>>
  /\ users = {}
  /\ seen = [u \in Users |-> NoReport]
  /\ crashes = 0

-----------------------------------------------------------------------------
(* The handler *)

\* Mutant: a full queue rejects the new report.
PushedMutant(q, n) == IF Len(q) >= Cap THEN q ELSE Append(q, n)

\* Mutant: the new report goes to the front.
PushedFrontMutant(q, n) == <<n>> \o (IF Len(q) >= Cap THEN Tail(q) ELSE q)

\* A full queue gives up its oldest report first.
Pushed(q, n) == Append(IF Len(q) >= Cap THEN Tail(q) ELSE q, n)

\* report() dispatches: one more report, under io_mu.
Dispatch(d) ==
  /\ made[d] < MaxReports
  /\ d \notin dying
  /\ made' = [made EXCEPT ![d] = @ + 1]
  /\ queue' = [queue EXCEPT ![d] = Pushed(@, made[d] + 1)]
  /\ UNCHANGED <<tpc, cur, dying, sock, acked, late, wire, dispatcher, clients>>

\* th_io, the head of the loop: stop, or the front of the queue, if any.
Pop(d) ==
  /\ tpc[d] = "pop"
  /\ d \notin dying
  /\ queue[d] # <<>>
  /\ cur' = [cur EXCEPT ![d] = Head(queue[d])]
  /\ queue' = [queue EXCEPT ![d] = Tail(@)]
  /\ tpc' = [tpc EXCEPT ![d] = "send"]
  /\ UNCHANGED <<made, dying, sock, acked, late, wire, dispatcher, clients>>

Leave(d) ==
  /\ tpc[d] = "pop"
  /\ d \in dying
  /\ tpc' = [tpc EXCEPT ![d] = "exited"]
  /\ UNCHANGED <<made, queue, cur, dying, sock, acked, late, wire, dispatcher, clients>>

Send(d) ==
  /\ tpc[d] = "send"
  /\ wire' = wire \cup {[dev |-> d, sock |-> sock[d], n |-> cur[d]]}
  /\ tpc' = [tpc EXCEPT ![d] = "wait"]
  /\ UNCHANGED <<made, queue, cur, dying, sock, acked, late, dispatcher, clients>>

\* "OK" arrives.
Acked(d) ==
  /\ tpc[d] = "wait"
  /\ d \in acked
  /\ acked' = acked \ {d}
  /\ cur' = [cur EXCEPT ![d] = 0]
  /\ tpc' = [tpc EXCEPT ![d] = "pop"]
  /\ UNCHANGED <<made, queue, dying, sock, late, wire, dispatcher, clients>>

\* Mutant: the wait for "OK" has no timeout.
TimeoutMutant(d) == FALSE

\* Mutant: the report that was not acknowledged goes back to the queue.
GivenUpMutant(d) == [queue EXCEPT ![d] = <<cur[d]>> \o @]
GivenUp(d) == queue

\* No "OK" within RCV_TIMEOUT_MS: the socket is replaced and the report given
\* up.  A running dispatcher that has it in its queue will still serve it.
Timeout(d) ==
  /\ tpc[d] = "wait"
  /\ d \notin acked
  /\ \E n \in Unused(d) : sock' = [sock EXCEPT ![d] = n]
  /\ wire' = IF up THEN wire ELSE {r \in wire : r.dev # d \/ r.sock # sock[d]}
  /\ late' = [late EXCEPT ![d] = @ \cup {cur[d]}]
  /\ queue' = GivenUp(d)
  /\ cur' = [cur EXCEPT ![d] = 0]
  /\ tpc' = [tpc EXCEPT ![d] = "pop"]
  /\ UNCHANGED <<made, dying, acked, dispatcher, clients>>

\* die(), from stopEngine: the thread is asked to stop, and joined.
Die(d) ==
  /\ d \notin dying
  /\ dying' = dying \cup {d}
  /\ UNCHANGED <<made, queue, tpc, cur, sock, acked, late, wire, dispatcher, clients>>

HandlerIo(d) == Pop(d) \/ Leave(d) \/ Send(d) \/ Acked(d) \/ Timeout(d)

-----------------------------------------------------------------------------
(* The dispatcher *)

\* th_io receives a report and says OK before it does anything with it.  An OK
\* for a socket that was replaced is dropped.
IoRecv(d) ==
  /\ up
  /\ ioReq = NoReport
  /\ \E r \in {q \in wire : q.dev = d} :
       /\ ioReq' = [dev |-> d, n |-> r.n]
       /\ wire' = wire \ {r}
       /\ acked' = IF tpc[d] = "wait" /\ sock[d] = r.sock THEN acked \cup {d} ELSE acked
  /\ UNCHANGED <<made, queue, tpc, cur, dying, sock, late, up, slots, crashes, clients>>

\* Mutant: the slot is marked when the sender is new in the map only.
MarkedMutant(d) == uptodate \/ Key(d) \notin DOMAIN LastActions
Marked(d) == TRUE

\* map::insert: the action a sender has in the map stays.
Inserted(k, a) ==
  [x \in DOMAIN LastActions \cup {k} |-> IF x \in DOMAIN LastActions THEN LastActions[x] ELSE a]

\* Under action_lock: the last action, and the map while it has room.
IoRecord ==
  /\ up
  /\ ioReq # NoReport
  /\ Cardinality(DOMAIN LastActions \cup {Key(ioReq.dev)}) <= History
  /\ LastAction' = ioReq
  /\ uptodate' = Marked(ioReq.dev)
  /\ LastActions' = Inserted(Key(ioReq.dev), ioReq)
  /\ recorded' = Append(recorded, ioReq)
  /\ ioReq' = NoReport
  /\ UNCHANGED <<handler, wire, up, crashes, clients>>

\* What is left of the dispatcher's state when its process ends.
Gone ==
  /\ up' = FALSE
  /\ ioReq' = NoReport /\ LastAction' = NoReport
  /\ uptodate' = FALSE
  /\ LastActions' = <<>>
  /\ wire' \in {wire, {}}
  /\ users' = {}
  /\ seen' = [u \in Users |-> NoReport]

\* The map has outgrown the history: LastActions.erase(LastActions.end()) frees
\* what is not a node of the map, and the process aborts.
IoOverflow ==
  /\ up
  /\ ioReq # NoReport
  /\ Cardinality(DOMAIN LastActions \cup {Key(ioReq.dev)}) > History
  /\ Gone
  /\ UNCHANGED <<handler, recorded, crashes>>

\* Mutant: GetLastAction leaves its flag set.
LeftMutant == uptodate
Left == FALSE

\* user_handler, under mtx: GetLastAction empties the slot, every client gets it.
Stream ==
  /\ up
  /\ uptodate
  /\ uptodate' = Left
  /\ seen' = [u \in Users |-> IF u \in users THEN LastAction ELSE seen[u]]
  /\ UNCHANGED <<handler, wire, up, ioReq, LastAction, LastActions, recorded, crashes, users>>

\* A client connects and is sent the map, under mtx; a client goes away.
Open(u) ==
  /\ up
  /\ u \notin users
  /\ users' = users \cup {u}
  /\ UNCHANGED <<handler, wire, dispatcher, seen>>

Close(u) ==
  /\ u \in users
  /\ users' = users \ {u}
  /\ seen' = [seen EXCEPT ![u] = NoReport]
  /\ UNCHANGED <<handler, wire, dispatcher>>

DispatcherCrash ==
  /\ up
  /\ crashes < MaxCrashes
  /\ crashes' = crashes + 1
  /\ Gone
  /\ UNCHANGED <<handler, recorded>>

DispatcherRestart ==
  /\ ~up
  /\ up' = TRUE
  /\ UNCHANGED <<handler, wire, ioReq, slots, crashes, clients>>

Next ==
  \/ \E d \in Devs : Dispatch(d) \/ HandlerIo(d) \/ Die(d) \/ IoRecv(d)
  \/ \E u \in Users : Open(u) \/ Close(u)
  \/ IoRecord \/ IoOverflow \/ Stream
  \/ DispatcherCrash \/ DispatcherRestart

\* The threads are scheduled, the service manager restarts the dispatcher, and
\* its REP socket serves its peers in turn.
Fairness ==
  /\ \A d \in Devs : WF_vars(HandlerIo(d)) /\ SF_vars(IoRecv(d))
  /\ WF_vars(IoRecord) /\ WF_vars(IoOverflow) /\ WF_vars(Stream)
  /\ WF_vars(DispatcherRestart)

Spec     == Init /\ [][Next]_vars
FairSpec == Spec /\ Fairness
-----------------------------------------------------------------------------
(* Properties *)

\* The values each variable ranges over; a report that th_io has in hand is one
\* that has left the queue.
TypeOK ==
  /\ made \in [Devs -> 0 .. MaxReports]
  /\ \A d \in Devs : queue[d] \in Seq(1 .. made[d]) /\ Len(queue[d]) <= Cap
  /\ tpc \in [Devs -> {"pop", "send", "wait", "exited"}]
  /\ \A d \in Devs : cur[d] \in 0 .. made[d] /\ (cur[d] # 0 <=> tpc[d] \in {"send", "wait"})
  /\ dying \subseteq Devs
  /\ \A d \in acked : d \in Devs /\ tpc[d] = "wait"
  /\ sock \in [Devs -> Socks]
  /\ \A d \in Devs : late[d] \subseteq 1 .. made[d]
  /\ wire \subseteq [dev : Devs, sock : Socks, n : 1 .. MaxReports]
  /\ up \in BOOLEAN /\ uptodate \in BOOLEAN
  /\ ioReq \in Report \cup {NoReport} /\ LastAction \in Report \cup {NoReport}
  /\ DOMAIN LastActions \subseteq Devs \cup {NoUuid} /\ Cardinality(DOMAIN LastActions) <= History
  /\ \A i \in DOMAIN recorded : recorded[i] \in Report
  /\ users \subseteq Users /\ seen \in [Users -> Report \cup {NoReport}]
  /\ crashes \in 0 .. MaxCrashes

\* The queue holds the newest reports, without a gap, whatever was evicted: a
\* live monitor sees the current state (dispatch).
QueueIsNewest ==
  \A d \in Devs : \A i \in DOMAIN queue[d] : queue[d][i] = made[d] - Len(queue[d]) + i

\* No report is recorded twice, though its sender may have given it up
\* (th_io of the handler never repeats a request).
RecordedOnce == \A i, j \in DOMAIN recorded : recorded[i] = recorded[j] => i = j

\* Reports of one handler are recorded in the order they were made, but for
\* those that were given up and served late.
OutOfOrderOnlyLate ==
  \A i, j \in DOMAIN recorded :
    i < j /\ recorded[i].dev = recorded[j].dev /\ recorded[j].n < recorded[i].n
      => recorded[j].n \in late[recorded[j].dev]

\* A client is up to date whenever the slot is empty: the last frame it got is
\* the last action recorded, unless it has connected since.
StreamFresh ==
  up /\ ~uptodate /\ LastAction # NoReport =>
    \A u \in users : seen[u] \in {NoReport, LastAction}

\* A report leaves a handler that runs, to be recorded, late or lost: neither a
\* slow nor an absent dispatcher stops th_io (its receive timeout).
Holds(d, n) == cur[d] = n \/ \E i \in DOMAIN queue[d] : queue[d][i] = n
ReportLeaves ==
  \A d \in Devs : \A n \in 1 .. MaxReports : Holds(d, n) ~> ~Holds(d, n) \/ d \in dying

\* die() returns: th_io of the handler leaves its loop.
DieReturns == \A d \in Devs : d \in dying ~> tpc[d] = "exited"

\* What was recorded is streamed, or was replaced, or lost with the dispatcher.
SlotIsEmptied == \A a \in Report : uptodate /\ LastAction = a ~> ~uptodate \/ LastAction # a
=============================================================================
