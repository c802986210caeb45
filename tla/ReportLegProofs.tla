-------------------------- MODULE ReportLegProofs --------------------------
(***************************************************************************)
(* Proofs about ReportLeg, for every number of handlers and clients, every *)
(* queue capacity and history and every bound: type correctness, what the  *)
(* bounded queue holds, that no report is recorded twice, that a report    *)
(* recorded out of order is one its handler had given up, and that a       *)
(* client is up to date whenever the slot is empty.                        *)
(***************************************************************************)
EXTENDS ReportLeg, FiniteSetTheorems, TLAPS

\* The type invariant, and that the history is a sequence and the handlers'
\* variables are functions.
TypeInv ==
  /\ TypeOK
  /\ recorded \in Seq(Report)
  /\ queue \in [Devs -> Seq(Nat)] /\ cur \in [Devs -> Nat] /\ late \in [Devs -> SUBSET Nat]

\* The reports of d that have left the handler are numbered up to here: th_io
\* takes them in order, and one it has popped is not sent yet.
SentUpTo(d) == IF tpc[d] = "send" THEN cur[d] - 1 ELSE made[d] - Len(queue[d])

\* What is in hand, on the wire, in the dispatcher's hands or recorded was taken
\* from the queue.
Bounds ==
  /\ \A d \in Devs : cur[d] <= made[d] - Len(queue[d])
  /\ \A r \in wire : r.n <= SentUpTo(r.dev)
  /\ ioReq # NoReport => ioReq.n <= SentUpTo(ioReq.dev)
  /\ \A i \in DOMAIN recorded : recorded[i].n <= SentUpTo(recorded[i].dev)

\* A report that was sent is in one place: on the wire, in the dispatcher's
\* hands, or in the history.
Apart ==
  /\ \A r, s \in wire : r.dev = s.dev /\ r.n = s.n => r = s
  /\ \A r \in wire : ioReq # [dev |-> r.dev, n |-> r.n]
  /\ \A r \in wire, i \in DOMAIN recorded : recorded[i] # [dev |-> r.dev, n |-> r.n]
  /\ \A i \in DOMAIN recorded : recorded[i] # ioReq

\* A socket carries one request: the one its handler waits for.
OwnSocket ==
  \A r \in wire : r.sock = sock[r.dev] =>
    tpc[r.dev] = "wait" /\ cur[r.dev] = r.n /\ r.dev \notin acked

\* What is on the wire is awaited or was given up.
Awaited ==
  \A r \in wire :
    r.n \in late[r.dev] \/ (tpc[r.dev] = "wait" /\ cur[r.dev] = r.n /\ r.dev \notin acked)

\* A report that was overtaken, on the wire, in the dispatcher or in the
\* history, was given up.
Overtaken ==
  /\ \A r, s \in wire : r.dev = s.dev /\ r.n < s.n => r.n \in late[r.dev]
  /\ \A r \in wire : ioReq # NoReport /\ ioReq.dev = r.dev /\ r.n < ioReq.n => r.n \in late[r.dev]
  /\ \A r \in wire, i \in DOMAIN recorded :
       recorded[i].dev = r.dev /\ r.n < recorded[i].n => r.n \in late[r.dev]
  /\ ioReq # NoReport =>
       \A i \in DOMAIN recorded :
         recorded[i].dev = ioReq.dev /\ ioReq.n < recorded[i].n => ioReq.n \in late[ioReq.dev]

\* A dispatcher that is down has no clients and no last action, and who is not
\* connected has seen nothing.
Quiet ==
  /\ ~up => users = {} /\ LastAction = NoReport
  /\ \A u \in Users \ users : seen[u] = NoReport

IInv ==
  /\ TypeInv
  /\ QueueIsNewest
  /\ Bounds /\ Apart /\ RecordedOnce
  /\ OwnSocket /\ Awaited /\ Overtaken /\ OutOfOrderOnlyLate
  /\ Quiet /\ StreamFresh

-----------------------------------------------------------------------------
\* The front of a queue that is not empty, and the rest (Pop).
LEMMA HeadTailFacts ==
  ASSUME NEW S, NEW q \in Seq(S), q # <<>>
  PROVE  /\ Len(q) \in Nat \ {0} /\ Head(q) = q[1] /\ Head(q) \in S
         /\ Tail(q) \in Seq(S) /\ Len(Tail(q)) = Len(q) - 1
         /\ \A i \in 1 .. Len(q) - 1 : Tail(q)[i] = q[i + 1]
  OBVIOUS

\* The history with one more report.
LEMMA AppendFacts ==
  ASSUME NEW S, NEW s \in Seq(S), NEW e \in S
  PROVE  /\ Append(s, e) \in Seq(S)
         /\ Len(Append(s, e)) = Len(s) + 1 /\ Len(s) \in Nat
         /\ DOMAIN s = 1 .. Len(s) /\ DOMAIN Append(s, e) = 1 .. Len(s) + 1
         /\ \A i \in 1 .. Len(s) : Append(s, e)[i] = s[i]
         /\ Append(s, e)[Len(s) + 1] = e
  OBVIOUS

\* A full queue loses its front before the new report joins it (Pushed).
LEMMA PushedFacts ==
  ASSUME NEW S, NEW q \in Seq(S), NEW e \in S, Len(q) <= Cap
  PROVE  /\ Pushed(q, e) \in Seq(S) /\ Len(q) \in Nat
         /\ Len(Pushed(q, e)) <= Cap /\ Len(Pushed(q, e)) \in Nat \ {0}
         /\ Len(Pushed(q, e)) <= Len(q) + 1
  <1>1. Len(q) \in Nat
    OBVIOUS
  <1>2. CASE Len(q) >= Cap
    <2>1. Len(q) = Cap /\ Cap \in Nat \ {0} /\ q # <<>>
      BY <1>1, <1>2, ReportLegAssumption
    <2>2. Tail(q) \in Seq(S) /\ Len(Tail(q)) = Len(q) - 1
      BY <2>1, HeadTailFacts
    <2>3. Pushed(q, e) = Append(Tail(q), e)
      BY <1>2 DEF Pushed
    <2>4. Pushed(q, e) \in Seq(S) /\ Len(Pushed(q, e)) = Len(q)
      BY <1>1, <2>2, <2>3, AppendFacts
    <2> QED
      BY <1>1, <2>1, <2>4
  <1>3. CASE ~(Len(q) >= Cap)
    <2>1. Pushed(q, e) = Append(q, e)
      BY <1>3 DEF Pushed
    <2>2. Pushed(q, e) \in Seq(S) /\ Len(Pushed(q, e)) = Len(q) + 1
      BY <1>1, <2>1, AppendFacts
    <2> QED
      BY <1>1, <1>3, <2>2, ReportLegAssumption
  <1> QED
    BY <1>2, <1>3

\* The m-th report and those right before it.
Newest(q, m) == \A i \in 1 .. Len(q) : q[i] = m - Len(q) + i

\* The newest reports, and one more.
LEMMA NewestAppended ==
  ASSUME NEW m \in Nat, NEW q, q \in Seq(Nat), Newest(q, m)
  PROVE  Newest(Append(q, m + 1), m + 1)
  <1>1. /\ Len(q) \in Nat /\ Len(Append(q, m + 1)) = Len(q) + 1
        /\ Append(q, m + 1)[Len(q) + 1] = m + 1
        /\ \A i \in 1 .. Len(q) : Append(q, m + 1)[i] = q[i]
    OBVIOUS
  <1> SUFFICES ASSUME NEW i \in 1 .. Len(q) + 1
               PROVE  Append(q, m + 1)[i] = m + 1 - (Len(q) + 1) + i
    BY <1>1 DEF Newest
  <1>2. CASE i = Len(q) + 1
    BY <1>1, <1>2
  <1>3. CASE i # Len(q) + 1
    <2>1. i \in 1 .. Len(q)
      BY <1>1, <1>3
    <2>2. Append(q, m + 1)[i] = q[i] /\ q[i] = m - Len(q) + i
      BY <1>1, <2>1 DEF Newest
    <2> QED
      BY <1>1, <2>2
  <1> QED
    BY <1>2, <1>3

\* The newest reports without their oldest.
LEMMA NewestPopped ==
  ASSUME NEW m \in Nat, NEW q, q \in Seq(Nat), q # <<>>, Newest(q, m)
  PROVE  Newest(Tail(q), m)
  <1>1. /\ Len(q) \in Nat \ {0} /\ Len(Tail(q)) = Len(q) - 1
        /\ \A i \in 1 .. Len(q) - 1 : Tail(q)[i] = q[i + 1]
    OBVIOUS
  <1> SUFFICES ASSUME NEW i \in 1 .. Len(Tail(q)) PROVE Tail(q)[i] = m - Len(Tail(q)) + i
    BY DEF Newest
  <1>2. Tail(q)[i] = q[i + 1] /\ i + 1 \in 1 .. Len(q)
    BY <1>1
  <1>3. q[i + 1] = m - Len(q) + (i + 1)
    BY <1>2 DEF Newest
  <1> QED
    BY <1>1, <1>2, <1>3

\* A full queue that drops its front still holds the newest reports.
LEMMA NewestPushed ==
  ASSUME NEW m \in Nat, NEW q, q \in Seq(Nat), Newest(q, m)
  PROVE  Newest(Pushed(q, m + 1), m + 1)
  <1>1. CASE Len(q) >= Cap
    <2>1. q # <<>> /\ Tail(q) \in Seq(Nat)
      BY <1>1, ReportLegAssumption
    <2>2. Pushed(q, m + 1) = Append(Tail(q), m + 1)
      BY <1>1 DEF Pushed
    <2> QED
      BY <2>1, <2>2, NewestPopped, NewestAppended
  <1>2. CASE ~(Len(q) >= Cap)
    BY <1>2, NewestAppended DEF Pushed
  <1> QED
    BY <1>1, <1>2

\* A report is not the absence of one.
LEMMA NoReportFacts == NoReport \notin Report
  BY ReportLegAssumption DEF NoReport, Report

-----------------------------------------------------------------------------
\* The steps, one by one: a case of Next each.
LEMMA Steps ==
  ASSUME [Next]_vars
  PROVE  \/ UNCHANGED vars
         \/ \E d \in Devs : \/ Dispatch(d) \/ Pop(d) \/ Leave(d) \/ Send(d)
                            \/ Acked(d) \/ Timeout(d) \/ Die(d) \/ IoRecv(d)
         \/ \E u \in Users : Open(u) \/ Close(u)
         \/ IoRecord \/ IoOverflow \/ Stream \/ DispatcherCrash \/ DispatcherRestart
  BY DEF Next, HandlerIo

\* What a report passes through.
flow == <<made, queue, tpc, cur, sock, acked, late, wire, ioReq, recorded>>

\* The dispatcher goes down.
Lost == UNCHANGED <<handler, recorded>> /\ ioReq' = NoReport /\ wire' \subseteq wire

\* Which steps touch what is queued, on the wire, received and recorded.
LEMMA FlowSteps ==
  ASSUME [Next]_vars
  PROVE  \/ UNCHANGED flow
         \/ \E d \in Devs : \/ Dispatch(d) \/ Pop(d) \/ Leave(d) \/ Send(d)
                            \/ Acked(d) \/ Timeout(d) \/ IoRecv(d)
         \/ IoRecord \/ Lost
  BY Steps DEF vars, handler, dispatcher, slots, flow, Lost, Gone, Die, Open, Close,
       IoOverflow, Stream, DispatcherCrash, DispatcherRestart

\* The handlers' part of the type invariant, and the rest of it.
TypeHandler ==
  /\ made \in [Devs -> 0 .. MaxReports]
  /\ queue \in [Devs -> Seq(Nat)] /\ cur \in [Devs -> Nat] /\ late \in [Devs -> SUBSET Nat]
  /\ \A d \in Devs : queue[d] \in Seq(1 .. made[d]) /\ Len(queue[d]) <= Cap
  /\ tpc \in [Devs -> {"pop", "send", "wait", "exited"}]
  /\ \A d \in Devs : cur[d] \in 0 .. made[d] /\ (cur[d] # 0 <=> tpc[d] \in {"send", "wait"})
  /\ dying \subseteq Devs
  /\ \A d \in acked : d \in Devs /\ tpc[d] = "wait"
  /\ sock \in [Devs -> Socks]
  /\ \A d \in Devs : late[d] \subseteq 1 .. made[d]

TypeDispatcher ==
  /\ wire \subseteq [dev : Devs, sock : Socks, n : 1 .. MaxReports]
  /\ up \in BOOLEAN /\ uptodate \in BOOLEAN
  /\ ioReq \in Report \cup {NoReport} /\ LastAction \in Report \cup {NoReport}
  /\ DOMAIN LastActions \subseteq Devs \cup {NoUuid} /\ Cardinality(DOMAIN LastActions) <= History
  /\ recorded \in Seq(Report)
  /\ users \subseteq Users /\ seen \in [Users -> Report \cup {NoReport}]
  /\ crashes \in 0 .. MaxCrashes

\* The two parts make up the type invariant.
LEMMA TypeSplit == TypeInv <=> TypeHandler /\ TypeDispatcher
  <1>1. ASSUME recorded \in Seq(Report) PROVE \A i \in DOMAIN recorded : recorded[i] \in Report
    BY <1>1
  <1> QED
    BY <1>1 DEF TypeInv, TypeOK, TypeHandler, TypeDispatcher

\* The map of a dispatcher that has just started fits the history.
LEMMA EmptyMap == Cardinality({}) <= History
  BY FS_EmptySet, ReportLegAssumption

\* All queues, wires and maps are empty at the start.
LEMMA TypeInit == Init => TypeInv
  <1> SUFFICES ASSUME Init PROVE TypeHandler /\ TypeDispatcher
    BY TypeSplit
  <1>1. TypeHandler
    BY ReportLegAssumption DEF Init, TypeHandler
  <1>2. DOMAIN LastActions = {} /\ recorded \in Seq(Report)
    BY DEF Init
  <1>4. Cardinality(DOMAIN LastActions) <= History
    BY <1>2, EmptyMap
  <1>3. TypeDispatcher
    <2>1. wire \subseteq [dev : Devs, sock : Socks, n : 1 .. MaxReports]
          /\ up \in BOOLEAN /\ uptodate \in BOOLEAN
          /\ ioReq \in Report \cup {NoReport} /\ LastAction \in Report \cup {NoReport}
      BY DEF Init
    <2>2. /\ users \subseteq Users /\ seen \in [Users -> Report \cup {NoReport}]
          /\ crashes \in 0 .. MaxCrashes
      BY ReportLegAssumption DEF Init
    <2>3. DOMAIN LastActions \subseteq Devs \cup {NoUuid}
      BY <1>2
    <2> QED
      BY <1>2, <1>4, <2>1, <2>2, <2>3 DEF TypeDispatcher
  <1> QED
    BY <1>1, <1>3

\* The handler's steps, and the one in which the dispatcher answers it.
LEMMA TypeHandlerStep == TypeInv /\ [Next]_vars => TypeHandler'
  <1> SUFFICES ASSUME TypeHandler, TypeDispatcher, [Next]_vars PROVE TypeHandler'
    BY TypeSplit
  <1> USE ReportLegAssumption DEF handler
  <1>1. ASSUME UNCHANGED handler PROVE TypeHandler'
    BY <1>1 DEF TypeHandler
  <1>2. ASSUME NEW d \in Devs, Dispatch(d) PROVE TypeHandler'
    <2>1. made[d] \in Nat /\ made[d] + 1 \in 1 .. made[d] + 1 /\ queue[d] \in Seq(1 .. made[d])
      BY DEF TypeHandler
    <2>2. queue[d] \in Seq(1 .. made[d] + 1)
      BY <2>1
    <2>3. queue'[d] = Pushed(queue[d], made[d] + 1) /\ made'[d] = made[d] + 1
      BY <1>2 DEF Dispatch, TypeHandler
    <2>4. queue'[d] \in Seq(1 .. made'[d]) /\ Len(queue'[d]) <= Cap
      BY <2>1, <2>2, <2>3, PushedFacts DEF TypeHandler
    <2>5. queue'[d] \in Seq(Nat)
      BY <2>1, <2>3, <2>4
    <2>6. queue' \in [Devs -> Seq(Nat)]
          /\ \A e \in Devs : queue'[e] \in Seq(1 .. made'[e]) /\ Len(queue'[e]) <= Cap
      BY <1>2, <2>4, <2>5 DEF Dispatch, TypeHandler
    <2>7. made' \in [Devs -> 0 .. MaxReports] /\ \A e \in Devs : made[e] <= made'[e]
      BY <1>2 DEF Dispatch, TypeHandler
    <2> QED
      BY <1>2, <2>6, <2>7 DEF Dispatch, TypeHandler
  <1>3. ASSUME NEW d \in Devs, Pop(d) PROVE TypeHandler'
    <2>1. queue[d] # <<>> /\ queue[d] \in Seq(1 .. made[d])
      BY <1>3 DEF Pop, TypeHandler
    <2>2. /\ Head(queue[d]) \in 1 .. made[d] /\ Tail(queue[d]) \in Seq(1 .. made[d])
          /\ Len(Tail(queue[d])) <= Cap
      BY <2>1, HeadTailFacts DEF TypeHandler
    <2>3. Tail(queue[d]) \in Seq(Nat)
      BY <2>2, made[d] \in Nat DEF TypeHandler
    <2>4. queue' \in [Devs -> Seq(Nat)]
          /\ \A e \in Devs : queue'[e] \in Seq(1 .. made[e]) /\ Len(queue'[e]) <= Cap
      BY <1>3, <2>2, <2>3 DEF Pop, TypeHandler
    <2>5. /\ cur' \in [Devs -> Nat]
          /\ \A e \in Devs : cur'[e] \in 0 .. made[e] /\ (cur'[e] # 0 <=> tpc'[e] \in {"send", "wait"})
      BY <1>3, <2>2 DEF Pop, TypeHandler
    <2> QED
      BY <1>3, <2>4, <2>5 DEF Pop, TypeHandler
  <1>4. ASSUME NEW d \in Devs, Leave(d) PROVE TypeHandler'
    BY <1>4 DEF Leave, TypeHandler
  <1>5. ASSUME NEW d \in Devs, Send(d) PROVE TypeHandler'
    BY <1>5 DEF Send, TypeHandler
  <1>6. ASSUME NEW d \in Devs, Acked(d) PROVE TypeHandler'
    BY <1>6 DEF Acked, TypeHandler
  <1>7. ASSUME NEW d \in Devs, Timeout(d) PROVE TypeHandler'
    <2>1. sock' \in [Devs -> Socks]
      BY <1>7 DEF Timeout, TypeHandler, Unused
    <2>2. late' \in [Devs -> SUBSET Nat] /\ \A e \in Devs : late'[e] \subseteq 1 .. made[e]
      BY <1>7 DEF Timeout, TypeHandler
    <2> QED
      BY <1>7, <2>1, <2>2 DEF Timeout, TypeHandler, GivenUp
  <1>8. ASSUME NEW d \in Devs, Die(d) PROVE TypeHandler'
    BY <1>8 DEF Die, TypeHandler
  <1>9. ASSUME NEW d \in Devs, IoRecv(d) PROVE TypeHandler'
    BY <1>9 DEF IoRecv, TypeHandler
  <1>10. CASE \E u \in Users : Open(u) \/ Close(u)
    BY <1>1, <1>10 DEF Open, Close
  <1>11. CASE IoRecord \/ IoOverflow \/ Stream \/ DispatcherCrash \/ DispatcherRestart
    BY <1>1, <1>11 DEF IoRecord, IoOverflow, Stream, DispatcherCrash, DispatcherRestart
  <1> QED
    BY <1>1, <1>2, <1>3, <1>4, <1>5, <1>6, <1>7, <1>8, <1>9, <1>10, <1>11, Steps DEF vars

\* The dispatcher's steps, and those that touch the wire.
LEMMA TypeDispatcherStep == TypeInv /\ [Next]_vars => TypeDispatcher'
  <1> SUFFICES ASSUME TypeHandler, TypeDispatcher, [Next]_vars PROVE TypeDispatcher'
    BY TypeSplit
  <1> USE DEF dispatcher, slots, clients
  <1>1. ASSUME UNCHANGED <<wire, dispatcher, clients>> PROVE TypeDispatcher'
    BY <1>1 DEF TypeDispatcher
  <1>2. ASSUME NEW d \in Devs, Dispatch(d) \/ Pop(d) \/ Leave(d) \/ Acked(d) \/ Die(d)
        PROVE TypeDispatcher'
    BY <1>1, <1>2 DEF Dispatch, Pop, Leave, Acked, Die
  <1>3. ASSUME NEW d \in Devs, Send(d) PROVE TypeDispatcher'
    <2>1. cur[d] \in 1 .. MaxReports /\ sock[d] \in Socks
      BY <1>3, ReportLegAssumption DEF Send, TypeHandler
    <2> QED
      BY <1>3, <2>1 DEF Send, TypeDispatcher
  <1>4. ASSUME NEW d \in Devs, Timeout(d) PROVE TypeDispatcher'
    BY <1>4 DEF Timeout, TypeDispatcher
  <1>5. ASSUME NEW d \in Devs, IoRecv(d) PROVE TypeDispatcher'
    BY <1>5 DEF IoRecv, TypeDispatcher, Report
  <1>6. ASSUME NEW u \in Users, Open(u) \/ Close(u) PROVE TypeDispatcher'
    BY <1>6 DEF Open, Close, TypeDispatcher
  <1>7. CASE IoRecord
    <2>1. ioReq \in Report /\ Append(recorded, ioReq) \in Seq(Report)
      BY <1>7, AppendFacts DEF IoRecord, TypeDispatcher
    <2>2. Key(ioReq.dev) \in Devs \cup {NoUuid}
      BY <2>1 DEF Key, Report
    <2>3. DOMAIN LastActions' = DOMAIN LastActions \cup {Key(ioReq.dev)}
      BY <1>7 DEF IoRecord, Inserted
    <2> QED
      BY <1>7, <2>1, <2>2, <2>3 DEF IoRecord, Marked, TypeDispatcher
  <1>8. ASSUME Gone, recorded' = recorded, crashes' \in 0 .. MaxCrashes PROVE TypeDispatcher'
    <2>1. DOMAIN LastActions' = {}
      BY <1>8 DEF Gone
    <2>2. Cardinality(DOMAIN LastActions') <= History
      BY <2>1, EmptyMap
    <2> QED
      BY <1>8, <2>1, <2>2 DEF Gone, TypeDispatcher
  <1>9. CASE IoOverflow
    BY <1>8, <1>9 DEF IoOverflow, TypeDispatcher
  <1>10. CASE DispatcherCrash
    BY <1>8, <1>10, ReportLegAssumption DEF DispatcherCrash, TypeDispatcher
  <1>11. CASE Stream
    BY <1>11 DEF Stream, Left, TypeDispatcher
  <1>12. CASE DispatcherRestart
    BY <1>12 DEF DispatcherRestart, TypeDispatcher
  <1> QED
    BY <1>1, <1>2, <1>3, <1>4, <1>5, <1>6, <1>7, <1>9, <1>10, <1>11, <1>12, Steps DEF vars

\* Both parts of the type invariant are preserved.
LEMMA TypeStep == TypeInv /\ [Next]_vars => TypeInv'
  <1> SUFFICES ASSUME TypeInv, [Next]_vars PROVE TypeInv'
    OBVIOUS
  <1>1. TypeHandler' /\ TypeDispatcher'
    BY TypeHandlerStep, TypeDispatcherStep
  <1>2. (\A i \in DOMAIN recorded : recorded[i] \in Report)'
    BY <1>1 DEF TypeDispatcher
  <1> QED
    BY <1>1, <1>2 DEF TypeInv, TypeOK, TypeHandler, TypeDispatcher

-----------------------------------------------------------------------------
\* What the fields of a report are, wherever it is.
LEMMA Fields ==
  ASSUME TypeInv
  PROVE  /\ \A r \in wire : r.dev \in Devs /\ r.n \in Nat /\ r.n # 0
         /\ ioReq # NoReport => ioReq.dev \in Devs /\ ioReq.n \in Nat
         /\ \A i \in DOMAIN recorded : recorded[i].dev \in Devs /\ recorded[i].n \in Nat
         /\ \A d \in Devs : made[d] \in Nat /\ cur[d] \in Nat /\ Len(queue[d]) \in Nat
         /\ \A d \in Devs : SentUpTo(d) \in Int
  <1>1. TypeHandler /\ TypeDispatcher
    BY TypeSplit
  <1>2. \A r \in wire : r.dev \in Devs /\ r.n \in Nat /\ r.n # 0
    BY <1>1 DEF TypeDispatcher
  <1>3. ioReq # NoReport => ioReq.dev \in Devs /\ ioReq.n \in Nat
    BY <1>1 DEF TypeDispatcher, Report
  <1>4. \A i \in DOMAIN recorded : recorded[i] \in Report
    BY <1>1 DEF TypeDispatcher
  <1>5. \A d \in Devs : made[d] \in Nat /\ cur[d] \in Nat /\ Len(queue[d]) \in Nat
    BY <1>1 DEF TypeHandler
  <1>6. \A d \in Devs : SentUpTo(d) \in Int
    BY <1>5 DEF SentUpTo
  <1> QED
    BY <1>2, <1>3, <1>4, <1>5, <1>6 DEF Report

-----------------------------------------------------------------------------
\* QueueIsNewest, handler by handler.
LEMMA QueueNewest == ASSUME TypeInv PROVE QueueIsNewest <=> \A d \in Devs : Newest(queue[d], made[d])
  <1>1. \A d \in Devs : DOMAIN queue[d] = 1 .. Len(queue[d])
    BY TypeSplit DEF TypeHandler
  <1> QED
    BY <1>1 DEF QueueIsNewest, Newest

\* The queue: a new report joins at the end, the oldest leaves at the front.
LEMMA QueueStep == TypeInv /\ QueueIsNewest /\ [Next]_vars => QueueIsNewest'
  <1> SUFFICES ASSUME TypeInv, QueueIsNewest, [Next]_vars PROVE QueueIsNewest'
    OBVIOUS
  <1>1. TypeHandler /\ \A e \in Devs : DOMAIN queue'[e] = 1 .. Len(queue'[e])
    BY TypeSplit, TypeHandlerStep DEF TypeHandler
  <1> SUFFICES ASSUME NEW e \in Devs PROVE Newest(queue'[e], made'[e])
    BY <1>1 DEF QueueIsNewest, Newest
  <1>2. /\ queue[e] \in Seq(Nat) /\ made[e] \in Nat /\ Len(queue[e]) <= Cap
        /\ Newest(queue[e], made[e])
    BY <1>1, QueueNewest DEF TypeHandler
  <1>3. CASE queue'[e] = queue[e] /\ made'[e] = made[e]
    BY <1>2, <1>3
  <1>4. CASE Dispatch(e)
    <2>1. queue'[e] = Pushed(queue[e], made[e] + 1) /\ made'[e] = made[e] + 1
      BY <1>1, <1>4 DEF Dispatch, TypeHandler
    <2> QED
      BY <1>2, <2>1, NewestPushed
  <1>5. CASE Pop(e)
    <2>1. queue[e] # <<>> /\ queue'[e] = Tail(queue[e]) /\ made'[e] = made[e]
      BY <1>1, <1>5 DEF Pop, TypeHandler
    <2> QED
      BY <1>2, <2>1, NewestPopped
  <1>6. ASSUME NEW d \in Devs, Dispatch(d) \/ Pop(d), d # e
        PROVE  queue'[e] = queue[e] /\ made'[e] = made[e]
    BY <1>1, <1>6 DEF Dispatch, Pop, TypeHandler
  <1>7. ASSUME NEW d \in Devs, Leave(d) \/ Send(d) \/ Acked(d) \/ Timeout(d) \/ IoRecv(d)
        PROVE  queue'[e] = queue[e] /\ made'[e] = made[e]
    BY <1>7 DEF Leave, Send, Acked, Timeout, GivenUp, IoRecv
  <1>8. CASE UNCHANGED flow \/ IoRecord \/ Lost
    BY <1>3, <1>8 DEF flow, IoRecord, Lost, handler
  <1> QED
    BY <1>3, <1>4, <1>5, <1>6, <1>7, <1>8, FlowSteps

\* What left the handler has left it for good: th_io takes reports in order.
LEMMA SentGrows ==
  ASSUME TypeInv, QueueIsNewest, Bounds, [Next]_vars, NEW e \in Devs
  PROVE  SentUpTo(e) \in Int /\ SentUpTo(e)' \in Int /\ SentUpTo(e) <= SentUpTo(e)'
  <1>1. TypeHandler
    BY TypeSplit
  <1>0. SentUpTo(e) \in Int /\ SentUpTo(e)' \in Int
    <2>1. made'[e] \in Nat /\ Len(queue'[e]) \in Nat /\ cur'[e] \in Nat
      BY TypeHandlerStep DEF TypeHandler
    <2> QED
      BY <2>1, Fields DEF SentUpTo
  <1> SUFFICES SentUpTo(e) <= SentUpTo(e)'
    BY <1>0
  <1>2. /\ queue[e] \in Seq(Nat) /\ made[e] \in Nat /\ Len(queue[e]) \in Nat /\ cur[e] \in Nat
        /\ Len(queue[e]) <= Cap /\ cur[e] <= made[e] - Len(queue[e])
        /\ \A i \in 1 .. Len(queue[e]) : queue[e][i] = made[e] - Len(queue[e]) + i
    BY <1>1 DEF TypeHandler, QueueIsNewest, Bounds
  <1>3. ASSUME queue'[e] = queue[e], made'[e] = made[e], cur'[e] = cur[e],
               tpc'[e] = "send" <=> tpc[e] = "send"
        PROVE  SentUpTo(e) <= SentUpTo(e)'
    BY <1>2, <1>3 DEF SentUpTo
  <1>4. CASE Dispatch(e)
    <2>1. queue'[e] = Pushed(queue[e], made[e] + 1) /\ made'[e] = made[e] + 1
          /\ tpc'[e] = tpc[e] /\ cur'[e] = cur[e]
      BY <1>1, <1>4 DEF Dispatch, TypeHandler
    <2>2. Len(queue'[e]) \in Nat /\ Len(queue'[e]) <= Len(queue[e]) + 1
      BY <1>2, <2>1, PushedFacts
    <2> QED
      BY <1>2, <2>1, <2>2 DEF SentUpTo
  <1>5. CASE Pop(e)
    <2>1. /\ queue[e] # <<>> /\ tpc[e] = "pop" /\ tpc'[e] = "send" /\ cur'[e] = Head(queue[e])
      BY <1>1, <1>5 DEF Pop, TypeHandler
    <2>2. cur'[e] = made[e] - Len(queue[e]) + 1
      BY <1>2, <2>1, HeadTailFacts
    <2> QED
      BY <1>2, <2>1, <2>2 DEF SentUpTo
  <1>6. CASE Send(e)
    <2>1. tpc[e] = "send" /\ tpc'[e] = "wait" /\ made'[e] = made[e] /\ queue'[e] = queue[e]
      BY <1>1, <1>6 DEF Send, TypeHandler
    <2> QED
      BY <1>2, <2>1 DEF SentUpTo
  <1>7. CASE Acked(e) \/ Timeout(e) \/ Leave(e)
    <2>1. tpc[e] # "send" /\ tpc'[e] # "send" /\ made'[e] = made[e] /\ queue'[e] = queue[e]
      BY <1>1, <1>7 DEF Acked, Timeout, GivenUp, Leave, TypeHandler
    <2> QED
      BY <1>2, <2>1 DEF SentUpTo
  <1>8. ASSUME NEW d \in Devs, d # e,
               Dispatch(d) \/ Pop(d) \/ Leave(d) \/ Send(d) \/ Acked(d) \/ Timeout(d)
        PROVE  queue'[e] = queue[e] /\ made'[e] = made[e] /\ cur'[e] = cur[e] /\ tpc'[e] = tpc[e]
    BY <1>1, <1>8 DEF Dispatch, Pop, Leave, Send, Acked, Timeout, GivenUp, TypeHandler
  <1>9. CASE UNCHANGED flow \/ IoRecord \/ Lost \/ \E d \in Devs : IoRecv(d)
    BY <1>3, <1>9 DEF flow, IoRecord, Lost, handler, IoRecv
  <1> QED
    BY <1>3, <1>4, <1>5, <1>6, <1>7, <1>8, <1>9, FlowSteps

\* Nothing is sent that was not taken from the queue, nothing is received that
\* was not sent, nothing is recorded that was not received.
LEMMA BoundsStep == TypeInv /\ QueueIsNewest /\ Bounds /\ [Next]_vars => Bounds'
  <1> SUFFICES ASSUME TypeInv, QueueIsNewest, Bounds, [Next]_vars PROVE Bounds'
    OBVIOUS
  <1>1. TypeHandler /\ TypeDispatcher
    BY TypeSplit
  <1>2. \A e \in Devs : SentUpTo(e) \in Int /\ SentUpTo(e)' \in Int /\ SentUpTo(e) <= SentUpTo(e)'
    BY SentGrows
  <1>3. ASSUME NEW e \in Devs PROVE cur'[e] <= made'[e] - Len(queue'[e])
    <2>1. /\ queue[e] \in Seq(Nat) /\ made[e] \in Nat /\ Len(queue[e]) \in Nat /\ cur[e] \in Nat
          /\ Len(queue[e]) <= Cap /\ cur[e] <= made[e] - Len(queue[e]) /\ Newest(queue[e], made[e])
      BY <1>1, QueueNewest DEF TypeHandler, Bounds
    <2>2. ASSUME made'[e] = made[e], queue'[e] = queue[e], cur'[e] \in {cur[e], 0}
          PROVE  cur'[e] <= made'[e] - Len(queue'[e])
      BY <2>1, <2>2
    <2>3. CASE Dispatch(e)
      <3>1. queue'[e] = Pushed(queue[e], made[e] + 1) /\ made'[e] = made[e] + 1 /\ cur'[e] = cur[e]
        BY <1>1, <2>3 DEF Dispatch, TypeHandler
      <3>2. Len(queue'[e]) \in Nat /\ Len(queue'[e]) <= Len(queue[e]) + 1
        BY <2>1, <3>1, PushedFacts
      <3> QED
        BY <2>1, <3>1, <3>2
    <2>4. CASE Pop(e)
      <3>1. /\ queue[e] # <<>> /\ queue'[e] = Tail(queue[e]) /\ made'[e] = made[e]
            /\ cur'[e] = Head(queue[e])
        BY <1>1, <2>4 DEF Pop, TypeHandler
      <3>2. Len(queue'[e]) = Len(queue[e]) - 1 /\ cur'[e] = made[e] - Len(queue[e]) + 1
        BY <2>1, <3>1, HeadTailFacts DEF Newest
      <3> QED
        BY <2>1, <3>1, <3>2
    <2>5. ASSUME NEW d \in Devs,
                 \/ d # e /\ (Dispatch(d) \/ Pop(d))
                 \/ Leave(d) \/ Send(d) \/ Acked(d) \/ Timeout(d) \/ IoRecv(d)
          PROVE  made'[e] = made[e] /\ queue'[e] = queue[e] /\ cur'[e] \in {cur[e], 0}
      BY <1>1, <2>5 DEF Dispatch, Pop, Leave, Send, Acked, Timeout, GivenUp, IoRecv, TypeHandler
    <2>6. CASE UNCHANGED flow \/ IoRecord \/ Lost
      BY <2>2, <2>6 DEF flow, IoRecord, Lost, handler
    <2> QED
      BY <2>2, <2>3, <2>4, <2>5, <2>6, FlowSteps
  <1>4. ASSUME NEW r \in wire' PROVE r.n <= SentUpTo(r.dev)'
    <2>1. CASE r \in wire
      BY <1>2, <2>1, Fields DEF Bounds
    <2>2. ASSUME NEW d \in Devs, Send(d), r \notin wire PROVE r.n <= SentUpTo(r.dev)'
      <3>1. r = [dev |-> d, sock |-> sock[d], n |-> cur[d]]
        BY <2>2 DEF Send
      <3>2. tpc'[d] = "wait" /\ made'[d] = made[d] /\ queue'[d] = queue[d]
        BY <1>1, <2>2 DEF Send, TypeHandler
      <3> QED
        BY <3>1, <3>2 DEF SentUpTo, Bounds
    <2>3. ASSUME NEW d \in Devs,
                 Dispatch(d) \/ Pop(d) \/ Leave(d) \/ Acked(d) \/ Timeout(d) \/ IoRecv(d)
          PROVE  r \in wire
      BY <2>3 DEF Dispatch, Pop, Leave, Acked, Timeout, IoRecv
    <2>4. CASE UNCHANGED flow \/ IoRecord \/ Lost
      BY <2>1, <2>4 DEF flow, IoRecord, Lost
    <2> QED
      BY <2>1, <2>2, <2>3, <2>4, FlowSteps
  <1>5. ASSUME ioReq' # NoReport PROVE ioReq'.n <= SentUpTo(ioReq.dev)'
    <2>1. CASE ioReq' = ioReq
      BY <1>2, <1>5, <2>1, Fields DEF Bounds
    <2>2. ASSUME NEW d \in Devs, IoRecv(d) PROVE ioReq'.n <= SentUpTo(ioReq.dev)'
      <3>1. PICK r \in wire : r.dev = d /\ ioReq' = [dev |-> d, n |-> r.n]
        BY <2>2 DEF IoRecv
      <3> QED
        BY <1>2, <3>1, Fields DEF Bounds
    <2>3. ASSUME NEW d \in Devs,
                 Dispatch(d) \/ Pop(d) \/ Leave(d) \/ Send(d) \/ Acked(d) \/ Timeout(d)
          PROVE  ioReq' = ioReq
      BY <2>3 DEF Dispatch, Pop, Leave, Send, Acked, Timeout, dispatcher
    <2> QED
      BY <1>5, <2>1, <2>2, <2>3, FlowSteps DEF flow, IoRecord, Lost
  <1>6. ASSUME NEW i \in DOMAIN recorded' PROVE recorded'[i].n <= SentUpTo(recorded[i].dev)'
    <2>1. CASE recorded' = recorded
      BY <1>2, <2>1, Fields DEF Bounds
    <2>2. CASE IoRecord
      <3>1. ioReq # NoReport /\ ioReq \in Report /\ recorded' = Append(recorded, ioReq)
        BY <1>1, <2>2 DEF IoRecord, TypeDispatcher
      <3>2. (i \in DOMAIN recorded /\ recorded'[i] = recorded[i]) \/ recorded'[i] = ioReq
        BY <1>1, <3>1, AppendFacts DEF TypeDispatcher
      <3> QED
        BY <1>2, <3>1, <3>2, Fields DEF Bounds
    <2>3. ASSUME NEW d \in Devs,
                 \/ Dispatch(d) \/ Pop(d) \/ Leave(d) \/ Send(d) \/ Acked(d) \/ Timeout(d)
                 \/ IoRecv(d)
          PROVE  recorded' = recorded
      BY <2>3 DEF Dispatch, Pop, Leave, Send, Acked, Timeout, IoRecv, dispatcher, slots
    <2> QED
      BY <2>1, <2>2, <2>3, FlowSteps DEF flow, Lost
  <1> QED
    BY <1>3, <1>4, <1>5, <1>6 DEF Bounds

-----------------------------------------------------------------------------
\* Which steps move a report on: to the wire, to the dispatcher, to the history.
\* The others leave it where it is, or lose it.
Stays == wire' \subseteq wire /\ ioReq' \in {ioReq, NoReport} /\ recorded' = recorded

\* Where a report can be after a step: where it was, or one place further.
LEMMA PlaceSteps ==
  ASSUME [Next]_vars
  PROVE  Stays \/ (\E d \in Devs : Send(d) \/ IoRecv(d)) \/ IoRecord
  BY FlowSteps DEF Stays, flow, Lost, Dispatch, Pop, Leave, Acked, Timeout, dispatcher, slots

\* A report that is recorded was in the dispatcher's hands, so in no other place.
LEMMA RecordStep ==
  ASSUME TypeInv, IoRecord
  PROVE  /\ ioReq \in Report /\ ioReq # NoReport /\ ioReq' = NoReport /\ wire' = wire
         /\ DOMAIN recorded = 1 .. Len(recorded) /\ Len(recorded) \in Nat
         /\ DOMAIN recorded' = 1 .. Len(recorded) + 1
         /\ \A i \in DOMAIN recorded : recorded'[i] = recorded[i]
         /\ recorded'[Len(recorded) + 1] = ioReq
  BY TypeSplit, AppendFacts DEF IoRecord, TypeDispatcher

\* A report is sent once, and what is sent is new.
LEMMA ApartStep == TypeInv /\ Bounds /\ Apart /\ [Next]_vars => Apart'
  <1> SUFFICES ASSUME TypeInv, Bounds, Apart, [Next]_vars PROVE Apart'
    OBVIOUS
  <1>1. TypeHandler /\ TypeDispatcher
    BY TypeSplit
  <1>2. \A i \in DOMAIN recorded : recorded[i] \in Report
    BY <1>1 DEF TypeDispatcher
  <1>3. CASE Stays
    <2>1. \A r \in wire : [dev |-> r.dev, n |-> r.n] # NoReport
      BY Fields DEF NoReport
    <2>2. \A i \in DOMAIN recorded : recorded[i] # NoReport
      BY <1>2, NoReportFacts
    <2> QED
      BY <1>3, <2>1, <2>2 DEF Stays, Apart
  <1>4. ASSUME NEW d \in Devs, Send(d) PROVE Apart'
    <2>1. /\ wire' = wire \cup {[dev |-> d, sock |-> sock[d], n |-> cur[d]]}
          /\ ioReq' = ioReq /\ recorded' = recorded /\ SentUpTo(d) = cur[d] - 1 /\ cur[d] \in Nat
      BY <1>1, <1>4 DEF Send, dispatcher, slots, SentUpTo, TypeHandler
    <2>2. \A r \in wire : ~(r.dev = d /\ r.n = cur[d])
      BY <2>1, Fields DEF Bounds
    <2>3. ioReq # [dev |-> d, n |-> cur[d]]
      BY <2>1, Fields, ReportLegAssumption DEF Bounds, NoReport
    <2>4. \A i \in DOMAIN recorded : recorded[i] # [dev |-> d, n |-> cur[d]]
      BY <2>1, Fields DEF Bounds
    <2> QED
      BY <2>1, <2>2, <2>3, <2>4 DEF Apart
  <1>5. ASSUME NEW d \in Devs, IoRecv(d) PROVE Apart'
    <2>1. PICK r \in wire : /\ r.dev = d /\ ioReq' = [dev |-> d, n |-> r.n]
                            /\ wire' = wire \ {r} /\ recorded' = recorded
      BY <1>5 DEF IoRecv, slots
    <2> QED
      BY <2>1 DEF Apart
  <1>6. CASE IoRecord
    <2>1. \A i \in DOMAIN recorded' : recorded'[i] = ioReq \/ (i \in DOMAIN recorded /\ recorded'[i] = recorded[i])
      BY <1>6, RecordStep
    <2>2. \A r \in wire : [dev |-> r.dev, n |-> r.n] \in Report
      BY <1>1 DEF TypeDispatcher, Report
    <2> QED
      BY <1>2, <1>6, <2>1, <2>2, RecordStep, NoReportFacts DEF Apart
  <1> QED
    BY <1>3, <1>4, <1>5, <1>6, PlaceSteps

\* A report that is recorded was not recorded before.
LEMMA OnceStep == TypeInv /\ Apart /\ RecordedOnce /\ [Next]_vars => RecordedOnce'
  <1> SUFFICES ASSUME TypeInv, Apart, RecordedOnce, [Next]_vars PROVE RecordedOnce'
    OBVIOUS
  <1>1. CASE recorded' = recorded
    BY <1>1 DEF RecordedOnce
  <1>2. CASE IoRecord
    BY <1>2, RecordStep DEF RecordedOnce, Apart
  <1> QED
    BY <1>1, <1>2, PlaceSteps DEF Stays, Send, IoRecv, dispatcher, slots

-----------------------------------------------------------------------------
\* A socket carries the request its handler waits for, and a socket that was
\* given up is not used while its request is about; what else is on the wire
\* was given up.
LEMMA AwaitedStep ==
  TypeInv /\ Apart /\ OwnSocket /\ Awaited /\ [Next]_vars => OwnSocket' /\ Awaited'
  <1> SUFFICES ASSUME TypeInv, Apart, OwnSocket, Awaited, [Next]_vars PROVE OwnSocket' /\ Awaited'
    OBVIOUS
  <1>1. TypeHandler /\ TypeDispatcher
    BY TypeSplit
  <1>2. CASE UNCHANGED flow
    BY <1>2 DEF flow, OwnSocket, Awaited
  <1>3. ASSUME NEW d \in Devs, Dispatch(d) PROVE OwnSocket' /\ Awaited'
    BY <1>3 DEF Dispatch, OwnSocket, Awaited
  <1>4. ASSUME NEW d \in Devs, Pop(d) \/ Leave(d) PROVE OwnSocket' /\ Awaited'
    <2>1. /\ tpc[d] = "pop" /\ wire' = wire /\ sock' = sock /\ acked' = acked /\ late' = late
          /\ \A e \in Devs : e # d => tpc'[e] = tpc[e] /\ cur'[e] = cur[e]
      BY <1>1, <1>4 DEF Pop, Leave, TypeHandler
    <2> QED
      BY <2>1, Fields DEF OwnSocket, Awaited
  <1>5. ASSUME NEW d \in Devs, Send(d) PROVE OwnSocket' /\ Awaited'
    <2>1. /\ tpc[d] = "send" /\ tpc'[d] = "wait" /\ cur' = cur /\ sock' = sock
          /\ acked' = acked /\ late' = late
          /\ wire' = wire \cup {[dev |-> d, sock |-> sock[d], n |-> cur[d]]}
          /\ \A e \in Devs : e # d => tpc'[e] = tpc[e]
      BY <1>1, <1>5 DEF Send, TypeHandler
    <2>2. d \notin acked
      BY <1>1, <2>1 DEF TypeHandler
    <2> QED
      BY <2>1, <2>2, Fields DEF OwnSocket, Awaited
  <1>6. ASSUME NEW d \in Devs, Acked(d) PROVE OwnSocket' /\ Awaited'
    <2>1. /\ d \in acked /\ acked' = acked \ {d} /\ wire' = wire /\ sock' = sock /\ late' = late
          /\ \A e \in Devs : e # d => tpc'[e] = tpc[e] /\ cur'[e] = cur[e]
      BY <1>1, <1>6 DEF Acked, TypeHandler
    <2> QED
      BY <2>1, Fields DEF OwnSocket, Awaited
  <1>7. ASSUME NEW d \in Devs, Timeout(d) PROVE OwnSocket' /\ Awaited'
    <2>1. /\ wire' \subseteq wire /\ acked' = acked /\ sock'[d] \notin Used(d)
          /\ late'[d] = late[d] \cup {cur[d]}
          /\ \A e \in Devs : e # d => /\ tpc'[e] = tpc[e] /\ cur'[e] = cur[e]
                                      /\ late'[e] = late[e] /\ sock'[e] = sock[e]
      BY <1>1, <1>7 DEF Timeout, TypeHandler, Unused
    <2>2. \A r \in wire : r.dev = d => r.sock # sock'[d]
      BY <2>1 DEF Used
    <2> QED
      BY <2>1, <2>2, Fields DEF OwnSocket, Awaited
  <1>8. ASSUME NEW d \in Devs, IoRecv(d) PROVE OwnSocket' /\ Awaited'
    <2>1. PICK r \in wire :
            /\ r.dev = d /\ wire' = wire \ {r} /\ tpc' = tpc /\ cur' = cur /\ sock' = sock
            /\ late' = late
            /\ acked' = IF tpc[d] = "wait" /\ sock[d] = r.sock THEN acked \cup {d} ELSE acked
      BY <1>8 DEF IoRecv
    <2>2. CASE r.sock = sock[d]
      <3>1. tpc[d] = "wait" /\ cur[d] = r.n
        BY <2>1, <2>2 DEF OwnSocket
      <3>2. \A q \in wire' : q.dev = d => q.n # cur[d]
        BY <2>1, <3>1 DEF Apart
      <3> QED
        BY <2>1, <3>2 DEF OwnSocket, Awaited
    <2>3. CASE r.sock # sock[d]
      BY <2>1, <2>3 DEF OwnSocket, Awaited
    <2> QED
      BY <2>2, <2>3
  <1>9. CASE IoRecord \/ Lost
    BY <1>9 DEF IoRecord, Lost, handler, OwnSocket, Awaited
  <1> QED
    BY <1>2, <1>3, <1>4, <1>5, <1>6, <1>7, <1>8, <1>9, FlowSteps

-----------------------------------------------------------------------------
\* A report that was given up stays so.
LEMMA LateGrows ==
  ASSUME TypeInv, [Next]_vars, NEW e \in Devs
  PROVE  late[e] \subseteq late'[e]
  <1>1. TypeHandler
    BY TypeSplit
  <1>2. ASSUME NEW d \in Devs, Timeout(d) PROVE late[e] \subseteq late'[e]
    BY <1>1, <1>2 DEF Timeout, TypeHandler
  <1> QED
    BY <1>2, FlowSteps DEF flow, Dispatch, Pop, Leave, Send, Acked, IoRecv, IoRecord, Lost, handler

\* Reports overtake only those that were given up: th_io sends the next one when
\* the last was acknowledged or given up, and the dispatcher serves one at a time.
LEMMA OvertakenStep ==
  TypeInv /\ Bounds /\ Awaited /\ Overtaken /\ [Next]_vars => Overtaken'
  <1> SUFFICES ASSUME TypeInv, Bounds, Awaited, Overtaken, [Next]_vars PROVE Overtaken'
    OBVIOUS
  <1>1. TypeHandler /\ TypeDispatcher
    BY TypeSplit
  <1>2. \A e \in Devs : late[e] \subseteq late'[e]
    BY LateGrows
  <1>3. CASE Stays
    BY <1>2, <1>3, Fields DEF Stays, Overtaken
  <1>4. ASSUME NEW d \in Devs, Send(d) PROVE Overtaken'
    <2>1. /\ wire' = wire \cup {[dev |-> d, sock |-> sock[d], n |-> cur[d]]}
          /\ ioReq' = ioReq /\ recorded' = recorded /\ late' = late
          /\ SentUpTo(d) = cur[d] - 1 /\ cur[d] \in Nat /\ tpc[d] = "send"
      BY <1>1, <1>4 DEF Send, dispatcher, slots, SentUpTo, TypeHandler
    <2>2. \A r \in wire : r.dev = d => r.n < cur[d] /\ r.n \in late[d]
      BY <2>1, Fields DEF Bounds, Awaited
    <2>3. ioReq # NoReport /\ ioReq.dev = d => ~(cur[d] < ioReq.n)
      BY <2>1, Fields DEF Bounds
    <2>4. \A i \in DOMAIN recorded : recorded[i].dev = d => ~(cur[d] < recorded[i].n)
      BY <2>1, Fields DEF Bounds
    <2>5. \A r, s \in wire' : r.dev = s.dev /\ r.n < s.n => r.n \in late[r.dev]
      BY <2>1, <2>2, Fields DEF Overtaken
    <2> QED
      BY <2>1, <2>3, <2>4, <2>5 DEF Overtaken
  <1>5. ASSUME NEW d \in Devs, IoRecv(d) PROVE Overtaken'
    <2>1. PICK r \in wire : /\ r.dev = d /\ ioReq' = [dev |-> d, n |-> r.n]
                            /\ wire' = wire \ {r} /\ recorded' = recorded /\ late' = late
      BY <1>5 DEF IoRecv, slots
    <2> QED
      BY <2>1 DEF Overtaken
  <1>6. CASE IoRecord
    <2>1. late' = late
      BY <1>6 DEF IoRecord, handler
    <2> QED
      BY <1>6, <2>1, RecordStep DEF Overtaken
  <1> QED
    BY <1>3, <1>4, <1>5, <1>6, PlaceSteps

\* A report that is overtaken was given up, and stays so.
LEMMA OrderStep ==
  TypeInv /\ Overtaken /\ OutOfOrderOnlyLate /\ [Next]_vars => OutOfOrderOnlyLate'
  <1> SUFFICES ASSUME TypeInv, Overtaken, OutOfOrderOnlyLate, [Next]_vars PROVE OutOfOrderOnlyLate'
    OBVIOUS
  <1>1. \A e \in Devs : late[e] \subseteq late'[e]
    BY LateGrows
  <1>2. CASE recorded' = recorded
    BY <1>1, <1>2, Fields DEF OutOfOrderOnlyLate
  <1>3. CASE IoRecord
    <2>1. late' = late
      BY <1>3 DEF IoRecord, handler
    <2> QED
      BY <1>3, <2>1, RecordStep DEF OutOfOrderOnlyLate, Overtaken
  <1> QED
    BY <1>2, <1>3, PlaceSteps DEF Stays, Send, IoRecv, dispatcher, slots

-----------------------------------------------------------------------------
\* The slot and the clients: user_handler empties it for all of them.
LEMMA FreshStep == TypeInv /\ Quiet /\ StreamFresh /\ [Next]_vars => Quiet' /\ StreamFresh'
  <1> SUFFICES ASSUME TypeInv, Quiet, StreamFresh, [Next]_vars PROVE Quiet' /\ StreamFresh'
    OBVIOUS
  <1>1. TypeDispatcher
    BY TypeSplit
  <1>2. ASSUME UNCHANGED <<up, LastAction, uptodate, clients>> PROVE Quiet' /\ StreamFresh'
    BY <1>2 DEF clients, Quiet, StreamFresh
  <1>3. ASSUME NEW d \in Devs, \/ Dispatch(d) \/ Pop(d) \/ Leave(d) \/ Send(d) \/ Acked(d)
                               \/ Timeout(d) \/ Die(d) \/ IoRecv(d)
        PROVE  UNCHANGED <<up, LastAction, uptodate, clients>>
    BY <1>3 DEF Dispatch, Pop, Leave, Send, Acked, Timeout, Die, IoRecv, dispatcher, slots
  <1>4. ASSUME NEW u \in Users, Open(u) PROVE Quiet' /\ StreamFresh'
    BY <1>4 DEF Open, dispatcher, slots, Quiet, StreamFresh
  <1>5. ASSUME NEW u \in Users, Close(u) PROVE Quiet' /\ StreamFresh'
    BY <1>1, <1>5 DEF Close, dispatcher, slots, Quiet, StreamFresh, TypeDispatcher
  <1>6. CASE IoRecord
    BY <1>6 DEF IoRecord, Marked, clients, Quiet, StreamFresh
  <1>7. CASE Stream
    BY <1>1, <1>7 DEF Stream, Left, Quiet, StreamFresh, TypeDispatcher
  <1>8. CASE IoOverflow \/ DispatcherCrash
    BY <1>8 DEF IoOverflow, DispatcherCrash, Gone, Quiet, StreamFresh
  <1>9. CASE DispatcherRestart
    BY <1>9 DEF DispatcherRestart, slots, clients, Quiet, StreamFresh
  <1>10. CASE UNCHANGED vars
    BY <1>2, <1>10 DEF vars, dispatcher, slots
  <1> QED
    BY <1>2, <1>3, <1>4, <1>5, <1>6, <1>7, <1>8, <1>9, <1>10, Steps

-----------------------------------------------------------------------------
\* No report exists at the start.
LEMMA InvInit == Init => IInv
  <1> SUFFICES ASSUME Init PROVE IInv
    OBVIOUS
  <1>1. TypeInv
    BY TypeInit
  <1>2. QueueIsNewest /\ Bounds
    BY DEF Init, QueueIsNewest, Bounds, SentUpTo
  <1>3. Apart /\ RecordedOnce /\ OwnSocket /\ Awaited /\ Overtaken /\ OutOfOrderOnlyLate
    BY DEF Init, Apart, RecordedOnce, OwnSocket, Awaited, Overtaken, OutOfOrderOnlyLate
  <1>4. Quiet /\ StreamFresh
    BY DEF Init, Quiet, StreamFresh
  <1> QED
    BY <1>1, <1>2, <1>3, <1>4 DEF IInv

\* Every part of the invariant is preserved, given the others.
LEMMA InvStep == IInv /\ [Next]_vars => IInv'
  BY TypeStep, QueueStep, BoundsStep, ApartStep, OnceStep, AwaitedStep, OvertakenStep,
     OrderStep, FreshStep DEF IInv

\* The strengthened invariant from which the properties of the leg follow: a
\* report is in one place, and what has overtaken it was given up.
THEOREM Invariant == Spec => []IInv
  BY InvInit, InvStep, PTL DEF Spec

\* Every variable keeps its range: the queue of th_io never outgrows
\* STACKED_IO_MSG, the map of the dispatcher never outgrows its history.
THEOREM Typing == Spec => []TypeOK
  BY Invariant, PTL DEF IInv, TypeInv

\* The bounded queue holds the newest reports without a gap: what the drop of the
\* oldest in dispatch is for.
THEOREM NewestKept == Spec => []QueueIsNewest
  BY Invariant, PTL DEF IInv

\* No report enters the history twice, though requests are abandoned and served
\* late, and the dispatcher is restarted: th_io never repeats a request.
THEOREM Once == Spec => []RecordedOnce
  BY Invariant, PTL DEF IInv

\* Only a report that its handler had given up is recorded after a younger one.
THEOREM OrderKept == Spec => []OutOfOrderOnlyLate
  BY Invariant, PTL DEF IInv

\* When the slot is empty every client has the last action, or has just come.
THEOREM Fresh == Spec => []StreamFresh
  BY Invariant, PTL DEF IInv
=============================================================================
