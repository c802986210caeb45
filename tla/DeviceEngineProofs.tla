------------------------- MODULE DeviceEngineProofs -------------------------
(***************************************************************************)
(* Proofs about DeviceEngine, for every handler kind, every set of profile *)
(* versions and rule shapes and every bound: type correctness, the order   *)
(* and the accounting of the output batches, mutual exclusion of Reload    *)
(* and enqueue, the log flag, the clean stop, and that the engine keeps    *)
(* the promise of OutputStream.                                            *)
(***************************************************************************)
EXTENDS DeviceEngine, TLAPS

\* out_func holds a batch exactly while it executes it.
OutLocal ==
  /\ opc \in {"none", "top", "lock", "exited"} => toSend = NoBatch
  /\ opc = "exec" => toSend # NoBatch

\* The threads start after the engine and before the spin loop; Stop joins the
\* reader, stopEngine the others in turn; a crash takes all of them.
Lifecycle ==
  /\ mpc \notin {"run", "join_reader", "dead"} => rpc \in {"none", "exited"}
  /\ mpc \in {"ctor", "spawn_out"} => opc = "none"
  /\ mpc \in {"join_coms", "done"} => opc \in {"none", "exited"}
  /\ mpc \in {"ctor", "spawn_out", "spawn_coms"} => cpc = "none"
  /\ mpc = "done" => cpc \in {"none", "exited"}
  /\ mpc = "dead" => rpc = "dead" /\ opc = "dead" /\ cpc = "dead"
  /\ rpc = "dead" \/ opc = "dead" \/ cpc = "dead" => mpc = "dead"

\* The logging flag says that the stream is open, but while stopEngine closes it.
LogFlag ==
  /\ outToFile => stream = "open" \/ mpc \in {"clear_flag", "dead"}
  /\ cpc = "outstop_close" => ~outToFile

-----------------------------------------------------------------------------
\* What Append, Head and Tail do to a sequence, index by index.
LEMMA AppendFacts ==
  ASSUME NEW S, NEW s \in Seq(S), NEW e \in S
  PROVE  /\ Append(s, e) \in Seq(S)
         /\ Len(Append(s, e)) = Len(s) + 1
         /\ \A i \in 1 .. Len(s) : Append(s, e)[i] = s[i]
         /\ Append(s, e)[Len(s) + 1] = e
  OBVIOUS

\* The same for the front and the rest of a queue that is not empty (pop).
LEMMA HeadTailFacts ==
  ASSUME NEW S, NEW s \in Seq(S), s # <<>>
  PROVE  /\ Len(s) \in Nat \ {0}
         /\ Head(s) = s[1]
         /\ Head(s) \in S
         /\ Tail(s) \in Seq(S)
         /\ Len(Tail(s)) = Len(s) - 1
         /\ \A i \in 1 .. Len(s) - 1 : Tail(s)[i] = s[i + 1]
  OBVIOUS

-----------------------------------------------------------------------------
\* Which steps touch which part of the state.
LEMMA ConfSteps ==
  [Next]_vars => \/ UNCHANGED conf
                 \/ EditFile \/ StartEngine \/ RuleMatches \/ ChangeMode
                 \/ ChangeModeTorn \/ ReloadClear \/ ParseMode
  BY DEF Next, vars, Stop, Terminated,
         Main, OpenFails, SpawnOut, SpawnComs, SpawnReader, JoinReader, CloseLog,
         CloseStream, ClearFlag, JoinOut, JoinComs,
         Reader, ReaderTop, Poll, Unplug, Report, WriteLog, RulesDone, ServiceHolds,
         StaleRules, RaceKills,
         Out, OutTop, OutPop, OutExecute, OutFinish,
         Coms, ComsTop, Heartbeat, ParseDone, ReloadHeader, OutFile, OutStop,
         OutStopClose

\* Which steps touch the output queue and its history.
LEMMA OutqSteps ==
  [Next]_vars => \/ UNCHANGED outq
                 \/ RuleMatches \/ OutPop \/ OutExecute \/ OutFinish \/ ReloadClear
  BY DEF Next, vars, EditFile, Stop, Terminated,
         Main, OpenFails, StartEngine, SpawnOut, SpawnComs, SpawnReader, JoinReader,
         CloseLog, CloseStream, ClearFlag, JoinOut, JoinComs,
         Reader, ReaderTop, Poll, Unplug, Report, WriteLog, RulesDone, ServiceHolds,
         ChangeMode, ChangeModeTorn, StaleRules, RaceKills,
         Out, OutTop,
         Coms, ComsTop, Heartbeat, ParseMode, ParseDone, ReloadHeader, OutFile,
         OutStop, OutStopClose

\* Which steps touch the two flags other threads read without the lock.
LEMMA FlagSteps ==
  [Next]_vars => UNCHANGED <<stop, outToFile>> \/ Stop \/ ClearFlag \/ Unplug \/ OutFile \/ OutStop
  BY DEF Next, vars, log, proc, EditFile, Terminated,
         Main, OpenFails, StartEngine, SpawnOut, SpawnComs, SpawnReader, JoinReader,
         CloseLog, CloseStream, JoinOut, JoinComs,
         Reader, ReaderTop, Poll, Report, WriteLog, RuleMatches, RulesDone,
         ServiceHolds, ChangeMode, ChangeModeTorn, StaleRules, RaceKills,
         Out, OutTop, OutPop, OutExecute, OutFinish,
         Coms, ComsTop, Heartbeat, ReloadClear, ParseMode, ParseDone, ReloadHeader,
         OutStopClose

\* Which steps touch out_func's local batch or its program counter.
LEMMA LocalSteps ==
  [Next]_vars => \/ UNCHANGED <<toSend, opc>>
                 \/ SpawnOut \/ ChangeModeTorn \/ StaleRules \/ RaceKills
                 \/ OutTop \/ OutPop \/ OutExecute \/ OutFinish
  BY DEF Next, vars, outq, EditFile, Stop, Terminated,
         Main, OpenFails, StartEngine, SpawnComs, SpawnReader, JoinReader, CloseLog,
         CloseStream, ClearFlag, JoinOut, JoinComs,
         Reader, ReaderTop, Poll, Unplug, Report, WriteLog, RuleMatches, RulesDone,
         ServiceHolds, ChangeMode, Out,
         Coms, ComsTop, Heartbeat, ReloadClear, ParseMode, ParseDone, ReloadHeader,
         OutFile, OutStop, OutStopClose

-----------------------------------------------------------------------------
\* TypeOK: every variable keeps the range TypeOK gives it, through every step
\* of the four threads.
LEMMA TypeInit == Init => TypeOK
  <1> SUFFICES ASSUME Init PROVE TypeOK
    OBVIOUS
  <1>1. TypeConf
    BY EngineAssumption DEF Init, TypeConf
  <1>2. TypeOutq
    BY EngineAssumption DEF Init, TypeOutq
  <1>3. TypeControl
    BY EngineAssumption DEF Init, TypeControl
  <1>4. TypeFlags
    BY DEF Init, TypeFlags
  <1> QED
    BY <1>1, <1>2, <1>3, <1>4 DEF TypeOK

\* The steps that touch the profile: an edit, the start, a mode change, Reload.
LEMMA TypeConfStep == TypeOK /\ [Next]_vars => TypeConf'
  <1> SUFFICES ASSUME TypeConf, [Next]_vars PROVE TypeConf'
    BY DEF TypeOK
  <1> USE EngineAssumption DEF TypeConf, conf
  <1>1. CASE UNCHANGED conf
    BY <1>1
  <1>2. CASE EditFile
    BY <1>2 DEF EditFile
  <1>3. CASE StartEngine
    <2>1. cur' \in ParsedModes \cup {NoMode}
      BY <1>3 DEF StartEngine, ParsedModes
    <2> QED
      BY <1>3, <2>1 DEF StartEngine
  <1>4. CASE RuleMatches
    BY <1>4 DEF RuleMatches
  <1>5. CASE ChangeMode
    <2>1. cur' \in ParsedModes \cup {NoMode}
      BY <1>5 DEF ChangeMode, ModeFound, ParsedModes
    <2> QED
      BY <1>5, <2>1 DEF ChangeMode
  <1>6. CASE ChangeModeTorn
    BY <1>6 DEF ChangeModeTorn
  <1>7. CASE ReloadClear
    BY <1>7 DEF ReloadClear
  <1>8. CASE ParseMode
    <2>1. PICK i \in ModesOf[modes.ver] \ modes.ids : modes' = [modes EXCEPT !.ids = @ \cup {i}]
      BY <1>8 DEF ParseMode
    <2>2. modes' = [ver |-> modes.ver, ids |-> modes.ids \cup {i}]
      BY <2>1
    <2> QED
      BY <1>8, <2>1, <2>2 DEF ParseMode
  <1> QED
    BY <1>1, <1>2, <1>3, <1>4, <1>5, <1>6, <1>7, <1>8, ConfSteps

\* The steps that touch the output queue: enqueue, out_func, Reload.
LEMMA TypeOutqStep == TypeOK /\ OutLocal /\ [Next]_vars => TypeOutq'
  <1> SUFFICES ASSUME TypeOutq, OutLocal, [Next]_vars PROVE TypeOutq'
    BY DEF TypeOK
  <1> USE EngineAssumption DEF TypeOutq, outq
  <1>1. CASE UNCHANGED outq
    BY <1>1
  <1>2. CASE RuleMatches
    <2>1. PICK outs \in Shapes : oQueue' = Append(oQueue, [id |-> submitted + 1, outs |-> outs])
      BY <1>2 DEF RuleMatches, Enqueued
    <2>2. [id |-> submitted + 1, outs |-> outs] \in Batch
      BY <1>2 DEF RuleMatches, Batch
    <2>3. oQueue' \in Seq(Batch)
      BY <2>1, <2>2, AppendFacts
    <2> QED
      BY <1>2, <2>3 DEF RuleMatches
  <1>3. CASE OutPop
    <2>1. CASE oQueue = <<>>
      BY <1>3, <2>1 DEF OutPop, Popped
    <2>2. CASE oQueue # <<>>
      <3>1. Head(oQueue) \in Batch /\ Tail(oQueue) \in Seq(Batch)
        BY <2>2, HeadTailFacts
      <3> QED
        BY <1>3, <2>2, <3>1 DEF OutPop, Popped
    <2> QED
      BY <2>1, <2>2
  <1>4. CASE OutExecute
    <2>1. toSend.outs # <<>> /\ toSend' = [toSend EXCEPT !.outs = Tail(@)]
      BY <1>4 DEF OutExecute
    <2>2. toSend \in Batch
      BY <2>1 DEF NoBatch
    <2>3. Tail(toSend.outs) \in Seq({"hid", "native"})
      BY <2>1, <2>2, HeadTailFacts DEF Batch
    <2>4. toSend' \in Batch
      BY <2>1, <2>2, <2>3 DEF Batch
    <2> QED
      BY <1>4, <2>4 DEF OutExecute
  <1>5. CASE OutFinish
    <2>1. toSend \in Batch
      BY <1>5 DEF OutFinish, OutLocal
    <2>2. toSend.id \in 1 .. MaxBatches
      BY <2>1 DEF Batch
    <2> QED
      BY <1>5, <2>2 DEF OutFinish
  <1>6. CASE ReloadClear
    <2>1. Ids(oQueue) \subseteq 1 .. MaxBatches
      <3>1. \A i \in DOMAIN oQueue : oQueue[i] \in Batch
        OBVIOUS
      <3>2. \A i \in DOMAIN oQueue : oQueue[i].id \in 1 .. MaxBatches
        BY <3>1 DEF Batch
      <3> QED
        BY <3>2, Zenon DEF Ids
    <2>2. flushed' = flushed \cup Ids(oQueue) /\ oQueue' = <<>>
      BY <1>6 DEF ReloadClear
    <2>3. UNCHANGED <<submitted, toSend, executed>>
      BY <1>6 DEF ReloadClear
    <2>4. flushed' \subseteq 1 .. MaxBatches
      BY <2>1, <2>2
    <2>5. oQueue' \in Seq(Batch)
      BY <2>2
    <2> QED
      BY <2>3, <2>4, <2>5, Zenon
  <1> QED
    BY <1>1, <1>2, <1>3, <1>4, <1>5, <1>6, OutqSteps

\* The program counters, the flags and the burst.
LEMMA TypeControlStep == TypeOK /\ [Next]_vars => TypeControl'
  <1> SUFFICES ASSUME TypeControl, [Next]_vars PROVE TypeControl'
    BY DEF TypeOK
  <1> USE EngineAssumption DEF TypeControl, log, proc
  <1>1. CASE Main
    <2>1. CASE OpenFails
      BY <2>1 DEF OpenFails
    <2>2. CASE StartEngine
      BY <2>2 DEF StartEngine
    <2>3. CASE SpawnOut
      BY <2>3 DEF SpawnOut
    <2>4. CASE SpawnComs
      BY <2>4 DEF SpawnComs
    <2>5. CASE SpawnReader
      BY <2>5 DEF SpawnReader
    <2>6. CASE JoinReader
      BY <2>6 DEF JoinReader, Joined
    <2>7. CASE CloseLog \/ CloseStream \/ ClearFlag
      BY <2>7 DEF CloseLog, CloseStream, ClearFlag
    <2>8. CASE JoinOut
      BY <2>8 DEF JoinOut, Joined
    <2>9. CASE JoinComs
      BY <2>9 DEF JoinComs, Joined
    <2> QED
      BY <1>1, <2>1, <2>2, <2>3, <2>4, <2>5, <2>6, <2>7, <2>8, <2>9 DEF Main
  <1>2. CASE Reader
    <2>1. CASE ReaderTop
      BY <2>1 DEF ReaderTop
    <2>2. CASE Poll
      BY <2>2 DEF Poll
    <2>3. CASE Unplug
      BY <2>3 DEF Unplug
    <2>4. CASE Report
      BY <2>4 DEF Report
    <2>5. CASE WriteLog
      BY <2>5 DEF WriteLog
    <2>6. CASE RuleMatches
      BY <2>6 DEF RuleMatches
    <2>7. CASE RulesDone
      BY <2>7 DEF RulesDone
    <2>8. CASE ServiceHolds
      BY <2>8 DEF ServiceHolds
    <2>9. CASE ChangeMode
      BY <2>9 DEF ChangeMode
    <2>10. CASE ChangeModeTorn
      BY <2>10 DEF ChangeModeTorn
    <2>11. CASE StaleRules
      BY <2>11 DEF StaleRules
    <2> QED
      BY <1>2, <2>1, <2>2, <2>3, <2>4, <2>5, <2>6, <2>7, <2>8, <2>9, <2>10, <2>11 DEF Reader
  <1>3. CASE Out
    <2>1. CASE OutTop
      BY <2>1 DEF OutTop
    <2>2. CASE OutPop
      BY <2>2 DEF OutPop, Popped
    <2>3. CASE OutExecute
      BY <2>3 DEF OutExecute
    <2>4. CASE OutFinish
      BY <2>4 DEF OutFinish
    <2> QED
      BY <1>3, <2>1, <2>2, <2>3, <2>4 DEF Out
  <1>4. CASE Coms
    <2>1. CASE ComsTop
      BY <2>1 DEF ComsTop
    <2>2. CASE Heartbeat
      BY <2>2 DEF Heartbeat
    <2>3. CASE ReloadClear
      BY <2>3 DEF ReloadClear
    <2>4. CASE ParseMode
      BY <2>4 DEF ParseMode
    <2>5. CASE ParseDone
      BY <2>5 DEF ParseDone
    <2>6. CASE ReloadHeader
      BY <2>6 DEF ReloadHeader
    <2>7. CASE OutFile
      BY <2>7 DEF OutFile
    <2>8. CASE OutStop
      BY <2>8 DEF OutStop
    <2>9. CASE OutStopClose
      BY <2>9 DEF OutStopClose
    <2> QED
      BY <1>4, <2>1, <2>2, <2>3, <2>4, <2>5, <2>6, <2>7, <2>8, <2>9 DEF Coms
  <1>5. CASE EditFile \/ Stop
    BY <1>5 DEF EditFile, Stop
  <1>6. CASE RaceKills
    BY <1>6 DEF RaceKills
  <1>7. CASE Terminated \/ UNCHANGED vars
    BY <1>7 DEF Terminated, vars
  <1> QED
    BY <1>1, <1>2, <1>3, <1>4, <1>5, <1>6, <1>7 DEF Next

\* The flags other threads read without the lock.
LEMMA TypeFlagsStep == TypeOK /\ [Next]_vars => TypeFlags'
  <1> SUFFICES ASSUME TypeFlags, [Next]_vars PROVE TypeFlags'
    BY DEF TypeOK
  <1> USE DEF TypeFlags
  <1>1. CASE UNCHANGED <<stop, outToFile>>
    BY <1>1
  <1>2. CASE Stop
    BY <1>2, Zenon DEF Stop, log
  <1>3. CASE ClearFlag
    BY <1>3, Zenon DEF ClearFlag, proc
  <1>4. CASE Unplug
    BY <1>4, Zenon DEF Unplug, log
  <1>5. CASE OutFile
    BY <1>5, Zenon DEF OutFile, proc, log
  <1>6. CASE OutStop
    BY <1>6, Zenon DEF OutStop, proc
  <1> QED
    BY <1>1, <1>2, <1>3, <1>4, <1>5, <1>6, FlagSteps

\* Only OutPop fills out_func's local batch and only OutFinish empties it.
LEMMA OutLocalStep == TypeOK /\ OutLocal /\ Lifecycle /\ [Next]_vars => OutLocal'
  <1> SUFFICES ASSUME TypeOutq, OutLocal, Lifecycle, [Next]_vars PROVE OutLocal'
    BY DEF TypeOK
  <1> USE DEF OutLocal
  <1>1. CASE UNCHANGED <<toSend, opc>>
    BY <1>1
  <1>2. CASE SpawnOut
    BY <1>2 DEF SpawnOut, outq, Lifecycle
  <1>3. CASE ChangeModeTorn \/ StaleRules \/ RaceKills
    BY <1>3 DEF ChangeModeTorn, StaleRules, RaceKills, outq
  <1>4. CASE OutTop
    BY <1>4 DEF OutTop, outq
  <1>5. CASE OutPop
    <2>1. oQueue # <<>> => Head(oQueue) \in Batch
      BY HeadTailFacts DEF TypeOutq
    <2>2. NoBatch \notin Batch
      BY DEF NoBatch, Batch
    <2> QED
      BY <1>5, <2>1, <2>2 DEF OutPop, Popped
  <1>6. CASE OutExecute
    <2>1. toSend \in Batch /\ toSend' = [toSend EXCEPT !.outs = Tail(@)]
      BY <1>6 DEF OutExecute, TypeOutq
    <2>2. toSend'.id = toSend.id /\ toSend.id # 0
      BY <2>1 DEF Batch
    <2> QED
      BY <1>6, <2>2 DEF OutExecute, NoBatch
  <1>7. CASE OutFinish
    BY <1>7 DEF OutFinish
  <1> QED
    BY <1>1, <1>2, <1>3, <1>4, <1>5, <1>6, <1>7, LocalSteps

\* A step takes each thread along its life cycle.
LEMMA LifecycleStep == TypeOK /\ Lifecycle /\ [Next]_vars => Lifecycle'
  <1> SUFFICES ASSUME TypeControl, Lifecycle, [Next]_vars PROVE Lifecycle'
    BY DEF TypeOK
  <1> USE DEF Lifecycle
  <1>1. CASE Main
    <2>1. CASE OpenFails
      BY <2>1 DEF OpenFails
    <2>2. CASE StartEngine
      BY <2>2 DEF StartEngine
    <2>3. CASE SpawnOut
      BY <2>3 DEF SpawnOut
    <2>4. CASE SpawnComs
      BY <2>4 DEF SpawnComs
    <2>5. CASE SpawnReader
      BY <2>5 DEF SpawnReader
    <2>6. CASE JoinReader
      BY <2>6 DEF JoinReader, Joined
    <2>7. CASE CloseLog \/ CloseStream \/ ClearFlag
      BY <2>7 DEF CloseLog, CloseStream, ClearFlag
    <2>8. CASE JoinOut
      BY <2>8 DEF JoinOut, Joined
    <2>9. CASE JoinComs
      BY <2>9 DEF JoinComs, Joined
    <2> QED
      BY <1>1, <2>1, <2>2, <2>3, <2>4, <2>5, <2>6, <2>7, <2>8, <2>9 DEF Main
  <1>2. CASE Reader
    <2>1. CASE ReaderTop
      BY <2>1 DEF ReaderTop
    <2>2. CASE Poll
      BY <2>2 DEF Poll
    <2>3. CASE Unplug
      BY <2>3 DEF Unplug
    <2>4. CASE Report
      BY <2>4 DEF Report
    <2>5. CASE WriteLog
      BY <2>5 DEF WriteLog
    <2>6. CASE RuleMatches
      BY <2>6 DEF RuleMatches
    <2>7. CASE RulesDone
      BY <2>7 DEF RulesDone
    <2>8. CASE ServiceHolds
      BY <2>8 DEF ServiceHolds
    <2>9. CASE ChangeMode
      BY <2>9 DEF ChangeMode
    <2>10. CASE ChangeModeTorn
      BY <2>10 DEF ChangeModeTorn
    <2>11. CASE StaleRules
      BY <2>11 DEF StaleRules
    <2> QED
      BY <1>2, <2>1, <2>2, <2>3, <2>4, <2>5, <2>6, <2>7, <2>8, <2>9, <2>10, <2>11 DEF Reader
  <1>3. CASE Out
    <2>1. CASE OutTop
      BY <2>1 DEF OutTop
    <2>2. CASE OutPop
      BY <2>2 DEF OutPop, Popped
    <2>3. CASE OutExecute
      BY <2>3 DEF OutExecute
    <2>4. CASE OutFinish
      BY <2>4 DEF OutFinish
    <2> QED
      BY <1>3, <2>1, <2>2, <2>3, <2>4 DEF Out
  <1>4. CASE Coms
    <2>1. CASE ComsTop
      BY <2>1 DEF ComsTop
    <2>2. CASE Heartbeat
      BY <2>2 DEF Heartbeat
    <2>3. CASE ReloadClear
      BY <2>3 DEF ReloadClear
    <2>4. CASE ParseMode
      BY <2>4 DEF ParseMode
    <2>5. CASE ParseDone
      BY <2>5 DEF ParseDone
    <2>6. CASE ReloadHeader
      BY <2>6 DEF ReloadHeader
    <2>7. CASE OutFile
      BY <2>7 DEF OutFile
    <2>8. CASE OutStop
      BY <2>8 DEF OutStop
    <2>9. CASE OutStopClose
      BY <2>9 DEF OutStopClose
    <2> QED
      BY <1>4, <2>1, <2>2, <2>3, <2>4, <2>5, <2>6, <2>7, <2>8, <2>9 DEF Coms
  <1>5. CASE EditFile \/ Stop
    BY <1>5 DEF EditFile, Stop
  <1>6. CASE RaceKills
    BY <1>6 DEF RaceKills
  <1>7. CASE Terminated \/ UNCHANGED vars
    BY <1>7 DEF Terminated, vars
  <1> QED
    BY <1>1, <1>2, <1>3, <1>4, <1>5, <1>6, <1>7 DEF Next

-----------------------------------------------------------------------------
\* The inductive part of the type invariant: TypeOK alone is not preserved, a
\* batch id must not be 0 when out_func finishes it.
TypeInv == TypeOK /\ OutLocal /\ Lifecycle

\* TypeInv is an invariant: each of its parts is preserved given the others.
LEMMA TypeInvariant == Spec => []TypeInv
  <1>1. Init => TypeInv
    BY TypeInit DEF Init, TypeInv, OutLocal, Lifecycle
  <1>2. TypeInv /\ [Next]_vars => TypeInv'
    BY TypeConfStep, TypeOutqStep, TypeFlagsStep, TypeControlStep, OutLocalStep,
       LifecycleStep DEF TypeOK, TypeInv
  <1> QED
    BY <1>1, <1>2, PTL DEF Spec

\* TypeOK holds for every kind of handler, every set of profile versions, every
\* rule shape and every bound.
THEOREM TypeCorrect == Spec => []TypeOK
  <1>1. TypeInv => TypeOK
    BY DEF TypeInv
  <1> QED
    BY <1>1, TypeInvariant, PTL

\* StoppedClean: when Stop() has returned, the reader, the executor and the coms
\* thread have been joined and no batch is half executed.
THEOREM CleanStop == Spec => []StoppedClean
  <1>1. TypeInv => StoppedClean
    BY DEF TypeInv, OutLocal, Lifecycle, StoppedClean
  <1> QED
    BY <1>1, TypeInvariant, PTL

-----------------------------------------------------------------------------
\* The ids of a queue after Append and after Tail.
LEMMA IdsAppend ==
  ASSUME NEW q \in Seq(Batch), NEW b \in Batch
  PROVE  Ids(Append(q, b)) = Ids(q) \cup {b.id}
  <1> DEFINE r == Append(q, b)
  <1>1. /\ DOMAIN q = 1 .. Len(q) /\ Len(q) \in Nat
        /\ DOMAIN r = 1 .. Len(q) + 1
        /\ \A i \in 1 .. Len(q) : r[i] = q[i]
        /\ r[Len(q) + 1] = b
    BY AppendFacts
  <1>2. \A i \in DOMAIN r : i \in DOMAIN q \/ i = Len(q) + 1
    BY <1>1
  <1>3. Len(q) + 1 \in DOMAIN r /\ DOMAIN q \subseteq DOMAIN r
    BY <1>1
  <1> HIDE DEF r
  <1>4. \A i \in DOMAIN q : r[i] = q[i]
    BY <1>1
  <1>5. Ids(r) = Ids(q) \cup {b.id}
    BY <1>1, <1>2, <1>3, <1>4, Zenon DEF Ids
  <1> QED
    BY <1>5 DEF r

\* The ids in a queue are ids of batches.
LEMMA QueueIds ==
  ASSUME NEW q \in Seq(Batch)
  PROVE  \A i \in DOMAIN q : q[i].id \in 1 .. MaxBatches
  <1>1. \A i \in DOMAIN q : q[i] \in Batch
    OBVIOUS
  <1> QED
    BY <1>1 DEF Batch

\* A pop takes the id of the front out of the queue, and no other.
LEMMA IdsTail ==
  ASSUME NEW q \in Seq(Batch), q # <<>>
  PROVE  Ids(q) = {Head(q).id} \cup Ids(Tail(q))
  <1> DEFINE t == Tail(q)
  <1>1. /\ DOMAIN q = 1 .. Len(q) /\ Len(q) \in Nat \ {0}
        /\ DOMAIN t = 1 .. Len(q) - 1
        /\ \A i \in 1 .. Len(q) - 1 : t[i] = q[i + 1]
        /\ Head(q) = q[1]
    BY HeadTailFacts
  <1>2. ASSUME NEW n \in Ids(q) PROVE n \in {q[1].id} \cup Ids(t)
    <2>1. PICK i \in 1 .. Len(q) : n = q[i].id
      BY <1>1, <1>2 DEF Ids
    <2>2. CASE i = 1
      BY <2>1, <2>2
    <2>3. CASE i # 1
      <3>1. i - 1 \in DOMAIN t /\ t[i - 1] = q[i]
        BY <1>1, <2>1, <2>3
      <3> QED
        BY <2>1, <3>1 DEF Ids
    <2> QED
      BY <2>2, <2>3
  <1>3. ASSUME NEW n \in Ids(t) PROVE n \in Ids(q)
    <2>1. PICK i \in 1 .. Len(q) - 1 : n = t[i].id
      BY <1>1, <1>3 DEF Ids
    <2>2. i + 1 \in DOMAIN q /\ t[i] = q[i + 1]
      BY <1>1
    <2> QED
      BY <2>1, <2>2 DEF Ids
  <1>4. q[1].id \in Ids(q)
    BY <1>1 DEF Ids
  <1> QED
    BY <1>1, <1>2, <1>3, <1>4

-----------------------------------------------------------------------------
\* The queue invariant: Accounted says that the ids in use are 1 .. submitted,
\* so that the id enqueue gives next is above all of them; Ordered says that the
\* head of the queue was neither executed nor flushed, so that moving it to
\* out_func keeps every batch in one place.  Each needs the other.
QueueInv == Ordered /\ Accounted

\* enqueue: the new batch has the largest id so far and goes to the back.
LEMMA QueueRuleMatches ==
  ASSUME TypeOutq, QueueInv, RuleMatches PROVE QueueInv'
  <1> USE DEF TypeOutq
  <1>1. PICK outs \in Shapes : oQueue' = Append(oQueue, [id |-> submitted + 1, outs |-> outs])
    BY DEF RuleMatches, Enqueued
  <1> DEFINE b == [id |-> submitted + 1, outs |-> outs]
  <1>2. submitted \in Nat /\ submitted + 1 \in 1 .. MaxBatches /\ submitted' = submitted + 1
    BY EngineAssumption DEF RuleMatches
  <1>3. b \in Batch /\ b.id = submitted + 1
    BY <1>2, EngineAssumption DEF Batch
  <1>4. UNCHANGED <<toSend, executed, flushed>>
    BY DEF RuleMatches
  <1> HIDE DEF b
  <1>5. Ids(oQueue') = Ids(oQueue) \cup {submitted + 1}
    BY <1>1, <1>3, IdsAppend DEF b
  <1>6. \A n \in Ids(oQueue) \cup executed \cup flushed : n \in 1 .. submitted
    BY DEF QueueInv, Accounted
  <1>7. toSend.id \in 0 .. submitted
    BY <1>2 DEF QueueInv, Accounted
  <1>8. Ordered'
    <2>1. /\ Len(oQueue) \in Nat /\ DOMAIN oQueue = 1 .. Len(oQueue)
          /\ DOMAIN oQueue' = 1 .. Len(oQueue) + 1
          /\ \A i \in 1 .. Len(oQueue) : oQueue'[i] = oQueue[i]
          /\ oQueue'[Len(oQueue) + 1].id = submitted + 1
      BY <1>1, <1>3, AppendFacts DEF b
    <2>2. \A i \in 1 .. Len(oQueue) : oQueue[i].id \in 1 .. submitted
      BY <1>6, <2>1 DEF Ids
    <2>3. \A i \in DOMAIN oQueue' : i \in DOMAIN oQueue \/ i = Len(oQueue) + 1
      BY <2>1
    <2>4. \A i, j \in DOMAIN oQueue' : i < j => oQueue'[i].id < oQueue'[j].id
      BY <1>2, <2>1, <2>2, <2>3 DEF QueueInv, Ordered
    <2>5. ASSUME NEW i \in DOMAIN oQueue'
          PROVE  toSend.id < oQueue'[i].id /\ \A n \in executed \cup flushed : n < oQueue'[i].id
      <3>1. CASE i \in DOMAIN oQueue
        BY <2>1, <3>1 DEF QueueInv, Ordered
      <3>2. CASE i = Len(oQueue) + 1
        BY <1>2, <1>6, <1>7, <2>1, <3>2
      <3> QED
        BY <2>3, <3>1, <3>2
    <2>6. toSend # NoBatch => \A n \in executed : n < toSend.id
      BY DEF QueueInv, Ordered
    <2> QED
      BY <1>4, <2>4, <2>5, <2>6 DEF Ordered
  <1>9. Accounted'
    <2>1. 1 .. submitted' = (1 .. submitted) \cup {submitted + 1}
      BY <1>2
    <2> QED
      BY <1>2, <1>4, <1>5, <2>1 DEF QueueInv, Accounted
  <1> QED
    BY <1>8, <1>9 DEF QueueInv

\* out_func takes the front: the smallest id in the queue.
LEMMA QueueOutPop ==
  ASSUME TypeOutq, OutLocal, QueueInv, OutPop PROVE QueueInv'
  <1> USE DEF TypeOutq
  <1>1. CASE oQueue = <<>>
    BY <1>1 DEF OutPop, Popped, QueueInv, Ordered, Accounted, Ids
  <1>2. CASE oQueue # <<>>
    <2>1. /\ toSend' = Head(oQueue) /\ oQueue' = Tail(oQueue)
          /\ UNCHANGED <<submitted, executed, flushed>>
      BY <1>2 DEF OutPop, Popped
    <2>2. toSend.id = 0
      BY DEF OutPop, Popped, OutLocal, NoBatch
    <2>3. Head(oQueue) \in Batch
      BY <1>2, HeadTailFacts
    <2>4. Head(oQueue).id \in 1 .. MaxBatches
      BY <2>3 DEF Batch
    <2>5. /\ Len(oQueue) \in Nat \ {0} /\ DOMAIN oQueue = 1 .. Len(oQueue)
          /\ DOMAIN Tail(oQueue) = 1 .. Len(oQueue) - 1
          /\ Head(oQueue) = oQueue[1]
          /\ \A i \in 1 .. Len(oQueue) - 1 : Tail(oQueue)[i] = oQueue[i + 1]
      BY <1>2, HeadTailFacts
    <2>6. \A n \in executed \cup flushed : n < Head(oQueue).id
      <3>1. 1 \in DOMAIN oQueue
        BY <2>5
      <3>2. \A n \in executed \cup flushed : n < oQueue[1].id
        BY <3>1 DEF QueueInv, Ordered
      <3> QED
        BY <2>5, <3>2
    <2>7. Ordered'
      BY <2>1, <2>4, <2>5, <2>6 DEF QueueInv, Ordered
    <2>8. Ids(oQueue) = {Head(oQueue).id} \cup Ids(Tail(oQueue))
      BY <1>2, IdsTail
    <2>9. Accounted'
      BY <2>1, <2>2, <2>4, <2>6, <2>8 DEF QueueInv, Accounted
    <2> QED
      BY <2>7, <2>9 DEF QueueInv
  <1> QED
    BY <1>1, <1>2

\* Every step of every thread keeps the order and the accounting of batches.
LEMMA QueueStep ==
  TypeInv /\ QueueInv /\ [Next]_vars => QueueInv'
  <1> SUFFICES ASSUME TypeOutq, OutLocal, QueueInv, [Next]_vars PROVE QueueInv'
    BY DEF TypeInv, TypeOK
  <1>1. CASE UNCHANGED outq
    BY <1>1 DEF outq, QueueInv, Ordered, Accounted, Ids
  <1>2. CASE RuleMatches
    BY <1>2, QueueRuleMatches
  <1>3. CASE OutPop
    BY <1>3, QueueOutPop
  <1>4. CASE OutExecute
    <2>1. /\ toSend # NoBatch /\ toSend' # NoBatch
          /\ toSend'.id = toSend.id
          /\ UNCHANGED <<oQueue, submitted, executed, flushed>>
      BY <1>4 DEF OutExecute, OutLocal, TypeOutq, Batch, NoBatch
    <2> QED
      BY <2>1 DEF QueueInv, Ordered, Accounted, Ids
  <1>5. CASE OutFinish
    <2>1. /\ toSend # NoBatch /\ toSend.id \in 1 .. MaxBatches
          /\ toSend'.id = 0 /\ toSend' = NoBatch
          /\ executed' = executed \cup {toSend.id}
          /\ UNCHANGED <<oQueue, submitted, flushed>>
      BY <1>5 DEF OutFinish, OutLocal, TypeOutq, Batch, NoBatch
    <2>2. \A i \in DOMAIN oQueue : oQueue[i].id \in 1 .. MaxBatches
      BY QueueIds DEF TypeOutq
    <2>3. Ordered'
      BY <2>1, <2>2 DEF QueueInv, Ordered
    <2>4. Accounted'
      BY <2>1 DEF QueueInv, Accounted, TypeOutq
    <2> QED
      BY <2>3, <2>4 DEF QueueInv
  <1>6. CASE ReloadClear
    <2>1. /\ oQueue' = <<>> /\ flushed' = flushed \cup Ids(oQueue)
          /\ UNCHANGED <<submitted, toSend, executed>>
      BY <1>6 DEF ReloadClear
    <2>2. DOMAIN oQueue' = {} /\ Ids(oQueue') = {}
      BY <2>1 DEF Ids
    <2>3. Ordered'
      BY <2>1, <2>2 DEF QueueInv, Ordered
    <2>4. ASSUME NEW n \in Ids(oQueue) PROVE n \notin executed /\ n # toSend.id
      <3>1. PICK i \in DOMAIN oQueue : n = oQueue[i].id
        BY DEF Ids
      <3>2. n \in 1 .. MaxBatches
        BY <3>1, QueueIds DEF TypeOutq
      <3>3. toSend.id < n /\ \A k \in executed : k < n
        BY <3>1 DEF QueueInv, Ordered
      <3>4. toSend.id \in 0 .. MaxBatches
        <4>1. toSend \in Batch \/ toSend = NoBatch
          BY DEF TypeOutq
        <4>2. toSend \in Batch => toSend.id \in 1 .. MaxBatches
          BY DEF Batch
        <4>3. toSend = NoBatch => toSend.id = 0
          BY DEF NoBatch
        <4> QED
          BY <4>1, <4>2, <4>3, EngineAssumption
      <3> QED
        BY <3>2, <3>3, <3>4
    <2>5. Accounted'
      BY <2>1, <2>2, <2>4 DEF QueueInv, Accounted
    <2> QED
      BY <2>3, <2>5 DEF QueueInv
  <1> QED
    BY <1>1, <1>2, <1>3, <1>4, <1>5, <1>6, OutqSteps

\* QueueInv is an invariant.
LEMMA QueueInvariant == Spec => []QueueInv
  <1>1. Init => QueueInv
    BY DEF Init, QueueInv, Ordered, Accounted, Ids, NoBatch
  <1> QED
    BY <1>1, QueueStep, TypeInvariant, PTL DEF Spec

\* Ordered: outputs are executed in the order their rules matched, whatever the
\* interleaving of enqueue, out_func and Reload.
THEOREM OutputsInOrder == Spec => []Ordered
  <1>1. QueueInv => Ordered
    BY DEF QueueInv
  <1> QED
    BY <1>1, QueueInvariant, PTL

\* Accounted: no batch is lost, duplicated or executed after it was flushed.
THEOREM NoBatchLost == Spec => []Accounted
  <1>1. QueueInv => Accounted
    BY DEF QueueInv
  <1> QED
    BY <1>1, QueueInvariant, PTL

\* NothingQueuedInReload: the lock keeps enqueue() out of a Reload.
THEOREM ReloadExcludesEnqueue == Spec => []NothingQueuedInReload
  <1>1. Init => NothingQueuedInReload
    BY DEF Init, NothingQueuedInReload
  <1>2. TypeInv /\ NothingQueuedInReload /\ [Next]_vars => NothingQueuedInReload'
    <2> SUFFICES ASSUME TypeControl, NothingQueuedInReload, [Next]_vars
                 PROVE  NothingQueuedInReload'
      BY DEF TypeInv, TypeOK
    <2> USE DEF NothingQueuedInReload
    <2>1. CASE UNCHANGED <<oQueue, cpc>>
      BY <2>1
    <2>2. CASE RuleMatches
      BY <2>2 DEF RuleMatches, LockFree
    <2>3. CASE OutPop
      BY <2>3 DEF OutPop, Popped, LockFree
    <2>4. CASE ReloadClear
      BY <2>4 DEF ReloadClear
    <2>5. CASE ParseDone
      BY <2>5 DEF ParseDone, outq
    <2>6. CASE cpc' \notin {"parse", "header"}
      BY <2>6
    <2> QED
      BY <2>1, <2>2, <2>3, <2>4, <2>5, <2>6
         DEF Next, vars, outq, EditFile, Stop, Terminated,
             Main, OpenFails, StartEngine, SpawnOut, SpawnComs, SpawnReader, JoinReader,
             CloseLog, CloseStream, ClearFlag, JoinOut, JoinComs,
             Reader, ReaderTop, Poll, Unplug, Report, WriteLog, RulesDone, ServiceHolds,
             ChangeMode, ChangeModeTorn, StaleRules, RaceKills,
             Out, OutTop, OutExecute, OutFinish,
             Coms, ComsTop, Heartbeat, ParseMode, ReloadHeader, OutFile, OutStop,
             OutStopClose
  <1> QED
    BY <1>1, <1>2, TypeInvariant, PTL DEF Spec

\* LogLostToOutstopOnly: report()'s unlocked test of outToFile is good enough
\* against stopEngine, because Stop() joins the reader first.
THEOREM LogSafe == Spec => []LogLostToOutstopOnly
  <1>1. Init => LogFlag
    BY DEF Init, LogFlag
  <1>2. TypeInv /\ LogFlag /\ [Next]_vars => LogFlag'
    <2> SUFFICES ASSUME TypeFlags, LogFlag, [Next]_vars PROVE LogFlag'
      BY DEF TypeInv, TypeOK
    <2> USE DEF LogFlag, log
    <2> DEFINE Stays == mpc \in {"clear_flag", "dead"} => mpc' \in {"clear_flag", "dead"}
    <2>1. CASE UNCHANGED log /\ cpc' # "outstop_close" /\ Stays
      BY <2>1
    <2>2. CASE UNCHANGED <<log, cpc>> /\ Stays
      BY <2>2
    <2>3. CASE CloseStream \/ ClearFlag
      BY <2>3 DEF CloseStream, ClearFlag
    <2>4. CASE OutFile
      BY <2>4 DEF OutFile
    <2>5. CASE OutStop
      BY <2>5 DEF OutStop
    <2>6. CASE OutStopClose
      BY <2>6 DEF OutStopClose
    <2> QED
      BY <2>1, <2>2, <2>3, <2>4, <2>5, <2>6
         DEF Next, vars, EditFile, Stop, Terminated,
             Main, OpenFails, StartEngine, SpawnOut, SpawnComs, SpawnReader, JoinReader,
             CloseLog, JoinOut, JoinComs,
             Reader, ReaderTop, Poll, Unplug, Report, WriteLog, RuleMatches, RulesDone,
             ServiceHolds, ChangeMode, ChangeModeTorn, StaleRules, RaceKills,
             Out, OutTop, OutPop, OutExecute, OutFinish,
             Coms, ComsTop, Heartbeat, ReloadClear, ParseMode, ParseDone, ReloadHeader
  <1>3. TypeInv /\ LogFlag => LogLostToOutstopOnly
    BY DEF TypeInv, TypeOK, TypeControl, Lifecycle, LogFlag, LogLostToOutstopOnly
  <1> QED
    BY <1>1, <1>2, <1>3, TypeInvariant, PTL DEF Spec

-----------------------------------------------------------------------------
\* The safety part of the refinement of OutputStream.
Phase == IF mpc = "dead" THEN "crashed" ELSE IF opc = "exited" THEN "halted" ELSE "running"

\* Which steps move the phase: all others leave main alive and out_func in its loop.
LEMMA PhaseSteps ==
  ASSUME TypeInv, [Next]_vars
  PROVE  Phase' = Phase \/ ChangeModeTorn \/ StaleRules \/ RaceKills \/ OutTop
  <1> USE DEF Phase, Lifecycle, TypeInv
  <1>1. CASE UNCHANGED <<mpc, opc>>
    BY <1>1
  <1>2. CASE Main \/ Stop
    BY <1>2 DEF Main, OpenFails, StartEngine, SpawnOut, SpawnComs, SpawnReader, JoinReader,
                CloseLog, CloseStream, ClearFlag, JoinOut, JoinComs, Stop
  <1>3. CASE OutPop \/ OutExecute \/ OutFinish
    BY <1>3 DEF OutPop, OutExecute, OutFinish
  <1> QED
    BY <1>1, <1>2, <1>3
       DEF Next, vars, EditFile, Terminated,
           Reader, ReaderTop, Poll, Unplug, Report, WriteLog, RuleMatches, RulesDone,
           ServiceHolds, ChangeMode, Out,
           Coms, ComsTop, Heartbeat, ReloadClear, ParseMode, ParseDone, ReloadHeader,
           OutFile, OutStop, OutStopClose

\* Every step of the engine is one of OutputStream, or none.
LEMMA PromiseStep == TypeInv /\ [Next]_vars => [Promise!AbsNext]_(Promise!absvars)
  <1> SUFFICES ASSUME TypeInv, [Next]_vars PROVE [Promise!AbsNext]_(Promise!absvars)
    OBVIOUS
  <1> USE DEF Promise!AbsNext, Promise!NoBatch, NoBatch
  <1>1. CASE UNCHANGED outq /\ Phase' = Phase
    BY <1>1 DEF Promise!absvars, Phase, outq
  <1>2. CASE RuleMatches
    <2>1. \E outs \in Shapes : Promise!Submit(outs)
      BY <1>2 DEF RuleMatches, Enqueued, Promise!Submit, TypeInv, Lifecycle
    <2> QED
      BY <2>1
  <1>3. CASE ReloadClear
    <2>1. Promise!Flush
      BY <1>3 DEF ReloadClear, Promise!Flush, TypeInv, Lifecycle
    <2> QED
      BY <2>1
  <1>4. CASE OutPop
    <2>1. mpc # "dead" /\ mpc' = mpc /\ opc # "exited" /\ opc' # "exited" /\ toSend = NoBatch
      BY <1>4 DEF OutPop, TypeInv, OutLocal, Lifecycle
    <2>2. CASE oQueue = <<>>
      BY <1>4, <2>1, <2>2 DEF OutPop, Promise!absvars
    <2>3. CASE oQueue # <<>>
      <3>1. Promise!Take
        BY <1>4, <2>1, <2>3 DEF OutPop, Popped, Promise!Take
      <3> QED
        BY <3>1
    <2> QED
      BY <2>2, <2>3
  <1>5. CASE OutExecute
    <2>1. Promise!Emit
      BY <1>5 DEF OutExecute, Promise!Emit, TypeInv, Lifecycle
    <2> QED
      BY <2>1
  <1>6. CASE OutFinish
    <2>1. Promise!Finish
      BY <1>6 DEF OutFinish, Promise!Finish, TypeInv, OutLocal, Lifecycle
    <2> QED
      BY <2>1
  <1>7. CASE OutTop
    <2>1. UNCHANGED outq /\ mpc' = mpc /\ mpc # "dead" /\ toSend = NoBatch
          /\ opc # "exited" /\ opc' \in {"lock", "exited"}
      BY <1>7 DEF OutTop, TypeInv, OutLocal, Lifecycle
    <2>2. CASE opc' = "lock"
      BY <2>1, <2>2 DEF Promise!absvars, outq
    <2>3. CASE opc' = "exited"
      <3>1. Promise!Halt
        BY <2>1, <2>3 DEF Promise!Halt, outq
      <3> QED
        BY <3>1
    <2> QED
      BY <2>1, <2>2, <2>3
  <1>8. CASE ChangeModeTorn \/ StaleRules \/ RaceKills
    <2>1. UNCHANGED outq /\ (UNCHANGED <<opc, mpc>> \/ mpc' = "dead")
      BY <1>8 DEF ChangeModeTorn, StaleRules, RaceKills
    <2>2. CASE UNCHANGED <<opc, mpc>>
      BY <1>1, <2>1, <2>2 DEF Phase
    <2>3. CASE mpc' = "dead"
      <3>1. Promise!Crash
        BY <2>1, <2>3 DEF Promise!Crash, outq
      <3> QED
        BY <3>1
    <2> QED
      BY <2>1, <2>2, <2>3
  <1> QED
    BY <1>1, <1>2, <1>3, <1>4, <1>5, <1>6, <1>7, <1>8, OutqSteps, PhaseSteps

\* The engine keeps the promise of OutputStream, but for its progress: batches
\* are taken in turn, executed whole, and given up only by a flush or a halt
\* between two of them.
THEOREM KeepsPromise == Spec => Promise!AbsSafe
  <1>1. Init => Promise!AbsInit
    BY DEF Init, Promise!AbsInit, Promise!NoBatch, NoBatch
  <1> QED
    BY <1>1, PromiseStep, TypeInvariant, PTL DEF Spec, Promise!AbsSafe
=============================================================================
