---------------------------- MODULE DeviceEngine ----------------------------
(***************************************************************************)
(* One device handler process (conMIDI, conKeyB, conMouse, conJoyS): the   *)
(* shared engine LowLevel/Common/src/deviceEngine.cpp with the reader      *)
(* thread of its subclass (evdevDevice.cpp or midithread.cpp) and the main *)
(* thread of runDevice.hpp.                                                *)
(*                                                                         *)
(*   main    startEngine, the spin loop, Stop/stopEngine                   *)
(*   reader  in_func: report, rule matching, enqueue, changeMode           *)
(*   out     out_func: pop one batch under the lock, execute it outside    *)
(*   coms    coms_handler: heartbeat replies, Reload, outFile, outStop     *)
(*                                                                         *)
(* locking_mechanism guards oQueue and the log stream; it guards neither   *)
(* `modes`, which changeMode scans while Reload rewrites it, nor the       *)
(* outToFile flag and the stream that report() uses.  Only the coms thread *)
(* holds the lock over more than one step, so the lock is derived from its *)
(* program counter (LockFree).                                             *)
(*                                                                         *)
(* The reporting queue and the heartbeat transport (zmq_coms) belong to    *)
(* another component: dispatch() never blocks nor fails, and heartbeat()   *)
(* returns any reply after a bounded time.                                 *)
(***************************************************************************)
EXTENDS Naturals, Sequences, FiniteSets

CONSTANTS
  Kind,        \* "evdev" (keyboard, mouse, joystick) or "midi"
  Versions,    \* contents the profile json can have on disk
  ModeIds,     \* mode indices
  ModesOf,     \* ModesOf[v]: mode indices a version defines; {} when it does not parse
  Shapes,      \* output sequences a rule can resolve to, over {"hid", "native"}
  MaxBatches,  \* bound on the rules that match in one behaviour
  MaxBurst     \* bound on the events one read() returns (64 in the code)

ASSUME EngineAssumption ==
  /\ Kind \in {"evdev", "midi"}
  /\ Versions # {} /\ Versions \subseteq Nat \ {0}
  /\ ModeIds \subseteq Nat
  /\ ModesOf \in [Versions -> SUBSET ModeIds]
  /\ Shapes \subseteq Seq({"hid", "native"})
  /\ MaxBatches \in Nat
  /\ MaxBurst \in Nat \ {0}

VARIABLES
  file,        \* version of the profile on disk
  modes,       \* [ver, ids]: the vector `modes` while and after it is parsed
  cur,         \* [ver, id]: what CurrentMode is a copy of, or NoMode
  oQueue,      \* batches waiting for the executor
  toSend,      \* out_func's local batch, what is left of it
  submitted,   \* number of batches enqueued so far: batch n is the n-th
  executed,    \* ids of the batches out_func has taken and finished
  flushed,     \* ids of the batches a Reload drained
  stop,        \* the engine's stop flag
  outToFile,   \* the logging flag
  stream,      \* outFileStream: "open" or "closed"
  native,      \* the device's own output port: "open" or "closed"
  torn,        \* `modes` was rewritten during the scan in progress
  target,      \* mode index the reader's changeMode looks for
  burst,       \* events of the last read() still to be processed
  rpc, opc, cpc, mpc   \* program counters: reader, out, coms, main

conf  == <<file, modes, cur, torn, target>>
outq  == <<oQueue, toSend, submitted, executed, flushed>>
log   == <<outToFile, stream>>
proc  == <<stop, native>>
vars  == <<conf, outq, log, proc, burst, rpc, opc, cpc, mpc>>

NoMode  == [ver |-> 0, id |-> 0]
NoBatch == [id |-> 0, outs |-> <<>>]
Batch   == [id : 1 .. MaxBatches, outs : Seq({"hid", "native"})]

Ids(q) == {q[i].id : i \in DOMAIN q}

\* locking_mechanism is held over several steps by Reload and outStop only.
\* Mutant: enqueue() and out_func do not take it.
LockFreeMutant == TRUE
LockFree == cpc \notin {"parse", "header", "outstop_close"}

ParsedModes == {m \in [ver : Versions, id : ModeIds] : m.id \in ModesOf[m.ver]}

-----------------------------------------------------------------------------
\* The json is parsed by the constructor, before any thread exists.
Init ==
  /\ file \in Versions
  /\ modes = [ver |-> file, ids |-> ModesOf[file]]
  /\ cur = NoMode
  /\ torn = FALSE
  /\ target = 0
  /\ oQueue = <<>>
  /\ toSend = NoBatch
  /\ submitted = 0
  /\ executed = {}
  /\ flushed = {}
  /\ outToFile = FALSE
  /\ stream = "closed"
  /\ stop = FALSE
  /\ native = "open"
  /\ burst = 0
  /\ rpc = "none" /\ opc = "none" /\ cpc = "none" /\ mpc = "ctor"

\* Somebody rewrites the profile on disk (a deploy, an edit by hand).
EditFile ==
  /\ \E v \in Versions \ {file} : file' = v
  /\ UNCHANGED <<modes, cur, torn, target, outq, log, proc, burst, rpc, opc, cpc, mpc>>

-----------------------------------------------------------------------------
(* main: the constructor, runDevice's loop, Stop and stopEngine *)

\* MIDI only: no attempt to open the port succeeds; the last instance stays,
\* without any thread.
OpenFails ==
  /\ Kind = "midi"
  /\ mpc = "ctor"
  /\ native' = "closed"
  /\ mpc' = "run"
  /\ UNCHANGED <<conf, outq, log, stop, burst, rpc, opc, cpc>>

\* startEngine: header actions, then the first mode flagged active, if any.
StartEngine ==
  /\ mpc = "ctor"
  /\ cur' \in {NoMode} \cup {[ver |-> modes.ver, id |-> i] : i \in modes.ids}
  /\ mpc' = "spawn_out"
  /\ UNCHANGED <<file, modes, torn, target, outq, log, proc, burst, rpc, opc, cpc>>

SpawnOut ==
  /\ mpc = "spawn_out"
  /\ opc' = "top"
  /\ mpc' = "spawn_coms"
  /\ UNCHANGED <<conf, outq, log, proc, burst, rpc, cpc>>

SpawnComs ==
  /\ mpc = "spawn_coms"
  /\ cpc' = "top"
  /\ mpc' = "spawn_reader"
  /\ UNCHANGED <<conf, outq, log, proc, burst, rpc, opc>>

\* The subclass starts its reader last; evdev has none when no node was found.
SpawnReader ==
  /\ mpc = "spawn_reader"
  /\ rpc' \in IF Kind = "evdev" THEN {"none", "top"} ELSE {"top"}
  /\ mpc' = "run"
  /\ UNCHANGED <<conf, outq, log, proc, burst, opc, cpc>>

\* SIGTERM: runDevice leaves its loop and calls Stop(), which sets the flag.
Stop ==
  /\ mpc = "run"
  /\ stop' = TRUE
  /\ mpc' = "join_reader"
  /\ UNCHANGED <<conf, outq, log, native, burst, rpc, opc, cpc>>

\* A thread can be joined once it has left its loop, or was never started.
\* Mutant: the threads are not waited for.
JoinedMutant(pc) == TRUE
Joined(pc) == pc \in {"none", "exited"}

JoinReader ==
  /\ mpc = "join_reader"
  /\ Joined(rpc)
  /\ mpc' = "close_log"
  /\ UNCHANGED <<conf, outq, log, proc, burst, rpc, opc, cpc>>

\* stopEngine tests the flag, closes the log and clears the flag, each without
\* the lock, before it joins the others.
CloseLog ==
  /\ mpc = "close_log"
  /\ mpc' = IF outToFile THEN "close_stream" ELSE "clear_flag"
  /\ UNCHANGED <<conf, outq, log, proc, burst, rpc, opc, cpc>>

CloseStream ==
  /\ mpc = "close_stream"
  /\ stream' = "closed"
  /\ mpc' = "clear_flag"
  /\ UNCHANGED <<conf, outq, outToFile, proc, burst, rpc, opc, cpc>>

ClearFlag ==
  /\ mpc = "clear_flag"
  /\ outToFile' = FALSE
  /\ mpc' = "join_out"
  /\ UNCHANGED <<conf, outq, stream, proc, burst, rpc, opc, cpc>>

JoinOut ==
  /\ mpc = "join_out"
  /\ Joined(opc)
  /\ mpc' = "join_coms"
  /\ UNCHANGED <<conf, outq, log, proc, burst, rpc, opc, cpc>>

\* The coms thread is joined, then com->die() and delete com.
JoinComs ==
  /\ mpc = "join_coms"
  /\ Joined(cpc)
  /\ mpc' = "done"
  /\ UNCHANGED <<conf, outq, log, proc, burst, rpc, opc, cpc>>

Main == \/ OpenFails \/ StartEngine \/ SpawnOut \/ SpawnComs \/ SpawnReader
        \/ JoinReader \/ CloseLog \/ CloseStream \/ ClearFlag \/ JoinOut \/ JoinComs

-----------------------------------------------------------------------------
(* reader: in_func *)

\* The head of the loop.  MIDI's reader closes the device's port as it leaves.
ReaderTop ==
  /\ rpc = "top"
  /\ IF stop
       THEN /\ rpc' = "exited"
            /\ native' = IF Kind = "midi" THEN "closed" ELSE native
       ELSE rpc' = "poll" /\ UNCHANGED native
  /\ UNCHANGED <<conf, outq, log, stop, burst, opc, cpc, mpc>>

\* poll() times out, or returns events: evdev reads up to 64 of them at once,
\* MIDI one, and MIDI looks at stop again before it reads.
Poll ==
  /\ rpc = "poll"
  /\ \/ rpc' = "top" /\ UNCHANGED burst
     \/ /\ Kind = "midi" => ~stop
        /\ burst' \in IF Kind = "midi" THEN {1} ELSE 1 .. MaxBurst
        /\ rpc' = "report"
  /\ UNCHANGED <<conf, outq, log, proc, opc, cpc, mpc>>

\* MIDI: poll() or read() fails, or the device is gone: the loop is left, after
\* a failed poll() with stop set, otherwise with the process running on.
Unplug ==
  /\ Kind = "midi"
  /\ rpc = "poll"
  /\ stop' \in {stop, TRUE}
  /\ native' = "closed"
  /\ rpc' = "exited"
  /\ UNCHANGED <<conf, outq, log, burst, opc, cpc, mpc>>

\* report(): dispatch, then the logging flag is read without the lock.
Report ==
  /\ rpc = "report"
  /\ rpc' = IF outToFile THEN "log" ELSE "rules"
  /\ burst' = burst - 1
  /\ UNCHANGED <<conf, outq, log, proc, opc, cpc, mpc>>

\* The line goes to outFileStream, or nowhere when it has been closed since.
WriteLog ==
  /\ rpc = "log"
  /\ rpc' = "rules"
  /\ UNCHANGED <<conf, outq, log, proc, burst, opc, cpc, mpc>>

\* enqueue pushes at the back.  Mutant: it pushes at the front.
EnqueuedMutant(b) == <<b>> \o oQueue
Enqueued(b) == Append(oQueue, b)

\* A rule of CurrentMode matches: its outputs are enqueued; then its
\* change_mode, if it has one.
RuleMatches ==
  /\ rpc = "rules"
  /\ cur # NoMode
  /\ submitted < MaxBatches
  /\ LockFree
  /\ \E outs \in Shapes :
       oQueue' = Enqueued([id |-> submitted + 1, outs |-> outs])
  /\ submitted' = submitted + 1
  /\ \/ UNCHANGED <<rpc, target>>
     \/ /\ target' \in ModeIds
        /\ rpc' = "scan"
  /\ UNCHANGED <<file, modes, cur, torn, toSend, executed, flushed, log, proc,
                 burst, opc, cpc, mpc>>

\* No (further) rule matches: the next event of the burst, or the loop again.
\* With burst = 0 the rules are also those evdev's serviceHolds runs.
RulesDone ==
  /\ rpc = "rules"
  /\ rpc' = IF burst > 0 THEN "report" ELSE "top"
  /\ UNCHANGED <<conf, outq, log, proc, burst, opc, cpc, mpc>>

\* evdev: poll() timed out and serviceHolds fires for a key that is held.
ServiceHolds ==
  /\ Kind = "evdev"
  /\ rpc = "poll"
  /\ rpc' = "rules"
  /\ UNCHANGED <<conf, outq, log, proc, burst, opc, cpc, mpc>>

\* The mode changeMode copies: the one with the index looked for, if any.
\* Mutant: the index is taken for granted.
ModeFoundMutant == [ver |-> modes.ver, id |-> target]
ModeFound == IF target \in modes.ids THEN [ver |-> modes.ver, id |-> target] ELSE cur

\* changeMode: the scan of `modes` ends, the mode found replaces CurrentMode.
\* Its header, which may write to the device, runs in the reader's thread.
ChangeMode ==
  /\ rpc = "scan"
  /\ ~torn
  /\ cur' = ModeFound
  /\ rpc' = "rules"
  /\ target' = 0
  /\ UNCHANGED <<file, modes, torn, outq, log, proc, burst, opc, cpc, mpc>>

\* Reload rewrote the vector under the scan: undefined behaviour.  The scan
\* may miss every element, copy one of any parse, or kill the process.
ChangeModeTorn ==
  /\ rpc = "scan"
  /\ torn
  /\ \/ /\ cur' \in {cur} \cup {m \in ParsedModes : m.id = target}
        /\ rpc' = "rules"
        /\ UNCHANGED <<opc, cpc, mpc>>
     \/ /\ rpc' = "dead" /\ opc' = "dead" /\ cpc' = "dead" /\ mpc' = "dead"
        /\ UNCHANGED cur
  /\ torn' = FALSE
  /\ target' = 0
  /\ UNCHANGED <<file, modes, outq, log, proc, burst>>

\* The rule loop goes on, after changeMode, with iterators into the rules that
\* were replaced: undefined behaviour, which RuleMatches covers except for the
\* death of the process.
StaleRules ==
  /\ rpc = "scan"
  /\ ~torn
  /\ target \in modes.ids
  /\ rpc' = "dead" /\ opc' = "dead" /\ cpc' = "dead" /\ mpc' = "dead"
  /\ UNCHANGED <<conf, outq, log, proc, burst>>

Reader == \/ ReaderTop \/ Poll \/ Unplug \/ Report \/ WriteLog \/ RuleMatches
          \/ RulesDone \/ ServiceHolds \/ ChangeMode \/ ChangeModeTorn
          \/ StaleRules

-----------------------------------------------------------------------------
(* out: out_func *)

OutTop ==
  /\ opc = "top"
  /\ opc' = IF stop THEN "exited" ELSE "lock"
  /\ UNCHANGED <<conf, outq, log, proc, burst, rpc, cpc, mpc>>

\* pop() takes the front off.  Mutant: only front() is called.
PoppedMutant == oQueue
Popped == Tail(oQueue)

\* Under the lock: take the front batch, if there is one.
OutPop ==
  /\ opc = "lock"
  /\ LockFree
  /\ IF oQueue = <<>>
       THEN opc' = "top" /\ UNCHANGED <<oQueue, toSend>>
       ELSE /\ toSend' = Head(oQueue)
            /\ oQueue' = Popped
            /\ opc' = "exec"
  /\ UNCHANGED <<conf, submitted, executed, flushed, log, proc, burst, rpc, cpc, mpc>>

\* Mutant: the executor looks at stop between two outputs and drops the rest.
OutExecuteMutant ==
  /\ opc = "exec"
  /\ toSend.outs # <<>>
  /\ toSend' = IF stop THEN NoBatch ELSE [toSend EXCEPT !.outs = Tail(@)]
  /\ opc' = IF stop THEN "exited" ELSE opc
  /\ UNCHANGED <<conf, oQueue, submitted, executed, flushed, log, proc, burst, rpc, cpc, mpc>>

\* executeOutput of the next output, outside the lock.  A write that blocks for
\* ever, as one to a host that never polls, is left out: every output ends.
OutExecute ==
  /\ opc = "exec"
  /\ toSend.outs # <<>>
  /\ toSend' = [toSend EXCEPT !.outs = Tail(@)]
  /\ UNCHANGED <<conf, oQueue, submitted, executed, flushed, log, proc, burst,
                 rpc, opc, cpc, mpc>>

OutFinish ==
  /\ opc = "exec"
  /\ toSend.outs = <<>>
  /\ executed' = executed \cup {toSend.id}
  /\ toSend' = NoBatch
  /\ opc' = "top"
  /\ UNCHANGED <<conf, oQueue, submitted, flushed, log, proc, burst, rpc, cpc, mpc>>

Out == OutTop \/ OutPop \/ OutExecute \/ OutFinish

-----------------------------------------------------------------------------
(* coms: coms_handler *)

ComsTop ==
  /\ cpc = "top"
  /\ cpc' = IF stop THEN "exited" ELSE "beat"
  /\ UNCHANGED <<conf, outq, log, proc, burst, rpc, opc, mpc>>

\* Mutant: the reply is waited for without RCV_TIMEOUT_MS and never comes.
HeartbeatMutant == FALSE

\* heartbeat() returns nothing, "OK" or a command; those coms_handler does not
\* know (change_mode among them) fall through like "OK".
Heartbeat ==
  /\ cpc = "beat"
  /\ cpc' \in {"top", "reload", "file", "outstop"}
  /\ UNCHANGED <<conf, outq, log, proc, burst, rpc, opc, mpc>>

\* Reload takes the lock, drains the queue and clears header and modes.
ReloadClear ==
  /\ cpc = "reload"
  /\ flushed' = flushed \cup Ids(oQueue)
  /\ oQueue' = <<>>
  /\ modes' = [ver |-> file, ids |-> {}]
  /\ torn' = (rpc = "scan")
  /\ cpc' = "parse"
  /\ UNCHANGED <<file, cur, target, toSend, submitted, executed, log, proc, burst,
                 rpc, opc, mpc>>

\* json.Reload pushes one mode back.
ParseMode ==
  /\ cpc = "parse"
  /\ \E i \in ModesOf[modes.ver] \ modes.ids : modes' = [modes EXCEPT !.ids = @ \cup {i}]
  /\ torn' = (rpc = "scan")
  /\ UNCHANGED <<file, cur, target, outq, log, proc, burst, rpc, opc, cpc, mpc>>

ParseDone ==
  /\ cpc = "parse"
  /\ modes.ids = ModesOf[modes.ver]
  /\ cpc' = "header"
  /\ UNCHANGED <<conf, outq, log, proc, burst, rpc, opc, mpc>>

\* runActions(header), which may write to the device, then the lock is released.
ReloadHeader ==
  /\ cpc = "header"
  /\ cpc' = "top"
  /\ UNCHANGED <<conf, outq, log, proc, burst, rpc, opc, mpc>>

\* outFile: a log that is already open stays; opening may fail.
OutFile ==
  /\ cpc = "file"
  /\ IF stream = "open"
       THEN UNCHANGED log
       ELSE \/ stream' = "open" /\ outToFile' = TRUE
            \/ stream' = "closed" /\ outToFile' = FALSE
  /\ cpc' = "top"
  /\ UNCHANGED <<conf, outq, proc, burst, rpc, opc, mpc>>

\* Mutant: the stream is closed first, the flag cleared never.
OutStopMutant ==
  /\ cpc = "outstop"
  /\ stream' = "closed"
  /\ cpc' = "outstop_close"
  /\ UNCHANGED <<conf, outq, outToFile, proc, burst, rpc, opc, mpc>>

\* outStop: under the lock the flag is cleared first, then the stream closed.
OutStop ==
  /\ cpc = "outstop"
  /\ outToFile' = FALSE
  /\ cpc' = "outstop_close"
  /\ UNCHANGED <<conf, outq, stream, proc, burst, rpc, opc, mpc>>

OutStopClose ==
  /\ cpc = "outstop_close"
  /\ stream' = "closed"
  /\ cpc' = "top"
  /\ UNCHANGED <<conf, outq, outToFile, proc, burst, rpc, opc, mpc>>

Coms == \/ ComsTop \/ Heartbeat \/ ReloadClear \/ ParseMode \/ ParseDone
        \/ ReloadHeader \/ OutFile \/ OutStop \/ OutStopClose

-----------------------------------------------------------------------------
(* What two threads do at once with one object and without a lock: what    *)
(* either of them does alone, or the death of the process.                 *)

\* report() writes to the stream, or stopEngine closes it, while the coms
\* thread opens or closes it.
StreamRace ==
  /\ rpc = "log" \/ mpc = "close_stream"
  /\ cpc = "outstop_close" \/ (cpc = "file" /\ stream = "closed")

\* MIDI: out_func, or the header in Reload, writes to the port that the reader
\* has closed on its way out.
WriteAfterClose ==
  /\ native = "closed"
  /\ cpc = "header" \/ (opc = "exec" /\ toSend.outs # <<>> /\ Head(toSend.outs) = "native")

RaceKills ==
  /\ StreamRace \/ WriteAfterClose
  /\ rpc' = "dead" /\ opc' = "dead" /\ cpc' = "dead" /\ mpc' = "dead"
  /\ UNCHANGED <<conf, outq, log, proc, burst>>

-----------------------------------------------------------------------------
\* The process has ended, in an orderly way or not.
Terminated == mpc \in {"done", "dead"} /\ UNCHANGED vars

Next == EditFile \/ Stop \/ Main \/ Reader \/ Out \/ Coms \/ RaceKills \/ Terminated

\* Every thread of the process is scheduled; the signal, the edits of the file
\* and the events (one of the outcomes of Poll) are up to the environment.  The
\* executor gets the lock although commands keep coming: coms_handler sleeps
\* 200 ms without it in every round.
Fairness ==
  /\ WF_vars(Main)
  /\ WF_vars(Reader)
  /\ WF_vars(Out)
  /\ SF_vars(OutPop)
  /\ WF_vars(Coms)

Spec     == Init /\ [][Next]_vars
FairSpec == Spec /\ Fairness
-----------------------------------------------------------------------------
(* Properties *)

\* The values each variable ranges over.  A parsed profile holds no mode its
\* version does not define.
TypeConf ==
  /\ file \in Versions
  /\ modes \in [ver : Versions, ids : SUBSET ModeIds]
  /\ modes.ids \subseteq ModesOf[modes.ver]
  /\ cur \in ParsedModes \cup {NoMode}
  /\ torn \in BOOLEAN
  /\ target \in ModeIds \cup {0}

TypeOutq ==
  /\ submitted \in 0 .. MaxBatches
  /\ oQueue \in Seq(Batch)
  /\ toSend \in Batch \cup {NoBatch}
  /\ executed \subseteq 1 .. MaxBatches
  /\ flushed \subseteq 1 .. MaxBatches

TypeFlags == stop \in BOOLEAN /\ outToFile \in BOOLEAN

TypeControl ==
  /\ stream \in {"open", "closed"}
  /\ native \in {"open", "closed"}
  /\ burst \in 0 .. MaxBurst
  /\ rpc \in {"none", "top", "poll", "report", "log", "rules", "scan", "exited", "dead"}
  /\ rpc = "report" => burst > 0
  /\ opc \in {"none", "top", "lock", "exec", "exited", "dead"}
  /\ cpc \in {"none", "top", "beat", "reload", "parse", "header", "file",
              "outstop", "outstop_close", "exited", "dead"}
  /\ mpc \in {"ctor", "spawn_out", "spawn_coms", "spawn_reader", "run",
              "join_reader", "close_log", "close_stream", "clear_flag",
              "join_out", "join_coms", "done", "dead"}

TypeOK == TypeConf /\ TypeOutq /\ TypeFlags /\ TypeControl

\* Outputs leave in the order their rules matched: the queue is in order, what
\* has left it came before what is in it, and what has been executed came
\* before the batch in execution (enqueue, out_func, Reload).
Ordered ==
  /\ \A i, j \in DOMAIN oQueue : i < j => oQueue[i].id < oQueue[j].id
  /\ \A i \in DOMAIN oQueue :
       /\ toSend.id < oQueue[i].id
       /\ \A n \in executed \cup flushed : n < oQueue[i].id
  /\ toSend # NoBatch => \A n \in executed : n < toSend.id

\* No batch is lost or executed twice: every submitted batch waits, is in
\* execution, was executed or was flushed by a Reload, and is one of these only.
Accounted ==
  /\ 1 .. submitted = Ids(oQueue) \cup ({toSend.id} \ {0}) \cup executed \cup flushed
  /\ executed \cap flushed = {}
  /\ toSend.id \notin executed \cup flushed

\* While Reload rebuilds the profile nothing enters the queue it has drained:
\* the lock keeps enqueue() out until the new header has been run.
NothingQueuedInReload == cpc \in {"parse", "header"} => oQueue = <<>>

\* A log line that report() has decided to write is lost to an outstop only:
\* never to stopEngine's unlocked close, because the reader is joined before.
LogLostToOutstopOnly ==
  rpc = "log" /\ stream = "closed" => ~outToFile /\ mpc \in {"run", "join_reader"}

\* When Stop() returns, no thread is left that could execute an output and the
\* batch that was in execution was finished.
StoppedClean ==
  mpc = "done" =>
    /\ rpc \in {"none", "exited"}
    /\ opc \in {"none", "exited"}
    /\ cpc \in {"none", "exited"}
    /\ toSend = NoBatch

\* Stop() always returns: no thread waits for ever for the lock or a join.
StopCompletes == mpc = "join_reader" ~> mpc \in {"done", "dead"}

\* changeMode, as its comment says, switches to the mode whose index is given:
\* at least when every version of the profile defines that mode.
ChangeModeSwitches ==
  [][rpc = "scan" /\ rpc' = "rules" /\ (\A v \in Versions : target \in ModesOf[v])
       => cur'.id = target]_vars

-----------------------------------------------------------------------------
\* The engine implements the promise of OutputStream.
Promise == INSTANCE OutputStream WITH
  pending <- oQueue,
  current <- toSend,
  phase   <- IF mpc = "dead" THEN "crashed"
             ELSE IF opc = "exited" THEN "halted" ELSE "running"

ImplementsPromise == Promise!AbsSpec
=============================================================================
