---------------------------- MODULE CommandLeg ----------------------------
(***************************************************************************)
(* Registration, heartbeats and commands between the device handlers       *)
(* (LowLevel/Common/src/zmq_coms.cpp, driven by coms_handler) and the      *)
(* dispatcher (LowLevel/dispatcher/src/dispatcher.cpp).                    *)
(*                                                                         *)
(* A handler registers once, when it starts, and then sends heartbeats.    *)
(* The dispatcher answers a heartbeat with the command that waits for its  *)
(* uuid, if any.  Both exchanges are ZeroMQ REQ/REP with a receive timeout *)
(* on the handler's side: a handler that has waited too long closes its    *)
(* socket and opens another one, while its old request may still be served *)
(* and the answer to it thrown away.                                       *)
(*                                                                         *)
(* A socket is named by its handler and a number no request in flight      *)
(* carries.  Uuid 0 is the empty string of a handler that got no answer to *)
(* its registration.                                                       *)
(***************************************************************************)
EXTENDS Integers, Sequences, FiniteSets

CONSTANTS
  Devs,        \* device handlers
  Socks,       \* socket numbers: bounds the abandoned requests of a handler
  MaxStarts,   \* bound on the starts of handler processes
  MaxPosts,    \* bound on the commands posted
  MaxCrashes   \* bound on the crashes of the dispatcher

ASSUME CommandLegAssumption ==
  /\ IsFiniteSet(Devs)
  /\ Socks \subseteq Nat /\ 0 \in Socks
  /\ MaxStarts \in Nat /\ MaxPosts \in Nat /\ MaxCrashes \in Nat

VARIABLES
  up,        \* the dispatcher process is running
  devices,   \* uuids in its map `devices`
  fresh,     \* uuids whose last_ping is within HeartbeatLiveWindowSec
  commands,  \* commands[u]: the command waiting for u, or NoCmd; posted commands
             \* are numbered, what they say is DeviceEngine's business
  hbpc,      \* th_heart_beat: "recv", "take" or "send"
  hbReq,     \* the request it serves
  hbResp,    \* the answer it has built
  unReq,     \* the registration th_unique_number serves, or NoReq
  unUuid,    \* the uuid generated for it
  hpc,       \* hpc[d]: where the handler is
  uuid,      \* uuid[d]: its unique_number
  sock,      \* sock[d]: the socket it waits on, or will use next
  inbox,     \* inbox[d]: the answer that has arrived on it, or NoReply
  unWire,    \* registrations sent and not yet received: [dev, sock]
  hbWire,    \* heartbeats sent and not yet received: [dev, sock, uuid]
  issued,    \* number of uuids generated
  starts,    \* number of handler starts
  crashes,   \* number of dispatcher crashes
  posted,    \* number of commands posted
  handled    \* commands coms_handler was given, in order: [to, id]

disp     == <<devices, fresh, commands>>
hbt      == <<hbpc, hbReq, hbResp>>
unt      == <<unReq, unUuid, issued>>
handlers == <<hpc, uuid, sock, inbox>>
wires    == <<unWire, hbWire>>
bounds   == <<starts, crashes>>
vars     == <<up, disp, hbt, unt, handlers, wires, bounds, posted, handled>>

Uuids   == 1 .. MaxStarts
NoCmd   == 0                               \* "OK" in an answer
NoReq   == [dev |-> "none"]
Empty   == [uuid |-> 0, cmd |-> NoCmd]     \* the answer "" to an unknown sender
NoReply == [uuid |-> 0, cmd |-> -1]

\* The socket numbers of d that no request in flight carries.
Used(d) == {sock[d]} \cup {r.sock : r \in {q \in unWire \cup hbWire : q.dev = d}}
                     \cup {r.sock : r \in {q \in {hbReq, unReq} \ {NoReq} : q.dev = d}}
Unused(d) == {n \in Socks \ Used(d) : \A m \in Socks \ Used(d) : n <= m}

-----------------------------------------------------------------------------
Init ==
  /\ up = TRUE
  /\ devices = {} /\ fresh = {}
  /\ commands = [u \in Uuids |-> NoCmd]
  /\ hbpc = "recv" /\ hbReq = NoReq /\ hbResp = Empty
  /\ unReq = NoReq /\ unUuid = 0 /\ issued = 0
  /\ hpc = [d \in Devs |-> "down"]
  /\ uuid = [d \in Devs |-> 0]
  /\ sock = [d \in Devs |-> 0]
  /\ inbox = [d \in Devs |-> NoReply]
  /\ unWire = {} /\ hbWire = {}
  /\ starts = 0 /\ crashes = 0
  /\ posted = 0
  /\ handled = <<>>

-----------------------------------------------------------------------------
(* The handler: zmq_coms and coms_handler *)

\* The process starts; unique_number_handler sends the registration.
Register(d) ==
  /\ hpc[d] = "down"
  /\ starts < MaxStarts
  /\ starts' = starts + 1
  /\ unWire' = unWire \cup {[dev |-> d, sock |-> sock[d]]}
  /\ hpc' = [hpc EXCEPT ![d] = "unwait"]
  /\ UNCHANGED <<up, disp, hbt, unt, uuid, sock, inbox, hbWire, crashes, posted, handled>>

Registered(d) ==
  /\ hpc[d] = "unwait"
  /\ inbox[d] # NoReply
  /\ uuid' = [uuid EXCEPT ![d] = inbox[d].uuid]
  /\ inbox' = [inbox EXCEPT ![d] = NoReply]
  /\ hpc' = [hpc EXCEPT ![d] = "ready"]
  /\ UNCHANGED <<up, disp, hbt, unt, sock, wires, bounds, posted, handled>>

\* No answer within RCV_TIMEOUT_MS: the handler goes on without an id, for good.
\* Its registration stays where it is, nobody reads the answer.
Unregistered(d) ==
  /\ hpc[d] = "unwait"
  /\ inbox[d] = NoReply
  /\ \E n \in Unused(d) : sock' = [sock EXCEPT ![d] = n]
  /\ hpc' = [hpc EXCEPT ![d] = "ready"]
  /\ UNCHANGED <<up, disp, hbt, unt, uuid, inbox, wires, bounds, posted, handled>>

\* heartbeat() sends the request.
Beat(d) ==
  /\ hpc[d] = "ready"
  /\ hbWire' = hbWire \cup {[dev |-> d, sock |-> sock[d], uuid |-> uuid[d]]}
  /\ hpc' = [hpc EXCEPT ![d] = "wait"]
  /\ UNCHANGED <<up, disp, hbt, unt, uuid, sock, inbox, unWire, bounds, posted, handled>>

\* The answer is for this device and says something: its field 0 is compared
\* with the device's own uuid.
Addressed(d) == inbox[d] # Empty /\ inbox[d].uuid = uuid[d]

\* The answer arrives; a command in it is handed to coms_handler.
Receive(d) ==
  /\ hpc[d] = "wait"
  /\ inbox[d] # NoReply
  /\ handled' = IF Addressed(d) /\ inbox[d].cmd # NoCmd
                  THEN Append(handled, [to |-> uuid[d], id |-> inbox[d].cmd])
                  ELSE handled
  /\ inbox' = [inbox EXCEPT ![d] = NoReply]
  /\ hpc' = [hpc EXCEPT ![d] = "ready"]
  /\ UNCHANGED <<up, disp, hbt, unt, uuid, sock, wires, bounds, posted>>

\* Mutant: the wait for an answer has no timeout.
TimeoutMutant(d) == FALSE

\* No answer within RCV_TIMEOUT_MS: the socket is closed and replaced.  A request
\* that a running dispatcher has in its queue is served later; one that could not
\* be transmitted is lost with the socket (ZMQ_LINGER is 10 ms).
Timeout(d) ==
  /\ hpc[d] = "wait"
  /\ inbox[d] = NoReply
  /\ \E n \in Unused(d) : sock' = [sock EXCEPT ![d] = n]
  /\ hbWire' \in {hbWire} \cup
       IF up THEN {} ELSE {{r \in hbWire : r.dev # d \/ r.sock # sock[d]}}
  /\ hpc' = [hpc EXCEPT ![d] = "closed"]
  /\ UNCHANGED <<up, disp, hbt, unt, uuid, inbox, unWire, bounds, posted, handled>>

\* Mutant: hb_connected is never set again.
ReconnectMutant(d) == FALSE

\* The next heartbeat() only connects the new socket.
Reconnect(d) ==
  /\ hpc[d] = "closed"
  /\ hpc' = [hpc EXCEPT ![d] = "ready"]
  /\ UNCHANGED <<up, disp, hbt, unt, uuid, sock, inbox, wires, bounds, posted, handled>>

\* The handler process ends, at any time (unplug, deploy, crash).
Exit(d) ==
  /\ hpc[d] # "down"
  /\ \E n \in Unused(d) : sock' = [sock EXCEPT ![d] = n]
  /\ hbWire' \in {hbWire, {r \in hbWire : r.dev # d}}
  /\ unWire' \in {unWire, {r \in unWire : r.dev # d}}
  /\ uuid' = [uuid EXCEPT ![d] = 0]
  /\ inbox' = [inbox EXCEPT ![d] = NoReply]
  /\ hpc' = [hpc EXCEPT ![d] = "down"]
  /\ UNCHANGED <<up, disp, hbt, unt, bounds, posted, handled>>

Handler(d) == \/ Registered(d) \/ Unregistered(d) \/ Beat(d) \/ Receive(d)
              \/ Timeout(d) \/ Reconnect(d)

-----------------------------------------------------------------------------
(* The dispatcher *)

\* An answer reaches the socket that asked for it, if that is still the one
\* its handler waits on; otherwise ZeroMQ drops it.
Answered(r, reply) ==
  IF hpc[r.dev] \in {"unwait", "wait"} /\ sock[r.dev] = r.sock THEN [inbox EXCEPT ![r.dev] = reply] ELSE inbox

\* uuid_generate.  Mutant: the number of registered devices is taken for it.
NewUuidMutant == Cardinality(devices) + 1
NewUuid == issued + 1

\* th_unique_number receives a registration and generates a uuid: while the
\* new node is linked into `devices`, other threads look keys up in the map.
UnRecv(d) ==
  /\ up
  /\ unReq = NoReq
  /\ \E r \in {q \in unWire : q.dev = d} : unReq' = r /\ unWire' = unWire \ {r}
  /\ issued' = issued + 1
  /\ unUuid' = NewUuid
  /\ UNCHANGED <<up, disp, hbt, handlers, hbWire, bounds, posted, handled>>

UnSend ==
  /\ up
  /\ unReq # NoReq
  /\ devices' = devices \cup {unUuid}
  /\ fresh' = fresh \cup {unUuid}
  /\ inbox' = Answered(unReq, [uuid |-> unUuid, cmd |-> NoCmd])
  /\ unReq' = NoReq
  /\ unUuid' = 0
  /\ UNCHANGED <<up, commands, hbt, issued, hpc, uuid, sock, wires, bounds, posted, handled>>

\* Mutant: the sender is not looked up.
CountMutant(u) == {TRUE}

\* devices.count(u), called without lock_devices: a lookup that runs into an
\* insertion may miss a key that is there.
Count(u) == IF u \notin devices THEN {FALSE}
            ELSE IF unReq # NoReq THEN {TRUE, FALSE} ELSE {TRUE}

\* Mutant: only the io leg refreshes last_ping.
PingedMutant(u) == fresh
Pinged(u) == fresh \cup {u}

\* th_heart_beat receives a request and looks its sender up.
HbRecv(d) ==
  /\ up
  /\ hbpc = "recv"
  /\ \E r \in {q \in hbWire : q.dev = d}, known \in BOOLEAN :
       /\ known \in Count(r.uuid)
       /\ hbReq' = r
       /\ hbWire' = hbWire \ {r}
       /\ fresh' = IF known THEN Pinged(r.uuid) ELSE fresh
       /\ hbpc' = IF known THEN "take" ELSE "send"
  /\ UNCHANGED <<up, devices, commands, hbResp, unt, handlers, unWire, bounds, posted, handled>>

\* Mutant: the command is not erased.
TakenMutant(u) == commands

Taken(u) == [commands EXCEPT ![u] = NoCmd]

\* Under command_lock: the command that waits, or OK.
HbTake ==
  /\ up
  /\ hbpc = "take"
  /\ hbResp' = [uuid |-> hbReq.uuid, cmd |-> commands[hbReq.uuid]]
  /\ commands' = Taken(hbReq.uuid)
  /\ hbpc' = "send"
  /\ UNCHANGED <<up, devices, fresh, hbReq, unt, handlers, wires, bounds, posted, handled>>

\* Mutant: the text of the last answer is kept, an unknown sender gets it.
HbSendMutant ==
  /\ up
  /\ hbpc = "send"
  /\ inbox' = Answered(hbReq, hbResp)
  /\ hbpc' = "recv"
  /\ hbReq' = NoReq
  /\ UNCHANGED <<hbResp, up, disp, unt, hpc, uuid, sock, wires, bounds, posted, handled>>

HbSend ==
  /\ up
  /\ hbpc = "send"
  /\ inbox' = Answered(hbReq, hbResp)
  /\ hbpc' = "recv"
  /\ hbReq' = NoReq
  /\ hbResp' = Empty
  /\ UNCHANGED <<up, disp, unt, hpc, uuid, sock, wires, bounds, posted, handled>>

\* Mutant: operator[] instead of insert(): the newest command wins.
StoredMutant(u, c) == [commands EXCEPT ![u] = c]

\* commands.insert leaves a command that waits where it is.
Stored(u, c) == IF commands[u] = NoCmd THEN [commands EXCEPT ![u] = c] ELSE commands

\* POST /iocommand and /screencommand, for any uuid that was ever given out.
\* Under command_lock.
PostCommand(u) ==
  /\ up
  /\ posted < MaxPosts
  /\ u <= issued
  /\ posted' = posted + 1
  /\ \E known \in Count(u) : commands' = IF known THEN Stored(u, posted + 1) ELSE commands
  /\ UNCHANGED <<up, devices, fresh, hbt, unt, handlers, wires, bounds, handled>>

\* HeartbeatLiveWindowSec have passed since the last ping of u.
GrowStale(u) ==
  /\ u \in fresh
  /\ fresh' = fresh \ {u}
  /\ UNCHANGED <<up, devices, commands, hbt, unt, handlers, wires, bounds, posted, handled>>

\* GetHeartbeats: the live senders, under lock_devices.
Roster == devices \cap fresh

\* The dispatcher process ends and everything it held is gone; the requests its
\* sockets had received, and not served, may be gone too.
DispatcherCrash ==
  /\ up
  /\ crashes < MaxCrashes
  /\ crashes' = crashes + 1
  /\ up' = FALSE
  /\ devices' = {} /\ fresh' = {}
  /\ commands' = [u \in Uuids |-> NoCmd]
  /\ hbpc' = "recv" /\ hbReq' = NoReq /\ hbResp' = Empty
  /\ unReq' = NoReq /\ unUuid' = 0
  /\ unWire' \in {unWire, {}}
  /\ hbWire' \in {hbWire, {}}
  /\ UNCHANGED <<issued, handlers, starts, posted, handled>>

DispatcherRestart ==
  /\ ~up
  /\ up' = TRUE
  /\ UNCHANGED <<disp, hbt, unt, handlers, wires, bounds, posted, handled>>

\* No handler is left; the threads of the dispatcher go on polling.
Idle == up /\ (\A d \in Devs : hpc[d] = "down") /\ UNCHANGED vars

Dispatcher == UnSend \/ HbTake \/ HbSend \/ DispatcherRestart

Next ==
  \/ \E d \in Devs : Register(d) \/ Handler(d) \/ Exit(d) \/ UnRecv(d) \/ HbRecv(d)
  \/ \E u \in Uuids : PostCommand(u) \/ GrowStale(u)
  \/ Dispatcher
  \/ DispatcherCrash
  \/ Idle

\* Handlers and dispatcher threads are scheduled, the service manager restarts
\* the dispatcher (Restart=on-failure), and a REP socket serves its peers in
\* turn.  Nobody has to start a handler, end it, or post a command.
Fairness ==
  /\ \A d \in Devs : /\ WF_vars(Handler(d))
                     /\ SF_vars(UnRecv(d))
                     /\ SF_vars(HbRecv(d))
  /\ WF_vars(UnSend) /\ WF_vars(HbTake) /\ WF_vars(HbSend)
  /\ WF_vars(DispatcherRestart)

Spec     == Init /\ [][Next]_vars
FairSpec == Spec /\ Fairness
-----------------------------------------------------------------------------
(* Properties *)

Reply == [uuid : Uuids \cup {0}, cmd : 0 .. MaxPosts]
UnReq == [dev : Devs, sock : Socks]
HbReq == [dev : Devs, sock : Socks, uuid : Uuids \cup {0}]

\* The values each variable ranges over; the answer in preparation is about the
\* request that is being served.
TypeOK ==
  /\ up \in BOOLEAN
  /\ devices \subseteq Uuids /\ fresh \subseteq devices
  /\ commands \in [Uuids -> 0 .. posted]
  /\ hbpc \in {"recv", "take", "send"}
  /\ hbReq \in HbReq \cup {NoReq} /\ (hbReq = NoReq <=> hbpc = "recv")
  /\ hbResp \in Reply /\ hbResp.uuid \in {0, IF hbpc = "send" THEN hbReq.uuid ELSE 0}
  /\ unReq \in UnReq \cup {NoReq} /\ unUuid \in Uuids \cup {0}
  /\ hpc \in [Devs -> {"down", "unwait", "ready", "wait", "closed"}]
  /\ uuid \in [Devs -> Uuids \cup {0}]
  /\ sock \in [Devs -> Socks]
  /\ inbox \in [Devs -> Reply \cup {NoReply}]
  /\ unWire \subseteq UnReq /\ hbWire \subseteq HbReq
  /\ issued \in 0 .. MaxStarts /\ starts \in 0 .. MaxStarts
  /\ crashes \in 0 .. MaxCrashes
  /\ posted \in 0 .. MaxPosts
  /\ handled \in Seq([to : Uuids, id : 1 .. posted])

\* A uuid names one handler process, across restarts of the handlers and of the
\* dispatcher: it is never the id of two processes, nor waiting as a heartbeat
\* of one handler while it is the id of another (generate_unique_number).
OneOwner ==
  /\ \A d, e \in Devs : uuid[d] = uuid[e] /\ uuid[d] # 0 => d = e
  /\ \A r \in hbWire \cup ({hbReq} \ {NoReq}), d \in Devs :
       uuid[d] = r.uuid /\ r.uuid # 0 => d = r.dev
  /\ \A d \in Devs : uuid[d] # 0 => uuid[d] # unUuid

\* A handler never reads the answer to a question it has given up on: in a
\* heartbeat the field-0 filter finds its own uuid or the empty answer, and the
\* answer to a registration carries an id nobody else has (heartbeat,
\* unique_number_handler: a socket that timed out is not used again).
AnswersMatch ==
  \A d \in Devs : inbox[d] # NoReply =>
    \/ hpc[d] = "wait" /\ inbox[d].uuid \in {0, uuid[d]}
    \/ hpc[d] = "unwait" /\ inbox[d].uuid # 0 /\ \A e \in Devs : uuid[e] # inbox[d].uuid

\* heartbeat() returns, whatever happens to the dispatcher: this is what
\* DeviceEngine relies on when stopEngine joins the coms thread.
HeartbeatReturns == \A d \in Devs : hpc[d] = "wait" ~> hpc[d] # "wait"

\* A command that waits for a running handler leaves the mailbox: its heartbeats
\* never stop, though answers are lost and sockets replaced.
PendingIsFetched ==
  \A d \in Devs, u \in Uuids :
    commands[u] # NoCmd /\ uuid[d] = u ~> commands[u] = NoCmd \/ uuid[d] # u

\* A registered handler that runs is shown as live again and again, as long as
\* the dispatcher is not restarted.
StaysInRoster ==
  \A d \in Devs, u \in Uuids :
    uuid[d] = u /\ u \in devices ~> u \in Roster \/ uuid[d] # u \/ ~up

\* The leg implements the mailbox: in particular no command arrives twice, at
\* another device's handler, or before one posted earlier for the same uuid.
Fetched == {[to |-> r.uuid, id |-> r.cmd] :
              r \in {q \in {hbResp} \cup {inbox[d] : d \in Devs} : q.cmd > 0}}

Mail == INSTANCE Mailbox WITH
  slot    <- commands,
  away    <- Fetched,
  arrived <- handled

ImplementsMailbox == Mail!MailSpec
=============================================================================
