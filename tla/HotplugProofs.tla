--------------------------- MODULE HotplugProofs ---------------------------
(***************************************************************************)
(* Proofs about Hotplug, for every set of ports, devices, profiles and     *)
(* names, and any number of acts.                                          *)
(***************************************************************************)
EXTENDS Hotplug, TLAPS

-----------------------------------------------------------------------------
(* What udev keeps of the device in a port *)

\* Between the events i and j of a port there is a remove.
Gone(q, i, j) == \E k \in i + 1 .. j - 1 : q[k].act = "remove"

\* Events tell of their port and of a device.
Told(q, p) ==
  \A i \in 1 .. Len(q) : q[i].port = p /\ (q[i].act = "add" => q[i].dev \in Device)

\* The device that an event adds is the one of any later add and at last the one
\* that is plugged in, d, unless a remove comes between.
Turns(q, d) ==
  \A i \in 1 .. Len(q) : q[i].act = "add" =>
    /\ \A j \in i + 1 .. Len(q) : q[j].act = "add" => Gone(q, i, j) \/ q[j].dev = q[i].dev
    /\ Gone(q, i, Len(q) + 1) \/ d = q[i].dev

\* After a remove comes the event of the device that is plugged in.
Renewed(q, p, d) ==
  \A i \in 1 .. Len(q) : q[i].act = "remove" =>
    d = Nothing \/ \E j \in i + 1 .. Len(q) : q[j] = [act |-> "add", port |-> p, dev |-> d]

InTurn(q, p, d) == Told(q, p) /\ Turns(q, d) /\ Renewed(q, p, d)

\* What an event handler does belongs to the event that udev runs it for.
AtWork(p) ==
  worker[p].pc # "idle" =>
    /\ queue[p] # <<>>
    /\ queue[p][1].act = IF worker[p].pc = "stop" THEN "remove" ELSE "add"
    /\ (worker[p].pc \in {"match", "start"} /\ ~mixed) => worker[p].info = queue[p][1]

\* A launcher starts the unit of the device it has read of.
Matched(p) ==
  worker[p].pc = "start" =>
    /\ worker[p].info.dev \in Device
    /\ worker[p].unit[2] = Identity(worker[p].info.dev, worker[p].info.port)
    /\ worker[p].file \in Name /\ worker[p].unit[1] \notin clashed =>
         worker[p].file = worker[p].unit[1]

PortInv(p) == InTurn(queue[p], p, plugged[p]) /\ AtWork(p) /\ Matched(p)

UsbInv == \A p \in Port : PortInv(p)

-----------------------------------------------------------------------------
(* Units and their processes *)

Runs(u) == proc[u] # Nothing

\* A handler has its unit file, and the port of it.
Backed ==
  \A u \in Unit : Runs(u) /\ <<"orphaned", u>> \notin mishap =>
    units[u] # Nothing /\ units[u].port = proc[u].port

\* A handler reads its own node, another one if it strayed.
OwnNode ==
  \A u \in Unit : Runs(u) /\ <<"strayed", u>> \notin mishap /\ proc[u].reads \in Port =>
    proc[u].reads = proc[u].port

\* A handler that neither moved nor lost its file.
Steady(u) == Runs(u) /\ {<<"moved", u>>, <<"orphaned", u>>} \cap mishap = {}

\* From the events q of port p, with device d in it, follows that units named id
\* stay, or that they are stopped: before any other device comes a remove.
Leads(q, p, d, id) ==
  /\ \A i \in 1 .. Len(q) : q[i].act = "add" => Gone(q, 0, i) \/ Identity(q[i].dev, p) = id
  /\ Gone(q, 0, Len(q) + 1) \/ (d # Nothing /\ Identity(d, p) = id)

Tied ==
  ~mixed => \A u \in Unit :
    Steady(u) => Leads(queue[proc[u].port], proc[u].port, plugged[proc[u].port], u[2])

\* Handlers of one port are of one device.
OneDevice ==
  ~mixed => \A u, v \in Unit :
    Steady(u) /\ Steady(v) /\ proc[u].port = proc[v].port => u[2] = v[2]

UnitInv == Backed /\ OwnNode /\ Tied /\ OneDevice

-----------------------------------------------------------------------------
(* Undeploy *)

Named(n) == \E f \in Name : HasName(f, n)

\* The name that is being undeployed is no profile's.
Undone ==
  /\ server.pc = "scan" /\ Named(server.name) => server.name \in clashed
  /\ server.pc \in {"units", "rm"} =>
       \A u \in server.left : Named(u[1]) => u[1] \in clashed
  /\ server.pc = "rm" => (Named(server.unit[1]) => server.unit[1] \in clashed)

Excused(u) == <<"late", u>> \in mishap \/ u[1] \in clashed

\* Undeploy will stop this unit.
ToStop(u) ==
  \/ server.pc = "scan" /\ server.name = u[1] /\ units[u] # Nothing
  \/ server.pc \in {"units", "rm"} /\ u \in server.left

Covers == \A u \in Unit : Runs(u) => Named(u[1]) \/ Excused(u) \/ ToStop(u)

\* A unit that was started again before its file was removed was late.
Orphans ==
  /\ \A u \in Unit : <<"orphaned", u>> \in mishap => Excused(u)
  /\ server.pc = "rm" /\ Runs(server.unit) => Excused(server.unit)

UndeployInv == Undone /\ Covers /\ Orphans

-----------------------------------------------------------------------------
(* Handlers of the devices that are plugged in *)

\* A profile is in the file of its name, and units and handlers are for that file,
\* but those for a temporary file.
Files ==
  /\ \A f \in Name : boards[f] # Nothing /\ boards[f].name \notin clashed => boards[f].name = f
  /\ \A u \in Unit :
       units[u] # Nothing /\ units[u].file \in Name /\ u[1] \notin clashed => units[u].file = u[1]
  /\ \A u \in Unit :
       Runs(u) /\ proc[u].file \in Name /\ u[1] \notin clashed => proc[u].file = u[1]
  /\ server.pc = "rename" /\ server.profile.name # server.file => boards[server.file] # Nothing

UnitOf(p, f) == UnitFor(boards[f], Add(p))

\* A handler that has opened, and not for a temporary file, has the profile in f as it
\* is now and reads the device in p, none, or has strayed.
Obeys(u, p, f) ==
  proc[u].file \in Name /\ proc[u].reads # "opening" =>
    /\ proc[u].profile = boards[f]
    /\ proc[u].reads \in {p, "none"} \/ <<"strayed", u>> \in mishap

InPlace(p, f) ==
  LET u == UnitOf(p, f)
  IN  /\ units[u] # Nothing /\ units[u].port = p
      /\ Runs(u) /\ proc[u].port = p /\ Obeys(u, p, f)

\* The launcher at work in p comes to f, and will not find a unit removed that
\* it has listed.
Comes(p, f) ==
  /\ worker[p].pc \in {"match", "start"}
  /\ f \in worker[p].files \/ (worker[p].pc = "start" /\ worker[p].unit = UnitOf(p, f))
  /\ UnitOf(p, f) \in worker[p].known => units[UnitOf(p, f)] # Nothing

\* An event that starts the handler, if the launcher that may be at work for it
\* comes to f.
Awaits(p, f, i) ==
  /\ queue[p][i] = Add(p)
  /\ i = 1 => worker[p].pc \in {"idle", "read"} \/ Comes(p, f)

\* A deploy has not told udev yet, or there is such an event.
Pending(p, f) == server.pc = "reload" \/ \E i \in 1 .. Len(queue[p]) : Awaits(p, f, i)

\* The profile in f is due for the device in p.
Due(p, f) ==
  Wanted(p, f) /\ boards[f].name \notin clashed /\ <<"moved", UnitOf(p, f)>> \notin mishap

Fine(p, f) == Due(p, f) => InPlace(p, f) \/ Pending(p, f)

Served == ~mixed => \A p \in Port, f \in Name : Fine(p, f)

ForceInv == Files /\ Served

IInv == TypeOK /\ UsbInv /\ UnitInv /\ UndeployInv /\ ForceInv

-----------------------------------------------------------------------------
(* Types *)

\* The file of a profile and its temporary file are two.
LEMMA TempFile ==
  ASSUME NEW f \in Name
  PROVE  f \in File /\ Temp(f) \in File /\ Temp(f) \notin Name
  BY HotplugAssumption DEF File, Temp

\* What an event handler keeps at each point.
LEMMA WorkShape ==
  ASSUME NEW w \in Work
  PROVE  /\ w.pc \in {"idle", "read", "match", "start", "stop"}
         /\ w.pc \in {"match", "start"} => w.files \subseteq File /\ w.known \subseteq Unit
         /\ w.pc = "match" => w.info \in Event \cup {Nothing}
         /\ w.pc = "start" => w.info \in Event /\ w.file \in File /\ w.unit \in Unit
  BY DEF Work

\* What the backend keeps at each point.
LEMMA RequestShape ==
  ASSUME server \in Request
  PROVE  /\ server.pc \in {"idle", "rename", "reload", "scan", "units", "rm"}
         /\ server.pc = "rename" => server.file \in Name /\ server.profile \in Profile
         /\ server.pc = "scan" => server.name \in Name
         /\ server.pc \in {"units", "rm"} => server.left \subseteq Unit
         /\ server.pc = "rm" => server.unit \in Unit
  BY DEF Request

\* An event handler begins, or has done with its event.
LEMMA SimpleWork == \A pc \in {"idle", "read", "stop"} : [pc |-> pc] \in Work
  BY DEF Work

\* A launcher goes on with its loop.
LEMMA MatchWork ==
  ASSUME NEW files \in SUBSET File, NEW known \in SUBSET Unit, NEW info \in Event \cup {Nothing}
  PROVE  [pc |-> "match", files |-> files, known |-> known, info |-> info] \in Work
  BY DEF Work

\* A launcher has claimed a device for a profile.
LEMMA StartWork ==
  ASSUME NEW files \in SUBSET File, NEW known \in SUBSET Unit, NEW info \in Event,
         NEW file \in File, NEW unit \in Unit
  PROVE  [pc |-> "start", files |-> files, known |-> known, info |-> info,
          file |-> file, unit |-> unit] \in Work
  BY DEF Work

\* The events of a device that is plugged in, or was.
LEMMA EventType ==
  ASSUME TypeOK, NEW p \in Port
  PROVE  Add(p) \in Event /\ Remove(p) \in Event /\ Add(p) # Nothing /\ Remove(p) # Nothing
  <1>1. plugged[p] \in Device \cup {Nothing}
    BY DEF TypeOK
  <1>2. Add(p) \in Event /\ Remove(p) \in Event
    BY <1>1 DEF Add, Remove, Event
  <1> QED
    BY <1>2, NothingAssumption

\* The parts of TypeOK, without what is seldom used of it.
LEMMA Types ==
  ASSUME TypeOK
  PROVE  /\ plugged \in [Port -> Device \cup {Nothing}]
         /\ queue \in [Port -> Seq(Event)] /\ worker \in [Port -> Work]
         /\ boards \in [File -> Profile \cup {Nothing}]
         /\ units \in [Unit -> UnitFile \cup {Nothing}]
         /\ proc \in [Unit -> Handler \cup {Nothing}]
         /\ server \in Request /\ mishap \subseteq Mishap /\ clashed \subseteq Name
  BY DEF TypeOK

-----------------------------------------------------------------------------
\* The initial state has its types.
LEMMA TypeInit == Init => TypeOK
  <1> SUFFICES ASSUME Init PROVE TypeOK
    OBVIOUS
  <1>1. [p \in Port |-> Nothing] \in [Port -> Device \cup {Nothing}] /\ {} \subseteq Port
    OBVIOUS
  <1>2. [p \in Port |-> <<>>] \in [Port -> Seq(Event)]
    OBVIOUS
  <1>3. [p \in Port |-> Idle] \in [Port -> Work]
    BY SimpleWork DEF Idle
  <1>4. Shipped \in [File -> Profile \cup {Nothing}]
    <2>1. ASSUME NEW f \in File, \E b \in Installed : b.name = f
          PROVE  [name |-> f, sig |-> (CHOOSE b \in Installed : b.name = f).sig, rev |-> 0] \in Profile
      <3>1. (CHOOSE b \in Installed : b.name = f) \in Installed
        BY <2>1
      <3>2. (CHOOSE b \in Installed : b.name = f).sig \in Sig
        BY <3>1, HotplugAssumption
      <3> QED
        BY <2>1, <3>2, HotplugAssumption DEF Profile
    <2> QED
      BY <2>1 DEF Shipped
  <1>5. Idle \in Request
    BY DEF Idle, Request
  <1>6. [u \in Unit |-> Nothing] \in [Unit -> UnitFile \cup {Nothing}]
        /\ [u \in Unit |-> Nothing] \in [Unit -> Handler \cup {Nothing}]
    OBVIOUS
  <1>7. 0 \in 0 .. MaxActs
    BY HotplugAssumption
  <1> QED
    BY <1>1, <1>2, <1>3, <1>4, <1>5, <1>6, <1>7, Zenon DEF Init, TypeOK

\* What the user and the kernel do.
LEMMA TypeUser == ASSUME TypeOK, NEW p \in Port, Unplug(p) \/ Enumerate(p) \/ \E d \in Device : Plug(p, d)
                  PROVE  TypeOK'
  <1>1. ASSUME NEW d \in Device, Plug(p, d) PROVE TypeOK'
    <2>1. plugged' \in [Port -> Device \cup {Nothing}]
      BY <1>1 DEF Plug, TypeOK
    <2>2. Add(p)' \in Event
      BY <2>1 DEF Add, Event
    <2>3. queue' \in [Port -> Seq(Event)]
      BY <1>1, <2>2 DEF Plug, TypeOK
    <2>4. acts' \in 0 .. MaxActs
      BY <1>1, HotplugAssumption DEF Plug, Act, TypeOK
    <2> QED
      BY <1>1, <2>1, <2>3, <2>4 DEF Plug, TypeOK, system
  <1>2. CASE Unplug(p)
    <2>1. plugged' \in [Port -> Device \cup {Nothing}] /\ node' \subseteq Port
      BY <1>2 DEF Unplug, TypeOK
    <2>2. queue' \in [Port -> Seq(Event)]
      BY <1>2, EventType DEF Unplug, TypeOK
    <2>3. proc' \in [Unit -> Handler \cup {Nothing}]
      <3>1. \A u \in Unit : proc[u] # Nothing => [proc[u] EXCEPT !.reads = "dead"] \in Handler
        BY DEF TypeOK, Handler
      <3> QED
        BY <1>2, <3>1 DEF Unplug, TypeOK
    <2> QED
      BY <1>2, <2>1, <2>2, <2>3 DEF Unplug, TypeOK
  <1>3. CASE Enumerate(p)
    BY <1>3 DEF Enumerate, TypeOK, events, system
  <1> QED
    BY <1>1, <1>2, <1>3

\* At boot only files and devices are kept.
LEMMA TypeReboot == ASSUME TypeOK, Reboot PROVE TypeOK'
  <1>1. queue' \in [Port -> Seq(Event)]
    BY EventType DEF Reboot
  <1>2. worker' \in [Port -> Work] /\ server' \in Request
    BY SimpleWork DEF Reboot, Idle, Request
  <1>3. acts' \in 0 .. MaxActs
    BY HotplugAssumption DEF Reboot, Act, TypeOK
  <1>4. proc' \in [Unit -> Handler \cup {Nothing}] /\ node' \subseteq Port /\ temp' = Nothing
    BY DEF Reboot
  <1> QED
    BY <1>1, <1>2, <1>3, <1>4 DEF Reboot, TypeOK

\* udev goes on to the next event of the port.
LEMMA FinishType ==
  ASSUME TypeOK, NEW p \in Port, queue[p] # <<>>, Finish(p)
  PROVE  queue' \in [Port -> Seq(Event)] /\ worker' \in [Port -> Work]
  <1>1. queue \in [Port -> Seq(Event)] /\ worker \in [Port -> Work]
    BY Types
  <1>2. Tail(queue[p]) \in Seq(Event)
    BY <1>1
  <1> QED
    BY <1>1, <1>2, SimpleWork DEF Finish, Goto, Idle

\* The loop over the profiles goes on, or ends.
LEMMA ContinueType ==
  ASSUME TypeOK, NEW p \in Port, queue[p] # <<>>, NEW files \in SUBSET File, NEW w,
         w.known \in SUBSET Unit, w.info \in Event \cup {Nothing}, Continue(p, files, w)
  PROVE  queue' \in [Port -> Seq(Event)] /\ worker' \in [Port -> Work]
  <1>1. CASE files = {}
    BY <1>1, FinishType DEF Continue
  <1>2. CASE files # {}
    <2>1. [pc |-> "match", files |-> files, known |-> w.known, info |-> w.info] \in Work
      BY MatchWork
    <2> QED
      BY <1>2, <2>1, Types DEF Continue, Goto
  <1> QED
    BY <1>1, <1>2

\* An event handler writes its environment.
LEMMA TypeDump == ASSUME TypeOK, NEW p \in Port, Dump(p) PROVE TypeOK'
  <1>1. queue[p] \in Seq(Event) /\ queue[p] # <<>>
    BY Types DEF Dump
  <1>2. Head(queue[p]) \in Event
    BY <1>1
  <1>3. worker' \in [Port -> Work]
    BY SimpleWork, Types DEF Dump, Goto
  <1> QED
    BY <1>2, <1>3 DEF Dump, TypeOK, usb, system

\* A launcher lists the profiles and the units.
LEMMA TypeRead == ASSUME TypeOK, NEW p \in Port, AtWork(p), ReadVars(p) PROVE TypeOK'
  <1>1. queue[p] # <<>>
    BY DEF AtWork, ReadVars
  <1> DEFINE w == [known |-> {u \in Unit : units[u] # Nothing}, info |-> temp]
             files == Listed
  <1>2. files \in SUBSET File /\ w.known \in SUBSET Unit /\ w.info \in Event \cup {Nothing}
    BY DEF TypeOK, Listed
  <1>3. Continue(p, files, w)
    BY DEF ReadVars
  <1> HIDE DEF w, files
  <1>4. queue' \in [Port -> Seq(Event)] /\ worker' \in [Port -> Work]
    BY <1>1, <1>2, <1>3, ContinueType
  <1>5. mixed' \in BOOLEAN
    BY DEF ReadVars, Misread, TypeOK
  <1> QED
    BY <1>4, <1>5 DEF ReadVars, TypeOK, usb, system

\* A device that a profile claims has an identity that names a unit.
LEMMA UnitIsUnit ==
  ASSUME NEW profile \in Profile, NEW v \in Event, v.dev \in Device
  PROVE  UnitFor(profile, v) \in Unit
  <1>1. profile.name \in Name /\ v.port \in Port
    BY DEF Profile, Event
  <1> QED
    BY <1>1 DEF UnitFor, Unit, Identity

\* A claim is by a profile, of an event that has a device.
LEMMA ClaimType ==
  ASSUME TypeOK, NEW f \in File, NEW v \in Event \cup {Nothing}, Claims(boards[f], v)
  PROVE  /\ v \in Event /\ v.dev \in Device /\ boards[f] \in Profile
         /\ UnitFor(boards[f], v) \in Unit
  <1>1. v \in Event /\ boards[f] \in Profile
    BY Types DEF Claims
  <1>2. v.dev \in Device
    BY HotplugAssumption DEF Claims
  <1> QED
    BY <1>1, <1>2, UnitIsUnit

\* A launcher comes to a profile.
LEMMA TypeMatch ==
  ASSUME TypeOK, NEW p \in Port, AtWork(p), NEW f \in File, MatchProfile(p, f)
  PROVE  TypeOK'
  <1> DEFINE w == worker[p]
  <1>1. w.pc = "match" /\ f \in w.files /\ queue[p] # <<>>
    BY DEF AtWork, MatchProfile
  <1>2. w \in Work
    BY Types
  <1>3. w.files \ {f} \in SUBSET File /\ w.known \in SUBSET Unit /\ w.info \in Event \cup {Nothing}
    BY <1>1, <1>2, WorkShape
  <1> DEFINE start == [pc |-> "start", files |-> w.files \ {f}, known |-> w.known,
                       info |-> w.info, file |-> f, unit |-> UnitFor(boards[f], w.info)]
  <1>4. \/ Claims(boards[f], w.info) /\ Goto(p, start) /\ UNCHANGED queue
        \/ Continue(p, w.files \ {f}, w)
    BY DEF MatchProfile
  <1> HIDE DEF w
  <1>5. queue' \in [Port -> Seq(Event)] /\ worker' \in [Port -> Work]
    <2>1. ASSUME Claims(boards[f], w.info), Goto(p, start), UNCHANGED queue
          PROVE  queue' \in [Port -> Seq(Event)] /\ worker' \in [Port -> Work]
      <3>1. w.info \in Event /\ UnitFor(boards[f], w.info) \in Unit
        BY <1>3, <2>1, ClaimType
      <3>2. start \in Work
        BY <1>3, <3>1, StartWork
      <3> QED
        BY <2>1, <3>2, Types DEF Goto
    <2>2. ASSUME Continue(p, w.files \ {f}, w)
          PROVE  queue' \in [Port -> Seq(Event)] /\ worker' \in [Port -> Work]
      BY <1>1, <1>3, <2>2, ContinueType
    <2> QED
      BY <1>4, <2>1, <2>2
  <1> QED
    BY <1>5 DEF MatchProfile, TypeOK, usb, system

\* The file a unit is started with: the one it has, or one for the device of the
\* event.
UnitFileOf(p) ==
  LET w == worker[p]
  IN  IF w.unit \in w.known THEN units[w.unit] ELSE [file |-> w.file, port |-> w.info.port]

\* A unit file names a profile and a port, and so does the process started from it.
LEMMA UnitFileType ==
  ASSUME TypeOK, NEW p \in Port, worker[p].pc = "start"
  PROVE  /\ worker[p].unit \in Unit /\ UnitFileOf(p) \in UnitFile \cup {Nothing}
         /\ UnitFileOf(p) # Nothing =>
              /\ UnitFileOf(p).file \in File /\ UnitFileOf(p).port \in Port
              /\ Started(UnitFileOf(p)) \in Handler
  <1>1. worker[p] \in Work
    BY Types
  <1>2. worker[p].unit \in Unit /\ worker[p].file \in File /\ worker[p].info.port \in Port
    BY <1>1, WorkShape DEF Event
  <1>3. UnitFileOf(p) \in UnitFile \cup {Nothing}
    BY <1>2, Types DEF UnitFileOf, UnitFile
  <1> HIDE DEF UnitFileOf
  <1>4. ASSUME UnitFileOf(p) # Nothing
        PROVE  /\ UnitFileOf(p).file \in File /\ UnitFileOf(p).port \in Port
               /\ Started(UnitFileOf(p)) \in Handler
    <2>1. UnitFileOf(p).file \in File /\ UnitFileOf(p).port \in Port
      BY <1>3, <1>4 DEF UnitFile
    <2> QED
      BY <2>1 DEF Started, Handler
  <1> QED
    BY <1>2, <1>3, <1>4

\* What the start of a unit changes.
LEMMA StartFacts ==
  ASSUME NEW p \in Port, StartUnit(p)
  PROVE  LET w == worker[p]
             u == w.unit
         IN  /\ w.pc = "start"
             /\ units' = [units EXCEPT ![u] = UnitFileOf(p)]
             /\ IF UnitFileOf(p) = Nothing THEN UNCHANGED <<proc, mishap>>
                ELSE /\ proc' = [proc EXCEPT ![u] = Started(UnitFileOf(p))]
                     /\ mishap' = mishap
                          \cup {m \in {<<"moved", u>>} : units[u] # Nothing /\ units[u].port # w.info.port}
                          \cup {m \in {<<"late", u>>} : ~Deployed(UnitFileOf(p).file, u[1])}
             /\ Continue(p, w.files, w)
             /\ UNCHANGED <<usb, temp, boards, server, clashed, mixed, acts>>
  BY DEF StartUnit, UnitFileOf

\* A launcher starts a unit.
LEMMA TypeStart == ASSUME TypeOK, NEW p \in Port, AtWork(p), StartUnit(p) PROVE TypeOK'
  <1> DEFINE w == worker[p]
  <1>1. w.pc = "start" /\ queue[p] # <<>> /\ w \in Work
    BY StartFacts, Types DEF AtWork
  <1>2. w.files \in SUBSET File /\ w.known \in SUBSET Unit /\ w.info \in Event \cup {Nothing} /\ w.unit \in Unit
    BY <1>1, WorkShape
  <1>3. Continue(p, w.files, w)
    BY StartFacts
  <1>4. queue' \in [Port -> Seq(Event)] /\ worker' \in [Port -> Work]
    <2> HIDE DEF w
    <2> QED
      BY <1>1, <1>2, <1>3, ContinueType
  <1>5. UnitFileOf(p) \in UnitFile \cup {Nothing} /\ (UnitFileOf(p) # Nothing => Started(UnitFileOf(p)) \in Handler)
    BY <1>1, UnitFileType
  <1>6. units' \in [Unit -> UnitFile \cup {Nothing}]
    BY <1>2, <1>5, StartFacts, Types
  <1>7. proc' \in [Unit -> Handler \cup {Nothing}] /\ mishap' \subseteq Mishap
    <2>1. <<"moved", w.unit>> \in Mishap /\ <<"late", w.unit>> \in Mishap
      BY <1>2 DEF Mishap
    <2>2. proc \in [Unit -> Handler \cup {Nothing}] /\ mishap \subseteq Mishap
      BY Types
    <2> QED
      BY <1>2, <1>5, <2>1, <2>2, StartFacts
  <1> QED
    BY <1>4, <1>6, <1>7, StartFacts DEF TypeOK, usb

\* A launcher stops a device.
LEMMA TypeStop == ASSUME TypeOK, NEW p \in Port, AtWork(p), StopDevice(p) PROVE TypeOK'
  <1>1. queue[p] # <<>> /\ Finish(p)
    BY DEF AtWork, StopDevice
  <1>2. queue' \in [Port -> Seq(Event)] /\ worker' \in [Port -> Work]
    BY <1>1, FinishType
  <1>3. proc' \in [Unit -> Handler \cup {Nothing}] /\ mixed' \in BOOLEAN
    BY Types DEF StopDevice, Misread, TypeOK
  <1> QED
    BY <1>2, <1>3 DEF StopDevice, TypeOK, usb

\* A handler opens the node of a port.
LEMMA ResolveType ==
  ASSUME TypeOK, NEW u, NEW q \in Resolve(u)
  PROVE  q \in node /\ q \in Port
  <1>1. q \in node
    BY DEF Resolve, NodesNamed
  <1> QED
    BY <1>1 DEF TypeOK

\* A handler opens a node, or gives up.
LEMMA TypeHandler == ASSUME TypeOK, NEW u \in Unit, HandlerStep(u) PROVE TypeOK'
  <1>1. proc[u] \in Handler /\ boards[proc[u].file] \in Profile \cup {Nothing}
    BY Types DEF HandlerStep, Open, GiveUp, Opening, Handler
  <1>2. ASSUME NEW reads \in Port \cup {"none"}, Opened(u, reads)
        PROVE  proc' \in [Unit -> Handler \cup {Nothing}]
    <2>1. [proc[u] EXCEPT !.profile = boards[proc[u].file], !.reads = reads] \in Handler
      BY <1>1 DEF Handler
    <2> QED
      BY <1>2, <2>1, Types DEF Opened
  <1>3. CASE Open(u)
    <2>1. PICK q \in Resolve(u) :
            /\ Opened(u, q)
            /\ mishap' = mishap \cup {m \in {<<"strayed", u>>} : q # proc[u].port}
      BY <1>3 DEF Open
    <2>2. q \in Port
      BY <2>1, ResolveType
    <2>3. proc' \in [Unit -> Handler \cup {Nothing}] /\ mishap' \subseteq Mishap
      BY <1>2, <2>1, <2>2, Types DEF Mishap
    <2> QED
      BY <1>3, <2>3 DEF Open, TypeOK, usb, events
  <1>4. CASE GiveUp(u)
    <2>1. proc' \in [Unit -> Handler \cup {Nothing}]
      BY <1>2, <1>4 DEF GiveUp
    <2> QED
      BY <1>4, <2>1 DEF GiveUp, TypeOK, usb, events
  <1> QED
    BY <1>3, <1>4 DEF HandlerStep

\* A profile is written to, or removed from, a file of the library.
LEMMA FileType ==
  ASSUME NEW b \in Board, NEW f \in FileOf(b)
  PROVE  f \in Name /\ b.name \in Name /\ b.sig \in Sig
  BY HotplugAssumption DEF FileOf

\* What the start of a deploy changes.
LEMMA WriteShape ==
  ASSUME TypeOK, NEW b \in Board, DeployWrite(b)
  PROVE  \E f \in FileOf(b), profile \in Profile :
           /\ f \in Name /\ profile.name = b.name
           /\ boards' = [boards EXCEPT ![Temp(f)] = profile]
           /\ server' = [pc |-> "rename", file |-> f, profile |-> profile]
  <1> DEFINE rev == CHOOSE r \in Unused : TRUE
             profile == [name |-> b.name, sig |-> b.sig, rev |-> rev]
  <1>1. PICK f \in FileOf(b) :
          /\ boards' = [boards EXCEPT ![Temp(f)] = profile]
          /\ server' = [pc |-> "rename", file |-> f, profile |-> profile]
    BY DEF DeployWrite
  <1>2. rev \in 0 .. MaxActs
    BY DEF DeployWrite, Unused
  <1> HIDE DEF rev
  <1>3. profile \in Profile /\ profile.name = b.name /\ f \in Name
    BY <1>1, <1>2, FileType DEF Profile
  <1> HIDE DEF profile
  <1> QED
    BY <1>1, <1>3

\* The backend writes or removes a profile.
LEMMA TypeDeploy ==
  ASSUME TypeOK, NEW b \in Board, DeployWrite(b) \/ UndeployProfile(b)
  PROVE  TypeOK'
  <1>1. acts' \in 0 .. MaxActs
    BY HotplugAssumption DEF DeployWrite, UndeployProfile, Act, TypeOK
  <1>2. CASE DeployWrite(b)
    <2>1. PICK f \in FileOf(b), profile \in Profile :
            /\ f \in Name /\ profile.name = b.name
            /\ boards' = [boards EXCEPT ![Temp(f)] = profile]
            /\ server' = [pc |-> "rename", file |-> f, profile |-> profile]
      BY <1>2, WriteShape
    <2>2. boards' \in [File -> Profile \cup {Nothing}]
      BY <2>1, Types
    <2>3. server' \in Request
      BY <2>1 DEF Request
    <2> QED
      BY <1>1, <1>2, <2>2, <2>3 DEF DeployWrite, TypeOK, usb, events
  <1>3. CASE UndeployProfile(b)
    <2>1. PICK f \in FileOf(b) :
            boards' = [boards EXCEPT ![f] = Nothing] /\ clashed' = clashed \cup Clashes(f, b)
      BY <1>3 DEF UndeployProfile
    <2>2. Clashes(f, b) \subseteq Name
      BY <2>1, FileType DEF Clashes
    <2>3. boards' \in [File -> Profile \cup {Nothing}] /\ clashed' \subseteq Name
      BY <2>1, <2>2, FileType, Types
    <2>4. server' \in Request
      BY <1>3, FileType, <2>1 DEF UndeployProfile, Request
    <2> QED
      BY <1>1, <1>3, <2>3, <2>4 DEF UndeployProfile, TypeOK, usb, events
  <1> QED
    BY <1>2, <1>3

\* The backend comes to the next unit to remove.
LEMMA RemovingType ==
  ASSUME NEW left \in SUBSET Unit, Removing(left)
  PROVE  server' \in Request
  BY DEF Removing, Request, Idle

\* What the backend does after that.
LEMMA TypeBackend == ASSUME TypeOK, Backend PROVE TypeOK'
  <1>5. CASE DeployRename \/ RenameFails
    <2>1. server.file \in Name /\ server.profile \in Profile
      BY <1>5, RequestShape, Types DEF DeployRename, RenameFails
    <2>2. boards' \in [File -> Profile \cup {Nothing}]
      BY <1>5, <2>1, Types DEF DeployRename, RenameFails
    <2>3. server' \in Request /\ clashed' \subseteq Name
      <3>1. CASE DeployRename
        <4>1. Clashes(server.file, server.profile) \subseteq Name
          BY <2>1 DEF Clashes, Profile
        <4> QED
          BY <3>1, <4>1, Types DEF DeployRename, Request
      <3>2. CASE RenameFails
        BY <3>2, Types DEF RenameFails, Request, Idle
      <3> QED
        BY <1>5, <3>1, <3>2
    <2> QED
      BY <1>5, <2>2, <2>3 DEF DeployRename, RenameFails, TypeOK, usb, events
  <1>1. CASE DeployReload
    <2>1. queue' \in [Port -> Seq(Event)]
      BY <1>1, EventType, Types DEF DeployReload
    <2>2. server' \in Request
      BY <1>1 DEF DeployReload, Request, Idle
    <2> QED
      BY <1>1, <2>1, <2>2 DEF DeployReload, TypeOK, usb, system
  <1>2. CASE UndeployScan
    <2>1. server' \in Request
      BY <1>2, RemovingType DEF UndeployScan, Covered
    <2> QED
      BY <1>2, <2>1 DEF UndeployScan, TypeOK, usb, events, system
  <1>3. CASE UndeployRm
    <2>1. server.left \in SUBSET Unit /\ server.unit \in Unit
      BY <1>3, RequestShape, Types DEF UndeployRm
    <2>2. server' \in Request
      BY <1>3, <2>1, RemovingType DEF UndeployRm
    <2>3. units' \in [Unit -> UnitFile \cup {Nothing}]
      BY <1>3, <2>1, Types DEF UndeployRm
    <2>4. mishap' \subseteq Mishap
      BY <1>3, <2>1, Types DEF UndeployRm, Mishap
    <2> QED
      BY <1>3, <2>2, <2>3, <2>4 DEF UndeployRm, TypeOK, usb, events
  <1>4. ASSUME NEW u \in Unit, UndeployStop(u) PROVE TypeOK'
    <2>1. server.left \in SUBSET Unit
      BY <1>4, RequestShape, Types DEF UndeployStop
    <2>2. server' \in Request
      BY <1>4, <2>1 DEF UndeployStop, Request
    <2>3. proc' \in [Unit -> Handler \cup {Nothing}]
      BY <1>4, Types DEF UndeployStop
    <2> QED
      BY <1>4, <2>2, <2>3 DEF UndeployStop, TypeOK, usb, events
  <1> QED
    BY <1>1, <1>2, <1>3, <1>4, <1>5 DEF Backend

\* Every step keeps the types.
LEMMA TypeStep == TypeOK /\ UsbInv /\ [Next]_vars => TypeOK'
  <1> SUFFICES ASSUME TypeOK, UsbInv, [Next]_vars PROVE TypeOK'
    OBVIOUS
  <1>1. ASSUME NEW p \in Port, Launcher(p) PROVE TypeOK'
    <2>1. AtWork(p)
      BY DEF UsbInv, PortInv
    <2> QED
      BY <1>1, <2>1, TypeDump, TypeRead, TypeMatch, TypeStart, TypeStop DEF Launcher
  <1>2. CASE UNCHANGED vars
    BY <1>2 DEF vars, usb, events, system, TypeOK
  <1> QED
    BY <1>1, <1>2, TypeUser, TypeReboot, TypeDeploy, TypeHandler, TypeBackend DEF Next, Reaction, User

-----------------------------------------------------------------------------
(* The queue of a port *)

\* The event that tells of device d.
AddOf(p, d) == [act |-> "add", port |-> p, dev |-> d]

\* A new event of port p, after which d is the device in it: the device was removed,
\* or was plugged in, or is there still.
News(e, p, c, d) ==
  /\ e \in Event /\ e.port = p
  /\ \/ e.act = "remove" /\ d = Nothing
     \/ e = AddOf(p, d) /\ d \in Device /\ c \in {Nothing, d}

\* An event comes to the end of a queue.
LEMMA AppendFacts ==
  ASSUME NEW q \in Seq(Event), NEW e \in Event
  PROVE  /\ Len(q) \in Nat /\ Append(q, e) \in Seq(Event)
         /\ Len(Append(q, e)) = Len(q) + 1 /\ Append(q, e)[Len(q) + 1] = e
         /\ \A i \in 1 .. Len(q) : Append(q, e)[i] = q[i]
  OBVIOUS

\* The first event leaves a queue.
LEMMA TailFacts ==
  ASSUME NEW q \in Seq(Event), q # <<>>
  PROVE  /\ Len(q) \in Nat \ {0} /\ Tail(q) \in Seq(Event) /\ Len(Tail(q)) = Len(q) - 1
         /\ \A i \in 1 .. Len(q) - 1 : Tail(q)[i] = q[i + 1]
         /\ Head(q) = q[1] /\ q[1] \in Event
  OBVIOUS

\* What lies between two events does not change when others come.
LEMMA AppendGone ==
  ASSUME NEW q \in Seq(Event), NEW e \in Event, NEW i \in Nat, NEW j \in 1 .. Len(q) + 1
  PROVE  /\ Gone(Append(q, e), i, j) <=> Gone(q, i, j)
         /\ Gone(q, i, Len(q) + 1) => Gone(Append(q, e), i, Len(q) + 2)
         /\ i \in 0 .. Len(q) /\ e.act = "remove" => Gone(Append(q, e), i, Len(q) + 2)
  BY AppendFacts DEF Gone

\* The queue of a port stays in turn when news come.
LEMMA AppendInTurn ==
  ASSUME NEW q \in Seq(Event), NEW p, NEW c, NEW d, NEW e,
         InTurn(q, p, c), c \in Device \cup {Nothing}, News(e, p, c, d)
  PROVE  InTurn(Append(q, e), p, d)
  <1> DEFINE r == Append(q, e)
  <1> e \in Event
    BY DEF News
  <1>1. Len(q) \in Nat /\ Len(r) = Len(q) + 1 /\ r[Len(q) + 1] = e
        /\ \A i \in 1 .. Len(q) : r[i] = q[i]
    BY AppendFacts
  <1>2. \A i \in Nat, j \in 1 .. Len(q) + 1 :
          /\ Gone(r, i, j) <=> Gone(q, i, j)
          /\ Gone(q, i, Len(q) + 1) => Gone(r, i, Len(q) + 2)
          /\ i \in 0 .. Len(q) /\ e.act = "remove" => Gone(r, i, Len(q) + 2)
    BY AppendGone
  <1>3. Nothing \notin Device
    BY HotplugAssumption
  <1> HIDE DEF r
  <1>4. Told(r, p)
    BY <1>1 DEF Told, InTurn, News, AddOf
  <1>5. ASSUME NEW i \in 1 .. Len(q), q[i].act = "add"
        PROVE  /\ \A j \in i + 1 .. Len(r) : r[j].act = "add" => Gone(r, i, j) \/ r[j].dev = r[i].dev
               /\ Gone(r, i, Len(r) + 1) \/ d = r[i].dev
    <2>1. q[i].dev \in Device
      BY <1>5 DEF InTurn, Told
    <2>2. Gone(q, i, Len(q) + 1) \/ c = q[i].dev
      BY <1>5 DEF InTurn, Turns
    <2>3. Gone(r, i, Len(r) + 1) \/ d = r[i].dev
      BY <1>1, <1>2, <1>3, <2>1, <2>2 DEF News
    <2>4. ASSUME NEW j \in i + 1 .. Len(q), r[j].act = "add" PROVE Gone(r, i, j) \/ r[j].dev = r[i].dev
      <3>1. Gone(q, i, j) \/ q[j].dev = q[i].dev
        BY <1>1, <1>5, <2>4 DEF InTurn, Turns
      <3> QED
        BY <1>1, <1>2, <3>1
    <2>5. ASSUME e.act = "add" PROVE Gone(r, i, Len(q) + 1) \/ e.dev = r[i].dev
      BY <1>1, <1>2, <1>3, <2>1, <2>2, <2>5 DEF News, AddOf
    <2> QED
      BY <1>1, <2>3, <2>4, <2>5
  <1>6. e.act = "add" => d = e.dev
    BY DEF News, AddOf
  <1>7. Turns(r, d)
    BY <1>1, <1>5, <1>6 DEF Turns
  <1>8. Renewed(r, p, d)
    <2>1. CASE d = Nothing
      BY <2>1 DEF Renewed
    <2>2. CASE e = AddOf(p, d)
      BY <1>1, <2>2 DEF Renewed, AddOf
    <2> QED
      BY <2>1, <2>2 DEF News
  <1> QED
    BY <1>4, <1>7, <1>8 DEF InTurn, r

\* The first event of a queue is of its port.
LEMMA HeadTold ==
  ASSUME NEW p \in Port, queue[p] \in Seq(Event), queue[p] # <<>>, InTurn(queue[p], p, plugged[p])
  PROVE  1 \in 1 .. Len(queue[p]) /\ queue[p][1] \in Event /\ queue[p][1].port = p
  <1>1. 1 \in 1 .. Len(queue[p]) /\ queue[p][1] \in Event
    BY TailFacts
  <1> QED
    BY <1>1 DEF InTurn, Told

\* A queue stays in turn when udev has done with its first event.
LEMMA TailInTurn ==
  ASSUME NEW q \in Seq(Event), q # <<>>, NEW p, NEW d, InTurn(q, p, d)
  PROVE  InTurn(Tail(q), p, d)
  <1> DEFINE r == Tail(q)
  <1>1. Len(q) \in Nat \ {0} /\ Len(r) = Len(q) - 1 /\ \A i \in 1 .. Len(q) - 1 : r[i] = q[i + 1]
    BY TailFacts
  <1> HIDE DEF r
  <1>2. ASSUME NEW i \in 1 .. Len(r), NEW j \in i .. Len(r) + 1, Gone(q, i + 1, j + 1) PROVE Gone(r, i, j)
    <2>1. PICK k \in i + 2 .. j : q[k].act = "remove"
      BY <1>2 DEF Gone
    <2>2. k - 1 \in i + 1 .. j - 1 /\ r[k - 1] = q[k]
      BY <1>1, <2>1
    <2> QED
      BY <2>1, <2>2 DEF Gone
  <1>3. Told(r, p)
    BY <1>1 DEF InTurn, Told
  <1>4. Turns(r, d)
    <2> SUFFICES ASSUME NEW i \in 1 .. Len(r), r[i].act = "add"
                 PROVE  /\ \A j \in i + 1 .. Len(r) : r[j].act = "add" => Gone(r, i, j) \/ r[j].dev = r[i].dev
                        /\ Gone(r, i, Len(r) + 1) \/ d = r[i].dev
      BY DEF Turns
    <2>1. i + 1 \in 1 .. Len(q) /\ r[i] = q[i + 1]
      BY <1>1
    <2>2. /\ \A j \in i + 2 .. Len(q) : q[j].act = "add" => Gone(q, i + 1, j) \/ q[j].dev = q[i + 1].dev
          /\ Gone(q, i + 1, Len(q) + 1) \/ d = q[i + 1].dev
      BY <2>1 DEF InTurn, Turns
    <2>3. ASSUME NEW j \in i + 1 .. Len(r), r[j].act = "add" PROVE Gone(r, i, j) \/ r[j].dev = r[i].dev
      <3>1. j + 1 \in i + 2 .. Len(q) /\ r[j] = q[j + 1] /\ j \in i .. Len(r) + 1
        BY <1>1
      <3> QED
        BY <1>2, <2>1, <2>2, <2>3, <3>1
    <2>4. Gone(r, i, Len(r) + 1) \/ d = r[i].dev
      <3>1. Len(r) + 1 \in i .. Len(r) + 1 /\ Len(r) + 2 = Len(q) + 1 /\ (Len(r) + 1) + 1 = Len(r) + 2
        BY <1>1
      <3>2. Gone(q, i + 1, Len(r) + 2) => Gone(r, i, Len(r) + 1)
        BY <1>1, <1>2, <3>1
      <3> QED
        BY <2>1, <2>2, <3>1, <3>2
    <2> QED
      BY <2>3, <2>4
  <1>5. Renewed(r, p, d)
    <2> SUFFICES ASSUME NEW i \in 1 .. Len(r), r[i].act = "remove", d # Nothing
                 PROVE  \E j \in i + 1 .. Len(r) : r[j] = [act |-> "add", port |-> p, dev |-> d]
      BY DEF Renewed
    <2>1. PICK j \in i + 2 .. Len(q) : q[j] = [act |-> "add", port |-> p, dev |-> d]
      BY <1>1 DEF InTurn, Renewed
    <2>2. j - 1 \in i + 1 .. Len(r) /\ r[j - 1] = q[j]
      BY <1>1, <2>1
    <2> QED
      BY <2>1, <2>2
  <1> QED
    BY <1>3, <1>4, <1>5 DEF InTurn, r

-----------------------------------------------------------------------------
(* The events of a port, and what is done about them *)

\* What a step never takes back.
Later == (mixed => mixed') /\ clashed \subseteq clashed'

\* A port that a step does not concern.
LEMMA PortStays ==
  ASSUME NEW p \in Port, PortInv(p), Later,
         queue'[p] = queue[p], plugged'[p] = plugged[p], worker'[p] = worker[p]
  PROVE  PortInv(p)'
  <1>1. AtWork(p)' /\ Matched(p)'
    BY DEF PortInv, AtWork, Matched, Later
  <1> QED
    BY <1>1 DEF PortInv

\* An event comes to a port.
LEMMA PortHears ==
  ASSUME TypeOK, NEW p \in Port, PortInv(p), Later, NEW e, worker'[p] = worker[p],
         News(e, p, plugged[p], plugged'[p]), queue'[p] = Append(queue[p], e)
  PROVE  PortInv(p)'
  <1>1. queue[p] \in Seq(Event) /\ plugged[p] \in Device \cup {Nothing} /\ e \in Event
    BY Types DEF News
  <1>2. InTurn(Append(queue[p], e), p, plugged'[p])
    BY <1>1, AppendInTurn DEF PortInv
  <1>3. queue[p] # <<>> => queue'[p] # <<>> /\ queue'[p][1] = queue[p][1]
    BY <1>1
  <1>4. AtWork(p)' /\ Matched(p)'
    BY <1>3 DEF PortInv, AtWork, Matched, Later
  <1> QED
    BY <1>2, <1>4 DEF PortInv

\* udev has done with the first event.
LEMMA PortFinishes ==
  ASSUME TypeOK, NEW p \in Port, PortInv(p), worker[p].pc # "idle", Finish(p), plugged'[p] = plugged[p]
  PROVE  PortInv(p)'
  <1>1. queue[p] \in Seq(Event) /\ queue[p] # <<>>
    BY Types DEF PortInv, AtWork
  <1>2. queue'[p] = Tail(queue[p]) /\ worker'[p] = Idle
    BY Types DEF Finish, Goto
  <1>3. InTurn(Tail(queue[p]), p, plugged[p])
    BY <1>1, TailInTurn DEF PortInv
  <1>4. AtWork(p)' /\ Matched(p)'
    BY <1>2 DEF AtWork, Matched, Idle
  <1> QED
    BY <1>2, <1>3, <1>4 DEF PortInv

\* The launcher goes on with the next profile, or ends.
LEMMA PortContinues ==
  ASSUME TypeOK, NEW p \in Port, PortInv(p), worker[p].pc \in {"read", "match", "start"},
         NEW files, NEW w, Continue(p, files, w), plugged' = plugged,
         ~mixed' => w.info = queue[p][1]
  PROVE  PortInv(p)'
  <1>1. CASE files = {}
    BY <1>1, PortFinishes DEF Continue
  <1>2. CASE files # {}
    <2>1. queue'[p] = queue[p]
          /\ worker'[p] = [pc |-> "match", files |-> files, known |-> w.known, info |-> w.info]
      BY <1>2, Types DEF Continue, Goto
    <2>2. AtWork(p)' /\ Matched(p)'
      BY <2>1 DEF PortInv, AtWork, Matched
    <2> QED
      BY <2>1, <2>2 DEF PortInv
  <1> QED
    BY <1>1, <1>2

\* A launcher that finishes or continues leaves the other ports alone.
LEMMA OthersStay ==
  ASSUME TypeOK, NEW p \in Port, NEW q \in Port, q # p, Launcher(p)
  PROVE  queue'[q] = queue[q] /\ worker'[q] = worker[q]
  BY Types DEF Launcher, Dump, ReadVars, MatchProfile, StartUnit, StopDevice, Continue, Finish, Goto

\* No step takes back that launchers were mixed up or names clashed.
LEMMA LaterStep == TypeOK /\ [Next]_vars => Later
  <1> SUFFICES ASSUME TypeOK, [Next]_vars PROVE Later
    OBVIOUS
  <1>1. ASSUME NEW p \in Port, Launcher(p) PROVE Later
    <2>1. ReadVars(p) \/ StopDevice(p) => Misread(p) /\ clashed' = clashed
      BY DEF ReadVars, StopDevice
    <2>2. Misread(p) => (mixed => mixed')
      BY Zenon DEF Misread
    <2>3. Dump(p) \/ StartUnit(p) \/ (\E f \in File : MatchProfile(p, f)) => UNCHANGED <<clashed, mixed>>
      BY StartFacts DEF Dump, MatchProfile
    <2> QED
      BY <1>1, <2>1, <2>2, <2>3 DEF Launcher, Later
  <1>2. CASE User
    BY <1>2 DEF User, Plug, Unplug, DeployWrite, UndeployProfile, Reboot, Later
  <1>3. ASSUME NEW p \in Port, Enumerate(p) PROVE Later
    BY <1>3 DEF Enumerate, Later
  <1>4. ASSUME NEW u \in Unit, HandlerStep(u) PROVE Later
    BY <1>4 DEF HandlerStep, Open, GiveUp, Later
  <1>5. CASE Backend
    BY <1>5 DEF Backend, DeployRename, RenameFails, DeployReload, UndeployScan, UndeployRm, UndeployStop, Later
  <1>6. CASE UNCHANGED vars
    BY <1>6 DEF vars, Later
  <1> QED
    BY <1>1, <1>2, <1>3, <1>4, <1>5, <1>6 DEF Next, Reaction

\* A launcher keeps to the event it runs for.
LEMMA PortLauncher ==
  ASSUME TypeOK, NEW p \in Port, PortInv(p), Files, Later, Launcher(p)
  PROVE  PortInv(p)'
  <1>0. queue[p] \in Seq(Event) /\ worker[p] \in Work /\ temp \in Event \cup {Nothing}
    BY DEF TypeOK
  <1>1. CASE Dump(p)
    <2>1. queue[p] # <<>> /\ queue' = queue /\ plugged' = plugged
          /\ worker'[p] = [pc |-> IF Head(queue[p]).act = "add" THEN "read" ELSE "stop"]
      BY <1>1, Types DEF Dump, Goto, usb
    <2>2. Head(queue[p]) = queue[p][1] /\ queue[p][1] \in Event
      BY <1>0, <2>1, TailFacts
    <2>3. queue[p][1].act \in {"add", "remove"}
      BY <2>2 DEF Event
    <2>4. AtWork(p)' /\ Matched(p)'
      BY <2>1, <2>2, <2>3 DEF AtWork, Matched
    <2> QED
      BY <2>1, <2>4 DEF PortInv
  <1>2. CASE ReadVars(p)
    <2>1. worker[p].pc = "read" /\ queue[p] # <<>>
      BY <1>2 DEF ReadVars, PortInv, AtWork
    <2> DEFINE w == [known |-> {u \in Unit : units[u] # Nothing}, info |-> temp]
    <2>2. Continue(p, Listed, w) /\ plugged' = plugged
      BY <1>2 DEF ReadVars, usb
    <2>3. ~mixed' => w.info = queue[p][1]
      BY <1>0, <1>2, <2>1, TailFacts DEF ReadVars, Misread
    <2> HIDE DEF w
    <2> QED
      BY <2>1, <2>2, <2>3, PortContinues
  <1>3. ASSUME NEW f \in File, MatchProfile(p, f) PROVE PortInv(p)'
    <2> DEFINE w == worker[p]
    <2>1. w.pc = "match" /\ queue[p] # <<>> /\ w.info \in Event \cup {Nothing}
          /\ plugged' = plugged /\ mixed' = mixed
      BY <1>0, <1>3, WorkShape DEF MatchProfile, PortInv, AtWork, usb
    <2>2. ~mixed => w.info = queue[p][1]
      BY <2>1 DEF PortInv, AtWork
    <2>3. ASSUME Claims(boards[f], w.info), UNCHANGED <<queue, clashed>>,
                 Goto(p, [pc |-> "start", files |-> w.files \ {f}, known |-> w.known,
                          info |-> w.info, file |-> f, unit |-> UnitFor(boards[f], w.info)])
          PROVE  PortInv(p)'
      <3>1. worker'[p] = [pc |-> "start", files |-> w.files \ {f}, known |-> w.known,
                          info |-> w.info, file |-> f, unit |-> UnitFor(boards[f], w.info)]
        BY <2>3, Types DEF Goto
      <3>2. w.info.dev \in Device /\ boards[f] # Nothing
        BY <2>1, <2>3, ClaimType DEF Claims
      <3>3. f \in Name /\ boards[f].name \notin clashed => f = boards[f].name
        BY <3>2 DEF Files
      <3>4. AtWork(p)' /\ Matched(p)'
        <4> HIDE DEF w
        <4>1. UnitFor(boards[f], w.info)[1] = boards[f].name
              /\ UnitFor(boards[f], w.info)[2] = Identity(w.info.dev, w.info.port)
          BY DEF UnitFor
        <4>2. Matched(p)'
          BY <2>3, <3>1, <3>2, <3>3, <4>1 DEF Matched
        <4>3. queue[p][1].act = "add"
          BY <2>1 DEF PortInv, AtWork, w
        <4> QED
          BY <2>1, <2>2, <2>3, <3>1, <4>2, <4>3 DEF AtWork
      <3> QED
        BY <2>1, <2>3, <3>4 DEF PortInv
    <2>4. ASSUME Continue(p, w.files \ {f}, w) PROVE PortInv(p)'
      <3> HIDE DEF w
      <3> QED
        BY <2>1, <2>2, <2>4, PortContinues DEF w
    <2> QED
      BY <1>3, <2>3, <2>4 DEF MatchProfile
  <1>4. CASE StartUnit(p)
    <2> DEFINE w == worker[p]
    <2>1. w.pc = "start" /\ Continue(p, w.files, w) /\ plugged' = plugged /\ mixed' = mixed
      BY <1>4, StartFacts DEF usb
    <2>2. ~mixed => w.info = queue[p][1]
      BY <2>1 DEF PortInv, AtWork
    <2> HIDE DEF w
    <2> QED
      BY <2>1, <2>2, PortContinues DEF w
  <1>5. CASE StopDevice(p)
    BY <1>5, PortFinishes DEF StopDevice, usb
  <1> QED
    BY <1>1, <1>2, <1>3, <1>4, <1>5 DEF Launcher

\* At boot a port has the event of its device.
LEMMA PortReboots ==
  ASSUME TypeOK, NEW p \in Port, Reboot
  PROVE  PortInv(p)'
  <1>1. queue'[p] = (IF plugged[p] = Nothing THEN <<>> ELSE <<Add(p)>>)
        /\ worker'[p] = Idle /\ plugged' = plugged /\ plugged[p] \in Device \cup {Nothing}
    BY Types DEF Reboot
  <1>2. AtWork(p)' /\ Matched(p)'
    BY <1>1 DEF AtWork, Matched, Idle
  <1>3. InTurn(queue'[p], p, plugged[p])
    BY <1>1 DEF InTurn, Told, Turns, Renewed, Gone, Add
  <1> QED
    BY <1>1, <1>2, <1>3 DEF PortInv

\* News are what the kernel, and the backend through udev, tell of a device.
LEMMA NewsFacts ==
  ASSUME TypeOK, NEW p \in Port
  PROVE  /\ News(Remove(p), p, plugged[p], Nothing)
         /\ plugged[p] # Nothing => News(Add(p), p, plugged[p], plugged[p])
         /\ \A d \in Device : News(AddOf(p, d), p, Nothing, d)
  <1>1. plugged[p] \in Device \cup {Nothing}
    BY Types
  <1> QED
    BY <1>1 DEF News, Remove, Add, AddOf, Event

\* What a step means for a port.
LEMMA PortCases ==
  ASSUME TypeOK, [Next]_vars, NEW p \in Port
  PROVE  \/ queue'[p] = queue[p] /\ plugged'[p] = plugged[p] /\ worker'[p] = worker[p]
         \/ /\ worker'[p] = worker[p]
            /\ \E e : News(e, p, plugged[p], plugged'[p]) /\ queue'[p] = Append(queue[p], e)
         \/ Launcher(p)
         \/ Reboot
  <1> DEFINE Same == queue'[p] = queue[p] /\ plugged'[p] = plugged[p] /\ worker'[p] = worker[p]
             Heard == /\ worker'[p] = worker[p]
                      /\ \E e : News(e, p, plugged[p], plugged'[p]) /\ queue'[p] = Append(queue[p], e)
  <1>1. ASSUME NEW q \in Port, NEW d \in Device, Plug(q, d) PROVE Same \/ Heard
    <2>1. CASE q = p
      <3>1. plugged[p] = Nothing /\ plugged'[p] = d /\ worker' = worker
        BY <1>1, <2>1, Types DEF Plug
      <3>2. queue'[p] = Append(queue[p], AddOf(p, d))
        BY <1>1, <2>1, <3>1, Types DEF Plug, Add, AddOf
      <3> QED
        BY <3>1, <3>2, NewsFacts
    <2>2. CASE q # p
      BY <1>1, <2>2, Types DEF Plug
    <2> QED
      BY <2>1, <2>2
  <1>2. ASSUME NEW q \in Port, Unplug(q) PROVE Same \/ Heard
    <2>1. CASE q = p
      <3>1. plugged'[p] = Nothing /\ queue'[p] = Append(queue[p], Remove(p)) /\ worker' = worker
        BY <1>2, <2>1, Types DEF Unplug
      <3> QED
        BY <3>1, NewsFacts
    <2>2. CASE q # p
      BY <1>2, <2>2, Types DEF Unplug
    <2> QED
      BY <2>1, <2>2
  <1>3. ASSUME DeployReload PROVE Same \/ Heard
    <2>1. worker' = worker /\ plugged' = plugged
      BY <1>3 DEF DeployReload, usb
    <2>2. plugged[p] # Nothing => queue'[p] = Append(queue[p], Add(p))
      BY <1>3 DEF DeployReload
    <2>3. plugged[p] = Nothing => queue'[p] = queue[p]
      BY <1>3 DEF DeployReload
    <2> QED
      BY <2>1, <2>2, <2>3, NewsFacts
  <1>4. ASSUME NEW q \in Port, Launcher(q) PROVE Same \/ Launcher(p)
    <2>1. CASE q # p
      <3>1. plugged' = plugged
        BY <1>4 DEF Launcher, Dump, ReadVars, MatchProfile, StartUnit, StopDevice, usb
      <3> QED
        BY <1>4, <2>1, <3>1, OthersStay
    <2> QED
      BY <1>4, <2>1
  <1>5. ASSUME NEW b \in Board, DeployWrite(b) \/ UndeployProfile(b) PROVE Same
    BY <1>5 DEF DeployWrite, UndeployProfile, usb, events
  <1>6. ASSUME NEW u \in Unit, HandlerStep(u) PROVE Same
    BY <1>6 DEF HandlerStep, Open, GiveUp, usb, events
  <1>7. ASSUME Backend PROVE Same \/ Heard
    <2>1. \/ DeployRename \/ RenameFails \/ UndeployScan \/ UndeployRm
          \/ \E u \in Unit : UndeployStop(u)
          => Same
      BY DEF DeployRename, RenameFails, UndeployScan, UndeployRm, UndeployStop, usb, events
    <2> QED
      BY <1>3, <1>7, <2>1 DEF Backend
  <1>8. ASSUME NEW q \in Port, Enumerate(q) PROVE Same
    BY <1>8 DEF Enumerate, events
  <1>9. ASSUME UNCHANGED vars PROVE Same
    BY <1>9 DEF vars, usb, events
  <1> HIDE DEF Same, Heard
  <1>10. User => Same \/ Heard \/ Reboot
    BY <1>1, <1>2, <1>5 DEF User
  <1>11. Next => Same \/ Heard \/ Launcher(p) \/ Reboot
    BY <1>4, <1>6, <1>7, <1>8, <1>10 DEF Next, Reaction
  <1> QED
    BY <1>9, <1>11 DEF Same, Heard

\* Every step keeps the events in turn, and the launchers to their events.
LEMMA UsbStep == TypeOK /\ UsbInv /\ Files /\ [Next]_vars => UsbInv'
  <1> SUFFICES ASSUME TypeOK, UsbInv, Files, [Next]_vars, NEW p \in Port PROVE PortInv(p)'
    BY DEF UsbInv
  <1>1. PortInv(p) /\ Later
    BY LaterStep DEF UsbInv
  <1> QED
    BY <1>1, PortCases, PortStays, PortHears, PortLauncher, PortReboots

-----------------------------------------------------------------------------
(* Units that stay *)

\* What holds for the units of a port when its device is the one they are named
\* after goes on holding when news come.
LEMMA AppendLeads ==
  ASSUME NEW q \in Seq(Event), NEW p, NEW c, NEW d, NEW e, NEW id,
         Leads(q, p, c, id), News(e, p, c, d)
  PROVE  Leads(Append(q, e), p, d, id)
  <1> DEFINE r == Append(q, e)
  <1> e \in Event
    BY DEF News
  <1>1. Len(q) \in Nat /\ Len(r) = Len(q) + 1 /\ r[Len(q) + 1] = e
        /\ \A i \in 1 .. Len(q) : r[i] = q[i]
    BY AppendFacts
  <1>2. /\ \A j \in 1 .. Len(q) + 1 : Gone(r, 0, j) <=> Gone(q, 0, j)
        /\ Gone(q, 0, Len(q) + 1) => Gone(r, 0, Len(q) + 2)
        /\ e.act = "remove" => Gone(r, 0, Len(q) + 2)
    BY <1>1, AppendGone
  <1> HIDE DEF r
  <1>3. Gone(q, 0, Len(q) + 1) \/ (c # Nothing /\ Identity(c, p) = id)
    BY DEF Leads
  <1>4. ASSUME NEW i \in 1 .. Len(q), r[i].act = "add"
        PROVE  Gone(r, 0, i) \/ Identity(r[i].dev, p) = id
    BY <1>1, <1>2, <1>4 DEF Leads
  <1>5. e.act = "add" => Gone(r, 0, Len(q) + 1) \/ Identity(e.dev, p) = id
    BY <1>1, <1>2, <1>3 DEF News, AddOf
  <1>6. Gone(r, 0, Len(r) + 1) \/ (d # Nothing /\ Identity(d, p) = id)
    BY <1>1, <1>2, <1>3, HotplugAssumption DEF News
  <1>7. \A i \in 1 .. Len(r) : i \in 1 .. Len(q) \/ i = Len(q) + 1
    BY <1>1
  <1>8. \A i \in 1 .. Len(r) : r[i].act = "add" => Gone(r, 0, i) \/ Identity(r[i].dev, p) = id
    BY <1>1, <1>4, <1>5, <1>7
  <1>9. Leads(r, p, d, id)
    BY <1>6, <1>8 DEF Leads
  <1> QED
    BY <1>9 DEF r

\* It does when an event that is no remove is done with.
LEMMA TailLeads ==
  ASSUME NEW q \in Seq(Event), q # <<>>, q[1].act = "add", NEW p, NEW d, NEW id, Leads(q, p, d, id)
  PROVE  Leads(Tail(q), p, d, id)
  <1> DEFINE r == Tail(q)
  <1>1. Len(q) \in Nat \ {0} /\ Len(r) = Len(q) - 1 /\ \A i \in 1 .. Len(q) - 1 : r[i] = q[i + 1]
    BY TailFacts
  <1> HIDE DEF r
  <1>2. ASSUME NEW j \in 1 .. Len(r) + 1, Gone(q, 0, j + 1) PROVE Gone(r, 0, j)
    <2>1. PICK k \in 1 .. j : q[k].act = "remove"
      BY <1>1, <1>2 DEF Gone
    <2>2. k - 1 \in 1 .. j - 1 /\ r[k - 1] = q[k]
      BY <1>1, <2>1
    <2> QED
      BY <2>1, <2>2 DEF Gone
  <1>3. ASSUME NEW i \in 1 .. Len(r), r[i].act = "add" PROVE Gone(r, 0, i) \/ Identity(r[i].dev, p) = id
    <2>1. i + 1 \in 1 .. Len(q) /\ r[i] = q[i + 1]
      BY <1>1
    <2>2. Gone(q, 0, i + 1) \/ Identity(r[i].dev, p) = id
      BY <1>3, <2>1 DEF Leads
    <2> QED
      BY <1>1, <1>2, <2>2
  <1>4. Gone(r, 0, Len(r) + 1) \/ (d # Nothing /\ Identity(d, p) = id)
    <2>1. Len(r) + 1 \in 1 .. Len(r) + 1 /\ (Len(r) + 1) + 1 = Len(q) + 1
      BY <1>1
    <2>2. Gone(q, 0, Len(q) + 1) => Gone(r, 0, Len(r) + 1)
      BY <1>2, <2>1
    <2> QED
      BY <2>2 DEF Leads
  <1> QED
    BY <1>3, <1>4 DEF Leads, r

\* So it holds for the units of the device whose event comes first.
LEMMA HeadLeads ==
  ASSUME NEW q \in Seq(Event), q # <<>>, q[1].act = "add", NEW p, NEW d, InTurn(q, p, d)
  PROVE  /\ Leads(q, p, d, Identity(q[1].dev, p))
         /\ \A id : Leads(q, p, d, id) => id = Identity(q[1].dev, p)
  <1>1. Len(q) \in Nat \ {0} /\ 1 \in 1 .. Len(q)
    BY TailFacts
  <1>2. \A j \in Nat : Gone(q, 1, j) => Gone(q, 0, j)
    BY DEF Gone
  <1>3. ~Gone(q, 0, 1)
    BY DEF Gone
  <1>4. /\ \A j \in 2 .. Len(q) : q[j].act = "add" => Gone(q, 1, j) \/ q[j].dev = q[1].dev
        /\ Gone(q, 1, Len(q) + 1) \/ d = q[1].dev
    BY <1>1 DEF InTurn, Turns
  <1>5. q[1].dev # Nothing
    BY <1>1, HotplugAssumption DEF InTurn, Told
  <1>6. Leads(q, p, d, Identity(q[1].dev, p))
    <2>1. \A i \in 1 .. Len(q) : i = 1 \/ i \in 2 .. Len(q)
      BY <1>1
    <2>2. \A i \in 1 .. Len(q) : q[i].act = "add" =>
            Gone(q, 0, i) \/ Identity(q[i].dev, p) = Identity(q[1].dev, p)
      BY <1>1, <1>2, <1>4, <2>1
    <2> QED
      BY <1>1, <1>2, <1>4, <1>5, <2>2 DEF Leads
  <1>7. \A id : Leads(q, p, d, id) => id = Identity(q[1].dev, p)
    BY <1>1, <1>3 DEF Leads
  <1> QED
    BY <1>6, <1>7

\* No process is started or bound to another port, and no mishap is forgotten.
Keeps ==
  /\ mishap \subseteq mishap'
  /\ \A u \in Unit : proc'[u] # Nothing => proc[u] # Nothing /\ proc'[u].port = proc[u].port

\* What a launcher's end leaves of its port.
LEMMA ContinueQueue ==
  ASSUME TypeOK, NEW p \in Port, NEW files, NEW w, Continue(p, files, w)
  PROVE  queue'[p] \in {queue[p], Tail(queue[p])}
  BY Types DEF Continue, Finish, Goto

\* A launcher's step, and what it leaves of its port.
LEMMA LauncherQueue ==
  ASSUME TypeOK, NEW p \in Port, Launcher(p)
  PROVE  queue'[p] \in {queue[p], Tail(queue[p])} /\ plugged' = plugged /\ (~StopDevice(p) => worker[p].pc # "stop")
  <1>1. CASE Dump(p)
    BY <1>1 DEF Dump, usb
  <1>2. CASE ReadVars(p)
    BY <1>2, ContinueQueue DEF ReadVars, usb
  <1>3. ASSUME NEW f \in File, MatchProfile(p, f)
        PROVE  queue'[p] \in {queue[p], Tail(queue[p])} /\ plugged' = plugged /\ worker[p].pc # "stop"
    BY <1>3, ContinueQueue DEF MatchProfile, usb
  <1>4. CASE StartUnit(p)
    BY <1>4, ContinueQueue, StartFacts DEF usb
  <1>5. CASE StopDevice(p)
    BY <1>5, Types DEF StopDevice, Finish, usb
  <1> QED
    BY <1>1, <1>2, <1>3, <1>4, <1>5 DEF Launcher

\* Any step but a reboot and the stop of a device keeps what the units of a port
\* rest on.
LEMMA LeadsStep ==
  ASSUME TypeOK, [Next]_vars, NEW p \in Port, PortInv(p), ~Reboot, ~StopDevice(p),
         NEW id, Leads(queue[p], p, plugged[p], id)
  PROVE  Leads(queue'[p], p, plugged'[p], id)
  <1>1. queue[p] \in Seq(Event)
    BY Types
  <1>2. CASE Launcher(p)
    <2>1. queue'[p] \in {queue[p], Tail(queue[p])} /\ plugged' = plugged /\ worker[p].pc # "stop"
      BY <1>2, LauncherQueue
    <2>2. queue'[p] = queue[p] \/ worker[p].pc # "idle"
      BY <1>2 DEF Launcher, Dump, ReadVars, MatchProfile, StartUnit, StopDevice
    <2>3. worker[p].pc # "idle" => queue[p] # <<>> /\ queue[p][1].act = "add"
      BY <2>1 DEF PortInv, AtWork
    <2> QED
      BY <1>1, <2>1, <2>2, <2>3, TailLeads
  <1>3. ASSUME NEW e, News(e, p, plugged[p], plugged'[p]), queue'[p] = Append(queue[p], e)
        PROVE  Leads(queue'[p], p, plugged'[p], id)
    BY <1>1, <1>3, AppendLeads
  <1> QED
    BY <1>2, <1>3, PortCases

\* The steps that do something to a unit.
LEMMA UnitCases ==
  ASSUME [Next]_vars
  PROVE  \/ UNCHANGED <<units, proc, mishap>>
         \/ \E p \in Port : StartUnit(p) \/ StopDevice(p) \/ Unplug(p)
         \/ Reboot
         \/ \E u \in Unit : HandlerStep(u) \/ UndeployStop(u)
         \/ UndeployRm
  <1> DEFINE Quiet == UNCHANGED <<units, proc, mishap>>
  <1>1. ASSUME NEW p \in Port, Launcher(p) PROVE Quiet \/ StartUnit(p) \/ StopDevice(p)
    BY <1>1 DEF Launcher, Dump, ReadVars, MatchProfile, system
  <1>2. ASSUME NEW p \in Port, Enumerate(p) \/ \E d \in Device : Plug(p, d) PROVE Quiet
    BY <1>2 DEF Enumerate, Plug, system
  <1>3. ASSUME NEW b \in Board, DeployWrite(b) \/ UndeployProfile(b) PROVE Quiet
    BY <1>3 DEF DeployWrite, UndeployProfile
  <1>4. DeployRename \/ RenameFails \/ DeployReload \/ UndeployScan => Quiet
    BY DEF DeployRename, RenameFails, DeployReload, UndeployScan, system
  <1>5. UNCHANGED vars => Quiet
    BY DEF vars, system
  <1> HIDE DEF Quiet
  <1>6. User => Quiet \/ (\E p \in Port : Unplug(p)) \/ Reboot
    BY <1>2, <1>3 DEF User
  <1>7. Backend => Quiet \/ (\E u \in Unit : UndeployStop(u)) \/ UndeployRm
    BY <1>4 DEF Backend
  <1>8. Next => \/ Quiet \/ Reboot \/ UndeployRm
                \/ \E p \in Port : StartUnit(p) \/ StopDevice(p) \/ Unplug(p)
                \/ \E u \in Unit : HandlerStep(u) \/ UndeployStop(u)
    BY <1>1, <1>2, <1>6, <1>7 DEF Next, Reaction
  <1> QED
    BY <1>5, <1>8 DEF Quiet

\* What a handler reads before it has opened, or when it has lost it, is no port.
LEMMA NoPort == "none" \notin Port /\ "dead" \notin Port /\ "opening" \notin Port
  BY HotplugAssumption

\* A process that has just been started.
LEMMA StartedFacts ==
  ASSUME NEW unitFile
  PROVE  /\ Started(unitFile).port = unitFile.port /\ Started(unitFile).file = unitFile.file
         /\ Started(unitFile).reads = "opening"
  BY DEF Started

\* A handler that opens keeps its port and its file, has the profile as it is now,
\* and reads its own node, none, or has strayed.
LEMMA HandlerFacts ==
  ASSUME TypeOK, NEW u \in Unit, HandlerStep(u)
  PROVE  /\ mishap \subseteq mishap' /\ units' = units
         /\ mishap' \subseteq mishap \cup {<<"strayed", u>>}
         /\ \A v \in Unit \ {u} : proc'[v] = proc[v]
         /\ proc[u] # Nothing /\ proc[u].reads = "opening" /\ proc'[u] # Nothing
         /\ proc'[u].port = proc[u].port /\ proc'[u].file = proc[u].file
         /\ proc'[u].profile = boards[proc[u].file]
         /\ \/ proc'[u].reads \in {proc[u].port, "none"}
            \/ proc'[u].reads \in Port /\ <<"strayed", u>> \in mishap'
  <1>1. proc \in [Unit -> Handler \cup {Nothing}] /\ proc[u] \in Handler
        /\ proc[u] # Nothing /\ proc[u].reads = "opening" /\ units' = units
        /\ boards[proc[u].file] \in Profile \cup {Nothing}
    BY Types DEF HandlerStep, Open, GiveUp, Opening, Handler
  <1>2. PICK reads \in Port \cup {"none"} :
          /\ Opened(u, reads)
          /\ mishap \subseteq mishap' /\ mishap' \subseteq mishap \cup {<<"strayed", u>>}
          /\ reads \in {proc[u].port, "none"} \/ (reads \in Port /\ <<"strayed", u>> \in mishap')
    <2>1. CASE Open(u)
      <3>1. PICK q \in Resolve(u) :
              /\ Opened(u, q)
              /\ mishap' = mishap \cup {m \in {<<"strayed", u>>} : q # proc[u].port}
        BY <2>1 DEF Open
      <3>2. q \in Port
        BY <3>1, ResolveType
      <3> QED
        BY <3>1, <3>2
    <2>2. CASE GiveUp(u)
      BY <2>2 DEF GiveUp
    <2> QED
      BY <2>1, <2>2 DEF HandlerStep
  <1> DEFINE h == [proc[u] EXCEPT !.profile = boards[proc[u].file], !.reads = reads]
  <1>3. /\ h.port = proc[u].port /\ h.file = proc[u].file
        /\ h.profile = boards[proc[u].file] /\ h.reads = reads /\ h \in Handler
    BY <1>1, <1>2 DEF Handler
  <1>4. h # Nothing
    <2> HIDE DEF h
    <2> QED
      BY <1>3, NothingAssumption
  <1>5. proc'[u] = h /\ \A v \in Unit \ {u} : proc'[v] = proc[v]
    BY <1>1, <1>2 DEF Opened
  <1> HIDE DEF h
  <1> QED
    BY <1>1, <1>2, <1>3, <1>4, <1>5

\* What an unplug changes for the handlers.
LEMMA UnplugFacts ==
  ASSUME TypeOK, NEW p \in Port, Unplug(p)
  PROVE  /\ UNCHANGED <<units, mishap>>
         /\ \A v \in Unit :
              \/ proc[v] = Nothing /\ proc'[v] = Nothing
              \/ /\ proc[v] # Nothing /\ proc'[v] # Nothing
                 /\ proc'[v].port = proc[v].port /\ proc'[v].file = proc[v].file
                 /\ proc'[v].profile = proc[v].profile
                 /\ \/ proc'[v].reads = proc[v].reads
                    \/ proc[v].reads = p /\ proc'[v].reads = "dead"
  <1>1. UNCHANGED <<units, mishap>>
    BY DEF Unplug
  <1>2. ASSUME NEW v \in Unit
        PROVE  \/ proc[v] = Nothing /\ proc'[v] = Nothing
               \/ /\ proc[v] # Nothing /\ proc'[v] # Nothing
                  /\ proc'[v].port = proc[v].port /\ proc'[v].file = proc[v].file
                  /\ proc'[v].profile = proc[v].profile
                  /\ \/ proc'[v].reads = proc[v].reads
                     \/ proc[v].reads = p /\ proc'[v].reads = "dead"
    <2> DEFINE h == [proc[v] EXCEPT !.reads = "dead"]
    <2>1. proc'[v] = IF proc[v] # Nothing /\ proc[v].reads = p THEN h ELSE proc[v]
      BY DEF Unplug
    <2>2. CASE Runs(v)
      <3>1. proc[v] \in Handler
        BY <2>2, Types DEF Runs
      <3>2. h \in Handler /\ h.port = proc[v].port /\ h.file = proc[v].file
            /\ h.profile = proc[v].profile /\ h.reads = "dead"
        BY <3>1 DEF Handler
      <3>3. h # Nothing
        BY <3>2, NothingAssumption
      <3> HIDE DEF h
      <3> QED
        BY <2>1, <2>2, <3>2, <3>3 DEF Runs
    <2>3. CASE ~Runs(v)
      BY <2>1, <2>3 DEF Runs
    <2> QED
      BY <2>2, <2>3
  <1> QED
    BY <1>1, <1>2 DEF Runs

\* What the backend does to the unit files and the processes.
LEMMA RemoveFacts ==
  ASSUME TypeOK, UndeployRm
  PROVE  /\ server.unit \in Unit /\ server.pc = "rm" /\ server.left \in SUBSET Unit
         /\ UNCHANGED <<proc, boards, clashed>> /\ mishap \subseteq mishap'
         /\ mishap' \subseteq mishap \cup {<<"orphaned", server.unit>>}
         /\ Runs(server.unit) => <<"orphaned", server.unit>> \in mishap'
         /\ <<"orphaned", server.unit>> \in mishap' =>
              Runs(server.unit) \/ <<"orphaned", server.unit>> \in mishap
         /\ \A u \in Unit \ {server.unit} : units'[u] = units[u]
         /\ units'[server.unit] = Nothing
  <1>1. server.pc = "rm" /\ server \in Request
    BY Types DEF UndeployRm
  <1>2. server.unit \in Unit /\ server.left \in SUBSET Unit
    BY <1>1, RequestShape
  <1> QED
    BY <1>1, <1>2, Types DEF UndeployRm, Runs

\* The backend stops a process.
LEMMA StopFacts ==
  ASSUME TypeOK, NEW u \in Unit, UndeployStop(u)
  PROVE  /\ UNCHANGED <<units, mishap, boards, clashed>> /\ proc'[u] = Nothing
         /\ \A v \in Unit \ {u} : proc'[v] = proc[v]
  BY Types DEF UndeployStop

\* The units that an event tells to stop.
LEMMA StopDeviceFacts ==
  ASSUME TypeOK, NEW p \in Port, PortInv(p), StopDevice(p)
  PROVE  /\ UNCHANGED <<units, mishap, boards, server, clashed>>
         /\ \A u \in Unit : proc'[u] \in {proc[u], Nothing}
         /\ ~mixed' => \A u \in Unit : proc'[u] = IF units[u] # Nothing /\ units[u].port = p
                                                  THEN Nothing ELSE proc[u]
         /\ queue[p] # <<>> /\ queue[p][1].act = "remove"
         /\ queue'[p] = Tail(queue[p]) /\ worker'[p] = Idle
  <1>1. queue[p] # <<>> /\ queue[p][1].act = "remove" /\ queue[p] \in Seq(Event)
    BY Types DEF StopDevice, PortInv, AtWork
  <1>2. ~mixed' => temp = queue[p][1] /\ temp # Nothing /\ temp.port = p
    <2>1. Head(queue[p]) = queue[p][1]
      BY <1>1, TailFacts
    <2>2. mixed' = (mixed \/ temp # Head(queue[p]))
      BY DEF StopDevice, Misread
    <2>3. ~mixed' => temp = queue[p][1]
      BY <2>1, <2>2, Zenon
    <2>4. queue[p][1] \in Event /\ queue[p][1].port = p
      BY <1>1, HeadTold DEF PortInv
    <2> QED
      BY <2>3, <2>4, NothingAssumption
  <1>3. \A u \in Unit : proc'[u] = IF u \in Bound(temp) THEN Nothing ELSE proc[u]
    BY DEF StopDevice
  <1>4. queue'[p] = Tail(queue[p]) /\ worker'[p] = Idle
    BY Types DEF StopDevice, Finish, Goto
  <1> QED
    BY <1>1, <1>2, <1>3, <1>4 DEF StopDevice, Bound

\* What starting a unit does to the others, and to the one it starts.
LEMMA StartUnitFacts ==
  ASSUME TypeOK, NEW p \in Port, PortInv(p), StartUnit(p)
  PROVE  LET u == worker[p].unit
         IN  /\ u \in Unit /\ mishap \subseteq mishap'
             /\ mishap' \subseteq mishap \cup {<<"moved", u>>, <<"late", u>>}
             /\ \A v \in Unit \ {u} : units'[v] = units[v] /\ proc'[v] = proc[v]
             /\ units'[u] = UnitFileOf(p)
             /\ UnitFileOf(p) = Nothing =>
                  u \in worker[p].known /\ units[u] = Nothing /\ proc'[u] = proc[u]
             /\ UnitFileOf(p) # Nothing =>
                  /\ UnitFileOf(p).file \in File
                  /\ proc'[u] = Started(UnitFileOf(p)) /\ proc'[u] # Nothing
                  /\ Deployed(UnitFileOf(p).file, u[1]) \/ <<"late", u>> \in mishap'
                  /\ units[u] # Nothing /\ units[u].port # worker[p].info.port
                       => <<"moved", u>> \in mishap'
                  /\ <<"moved", u>> \notin mishap' => UnitFileOf(p).port = worker[p].info.port
  <1> DEFINE u == worker[p].unit
  <1>1. worker[p].pc = "start"
    BY StartFacts
  <1>2. u \in Unit /\ UnitFileOf(p) \in UnitFile \cup {Nothing}
        /\ (UnitFileOf(p) # Nothing => Started(UnitFileOf(p)) \in Handler /\ UnitFileOf(p).file \in File)
    BY <1>1, UnitFileType
  <1>3. \/ u \in worker[p].known /\ UnitFileOf(p) = units[u]
        \/ UnitFileOf(p) = [file |-> worker[p].file, port |-> worker[p].info.port]
    BY DEF UnitFileOf
  <1>4. [file |-> worker[p].file, port |-> worker[p].info.port] # Nothing
    <2>1. worker[p].file \in File /\ worker[p].info.port \in Port
      BY <1>1, WorkShape, Types DEF Event
    <2> QED
      BY <2>1, NothingAssumption DEF UnitFile
  <1>5. units \in [Unit -> UnitFile \cup {Nothing}] /\ proc \in [Unit -> Handler \cup {Nothing}]
    BY Types
  <1>6. units' = [units EXCEPT ![u] = UnitFileOf(p)]
    BY StartFacts
  <1>7. CASE UnitFileOf(p) = Nothing
    <2>1. UNCHANGED <<proc, mishap>>
      BY <1>7, StartFacts
    <2> QED
      BY <1>2, <1>3, <1>4, <1>5, <1>6, <1>7, <2>1
  <1>8. CASE UnitFileOf(p) # Nothing
    <2>1. /\ proc' = [proc EXCEPT ![u] = Started(UnitFileOf(p))]
          /\ mishap' = mishap
               \cup {m \in {<<"moved", u>>} : units[u] # Nothing /\ units[u].port # worker[p].info.port}
               \cup {m \in {<<"late", u>>} : ~Deployed(UnitFileOf(p).file, u[1])}
      BY <1>8, StartFacts
    <2>2. Started(UnitFileOf(p)) # Nothing
      BY <1>2, <1>8, NothingAssumption
    <2>3. units[u] # Nothing /\ units[u].port # worker[p].info.port => <<"moved", u>> \in mishap'
      BY <2>1
    <2>4. Deployed(UnitFileOf(p).file, u[1]) \/ <<"late", u>> \in mishap'
      BY <2>1
    <2>5. mishap \subseteq mishap' /\ mishap' \subseteq mishap \cup {<<"moved", u>>, <<"late", u>>}
      BY <2>1
    <2>6. <<"moved", u>> \notin mishap' => UnitFileOf(p).port = worker[p].info.port
      BY <1>3, <1>8, <2>3
    <2>7. proc'[u] = Started(UnitFileOf(p)) /\ \A v \in Unit \ {u} : proc'[v] = proc[v]
      BY <1>2, <1>5, <2>1
    <2>8. units'[u] = UnitFileOf(p) /\ \A v \in Unit \ {u} : units'[v] = units[v]
      BY <1>2, <1>5, <1>6
    <2> QED
      BY <1>2, <1>8, <2>2, <2>3, <2>4, <2>5, <2>6, <2>7, <2>8
  <1> QED
    BY <1>7, <1>8

\* Only the start of a unit gives a process, or a process another port.
LEMMA KeepsStep ==
  ASSUME TypeOK, UsbInv, [Next]_vars, ~\E p \in Port : StartUnit(p)
  PROVE  Keeps
  <1>1. CASE UNCHANGED <<units, proc, mishap>>
    BY <1>1 DEF Keeps, Runs
  <1>2. ASSUME NEW p \in Port, StopDevice(p) PROVE Keeps
    <2>1. PortInv(p)
      BY DEF UsbInv
    <2>2. mishap' = mishap /\ \A u \in Unit : proc'[u] \in {proc[u], Nothing}
      BY <1>2, <2>1, StopDeviceFacts
    <2> QED
      BY <2>2 DEF Keeps, Runs
  <1>3. ASSUME NEW p \in Port, Unplug(p) PROVE Keeps
    BY <1>3, UnplugFacts DEF Keeps, Runs
  <1>4. CASE Reboot
    BY <1>4 DEF Reboot, Keeps, Runs
  <1>5. ASSUME NEW u \in Unit, HandlerStep(u) PROVE Keeps
    BY <1>5, HandlerFacts DEF Keeps, Runs
  <1>6. ASSUME NEW u \in Unit, UndeployStop(u) PROVE Keeps
    BY <1>6, StopFacts DEF Keeps, Runs
  <1>7. CASE UndeployRm
    BY <1>7, RemoveFacts DEF Keeps, Runs
  <1> QED
    BY <1>1, <1>2, <1>3, <1>4, <1>5, <1>6, <1>7, UnitCases

\* A handler has its unit file, and the port of it.
LEMMA BackedStep == TypeOK /\ UsbInv /\ Backed /\ [Next]_vars => Backed'
  <1> SUFFICES ASSUME TypeOK, UsbInv, Backed, [Next]_vars,
                      NEW v \in Unit, proc'[v] # Nothing, <<"orphaned", v>> \notin mishap'
               PROVE  units'[v] # Nothing /\ units'[v].port = proc'[v].port
    BY DEF Backed, Runs
  <1> DEFINE Goal == units'[v] # Nothing /\ units'[v].port = proc'[v].port
  <1>2. ASSUME NEW p \in Port, StartUnit(p) PROVE Goal
    <2> DEFINE u == worker[p].unit
    <2>1. PortInv(p)
      BY DEF UsbInv
    <2>2. CASE v # u \/ UnitFileOf(p) = Nothing
      BY <1>2, <2>1, <2>2, StartUnitFacts DEF Backed, Runs
    <2>3. CASE v = u /\ UnitFileOf(p) # Nothing
      <3>1. units'[u] = UnitFileOf(p) /\ proc'[u] = Started(UnitFileOf(p))
        BY <1>2, <2>1, <2>3, StartUnitFacts
      <3> QED
        BY <2>3, <3>1, StartedFacts
    <2> QED
      BY <2>2, <2>3
  <1>3. ASSUME NEW p \in Port, StopDevice(p) PROVE Goal
    <2>1. PortInv(p)
      BY DEF UsbInv
    <2> QED
      BY <1>3, <2>1, StopDeviceFacts DEF Backed, Runs
  <1>4. ASSUME NEW p \in Port, Unplug(p) PROVE Goal
    BY <1>4, UnplugFacts DEF Backed, Runs
  <1>5. CASE Reboot
    BY <1>5 DEF Reboot
  <1>6. ASSUME NEW u \in Unit, HandlerStep(u) PROVE Goal
    BY <1>6, HandlerFacts DEF Backed, Runs
  <1>7. ASSUME NEW u \in Unit, UndeployStop(u) PROVE Goal
    BY <1>7, StopFacts DEF Backed, Runs
  <1>8. CASE UndeployRm
    BY <1>8, RemoveFacts DEF Backed, Runs
  <1>9. CASE UNCHANGED <<units, proc, mishap>>
    BY <1>9 DEF Backed, Runs
  <1> QED
    BY <1>2, <1>3, <1>4, <1>5, <1>6, <1>7, <1>8, <1>9, UnitCases

\* A handler reads its own node, or has strayed.
LEMMA OwnNodeStep == TypeOK /\ UsbInv /\ OwnNode /\ [Next]_vars => OwnNode'
  <1> SUFFICES ASSUME TypeOK, UsbInv, OwnNode, [Next]_vars, NEW v \in Unit, proc'[v] # Nothing,
                      <<"strayed", v>> \notin mishap', proc'[v].reads \in Port
               PROVE  proc'[v].reads = proc'[v].port
    BY DEF OwnNode, Runs
  <1>1. ASSUME proc'[v] = proc[v], mishap \subseteq mishap' PROVE proc'[v].reads = proc'[v].port
    BY <1>1 DEF OwnNode, Runs
  <1>2. ASSUME NEW p \in Port, StartUnit(p) PROVE proc'[v].reads = proc'[v].port
    <2>1. PortInv(p)
      BY DEF UsbInv
    <2>2. CASE v # worker[p].unit \/ UnitFileOf(p) = Nothing
      BY <1>1, <1>2, <2>1, <2>2, StartUnitFacts
    <2>3. CASE v = worker[p].unit /\ UnitFileOf(p) # Nothing
      <3>1. proc'[v].reads = "opening"
        <4>1. proc'[v] = Started(UnitFileOf(p))
          BY <1>2, <2>1, <2>3, StartUnitFacts
        <4> QED
          BY <4>1, StartedFacts
      <3> QED
        BY <3>1, NoPort
    <2> QED
      BY <2>2, <2>3
  <1>3. ASSUME NEW p \in Port, StopDevice(p) PROVE proc'[v].reads = proc'[v].port
    <2>1. PortInv(p)
      BY DEF UsbInv
    <2> QED
      BY <1>1, <1>3, <2>1, StopDeviceFacts
  <1>4. ASSUME NEW p \in Port, Unplug(p) PROVE proc'[v].reads = proc'[v].port
    BY <1>4, UnplugFacts, NoPort DEF OwnNode, Runs
  <1>5. CASE Reboot
    BY <1>5 DEF Reboot
  <1>6. ASSUME NEW u \in Unit, HandlerStep(u) PROVE proc'[v].reads = proc'[v].port
    <2>1. CASE v = u
      BY <1>6, <2>1, HandlerFacts, NoPort
    <2>2. CASE v # u
      BY <1>1, <1>6, <2>2, HandlerFacts
    <2> QED
      BY <2>1, <2>2
  <1>7. ASSUME NEW u \in Unit, UndeployStop(u) PROVE proc'[v].reads = proc'[v].port
    BY <1>1, <1>7, StopFacts
  <1>8. CASE UndeployRm
    BY <1>1, <1>8, RemoveFacts
  <1>9. CASE UNCHANGED <<units, proc, mishap>>
    BY <1>1, <1>9
  <1> QED
    BY <1>2, <1>3, <1>4, <1>5, <1>6, <1>7, <1>8, <1>9, UnitCases

\* A unit that is started is bound to the port of the event, and named after the
\* device of it.
LEMMA StartIdentity ==
  ASSUME TypeOK, NEW p \in Port, PortInv(p), StartUnit(p), ~mixed, UnitFileOf(p) # Nothing,
         <<"moved", worker[p].unit>> \notin mishap'
  PROVE  /\ proc'[worker[p].unit].port = p
         /\ queue[p] \in Seq(Event) /\ queue[p] # <<>> /\ queue[p][1].act = "add"
         /\ worker[p].unit[2] = Identity(queue[p][1].dev, p)
         /\ worker[p].info = queue[p][1] /\ UnitFileOf(p).port = p
  <1>1. worker[p].pc = "start"
    BY StartFacts
  <1>2. /\ queue[p] \in Seq(Event) /\ queue[p] # <<>> /\ queue[p][1].act = "add"
        /\ worker[p].info = queue[p][1]
    BY <1>1, Types DEF PortInv, AtWork
  <1>3. queue[p][1].port = p
    BY <1>2, HeadTold DEF PortInv
  <1>4. worker[p].unit[2] = Identity(queue[p][1].dev, p)
    BY <1>1, <1>2, <1>3 DEF PortInv, Matched
  <1>5. UnitFileOf(p).port = p /\ proc'[worker[p].unit] = Started(UnitFileOf(p))
    BY <1>2, <1>3, StartUnitFacts
  <1> QED
    BY <1>2, <1>4, <1>5, StartedFacts

\* What the units of a port rest on goes on holding.
LEMMA TiedStep == TypeOK /\ UsbInv /\ Backed /\ Tied /\ [Next]_vars => Tied'
  <1> SUFFICES ASSUME TypeOK, UsbInv, Backed, Tied, [Next]_vars, ~mixed', NEW v \in Unit,
                      proc'[v] # Nothing, <<"moved", v>> \notin mishap', <<"orphaned", v>> \notin mishap'
               PROVE  Leads(queue'[proc'[v].port], proc'[v].port, plugged'[proc'[v].port], v[2])
    BY DEF Tied, Steady, Runs
  <1> DEFINE Stays(p) == Leads(queue'[p], p, plugged'[p], v[2])
  <1>1. ~mixed
    BY LaterStep DEF Later
  <1>2. ~Reboot
    BY DEF Reboot
  <1>3. ASSUME NEW p \in Port, StartUnit(p), v = worker[p].unit, UnitFileOf(p) # Nothing
        PROVE  Stays(proc'[v].port)
    <2>1. PortInv(p)
      BY DEF UsbInv
    <2>2. /\ proc'[v].port = p /\ v[2] = Identity(queue[p][1].dev, p)
          /\ queue[p] \in Seq(Event) /\ queue[p] # <<>> /\ queue[p][1].act = "add"
      BY <1>1, <1>3, <2>1, StartIdentity
    <2>3. Leads(queue[p], p, plugged[p], v[2])
      BY <2>1, <2>2, HeadLeads DEF PortInv
    <2>4. ~StopDevice(p)
      BY <1>3 DEF StartUnit, StopDevice
    <2>5. Stays(p)
      BY <1>2, <2>1, <2>3, <2>4, LeadsStep
    <2> QED
      BY <2>2, <2>5
  <1>4. ASSUME proc[v] # Nothing, proc'[v].port = proc[v].port, mishap \subseteq mishap'
        PROVE  Stays(proc'[v].port)
    <2> DEFINE p == proc[v].port
    <2>1. p \in Port
      BY <1>4, Types DEF Handler
    <2>2. PortInv(p)
      BY <2>1 DEF UsbInv
    <2>3. Leads(queue[p], p, plugged[p], v[2])
      BY <1>1, <1>4 DEF Tied, Steady, Runs
    <2>4. ~StopDevice(p)
      <3> SUFFICES ASSUME StopDevice(p) PROVE FALSE
        OBVIOUS
      <3>1. units[v] # Nothing /\ units[v].port = p
        BY <1>4 DEF Backed, Runs
      <3>2. proc'[v] = Nothing
        BY <2>1, <2>2, <3>1, StopDeviceFacts
      <3> QED
        BY <3>2
    <2> HIDE DEF p
    <2>5. Stays(p)
      BY <1>2, <2>1, <2>2, <2>3, <2>4, LeadsStep
    <2> QED
      BY <1>4, <2>5 DEF p
  <1>5. CASE \E p \in Port : StartUnit(p)
    <2>1. PICK p \in Port : StartUnit(p)
      BY <1>5
    <2>2. PortInv(p)
      BY DEF UsbInv
    <2>3. CASE v = worker[p].unit /\ UnitFileOf(p) # Nothing
      BY <1>3, <2>1, <2>3
    <2>4. CASE v # worker[p].unit \/ UnitFileOf(p) = Nothing
      <3>1. proc'[v] = proc[v] /\ mishap \subseteq mishap'
        BY <2>1, <2>2, <2>4, StartUnitFacts
      <3> QED
        BY <1>4, <3>1
    <2> QED
      BY <2>3, <2>4
  <1>6. CASE ~\E p \in Port : StartUnit(p)
    <2>1. Keeps
      BY <1>6, KeepsStep
    <2> QED
      BY <1>4, <2>1 DEF Keeps
  <1> QED
    BY <1>5, <1>6

\* Handlers of one port are of one device.
LEMMA OneDeviceStep == TypeOK /\ UsbInv /\ Tied /\ OneDevice /\ [Next]_vars => OneDevice'
  <1> SUFFICES ASSUME TypeOK, UsbInv, Tied, OneDevice, [Next]_vars, ~mixed',
                      NEW u \in Unit, NEW v \in Unit, Steady(u)', Steady(v)',
                      proc'[u].port = proc'[v].port
               PROVE  u[2] = v[2]
    BY DEF OneDevice
  <1>1. ~mixed
    BY LaterStep DEF Later
  <1>2. /\ proc'[u] # Nothing /\ <<"moved", u>> \notin mishap' /\ <<"orphaned", u>> \notin mishap'
        /\ proc'[v] # Nothing /\ <<"moved", v>> \notin mishap' /\ <<"orphaned", v>> \notin mishap'
    BY DEF Steady, Runs
  <1>3. CASE \E p \in Port : StartUnit(p)
    <2>1. PICK p \in Port : StartUnit(p)
      BY <1>3
    <2>2. PortInv(p) /\ mishap \subseteq mishap'
      BY <2>1, StartUnitFacts DEF UsbInv
    <2> DEFINE New(w) == w = worker[p].unit /\ UnitFileOf(p) # Nothing
    <2>3. ASSUME NEW w \in Unit, ~New(w) PROVE proc'[w] = proc[w]
      BY <2>1, <2>2, <2>3, StartUnitFacts
    <2>4. ASSUME NEW w \in Unit, NEW x \in Unit, New(w), ~New(x),
                 <<"moved", w>> \notin mishap', <<"moved", x>> \notin mishap',
                 <<"orphaned", x>> \notin mishap',
                 proc'[x] # Nothing, proc'[w].port = proc'[x].port
          PROVE  w[2] = x[2]
      <3>1. /\ proc'[w].port = p /\ w[2] = Identity(queue[p][1].dev, p)
            /\ queue[p] \in Seq(Event) /\ queue[p] # <<>> /\ queue[p][1].act = "add"
        BY <1>1, <2>1, <2>2, <2>4, StartIdentity
      <3>2. proc[x] # Nothing /\ proc[x].port = p
        BY <2>3, <2>4, <3>1
      <3>3. Leads(queue[p], p, plugged[p], x[2])
        BY <1>1, <2>2, <2>4, <3>2 DEF Tied, Steady, Runs
      <3>4. InTurn(queue[p], p, plugged[p])
        BY <2>2 DEF PortInv
      <3> QED
        BY <3>1, <3>3, <3>4, HeadLeads
    <2>5. CASE ~New(u) /\ ~New(v)
      <3>1. proc'[u] = proc[u] /\ proc'[v] = proc[v]
        BY <2>3, <2>5
      <3> QED
        BY <1>1, <1>2, <2>2, <3>1 DEF OneDevice, Steady, Runs
    <2>6. New(u) /\ New(v) => u = v
      OBVIOUS
    <2> QED
      BY <1>2, <2>4, <2>5, <2>6
  <1>4. CASE ~\E p \in Port : StartUnit(p)
    <2>1. Keeps
      BY <1>4, KeepsStep
    <2> QED
      BY <1>1, <1>2, <2>1 DEF Keeps, OneDevice, Steady, Runs
  <1> QED
    BY <1>3, <1>4

\* Every step keeps what is said of the units.
LEMMA UnitStep == TypeOK /\ UsbInv /\ UnitInv /\ [Next]_vars => UnitInv'
  BY BackedStep, OwnNodeStep, TiedStep, OneDeviceStep DEF UnitInv

-----------------------------------------------------------------------------
(* Undeploy *)

\* The steps that do something to a profile or a request.
LEMMA ServerCases ==
  ASSUME [Next]_vars
  PROVE  \/ UNCHANGED <<boards, server, clashed>>
         \/ \E b \in Board : DeployWrite(b) \/ UndeployProfile(b)
         \/ Reboot
         \/ Backend
  <1> DEFINE Quiet == UNCHANGED <<boards, server, clashed>>
  <1>1. ASSUME NEW p \in Port, Launcher(p) PROVE Quiet
    BY <1>1 DEF Launcher, Dump, ReadVars, MatchProfile, StartUnit, StopDevice, system
  <1>2. ASSUME NEW p \in Port, Enumerate(p) \/ Unplug(p) \/ \E d \in Device : Plug(p, d) PROVE Quiet
    BY <1>2 DEF Enumerate, Plug, Unplug, system
  <1>3. ASSUME NEW u \in Unit, HandlerStep(u) PROVE Quiet
    BY <1>3 DEF HandlerStep, Open, GiveUp
  <1>4. UNCHANGED vars => Quiet
    BY DEF vars, system
  <1> HIDE DEF Quiet
  <1>5. User => Quiet \/ (\E b \in Board : DeployWrite(b) \/ UndeployProfile(b)) \/ Reboot
    BY <1>2 DEF User
  <1>6. Next => Quiet \/ (\E b \in Board : DeployWrite(b) \/ UndeployProfile(b)) \/ Reboot \/ Backend
    BY <1>1, <1>2, <1>3, <1>5 DEF Next, Reaction
  <1> QED
    BY <1>4, <1>6 DEF Quiet

\* Until it is renamed, and if that fails, a deploy changes no profile of the library.
LEMMA TempFacts ==
  ASSUME TypeOK, RenameFails \/ \E b \in Board : DeployWrite(b)
  PROVE  /\ server.pc \in {"idle", "rename"} /\ server'.pc \in {"idle", "rename"}
         /\ UNCHANGED <<usb, events, units, proc, mishap, clashed, mixed>>
         /\ \A g \in Name : boards'[g] = boards[g]
         /\ server'.pc = "rename" /\ server'.profile.name # server'.file
              => boards[server'.file] # Nothing
  <1>1. CASE RenameFails
    <2>1. server.file \in Name
      BY <1>1, RequestShape, Types DEF RenameFails
    <2>2. \A g \in Name : boards'[g] = boards[g]
      BY <1>1, <2>1, TempFile, Types DEF RenameFails
    <2> QED
      BY <1>1, <2>2 DEF RenameFails, Idle
  <1>2. ASSUME NEW b \in Board, DeployWrite(b)
        PROVE  /\ server.pc = "idle" /\ server'.pc = "rename"
               /\ UNCHANGED <<usb, events, units, proc, mishap, clashed, mixed>>
               /\ \A g \in Name : boards'[g] = boards[g]
               /\ server'.profile.name # server'.file => boards[server'.file] # Nothing
    <2>1. PICK f \in FileOf(b), profile \in Profile :
            /\ f \in Name /\ profile.name = b.name
            /\ boards' = [boards EXCEPT ![Temp(f)] = profile]
            /\ server' = [pc |-> "rename", file |-> f, profile |-> profile]
      BY <1>2, WriteShape
    <2>2. \A g \in Name : boards'[g] = boards[g]
      BY <2>1, TempFile, Types
    <2>3. f # b.name => boards[f] # Nothing
      BY <2>1 DEF FileOf
    <2>4. server.pc = "idle" /\ UNCHANGED <<usb, events, units, proc, mishap, clashed, mixed>>
      BY <1>2 DEF DeployWrite
    <2> QED
      BY <2>1, <2>2, <2>3, <2>4
  <1> QED
    BY <1>1, <1>2

\* The rename and an undeploy change one file of the library.
LEMMA RenameFacts ==
  ASSUME TypeOK, DeployRename
  PROVE  /\ server.pc = "rename" /\ server' = [pc |-> "reload"]
         /\ UNCHANGED <<usb, events, units, proc, mishap, mixed>>
         /\ server.file \in Name /\ server.profile \in Profile
         /\ clashed' = clashed \cup Clashes(server.file, server.profile)
         /\ boards'[server.file] = server.profile /\ boards'[server.file] # Nothing
         /\ \A g \in Name \ {server.file} : boards'[g] = boards[g]
  <1>1. server.file \in Name /\ server.profile \in Profile
    BY RequestShape, Types DEF DeployRename
  <1>2. boards'[server.file] = server.profile
        /\ \A g \in Name \ {server.file} : boards'[g] = boards[g]
    BY <1>1, TempFile, Types DEF DeployRename
  <1>3. server.profile # Nothing
    BY <1>1, NothingAssumption
  <1> QED
    BY <1>1, <1>2, <1>3 DEF DeployRename

\* What an undeploy changes.
LEMMA EraseFacts ==
  ASSUME TypeOK, NEW b \in Board, UndeployProfile(b)
  PROVE  /\ server.pc = "idle" /\ server' = [pc |-> "scan", name |-> b.name]
         /\ UNCHANGED <<usb, events, units, proc, mishap, mixed>>
         /\ \E f \in FileOf(b) : /\ f \in Name /\ clashed' = clashed \cup Clashes(f, b)
                               /\ boards'[f] = Nothing
                               /\ \A g \in Name \ {f} : boards'[g] = boards[g]
  <1>1. PICK f \in FileOf(b) :
          boards' = [boards EXCEPT ![f] = Nothing] /\ clashed' = clashed \cup Clashes(f, b)
    BY DEF UndeployProfile
  <1>2. f \in Name
    BY <1>1, FileType
  <1>3. boards'[f] = Nothing /\ \A g \in Name \ {f} : boards'[g] = boards[g]
    BY <1>1, <1>2, TempFile, Types
  <1>4. server.pc = "idle" /\ server' = [pc |-> "scan", name |-> b.name]
        /\ UNCHANGED <<usb, events, units, proc, mishap, mixed>>
    BY DEF UndeployProfile
  <1> QED
    BY <1>1, <1>2, <1>3, <1>4

\* A deploy takes a name from the profiles only if it clashes.
LEMMA DeployNames ==
  ASSUME TypeOK, DeployRename, NEW n \in Name, Named(n)
  PROVE  Named(n)' \/ n \in clashed'
  <1>1. PICK f \in Name, b \in Profile :
          /\ clashed' = clashed \cup Clashes(f, b)
          /\ boards'[f] # Nothing /\ boards'[f].name = b.name
          /\ \A g \in Name \ {f} : boards'[g] = boards[g]
    BY RenameFacts
  <1>2. PICK g \in Name : boards[g] # Nothing /\ boards[g].name = n
    BY DEF Named, HasName
  <1>3. CASE g # f \/ n = b.name
    BY <1>1, <1>2, <1>3 DEF Named, HasName
  <1>4. CASE g = f /\ n # b.name
    BY <1>1, <1>2, <1>4 DEF Clashes, HasName
  <1> QED
    BY <1>3, <1>4

\* So does an undeploy, but for the name of the profile it removes, which no
\* profile has then.
LEMMA UndeployNames ==
  ASSUME TypeOK, NEW b \in Board, UndeployProfile(b), NEW n \in Name
  PROVE  /\ Named(n) => Named(n)' \/ n \in clashed' \/ n = b.name
         /\ Named(b.name)' => b.name \in clashed'
  <1>1. PICK f \in Name : /\ clashed' = clashed \cup Clashes(f, b) /\ boards'[f] = Nothing
                          /\ \A g \in Name \ {f} : boards'[g] = boards[g]
    BY EraseFacts
  <1>2. ASSUME Named(n) PROVE Named(n)' \/ n \in clashed' \/ n = b.name
    <2>1. PICK g \in Name : boards[g] # Nothing /\ boards[g].name = n
      BY <1>2 DEF Named, HasName
    <2>2. CASE g # f
      BY <1>1, <2>1, <2>2 DEF Named, HasName
    <2>3. CASE g = f
      BY <1>1, <2>1, <2>3 DEF Clashes, HasName
    <2> QED
      BY <2>2, <2>3
  <1>3. ASSUME Named(b.name)' PROVE b.name \in clashed'
    <2>1. PICK g \in Name : boards'[g] # Nothing /\ boards'[g].name = b.name
      BY <1>3 DEF Named, HasName
    <2> QED
      BY <1>1, <2>1 DEF Clashes, HasName
  <1> QED
    BY <1>2, <1>3

\* The request to remove units, and what is left of it.
LEMMA RemovingFacts ==
  ASSUME NEW left, Removing(left)
  PROVE  \/ left = {} /\ server' = Idle
         \/ left # {} /\ server'.pc = "units" /\ server'.left = left
  BY DEF Removing

\* The name that is being undeployed stays no profile's.
LEMMA UndoneStep == TypeOK /\ Undone /\ [Next]_vars => Undone'
  <1> SUFFICES ASSUME TypeOK, Undone, [Next]_vars PROVE Undone'
    OBVIOUS
  <1>0. server \in Request
    BY Types
  <1>1. CASE UNCHANGED <<boards, server, clashed>>
    BY <1>1 DEF Undone, Named, HasName
  <1>2. ASSUME NEW b \in Board, DeployWrite(b) PROVE Undone'
    BY <1>2, TempFacts DEF Undone
  <1>3. ASSUME NEW b \in Board, UndeployProfile(b) PROVE Undone'
    <2>1. server' = [pc |-> "scan", name |-> b.name]
      BY <1>3, EraseFacts
    <2>2. b.name \in Name
      BY HotplugAssumption
    <2>3. Named(b.name)' => b.name \in clashed'
      BY <1>3, <2>2, UndeployNames
    <2> QED
      BY <2>1, <2>3 DEF Undone, Named, HasName
  <1>4. CASE Reboot
    BY <1>4 DEF Reboot, Undone, Idle
  <1>5. CASE Backend
    <2>0. CASE DeployRename \/ RenameFails
      BY <2>0 DEF DeployRename, RenameFails, Undone, Idle
    <2>1. CASE DeployReload
      BY <2>1 DEF DeployReload, Undone, Idle
    <2>2. CASE UndeployScan
      <3>1. server.pc = "scan" /\ UNCHANGED <<boards, clashed>>
        BY <2>2 DEF UndeployScan, system
      <3>2. Removing({u \in Covered(server.name) : units[u] # Nothing})
        BY <2>2 DEF UndeployScan
      <3>3. \A u \in Covered(server.name) : u[1] = server.name
        BY DEF Covered
      <3> QED
        BY <3>1, <3>2, <3>3, RemovingFacts DEF Undone, Named, HasName, Idle
    <2>3. ASSUME NEW u \in Unit, UndeployStop(u) PROVE Undone'
      <3>1. /\ server.pc = "units" /\ u \in server.left /\ UNCHANGED <<boards, clashed>>
            /\ server' = [pc |-> "rm", left |-> server.left \ {u}, unit |-> u]
        BY <2>3 DEF UndeployStop
      <3> QED
        BY <3>1 DEF Undone, Named, HasName
    <2>4. CASE UndeployRm
      <3>1. server.pc = "rm" /\ UNCHANGED <<boards, clashed>> /\ Removing(server.left)
        BY <2>4 DEF UndeployRm
      <3> QED
        BY <3>1, RemovingFacts DEF Undone, Named, HasName, Idle
    <2> QED
      BY <1>5, <2>0, <2>1, <2>2, <2>3, <2>4 DEF Backend
  <1> QED
    BY <1>1, <1>2, <1>3, <1>4, <1>5, ServerCases

\* A handler runs under the name of a profile, or undeploy will stop it, or it was
\* late or its name clashed.
LEMMA CoversStep == TypeOK /\ UsbInv /\ Backed /\ UndeployInv /\ [Next]_vars => Covers'
  <1> SUFFICES ASSUME TypeOK, UsbInv, Backed, UndeployInv, [Next]_vars, NEW v \in Unit, proc'[v] # Nothing
               PROVE  Named(v[1])' \/ Excused(v)' \/ ToStop(v)'
    BY DEF Covers, Runs
  <1> DEFINE Goal == Named(v[1])' \/ Excused(v)' \/ ToStop(v)'
  <1>0. v[1] \in Name
    BY DEF Unit
  <1>1. ASSUME proc[v] # Nothing, mishap \subseteq mishap', units'[v] = units[v],
               UNCHANGED <<boards, server, clashed>>
        PROVE  Goal
    BY <1>1 DEF UndeployInv, Covers, Runs, Named, HasName, Excused, ToStop
  <1>2. ASSUME NEW p \in Port, StartUnit(p) PROVE Goal
    <2>1. PortInv(p)
      BY DEF UsbInv
    <2>2. UNCHANGED <<boards, server, clashed>>
      BY <1>2, StartFacts
    <2>3. CASE v = worker[p].unit /\ UnitFileOf(p) # Nothing
      <3>1. UnitFileOf(p).file \in File
            /\ (Deployed(UnitFileOf(p).file, v[1]) \/ <<"late", v>> \in mishap')
        BY <1>2, <2>1, <2>3, StartUnitFacts
      <3> DEFINE f == UnitFileOf(p).file
      <3> HIDE DEF f
      <3>2. (f \in Name /\ HasName(f, v[1])) \/ <<"late", v>> \in mishap'
        BY <3>1 DEF f, Deployed
      <3> QED
        BY <2>2, <3>2 DEF Named, HasName, Excused
    <2>4. CASE v # worker[p].unit \/ UnitFileOf(p) = Nothing
      <3>1. proc'[v] = proc[v] /\ units'[v] = units[v] /\ mishap \subseteq mishap'
        BY <1>2, <2>1, <2>4, StartUnitFacts
      <3> QED
        BY <1>1, <2>2, <3>1
    <2> QED
      BY <2>3, <2>4
  <1>3. CASE RenameFails \/ DeployRename \/ \E b \in Board : DeployWrite(b)
    <2>1. server.pc \in {"idle", "rename"} /\ UNCHANGED <<units, proc, mishap>>
      BY <1>3, TempFacts, RenameFacts
    <2>2. Named(v[1]) \/ Excused(v)
      BY <2>1 DEF UndeployInv, Covers, Runs, ToStop
    <2>3. Named(v[1]) => Named(v[1])' \/ v[1] \in clashed'
      <3>1. CASE DeployRename
        BY <1>0, <3>1, DeployNames
      <3>2. CASE ~DeployRename
        BY <1>3, <3>2, TempFacts DEF Named, HasName
      <3> QED
        BY <3>1, <3>2
    <2>4. clashed \subseteq clashed'
      BY LaterStep DEF Later
    <2> QED
      BY <2>1, <2>2, <2>3, <2>4 DEF Excused
  <1>4. ASSUME NEW b \in Board, UndeployProfile(b) PROVE Goal
    <2>1. server.pc = "idle" /\ UNCHANGED <<units, proc, mishap>>
          /\ server' = [pc |-> "scan", name |-> b.name]
      BY <1>4, EraseFacts
    <2>2. Named(v[1]) \/ Excused(v)
      BY <2>1 DEF UndeployInv, Covers, Runs, ToStop
    <2>3. Named(v[1]) => Named(v[1])' \/ v[1] \in clashed' \/ v[1] = b.name
      BY <1>0, <1>4, UndeployNames
    <2>4. clashed \subseteq clashed'
      BY LaterStep DEF Later
    <2>5. Excused(v) \/ units[v] # Nothing
      BY <2>1 DEF UndeployInv, Orphans, Backed, Runs
    <2>6. units[v] # Nothing /\ v[1] = b.name => ToStop(v)'
      BY <2>1 DEF ToStop
    <2>7. Excused(v) => Excused(v)'
      BY <2>1, <2>4 DEF Excused
    <2>8. v[1] \in clashed' => Excused(v)'
      BY DEF Excused
    <2> QED
      BY <2>2, <2>3, <2>5, <2>6, <2>7, <2>8
  <1>5. CASE Reboot
    BY <1>5 DEF Reboot
  <1>6. CASE DeployReload
    <2>1. server.pc = "reload" /\ UNCHANGED <<units, proc, boards, mishap, clashed>>
      BY <1>6 DEF DeployReload, system
    <2> QED
      BY <2>1 DEF UndeployInv, Covers, Runs, Named, HasName, Excused, ToStop
  <1>7. CASE UndeployScan
    <2>1. server.pc = "scan" /\ UNCHANGED <<units, proc, boards, mishap, clashed>>
      BY <1>7 DEF UndeployScan, system
    <2>2. Named(v[1]) \/ Excused(v) \/ ToStop(v)
      BY <2>1 DEF UndeployInv, Covers, Runs
    <2>3. CASE ToStop(v)
      <3>1. v \in {u \in Covered(server.name) : units[u] # Nothing}
        BY <2>1, <2>3 DEF ToStop, Covered
      <3>2. Removing({u \in Covered(server.name) : units[u] # Nothing})
        BY <1>7 DEF UndeployScan
      <3>3. server'.pc = "units" /\ v \in server'.left
        BY <3>1, <3>2, RemovingFacts
      <3> QED
        BY <3>3 DEF ToStop
    <2> QED
      BY <2>1, <2>2, <2>3 DEF Named, HasName, Excused
  <1>8. ASSUME NEW u \in Unit, UndeployStop(u) PROVE Goal
    <2>1. /\ server.pc = "units" /\ UNCHANGED <<units, boards, mishap, clashed>>
          /\ server' = [pc |-> "rm", left |-> server.left \ {u}, unit |-> u]
          /\ v # u /\ proc'[v] = proc[v]
      BY <1>8, StopFacts DEF UndeployStop
    <2>2. Named(v[1]) \/ Excused(v) \/ ToStop(v)
      BY <2>1 DEF UndeployInv, Covers, Runs
    <2>3. ToStop(v) => ToStop(v)'
      BY <2>1 DEF ToStop
    <2> QED
      BY <2>1, <2>2, <2>3 DEF Named, HasName, Excused
  <1>9. CASE UndeployRm
    <2>1. server.pc = "rm" /\ UNCHANGED <<proc, boards, clashed>> /\ mishap \subseteq mishap'
          /\ Removing(server.left)
      BY <1>9, RemoveFacts DEF UndeployRm
    <2>2. Named(v[1]) \/ Excused(v) \/ ToStop(v)
      BY <2>1 DEF UndeployInv, Covers, Runs
    <2>3. ToStop(v) => ToStop(v)'
      BY <2>1, RemovingFacts DEF ToStop
    <2> QED
      BY <2>1, <2>2, <2>3 DEF Named, HasName, Excused
  <1>10. CASE UNCHANGED <<boards, server, clashed>> /\ ~\E p \in Port : StartUnit(p)
    <2>1. proc[v] # Nothing /\ mishap \subseteq mishap'
      BY <1>10, KeepsStep DEF Keeps
    <2>2. UndeployRm \/ Reboot \/ (\E u \in Unit : UndeployStop(u)) \/ units' = units
      <3>1. \A p \in Port : StopDevice(p) \/ Unplug(p) => units' = units
        BY DEF StopDevice, Unplug
      <3>2. \A u \in Unit : HandlerStep(u) => units' = units
        BY HandlerFacts
      <3> QED
        BY <1>10, <3>1, <3>2, UnitCases
    <2> QED
      BY <1>1, <1>5, <1>8, <1>9, <1>10, <2>1, <2>2
  <1> QED
    BY <1>2, <1>3, <1>4, <1>5, <1>6, <1>7, <1>8, <1>9, <1>10, ServerCases DEF Backend

\* A unit that was started again before its file was removed was late.
LEMMA OrphansStep == TypeOK /\ UsbInv /\ UndeployInv /\ [Next]_vars => Orphans'
  <1> SUFFICES ASSUME TypeOK, UsbInv, UndeployInv, [Next]_vars PROVE Orphans'
    OBVIOUS
  <1>0. clashed \subseteq clashed'
    BY LaterStep DEF Later
  <1>1. ASSUME mishap \subseteq mishap', NEW u \in Unit, Excused(u) PROVE Excused(u)'
    BY <1>0, <1>1 DEF Excused
  <1>2. ASSUME mishap' = mishap, server'.pc # "rm" PROVE Orphans'
    BY <1>0, <1>2 DEF UndeployInv, Orphans, Excused
  <1>3. ASSUME \A u \in Unit : <<"orphaned", u>> \in mishap' => <<"orphaned", u>> \in mishap,
               server' = server, Keeps
        PROVE  Orphans'
    <2>1. server.pc = "rm" => server.unit \in Unit
      BY RequestShape, Types
    <2> QED
      BY <1>0, <1>3, <2>1 DEF UndeployInv, Orphans, Excused, Keeps, Runs
  <1>4. ASSUME NEW p \in Port, StartUnit(p) PROVE Orphans'
    <2> DEFINE u == worker[p].unit
    <2>1. PortInv(p)
      BY DEF UsbInv
    <2>2. UNCHANGED <<boards, server, clashed>> /\ mishap \subseteq mishap'
          /\ mishap' \subseteq mishap \cup {<<"moved", u>>, <<"late", u>>}
      BY <1>4, <2>1, StartFacts, StartUnitFacts
    <2>3. \A v \in Unit : <<"orphaned", v>> \in mishap' => Excused(v)'
      BY <2>2 DEF UndeployInv, Orphans, Excused
    <2>4. ASSUME server.pc = "rm", proc'[server.unit] # Nothing PROVE Excused(server.unit)'
      <3>1. server.unit \in Unit
        BY <2>4, RequestShape, Types
      <3>2. CASE server.unit = u /\ UnitFileOf(p) # Nothing
        <4>1. UnitFileOf(p).file \in File
              /\ (Deployed(UnitFileOf(p).file, u[1]) \/ <<"late", u>> \in mishap')
          BY <1>4, <2>1, <3>2, StartUnitFacts
        <4>2. Deployed(UnitFileOf(p).file, u[1]) => u[1] \in clashed
          BY <2>4, <3>2 DEF UndeployInv, Undone, Named, Deployed
        <4> QED
          BY <2>2, <3>2, <4>1, <4>2 DEF Excused
      <3>3. CASE server.unit # u \/ UnitFileOf(p) = Nothing
        <4>1. proc'[server.unit] = proc[server.unit]
          BY <1>4, <2>1, <3>1, <3>3, StartUnitFacts
        <4> QED
          BY <2>2, <2>4, <4>1 DEF UndeployInv, Orphans, Excused, Runs
      <3> QED
        BY <3>2, <3>3
    <2> QED
      BY <2>2, <2>3, <2>4 DEF Orphans, Runs, Excused
  <1>5. ASSUME NEW b \in Board, DeployWrite(b) \/ UndeployProfile(b) PROVE Orphans'
    <2>1. mishap' = mishap /\ server'.pc # "rm"
      BY <1>5, TempFacts, EraseFacts
    <2> QED
      BY <1>2, <2>1
  <1>6. CASE Reboot
    BY <1>2, <1>6 DEF Reboot, Idle
  <1>7. CASE DeployRename \/ RenameFails \/ DeployReload
    BY <1>2, <1>7 DEF DeployRename, RenameFails, DeployReload, Idle
  <1>8. CASE UndeployScan
    <2>1. mishap' = mishap /\ server'.pc # "rm"
      BY <1>8, RemovingFacts DEF UndeployScan, Idle
    <2> QED
      BY <1>2, <2>1
  <1>9. ASSUME NEW u \in Unit, UndeployStop(u) PROVE Orphans'
    <2>1. mishap' = mishap /\ server'.unit = u /\ proc'[u] = Nothing
      BY <1>9, StopFacts DEF UndeployStop
    <2> QED
      BY <1>0, <2>1 DEF UndeployInv, Orphans, Excused, Runs
  <1>10. CASE UndeployRm
    <2>1. /\ server.pc = "rm" /\ server.unit \in Unit /\ mishap \subseteq mishap' /\ Removing(server.left)
          /\ mishap' \subseteq mishap \cup {<<"orphaned", server.unit>>}
          /\ <<"orphaned", server.unit>> \in mishap' =>
               Runs(server.unit) \/ <<"orphaned", server.unit>> \in mishap
      BY <1>10, RemoveFacts DEF UndeployRm
    <2>2. server'.pc # "rm"
      BY <2>1, RemovingFacts DEF Idle
    <2>3. \A u \in Unit : <<"orphaned", u>> \in mishap' => Excused(u)
      BY <2>1 DEF UndeployInv, Orphans
    <2> QED
      BY <1>0, <2>1, <2>2, <2>3 DEF Orphans, Excused
  <1>11. CASE UNCHANGED <<boards, server, clashed>> /\ ~\E p \in Port : StartUnit(p)
    <2>1. Keeps
      BY <1>11, KeepsStep
    <2>2. \/ UndeployRm \/ Reboot
          \/ \A u \in Unit : <<"orphaned", u>> \in mishap' => <<"orphaned", u>> \in mishap
      <3>1. \A p \in Port : StopDevice(p) \/ Unplug(p) => mishap' = mishap
        BY DEF StopDevice, Unplug
      <3>2. \A u \in Unit : HandlerStep(u) => mishap' \subseteq mishap \cup {<<"strayed", u>>}
        BY HandlerFacts
      <3>3. \A u \in Unit : UndeployStop(u) => mishap' = mishap
        BY DEF UndeployStop
      <3> QED
        BY <1>11, <3>1, <3>2, <3>3, UnitCases
    <2> QED
      BY <1>3, <1>6, <1>10, <1>11, <2>1, <2>2
  <1> QED
    BY <1>4, <1>5, <1>6, <1>7, <1>8, <1>9, <1>10, <1>11, ServerCases DEF Backend

\* Every step keeps what is said of undeploy.
LEMMA UndeployStep == TypeOK /\ UsbInv /\ Backed /\ UndeployInv /\ [Next]_vars => UndeployInv'
  BY UndoneStep, CoversStep, OrphansStep DEF UndeployInv

-----------------------------------------------------------------------------
(* The handlers of the devices that are plugged in *)

\* A profile is in the file of its name, and units and handlers are for that file,
\* but those for a temporary file, unless names clashed.
LEMMA FilesStep == TypeOK /\ UsbInv /\ Files /\ [Next]_vars => Files'
  <1> SUFFICES ASSUME TypeOK, UsbInv, Files, [Next]_vars PROVE Files'
    OBVIOUS
  <1>0. clashed \subseteq clashed'
    BY LaterStep DEF Later
  <1> DEFINE BoardsOK == \A f \in Name : boards'[f] # Nothing /\ boards'[f].name \notin clashed'
                                           => boards'[f].name = f
             ServerOK == server'.pc = "rename" /\ server'.profile.name # server'.file
                           => boards'[server'.file] # Nothing
             UnitOK(u) == units'[u] # Nothing /\ units'[u].file \in Name /\ u[1] \notin clashed'
                            => units'[u].file = u[1]
             ProcOK(u) == proc'[u] # Nothing /\ proc'[u].file \in Name /\ u[1] \notin clashed'
                            => proc'[u].file = u[1]
  <1>1. ASSUME \A g \in Name : boards'[g] = boards[g] PROVE BoardsOK
    BY <1>0, <1>1 DEF Files
  <1>2. ASSUME NEW u \in Unit, units'[u] \in {Nothing, units[u]} PROVE UnitOK(u)
    BY <1>0, <1>2 DEF Files
  <1>3. ASSUME NEW u \in Unit, \/ proc'[u] = Nothing
                               \/ proc[u] # Nothing /\ proc'[u].file = proc[u].file
        PROVE  ProcOK(u)
    BY <1>0, <1>3 DEF Files, Runs
  <1>4. ASSUME DeployRename PROVE BoardsOK
    <2>1. PICK f \in Name, b \in Profile :
            /\ f = server.file /\ b = server.profile /\ clashed' = clashed \cup Clashes(f, b)
            /\ boards'[f] = b /\ \A g \in Name \ {f} : boards'[g] = boards[g]
      BY <1>4, RenameFacts
    <2>2. b.name \in Name
      BY DEF Profile
    <2>3. ASSUME b.name \notin clashed' PROVE b.name = f
      <3> SUFFICES ASSUME b.name # f PROVE FALSE
        OBVIOUS
      <3>1. boards[f] # Nothing
        BY <1>4, <2>1 DEF Files, DeployRename
      <3>2. boards[f] \in Profile
        BY <3>1, TempFile, Types
      <3>3. boards[f].name \in Name
        BY <3>2 DEF Profile
      <3>4. boards[f].name # b.name => b.name \in Clashes(f, b)
        BY <2>2, <3>1, <3>3 DEF Clashes, HasName
      <3>5. boards[f].name = b.name
        BY <2>1, <2>3, <3>4
      <3> QED
        BY <2>1, <2>3, <3>1, <3>5 DEF Files
    <2> QED
      BY <1>0, <2>1, <2>3 DEF Files
  <1>5. ASSUME NEW b \in Board, UndeployProfile(b) PROVE BoardsOK
    <2>1. PICK f \in FileOf(b) : /\ f \in Name /\ boards'[f] = Nothing
                                 /\ \A g \in Name \ {f} : boards'[g] = boards[g]
      BY <1>5, EraseFacts
    <2> QED
      BY <1>0, <2>1 DEF Files
  <1>6. ASSUME NEW p \in Port, StartUnit(p), NEW v \in Unit PROVE UnitOK(v) /\ ProcOK(v)
    <2> DEFINE u == worker[p].unit
    <2>1. PortInv(p) /\ worker[p].pc = "start" /\ clashed' = clashed
      BY <1>6, StartFacts DEF UsbInv
    <2>2. CASE v # u
      <3>1. units'[v] = units[v] /\ proc'[v] = proc[v]
        BY <1>6, <2>1, <2>2, StartUnitFacts
      <3> QED
        BY <1>2, <1>3, <3>1
    <2>3. CASE v = u /\ UnitFileOf(p) = Nothing
      <3>1. units'[v] = Nothing /\ proc'[v] = proc[v]
        BY <1>6, <2>1, <2>3, StartUnitFacts
      <3> QED
        BY <1>2, <1>3, <3>1
    <2>4. CASE v = u /\ UnitFileOf(p) # Nothing
      <3>1. units'[u] = UnitFileOf(p) /\ proc'[u].file = UnitFileOf(p).file
        BY <1>6, <2>1, <2>4, StartUnitFacts, StartedFacts
      <3>2. u \in Unit
        BY <2>4
      <3>3. u[1] \notin clashed /\ UnitFileOf(p).file \in Name => UnitFileOf(p).file = u[1]
        BY <2>1, <2>4, <3>2 DEF UnitFileOf, Files, PortInv, Matched
      <3> QED
        BY <2>1, <2>4, <3>1, <3>3
    <2> QED
      BY <2>2, <2>3, <2>4
  <1>7. BoardsOK
    <2>1. Reboot \/ DeployReload \/ UndeployScan \/ UndeployRm \/ (\E u \in Unit : UndeployStop(u))
            => UNCHANGED boards
      BY DEF Reboot, DeployReload, UndeployScan, UndeployStop, UndeployRm, system
    <2>2. RenameFails \/ (\E b \in Board : DeployWrite(b)) => \A g \in Name : boards'[g] = boards[g]
      BY TempFacts
    <2> HIDE DEF BoardsOK
    <2> QED
      BY <1>1, <1>4, <1>5, <2>1, <2>2, ServerCases DEF Backend
  <1>8. ServerOK
    <2>1. DeployRename \/ DeployReload \/ UndeployScan \/ UndeployRm
            \/ (\E u \in Unit : UndeployStop(u)) \/ (\E b \in Board : UndeployProfile(b)) \/ Reboot
            => server'.pc # "rename"
      BY RemovingFacts
         DEF DeployRename, DeployReload, UndeployScan, UndeployRm, UndeployStop, UndeployProfile, Reboot, Idle
    <2>2. CASE RenameFails \/ \E b \in Board : DeployWrite(b)
      <3>1. server'.pc = "rename" => server'.file \in Name
        <4>1. TypeOK'
          BY TypeStep
        <4>2. server' \in Request
          BY <4>1 DEF TypeOK
        <4> QED
          BY <4>2 DEF Request
      <3> QED
        BY <2>2, <3>1, TempFacts
    <2>3. CASE UNCHANGED <<boards, server, clashed>>
      BY <2>3 DEF Files
    <2> HIDE DEF ServerOK
    <2>4. server'.pc # "rename" => ServerOK
      BY DEF ServerOK
    <2> QED
      BY <2>1, <2>2, <2>3, <2>4, ServerCases DEF Backend
  <1>9. ASSUME NEW v \in Unit PROVE UnitOK(v) /\ ProcOK(v)
    <2>1. ASSUME NEW p \in Port, StopDevice(p) \/ Unplug(p)
          PROVE  units'[v] = units[v] /\ (proc'[v] = Nothing \/ (proc[v] # Nothing /\ proc'[v].file = proc[v].file))
      <3>1. PortInv(p)
        BY DEF UsbInv
      <3> QED
        BY <2>1, <3>1, StopDeviceFacts, UnplugFacts
    <2>2. ASSUME NEW u \in Unit, HandlerStep(u) \/ UndeployStop(u)
          PROVE  units'[v] = units[v] /\ (proc'[v] = Nothing \/ (proc[v] # Nothing /\ proc'[v].file = proc[v].file))
      BY <2>2, HandlerFacts, StopFacts
    <2>3. Reboot => units'[v] = units[v] /\ proc'[v] = Nothing
      BY DEF Reboot
    <2>4. UndeployRm => units'[v] \in {Nothing, units[v]} /\ proc'[v] = proc[v]
      BY RemoveFacts
    <2> HIDE DEF UnitOK, ProcOK
    <2> QED
      BY <1>2, <1>3, <1>6, <2>1, <2>2, <2>3, <2>4, UnitCases
  <1> QED
    BY <1>7, <1>8, <1>9 DEF Files, Runs

\* What is due is a device and a profile, and a unit that no deploy or undeploy has
\* touched.
LEMMA DueFacts ==
  ASSUME TypeOK, NEW p \in Port, NEW f \in Name, Due(p, f)
  PROVE  /\ plugged[p] \in Device /\ plugged[p] # Nothing
         /\ boards[f] \in Profile /\ boards[f] # Nothing
         /\ UnitOf(p, f) \in Unit /\ UnitOf(p, f)[1] = boards[f].name
         /\ UnitOf(p, f)[2] = Identity(plugged[p], p)
  <1>1. plugged[p] \in Device /\ plugged[p] # Nothing /\ boards[f] \in Profile /\ boards[f] # Nothing
    BY TempFile, Types DEF Due, Wanted, Claims
  <1>2. Add(p) \in Event /\ Add(p).dev = plugged[p] /\ Add(p).port = p
    BY EventType DEF Add
  <1>3. UnitFor(boards[f], Add(p)) \in Unit
    BY <1>1, <1>2, UnitIsUnit
  <1> QED
    BY <1>1, <1>2, <1>3 DEF UnitOf, UnitFor

\* No step forgets a mishap.
LEMMA MishapStep == TypeOK /\ UsbInv /\ [Next]_vars => mishap \subseteq mishap'
  <1> SUFFICES ASSUME TypeOK, UsbInv, [Next]_vars PROVE mishap \subseteq mishap'
    OBVIOUS
  <1>1. ASSUME NEW p \in Port, StartUnit(p) PROVE mishap \subseteq mishap'
    BY <1>1, StartUnitFacts DEF UsbInv
  <1>2. CASE ~\E p \in Port : StartUnit(p)
    BY <1>2, KeepsStep DEF Keeps
  <1> QED
    BY <1>1, <1>2

\* What is due was so before, if the port and the file are as they were.
LEMMA DueStays ==
  ASSUME NEW p, NEW f, Due(p, f)', Later, mishap \subseteq mishap',
         plugged'[p] = plugged[p], boards'[f] = boards[f]
  PROVE  /\ Due(p, f) /\ UnitOf(p, f)' = UnitOf(p, f) /\ Add(p)' = Add(p)
         /\ boards[f].name \notin clashed' /\ <<"moved", UnitOf(p, f)>> \notin mishap'
  <1>1. Add(p)' = Add(p)
    BY DEF Add
  <1>2. UnitOf(p, f)' = UnitOf(p, f)
    BY <1>1 DEF UnitOf, UnitFor
  <1>3. Wanted(p, f)
    BY <1>1 DEF Due, Wanted, Claims
  <1> QED
    BY <1>1, <1>2, <1>3 DEF Due, Later

\* A step that leaves alone the port, the file and the unit keeps what is pending.
LEMMA PendingSame ==
  ASSUME NEW p, NEW f, Pending(p, f), Due(p, f)', Later, mishap \subseteq mishap',
         plugged'[p] = plugged[p], boards'[f] = boards[f],
         queue'[p] = queue[p], worker'[p] = worker[p],
         server.pc = "reload" => server'.pc = "reload",
         units'[UnitOf(p, f)] = units[UnitOf(p, f)]
  PROVE  Pending(p, f)'
  <1>1. UnitOf(p, f)' = UnitOf(p, f) /\ Add(p)' = Add(p)
    BY DueStays
  <1>2. Comes(p, f) => Comes(p, f)'
    BY <1>1 DEF Comes
  <1> QED
    BY <1>1, <1>2 DEF Pending, Awaits

\* If it leaves alone the handler too, this stays in place.
LEMMA ServedSame ==
  ASSUME NEW p, NEW f, Fine(p, f), Due(p, f)', Later, mishap \subseteq mishap',
         plugged'[p] = plugged[p], boards'[f] = boards[f],
         queue'[p] = queue[p], worker'[p] = worker[p],
         server.pc = "reload" => server'.pc = "reload",
         units'[UnitOf(p, f)] = units[UnitOf(p, f)], proc'[UnitOf(p, f)] = proc[UnitOf(p, f)]
  PROVE  InPlace(p, f)' \/ Pending(p, f)'
  <1>1. Due(p, f) /\ UnitOf(p, f)' = UnitOf(p, f)
    BY DueStays
  <1>2. CASE InPlace(p, f)
    BY <1>1, <1>2 DEF InPlace, Runs, Obeys
  <1>3. CASE Pending(p, f)
    BY <1>3, PendingSame
  <1> QED
    BY <1>1, <1>2, <1>3 DEF Fine

\* The event of the device comes to the port.
LEMMA ServedHears ==
  ASSUME TypeOK, NEW p \in Port, NEW f, PortInv(p), plugged'[p] # Nothing,
         worker'[p] = worker[p], queue'[p] = Append(queue[p], Add(p)')
  PROVE  Pending(p, f)'
  <1>1. queue[p] \in Seq(Event)
    BY Types
  <1>2. Len(queue'[p]) = Len(queue[p]) + 1 /\ queue'[p][Len(queue[p]) + 1] = Add(p)'
        /\ Len(queue[p]) \in Nat
    BY <1>1
  <1>3. Len(queue[p]) + 1 = 1 => worker'[p].pc = "idle"
    BY <1>1, <1>2 DEF PortInv, AtWork
  <1>4. Len(queue[p]) + 1 \in 1 .. Len(queue'[p])
    BY <1>2
  <1> QED
    BY <1>2, <1>3, <1>4 DEF Pending, Awaits

\* When udev has done with an event, the others are still to come.
LEMMA TailAwaits ==
  ASSUME TypeOK, NEW p \in Port, NEW f, queue[p] # <<>>, queue'[p] = Tail(queue[p]), worker'[p] = Idle,
         NEW i \in 2 .. Len(queue[p]), queue[p][i] = Add(p), plugged'[p] = plugged[p]
  PROVE  Pending(p, f)'
  <1>1. /\ Len(queue[p]) \in Nat \ {0} /\ Len(queue'[p]) = Len(queue[p]) - 1
        /\ \A j \in 1 .. Len(queue[p]) - 1 : queue'[p][j] = queue[p][j + 1]
    BY Types, TailFacts
  <1>2. i - 1 \in 1 .. Len(queue'[p]) /\ queue'[p][i - 1] = queue[p][i]
    BY <1>1
  <1>3. Awaits(p, f, i - 1)'
    BY <1>2 DEF Awaits, Add, Idle
  <1> QED
    BY <1>2, <1>3 DEF Pending

\* A launcher that continues leaves the events after its own.
LEMMA ContinueAwaits ==
  ASSUME TypeOK, NEW p \in Port, NEW f, PortInv(p), worker[p].pc # "idle", NEW files, NEW w,
         Continue(p, files, w), plugged' = plugged,
         NEW i \in 2 .. Len(queue[p]), queue[p][i] = Add(p)
  PROVE  Pending(p, f)'
  <1>1. queue[p] # <<>>
    BY DEF PortInv, AtWork
  <1>2. CASE files = {}
    BY <1>1, <1>2, TailAwaits, Types DEF Continue, Finish, Goto
  <1>3. CASE files # {}
    <2>1. queue'[p] = queue[p]
      BY <1>3 DEF Continue
    <2>2. i # 1 /\ i \in 1 .. Len(queue'[p])
      BY <1>1, <2>1, Types
    <2>3. Awaits(p, f, i)'
      BY <2>1, <2>2 DEF Awaits, Add
    <2> QED
      BY <2>2, <2>3 DEF Pending
  <1> QED
    BY <1>2, <1>3

\* At boot every device has its event.
LEMMA ServedReboots ==
  ASSUME TypeOK, NEW p \in Port, NEW f \in Name, Reboot, Due(p, f)'
  PROVE  Pending(p, f)'
  <1>1. plugged[p] # Nothing /\ Add(p)' = Add(p)
    BY DEF Due, Wanted, Reboot, Add
  <1>2. queue'[p] = <<Add(p)>> /\ worker'[p] = Idle
    BY <1>1 DEF Reboot
  <1>3. 1 \in 1 .. Len(queue'[p]) /\ queue'[p][1] = Add(p)
    BY <1>2
  <1> QED
    BY <1>1, <1>2, <1>3 DEF Pending, Awaits, Idle

\* What a launcher leaves alone as long as it starts and stops nothing.
LEMMA ReaderFacts ==
  ASSUME NEW p, Dump(p) \/ ReadVars(p) \/ \E g \in File : MatchProfile(p, g)
  PROVE  UNCHANGED <<plugged, boards, units, proc, server, mishap, clashed>>
  BY DEF Dump, ReadVars, MatchProfile, usb, system

\* A launcher begins, or reads the variables.
LEMMA ServedBegins ==
  ASSUME TypeOK, NEW p \in Port, NEW f \in Name, PortInv(p), Later, Fine(p, f), Due(p, f)',
         Dump(p) \/ ReadVars(p)
  PROVE  InPlace(p, f)' \/ Pending(p, f)'
  <1>1. UNCHANGED <<plugged, boards, units, proc, server, mishap, clashed>>
    BY ReaderFacts
  <1>2. Due(p, f) /\ UnitOf(p, f)' = UnitOf(p, f) /\ Add(p)' = Add(p)
    BY <1>1, DueStays
  <1>3. boards[f] # Nothing /\ UnitOf(p, f) \in Unit /\ queue[p] \in Seq(Event) /\ worker \in [Port -> Work]
    BY <1>2, DueFacts, Types
  <1>4. CASE InPlace(p, f)
    BY <1>1, <1>2, <1>4 DEF InPlace, Runs, Obeys
  <1>5. CASE server.pc = "reload"
    BY <1>1, <1>5 DEF Pending
  <1>6. ASSUME NEW i \in 1 .. Len(queue[p]), Awaits(p, f, i) PROVE Pending(p, f)'
    <2>1. CASE Dump(p)
      <3>1. queue' = queue /\ worker'[p].pc = IF Head(queue[p]).act = "add" THEN "read" ELSE "stop"
        BY <1>3, <2>1 DEF Dump, Goto
      <3>2. i = 1 => Head(queue[p]).act = "add"
        BY <1>3, <1>6 DEF Awaits, Add
      <3>3. Awaits(p, f, i)'
        BY <1>2, <1>6, <3>1, <3>2 DEF Awaits
      <3> QED
        BY <3>1, <3>3 DEF Pending
    <2>2. CASE ReadVars(p)
      <3> DEFINE files == Listed
                 known == {u \in Unit : units[u] # Nothing}
      <3>1. Continue(p, files, [known |-> known, info |-> temp]) /\ f \in files
        BY <1>3, <2>2, TempFile DEF ReadVars, Listed
      <3>2. queue' = queue /\ worker'[p] = [pc |-> "match", files |-> files, known |-> known, info |-> temp]
        BY <1>3, <3>1 DEF Continue, Goto
      <3>3. UnitOf(p, f) \in known => units[UnitOf(p, f)] # Nothing
        OBVIOUS
      <3> HIDE DEF files, known
      <3>4. Comes(p, f)'
        BY <1>1, <1>2, <3>1, <3>2, <3>3 DEF Comes
      <3>5. Awaits(p, f, i)'
        BY <1>2, <1>6, <3>2, <3>4 DEF Awaits
      <3> QED
        BY <3>2, <3>5 DEF Pending
    <2> QED
      BY <2>1, <2>2
  <1> QED
    BY <1>2, <1>4, <1>5, <1>6 DEF Fine, Pending

\* The loop of a launcher comes to f, and then claims the device for it.
LEMMA ServedMatches ==
  ASSUME TypeOK, NEW p \in Port, NEW f \in Name, PortInv(p), Later, Fine(p, f), Due(p, f)', ~mixed,
         NEW g \in File, MatchProfile(p, g)
  PROVE  InPlace(p, f)' \/ Pending(p, f)'
  <1> DEFINE w == worker[p]
  <1>1. UNCHANGED <<plugged, boards, units, proc, server, mishap, clashed>>
    BY ReaderFacts
  <1>2. Due(p, f) /\ UnitOf(p, f)' = UnitOf(p, f) /\ Add(p)' = Add(p)
    BY <1>1, DueStays
  <1>3. queue[p] \in Seq(Event) /\ worker \in [Port -> Work]
    BY Types
  <1>4. CASE InPlace(p, f)
    BY <1>1, <1>2, <1>4 DEF InPlace, Runs, Obeys
  <1>5. CASE server.pc = "reload"
    BY <1>1, <1>5 DEF Pending
  <1>6. w.pc = "match" /\ w.info = queue[p][1]
    BY DEF MatchProfile, PortInv, AtWork
  <1>7. \/ /\ Claims(boards[g], w.info) /\ UNCHANGED queue
           /\ Goto(p, [pc |-> "start", files |-> w.files \ {g}, known |-> w.known,
                       info |-> w.info, file |-> g, unit |-> UnitFor(boards[g], w.info)])
        \/ ~Claims(boards[g], w.info) /\ Continue(p, w.files \ {g}, w)
    BY DEF MatchProfile
  <1>8. ASSUME NEW i \in 1 .. Len(queue[p]), Awaits(p, f, i) PROVE Pending(p, f)'
    <2>1. CASE i = 1
      <3>1. f \in w.files /\ (UnitOf(p, f) \in w.known => units[UnitOf(p, f)] # Nothing)
        BY <1>6, <1>8, <2>1 DEF Awaits, Comes
      <3>2. g = f => Claims(boards[g], w.info) /\ UnitFor(boards[g], w.info) = UnitOf(p, f)
        BY <1>2, <1>6, <1>8, <2>1 DEF Awaits, Due, Wanted, UnitOf
      <3>3. queue' = queue /\ Comes(p, f)'
        <4>1. CASE Claims(boards[g], w.info)
          <5>1. queue' = queue
                /\ worker'[p] = [pc |-> "start", files |-> w.files \ {g}, known |-> w.known,
                                 info |-> w.info, file |-> g, unit |-> UnitFor(boards[g], w.info)]
            BY <1>3, <1>7, <4>1 DEF Goto
          <5>2. f \in w.files \ {g} \/ UnitFor(boards[g], w.info) = UnitOf(p, f)
            BY <3>1, <3>2
          <5> QED
            BY <1>1, <1>2, <3>1, <5>1, <5>2 DEF Comes
        <4>2. CASE ~Claims(boards[g], w.info)
          <5>1. f \in w.files \ {g}
            BY <3>1, <3>2, <4>2
          <5>2. queue' = queue /\ worker'[p] = [pc |-> "match", files |-> w.files \ {g},
                                                known |-> w.known, info |-> w.info]
            BY <1>3, <1>7, <4>2, <5>1 DEF Continue, Goto
          <5> QED
            BY <1>1, <1>2, <3>1, <5>1, <5>2 DEF Comes
        <4> QED
          BY <4>1, <4>2
      <3>4. Awaits(p, f, i)'
        BY <1>2, <1>8, <3>3 DEF Awaits
      <3> QED
        BY <3>3, <3>4 DEF Pending
    <2>2. CASE i # 1
      <3>1. i \in 2 .. Len(queue[p]) /\ queue[p][i] = Add(p)
        BY <1>3, <1>8, <2>2 DEF Awaits
      <3>2. CASE Continue(p, w.files \ {g}, w)
        <4> HIDE DEF w
        <4> QED
          BY <1>1, <1>6, <3>1, <3>2, ContinueAwaits DEF w
      <3>3. CASE UNCHANGED queue
        BY <1>2, <1>8, <2>2, <3>3 DEF Awaits, Pending
      <3> QED
        BY <1>7, <3>2, <3>3
    <2> QED
      BY <2>1, <2>2
  <1> QED
    BY <1>2, <1>4, <1>5, <1>8 DEF Fine, Pending

\* The launcher at work for the device starts a unit: it is in place, or another one
\* was started.
LEMMA ServedStarts ==
  ASSUME TypeOK, NEW p \in Port, NEW f \in Name, PortInv(p), Files, Later, Fine(p, f), Due(p, f)',
         ~mixed, StartUnit(p)
  PROVE  InPlace(p, f)' \/ Pending(p, f)'
  <1> DEFINE w == worker[p]
             u == UnitOf(p, f)
  <1>1. UNCHANGED <<plugged, boards, server>> /\ w.pc = "start" /\ Continue(p, w.files, w)
    BY StartFacts DEF usb
  <1>2. mishap \subseteq mishap'
    BY StartUnitFacts
  <1>3. /\ Due(p, f) /\ u' = u /\ Add(p)' = Add(p)
        /\ boards[f].name \notin clashed' /\ <<"moved", u>> \notin mishap'
    BY <1>1, <1>2, DueStays
  <1>4. u \in Unit /\ u[1] = boards[f].name /\ boards[f] # Nothing
    BY <1>3, DueFacts
  <1>5. queue[p] \in Seq(Event) /\ worker \in [Port -> Work]
    BY Types
  <1>6. CASE server.pc = "reload"
    BY <1>1, <1>6 DEF Pending
  <1>7. CASE u = w.unit /\ UnitFileOf(p) # Nothing
    <2>1. proc'[u] = Started(UnitFileOf(p)) /\ proc'[u] # Nothing /\ units'[u] = UnitFileOf(p)
      BY <1>7, StartUnitFacts
    <2>2. UnitFileOf(p).port = p
      BY <1>3, <1>7, StartIdentity
    <2>3. proc'[u].port = p /\ proc'[u].reads = "opening"
      BY <2>1, <2>2, StartedFacts
    <2> HIDE DEF u
    <2>4. /\ units'[u'] # Nothing /\ units'[u'].port = p
          /\ proc'[u'] # Nothing /\ proc'[u'].port = p /\ proc'[u'].reads = "opening"
      BY <1>3, <1>7, <2>1, <2>2, <2>3
    <2> QED
      BY <2>4 DEF InPlace, Runs, Obeys, u
  <1>8. CASE u # w.unit \/ UnitFileOf(p) = Nothing
    <2>1. units'[u] = units[u] /\ proc'[u] = proc[u]
      BY <1>4, <1>8, StartUnitFacts
    <2>2. CASE InPlace(p, f)
      BY <1>1, <1>2, <1>3, <2>1, <2>2 DEF InPlace, Runs, Obeys
    <2>3. ASSUME NEW i \in 1 .. Len(queue[p]), Awaits(p, f, i) PROVE Pending(p, f)'
      <3>1. CASE i = 1
        <4>1. Comes(p, f)
          BY <1>1, <2>3, <3>1 DEF Awaits
        <4>2. u # w.unit
          BY <1>8, <4>1, StartUnitFacts DEF Comes
        <4>3. f \in w.files
          BY <1>1, <4>1, <4>2 DEF Comes
        <4>4. queue' = queue
              /\ worker'[p] = [pc |-> "match", files |-> w.files, known |-> w.known, info |-> w.info]
          BY <1>1, <1>5, <4>3 DEF Continue, Goto
        <4>5. Comes(p, f)'
          BY <1>3, <2>1, <4>1, <4>3, <4>4 DEF Comes
        <4>6. Awaits(p, f, i)'
          BY <1>3, <2>3, <4>4, <4>5 DEF Awaits
        <4> QED
          BY <4>4, <4>6 DEF Pending
      <3>2. CASE i # 1
        <4>1. i \in 2 .. Len(queue[p]) /\ queue[p][i] = Add(p)
          BY <1>5, <2>3, <3>2 DEF Awaits
        <4> HIDE DEF w
        <4> QED
          BY <1>1, <4>1, ContinueAwaits DEF w
      <3> QED
        BY <3>1, <3>2
    <2> QED
      BY <1>3, <1>6, <2>2, <2>3 DEF Fine, Pending
  <1> QED
    BY <1>7, <1>8

\* After a stop comes the event of the device that is plugged in.
LEMMA ServedStops ==
  ASSUME TypeOK, NEW p \in Port, NEW f \in Name, PortInv(p), Due(p, f)', StopDevice(p)
  PROVE  Pending(p, f)'
  <1>1. plugged' = plugged /\ plugged[p] # Nothing
    BY DEF StopDevice, usb, Due, Wanted
  <1>2. queue[p] \in Seq(Event) /\ queue[p] # <<>> /\ queue[p][1].act = "remove"
        /\ queue'[p] = Tail(queue[p]) /\ worker'[p] = Idle
    BY StopDeviceFacts, Types
  <1>3. 1 \in 1 .. Len(queue[p])
    BY <1>2, TailFacts
  <1>4. PICK j \in 2 .. Len(queue[p]) : queue[p][j] = Add(p)
    BY <1>1, <1>2, <1>3 DEF PortInv, InTurn, Renewed, Add
  <1> QED
    BY <1>1, <1>2, <1>4, TailAwaits

\* A launcher at work for another port leaves the handler in place, or starts a unit
\* that has moved.
LEMMA ServedElsewhere ==
  ASSUME TypeOK, UsbInv, Later, mishap \subseteq mishap', ~mixed',
         NEW p \in Port, NEW f \in Name, Fine(p, f), Due(p, f)',
         NEW q \in Port, q # p, Launcher(q)
  PROVE  InPlace(p, f)' \/ Pending(p, f)'
  <1> DEFINE u == UnitOf(p, f)
  <1>1. queue'[p] = queue[p] /\ worker'[p] = worker[p] /\ PortInv(q) /\ ~mixed
    BY OthersStay DEF UsbInv, Later
  <1>2. UNCHANGED <<plugged, boards, server>>
    BY StartFacts DEF Launcher, Dump, ReadVars, MatchProfile, StopDevice, usb, system
  <1>3. Due(p, f) /\ u' = u /\ Add(p)' = Add(p) /\ <<"moved", u>> \notin mishap'
    BY <1>2, DueStays
  <1>4. u \in Unit
    BY <1>3, DueFacts
  <1>5. CASE Dump(q) \/ ReadVars(q) \/ \E g \in File : MatchProfile(q, g)
    <2>1. UNCHANGED <<units, proc>>
      BY <1>5, ReaderFacts
    <2> QED
      BY <1>1, <1>2, <2>1, ServedSame
  <1>6. CASE StartUnit(q)
    <2>1. CASE u # worker[q].unit \/ UnitFileOf(q) = Nothing
      <3>1. units'[u] = units[u] /\ proc'[u] = proc[u]
        BY <1>1, <1>4, <1>6, <2>1, StartUnitFacts
      <3> QED
        BY <1>1, <1>2, <3>1, ServedSame
    <2>2. CASE u = worker[q].unit /\ UnitFileOf(q) # Nothing
      <3>1. UnitFileOf(q).port = q /\ worker[q].info = queue[q][1]
        BY <1>1, <1>3, <1>6, <2>2, StartIdentity
      <3>2. queue[q][1].port = q
        <4>1. worker[q].pc = "start"
          BY <1>6, StartFacts
        <4>2. queue[q] # <<>> /\ queue[q] \in Seq(Event)
          BY <1>1, <4>1, Types DEF PortInv, AtWork
        <4> QED
          BY <1>1, <4>2, HeadTold DEF PortInv
      <3>3. ~InPlace(p, f)
        <4>1. units[u] # Nothing /\ units[u].port # q => <<"moved", u>> \in mishap'
          BY <1>1, <1>6, <2>2, <3>1, <3>2, StartUnitFacts
        <4> QED
          BY <1>3, <4>1 DEF InPlace
      <3>4. Pending(p, f)
        BY <1>3, <3>3 DEF Fine
      <3>5. units'[u] # Nothing
        BY <1>1, <1>6, <2>2, StartUnitFacts
      <3>6. Comes(p, f) => Comes(p, f)'
        BY <1>1, <1>3, <3>5 DEF Comes
      <3> QED
        BY <1>1, <1>2, <1>3, <3>4, <3>6 DEF Pending, Awaits
    <2> QED
      BY <2>1, <2>2
  <1>7. CASE StopDevice(q)
    <2>1. units' = units /\ proc'[u] = IF units[u] # Nothing /\ units[u].port = q THEN Nothing ELSE proc[u]
      BY <1>1, <1>4, <1>7, StopDeviceFacts
    <2>2. CASE InPlace(p, f)
      <3>1. proc'[u] = proc[u]
        BY <2>1, <2>2 DEF InPlace
      <3> QED
        BY <1>1, <1>2, <2>1, <3>1, ServedSame
    <2>3. CASE Pending(p, f)
      <3>1. Comes(p, f) => Comes(p, f)'
        BY <1>1, <1>3, <2>1 DEF Comes
      <3> QED
        BY <1>1, <1>2, <1>3, <2>3, <3>1 DEF Pending, Awaits
    <2> QED
      BY <1>3, <2>2, <2>3 DEF Fine
  <1> QED
    BY <1>5, <1>6, <1>7 DEF Launcher

\* A deploy or an undeploy of another profile, and what follows it.
LEMMA ServedRequests ==
  ASSUME TypeOK, UsbInv, Undone, Later, mishap \subseteq mishap',
         NEW p \in Port, NEW f \in Name, Fine(p, f), Due(p, f)',
         Backend \/ \E b \in Board : DeployWrite(b) \/ UndeployProfile(b)
  PROVE  InPlace(p, f)' \/ Pending(p, f)'
  <1>1. CASE DeployReload
    <2>1. plugged' = plugged /\ worker' = worker
      BY <1>1 DEF DeployReload, usb
    <2>2. plugged[p] # Nothing /\ Add(p)' = Add(p)
      BY <2>1 DEF Due, Wanted, Add
    <2>3. queue'[p] = Append(queue[p], Add(p))
      BY <1>1, <2>2 DEF DeployReload
    <2> QED
      BY <2>1, <2>2, <2>3, ServedHears DEF UsbInv
  <1>2. CASE DeployRename
    BY <1>2, RenameFacts DEF Pending
  <1>8. CASE RenameFails \/ \E b \in Board : DeployWrite(b)
    <2>1. server.pc \in {"idle", "rename"} /\ UNCHANGED <<plugged, queue, worker, units, proc>>
          /\ boards'[f] = boards[f]
      BY <1>8, TempFacts DEF usb, events
    <2> QED
      BY <2>1, ServedSame
  <1>3. ASSUME NEW b \in Board, UndeployProfile(b) PROVE InPlace(p, f)' \/ Pending(p, f)'
    <2>1. PICK g \in Name : boards'[g] = Nothing /\ \A h \in Name \ {g} : boards'[h] = boards[h]
      BY <1>3, EraseFacts
    <2>2. boards'[f] = boards[f]
      BY <2>1 DEF Due, Wanted, Claims
    <2>3. server.pc = "idle" /\ UNCHANGED <<plugged, queue, worker, units, proc>>
      BY <1>3, EraseFacts DEF usb, events
    <2> QED
      BY <2>2, <2>3, ServedSame
  <1>4. CASE UndeployScan
    <2>1. server.pc = "scan" /\ UNCHANGED <<plugged, queue, worker, units, proc, boards>>
      BY <1>4 DEF UndeployScan, usb, events, system
    <2> QED
      BY <2>1, ServedSame
  <1>5. ASSUME UNCHANGED <<plugged, boards>>
        PROVE  UnitOf(p, f) \in Unit /\ Named(UnitOf(p, f)[1]) /\ UnitOf(p, f)[1] \notin clashed
    <2>1. Due(p, f)
      BY <1>5, DueStays
    <2> QED
      BY <2>1, DueFacts DEF Due, Named, HasName
  <1>6. ASSUME NEW u \in Unit, UndeployStop(u) PROVE InPlace(p, f)' \/ Pending(p, f)'
    <2>1. server.pc = "units" /\ u \in server.left /\ UNCHANGED <<plugged, queue, worker, units, boards>>
      BY <1>6 DEF UndeployStop, usb, events
    <2>2. u # UnitOf(p, f)
      BY <1>5, <2>1 DEF Undone
    <2>3. proc'[UnitOf(p, f)] = proc[UnitOf(p, f)]
      BY <1>5, <1>6, <2>1, <2>2, StopFacts
    <2> QED
      BY <2>1, <2>3, ServedSame
  <1>7. CASE UndeployRm
    <2>1. server.pc = "rm" /\ UNCHANGED <<plugged, queue, worker, proc, boards>>
      BY <1>7 DEF UndeployRm, usb, events
    <2>2. server.unit # UnitOf(p, f)
      BY <1>5, <2>1 DEF Undone
    <2>3. units'[UnitOf(p, f)] = units[UnitOf(p, f)]
      BY <1>5, <1>7, <2>1, <2>2, RemoveFacts
    <2> QED
      BY <2>1, <2>3, ServedSame
  <1> QED
    BY <1>1, <1>2, <1>3, <1>4, <1>6, <1>7, <1>8 DEF Backend

\* What the devices and the handlers do themselves.
LEMMA ServedDevices ==
  ASSUME TypeOK, UsbInv, Files, [Next]_vars, Later, mishap \subseteq mishap',
         NEW p \in Port, ~Launcher(p), ~Reboot, NEW f \in Name, Fine(p, f), Due(p, f)',
         \/ \E q \in Port : Enumerate(q) \/ Unplug(q) \/ \E d \in Device : Plug(q, d)
         \/ \E u \in Unit : HandlerStep(u)
         \/ UNCHANGED vars
  PROVE  InPlace(p, f)' \/ Pending(p, f)'
  <1>1. UNCHANGED <<units, boards, server, worker>>
    <2>1. ASSUME NEW q \in Port, Enumerate(q) \/ Unplug(q) \/ \E d \in Device : Plug(q, d)
          PROVE  UNCHANGED <<units, boards, server, worker>>
      BY <2>1 DEF Enumerate, Plug, Unplug, events, system
    <2>2. ASSUME NEW u \in Unit, HandlerStep(u) PROVE UNCHANGED <<units, boards, server, worker>>
      BY <2>2 DEF HandlerStep, Open, GiveUp, events
    <2>3. UNCHANGED vars => UNCHANGED <<units, boards, server, worker>>
      BY DEF vars, events, system
    <2> QED
      BY <2>1, <2>2, <2>3
  <1>2. CASE queue'[p] = queue[p] /\ plugged'[p] = plugged[p]
    <2>1. PICK u : u = UnitOf(p, f)
      OBVIOUS
    <2>2. /\ Due(p, f) /\ UnitOf(p, f)' = u /\ u \in Unit /\ u[1] = boards[f].name
          /\ boards[f] # Nothing /\ boards[f].name \notin clashed /\ plugged[p] # Nothing
      BY <1>1, <1>2, <2>1, DueStays, DueFacts DEF Due
    <2>3. boards[f].name = f
      BY <2>2 DEF Files
    <2>4. CASE proc'[u] = proc[u]
      BY <1>1, <1>2, <2>1, <2>4, ServedSame
    <2>5. CASE Pending(p, f)
      BY <1>1, <1>2, <2>5, PendingSame
    <2>6. CASE InPlace(p, f) /\ HandlerStep(u)
      <3>1. /\ proc'[u] # Nothing /\ proc'[u].port = p /\ proc'[u].file = proc[u].file
            /\ proc'[u].profile = boards[proc[u].file]
            /\ proc'[u].reads \in {p, "none"} \/ <<"strayed", u>> \in mishap'
        BY <2>1, <2>2, <2>6, HandlerFacts DEF InPlace
      <3>2. proc[u].file \in Name => proc[u].file = f
        BY <2>2, <2>3, <2>6, HandlerFacts DEF Files, Runs
      <3>3. Obeys(u, p, f)'
        BY <1>1, <3>1, <3>2 DEF Obeys
      <3> QED
        BY <1>1, <2>1, <2>2, <2>6, <3>1, <3>3 DEF InPlace, Runs
    <2>7. ASSUME NEW q \in Port, Unplug(q), InPlace(p, f), proc'[u] # proc[u] PROVE InPlace(p, f)'
      <3>1. q # p
        BY <1>2, <2>2, <2>7, Types DEF Unplug
      <3>2. /\ proc'[u] # Nothing /\ proc'[u].port = p /\ proc'[u].file = proc[u].file
            /\ proc'[u].profile = proc[u].profile
            /\ proc'[u].reads = proc[u].reads \/ proc[u].reads = q
        BY <2>1, <2>2, <2>7, UnplugFacts DEF InPlace, Runs
      <3>3. proc[u].reads = q /\ proc[u].file \in Name => <<"strayed", u>> \in mishap
        BY <2>1, <2>7, <3>1, NoPort DEF InPlace, Obeys
      <3>4. proc[u].reads = q => q # "opening"
        BY NoPort
      <3>5. Obeys(u, p, f)'
        BY <1>1, <2>1, <2>7, <3>2, <3>3, <3>4 DEF InPlace, Obeys
      <3> QED
        BY <1>1, <2>1, <2>2, <2>7, <3>2, <3>5 DEF InPlace, Runs
    <2>8. \/ proc'[u] = proc[u] \/ HandlerStep(u) \/ \E q \in Port : Unplug(q)
      <3>1. \A q \in Port : Enumerate(q) \/ (\E d \in Device : Plug(q, d)) => proc' = proc
        BY DEF Enumerate, Plug, system
      <3>2. \A v \in Unit : HandlerStep(v) /\ v # u => proc'[u] = proc[u]
        BY <2>2, HandlerFacts
      <3>3. UNCHANGED vars => proc' = proc
        BY DEF vars, system
      <3> QED
        BY <3>1, <3>2, <3>3
    <2> QED
      BY <2>2, <2>4, <2>5, <2>6, <2>7, <2>8 DEF Fine
  <1>3. ASSUME NEW e, News(e, p, plugged[p], plugged'[p]), queue'[p] = Append(queue[p], e)
        PROVE  Pending(p, f)'
    <2>1. plugged'[p] # Nothing
      BY DEF Due, Wanted
    <2>2. e = Add(p)'
      BY <1>3, <2>1 DEF News, AddOf, Add
    <2> QED
      BY <1>1, <1>3, <2>1, <2>2, ServedHears DEF UsbInv
  <1>4. (queue'[p] = queue[p] /\ plugged'[p] = plugged[p])
        \/ \E e : News(e, p, plugged[p], plugged'[p]) /\ queue'[p] = Append(queue[p], e)
    BY PortCases
  <1> QED
    BY <1>2, <1>3, <1>4

\* Every step keeps the handlers in place, or an event pending that starts them.
LEMMA ServedStep == TypeOK /\ UsbInv /\ Undone /\ ForceInv /\ [Next]_vars => Served'
  <1> SUFFICES ASSUME TypeOK, UsbInv, Undone, ForceInv, [Next]_vars, ~mixed',
                      NEW p \in Port, NEW f \in Name, Due(p, f)'
               PROVE  InPlace(p, f)' \/ Pending(p, f)'
    BY DEF Served, Fine
  <1>1. Later /\ mishap \subseteq mishap' /\ ~mixed /\ PortInv(p) /\ Files
    BY LaterStep, MishapStep DEF Later, UsbInv, ForceInv
  <1>2. Fine(p, f)
    BY <1>1 DEF ForceInv, Served
  <1>3. CASE Launcher(p)
    BY <1>1, <1>2, <1>3, ServedBegins, ServedMatches, ServedStarts, ServedStops DEF Launcher
  <1>4. CASE Reboot
    BY <1>4, ServedReboots
  <1>5. ASSUME NEW q \in Port, q # p, Launcher(q) PROVE InPlace(p, f)' \/ Pending(p, f)'
    BY <1>1, <1>2, <1>5, ServedElsewhere
  <1>6. CASE Backend \/ \E b \in Board : DeployWrite(b) \/ UndeployProfile(b)
    BY <1>1, <1>2, <1>6, ServedRequests
  <1>7. CASE /\ ~Launcher(p) /\ ~Reboot
             /\ \/ \E q \in Port : Enumerate(q) \/ Unplug(q) \/ \E d \in Device : Plug(q, d)
                \/ \E u \in Unit : HandlerStep(u)
                \/ UNCHANGED vars
    BY <1>1, <1>2, <1>7, ServedDevices
  <1>8. User => \/ Reboot \/ \E q \in Port : Unplug(q) \/ \E d \in Device : Plug(q, d)
                \/ \E b \in Board : DeployWrite(b) \/ UndeployProfile(b)
    BY DEF User
  <1> QED
    BY <1>3, <1>4, <1>5, <1>6, <1>7, <1>8 DEF Next, Reaction

-----------------------------------------------------------------------------
(* The inductive invariant *)

\* It holds at the start.
LEMMA InitIInv == Init => IInv
  <1> SUFFICES ASSUME Init PROVE IInv
    OBVIOUS
  <1>1. TypeOK
    BY TypeInit
  <1>2. UsbInv
    BY DEF Init, UsbInv, PortInv, InTurn, Told, Turns, Renewed, AtWork, Matched, Idle
  <1>3. UnitInv
    BY DEF Init, UnitInv, Backed, OwnNode, Tied, OneDevice, Steady, Runs
  <1>4. UndeployInv
    BY DEF Init, UndeployInv, Undone, Covers, Orphans, Runs, Idle
  <1>5. Files
    <2>1. \A f \in Name : Shipped[f] # Nothing => Shipped[f].name = f
      BY TempFile DEF Shipped
    <2> QED
      BY <2>1 DEF Init, Files, Runs, Idle
  <1>6. Served
    BY DEF Init, Served, Fine, Due, Wanted
  <1> QED
    BY <1>1, <1>2, <1>3, <1>4, <1>5, <1>6 DEF IInv, ForceInv

\* Every step keeps it.
LEMMA StepIInv == IInv /\ [Next]_vars => IInv'
  BY TypeStep, UsbStep, UnitStep, UndeployStep, FilesStep, ServedStep
     DEF IInv, UnitInv, UndeployInv, ForceInv

\* So it always holds.
LEMMA SpecIInv == Spec => []IInv
  BY InitIInv, StepIInv, PTL DEF Spec

\* What udev, the event handlers, systemd and the backend keep has its types, for
\* any ports, devices, profiles and names: the unit an event handler comes to has a
\* name, a port or a trusted serial number, and no handler reads what is no node.
THEOREM Typing == Spec => []TypeOK
  <1>1. IInv => TypeOK
    BY DEF IInv
  <1> QED
    BY <1>1, SpecIInv, PTL

\* When everything has settled no handler runs for an empty port (stop_device), but
\* one that was moved away from it or lost its unit file.
THEOREM Stopped == Spec => []StoppedWhenGone
  <1>1. IInv => StoppedWhenGone
    <2> SUFFICES ASSUME IInv, Settled, ~mixed, NEW u \in Unit, proc[u] # Nothing,
                        {<<"moved", u>>, <<"orphaned", u>>} \cap mishap = {}
                 PROVE  plugged[proc[u].port] # Nothing
      BY DEF StoppedWhenGone
    <2>1. proc[u].port \in Port
      BY Types DEF IInv, Handler
    <2>2. Leads(queue[proc[u].port], proc[u].port, plugged[proc[u].port], u[2])
      BY DEF IInv, UnitInv, Tied, Steady, Runs
    <2>3. queue[proc[u].port] = <<>>
      BY <2>1 DEF Settled
    <2> QED
      BY <2>2, <2>3 DEF Leads, Gone
  <1> QED
    BY <1>1, SpecIInv, PTL

\* When everything has settled a handler runs only under the name of a profile: the
\* units that undeploy finds after it has removed the profile are all of them, but
\* those a launcher started late, and names that clashed.
THEOREM Undeployed == Spec => []UndeployIsComplete
  <1>1. IInv => UndeployIsComplete
    BY DEF IInv, UndeployInv, Covers, Runs, Excused, ToStop, Named, UndeployIsComplete, Settled, Idle
  <1> QED
    BY <1>1, SpecIInv, PTL

\* Two handlers of one profile never read the same device, whose output would be
\* doubled, but for one that moved, strayed or lost its unit file.
THEOREM NotDoubled == Spec => []OneReader
  <1>1. IInv => OneReader
    <2> SUFFICES ASSUME IInv, ~mixed, NEW u \in Unit, NEW v \in Unit,
                        u # v, u[1] = v[1], proc[u] # Nothing, proc[v] # Nothing,
                        proc[u].reads \in Port, proc[u].reads = proc[v].reads,
                        \A m \in {"moved", "strayed", "orphaned"}, w \in {u, v} : <<m, w>> \notin mishap
                 PROVE  FALSE
      BY DEF OneReader
    <2>1. proc[u].port = proc[v].port
      BY DEF IInv, UnitInv, OwnNode, Runs
    <2>2. Steady(u) /\ Steady(v)
      BY DEF Steady, Runs
    <2>3. u[2] = v[2]
      BY <2>1, <2>2 DEF IInv, UnitInv, OneDevice
    <2> QED
      BY <2>3 DEF Unit
  <1> QED
    BY <1>1, SpecIInv, PTL

\* When everything has settled every device that is plugged in and has a profile has
\* its handler, which has the profile as it was deployed last and reads the device,
\* whatever the order of plugging, deploying, undeploying and rebooting, but for a
\* mixed-up temp.vars, a device that moved, names that clashed, a unit written for the
\* temporary file of a deploy, and a handler that strayed or found no node.
THEOREM Enforced == Spec => []InForce
  <1>1. IInv => InForce
    <2> SUFFICES ASSUME IInv, Settled, ~mixed, NEW p \in Port, NEW f \in Name, Wanted(p, f),
                        <<"moved", UnitOf(p, f)>> \notin mishap, boards[f].name \notin clashed,
                        ~Astray(p, f)
                 PROVE  Handled(p, f)
      BY DEF InForce, UnitOf
    <2>1. InPlace(p, f) \/ Pending(p, f)
      BY DEF IInv, ForceInv, Served, Fine, Due
    <2>2. ~Pending(p, f)
      BY DEF Settled, Idle, Pending
    <2>3. UnitOf(p, f) \in Unit
      BY <2>1, <2>2, DueFacts DEF IInv, Due
    <2> QED
      BY <2>1, <2>2, <2>3 DEF InPlace, Runs, Obeys, UnitOf, Handled, Astray, Settled
  <1> QED
    BY <1>1, SpecIInv, PTL

=============================================================================
