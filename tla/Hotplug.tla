------------------------------ MODULE Hotplug ------------------------------
(***************************************************************************)
(* From a USB device that is plugged in to the handler that reads it, and  *)
(* from a profile that is deployed or undeployed to the same handler.      *)
(*                                                                         *)
(*   udev        keeps the events of one device in order and runs those of *)
(*               different devices at the same time (external)             *)
(*   event_handler.sh  writes its environment to /tmp/temp.vars, one file  *)
(*               for all events, and becomes the launcher                  *)
(*   launcher    create_json, stop_device (LowLevel/launcher/src/main.cpp) *)
(*   systemd     a unit file, and the process started from it (external)   *)
(*   handler     which input node it opens (resolveNode, runDevice)        *)
(*   backend     deploy and undeploy (backend/src/deploy.cpp); one thread  *)
(*                                                                         *)
(* A profile file, a device name and a unit name keep only what tells them *)
(* apart: the file of a profile is the sanitized name it was first written *)
(* under, a unit is the pair of DevName and identity.  A deploy writes the *)
(* profile to <file>.tmp first; the launcher takes any file whose name has *)
(* ".json" in it, that one too.  A unit that is started twice is the same  *)
(* process restarted.  A dummy profile, which never parses, is left out.   *)
(***************************************************************************)
EXTENDS Naturals, Sequences, FiniteSets

CONSTANTS
  Port,       \* USB ports (DEVPATH)
  Device,     \* physical devices
  Serial,     \* those whose serial number isTrustworthySerial accepts
  Name,       \* values of DEVICE.name, without spaces
  Midi,       \* those of MIDI devices; the other ones are read with evdev
  Sig,        \* values of tags_sig
  Fits,       \* pairs <<d, s>>: the udev variables of d have all tags of s
  Board,      \* profiles the console may deploy: [name, sig]
  Installed,  \* those installed with the program
  Nothing,    \* no device, no file, no process
  MaxActs     \* bound on what users do: plug in, deploy, undeploy, reboot

ASSUME HotplugAssumption ==
  /\ Port \cap (Device \cup {"opening", "none", "dead"}) = {} /\ Nothing \notin Port \cup Device
  /\ Midi \subseteq Name /\ Name \cap (Name \X {"tmp"}) = {}
  /\ Serial \subseteq Device
  /\ Fits \subseteq Device \X Sig
  /\ Board \subseteq [name : Name, sig : Sig] /\ Installed \subseteq Board
  /\ MaxActs \in Nat

VARIABLES
  plugged,  \* plugged[p]: the device in port p
  node,     \* ports whose device has its /dev/input node
  queue,    \* queue[p]: udev events of the device in p, the first in work
  temp,     \* what /tmp/temp.vars holds: an event, or Nothing
  worker,   \* worker[p]: the event handler that udev runs for p
  boards,   \* boards[f]: the profile in file f, deployed or temporary
  units,    \* units[u]: the unit file, [file, port]
  proc,     \* proc[u]: the handler process
  server,   \* the backend's request in progress
  mishap,   \* history: what befell a unit, as pairs <<kind, unit>>: it was
            \* started for a device in another port than its file says
            \* (moved), for a profile that was gone, renamed or not yet deployed
            \* (late), opened another node than its own (strayed), or runs
            \* without unit file (orphaned)
  clashed,  \* history: names of profiles that a deploy or undeploy renamed or
            \* took for one another
  mixed,    \* history: a launcher has read the variables of another event
  acts      \* number of acts so far

system == <<boards, units, proc>>
usb    == <<plugged, node>>
events == <<queue, temp, worker>>
vars   == <<usb, events, system, server, mishap, clashed, mixed, acts>>

Unit      == Name \X (Port \cup Serial)
File      == Name \cup (Name \X {"tmp"})
Temp(f)   == <<f, "tmp">>
Event     == [act : {"add", "remove"}, port : Port, dev : Device \cup {Nothing}]
Profile   == [name : Name, sig : Sig, rev : 0 .. MaxActs]
UnitFile  == [file : File, port : Port]
Handler   == [file : File, port : Port, profile : Profile \cup {Nothing},
              reads : Port \cup {"opening", "none", "dead"}]
Work      == [pc : {"idle", "read", "stop"}]
             \cup [pc : {"match"}, files : SUBSET File, known : SUBSET Unit,
                   info : Event \cup {Nothing}]
             \cup [pc : {"start"}, files : SUBSET File, known : SUBSET Unit,
                   info : Event, file : File, unit : Unit]
Request   == [pc : {"idle", "reload"}]
             \cup [pc : {"rename"}, file : Name, profile : Profile]
             \cup [pc : {"scan"}, name : Name]
             \cup [pc : {"units"}, left : SUBSET Unit]
             \cup [pc : {"rm"}, left : SUBSET Unit, unit : Unit]
Mishap    == {"moved", "late", "strayed", "orphaned"} \X Unit

ASSUME NothingAssumption ==
  Nothing \notin Event /\ Nothing \notin Profile /\ Nothing \notin UnitFile /\ Nothing \notin Handler

Add(p)    == [act |-> "add", port |-> p, dev |-> plugged[p]]
Remove(p) == [act |-> "remove", port |-> p, dev |-> Nothing]

(* deviceIdentity: the serial number if it can be trusted, else the port.  *)
Identity(d, p) == IF d \in Serial THEN d ELSE p

(* A device whose udev variables are v is claimed by a profile.  A remove  *)
(* event and an empty file have no tags.                                   *)
Claims(profile, v) ==
  /\ profile # Nothing /\ v # Nothing
  /\ <<v.dev, profile.sig>> \in Fits

HasName(f, n) == boards[f] # Nothing /\ boards[f].name = n

Deployed(f, n) == f \in Name /\ HasName(f, n)

UnitFor(profile, v) == <<profile.name, Identity(v.dev, v.port)>>

(* runDevice: the handler has neither its profile nor an input node yet.   *)
Started(unitFile) ==
  [file |-> unitFile.file, port |-> unitFile.port, profile |-> Nothing, reads |-> "opening"]

Idle == [pc |-> "idle"]

(* The profiles installed with the program.                                *)
Shipped == [f \in File |->
              IF \E b \in Installed : b.name = f
              THEN [name |-> f, sig |-> (CHOOSE b \in Installed : b.name = f).sig, rev |-> 0]
              ELSE Nothing]

-----------------------------------------------------------------------------
Init ==
  /\ plugged = [p \in Port |-> Nothing] /\ node = {}
  /\ queue = [p \in Port |-> <<>>]
  /\ temp = Nothing
  /\ worker = [p \in Port |-> Idle]
  /\ boards = Shipped
  /\ units = [u \in Unit |-> Nothing]
  /\ proc = [u \in Unit |-> Nothing]
  /\ server = Idle
  /\ mishap = {} /\ clashed = {} /\ mixed = FALSE
  /\ acts = 0

-----------------------------------------------------------------------------
(* The user and the kernel.                                                *)

Act == acts < MaxActs /\ acts' = acts + 1

Plug(p, d) ==
  /\ plugged[p] = Nothing /\ \A q \in Port : plugged[q] # d
  /\ Act
  /\ plugged' = [plugged EXCEPT ![p] = d]
  /\ queue' = [queue EXCEPT ![p] = Append(@, Add(p)')]
  /\ UNCHANGED <<node, temp, worker, system, server, mishap, clashed, mixed>>

(* The input node comes some time after the event of the device.           *)
Enumerate(p) ==
  /\ plugged[p] # Nothing /\ p \notin node
  /\ node' = node \cup {p}
  /\ UNCHANGED <<plugged, events, system, server, mishap, clashed, mixed, acts>>

(* A handler that read the device keeps a dead descriptor.                 *)
Unplug(p) ==
  /\ plugged[p] # Nothing
  /\ plugged' = [plugged EXCEPT ![p] = Nothing]
  /\ node' = node \ {p}
  /\ queue' = [queue EXCEPT ![p] = Append(@, Remove(p))]
  /\ proc' = [u \in Unit |->
                IF proc[u] # Nothing /\ proc[u].reads = p
                THEN [proc[u] EXCEPT !.reads = "dead"] ELSE proc[u]]
  /\ UNCHANGED <<temp, worker, boards, units, server, mishap, clashed, mixed, acts>>

(* Files survive, but /tmp; at boot launcher.service replays the adds.     *)
Reboot ==
  /\ Act
  /\ proc' = [u \in Unit |-> Nothing]
  /\ node' = {p \in Port : plugged[p] # Nothing}
  /\ queue' = [p \in Port |-> IF plugged[p] = Nothing THEN <<>> ELSE <<Add(p)>>]
  /\ temp' = Nothing
  /\ worker' = [p \in Port |-> Idle]
  /\ server' = Idle
  /\ UNCHANGED <<plugged, boards, units, mishap, clashed, mixed>>

-----------------------------------------------------------------------------
(* event_handler.sh and the launcher it becomes.                           *)

Goto(p, w) == worker' = [worker EXCEPT ![p] = w]
Finish(p)  == Goto(p, Idle) /\ queue' = [queue EXCEPT ![p] = Tail(@)]

(* env > /tmp/temp.vars.  A launcher that finds the file empty, because    *)
(* another one is being written, misses its event as it does when it finds *)
(* the other one, so the file changes in one step.                         *)
Dump(p) ==
  /\ worker[p].pc = "idle" /\ queue[p] # <<>>
  /\ temp' = Head(queue[p])
  /\ Goto(p, [pc |-> IF Head(queue[p]).act = "add" THEN "read" ELSE "stop"])
  /\ UNCHANGED <<usb, queue, system, server, mishap, clashed, mixed, acts>>

Misread(p) == mixed' = (mixed \/ temp # Head(queue[p]))

(* The loop over the profiles listed, of which these are left.             *)
Continue(p, files, w) ==
  IF files = {} THEN Finish(p)
  ELSE UNCHANGED queue /\
       Goto(p, [pc |-> "match", files |-> files, known |-> w.known, info |-> w.info])

(* Names with ".json" in them: the profiles, and what a deploy has written *)
(* and not yet renamed, or has left.                                       *)
Listed == {f \in File : boards[f] # Nothing}

(* create_json lists the profiles and the units and reads the variables.   *)
ReadVars(p) ==
  /\ worker[p].pc = "read"
  /\ Continue(p, Listed,
              [known |-> {u \in Unit : units[u] # Nothing}, info |-> temp])
  /\ Misread(p)
  /\ UNCHANGED <<usb, temp, system, server, mishap, clashed, acts>>

(* The next profile of the list, as its file is now.                       *)
MatchProfile(p, f) ==
  LET w == worker[p]
      claimed == Claims(boards[f], w.info)
  IN  /\ w.pc = "match" /\ f \in w.files
      /\ \/ /\ claimed
            /\ Goto(p, [pc |-> "start", files |-> w.files \ {f}, known |-> w.known,
                        info |-> w.info, file |-> f, unit |-> UnitFor(boards[f], w.info)])
            /\ UNCHANGED queue
         \/ ~claimed /\ Continue(p, w.files \ {f}, w)
      /\ UNCHANGED <<usb, temp, system, server, mishap, clashed, mixed, acts>>

(* A unit that was listed is restarted as it is; another one is written    *)
(* first.  A restart of a unit that is gone fails.                         *)
StartUnit(p) ==
  LET w == worker[p]
      u == w.unit
      unitFile == IF u \in w.known THEN units[u] ELSE [file |-> w.file, port |-> w.info.port]
  IN  /\ w.pc = "start"
      /\ units' = [units EXCEPT ![u] = unitFile]
      /\ IF unitFile = Nothing
         THEN UNCHANGED <<proc, mishap>>
         ELSE /\ proc' = [proc EXCEPT ![u] = Started(unitFile)]
              /\ mishap' = mishap
                   \cup {m \in {<<"moved", u>>} : units[u] # Nothing /\ units[u].port # w.info.port}
                   \cup {m \in {<<"late", u>>} : ~Deployed(unitFile.file, u[1])}
      /\ Continue(p, w.files, w)
      /\ UNCHANGED <<usb, temp, boards, server, clashed, mixed, acts>>

(* stop_device: every unit that was written with this -d.                  *)
\* Mutant: the port is not looked at.
BoundAllMutant(v) == {u \in Unit : v # Nothing /\ units[u] # Nothing}

\* Mutant: the unit is found by its name, so only one named after its port.
BoundNameMutant(v) == {u \in Unit : v # Nothing /\ units[u] # Nothing /\ u[2] = v.port}

Bound(v) == {u \in Unit : v # Nothing /\ units[u] # Nothing /\ units[u].port = v.port}

StopDevice(p) ==
  /\ worker[p].pc = "stop"
  /\ proc' = [u \in Unit |-> IF u \in Bound(temp) THEN Nothing ELSE proc[u]]
  /\ Misread(p)
  /\ Finish(p)
  /\ UNCHANGED <<usb, temp, boards, units, server, mishap, clashed, acts>>

-----------------------------------------------------------------------------
(* A handler reads its profile and looks for its node: the one under its   *)
(* port, else one whose name the profile declares, else any of its class.  *)
(* One for MIDI devices opens none but by name; it tries again if there is *)
(* none, and reads the profile again.  What it finds at last it keeps.     *)

NodesNamed(profile) ==
  {q \in node : profile # Nothing /\ <<plugged[q], profile.sig>> \in Fits}

\* Mutant: there is no test that the node is there.
ResolveMutant(u) == {Nothing}

Resolve(u) ==
  LET named == NodesNamed(boards[proc[u].file])
      all   == IF u[1] \in Midi THEN named ELSE node
  IN  IF proc[u].port \in all THEN {proc[u].port} ELSE IF named # {} THEN named ELSE all

Opening(u) == proc[u] # Nothing /\ proc[u].reads = "opening"

Opened(u, reads) ==
  proc' = [proc EXCEPT ![u].profile = boards[proc[u].file], ![u].reads = reads]

Open(u) ==
  /\ Opening(u)
  /\ \E q \in Resolve(u) :
       /\ Opened(u, q)
       /\ mishap' = mishap \cup {m \in {<<"strayed", u>>} : q # proc[u].port}
  /\ UNCHANGED <<usb, events, boards, units, server, clashed, mixed, acts>>

(* There is none, and kOpenRetries of a MIDI handler are used up: the      *)
(* process stays, and reads nothing.                                       *)
GiveUp(u) ==
  /\ Opening(u) /\ Resolve(u) = {}
  /\ Opened(u, "none")
  /\ UNCHANGED <<usb, events, boards, units, server, mishap, clashed, mixed, acts>>

-----------------------------------------------------------------------------
(* The backend.                                                            *)

(* The file with this signature, else the one named after the device.      *)
FileOf(b) ==
  LET same == {f \in Name : boards[f] # Nothing /\ boards[f].sig = b.sig}
  IN  IF same # {} THEN same ELSE {b.name}

(* The profile in f has another name than b, or one in another file has    *)
(* the same: the names whose units no longer tell whose they are.          *)
Clashes(f, b) ==
  {n \in Name : \E m \in Name : n \in {m, b.name} /\ m # b.name /\ HasName(f, m)}
    \cup {n \in {b.name} : \E g \in Name \ {f} : HasName(g, n)}

(* A text that no file and no handler has, so that it is told from them.   *)
Unused ==
  {r \in 0 .. MaxActs :
     /\ \A f \in File : boards[f] # Nothing => boards[f].rev # r
     /\ \A u \in Unit : proc[u] # Nothing /\ proc[u].profile # Nothing => proc[u].profile.rev # r}

(* The profile is written to the temporary file, and the file is renamed   *)
(* or, if that fails, removed.  A file that is not yet complete does not   *)
(* parse, so a launcher skips it as if it was not there.                   *)
DeployWrite(b) ==
  /\ server.pc = "idle" /\ Unused # {} /\ Act
  /\ \E f \in FileOf(b) :
       LET profile == [name |-> b.name, sig |-> b.sig, rev |-> CHOOSE r \in Unused : TRUE]
       IN  /\ boards' = [boards EXCEPT ![Temp(f)] = profile]
           /\ server' = [pc |-> "rename", file |-> f, profile |-> profile]
  /\ UNCHANGED <<usb, events, units, proc, mishap, clashed, mixed>>

DeployRename ==
  /\ server.pc = "rename"
  /\ boards' = [boards EXCEPT ![server.file] = server.profile, ![Temp(server.file)] = Nothing]
  /\ clashed' = clashed \cup Clashes(server.file, server.profile)
  /\ server' = [pc |-> "reload"]
  /\ UNCHANGED <<usb, events, units, proc, mishap, mixed, acts>>

RenameFails ==
  /\ server.pc = "rename"
  /\ boards' = [boards EXCEPT ![Temp(server.file)] = Nothing]
  /\ server' = Idle
  /\ UNCHANGED <<usb, events, units, proc, mishap, clashed, mixed, acts>>

(* udevadm trigger --action=add: every device that is plugged in.          *)
\* Mutant: deploy writes the profile only.
DeployReloadMutant ==
  /\ server.pc = "reload"
  /\ server' = Idle
  /\ UNCHANGED <<usb, events, system, mishap, clashed, mixed, acts>>

DeployReload ==
  /\ server.pc = "reload"
  /\ queue' = [p \in Port |-> IF plugged[p] = Nothing THEN queue[p] ELSE Append(queue[p], Add(p))]
  /\ server' = Idle
  /\ UNCHANGED <<usb, temp, worker, system, mishap, clashed, mixed, acts>>

UndeployProfile(b) ==
  /\ server.pc = "idle" /\ Act
  /\ \E f \in FileOf(b) :
       /\ boards' = [boards EXCEPT ![f] = Nothing]
       /\ clashed' = clashed \cup Clashes(f, b)
  /\ server' = [pc |-> "scan", name |-> b.name]
  /\ UNCHANGED <<usb, events, units, proc, mishap, mixed>>

(* "<base>-<id>.service" for any id; names with a dash are left out.       *)
\* Mutant: only units named after a serial number.
CoveredMutant(base) == {u \in Unit : u[1] = base /\ u[2] \in Serial}

Covered(base) == {u \in Unit : u[1] = base}

Removing(left) == server' = IF left = {} THEN Idle ELSE [pc |-> "units", left |-> left]

UndeployScan ==
  /\ server.pc = "scan"
  /\ Removing({u \in Covered(server.name) : units[u] # Nothing})
  /\ UNCHANGED <<usb, events, system, mishap, clashed, mixed, acts>>

UndeployStop(u) ==
  /\ server.pc = "units" /\ u \in server.left
  /\ proc' = [proc EXCEPT ![u] = Nothing]
  /\ server' = [pc |-> "rm", left |-> server.left \ {u}, unit |-> u]
  /\ UNCHANGED <<usb, events, boards, units, mishap, clashed, mixed, acts>>

UndeployRm ==
  /\ server.pc = "rm"
  /\ units' = [units EXCEPT ![server.unit] = Nothing]
  /\ mishap' = mishap \cup {m \in {<<"orphaned", server.unit>>} : proc[server.unit] # Nothing}
  /\ Removing(server.left)
  /\ UNCHANGED <<usb, events, boards, proc, clashed, mixed, acts>>

-----------------------------------------------------------------------------
Launcher(p) ==
  \/ Dump(p) \/ ReadVars(p)
  \/ \E f \in File : MatchProfile(p, f)
  \/ StartUnit(p) \/ StopDevice(p)

HandlerStep(u) == Open(u) \/ GiveUp(u)

Backend ==
  \/ DeployRename \/ RenameFails \/ DeployReload \/ UndeployScan \/ UndeployRm
  \/ \E u \in Unit : UndeployStop(u)

User ==
  \/ \E p \in Port : Unplug(p) \/ \E d \in Device : Plug(p, d)
  \/ \E b \in Board : DeployWrite(b) \/ UndeployProfile(b)
  \/ Reboot

Reaction ==
  \/ \E p \in Port : Enumerate(p) \/ Launcher(p)
  \/ \E u \in Unit : HandlerStep(u)
  \/ Backend

Next == User \/ Reaction

Spec == Init /\ [][Next]_vars

(* The kernel, the launchers, the handlers and the backend do not stop     *)
(* while one of them has a step to take.                                   *)
FairSpec == Spec /\ WF_vars(Reaction)

-----------------------------------------------------------------------------
TypeOK ==
  /\ plugged \in [Port -> Device \cup {Nothing}] /\ node \subseteq Port
  /\ queue \in [Port -> Seq(Event)]
  /\ temp \in Event \cup {Nothing}
  /\ worker \in [Port -> Work] /\ server \in Request
  /\ boards \in [File -> Profile \cup {Nothing}]
  /\ units \in [Unit -> UnitFile \cup {Nothing}]
  /\ proc \in [Unit -> Handler \cup {Nothing}]
  /\ mishap \subseteq Mishap /\ clashed \subseteq Name /\ mixed \in BOOLEAN
  /\ acts \in 0 .. MaxActs

(* No event and no request is in work, and every handler has opened.       *)
Settled ==
  /\ \A p \in Port : queue[p] = <<>>
  /\ server = Idle
  /\ \A u \in Unit : proc[u] # Nothing => proc[u].reads # "opening"

(* The device in p is one that the profile in file f is for.               *)
Wanted(p, f) == plugged[p] # Nothing /\ Claims(boards[f], Add(p))

(* Its handler runs with the profile as it is now, and reads the device,   *)
(* or found no node when it started, or another one than its own.          *)
Handled(p, f) ==
  LET u == UnitFor(boards[f], Add(p))
  IN  /\ proc[u] # Nothing /\ proc[u].profile = boards[f]
      /\ proc[u].reads \in {p, "none"} \/ <<"strayed", u>> \in mishap

(* Its unit was written for the temporary file of a deploy.                *)
Astray(p, f) ==
  LET u == UnitFor(boards[f], Add(p))
  IN  proc[u] # Nothing /\ proc[u].file \notin Name

(* When everything has settled, every device that is plugged in and has a  *)
(* profile has its handler, running with the profile as it was deployed    *)
(* last: no order of plugging, deploying, undeploying and rebooting leaves *)
(* one out, but a mixed-up temp.vars, a device that moved, a name that a   *)
(* deploy renamed or gave twice, or a launcher that took the profile from  *)
(* the temporary file of a deploy.                                         *)
InForce ==
  Settled /\ ~mixed =>
    \A p \in Port, f \in Name :
      Wanted(p, f) => \/ Handled(p, f) \/ Astray(p, f)
                      \/ <<"moved", UnitFor(boards[f], Add(p))>> \in mishap
                      \/ boards[f].name \in clashed

(* When everything has settled, no handler runs for a port that is empty,  *)
(* but one that was moved away from it or lost its unit file.              *)
StoppedWhenGone ==
  Settled /\ ~mixed =>
    \A u \in Unit :
      proc[u] # Nothing => \/ plugged[proc[u].port] # Nothing
                           \/ {<<"moved", u>>, <<"orphaned", u>>} \cap mishap # {}

(* When everything has settled, a handler runs only under a name that some *)
(* profile has: undeploy, which removes the profile before it looks for    *)
(* units, misses none but those that were started at the same time by a    *)
(* launcher that had read the profile before, or took it from a temporary  *)
(* file (they are late), and those of names that a deploy or an undeploy   *)
(* renamed or took for one another.                                        *)
UndeployIsComplete ==
  Settled =>
    \A u \in Unit :
      proc[u] # Nothing => \/ \E f \in Name : HasName(f, u[1])
                           \/ <<"late", u>> \in mishap \/ u[1] \in clashed

(* Two handlers of one profile never read the same device, so no output is *)
(* doubled, unless one of them took another node while its own was not     *)
(* there, is bound to a port its device has left, or lost its unit file.   *)
OneReader ==
  ~mixed => \A u, v \in Unit :
    /\ u # v /\ u[1] = v[1] /\ proc[u] # Nothing /\ proc[v] # Nothing
    /\ proc[u].reads \in Port /\ proc[u].reads = proc[v].reads
    => \E m \in {"moved", "strayed", "orphaned"}, w \in {u, v} : <<m, w>> \in mishap

(* Again and again all of it catches up: the events and the requests come  *)
(* to an end and every device with a profile has its handler.              *)
CatchesUp == []<>(Settled /\ InForce)

(* What stop_device says: a controller with a serial number that is moved  *)
(* to another port has its handler there.                                  *)
MoveWorks ==
  Settled /\ ~mixed =>
    \A p \in Port, f \in Name :
      Wanted(p, f) => /\ Handled(p, f)
                      /\ proc[UnitFor(boards[f], Add(p))].port = p

=============================================================================
