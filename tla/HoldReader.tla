----------------------------- MODULE HoldReader -----------------------------
(***************************************************************************)
(* The reader thread of a keyboard, mouse or joystick handler: key events  *)
(* from the kernel, the rules of the current mode, and the hold events     *)
(* that holdGen makes of a key that stays down                             *)
(* (LowLevel/Common/src/evdevDevice.cpp, holdGen.cpp, evMatch.cpp).        *)
(*                                                                         *)
(* Time counts in ticks of poll's timeout; only ages are kept, up to the   *)
(* longest delay of a rule.  What a rule puts out is the engine's          *)
(* (DeviceEngine); here it is only seen that the rule matched.  Axes have  *)
(* no state and are left out.                                              *)
(***************************************************************************)
EXTENDS Naturals, Sequences, FiniteSets, FiniteSetsExt

CONSTANTS
  Key,      \* codes of keys and buttons
  ModeId,   \* indices of modes
  First,    \* the mode that is active in the profile
  Rules,    \* Rules[m]: the rules of mode m, [key, on, ms, to]; to is the mode
            \* the rule changes to, or None
  Longest,  \* the longest ms of a rule
  None,
  Repeating,\* keys the kernel repeats; it does not repeat the buttons of a joystick
  MaxQueue  \* size of the kernel's buffer for the reader

On == {"press", "release", "hold", "once"}

ASSUME HoldReaderAssumption ==
  /\ First \in ModeId /\ None \notin ModeId \cup Nat /\ None \notin Key
  /\ Longest \in Nat /\ MaxQueue \in Nat \ {0, 1}
  /\ \A m \in ModeId :
       Rules[m] \in Seq([key : Key, on : On, ms : 0 .. Longest, to : ModeId \cup {None}])

VARIABLES
  held,    \* keys that are down
  queue,   \* the kernel's buffer: events [key, value]
  present, \* the device is plugged in
  lossy,   \* history: the buffer has overflowed, or the device went away
  pc,      \* where the reader is
  batch,   \* what is left of the events it read
  event,   \* the event that runRules works on
  at,      \* runRules: the position in the rules
  holdAt,  \* serviceHolds: the position in the rules
  mode,    \* CurrentMode
  room,    \* capacity of the vector CurrentMode.body_actions
  state,   \* holdState[k], in ages, not times; no entry is like a key that is up
  late,    \* time since the reader read its clock
  fired,   \* history: the rule that has just matched, or None
  since,   \* history: age of the press of a key, and whether it may hold
  once,    \* history: matches of hold_once rules since the press, up to 2
  skewed   \* history: keys with a hold event that went on in another mode

kernel  == <<held, queue, present, lossy>>
loop    == <<batch, event, at, holdAt>>
engine  == <<mode, room>>
history == <<fired, since, once, skewed>>
vars    == <<kernel, pc, loop, engine, state, late, history>>

Value == 0 .. 2     \* released, pressed, autorepeat or hold
Event == [key : Key, value : Value] \cup {[key |-> None, value |-> 0]}
Dropped == [key |-> None, value |-> 0]        \* SYN_DROPPED
Age   == 0 .. Longest
State == [down : BOOLEAN, downSince : Age, lastFire : Age, firedOnce : BOOLEAN]

(* Nothing but the next press looks at the ages of a key that is up.       *)
Up      == [down |-> FALSE, downSince |-> 0, lastFire |-> 0, firedOnce |-> FALSE]
\* Mutant: press leaves firedOnce as the press before left it.
PressedMutant == [Up EXCEPT !.down = TRUE, !.firedOnce = TRUE]
Pressed == [Up EXCEPT !.down = TRUE]

\* Mutant: the difference of the two times is taken the wrong way round.
LaterMutant(age, t) == age - t
Later(age, t) == IF age + t > Longest THEN Longest ELSE age + t

Current == Rules[mode]

HoldRule(r) == r.on \in {"hold", "once"}

(* holdgen::due                                                            *)
Due(r, s) ==
  /\ s.down
  /\ \/ r.on = "hold" /\ s.lastFire >= r.ms
     \/ r.on = "once" /\ ~s.firedOnce /\ s.downSince >= r.ms

Wanted(e) == e # Dropped /\ e.value # 2

(* in_func passes over packet boundaries and the kernel's autorepeat.      *)
NextWanted(events) ==
  LET wanted == {i \in DOMAIN events : Wanted(events[i])}
  IN  IF wanted = {} THEN <<>> ELSE SubSeq(events, Min(wanted), Len(events))

(* What serviceHolds has not come to yet.                                  *)
DueHolds ==
  {i \in holdAt .. Len(Current) :
     HoldRule(Current[i]) /\ Due(Current[i], state[Current[i].key])}

Init ==
  /\ held = {} /\ queue = <<>> /\ present = TRUE /\ lossy = FALSE
  /\ pc = "loop" /\ batch = <<>> /\ event = Dropped /\ at = 1 /\ holdAt = 1
  /\ mode = First /\ room = Len(Rules[First])
  /\ state = [k \in Key |-> Up]
  /\ late = 0
  /\ fired = None /\ skewed = {}
  /\ since = [k \in Key |-> None] /\ once = [k \in Key |-> 0]

-----------------------------------------------------------------------------
(* The kernel.  A full buffer is emptied but for the newest event.         *)

Emit(e) ==
  /\ present
  /\ queue' = IF Len(queue) < MaxQueue THEN Append(queue, e) ELSE <<Dropped, e>>
  /\ lossy' = (lossy \/ Len(queue) = MaxQueue)
  /\ UNCHANGED <<present, pc, loop, engine, state, late, history>>

PressKey(k)   == k \notin held /\ held' = held \cup {k} /\ Emit([key |-> k, value |-> 1])
Autorepeat(k) == k \in held \cap Repeating /\ UNCHANGED held /\ Emit([key |-> k, value |-> 2])
ReleaseKey(k) == k \in held /\ held' = held \ {k} /\ Emit([key |-> k, value |-> 0])

(* The buffer of a device that went away cannot be read.                   *)
GoAway ==
  /\ present
  /\ present' = FALSE /\ lossy' = TRUE /\ queue' = <<>> /\ held' = {}
  /\ UNCHANGED <<pc, loop, engine, state, late, history>>

Tick ==
  /\ late < Longest
  /\ late' = late + 1
  /\ UNCHANGED <<kernel, pc, loop, engine, state, history>>

-----------------------------------------------------------------------------
(* in_func: poll and read, when the loop is through.  Without events poll  *)
(* waits for its timeout; at a device that went away it returns at once.   *)

Grown(s) == IF s.down THEN [s EXCEPT !.downSince = Later(@, late), !.lastFire = Later(@, late)]
            ELSE s

Poll ==
  /\ pc = "loop" /\ batch = <<>> /\ DueHolds = {}
  /\ queue # <<>> \/ late > 0 \/ ~present
  /\ state' = [k \in Key |-> Grown(state[k])]
  /\ since' = [k \in Key |-> IF since[k] = None THEN None ELSE Later(since[k], late)]
  /\ late' = 0
  /\ batch' = NextWanted(queue) /\ queue' = <<>>
  /\ holdAt' = 1
  /\ UNCHANGED <<held, present, lossy, pc, event, at, engine, fired, once, skewed>>

(* hasHoldRule                                                             *)
HasHoldRule(k) == \E i \in DOMAIN Current : Current[i].key = k /\ HoldRule(Current[i])

(* processEvent, up to runRules.                                           *)
\* Mutant: a release is not tracked.
TrackedMutant(e) ==
  IF e.value = 1 /\ HasHoldRule(e.key) THEN [state EXCEPT ![e.key] = Pressed] ELSE state
Tracked(e) ==
  IF e.value = 1 /\ HasHoldRule(e.key) THEN [state EXCEPT ![e.key] = Pressed]
  ELSE IF e.value = 0 THEN [state EXCEPT ![e.key] = Up]
  ELSE state

ProcessEvent ==
  LET e == Head(batch)
  IN  /\ pc = "loop" /\ batch # <<>>
      /\ batch' = NextWanted(Tail(batch))
      /\ state' = Tracked(e)
      /\ event' = e /\ at' = 1 /\ pc' = "rules"
      /\ since' = [since EXCEPT ![e.key] = IF e.value = 1 THEN 0 ELSE None]
      /\ once' = [once EXCEPT ![e.key] = 0]
      /\ skewed' = skewed \ {e.key}
      /\ UNCHANGED <<kernel, holdAt, engine, late, fired>>

-----------------------------------------------------------------------------
(* runRules, for an event of the device or a hold event; from match to     *)
(* match.                                                                  *)

Matches(r, e) ==
  /\ r.key = e.key
  /\ \/ r.on = "press" /\ e.value = 1
     \/ r.on = "release" /\ e.value = 0
     \/ HoldRule(r) /\ e.value = 2

Matching == {i \in at .. Len(Current) : Matches(Current[i], event)}

Fire(r) ==
  /\ fired' = r
  /\ once' = IF r.on = "once" /\ once[r.key] < 2 THEN [once EXCEPT ![r.key] = @ + 1] ELSE once

RunRule ==
  LET i == Min(Matching)
  IN  /\ pc = "rules" /\ Matching # {}
      /\ Current[i].to = None
      /\ Fire(Current[i])
      /\ at' = i + 1
      /\ UNCHANGED <<kernel, pc, batch, event, holdAt, engine, state, late, since, skewed>>

(* changeMode assigns the rules of the new mode to the vector the loops    *)
(* run over.  While they fit, the loop goes on at the next position, with  *)
(* the new rules; if not, or if that is past their end, anything happens:  *)
(* here the loop ends, or the process.                                     *)
ChangeMode ==
  LET i == Min(Matching)
      r == Current[i]
      new == Len(Rules[r.to])
      Past(position) == new > room \/ position > new
  IN  /\ pc = "rules" /\ Matching # {}
      /\ r.to # None
      /\ Fire(r)
      /\ mode' = r.to /\ room' = Max({room, new})
      /\ \/ ~Past(i) /\ at' = i + 1 /\ pc' = pc
         \/ Past(i) /\ at' = new + 1 /\ pc' \in {pc, "crashed"}
      /\ holdAt' = IF event.value = 2 /\ Past(holdAt - 1) THEN new + 1 ELSE holdAt
      /\ skewed' = IF event.value = 2 THEN skewed \cup {event.key} ELSE skewed
      /\ UNCHANGED <<kernel, batch, event, state, late, since>>

RulesDone ==
  /\ pc = "rules" /\ Matching = {}
  /\ pc' = "loop" /\ event' = Dropped /\ at' = 1 /\ fired' = None
  /\ UNCHANGED <<kernel, batch, holdAt, engine, state, late, since, once, skewed>>

-----------------------------------------------------------------------------
(* serviceHolds, after the events: the next rule whose hold is due.        *)

\* Mutant: due does not remember that a hold_once has fired.
AfterDueMutant(r, s) == IF r.on = "hold" THEN [s EXCEPT !.lastFire = 0] ELSE s
AfterDue(r, s) ==
  IF r.on = "hold" THEN [s EXCEPT !.lastFire = 0] ELSE [s EXCEPT !.firedOnce = TRUE]

ServiceHold ==
  LET i == Min(DueHolds)
      r == Current[i]
  IN  /\ pc = "loop" /\ batch = <<>> /\ DueHolds # {}
      /\ state' = [state EXCEPT ![r.key] = AfterDue(r, @)]
      /\ event' = [key |-> r.key, value |-> 2] /\ at' = 1 /\ pc' = "rules"
      /\ holdAt' = i + 1
      /\ UNCHANGED <<kernel, batch, engine, late, history>>

-----------------------------------------------------------------------------
Reader == Poll \/ ProcessEvent \/ RunRule \/ ChangeMode \/ RulesDone \/ ServiceHold

Next ==
  \/ \E k \in Key : PressKey(k) \/ Autorepeat(k) \/ ReleaseKey(k)
  \/ GoAway \/ Tick
  \/ Reader

Spec     == Init /\ [][Next]_vars
FairSpec == Spec /\ WF_vars(Tick) /\ WF_vars(Reader)

-----------------------------------------------------------------------------
(* Properties *)

\* The values each variable ranges over; a key that is up keeps no ages.
TypeOK ==
  /\ held \subseteq Key /\ present \in BOOLEAN /\ lossy \in BOOLEAN
  /\ queue \in Seq(Event) /\ Len(queue) <= MaxQueue /\ batch \in Seq(Event)
  /\ pc \in {"loop", "rules", "crashed"}
  /\ event \in Event /\ mode \in ModeId /\ at \in Nat \ {0} /\ holdAt \in Nat \ {0} /\ room \in Nat
  /\ state \in [Key -> State] /\ (\A k \in Key : state[k].down \/ state[k] = Up)
  /\ late \in Age /\ since \in [Key -> Age \cup {None}] /\ once \in [Key -> 0 .. 2]
  /\ skewed \subseteq Key

\* In no mode has the key two hold rules: they would share one State, and the
\* hold event of either would match both.
Alone(k) ==
  \A m \in ModeId : Cardinality({i \in DOMAIN Rules[m] : Rules[m][i].key = k /\ HoldRule(Rules[m][i])}) <= 1

\* hold_once matches once between a press and its release, through changes of
\* mode, lost releases and an unplugged device; but for a hold event that went
\* on in the rules of another mode.
OncePerPress == \A k \in Key : Alone(k) /\ k \notin skewed => once[k] <= 1

Holding == fired # None /\ HoldRule(fired)

IsRelease(k, e) == e.key = k /\ e.value = 0

\* A hold rule matches only while the key is down, or its release has not been
\* read yet: holds are served after the events of the same read.  And not before
\* the key has been down for the rule's delay, though the state was made in
\* another mode, and though the kernel repeats the key much faster.
InTime ==
  (Holding /\ ~lossy) =>
    LET k == fired.key
    IN  /\ k \in held \/ \E i \in DOMAIN queue : IsRelease(k, queue[i])
        /\ (Alone(k) /\ k \notin skewed) => since[k] # None /\ since[k] >= fired.ms

\* A key that stays down, in modes that have a hold rule for it, has one match:
\* neither other keys nor changes of mode put it off for ever.
HoldFires ==
  \A k \in Key :
    (state[k].down /\ HasHoldRule(k) /\ once[k] = 0)
      ~> (\/ fired # None /\ fired.key = k /\ HoldRule(fired)
          \/ ~state[k].down \/ ~HasHoldRule(k)
          \/ lossy \/ pc = "crashed")
=============================================================================
