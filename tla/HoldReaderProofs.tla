-------------------------- MODULE HoldReaderProofs --------------------------
(***************************************************************************)
(* Proofs about HoldReader, for every set of keys, profile, delay and size *)
(* of the kernel's buffer: hold_once matches once per press, and a hold    *)
(* rule matches neither before its delay nor after the release was read.   *)
(***************************************************************************)
EXTENDS HoldReader, FiniteSetTheorems, WellFoundedInduction, TLAPS

\* What in_func has in hand next is an event for processEvent.
BatchWanted == batch # <<>> => Wanted(batch[1])

\* A key that is alone in its hold rule and has gone on in no other mode.
Plain(k) == Alone(k) /\ k \notin skewed

\* While a press may still bring a match of hold_once, it has brought none.
Unfired == \A k \in Key : Plain(k) /\ state[k].down /\ ~state[k].firedOnce => once[k] = 0

\* A hold event that has still to meet a hold_once rule: due has noted it, and no
\* rule has matched.
Noted ==
  (pc = "rules" /\ event.value = 2 /\ Plain(event.key)) =>
    \A i \in at .. Len(Current) :
      Matches(Current[i], event) /\ Current[i].on = "once"
        => state[event.key].firedOnce /\ once[event.key] = 0

TypeInv == TypeOK /\ BatchWanted

IInv == TypeInv /\ Unfired /\ Noted /\ OncePerPress

-----------------------------------------------------------------------------
\* A set of numbers has a smallest (the first event, the first rule that matches).
LEMMA MinIsLeast ==
  ASSUME NEW S \in SUBSET Nat, S # {}
  PROVE  Min(S) \in S /\ \A y \in S : Min(S) <= y
  <1> DEFINE R == OpToRel(<, Nat)
  <1>1. IsWellFoundedOn(R, Nat)
    BY NatLessThanWellFounded
  <1>2. \A x, y \in Nat : <<y, x>> \in R <=> y < x
    BY DEF OpToRel
  <1> HIDE DEF R
  <1>3. \E x \in S : \A y \in S : ~(<<y, x>> \in R)
    BY <1>1, WFMin
  <1>4. PICK x \in S : \A y \in S : ~(<<y, x>> \in R)
    BY <1>3
  <1>5. \A y \in S : x <= y
    <2> TAKE y \in S
    <2>1. x \in Nat /\ y \in Nat /\ ~(<<y, x>> \in R)
      BY <1>4
    <2>2. ~(y < x)
      BY <1>2, <2>1
    <2> QED
      BY <2>1, <2>2
  <1> QED
    BY <1>5 DEF Min

\* The capacity of a vector that may grow.
LEMMA MaxOfTwo ==
  ASSUME NEW a \in Nat, NEW b \in Nat
  PROVE  Max({a, b}) \in Nat
  <1>1. \E m \in {a, b} : \A y \in {a, b} : m >= y
    OBVIOUS
  <1>2. Max({a, b}) \in {a, b}
    BY <1>1 DEF Max
  <1> QED
    BY <1>2

\* A rule of the mode that is active.
LEMMA RuleType ==
  ASSUME mode \in ModeId
  PROVE  /\ Len(Current) \in Nat /\ DOMAIN Current = 1 .. Len(Current)
         /\ \A i \in DOMAIN Current :
              Current[i] \in [key : Key, on : On, ms : 0 .. Longest, to : ModeId \cup {None}]
  <1> DEFINE Rule == [key : Key, on : On, ms : 0 .. Longest, to : ModeId \cup {None}]
  <1>1. Rules[mode] \in Seq(Rule)
    BY HoldReaderAssumption
  <1> HIDE DEF Rule
  <1>2. Len(Current) \in Nat /\ DOMAIN Current = 1 .. Len(Current)
        /\ \A i \in DOMAIN Current : Current[i] \in Rule
    BY <1>1 DEF Current
  <1> QED
    BY <1>2 DEF Rule

\* What NextWanted leaves out is not looked at; what it leaves begins with an event
\* for processEvent.
LEMMA NextWantedType ==
  ASSUME NEW es \in Seq(Event)
  PROVE  /\ NextWanted(es) \in Seq(Event)
         /\ NextWanted(es) # <<>> => Wanted(NextWanted(es)[1])
  <1> DEFINE wanted == {i \in DOMAIN es : Wanted(es[i])}
             m == Min(wanted)
  <1>1. CASE wanted = {}
    BY <1>1 DEF NextWanted
  <1>2. CASE wanted # {}
    <2>1. m \in wanted
      <3>1. wanted \in SUBSET Nat
        OBVIOUS
      <3> HIDE DEF wanted
      <3> QED
        BY <1>2, <3>1, MinIsLeast
    <2>2. m \in 1 .. Len(es) /\ Wanted(es[m])
      BY <2>1
    <2>3. NextWanted(es) = SubSeq(es, m, Len(es))
      BY <1>2 DEF NextWanted
    <2> HIDE DEF m
    <2>4. SubSeq(es, m, Len(es)) \in Seq(Event) /\ SubSeq(es, m, Len(es))[1] = es[m]
      BY <2>2
    <2> QED
      BY <2>2, <2>3, <2>4
  <1> QED
    BY <1>1, <1>2

\* An event for processEvent is one of a key, and no hold event.
LEMMA WantedType ==
  ASSUME NEW e \in Event, Wanted(e)
  PROVE  e \in [key : Key, value : Value] /\ e.value # 2 /\ e.key \in Key
  BY DEF Event, Wanted, Dropped

\* A key that is alone has one hold rule in a mode.
LEMMA OneHoldRule ==
  ASSUME NEW k \in Key, Alone(k), mode \in ModeId,
         NEW i \in DOMAIN Current, NEW j \in DOMAIN Current,
         Current[i].key = k, HoldRule(Current[i]), Current[j].key = k, HoldRule(Current[j])
  PROVE  i = j
  <1> DEFINE S == {n \in DOMAIN Current : Current[n].key = k /\ HoldRule(Current[n])}
  <1>1. Cardinality(S) <= 1
    BY DEF Alone, Current
  <1>2. IsFiniteSet(S)
    <2>1. IsFiniteSet(1 .. Len(Current)) /\ S \in SUBSET (1 .. Len(Current))
      BY RuleType, FS_Interval
    <2> QED
      BY <2>1, FS_Subset
  <1>3. {i, j} \in SUBSET S
    OBVIOUS
  <1>4. Cardinality({i, j}) <= 1
    <2>1. Cardinality({i, j}) <= Cardinality(S) /\ Cardinality({i, j}) \in Nat /\ Cardinality(S) \in Nat
      BY <1>2, <1>3, FS_Subset, FS_CardinalityType
    <2> QED
      BY <1>1, <2>1
  <1>5. ASSUME i # j PROVE FALSE
    <2>1. IsFiniteSet({i}) /\ Cardinality({i}) = 1
      BY FS_Singleton
    <2>2. Cardinality({i} \cup {j}) = IF j \in {i} THEN Cardinality({i}) ELSE Cardinality({i}) + 1
      BY <2>1, FS_AddElement, Zenon
    <2>3. j \notin {i} /\ {i} \cup {j} = {i, j}
      BY <1>5
    <2> HIDE DEF S
    <2> QED
      BY <1>4, <2>1, <2>2, <2>3
  <1> QED
    BY <1>5

-----------------------------------------------------------------------------
\* A rule that matches is one of the mode, at or after the position of the loop.
LEMMA MatchingType ==
  ASSUME mode \in ModeId, at \in Nat \ {0}, Matching # {}
  PROVE  /\ Min(Matching) \in DOMAIN Current /\ Min(Matching) \in at .. Len(Current)
         /\ Matches(Current[Min(Matching)], event)
  <1>1. Matching \in SUBSET Nat
    BY RuleType DEF Matching
  <1>2. Min(Matching) \in Matching
    BY <1>1, MinIsLeast
  <1>3. Min(Matching) \in at .. Len(Current) /\ Matches(Current[Min(Matching)], event)
    BY <1>2 DEF Matching
  <1> QED
    BY <1>3, RuleType

\* A hold that is due belongs to a rule of the mode.
LEMMA DueHoldsType ==
  ASSUME mode \in ModeId, holdAt \in Nat \ {0}, DueHolds # {}
  PROVE  /\ Min(DueHolds) \in DOMAIN Current /\ HoldRule(Current[Min(DueHolds)])
         /\ Due(Current[Min(DueHolds)], state[Current[Min(DueHolds)].key])
  <1>1. DueHolds \in SUBSET Nat
    BY RuleType DEF DueHolds
  <1> DEFINE i == Min(DueHolds)
  <1>2. i \in DueHolds
    BY <1>1, MinIsLeast
  <1> HIDE DEF i
  <1>3. i \in holdAt .. Len(Current) /\ HoldRule(Current[i]) /\ Due(Current[i], state[Current[i].key])
    BY <1>2 DEF DueHolds
  <1>4. i \in DOMAIN Current
    BY <1>3, RuleType
  <1> QED
    BY <1>3, <1>4 DEF i

-----------------------------------------------------------------------------
(* Types *)

\* Nothing has been read, and no key is down.
LEMMA InvInit == Init => IInv
  <1> SUFFICES ASSUME Init PROVE IInv
    OBVIOUS
  <1>1. First \in ModeId /\ Rules[First] \in Seq([key : Key, on : On, ms : 0 .. Longest, to : ModeId \cup {None}])
    BY HoldReaderAssumption
  <1>2. Len(Rules[First]) \in Nat
    BY <1>1
  <1>3. 0 \in Age /\ Up \in State /\ Dropped \in Event
    BY HoldReaderAssumption DEF Age, Up, State, Dropped, Event
  <1>4. <<>> \in Seq(Event) /\ Len(<<>>) = 0
    OBVIOUS
  <1>5. TypeOK
    <2>1. /\ queue \in Seq(Event) /\ Len(queue) <= MaxQueue /\ batch \in Seq(Event)
          /\ event \in Event
      BY <1>3, <1>4, HoldReaderAssumption DEF Init
    <2>2. at \in Nat \ {0} /\ holdAt \in Nat \ {0} /\ mode \in ModeId /\ room \in Nat
      BY <1>1, <1>2 DEF Init
    <2>3. state \in [Key -> State] /\ \A k \in Key : state[k].down \/ state[k] = Up
      BY <1>3 DEF Init
    <2>4. late \in Age /\ since \in [Key -> Age \cup {None}] /\ once \in [Key -> 0 .. 2]
      BY <1>3 DEF Init
    <2> QED
      BY <2>1, <2>2, <2>3, <2>4 DEF Init, TypeOK
  <1>6. BatchWanted /\ Noted
    BY DEF Init, BatchWanted, Noted
  <1>7. \A k \in Key : once[k] = 0
    BY DEF Init
  <1>8. Unfired /\ OncePerPress
    BY <1>7 DEF Unfired, OncePerPress
  <1> QED
    BY <1>5, <1>6, <1>8 DEF IInv, TypeInv

\* The kernel's buffer takes an event, of a key.
LEMMA EmitStep ==
  ASSUME TypeInv, NEW k \in Key, NEW v \in Value, held' \subseteq Key,
         Emit([key |-> k, value |-> v])
  PROVE  TypeInv'
  <1> DEFINE e == [key |-> k, value |-> v]
  <1>1. e \in Event /\ Dropped \in Event
    BY DEF Event, Dropped
  <1> HIDE DEF e
  <1>2. queue \in Seq(Event) /\ Len(queue) <= MaxQueue /\ MaxQueue \in Nat /\ MaxQueue >= 2
    BY HoldReaderAssumption DEF TypeInv, TypeOK
  <1>3. queue' = IF Len(queue) < MaxQueue THEN Append(queue, e) ELSE <<Dropped, e>>
    BY DEF Emit, e
  <1>4. queue' \in Seq(Event) /\ Len(queue') <= MaxQueue
    <2>1. CASE Len(queue) < MaxQueue
      BY <1>1, <1>2, <1>3, <2>1
    <2>2. CASE ~(Len(queue) < MaxQueue)
      BY <1>1, <1>2, <1>3, <2>2
    <2> QED
      BY <2>1, <2>2
  <1>5. /\ lossy' \in BOOLEAN
        /\ UNCHANGED <<present, pc, loop, engine, state, late, history>>
    BY DEF Emit, TypeInv, TypeOK
  <1> QED
    BY <1>4, <1>5 DEF TypeInv, TypeOK, BatchWanted, loop, engine, history

\* Other steps outside of the reader.
LEMMA OutsideStep == ASSUME TypeInv, GoAway \/ Tick PROVE TypeInv'
  <1>1. CASE GoAway
    <2>1. queue' \in Seq(Event) /\ Len(queue') <= MaxQueue
      <3>1. queue' = <<>> /\ Len(<<>>) = 0 /\ <<>> \in Seq(Event)
        BY <1>1 DEF GoAway
      <3> QED
        BY <3>1, HoldReaderAssumption
    <2> QED
      BY <1>1, <2>1 DEF GoAway, TypeInv, TypeOK, BatchWanted, loop, engine, history
  <1>2. CASE Tick
    <2>1. late' \in Age
      BY <1>2, HoldReaderAssumption DEF Tick, TypeInv, TypeOK, Age
    <2> QED
      BY <1>2, <2>1 DEF Tick, TypeInv, TypeOK, BatchWanted, kernel, loop, engine, history
  <1> QED
    BY <1>1, <1>2

\* Ages stay below the longest delay.
LEMMA LaterType ==
  ASSUME NEW age \in Age, NEW t \in Age
  PROVE  Later(age, t) \in Age
  BY HoldReaderAssumption DEF Later, Age

\* The reader polls and reads.
LEMMA PollStep == ASSUME TypeInv, Poll PROVE TypeInv'
  <1>1. /\ queue \in Seq(Event) /\ late \in Age /\ state \in [Key -> State]
        /\ since \in [Key -> Age \cup {None}]
    BY DEF TypeInv, TypeOK
  <1>2. batch' = NextWanted(queue) /\ queue' = <<>> /\ late' = 0 /\ holdAt' = 1
    BY DEF Poll
  <1>3. batch' \in Seq(Event) /\ BatchWanted'
    BY <1>1, <1>2, NextWantedType DEF BatchWanted
  <1>4. queue' \in Seq(Event) /\ Len(queue') <= MaxQueue
    <2>1. <<>> \in Seq(Event) /\ Len(<<>>) = 0
      OBVIOUS
    <2> QED
      BY <1>2, <2>1, HoldReaderAssumption
  <1>5. late' \in Age /\ holdAt' \in Nat \ {0}
    BY <1>2, HoldReaderAssumption DEF Age
  <1>6. \A k \in Key : Grown(state[k]) \in State /\ (Grown(state[k]).down \/ Grown(state[k]) = Up)
    <2> TAKE k \in Key
    <2>1. state[k] \in State /\ (state[k].down \/ state[k] = Up)
      BY DEF TypeInv, TypeOK
    <2>2. CASE ~state[k].down
      BY <2>1, <2>2 DEF Grown
    <2>3. CASE state[k].down
      <3>1. state[k].downSince \in Age /\ state[k].lastFire \in Age /\ state[k].firedOnce \in BOOLEAN
        BY <2>1 DEF State
      <3>2. Later(state[k].downSince, late) \in Age /\ Later(state[k].lastFire, late) \in Age
        BY <1>1, <3>1, LaterType
      <3> QED
        BY <2>1, <2>3, <3>1, <3>2 DEF Grown, State
    <2> QED
      BY <2>2, <2>3
  <1>7. state' \in [Key -> State] /\ \A k \in Key : state'[k].down \/ state'[k] = Up
    <2>1. state' = [k \in Key |-> Grown(state[k])]
      BY DEF Poll
    <2> QED
      BY <1>6, <2>1
  <1>8. since' \in [Key -> Age \cup {None}]
    <2>1. \A k \in Key : since[k] # None => Later(since[k], late) \in Age
      BY <1>1, LaterType
    <2>2. since' = [k \in Key |-> IF since[k] = None THEN None ELSE Later(since[k], late)]
      BY DEF Poll
    <2> QED
      BY <2>1, <2>2
  <1>9. UNCHANGED <<held, present, lossy, pc, event, at, engine, fired, once, skewed>>
    BY DEF Poll
  <1> QED
    BY <1>3, <1>4, <1>5, <1>7, <1>8, <1>9 DEF TypeInv, TypeOK, engine

\* The event that processEvent takes, and what is left.
LEMMA HeadType ==
  ASSUME TypeInv, batch # <<>>
  PROVE  /\ Head(batch) \in [key : Key, value : Value] /\ Head(batch).value # 2
         /\ Head(batch).key \in Key /\ Tail(batch) \in Seq(Event)
  <1>1. batch \in Seq(Event) /\ Wanted(batch[1])
    BY DEF TypeInv, TypeOK, BatchWanted
  <1>2. Head(batch) = batch[1] /\ batch[1] \in Event /\ Tail(batch) \in Seq(Event)
    BY <1>1
  <1> QED
    BY <1>1, <1>2, WantedType

\* An event of a key is tracked.
LEMMA ProcessStep == ASSUME TypeInv, ProcessEvent PROVE TypeInv'
  <1> DEFINE e == Head(batch)
  <1>1. /\ batch # <<>>
        /\ batch' = NextWanted(Tail(batch)) /\ state' = Tracked(e)
        /\ event' = e /\ at' = 1 /\ pc' = "rules"
        /\ since' = [since EXCEPT ![e.key] = IF e.value = 1 THEN 0 ELSE None]
        /\ once' = [once EXCEPT ![e.key] = 0]
        /\ skewed' = skewed \ {e.key}
        /\ UNCHANGED <<kernel, holdAt, engine, late, fired>>
    BY DEF ProcessEvent
  <1>2. e \in [key : Key, value : Value] /\ e.key \in Key /\ Tail(batch) \in Seq(Event)
    BY <1>1, HeadType
  <1> HIDE DEF e
  <1>3. event' \in Event /\ at' \in Nat \ {0}
    BY <1>1, <1>2 DEF Event
  <1>4. batch' \in Seq(Event) /\ BatchWanted'
    BY <1>1, <1>2, NextWantedType DEF BatchWanted
  <1>5. state' \in [Key -> State] /\ \A k \in Key : state'[k].down \/ state'[k] = Up
    <2>1. state \in [Key -> State] /\ \A k \in Key : state[k].down \/ state[k] = Up
      BY DEF TypeInv, TypeOK
    <2>2. Up \in State /\ Pressed \in State /\ Pressed.down
      <3>1. 0 \in Age
        BY HoldReaderAssumption DEF Age
      <3>2. Up \in State
        BY <3>1 DEF Up, State
      <3>3. [Up EXCEPT !.down = TRUE] \in State /\ [Up EXCEPT !.down = TRUE].down
        BY <3>2 DEF State
      <3> QED
        BY <3>2, <3>3 DEF Pressed
    <2>3. \/ state' = state
          \/ state' = [state EXCEPT ![e.key] = Pressed]
          \/ state' = [state EXCEPT ![e.key] = Up]
      BY <1>1 DEF Tracked
    <2>4. \A s \in State : s.down \/ s = Up =>
            /\ [state EXCEPT ![e.key] = s] \in [Key -> State]
            /\ \A k \in Key : [state EXCEPT ![e.key] = s][k] = IF k = e.key THEN s ELSE state[k]
      BY <1>2, <2>1
    <2>5. CASE state' = state
      BY <2>1, <2>5
    <2>6. CASE state' = [state EXCEPT ![e.key] = Pressed]
      BY <2>1, <2>2, <2>4, <2>6
    <2>7. CASE state' = [state EXCEPT ![e.key] = Up]
      BY <2>1, <2>2, <2>4, <2>7
    <2> QED
      BY <2>3, <2>5, <2>6, <2>7
  <1>6. since' \in [Key -> Age \cup {None}] /\ once' \in [Key -> 0 .. 2] /\ skewed' \subseteq Key
    <2>1. since \in [Key -> Age \cup {None}] /\ once \in [Key -> 0 .. 2] /\ skewed \subseteq Key
      BY DEF TypeInv, TypeOK
    <2>2. 0 \in Age
      BY HoldReaderAssumption DEF Age
    <2> QED
      BY <1>1, <1>2, <2>1, <2>2
  <1> QED
    BY <1>1, <1>3, <1>4, <1>5, <1>6 DEF TypeInv, TypeOK, kernel, engine

\* What a match leaves behind.
LEMMA FireType ==
  ASSUME TypeInv, NEW r, r.key \in Key, Fire(r)
  PROVE  /\ once' \in [Key -> 0 .. 2]
         /\ \A k \in Key : (k # r.key \/ r.on # "once") => once'[k] = once[k]
         /\ (r.on = "once" /\ once[r.key] = 0) => once'[r.key] = 1
  <1>1. once \in [Key -> 0 .. 2]
    BY DEF TypeInv, TypeOK
  <1>2. once' = IF r.on = "once" /\ once[r.key] < 2 THEN [once EXCEPT ![r.key] = @ + 1] ELSE once
    BY DEF Fire
  <1>3. CASE r.on = "once" /\ once[r.key] < 2
    <2>1. once' = [once EXCEPT ![r.key] = once[r.key] + 1] /\ once[r.key] + 1 \in 0 .. 2
      BY <1>1, <1>2, <1>3
    <2> QED
      BY <1>1, <1>3, <2>1
  <1>4. CASE ~(r.on = "once" /\ once[r.key] < 2)
    BY <1>1, <1>2, <1>4
  <1> QED
    BY <1>3, <1>4

\* A rule matches that stays in the mode.
LEMMA RunStep == ASSUME TypeInv, RunRule PROVE TypeInv'
  <1> DEFINE i == Min(Matching)
  <1>1. mode \in ModeId /\ at \in Nat \ {0} /\ Matching # {}
    BY DEF TypeInv, TypeOK, RunRule
  <1>2. i \in DOMAIN Current
    BY <1>1, MatchingType
  <1>3. Fire(Current[i]) /\ at' = i + 1
        /\ UNCHANGED <<kernel, pc, batch, event, holdAt, engine, state, late, since, skewed>>
    BY DEF RunRule
  <1> HIDE DEF i
  <1>4. i \in Nat /\ Current[i].key \in Key
    BY <1>1, <1>2, RuleType
  <1>5. once' \in [Key -> 0 .. 2] /\ at' \in Nat \ {0}
    BY <1>3, <1>4, FireType
  <1> QED
    BY <1>3, <1>5 DEF TypeInv, TypeOK, BatchWanted, kernel, engine

\* A rule matches that changes the mode.
LEMMA ChangeStep == ASSUME TypeInv, ChangeMode PROVE TypeInv'
  <1> DEFINE i == Min(Matching)
             new == Len(Rules[Current[i].to])
  <1>1. mode \in ModeId /\ at \in Nat \ {0} /\ holdAt \in Nat \ {0} /\ room \in Nat /\ Matching # {}
    BY DEF TypeInv, TypeOK, ChangeMode
  <1>2. i \in DOMAIN Current /\ Matches(Current[i], event)
    BY <1>1, MatchingType
  <1>3. i \in Nat /\ Current[i].key \in Key /\ Current[i].to \in ModeId
    <2>1. Current[i].to # None
      BY DEF ChangeMode
    <2> QED
      BY <1>1, <1>2, <2>1, RuleType
  <1>4. new \in Nat
    <2>1. Rules[Current[i].to] \in Seq([key : Key, on : On, ms : 0 .. Longest, to : ModeId \cup {None}])
      BY <1>3, HoldReaderAssumption
    <2> HIDE DEF i
    <2> QED
      BY <2>1
  <1>5. /\ Fire(Current[i]) /\ mode' = Current[i].to /\ room' = Max({room, new})
        /\ at' \in {i + 1, new + 1} /\ pc' \in {pc, "crashed"}
        /\ holdAt' \in {holdAt, new + 1}
        /\ skewed' \in {skewed, skewed \cup {event.key}}
        /\ UNCHANGED <<kernel, batch, event, state, late, since>>
    BY DEF ChangeMode
  <1>6. event.key \in Key
    BY <1>2, <1>3 DEF Matches
  <1> HIDE DEF i, new
  <1>7. once' \in [Key -> 0 .. 2] /\ room' \in Nat
    BY <1>1, <1>3, <1>4, <1>5, FireType, MaxOfTwo
  <1>8. at' \in Nat \ {0} /\ holdAt' \in Nat \ {0} /\ mode' \in ModeId
    BY <1>1, <1>3, <1>4, <1>5
  <1>9. skewed' \subseteq Key /\ pc' \in {"loop", "rules", "crashed"}
    BY <1>5, <1>6 DEF TypeInv, TypeOK
  <1> QED
    BY <1>5, <1>7, <1>8, <1>9 DEF TypeInv, TypeOK, BatchWanted, kernel

\* The loop over the rules ends.
LEMMA DoneStep == ASSUME TypeInv, RulesDone PROVE TypeInv'
  <1>1. Dropped \in Event
    BY DEF Dropped, Event
  <1> QED
    BY <1>1 DEF RulesDone, TypeInv, TypeOK, BatchWanted, kernel, engine

\* A hold is due.
LEMMA ServiceStep == ASSUME TypeInv, ServiceHold PROVE TypeInv'
  <1> DEFINE i == Min(DueHolds)
             r == Current[i]
  <1>1. mode \in ModeId /\ holdAt \in Nat \ {0} /\ DueHolds # {}
    BY DEF TypeInv, TypeOK, ServiceHold
  <1>2. i \in DOMAIN Current /\ Due(r, state[r.key])
    BY <1>1, DueHoldsType
  <1>3. i \in Nat /\ r.key \in Key
    BY <1>1, <1>2, RuleType
  <1>4. /\ state' = [state EXCEPT ![r.key] = AfterDue(r, state[r.key])]
        /\ event' = [key |-> r.key, value |-> 2] /\ at' = 1 /\ pc' = "rules" /\ holdAt' = i + 1
        /\ UNCHANGED <<kernel, batch, engine, late, history>>
    BY DEF ServiceHold
  <1>5. state \in [Key -> State] /\ \A k \in Key : state[k].down \/ state[k] = Up
    BY DEF TypeInv, TypeOK
  <1> HIDE DEF i, r
  <1>6. AfterDue(r, state[r.key]) \in State /\ AfterDue(r, state[r.key]).down
    <2>1. state[r.key] \in State /\ state[r.key].down
      BY <1>2, <1>3, <1>5 DEF Due
    <2>2. 0 \in Age
      BY HoldReaderAssumption DEF Age
    <2> QED
      BY <2>1, <2>2 DEF AfterDue, State
  <1>7. state' \in [Key -> State] /\ \A k \in Key : state'[k].down \/ state'[k] = Up
    BY <1>3, <1>4, <1>5, <1>6
  <1>8. event' \in Event /\ at' \in Nat \ {0} /\ holdAt' \in Nat \ {0}
    BY <1>3, <1>4 DEF Event, Value
  <1> QED
    BY <1>4, <1>7, <1>8 DEF TypeInv, TypeOK, BatchWanted, kernel, engine, history

\* Every step keeps the types.
LEMMA TypeStep == TypeInv /\ [Next]_vars => TypeInv'
  <1> SUFFICES ASSUME TypeInv, [Next]_vars PROVE TypeInv'
    OBVIOUS
  <1>1. ASSUME NEW k \in Key, PressKey(k) \/ Autorepeat(k) \/ ReleaseKey(k) PROVE TypeInv'
    <2>1. held' \subseteq Key /\ 0 \in Value /\ 1 \in Value /\ 2 \in Value
      BY <1>1 DEF PressKey, Autorepeat, ReleaseKey, TypeInv, TypeOK, Value
    <2>2. \E v \in Value : Emit([key |-> k, value |-> v])
      BY <1>1, <2>1 DEF PressKey, Autorepeat, ReleaseKey
    <2> QED
      BY <2>1, <2>2, EmitStep
  <1>2. CASE UNCHANGED vars
    BY <1>2 DEF vars, kernel, loop, engine, history, TypeInv, TypeOK, BatchWanted
  <1> QED
    BY <1>1, <1>2, OutsideStep, PollStep, ProcessStep, RunStep, ChangeStep, DoneStep, ServiceStep
       DEF Next, Reader

-----------------------------------------------------------------------------
(* Matches of hold_once *)

\* Steps that make no match, take no event and let no key go down or up.
LEMMA QuietKeeps ==
  ASSUME IInv, UNCHANGED <<mode, once, skewed>>,
         \A k \in Key : /\ state'[k].down = state[k].down
                        /\ state'[k].firedOnce = state[k].firedOnce,
         UNCHANGED <<pc, event, at>> \/ pc' # "rules", TypeInv
  PROVE  Unfired' /\ Noted' /\ OncePerPress'
  <1>1. Unfired' /\ OncePerPress'
    BY DEF IInv, Unfired, OncePerPress, Plain, Alone
  <1>2. CASE pc' # "rules"
    BY <1>1, <1>2 DEF Noted
  <1>3. CASE UNCHANGED <<pc, event, at>>
    <2> SUFFICES ASSUME pc' = "rules", event'.value = 2, Plain(event.key)',
                        NEW i \in at' .. Len(Current'),
                        Matches(Current'[i], event'), Current'[i].on = "once"
                 PROVE  state'[event'.key].firedOnce /\ once'[event'.key] = 0
      BY <1>1 DEF Noted
    <2>1. Plain(event.key) /\ i \in at .. Len(Current) /\ Matches(Current[i], event) /\ Current[i].on = "once"
      BY <1>3 DEF Plain, Alone, Current, Matches, HoldRule
    <2>2. state[event.key].firedOnce /\ once[event.key] = 0
      BY <1>3, <2>1 DEF IInv, Noted
    <2>3. event.key \in Key
      <3>1. event \in Event /\ event.value = 2
        BY <1>3 DEF TypeInv, TypeOK
      <3> QED
        BY <3>1 DEF Event
    <2> QED
      BY <1>3, <2>2, <2>3
  <1> QED
    BY <1>1, <1>2, <1>3

\* An event of the device starts the count of its key again, and is no hold event.
LEMMA ProcessKeeps ==
  ASSUME IInv, ProcessEvent
  PROVE  Unfired' /\ Noted' /\ OncePerPress'
  <1> DEFINE e == Head(batch)
  <1>1. /\ batch # <<>> /\ state' = Tracked(e) /\ event' = e
        /\ once' = [once EXCEPT ![e.key] = 0] /\ skewed' = skewed \ {e.key}
    BY DEF ProcessEvent
  <1>2. e.key \in Key /\ e.value # 2
    BY <1>1, HeadType DEF IInv
  <1> HIDE DEF e
  <1>3. state \in [Key -> State] /\ once \in [Key -> 0 .. 2]
    BY DEF IInv, TypeInv, TypeOK
  <1>4. Noted'
    BY <1>1, <1>2 DEF Noted
  <1>5. \A k \in Key : k # e.key => once'[k] = once[k] /\ state'[k] = state[k] /\ (Plain(k)' <=> Plain(k))
    BY <1>1, <1>2, <1>3 DEF Tracked, Plain, Alone
  <1>6. once'[e.key] = 0
    BY <1>1, <1>2, <1>3
  <1>7. Unfired'
    BY <1>5, <1>6 DEF IInv, Unfired
  <1>8. OncePerPress'
    BY <1>5, <1>6 DEF IInv, OncePerPress, Plain
  <1> QED
    BY <1>4, <1>7, <1>8

\* A rule of the mode matches: hold_once only for a hold event it has not matched.
LEMMA RunKeeps ==
  ASSUME IInv, RunRule
  PROVE  Unfired' /\ Noted' /\ OncePerPress'
  <1> DEFINE i == Min(Matching)
             r == Current[i]
             k == event.key
  <1>1. mode \in ModeId /\ at \in Nat \ {0} /\ Matching # {} /\ pc = "rules" /\ TypeInv
    BY DEF IInv, TypeInv, TypeOK, RunRule
  <1>2. i \in DOMAIN Current /\ i \in at .. Len(Current) /\ Matches(r, event)
    BY <1>1, MatchingType
  <1>3. /\ Fire(r) /\ at' = i + 1
        /\ UNCHANGED <<mode, pc, event, state, skewed>>
    BY DEF RunRule, engine
  <1> HIDE DEF i
  <1>4. r.key = k /\ k \in Key /\ i \in Nat
    BY <1>1, <1>2, RuleType DEF Matches
  <1>5. r.on = "once" => event.value = 2
    BY <1>2 DEF Matches
  <1>6. (r.on = "once" /\ Plain(k)) => state[k].firedOnce /\ once[k] = 0
    BY <1>1, <1>2, <1>5 DEF IInv, Noted
  <1> HIDE DEF r
  <1>7. /\ \A q \in Key : q # k \/ r.on # "once" => once'[q] = once[q]
        /\ r.on = "once" /\ once[k] = 0 => once'[k] = 1
    BY <1>1, <1>3, <1>4, FireType
  <1>8. \A q : Plain(q)' <=> Plain(q)
    BY <1>3 DEF Plain, Alone
  <1>9. Unfired'
    BY <1>3, <1>4, <1>6, <1>7, <1>8 DEF IInv, Unfired
  <1>10. OncePerPress'
    BY <1>3, <1>4, <1>6, <1>7, <1>8 DEF IInv, OncePerPress, Plain
  <1>11. Noted'
    <2> SUFFICES ASSUME event.value = 2, Plain(k), NEW j \in i + 1 .. Len(Current),
                        Matches(Current[j], event), Current[j].on = "once"
                 PROVE  state[k].firedOnce /\ once'[k] = 0
      BY <1>1, <1>3, <1>8 DEF Noted, Current, Matches, HoldRule
    <2>1. j \in DOMAIN Current /\ j # i /\ j \in at .. Len(Current)
      BY <1>1, <1>2, <1>4, RuleType
    <2>2. Current[j].key = k /\ HoldRule(Current[j])
      BY DEF Matches, HoldRule
    <2>3. HoldRule(r)
      BY <1>2 DEF Matches, HoldRule
    <2>4. FALSE
      BY <1>1, <1>2, <1>4, <2>1, <2>2, <2>3, OneHoldRule DEF Plain, r
    <2> QED
      BY <2>4
  <1> QED
    BY <1>9, <1>10, <1>11

\* After a change of mode a hold event meets the rules of another mode: its key is
\* skewed.  No other event matches hold_once.
LEMMA ChangeKeeps ==
  ASSUME IInv, ChangeMode
  PROVE  Unfired' /\ Noted' /\ OncePerPress'
  <1> DEFINE i == Min(Matching)
             r == Current[i]
             k == event.key
  <1>1. mode \in ModeId /\ at \in Nat \ {0} /\ Matching # {} /\ TypeInv
    BY DEF IInv, TypeInv, TypeOK, ChangeMode
  <1>2. i \in DOMAIN Current /\ Matches(r, event)
    BY <1>1, MatchingType
  <1>3. /\ Fire(r) /\ UNCHANGED <<event, state>>
        /\ skewed' = IF event.value = 2 THEN skewed \cup {k} ELSE skewed
    BY DEF ChangeMode
  <1> HIDE DEF i
  <1>4. r.key = k /\ k \in Key
    BY <1>1, <1>2, RuleType DEF Matches
  <1>5. r.on = "once" => event.value = 2
    BY <1>2 DEF Matches
  <1> HIDE DEF r
  <1>6. \A q \in Key : q # k \/ r.on # "once" => once'[q] = once[q]
    BY <1>1, <1>3, <1>4, FireType
  <1>7. \A q \in Key : Plain(q)' => Plain(q) /\ once'[q] = once[q]
    BY <1>3, <1>5, <1>6 DEF Plain, Alone
  <1>8. Unfired'
    BY <1>3, <1>7 DEF IInv, Unfired
  <1>9. OncePerPress'
    BY <1>7 DEF IInv, OncePerPress, Plain
  <1>10. Noted'
    BY <1>3 DEF Noted, Plain
  <1> QED
    BY <1>8, <1>9, <1>10

\* A hold event is made by the one hold rule of its key; if that is hold_once, due
\* notes it, and no match has been made since the press.
LEMMA ServiceKeeps ==
  ASSUME IInv, ServiceHold
  PROVE  Unfired' /\ Noted' /\ OncePerPress'
  <1> DEFINE i == Min(DueHolds)
             r == Current[i]
             k == r.key
  <1>1. /\ mode \in ModeId /\ holdAt \in Nat \ {0} /\ DueHolds # {}
        /\ state \in [Key -> State]
    BY DEF IInv, TypeInv, TypeOK, ServiceHold
  <1>2. i \in DOMAIN Current /\ HoldRule(r) /\ Due(r, state[k])
    BY <1>1, DueHoldsType
  <1>3. k \in Key
    BY <1>1, <1>2, RuleType
  <1>4. /\ state' = [state EXCEPT ![k] = AfterDue(r, state[k])]
        /\ event' = [key |-> k, value |-> 2] /\ at' = 1
        /\ UNCHANGED <<mode, once, skewed>>
    BY DEF ServiceHold, engine, history
  <1> HIDE DEF i
  <1>5. \A q \in Key : state'[q] = IF q = k THEN AfterDue(r, state[k]) ELSE state[q]
    BY <1>1, <1>3, <1>4
  <1>6. \A q : Plain(q)' <=> Plain(q)
    BY <1>4 DEF Plain, Alone
  <1>7. /\ AfterDue(r, state[k]).firedOnce \/ (r.on = "hold" /\ AfterDue(r, state[k]).firedOnce = state[k].firedOnce)
        /\ r.on = "once" => AfterDue(r, state[k]).firedOnce
        /\ state[k].down
        /\ r.on = "once" => ~state[k].firedOnce
    <2>1. state[k] \in State
      BY <1>1, <1>3
    <2> QED
      BY <1>2, <2>1 DEF AfterDue, Due, HoldRule, State
  <1>8. Unfired'
    <2> SUFFICES ASSUME NEW q \in Key, Plain(q), state'[q].down, ~state'[q].firedOnce
                 PROVE  once[q] = 0
      BY <1>4, <1>6 DEF Unfired
    <2> QED
      BY <1>5, <1>7 DEF IInv, Unfired
  <1>9. OncePerPress'
    BY <1>4 DEF IInv, OncePerPress
  <1>10. Noted'
    <2> SUFFICES ASSUME Plain(k), NEW j \in 1 .. Len(Current),
                        Current[j].key = k, Current[j].on = "once"
                 PROVE  state'[k].firedOnce /\ once[k] = 0
      <3>1. Current' = Current /\ event'.key = k
        BY <1>4 DEF Current
      <3> QED
        BY <1>4, <1>6, <3>1 DEF Noted, Matches
    <2>1. j = i
      <3>1. j \in DOMAIN Current /\ HoldRule(Current[j]) /\ Alone(k)
        BY <1>1, RuleType DEF HoldRule, Plain
      <3> QED
        BY <1>1, <1>2, <1>3, <3>1, OneHoldRule
    <2>2. r.on = "once"
      BY <2>1
    <2>3. once[k] = 0
      BY <1>3, <1>7, <2>2 DEF IInv, Unfired
    <2> QED
      BY <1>3, <1>5, <1>7, <2>2, <2>3
  <1> QED
    BY <1>8, <1>9, <1>10

\* Every step keeps the invariant.
LEMMA InvStep == IInv /\ [Next]_vars => IInv'
  <1> SUFFICES ASSUME IInv, [Next]_vars PROVE IInv'
    OBVIOUS
  <1>1. TypeInv /\ TypeInv'
    BY TypeStep DEF IInv
  <1>2. CASE ProcessEvent
    BY <1>1, <1>2, ProcessKeeps DEF IInv
  <1>3. CASE RunRule
    BY <1>1, <1>3, RunKeeps DEF IInv
  <1>4. CASE ChangeMode
    BY <1>1, <1>4, ChangeKeeps DEF IInv
  <1>5. CASE ServiceHold
    BY <1>1, <1>5, ServiceKeeps DEF IInv
  <1>6. CASE RulesDone
    <2>1. UNCHANGED <<mode, once, skewed, state>> /\ pc' # "rules"
      BY <1>6 DEF RulesDone, engine
    <2> QED
      BY <1>1, <2>1, QuietKeeps DEF IInv
  <1>7. CASE Poll
    <2>1. UNCHANGED <<mode, once, skewed, pc, event, at>>
      BY <1>7 DEF Poll, engine
    <2>2. \A k \in Key : state'[k].down = state[k].down /\ state'[k].firedOnce = state[k].firedOnce
      <3> TAKE k \in Key
      <3>1. state'[k] = Grown(state[k])
        BY <1>7 DEF Poll
      <3>2. state[k] \in State
        BY <1>1 DEF TypeInv, TypeOK
      <3> QED
        BY <3>1, <3>2 DEF Grown, State
    <2> QED
      BY <1>1, <2>1, <2>2, QuietKeeps DEF IInv
  <1>8. CASE \/ \E k \in Key : PressKey(k) \/ Autorepeat(k) \/ ReleaseKey(k)
             \/ GoAway \/ Tick \/ UNCHANGED vars
    <2>1. UNCHANGED <<mode, once, skewed, state, pc, event, at>>
      BY <1>8 DEF PressKey, Autorepeat, ReleaseKey, Emit, GoAway, Tick, vars, loop, engine, history
    <2> QED
      BY <1>1, <2>1, QuietKeeps DEF IInv
  <1> QED
    BY <1>2, <1>3, <1>4, <1>5, <1>6, <1>7, <1>8 DEF Next, Reader

-----------------------------------------------------------------------------
\* IInv holds in every state.
LEMMA Invariant == Spec => []IInv
  BY InvInit, InvStep, PTL DEF Spec

\* The variables keep their types, and a key that is up no ages.
THEOREM Typing == Spec => []TypeOK
  BY Invariant, PTL DEF IInv, TypeInv

\* hold_once matches once between a press and its release, though every hold rule
\* is tried in every round, keys hold at the same time, a release is lost and
\* modes change (holdgen::due, serviceHolds).
THEOREM Single == Spec => []OncePerPress
  BY Invariant, PTL DEF IInv

-----------------------------------------------------------------------------
(* Hold rules match in time *)

\* The events the reader has not handled.
Stream == batch \o queue

IsPress(k, e) == e.key = k /\ e.value = 1

\* In a state, and the events s after it, the key goes down and up in turn: after a
\* press, or if it is down at the start, there is a release before the next press,
\* and another, unless the key is held, at the end.
Alternating(k, down, s, keys) ==
  \A i \in 0 .. Len(s) : (IF i = 0 THEN down ELSE IsPress(k, s[i])) =>
    /\ k \in keys \/ \E l \in i + 1 .. Len(s) : IsRelease(k, s[l])
    /\ \A j \in i + 1 .. Len(s) :
         IsPress(k, s[j]) => \E l \in i + 1 .. j - 1 : IsRelease(k, s[l])

\* What the reader believes, and has still to read, leads to what the kernel holds.
InStep == ~lossy => \A k \in Key : Alternating(k, state[k].down, Stream, held)

\* The ages of a key that is down are not above that of its press.
Aged ==
  ~lossy => \A k \in Key : state[k].down =>
    since[k] # None /\ state[k].downSince <= since[k] /\ state[k].lastFire <= since[k]

\* Old enough for a rule of its key.
Ripe(r) == since[r.key] # None /\ r.ms <= since[r.key]

\* A hold event is worked on when everything that was read is handled, and its key
\* is down, for as long as its rule says.
Synthetic ==
  (pc # "loop" /\ event.value = 2) =>
    /\ batch = <<>> /\ state[event.key].down
    /\ (pc = "rules" /\ ~lossy /\ Plain(event.key)) =>
         \A i \in at .. Len(Current) : Matches(Current[i], event) => Ripe(Current[i])

\* The rule that has just matched was matched by the event in work.
Matched ==
  fired # None =>
    /\ pc # "loop"
    /\ HoldRule(fired) =>
         /\ event.value = 2 /\ event.key = fired.key /\ fired.key \in Key
         /\ (~lossy /\ Plain(fired.key)) => Ripe(fired)

TimeInv == InStep /\ Aged /\ Synthetic /\ Matched

-----------------------------------------------------------------------------
\* The key may go down when the events lead to a key that is up, and up at any time.
LEMMA AlternatingAppend ==
  ASSUME NEW k, NEW down \in BOOLEAN, NEW s \in Seq(Event), NEW e \in Event,
         NEW old, NEW new,
         Alternating(k, down, s, old),
         \/ ~IsPress(k, e) /\ ~IsRelease(k, e) /\ (k \in old => k \in new)
         \/ IsPress(k, e) /\ ~IsRelease(k, e) /\ k \notin old /\ k \in new
         \/ IsRelease(k, e) /\ ~IsPress(k, e)
  PROVE  Alternating(k, down, Append(s, e), new)
  <1> DEFINE t == Append(s, e)
             n == Len(s)
  <1>1. n \in Nat /\ Len(t) = n + 1 /\ t[n + 1] = e /\ \A i \in 1 .. n : t[i] = s[i]
    OBVIOUS
  <1> HIDE DEF t
  <1> SUFFICES ASSUME NEW i \in 0 .. n + 1, IF i = 0 THEN down ELSE IsPress(k, t[i])
               PROVE  /\ k \in new \/ \E l \in i + 1 .. n + 1 : IsRelease(k, t[l])
                      /\ \A j \in i + 1 .. n + 1 :
                           IsPress(k, t[j]) => \E l \in i + 1 .. j - 1 : IsRelease(k, t[l])
    BY <1>1 DEF Alternating, t
  <1>2. CASE i = n + 1
    BY <1>1, <1>2
  <1>3. CASE i \in 0 .. n
    <2>1. IF i = 0 THEN down ELSE IsPress(k, s[i])
      BY <1>1, <1>3
    <2>2. /\ k \in old \/ \E l \in i + 1 .. n : IsRelease(k, s[l])
          /\ \A j \in i + 1 .. n :
               IsPress(k, s[j]) => \E l \in i + 1 .. j - 1 : IsRelease(k, s[l])
      BY <1>3, <2>1 DEF Alternating
    <2>3. k \in new \/ \E l \in i + 1 .. n + 1 : IsRelease(k, t[l])
      BY <1>1, <1>3, <2>2
    <2>4. ASSUME NEW j \in i + 1 .. n + 1, IsPress(k, t[j])
          PROVE  \E l \in i + 1 .. j - 1 : IsRelease(k, t[l])
      <3>1. CASE j = n + 1
        BY <1>1, <1>3, <2>2, <2>4, <3>1
      <3>2. CASE j \in i + 1 .. n
        <4>1. IsPress(k, s[j])
          BY <1>1, <1>3, <2>4, <3>2
        <4>2. PICK l \in i + 1 .. j - 1 : IsRelease(k, s[l])
          BY <2>2, <3>2, <4>1
        <4>3. l \in 1 .. n
          BY <1>1, <1>3, <3>2, <4>2
        <4> QED
          BY <1>1, <4>2, <4>3
      <3> QED
        BY <1>1, <3>1, <3>2
    <2> QED
      BY <2>3, <2>4
  <1> QED
    BY <1>1, <1>2, <1>3

\* Taking the first d events of s, of which all but perhaps the first are of no
\* concern to the key: a press of it may be tracked, a release is.
LEMMA AlternatingDrop ==
  ASSUME NEW k, NEW down \in BOOLEAN, NEW after \in BOOLEAN, NEW keys,
         NEW s \in Seq(Event), NEW t \in Seq(Event), NEW d \in 0 .. Len(s),
         Len(t) = Len(s) - d, \A i \in 1 .. Len(t) : t[i] = s[i + d],
         \A i \in 2 .. d : ~IsPress(k, s[i]) /\ ~IsRelease(k, s[i]),
         (d = 0 \/ ~IsPress(k, s[1])) /\ after => down,
         d # 0 /\ IsRelease(k, s[1]) => ~after,
         Alternating(k, down, s, keys)
  PROVE  Alternating(k, after, t, keys)
  <1>1. Len(s) \in Nat /\ Len(t) \in Nat /\ d \in Nat
    OBVIOUS
  <1> SUFFICES ASSUME NEW i \in 0 .. Len(t), IF i = 0 THEN after ELSE IsPress(k, t[i])
               PROVE  /\ k \in keys \/ \E l \in i + 1 .. Len(t) : IsRelease(k, t[l])
                      /\ \A j \in i + 1 .. Len(t) :
                           IsPress(k, t[j]) => \E l \in i + 1 .. j - 1 : IsRelease(k, t[l])
    BY DEF Alternating
  <1> DEFINE m == IF i # 0 THEN i + d ELSE IF d # 0 /\ IsPress(k, s[1]) THEN 1 ELSE 0
  <1>2. m \in 0 .. Len(s) /\ m <= i + d
    BY <1>1
  <1>3. IF m = 0 THEN down ELSE IsPress(k, s[m])
    BY <1>1
  <1>4. \A l \in m + 1 .. Len(s) : IsRelease(k, s[l]) => l - d \in i + 1 .. Len(t)
    <2> TAKE l \in m + 1 .. Len(s)
    <2> HAVE IsRelease(k, s[l])
    <2>1. l > d
      <3>1. CASE i # 0
        BY <1>1, <3>1
      <3>2. CASE i = 0
        <4>1. l \notin 2 .. d
          OBVIOUS
        <4>2. l = 1 /\ d # 0 => FALSE
          <5>1. ASSUME l = 1, d # 0 PROVE FALSE
            <6>1. IsRelease(k, s[1]) /\ after
              BY <3>2, <5>1
            <6> QED
              BY <5>1, <6>1
          <5> QED
            BY <5>1
        <4> QED
          BY <1>1, <1>2, <4>1, <4>2
      <3> QED
        BY <3>1, <3>2
    <2>2. CASE i # 0
      BY <1>1, <2>1, <2>2
    <2>3. CASE i = 0
      BY <1>1, <1>2, <2>1, <2>3
    <2> QED
      BY <2>2, <2>3
  <1>5. /\ k \in keys \/ \E l \in m + 1 .. Len(s) : IsRelease(k, s[l])
        /\ \A j \in m + 1 .. Len(s) :
             IsPress(k, s[j]) => \E l \in m + 1 .. j - 1 : IsRelease(k, s[l])
    BY <1>2, <1>3 DEF Alternating
  <1> HIDE DEF m
  <1>6. k \in keys \/ \E l \in i + 1 .. Len(t) : IsRelease(k, t[l])
    <2> SUFFICES ASSUME k \notin keys PROVE \E l \in i + 1 .. Len(t) : IsRelease(k, t[l])
      OBVIOUS
    <2>1. PICK l \in m + 1 .. Len(s) : IsRelease(k, s[l])
      BY <1>5
    <2>2. l - d \in i + 1 .. Len(t) /\ t[l - d] = s[l]
      BY <1>1, <1>2, <1>4, <2>1
    <2> QED
      BY <2>1, <2>2
  <1>7. ASSUME NEW j \in i + 1 .. Len(t), IsPress(k, t[j])
        PROVE  \E l \in i + 1 .. j - 1 : IsRelease(k, t[l])
    <2>1. j + d \in m + 1 .. Len(s) /\ IsPress(k, s[j + d])
      <3>1. j \in Nat /\ j \in 1 .. Len(t) /\ i \in Nat /\ m \in Nat /\ j >= i + 1
        BY <1>1, <1>2
      <3>2. t[j] = s[j + d]
        BY <3>1
      <3>3. j + d >= m + 1 /\ j + d <= Len(s) /\ j + d \in Nat
        BY <1>1, <1>2, <3>1
      <3> QED
        BY <1>1, <1>7, <3>1, <3>2, <3>3
    <2>2. PICK l \in m + 1 .. j + d - 1 : IsRelease(k, s[l])
      BY <1>5, <2>1
    <2>3. l \in m + 1 .. Len(s)
      BY <1>1, <1>2, <2>1, <2>2
    <2>4. l - d \in i + 1 .. Len(t) /\ t[l - d] = s[l]
      BY <1>1, <1>2, <1>4, <2>2, <2>3
    <2>5. l - d \in i + 1 .. j - 1
      BY <1>1, <1>2, <2>1, <2>2, <2>4
    <2> QED
      BY <2>2, <2>4, <2>5
  <1> QED
    BY <1>6, <1>7

-----------------------------------------------------------------------------
\* NextWanted takes events off the front that are of no concern to any key.
LEMMA NextWantedDrops ==
  ASSUME NEW es \in Seq(Event)
  PROVE  \E d \in 0 .. Len(es) :
           /\ Len(NextWanted(es)) = Len(es) - d
           /\ \A i \in 1 .. Len(NextWanted(es)) : NextWanted(es)[i] = es[i + d]
           /\ \A i \in 1 .. d : ~Wanted(es[i])
  <1> DEFINE wanted == {i \in DOMAIN es : Wanted(es[i])}
             m == Min(wanted)
  <1>1. Len(es) \in Nat /\ DOMAIN es = 1 .. Len(es)
    OBVIOUS
  <1>2. CASE wanted = {}
    <2>1. NextWanted(es) = <<>> /\ Len(<<>>) = 0
      BY <1>2 DEF NextWanted
    <2>2. \A i \in 1 .. Len(es) : ~Wanted(es[i])
      BY <1>1, <1>2
    <2>3. Len(es) \in 0 .. Len(es)
      BY <1>1
    <2> HIDE DEF wanted
    <2> WITNESS Len(es) \in 0 .. Len(es)
    <2> QED
      BY <1>1, <2>1, <2>2
  <1>3. CASE wanted # {}
    <2>1. m \in wanted /\ \A y \in wanted : m <= y
      <3>1. wanted \in SUBSET Nat
        OBVIOUS
      <3> HIDE DEF wanted
      <3> QED
        BY <1>3, <3>1, MinIsLeast
    <2>2. NextWanted(es) = SubSeq(es, m, Len(es))
      BY <1>3 DEF NextWanted
    <2> HIDE DEF m
    <2>3. m \in 1 .. Len(es) /\ \A i \in 1 .. m - 1 : ~Wanted(es[i])
      <3>1. m \in 1 .. Len(es)
        BY <1>1, <2>1
      <3>2. \A i \in 1 .. m - 1 : i \in DOMAIN es /\ i < m
        BY <1>1, <3>1
      <3> QED
        BY <2>1, <3>1, <3>2
    <2> HIDE DEF wanted
    <2>4. /\ Len(SubSeq(es, m, Len(es))) = Len(es) - (m - 1)
          /\ \A i \in 1 .. Len(es) - (m - 1) : SubSeq(es, m, Len(es))[i] = es[i + (m - 1)]
      BY <1>1, <2>3
    <2>5. m - 1 \in 0 .. Len(es)
      BY <1>1, <2>3
    <2> WITNESS m - 1 \in 0 .. Len(es)
    <2> QED
      BY <1>1, <2>2, <2>3, <2>4, <2>5
  <1> QED
    BY <1>2, <1>3

\* Autorepeat and packet boundaries are neither a press nor a release.
LEMMA UnwantedIsNothing ==
  ASSUME NEW e \in Event, ~Wanted(e), NEW k \in Key
  PROVE  ~IsPress(k, e) /\ ~IsRelease(k, e)
  BY HoldReaderAssumption DEF Event, Wanted, Dropped, IsPress, IsRelease

\* The stream is the batch and then the queue.
LEMMA StreamType ==
  ASSUME TypeInv
  PROVE  /\ Stream \in Seq(Event) /\ Len(Stream) = Len(batch) + Len(queue)
         /\ \A i \in 1 .. Len(batch) : Stream[i] = batch[i]
         /\ \A i \in 1 .. Len(queue) : Stream[i + Len(batch)] = queue[i]
         /\ Len(batch) \in Nat /\ Len(queue) \in Nat
  <1>1. batch \in Seq(Event) /\ queue \in Seq(Event)
    BY DEF TypeInv, TypeOK
  <1> QED
    BY <1>1 DEF Stream

\* No key is down, nothing is to be read.
LEMMA TimeInit == Init => TimeInv
  <1> SUFFICES ASSUME Init PROVE TimeInv
    OBVIOUS
  <1>1. Stream = <<>>
    BY DEF Init, Stream
  <1>2. Len(<<>>) = 0
    OBVIOUS
  <1>3. \A k \in Key : ~state[k].down
    BY DEF Init, Up
  <1>4. InStep
    BY <1>1, <1>2, <1>3 DEF InStep, Alternating
  <1> QED
    BY <1>3, <1>4 DEF TimeInv, Aged, Synthetic, Matched, Init

\* Steps that leave the reader where it is.
LEMMA TimeOutside ==
  ASSUME TimeInv, UNCHANGED <<batch, state, since, pc, event, at, mode, skewed, fired>>,
         lossy => lossy'
  PROVE  Aged' /\ Synthetic' /\ Matched'
  <1>1. Aged'
    BY DEF TimeInv, Aged
  <1>2. Synthetic'
    BY DEF TimeInv, Synthetic, Current, Matches, HoldRule, Ripe, Plain, Alone
  <1>3. Matched'
    BY DEF TimeInv, Matched, Ripe, HoldRule, Plain, Alone
  <1> QED
    BY <1>1, <1>2, <1>3

\* The kernel's view of a key changes with its event.
LEMMA TimeKernel ==
  ASSUME TypeInv, TimeInv, NEW q \in Key, PressKey(q) \/ Autorepeat(q) \/ ReleaseKey(q)
  PROVE  TimeInv'
  <1>1. PICK v \in {0, 1, 2} :
          /\ Emit([key |-> q, value |-> v])
          /\ v = 0 => q \in held /\ held' = held \ {q}
          /\ v = 1 => q \notin held /\ held' = held \cup {q}
          /\ v = 2 => held' = held
    BY DEF PressKey, Autorepeat, ReleaseKey
  <1> DEFINE e == [key |-> q, value |-> v]
  <1>2. e \in Event
    BY DEF Event, Value
  <1>3. /\ UNCHANGED <<batch, state, since, pc, event, at, mode, skewed, fired>>
        /\ lossy => lossy'
    BY <1>1 DEF Emit, loop, engine, history
  <1>4. InStep'
    <2> SUFFICES ASSUME ~lossy', NEW k \in Key
                 PROVE  Alternating(k, state'[k].down, Stream', held')
      BY DEF InStep
    <2>1. ~lossy /\ queue' = Append(queue, e)
      <3>1. Len(queue) \in Nat /\ Len(queue) <= MaxQueue /\ MaxQueue \in Nat
        BY HoldReaderAssumption DEF TypeInv, TypeOK
      <3>2. ~lossy /\ Len(queue) # MaxQueue
        BY <1>1 DEF Emit
      <3>3. Len(queue) < MaxQueue
        BY <3>1, <3>2
      <3> QED
        BY <1>1, <3>2, <3>3 DEF Emit
    <2>2. Stream' = Append(Stream, e)
      <3>1. batch \in Seq(Event) /\ queue \in Seq(Event)
        BY DEF TypeInv, TypeOK
      <3> HIDE DEF e
      <3>2. batch \o Append(queue, e) = Append(batch \o queue, e)
        BY <1>2, <3>1
      <3> QED
        BY <1>3, <2>1, <3>2 DEF Stream
    <2>3. \/ ~IsPress(k, e) /\ ~IsRelease(k, e) /\ (k \in held => k \in held')
          \/ IsPress(k, e) /\ ~IsRelease(k, e) /\ k \notin held /\ k \in held'
          \/ IsRelease(k, e) /\ ~IsPress(k, e)
      BY <1>1 DEF IsPress, IsRelease
    <2>4. Alternating(k, state[k].down, Stream, held)
      BY <2>1 DEF TimeInv, InStep
    <2>5. state[k].down \in BOOLEAN
      BY DEF TypeInv, TypeOK, State
    <2>6. Stream \in Seq(Event)
      BY StreamType
    <2>7. state' = state
      BY <1>3
    <2> HIDE DEF e
    <2>8. Alternating(k, state[k].down, Append(Stream, e), held')
      BY <1>2, <2>3, <2>4, <2>5, <2>6, AlternatingAppend
    <2> QED
      BY <2>2, <2>7, <2>8
  <1> QED
    BY <1>3, <1>4, TimeOutside DEF TimeInv

\* The device goes away, or time passes.
LEMMA TimeAway ==
  ASSUME TimeInv, GoAway \/ Tick \/ UNCHANGED vars
  PROVE  TimeInv'
  <1>1. /\ UNCHANGED <<batch, state, since, pc, event, at, mode, skewed, fired>>
        /\ lossy => lossy'
    BY DEF GoAway, Tick, vars, kernel, loop, engine, history
  <1>2. lossy' \/ UNCHANGED <<lossy, queue, held>>
    BY DEF GoAway, Tick, vars, kernel
  <1>3. InStep'
    BY <1>1, <1>2 DEF TimeInv, InStep, Stream
  <1> QED
    BY <1>1, <1>3, TimeOutside DEF TimeInv

\* A read empties the kernel's buffer; all ages grow alike.
LEMMA TimePoll == ASSUME TypeInv, TimeInv, Poll PROVE TimeInv'
  <1>1. /\ batch = <<>> /\ batch' = NextWanted(queue) /\ queue' = <<>>
        /\ state' = [k \in Key |-> Grown(state[k])]
        /\ since' = [k \in Key |-> IF since[k] = None THEN None ELSE Later(since[k], late)]
        /\ pc = "loop" /\ UNCHANGED <<held, lossy, pc, fired>>
    BY DEF Poll
  <1>2. queue \in Seq(Event)
    BY DEF TypeInv, TypeOK
  <1>3. \A k \in Key : state[k] \in State /\ state'[k].down = state[k].down /\ state'[k].down \in BOOLEAN
    <2> TAKE k \in Key
    <2>1. state[k] \in State /\ state'[k] = Grown(state[k])
      BY <1>1 DEF TypeInv, TypeOK
    <2> QED
      BY <2>1 DEF Grown, State
  <1>4. InStep'
    <2> SUFFICES ASSUME ~lossy, NEW k \in Key
                 PROVE  Alternating(k, state'[k].down, Stream', held)
      BY <1>1 DEF InStep
    <2>1. Stream = queue
      BY <1>1, <1>2 DEF Stream
    <2>2. NextWanted(queue) \in Seq(Event)
      BY <1>2, NextWantedType
    <2>3. Stream' = NextWanted(queue)
      BY <1>1, <2>2 DEF Stream
    <2>4. PICK d \in 0 .. Len(queue) :
            /\ Len(NextWanted(queue)) = Len(queue) - d
            /\ \A i \in 1 .. Len(NextWanted(queue)) : NextWanted(queue)[i] = queue[i + d]
            /\ \A i \in 1 .. d : ~Wanted(queue[i])
      BY <1>2, NextWantedDrops
    <2>5. \A i \in 1 .. d : ~IsPress(k, queue[i]) /\ ~IsRelease(k, queue[i])
      <3> TAKE i \in 1 .. d
      <3>1. queue[i] \in Event /\ ~Wanted(queue[i])
        BY <1>2, <2>4
      <3> QED
        BY <3>1, UnwantedIsNothing
    <2>6. Alternating(k, state'[k].down, queue, held)
      BY <1>3, <2>1 DEF TimeInv, InStep
    <2>7. state'[k].down \in BOOLEAN
      BY <1>3
    <2>8. \A i \in 2 .. d : ~IsPress(k, queue[i]) /\ ~IsRelease(k, queue[i])
      BY <2>5
    <2>9. /\ (d = 0 \/ ~IsPress(k, queue[1])) /\ state'[k].down => state'[k].down
          /\ d # 0 /\ IsRelease(k, queue[1]) => ~state'[k].down
      BY <2>5
    <2>10. Alternating(k, state'[k].down, NextWanted(queue), held)
      BY <1>2, <2>2, <2>4, <2>6, <2>7, <2>8, <2>9, AlternatingDrop
    <2> QED
      BY <2>3, <2>10
  <1>5. Aged'
    <2> SUFFICES ASSUME ~lossy, NEW k \in Key, state'[k].down
                 PROVE  since'[k] # None /\ state'[k].downSince <= since'[k] /\ state'[k].lastFire <= since'[k]
      BY <1>1 DEF Aged
    <2>1. /\ state[k].down /\ since[k] # None /\ state[k].downSince <= since[k] /\ state[k].lastFire <= since[k]
      BY <1>3 DEF TimeInv, Aged
    <2>2. /\ since[k] \in Age /\ late \in Age
          /\ state[k] \in State /\ state[k].downSince \in Age /\ state[k].lastFire \in Age
      BY <1>3, <2>1 DEF TypeInv, TypeOK, State
    <2>3. since'[k] = Later(since[k], late)
      BY <1>1, <2>1
    <2>4. state'[k].downSince = Later(state[k].downSince, late) /\ state'[k].lastFire = Later(state[k].lastFire, late)
      <3>1. state'[k] = [state[k] EXCEPT !.downSince = Later(@, late), !.lastFire = Later(@, late)]
        BY <1>1, <2>1 DEF Grown
      <3> QED
        BY <2>2, <3>1 DEF State
    <2>5. \A a, b \in Age : a <= b => Later(a, late) <= Later(b, late)
      BY <2>2, HoldReaderAssumption DEF Later, Age
    <2>6. since'[k] # None
      <3>1. Age \subseteq Nat
        BY DEF Age
      <3>2. since'[k] \in Age
        BY <2>2, <2>3, LaterType
      <3> QED
        BY <3>1, <3>2, HoldReaderAssumption
    <2> QED
      BY <2>1, <2>2, <2>3, <2>4, <2>5, <2>6
  <1>6. Synthetic' /\ Matched'
    BY <1>1 DEF TimeInv, Synthetic, Matched
  <1> QED
    BY <1>4, <1>5, <1>6 DEF TimeInv

\* The first event is tracked: a press if a rule holds the key, a release always.
\* A press that is not tracked finds the key up.
LEMMA TimeProcess == ASSUME TypeInv, TimeInv, ProcessEvent PROVE TimeInv'
  <1> DEFINE e == Head(batch)
  <1>1. /\ batch # <<>> /\ batch' = NextWanted(Tail(batch)) /\ state' = Tracked(e)
        /\ event' = e /\ pc = "loop"
        /\ since' = [since EXCEPT ![e.key] = IF e.value = 1 THEN 0 ELSE None]
        /\ UNCHANGED <<queue, held, lossy, fired>>
    BY DEF ProcessEvent, kernel
  <1>2. /\ e.key \in Key /\ e.value \in {0, 1} /\ e \in Event /\ Tail(batch) \in Seq(Event)
    BY <1>1, HeadType DEF Value, Event
  <1>3. /\ batch \in Seq(Event) /\ queue \in Seq(Event) /\ Len(batch) \in Nat \ {0}
        /\ Len(queue) \in Nat /\ e = batch[1]
        /\ Len(Tail(batch)) = Len(batch) - 1
        /\ \A i \in 1 .. Len(batch) - 1 : Tail(batch)[i] = batch[i + 1]
    BY <1>1 DEF TypeInv, TypeOK
  <1> HIDE DEF e
  <1>4. /\ state \in [Key -> State] /\ state' \in [Key -> State]
        /\ since \in [Key -> Age \cup {None}]
    BY ProcessStep DEF TypeInv, TypeOK
  <1>5. /\ Stream \in Seq(Event) /\ Len(Stream) = Len(batch) + Len(queue) /\ Stream[1] = e
        /\ \A i \in 1 .. Len(batch) : Stream[i] = batch[i]
        /\ \A i \in 1 .. Len(queue) : Stream[i + Len(batch)] = queue[i]
    BY <1>3, StreamType
  <1>6. PICK c \in 0 .. Len(batch) - 1 :
          /\ Len(batch') = Len(batch) - 1 - c
          /\ \A i \in 1 .. Len(batch') : batch'[i] = Tail(batch)[i + c]
          /\ \A i \in 1 .. c : ~Wanted(Tail(batch)[i])
    BY <1>1, <1>2, <1>3, NextWantedDrops
  <1>7. batch' \in Seq(Event)
    BY <1>1, <1>2, NextWantedType
  <1>8. /\ Stream' \in Seq(Event) /\ Len(Stream') = Len(batch') + Len(queue)
        /\ \A i \in 1 .. Len(batch') : Stream'[i] = batch'[i]
        /\ \A i \in 1 .. Len(queue) : Stream'[i + Len(batch')] = queue[i]
    BY <1>1, <1>3, <1>7 DEF Stream
  <1> DEFINE d == c + 1
  <1>9. /\ d \in 0 .. Len(Stream) /\ d # 0
        /\ Len(Stream') = Len(Stream) - d
        /\ \A i \in 1 .. Len(Stream') : Stream'[i] = Stream[i + d]
    <2>1. d \in 0 .. Len(Stream) /\ d # 0 /\ Len(Stream') = Len(Stream) - d
      BY <1>3, <1>5, <1>6, <1>8
    <2>2. ASSUME NEW i \in 1 .. Len(Stream') PROVE Stream'[i] = Stream[i + d]
      <3>1. CASE i \in 1 .. Len(batch')
        <4>1. i + c \in 1 .. Len(batch) - 1 /\ i + d \in 1 .. Len(batch) /\ i + c + 1 = i + d
          BY <1>3, <1>6, <3>1
        <4>2. Stream'[i] = Tail(batch)[i + c] /\ Tail(batch)[i + c] = batch[i + d]
          BY <1>3, <1>6, <1>8, <3>1, <4>1
        <4> QED
          BY <1>5, <4>1, <4>2
      <3>2. CASE i \notin 1 .. Len(batch')
        <4>1. Len(batch') \in Nat /\ i \in Nat /\ i > Len(batch') /\ i <= Len(batch') + Len(queue)
          BY <1>7, <1>8, <3>2
        <4> DEFINE j == i - Len(batch')
        <4>2. j \in 1 .. Len(queue) /\ i = j + Len(batch') /\ i + d = j + Len(batch)
          BY <1>3, <1>6, <4>1
        <4>3. Stream'[j + Len(batch')] = queue[j] /\ Stream[j + Len(batch)] = queue[j]
          <5> HIDE DEF j
          <5> QED
            BY <1>5, <1>8, <4>2
        <4> QED
          BY <4>2, <4>3
      <3> QED
        BY <3>1, <3>2
    <2> QED
      BY <2>1, <2>2
  <1>10. \A k \in Key, i \in 2 .. d : ~IsPress(k, Stream[i]) /\ ~IsRelease(k, Stream[i])
    <2> TAKE k \in Key, i \in 2 .. d
    <2>1. i - 1 \in 1 .. c /\ i - 1 \in 1 .. Len(batch) - 1 /\ i \in 1 .. Len(batch)
      BY <1>3, <1>6
    <2>2. Tail(batch)[i - 1] = Stream[i] /\ Stream[i] \in Event
      BY <1>3, <1>5, <2>1
    <2> QED
      BY <1>6, <2>1, <2>2, UnwantedIsNothing
  <1> HIDE DEF d
  <1>11. ASSUME ~lossy, IsPress(e.key, e) PROVE ~state[e.key].down
    <2>1. Alternating(e.key, state[e.key].down, Stream, held)
      BY <1>2, <1>11 DEF TimeInv, InStep
    <2>2. 1 \in 0 + 1 .. Len(Stream) /\ 0 \in 0 .. Len(Stream) /\ IsPress(e.key, Stream[1])
      BY <1>3, <1>5, <1>11
    <2>3. state[e.key].down => \E l \in 0 + 1 .. 1 - 1 : IsRelease(e.key, Stream[l])
      BY <2>1, <2>2 DEF Alternating
    <2> QED
      BY <2>3
  <1>12. /\ \A k \in Key : k # e.key => state'[k] = state[k] /\ since'[k] = since[k]
         /\ e.value = 0 => state'[e.key] = Up
         /\ e.value = 1 => since'[e.key] = 0 /\ state'[e.key] \in {Pressed, state[e.key]}
    BY <1>1, <1>2, <1>4 DEF Tracked
  <1>13. InStep'
    <2> SUFFICES ASSUME ~lossy, NEW k \in Key
                 PROVE  Alternating(k, state'[k].down, Stream', held)
      BY <1>1 DEF InStep
    <2>1. Alternating(k, state[k].down, Stream, held)
      BY DEF TimeInv, InStep
    <2>2. state[k].down \in BOOLEAN /\ state'[k].down \in BOOLEAN
      BY <1>4 DEF State
    <2>3. (d = 0 \/ ~IsPress(k, Stream[1])) /\ state'[k].down => state[k].down
      BY <1>2, <1>5, <1>9, <1>12 DEF IsPress, Up
    <2>4. d # 0 /\ IsRelease(k, Stream[1]) => ~state'[k].down
      BY <1>2, <1>5, <1>12 DEF IsRelease, Up
    <2>5. \A i \in 2 .. d : ~IsPress(k, Stream[i]) /\ ~IsRelease(k, Stream[i])
      BY <1>10
    <2>6. Stream \in Seq(Event) /\ Stream' \in Seq(Event)
      BY <1>5, <1>8
    <2> QED
      BY <1>9, <2>1, <2>2, <2>3, <2>4, <2>5, <2>6, AlternatingDrop
  <1>14. Aged'
    <2> SUFFICES ASSUME ~lossy, NEW k \in Key, state'[k].down
                 PROVE  since'[k] # None /\ state'[k].downSince <= since'[k] /\ state'[k].lastFire <= since'[k]
      BY <1>1 DEF Aged
    <2>1. CASE k # e.key
      BY <1>12, <2>1 DEF TimeInv, Aged
    <2>2. CASE k = e.key
      <3>1. e.value = 1
        BY <1>2, <1>12, <2>2 DEF Up
      <3>2. state'[k] = Pressed /\ since'[k] = 0
        BY <1>11, <1>12, <2>2, <3>1 DEF IsPress
      <3>3. Pressed.downSince = 0 /\ Pressed.lastFire = 0
        BY DEF Pressed, Up
      <3> QED
        BY <3>2, <3>3, HoldReaderAssumption
    <2> QED
      BY <2>1, <2>2
  <1>15. Synthetic'
    BY <1>1, <1>2 DEF Synthetic
  <1>16. Matched'
    BY <1>1 DEF TimeInv, Matched
  <1> QED
    BY <1>13, <1>14, <1>15, <1>16 DEF TimeInv

\* A rule of the mode matches; a hold rule was ripe, and is of the event's key.
LEMMA TimeRun == ASSUME TypeInv, TimeInv, RunRule PROVE TimeInv'
  <1> DEFINE i == Min(Matching)
  <1>1. mode \in ModeId /\ at \in Nat \ {0} /\ Matching # {} /\ pc = "rules"
    BY DEF TypeInv, TypeOK, RunRule
  <1>2. i \in DOMAIN Current /\ i \in at .. Len(Current) /\ Matches(Current[i], event)
    BY <1>1, MatchingType
  <1>3. /\ fired' = Current[i] /\ at' = i + 1
        /\ UNCHANGED <<kernel, pc, batch, event, mode, state, since, skewed>>
    BY DEF RunRule, Fire, engine
  <1> HIDE DEF i
  <1>4. i \in Nat /\ Current[i].key \in Key /\ Current[i].key = event.key
    BY <1>1, <1>2, RuleType DEF Matches
  <1>5. InStep' /\ Aged'
    BY <1>3 DEF kernel, TimeInv, InStep, Aged, Stream
  <1>6. \A r : Ripe(r)' <=> Ripe(r)
    BY <1>3 DEF Ripe
  <1>7. \A k : Plain(k)' <=> Plain(k)
    BY <1>3 DEF Plain, Alone
  <1>8. Synthetic'
    <2> SUFFICES ASSUME event.value = 2
                 PROVE  /\ batch = <<>> /\ state[event.key].down
                        /\ ~lossy /\ Plain(event.key) =>
                             \A j \in i + 1 .. Len(Current) : Matches(Current[j], event) => Ripe(Current[j])
      BY <1>1, <1>3, <1>6, <1>7 DEF Synthetic, Current, Matches, HoldRule, kernel
    <2>1. \A j \in i + 1 .. Len(Current) : j \in at .. Len(Current)
      BY <1>1, <1>2, <1>4
    <2> QED
      BY <1>1, <2>1 DEF TimeInv, Synthetic
  <1>9. Matched'
    <2> SUFFICES ASSUME HoldRule(Current[i])
                 PROVE  event.value = 2 /\ (~lossy /\ Plain(event.key) => Ripe(Current[i]))
      BY <1>1, <1>3, <1>4, <1>6, <1>7 DEF Matched, HoldRule, kernel
    <2>1. event.value = 2
      BY <1>2 DEF Matches, HoldRule
    <2> QED
      BY <1>1, <1>2, <2>1 DEF TimeInv, Synthetic
  <1> QED
    BY <1>5, <1>8, <1>9 DEF TimeInv

\* A rule that changes the mode leaves a hold event's key skewed.
LEMMA TimeChange == ASSUME TypeInv, TimeInv, ChangeMode PROVE TimeInv'
  <1> DEFINE i == Min(Matching)
  <1>1. mode \in ModeId /\ at \in Nat \ {0} /\ Matching # {} /\ pc = "rules"
    BY DEF TypeInv, TypeOK, ChangeMode
  <1>2. i \in DOMAIN Current /\ Matches(Current[i], event)
    BY <1>1, MatchingType
  <1>3. /\ fired' = Current[i] /\ pc' \in {"rules", "crashed"}
        /\ skewed' = IF event.value = 2 THEN skewed \cup {event.key} ELSE skewed
        /\ UNCHANGED <<kernel, batch, event, state, since>>
    BY <1>1 DEF ChangeMode, Fire
  <1> HIDE DEF i
  <1>4. Current[i].key \in Key /\ Current[i].key = event.key
    BY <1>1, <1>2, RuleType DEF Matches
  <1>5. InStep' /\ Aged'
    BY <1>3 DEF kernel, TimeInv, InStep, Aged, Stream
  <1>6. event.value = 2 => ~Plain(event.key)'
    BY <1>3 DEF Plain
  <1>7. Synthetic'
    BY <1>1, <1>3, <1>6 DEF TimeInv, Synthetic
  <1>8. HoldRule(Current[i]) => event.value = 2
    BY <1>2 DEF Matches, HoldRule
  <1>9. Matched'
    BY <1>3, <1>4, <1>6, <1>8 DEF Matched, HoldRule
  <1> QED
    BY <1>5, <1>7, <1>9 DEF TimeInv

\* The loop over the rules ends.
LEMMA TimeDone == ASSUME TimeInv, RulesDone PROVE TimeInv'
  <1>1. /\ pc' = "loop" /\ fired' = None
        /\ UNCHANGED <<kernel, batch, state, since>>
    BY DEF RulesDone
  <1>2. InStep' /\ Aged'
    BY <1>1 DEF kernel, TimeInv, InStep, Aged, Stream
  <1> QED
    BY <1>1, <1>2 DEF TimeInv, Synthetic, Matched

\* A hold is due: the key has been down for as long as the rule says, and the rule
\* is the only one that the event can match.
LEMMA TimeService == ASSUME TypeInv, TimeInv, ServiceHold PROVE TimeInv'
  <1> DEFINE i == Min(DueHolds)
             r == Current[i]
             k == r.key
  <1>1. /\ mode \in ModeId /\ holdAt \in Nat \ {0} /\ DueHolds # {}
        /\ state \in [Key -> State] /\ pc = "loop" /\ since \in [Key -> Age \cup {None}]
    BY DEF TypeInv, TypeOK, ServiceHold
  <1>2. i \in DOMAIN Current /\ HoldRule(r) /\ Due(r, state[k])
    BY <1>1, DueHoldsType
  <1>3. k \in Key /\ r.ms \in Nat
    BY <1>1, <1>2, RuleType
  <1>4. /\ state' = [state EXCEPT ![k] = AfterDue(r, state[k])]
        /\ event' = [key |-> k, value |-> 2] /\ at' = 1 /\ pc' = "rules" /\ batch = <<>>
        /\ UNCHANGED <<kernel, batch, mode, since, skewed, fired>>
    BY DEF ServiceHold, engine, history
  <1> HIDE DEF i
  <1>5. \A q \in Key : state'[q] = IF q = k THEN AfterDue(r, state[k]) ELSE state[q]
    BY <1>1, <1>3, <1>4
  <1> HIDE DEF r
  <1>6. /\ state[k].down /\ AfterDue(r, state[k]).down
        /\ AfterDue(r, state[k]).downSince = state[k].downSince
        /\ AfterDue(r, state[k]).lastFire \in {0, state[k].lastFire}
        /\ state[k].downSince \in Nat /\ state[k].lastFire \in Nat
        /\ r.ms <= state[k].downSince \/ r.ms <= state[k].lastFire
    <2>1. state[k] \in State /\ Age \subseteq Nat
      BY <1>1, <1>3 DEF Age
    <2> QED
      BY <1>2, <1>3, <2>1 DEF AfterDue, Due, HoldRule, State
  <1>7. InStep'
    <2>1. \A q \in Key : state'[q].down = state[q].down
      BY <1>1, <1>5, <1>6 DEF State
    <2>2. UNCHANGED <<lossy, held, Stream>>
      BY <1>4 DEF kernel, Stream
    <2> QED
      BY <2>1, <2>2 DEF TimeInv, InStep
  <1>8. ~lossy => since[k] # None /\ since[k] \in Nat /\ state[k].downSince <= since[k] /\ state[k].lastFire <= since[k]
    <2>1. since[k] \in Age \cup {None} /\ Age \subseteq Nat
      BY <1>1, <1>3 DEF Age
    <2> QED
      BY <1>3, <1>6, <2>1 DEF TimeInv, Aged
  <1>9. Aged'
    <2> SUFFICES ASSUME ~lossy, NEW q \in Key, state'[q].down
                 PROVE  since[q] # None /\ state'[q].downSince <= since[q] /\ state'[q].lastFire <= since[q]
      BY <1>4 DEF Aged, kernel
    <2>1. CASE q = k
      BY <1>3, <1>5, <1>6, <1>8, <2>1
    <2>2. CASE q # k
      BY <1>5, <2>2 DEF TimeInv, Aged
    <2> QED
      BY <2>1, <2>2
  <1>10. ~lossy => r.ms <= since[k] /\ since[k] # None
    BY <1>3, <1>6, <1>8
  <1>11. Synthetic'
    <2>1. state'[k].down /\ event'.key = k /\ event'.value = 2 /\ Current' = Current
          /\ lossy' = lossy /\ at' = 1 /\ batch' = <<>>
      BY <1>3, <1>4, <1>5, <1>6 DEF Current, kernel
    <2>2. ASSUME ~lossy, Plain(k), NEW j \in 1 .. Len(Current), Matches(Current[j], event')
          PROVE  Ripe(Current[j])'
      <3>1. Current[j].key = k /\ HoldRule(Current[j])
        BY <2>1, <2>2 DEF Matches, HoldRule
      <3>2. j \in DOMAIN Current /\ Alone(k)
        BY <1>1, <2>2, RuleType DEF Plain
      <3>3. j = i
        BY <1>1, <1>2, <1>3, <3>1, <3>2, OneHoldRule DEF r
      <3>4. since' = since /\ Current[j] = r /\ r.key = k
        BY <1>4, <3>3 DEF r
      <3> QED
        BY <1>10, <2>1, <2>2, <3>4 DEF Ripe
    <2>3. ASSUME Plain(event.key)' PROVE Plain(k)
      <3>1. event'.key = k /\ skewed' = skewed
        BY <1>4, <2>1
      <3> QED
        BY <2>3, <3>1 DEF Plain, Alone
    <2>4. ASSUME ~lossy', Plain(event.key)', NEW j \in (1 .. Len(Current))',
                 Matches(Current[j], event)'
          PROVE  Ripe(Current[j])'
      <3>1. ~lossy /\ Plain(k) /\ j \in 1 .. Len(Current) /\ Matches(Current[j], event')
        BY <2>1, <2>3, <2>4 DEF Matches
      <3> QED
        BY <2>2, <3>1
    <2>5. batch' = <<>> /\ state'[event'.key].down
      BY <2>1
    <2> QED
      BY <2>1, <2>4, <2>5 DEF Synthetic
  <1>12. Matched'
    BY <1>1, <1>4 DEF TimeInv, Matched
  <1> QED
    BY <1>7, <1>9, <1>11, <1>12 DEF TimeInv

\* Every step keeps what the reader believes in step with the kernel.
LEMMA TimeStep == TypeInv /\ TimeInv /\ [Next]_vars => TimeInv'
  BY TimeKernel, TimeAway, TimePoll, TimeProcess, TimeRun, TimeChange, TimeDone, TimeService
     DEF Next, Reader

\* What InTime says is in the invariant: the stream of a hold event is the kernel's
\* buffer.
LEMMA TimeGives == TypeInv /\ TimeInv => InTime
  <1> SUFFICES ASSUME TypeInv, TimeInv, Holding, ~lossy PROVE
        LET k == fired.key
        IN  /\ k \in held \/ \E i \in DOMAIN queue : IsRelease(k, queue[i])
            /\ (Alone(k) /\ k \notin skewed) => since[k] # None /\ since[k] >= fired.ms
    BY DEF InTime
  <1> DEFINE k == fired.key
  <1>1. /\ pc # "loop" /\ event.value = 2 /\ event.key = k /\ k \in Key
        /\ Plain(k) => Ripe(fired)
    BY DEF TimeInv, Matched, Holding
  <1>2. batch = <<>> /\ state[k].down
    BY <1>1 DEF TimeInv, Synthetic
  <1>3. queue \in Seq(Event)
    BY DEF TypeInv, TypeOK
  <1>4. Stream = queue
    BY <1>2, <1>3 DEF Stream
  <1>5. Alternating(k, state[k].down, queue, held)
    BY <1>1, <1>4 DEF TimeInv, InStep
  <1>6. 0 \in 0 .. Len(queue)
    BY <1>3
  <1>7. k \in held \/ \E l \in 0 + 1 .. Len(queue) : IsRelease(k, queue[l])
    BY <1>2, <1>5, <1>6 DEF Alternating
  <1>8. k \in held \/ \E l \in DOMAIN queue : IsRelease(k, queue[l])
    BY <1>3, <1>7
  <1>9. Plain(k) => since[k] # None /\ fired.ms <= since[k]
    BY <1>1 DEF Ripe
  <1> QED
    BY <1>8, <1>9 DEF Plain

\* A hold rule matches only while the key is down or its release has not been read,
\* and not before the rule's delay: the ages of holdState follow the press through
\* changes of mode, autorepeat and rounds that read nothing (holdgen::onPress,
\* onRelease, due; in_func serves the holds after the events of the same read).
THEOREM Timely == Spec => []InTime
  <1>1. Init => IInv /\ TimeInv
    BY InvInit, TimeInit
  <1>2. IInv /\ TimeInv /\ [Next]_vars => (IInv /\ TimeInv)'
    BY InvStep, TimeStep DEF IInv
  <1>3. IInv /\ TimeInv => InTime
    BY TimeGives DEF IInv
  <1> QED
    BY <1>1, <1>2, <1>3, PTL DEF Spec
=============================================================================
