--------------------------- MODULE LibraryProofs ---------------------------
(***************************************************************************)
(* Proofs about Library, for every set of boards and every number of       *)
(* operations, edits, faults and reloads.  However operations overlap, no  *)
(* board shows the modes of another one; while they do not, what the page  *)
(* said is saved is stored, and a board that was removed stays removed.    *)
(***************************************************************************)
EXTENDS Library, FiniteSetTheorems, WellFoundedInduction, TLAPS

\* The ids of the mode table are 1, 2, ... in the order of insertion, and a row
\* links one of them.
Tables ==
  /\ \E S : modes \in Seq(S)
  /\ \A id \in DOMAIN rows : rows[id].mode \in 0 .. Len(modes)

\* The fields of an operation that the proofs need.
Shaped(s) == {"kind", "pc", "top", "got"} \subseteq DOMAIN s /\ Table \subseteq DOMAIN s.top

\* The maximum an operation has read is no more than the number of modes, which
\* only grows: the id it makes of it is in use by now, or is the next one.
Sound(s) ==
  /\ s.pc = "max" => s.top["mode"] \in 0 .. Len(modes) \cup {None}
  /\ s.pc = "delete" /\ s.kind # "remove" => s.top["mode"] \in 0 .. Len(modes)
  /\ s.pc = "post" => s.got.mode \in 1 .. Len(modes) + 1

InProgress(s) == s = Idle \/ (Shaped(s) /\ Sound(s))

FlowsSound == DOMAIN flows = Flow /\ \A f \in Flow : InProgress(flows[f])

IInv == Tables /\ FlowsSound /\ Linked

-----------------------------------------------------------------------------
\* What Append makes of the mode table.
LEMMA AppendMode ==
  ASSUME NEW S, NEW s \in Seq(S), NEW e
  PROVE  /\ Append(s, e) \in Seq(S \cup {e})
         /\ Len(s) \in Nat /\ DOMAIN s = 1 .. Len(s)
         /\ Len(Append(s, e)) = Len(s) + 1
         /\ \A i \in 1 .. Len(s) : Append(s, e)[i] = s[i]
         /\ Append(s, e)[Len(s) + 1] = e
  <1> DEFINE T == S \cup {e}
  <1>1. s \in Seq(T) /\ e \in T
    OBVIOUS
  <1> HIDE DEF T
  <1>2. /\ Append(s, e) \in Seq(T)
        /\ Len(s) \in Nat /\ DOMAIN s = 1 .. Len(s)
        /\ Len(Append(s, e)) = Len(s) + 1
        /\ \A i \in 1 .. Len(s) : Append(s, e)[i] = s[i]
        /\ Append(s, e)[Len(s) + 1] = e
    BY <1>1
  <1> QED
    BY <1>2 DEF T

\* The number of modes is a natural number.
LEMMA ModesLen == Tables => Len(modes) \in Nat /\ DOMAIN modes = 1 .. Len(modes)
  BY AppendMode DEF Tables

\* What an operation has read stays sound while the mode table grows.
LEMMA SoundGrows ==
  ASSUME Tables, NEW s, InProgress(s), Len(modes') \in Nat, Len(modes) <= Len(modes')
  PROVE  InProgress(s)'
  <1>1. Len(modes) \in Nat
    BY ModesLen
  <1> QED
    BY <1>1 DEF InProgress, Shaped, Sound

\* A new operation has read nothing yet.
LEMMA NewOperation ==
  ASSUME NEW kind, NEW pc, NEW name, NEW obj, NEW at, NEW id, NEW rules,
         pc # "post", pc = "delete" => kind = "remove"
  PROVE  InProgress(Operation(kind, pc, name, obj, at, id, rules))
  BY DEF InProgress, Shaped, Sound, Operation, Table

\* The next board to seed, or the list once more: nothing has been read.
LEMMA SeedSound == \A s : InProgress(Seed(s))
  <1> SUFFICES ASSUME NEW s PROVE InProgress(Seed(s))
    OBVIOUS
  <1>1. Seed(s).pc \in {"refetch", "max"} /\ Shaped(Seed(s)) /\ Seed(s).top["mode"] = None
    BY DEF Seed, Loading, Operation, Shaped, Table
  <1> QED
    BY <1>1 DEF InProgress, Sound

\* What follows a save: the next board to seed, or nothing.
LEMMA AfterSound == \A s : InProgress(After(s))
  BY SeedSound DEF After, InProgress

\* The request that is sent has the id after the highest that was read.
LEMMA SendingSound ==
  ASSUME Tables, NEW s, Shaped(s), s.top["mode"] \in 0 .. Len(modes)
  PROVE  InProgress(Sending(s))
  <1>1. Len(modes) \in Nat
    BY ModesLen
  <1>2. Sending(s).pc = "post" /\ Sending(s).got = Body(s) /\ Shaped(Sending(s))
    BY DEF Sending, Shaped
  <1>3. Body(s).mode \in 1 .. Len(modes) + 1
    BY <1>1 DEF Body
  <1> QED
    BY <1>2, <1>3 DEF InProgress, Sound

-----------------------------------------------------------------------------
\* The tables are empty; the load of the page has read nothing.
LEMMA InvInit == Init => IInv
  <1> SUFFICES ASSUME Init PROVE IInv
    OBVIOUS
  <1>1. Tables
    <2>1. modes \in Seq({})
      BY DEF Init
    <2> QED
      BY <2>1 DEF Tables, Init
  <1>2. FlowsSound
    <2>1. InProgress(Loading)
      BY NewOperation DEF Loading
    <2> QED
      BY <2>1 DEF Init, FlowsSound, InProgress
  <1>3. Linked
    BY DEF Init, Linked
  <1> QED
    BY <1>1, <1>2, <1>3 DEF IInv

\* A step that moves one operation on, and lets the mode table be or grow.
LEMMA OneFlow ==
  ASSUME IInv, NEW f \in Flow, NEW s, Continue(f, s), InProgress(s),
         Len(modes') \in Nat, Len(modes) <= Len(modes')
  PROVE  FlowsSound'
  <1>1. \A g \in Flow : \E w : InProgress(w) /\ flows'[g] = w
    BY DEF IInv, FlowsSound, Continue
  <1>2. ASSUME NEW g \in Flow PROVE InProgress(flows[g])'
    <2>1. PICK w : InProgress(w) /\ flows'[g] = w
      BY <1>1
    <2>2. InProgress(w)'
      BY <2>1, SoundGrows DEF IInv
    <2> QED
      BY <2>1, <2>2 DEF InProgress, Shaped, Sound
  <1>3. DOMAIN flows' = Flow
    BY DEF IInv, FlowsSound, Continue
  <1> QED
    BY <1>2, <1>3 DEF FlowsSound
\* A step that leaves the database alone.
LEMMA SameData ==
  ASSUME IInv, UNCHANGED database
  PROVE  Tables' /\ Linked' /\ Len(modes') \in Nat /\ Len(modes) <= Len(modes')
  BY ModesLen DEF IInv, database, Tables, Linked

\* A row goes.
LEMMA RowRemoved ==
  ASSUME IInv, NEW id, RemoveRow(id), UNCHANGED modes
  PROVE  Tables' /\ Linked' /\ Len(modes') \in Nat /\ Len(modes) <= Len(modes')
  BY ModesLen DEF IInv, RemoveRow, Tables, Linked

\* A new row and its mode: the id of the mode is not in use, so it is the next
\* one, and no other row links it.
LEMMA RowCreated ==
  ASSUME IInv, NEW id, NEW name, NEW mode \in 1 .. Len(modes) + 1, NEW rules, NEW worked,
         Create(id, name, mode, rules, worked)
  PROVE  Tables' /\ Linked' /\ Len(modes') \in Nat /\ Len(modes) <= Len(modes')
  <1>1. Len(modes) \in Nat /\ DOMAIN modes = 1 .. Len(modes)
    BY ModesLen DEF IInv
  <1>2. CASE UNCHANGED database
    BY <1>2, SameData
  <1>3. CASE id \notin DOMAIN rows /\ InsertRow(id, name, 0) /\ UNCHANGED modes
    <2>1. /\ DOMAIN rows' = DOMAIN rows \cup {id} /\ rows'[id].mode = 0
          /\ \A i \in DOMAIN rows : rows'[i] = rows[i]
      BY <1>3 DEF InsertRow
    <2> QED
      BY <1>1, <1>3, <2>1 DEF IInv, Tables, Linked
  <1>4. CASE /\ id \notin DOMAIN rows /\ mode \notin DOMAIN modes
             /\ InsertRow(id, name, mode)
             /\ modes' = Append(modes, [name |-> name, rules |-> rules])
    <2> DEFINE m == [name |-> name, rules |-> rules]
    <2>1. /\ DOMAIN rows' = DOMAIN rows \cup {id}
          /\ rows'[id].mode = mode /\ rows'[id].name = name
          /\ \A i \in DOMAIN rows : rows'[i] = rows[i]
      BY <1>4 DEF InsertRow
    <2>2. mode = Len(modes) + 1
      BY <1>1, <1>4
    <2>3. m.name = name
      OBVIOUS
    <2>4. modes' = Append(modes, m)
      BY <1>4
    <2> HIDE DEF m
    <2>5. /\ \E S : modes' \in Seq(S)
          /\ Len(modes') = Len(modes) + 1
          /\ \A i \in 1 .. Len(modes) : modes'[i] = modes[i]
          /\ modes'[mode] = m
      <3>1. PICK S : modes \in Seq(S)
        BY DEF IInv, Tables
      <3>2. /\ Append(modes, m) \in Seq(S \cup {m})
            /\ Len(Append(modes, m)) = Len(modes) + 1
            /\ \A i \in 1 .. Len(modes) : Append(modes, m)[i] = modes[i]
            /\ Append(modes, m)[Len(modes) + 1] = m
        BY <3>1, AppendMode
      <3> QED
        BY <2>2, <2>4, <3>2
    <2>6. Tables'
      BY <1>1, <2>1, <2>2, <2>5 DEF IInv, Tables
    <2>7. Linked'
      <3>1. \A i \in DOMAIN rows : rows[i].mode \in 0 .. Len(modes)
        BY DEF IInv, Tables
      <3> QED
        BY <1>1, <2>1, <2>2, <2>3, <2>5, <3>1 DEF IInv, Linked
    <2> QED
      BY <1>1, <2>5, <2>6, <2>7
  <1> QED
    BY <1>2, <1>3, <1>4 DEF Create

-----------------------------------------------------------------------------
\* One of the maxima is read; with the last one the operation sends, or deletes.
LEMMA MaxIdsStep ==
  ASSUME IInv, NEW f \in Flow, NEW t \in Table, MaxIds(f, t)
  PROVE  IInv'
  <1> DEFINE s == flows[f]
             read == [s EXCEPT !.top[t] = Highest(t)]
  <1>1. /\ UNCHANGED database /\ s.pc = "max" /\ s.top[t] = None
        /\ Continue(f, IF \E u \in Table : read.top[u] = None THEN read
                       ELSE IF read.id # None THEN [read EXCEPT !.pc = "delete"]
                       ELSE Sending(read))
    BY DEF MaxIds
  <1>2. Tables /\ Len(modes) \in Nat
    BY ModesLen DEF IInv
  <1>3. Shaped(s) /\ s.top["mode"] \in 0 .. Len(modes) \cup {None}
    BY <1>1 DEF IInv, FlowsSound, InProgress, Sound, Idle
  <1>4. /\ Shaped(read) /\ read.pc = "max"
        /\ read.top["mode"] \in 0 .. Len(modes) \cup {None}
    <2>1. Highest("mode") = Len(modes)
      BY DEF Highest
    <2> QED
      BY <1>1, <1>2, <1>3, <2>1 DEF Shaped, Table
  <1> HIDE DEF read, s
  <1>5. CASE \E u \in Table : read.top[u] = None
    <2>1. InProgress(read)
      BY <1>4 DEF InProgress, Sound
    <2>2. Continue(f, read)
      BY <1>1, <1>5
    <2> QED
      BY <1>1, <2>1, <2>2, OneFlow, SameData DEF IInv
  <1>6. CASE ~ \E u \in Table : read.top[u] = None
    <2>1. read.top["mode"] \in 0 .. Len(modes)
      BY <1>4, <1>6 DEF Table
    <2>2. CASE read.id # None
      <3>1. Continue(f, [read EXCEPT !.pc = "delete"])
        BY <1>1, <1>6, <2>2
      <3>2. InProgress([read EXCEPT !.pc = "delete"])
        BY <1>4, <2>1 DEF InProgress, Sound, Shaped
      <3> QED
        BY <1>1, <3>1, <3>2, OneFlow, SameData DEF IInv
    <2>3. CASE ~(read.id # None)
      <3>1. Continue(f, Sending(read))
        BY <1>1, <1>6, <2>3
      <3>2. InProgress(Sending(read))
        BY <1>2, <1>4, <2>1, SendingSound
      <3> QED
        BY <1>1, <3>1, <3>2, OneFlow, SameData DEF IInv
    <2> QED
      BY <2>2, <2>3
  <1> QED
    BY <1>5, <1>6
\* The old board of a save is deleted, or the board to remove; the request to
\* delete may fail.
LEMMA DeleteStep ==
  ASSUME IInv, NEW f \in Flow, DeleteOld(f) \/ DeleteFails(f)
  PROVE  IInv'
  <1> DEFINE s == flows[f]
  <1>1. /\ RemoveRow(s.id) \/ UNCHANGED rows
        /\ UNCHANGED modes
        /\ s.pc = "delete"
        /\ \/ s.kind = "remove" /\ Continue(f, [s EXCEPT !.pc = "undeploy"])
           \/ s.kind = "remove" /\ Continue(f, Idle)
           \/ s.kind # "remove" /\ Continue(f, Sending(s))
    BY DEF DeleteOld, DeleteFails, Fault, Untold
  <1>2. Tables' /\ Linked' /\ Len(modes') \in Nat /\ Len(modes) <= Len(modes')
    BY <1>1, RowRemoved, SameData DEF database
  <1>3. Shaped(s) /\ (s.kind # "remove" => s.top["mode"] \in 0 .. Len(modes))
    BY <1>1 DEF IInv, FlowsSound, InProgress, Sound, Idle
  <1> HIDE DEF s
  <1>4. CASE Continue(f, [s EXCEPT !.pc = "undeploy"])
    <2>1. InProgress([s EXCEPT !.pc = "undeploy"])
      BY <1>3 DEF InProgress, Shaped, Sound
    <2> QED
      BY <1>2, <1>4, <2>1, OneFlow DEF IInv
  <1>5. CASE Continue(f, Idle)
    BY <1>2, <1>5, OneFlow DEF IInv, InProgress
  <1>6. CASE s.kind # "remove" /\ Continue(f, Sending(s))
    <2>1. InProgress(Sending(s))
      BY <1>3, <1>6, SendingSound DEF IInv
    <2> QED
      BY <1>2, <1>6, <2>1, OneFlow DEF IInv
  <1> QED
    BY <1>1, <1>4, <1>5, <1>6

\* The request to create is served; the page goes on with the answer.
LEMMA PostStep ==
  ASSUME IInv, NEW f \in Flow, Post(f)
  PROVE  IInv'
  <1> DEFINE s == flows[f]
             b == s.got
  <1>1. PICK worked \in BOOLEAN :
          /\ s.pc = "post"
          /\ Create(b.id, b.name, b.mode, b.rules, worked)
          /\ Continue(f, IF worked THEN [s EXCEPT !.pc = "saved"] ELSE After(s))
    BY DEF Post
  <1>2. Shaped(s) /\ b.mode \in 1 .. Len(modes) + 1
    BY <1>1 DEF IInv, FlowsSound, InProgress, Sound, Idle
  <1> HIDE DEF b, s
  <1>3. Tables' /\ Linked' /\ Len(modes') \in Nat /\ Len(modes) <= Len(modes')
    BY <1>1, <1>2, RowCreated
  <1>4. InProgress([s EXCEPT !.pc = "saved"]) /\ InProgress(After(s))
    BY <1>2, AfterSound DEF InProgress, Shaped, Sound
  <1> QED
    BY <1>1, <1>3, <1>4, OneFlow DEF IInv

\* The steps of one operation that leave the database alone, and do not send.
LEMMA QuietStep ==
  ASSUME IInv, NEW f \in Flow, UNCHANGED database,
         \/ \E s : Continue(f, s) /\ InProgress(s)
         \/ UNCHANGED flows
  PROVE  IInv'
  <1>1. CASE \E s : Continue(f, s) /\ InProgress(s)
    BY <1>1, SameData, OneFlow DEF IInv
  <1>2. CASE UNCHANGED flows
    <2>1. IInv' = IInv
      BY <1>2 DEF IInv, database, Tables, FlowsSound, InProgress, Shaped, Sound, Linked
    <2> QED
      BY <2>1
  <1> QED
    BY <1>1, <1>2

\* The load of the page has its flow.
LEMMA FirstFlow == 1 \in Flow
  BY LibraryAssumption DEF Flow

\* Each step of the page, but for those above.
LEMMA PageStep ==
  ASSUME IInv,
         \/ \E i \in DOMAIN boards : Edit(i)
         \/ \E f \in Flow, i \in DOMAIN boards : PersistDevice(f, i) \/ PerformRemove(f, i)
         \/ \E f \in Flow, n \in Name : CreateFromDialog(f, n)
         \/ \E f \in Flow, n \in Name, i \in DOMAIN boards : CopyFromDialog(f, i, n)
         \/ \E f \in Flow : \/ SaveAnswered(f) \/ RemoveShown(f) \/ MaxIdsFails(f)
                            \/ PostLost(f) \/ AnswerLost(f)
         \/ Fetch \/ Refetch \/ Show \/ LoadFails
  PROVE  IInv'
  <1>1. ASSUME NEW i, Edit(i) PROVE IInv'
    BY <1>1, QuietStep, FirstFlow DEF Edit
  <1>2. ASSUME NEW f \in Flow, NEW kind, NEW pc, NEW name, NEW obj, NEW at, NEW id, NEW rules,
               UNCHANGED database, Start(f, Operation(kind, pc, name, obj, at, id, rules)),
               pc # "post", pc = "delete" => kind = "remove"
        PROVE  IInv'
    BY <1>2, QuietStep, NewOperation DEF Start, Continue
  <1>3. ASSUME NEW f \in Flow, NEW i \in DOMAIN boards, PersistDevice(f, i) \/ PerformRemove(f, i)
        PROVE  IInv'
    BY <1>2, <1>3 DEF PersistDevice, PerformRemove, page
  <1>4. ASSUME NEW f \in Flow, NEW n \in Name, CreateFromDialog(f, n) PROVE IInv'
    BY <1>2, <1>4 DEF CreateFromDialog
  <1>5. ASSUME NEW f \in Flow, NEW n \in Name, NEW i \in DOMAIN boards, CopyFromDialog(f, i, n)
        PROVE  IInv'
    BY <1>2, <1>5 DEF CopyFromDialog
  <1>6. ASSUME NEW f \in Flow, SaveAnswered(f) \/ MaxIdsFails(f) \/ PostLost(f) \/ AnswerLost(f)
        PROVE  IInv'
    BY <1>6, QuietStep, AfterSound DEF SaveAnswered, MaxIdsFails, PostLost, AnswerLost
  <1>7. ASSUME NEW f \in Flow, RemoveShown(f) PROVE IInv'
    BY <1>7, QuietStep DEF RemoveShown, InProgress
  <1>8. CASE Fetch \/ Refetch
    <2>1. UNCHANGED database /\ flows[1].pc \in {"fetch", "refetch"}
      BY <1>8 DEF Fetch, Refetch
    <2>2. Shaped(flows[1])
      BY <2>1, FirstFlow DEF IInv, FlowsSound, InProgress, Idle
    <2>3. \A got : InProgress([flows[1] EXCEPT !.pc = "show", !.got = got])
      BY <2>2 DEF InProgress, Shaped, Sound
    <2>4. \E s : Continue(1, s) /\ InProgress(s)
      BY <1>8, <2>3, SeedSound DEF Fetch, Refetch
    <2> QED
      BY <2>1, <2>4, QuietStep, FirstFlow
  <1>9. CASE Show \/ LoadFails
    BY <1>9, QuietStep, FirstFlow DEF Show, LoadFails, InProgress
  <1> QED
    BY <1>1, <1>3, <1>4, <1>5, <1>6, <1>7, <1>8, <1>9

\* A reload of the page forgets the operations in progress.
LEMMA ReloadStep == ASSUME IInv, Reload PROVE IInv'
  <1>1. UNCHANGED database /\ flows' = [f \in Flow |-> IF f = 1 THEN Loading ELSE Idle]
    BY DEF Reload
  <1>2. \A s \in {Loading, Idle} : InProgress(s)
    BY NewOperation DEF Loading, InProgress
  <1>3. \A f \in Flow : flows'[f] \in {Loading, Idle}
    BY <1>1
  <1>4. InProgress(Loading)' /\ InProgress(Idle)'
    BY <1>1, <1>2 DEF InProgress, Shaped, Sound, database, Loading, Operation, Idle
  <1>5. FlowsSound'
    BY <1>1, <1>3, <1>4 DEF FlowsSound, InProgress
  <1> QED
    BY <1>1, <1>5, SameData DEF IInv

\* Every step of the page, the backend and the network keeps the invariant.
LEMMA InvStep == IInv /\ [Next]_vars => IInv'
  <1> SUFFICES ASSUME IInv, [Next]_vars PROVE IInv'
    OBVIOUS
  <1>1. CASE UNCHANGED vars
    BY <1>1, QuietStep, FirstFlow DEF vars
  <1>2. CASE User
    BY <1>2, PageStep, ReloadStep DEF User
  <1>3. CASE Answers
    BY <1>3, PageStep, MaxIdsStep, DeleteStep, PostStep DEF Answers
  <1>4. CASE Faults
    BY <1>4, PageStep, DeleteStep DEF Faults
  <1> QED
    BY <1>1, <1>2, <1>3, <1>4 DEF Next

\* The strengthened invariant: the ids operations have computed stay sound.
LEMMA Invariant == Spec => []IInv
  BY InvInit, InvStep, PTL DEF Spec

\* However operations of the page overlap, whatever requests and answers are
\* lost: the modes a board links were written with it, and no other board links
\* them.
THEOREM NeverMixed == Spec => []Linked
  BY Invariant, PTL DEF IInv
-----------------------------------------------------------------------------
(* The types of operations *)

Id      == Nat \ {0}
Rules   == Nat \cup {None}
Posted  == [id : Id, mode : Nat, name : Name, rules : Rules]
Listed  == [id : Id, name : Name, rules : Rules]

\* The fields of an operation; what it has got depends on where it is (Fit).
Fields(got) ==
  [kind : {"load", "save", "create", "copy", "remove"},
   pc : {"fetch", "refetch", "show", "max", "delete", "post", "saved", "undeploy"},
   name : Name \cup {None}, obj : Nat \cup {None}, at : Nat, id : Id \cup {None},
   rules : Rules, top : [Table -> Nat \cup {None}], todo : SUBSET Bundled, got : {got}]

\* What an operation holds at each point.
Fit(s) ==
  /\ s.pc \notin {"fetch", "refetch", "show"} => s.name \in Name
  /\ s.pc \in {"delete", "undeploy"} => s.kind \in {"save", "remove"}
  /\ s.pc \in {"max", "post", "saved"} => s.kind # "remove"
  /\ s.pc = "undeploy" => s.kind = "remove"
  /\ s.pc = "delete" => s.id # None
  /\ s.pc \in {"post", "saved"} =>
       s.got \in Posted /\ s.got.name = s.name /\ (s.id # None => s.got.id = s.id)
  /\ s.pc = "show" => s.got \in Seq(Listed)
  /\ s.id # None => s.kind \in {"save", "remove"}
  /\ s.kind \in {"save", "remove"} => s.obj # None
  /\ s.obj # None => s.obj \in DOMAIN heap

Counters == count \in [{"ops", "edits", "faults", "reloads"} -> Nat]

DataOK ==
  /\ IsFiniteSet(DOMAIN rows) /\ DOMAIN rows \subseteq Id
  /\ \A id \in DOMAIN rows : rows[id].name \in Name /\ rows[id].mode \in 0 .. Len(modes)
  /\ modes \in Seq([name : Name, rules : Nat])

Shown == [name : Name, rules : Rules, told : Rules]

PageOK ==
  /\ heap \in Seq(Shown) /\ boards \in Seq(DOMAIN heap)
  /\ boardIds \in Seq(Id \cup {None})

-----------------------------------------------------------------------------
(* Removed boards *)

\* Operations that do not overlap.
Alone == ~crossed => \A f, g \in Flow : Busy(f) /\ Busy(g) => f = g

\* The names an operation may still show or store.
Brings(s) ==
  (IF s.kind = "remove" THEN {} ELSE {s.name}) \cup s.todo
    \cup (IF s.pc = "show" THEN {s.got[k].name : k \in DOMAIN s.got} ELSE {})

-----------------------------------------------------------------------------
(* Saved boards *)

HasRow(id, name, rules) ==
  id \in DOMAIN rows /\ rows[id].name = name /\ RulesOf(id) = rules

\* What the page has told of a board is so.
Told(i) ==
  LET b == heap[boards[i]]
  IN  b.told # None => HasRow(IdAt(i), b.name, b.told)

\* The arrays of the page belong together.
Paired ==
  /\ Len(boardIds) = Len(boards)
  /\ \A i, j \in DOMAIN boards : boards[i] = boards[j] => i = j
  /\ \A i, j \in DOMAIN boardIds : boardIds[i] = boardIds[j] /\ boardIds[i] # None => i = j

\* The board an operation works on is where it was.
InPlace(s) ==
  s.kind \in {"save", "remove"} =>
    /\ s.at \in DOMAIN boards /\ boards[s.at] = s.obj /\ IdAt(s.at) = s.id
    /\ heap[s.obj].name = s.name

\* What was sent is stored, under an id that no other board has.
Sent(s) ==
  s.pc = "saved" =>
    /\ HasRow(s.got.id, s.name, s.got.rules)
    /\ s.id = None => s.got.id \notin Range(boardIds)

\* What was listed is stored.
Current(s) ==
  s.pc = "show" =>
    /\ \A k \in DOMAIN s.got : HasRow(s.got[k].id, s.got[k].name, s.got[k].rules)
    /\ \A k, l \in DOMAIN s.got : s.got[k].id = s.got[l].id => k = l

-----------------------------------------------------------------------------
(* The invariant *)

Good(s) ==
  /\ s \in Fields(s.got) /\ Fit(s)
  /\ gone \cap Brings(s) = {}
  /\ ~crossed => (s.kind = "remove" => s.name \in tomb) /\ InPlace(s) /\ Sent(s) /\ Current(s)

FlowsGood == \A f \in Flow : Busy(f) => Good(flows[f])

TypeInv ==
  /\ DataOK /\ PageOK /\ Counters
  /\ tomb \subseteq Name /\ gone \subseteq Name /\ crossed \in BOOLEAN

GoneInv == gone \subseteq tomb /\ gone \cap (Names \cup Stored) = {}

SavedInv == ~crossed => Paired /\ \A i \in DOMAIN boards : Told(i)

PageInv == TypeInv /\ Alone /\ FlowsGood /\ GoneInv /\ SavedInv


-----------------------------------------------------------------------------
(* Sets of ids, and sequences *)

\* A set of numbers has a least one.
LEMMA Least ==
  ASSUME NEW S \in SUBSET Nat, S # {}
  PROVE  \E x \in S : \A y \in S : x <= y
  <1> DEFINE R == OpToRel(<, Nat)
  <1>1. IsWellFoundedOn(R, Nat)
    BY NatLessThanWellFounded
  <1>2. \A x, y \in Nat : <<y, x>> \in R <=> y < x
    BY DEF OpToRel
  <1> HIDE DEF R
  <1>3. PICK x \in S : \A y \in S : ~(<<y, x>> \in R)
    BY <1>1, WFMin
  <1>4. \A y \in S : x <= y
    <2> TAKE y \in S
    <2>1. x \in Nat /\ y \in Nat /\ ~(y < x)
      BY <1>2, <1>3
    <2> QED
      BY <2>1
  <1> QED
    BY <1>4

Enumerates(s, S) == s \in [1 .. Cardinality(S) -> S] /\ Ascending(s)

\* The ids of a table can be put in order: take the least and put the others, which
\* are fewer, in order behind it.
LEMMA Enumerable ==
  \A S \in SUBSET Nat : IsFiniteSet(S) => \E s : Enumerates(s, S)
  <1> DEFINE Fails(S) == IsFiniteSet(S) /\ ~ \E s : Enumerates(s, S)
             Sizes == {n \in Nat : \E S \in SUBSET Nat : Fails(S) /\ Cardinality(S) = n}
  <1> SUFFICES ASSUME Sizes # {} PROVE FALSE
    <2>1. ASSUME NEW S \in SUBSET Nat, Fails(S) PROVE Cardinality(S) \in Sizes
      BY <2>1, FS_CardinalityType
    <2> QED
      BY <2>1
  <1>1. PICK n \in Sizes : \A k \in Sizes : n <= k
    BY Least
  <1>2. PICK S \in SUBSET Nat : Fails(S) /\ Cardinality(S) = n
    OBVIOUS
  <1>3. CASE S = {}
    <2>1. Cardinality(S) = 0
      BY <1>3, FS_EmptySet
    <2>2. Enumerates(<<>>, S)
      BY <1>3, <2>1 DEF Enumerates, Ascending
    <2> QED
      BY <1>2, <2>2
  <1>4. CASE S # {}
    <2>1. PICK x \in S : \A y \in S : x <= y
      BY <1>4, Least
    <2> DEFINE T == S \ {x}
    <2>2. IsFiniteSet(T) /\ Cardinality(T) = n - 1 /\ T \in SUBSET Nat
      BY <1>2, <2>1, FS_RemoveElement
    <2>3. n - 1 \in Nat /\ n \in Nat
      BY <2>2, FS_CardinalityType
    <2>4. ~Fails(T)
      <3>1. n - 1 \notin Sizes
        BY <1>1, <2>3
      <3> QED
        BY <2>2, <2>3, <3>1
    <2>5. PICK t : Enumerates(t, T)
      BY <2>2, <2>4
    <2> DEFINE s == [k \in 1 .. n |-> IF k = 1 THEN x ELSE t[k - 1]]
    <2>6. \A k \in 1 .. n : k # 1 => k - 1 \in 1 .. n - 1 /\ k - 1 \in DOMAIN t /\ t[k - 1] \in T
      <3>1. t \in [1 .. n - 1 -> T]
        BY <2>2, <2>5 DEF Enumerates
      <3> HIDE DEF T
      <3> QED
        BY <2>3, <3>1
    <2>7. s \in [1 .. n -> S]
      BY <2>1, <2>6
    <2>8. ASSUME NEW k \in 1 .. n, NEW l \in 1 .. n, k < l PROVE s[k] < s[l]
      <3>1. l # 1 /\ t[l - 1] \in T /\ s[l] = t[l - 1]
        BY <2>3, <2>6, <2>8
      <3>2. CASE k = 1
        <4>1. s[k] = x /\ x \in Nat /\ t[l - 1] \in Nat /\ x # t[l - 1] /\ x <= t[l - 1]
          BY <2>1, <3>1, <3>2
        <4> QED
          BY <3>1, <4>1
      <3>3. CASE k # 1
        <4>1. k - 1 < l - 1 /\ s[k] = t[k - 1]
          BY <2>3, <2>8, <3>3
        <4> QED
          BY <2>5, <2>6, <3>1, <3>3, <4>1 DEF Enumerates, Ascending
      <3> QED
        BY <3>2, <3>3
    <2>9. Enumerates(s, S)
      <3>1. DOMAIN s = 1 .. n
        OBVIOUS
      <3> HIDE DEF s
      <3> QED
        BY <1>2, <2>7, <2>8, <3>1 DEF Enumerates, Ascending
    <2> QED
      BY <1>2, <2>9
  <1> QED
    BY <1>3, <1>4

\* The order has every id once, and the highest last.
LEMMA EnumeratesAll ==
  ASSUME NEW S \in SUBSET Nat, IsFiniteSet(S), NEW s, Enumerates(s, S)
  PROVE  /\ Cardinality(S) \in Nat
         /\ \A k, l \in DOMAIN s : s[k] = s[l] => k = l
         /\ \A x \in S : \E k \in DOMAIN s : s[k] = x
  <1> DEFINE n == Cardinality(S)
  <1>1. n \in Nat /\ s \in [1 .. n -> S]
    BY FS_CardinalityType DEF Enumerates
  <1>2. ASSUME NEW k \in 1 .. n, NEW l \in 1 .. n, s[k] = s[l] PROVE k = l
    <2>1. s[k] \in Nat /\ s[l] \in Nat
      BY <1>1
    <2>2. ~(k < l) /\ ~(l < k)
      BY <1>1, <1>2, <2>1 DEF Enumerates, Ascending
    <2> QED
      BY <1>1, <2>2
  <1>3. s \in Injection(1 .. n, S)
    BY <1>1, <1>2 DEF Injection, IsInjective
  <1>4. IsFiniteSet(1 .. n) /\ Cardinality(1 .. n) = n
    BY <1>1, FS_Interval
  <1>5. s \in Surjection(1 .. n, S)
    BY <1>3, <1>4, FS_Injection
  <1> QED
    BY <1>1, <1>2, <1>5 DEF Surjection

\* A finite set of numbers has a greatest one.
LEMMA Greatest ==
  ASSUME NEW S \in SUBSET Nat, IsFiniteSet(S), S # {}
  PROVE  Max(S) \in S
  <1>1. PICK s : Enumerates(s, S)
    BY Enumerable
  <1> DEFINE n == Cardinality(S)
  <1>2. n \in Nat /\ s \in [1 .. n -> S] /\ n # 0
    BY <1>1, EnumeratesAll, FS_EmptySet DEF Enumerates
  <1> HIDE DEF n
  <1>3. s[n] \in S /\ s[n] \in Nat
    <2>1. n \in 1 .. n
      BY <1>2
    <2> QED
      BY <1>2, <2>1
  <1>4. \A y \in S : s[n] >= y
    <2> TAKE y \in S
    <2>1. PICK k \in 1 .. n : s[k] = y
      <3>1. DOMAIN s = 1 .. n
        BY <1>2
      <3> QED
        BY <1>1, <3>1, EnumeratesAll
    <2>2. CASE k = n
      BY <1>3, <2>1, <2>2
    <2>3. CASE k # n
      <3>1. DOMAIN s = 1 .. n /\ n \in 1 .. n /\ k < n
        BY <1>2, <2>3
      <3>2. s[k] < s[n]
        BY <1>1, <3>1 DEF Enumerates, Ascending
      <3> QED
        BY <1>3, <2>1, <3>2
    <2> QED
      BY <2>2, <2>3
  <1> QED
    BY <1>3, <1>4 DEF Max

\* A finite set as a sequence.
LEMMA ToSeq ==
  ASSUME NEW S, IsFiniteSet(S)
  PROVE  /\ SetToSeq(S) \in Seq(S)
         /\ \A k, l \in DOMAIN SetToSeq(S) : SetToSeq(S)[k] = SetToSeq(S)[l] => k = l
  <1>1. Cardinality(S) \in Nat /\ ExistsBijection(1 .. Cardinality(S), S)
    BY FS_CardinalityType
  <1>2. \E f \in [1 .. Cardinality(S) -> S] : IsInjective(f)
    BY <1>1 DEF ExistsBijection, Bijection, Injection, IsInjective
  <1>3. SetToSeq(S) \in [1 .. Cardinality(S) -> S] /\ IsInjective(SetToSeq(S))
    BY <1>2 DEF SetToSeq
  <1> QED
    BY <1>1, <1>3 DEF IsInjective

\* Two sequences, one behind the other.
LEMMA Joined ==
  ASSUME NEW S, NEW s \in Seq(S), NEW t \in Seq(S)
  PROVE  /\ s \o t \in Seq(S) /\ Len(s \o t) = Len(s) + Len(t)
         /\ DOMAIN (s \o t) = 1 .. Len(s) + Len(t)
         /\ \A k \in 1 .. Len(s) : (s \o t)[k] = s[k]
         /\ \A k \in 1 .. Len(t) : (s \o t)[Len(s) + k] = t[k]
  OBVIOUS

\* A sequence without the element at one position.
LEMMA Removed ==
  ASSUME NEW S, NEW s \in Seq(S), NEW i \in DOMAIN s
  PROVE  /\ RemoveAt(s, i) \in Seq(S) /\ Len(RemoveAt(s, i)) = Len(s) - 1 /\ Len(s) - 1 \in Nat
         /\ DOMAIN RemoveAt(s, i) = 1 .. Len(s) - 1
         /\ \A k \in 1 .. Len(s) - 1 : RemoveAt(s, i)[k] = IF k < i THEN s[k] ELSE s[k + 1]
  <1> DEFINE a == SubSeq(s, 1, i - 1)
             b == SubSeq(s, i + 1, Len(s))
  <1>1. Len(s) \in Nat /\ i \in 1 .. Len(s) /\ i \in Nat
    OBVIOUS
  <1>2. a \in Seq(S) /\ Len(a) = i - 1 /\ \A k \in 1 .. i - 1 : a[k] = s[k]
    BY <1>1
  <1>3. b \in Seq(S) /\ Len(b) = Len(s) - i /\ \A k \in 1 .. Len(s) - i : b[k] = s[i + k]
    BY <1>1
  <1> HIDE DEF a, b
  <1>4. /\ a \o b \in Seq(S) /\ Len(a \o b) = Len(s) - 1
        /\ DOMAIN (a \o b) = 1 .. Len(s) - 1
        /\ \A k \in 1 .. i - 1 : (a \o b)[k] = a[k]
        /\ \A k \in 1 .. Len(s) - i : (a \o b)[i - 1 + k] = b[k]
    BY <1>1, <1>2, <1>3, Joined
  <1>5. ASSUME NEW k \in 1 .. Len(s) - 1
        PROVE  (a \o b)[k] = IF k < i THEN s[k] ELSE s[k + 1]
    <2>1. CASE k < i
      BY <1>1, <1>2, <1>4, <2>1
    <2>2. CASE ~(k < i)
      <3> DEFINE j == k - i + 1
      <3>1. j \in 1 .. Len(s) - i /\ i - 1 + j = k /\ i + j = k + 1
        BY <1>1, <2>2
      <3> HIDE DEF j
      <3>2. (a \o b)[i - 1 + j] = b[j] /\ b[j] = s[i + j]
        BY <1>3, <1>4, <3>1
      <3> QED
        BY <2>2, <3>1, <3>2
    <2> QED
      BY <2>1, <2>2
  <1> QED
    <2>1. RemoveAt(s, i) = a \o b
      BY DEF a, b, RemoveAt
    <2> QED
      BY <1>1, <1>4, <1>5, <2>1

-----------------------------------------------------------------------------
(* The database *)

\* What a row gives for the rules of its board.
LEMMA RulesType ==
  ASSUME DataOK, NEW id \in DOMAIN rows
  PROVE  RulesOf(id) \in Rules
  <1>1. CASE rows[id].mode = 0
    BY <1>1 DEF RulesOf, Rules
  <1>2. CASE rows[id].mode # 0
    <2>1. rows[id].mode \in 1 .. Len(modes) /\ modes \in Seq([name : Name, rules : Nat])
      BY <1>2 DEF DataOK
    <2>2. \A m \in 1 .. Len(modes) : modes[m] \in [name : Name, rules : Nat]
      <3> DEFINE Mode == [name : Name, rules : Nat]
      <3>1. modes \in Seq(Mode)
        BY <2>1
      <3> HIDE DEF Mode
      <3>2. \A m \in 1 .. Len(modes) : modes[m] \in Mode
        BY <3>1
      <3> QED
        BY <3>2 DEF Mode
    <2> QED
      BY <1>2, <2>1, <2>2 DEF RulesOf, Rules
  <1> QED
    BY <1>1, <1>2

\* What GET /board returns is stored, and has every board once.
LEMMA Listing ==
  ASSUME DataOK
  PROVE  /\ ListBoards \in Seq(Listed)
         /\ \A k \in DOMAIN ListBoards :
              HasRow(ListBoards[k].id, ListBoards[k].name, ListBoards[k].rules)
         /\ \A k, l \in DOMAIN ListBoards : ListBoards[k].id = ListBoards[l].id => k = l
  <1> DEFINE ids == CHOOSE s \in [1 .. Cardinality(DOMAIN rows) -> DOMAIN rows] : Ascending(s)
             list == [k \in DOMAIN ids |->
                        [id |-> ids[k], name |-> rows[ids[k]].name, rules |-> RulesOf(ids[k])]]
  <1>1. DOMAIN rows \in SUBSET Nat /\ IsFiniteSet(DOMAIN rows)
    BY DEF DataOK, Id
  <1>2. Enumerates(ids, DOMAIN rows)
    <2>1. \E s : Enumerates(s, DOMAIN rows)
      BY <1>1, Enumerable
    <2> QED
      BY <2>1 DEF Enumerates
  <1>3. ListBoards = list
    BY DEF ListBoards
  <1> HIDE DEF ids
  <1>4. /\ Cardinality(DOMAIN rows) \in Nat
        /\ \A k, l \in DOMAIN ids : ids[k] = ids[l] => k = l
    BY <1>1, <1>2, EnumeratesAll
  <1>5. ids \in [1 .. Cardinality(DOMAIN rows) -> DOMAIN rows]
    BY <1>2 DEF Enumerates
  <1>6. \A k \in DOMAIN ids : list[k] \in Listed /\ HasRow(list[k].id, list[k].name, list[k].rules)
    <2> TAKE k \in DOMAIN ids
    <2>1. ids[k] \in DOMAIN rows
      BY <1>5
    <2>2. ids[k] \in Id /\ rows[ids[k]].name \in Name /\ RulesOf(ids[k]) \in Rules
      BY <2>1, RulesType DEF DataOK
    <2> QED
      BY <2>1, <2>2 DEF Listed, HasRow
  <1>7. DOMAIN list = 1 .. Cardinality(DOMAIN rows) /\ list \in Seq(Listed)
    BY <1>4, <1>5, <1>6
  <1>8. \A k, l \in DOMAIN list : list[k].id = list[l].id => k = l
    BY <1>4
  <1> QED
    BY <1>3, <1>5, <1>6, <1>7, <1>8

\* The maximum of a table.
LEMMA HighestType ==
  ASSUME DataOK, NEW t \in Table
  PROVE  Highest(t) \in Nat
  <1>1. CASE t = "board"
    <2>1. DOMAIN rows \cup {0} \in SUBSET Nat /\ IsFiniteSet(DOMAIN rows \cup {0})
      BY FS_AddElement DEF DataOK, Id
    <2> QED
      BY <1>1, <2>1, Greatest DEF Highest
  <1>2. CASE t # "board"
    BY <1>2 DEF DataOK, Highest
  <1> QED
    BY <1>1, <1>2

\* A row goes; the others stay.
LEMMA RowGone ==
  ASSUME DataOK, NEW id, RemoveRow(id), UNCHANGED modes
  PROVE  /\ DataOK' /\ Stored' \subseteq Stored
         /\ \A i, name, rules : i # id /\ HasRow(i, name, rules) => HasRow(i, name, rules)'
  <1>1. /\ DOMAIN rows' = DOMAIN rows \ {id}
        /\ \A i \in DOMAIN rows' : rows'[i] = rows[i]
    BY DEF RemoveRow
  <1>2. IsFiniteSet(DOMAIN rows')
    BY <1>1, FS_RemoveElement DEF DataOK
  <1>3. DataOK'
    BY <1>1, <1>2 DEF DataOK
  <1>4. Stored' \subseteq Stored
    BY <1>1 DEF Stored
  <1>5. ASSUME NEW i, NEW name, NEW rules, i # id, HasRow(i, name, rules)
        PROVE  HasRow(i, name, rules)'
    BY <1>1, <1>5 DEF HasRow, RulesOf
  <1> QED
    BY <1>3, <1>4, <1>5

\* A board is created, or part of it, or nothing; what was stored stays.
LEMMA Created ==
  ASSUME DataOK, NEW id \in Id, NEW name \in Name, NEW mode \in Nat, NEW rules \in Rules,
         NEW worked \in BOOLEAN, mode \in 1 .. Len(modes) + 1,
         Create(id, name, mode, rules, worked)
  PROVE  /\ DataOK' /\ Stored' \subseteq Stored \cup {name}
         /\ \A i, n, r : HasRow(i, n, r) => HasRow(i, n, r)'
         /\ worked => HasRow(id, name, rules)'
  <1> DEFINE Mode == [name : Name, rules : Nat]
  <1>1. modes \in Seq(Mode) /\ Len(modes) \in Nat /\ DOMAIN modes = 1 .. Len(modes)
    BY DEF DataOK
  <1>2. CASE UNCHANGED database /\ ~worked
    BY <1>2 DEF database, DataOK, Stored, HasRow, RulesOf
  <1>3. ASSUME NEW m \in Nat, id \notin DOMAIN rows, InsertRow(id, name, m), m \in 0 .. Len(modes'),
               modes' \in Seq(Mode), Len(modes) <= Len(modes'), Len(modes') \in Nat,
               \A k \in 1 .. Len(modes) : modes'[k] = modes[k],
               worked => rules = IF m = 0 THEN None ELSE modes'[m].rules
        PROVE  /\ DataOK' /\ Stored' \subseteq Stored \cup {name}
               /\ \A i, n, r : HasRow(i, n, r) => HasRow(i, n, r)'
               /\ worked => HasRow(id, name, rules)'
    <2>1. /\ DOMAIN rows' = DOMAIN rows \cup {id} /\ id \in DOMAIN rows'
          /\ rows'[id].name = name /\ rows'[id].mode = m
          /\ \A i \in DOMAIN rows : rows'[i] = rows[i]
      BY <1>3 DEF InsertRow
    <2>2. IsFiniteSet(DOMAIN rows')
      BY <2>1, FS_AddElement DEF DataOK
    <2>3. DataOK'
      <3>1. \A i \in DOMAIN rows' : rows'[i].name \in Name /\ rows'[i].mode \in 0 .. Len(modes')
        BY <1>1, <1>3, <2>1 DEF DataOK
      <3>2. DOMAIN rows' \subseteq Id
        BY <2>1 DEF DataOK
      <3> QED
        BY <1>3, <2>2, <3>1, <3>2 DEF DataOK
    <2>4. Stored' \subseteq Stored \cup {name}
      BY <2>1 DEF Stored
    <2>5. ASSUME NEW i, NEW n, NEW r, HasRow(i, n, r) PROVE HasRow(i, n, r)'
      <3>1. i \in DOMAIN rows /\ rows'[i] = rows[i] /\ rows[i].mode \in 0 .. Len(modes)
        BY <2>1, <2>5 DEF HasRow, DataOK
      <3>2. rows[i].mode # 0 => modes'[rows[i].mode] = modes[rows[i].mode]
        BY <1>1, <1>3, <3>1
      <3> QED
        BY <2>1, <2>5, <3>1, <3>2 DEF HasRow, RulesOf
    <2>6. worked => HasRow(id, name, rules)'
      BY <1>3, <2>1 DEF HasRow, RulesOf
    <2> QED
      BY <2>3, <2>4, <2>5, <2>6
  <1>4. CASE id \notin DOMAIN rows /\ InsertRow(id, name, 0) /\ UNCHANGED modes /\ (worked => rules = None)
    <2>1. /\ modes' \in Seq(Mode) /\ Len(modes) <= Len(modes') /\ Len(modes') \in Nat
          /\ 0 \in Nat /\ 0 \in 0 .. Len(modes')
          /\ \A k \in 1 .. Len(modes) : modes'[k] = modes[k]
      BY <1>1, <1>4
    <2> HIDE DEF Mode
    <2> QED
      BY <1>3, <1>4, <2>1
  <1>5. CASE /\ id \notin DOMAIN rows /\ rules # None /\ mode \notin DOMAIN modes
             /\ InsertRow(id, name, mode)
             /\ modes' = Append(modes, [name |-> name, rules |-> rules])
    <2> DEFINE m == [name |-> name, rules |-> rules]
    <2>1. mode = Len(modes) + 1
      BY <1>1, <1>5
    <2>2. m \in Mode /\ m.rules = rules
      BY <1>5 DEF Rules
    <2>3. modes' = Append(modes, m)
      BY <1>5
    <2> HIDE DEF m
    <2>4. /\ modes' \in Seq(Mode) /\ Len(modes') = Len(modes) + 1
          /\ \A k \in 1 .. Len(modes) : modes'[k] = modes[k]
          /\ modes'[mode] = m
      BY <1>1, <2>1, <2>2, <2>3
    <2>5. mode # 0 /\ mode \in 0 .. Len(modes') /\ Len(modes) <= Len(modes') /\ Len(modes') \in Nat
      BY <1>1, <2>1, <2>4
    <2> HIDE DEF Mode
    <2> QED
      BY <1>3, <1>5, <2>2, <2>4, <2>5
  <1> QED
    BY <1>2, <1>4, <1>5 DEF Create

-----------------------------------------------------------------------------
(* The page *)

\* Boards stay in the heap, and keep their names.
Kept == DOMAIN heap \subseteq DOMAIN heap' /\ \A k \in DOMAIN heap : heap'[k].name = heap[k].name

\* A sequence over more.
LEMMA WiderSeq ==
  ASSUME NEW S, NEW T, S \subseteq T, NEW s \in Seq(S)
  PROVE  s \in Seq(T)
  OBVIOUS

\* The greater of two numbers.
LEMMA MaxOfTwo ==
  ASSUME NEW a \in Nat, NEW b \in Nat
  PROVE  Max({a, b}) = IF a >= b THEN a ELSE b
  <1> DEFINE m == IF a >= b THEN a ELSE b
  <1>1. m \in {a, b} /\ \A y \in {a, b} : m >= y
    OBVIOUS
  <1>2. \A x \in {a, b} : (\A y \in {a, b} : x >= y) => x = m
    OBVIOUS
  <1> HIDE DEF m
  <1>3. Max({a, b}) = m
    BY <1>1, <1>2 DEF Max
  <1> QED
    BY <1>3 DEF m

\* One field of one board changes.
LEMMA OneChanged ==
  ASSUME PageOK, NEW k \in DOMAIN heap, NEW r \in Rules,
         \/ heap' = [heap EXCEPT ![k].rules = r]
         \/ heap' = [heap EXCEPT ![k].told = r]
  PROVE  /\ heap' \in Seq(Shown) /\ DOMAIN heap' = DOMAIN heap /\ Kept
         /\ \A i \in DOMAIN heap : i # k => heap'[i] = heap[i]
         /\ heap' = [heap EXCEPT ![k].rules = r] => heap'[k].told = heap[k].told
         /\ heap' = [heap EXCEPT ![k].told = r] => heap'[k].told = r
  <1>1. heap \in Seq(Shown) /\ heap[k] \in Shown
    BY DEF PageOK
  <1>2. [heap[k] EXCEPT !.rules = r] \in Shown /\ [heap[k] EXCEPT !.told = r] \in Shown
    BY <1>1 DEF Shown
  <1>3. PICK b \in Shown :
          /\ heap' = [heap EXCEPT ![k] = b] /\ b.name = heap[k].name
          /\ heap' = [heap EXCEPT ![k].rules = r] => b.told = heap[k].told
          /\ heap' = [heap EXCEPT ![k].told = r] => b.told = r
    <2>1. CASE heap' = [heap EXCEPT ![k].rules = r]
      <3> DEFINE b == [heap[k] EXCEPT !.rules = r]
      <3>1. heap' = [heap EXCEPT ![k] = b] /\ heap'[k] = b
        BY <1>1, <2>1
      <3>2. b.name = heap[k].name /\ b.told = heap[k].told
        BY <1>1 DEF Shown
      <3>3. heap' = [heap EXCEPT ![k].told = r] => heap'[k].told = r
        BY <1>1 DEF Shown
      <3> QED
        BY <1>2, <3>1, <3>2, <3>3
    <2>2. CASE heap' = [heap EXCEPT ![k].told = r]
      <3> DEFINE b == [heap[k] EXCEPT !.told = r]
      <3>1. heap' = [heap EXCEPT ![k] = b] /\ heap'[k] = b
        BY <1>1, <2>2
      <3>2. b.name = heap[k].name /\ b.told = r
        BY <1>1 DEF Shown
      <3>3. heap' = [heap EXCEPT ![k].rules = r] => heap'[k].told = heap[k].told
        BY <1>1 DEF Shown
      <3> QED
        BY <1>2, <3>1, <3>2, <3>3
    <2> QED
      BY <2>1, <2>2
  <1> HIDE DEF Shown
  <1>4. heap' \in Seq(Shown) /\ DOMAIN heap' = DOMAIN heap /\ heap'[k] = b
    BY <1>1, <1>3
  <1>5. \A i \in DOMAIN heap : i # k => heap'[i] = heap[i]
    BY <1>1, <1>3
  <1> QED
    BY <1>3, <1>4, <1>5 DEF Kept

\* Boards are added to the heap.
LEMMA Grown ==
  ASSUME PageOK, NEW list \in Seq(Shown), heap' = heap \o list
  PROVE  /\ heap' \in Seq(Shown) /\ Kept /\ Len(heap) \in Nat
         /\ DOMAIN heap = 1 .. Len(heap) /\ DOMAIN heap' = 1 .. Len(heap) + Len(list)
         /\ \A k \in 1 .. Len(list) : heap'[Len(heap) + k] = list[k]
  <1>1. heap \in Seq(Shown) /\ Len(heap) \in Nat /\ Len(list) \in Nat /\ DOMAIN heap = 1 .. Len(heap)
    BY DEF PageOK
  <1>2. /\ heap' \in Seq(Shown)
        /\ DOMAIN heap' = 1 .. Len(heap) + Len(list)
        /\ \A k \in 1 .. Len(heap) : heap'[k] = heap[k]
        /\ \A k \in 1 .. Len(list) : heap'[Len(heap) + k] = list[k]
    BY <1>1, Joined
  <1> QED
    BY <1>1, <1>2 DEF Kept

\* Boards are shown instead of those that were.
LEMMA Replaced ==
  ASSUME PageOK, NEW list \in Seq(Shown), heap' = heap \o list,
         boards' = [k \in DOMAIN list |-> Len(heap) + k],
         NEW ids, boardIds' = [k \in DOMAIN list |-> ids[k]],
         \A k \in DOMAIN list : ids[k] \in Id \cup {None}
  PROVE  /\ PageOK' /\ Kept /\ Len(boardIds') = Len(boards')
         /\ DOMAIN boards' = DOMAIN list
         /\ \A k \in DOMAIN list : heap'[boards'[k]] = list[k] /\ boardIds'[k] = ids[k]
         /\ \A k, l \in DOMAIN list : boards'[k] = boards'[l] => k = l
  <1>1. Len(list) \in Nat /\ DOMAIN list = 1 .. Len(list)
    OBVIOUS
  <1>2. /\ heap' \in Seq(Shown) /\ Kept /\ Len(heap) \in Nat
        /\ DOMAIN heap' = 1 .. Len(heap) + Len(list)
        /\ \A k \in 1 .. Len(list) : heap'[Len(heap) + k] = list[k]
    BY Grown
  <1>3. \A k \in 1 .. Len(list) : boards'[k] = Len(heap) + k /\ boards'[k] \in DOMAIN heap'
    BY <1>1, <1>2
  <1>4. boards' \in Seq(DOMAIN heap') /\ DOMAIN boards' = 1 .. Len(list) /\ Len(boards') = Len(list)
    BY <1>1, <1>3
  <1>5. boardIds' \in Seq(Id \cup {None}) /\ Len(boardIds') = Len(list)
    BY <1>1
  <1> QED
    BY <1>1, <1>2, <1>3, <1>4, <1>5 DEF PageOK

\* The list of the backend is shown.
LEMMA ListShown ==
  ASSUME PageOK, NEW list \in Seq(Listed), ShowBoards(list)
  PROVE  /\ PageOK' /\ Kept /\ Len(boardIds') = Len(boards')
         /\ DOMAIN boards' = DOMAIN list
         /\ \A k \in DOMAIN list :
              /\ heap'[boards'[k]].name = list[k].name /\ heap'[boards'[k]].told = list[k].rules
              /\ boardIds'[k] = list[k].id
         /\ \A k, l \in DOMAIN list : boards'[k] = boards'[l] => k = l
  <1> DEFINE new == [k \in DOMAIN list |->
                       [name |-> list[k].name, rules |-> list[k].rules, told |-> list[k].rules]]
             ids == [k \in DOMAIN list |-> list[k].id]
  <1>1. Len(list) \in Nat /\ DOMAIN list = 1 .. Len(list) /\ \A k \in DOMAIN list : list[k] \in Listed
    OBVIOUS
  <1>2. \A k \in DOMAIN list : new[k] \in Shown /\ ids[k] \in Id \cup {None}
    BY <1>1 DEF Listed, Shown
  <1>3. new \in Seq(Shown) /\ DOMAIN new = DOMAIN list
    BY <1>1, <1>2
  <1>4. /\ heap' = heap \o new /\ boards' = [k \in DOMAIN new |-> Len(heap) + k]
        /\ boardIds' = [k \in DOMAIN new |-> ids[k]]
    BY <1>3 DEF ShowBoards
  <1>5. \A k \in DOMAIN list : /\ new[k].name = list[k].name /\ new[k].told = list[k].rules
                               /\ ids[k] = list[k].id
    OBVIOUS
  <1> HIDE DEF new, ids
  <1>6. \A k \in DOMAIN new : ids[k] \in Id \cup {None}
    BY <1>2, <1>3
  <1>7. /\ PageOK' /\ Kept /\ Len(boardIds') = Len(boards')
        /\ DOMAIN boards' = DOMAIN new
        /\ \A k \in DOMAIN new : heap'[boards'[k]] = new[k] /\ boardIds'[k] = ids[k]
        /\ \A k, l \in DOMAIN new : boards'[k] = boards'[l] => k = l
    BY <1>3, <1>4, <1>6, Replaced
  <1> QED
    BY <1>3, <1>5, <1>7

\* The bundled boards are shown without ids.
LEMMA OfflineShown ==
  ASSUME PageOK, Offline
  PROVE  /\ PageOK' /\ Kept /\ Len(boardIds') = Len(boards')
         /\ \A k \in DOMAIN boards' :
              /\ heap'[boards'[k]].name \in Bundled \ tomb /\ heap'[boards'[k]].told = None
              /\ boardIds'[k] = None
         /\ \A k, l \in DOMAIN boards' : boards'[k] = boards'[l] => k = l
  <1> DEFINE names == SetToSeq(Bundled \ tomb)
             new == [k \in DOMAIN names |-> [name |-> names[k], rules |-> 0, told |-> None]]
             ids == [k \in DOMAIN names |-> None]
  <1>1. IsFiniteSet(Bundled \ tomb) /\ Bundled \subseteq Name
    BY LibraryAssumption, FS_Subset
  <1>2. /\ names \in Seq(Bundled \ tomb) /\ Len(names) \in Nat /\ DOMAIN names = 1 .. Len(names)
        /\ \A k \in DOMAIN names : names[k] \in Bundled \ tomb
    <2> DEFINE S == Bundled \ tomb
    <2>1. IsFiniteSet(S)
      BY <1>1
    <2>2. names = SetToSeq(S)
      OBVIOUS
    <2> HIDE DEF S, names
    <2>3. names \in Seq(S)
      BY <2>1, <2>2, ToSeq
    <2>4. Len(names) \in Nat /\ DOMAIN names = 1 .. Len(names) /\ \A k \in DOMAIN names : names[k] \in S
      BY <2>3
    <2> QED
      BY <2>3, <2>4 DEF S
  <1>3. /\ heap' = heap \o new /\ boards' = [k \in DOMAIN names |-> Len(heap) + k]
        /\ boardIds' = ids
    BY DEF Offline
  <1> HIDE DEF names
  <1>4. \A k \in DOMAIN names : new[k] \in Shown /\ new[k].name \in Bundled \ tomb /\ new[k].told = None
    BY <1>1, <1>2 DEF Shown, Rules
  <1>5. new \in Seq(Shown) /\ DOMAIN new = DOMAIN names
    BY <1>2, <1>4
  <1>6. /\ boardIds' = [k \in DOMAIN new |-> ids[k]] /\ boards' = [k \in DOMAIN new |-> Len(heap) + k]
        /\ \A k \in DOMAIN new : ids[k] = None /\ ids[k] \in Id \cup {None}
    BY <1>3, <1>5
  <1> HIDE DEF new, ids
  <1>7. /\ PageOK' /\ Kept /\ Len(boardIds') = Len(boards')
        /\ DOMAIN boards' = DOMAIN new
        /\ \A k \in DOMAIN new : heap'[boards'[k]] = new[k] /\ boardIds'[k] = ids[k]
        /\ \A k, l \in DOMAIN new : boards'[k] = boards'[l] => k = l
    BY <1>3, <1>5, <1>6, Replaced
  <1> QED
    BY <1>4, <1>5, <1>6, <1>7

-----------------------------------------------------------------------------
(* The operations *)

\* One operation goes on; the others, if any, are as they were.
LEMMA OthersSame ==
  ASSUME IInv, NEW f \in Flow, NEW s, Continue(f, s)
  PROVE  flows'[f] = s /\ \A g \in Flow : g # f => flows'[g] = flows[g]
  BY DEF IInv, FlowsSound, Continue

\* An operation that overlaps with another one is not disturbed.
LEMMA Undisturbed ==
  ASSUME NEW s, Good(s), crossed', DOMAIN heap \subseteq DOMAIN heap', gone' \subseteq gone
  PROVE  Good(s)'
  <1>1. Fit(s)'
    BY DEF Good, Fit
  <1>2. Brings(s)' = Brings(s)
    BY DEF Brings
  <1> QED
    BY <1>1, <1>2 DEF Good

\* One operation begins, goes on or ends; it is alone, or overlaps with others.
LEMMA OneGood ==
  ASSUME IInv, Alone, FlowsGood, crossed \in BOOLEAN, crossed' \in BOOLEAN, crossed => crossed',
         NEW f \in Flow, NEW s, Continue(f, s), s = Idle \/ Good(s)',
         DOMAIN heap \subseteq DOMAIN heap',
         crossed \/ ~Busy(f) => gone' \subseteq gone,
         ~crossed' => Busy(f) \/ \A g \in Flow : ~Busy(g)
  PROVE  Alone' /\ FlowsGood'
  <1>1. flows'[f] = s /\ \A g \in Flow : g # f => flows'[g] = flows[g]
    BY OthersSame
  <1>2. ASSUME ~crossed', NEW g \in Flow, g # f PROVE ~Busy(g) /\ ~Busy(g)'
    <2>1. ~Busy(g)
      BY <1>2 DEF Alone
    <2> QED
      BY <1>1, <1>2, <2>1 DEF Busy
  <1>3. Alone'
    BY <1>2 DEF Alone
  <1>4. ASSUME NEW g \in Flow, Busy(g)', g # f PROVE Good(flows[g])'
    <2>1. PICK w : w = flows[g]
      OBVIOUS
    <2>2. Good(w) /\ flows'[g] = w /\ Busy(g)
      BY <1>1, <1>4, <2>1 DEF FlowsGood, Busy
    <2>3. crossed' /\ gone' \subseteq gone
      BY <1>2, <1>4, <2>2 DEF Alone
    <2>4. Good(w)'
      BY <2>2, <2>3, Undisturbed
    <2> QED
      BY <2>2, <2>4
  <1>5. Busy(f)' => Good(flows[f])'
    BY <1>1 DEF Busy, Idle
  <1> QED
    BY <1>3, <1>4, <1>5 DEF FlowsGood

\* An operation is good for what it is and for the page and the database.
LEMMA SameGood ==
  ASSUME NEW s, Good(s), UNCHANGED <<rows, modes, heap, boards, boardIds, tomb, gone, crossed>>
  PROVE  Good(s)'
  BY DEF Good, Fit, Brings, InPlace, Sent, Current, HasRow, RulesOf, IdAt

\* A step of the page that only moves an operation on.
LEMMA Quiet ==
  ASSUME IInv, PageInv, NEW f \in Flow, Busy(f), NEW s, Continue(f, s), s = Idle \/ Good(s),
         UNCHANGED <<database, page, tomb, history>>, Counters'
  PROVE  PageInv'
  <1>1. UNCHANGED <<rows, modes, heap, boards, boardIds, tomb, gone, crossed>>
    BY DEF database, page, history
  <1>2. s = Idle \/ Good(s)'
    BY <1>1, SameGood
  <1>3. Alone' /\ FlowsGood'
    BY <1>1, <1>2, OneGood DEF PageInv, TypeInv
  <1>4. TypeInv' /\ GoneInv'
    BY <1>1 DEF PageInv, TypeInv, DataOK, PageOK, GoneInv, Names, Stored
  <1>5. SavedInv'
    BY <1>1 DEF PageInv, SavedInv, Paired, Told, HasRow, RulesOf, IdAt
  <1> QED
    BY <1>3, <1>4, <1>5 DEF PageInv

\* A fault is one more.
LEMMA FaultCounted == ASSUME Counters, Fault PROVE Counters'
  BY DEF Counters, Fault

\* What the seeding goes on with.
LEMMA SeedGood ==
  ASSUME NEW s, s.todo \subseteq Bundled, gone \cap s.todo = {}, gone \subseteq Name
  PROVE  Good(Seed(s))
  <1>1. CASE s.todo = {}
    <2>1. Seed(s) = [Loading EXCEPT !.pc = "refetch"]
      BY <1>1 DEF Seed
    <2> QED
      BY <2>1, LibraryAssumption
      DEF Loading, Operation, Good, Fields, Fit, Brings, InPlace, Sent, Current, Rules, Id
  <1>2. CASE s.todo # {}
    <2>1. PICK n \in s.todo :
            Seed(s) = [Loading EXCEPT !.pc = "max", !.name = n, !.rules = 0, !.todo = s.todo \ {n}]
      BY <1>2 DEF Seed
    <2>2. n \in Name /\ n \notin gone
      BY <2>1, LibraryAssumption
    <2> DEFINE t == Seed(s)
    <2>3. /\ t.kind = "load" /\ t.pc = "max" /\ t.name = n /\ t.obj = None /\ t.id = None
          /\ t.todo = s.todo \ {n} /\ t \in Fields(t.got)
      <3>1. Loading \in Fields(None)
        BY DEF Loading, Operation, Fields, Rules
      <3>2. s.todo \ {n} \in SUBSET Bundled /\ 0 \in Rules /\ n \in Name \cup {None}
        BY <2>2 DEF Rules
      <3>3. t \in Fields(None)
        BY <2>1, <3>1, <3>2 DEF Fields
      <3>4. Loading.kind = "load" /\ Loading.obj = None /\ Loading.id = None /\ Loading.got = None
        BY DEF Loading, Operation
      <3> QED
        BY <2>1, <3>1, <3>3, <3>4 DEF Fields
    <2> HIDE DEF t
    <2>4. Fit(t) /\ InPlace(t) /\ Sent(t) /\ Current(t)
      BY <2>2, <2>3 DEF Fit, InPlace, Sent, Current
    <2>5. gone \cap Brings(t) = {}
      BY <2>2, <2>3 DEF Brings
    <2>6. Good(t)
      BY <2>3, <2>4, <2>5 DEF Good
    <2> QED
      BY <2>6 DEF t
  <1> QED
    BY <1>1, <1>2

\* What follows a save.
LEMMA AfterGood ==
  ASSUME NEW s, Good(s), gone \subseteq Name
  PROVE  After(s) = Idle \/ Good(After(s))
  <1>1. s.todo \subseteq Bundled /\ gone \cap s.todo = {}
    BY DEF Good, Fields, Brings
  <1> QED
    BY <1>1, SeedGood DEF After

\* The steps of an operation that reach the tables to read, or are lost.
LEMMA ReadStep ==
  ASSUME IInv, PageInv, NEW f \in Flow, MaxIdsFails(f) \/ PostLost(f) \/ AnswerLost(f)
  PROVE  PageInv'
  <1>1. /\ Continue(f, After(flows[f])) /\ Fault
        /\ UNCHANGED <<database, page, tomb, history>> /\ Busy(f)
    BY DEF MaxIdsFails, PostLost, AnswerLost, Busy
  <1>2. Good(flows[f]) /\ gone \subseteq Name /\ Counters'
    BY <1>1, FaultCounted DEF PageInv, TypeInv, FlowsGood
  <1>3. PICK s : s = After(flows[f]) /\ (s = Idle \/ Good(s))
    BY <1>2, AfterGood
  <1> QED
    BY <1>1, <1>2, <1>3, Quiet

\* The request that is sent is well formed.
LEMMA SendingGood ==
  ASSUME PageOK, NEW s, Good(s), s.pc \in {"max", "delete"}, s.kind # "remove",
         s.top["mode"] \in Nat, s.id = None => s.top["board"] \in Nat
  PROVE  Good(Sending(s)) /\ Sending(s).pc = "post"
  <1>1. s \in Fields(s.got) /\ Fit(s) /\ s.name \in Name
    BY DEF Good, Fit
  <1>2. s.obj # None => s.obj \in DOMAIN heap /\ heap[s.obj].rules \in Rules
    <2>1. \A k \in DOMAIN heap : heap[k] \in Shown
      BY DEF PageOK
    <2> QED
      BY <1>1, <2>1 DEF Fit, Shown
  <1>3. Body(s) \in Posted /\ Body(s).name = s.name /\ (s.id # None => Body(s).id = s.id)
    <2>1. Body(s).id \in Id /\ (s.id # None => Body(s).id = s.id)
      BY <1>1 DEF Body, Fields, Id
    <2>2. Body(s).rules \in Rules
      BY <1>1, <1>2 DEF Body, Fields
    <2>3. Body(s).mode \in Nat /\ Body(s).name = s.name
      BY DEF Body
    <2>4. Body(s) = [id |-> Body(s).id, mode |-> Body(s).mode, name |-> Body(s).name,
                     rules |-> Body(s).rules]
      BY DEF Body
    <2> QED
      BY <1>1, <2>1, <2>2, <2>3, <2>4 DEF Posted
  <1> DEFINE t == Sending(s)
  <1>4. /\ t.pc = "post" /\ t.got = Body(s) /\ t \in Fields(t.got)
        /\ t.kind = s.kind /\ t.name = s.name /\ t.obj = s.obj /\ t.id = s.id /\ t.at = s.at
        /\ t.todo = s.todo
    BY <1>1 DEF Sending, Fields
  <1> HIDE DEF t
  <1>5. Fit(t) /\ Brings(t) = Brings(s) /\ (InPlace(s) => InPlace(t)) /\ Sent(t) /\ Current(t)
    BY <1>1, <1>3, <1>4 DEF Fit, Brings, InPlace, Sent, Current
  <1>6. Good(t)
    BY <1>4, <1>5 DEF Good
  <1> QED
    BY <1>4, <1>6 DEF t

\* What an operation holds does not depend on the database but for what was sent or
\* listed, and on the heap only for names.
LEMMA StillGood ==
  ASSUME NEW s, Good(s), s.pc \notin {"saved", "show"}, Kept,
         UNCHANGED <<boards, boardIds, tomb, gone>>, crossed => crossed', crossed \in BOOLEAN
  PROVE  Good(s)'
  <1>1. s.obj # None => s.obj \in DOMAIN heap
    BY DEF Good, Fit
  <1>2. s.kind \in {"save", "remove"} => s.obj \in DOMAIN heap
    BY <1>1 DEF Good, Fit
  <1>3. Fit(s)' /\ Brings(s)' = Brings(s) /\ Sent(s)' /\ Current(s)'
    BY <1>1 DEF Good, Fit, Brings, Sent, Current, Kept
  <1>4. InPlace(s) => InPlace(s)'
    BY <1>2 DEF InPlace, Kept, IdAt
  <1> QED
    BY <1>3, <1>4 DEF Good

\* One of the maxima is read; with the last one the operation sends, or deletes.
LEMMA MaxIdsGood ==
  ASSUME IInv, PageInv, NEW f \in Flow, NEW t \in Table, MaxIds(f, t)
  PROVE  PageInv'
  <1>1. PICK s : s = flows[f]
    OBVIOUS
  <1>2. PICK read : read = [s EXCEPT !.top[t] = Highest(t)]
    OBVIOUS
  <1>3. /\ s.pc = "max" /\ Good(s) /\ Busy(f)
        /\ UNCHANGED <<database, page, tomb, history, count>>
        /\ Continue(f, IF \E u \in Table : read.top[u] = None THEN read
                       ELSE IF read.id # None THEN [read EXCEPT !.pc = "delete"]
                       ELSE Sending(read))
    BY <1>1, <1>2 DEF MaxIds, PageInv, FlowsGood, Busy
  <1>4. Counters'
    BY <1>3 DEF PageInv, TypeInv, Counters
  <1>5. /\ read.pc = "max" /\ read.kind = s.kind /\ read.name = s.name /\ read.obj = s.obj
        /\ read.id = s.id /\ read.at = s.at /\ read.todo = s.todo /\ read \in Fields(read.got)
        /\ read.top \in [Table -> Nat \cup {None}]
    <2>1. Highest(t) \in Nat
      BY HighestType DEF PageInv, TypeInv
    <2>2. s \in Fields(s.got)
      BY <1>3 DEF Good
    <2> QED
      BY <1>2, <1>3, <2>1, <2>2 DEF Fields
  <1>6. Fit(s) /\ s.kind # "remove"
    BY <1>3 DEF Good, Fit
  <1>7. Good(read)
    BY <1>3, <1>5, <1>6 DEF Good, Fit, Brings, InPlace, Sent, Current
  <1>8. CASE \E u \in Table : read.top[u] = None
    BY <1>3, <1>4, <1>7, <1>8, Quiet
  <1>9. CASE ~(\E u \in Table : read.top[u] = None) /\ read.id # None
    <2>1. PICK w : w = [read EXCEPT !.pc = "delete"]
      OBVIOUS
    <2>2. /\ w.pc = "delete" /\ w.kind = s.kind /\ w.name = s.name /\ w.obj = s.obj
          /\ w.id = s.id /\ w.at = s.at /\ w.todo = s.todo /\ w \in Fields(w.got)
      BY <1>5, <2>1 DEF Fields
    <2>3. Good(w)
      BY <1>3, <1>5, <1>6, <1>9, <2>2 DEF Good, Fit, Brings, InPlace, Sent, Current
    <2>4. Continue(f, w)
      BY <1>3, <1>9, <2>1
    <2> QED
      BY <1>3, <1>4, <2>3, <2>4, Quiet
  <1>10. CASE ~(\E u \in Table : read.top[u] = None) /\ read.id = None
    <2>1. read.top["mode"] \in Nat /\ read.top["board"] \in Nat
      BY <1>5, <1>10 DEF Table
    <2>2. Good(Sending(read))
      BY <1>5, <1>6, <1>7, <2>1, SendingGood DEF PageInv, TypeInv
    <2>3. Continue(f, Sending(read))
      BY <1>3, <1>10
    <2> QED
      BY <1>3, <1>4, <2>2, <2>3, Quiet
  <1> QED
    BY <1>8, <1>9, <1>10

\* The row of a board goes, or the request to delete it fails; what the page has told
\* of the board is withdrawn.
LEMMA DeleteGood ==
  ASSUME IInv, PageInv, NEW f \in Flow, DeleteOld(f) \/ DeleteFails(f)
  PROVE  PageInv'
  <1>1. PICK s : s = flows[f]
    OBVIOUS
  <1>2. /\ s.pc = "delete" /\ Busy(f) /\ Good(s)
        /\ RemoveRow(s.id) \/ UNCHANGED rows
        /\ heap' = [heap EXCEPT ![s.obj].told = None]
        /\ UNCHANGED <<modes, boards, boardIds, tomb, crossed, gone>>
    BY <1>1 DEF DeleteOld, DeleteFails, Untold, PageInv, FlowsGood, Busy, history
  <1>3. Counters'
    BY FaultCounted DEF DeleteOld, DeleteFails, PageInv, TypeInv, Counters
  <1>4. s.obj \in DOMAIN heap /\ s.kind \in {"save", "remove"} /\ s.id # None
    BY <1>2 DEF Good, Fit
  <1>5. /\ heap' \in Seq(Shown) /\ DOMAIN heap' = DOMAIN heap /\ Kept
        /\ \A i \in DOMAIN heap : i # s.obj => heap'[i] = heap[i]
        /\ heap'[s.obj].told = None
    BY <1>2, <1>4, OneChanged DEF PageInv, TypeInv, Rules
  <1>6. /\ DataOK' /\ Stored' \subseteq Stored
        /\ \A i, name, rules : i # s.id /\ HasRow(i, name, rules) => HasRow(i, name, rules)'
    <2>1. CASE RemoveRow(s.id)
      BY <1>2, <2>1, RowGone DEF PageInv, TypeInv
    <2>2. CASE UNCHANGED rows
      BY <1>2, <2>2 DEF PageInv, TypeInv, DataOK, Stored, HasRow, RulesOf
    <2> QED
      BY <1>2, <2>1, <2>2
  <1>7. PICK w : Continue(f, w) /\ (w = Idle \/ (Good(w) /\ w.pc \notin {"saved", "show"}))
    <2>1. CASE s.kind = "remove" /\ Continue(f, [s EXCEPT !.pc = "undeploy"])
      <3>1. PICK w : w = [s EXCEPT !.pc = "undeploy"]
        OBVIOUS
      <3>2. /\ w.pc = "undeploy" /\ w.kind = s.kind /\ w.name = s.name /\ w.obj = s.obj
            /\ w.id = s.id /\ w.at = s.at /\ w.todo = s.todo /\ w \in Fields(w.got)
        BY <1>2, <3>1 DEF Good, Fields
      <3>3. Good(w)
        BY <1>2, <2>1, <3>2 DEF Good, Fit, Brings, InPlace, Sent, Current
      <3> QED
        BY <2>1, <3>1, <3>2, <3>3
    <2>2. CASE s.kind = "remove" /\ Continue(f, Idle)
      BY <2>2
    <2>3. CASE s.kind # "remove" /\ Continue(f, Sending(s))
      <3>1. s.top["mode"] \in Nat
        BY <1>1, <1>2, <2>3, ModesLen DEF IInv, FlowsSound, InProgress, Sound, Idle
      <3>2. Good(Sending(s)) /\ Sending(s).pc = "post"
        BY <1>2, <1>4, <2>3, <3>1, SendingGood DEF PageInv, TypeInv
      <3> QED
        BY <2>3, <3>2
    <2> QED
      BY <1>1, <2>1, <2>2, <2>3 DEF DeleteOld, DeleteFails
  <1>8. w = Idle \/ Good(w)'
    BY <1>2, <1>5, <1>7, StillGood DEF PageInv, TypeInv
  <1>9. Alone' /\ FlowsGood'
    BY <1>2, <1>5, <1>7, <1>8, OneGood DEF PageInv, TypeInv
  <1>10. TypeInv'
    BY <1>2, <1>3, <1>5, <1>6 DEF PageInv, TypeInv, PageOK
  <1>11. GoneInv'
    <2>1. \A k \in Range(boards) : k \in DOMAIN heap
      BY DEF PageInv, TypeInv, PageOK, Range
    <2>2. Names' = Names
      BY <1>2, <1>5, <2>1 DEF Names, Kept, Range
    <2> QED
      BY <1>2, <1>6, <2>2 DEF PageInv, GoneInv
  <1>12. SavedInv'
    <2> SUFFICES ASSUME ~crossed PROVE Paired' /\ \A i \in DOMAIN boards : Told(i)'
      BY <1>2 DEF SavedInv
    <2>1. Paired /\ \A i \in DOMAIN boards : Told(i)
      BY DEF PageInv, SavedInv
    <2>2. s.at \in DOMAIN boards /\ boards[s.at] = s.obj /\ IdAt(s.at) = s.id
      BY <1>2, <1>4 DEF Good, InPlace
    <2>3. ASSUME NEW i \in DOMAIN boards PROVE Told(i)'
      <3>1. CASE boards[i] = s.obj
        BY <1>2, <1>5, <3>1 DEF Told
      <3>2. CASE boards[i] # s.obj
        <4>1. boards[i] \in DOMAIN heap /\ heap'[boards'[i]] = heap[boards[i]] /\ IdAt(i)' = IdAt(i)
          BY <1>2, <1>5, <3>2 DEF PageInv, TypeInv, PageOK, IdAt
        <4>2. IdAt(i) = s.id => i = s.at
          BY <1>4, <2>1, <2>2 DEF Paired, IdAt
        <4>3. i # s.at
          BY <2>2, <3>2
        <4> QED
          BY <1>6, <2>1, <4>1, <4>2, <4>3 DEF Told
      <3> QED
        BY <3>1, <3>2
    <2> QED
      BY <1>2, <2>1, <2>3 DEF Paired
  <1> QED
    BY <1>9, <1>10, <1>11, <1>12 DEF PageInv

\* The request to create is served; what it could not write, it leaves.
LEMMA PostGood ==
  ASSUME IInv, PageInv, NEW f \in Flow, Post(f)
  PROVE  PageInv'
  <1>1. PICK s : s = flows[f]
    OBVIOUS
  <1>2. PICK worked \in BOOLEAN :
          /\ s.pc = "post"
          /\ Create(s.got.id, s.got.name, s.got.mode, s.got.rules, worked)
          /\ Continue(f, IF worked THEN [s EXCEPT !.pc = "saved"] ELSE After(s))
    BY <1>1 DEF Post
  <1>3. /\ UNCHANGED <<heap, boards, boardIds, tomb, gone, count>> /\ Busy(f) /\ Good(s)
        /\ crossed' = (crossed \/ (s.id = None /\ s.got.id \in Range(boardIds)))
    BY <1>1, <1>2 DEF Post, page, Busy, PageInv, FlowsGood
  <1>4. /\ s.got \in Posted /\ s.got.name = s.name /\ s.kind # "remove"
        /\ s.name \notin gone
    BY <1>2, <1>3 DEF Good, Fit, Brings
  <1>5. s.got.mode \in 1 .. Len(modes) + 1
    BY <1>1, <1>2 DEF IInv, FlowsSound, InProgress, Sound, Idle
  <1>6. /\ DataOK' /\ Stored' \subseteq Stored \cup {s.name}
        /\ \A i, n, r : HasRow(i, n, r) => HasRow(i, n, r)'
        /\ worked => HasRow(s.got.id, s.name, s.got.rules)'
    <2>1. /\ s.got.id \in Id /\ s.got.name \in Name /\ s.got.mode \in Nat /\ s.got.rules \in Rules
      BY <1>4 DEF Posted
    <2> QED
      BY <1>2, <1>4, <1>5, <2>1, Created DEF PageInv, TypeInv
  <1>7. crossed' \in BOOLEAN /\ (crossed => crossed') /\ Kept
    BY <1>3 DEF PageInv, TypeInv, Kept
  <1>8. PICK w : Continue(f, w) /\ (w = Idle \/ Good(w)')
    <2>1. CASE worked
      <3>1. PICK w : w = [s EXCEPT !.pc = "saved"]
        OBVIOUS
      <3>2. /\ w.pc = "saved" /\ w.kind = s.kind /\ w.name = s.name /\ w.obj = s.obj
            /\ w.id = s.id /\ w.at = s.at /\ w.todo = s.todo /\ w.got = s.got /\ w \in Fields(w.got)
        BY <1>3, <3>1 DEF Good, Fields
      <3>3. Fit(w)' /\ Brings(w)' = Brings(s) /\ Current(w)'
        BY <1>2, <1>3, <1>4, <3>2 DEF Good, Fit, Brings, Current
      <3>4. InPlace(s) => InPlace(w)'
        BY <1>3, <3>2 DEF InPlace, IdAt
      <3>5. ~crossed' => Sent(w)'
        BY <1>3, <1>6, <2>1, <3>2 DEF Sent
      <3>6. Good(w)'
        BY <1>3, <1>4, <1>7, <3>2, <3>3, <3>4, <3>5 DEF Good
      <3> QED
        BY <1>2, <2>1, <3>1, <3>6
    <2>2. CASE ~worked
      <3>1. PICK w : w = After(s)
        OBVIOUS
      <3>2. w = Idle \/ (Good(w) /\ w.pc \notin {"saved", "show"})
        <4>1. After(s) = Idle \/ Good(After(s))
          BY <1>3, AfterGood DEF PageInv, TypeInv
        <4>2. After(s) = Idle \/ After(s).pc \in {"refetch", "max"}
          BY DEF After, Seed, Loading, Operation
        <4> QED
          BY <3>1, <4>1, <4>2
      <3>3. w = Idle \/ Good(w)'
        BY <1>3, <1>7, <3>2, StillGood DEF PageInv, TypeInv
      <3> QED
        BY <1>2, <2>2, <3>1, <3>3
    <2> QED
      BY <2>1, <2>2
  <1>9. Alone' /\ FlowsGood'
    BY <1>3, <1>7, <1>8, OneGood DEF PageInv, TypeInv
  <1>10. TypeInv'
    BY <1>3, <1>6, <1>7 DEF PageInv, TypeInv, PageOK, Counters
  <1>11. GoneInv'
    BY <1>3, <1>4, <1>6 DEF PageInv, GoneInv, Names
  <1>12. SavedInv'
    BY <1>3, <1>6 DEF PageInv, SavedInv, Paired, Told, IdAt
  <1> QED
    BY <1>9, <1>10, <1>11, <1>12 DEF PageInv

\* The list is read: the boards that are missing will be seeded, or it is shown.
LEMMA FetchGood ==
  ASSUME IInv, PageInv, Fetch \/ Refetch
  PROVE  PageInv'
  <1>1. PICK s : s = flows[1]
    OBVIOUS
  <1>2. /\ s.pc \in {"fetch", "refetch"} /\ Busy(1) /\ Good(s) /\ 1 \in Flow
        /\ UNCHANGED <<database, page, tomb, history, count>>
        /\ \/ Continue(1, Seed([s EXCEPT !.todo = Missing]))
           \/ Continue(1, [s EXCEPT !.pc = "show", !.got = ListBoards])
    BY <1>1, FirstFlow DEF Fetch, Refetch, Busy, PageInv, FlowsGood
  <1>3. Counters'
    BY <1>2 DEF PageInv, TypeInv, Counters
  <1>4. CASE Continue(1, Seed([s EXCEPT !.todo = Missing]))
    <2>1. PICK t : t = [s EXCEPT !.todo = Missing]
      OBVIOUS
    <2>2. t.todo = Missing
      BY <1>2, <2>1 DEF Good, Fields
    <2>3. t.todo \subseteq Bundled /\ gone \cap t.todo = {} /\ gone \subseteq Name
      BY <2>2 DEF Missing, PageInv, GoneInv, TypeInv
    <2>4. Good(Seed(t)) /\ Continue(1, Seed(t))
      BY <1>4, <2>1, <2>3, SeedGood
    <2> QED
      BY <1>2, <1>3, <2>4, Quiet
  <1>5. CASE Continue(1, [s EXCEPT !.pc = "show", !.got = ListBoards])
    <2>1. PICK t : t = [s EXCEPT !.pc = "show", !.got = ListBoards]
      OBVIOUS
    <2>2. /\ t.pc = "show" /\ t.kind = s.kind /\ t.name = s.name /\ t.obj = s.obj
          /\ t.id = s.id /\ t.at = s.at /\ t.todo = s.todo /\ t.got = ListBoards
          /\ t \in Fields(t.got)
      BY <1>2, <2>1 DEF Good, Fields
    <2>3. /\ t.got \in Seq(Listed)
          /\ \A k \in DOMAIN t.got : HasRow(t.got[k].id, t.got[k].name, t.got[k].rules)
          /\ \A k, l \in DOMAIN t.got : t.got[k].id = t.got[l].id => k = l
      BY <2>2, Listing DEF PageInv, TypeInv
    <2>4. \A k \in DOMAIN t.got : t.got[k].name \in Stored
      BY <2>3 DEF HasRow, Stored
    <2>5. Fit(t) /\ Sent(t) /\ Current(t) /\ (InPlace(s) => InPlace(t))
      BY <1>2, <2>2, <2>3 DEF Good, Fit, Sent, Current, InPlace
    <2>6. gone \cap Brings(t) = {}
      BY <1>2, <2>2, <2>4 DEF Good, Brings, PageInv, GoneInv
    <2>7. Good(t)
      BY <1>2, <2>2, <2>5, <2>6 DEF Good
    <2> QED
      BY <1>2, <1>3, <1>5, <2>1, <2>7, Quiet
  <1> QED
    BY <1>2, <1>4, <1>5

-----------------------------------------------------------------------------
(* What the user does *)

\* The board that is shown at a position.
LEMMA ShownBoard ==
  ASSUME PageInv, NEW i \in DOMAIN boards
  PROVE  /\ i \in Nat /\ boards[i] \in DOMAIN heap /\ boards[i] \in Nat
         /\ heap[boards[i]] \in Shown /\ heap[boards[i]].name \in Name \ gone
         /\ IdAt(i) \in Id \cup {None}
  <1>1. heap \in Seq(Shown) /\ boards \in Seq(DOMAIN heap) /\ boardIds \in Seq(Id \cup {None})
    BY DEF PageInv, TypeInv, PageOK
  <1>2. i \in Nat /\ boards[i] \in DOMAIN heap /\ boards[i] \in Nat
    BY <1>1
  <1> HIDE DEF Shown
  <1>3. heap[boards[i]] \in Shown
    BY <1>1, <1>2
  <1>4. heap[boards[i]].name \in Names
    BY <1>2 DEF Names, Range
  <1>5. IdAt(i) \in Id \cup {None}
    BY <1>1 DEF IdAt
  <1> QED
    BY <1>2, <1>3, <1>4, <1>5 DEF Shown, PageInv, GoneInv

\* An edit changes the rules of one board, and nothing that was told of it.
LEMMA EditGood ==
  ASSUME IInv, PageInv, NEW i \in DOMAIN boards, Edit(i)
  PROVE  PageInv'
  <1>1. /\ heap' = [heap EXCEPT ![boards[i]].rules = count.edits + 1]
        /\ UNCHANGED <<rows, modes, boards, boardIds, tomb, flows, crossed, gone>>
        /\ count' = [count EXCEPT !.edits = @ + 1]
    BY DEF Edit, database, history
  <1>2. Counters' /\ count.edits + 1 \in Rules
    BY <1>1 DEF Counters, PageInv, TypeInv, Rules
  <1>3. boards[i] \in DOMAIN heap
    BY ShownBoard
  <1>4. /\ heap' \in Seq(Shown) /\ DOMAIN heap' = DOMAIN heap /\ Kept
        /\ \A k \in DOMAIN heap : heap'[k].told = heap[k].told
    BY <1>1, <1>2, <1>3, OneChanged DEF PageInv, TypeInv
  <1>5. TypeInv'
    BY <1>1, <1>2, <1>4 DEF PageInv, TypeInv, DataOK, PageOK
  <1>6. \A k \in DOMAIN boards : boards[k] \in DOMAIN heap
    BY ShownBoard
  <1>7. GoneInv'
    <2>1. Names' = Names /\ Stored' = Stored
      BY <1>1, <1>4, <1>6 DEF Names, Stored, Kept, Range
    <2> QED
      BY <1>1, <2>1 DEF PageInv, GoneInv
  <1>8. SavedInv'
    <2>1. \A k \in DOMAIN boards : Told(k) => Told(k)'
      BY <1>1, <1>4, <1>6 DEF Told, HasRow, RulesOf, IdAt, Kept
    <2> QED
      BY <1>1, <2>1 DEF PageInv, SavedInv, Paired
  <1>9. ASSUME NEW f \in Flow, Busy(f)' PROVE Good(flows[f])'
    <2>1. PICK s : s = flows[f]
      OBVIOUS
    <2>2. Good(s) /\ flows'[f] = s
      BY <1>1, <1>9, <2>1 DEF PageInv, FlowsGood, Busy
    <2>3. s.kind \in {"save", "remove"} => s.obj \in DOMAIN heap
      BY <2>2 DEF Good, Fit
    <2>4. InPlace(s) => InPlace(s)'
      BY <1>1, <1>4, <2>3 DEF InPlace, Kept, IdAt
    <2>5. Good(s)'
      BY <1>1, <1>4, <2>2, <2>4 DEF Good, Fit, Brings, Sent, Current, HasRow, RulesOf
    <2> QED
      BY <2>2, <2>5
  <1> QED
    BY <1>1, <1>5, <1>7, <1>8, <1>9 DEF PageInv, Alone, FlowsGood, Busy

\* An operation begins.
LEMMA StartGood ==
  ASSUME IInv, PageInv, NEW f \in Flow, NEW s, Start(f, s), Good(s)',
         UNCHANGED <<database, page>>, tomb' \subseteq Name, gone' \subseteq tomb', gone' \subseteq gone
  PROVE  PageInv'
  <1>1. /\ UNCHANGED <<rows, modes, heap, boards, boardIds>> /\ Continue(f, s) /\ ~Busy(f)
        /\ crossed' = (crossed \/ \E g \in Flow : Busy(g))
    BY DEF Start, Continue, database, page
  <1>2. crossed' \in BOOLEAN /\ crossed \in BOOLEAN
    BY <1>1 DEF PageInv, TypeInv
  <1>3. Alone' /\ FlowsGood'
    BY <1>1, <1>2, OneGood DEF PageInv
  <1>4. Counters'
    BY DEF Start, Counters, PageInv, TypeInv
  <1>5. TypeInv'
    BY <1>1, <1>2, <1>4 DEF PageInv, TypeInv, DataOK, PageOK
  <1>6. GoneInv'
    BY <1>1 DEF PageInv, GoneInv, Names, Stored
  <1>7. SavedInv'
    BY <1>1 DEF PageInv, SavedInv, Paired, Told, HasRow, RulesOf, IdAt
  <1> QED
    BY <1>3, <1>5, <1>6, <1>7 DEF PageInv

\* A new operation has the fields of one.
LEMMA NewFields ==
  ASSUME NEW kind \in {"save", "create", "copy", "remove"}, NEW pc \in {"max", "delete", "undeploy"},
         NEW name \in Name, NEW obj \in Nat \cup {None}, NEW at \in Nat, NEW id \in Id \cup {None},
         NEW rules \in Rules
  PROVE  Operation(kind, pc, name, obj, at, id, rules) \in Fields(None)
  BY DEF Operation, Fields

\* A save begins.
LEMMA PersistGood ==
  ASSUME IInv, PageInv, NEW f \in Flow, NEW i \in DOMAIN boards, PersistDevice(f, i)
  PROVE  PageInv'
  <1> DEFINE name == heap[boards[i]].name
  <1>1. PICK s : s = Operation("save", "max", name, boards[i], i, IdAt(i), None)
    OBVIOUS
  <1>2. Start(f, s) /\ UNCHANGED <<database, page, tomb, gone>>
    BY <1>1 DEF PersistDevice
  <1>3. UNCHANGED <<heap, boards, boardIds>> /\ tomb' \subseteq Name /\ gone' \subseteq tomb'
    BY <1>2 DEF page, PageInv, TypeInv, GoneInv
  <1>4. /\ s \in Fields(s.got) /\ s.kind = "save" /\ s.pc = "max" /\ s.name = name
        /\ s.obj = boards[i] /\ s.at = i /\ s.id = IdAt(i) /\ s.todo = {}
    <2>1. s \in Fields(None)
      BY <1>1, ShownBoard, NewFields DEF Rules
    <2> QED
      BY <1>1, <2>1 DEF Operation
  <1>5. name \in Name \ gone /\ boards[i] \in DOMAIN heap /\ boards[i] # None
    BY ShownBoard, LibraryAssumption
  <1> HIDE DEF name
  <1>6. Fit(s)' /\ gone' \cap Brings(s)' = {} /\ Sent(s)' /\ Current(s)'
    BY <1>2, <1>3, <1>4, <1>5 DEF Fit, Brings, Sent, Current
  <1>7. InPlace(s)'
    BY <1>3, <1>4 DEF InPlace, IdAt, name
  <1>8. Good(s)'
    BY <1>4, <1>6, <1>7 DEF Good
  <1> QED
    BY <1>2, <1>3, <1>8, StartGood

\* A board is to be created, or copied.
LEMMA CreateGood ==
  ASSUME IInv, PageInv, NEW f \in Flow, NEW name \in Name,
         CreateFromDialog(f, name) \/ \E i \in DOMAIN boards : CopyFromDialog(f, i, name)
  PROVE  PageInv'
  <1>1. PICK s : /\ Start(f, s)
                 /\ \/ s = Operation("create", "max", name, None, 0, None, 0)
                    \/ \E i \in DOMAIN boards :
                         s = Operation("copy", "max", name, boards[i], 0, None, heap[boards[i]].rules)
    BY DEF CreateFromDialog, CopyFromDialog
  <1>2. tomb' = tomb \ {name} /\ gone' = gone \ {name} /\ UNCHANGED <<database, page>>
    BY DEF CreateFromDialog, CopyFromDialog
  <1>3. UNCHANGED heap /\ tomb' \subseteq Name /\ gone' \subseteq tomb'
    BY <1>2 DEF page, PageInv, TypeInv, GoneInv
  <1>4. /\ s \in Fields(s.got) /\ s.kind \in {"create", "copy"} /\ s.pc = "max" /\ s.name = name
        /\ s.obj \in DOMAIN heap \cup {None} /\ s.id = None /\ s.todo = {}
    <2>1. CASE s = Operation("create", "max", name, None, 0, None, 0)
      <3>1. s \in Fields(None)
        BY <2>1, NewFields DEF Rules
      <3> QED
        BY <2>1, <3>1 DEF Operation
    <2>2. CASE \E i \in DOMAIN boards :
                 s = Operation("copy", "max", name, boards[i], 0, None, heap[boards[i]].rules)
      <3>1. PICK i \in DOMAIN boards :
              s = Operation("copy", "max", name, boards[i], 0, None, heap[boards[i]].rules)
        BY <2>2
      <3>2. boards[i] \in DOMAIN heap /\ boards[i] \in Nat /\ heap[boards[i]].rules \in Rules
        BY ShownBoard DEF Shown
      <3>3. s \in Fields(None)
        BY <3>1, <3>2, NewFields
      <3> QED
        BY <3>1, <3>2, <3>3 DEF Operation
    <2> QED
      BY <1>1, <2>1, <2>2
  <1>5. Fit(s)' /\ gone' \cap Brings(s)' = {} /\ Sent(s)' /\ Current(s)' /\ InPlace(s)'
    BY <1>2, <1>3, <1>4 DEF Fit, Brings, Sent, Current, InPlace
  <1>6. Good(s)'
    BY <1>4, <1>5 DEF Good
  <1> QED
    BY <1>1, <1>2, <1>3, <1>6, StartGood

\* A board is to be removed: its name is among the tombstones before its row goes.
LEMMA RemoveGood ==
  ASSUME IInv, PageInv, NEW f \in Flow, NEW i \in DOMAIN boards, PerformRemove(f, i)
  PROVE  PageInv'
  <1> DEFINE name == heap[boards[i]].name
             pc == IF IdAt(i) = None THEN "undeploy" ELSE "delete"
  <1>1. PICK s : s = Operation("remove", pc, name, boards[i], i, IdAt(i), None)
    OBVIOUS
  <1>2. Start(f, s) /\ UNCHANGED <<database, page, gone>> /\ tomb' = tomb \cup {name}
    BY <1>1 DEF PerformRemove
  <1>3. name \in Name \ gone /\ boards[i] \in DOMAIN heap /\ boards[i] # None
    BY ShownBoard, LibraryAssumption
  <1>4. UNCHANGED <<heap, boards, boardIds>> /\ tomb' \subseteq Name /\ gone' \subseteq tomb'
    BY <1>2, <1>3 DEF page, PageInv, TypeInv, GoneInv
  <1>5. /\ s \in Fields(s.got) /\ s.kind = "remove" /\ s.pc = pc /\ s.name = name
        /\ s.obj = boards[i] /\ s.at = i /\ s.id = IdAt(i) /\ s.todo = {}
    <2>1. s \in Fields(None)
      BY <1>1, <1>3, ShownBoard, NewFields DEF Rules
    <2> QED
      BY <1>1, <2>1 DEF Operation
  <1>6. pc \in {"delete", "undeploy"} /\ (pc = "delete" => IdAt(i) # None)
    OBVIOUS
  <1> HIDE DEF name, pc
  <1>7. Fit(s)' /\ gone' \cap Brings(s)' = {} /\ Sent(s)' /\ Current(s)'
    BY <1>2, <1>3, <1>4, <1>5, <1>6 DEF Fit, Brings, Sent, Current
  <1>8. InPlace(s)'
    BY <1>4, <1>5 DEF InPlace, IdAt, name
  <1>9. Good(s)'
    BY <1>2, <1>5, <1>7, <1>8 DEF Good
  <1> QED
    BY <1>2, <1>4, <1>9, StartGood

-----------------------------------------------------------------------------
(* What the page shows of it *)

\* The id of a board is put at its position.
LEMMA PutIdType ==
  ASSUME NEW T, None \in T, NEW ids \in Seq(T), NEW i \in Nat, NEW id \in T,
         NEW new, new = PutId(ids, i, id)
  PROVE  /\ new \in Seq(T)
         /\ i \in DOMAIN ids => /\ DOMAIN new = DOMAIN ids /\ Len(new) = Len(ids)
                                /\ new[i] = id
                                /\ \A k \in DOMAIN ids : k # i => new[k] = ids[k]
  <1>1. Len(ids) \in Nat /\ DOMAIN ids = 1 .. Len(ids) /\ \A k \in DOMAIN ids : ids[k] \in T
    OBVIOUS
  <1>2. PICK n \in Nat : n = Max({Len(ids), i}) /\ n = IF Len(ids) >= i THEN Len(ids) ELSE i
    BY <1>1, MaxOfTwo
  <1>3. new = [k \in 1 .. n |-> IF k = i THEN id ELSE IF k \in DOMAIN ids THEN ids[k] ELSE None]
    BY <1>2 DEF PutId
  <1>4. new \in Seq(T) /\ DOMAIN new = 1 .. n /\ Len(new) = n
    BY <1>1, <1>2, <1>3
  <1>5. ASSUME i \in DOMAIN ids
        PROVE  /\ DOMAIN new = DOMAIN ids /\ Len(new) = Len(ids) /\ new[i] = id
               /\ \A k \in DOMAIN ids : k # i => new[k] = ids[k]
    <2>1. n = Len(ids) /\ i \in 1 .. n
      BY <1>1, <1>2, <1>5
    <2> QED
      BY <1>1, <1>3, <1>4, <2>1
  <1> QED
    BY <1>4, <1>5

\* A step in which one operation ends that was in progress.
LEMMA Ended ==
  ASSUME IInv, PageInv, NEW f \in Flow, Busy(f), Continue(f, Idle), UNCHANGED crossed,
         DOMAIN heap \subseteq DOMAIN heap', crossed => gone' \subseteq gone
  PROVE  Alone' /\ FlowsGood'
  <1>1. crossed \in BOOLEAN
    BY DEF PageInv, TypeInv
  <1> QED
    BY <1>1, OneGood DEF PageInv

\* The page learns that a save was stored.
LEMMA SaveGood ==
  ASSUME IInv, PageInv, NEW f \in Flow, SaveAnswered(f), flows[f].kind = "save"
  PROVE  PageInv'
  <1>1. PICK s : s = flows[f]
    OBVIOUS
  <1>2. /\ s.pc = "saved" /\ s.kind = "save" /\ Busy(f) /\ Good(s) /\ Continue(f, Idle)
        /\ heap' = [heap EXCEPT ![s.obj].told = s.got.rules]
        /\ boardIds' = PutId(boardIds, s.at, s.got.id)
        /\ UNCHANGED <<rows, modes, boards, tomb, crossed, gone, count>>
    BY <1>1 DEF SaveAnswered, After, Busy, PageInv, FlowsGood, database, history
  <1>3. /\ s.obj \in DOMAIN heap /\ s.at \in Nat /\ s.got.id \in Id /\ s.got.rules \in Rules
        /\ s.id # None => s.got.id = s.id
    BY <1>2 DEF Good, Fields, Fit, Posted
  <1>4. /\ heap' \in Seq(Shown) /\ DOMAIN heap' = DOMAIN heap /\ Kept
        /\ \A k \in DOMAIN heap : k # s.obj => heap'[k] = heap[k]
        /\ heap'[s.obj].told = s.got.rules
    BY <1>2, <1>3, OneChanged DEF PageInv, TypeInv
  <1>5. /\ boardIds' \in Seq(Id \cup {None})
        /\ s.at \in DOMAIN boardIds =>
             /\ DOMAIN boardIds' = DOMAIN boardIds /\ Len(boardIds') = Len(boardIds)
             /\ boardIds'[s.at] = s.got.id
             /\ \A k \in DOMAIN boardIds : k # s.at => boardIds'[k] = boardIds[k]
    <2>1. boardIds \in Seq(Id \cup {None})
      BY DEF PageInv, TypeInv, PageOK
    <2> DEFINE T == Id \cup {None}
    <2>2. boardIds \in Seq(T) /\ None \in T /\ s.at \in Nat /\ s.got.id \in T
      BY <1>3, <2>1
    <2> HIDE DEF T
    <2>3. PICK i \in Nat, id \in T : i = s.at /\ id = s.got.id
      BY <2>2
    <2>4. PICK ids, new : ids = boardIds /\ new = boardIds' /\ new = PutId(ids, i, id)
      BY <1>2, <2>3
    <2>5. /\ new \in Seq(T)
          /\ i \in DOMAIN ids => /\ DOMAIN new = DOMAIN ids /\ Len(new) = Len(ids)
                                 /\ new[i] = id
                                 /\ \A k \in DOMAIN ids : k # i => new[k] = ids[k]
      BY <2>2, <2>4, PutIdType
    <2> QED
      BY <2>3, <2>4, <2>5 DEF T
  <1>6. Alone' /\ FlowsGood'
    BY <1>2, <1>4, Ended
  <1>7. TypeInv'
    BY <1>2, <1>4, <1>5 DEF PageInv, TypeInv, DataOK, PageOK, Counters
  <1>8. \A k \in DOMAIN boards : boards[k] \in DOMAIN heap
    BY ShownBoard
  <1>9. GoneInv'
    <2>1. Names' = Names /\ Stored' = Stored
      BY <1>2, <1>4, <1>8 DEF Names, Stored, Kept, Range
    <2> QED
      BY <1>2, <2>1 DEF PageInv, GoneInv
  <1>10. SavedInv'
    <2> SUFFICES ASSUME ~crossed PROVE Paired' /\ \A i \in DOMAIN boards : Told(i)'
      BY <1>2 DEF SavedInv
    <2>1. Paired /\ \A i \in DOMAIN boards : Told(i)
      BY DEF PageInv, SavedInv
    <2>2. /\ s.at \in DOMAIN boards /\ boards[s.at] = s.obj /\ IdAt(s.at) = s.id
          /\ heap[s.obj].name = s.name
          /\ HasRow(s.got.id, s.name, s.got.rules)
          /\ s.id = None => s.got.id \notin Range(boardIds)
      BY <1>2 DEF Good, InPlace, Sent
    <2>3. DOMAIN boards = DOMAIN boardIds
      BY <2>1 DEF Paired, PageInv, TypeInv, PageOK
    <2>4. boardIds[s.at] = s.id /\ s.got.id # None
      BY <1>3, <2>2, <2>3, LibraryAssumption DEF IdAt, Id
    <2>5. ASSUME NEW i \in DOMAIN boardIds, i # s.at PROVE boardIds[i] # s.got.id
      BY <1>3, <2>1, <2>2, <2>3, <2>4, <2>5 DEF Paired, Range
    <2>6. Paired'
      BY <1>2, <1>5, <2>1, <2>2, <2>3, <2>5 DEF Paired
    <2>7. ASSUME NEW i \in DOMAIN boards PROVE Told(i)'
      <3>1. CASE i = s.at
        <4>1. IdAt(i)' = s.got.id /\ heap'[boards'[i]].name = s.name /\ heap'[boards'[i]].told = s.got.rules
          BY <1>2, <1>3, <1>4, <1>5, <2>2, <2>3, <3>1 DEF IdAt, Kept
        <4> QED
          BY <1>2, <2>2, <4>1 DEF Told, HasRow, RulesOf
      <3>2. CASE i # s.at
        <4>1. boards[i] # s.obj
          BY <2>1, <2>2, <3>2 DEF Paired
        <4>2. heap'[boards'[i]] = heap[boards[i]] /\ IdAt(i)' = IdAt(i)
          BY <1>2, <1>4, <1>5, <1>8, <2>2, <2>3, <3>2, <4>1 DEF IdAt
        <4> QED
          BY <1>2, <2>1, <4>2 DEF Told, HasRow, RulesOf
      <3> QED
        BY <3>1, <3>2
    <2> QED
      BY <2>6, <2>7
  <1> QED
    BY <1>6, <1>7, <1>9, <1>10 DEF PageInv

\* A board that was created or copied is shown with what was stored.
LEMMA AddedGood ==
  ASSUME IInv, PageInv, NEW f \in Flow, SaveAnswered(f), flows[f].kind \in {"create", "copy"}
  PROVE  PageInv'
  <1>1. PICK s : s = flows[f]
    OBVIOUS
  <1> DEFINE new == [name |-> s.name, rules |-> s.rules, told |-> s.got.rules]
  <1>2. /\ s.pc = "saved" /\ s.kind \in {"create", "copy"} /\ Busy(f) /\ Good(s) /\ Continue(f, Idle)
        /\ heap' = Append(heap, new) /\ boards' = Append(boards, Len(heap) + 1)
        /\ boardIds' = Append(boardIds, s.got.id)
        /\ UNCHANGED <<rows, modes, tomb, crossed, gone, count>>
    BY <1>1 DEF SaveAnswered, After, Busy, PageInv, FlowsGood, database, history
  <1>3. /\ new \in Shown /\ new.name = s.name /\ new.told = s.got.rules
        /\ s.got.id \in Id /\ s.id = None /\ s.name \notin gone
    <2>1. s.name \in Name /\ s.rules \in Rules /\ s.got \in Posted /\ s.id = None
      BY <1>2 DEF Good, Fields, Fit
    <2>2. s.name \in Brings(s)
      BY <1>2 DEF Brings
    <2> QED
      BY <1>2, <2>1, <2>2 DEF Shown, Posted, Good
  <1> HIDE DEF new
  <1>4. heap \in Seq(Shown) /\ boards \in Seq(DOMAIN heap) /\ boardIds \in Seq(Id \cup {None})
    BY DEF PageInv, TypeInv, PageOK
  <1> DEFINE n == Len(heap) + 1
  <1>5. /\ heap' \in Seq(Shown) /\ DOMAIN heap' = DOMAIN heap \cup {n} /\ n \notin DOMAIN heap
        /\ heap'[n] = new /\ \A k \in DOMAIN heap : heap'[k] = heap[k]
    BY <1>2, <1>3, <1>4
  <1>6. Len(boards) \in Nat /\ DOMAIN boards = 1 .. Len(boards) /\ \A k \in DOMAIN boards : boards[k] \in DOMAIN heap
    BY <1>4
  <1> HIDE DEF n
  <1>7. /\ boards' \in Seq(DOMAIN heap') /\ DOMAIN boards' = 1 .. Len(boards) + 1
        /\ Len(boards') = Len(boards) + 1
        /\ boards'[Len(boards) + 1] = n /\ \A k \in DOMAIN boards : boards'[k] = boards[k]
    <2>1. boards \in Seq(DOMAIN heap') /\ n \in DOMAIN heap' /\ boards' = Append(boards, n)
      BY <1>2, <1>4, <1>5, WiderSeq DEF n
    <2> QED
      BY <1>6, <2>1
  <1>8. /\ boardIds' \in Seq(Id \cup {None}) /\ Len(boardIds) \in Nat
        /\ DOMAIN boardIds = 1 .. Len(boardIds) /\ DOMAIN boardIds' = 1 .. Len(boardIds) + 1
        /\ Len(boardIds') = Len(boardIds) + 1
        /\ boardIds'[Len(boardIds) + 1] = s.got.id
        /\ \A k \in DOMAIN boardIds : boardIds'[k] = boardIds[k]
    BY <1>2, <1>3, <1>4
  <1>9. Alone' /\ FlowsGood'
    BY <1>2, <1>5, Ended
  <1>10. TypeInv'
    BY <1>2, <1>5, <1>7, <1>8 DEF PageInv, TypeInv, DataOK, PageOK, Counters
  <1>11. GoneInv'
    <2>1. Names' \subseteq Names \cup {s.name}
      <3>1. ASSUME NEW k \in DOMAIN boards' PROVE heap'[boards'[k]].name \in Names \cup {s.name}
        <4>1. CASE k = Len(boards) + 1
          BY <1>3, <1>5, <1>7, <4>1
        <4>2. CASE k # Len(boards) + 1
          <5>1. k \in DOMAIN boards
            BY <1>6, <1>7, <4>2
          <5> QED
            BY <1>5, <1>6, <1>7, <5>1 DEF Names, Range
        <4> QED
          BY <4>1, <4>2
      <3> QED
        BY <3>1 DEF Names, Range
    <2> QED
      BY <1>2, <1>3, <2>1 DEF PageInv, GoneInv, Stored
  <1>12. SavedInv'
    <2> SUFFICES ASSUME ~crossed PROVE Paired' /\ \A i \in DOMAIN boards' : Told(i)'
      BY <1>2 DEF SavedInv
    <2>1. Paired /\ \A i \in DOMAIN boards : Told(i)
      BY DEF PageInv, SavedInv
    <2>2. HasRow(s.got.id, s.name, s.got.rules) /\ s.got.id \notin Range(boardIds)
      BY <1>2, <1>3 DEF Good, Sent
    <2>3. Len(boardIds) = Len(boards)
      BY <2>1 DEF Paired
    <2>4. Paired'
      <3>1. \A i, j \in DOMAIN boards' : boards'[i] = boards'[j] => i = j
        BY <1>5, <1>6, <1>7, <2>1 DEF Paired
      <3>2. \A i \in DOMAIN boardIds : boardIds[i] # s.got.id
        BY <2>2 DEF Range
      <3>3. \A i, j \in DOMAIN boardIds' : boardIds'[i] = boardIds'[j] /\ boardIds'[i] # None => i = j
        BY <1>8, <2>1, <3>2 DEF Paired
      <3> QED
        BY <1>7, <1>8, <2>3, <3>1, <3>3 DEF Paired
    <2>5. ASSUME NEW i \in DOMAIN boards' PROVE Told(i)'
      <3>1. CASE i = Len(boards) + 1
        BY <1>2, <1>3, <1>5, <1>7, <1>8, <2>2, <2>3, <3>1 DEF Told, HasRow, RulesOf, IdAt
      <3>2. CASE i # Len(boards) + 1
        <4>1. i \in DOMAIN boards /\ i \in DOMAIN boardIds
          BY <1>6, <1>7, <1>8, <2>3, <3>2
        <4>2. heap'[boards'[i]] = heap[boards[i]] /\ IdAt(i)' = IdAt(i)
          BY <1>5, <1>6, <1>7, <1>8, <4>1 DEF IdAt
        <4> QED
          BY <1>2, <2>1, <4>1, <4>2 DEF Told, HasRow, RulesOf
      <3> QED
        BY <3>1, <3>2
    <2> QED
      BY <2>4, <2>5
  <1> QED
    BY <1>9, <1>10, <1>11, <1>12 DEF PageInv

\* The answer to a request to create.
LEMMA AnsweredGood ==
  ASSUME IInv, PageInv, NEW f \in Flow, SaveAnswered(f)
  PROVE  PageInv'
  <1>1. PICK s : s = flows[f]
    OBVIOUS
  <1>2. s.pc = "saved" /\ Busy(f) /\ Good(s) /\ Continue(f, After(s))
    BY <1>1 DEF SaveAnswered, Busy, PageInv, FlowsGood
  <1>3. s.kind \in {"load", "save", "create", "copy"}
    BY <1>2 DEF Good, Fields, Fit
  <1>4. CASE s.kind = "load"
    <2>1. UNCHANGED <<database, page, tomb, history>> /\ Counters'
      BY <1>1, <1>4 DEF SaveAnswered, PageInv, TypeInv, Counters
    <2>2. After(s) = Idle \/ Good(After(s))
      BY <1>2, AfterGood DEF PageInv, TypeInv
    <2> QED
      BY <1>2, <2>1, <2>2, Quiet
  <1> QED
    BY <1>1, <1>3, <1>4, SaveGood, AddedGood

\* The board at the position of a removed one goes off the rail, and its name is gone
\* for good if nothing was in the way.
LEMMA RemovedGood ==
  ASSUME IInv, PageInv, NEW f \in Flow, RemoveShown(f)
  PROVE  PageInv'
  <1>1. PICK s : s = flows[f]
    OBVIOUS
  <1>2. /\ s.pc = "undeploy" /\ Busy(f) /\ Good(s) /\ Continue(f, Idle)
        /\ boards' = IF s.at \in DOMAIN boards THEN RemoveAt(boards, s.at) ELSE boards
        /\ boardIds' = IF s.at \in DOMAIN boardIds THEN RemoveAt(boardIds, s.at) ELSE boardIds
        /\ gone' = IF crossed \/ s.name \in Stored \cup Names' THEN gone ELSE gone \cup {s.name}
        /\ UNCHANGED <<rows, modes, heap, tomb, crossed, count>>
    BY <1>1 DEF RemoveShown, Busy, PageInv, FlowsGood, database
  <1>3. s.kind = "remove" /\ s.name \in Name /\ (~crossed => s.name \in tomb)
    BY <1>2 DEF Good, Fit
  <1>4. heap \in Seq(Shown) /\ boards \in Seq(DOMAIN heap) /\ boardIds \in Seq(Id \cup {None})
    BY DEF PageInv, TypeInv, PageOK
  <1>5. /\ boards' \in Seq(DOMAIN heap)
        /\ \A k \in DOMAIN boards' : \E l \in DOMAIN boards : boards'[k] = boards[l]
        /\ s.at \in DOMAIN boards =>
             /\ Len(boards') = Len(boards) - 1 /\ DOMAIN boards' = 1 .. Len(boards) - 1
             /\ Len(boards) \in Nat /\ DOMAIN boards = 1 .. Len(boards)
             /\ \A k \in 1 .. Len(boards) - 1 : boards'[k] = IF k < s.at THEN boards[k] ELSE boards[k + 1]
    <2>1. CASE s.at \in DOMAIN boards
      <3>1. /\ boards' \in Seq(DOMAIN heap) /\ Len(boards') = Len(boards) - 1
            /\ DOMAIN boards' = 1 .. Len(boards) - 1
            /\ \A k \in 1 .. Len(boards) - 1 : boards'[k] = IF k < s.at THEN boards[k] ELSE boards[k + 1]
        BY <1>2, <1>4, <2>1, Removed
      <3>2. Len(boards) \in Nat /\ DOMAIN boards = 1 .. Len(boards) /\ s.at \in Nat
        BY <1>4, <2>1
      <3>3. \A k \in DOMAIN boards' : k \in DOMAIN boards /\ k + 1 \in DOMAIN boards
        BY <3>1, <3>2
      <3> QED
        BY <3>1, <3>2, <3>3
    <2>2. CASE s.at \notin DOMAIN boards
      BY <1>2, <1>4, <2>2
    <2> QED
      BY <2>1, <2>2
  <1>6. /\ boardIds' \in Seq(Id \cup {None})
        /\ s.at \in DOMAIN boardIds =>
             /\ Len(boardIds') = Len(boardIds) - 1 /\ DOMAIN boardIds' = 1 .. Len(boardIds) - 1
             /\ \A k \in 1 .. Len(boardIds) - 1 :
                  boardIds'[k] = IF k < s.at THEN boardIds[k] ELSE boardIds[k + 1]
    <2> DEFINE S == Id \cup {None}
    <2>1. boardIds \in Seq(S)
      BY <1>4
    <2> HIDE DEF S
    <2>2. CASE s.at \in DOMAIN boardIds
      <3>1. boardIds' = RemoveAt(boardIds, s.at)
        BY <1>2, <2>2
      <3>2. /\ boardIds' \in Seq(S)
            /\ Len(boardIds') = Len(boardIds) - 1 /\ DOMAIN boardIds' = 1 .. Len(boardIds) - 1
            /\ \A k \in 1 .. Len(boardIds) - 1 :
                 boardIds'[k] = IF k < s.at THEN boardIds[k] ELSE boardIds[k + 1]
        BY <2>1, <2>2, <3>1, Removed
      <3> QED
        BY <3>2 DEF S
    <2>3. CASE s.at \notin DOMAIN boardIds
      <3>1. boardIds' \in Seq(Id \cup {None})
        BY <1>2, <1>4, <2>3
      <3> QED
        BY <2>3, <3>1
    <2> QED
      BY <2>2, <2>3
  <1>7. Names' \subseteq Names /\ Stored' = Stored
    <2>1. Range(boards') \subseteq Range(boards)
      BY <1>5 DEF Range
    <2> QED
      BY <1>2, <2>1 DEF Names, Stored
  <1>8. crossed => gone' \subseteq gone
    BY <1>2
  <1>9. Alone' /\ FlowsGood'
    BY <1>2, <1>8, Ended
  <1>10. gone' \subseteq gone \cup {s.name} /\ (s.name \in gone' => s.name \in gone \/ s.name \notin Stored \cup Names')
    BY <1>2
  <1>11. TypeInv'
    BY <1>2, <1>3, <1>5, <1>6, <1>10 DEF PageInv, TypeInv, DataOK, PageOK, Counters
  <1>12. GoneInv'
    <2>1. gone' \subseteq tomb
      BY <1>2, <1>3, <1>10 DEF PageInv, GoneInv
    <2> QED
      BY <1>2, <1>7, <1>10, <2>1 DEF PageInv, GoneInv
  <1>13. SavedInv'
    <2> SUFFICES ASSUME ~crossed PROVE Paired' /\ \A i \in DOMAIN boards' : Told(i)'
      BY <1>2 DEF SavedInv
    <2>1. Paired /\ \A i \in DOMAIN boards : Told(i)
      BY DEF PageInv, SavedInv
    <2>2. s.at \in DOMAIN boards /\ s.at \in Nat
      BY <1>2, <1>3, <1>4 DEF Good, InPlace
    <2> DEFINE n == Len(boards)
               At(k) == IF k < s.at THEN k ELSE k + 1
    <2>3. n \in Nat /\ DOMAIN boards = 1 .. n /\ DOMAIN boardIds = 1 .. n /\ Len(boardIds) = n
      BY <1>4, <1>5, <2>1, <2>2 DEF Paired
    <2>4. /\ Len(boards') = n - 1 /\ DOMAIN boards' = 1 .. n - 1
          /\ Len(boardIds') = n - 1 /\ DOMAIN boardIds' = 1 .. n - 1
      BY <1>5, <1>6, <2>2, <2>3
    <2>5. \A k \in 1 .. n - 1 :
            At(k) \in 1 .. n /\ boards'[k] = boards[At(k)] /\ boardIds'[k] = boardIds[At(k)]
      <3>1. \A k \in 1 .. n - 1 : At(k) \in 1 .. n
        BY <2>2, <2>3
      <3>2. \A k \in 1 .. n - 1 : boards'[k] = boards[At(k)]
        <4> TAKE k \in 1 .. n - 1
        <4>1. boards'[k] = IF k < s.at THEN boards[k] ELSE boards[k + 1]
          BY <1>5, <2>2
        <4> QED
          BY <4>1
      <3>3. \A k \in 1 .. n - 1 : boardIds'[k] = boardIds[At(k)]
        <4> TAKE k \in 1 .. n - 1
        <4>1. boardIds'[k] = IF k < s.at THEN boardIds[k] ELSE boardIds[k + 1]
          BY <1>6, <2>2, <2>3
        <4> QED
          BY <4>1
      <3> QED
        BY <3>1, <3>2, <3>3
    <2>6. \A k, l \in 1 .. n - 1 : At(k) = At(l) => k = l
      BY <2>2, <2>3
    <2> HIDE DEF n, At
    <2>7. Paired'
      BY <2>1, <2>3, <2>4, <2>5, <2>6 DEF Paired
    <2>8. ASSUME NEW i \in 1 .. n - 1 PROVE Told(i)'
      <3>1. Told(At(i)) /\ IdAt(i)' = IdAt(At(i)) /\ boards'[i] = boards[At(i)]
        BY <2>1, <2>3, <2>4, <2>5 DEF IdAt
      <3> QED
        BY <1>2, <3>1 DEF Told, HasRow, RulesOf
    <2> QED
      BY <2>4, <2>7, <2>8
  <1> QED
    BY <1>9, <1>11, <1>12, <1>13 DEF PageInv

\* The list that was read is shown, or the bundled boards.
LEMMA ShowGood ==
  ASSUME IInv, PageInv, Show \/ LoadFails
  PROVE  PageInv'
  <1>1. PICK s : s = flows[1]
    OBVIOUS
  <1>2. /\ 1 \in Flow /\ Busy(1) /\ Good(s) /\ Continue(1, Idle)
        /\ Offline \/ (s.pc = "show" /\ ShowBoards(s.got))
        /\ UNCHANGED <<rows, modes, tomb, crossed, gone>>
    BY <1>1, FirstFlow DEF Show, LoadFails, Busy, PageInv, FlowsGood, database, history
  <1>3. Counters'
    BY FaultCounted DEF Show, LoadFails, PageInv, TypeInv, Counters
  <1>4. /\ PageOK' /\ Kept /\ Len(boardIds') = Len(boards')
        /\ \A k, l \in DOMAIN boards' : boards'[k] = boards'[l] => k = l
        /\ \A k \in DOMAIN boards' :
             /\ heap'[boards'[k]].name \notin gone
             /\ ~crossed /\ heap'[boards'[k]].told # None =>
                  HasRow(boardIds'[k], heap'[boards'[k]].name, heap'[boards'[k]].told)
        /\ ~crossed => \A k, l \in DOMAIN boards' : boardIds'[k] = boardIds'[l] /\ boardIds'[k] # None => k = l
    <2>1. CASE Offline
      BY <2>1, OfflineShown DEF PageInv, TypeInv, GoneInv
    <2>2. CASE s.pc = "show" /\ ShowBoards(s.got)
      <3>1. PICK list \in Seq(Listed) : list = s.got
        BY <1>2, <2>2 DEF Good, Fit
      <3>2. /\ PageOK' /\ Kept /\ Len(boardIds') = Len(boards')
            /\ DOMAIN boards' = DOMAIN list
            /\ \A k \in DOMAIN list :
                 /\ heap'[boards'[k]].name = list[k].name /\ heap'[boards'[k]].told = list[k].rules
                 /\ boardIds'[k] = list[k].id
            /\ \A k, l \in DOMAIN list : boards'[k] = boards'[l] => k = l
        BY <2>2, <3>1, ListShown DEF PageInv, TypeInv
      <3>3. \A k \in DOMAIN list : list[k].name \notin gone
        BY <1>2, <2>2, <3>1 DEF Good, Brings
      <3>4. ~crossed => /\ \A k \in DOMAIN list : HasRow(list[k].id, list[k].name, list[k].rules)
                        /\ \A k, l \in DOMAIN list : list[k].id = list[l].id => k = l
        BY <1>2, <2>2, <3>1 DEF Good, Current
      <3> QED
        BY <3>2, <3>3, <3>4
    <2> QED
      BY <1>2, <2>1, <2>2
  <1>5. Alone' /\ FlowsGood'
    BY <1>2, <1>4, Ended DEF Kept
  <1>6. TypeInv'
    BY <1>2, <1>3, <1>4 DEF PageInv, TypeInv, DataOK
  <1>7. GoneInv'
    BY <1>2, <1>4 DEF PageInv, GoneInv, Names, Stored, Range
  <1>8. DOMAIN boardIds' = DOMAIN boards'
    BY <1>4 DEF PageOK
  <1>9. SavedInv'
    <2> SUFFICES ASSUME ~crossed PROVE Paired' /\ \A i \in DOMAIN boards' : Told(i)'
      BY <1>2 DEF SavedInv
    <2>1. Paired'
      BY <1>4, <1>8 DEF Paired
    <2>2. \A i \in DOMAIN boards' : Told(i)'
      BY <1>2, <1>4, <1>8 DEF Told, HasRow, RulesOf, IdAt
    <2> QED
      BY <2>1, <2>2
  <1> QED
    BY <1>5, <1>6, <1>7, <1>9 DEF PageInv

\* The load of the page begins.
LEMMA LoadingGood ==
  ASSUME gone \subseteq Name
  PROVE  Good(Loading)
  <1>1. Loading \in Fields(None) /\ Loading.got = None
    BY DEF Loading, Operation, Fields, Rules
  <1>2. /\ Loading.kind = "load" /\ Loading.pc = "fetch" /\ Loading.name = None /\ Loading.id = None
        /\ Loading.obj = None /\ Loading.todo = {}
    BY DEF Loading, Operation
  <1> QED
    BY <1>1, <1>2, LibraryAssumption DEF Good, Fit, Brings, InPlace, Sent, Current

\* A reload of the page: what was removed stays removed.
LEMMA ReloadGood ==
  ASSUME IInv, PageInv, Reload
  PROVE  PageInv'
  <1>1. /\ heap' = <<>> /\ boards' = <<>> /\ boardIds' = <<>> /\ crossed' = FALSE
        /\ flows' = [f \in Flow |-> IF f = 1 THEN Loading ELSE Idle]
        /\ UNCHANGED <<rows, modes, tomb, gone>>
        /\ count' = [count EXCEPT !.reloads = @ + 1]
    BY DEF Reload, database
  <1>2. TypeInv'
    <2>1. DataOK' /\ PageOK' /\ Counters'
      <3>1. boards' \in Seq(DOMAIN heap') /\ heap' \in Seq(Shown) /\ boardIds' \in Seq(Id \cup {None})
        BY <1>1
      <3>2. Counters'
        BY <1>1 DEF PageInv, TypeInv, Counters
      <3> QED
        BY <1>1, <3>1, <3>2 DEF PageInv, TypeInv, DataOK, PageOK
    <2> QED
      BY <1>1, <2>1 DEF PageInv, TypeInv
  <1>3. Alone'
    BY <1>1 DEF Alone, Busy, Idle
  <1>4. FlowsGood'
    <2>1. Good(Loading)'
      <3>1. PICK l : l = Loading
        OBVIOUS
      <3>2. Good(l)'
        BY <1>1, <3>1, LoadingGood DEF PageInv, TypeInv, Good, Fit, Brings, InPlace, Sent, Current,
           Loading, Operation
      <3> QED
        BY <3>1, <3>2 DEF Loading, Operation
    <2> QED
      BY <1>1, <2>1 DEF FlowsGood, Busy, Idle
  <1>5. GoneInv'
    BY <1>1 DEF PageInv, GoneInv, Names, Stored, Range
  <1>6. SavedInv'
    BY <1>1 DEF SavedInv, Paired
  <1> QED
    BY <1>2, <1>3, <1>4, <1>5, <1>6 DEF PageInv

-----------------------------------------------------------------------------
\* The page is loading, and the database is empty.
LEMMA PageInit == Init => PageInv
  <1> SUFFICES ASSUME Init PROVE PageInv
    OBVIOUS
  <1>1. TypeInv
    <2>1. DOMAIN rows = {} /\ heap = <<>> /\ boards = <<>> /\ boardIds = <<>> /\ modes = <<>>
      BY DEF Init
    <2>2. DataOK
      BY <2>1, FS_EmptySet DEF DataOK
    <2>3. PageOK
      BY <2>1 DEF PageOK
    <2>4. Counters
      BY DEF Init, Counters
    <2> QED
      BY <2>2, <2>3, <2>4 DEF Init, TypeInv
  <1>2. FlowsGood /\ Alone
    BY LoadingGood DEF Init, FlowsGood, Alone, Busy, Idle
  <1>3. GoneInv /\ SavedInv
    BY DEF Init, GoneInv, SavedInv, Paired
  <1> QED
    BY <1>1, <1>2, <1>3 DEF PageInv

\* Every step keeps what the page, the database and the operations know of each other.
LEMMA PageStepGood == IInv /\ PageInv /\ [Next]_vars => PageInv'
  <1> SUFFICES ASSUME IInv, PageInv, [Next]_vars PROVE PageInv'
    OBVIOUS
  <1>1. CASE UNCHANGED vars
    <2>1. UNCHANGED <<rows, modes, heap, boards, boardIds, tomb, flows, crossed, gone, count>>
      BY <1>1 DEF vars, database, page, history
    <2>2. TypeInv' /\ GoneInv' /\ SavedInv'
      BY <2>1 DEF PageInv, TypeInv, DataOK, PageOK, Counters, GoneInv, Names, Stored, SavedInv,
         Paired, Told, HasRow, RulesOf, IdAt
    <2>3. Alone'
      BY <2>1 DEF PageInv, Alone, Busy
    <2>4. FlowsGood'
      <3>1. ASSUME NEW g \in Flow, Busy(g)' PROVE Good(flows[g])'
        <4>1. PICK w : w = flows[g]
          OBVIOUS
        <4>2. Good(w) /\ flows'[g] = w
          BY <2>1, <3>1, <4>1 DEF PageInv, FlowsGood, Busy
        <4>3. Good(w)'
          BY <2>1, <4>2, SameGood
        <4> QED
          BY <4>2, <4>3
      <3> QED
        BY <3>1 DEF FlowsGood
    <2> QED
      BY <2>2, <2>3, <2>4 DEF PageInv
  <1>2. CASE User
    BY <1>2, EditGood, PersistGood, RemoveGood, CreateGood, ReloadGood DEF User
  <1>3. CASE Answers
    BY <1>3, MaxIdsGood, DeleteGood, PostGood, AnsweredGood, RemovedGood, FetchGood, ShowGood DEF Answers
  <1>4. CASE Faults
    BY <1>4, ShowGood, ReadStep, DeleteGood DEF Faults
  <1> QED
    BY <1>1, <1>2, <1>3, <1>4 DEF Next

\* The page and the database fit.
LEMMA PageSafety == Spec => []PageInv
  <1>1. Init => IInv /\ PageInv
    BY InvInit, PageInit
  <1>2. IInv /\ PageInv /\ [Next]_vars => (IInv /\ PageInv)'
    BY InvStep, PageStepGood
  <1> QED
    BY <1>1, <1>2, PTL DEF Spec

\* The tables, the arrays of the page and the tombstones have their types, whatever
\* requests and answers are lost: a row links a mode that exists, the rail shows
\* boards that exist.
THEOREM Typing == Spec => []TypeOK
  <1>1. PageInv => TypeOK
    BY DEF PageInv, TypeInv, DataOK, PageOK, TypeOK, Shown, Rules, Id
  <1> QED
    BY <1>1, PageSafety, PTL

\* What the page said is saved is in the database, under the id the page holds and
\* with the rules that were sent, for any number of edits, failed saves, copies,
\* removals and reloads, while operations do not overlap.
THEOREM Saved == Spec => []SavedIsStored
  <1>1. ASSUME PageInv PROVE SavedIsStored
    BY <1>1 DEF PageInv, TypeInv, SavedInv, SavedIsStored, Told, HasRow
  <1>2. PageInv => SavedIsStored
    BY <1>1
  <1> QED
    BY <1>2, PageSafety, PTL

\* A board that was removed for good is neither shown nor stored again, by a reload,
\* the seeding or the offline list, until the user adds it.
THEOREM Removal == Spec => []StaysDeleted
  <1>1. PageInv => StaysDeleted
    BY DEF PageInv, GoneInv, StaysDeleted
  <1> QED
    BY <1>1, PageSafety, PTL
=============================================================================
