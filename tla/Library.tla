------------------------------ MODULE Library ------------------------------
(***************************************************************************)
(* The rules library: the profiles the console shows, and the database of  *)
(* the backend that keeps them.                                            *)
(*                                                                         *)
(*   console  frontend/console/src/App.tsx, api/client.ts: asynchronous    *)
(*            operations that nothing keeps from overlapping               *)
(*   backend  the generated REST handlers and DAOs of board and mode; one  *)
(*            thread, so a request is one step; no transactions            *)
(*                                                                         *)
(* A board has one mode, or none; what the mode holds is one number that   *)
(* every edit changes.  The other child tables (rule, trigger, action) get *)
(* their ids as the mode table does, and are left out.                     *)
(***************************************************************************)
EXTENDS Naturals, Sequences, SequencesExt, FiniteSetsExt

CONSTANTS
  Name,       \* values of DEVICE.name
  Bundled,    \* names of REAL_BOARDS
  None,       \* null
  MaxFlows,   \* bound on operations in progress at once
  MaxOps,     \* bound on operations
  MaxEdits,   \* bound on edits
  MaxFaults,  \* bound on lost requests and answers
  MaxReloads  \* bound on reloads of the page

ASSUME LibraryAssumption ==
  /\ Bundled \subseteq Name /\ IsFiniteSet(Bundled) /\ None \notin Nat /\ None \notin Name
  /\ {MaxFlows, MaxOps, MaxEdits, MaxFaults, MaxReloads} \subseteq Nat /\ MaxFlows > 0

VARIABLES
  rows,      \* board_table: rows[id], the name and the linked mode (0: none)
  modes,     \* mode_table: modes[id], whose it is and what it holds; the
             \* console never deletes one
  heap,      \* the Board objects of the page: [name, rules, told], told is
             \* what the page said is saved (history)
  boards,    \* what the rail shows, as positions in heap
  boardIds,  \* the ids of the shown boards, a separate array
  tomb,      \* localStorage: names the user removed
  flows,     \* flows[f]: an operation in progress; 1 starts as the load of the page
  crossed,   \* history: since the page was loaded, operations have overlapped,
             \* or a board was given an id the page holds for another one
  gone,      \* history: names removed for good
  count      \* [ops, edits, faults, reloads] so far

database == <<rows, modes>>
page     == <<heap, boards, boardIds>>
history  == <<crossed, gone>>
vars     == <<database, page, tomb, flows, history, count>>

Flow  == 1 .. MaxFlows
Table == {"board", "mode"}
Idle  == [kind |-> "none", pc |-> "idle"]

(* An operation: the object or the values it works on, the position and    *)
(* the id it found at its start, the maxima it read, the names to seed.    *)
Operation(kind, pc, name, obj, at, id, rules) ==
  [kind |-> kind, pc |-> pc, name |-> name, obj |-> obj, at |-> at, id |-> id,
   rules |-> rules, top |-> [t \in Table |-> None], todo |-> {}, got |-> None]

Loading == Operation("load", "fetch", None, None, 0, None, None)

Busy(f) == flows[f].pc # "idle"

Names  == {heap[k].name : k \in Range(boards)}
Stored == {rows[id].name : id \in DOMAIN rows}

(* boardIds[i]; past the end it is undefined, which counts as null.        *)
IdAt(i) == IF i \in DOMAIN boardIds THEN boardIds[i] ELSE None

Init ==
  /\ rows = <<>> /\ modes = <<>>
  /\ heap = <<>> /\ boards = <<>> /\ boardIds = <<>>
  /\ tomb = {}
  /\ flows = [f \in Flow |-> IF f = 1 THEN Loading ELSE Idle]
  /\ crossed = FALSE /\ gone = {}
  /\ count = [ops |-> 0, edits |-> 0, faults |-> 0, reloads |-> 0]

-----------------------------------------------------------------------------
(* The backend.  What each request does to the database.                   *)

RulesOf(id) == IF rows[id].mode = 0 THEN None ELSE modes[rows[id].mode].rules

Ascending(s) == \A k, l \in DOMAIN s : k < l => s[k] < s[l]

(* GET /board: the aggregates, in the order of their ids.                  *)
ListBoards ==
  LET ids == CHOOSE s \in [1 .. Cardinality(DOMAIN rows) -> DOMAIN rows] : Ascending(s)
  IN  [k \in DOMAIN ids |->
         [id |-> ids[k], name |-> rows[ids[k]].name, rules |-> RulesOf(ids[k])]]

(* The highest id of a table.                                              *)
Highest(t) == IF t = "board" THEN Max(DOMAIN rows \cup {0}) ELSE Len(modes)

RemoveRow(id) == rows' = [i \in DOMAIN rows \ {id} |-> rows[i]]

(* The row is inserted first, then the mode, then the link between them;   *)
(* a conflict of keys ends the request where it is.                        *)
\* Mutant: the link is made with the id after that of the mode.
InsertRowMutant(id, name, mode) ==
  rows' = [i \in DOMAIN rows \cup {id} |->
             IF i = id THEN [name |-> name, mode |-> IF mode = 0 THEN 0 ELSE mode + 1] ELSE rows[i]]

InsertRow(id, name, mode) ==
  rows' = [i \in DOMAIN rows \cup {id} |->
             IF i = id THEN [name |-> name, mode |-> mode] ELSE rows[i]]

\* Mutant: a conflict of the mode does not end the request; the link is made.
CreateMutant(id, name, mode, rules, worked) ==
  \/ id \in DOMAIN rows /\ ~worked /\ UNCHANGED database
  \/ /\ id \notin DOMAIN rows /\ worked
     /\ InsertRow(id, name, IF rules = None THEN 0 ELSE mode)
     /\ modes' = IF rules = None \/ mode \in DOMAIN modes THEN modes
                 ELSE Append(modes, [name |-> name, rules |-> rules])

Create(id, name, mode, rules, worked) ==
  \/ /\ id \in DOMAIN rows
     /\ ~worked
     /\ UNCHANGED database
  \/ /\ id \notin DOMAIN rows /\ rules = None
     /\ worked
     /\ InsertRow(id, name, 0) /\ UNCHANGED modes
  \/ /\ id \notin DOMAIN rows /\ rules # None /\ mode \in DOMAIN modes
     /\ ~worked
     /\ InsertRow(id, name, 0) /\ UNCHANGED modes
  \/ /\ id \notin DOMAIN rows /\ rules # None /\ mode \notin DOMAIN modes
     /\ worked
     /\ InsertRow(id, name, mode)
     /\ modes' = Append(modes, [name |-> name, rules |-> rules])

-----------------------------------------------------------------------------
(* The operations of the console.                                          *)

Start(f, operation) ==
  /\ ~Busy(f) /\ \A g \in 1 .. f - 1 : Busy(g)
  /\ count.ops < MaxOps /\ count' = [count EXCEPT !.ops = @ + 1]
  /\ flows' = [flows EXCEPT ![f] = operation]
  /\ crossed' = (crossed \/ \E g \in Flow : Busy(g))

Continue(f, operation) == flows' = [flows EXCEPT ![f] = operation]

(* An edit of a rule, or of the modes; onDelete and the like save at once. *)
Edit(i) ==
  /\ count.edits < MaxEdits /\ count' = [count EXCEPT !.edits = @ + 1]
  /\ heap' = [heap EXCEPT ![boards[i]].rules = count.edits + 1]
  /\ UNCHANGED <<database, boards, boardIds, tomb, flows, history>>

PersistDevice(f, i) ==
  /\ Start(f, Operation("save", "max", heap[boards[i]].name, boards[i], i, IdAt(i), None))
  /\ UNCHANGED <<database, page, tomb, gone>>

CreateFromDialog(f, name) ==
  /\ name \notin Names
  /\ Start(f, Operation("create", "max", name, None, 0, None, 0))
  /\ tomb' = tomb \ {name} /\ gone' = gone \ {name}
  /\ UNCHANGED <<database, page>>

(* The clone that will be shown is made now; the request will be made from *)
(* the source, when it is sent.                                            *)
CopyFromDialog(f, i, name) ==
  /\ name \notin Names
  /\ Start(f, Operation("copy", "max", name, boards[i], 0, None, heap[boards[i]].rules))
  /\ tomb' = tomb \ {name} /\ gone' = gone \ {name}
  /\ UNCHANGED <<database, page>>

PerformRemove(f, i) ==
  LET name == heap[boards[i]].name
  IN  /\ Start(f, Operation("remove", IF IdAt(i) = None THEN "undeploy" ELSE "delete",
                            name, boards[i], i, IdAt(i), None))
      /\ tomb' = tomb \cup {name}
      /\ UNCHANGED <<database, page, gone>>

-----------------------------------------------------------------------------
(* saveBoard, a step per request and per answer.                           *)

(* What boardToH makes of the board when it runs.                          *)
Body(s) ==
  [id    |-> IF s.id = None THEN s.top["board"] + 1 ELSE s.id,
   mode  |-> s.top["mode"] + 1,
   name  |-> s.name,
   rules |-> IF s.obj = None THEN s.rules ELSE heap[s.obj].rules]

(* After the maxima, or after the old board was deleted.                   *)
Sending(s) == [s EXCEPT !.pc = "post", !.got = Body(s)]

(* maxIds reads the tables with one request each.                          *)
MaxIds(f, t) ==
  LET read == [flows[f] EXCEPT !.top[t] = Highest(t)]
  IN  /\ flows[f].pc = "max" /\ flows[f].top[t] = None
      /\ Continue(f, IF \E u \in Table : read.top[u] = None THEN read
                     ELSE IF read.id # None THEN [read EXCEPT !.pc = "delete"]
                     ELSE Sending(read))
      /\ UNCHANGED <<database, page, tomb, history, count>>

(* The object is no longer known to be stored.                             *)
Untold(f) == heap' = [heap EXCEPT ![flows[f].obj].told = None]

(* The old board of a save, or the board to remove.                        *)
DeleteOld(f) ==
  /\ flows[f].pc = "delete"
  /\ RemoveRow(flows[f].id)
  /\ Untold(f)
  /\ Continue(f, IF flows[f].kind = "remove" THEN [flows[f] EXCEPT !.pc = "undeploy"]
                 ELSE Sending(flows[f]))
  /\ UNCHANGED <<modes, boards, boardIds, tomb, history, count>>

(* Seeding: the next missing board, or the list once more.                 *)
Seed(s) ==
  IF s.todo = {} THEN [Loading EXCEPT !.pc = "refetch"]
  ELSE LET n == CHOOSE n \in s.todo : TRUE
       IN  [Loading EXCEPT !.pc = "max", !.name = n, !.rules = 0, !.todo = s.todo \ {n}]

After(s) == IF s.kind = "load" THEN Seed(s) ELSE Idle

Post(f) ==
  LET b == flows[f].got
  IN  /\ flows[f].pc = "post"
      /\ \E worked \in BOOLEAN :
           /\ Create(b.id, b.name, b.mode, b.rules, worked)
           /\ Continue(f, IF worked THEN [flows[f] EXCEPT !.pc = "saved"] ELSE After(flows[f]))
      /\ crossed' = (crossed \/ (flows[f].id = None /\ b.id \in Range(boardIds)))
      /\ UNCHANGED <<page, tomb, gone, count>>

(* n[devIdx] = id, wherever the board is by now; the holes are undefined.  *)
\* Mutant: the id that a save returns is forgotten.
PutIdMutant(ids, i, id) == ids

PutId(ids, i, id) ==
  [k \in 1 .. Max({Len(ids), i}) |->
     IF k = i THEN id ELSE IF k \in DOMAIN ids THEN ids[k] ELSE None]

SaveAnswered(f) ==
  LET s == flows[f]
      shown == [name |-> s.name, rules |-> s.rules, told |-> s.got.rules]
  IN  /\ s.pc = "saved"
      /\ CASE s.kind = "save" ->
                /\ heap' = [heap EXCEPT ![s.obj].told = s.got.rules]
                /\ boardIds' = PutId(boardIds, s.at, s.got.id)
                /\ UNCHANGED boards
           [] s.kind \in {"create", "copy"} ->
                /\ heap' = Append(heap, shown)
                /\ boards' = Append(boards, Len(heap) + 1)
                /\ boardIds' = Append(boardIds, s.got.id)
           [] s.kind = "load" -> UNCHANGED page
      /\ Continue(f, After(s))
      /\ UNCHANGED <<database, tomb, history, count>>

-----------------------------------------------------------------------------
(* performRemove, after the row was deleted.  The handler is stopped, or   *)
(* not; then the arrays lose what is now at the position.                  *)
RemoveShown(f) ==
  LET s == flows[f]
  IN  /\ s.pc = "undeploy"
      /\ UNCHANGED heap
      /\ boards' = IF s.at \in DOMAIN boards THEN RemoveAt(boards, s.at) ELSE boards
      /\ boardIds' = IF s.at \in DOMAIN boardIds THEN RemoveAt(boardIds, s.at) ELSE boardIds
      /\ gone' = IF crossed \/ s.name \in Stored \cup Names' THEN gone
                 ELSE gone \cup {s.name}
      /\ Continue(f, Idle)
      /\ UNCHANGED <<database, tomb, crossed, count>>

-----------------------------------------------------------------------------
(* The load of the page.                                                   *)

ShowBoards(list) ==
  /\ heap' = heap \o [k \in DOMAIN list |->
                [name |-> list[k].name, rules |-> list[k].rules, told |-> list[k].rules]]
  /\ boards' = [k \in DOMAIN list |-> Len(heap) + k]
  /\ boardIds' = [k \in DOMAIN list |-> list[k].id]

(* The bundled boards as a list, without ids.                              *)
Offline ==
  LET names == SetToSeq(Bundled \ tomb)
  IN  /\ heap' = heap \o [k \in DOMAIN names |-> [name |-> names[k], rules |-> 0, told |-> None]]
      /\ boards' = [k \in DOMAIN names |-> Len(heap) + k]
      /\ boardIds' = [k \in DOMAIN names |-> None]

\* Mutant: the tombstones are not looked at.
MissingMutant == Bundled \ Stored

Missing == (Bundled \ Stored) \ tomb

Fetch ==
  /\ flows[1].pc = "fetch"
  /\ Continue(1, IF Missing # {} THEN Seed([flows[1] EXCEPT !.todo = Missing])
                 ELSE [flows[1] EXCEPT !.pc = "show", !.got = ListBoards])
  /\ UNCHANGED <<database, page, tomb, history, count>>

Refetch ==
  /\ flows[1].pc = "refetch"
  /\ Continue(1, [flows[1] EXCEPT !.pc = "show", !.got = ListBoards])
  /\ UNCHANGED <<database, page, tomb, history, count>>

Show ==
  /\ flows[1].pc = "show"
  /\ IF flows[1].got = <<>> THEN Offline ELSE ShowBoards(flows[1].got)
  /\ Continue(1, Idle)
  /\ UNCHANGED <<database, tomb, history, count>>

Reload ==
  /\ count.reloads < MaxReloads /\ count' = [count EXCEPT !.reloads = @ + 1]
  /\ heap' = <<>> /\ boards' = <<>> /\ boardIds' = <<>>
  /\ flows' = [f \in Flow |-> IF f = 1 THEN Loading ELSE Idle]
  /\ crossed' = FALSE
  /\ UNCHANGED <<database, tomb, gone>>

-----------------------------------------------------------------------------
(* A request is lost, or its answer.                                       *)

Fault == count.faults < MaxFaults /\ count' = [count EXCEPT !.faults = @ + 1]

(* The load falls back to the bundled boards, without ids.                 *)
LoadFails ==
  /\ flows[1].pc \in {"fetch", "refetch"}
  /\ Fault
  /\ Offline /\ Continue(1, Idle)
  /\ UNCHANGED <<database, tomb, history>>

(* maxIds throws before anything is changed.                               *)
MaxIdsFails(f) ==
  /\ flows[f].pc = "max"
  /\ Fault
  /\ Continue(f, After(flows[f]))
  /\ UNCHANGED <<database, page, tomb, history>>

(* saveBoard ignores that its DELETE failed; performRemove stops.          *)
DeleteFails(f) ==
  /\ flows[f].pc = "delete"
  /\ Fault
  /\ \/ UNCHANGED rows
     \/ flows[f].kind = "remove" /\ RemoveRow(flows[f].id)
  /\ Untold(f)
  /\ Continue(f, IF flows[f].kind = "remove" THEN Idle ELSE Sending(flows[f]))
  /\ UNCHANGED <<modes, boards, boardIds, tomb, history>>

PostLost(f) ==
  /\ flows[f].pc = "post"
  /\ Fault
  /\ Continue(f, After(flows[f]))
  /\ UNCHANGED <<database, page, tomb, history>>

AnswerLost(f) ==
  /\ flows[f].pc = "saved"
  /\ Fault
  /\ Continue(f, After(flows[f]))
  /\ UNCHANGED <<database, page, tomb, history>>

-----------------------------------------------------------------------------
User ==
  \/ \E i \in DOMAIN boards : Edit(i)
  \/ \E f \in Flow, i \in DOMAIN boards : PersistDevice(f, i) \/ PerformRemove(f, i)
  \/ \E f \in Flow, n \in Name : CreateFromDialog(f, n)
  \/ \E f \in Flow, n \in Name, i \in DOMAIN boards : CopyFromDialog(f, i, n)
  \/ Reload

Answers ==
  \/ \E f \in Flow, t \in Table : MaxIds(f, t)
  \/ \E f \in Flow : DeleteOld(f) \/ Post(f) \/ SaveAnswered(f) \/ RemoveShown(f)
  \/ Fetch \/ Refetch \/ Show

Faults ==
  \/ LoadFails
  \/ \E f \in Flow : MaxIdsFails(f) \/ DeleteFails(f) \/ PostLost(f) \/ AnswerLost(f)

Next == User \/ Answers \/ Faults

Spec == Init /\ [][Next]_vars

-----------------------------------------------------------------------------
(* The types.  A row links a mode that exists; the ids are positive.       *)
TypeOK ==
  /\ DOMAIN rows \subseteq Nat \ {0}
  /\ \A id \in DOMAIN rows : rows[id].name \in Name /\ rows[id].mode \in 0 .. Len(modes)
  /\ modes \in Seq([name : Name, rules : Nat])
  /\ heap \in Seq([name : Name, rules : Nat \cup {None}, told : Nat \cup {None}])
  /\ boards \in Seq(DOMAIN heap)
  /\ boardIds \in Seq((Nat \ {0}) \cup {None})
  /\ tomb \subseteq Name /\ gone \subseteq Name

(* However operations overlap and whatever is lost, a board never shows    *)
(* the rules of another one: the modes it links were written with it, and  *)
(* no two boards link one mode (mode_dao::create refuses a known id).      *)
Linked ==
  \A i, j \in DOMAIN rows : rows[i].mode # 0 =>
    /\ modes[rows[i].mode].name = rows[i].name
    /\ rows[j].mode = rows[i].mode => i = j

(* What the page said is saved is in the database, under the id the page   *)
(* holds, with the rules that were sent: through edits, failed saves and   *)
(* their repetition, copies, removals and reloads.  Unless, since the page *)
(* was loaded, operations have overlapped or an id was given twice.        *)
SavedIsStored ==
  crossed \/ \A i \in DOMAIN boards :
    LET b == heap[boards[i]]
    IN  b.told # None =>
          /\ IdAt(i) \in DOMAIN rows
          /\ rows[IdAt(i)].name = b.name
          /\ RulesOf(IdAt(i)) = b.told

(* A board the user removed, when nothing overlapped and no second board   *)
(* had its name, never comes back, by a reload, the seeding or the offline *)
(* list, until the user adds it again (the tombstones of App.tsx).         *)
StaysDeleted == gone \cap (Names \cup Stored) = {}
=============================================================================
