---------------------------- MODULE OutputStream ----------------------------
(***************************************************************************)
(* What a device handler promises about the outputs of its rules.          *)
(*                                                                         *)
(* Every matched rule submits one batch of outputs.  Batches are executed  *)
(* one at a time, in the order they were submitted, each at most once and  *)
(* never cut short; the only batches that are not executed are those a     *)
(* reload flushes while they wait and those left waiting when the executor *)
(* halts or the process crashes.  DeviceEngine implements this with three  *)
(* threads and one mutex.                                                  *)
(***************************************************************************)
EXTENDS Naturals, Sequences

CONSTANTS
  Shapes,     \* the output sequences a rule can resolve to
  MaxBatches  \* bound on the batches submitted

VARIABLES
  submitted,  \* number of batches submitted; batch n is the n-th one
  pending,    \* sequence of batches [id, outs] waiting
  current,    \* the batch being executed: what is left of it
  phase       \* "running", "halted" (orderly) or "crashed"

absvars == <<submitted, pending, current, phase>>

NoBatch == [id |-> 0, outs |-> <<>>]

AbsInit ==
  /\ submitted = 0
  /\ pending = <<>>
  /\ current = NoBatch
  /\ phase = "running"

\* A rule may still match after the executor has halted: its batch stays.
Submit(outs) ==
  /\ submitted < MaxBatches
  /\ phase # "crashed"
  /\ submitted' = submitted + 1
  /\ pending' = Append(pending, [id |-> submitted + 1, outs |-> outs])
  /\ UNCHANGED <<current, phase>>

\* A reload throws away what waits; the batch being executed goes on.
Flush ==
  /\ phase # "crashed"
  /\ pending' = <<>>
  /\ UNCHANGED <<submitted, current, phase>>

Take ==
  /\ phase = "running"
  /\ current = NoBatch
  /\ pending # <<>>
  /\ current' = Head(pending)
  /\ pending' = Tail(pending)
  /\ UNCHANGED <<submitted, phase>>

\* Execute the next output of the current batch.
Emit ==
  /\ phase = "running"
  /\ current.outs # <<>>
  /\ current' = [current EXCEPT !.outs = Tail(@)]
  /\ UNCHANGED <<submitted, pending, phase>>

Finish ==
  /\ phase = "running"
  /\ current # NoBatch
  /\ current.outs = <<>>
  /\ current' = NoBatch
  /\ UNCHANGED <<submitted, pending, phase>>

\* An orderly stop halts the executor between batches only.
Halt ==
  /\ phase = "running"
  /\ current = NoBatch
  /\ phase' = "halted"
  /\ UNCHANGED <<submitted, pending, current>>

Crash ==
  /\ phase' = "crashed"
  /\ UNCHANGED <<submitted, pending, current>>

AbsNext ==
  \/ \E outs \in Shapes : Submit(outs)
  \/ Flush
  \/ Take
  \/ Emit
  \/ Finish
  \/ Halt
  \/ Crash

Progress == Take \/ Emit \/ Finish

AbsSafe == AbsInit /\ [][AbsNext]_absvars
AbsSpec == AbsSafe /\ WF_absvars(Progress)
=============================================================================
