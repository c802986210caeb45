-------------------------- MODULE CommandLegProofs --------------------------
(***************************************************************************)
(* Proofs about CommandLeg, for every number of handlers, starts, posts,   *)
(* crashes and sockets: type correctness, that a uuid names one handler    *)
(* process, that answers match their questions, and that the leg           *)
(* implements Mailbox.                                                     *)
(***************************************************************************)
EXTENDS CommandLeg, FiniteSetTheorems, TLAPS

\* Every uuid generated answers a registration that a start has sent.
Counted == IsFiniteSet(unWire) /\ Cardinality(unWire) + issued <= starts

\* th_heart_beat has an answer only while it sends it, and takes commands for
\* registered senders only.
Prepared ==
  /\ hbpc # "send" => hbResp = Empty
  /\ hbpc = "take" => hbReq.uuid \in Uuids
  /\ unReq = NoReq <=> unUuid = 0

\* A command in an answer was posted, for the uuid in it; the answer to a
\* registration has none.
Answer(r)  == r.cmd <= posted /\ (r.cmd > 0 => r.uuid \in Uuids)
Commanded ==
  /\ Answer(hbResp)
  /\ \A d \in Devs : Answer(inbox[d])
  /\ \A d \in Devs : hpc[d] = "unwait" => inbox[d].cmd <= 0

\* The heartbeats that have not been answered.
Beats == hbWire \cup ({hbReq} \ {NoReq})
Regs  == unWire \cup ({unReq} \ {NoReq})

\* No uuid is used before it is generated.
Issued ==
  /\ unUuid <= issued
  /\ \A d \in Devs : uuid[d] <= issued /\ inbox[d].uuid <= issued
  /\ \A r \in Beats : r.uuid <= issued

\* A uuid on its way to its handler is nobody's yet: neither the one being
\* generated nor the one in an answer that was not read.
NewIds ==
  /\ unUuid # 0 => \A r \in Beats : r.uuid # unUuid
  /\ \A d \in Devs : hpc[d] = "unwait" /\ inbox[d] # NoReply =>
       /\ inbox[d].uuid # unUuid
       /\ \A r \in Beats : r.uuid # inbox[d].uuid
       /\ \A e \in Devs : hpc[e] = "unwait" /\ inbox[e].uuid = inbox[d].uuid => e = d

\* A socket carries one request at a time: the one its handler waits for.
OwnSocket ==
  /\ \A r \in Beats : r.sock = sock[r.dev] =>
       hpc[r.dev] = "wait" /\ r.uuid = uuid[r.dev] /\ inbox[r.dev] = NoReply
  /\ \A r \in Regs : r.sock = sock[r.dev] => hpc[r.dev] = "unwait" /\ inbox[r.dev] = NoReply
  /\ \A r \in hbWire : hbReq # NoReq /\ hbReq.sock = sock[hbReq.dev] =>
       ~(r.dev = hbReq.dev /\ r.sock = hbReq.sock)
  /\ unReq # NoReq /\ unReq.sock = sock[unReq.dev] => unReq \notin unWire

\* Commands of one uuid move on in the order they were posted: from the slot to
\* the answer, to the socket, to coms_handler.
InTurn ==
  /\ \A u \in Uuids : commands[u] # NoCmd =>
       /\ \A i \in DOMAIN handled : handled[i].to = u => handled[i].id < commands[u]
       /\ hbResp.uuid = u => hbResp.cmd < commands[u]
       /\ \A d \in Devs : inbox[d].uuid = u => inbox[d].cmd < commands[u]
  /\ hbResp.cmd > 0 =>
       /\ \A i \in DOMAIN handled : handled[i].to = hbResp.uuid => handled[i].id < hbResp.cmd
       /\ \A d \in Devs : inbox[d].uuid = hbResp.uuid => inbox[d].cmd < hbResp.cmd
  /\ \A d \in Devs : inbox[d].cmd > 0 =>
       \A i \in DOMAIN handled : handled[i].to = inbox[d].uuid => handled[i].id < inbox[d].cmd

IInv ==
  /\ TypeOK /\ Counted /\ Prepared /\ Commanded
  /\ OneOwner /\ AnswersMatch /\ Issued /\ NewIds
  /\ OwnSocket /\ InTurn

-----------------------------------------------------------------------------
\* The actions of Next, one by one.
LEMMA Steps ==
  ASSUME [Next]_vars
  PROVE  \/ UNCHANGED vars
         \/ \E d \in Devs : \/ Register(d) \/ Registered(d) \/ Unregistered(d) \/ Beat(d)
                            \/ Receive(d) \/ Timeout(d) \/ Reconnect(d) \/ Exit(d)
                            \/ UnRecv(d) \/ HbRecv(d)
         \/ \E u \in Uuids : PostCommand(u) \/ GrowStale(u)
         \/ UnSend \/ HbTake \/ HbSend \/ DispatcherCrash \/ DispatcherRestart
  BY DEF Next, Handler, Dispatcher, Idle

\* A request in the wires, or being served, has its fields; NoReq has none.
LEMMA Fields ==
  ASSUME TypeOK
  PROVE  /\ Beats \subseteq HbReq /\ Regs \subseteq UnReq
         /\ \A r \in Beats : r.dev \in Devs /\ r.sock \in Socks /\ r.uuid \in Nat
         /\ \A r \in Regs : r.dev \in Devs /\ r.sock \in Socks
         /\ hbReq # NoReq => hbReq \in Beats
         /\ unReq # NoReq => unReq \in Regs
         /\ \A d \in Devs : /\ uuid[d] \in Nat /\ sock[d] \in Socks
                            /\ inbox[d].uuid \in Nat /\ inbox[d].cmd \in Int
         /\ hbResp.uuid \in Nat /\ hbResp.cmd \in Nat
         /\ issued \in Nat /\ posted \in Nat /\ starts \in Nat /\ unUuid \in Nat
  <1> USE CommandLegAssumption DEF TypeOK
  <1>1. Beats \subseteq HbReq /\ Regs \subseteq UnReq
    BY DEF Beats, Regs
  <1>2. /\ \A r \in Beats : r.dev \in Devs /\ r.sock \in Socks /\ r.uuid \in Nat
        /\ \A r \in Regs : r.dev \in Devs /\ r.sock \in Socks
    BY <1>1 DEF HbReq, UnReq, Uuids
  <1>3. (hbReq # NoReq => hbReq \in Beats) /\ (unReq # NoReq => unReq \in Regs)
    BY DEF Beats, Regs
  <1>4. \A d \in Devs : inbox[d] \in Reply \cup {NoReply}
    OBVIOUS
  <1>5. \A d \in Devs : inbox[d].uuid \in Nat /\ inbox[d].cmd \in Int
    BY <1>4 DEF Reply, NoReply, Uuids
  <1>6. hbResp.uuid \in Nat /\ hbResp.cmd \in Nat
    BY DEF Reply, Uuids
  <1>7. \A d \in Devs : uuid[d] \in Nat /\ sock[d] \in Socks
    BY DEF Uuids
  <1>8. issued \in Nat /\ posted \in Nat /\ starts \in Nat /\ unUuid \in Nat
    BY DEF Uuids
  <1> QED
    BY <1>1, <1>2, <1>3, <1>5, <1>6, <1>7, <1>8

\* A sequence over a set is one over a larger set.
LEMMA SeqMonotone ==
  ASSUME NEW S, NEW T, S \subseteq T, NEW s \in Seq(S)
  PROVE  s \in Seq(T)
  OBVIOUS

\* NoReq is no request, NoReply no answer.
LEMMA NoFacts == NoReq \notin HbReq /\ NoReq \notin UnReq /\ NoReply \notin Reply /\ Empty \in Reply
  BY CommandLegAssumption DEF NoReq, HbReq, UnReq, NoReply, Reply, Empty, NoCmd

-----------------------------------------------------------------------------
\* The type invariant, part by part.
TypeDispatcher ==
  /\ up \in BOOLEAN
  /\ devices \subseteq Uuids /\ fresh \subseteq devices
  /\ commands \in [Uuids -> 0 .. posted]
  /\ crashes \in 0 .. MaxCrashes
  /\ posted \in 0 .. MaxPosts
  /\ handled \in Seq([to : Uuids, id : 1 .. posted])

TypeServed ==
  /\ hbpc \in {"recv", "take", "send"}
  /\ hbReq \in HbReq \cup {NoReq} /\ (hbReq = NoReq <=> hbpc = "recv")
  /\ hbResp \in Reply /\ hbResp.uuid \in {0, IF hbpc = "send" THEN hbReq.uuid ELSE 0}
  /\ unReq \in UnReq \cup {NoReq} /\ unUuid \in Uuids \cup {0}
  /\ issued \in 0 .. MaxStarts /\ starts \in 0 .. MaxStarts

TypeHandlers ==
  /\ hpc \in [Devs -> {"down", "unwait", "ready", "wait", "closed"}]
  /\ uuid \in [Devs -> Uuids \cup {0}]
  /\ sock \in [Devs -> Socks]
  /\ inbox \in [Devs -> Reply \cup {NoReply}]
  /\ unWire \subseteq UnReq /\ hbWire \subseteq HbReq

\* The three parts make up the type invariant.
LEMMA TypeSplit == TypeOK <=> TypeDispatcher /\ TypeServed /\ TypeHandlers
  BY DEF TypeOK, TypeDispatcher, TypeServed, TypeHandlers

\* The parts of the inductive invariant hold at the start.
LEMMA InvInit == Init => IInv
  <1> SUFFICES ASSUME Init PROVE IInv
    OBVIOUS
  <1> USE CommandLegAssumption DEF Init
  <1>1. TypeOK
    <2>1. hbResp \in Reply /\ hbResp.uuid = 0
      BY NoFacts DEF Empty
    <2>2. TypeDispatcher
      BY DEF TypeDispatcher, NoCmd
    <2>3. TypeServed
      BY <2>1 DEF TypeServed
    <2>4. TypeHandlers
      BY DEF TypeHandlers
    <2> QED
      BY <2>2, <2>3, <2>4, TypeSplit
  <1>2. Beats = {} /\ Regs = {}
    BY DEF Beats, Regs
  <1>3. Counted
    BY FS_EmptySet DEF Counted
  <1>4. Prepared
    BY DEF Prepared
  <1>5. Commanded
    BY DEF Commanded, Answer, Empty, NoReply, NoCmd
  <1>6. Issued
    BY <1>2 DEF Issued, NoReply
  <1>7. OneOwner /\ AnswersMatch
    BY DEF OneOwner, AnswersMatch
  <1>8. NewIds /\ OwnSocket
    BY <1>2 DEF NewIds, OwnSocket
  <1>9. InTurn
    BY DEF InTurn, Empty, NoReply, NoCmd
  <1> QED
    BY <1>1, <1>3, <1>4, <1>5, <1>6, <1>7, <1>8, <1>9 DEF IInv

-----------------------------------------------------------------------------
\* The registrations under way and the uuids given out are no more than the
\* starts of handlers.
LEMMA CountedStep == TypeOK /\ Counted /\ [Next]_vars => Counted'
  <1> SUFFICES ASSUME TypeOK, Counted, [Next]_vars PROVE Counted'
    OBVIOUS
  <1>1. Cardinality(unWire) \in Nat /\ issued \in Nat /\ starts \in Nat
    BY FS_CardinalityType, Fields DEF Counted
  <1>2. ASSUME unWire' \in SUBSET unWire, issued' = issued, starts' = starts PROVE Counted'
    <2>1. IsFiniteSet(unWire') /\ Cardinality(unWire') <= Cardinality(unWire)
      BY <1>2, FS_Subset DEF Counted
    <2>2. Cardinality(unWire') \in Nat
      BY <2>1, FS_CardinalityType
    <2> QED
      BY <1>1, <1>2, <2>1, <2>2 DEF Counted
  <1>3. ASSUME NEW d \in Devs, Register(d) PROVE Counted'
    <2>1. /\ unWire' = unWire \cup {[dev |-> d, sock |-> sock[d]]}
          /\ starts' = starts + 1 /\ issued' = issued
      BY <1>3 DEF Register, unt
    <2>2. IsFiniteSet(unWire') /\ Cardinality(unWire') <= Cardinality(unWire) + 1
      <3> DEFINE r == [dev |-> d, sock |-> sock[d]]
      <3>1. unWire' = unWire \cup {r} /\ IsFiniteSet(unWire)
        BY <2>1 DEF Counted
      <3> HIDE DEF r
      <3>2. /\ IsFiniteSet(unWire \cup {r})
            /\ Cardinality(unWire \cup {r}) =
                 IF r \in unWire THEN Cardinality(unWire) ELSE Cardinality(unWire) + 1
        BY <3>1, FS_AddElement
      <3> QED
        BY <1>1, <3>1, <3>2
    <2>3. Cardinality(unWire') \in Nat
      BY <2>2, FS_CardinalityType
    <2> QED
      BY <1>1, <2>1, <2>2, <2>3 DEF Counted
  <1>4. ASSUME NEW d \in Devs, UnRecv(d) PROVE Counted'
    <2>1. PICK r \in unWire : unWire' = unWire \ {r}
      BY <1>4 DEF UnRecv
    <2>2. issued' = issued + 1 /\ starts' = starts
      BY <1>4 DEF UnRecv, bounds
    <2>3. IsFiniteSet(unWire') /\ Cardinality(unWire') = Cardinality(unWire) - 1
      BY <2>1, FS_RemoveElement DEF Counted
    <2> QED
      BY <1>1, <2>2, <2>3 DEF Counted
  <1>5. ASSUME NEW d \in Devs, \/ Registered(d) \/ Unregistered(d) \/ Beat(d) \/ Receive(d)
                               \/ Timeout(d) \/ Reconnect(d) \/ Exit(d) \/ HbRecv(d)
        PROVE  Counted'
    BY <1>2, <1>5 DEF Registered, Unregistered, Beat, Receive, Timeout, Reconnect, Exit,
                      HbRecv, unt, wires, bounds
  <1>6. CASE \/ UNCHANGED vars \/ UnSend \/ HbTake \/ HbSend \/ DispatcherCrash
             \/ DispatcherRestart \/ \E u \in Uuids : PostCommand(u) \/ GrowStale(u)
    BY <1>2, <1>6 DEF vars, UnSend, HbTake, HbSend, DispatcherCrash, DispatcherRestart,
                      PostCommand, GrowStale, unt, wires, bounds
  <1> QED
    BY <1>3, <1>4, <1>5, <1>6, Steps

\* The dispatcher's tables, and what the handlers were given.
LEMMA TypeDispatcherStep ==
  TypeOK /\ Prepared /\ Commanded /\ [Next]_vars => TypeDispatcher'
  <1> SUFFICES ASSUME TypeOK, Prepared, Commanded, [Next]_vars PROVE TypeDispatcher'
    OBVIOUS
  <1>1. TypeDispatcher /\ TypeServed /\ TypeHandlers
    BY TypeSplit
  <1>2. ASSUME UNCHANGED <<up, disp, crashes, posted, handled>> PROVE TypeDispatcher'
    BY <1>1, <1>2 DEF disp, TypeDispatcher
  <1>3. ASSUME NEW d \in Devs, \/ Register(d) \/ Registered(d) \/ Unregistered(d) \/ Beat(d)
                               \/ Timeout(d) \/ Reconnect(d) \/ Exit(d) \/ UnRecv(d)
        PROVE  TypeDispatcher'
    BY <1>2, <1>3 DEF Register, Registered, Unregistered, Beat, Timeout, Reconnect, Exit,
                      UnRecv, bounds
  <1>4. ASSUME NEW d \in Devs, Receive(d) PROVE TypeDispatcher'
    <2> DEFINE m == [to |-> uuid[d], id |-> inbox[d].cmd]
    <2>1. CASE handled' = handled
      BY <1>2, <1>4, <2>1 DEF Receive, bounds
    <2>2. CASE handled' # handled
      <3>1. inbox[d] \in Reply /\ inbox[d].uuid = uuid[d] /\ inbox[d].cmd # NoCmd
            /\ handled' = Append(handled, m)
        BY <1>1, <1>4, <2>2 DEF Receive, Addressed, TypeHandlers
      <3>2. m \in [to : Uuids, id : 1 .. posted]
        BY <1>1, <3>1, CommandLegAssumption
        DEF Commanded, Answer, Reply, NoCmd, TypeDispatcher
      <3>3. handled' \in Seq([to : Uuids, id : 1 .. posted])
        BY <1>1, <3>1, <3>2 DEF TypeDispatcher
      <3> QED
        BY <1>1, <1>4, <3>3 DEF Receive, TypeDispatcher, disp, bounds
    <2> QED
      BY <2>1, <2>2
  <1>5. ASSUME NEW d \in Devs, HbRecv(d) PROVE TypeDispatcher'
    <2>1. PICK r \in hbWire, known \in BOOLEAN :
            known \in Count(r.uuid) /\ fresh' = IF known THEN Pinged(r.uuid) ELSE fresh
      BY <1>5 DEF HbRecv
    <2>2. fresh' \subseteq devices
      BY <1>1, <2>1 DEF Count, Pinged, TypeDispatcher
    <2> QED
      BY <1>1, <1>5, <2>2 DEF HbRecv, TypeDispatcher, bounds
  <1>6. CASE UnSend
    <2>1. unUuid \in Uuids
      BY <1>1, <1>6 DEF UnSend, Prepared, TypeServed
    <2> QED
      BY <1>1, <1>6, <2>1 DEF UnSend, TypeDispatcher, bounds
  <1>7. CASE HbTake
    <2>1. commands' = Taken(hbReq.uuid) /\ UNCHANGED <<up, devices, fresh, crashes, posted, handled>>
      BY <1>7 DEF HbTake, bounds
    <2>2. commands' \in [Uuids -> 0 .. posted]
      <3>1. 0 \in 0 .. posted /\ hbReq.uuid \in Uuids /\ commands \in [Uuids -> 0 .. posted]
        BY <1>1, <1>7, CommandLegAssumption DEF HbTake, Prepared, TypeDispatcher
      <3> QED
        BY <2>1, <3>1 DEF Taken, NoCmd
    <2> QED
      BY <1>1, <2>1, <2>2 DEF TypeDispatcher
  <1>8. CASE HbSend
    BY <1>2, <1>8 DEF HbSend, bounds
  <1>9. ASSUME NEW u \in Uuids, PostCommand(u) PROVE TypeDispatcher'
    <2>1. /\ posted' = posted + 1 /\ posted' \in 0 .. MaxPosts
          /\ commands' \in {Stored(u, posted + 1), commands}
          /\ UNCHANGED <<up, devices, fresh, crashes, handled>>
      BY <1>1, <1>9, CommandLegAssumption DEF PostCommand, TypeDispatcher, bounds
    <2>2. commands' \in [Uuids -> 0 .. posted']
      BY <1>1, <2>1 DEF Stored, TypeDispatcher
    <2>3. [to : Uuids, id : 1 .. posted] \subseteq [to : Uuids, id : 1 .. posted']
      BY <1>1, <2>1 DEF TypeDispatcher
    <2>4. handled' \in Seq([to : Uuids, id : 1 .. posted'])
      <3> DEFINE S == [to : Uuids, id : 1 .. posted]
                 T == [to : Uuids, id : 1 .. posted']
      <3>1. handled \in Seq(S) /\ S \subseteq T /\ handled' = handled
        BY <1>1, <2>1, <2>3 DEF TypeDispatcher
      <3> HIDE DEF S, T
      <3>2. handled' \in Seq(T)
        BY <3>1, SeqMonotone
      <3> QED
        BY <3>2 DEF T
    <2> QED
      BY <1>1, <2>1, <2>2, <2>4 DEF TypeDispatcher
  <1>10. ASSUME NEW u \in Uuids, GrowStale(u) PROVE TypeDispatcher'
    BY <1>1, <1>10 DEF GrowStale, TypeDispatcher, bounds
  <1>11. CASE DispatcherCrash
    <2>1. /\ commands' = [u \in Uuids |-> 0] /\ up' = FALSE /\ devices' = {} /\ fresh' = {}
          /\ crashes < MaxCrashes /\ crashes' = crashes + 1 /\ posted' = posted
          /\ handled' = handled
      BY <1>11 DEF DispatcherCrash, NoCmd
    <2>2. commands' \in [Uuids -> 0 .. posted]
      BY <1>1, <2>1, CommandLegAssumption DEF TypeDispatcher
    <2>3. crashes' \in 0 .. MaxCrashes
      BY <1>1, <2>1, CommandLegAssumption DEF TypeDispatcher
    <2> QED
      BY <1>1, <2>1, <2>2, <2>3 DEF TypeDispatcher
  <1>12. CASE DispatcherRestart
    BY <1>1, <1>12 DEF DispatcherRestart, TypeDispatcher, disp, bounds
  <1>13. CASE UNCHANGED vars
    BY <1>2, <1>13 DEF vars, bounds
  <1> QED
    BY <1>3, <1>4, <1>5, <1>6, <1>7, <1>8, <1>9, <1>10, <1>11, <1>12, <1>13, Steps

\* The requests and answers the dispatcher has in hand.
LEMMA TypeServedStep ==
  TypeOK /\ Counted /\ Prepared /\ [Next]_vars => TypeServed'
  <1> SUFFICES ASSUME TypeOK, Counted, Prepared, [Next]_vars PROVE TypeServed'
    OBVIOUS
  <1>1. TypeDispatcher /\ TypeServed /\ TypeHandlers
    BY TypeSplit
  <1>2. ASSUME UNCHANGED <<hbt, unt, starts>> PROVE TypeServed'
    BY <1>1, <1>2 DEF hbt, unt, TypeServed
  <1>3. ASSUME NEW d \in Devs, \/ Registered(d) \/ Unregistered(d) \/ Beat(d) \/ Receive(d)
                               \/ Timeout(d) \/ Reconnect(d) \/ Exit(d)
        PROVE  TypeServed'
    BY <1>2, <1>3 DEF Registered, Unregistered, Beat, Receive, Timeout, Reconnect, Exit, bounds
  <1>4. ASSUME NEW d \in Devs, Register(d) PROVE TypeServed'
    BY <1>1, <1>4, CommandLegAssumption DEF Register, TypeServed, hbt, unt
  <1>5. ASSUME NEW d \in Devs, UnRecv(d) PROVE TypeServed'
    <2>1. PICK r \in unWire : unReq' = r
      BY <1>5 DEF UnRecv
    <2>2. issued + 1 \in Uuids /\ issued' = issued + 1 /\ unUuid' = issued + 1
      <3>2. IsFiniteSet(unWire) /\ unWire # {} /\ Cardinality(unWire) + issued <= starts
        BY <2>1 DEF Counted
      <3>3. Cardinality(unWire) \in Nat \ {0}
        BY <3>2, FS_CardinalityType, FS_EmptySet
      <3> QED
        BY <1>1, <1>5, <3>2, <3>3, CommandLegAssumption DEF UnRecv, NewUuid, Uuids, TypeServed
    <2> QED
      BY <1>1, <1>5, <2>1, <2>2, CommandLegAssumption
      DEF UnRecv, TypeServed, TypeHandlers, Uuids, hbt, bounds
  <1>6. ASSUME NEW d \in Devs, HbRecv(d) PROVE TypeServed'
    <2>1. PICK r \in hbWire, known \in BOOLEAN :
            /\ hbReq' = r /\ hbpc' = IF known THEN "take" ELSE "send"
            /\ hbResp' = hbResp /\ UNCHANGED <<unt, starts>> /\ hbpc = "recv"
      BY <1>6 DEF HbRecv, bounds
    <2>2. hbReq' \in HbReq /\ hbReq' # NoReq /\ hbResp'.uuid = 0
      BY <1>1, <2>1, NoFacts DEF TypeHandlers, Prepared, Empty
    <2> QED
      BY <1>1, <2>1, <2>2 DEF TypeServed, unt
  <1>7. CASE UnSend
    BY <1>1, <1>7 DEF UnSend, TypeServed, hbt, bounds
  <1>8. CASE HbTake
    <2>1. /\ hbpc = "take" /\ hbpc' = "send" /\ hbReq' = hbReq /\ UNCHANGED <<unt, starts>>
          /\ hbResp' = [uuid |-> hbReq.uuid, cmd |-> commands[hbReq.uuid]]
      BY <1>8 DEF HbTake, bounds
    <2>2. hbReq.uuid \in Uuids /\ commands[hbReq.uuid] \in 0 .. MaxPosts
      BY <1>1, <2>1, CommandLegAssumption DEF Prepared, TypeDispatcher
    <2>3. hbResp' \in Reply /\ hbResp'.uuid = hbReq'.uuid
      BY <2>1, <2>2 DEF Reply
    <2> QED
      BY <1>1, <2>1, <2>3 DEF TypeServed, unt
  <1>9. CASE HbSend
    <2>1. Empty.uuid = 0
      BY DEF Empty
    <2> QED
      BY <1>1, <1>9, <2>1, NoFacts DEF HbSend, TypeServed, unt, bounds
  <1>10. ASSUME NEW u \in Uuids, PostCommand(u) \/ GrowStale(u) PROVE TypeServed'
    BY <1>2, <1>10 DEF PostCommand, GrowStale, bounds
  <1>11. CASE DispatcherCrash
    <2>1. Empty.uuid = 0
      BY DEF Empty
    <2> QED
      BY <1>1, <1>11, <2>1, NoFacts DEF DispatcherCrash, TypeServed
  <1>12. CASE DispatcherRestart \/ UNCHANGED vars
    BY <1>2, <1>12 DEF DispatcherRestart, vars, bounds
  <1> QED
    BY <1>3, <1>4, <1>5, <1>6, <1>7, <1>8, <1>9, <1>10, <1>11, <1>12, Steps

\* The handlers and the wires.
LEMMA TypeHandlersStep == TypeOK /\ Prepared /\ [Next]_vars => TypeHandlers'
  <1> SUFFICES ASSUME TypeOK, Prepared, [Next]_vars PROVE TypeHandlers'
    OBVIOUS
  <1>1. TypeDispatcher /\ TypeServed /\ TypeHandlers
    BY TypeSplit
  <1>2. ASSUME UNCHANGED <<handlers, wires>> PROVE TypeHandlers'
    BY <1>1, <1>2 DEF handlers, wires, TypeHandlers
  <1>3. \A d \in Devs : Unused(d) \subseteq Socks
    BY DEF Unused
  <1>4. ASSUME NEW d \in Devs, Register(d) PROVE TypeHandlers'
    <2>1. [dev |-> d, sock |-> sock[d]] \in UnReq
      BY <1>1 DEF TypeHandlers, UnReq
    <2> QED
      BY <1>1, <1>4, <2>1 DEF Register, TypeHandlers
  <1>5. ASSUME NEW d \in Devs, Registered(d) PROVE TypeHandlers'
    <2>1. inbox[d].uuid \in Uuids \cup {0}
      BY <1>1, <1>5 DEF Registered, TypeHandlers, Reply
    <2> QED
      BY <1>1, <1>5, <2>1 DEF Registered, TypeHandlers, wires
  <1>6. ASSUME NEW d \in Devs, Unregistered(d) PROVE TypeHandlers'
    BY <1>1, <1>3, <1>6 DEF Unregistered, TypeHandlers, wires
  <1>7. ASSUME NEW d \in Devs, Beat(d) PROVE TypeHandlers'
    <2>1. [dev |-> d, sock |-> sock[d], uuid |-> uuid[d]] \in HbReq
      BY <1>1 DEF TypeHandlers, HbReq
    <2> QED
      BY <1>1, <1>7, <2>1 DEF Beat, TypeHandlers
  <1>8. ASSUME NEW d \in Devs, Receive(d) PROVE TypeHandlers'
    BY <1>1, <1>8 DEF Receive, TypeHandlers, wires
  <1>9. ASSUME NEW d \in Devs, Timeout(d) PROVE TypeHandlers'
    <2>1. hbWire' \subseteq hbWire
      BY <1>9 DEF Timeout
    <2> QED
      BY <1>1, <1>3, <1>9, <2>1 DEF Timeout, TypeHandlers
  <1>10. ASSUME NEW d \in Devs, Reconnect(d) PROVE TypeHandlers'
    BY <1>1, <1>10 DEF Reconnect, TypeHandlers, wires
  <1>11. ASSUME NEW d \in Devs, Exit(d) PROVE TypeHandlers'
    <2>1. hbWire' \subseteq hbWire /\ unWire' \subseteq unWire
      BY <1>11 DEF Exit
    <2> QED
      BY <1>1, <1>3, <1>11, <2>1 DEF Exit, TypeHandlers
  <1>12. ASSUME NEW d \in Devs, UnRecv(d) \/ HbRecv(d) PROVE TypeHandlers'
    BY <1>1, <1>12 DEF UnRecv, HbRecv, TypeHandlers, handlers
  <1>13. CASE UnSend
    <2>1. [uuid |-> unUuid, cmd |-> NoCmd] \in Reply
      BY <1>1, CommandLegAssumption DEF TypeServed, Reply, NoCmd
    <2> QED
      BY <1>1, <1>13, <2>1 DEF UnSend, Answered, TypeHandlers, wires
  <1>14. CASE HbSend
    BY <1>1, <1>14 DEF HbSend, Answered, TypeHandlers, TypeServed, wires
  <1>15. ASSUME NEW u \in Uuids, PostCommand(u) \/ GrowStale(u) PROVE TypeHandlers'
    BY <1>2, <1>15 DEF PostCommand, GrowStale
  <1>16. CASE HbTake \/ DispatcherRestart \/ UNCHANGED vars
    BY <1>2, <1>16 DEF HbTake, DispatcherRestart, vars
  <1>17. CASE DispatcherCrash
    BY <1>1, <1>17 DEF DispatcherCrash, handlers, TypeHandlers
  <1> QED
    BY <1>4, <1>5, <1>6, <1>7, <1>8, <1>9, <1>10, <1>11, <1>12, <1>13, <1>14, <1>15, <1>16,
       <1>17, Steps

\* The type invariant is preserved, part by part.
LEMMA TypeStep ==
  TypeOK /\ Counted /\ Prepared /\ Commanded /\ [Next]_vars => TypeOK' /\ Counted'
  <1> SUFFICES ASSUME TypeOK, Counted, Prepared, Commanded, [Next]_vars
               PROVE  TypeOK' /\ Counted'
    OBVIOUS
  <1>1. TypeDispatcher' /\ TypeServed' /\ TypeHandlers' /\ Counted'
    BY TypeDispatcherStep, TypeServedStep, TypeHandlersStep, CountedStep
  <1> QED
    BY <1>1 DEF TypeOK, TypeDispatcher, TypeServed, TypeHandlers

-----------------------------------------------------------------------------
\* th_heart_beat and th_unique_number: an answer is made for a request, and sent.
LEMMA PreparedStep == TypeOK /\ Prepared /\ [Next]_vars => Prepared'
  <1> SUFFICES ASSUME TypeOK, Prepared, [Next]_vars PROVE Prepared'
    OBVIOUS
  <1>1. TypeDispatcher /\ TypeServed /\ TypeHandlers
    BY TypeSplit
  <1>2. ASSUME UNCHANGED <<hbt, unReq, unUuid>> PROVE Prepared'
    BY <1>2 DEF hbt, Prepared
  <1>3. ASSUME NEW d \in Devs, \/ Register(d) \/ Registered(d) \/ Unregistered(d) \/ Beat(d)
                               \/ Receive(d) \/ Timeout(d) \/ Reconnect(d) \/ Exit(d)
        PROVE  Prepared'
    BY <1>2, <1>3 DEF Register, Registered, Unregistered, Beat, Receive, Timeout, Reconnect,
                      Exit, unt
  <1>4. ASSUME NEW d \in Devs, UnRecv(d) PROVE Prepared'
    <2>1. unReq' \in UnReq /\ unUuid' = issued + 1 /\ issued \in Nat /\ hbt' = hbt
      BY <1>1, <1>4, CommandLegAssumption DEF UnRecv, NewUuid, TypeServed, TypeHandlers
    <2> QED
      BY <2>1, NoFacts DEF Prepared, hbt
  <1>5. ASSUME NEW d \in Devs, HbRecv(d) PROVE Prepared'
    <2>1. PICK r \in hbWire, known \in BOOLEAN :
            /\ known \in Count(r.uuid) /\ hbReq' = r
            /\ hbpc' = IF known THEN "take" ELSE "send"
      BY <1>5 DEF HbRecv
    <2>2. known => r.uuid \in Uuids
      BY <1>1, <2>1 DEF Count, TypeDispatcher
    <2> QED
      BY <1>5, <2>1, <2>2 DEF HbRecv, Prepared, unt
  <1>6. CASE UnSend
    BY <1>6 DEF UnSend, Prepared, hbt
  <1>7. CASE HbTake \/ HbSend
    BY <1>7 DEF HbTake, HbSend, Prepared, unt
  <1>8. CASE DispatcherCrash
    BY <1>8 DEF DispatcherCrash, Prepared
  <1>9. ASSUME NEW u \in Uuids, PostCommand(u) \/ GrowStale(u) PROVE Prepared'
    BY <1>2, <1>9 DEF PostCommand, GrowStale, unt
  <1>10. CASE DispatcherRestart \/ UNCHANGED vars
    BY <1>2, <1>10 DEF DispatcherRestart, vars, unt
  <1> QED
    BY <1>3, <1>4, <1>5, <1>6, <1>7, <1>8, <1>9, <1>10, Steps

\* Where an answer comes from: the socket keeps it, is emptied, or is handed the
\* answer to the request it carries.
LEMMA InboxSteps ==
  ASSUME TypeOK, [Next]_vars, NEW d \in Devs
  PROVE  \/ inbox'[d] = inbox[d] /\ (hpc'[d] = "unwait" => hpc[d] = "unwait" \/ Register(d))
         \/ inbox'[d] = NoReply
         \/ HbSend /\ hbReq.dev = d /\ hbReq.sock = sock[d] /\ inbox'[d] = hbResp /\ hpc' = hpc
         \/ /\ UnSend /\ unReq.dev = d /\ unReq.sock = sock[d] /\ hpc' = hpc
            /\ inbox'[d] = [uuid |-> unUuid, cmd |-> NoCmd]
  <1>1. TypeServed /\ TypeHandlers
    BY TypeSplit
  <1>2. ASSUME inbox' = inbox, hpc' = hpc
        PROVE  inbox'[d] = inbox[d] /\ (hpc'[d] = "unwait" => hpc[d] = "unwait")
    BY <1>2
  <1>3. ASSUME NEW e \in Devs, \/ Registered(e) \/ Unregistered(e) \/ Beat(e)
                               \/ Receive(e) \/ Timeout(e) \/ Reconnect(e) \/ Exit(e)
        PROVE  \/ inbox'[d] = inbox[d] /\ (hpc'[d] = "unwait" => hpc[d] = "unwait")
               \/ inbox'[d] = NoReply
    BY <1>1, <1>3 DEF Registered, Unregistered, Beat, Receive, Timeout, Reconnect, Exit, TypeHandlers
  <1>4. ASSUME NEW e \in Devs, Register(e)
        PROVE  inbox'[d] = inbox[d] /\ (hpc'[d] = "unwait" => hpc[d] = "unwait" \/ Register(d))
    BY <1>1, <1>4 DEF Register, TypeHandlers
  <1>5. CASE \/ \E e \in Devs : UnRecv(e) \/ HbRecv(e)
             \/ \E u \in Uuids : PostCommand(u) \/ GrowStale(u)
             \/ UNCHANGED vars \/ HbTake \/ DispatcherCrash \/ DispatcherRestart
    BY <1>2, <1>5 DEF vars, handlers, UnRecv, HbRecv, PostCommand, GrowStale, HbTake,
                      DispatcherCrash, DispatcherRestart
  <1>6. CASE HbSend
    BY <1>1, <1>2, <1>6 DEF HbSend, Answered, TypeHandlers
  <1>7. CASE UnSend
    BY <1>1, <1>2, <1>7 DEF UnSend, Answered, TypeHandlers
  <1> QED
    BY <1>3, <1>4, <1>5, <1>6, <1>7, Steps

\* A command comes from a post, and goes to the uuid it was posted for.
LEMMA CommandedStep ==
  TypeOK /\ Prepared /\ Commanded /\ AnswersMatch /\ OwnSocket /\ [Next]_vars => Commanded'
  <1> SUFFICES ASSUME TypeOK, Prepared, Commanded, AnswersMatch, OwnSocket, [Next]_vars
               PROVE  Commanded'
    OBVIOUS
  <1>1. TypeDispatcher /\ TypeServed /\ TypeHandlers
    BY TypeSplit
  <1>2. posted \in Nat /\ posted' \in Nat /\ posted <= posted'
    <2>1. posted' = posted \/ posted' = posted + 1
      BY Steps DEF vars, Register, Registered, Unregistered, Beat, Receive, Timeout,
         Reconnect, Exit, UnRecv, HbRecv, PostCommand, GrowStale, UnSend, HbTake, HbSend,
         DispatcherCrash, DispatcherRestart
    <2> QED
      BY <2>1, Fields
  <1>3. /\ hbResp.cmd \in Nat /\ Answer(hbResp)
        /\ \A d \in Devs : inbox[d].cmd \in Int /\ Answer(inbox[d])
    BY Fields DEF Commanded
  <1>4. Answer(hbResp)'
    <2>1. CASE hbResp' = hbResp
      BY <1>2, <1>3, <2>1 DEF Answer
    <2>2. CASE hbResp' = Empty
      BY <1>2, <2>2 DEF Answer, Empty, NoCmd
    <2>3. CASE HbTake
      <3>1. hbReq.uuid \in Uuids /\ commands[hbReq.uuid] \in 0 .. posted /\ posted' = posted
        BY <1>1, <2>3 DEF HbTake, Prepared, TypeDispatcher
      <3>2. hbResp' = [uuid |-> hbReq.uuid, cmd |-> commands[hbReq.uuid]]
        BY <2>3 DEF HbTake
      <3> QED
        BY <1>2, <3>1, <3>2 DEF Answer
    <2> QED
      BY <2>1, <2>2, <2>3, Steps DEF hbt, vars, Register, Registered, Unregistered, Beat, Receive,
         Timeout, Reconnect, Exit, UnRecv, HbRecv, PostCommand, GrowStale, UnSend, HbSend,
         DispatcherCrash, DispatcherRestart
  <1>5. ASSUME NEW d \in Devs PROVE Answer(inbox[d])' /\ (hpc'[d] = "unwait" => inbox'[d].cmd <= 0)
    <2>1. CASE inbox'[d] = inbox[d] /\ (hpc'[d] = "unwait" => hpc[d] = "unwait" \/ Register(d))
      <3>1. Answer(inbox[d])'
        BY <1>2, <1>3, <2>1 DEF Answer
      <3>2. Register(d) => inbox[d].cmd <= 0
        BY DEF Register, AnswersMatch, NoReply
      <3> QED
        BY <2>1, <3>1, <3>2 DEF Commanded
    <2>2. CASE inbox'[d] = NoReply
      BY <1>2, <2>2 DEF Answer, NoReply
    <2>3. CASE HbSend /\ hbReq.dev = d /\ hbReq.sock = sock[d] /\ inbox'[d] = hbResp /\ hpc' = hpc
      <3>1. hbReq # NoReq /\ posted' = posted
        BY <1>1, <2>3 DEF HbSend, TypeServed
      <3>2. hpc[d] = "wait"
        BY <2>3, <3>1, Fields DEF OwnSocket
      <3> QED
        BY <1>3, <2>3, <3>1, <3>2 DEF Answer
    <2>4. CASE /\ UnSend /\ unReq.dev = d /\ unReq.sock = sock[d] /\ hpc' = hpc
               /\ inbox'[d] = [uuid |-> unUuid, cmd |-> NoCmd]
      BY <1>2, <2>4 DEF Answer, NoCmd
    <2> QED
      BY <2>1, <2>2, <2>3, <2>4, InboxSteps
  <1> QED
    BY <1>4, <1>5 DEF Commanded

\* A request that is on its way or served was sent by its handler.
LEMMA OwnSocketStep == TypeOK /\ AnswersMatch /\ OwnSocket /\ [Next]_vars => OwnSocket'
  <1> SUFFICES ASSUME TypeOK, AnswersMatch, OwnSocket, [Next]_vars PROVE OwnSocket'
    OBVIOUS
  <1>1. TypeServed /\ TypeHandlers
    BY TypeSplit
  <1>2. ASSUME UNCHANGED <<handlers, wires, hbReq, unReq>> PROVE OwnSocket'
    BY <1>2 DEF handlers, wires, OwnSocket, Beats, Regs
  <1>3. ASSUME NEW d \in Devs, Register(d) PROVE OwnSocket'
    <2>1. /\ hpc[d] = "down" /\ inbox[d] = NoReply /\ hpc'[d] = "unwait"
          /\ \A e \in Devs : e # d => hpc'[e] = hpc[e]
          /\ unWire' = unWire \cup {[dev |-> d, sock |-> sock[d]]}
          /\ UNCHANGED <<hbWire, hbReq, unReq, uuid, sock, inbox>>
      BY <1>1, <1>3 DEF Register, hbt, unt, AnswersMatch, TypeHandlers
    <2>2. /\ Beats' = Beats /\ Regs' = Regs \cup {[dev |-> d, sock |-> sock[d]]}
          /\ \A r \in Beats \cup Regs : r.dev = d => r.sock # sock[d]
      BY <2>1 DEF Beats, Regs, OwnSocket
    <2> QED
      BY <2>1, <2>2, Fields DEF OwnSocket
  <1>4. ASSUME NEW d \in Devs, Registered(d) \/ Receive(d) PROVE OwnSocket'
    <2>1. /\ inbox[d] # NoReply
          /\ \A e \in Devs : e # d => hpc'[e] = hpc[e] /\ inbox'[e] = inbox[e] /\ uuid'[e] = uuid[e]
          /\ UNCHANGED <<hbWire, unWire, hbReq, unReq, sock>>
      BY <1>1, <1>4 DEF Registered, Receive, hbt, unt, wires, TypeHandlers
    <2>2. /\ Beats' = Beats /\ Regs' = Regs
          /\ \A r \in Beats \cup Regs : r.dev = d => r.sock # sock[d]
      BY <2>1 DEF Beats, Regs, OwnSocket
    <2> QED
      BY <2>1, <2>2, Fields DEF OwnSocket
  <1>5. ASSUME NEW d \in Devs, Beat(d) PROVE OwnSocket'
    <2>1. /\ hpc[d] = "ready" /\ inbox[d] = NoReply /\ hpc'[d] = "wait"
          /\ \A e \in Devs : e # d => hpc'[e] = hpc[e]
          /\ hbWire' = hbWire \cup {[dev |-> d, sock |-> sock[d], uuid |-> uuid[d]]}
          /\ UNCHANGED <<unWire, hbReq, unReq, uuid, sock, inbox>>
      BY <1>1, <1>5 DEF Beat, hbt, unt, AnswersMatch, TypeHandlers
    <2>2. /\ Beats' = Beats \cup {[dev |-> d, sock |-> sock[d], uuid |-> uuid[d]]} /\ Regs' = Regs
          /\ \A r \in Beats \cup Regs : r.dev = d => r.sock # sock[d]
      BY <2>1 DEF Beats, Regs, OwnSocket
    <2> QED
      BY <2>1, <2>2, Fields DEF OwnSocket
  <1>6. ASSUME NEW d \in Devs, Unregistered(d) \/ Timeout(d) \/ Exit(d) PROVE OwnSocket'
    <2>1. /\ sock'[d] \notin Used(d)
          /\ \A e \in Devs : e # d => /\ hpc'[e] = hpc[e] /\ inbox'[e] = inbox[e]
                                      /\ uuid'[e] = uuid[e] /\ sock'[e] = sock[e]
          /\ hbWire' \subseteq hbWire /\ unWire' \subseteq unWire /\ UNCHANGED <<hbReq, unReq>>
      BY <1>1, <1>6 DEF Unregistered, Timeout, Exit, Unused, hbt, unt, wires, TypeHandlers
    <2>2. \A r \in Beats \cup Regs : r.dev = d => r.sock # sock'[d]
      BY <2>1 DEF Used, Beats, Regs
    <2>3. Beats' \subseteq Beats /\ Regs' \subseteq Regs
      BY <2>1 DEF Beats, Regs
    <2> QED
      BY <2>1, <2>2, <2>3, Fields DEF OwnSocket
  <1>7. ASSUME NEW d \in Devs, Reconnect(d) PROVE OwnSocket'
    <2>1. /\ hpc[d] = "closed"
          /\ \A e \in Devs : e # d => hpc'[e] = hpc[e]
          /\ UNCHANGED <<hbWire, unWire, hbReq, unReq, uuid, sock, inbox>>
      BY <1>1, <1>7 DEF Reconnect, hbt, unt, wires, TypeHandlers
    <2>2. /\ Beats' = Beats /\ Regs' = Regs
          /\ \A r \in Beats \cup Regs : r.dev = d => r.sock # sock[d]
      BY <2>1 DEF Beats, Regs, OwnSocket
    <2> QED
      BY <2>1, <2>2, Fields DEF OwnSocket
  <1>8. ASSUME NEW d \in Devs, UnRecv(d) PROVE OwnSocket'
    <2>1. PICK r \in unWire : /\ unReq = NoReq /\ unReq' = r /\ unWire' = unWire \ {r}
                              /\ UNCHANGED <<hbWire, hbReq, hpc, uuid, sock, inbox>>
      BY <1>8 DEF UnRecv, hbt, handlers
    <2>2. Beats' = Beats /\ Regs' \subseteq Regs
      BY <2>1 DEF Beats, Regs
    <2> QED
      BY <2>1, <2>2 DEF OwnSocket
  <1>9. ASSUME NEW d \in Devs, HbRecv(d) PROVE OwnSocket'
    <2>1. PICK r \in hbWire : /\ hbReq' = r /\ hbWire' = hbWire \ {r} /\ hbpc = "recv"
                              /\ UNCHANGED <<unWire, unReq, hpc, uuid, sock, inbox>>
      BY <1>9 DEF HbRecv, unt, handlers
    <2>2. Beats' \subseteq Beats /\ Regs' = Regs
      BY <2>1 DEF Beats, Regs
    <2>3. \A q \in hbWire : q \in Beats /\ q \in HbReq
      BY Fields, NoFacts DEF Beats
    <2>4. ASSUME NEW q \in hbWire, r.sock = sock[r.dev], q.dev = r.dev, q.sock = r.sock PROVE q = r
      BY <2>3, <2>4 DEF OwnSocket, HbReq
    <2> QED
      BY <2>1, <2>2, <2>4 DEF OwnSocket
  <1>10. CASE UnSend
    <2>1. /\ unReq # NoReq /\ unReq' = NoReq
          /\ UNCHANGED <<hbWire, unWire, hbReq, hpc, uuid, sock>>
      BY <1>10 DEF UnSend, hbt, wires
    <2>2. /\ Beats' = Beats /\ Regs' = unWire /\ Regs' \subseteq Regs
      BY <2>1 DEF Beats, Regs
    <2>3. ASSUME NEW e \in Devs, inbox'[e] # inbox[e]
          PROVE  unReq.dev = e /\ unReq.sock = sock[e] /\ hpc[e] \in {"unwait", "wait"}
      BY <1>1, <1>10, <2>3 DEF UnSend, Answered, TypeHandlers
    <2>4. \A r \in Beats : r.sock = sock[r.dev] => inbox'[r.dev] = inbox[r.dev]
      BY <2>1, <2>3, Fields DEF OwnSocket
    <2>5. \A r \in unWire : r.sock = sock[r.dev] => inbox'[r.dev] = inbox[r.dev]
      <3> SUFFICES ASSUME NEW r \in unWire, r.sock = sock[r.dev], inbox'[r.dev] # inbox[r.dev]
                   PROVE  FALSE
        OBVIOUS
      <3>1. r \in UnReq /\ unReq \in UnReq /\ r.dev \in Devs
        BY <1>1, <2>1 DEF TypeServed, TypeHandlers, UnReq
      <3>2. unReq.dev = r.dev /\ unReq.sock = r.sock
        BY <2>3, <3>1
      <3>3. unReq = r
        BY <3>1, <3>2 DEF UnReq
      <3> QED
        BY <2>1, <3>3 DEF OwnSocket
    <2> QED
      BY <2>1, <2>2, <2>4, <2>5 DEF OwnSocket
  <1>11. CASE HbSend
    <2>1. /\ hbReq # NoReq /\ hbReq' = NoReq
          /\ UNCHANGED <<hbWire, unWire, unReq, hpc, uuid, sock>>
      BY <1>1, <1>11 DEF HbSend, unt, wires, TypeServed
    <2>2. /\ Beats' = hbWire /\ Regs' = Regs /\ Beats' \subseteq Beats
      BY <2>1 DEF Beats, Regs
    <2>3. ASSUME NEW e \in Devs, inbox'[e] # inbox[e]
          PROVE  hbReq.dev = e /\ hbReq.sock = sock[e]
      BY <1>1, <1>11, <2>3 DEF HbSend, Answered, TypeHandlers
    <2>4. \A r \in Regs : r.sock = sock[r.dev] => inbox'[r.dev] = inbox[r.dev]
      BY <2>1, <2>3, Fields DEF OwnSocket
    <2>5. \A r \in hbWire : r.sock = sock[r.dev] => inbox'[r.dev] = inbox[r.dev]
      BY <1>1, <2>1, <2>3 DEF OwnSocket, TypeHandlers, HbReq
    <2> QED
      BY <2>1, <2>2, <2>4, <2>5 DEF OwnSocket
  <1>12. CASE DispatcherCrash
    <2>1. hbWire' \subseteq hbWire /\ unWire' \subseteq unWire /\ hbReq' = NoReq /\ unReq' = NoReq
          /\ UNCHANGED <<hpc, uuid, sock, inbox>>
      BY <1>12 DEF DispatcherCrash, handlers
    <2>2. Beats' \subseteq Beats /\ Regs' \subseteq Regs
      BY <2>1 DEF Beats, Regs
    <2> QED
      BY <2>1, <2>2 DEF OwnSocket
  <1>13. CASE \/ UNCHANGED vars \/ HbTake \/ DispatcherRestart
              \/ \E u \in Uuids : PostCommand(u) \/ GrowStale(u)
    BY <1>2, <1>13 DEF vars, HbTake, DispatcherRestart, PostCommand, GrowStale, hbt, unt
  <1> QED
    BY <1>3, <1>4, <1>5, <1>6, <1>7, <1>8, <1>9, <1>10, <1>11, <1>12, <1>13, Steps

-----------------------------------------------------------------------------
\* Who carries a uuid.
Ids == OneOwner /\ AnswersMatch /\ Issued /\ NewIds

\* Nobody gets a uuid: the heartbeats go on, or are lost, and one handler may be
\* left without an answer or without its uuid.
LEMMA IdsKept ==
  ASSUME TypeOK, TypeOK', Ids, NEW d,
         Beats' \subseteq Beats, issued' = issued, unUuid' \in {unUuid, 0},
         d \in Devs => inbox'[d] = NoReply /\ uuid'[d] \in {uuid[d], 0},
         \A e \in Devs : e # d =>
           inbox'[e] = inbox[e] /\ uuid'[e] = uuid[e] /\ hpc'[e] = hpc[e]
  PROVE  Ids'
  <1>1. OneOwner'
    BY DEF Ids, OneOwner, Beats
  <1>2. AnswersMatch'
    <2> SUFFICES ASSUME NEW e \in Devs, inbox'[e] # NoReply
                 PROVE  \/ hpc'[e] = "wait" /\ inbox'[e].uuid \in {0, uuid'[e]}
                        \/ /\ hpc'[e] = "unwait" /\ inbox'[e].uuid # 0
                           /\ \A f \in Devs : uuid'[f] # inbox'[e].uuid
      BY DEF AnswersMatch
    <2>1. e # d /\ inbox'[e] = inbox[e] /\ uuid'[e] = uuid[e] /\ hpc'[e] = hpc[e]
      OBVIOUS
    <2> QED
      BY <2>1 DEF Ids, AnswersMatch
  <1>3. Issued'
    <2>1. \A e \in Devs : uuid'[e] <= issued /\ inbox'[e].uuid <= issued
      BY Fields DEF Ids, Issued, NoReply
    <2>2. unUuid' <= issued
      BY Fields DEF Ids, Issued
    <2> QED
      BY <2>1, <2>2 DEF Ids, Issued
  <1>4. NewIds'
    <2>1. unUuid' # 0 => \A r \in Beats' : r.uuid # unUuid'
      BY DEF Ids, NewIds
    <2>2. ASSUME NEW e \in Devs, hpc'[e] = "unwait", inbox'[e] # NoReply
          PROVE  /\ inbox'[e].uuid # unUuid'
                 /\ \A r \in Beats' : r.uuid # inbox'[e].uuid
                 /\ \A f \in Devs : hpc'[f] = "unwait" /\ inbox'[f].uuid = inbox'[e].uuid => f = e
      <3>1. e # d /\ inbox'[e] = inbox[e] /\ hpc'[e] = hpc[e] /\ inbox[e].uuid # 0
        BY <2>2 DEF Ids, AnswersMatch
      <3>2. \A f \in Devs : f = d => inbox'[f].uuid = 0
        BY DEF NoReply
      <3> QED
        BY <2>2, <3>1, <3>2 DEF Ids, NewIds
    <2> QED
      BY <2>1, <2>2 DEF NewIds
  <1> QED
    BY <1>1, <1>2, <1>3, <1>4 DEF Ids

\* Where a uuid goes: it is generated, put in the answer to a registration, read
\* by the handler, and sent in its heartbeats.
LEMMA IdsStep == TypeOK /\ Counted /\ Prepared /\ Commanded /\ OwnSocket /\ Ids /\ [Next]_vars => Ids'
  <1> SUFFICES ASSUME TypeOK, Counted, Prepared, Commanded, OwnSocket, Ids, [Next]_vars PROVE Ids'
    OBVIOUS
  <1>1. TypeServed /\ TypeHandlers /\ TypeOK'
    BY TypeSplit, TypeStep
  <1>2. ASSUME NEW d \in Devs, \/ Register(d) \/ Unregistered(d) \/ Receive(d) \/ Timeout(d)
                               \/ Reconnect(d) \/ Exit(d)
        PROVE  Ids'
    <2>1. /\ inbox'[d] = NoReply /\ uuid'[d] \in {uuid[d], 0}
          /\ \A e \in Devs : e # d =>
               inbox'[e] = inbox[e] /\ uuid'[e] = uuid[e] /\ hpc'[e] = hpc[e]
      BY <1>1, <1>2 DEF Register, Unregistered, Receive, Timeout, Reconnect, Exit, Ids,
                        AnswersMatch, TypeHandlers
    <2>2. hbWire' \subseteq hbWire /\ UNCHANGED <<hbReq, unUuid, issued>>
      BY <1>2 DEF Register, Unregistered, Receive, Timeout, Reconnect, Exit, hbt, unt, wires
    <2>3. Beats' \subseteq Beats
      BY <2>2 DEF Beats
    <2> QED
      BY <1>1, <2>1, <2>2, <2>3, IdsKept
  <1>3. ASSUME UNCHANGED <<inbox, uuid, hpc, issued>>, unUuid' \in {unUuid, 0}, Beats' \subseteq Beats
        PROVE  Ids'
    <2>1. PICK d : d \notin Devs
      BY NoSetContainsEverything
    <2> QED
      BY <1>1, <1>3, <2>1, IdsKept
  <1>4. ASSUME NEW d \in Devs, HbRecv(d) PROVE Ids'
    <2>1. PICK r \in hbWire : hbReq' = r /\ hbWire' = hbWire \ {r}
      BY <1>4 DEF HbRecv
    <2>2. Beats' \subseteq Beats
      BY <2>1 DEF Beats
    <2> QED
      BY <1>3, <1>4, <2>2 DEF HbRecv, handlers, unt
  <1>5. CASE DispatcherCrash
    <2>1. Beats' \subseteq Beats
      BY <1>5 DEF DispatcherCrash, Beats
    <2> QED
      BY <1>3, <1>5, <2>1 DEF DispatcherCrash, handlers
  <1>6. CASE \/ UNCHANGED vars \/ HbTake \/ DispatcherRestart
             \/ \E u \in Uuids : PostCommand(u) \/ GrowStale(u)
    <2>1. UNCHANGED <<hbReq, handlers, wires, unt>>
      BY <1>6 DEF vars, HbTake, DispatcherRestart, PostCommand, GrowStale, hbt
    <2>2. Beats' = Beats
      BY <2>1 DEF Beats, wires
    <2> QED
      BY <1>3, <2>1, <2>2 DEF handlers, unt
  <1>7. ASSUME NEW d \in Devs, Registered(d) PROVE Ids'
    <2> DEFINE v == inbox[d].uuid
    <2>1. /\ hpc[d] = "unwait" /\ inbox[d] # NoReply
          /\ uuid'[d] = v /\ inbox'[d] = NoReply /\ hpc'[d] = "ready"
          /\ \A e \in Devs : e # d =>
               inbox'[e] = inbox[e] /\ uuid'[e] = uuid[e] /\ hpc'[e] = hpc[e]
          /\ UNCHANGED <<hbWire, hbReq, unUuid, issued>>
      BY <1>1, <1>7 DEF Registered, hbt, unt, wires, TypeHandlers
    <2>2. Beats' = Beats
      BY <2>1 DEF Beats
    <2>3. /\ v # 0 /\ v # unUuid /\ v <= issued
          /\ \A e \in Devs : uuid[e] # v
          /\ \A r \in Beats : r.uuid # v
          /\ \A e \in Devs : hpc[e] = "unwait" /\ inbox[e].uuid = v => e = d
      BY <2>1 DEF Ids, AnswersMatch, NewIds, Issued
    <2> HIDE DEF v
    <2>4. OneOwner'
      BY <2>1, <2>2, <2>3 DEF Ids, OneOwner, Beats
    <2>5. AnswersMatch'
      <3> SUFFICES ASSUME NEW e \in Devs, inbox'[e] # NoReply
                   PROVE  \/ hpc'[e] = "wait" /\ inbox'[e].uuid \in {0, uuid'[e]}
                          \/ /\ hpc'[e] = "unwait" /\ inbox'[e].uuid # 0
                             /\ \A f \in Devs : uuid'[f] # inbox'[e].uuid
        BY DEF AnswersMatch
      <3>1. e # d
        BY <2>1
      <3> QED
        BY <2>1, <2>3, <3>1 DEF Ids, AnswersMatch
    <2>6. Issued'
      <3>1. \A e \in Devs : uuid'[e] <= issued /\ inbox'[e].uuid <= issued
        BY <2>1, <2>3, Fields DEF Ids, Issued, NoReply
      <3> QED
        BY <2>1, <2>2, <3>1 DEF Ids, Issued
    <2>7. NewIds'
      BY <2>1, <2>2 DEF Ids, NewIds
    <2> QED
      BY <2>4, <2>5, <2>6, <2>7 DEF Ids
  <1>8. ASSUME NEW d \in Devs, Beat(d) PROVE Ids'
    <2>1. /\ inbox[d] = NoReply /\ hpc'[d] = "wait"
          /\ \A e \in Devs : e # d => hpc'[e] = hpc[e]
          /\ hbWire' = hbWire \cup {[dev |-> d, sock |-> sock[d], uuid |-> uuid[d]]}
          /\ UNCHANGED <<hbReq, unUuid, issued, uuid, inbox>>
      BY <1>1, <1>8 DEF Beat, hbt, unt, Ids, AnswersMatch, TypeHandlers
    <2>2. Beats' = Beats \cup {[dev |-> d, sock |-> sock[d], uuid |-> uuid[d]]}
      BY <2>1 DEF Beats
    <2>3. OneOwner'
      BY <2>1, <2>2 DEF Ids, OneOwner, Beats
    <2>4. AnswersMatch'
      BY <2>1 DEF Ids, AnswersMatch
    <2>5. Issued'
      BY <2>1, <2>2 DEF Ids, Issued
    <2>6. NewIds'
      <3>1. \A e \in Devs : hpc'[e] = "unwait" => hpc[e] = "unwait" /\ e # d
        BY <2>1
      <3>2. \A e \in Devs : hpc[e] = "unwait" /\ inbox[e] # NoReply => uuid[d] # inbox[e].uuid
        BY DEF Ids, AnswersMatch
      <3>3. unUuid # 0 => uuid[d] # unUuid
        BY DEF Ids, OneOwner
      <3> QED
        BY <2>1, <2>2, <3>1, <3>2, <3>3 DEF Ids, NewIds
    <2> QED
      BY <2>3, <2>4, <2>5, <2>6 DEF Ids
  <1>9. ASSUME NEW d \in Devs, UnRecv(d) PROVE Ids'
    <2>1. issued' = issued + 1 /\ unUuid' = issued + 1 /\ issued \in Nat
          /\ UNCHANGED <<hbWire, hbReq, hpc, uuid, inbox>>
      BY <1>9, Fields DEF UnRecv, NewUuid, hbt, handlers
    <2>2. Beats' = Beats
      BY <2>1 DEF Beats
    <2>3. /\ \A e \in Devs : uuid[e] # issued + 1 /\ inbox[e].uuid # issued + 1
          /\ \A r \in Beats : r.uuid # issued + 1
      BY <2>1, Fields DEF Ids, Issued
    <2>4. OneOwner'
      BY <2>1, <2>2, <2>3 DEF Ids, OneOwner, Beats
    <2>5. AnswersMatch'
      BY <2>1 DEF Ids, AnswersMatch
    <2>6. Issued'
      <3>1. \A e \in Devs : uuid[e] <= issued + 1 /\ inbox[e].uuid <= issued + 1
        BY <2>1, Fields DEF Ids, Issued
      <3>2. \A r \in Beats : r.uuid <= issued + 1
        BY <2>1, Fields DEF Ids, Issued
      <3> QED
        BY <2>1, <2>2, <3>1, <3>2 DEF Issued
    <2>7. NewIds'
      BY <2>1, <2>2, <2>3 DEF Ids, NewIds
    <2> QED
      BY <2>4, <2>5, <2>6, <2>7 DEF Ids
  <1>10. CASE UnSend
    <2>1. /\ unReq # NoReq /\ unUuid # 0 /\ unUuid' = 0 /\ unUuid \in Nat
          /\ UNCHANGED <<hbWire, hbReq, hpc, uuid, issued>>
      BY <1>10, Fields DEF UnSend, hbt, wires, Prepared
    <2>2. Beats' = Beats
      BY <2>1 DEF Beats
    <2>3. CASE inbox' = inbox
      BY <1>3, <2>1, <2>2, <2>3
    <2>4. CASE inbox' # inbox
      <3> DEFINE d == unReq.dev
      <3>1. /\ d \in Devs /\ hpc[d] = "unwait"
            /\ inbox'[d] = [uuid |-> unUuid, cmd |-> NoCmd]
            /\ \A e \in Devs : e # d => inbox'[e] = inbox[e]
        BY <1>1, <1>10, <2>1, <2>4, Fields DEF UnSend, Answered, TypeHandlers, OwnSocket
      <3> HIDE DEF d
      <3>2. inbox'[d].uuid = unUuid /\ inbox'[d] # NoReply
        BY <2>1, <3>1 DEF NoReply
      <3>3. /\ \A e \in Devs : uuid[e] # unUuid
            /\ \A r \in Beats : r.uuid # unUuid
            /\ \A e \in Devs : hpc[e] = "unwait" /\ inbox[e] # NoReply => inbox[e].uuid # unUuid
            /\ NoReply.uuid # unUuid
        BY <2>1 DEF Ids, OneOwner, NewIds, NoReply
      <3>4. OneOwner'
        BY <2>1, <2>2 DEF Ids, OneOwner, Beats
      <3>5. AnswersMatch'
        BY <2>1, <3>1, <3>2, <3>3 DEF Ids, AnswersMatch
      <3>6. Issued'
        <4>1. \A e \in Devs : inbox'[e].uuid <= issued
          BY <3>1, <3>2 DEF Ids, Issued
        <4>2. 0 <= issued
          BY Fields
        <4> QED
          BY <2>1, <2>2, <4>1, <4>2 DEF Ids, Issued
      <3>7. NewIds'
        <4>1. ASSUME NEW e \in Devs, hpc'[e] = "unwait", inbox'[e] # NoReply
              PROVE  /\ inbox'[e].uuid # 0
                     /\ \A r \in Beats' : r.uuid # inbox'[e].uuid
          BY <2>1, <2>2, <3>1, <3>2, <3>3, <4>1 DEF Ids, NewIds, AnswersMatch
        <4>2. ASSUME NEW e \in Devs, hpc'[e] = "unwait", inbox'[e] # NoReply,
                     NEW f \in Devs, hpc'[f] = "unwait", inbox'[f].uuid = inbox'[e].uuid
              PROVE  f = e
          <5>1. CASE e = d
            BY <2>1, <3>1, <3>2, <3>3, <4>2, <5>1
          <5>2. CASE e # d /\ f = d
            BY <2>1, <3>1, <3>2, <3>3, <4>2, <5>2
          <5>3. CASE e # d /\ f # d
            BY <2>1, <3>1, <4>2, <5>3 DEF Ids, NewIds
          <5> QED
            BY <5>1, <5>2, <5>3
        <4> QED
          BY <2>1, <4>1, <4>2 DEF NewIds
      <3> QED
        BY <3>4, <3>5, <3>6, <3>7 DEF Ids
    <2> QED
      BY <2>3, <2>4
  <1>11. CASE HbSend
    <2>1. /\ hbReq # NoReq /\ hbReq' = NoReq
          /\ UNCHANGED <<hbWire, unUuid, hpc, uuid, issued>>
      BY <1>1, <1>11 DEF HbSend, unt, wires, TypeServed
    <2>2. Beats' \subseteq Beats
      BY <2>1 DEF Beats
    <2>3. CASE inbox' = inbox
      BY <1>3, <2>1, <2>2, <2>3
    <2>4. CASE inbox' # inbox
      <3> DEFINE d == hbReq.dev
      <3>1. /\ d \in Devs /\ hpc[d] = "wait" /\ hbReq.uuid = uuid[d] /\ inbox'[d] = hbResp
            /\ \A e \in Devs : e # d => inbox'[e] = inbox[e]
        BY <1>1, <1>11, <2>1, <2>4, Fields DEF HbSend, Answered, TypeHandlers, OwnSocket
      <3> HIDE DEF d
      <3>2. inbox'[d].uuid \in {0, uuid[d]}
        BY <1>1, <1>11, <3>1 DEF HbSend, TypeServed
      <3>3. OneOwner'
        BY <2>1, <2>2 DEF Ids, OneOwner, Beats
      <3>4. AnswersMatch'
        BY <2>1, <3>1, <3>2 DEF Ids, AnswersMatch
      <3>5. Issued'
        <4>1. \A e \in Devs : inbox'[e].uuid <= issued
          BY <3>1, <3>2, Fields DEF Ids, Issued
        <4> QED
          BY <2>1, <2>2, <4>1 DEF Ids, Issued
      <3>6. NewIds'
        BY <2>1, <2>2, <3>1 DEF Ids, NewIds
      <3> QED
        BY <3>3, <3>4, <3>5, <3>6 DEF Ids
    <2> QED
      BY <2>3, <2>4
  <1> QED
    BY <1>2, <1>4, <1>5, <1>6, <1>7, <1>8, <1>9, <1>10, <1>11, Steps

-----------------------------------------------------------------------------
\* Commands that were posted earlier for a uuid are further on their way.
LEMMA InTurnStep ==
  TypeOK /\ Prepared /\ Commanded /\ OwnSocket /\ Ids /\ InTurn /\ [Next]_vars => InTurn'
  <1> SUFFICES ASSUME TypeOK, Prepared, Commanded, OwnSocket, Ids, InTurn, [Next]_vars
               PROVE  InTurn'
    OBVIOUS
  <1>1. TypeDispatcher /\ TypeServed /\ TypeHandlers
    BY TypeSplit
  <1>2. /\ \A u \in Uuids : commands[u] \in Nat
        /\ hbResp.cmd \in Nat /\ posted \in Nat
        /\ \A e \in Devs : inbox[e].cmd \in Int
        /\ DOMAIN handled = 1 .. Len(handled) /\ Len(handled) \in Nat
        /\ \A i \in DOMAIN handled : handled[i].to \in Uuids /\ handled[i].id \in 1 .. posted
    <2> DEFINE S == [to : Uuids, id : 1 .. posted]
    <2>1. \A u \in Uuids : commands[u] \in Nat
      BY <1>1 DEF TypeDispatcher
    <2>2. handled \in Seq(S)
      BY <1>1 DEF TypeDispatcher
    <2> HIDE DEF S
    <2>3. /\ \A i \in DOMAIN handled : handled[i] \in S
          /\ DOMAIN handled = 1 .. Len(handled) /\ Len(handled) \in Nat
      BY <2>2
    <2>4. \A i \in DOMAIN handled : handled[i].to \in Uuids /\ handled[i].id \in 1 .. posted
      BY <2>3 DEF S
    <2> QED
      BY <2>1, <2>3, <2>4, Fields
  <1>3. ASSUME UNCHANGED <<commands, hbResp, handled>>,
               \A e \in Devs : inbox'[e] # inbox[e] =>
                 inbox'[e] \in {NoReply, [uuid |-> unUuid, cmd |-> NoCmd]}
        PROVE  InTurn'
    <2>1. \A e \in Devs : inbox'[e] # inbox[e] => inbox'[e].cmd \in Int /\ inbox'[e].cmd <= 0
      BY <1>3 DEF NoReply, NoCmd
    <2> QED
      BY <1>2, <1>3, <2>1 DEF InTurn, NoCmd
  <1>4. ASSUME NEW d \in Devs, \/ Register(d) \/ Registered(d) \/ Unregistered(d) \/ Beat(d)
                               \/ Timeout(d) \/ Reconnect(d) \/ Exit(d)
        PROVE  InTurn'
    <2>1. /\ UNCHANGED <<commands, hbResp, handled>>
          /\ \A e \in Devs : inbox'[e] \in {inbox[e], NoReply}
      BY <1>1, <1>4 DEF Register, Registered, Unregistered, Beat, Timeout, Reconnect, Exit,
                        disp, hbt, TypeHandlers
    <2> QED
      BY <1>3, <2>1
  <1>5. ASSUME NEW d \in Devs, Receive(d) PROVE InTurn'
    <2>1. UNCHANGED <<commands, hbResp>> /\ inbox[d] # NoReply /\ inbox'[d] = NoReply
          /\ \A e \in Devs : e # d => inbox'[e] = inbox[e]
      BY <1>1, <1>5 DEF Receive, disp, hbt, TypeHandlers
    <2>2. CASE handled' = handled
      BY <1>3, <2>1, <2>2
    <2>3. CASE handled' # handled
      <3> DEFINE c == inbox[d].cmd
                 v == inbox[d].uuid
      <3>1. /\ hpc[d] = "wait" /\ v = uuid[d] /\ c # 0
            /\ handled' = Append(handled, [to |-> v, id |-> c])
        BY <1>5, <2>3 DEF Receive, Addressed, NoCmd
      <3>2. c \in Nat /\ c > 0 /\ v \in Uuids
        <4>1. inbox[d] \in Reply
          BY <1>1, <2>1 DEF TypeHandlers
        <4>2. c \in 0 .. MaxPosts
          BY <4>1 DEF Reply
        <4> QED
          BY <3>1, <4>2, CommandLegAssumption DEF Commanded, Answer
      <3>3. \A e \in Devs : e # d /\ inbox[e].cmd > 0 => inbox[e].uuid # v
        <4> SUFFICES ASSUME NEW e \in Devs, e # d, inbox[e].cmd > 0, inbox[e].uuid = v PROVE FALSE
          OBVIOUS
        <4>1. inbox[e] # NoReply /\ hpc[e] # "unwait"
          BY <1>2 DEF NoReply, Commanded
        <4>2. v # 0
          BY <3>2 DEF Uuids
        <4>3. uuid[e] = v
          BY <4>1, <4>2 DEF Ids, AnswersMatch
        <4> QED
          BY <3>1, <4>2, <4>3 DEF Ids, OneOwner
      <3>4. /\ DOMAIN handled' = 1 .. Len(handled) + 1
            /\ \A i \in DOMAIN handled : handled'[i] = handled[i]
            /\ handled'[Len(handled) + 1] = [to |-> v, id |-> c]
        BY <1>1, <1>2, <3>1 DEF TypeDispatcher
      <3>5. \A i \in DOMAIN handled' : (i \in DOMAIN handled /\ handled'[i] = handled[i])
                                        \/ handled'[i] = [to |-> v, id |-> c]
        BY <1>2, <3>4
      <3>6. \A u \in Uuids : commands[u] # NoCmd /\ v = u => c < commands[u]
        BY DEF InTurn
      <3>7. hbResp.cmd > 0 /\ hbResp.uuid = v => c < hbResp.cmd
        BY DEF InTurn
      <3> HIDE DEF c, v
      <3>8. \A u \in Uuids : commands'[u] # NoCmd =>
               /\ \A i \in DOMAIN handled' : handled'[i].to = u => handled'[i].id < commands'[u]
               /\ hbResp'.uuid = u => hbResp'.cmd < commands'[u]
               /\ \A e \in Devs : inbox'[e].uuid = u => inbox'[e].cmd < commands'[u]
        BY <1>2, <2>1, <3>5, <3>6 DEF InTurn, NoReply, Uuids
      <3>9. hbResp'.cmd > 0 =>
               /\ \A i \in DOMAIN handled' : handled'[i].to = hbResp'.uuid => handled'[i].id < hbResp'.cmd
               /\ \A e \in Devs : inbox'[e].uuid = hbResp'.uuid => inbox'[e].cmd < hbResp'.cmd
        BY <1>2, <2>1, <3>5, <3>7 DEF InTurn, NoReply
      <3>10. \A e \in Devs : inbox'[e].cmd > 0 =>
               \A i \in DOMAIN handled' : handled'[i].to = inbox'[e].uuid => handled'[i].id < inbox'[e].cmd
        BY <2>1, <3>3, <3>5 DEF InTurn, NoReply
      <3> QED
        BY <3>8, <3>9, <3>10 DEF InTurn
    <2> QED
      BY <2>2, <2>3
  <1>6. CASE HbTake
    <2>1. /\ hbReq.uuid \in Uuids /\ hbResp = Empty
          /\ hbResp' = [uuid |-> hbReq.uuid, cmd |-> commands[hbReq.uuid]]
          /\ commands'[hbReq.uuid] = NoCmd
          /\ \A u \in Uuids : u # hbReq.uuid => commands'[u] = commands[u]
          /\ UNCHANGED <<inbox, handled>>
      BY <1>1, <1>6 DEF HbTake, Taken, Prepared, TypeDispatcher, handlers
    <2> QED
      BY <1>2, <2>1 DEF InTurn, NoCmd
  <1>7. CASE HbSend
    <2>1. hbReq # NoReq /\ hbResp' = Empty /\ UNCHANGED <<commands, handled>>
          /\ \A e \in Devs : inbox'[e] = inbox[e] \/ inbox'[e] = hbResp
      BY <1>1, <1>7 DEF HbSend, Answered, TypeServed, TypeHandlers, disp
    <2> QED
      BY <1>2, <2>1 DEF InTurn, Empty, NoCmd
  <1>8. CASE UnSend
    <2>1. /\ UNCHANGED <<commands, hbResp, handled>>
          /\ \A e \in Devs : inbox'[e] = inbox[e] \/ inbox'[e] = [uuid |-> unUuid, cmd |-> NoCmd]
      BY <1>1, <1>8 DEF UnSend, Answered, TypeHandlers, hbt
    <2> QED
      BY <1>3, <2>1
  <1>9. ASSUME NEW u \in Uuids, PostCommand(u) PROVE InTurn'
    <2>1. UNCHANGED <<hbResp, inbox, handled>> /\ commands' \in {Stored(u, posted + 1), commands}
      BY <1>9 DEF PostCommand, hbt, handlers
    <2>2. CASE commands' = commands
      BY <1>3, <2>1, <2>2
    <2>3. CASE commands' = [commands EXCEPT ![u] = posted + 1]
      <3>1. /\ commands'[u] = posted + 1
            /\ \A v \in Uuids : v # u => commands'[v] = commands[v]
        BY <1>1, <2>3 DEF TypeDispatcher
      <3>2. /\ \A i \in DOMAIN handled : handled[i].id < posted + 1
            /\ hbResp.cmd < posted + 1
            /\ \A e \in Devs : inbox[e].cmd < posted + 1
        BY <1>2 DEF Commanded, Answer
      <3> QED
        BY <2>1, <3>1, <3>2 DEF InTurn
    <2> QED
      BY <2>1, <2>2, <2>3 DEF Stored
  <1>10. CASE DispatcherCrash
    <2>1. /\ \A u \in Uuids : commands'[u] = NoCmd
          /\ hbResp' = Empty /\ UNCHANGED <<inbox, handled>>
      BY <1>10 DEF DispatcherCrash, handlers
    <2> QED
      BY <2>1 DEF InTurn, Empty, NoCmd
  <1>11. CASE \/ UNCHANGED vars \/ DispatcherRestart \/ \E u \in Uuids : GrowStale(u)
              \/ \E d \in Devs : UnRecv(d) \/ HbRecv(d)
    BY <1>3, <1>11 DEF vars, DispatcherRestart, GrowStale, UnRecv, HbRecv, disp, hbt, handlers
  <1> QED
    BY <1>4, <1>5, <1>6, <1>7, <1>8, <1>9, <1>10, <1>11, Steps

-----------------------------------------------------------------------------
\* Every part is preserved, given the others.
LEMMA InvStep == IInv /\ [Next]_vars => IInv'
  BY TypeStep, PreparedStep, CommandedStep, OwnSocketStep, IdsStep, InTurnStep DEF IInv, Ids

\* The strengthened invariant from which the properties of the leg follow: a uuid
\* is generated, registered and used by one process, a socket carries the request
\* its handler waits for, and commands move on in the order of the posts.
THEOREM Invariant == Spec => []IInv
  BY InvInit, InvStep, PTL DEF Spec

\* Every variable keeps its range: uuids are not generated without a start of a
\* handler, and an answer in preparation is about the request that is served.
THEOREM Typing == Spec => []TypeOK
  BY Invariant, PTL DEF IInv

\* A uuid names one handler process, however registrations are delayed, given up
\* or lost with a dispatcher that restarts.
THEOREM Owned == Spec => []OneOwner
  BY Invariant, PTL DEF IInv

\* The answer a handler reads belongs to the question it asked last.
THEOREM Matched == Spec => []AnswersMatch
  BY Invariant, PTL DEF IInv

-----------------------------------------------------------------------------
\* The refinement of Mailbox.  A command that was fetched is in the answer of
\* th_heart_beat or on the socket of one handler, and in no other place.
Message(r) == [to |-> r.uuid, id |-> r.cmd]

\* What is in Fetched: the command in the answer of th_heart_beat, and those on
\* the sockets of the handlers.
LEMMA FetchedIs ==
  \A m : m \in Fetched <=> \/ hbResp.cmd > 0 /\ m = Message(hbResp)
                           \/ \E d \in Devs : inbox[d].cmd > 0 /\ m = Message(inbox[d])
  BY DEF Fetched, Message

\* No command is in two of these places: InTurn says so of the answer and a
\* socket, OneOwner of two sockets.
LEMMA OnePlace ==
  ASSUME IInv
  PROVE  /\ \A d \in Devs : hbResp.cmd > 0 /\ inbox[d].cmd > 0 => Message(inbox[d]) # Message(hbResp)
         /\ \A d, e \in Devs :
              inbox[d].cmd > 0 /\ inbox[e].cmd > 0 /\ Message(inbox[d]) = Message(inbox[e]) => d = e
  <1>1. hbResp.cmd \in Int /\ \A d \in Devs : inbox[d].cmd \in Int
    BY Fields DEF IInv
  <1>2. \A d \in Devs : hbResp.cmd > 0 /\ inbox[d].cmd > 0 => Message(inbox[d]) # Message(hbResp)
    <2> SUFFICES ASSUME NEW d \in Devs, hbResp.cmd > 0, Message(inbox[d]) = Message(hbResp)
                 PROVE  FALSE
      OBVIOUS
    <2>1. inbox[d].uuid = hbResp.uuid /\ inbox[d].cmd = hbResp.cmd
      BY DEF Message
    <2>2. inbox[d].cmd < hbResp.cmd
      BY <2>1 DEF IInv, InTurn
    <2> QED
      BY <1>1, <2>1, <2>2
  <1>3. ASSUME NEW d \in Devs, NEW e \in Devs, inbox[d].cmd > 0, inbox[e].cmd > 0,
               Message(inbox[d]) = Message(inbox[e])
        PROVE  d = e
    <2>1. inbox[d].uuid = inbox[e].uuid /\ inbox[d].uuid \in Uuids
      BY <1>3 DEF Message, IInv, Commanded, Answer
    <2>2. inbox[d].uuid # 0
      BY <2>1 DEF Uuids
    <2>3. /\ inbox[d] # NoReply /\ hpc[d] # "unwait"
          /\ inbox[e] # NoReply /\ hpc[e] # "unwait"
      BY <1>1, <1>3 DEF NoReply, IInv, Commanded
    <2>4. uuid[d] = inbox[d].uuid /\ uuid[e] = inbox[e].uuid
      BY <2>1, <2>2, <2>3 DEF IInv, AnswersMatch
    <2> QED
      BY <2>1, <2>2, <2>4 DEF IInv, OneOwner
  <1> QED
    BY <1>2, <1>3

\* A socket that is emptied takes its command, and only that, out of Fetched.
LEMMA Emptied ==
  ASSUME IInv, NEW d \in Devs, hbResp' = hbResp, inbox' = [inbox EXCEPT ![d] = NoReply]
  PROVE  Fetched' = IF inbox[d].cmd > 0 THEN Fetched \ {Message(inbox[d])} ELSE Fetched
  <1>1. /\ inbox'[d].cmd = -1 /\ \A e \in Devs : e # d => inbox'[e] = inbox[e]
    BY DEF IInv, TypeOK, NoReply
  <1>2. \A m : m \in Fetched' <=> \/ hbResp.cmd > 0 /\ m = Message(hbResp)
                                  \/ \E e \in Devs : inbox'[e].cmd > 0 /\ m = Message(inbox'[e])
    BY DEF Fetched, Message
  <1>3. \A m : m \in Fetched' <=>
                 \/ hbResp.cmd > 0 /\ m = Message(hbResp)
                 \/ \E e \in Devs : e # d /\ inbox[e].cmd > 0 /\ m = Message(inbox[e])
    BY <1>1, <1>2
  <1>4. CASE inbox[d].cmd > 0
    <2>1. \A m : m \in Fetched' <=> m \in Fetched /\ m # Message(inbox[d])
      BY <1>3, <1>4, FetchedIs, OnePlace
    <2> QED
      BY <1>4, <2>1
  <1>5. CASE ~(inbox[d].cmd > 0)
    <2>1. \A m : m \in Fetched' <=> m \in Fetched
      BY <1>3, <1>5, FetchedIs
    <2> QED
      BY <1>5, <2>1
  <1> QED
    BY <1>4, <1>5

\* A step that moves no command.
LEMMA MailStutters ==
  ASSUME UNCHANGED <<posted, commands, handled>>, Fetched' = Fetched
  PROVE  [Mail!MailNext]_(Mail!mailvars)
  BY DEF Mail!mailvars

\* A step that only loses a command.
LEMMA MailLoses ==
  ASSUME UNCHANGED <<posted, commands, handled>>, NEW m \in Fetched, Fetched' = Fetched \ {m}
  PROVE  Mail!MailNext
  BY DEF Mail!MailNext, Mail!Lose

\* Nothing is posted, waits or travels at the start.
LEMMA MailInitial == Init => Mail!MailInit
  <1> SUFFICES ASSUME Init PROVE Mail!MailInit
    OBVIOUS
  <1>1. Fetched = {}
    BY FetchedIs DEF Init, Empty, NoReply, NoCmd
  <1> QED
    BY <1>1 DEF Init, Mail!MailInit, NoCmd

\* coms_handler is given the command on its socket: it arrives, and in order.
LEMMA ReceiveArrives ==
  ASSUME IInv, NEW d \in Devs, Receive(d)
  PROVE  [Mail!MailNext]_(Mail!mailvars)
  <1>1. /\ inbox[d] \in Reply /\ hpc[d] = "wait"
        /\ inbox' = [inbox EXCEPT ![d] = NoReply]
        /\ UNCHANGED <<hbResp, posted, commands>>
    BY DEF Receive, IInv, TypeOK, hbt, disp
  <1>2. inbox[d].cmd \in Nat
    BY <1>1, CommandLegAssumption DEF Reply
  <1>3. CASE inbox[d].cmd = NoCmd
    <2>1. handled' = handled
      BY <1>3 DEF Receive
    <2>2. ~(inbox[d].cmd > 0)
      BY <1>3 DEF NoCmd
    <2>3. Fetched' = Fetched
      BY <1>1, <2>2, Emptied
    <2> QED
      BY <1>1, <2>1, <2>3, MailStutters
  <1>4. CASE inbox[d].cmd # NoCmd
    <2> DEFINE m == Message(inbox[d])
    <2>1. inbox[d].cmd > 0
      BY <1>2, <1>4 DEF NoCmd
    <2>2. inbox[d].uuid \in Uuids /\ inbox[d].uuid = uuid[d] /\ inbox[d] # Empty
      BY <1>1, <1>4, <2>1, NoFacts DEF IInv, Commanded, Answer, AnswersMatch, Uuids, Empty, Receive
    <2>3. handled' = Append(handled, m)
      BY <1>4, <2>2 DEF Receive, Addressed, Message
    <2>4. m \in Fetched /\ Fetched' = Fetched \ {m}
      BY <1>1, <2>1, Emptied, FetchedIs
    <2>5. \A i \in DOMAIN handled : handled[i].to = m.to => handled[i].id < m.id
      BY <2>1 DEF IInv, InTurn, Message
    <2> HIDE DEF m
    <2>6. Mail!Arrive(m)
      BY <1>1, <2>3, <2>4, <2>5 DEF Mail!Arrive, Mail!InOrder
    <2> QED
      BY <2>4, <2>6 DEF Mail!MailNext
  <1> QED
    BY <1>3, <1>4

\* The command that waits is fetched.
LEMMA TakeFetches ==
  ASSUME IInv, HbTake
  PROVE  [Mail!MailNext]_(Mail!mailvars)
  <1> DEFINE u == hbReq.uuid
  <1>1. /\ u \in Uuids /\ hbResp = Empty /\ commands \in [Uuids -> 0 .. posted]
        /\ hbResp' = [uuid |-> u, cmd |-> commands[u]]
        /\ commands' = [commands EXCEPT ![u] = NoCmd]
        /\ UNCHANGED <<inbox, posted, handled>>
    BY DEF HbTake, Taken, IInv, Prepared, TypeOK, handlers
  <1>2. hbResp.cmd = 0 /\ posted \in Nat
    BY <1>1, Fields DEF Empty, NoCmd, IInv
  <1>3. Message(hbResp') = [to |-> u, id |-> commands[u]] /\ hbResp'.cmd = commands[u]
    BY <1>1 DEF Message
  <1>4. \A m : m \in Fetched' <=> \/ hbResp'.cmd > 0 /\ m = Message(hbResp')
                                  \/ \E d \in Devs : inbox'[d].cmd > 0 /\ m = Message(inbox'[d])
    BY DEF Fetched, Message
  <1> HIDE DEF u
  <1>5. CASE commands[u] = 0
    <2>1. commands' = commands
      BY <1>1, <1>5 DEF NoCmd
    <2>2. \A m : m \in Fetched' <=> m \in Fetched
      BY <1>1, <1>2, <1>3, <1>4, <1>5, FetchedIs
    <2> QED
      BY <1>1, <2>1, <2>2, MailStutters
  <1>6. CASE commands[u] # 0
    <2>1. commands[u] > 0
      BY <1>1, <1>2, <1>6
    <2>2. \A m : m \in Fetched' <=> m \in Fetched \/ m = [to |-> u, id |-> commands[u]]
      BY <1>1, <1>2, <1>3, <1>4, <2>1, FetchedIs
    <2>3. Mail!Fetch(u)
      BY <1>1, <1>6, <2>2 DEF Mail!Fetch, NoCmd
    <2> QED
      BY <1>1, <2>3 DEF Mail!MailNext
  <1> QED
    BY <1>5, <1>6

\* The answer reaches its socket, or what is in it is lost.
LEMMA SendDelivers ==
  ASSUME IInv, HbSend
  PROVE  [Mail!MailNext]_(Mail!mailvars)
  <1>1. /\ hbResp' = Empty /\ inbox' = Answered(hbReq, hbResp)
        /\ hbReq \in Beats /\ hbReq.dev \in Devs /\ hbReq # NoReq
        /\ UNCHANGED <<posted, commands, handled>>
    BY Fields DEF HbSend, IInv, TypeOK, disp
  <1>2. \A m : m \in Fetched' <=> \/ hbResp'.cmd > 0 /\ m = Message(hbResp')
                                  \/ \E d \in Devs : inbox'[d].cmd > 0 /\ m = Message(inbox'[d])
    BY DEF Fetched, Message
  <1>3. \A m : m \in Fetched' <=> \E d \in Devs : inbox'[d].cmd > 0 /\ m = Message(inbox'[d])
    BY <1>1, <1>2 DEF Empty, NoCmd
  <1>4. CASE inbox' = [inbox EXCEPT ![hbReq.dev] = hbResp] /\ sock[hbReq.dev] = hbReq.sock
    <2> DEFINE e == hbReq.dev
    <2>1. inbox[e] = NoReply
      BY <1>1, <1>4 DEF IInv, OwnSocket
    <2>2. ~(inbox[e].cmd > 0)
      BY <2>1 DEF NoReply
    <2>3. inbox'[e] = hbResp /\ \A d \in Devs : d # e => inbox'[d] = inbox[d]
      BY <1>1, <1>4 DEF IInv, TypeOK
    <2>4. e \in Devs
      BY <1>1
    <2> HIDE DEF e
    <2>5. \A m : m \in Fetched' <=> m \in Fetched
      BY <1>3, <2>2, <2>3, <2>4, FetchedIs
    <2> QED
      BY <1>1, <2>5, MailStutters
  <1>5. CASE inbox' = inbox
    <2>1. CASE hbResp.cmd > 0
      <3>1. Message(hbResp) \in Fetched
        BY <2>1, FetchedIs
      <3>2. \A m : m \in Fetched' <=> m \in Fetched /\ m # Message(hbResp)
        BY <1>3, <1>5, <2>1, FetchedIs, OnePlace
      <3>3. Fetched' = Fetched \ {Message(hbResp)}
        BY <3>2
      <3> QED
        BY <1>1, <3>1, <3>3, MailLoses
    <2>2. CASE ~(hbResp.cmd > 0)
      <3>1. \A m : m \in Fetched' <=> m \in Fetched
        BY <1>3, <1>5, <2>2, FetchedIs
      <3> QED
        BY <1>1, <3>1, MailStutters
    <2> QED
      BY <2>1, <2>2
  <1> QED
    BY <1>1, <1>4, <1>5 DEF Answered

\* A command that is posted waits, or is discarded.
LEMMA PostKeeps ==
  ASSUME IInv, NEW u \in Uuids, PostCommand(u)
  PROVE  Mail!MailNext
  <1>1. /\ posted < MaxPosts /\ posted' = posted + 1
        /\ commands' \in {Stored(u, posted + 1), commands}
        /\ UNCHANGED <<hbResp, inbox, handled>>
    BY DEF PostCommand, hbt, handlers
  <1>2. Fetched' = Fetched
    BY <1>1 DEF Fetched
  <1>3. CASE commands' = commands
    BY <1>1, <1>2, <1>3 DEF Mail!MailNext, Mail!Discard
  <1>4. CASE commands[u] = NoCmd /\ commands' = [commands EXCEPT ![u] = posted + 1]
    <2>1. Mail!Keep(u)
      BY <1>1, <1>2, <1>4 DEF Mail!Keep, NoCmd
    <2> QED
      BY <2>1 DEF Mail!MailNext
  <1> QED
    BY <1>1, <1>3, <1>4 DEF Stored

\* Every step of the leg is one of the mailbox, or none.
LEMMA MailStep == IInv /\ [Next]_vars => [Mail!MailNext]_(Mail!mailvars)
  <1> SUFFICES ASSUME IInv, [Next]_vars PROVE [Mail!MailNext]_(Mail!mailvars)
    OBVIOUS
  <1>1. ASSUME UNCHANGED <<posted, commands, handled, hbResp, inbox>>
        PROVE  [Mail!MailNext]_(Mail!mailvars)
    <2>1. Fetched' = Fetched
      BY <1>1 DEF Fetched
    <2> QED
      BY <1>1, <2>1, MailStutters
  <1>2. ASSUME NEW d \in Devs, \/ Register(d) \/ Unregistered(d) \/ Beat(d) \/ Timeout(d)
                               \/ Reconnect(d) \/ UnRecv(d) \/ HbRecv(d)
        PROVE  [Mail!MailNext]_(Mail!mailvars)
    BY <1>1, <1>2 DEF Register, Unregistered, Beat, Timeout, Reconnect, UnRecv, HbRecv,
                      disp, hbt, handlers
  <1>3. CASE UNCHANGED vars \/ DispatcherRestart \/ \E u \in Uuids : GrowStale(u)
    BY <1>1, <1>3 DEF vars, DispatcherRestart, GrowStale, disp, hbt, handlers
  <1>4. ASSUME NEW d \in Devs, Registered(d) \/ Exit(d)
        PROVE  [Mail!MailNext]_(Mail!mailvars)
    <2>1. /\ UNCHANGED <<posted, commands, handled, hbResp>>
          /\ inbox' = [inbox EXCEPT ![d] = NoReply]
      BY <1>4 DEF Registered, Exit, disp, hbt
    <2>2. CASE inbox[d].cmd > 0
      BY <2>1, <2>2, Emptied, FetchedIs, MailLoses
    <2>3. CASE ~(inbox[d].cmd > 0)
      BY <2>1, <2>3, Emptied, MailStutters
    <2> QED
      BY <2>2, <2>3
  <1>5. CASE UnSend
    <2>1. /\ UNCHANGED <<posted, commands, handled, hbResp>>
          /\ unReq \in Regs /\ unReq.dev \in Devs
          /\ inbox' = Answered(unReq, [uuid |-> unUuid, cmd |-> NoCmd])
      BY <1>5, Fields DEF UnSend, IInv, hbt
    <2>2. \A d \in Devs : \/ inbox'[d] = inbox[d]
                          \/ ~(inbox'[d].cmd > 0) /\ ~(inbox[d].cmd > 0)
      <3>1. CASE unReq.sock = sock[unReq.dev]
        <4>1. inbox[unReq.dev] = NoReply
          BY <2>1, <3>1 DEF IInv, OwnSocket
        <4> QED
          BY <2>1, <4>1 DEF Answered, NoReply, NoCmd, IInv, TypeOK
      <3>2. CASE unReq.sock # sock[unReq.dev]
        BY <2>1, <3>2 DEF Answered
      <3> QED
        BY <3>1, <3>2
    <2>3. \A m : m \in Fetched' <=> \/ hbResp.cmd > 0 /\ m = Message(hbResp)
                                    \/ \E d \in Devs : inbox'[d].cmd > 0 /\ m = Message(inbox'[d])
      BY <2>1 DEF Fetched, Message
    <2>4. \A m : m \in Fetched' <=> m \in Fetched
      BY <2>2, <2>3, FetchedIs
    <2> QED
      BY <2>1, <2>4, MailStutters
  <1>6. CASE DispatcherCrash
    <2>1. /\ commands' = [u \in Uuids |-> 0] /\ hbResp' = Empty
          /\ UNCHANGED <<posted, handled, inbox>>
      BY <1>6 DEF DispatcherCrash, handlers, NoCmd
    <2>2. \A m : m \in Fetched' <=> \/ hbResp'.cmd > 0 /\ m = Message(hbResp')
                                    \/ \E d \in Devs : inbox'[d].cmd > 0 /\ m = Message(inbox'[d])
      BY DEF Fetched, Message
    <2>3. \A m : m \in Fetched' => m \in Fetched
      BY <2>1, <2>2, FetchedIs DEF Empty, NoCmd
    <2>4. Mail!Forget
      BY <2>1, <2>3 DEF Mail!Forget
    <2> QED
      BY <2>4 DEF Mail!MailNext
  <1> QED
    BY <1>2, <1>3, <1>4, <1>5, <1>6, ReceiveArrives, TakeFetches, SendDelivers, PostKeeps, Steps

\* The leg implements the mailbox: whatever times out, is lost or restarts, a
\* command reaches its own handler, at most once, and in the order of the posts.
THEOREM Implements == Spec => ImplementsMailbox
  BY MailInitial, MailStep, Invariant, PTL DEF Spec, ImplementsMailbox, Mail!MailSpec
=============================================================================
