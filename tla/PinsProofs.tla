---------------------------- MODULE PinsProofs -----------------------------
(***************************************************************************)
(* Proofs about Pins, for any number of pins and any configurations, levels *)
(* that can be read or not.                                                 *)
(***************************************************************************)
EXTENDS Pins, SequenceTheorems, TLAPS

\* The batch holds interrupting pins that have something to be read.
BatchIsReady ==
  \A p \in batch \ {Timer} : Interrupting(p) /\ (~Sysfs(p) => queue[p] # <<>>)

\* Only edges that were asked for raise an interrupt.
RaisedByEdge == \A p \in Pin : raised[p] => Interrupting(p)

\* Only the other pins are polled.
PollsOthers == \A i \in todo : ~Interrupting(gp_list[i])

\* Before the loop nothing is dispatched, and of a pin whose turn to be
\* initialised has not come nothing is known.
SilentStart ==
  pc = "init" =>
    /\ packet = NoPacket
    /\ found = NothingFound
    /\ \A i \in DOMAIN gp_list : i >= next => value_[gp_list[i]] = -1

\* A packet says what is believed of its pin.
PacketIsCurrent ==
  packet # NoPacket =>
    /\ packet.pin \in Pin
    /\ packet.value = value_[packet.pin]

\* The edge a turn has found leads to what is believed of its pin.
FoundIsCurrent == found.of \in Pin => found.edge = EdgeTo(value_[found.of])

IInv ==
  /\ TypeOK /\ RaisedByEdge /\ BatchIsReady /\ PollsOthers
  /\ SilentStart /\ PacketIsCurrent /\ FoundIsCurrent /\ PacketIsOwn

-----------------------------------------------------------------------------
(***************************************************************************)
(* Lemmas about the operators.                                              *)
(***************************************************************************)
\* What the configuration gives each pin.
LEMMA Configured ==
  ASSUME conf \in Configs, NEW p \in Pin
  PROVE  /\ Edge[p] \in {"RISING", "FALLING", "BOTH", "POLLED", "MAX"}
         /\ Facility[p] \in {"SYSFS", "UAPI"}
         /\ ReadsFail \in BOOLEAN
BY PinsAssumption DEF PinsAssumption, Edge, Facility, ReadsFail

LEMMA Placed ==
  /\ DOMAIN gp_list = 1..Len(gp_list) /\ Len(gp_list) \in Nat
  /\ \A i \in DOMAIN gp_list : gp_list[i] \in Pin
  /\ \A i, j \in DOMAIN gp_list : gp_list[i] = gp_list[j] => i = j
BY PinsAssumption DEF PinsAssumption

LEMMA PinAtNext ==
  ASSUME TypeOK, next <= Len(gp_list)
  PROVE  next \in DOMAIN gp_list /\ gp_list[next] \in Pin
<1>1. next \in 1..(Len(gp_list) + 1)
  BY DEF TypeOK
<1>2. next \in 1..Len(gp_list)
  BY <1>1, Placed
<1> QED
  BY <1>2, Placed

\* What changed() may answer: of a pin found unchanged the value stays, and an
\* answer that is neither that nor a failure names the pin and its edge.
ChangeOf(p, r) == r.found.of = p /\ r.found.edge = EdgeTo(r.value)

LEMMA ReadingsTyped ==
  ASSUME TypeOK, NEW p \in Pin, NEW r \in Readings(p)
  PROVE  /\ r.ret \in -1..1 /\ r.value \in -1..1 /\ r.found \in Found
         /\ r.ret # 1 => r.value = value_[p] /\ r.found = found
         /\ r.ret = 0 => Sysfs(p) \/ Edge[p] = "POLLED"
         /\ r.ret = 1 => ChangeOf(p, r)
         /\ r.ret = -1 => ReadsFail \/ (~Sysfs(p) /\ Edge[p] # "POLLED" /\ queue[p] = <<>>)
         /\ (Sysfs(p) \/ Edge[p] = "POLLED") /\ r.ret = 1 => r.value # value_[p] \/ ReadsFail
<1>1. CASE Sysfs(p) \/ Edge[p] = "POLLED"
  <2>1. PICK v \in ReadValue(p) : r = sysfs_changed_value(p, v)
    BY <1>1 DEF Readings
  <2>2. v \in -1..1 /\ (v = -1 => ReadsFail) /\ value_[p] \in -1..1 /\ found \in Found
    BY DEF TypeOK, ReadValue
  <2> QED
    BY <1>1, <2>1, <2>2 DEF sysfs_changed_value, Failed, Same, Changed, Found, EdgeTo, ChangeOf
<1>2. CASE ~(Sysfs(p) \/ Edge[p] = "POLLED")
  <2>1. r = UapiEvent(p)
    BY <1>2 DEF Readings
  <2>2. value_[p] \in -1..1 /\ found \in Found /\ queue[p] \in Seq({"RISING", "FALLING"})
    BY DEF TypeOK
  <2>3. queue[p] # <<>> => Head(queue[p]) \in {"RISING", "FALLING"}
    BY <2>2
  <2> QED
    BY <1>2, <2>1, <2>2, <2>3 DEF UapiEvent, Failed, Changed, Found, EdgeTo, ChangeOf
<1> QED
  BY <1>1, <1>2

LEMMA ConsumeTyped ==
  ASSUME TypeOK, NEW p \in Pin, Consume(p)
  PROVE  /\ notified' \in [Pin -> BOOLEAN]
         /\ queue' \in [Pin -> Seq({"RISING", "FALLING"})]
         /\ \A q \in Pin : Len(queue'[q]) <= KFifo
         /\ \A q \in Pin : q # p => queue'[q] = queue[q]
<1> DEFINE Q == Seq({"RISING", "FALLING"})
           new == IF Sysfs(p) \/ Edge[p] = "POLLED" \/ queue[p] = <<>> THEN queue[p] ELSE Tail(queue[p])
<1>1. queue \in [Pin -> Q] /\ notified \in [Pin -> BOOLEAN] /\ Len(queue[p]) <= KFifo /\ KFifo \in Nat
  BY PinsAssumption DEF TypeOK, PinsAssumption
<1>2. queue[p] # <<>> => Tail(queue[p]) \in Q /\ Len(Tail(queue[p])) = Len(queue[p]) - 1
  BY <1>1, HeadTailProperties
<1>3. Len(queue[p]) \in Nat
  BY <1>1
<1>4. new \in Q /\ Len(new) <= KFifo
  BY <1>1, <1>2, <1>3
<1>5. queue' = [queue EXCEPT ![p] = new] /\ notified' = [notified EXCEPT ![p] = FALSE]
  BY DEF Consume
<1> HIDE DEF new, Q
<1>6. queue' \in [Pin -> Q] /\ \A q \in Pin : queue'[q] = IF q = p THEN new ELSE queue[q]
  BY <1>1, <1>4, <1>5
<1>7. notified' \in [Pin -> BOOLEAN]
  BY <1>1, <1>5
<1>8. \A q \in Pin : Len(queue'[q]) <= KFifo
  BY <1>4, <1>6 DEF TypeOK
<1> QED
  BY <1>6, <1>7, <1>8 DEF Q

-----------------------------------------------------------------------------
LEMMA InitIInv == Init => IInv
<1> SUFFICES ASSUME Init PROVE IInv
  OBVIOUS
<1>1. Len(gp_list) \in Nat /\ KFifo \in Nat /\ NoPin \notin Pin
  BY PinsAssumption DEF PinsAssumption
<1>2. NoPacket \in [pin : Pin \cup {NoPin}, value : -1..1, found : Found]
  BY DEF NoPacket, NothingFound, Found
<1>3. packet = NoPacket /\ found \in Found
  BY DEF Init, Found, NothingFound
<1>4. queue \in [Pin -> Seq({"RISING", "FALLING"})] /\ \A p \in Pin : Len(queue[p]) <= KFifo
  BY <1>1 DEF Init
<1>5. next \in 1..(Len(gp_list) + 1)
  BY <1>1 DEF Init
<1>6. TypeOK
  <2>1. /\ conf \in Configs /\ level \in [Pin -> 0..1] /\ tick \in BOOLEAN
        /\ lost \in [Pin -> BOOLEAN] /\ unarmed \subseteq Pin /\ raised \in [Pin -> BOOLEAN] /\ notified \in [Pin -> BOOLEAN]
    BY DEF Init
  <2>2. armed \in [Pin -> BOOLEAN] /\ dropped \subseteq Pin /\ value_ \in [Pin -> -1..1]
    BY DEF Init
  <2>3. /\ pc \in {"init", "wait", "batch", "poll"}
        /\ batch \subseteq Pin \cup {Timer} /\ todo \subseteq DOMAIN gp_list
    BY DEF Init
  <2> QED
    BY <1>2, <1>3, <1>4, <1>5, <2>1, <2>2, <2>3 DEF TypeOK
<1>7. RaisedByEdge /\ BatchIsReady /\ PollsOthers /\ PacketIsCurrent /\ FoundIsCurrent /\ PacketIsOwn
  BY <1>1 DEF Init, RaisedByEdge, BatchIsReady, PollsOthers, PacketIsCurrent, FoundIsCurrent, PacketIsOwn,
     Sent, NothingFound
<1>8. SilentStart
  BY Placed DEF Init, SilentStart
<1> QED
  BY <1>6, <1>7, <1>8 DEF IInv

-----------------------------------------------------------------------------
(***************************************************************************)
(* The steps.                                                               *)
(***************************************************************************)
Packet == [pin : Pin \cup {NoPin}, value : -1..1, found : Found]

LEMMA NoPacketTyped == NoPacket \in Packet
BY DEF NoPacket, NothingFound, Found, Packet

\* What a reading that is dispatched, or found spurious, leaves behind.
LEMMA ServeIInv ==
  ASSUME IInv, NEW p \in Pin, NEW r \in Readings(p), Store(p, r), conf' = conf,
         \/ packet' = NoPacket
         \/ Dispatch(p, r) /\ (r.ret # 1 => FindsNothing(p))
  PROVE  /\ value_' \in [Pin -> -1..1] /\ found' \in Found /\ packet' \in Packet
         /\ PacketIsCurrent' /\ FoundIsCurrent' /\ PacketIsOwn'
<1>1. r.value \in -1..1 /\ r.found \in Found /\ (r.ret = 1 => ChangeOf(p, r))
      /\ (r.ret # 1 => r.value = value_[p] /\ r.found = found)
  BY ReadingsTyped DEF IInv
<1>2. value_' \in [Pin -> -1..1] /\ value_'[p] = r.value /\ found' = r.found /\ found' \in Found
      /\ \A q \in Pin : q # p => value_'[q] = value_[q]
  BY <1>1 DEF Store, IInv, TypeOK
<1>3. FoundIsCurrent'
  <2>1. CASE r.ret = 1
    BY <1>1, <1>2, <2>1 DEF ChangeOf, FoundIsCurrent, EdgeTo
  <2>2. CASE r.ret # 1
    <3>1. found' = found /\ \A q \in Pin : value_'[q] = value_[q]
      BY <1>1, <1>2, <2>2
    <3> QED
      BY <3>1 DEF IInv, FoundIsCurrent, EdgeTo
  <2> QED
    BY <2>1, <2>2
<1>4. CASE packet' = NoPacket
  <2>1. NoPacket \in Packet
    BY NoPacketTyped
  <2>2. PacketIsCurrent' /\ PacketIsOwn'
    BY <1>4 DEF PacketIsCurrent, PacketIsOwn, Sent
  <2> QED
    BY <1>2, <1>3, <1>4, <2>1, <2>2
<1>5. CASE Dispatch(p, r) /\ (r.ret # 1 => FindsNothing(p))
  <2>1. packet' = [pin |-> p, value |-> r.value, found |-> r.found]
    BY <1>5 DEF Dispatch
  <2>2. packet' \in Packet
    BY <1>1, <2>1 DEF Packet
  <2>3. PacketIsCurrent'
    BY <1>2, <2>1 DEF PacketIsCurrent
  <2>4. ASSUME NEW q \in Pin, Sent(q)'
        PROVE  IF packet'.found.of = q THEN packet'.found.edge = EdgeTo(packet'.value)
               ELSE FindsNothing(q)'
    <3>1. q = p
      BY <2>1, <2>4 DEF Sent
    <3>2. CASE r.found.of = p
      <4>1. r.found.edge = EdgeTo(r.value)
        BY <1>2, <1>3, <3>2 DEF FoundIsCurrent, EdgeTo
      <4> QED
        BY <2>1, <3>1, <3>2, <4>1
    <3>3. CASE r.found.of # p
      <4>1. FindsNothing(p)
        BY <1>1, <1>5, <3>3 DEF ChangeOf
      <4> QED
        BY <2>1, <3>1, <3>3, <4>1 DEF FindsNothing, ReadsFail, Edge, Sysfs, Facility, Interrupting
    <3> QED
      BY <3>2, <3>3
  <2>5. PacketIsOwn'
    BY <2>4 DEF PacketIsOwn, EdgeTo
  <2> QED
    BY <1>2, <1>3, <2>2, <2>3, <2>5
<1> QED
  BY <1>4, <1>5

LEMMA HandlePinIInv ==
  ASSUME IInv, NEW p \in Pin, HandlePin(p)
  PROVE  IInv'
<1>1. pc = "batch" /\ p \in batch /\ batch' = batch \ {p} /\ Consume(p)
      /\ UNCHANGED <<conf, level, raised, lost, tick, armed, unarmed, dropped, pc, next, todo>>
  BY DEF HandlePin
<1>2. PICK r \in Readings(p) :
        Store(p, r) /\ IF Spurious(p, r) THEN packet' = NoPacket ELSE Dispatch(p, r)
  BY DEF HandlePin
<1>3. p # Timer
  BY PinsAssumption DEF PinsAssumption, Timer
<1>4. Interrupting(p) /\ (~Sysfs(p) => queue[p] # <<>>)
  BY <1>1, <1>3 DEF IInv, BatchIsReady
<1>5. ASSUME ~Spurious(p, r), r.ret # 1 PROVE FindsNothing(p)
  <2>1. r.ret = 0 => FindsNothing(p)
    BY <1>4, <1>5, ReadingsTyped DEF IInv, Spurious, FindsNothing, Interrupting
  <2>2. r.ret = -1 => FindsNothing(p)
    BY <1>4, <1>5, ReadingsTyped DEF IInv, FindsNothing
  <2> QED
    BY <1>5, <2>1, <2>2, ReadingsTyped DEF IInv
<1>6. /\ value_' \in [Pin -> -1..1] /\ found' \in Found /\ packet' \in Packet
      /\ PacketIsCurrent' /\ FoundIsCurrent' /\ PacketIsOwn'
  BY <1>1, <1>2, <1>5, ServeIInv
<1>7. /\ notified' \in [Pin -> BOOLEAN]
      /\ queue' \in [Pin -> Seq({"RISING", "FALLING"})]
      /\ \A q \in Pin : Len(queue'[q]) <= KFifo
      /\ \A q \in Pin : q # p => queue'[q] = queue[q]
  BY <1>1, ConsumeTyped DEF IInv
<1>8. TypeOK'
  BY <1>1, <1>6, <1>7 DEF IInv, TypeOK, Packet
<1>9. BatchIsReady'
  <2> SUFFICES ASSUME NEW q \in batch', q # Timer
               PROVE  Interrupting(q)' /\ (~Sysfs(q)' => queue'[q] # <<>>)
    BY DEF BatchIsReady
  <2>1. q \in Pin /\ q # p /\ q \in batch
    BY <1>1 DEF IInv, TypeOK
  <2> QED
    BY <1>1, <1>7, <2>1 DEF IInv, BatchIsReady, Interrupting, Edge, Sysfs, Facility
<1>10. RaisedByEdge' /\ PollsOthers' /\ SilentStart'
  BY <1>1 DEF IInv, RaisedByEdge, PollsOthers, SilentStart, Interrupting, Edge
<1> QED
  BY <1>6, <1>8, <1>9, <1>10 DEF IInv

LEMMA PollIInv ==
  ASSUME IInv, Poll
  PROVE  IInv'
<1>1. pc = "poll" /\ UNCHANGED <<conf, level, raised, lost, tick, armed, unarmed, dropped, pc, next, batch>>
  BY DEF Poll
<1>2. PICK i \in todo :
        /\ todo' = todo \ {i}
        /\ Consume(gp_list[i])
        /\ \E r \in Readings(gp_list[i]) :
             /\ Store(gp_list[i], r)
             /\ IF r.ret = 0 THEN packet' = NoPacket ELSE Dispatch(gp_list[i], r)
  BY DEF Poll
<1> DEFINE p == gp_list[i]
<1>3. p \in Pin /\ ~Interrupting(p)
  BY Placed DEF IInv, TypeOK, PollsOthers
<1>4. PICK r \in Readings(p) :
        Store(p, r) /\ IF r.ret = 0 THEN packet' = NoPacket ELSE Dispatch(p, r)
  BY <1>2
<1> HIDE DEF p
<1>5. ASSUME r.ret # 0, r.ret # 1 PROVE FindsNothing(p)
  <2>1. r.ret = -1
    BY <1>3, <1>5, ReadingsTyped DEF IInv
  <2> QED
    BY <1>3, <2>1, ReadingsTyped DEF IInv, FindsNothing
<1>6. /\ value_' \in [Pin -> -1..1] /\ found' \in Found /\ packet' \in Packet
      /\ PacketIsCurrent' /\ FoundIsCurrent' /\ PacketIsOwn'
  BY <1>1, <1>3, <1>4, <1>5, ServeIInv
<1>7. /\ notified' \in [Pin -> BOOLEAN]
      /\ queue' \in [Pin -> Seq({"RISING", "FALLING"})]
      /\ \A q \in Pin : Len(queue'[q]) <= KFifo
      /\ \A q \in Pin : q # p => queue'[q] = queue[q]
  BY <1>2, <1>3, ConsumeTyped DEF IInv, p
<1>8. TypeOK'
  BY <1>1, <1>2, <1>6, <1>7 DEF IInv, TypeOK, Packet
<1>9. BatchIsReady'
  <2> SUFFICES ASSUME NEW q \in batch', q # Timer
               PROVE  Interrupting(q)' /\ (~Sysfs(q)' => queue'[q] # <<>>)
    BY DEF BatchIsReady
  <2>1. q \in Pin /\ q \in batch /\ Interrupting(q)
    BY <1>1 DEF IInv, TypeOK, BatchIsReady
  <2>2. q # p
    BY <1>3, <2>1
  <2> QED
    BY <1>1, <1>7, <2>1, <2>2 DEF IInv, BatchIsReady, Interrupting, Edge, Sysfs, Facility
<1>10. RaisedByEdge' /\ PollsOthers' /\ SilentStart'
  BY <1>1, <1>2 DEF IInv, RaisedByEdge, PollsOthers, SilentStart, Interrupting, Edge
<1> QED
  BY <1>6, <1>8, <1>9, <1>10 DEF IInv

\* Of the pin whose turn it is nothing is known before, and its turn comes once.
LEMMA InitialValueIInv ==
  ASSUME IInv, InitialValue
  PROVE  IInv'
<1> DEFINE p == gp_list[next]
<1>1. /\ pc = "init" /\ next <= Len(gp_list) /\ next' = next + 1
      /\ notified' = [notified EXCEPT ![p] = FALSE]
      /\ UNCHANGED <<conf, level, raised, queue, lost, tick, armed, unarmed, dropped, pc, batch, todo, found, packet>>
  BY DEF InitialValue, Initialising
<1>2. PICK v \in ReadValue(p) : value_' = [value_ EXCEPT ![p] = v]
  BY DEF InitialValue
<1>3. next \in DOMAIN gp_list /\ p \in Pin
  BY <1>1, PinAtNext DEF IInv
<1>4. v \in -1..1
  <2>1. v = level[p] \/ v = -1
    BY <1>2 DEF ReadValue
  <2>2. level[p] \in 0..1
    BY <1>3 DEF IInv, TypeOK
  <2> QED
    BY <2>1, <2>2
<1>5. next' \in 1..(Len(gp_list) + 1)
  BY <1>1, Placed DEF IInv, TypeOK
<1>6. TypeOK'
  BY <1>1, <1>2, <1>3, <1>4, <1>5 DEF IInv, TypeOK
<1>7. SilentStart'
  <2> SUFFICES ASSUME NEW i \in DOMAIN gp_list, i >= next' PROVE value_'[gp_list[i]] = -1
    BY <1>1 DEF IInv, SilentStart
  <2>1. i >= next /\ i # next
    BY <1>1, Placed DEF IInv, TypeOK
  <2>2. gp_list[i] # p /\ gp_list[i] \in Pin
    BY <1>3, <2>1, Placed
  <2> QED
    BY <1>1, <1>2, <2>1, <2>2 DEF IInv, SilentStart, TypeOK
<1>8. RaisedByEdge' /\ BatchIsReady' /\ PollsOthers'
  BY <1>1 DEF IInv, RaisedByEdge, BatchIsReady, PollsOthers, Interrupting, Sysfs, Facility, Edge
<1>9. PacketIsCurrent' /\ FoundIsCurrent' /\ PacketIsOwn'
  BY <1>1, PinsAssumption DEF PinsAssumption, IInv, SilentStart, PacketIsCurrent, FoundIsCurrent, PacketIsOwn,
     Sent, NothingFound
<1> QED
  BY <1>6, <1>7, <1>8, <1>9 DEF IInv

\* The kernel takes nothing out of a queue.
LEMMA IrqThreadIInv ==
  ASSUME IInv, NEW p \in Pin, IrqThread(p)
  PROVE  IInv'
<1> DEFINE Q == Seq({"RISING", "FALLING"})
           new == IF Sysfs(p) \/ Len(queue[p]) = KFifo THEN queue[p] ELSE Append(queue[p], EventId(p))
<1>1. /\ raised' = [raised EXCEPT ![p] = FALSE]
      /\ notified' = [notified EXCEPT ![p] = @ \/ Sysfs(p)]
      /\ queue' = [queue EXCEPT ![p] = new]
      /\ lost' = [lost EXCEPT ![p] = Len(queue[p]) = KFifo]
      /\ UNCHANGED <<conf, level, tick, armed, unarmed, dropped, value_, pc, next, batch, todo, found, packet>>
  BY DEF IrqThread, pinVars, loopVars
<1>2. queue \in [Pin -> Q] /\ Len(queue[p]) <= KFifo /\ KFifo \in Nat /\ Len(queue[p]) \in Nat
  <2>1. queue \in [Pin -> Q] /\ Len(queue[p]) <= KFifo /\ KFifo \in Nat
    BY PinsAssumption DEF IInv, TypeOK, PinsAssumption
  <2>2. queue[p] \in Q
    BY <2>1
  <2> QED
    BY <2>1, <2>2
<1>3. new \in Q /\ Len(new) <= KFifo /\ (queue[p] # <<>> => new # <<>>)
  <2>1. CASE new = queue[p]
    BY <1>2, <2>1
  <2>2. CASE new # queue[p]
    <3>1. new = Append(queue[p], EventId(p)) /\ Len(queue[p]) # KFifo /\ ~Sysfs(p)
      BY <2>2
    <3>2. Interrupting(p) /\ level[p] \in 0..1
      BY DEF IInv, RaisedByEdge, IrqThread, TypeOK
    <3>3. EventId(p) \in {"RISING", "FALLING"}
      BY <3>2 DEF Interrupting, EventId, EdgeTo
    <3>4. Append(queue[p], EventId(p)) \in Q /\ Len(Append(queue[p], EventId(p))) = Len(queue[p]) + 1
      BY <1>2, <3>3
    <3> QED
      BY <1>2, <3>1, <3>4
  <2> QED
    BY <2>1, <2>2
<1> HIDE DEF new, Q
<1>4. queue' \in [Pin -> Q] /\ \A q \in Pin : queue'[q] = IF q = p THEN new ELSE queue[q]
  BY <1>1, <1>2, <1>3
<1>5. \A q \in Pin : Len(queue'[q]) <= KFifo
  BY <1>3, <1>4 DEF IInv, TypeOK
<1>6. Sysfs(p) \in BOOLEAN /\ (Len(queue[p]) = KFifo) \in BOOLEAN
  BY DEF Sysfs
<1>7. notified' \in [Pin -> BOOLEAN] /\ raised' \in [Pin -> BOOLEAN] /\ lost' \in [Pin -> BOOLEAN]
  BY <1>1, <1>6 DEF IInv, TypeOK
<1>8. queue' \in [Pin -> Seq({"RISING", "FALLING"})]
  BY <1>4 DEF Q
<1>9. TypeOK'
  BY <1>1, <1>5, <1>7, <1>8 DEF IInv, TypeOK
<1>10. RaisedByEdge' /\ PollsOthers' /\ SilentStart'
  BY <1>1 DEF IInv, TypeOK, RaisedByEdge, PollsOthers, SilentStart, Interrupting, Edge
<1>11. BatchIsReady'
  <2> SUFFICES ASSUME NEW q \in batch', q # Timer
               PROVE  Interrupting(q)' /\ (~Sysfs(q)' => queue'[q] # <<>>)
    BY DEF BatchIsReady
  <2>1. q \in Pin /\ q \in batch /\ Interrupting(q) /\ (~Sysfs(q) => queue[q] # <<>>)
    BY <1>1 DEF IInv, TypeOK, BatchIsReady
  <2>2. queue[q] # <<>> => queue'[q] # <<>>
    BY <1>3, <1>4, <2>1
  <2> QED
    BY <1>1, <2>1, <2>2 DEF Interrupting, Edge, Sysfs, Facility
<1>12. PacketIsCurrent' /\ FoundIsCurrent' /\ PacketIsOwn'
  BY <1>1 DEF IInv, PacketIsCurrent, FoundIsCurrent, PacketIsOwn, Sent, FindsNothing, ReadsFail, Edge,
              Sysfs, Facility, Interrupting, EdgeTo
<1> QED
  BY <1>9, <1>10, <1>11, <1>12 DEF IInv

LEMMA FlipIInv ==
  ASSUME IInv, NEW p \in Pin, Flip(p)
  PROVE  IInv'
<1>1. /\ level' = [level EXCEPT ![p] = 1 - @]
      /\ raised' = [raised EXCEPT ![p] = @ \/ (armed[p] /\ Triggers(p))]
      /\ UNCHANGED <<conf, notified, queue, lost, tick, armed, unarmed, dropped, value_, pc, next, batch, todo, found,
                   packet>>
  BY DEF Flip, pinVars, loopVars
<1>2. level[p] \in 0..1 /\ 1 - level[p] \in 0..1
  BY DEF IInv, TypeOK
<1>3. Triggers(p) \in BOOLEAN /\ (Triggers(p) => Interrupting(p))
  BY DEF Triggers, eventflags, sysfs_set_edge, Interrupting
<1>4. TypeOK'
  BY <1>1, <1>2, <1>3 DEF IInv, TypeOK
<1>5. RaisedByEdge'
  BY <1>1, <1>3 DEF IInv, TypeOK, RaisedByEdge, Interrupting, Edge
<1>6. BatchIsReady' /\ PollsOthers' /\ SilentStart'
  BY <1>1 DEF IInv, BatchIsReady, PollsOthers, SilentStart, Interrupting, Edge, Sysfs, Facility
<1>7. PacketIsCurrent' /\ FoundIsCurrent' /\ PacketIsOwn'
  BY <1>1 DEF IInv, PacketIsCurrent, FoundIsCurrent, PacketIsOwn, Sent, FindsNothing, ReadsFail, Edge,
              Sysfs, Facility, Interrupting, EdgeTo
<1> QED
  BY <1>4, <1>5, <1>6, <1>7 DEF IInv

\* The other steps read no pin, and dispatch nothing.
LEMMA QuietIInv ==
  ASSUME IInv,
         \/ SetEdge \/ InitFails \/ StartLoop \/ EpollWait \/ HandleTimer
         \/ PollDone \/ TurnDone \/ Expire \/ UNCHANGED vars
  PROVE  IInv'
<1>1. UNCHANGED <<conf, level, raised, notified, queue, lost, value_>> /\ tick' \in {tick, TRUE, FALSE}
  BY DEF SetEdge, InitFails, StartLoop, EpollWait, HandleTimer, PollDone, TurnDone, Expire, vars,
         kernelVars, pinVars, loopVars
<1>2. packet' \in {packet, NoPacket} /\ (pc = "init" => packet' = packet)
      /\ (pc' = "init" => pc = "init")
  BY DEF SetEdge, InitFails, StartLoop, EpollWait, HandleTimer, PollDone, TurnDone, Expire, vars,
         kernelVars, pinVars, loopVars
<1>3. found' \in Found /\ (pc' = "init" => found' = found) /\ found' \in {found, NothingFound}
  BY DEF SetEdge, InitFails, StartLoop, EpollWait, HandleTimer, PollDone, TurnDone, Expire, vars,
         kernelVars, pinVars, loopVars, IInv, TypeOK, Found, NothingFound
<1>4. next' \in 1..(Len(gp_list) + 1) /\ next' >= next
  BY Placed DEF SetEdge, InitFails, StartLoop, EpollWait, HandleTimer, PollDone, TurnDone, Expire,
         vars, kernelVars, pinVars, loopVars, IInv, TypeOK, Initialising
<1>5. armed' \in [Pin -> BOOLEAN] /\ unarmed' \subseteq Pin /\ dropped' \subseteq Pin
  <2>1. Initialising => gp_list[next] \in Pin
    BY PinAtNext DEF Initialising, IInv
  <2>2. \/ UNCHANGED <<armed, unarmed, dropped>>
        \/ UNCHANGED <<unarmed, dropped>> /\ armed' = [armed EXCEPT ![gp_list[next]] = TRUE]
        \/ UNCHANGED <<armed, dropped>> /\ unarmed' = unarmed \cup {gp_list[next]} /\ Initialising
        \/ UNCHANGED <<armed, unarmed>> /\ dropped' = dropped \cup {gp_list[next]} /\ Initialising
    BY DEF SetEdge, InitFails, StartLoop, EpollWait, HandleTimer, PollDone, TurnDone, Expire, vars,
           kernelVars, pinVars, loopVars
  <2> QED
    BY <2>1, <2>2 DEF IInv, TypeOK
<1>6. batch' \subseteq batch \/ (batch' = Ready /\ UNCHANGED <<conf, queue>>)
  BY DEF SetEdge, InitFails, StartLoop, EpollWait, HandleTimer, PollDone, TurnDone, Expire, vars,
         kernelVars, pinVars, loopVars
<1>7. todo' \in {todo, p_list}
  BY DEF SetEdge, InitFails, StartLoop, EpollWait, HandleTimer, PollDone, TurnDone, Expire, vars,
         kernelVars, pinVars, loopVars
<1>8. pc' \in {"init", "wait", "batch", "poll"}
  BY DEF SetEdge, InitFails, StartLoop, EpollWait, HandleTimer, PollDone, TurnDone, Expire, vars,
         kernelVars, pinVars, loopVars, IInv, TypeOK
<1>9. /\ Ready \subseteq Pin \cup {Timer}
      /\ \A p \in Ready \ {Timer} : Interrupting(p) /\ (~Sysfs(p) => queue[p] # <<>>)
  BY DEF Ready, i_list
<1>10. p_list \subseteq DOMAIN gp_list /\ \A i \in p_list : ~Interrupting(gp_list[i])
  BY DEF p_list
<1>11. batch' \subseteq Pin \cup {Timer} /\ todo' \subseteq DOMAIN gp_list
  BY <1>6, <1>7, <1>9, <1>10 DEF IInv, TypeOK
<1>12. packet' \in Packet
  BY <1>2, NoPacketTyped DEF IInv, TypeOK, Packet
<1>13. TypeOK'
  BY <1>1, <1>3, <1>4, <1>5, <1>8, <1>11, <1>12 DEF IInv, TypeOK, Packet
<1>14. RaisedByEdge' /\ BatchIsReady' /\ PollsOthers'
  BY <1>1, <1>6, <1>7, <1>9, <1>10 DEF IInv, RaisedByEdge, BatchIsReady, PollsOthers, Interrupting,
     Edge, Sysfs, Facility
<1>15. SilentStart'
  BY <1>1, <1>2, <1>3, <1>4, Placed DEF IInv, TypeOK, SilentStart
<1>16. PacketIsCurrent' /\ FoundIsCurrent' /\ PacketIsOwn'
  BY <1>1, <1>2, <1>3, PinsAssumption DEF PinsAssumption, IInv, PacketIsCurrent, FoundIsCurrent, PacketIsOwn,
     Sent, FindsNothing, ReadsFail, Edge, Sysfs, Facility, Interrupting, EdgeTo, NothingFound
<1> QED
  BY <1>13, <1>14, <1>15, <1>16 DEF IInv

LEMMA NextIInv == IInv /\ [Next]_vars => IInv'
<1> SUFFICES ASSUME IInv, [Next]_vars PROVE IInv'
  OBVIOUS
<1>1. CASE InitialValue
  BY <1>1, InitialValueIInv
<1>2. CASE Poll
  BY <1>2, PollIInv
<1>3. CASE \E p \in Pin : HandlePin(p)
  BY <1>3, HandlePinIInv
<1>4. CASE \E p \in Pin : Flip(p) \/ IrqThread(p)
  BY <1>4, FlipIInv, IrqThreadIInv
<1>5. CASE \/ SetEdge \/ InitFails \/ StartLoop \/ EpollWait \/ HandleTimer
           \/ PollDone \/ TurnDone \/ Expire \/ UNCHANGED vars
  BY <1>5, QuietIInv
<1> QED
  BY <1>1, <1>2, <1>3, <1>4, <1>5 DEF Next, Daemon

\* Gpiod keeps what its proofs rest on: the batch holds pins that have something
\* to be read, packets say what was read (gpiod-event-loop.c:223-302).
LEMMA Invariance == Spec => []IInv
<1> QED
  BY InitIInv, NextIInv, PTL DEF Spec

-----------------------------------------------------------------------------
(***************************************************************************)
(* The theorems.                                                            *)
(***************************************************************************)
\* Every variable keeps its type: the kernel's queues stay within their length,
\* values within -1..1 (gpiod-pin.h:29).
THEOREM TypeCorrect == Spec => []TypeOK
<1>1. IInv => TypeOK
  BY DEF IInv
<1> QED
  BY <1>1, Invariance, PTL

\* The pins of one turn share `event` and `ts` (gpiod-event-loop.c:226-228).  A packet
\* with the time and edge of another pin, or with none, is one that was sent for a pin
\* of which nothing was read: a level that cannot be read, a sysfs pin with one edge
\* that is as it was, a uapi pin without an edge.  In every other the edge is the one
\* that leads to the value sent.
THEOREM PacketsAreOwn == Spec => []PacketIsOwn
<1>1. IInv => PacketIsOwn
  BY DEF IInv
<1> QED
  BY <1>1, Invariance, PTL

-----------------------------------------------------------------------------
(***************************************************************************)
(* Pins implements Announcer.                                               *)
(***************************************************************************)
exactBar == {p \in Pin : ~ReadsFail /\ ByLevel(p)}

LEMMA Still ==
  ASSUME UNCHANGED <<conf, value_, packet, pc>>
  PROVE  UNCHANGED Told!vars
BY DEF Told!vars, exactBar, ReadsFail, ByLevel, Edge, Sysfs, Facility

LEMMA InitTold == Init => Told!Init
BY DEF Init, Told!Init

\* A pin's reading is announced, or was found unchanged and is not.
LEMMA ServeTold ==
  ASSUME IInv, NEW p \in Pin, NEW r \in Readings(p), Store(p, r), conf' = conf, pc' = pc, pc # "init",
         \/ packet' = NoPacket /\ r.ret = 0
         \/ Dispatch(p, r) /\ (ByLevel(p) => r.ret # 0)
  PROVE  Told!Next
<1>1. exactBar' = exactBar
  BY DEF exactBar, ReadsFail, ByLevel, Edge, Sysfs, Facility
<1>2. r.value \in -1..1 /\ value_ \in [Pin -> -1..1] /\ value_' = [value_ EXCEPT ![p] = r.value]
  BY ReadingsTyped DEF IInv, TypeOK, Store
<1>3. CASE packet' = NoPacket /\ r.ret = 0
  <2>1. value_' = value_
    BY <1>2, <1>3, ReadingsTyped DEF IInv
  <2>2. Told!Hush
    BY <1>1, <1>3, <2>1 DEF Told!Hush, exactBar
  <2> QED
    BY <2>2 DEF Told!Next
<1>4. CASE Dispatch(p, r) /\ (ByLevel(p) => r.ret # 0)
  <2>1. packet' # NoPacket /\ packet'.pin = p /\ packet'.value = r.value
    BY <1>4, PinsAssumption DEF Dispatch, NoPacket, PinsAssumption
  <2>2. p \in exactBar => r.value # value_[p]
    BY <1>4, ReadingsTyped DEF IInv, exactBar, ByLevel
  <2>3. Told!Announce(p)
    BY <1>1, <1>2, <2>1, <2>2 DEF Told!Announce, exactBar
  <2> QED
    BY <2>3 DEF Told!Next
<1> QED
  BY <1>3, <1>4

LEMMA NextTold == IInv /\ [Next]_vars => [Told!Next]_(Told!vars)
<1> SUFFICES ASSUME IInv, [Next]_vars PROVE Told!Next \/ UNCHANGED Told!vars
  OBVIOUS
<1>1. CASE UNCHANGED <<conf, value_, packet, pc>>
  BY <1>1, Still
<1>2. CASE StartLoop
  <2>1. UNCHANGED <<conf, value_, packet>> /\ pc' = "wait"
    BY <1>2 DEF StartLoop, kernelVars, pinVars
  <2>2. Told!Begin
    BY <2>1 DEF Told!Begin, ReadsFail, ByLevel, Edge, Sysfs, Facility
  <2> QED
    BY <2>2 DEF Told!Next
<1>3. CASE InitialValue
  <2>1. pc = "init" /\ next <= Len(gp_list) /\ UNCHANGED <<conf, packet, pc>>
    BY <1>3 DEF InitialValue, Initialising
  <2>2. PICK v \in ReadValue(gp_list[next]) : value_' = [value_ EXCEPT ![gp_list[next]] = v]
    BY <1>3 DEF InitialValue
  <2>3. gp_list[next] \in Pin
    BY <2>1, PinAtNext DEF IInv
  <2>4. v \in -1..1
    <3>1. v = level[gp_list[next]] \/ v = -1
      BY <2>2 DEF ReadValue
    <3> QED
      BY <2>3, <3>1 DEF IInv, TypeOK
  <2>5. Told!Learn(gp_list[next])
    BY <2>1, <2>2, <2>4 DEF Told!Learn, ReadsFail, ByLevel, Edge, Sysfs, Facility
  <2> QED
    BY <2>3, <2>5 DEF Told!Next
<1>4. CASE EpollWait \/ HandleTimer \/ PollDone \/ TurnDone
  <2>1. UNCHANGED <<conf, value_>> /\ packet' = NoPacket /\ pc # "init" /\ pc' # "init"
    BY <1>4 DEF EpollWait, HandleTimer, PollDone, TurnDone, kernelVars, pinVars
  <2>2. Told!Hush
    BY <2>1 DEF Told!Hush, ReadsFail, ByLevel, Edge, Sysfs, Facility
  <2> QED
    BY <2>2 DEF Told!Next
<1>5. ASSUME NEW p \in Pin, HandlePin(p) PROVE Told!Next
  <2>1. pc = "batch" /\ p \in batch /\ conf' = conf /\ pc' = pc
    BY <1>5 DEF HandlePin
  <2>2. PICK r \in Readings(p) :
          Store(p, r) /\ IF Spurious(p, r) THEN packet' = NoPacket ELSE Dispatch(p, r)
    BY <1>5 DEF HandlePin
  <2>3. Interrupting(p)
    BY <2>1, PinsAssumption DEF IInv, BatchIsReady, PinsAssumption, Timer
  <2>4. ~Spurious(p, r) /\ ByLevel(p) => r.ret # 0
    BY <2>3 DEF Spurious, ByLevel, Interrupting
  <2> QED
    BY <2>1, <2>2, <2>4, ServeTold DEF Spurious
<1>6. CASE Poll
  <2>1. pc = "poll" /\ conf' = conf /\ pc' = pc
    BY <1>6 DEF Poll
  <2>2. PICK i \in todo :
          \E r \in Readings(gp_list[i]) :
            /\ Store(gp_list[i], r)
            /\ IF r.ret = 0 THEN packet' = NoPacket ELSE Dispatch(gp_list[i], r)
    BY <1>6 DEF Poll
  <2>3. gp_list[i] \in Pin
    BY Placed DEF IInv, TypeOK
  <2> QED
    BY <2>1, <2>2, <2>3, ServeTold
<1>7. CASE SetEdge \/ InitFails \/ Expire \/ UNCHANGED vars \/ \E p \in Pin : Flip(p) \/ IrqThread(p)
  <2>1. UNCHANGED <<conf, value_, packet, pc>>
    BY <1>7 DEF SetEdge, InitFails, Expire, Flip, IrqThread, vars, kernelVars, pinVars, loopVars
  <2> QED
    BY <2>1, Still
<1> QED
  BY <1>2, <1>3, <1>4, <1>5, <1>6, <1>7 DEF Next, Daemon

\* What gpiod believes of a pin changes with a packet that says so, and of pins
\* read by level only changes are told (gpiod-event-loop.c:278-281, 295-297).
THEOREM Implements == Spec => TellsChanges
<1> QED
  BY InitTold, NextTold, Invariance, PTL DEF Spec, TellsChanges, Told!Spec

=============================================================================
