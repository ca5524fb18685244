-------------------------------- MODULE Pins --------------------------------
(***************************************************************************)
(* Pins and what gpiod tells of them: the readings of a pin                 *)
(* (gpiod-sysfs.c:161-216, gpiod-uapi.c:107-192), their initialisation and  *)
(* the part of the event loop that turns a reading into a packet for the    *)
(* clients and an event for the hooks (gpiod-event-loop.c:223-302).         *)
(*                                                                         *)
(* All pins of one turn of the loop share the variables `event` and `ts`    *)
(* (gpiod-event-loop.c:226-228), which a reading that finds nothing leaves  *)
(* as they are.  Lines, interrupts and the kernel's queues go on meanwhile. *)
(***************************************************************************)
EXTENDS Integers, Sequences

CONSTANTS
  Pin,
  NoPin,
  gp_list,      \* the configured pins, in order
  Configs,      \* the configurations and builds considered
  KFifo         \* events the kernel keeps for a uapi pin (16 in Linux)

ASSUME PinsAssumption ==
  /\ NoPin \notin Pin /\ "timer" \notin Pin
  /\ gp_list \in Seq(Pin)
  /\ \A i, j \in DOMAIN gp_list : gp_list[i] = gp_list[j] => i = j
  /\ \A k \in Configs :
       /\ k.facility \in [Pin -> {"SYSFS", "UAPI"}]
       /\ k.edge \in [Pin -> {"RISING", "FALLING", "BOTH", "POLLED", "MAX"}]
       /\ k.fails \in BOOLEAN
       /\ k.signed \in BOOLEAN
  /\ KFifo \in Nat \ {0}

VARIABLES
  conf,     \* what was configured, whether a level can fail to be read and how
            \* the program was built
  level,    \* the line, after active_low
  raised,   \* its interrupt has fired, the handler's thread has not run
  notified, \* sysfs: the value file polls EPOLLPRI | EPOLLERR
  queue,    \* uapi: the events to be read
  lost,     \* uapi: the last event found the queue full
  tick,     \* the timer has expired
  armed,    \* init has asked for the pin's edges
  unarmed,  \* sysfs pins whose edge file could not be opened or written
  dropped,  \* pins whose init failed
  value_,   \* pin->value_
  pc,
  next,     \* init: position in gp_list
  batch,    \* the events of this turn not served yet
  todo,     \* positions of the polled pins still to be read in this tick
  found,    \* `event` and `ts` of this turn: an edge and the pin it was read from
  packet    \* what the last step dispatched, to clients and hooks

kernelVars == <<conf, level, raised, notified, queue, lost, tick>>
pinVars == <<armed, unarmed, dropped, value_>>
loopVars == <<pc, next, batch, todo, found, packet>>
vars == <<kernelVars, pinVars, loopVars>>

Edge == conf.edge          \* pin->edge; "MAX" when the configuration gives none
Facility == conf.facility  \* pin->facility
ReadsFail == conf.fails
CharIsSigned == conf.signed  \* as on x86; FALSE on ARM, where a failed read becomes 255

Timer == "timer"
Sysfs(p) == Facility[p] = "SYSFS"
Interrupting(p) == Edge[p] \in {"RISING", "FALLING", "BOTH"}

(***************************************************************************)
(* Pins with an edge interrupt, all others are polled (also those whose     *)
(* edge is not configured).                                                 *)
(***************************************************************************)
i_list == {p \in Pin \ dropped : Interrupting(p)}
p_list == {i \in DOMAIN gp_list : gp_list[i] \notin dropped /\ ~Interrupting(gp_list[i])}

NothingFound == [edge |-> "MAX", of |-> NoPin]
NoPacket == [pin |-> NoPin, value |-> 0, found |-> NothingFound]
Found == [edge : {"RISING", "FALLING", "MAX"}, of : Pin \cup {NoPin}]

TypeOK ==
  /\ conf \in Configs
  /\ level \in [Pin -> 0..1]
  /\ raised \in [Pin -> BOOLEAN]
  /\ notified \in [Pin -> BOOLEAN]
  /\ queue \in [Pin -> Seq({"RISING", "FALLING"})]
  /\ \A p \in Pin : Len(queue[p]) <= KFifo
  /\ lost \in [Pin -> BOOLEAN]
  /\ tick \in BOOLEAN
  /\ armed \in [Pin -> BOOLEAN]
  /\ unarmed \subseteq Pin
  /\ dropped \subseteq Pin
  /\ value_ \in [Pin -> -1..1]
  /\ pc \in {"init", "wait", "batch", "poll"}
  /\ next \in 1..(Len(gp_list) + 1)
  /\ batch \subseteq Pin \cup {Timer}
  /\ todo \subseteq DOMAIN gp_list
  /\ found \in Found
  /\ packet \in [pin : Pin \cup {NoPin}, value : -1..1, found : Found]

Init ==
  /\ conf \in Configs
  /\ level \in [Pin -> 0..1]
  /\ raised = [p \in Pin |-> FALSE]
  /\ notified = [p \in Pin |-> FALSE]
  /\ queue = [p \in Pin |-> <<>>]
  /\ lost = [p \in Pin |-> FALSE]
  /\ tick = FALSE
  /\ armed = [p \in Pin |-> FALSE]
  /\ unarmed = {}
  /\ dropped = {}
  /\ value_ = [p \in Pin |-> -1]
  /\ pc = "init"
  /\ next = 1
  /\ batch = {}
  /\ todo = {}
  /\ found = NothingFound
  /\ packet = NoPacket

-----------------------------------------------------------------------------
(***************************************************************************)
(* Reading a pin.  A result says what changed() returns, what becomes of    *)
(* pin->value_ and of the turn's event and ts.                              *)
(***************************************************************************)
\* Mutant: the character read is not made a number.
ReadValue_Character(p) == {48 + level[p]}

ReadValue(p) == {level[p]} \cup (IF ReadsFail THEN {-1} ELSE {})

Failed(p) == [ret |-> -1, value |-> value_[p], found |-> found]
Same(p) == [ret |-> 0, value |-> value_[p], found |-> found]
Changed(p, v, edge) == [ret |-> 1, value |-> v, found |-> [edge |-> edge, of |-> p]]

EdgeTo(v) == IF v = 1 THEN "RISING" ELSE "FALLING"

\* The value read is held in a char and compared with the int8_t value_: an
\* unsigned 255 is neither negative nor equal to any value_.
sysfs_changed_value(p, v) ==
  IF v = -1
  THEN IF CharIsSigned THEN Failed(p) ELSE Changed(p, v, "FALLING")
  ELSE IF v = value_[p] THEN Same(p) ELSE Changed(p, v, EdgeTo(v))

\* Mutant: a uapi pin's event does not reach value_.
UapiEvent_ValueKept(p) ==
  IF queue[p] = <<>>
  THEN Failed(p)
  ELSE Changed(p, value_[p], Head(queue[p]))

\* Not polled: one event is read; with none the read fails with EAGAIN.
UapiEvent(p) ==
  IF queue[p] = <<>>
  THEN Failed(p)
  ELSE Changed(p, IF Head(queue[p]) = "RISING" THEN 1 ELSE 0, Head(queue[p]))

Readings(p) ==
  IF Sysfs(p) \/ Edge[p] = "POLLED"
  THEN {sysfs_changed_value(p, v) : v \in ReadValue(p)}
  ELSE {UapiEvent(p)}

\* A read takes the event or, at offset 0 of the value file, the notification.
Consume(p) ==
  /\ notified' = [notified EXCEPT ![p] = FALSE]
  /\ queue' = [queue EXCEPT ![p] =
       IF Sysfs(p) \/ Edge[p] = "POLLED" \/ @ = <<>> THEN @ ELSE Tail(@)]

\* dispatch and dispatch_hooks; the packet carries ts, the hooks get event.
Dispatch(p, r) ==
  packet' = [pin |-> p, value |-> r.value, found |-> r.found]

Store(p, r) ==
  /\ value_' = [value_ EXCEPT ![p] = r.value]
  /\ found' = r.found

-----------------------------------------------------------------------------
(***************************************************************************)
(* Start: each pin in turn, first its edges, then its initial value.        *)
(***************************************************************************)
\* The levels a line's change to which is asked for: written to the edge file,
\* or as flags of the line event request.
sysfs_set_edge(p) ==
  CASE Edge[p] = "BOTH"    -> {0, 1}
    [] Edge[p] = "RISING"  -> {1}
    [] Edge[p] = "FALLING" -> {0}
    [] OTHER               -> {}

eventflags(p) == sysfs_set_edge(p)

Initialising == pc = "init" /\ next <= Len(gp_list)

\* The edge has been asked for, or a sysfs pin goes on without.
EdgeDone(p) == armed[p] \/ p \in unarmed

\* For an edge file that cannot be opened or written there is a warning only.
SetEdge ==
  /\ Initialising
  /\ LET p == gp_list[next] IN
       /\ ~EdgeDone(p)
       /\ \/ armed' = [armed EXCEPT ![p] = TRUE] /\ UNCHANGED unarmed
          \/ Sysfs(p) /\ unarmed' = unarmed \cup {p} /\ UNCHANGED armed
  /\ UNCHANGED <<kernelVars, dropped, value_, loopVars>>

\* Mutant: the value is read before the edges are asked for.
InitialValue_First ==
  /\ Initialising
  /\ LET p == gp_list[next] IN
       /\ IF value_[p] = -1
          THEN /\ value_' = [value_ EXCEPT ![p] = level[p]]
               /\ UNCHANGED <<next, notified>>
          ELSE /\ EdgeDone(p)
               /\ next' = next + 1
               /\ UNCHANGED <<value_, notified>>
  /\ UNCHANGED <<conf, level, raised, queue, lost, tick, armed, unarmed, dropped, pc, batch, todo, found, packet>>

InitialValue ==
  /\ Initialising
  /\ LET p == gp_list[next] IN
       /\ EdgeDone(p)
       /\ \E v \in ReadValue(p) : value_' = [value_ EXCEPT ![p] = v]
       /\ notified' = [notified EXCEPT ![p] = FALSE]
  /\ next' = next + 1
  /\ UNCHANGED <<conf, level, raised, queue, lost, tick, armed, unarmed, dropped, pc, batch, todo, found, packet>>

InitFails ==
  /\ Initialising
  /\ dropped' = dropped \cup {gp_list[next]}
  /\ next' = next + 1
  /\ UNCHANGED <<kernelVars, armed, unarmed, value_, pc, batch, todo, found, packet>>

StartLoop ==
  /\ pc = "init"
  /\ next > Len(gp_list)
  /\ pc' = "wait"
  /\ UNCHANGED <<kernelVars, pinVars, next, batch, todo, found, packet>>

-----------------------------------------------------------------------------
(***************************************************************************)
(* The loop.  Pins and timer are registered level-triggered.                *)
(***************************************************************************)
Ready ==
  {p \in i_list : IF Sysfs(p) THEN notified[p] ELSE queue[p] # <<>>}
    \cup (IF tick THEN {Timer} ELSE {})

EpollWait ==
  /\ pc = "wait"
  /\ Ready # {}
  /\ batch' = Ready
  /\ found' = NothingFound
  /\ pc' = "batch"
  /\ packet' = NoPacket
  /\ UNCHANGED <<kernelVars, pinVars, next, todo>>

\* Mutant: an interrupt that finds the value unchanged counts like any other.
Spurious_Never(p, r) == FALSE

\* Mutant: every reading that leaves the value as it was is spurious.
Spurious_SameValue(p, r) == r.value = value_[p]

Spurious(p, r) == r.ret = 0 /\ Edge[p] = "BOTH"

HandlePin(p) ==
  /\ pc = "batch"
  /\ p \in batch
  /\ batch' = batch \ {p}
  /\ Consume(p)
  /\ \E r \in Readings(p) :
       /\ Store(p, r)
       /\ IF Spurious(p, r) THEN packet' = NoPacket ELSE Dispatch(p, r)
  /\ UNCHANGED <<conf, level, raised, lost, tick, armed, unarmed, dropped, pc, next, todo>>

HandleTimer ==
  /\ pc = "batch"
  /\ Timer \in batch
  /\ batch' = batch \ {Timer}
  /\ tick' = FALSE
  /\ todo' = p_list
  /\ pc' = "poll"
  /\ packet' = NoPacket
  /\ UNCHANGED <<conf, level, raised, notified, queue, lost, pinVars, next, found>>

Poll ==
  /\ pc = "poll"
  /\ \E i \in todo :
       /\ \A j \in todo : i <= j
       /\ todo' = todo \ {i}
       /\ Consume(gp_list[i])
       /\ \E r \in Readings(gp_list[i]) :
            /\ Store(gp_list[i], r)
            /\ IF r.ret = 0 THEN packet' = NoPacket ELSE Dispatch(gp_list[i], r)
  /\ UNCHANGED <<conf, level, raised, lost, tick, armed, unarmed, dropped, pc, next, batch>>

PollDone ==
  /\ pc = "poll"
  /\ todo = {}
  /\ pc' = "batch"
  /\ packet' = NoPacket
  /\ UNCHANGED <<kernelVars, pinVars, next, batch, todo, found>>

TurnDone ==
  /\ pc = "batch"
  /\ batch = {}
  /\ pc' = "wait"
  /\ packet' = NoPacket
  /\ UNCHANGED <<kernelVars, pinVars, next, batch, todo, found>>

Daemon ==
  \/ SetEdge \/ InitialValue \/ InitFails \/ StartLoop
  \/ EpollWait \/ HandleTimer \/ Poll \/ PollDone \/ TurnDone
  \/ \E p \in Pin : HandlePin(p)

-----------------------------------------------------------------------------
(***************************************************************************)
(* The kernel: an edge the pin is armed for raises its interrupt, whose     *)
(* thread reports it some time later.                                       *)
(***************************************************************************)
Triggers(p) == (1 - level[p]) \in (IF Sysfs(p) THEN sysfs_set_edge(p) ELSE eventflags(p))

Flip(p) ==
  /\ level' = [level EXCEPT ![p] = 1 - @]
  /\ raised' = [raised EXCEPT ![p] = @ \/ (armed[p] /\ Triggers(p))]
  /\ UNCHANGED <<conf, notified, queue, lost, tick, pinVars, loopVars>>

\* With both edges asked for the event is told from the level of that moment.
EventId(p) == IF Edge[p] = "BOTH" THEN EdgeTo(level[p]) ELSE Edge[p]

\* A full queue loses the event.
IrqThread(p) ==
  /\ raised[p]
  /\ raised' = [raised EXCEPT ![p] = FALSE]
  /\ notified' = [notified EXCEPT ![p] = @ \/ Sysfs(p)]
  /\ queue' = [queue EXCEPT ![p] =
       IF Sysfs(p) \/ Len(@) = KFifo THEN @ ELSE Append(@, EventId(p))]
  /\ lost' = [lost EXCEPT ![p] = Len(queue[p]) = KFifo]
  /\ UNCHANGED <<conf, level, tick, pinVars, loopVars>>

Expire ==
  /\ ~tick
  /\ tick' = TRUE
  /\ UNCHANGED <<conf, level, raised, notified, queue, lost, pinVars, loopVars>>

Next == Daemon \/ Expire \/ \E p \in Pin : Flip(p) \/ IrqThread(p)

Spec == Init /\ [][Next]_vars

(***************************************************************************)
(* The daemon and the interrupt threads run whenever they can, the timer    *)
(* goes on expiring; epoll_wait hands out every ready descriptor, so all of *)
(* a batch is served.                                                       *)
(***************************************************************************)
FairSpec ==
  /\ Spec
  /\ WF_vars(Daemon)
  /\ WF_vars(Expire)
  /\ \A p \in Pin : WF_vars(IrqThread(p))

-----------------------------------------------------------------------------
(***************************************************************************)
(* Correctness.                                                             *)
(***************************************************************************)
Sent(p) == packet # NoPacket /\ packet.pin = p

\* `event` and `ts` outlive the pin that set them (event-loop.c:226-228, 285-286,
\* 298-299).  The time of a packet is its pin's own, and the edge for the hooks the one
\* that leads to the value sent, except where the code dispatches without having read
\* either: a level that cannot be read, a sysfs pin with one edge that is as it was, and
\* a uapi pin without an edge, which is never asked for events and polled for them.
\* Those go out with what a pin before them in the turn has left, or with nothing.
FindsNothing(p) ==
  \/ ReadsFail
  \/ Sysfs(p) /\ Edge[p] \in {"RISING", "FALLING"}
  \/ ~Sysfs(p) /\ ~Interrupting(p) /\ Edge[p] # "POLLED"

PacketIsOwn ==
  \A p \in Pin : Sent(p) =>
    IF packet.found.of = p THEN packet.found.edge = EdgeTo(packet.value) ELSE FindsNothing(p)

\* While gpiod watches, what it believes of a pin changes only with a packet
\* that says so, and of a pin whose level it reads only changes are told
\* (event-loop.c:278-281, 295-297), as long as it can be read.
ByLevel(p) == Edge[p] = "POLLED" \/ (Sysfs(p) /\ Edge[p] = "BOTH")

Told == INSTANCE Announcer WITH
  Silence  <- NoPin,
  exact    <- {p \in Pin : ~ReadsFail /\ ByLevel(p)},
  watching <- pc # "init",
  value    <- value_,
  said     <- IF packet = NoPacket THEN NoPin ELSE [pin |-> packet.pin, value |-> packet.value]

TellsChanges == Told!Spec

\* gpiod has asked for both edges, or asks for the level itself.
Watched(p) ==
  /\ p \notin dropped
  /\ Edge[p] = "POLLED" \/ (Edge[p] = "BOTH" /\ p \notin unarmed)

\* Once a line that is watched for both edges or polled is quiet, gpiod's value agrees
\* with it (README.md:20), whatever happened during initialisation or in the middle of
\* a turn, unless the line cannot be read or the last event found the kernel's queue
\* full.  A sysfs pin whose edge file could not be written is not watched, although it
\* stays in the list (sysfs.c:265-275).
Converges ==
  \A p \in Pin : \A v \in 0..1 :
    <>[](level[p] = v /\ ~ReadsFail /\ ~lost[p]) => <>[](Watched(p) => value_[p] = v)

\* Every event the kernel has queued leads to a dispatch (README.md:20).
EveryEventReported ==
  \A p \in Pin : (queue[p] # <<>> /\ p \notin dropped) ~> (Sent(p) \/ p \in dropped)

\* A dispatch always comes with an edge, so that the hooks configured for it
\* can run (README.md:117).
DispatchHasEdge == packet # NoPacket => packet.found.edge # "MAX"

=============================================================================
