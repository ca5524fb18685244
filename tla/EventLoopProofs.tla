--------------------------- MODULE EventLoopProofs ---------------------------
(***************************************************************************)
(* Proofs about EventLoop, for any number of hooks, pins and processes.     *)
(***************************************************************************)
EXTENDS EventLoop, TLAPS

-----------------------------------------------------------------------------
(***************************************************************************)
(* Type correctness.                                                        *)
(***************************************************************************)

\* In front of a hook, the hook is one of the configured ones.
LEMMA HookIsHook ==
  ASSUME TypeOK, AtHook
  PROVE  hook_ \in Hook
<1>1. Head(todo) \in Pin \X Event
  BY DEF TypeOK, LoopTypeOK, AtHook
<1>2. Hooks \in Seq(Hook)
  BY <1>1, EventLoopAssumption DEF EventLoopAssumption, Hooks
<1>3. pos \in 1..Len(Hooks)
  BY <1>2 DEF TypeOK, LoopTypeOK, AtHook
<1> QED
  BY <1>2, <1>3 DEF hook_

\* Raising, dequeuing and reaping keep the types of what they change.
LEMMA RaiseType ==
  ASSUME SignalTypeOK, NEW s \in Mask, Raise(s)
  PROVE  SignalTypeOK'
BY DEF SignalTypeOK, Raise, Wakes

LEMMA RaiseChildType ==
  ASSUME SignalTypeOK, NEW p \in Pid, RaiseChild(p)
  PROVE  SignalTypeOK'
BY DEF SignalTypeOK, RaiseChild, Wakes, Mask

LEMMA DispatchType ==
  ASSUME SignalTypeOK, Dispatch
  PROVE  SignalTypeOK'
<1>1. CASE UNCHANGED signalVars
  BY <1>1 DEF SignalTypeOK, signalVars
<1>2. CASE "PIPE" \in Sent /\ Raise("PIPE")
  BY <1>2, RaiseType DEF Mask
<1> QED
  BY <1>1, <1>2 DEF Dispatch

LEMMA ChildStepType ==
  ASSUME TypeOK, NEW p \in Pid, Exit(p) \/ Stop(p) \/ Cont(p)
  PROVE  SignalTypeOK' /\ HookTypeOK'
<1> USE DEF TypeOK, HookTypeOK, ChildState, hookVars
<1>1. RaiseChild(p)
  BY DEF Exit, Stop, Cont
<1>2. SignalTypeOK'
  BY <1>1, RaiseChildType
<1>3. HookTypeOK'
  BY DEF Exit, Stop, Cont
<1> QED
  BY <1>2, <1>3

LEMMA ReapType ==
  ASSUME HookTypeOK, ReapChild(ssi_pid)
  PROVE  HookTypeOK'
<1> USE DEF HookTypeOK, hookVars, childVars
<1>1. CASE ~Waitable(ssi_pid)
  BY <1>1 DEF ReapChild
<1>2. CASE Waitable(ssi_pid)
  <2>1. WaitPid(ssi_pid) /\ ClearSpawned(ssi_pid)
    BY <1>2 DEF ReapChild
  <2>2. child' \in [Pid -> ChildState] /\ image' \in [Pid -> Hook \cup {NoHook}]
    BY <2>1 DEF WaitPid, ChildState
  <2>3. spawned' \in [Hook -> Pid \cup {NoPid}] /\ pid_list' \subseteq Pid \X Hook
    BY <2>1 DEF ClearSpawned
  <2> QED
    BY <2>1, <2>2, <2>3 DEF ClearSpawned
<1> QED
  BY <1>1, <1>2

LEMMA InitType == Init => TypeOK
<1> SUFFICES ASSUME Init PROVE TypeOK
  OBVIOUS
<1>1. SignalTypeOK
  BY EventLoopAssumption DEF Init, SignalInit, SignalTypeOK, EventLoopAssumption
<1>2. HookTypeOK
  BY DEF Init, HookInit, HookTypeOK, ChildState
<1>3. LoopTypeOK
  <2>1. todo \in Seq(Pin \X Event)
    BY DEF Init
  <2>2. pc = "wait" /\ batch = {} /\ irq = {} /\ pos = 1 /\ ssi_pid = NoPid
    BY DEF Init
  <2>3. shutdown_flag \in BOOLEAN /\ hup_flag \in BOOLEAN
    BY DEF Init
  <2> QED
    BY <2>1, <2>2, <2>3 DEF LoopTypeOK
<1> QED
  BY <1>1, <1>2, <1>3 DEF TypeOK

LEMMA NextType == TypeOK /\ [Next]_vars => TypeOK'
<1> SUFFICES ASSUME TypeOK, [Next]_vars PROVE TypeOK'
  OBVIOUS
<1> USE DEF TypeOK
<1>1. CASE EpollWait
  <2>1. SignalTypeOK'
    BY <1>1 DEF EpollWait, SignalTypeOK
  <2>2. HookTypeOK'
    BY <1>1 DEF EpollWait, HookTypeOK, hookVars, childVars
  <2>3. LoopTypeOK'
    BY <1>1 DEF EpollWait, LoopTypeOK, Ready
  <2> QED
    BY <2>1, <2>2, <2>3
<1>2. CASE TurnDone
  BY <1>2 DEF TurnDone, SignalTypeOK, HookTypeOK, LoopTypeOK, signalVars, hookVars, childVars
<1>3. ASSUME NEW pin \in i_list, HandlePin(pin) PROVE TypeOK'
  <2>1. SignalTypeOK'
    BY <1>3, DispatchType DEF HandlePin
  <2>2. HookTypeOK'
    BY <1>3 DEF HandlePin, HookTypeOK, hookVars, childVars
  <2>3. pin \in Pin
    BY EventLoopAssumption DEF EventLoopAssumption
  <2>4. LoopTypeOK'
    BY <1>3, <2>3 DEF HandlePin, LoopTypeOK
  <2> QED
    BY <2>1, <2>2, <2>4
<1>4. CASE HandleTimer
  <2>1. SignalTypeOK'
    BY <1>4, DispatchType DEF HandleTimer
  <2>2. HookTypeOK'
    BY <1>4 DEF HandleTimer, HookTypeOK, hookVars, childVars
  <2>3. todo' \in Seq(Pin \X Event)
    <3>1. PICK event \in [1..Len(p_list) -> Event] :
            todo' = [i \in 1..Len(p_list) |-> <<p_list[i], event[i]>>]
      BY <1>4 DEF HandleTimer
    <3>2. p_list \in Seq(Pin)
      BY EventLoopAssumption DEF EventLoopAssumption
    <3> QED
      BY <3>1, <3>2
  <2>4. LoopTypeOK'
    BY <1>4, <2>3 DEF HandleTimer, LoopTypeOK
  <2> QED
    BY <2>1, <2>2, <2>4
<1>5. CASE SkipHook \/ LaunchFails
  BY <1>5 DEF SkipHook, LaunchFails, NextHook, SignalTypeOK, HookTypeOK, LoopTypeOK,
              signalVars, hookVars, childVars
<1>6. ASSUME NEW p \in Pid, Launch(p) PROVE TypeOK'
  <2>1. hook_ \in Hook
    BY <1>6, HookIsHook DEF Launch
  <2>2. HookTypeOK'
    BY <1>6, <2>1 DEF Launch, Started, HookTypeOK, ChildState
  <2>3. SignalTypeOK' /\ LoopTypeOK'
    BY <1>6 DEF Launch, NextHook, SignalTypeOK, LoopTypeOK, signalVars
  <2> QED
    BY <2>2, <2>3
<1>7. CASE NextPin
  <2>1. todo' \in Seq(Pin \X Event)
    BY <1>7 DEF NextPin, LoopTypeOK
  <2> QED
    BY <1>7, <2>1 DEF NextPin, SignalTypeOK, HookTypeOK, LoopTypeOK, signalVars, hookVars, childVars
<1>8. CASE HooksDone
  BY <1>8 DEF HooksDone, SignalTypeOK, HookTypeOK, LoopTypeOK, signalVars, hookVars, childVars
<1>9. ASSUME NEW s \in Mask, ReadSignal(s) PROVE TypeOK'
  <2>1. SignalTypeOK'
    BY <1>9 DEF ReadSignal, Dequeue, SignalTypeOK
  <2>2. HookTypeOK'
    BY <1>9 DEF ReadSignal, HookTypeOK, hookVars, childVars
  <2>3. LoopTypeOK'
    BY <1>9 DEF ReadSignal, LoopTypeOK, SignalTypeOK
  <2> QED
    BY <2>1, <2>2, <2>3
<1>10. CASE Reap
  <2>1. HookTypeOK'
    BY <1>10, ReapType DEF Reap
  <2> QED
    BY <1>10, <2>1 DEF Reap, SignalTypeOK, LoopTypeOK, signalVars
<1>11. ASSUME NEW src \in Source, Interrupt(src) PROVE TypeOK'
  BY <1>11 DEF Interrupt, SignalTypeOK, HookTypeOK, LoopTypeOK, signalVars, hookVars, childVars
<1>12. ASSUME NEW s \in Mask, Kill(s) PROVE TypeOK'
  BY <1>12, RaiseType DEF Kill, HookTypeOK, LoopTypeOK, hookVars, childVars, loopVars
<1>13. ASSUME NEW p \in Pid, ChildStep(p) PROVE TypeOK'
  BY <1>13, ChildStepType DEF ChildStep, LoopTypeOK, loopVars
<1>14. CASE UNCHANGED vars
  BY <1>14 DEF vars, SignalTypeOK, HookTypeOK, LoopTypeOK, signalVars, hookVars, childVars, loopVars
<1> QED
  BY <1>1, <1>2, <1>3, <1>4, <1>5, <1>6, <1>7, <1>8, <1>9, <1>10, <1>11, <1>12, <1>13, <1>14
     DEF Next, LoopStep, EnvStep

\* Every variable keeps its type, whatever the tabs, the pins and the signals.
THEOREM TypeCorrect == Spec => []TypeOK
<1> QED
  BY InitType, NextType, PTL DEF Spec

-----------------------------------------------------------------------------
(***************************************************************************)
(* The read of the signalfd finds a signal.                                 *)
(*                                                                         *)
(* Once epoll_wait has reported the descriptor, only the read takes signals *)
(* away, and the read takes the report with it.                             *)
(***************************************************************************)
ReportedIsQueued == Signal \in batch => pending # {}

LEMMA SignalIsNoSource ==
  ASSUME TypeOK
  PROVE  Signal \notin irq /\ Signal \notin i_list
<1>1. Signal \notin i_list
  BY EventLoopAssumption, SourceAssumption DEF EventLoopAssumption, SourceAssumption
<1>2. Signal # Timer
  BY DEF Signal, Timer
<1> QED
  BY <1>1, <1>2 DEF TypeOK, LoopTypeOK, Source

LEMMA NextReported == TypeOK /\ ReportedIsQueued /\ [Next]_vars => ReportedIsQueued'
<1> SUFFICES ASSUME TypeOK, ReportedIsQueued, [Next]_vars, Signal \in batch'
             PROVE  pending' # {}
  BY DEF ReportedIsQueued
<1> USE DEF ReportedIsQueued
<1>1. CASE EpollWait
  BY <1>1, SignalIsNoSource DEF EpollWait, Ready, SignalReady
<1>2. CASE TurnDone \/ SkipHook \/ LaunchFails \/ NextPin \/ HooksDone
  BY <1>2 DEF TurnDone, SkipHook, LaunchFails, NextHook, NextPin, HooksDone, signalVars
<1>3. ASSUME NEW pin \in i_list, HandlePin(pin) PROVE pending' # {}
  BY <1>3 DEF HandlePin, Dispatch, Raise, signalVars
<1>4. CASE HandleTimer
  BY <1>4 DEF HandleTimer, Dispatch, Raise, signalVars
<1>5. ASSUME NEW p \in Pid, Launch(p) PROVE pending' # {}
  BY <1>5 DEF Launch, NextHook, signalVars
<1>6. ASSUME NEW s \in Mask, ReadSignal(s) PROVE pending' # {}
  BY <1>6 DEF ReadSignal
<1>7. CASE Reap
  BY <1>7 DEF Reap, signalVars
<1>8. ASSUME NEW src \in Source, Interrupt(src) PROVE pending' # {}
  BY <1>8 DEF Interrupt, signalVars
<1>9. ASSUME NEW s \in Mask, Kill(s) PROVE pending' # {}
  BY <1>9 DEF Kill, Raise, loopVars
<1>10. ASSUME NEW p \in Pid, ChildStep(p) PROVE pending' # {}
  BY <1>10 DEF ChildStep, Exit, Stop, Cont, RaiseChild, loopVars
<1>11. CASE UNCHANGED vars
  BY <1>11 DEF vars, signalVars, loopVars
<1> QED
  BY <1>1, <1>2, <1>3, <1>4, <1>5, <1>6, <1>7, <1>8, <1>9, <1>10, <1>11
     DEF Next, LoopStep, EnvStep

\* The loop never blocks in the read of the signalfd, although the descriptor
\* is blocking and nothing but epoll's report says that a signal is there.
THEOREM ReadsNeverBlock == Spec => []ReadNeverBlocks
<1>1. Init => ReportedIsQueued
  BY DEF Init, ReportedIsQueued
<1>2. ReportedIsQueued => ReadNeverBlocks
  BY DEF ReportedIsQueued, ReadNeverBlocks
<1> QED
  BY <1>1, <1>2, NextReported, TypeCorrect, PTL DEF Spec

-----------------------------------------------------------------------------
(***************************************************************************)
(* gpiod's records of its children.  Only three kinds of step touch them or *)
(* the processes: a launch, a reaping and the life of a child.              *)
(***************************************************************************)
LEMMA RecordSteps ==
  ASSUME [Next]_vars
  PROVE  \/ UNCHANGED <<hookVars, childVars>>
         \/ AtHook /\ \E p \in Pid : Launch(p)
         \/ Reap
         \/ \E p \in Pid : ChildStep(p)
<1>1. CASE UNCHANGED vars
  BY <1>1 DEF vars
<1>2. CASE LoopStep
  BY <1>2 DEF LoopStep, EpollWait, TurnDone, HandlePin, HandleTimer, SkipHook, LaunchFails,
              Launch, NextPin, HooksDone, ReadSignal
<1>3. CASE EnvStep
  BY <1>3 DEF EnvStep, Interrupt, Kill
<1> QED
  BY <1>1, <1>2, <1>3 DEF Next

Records == PidListSound /\ BusyIsReal

LEMMA LaunchRecords ==
  ASSUME HookTypeOK, Records, NEW h \in Hook, NEW p \in Pid, Started(h, p)
  PROVE  Records'
<1> USE DEF HookTypeOK, Records, PidListSound, BusyIsReal, Started
<1>1. \A e \in pid_list : e[1] # p
  OBVIOUS
<1>2. \A e \in pid_list' : child'[e[1]] # "none" /\ image'[e[1]] = e[2]
  BY <1>1
<1>3. \A e, f \in pid_list' : e[1] = f[1] => e = f
  BY <1>1
<1>4. BusyIsReal'
  OBVIOUS
<1> QED
  BY <1>2, <1>3, <1>4

LEMMA ReapRecords ==
  ASSUME HookTypeOK, Records, ReapChild(ssi_pid)
  PROVE  Records'
<1> USE DEF HookTypeOK, Records, PidListSound, BusyIsReal
<1>1. CASE ~Waitable(ssi_pid)
  BY <1>1 DEF ReapChild, hookVars, childVars
<1>2. CASE Waitable(ssi_pid)
  <2>1. WaitPid(ssi_pid) /\ ClearSpawned(ssi_pid) /\ ssi_pid \in Pid
    BY <1>2 DEF ReapChild, Waitable
  <2>2. \A e \in pid_list' : e \in pid_list /\ e[1] # ssi_pid
    BY <2>1 DEF ClearSpawned
  <2>3. \A p \in Pid : p # ssi_pid => child'[p] = child[p] /\ image'[p] = image[p]
    BY <2>1 DEF WaitPid
  <2>4. PidListSound'
    BY <2>2, <2>3
  <2>5. BusyIsReal'
    BY <2>1 DEF ClearSpawned
  <2> QED
    BY <2>4, <2>5
<1> QED
  BY <1>1, <1>2

LEMMA NextRecords == TypeOK /\ Records /\ [Next]_vars => Records'
<1> SUFFICES ASSUME TypeOK, Records, [Next]_vars PROVE Records'
  OBVIOUS
<1>1. CASE UNCHANGED <<hookVars, childVars>>
  BY <1>1 DEF Records, PidListSound, BusyIsReal, hookVars, childVars
<1>2. ASSUME NEW p \in Pid, AtHook, Launch(p) PROVE Records'
  BY <1>2, HookIsHook, LaunchRecords DEF Launch, TypeOK
<1>3. CASE Reap
  BY <1>3, ReapRecords DEF Reap, TypeOK
<1>4. ASSUME NEW p \in Pid, ChildStep(p) PROVE Records'
  BY <1>4 DEF ChildStep, Exit, Stop, Cont, Alive, Records, PidListSound, BusyIsReal, hookVars,
              TypeOK, HookTypeOK
<1> QED
  BY <1>1, <1>2, <1>3, <1>4, RecordSteps

\* The table maps each unreaped process to the one hook it runs, and a busy
\* hook is busy with a process of the table, whether or not children are
\* stopped and continued.
THEOREM RecordsSound == Spec => [](PidListSound /\ BusyIsReal)
<1>1. Init => Records
  BY DEF Init, HookInit, Records, PidListSound, BusyIsReal
<1>2. Records => PidListSound /\ BusyIsReal
  BY DEF Records
<1> QED
  BY <1>1, <1>2, NextRecords, TypeCorrect, PTL DEF Spec

\* A busy hook waits for a process that is in the table: the wait can end.
THEOREM BusyHookIsBusy == Spec => []BusyIsReal
<1> QED
  BY RecordsSound, PTL

-----------------------------------------------------------------------------
(***************************************************************************)
(* Without job control a SIGCHLD means a death.  Then:                      *)
(*   - nothing is forgotten before it is reaped;                            *)
(*   - a NO_LOOP hook is marked busy with each of its processes in the      *)
(*     table, hence has one at most;                                        *)
(*   - the SIGCHLD that is queued and the one that was just read tell of    *)
(*     two different dead processes.                                        *)
(* The last point makes the invariant inductive: without it waitpid could   *)
(* be given a process that lives again under the same identifier.           *)
(***************************************************************************)
BusyWithEach ==
  \A e \in pid_list : "NO_LOOP" \in Flags[e[2]] => spawned[e[2]] = e[1]

NoneStopped == \A p \in Pid : child[p] # "stopped"

QueuedIsDead == "CHLD" \in pending => chld_pid \in Pid /\ child[chld_pid] = "zombie"

ReadIsDead == pc = "reap" => ssi_pid \in Pid /\ child[ssi_pid] = "zombie"

QueuedIsNotRead == pc = "reap" /\ "CHLD" \in pending => chld_pid # ssi_pid

DeathInv ==
  /\ EveryChildKnown
  /\ BusyWithEach
  /\ NoneStopped
  /\ QueuedIsDead
  /\ ReadIsDead
  /\ QueuedIsNotRead

IInv == TypeOK /\ Records /\ DeathInv

\* What DeathInv says of the records, and what it says of the signals.
RecordPart == EveryChildKnown /\ BusyWithEach /\ NoneStopped
SignalPart == QueuedIsDead /\ ReadIsDead /\ QueuedIsNotRead

LEMMA Parts == DeathInv <=> RecordPart /\ SignalPart
BY DEF DeathInv, RecordPart, SignalPart

\* How a step that is no child's changes the queue as far as SIGCHLD goes.
LEMMA RaiseKeepsChld ==
  ASSUME NEW s \in Mask \ {"CHLD"}, Raise(s)
  PROVE  ("CHLD" \in pending' <=> "CHLD" \in pending) /\ chld_pid' = chld_pid
BY DEF Raise

LEMMA DispatchKeepsChld ==
  ASSUME Dispatch
  PROVE  ("CHLD" \in pending' <=> "CHLD" \in pending) /\ chld_pid' = chld_pid
BY RaiseKeepsChld DEF Dispatch, Mask, signalVars

LEMMA LaunchDeath ==
  ASSUME IInv, NEW p \in Pid, Launch(p)
  PROVE  DeathInv'
<1> USE DEF IInv, TypeOK, HookTypeOK
<1>1. hook_ \in Hook /\ Started(hook_, p) /\ Launchable(hook_, event_)
  BY HookIsHook DEF Launch
<1>2. UNCHANGED <<pending, chld_pid, pc, ssi_pid>>
  BY DEF Launch, NextHook, signalVars
<1>3. child[p] = "none" /\ child' = [child EXCEPT ![p] = "running"]
  BY <1>1 DEF Started
<1>4. EveryChildKnown'
  BY <1>1 DEF Started, DeathInv, EveryChildKnown
<1>5. BusyWithEach'
  <2> SUFFICES ASSUME NEW e \in pid_list', "NO_LOOP" \in Flags[e[2]]
               PROVE  spawned'[e[2]] = e[1]
    BY DEF BusyWithEach
  <2>1. CASE e = <<p, hook_>>
    BY <1>1, <2>1 DEF Started
  <2>2. CASE e # <<p, hook_>>
    <3>1. e \in pid_list /\ e[2] \in Hook /\ e[1] \in Pid
      BY <1>1, <2>2 DEF Started
    <3>2. spawned[e[2]] = e[1]
      BY <3>1 DEF DeathInv, BusyWithEach
    <3>3. e[2] # hook_
      BY <1>1, <3>1, <3>2, NoPidAssumption DEF Launchable, InProgress, NoPidAssumption
    <3> QED
      BY <1>1, <3>1, <3>2, <3>3 DEF Started
  <2> QED
    BY <2>1, <2>2
<1>6. NoneStopped'
  BY <1>3 DEF DeathInv, NoneStopped
<1>7. SignalPart'
  BY <1>2, <1>3 DEF DeathInv, SignalPart, QueuedIsDead, ReadIsDead, QueuedIsNotRead
<1> QED
  BY <1>4, <1>5, <1>6, <1>7 DEF DeathInv, SignalPart

LEMMA ReapDeath ==
  ASSUME IInv, Reap
  PROVE  DeathInv'
<1> USE DEF IInv, TypeOK, HookTypeOK
<1>1. ssi_pid \in Pid /\ child[ssi_pid] = "zombie"
  BY DEF Reap, DeathInv, ReadIsDead
<1>2. WaitPid(ssi_pid) /\ ClearSpawned(ssi_pid)
  BY <1>1 DEF Reap, ReapChild, Waitable
<1>3. child' = [child EXCEPT ![ssi_pid] = "none"] /\ image' = [image EXCEPT ![ssi_pid] = NoHook]
  BY <1>1, <1>2 DEF WaitPid
<1>4. EveryChildKnown'
  BY <1>1, <1>2, <1>3 DEF ClearSpawned, DeathInv, EveryChildKnown
<1>5. BusyWithEach'
  <2> SUFFICES ASSUME NEW e \in pid_list', "NO_LOOP" \in Flags[e[2]]
               PROVE  spawned'[e[2]] = e[1]
    BY DEF BusyWithEach
  <2>1. e \in pid_list /\ e[1] # ssi_pid /\ e[2] \in Hook
    BY <1>2 DEF ClearSpawned
  <2>2. spawned[e[2]] = e[1]
    BY <2>1 DEF DeathInv, BusyWithEach
  <2>3. <<ssi_pid, e[2]>> \notin pid_list
    BY <2>1, <2>2 DEF DeathInv, BusyWithEach
  <2> QED
    BY <1>2, <2>1, <2>2, <2>3 DEF ClearSpawned
<1>6. NoneStopped'
  BY <1>1, <1>3 DEF DeathInv, NoneStopped
<1>7. SignalPart'
  <2>1. pc = "reap" /\ pc' = "batch" /\ UNCHANGED <<pending, chld_pid>>
    BY DEF Reap, signalVars
  <2>2. "CHLD" \in pending => child'[chld_pid] = "zombie"
    BY <1>3, <2>1 DEF DeathInv, QueuedIsDead, QueuedIsNotRead
  <2> QED
    BY <2>1, <2>2 DEF SignalPart, DeathInv, QueuedIsDead, ReadIsDead, QueuedIsNotRead
<1> QED
  BY <1>4, <1>5, <1>6, <1>7 DEF DeathInv, SignalPart

LEMMA ChildDeath ==
  ASSUME Stops = FALSE, IInv, NEW p \in Pid, ChildStep(p)
  PROVE  DeathInv'
<1> USE DEF IInv, TypeOK, HookTypeOK
<1>1. Exit(p) /\ UNCHANGED loopVars
  BY DEF ChildStep, Stop, Cont, DeathInv, NoneStopped
<1>2. Alive(p) /\ child' = [child EXCEPT ![p] = "zombie"] /\ UNCHANGED <<hookVars, image>>
  BY <1>1 DEF Exit
<1>3. RecordPart'
  BY <1>2 DEF RecordPart, DeathInv, EveryChildKnown, BusyWithEach, NoneStopped, hookVars, Alive
<1>4. RaiseChild(p) /\ UNCHANGED <<pc, ssi_pid>>
  BY <1>1 DEF Exit, loopVars
<1>5. ASSUME "CHLD" \in pending PROVE SignalPart'
  BY <1>2, <1>4, <1>5 DEF RaiseChild, Wakes, SignalPart, DeathInv, QueuedIsDead, ReadIsDead,
                          QueuedIsNotRead
<1>6. ASSUME "CHLD" \notin pending PROVE SignalPart'
  <2>1. pc = "reap" => ssi_pid # p
    BY <1>2 DEF DeathInv, ReadIsDead, Alive
  <2> QED
    BY <1>2, <1>4, <1>6, <2>1 DEF RaiseChild, Wakes, SignalPart, DeathInv, QueuedIsDead, ReadIsDead,
                                  QueuedIsNotRead
<1> QED
  BY <1>3, <1>5, <1>6 DEF RecordPart, SignalPart, DeathInv

LEMMA NextDeath ==
  ASSUME Stops = FALSE
  PROVE  IInv /\ [Next]_vars => DeathInv'
<1> SUFFICES ASSUME IInv, [Next]_vars PROVE DeathInv'
  OBVIOUS
<1> USE DEF IInv
<1>1. ASSUME NEW p \in Pid, Launch(p) PROVE DeathInv'
  BY <1>1, LaunchDeath
<1>2. CASE Reap
  BY <1>2, ReapDeath
<1>3. ASSUME NEW p \in Pid, ChildStep(p) PROVE DeathInv'
  BY <1>3, ChildDeath
<1>4. ASSUME UNCHANGED <<hookVars, childVars>> PROVE RecordPart'
  BY <1>4 DEF RecordPart, DeathInv, EveryChildKnown, BusyWithEach, NoneStopped, hookVars, childVars
<1>5. ASSUME "CHLD" \in pending' => "CHLD" \in pending /\ chld_pid' = chld_pid,
             UNCHANGED <<hookVars, childVars>>,
             pc' # "reap"
      PROVE  DeathInv'
  BY <1>4, <1>5, Parts DEF DeathInv, RecordPart, QueuedIsDead, ReadIsDead, QueuedIsNotRead, childVars
<1>6. ASSUME ("CHLD" \in pending' <=> "CHLD" \in pending) /\ chld_pid' = chld_pid,
             UNCHANGED <<hookVars, childVars, pc, ssi_pid>>
      PROVE  DeathInv'
  BY <1>4, <1>6, Parts DEF DeathInv, RecordPart, QueuedIsDead, ReadIsDead, QueuedIsNotRead, childVars
<1>7. CASE EpollWait
  BY <1>5, <1>7 DEF EpollWait
<1>8. CASE TurnDone \/ HooksDone
  BY <1>5, <1>8 DEF TurnDone, HooksDone, signalVars
<1>9. ASSUME NEW pin \in i_list, HandlePin(pin) PROVE DeathInv'
  BY <1>5, <1>9, DispatchKeepsChld DEF HandlePin
<1>10. CASE HandleTimer
  BY <1>5, <1>10, DispatchKeepsChld DEF HandleTimer
<1>11. CASE SkipHook \/ LaunchFails \/ NextPin
  BY <1>6, <1>11 DEF SkipHook, LaunchFails, NextHook, NextPin, signalVars
<1>12. ASSUME NEW s \in Mask, ReadSignal(s) PROVE DeathInv'
  <2>1. UNCHANGED <<hookVars, childVars>> /\ Dequeue(s) /\ s \in pending
    BY <1>12 DEF ReadSignal, IsNext
  <2>2. CASE s # "CHLD"
    <3>1. ("CHLD" \in pending' <=> "CHLD" \in pending) /\ chld_pid' = chld_pid
      BY <2>1, <2>2 DEF Dequeue
    <3>2. pc' # "reap"
      BY <1>12, <2>2 DEF ReadSignal
    <3> QED
      BY <1>5, <2>1, <3>1, <3>2
  <2>3. CASE s = "CHLD"
    <3>1. "CHLD" \notin pending' /\ ssi_pid' = chld_pid /\ child' = child
      BY <1>12, <2>1, <2>3 DEF Dequeue, ReadSignal, childVars
    <3>2. chld_pid \in Pid /\ child[chld_pid] = "zombie"
      BY <2>1, <2>3 DEF DeathInv, QueuedIsDead
    <3> QED
      BY <1>4, <2>1, <3>1, <3>2, Parts DEF DeathInv, RecordPart, QueuedIsDead, ReadIsDead, QueuedIsNotRead
  <2> QED
    BY <2>2, <2>3
<1>13. ASSUME NEW src \in Source, Interrupt(src) PROVE DeathInv'
  BY <1>6, <1>13 DEF Interrupt, signalVars
<1>14. ASSUME NEW s \in Mask, Kill(s) PROVE DeathInv'
  <2>1. s \in Mask \ {"CHLD"} /\ Raise(s) /\ UNCHANGED <<hookVars, childVars, pc, ssi_pid>>
    BY <1>14, EventLoopAssumption DEF Kill, loopVars, EventLoopAssumption
  <2> QED
    BY <1>6, <2>1, RaiseKeepsChld
<1>15. CASE UNCHANGED vars
  BY <1>6, <1>15 DEF vars, signalVars, loopVars
<1> QED
  BY <1>1, <1>2, <1>3, <1>7, <1>8, <1>9, <1>10, <1>11, <1>12, <1>13, <1>14, <1>15
     DEF Next, LoopStep, EnvStep

LEMMA InitIInv == Init => IInv
<1> SUFFICES ASSUME Init PROVE IInv
  OBVIOUS
<1>1. Records
  BY DEF Init, HookInit, Records, PidListSound, BusyIsReal
<1>2. "CHLD" \notin pending /\ pc = "wait"
  BY EventLoopAssumption DEF Init, SignalInit, EventLoopAssumption
<1>3. pid_list = {} /\ \A p \in Pid : child[p] = "none"
  BY DEF Init, HookInit
<1> QED
  BY <1>1, <1>2, <1>3, InitType DEF IInv, DeathInv, EveryChildKnown, BusyWithEach, NoneStopped,
     QueuedIsDead, ReadIsDead, QueuedIsNotRead

LEMMA InvariantHolds ==
  ASSUME Stops = FALSE
  PROVE  Spec => []IInv
<1>1. IInv /\ [Next]_vars => IInv'
  BY NextType, NextRecords, NextDeath DEF IInv
<1> QED
  BY <1>1, InitIInv, PTL DEF Spec

LEMMA IInvExclusive == IInv => NoLoopExclusive
<1> SUFFICES ASSUME IInv,
                    NEW h \in Hook, "NO_LOOP" \in Flags[h],
                    NEW p \in Pid, NEW q \in Pid,
                    Alive(p), Alive(q), image[p] = h, image[q] = h
             PROVE  p = q
  BY DEF NoLoopExclusive
<1>1. <<p, h>> \in pid_list /\ <<q, h>> \in pid_list
  BY DEF IInv, DeathInv, EveryChildKnown, Alive
<1>2. spawned[h] = p /\ spawned[h] = q
  BY <1>1 DEF IInv, DeathInv, BusyWithEach
<1> QED
  BY <1>2

\* A NO_LOOP hook never has two living processes, as long as children are not
\* stopped and continued.
THEOREM NoLoopIsExclusive ==
  ASSUME Stops = FALSE
  PROVE  Spec => []NoLoopExclusive
<1> QED
  BY InvariantHolds, IInvExclusive, PTL

\* Under the same condition no child is forgotten before it is reaped, and the
\* loop calls waitpid for dead processes only.
THEOREM ChildrenAccounted ==
  ASSUME Stops = FALSE
  PROVE  Spec => [](EveryChildKnown /\ SigchldMeansFinished)
<1>1. IInv => EveryChildKnown /\ SigchldMeansFinished
  BY DEF IInv, DeathInv, ReadIsDead, SigchldMeansFinished
<1> QED
  BY <1>1, InvariantHolds, PTL

\* Under the same condition a busy hook becomes idle only when a process of its
\* own, dead, is reaped.
THEOREM IdleByOwnDeath ==
  ASSUME Stops = FALSE
  PROVE  Spec => FreedByOwnDeath
<1> DEFINE Freed == \A h \in Hook : spawned[h] # NoPid /\ spawned'[h] = NoPid =>
                      \E p \in Pid : child[p] = "zombie" /\ child'[p] = "none" /\ image[p] = h
<1>1. ASSUME IInv, Next PROVE Freed
  <2> SUFFICES ASSUME NEW h \in Hook, spawned[h] # NoPid, spawned'[h] = NoPid
               PROVE  \E p \in Pid : child[p] = "zombie" /\ child'[p] = "none" /\ image[p] = h
    OBVIOUS
  <2> USE <1>1 DEF IInv, TypeOK, HookTypeOK
  <2>1. ~ UNCHANGED <<hookVars, childVars>>
    BY DEF hookVars
  <2>2. ASSUME NEW p \in Pid, AtHook, Launch(p) PROVE FALSE
    BY <2>2, HookIsHook, NoPidAssumption DEF Launch, Started, NoPidAssumption
  <2>3. ASSUME NEW p \in Pid, ChildStep(p) PROVE FALSE
    BY <2>3 DEF ChildStep, Exit, Stop, Cont, hookVars
  <2>4. CASE Reap
    <3>1. ssi_pid \in Pid /\ child[ssi_pid] = "zombie"
      BY <2>4 DEF Reap, DeathInv, ReadIsDead
    <3>2. WaitPid(ssi_pid) /\ ClearSpawned(ssi_pid)
      BY <2>4, <3>1 DEF Reap, ReapChild, Waitable
    <3>3. <<ssi_pid, h>> \in pid_list
      BY <3>2 DEF ClearSpawned
    <3>4. image[ssi_pid] = h
      BY <3>3 DEF Records, PidListSound
    <3>5. child'[ssi_pid] = "none"
      BY <3>1, <3>2 DEF WaitPid
    <3> QED
      BY <3>1, <3>4, <3>5
  <2> QED
    BY <2>1, <2>2, <2>3, <2>4, RecordSteps
<1>2. IInv /\ [Next]_vars => [Freed]_vars
  BY <1>1
<1>3. Spec => [][Freed]_vars
  BY <1>2, InvariantHolds, PTL DEF Spec
<1> QED
  BY <1>3 DEF FreedByOwnDeath

-----------------------------------------------------------------------------
(***************************************************************************)
(* The loop implements HookSupervisor.  A launch is a Launch, a death is a  *)
(* Finish, everything else, the reaping included, is a stutter.             *)
(***************************************************************************)
Live(h) == {p \in Pid : Alive(p) /\ image[p] = h}

live == [h \in Hook |-> Live(h)]

LEMMA InitPromise == Init => Promise!Init
<1> SUFFICES ASSUME Init PROVE Promise!Init
  OBVIOUS
<1>1. \A p \in Pid : ~Alive(p)
  BY DEF Init, HookInit, Alive
<1>2. [h \in Hook |-> {p \in Pid : Alive(p) /\ image[p] = h}] = [h \in Hook |-> {}]
  BY <1>1
<1>3. fired = [h \in Hook |-> FALSE]
  BY DEF Init, HookInit
<1> QED
  BY <1>2, <1>3 DEF Promise!Init

LEMMA LaunchPromise ==
  ASSUME IInv, NEW h \in Hook, h = hook_, NEW p \in Pid, Launch(p)
  PROVE  Promise!Launch(h, p)
<1> USE DEF IInv, TypeOK, HookTypeOK
<1>1. Started(h, p) /\ Launchable(h, event_)
  BY DEF Launch
<1>2. child[p] = "none" /\ child'[p] = "running" /\ image'[p] = h
  BY <1>1 DEF Started
<1>3. \A q \in Pid \ {p} : child'[q] = child[q] /\ image'[q] = image[q]
  BY <1>1 DEF Started
<1>4. \A k \in Hook : p \notin live[k]
  BY <1>2 DEF live, Live, Alive
<1>5. "NO_LOOP" \in Flags[h] => live[h] = {}
  <2> SUFFICES ASSUME "NO_LOOP" \in Flags[h], NEW q \in Pid, Alive(q), image[q] = h
               PROVE  FALSE
    BY <1>1 DEF live, Live
  <2>1. <<q, h>> \in pid_list
    BY DEF DeathInv, EveryChildKnown, Alive
  <2>2. spawned[h] = q
    BY <2>1 DEF DeathInv, BusyWithEach
  <2> QED
    BY <1>1, <2>2, NoPidAssumption DEF Launchable, InProgress, NoPidAssumption
<1>6. "ONESHOT" \in Flags[h] => ~fired[h]
  BY <1>1 DEF Launchable, AlreadyFired
<1>7. live' = [live EXCEPT ![h] = @ \cup {p}]
  <2> DEFINE After(k) == {q \in Pid : child'[q] \in {"running", "stopped"} /\ image'[q] = k}
  <2>1. ASSUME NEW k \in Hook, k # h PROVE After(k) = Live(k)
    BY <1>2, <1>3, <2>1 DEF Live, Alive
  <2>2. After(h) = Live(h) \cup {p}
    BY <1>1, <1>2, <1>3 DEF Live, Alive
  <2>3. live' = [k \in Hook |-> After(k)]
    BY DEF live, Live, Alive
  <2>4. [live EXCEPT ![h] = @ \cup {p}]
          = [k \in Hook |-> IF k = h THEN Live(h) \cup {p} ELSE Live(k)]
    BY <1>1 DEF live
  <2> HIDE DEF After
  <2>5. [k \in Hook |-> After(k)] = [k \in Hook |-> IF k = h THEN After(h) ELSE Live(k)]
    BY <2>1
  <2> QED
    BY <2>2, <2>3, <2>4, <2>5
<1>8. fired' = [fired EXCEPT ![h] = TRUE]
  BY <1>1 DEF Started
<1> QED
  BY <1>4, <1>5, <1>6, <1>7, <1>8 DEF Promise!Launch, live, Live

LEMMA ExitPromise ==
  ASSUME IInv, NEW h \in Hook, NEW p \in Pid, image[p] = h, Exit(p)
  PROVE  Promise!Finish(h, p)
<1> USE DEF IInv, TypeOK, HookTypeOK
<1>1. Alive(p) /\ child' = [child EXCEPT ![p] = "zombie"] /\ UNCHANGED <<image, fired>>
  BY DEF Exit, hookVars
<1>2. p \in live[h]
  BY <1>1 DEF live, Live, Alive
<1>3. child'[p] = "zombie" /\ \A q \in Pid \ {p} : child'[q] = child[q]
  BY <1>1
<1>4. live' = [live EXCEPT ![h] = @ \ {p}]
  <2> DEFINE After(k) == {q \in Pid : child'[q] \in {"running", "stopped"} /\ image'[q] = k}
  <2>1. ASSUME NEW k \in Hook, k # h PROVE After(k) = Live(k)
    BY <1>1, <1>3, <2>1 DEF Live, Alive
  <2>2. After(h) = Live(h) \ {p}
    BY <1>1, <1>3 DEF Live, Alive
  <2>3. live' = [k \in Hook |-> After(k)]
    BY DEF live, Live, Alive
  <2>4. [live EXCEPT ![h] = @ \ {p}]
          = [k \in Hook |-> IF k = h THEN Live(h) \ {p} ELSE Live(k)]
    BY DEF live
  <2> HIDE DEF After
  <2>5. [k \in Hook |-> After(k)] = [k \in Hook |-> IF k = h THEN After(h) ELSE Live(k)]
    BY <2>1
  <2> QED
    BY <2>2, <2>3, <2>4, <2>5
<1> QED
  BY <1>1, <1>2, <1>4 DEF Promise!Finish, live, Live

LEMMA ReapPromise ==
  ASSUME IInv, Reap
  PROVE  live' = live /\ fired' = fired
<1> USE DEF IInv, TypeOK, HookTypeOK
<1>1. ssi_pid \in Pid /\ child[ssi_pid] = "zombie"
  BY DEF Reap, DeathInv, ReadIsDead
<1>2. WaitPid(ssi_pid) /\ ClearSpawned(ssi_pid)
  BY <1>1 DEF Reap, ReapChild, Waitable
<1>3. child'[ssi_pid] = "none"
  BY <1>1, <1>2 DEF WaitPid
<1>4. \A q \in Pid \ {ssi_pid} : child'[q] = child[q] /\ image'[q] = image[q]
  BY <1>1, <1>2 DEF WaitPid
<1>5. ASSUME NEW h \in Hook PROVE Live(h)' = Live(h)
  BY <1>1, <1>3, <1>4 DEF Live, Alive
<1> QED
  BY <1>2, <1>5 DEF live, Live, Alive, ClearSpawned

\* Every behaviour of the loop is one HookSupervisor allows, provided children
\* are not stopped and continued.
THEOREM Implements ==
  ASSUME Stops = FALSE
  PROVE  Spec => KeepsPromise
<1>1. ASSUME IInv, [Next]_vars PROVE [Promise!Next]_<<live, fired>>
  <2> USE <1>1
  <2>1. CASE UNCHANGED <<hookVars, childVars>>
    BY <2>1 DEF hookVars, childVars, live, Live, Alive
  <2>2. ASSUME NEW p \in Pid, AtHook, Launch(p) PROVE Promise!Next
    <3>1. PICK h \in Hook : h = hook_
      BY <2>2, HookIsHook DEF IInv
    <3>2. Promise!Launch(h, p)
      BY <2>2, <3>1, LaunchPromise
    <3> QED
      BY <3>2 DEF Promise!Next
  <2>3. CASE Reap
    BY <2>3, ReapPromise
  <2>4. ASSUME NEW p \in Pid, ChildStep(p) PROVE Promise!Next
    <3>1. Exit(p)
      BY <2>4 DEF ChildStep, Stop, Cont, IInv, DeathInv, NoneStopped
    <3>2. PICK h \in Hook : image[p] = h
      BY <3>1 DEF Exit, Alive, IInv, TypeOK, HookTypeOK, DeathInv, EveryChildKnown
    <3>3. Promise!Finish(h, p)
      BY <3>1, <3>2, ExitPromise
    <3> QED
      BY <3>3 DEF Promise!Next
  <2> QED
    BY <2>1, <2>2, <2>3, <2>4, RecordSteps
<1>2. [Promise!Next]_<<live, fired>>
        = [Promise!Next]_<<[h \in Hook |-> {p \in Pid : Alive(p) /\ image[p] = h}], fired>>
  BY DEF live, Live
<1>3. IInv /\ [Next]_vars =>
        [Promise!Next]_<<[h \in Hook |-> {p \in Pid : Alive(p) /\ image[p] = h}], fired>>
  BY <1>1, <1>2
<1>4. Spec => Promise!Spec
  BY <1>3, InitPromise, InvariantHolds, PTL DEF Spec, Promise!Spec
<1> QED
  BY <1>4 DEF KeepsPromise

=============================================================================
