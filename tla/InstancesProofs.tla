-------------------------- MODULE InstancesProofs --------------------------
(***************************************************************************)
(* Proofs about Instances, for any number of instances and any command      *)
(* lines, with crashes and reused process ids or without.                   *)
(***************************************************************************)
EXTENDS Instances, TLAPS

\* A process id is probed or signalled only after it was read from the file.
PidRead == \A i \in Inst : pc[i] \in {"probe", "stale", "signal"} => pid[i] \in Inst

\* The port and the loops go together.
LoopHoldsPort == \A i \in Inst : pc[i] = "loop" <=> port = i

\* A pid file was created by an instance that still has to come to its unlink,
\* or died before it could.
Owning == {"write", "mask", "config", "bind", "loop", "unlink"}
FileHasOwner ==
  /\ file.by = NoInst => file = NoFile
  /\ \A i \in Inst : file.by = i => i \in dead \/ pc[i] \in Owning

IInv == TypeOK /\ PidRead /\ LoopHoldsPort /\ FileHasOwner

-----------------------------------------------------------------------------
LEMMA InitIInv == Init => IInv
<1> SUFFICES ASSUME Init PROVE IInv
  OBVIOUS
<1>1. TypeOK
  BY DEF Init, TypeOK, NoFile
<1>2. PidRead /\ LoopHoldsPort /\ FileHasOwner
  BY InstancesAssumption DEF Init, PidRead, LoopHoldsPort, FileHasOwner, InstancesAssumption, NoFile
<1> QED
  BY <1>1, <1>2 DEF IInv

\* A signal changes the place of the sender and, at most, of a target that does
\* not block signals and so has no port yet.
LEMMA SignalIInv ==
  ASSUME IInv, NEW i \in Inst, Signal(i)
  PROVE  IInv'
<1> DEFINE target == pid[i]
<1> USE DEF IInv
<1>1. target \in Inst
  BY DEF Signal, PidRead
<1>2. CASE Runs(target) /\ ~Blocked(target)
  <2>1. pc' = [pc EXCEPT ![i] = "end", ![target] = "end"] /\ dead' = dead \cup {target}
    BY <1>2 DEF Signal
  <2>2. UNCHANGED <<opt, overlap, file, port, pid, term, foreign>>
    BY <1>2 DEF Signal
  <2>3. TypeOK'
    BY <1>1, <2>1, <2>2 DEF TypeOK
  <2>4. PidRead' /\ LoopHoldsPort'
    BY <1>1, <1>2, <2>1, <2>2 DEF TypeOK, PidRead, LoopHoldsPort, Signal, Blocked
  <2>5. FileHasOwner'
    BY <1>1, <2>1, <2>2 DEF TypeOK, FileHasOwner, Owning, Signal, NoFile
  <2> QED
    BY <2>3, <2>4, <2>5
<1>3. CASE ~(Runs(target) /\ ~Blocked(target))
  <2>1. pc' = [pc EXCEPT ![i] = "end"] /\ UNCHANGED <<opt, overlap, file, port, pid, foreign, dead>>
    BY <1>3 DEF Signal, Goto
  <2>2. term' \subseteq Inst
    BY <1>1, <1>3 DEF Signal, TypeOK
  <2>3. TypeOK'
    BY <2>1, <2>2 DEF TypeOK
  <2>4. PidRead' /\ LoopHoldsPort'
    BY <2>1 DEF TypeOK, PidRead, LoopHoldsPort, Signal
  <2>5. FileHasOwner'
    BY <2>1 DEF TypeOK, FileHasOwner, Owning, Signal, NoFile
  <2> QED
    BY <2>3, <2>4, <2>5
<1> QED
  BY <1>2, <1>3

LEMMA NextIInv == IInv /\ [Next]_vars => IInv'
<1> SUFFICES ASSUME IInv, [Next]_vars PROVE IInv'
  OBVIOUS
<1> USE InstancesAssumption DEF IInv, InstancesAssumption, TypeOK, PidRead, LoopHoldsPort,
        FileHasOwner, Owning, NoFile, Goto
<1>1. CASE UNCHANGED vars
  BY <1>1 DEF vars
<1>2. ASSUME NEW i \in Inst, Start(i) PROVE IInv'
  BY <1>2 DEF Start
<1>3. ASSUME NEW i \in Inst, ReadPidFile(i) PROVE IInv'
  BY <1>3 DEF ReadPidFile
<1>4. ASSUME NEW i \in Inst, Probe(i) PROVE IInv'
  BY <1>4 DEF Probe
<1>5. ASSUME NEW i \in Inst, UnlinkStale(i) PROVE IInv'
  BY <1>5 DEF UnlinkStale
<1>6. ASSUME NEW i \in Inst, Signal(i) PROVE IInv'
  BY <1>6, SignalIInv
<1>7. ASSUME NEW i \in Inst, CreatePidFile(i) PROVE IInv'
  BY <1>7 DEF CreatePidFile
<1>8. ASSUME NEW i \in Inst, WritePid(i) PROVE IInv'
  BY <1>8 DEF WritePid
<1>9. ASSUME NEW i \in Inst, BlockSignals(i) PROVE IInv'
  BY <1>9 DEF BlockSignals
<1>10. ASSUME NEW i \in Inst, Configure(i) PROVE IInv'
  BY <1>10 DEF Configure
<1>11. ASSUME NEW i \in Inst, Bind(i) PROVE IInv'
  BY <1>11 DEF Bind
<1>12. ASSUME NEW i \in Inst, LoopEnds(i) PROVE IInv'
  BY <1>12 DEF LoopEnds
<1>13. ASSUME NEW i \in Inst, Unlink(i) PROVE IInv'
  BY <1>13 DEF Unlink
<1>14. ASSUME NEW i \in Inst, Crash(i) PROVE IInv'
  BY <1>14 DEF Crash, Runs
<1>15. ASSUME NEW i \in Inst, TakePid(i) PROVE IInv'
  BY <1>15 DEF TakePid
<1> QED
  BY <1>1, <1>2, <1>3, <1>4, <1>5, <1>6, <1>7, <1>8, <1>9, <1>10, <1>11, <1>12, <1>13, <1>14, <1>15
     DEF Next, Step

LEMMA InvariantHolds == Spec => []IInv
<1> QED
  BY InitIInv, NextIInv, PTL DEF Spec

-----------------------------------------------------------------------------
\* Two instances never watch the pins at the same time, however their starts
\* interleave and whatever the pid file says.
THEOREM OnlyOneLoop == Spec => []OneLoop
<1>1. IInv => OneLoop
  BY DEF IInv, LoopHoldsPort, OneLoop
<1> QED
  BY <1>1, InvariantHolds, PTL

\* Whoever is bound to the port runs its loop: a port is never lost.
THEOREM PortFollowsLoop == Spec => []PortIsLive
<1>1. IInv => PortIsLive
  BY DEF IInv, TypeOK, LoopHoldsPort, PortIsLive
<1> QED
  BY <1>1, InvariantHolds, PTL

\* When all have ended and none died, no pid file is left, although each
\* removes whatever file it finds.
THEOREM NothingLeft == Spec => []CleanEnd
<1>1. ASSUME IInv, \A i \in Inst : ~Runs(i), dead = {} PROVE file = NoFile
  <2>1. \A i \in Inst : file.by # i
    BY <1>1 DEF IInv, FileHasOwner, Owning, Runs
  <2>2. file.by \in Inst \cup {NoInst}
    BY <1>1 DEF IInv, TypeOK
  <2> QED
    BY <1>1, <2>1, <2>2 DEF IInv, FileHasOwner
<1>2. IInv => CleanEnd
  BY <1>1 DEF CleanEnd
<1> QED
  BY <1>2, InvariantHolds, PTL

\* Every variable keeps its type.
THEOREM TypeCorrect == Spec => []TypeOK
<1>1. IInv => TypeOK
  BY DEF IInv
<1> QED
  BY <1>1, InvariantHolds, PTL

-----------------------------------------------------------------------------
(***************************************************************************)
(* Instances that are started one after the other.                          *)
(***************************************************************************)
Marked == {"create", "write", "mask", "config", "bind", "loop", "unlink"}

\* k was started to signal m, and m cannot end before, except by force.
Companion(k, m) ==
  /\ opt[k] # "start" /\ pc[k] \in {"read", "probe", "signal"}
  /\ pc[m] = "loop" /\ m \notin term /\ file.text = m

\* Two run at the same time only when one is there to signal the other.
Solo == \A i, j \in Inst : i # j /\ Runs(i) /\ Runs(j) => Companion(i, j) \/ Companion(j, i)

\* A pid that was read belongs to one that died or to one that loops.
ReadPidIsTrue ==
  \A k \in Inst : pc[k] \in {"probe", "stale", "signal"} =>
    pid[k] \in dead \/ (pid[k] # k /\ pc[pid[k]] = "loop")

\* The file holds the pid of its creator, or nothing yet.
TextIsCreator == file.text \in {file.by, NoInst}

EndedForGood == \A i \in dead \cup foreign : pc[i] = "end"

\* No instance that is past its look at the file leaves another's pid there.
OwnOrNone == foreign = {} => \A i \in Inst : pc[i] \in Marked => file.text \in {i, NoInst}

OneAfterOther == Solo /\ ReadPidIsTrue /\ EndedForGood /\ OwnOrNone

LInv == IInv /\ TextIsCreator /\ (~overlap => OneAfterOther)

LEMMA InitLInv == Init => LInv
<1> SUFFICES ASSUME Init PROVE LInv
  OBVIOUS
<1>1. IInv
  BY InitIInv
<1>2. TextIsCreator /\ OneAfterOther
  BY DEF Init, TextIsCreator, OneAfterOther, Solo, ReadPidIsTrue, EndedForGood, OwnOrNone,
         Runs, Marked, NoFile
<1> QED
  BY <1>1, <1>2 DEF LInv

LEMMA TextKept == IInv /\ TextIsCreator /\ [Next]_vars => TextIsCreator'
<1> SUFFICES ASSUME IInv, TextIsCreator, [Next]_vars PROVE TextIsCreator'
  OBVIOUS
<1>1. file' \in {file, NoFile} \/ \E i \in Inst : CreatePidFile(i) \/ WritePid(i)
  BY DEF Next, Step, vars, Start, ReadPidFile, Probe, UnlinkStale, Signal, BlockSignals, Configure,
         Bind, LoopEnds, Unlink, Crash, TakePid
<1>2. ASSUME NEW i \in Inst, CreatePidFile(i) \/ WritePid(i) PROVE TextIsCreator'
  BY <1>2 DEF CreatePidFile, WritePid, TextIsCreator, IInv, TypeOK
<1> QED
  BY <1>1, <1>2 DEF TextIsCreator, NoFile

\* What may be read from the file by one that is started after the others.
LEMMA WhatIsRead ==
  ASSUME LInv, ~overlap, NEW i \in Inst, pc[i] = "read", file.text # NoInst
  PROVE  /\ file.text \in Inst /\ file.text # i
         /\ file.text \in dead \/ (opt[i] # "start" /\ pc[file.text] = "loop")
<1> DEFINE j == file.text
<1>1. j \in Inst /\ file.by = j
  BY InstancesAssumption DEF LInv, IInv, TypeOK, TextIsCreator, InstancesAssumption
<1>2. j \in dead \/ pc[j] \in Owning
  BY <1>1 DEF LInv, IInv, FileHasOwner
<1>3. j # i
  BY <1>2 DEF LInv, OneAfterOther, EndedForGood, Owning
<1>4. CASE j \notin dead
  <2>1. Runs(i) /\ Runs(j)
    BY <1>2, <1>4 DEF Runs, Owning
  <2>2. Companion(i, j)
    BY <1>1, <1>3, <2>1 DEF LInv, OneAfterOther, Solo, Companion
  <2> QED
    BY <1>1, <1>3, <2>2 DEF Companion
<1> QED
  BY <1>1, <1>3, <1>4

LEMMA SoloKept ==
  ASSUME LInv, ~overlap, [Next]_vars
  PROVE  OneAfterOther'
<1> USE InstancesAssumption DEF InstancesAssumption, LInv, IInv, OneAfterOther, Solo, ReadPidIsTrue,
        EndedForGood, OwnOrNone, Companion, TypeOK, Runs, Marked, Goto, NoFile
<1>1. CASE UNCHANGED vars
  BY <1>1 DEF vars
<1>2. ASSUME NEW i \in Inst, Start(i) PROVE OneAfterOther'
  BY <1>2 DEF Start, CanBeSignalled
<1>3. ASSUME NEW i \in Inst, ReadPidFile(i) PROVE OneAfterOther'
  BY <1>3, WhatIsRead DEF ReadPidFile
<1>4. ASSUME NEW i \in Inst, Probe(i) PROVE OneAfterOther'
  BY <1>4 DEF Probe, Exists, PidRead
<1>5. ASSUME NEW i \in Inst, UnlinkStale(i) PROVE OneAfterOther'
  BY <1>5 DEF UnlinkStale
<1>6. ASSUME NEW i \in Inst, Signal(i) PROVE OneAfterOther'
  BY <1>6 DEF Signal, Blocked, PidRead
<1>7. ASSUME NEW i \in Inst, CreatePidFile(i) PROVE OneAfterOther'
  BY <1>7 DEF CreatePidFile
<1>8. ASSUME NEW i \in Inst, WritePid(i) PROVE OneAfterOther'
  BY <1>8 DEF WritePid
<1>9. ASSUME NEW i \in Inst, BlockSignals(i) PROVE OneAfterOther'
  BY <1>9 DEF BlockSignals
<1>10. ASSUME NEW i \in Inst, Configure(i) PROVE OneAfterOther'
  BY <1>10 DEF Configure
<1>11. ASSUME NEW i \in Inst, Bind(i) PROVE OneAfterOther'
  BY <1>11 DEF Bind
<1>12. ASSUME NEW i \in Inst, LoopEnds(i) PROVE OneAfterOther'
  BY <1>12 DEF LoopEnds
<1>13. ASSUME NEW i \in Inst, Unlink(i) PROVE OneAfterOther'
  BY <1>13 DEF Unlink
<1>14. ASSUME NEW i \in Inst, Crash(i) PROVE OneAfterOther'
  BY <1>14 DEF Crash
<1>15. ASSUME NEW i \in Inst, TakePid(i) PROVE OneAfterOther'
  BY <1>15 DEF TakePid
<1> QED
  BY <1>1, <1>2, <1>3, <1>4, <1>5, <1>6, <1>7, <1>8, <1>9, <1>10, <1>11, <1>12, <1>13, <1>14, <1>15
     DEF Next, Step

LEMMA OneByOne == Spec => []LInv
<1>1. LInv /\ [Next]_vars => overlap' = overlap
  BY DEF Next, Step, vars, Start, ReadPidFile, Probe, UnlinkStale, Signal, CreatePidFile, WritePid,
         BlockSignals, Configure, Bind, LoopEnds, Unlink, Crash, TakePid
<1>2. LInv /\ [Next]_vars => LInv'
  BY <1>1, NextIInv, TextKept, SoloKept DEF LInv
<1> QED
  BY InitLInv, <1>2, PTL DEF Spec

\* An instance that is started after the others is not hidden behind the pid of
\* one of them (gpiod.c:177-185), as long as no other program has got that pid.
THEOREM CanBeFound == Spec => []NotHidden
<1>1. LInv => NotHidden
  BY DEF LInv, OneAfterOther, OwnOrNone, NotHidden, Marked
<1> QED
  BY <1>1, OneByOne, PTL

=============================================================================
