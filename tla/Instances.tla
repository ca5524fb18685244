----------------------------- MODULE Instances -----------------------------
(***************************************************************************)
(* Several runs of gpiod on one machine: the pid file they share            *)
(* (gpiod.c:175-212, 280-281, daemonize.h:65-124), the listening port only  *)
(* one of them can have, and the signals one sends to another.              *)
(*                                                                         *)
(* An instance stands for its process: daemonize forks before the pid file  *)
(* is written.  A step is a system call on what the instances share.        *)
(***************************************************************************)
EXTENDS Integers

CONSTANTS
  Inst,
  NoInst,
  Opts,     \* the command lines considered
  Overlaps, \* the values of overlap considered
  Crashes,  \* TRUE: an instance may die without a word
  Reuse     \* TRUE: the process id of an ended instance may go to another program

ASSUME InstancesAssumption ==
  /\ NoInst \notin Inst
  /\ Opts \subseteq [Inst -> {"start", "kill", "hup"}]
  /\ Overlaps \subseteq BOOLEAN /\ {Crashes, Reuse} \subseteq BOOLEAN

VARIABLES
  opt,     \* the command line: "start" (neither -k nor -H), "kill" or "hup"
  overlap, \* FALSE: started when the others have ended, or to signal one of them
  file,    \* the pid file: who created it and whose pid it holds
  port,    \* who is bound to the port
  pc,
  pid,     \* the pid read from the file
  term,    \* instances with a SIGTERM pending
  foreign, \* instances whose process id belongs to another program now
  dead     \* instances that died without cleaning up

vars == <<opt, overlap, file, port, pc, pid, term, foreign, dead>>

NoFile == [by |-> NoInst, text |-> NoInst]

TypeOK ==
  /\ opt \in Opts
  /\ overlap \in Overlaps
  /\ file \in [by : Inst \cup {NoInst}, text : Inst \cup {NoInst}]
  /\ port \in Inst \cup {NoInst}
  /\ pc \in [Inst -> {"off", "read", "probe", "stale", "signal", "create", "write", "mask",
                      "config", "bind", "loop", "unlink", "end"}]
  /\ pid \in [Inst -> Inst \cup {NoInst}]
  /\ term \subseteq Inst
  /\ foreign \subseteq Inst
  /\ dead \subseteq Inst

Init ==
  /\ opt \in Opts
  /\ overlap \in Overlaps
  /\ file = NoFile
  /\ port = NoInst
  /\ pc = [i \in Inst |-> "off"]
  /\ pid = [i \in Inst |-> NoInst]
  /\ term = {}
  /\ foreign = {}
  /\ dead = {}

Runs(i) == pc[i] \notin {"off", "end"}
Exists(i) == Runs(i) \/ i \in foreign
Goto(i, where) == pc' = [pc EXCEPT ![i] = where]

-----------------------------------------------------------------------------
\* It loops, goes on looping and can be found.
CanBeSignalled(j) == pc[j] = "loop" /\ j \notin term /\ file.text = j

Start(i) ==
  /\ pc[i] = "off"
  /\ overlap \/ \A j \in Inst : ~Runs(j) \/ (CanBeSignalled(j) /\ opt[i] # "start")
  /\ Goto(i, "read")
  /\ UNCHANGED <<opt, overlap, file, port, pid, term, foreign, dead>>

\* read_pid_file: no file and an empty one both give -1, and the instance goes
\* on to become a daemon whatever its options.
ReadPidFile(i) ==
  /\ pc[i] = "read"
  /\ pid' = [pid EXCEPT ![i] = file.text]
  /\ Goto(i, IF file.text = NoInst THEN "create" ELSE "probe")
  /\ UNCHANGED <<opt, overlap, file, port, term, foreign, dead>>

\* kill(pid, 0).  A living process and no option: on as well.
Probe(i) ==
  /\ pc[i] = "probe"
  /\ Goto(i, IF Exists(pid[i])
             THEN IF opt[i] = "start" THEN "create" ELSE "signal"
             ELSE IF opt[i] = "start" THEN "stale" ELSE "end")
  /\ UNCHANGED <<opt, overlap, file, port, pid, term, foreign, dead>>

\* Mutant: the old file is left where it is.
UnlinkStale_Kept(i) ==
  /\ pc[i] = "stale"
  /\ Goto(i, "create")
  /\ UNCHANGED <<opt, overlap, file, port, pid, term, foreign, dead>>

\* The file is removed by its name, whoever has created it since.
UnlinkStale(i) ==
  /\ pc[i] = "stale"
  /\ file' = NoFile
  /\ Goto(i, "create")
  /\ UNCHANGED <<opt, overlap, port, pid, term, foreign, dead>>

\* SIGTERM and SIGHUP end a process that does not block them yet.  In its loop a
\* SIGHUP only sets hup_flag, which nothing reads (event-loop.c:319-321).
Blocked(i) == pc[i] \in {"config", "bind", "loop", "unlink"}

Signal(i) ==
  /\ pc[i] = "signal"
  /\ LET target == pid[i] IN
       /\ IF Runs(target) /\ ~Blocked(target)
          THEN /\ pc' = [pc EXCEPT ![i] = "end", ![target] = "end"]
               /\ dead' = dead \cup {target}
               /\ UNCHANGED term
          ELSE /\ Goto(i, "end")
               /\ term' = IF Runs(target) /\ opt[i] = "kill" THEN term \cup {target} ELSE term
               /\ UNCHANGED dead
  /\ UNCHANGED <<opt, overlap, file, port, pid, foreign>>

\* create_pid_file fails when there is a file, which is only logged.
CreatePidFile(i) ==
  /\ pc[i] = "create"
  /\ IF file = NoFile
     THEN file' = [by |-> i, text |-> NoInst] /\ Goto(i, "write")
     ELSE Goto(i, "mask") /\ UNCHANGED file
  /\ UNCHANGED <<opt, overlap, port, pid, term, foreign, dead>>

\* The pid goes into the file that was created, if that still has its name.
WritePid(i) ==
  /\ pc[i] = "write"
  /\ file' = IF file.by = i THEN [file EXCEPT !.text = i] ELSE file
  /\ Goto(i, "mask")
  /\ UNCHANGED <<opt, overlap, port, pid, term, foreign, dead>>

BlockSignals(i) ==
  /\ pc[i] = "mask"
  /\ Goto(i, "config")
  /\ UNCHANGED <<opt, overlap, file, port, pid, term, foreign, dead>>

\* Mutant: the pid file is not removed on this way out.
Configure_Quits(i) ==
  /\ pc[i] = "config"
  /\ \E where \in {"bind", "end"} : Goto(i, where)
  /\ UNCHANGED <<opt, overlap, file, port, pid, term, foreign, dead>>

\* Configuration, tabs, chips, sysfs and pins: any of them may end it.
Configure(i) ==
  /\ pc[i] = "config"
  /\ \E where \in {"bind", "unlink"} : Goto(i, where)
  /\ UNCHANGED <<opt, overlap, file, port, pid, term, foreign, dead>>

\* Mutant: a failing bind is passed over.
Bind_Ignored(i) ==
  /\ pc[i] = "bind"
  /\ port' = IF port = NoInst THEN i ELSE port
  /\ Goto(i, "loop")
  /\ UNCHANGED <<opt, overlap, file, pid, term, foreign, dead>>

\* Mutant: bind is tried until it succeeds.
Bind_Waits(i) ==
  /\ pc[i] = "bind"
  /\ port = NoInst
  /\ port' = i
  /\ Goto(i, "loop")
  /\ UNCHANGED <<opt, overlap, file, pid, term, foreign, dead>>

\* loop: without the port it returns at once.
Bind(i) ==
  /\ pc[i] = "bind"
  /\ IF port = NoInst
     THEN port' = i /\ Goto(i, "loop")
     ELSE Goto(i, "unlink") /\ UNCHANGED port
  /\ UNCHANGED <<opt, overlap, file, pid, term, foreign, dead>>

LoopEnds(i) ==
  /\ pc[i] = "loop"
  /\ i \in term
  /\ port' = NoInst
  /\ Goto(i, "unlink")
  /\ UNCHANGED <<opt, overlap, file, pid, term, foreign, dead>>

\* unlink(pidFile), whoever's it is.
Unlink(i) ==
  /\ pc[i] = "unlink"
  /\ file' = NoFile
  /\ Goto(i, "end")
  /\ UNCHANGED <<opt, overlap, port, pid, term, foreign, dead>>

Step(i) ==
  \/ ReadPidFile(i) \/ Probe(i) \/ UnlinkStale(i) \/ Signal(i)
  \/ CreatePidFile(i) \/ WritePid(i) \/ BlockSignals(i) \/ Configure(i)
  \/ Bind(i) \/ LoopEnds(i) \/ Unlink(i)

-----------------------------------------------------------------------------
Crash(i) ==
  /\ Crashes
  /\ Runs(i)
  /\ Goto(i, "end")
  /\ dead' = dead \cup {i}
  /\ port' = IF port = i THEN NoInst ELSE port
  /\ UNCHANGED <<opt, overlap, file, pid, term, foreign>>

TakePid(i) ==
  /\ Reuse
  /\ pc[i] = "end"
  /\ i \notin foreign
  /\ foreign' = foreign \cup {i}
  /\ UNCHANGED <<opt, overlap, file, port, pc, pid, term, dead>>

Next == \E i \in Inst : Start(i) \/ Step(i) \/ Crash(i) \/ TakePid(i)

Spec == Init /\ [][Next]_vars

\* An instance that has been started goes on until it loops, and on its way out.
\* Nothing makes it leave its loop: a SIGTERM may stay unread behind another signal
\* (event-loop.c:307, EventLoop!ShutdownHeard) or a write that blocks (server.c:93).
FairSpec == Spec /\ \A i \in Inst : WF_vars(pc[i] # "loop" /\ Step(i))

-----------------------------------------------------------------------------
(***************************************************************************)
(* Correctness.                                                             *)
(***************************************************************************)
\* Two instances never watch the pins at the same time, however their starts
\* interleave and whatever the pid file says (gpiod-event-loop.c:131-137).
OneLoop == \A i, j \in Inst : pc[i] = "loop" /\ pc[j] = "loop" => i = j

\* When all instances have ended, none of them by force, no pid file is left
\* (gpiod.c:280-281).
CleanEnd == (\A i \in Inst : ~Runs(i)) /\ dead = {} => file = NoFile

\* An instance that is started after the others, dead or not, is not hidden
\* behind the pid of one of them (gpiod.c:177-185), as long as no other
\* program has got that pid.
NotHidden ==
  ~overlap /\ foreign = {} => \A i \in Inst : pc[i] = "loop" => file.text \in {i, NoInst}

\* Every instance that has been started gets to its loop or ends, whatever the
\* pid file says, whoever has the port and whoever loops for good meanwhile.
Settles == \A i \in Inst : pc[i] = "read" ~> pc[i] \in {"loop", "end"}

\* A freed port can be had again: somebody who is bound to it runs.
PortIsLive == port # NoInst => pc[port] = "loop"

=============================================================================
