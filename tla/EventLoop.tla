------------------------------ MODULE EventLoop ------------------------------
(***************************************************************************)
(* The event loop of gpiod (gpiod-event-loop.c:83-367) as far as signals,   *)
(* pins and hooks go: one thread that waits in epoll_wait, takes a batch of *)
(* ready descriptors and serves them one after the other, while children,   *)
(* pins and whoever sends signals go on.                                    *)
(*                                                                         *)
(* A step of the loop ends where the code makes a system call whose result  *)
(* another actor can have changed: epoll_wait, the read of the signalfd,    *)
(* waitpid, each fork.  Clients are in module Clients: here a dispatch to   *)
(* them may only leave a SIGPIPE behind.                                    *)
(***************************************************************************)
EXTENDS Hooks, Sequences

CONSTANTS
  Pin,        \* the configured pins
  i_list,     \* the pins that interrupt: rising, falling or both edges
  p_list,     \* the pins read at every tick of the timer, in order
  HookList,   \* pin->hook_list
  Sent        \* the signals that reach gpiod besides SIGCHLD

ASSUME EventLoopAssumption ==
  /\ i_list \subseteq Pin
  /\ p_list \in Seq(Pin)
  /\ HookList \in [Pin -> Seq(Hook)]
  /\ Sent \subseteq Mask \ {"CHLD"}

\* Source tags of the two descriptors that are no pins.
Timer == "timer"
Signal == "signal"

ASSUME SourceAssumption == Timer \notin Pin /\ Signal \notin Pin

(***************************************************************************)
(* pin->changed leaves an edge in the loop's `event`, or GPIOD_EDGE_MAX.    *)
(* A pin that has not changed is skipped, which does to hooks what an event *)
(* of "MAX" does: nothing.                                                  *)
(***************************************************************************)
Event == {"RISING", "FALLING", "MAX"}

VARIABLES
  pc,            \* where the loop is
  batch,         \* the events of this turn not served yet
  irq,           \* pins and timer with something to read
  todo,          \* the <<pin, event>> whose hooks are to be run
  pos,           \* position in the hook list of the first of them
  ssi_pid,       \* ssi_pid of the SIGCHLD just read
  shutdown_flag,
  hup_flag

loopVars == <<pc, batch, irq, todo, pos, ssi_pid, shutdown_flag, hup_flag>>
vars == <<signalVars, hookVars, childVars, loopVars>>

Source == i_list \cup {Timer}

LoopTypeOK ==
  /\ pc \in {"wait", "batch", "hooks", "reap", "exit"}
  /\ batch \subseteq Source \cup {Signal}
  /\ irq \subseteq Source
  /\ todo \in Seq(Pin \X Event)
  /\ pos \in Nat \ {0}
  /\ ssi_pid \in Pid \cup {NoPid}
  /\ shutdown_flag \in BOOLEAN
  /\ hup_flag \in BOOLEAN

Init ==
  /\ \E early \in SUBSET (Sent \ {"PIPE"}) : SignalInit(early)
  /\ HookInit
  /\ pc = "wait"
  /\ batch = {}
  /\ irq = {}
  /\ todo = <<>>
  /\ pos = 1
  /\ ssi_pid = NoPid
  /\ shutdown_flag = FALSE
  /\ hup_flag = FALSE

-----------------------------------------------------------------------------
(***************************************************************************)
(* A turn of the loop.                                                      *)
(***************************************************************************)
Ready == irq \cup (IF SignalReady THEN {Signal} ELSE {})

EpollWait ==
  /\ pc = "wait"
  /\ Ready # {}
  /\ batch' = Ready
  /\ edge' = FALSE
  /\ pc' = "batch"
  /\ UNCHANGED <<pending, chld_pid, hookVars, childVars, irq, todo, pos, ssi_pid,
                 shutdown_flag, hup_flag>>

(***************************************************************************)
(* The batch is served: the loop's condition is tested only here, so a      *)
(* shutdown asked for in the middle of a batch lets the rest of it run.     *)
(***************************************************************************)
TurnDone ==
  /\ pc = "batch"
  /\ batch = {}
  /\ pc' = IF shutdown_flag THEN "exit" ELSE "wait"
  /\ UNCHANGED <<signalVars, hookVars, childVars, batch, irq, todo, pos, ssi_pid,
                 shutdown_flag, hup_flag>>

(***************************************************************************)
(* dispatch to the clients: a write to one that has gone raises SIGPIPE.    *)
(***************************************************************************)
Dispatch == UNCHANGED signalVars \/ ("PIPE" \in Sent /\ Raise("PIPE"))

HandlePin(pin) ==
  /\ pc = "batch"
  /\ pin \in batch \cap i_list
  /\ batch' = batch \ {pin}
  /\ irq' = irq \ {pin}
  /\ Dispatch
  /\ \E event \in Event : todo' = <<<<pin, event>>>>
  /\ pos' = 1
  /\ pc' = "hooks"
  /\ UNCHANGED <<hookVars, childVars, ssi_pid, shutdown_flag, hup_flag>>

HandleTimer ==
  /\ pc = "batch"
  /\ Timer \in batch
  /\ batch' = batch \ {Timer}
  /\ irq' = irq \ {Timer}
  /\ Dispatch
  /\ \E event \in [1..Len(p_list) -> Event] :
       todo' = [i \in 1..Len(p_list) |-> <<p_list[i], event[i]>>]
  /\ pos' = 1
  /\ pc' = "hooks"
  /\ UNCHANGED <<hookVars, childVars, ssi_pid, shutdown_flag, hup_flag>>

-----------------------------------------------------------------------------
(***************************************************************************)
(* dispatch_hooks: down the hook list of the pin, for each pin in turn.     *)
(***************************************************************************)
Hooks == HookList[Head(todo)[1]]
event_ == Head(todo)[2]
hook_ == Hooks[pos]

AtHook == pc = "hooks" /\ todo # <<>> /\ pos <= Len(Hooks)

NextHook ==
  /\ pos' = pos + 1
  /\ UNCHANGED <<signalVars, pc, batch, irq, todo, ssi_pid, shutdown_flag, hup_flag>>

SkipHook ==
  /\ AtHook
  /\ ~Launchable(hook_, event_)
  /\ NextHook
  /\ UNCHANGED <<hookVars, childVars>>

\* access(path, X_OK) or fork failed: logged, and on to the next hook.
LaunchFails ==
  /\ AtHook
  /\ Launchable(hook_, event_)
  /\ NextHook
  /\ UNCHANGED <<hookVars, childVars>>

Launch(p) ==
  /\ AtHook
  /\ Launchable(hook_, event_)
  /\ Started(hook_, p)
  /\ NextHook

NextPin ==
  /\ pc = "hooks"
  /\ todo # <<>>
  /\ pos > Len(Hooks)
  /\ todo' = Tail(todo)
  /\ pos' = 1
  /\ UNCHANGED <<signalVars, hookVars, childVars, pc, batch, irq, ssi_pid,
                 shutdown_flag, hup_flag>>

HooksDone ==
  /\ pc = "hooks"
  /\ todo = <<>>
  /\ pc' = "batch"
  /\ UNCHANGED <<signalVars, hookVars, childVars, batch, irq, todo, pos, ssi_pid,
                 shutdown_flag, hup_flag>>

-----------------------------------------------------------------------------
\* Mutant: SIGINT is not one of them.
IsShutdown_TermOnly(s) == s = "TERM"

\* The signals that end the loop.
IsShutdown(s) == s \in {"INT", "TERM"}

\* Mutant: the descriptor is read until nothing is left.
ReadSignal_Drains(s) ==
  /\ pc = "batch"
  /\ Signal \in batch
  /\ IsNext(s)
  /\ Dequeue(s)
  /\ shutdown_flag' = (shutdown_flag \/ IsShutdown(s))
  /\ hup_flag' = (hup_flag \/ s = "HUP")
  /\ ssi_pid' = IF s = "CHLD" THEN chld_pid ELSE NoPid
  /\ pc' = IF s = "CHLD" THEN "reap" ELSE "batch"
  /\ UNCHANGED <<hookVars, childVars, batch, irq, todo, pos>>

(***************************************************************************)
(* The signalfd: one read per event.  The descriptor blocks, so with        *)
(* nothing queued the read would never return.                              *)
(***************************************************************************)
ReadSignal(s) ==
  /\ pc = "batch"
  /\ Signal \in batch
  /\ IsNext(s)
  /\ Dequeue(s)
  /\ batch' = batch \ {Signal}
  /\ shutdown_flag' = (shutdown_flag \/ IsShutdown(s))
  /\ hup_flag' = (hup_flag \/ s = "HUP")
  /\ ssi_pid' = IF s = "CHLD" THEN chld_pid ELSE NoPid
  /\ pc' = IF s = "CHLD" THEN "reap" ELSE "batch"
  /\ UNCHANGED <<hookVars, childVars, irq, todo, pos>>

Reap ==
  /\ pc = "reap"
  /\ ReapChild(ssi_pid)
  /\ ssi_pid' = NoPid
  /\ pc' = "batch"
  /\ UNCHANGED <<signalVars, batch, irq, todo, pos, shutdown_flag, hup_flag>>

LoopStep ==
  \/ EpollWait
  \/ TurnDone
  \/ \E pin \in i_list : HandlePin(pin)
  \/ HandleTimer
  \/ SkipHook
  \/ LaunchFails
  \/ \E p \in Pid : Launch(p)
  \/ NextPin
  \/ HooksDone
  \/ \E s \in Mask : ReadSignal(s)
  \/ Reap

-----------------------------------------------------------------------------
(***************************************************************************)
(* The environment, until gpiod is gone.                                    *)
(***************************************************************************)
Interrupt(src) ==
  /\ pc # "exit"
  /\ irq' = irq \cup {src}
  /\ UNCHANGED <<signalVars, hookVars, childVars, pc, batch, todo, pos, ssi_pid,
                 shutdown_flag, hup_flag>>

\* A SIGPIPE comes from gpiod's own writes only.
Kill(s) ==
  /\ pc # "exit"
  /\ s \in Sent \ {"PIPE"}
  /\ Raise(s)
  /\ UNCHANGED <<hookVars, childVars, loopVars>>

ChildStep(p) ==
  /\ pc # "exit"
  /\ Exit(p) \/ Stop(p) \/ Cont(p)
  /\ UNCHANGED loopVars

EnvStep ==
  \/ \E src \in Source : Interrupt(src)
  \/ \E s \in Mask : Kill(s)
  \/ \E p \in Pid : ChildStep(p)

Next == LoopStep \/ EnvStep

Spec == Init /\ [][Next]_vars

(***************************************************************************)
(* The kernel runs gpiod whenever it can run.  Nothing makes a child end, a *)
(* pin change or a signal come.                                             *)
(***************************************************************************)
FairSpec == Spec /\ WF_vars(LoopStep)

-----------------------------------------------------------------------------
(***************************************************************************)
(* Correctness.                                                             *)
(***************************************************************************)
\* Every variable has its type.
TypeOK == SignalTypeOK /\ HookTypeOK /\ LoopTypeOK

\* At most one process of a NO_LOOP hook is alive (README.md:131), although
\* gpiod looks at spawned only and hears of a death some time after it.
NoLoopExclusive ==
  \A h \in Hook : "NO_LOOP" \in Flags[h] =>
    \A p, q \in Pid : Alive(p) /\ Alive(q) /\ image[p] = h /\ image[q] = h => p = q

\* The hash table maps a process to one hook, the hook it was started for, and
\* holds nothing that has been reaped: HASH_FIND at dispatch.c:169 and the
\* reuse of process ids rely on it.
PidListSound ==
  \A e \in pid_list :
    /\ child[e[1]] # "none"
    /\ image[e[1]] = e[2]
    /\ \A f \in pid_list : e[1] = f[1] => e = f

\* A busy hook is busy with a process of the table; with one that is not there
\* no SIGCHLD could ever make it idle again (dispatch.c:171).
BusyIsReal == \A h \in Hook : spawned[h] # NoPid => <<spawned[h], h>> \in pid_list

\* No child is forgotten before it is reaped: every process that exists is in
\* the table, so the reading of its SIGCHLD finds its hook.
EveryChildKnown == \A p \in Pid : child[p] # "none" => <<p, image[p]>> \in pid_list

\* When the loop reads the signalfd a signal is queued: the descriptor blocks,
\* and a read with nothing queued would stop the daemon for good
\* (event-loop.c:307, gpiod.c:230).
ReadNeverBlocks == pc = "batch" /\ Signal \in batch => pending # {}

\* A SIGCHLD tells of a process that has finished, as event-loop.c:323 logs and
\* the reaping at :324-326 takes for granted.
SigchldMeansFinished == pc = "reap" => child[ssi_pid] = "zombie"

\* A busy hook becomes idle only in the step that reaps a process of its own.
FreedByOwnDeath ==
  [][\A h \in Hook : spawned[h] # NoPid /\ spawned'[h] = NoPid =>
       \E p \in Pid : child[p] = "zombie" /\ child'[p] = "none" /\ image[p] = h]_vars

\* What a hook's modifiers promise, without the loop that keeps the promise.
Promise == INSTANCE HookSupervisor WITH
  live <- [h \in Hook |-> {p \in Pid : Alive(p) /\ image[p] = h}],
  launched <- fired

\* The loop implements it.
KeepsPromise == Promise!Spec

\* A request to stop that is queued is obeyed (gpiod.c:190 sends it for -k).
ShutdownHeard == (pending \cap {"INT", "TERM"} # {}) ~> (pc = "exit")

\* The same, asked only when no more signals come from some moment on.
ShutdownHeardWhenQuiet ==
  <>[][pending' \subseteq pending]_vars =>
    (pending \cap {"INT", "TERM"} # {}) ~> (pc = "exit")

\* A death whose SIGCHLD is queued is followed by the reaping of the process.
QueuedDeathIsReaped ==
  \A p \in Pid :
    ("CHLD" \in pending /\ chld_pid = p /\ child[p] = "zombie") ~> (child[p] = "none" \/ pc = "exit")

\* A NO_LOOP hook whose process has finished can be launched again (README.md:131).
HookComesBack ==
  \A h \in Hook : "NO_LOOP" \in Flags[h] =>
    \A p \in Pid : (spawned[h] = p /\ child[p] = "zombie") ~> (spawned[h] # p \/ pc = "exit")

=============================================================================
