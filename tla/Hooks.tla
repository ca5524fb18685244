-------------------------------- MODULE Hooks --------------------------------
(***************************************************************************)
(* Hooks, the processes they start and what gpiod remembers of them:        *)
(* gpiod-dispatch.c:69-182 and gpiod-exec.c:10-63, with the part of         *)
(* gpiod-event-loop.c that reaps a child.                                   *)
(*                                                                         *)
(* gpiod keeps two records of its children, hook->spawned (the last process *)
(* of a hook, -1 when idle) and the hash table pid_list, and learns of a    *)
(* child's end from SIGCHLD only.  The process table below is the kernel's. *)
(***************************************************************************)
EXTENDS SignalFd

CONSTANTS
  Hook,     \* the hooks of all tabs
  NoHook,
  Flags,    \* hook->flags, the set of modifiers of each hook
  Stops     \* TRUE: children are also stopped and continued (job control, ptrace)

Modifier == {"RISE", "FALL", "NO_LOOP", "ONESHOT"}

ASSUME HookAssumption ==
  /\ NoHook \notin Hook
  /\ Flags \in [Hook -> SUBSET Modifier]
  /\ Stops \in BOOLEAN

VARIABLES
  fired,    \* hook->fired
  spawned,  \* hook->spawned
  pid_list, \* the hash table, a set of <<pid, hook>>
  child,    \* the kernel's state of each process
  image     \* the hook each existing child was started for

hookVars == <<fired, spawned, pid_list>>
childVars == <<child, image>>

ChildState == {"none", "running", "stopped", "zombie"}

HookTypeOK ==
  /\ fired \in [Hook -> BOOLEAN]
  /\ spawned \in [Hook -> Pid \cup {NoPid}]
  /\ pid_list \subseteq Pid \X Hook
  /\ child \in [Pid -> ChildState]
  /\ image \in [Pid -> Hook \cup {NoHook}]

HookInit ==
  /\ fired = [h \in Hook |-> FALSE]
  /\ spawned = [h \in Hook |-> NoPid]
  /\ pid_list = {}
  /\ child = [p \in Pid |-> "none"]
  /\ image = [p \in Pid |-> NoHook]

-----------------------------------------------------------------------------
(***************************************************************************)
(* dispatch_hooks: the three tests every hook of a pin goes through.  An    *)
(* event other than the two edges (GPIOD_EDGE_MAX, left by a read that      *)
(* failed) suits no hook.                                                   *)
(***************************************************************************)
\* Mutant: NO_LOOP is not looked at.
InProgress_Ignored(h) == FALSE

InProgress(h) == "NO_LOOP" \in Flags[h] /\ spawned[h] # NoPid

AlreadyFired(h) == "ONESHOT" \in Flags[h] /\ fired[h]

Applicable(h, event) ==
  \/ event = "RISING" /\ "RISE" \in Flags[h]
  \/ event = "FALLING" /\ "FALL" \in Flags[h]

Launchable(h, event) == ~InProgress(h) /\ ~AlreadyFired(h) /\ Applicable(h, event)

(***************************************************************************)
(* exec_start forked process p for hook h.  The child still has to exec: if *)
(* that fails it exits at once (dispatch.c:148), which is an Exit of p.     *)
(***************************************************************************)
\* Mutant: the launch is not remembered in fired.
Started_NotFired(h, p) ==
  /\ child[p] = "none"
  /\ child' = [child EXCEPT ![p] = "running"]
  /\ image' = [image EXCEPT ![p] = h]
  /\ spawned' = [spawned EXCEPT ![h] = p]
  /\ pid_list' = pid_list \cup {<<p, h>>}
  /\ UNCHANGED fired

Started(h, p) ==
  /\ child[p] = "none"
  /\ child' = [child EXCEPT ![p] = "running"]
  /\ image' = [image EXCEPT ![p] = h]
  /\ spawned' = [spawned EXCEPT ![h] = p]
  /\ fired' = [fired EXCEPT ![h] = TRUE]
  /\ pid_list' = pid_list \cup {<<p, h>>}

(***************************************************************************)
(* hook_clear_spawned(pid): the hook found under pid becomes idle, whatever *)
(* process it has started since, and the entry goes.                        *)
(***************************************************************************)
\* Mutant: idle is marked with 0.
ClearSpawned_Zero(pid) ==
  /\ spawned' = [h \in Hook |-> IF <<pid, h>> \in pid_list THEN 0 ELSE spawned[h]]
  /\ pid_list' = {e \in pid_list : e[1] # pid}
  /\ UNCHANGED fired

\* Mutant: every entry of the hook goes.
ClearSpawned_AllOfHook(pid) ==
  /\ spawned' = [h \in Hook |-> IF <<pid, h>> \in pid_list THEN NoPid ELSE spawned[h]]
  /\ pid_list' = {e \in pid_list : <<pid, e[2]>> \notin pid_list}
  /\ UNCHANGED fired

\* Mutant: every hook becomes idle.
ClearSpawned_EveryHook(pid) ==
  /\ spawned' = [h \in Hook |-> NoPid]
  /\ pid_list' = {e \in pid_list : e[1] # pid}
  /\ UNCHANGED fired

\* Mutant: the entry stays.
ClearSpawned_EntryStays(pid) ==
  /\ spawned' = [h \in Hook |-> IF <<pid, h>> \in pid_list THEN NoPid ELSE spawned[h]]
  /\ UNCHANGED <<pid_list, fired>>

\* Mutant: the hook stays busy.
ClearSpawned_StaysBusy(pid) ==
  /\ pid_list' = {e \in pid_list : e[1] # pid}
  /\ UNCHANGED <<spawned, fired>>

ClearSpawned(pid) ==
  /\ spawned' = [h \in Hook |-> IF <<pid, h>> \in pid_list THEN NoPid ELSE spawned[h]]
  /\ pid_list' = {e \in pid_list : e[1] # pid}
  /\ UNCHANGED fired

(***************************************************************************)
(* waitpid(pid, 0, WNOHANG) fails when there is no such child, returns 0    *)
(* when the child lives and reaps it otherwise; the code tells only failure *)
(* from the rest.                                                           *)
(***************************************************************************)
Waitable(pid) == pid \in Pid /\ child[pid] # "none"

\* Mutant: the child is not waited for.
WaitPid_Forgotten(pid) == UNCHANGED childVars

WaitPid(pid) ==
  /\ child' = IF child[pid] = "zombie" THEN [child EXCEPT ![pid] = "none"] ELSE child
  /\ image' = IF child[pid] = "zombie" THEN [image EXCEPT ![pid] = NoHook] ELSE image

ReapChild(pid) ==
  \/ /\ Waitable(pid)
     /\ WaitPid(pid)
     /\ ClearSpawned(pid)
  \/ /\ ~Waitable(pid)
     /\ UNCHANGED <<hookVars, childVars>>

-----------------------------------------------------------------------------
(***************************************************************************)
(* What happens to a child while gpiod does something else; each raises     *)
(* SIGCHLD.                                                                 *)
(***************************************************************************)
Alive(p) == child[p] \in {"running", "stopped"}

Exit(p) ==
  /\ Alive(p)
  /\ child' = [child EXCEPT ![p] = "zombie"]
  /\ RaiseChild(p)
  /\ UNCHANGED <<hookVars, image>>

Stop(p) ==
  /\ Stops
  /\ child[p] = "running"
  /\ child' = [child EXCEPT ![p] = "stopped"]
  /\ RaiseChild(p)
  /\ UNCHANGED <<hookVars, image>>

Cont(p) ==
  /\ child[p] = "stopped"
  /\ child' = [child EXCEPT ![p] = "running"]
  /\ RaiseChild(p)
  /\ UNCHANGED <<hookVars, image>>

=============================================================================
