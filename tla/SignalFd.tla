------------------------------ MODULE SignalFd ------------------------------
(***************************************************************************)
(* The signals gpiod blocks and the signalfd it reads them from.            *)
(*                                                                         *)
(* gpiod.c:214-230 blocks a mask of signals and opens a signalfd on it;     *)
(* gpiod-event-loop.c:113-127 registers that descriptor edge-triggered.     *)
(* Both the queue of blocked signals and epoll's ready list belong to the   *)
(* kernel; the operators below are what gpiod relies on:                    *)
(*   - a standard signal that is queued already is dropped, the siginfo of  *)
(*     the first one is kept, and nobody is woken;                          *)
(*   - a signal that is not queued yet is queued and puts the descriptor on *)
(*     epoll's ready list;                                                  *)
(*   - a read of the descriptor takes one signal: those raised by the       *)
(*     reading thread itself (SIGPIPE, by its own write) first, then by     *)
(*     ascending number.                                                    *)
(***************************************************************************)
EXTENDS Naturals

CONSTANTS
  Pid,    \* process identifiers the kernel may give to children of gpiod
  NoPid   \* stands for -1: no process

ASSUME NoPidAssumption == NoPid \notin Pid

VARIABLES
  pending,  \* the blocked signals queued for gpiod
  chld_pid, \* ssi_pid of the queued SIGCHLD, NoPid when none is queued
  edge      \* the signalfd is on epoll's ready list

signalVars == <<pending, chld_pid, edge>>

(***************************************************************************)
(* The signals gpiod blocks and reads through the descriptor.               *)
(***************************************************************************)
Mask == {"PIPE", "HUP", "INT", "QUIT", "TERM", "CHLD"}

(***************************************************************************)
(* The order in which queued signals are read.                              *)
(***************************************************************************)
Rank == [PIPE |-> 0, HUP |-> 1, INT |-> 2, QUIT |-> 3, TERM |-> 15, CHLD |-> 17]

SignalTypeOK ==
  /\ pending \subseteq Mask
  /\ chld_pid \in Pid \cup {NoPid}
  /\ edge \in BOOLEAN

(***************************************************************************)
(* Signals blocked since gpiod.c:224 may be queued before the descriptor is *)
(* registered; registering a readable descriptor puts it on the ready list. *)
(***************************************************************************)
SignalInit(early) ==
  /\ pending = early
  /\ chld_pid = NoPid
  /\ edge = (early # {})

Wakes(s) == s \notin pending

Raise(s) ==
  /\ pending' = pending \cup {s}
  /\ edge' = (edge \/ Wakes(s))
  /\ UNCHANGED chld_pid

RaiseChild(p) ==
  /\ pending' = pending \cup {"CHLD"}
  /\ edge' = (edge \/ Wakes("CHLD"))
  /\ chld_pid' = IF Wakes("CHLD") THEN p ELSE chld_pid

(***************************************************************************)
(* epoll_wait reports the descriptor when it is on the ready list and       *)
(* readable, and takes it off the list: edge-triggered.                     *)
(***************************************************************************)
SignalReady == edge /\ pending # {}

IsNext(s) ==
  /\ s \in pending
  /\ \A t \in pending : Rank[s] <= Rank[t]

Dequeue(s) ==
  /\ pending' = pending \ {s}
  /\ chld_pid' = IF s = "CHLD" THEN NoPid ELSE chld_pid
  /\ UNCHANGED edge

=============================================================================
