--------------------------- MODULE HookSupervisor ---------------------------
(***************************************************************************)
(* What the modifiers of a hook promise (README.md:127-132): a NO_LOOP hook *)
(* is not launched before its previous launch has finished, a ONESHOT hook  *)
(* is launched once per daemon lifetime.                                    *)
(***************************************************************************)
CONSTANTS Pid, Hook, Flags

VARIABLES
  live,     \* the living processes of each hook
  launched  \* hooks that have been launched

Init ==
  /\ live = [h \in Hook |-> {}]
  /\ launched = [h \in Hook |-> FALSE]

Launch(h, p) ==
  /\ \A k \in Hook : p \notin live[k]
  /\ "NO_LOOP" \in Flags[h] => live[h] = {}
  /\ "ONESHOT" \in Flags[h] => ~launched[h]
  /\ live' = [live EXCEPT ![h] = @ \cup {p}]
  /\ launched' = [launched EXCEPT ![h] = TRUE]

Finish(h, p) ==
  /\ p \in live[h]
  /\ live' = [live EXCEPT ![h] = @ \ {p}]
  /\ UNCHANGED launched

Next == \E h \in Hook, p \in Pid : Launch(h, p) \/ Finish(h, p)

Spec == Init /\ [][Next]_<<live, launched>>

=============================================================================
