---------------------------- MODULE MCEventLoop ----------------------------
(***************************************************************************)
(* Instances of EventLoop for TLC.                                          *)
(***************************************************************************)
EXTENDS EventLoop, TLC

CONSTANTS p1, p2, p3, h1, h2, h3, a, b

\* An interrupting pin with a NO_LOOP hook and a plain one, a polled pin with a
\* ONESHOT hook.
Flags3 ==
  h1 :> {"RISE", "FALL", "NO_LOOP"} @@ h2 :> {"RISE"} @@ h3 :> {"RISE", "FALL", "ONESHOT"}
HookList3 == a :> <<h1, h2>> @@ b :> <<h3>>

\* Two NO_LOOP hooks on one pin.
Flags2 == h1 :> {"RISE", "FALL", "NO_LOOP"} @@ h2 :> {"RISE", "NO_LOOP"}
HookList2 == a :> <<h1, h2>>

\* One NO_LOOP hook on one pin.
Flags1 == h1 :> {"RISE", "FALL", "NO_LOOP"}
HookList1 == a :> <<h1>>

Polled == <<b>>
NonePolled == <<>>

Processes == Permutations(Pid)

=============================================================================
