----------------------------- MODULE Announcer -----------------------------
(***************************************************************************)
(* What clients may rely on (README.md:20): while gpiod watches, what it    *)
(* believes of a pin changes only by being announced, and of the pins whose *)
(* level it reads nothing but changes is announced.                         *)
(***************************************************************************)
EXTENDS Integers

CONSTANTS Pin, Silence

VARIABLES
  exact,    \* the pins of which only changes are announced
  watching, \* initialisation is over
  value,    \* what is believed, -1 as long as nothing is known
  said      \* the announcement being made

vars == <<exact, watching, value, said>>

Init ==
  /\ exact \subseteq Pin
  /\ watching = FALSE
  /\ value = [p \in Pin |-> -1]
  /\ said = Silence

\* Before anybody can listen the values are learnt in silence.
Learn(p) ==
  /\ ~watching
  /\ \E v \in -1..1 : value' = [value EXCEPT ![p] = v]
  /\ UNCHANGED <<exact, watching, said>>

Begin ==
  /\ watching' = TRUE
  /\ UNCHANGED <<exact, value, said>>

Announce(p) ==
  /\ watching
  /\ \E v \in -1..1 :
       /\ p \in exact => v # value[p]
       /\ value' = [value EXCEPT ![p] = v]
       /\ said' = [pin |-> p, value |-> v]
  /\ UNCHANGED <<exact, watching>>

Hush ==
  /\ said' = Silence
  /\ UNCHANGED <<exact, watching, value>>

Next == Begin \/ Hush \/ \E p \in Pin : Learn(p) \/ Announce(p)

Spec == Init /\ [][Next]_vars

=============================================================================
