------------------------------- MODULE MCPins -------------------------------
(***************************************************************************)
(* Instances of Pins for TLC.                                               *)
(***************************************************************************)
EXTENDS Pins, TLC

CONSTANTS a, b

TwoPins == <<a, b>>
OnePin == <<a>>

Config(fa, ea, fb, eb) ==
  [facility |-> a :> fa @@ b :> fb, edge |-> a :> ea @@ b :> eb, fails |-> FALSE, signed |-> TRUE]

Failing(c, s) == [c EXCEPT !.fails = TRUE, !.signed = s]

\* The pairs of kinds of pins the code treats differently; the last ones with
\* reads that fail, where char is signed and where it is not.
Pairs ==
  {Config("SYSFS", "BOTH", "UAPI", "BOTH"),
   Config("SYSFS", "BOTH", "SYSFS", "POLLED"),
   Config("UAPI", "RISING", "SYSFS", "POLLED"),
   Config("UAPI", "FALLING", "SYSFS", "BOTH"),
   Config("UAPI", "POLLED", "SYSFS", "POLLED"),
   Config("SYSFS", "RISING", "UAPI", "MAX"),
   Failing(Config("SYSFS", "BOTH", "UAPI", "POLLED"), TRUE),
   Failing(Config("SYSFS", "BOTH", "UAPI", "RISING"), FALSE)}

RisingOnly == {[facility |-> a :> "SYSFS", edge |-> a :> "RISING", fails |-> FALSE,
                signed |-> TRUE]}

=============================================================================
