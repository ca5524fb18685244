---------------------------- MODULE MCInstances ----------------------------
(***************************************************************************)
(* Instances of Instances for TLC.                                          *)
(***************************************************************************)
EXTENDS Instances, TLC

CONSTANTS i1, i2, i3

\* Two daemons and a -k or a -H, or one daemon and both.
Mixtures ==
  {i1 :> "start" @@ i2 :> "start" @@ i3 :> "kill",
   i1 :> "start" @@ i2 :> "start" @@ i3 :> "hup",
   i1 :> "start" @@ i2 :> "kill" @@ i3 :> "hup"}

=============================================================================
