----------------------------- MODULE MCStartup -----------------------------
(***************************************************************************)
(* Instances of Startup for TLC.                                            *)
(***************************************************************************)
EXTENDS Startup, TLC

CONSTANTS p, q

TwoChips ==
  <<[name |-> "gpiochip0", base |-> 0, ngpio |-> 8], [name |-> "gpiochip1", base |-> 32, ngpio |-> 8]>>

Words == [w \in {"sysfs", "uapi", "rising", "both", "polled", "uapi2", "no"} |->
            IF w = "uapi2" THEN {"uapi"} ELSE IF w = "no" THEN {} ELSE {w}]

File_(port, poll, facility, gpio) ==
  [listen |-> "127.0.0.1", port |-> port, poll |-> poll, facility |-> facility, gpio |-> gpio]

Sysfs(system, edge, active_low) ==
  [facility |-> "sysfs", system |-> system, gpiochip |-> Absent, offset |-> Absent, local |-> 0,
   name |-> IF system \in Named THEN "led" ELSE Absent, edge |-> edge, active_low |-> active_low]
Uapi(chip, local) ==
  [facility |-> "uapi", system |-> Absent, gpiochip |-> chip, offset |-> Absent, local |-> local,
   name |-> Absent, edge |-> "both", active_low |-> FALSE]

Pins_(gpio) == File_(1500, 50, Absent, gpio)

\* One gpiod after the other; the first may meet two failures, or one.
Alone(text, uapi, logs) ==
  [text |-> p :> text @@ q :> text, faults |-> p :> (IF logs = {} THEN 2 ELSE 1) @@ q :> 0,
   uapi |-> uapi, overlap |-> FALSE,
   logs |-> logs]
\* Two at a time.
Both(mine, other, failures) ==
  [text |-> p :> mine @@ q :> other, faults |-> p :> failures @@ q :> 0, uapi |-> TRUE, overlap |-> TRUE,
   logs |-> {}]

Ordinary == Pins_(<<Sysfs(33, "both", TRUE), Uapi("gpiochip0", 7)>>)

AnyPort == [Ordinary EXCEPT !.port = 0]

Singles ==
  {Alone(Pins_(g), u, l) : u \in BOOLEAN, l \in {{}, {"pid_file"}, {"tab"}}, g \in
     {<<Sysfs(33, "both", TRUE), Uapi("gpiochip0", 7)>>,
      <<Sysfs(256, "polled", TRUE), Sysfs(1023, "rising", TRUE)>>}}
  \cup {Alone(Pins_(g), TRUE, {"tab_directory"}) : g \in
     {<<Sysfs(7, "both", FALSE), Sysfs(7, "polled", FALSE)>>, <<Sysfs(5, "both", FALSE)>>,
      <<Sysfs(7, "both", FALSE), Uapi("gpiochip0", 7)>>,
      <<Uapi("gpiochip0", 7), Sysfs(7, "both", TRUE), Sysfs(33, Absent, TRUE)>>,
      <<Uapi("gpiochip1", 1), Uapi("gpiochip9", 1), Uapi("gpiochip0", 9)>>,
      <<Sysfs(5, "both", FALSE), Sysfs(Absent, "both", FALSE), Sysfs(6, "both", FALSE)>>,
      <<[Sysfs(7, "both", FALSE) EXCEPT !.name = "led"], Sysfs(33, "both", TRUE)>>}}

Full(facility, system, local) ==
  [Sysfs(system, "both", FALSE) EXCEPT !.facility = facility, !.gpiochip = "gpiochip0", !.local = local]

Texts ==
  {File_(port, poll, facility, <<Full("sysfs", 33, 6), Full("uapi", 7, 7)>>) :
     port \in {Absent, 0, 1500, -1}, poll \in {Absent, 0, 999, 1000}, facility \in {Absent, "uapi"}}
  \cup {[Ordinary EXCEPT !.listen = l] : l \in {Absent, "invalid"}}
  \cup {[Ordinary EXCEPT !.facility = f, !.gpio = <<[Full(g, 33, 7) EXCEPT !.edge = e]>>] :
          f \in {Absent, "uapi2", "no"}, g \in {Absent, "sysfs"}, e \in {"no", Absent, "rising"}}

Readings ==
  {[Alone(t, TRUE, {}) EXCEPT !.faults = p :> 0 @@ q :> 0] : t \in Texts}

Overlapping ==
  {Both(Ordinary, Ordinary, 0), Both(AnyPort, AnyPort, 0),
   Both(Pins_(<<Sysfs(33, "both", TRUE)>>), Pins_(<<Uapi("gpiochip1", 1), Sysfs(33, "both", TRUE)>>), 1)}

AllSetups == Singles \cup Readings \cup Overlapping

=============================================================================
