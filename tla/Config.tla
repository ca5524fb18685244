------------------------------- MODULE Config -------------------------------
(***************************************************************************)
(* What loadConfig makes of a configuration file (gpiod-config.c): defaults, *)
(* key words, validation, the global facility, pins that are left out.      *)
(*                                                                         *)
(* A file is a record of its options; an option it does not have is Absent. *)
(***************************************************************************)
EXTENDS Integers, Sequences, FiniteSetsExt

CONSTANTS
  Absent,
  Begins  \* for each key word that may be written, the known ones it begins with

\* Neither facility begins with the other.
ASSUME ConfigAssumption == \A word \in DOMAIN Begins : ~({"sysfs", "uapi"} \subseteq Begins[word])

gpiod_facility_array == <<"sysfs", "uapi">>
gpiod_edge_array == <<"rising", "falling", "both", "polled">>

\* The entry of the table the value begins with: strncmp stops at the entry's end.
ParseWord(array, value) ==
  LET fits == {i \in DOMAIN array : array[i] \in Begins[value]}
  IN  IF fits = {} THEN Absent ELSE array[Min(fits)]

conf_parse_facility(value) == ParseWord(gpiod_facility_array, value)
conf_parse_edge(value) == ParseWord(gpiod_edge_array, value)

\* Default values are not validated.
conf_validate_positive(value) == value = Absent \/ value >= 0

FacilityWord(value) == value = Absent \/ conf_parse_facility(value) # Absent
EdgeWord(value) == value = Absent \/ conf_parse_edge(value) # Absent

ParseSuccess(text) ==
  /\ conf_validate_positive(text.port)
  /\ conf_validate_positive(text.poll)
  /\ FacilityWord(text.facility)
  /\ \A i \in DOMAIN text.gpio :
       /\ FacilityWord(text.gpio[i].facility)
       /\ EdgeWord(text.gpio[i].edge)
       /\ conf_validate_positive(text.gpio[i].system)
       /\ conf_validate_positive(text.gpio[i].offset)
       /\ conf_validate_positive(text.gpio[i].local)

Option(value, default) == IF value = Absent THEN default ELSE value

\* The pin's own facility, else the global one, else sysfs: README.md:92 says uapi.
Facility(text, g) ==
  IF g.facility # Absent THEN conf_parse_facility(g.facility)
  ELSE IF text.facility # Absent THEN conf_parse_facility(text.facility)
  ELSE "sysfs"

\* A pin as loadConfig fills it in; what it leaves in malloc's memory (label and
\* gpiochip without an option) is Absent here.  Without an edge it is "max", no
\* edge at all, where README.md:110 says both; `offset` is kept and never used,
\* the line of a chip being `local` (README.md:101-105 and gpiod-pin.h:45 say
\* the other way round).
PinOf(text, g) ==
  [facility   |-> Facility(text, g),
   system     |-> Option(g.system, -1),
   gpiochip   |-> g.gpiochip,
   offset     |-> Option(g.offset, -1),
   local      |-> Option(g.local, -1),
   name       |-> g.name,
   edge       |-> IF g.edge = Absent THEN "max" ELSE conf_parse_edge(g.edge),
   active_low |-> Option(g.active_low, FALSE)]

\* The pins by their position in the file; alloc_gpio_pin gives none for a facility
\* that is not compiled in.
PinsOf(text, uapi) ==
  [i \in {n \in DOMAIN text.gpio : uapi \/ Facility(text, text.gpio[n]) = "sysfs"} |->
     PinOf(text, text.gpio[i])]

\* Some pin takes the global facility, or none can be allocated.
PinsSpokenOf(text, uapi) ==
  \E i \in DOMAIN text.gpio :
    \/ text.gpio[i].facility = Absent
    \/ ~uapi /\ Facility(text, text.gpio[i]) = "uapi"

\* With no `listen` inet_pton is handed a null pointer, which it reads; with one
\* that is no address loading fails.
LoadOutcome(text) ==
  IF ~ParseSuccess(text) THEN "fail"
  ELSE IF text.listen = Absent THEN "crash"
  ELSE IF text.listen = "invalid" THEN "fail"
  ELSE "ok"

\* Without a port the kernel picks one (README.md:86-87 says 1500); it goes through
\* htons.  The period is in milliseconds.
PortOf(text) == Option(text.port, 0) % 65536
PollOf(text) == Option(text.poll, 50)

=============================================================================
