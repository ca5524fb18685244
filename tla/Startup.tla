------------------------------- MODULE Startup -------------------------------
(***************************************************************************)
(* The life of gpiod from its configuration to its end (gpiod.c:232-284):   *)
(* chips, sysfs, pins, the loop's own descriptors, and all that is undone   *)
(* on the way out; several gpiods beside or after each other on the lines   *)
(* of one machine.                                                          *)
(*                                                                         *)
(* Descriptors are numbers: a new one is the lowest that is free, so that a *)
(* number kept too long is soon somebody else's.                            *)
(***************************************************************************)
EXTENDS Config, Functions

CONSTANTS
  Proc,    \* gpiods
  Setups,  \* what is configured and what may go wrong
  Line,    \* the lines that exist, by their system numbers
  Chips,   \* the chips, in the order of their directory
  Named,   \* lines whose sysfs directory has a name of its own
  Taken    \* lines a driver has

ASSUME MachineAssumption ==
  /\ Line \subseteq Nat /\ \A l \in Line : l < 10000
  /\ Named \subseteq Line /\ Taken \subseteq Line
  /\ Chips \in Seq([name : STRING, base : Nat, ngpio : Nat])

ASSUME SetupAssumption ==
  \A s \in Setups :
    /\ DOMAIN s.text = Proc
    /\ \A p \in Proc :
         /\ DOMAIN s.text[p].gpio \subseteq Nat
         /\ \A word \in {s.text[p].facility} \cup {g.facility : g \in Range(s.text[p].gpio)} :
              word = Absent \/ word \in DOMAIN Begins
    /\ s.faults \in [Proc -> Nat]
    /\ {s.uapi, s.overlap} \subseteq BOOLEAN
    /\ s.logs \subseteq {"pid_file", "tab_directory", "tab"}

VARIABLES
  setup,    \* one of Setups
  exported, \* lines with a directory under /sys/class/gpio
  actlow,   \* lines set to active_low through it
  linger,   \* ports with a connection in TIME_WAIT
  faults,   \* calls that have failed for reasons of their own
  pc,
  todo,     \* positions of the pins to be initialised or cleaned up
  pins,     \* the pins of the configuration, by their position in it
  gp_list,  \* positions of the pins that have not been dropped
  table,    \* what each descriptor is open on
  gpio_dir, \* init_sysfs_pin's local variable
  held,     \* the descriptors each pin remembers
  chips,    \* stored_chips
  sys       \* sfd_, efd_ and ufd_

kernelVars == <<setup, exported, actlow, linger>>
memory == <<pins, gpio_dir, held, chips, sys>>
vars == <<kernelVars, faults, pc, todo, gp_list, table, memory>>

Text(p) == setup.text[p]

-----------------------------------------------------------------------------
(***************************************************************************)
(* Descriptors.                                                             *)
(***************************************************************************)
File(kind, of) == [kind |-> kind, of |-> of, live |-> TRUE]

\* A table maps the numbers that are open to what they are open on.
Lowest(t) == Min(0..Cardinality(DOMAIN t) \ DOMAIN t)
Opened(t, f) ==
  LET at[low \in Nat] == [n \in DOMAIN t \cup {low} |-> IF n = low THEN f ELSE t[n]]
  IN  at[Lowest(t)]

\* The tables one gets by opening files one after the other.
Opening(t, files) ==
  LET after[k \in 0..Len(files)] == IF k = 0 THEN t ELSE Opened(after[k - 1], files[k])
  IN  after
AllOpened(t, files) == Opening(t, files)[Len(files)]
Shut(t, numbers) == Restrict(t, DOMAIN t \ numbers)
NoFiles == <<>>

\* The first message opens the socket of the log.
Syslog(t) == IF \E n \in DOMAIN t : t[n].kind = "log" THEN t ELSE Opened(t, File("log", 0))

\* Mutant: daemonize leaves the standard descriptors closed.
AtMain_StdClosed(p) == Opened(NoFiles, File("signal", 0))

\* Standard descriptors and the signalfd; a pid file that could not be created
\* is a first message.
AtMain(p) ==
  LET std == AllOpened(NoFiles, [i \in 1..3 |-> File("std", 0)])
  IN  Opened(IF "pid_file" \in setup.logs THEN Syslog(std) ELSE std, File("signal", 0))

Files(p) == Range(table[p])
LineFiles == {"gpio", "direction", "edge", "active_low", "value"}
SysFiles == <<"sysfs", "export", "unexport">>
Place == [sysfs |-> 1, export |-> 2, unexport |-> 3]

\* The line's files become useless for everyone who has them open.
Unexported(l, t) ==
  [n \in DOMAIN t |-> IF t[n].kind \in LineFiles /\ t[n].of = l THEN [t[n] EXCEPT !.live = FALSE] ELSE t[n]]

NotHeld == [k \in {"direction", "edge", "active_low", "value"} |-> 0]

Init ==
  /\ setup \in Setups
  /\ exported = {}
  /\ actlow = {}
  /\ linger = {}
  /\ faults = [p \in Proc |-> 0]
  /\ pc = [p \in Proc |-> "off"]
  /\ todo = [p \in Proc |-> {}]
  /\ pins = [p \in Proc |-> <<>>]
  /\ gp_list = [p \in Proc |-> {}]
  /\ table = [p \in Proc |-> NoFiles]
  /\ gpio_dir = [p \in Proc |-> -1]
  /\ held = [p \in Proc |-> <<>>]
  /\ chips = [p \in Proc |-> <<>>]
  /\ sys = [p \in Proc |-> [k \in {"sysfs", "export", "unexport"} |-> -1]]

-----------------------------------------------------------------------------
Goto(p, where) == pc' = [pc EXCEPT ![p] = where]
Open(p, t) == table' = [table EXCEPT ![p] = t]

Fine(p) == UNCHANGED faults
Fault(p) ==
  /\ faults[p] < setup.faults[p]
  /\ faults' = [faults EXCEPT ![p] = @ + 1]

\* The process ends, by itself or not, and the kernel closes what is open.
Vanish(p) == Goto(p, "gone") /\ Open(p, NoFiles)

Up(p) == pc[p] \notin {"off", "gone"}

Start(p) ==
  /\ pc[p] = "off"
  /\ setup.overlap \/ \A q \in Proc : ~Up(q)
  /\ Goto(p, "config")
  /\ Open(p, AtMain(p))
  /\ UNCHANGED <<kernelVars, faults, todo, gp_list, memory>>

\* Mutant: a pin that could not be allocated is put in the list.
LoadConfig_NullListed(p) ==
  /\ pc[p] = "config"
  /\ pins' = [pins EXCEPT ![p] = PinsOf(Text(p), setup.uapi)]
  /\ gp_list' = [gp_list EXCEPT ![p] = DOMAIN Text(p).gpio]
  /\ held' = [held EXCEPT ![p] = [i \in DOMAIN pins'[p] |-> NotHeld]]
  /\ Goto(p, "tabs")
  /\ UNCHANGED <<kernelVars, faults, todo, table, gpio_dir, chips, sys>>

\* A failure leaves main at once.
LoadConfig(p) ==
  /\ pc[p] = "config"
  /\ CASE LoadOutcome(Text(p)) = "crash" -> Vanish(p)
       [] LoadOutcome(Text(p)) = "fail"  -> Goto(p, "exit") /\ Open(p, Syslog(table[p]))
       [] OTHER ->
            /\ Goto(p, "tabs")
            /\ Open(p, IF PinsSpokenOf(Text(p), setup.uapi) THEN Syslog(table[p]) ELSE table[p])
  /\ pins' = [pins EXCEPT ![p] = IF LoadOutcome(Text(p)) = "ok" THEN PinsOf(Text(p), setup.uapi) ELSE <<>>]
  /\ gp_list' = [gp_list EXCEPT ![p] = DOMAIN pins'[p]]
  /\ held' = [held EXCEPT ![p] = [i \in DOMAIN pins'[p] |-> NotHeld]]
  /\ UNCHANGED <<kernelVars, faults, todo, gpio_dir, chips, sys>>

\* A directory of tabs that is not there is logged, and so is a line for no pin,
\* with the directory and the tab open.
LoadTabs(p) ==
  /\ pc[p] = "tabs"
  /\ LET t == table[p]
         reading == AllOpened(t, <<File("tabs", 0), File("tab", 0)>>)
     IN  Open(p, CASE "tab_directory" \in setup.logs -> Syslog(t)
                   [] "tab" \in setup.logs -> Shut(Syslog(reading), DOMAIN reading \ DOMAIN t)
                   [] OTHER -> t)
  /\ Goto(p, "chips")
  /\ UNCHANGED <<kernelVars, faults, todo, gp_list, memory>>

\* init_gpio_chips: a chip that fails ends the scan, not the start; failing
\* behind openat it stays open.
ScanUapi(p) ==
  LET t == table[p]
      after == Opening(t, <<File("chipdir", 0)>> \o [i \in 1..Len(Chips) |-> File("chip", i)])
  IN  \E k \in 0..Len(Chips) : \E left \in k..(k + 1) :
        /\ IF k = Len(Chips) THEN left = k /\ Fine(p) ELSE left <= Len(Chips) /\ Fault(p)
        /\ Open(p, Shut(after[left + 1], {Lowest(t)}))
        /\ chips' = [chips EXCEPT ![p] =
             [i \in 1..k |-> [name |-> Chips[i].name, base |-> Chips[i].base,
                              ngpio |-> Chips[i].ngpio, fd |-> Lowest(after[i])]]]
        /\ Goto(p, "sysfs")

\* Without uapi every chip's descriptor is that of the directory, which closedir
\* closes; a chip without its files is a null pointer for atoi.
ScanSysfs(p) ==
  \/ /\ Fine(p)
     /\ chips' = [chips EXCEPT ![p] =
          [i \in DOMAIN Chips |-> [name |-> Absent, base |-> Chips[i].base,
                                   ngpio |-> Chips[i].ngpio, fd |-> Lowest(table[p])]]]
     /\ Goto(p, "sysfs")
     /\ UNCHANGED table
  \/ /\ Fault(p)
     /\ Vanish(p)
     /\ UNCHANGED chips

InitChips(p) ==
  /\ pc[p] = "chips"
  /\ \/ IF setup.uapi THEN ScanUapi(p) ELSE ScanSysfs(p)
     \/ /\ Fault(p)
        /\ Open(p, Syslog(table[p]))
        /\ Goto(p, "cleansysfs")
        /\ UNCHANGED chips
  /\ UNCHANGED <<kernelVars, todo, gp_list, gpio_dir, held, pins, sys>>

\* Mutant: the directory is closed when its files are open, its number is kept.
InitSysfs_DirClosed(p) ==
  /\ pc[p] = "sysfs"
  /\ Fine(p)
  /\ LET t == AllOpened(table[p], [i \in 1..3 |-> File(SysFiles[i], 0)])
         Number(kind) == CHOOSE n \in DOMAIN t : t[n].kind = kind
     IN  /\ sys' = [sys EXCEPT ![p] = [x \in DOMAIN @ |-> Number(x)]]
         /\ Open(p, Shut(t, {Number("sysfs")}))
  /\ Goto(p, "pin")
  /\ todo' = [todo EXCEPT ![p] = DOMAIN pins[p]]
  /\ UNCHANGED <<kernelVars, gp_list, gpio_dir, held, pins, chips>>

\* init_sysfs: the directory, `export` and `unexport`, or the first of them.
InitSysfs(p) ==
  /\ pc[p] = "sysfs"
  /\ LET after == Opening(table[p], [i \in 1..3 |-> File(SysFiles[i], 0)])
     IN  \E k \in 0..3 :
           /\ IF k = 3
              THEN Fine(p) /\ Open(p, after[k]) /\ Goto(p, "pin")
              ELSE Fault(p) /\ Open(p, Syslog(after[k])) /\ Goto(p, "cleansysfs")
           /\ sys' = [sys EXCEPT ![p] =
                [x \in DOMAIN @ |-> IF Place[x] <= k THEN Lowest(after[Place[x] - 1]) ELSE -1]]
  /\ todo' = [todo EXCEPT ![p] = DOMAIN pins[p]]
  /\ UNCHANGED <<kernelVars, gp_list, gpio_dir, held, pins, chips>>

-----------------------------------------------------------------------------
(***************************************************************************)
(* init_gpio_pins.  A pin whose init fails is dropped; nothing of what init *)
(* has done is undone.                                                      *)
(***************************************************************************)
Interrupting(p, i) == pins[p][i].edge \in {"rising", "falling", "both"}

\* Pins are taken in their order, on the way out polled ones before the others:
\* the lists of the loop are spliced back in front of each other.
Index(p) ==
  LET polled == {i \in todo[p] : pc[p] = "clean" /\ ~Interrupting(p, i)}
  IN  Min(IF polled = {} THEN todo[p] ELSE polled)
Pin(p) == pins[p][Index(p)]
System(p) == Pin(p).system
AtPin(p, facility) == pc[p] = "pin" /\ todo[p] # {} /\ Pin(p).facility = facility

Requested == {l \in Line : \E p \in Proc : File("lineevent", l) \in Files(p)}
Busy == exported \cup Requested \cup Taken

NextPin(p) ==
  /\ todo' = [todo EXCEPT ![p] = @ \ {Index(p)}]
  /\ Goto(p, "pin")

Drop(p, t) ==
  /\ gp_list' = [gp_list EXCEPT ![p] = @ \ {Index(p)}]
  /\ NextPin(p)
  /\ Open(p, t)

\* Mutant: a line that is exported already is a failure.
Export_BusyFails(p) ==
  /\ AtPin(p, "sysfs")
  /\ \/ /\ System(p) \in Line \ Busy
        /\ Fine(p)
        /\ exported' = exported \cup {System(p)}
        /\ Goto(p, "open")
        /\ UNCHANGED <<todo, gp_list, table>>
     \/ /\ IF System(p) \in Line \ Busy THEN Fault(p) ELSE Fine(p)
        /\ Drop(p, Syslog(table[p]))
        /\ UNCHANGED exported
  /\ UNCHANGED <<setup, actlow, linger, memory>>

\* A busy line is taken for one that is exported.
Export(p) ==
  /\ AtPin(p, "sysfs")
  /\ \/ /\ System(p) \in Line
        /\ Fine(p)
        /\ exported' = exported \cup ({System(p)} \ Busy)
        /\ Goto(p, "open")
        /\ UNCHANGED <<todo, gp_list, table>>
     \/ /\ IF System(p) \in Line THEN Fault(p) ELSE Fine(p)
        /\ Drop(p, Syslog(table[p]))
        /\ UNCHANGED exported
  /\ UNCHANGED <<setup, actlow, linger, memory>>

Directory(p) == System(p) \in exported /\ (Pin(p).name # Absent <=> System(p) \in Named)

\* Mutant: a pin that is dropped unexports its line.
OpenDir_Unexports(p) ==
  /\ pc[p] = "open"
  /\ \/ /\ Directory(p)
        /\ Fine(p)
        /\ gpio_dir' = [gpio_dir EXCEPT ![p] = Lowest(table[p])]
        /\ Open(p, Opened(table[p], File("gpio", System(p))))
        /\ Goto(p, "direction")
        /\ UNCHANGED <<todo, gp_list, exported, actlow>>
     \/ /\ IF Directory(p) THEN Fault(p) ELSE Fine(p)
        /\ Drop(p, Syslog(Unexported(System(p), table[p])))
        /\ exported' = exported \ {System(p)}
        /\ actlow' = actlow \ {System(p)}
        /\ UNCHANGED gpio_dir
  /\ UNCHANGED <<setup, linger, held, pins, chips, sys>>

OpenDir(p) ==
  /\ pc[p] = "open"
  /\ \/ /\ Directory(p)
        /\ Fine(p)
        /\ gpio_dir' = [gpio_dir EXCEPT ![p] = Lowest(table[p])]
        /\ Open(p, Opened(table[p], File("gpio", System(p))))
        /\ Goto(p, "direction")
        /\ UNCHANGED <<todo, gp_list>>
     \/ /\ IF Directory(p) THEN Fault(p) ELSE Fine(p)
        /\ Drop(p, Syslog(table[p]))
        /\ UNCHANGED gpio_dir
  /\ UNCHANGED <<kernelVars, held, pins, chips, sys>>

\* The directory has not been unexported since.
DirThere(p) == table[p][gpio_dir[p]].live

Hold(p, kind, number) == held' = [held EXCEPT ![p][Index(p)][kind] = number]
WithFile(p, kind) == Opened(table[p], File(kind, System(p)))

Direction(p) ==
  /\ pc[p] = "direction"
  /\ \/ /\ DirThere(p)
        /\ Hold(p, "direction", Lowest(table[p]))
        /\ \/ Fine(p) /\ Open(p, WithFile(p, "direction")) /\ Goto(p, "edge") /\ UNCHANGED <<todo, gp_list>>
           \/ Fault(p) /\ Drop(p, Syslog(WithFile(p, "direction")))
     \/ /\ IF DirThere(p) THEN Fault(p) ELSE Fine(p)
        /\ Hold(p, "direction", -1)
        /\ Drop(p, Syslog(table[p]))
  /\ UNCHANGED <<kernelVars, gpio_dir, pins, chips, sys>>

\* Failures at edge and active_low are logged and no more.
EdgeFile(p) ==
  /\ pc[p] = "edge"
  /\ \/ /\ DirThere(p)
        /\ Hold(p, "edge", Lowest(table[p]))
        /\ \/ Fine(p) /\ Open(p, IF Pin(p).edge = "max" THEN Syslog(WithFile(p, "edge")) ELSE WithFile(p, "edge"))
           \/ Fault(p) /\ Open(p, Syslog(WithFile(p, "edge")))
     \/ /\ IF DirThere(p) THEN Fault(p) ELSE Fine(p)
        /\ Hold(p, "edge", -1)
        /\ Open(p, Syslog(table[p]))
  /\ Goto(p, IF Pin(p).active_low THEN "active_low" ELSE "value")
  /\ UNCHANGED <<kernelVars, todo, gp_list, gpio_dir, pins, chips, sys>>

ActiveLow(p) ==
  /\ pc[p] = "active_low"
  /\ \/ /\ DirThere(p)
        /\ Hold(p, "active_low", Lowest(table[p]))
        /\ \/ Fine(p) /\ Open(p, WithFile(p, "active_low")) /\ actlow' = actlow \cup {System(p)}
           \/ Fault(p) /\ Open(p, Syslog(WithFile(p, "active_low"))) /\ UNCHANGED actlow
     \/ /\ IF DirThere(p) THEN Fault(p) ELSE Fine(p)
        /\ Hold(p, "active_low", -1)
        /\ Open(p, Syslog(table[p]))
        /\ UNCHANGED actlow
  /\ Goto(p, "value")
  /\ UNCHANGED <<setup, exported, linger, todo, gp_list, gpio_dir, pins, chips, sys>>

\* Mutant: gpio_dir is not closed.
ValueFile_DirStays(p) ==
  /\ pc[p] = "value"
  /\ \/ /\ DirThere(p)
        /\ Fine(p)
        /\ Hold(p, "value", Lowest(table[p]))
        /\ Open(p, WithFile(p, "value"))
        /\ NextPin(p)
        /\ UNCHANGED gp_list
     \/ /\ IF DirThere(p) THEN Fault(p) ELSE Fine(p)
        /\ Hold(p, "value", -1)
        /\ Drop(p, Syslog(table[p]))
  /\ UNCHANGED <<kernelVars, gpio_dir, pins, chips, sys>>

ValueFile(p) ==
  /\ pc[p] = "value"
  /\ \/ /\ DirThere(p)
        /\ Fine(p)
        /\ Hold(p, "value", Lowest(table[p]))
        /\ Open(p, Shut(WithFile(p, "value"), {gpio_dir[p]}))
        /\ NextPin(p)
        /\ UNCHANGED gp_list
     \/ /\ IF DirThere(p) THEN Fault(p) ELSE Fine(p)
        /\ Hold(p, "value", -1)
        /\ Drop(p, Syslog(table[p]))
  /\ UNCHANGED <<kernelVars, gpio_dir, pins, chips, sys>>

\* uapi_init_pin: get_chip finds the chip by its name, the offset in it is `local`.
Found(p) == {i \in DOMAIN chips[p] : chips[p][i].name = Pin(p).gpiochip}
Offsets(p) ==
  {chips[p][i].base + Pin(p).local : i \in {j \in Found(p) : Pin(p).local \in 0..(chips[p][j].ngpio - 1)}}

UapiPin(p) ==
  /\ AtPin(p, "uapi")
  /\ LET lines == Offsets(p) \ Busy
         t == table[p]
     IN  \/ \E l \in lines :
              /\ Fine(p)
              /\ Hold(p, "value", Lowest(t))
              /\ Open(p, Opened(t, File("lineevent", l)))
              /\ NextPin(p)
              /\ UNCHANGED gp_list
         \/ /\ IF lines # {} THEN Fault(p) ELSE Fine(p)
            /\ Drop(p, IF Pin(p).gpiochip # Absent /\ Found(p) = {} THEN Syslog(t) ELSE t)
            /\ UNCHANGED held
  /\ UNCHANGED <<kernelVars, gpio_dir, pins, chips, sys>>

\* Mutant: with no pin left there is nothing to loop for.
PinsDone_NoneFails(p) ==
  /\ pc[p] = "pin"
  /\ todo[p] = {}
  /\ Goto(p, IF gp_list[p] = {} THEN "cleansysfs" ELSE "bind")
  /\ UNCHANGED <<kernelVars, faults, todo, gp_list, table, memory>>

PinsDone(p) ==
  /\ pc[p] = "pin"
  /\ todo[p] = {}
  /\ Goto(p, "bind")
  /\ UNCHANGED <<kernelVars, faults, todo, gp_list, table, memory>>

-----------------------------------------------------------------------------
(***************************************************************************)
(* loop, as far as it opens and closes.                                     *)
(***************************************************************************)
Port(p) == PortOf(Text(p))

\* Port 0 is any port.
PortFree(p) ==
  Port(p) = 0 \/ (Port(p) \notin linger /\ \A q \in Proc : pc[q] = "loop" => Port(q) # Port(p))

LoopEnds(p, t) ==
  /\ Goto(p, "clean")
  /\ todo' = [todo EXCEPT ![p] = gp_list[p]]
  /\ Open(p, t)

\* timerfd_settime refuses 10^9 nanoseconds and more.
PeriodFits(p) == PollOf(Text(p)) < 1000

LoopFiles == <<File("epoll", 0), File("listen", 0), File("timer", 0)>>

\* A socket that cannot be bound stays open, and so does epollfd for good; with a
\* period that does not fit timer and socket are closed again.
EnterLoop(p) ==
  /\ pc[p] = "bind"
  /\ LET after == Opening(table[p], LoopFiles)
     IN  IF ~PortFree(p) THEN LoopEnds(p, Syslog(after[2]))
         ELSE IF ~PeriodFits(p)
         THEN LoopEnds(p, Shut(Syslog(after[3]), {Lowest(after[1]), Lowest(after[2])}))
         ELSE Goto(p, "loop") /\ Open(p, after[3]) /\ UNCHANGED todo
  /\ UNCHANGED <<kernelVars, faults, gp_list, memory>>

\* gpiod closes the connections of its clients first, which then keep the port
\* for a while (SO_REUSEADDR is set in a DEBUG build only).
LeaveLoop(p) ==
  /\ pc[p] = "loop"
  /\ LoopEnds(p, Shut(table[p], {n \in DOMAIN table[p] : table[p][n].kind \in {"timer", "listen"}}))
  /\ linger' \in {linger, linger \cup ({Port(p)} \ {0})}
  /\ UNCHANGED <<setup, exported, actlow, faults, gp_list, memory>>

-----------------------------------------------------------------------------
(***************************************************************************)
(* The way out.                                                             *)
(***************************************************************************)
Digits(l) == IF l < 10 THEN 1 ELSE IF l < 100 THEN 2 ELSE IF l < 1000 THEN 3 ELSE 4

Nothing == File("nothing", 0)

\* "0" in `export` or `unexport` is the name of line 0.
ZeroExports(f) == IF f.kind = "export" THEN Line \cap {0} ELSE {}
ZeroUnexports(f) == IF f.kind = "unexport" THEN {0} ELSE {}
ZeroResets(f) == IF f.kind = "active_low" /\ f.live THEN {f.of} ELSE {}

Unexport(p) == System(p) \in exported

\* cleanup_sysfs_pin: active_low is reset through the descriptor whose number is
\* the result of writing to `unexport`, the length of the line's number.
CleanSysfsPin(p) ==
  LET i == Index(p)
      l == System(p)
      gone == IF faults' = faults /\ Unexport(p) THEN {l} ELSE {}
      ret == IF gone = {} THEN -1 ELSE Digits(l)
      before == [q \in Proc |-> IF gone = {} THEN table[q] ELSE Unexported(l, table[q])]
      mine == IF gone = {} THEN Syslog(before[p]) ELSE before[p]
      hit == IF held[p][i]["active_low"] # 0 /\ ret \in DOMAIN mine THEN mine[ret] ELSE Nothing
  IN  /\ \/ Fine(p)
         \/ l \in exported /\ Fault(p)
      /\ exported' = ((exported \ gone) \cup ZeroExports(hit)) \ ZeroUnexports(hit)
      /\ actlow' = (actlow \ gone) \ ZeroResets(hit)
      /\ table' = [before EXCEPT ![p] = Shut(mine, {held[p][i][k] : k \in DOMAIN held[p][i]} \ {0})]
      /\ held' = [held EXCEPT ![p][i] = [k \in DOMAIN @ |-> IF @[k] = 0 THEN 0 ELSE -1]]

CleanUapiPin(p) ==
  /\ Fine(p)
  /\ Open(p, Shut(table[p], {held[p][Index(p)]["value"]}))
  /\ UNCHANGED <<exported, actlow, held>>

CleanPin(p) ==
  /\ pc[p] = "clean"
  /\ todo[p] # {}
  /\ IF Pin(p).facility = "sysfs" THEN CleanSysfsPin(p) ELSE CleanUapiPin(p)
  /\ todo' = [todo EXCEPT ![p] = @ \ {Index(p)}]
  /\ UNCHANGED <<setup, linger, pc, gp_list, gpio_dir, pins, chips, sys>>

\* Mutant: the chips are closed before sysfs is.
PinsCleaned_ChipsFirst(p) ==
  /\ pc[p] = "clean"
  /\ todo[p] = {}
  /\ Goto(p, "cleanchips")
  /\ UNCHANGED <<kernelVars, faults, todo, gp_list, table, memory>>

PinsCleaned(p) ==
  /\ pc[p] = "clean"
  /\ todo[p] = {}
  /\ Goto(p, "cleansysfs")
  /\ UNCHANGED <<kernelVars, faults, todo, gp_list, table, memory>>

\* cleanup_sysfs: the directory is closed twice, by number and as a stream; with
\* no stream what closedir does is the library's choice.
CleanSysfs(p) ==
  /\ pc[p] = "cleansysfs"
  /\ \/ Goto(p, "cleanchips") /\ Open(p, Shut(table[p], {sys[p][k] : k \in DOMAIN sys[p]}))
     \/ sys[p]["sysfs"] = -1 /\ Vanish(p)
  /\ UNCHANGED <<kernelVars, faults, todo, gp_list, memory>>

CleanChips(p) ==
  /\ pc[p] = "cleanchips"
  /\ Open(p, Shut(table[p], {chips[p][i].fd : i \in DOMAIN chips[p]}))
  /\ Goto(p, "exit")
  /\ UNCHANGED <<kernelVars, faults, todo, gp_list, memory>>

Exit(p) ==
  /\ pc[p] = "exit"
  /\ Vanish(p)
  /\ UNCHANGED <<kernelVars, faults, todo, gp_list, memory>>

Crash(p) ==
  /\ Up(p)
  /\ Fault(p)
  /\ Vanish(p)
  /\ UNCHANGED <<kernelVars, todo, gp_list, memory>>

Run(p) ==
  \/ LoadConfig(p) \/ LoadTabs(p) \/ InitChips(p) \/ InitSysfs(p)
  \/ Export(p) \/ OpenDir(p) \/ Direction(p) \/ EdgeFile(p) \/ ActiveLow(p) \/ ValueFile(p)
  \/ UapiPin(p) \/ PinsDone(p) \/ EnterLoop(p)
  \/ CleanPin(p) \/ PinsCleaned(p) \/ CleanSysfs(p) \/ CleanChips(p) \/ Exit(p)

LingerEnds ==
  /\ linger # {}
  /\ linger' = {}
  /\ UNCHANGED <<setup, exported, actlow, faults, pc, todo, gp_list, table, memory>>

Next ==
  \/ \E p \in Proc : Start(p) \/ Run(p) \/ LeaveLoop(p) \/ Crash(p)
  \/ LingerEnds

Spec == Init /\ [][Next]_vars

\* A gpiod goes on whenever it can; nothing makes it leave its loop.
FairSpec == Spec /\ \A p \in Proc : WF_vars(Run(p))

-----------------------------------------------------------------------------
(***************************************************************************)
(* Correctness.                                                             *)
(***************************************************************************)
Kinds == {"std", "signal", "log", "chipdir", "chip", "sysfs", "export", "unexport",
          "lineevent", "epoll", "listen", "timer"} \cup LineFiles

TypeOK ==
  /\ setup \in Setups
  /\ exported \subseteq Line /\ actlow \subseteq exported
  /\ faults \in [Proc -> Nat]
  /\ \A p \in Proc :
       /\ pc[p] \in {"off", "config", "tabs", "chips", "sysfs", "pin", "open", "direction", "edge", "active_low",
                     "value", "bind", "loop", "clean", "cleansysfs", "cleanchips", "exit", "gone"}
       /\ gp_list[p] \subseteq DOMAIN pins[p]
       /\ todo[p] \subseteq DOMAIN pins[p]
       /\ DOMAIN table[p] \subseteq Nat
       /\ Files(p) \subseteq [kind : Kinds, of : Nat, live : BOOLEAN]

\* What a gpiod believes to have open, until it starts to close chips and sysfs.
Remembered(p) ==
  {[n |-> sys[p][k], kind |-> k, pin |-> 0] : k \in {x \in DOMAIN sys[p] : sys[p][x] # -1}}
    \cup (IF setup.uapi THEN {[n |-> chips[p][i].fd, kind |-> "chip", pin |-> 0] : i \in DOMAIN chips[p]} ELSE {})
    \cup UNION {{[n |-> held[p][i][k], pin |-> i,
                  kind |-> IF pins[p][i].facility = "sysfs" THEN k ELSE "lineevent"] :
                   k \in {x \in DOMAIN held[p][i] : held[p][i][x] > 0}} :
                 i \in {j \in gp_list[p] : pc[p] = "clean" => j \in todo[p]}}

Remembers(p) == Up(p) /\ pc[p] \notin {"cleansysfs", "cleanchips", "exit"}

\* A number gpiod keeps is the number of what it was kept for, and of nothing
\* else, whichever calls have failed: a pin's value is read from its own file
\* and a failure to close or to open never lets it talk to another.
NumbersAreOwn ==
  \A p \in Proc : Remembers(p) =>
    \A r \in Remembered(p) :
      /\ r.n \in DOMAIN table[p] /\ table[p][r.n].kind = r.kind
      /\ r.pin # 0 /\ r.kind # "lineevent" => table[p][r.n].of = pins[p][r.pin].system
      /\ \A s \in Remembered(p) : r.n = s.n => r = s

\* A step closes what it is there to close and nothing else, although numbers
\* are closed twice (sysfs.c:89-92) or after they have been given away
\* (chip-sysfs.c:77, chip.c:94 and :110).  Without uapi the stale number of the
\* chips may be the log's by then; nothing is logged any more.
Closes(p) ==
  CASE pc[p] = "chips"         -> {"chipdir"}
    [] pc[p] = "value"         -> {"gpio"}
    [] pc[p] \in {"bind", "loop"} -> {"timer", "listen"}
    [] pc[p] = "clean"         -> {"direction", "edge", "active_low", "value", "lineevent"}
    [] pc[p] = "cleansysfs"    -> {"sysfs", "export", "unexport"}
    [] pc[p] = "cleanchips"    -> IF setup.uapi THEN {"chip"} ELSE {"log"}
    [] OTHER                   -> {}

ClosesOwn ==
  [][\A p \in Proc : pc'[p] # "gone" =>
       \A n \in DOMAIN table[p] \ DOMAIN table'[p] :
         table[p][n].kind \in Closes(p)]_vars

\* Cleaning up one pin changes no other line: the "0" for active_low, written to
\* a number that is no descriptor of the pin (sysfs.c:329), reaches no file of
\* sysfs as long as the numbers up to four belong to main.
CleanupKeepsToItsLine ==
  [][\A p \in Proc : pc[p] = "clean" /\ todo'[p] # todo[p] =>
       LET own == IF Pin(p).facility = "sysfs" THEN {System(p)} ELSE {}
       IN  exported' \ own = exported \ own /\ actlow' \ own = actlow \ own]_vars

\* The line a pin is, as loadConfig fills it in: a system number, or the place
\* `local` in a chip.
LinesOf(pin) ==
  IF pin.facility = "sysfs"
  THEN {pin.system}
  ELSE {Chips[c].base + pin.local : c \in {d \in DOMAIN Chips : Chips[d].name = pin.gpiochip}}

\* While gpiod loops, every pin in its list is read from an open file of the pin's
\* own line, whatever has failed for the pins around it; and of gpiods that run one
\* after the other, also after a crash, none finds that file dead, since nothing
\* unexports a line under a pin that is still watched.  (Beside another gpiod that
\* does happen: sysfs.c:319-320 on the other's way out.)
WatchedLive ==
  \A p \in Proc : pc[p] = "loop" =>
    \A i \in gp_list[p] :
      LET n == held[p][i]["value"] IN
      /\ n \in DOMAIN table[p]
      /\ table[p][n].of \in LinesOf(pins[p][i])
      /\ ~setup.overlap => table[p][n].live

\* A pin is given up only if it cannot be had: its line does not exist, has another
\* name, is a driver's, is exported where it should be requested, or a kept pin
\* before it in the file has the same line and one of the two requests it.
Usable(p, i) ==
  LET pin == pins[p][i] IN
  IF pin.facility = "sysfs"
  THEN pin.system \in Line \ Taken /\ (pin.name # Absent <=> pin.system \in Named)
  ELSE \E c \in DOMAIN Chips :
         /\ Chips[c].name = pin.gpiochip
         /\ pin.local \in 0..(Chips[c].ngpio - 1)
         /\ Chips[c].base + pin.local \in Line \ (Taken \cup exported)

\* The pins want one line, which one of them requests.
Same(p, i, j) ==
  /\ LinesOf(pins[p][i]) \cap LinesOf(pins[p][j]) # {}
  /\ pins[p][i].facility = "uapi" \/ pins[p][j].facility = "uapi"

NothingDropped ==
  \A p \in Proc : ~setup.overlap /\ faults[p] = 0 /\ pc[p] \in {"bind", "loop"} =>
    \A i \in DOMAIN pins[p] \ gp_list[p] :
      ~Usable(p, i) \/ \E j \in gp_list[p] : j < i /\ Same(p, i, j)

\* A gpiod that met no failure and no other gpiod loops with nothing open but what
\* it remembers, whichever pins it has given up, and at its end has nothing open
\* but what lives as long as main and has unexported every pin it kept
\* (gpiod.c:271-278).  The line of a pin that was given up stays exported
\* (gpiod-pin.c:67-70), and after a failing call its files stay open as well.
LeavesNothing ==
  \A p \in Proc : ~setup.overlap /\ faults[p] = 0 =>
    /\ pc[p] = "loop" => \A n \in DOMAIN table[p] :
         \/ table[p][n].kind \in {"std", "signal", "log", "epoll", "listen", "timer"}
         \/ \E r \in Remembered(p) : r.n = n
    /\ pc[p] = "exit" =>
         /\ \A f \in Files(p) : f.kind \in {"std", "signal", "log", "epoll", "listen"}
         /\ \A i \in gp_list[p] : pins[p][i].facility = "sysfs" => pins[p][i].system \notin exported

\* What the code needs of a file, which is more than README.md:84-89 says: there
\* `listen` is optional with a default, while without it gpiod crashes
\* (config.c:118), and `poll` is any number of milliseconds, while with a second or
\* more the loop ends at once (event-loop.c:188-197).
Usual(text) ==
  /\ ParseSuccess(text)
  /\ text.listen \notin {Absent, "invalid"}
  /\ PollOf(text) < 1000

\* With such a file a gpiod that meets no failure, no other gpiod and no port in
\* TIME_WAIT gets to its loop, also after one that has crashed and left its lines
\* exported (sysfs.c:232), and whichever of its pins it has to give up.
GetsToLoop ==
  \A p \in Proc :
    (pc[p] = "config" /\ ~setup.overlap /\ setup.faults[p] = 0 /\ Usual(Text(p)) /\ linger = {}) ~>
      (pc[p] = "loop")

=============================================================================
