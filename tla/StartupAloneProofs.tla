-------------------------- MODULE StartupAloneProofs --------------------------
(***************************************************************************)
(* What a gpiod watches that meets no other, and what it gets and leaves    *)
(* when no call fails either: the proofs of WatchedLive, NothingDropped and *)
(* LeavesNothing of Startup, on top of the invariant of StartupProofs.      *)
(***************************************************************************)
EXTENDS StartupProofs

\* Who does not run has nothing open, and no two run.
Apart ==
  /\ \A p \in Proc : ~Up(p) => DOMAIN table[p] = {}
  /\ ~setup.overlap => \A p, q \in Proc : Up(p) /\ Up(q) => p = q

Quiet(p) == ~setup.overlap /\ faults[p] = 0 /\ Up(p)

Watching == AtPins \ {"clean"}

AllLive(p) == pc[p] \in Early \cup {"sysfs"} \cup Watching => \A n \in DOMAIN table[p] : table[p][n].live
AllChips(p) == setup.uapi /\ pc[p] \in {"sysfs"} \cup AtPins => DOMAIN chips[p] = DOMAIN Chips

\* Pins come in their order; a line is requested for a pin that has come, and is
\* not used in any other way.
PinOrder(p) == pc[p] \in {"pin"} \cup InPin => \A j \in DOMAIN pins[p] \ todo[p], i \in todo[p] : j < i
Requesting(p, j) == j \in gp_list[p] \ todo[p] /\ pins[p][j].facility # "sysfs"
RequestHeld(p) ==
  pc[p] \in Watching =>
    \A n \in DOMAIN table[p] : KindAt(p, n) = "lineevent" =>
      /\ OfAt(p, n) \notin exported \cup Taken
      /\ \E j \in DOMAIN pins[p] : Requesting(p, j) /\ held[p][j]["value"] = n

\* Behind the write to `export` a line is exported, or was had already.
Exported(p) ==
  pc[p] = "open" /\ System(p) \notin Taken => System(p) \in exported \cup Requested

\* Whoever has a pin's line is a pin before it.
Refused(p, i) ==
  \/ ~Usable(p, i)
  \/ \E j \in DOMAIN pins[p] : j < i /\ Requesting(p, j) /\ OfAt(p, held[p][j]["value"]) \in LinesOf(pins[p][i])
DroppedRightly(p) ==
  pc[p] \in Watching => \A i \in DOMAIN pins[p] \ gp_list[p] : Refused(p, i)

\* A pin's files are opened one after the other.
FilesDone == [x \in {"edge", "active_low", "value"} |->
  CASE x = "edge" -> {"direction"} [] x = "active_low" -> {"direction", "edge"}
    [] x = "value" -> {"direction", "edge", "active_low"}]
HeldInOrder(p) ==
  pc[p] \in {"pin"} \cup InPin =>
    \A i \in todo[p], k \in HeldKeys : held[p][i][k] > 0 =>
      i = Index(p) /\ pc[p] \in DOMAIN FilesDone /\ k \in FilesDone[pc[p]]

\* Every descriptor has its use.
MainFiles == {"std", "signal", "log", "epoll", "listen"}
PinFileAt(p, n) ==
  \E i \in Kept(p), k \in HeldKeys : held[p][i][k] = n /\ (pins[p][i].facility = "sysfs" \/ k = "value")
Accounted(p) ==
  \A n \in DOMAIN table[p] :
    \/ KindAt(p, n) \in MainFiles
    \/ KindAt(p, n) = "timer" /\ pc[p] = "loop"
    \/ pc[p] \notin {"cleanchips", "exit"} /\ \E k \in SysKeys : sys[p][k] = n
    \/ setup.uapi /\ pc[p] # "exit" /\ \E i \in DOMAIN chips[p] : chips[p][i].fd = n
    \/ pc[p] \in AtPins /\ PinFileAt(p, n)
    \/ pc[p] \in InPin \ {"open"} /\ n = gpio_dir[p]

\* A pin that has been cleaned up is not exported.
LeftUnexported(p) ==
  pc[p] \in Leaving =>
    \A i \in gp_list[p] : pins[p][i].facility = "sysfs" =>
      pins[p][i].system \notin exported \/ (pc[p] = "clean" /\ i \in todo[p])

Gets(p) == AllLive(p) /\ AllChips(p) /\ PinOrder(p) /\ RequestHeld(p) /\ Exported(p) /\ DroppedRightly(p)
Leaves(p) == HeldInOrder(p) /\ Accounted(p) /\ LeftUnexported(p)

AloneInv == Apart /\ \A p \in Proc : Quiet(p) => Gets(p) /\ Leaves(p)

-----------------------------------------------------------------------------
(***************************************************************************)
(* Whose step it is.                                                        *)
(***************************************************************************)
LEMMA EveryStep ==
  ASSUME IInv, NEW p \in Proc, Start(p) \/ Run(p) \/ LeaveLoop(p) \/ Crash(p)
  PROVE  /\ setup' = setup
         /\ \A q \in Proc \ {p} : pc'[q] = pc[q]
         /\ Start(p) \/ Up(p)
         /\ faults' = faults \/ Fault(p)
         /\ Up(p)' \/ Vanish(p)
<1> USE DEF Goto, Vanish, Up, kernelVars
<1>1. DOMAIN pc = Proc
  BY DEF IInv, Shaped
<1>2. CASE Start(p) \/ LoadTabs(p)
  BY <1>1, <1>2 DEF Start, LoadTabs
<1>3. CASE LoadConfig(p)
  BY <1>1, <1>3 DEF LoadConfig
<1>4. CASE InitChips(p)
  BY <1>1, <1>4 DEF InitChips, ScanUapi, ScanSysfs, Fine
<1>5. CASE InitSysfs(p)
  BY <1>1, <1>5 DEF InitSysfs, Fine
<1>6. CASE Export(p)
  BY <1>1, <1>6 DEF Export, AtPin, Drop, NextPin, Fine
<1>7. CASE OpenDir(p) \/ Direction(p)
  BY <1>1, <1>7 DEF OpenDir, Direction, Drop, NextPin, Fine
<1>8. CASE EdgeFile(p) \/ ActiveLow(p)
  BY <1>1, <1>8 DEF EdgeFile, ActiveLow, Fine
<1>9. CASE ValueFile(p) \/ UapiPin(p)
  BY <1>1, <1>9 DEF ValueFile, UapiPin, AtPin, Drop, NextPin, Fine
<1>10. CASE PinsDone(p) \/ PinsCleaned(p)
  BY <1>1, <1>10 DEF PinsDone, PinsCleaned
<1>11. CASE EnterLoop(p) \/ LeaveLoop(p)
  BY <1>1, <1>11 DEF EnterLoop, LeaveLoop, LoopEnds
<1>12. CASE CleanPin(p)
  BY <1>1, <1>12 DEF CleanPin, CleanSysfsPin, CleanUapiPin, Fine
<1>13. CASE CleanSysfs(p) \/ CleanChips(p)
  BY <1>1, <1>13 DEF CleanSysfs, CleanChips
<1>14. CASE Exit(p) \/ Crash(p)
  BY <1>1, <1>14 DEF Exit, Crash
<1> QED
  BY <1>2, <1>3, <1>4, <1>5, <1>6, <1>7, <1>8, <1>9, <1>10, <1>11, <1>12, <1>13, <1>14 DEF Run

LEMMA ApartKept ==
  ASSUME IInv, Apart, [Next]_vars
  PROVE  Apart'
<1>1. CASE LingerEnds \/ UNCHANGED vars
  BY <1>1 DEF LingerEnds, vars, kernelVars, Apart, Up
<1>2. ASSUME NEW p \in Proc, Start(p) \/ Run(p) \/ LeaveLoop(p) \/ Crash(p)
      PROVE  Apart'
  <2>1. /\ setup' = setup /\ \A q \in Proc \ {p} : pc'[q] = pc[q]
        /\ Start(p) \/ Up(p)
        /\ Up(p)' \/ Vanish(p)
    BY <1>2, EveryStep
  <2>2. \A q \in Proc \ {p} : DOMAIN table'[q] = DOMAIN table[q]
    BY <1>2, OthersTables, CleanPinCloses
  <2>3. Vanish(p) => DOMAIN table'[p] = {}
    BY NothingOpen DEF Vanish, Open, IInv, Shaped
  <2>4. Start(p) /\ ~setup.overlap => \A q \in Proc : ~Up(q)
    BY DEF Start
  <2> QED
    BY <2>1, <2>2, <2>3, <2>4 DEF Apart, Up
<1> QED
  BY <1>1, <1>2 DEF Next

\* Nobody else moves, and nothing fails.
LEMMA QuietStep ==
  ASSUME IInv, Apart, Next, NEW p \in Proc, Quiet(p)'
  PROVE  \/ LingerEnds /\ Quiet(p)
         \/ Start(p)
         \/ Quiet(p) /\ faults' = faults /\ (Run(p) \/ LeaveLoop(p))
<1>1. CASE LingerEnds
  BY <1>1 DEF LingerEnds, Quiet, Up
<1>2. ASSUME NEW q \in Proc, Start(q) \/ Run(q) \/ LeaveLoop(q) \/ Crash(q)
      PROVE  Start(p) \/ (Quiet(p) /\ faults' = faults /\ (Run(p) \/ LeaveLoop(p)))
  <2>1. /\ setup' = setup /\ \A r \in Proc \ {q} : pc'[r] = pc[r]
        /\ Start(q) \/ Up(q)
        /\ faults' = faults \/ Fault(q)
        /\ Up(q)' \/ Vanish(q)
    BY <1>2, EveryStep
  <2>2. ~setup.overlap /\ faults'[p] = 0 /\ Up(p)'
    BY <2>1 DEF Quiet
  <2>3. CASE q = p
    <3>1. CASE Fault(p)
      BY <2>2, <3>1 DEF Fault, IInv, Shaped
    <3>2. CASE Crash(p)
      BY <2>2, <3>2 DEF Crash, Vanish, Goto, Up, IInv, Shaped
    <3>3. Up(p) /\ faults' = faults => Quiet(p)
      BY <2>1, <2>2 DEF Quiet
    <3> QED
      BY <1>2, <2>1, <2>3, <3>1, <3>2, <3>3
  <2>4. CASE q # p
    <3>1. Up(p)
      BY <2>1, <2>2, <2>4 DEF Up
    <3> QED
      BY <2>1, <2>2, <2>4, <3>1 DEF Apart, Start
  <2> QED
    BY <2>3, <2>4
<1> QED
  BY <1>1, <1>2 DEF Next

-----------------------------------------------------------------------------
(***************************************************************************)
(* Before the pins: nothing but main's files and the chips.                 *)
(***************************************************************************)
Alive(t) == \A n \in DOMAIN t : t[n].live

LEMMA GrownAlive ==
  ASSUME NEW t, NEW u, Alive(t), Grows(t, u)
  PROVE  Alive(u)
BY DEF Alive, Grows

ChipsHeld(p) ==
  /\ setup.uapi => DOMAIN chips[p] = DOMAIN Chips
  /\ \A n \in DOMAIN table[p] : KindAt(p, n) = "chip" => setup.uapi /\ \E i \in DOMAIN chips[p] : chips[p][i].fd = n

LEMMA BeforePins ==
  ASSUME NEW p \in Proc, EarlyFiles(p)', pc'[p] \in Early \cup {"sysfs"}, Alive(table'[p]),
         pc'[p] = "sysfs" => ChipsHeld(p)'
  PROVE  Gets(p)' /\ Leaves(p)'
<1>1. pc'[p] \notin Watching /\ pc'[p] \notin AtPins /\ pc'[p] \notin InPin /\ pc'[p] \notin Leaving /\ pc'[p] # "exit"
  BY DEF Early, Watching, AtPins, InPin, Leaving
<1>2. /\ AllLive(p)' /\ PinOrder(p)' /\ RequestHeld(p)' /\ Exported(p)' /\ DroppedRightly(p)'
      /\ HeldInOrder(p)' /\ LeftUnexported(p)'
  BY <1>1 DEF AllLive, PinOrder, RequestHeld, Exported, DroppedRightly, HeldInOrder, LeftUnexported, Alive, Early, InPin
<1>3. AllChips(p)'
  BY <1>1 DEF AllChips, ChipsHeld, Early
<1>4. Accounted(p)'
  BY <1>1 DEF Accounted, EarlyFiles, Early, MainFiles, ChipsHeld, KindAt
<1> QED
  BY <1>2, <1>3, <1>4 DEF Gets, Leaves

LEMMA StartAlone ==
  ASSUME IInv', NEW p \in Proc, DOMAIN pc = Proc, DOMAIN table = Proc, Start(p)
  PROVE  Gets(p)' /\ Leaves(p)'
<1>1. pc'[p] = "config" /\ table'[p] = AtMain(p)
  BY DEF Start, Goto, Open
<1>2. PICK n \in Nat : n > 3 /\ MainTable(table'[p], n)
  BY <1>1, AtMainTable
<1>3. Alive(table'[p]) /\ EarlyFiles(p)'
  BY <1>2 DEF MainTable, Alive, IInv, Local
<1> QED
  BY <1>1, <1>3, BeforePins DEF Early

LEMMA LoadConfigAlone ==
  ASSUME IInv, IInv', NEW p \in Proc, Gets(p), LoadConfig(p), Up(p)'
  PROVE  Gets(p)' /\ Leaves(p)'
<1>1. IsTable(table[p]) /\ DOMAIN pc = Proc /\ DOMAIN table = Proc /\ DOMAIN pins = Proc /\ DOMAIN gp_list = Proc
      /\ EarlyFiles(p) /\ EarlyFiles(p)' /\ pc[p] = "config"
  BY DEF IInv, Shaped, Local, TableTyped, LoadConfig
<1>2. Alive(table[p])
  BY <1>1 DEF Gets, AllLive, Early, Alive
<1>3. /\ Grows(table[p], Syslog(table[p])) /\ Grows(table[p], table[p])
      /\ \A n \in DOMAIN Syslog(table[p]) \ DOMAIN table[p] : Syslog(table[p])[n] = File("log", 0)
  BY <1>1, SyslogGrows DEF Grows
<1>4. CASE LoadOutcome(Text(p)) = "crash"
  BY <1>1, <1>4 DEF LoadConfig, Vanish, Goto, Up
<1>5. CASE LoadOutcome(Text(p)) = "fail"
  <2>1. /\ pc'[p] = "exit" /\ table'[p] = Syslog(table[p]) /\ pins'[p] = <<>> /\ gp_list'[p] = {}
    BY <1>1, <1>5 DEF LoadConfig, Goto, Open
  <2>2. \A n \in DOMAIN table'[p] : table'[p][n].kind \in MainFiles
    BY <1>1, <1>3, <2>1 DEF EarlyFiles, KindAt, Grows, File, MainFiles, Early
  <2>3. Gets(p)'
    BY <2>1 DEF Gets, AllLive, AllChips, PinOrder, RequestHeld, Exported, DroppedRightly,
                Watching, AtPins, InPin, Early
  <2>4. HeldInOrder(p)' /\ LeftUnexported(p)'
    BY <2>1 DEF HeldInOrder, LeftUnexported, InPin
  <2>5. Accounted(p)'
    BY <2>2 DEF Accounted, KindAt
  <2> QED
    BY <2>3, <2>4, <2>5 DEF Leaves
<1>6. CASE LoadOutcome(Text(p)) \notin {"crash", "fail"}
  <2>1. pc'[p] = "tabs" /\ table'[p] \in {table[p], Syslog(table[p])}
    BY <1>1, <1>6 DEF LoadConfig, Goto, Open
  <2>2. Alive(table'[p])
    BY <1>2, <1>3, <2>1, GrownAlive
  <2> QED
    BY <1>1, <2>1, <2>2, BeforePins DEF Early
<1> QED
  BY <1>4, <1>5, <1>6

LEMMA LoadTabsAlone ==
  ASSUME IInv, IInv', NEW p \in Proc, Gets(p), LoadTabs(p)
  PROVE  Gets(p)' /\ Leaves(p)'
<1>1. IsTable(table[p]) /\ DOMAIN pc = Proc /\ DOMAIN table = Proc /\ EarlyFiles(p)' /\ pc[p] = "tabs"
  BY DEF IInv, Shaped, Local, TableTyped, LoadTabs
<1>2. Alive(table[p])
  BY <1>1 DEF Gets, AllLive, Early, Alive
<1> DEFINE reading == AllOpened(table[p], <<File("tabs", 0), File("tab", 0)>>)
           u == Shut(Syslog(reading), DOMAIN reading \ DOMAIN table[p])
<1>3. Grows(table[p], Syslog(table[p])) /\ Grows(table[p], table[p]) /\ Grows(table[p], u)
  BY <1>1, SyslogGrows, LoadTabsTable DEF Grows
<1>4. pc'[p] = "chips" /\ table'[p] \in {table[p], Syslog(table[p]), u}
  BY <1>1 DEF LoadTabs, Goto, Open
<1> HIDE DEF u
<1>5. Alive(table'[p])
  BY <1>2, <1>3, <1>4, GrownAlive
<1> QED
  BY <1>1, <1>4, <1>5, BeforePins DEF Early

LEMMA InitChipsAlone ==
  ASSUME IInv, IInv', NEW p \in Proc, Gets(p), InitChips(p), faults' = faults
  PROVE  Gets(p)' /\ Leaves(p)'
<1> DEFINE t == table[p]
           after == Opening(t, ChipFiles)
           N == Len(Chips)
           u == Shut(after[N + 1], {Lowest(t)})
<1>1. /\ IsTable(t) /\ DOMAIN pc = Proc /\ DOMAIN table = Proc /\ DOMAIN chips = Proc
      /\ faults \in [Proc -> Nat] /\ setup' = setup /\ EarlyFiles(p) /\ EarlyFiles(p)' /\ pc[p] = "chips"
  BY DEF IInv, Shaped, Local, TableTyped, InitChips, kernelVars
<1>2. Alive(t)
  BY <1>1 DEF Gets, AllLive, Early, Alive
<1>3. ~Fault(p)
  BY <1>1 DEF Fault
<1>4. N \in Nat /\ DOMAIN Chips = 1..N
  BY ChipsTyping
<1>5. CASE setup.uapi
  <2>1. PICK k \in 0..N : \E left \in k..(k + 1) :
          /\ IF k = N THEN left = k /\ Fine(p) ELSE left <= N /\ Fault(p)
          /\ Open(p, Shut(after[left + 1], {Lowest(t)}))
          /\ chips' = [chips EXCEPT ![p] =
               [i \in 1..k |-> [name |-> Chips[i].name, base |-> Chips[i].base,
                                ngpio |-> Chips[i].ngpio, fd |-> Lowest(after[i])]]]
          /\ Goto(p, "sysfs")
    BY <1>3, <1>5 DEF InitChips, ScanUapi, ChipFiles
  <2>2. /\ pc'[p] = "sysfs" /\ table'[p] = u
        /\ chips'[p] = [i \in 1..N |-> [name |-> Chips[i].name, base |-> Chips[i].base,
                                        ngpio |-> Chips[i].ngpio, fd |-> Lowest(after[i])]]
    BY <1>1, <1>3, <2>1 DEF Goto, Open
  <2>3. N \in 0..Len(Chips)
    BY <1>4
  <2> HIDE DEF N, t
  <2>4. /\ Grows(t, u)
        /\ \A n \in DOMAIN u \ DOMAIN t : u[n].kind = "chip" /\ \E i \in 1..N : n = Lowest(after[i])
    BY <1>1, <2>3, ChipsOpened
  <2> HIDE DEF u, after
  <2>5. Alive(table'[p])
    BY <1>2, <2>2, <2>4, GrownAlive
  <2>6. \A n \in DOMAIN u : u[n].kind = "chip" => \E i \in 1..N : n = Lowest(after[i])
    BY <1>1, <2>4 DEF Grows, EarlyFiles, KindAt, Early, t
  <2>7. DOMAIN chips'[p] = 1..N /\ \A i \in 1..N : chips'[p][i].fd = Lowest(after[i])
    BY <2>2
  <2>8. ChipsHeld(p)'
    <3>1. table'[p] = u /\ DOMAIN chips'[p] = DOMAIN Chips
      BY <1>4, <2>2, <2>7 DEF N
    <3>2. \A n \in DOMAIN u : u[n].kind = "chip" => \E i \in DOMAIN chips'[p] : chips'[p][i].fd = n
      BY <2>6, <2>7
    <3> QED
      BY <1>1, <1>5, <3>1, <3>2 DEF ChipsHeld, KindAt
  <2> QED
    BY <1>1, <2>2, <2>5, <2>8, BeforePins
<1>6. CASE ~setup.uapi
  <2>1. pc'[p] = "sysfs" /\ table'[p] = t
    BY <1>1, <1>3, <1>6 DEF InitChips, ScanSysfs, Goto
  <2>2. ChipsHeld(p)'
    BY <1>1, <1>6, <2>1 DEF ChipsHeld, EarlyFiles, KindAt, Early
  <2> QED
    BY <1>1, <1>2, <2>1, <2>2, BeforePins
<1> QED
  BY <1>5, <1>6

LEMMA InitSysfsAlone ==
  ASSUME IInv, IInv', NEW p \in Proc, Gets(p), Leaves(p), InitSysfs(p), faults' = faults
  PROVE  Gets(p)' /\ Leaves(p)'
<1> DEFINE t == table[p]
           after == Opening(t, SysfsFiles)
           u == after[3]
<1>1. /\ IsTable(t) /\ DOMAIN pc = Proc /\ DOMAIN table = Proc /\ DOMAIN sys = Proc /\ DOMAIN todo = Proc
      /\ faults \in [Proc -> Nat] /\ EarlyFiles(p) /\ pc[p] = "sysfs" /\ 0..3 \subseteq DOMAIN t
      /\ SysTyped(p) /\ gp_list[p] = DOMAIN pins[p]
  BY DEF IInv, Shaped, Local, TableTyped, InitSysfs, LowNumbers, Up, ListTyped
<1>2. /\ setup' = setup /\ gp_list' = gp_list /\ held' = held /\ pins' = pins /\ chips' = chips
      /\ todo'[p] = DOMAIN pins[p]
  BY <1>1 DEF InitSysfs, kernelVars
<1>3. Alive(t)
  BY <1>1 DEF Gets, AllLive, Alive
<1>4. ~Fault(p)
  BY <1>1 DEF Fault
<1>5. /\ sys' = [sys EXCEPT ![p] = [x \in DOMAIN @ |-> IF Place[x] <= 3 THEN Lowest(after[Place[x] - 1]) ELSE -1]]
      /\ Open(p, u) /\ Goto(p, "pin")
  BY <1>4 DEF InitSysfs, SysfsFiles
<1>6. /\ pc'[p] = "pin" /\ table'[p] = u
      /\ \A x \in SysKeys : sys'[p][x] = IF Place[x] <= 3 THEN Lowest(after[Place[x] - 1]) ELSE -1
  BY <1>1, <1>5 DEF Goto, Open, SysTyped
<1>7. /\ Grows(t, u)
      /\ \A n \in DOMAIN u \ DOMAIN t : u[n].kind \in SysKeys /\ \E x \in SysKeys : n = Lowest(after[Place[x] - 1])
      /\ \A x \in SysKeys : Place[x] \in 1..3
  <2> HIDE DEF t
  <2> QED
    BY <1>1, SysfsOpened
<1> HIDE DEF u, after
<1>8. Alive(table'[p])
  BY <1>3, <1>6, <1>7, GrownAlive
<1>9. \A n \in DOMAIN u \ DOMAIN t : \E x \in SysKeys : sys'[p][x] = n
  BY <1>6, <1>7
<1>10. \A n \in DOMAIN t : u[n] = t[n] /\ KindAt(p, n) \in {"std", "signal", "log", "chip"}
  BY <1>1, <1>7 DEF Grows, EarlyFiles
<1>11. \A i \in DOMAIN pins[p], k \in HeldKeys : held[p][i][k] <= 0
  BY <1>1, EarlyHeld DEF IInv, Local
<1>12. AllLive(p)' /\ AllChips(p)'
  BY <1>2, <1>6, <1>8 DEF Gets, AllLive, AllChips, Alive, AtPins, InitSysfs
<1>13. PinOrder(p)' /\ Exported(p)' /\ DroppedRightly(p)' /\ HeldInOrder(p)' /\ LeftUnexported(p)'
  BY <1>1, <1>2, <1>6, <1>11 DEF PinOrder, Exported, DroppedRightly, HeldInOrder, LeftUnexported, Leaving,
                                HeldTyped, IInv, Local
<1>14. RequestHeld(p)'
  BY <1>6, <1>7, <1>10 DEF RequestHeld, KindAt, SysKeys
<1>15. Accounted(p)'
  <2>1. \A n \in DOMAIN t : KindAt(p, n) = "chip" => \A k \in SysKeys : sys[p][k] # n
    <3>1. \A k \in SysKeys : sys[p][k] # -1 => Has(p, sys[p][k], k)
      BY <1>1 DEF IInv, Local, SysOwn
    <3>2. \A n \in DOMAIN t : n # -1
      BY <1>1 DEF IsTable
    <3> QED
      BY <3>1, <3>2 DEF Has, SysKeys
  <2>2. ASSUME NEW n \in DOMAIN t, KindAt(p, n) = "chip"
        PROVE  setup.uapi /\ \E i \in DOMAIN chips[p] : chips[p][i].fd = n
    BY <1>1, <2>1, <2>2 DEF Leaves, Accounted, AtPins, InPin, MainFiles
  <2> QED
    BY <1>2, <1>6, <1>9, <1>10, <2>2 DEF Accounted, KindAt, MainFiles
<1> QED
  BY <1>12, <1>13, <1>14, <1>15 DEF Gets, Leaves

-----------------------------------------------------------------------------
(***************************************************************************)
(* init_gpio_pins: every pin gets its files, or is refused.                 *)
(***************************************************************************)
LEMMA IndexLeast ==
  ASSUME IInv, NEW p \in Proc, pc[p] # "clean", todo[p] # {}
  PROVE  \A i \in todo[p] : Index(p) <= i
<1>1. todo[p] \subseteq Nat
  BY PinPositions DEF IInv, Local, ListTyped
<1>2. {i \in todo[p] : pc[p] = "clean" /\ ~Interrupting(p, i)} = {}
  OBVIOUS
<1>3. Index(p) = Min(todo[p])
  BY <1>2 DEF Index
<1> QED
  BY <1>1, <1>3, MinOfNats

\* What could not be had still cannot.
LEMMA RefusedStill ==
  ASSUME IInv, NEW p \in Proc, pc[p] \in {"pin"} \cup InPin, todo[p] # {},
         setup' = setup, pins'[p] = pins[p],
         exported \subseteq exported',
         GoesOn(p) \/ DoneWith(p),
         \A i \in DOMAIN pins[p] \ {Index(p)} : held'[p][i] = held[p][i],
         \A n \in DOMAIN table[p] : KindAt(p, n) # "gpio" => table'[p][n] = table[p][n],
         NEW i \in DOMAIN pins[p], Refused(p, i)
  PROVE  Refused(p, i)'
<1>1. CASE ~Usable(p, i)
  BY <1>1 DEF Usable, Refused
<1>2. ASSUME NEW j \in DOMAIN pins[p], j < i, Requesting(p, j), OfAt(p, held[p][j]["value"]) \in LinesOf(pins[p][i])
      PROVE  Refused(p, i)'
  <2>1. Index(p) \in todo[p] /\ j # Index(p) /\ j \in gp_list[p] \ todo[p] /\ pins[p][j].facility # "sysfs"
    BY <1>2, IndexIn DEF Requesting
  <2>2. HeldOwn(p) /\ ValueHeld(p)
    BY DEF IInv, Local
  <2>3. held[p][j]["value"] > 0 /\ Fits(table[p], pins[p][j], held[p][j]["value"], "value")
    BY <2>1, <2>2 DEF HeldOwn, ValueHeld, Kept, AtPins, InPin, HeldKeys
  <2>4. table'[p][held'[p][j]["value"]] = table[p][held[p][j]["value"]]
    BY <2>1, <2>3 DEF Fits, KindAt
  <2>5. Requesting(p, j)'
    BY <1>2, <2>1 DEF Requesting, GoesOn, DoneWith
  <2> QED
    BY <1>2, <2>4, <2>5 DEF Refused, OfAt
<1> QED
  BY <1>1, <1>2 DEF Refused

\* Before the way out every pin of the list is counted on.
LEMMA KeptAll ==
  ASSUME NEW p \in Proc
  PROVE  /\ pc[p] \in AtPins /\ pc[p] # "clean" => Kept(p) = gp_list[p]
         /\ pc'[p] \in AtPins /\ pc'[p] # "clean" => Kept(p)' = gp_list'[p]
BY DEF Kept

LEMMA PinAlone ==
  ASSUME IInv, IInv', NEW p \in Proc, pc[p] \in {"pin"} \cup InPin, todo[p] # {}, Gets(p), Leaves(p),
         setup' = setup, pins'[p] = pins[p], chips'[p] = chips[p], sys'[p] = sys[p],
         exported \subseteq exported',
         GoesOn(p) \/ DoneWith(p),
         gp_list'[p] # gp_list[p] => pc[p] \in {"pin", "open"} /\ Refused(p, Index(p)),
         Alive(table'[p]),
         \A i \in DOMAIN pins[p] \ {Index(p)} : held'[p][i] = held[p][i],
         \A k \in HeldKeys : held[p][Index(p)][k] > 0 => held'[p][Index(p)][k] = held[p][Index(p)][k],
         \A n \in DOMAIN table[p] :
           /\ n \in DOMAIN table'[p] => table'[p][n] = table[p][n]
           /\ KindAt(p, n) # "gpio" => n \in DOMAIN table'[p]
           /\ KindAt(p, n) = "lineevent" => OfAt(p, n) \notin exported',
         \A n \in DOMAIN table'[p] \ DOMAIN table[p] :
           /\ table'[p][n].kind = "lineevent" =>
                /\ table'[p][n].of \notin exported' \cup Taken
                /\ DoneWith(p) /\ gp_list'[p] = gp_list[p]
                /\ Pin(p).facility # "sysfs" /\ held'[p][Index(p)]["value"] = n
           /\ \/ table'[p][n].kind \in MainFiles
              \/ /\ gp_list'[p] = gp_list[p]
                 /\ \E k \in HeldKeys : held'[p][Index(p)][k] = n /\ (Pin(p).facility = "sysfs" \/ k = "value")
              \/ pc'[p] \in InPin \ {"open"} /\ n = gpio_dir'[p],
         pc[p] \in InPin \ {"open"} =>
           \/ pc'[p] \in InPin \ {"open"} /\ gpio_dir'[p] = gpio_dir[p]
           \/ gpio_dir[p] \notin DOMAIN table'[p],
         Exported(p)', HeldInOrder(p)'
  PROVE  Gets(p)' /\ Leaves(p)'
<1>1. /\ ListTyped(p) /\ Index(p) \in todo[p] /\ Index(p) \in DOMAIN pins[p]
      /\ todo[p] \subseteq gp_list[p] /\ gp_list[p] \subseteq DOMAIN pins[p]
  BY IndexIn DEF IInv, Local, ListTyped, AtPins
<1>2. pc'[p] \in {"pin"} \cup InPin /\ gp_list'[p] \subseteq gp_list[p] /\ gp_list[p] \ gp_list'[p] \subseteq {Index(p)}
      /\ todo'[p] \subseteq todo[p] /\ todo[p] \ todo'[p] \subseteq {Index(p)}
  BY DEF GoesOn, DoneWith
<1>3. AllLive(p)' /\ AllChips(p)' /\ LeftUnexported(p)'
  BY <1>2 DEF AllLive, Alive, AllChips, LeftUnexported, Leaving, InPin, AtPins, Gets
<1>4. PinOrder(p)'
  <2>1. \A i \in todo[p] : Index(p) <= i
    BY IndexLeast DEF InPin
  <2>2. DOMAIN pins[p] \subseteq Nat
    BY PinPositions
  <2> SUFFICES ASSUME NEW j \in DOMAIN pins[p] \ todo'[p], NEW i \in todo'[p] PROVE j < i
    BY DEF PinOrder
  <2>3. CASE j \notin todo[p]
    BY <1>2, <2>3 DEF Gets, PinOrder
  <2>4. CASE j \in todo[p]
    <3>1. j = Index(p) /\ i # j /\ i \in todo[p]
      BY <1>2, <2>4
    <3>2. j \in Nat /\ i \in Nat
      BY <1>1, <2>2, <3>1
    <3> QED
      BY <2>1, <3>1, <3>2
  <2> QED
    BY <2>3, <2>4
<1>5. RequestHeld(p)'
  <2> SUFFICES ASSUME NEW n \in DOMAIN table'[p], table'[p][n].kind = "lineevent"
               PROVE  /\ table'[p][n].of \notin exported' \cup Taken
                      /\ \E j \in DOMAIN pins[p] : Requesting(p, j)' /\ held'[p][j]["value"] = n
    BY DEF RequestHeld, KindAt, OfAt
  <2>1. CASE n \in DOMAIN table[p]
    <3>1. table[p][n] = table'[p][n] /\ OfAt(p, n) \notin exported'
      BY <2>1 DEF KindAt
    <3>2. OfAt(p, n) \notin Taken /\ \E j \in DOMAIN pins[p] : Requesting(p, j) /\ held[p][j]["value"] = n
      BY <2>1, <3>1 DEF Gets, RequestHeld, KindAt, Watching, AtPins, InPin
    <3>3. PICK j \in DOMAIN pins[p] : Requesting(p, j) /\ held[p][j]["value"] = n
      BY <3>2
    <3>4. j # Index(p) /\ Requesting(p, j)'
      BY <1>1, <1>2, <3>3 DEF Requesting
    <3> QED
      BY <3>1, <3>2, <3>3, <3>4 DEF OfAt
  <2>2. CASE n \notin DOMAIN table[p]
    <3>2. Index(p) \in gp_list'[p] \ todo'[p] /\ pins'[p][Index(p)].facility # "sysfs"
      BY <1>1, <2>2 DEF DoneWith, Pin
    <3> QED
      BY <1>1, <2>2, <3>2 DEF Requesting
  <2> QED
    BY <2>1, <2>2
<1>6. DroppedRightly(p)'
  <2> SUFFICES ASSUME NEW i \in DOMAIN pins[p] \ gp_list'[p] PROVE Refused(p, i)'
    BY DEF DroppedRightly
  <2>1. Refused(p, i)
    BY <1>2 DEF Gets, DroppedRightly, Watching, AtPins, InPin
  <2>2. \A n \in DOMAIN table[p] : KindAt(p, n) # "gpio" => table'[p][n] = table[p][n]
    OBVIOUS
  <2> QED
    BY <2>1, <2>2, RefusedStill
<1>7. Accounted(p)'
  <2> SUFFICES ASSUME NEW n \in DOMAIN table'[p]
               PROVE  \/ table'[p][n].kind \in MainFiles
                      \/ \E k \in SysKeys : sys[p][k] = n
                      \/ setup.uapi /\ \E i \in DOMAIN chips[p] : chips[p][i].fd = n
                      \/ PinFileAt(p, n)'
                      \/ pc'[p] \in InPin \ {"open"} /\ n = gpio_dir'[p]
    BY <1>2 DEF Accounted, KindAt, AtPins, InPin
  <2>1. Kept(p) = gp_list[p] /\ Kept(p)' = gp_list'[p]
    <3>1. pc[p] # "clean" /\ pc[p] \in AtPins /\ pc'[p] # "clean" /\ pc'[p] \in AtPins
      BY <1>2 DEF AtPins, InPin
    <3> QED
      BY <3>1, KeptAll
  <2>2. gp_list'[p] # gp_list[p] => \A k \in HeldKeys : ~(held[p][Index(p)][k] > 0)
    BY <1>1 DEF Leaves, HeldInOrder, FilesDone
  <2>3. CASE n \notin DOMAIN table[p]
    BY <1>1, <2>1, <2>3 DEF PinFileAt, Pin
  <2>4. CASE n = 0
    BY <1>2, <2>4 DEF IInv, Local, LowNumbers, Up, KindAt, MainFiles, InPin
  <2>5. CASE n # 0 /\ n \in DOMAIN table[p]
    <3>1. table'[p][n] = table[p][n] /\ n \in Nat
      BY <2>5 DEF IInv, Local, TableTyped, IsTable
    <3>2. CASE PinFileAt(p, n)
      <4>1. PICK i \in Kept(p), k \in HeldKeys :
              held[p][i][k] = n /\ (pins[p][i].facility = "sysfs" \/ k = "value")
        BY <3>2 DEF PinFileAt
      <4>2. held[p][i][k] > 0 /\ i \in DOMAIN pins[p]
        BY <1>1, <2>1, <2>5, <3>1, <4>1
      <4>3. held'[p][i][k] = n
        BY <4>1, <4>2
      <4>4. i \in Kept(p)'
        BY <1>2, <2>1, <2>2, <4>1, <4>2
      <4> QED
        BY <4>1, <4>3, <4>4 DEF PinFileAt
    <3>3. CASE ~PinFileAt(p, n)
      BY <2>5, <3>1, <3>3 DEF Leaves, Accounted, KindAt, InPin
    <3> QED
      BY <3>2, <3>3
  <2> QED
    BY <2>3, <2>4, <2>5
<1> QED
  BY <1>3, <1>4, <1>5, <1>6, <1>7 DEF Gets, Leaves

\* What every step of a pin finds, and what it leaves alone.
LEMMA AtPinAlone ==
  ASSUME IInv, NEW p \in Proc, pc[p] \in {"pin"} \cup InPin, Gets(p), Leaves(p)
  PROVE  /\ IsTable(table[p]) /\ Alive(table[p]) /\ TableTyped(p)
         /\ DOMAIN pc = Proc /\ DOMAIN table = Proc /\ DOMAIN todo = Proc /\ DOMAIN gp_list = Proc
         /\ DOMAIN held = Proc /\ DOMAIN gpio_dir = Proc
         /\ HeldTyped(p)
         /\ Grows(table[p], table[p]) /\ Grows(table[p], Syslog(table[p]))
         /\ \A n \in DOMAIN Syslog(table[p]) \ DOMAIN table[p] : Syslog(table[p])[n] = File("log", 0)
         /\ \A n \in DOMAIN table[p] : KindAt(p, n) = "lineevent" => OfAt(p, n) \notin exported
<1>1. IsTable(table[p])
  BY DEF IInv, Local, TableTyped
<1>2. /\ Grows(table[p], table[p]) /\ Grows(table[p], Syslog(table[p]))
      /\ \A n \in DOMAIN Syslog(table[p]) \ DOMAIN table[p] : Syslog(table[p])[n] = File("log", 0)
  BY <1>1, SyslogGrows DEF Grows
<1>3. pc[p] \in Watching
  BY DEF Watching, AtPins, InPin
<1> QED
  BY <1>1, <1>2, <1>3 DEF IInv, Shaped, Local, Gets, AllLive, Alive, RequestHeld

\* A line somebody has requested is a pin's of the only gpiod there is.
LEMMA RequestedHere ==
  ASSUME IInv, Apart, NEW p \in Proc, Quiet(p), pc[p] \in {"pin"} \cup InPin, todo[p] # {}, Gets(p),
         NEW l \in Requested
  PROVE  \E j \in DOMAIN pins[p] : j < Index(p) /\ Requesting(p, j) /\ OfAt(p, held[p][j]["value"]) = l
<1>1. PICK q \in Proc : File("lineevent", l) \in Files(q)
  BY DEF Requested
<1>2. PICK n \in DOMAIN table[q] : table[q][n] = File("lineevent", l)
  BY <1>1 DEF Files, Range
<1>3. q = p
  BY <1>2 DEF Apart, Quiet
<1>4. KindAt(p, n) = "lineevent" /\ OfAt(p, n) = l
  BY <1>2, <1>3 DEF KindAt, OfAt, File, Requested
<1>5. PICK j \in DOMAIN pins[p] : Requesting(p, j) /\ held[p][j]["value"] = n
  BY <1>2, <1>3, <1>4 DEF Gets, RequestHeld, Watching, AtPins, InPin
<1>6. j < Index(p)
  BY <1>5, IndexIn DEF Gets, PinOrder, Requesting
<1> QED
  BY <1>4, <1>5, <1>6

LEMMA ExportAlone ==
  ASSUME IInv, IInv', Apart, NEW p \in Proc, Quiet(p), Gets(p), Leaves(p), Export(p), faults' = faults
  PROVE  Gets(p)' /\ Leaves(p)'
<1> DEFINE t == table[p]
<1>1. pc[p] = "pin" /\ todo[p] # {} /\ Pin(p).facility = "sysfs"
  BY DEF Export, AtPin
<1>2. /\ IsTable(t) /\ Alive(t) /\ TableTyped(p)
      /\ DOMAIN pc = Proc /\ DOMAIN table = Proc /\ DOMAIN todo = Proc /\ DOMAIN gp_list = Proc
      /\ DOMAIN held = Proc /\ DOMAIN gpio_dir = Proc
      /\ HeldTyped(p)
      /\ Grows(t, t) /\ Grows(t, Syslog(t))
      /\ \A n \in DOMAIN Syslog(t) \ DOMAIN t : Syslog(t)[n] = File("log", 0)
      /\ \A n \in DOMAIN t : KindAt(p, n) = "lineevent" => OfAt(p, n) \notin exported
  BY <1>1, AtPinAlone
<1>3. ~Fault(p)
  BY DEF Fault, IInv, Shaped
<1>4. /\ setup' = setup /\ pins' = pins /\ chips' = chips /\ sys' = sys /\ held' = held /\ gpio_dir' = gpio_dir
  BY DEF Export, memory
<1>5. \A i \in todo[p], k \in HeldKeys : ~(held[p][i][k] > 0)
  BY <1>1 DEF Leaves, HeldInOrder, FilesDone
<1>6. CASE /\ System(p) \in Line
           /\ exported' = exported \cup ({System(p)} \ Busy)
           /\ Goto(p, "open")
           /\ UNCHANGED <<todo, gp_list, table>>
  <2>1. /\ pc'[p] = "open" /\ todo' = todo /\ gp_list' = gp_list /\ table' = table /\ GoesOn(p)
    BY <1>1, <1>2, <1>6 DEF Goto, GoesOn, InPin
  <2>2. Index(p)' = Index(p) /\ System(p)' = System(p)
    BY <1>1, <1>4, <2>1, SameIndex
  <2>3. ASSUME NEW n \in DOMAIN t, KindAt(p, n) = "lineevent" PROVE OfAt(p, n) \notin exported'
    <3> SUFFICES ASSUME OfAt(p, n) = System(p) PROVE System(p) \in Busy
      BY <1>2, <1>6, <2>3
    <3>1. t[n] = File("lineevent", System(p))
      BY <1>2, <2>3 DEF Alive, TableTyped, KindAt, OfAt, File
    <3> QED
      BY <1>6, <3>1 DEF Busy, Requested, Files, Range
  <2>4. Exported(p)'
    <3>1. Requested' = Requested
      BY <2>1 DEF Requested, Files
    <3> QED
      BY <1>6, <2>2, <3>1 DEF Exported, Busy
  <2>5. HeldInOrder(p)'
    BY <1>4, <1>5, <2>1 DEF HeldInOrder
  <2>6. exported \subseteq exported' /\ Alive(table'[p])
    BY <1>2, <1>6, <2>1
  <2> QED
    BY <1>1, <1>4, <2>1, <2>3, <2>4, <2>5, <2>6, PinAlone DEF InPin
<1>7. CASE /\ System(p) \notin Line
           /\ Drop(p, Syslog(t))
           /\ UNCHANGED exported
  <2>1. /\ pc'[p] = "pin" /\ todo'[p] = todo[p] \ {Index(p)} /\ gp_list'[p] = gp_list[p] \ {Index(p)}
        /\ table'[p] = Syslog(t) /\ DoneWith(p)
    BY <1>2, <1>7 DEF Drop, NextPin, Goto, Open, DoneWith
  <2>2. Refused(p, Index(p))
    BY <1>1, <1>7 DEF Refused, Usable, Pin, System
  <2>3. Alive(table'[p])
    BY <1>2, <2>1, GrownAlive
  <2>4. Exported(p)' /\ HeldInOrder(p)'
    BY <1>4, <1>5, <2>1 DEF Exported, HeldInOrder
  <2>5. \A n \in DOMAIN t : n \in DOMAIN table'[p] /\ table'[p][n] = t[n]
    BY <1>2, <2>1 DEF Grows
  <2>6. \A n \in DOMAIN table'[p] \ DOMAIN t : table'[p][n].kind = "log"
    BY <1>2, <2>1 DEF File
  <2> HIDE DEF t
  <2> QED
    BY <1>1, <1>2, <1>4, <1>7, <2>1, <2>2, <2>3, <2>4, <2>5, <2>6, PinAlone DEF MainFiles, t, InPin
<1> QED
  BY <1>3, <1>6, <1>7 DEF Export

LEMMA OpenDirAlone ==
  ASSUME IInv, IInv', Apart, NEW p \in Proc, Quiet(p), Gets(p), Leaves(p), OpenDir(p), faults' = faults
  PROVE  Gets(p)' /\ Leaves(p)'
<1> DEFINE t == table[p]
           l == System(p)
           u == Opened(t, File("gpio", l))
<1>1. pc[p] = "open" /\ todo[p] # {} /\ Pin(p).facility = "sysfs"
  BY DEF OpenDir, IInv, Local, ListTyped, InPin
<1>2. /\ IsTable(t) /\ Alive(t) /\ TableTyped(p)
      /\ DOMAIN pc = Proc /\ DOMAIN table = Proc /\ DOMAIN todo = Proc /\ DOMAIN gp_list = Proc
      /\ DOMAIN held = Proc /\ DOMAIN gpio_dir = Proc
      /\ HeldTyped(p)
      /\ Grows(t, t) /\ Grows(t, Syslog(t))
      /\ \A n \in DOMAIN Syslog(t) \ DOMAIN t : Syslog(t)[n] = File("log", 0)
      /\ \A n \in DOMAIN t : KindAt(p, n) = "lineevent" => OfAt(p, n) \notin exported
  BY <1>1, AtPinAlone DEF InPin
<1>3. ~Fault(p)
  BY DEF Fault, IInv, Shaped
<1>4. /\ setup' = setup /\ exported' = exported /\ pins' = pins /\ chips' = chips /\ sys' = sys /\ held' = held
  BY DEF OpenDir, kernelVars
<1>5. \A i \in todo[p], k \in HeldKeys : ~(held[p][i][k] > 0)
  BY <1>1 DEF Leaves, HeldInOrder, FilesDone, InPin
<1>6. CASE /\ Directory(p)
           /\ gpio_dir' = [gpio_dir EXCEPT ![p] = Lowest(t)]
           /\ Open(p, u)
           /\ Goto(p, "direction")
           /\ UNCHANGED <<todo, gp_list>>
  <2>1. /\ pc'[p] = "direction" /\ todo' = todo /\ gp_list' = gp_list /\ table'[p] = u
        /\ gpio_dir'[p] = Lowest(t) /\ GoesOn(p)
    BY <1>1, <1>2, <1>6 DEF Goto, Open, GoesOn, InPin
  <2>2. l \in Nat /\ "gpio" \in Kinds
    BY <1>6, LineIsNat DEF Directory, IInv, Shaped, Kinds, LineFiles
  <2>3. /\ Grows(t, u)
        /\ DOMAIN u = DOMAIN t \cup {Lowest(t)}
        /\ u[Lowest(t)] = File("gpio", l)
        /\ Lowest(t) \in Nat \ DOMAIN t
    <3> HIDE DEF t, l
    <3> QED
      BY <1>2, <2>2, OpenedGrows
  <2>4. Exported(p)' /\ HeldInOrder(p)'
    BY <1>4, <1>5, <2>1 DEF Exported, HeldInOrder
  <2> HIDE DEF u, t, l
  <2>5. Alive(table'[p])
    BY <1>2, <2>1, <2>3, GrownAlive
  <2>6. \A n \in DOMAIN t : n \in DOMAIN table'[p] /\ table'[p][n] = t[n]
    BY <2>1, <2>3 DEF Grows
  <2>7. \A n \in DOMAIN table'[p] \ DOMAIN t : table'[p][n].kind = "gpio" /\ n = gpio_dir'[p]
    BY <2>1, <2>3 DEF File
  <2> QED
    BY <1>1, <1>2, <1>4, <2>1, <2>4, <2>5, <2>6, <2>7, PinAlone DEF t, InPin
<1>7. CASE ~Directory(p) /\ Drop(p, Syslog(t))
  <2>1. /\ pc'[p] = "pin" /\ todo'[p] = todo[p] \ {Index(p)} /\ gp_list'[p] = gp_list[p] \ {Index(p)}
        /\ table'[p] = Syslog(t) /\ DoneWith(p)
    BY <1>2, <1>7 DEF Drop, NextPin, Goto, Open, DoneWith
  <2>2. Refused(p, Index(p))
    <3>1. CASE System(p) \in Taken \/ ~(Pin(p).name # Absent <=> System(p) \in Named)
      BY <1>1, <3>1 DEF Refused, Usable, Pin, System
    <3>2. CASE System(p) \notin Taken /\ System(p) \notin exported
      <4>1. System(p) \in Requested
        BY <1>1, <3>2 DEF Gets, Exported
      <4>2. System(p) \in LinesOf(pins[p][Index(p)])
        BY <1>1 DEF LinesOf, System, Pin
      <4> QED
        BY <1>1, <4>1, <4>2, RequestedHere DEF Refused, InPin
    <3> QED
      BY <1>7, <3>1, <3>2 DEF Directory
  <2>3. Alive(table'[p])
    BY <1>2, <2>1, GrownAlive
  <2>4. Exported(p)' /\ HeldInOrder(p)'
    BY <1>4, <1>5, <2>1 DEF Exported, HeldInOrder
  <2>5. \A n \in DOMAIN t : n \in DOMAIN table'[p] /\ table'[p][n] = t[n]
    BY <1>2, <2>1 DEF Grows
  <2>6. \A n \in DOMAIN table'[p] \ DOMAIN t : table'[p][n].kind = "log"
    BY <1>2, <2>1 DEF File
  <2> HIDE DEF t
  <2> QED
    BY <1>1, <1>2, <1>4, <1>7, <2>1, <2>2, <2>3, <2>4, <2>5, <2>6, PinAlone DEF MainFiles, t, InPin
<1> QED
  BY <1>3, <1>6, <1>7 DEF OpenDir

LEMMA DirIsThere ==
  ASSUME IInv, NEW p \in Proc, pc[p] \in InPin \ {"open"}, Gets(p)
  PROVE  DirThere(p) /\ System(p) \in Nat
<1>1. LiveIsExported(p) /\ Has(p, gpio_dir[p], "gpio") /\ OfAt(p, gpio_dir[p]) = System(p)
  BY DEF IInv, Local, DirOwn
<1>2. DirThere(p)
  BY <1>1 DEF Gets, AllLive, Watching, AtPins, InPin, Has, DirThere
<1>3. System(p) \in exported
  BY <1>2, LineThere
<1> QED
  BY <1>2, <1>3, LineIsNat DEF IInv, Shaped

\* A file of the line that is opened and held.
LEMMA FileAlone ==
  ASSUME IInv, IInv', NEW p \in Proc, NEW kind \in HeldKeys, pc[p] = kind, Gets(p), Leaves(p),
         setup' = setup, exported' = exported, pins' = pins, chips' = chips, sys' = sys, gpio_dir' = gpio_dir,
         held' = [held EXCEPT ![p][Index(p)][kind] = Lowest(table[p])],
         \/ table'[p] \in {WithFile(p, kind), Syslog(WithFile(p, kind))} /\ GoesOn(p) /\ pc'[p] # "open"
         \/ table'[p] = Shut(WithFile(p, kind), {gpio_dir[p]}) /\ DoneWith(p) /\ gp_list'[p] = gp_list[p],
         HeldInOrder(p)'
  PROVE  Gets(p)' /\ Leaves(p)'
<1> DEFINE t == table[p]
           l == System(p)
           w == WithFile(p, kind)
           low == Lowest(t)
<1>1. pc[p] \in InPin \ {"open"} /\ todo[p] # {} /\ Pin(p).facility = "sysfs"
  BY DEF IInv, Local, ListTyped, InPin, HeldKeys
<1>2. /\ IsTable(t) /\ Alive(t) /\ TableTyped(p) /\ HeldTyped(p) /\ DOMAIN held = Proc
      /\ \A n \in DOMAIN t : KindAt(p, n) = "lineevent" => OfAt(p, n) \notin exported
  BY <1>1, AtPinAlone
<1>3. l \in Nat /\ kind \in Kinds
  BY <1>1, DirIsThere DEF HeldKeys, Kinds, LineFiles
<1>4. /\ Grows(t, w) /\ DOMAIN w = DOMAIN t \cup {low} /\ w[low] = File(kind, l) /\ low \in Nat \ DOMAIN t
  <2> DEFINE v == Opened(t, File(kind, l))
  <2>1. w = v
    BY DEF WithFile
  <2> HIDE DEF t, l, w
  <2>2. /\ Grows(t, v) /\ DOMAIN v = DOMAIN t \cup {Lowest(t)}
        /\ v[Lowest(t)] = File(kind, l) /\ Lowest(t) \in Nat \ DOMAIN t
    <3>1. Beside(t, File(kind, l), v)
      BY <1>2, OneOpened
    <3>2. Grows(t, v)
      BY <1>2, <1>3, OpenedGrows
    <3>3. Lowest(t) \in Nat \ DOMAIN t
      BY <1>2, LowestIsFree
    <3> QED
      BY <3>1, <3>2, <3>3 DEF Beside
  <2> HIDE DEF v
  <2> QED
    BY <2>1, <2>2
<1>5. Index(p) \in DOMAIN pins[p]
  BY <1>1, IndexIn
<1>6. /\ \A i \in DOMAIN pins[p] \ {Index(p)} : held'[p][i] = held[p][i]
      /\ held'[p][Index(p)][kind] = low
      /\ \A k \in HeldKeys \ {kind} : held'[p][Index(p)][k] = held[p][Index(p)][k]
  BY <1>2, <1>5 DEF HeldTyped
<1>7. ~(held[p][Index(p)][kind] > 0)
  <2>1. Index(p) \in todo[p]
    BY <1>1, IndexIn
  <2>2. pc[p] \notin DOMAIN FilesDone \/ kind \notin FilesDone[pc[p]]
    BY DEF FilesDone, HeldKeys
  <2> QED
    BY <1>1, <2>1, <2>2 DEF Leaves, HeldInOrder, InPin
<1>8. Has(p, gpio_dir[p], "gpio")
  BY <1>1 DEF IInv, Local, DirOwn
<1> HIDE DEF t, l, w, low
<1>9. CASE table'[p] \in {w, Syslog(w)} /\ GoesOn(p) /\ pc'[p] # "open"
  <2>1. IsTable(w) /\ Grows(w, w) /\ Grows(w, Syslog(w)) /\ \A n \in DOMAIN Syslog(w) \ DOMAIN w : Syslog(w)[n] = File("log", 0)
    BY <1>4, SyslogGrows DEF Grows
  <2>2. Grows(w, table'[p]) /\ \A n \in DOMAIN table'[p] \ DOMAIN w : table'[p][n].kind = "log"
    BY <1>9, <2>1 DEF File
  <2>3. Grows(t, table'[p])
    BY <1>4, <2>2, GrowsTwice
  <2>4. Alive(table'[p])
    BY <1>2, <2>3, GrownAlive
  <2>5. \A n \in DOMAIN t : n \in DOMAIN table'[p] /\ table'[p][n] = t[n]
    BY <2>3 DEF Grows
  <2>6. ASSUME NEW n \in DOMAIN table'[p] \ DOMAIN t
        PROVE  table'[p][n].kind = "log" \/ (n = low /\ table'[p][n].kind = kind)
    BY <1>4, <2>2, <2>6 DEF Grows, File
  <2>7. Exported(p)'
    BY <1>9 DEF Exported
  <2>8. ASSUME NEW n \in DOMAIN table'[p] \ DOMAIN t
        PROVE  /\ table'[p][n].kind # "lineevent"
               /\ \/ table'[p][n].kind \in MainFiles
                  \/ \E k \in HeldKeys : held'[p][Index(p)][k] = n /\ Pin(p).facility = "sysfs"
    BY <1>1, <1>6, <2>6, <2>8 DEF HeldKeys, MainFiles
  <2>9. /\ gp_list'[p] = gp_list[p] /\ pc'[p] \in InPin \ {"open"}
    BY <1>9 DEF GoesOn
  <2> QED
    BY <1>1, <1>2, <1>6, <1>7, <1>9, <2>4, <2>5, <2>7, <2>8, <2>9, PinAlone DEF t
<1>10. CASE table'[p] = Shut(w, {gpio_dir[p]}) /\ DoneWith(p) /\ gp_list'[p] = gp_list[p]
  <2> DEFINE X == {gpio_dir[p]}
             u == Shut(w, X)
  <2>1. IsTable(w)
    BY <1>4 DEF Grows
  <2> HIDE DEF X
  <2>2. DOMAIN u = DOMAIN w \ X /\ \A n \in DOMAIN w \ X : u[n] = w[n]
    BY <2>1, SomeShut
  <2> HIDE DEF u
  <2>3. table'[p] = u
    BY <1>10 DEF u, X
  <2>4. Alive(w)
    BY <1>2, <1>4, GrownAlive
  <2>5. Alive(table'[p])
    BY <2>2, <2>3, <2>4 DEF Alive
  <2>6. \A n \in DOMAIN t : w[n] = t[n] /\ n \in DOMAIN w
    BY <1>4 DEF Grows
  <2>7. ASSUME NEW n \in DOMAIN t
        PROVE  /\ n \in DOMAIN table'[p] => table'[p][n] = t[n]
               /\ KindAt(p, n) # "gpio" => n \in DOMAIN table'[p]
    BY <1>8, <2>2, <2>3, <2>6, <2>7 DEF Has, X
  <2>8. ASSUME NEW n \in DOMAIN table'[p] \ DOMAIN t
        PROVE  n = low /\ table'[p][n].kind = kind
    BY <1>4, <2>2, <2>3, <2>8 DEF File
  <2>9. ASSUME NEW n \in DOMAIN table'[p] \ DOMAIN t
        PROVE  /\ table'[p][n].kind # "lineevent"
               /\ \E k \in HeldKeys : held'[p][Index(p)][k] = n /\ Pin(p).facility = "sysfs"
    BY <1>1, <1>6, <2>8, <2>9 DEF HeldKeys
  <2>10. gpio_dir[p] \notin DOMAIN table'[p]
    BY <2>2, <2>3 DEF X
  <2>11. Exported(p)'
    BY <1>10 DEF Exported, DoneWith
  <2> QED
    BY <1>1, <1>2, <1>6, <1>7, <1>10, <2>5, <2>7, <2>9, <2>10, <2>11, PinAlone DEF t
<1> QED
  BY <1>9, <1>10 DEF w

\* The order in which a pin's files are held.
LEMMA NextFile ==
  ASSUME IInv, NEW p \in Proc, NEW kind \in HeldKeys, pc[p] = kind, Leaves(p), pc[p] \in InPin, pins' = pins,
         NEW v, held' = [held EXCEPT ![p][Index(p)][kind] = v],
         \/ /\ GoesOn(p) /\ pc'[p] \in DOMAIN FilesDone
            /\ \A k \in HeldKeys : pc[p] \in DOMAIN FilesDone /\ k \in FilesDone[pc[p]] => k \in FilesDone[pc'[p]]
            /\ kind \in FilesDone[pc'[p]]
         \/ DoneWith(p)
  PROVE  HeldInOrder(p)'
<1>1. /\ DOMAIN held = Proc /\ HeldTyped(p) /\ todo[p] # {} /\ todo[p] \subseteq DOMAIN pins[p]
      /\ Index(p) \in todo[p]
  BY IndexIn DEF IInv, Shaped, Local, ListTyped
<1>2. \A i \in DOMAIN pins[p], k \in HeldKeys : i # Index(p) \/ k # kind => held'[p][i][k] = held[p][i][k]
  BY <1>1 DEF HeldTyped
<1>3. \A i \in todo[p], k \in HeldKeys : held[p][i][k] > 0 =>
        i = Index(p) /\ pc[p] \in DOMAIN FilesDone /\ k \in FilesDone[pc[p]]
  BY DEF Leaves, HeldInOrder
<1>4. CASE DoneWith(p)
  BY <1>1, <1>2, <1>3, <1>4 DEF DoneWith, HeldInOrder
<1>5. CASE /\ GoesOn(p) /\ pc'[p] \in DOMAIN FilesDone
           /\ \A k \in HeldKeys : pc[p] \in DOMAIN FilesDone /\ k \in FilesDone[pc[p]] => k \in FilesDone[pc'[p]]
           /\ kind \in FilesDone[pc'[p]]
  <2>1. todo'[p] = todo[p] /\ pc'[p] # "clean" /\ pc[p] # "clean"
    BY <1>5 DEF GoesOn, InPin
  <2>2. Index(p)' = Index(p)
    BY <2>1, SameIndex
  <2> SUFFICES ASSUME NEW i \in todo[p], NEW k \in HeldKeys, held'[p][i][k] > 0
               PROVE  i = Index(p) /\ k \in FilesDone[pc'[p]]
    BY <1>5, <2>1, <2>2 DEF HeldInOrder
  <2>3. CASE i = Index(p) /\ k = kind
    BY <1>5, <2>3
  <2>4. CASE i # Index(p) \/ k # kind
    BY <1>1, <1>2, <1>3, <1>5, <2>4
  <2> QED
    BY <2>3, <2>4
<1> QED
  BY <1>4, <1>5

LEMMA FilesAlone ==
  ASSUME IInv, IInv', NEW p \in Proc, Gets(p), Leaves(p), faults' = faults,
         Direction(p) \/ EdgeFile(p) \/ ActiveLow(p) \/ ValueFile(p)
  PROVE  Gets(p)' /\ Leaves(p)'
<1>1. /\ pc[p] \in InPin \ {"open"} /\ pc[p] \in HeldKeys
      /\ setup' = setup /\ exported' = exported /\ pins' = pins /\ chips' = chips /\ sys' = sys /\ gpio_dir' = gpio_dir
  BY DEF Direction, EdgeFile, ActiveLow, ValueFile, InPin, HeldKeys, kernelVars
<1>2. DirThere(p) /\ ~Fault(p)
  BY <1>1, DirIsThere DEF Fault, IInv, Shaped
<1>3. DOMAIN pc = Proc /\ DOMAIN table = Proc /\ DOMAIN todo = Proc /\ Pin(p).facility = "sysfs" /\ todo[p] # {}
  BY <1>1 DEF IInv, Shaped, Local, ListTyped
<1>4. CASE Direction(p)
  <2>1. /\ pc[p] = "direction" /\ Hold(p, "direction", Lowest(table[p]))
        /\ table'[p] = WithFile(p, "direction") /\ pc'[p] = "edge" /\ GoesOn(p)
    BY <1>2, <1>3, <1>4 DEF Direction, Open, Goto, GoesOn, InPin
  <2>2. HeldInOrder(p)'
    BY <1>1, <2>1, NextFile DEF Hold, FilesDone
  <2> QED
    BY <1>1, <2>1, <2>2, FileAlone DEF Hold
<1>5. CASE EdgeFile(p)
  <2>1. /\ pc[p] = "edge" /\ Hold(p, "edge", Lowest(table[p]))
        /\ table'[p] \in {WithFile(p, "edge"), Syslog(WithFile(p, "edge"))}
        /\ pc'[p] \in {"active_low", "value"} /\ GoesOn(p)
    BY <1>2, <1>3, <1>5 DEF EdgeFile, Open, Goto, GoesOn, InPin
  <2>2. HeldInOrder(p)'
    BY <1>1, <2>1, NextFile DEF Hold, FilesDone
  <2> QED
    BY <1>1, <2>1, <2>2, FileAlone DEF Hold
<1>6. CASE ActiveLow(p)
  <2>1. /\ pc[p] = "active_low" /\ Hold(p, "active_low", Lowest(table[p]))
        /\ table'[p] = WithFile(p, "active_low")
        /\ pc'[p] = "value" /\ GoesOn(p)
    BY <1>2, <1>3, <1>6 DEF ActiveLow, Open, Goto, GoesOn, InPin
  <2>2. HeldInOrder(p)'
    BY <1>1, <2>1, NextFile DEF Hold, FilesDone
  <2> QED
    BY <1>1, <2>1, <2>2, FileAlone DEF Hold
<1>7. CASE ValueFile(p)
  <2>1. /\ pc[p] = "value" /\ Hold(p, "value", Lowest(table[p]))
        /\ table'[p] = Shut(WithFile(p, "value"), {gpio_dir[p]}) /\ gp_list' = gp_list
        /\ pc'[p] = "pin" /\ todo'[p] = todo[p] \ {Index(p)}
    BY <1>2, <1>3, <1>7 DEF ValueFile, Open, NextPin, Goto
  <2>2. DoneWith(p)
    <3>1. IsTable(table[p]) /\ 0 \in DOMAIN table[p] /\ DOMAIN held = Proc /\ HeldTyped(p)
      BY <2>1 DEF IInv, Shaped, Local, TableTyped, LowNumbers, Up
    <3>2. Lowest(table[p]) > 0
      BY <3>1, LowestIsFree
    <3>3. held'[p][Index(p)]["value"] = Lowest(table[p])
      BY <1>3, <2>1, <3>1, IndexIn DEF Hold, HeldTyped, HeldKeys
    <3> QED
      BY <2>1, <3>2, <3>3 DEF DoneWith
  <2>3. HeldInOrder(p)'
    BY <1>1, <2>1, <2>2, NextFile DEF Hold
  <2> QED
    BY <1>1, <2>1, <2>2, <2>3, FileAlone DEF Hold
<1> QED
  BY <1>4, <1>5, <1>6, <1>7

LEMMA UapiPinAlone ==
  ASSUME IInv, IInv', Apart, NEW p \in Proc, Quiet(p), Gets(p), Leaves(p), UapiPin(p), faults' = faults
  PROVE  Gets(p)' /\ Leaves(p)'
<1> DEFINE t == table[p]
           low == Lowest(t)
           x == Index(p)
<1>1. pc[p] = "pin" /\ todo[p] # {} /\ Pin(p).facility = "uapi" /\ x \in DOMAIN pins[p]
  BY IndexIn DEF UapiPin, AtPin
<1>2. /\ IsTable(t) /\ Alive(t) /\ TableTyped(p)
      /\ DOMAIN pc = Proc /\ DOMAIN table = Proc /\ DOMAIN todo = Proc /\ DOMAIN gp_list = Proc
      /\ DOMAIN held = Proc /\ DOMAIN gpio_dir = Proc
      /\ HeldTyped(p)
      /\ Grows(t, t) /\ Grows(t, Syslog(t))
      /\ \A n \in DOMAIN Syslog(t) \ DOMAIN t : Syslog(t)[n] = File("log", 0)
      /\ \A n \in DOMAIN t : KindAt(p, n) = "lineevent" => OfAt(p, n) \notin exported
  BY <1>1, AtPinAlone
<1>3. ~Fault(p)
  BY DEF Fault, IInv, Shaped
<1>4. /\ setup' = setup /\ exported' = exported /\ pins' = pins /\ chips' = chips /\ sys' = sys /\ gpio_dir' = gpio_dir
  BY DEF UapiPin, kernelVars
<1>5. \A i \in todo[p], k \in HeldKeys : ~(held[p][i][k] > 0)
  BY <1>1 DEF Leaves, HeldInOrder, FilesDone
<1>6. ASSUME NEW l \in Offsets(p) \ Busy, Hold(p, "value", low), Open(p, Opened(t, File("lineevent", l))),
             NextPin(p), UNCHANGED gp_list
      PROVE  Gets(p)' /\ Leaves(p)'
  <2> DEFINE u == Opened(t, File("lineevent", l))
  <2>1. /\ pc'[p] = "pin" /\ todo'[p] = todo[p] \ {x} /\ gp_list' = gp_list /\ table'[p] = u
    BY <1>2, <1>6 DEF NextPin, Goto, Open
  <2>2. l \in Nat /\ "lineevent" \in Kinds
    BY <1>1, <1>6, OffsetIsLine DEF Kinds
  <2>3. /\ Grows(t, u) /\ DOMAIN u = DOMAIN t \cup {low} /\ u[low] = File("lineevent", l) /\ low \in Nat \ DOMAIN t
    <3> DEFINE v == Opened(t, File("lineevent", l))
    <3> HIDE DEF t
    <3>3. IsTable(t)
      BY <1>2
    <3>1. /\ Grows(t, v) /\ DOMAIN v = DOMAIN t \cup {Lowest(t)}
          /\ v[Lowest(t)] = File("lineevent", l) /\ Lowest(t) \in Nat \ DOMAIN t
      BY <2>2, <3>3, OpenedGrows
    <3> HIDE DEF v
    <3>2. u = v
      BY DEF v
    <3> HIDE DEF u
    <3> QED
      BY <3>1, <3>2
  <2> HIDE DEF u
  <2>4. low > 0
    <3>1. 0 \in DOMAIN t
      BY <1>1 DEF IInv, Local, LowNumbers, Up
    <3> HIDE DEF t, low
    <3> QED
      BY <2>3, <3>1
  <2> HIDE DEF low
  <2>5. /\ held' = [held EXCEPT ![p][x]["value"] = low]
        /\ \A i \in DOMAIN pins[p] \ {x} : held'[p][i] = held[p][i]
        /\ held'[p][x]["value"] = low
    BY <1>1, <1>2, <1>6 DEF Hold, HeldTyped, HeldKeys
  <2>6. DoneWith(p)
    BY <2>1, <2>4, <2>5 DEF DoneWith
  <2>7. Exported(p)' /\ HeldInOrder(p)'
    <3>1. todo[p] \subseteq DOMAIN pins[p]
      BY DEF IInv, Local, ListTyped
    <3> QED
      BY <1>4, <1>5, <2>1, <2>5, <3>1 DEF Exported, HeldInOrder
  <2>8. Alive(table'[p])
    BY <1>2, <2>1, <2>3, GrownAlive
  <2>9. \A n \in DOMAIN t : n \in DOMAIN table'[p] /\ table'[p][n] = t[n]
    BY <2>1, <2>3 DEF Grows
  <2>10. ASSUME NEW n \in DOMAIN table'[p] \ DOMAIN t
         PROVE  n = low /\ table'[p][n].of = l
    BY <2>1, <2>3, <2>10 DEF File
  <2>11. l \notin exported \cup Taken
    BY <1>6 DEF Busy
  <2>12. \A k \in HeldKeys : ~(held[p][x][k] > 0)
    BY <1>1, <1>5, IndexIn
  <2>13. ASSUME NEW n \in DOMAIN table'[p] \ DOMAIN t
         PROVE  /\ table'[p][n].of \notin exported' \cup Taken
                /\ \E k \in HeldKeys : held'[p][x][k] = n /\ k = "value"
                /\ held'[p][x]["value"] = n
    BY <1>4, <2>5, <2>10, <2>11, <2>13 DEF HeldKeys
  <2> HIDE DEF t
  <2> QED
    BY <1>1, <1>2, <1>4, <2>1, <2>5, <2>6, <2>7, <2>8, <2>9, <2>12, <2>13, PinAlone DEF t, InPin
<1>7. CASE /\ Offsets(p) \ Busy = {}
           /\ Drop(p, IF Pin(p).gpiochip # Absent /\ Found(p) = {} THEN Syslog(t) ELSE t)
           /\ UNCHANGED held
  <2>1. /\ pc'[p] = "pin" /\ todo'[p] = todo[p] \ {Index(p)} /\ gp_list'[p] = gp_list[p] \ {Index(p)}
        /\ table'[p] \in {t, Syslog(t)} /\ DoneWith(p)
    BY <1>2, <1>7 DEF Drop, NextPin, Goto, Open, DoneWith
  <2>2. Refused(p, x)
    <3> SUFFICES ASSUME Usable(p, x)
                 PROVE  \E j \in DOMAIN pins[p] :
                          j < x /\ Requesting(p, j) /\ OfAt(p, held[p][j]["value"]) \in LinesOf(pins[p][x])
      BY DEF Refused
    <3>1. pins[p][x] = Pin(p)
      BY DEF Pin
    <3>2. PICK c \in DOMAIN Chips :
            /\ Chips[c].name = Pin(p).gpiochip
            /\ Pin(p).local \in 0..(Chips[c].ngpio - 1)
            /\ Chips[c].base + Pin(p).local \in Line \ (Taken \cup exported)
      BY <1>1, <3>1 DEF Usable
    <3>3. setup.uapi
      BY <1>1, <3>1, UapiIsThere
    <3>4. DOMAIN chips[p] = DOMAIN Chips /\ ChipsTyped(p)
      BY <1>1, <3>3 DEF Gets, AllChips, AtPins, IInv, Local
    <3>5. chips[p][c].name = Chips[c].name /\ chips[p][c].base = Chips[c].base /\ chips[p][c].ngpio = Chips[c].ngpio
      BY <3>2, <3>3, <3>4 DEF ChipsTyped
    <3>6. Chips[c].base + Pin(p).local \in Offsets(p)
      BY <3>2, <3>4, <3>5 DEF Offsets, Found
    <3>7. Chips[c].base + Pin(p).local \in Requested
      BY <1>7, <3>2, <3>6 DEF Busy
    <3>8. Chips[c].base + Pin(p).local \in LinesOf(pins[p][x])
      BY <1>1, <3>1, <3>2 DEF LinesOf
    <3> QED
      BY <1>1, <3>7, <3>8, RequestedHere
  <2>3. Grows(t, table'[p]) /\ \A n \in DOMAIN table'[p] \ DOMAIN t : table'[p][n].kind = "log"
    BY <1>2, <2>1 DEF File
  <2>4. Alive(table'[p])
    BY <1>2, <2>3, GrownAlive
  <2>5. Exported(p)' /\ HeldInOrder(p)'
    BY <1>4, <1>5, <1>7, <2>1 DEF Exported, HeldInOrder
  <2>6. \A n \in DOMAIN t : n \in DOMAIN table'[p] /\ table'[p][n] = t[n]
    BY <2>3 DEF Grows
  <2> HIDE DEF t
  <2> QED
    BY <1>1, <1>2, <1>4, <1>7, <2>1, <2>2, <2>3, <2>4, <2>5, <2>6, PinAlone DEF MainFiles, t, InPin
<1> QED
  BY <1>3, <1>6, <1>7 DEF UapiPin

-----------------------------------------------------------------------------
(***************************************************************************)
(* Into the loop and out of it.                                             *)
(***************************************************************************)
LEMMA LoopAlone ==
  ASSUME IInv, NEW p \in Proc, Gets(p), Leaves(p), pc[p] \in {"pin", "bind", "loop"}, todo[p] = {},
         pc'[p] \in {"bind", "loop", "clean"}, pc[p] = "loop" => pc'[p] = "clean",
         todo'[p] = IF pc'[p] = "clean" THEN gp_list[p] ELSE {},
         setup' = setup, exported' = exported, gp_list' = gp_list, memory' = memory,
         \A n \in DOMAIN table[p] :
           /\ n \in DOMAIN table'[p] => table'[p][n] = table[p][n]
           /\ KindAt(p, n) \notin {"timer", "listen"} => n \in DOMAIN table'[p]
           /\ pc[p] = "loop" /\ KindAt(p, n) = "timer" => n \notin DOMAIN table'[p],
         \A n \in DOMAIN table'[p] \ DOMAIN table[p] :
           /\ table'[p][n].live
           /\ table'[p][n].kind \in {"log", "epoll", "listen", "timer"}
           /\ table'[p][n].kind = "timer" => pc'[p] = "loop"
  PROVE  Gets(p)' /\ Leaves(p)'
<1>1. /\ pins' = pins /\ held' = held /\ chips' = chips /\ sys' = sys /\ gpio_dir' = gpio_dir
      /\ pc[p] \in Watching /\ pc[p] \in AtPins /\ pc[p] \notin InPin
      /\ pc'[p] \in AtPins /\ pc'[p] \notin InPin /\ pc'[p] # "pin"
      /\ ListTyped(p) /\ HeldOwn(p) /\ ValueHeld(p)
  BY DEF memory, Watching, AtPins, InPin, IInv, Local
<1>2. AllLive(p)' /\ AllChips(p)'
  <2>1. pc'[p] \in Watching => \A n \in DOMAIN table'[p] : table'[p][n].live
    BY <1>1 DEF Gets, AllLive
  <2> QED
    BY <1>1, <2>1 DEF Gets, AllLive, AllChips, Early, Watching, AtPins
<1>3. PinOrder(p)' /\ Exported(p)' /\ HeldInOrder(p)' /\ LeftUnexported(p)'
  BY <1>1 DEF PinOrder, Exported, HeldInOrder, LeftUnexported, Leaving, InPin
<1>4. RequestHeld(p)'
  <2> SUFFICES ASSUME pc'[p] \in Watching, NEW n \in DOMAIN table'[p], table'[p][n].kind = "lineevent"
               PROVE  /\ table'[p][n].of \notin exported \cup Taken
                      /\ \E j \in DOMAIN pins[p] : Requesting(p, j)' /\ held[p][j]["value"] = n
    BY <1>1 DEF RequestHeld, KindAt, OfAt
  <2>1. n \in DOMAIN table[p] /\ table'[p][n] = table[p][n]
    OBVIOUS
  <2>2. PICK j \in DOMAIN pins[p] : Requesting(p, j) /\ held[p][j]["value"] = n
    BY <1>1, <2>1 DEF Gets, RequestHeld, KindAt
  <2>3. Requesting(p, j)'
    BY <1>1, <2>2 DEF Requesting, Watching
  <2> QED
    BY <1>1, <2>1, <2>2, <2>3 DEF Gets, RequestHeld, KindAt, OfAt
<1>5. DroppedRightly(p)'
  <2> SUFFICES ASSUME pc'[p] \in Watching, NEW i \in DOMAIN pins[p] \ gp_list[p]
               PROVE  Refused(p, i)'
    BY <1>1 DEF DroppedRightly
  <2>1. Refused(p, i)
    BY <1>1 DEF Gets, DroppedRightly
  <2>2. Usable(p, i)' = Usable(p, i)
    BY <1>1 DEF Usable
  <2>3. ASSUME NEW j \in DOMAIN pins[p], j < i, Requesting(p, j), OfAt(p, held[p][j]["value"]) \in LinesOf(pins[p][i])
        PROVE  Refused(p, i)'
    <3>1. j \in Kept(p) /\ j \notin todo[p] /\ pins[p][j].facility # "sysfs"
      BY <1>1, <2>3 DEF Kept, Requesting, AtPins
    <3>2. Fits(table[p], pins[p][j], held[p][j]["value"], "value")
      BY <1>1, <3>1 DEF HeldOwn, ValueHeld, HeldKeys
    <3>3. OfAt(p, held[p][j]["value"])' = OfAt(p, held[p][j]["value"])
      BY <1>1, <3>1, <3>2 DEF Fits, OfAt, KindAt
    <3>4. Requesting(p, j)'
      BY <1>1, <2>3 DEF Requesting, Watching
    <3> QED
      BY <1>1, <2>3, <3>3, <3>4 DEF Refused
  <2> QED
    BY <2>1, <2>2, <2>3 DEF Refused
<1>6. Accounted(p)'
  <2> SUFFICES ASSUME NEW n \in DOMAIN table'[p]
               PROVE  \/ table'[p][n].kind \in MainFiles
                      \/ table'[p][n].kind = "timer" /\ pc'[p] = "loop"
                      \/ \E k \in SysKeys : sys[p][k] = n
                      \/ setup.uapi /\ \E i \in DOMAIN chips[p] : chips[p][i].fd = n
                      \/ PinFileAt(p, n)'
    BY <1>1 DEF Accounted, KindAt
  <2>1. Kept(p) = gp_list[p] /\ Kept(p)' = gp_list[p]
    BY <1>1 DEF Kept
  <2>2. PinFileAt(p, n) => PinFileAt(p, n)'
    BY <1>1, <2>1 DEF PinFileAt
  <2>3. CASE n \in DOMAIN table[p]
    BY <1>1, <2>2, <2>3 DEF Leaves, Accounted, KindAt
  <2>4. CASE n \notin DOMAIN table[p]
    BY <2>4 DEF MainFiles
  <2> QED
    BY <2>3, <2>4
<1> QED
  BY <1>2, <1>3, <1>4, <1>5, <1>6 DEF Gets, Leaves

LEMMA LoopsAlone ==
  ASSUME IInv, NEW p \in Proc, Gets(p), Leaves(p), PinsDone(p) \/ EnterLoop(p) \/ LeaveLoop(p)
  PROVE  Gets(p)' /\ Leaves(p)'
<1>1. IsTable(table[p]) /\ DOMAIN pc = Proc /\ DOMAIN table = Proc /\ DOMAIN todo = Proc /\ ListTyped(p)
  BY DEF IInv, Shaped, Local, TableTyped
<1>2. setup' = setup /\ exported' = exported /\ gp_list' = gp_list /\ memory' = memory
  BY DEF PinsDone, EnterLoop, LeaveLoop, LoopEnds, kernelVars
<1>3. CASE PinsDone(p)
  BY <1>1, <1>2, <1>3, LoopAlone DEF PinsDone, Goto
<1>4. CASE EnterLoop(p)
  <2>1. /\ pc[p] = "bind" /\ todo[p] = {}
        /\ \/ pc'[p] = "clean" /\ todo'[p] = gp_list[p]
           \/ pc'[p] = "loop" /\ todo'[p] = {}
    BY <1>1, <1>4 DEF EnterLoop, LoopEnds, Goto, ListTyped
  <2>2. /\ Grows(table[p], table'[p])
        /\ \A n \in DOMAIN table'[p] \ DOMAIN table[p] :
             /\ table'[p][n].kind \in {"log", "epoll", "listen", "timer"}
             /\ table'[p][n].kind = "timer" => pc'[p] = "loop"
    BY <1>4, LoopOpened
  <2>3. \A n \in DOMAIN table[p] : n \in DOMAIN table'[p] /\ table'[p][n] = table[p][n]
    BY <2>2 DEF Grows
  <2>4. \A n \in DOMAIN table'[p] \ DOMAIN table[p] : table'[p][n].live
    BY <2>2 DEF Grows
  <2> QED
    BY <1>2, <2>1, <2>2, <2>3, <2>4, LoopAlone
<1>5. CASE LeaveLoop(p)
  <2> DEFINE t == table[p]
             X == {n \in DOMAIN t : t[n].kind \in {"timer", "listen"}}
             u == Shut(t, X)
  <2>1. pc[p] = "loop" /\ todo[p] = {} /\ pc'[p] = "clean" /\ todo'[p] = gp_list[p] /\ table'[p] = u
    BY <1>1, <1>5 DEF LeaveLoop, LoopEnds, Open, Goto, ListTyped
  <2>2. DOMAIN u = DOMAIN t \ X /\ \A n \in DOMAIN t \ X : u[n] = t[n]
    <3> HIDE DEF X, t
    <3> QED
      BY <1>1, SomeShut DEF t
  <2> HIDE DEF u
  <2>3. ASSUME NEW n \in DOMAIN table[p]
        PROVE  /\ n \in DOMAIN table'[p] => table'[p][n] = table[p][n]
               /\ KindAt(p, n) \notin {"timer", "listen"} => n \in DOMAIN table'[p]
               /\ pc[p] = "loop" /\ KindAt(p, n) = "timer" => n \notin DOMAIN table'[p]
    BY <2>1, <2>2 DEF KindAt
  <2>4. DOMAIN table'[p] \ DOMAIN table[p] = {}
    BY <2>1, <2>2
  <2> HIDE DEF X, t
  <2> QED
    BY <1>2, <2>1, <2>3, <2>4, LoopAlone
<1> QED
  BY <1>3, <1>4, <1>5

-----------------------------------------------------------------------------
(***************************************************************************)
(* The way out: one use of a descriptor after the other ends.               *)
(***************************************************************************)
LEMMA OutGets ==
  ASSUME NEW p \in Proc, Gets(p), pc[p] \in Leaving, pc'[p] \in Leaving, pc'[p] = "clean" => pc[p] = "clean",
         setup' = setup, chips' = chips
  PROVE  Gets(p)' /\ HeldInOrder(p)'
<1>1. pc'[p] \notin Watching /\ pc'[p] \notin Early /\ pc'[p] # "sysfs" /\ pc'[p] # "pin" /\ pc'[p] \notin InPin
  BY DEF Leaving, Watching, AtPins, InPin, Early
<1>2. AllLive(p)' /\ PinOrder(p)' /\ RequestHeld(p)' /\ Exported(p)' /\ DroppedRightly(p)' /\ HeldInOrder(p)'
  BY <1>1 DEF AllLive, PinOrder, RequestHeld, Exported, DroppedRightly, HeldInOrder, InPin
<1>3. AllChips(p)'
  BY <1>1 DEF AllChips, Gets, AtPins, Leaving
<1> QED
  BY <1>2, <1>3 DEF Gets

LEMMA CleanAlone ==
  ASSUME IInv, NEW p \in Proc, Gets(p), Leaves(p), pc[p] = "clean", pc'[p] = "clean", todo[p] # {},
         todo'[p] = todo[p] \ {Index(p)},
         setup' = setup, pins' = pins, gp_list' = gp_list, chips' = chips, sys' = sys,
         exported' \subseteq exported, Pin(p).facility = "sysfs" => System(p) \notin exported',
         \A i \in DOMAIN pins[p] \ {Index(p)} : held'[p][i] = held[p][i],
         \A n \in DOMAIN table'[p] \ DOMAIN table[p] : table'[p][n].kind = "log",
         \A n \in DOMAIN table'[p] \cap DOMAIN table[p] :
           /\ table'[p][n].kind = table[p][n].kind
           /\ \A k \in HeldKeys : held[p][Index(p)][k] = n => n = 0 \/ (Pin(p).facility # "sysfs" /\ k # "value")
  PROVE  Gets(p)' /\ Leaves(p)'
<1>1. /\ Gets(p)' /\ HeldInOrder(p)'
      /\ Kept(p) = todo[p] /\ Kept(p)' = todo[p] \ {Index(p)} /\ todo[p] \subseteq DOMAIN pins[p]
      /\ pc[p] \in AtPins /\ pc[p] \notin InPin
  BY OutGets DEF Leaving, Kept, AtPins, InPin, IInv, Local, ListTyped
<1>2. LeftUnexported(p)'
  <2> SUFFICES ASSUME NEW i \in gp_list[p], pins[p][i].facility = "sysfs", i \notin todo'[p]
               PROVE  pins[p][i].system \notin exported'
    BY DEF LeftUnexported
  <2>1. CASE i \notin todo[p]
    BY <2>1 DEF Leaves, LeftUnexported, Leaving
  <2>2. CASE i = Index(p)
    BY <2>2 DEF Pin, System
  <2> QED
    BY <2>1, <2>2
<1>3. Accounted(p)'
  <2> SUFFICES ASSUME NEW n \in DOMAIN table'[p]
               PROVE  \/ table'[p][n].kind \in MainFiles
                      \/ \E k \in SysKeys : sys[p][k] = n
                      \/ setup.uapi /\ \E i \in DOMAIN chips[p] : chips[p][i].fd = n
                      \/ PinFileAt(p, n)'
    BY <1>1 DEF Accounted, KindAt, AtPins
  <2>1. CASE n \notin DOMAIN table[p]
    BY <2>1 DEF MainFiles
  <2>2. CASE n \in DOMAIN table[p]
    <3>1. CASE PinFileAt(p, n)
      <4>1. PICK i \in Kept(p), k \in HeldKeys :
              held[p][i][k] = n /\ (pins[p][i].facility = "sysfs" \/ k = "value")
        BY <3>1 DEF PinFileAt
      <4>2. CASE i = Index(p)
        <5>1. n = 0
          BY <2>2, <4>1, <4>2 DEF Pin
        <5>2. table[p][0].kind \in {"std", "signal", "log"}
          BY <2>2, <5>1 DEF IInv, Local, LowNumbers, Up, KindAt
        <5> QED
          BY <2>2, <5>1, <5>2 DEF MainFiles
      <4>3. CASE i # Index(p)
        <5>1. held'[p][i][k] = n /\ i \in Kept(p)'
          BY <1>1, <4>1, <4>3
        <5> QED
          BY <4>1, <5>1 DEF PinFileAt
      <4> QED
        BY <4>2, <4>3
    <3>2. CASE ~PinFileAt(p, n)
      BY <1>1, <2>2, <3>2 DEF Leaves, Accounted, KindAt
    <3> QED
      BY <3>1, <3>2
  <2> QED
    BY <2>1, <2>2
<1> QED
  BY <1>1, <1>2, <1>3 DEF Leaves

LEMMA CleanPinAlone ==
  ASSUME IInv, NEW p \in Proc, Gets(p), Leaves(p), CleanPin(p), faults' = faults
  PROVE  Gets(p)' /\ Leaves(p)'
<1> DEFINE x == Index(p)
<1>1. /\ pc[p] = "clean" /\ pc'[p] = "clean" /\ todo[p] # {} /\ todo'[p] = todo[p] \ {x}
      /\ setup' = setup /\ pins' = pins /\ gp_list' = gp_list /\ chips' = chips /\ sys' = sys
      /\ DOMAIN table = Proc /\ DOMAIN held = Proc /\ TableTyped(p) /\ IsTable(table[p]) /\ HeldTyped(p)
  BY DEF CleanPin, IInv, Shaped, Local, TableTyped
<1>2. x \in DOMAIN pins[p]
  BY <1>1, IndexIn
<1>3. CASE Pin(p).facility = "sysfs"
  <2> DEFINE X == {held[p][x][k] : k \in DOMAIN held[p][x]} \ {0}
             mine == Mine(p)
             u == Shut(mine, X)
  <2>1. CleanSysfsPin(p)
    BY <1>3 DEF CleanPin
  <2>2. /\ exported' = exported \ Gone(p)
        /\ table' = [[q \in Proc |-> Before(p, q)] EXCEPT ![p] = u]
        /\ held' = [held EXCEPT ![p][x] = [k \in DOMAIN @ |-> IF @[k] = 0 THEN 0 ELSE -1]]
    BY <1>1, <2>1, CleanedUp
  <2> HIDE DEF u, mine, X
  <2>3. table'[p] = u /\ \A i \in DOMAIN pins[p] \ {x} : held'[p][i] = held[p][i]
    BY <1>1, <2>2 DEF HeldTyped
  <2>4. exported' \subseteq exported /\ System(p) \notin exported'
    BY <2>2 DEF Gone, Unexport
  <2>5. /\ Grows(Before(p, p), mine)
        /\ \A n \in DOMAIN mine \ DOMAIN table[p] : mine[n] = File("log", 0)
    BY <1>1, MineGrows DEF mine
  <2>6. Alike(table[p], Before(p, p))
    BY <1>1, BeforeAlike
  <2>7. DOMAIN u = DOMAIN mine \ X /\ \A n \in DOMAIN mine \ X : u[n] = mine[n]
    <3>1. IsTable(mine)
      BY <2>5 DEF Grows
    <3> QED
      BY <3>1, SomeShut DEF u
  <2>8. \A n \in DOMAIN table'[p] \ DOMAIN table[p] : table'[p][n].kind = "log"
    BY <2>3, <2>5, <2>7 DEF File
  <2>9. \A n \in DOMAIN table'[p] \cap DOMAIN table[p] : table'[p][n].kind = table[p][n].kind
    BY <2>3, <2>5, <2>6, <2>7 DEF Alike, Grows
  <2>10. \A n \in DOMAIN table'[p], k \in HeldKeys : held[p][x][k] = n => n = 0
    BY <1>1, <1>2, <2>3, <2>7 DEF X, HeldTyped
  <2> QED
    BY <1>1, <2>3, <2>4, <2>8, <2>9, <2>10, CleanAlone
<1>4. CASE Pin(p).facility # "sysfs"
  <2> DEFINE t == table[p]
             X == {held[p][x]["value"]}
             u == Shut(t, X)
  <2>1. exported' = exported /\ held' = held /\ table'[p] = u
    BY <1>1, <1>4 DEF CleanPin, CleanUapiPin, Open
  <2>2. DOMAIN u = DOMAIN t \ X /\ \A n \in DOMAIN t \ X : u[n] = t[n]
    <3> HIDE DEF X, t
    <3> QED
      BY <1>1, SomeShut DEF t
  <2> HIDE DEF u
  <2>3. DOMAIN table'[p] \ DOMAIN table[p] = {}
    BY <2>1, <2>2
  <2>4. \A n \in DOMAIN table'[p] \cap DOMAIN table[p] :
          /\ table'[p][n].kind = table[p][n].kind
          /\ \A k \in HeldKeys : held[p][x][k] = n => k # "value"
    BY <2>1, <2>2
  <2> HIDE DEF t, X
  <2> QED
    BY <1>1, <1>4, <2>1, <2>3, <2>4, CleanAlone
<1> QED
  BY <1>3, <1>4

LEMMA OutAlone ==
  ASSUME IInv, NEW p \in Proc, Gets(p), Leaves(p), PinsCleaned(p) \/ CleanSysfs(p) \/ CleanChips(p), Up(p)'
  PROVE  Gets(p)' /\ Leaves(p)'
<1>1. /\ setup' = setup /\ exported' = exported /\ gp_list' = gp_list /\ todo' = todo /\ pins' = pins
      /\ chips' = chips /\ sys' = sys /\ held' = held
      /\ DOMAIN pc = Proc /\ DOMAIN table = Proc /\ IsTable(table[p]) /\ SysTyped(p)
  BY DEF PinsCleaned, CleanSysfs, CleanChips, kernelVars, memory, IInv, Shaped, Local, TableTyped
<1> DEFINE t == table[p]
           X == CASE pc[p] = "cleansysfs" -> {sys[p][k] : k \in DOMAIN sys[p]}
                  [] pc[p] = "cleanchips" -> {chips[p][i].fd : i \in DOMAIN chips[p]}
                  [] OTHER -> {}
           u == Shut(t, X)
<1>2. \/ pc[p] = "clean" /\ todo[p] = {} /\ pc'[p] = "cleansysfs" /\ table'[p] = t
      \/ pc[p] = "cleansysfs" /\ pc'[p] = "cleanchips" /\ table'[p] = u
      \/ pc[p] = "cleanchips" /\ pc'[p] = "exit" /\ table'[p] = u
  <2>1. CASE PinsCleaned(p)
    BY <1>1, <2>1 DEF PinsCleaned, Goto
  <2>2. CASE CleanSysfs(p)
    BY <1>1, <2>2 DEF CleanSysfs, Goto, Open, Vanish, Up
  <2>3. CASE CleanChips(p)
    BY <1>1, <2>3 DEF CleanChips, Goto, Open
  <2> QED
    BY <2>1, <2>2, <2>3
<1>3. DOMAIN u = DOMAIN t \ X /\ \A n \in DOMAIN t \ X : u[n] = t[n]
  <2> HIDE DEF X, t
  <2> QED
    BY <1>1, SomeShut DEF t
<1> HIDE DEF u
<1>4. \A n \in DOMAIN table'[p] : n \in DOMAIN t /\ table'[p][n] = t[n] /\ (pc[p] # "clean" => n \notin X)
  BY <1>2, <1>3
<1>5. Gets(p)' /\ HeldInOrder(p)'
  BY <1>1, <1>2, OutGets DEF Leaving
<1>6. LeftUnexported(p)'
  BY <1>1, <1>2 DEF Leaves, LeftUnexported, Leaving
<1>7. Accounted(p)'
  <2> SUFFICES ASSUME NEW n \in DOMAIN table'[p]
               PROVE  \/ t[n].kind \in MainFiles
                      \/ pc'[p] \notin {"cleanchips", "exit"} /\ \E k \in SysKeys : sys[p][k] = n
                      \/ setup.uapi /\ pc'[p] # "exit" /\ \E i \in DOMAIN chips[p] : chips[p][i].fd = n
    BY <1>1, <1>4 DEF Accounted, KindAt
  <2>1. pc[p] = "clean" => ~PinFileAt(p, n)
    BY <1>2 DEF PinFileAt, Kept
  <2>2. \/ t[n].kind \in MainFiles
        \/ pc[p] \notin {"cleanchips", "exit"} /\ \E k \in SysKeys : sys[p][k] = n
        \/ setup.uapi /\ pc[p] # "exit" /\ \E i \in DOMAIN chips[p] : chips[p][i].fd = n
    BY <1>2, <1>4, <2>1 DEF Leaves, Accounted, KindAt, AtPins, InPin
  <2>3. pc[p] = "cleansysfs" => \A k \in SysKeys : sys[p][k] # n
    BY <1>1, <1>4 DEF SysTyped
  <2>4. pc[p] = "cleanchips" => \A i \in DOMAIN chips[p] : chips[p][i].fd # n
    BY <1>4
  <2> QED
    BY <1>2, <2>2, <2>3, <2>4
<1> QED
  BY <1>5, <1>6, <1>7 DEF Leaves

-----------------------------------------------------------------------------
(***************************************************************************)
(* Every step of a gpiod that is alone.                                     *)
(***************************************************************************)
LEMMA AloneNext ==
  ASSUME IInv, IInv', AloneInv, [Next]_vars
  PROVE  AloneInv'
<1>1. Apart /\ Apart' /\ DOMAIN pc = Proc /\ DOMAIN table = Proc
  BY ApartKept DEF AloneInv, IInv, Shaped
<1> SUFFICES ASSUME NEW p \in Proc, Quiet(p)' PROVE Gets(p)' /\ Leaves(p)'
  BY <1>1 DEF AloneInv
<1>2. CASE LingerEnds \/ UNCHANGED vars
  <2>1. /\ setup' = setup /\ exported' = exported /\ faults' = faults /\ pc' = pc /\ todo' = todo
        /\ gp_list' = gp_list /\ table' = table /\ pins' = pins /\ gpio_dir' = gpio_dir /\ held' = held
        /\ chips' = chips /\ sys' = sys
    BY <1>2 DEF LingerEnds, vars, kernelVars, memory
  <2>2. Gets(p) /\ Leaves(p)
    BY <2>1 DEF AloneInv, Quiet, Up
  <2>3. Index(p)' = Index(p) /\ System(p)' = System(p) /\ Requested' = Requested
    BY <2>1 DEF Index, Interrupting, System, Pin, Requested, Files
  <2>4. AllLive(p)' /\ AllChips(p)' /\ PinOrder(p)' /\ RequestHeld(p)' /\ Exported(p)'
    BY <2>1, <2>2, <2>3 DEF Gets, AllLive, AllChips, PinOrder, RequestHeld, Exported, Requesting, KindAt, OfAt
  <2>5. DroppedRightly(p)'
    <3>1. \A i \in DOMAIN pins[p] : Refused(p, i) => Refused(p, i)'
      BY <2>1 DEF Refused, Usable, Requesting, OfAt
    <3> QED
      BY <2>1, <2>2, <3>1 DEF Gets, DroppedRightly
  <2>6. HeldInOrder(p)' /\ Accounted(p)' /\ LeftUnexported(p)'
    BY <2>1, <2>2, <2>3 DEF Leaves, HeldInOrder, Accounted, LeftUnexported, PinFileAt, Kept, KindAt
  <2> QED
    BY <2>4, <2>5, <2>6 DEF Gets, Leaves
<1>3. CASE Start(p)
  BY <1>1, <1>3, StartAlone
<1>4. CASE Quiet(p) /\ faults' = faults /\ (Run(p) \/ LeaveLoop(p))
  <2>1. Gets(p) /\ Leaves(p) /\ Up(p)'
    BY <1>4 DEF AloneInv, Quiet
  <2>2. CASE LoadConfig(p) \/ LoadTabs(p)
    BY <2>1, <2>2, LoadConfigAlone, LoadTabsAlone
  <2>3. CASE InitChips(p) \/ InitSysfs(p)
    BY <1>4, <2>1, <2>3, InitChipsAlone, InitSysfsAlone
  <2>4. CASE Export(p) \/ OpenDir(p)
    BY <1>1, <1>4, <2>1, <2>4, ExportAlone, OpenDirAlone
  <2>5. CASE Direction(p) \/ EdgeFile(p) \/ ActiveLow(p) \/ ValueFile(p)
    BY <1>4, <2>1, <2>5, FilesAlone
  <2>6. CASE UapiPin(p)
    BY <1>1, <1>4, <2>1, <2>6, UapiPinAlone
  <2>7. CASE PinsDone(p) \/ EnterLoop(p) \/ LeaveLoop(p)
    BY <2>1, <2>7, LoopsAlone
  <2>8. CASE CleanPin(p)
    BY <1>4, <2>1, <2>8, CleanPinAlone
  <2>9. CASE PinsCleaned(p) \/ CleanSysfs(p) \/ CleanChips(p)
    BY <2>1, <2>9, OutAlone
  <2>10. CASE Exit(p)
    BY <1>1, <2>1, <2>10 DEF Exit, Vanish, Goto, Up
  <2> QED
    BY <1>4, <2>2, <2>3, <2>4, <2>5, <2>6, <2>7, <2>8, <2>9, <2>10 DEF Run
<1> QED
  BY <1>1, <1>2, <1>3, <1>4, QuietStep

LEMMA AloneInvariance == Spec => [](IInv /\ AloneInv)
<1>1. Init => AloneInv
  <2> SUFFICES ASSUME Init PROVE AloneInv
    OBVIOUS
  <2>1. \A p \in Proc : ~Up(p) /\ DOMAIN table[p] = {}
    BY NothingOpen DEF Init, Up
  <2> QED
    BY <2>1 DEF AloneInv, Apart, Quiet
<1>2. IInv /\ AloneInv /\ [Next]_vars => IInv' /\ AloneInv'
  BY NextIInv, AloneNext
<1> QED
  BY <1>1, <1>2, InitIInv, PTL DEF Spec

-----------------------------------------------------------------------------
(***************************************************************************)
(* With one gpiod at a time no file dies before the way out, whatever fails. *)
(***************************************************************************)
LiveInv == ~setup.overlap => \A p \in Proc : Up(p) /\ pc[p] \notin Leaving => Alive(table[p])

LEMMA WideAlive ==
  ASSUME NEW t, NEW u, Alive(t), Widens(t, u)
  PROVE  Alive(u)
BY DEF Alive, Widens

LEMMA ValueAlive ==
  ASSUME IInv, NEW p \in Proc, ValueFile(p), Alive(table[p])
  PROVE  Alive(table'[p])
<1> DEFINE t == table[p]
           f == File("value", System(p))
           u == Opened(t, f)
           X == {gpio_dir[p]}
<1>1. IsTable(t) /\ DOMAIN table = Proc /\ f.live
  BY DEF IInv, Local, TableTyped, Shaped, File
<1>2. table'[p] = Syslog(t) \/ table'[p] = Shut(u, X)
  BY <1>1 DEF ValueFile, Drop, Open, WithFile
<1> HIDE DEF t, f
<1>3. IsTable(u) /\ Widens(t, u) /\ Widens(t, Syslog(t))
  BY <1>1, OneOpened, Widened DEF Beside
<1> HIDE DEF u, X
<1>4. \A n \in DOMAIN Shut(u, X) : n \in DOMAIN u /\ Shut(u, X)[n] = u[n]
  <2>1. IsTable(u)
    BY <1>3
  <2>2. DOMAIN Shut(u, X) = DOMAIN u \ X /\ \A n \in DOMAIN u \ X : Shut(u, X)[n] = u[n]
    BY <2>1, SomeShut
  <2> QED
    BY <2>2
<1>5. Alive(u) /\ Alive(Syslog(t))
  BY <1>3, WideAlive DEF t
<1> QED
  BY <1>2, <1>4, <1>5 DEF Alive

LEMMA StepAlive ==
  ASSUME IInv, Apart, LiveInv, ~setup.overlap, NEW p \in Proc, Start(p) \/ Run(p) \/ LeaveLoop(p) \/ Crash(p),
         pc'[p] \notin Leaving
  PROVE  Alive(table'[p])
<1>1. DOMAIN pc = Proc /\ pc'[p] # "gone"
  BY DEF IInv, Shaped, Leaving
<1>2. ASSUME pc[p] \notin Leaving PROVE Alive(table[p])
  BY <1>2 DEF LiveInv, Apart, Alive, Up
<1>3. CASE Start(p) \/ LoadConfig(p) \/ LoadTabs(p)
  <2>1. pc[p] \notin Leaving
    BY <1>3 DEF Start, LoadConfig, LoadTabs, Leaving
  <2> QED
    BY <1>1, <1>2, <1>3, <2>1, StartOpens, WideAlive
<1>4. CASE InitChips(p) \/ InitSysfs(p)
  <2>1. pc[p] \notin Leaving
    BY <1>4 DEF InitChips, InitSysfs, Leaving
  <2> QED
    BY <1>1, <1>2, <1>4, <2>1, InitsOpen, WideAlive
<1>5. CASE Export(p) \/ OpenDir(p) \/ Direction(p) \/ EdgeFile(p) \/ ActiveLow(p) \/ UapiPin(p)
  <2>1. pc[p] \notin Leaving
    BY <1>5 DEF Export, OpenDir, Direction, EdgeFile, ActiveLow, UapiPin, AtPin, Leaving
  <2> QED
    BY <1>2, <1>5, <2>1, PinsOpen, WideAlive
<1>6. CASE PinsDone(p) \/ EnterLoop(p)
  <2>1. pc[p] \notin Leaving
    BY <1>6 DEF PinsDone, EnterLoop, Leaving
  <2> QED
    BY <1>2, <1>6, <2>1, LoopOpens, WideAlive
<1>7. CASE ValueFile(p)
  <2>1. pc[p] \notin Leaving
    BY <1>7 DEF ValueFile, Leaving
  <2> QED
    BY <1>2, <1>7, <2>1, ValueAlive
<1>8. ~LeaveLoop(p) /\ ~CleanPin(p) /\ ~PinsCleaned(p) /\ ~CleanSysfs(p) /\ ~CleanChips(p) /\ ~Exit(p) /\ ~Crash(p)
  BY <1>1 DEF LeaveLoop, LoopEnds, CleanPin, PinsCleaned, CleanSysfs, CleanChips, Exit, Crash, Vanish, Goto, Leaving
<1> QED
  BY <1>3, <1>4, <1>5, <1>6, <1>7, <1>8 DEF Run

LEMMA NextAlive ==
  ASSUME IInv, Apart, LiveInv, [Next]_vars
  PROVE  LiveInv'
<1>1. CASE LingerEnds \/ UNCHANGED vars
  BY <1>1 DEF LingerEnds, vars, kernelVars, LiveInv, Up, Alive
<1>2. ASSUME NEW q \in Proc, Start(q) \/ Run(q) \/ LeaveLoop(q) \/ Crash(q)
      PROVE  LiveInv'
  <2>1. /\ setup' = setup /\ \A r \in Proc \ {q} : pc'[r] = pc[r]
        /\ Start(q) \/ Up(q)
    BY <1>2, EveryStep
  <2> SUFFICES ASSUME ~setup.overlap, NEW p \in Proc, Up(p)', pc'[p] \notin Leaving
               PROVE  Alive(table'[p])
    BY <2>1 DEF LiveInv, Alive
  <2>2. p = q
    BY <2>1 DEF Apart, Start, Up
  <2> QED
    BY <1>2, <2>2, StepAlive
<1> QED
  BY <1>1, <1>2 DEF Next

LEMMA LiveInvariance == Spec => [](IInv /\ LiveInv)
<1>1. Init => LiveInv
  BY DEF Init, LiveInv, Up
<1>2. IInv /\ AloneInv /\ LiveInv /\ [Next]_vars => LiveInv'
  BY NextAlive DEF AloneInv
<1> QED
  BY <1>1, <1>2, AloneInvariance, PTL DEF Spec

\* While gpiod loops every pin in its list is read from an open file of the pin's own
\* line, whatever has failed and whoever runs beside it; with one gpiod at a time the
\* file is alive, also after crashes that have left lines exported (gpiod-event-loop.c
\* reads what sysfs.c:101-249 and uapi.c opened).
THEOREM Watched == Spec => []WatchedLive
<1>1. IInv /\ LiveInv => WatchedLive
  <2> SUFFICES ASSUME IInv, LiveInv, NEW p \in Proc, pc[p] = "loop", NEW i \in gp_list[p]
               PROVE  LET n == held[p][i]["value"] IN
                      /\ n \in DOMAIN table[p]
                      /\ table[p][n].of \in LinesOf(pins[p][i])
                      /\ ~setup.overlap => table[p][n].live
    BY DEF WatchedLive
  <2> DEFINE n == held[p][i]["value"]
             pin == pins[p][i]
  <2>1. /\ HeldOwn(p) /\ ValueHeld(p) /\ todo[p] = {} /\ i \in DOMAIN pins[p] /\ i \in Kept(p)
    BY DEF IInv, Local, ListTyped, Kept, AtPins
  <2>2. Fits(table[p], pin, n, "value")
    BY <2>1 DEF HeldOwn, ValueHeld, AtPins, HeldKeys
  <2>3. table[p][n].of \in LinesOf(pin)
    BY <2>2 DEF Fits, LinesOf, ChipLines
  <2>4. ~setup.overlap => Alive(table[p])
    BY DEF LiveInv, Up, Leaving
  <2> QED
    BY <2>2, <2>3, <2>4 DEF Fits, Alive
<1> QED
  BY <1>1, LiveInvariance, PTL

LEMMA FacilityKnown ==
  ASSUME IInv, NEW p \in Proc, pc[p] \in AtPins, NEW i \in DOMAIN pins[p]
  PROVE  pins[p][i].facility \in {"sysfs", "uapi"}
<1> DEFINE text == Text(p)
           g == text.gpio[i]
<1>1. PinsRead(p) /\ LoadOutcome(text) = "ok"
  BY DEF IInv, Local, ConfigRead, AtPins, InPin
<1>2. i \in DOMAIN text.gpio /\ pins[p][i].facility = Facility(text, g)
  <2>1. i \in DOMAIN text.gpio /\ pins[p][i] = PinOf(text, g)
    BY <1>1 DEF PinsRead, PinsOf
  <2> QED
    BY <2>1 DEF PinOf
<1>3. FacilityWord(g.facility) /\ FacilityWord(text.facility)
  BY <1>1, <1>2 DEF LoadOutcome, ParseSuccess
<1>4. ASSUME NEW word, conf_parse_facility(word) # Absent
      PROVE  conf_parse_facility(word) \in {"sysfs", "uapi"}
  <2> DEFINE fits == {k \in DOMAIN gpiod_facility_array : gpiod_facility_array[k] \in Begins[word]}
  <2>1. fits \subseteq {1, 2}
    BY DEF gpiod_facility_array
  <2>2. fits # {} /\ conf_parse_facility(word) = gpiod_facility_array[Min(fits)]
    BY <1>4 DEF conf_parse_facility, ParseWord
  <2> HIDE DEF fits
  <2>3. fits \subseteq Nat
    BY <2>1
  <2>4. Min(fits) \in fits
    BY <2>2, <2>3, MinOfNats
  <2>5. Min(fits) \in {1, 2}
    BY <2>1, <2>4
  <2>6. \A k \in {1, 2} : gpiod_facility_array[k] \in {"sysfs", "uapi"}
    BY DEF gpiod_facility_array
  <2> QED
    BY <2>2, <2>5, <2>6
<1> QED
  BY <1>2, <1>3, <1>4 DEF Facility, FacilityWord

-----------------------------------------------------------------------------
\* A gpiod that meets no failing call and no other gpiod gives up no pin but one that
\* cannot be had: its line is missing, misnamed, a driver's or exported where it
\* should be requested, or it is the line of a kept pin before it and one of the two
\* requests it (gpiod-pin.c:64-71, where a pin whose init fails is taken from gp_list).
THEOREM NoneDropped == Spec => []NothingDropped
<1>1. IInv /\ AloneInv => NothingDropped
  <2> SUFFICES ASSUME IInv, AloneInv, NEW p \in Proc, ~setup.overlap, faults[p] = 0, pc[p] \in {"bind", "loop"},
                      NEW i \in DOMAIN pins[p] \ gp_list[p], Usable(p, i)
               PROVE  \E j \in gp_list[p] : j < i /\ Same(p, i, j)
    BY DEF NothingDropped
  <2>1. pc[p] \in Watching /\ pc[p] \in AtPins /\ pc[p] # "clean" /\ Quiet(p)
    BY DEF Watching, AtPins, Quiet, Up
  <2>2. Gets(p) /\ HeldOwn(p) /\ ValueHeld(p)
    BY <2>1 DEF AloneInv, IInv, Local
  <2>3. PICK j \in DOMAIN pins[p] : j < i /\ Requesting(p, j) /\ OfAt(p, held[p][j]["value"]) \in LinesOf(pins[p][i])
    BY <2>1, <2>2 DEF Gets, DroppedRightly, Refused
  <2> DEFINE n == held[p][j]["value"]
  <2>4. j \in Kept(p) /\ j \in gp_list[p] /\ pins[p][j].facility = "uapi"
    BY <2>1, <2>3, FacilityKnown DEF Kept, Requesting
  <2>5. n > 0
    BY <2>1, <2>2, <2>3, <2>4 DEF ValueHeld, Requesting
  <2>6. OfAt(p, n) \in ChipLines(pins[p][j])
    BY <2>2, <2>4, <2>5 DEF HeldOwn, Fits, HeldKeys, OfAt
  <2>7. OfAt(p, n) \in LinesOf(pins[p][j])
    BY <2>4, <2>6 DEF ChipLines, LinesOf
  <2> QED
    BY <2>3, <2>4, <2>7 DEF Same
<1> QED
  BY <1>1, AloneInvariance, PTL

\* A gpiod that meets no failing call and no other gpiod loops with nothing open but
\* what it remembers and what lives as long as main, and when it ends has closed all
\* the rest and unexported the line of every pin it kept (gpiod.c:271-278), whichever
\* pins it had to give up; those pins' lines may stay exported.
THEOREM NothingLeft == Spec => []LeavesNothing
<1>1. IInv /\ AloneInv => LeavesNothing
  <2> SUFFICES ASSUME IInv, AloneInv, NEW p \in Proc, ~setup.overlap, faults[p] = 0
               PROVE  /\ pc[p] = "loop" => \A n \in DOMAIN table[p] :
                           \/ table[p][n].kind \in {"std", "signal", "log", "epoll", "listen", "timer"}
                           \/ \E r \in Remembered(p) : r.n = n
                      /\ pc[p] = "exit" =>
                           /\ \A f \in Files(p) : f.kind \in {"std", "signal", "log", "epoll", "listen"}
                           /\ \A i \in gp_list[p] : pins[p][i].facility = "sysfs" => pins[p][i].system \notin exported
    BY DEF LeavesNothing
  <2>1. ASSUME pc[p] = "loop", NEW n \in DOMAIN table[p],
               table[p][n].kind \notin {"std", "signal", "log", "epoll", "listen", "timer"}
        PROVE  \E r \in Remembered(p) : r.n = n
    <3>1. /\ Leaves(p) /\ SysTyped(p) /\ HeldTyped(p) /\ LowNumbers(p) /\ Kept(p) = gp_list[p]
          /\ gp_list[p] \subseteq DOMAIN pins[p]
          /\ n \in Nat
      BY <2>1 DEF AloneInv, Quiet, Up, IInv, Local, Kept, AtPins, ListTyped, TableTyped, IsTable
    <3>2. n # 0
      BY <2>1, <3>1 DEF LowNumbers, Up, KindAt
    <3>3. \/ \E k \in SysKeys : sys[p][k] = n
          \/ setup.uapi /\ \E i \in DOMAIN chips[p] : chips[p][i].fd = n
          \/ PinFileAt(p, n)
      BY <2>1, <3>1 DEF Leaves, Accounted, KindAt, MainFiles, InPin
    <3>4. ASSUME NEW k \in SysKeys, sys[p][k] = n
          PROVE  \E r \in Remembered(p) : r.n = n
      <4>1. k \in {x \in DOMAIN sys[p] : sys[p][x] # -1}
        BY <3>1, <3>4 DEF SysTyped
      <4>2. [n |-> sys[p][k], kind |-> k, pin |-> 0] \in Remembered(p)
        BY <4>1 DEF Remembered
      <4> QED
        BY <3>4, <4>2
    <3>5. ASSUME setup.uapi, NEW i \in DOMAIN chips[p], chips[p][i].fd = n
          PROVE  \E r \in Remembered(p) : r.n = n
      <4>1. [n |-> chips[p][i].fd, kind |-> "chip", pin |-> 0] \in Remembered(p)
        BY <3>5 DEF Remembered
      <4> QED
        BY <3>5, <4>1
    <3>6. ASSUME NEW i \in gp_list[p], NEW k \in HeldKeys, held[p][i][k] = n
          PROVE  \E r \in Remembered(p) : r.n = n
      <4> DEFINE r == [n |-> held[p][i][k], pin |-> i,
                       kind |-> IF pins[p][i].facility = "sysfs" THEN k ELSE "lineevent"]
      <4>1. k \in {x \in DOMAIN held[p][i] : held[p][i][x] > 0}
        BY <3>1, <3>2, <3>6 DEF HeldTyped
      <4>2. i \in {j \in gp_list[p] : pc[p] = "clean" => j \in todo[p]}
        BY <2>1
      <4>3. r \in Remembered(p)
        BY <4>1, <4>2 DEF Remembered
      <4> QED
        BY <3>6, <4>3
    <3> QED
      BY <3>1, <3>3, <3>4, <3>5, <3>6 DEF PinFileAt
  <2>2. ASSUME pc[p] = "exit"
        PROVE  /\ \A f \in Files(p) : f.kind \in {"std", "signal", "log", "epoll", "listen"}
               /\ \A i \in gp_list[p] : pins[p][i].facility = "sysfs" => pins[p][i].system \notin exported
    <3>1. Leaves(p)
      BY <2>2 DEF AloneInv, Quiet, Up
    <3>2. \A n \in DOMAIN table[p] : table[p][n].kind \in MainFiles
      BY <2>2, <3>1 DEF Leaves, Accounted, KindAt, AtPins, InPin
    <3>3. \A f \in Files(p) : f.kind \in MainFiles
      BY <3>2 DEF Files, Range
    <3> QED
      BY <2>2, <3>1, <3>3 DEF Leaves, LeftUnexported, Leaving, MainFiles
  <2> QED
    BY <2>1, <2>2
<1> QED
  BY <1>1, AloneInvariance, PTL

-----------------------------------------------------------------------------
(***************************************************************************)
(* The way up.                                                              *)
(***************************************************************************)
Stage == [w \in {"config", "tabs", "chips", "sysfs", "pin", "bind", "loop"} \cup InPin |->
  CASE w = "config" -> 0 [] w = "tabs" -> 1 [] w = "chips" -> 2 [] w = "sysfs" -> 3
    [] w = "bind" -> 5 [] w = "loop" -> 6 [] OTHER -> 4]
PinStage == [w \in {"pin"} \cup InPin |->
  CASE w = "pin" -> 0 [] w = "open" -> 1 [] w = "direction" -> 2 [] w = "edge" -> 3
    [] w = "active_low" -> 4 [] OTHER -> 5]

\* On its way to its loop, with the usual kind of file and nothing in its way.
Climbs(p) ==
  /\ ~setup.overlap /\ setup.faults[p] = 0 /\ Usual(Text(p)) /\ linger = {}
  /\ pc[p] \in DOMAIN Stage \ {"loop"}

\* At a later stage, or among the pins with one less to come or further with one.
Higher(p) ==
  \/ Stage[pc[p]] < Stage[pc'[p]]
  \/ /\ pc[p] \in DOMAIN PinStage /\ pc'[p] \in DOMAIN PinStage
     /\ \/ \E i \in todo[p] : todo'[p] = todo[p] \ {i}
        \/ todo'[p] = todo[p] /\ PinStage[pc[p]] < PinStage[pc'[p]]

Climbing == [][\A p \in Proc : Climbs(p) => (Climbs(p)' \/ pc'[p] = "loop") /\ Higher(p)]_vars

LEMMA MainClimbs ==
  ASSUME IInv, NEW p \in Proc, Climbs(p), ~Fault(p), LoadConfig(p) \/ LoadTabs(p) \/ InitChips(p) \/ InitSysfs(p)
  PROVE  pc'[p] \in DOMAIN Stage \ {"loop"} /\ Stage[pc[p]] < Stage[pc'[p]]
<1>1. DOMAIN pc = Proc
  BY DEF IInv, Shaped
<1>2. CASE LoadConfig(p)
  <2>1. LoadOutcome(Text(p)) = "ok"
    BY DEF Climbs, Usual, LoadOutcome
  <2>2. pc[p] = "config" /\ pc'[p] = "tabs"
    BY <1>1, <1>2, <2>1 DEF LoadConfig, Goto
  <2> QED
    BY <2>2 DEF Stage
<1>3. CASE LoadTabs(p)
  <2>1. pc[p] = "tabs" /\ pc'[p] = "chips"
    BY <1>1, <1>3 DEF LoadTabs, Goto
  <2> QED
    BY <2>1 DEF Stage
<1>4. CASE InitChips(p)
  <2>1. pc[p] = "chips" /\ pc'[p] = "sysfs"
    BY <1>1, <1>4 DEF InitChips, ScanUapi, ScanSysfs, Goto
  <2> QED
    BY <2>1 DEF Stage
<1>5. CASE InitSysfs(p)
  <2>1. pc[p] = "sysfs" /\ pc'[p] = "pin"
    BY <1>1, <1>5 DEF InitSysfs, Goto
  <2> QED
    BY <2>1 DEF Stage
<1> QED
  BY <1>2, <1>3, <1>4, <1>5

LEMMA PinClimbs ==
  ASSUME IInv, NEW p \in Proc,
         Export(p) \/ OpenDir(p) \/ Direction(p) \/ EdgeFile(p) \/ ActiveLow(p) \/ ValueFile(p) \/ UapiPin(p)
  PROVE  Higher(p) /\ pc'[p] \in DOMAIN PinStage
<1>1. DOMAIN pc = Proc /\ DOMAIN todo = Proc
  BY DEF IInv, Shaped
<1>2. todo[p] # {}
  BY DEF IInv, Local, ListTyped, InPin, Export, UapiPin, AtPin, OpenDir, Direction, EdgeFile, ActiveLow, ValueFile
<1>3. Index(p) \in todo[p]
  BY <1>2, IndexIn
<1>4. \/ todo'[p] = todo[p] \ {Index(p)} /\ pc'[p] = "pin"
      \/ /\ todo'[p] = todo[p]
         /\ \/ pc[p] = "pin" /\ pc'[p] = "open"
            \/ pc[p] = "open" /\ pc'[p] = "direction"
            \/ pc[p] = "direction" /\ pc'[p] = "edge"
            \/ pc[p] = "edge" /\ pc'[p] \in {"active_low", "value"}
            \/ pc[p] = "active_low" /\ pc'[p] = "value"
  <2>1. CASE Export(p)
    BY <1>1, <2>1 DEF Export, AtPin, Drop, NextPin, Goto
  <2>2. CASE OpenDir(p)
    BY <1>1, <2>2 DEF OpenDir, Drop, NextPin, Goto
  <2>3. CASE Direction(p)
    BY <1>1, <2>3 DEF Direction, Drop, NextPin, Goto
  <2>4. CASE EdgeFile(p)
    BY <1>1, <2>4 DEF EdgeFile, Goto
  <2>5. CASE ActiveLow(p)
    BY <1>1, <2>5 DEF ActiveLow, Goto
  <2>6. CASE ValueFile(p)
    BY <1>1, <2>6 DEF ValueFile, Drop, NextPin, Goto
  <2>7. CASE UapiPin(p)
    BY <1>1, <2>7 DEF UapiPin, Drop, NextPin, Goto
  <2> QED
    BY <2>1, <2>2, <2>3, <2>4, <2>5, <2>6, <2>7
<1>5. pc[p] \in DOMAIN PinStage
  BY DEF PinStage, InPin, Export, UapiPin, AtPin, OpenDir, Direction, EdgeFile, ActiveLow, ValueFile
<1>6. pc'[p] \in DOMAIN PinStage
  BY <1>4 DEF PinStage, InPin
<1>7. todo'[p] = todo[p] => PinStage[pc[p]] < PinStage[pc'[p]]
  BY <1>3, <1>4 DEF PinStage, InPin
<1> QED
  BY <1>3, <1>4, <1>5, <1>6, <1>7 DEF Higher

LEMMA LoopClimbs ==
  ASSUME IInv, Apart, NEW p \in Proc, Climbs(p), PinsDone(p) \/ EnterLoop(p)
  PROVE  Stage[pc[p]] < Stage[pc'[p]] /\ pc'[p] \in {"bind", "loop"}
<1>1. DOMAIN pc = Proc
  BY DEF IInv, Shaped
<1>2. CASE PinsDone(p)
  <2>1. pc[p] = "pin" /\ pc'[p] = "bind"
    BY <1>1, <1>2 DEF PinsDone, Goto
  <2> QED
    BY <2>1 DEF Stage
<1>3. CASE EnterLoop(p)
  <2>1. pc[p] = "bind"
    BY <1>3 DEF EnterLoop
  <2>2. \A q \in Proc : pc[q] # "loop"
    BY <2>1 DEF Apart, Climbs, Up
  <2>3. PortFree(p) /\ PeriodFits(p)
    BY <2>2 DEF Climbs, PortFree, Usual, PeriodFits
  <2>4. pc'[p] = "loop"
    BY <1>1, <1>3, <2>3 DEF EnterLoop, Goto
  <2> QED
    BY <2>1, <2>4 DEF Stage
<1> QED
  BY <1>2, <1>3

LEMMA OnTheWay ==
  ASSUME NEW p \in Proc, Climbs(p), Run(p)
  PROVE  \/ LoadConfig(p) \/ LoadTabs(p) \/ InitChips(p) \/ InitSysfs(p)
         \/ Export(p) \/ OpenDir(p) \/ Direction(p) \/ EdgeFile(p) \/ ActiveLow(p) \/ ValueFile(p) \/ UapiPin(p)
         \/ PinsDone(p) \/ EnterLoop(p)
<1>1. pc[p] \notin {"clean", "cleansysfs", "cleanchips", "exit"}
  BY DEF Climbs, Stage, InPin
<1>2. ~CleanPin(p) /\ ~PinsCleaned(p) /\ ~CleanSysfs(p) /\ ~CleanChips(p) /\ ~Exit(p)
  BY <1>1 DEF CleanPin, PinsCleaned, CleanSysfs, CleanChips, Exit
<1> QED
  BY <1>2 DEF Run

LEMMA ClimbLeaves ==
  ASSUME NEW p \in Proc, Climbs(p), Run(p)
  PROVE  setup' = setup /\ linger' = linger
<1> USE DEF kernelVars
<1>1. CASE LoadConfig(p) \/ LoadTabs(p) \/ InitChips(p) \/ InitSysfs(p)
  BY <1>1 DEF LoadConfig, LoadTabs, InitChips, InitSysfs
<1>2. CASE Export(p) \/ OpenDir(p) \/ Direction(p) \/ EdgeFile(p)
  BY <1>2 DEF Export, OpenDir, Direction, EdgeFile
<1>3. CASE ActiveLow(p) \/ ValueFile(p) \/ UapiPin(p)
  BY <1>3 DEF ActiveLow, ValueFile, UapiPin
<1>4. CASE PinsDone(p) \/ EnterLoop(p)
  BY <1>4 DEF PinsDone, EnterLoop
<1> QED
  BY <1>1, <1>2, <1>3, <1>4, OnTheWay

\* With a `listen`, a period below a second (see Usual), no failure and no port in
\* TIME_WAIT every step of all the gpiods takes one closer to its loop, whatever its
\* pins are and whichever it gives up, and keeps it so: GetsToLoop but for the step
\* being taken (gpiod.c:232-271, event-loop.c:169-214).
THEOREM Climb == Spec => Climbing
<1>1. ASSUME IInv, Apart, Next, NEW p \in Proc, Climbs(p)
      PROVE  (Climbs(p)' \/ pc'[p] = "loop") /\ Higher(p)
  <2>1. Up(p) /\ ~Fault(p) /\ ~LeaveLoop(p) /\ ~Start(p)
    BY <1>1 DEF Climbs, Stage, InPin, Up, Fault, IInv, Shaped, LeaveLoop, Start
  <2>2. Run(p)
    <3>1. ~LingerEnds
      BY <1>1 DEF Climbs, LingerEnds
    <3>2. PICK q \in Proc : Start(q) \/ Run(q) \/ LeaveLoop(q) \/ Crash(q)
      BY <1>1, <3>1 DEF Next
    <3>3. q = p
      BY <1>1, <2>1, <3>2, EveryStep DEF Apart, Climbs, Start
    <3> QED
      BY <2>1, <3>2, <3>3 DEF Crash
  <2>3. setup' = setup /\ linger' = linger
    BY <2>2, ClimbLeaves, <1>1
  <2>4. CASE LoadConfig(p) \/ LoadTabs(p) \/ InitChips(p) \/ InitSysfs(p)
    <3>1. pc'[p] \in DOMAIN Stage \ {"loop"} /\ Stage[pc[p]] < Stage[pc'[p]]
      BY <1>1, <2>1, <2>4, MainClimbs
    <3> QED
      BY <1>1, <2>3, <3>1 DEF Higher, Climbs, Text
  <2>5. CASE \/ Export(p) \/ OpenDir(p) \/ Direction(p) \/ EdgeFile(p) \/ ActiveLow(p)
             \/ ValueFile(p) \/ UapiPin(p)
    <3>1. Higher(p) /\ pc'[p] \in DOMAIN PinStage
      BY <1>1, <2>5, PinClimbs
    <3>2. pc'[p] \in DOMAIN Stage \ {"loop"}
      BY <3>1 DEF Stage, PinStage, InPin
    <3> QED
      BY <1>1, <2>3, <3>1, <3>2 DEF Climbs, Text
  <2>6. CASE PinsDone(p) \/ EnterLoop(p)
    <3>1. Stage[pc[p]] < Stage[pc'[p]] /\ pc'[p] \in {"bind", "loop"}
      BY <1>1, <2>6, LoopClimbs
    <3>2. pc'[p] \in DOMAIN Stage
      BY <3>1 DEF Stage
    <3> QED
      BY <1>1, <2>3, <3>1, <3>2 DEF Higher, Climbs, Text
  <2> QED
    BY <1>1, <2>2, <2>4, <2>5, <2>6, OnTheWay
<1>2. IInv /\ AloneInv /\ [Next]_vars =>
        [\A p \in Proc : Climbs(p) => (Climbs(p)' \/ pc'[p] = "loop") /\ Higher(p)]_vars
  BY <1>1 DEF AloneInv
<1> QED
  BY <1>2, AloneInvariance, PTL DEF Spec, Climbing

=============================================================================
