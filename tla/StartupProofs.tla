--------------------------- MODULE StartupProofs ---------------------------
(***************************************************************************)
(* Proofs about Startup, for any number of gpiods, lines, chips and         *)
(* configurations, and any number of failures.                              *)
(***************************************************************************)
EXTENDS Startup, FiniteSetTheorems, TLAPS

(***************************************************************************)
(* Descriptors: the lowest free number, and what opening does to a table.   *)
(***************************************************************************)
LEMMA MinOfNats ==
  ASSUME NEW S, S \subseteq Nat, S # {}
  PROVE  Min(S) \in S /\ \A n \in S : Min(S) <= n
<1> DEFINE Less == OpToRel(<, Nat)
<1>1. PICK m \in S : \A n \in S : <<n, m>> \notin Less
  <2>1. IsWellFoundedOn(Less, Nat)
    BY NatLessThanWellFounded
  <2> HIDE DEF Less
  <2> QED
    BY <2>1, WFMin
<1>2. Less = {ss \in Nat \X Nat : ss[1] < ss[2]}
  BY DEF OpToRel
<1>3. \A n \in S : m <= n
  <2> HIDE DEF Less
  <2>1. \A n \in S : ~(n < m)
    BY <1>1, <1>2
  <2> QED
    BY <2>1
<1> QED
  BY <1>1, <1>3 DEF Min

\* A table has finitely many numbers.
IsTable(t) ==
  /\ DOMAIN t \subseteq Nat /\ IsFiniteSet(DOMAIN t)
  /\ t = [n \in DOMAIN t |-> t[n]]

LEMMA LowestIsFree ==
  ASSUME NEW t, IsTable(t)
  PROVE  /\ Lowest(t) \in Nat \ DOMAIN t
         /\ \A n \in Nat : n < Lowest(t) => n \in DOMAIN t
<1> DEFINE S == 0..Cardinality(DOMAIN t) \ DOMAIN t
<1>1. Cardinality(DOMAIN t) \in Nat
  BY FS_CardinalityType DEF IsTable
<1>2. S # {}
  <2>1. SUFFICES ASSUME 0..Cardinality(DOMAIN t) \subseteq DOMAIN t PROVE FALSE
    OBVIOUS
  <2>2. IsFiniteSet(0..Cardinality(DOMAIN t))
        /\ Cardinality(0..Cardinality(DOMAIN t)) = Cardinality(DOMAIN t) + 1
    BY <1>1, FS_Interval
  <2>3. Cardinality(0..Cardinality(DOMAIN t)) <= Cardinality(DOMAIN t)
    BY <2>1, FS_Subset DEF IsTable
  <2> QED
    BY <1>1, <2>2, <2>3
<1>3. Lowest(t) \in S /\ \A n \in S : Lowest(t) <= n
  BY <1>1, <1>2, MinOfNats DEF Lowest
<1> QED
  BY <1>1, <1>3

\* A file is opened beside those that are open.
Beside(t, f, u) ==
  /\ IsTable(u)
  /\ DOMAIN u = DOMAIN t \cup {Lowest(t)}
  /\ u[Lowest(t)] = f
  /\ \A n \in DOMAIN t : u[n] = t[n]

LEMMA OneOpened ==
  ASSUME NEW t, IsTable(t), NEW f
  PROVE  Beside(t, f, Opened(t, f))
<1>1. Lowest(t) \in Nat \ DOMAIN t
  BY LowestIsFree
<1>2. IsFiniteSet(DOMAIN t \cup {Lowest(t)})
  BY FS_AddElement DEF IsTable
<1>3. Opened(t, f) = [n \in DOMAIN t \cup {Lowest(t)} |-> IF n = Lowest(t) THEN f ELSE t[n]]
  BY <1>1 DEF Opened
<1> QED
  BY <1>1, <1>2, <1>3 DEF IsTable, Beside

LEMMA SomeShut ==
  ASSUME NEW t, IsTable(t), NEW numbers
  PROVE  /\ IsTable(Shut(t, numbers))
         /\ DOMAIN Shut(t, numbers) = DOMAIN t \ numbers
         /\ \A n \in DOMAIN t \ numbers : Shut(t, numbers)[n] = t[n]
<1>1. IsFiniteSet(DOMAIN t \ numbers)
  BY FS_Subset DEF IsTable
<1> QED
  BY <1>1 DEF IsTable, Shut, Restrict

LEMMA NothingOpen == IsTable(NoFiles) /\ DOMAIN NoFiles = {}
BY FS_EmptySet DEF IsTable, NoFiles

\* Induction up to a number, over the set of those a fact holds of.
LEMMA UpTo ==
  ASSUME NEW N \in Nat, NEW G, 0 \in G, \A k \in 0..(N - 1) : k \in G => k + 1 \in G
  PROVE  0..N \subseteq G
<1> DEFINE Bad == 0..N \ G
<1>1. SUFFICES ASSUME Bad # {} PROVE FALSE
  OBVIOUS
<1>2. Min(Bad) \in Bad /\ \A n \in Bad : Min(Bad) <= n
  BY <1>1, MinOfNats
<1> DEFINE m == Min(Bad)
<1>3. m \in 1..N
  BY <1>2
<1>4. m - 1 \in 0..(N - 1) /\ m - 1 \in G
  BY <1>2, <1>3
<1>5. m \in G
  BY <1>3, <1>4
<1> QED
  BY <1>2, <1>5

\* Files opened one after the other.
LEMMA OpeningStep ==
  ASSUME NEW t, NEW files, Len(files) \in Nat
  PROVE  /\ Opening(t, files)[0] = t
         /\ \A k \in 1..Len(files) : Opening(t, files)[k] = Opened(Opening(t, files)[k - 1], files[k])
<1> DEFINE N == Len(files)
           Defined(f, k) == f = [i \in 0..k |-> IF i = 0 THEN t ELSE Opened(f[i - 1], files[i])]
           G == {k \in 0..N : \E f : Defined(f, k)}
<1>1. 0 \in G
  <2>1. Defined([i \in 0..0 |-> t], 0)
    OBVIOUS
  <2> HIDE DEF Defined
  <2> QED
    BY <2>1
<1>2. ASSUME NEW k \in 0..(N - 1), k \in G PROVE k + 1 \in G
  <2>1. PICK f : Defined(f, k)
    BY <1>2
  <2> DEFINE g == [i \in 0..(k + 1) |-> IF i = k + 1 THEN Opened(f[k], files[k + 1]) ELSE f[i]]
  <2>2. \A i \in 0..k : g[i] = f[i]
    OBVIOUS
  <2>3. \A i \in 0..(k + 1) : g[i] = IF i = 0 THEN t ELSE Opened(g[i - 1], files[i])
    <3>1. g[0] = t
      BY <2>1, <2>2
    <3>2. ASSUME NEW i \in 1..k PROVE g[i] = Opened(g[i - 1], files[i])
      BY <2>1, <2>2
    <3>3. g[k + 1] = Opened(g[k], files[k + 1])
      BY <2>2
    <3> HIDE DEF g
    <3> QED
      BY <3>1, <3>2, <3>3
  <2>4. Defined(g, k + 1)
    BY <2>3
  <2> HIDE DEF Defined, g
  <2> QED
    BY <2>4
<1>3. N \in G
  <2> HIDE DEF G
  <2>1. 0..N \subseteq G
    BY <1>1, <1>2, UpTo
  <2> QED
    BY <2>1
<1>4. Defined(Opening(t, files), N)
  BY <1>3 DEF Opening
<1> HIDE DEF N
<1>5. \A k \in 0..N :
        Opening(t, files)[k] = IF k = 0 THEN t ELSE Opened(Opening(t, files)[k - 1], files[k])
  BY <1>4
<1> QED
  BY <1>5 DEF N

AllBeside(t, files, k, after) ==
  /\ IsTable(after[k])
  /\ DOMAIN after[k] = DOMAIN t \cup {Lowest(after[j]) : j \in 0..(k - 1)}
  /\ \A n \in DOMAIN t : after[k][n] = t[n]
  /\ \A j \in 0..(k - 1) :
       /\ Lowest(after[j]) \in DOMAIN after[k] \ DOMAIN t
       /\ after[k][Lowest(after[j])] = files[j + 1]

LEMMA SeveralOpened ==
  ASSUME NEW t, IsTable(t), NEW files, Len(files) \in Nat, NEW k \in 0..Len(files)
  PROVE  AllBeside(t, files, k, Opening(t, files))
<1> DEFINE N == Len(files)
           after == Opening(t, files)
           Held(n) == AllBeside(t, files, n, after)
           G == {n \in 0..N : Held(n)}
<1>1. after[0] = t /\ \A n \in 1..N : after[n] = Opened(after[n - 1], files[n])
  BY OpeningStep
<1> HIDE DEF after
<1> USE DEF AllBeside
<1>2. 0 \in G
  BY <1>1
<1>3. ASSUME NEW n \in 0..(N - 1), n \in G PROVE n + 1 \in G
  <2>1. after[n + 1] = Opened(after[n], files[n + 1])
    BY <1>1
  <2>2. Held(n)
    BY <1>3
  <2>9. IsTable(after[n])
    BY <2>2
  <2> DEFINE new == Lowest(after[n])
  <2>3. /\ IsTable(after[n + 1])
        /\ DOMAIN after[n + 1] = DOMAIN after[n] \cup {new}
        /\ after[n + 1][new] = files[n + 1]
        /\ \A m \in DOMAIN after[n] : after[n + 1][m] = after[n][m]
    <3> DEFINE s == after[n]
               f == files[n + 1]
    <3>1. IsTable(s)
      BY <2>9
    <3> HIDE DEF s, f
    <3>2. Beside(s, f, Opened(s, f))
      BY <3>1, OneOpened
    <3> QED
      BY <2>1, <3>2 DEF s, f, Beside
  <2>4. new \notin DOMAIN after[n]
    BY <2>2, LowestIsFree
  <2>5. 0..((n + 1) - 1) = 0..(n - 1) \cup {n}
    OBVIOUS
  <2>6. DOMAIN after[n + 1] = DOMAIN t \cup {Lowest(after[j]) : j \in 0..((n + 1) - 1)}
    BY <2>2, <2>3, <2>5
  <2>7. \A m \in DOMAIN t : after[n + 1][m] = t[m]
    BY <2>2, <2>3
  <2>8. ASSUME NEW j \in 0..((n + 1) - 1)
        PROVE  /\ Lowest(after[j]) \in DOMAIN after[n + 1] \ DOMAIN t
               /\ after[n + 1][Lowest(after[j])] = files[j + 1]
    BY <2>2, <2>3, <2>4, <2>5
  <2>10. Held(n + 1)
    BY <2>3, <2>6, <2>7, <2>8
  <2> HIDE DEF Held
  <2> QED
    BY <2>10
<1>4. k \in G
  <2> HIDE DEF G
  <2> QED
    BY <1>2, <1>3, UpTo
<1> QED
  BY <1>4 DEF after

-----------------------------------------------------------------------------
(***************************************************************************)
(* The invariant, gpiod by gpiod.                                           *)
(***************************************************************************)
HeldKeys == {"direction", "edge", "active_low", "value"}
SysKeys == {"sysfs", "export", "unexport"}

Early == {"off", "config", "tabs", "chips"}
InPin == {"open", "direction", "edge", "active_low", "value"}
AtPins == {"pin", "bind", "loop", "clean"} \cup InPin
Leaving == {"clean", "cleansysfs", "cleanchips", "exit", "gone"}

KindAt(p, n) == table[p][n].kind
OfAt(p, n) == table[p][n].of
Has(p, n, kind) == n \in DOMAIN table[p] /\ KindAt(p, n) = kind

PcTyped(p) == pc[p] \in {"config", "tabs", "chips", "sysfs", "exit"} \cup {"off", "cleansysfs", "cleanchips", "gone"} \cup AtPins
TableTyped(p) == IsTable(table[p]) /\ \A n \in DOMAIN table[p] : table[p][n] \in [kind : Kinds, of : Nat, live : BOOLEAN]
PinsRead(p) == pins[p] \in {<<>>, PinsOf(Text(p), setup.uapi)}
ListTyped(p) ==
  /\ gp_list[p] \subseteq DOMAIN pins[p] /\ todo[p] \subseteq DOMAIN pins[p]
  /\ pc[p] \in Early \cup {"sysfs"} => gp_list[p] = DOMAIN pins[p] /\ todo[p] = {}
  /\ pc[p] \in AtPins => todo[p] \subseteq gp_list[p]
  /\ pc[p] \in {"bind", "loop"} => todo[p] = {}
  /\ pc[p] \in InPin => todo[p] # {} /\ Pin(p).facility = "sysfs"
HeldTyped(p) == held[p] \in [DOMAIN pins[p] -> [HeldKeys -> Int]]
SysTyped(p) == sys[p] \in [SysKeys -> Int]
ChipsTyped(p) ==
  /\ DOMAIN chips[p] \subseteq DOMAIN Chips
  /\ \A i \in DOMAIN chips[p] :
       /\ chips[p][i].base = Chips[i].base /\ chips[p][i].ngpio = Chips[i].ngpio
       /\ setup.uapi => chips[p][i].name = Chips[i].name
  /\ pc[p] \in Early => chips[p] = <<>>
ConfigRead(p) == pc[p] \notin {"off", "config", "exit", "gone"} => LoadOutcome(Text(p)) = "ok"

\* Main's own descriptors have the lowest numbers, and while pins are open the
\* number four is nothing that could be written to with effect.
LowNumbers(p) ==
  /\ Up(p) => \A n \in 0..3 : n \in DOMAIN table[p] /\ KindAt(p, n) \in {"std", "signal", "log"}
  /\ pc[p] \in AtPins => 4 \in DOMAIN table[p] /\ KindAt(p, 4) \in {"std", "signal", "log", "chip", "sysfs"}

EarlyFiles(p) ==
  \A n \in DOMAIN table[p] :
    /\ pc[p] # "off"
    /\ pc[p] \in Early => KindAt(p, n) \in {"std", "signal", "log"}
    /\ pc[p] = "sysfs" => KindAt(p, n) \in {"std", "signal", "log", "chip"}

SysOwn(p) ==
  pc[p] \notin {"cleanchips", "exit", "gone"} =>
    \A k \in SysKeys : sys[p][k] # -1 => Has(p, sys[p][k], k)

ChipsOwn(p) ==
  setup.uapi /\ pc[p] \notin {"exit", "gone"} =>
    \A i \in DOMAIN chips[p] : Has(p, chips[p][i].fd, "chip") /\ OfAt(p, chips[p][i].fd) = i

\* Without uapi a chip keeps a number that soon is that of the sysfs directory,
\* or of the log if that directory cannot be opened.
ChipsStale(p) ==
  ~setup.uapi =>
    \A i \in DOMAIN chips[p] :
      LET fd == chips[p][i].fd IN
      /\ fd \notin 0..3
      /\ pc[p] = "sysfs" => fd = Lowest(table[p])
      /\ pc[p] \in AtPins => fd = sys[p]["sysfs"]
      /\ pc[p] = "cleansysfs" => fd = sys[p]["sysfs"] \/ fd \notin DOMAIN table[p] \/ KindAt(p, fd) = "log"
      /\ pc[p] = "cleanchips" => fd \notin DOMAIN table[p] \/ KindAt(p, fd) = "log"

DirOwn(p) ==
  pc[p] \in InPin \ {"open"} => Has(p, gpio_dir[p], "gpio") /\ OfAt(p, gpio_dir[p]) = System(p)

\* Pins whose descriptors gpiod counts on.
Kept(p) ==
  IF pc[p] \in Early \cup {"sysfs"} \cup AtPins
  THEN {i \in gp_list[p] : pc[p] = "clean" => i \in todo[p]} ELSE {}

ChipLines(pin) ==
  {Chips[c].base + pin.local :
     c \in {d \in DOMAIN Chips : Chips[d].name = pin.gpiochip /\ pin.local \in 0..(Chips[d].ngpio - 1)}}

\* Number n is the pin's file `kind`, or its event descriptor.
Fits(t, pin, n, kind) ==
  /\ n \in DOMAIN t
  /\ IF pin.facility = "sysfs"
     THEN t[n].kind = kind /\ t[n].of = pin.system
     ELSE t[n].kind = "lineevent" /\ t[n].of \in ChipLines(pin)

HeldOwn(p) ==
  \A i \in Kept(p), k \in HeldKeys :
    held[p][i][k] > 0 => Fits(table[p], pins[p][i], held[p][i][k], k)

HeldApart(p) ==
  \A i, j \in Kept(p), k, m \in HeldKeys :
    held[p][i][k] > 0 /\ held[p][i][k] = held[p][j][m] => i = j

ValueHeld(p) ==
  \A i \in Kept(p) :
    pc[p] \in AtPins /\ (pc[p] = "clean" \/ i \notin todo[p]) => held[p][i]["value"] > 0

Local(p) ==
  /\ PcTyped(p) /\ TableTyped(p) /\ PinsRead(p) /\ ListTyped(p) /\ HeldTyped(p) /\ SysTyped(p) /\ ChipsTyped(p)
  /\ ConfigRead(p) /\ LowNumbers(p) /\ EarlyFiles(p) /\ SysOwn(p) /\ ChipsOwn(p) /\ ChipsStale(p)
  /\ DirOwn(p) /\ HeldOwn(p) /\ HeldApart(p) /\ ValueHeld(p)

\* What is live is exported, and what is not has had its line unexported by a
\* gpiod on its way out.
LiveIsExported(p) ==
  \A n \in DOMAIN table[p] :
    IF table[p][n].live
    THEN KindAt(p, n) \in LineFiles => OfAt(p, n) \in exported
    ELSE /\ KindAt(p, n) \in LineFiles
         /\ \E q \in Proc :
              /\ pc[q] \in Leaving
              /\ \E j \in DOMAIN pins[q] : pins[q][j].facility = "sysfs" /\ pins[q][j].system = OfAt(p, n)

Shaped ==
  /\ setup \in Setups
  /\ exported \subseteq Line /\ actlow \subseteq exported
  /\ faults \in [Proc -> Nat]
  /\ DOMAIN pc = Proc /\ DOMAIN todo = Proc /\ DOMAIN pins = Proc /\ DOMAIN gp_list = Proc /\ DOMAIN table = Proc
  /\ gpio_dir \in [Proc -> Int] /\ DOMAIN held = Proc /\ DOMAIN chips = Proc /\ DOMAIN sys = Proc

IInv == Shaped /\ \A p \in Proc : Local(p) /\ LiveIsExported(p)

-----------------------------------------------------------------------------
(***************************************************************************)
(* What a step leaves alone.                                                *)
(***************************************************************************)
\* Nothing of q's memory changes.
SameMemory(q) ==
  /\ pc'[q] = pc[q] /\ todo'[q] = todo[q] /\ pins'[q] = pins[q] /\ gp_list'[q] = gp_list[q]
  /\ gpio_dir'[q] = gpio_dir[q] /\ held'[q] = held[q] /\ chips'[q] = chips[q] /\ sys'[q] = sys[q]

\* A table with the same numbers for the same files.
Alike(t, u) ==
  /\ IsTable(u) /\ DOMAIN u = DOMAIN t
  /\ \A n \in DOMAIN t :
       /\ u[n] \in [kind : Kinds, of : Nat, live : BOOLEAN]
       /\ u[n].kind = t[n].kind /\ u[n].of = t[n].of

LEMMA AlikeItself ==
  ASSUME NEW q \in Proc, TableTyped(q)
  PROVE  Alike(table[q], table[q])
BY DEF TableTyped, Alike

LEMMA OthersKept ==
  ASSUME NEW q \in Proc, Local(q), setup' = setup, SameMemory(q), Alike(table[q], table'[q])
  PROVE  Local(q)'
<1> USE DEF Local, SameMemory
<1>1. DOMAIN table'[q] = DOMAIN table[q]
      /\ \A n \in DOMAIN table[q] : table'[q][n].kind = table[q][n].kind /\ table'[q][n].of = table[q][n].of
  BY DEF Alike
<1>2. Text(q)' = Text(q) /\ Index(q)' = Index(q) /\ Pin(q)' = Pin(q) /\ System(q)' = System(q) /\ Kept(q)' = Kept(q)
  BY DEF Text, Index, Interrupting, Pin, System, Kept
<1>3. PcTyped(q)' /\ PinsRead(q)' /\ ListTyped(q)' /\ HeldTyped(q)' /\ SysTyped(q)' /\ ChipsTyped(q)' /\ ConfigRead(q)'
  BY <1>2 DEF PcTyped, PinsRead, ListTyped, HeldTyped, SysTyped, ChipsTyped, ConfigRead
<1>4. TableTyped(q)'
  BY DEF TableTyped, Alike
<1>5. LowNumbers(q)' /\ EarlyFiles(q)'
  BY <1>1 DEF LowNumbers, EarlyFiles, KindAt, Up
<1>6. SysOwn(q)' /\ ChipsOwn(q)' /\ DirOwn(q)'
  BY <1>1, <1>2 DEF SysOwn, ChipsOwn, DirOwn, KindAt, OfAt, Has
<1>7. ChipsStale(q)'
  <2>1. Lowest(table[q])' = Lowest(table[q])
    BY <1>1 DEF Lowest
  <2> QED
    BY <1>1, <2>1 DEF ChipsStale, KindAt
<1>8. HeldOwn(q)'
  BY <1>1, <1>2 DEF HeldOwn, Fits
<1>9. HeldApart(q)' /\ ValueHeld(q)'
  BY <1>2 DEF HeldApart, ValueHeld
<1> QED
  BY <1>3, <1>4, <1>5, <1>6, <1>7, <1>8, <1>9

Others(p) == \A q \in Proc \ {p} : SameMemory(q) /\ table'[q] = table[q]

\* What has been live or closed by a gpiod on its way out is still, and a file
\* of a line is opened only while the line is exported.
LEMMA LiveKept ==
  ASSUME \A q \in Proc : LiveIsExported(q),
         exported \subseteq exported',
         \A q \in Proc : pc[q] \in Leaving => pc'[q] \in Leaving /\ pins'[q] = pins[q],
         \A q \in Proc : \A n \in DOMAIN table'[q] :
           \/ n \in DOMAIN table[q] /\ table'[q][n] = table[q][n]
           \/ table'[q][n].live /\ (table'[q][n].kind \in LineFiles => table'[q][n].of \in exported')
  PROVE  \A q \in Proc : LiveIsExported(q)'
<1> SUFFICES ASSUME NEW q \in Proc, NEW n \in DOMAIN table'[q]
             PROVE  IF table'[q][n].live
                    THEN table'[q][n].kind \in LineFiles => table'[q][n].of \in exported'
                    ELSE /\ table'[q][n].kind \in LineFiles
                         /\ \E r \in Proc :
                              /\ pc'[r] \in Leaving
                              /\ \E j \in DOMAIN pins'[r] : pins'[r][j].facility = "sysfs"
                                                         /\ pins'[r][j].system = table'[q][n].of
  BY DEF LiveIsExported, KindAt, OfAt
<1>1. CASE n \in DOMAIN table[q] /\ table'[q][n] = table[q][n]
  BY <1>1 DEF LiveIsExported, KindAt, OfAt
<1>2. CASE table'[q][n].live /\ (table'[q][n].kind \in LineFiles => table'[q][n].of \in exported')
  BY <1>2
<1> QED
  BY <1>1, <1>2

\* What a step of p has to show.
LEMMA StepOf ==
  ASSUME IInv, NEW p \in Proc, setup' = setup, Others(p), Shaped', Local(p)',
         exported \subseteq exported',
         pc[p] \in Leaving => pc'[p] \in Leaving /\ pins'[p] = pins[p],
         \A n \in DOMAIN table'[p] :
           \/ n \in DOMAIN table[p] /\ table'[p][n] = table[p][n]
           \/ table'[p][n].live /\ (table'[p][n].kind \in LineFiles => table'[p][n].of \in exported')
  PROVE  IInv'
<1>1. ASSUME NEW q \in Proc PROVE Local(q)'
  <2>1. CASE q = p
    BY <2>1
  <2>2. CASE q # p
    <3>1. Local(q) /\ SameMemory(q) /\ table'[q] = table[q] /\ TableTyped(q)
      BY <2>2 DEF IInv, Others, Local
    <3>2. Alike(table[q], table'[q])
      BY <3>1, AlikeItself
    <3> QED
      BY <3>1, <3>2, OthersKept
  <2> QED
    BY <2>1, <2>2
<1>2. \A q \in Proc : pc[q] \in Leaving => pc'[q] \in Leaving /\ pins'[q] = pins[q]
  BY DEF Others, SameMemory
<1>3. \A q \in Proc : \A n \in DOMAIN table'[q] :
        \/ n \in DOMAIN table[q] /\ table'[q][n] = table[q][n]
        \/ table'[q][n].live /\ (table'[q][n].kind \in LineFiles => table'[q][n].of \in exported')
  BY DEF Others
<1>4. \A q \in Proc : LiveIsExported(q)'
  BY <1>2, <1>3, LiveKept DEF IInv
<1> QED
  BY <1>1, <1>4 DEF IInv

\* Only descriptors are opened, and for no line.
FileType == [kind : Kinds, of : Nat, live : BOOLEAN]
Grows(t, u) ==
  /\ IsTable(u) /\ DOMAIN t \subseteq DOMAIN u
  /\ \A n \in DOMAIN t : u[n] = t[n]
  /\ \A n \in DOMAIN u \ DOMAIN t : u[n] \in FileType /\ u[n].live

LEMMA FileTyped ==
  ASSUME NEW kind \in Kinds, NEW of \in Nat
  PROVE  File(kind, of) \in FileType /\ File(kind, of).kind = kind /\ File(kind, of).of = of /\ File(kind, of).live
BY DEF File, FileType

LEMMA SyslogGrows ==
  ASSUME NEW t, IsTable(t)
  PROVE  /\ Grows(t, Syslog(t))
         /\ \A n \in DOMAIN Syslog(t) \ DOMAIN t : Syslog(t)[n] = File("log", 0) /\ n = Lowest(t)
<1>1. CASE \E n \in DOMAIN t : t[n].kind = "log"
  BY <1>1 DEF Syslog, Grows
<1>2. CASE ~\E n \in DOMAIN t : t[n].kind = "log"
  <2> DEFINE f == File("log", 0)
  <2>1. f \in FileType /\ f.live
    BY FileTyped DEF Kinds
  <2> HIDE DEF f
  <2>2. Syslog(t) = Opened(t, f)
    BY <1>2 DEF Syslog, f
  <2>3. Beside(t, f, Opened(t, f))
    BY OneOpened
  <2> QED
    BY <2>1, <2>2, <2>3 DEF Grows, f, Beside
<1> QED
  BY <1>1, <1>2

LEMMA OpenedGrows ==
  ASSUME NEW t, IsTable(t), NEW kind \in Kinds, NEW of \in Nat
  PROVE  LET u == Opened(t, File(kind, of)) IN
         /\ Grows(t, u)
         /\ DOMAIN u = DOMAIN t \cup {Lowest(t)}
         /\ u[Lowest(t)] = File(kind, of)
         /\ Lowest(t) \in Nat \ DOMAIN t
<1> DEFINE f == File(kind, of)
<1>1. f \in FileType /\ f.live
  BY FileTyped
<1> HIDE DEF f
<1>2. Beside(t, f, Opened(t, f))
  BY OneOpened
<1>3. Lowest(t) \in Nat \ DOMAIN t
  BY LowestIsFree
<1>4. Grows(t, Opened(t, f))
  BY <1>1, <1>2 DEF Grows, Beside
<1> QED
  BY <1>2, <1>3, <1>4 DEF f, Beside

LEMMA GrowsTwice ==
  ASSUME NEW t, NEW u, NEW v, Grows(t, u), Grows(u, v)
  PROVE  Grows(t, v)
BY DEF Grows

LEMMA GrownTyped ==
  ASSUME NEW p \in Proc, TableTyped(p), Grows(table[p], table'[p])
  PROVE  TableTyped(p)'
BY DEF TableTyped, Grows, FileType

LEMMA PinPositions ==
  ASSUME IInv, NEW p \in Proc
  PROVE  DOMAIN pins[p] \subseteq Nat /\ DOMAIN Text(p).gpio \subseteq Nat
<1>1. setup \in Setups /\ PinsRead(p)
  BY DEF IInv, Shaped, Local
<1>2. \A s \in Setups : \A q \in Proc : DOMAIN s.text[q].gpio \subseteq Nat
  BY SetupAssumption DEF SetupAssumption
<1>3. DOMAIN Text(p).gpio \subseteq Nat
  BY <1>1, <1>2 DEF Text
<1> QED
  BY <1>1, <1>3 DEF PinsRead, PinsOf

\* The next pin is one that is left.
LEMMA IndexIn ==
  ASSUME IInv, NEW p \in Proc, todo[p] # {}
  PROVE  Index(p) \in todo[p] /\ Index(p) \in DOMAIN pins[p]
<1> DEFINE polled == {i \in todo[p] : pc[p] = "clean" /\ ~Interrupting(p, i)}
           left == IF polled = {} THEN todo[p] ELSE polled
<1>1. todo[p] \subseteq DOMAIN pins[p] /\ todo[p] \subseteq Nat
  BY PinPositions DEF IInv, Local, ListTyped
<1>2. left \subseteq todo[p] /\ left # {} /\ left \subseteq Nat
  BY <1>1
<1> HIDE DEF left
<1>3. Min(left) \in left
  BY <1>2, MinOfNats
<1>4. Index(p) = Min(left)
  BY DEF Index, left
<1> QED
  BY <1>1, <1>2, <1>3, <1>4

LEMMA SameIndex ==
  ASSUME NEW p \in Proc, todo'[p] = todo[p], pins'[p] = pins[p], pc[p] # "clean", pc'[p] # "clean"
  PROVE  Index(p)' = Index(p) /\ Pin(p)' = Pin(p) /\ System(p)' = System(p)
<1>1. {i \in todo[p] : pc[p] = "clean" /\ ~Interrupting(p, i)} = {}
  OBVIOUS
<1>2. {i \in todo'[p] : pc'[p] = "clean" /\ ~Interrupting(p, i)'} = {}
  OBVIOUS
<1>3. Index(p)' = Index(p)
  BY <1>1, <1>2 DEF Index
<1> QED
  BY <1>3 DEF Pin, System

\* What a gpiod has for itself: nothing of it is a pin's.
Settled(p) ==
  /\ PcTyped(p) /\ TableTyped(p) /\ PinsRead(p) /\ SysTyped(p) /\ ChipsTyped(p) /\ ConfigRead(p)
  /\ LowNumbers(p) /\ EarlyFiles(p) /\ SysOwn(p) /\ ChipsOwn(p) /\ ChipsStale(p)

MainKinds == {"std", "signal", "log", "chip", "sysfs", "export", "unexport"}

LEMMA SettledKept ==
  ASSUME NEW p \in Proc, Settled(p), pc[p] \in AtPins, pc'[p] \in AtPins \cup {"cleansysfs"},
         setup' = setup, pins'[p] = pins[p], chips'[p] = chips[p], sys'[p] = sys[p],
         TableTyped(p)',
         \A n \in DOMAIN table[p] :
           table[p][n].kind \in MainKinds => n \in DOMAIN table'[p] /\ table'[p][n] = table[p][n]
  PROVE  Settled(p)'
<1> USE DEF Settled
<1>1. Text(p)' = Text(p)
  BY DEF Text
<1>2. PcTyped(p)' /\ PinsRead(p)' /\ SysTyped(p)'
  BY <1>1 DEF PcTyped, PinsRead, SysTyped
<1>3. ChipsTyped(p)'
  BY DEF ChipsTyped, AtPins, InPin, Early
<1>4. ConfigRead(p)'
  BY <1>1 DEF ConfigRead, AtPins, InPin
<1>5. LowNumbers(p)' /\ EarlyFiles(p)'
  BY DEF LowNumbers, EarlyFiles, AtPins, InPin, Early, KindAt, Up, MainKinds
<1>6. SysOwn(p)'
  BY DEF SysOwn, AtPins, InPin, KindAt, Has, MainKinds, SysKeys
<1>7. ChipsOwn(p)'
  BY DEF ChipsOwn, AtPins, InPin, KindAt, OfAt, Has, MainKinds
<1>8. ChipsStale(p)'
  BY DEF ChipsStale, AtPins, InPin
<1> QED
  BY <1>2, <1>3, <1>4, <1>5, <1>6, <1>7, <1>8

\* Pins keep the numbers they have.
LEMMA HeldKept ==
  ASSUME NEW p \in Proc, HeldOwn(p), HeldApart(p), pins'[p] = pins[p],
         Kept(p)' \subseteq Kept(p),
         \A i \in Kept(p)' : held'[p][i] = held[p][i],
         \A i \in Kept(p)', k \in HeldKeys : held[p][i][k] > 0 /\ held[p][i][k] \in DOMAIN table[p] =>
           /\ held[p][i][k] \in DOMAIN table'[p]
           /\ table'[p][held[p][i][k]].kind = table[p][held[p][i][k]].kind
           /\ table'[p][held[p][i][k]].of = table[p][held[p][i][k]].of
  PROVE  HeldOwn(p)' /\ HeldApart(p)'
<1>1. HeldOwn(p)'
  BY DEF HeldOwn, Fits
<1>2. HeldApart(p)'
  BY DEF HeldApart
<1> QED
  BY <1>1, <1>2

\* A pin gets a number that was nobody's, or none.
LEMMA HeldNew ==
  ASSUME NEW p \in Proc, HeldOwn(p), HeldApart(p), HeldTyped(p), ListTyped(p), pins'[p] = pins[p],
         Kept(p)' \subseteq Kept(p),
         NEW x \in DOMAIN pins[p], NEW kk \in HeldKeys, NEW v \in Int,
         DOMAIN held = Proc, held' = [held EXCEPT ![p][x][kk] = v],
         v > 0 => v \notin DOMAIN table[p],
         v > 0 /\ x \in Kept(p)' => Fits(table'[p], pins[p][x], v, kk),
         \A n \in DOMAIN table[p] :
           table[p][n].kind # "gpio" => n \in DOMAIN table'[p] /\ table'[p][n] = table[p][n]
  PROVE  HeldOwn(p)' /\ HeldApart(p)' /\ HeldTyped(p)'
<1>1. \A i \in DOMAIN pins[p], k \in HeldKeys :
        held'[p][i][k] = IF i = x /\ k = kk THEN v ELSE held[p][i][k]
  BY DEF HeldTyped
<1>2. Kept(p)' \subseteq DOMAIN pins[p]
  BY DEF Kept, ListTyped
<1>3. HeldTyped(p)'
  <2>1. held'[p] = [held[p] EXCEPT ![x] = [held[p][x] EXCEPT ![kk] = v]]
    BY DEF HeldTyped
  <2>2. [held[p][x] EXCEPT ![kk] = v] \in [HeldKeys -> Int]
    BY DEF HeldTyped
  <2> QED
    BY <2>1, <2>2 DEF HeldTyped
<1>4. ASSUME NEW i \in Kept(p)', NEW k \in HeldKeys, held[p][i][k] > 0
      PROVE  held[p][i][k] \in DOMAIN table[p] /\ Fits(table'[p], pins[p][i], held[p][i][k], k)
  BY <1>4 DEF HeldOwn, Fits, HeldKeys
<1>5. HeldOwn(p)'
  <2> SUFFICES ASSUME NEW i \in Kept(p)', NEW k \in HeldKeys, held'[p][i][k] > 0
               PROVE  Fits(table'[p], pins[p][i], held'[p][i][k], k)
    BY DEF HeldOwn
  <2>1. CASE i = x /\ k = kk
    BY <1>1, <1>2, <2>1
  <2>2. CASE ~(i = x /\ k = kk)
    BY <1>1, <1>2, <1>4, <2>2
  <2> QED
    BY <2>1, <2>2
<1>6. HeldApart(p)'
  <2> SUFFICES ASSUME NEW i \in Kept(p)', NEW j \in Kept(p)', NEW k \in HeldKeys, NEW m \in HeldKeys,
                      held'[p][i][k] > 0, held'[p][i][k] = held'[p][j][m], i # j
               PROVE  FALSE
    BY DEF HeldApart
  <2>1. CASE i = x /\ k = kk
    BY <1>1, <1>2, <1>4, <2>1
  <2>2. CASE j = x /\ m = kk
    BY <1>1, <1>2, <1>4, <2>2
  <2>3. CASE ~(i = x /\ k = kk) /\ ~(j = x /\ m = kk)
    BY <1>1, <1>2, <2>3 DEF HeldApart
  <2> QED
    BY <2>1, <2>2, <2>3
<1> QED
  BY <1>3, <1>5, <1>6

LEMMA LocalIs ==
  ASSUME NEW p \in Proc
  PROVE  Local(p) <=> /\ Settled(p) /\ ListTyped(p) /\ HeldTyped(p) /\ DirOwn(p)
                      /\ HeldOwn(p) /\ HeldApart(p) /\ ValueHeld(p)
BY DEF Local, Settled

-----------------------------------------------------------------------------
(***************************************************************************)
(* Steps of init_gpio_pins.                                                 *)
(***************************************************************************)
\* The pin at hand is gone on with, or done with: dropped or with its value.
GoesOn(p) ==
  /\ pc'[p] \in InPin /\ Pin(p).facility = "sysfs"
  /\ todo'[p] = todo[p] /\ gp_list'[p] = gp_list[p]
DoneWith(p) ==
  /\ pc'[p] = "pin" /\ todo'[p] = todo[p] \ {Index(p)}
  /\ \/ gp_list'[p] = gp_list[p] \ {Index(p)}
     \/ gp_list'[p] = gp_list[p] /\ held'[p][Index(p)]["value"] > 0

LEMMA PinStep ==
  ASSUME IInv, NEW p \in Proc, pc[p] \in {"pin"} \cup InPin, todo[p] # {},
         setup' = setup, pins'[p] = pins[p], chips'[p] = chips[p], sys'[p] = sys[p],
         GoesOn(p) \/ DoneWith(p),
         \/ held' = held
         \/ \E kk \in HeldKeys, v \in Int :
              /\ held' = [held EXCEPT ![p][Index(p)][kk] = v]
              /\ v > 0 => v \notin DOMAIN table[p] /\ Fits(table'[p], Pin(p), v, kk),
         TableTyped(p)',
         \A n \in DOMAIN table[p] :
           table[p][n].kind # "gpio" => n \in DOMAIN table'[p] /\ table'[p][n] = table[p][n],
         DirOwn(p)'
  PROVE  Local(p)'
<1> DEFINE x == Index(p)
<1>1. /\ Settled(p) /\ ListTyped(p) /\ HeldTyped(p) /\ HeldOwn(p) /\ HeldApart(p) /\ ValueHeld(p)
      /\ DOMAIN held = Proc
  BY LocalIs DEF IInv, Shaped
<1>2. x \in todo[p] /\ x \in DOMAIN pins[p]
  BY IndexIn
<1>3. pc[p] \in AtPins /\ pc'[p] \in AtPins /\ pc[p] # "clean" /\ pc'[p] # "clean"
  BY DEF GoesOn, DoneWith, AtPins, InPin
<1>4. Settled(p)'
  BY <1>1, <1>3, SettledKept DEF MainKinds
<1>5. ListTyped(p)'
  <2>1. CASE GoesOn(p)
    <3>1. Pin(p)' = Pin(p)
      BY <1>3, <2>1, SameIndex DEF GoesOn
    <3> QED
      BY <1>1, <1>3, <2>1, <3>1 DEF GoesOn, ListTyped, InPin, AtPins, Early
  <2>2. CASE DoneWith(p)
    BY <1>1, <1>3, <2>2 DEF DoneWith, ListTyped, InPin, AtPins, Early
  <2> QED
    BY <2>1, <2>2
<1>6. Kept(p)' \subseteq Kept(p) /\ Kept(p)' = gp_list'[p] /\ Kept(p) = gp_list[p]
  BY <1>3 DEF Kept, GoesOn, DoneWith
<1> HIDE DEF x
<1>7. HeldOwn(p)' /\ HeldApart(p)' /\ HeldTyped(p)' /\ \A i \in DOMAIN pins[p] : i # x => held'[p][i] = held[p][i]
  <2>1. CASE held' = held
    <3>1. \A i \in Kept(p)', k \in HeldKeys : held[p][i][k] > 0 /\ held[p][i][k] \in DOMAIN table[p] =>
            held[p][i][k] \in DOMAIN table'[p] /\ table'[p][held[p][i][k]] = table[p][held[p][i][k]]
      BY <1>1, <1>6 DEF HeldOwn, Fits, HeldKeys
    <3> QED
      BY <1>1, <1>6, <2>1, <3>1, HeldKept DEF HeldTyped
  <2>2. ASSUME NEW kk \in HeldKeys, NEW v \in Int, held' = [held EXCEPT ![p][x][kk] = v],
               v > 0 => v \notin DOMAIN table[p] /\ Fits(table'[p], Pin(p), v, kk)
        PROVE  HeldOwn(p)' /\ HeldApart(p)' /\ HeldTyped(p)'
               /\ \A i \in DOMAIN pins[p] : i # x => held'[p][i] = held[p][i]
    <3>1. Pin(p) = pins[p][x]
      BY DEF Pin, x
    <3>2. HeldOwn(p)' /\ HeldApart(p)' /\ HeldTyped(p)'
      BY <1>1, <1>2, <1>6, <2>2, <3>1, HeldNew
    <3>3. \A i \in DOMAIN pins[p] : i # x => held'[p][i] = held[p][i]
      BY <1>1, <2>2 DEF HeldTyped
    <3> QED
      BY <3>2, <3>3
  <2> QED
    BY <2>1, <2>2 DEF x
<1>8. ValueHeld(p)'
  <2> SUFFICES ASSUME NEW i \in Kept(p)', i \notin todo'[p]
               PROVE  held'[p][i]["value"] > 0
    BY <1>3 DEF ValueHeld
  <2>1. i \in Kept(p) /\ i \in DOMAIN pins[p]
    BY <1>1, <1>6 DEF ListTyped
  <2>2. CASE i \notin todo[p]
    BY <1>1, <1>2, <1>3, <1>7, <2>1, <2>2 DEF ValueHeld
  <2>3. CASE i \in todo[p]
    <3>1. DoneWith(p) /\ i = x
      BY <2>3 DEF GoesOn, DoneWith, x
    <3> QED
      BY <1>6, <3>1 DEF DoneWith, x
  <2> QED
    BY <2>2, <2>3
<1> QED
  BY <1>4, <1>5, <1>7, <1>8 DEF Local, Settled

\* Whether a call has failed or not.
LEMMA FaultsTyped ==
  ASSUME Shaped, NEW p \in Proc, Fine(p) \/ Fault(p)
  PROVE  faults' \in [Proc -> Nat]
BY DEF Shaped, Fine, Fault

LEMMA ExportKeeps ==
  ASSUME IInv, NEW p \in Proc, Export(p)
  PROVE  IInv'
<1>1. Shaped /\ Local(p) /\ TableTyped(p) /\ todo[p] # {} /\ pc[p] = "pin" /\ Pin(p).facility = "sysfs"
  BY DEF Export, AtPin, IInv, Local
<1>2. faults' \in [Proc -> Nat]
  BY <1>1, FaultsTyped DEF Export
<1>3. Others(p) /\ setup' = setup
  BY <1>1 DEF Export, Drop, NextPin, Goto, Open, kernelVars, memory, Others, SameMemory, Shaped
<1>4. exported \subseteq exported' /\ exported' \subseteq Line
  BY <1>1 DEF Export, Shaped
<1>5. Shaped'
  BY <1>1, <1>2, <1>4 DEF Shaped, Export, Drop, NextPin, Goto, Open, kernelVars, memory
<1>6. /\ Grows(table[p], table'[p])
      /\ \A n \in DOMAIN table'[p] \ DOMAIN table[p] : table'[p][n] = File("log", 0)
  <2>1. CASE table' = table
    BY <1>1, <2>1 DEF Grows, TableTyped
  <2>2. CASE table' = [table EXCEPT ![p] = Syslog(table[p])]
    BY <1>1, <2>2, SyslogGrows DEF TableTyped, Shaped
  <2> QED
    BY <2>1, <2>2 DEF Export, Drop, Open
<1>7. TableTyped(p)'
  BY <1>1, <1>6, GrownTyped
<1>8. /\ GoesOn(p) \/ DoneWith(p)
      /\ held' = held /\ pins' = pins /\ chips' = chips /\ sys' = sys
      /\ pc'[p] \in {"pin", "open"}
  BY <1>1 DEF Export, Drop, NextPin, Goto, GoesOn, DoneWith, InPin, memory, Shaped
<1>9. DirOwn(p)'
  BY <1>8 DEF DirOwn, InPin
<1>10. Local(p)'
  BY <1>1, <1>3, <1>6, <1>7, <1>8, <1>9, PinStep DEF Grows
<1>11. \A n \in DOMAIN table'[p] :
           \/ n \in DOMAIN table[p] /\ table'[p][n] = table[p][n]
           \/ table'[p][n].live /\ (table'[p][n].kind \in LineFiles => table'[p][n].of \in exported')
  BY <1>6 DEF Grows, File, LineFiles
<1> QED
  BY <1>1, <1>3, <1>4, <1>5, <1>10, <1>11, StepOf DEF Leaving

LEMMA ChipsTyping ==
  DOMAIN Chips = 1..Len(Chips) /\ Len(Chips) \in Nat
  /\ \A i \in DOMAIN Chips : Chips[i] \in [name : STRING, base : Nat, ngpio : Nat]
<1> DEFINE R == [name : STRING, base : Nat, ngpio : Nat]
<1>1. Chips \in Seq(R)
  BY MachineAssumption DEF MachineAssumption
<1> HIDE DEF R
<1>2. Len(Chips) \in Nat
  BY <1>1
<1>3. DOMAIN Chips = 1..Len(Chips)
  BY <1>1
<1>4. \A i \in DOMAIN Chips : Chips[i] \in R
  BY <1>1
<1> QED
  BY <1>2, <1>3, <1>4 DEF R

LEMMA LineIsNat == Line \subseteq Nat
BY MachineAssumption DEF MachineAssumption

LEMMA OpenDirKeeps ==
  ASSUME IInv, NEW p \in Proc, OpenDir(p)
  PROVE  IInv'
<1> DEFINE l == System(p)
           t == table[p]
<1>1. Shaped /\ Local(p) /\ TableTyped(p) /\ IsTable(t) /\ todo[p] # {} /\ pc[p] = "open" /\ Pin(p).facility = "sysfs"
  BY DEF OpenDir, IInv, Local, ListTyped, InPin, TableTyped
<1>2. faults' \in [Proc -> Nat]
  BY <1>1, FaultsTyped DEF OpenDir
<1>3. Others(p) /\ setup' = setup /\ exported' = exported
  BY <1>1 DEF OpenDir, Drop, NextPin, Goto, Open, kernelVars, Others, SameMemory, Shaped
<1>4. /\ GoesOn(p) \/ DoneWith(p)
      /\ held' = held /\ pins' = pins /\ chips' = chips /\ sys' = sys
      /\ pc'[p] \in {"pin", "direction"}
  BY <1>1 DEF OpenDir, Drop, NextPin, Goto, GoesOn, DoneWith, InPin, Shaped
<1>5. /\ Grows(t, table'[p]) /\ gpio_dir' \in [Proc -> Int]
      /\ \A n \in DOMAIN table'[p] \ DOMAIN t :
           table'[p][n] = File("log", 0) \/ (l \in exported /\ table'[p][n] = File("gpio", l))
      /\ pc'[p] = "direction" =>
           gpio_dir'[p] \in DOMAIN table'[p] /\ table'[p][gpio_dir'[p]] = File("gpio", l)
  <2>1. CASE Directory(p) /\ gpio_dir' = [gpio_dir EXCEPT ![p] = Lowest(t)] /\ Open(p, Opened(t, File("gpio", l)))
    <3>1. l \in exported /\ l \in Nat
      BY <1>1, <2>1, LineIsNat DEF Directory, Shaped
    <3>2. table'[p] = Opened(t, File("gpio", l)) /\ gpio_dir'[p] = Lowest(t)
      BY <1>1, <2>1 DEF Open, Shaped
    <3>3. "gpio" \in Kinds
      BY DEF Kinds, LineFiles
    <3> HIDE DEF t, l
    <3>4. LET u == Opened(t, File("gpio", l)) IN
          /\ Grows(t, u) /\ DOMAIN u = DOMAIN t \cup {Lowest(t)} /\ u[Lowest(t)] = File("gpio", l)
          /\ Lowest(t) \in Nat \ DOMAIN t
      BY <1>1, <3>1, <3>3, OpenedGrows
    <3>5. gpio_dir' \in [Proc -> Int]
      BY <1>1, <2>1, <3>4 DEF Shaped
    <3> QED
      BY <3>1, <3>2, <3>4, <3>5
  <2>2. CASE Drop(p, Syslog(t)) /\ gpio_dir' = gpio_dir
    <3>1. table'[p] = Syslog(t) /\ pc'[p] = "pin"
      BY <1>1, <2>2 DEF Drop, NextPin, Goto, Open, Shaped
    <3> QED
      BY <1>1, <2>2, <3>1, SyslogGrows DEF Shaped
  <2> QED
    BY <2>1, <2>2 DEF OpenDir
<1>6. Shaped'
  BY <1>1, <1>2, <1>3, <1>5 DEF Shaped, OpenDir, Drop, NextPin, Goto, Open, kernelVars
<1>7. TableTyped(p)'
  BY <1>1, <1>5, GrownTyped
<1>8. DirOwn(p)'
  <2>1. CASE pc'[p] = "direction"
    <3>1. System(p)' = l
      BY <1>1, <1>4, <2>1, SameIndex DEF GoesOn, DoneWith
    <3> QED
      BY <1>5, <2>1, <3>1 DEF DirOwn, Has, KindAt, OfAt, File
  <2>2. CASE pc'[p] = "pin"
    BY <2>2 DEF DirOwn, InPin
  <2> QED
    BY <1>4, <2>1, <2>2
<1>9. Local(p)'
  BY <1>1, <1>3, <1>4, <1>5, <1>7, <1>8, PinStep DEF Grows, InPin
<1>10. \A n \in DOMAIN table'[p] :
           \/ n \in DOMAIN table[p] /\ table'[p][n] = table[p][n]
           \/ table'[p][n].live /\ (table'[p][n].kind \in LineFiles => table'[p][n].of \in exported')
  BY <1>3, <1>5 DEF Grows, File, LineFiles
<1> QED
  BY <1>1, <1>3, <1>6, <1>9, <1>10, StepOf DEF Leaving

\* A file of the pin's directory, or none.
FileOrNone(p, kind, number, t) ==
  \/ DirThere(p) /\ number = Lowest(table[p]) /\ t \in {WithFile(p, kind), Syslog(WithFile(p, kind))}
  \/ number = -1 /\ t = Syslog(table[p])

LEMMA LineThere ==
  ASSUME IInv, NEW p \in Proc, pc[p] \in InPin \ {"open"}, DirThere(p)
  PROVE  System(p) \in exported
<1>1. Local(p) /\ DirOwn(p) /\ LiveIsExported(p)
  BY DEF IInv, Local
<1> QED
  BY <1>1 DEF DirThere, DirOwn, Has, KindAt, OfAt, LiveIsExported, LineFiles

LEMMA PinFile ==
  ASSUME IInv, NEW p \in Proc, pc[p] \in InPin \ {"open"}, NEW kind \in HeldKeys, NEW v, NEW u,
         FileOrNone(p, kind, v, u)
  PROVE  /\ Grows(table[p], u) /\ v \in Int
         /\ v > 0 => v \notin DOMAIN table[p] /\ Fits(u, Pin(p), v, kind)
         /\ v = -1 \/ v > 0
         /\ \A n \in DOMAIN u \ DOMAIN table[p] :
              u[n].live /\ u[n].kind # "gpio" /\ (u[n].kind \in LineFiles => u[n].of \in exported)
<1> DEFINE t == table[p]
           l == System(p)
<1>1. /\ Shaped /\ Local(p) /\ TableTyped(p) /\ IsTable(t) /\ todo[p] # {} /\ Pin(p).facility = "sysfs"
      /\ LowNumbers(p) /\ DirOwn(p) /\ LiveIsExported(p)
  BY DEF IInv, Local, ListTyped, InPin, TableTyped
<1>2. 0 \in DOMAIN t
  BY <1>1 DEF LowNumbers, Up, InPin
<1>3. CASE v = -1 /\ u = Syslog(t)
  BY <1>1, <1>3, SyslogGrows DEF File, LineFiles
<1>4. ASSUME DirThere(p), v = Lowest(t), u \in {WithFile(p, kind), Syslog(WithFile(p, kind))}
      PROVE  /\ Grows(t, u) /\ v \in Nat \ DOMAIN t /\ Fits(u, Pin(p), v, kind)
             /\ \A n \in DOMAIN u \ DOMAIN table[p] :
                  u[n].live /\ u[n].kind # "gpio" /\ (u[n].kind \in LineFiles => u[n].of \in exported)
  <2> DEFINE w == WithFile(p, kind)
  <2>1. l \in exported
    BY <1>4, LineThere
  <2>2. l \in Nat /\ kind \in Kinds /\ kind \in LineFiles /\ kind # "gpio"
    BY <1>1, <2>1, LineIsNat DEF Shaped, HeldKeys, Kinds, LineFiles
  <2>3. w = Opened(t, File(kind, l))
    BY DEF WithFile
  <2> HIDE DEF t, l, w
  <2>4. /\ Grows(t, w) /\ DOMAIN w = DOMAIN t \cup {v} /\ w[v] = File(kind, l) /\ v \in Nat \ DOMAIN t
    BY <1>1, <1>4, <2>2, <2>3, OpenedGrows
  <2>5. Grows(w, u) /\ \A n \in DOMAIN u \ DOMAIN w : u[n] = File("log", 0)
    <3>1. IsTable(w)
      BY <2>4 DEF Grows
    <3>2. CASE u = w
      BY <3>1, <3>2 DEF Grows
    <3>3. CASE u = Syslog(w)
      BY <3>1, <3>3, SyslogGrows
    <3> QED
      BY <1>4, <3>2, <3>3 DEF w
  <2>6. Grows(t, u)
    BY <2>4, <2>5, GrowsTwice
  <2>7. v \in DOMAIN u /\ u[v] = File(kind, l)
    BY <2>4, <2>5 DEF Grows
  <2>8. Fits(u, Pin(p), v, kind)
    BY <1>1, <2>7 DEF Fits, File, l, System
  <2>9. ASSUME NEW n \in DOMAIN u \ DOMAIN t
        PROVE  u[n].live /\ u[n].kind # "gpio" /\ (u[n].kind \in LineFiles => u[n].of \in exported)
    <3>1. CASE n = v
      BY <2>1, <2>2, <2>7, <3>1 DEF File
    <3>2. CASE n # v
      BY <2>4, <2>5, <2>9, <3>2 DEF File, LineFiles
    <3> QED
      BY <3>1, <3>2
  <2> QED
    BY <2>4, <2>6, <2>8, <2>9 DEF t
<1>5. CASE DirThere(p) /\ v = Lowest(t) /\ u \in {WithFile(p, kind), Syslog(WithFile(p, kind))}
  BY <1>2, <1>4, <1>5
<1> QED
  BY <1>3, <1>5 DEF FileOrNone

LEMMA PinFileKeeps ==
  ASSUME IInv, NEW p \in Proc, pc[p] \in InPin \ {"open"}, Others(p), Shaped',
         setup' = setup, exported' = exported, pins' = pins, chips' = chips, sys' = sys, gpio_dir' = gpio_dir,
         GoesOn(p) \/ DoneWith(p), pc'[p] # "open",
         NEW kind \in HeldKeys, NEW v, held' = [held EXCEPT ![p][Index(p)][kind] = v],
         FileOrNone(p, kind, v, table'[p])
  PROVE  IInv'
<1>1. Shaped /\ Local(p) /\ TableTyped(p) /\ todo[p] # {} /\ DirOwn(p)
  BY DEF IInv, Local, ListTyped, InPin
<1>2. /\ Grows(table[p], table'[p]) /\ v \in Int
      /\ v > 0 => v \notin DOMAIN table[p] /\ Fits(table'[p], Pin(p), v, kind)
      /\ \A n \in DOMAIN table'[p] \ DOMAIN table[p] :
           table'[p][n].live /\ (table'[p][n].kind \in LineFiles => table'[p][n].of \in exported)
  BY PinFile
<1>3. TableTyped(p)'
  BY <1>1, <1>2, GrownTyped
<1>4. DirOwn(p)'
  <2>1. CASE GoesOn(p)
    <3>1. System(p)' = System(p)
      BY <2>1, SameIndex DEF GoesOn, InPin
    <3> QED
      BY <1>1, <1>2, <3>1 DEF DirOwn, Has, KindAt, OfAt, Grows
  <2>2. CASE DoneWith(p)
    BY <2>2 DEF DoneWith, DirOwn, InPin
  <2> QED
    BY <2>1, <2>2
<1>5. Local(p)'
  BY <1>1, <1>2, <1>3, <1>4, PinStep DEF Grows, InPin
<1>6. \A n \in DOMAIN table'[p] :
        \/ n \in DOMAIN table[p] /\ table'[p][n] = table[p][n]
        \/ table'[p][n].live /\ (table'[p][n].kind \in LineFiles => table'[p][n].of \in exported')
  BY <1>2 DEF Grows
<1> QED
  BY <1>5, <1>6, StepOf DEF Leaving, InPin

LEMMA DirectionKeeps ==
  ASSUME IInv, NEW p \in Proc, Direction(p)
  PROVE  IInv'
<1>1. Shaped /\ Local(p) /\ todo[p] # {} /\ pc[p] = "direction" /\ Pin(p).facility = "sysfs"
  BY DEF Direction, IInv, Local, ListTyped, InPin
<1>2. faults' \in [Proc -> Nat]
  BY <1>1, FaultsTyped DEF Direction
<1>3. /\ Others(p) /\ setup' = setup /\ exported' = exported /\ gpio_dir' = gpio_dir
      /\ pins' = pins /\ chips' = chips /\ sys' = sys
  BY <1>1 DEF Direction, Drop, NextPin, Goto, Open, Hold, kernelVars, Others, SameMemory, Shaped
<1>4. pc'[p] # "open" /\ (GoesOn(p) \/ DoneWith(p))
  BY <1>1 DEF Direction, Drop, NextPin, Goto, GoesOn, DoneWith, InPin, kernelVars, Shaped
<1>5. \E v : held' = [held EXCEPT ![p][Index(p)]["direction"] = v] /\ FileOrNone(p, "direction", v, table'[p])
  BY <1>1 DEF Direction, Drop, Open, Hold, FileOrNone, Shaped
<1>6. Shaped'
  BY <1>1, <1>2, <1>3, <1>5 DEF Shaped, Direction, Drop, NextPin, Goto, Open, Hold, kernelVars
<1> QED
  BY <1>1, <1>3, <1>4, <1>5, <1>6, PinFileKeeps DEF InPin, HeldKeys

LEMMA EdgeFileKeeps ==
  ASSUME IInv, NEW p \in Proc, EdgeFile(p)
  PROVE  IInv'
<1>1. Shaped /\ Local(p) /\ todo[p] # {} /\ pc[p] = "edge" /\ Pin(p).facility = "sysfs"
  BY DEF EdgeFile, IInv, Local, ListTyped, InPin
<1>2. faults' \in [Proc -> Nat]
  BY <1>1, FaultsTyped DEF EdgeFile
<1>3. /\ Others(p) /\ setup' = setup /\ exported' = exported /\ gpio_dir' = gpio_dir
      /\ pins' = pins /\ chips' = chips /\ sys' = sys
  BY <1>1 DEF EdgeFile, Drop, NextPin, Goto, Open, Hold, kernelVars, Others, SameMemory, Shaped
<1>4. pc'[p] # "open" /\ (GoesOn(p) \/ DoneWith(p))
  BY <1>1 DEF EdgeFile, Drop, NextPin, Goto, GoesOn, DoneWith, InPin, kernelVars, Shaped
<1>5. \E v : held' = [held EXCEPT ![p][Index(p)]["edge"] = v] /\ FileOrNone(p, "edge", v, table'[p])
  BY <1>1 DEF EdgeFile, Drop, Open, Hold, FileOrNone, Shaped
<1>6. Shaped'
  BY <1>1, <1>2, <1>3, <1>5 DEF Shaped, EdgeFile, Drop, NextPin, Goto, Open, Hold, kernelVars
<1> QED
  BY <1>1, <1>3, <1>4, <1>5, <1>6, PinFileKeeps DEF InPin, HeldKeys

LEMMA ActiveLowKeeps ==
  ASSUME IInv, NEW p \in Proc, ActiveLow(p)
  PROVE  IInv'
<1>1. Shaped /\ Local(p) /\ todo[p] # {} /\ pc[p] = "active_low" /\ Pin(p).facility = "sysfs"
  BY DEF ActiveLow, IInv, Local, ListTyped, InPin
<1>2. faults' \in [Proc -> Nat]
  BY <1>1, FaultsTyped DEF ActiveLow
<1>3. /\ Others(p) /\ setup' = setup /\ exported' = exported /\ gpio_dir' = gpio_dir
      /\ pins' = pins /\ chips' = chips /\ sys' = sys
  BY <1>1 DEF ActiveLow, Drop, NextPin, Goto, Open, Hold, kernelVars, Others, SameMemory, Shaped
<1>4. pc'[p] # "open" /\ (GoesOn(p) \/ DoneWith(p))
  BY <1>1 DEF ActiveLow, Drop, NextPin, Goto, GoesOn, DoneWith, InPin, kernelVars, Shaped
<1>5. \E v : held' = [held EXCEPT ![p][Index(p)]["active_low"] = v] /\ FileOrNone(p, "active_low", v, table'[p])
  BY <1>1 DEF ActiveLow, Drop, Open, Hold, FileOrNone, Shaped
<1>6. DirThere(p) => System(p) \in exported
  BY <1>1, LineThere DEF InPin
<1>7. Shaped'
  BY <1>1, <1>6, <1>2, <1>3, <1>5 DEF Shaped, ActiveLow, Drop, NextPin, Goto, Open, Hold, kernelVars
<1> QED
  BY <1>1, <1>3, <1>4, <1>5, <1>7, PinFileKeeps DEF InPin, HeldKeys

LEMMA ValueFileKeeps ==
  ASSUME IInv, NEW p \in Proc, ValueFile(p)
  PROVE  IInv'
<1> DEFINE t == table[p]
           n == Lowest(t)
           w == WithFile(p, "value")
<1>1. /\ Shaped /\ Local(p) /\ TableTyped(p) /\ todo[p] # {} /\ pc[p] = "value" /\ Pin(p).facility = "sysfs"
      /\ DirOwn(p)
  BY DEF ValueFile, IInv, Local, ListTyped, InPin
<1>2. faults' \in [Proc -> Nat]
  BY <1>1, FaultsTyped DEF ValueFile
<1>3. /\ Others(p) /\ setup' = setup /\ exported' = exported /\ gpio_dir' = gpio_dir
      /\ pins' = pins /\ chips' = chips /\ sys' = sys
  BY <1>1 DEF ValueFile, Drop, NextPin, Goto, Open, Hold, kernelVars, Others, SameMemory, Shaped
<1>4. Shaped'
  BY <1>1, <1>2, <1>3 DEF Shaped, ValueFile, Drop, NextPin, Goto, Open, Hold, kernelVars
<1>5. CASE Hold(p, "value", -1) /\ Drop(p, Syslog(t))
  <2>1. pc'[p] = "pin" /\ DoneWith(p)
    BY <1>1, <1>5 DEF Drop, NextPin, Goto, DoneWith, Shaped
  <2>2. held' = [held EXCEPT ![p][Index(p)]["value"] = -1] /\ FileOrNone(p, "value", -1, table'[p])
    BY <1>1, <1>5 DEF Drop, Open, Hold, FileOrNone, Shaped
  <2> QED
    BY <1>1, <1>3, <1>4, <2>1, <2>2, PinFileKeeps DEF InPin, HeldKeys
<1>6. CASE DirThere(p) /\ Hold(p, "value", n) /\ Open(p, Shut(w, {gpio_dir[p]})) /\ NextPin(p) /\ UNCHANGED gp_list
  <2>1. FileOrNone(p, "value", n, w)
    BY <1>6 DEF FileOrNone
  <2> HIDE DEF w, n
  <2>2. /\ Grows(t, w) /\ n \in Int
        /\ n > 0 => n \notin DOMAIN t /\ Fits(w, Pin(p), n, "value")
        /\ n = -1 \/ n > 0
        /\ \A m \in DOMAIN w \ DOMAIN t :
             w[m].live /\ w[m].kind # "gpio" /\ (w[m].kind \in LineFiles => w[m].of \in exported)
    BY <1>1, <2>1, PinFile DEF InPin, HeldKeys
  <2>3. IsTable(t) /\ n \in Nat
    BY <1>1, LowestIsFree DEF TableTyped, n
  <2>4. table'[p] = Shut(w, {gpio_dir[p]})
    BY <1>1, <1>6 DEF Open, Shaped
  <2>5. /\ IsTable(table'[p]) /\ DOMAIN table'[p] = DOMAIN w \ {gpio_dir[p]}
        /\ \A m \in DOMAIN table'[p] : table'[p][m] = w[m]
    <3>1. IsTable(w)
      BY <2>2 DEF Grows
    <3> DEFINE X == {gpio_dir[p]}
               u == Shut(w, X)
    <3> HIDE DEF X
    <3>2. IsTable(u) /\ DOMAIN u = DOMAIN w \ X /\ \A m \in DOMAIN w \ X : u[m] = w[m]
      BY <3>1, SomeShut
    <3> HIDE DEF u
    <3>3. table'[p] = u
      BY <2>4 DEF u, X
    <3>4. X = {gpio_dir[p]}
      BY DEF X
    <3> QED
      BY <3>2, <3>3, <3>4
  <2>6. gpio_dir[p] \in DOMAIN t /\ t[gpio_dir[p]].kind = "gpio"
    BY <1>1 DEF DirOwn, InPin, Has, KindAt
  <2>7. \A m \in DOMAIN t : t[m].kind # "gpio" => m \in DOMAIN table'[p] /\ table'[p][m] = t[m]
    BY <2>2, <2>5, <2>6 DEF Grows
  <2>8. TableTyped(p)'
    BY <1>1, <2>2, <2>5 DEF TableTyped, Grows, FileType
  <2>9. n > 0 /\ Fits(table'[p], Pin(p), n, "value")
    BY <2>2, <2>3, <2>5, <2>6 DEF Fits
  <2>10. /\ held' = [held EXCEPT ![p][Index(p)]["value"] = n]
         /\ held'[p][Index(p)]["value"] = n
    <3>1. Index(p) \in DOMAIN held[p] /\ HeldTyped(p)
      BY <1>1, IndexIn DEF Local, HeldTyped
    <3> QED
      BY <1>1, <1>6, <3>1 DEF Hold, Shaped, HeldTyped, HeldKeys
  <2>11. pc'[p] = "pin" /\ DoneWith(p)
    BY <1>1, <1>6, <2>9, <2>10 DEF NextPin, Goto, DoneWith, Shaped
  <2>12. DirOwn(p)'
    BY <2>11 DEF DirOwn, InPin
  <2>13. Local(p)'
    BY <1>1, <1>3, <2>2, <2>7, <2>8, <2>9, <2>10, <2>11, <2>12, PinStep DEF InPin, HeldKeys
  <2>14. \A m \in DOMAIN table'[p] :
           \/ m \in DOMAIN t /\ table'[p][m] = t[m]
           \/ table'[p][m].live /\ (table'[p][m].kind \in LineFiles => table'[p][m].of \in exported')
    BY <1>3, <2>2, <2>5 DEF Grows
  <2> QED
    BY <1>1, <1>3, <1>4, <2>13, <2>14, StepOf DEF Leaving
<1> QED
  BY <1>5, <1>6 DEF ValueFile

\* A facility that is not compiled in has no pins.
LEMMA UapiIsThere ==
  ASSUME IInv, NEW p \in Proc, NEW i \in DOMAIN pins[p], pins[p][i].facility # "sysfs"
  PROVE  setup.uapi
<1>1. PinsRead(p)
  BY DEF IInv, Local
<1>2. pins[p] = PinsOf(Text(p), setup.uapi)
  BY <1>1 DEF PinsRead
<1>3. i \in {n \in DOMAIN Text(p).gpio : setup.uapi \/ Facility(Text(p), Text(p).gpio[n]) = "sysfs"}
  BY <1>2 DEF PinsOf
<1>4. pins[p][i] = PinOf(Text(p), Text(p).gpio[i])
  BY <1>2, <1>3 DEF PinsOf
<1>5. pins[p][i].facility = Facility(Text(p), Text(p).gpio[i])
  BY <1>4 DEF PinOf
<1> QED
  BY <1>3, <1>5

LEMMA OffsetIsLine ==
  ASSUME IInv, NEW p \in Proc, todo[p] # {}, Pin(p).facility = "uapi", NEW l \in Offsets(p)
  PROVE  l \in Nat /\ l \in ChipLines(Pin(p))
<1>1. setup.uapi /\ ChipsTyped(p)
  BY IndexIn, UapiIsThere DEF Pin, IInv, Local
<1>2. PICK i \in Found(p) : Pin(p).local \in 0..(chips[p][i].ngpio - 1) /\ l = chips[p][i].base + Pin(p).local
  BY DEF Offsets
<1>3. /\ i \in DOMAIN Chips /\ Chips[i].name = Pin(p).gpiochip
      /\ chips[p][i].base = Chips[i].base /\ chips[p][i].ngpio = Chips[i].ngpio
  BY <1>1, <1>2 DEF ChipsTyped, Found
<1>4. Chips[i] \in [name : STRING, base : Nat, ngpio : Nat]
  BY <1>3, ChipsTyping
<1> QED
  BY <1>2, <1>3, <1>4 DEF ChipLines

LEMMA UapiPinKeeps ==
  ASSUME IInv, NEW p \in Proc, UapiPin(p)
  PROVE  IInv'
<1> DEFINE t == table[p]
           n == Lowest(t)
           u == IF Pin(p).gpiochip # Absent /\ Found(p) = {} THEN Syslog(t) ELSE t
<1>1. /\ Shaped /\ Local(p) /\ TableTyped(p) /\ IsTable(t) /\ todo[p] # {} /\ pc[p] = "pin"
      /\ Pin(p).facility = "uapi"
  BY DEF UapiPin, AtPin, IInv, Local, TableTyped
<1>2. faults' \in [Proc -> Nat]
  BY <1>1, FaultsTyped DEF UapiPin
<1>3. /\ Others(p) /\ setup' = setup /\ exported' = exported /\ gpio_dir' = gpio_dir
      /\ pins' = pins /\ chips' = chips /\ sys' = sys
  BY <1>1 DEF UapiPin, Drop, NextPin, Goto, Open, Hold, kernelVars, Others, SameMemory, Shaped
<1>4. Shaped'
  BY <1>1, <1>2, <1>3 DEF Shaped, UapiPin, Drop, NextPin, Goto, Open, Hold, kernelVars
<1>5. DirOwn(p)'
  BY <1>1 DEF UapiPin, Drop, NextPin, Goto, DirOwn, InPin, Shaped
<1>6. ASSUME Drop(p, u), held' = held
      PROVE  IInv'
  <2>1. pc'[p] = "pin" /\ DoneWith(p) /\ table'[p] = u
    BY <1>1, <1>6 DEF Drop, NextPin, Goto, Open, DoneWith, Shaped
  <2>2. Grows(t, u) /\ \A m \in DOMAIN u \ DOMAIN t : u[m] = File("log", 0)
    <3>1. CASE u = Syslog(t)
      BY <1>1, <3>1, SyslogGrows
    <3>2. CASE u = t
      BY <1>1, <3>2 DEF Grows
    <3> QED
      BY <3>1, <3>2
  <2> HIDE DEF u
  <2>3. TableTyped(p)'
    BY <1>1, <2>1, <2>2, GrownTyped
  <2>4. Local(p)'
    BY <1>1, <1>3, <1>5, <1>6, <2>1, <2>2, <2>3, PinStep DEF Grows
  <2>5. \A m \in DOMAIN table'[p] :
           \/ m \in DOMAIN t /\ table'[p][m] = t[m]
           \/ table'[p][m].live /\ (table'[p][m].kind \in LineFiles => table'[p][m].of \in exported')
    BY <2>1, <2>2 DEF Grows, File, LineFiles
  <2> QED
    BY <1>1, <1>3, <1>4, <2>4, <2>5, StepOf DEF Leaving
<1>7. ASSUME NEW l \in Offsets(p), Hold(p, "value", n), Open(p, Opened(t, File("lineevent", l))),
             NextPin(p), gp_list' = gp_list
      PROVE  IInv'
  <2> DEFINE v == Opened(t, File("lineevent", l))
  <2>1. l \in Nat /\ l \in ChipLines(Pin(p))
    BY <1>1, OffsetIsLine
  <2>2. "lineevent" \in Kinds
    BY DEF Kinds
  <2>3. table'[p] = v
    BY <1>1, <1>7 DEF Open, Shaped
  <2> HIDE DEF t
  <2>4. /\ Grows(t, v) /\ DOMAIN v = DOMAIN t \cup {n} /\ v[n] = File("lineevent", l)
        /\ n \in Nat \ DOMAIN t
    BY <1>1, <2>1, <2>2, OpenedGrows
  <2> HIDE DEF v, n
  <2> USE DEF t
  <2>5. n > 0
    <3>1. 0 \in DOMAIN t
      BY <1>1 DEF Local, LowNumbers, Up
    <3> QED
      BY <2>4, <3>1
  <2>6. Fits(table'[p], Pin(p), n, "value")
    <3>1. n \in DOMAIN table'[p] /\ table'[p][n] = File("lineevent", l)
      BY <2>3, <2>4
    <3>2. Pin(p).facility # "sysfs"
      BY <1>1
    <3> QED
      BY <2>1, <3>1, <3>2 DEF Fits, File
  <2>7. /\ held' = [held EXCEPT ![p][Index(p)]["value"] = n]
        /\ held'[p][Index(p)]["value"] = n
    <3>1. Index(p) \in DOMAIN held[p] /\ HeldTyped(p)
      BY <1>1, IndexIn DEF Local, HeldTyped
    <3> QED
      BY <1>1, <1>7, <3>1 DEF Hold, Shaped, HeldTyped, HeldKeys
  <2>8. pc'[p] = "pin" /\ DoneWith(p)
    BY <1>1, <1>7, <2>5, <2>7 DEF NextPin, Goto, DoneWith, Shaped
  <2>9. TableTyped(p)'
    BY <1>1, <2>3, <2>4, GrownTyped
  <2>10. Local(p)'
    <3>1. \E kk \in HeldKeys, w \in Int :
            /\ held' = [held EXCEPT ![p][Index(p)][kk] = w]
            /\ w > 0 => w \notin DOMAIN table[p] /\ Fits(table'[p], Pin(p), w, kk)
      <4>1. "value" \in HeldKeys /\ n \in Int
        BY <2>4 DEF HeldKeys
      <4>2. n > 0 => n \notin DOMAIN table[p] /\ Fits(table'[p], Pin(p), n, "value")
        BY <2>4, <2>6
      <4> QED
        BY <2>7, <4>1, <4>2
    <3>2. \A m \in DOMAIN table[p] : m \in DOMAIN table'[p] /\ table'[p][m] = table[p][m]
      BY <2>3, <2>4 DEF Grows
    <3> QED
      BY <1>1, <1>3, <1>5, <2>8, <2>9, <3>1, <3>2, PinStep
  <2>11. \A m \in DOMAIN table'[p] :
           \/ m \in DOMAIN t /\ table'[p][m] = t[m]
           \/ table'[p][m].live /\ (table'[p][m].kind \in LineFiles => table'[p][m].of \in exported')
    <3>1. File("lineevent", l).live /\ File("lineevent", l).kind \notin LineFiles
      BY DEF File, LineFiles
    <3> QED
      BY <2>3, <2>4, <3>1 DEF Grows
  <2> QED
    BY <1>1, <1>3, <1>4, <2>10, <2>11, StepOf DEF Leaving
<1> QED
  BY <1>6, <1>7 DEF UapiPin

-----------------------------------------------------------------------------
(***************************************************************************)
(* Steps of loop and those around it.                                       *)
(***************************************************************************)
LEMMA LoopStep ==
  ASSUME IInv, NEW p \in Proc, pc[p] \in {"pin", "bind", "loop", "clean"}, todo[p] = {},
         pc'[p] \in {"bind", "loop", "clean", "cleansysfs"},
         pc[p] = "clean" => pc'[p] = "cleansysfs",
         todo'[p] = IF pc'[p] = "clean" THEN gp_list[p] ELSE {},
         setup' = setup, exported' = exported, gp_list' = gp_list, memory' = memory,
         Others(p), Shaped', TableTyped(p)',
         \A n \in DOMAIN table[p] :
           table[p][n].kind \notin {"timer", "listen"} => n \in DOMAIN table'[p] /\ table'[p][n] = table[p][n],
         \A n \in DOMAIN table'[p] :
           \/ n \in DOMAIN table[p] /\ table'[p][n] = table[p][n]
           \/ table'[p][n].live /\ table'[p][n].kind \notin LineFiles
  PROVE  IInv'
<1>1. /\ Settled(p) /\ ListTyped(p) /\ HeldTyped(p) /\ HeldOwn(p) /\ HeldApart(p) /\ ValueHeld(p)
      /\ pins' = pins /\ held' = held /\ chips' = chips /\ sys' = sys
  BY LocalIs DEF IInv, memory
<1>2. Settled(p)'
  BY <1>1, SettledKept DEF AtPins, MainKinds
<1>3. ListTyped(p)'
  BY <1>1 DEF ListTyped, AtPins, InPin, Early
<1>4. HeldTyped(p)' /\ DirOwn(p)'
  BY <1>1 DEF HeldTyped, DirOwn, InPin
<1>5. Kept(p)' \subseteq Kept(p)
  BY <1>1 DEF Kept, AtPins, InPin, Early
<1>6. HeldOwn(p)' /\ HeldApart(p)'
  <2>1. \A i \in Kept(p)', k \in HeldKeys : held[p][i][k] > 0 /\ held[p][i][k] \in DOMAIN table[p] =>
          held[p][i][k] \in DOMAIN table'[p] /\ table'[p][held[p][i][k]] = table[p][held[p][i][k]]
    BY <1>1, <1>5 DEF HeldOwn, Fits, HeldKeys
  <2> QED
    BY <1>1, <1>5, <2>1, HeldKept
<1>7. ValueHeld(p)'
  <2> SUFFICES ASSUME NEW i \in Kept(p)', pc'[p] \in AtPins
               PROVE  held[p][i]["value"] > 0
    BY <1>1 DEF ValueHeld
  <2>1. pc[p] \in AtPins /\ pc[p] # "clean"
    BY DEF AtPins, InPin
  <2> QED
    BY <1>1, <1>5, <2>1 DEF ValueHeld
<1>8. Local(p)'
  BY <1>2, <1>3, <1>4, <1>6, <1>7 DEF Local, Settled
<1> QED
  BY <1>1, <1>8, StepOf DEF Leaving

LEMMA StillThere ==
  ASSUME NEW p \in Proc, TableTyped(p), table'[p] = table[p]
  PROVE  TableTyped(p)'
BY DEF TableTyped

LEMMA PinsDoneKeeps ==
  ASSUME IInv, NEW p \in Proc, PinsDone(p) \/ PinsCleaned(p)
  PROVE  IInv'
<1>1. Shaped /\ Local(p) /\ TableTyped(p)
  BY DEF IInv, Local
<1>2. /\ Others(p) /\ setup' = setup /\ exported' = exported /\ gp_list' = gp_list /\ table' = table
      /\ memory' = memory /\ todo[p] = {} /\ todo'[p] = {}
      /\ \/ pc[p] = "pin" /\ pc'[p] = "bind"
         \/ pc[p] = "clean" /\ pc'[p] = "cleansysfs"
  BY <1>1 DEF PinsDone, PinsCleaned, Goto, kernelVars, memory, Others, SameMemory, Shaped
<1>3. Shaped'
  BY <1>1, <1>2 DEF Shaped, PinsDone, PinsCleaned, Goto, kernelVars, memory
<1> QED
  BY <1>1, <1>2, <1>3, StillThere, LoopStep

LEMMA LeaveLoopKeeps ==
  ASSUME IInv, NEW p \in Proc, LeaveLoop(p)
  PROVE  IInv'
<1> DEFINE t == table[p]
           X == {n \in DOMAIN t : t[n].kind \in {"timer", "listen"}}
           u == Shut(t, X)
<1>1. Shaped /\ Local(p) /\ TableTyped(p) /\ ListTyped(p) /\ IsTable(t) /\ pc[p] = "loop"
  BY DEF LeaveLoop, IInv, Local, TableTyped
<1>2. /\ Others(p) /\ setup' = setup /\ exported' = exported /\ gp_list' = gp_list
      /\ memory' = memory /\ todo[p] = {} /\ todo'[p] = gp_list[p] /\ pc'[p] = "clean" /\ table'[p] = u
  BY <1>1 DEF LeaveLoop, LoopEnds, Open, Goto, memory, Others, SameMemory, Shaped, ListTyped
<1>3. Shaped'
  BY <1>1, <1>2 DEF Shaped, LeaveLoop, LoopEnds, Open, Goto, memory
<1>4. IsTable(u) /\ DOMAIN u = DOMAIN t \ X /\ \A n \in DOMAIN t \ X : u[n] = t[n]
  <2> HIDE DEF X, t
  <2> QED
    BY <1>1, SomeShut
<1> HIDE DEF u
<1>5. TableTyped(p)'
  BY <1>1, <1>2, <1>4 DEF TableTyped
<1> QED
  BY <1>1, <1>2, <1>3, <1>4, <1>5, LoopStep

\* Files that are alive and typed; one after the other they are opened.
LEMMA AllGrow ==
  ASSUME NEW t, IsTable(t), NEW files, Len(files) \in Nat, NEW k \in 0..Len(files),
         \A i \in 1..Len(files) : files[i] \in FileType /\ files[i].live
  PROVE  /\ Grows(t, Opening(t, files)[k])
         /\ \A n \in DOMAIN Opening(t, files)[k] \ DOMAIN t :
              \E i \in 1..k : n = Lowest(Opening(t, files)[i - 1]) /\ Opening(t, files)[k][n] = files[i]
<1> DEFINE after == Opening(t, files)
<1>1. /\ IsTable(after[k])
      /\ DOMAIN after[k] = DOMAIN t \cup {Lowest(after[j]) : j \in 0..(k - 1)}
      /\ \A n \in DOMAIN t : after[k][n] = t[n]
      /\ \A j \in 0..(k - 1) :
           /\ Lowest(after[j]) \in DOMAIN after[k] \ DOMAIN t
           /\ after[k][Lowest(after[j])] = files[j + 1]
  <2>1. AllBeside(t, files, k, after)
    BY SeveralOpened
  <2> QED
    BY <2>1 DEF AllBeside
<1> HIDE DEF after
<1>2. ASSUME NEW n \in DOMAIN after[k] \ DOMAIN t
      PROVE  \E i \in 1..k : n = Lowest(after[i - 1]) /\ after[k][n] = files[i]
  <2>1. PICK j \in 0..(k - 1) : n = Lowest(after[j])
    BY <1>1, <1>2
  <2>2. j + 1 \in 1..k /\ (j + 1) - 1 = j
    OBVIOUS
  <2> QED
    BY <1>1, <2>1, <2>2
<1>3. \A n \in DOMAIN after[k] \ DOMAIN t : after[k][n] \in FileType /\ after[k][n].live
  <2> SUFFICES ASSUME NEW n \in DOMAIN after[k] \ DOMAIN t PROVE after[k][n] \in FileType /\ after[k][n].live
    OBVIOUS
  <2>1. PICK i \in 1..k : after[k][n] = files[i]
    BY <1>2
  <2>2. i \in 1..Len(files)
    OBVIOUS
  <2> QED
    BY <2>1, <2>2
<1>4. Grows(t, after[k])
  BY <1>1, <1>3 DEF Grows
<1> QED
  BY <1>2, <1>4 DEF after

\* What the loop opens for itself.
LEMMA LoopFilesAre ==
  /\ Len(LoopFiles) = 3
  /\ \A i \in 1..3 : LoopFiles[i] \in FileType /\ LoopFiles[i].live
  /\ LoopFiles[1].kind = "epoll" /\ LoopFiles[2].kind = "listen" /\ LoopFiles[3].kind = "timer"
BY FileTyped DEF LoopFiles, Kinds

\* What it leaves open of that at once.
LEMMA LoopOpened ==
  ASSUME IInv, NEW p \in Proc, EnterLoop(p)
  PROVE  /\ Grows(table[p], table'[p])
         /\ \A n \in DOMAIN table'[p] \ DOMAIN table[p] :
              /\ table'[p][n].kind \in {"log", "epoll", "listen", "timer"}
              /\ table'[p][n].kind = "timer" => pc'[p] = "loop"
<1> DEFINE t == table[p]
           after == Opening(t, LoopFiles)
           late == Syslog(after[3])
           X == {Lowest(after[1]), Lowest(after[2])}
<1>1. IsTable(t) /\ DOMAIN pc = Proc /\ DOMAIN table = Proc
  BY DEF IInv, Shaped, Local, TableTyped
<1>2. \/ table'[p] = Syslog(after[2])
      \/ table'[p] = Shut(late, X)
      \/ table'[p] = after[3] /\ pc'[p] = "loop"
  BY <1>1 DEF EnterLoop, LoopEnds, Goto, Open
<1>3. \A k \in {2, 3} :
        /\ Grows(t, after[k])
        /\ \A n \in DOMAIN after[k] \ DOMAIN t :
             \E i \in 1..k : n = Lowest(after[i - 1]) /\ after[k][n] = LoopFiles[i]
  <2> HIDE DEF t
  <2> SUFFICES ASSUME NEW k \in {2, 3}
               PROVE  /\ Grows(t, after[k])
                      /\ \A n \in DOMAIN after[k] \ DOMAIN t :
                           \E i \in 1..k : n = Lowest(after[i - 1]) /\ after[k][n] = LoopFiles[i]
    OBVIOUS
  <2>1. Len(LoopFiles) \in Nat /\ k \in 0..Len(LoopFiles)
        /\ \A i \in 1..Len(LoopFiles) : LoopFiles[i] \in FileType /\ LoopFiles[i].live
    BY LoopFilesAre
  <2> QED
    BY <1>1, <2>1, AllGrow
<1>4. \A k \in {2, 3} :
        /\ IsTable(after[k])
        /\ Grows(after[k], Syslog(after[k]))
        /\ \A n \in DOMAIN Syslog(after[k]) \ DOMAIN after[k] : Syslog(after[k])[n].kind = "log"
  BY <1>3, SyslogGrows DEF Grows, File
<1>5. X \cap DOMAIN t = {}
  <2>1. AllBeside(t, LoopFiles, 3, after)
    <3> HIDE DEF t
    <3>1. Len(LoopFiles) \in Nat /\ 3 \in 0..Len(LoopFiles)
      BY LoopFilesAre
    <3> QED
      BY <1>1, <3>1, SeveralOpened
  <2> HIDE DEF after
  <2>2. \A j \in 0..2 : Lowest(after[j]) \notin DOMAIN t
    BY <2>1 DEF AllBeside
  <2> QED
    BY <2>2
<1> HIDE DEF after
<1>6. \A k \in {2, 3} : \A n \in DOMAIN after[k] \ DOMAIN t :
        \E i \in 1..k : n = Lowest(after[i - 1]) /\ after[k][n].kind = LoopFiles[i].kind
  BY <1>3
<1>7. CASE table'[p] = after[3] /\ pc'[p] = "loop"
  BY <1>3, <1>6, <1>7, LoopFilesAre
<1>8. CASE table'[p] = Syslog(after[2])
  <2>1. Grows(t, Syslog(after[2]))
    BY <1>3, <1>4, GrowsTwice
  <2>2. ASSUME NEW n \in DOMAIN Syslog(after[2]) \ DOMAIN t
        PROVE  Syslog(after[2])[n].kind \in {"log", "epoll", "listen"}
    <3>1. CASE n \in DOMAIN after[2]
      BY <1>4, <1>6, <2>2, <3>1, LoopFilesAre DEF Grows
    <3> QED
      BY <1>4, <2>2, <3>1
  <2> QED
    BY <1>8, <2>1, <2>2
<1>9. CASE table'[p] = Shut(late, X)
  <2>1. /\ IsTable(Shut(late, X))
        /\ DOMAIN Shut(late, X) = DOMAIN late \ X
        /\ \A n \in DOMAIN late \ X : Shut(late, X)[n] = late[n]
    <3>1. IsTable(late)
      BY <1>4 DEF Grows
    <3> HIDE DEF late, X
    <3> QED
      BY <3>1, SomeShut
  <2>2. Grows(t, late)
    BY <1>3, <1>4, GrowsTwice
  <2>3. Grows(t, table'[p])
    BY <1>5, <1>9, <2>1, <2>2 DEF Grows
  <2>4. ASSUME NEW n \in DOMAIN late \ DOMAIN t, n \notin X
        PROVE  late[n].kind \in {"log", "epoll"}
    <3>1. CASE n \in DOMAIN after[3]
      <4>1. PICK i \in 1..3 : n = Lowest(after[i - 1]) /\ after[3][n].kind = LoopFiles[i].kind
        BY <1>6, <2>4, <3>1
      <4>2. i = 1
        BY <2>4, <4>1
      <4> QED
        BY <1>4, <3>1, <4>1, <4>2, LoopFilesAre DEF Grows
    <3> QED
      BY <1>4, <2>4, <3>1
  <2> QED
    BY <1>9, <2>1, <2>3, <2>4
<1> QED
  BY <1>2, <1>7, <1>8, <1>9

LEMMA EnterLoopKeeps ==
  ASSUME IInv, NEW p \in Proc, EnterLoop(p)
  PROVE  IInv'
<1>1. Shaped /\ Local(p) /\ TableTyped(p) /\ ListTyped(p) /\ pc[p] = "bind"
  BY DEF EnterLoop, IInv, Local
<1>2. /\ Others(p) /\ setup' = setup /\ exported' = exported /\ gp_list' = gp_list
      /\ memory' = memory /\ todo[p] = {}
      /\ \/ pc'[p] = "clean" /\ todo'[p] = gp_list[p]
         \/ pc'[p] = "loop" /\ todo'[p] = {}
  BY <1>1 DEF EnterLoop, LoopEnds, Open, Goto, kernelVars, memory, Others, SameMemory, Shaped, ListTyped
<1>3. Shaped'
  BY <1>1, <1>2 DEF Shaped, EnterLoop, LoopEnds, Open, Goto, kernelVars, memory
<1>4. /\ Grows(table[p], table'[p])
      /\ \A n \in DOMAIN table'[p] \ DOMAIN table[p] : table'[p][n].kind \in {"log", "epoll", "listen", "timer"}
  BY LoopOpened
<1>5. TableTyped(p)'
  BY <1>1, <1>4, GrownTyped
<1>6. \A n \in DOMAIN table'[p] :
           \/ n \in DOMAIN table[p] /\ table'[p][n] = table[p][n]
           \/ table'[p][n].live /\ table'[p][n].kind \notin LineFiles
  BY <1>4 DEF Grows, LineFiles
<1> QED
  BY <1>1, <1>2, <1>3, <1>4, <1>5, <1>6, LoopStep DEF Grows

-----------------------------------------------------------------------------
(***************************************************************************)
(* The way out.                                                             *)
(***************************************************************************)
\* A pin that is cleaned up has only its own numbers closed.
LEMMA CleanStep ==
  ASSUME IInv, NEW p \in Proc, pc[p] = "clean", pc' = pc, todo[p] # {}, todo'[p] = todo[p] \ {Index(p)},
         setup' = setup, pins'[p] = pins[p], gp_list'[p] = gp_list[p], chips'[p] = chips[p], sys'[p] = sys[p],
         HeldTyped(p)', \A j \in DOMAIN pins[p] \ {Index(p)} : held'[p][j] = held[p][j],
         TableTyped(p)',
         \A n \in DOMAIN table[p] : (\A k \in HeldKeys : n = held[p][Index(p)][k] => n = 0) =>
           /\ n \in DOMAIN table'[p]
           /\ table'[p][n].kind = table[p][n].kind /\ table'[p][n].of = table[p][n].of
           /\ table[p][n].kind \in MainKinds => table'[p][n] = table[p][n]
  PROVE  Local(p)'
<1> DEFINE x == Index(p)
<1>1. /\ Settled(p) /\ ListTyped(p) /\ HeldTyped(p) /\ HeldOwn(p) /\ HeldApart(p) /\ ValueHeld(p)
      /\ DOMAIN table[p] \subseteq Nat
  BY LocalIs DEF IInv, Settled, TableTyped, IsTable
<1>2. x \in todo[p] /\ x \in DOMAIN pins[p] /\ todo[p] \subseteq gp_list[p]
  BY <1>1, IndexIn DEF ListTyped, AtPins
<1>3. Kept(p) = todo[p] /\ Kept(p)' = todo[p] \ {x}
  BY <1>1, <1>2 DEF Kept, AtPins
<1> HIDE DEF x
<1>4. ASSUME NEW n \in DOMAIN table[p], NEW k \in HeldKeys, n = held[p][x][k], n # 0
      PROVE  Fits(table[p], pins[p][x], n, k)
  <2>1. held[p][x][k] > 0
    BY <1>1, <1>4
  <2> QED
    BY <1>1, <1>2, <1>3, <1>4, <2>1 DEF HeldOwn
<1>5. Settled(p)'
  <2>1. ASSUME NEW n \in DOMAIN table[p], table[p][n].kind \in MainKinds
        PROVE  n \in DOMAIN table'[p] /\ table'[p][n] = table[p][n]
    <3>1. \A k \in HeldKeys : n = held[p][x][k] => n = 0
      BY <1>4, <2>1 DEF Fits, MainKinds, HeldKeys
    <3> QED
      BY <2>1, <3>1 DEF x
  <2>2. pc[p] \in AtPins
    BY DEF AtPins
  <2> QED
    BY <1>1, <2>1, <2>2, SettledKept
<1>6. ListTyped(p)'
  BY <1>1, <1>2 DEF ListTyped, AtPins, InPin, Early
<1>7. \A i \in Kept(p)' : held'[p][i] = held[p][i]
  BY <1>1, <1>2, <1>3 DEF ListTyped, x
<1>8. DirOwn(p)' /\ ValueHeld(p)'
  BY <1>1, <1>2, <1>3, <1>7 DEF DirOwn, InPin, ValueHeld
<1>9. HeldOwn(p)' /\ HeldApart(p)'
  <2>1. ASSUME NEW i \in Kept(p)', NEW k \in HeldKeys, held[p][i][k] > 0, held[p][i][k] \in DOMAIN table[p]
        PROVE  /\ held[p][i][k] \in DOMAIN table'[p]
               /\ table'[p][held[p][i][k]].kind = table[p][held[p][i][k]].kind
               /\ table'[p][held[p][i][k]].of = table[p][held[p][i][k]].of
    <3>1. \A m \in HeldKeys : held[p][i][k] # held[p][x][m]
      BY <1>1, <1>2, <1>3, <2>1 DEF HeldApart
    <3> QED
      BY <2>1, <3>1 DEF x
  <2> QED
    BY <1>1, <1>3, <1>7, <2>1, HeldKept
<1> QED
  BY <1>5, <1>6, <1>8, <1>9 DEF Local, Settled

LEMMA DigitsOf == ASSUME NEW l PROVE Digits(l) \in 1..4
BY DEF Digits

\* The files of the lines that are gone are dead, the others are as they were.
Unlinked(lines, t, u) ==
  \A n \in DOMAIN t :
    IF t[n].kind \in LineFiles /\ t[n].of \in lines THEN ~u[n].live ELSE u[n] = t[n]

LEMMA UnexportedAlike ==
  ASSUME NEW l, NEW t, IsTable(t), \A n \in DOMAIN t : t[n] \in [kind : Kinds, of : Nat, live : BOOLEAN]
  PROVE  LET u == Unexported(l, t) IN
         Alike(t, u) /\ Unlinked({l}, t, u)
<1> DEFINE u == Unexported(l, t)
<1>1. /\ DOMAIN u = DOMAIN t /\ u = [n \in DOMAIN u |-> u[n]]
      /\ \A n \in DOMAIN t :
           u[n] = IF t[n].kind \in LineFiles /\ t[n].of = l THEN [t[n] EXCEPT !.live = FALSE] ELSE t[n]
  BY DEF Unexported
<1> HIDE DEF u
<1>2. IsTable(u)
  BY <1>1 DEF IsTable
<1>3. ASSUME NEW n \in DOMAIN t
      PROVE  /\ u[n] \in [kind : Kinds, of : Nat, live : BOOLEAN]
             /\ u[n].kind = t[n].kind /\ u[n].of = t[n].of
             /\ IF t[n].kind \in LineFiles /\ t[n].of \in {l} THEN ~u[n].live ELSE u[n] = t[n]
  BY <1>1
<1>4. Alike(t, u)
  BY <1>1, <1>2, <1>3 DEF Alike
<1>5. Unlinked({l}, t, u)
  BY <1>3 DEF Unlinked
<1> QED
  BY <1>4, <1>5 DEF u

\* What becomes of the lines and of the tables before anything is closed.
Gone(p) == IF faults' = faults /\ Unexport(p) THEN {System(p)} ELSE {}
Before(p, q) == IF Gone(p) = {} THEN table[q] ELSE Unexported(System(p), table[q])
Mine(p) == IF Gone(p) = {} THEN Syslog(Before(p, p)) ELSE Before(p, p)

LEMMA BeforeAlike ==
  ASSUME NEW p \in Proc, NEW q \in Proc, TableTyped(q)
  PROVE  Alike(table[q], Before(p, q)) /\ Unlinked(Gone(p), table[q], Before(p, q))
<1>1. CASE Gone(p) = {}
  BY <1>1, AlikeItself DEF Before, Unlinked
<1>2. CASE Gone(p) = {System(p)}
  <2> DEFINE l == System(p)
             t == table[q]
             u == Unexported(l, t)
  <2>1. Before(p, q) = u
    BY <1>2 DEF Before
  <2>2. IsTable(t) /\ \A n \in DOMAIN t : t[n] \in [kind : Kinds, of : Nat, live : BOOLEAN]
    BY DEF TableTyped
  <2> HIDE DEF l, t
  <2>3. Alike(t, u) /\ Unlinked({l}, t, u)
    BY <2>2, UnexportedAlike
  <2> HIDE DEF u
  <2> USE DEF l, t
  <2> QED
    BY <1>2, <2>1, <2>3
<1> QED
  BY <1>1, <1>2 DEF Gone

LEMMA MineGrows ==
  ASSUME NEW p \in Proc, TableTyped(p)
  PROVE  /\ Grows(Before(p, p), Mine(p))
         /\ \A n \in DOMAIN Mine(p) \ DOMAIN table[p] : Mine(p)[n] = File("log", 0)
<1>1. IsTable(Before(p, p)) /\ DOMAIN Before(p, p) = DOMAIN table[p]
  BY BeforeAlike DEF Alike
<1>2. CASE Mine(p) = Before(p, p)
  BY <1>1, <1>2 DEF Grows
<1>3. CASE Mine(p) = Syslog(Before(p, p))
  BY <1>1, <1>3, SyslogGrows
<1> QED
  BY <1>2, <1>3 DEF Mine

\* The "0" meant for active_low reaches no file of sysfs.
LEMMA CleanedUp ==
  ASSUME IInv, NEW p \in Proc, pc[p] = "clean", CleanSysfsPin(p)
  PROVE  /\ exported' = exported \ Gone(p) /\ actlow' = actlow \ Gone(p)
         /\ table' = [[q \in Proc |-> Before(p, q)] EXCEPT ![p] =
                        Shut(Mine(p), {held[p][Index(p)][k] : k \in DOMAIN held[p][Index(p)]} \ {0})]
         /\ held' = [held EXCEPT ![p][Index(p)] = [k \in DOMAIN @ |-> IF @[k] = 0 THEN 0 ELSE -1]]
         /\ Fine(p) \/ Fault(p)
<1> DEFINE ret == IF Gone(p) = {} THEN -1 ELSE Digits(System(p))
           hit == IF held[p][Index(p)]["active_low"] # 0 /\ ret \in DOMAIN Mine(p) THEN Mine(p)[ret] ELSE Nothing
<1>1. TableTyped(p) /\ LowNumbers(p)
  BY DEF IInv, Local
<1>2. /\ exported' = ((exported \ Gone(p)) \cup ZeroExports(hit)) \ ZeroUnexports(hit)
      /\ actlow' = (actlow \ Gone(p)) \ ZeroResets(hit)
  BY DEF CleanSysfsPin, Gone, Before, Mine
<1>3. hit.kind \notin {"export", "unexport", "active_low"}
  <2>1. CASE hit = Nothing
    BY <2>1 DEF Nothing, File
  <2>2. CASE ret \in DOMAIN Mine(p) /\ hit = Mine(p)[ret]
    <3>1. /\ DOMAIN Before(p, p) = DOMAIN table[p]
          /\ \A n \in DOMAIN table[p] : Before(p, p)[n].kind = table[p][n].kind
      BY <1>1, BeforeAlike DEF Alike
    <3>2. DOMAIN Mine(p) \subseteq Nat
      BY <1>1, MineGrows DEF Grows, IsTable
    <3>3. Gone(p) # {} /\ ret \in 1..4 /\ Mine(p) = Before(p, p)
      BY <2>2, <3>2, DigitsOf DEF Mine
    <3>4. \A n \in 1..4 : n \in DOMAIN table[p] /\ table[p][n].kind \in {"std", "signal", "log", "chip", "sysfs"}
      BY <1>1 DEF LowNumbers, KindAt, Up, AtPins
    <3> QED
      BY <2>2, <3>1, <3>3, <3>4
  <2> QED
    BY <2>1, <2>2
<1>4. ZeroExports(hit) = {} /\ ZeroUnexports(hit) = {} /\ ZeroResets(hit) = {}
  BY <1>3 DEF ZeroExports, ZeroUnexports, ZeroResets
<1> HIDE DEF hit
<1>5. /\ table' = [[q \in Proc |-> Before(p, q)] EXCEPT ![p] =
                     Shut(Mine(p), {held[p][Index(p)][k] : k \in DOMAIN held[p][Index(p)]} \ {0})]
      /\ held' = [held EXCEPT ![p][Index(p)] = [k \in DOMAIN @ |-> IF @[k] = 0 THEN 0 ELSE -1]]
      /\ Fine(p) \/ Fault(p)
  BY DEF CleanSysfsPin, Gone, Before, Mine
<1> QED
  BY <1>2, <1>4, <1>5

LEMMA CleanSysfsPinKeeps ==
  ASSUME IInv, NEW p \in Proc, CleanPin(p), Pin(p).facility = "sysfs"
  PROVE  IInv'
<1> DEFINE x == Index(p)
           l == System(p)
           X == {held[p][x][k] : k \in DOMAIN held[p][x]} \ {0}
           mine == Mine(p)
           u == Shut(mine, X)
<1>1. /\ Shaped /\ (\A q \in Proc : Local(q) /\ TableTyped(q) /\ LiveIsExported(q)) /\ HeldTyped(p)
      /\ pc[p] = "clean" /\ todo[p] # {} /\ CleanSysfsPin(p)
  BY DEF CleanPin, IInv, Local
<1>2. x \in todo[p] /\ x \in DOMAIN pins[p] /\ pins[p][x].facility = "sysfs" /\ pins[p][x].system = l
  BY <1>1, IndexIn DEF Pin, System
<1>3. /\ exported' = exported \ Gone(p) /\ actlow' = actlow \ Gone(p)
      /\ table' = [[q \in Proc |-> Before(p, q)] EXCEPT ![p] = u]
      /\ held' = [held EXCEPT ![p][x] = [k \in DOMAIN @ |-> IF @[k] = 0 THEN 0 ELSE -1]]
      /\ Fine(p) \/ Fault(p)
  BY <1>1, CleanedUp
<1> HIDE DEF u, X, mine
<1>4. /\ DOMAIN table' = Proc /\ table'[p] = u /\ \A q \in Proc \ {p} : table'[q] = Before(p, q)
  BY <1>3
<1>5. /\ setup' = setup /\ pc' = pc /\ pins' = pins /\ gp_list' = gp_list /\ chips' = chips /\ sys' = sys
      /\ gpio_dir' = gpio_dir /\ todo' = [todo EXCEPT ![p] = @ \ {x}]
  BY DEF CleanPin
<1>6. Shaped'
  <2>1. faults' \in [Proc -> Nat]
    BY <1>1, <1>3, FaultsTyped
  <2> QED
    BY <1>1, <1>3, <1>4, <1>5, <2>1 DEF Shaped
<1>7. /\ HeldTyped(p)' /\ \A j \in DOMAIN pins[p] \ {x} : held'[p][j] = held[p][j]
      /\ \A q \in Proc \ {p} : held'[q] = held[q]
  <2>1. held'[p] = [held[p] EXCEPT ![x] = [k \in HeldKeys |-> IF held[p][x][k] = 0 THEN 0 ELSE -1]]
    BY <1>1, <1>2, <1>3 DEF HeldTyped, Shaped
  <2>2. [k \in HeldKeys |-> IF held[p][x][k] = 0 THEN 0 ELSE -1] \in [HeldKeys -> Int]
    OBVIOUS
  <2>3. HeldTyped(p)'
    BY <1>1, <1>5, <2>1, <2>2 DEF HeldTyped
  <2> QED
    BY <1>1, <1>2, <1>3, <2>1, <2>3 DEF HeldTyped, Shaped
\* The tables.
<1>8. \A q \in Proc : Alike(table[q], Before(p, q)) /\ Unlinked(Gone(p), table[q], Before(p, q))
  BY <1>1, BeforeAlike
<1>9. /\ Grows(Before(p, p), mine)
      /\ \A n \in DOMAIN mine \ DOMAIN table[p] : mine[n] = File("log", 0)
  BY <1>1, MineGrows DEF mine
<1>10. IsTable(u) /\ DOMAIN u = DOMAIN mine \ X /\ \A n \in DOMAIN mine \ X : u[n] = mine[n]
  <2>1. IsTable(mine)
    BY <1>9 DEF Grows
  <2> QED
    BY <2>1, SomeShut DEF u
<1>11. TableTyped(p)'
  <2>1. ASSUME NEW n \in DOMAIN mine PROVE mine[n] \in FileType
    <3>1. CASE n \in DOMAIN table[p]
      BY <1>8, <1>9, <3>1 DEF Alike, Grows, FileType
    <3>2. CASE n \notin DOMAIN table[p]
      BY <1>9, <2>1, <3>2, FileTyped DEF Kinds
    <3> QED
      BY <3>1, <3>2
  <2> QED
    BY <1>4, <1>10, <2>1 DEF TableTyped, FileType
<1>12. ASSUME NEW n \in DOMAIN table[p], \A k \in HeldKeys : n = held[p][x][k] => n = 0
       PROVE  /\ n \in DOMAIN table'[p]
              /\ table'[p][n].kind = table[p][n].kind /\ table'[p][n].of = table[p][n].of
              /\ table[p][n].kind \in MainKinds => table'[p][n] = table[p][n]
  <2>1. n \notin X
    BY <1>1, <1>2, <1>12 DEF X, HeldTyped
  <2>2. n \in DOMAIN u /\ u[n] = Before(p, p)[n]
    BY <1>8, <1>9, <1>10, <2>1 DEF Alike, Grows
  <2>3. Before(p, p)[n].kind = table[p][n].kind /\ Before(p, p)[n].of = table[p][n].of
    BY <1>8 DEF Alike
  <2>4. table[p][n].kind \in MainKinds => Before(p, p)[n] = table[p][n]
    BY <1>8 DEF Unlinked, MainKinds, LineFiles
  <2> QED
    BY <1>4, <2>2, <2>3, <2>4
<1>13. Local(p)'
  BY <1>1, <1>5, <1>7, <1>11, <1>12, CleanStep DEF Shaped
<1>14. ASSUME NEW q \in Proc \ {p} PROVE Local(q)'
  <2>1. SameMemory(q)
    BY <1>1, <1>5, <1>7 DEF SameMemory, Shaped
  <2>2. Alike(table[q], table'[q])
    BY <1>4, <1>8
  <2> QED
    BY <1>1, <1>5, <2>1, <2>2, OthersKept
<1>15. ASSUME NEW q \in Proc, NEW n \in DOMAIN table'[q]
       PROVE  \/ n \in DOMAIN table[q] /\ table'[q][n] = Before(p, q)[n]
              \/ table'[q][n] = File("log", 0)
  <2>1. CASE q = p
    BY <1>4, <1>8, <1>9, <1>10, <1>15, <2>1 DEF Alike, Grows
  <2>2. CASE q # p
    BY <1>4, <1>8, <1>15, <2>2 DEF Alike
  <2> QED
    BY <2>1, <2>2
<1>16. ASSUME NEW q \in Proc PROVE LiveIsExported(q)'
  <2> SUFFICES ASSUME NEW n \in DOMAIN table'[q]
               PROVE  IF table'[q][n].live
                      THEN table'[q][n].kind \in LineFiles => table'[q][n].of \in exported'
                      ELSE /\ table'[q][n].kind \in LineFiles
                           /\ \E r \in Proc :
                                /\ pc[r] \in Leaving
                                /\ \E j \in DOMAIN pins[r] : pins[r][j].facility = "sysfs"
                                                          /\ pins[r][j].system = table'[q][n].of
    BY <1>5 DEF LiveIsExported, KindAt, OfAt
  <2>1. CASE table'[q][n] = File("log", 0)
    BY <2>1 DEF File, LineFiles
  <2>2. CASE n \in DOMAIN table[q] /\ table'[q][n] = Before(p, q)[n]
    <3>1. CASE table[q][n].kind \in LineFiles /\ table[q][n].of \in Gone(p)
      <4>1. ~table'[q][n].live /\ table'[q][n].kind = table[q][n].kind /\ table'[q][n].of = table[q][n].of
        BY <1>8, <2>2, <3>1 DEF Unlinked, Alike
      <4>2. table[q][n].of = l
        BY <3>1 DEF Gone
      <4>3. pc[p] \in Leaving
        BY <1>1 DEF Leaving
      <4> QED
        BY <1>2, <3>1, <4>1, <4>2, <4>3
    <3>2. CASE ~(table[q][n].kind \in LineFiles /\ table[q][n].of \in Gone(p))
      <4>1. table'[q][n] = table[q][n]
        BY <1>8, <2>2, <3>2 DEF Unlinked
      <4>2. LiveIsExported(q)
        BY <1>1
      <4> QED
        BY <1>3, <2>2, <3>2, <4>1, <4>2 DEF LiveIsExported, KindAt, OfAt
    <3> QED
      BY <3>1, <3>2
  <2> QED
    BY <1>15, <2>1, <2>2
<1> QED
  BY <1>6, <1>13, <1>14, <1>16 DEF IInv

LEMMA CleanUapiPinKeeps ==
  ASSUME IInv, NEW p \in Proc, CleanPin(p), Pin(p).facility # "sysfs"
  PROVE  IInv'
<1> DEFINE x == Index(p)
           t == table[p]
           v == held[p][x]["value"]
           X == {v}
           u == Shut(t, X)
<1>1. /\ Shaped /\ Local(p) /\ TableTyped(p) /\ HeldTyped(p) /\ ListTyped(p) /\ IsTable(t)
      /\ pc[p] = "clean" /\ todo[p] # {} /\ CleanUapiPin(p)
  BY DEF CleanPin, IInv, Local, TableTyped
<1>2. /\ Others(p) /\ setup' = setup /\ exported' = exported /\ pc' = pc /\ pins' = pins /\ held' = held
      /\ gp_list' = gp_list /\ chips' = chips /\ sys' = sys /\ todo'[p] = todo[p] \ {x} /\ table'[p] = u
  BY <1>1 DEF CleanPin, CleanUapiPin, Open, Others, SameMemory, Shaped
<1>3. faults' \in [Proc -> Nat]
  BY <1>1, FaultsTyped DEF CleanUapiPin
<1>4. Shaped'
  BY <1>1, <1>2, <1>3 DEF Shaped, CleanPin, CleanUapiPin, Open
<1>5. v > 0
  <2>1. x \in todo[p] /\ x \in gp_list[p]
    BY <1>1, IndexIn DEF ListTyped, AtPins
  <2>2. x \in Kept(p)
    BY <1>1, <2>1 DEF Kept, AtPins
  <2> QED
    BY <1>1, <2>2 DEF Local, ValueHeld, AtPins
<1>6. IsTable(u) /\ DOMAIN u = DOMAIN t \ X /\ \A n \in DOMAIN t \ X : u[n] = t[n]
  <2> HIDE DEF X, t
  <2> QED
    BY <1>1, SomeShut
<1> HIDE DEF u
<1>7. TableTyped(p)'
  BY <1>1, <1>2, <1>6 DEF TableTyped
<1>8. \A n \in DOMAIN table[p] : (\A k \in HeldKeys : n = held[p][Index(p)][k] => n = 0) =>
        n \in DOMAIN table'[p] /\ table'[p][n] = table[p][n]
  BY <1>2, <1>5, <1>6 DEF HeldKeys
<1>9. HeldTyped(p)'
  BY <1>1, <1>2 DEF HeldTyped
<1>10. Local(p)'
  BY <1>1, <1>2, <1>7, <1>8, <1>9, CleanStep
<1> QED
  BY <1>1, <1>2, <1>4, <1>6, <1>10, StepOf

\* Nothing is remembered any more.
LEMMA VanishedLocal ==
  ASSUME NEW p \in Proc, Local(p), pc'[p] = "gone", table'[p] = NoFiles, setup' = setup,
         gp_list'[p] = gp_list[p], todo'[p] = todo[p], pins'[p] = pins[p], held'[p] = held[p],
         sys'[p] = sys[p], chips'[p] = chips[p]
  PROVE  Local(p)'
<1> USE DEF Local
<1>1. IsTable(table'[p]) /\ DOMAIN table'[p] = {} /\ Text(p)' = Text(p)
  BY NothingOpen DEF Text
<1>2. PcTyped(p)' /\ TableTyped(p)' /\ PinsRead(p)' /\ ListTyped(p)' /\ HeldTyped(p)' /\ SysTyped(p)'
  BY <1>1 DEF PcTyped, TableTyped, PinsRead, ListTyped, HeldTyped, SysTyped, Early, AtPins, InPin
<1>3. ChipsTyped(p)' /\ ConfigRead(p)' /\ LowNumbers(p)' /\ EarlyFiles(p)' /\ SysOwn(p)' /\ ChipsOwn(p)'
  BY <1>1 DEF ChipsTyped, ConfigRead, LowNumbers, EarlyFiles, SysOwn, ChipsOwn, Early, AtPins, InPin, Up
<1>4. ChipsStale(p)' /\ DirOwn(p)'
  BY DEF ChipsStale, DirOwn, AtPins, InPin
<1>5. Kept(p)' = {}
  BY DEF Kept, Early, AtPins, InPin
<1>6. HeldOwn(p)' /\ HeldApart(p)' /\ ValueHeld(p)'
  BY <1>5 DEF HeldOwn, HeldApart, ValueHeld
<1> QED
  BY <1>2, <1>3, <1>4, <1>6

LEMMA VanishKeeps ==
  ASSUME IInv, NEW p \in Proc, Vanish(p), setup' = setup, exported' = exported, actlow' = actlow,
         faults' \in [Proc -> Nat], todo' = todo, gp_list' = gp_list, memory' = memory
  PROVE  IInv'
<1>1. Shaped /\ Local(p)
  BY DEF IInv
<1>2. pc'[p] = "gone" /\ table'[p] = NoFiles /\ Others(p)
  BY <1>1 DEF Vanish, Goto, Open, Others, SameMemory, Shaped, memory
<1>3. Shaped'
  BY <1>1 DEF Shaped, Vanish, Goto, Open, memory
<1>4. Local(p)'
  BY <1>1, <1>2, VanishedLocal DEF memory
<1>5. DOMAIN table'[p] = {}
  BY <1>2, NothingOpen
<1> QED
  BY <1>2, <1>3, <1>4, <1>5, StepOf DEF memory, Leaving

LEMMA EndKeeps ==
  ASSUME IInv, NEW p \in Proc, Exit(p) \/ Crash(p)
  PROVE  IInv'
<1>1. Shaped
  BY DEF IInv
<1>2. faults' \in [Proc -> Nat]
  BY <1>1, FaultsTyped DEF Exit, Crash, Shaped
<1> QED
  BY <1>2, VanishKeeps DEF Exit, Crash, kernelVars, memory

LEMMA StutterKeeps ==
  ASSUME IInv, LingerEnds \/ UNCHANGED vars
  PROVE  IInv'
<1>1. /\ setup' = setup /\ exported' = exported /\ actlow' = actlow /\ faults' = faults /\ table' = table
      /\ pc' = pc /\ todo' = todo /\ gp_list' = gp_list /\ memory' = memory
  BY DEF LingerEnds, vars, kernelVars
<1>2. Shaped'
  BY <1>1 DEF IInv, Shaped, memory
<1>3. ASSUME NEW q \in Proc PROVE Local(q)'
  <2>1. Local(q) /\ TableTyped(q) /\ SameMemory(q)
    BY <1>1 DEF IInv, Local, SameMemory, memory
  <2>2. Alike(table[q], table'[q])
    BY <1>1, <2>1, AlikeItself
  <2> QED
    BY <1>1, <2>1, <2>2, OthersKept
<1>4. \A q \in Proc : LiveIsExported(q)'
  BY <1>1, LiveKept DEF IInv, memory
<1> QED
  BY <1>2, <1>3, <1>4 DEF IInv

\* Steps of main that touch no pin: what they have to show.
LEMMA MainStep ==
  ASSUME IInv, NEW p \in Proc, pc'[p] \notin AtPins, pc[p] \notin AtPins, setup' = setup, exported' = exported,
         Others(p), Shaped', Settled(p)', ListTyped(p)', HeldTyped(p)',
         \A i \in DOMAIN pins'[p], k \in HeldKeys : i \in Kept(p)' => held'[p][i][k] <= 0,
         pc[p] \in Leaving => pc'[p] \in Leaving /\ pins'[p] = pins[p],
         \A n \in DOMAIN table'[p] :
           \/ n \in DOMAIN table[p] /\ table'[p][n] = table[p][n]
           \/ table'[p][n].live /\ table'[p][n].kind \notin LineFiles
  PROVE  IInv'
<1>1. Kept(p)' \subseteq DOMAIN pins'[p]
  BY DEF Kept, ListTyped
<1>2. HeldOwn(p)' /\ HeldApart(p)'
  BY <1>1 DEF HeldOwn, HeldApart, HeldTyped
<1>3. ValueHeld(p)' /\ DirOwn(p)'
  BY DEF ValueHeld, DirOwn, AtPins
<1>4. Local(p)'
  BY <1>2, <1>3 DEF Local, Settled
<1> QED
  BY <1>4, StepOf

LEMMA CleanSysfsKeeps ==
  ASSUME IInv, NEW p \in Proc, CleanSysfs(p)
  PROVE  IInv'
<1> DEFINE t == table[p]
           X == {sys[p][k] : k \in DOMAIN sys[p]}
           u == Shut(t, X)
<1>1. /\ Shaped /\ Settled(p) /\ ListTyped(p) /\ HeldTyped(p) /\ TableTyped(p) /\ IsTable(t)
      /\ SysTyped(p) /\ SysOwn(p) /\ pc[p] = "cleansysfs"
  BY LocalIs DEF CleanSysfs, IInv, Settled, TableTyped
<1>2. /\ setup' = setup /\ exported' = exported /\ actlow' = actlow /\ faults' = faults /\ todo' = todo
      /\ gp_list' = gp_list /\ memory' = memory
  BY DEF CleanSysfs, kernelVars
<1>3. CASE Vanish(p)
  BY <1>1, <1>2, <1>3, VanishKeeps DEF Shaped
<1>4. CASE Goto(p, "cleanchips") /\ Open(p, u)
  <2>1. /\ Others(p) /\ pc'[p] = "cleanchips" /\ table'[p] = u /\ pins' = pins /\ held' = held
        /\ chips' = chips /\ sys' = sys
    BY <1>1, <1>2, <1>4 DEF Goto, Open, memory, Others, SameMemory, Shaped
  <2>2. Shaped'
    BY <1>1, <1>2, <1>4 DEF Shaped, Goto, Open, memory
  <2>3. IsTable(u) /\ DOMAIN u = DOMAIN t \ X /\ \A n \in DOMAIN t \ X : u[n] = t[n]
    <3> HIDE DEF X, t
    <3> QED
      BY <1>1, SomeShut
  <2> HIDE DEF u
  <2>4. TableTyped(p)'
    BY <1>1, <2>1, <2>3 DEF TableTyped
  <2>5. \A n \in DOMAIN t \cap X : t[n].kind \in SysKeys
    <3> SUFFICES ASSUME NEW k \in SysKeys, sys[p][k] \in DOMAIN t
                 PROVE  t[sys[p][k]].kind \in SysKeys
      BY <1>1 DEF SysTyped
    <3>1. sys[p][k] # -1
      BY <1>1 DEF IsTable
    <3> QED
      BY <1>1, <3>1 DEF SysOwn, Has, KindAt
  <2>6. \A n \in DOMAIN t : t[n].kind \notin SysKeys => n \in DOMAIN u /\ u[n] = t[n]
    BY <2>3, <2>5
  <2>7. PcTyped(p)' /\ PinsRead(p)' /\ SysTyped(p)' /\ ConfigRead(p)' /\ EarlyFiles(p)' /\ SysOwn(p)'
    BY <1>1, <1>2, <2>1 DEF Settled, PcTyped, PinsRead, SysTyped, ConfigRead, EarlyFiles, SysOwn, Text, Early
  <2>8. ChipsTyped(p)'
    BY <1>1, <1>2, <2>1 DEF Settled, ChipsTyped, Early
  <2>9. LowNumbers(p)'
    BY <1>1, <1>2, <2>1, <2>6 DEF Settled, LowNumbers, KindAt, Up, AtPins, InPin, SysKeys
  <2>10. ChipsOwn(p)'
    BY <1>1, <1>2, <2>1, <2>6 DEF Settled, ChipsOwn, Has, KindAt, OfAt, SysKeys
  <2>11. ChipsStale(p)'
    <3>1. "sysfs" \in DOMAIN sys[p]
      BY <1>1 DEF SysTyped, SysKeys
    <3> QED
      BY <1>1, <1>2, <2>1, <2>3, <3>1 DEF Settled, ChipsStale, KindAt, AtPins, InPin
  <2>12. Settled(p)'
    BY <2>4, <2>7, <2>8, <2>9, <2>10, <2>11 DEF Settled
  <2>13. ListTyped(p)' /\ HeldTyped(p)' /\ Kept(p)' = {}
    BY <1>1, <1>2, <2>1 DEF ListTyped, HeldTyped, Kept, Early, AtPins, InPin
  <2> QED
    BY <1>1, <1>2, <2>1, <2>2, <2>3, <2>12, <2>13, MainStep DEF Leaving, AtPins, InPin
<1> QED
  BY <1>3, <1>4 DEF CleanSysfs

LEMMA CleanChipsKeeps ==
  ASSUME IInv, NEW p \in Proc, CleanChips(p)
  PROVE  IInv'
<1> DEFINE t == table[p]
           X == {chips[p][i].fd : i \in DOMAIN chips[p]}
           u == Shut(t, X)
<1>1. /\ Shaped /\ Settled(p) /\ ListTyped(p) /\ HeldTyped(p) /\ TableTyped(p) /\ IsTable(t)
      /\ ChipsOwn(p) /\ ChipsStale(p) /\ LowNumbers(p) /\ pc[p] = "cleanchips"
  BY LocalIs DEF CleanChips, IInv, Settled, TableTyped
<1>2. /\ setup' = setup /\ exported' = exported /\ actlow' = actlow /\ faults' = faults /\ todo' = todo
      /\ gp_list' = gp_list /\ memory' = memory
  BY DEF CleanChips, kernelVars
<1>3. /\ Others(p) /\ pc'[p] = "exit" /\ table'[p] = u /\ pins' = pins /\ held' = held
      /\ chips' = chips /\ sys' = sys
  BY <1>1, <1>2 DEF CleanChips, Goto, Open, memory, Others, SameMemory, Shaped
<1>4. Shaped'
  BY <1>1, <1>2 DEF Shaped, CleanChips, Goto, Open, memory
<1>5. IsTable(u) /\ DOMAIN u = DOMAIN t \ X /\ \A n \in DOMAIN t \ X : u[n] = t[n]
  <2> HIDE DEF X, t
  <2> QED
    BY <1>1, SomeShut
<1> HIDE DEF u
<1>6. TableTyped(p)'
  BY <1>1, <1>3, <1>5 DEF TableTyped
<1>7. \A n \in 0..3 : n \in DOMAIN t /\ t[n].kind \in {"std", "signal", "log"} /\ n \notin X
  <2>1. \A n \in 0..3 : n \in DOMAIN t /\ t[n].kind \in {"std", "signal", "log"}
    BY <1>1 DEF LowNumbers, Up, KindAt
  <2>2. CASE setup.uapi
    BY <1>1, <2>1, <2>2 DEF ChipsOwn, Has, KindAt
  <2>3. CASE ~setup.uapi
    BY <1>1, <2>1, <2>3 DEF ChipsStale
  <2> QED
    BY <2>1, <2>2, <2>3
<1>8. PcTyped(p)' /\ PinsRead(p)' /\ SysTyped(p)' /\ ConfigRead(p)' /\ EarlyFiles(p)' /\ SysOwn(p)'
  BY <1>1, <1>2, <1>3 DEF Settled, PcTyped, PinsRead, SysTyped, ConfigRead, EarlyFiles, SysOwn, Text, Early
<1>9. ChipsTyped(p)' /\ ChipsOwn(p)'
  BY <1>1, <1>2, <1>3 DEF Settled, ChipsTyped, ChipsOwn, Early
<1>10. LowNumbers(p)'
  BY <1>3, <1>5, <1>7 DEF LowNumbers, KindAt, Up, AtPins, InPin
<1>11. ChipsStale(p)'
  BY <1>1, <1>2, <1>3 DEF ChipsStale, AtPins, InPin
<1>12. Settled(p)'
  BY <1>6, <1>8, <1>9, <1>10, <1>11 DEF Settled
<1>13. ListTyped(p)' /\ HeldTyped(p)' /\ Kept(p)' = {}
  BY <1>1, <1>2, <1>3 DEF ListTyped, HeldTyped, Kept, Early, AtPins, InPin
<1> QED
  BY <1>1, <1>2, <1>3, <1>4, <1>5, <1>12, <1>13, MainStep DEF Leaving, AtPins, InPin

-----------------------------------------------------------------------------
(***************************************************************************)
(* Steps before the pins.                                                   *)
(***************************************************************************)
\* The first n numbers are open, on files of main.
FirstKinds == {"std", "signal", "log"}
MainTable(t, n) ==
  /\ IsTable(t) /\ DOMAIN t = 0..(n - 1)
  /\ \A m \in DOMAIN t : t[m] \in FileType /\ t[m].live /\ t[m].kind \in FirstKinds

LEMMA MainOpened ==
  ASSUME NEW n \in Nat, NEW t, MainTable(t, n), NEW kind \in FirstKinds
  PROVE  MainTable(Opened(t, File(kind, 0)), n + 1)
<1> DEFINE f == File(kind, 0)
           u == Opened(t, f)
<1>1. f \in FileType /\ f.live /\ f.kind \in FirstKinds
  BY FileTyped DEF FirstKinds, Kinds
<1>2. IsTable(t) /\ DOMAIN t = 0..(n - 1)
  BY DEF MainTable
<1>3. Lowest(t) = n
  <2>1. Lowest(t) \in Nat \ DOMAIN t /\ \A m \in Nat : m < Lowest(t) => m \in DOMAIN t
    BY <1>2, LowestIsFree
  <2> QED
    BY <1>2, <2>1
<1> HIDE DEF f
<1>4. /\ IsTable(u) /\ DOMAIN u = DOMAIN t \cup {n} /\ u[n] = f
      /\ \A m \in DOMAIN t : u[m] = t[m]
  <2>1. Beside(t, f, u)
    BY <1>2, OneOpened
  <2> QED
    BY <1>3, <2>1 DEF Beside
<1> HIDE DEF u
<1>5. DOMAIN u = 0..((n + 1) - 1)
  BY <1>2, <1>4
<1>6. MainTable(u, n + 1)
  BY <1>1, <1>4, <1>5 DEF MainTable
<1> QED
  BY <1>6 DEF u, f

LEMMA MainSyslog ==
  ASSUME NEW n \in Nat, NEW t, MainTable(t, n)
  PROVE  MainTable(Syslog(t), n) \/ MainTable(Syslog(t), n + 1)
<1>1. MainTable(Opened(t, File("log", 0)), n + 1)
  BY MainOpened DEF FirstKinds
<1> QED
  BY <1>1 DEF Syslog

LEMMA AtMainTable ==
  ASSUME NEW p \in Proc
  PROVE  \E n \in Nat : n > 3 /\ MainTable(AtMain(p), n)
<1> DEFINE files == [i \in 1..3 |-> File("std", 0)]
           after == Opening(NoFiles, files)
           t == IF "pid_file" \in setup.logs THEN Syslog(after[3]) ELSE after[3]
<1>1. Len(files) = 3 /\ \A i \in 1..3 : files[i] = File("std", 0)
  OBVIOUS
<1>2. AtMain(p) = Opened(t, File("signal", 0))
  BY <1>1 DEF AtMain, AllOpened
<1> HIDE DEF files
<1>3. after[0] = NoFiles /\ \A k \in 1..3 : after[k] = Opened(after[k - 1], files[k])
  BY <1>1, OpeningStep
<1> HIDE DEF after
<1>4. MainTable(after[0], 0)
  BY <1>3, NothingOpen DEF MainTable
<1>5. \A k \in 1..3 : MainTable(after[k - 1], k - 1) => MainTable(after[k], k)
  <2> SUFFICES ASSUME NEW k \in 1..3, MainTable(after[k - 1], k - 1) PROVE MainTable(after[k], k)
    OBVIOUS
  <2>1. MainTable(Opened(after[k - 1], File("std", 0)), (k - 1) + 1)
    BY MainOpened DEF FirstKinds
  <2> QED
    BY <1>1, <1>3, <2>1
<1>6. MainTable(after[3], 3)
  BY <1>4, <1>5
<1>7. MainTable(t, 3) \/ MainTable(t, 4)
  BY <1>6, MainSyslog
<1> HIDE DEF t
<1>8. MainTable(AtMain(p), 4) \/ MainTable(AtMain(p), 5)
  BY <1>2, <1>7, MainOpened DEF FirstKinds
<1> QED
  BY <1>8

LEMMA EarlyHeld ==
  ASSUME NEW p \in Proc, HeldOwn(p), EarlyFiles(p), HeldTyped(p), ListTyped(p), pc[p] \in Early \cup {"sysfs"}
  PROVE  \A i \in DOMAIN pins[p], k \in HeldKeys : held[p][i][k] <= 0
<1> SUFFICES ASSUME NEW i \in DOMAIN pins[p], NEW k \in HeldKeys, held[p][i][k] > 0 PROVE FALSE
  BY DEF HeldTyped
<1>1. i \in Kept(p)
  BY DEF Kept, ListTyped, Early
<1>2. Fits(table[p], pins[p][i], held[p][i][k], k)
  BY <1>1 DEF HeldOwn
<1> QED
  BY <1>2 DEF Fits, EarlyFiles, KindAt, Early, HeldKeys

LEMMA StartKeeps ==
  ASSUME IInv, NEW p \in Proc, Start(p)
  PROVE  IInv'
<1>1. Shaped /\ Settled(p) /\ ListTyped(p) /\ HeldTyped(p) /\ SysOwn(p) /\ EarlyFiles(p) /\ LowNumbers(p) /\ pc[p] = "off"
  BY LocalIs DEF Start, IInv, Settled
<1>2. /\ setup' = setup /\ exported' = exported /\ actlow' = actlow /\ faults' = faults /\ todo' = todo
      /\ gp_list' = gp_list /\ memory' = memory
  BY DEF Start, kernelVars
<1>3. /\ Others(p) /\ pc'[p] = "config" /\ table'[p] = AtMain(p) /\ pins' = pins /\ held' = held
      /\ chips' = chips /\ sys' = sys
  BY <1>1, <1>2 DEF Start, Goto, Open, memory, Others, SameMemory, Shaped
<1>4. Shaped'
  BY <1>1, <1>2 DEF Shaped, Start, Goto, Open, memory
<1>5. PICK n \in Nat : n > 3 /\ MainTable(table'[p], n)
  BY <1>3, AtMainTable
<1>6. TableTyped(p)' /\ LowNumbers(p)' /\ EarlyFiles(p)'
  BY <1>3, <1>5 DEF MainTable, FirstKinds, FileType, TableTyped, LowNumbers, EarlyFiles, KindAt, Up, AtPins, InPin
<1>7. \A k \in SysKeys : sys[p][k] = -1
  BY <1>1 DEF SysOwn, EarlyFiles, Has, KindAt, Early, SysKeys
<1>8. PcTyped(p)' /\ PinsRead(p)' /\ SysTyped(p)' /\ ConfigRead(p)' /\ SysOwn(p)'
  BY <1>1, <1>2, <1>3, <1>7 DEF Settled, PcTyped, PinsRead, SysTyped, ConfigRead, SysOwn, Text
<1>9. ChipsTyped(p)' /\ ChipsOwn(p)' /\ ChipsStale(p)'
  BY <1>1, <1>2, <1>3 DEF Settled, ChipsTyped, ChipsOwn, ChipsStale, Early
<1>10. Settled(p)'
  BY <1>6, <1>8, <1>9 DEF Settled
<1>11. ListTyped(p)' /\ HeldTyped(p)'
  BY <1>1, <1>2, <1>3 DEF ListTyped, HeldTyped, Early, AtPins, InPin
<1>12. \A i \in DOMAIN pins[p], k \in HeldKeys : held[p][i][k] <= 0
  BY <1>1, EarlyHeld DEF IInv, Local, Early
<1>13. \A m \in DOMAIN table'[p] : table'[p][m].live /\ table'[p][m].kind \notin LineFiles
  BY <1>5 DEF MainTable, FirstKinds, LineFiles
<1> QED
  BY <1>1, <1>2, <1>3, <1>4, <1>10, <1>11, <1>12, <1>13, MainStep DEF AtPins, InPin, Leaving

LEMMA NotHeldTyped == NotHeld \in [HeldKeys -> Int] /\ \A k \in HeldKeys : NotHeld[k] = 0
BY DEF NotHeld, HeldKeys

\* In the beginning only main's files are opened; with the log they stay that.
LEMMA EarlyKept ==
  ASSUME IInv, NEW p \in Proc, pc[p] \in Early, pc[p] # "off", pc'[p] \in {"tabs", "chips", "exit", "cleansysfs"},
         setup' = setup, sys'[p] = sys[p], chips'[p] = chips[p],
         Grows(table[p], table'[p]),
         \A n \in DOMAIN table'[p] \ DOMAIN table[p] : table'[p][n] = File("log", 0),
         PinsRead(p)', pc'[p] = "exit" \/ LoadOutcome(Text(p)) = "ok"
  PROVE  Settled(p)'
<1>1. /\ Settled(p) /\ SysOwn(p) /\ EarlyFiles(p) /\ LowNumbers(p) /\ TableTyped(p) /\ ChipsTyped(p) /\ SysTyped(p)
      /\ chips[p] = <<>>
  BY LocalIs DEF IInv, Settled, ChipsTyped
<1>2. TableTyped(p)'
  BY <1>1, GrownTyped
<1>3. \A n \in DOMAIN table'[p] : table'[p][n].kind \in FirstKinds
  BY <1>1 DEF Grows, File, FirstKinds, EarlyFiles, KindAt
<1>4. LowNumbers(p)'
  <2>1. \A n \in 0..3 : n \in DOMAIN table[p]
    BY <1>1 DEF LowNumbers, Up, Early
  <2> QED
    BY <1>3, <2>1 DEF LowNumbers, Grows, KindAt, FirstKinds, AtPins, InPin
<1>5. EarlyFiles(p)'
  BY <1>3 DEF EarlyFiles, KindAt, FirstKinds
<1>6. \A k \in SysKeys : sys[p][k] = -1
  BY <1>1 DEF SysOwn, EarlyFiles, Has, KindAt, Early, SysKeys
<1>7. PcTyped(p)' /\ SysTyped(p)' /\ ConfigRead(p)' /\ SysOwn(p)'
  BY <1>1, <1>6 DEF PcTyped, SysTyped, ConfigRead, SysOwn, Text
<1>8. ChipsTyped(p)' /\ ChipsOwn(p)' /\ ChipsStale(p)'
  BY <1>1 DEF ChipsTyped, ChipsOwn, ChipsStale
<1> QED
  BY <1>2, <1>4, <1>5, <1>7, <1>8 DEF Settled

LEMMA LoadConfigKeeps ==
  ASSUME IInv, NEW p \in Proc, LoadConfig(p)
  PROVE  IInv'
<1> DEFINE t == table[p]
           read == IF LoadOutcome(Text(p)) = "ok" THEN PinsOf(Text(p), setup.uapi) ELSE <<>>
<1>1. /\ Shaped /\ Settled(p) /\ ListTyped(p) /\ TableTyped(p) /\ IsTable(t) /\ pc[p] = "config" /\ todo[p] = {}
  BY LocalIs DEF LoadConfig, IInv, Settled, TableTyped, ListTyped, Early
<1>2. /\ setup' = setup /\ exported' = exported /\ actlow' = actlow /\ faults' = faults /\ todo' = todo
      /\ gpio_dir' = gpio_dir /\ chips' = chips /\ sys' = sys
      /\ pins'[p] = read /\ gp_list'[p] = DOMAIN read /\ held'[p] = [i \in DOMAIN read |-> NotHeld]
  BY <1>1 DEF LoadConfig, kernelVars, Shaped
<1>3. \/ pc'[p] = "gone" /\ table'[p] = NoFiles
      \/ pc'[p] = "exit" /\ table'[p] = Syslog(t)
      \/ pc'[p] = "tabs" /\ LoadOutcome(Text(p)) = "ok" /\ table'[p] \in {t, Syslog(t)}
  <2>1. LoadOutcome(Text(p)) \in {"ok", "fail", "crash"}
    BY DEF LoadOutcome
  <2> QED
    BY <1>1, <2>1 DEF LoadConfig, Vanish, Goto, Open, Shaped
<1>4. Others(p)
  BY <1>1, <1>2 DEF LoadConfig, Vanish, Goto, Open, Others, SameMemory, Shaped
<1>5. Shaped'
  BY <1>1, <1>2 DEF LoadConfig, Vanish, Goto, Open, Shaped
<1>6. HeldTyped(p)' /\ \A i \in DOMAIN pins'[p], k \in HeldKeys : held'[p][i][k] <= 0
  BY <1>2, NotHeldTyped DEF HeldTyped
<1>7. ListTyped(p)'
  BY <1>1, <1>2, <1>3 DEF ListTyped, Early, AtPins, InPin
<1>8. PinsRead(p)'
  <2>1. read \in {<<>>, PinsOf(Text(p), setup.uapi)} /\ Text(p)' = Text(p)
    BY <1>2 DEF Text
  <2> HIDE DEF read
  <2> QED
    BY <1>2, <2>1 DEF PinsRead
<1>9. CASE pc'[p] = "gone" /\ table'[p] = NoFiles
  <2>1. IsTable(table'[p]) /\ DOMAIN table'[p] = {}
    BY <1>9, NothingOpen
  <2>2. Settled(p)'
    BY <1>1, <1>2, <1>8, <1>9, <2>1 DEF Settled, PcTyped, TableTyped, SysTyped, ChipsTyped, ConfigRead,
       LowNumbers, EarlyFiles, SysOwn, ChipsOwn, ChipsStale, Early, AtPins, InPin, Up
  <2> QED
    BY <1>1, <1>2, <1>4, <1>5, <1>6, <1>7, <1>9, <2>1, <2>2, MainStep DEF AtPins, InPin, Leaving
<1>10. CASE pc'[p] # "gone"
  <2>1. Grows(t, table'[p]) /\ \A n \in DOMAIN table'[p] \ DOMAIN t : table'[p][n] = File("log", 0)
    <3>1. CASE table'[p] = t
      BY <1>1, <3>1 DEF Grows
    <3>2. CASE table'[p] = Syslog(t)
      BY <1>1, <3>2, SyslogGrows
    <3> QED
      BY <1>3, <1>10, <3>1, <3>2
  <2>2. Settled(p)'
    BY <1>1, <1>2, <1>3, <1>8, <1>10, <2>1, EarlyKept DEF Early
  <2>3. \A n \in DOMAIN table'[p] :
           \/ n \in DOMAIN table[p] /\ table'[p][n] = table[p][n]
           \/ table'[p][n].live /\ table'[p][n].kind \notin LineFiles
    BY <2>1 DEF Grows, File, LineFiles
  <2> QED
    BY <1>1, <1>2, <1>3, <1>4, <1>5, <1>6, <1>7, <1>10, <2>2, <2>3, MainStep DEF AtPins, InPin, Leaving
<1> QED
  BY <1>9, <1>10, <1>3

\* What is opened for reading the tabs is closed again, but for the log.
LEMMA LoadTabsTable ==
  ASSUME NEW t, IsTable(t), NEW n, NEW m
  PROVE  LET files == <<n, m>>
             reading == AllOpened(t, files)
             u == Shut(Syslog(reading), DOMAIN reading \ DOMAIN t)
         IN  Grows(t, u) /\ \A k \in DOMAIN u \ DOMAIN t : u[k] = File("log", 0)
<1> DEFINE files == <<n, m>>
           reading == AllOpened(t, files)
           v == Syslog(reading)
           X == DOMAIN reading \ DOMAIN t
           u == Shut(v, X)
<1>1. Len(files) = 2
  OBVIOUS
<1> HIDE DEF files
<1>2. reading = Opening(t, files)[2]
  BY <1>1 DEF AllOpened
<1>3. /\ IsTable(Opening(t, files)[2]) /\ DOMAIN t \subseteq DOMAIN Opening(t, files)[2]
      /\ \A k \in DOMAIN t : Opening(t, files)[2][k] = t[k]
  <2> DEFINE N == Len(files)
  <2>1. N \in Nat /\ N \in 0..N
    BY <1>1
  <2> HIDE DEF N
  <2>2. AllBeside(t, files, N, Opening(t, files))
    BY <2>1, SeveralOpened DEF N
  <2> QED
    BY <1>1, <2>2 DEF N, AllBeside
<1> HIDE DEF reading
<1>4. Grows(reading, v) /\ \A k \in DOMAIN v \ DOMAIN reading : v[k] = File("log", 0)
  BY <1>2, <1>3, SyslogGrows
<1>5. IsTable(v)
  BY <1>4 DEF Grows
<1> HIDE DEF v, X
<1>6. IsTable(u) /\ DOMAIN u = DOMAIN v \ X /\ \A k \in DOMAIN v \ X : u[k] = v[k]
  BY <1>5, SomeShut
<1> HIDE DEF u
<1>7. DOMAIN t \subseteq DOMAIN u /\ \A k \in DOMAIN t : u[k] = t[k]
  BY <1>2, <1>3, <1>4, <1>6 DEF Grows, X
<1>8. \A k \in DOMAIN u \ DOMAIN t : u[k] = File("log", 0)
  BY <1>4, <1>6 DEF X
<1>9. File("log", 0) \in FileType /\ File("log", 0).live
  BY FileTyped DEF Kinds
<1>10. Grows(t, u)
  BY <1>6, <1>7, <1>8, <1>9 DEF Grows
<1> QED
  BY <1>8, <1>10 DEF u, v, X, reading, files

LEMMA LoadTabsKeeps ==
  ASSUME IInv, NEW p \in Proc, LoadTabs(p)
  PROVE  IInv'
<1> DEFINE t == table[p]
           reading == AllOpened(t, <<File("tabs", 0), File("tab", 0)>>)
           u == Shut(Syslog(reading), DOMAIN reading \ DOMAIN t)
<1>1. /\ Shaped /\ Settled(p) /\ ListTyped(p) /\ HeldTyped(p) /\ TableTyped(p) /\ IsTable(t) /\ pc[p] = "tabs"
  BY LocalIs DEF LoadTabs, IInv, Settled, TableTyped
<1>2. /\ setup' = setup /\ exported' = exported /\ actlow' = actlow /\ faults' = faults /\ todo' = todo
      /\ gp_list' = gp_list /\ memory' = memory
  BY DEF LoadTabs, kernelVars
<1>3. /\ Others(p) /\ pc'[p] = "chips" /\ pins' = pins /\ held' = held /\ chips' = chips /\ sys' = sys
      /\ table'[p] \in {t, Syslog(t), u}
  BY <1>1, <1>2 DEF LoadTabs, Goto, Open, memory, Others, SameMemory, Shaped
<1>4. Shaped'
  BY <1>1, <1>2 DEF Shaped, LoadTabs, Goto, Open, memory
<1>5. Grows(t, table'[p]) /\ \A n \in DOMAIN table'[p] \ DOMAIN t : table'[p][n] = File("log", 0)
  <2>1. CASE table'[p] = t
    BY <1>1, <2>1 DEF Grows
  <2>2. CASE table'[p] = Syslog(t)
    BY <1>1, <2>2, SyslogGrows
  <2>3. CASE table'[p] = u
    <3> HIDE DEF t
    <3>1. Grows(t, u) /\ \A n \in DOMAIN u \ DOMAIN t : u[n] = File("log", 0)
      BY <1>1, LoadTabsTable
    <3> QED
      BY <2>3, <3>1
  <2> QED
    BY <1>3, <2>1, <2>2, <2>3
<1>6. PinsRead(p)' /\ LoadOutcome(Text(p)) = "ok"
  BY <1>1, <1>2, <1>3 DEF Settled, PinsRead, ConfigRead, Text
<1>7. Settled(p)'
  BY <1>1, <1>2, <1>3, <1>5, <1>6, EarlyKept DEF Early
<1>8. ListTyped(p)' /\ HeldTyped(p)'
  BY <1>1, <1>2, <1>3 DEF ListTyped, HeldTyped, Early, AtPins, InPin
<1>9. \A i \in DOMAIN pins[p], k \in HeldKeys : held[p][i][k] <= 0
  BY <1>1, EarlyHeld DEF IInv, Local, Early
<1>10. \A n \in DOMAIN table'[p] :
        \/ n \in DOMAIN table[p] /\ table'[p][n] = table[p][n]
        \/ table'[p][n].live /\ table'[p][n].kind \notin LineFiles
  BY <1>5 DEF Grows, File, LineFiles
<1> QED
  BY <1>1, <1>2, <1>3, <1>4, <1>7, <1>8, <1>9, <1>10, MainStep DEF AtPins, InPin, Leaving

\* The directory of the chips and the chips, as ScanUapi opens them.
ChipFiles == <<File("chipdir", 0)>> \o [i \in 1..Len(Chips) |-> File("chip", i)]

LEMMA Appended ==
  ASSUME NEW S, NEW a \in Seq(S), NEW b \in Seq(S)
  PROVE  /\ Len(a) \in Nat /\ Len(b) \in Nat /\ Len(a \o b) = Len(a) + Len(b)
         /\ \A i \in 1..(Len(a) + Len(b)) : (a \o b)[i] = IF i <= Len(a) THEN a[i] ELSE b[i - Len(a)]
OBVIOUS

LEMMA ChipFilesAre ==
  /\ Len(Chips) \in Nat /\ Len(ChipFiles) = Len(Chips) + 1
  /\ ChipFiles[1] = File("chipdir", 0)
  /\ \A i \in 1..Len(Chips) : ChipFiles[i + 1] = File("chip", i)
<1> DEFINE n == Len(Chips)
           s == [i \in 1..n |-> File("chip", i)]
           d == <<File("chipdir", 0)>>
<1>1. n \in Nat
  BY ChipsTyping
<1> HIDE DEF n
<1>2. s \in Seq(FileType) /\ Len(s) = n
  <2>1. \A i \in 1..n : File("chip", i) \in FileType
    BY <1>1, FileTyped DEF Kinds
  <2> QED
    BY <1>1, <2>1
<1>3. d \in Seq(FileType) /\ Len(d) = 1 /\ d[1] = File("chipdir", 0)
  BY FileTyped DEF Kinds
<1>4. \A i \in 1..n : s[i] = File("chip", i)
  OBVIOUS
<1> HIDE DEF s, d
<1>5. Len(d \o s) = n + 1 /\ (d \o s)[1] = d[1] /\ \A i \in 1..n : (d \o s)[i + 1] = s[i]
  <2>5. /\ Len(d \o s) = Len(d) + Len(s)
        /\ \A i \in 1..(Len(d) + Len(s)) : (d \o s)[i] = IF i <= Len(d) THEN d[i] ELSE s[i - Len(d)]
    BY <1>2, <1>3, Appended
  <2>1. Len(d \o s) = n + 1
    BY <1>1, <1>2, <1>3, <2>5
  <2>2. \A i \in 1..(1 + n) : (d \o s)[i] = IF i <= 1 THEN d[i] ELSE s[i - 1]
    BY <1>2, <1>3, <2>5
  <2>3. ASSUME NEW i \in 1..n PROVE (d \o s)[i + 1] = s[i]
    <3>1. i + 1 \in 1..(1 + n) /\ ~(i + 1 <= 1) /\ (i + 1) - 1 = i
      BY <1>1
    <3> QED
      BY <1>2, <1>3, <2>2, <3>1
  <2>4. (d \o s)[1] = d[1]
    BY <1>1, <1>2, <1>3, <2>2
  <2> QED
    BY <2>1, <2>3, <2>4
<1> QED
  BY <1>1, <1>3, <1>4, <1>5 DEF ChipFiles, n, s, d

LEMMA ChipsOpened ==
  ASSUME NEW t, IsTable(t), NEW left \in 0..Len(Chips)
  PROVE  LET after == Opening(t, ChipFiles)
             u == Shut(after[left + 1], {Lowest(t)})
         IN  /\ Grows(t, u)
             /\ \A n \in DOMAIN u \ DOMAIN t : u[n].kind = "chip" /\ \E i \in 1..left : n = Lowest(after[i])
             /\ \A i \in 1..left : Lowest(after[i]) \in DOMAIN u /\ u[Lowest(after[i])] = File("chip", i)
<1> DEFINE after == Opening(t, ChipFiles)
           X == {Lowest(t)}
           v == after[left + 1]
           u == Shut(v, X)
<1>1. /\ Len(Chips) \in Nat /\ Len(ChipFiles) = Len(Chips) + 1
      /\ ChipFiles[1] = File("chipdir", 0)
      /\ \A i \in 1..Len(Chips) : ChipFiles[i + 1] = File("chip", i)
  BY ChipFilesAre
<1>2. Len(ChipFiles) \in Nat /\ left + 1 \in 0..Len(ChipFiles)
  BY <1>1
<1>3. /\ IsTable(v)
      /\ DOMAIN v = DOMAIN t \cup {Lowest(after[j]) : j \in 0..((left + 1) - 1)}
      /\ \A n \in DOMAIN t : v[n] = t[n]
      /\ \A j \in 0..((left + 1) - 1) :
           /\ Lowest(after[j]) \in DOMAIN v \ DOMAIN t
           /\ v[Lowest(after[j])] = ChipFiles[j + 1]
  <2>1. AllBeside(t, ChipFiles, left + 1, after)
    BY <1>2, SeveralOpened
  <2> QED
    BY <2>1 DEF AllBeside
<1>4. after[0] = t
  BY <1>2, OpeningStep
<1> HIDE DEF after, v
<1>13. /\ DOMAIN v = DOMAIN t \cup {Lowest(after[j]) : j \in 0..left}
       /\ \A j \in 0..left : Lowest(after[j]) \in DOMAIN v \ DOMAIN t /\ v[Lowest(after[j])] = ChipFiles[j + 1]
  <2>1. (left + 1) - 1 = left
    BY <1>1
  <2> QED
    BY <1>3, <2>1
<1>5. v[Lowest(t)] = File("chipdir", 0) /\ Lowest(t) \notin DOMAIN t
  <2>1. 0 \in 0..left /\ 0 + 1 = 1
    BY <1>1
  <2>2. Lowest(after[0]) \in DOMAIN v \ DOMAIN t /\ v[Lowest(after[0])] = ChipFiles[0 + 1]
    BY <1>13, <2>1
  <2> QED
    BY <1>1, <1>4, <2>1, <2>2
<1>6. \A j \in 1..left : v[Lowest(after[j])] = File("chip", j) /\ Lowest(after[j]) \in DOMAIN v \ DOMAIN t
  <2> SUFFICES ASSUME NEW j \in 1..left
               PROVE  v[Lowest(after[j])] = File("chip", j) /\ Lowest(after[j]) \in DOMAIN v \ DOMAIN t
    OBVIOUS
  <2>1. j \in 0..left /\ j \in 1..Len(Chips)
    BY <1>1
  <2>2. Lowest(after[j]) \in DOMAIN v \ DOMAIN t /\ v[Lowest(after[j])] = ChipFiles[j + 1]
    BY <1>13, <2>1
  <2>3. ChipFiles[j + 1] = File("chip", j)
    BY <1>1, <2>1
  <2> QED
    BY <2>2, <2>3
<1> HIDE DEF X
<1>7. IsTable(u) /\ DOMAIN u = DOMAIN v \ X /\ \A n \in DOMAIN v \ X : u[n] = v[n]
  BY <1>3, SomeShut
<1> HIDE DEF u
<1>8. \A j \in 1..left : Lowest(after[j]) \in DOMAIN u /\ u[Lowest(after[j])] = File("chip", j)
  <2> SUFFICES ASSUME NEW j \in 1..left
               PROVE  Lowest(after[j]) \in DOMAIN u /\ u[Lowest(after[j])] = File("chip", j)
    OBVIOUS
  <2>1. File("chip", j) # File("chipdir", 0)
    BY DEF File
  <2>2. Lowest(after[j]) \notin X
    BY <1>5, <1>6, <2>1 DEF X
  <2> QED
    BY <1>6, <1>7, <2>2
<1>9. DOMAIN t \subseteq DOMAIN u /\ \A n \in DOMAIN t : u[n] = t[n]
  BY <1>3, <1>5, <1>7 DEF X
<1>10. ASSUME NEW n \in DOMAIN u \ DOMAIN t
       PROVE  \E j \in 1..left : n = Lowest(after[j]) /\ u[n] = File("chip", j)
  <2>1. n \in DOMAIN v /\ n # Lowest(t) /\ u[n] = v[n]
    BY <1>7, <1>10 DEF X
  <2>2. PICK j \in 0..left : n = Lowest(after[j])
    BY <1>10, <1>13, <2>1
  <2>3. j # 0
    BY <1>4, <2>1, <2>2
  <2> QED
    BY <1>6, <2>1, <2>2, <2>3
<1>11. \A n \in DOMAIN u \ DOMAIN t : u[n] \in FileType /\ u[n].live /\ u[n].kind = "chip"
  <2> SUFFICES ASSUME NEW j \in 1..left
               PROVE  File("chip", j) \in FileType /\ File("chip", j).live /\ File("chip", j).kind = "chip"
    BY <1>10
  <2> QED
    BY FileTyped DEF Kinds
<1>12. Grows(t, u)
  BY <1>7, <1>9, <1>11 DEF Grows
<1> QED
  BY <1>8, <1>10, <1>11, <1>12 DEF u, v, X, after

LEMMA InitChipsKeeps ==
  ASSUME IInv, NEW p \in Proc, InitChips(p)
  PROVE  IInv'
<1> DEFINE t == table[p]
           low == Lowest(t)
<1>1. /\ Shaped /\ Settled(p) /\ ListTyped(p) /\ HeldTyped(p) /\ TableTyped(p) /\ IsTable(t) /\ pc[p] = "chips"
      /\ SysOwn(p) /\ EarlyFiles(p) /\ LowNumbers(p) /\ ConfigRead(p)
  BY LocalIs DEF InitChips, IInv, Settled, TableTyped
<1>2. /\ setup' = setup /\ exported' = exported /\ actlow' = actlow /\ todo' = todo
      /\ gp_list' = gp_list /\ gpio_dir' = gpio_dir /\ held' = held /\ pins' = pins /\ sys' = sys
  BY DEF InitChips, kernelVars
<1>3. \A i \in DOMAIN pins[p], k \in HeldKeys : held[p][i][k] <= 0
  BY <1>1, EarlyHeld DEF IInv, Local, Early
<1>4. \A k \in SysKeys : sys[p][k] = -1
  BY <1>1 DEF SysOwn, EarlyFiles, Has, KindAt, Early, SysKeys
<1>5. PinsRead(p)' /\ SysTyped(p)' /\ HeldTyped(p)' /\ LoadOutcome(Text(p)) = "ok" /\ Text(p)' = Text(p)
  BY <1>1, <1>2 DEF Settled, PinsRead, SysTyped, HeldTyped, ConfigRead, Text
<1>6. CASE Fault(p) /\ Vanish(p) /\ chips' = chips
  <2>1. faults' \in [Proc -> Nat]
    BY <1>1, <1>6, FaultsTyped
  <2> QED
    BY <1>1, <1>2, <1>6, <2>1, VanishKeeps DEF memory
<1>7. CASE Fault(p) /\ Open(p, Syslog(t)) /\ Goto(p, "cleansysfs") /\ chips' = chips
  <2>1. faults' \in [Proc -> Nat]
    BY <1>1, <1>7, FaultsTyped
  <2>2. /\ Others(p) /\ pc'[p] = "cleansysfs" /\ table'[p] = Syslog(t)
    BY <1>1, <1>2, <1>7 DEF Goto, Open, Others, SameMemory, Shaped
  <2>3. Shaped'
    BY <1>1, <1>2, <1>7, <2>1 DEF Shaped, Goto, Open
  <2>4. Grows(t, table'[p]) /\ \A n \in DOMAIN table'[p] \ DOMAIN t : table'[p][n] = File("log", 0)
    BY <1>1, <2>2, SyslogGrows
  <2>5. Settled(p)'
    BY <1>1, <1>2, <1>5, <1>7, <2>2, <2>4, EarlyKept DEF Early
  <2>6. ListTyped(p)'
    BY <1>1, <1>2, <2>2 DEF ListTyped, Early, AtPins, InPin
  <2>7. \A n \in DOMAIN table'[p] :
        \/ n \in DOMAIN table[p] /\ table'[p][n] = table[p][n]
        \/ table'[p][n].live /\ table'[p][n].kind \notin LineFiles
    BY <2>4 DEF Grows, File, LineFiles
  <2> QED
    BY <1>1, <1>2, <1>3, <1>5, <2>2, <2>3, <2>5, <2>6, <2>7, MainStep DEF AtPins, InPin, Leaving
<1>8. ASSUME pc' = [pc EXCEPT ![p] = "sysfs"], Fine(p) \/ Fault(p), NEW u, DOMAIN table' = Proc, table'[p] = u, \A q \in Proc \ {p} : table'[q] = table[q],
             NEW c, chips' = [chips EXCEPT ![p] = c],
             Grows(t, u), \A n \in DOMAIN u \ DOMAIN t : u[n].kind = "chip",
             DOMAIN c \subseteq DOMAIN Chips,
             \A i \in DOMAIN c : /\ c[i].base = Chips[i].base /\ c[i].ngpio = Chips[i].ngpio
                                 /\ setup.uapi => c[i].name = Chips[i].name,
             setup.uapi => \A i \in DOMAIN c : c[i].fd \in DOMAIN u /\ u[c[i].fd] = File("chip", i),
             ~setup.uapi => \A i \in DOMAIN c : c[i].fd = low /\ u = t
      PROVE  IInv'
  <2>1. faults' \in [Proc -> Nat]
    BY <1>1, <1>8, FaultsTyped
  <2>2. /\ Others(p) /\ pc'[p] = "sysfs" /\ table'[p] = u /\ chips'[p] = c
    BY <1>1, <1>2, <1>8 DEF Others, SameMemory, Shaped
  <2>3. Shaped'
    BY <1>1, <1>2, <1>8, <2>1 DEF Shaped
  <2>4. TableTyped(p)'
    BY <1>1, <1>8, <2>2, GrownTyped
  <2>5. \A n \in DOMAIN u : u[n].kind \in {"std", "signal", "log", "chip"}
    BY <1>1, <1>8 DEF Grows, EarlyFiles, KindAt, Early
  <2>6. EarlyFiles(p)'
    BY <2>2, <2>5 DEF EarlyFiles, KindAt, Early
  <2>7. LowNumbers(p)'
    BY <1>1, <1>8, <2>2 DEF LowNumbers, KindAt, Up, AtPins, InPin, Grows
  <2>8. PcTyped(p)' /\ ConfigRead(p)' /\ SysOwn(p)'
    BY <1>2, <1>4, <1>5, <2>2 DEF PcTyped, ConfigRead, SysOwn
  <2>9. ChipsTyped(p)' /\ ChipsOwn(p)'
    <3>1. ChipsTyped(p)'
      BY <1>2, <1>8, <2>2 DEF ChipsTyped, Early
    <3>2. ASSUME setup.uapi, NEW i \in DOMAIN c
          PROVE  c[i].fd \in DOMAIN u /\ u[c[i].fd].kind = "chip" /\ u[c[i].fd].of = i
      <4>1. c[i].fd \in DOMAIN u /\ u[c[i].fd] = File("chip", i)
        BY <1>8, <3>2
      <4> QED
        BY <4>1 DEF File
    <3> QED
      BY <1>2, <2>2, <3>1, <3>2 DEF ChipsOwn, Has, KindAt, OfAt
  <2>10. ChipsStale(p)'
    <3>1. low \in Nat \ DOMAIN t
      BY <1>1, LowestIsFree
    <3>2. \A n \in 0..3 : n \in DOMAIN t
      BY <1>1 DEF LowNumbers, Up
    <3>3. low \notin 0..3
      BY <3>1, <3>2
    <3> HIDE DEF low
    <3>4. ~setup.uapi => \A i \in DOMAIN c : c[i].fd = Lowest(u)
      BY <1>8 DEF low
    <3> QED
      BY <1>2, <1>8, <2>2, <3>3, <3>4 DEF ChipsStale, AtPins, InPin
  <2>11. Settled(p)'
    BY <1>5, <2>4, <2>6, <2>7, <2>8, <2>9, <2>10 DEF Settled
  <2>12. ListTyped(p)'
    BY <1>1, <1>2, <2>2 DEF ListTyped, Early, AtPins, InPin
  <2>13. \A n \in DOMAIN table'[p] :
        \/ n \in DOMAIN table[p] /\ table'[p][n] = table[p][n]
        \/ table'[p][n].live /\ table'[p][n].kind \notin LineFiles
    BY <1>8, <2>2 DEF Grows, LineFiles
  <2> QED
    BY <1>1, <1>2, <1>3, <1>5, <2>2, <2>3, <2>11, <2>12, <2>13, MainStep DEF AtPins, InPin, Leaving
<1>9. CASE setup.uapi /\ ScanUapi(p)
  <2> DEFINE after == Opening(t, ChipFiles)
             chip(i) == [name |-> Chips[i].name, base |-> Chips[i].base,
                         ngpio |-> Chips[i].ngpio, fd |-> Lowest(after[i])]
  <2>1. PICK k \in 0..Len(Chips) : \E left \in k..(k + 1) :
          /\ IF k = Len(Chips) THEN left = k /\ Fine(p) ELSE left <= Len(Chips) /\ Fault(p)
          /\ Open(p, Shut(after[left + 1], {low}))
          /\ chips' = [chips EXCEPT ![p] = [i \in 1..k |-> chip(i)]]
          /\ Goto(p, "sysfs")
    BY <1>9 DEF ScanUapi, ChipFiles
  <2>2. PICK left \in k..(k + 1) :
          /\ IF k = Len(Chips) THEN left = k /\ Fine(p) ELSE left <= Len(Chips) /\ Fault(p)
          /\ Open(p, Shut(after[left + 1], {low}))
          /\ chips' = [chips EXCEPT ![p] = [i \in 1..k |-> chip(i)]]
          /\ Goto(p, "sysfs")
    BY <2>1
  <2> DEFINE u == Shut(after[left + 1], {low})
             c == [i \in 1..k |-> chip(i)]
  <2>3. left \in 0..Len(Chips) /\ DOMAIN c \subseteq DOMAIN Chips /\ \A i \in DOMAIN c : i \in 1..left
    <3>1. DOMAIN c = 1..k
      OBVIOUS
    <3> HIDE DEF c, after
    <3>2. left <= Len(Chips)
      BY <2>2
    <3>3. DOMAIN Chips = 1..Len(Chips) /\ Len(Chips) \in Nat
      BY ChipsTyping
    <3> QED
      BY <3>1, <3>2, <3>3
  <2>4. /\ Grows(t, u)
        /\ \A n \in DOMAIN u \ DOMAIN t : u[n].kind = "chip" /\ \E i \in 1..left : n = Lowest(after[i])
        /\ \A i \in 1..left : Lowest(after[i]) \in DOMAIN u /\ u[Lowest(after[i])] = File("chip", i)
    <3> HIDE DEF t
    <3> QED
      BY <1>1, <2>3, ChipsOpened DEF low
  <2>5. \A i \in DOMAIN c : /\ c[i].base = Chips[i].base /\ c[i].ngpio = Chips[i].ngpio
                            /\ c[i].name = Chips[i].name /\ c[i].fd = Lowest(after[i])
    OBVIOUS
  <2>6. /\ pc' = [pc EXCEPT ![p] = "sysfs"] /\ DOMAIN table' = Proc /\ table'[p] = u
        /\ \A q \in Proc \ {p} : table'[q] = table[q]
        /\ chips' = [chips EXCEPT ![p] = c]
        /\ Fine(p) \/ Fault(p)
    BY <1>1, <2>2 DEF Goto, Open, Shaped
  <2> HIDE DEF u, c, after, low
  <2>7. \A i \in DOMAIN c : c[i].fd \in DOMAIN u /\ u[c[i].fd] = File("chip", i)
    BY <2>3, <2>4, <2>5
  <2>8. \A i \in DOMAIN c : /\ c[i].base = Chips[i].base /\ c[i].ngpio = Chips[i].ngpio
                            /\ setup.uapi => c[i].name = Chips[i].name
    BY <2>5
  <2>9. \A n \in DOMAIN u \ DOMAIN t : u[n].kind = "chip"
    BY <2>4
  <2> HIDE DEF t
  <2> QED
    BY <1>8, <1>9, <2>3, <2>4, <2>6, <2>7, <2>8, <2>9
<1>10. CASE ~setup.uapi /\ ScanSysfs(p) /\ Fine(p) /\ Goto(p, "sysfs")
  <2> DEFINE c == [i \in DOMAIN Chips |-> [name |-> Absent, base |-> Chips[i].base,
                                           ngpio |-> Chips[i].ngpio, fd |-> low]]
  <2>1. chips' = [chips EXCEPT ![p] = c] /\ table' = table
    <3>1. ~Vanish(p)
      BY <1>1, <1>10 DEF Vanish, Goto, Shaped
    <3> QED
      BY <1>10, <3>1 DEF ScanSysfs
  <2>2. DOMAIN table' = Proc /\ table'[p] = t /\ Grows(t, t) /\ pc' = [pc EXCEPT ![p] = "sysfs"]
    BY <1>1, <1>10, <2>1 DEF Shaped, Grows, Goto
  <2>3. /\ DOMAIN c \subseteq DOMAIN Chips
        /\ \A i \in DOMAIN c : c[i].base = Chips[i].base /\ c[i].ngpio = Chips[i].ngpio /\ c[i].fd = low
    OBVIOUS
  <2> HIDE DEF c, low, t
  <2> QED
    BY <1>8, <1>10, <2>1, <2>2, <2>3 DEF ScanSysfs
<1> QED
  BY <1>6, <1>7, <1>9, <1>10 DEF InitChips, ScanSysfs

\* The directory of sysfs, `export` and `unexport`, or the first k of them.
SysfsFiles == [i \in 1..3 |-> File(SysFiles[i], 0)]

LEMMA SysfsOpened ==
  ASSUME NEW t, IsTable(t), 0..3 \subseteq DOMAIN t, NEW k \in 0..3
  PROVE  LET after == Opening(t, SysfsFiles)
             u == after[k]
         IN  /\ Len(SysfsFiles) = 3 /\ after[0] = t
             /\ Grows(t, u)
             /\ \A n \in DOMAIN u \ DOMAIN t :
                  u[n].kind \in SysKeys /\ \E x \in SysKeys : n = Lowest(after[Place[x] - 1])
             /\ \A x \in SysKeys : Place[x] \in 1..3 /\
                  (Place[x] <= k => LET n == Lowest(after[Place[x] - 1]) IN n \in DOMAIN u /\ u[n].kind = x)
             /\ k >= 1 => 4 \in DOMAIN t \/ (4 \in DOMAIN u /\ u[4].kind = "sysfs")
<1> DEFINE files == SysfsFiles
           after == Opening(t, files)
           u == after[k]
<1>1. Len(files) \in Nat /\ Len(files) = 3 /\ k \in 0..Len(files) /\ \A i \in 1..3 : files[i] = File(SysFiles[i], 0)
  BY DEF SysfsFiles
<1>2. \A x \in SysKeys : Place[x] \in 1..3 /\ SysFiles[Place[x]] = x
  BY DEF Place, SysFiles, SysKeys
<1>3. Place["sysfs"] = 1
  BY DEF Place
<1>4. \A i \in 1..3 : /\ files[i] \in FileType /\ files[i].live
                      /\ files[i].kind = SysFiles[i] /\ SysFiles[i] \in SysKeys
  <2> SUFFICES ASSUME NEW i \in 1..3
               PROVE  /\ files[i] \in FileType /\ files[i].live
                      /\ files[i].kind = SysFiles[i] /\ SysFiles[i] \in SysKeys
    OBVIOUS
  <2>1. SysFiles[i] \in SysKeys
    BY DEF SysFiles, SysKeys
  <2>2. SysFiles[i] \in Kinds
    BY <2>1 DEF SysKeys, Kinds
  <2>3. files[i] = File(SysFiles[i], 0)
    BY <1>1
  <2> HIDE DEF files
  <2> QED
    BY <2>1, <2>2, <2>3, FileTyped
<1> HIDE DEF files
<1>5. after[0] = t
  BY <1>1, OpeningStep
<1>6. /\ DOMAIN u = DOMAIN t \cup {Lowest(after[j]) : j \in 0..(k - 1)}
      /\ \A j \in 0..(k - 1) : Lowest(after[j]) \in DOMAIN u \ DOMAIN t /\ u[Lowest(after[j])] = files[j + 1]
  <2>1. AllBeside(t, files, k, after)
    BY <1>1, SeveralOpened
  <2> QED
    BY <2>1 DEF AllBeside
<1>7. /\ Grows(t, u)
      /\ \A n \in DOMAIN u \ DOMAIN t : \E i \in 1..k : n = Lowest(after[i - 1]) /\ u[n] = files[i]
  <2>1. \A i \in 1..Len(files) : files[i] \in FileType /\ files[i].live
    BY <1>1, <1>4
  <2>2. /\ Grows(t, u)
        /\ \A n \in DOMAIN u \ DOMAIN t : \E i \in 1..k : n = Lowest(after[i - 1]) /\ u[n] = files[i]
    BY <1>1, <2>1, AllGrow
  <2> HIDE DEF u, after
  <2> QED
    BY <2>2
<1> HIDE DEF u
<1>8. \A n \in DOMAIN u \ DOMAIN t :
        u[n].kind \in SysKeys /\ \E x \in SysKeys : n = Lowest(after[Place[x] - 1])
  <2> SUFFICES ASSUME NEW n \in DOMAIN u \ DOMAIN t
               PROVE  u[n].kind \in SysKeys /\ \E x \in SysKeys : n = Lowest(after[Place[x] - 1])
    OBVIOUS
  <2> HIDE DEF after
  <2>1. PICK i \in 1..k : n = Lowest(after[i - 1]) /\ u[n] = files[i]
    BY <1>7
  <2>2. i \in 1..3
    OBVIOUS
  <2>3. SysFiles[i] \in SysKeys /\ Place[SysFiles[i]] = i
    BY <2>2 DEF SysFiles, SysKeys, Place
  <2> QED
    BY <1>4, <2>1, <2>2, <2>3
<1>9. ASSUME NEW x \in SysKeys, Place[x] <= k
      PROVE  Lowest(after[Place[x] - 1]) \in DOMAIN u /\ u[Lowest(after[Place[x] - 1])].kind = x
  <2> DEFINE j == Place[x] - 1
  <2>1. j \in 0..(k - 1) /\ j + 1 = Place[x] /\ Place[x] \in 1..3
    BY <1>2, <1>9
  <2> HIDE DEF j
  <2>2. Lowest(after[j]) \in DOMAIN u /\ u[Lowest(after[j])] = files[Place[x]]
    BY <1>6, <2>1
  <2>3. files[Place[x]].kind = x
    BY <1>2, <1>4, <2>1
  <2> QED
    BY <2>2, <2>3 DEF j
<1>10. ASSUME k >= 1, 4 \notin DOMAIN t PROVE 4 \in DOMAIN u /\ u[4].kind = "sysfs"
  <2>1. Lowest(t) \in Nat \ DOMAIN t /\ \A n \in Nat : n < Lowest(t) => n \in DOMAIN t
    BY LowestIsFree
  <2>2. Lowest(t) = 4
    BY <1>10, <2>1
  <2>3. "sysfs" \in SysKeys /\ Place["sysfs"] <= k /\ Place["sysfs"] - 1 = 0
    BY <1>3, <1>10 DEF SysKeys
  <2> QED
    BY <1>5, <1>9, <2>2, <2>3
<1> HIDE DEF after
<1>11. \A x \in SysKeys : Place[x] \in 1..3 /\
          (Place[x] <= k => Lowest(after[Place[x] - 1]) \in DOMAIN u /\ u[Lowest(after[Place[x] - 1])].kind = x)
  BY <1>2, <1>9
<1> QED
  BY <1>1, <1>5, <1>7, <1>8, <1>10, <1>11 DEF u, after, files

LEMMA InitSysfsKeeps ==
  ASSUME IInv, NEW p \in Proc, InitSysfs(p)
  PROVE  IInv'
<1> DEFINE t == table[p]
           after == Opening(t, SysfsFiles)
           low == Lowest(t)
<1>1. /\ Shaped /\ Settled(p) /\ ListTyped(p) /\ HeldTyped(p) /\ TableTyped(p) /\ IsTable(t) /\ pc[p] = "sysfs"
      /\ EarlyFiles(p) /\ LowNumbers(p) /\ ConfigRead(p) /\ SysTyped(p) /\ ChipsTyped(p) /\ ChipsOwn(p) /\ ChipsStale(p)
      /\ gp_list[p] = DOMAIN pins[p]
  BY LocalIs DEF InitSysfs, IInv, Settled, TableTyped, ListTyped
<1>2. /\ setup' = setup /\ exported' = exported /\ actlow' = actlow /\ gp_list' = gp_list /\ gpio_dir' = gpio_dir
      /\ held' = held /\ pins' = pins /\ chips' = chips /\ todo' = [todo EXCEPT ![p] = DOMAIN pins[p]]
  BY DEF InitSysfs, kernelVars
<1>3. \A i \in DOMAIN pins[p], k \in HeldKeys : held[p][i][k] <= 0
  BY <1>1, EarlyHeld DEF IInv, Local
<1>4. PinsRead(p)' /\ HeldTyped(p)' /\ LoadOutcome(Text(p)) = "ok" /\ Text(p)' = Text(p)
  BY <1>1, <1>2 DEF Settled, PinsRead, HeldTyped, ConfigRead, Text
<1>5. PICK k \in 0..3 :
        /\ sys' = [sys EXCEPT ![p] =
             [x \in DOMAIN @ |-> IF Place[x] <= k THEN Lowest(after[Place[x] - 1]) ELSE -1]]
        /\ IF k = 3
           THEN Fine(p) /\ Open(p, after[k]) /\ Goto(p, "pin")
           ELSE Fault(p) /\ Open(p, Syslog(after[k])) /\ Goto(p, "cleansysfs")
  BY DEF InitSysfs, SysfsFiles
<1> DEFINE u == after[k]
<1>6. /\ Len(SysfsFiles) = 3 /\ after[0] = t
      /\ Grows(t, u)
      /\ \A n \in DOMAIN u \ DOMAIN t :
           u[n].kind \in SysKeys /\ \E x \in SysKeys : n = Lowest(after[Place[x] - 1])
      /\ \A x \in SysKeys : Place[x] \in 1..3 /\
           (Place[x] <= k => LET n == Lowest(after[Place[x] - 1]) IN n \in DOMAIN u /\ u[n].kind = x)
      /\ k >= 1 => 4 \in DOMAIN t \/ (4 \in DOMAIN u /\ u[4].kind = "sysfs")
  <2>1. 0..3 \subseteq DOMAIN t
    BY <1>1 DEF LowNumbers, Up
  <2> HIDE DEF t
  <2> QED
    BY <1>1, <2>1, SysfsOpened
<1>7. \A x \in SysKeys : sys'[p][x] = IF Place[x] <= k THEN Lowest(after[Place[x] - 1]) ELSE -1
  BY <1>1, <1>5 DEF SysTyped, Shaped
<1>8. DOMAIN sys'[p] = SysKeys /\ sys'[p] = [x \in SysKeys |-> sys'[p][x]] /\ DOMAIN sys' = Proc
  BY <1>1, <1>5 DEF SysTyped, Shaped
<1>9. faults' \in [Proc -> Nat]
  BY <1>1, <1>5, FaultsTyped
<1>10. Shaped'
  BY <1>1, <1>2, <1>5, <1>8, <1>9 DEF Shaped, Goto, Open
<1>11. /\ Others(p)
       /\ pc'[p] = IF k = 3 THEN "pin" ELSE "cleansysfs"
       /\ table'[p] = IF k = 3 THEN u ELSE Syslog(u)
       /\ todo'[p] = DOMAIN pins[p]
  BY <1>1, <1>2, <1>5 DEF Goto, Open, Others, SameMemory, Shaped
<1>12. low \in Nat \ DOMAIN t /\ low = Lowest(after[0])
  BY <1>1, <1>6, LowestIsFree
<1> HIDE DEF u, after, low
<1>13. /\ Grows(u, table'[p])
       /\ \A n \in DOMAIN table'[p] \ DOMAIN u : table'[p][n] = File("log", 0) /\ n = Lowest(u)
  <2>1. IsTable(u)
    BY <1>6 DEF Grows
  <2>2. CASE k = 3
    BY <1>11, <2>1, <2>2 DEF Grows
  <2>3. CASE k # 3
    BY <1>11, <2>1, <2>3, SyslogGrows
  <2> QED
    BY <2>2, <2>3
<1>14. Grows(t, table'[p])
  BY <1>6, <1>13, GrowsTwice
<1>15. TableTyped(p)'
  BY <1>1, <1>14, GrownTyped
<1>16. \A n \in DOMAIN t : t[n].kind \in {"std", "signal", "log", "chip"}
  BY <1>1 DEF EarlyFiles, KindAt
<1>17. \A x \in SysKeys :
         sys'[p][x] # -1 => sys'[p][x] \in DOMAIN table'[p] /\ table'[p][sys'[p][x]].kind = x
  <2> SUFFICES ASSUME NEW x \in SysKeys, sys'[p][x] # -1
               PROVE  sys'[p][x] \in DOMAIN table'[p] /\ table'[p][sys'[p][x]].kind = x
    OBVIOUS
  <2>1. sys'[p][x] \in DOMAIN u /\ u[sys'[p][x]].kind = x
    BY <1>6, <1>7
  <2> QED
    BY <1>13, <2>1 DEF Grows
<1>18. SysTyped(p)' /\ SysOwn(p)'
  <2>1. \A x \in SysKeys : sys'[p][x] \in Int
    <3> SUFFICES ASSUME NEW x \in SysKeys PROVE sys'[p][x] \in Int
      OBVIOUS
    <3>1. CASE sys'[p][x] = -1
      BY <3>1
    <3>2. CASE sys'[p][x] # -1
      BY <1>15, <1>17, <3>2 DEF TableTyped, IsTable
    <3> QED
      BY <3>1, <3>2
  <2> QED
    BY <1>8, <1>17, <2>1 DEF SysTyped, SysOwn, Has, KindAt
<1>19. /\ k >= 1 => sys'[p]["sysfs"] = low
       /\ k = 0 => u = t
  BY <1>6, <1>7, <1>12 DEF u, SysKeys, Place
<1>20. PcTyped(p)' /\ ConfigRead(p)' /\ EarlyFiles(p)'
  BY <1>4, <1>11 DEF PcTyped, ConfigRead, EarlyFiles, AtPins, InPin, Early
<1>21. ChipsTyped(p)' /\ ChipsOwn(p)'
  <2>1. ChipsTyped(p)'
    BY <1>1, <1>2, <1>11 DEF ChipsTyped, Early
  <2>2. ChipsOwn(p)'
    BY <1>1, <1>2, <1>11, <1>14 DEF ChipsOwn, Has, KindAt, OfAt, Grows
  <2> QED
    BY <2>1, <2>2
<1>22. LowNumbers(p)'
  <2>1. \A n \in 0..3 : n \in DOMAIN table'[p] /\ table'[p][n].kind \in {"std", "signal", "log"}
    BY <1>1, <1>14 DEF LowNumbers, KindAt, Up, Grows
  <2>2. k = 3 => 4 \in DOMAIN table'[p] /\ table'[p][4].kind \in {"std", "signal", "log", "chip", "sysfs"}
    BY <1>6, <1>13, <1>14, <1>16 DEF Grows
  <2> QED
    BY <1>11, <2>1, <2>2 DEF LowNumbers, KindAt, AtPins, InPin
<1>23. ChipsStale(p)'
  <2> SUFFICES ASSUME ~setup.uapi, NEW i \in DOMAIN chips[p]
               PROVE  /\ chips[p][i].fd \notin 0..3
                      /\ pc'[p] = "pin" => chips[p][i].fd = sys'[p]["sysfs"]
                      /\ pc'[p] = "cleansysfs" => \/ chips[p][i].fd = sys'[p]["sysfs"]
                                                  \/ chips[p][i].fd \notin DOMAIN table'[p]
                                                  \/ table'[p][chips[p][i].fd].kind = "log"
    BY <1>2, <1>11 DEF ChipsStale, KindAt, AtPins, InPin
  <2>1. chips[p][i].fd = low /\ low \notin 0..3
    BY <1>1 DEF ChipsStale, low
  <2>2. CASE k >= 1
    BY <1>19, <2>1, <2>2
  <2>3. CASE k = 0
    BY <1>11, <1>12, <1>13, <1>19, <2>1, <2>3 DEF File
  <2> QED
    BY <2>1, <2>2, <2>3
<1>24. Settled(p)'
  BY <1>4, <1>15, <1>18, <1>20, <1>21, <1>22, <1>23 DEF Settled
<1>25. ListTyped(p)'
  BY <1>1, <1>2, <1>11 DEF ListTyped, Early, AtPins, InPin
<1>26. \A n \in DOMAIN table'[p] :
        \/ n \in DOMAIN table[p] /\ table'[p][n] = table[p][n]
        \/ table'[p][n].live /\ table'[p][n].kind \notin LineFiles
  <2>1. \A n \in DOMAIN table'[p] \ DOMAIN t : table'[p][n].kind \in SysKeys \cup {"log"}
    BY <1>6, <1>13 DEF Grows, File
  <2> QED
    BY <1>14, <2>1 DEF Grows, SysKeys, LineFiles
<1>27. \A i \in DOMAIN pins'[p], j \in HeldKeys : held'[p][i][j] <= 0 /\ held'[p][i][j] \in Int
  BY <1>1, <1>2, <1>3 DEF HeldTyped
<1>28. Kept(p)' \subseteq DOMAIN pins'[p]
  BY <1>25 DEF Kept, ListTyped
<1>29. HeldOwn(p)' /\ HeldApart(p)'
  BY <1>27, <1>28 DEF HeldOwn, HeldApart
<1>30. ValueHeld(p)' /\ DirOwn(p)'
  BY <1>2, <1>11, <1>28 DEF ValueHeld, DirOwn, AtPins, InPin
<1>31. Local(p)'
  BY <1>4, <1>24, <1>25, <1>29, <1>30 DEF Local, Settled
<1> QED
  BY <1>1, <1>2, <1>10, <1>11, <1>26, <1>31, StepOf DEF Leaving

-----------------------------------------------------------------------------
(***************************************************************************)
(* The invariant holds in every state.                                      *)
(***************************************************************************)
LEMMA InitIInv == Init => IInv
<1> SUFFICES ASSUME Init PROVE IInv
  OBVIOUS
<1>1. Shaped
  BY DEF Init, Shaped
<1>2. ASSUME NEW p \in Proc PROVE Local(p) /\ LiveIsExported(p)
  <2>1. /\ pc[p] = "off" /\ todo[p] = {} /\ gp_list[p] = {} /\ pins[p] = <<>> /\ held[p] = <<>> /\ chips[p] = <<>>
        /\ table[p] = NoFiles /\ sys[p] = [k \in SysKeys |-> -1]
    BY DEF Init, SysKeys
  <2>2. IsTable(table[p]) /\ DOMAIN table[p] = {}
    BY <2>1, NothingOpen
  <2>3. Kept(p) = {}
    BY <2>1 DEF Kept
  <2>4. PcTyped(p) /\ TableTyped(p) /\ PinsRead(p) /\ ListTyped(p) /\ HeldTyped(p) /\ SysTyped(p)
    BY <2>1, <2>2 DEF PcTyped, TableTyped, PinsRead, ListTyped, HeldTyped, SysTyped, Early, AtPins, InPin
  <2>5. ChipsTyped(p) /\ ConfigRead(p) /\ LowNumbers(p) /\ EarlyFiles(p) /\ SysOwn(p) /\ ChipsOwn(p) /\ ChipsStale(p)
    BY <2>1, <2>2 DEF ChipsTyped, ConfigRead, LowNumbers, EarlyFiles, SysOwn, ChipsOwn, ChipsStale, Up, AtPins, InPin
  <2>6. DirOwn(p) /\ HeldOwn(p) /\ HeldApart(p) /\ ValueHeld(p)
    BY <2>1, <2>3 DEF DirOwn, HeldOwn, HeldApart, ValueHeld, InPin
  <2>7. LiveIsExported(p)
    BY <2>2 DEF LiveIsExported
  <2> QED
    BY <2>4, <2>5, <2>6, <2>7 DEF Local
<1> QED
  BY <1>1, <1>2 DEF IInv

LEMMA NextIInv == IInv /\ [Next]_vars => IInv'
<1> SUFFICES ASSUME IInv, [Next]_vars PROVE IInv'
  OBVIOUS
<1>1. ASSUME NEW p \in Proc, Run(p) PROVE IInv'
  <2>1. CASE LoadConfig(p)
    BY <2>1, LoadConfigKeeps
  <2>2. CASE LoadTabs(p)
    BY <2>2, LoadTabsKeeps
  <2>3. CASE InitChips(p)
    BY <2>3, InitChipsKeeps
  <2>4. CASE InitSysfs(p)
    BY <2>4, InitSysfsKeeps
  <2>5. CASE Export(p)
    BY <2>5, ExportKeeps
  <2>6. CASE OpenDir(p)
    BY <2>6, OpenDirKeeps
  <2>7. CASE Direction(p)
    BY <2>7, DirectionKeeps
  <2>8. CASE EdgeFile(p)
    BY <2>8, EdgeFileKeeps
  <2>9. CASE ActiveLow(p)
    BY <2>9, ActiveLowKeeps
  <2>10. CASE ValueFile(p)
    BY <2>10, ValueFileKeeps
  <2>11. CASE UapiPin(p)
    BY <2>11, UapiPinKeeps
  <2>12. CASE PinsDone(p) \/ PinsCleaned(p)
    BY <2>12, PinsDoneKeeps
  <2>13. CASE EnterLoop(p)
    BY <2>13, EnterLoopKeeps
  <2>14. CASE CleanPin(p)
    BY <2>14, CleanSysfsPinKeeps, CleanUapiPinKeeps
  <2>15. CASE CleanSysfs(p)
    BY <2>15, CleanSysfsKeeps
  <2>16. CASE CleanChips(p)
    BY <2>16, CleanChipsKeeps
  <2>17. CASE Exit(p)
    BY <2>17, EndKeeps
  <2> QED
    BY <1>1, <2>1, <2>2, <2>3, <2>4, <2>5, <2>6, <2>7, <2>8, <2>9, <2>10, <2>11, <2>12, <2>13, <2>14, <2>15,
       <2>16, <2>17 DEF Run
<1>2. ASSUME NEW p \in Proc, Start(p) PROVE IInv'
  BY <1>2, StartKeeps
<1>3. ASSUME NEW p \in Proc, LeaveLoop(p) PROVE IInv'
  BY <1>3, LeaveLoopKeeps
<1>4. ASSUME NEW p \in Proc, Crash(p) PROVE IInv'
  BY <1>4, EndKeeps
<1>5. CASE LingerEnds \/ UNCHANGED vars
  BY <1>5, StutterKeeps
<1> QED
  BY <1>1, <1>2, <1>3, <1>4, <1>5 DEF Next

LEMMA Invariance == Spec => []IInv
<1>1. Init => IInv
  BY InitIInv
<1>2. IInv /\ [Next]_vars => IInv'
  BY NextIInv
<1> QED
  BY <1>1, <1>2, PTL DEF Spec

\* Whatever fails and whoever else runs, each variable has its type, the pins in
\* the lists are pins of the configuration, and an active-low line is exported
\* (gpiod.c:232-284).
THEOREM TypeCorrect == Spec => []TypeOK
<1>1. IInv => TypeOK
  <2> SUFFICES ASSUME IInv PROVE TypeOK
    OBVIOUS
  <2>1. Shaped /\ \A p \in Proc : PcTyped(p) /\ TableTyped(p) /\ ListTyped(p)
    BY DEF IInv, Local
  <2>2. ASSUME NEW p \in Proc
        PROVE  DOMAIN table[p] \subseteq Nat /\ Files(p) \subseteq [kind : Kinds, of : Nat, live : BOOLEAN]
    BY <2>1 DEF TableTyped, IsTable, Files, Range
  <2> QED
    BY <2>1, <2>2 DEF TypeOK, Shaped, PcTyped, ListTyped, AtPins, InPin
<1> QED
  BY <1>1, Invariance, PTL

LEMMA RememberedAre ==
  ASSUME IInv, NEW p \in Proc, Remembers(p), NEW r \in Remembered(p)
  PROVE  /\ r = [n |-> r.n, kind |-> r.kind, pin |-> r.pin]
         /\ r.n \in DOMAIN table[p] /\ table[p][r.n].kind = r.kind
         /\ r.pin # 0 /\ r.kind # "lineevent" => table[p][r.n].of = pins[p][r.pin].system
         /\ \/ r.pin = 0 /\ r.kind \in SysKeys \cup {"chip"}
            \/ /\ r.pin \in Kept(p) /\ r.kind \in HeldKeys \cup {"lineevent"}
               /\ \E k \in HeldKeys : r.n > 0 /\ r.n = held[p][r.pin][k]
<1> DEFINE OfSys == {[n |-> sys[p][k], kind |-> k, pin |-> 0] : k \in {x \in DOMAIN sys[p] : sys[p][x] # -1}}
           OfChips == {[n |-> chips[p][i].fd, kind |-> "chip", pin |-> 0] : i \in DOMAIN chips[p]}
           OfPin(i) == {[n |-> held[p][i][k], pin |-> i,
                         kind |-> IF pins[p][i].facility = "sysfs" THEN k ELSE "lineevent"] :
                          k \in {x \in DOMAIN held[p][i] : held[p][i][x] > 0}}
<1>1. /\ SysTyped(p) /\ SysOwn(p) /\ ChipsOwn(p) /\ HeldTyped(p) /\ HeldOwn(p) /\ ListTyped(p)
      /\ pc[p] \in Early \cup {"sysfs"} \cup AtPins
  BY DEF IInv, Local, Remembers, Up, PcTyped, Early
<1>2. Kept(p) = {j \in gp_list[p] : pc[p] = "clean" => j \in todo[p]}
  BY <1>1 DEF Kept
<1>3. \/ r \in OfSys
      \/ setup.uapi /\ r \in OfChips
      \/ \E i \in Kept(p) : r \in OfPin(i)
  BY <1>2 DEF Remembered
<1>4. CASE r \in OfSys
  <2>1. PICK k \in SysKeys : sys[p][k] # -1 /\ r = [n |-> sys[p][k], kind |-> k, pin |-> 0]
    BY <1>1, <1>4 DEF SysTyped
  <2>2. sys[p][k] \in DOMAIN table[p] /\ table[p][sys[p][k]].kind = k
    BY <1>1, <2>1 DEF SysOwn, Has, KindAt, Early, AtPins, InPin
  <2> QED
    BY <2>1, <2>2
<1>5. CASE setup.uapi /\ r \in OfChips
  <2>1. PICK i \in DOMAIN chips[p] : r = [n |-> chips[p][i].fd, kind |-> "chip", pin |-> 0]
    BY <1>5
  <2>2. chips[p][i].fd \in DOMAIN table[p] /\ table[p][chips[p][i].fd].kind = "chip"
    BY <1>1, <1>5 DEF ChipsOwn, Has, KindAt, Early, AtPins, InPin
  <2> QED
    BY <2>1, <2>2
<1>6. ASSUME NEW i \in Kept(p), r \in OfPin(i)
      PROVE  /\ r = [n |-> r.n, kind |-> r.kind, pin |-> r.pin]
             /\ r.n \in DOMAIN table[p] /\ table[p][r.n].kind = r.kind
             /\ r.kind # "lineevent" => table[p][r.n].of = pins[p][r.pin].system
             /\ r.pin \in Kept(p) /\ r.kind \in HeldKeys \cup {"lineevent"}
             /\ \E k \in HeldKeys : r.n > 0 /\ r.n = held[p][r.pin][k]
  <2>1. DOMAIN held[p][i] = HeldKeys
    BY <1>1, <1>2 DEF HeldTyped, ListTyped
  <2>2. PICK k \in HeldKeys : /\ held[p][i][k] > 0
                              /\ r = [n |-> held[p][i][k], pin |-> i,
                                      kind |-> IF pins[p][i].facility = "sysfs" THEN k ELSE "lineevent"]
    BY <1>6, <2>1
  <2>3. Fits(table[p], pins[p][i], held[p][i][k], k)
    BY <1>1, <2>2 DEF HeldOwn
  <2> QED
    BY <2>2, <2>3 DEF Fits
<1> QED
  BY <1>3, <1>4, <1>5, <1>6

\* At every moment from its configuration to its clean-up, and whichever calls have
\* failed, each number gpiod keeps (sfd_, efd_, ufd_, the chips' fd, the pins' in
\* gpio_pin_sysfs and gpio_pin_uapi) is open on the file it was kept for, and no two
\* are the same.
THEOREM NumbersOwn == Spec => []NumbersAreOwn
<1>1. IInv => NumbersAreOwn
  <2> SUFFICES ASSUME IInv, NEW p \in Proc, Remembers(p), NEW r \in Remembered(p)
               PROVE  /\ r.n \in DOMAIN table[p] /\ table[p][r.n].kind = r.kind
                      /\ r.pin # 0 /\ r.kind # "lineevent" => table[p][r.n].of = pins[p][r.pin].system
                      /\ \A s \in Remembered(p) : r.n = s.n => r = s
    BY DEF NumbersAreOwn
  <2>1. ASSUME NEW s \in Remembered(p), r.n = s.n PROVE r = s
    <3>1. r.kind = s.kind
      BY <2>1, RememberedAre
    <3>2. r.pin = s.pin
      <4>1. CASE r.kind \in SysKeys \cup {"chip"}
        BY <3>1, <4>1, RememberedAre DEF SysKeys, HeldKeys
      <4>2. CASE r.kind \in HeldKeys \cup {"lineevent"}
        <5>1. /\ r.pin \in Kept(p) /\ s.pin \in Kept(p)
              /\ \E k \in HeldKeys : r.n > 0 /\ r.n = held[p][r.pin][k]
              /\ \E k \in HeldKeys : s.n = held[p][s.pin][k]
          BY <3>1, <4>2, RememberedAre DEF SysKeys, HeldKeys
        <5>2. HeldApart(p)
          BY DEF IInv, Local
        <5> QED
          BY <2>1, <5>1, <5>2 DEF HeldApart
      <4> QED
        BY <4>1, <4>2, RememberedAre
    <3> QED
      BY <2>1, <3>1, <3>2, RememberedAre
  <2> QED
    BY <2>1, RememberedAre
<1> QED
  BY <1>1, Invariance, PTL

\* Only a pin that is cleaned up leaves the list on the way out.
LEMMA OnlyCleanPin ==
  ASSUME IInv, [Next]_vars, NEW p \in Proc, pc[p] = "clean", todo'[p] # todo[p]
  PROVE  CleanPin(p)
<1>1. DOMAIN todo = Proc
  BY DEF IInv, Shaped
<1>2. ASSUME NEW q \in Proc, Start(q) \/ Run(q) \/ LeaveLoop(q) \/ Crash(q)
      PROVE  \/ todo' = todo
             \/ (pc[q] # "clean" \/ CleanPin(q)) /\ \E v : todo' = [todo EXCEPT ![q] = v]
  <2>1. CASE LoadConfig(q) \/ LoadTabs(q) \/ InitChips(q) \/ InitSysfs(q)
    BY <2>1 DEF LoadConfig, LoadTabs, InitChips, InitSysfs
  <2>2. CASE Export(q) \/ OpenDir(q)
    BY <2>2 DEF Export, AtPin, OpenDir, Drop, NextPin
  <2>3. CASE Direction(q) \/ EdgeFile(q) \/ ActiveLow(q)
    BY <2>3 DEF Direction, EdgeFile, ActiveLow, Drop, NextPin
  <2>4. CASE ValueFile(q) \/ UapiPin(q) \/ PinsDone(q)
    BY <2>4 DEF ValueFile, UapiPin, PinsDone, AtPin, Drop, NextPin
  <2>5. CASE EnterLoop(q) \/ LeaveLoop(q)
    BY <2>5 DEF EnterLoop, LeaveLoop, LoopEnds
  <2>6. CASE CleanPin(q)
    BY <2>6 DEF CleanPin
  <2>7. CASE PinsCleaned(q) \/ CleanSysfs(q) \/ CleanChips(q) \/ Exit(q) \/ Crash(q) \/ Start(q)
    BY <2>7 DEF PinsCleaned, CleanSysfs, CleanChips, Exit, Crash, Start
  <2> QED
    BY <1>2, <2>1, <2>2, <2>3, <2>4, <2>5, <2>6, <2>7 DEF Run
<1>3. PICK q \in Proc : Start(q) \/ Run(q) \/ LeaveLoop(q) \/ Crash(q)
  BY DEF Next, LingerEnds, vars
<1> QED
  BY <1>1, <1>2, <1>3

\* Cleaning up a pin changes no other line's directory nor its active_low, although
\* cleanup_sysfs_pin writes a "0" to the number that its write to `unexport` has
\* returned (sysfs.c:319-330).
THEOREM KeepsToItsLine == Spec => CleanupKeepsToItsLine
<1>1. ASSUME IInv, [Next]_vars, NEW p \in Proc, pc[p] = "clean", todo'[p] # todo[p]
      PROVE  LET own == IF Pin(p).facility = "sysfs" THEN {System(p)} ELSE {}
             IN  exported' \ own = exported \ own /\ actlow' \ own = actlow \ own
  <2>1. CleanPin(p)
    BY <1>1, OnlyCleanPin
  <2>2. CASE Pin(p).facility = "sysfs"
    <3>1. exported' = exported \ Gone(p) /\ actlow' = actlow \ Gone(p)
      BY <1>1, <2>1, <2>2, CleanedUp DEF CleanPin
    <3> QED
      BY <2>2, <3>1 DEF Gone
  <2>3. CASE Pin(p).facility # "sysfs"
    BY <2>1, <2>3 DEF CleanPin, CleanUapiPin
  <2> QED
    BY <2>2, <2>3
<1>2. IInv /\ [Next]_vars =>
        [\A p \in Proc : pc[p] = "clean" /\ todo'[p] # todo[p] =>
           LET own == IF Pin(p).facility = "sysfs" THEN {System(p)} ELSE {}
           IN  exported' \ own = exported \ own /\ actlow' \ own = actlow \ own]_vars
  BY <1>1
<1> QED
  BY <1>2, Invariance, PTL DEF Spec, CleanupKeepsToItsLine

-----------------------------------------------------------------------------
(***************************************************************************)
(* What is closed.                                                          *)
(***************************************************************************)
ClosesRight(p) ==
  \A n \in DOMAIN table[p] \ DOMAIN table'[p] : table[p][n].kind \in Closes(p)

\* Nothing is closed, and what is new is alive.
Widens(t, u) ==
  /\ DOMAIN t \subseteq DOMAIN u
  /\ \A n \in DOMAIN u : (n \in DOMAIN t /\ u[n] = t[n]) \/ u[n].live

LEMMA GrowsWidens ==
  ASSUME NEW t, NEW u, Grows(t, u)
  PROVE  Widens(t, u)
BY DEF Grows, Widens

LEMMA WidensTwice ==
  ASSUME NEW t, NEW u, NEW v, Widens(t, u), Widens(u, v)
  PROVE  Widens(t, v)
BY DEF Widens

\* No step but one that opens or logs.
LEMMA Widened ==
  ASSUME NEW t, IsTable(t)
  PROVE  /\ Widens(t, t)
         /\ Widens(t, Syslog(t))
         /\ \A f : f.live => Widens(t, Opened(t, f)) /\ Widens(t, Syslog(Opened(t, f)))
<1>1. Widens(t, t) /\ Widens(t, Syslog(t))
  BY SyslogGrows, GrowsWidens DEF Widens
<1>2. ASSUME NEW f, f.live
      PROVE  Widens(t, Opened(t, f)) /\ Widens(t, Syslog(Opened(t, f)))
  <2> DEFINE u == Opened(t, f)
  <2>3. Beside(t, f, u)
    BY OneOpened
  <2> HIDE DEF u
  <2>1. IsTable(u) /\ Widens(t, u)
    BY <1>2, <2>3 DEF Beside, Widens
  <2>2. Widens(u, Syslog(u))
    BY <2>1, SyslogGrows, GrowsWidens
  <2>4. Widens(t, u) /\ Widens(t, Syslog(u))
    BY <2>1, <2>2, WidensTwice
  <2> QED
    BY <2>4 DEF u
<1> QED
  BY <1>1, <1>2

\* The steps of the pins' files but the last one open and log only.
LEMMA PinsOpen ==
  ASSUME IInv, NEW p \in Proc,
         Export(p) \/ OpenDir(p) \/ Direction(p) \/ EdgeFile(p) \/ ActiveLow(p) \/ UapiPin(p)
  PROVE  /\ Widens(table[p], table'[p])
         /\ \A q \in Proc \ {p} : table'[q] = table[q]
<1> DEFINE t == table[p]
<1>1. IsTable(t) /\ DOMAIN table = Proc
  BY DEF IInv, Local, TableTyped, Shaped
<1>2. /\ Widens(t, t) /\ Widens(t, Syslog(t))
      /\ \A f : f.live => Widens(t, Opened(t, f)) /\ Widens(t, Syslog(Opened(t, f)))
  <2> HIDE DEF t
  <2> QED
    BY <1>1, Widened
<1>3. \/ table' = table \/ Open(p, t) \/ Open(p, Syslog(t))
      \/ \E f : f.live /\ (Open(p, Opened(t, f)) \/ Open(p, Syslog(Opened(t, f))))
  <2>1. CASE Export(p) \/ OpenDir(p)
    BY <2>1 DEF Export, OpenDir, Drop, File
  <2>2. CASE Direction(p)
    BY <2>2 DEF Direction, Drop, WithFile, File
  <2>3. CASE EdgeFile(p) \/ ActiveLow(p)
    BY <2>3 DEF EdgeFile, ActiveLow, WithFile, File
  <2>4. CASE UapiPin(p)
    BY <2>4 DEF UapiPin, Drop, File
  <2> QED
    BY <2>1, <2>2, <2>3, <2>4
<1> HIDE DEF t
<1>4. CASE table' = table \/ Open(p, t)
  BY <1>1, <1>2, <1>4 DEF Open, t
<1>5. CASE Open(p, Syslog(t))
  BY <1>1, <1>2, <1>5 DEF Open, t
<1>6. ASSUME NEW f, f.live, Open(p, Opened(t, f)) \/ Open(p, Syslog(Opened(t, f)))
      PROVE  /\ Widens(table[p], table'[p])
             /\ \A q \in Proc \ {p} : table'[q] = table[q]
  <2>1. CASE Open(p, Opened(t, f))
    BY <1>1, <1>2, <1>6, <2>1 DEF Open, t
  <2>2. CASE Open(p, Syslog(Opened(t, f)))
    BY <1>1, <1>2, <1>6, <2>2 DEF Open, t
  <2> QED
    BY <1>6, <2>1, <2>2
<1> QED
  BY <1>3, <1>4, <1>5, <1>6

\* So do the steps before the pins, and those of the loop but the last.
LEMMA StartOpens ==
  ASSUME IInv, NEW p \in Proc, Start(p) \/ LoadConfig(p) \/ LoadTabs(p)
  PROVE  pc'[p] = "gone" \/ Widens(table[p], table'[p])
<1> DEFINE t == table[p]
           reading == AllOpened(t, <<File("tabs", 0), File("tab", 0)>>)
           u == Shut(Syslog(reading), DOMAIN reading \ DOMAIN t)
<1>1. IsTable(t) /\ DOMAIN table = Proc /\ DOMAIN pc = Proc /\ EarlyFiles(p)
  BY DEF IInv, Local, TableTyped, Shaped
<1>2. Widens(t, t) /\ Widens(t, Syslog(t))
  <2> HIDE DEF t
  <2> QED
    BY <1>1, Widened
<1>3. CASE Start(p)
  <2>1. table'[p] = AtMain(p) /\ DOMAIN t = {}
    BY <1>1, <1>3 DEF Start, EarlyFiles, Open
  <2>2. \A n \in DOMAIN AtMain(p) : AtMain(p)[n].live
    BY AtMainTable DEF MainTable
  <2> QED
    BY <2>1, <2>2 DEF Widens
<1>4. CASE LoadConfig(p)
  <2>1. Vanish(p) \/ Open(p, Syslog(t)) \/ Open(p, t)
    BY <1>4 DEF LoadConfig
  <2> QED
    BY <1>1, <1>2, <2>1 DEF Vanish, Goto, Open
<1>5. CASE LoadTabs(p)
  <2>1. table'[p] \in {t, Syslog(t), u}
    BY <1>1, <1>5 DEF LoadTabs, Open
  <2>2. Widens(t, u)
    <3> HIDE DEF t
    <3>1. Grows(t, u)
      BY <1>1, LoadTabsTable
    <3> QED
      BY <3>1, GrowsWidens
  <2> QED
    BY <1>2, <2>1, <2>2
<1> QED
  BY <1>3, <1>4, <1>5

LEMMA InitsOpen ==
  ASSUME IInv, NEW p \in Proc, InitChips(p) \/ InitSysfs(p)
  PROVE  pc'[p] = "gone" \/ Widens(table[p], table'[p])
<1> DEFINE t == table[p]
<1>1. IsTable(t) /\ DOMAIN table = Proc /\ DOMAIN pc = Proc /\ LowNumbers(p)
  BY DEF IInv, Local, TableTyped, Shaped
<1>2. Widens(t, t) /\ Widens(t, Syslog(t))
  <2> HIDE DEF t
  <2> QED
    BY <1>1, Widened
<1>3. CASE InitChips(p)
  <2>1. CASE ScanUapi(p)
    <3>1. PICK left \in 0..Len(Chips) : Open(p, Shut(Opening(t, ChipFiles)[left + 1], {Lowest(t)}))
      <4>1. PICK k \in 0..Len(Chips) : \E left \in k..(k + 1) :
              /\ IF k = Len(Chips) THEN left = k /\ Fine(p) ELSE left <= Len(Chips) /\ Fault(p)
              /\ Open(p, Shut(Opening(t, ChipFiles)[left + 1], {Lowest(t)}))
        BY <2>1 DEF ScanUapi, ChipFiles
      <4>2. Len(Chips) \in Nat
        BY ChipsTyping
      <4>3. PICK left \in k..(k + 1) :
              /\ left = k \/ left <= Len(Chips)
              /\ Open(p, Shut(Opening(t, ChipFiles)[left + 1], {Lowest(t)}))
        BY <4>1
      <4>4. left \in 0..Len(Chips)
        BY <4>2, <4>3
      <4> QED
        BY <4>3, <4>4
    <3> DEFINE u == Shut(Opening(t, ChipFiles)[left + 1], {Lowest(t)})
    <3>2. Grows(t, u)
      <4> HIDE DEF t
      <4> QED
        BY <1>1, ChipsOpened
    <3>3. table'[p] = u
      BY <1>1, <3>1 DEF Open
    <3> HIDE DEF u
    <3> QED
      BY <3>2, <3>3, GrowsWidens
  <2>2. CASE ScanSysfs(p)
    BY <1>1, <1>2, <2>2 DEF ScanSysfs, Vanish, Goto
  <2>3. CASE Open(p, Syslog(t))
    BY <1>1, <1>2, <2>3 DEF Open
  <2> QED
    BY <1>3, <2>1, <2>2, <2>3 DEF InitChips
<1>4. CASE InitSysfs(p)
  <2>1. PICK k \in 0..3 : LET u == Opening(t, SysfsFiles)[k] IN Open(p, u) \/ Open(p, Syslog(u))
    BY <1>4 DEF InitSysfs, SysfsFiles
  <2> DEFINE u == Opening(t, SysfsFiles)[k]
  <2>2. Grows(t, u)
    <3>1. 0..3 \subseteq DOMAIN t
      BY <1>1, <1>4 DEF LowNumbers, Up, InitSysfs
    <3> HIDE DEF t
    <3> QED
      BY <1>1, <3>1, SysfsOpened
  <2> HIDE DEF u
  <2>3. Widens(t, u) /\ Widens(t, Syslog(u))
    BY <2>2, Widened, GrowsWidens, WidensTwice DEF Grows
  <2>4. table'[p] = u \/ table'[p] = Syslog(u)
    BY <1>1, <2>1 DEF Open, u
  <2> QED
    BY <2>3, <2>4
<1> QED
  BY <1>3, <1>4

LEMMA LoopOpens ==
  ASSUME IInv, NEW p \in Proc, PinsDone(p) \/ PinsCleaned(p) \/ EnterLoop(p)
  PROVE  Widens(table[p], table'[p])
<1>1. CASE PinsDone(p) \/ PinsCleaned(p)
  <2>1. table' = table
    BY <1>1 DEF PinsDone, PinsCleaned
  <2> QED
    BY <2>1 DEF Widens
<1>2. CASE EnterLoop(p)
  BY <1>2, LoopOpened, GrowsWidens
<1> QED
  BY <1>1, <1>2

\* The steps that close, the clean-up of a pin left out.
LEMMA StepCloses ==
  ASSUME IInv, NEW p \in Proc, ValueFile(p) \/ LeaveLoop(p) \/ CleanSysfs(p) \/ CleanChips(p)
  PROVE  pc'[p] = "gone" \/ ClosesRight(p)
<1> DEFINE t == table[p]
<1>1. /\ IsTable(t) /\ DOMAIN table = Proc /\ DOMAIN pc = Proc
      /\ DirOwn(p) /\ SysTyped(p) /\ SysOwn(p) /\ ChipsOwn(p) /\ ChipsStale(p)
  BY DEF IInv, Local, TableTyped, Shaped
<1>2. ASSUME NEW u, IsTable(u), DOMAIN t \subseteq DOMAIN u, NEW X, Open(p, Shut(u, X)),
             \A n \in DOMAIN t \cap X : t[n].kind \in Closes(p)
      PROVE  ClosesRight(p)
  <2>1. DOMAIN Shut(u, X) = DOMAIN u \ X
    BY <1>2, SomeShut
  <2>2. table'[p] = Shut(u, X)
    BY <1>1, <1>2 DEF Open
  <2> QED
    BY <1>2, <2>1, <2>2 DEF ClosesRight
<1>3. CASE ValueFile(p)
  <2> DEFINE w == WithFile(p, "value")
             X == {gpio_dir[p]}
  <2>1. Open(p, Syslog(t)) \/ Open(p, Shut(w, X))
    BY <1>3 DEF ValueFile, Drop
  <2>2. IsTable(w) /\ DOMAIN t \subseteq DOMAIN w
    <3> DEFINE f == File("value", System(p))
    <3>1. w = Opened(t, f)
      BY DEF WithFile
    <3> HIDE DEF f, t
    <3>2. IsTable(Opened(t, f)) /\ DOMAIN t \subseteq DOMAIN Opened(t, f)
      BY <1>1, OneOpened DEF Beside
    <3> QED
      BY <3>1, <3>2
  <2>3. CASE Open(p, Syslog(t))
    <3>1. DOMAIN t \subseteq DOMAIN Syslog(t)
      <4> HIDE DEF t
      <4> QED
        BY <1>1, Widened DEF Widens
    <3> QED
      BY <1>1, <2>3, <3>1 DEF Open, ClosesRight
  <2>4. \A n \in DOMAIN t \cap X : t[n].kind \in Closes(p)
    BY <1>1, <1>3 DEF ValueFile, DirOwn, InPin, Has, KindAt, Closes
  <2> HIDE DEF w, X, t
  <2> QED
    BY <1>2, <2>1, <2>2, <2>3, <2>4
<1>4. CASE LeaveLoop(p)
  <2> DEFINE X == {n \in DOMAIN t : t[n].kind \in {"timer", "listen"}}
  <2>1. Open(p, Shut(t, X))
    BY <1>4 DEF LeaveLoop, LoopEnds
  <2>2. \A n \in DOMAIN t \cap X : t[n].kind \in Closes(p)
    BY <1>4 DEF LeaveLoop, Closes
  <2> HIDE DEF X, t
  <2> QED
    BY <1>1, <1>2, <2>1, <2>2
<1>5. CASE CleanSysfs(p)
  <2> DEFINE X == {sys[p][k] : k \in DOMAIN sys[p]}
  <2>1. Vanish(p) \/ Open(p, Shut(t, X))
    BY <1>5 DEF CleanSysfs
  <2>2. \A n \in DOMAIN t \cap X : t[n].kind \in Closes(p)
    <3> SUFFICES ASSUME NEW k \in SysKeys, sys[p][k] \in DOMAIN t
                 PROVE  t[sys[p][k]].kind \in Closes(p)
      BY <1>1 DEF SysTyped
    <3>1. sys[p][k] # -1
      BY <1>1 DEF IsTable
    <3> QED
      BY <1>1, <1>5, <3>1 DEF SysOwn, Has, KindAt, CleanSysfs, Closes, SysKeys
  <2>3. CASE Vanish(p)
    BY <1>1, <2>3 DEF Vanish, Goto
  <2> HIDE DEF X, t
  <2> QED
    BY <1>1, <1>2, <2>1, <2>2, <2>3
<1>6. CASE CleanChips(p)
  <2> DEFINE X == {chips[p][i].fd : i \in DOMAIN chips[p]}
  <2>1. Open(p, Shut(t, X))
    BY <1>6 DEF CleanChips
  <2>2. \A n \in DOMAIN t \cap X : t[n].kind \in Closes(p)
    <3>1. CASE setup.uapi
      BY <1>1, <1>6, <3>1 DEF ChipsOwn, Has, KindAt, CleanChips, Closes
    <3>2. CASE ~setup.uapi
      BY <1>1, <1>6, <3>2 DEF ChipsStale, KindAt, CleanChips, Closes
    <3> QED
      BY <3>1, <3>2
  <2> HIDE DEF X, t
  <2> QED
    BY <1>1, <1>2, <2>1, <2>2
<1> QED
  BY <1>3, <1>4, <1>5, <1>6

\* Cleaning up a pin closes what the pin remembers, and nobody else's number.
LEMMA CleanPinCloses ==
  ASSUME IInv, NEW p \in Proc, CleanPin(p)
  PROVE  ClosesRight(p) /\ \A q \in Proc \ {p} : DOMAIN table'[q] = DOMAIN table[q]
<1> DEFINE t == table[p]
           i == Index(p)
<1>1. /\ \A q \in Proc : TableTyped(q)
      /\ DOMAIN table = Proc /\ pc[p] = "clean" /\ todo[p] # {}
      /\ IsTable(t) /\ HeldTyped(p) /\ HeldOwn(p) /\ ListTyped(p)
  BY DEF IInv, Local, TableTyped, Shaped, CleanPin
<1>2. i \in Kept(p) /\ i \in DOMAIN pins[p]
  BY <1>1, IndexIn DEF Kept, ListTyped, AtPins
<1>3. \A k \in HeldKeys : held[p][i][k] \in DOMAIN t /\ held[p][i][k] # 0 =>
        t[held[p][i][k]].kind \in Closes(p) /\ (pins[p][i].facility # "sysfs" => t[held[p][i][k]].kind = "lineevent")
  <2> SUFFICES ASSUME NEW k \in HeldKeys, held[p][i][k] \in DOMAIN t, held[p][i][k] # 0
               PROVE  t[held[p][i][k]].kind \in Closes(p)
                      /\ (pins[p][i].facility # "sysfs" => t[held[p][i][k]].kind = "lineevent")
    OBVIOUS
  <2>1. held[p][i][k] > 0
    BY <1>1 DEF IsTable
  <2>2. Fits(t, pins[p][i], held[p][i][k], k)
    BY <1>1, <1>2, <2>1 DEF HeldOwn
  <2> QED
    BY <1>1, <2>2 DEF Fits, Closes, HeldKeys
<1>4. CASE Pin(p).facility = "sysfs"
  <2> DEFINE X == {held[p][i][k] : k \in DOMAIN held[p][i]} \ {0}
  <2>1. table' = [[q \in Proc |-> Before(p, q)] EXCEPT ![p] = Shut(Mine(p), X)]
    BY <1>1, <1>4, CleanedUp DEF CleanPin
  <2>2. /\ IsTable(Mine(p)) /\ DOMAIN t \subseteq DOMAIN Mine(p)
        /\ \A q \in Proc : DOMAIN Before(p, q) = DOMAIN table[q]
    BY <1>1, BeforeAlike, MineGrows DEF Grows, Alike
  <2>3. \A n \in DOMAIN t \cap X : t[n].kind \in Closes(p)
    BY <1>1, <1>2, <1>3 DEF HeldTyped
  <2> HIDE DEF X
  <2>4. DOMAIN Shut(Mine(p), X) = DOMAIN Mine(p) \ X
    BY <2>2, SomeShut
  <2> QED
    BY <2>1, <2>2, <2>3, <2>4 DEF ClosesRight
<1>5. CASE Pin(p).facility # "sysfs"
  <2> DEFINE X == {held[p][i]["value"]}
  <2>1. Open(p, Shut(t, X))
    BY <1>5 DEF CleanPin, CleanUapiPin
  <2>2. held[p][i]["value"] > 0
    BY <1>1, <1>2 DEF IInv, Local, ValueHeld, AtPins
  <2>3. \A n \in DOMAIN t \cap X : t[n].kind \in Closes(p)
    BY <1>3, <2>2 DEF HeldKeys
  <2> HIDE DEF X, t
  <2>4. DOMAIN Shut(t, X) = DOMAIN t \ X
    BY <1>1, SomeShut
  <2> QED
    BY <1>1, <2>1, <2>3, <2>4 DEF ClosesRight, Open, t
<1> QED
  BY <1>4, <1>5

LEMMA OthersTables ==
  ASSUME IInv, NEW p \in Proc, Start(p) \/ Run(p) \/ LeaveLoop(p) \/ Crash(p), ~CleanPin(p)
  PROVE  \A q \in Proc \ {p} : table'[q] = table[q]
<1>1. DOMAIN table = Proc
  BY DEF IInv, Shaped
<1>2. ASSUME NEW t, Open(p, t)
      PROVE  \A q \in Proc \ {p} : table'[q] = table[q]
  BY <1>1, <1>2 DEF Open
<1> SUFFICES table' = table \/ \E t : Open(p, t)
  BY <1>2
<1>3. CASE Start(p) \/ LoadConfig(p) \/ LoadTabs(p)
  BY <1>3 DEF Start, LoadConfig, LoadTabs, Vanish
<1>4. CASE InitChips(p)
  BY <1>4 DEF InitChips, ScanUapi, ScanSysfs, Vanish
<1>5. CASE InitSysfs(p)
  BY <1>5 DEF InitSysfs
<1>6. CASE Export(p) \/ OpenDir(p) \/ Direction(p)
  BY <1>6 DEF Export, OpenDir, Direction, Drop
<1>7. CASE EdgeFile(p) \/ ActiveLow(p)
  BY <1>7 DEF EdgeFile, ActiveLow
<1>8. CASE ValueFile(p) \/ UapiPin(p)
  BY <1>8 DEF ValueFile, UapiPin, Drop
<1>9. CASE PinsDone(p) \/ PinsCleaned(p)
  BY <1>9 DEF PinsDone, PinsCleaned
<1>10. CASE EnterLoop(p) \/ LeaveLoop(p)
  BY <1>10 DEF EnterLoop, LeaveLoop, LoopEnds
<1>11. CASE CleanSysfs(p) \/ CleanChips(p) \/ Exit(p) \/ Crash(p)
  BY <1>11 DEF CleanSysfs, CleanChips, Exit, Crash, Vanish
<1> QED
  BY <1>3, <1>4, <1>5, <1>6, <1>7, <1>8, <1>9, <1>10, <1>11 DEF Run

\* A step closes what it is there to close and nothing else, in its own process and
\* in no other, although numbers are closed twice (sysfs.c:89-92) or after they have
\* been given away (chip-sysfs.c:77, chip.c:94 and :110).
THEOREM ClosesOnlyOwn == Spec => ClosesOwn
<1>1. ASSUME IInv, NEW p \in Proc, Start(p) \/ Run(p) \/ LeaveLoop(p) \/ Crash(p)
      PROVE  pc'[p] = "gone" \/ ClosesRight(p)
  <2>1. CASE Start(p) \/ LoadConfig(p) \/ LoadTabs(p)
    BY <1>1, <2>1, StartOpens DEF ClosesRight, Widens
  <2>2. CASE InitChips(p) \/ InitSysfs(p)
    BY <1>1, <2>2, InitsOpen DEF ClosesRight, Widens
  <2>3. CASE Export(p) \/ OpenDir(p) \/ Direction(p) \/ EdgeFile(p) \/ ActiveLow(p) \/ UapiPin(p)
    BY <1>1, <2>3, PinsOpen DEF ClosesRight, Widens
  <2>4. CASE PinsDone(p) \/ PinsCleaned(p) \/ EnterLoop(p)
    BY <1>1, <2>4, LoopOpens DEF ClosesRight, Widens
  <2>5. CASE ValueFile(p) \/ LeaveLoop(p) \/ CleanSysfs(p) \/ CleanChips(p)
    BY <1>1, <2>5, StepCloses
  <2>6. CASE CleanPin(p)
    BY <1>1, <2>6, CleanPinCloses
  <2>7. CASE Exit(p) \/ Crash(p)
    BY <1>1, <2>7 DEF Exit, Crash, Vanish, Goto, IInv, Shaped
  <2> QED
    BY <1>1, <2>1, <2>2, <2>3, <2>4, <2>5, <2>6, <2>7 DEF Run
<1>2. ASSUME IInv, NEW p \in Proc, Start(p) \/ Run(p) \/ LeaveLoop(p) \/ Crash(p), NEW q \in Proc \ {p}
      PROVE  ClosesRight(q)
  BY <1>2, OthersTables, CleanPinCloses DEF ClosesRight
<1>3. ASSUME IInv, Next PROVE \A p \in Proc : pc'[p] = "gone" \/ ClosesRight(p)
  <2>1. CASE LingerEnds
    BY <2>1 DEF LingerEnds, ClosesRight
  <2>2. ASSUME NEW q \in Proc, Start(q) \/ Run(q) \/ LeaveLoop(q) \/ Crash(q), NEW p \in Proc
        PROVE  pc'[p] = "gone" \/ ClosesRight(p)
    BY <1>1, <1>2, <1>3, <2>2
  <2> QED
    BY <1>3, <2>1, <2>2 DEF Next
<1>4. IInv /\ [Next]_vars =>
        [\A p \in Proc : pc'[p] # "gone" =>
           \A n \in DOMAIN table[p] \ DOMAIN table'[p] : table[p][n].kind \in Closes(p)]_vars
  BY <1>3 DEF ClosesRight
<1> QED
  BY <1>4, Invariance, PTL DEF Spec, ClosesOwn

=============================================================================
