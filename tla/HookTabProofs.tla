--------------------------- MODULE HookTabProofs ---------------------------
(***************************************************************************)
(* Proofs about HookTab, for tab files and lines of any length.             *)
(***************************************************************************)
EXTENDS HookTab, WellFoundedInduction, SequenceTheorems, TLAPS

-----------------------------------------------------------------------------
(***************************************************************************)
(* Where the scanning stops.                                                *)
(***************************************************************************)
LEMMA FirstThere ==
  ASSUME NEW S, S \subseteq Nat, S # {}
  PROVE  \E q \in S : \A r \in S : q <= r
<1> DEFINE Less == OpToRel(<, Nat)
<1>1. IsWellFoundedOn(Less, Nat)
  BY NatLessThanWellFounded
<1>2. PICK q \in S : \A r \in S : <<r, q>> \notin Less
  <2> HIDE DEF Less
  <2> QED
    BY <1>1, WFMin
<1>3. \A r \in S : ~(r < q)
  BY <1>2 DEF OpToRel
<1> QED
  BY <1>3

\* The line that is parsed is one.
HasLine == file \in Seq(Seq(STRING)) /\ file # <<>>

LEMMA LineIs ==
  ASSUME HasLine
  PROVE  line \in Seq(STRING) /\ Len(line) \in Nat /\ Nul \in Nat \ {0}
BY DEF HasLine, line, Nul

LEMMA EatSpace ==
  ASSUME HasLine, NEW p \in 1..Nul
  PROVE  LET q == eat_space(p) IN
         q \in p..Nul /\ \A r \in p..(q - 1) : At(r) = Space
<1> DEFINE S == {q \in p..Nul : q = Nul \/ At(q) # Space}
<1>1. Nul \in Nat /\ S \subseteq Nat /\ Nul \in S
  BY LineIs
<1>2. PICK q \in S : \A r \in S : q <= r
  BY <1>1, FirstThere
<1>3. \A r \in p..(q - 1) : ~(At(r) # Space)
  BY <1>1, <1>2
<1> QED
  BY <1>2, <1>3 DEF eat_space, FirstFrom

LEMMA NextSpace ==
  ASSUME HasLine, NEW p \in 1..Nul
  PROVE  LET q == next_space(p) IN
         q \in p..Nul /\ \A r \in p..(q - 1) : At(r) \notin {Space, NewLine}
<1> DEFINE S == {q \in p..Nul : q = Nul \/ At(q) \in {Space, NewLine}}
<1>1. Nul \in Nat /\ S \subseteq Nat /\ Nul \in S
  BY LineIs
<1>2. PICK q \in S : \A r \in S : q <= r
  BY <1>1, FirstThere
<1>3. \A r \in p..(q - 1) : ~(At(r) \in {Space, NewLine})
  BY <1>1, <1>2
<1> QED
  BY <1>2, <1>3 DEF next_space, FirstFrom

LEMMA NextComa ==
  ASSUME HasLine, NEW p \in 1..Nul, NEW q \in p..Nul, NEW i \in p..(q - 1), At(i) = Comma
  PROVE  LET e == next_coma(p) IN e \in p..(q - 1) /\ At(e) = Comma
<1> DEFINE S == {r \in p..Nul : r = Nul \/ At(r) = Comma}
<1>1. Nul \in Nat /\ S \subseteq Nat /\ i \in S /\ i < Nul
  BY LineIs
<1>2. PICK e \in S : \A r \in S : e <= r
  BY <1>1, FirstThere
<1>3. \A r \in p..(e - 1) : ~(At(r) = Comma)
  BY <1>1, <1>2
<1>4. LET f == next_coma(p)
      IN  f \in p..Nul /\ (f = Nul \/ At(f) = Comma) /\ \A r \in p..(f - 1) : ~(At(r) = Comma)
  BY <1>2, <1>3 DEF next_coma, FirstFrom
<1> QED
  BY <1>1, <1>4

-----------------------------------------------------------------------------
(***************************************************************************)
(* The invariant.  While the modifiers are scanned a newline is still       *)
(* ahead: that is why tmp2++ never passes over the NUL.                     *)
(***************************************************************************)
Files ==
  /\ dir \in Dirs
  /\ unread \subseteq dir
  /\ file \in Seq(Seq(STRING))
  /\ pc \in {"dir", "label", "modifier", "path", "args", "done"}

Fresh == pc \in {"dir", "label", "done"} => tmp1 = 1 /\ tmp2 = 1

Parsed == pc \in {"modifier", "path", "args"} => file # <<>>

\* The newline is at n or behind it.
Ahead(p, n) == n \in p..Len(line) /\ line[n] = NewLine

NewLineAhead ==
  pc = "modifier" /\ NewLine \in ToSet(line) =>
    tmp1 \in 1..Nul /\ tmp2 \in 1..Nul /\ \E n \in 1..Len(line) : Ahead(tmp2, n)

InLine ==
  pc \in {"path", "args"} /\ NewLine \in ToSet(line) => tmp1 \in 1..Nul /\ tmp2 \in 1..Nul

TabInv == Files /\ Fresh /\ Parsed /\ NewLineAhead /\ InLine

LEMMA TabInit == Init => TabInv
<1> SUFFICES ASSUME Init
             PROVE  TabInv
  OBVIOUS
<1>1. <<>> \in Seq(Seq(STRING))
  OBVIOUS
<1> QED
  BY <1>1 DEF Init, TabInv, Files, Fresh, Parsed, NewLineAhead, InLine

\* A word ends at the newline, if not before.
LEMMA StopsAtNewLine ==
  ASSUME HasLine, NEW p \in 1..Nul, NEW n \in 1..Len(line), Ahead(p, n)
  PROVE  /\ eat_space(p) \in p..n
         /\ Ahead(eat_space(p), n)
         /\ next_space(p) \in p..n
         /\ Ahead(next_space(p), n)
<1>1. Len(line) \in Nat /\ Nul = Len(line) + 1 /\ At(n) = NewLine /\ n \in p..Len(line)
  BY LineIs DEF Ahead, Nul, At
<1>2. eat_space(p) \in p..n
  <2> DEFINE q == eat_space(p)
  <2>1. q \in p..Nul /\ \A r \in p..(q - 1) : At(r) = Space
    BY EatSpace
  <2>2. ~(n \in p..(q - 1))
    BY <1>1, <2>1 DEF Space, NewLine
  <2> HIDE DEF q
  <2>3. q \in p..n
    BY <1>1, <2>1, <2>2
  <2> QED
    BY <2>3 DEF q
<1>3. next_space(p) \in p..n
  <2> DEFINE q == next_space(p)
  <2>1. q \in p..Nul /\ \A r \in p..(q - 1) : At(r) \notin {Space, NewLine}
    BY NextSpace
  <2>2. ~(n \in p..(q - 1))
    BY <1>1, <2>1
  <2> HIDE DEF q
  <2>3. q \in p..n
    BY <1>1, <2>1, <2>2
  <2> QED
    BY <2>3 DEF q
<1> QED
  BY <1>1, <1>2, <1>3 DEF Ahead

\* Behind a modifier that ends at e, before a newline at n: another modifier is
\* looked for at the newline or before it, and only the path behind it.
LEMMA BehindModifier ==
  ASSUME HasLine, NEW e \in 1..Nul, NEW n \in 1..Len(line), Ahead(e, n),
         NEW inside \in BOOLEAN, inside => At(e) = Comma
  PROVE  LET after == AfterModifier(e, inside) IN
         /\ after.next \in 1..Nul
         /\ after.coma \in BOOLEAN
         /\ after.coma => Ahead(after.next, n)
<1> DEFINE f == eat_space(e)
<1>1. Len(line) \in Nat /\ Nul = Len(line) + 1 /\ At(n) = NewLine /\ n \in e..Len(line)
  BY LineIs DEF Ahead, Nul, At
<1>2. f \in e..n /\ \A r \in e..(f - 1) : At(r) = Space
  BY EatSpace, StopsAtNewLine
<1>3. AfterModifier(e, inside) =
        IF At(f) = Comma THEN [next |-> f + 1, coma |-> TRUE] ELSE [next |-> e + 1, coma |-> inside]
  BY DEF AfterModifier
<1> HIDE DEF f
<1>4. CASE At(f) = Comma
  <2>1. f # n
    BY <1>1, <1>4 DEF Comma, NewLine
  <2>2. f + 1 \in 1..Nul /\ n \in (f + 1)..Len(line)
    BY <1>1, <1>2, <2>1
  <2> QED
    BY <1>1, <1>3, <1>4, <2>2 DEF Ahead, At
<1>5. CASE At(f) # Comma
  <2>1. ~inside
    <3> SUFFICES ASSUME inside
                 PROVE  FALSE
      OBVIOUS
    <3>1. At(e) = Comma
      OBVIOUS
    <3>2. e # f
      BY <3>1, <1>5
    <3>3. e \in e..(f - 1)
      BY <1>1, <1>2, <3>2
    <3> QED
      BY <1>2, <3>1, <3>3 DEF Comma, Space
  <2>2. e + 1 \in 1..Nul
    BY <1>1
  <2> QED
    BY <1>3, <1>5, <2>1, <2>2
<1> QED
  BY <1>4, <1>5

LEMMA HasNewLine ==
  ASSUME HasLine, NewLine \in ToSet(line)
  PROVE  \E n \in 1..Len(line) : Ahead(1, n)
BY LineIs DEF ToSet, Ahead

LEMMA LabelStep ==
  ASSUME TabInv, Label
  PROVE  TabInv'
<1> DEFINE p == eat_space(1)
           q == next_space(p)
<1>1. HasLine /\ file # <<>> /\ pc = "label"
  BY DEF TabInv, Files, HasLine, Label
<1>2. CASE NextLine
  <2>1. Tail(file) \in Seq(Seq(STRING))
    BY <1>1 DEF HasLine
  <2> QED
    BY <1>2, <2>1 DEF TabInv, Files, Fresh, Parsed, NewLineAhead, InLine, NextLine, dirVars
<1>3. CASE tmp1' = p /\ tmp2' = q /\ pc' = "modifier" /\ UNCHANGED <<dirVars, file>>
  <2>1. ASSUME NewLine \in ToSet(line)
        PROVE  p \in 1..Nul /\ q \in 1..Nul /\ \E n \in 1..Len(line) : Ahead(q, n)
    <3>1. PICK n \in 1..Len(line) : Ahead(1, n)
      BY <1>1, <2>1, HasNewLine
    <3>2. Len(line) \in Nat /\ Nul = Len(line) + 1 /\ 1 \in 1..Nul
      BY <1>1, LineIs DEF Nul
    <3>3. p \in 1..n /\ Ahead(p, n)
      BY <1>1, <3>1, <3>2, StopsAtNewLine
    <3> HIDE DEF p
    <3>4. p \in 1..Nul
      BY <3>2, <3>3
    <3>5. q \in p..n /\ Ahead(q, n)
      BY <1>1, <3>3, <3>4, StopsAtNewLine
    <3> HIDE DEF q
    <3> QED
      BY <3>2, <3>3, <3>4, <3>5
  <2> HIDE DEF p, q
  <2>2. line' = line /\ Nul' = Nul
    BY <1>3 DEF line, Nul
  <2>3. NewLineAhead'
    BY <1>3, <2>1, <2>2 DEF NewLineAhead, Ahead
  <2> QED
    BY <1>1, <1>3, <2>3 DEF TabInv, Files, Fresh, Parsed, InLine, dirVars
<1> QED
  <2>1. NextLine \/ (tmp1' = p /\ tmp2' = q /\ pc' = "modifier" /\ UNCHANGED <<dirVars, file>>)
    BY DEF Label
  <2> QED
    BY <1>2, <1>3, <2>1

LEMMA ModifierStep ==
  ASSUME TabInv, Modifier
  PROVE  TabInv'
<1> DEFINE p == eat_space(tmp2)
           q == next_space(p)
           inside == \E i \in p..(q - 1) : At(i) = Comma
           end == IF inside THEN next_coma(p) ELSE q
           mod == tab_parse_mod(Token(p, end))
           after == IF mod = 0 THEN [next |-> end, coma |-> inside] ELSE AfterModifier(end, inside)
<1>1. HasLine /\ file # <<>> /\ pc = "modifier"
  BY DEF TabInv, Files, Parsed, HasLine, Modifier
<1>2. /\ tmp1' = p
      /\ tmp2' = after.next
      /\ pc' = IF after.coma THEN "modifier" ELSE "path"
      /\ UNCHANGED <<dirVars, file>>
  BY DEF Modifier
<1>3. ASSUME NewLine \in ToSet(line)
      PROVE  /\ p \in 1..Nul
             /\ after.next \in 1..Nul
             /\ after.coma => \E n \in 1..Len(line) : Ahead(after.next, n)
  <2>1. tmp2 \in 1..Nul /\ \E n \in 1..Len(line) : Ahead(tmp2, n)
    BY <1>1, <1>3 DEF TabInv, NewLineAhead
  <2>2. PICK n \in 1..Len(line) : Ahead(tmp2, n)
    BY <2>1
  <2>3. Len(line) \in Nat /\ Nul = Len(line) + 1
    BY <1>1, LineIs DEF Nul
  <2>4. p \in tmp2..n /\ Ahead(p, n)
    BY <1>1, <2>1, <2>2, StopsAtNewLine
  <2> HIDE DEF p
  <2>5. p \in 1..Nul
    BY <2>1, <2>3, <2>4
  <2>6. q \in p..n /\ Ahead(q, n)
    BY <1>1, <2>4, <2>5, StopsAtNewLine
  <2> HIDE DEF q
  <2>7. inside \in BOOLEAN
    OBVIOUS
  <2>8. end \in p..n /\ Ahead(end, n) /\ (inside => At(end) = Comma)
    <3>1. CASE inside
      <4>1. PICK i \in p..(q - 1) : At(i) = Comma
        BY <3>1
      <4>2. q \in p..Nul
        BY <2>3, <2>6
      <4>3. next_coma(p) \in p..(q - 1) /\ At(next_coma(p)) = Comma
        BY <1>1, <2>5, <4>1, <4>2, NextComa
      <4>4. end = next_coma(p)
        BY <3>1
      <4> QED
        BY <2>3, <2>4, <2>5, <2>6, <4>3, <4>4 DEF Ahead
    <3>2. CASE ~inside
      BY <2>6, <3>2
    <3> QED
      BY <3>1, <3>2
  <2> HIDE DEF inside, end
  <2>9. end \in 1..Nul
    BY <2>3, <2>5, <2>8
  <2>10. CASE mod = 0
    <3>1. after = [next |-> end, coma |-> inside]
      BY <2>10
    <3> HIDE DEF after
    <3> QED
      BY <2>5, <2>8, <2>9, <3>1
  <2>11. CASE mod # 0
    <3>1. after = AfterModifier(end, inside)
      BY <2>11
    <3>2. after.next \in 1..Nul /\ (after.coma => Ahead(after.next, n))
      BY <1>1, <2>7, <2>8, <2>9, <3>1, BehindModifier
    <3> HIDE DEF after
    <3> QED
      BY <2>5, <3>2
  <2> QED
    BY <2>10, <2>11
<1> HIDE DEF p, q, inside, end, mod, after
<1>4. line' = line /\ Nul' = Nul
  BY <1>2 DEF line, Nul
<1>5. Files' /\ Fresh' /\ Parsed'
  BY <1>1, <1>2 DEF TabInv, Files, Fresh, Parsed, dirVars
<1>6. NewLineAhead'
  BY <1>2, <1>3, <1>4 DEF NewLineAhead, Ahead
<1>7. InLine'
  BY <1>2, <1>3, <1>4 DEF InLine
<1> QED
  BY <1>5, <1>6, <1>7 DEF TabInv

\* The word that starts behind a pointer into the line lies in the line.
LEMMA WordInLine ==
  ASSUME HasLine, NEW p \in 1..Nul
  PROVE  eat_space(p) \in 1..Nul /\ next_space(eat_space(p)) \in 1..Nul
<1> DEFINE q == eat_space(p)
<1>1. Nul \in Nat /\ q \in p..Nul
  BY LineIs, EatSpace
<1> HIDE DEF q
<1>2. q \in 1..Nul
  BY <1>1
<1>3. next_space(q) \in q..Nul
  BY <1>2, NextSpace
<1> QED
  BY <1>1, <1>2, <1>3 DEF q

LEMMA PathStep ==
  ASSUME TabInv, Path
  PROVE  TabInv'
<1> DEFINE p == eat_space(tmp2)
<1>1. HasLine /\ file # <<>> /\ pc = "path" /\ pc' = "args" /\ UNCHANGED <<dirVars, file>>
  BY DEF TabInv, Files, Parsed, HasLine, Path
<1>2. line' = line /\ Nul' = Nul
  BY <1>1 DEF line, Nul
<1>3. ASSUME NewLine \in ToSet(line)
      PROVE  tmp1' \in 1..Nul /\ tmp2' \in 1..Nul
  <2>1. tmp2 \in 1..Nul /\ Nul \in Nat
    BY <1>1, <1>3, LineIs DEF TabInv, InLine
  <2>2. ~(tmp2 > Nul)
    BY <2>1
  <2>3. tmp1' = p /\ tmp2' = next_space(p)
    BY <2>2 DEF Path
  <2> QED
    BY <1>1, <2>1, <2>3, WordInLine
<1> QED
  BY <1>1, <1>2, <1>3 DEF TabInv, Files, Fresh, Parsed, NewLineAhead, InLine, dirVars

LEMMA ArgumentStep ==
  ASSUME TabInv, Argument
  PROVE  TabInv'
<1> DEFINE p == eat_space(tmp2)
<1>1. HasLine /\ file # <<>> /\ pc = "args" /\ pc' = "args" /\ UNCHANGED <<dirVars, file>>
  BY DEF TabInv, Files, Parsed, HasLine, Argument
<1>2. line' = line /\ Nul' = Nul
  BY <1>1 DEF line, Nul
<1>3. ASSUME NewLine \in ToSet(line)
      PROVE  tmp1' \in 1..Nul /\ tmp2' \in 1..Nul
  <2>1. tmp2 \in 1..Nul
    BY <1>1, <1>3 DEF TabInv, InLine
  <2>2. tmp1' = p /\ tmp2' = next_space(p)
    BY DEF Argument
  <2> QED
    BY <1>1, <2>1, <2>2, WordInLine
<1> QED
  BY <1>1, <1>2, <1>3 DEF TabInv, Files, Fresh, Parsed, NewLineAhead, InLine, dirVars

LEMMA TabNext == TabInv /\ [Next]_vars => TabInv'
<1> SUFFICES ASSUME TabInv, [Next]_vars
             PROVE  TabInv'
  OBVIOUS
<1> USE DEF TabInv, Files, Fresh, Parsed, NewLineAhead, InLine
<1>1. CASE AddHook
  <2>1. file # <<>> /\ Tail(file) \in Seq(Seq(STRING))
    BY <1>1 DEF AddHook
  <2> QED
    BY <1>1, <2>1 DEF AddHook, NextLine, dirVars
<1>2. CASE EndOfFile
  BY <1>2 DEF EndOfFile, dirVars
<1>3. ASSUME NEW f \in unread, OpenTab(f)
      PROVE  TabInv'
  <2>1. f \in Seq(Seq(STRING))
    BY <1>3, TabAssumption
  <2> QED
    BY <1>3, <2>1 DEF OpenTab
<1>4. CASE EndOfDir
  BY <1>4 DEF EndOfDir, dirVars
<1>5. CASE UNCHANGED vars
  BY <1>5 DEF vars, dirVars, line, Nul, Ahead
<1> QED
  BY <1>1, <1>2, <1>3, <1>4, <1>5, LabelStep, ModifierStep, PathStep, ArgumentStep DEF Next

THEOREM TabInvariance == Spec => []TabInv
<1>1. Init => TabInv
  BY TabInit
<1>2. TabInv /\ [Next]_vars => TabInv'
  BY TabNext
<1> QED
  BY <1>1, <1>2, PTL DEF Spec

\* No pointer of the parser passes the NUL of a line that ends with a newline
\* (gpiod-hooktab.c:101-236), however long the line and however many the files.
THEOREM PointersStay == Spec => []PointersInLine
<1>1. TabInv => PointersInLine
  <2> SUFFICES ASSUME TabInv, file # <<>>, NewLine \in ToSet(line)
               PROVE  tmp1 <= Nul /\ tmp2 <= Nul
    BY DEF PointersInLine
  <2>1. HasLine /\ Nul \in Nat \ {0}
    BY LineIs DEF TabInv, Files, HasLine
  <2>2. CASE pc \in {"dir", "label", "done"}
    BY <2>1, <2>2 DEF TabInv, Fresh
  <2>3. CASE pc \in {"modifier", "path", "args"}
    BY <2>1, <2>3 DEF TabInv, NewLineAhead, InLine
  <2> QED
    BY <2>2, <2>3 DEF TabInv, Files
<1> QED
  BY <1>1, TabInvariance, PTL

-----------------------------------------------------------------------------
(***************************************************************************)
(* Termination, as far as it goes without fairness: every step comes nearer *)
(* to the end.                                                              *)
(***************************************************************************)
Stage ==
  CASE pc = "label" -> 1
    [] pc = "modifier" -> 2
    [] pc = "path" -> 3
    [] pc = "args" -> IF tmp1 # tmp2 THEN 4 ELSE 5
    [] pc = "dir" -> 6
    [] OTHER -> 7

\* A file less to be opened, a line less to be read, a later loop, or the same one
\* further on in the line.
Nearer ==
  \/ unread' \subseteq unread /\ unread' # unread
  \/ unread' = unread /\ file # <<>> /\ file' = Tail(file)
  \/ UNCHANGED <<unread, file>> /\ Stage < Stage'
  \/ UNCHANGED <<unread, file>> /\ Stage = Stage' /\ tmp2 < tmp2' /\ tmp2' <= Nul

Bounds ==
  /\ pc \in {"modifier", "args"} => tmp2 \in 1..Nul
  /\ pc = "path" => tmp2 \in 1..(Nul + 1)

\* The empty word is a prefix of the table's first entry: it is no unknown modifier.
LEMMA NoWordIsKnown == tab_parse_mod(Empty) # 0
<1> DEFINE table == gpiod_hook_modifies
           hits == {i \in 1..Len(table) : Begins(Empty, table[i])}
           first == CHOOSE i \in hits : \A j \in hits : i <= j
<1>1. Len(table) = 5
  BY DEF gpiod_hook_modifies
<1>2. hits = 1..Len(table)
  BY DEF Begins
<1>3. tab_parse_mod(Empty) = IF hits = {} THEN 0 ELSE first
  BY DEF tab_parse_mod, FirstOf
<1> HIDE DEF table, hits
<1>4. hits # {} /\ hits \subseteq Nat \ {0}
  BY <1>1, <1>2
<1>5. hits \subseteq Nat
  BY <1>4
<1>6. \E m \in hits : \A j \in hits : m <= j
  BY <1>4, <1>5, FirstThere
<1>7. first \in hits
  BY <1>6
<1> HIDE DEF first
<1> QED
  BY <1>3, <1>4, <1>7

LEMMA NoToken ==
  ASSUME HasLine, NEW p \in 1..Nul
  PROVE  Token(p, p) = Empty
<1>1. p \in Int /\ p - 1 \in Int /\ p - 1 < p
  BY LineIs
<1>2. SubSeq(line, p, p - 1) = << >>
  BY <1>1, SubSeqEmpty
<1> QED
  BY <1>2 DEF Token, Empty

\* Each round over the modifiers gets further than the one before, and if there is
\* another one it starts in the line.
LEMMA RoundOfModifiers ==
  ASSUME HasLine, tmp2 \in 1..Nul, Modifier
  PROVE  /\ tmp2' \in (tmp2 + 1)..(Nul + 1)
         /\ pc' \in {"modifier", "path"}
         /\ pc' = "modifier" => tmp2' <= Nul
         /\ UNCHANGED <<unread, file>>
<1> DEFINE p == eat_space(tmp2)
           q == next_space(p)
           inside == \E i \in p..(q - 1) : At(i) = Comma
           end == IF inside THEN next_coma(p) ELSE q
           mod == tab_parse_mod(Token(p, end))
           after == IF mod = 0 THEN [next |-> end, coma |-> inside] ELSE AfterModifier(end, inside)
<1>1. /\ tmp2' = after.next
      /\ pc' = IF after.coma THEN "modifier" ELSE "path"
      /\ UNCHANGED <<unread, file>>
  BY DEF Modifier, dirVars
<1>2. Nul \in Nat /\ p \in tmp2..Nul
  BY LineIs, EatSpace
<1> HIDE DEF p
<1>3. p \in 1..Nul
  BY <1>2
<1>4. q \in p..Nul
  BY <1>3, NextSpace
<1> HIDE DEF q
<1>5. end \in p..Nul /\ (inside => end < Nul)
  <2>1. CASE inside
    <3>1. PICK i \in p..(q - 1) : At(i) = Comma
      BY <2>1
    <3>2. next_coma(p) \in p..(q - 1)
      BY <1>3, <1>4, <3>1, NextComa
    <3>3. end = next_coma(p)
      BY <2>1
    <3> QED
      BY <1>2, <1>4, <3>2, <3>3
  <2>2. CASE ~inside
    BY <1>4, <2>2
  <2> QED
    BY <2>1, <2>2
<1>6. mod = 0 => end # p
  BY <1>3, NoToken, NoWordIsKnown
<1> HIDE DEF inside, end, mod
<1>7. CASE mod = 0
  <2>1. after = [next |-> end, coma |-> inside]
    BY <1>7
  <2> HIDE DEF after
  <2> QED
    BY <1>1, <1>2, <1>5, <1>6, <1>7, <2>1
<1>8. CASE mod # 0
  <2> DEFINE f == eat_space(end)
  <2>1. end \in 1..Nul
    BY <1>2, <1>3, <1>5
  <2>2. f \in end..Nul
    BY <2>1, EatSpace
  <2>3. after = IF At(f) = Comma THEN [next |-> f + 1, coma |-> TRUE] ELSE [next |-> end + 1, coma |-> inside]
    BY <1>8 DEF AfterModifier
  <2> HIDE DEF f, after
  <2>4. CASE At(f) = Comma
    <3>1. Nul \in Nat
      BY <1>2
    <3>2. At(Nul) = "NUL"
      BY <3>1 DEF At
    <3>3. f # Nul
      BY <2>4, <3>2 DEF Comma
    <3>4. after = [next |-> f + 1, coma |-> TRUE]
      BY <2>3, <2>4
    <3>5. tmp2' = f + 1 /\ pc' = "modifier"
      BY <1>1, <3>4
    <3>6. f \in tmp2..Nul
      BY <1>2, <1>5, <2>2
    <3>7. f + 1 \in (tmp2 + 1)..Nul
      BY <3>1, <3>3, <3>6
    <3> QED
      BY <1>1, <3>1, <3>5, <3>7
  <2>5. CASE At(f) # Comma
    BY <1>1, <1>2, <1>3, <1>5, <2>1, <2>3, <2>5
  <2> QED
    BY <2>4, <2>5
<1> QED
  BY <1>7, <1>8

\* A word found behind tmp2: either there is none, or it ends further on.
LEMMA NextWord ==
  ASSUME HasLine, tmp2 \in 1..Nul
  PROVE  LET p == eat_space(tmp2)
             q == next_space(p)
         IN  p \in 1..Nul /\ q \in 1..Nul /\ (p = q \/ tmp2 < q)
<1> DEFINE p == eat_space(tmp2)
           q == next_space(p)
<1>1. Nul \in Nat /\ p \in tmp2..Nul
  BY LineIs, EatSpace
<1> HIDE DEF p
<1>2. q \in p..Nul
  BY <1>1, NextSpace
<1> HIDE DEF q
<1>3. p \in 1..Nul /\ q \in 1..Nul /\ (p = q \/ tmp2 < q)
  BY <1>1, <1>2
<1> QED
  BY <1>3 DEF p, q

LEMMA LabelNearer ==
  ASSUME TabInv, Label
  PROVE  Bounds' /\ Nearer
<1> DEFINE p == eat_space(1)
           q == next_space(p)
<1>1. HasLine /\ file # <<>> /\ pc = "label" /\ Nul \in Nat \ {0}
  BY LineIs DEF TabInv, Files, HasLine, Label
<1>2. CASE NextLine
  BY <1>1, <1>2 DEF NextLine, Bounds, Nearer, dirVars
<1>3. CASE tmp2' = q /\ pc' = "modifier" /\ UNCHANGED <<unread, file>>
  <2>1. q \in 1..Nul
    BY <1>1, WordInLine
  <2>2. Nul' = Nul
    BY <1>3 DEF Nul, line
  <2> HIDE DEF p, q
  <2>3. Stage = 1 /\ Stage' = 2
    BY <1>1, <1>3 DEF Stage
  <2> QED
    BY <1>3, <2>1, <2>2, <2>3 DEF Bounds, Nearer
<1> QED
  <2>1. NextLine \/ (tmp2' = q /\ pc' = "modifier" /\ UNCHANGED <<unread, file>>)
    BY DEF Label, dirVars
  <2> QED
    BY <1>2, <1>3, <2>1

LEMMA ModifierNearer ==
  ASSUME TabInv, Bounds, Modifier
  PROVE  Bounds' /\ Nearer
<1>1. HasLine /\ pc = "modifier" /\ tmp2 \in 1..Nul /\ Nul \in Nat
  BY LineIs DEF TabInv, Files, Parsed, HasLine, Modifier, Bounds
<1>2. /\ tmp2' \in (tmp2 + 1)..(Nul + 1)
      /\ pc' \in {"modifier", "path"}
      /\ pc' = "modifier" => tmp2' <= Nul
      /\ UNCHANGED <<unread, file>>
  BY <1>1, RoundOfModifiers
<1>3. Nul' = Nul
  BY <1>2 DEF Nul, line
<1>4. Stage = 2 /\ Stage' = IF pc' = "modifier" THEN 2 ELSE 3
  BY <1>1, <1>2 DEF Stage
<1>5. tmp2 < tmp2'
  BY <1>1, <1>2
<1>6. Bounds'
  BY <1>1, <1>2, <1>3 DEF Bounds
<1> QED
  BY <1>2, <1>4, <1>5, <1>6 DEF Nearer

LEMMA PathNearer ==
  ASSUME TabInv, Bounds, Path
  PROVE  Bounds' /\ Nearer
<1>1. HasLine /\ pc = "path" /\ pc' = "args" /\ UNCHANGED <<unread, file>>
  BY DEF TabInv, Files, Parsed, HasLine, Path, dirVars
<1>2. Nul' = Nul /\ Nul \in Nat \ {0}
  BY <1>1, LineIs DEF Nul, line
<1>3. tmp2' \in 1..Nul
  <2>1. CASE tmp2 > Nul
    BY <1>2, <2>1 DEF Path
  <2>2. CASE ~(tmp2 > Nul)
    <3>1. tmp2 \in 1..Nul
      BY <1>1, <1>2, <2>2 DEF Bounds
    <3>2. tmp2' = next_space(eat_space(tmp2))
      BY <2>2 DEF Path
    <3> QED
      BY <1>1, <3>1, <3>2, WordInLine
  <2> QED
    BY <2>1, <2>2
<1>4. Stage = 3 /\ Stage' \in {4, 5}
  BY <1>1 DEF Stage
<1> QED
  BY <1>1, <1>2, <1>3, <1>4 DEF Bounds, Nearer

LEMMA ArgumentNearer ==
  ASSUME TabInv, Bounds, Argument
  PROVE  Bounds' /\ Nearer
<1> DEFINE p == eat_space(tmp2)
           q == next_space(p)
<1>1. HasLine /\ pc = "args" /\ pc' = "args" /\ tmp1 # tmp2 /\ UNCHANGED <<unread, file>>
  BY DEF TabInv, Files, Parsed, HasLine, Argument, dirVars
<1>2. tmp2 \in 1..Nul
  BY <1>1 DEF Bounds
<1>3. Nul' = Nul /\ Nul \in Nat \ {0}
  BY <1>1, LineIs DEF Nul, line
<1>4. tmp1' = p /\ tmp2' = q
  BY DEF Argument
<1>5. p \in 1..Nul /\ q \in 1..Nul /\ (p = q \/ tmp2 < q)
  BY <1>1, <1>2, NextWord
<1> HIDE DEF p, q
<1>6. Stage = 4 /\ Stage' = IF p # q THEN 4 ELSE 5
  BY <1>1, <1>4 DEF Stage
<1>7. Bounds'
  BY <1>1, <1>3, <1>4, <1>5 DEF Bounds
<1>8. tmp2' <= Nul
  BY <1>3, <1>4, <1>5
<1> QED
  BY <1>1, <1>4, <1>5, <1>6, <1>7, <1>8 DEF Nearer

LEMMA EveryStepNearer ==
  ASSUME TabInv, Bounds, Next
  PROVE  Bounds' /\ Nearer
<1>1. CASE AddHook
  <2>1. file # <<>> /\ file' = Tail(file) /\ unread' = unread /\ pc' = "label"
    BY <1>1 DEF AddHook, NextLine, dirVars, TabInv, Parsed
  <2> QED
    BY <2>1 DEF Bounds, Nearer
<1>2. CASE EndOfFile
  <2>1. pc = "label" /\ pc' = "dir" /\ UNCHANGED <<unread, file>>
    BY <1>2 DEF EndOfFile, dirVars
  <2>2. Stage = 1 /\ Stage' = 6
    BY <2>1 DEF Stage
  <2> QED
    BY <2>1, <2>2 DEF Bounds, Nearer
<1>3. ASSUME NEW f \in unread, OpenTab(f)
      PROVE  Bounds' /\ Nearer
  <2>1. unread' = unread \ {f} /\ pc = "dir" /\ pc' \in {"dir", "label"}
    BY <1>3 DEF OpenTab
  <2> QED
    BY <2>1 DEF Bounds, Nearer
<1>4. CASE EndOfDir
  <2>1. pc = "dir" /\ pc' = "done" /\ UNCHANGED <<unread, file>>
    BY <1>4 DEF EndOfDir, dirVars
  <2>2. Stage = 6 /\ Stage' = 7
    BY <2>1 DEF Stage
  <2> QED
    BY <2>1, <2>2 DEF Bounds, Nearer
<1> QED
  BY <1>1, <1>2, <1>3, <1>4, LabelNearer, ModifierNearer, PathNearer, ArgumentNearer DEF Next

\* No round of the loops over files, lines, modifiers or arguments leaves things as
\* they were, also behind the `continue` that does not move tmp2 on, and on lines
\* nobody meant to write (gpiod-hooktab.c:101-236): of finite directories the parser
\* takes a finite number of steps.
THEOREM ComesNearer == Spec => [][Nearer]_vars
<1>1. Init => Bounds
  BY DEF Init, Bounds
<1>2. TabInv /\ Bounds /\ [Next]_vars => Bounds'
  <2>1. CASE Next
    BY <2>1, EveryStepNearer
  <2>2. CASE UNCHANGED vars
    BY <2>2 DEF vars, Bounds, Nul, line
  <2> QED
    BY <2>1, <2>2
<1>3. TabInv /\ Bounds /\ [Next]_vars => [Nearer]_vars
  BY EveryStepNearer
<1> QED
  BY <1>1, <1>2, <1>3, TabInvariance, PTL DEF Spec

-----------------------------------------------------------------------------
(***************************************************************************)
(* The end of argv.                                                         *)
(***************************************************************************)
Arg == [special : BOOLEAN, c_arg : Seq(STRING)]
\* A path is a word of the line, or what was left in the buffer: no prover knows
\* the literal for a member of STRING.
Paths == Seq(STRING) \cup {<<"stale">>}
Hook == [path : Paths, flags : SUBSET Bit, args : Seq(Arg)]

HooksTyped ==
  /\ flags \subseteq Bit
  /\ hook \in [path : Paths, args : Seq(Arg)]
  /\ hook_list \in [1..Len(gp_list) -> Seq(Hook)]

\* The loop over the arguments goes on as long as it has found a word, and a hook
\* without a path does not enter it.
ArgsSoFar ==
  pc = "args" =>
    /\ tmp1 = tmp2 => Terminated(hook)
    /\ tmp1 # tmp2 => /\ hook.path # Empty
                      /\ \A i \in 1..Len(hook.args) : hook.args[i] # NullArg

ArgvInv == HooksTyped /\ ArgsSoFar /\ ArgvEnds

LEMMA ArgvInit == Init => ArgvInv
<1> SUFFICES ASSUME Init PROVE ArgvInv
  OBVIOUS
<1>1. hook = NoHook /\ flags = {} /\ hook_list = [i \in 1..Len(gp_list) |-> <<>>] /\ pc = "dir"
  BY DEF Init
<1>2. HooksTyped
  BY <1>1 DEF HooksTyped, NoHook, Empty, Paths
<1>3. ArgvEnds
  BY <1>1 DEF ArgvEnds, ToSet
<1> QED
  BY <1>1, <1>2, <1>3 DEF ArgvInv, ArgsSoFar

\* A search through a table gives a position in it, or 0.
LEMMA FirstOfRange ==
  ASSUME NEW table, Len(table) \in Nat, NEW token
  PROVE  FirstOf(table, token) \in 0..Len(table)
<1> DEFINE hits == {i \in 1..Len(table) : Begins(token, table[i])}
<1>1. hits \subseteq Nat
  OBVIOUS
<1>2. CASE hits = {}
  BY <1>2 DEF FirstOf
<1>3. CASE hits # {}
  <2>1. \E i \in hits : \A j \in hits : i <= j
    BY <1>1, <1>3, FirstThere
  <2>2. FirstOf(table, token) \in hits
    BY <1>3, <2>1 DEF FirstOf
  <2> QED
    BY <2>2
<1> QED
  BY <1>2, <1>3

\* A word between two positions of the line is one, and empty only if they are equal.
LEMMA TokenOf ==
  ASSUME HasLine, NEW p \in 1..Nul, NEW q \in p..Nul
  PROVE  Token(p, q) \in Seq(STRING) /\ (Token(p, q) = Empty <=> p = q)
<1>1. line \in Seq(STRING) /\ Len(line) \in Nat /\ Nul = Len(line) + 1
  BY LineIs DEF Nul
<1>2. p \in Int /\ q - 1 \in Int /\ \A i \in p..(q - 1) : line[i] \in STRING
  BY <1>1
<1>3. Token(p, q) \in Seq(STRING) /\ Len(Token(p, q)) = IF p <= q - 1 THEN (q - 1) - p + 1 ELSE 0
  BY <1>2, SubSeqProperties DEF Token
<1>4. CASE p = q
  BY <1>3, <1>4, NoToken
<1>5. CASE p # q
  <2>1. Len(Token(p, q)) # 0
    BY <1>1, <1>3, <1>5
  <2>2. Len(Empty) = 0
    BY DEF Empty
  <2> QED
    BY <1>3, <1>5, <2>1, <2>2
<1> QED
  BY <1>4, <1>5

LEMMA NextWordOf ==
  ASSUME HasLine, NEW p \in 1..Nul
  PROVE  /\ eat_space(p) \in 1..Nul
         /\ next_space(eat_space(p)) \in eat_space(p)..Nul
BY WordInLine, NextSpace

\* Where another line begins nothing is left of the hook before.
LEMMA NextLineArgv ==
  ASSUME HooksTyped, NextLine, hook_list' \in [1..Len(gp_list) -> Seq(Hook)], ArgvEnds'
  PROVE  ArgvInv'
<1>1. hook' = NoHook /\ flags' = {} /\ pc' = "label"
  BY DEF NextLine
<1>2. HooksTyped'
  BY <1>1 DEF HooksTyped, NoHook, Empty, Paths
<1> QED
  BY <1>1, <1>2 DEF ArgvInv, ArgsSoFar

LEMMA ModifierArgv ==
  ASSUME ArgvInv, Modifier
  PROVE  ArgvInv'
<1>1. \E token : flags' = IF tab_parse_mod(token) = 0 THEN flags ELSE flags \cup Bits[tab_parse_mod(token)]
  BY DEF Modifier
<1>2. PICK token : flags' = IF tab_parse_mod(token) = 0 THEN flags ELSE flags \cup Bits[tab_parse_mod(token)]
  BY <1>1
<1>3. tab_parse_mod(token) \in 0..5
  <2>1. Len(gpiod_hook_modifies) = 5
    BY DEF gpiod_hook_modifies
  <2> QED
    <3>1. Len(gpiod_hook_modifies) \in Nat
      BY <2>1
    <3>2. FirstOf(gpiod_hook_modifies, token) \in 0..Len(gpiod_hook_modifies)
      BY <3>1, FirstOfRange
    <3> QED
      BY <2>1, <3>2 DEF tab_parse_mod
<1>4. \A i \in 1..5 : Bits[i] \subseteq Bit
  BY DEF Bits, Bit
<1>5. flags' \subseteq Bit
  BY <1>2, <1>3, <1>4 DEF ArgvInv, HooksTyped
<1>6. pc' \in {"modifier", "path"} /\ UNCHANGED <<hook, hook_list>>
  BY DEF Modifier
<1> QED
  BY <1>5, <1>6 DEF ArgvInv, HooksTyped, ArgsSoFar, ArgvEnds

LEMMA PathArgv ==
  ASSUME TabInv, Bounds, ArgvInv, Path
  PROVE  ArgvInv'
<1>1. HasLine /\ pc = "path" /\ pc' = "args" /\ UNCHANGED <<flags, hook_list>>
  BY DEF TabInv, Files, Parsed, HasLine, Path
<1>2. Nul \in Nat \ {0}
  BY <1>1, LineIs
<1>3. \E word \in Paths : hook' = [path |-> word, args |-> <<>>] /\ (word = Empty <=> tmp1' = tmp2')
  <2>1. CASE tmp2 > Nul
    <3>1. PICK word \in {Empty, <<"stale">>} :
            /\ hook' = [path |-> word, args |-> <<>>]
            /\ tmp1' = IF word = Empty THEN Nul ELSE 0
            /\ tmp2' = Nul
      BY <2>1 DEF Path
    <3>2. Empty \in Paths /\ <<"stale">> \in Paths
      BY DEF Paths, Empty
    <3>3. word \in Paths /\ (word = Empty \/ (word # Empty /\ tmp1' = 0))
      BY <3>1, <3>2
    <3> QED
      BY <1>2, <3>1, <3>3
  <2>2. CASE ~(tmp2 > Nul)
    <3> DEFINE p == eat_space(tmp2)
               q == next_space(p)
    <3>1. tmp2 \in 1..Nul
      BY <1>1, <1>2, <2>2 DEF Bounds
    <3>2. hook' = [path |-> Token(p, q), args |-> <<>>] /\ tmp1' = p /\ tmp2' = q
      BY <2>2 DEF Path
    <3>3. p \in 1..Nul /\ q \in p..Nul
      BY <1>1, <3>1, NextWordOf
    <3> HIDE DEF p, q
    <3> QED
      BY <1>1, <3>2, <3>3, TokenOf DEF Paths
  <2> QED
    BY <2>1, <2>2
<1>4. PICK word \in Paths :
        hook' = [path |-> word, args |-> <<>>] /\ (word = Empty <=> tmp1' = tmp2')
  BY <1>3
<1>5. HooksTyped'
  BY <1>1, <1>4 DEF ArgvInv, HooksTyped
<1>6. ArgsSoFar'
  <2>1. hook'.path = word /\ hook'.args = <<>>
    BY <1>4
  <2>2. tmp1' = tmp2' => Terminated(hook')
    BY <1>4, <2>1 DEF Terminated
  <2>3. \A i \in 1..Len(hook'.args) : hook'.args[i] # NullArg
    BY <2>1
  <2> QED
    BY <1>4, <2>1, <2>2, <2>3 DEF ArgsSoFar
<1> QED
  BY <1>1, <1>5, <1>6 DEF ArgvInv, ArgvEnds

\* An empty word adds the NULL, another word adds itself.
LEMMA ArgOfToken ==
  ASSUME NEW token \in Seq(STRING)
  PROVE  \E a \in Arg : ArgOf(token) = <<a>> /\ (a = NullArg <=> token = Empty)
<1>1. CASE token = Empty
  <2>1. NullArg \in Arg
    BY DEF NullArg, Arg, Empty
  <2> QED
    BY <1>1, <2>1 DEF ArgOf
<1>2. CASE token # Empty
  <2> DEFINE a == [special |-> IsSpecial(token), c_arg |-> token]
  <2>1. a \in Arg
    BY DEF Arg, IsSpecial
  <2>2. a # NullArg
    BY <1>2 DEF NullArg
  <2>3. ArgOf(token) = <<a>>
    BY <1>2 DEF ArgOf
  <2> HIDE DEF a
  <2> QED
    BY <1>2, <2>1, <2>2, <2>3
<1> QED
  BY <1>1, <1>2

LEMMA ArgumentArgv ==
  ASSUME TabInv, Bounds, ArgvInv, Argument
  PROVE  ArgvInv'
<1> DEFINE p == eat_space(tmp2)
           q == next_space(p)
<1>1. HasLine /\ pc = "args" /\ pc' = "args" /\ tmp1 # tmp2 /\ UNCHANGED <<flags, hook_list>>
  BY DEF TabInv, Files, Parsed, HasLine, Argument
<1>2. tmp1' = p /\ tmp2' = q /\ hook' = [hook EXCEPT !.args = @ \o ArgOf(Token(p, q))]
  BY DEF Argument
<1>3. tmp2 \in 1..Nul
  BY <1>1 DEF Bounds
<1>4. p \in 1..Nul /\ q \in p..Nul
  BY <1>1, <1>3, NextWordOf
<1> HIDE DEF p, q
<1>5. Token(p, q) \in Seq(STRING) /\ (Token(p, q) = Empty <=> p = q)
  BY <1>1, <1>4, TokenOf
<1>6. PICK a \in Arg : ArgOf(Token(p, q)) = <<a>> /\ (a = NullArg <=> p = q)
  BY <1>5, ArgOfToken
<1> DEFINE args == hook.args
           n == Len(args)
           more == args \o <<a>>
<1>7. args \in Seq(Arg) /\ n \in Nat /\ hook.path \in Paths /\ hook.path # Empty
      /\ \A i \in 1..n : args[i] # NullArg
  BY <1>1 DEF ArgvInv, HooksTyped, ArgsSoFar
<1>8. more \in Seq(Arg) /\ Len(more) = n + 1 /\ more[n + 1] = a /\ \A i \in 1..n : more[i] = args[i]
  <2>1. more = Append(args, a)
    BY <1>6, <1>7, AppendIsConcat
  <2> QED
    BY <1>6, <1>7, <2>1, AppendProperties
<1>9. hook' = [path |-> hook.path, args |-> more]
  BY <1>2, <1>6 DEF ArgvInv, HooksTyped
<1> HIDE DEF args, n, more
<1>10. HooksTyped'
  BY <1>1, <1>7, <1>8, <1>9 DEF ArgvInv, HooksTyped
<1>11. ArgsSoFar'
  <2>1. hook'.path = hook.path /\ hook'.args = more
    BY <1>9
  <2>2. \A i \in 1..(n + 1) : i \in 1..n \/ i = n + 1
    BY <1>7
  <2>3. ASSUME p = q PROVE Terminated(hook')
    <3>1. \A i \in 1..Len(more) : more[i] = NullArg <=> i = Len(more)
      BY <1>6, <1>7, <1>8, <2>2, <2>3
    <3>2. more # <<>>
      BY <1>7, <1>8
    <3> QED
      BY <1>7, <2>1, <3>1, <3>2 DEF Terminated
  <2>4. ASSUME p # q PROVE \A i \in 1..Len(more) : more[i] # NullArg
    BY <1>6, <1>7, <1>8, <2>2, <2>4
  <2> QED
    BY <1>2, <1>7, <2>1, <2>3, <2>4 DEF ArgsSoFar
<1> QED
  BY <1>1, <1>10, <1>11 DEF ArgvInv, ArgvEnds

LEMMA AddHookArgv ==
  ASSUME ArgvInv, AddHook
  PROVE  ArgvInv'
<1> DEFINE h == [path |-> hook.path, flags |-> flags, args |-> hook.args]
<1>1. /\ pc = "args" /\ tmp1 = tmp2 /\ NextLine
      /\ hook_list' = [hook_list EXCEPT ![pin] = Append(@, h)]
  BY DEF AddHook
<1>2. h \in Hook /\ Terminated(h)
  BY <1>1 DEF ArgvInv, HooksTyped, ArgsSoFar, Hook, Terminated
<1> HIDE DEF h
<1>3. \A s \in Seq(Hook) : Append(s, h) \in Seq(Hook) /\ ToSet(Append(s, h)) = ToSet(s) \cup {h}
  <2> SUFFICES ASSUME NEW s \in Seq(Hook)
               PROVE  Append(s, h) \in Seq(Hook) /\ ToSet(Append(s, h)) = ToSet(s) \cup {h}
    OBVIOUS
  <2>1. /\ Append(s, h) \in Seq(Hook) /\ Len(Append(s, h)) = Len(s) + 1 /\ Len(s) \in Nat
        /\ \A i \in 1..Len(s) : Append(s, h)[i] = s[i]
        /\ Append(s, h)[Len(s) + 1] = h
    BY <1>2, AppendProperties
  <2>2. DOMAIN s = 1..Len(s) /\ DOMAIN Append(s, h) = 1..(Len(s) + 1)
    BY <2>1
  <2>3. 1..(Len(s) + 1) = 1..Len(s) \cup {Len(s) + 1}
    BY <2>1
  <2> QED
    BY <2>1, <2>2, <2>3 DEF ToSet
<1>4. hook_list' \in [1..Len(gp_list) -> Seq(Hook)]
  BY <1>1, <1>3 DEF ArgvInv, HooksTyped
<1>5. \A i \in 1..Len(gp_list) : hook_list'[i] = IF i = pin THEN Append(hook_list[i], h) ELSE hook_list[i]
  BY <1>1 DEF ArgvInv, HooksTyped
<1>6. \A i \in 1..Len(gp_list) : ToSet(hook_list'[i]) \subseteq ToSet(hook_list[i]) \cup {h}
  BY <1>3, <1>5 DEF ArgvInv, HooksTyped
<1>7. ArgvEnds'
  BY <1>2, <1>6 DEF ArgvInv, ArgvEnds
<1> QED
  BY <1>1, <1>4, <1>7, NextLineArgv DEF ArgvInv

LEMMA ArgvNext == TabInv /\ Bounds /\ ArgvInv /\ [Next]_vars => ArgvInv'
<1> SUFFICES ASSUME TabInv, Bounds, ArgvInv, [Next]_vars PROVE ArgvInv'
  OBVIOUS
<1>1. CASE Label
  <2>1. CASE NextLine /\ UNCHANGED hook_list
    BY <2>1, NextLineArgv DEF ArgvInv, HooksTyped, ArgvEnds
  <2>2. CASE pc' = "modifier" /\ UNCHANGED <<flags, hook, hook_list>>
    BY <2>2 DEF ArgvInv, HooksTyped, ArgsSoFar, ArgvEnds
  <2> QED
    BY <1>1, <2>1, <2>2 DEF Label
<1>2. CASE EndOfFile \/ EndOfDir \/ \E f \in unread : OpenTab(f)
  <2>1. pc' # "args" /\ UNCHANGED <<flags, hook, hook_list>>
    BY <1>2 DEF EndOfFile, EndOfDir, OpenTab
  <2> QED
    BY <2>1 DEF ArgvInv, HooksTyped, ArgsSoFar, ArgvEnds
<1>3. CASE UNCHANGED vars
  BY <1>3 DEF vars, ArgvInv, HooksTyped, ArgsSoFar, ArgvEnds
<1> QED
  BY <1>1, <1>2, <1>3, ModifierArgv, PathArgv, ArgumentArgv, AddHookArgv DEF Next

\* Whatever stands in the files, the argv of a hook has a NULL at its end and none
\* before, or the hook has no path and no argument (gpiod-hooktab.c:193-227,
\* gpiod-dispatch.c:103-138).
THEOREM ArgvTerminated == Spec => []ArgvEnds
<1>1. Init => TabInv /\ Bounds /\ ArgvInv
  BY TabInit, ArgvInit DEF Init, Bounds
<1>2. TabInv /\ Bounds /\ ArgvInv /\ [Next]_vars => TabInv' /\ Bounds' /\ ArgvInv'
  <2>1. UNCHANGED vars /\ Bounds => Bounds'
    BY DEF vars, Bounds, Nul, line
  <2> QED
    BY <2>1, TabNext, EveryStepNearer, ArgvNext
<1>3. ArgvInv => ArgvEnds
  BY DEF ArgvInv
<1> QED
  BY <1>1, <1>2, <1>3, PTL DEF Spec

=============================================================================
