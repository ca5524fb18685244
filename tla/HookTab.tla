------------------------------ MODULE HookTab ------------------------------
(***************************************************************************)
(* The reading of the tab files (gpiod-hooktab.c:31-285): label, modifiers, *)
(* path and arguments of each line become a hook of the labelled pin.       *)
(*                                                                         *)
(* A line is a sequence of symbols: a word stands for its characters, Space *)
(* for a blank or a tab.  The pointers tmp1 and tmp2 of the code are        *)
(* positions in the line; the position behind the last symbol is that of    *)
(* the terminating NUL.  One step is one iteration of one of the loops.     *)
(***************************************************************************)
EXTENDS Naturals, Sequences, SequencesExt

CONSTANTS
  Dirs,    \* the tab directories considered: sets of files, sequences of lines
  Clean,   \* the files of the form README.md:121-128 gives, modifiers in full
  gp_list, \* the labels of the configured pins, in order
  Prefix   \* Prefix[w]: the labels, modifiers and special arguments w starts

Space == " "
Comma == ","
NewLine == "\n"
Empty == <<>>

ASSUME TabAssumption ==
  /\ gp_list \in Seq(STRING)
  /\ \A d \in Dirs : \A f \in d : f \in Seq(Seq(STRING))

VARIABLES
  dir,      \* the directory
  unread,   \* the files readdir has still to return
  tab,      \* the lines of all files opened, in the order of their reading
  file,     \* the lines still to be read, the first one being parsed
  pc,
  tmp1, tmp2,
  coma,     \* a comma is to be followed by another modifier
  pin,      \* position of the line's pin in gp_list
  flags,    \* hook->flags, as a set of bits
  hook,     \* path and arguments
  hook_list \* the hooks of each pin

vars == <<dir, unread, tab, file, pc, tmp1, tmp2, coma, pin, flags, hook, hook_list>>

dirVars == <<dir, unread, tab>>

Bit == {"RISE", "FALL", "NO_LOOP", "ONESHOT"}
NoHook == [path |-> Empty, args |-> <<>>]

Init ==
  /\ dir \in Dirs
  /\ unread = dir
  /\ tab = <<>>
  /\ file = <<>>
  /\ pc = "dir"
  /\ tmp1 = 1
  /\ tmp2 = 1
  /\ coma = FALSE
  /\ pin = 0
  /\ flags = {}
  /\ hook = NoHook
  /\ hook_list = [i \in 1..Len(gp_list) |-> <<>>]

-----------------------------------------------------------------------------
(***************************************************************************)
(* Scanning.                                                                *)
(***************************************************************************)
line == Head(file)
Nul == Len(line) + 1
At(p) == IF p < Nul THEN line[p] ELSE "NUL"

FirstFrom(p, P(_)) ==
  CHOOSE q \in p..Nul : (q = Nul \/ P(At(q))) /\ \A r \in p..(q - 1) : ~P(At(r))

\* The first symbol that is no blank (a newline is none).
eat_space(p) == FirstFrom(p, LAMBDA s : s # Space)

next_space(p) == FirstFrom(p, LAMBDA s : s \in {Space, NewLine})

next_coma(p) == FirstFrom(p, LAMBDA s : s = Comma)

\* What stands between two positions, copied to the buffer.
Token(p, q) == SubSeq(line, p, q - 1)

(***************************************************************************)
(* find_pin_by_label, tab_parse_mod, tab_parse_args: a table is searched    *)
(* for the first entry that begins with the token.                          *)
(***************************************************************************)
Begins(token, entry) ==
  \/ token = Empty
  \/ token = <<entry>>
  \/ Len(token) = 1 /\ entry \in Prefix[token[1]]

FirstOf(table, token) ==
  LET hits == {i \in 1..Len(table) : Begins(token, table[i])}
  IN  IF hits = {} THEN 0 ELSE CHOOSE i \in hits : \A j \in hits : i <= j

find_pin_by_label(token) == FirstOf(gp_list, token)

gpiod_hook_modifies == <<"EDGE_RISING", "EDGE_FALLING", "EDGE_BOTH", "NO_LOOP", "ONESHOT">>

\* The bits of the numbers 1 to 5 (gpiod-hooktab.h:13-21): the position in the
\* table is returned as the modifier.
Bits == <<{"RISE"}, {"FALL"}, {"RISE", "FALL"}, {"NO_LOOP"}, {"RISE", "NO_LOOP"}>>

\* 0 stands for HOOKTAB_MOD_MAX.
tab_parse_mod(token) == FirstOf(gpiod_hook_modifies, token)

gpiod_special_args == <<"$@", "$%", "$&">>

IsSpecial(token) == FirstOf(gpiod_special_args, token) # 0

-----------------------------------------------------------------------------
(***************************************************************************)
(* The loops.                                                               *)
(***************************************************************************)
NextLine ==
  /\ file' = Tail(file)
  /\ pc' = "label"
  /\ tmp1' = 1
  /\ tmp2' = 1
  /\ coma' = FALSE
  /\ pin' = 0
  /\ flags' = {}
  /\ hook' = NoHook
  /\ UNCHANGED dirVars

Label ==
  /\ pc = "label"
  /\ file # <<>>
  /\ LET p == eat_space(1)
         q == next_space(p)
         found == find_pin_by_label(Token(p, q))
     IN  IF found = 0
         THEN NextLine /\ UNCHANGED hook_list
         ELSE /\ tmp1' = p
              /\ tmp2' = q
              /\ pin' = found
              /\ pc' = "modifier"
              /\ UNCHANGED <<dirVars, file, coma, flags, hook, hook_list>>


\* Mutant: nothing is passed over.
AfterModifier_Stays(p, inside) ==
  LET q == eat_space(p)
  IN  IF At(q) = Comma THEN [next |-> q, coma |-> TRUE] ELSE [next |-> p, coma |-> inside]

\* Mutant: the comma's blanks are passed over too, and one more symbol.
AfterModifier_TooFar(p, inside) ==
  LET q == eat_space(p)
  IN  IF At(q) = Comma THEN [next |-> q + 1, coma |-> TRUE] ELSE [next |-> q + 2, coma |-> inside]

\* Behind a known modifier a comma may follow blanks; one more symbol is
\* passed over, the comma or whatever stands there.
AfterModifier(p, inside) ==
  LET q == eat_space(p)
  IN  IF At(q) = Comma THEN [next |-> q + 1, coma |-> TRUE] ELSE [next |-> p + 1, coma |-> inside]

\* An unknown modifier is passed over by `continue`, which leaves tmp2 on the
\* comma it ended at.
Modifier ==
  /\ pc = "modifier"
  /\ LET p == eat_space(tmp2)
         q == next_space(p)
         inside == \E i \in p..(q - 1) : At(i) = Comma
         end == IF inside THEN next_coma(p) ELSE q
         mod == tab_parse_mod(Token(p, end))
         after == IF mod = 0 THEN [next |-> end, coma |-> inside] ELSE AfterModifier(end, inside)
     IN  /\ tmp1' = p
         /\ tmp2' = after.next
         /\ coma' = after.coma
         /\ flags' = IF mod = 0 THEN flags ELSE flags \cup Bits[mod]
         /\ pc' = IF after.coma THEN "modifier" ELSE "path"
  /\ UNCHANGED <<dirVars, file, pin, hook, hook_list>>

\* Behind the NUL there is what an earlier, longer line left in the buffer, or
\* nothing anyone wrote: any word, or none.
Path ==
  /\ pc = "path"
  /\ IF tmp2 > Nul
     THEN \E word \in {Empty, <<"stale">>} :
            /\ hook' = [path |-> word, args |-> <<>>]
            /\ tmp1' = IF word = Empty THEN Nul ELSE 0
            /\ tmp2' = Nul
     ELSE LET p == eat_space(tmp2)
              q == next_space(p)
          IN  /\ hook' = [path |-> Token(p, q), args |-> <<>>]
              /\ tmp1' = p
              /\ tmp2' = q
  /\ pc' = "args"
  /\ UNCHANGED <<dirVars, file, coma, pin, flags, hook_list>>

NullArg == [special |-> FALSE, c_arg |-> Empty]

\* Mutant: an empty word gives no argument.
ArgOf_NoneIfEmpty(token) ==
  IF token = Empty THEN <<>> ELSE <<[special |-> IsSpecial(token), c_arg |-> token]>>

\* An empty word, found at the end of the line, gives an argument too: the
\* NULL that ends argv.
ArgOf(token) ==
  IF token = Empty THEN <<NullArg>> ELSE <<[special |-> IsSpecial(token), c_arg |-> token]>>

Argument ==
  /\ pc = "args"
  /\ tmp1 # tmp2
  /\ LET p == eat_space(tmp2)
         q == next_space(p)
     IN  /\ tmp1' = p
         /\ tmp2' = q
         /\ hook' = [hook EXCEPT !.args = @ \o ArgOf(Token(p, q))]
  /\ UNCHANGED <<dirVars, file, pc, coma, pin, flags, hook_list>>

AddHook ==
  /\ pc = "args"
  /\ tmp1 = tmp2
  /\ hook_list' = [hook_list EXCEPT ![pin] =
       Append(@, [path |-> hook.path, flags |-> flags, args |-> hook.args])]
  /\ NextLine

EndOfFile ==
  /\ pc = "label"
  /\ file = <<>>
  /\ pc' = "dir"
  /\ UNCHANGED <<dirVars, file, tmp1, tmp2, coma, pin, flags, hook, hook_list>>

\* loadTabs: the files in the order of readdir; one that cannot be opened is
\* logged and passed over.
OpenTab(f) ==
  /\ pc = "dir"
  /\ f \in unread
  /\ unread' = unread \ {f}
  /\ \/ tab' = tab \o f /\ file' = f /\ pc' = "label"
     \/ UNCHANGED <<tab, file, pc>>
  /\ UNCHANGED <<dir, tmp1, tmp2, coma, pin, flags, hook, hook_list>>

EndOfDir ==
  /\ pc = "dir"
  /\ unread = {}
  /\ pc' = "done"
  /\ UNCHANGED <<dirVars, file, tmp1, tmp2, coma, pin, flags, hook, hook_list>>

Next ==
  \/ Label \/ Modifier \/ Path \/ Argument \/ AddHook \/ EndOfFile
  \/ (\E f \in unread : OpenTab(f)) \/ EndOfDir

Spec == Init /\ [][Next]_vars

\* A sequential program: it goes on.
FairSpec == Spec /\ WF_vars(Next)

-----------------------------------------------------------------------------
(***************************************************************************)
(* What the lines of a tab file mean: README.md:115-132, but for two points *)
(* in which the code has it otherwise.                                      *)
(***************************************************************************)
\* README.md:131 has ONESHOT launch a hook once per daemon lifetime.  But it is the
\* fifth in the table and its place is taken for its bits (hooktab.c:37): the hook runs
\* on each rise, as with NO_LOOP, and the bit for once (hooktab.h:19) is never set.
Meaning ==
  [EDGE_RISING |-> {"RISE"}, EDGE_FALLING |-> {"FALL"}, EDGE_BOTH |-> {"RISE", "FALL"},
   NO_LOOP |-> {"NO_LOOP"}, ONESHOT |-> {"RISE", "NO_LOOP"}]

\* README.md:127 has LABEL the pin's label.  But the first pin gets the hook whose label
\* begins with the word (pin.c:129): with WD10 configured before WD1, lines for WD1 are
\* those of WD10.
IsFor(word, i) ==
  /\ gp_list[i] = word \/ gp_list[i] \in Prefix[word]
  /\ \A j \in 1..(i - 1) : gp_list[j] # word /\ gp_list[j] \notin Prefix[word]

Words(l) == SelectSeq(l, LAMBDA s : s \notin {Space, NewLine})

\* Modifiers are words with commas between them.
Modifiers(w) ==
  LET last == CHOOSE n \in 1..Len(w) :
                /\ w[2 * n + 1] # Comma
                /\ \A m \in 1..(n - 1) : w[2 * m + 1] = Comma
  IN  [i \in 1..last |-> w[2 * i]]

WrittenHook(l) ==
  LET w == Words(l)
      m == Modifiers(w)
  IN  [path  |-> <<w[2 * Len(m) + 1]>>,
       flags |-> UNION {Meaning[x] : x \in ToSet(m)},
       args  |-> [i \in 1..(Len(w) - 2 * Len(m) - 1) |->
                    LET a == w[i + 2 * Len(m) + 1] IN
                    [special |-> a \in ToSet(gpiod_special_args), c_arg |-> <<a>>]]
                 \o <<NullArg>>]

Written ==
  [i \in 1..Len(gp_list) |->
     LET own == SelectSeq(tab, LAMBDA l : IsFor(Words(l)[1], i))
     IN  [j \in 1..Len(own) |-> WrittenHook(own[j])]]

-----------------------------------------------------------------------------

\* No pointer runs past the end of a line that ends with a newline
\* (gpiod-hooktab.c:162: tmp2++ passes over a symbol it has not looked at).
PointersInLine == file # <<>> /\ NewLine \in ToSet(line) => tmp1 <= Nul /\ tmp2 <= Nul

\* Whatever stands in a line, the argv made of its hook (gpiod-dispatch.c:103-138)
\* has a NULL at its end and none before, for execvpe to stop at: the loop over the
\* arguments ends by adding one (gpiod-hooktab.c:194-227).  Only a hook without a
\* path has no arguments; its path fails in access (gpiod-exec.c:24).
Terminated(h) ==
  /\ h.path = Empty => h.args = <<>>
  /\ h.path # Empty => /\ h.args # <<>>
                       /\ \A i \in 1..Len(h.args) : h.args[i] = NullArg <=> i = Len(h.args)
ArgvEnds == \A i \in 1..Len(gp_list) : \A h \in ToSet(hook_list[i]) : Terminated(h)

\* The whole file is read: the loop over the modifiers ends
\* (gpiod-hooktab.c:127-163).
Terminates == <>(pc = "done")

=============================================================================
