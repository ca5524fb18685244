----------------------------- MODULE MCHookTab -----------------------------
(***************************************************************************)
(* Instances of HookTab for TLC.                                            *)
(***************************************************************************)
EXTENDS HookTab, TLC

\* What the words used below are the beginning of.
Begun ==
  [w \in {"WD0", "WD1", "WD10", "WD2", "EDGE_RISING", "EDGE_FALLING", "EDGE_BOTH", "NO_LOOP",
          "ONESHOT", "$@", "$%", "-v", "/bin/hook", "WHEN", Comma} |->
     IF w = "WD1" THEN {"WD10"} ELSE {}]

\* WD10 stands before the label that is a beginning of it.
Pins == <<"WD0", "WD10", "WD1">>

\* One modifier, or two around a comma with blanks on any side.
Pairs(m, n) ==
  {m \o <<Comma>> \o n, m \o <<Space, Comma, Space>> \o n, m \o <<Comma, Space>> \o n,
   m \o <<Space, Space, Comma>> \o n}
Edges == {<<"EDGE_RISING">>, <<"EDGE_FALLING">>, <<"EDGE_BOTH">>}
NoLoop == <<"NO_LOOP">>
GoodModifiers ==
  Edges \cup Pairs(<<"EDGE_RISING">>, NoLoop) \cup Pairs(NoLoop, <<"EDGE_FALLING">>)
    \cup Pairs(<<"EDGE_FALLING">>, <<"ONESHOT">>)
    \cup UNION {Pairs(p, <<"EDGE_FALLING">>) : p \in Pairs(<<"EDGE_RISING">>, NoLoop)}

Tails ==
  {<<>>, <<Space>>, <<Space, "$@">>, <<Space, "-v", Space, Space, "$%">>, <<Space, "-v", Space>>}

LineOf(label, modifiers, tail) ==
  <<label, Space, Space>> \o modifiers \o <<Space, "/bin/hook">> \o tail \o <<NewLine>>

GoodLines ==
  {LineOf(l, m, t) : l \in {"WD0", "WD1", "WD2", "WD10"}, m \in GoodModifiers, t \in Tails}

\* A few lines, to be put one after the other.
SomeLines ==
  {LineOf(l, m, t) :
     l \in {"WD0", "WD1", "WD2"},
     m \in {<<"EDGE_BOTH", Comma, "ONESHOT">>, <<"EDGE_RISING", Comma, "NO_LOOP">>},
     t \in {<<>>, <<Space, "$@">>}}

GoodFiles == {<<l>> : l \in GoodLines} \cup {<<l, k>> : l, k \in SomeLines}
              \cup {<<l, k, l>> : l, k \in SomeLines}

\* Lines nobody meant to write: anything behind the label, two words never
\* side by side, the newline missing or not, twice in a row.
Symbols == {Space, Comma, "EDGE_BOTH", "WHEN"}
Behind == {s \in UNION {[1..n -> Symbols] : n \in 0..4} :
             \A i \in 1..(Len(s) - 1) : ~(s[i] \in {"EDGE_BOTH", "WHEN"} /\ s[i + 1] \in {"EDGE_BOTH", "WHEN"})}
RaggedLines == {<<"WD0", Space>> \o s : s \in Behind} \cup {<<>>, <<Space>>, <<"WD0">>, <<"WD2">>}
RaggedFiles ==
  {<<l>> : l \in RaggedLines} \cup {<<l \o <<NewLine>>, l>> : l \in RaggedLines}

\* Two files that can be read in either order, a good one beside a ragged one.
TwoLines == {LineOf("WD0", <<"NO_LOOP">>, <<>>), LineOf("WD1", <<"EDGE_BOTH">>, <<Space, "-v">>)}
TwoFiles ==
  {{<<l>>, <<k, l>>} : l, k \in TwoLines} \cup {{<<l>>, <<k>>} : l \in TwoLines, k \in RaggedLines}

AllDirs == {{f} : f \in GoodFiles \cup RaggedFiles} \cup TwoFiles

=============================================================================
