---------------------------- MODULE Subscribers ----------------------------
(***************************************************************************)
(* What the clients of gpiod can count on, without sockets, epoll or a      *)
(* loop.  It is less than README.md:20 says ("dispatched to all connected   *)
(* clients"): a round of a packet goes through the clients in the order in  *)
(* which they joined and may end at one whose connection is broken, so a    *)
(* client behind him misses the packet.  But a round ends for no other      *)
(* reason, each gets a packet once at most and in turn, and nobody is       *)
(* dropped who has not ended his connection.                                *)
(***************************************************************************)
EXTENDS Naturals, Sequences, SequencesExt

CONSTANT Conn

VARIABLES
  known,   \* connections that were ever taken
  subs,    \* those that are served, in the order of joining
  ended,   \* connections their peers have ended
  broken,  \* of these, those that cannot be written to
  sent,    \* number of the last packet
  round,   \* TRUE: it is being handed round
  got      \* number of the last packet each was given

vars == <<known, subs, ended, broken, sent, round, got>>

Init ==
  /\ known = {}
  /\ subs = <<>>
  /\ ended = {}
  /\ broken = {}
  /\ sent = 0
  /\ round = FALSE
  /\ got = [c \in Conn |-> 0]

\* The packets before are not for c.
Join(c) ==
  /\ ~round
  /\ c \notin known
  /\ known' = known \cup {c}
  /\ subs' = Append(subs, c)
  /\ got' = [got EXCEPT ![c] = sent]
  /\ UNCHANGED <<ended, broken, sent, round>>

\* By a FIN or by a reset, at any time.
End(c) ==
  /\ c \notin ended
  /\ ended' = ended \cup {c}
  /\ broken' \in {broken, broken \cup {c}}
  /\ UNCHANGED <<known, subs, sent, round, got>>

\* Nobody is dropped who wants to stay, nor in the middle of a round.
Drop(c) ==
  /\ ~round
  /\ c \in ended
  /\ \E i \in 1..Len(subs) : subs[i] = c /\ subs' = RemoveAt(subs, i)
  /\ UNCHANGED <<known, ended, broken, sent, round, got>>

Publish ==
  /\ ~round
  /\ round' = TRUE
  /\ sent' = sent + 1
  /\ UNCHANGED <<known, subs, ended, broken, got>>

Turn(c) ==
  \E i \in 1..Len(subs) :
    /\ subs[i] = c
    /\ got[c] # sent
    /\ \A j \in 1..Len(subs) : j < i => got[subs[j]] = sent

\* The first packet to an ended connection breaks it.
Deliver(c) ==
  /\ round
  /\ Turn(c)
  /\ c \notin broken
  /\ got' = [got EXCEPT ![c] = sent]
  /\ broken' = broken \cup ({c} \cap ended)
  /\ UNCHANGED <<known, subs, ended, sent, round>>

EndRound ==
  /\ round
  /\ \A c \in Conn : Turn(c) => c \in broken
  /\ round' = FALSE
  /\ UNCHANGED <<known, subs, ended, broken, sent, got>>

Stop ==
  /\ ~round
  /\ subs' = <<>>
  /\ UNCHANGED <<known, ended, broken, sent, round, got>>

Next ==
  \/ Publish \/ EndRound \/ Stop
  \/ \E c \in Conn : Join(c) \/ End(c) \/ Drop(c) \/ Deliver(c)

Spec == Init /\ [][Next]_vars

=============================================================================
