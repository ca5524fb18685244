--------------------------- MODULE ClientsProofs ---------------------------
(***************************************************************************)
(* Proofs about Clients, for any number of peers and packets, with hooks    *)
(* launched or not.                                                         *)
(***************************************************************************)
EXTENDS Clients, SequenceTheorems, TLAPS

(***************************************************************************)
(* The list: what becomes of it when a client is appended or removed.       *)
(***************************************************************************)
LEMMA ListIsSeq ==
  ASSUME NEW s \in Seq(Conn)
  PROVE  /\ Len(s) \in Nat /\ DOMAIN s = 1..Len(s)
         /\ \A i \in 1..Len(s) : s[i] \in Conn
         /\ ToSet(s) = {s[i] : i \in 1..Len(s)} /\ ToSet(s) \subseteq Conn
<1>1. Len(s) \in Nat /\ DOMAIN s = 1..Len(s) /\ \A i \in 1..Len(s) : s[i] \in Conn
  OBVIOUS
<1> QED
  BY <1>1 DEF ToSet

LEMMA Appended ==
  ASSUME NEW s \in Seq(Conn), IsInjective(s), NEW c \in Conn, c \notin ToSet(s)
  PROVE  /\ Append(s, c) \in Seq(Conn) /\ IsInjective(Append(s, c))
         /\ ToSet(Append(s, c)) = ToSet(s) \cup {c}
<1> DEFINE t == Append(s, c)
<1>1. /\ t \in Seq(Conn) /\ Len(t) = Len(s) + 1 /\ t[Len(t)] = c
      /\ \A i \in 1..Len(s) : t[i] = s[i]
  OBVIOUS
<1>2. Len(s) \in Nat /\ DOMAIN t = 1..(Len(s) + 1) /\ DOMAIN s = 1..Len(s)
  BY <1>1
<1> HIDE DEF t
<1>3. \A i \in 1..Len(s) : s[i] # c
  BY <1>2 DEF ToSet
<1>4. IsInjective(t)
  BY <1>1, <1>2, <1>3 DEF IsInjective
<1>5. ToSet(t) = ToSet(s) \cup {c}
  <2>1. ToSet(t) \subseteq ToSet(s) \cup {c}
    BY <1>1, <1>2 DEF ToSet
  <2>2. ToSet(s) \subseteq ToSet(t)
    BY <1>1, <1>2 DEF ToSet
  <2>3. c \in ToSet(t)
    BY <1>1, <1>2 DEF ToSet
  <2> QED
    BY <2>1, <2>2, <2>3
<1> QED
  BY <1>1, <1>4, <1>5 DEF t

LEMMA Removed ==
  ASSUME NEW s \in Seq(Conn), IsInjective(s), NEW i \in 1..Len(s)
  PROVE  /\ RemoveAt(s, i) \in Seq(Conn) /\ IsInjective(RemoveAt(s, i))
         /\ ToSet(RemoveAt(s, i)) = ToSet(s) \ {s[i]}
<1> DEFINE left == SubSeq(s, 1, i - 1)
           right == SubSeq(s, i + 1, Len(s))
           t == left \o right
<1>1. /\ Len(s) \in Nat /\ i \in Int /\ 1 <= i /\ i <= Len(s)
      /\ DOMAIN s = 1..Len(s) /\ \A j \in 1..Len(s) : s[j] \in Conn
  BY ListIsSeq
<1>2. left \in Seq(Conn) /\ Len(left) = i - 1 /\ \A j \in 1..(i - 1) : left[j] = s[j]
  <2>1. /\ left \in Seq(Conn) /\ Len(left) = IF 1 <= i - 1 THEN (i - 1) - 1 + 1 ELSE 0
        /\ \A j \in 1..((i - 1) - 1 + 1) : left[j] = s[1 + j - 1]
    BY <1>1, SubSeqProperties
  <2> HIDE DEF left, right, t
  <2> QED
    BY <1>1, <2>1
<1>3. right \in Seq(Conn) /\ Len(right) = Len(s) - i
      /\ \A j \in 1..(Len(s) - i) : right[j] = s[i + j]
  <2>1. /\ right \in Seq(Conn) /\ Len(right) = IF i + 1 <= Len(s) THEN Len(s) - (i + 1) + 1 ELSE 0
        /\ \A j \in 1..(Len(s) - (i + 1) + 1) : right[j] = s[(i + 1) + j - 1]
    BY <1>1, SubSeqProperties
  <2> HIDE DEF left, right, t
  <2>2. Len(s) - (i + 1) + 1 = Len(s) - i
    BY <1>1
  <2>3. Len(right) = Len(s) - i
    <3>1. CASE i + 1 <= Len(s)
      BY <2>1, <2>2, <3>1
    <3>2. CASE i = Len(s)
      <4>1. ~(i + 1 <= Len(s)) /\ Len(s) - i = 0
        BY <1>1, <3>2
      <4>2. Len(right) = 0
        BY <2>1, <4>1
      <4> QED
        BY <4>1, <4>2
    <3>3. \A n, m \in Int : m <= n => m + 1 <= n \/ m = n
      OBVIOUS
    <3>4. i \in Int /\ Len(s) \in Int /\ i <= Len(s)
      BY <1>1
    <3> QED
      BY <3>1, <3>2, <3>3, <3>4
  <2>4. ASSUME NEW j \in 1..(Len(s) - i) PROVE right[j] = s[i + j]
    <3>1. right[j] = s[(i + 1) + j - 1]
      BY <2>1, <2>2
    <3>2. (i + 1) + j - 1 = i + j
      BY <1>1
    <3> QED
      BY <3>1, <3>2
  <2> QED
    BY <2>1, <2>3, <2>4
<1>4. /\ t \in Seq(Conn) /\ Len(t) = Len(s) - 1
      /\ \A j \in 1..(Len(s) - 1) : t[j] = IF j < i THEN s[j] ELSE s[j + 1]
  <2>1. /\ t \in Seq(Conn) /\ Len(t) = Len(left) + Len(right)
        /\ \A j \in 1..(Len(left) + Len(right)) :
             t[j] = IF j <= Len(left) THEN left[j] ELSE right[j - Len(left)]
    BY <1>2, <1>3, ConcatProperties
  <2> HIDE DEF left, right, t
  <2>2. Len(t) = Len(s) - 1
    BY <1>1, <1>2, <1>3, <2>1
  <2>3. ASSUME NEW j \in 1..(Len(s) - 1) PROVE t[j] = IF j < i THEN s[j] ELSE s[j + 1]
    <3>1. CASE j < i
      BY <1>1, <1>2, <1>3, <2>1, <3>1
    <3>2. CASE ~(j < i)
      <4>1. t[j] = right[j - (i - 1)]
        <5>1. j \in 1..(Len(left) + Len(right)) /\ ~(j <= Len(left))
          BY <1>1, <1>2, <1>3, <3>2
        <5>2. t[j] = right[j - Len(left)]
          BY <2>1, <5>1
        <5> QED
          BY <1>2, <5>2
      <4>2. j - (i - 1) \in 1..(Len(s) - i) /\ i + (j - (i - 1)) = j + 1
        BY <1>1, <3>2
      <4>3. right[j - (i - 1)] = s[i + (j - (i - 1))]
        BY <1>3, <4>2
      <4> QED
        BY <3>2, <4>1, <4>2, <4>3
    <3> QED
      BY <3>1, <3>2
  <2> QED
    BY <2>1, <2>2, <2>3
<1>5. RemoveAt(s, i) = t
  BY DEF RemoveAt
<1> HIDE DEF t
<1>6. DOMAIN t = 1..(Len(s) - 1)
  BY <1>4
<1>7. \A j, k \in 1..Len(s) : s[j] = s[k] => j = k
  BY <1>1 DEF IsInjective
<1>8. IsInjective(t)
  BY <1>1, <1>4, <1>6, <1>7 DEF IsInjective
<1>9. ToSet(t) = ToSet(s) \ {s[i]}
  <2>1. ASSUME NEW j \in 1..(Len(s) - 1) PROVE (\E k \in 1..Len(s) : t[j] = s[k]) /\ t[j] # s[i]
    <3>1. CASE j < i
      BY <1>1, <1>4, <1>7, <3>1
    <3>2. CASE ~(j < i)
      <4>1. t[j] = s[j + 1] /\ j + 1 \in 1..Len(s) /\ j + 1 # i
        BY <1>1, <1>4, <3>2
      <4> QED
        BY <1>1, <1>7, <4>1
    <3> QED
      BY <3>1, <3>2
  <2>2. ASSUME NEW j \in 1..Len(s), s[j] # s[i] PROVE \E k \in 1..(Len(s) - 1) : t[k] = s[j]
    <3>1. CASE j < i
      BY <1>1, <1>4, <3>1
    <3>2. CASE j > i
      <4>1. j - 1 \in 1..(Len(s) - 1) /\ ~(j - 1 < i) /\ (j - 1) + 1 = j
        BY <1>1, <3>2
      <4> QED
        BY <1>4, <4>1
    <3> QED
      BY <1>1, <2>2, <3>1, <3>2
  <2>3. ToSet(t) \subseteq ToSet(s) \ {s[i]}
    BY <1>1, <1>6, <2>1 DEF ToSet
  <2>4. ASSUME NEW x \in ToSet(s), x # s[i] PROVE x \in ToSet(t)
    <3>1. PICK j \in 1..Len(s) : x = s[j]
      BY <1>1 DEF ToSet
    <3>2. PICK k \in 1..(Len(s) - 1) : t[k] = s[j]
      BY <2>2, <2>4, <3>1
    <3> QED
      BY <1>6, <3>1, <3>2 DEF ToSet
  <2> QED
    BY <2>3, <2>4
<1> QED
  BY <1>4, <1>5, <1>8, <1>9

-----------------------------------------------------------------------------
(***************************************************************************)
(* The invariant.                                                           *)
(***************************************************************************)
Once == IsInjective(tcp_clients)

\* epoll watches clients of the list, and sockets a child has a copy of.
WatchedAreKnown == registered \subseteq Listed \cup copies

Reported == {e.of : e \in batch}

\* Whoever gpiod has to do with was accepted: it does not wait to be.
KnownAreAccepted ==
  \A c \in Conn : c \in Listed \cup registered \cup copies \cup Reported =>
    c \notin backlog /\ peer[c] # "none"

WaitingAreThere == \A c \in backlog : peer[c] # "none"

NobodyForgotten == \A c \in Conn : Up /\ peer[c] = "open" => c \in backlog \/ c \in Listed

\* A hang-up that was reported remains true.
HangUpsAreTrue ==
  \A e \in batch : e.of \in Conn /\ e.rdhup => Left(e.of) \/ e.of \notin Listed

\* An event of a client in the list came from a socket that is still watched.
HandledAreWatched == \A c \in Listed : c \in Reported => c \in registered

\* A dispatch has written to the clients behind it.
ServedBehind ==
  pc = "dispatch" =>
    /\ pos <= Len(tcp_clients) + 1
    /\ \A i \in 1..Len(tcp_clients) : i < pos => got[tcp_clients[i]] = sent

IInv ==
  /\ TypeOK /\ Once /\ WatchedAreKnown /\ KnownAreAccepted /\ WaitingAreThere
  /\ NobodyForgotten /\ HangUpsAreTrue /\ HandledAreWatched /\ ServedBehind

LEMMA InitIInv == Init => IInv
<1> SUFFICES ASSUME Init PROVE IInv
  OBVIOUS
<1>1. ToSet(tcp_clients) = {}
  BY DEF Init, ToSet
<1>2. Once
  BY DEF Init, Once, IsInjective
<1>3. tcp_clients \in Seq(Conn)
  BY DEF Init
<1>4. TypeOK
  <2>1. peer \in [Conn -> {"none", "open", "closed", "gone"}] /\ got \in [Conn -> 0..Packets]
        /\ buffer \in [Conn -> 0..Room]
    BY ClientsAssumption DEF Init, ClientsAssumption
  <2>2. sent \in 0..Packets /\ pos \in Nat \ {0}
    BY ClientsAssumption DEF Init, ClientsAssumption
  <2> QED
    BY <1>3, <2>1, <2>2 DEF Init, TypeOK
<1>5. WatchedAreKnown /\ KnownAreAccepted /\ WaitingAreThere /\ NobodyForgotten /\ HangUpsAreTrue
      /\ HandledAreWatched /\ ServedBehind
  BY <1>1 DEF Init, HandledAreWatched, WatchedAreKnown, KnownAreAccepted, WaitingAreThere, NobodyForgotten,
         HangUpsAreTrue, ServedBehind, Reported, Listed
<1> QED
  BY <1>2, <1>4, <1>5 DEF IInv

-----------------------------------------------------------------------------
\* What epoll_wait hands out.
LEMMA ReadyTyped ==
  ASSUME IInv
  PROVE  /\ Ready \subseteq Event
         /\ \A e \in Ready : e.of \in Conn => /\ e.of \in edge
                                              /\ e.rdhup => Left(e.of) \/ e.of \notin Listed
<1>1. Listening \notin Conn
  BY ClientsAssumption DEF ClientsAssumption, Listening
<1>2. edge \subseteq Conn
  BY DEF IInv, TypeOK
<1>3. ASSUME NEW e \in Ready
      PROVE  \/ e = [of |-> Listening, rdhup |-> FALSE]
             \/ \E c \in edge : e = [of |-> c, rdhup |-> Left(c) \/ c \notin Listed]
  BY DEF Ready
<1>4. ASSUME NEW e \in Ready, NEW c \in edge, e = [of |-> c, rdhup |-> Left(c) \/ c \notin Listed]
      PROVE  e \in Event /\ e.of \in edge /\ (e.rdhup => Left(e.of) \/ e.of \notin Listed)
  <2>1. (Left(c) \/ c \notin Listed) \in BOOLEAN
    BY DEF Left
  <2> QED
    BY <1>2, <1>4, <2>1 DEF Event
<1>5. [of |-> Listening, rdhup |-> FALSE] \in Event
  BY DEF Event
<1>6. ASSUME NEW e \in Ready
      PROVE  /\ e \in Event
             /\ e.of \in Conn => e.of \in edge /\ (e.rdhup => Left(e.of) \/ e.of \notin Listed)
  <2>1. CASE e = [of |-> Listening, rdhup |-> FALSE]
    BY <1>1, <1>5, <2>1
  <2>2. CASE \E c \in edge : e = [of |-> c, rdhup |-> Left(c) \/ c \notin Listed]
    BY <1>4, <2>2
  <2> QED
    BY <1>3, <2>1, <2>2
<1> QED
  BY <1>6

LEMMA TakesEvents ==
  ASSUME IInv, pc = "wait", batch' = Ready, edge' = {}, pc' = "batch",
         UNCHANGED <<peerVars, registered, copies, tcp_clients, pos, sent, got>>
  PROVE  IInv'
<1>1. TypeOK'
  BY ReadyTyped DEF IInv, TypeOK, peerVars
<1>2. Once' /\ WatchedAreKnown' /\ WaitingAreThere' /\ NobodyForgotten' /\ ServedBehind'
  BY DEF IInv, Once, WatchedAreKnown, WaitingAreThere, NobodyForgotten, ServedBehind, Listed, Up,
         peerVars
<1>3. \A c \in Conn : c \in Reported' => c \in registered
  BY ReadyTyped DEF IInv, TypeOK, Reported
<1>4. Listed' = Listed /\ Listed \subseteq Conn
  BY ListIsSeq DEF Listed, IInv, TypeOK
<1>5. KnownAreAccepted' /\ HandledAreWatched'
  BY <1>3, <1>4 DEF IInv, KnownAreAccepted, HandledAreWatched, peerVars
<1>6. HangUpsAreTrue'
  BY <1>4, ReadyTyped DEF HangUpsAreTrue, Left, peerVars
<1> QED
  BY <1>1, <1>2, <1>5, <1>6 DEF IInv

LEMMA AcceptIInv ==
  ASSUME IInv, NEW c \in Conn, Accept(c)
  PROVE  IInv'
<1>1. /\ pc = "batch" /\ batch' \subseteq batch /\ c \in backlog /\ backlog' = backlog \ {c}
      /\ tcp_clients' = Append(tcp_clients, c)
      /\ got' = [got EXCEPT ![c] = sent]
      /\ UNCHANGED <<peer, unread, buffer, copies, pc, pos, sent>>
  BY DEF Accept, Serve
<1>2. registered \subseteq registered' /\ registered' \subseteq registered \cup {c}
      /\ edge' \subseteq registered' /\ edge' \subseteq edge \cup {c}
  BY DEF Accept, IInv, TypeOK
<1>3. c \notin Listed /\ c \notin Reported
  BY <1>1 DEF IInv, KnownAreAccepted
<1>4. tcp_clients' \in Seq(Conn) /\ Once' /\ Listed' = Listed \cup {c}
  BY <1>1, <1>3, Appended DEF IInv, TypeOK, Once, Listed
<1>5. TypeOK'
  BY <1>1, <1>2, <1>4 DEF IInv, TypeOK
<1>6. Reported' \subseteq Reported
  BY <1>1 DEF Reported
<1>7. WatchedAreKnown' /\ WaitingAreThere' /\ NobodyForgotten' /\ KnownAreAccepted'
  BY <1>1, <1>2, <1>4, <1>6 DEF IInv, TypeOK, WatchedAreKnown, WaitingAreThere, NobodyForgotten,
     KnownAreAccepted, Up
<1>8. HangUpsAreTrue' /\ HandledAreWatched'
  BY <1>1, <1>2, <1>3, <1>4, <1>6 DEF IInv, HangUpsAreTrue, HandledAreWatched, Left, Reported
<1>9. ServedBehind'
  BY <1>1 DEF ServedBehind
<1> QED
  BY <1>4, <1>5, <1>7, <1>8, <1>9 DEF IInv

LEMMA HandleClientIInv ==
  ASSUME IInv, NEW c \in Conn, HandleClient(c)
  PROVE  IInv'
<1>1. PICK e \in batch :
        /\ e.of = c /\ c \in Listed /\ Serve(e)
        /\ IF Ended(e) THEN delete_tcp_client(c) ELSE UNCHANGED <<tcp_clients, registered, edge>>
        /\ UNCHANGED <<peerVars, copies, pc, pos, sent, got>>
  BY DEF HandleClient
<1>2. pc = "batch" /\ batch' = batch \ {e}
  BY <1>1 DEF Serve
<1>3. CASE ~Ended(e)
  <2>1. TypeOK'
    BY <1>1, <1>2, <1>3 DEF IInv, TypeOK, peerVars
  <2>2. Once' /\ WatchedAreKnown' /\ KnownAreAccepted' /\ WaitingAreThere' /\ NobodyForgotten'
        /\ HangUpsAreTrue' /\ HandledAreWatched' /\ ServedBehind'
    BY <1>1, <1>2, <1>3 DEF HandledAreWatched, IInv, Once, WatchedAreKnown, KnownAreAccepted, WaitingAreThere,
       NobodyForgotten, HangUpsAreTrue, ServedBehind, Reported, Listed, Up, Left, peerVars
  <2> QED
    BY <2>1, <2>2 DEF IInv
<1>4. CASE Ended(e)
  <2>1. delete_tcp_client(c) /\ Left(c)
    BY <1>1, <1>4 DEF Ended, IInv, HangUpsAreTrue
  <2>2. PICK i \in 1..Len(tcp_clients) :
          tcp_clients[i] = c /\ tcp_clients' = RemoveAt(tcp_clients, i)
    BY <2>1 DEF delete_tcp_client
  <2>3. tcp_clients' \in Seq(Conn) /\ Once' /\ Listed' = Listed \ {c}
    BY <2>2, Removed DEF IInv, TypeOK, Once, Listed
  <2>4. /\ registered' = registered \ ({c} \ copies)
        /\ edge' = (edge \ {c}) \cup ({c} \cap copies)
    BY <2>1 DEF delete_tcp_client
  <2>5. TypeOK'
    <3>1. c \in registered
      BY <1>1 DEF IInv, HandledAreWatched, Reported
    <3> QED
      BY <1>1, <1>2, <2>3, <2>4, <3>1 DEF IInv, TypeOK, peerVars
  <2>6. WatchedAreKnown' /\ KnownAreAccepted' /\ WaitingAreThere'
    BY <1>1, <1>2, <2>3, <2>4 DEF IInv, WatchedAreKnown, KnownAreAccepted, WaitingAreThere,
       Reported, peerVars
  <2>7. NobodyForgotten'
    BY <1>1, <2>1, <2>3 DEF IInv, NobodyForgotten, Up, Left, peerVars
  <2>8. HangUpsAreTrue' /\ HandledAreWatched'
    BY <1>1, <1>2, <2>3, <2>4 DEF IInv, HangUpsAreTrue, HandledAreWatched, Reported, Left, peerVars
  <2>9. ServedBehind'
    BY <1>1, <1>2 DEF ServedBehind
  <2> QED
    BY <2>3, <2>5, <2>6, <2>7, <2>8, <2>9 DEF IInv
<1> QED
  BY <1>3, <1>4

LEMMA WriteIInv ==
  ASSUME IInv, Write
  PROVE  IInv'
<1> DEFINE n == Len(tcp_clients)
<1>1. /\ pc = "dispatch" /\ pos <= n /\ got' = [got EXCEPT ![Client] = sent] /\ pos' = pos + 1
      /\ UNCHANGED <<backlog, unread, registered, copies, tcp_clients, pc, batch, sent>>
      /\ peer' = peer \/ peer' = [peer EXCEPT ![Client] = "gone"]
      /\ edge \subseteq edge' /\ edge' \subseteq edge \cup registered
  BY DEF Write, Writing
<1>2. Len(tcp_clients) \in Nat /\ pos \in 1..n /\ Client \in Conn
      /\ \A i \in 1..n : tcp_clients[i] \in Conn
  BY <1>1, ListIsSeq DEF IInv, TypeOK, Client
<1>3. buffer' \in [Conn -> 0..Room]
  <2>1. CASE buffer' = buffer
    BY <2>1 DEF IInv, TypeOK
  <2>2. CASE buffer[Client] < Room /\ buffer' = [buffer EXCEPT ![Client] = @ + 1]
    <3>1. buffer[Client] + 1 \in 0..Room
      BY <1>2, <2>2, ClientsAssumption DEF IInv, TypeOK, ClientsAssumption
    <3> QED
      BY <2>2, <3>1 DEF IInv, TypeOK
  <2> QED
    BY <2>1, <2>2 DEF Write
<1>4. pos' \in Nat \ {0} /\ pos' <= n + 1
  BY <1>1, <1>2
<1>5. TypeOK'
  BY <1>1, <1>2, <1>3, <1>4 DEF IInv, TypeOK
<1>6. Once' /\ WatchedAreKnown' /\ KnownAreAccepted' /\ WaitingAreThere' /\ NobodyForgotten'
      /\ HangUpsAreTrue' /\ HandledAreWatched'
  BY <1>1, <1>2 DEF IInv, HandledAreWatched, TypeOK, Once, WatchedAreKnown, KnownAreAccepted, WaitingAreThere,
     NobodyForgotten, HangUpsAreTrue, Reported, Listed, Up, Left
<1>7. ServedBehind'
  <2> SUFFICES ASSUME NEW i \in 1..n, i < pos' PROVE got'[tcp_clients[i]] = sent
    BY <1>1, <1>4 DEF ServedBehind
  <2>1. CASE i = pos
    BY <1>1, <1>2, <2>1 DEF IInv, TypeOK, Client
  <2>2. CASE i < pos
    BY <1>1, <1>2, <2>2 DEF IInv, TypeOK, ServedBehind
  <2> QED
    BY <1>1, <1>2, <2>1, <2>2
<1> QED
  BY <1>5, <1>6, <1>7 DEF IInv

\* The last copies go, and with them what epoll watched for their sake.
LEMMA ClosingIInv ==
  ASSUME IInv, ShutDown \/ Exec
  PROVE  IInv'
<1>1. CASE ShutDown
  <2>1. tcp_clients' = <<>> /\ Listed' = {}
    BY <1>1 DEF ShutDown, Listed, ToSet
  <2>2. <<>> \in Seq(Conn) /\ IsInjective(<<>>)
    BY DEF IsInjective
  <2>3. /\ pc' = "exit" /\ registered' = registered \cap copies /\ edge' = edge \cap copies
        /\ UNCHANGED <<peerVars, copies, batch, pos, sent, got>>
    BY <1>1 DEF ShutDown
  <2>4. TypeOK' /\ Once'
    BY <2>1, <2>2, <2>3 DEF IInv, TypeOK, Once, peerVars
  <2>5. WatchedAreKnown' /\ KnownAreAccepted' /\ WaitingAreThere' /\ NobodyForgotten'
        /\ HangUpsAreTrue' /\ HandledAreWatched' /\ ServedBehind'
    BY <2>1, <2>3 DEF IInv, WatchedAreKnown, KnownAreAccepted, WaitingAreThere, NobodyForgotten,
       HangUpsAreTrue, HandledAreWatched, ServedBehind, Reported, Up, Left, peerVars
  <2> QED
    BY <2>4, <2>5 DEF IInv
<1>2. CASE Exec
  <2>1. /\ copies' = {} /\ registered' = registered \cap Listed /\ edge' = edge \cap Listed
        /\ UNCHANGED <<peerVars, tcp_clients, pc, batch, pos, sent, got>>
    BY <1>2 DEF Exec
  <2>2. TypeOK' /\ Once' /\ Listed' = Listed
    BY <2>1 DEF IInv, TypeOK, Once, Listed, peerVars
  <2>3. WatchedAreKnown' /\ KnownAreAccepted' /\ WaitingAreThere' /\ NobodyForgotten'
        /\ HangUpsAreTrue' /\ HandledAreWatched' /\ ServedBehind'
    BY <2>1, <2>2 DEF IInv, WatchedAreKnown, KnownAreAccepted, WaitingAreThere, NobodyForgotten,
       HangUpsAreTrue, HandledAreWatched, ServedBehind, Reported, Up, Left, peerVars
  <2> QED
    BY <2>2, <2>3 DEF IInv
<1> QED
  BY <1>1, <1>2

\* What peers do leaves the list alone.
LEMMA PeerIInv ==
  ASSUME IInv, NEW c \in Conn, Connect(c) \/ Say(c) \/ Leave(c) \/ Read(c)
  PROVE  IInv'
<1>1. /\ UNCHANGED <<registered, copies, tcp_clients, pc, batch, pos, sent, got>>
      /\ edge \subseteq edge' /\ edge' \subseteq edge \cup registered
  BY DEF Connect, Say, Leave, Read, Wakes, epollVars
<1>2. \/ UNCHANGED <<peer, backlog>>
      \/ peer[c] = "none" /\ peer' = [peer EXCEPT ![c] = "open"] /\ backlog' = backlog \cup {c}
      \/ /\ peer[c] = "open" /\ backlog' = backlog
         /\ \E how \in {"closed", "gone"} : peer' = [peer EXCEPT ![c] = how]
  BY DEF Connect, Say, Leave, Read
<1>3. unread' \subseteq Conn /\ buffer' \in [Conn -> 0..Room]
  <2>1. Read(c) => buffer[c] - 1 \in 0..Room
    BY ClientsAssumption DEF Read, IInv, TypeOK, ClientsAssumption
  <2> QED
    BY <2>1 DEF Connect, Say, Leave, Read, IInv, TypeOK
<1>4. TypeOK'
  BY <1>1, <1>2, <1>3 DEF IInv, TypeOK
<1>5. Once' /\ WatchedAreKnown' /\ HandledAreWatched' /\ ServedBehind' /\ Listed' = Listed
      /\ Reported' = Reported
  BY <1>1 DEF IInv, Once, WatchedAreKnown, HandledAreWatched, ServedBehind, Listed, Reported
<1>6. KnownAreAccepted' /\ WaitingAreThere' /\ NobodyForgotten'
  BY <1>1, <1>2, <1>5 DEF IInv, TypeOK, KnownAreAccepted, WaitingAreThere, NobodyForgotten, Up
<1>7. HangUpsAreTrue'
  BY <1>1, <1>2, <1>5 DEF IInv, TypeOK, HangUpsAreTrue, Left
<1> QED
  BY <1>4, <1>5, <1>6, <1>7 DEF IInv

\* The other steps of gpiod move it on, with fewer events to serve or more copies
\* of what is in the list.
LEMMA OtherIInv ==
  ASSUME IInv,
         \/ TurnDone \/ AcceptFails \/ WriteFails \/ Dispatched \/ Dispatch \/ Fork
         \/ (\E c \in Conn : HandleFreed(c)) \/ UNCHANGED vars
  PROVE  IInv'
<1>1. /\ UNCHANGED <<peerVars, registered, edge, tcp_clients, got>>
      /\ batch' \subseteq batch /\ copies \subseteq copies' /\ copies' \subseteq copies \cup Listed
  BY DEF TurnDone, AcceptFails, WriteFails, Dispatched, Dispatch, Fork, HandleFreed, vars, Serve,
         epollVars
<1>2. /\ pc' \in {"wait", "batch", "dispatch", "exit", "crashed"} /\ (Up' => Up)
      /\ pos' \in Nat \ {0} /\ sent' \in 0..Packets
      /\ pc' = "dispatch" => pos' = 1 \/ (pc = "dispatch" /\ pos' = pos /\ sent' = sent)
  <2>1. /\ pc \in {"wait", "batch", "dispatch", "exit", "crashed"} /\ pos \in Nat \ {0}
        /\ sent \in Nat /\ sent <= Packets /\ Packets \in Nat
    BY ClientsAssumption DEF IInv, TypeOK, ClientsAssumption
  <2>2. CASE Dispatch
    <3>1. pc = "batch" /\ pc' = "dispatch" /\ pos' = 1 /\ sent' = sent + 1 /\ sent < Packets
      BY <2>2 DEF Dispatch
    <3> QED
      BY <2>1, <3>1 DEF Up
  <2>3. CASE ~Dispatch
    <3>1. UNCHANGED <<pos, sent>>
      BY <2>3 DEF TurnDone, AcceptFails, WriteFails, Dispatched, Fork, HandleFreed, vars
    <3>2. pc' = pc \/ (pc \in {"batch", "dispatch"} /\ pc' \in {"wait", "batch", "crashed"})
      BY <2>3 DEF TurnDone, AcceptFails, WriteFails, Dispatched, Fork, HandleFreed, Serve, Writing, vars
    <3> QED
      BY <2>1, <3>1, <3>2 DEF Up
  <2> QED
    BY <2>2, <2>3
<1>3. TypeOK' /\ Once'
  BY <1>1, <1>2, ListIsSeq DEF IInv, TypeOK, Once, peerVars, Listed
<1>4. Listed' = Listed /\ Reported' \subseteq Reported
  BY <1>1 DEF Listed, Reported
<1>5. WatchedAreKnown' /\ KnownAreAccepted' /\ WaitingAreThere' /\ NobodyForgotten'
  BY <1>1, <1>2, <1>4 DEF IInv, WatchedAreKnown, KnownAreAccepted, WaitingAreThere, NobodyForgotten,
     peerVars
<1>6. HangUpsAreTrue' /\ HandledAreWatched'
  BY <1>1, <1>4 DEF IInv, HangUpsAreTrue, HandledAreWatched, Left, peerVars
<1>7. ServedBehind'
  <2>1. Len(tcp_clients) \in Nat
    BY ListIsSeq DEF IInv, TypeOK
  <2>2. CASE pc' = "dispatch" /\ pos' = 1
    BY <1>1, <2>1, <2>2 DEF ServedBehind
  <2> QED
    BY <1>1, <1>2, <2>2 DEF IInv, ServedBehind
<1> QED
  BY <1>3, <1>5, <1>6, <1>7 DEF IInv

LEMMA NextIInv == IInv /\ [Next]_vars => IInv'
<1> SUFFICES ASSUME IInv, [Next]_vars PROVE IInv'
  OBVIOUS
<1>1. CASE EpollWait \/ PinReady
  BY <1>1, TakesEvents DEF EpollWait, PinReady
<1>2. CASE \E c \in Conn : Accept(c)
  BY <1>2, AcceptIInv
<1>3. CASE \E c \in Conn : HandleClient(c)
  BY <1>3, HandleClientIInv
<1>4. CASE Write
  BY <1>4, WriteIInv
<1>5. CASE ShutDown \/ Exec
  BY <1>5, ClosingIInv
<1>6. CASE \E c \in Conn : Connect(c) \/ Say(c) \/ Leave(c) \/ Read(c)
  BY <1>6, PeerIInv
<1>7. CASE \/ TurnDone \/ AcceptFails \/ WriteFails \/ Dispatched \/ Dispatch \/ Fork
           \/ (\E c \in Conn : HandleFreed(c)) \/ UNCHANGED vars
  BY <1>7, OtherIInv
<1> QED
  BY <1>1, <1>2, <1>3, <1>4, <1>5, <1>6, <1>7 DEF Next, Serving, Around

LEMMA Invariance == Spec => []IInv
<1> QED
  BY InitIInv, NextIInv, PTL DEF Spec

-----------------------------------------------------------------------------
(***************************************************************************)
(* The theorems.                                                            *)
(***************************************************************************)
\* Every variable keeps its type; in particular epoll's ready list holds nothing
\* but sockets that are watched.
THEOREM TypeCorrect == Spec => []TypeOK
<1>1. IInv => TypeOK
  BY DEF IInv
<1> QED
  BY <1>1, Invariance, PTL

\* The list holds every accepted client that has not been deleted, once, and
\* epoll watches no other (gpiod-server.c:83-132).
THEOREM ListIsSound == Spec => []ListSound
<1>1. IInv => ListSound
  BY ListIsSeq DEF IInv, TypeOK, Once, WatchedAreKnown, KnownAreAccepted, NobodyForgotten, ListSound,
     Listed
<1> QED
  BY <1>1, Invariance, PTL

\* A turn has one event of each socket, and none is left when it ends.
OneEach ==
  /\ \A e, f \in batch : e.of = f.of => e = f
  /\ pc = "wait" => batch = {}

LEMMA ReadyOneEach == IInv => \A e, f \in Ready : e.of = f.of => e = f
<1> SUFFICES ASSUME IInv PROVE \A e, f \in Ready : e.of = f.of => e = f
  OBVIOUS
<1>1. \A c \in edge : c # Listening
  BY ClientsAssumption DEF IInv, TypeOK, ClientsAssumption, Listening
<1> DEFINE hup(o) == o # Listening /\ (Left(o) \/ o \notin Listed)
<1>2. ASSUME NEW e \in Ready PROVE e = [of |-> e.of, rdhup |-> hup(e.of)]
  <2>1. CASE e = [of |-> Listening, rdhup |-> FALSE]
    BY <2>1
  <2>2. CASE \E c \in edge : e = [of |-> c, rdhup |-> Left(c) \/ c \notin Listed]
    <3>1. PICK c \in edge : e = [of |-> c, rdhup |-> Left(c) \/ c \notin Listed]
      BY <2>2
    <3>2. (Left(c) \/ c \notin Listed) = hup(c)
      BY <1>1 DEF Left
    <3> QED
      BY <3>1, <3>2
  <2> QED
    BY <2>1, <2>2 DEF Ready
<1> HIDE DEF hup
<1> QED
  BY <1>2

LEMMA NextOneEach == IInv /\ OneEach /\ [Next]_vars => OneEach'
<1> SUFFICES ASSUME IInv, OneEach, [Next]_vars PROVE OneEach'
  OBVIOUS
<1>1. CASE EpollWait \/ PinReady
  <2>1. batch' = Ready /\ pc' = "batch"
    BY <1>1 DEF EpollWait, PinReady
  <2> QED
    BY <2>1, ReadyOneEach DEF OneEach
<1>2. CASE batch' \subseteq batch /\ (pc' = "wait" => pc = "wait" \/ batch = {})
  BY <1>2 DEF OneEach
<1> QED
  BY <1>1, <1>2 DEF Next, Serving, Around, Accept, AcceptFails, HandleClient, HandleFreed, Serve,
     TurnDone, Write, WriteFails, Dispatched, Dispatch, ShutDown, Fork, Exec, Connect, Say, Leave,
     Read, Writing, vars

\* What a step leaves or puts into the batch.
LEMMA StaleStep ==
  ASSUME IInv, OneEach, [Next]_vars, NEW e \in batch', e.of \in Conn, e.of \notin Listed'
  PROVE  (e \in batch /\ e.of \notin Listed) \/ (pc = "wait" /\ e.of \in copies)
<1>1. CASE EpollWait \/ PinReady
  <2>1. batch' = Ready /\ pc = "wait" /\ Listed' = Listed
    BY <1>1 DEF EpollWait, PinReady, Listed
  <2>2. e.of \in Listed \cup copies
    BY <2>1, ReadyTyped DEF IInv, TypeOK, WatchedAreKnown
  <2> QED
    BY <2>1, <2>2
<1>2. ASSUME NEW c \in Conn, Accept(c) PROVE e \in batch /\ e.of \notin Listed
  <2>1. c \notin Listed /\ batch' \subseteq batch
    BY <1>2 DEF Accept, Serve, IInv, KnownAreAccepted
  <2>2. Listed' = Listed \cup {c}
    BY <1>2, <2>1, Appended DEF Accept, IInv, TypeOK, Once, Listed
  <2> QED
    BY <2>1, <2>2
<1>3. ASSUME NEW c \in Conn, HandleClient(c) PROVE e \in batch /\ e.of \notin Listed
  <2>1. PICK f \in batch : f.of = c /\ batch' = batch \ {f}
                           /\ (delete_tcp_client(c) \/ tcp_clients' = tcp_clients)
    BY <1>3 DEF HandleClient, Serve
  <2>2. e \in batch /\ e.of # c
    BY <2>1 DEF OneEach
  <2>3. CASE delete_tcp_client(c)
    <3>1. PICK i \in 1..Len(tcp_clients) :
            tcp_clients[i] = c /\ tcp_clients' = RemoveAt(tcp_clients, i)
      BY <2>3 DEF delete_tcp_client
    <3>2. tcp_clients \in Seq(Conn) /\ IsInjective(tcp_clients)
      BY DEF IInv, TypeOK, Once
    <3>3. Listed' = Listed \ {c}
      BY <3>1, <3>2, Removed DEF Listed
    <3> QED
      BY <2>2, <3>3
  <2>4. CASE tcp_clients' = tcp_clients
    BY <2>2, <2>4 DEF Listed
  <2> QED
    BY <2>1, <2>3, <2>4
<1>4. CASE ShutDown
  BY <1>4 DEF ShutDown, OneEach
<1>5. CASE batch' \subseteq batch /\ tcp_clients' = tcp_clients
  BY <1>5 DEF Listed
<1> QED
  BY <1>1, <1>2, <1>3, <1>4, <1>5 DEF Next, Serving, Around, AcceptFails, HandleFreed, Serve, TurnDone,
     Write, WriteFails, Dispatched, Dispatch, Fork, Exec, Connect, Say, Leave, Read, Writing, vars,
     epollVars

\* With hooks launched or not, an event still to be served whose client is freed is one
\* that epoll_wait handed out for a socket of which a child has a copy: no deletion
\* leaves one behind (gpiod-event-loop.c:236-273, gpiod-server.c:117-132).
THEOREM StaleComesFromCopies == Spec => StaleOnlyByCopies
<1>1. Init => OneEach
  BY DEF Init, OneEach
<1>2. IInv /\ OneEach /\ [Next]_vars =>
        [\A e \in batch' : e.of \in Conn /\ e.of \notin Listed' =>
           \/ e \in batch /\ e.of \notin Listed
           \/ pc = "wait" /\ e.of \in copies]_vars
  BY StaleStep
<1> QED
  BY <1>1, <1>2, NextOneEach, Invariance, PTL DEF Spec, StaleOnlyByCopies

\* Clients before the first one that is gone get every packet
\* (gpiod-dispatch.c:42-47), whatever peers do during the dispatch.
THEOREM Reaches == Spec => ReachesThoseBefore
<1>1. ASSUME IInv, [Next]_vars, pc = "dispatch", pc' # "dispatch",
             NEW i \in 1..Len(tcp_clients),
             \A j \in 1..i : peer[tcp_clients[j]] # "gone"
      PROVE  got[tcp_clients[i]] = sent
  <2>1. WriteFails \/ Dispatched
    BY <1>1 DEF Next, Serving, Around, EpollWait, TurnDone, Accept, HandleClient, HandleFreed,
       AcceptFails, Write, ShutDown, PinReady, Dispatch, Fork, Exec, Connect, Say, Leave, Read, Serve, vars
  <2>2. Len(tcp_clients) \in Nat /\ pos \in Nat \ {0}
    BY <1>1, ListIsSeq DEF IInv, TypeOK
  <2>3. i < pos
    <3>1. CASE WriteFails
      <4>1. pos \notin 1..i
        BY <1>1, <3>1 DEF WriteFails, Client
      <4> QED
        BY <2>2, <4>1
    <3>2. CASE Dispatched
      BY <2>2, <3>2 DEF Dispatched
    <3> QED
      BY <2>1, <3>1, <3>2
  <2> QED
    BY <1>1, <2>3 DEF IInv, ServedBehind
<1>2. IInv /\ [Next]_vars =>
        [pc = "dispatch" /\ pc' # "dispatch" =>
           \A i \in 1..Len(tcp_clients) :
             (\A j \in 1..i : peer[tcp_clients[j]] # "gone") => got[tcp_clients[i]] = sent]_vars
  BY <1>1
<1> QED
  BY <1>2, Invariance, PTL DEF Spec, ReachesThoseBefore

-----------------------------------------------------------------------------
(***************************************************************************)
(* Clients implements Subscribers.                                          *)
(***************************************************************************)
\* No client is given a packet before there is one, nor out of turn: those ahead
\* of the dispatch have still to get it.
Counted ==
  /\ \A c \in Conn : got[c] <= sent
  /\ pc = "dispatch" =>
       \A i \in 1..Len(tcp_clients) : i >= pos => got[tcp_clients[i]] # sent

LEMMA InitCounted == Init => Counted
<1> SUFFICES ASSUME Init PROVE Counted
  OBVIOUS
<1>1. sent = 0 /\ got = [c \in Conn |-> 0] /\ pc = "wait"
  BY DEF Init
<1> QED
  BY <1>1 DEF Counted

LEMMA NextCounted == IInv /\ Counted /\ [Next]_vars => Counted'
<1> SUFFICES ASSUME IInv, Counted, [Next]_vars PROVE Counted'
  OBVIOUS
<1>1. /\ sent \in Nat /\ got \in [Conn -> Nat] /\ pos \in Nat /\ Len(tcp_clients) \in Nat
      /\ \A i \in 1..Len(tcp_clients) : tcp_clients[i] \in Conn
  BY ListIsSeq, ClientsAssumption DEF IInv, TypeOK, ClientsAssumption
<1>2. CASE \E c \in Conn : Accept(c)
  <2>1. PICK c \in Conn : pc = "batch" /\ pc' = pc /\ sent' = sent /\ got' = [got EXCEPT ![c] = sent]
    BY <1>2 DEF Accept, Serve
  <2> QED
    BY <1>1, <2>1 DEF Counted
<1>3. CASE Write
  <2>1. /\ pc = "dispatch" /\ pos <= Len(tcp_clients) /\ got' = [got EXCEPT ![Client] = sent]
        /\ pos' = pos + 1 /\ UNCHANGED <<tcp_clients, pc, sent>>
    BY <1>3 DEF Write, Writing
  <2>2. ASSUME NEW i \in 1..Len(tcp_clients), i >= pos + 1
        PROVE  got'[tcp_clients[i]] # sent
    <3>1. pos \in 1..Len(tcp_clients) /\ i # pos /\ i >= pos
      BY <1>1, <2>1, <2>2 DEF IInv, TypeOK
    <3>2. tcp_clients[i] # Client
      BY <1>1, <3>1, ListIsSeq DEF IInv, TypeOK, Once, IsInjective, Client
    <3> QED
      BY <1>1, <2>1, <3>1, <3>2 DEF Counted
  <2>3. Client \in Conn
    BY <1>1, <2>1 DEF IInv, TypeOK, Client
  <2> QED
    BY <1>1, <2>1, <2>2, <2>3 DEF Counted
<1>4. CASE Dispatch
  <2>1. sent' = sent + 1 /\ pos' = 1 /\ UNCHANGED <<tcp_clients, got>>
    BY <1>4 DEF Dispatch, epollVars
  <2>2. \A c \in Conn : got[c] \in Nat /\ got[c] <= sent
    BY <1>1 DEF Counted
  <2> QED
    BY <1>1, <2>1, <2>2 DEF Counted
<1>5. CASE UNCHANGED <<sent, got>> /\ (pc' = "dispatch" => UNCHANGED <<tcp_clients, pc, pos>>)
  BY <1>5 DEF Counted
<1> QED
  BY <1>2, <1>3, <1>4, <1>5 DEF Next, Serving, Around, EpollWait, TurnDone, HandleClient, HandleFreed,
     AcceptFails, WriteFails, Dispatched, ShutDown, PinReady, Fork, Exec, Connect, Say, Leave, Read,
     Serve, Writing, vars, epollVars

-----------------------------------------------------------------------------
\* Most steps are none of the subscribers' business.
LEMMA Unnoticed ==
  ASSUME IInv, UNCHANGED <<tcp_clients, sent, got>>, pc' = "dispatch" <=> pc = "dispatch",
         \/ UNCHANGED <<peer, backlog>>
         \/ \E c \in Conn : Connect(c)
  PROVE  UNCHANGED Promised!vars
<1>1. CASE UNCHANGED <<peer, backlog>>
  BY <1>1 DEF Promised!vars, Left
<1>2. ASSUME NEW c \in Conn, Connect(c) PROVE UNCHANGED Promised!vars
  <2>1. peer[c] = "none" /\ peer' = [peer EXCEPT ![c] = "open"] /\ backlog' = backlog \cup {c}
        /\ peer \in [Conn -> {"none", "open", "closed", "gone"}]
    BY <1>2 DEF Connect, IInv, TypeOK
  <2>2. \A d \in Conn : /\ peer'[d] # "none" /\ d \notin backlog' <=> peer[d] # "none" /\ d \notin backlog
                        /\ Left(d)' <=> Left(d)
                        /\ peer'[d] = "gone" <=> peer[d] = "gone"
    BY <2>1 DEF Left
  <2> QED
    BY <2>2 DEF Promised!vars
<1> QED
  BY <1>1, <1>2

LEMMA AcceptJoins ==
  ASSUME IInv, NEW c \in Conn, Accept(c)
  PROVE  Promised!Join(c)
<1>1. /\ pc = "batch" /\ c \in backlog /\ backlog' = backlog \ {c}
      /\ tcp_clients' = Append(tcp_clients, c) /\ got' = [got EXCEPT ![c] = sent]
      /\ UNCHANGED <<peer, pc, sent>>
  BY DEF Accept, Serve
<1>2. peer[c] # "none"
  BY <1>1 DEF IInv, WaitingAreThere
<1>3. UNCHANGED <<{d \in Conn : Left(d)}, {d \in Conn : peer[d] = "gone"}, pc = "dispatch">>
  BY <1>1 DEF Left
<1>4. {d \in Conn : peer[d] # "none" /\ d \notin backlog}'
        = {d \in Conn : peer[d] # "none" /\ d \notin backlog} \cup {c}
  BY <1>1, <1>2
<1> QED
  BY <1>1, <1>3, <1>4 DEF Promised!Join

LEMMA HandleClientDrops ==
  ASSUME IInv, NEW c \in Conn, HandleClient(c)
  PROVE  Promised!Drop(c) \/ UNCHANGED Promised!vars
<1>1. PICK e \in batch :
        /\ e.of = c /\ c \in Listed /\ Serve(e)
        /\ IF Ended(e) THEN delete_tcp_client(c) ELSE UNCHANGED <<tcp_clients, registered, edge>>
        /\ UNCHANGED <<peerVars, copies, pc, pos, sent, got>>
  BY DEF HandleClient
<1>2. pc = "batch" /\ UNCHANGED <<peer, backlog, pc, sent, got>>
  BY <1>1 DEF Serve, peerVars
<1>3. CASE Ended(e)
  <2>1. Left(c) /\ \E i \in 1..Len(tcp_clients) :
                     tcp_clients[i] = c /\ tcp_clients' = RemoveAt(tcp_clients, i)
    BY <1>1, <1>3 DEF Ended, IInv, HangUpsAreTrue, delete_tcp_client
  <2> QED
    BY <1>2, <2>1 DEF Promised!Drop, Promised!RemoveAt, RemoveAt, Left
<1>4. CASE ~Ended(e)
  BY <1>1, <1>2, <1>4, Unnoticed
<1> QED
  BY <1>3, <1>4

\* Whose turn it is, is where the dispatch is.
LEMMA TurnIsPos ==
  ASSUME IInv, Counted, pc = "dispatch", NEW c \in Conn
  PROVE  Promised!Turn(c) <=> pos <= Len(tcp_clients) /\ c = Client
<1>1. /\ pos \in Nat \ {0} /\ Len(tcp_clients) \in Nat
      /\ \A i \in 1..Len(tcp_clients) : i < pos => got[tcp_clients[i]] = sent
      /\ \A i \in 1..Len(tcp_clients) : i >= pos => got[tcp_clients[i]] # sent
  BY ListIsSeq DEF IInv, TypeOK, ServedBehind, Counted
<1>2. ASSUME Promised!Turn(c) PROVE pos <= Len(tcp_clients) /\ c = Client
  <2>1. PICK i \in 1..Len(tcp_clients) :
          /\ tcp_clients[i] = c /\ got[c] # sent
          /\ \A j \in 1..Len(tcp_clients) : j < i => got[tcp_clients[j]] = sent
    BY <1>2 DEF Promised!Turn
  <2>2. ~(i < pos) /\ ~(pos < i)
    BY <1>1, <2>1
  <2>3. i = pos
    BY <1>1, <2>2
  <2> QED
    BY <2>1, <2>3 DEF Client
<1>3. ASSUME pos <= Len(tcp_clients), c = Client PROVE Promised!Turn(c)
  <2>1. pos \in 1..Len(tcp_clients) /\ tcp_clients[pos] = c /\ got[tcp_clients[pos]] # sent
    BY <1>1, <1>3 DEF Client
  <2> QED
    BY <1>1, <2>1 DEF Promised!Turn
<1> QED
  BY <1>2, <1>3

LEMMA WriteDelivers ==
  ASSUME IInv, Counted, Write
  PROVE  \E c \in Conn : Promised!Deliver(c)
<1>1. /\ pc = "dispatch" /\ pos <= Len(tcp_clients) /\ got' = [got EXCEPT ![Client] = sent]
      /\ UNCHANGED <<backlog, tcp_clients, pc, sent>>
      /\ \/ peer[Client] = "closed" /\ peer' = [peer EXCEPT ![Client] = "gone"]
         \/ peer[Client] = "open" /\ peer' = peer
  BY DEF Write, Writing
<1>2. Client \in Conn /\ peer \in [Conn -> {"none", "open", "closed", "gone"}]
  BY <1>1, ListIsSeq DEF IInv, TypeOK, Client
<1>3. \A d \in Conn : /\ peer'[d] # "none" <=> peer[d] # "none"
                      /\ Left(d)' <=> Left(d)
                      /\ peer'[d] = "gone" <=> peer[d] = "gone" \/ (d = Client /\ Left(d))
  BY <1>1, <1>2 DEF Left
<1>4. {d \in Conn : peer[d] = "gone"}'
        = {d \in Conn : peer[d] = "gone"} \cup ({Client} \cap {d \in Conn : Left(d)})
  BY <1>3
<1>5. Client \notin {d \in Conn : peer[d] = "gone"}
  BY <1>1
<1>6. UNCHANGED <<{d \in Conn : peer[d] # "none" /\ d \notin backlog}, {d \in Conn : Left(d)}>>
  BY <1>1, <1>3
<1>7. PICK c \in Conn : c = Client
  BY <1>2
<1>8. Promised!Turn(c)
  BY <1>1, <1>7, TurnIsPos
<1>9. Promised!Deliver(c)
  BY <1>1, <1>4, <1>5, <1>6, <1>7, <1>8 DEF Promised!Deliver
<1> QED
  BY <1>9

LEMMA RoundEnds ==
  ASSUME IInv, Counted, WriteFails \/ Dispatched
  PROVE  Promised!EndRound
<1>1. /\ pc = "dispatch" /\ pc' = "batch" /\ UNCHANGED <<peer, backlog, tcp_clients, sent, got>>
      /\ pos > Len(tcp_clients) \/ peer[Client] = "gone"
  BY DEF WriteFails, Dispatched, Writing, peerVars
<1>2. ASSUME NEW c \in Conn, Promised!Turn(c) PROVE c \in {d \in Conn : peer[d] = "gone"}
  <2>1. pos <= Len(tcp_clients) /\ c = Client
    BY <1>1, <1>2, TurnIsPos
  <2>2. ~(pos > Len(tcp_clients))
    BY <2>1, ListIsSeq DEF IInv, TypeOK
  <2> QED
    BY <1>1, <2>1, <2>2
<1> QED
  BY <1>1, <1>2 DEF Promised!EndRound, Left

LEMMA LeaveEnds ==
  ASSUME IInv, NEW c \in Conn, Leave(c)
  PROVE  Promised!End(c)
<1>1. /\ peer[c] = "open" /\ UNCHANGED <<backlog, tcp_clients, pc, sent, got>>
      /\ peer \in [Conn -> {"none", "open", "closed", "gone"}]
  BY DEF Leave, IInv, TypeOK
<1>2. PICK how \in {"closed", "gone"} : peer' = [peer EXCEPT ![c] = how]
  BY DEF Leave
<1>3. \A d \in Conn : /\ peer'[d] # "none" <=> peer[d] # "none"
                      /\ Left(d)' <=> Left(d) \/ d = c
                      /\ peer'[d] = "gone" <=> peer[d] = "gone" \/ (d = c /\ how = "gone")
  BY <1>1, <1>2 DEF Left
<1>4. c \notin {d \in Conn : Left(d)} /\ {d \in Conn : Left(d)}' = {d \in Conn : Left(d)} \cup {c}
  BY <1>1, <1>3 DEF Left
<1>5. {d \in Conn : peer[d] = "gone"}' \in {{d \in Conn : peer[d] = "gone"},
                                            {d \in Conn : peer[d] = "gone"} \cup {c}}
  BY <1>3
<1>6. UNCHANGED {d \in Conn : peer[d] # "none" /\ d \notin backlog}
  BY <1>1, <1>3
<1> QED
  BY <1>1, <1>4, <1>5, <1>6 DEF Promised!End

LEMMA StepPromised == IInv /\ Counted /\ [Next]_vars => [Promised!Next]_(Promised!vars)
<1> SUFFICES ASSUME IInv, Counted, [Next]_vars PROVE Promised!Next \/ UNCHANGED Promised!vars
  OBVIOUS
<1>1. ASSUME NEW c \in Conn, Accept(c) PROVE Promised!Next
  BY <1>1, AcceptJoins DEF Promised!Next
<1>2. ASSUME NEW c \in Conn, HandleClient(c) PROVE Promised!Next \/ UNCHANGED Promised!vars
  BY <1>2, HandleClientDrops DEF Promised!Next
<1>3. CASE Write
  BY <1>3, WriteDelivers DEF Promised!Next
<1>4. CASE WriteFails \/ Dispatched
  BY <1>4, RoundEnds DEF Promised!Next
<1>5. CASE Dispatch
  <2>1. pc = "batch" /\ pc' = "dispatch" /\ sent' = sent + 1
        /\ UNCHANGED <<peer, backlog, tcp_clients, got>>
    BY <1>5 DEF Dispatch, peerVars
  <2>2. Promised!Publish
    BY <2>1 DEF Promised!Publish, Left
  <2> QED
    BY <2>2 DEF Promised!Next
<1>6. ASSUME NEW c \in Conn, Leave(c) PROVE Promised!Next
  BY <1>6, LeaveEnds DEF Promised!Next
<1>7. CASE ShutDown
  <2>1. pc = "wait" /\ pc' = "exit" /\ tcp_clients' = <<>> /\ UNCHANGED <<peer, backlog, sent, got>>
    BY <1>7 DEF ShutDown, peerVars
  <2>2. Promised!Stop
    BY <2>1 DEF Promised!Stop, Left
  <2> QED
    BY <2>2 DEF Promised!Next
<1>8. ASSUME NEW c \in Conn, Connect(c) PROVE UNCHANGED Promised!vars
  <2>1. UNCHANGED <<tcp_clients, sent, got, pc>>
    BY <1>8 DEF Connect
  <2> QED
    BY <1>8, <2>1, Unnoticed
<1>9. CASE \/ EpollWait \/ PinReady \/ TurnDone \/ AcceptFails \/ Fork \/ Exec \/ UNCHANGED vars
           \/ \E c \in Conn : HandleFreed(c) \/ Say(c) \/ Read(c)
  <2>1. UNCHANGED <<tcp_clients, sent, got, peer, backlog>>
    BY <1>9 DEF EpollWait, PinReady, TurnDone, AcceptFails, Fork, Exec, HandleFreed, Say, Read, vars,
       peerVars, epollVars
  <2>2. pc' = "dispatch" <=> pc = "dispatch"
    BY <1>9 DEF EpollWait, PinReady, TurnDone, AcceptFails, Fork, Exec, HandleFreed, Say, Read, vars, Serve
  <2> QED
    BY <2>1, <2>2, Unnoticed
<1> QED
  BY <1>1, <1>2, <1>3, <1>4, <1>5, <1>6, <1>7, <1>8, <1>9 DEF Next, Serving, Around

LEMMA InitPromised == Init => Promised!Init
<1> SUFFICES ASSUME Init PROVE Promised!Init
  OBVIOUS
<1>1. \A c \in Conn : peer[c] = "none"
  BY DEF Init
<1> QED
  BY <1>1 DEF Init, Promised!Init, Left

\* With hooks launched or not, the loop serves its clients as Subscribers has it: the
\* packets from acceptance on in turn, one kept from a client only by a broken one
\* before it in the list, and nobody deleted who has not left
\* (gpiod-dispatch.c:42-47, gpiod-event-loop.c:240-273).
THEOREM Implements == Spec => ServesSubscribers
<1>1. IInv /\ Counted /\ [Next]_vars => Counted' /\ [Promised!Next]_(Promised!vars)
  BY NextCounted, StepPromised
<1> QED
  BY <1>1, InitCounted, InitPromised, Invariance, PTL DEF Spec, ServesSubscribers, Promised!Spec

=============================================================================
