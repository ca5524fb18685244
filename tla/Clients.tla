------------------------------ MODULE Clients ------------------------------
(***************************************************************************)
(* The TCP clients of gpiod: accept, the events of a client's socket and    *)
(* the dispatch of packets (gpiod-server.c:83-132, gpiod-dispatch.c:30-55,  *)
(* gpiod-event-loop.c:240-273), beside peers that connect, send, read, stop *)
(* reading and go, and the children of hooks, which hold copies of every    *)
(* descriptor between fork and exec.                                        *)
(*                                                                         *)
(* A packet is one unit of a socket's send buffer.                          *)
(***************************************************************************)
EXTENDS Naturals, Sequences, SequencesExt

CONSTANTS
  Conn,     \* the connections peers make, each at most once
  Room,     \* packets a send buffer takes
  Packets,  \* bound: how many packets are dispatched
  Talk,     \* TRUE: peers may also send something
  Forks,    \* TRUE: hooks are launched
  Crowded   \* TRUE: accept4 may fail, for want of descriptors or memory

ASSUME ClientsAssumption ==
  /\ "LISTEN_PORT" \notin Conn
  /\ Room \in Nat \ {0}
  /\ Packets \in Nat
  /\ Talk \in BOOLEAN
  /\ Forks \in BOOLEAN
  /\ Crowded \in BOOLEAN

VARIABLES
  peer,        \* the peer's end: "none", "open", "closed" (FIN) or "gone" (RST)
  backlog,     \* connections to be accepted
  unread,      \* connections with bytes gpiod has not read
  buffer,      \* packets on their way to the peer
  tcp_clients, \* the list
  registered,  \* sockets epoll watches
  edge,        \* of these, those on epoll's ready list
  copies,      \* sockets of which a child still holds a copy
  pc,
  batch,       \* events of this turn, with EPOLLRDHUP or without
  pos,         \* position in tcp_clients during a dispatch
  sent,        \* number of packets dispatched
  got          \* number of the last packet written to each client

peerVars == <<peer, backlog, unread, buffer>>
epollVars == <<registered, edge, copies>>
vars == <<peerVars, epollVars, tcp_clients, pc, batch, pos, sent, got>>

Listening == "LISTEN_PORT"
Event == [of : Conn \cup {Listening}, rdhup : BOOLEAN]

TypeOK ==
  /\ peer \in [Conn -> {"none", "open", "closed", "gone"}]
  /\ backlog \subseteq Conn
  /\ unread \subseteq Conn
  /\ buffer \in [Conn -> 0..Room]
  /\ tcp_clients \in Seq(Conn)
  /\ registered \subseteq Conn
  /\ edge \subseteq registered
  /\ copies \subseteq Conn
  /\ pc \in {"wait", "batch", "dispatch", "exit", "crashed"}
  /\ batch \subseteq Event
  /\ pos \in Nat \ {0}
  /\ sent \in 0..Packets
  /\ got \in [Conn -> 0..Packets]

Init ==
  /\ peer = [c \in Conn |-> "none"]
  /\ backlog = {}
  /\ unread = {}
  /\ buffer = [c \in Conn |-> 0]
  /\ tcp_clients = <<>>
  /\ registered = {}
  /\ edge = {}
  /\ copies = {}
  /\ pc = "wait"
  /\ batch = {}
  /\ pos = 1
  /\ sent = 0
  /\ got = [c \in Conn |-> 0]

Left(c) == peer[c] \in {"closed", "gone"}

-----------------------------------------------------------------------------
(***************************************************************************)
(* The list.                                                                *)
(***************************************************************************)
Listed == ToSet(tcp_clients)

\* Mutant: the ready list is forgotten.
DeleteClient_EdgeStays(c) ==
  /\ \E i \in 1..Len(tcp_clients) :
       tcp_clients[i] = c /\ tcp_clients' = RemoveAt(tcp_clients, i)
  /\ registered' = registered \ ({c} \ copies)
  /\ edge' = edge \cup {c}

\* shutdown, close, list_del, free.  close ends epoll's interest only with the
\* last copy of the descriptor; until then shutdown makes it ready once more.
delete_tcp_client(c) ==
  /\ \E i \in 1..Len(tcp_clients) :
       tcp_clients[i] = c /\ tcp_clients' = RemoveAt(tcp_clients, i)
  /\ registered' = registered \ ({c} \ copies)
  /\ edge' = (edge \ {c}) \cup ({c} \cap copies)

-----------------------------------------------------------------------------
(***************************************************************************)
(* A turn of the loop.  The listening socket is level-triggered, clients    *)
(* are edge-triggered; the flags are those of the moment of epoll_wait.     *)
(***************************************************************************)
Ready ==
  {[of |-> c, rdhup |-> Left(c) \/ c \notin Listed] : c \in edge}
    \cup (IF backlog # {} THEN {[of |-> Listening, rdhup |-> FALSE]} ELSE {})

EpollWait ==
  /\ pc = "wait"
  /\ Ready # {}
  /\ batch' = Ready
  /\ edge' = {}
  /\ pc' = "batch"
  /\ UNCHANGED <<peerVars, registered, copies, tcp_clients, pos, sent, got>>

TurnDone ==
  /\ pc = "batch"
  /\ batch = {}
  /\ pc' = "wait"
  /\ UNCHANGED <<peerVars, epollVars, tcp_clients, batch, pos, sent, got>>

Serve(e) ==
  /\ pc = "batch"
  /\ e \in batch
  /\ batch' = batch \ {e}

\* Mutant: a client that cannot be watched is not put into the list, but kept.
Accept_ListedIfWatched(c) ==
  /\ Serve([of |-> Listening, rdhup |-> FALSE])
  /\ c \in backlog
  /\ backlog' = backlog \ {c}
  /\ \/ /\ tcp_clients' = Append(tcp_clients, c)
        /\ registered' = registered \cup {c}
        /\ edge' = IF Left(c) \/ c \in unread THEN edge \cup {c} ELSE edge
     \/ UNCHANGED <<tcp_clients, registered, edge>>
  /\ got' = [got EXCEPT ![c] = sent]
  /\ UNCHANGED <<peer, unread, buffer, copies, pc, pos, sent>>

\* epoll_ctl may fail: the client is in the list and unwatched.  A socket with
\* something to tell is ready when it is registered.
Accept(c) ==
  /\ Serve([of |-> Listening, rdhup |-> FALSE])
  /\ c \in backlog
  /\ backlog' = backlog \ {c}
  /\ tcp_clients' = Append(tcp_clients, c)
  /\ \/ /\ registered' = registered \cup {c}
        /\ edge' = IF Left(c) \/ c \in unread THEN edge \cup {c} ELSE edge
     \/ UNCHANGED <<registered, edge>>
  /\ got' = [got EXCEPT ![c] = sent]
  /\ UNCHANGED <<peer, unread, buffer, copies, pc, pos, sent>>

\* accept4 fails, accept_tcp_client returns 0 and the loop writes through it.
AcceptFails ==
  /\ Crowded
  /\ Serve([of |-> Listening, rdhup |-> FALSE])
  /\ pc' = "crashed"
  /\ UNCHANGED <<peerVars, epollVars, tcp_clients, pos, sent, got>>

\* Mutant: only a reset is taken for an end.
Ended_ResetOnly(e) == e.of \notin unread /\ e.rdhup /\ peer[e.of] = "gone"

\* FIONREAD tells nothing to read and epoll_wait reported EPOLLRDHUP.
Ended(e) == e.of \notin unread /\ e.rdhup

\* What is not the end is spliced to devnullfd, which is never opened (and
\* neither end is a pipe): nothing is read.
HandleClient(c) ==
  \E e \in batch :
    /\ e.of = c
    /\ c \in Listed
    /\ Serve(e)
    /\ IF Ended(e)
       THEN delete_tcp_client(c)
       ELSE UNCHANGED <<tcp_clients, registered, edge>>
    /\ UNCHANGED <<peerVars, copies, pc, pos, sent, got>>

\* The event's wrapper went with its client: what follows is undefined and the
\* model ends.
HandleFreed(c) ==
  /\ \E e \in batch : e.of = c /\ Serve(e)
  /\ c \notin Listed
  /\ pc' = "crashed"
  /\ UNCHANGED <<peerVars, epollVars, tcp_clients, pos, sent, got>>

-----------------------------------------------------------------------------
(***************************************************************************)
(* dispatch: a packet for every client, written by blocking writes.  It is  *)
(* called for a pin or the timer, whose events may be anywhere in a batch.  *)
(***************************************************************************)
Dispatch ==
  /\ pc = "batch"
  /\ sent < Packets
  /\ sent' = sent + 1
  /\ pos' = 1
  /\ pc' = "dispatch"
  /\ UNCHANGED <<peerVars, epollVars, tcp_clients, batch, got>>

Client == tcp_clients[pos]
Writing == pc = "dispatch" /\ pos <= Len(tcp_clients)

\* Mutant: the socket does not block, a full buffer is a failure.
Write_NonBlocking ==
  /\ Writing
  /\ peer[Client] = "open"
  /\ IF buffer[Client] < Room
     THEN /\ got' = [got EXCEPT ![Client] = sent]
          /\ buffer' = [buffer EXCEPT ![Client] = @ + 1]
          /\ pos' = pos + 1
          /\ UNCHANGED pc
     ELSE /\ pc' = "batch"
          /\ UNCHANGED <<got, buffer, pos>>
  /\ UNCHANGED <<peer, backlog, unread, epollVars, tcp_clients, batch, sent>>

\* A peer that has closed answers the first packet with a reset.
Write ==
  /\ Writing
  /\ peer[Client] = "closed" \/ (peer[Client] = "open" /\ buffer[Client] < Room)
  /\ got' = [got EXCEPT ![Client] = sent]
  /\ pos' = pos + 1
  /\ IF peer[Client] = "closed"
     THEN /\ peer' = [peer EXCEPT ![Client] = "gone"]
          /\ edge' = edge \cup ({Client} \cap registered)
          /\ UNCHANGED buffer
     ELSE /\ buffer' = [buffer EXCEPT ![Client] = @ + 1]
          /\ UNCHANGED <<peer, edge>>
  /\ UNCHANGED <<backlog, unread, registered, copies, tcp_clients, pc, batch, sent>>

\* Mutant: a client that cannot be written to is deleted.
WriteFails_Deletes ==
  /\ Writing
  /\ peer[Client] = "gone"
  /\ delete_tcp_client(Client)
  /\ UNCHANGED <<peerVars, copies, pc, batch, pos, sent, got>>

\* Mutant: the write is tried again.
WriteFails_Retries ==
  /\ Writing
  /\ peer[Client] = "gone"
  /\ UNCHANGED vars

\* EPIPE: the clients after this one get nothing.
WriteFails ==
  /\ Writing
  /\ peer[Client] = "gone"
  /\ pc' = "batch"
  /\ UNCHANGED <<peerVars, epollVars, tcp_clients, batch, pos, sent, got>>

Dispatched ==
  /\ pc = "dispatch"
  /\ pos > Len(tcp_clients)
  /\ pc' = "batch"
  /\ UNCHANGED <<peerVars, epollVars, tcp_clients, batch, pos, sent, got>>

Serving ==
  \/ EpollWait
  \/ TurnDone
  \/ \E c \in Conn : Accept(c) \/ HandleClient(c) \/ HandleFreed(c)
  \/ AcceptFails
  \/ Write
  \/ WriteFails
  \/ Dispatched

-----------------------------------------------------------------------------
(***************************************************************************)
(* Around the loop.                                                         *)
(***************************************************************************)
Up == pc \notin {"exit", "crashed"}

\* The loop's condition has failed: every client is deleted.
ShutDown ==
  /\ pc = "wait"
  /\ pc' = "exit"
  /\ tcp_clients' = <<>>
  /\ registered' = registered \cap copies
  /\ edge' = edge \cap copies
  /\ UNCHANGED <<peerVars, copies, batch, pos, sent, got>>

\* A pin or the timer wakes epoll_wait, with whatever else is ready.
PinReady ==
  /\ pc = "wait"
  /\ sent < Packets
  /\ batch' = Ready
  /\ edge' = {}
  /\ pc' = "batch"
  /\ UNCHANGED <<peerVars, registered, copies, tcp_clients, pos, sent, got>>

\* A hook is launched: its process has a copy of every open socket ...
Fork ==
  /\ Forks
  /\ pc = "batch"
  /\ copies' = copies \cup Listed
  /\ UNCHANGED <<peerVars, registered, edge, tcp_clients, pc, batch, pos, sent, got>>

\* ... until exec closes them (SOCK_CLOEXEC); children are not told apart.
Exec ==
  /\ Up
  /\ copies # {}
  /\ copies' = {}
  /\ registered' = registered \cap Listed
  /\ edge' = edge \cap Listed
  /\ UNCHANGED <<peerVars, tcp_clients, pc, batch, pos, sent, got>>

Connect(c) ==
  /\ Up
  /\ peer[c] = "none"
  /\ peer' = [peer EXCEPT ![c] = "open"]
  /\ backlog' = backlog \cup {c}
  /\ UNCHANGED <<unread, buffer, epollVars, tcp_clients, pc, batch, pos, sent, got>>

Wakes(c) == edge' = edge \cup ({c} \cap registered)

Say(c) ==
  /\ Up
  /\ Talk
  /\ peer[c] = "open"
  /\ unread' = unread \cup {c}
  /\ Wakes(c)
  /\ UNCHANGED <<peer, backlog, buffer, registered, copies, tcp_clients, pc, batch,
                 pos, sent, got>>

Leave(c) ==
  /\ Up
  /\ peer[c] = "open"
  /\ \E how \in {"closed", "gone"} : peer' = [peer EXCEPT ![c] = how]
  /\ Wakes(c)
  /\ UNCHANGED <<backlog, unread, buffer, registered, copies, tcp_clients, pc, batch,
                 pos, sent, got>>

Read(c) ==
  /\ Up
  /\ peer[c] = "open"
  /\ buffer[c] > 0
  /\ buffer' = [buffer EXCEPT ![c] = @ - 1]
  /\ UNCHANGED <<peer, backlog, unread, epollVars, tcp_clients, pc, batch, pos, sent, got>>

Around ==
  \/ ShutDown \/ PinReady \/ Dispatch \/ Fork \/ Exec
  \/ \E c \in Conn : Connect(c) \/ Say(c) \/ Leave(c) \/ Read(c)

Next == Serving \/ Around

Spec == Init /\ [][Next]_vars

(***************************************************************************)
(* gpiod serves whenever it can.                                            *)
(***************************************************************************)
FairSpec == Spec /\ WF_vars(Serving)

(***************************************************************************)
(* Peers read what they are sent, as long as they stay: nothing in gpiod    *)
(* makes them.                                                              *)
(***************************************************************************)
ReadingSpec == FairSpec /\ \A c \in Conn : WF_vars(Read(c))

-----------------------------------------------------------------------------
(***************************************************************************)
(* Correctness.                                                             *)
(***************************************************************************)
\* The list holds every accepted client that has not been deleted, once, and
\* epoll watches no other: events, dispatch and the final deletion
\* (event-loop.c:341-344) all walk it.
ListSound ==
  /\ IsInjective(tcp_clients)
  /\ \A c \in registered : c \in Listed \/ c \in copies
  /\ \A c \in Listed : c \notin backlog /\ peer[c] # "none"
  /\ \A c \in Conn : Up /\ peer[c] = "open" => c \in backlog \/ c \in Listed

\* The wrapper of an event lies inside the client that delete_tcp_client frees
\* (server.c:129-131).  No deletion leaves an event of its client behind in the
\* batch, and epoll_wait hands out an event of a freed client only if a child
\* between fork and exec has a copy of the socket: then it does, and the loop reads
\* freed memory (HandleFreed).
StaleOnlyByCopies ==
  [][\A e \in batch' : e.of \in Conn /\ e.of \notin Listed' =>
       \/ e \in batch /\ e.of \notin Listed
       \/ pc = "wait" /\ e.of \in copies]_vars

\* A client that has left and said nothing is deleted (event-loop.c:267-270), unless
\* the loop has ended in undefined behaviour.  One that has said something is not:
\* it is never read and stays in the list.
DeadIsDeleted ==
  \A c \in Conn :
    (Left(c) /\ c \in registered /\ c \notin unread) ~> (c \notin Listed \/ pc = "crashed")

\* A dispatch comes to an end: the loop is not held up for ever.
DispatchEnds == (pc = "dispatch") ~> (pc # "dispatch")

\* A packet reaches every client that is connected when its dispatch ends, as
\* README.md:20 says.  It does not: dispatch ends at the first client it cannot write
\* to (dispatch.c:46).
ReachesAll ==
  [][pc = "dispatch" /\ pc' # "dispatch" =>
       \A c \in Listed : peer[c] = "open" => got[c] = sent]_vars

\* Clients before the first one that is gone get every packet (dispatch.c:42-47).
ReachesThoseBefore ==
  [][pc = "dispatch" /\ pc' # "dispatch" =>
       \A i \in 1..Len(tcp_clients) :
         (\A j \in 1..i : peer[tcp_clients[j]] # "gone") => got[tcp_clients[i]] = sent]_vars

Promised == INSTANCE Subscribers WITH
  known <- {c \in Conn : peer[c] # "none" /\ c \notin backlog},
  subs <- tcp_clients,
  ended <- {c \in Conn : Left(c)},
  broken <- {c \in Conn : peer[c] = "gone"},
  round <- pc = "dispatch"

\* The loop serves its clients as Subscribers has it: each gets the packets from its
\* acceptance on, in turn and none twice, a packet is kept from a client only by one
\* before it that cannot be written to, and nobody is deleted who has not left
\* (gpiod-dispatch.c:42-47, gpiod-event-loop.c:240-273).
ServesSubscribers == Promised!Spec

=============================================================================
