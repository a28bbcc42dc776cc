--------------------------- MODULE SqlServerLink ----------------------------
(***************************************************************************)
(* How grannos/drivers/sqlserver/driver.py finds the socket under a        *)
(* connection, and severs it to abort a cancelled statement.  The ODBC     *)
(* driver does not tell its socket: it is taken to be the one connected    *)
(* TCP socket of the process that was not there before the connect.        *)
(*                                                                         *)
(* The sockets of the process are a function from file descriptors to      *)
(* identities; a descriptor that was closed is given to the next socket    *)
(* opened, an identity never is.  Connects run on worker threads, one at a *)
(* time under _open_lock; other sockets, those of closed connections of    *)
(* this driver included, come and go as their own threads and the event    *)
(* loop please, also while a connect is under way.                         *)
(***************************************************************************)
EXTENDS Naturals, FiniteSets

CONSTANTS
  Fds,         \* bound: file descriptors
  Connections, \* connects of this driver
  MaxSockets   \* bound: sockets ever opened

Free == 0
NoLink == [fd |-> 0, identity |-> 0]

VARIABLES
  sockets, \* each descriptor's socket, or Free
  opened,  \* how many sockets were ever opened: the last identity
  before,  \* the listing taken by each connect, and where it is
  pc,
  own,     \* the socket each connection lives on
  link,    \* what _connect_tracking_link took it to be
  severed  \* the sockets shut down, with the connection they were severed for

vars == <<sockets, opened, before, pc, own, link, severed>>

Lowest == CHOOSE f \in Fds : sockets[f] = Free /\ \A g \in Fds : sockets[g] = Free => f <= g
CanOpen == opened < MaxSockets /\ \E f \in Fds : sockets[f] = Free

\* The descriptors of the process's connected TCP sockets.
TcpSockets == {f \in Fds : sockets[f] # Free}

TypeOK ==
  /\ sockets \in [Fds -> 0..MaxSockets]
  /\ opened \in 0..MaxSockets
  /\ before \in [Connections -> SUBSET Fds]
  /\ pc \in [Connections -> {"start", "connecting", "connected", "open", "closed"}]
  /\ own \in [Connections -> [fd : {0} \cup Fds, identity : 0..MaxSockets]]
  /\ link \in [Connections -> [fd : {0} \cup Fds, identity : 0..MaxSockets]]
  /\ severed \subseteq Connections \X (1..MaxSockets)

Init ==
  /\ sockets = [f \in Fds |-> Free]
  /\ opened = 0
  /\ before = [c \in Connections |-> {}]
  /\ pc = [c \in Connections |-> "start"]
  /\ own = [c \in Connections |-> NoLink]
  /\ link = [c \in Connections |-> NoLink]
  /\ severed = {}

Unlocked == \A c \in Connections : pc[c] \notin {"connecting", "connected"}
Live == {c \in Connections : pc[c] \in {"connected", "open"}}

\* Under the lock: list the sockets, connect, list them again.
ListBefore(c) ==
  /\ pc[c] = "start"
  /\ Unlocked
  /\ before' = [before EXCEPT ![c] = TcpSockets]
  /\ pc' = [pc EXCEPT ![c] = "connecting"]
  /\ UNCHANGED <<sockets, opened, own, link, severed>>

Connect(c) ==
  /\ pc[c] = "connecting"
  /\ CanOpen
  /\ opened' = opened + 1
  /\ sockets' = [sockets EXCEPT ![Lowest] = opened + 1]
  /\ own' = [own EXCEPT ![c] = [fd |-> Lowest, identity |-> opened + 1]]
  /\ pc' = [pc EXCEPT ![c] = "connected"]
  /\ UNCHANGED <<before, link, severed>>

\* The mutant of ListAfter takes any new socket.
ListAfterAny(c) ==
  LET new == TcpSockets \ before[c] IN
  /\ pc[c] = "connected"
  /\ \E f \in new : link' = [link EXCEPT ![c] = [fd |-> f, identity |-> sockets[f]]]
  /\ pc' = [pc EXCEPT ![c] = "open"]
  /\ UNCHANGED <<sockets, opened, before, own, severed>>

ListAfter(c) ==
  LET new == TcpSockets \ before[c] IN
  /\ pc[c] = "connected"
  /\ link' = [link EXCEPT ![c] =
       IF Cardinality(new) # 1 THEN NoLink
       ELSE LET f == CHOOSE g \in new : TRUE IN [fd |-> f, identity |-> sockets[f]]]
  /\ pc' = [pc EXCEPT ![c] = "open"]
  /\ UNCHANGED <<sockets, opened, before, own, severed>>

\* A cancel shuts the socket down, unless its descriptor was reused.  A cancel
\* may come after the connection was closed: disconnect is a call it can hit.
Sever(c) ==
  /\ pc[c] \in {"open", "closed"}
  /\ link[c] # NoLink
  /\ sockets[link[c].fd] = link[c].identity
  /\ severed' = severed \cup {<<c, link[c].identity>>}
  /\ UNCHANGED <<sockets, opened, before, pc, own, link>>

\* The connection, or a socket of anyone else's, is closed.
Close(c) ==
  /\ pc[c] = "open"
  /\ pc' = [pc EXCEPT ![c] = "closed"]
  /\ sockets' = [sockets EXCEPT ![own[c].fd] = Free]
  /\ UNCHANGED <<opened, before, own, link, severed>>

OtherOpens ==
  /\ CanOpen
  /\ opened' = opened + 1
  /\ sockets' = [sockets EXCEPT ![Lowest] = opened + 1]
  /\ UNCHANGED <<before, pc, own, link, severed>>

OtherCloses ==
  /\ \E f \in TcpSockets \ {own[c].fd : c \in Live} :
       sockets' = [sockets EXCEPT ![f] = Free]
  /\ UNCHANGED <<opened, before, pc, own, link, severed>>

Next ==
  \/ \E c \in Connections :
       ListBefore(c) \/ Connect(c) \/ ListAfter(c) \/ Sever(c) \/ Close(c)
  \/ OtherOpens
  \/ OtherCloses

Spec == Init /\ [][Next]_vars

-----------------------------------------------------------------------------
\* A cancel shuts down the socket of the connection it cancels, or none,
\* whatever opened and closed while it connected (_connect_tracking_link), and
\* whatever took its descriptor after it was closed (_Link.sever).  It can be
\* another's only when the connection got a descriptor that was listed before it
\* connected: the socket there was closed meanwhile, so its own does not count as
\* new and the one new socket is not its own.
SeversItsOwn ==
  \A s \in severed : s[2] = own[s[1]].identity \/ own[s[1]].fd \in before[s[1]]
=============================================================================
