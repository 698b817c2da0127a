------------------------------ MODULE Sockets -------------------------------
(***************************************************************************)
(* IXLandSystem/kernel/net/network.c: the socket table, and connect, send, *)
(* recv, listen and shutdown on top of the host's connections.             *)
(*                                                                         *)
(* The host (Network.framework, external) reports every change of state of *)
(* a connection, the first of which wakes connect; connect gives up when   *)
(* none comes in time.  Entries are used without the table's lock, and no  *)
(* call gives a socket back: only the end of the library frees it.         *)
(*                                                                         *)
(* Programs connect and listen once per socket and use it from one thread  *)
(* at a time; the network is started before the first socket, which socket *)
(* does not require, and stopped when no call is under way.                *)
(***************************************************************************)
EXTENDS Integers, FiniteSets

CONSTANTS
  NetThreads,
  Conns,       \* connections and listeners the host can make
  MaxSockets,  \* IXLAND_MAX_SOCKETS
  NoConn

ASSUME SocketsAssumption == MaxSockets \in Nat /\ NoConn \notin Conns

VARIABLES
  up,        \* network_initialized
  used,      \* used entries of socket_table
  conn,      \* entry.connection
  listener,  \* entry.listener
  npc,       \* what a thread is doing
  subject,   \* the descriptor it does it on
  host,      \* state of each connection at the host
  told       \* connections whose state handler has run, and the outcome

entries == <<used, conn, listener>>
net == <<host, told>>
sockVars == <<up, entries, npc, subject, net>>

Socks == 0 .. MaxSockets - 1

SockInit ==
  /\ up = FALSE
  /\ used = {}
  /\ conn = [s \in Socks |-> NoConn]
  /\ listener = [s \in Socks |-> NoConn]
  /\ npc = [t \in NetThreads |-> "idle"]
  /\ subject = [t \in NetThreads |-> 0]
  /\ host = [c \in Conns |-> "none"]
  /\ told = [c \in Conns |-> "no"]

Does(t, from, to) == npc[t] = from /\ npc' = [npc EXCEPT ![t] = to]
Unused(s) == \A t \in NetThreads : npc[t] # "idle" => subject[t] # s
AllIdle == \A t \in NetThreads : npc[t] = "idle"

Cancelled(S) == [c \in Conns |-> IF c \in S /\ host[c] # "none" THEN "cancelled" ELSE host[c]]
Cleared(f, S) == [s \in Socks |-> IF s \in S THEN NoConn ELSE f[s]]
ConnsOf(S) == {conn[s] : s \in S} \cup {listener[s] : s \in S}

---------------------------------------------------------------------------
(* Start, stop, socket                                                     *)

network_init ==
  /\ ~up /\ AllIdle /\ used = {} /\ up' = TRUE
  /\ used' = {} /\ conn' = Cleared(conn, Socks) /\ listener' = Cleared(listener, Socks)
  /\ UNCHANGED <<npc, subject, net>>

network_deinit ==
  /\ up /\ AllIdle /\ up' = FALSE
  /\ host' = Cancelled(ConnsOf(used))
  /\ used' = {} /\ conn' = Cleared(conn, Socks) /\ listener' = Cleared(listener, Socks)
  /\ UNCHANGED <<npc, subject, told>>

\* ixland_socket_alloc: the first free entry.
socket(t) ==
  /\ Does(t, "idle", "domain")
  /\ \E s \in Socks \ used :
       /\ \A r \in Socks \ used : s <= r
       /\ used' = used \cup {s} /\ subject' = [subject EXCEPT ![t] = s]
  /\ UNCHANGED <<up, conn, listener, net>>

SocketOpened(t) ==
  /\ Does(t, "domain", "idle")
  /\ UNCHANGED <<up, entries, subject, net>>

\* EAFNOSUPPORT: ixland_socket_free.
SocketRefused(t) ==
  /\ Does(t, "domain", "idle")
  /\ used' = used \ {subject[t]}
  /\ host' = Cancelled(ConnsOf({subject[t]}))
  /\ conn' = Cleared(conn, {subject[t]}) /\ listener' = Cleared(listener, {subject[t]})
  /\ UNCHANGED <<up, subject, told>>

---------------------------------------------------------------------------
(* connect                                                                 *)

Made(c) == host' = [host EXCEPT ![c] = "starting"] /\ told' = [told EXCEPT ![c] = "no"]

connect(t, s, c) ==
  /\ s \in used /\ Unused(s) /\ conn[s] = NoConn
  /\ host[c] \in {"none", "cancelled"} /\ c \notin ConnsOf(used)
  /\ Does(t, "idle", "wait") /\ subject' = [subject EXCEPT ![t] = s]
  /\ conn' = [conn EXCEPT ![s] = c]
  /\ Made(c)
  /\ UNCHANGED <<up, used, listener>>

\* The semaphore was signalled; connect_error holds the latest outcome.
ConnectWoken(t) ==
  /\ npc[t] = "wait" /\ told[conn[subject[t]]] # "no"
  /\ Does(t, "wait", IF told[conn[subject[t]]] = "bad" THEN "undo" ELSE "idle")
  /\ UNCHANGED <<up, entries, subject, net>>

ConnectTimesOut(t) ==
  /\ npc[t] = "wait" /\ told[conn[subject[t]]] = "no"
  /\ Does(t, "wait", "undo")
  /\ UNCHANGED <<up, entries, subject, net>>

\* Faulty: the connection is left to itself.
LeftAlone(c) == host
GivenUp(c) == Cancelled({c})

\* ETIMEDOUT or ECONNREFUSED: cancel it and forget it.
ConnectUndone(t) ==
  /\ Does(t, "undo", "idle")
  /\ host' = GivenUp(conn[subject[t]])
  /\ conn' = Cleared(conn, {subject[t]})
  /\ UNCHANGED <<up, used, listener, subject, told>>

---------------------------------------------------------------------------
(* The other calls                                                         *)

listen(t, s, c) ==
  /\ npc[t] = "idle" /\ s \in used /\ Unused(s) /\ listener[s] = NoConn
  /\ host[c] \in {"none", "cancelled"} /\ c \notin ConnsOf(used)
  /\ listener' = [listener EXCEPT ![s] = c]
  /\ Made(c)
  /\ UNCHANGED <<up, used, conn, npc, subject>>

\* send and recv wait for the host, for ever if need be.
Transfer(t, s) ==
  /\ s \in used /\ Unused(s) /\ conn[s] # NoConn
  /\ Does(t, "idle", "transfer") /\ subject' = [subject EXCEPT ![t] = s]
  /\ UNCHANGED <<up, entries, net>>

TransferEnds(t) ==
  /\ Does(t, "transfer", "idle")
  /\ UNCHANGED <<up, entries, subject, net>>

shutdown(t, s) ==
  /\ npc[t] = "idle" /\ s \in used /\ Unused(s) /\ conn[s] # NoConn
  /\ host' = Cancelled({conn[s]})
  /\ conn' = Cleared(conn, {s})
  /\ UNCHANGED <<up, used, listener, npc, subject, told>>

---------------------------------------------------------------------------
(* The host, external                                                      *)

HostReports(c) ==
  \/ /\ host[c] = "starting"
     /\ \E state \in {"preparing", "ready", "failed"} :
          /\ host' = [host EXCEPT ![c] = state]
          /\ told' = [told EXCEPT ![c] = IF state = "failed" THEN "bad" ELSE "good"]
  \/ /\ host[c] = "preparing"
     /\ \E state \in {"ready", "failed"} :
          /\ host' = [host EXCEPT ![c] = state]
          /\ told' = [told EXCEPT ![c] = IF state = "failed" THEN "bad" ELSE "good"]

SockNext ==
  \/ network_init \/ network_deinit
  \/ \E t \in NetThreads :
       \/ socket(t) \/ SocketOpened(t) \/ SocketRefused(t)
       \/ ConnectWoken(t) \/ ConnectTimesOut(t) \/ ConnectUndone(t) \/ TransferEnds(t)
       \/ \E s \in Socks :
            \/ Transfer(t, s) \/ shutdown(t, s)
            \/ \E c \in Conns : connect(t, s, c) \/ listen(t, s, c)
  \/ \E c \in Conns : HostReports(c) /\ UNCHANGED <<up, entries, npc, subject>>

SockSpec == SockInit /\ [][SockNext]_sockVars

---------------------------------------------------------------------------
Refs(c) == Cardinality({s \in used : conn[s] = c}) + Cardinality({s \in used : listener[s] = c})

\* What the host keeps open, one entry in use refers to, through refusals,
\* timeouts that race with a late answer, shutdown and the end of the library;
\* an entry that is free refers to nothing, and one in use to nothing cancelled.
ConnectionsOwned ==
  /\ \A c \in Conns : Refs(c) = IF host[c] \in {"none", "cancelled"} THEN 0 ELSE 1
  /\ \A s \in Socks \ used : conn[s] = NoConn /\ listener[s] = NoConn
=============================================================================
