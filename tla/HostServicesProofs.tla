------------------------- MODULE HostServicesProofs -------------------------
(***************************************************************************)
(* Proofs about the components that stand between a program and the host:  *)
(* Sockets, Epoll, Poll, the ssh command, the reading of directories, the  *)
(* WebAssembly engine and the user database, for any number of threads,    *)
(* descriptors, connections and names.                                     *)
(***************************************************************************)
EXTENDS Sockets, Epoll, Poll, Ssh, Dirs, Wasm, Users, SequenceFacts

-----------------------------------------------------------------------------
(* Sockets.  Every connection the host keeps open is named in one place of *)
(* the table, and every name there is of one; then to count references is  *)
(* to look for a name.                                                     *)
HostStates == {"none", "starting", "preparing", "ready", "failed", "cancelled"}

SockTypeOK ==
  /\ used \subseteq Socks
  /\ conn \in [Socks -> Conns \cup {NoConn}] /\ listener \in [Socks -> Conns \cup {NoConn}]
  /\ npc \in [NetThreads -> {"idle", "domain", "wait", "undo", "transfer"}]
  /\ DOMAIN subject = NetThreads
  /\ \A t \in NetThreads : npc[t] # "idle" => subject[t] \in Socks
  /\ host \in [Conns -> HostStates]

Over(c) == host[c] \in {"none", "cancelled"}

Named ==
  /\ \A s \in Socks \ used : conn[s] = NoConn /\ listener[s] = NoConn
  /\ \A r, s \in Socks : conn[r] = conn[s] /\ conn[r] # NoConn => r = s
  /\ \A r, s \in Socks : listener[r] = listener[s] /\ listener[r] # NoConn => r = s
  /\ \A r, s \in Socks : conn[r] = listener[s] => conn[r] = NoConn
  /\ \A c \in Conns : ~Over(c) <=> \E s \in Socks : conn[s] = c \/ listener[s] = c

SockInv == SockTypeOK /\ Named

LEMMA SockInitInv == SockInit => SockInv
<1> SUFFICES ASSUME SockInit PROVE SockInv
  OBVIOUS
<1>1. SockTypeOK
  BY DEF SockInit, SockTypeOK, HostStates
<1>2. Named
  BY SocketsAssumption DEF SocketsAssumption, SockInit, Named, Over
<1> QED
  BY <1>1, <1>2 DEF SockInv

\* Names are taken away, and the host drops exactly what had them.
LEMMA Dropped ==
  ASSUME SockInv, NEW R \in SUBSET Socks, NEW L \in SUBSET Socks,
         conn' = Cleared(conn, R), listener' = Cleared(listener, L),
         host' \in [Conns -> HostStates],
         \A c \in Conns :
           host'[c] = IF (\E s \in R : conn[s] = c) \/ (\E s \in L : listener[s] = c)
                      THEN "cancelled" ELSE host[c],
         \A s \in Socks \ used' : s \notin used \/ s \in R \cap L
  PROVE  Named'
<1>1. /\ \A s \in Socks : conn'[s] = IF s \in R THEN NoConn ELSE conn[s]
      /\ \A s \in Socks : listener'[s] = IF s \in L THEN NoConn ELSE listener[s]
  BY DEF Cleared
<1>2. \A s \in Socks \ used' : conn'[s] = NoConn /\ listener'[s] = NoConn
  BY <1>1 DEF SockInv, Named
<1>3. /\ \A r, s \in Socks : conn'[r] = conn'[s] /\ conn'[r] # NoConn => r = s
      /\ \A r, s \in Socks : listener'[r] = listener'[s] /\ listener'[r] # NoConn => r = s
      /\ \A r, s \in Socks : conn'[r] = listener'[s] => conn'[r] = NoConn
  BY <1>1 DEF SockInv, Named
<1>4. ASSUME NEW c \in Conns
      PROVE  ~Over(c)' <=> \E s \in Socks : conn'[s] = c \/ listener'[s] = c
  <2>1. c # NoConn
    BY SocketsAssumption DEF SocketsAssumption
  <2>2. CASE \E s \in R : conn[s] = c
    BY <1>1, <2>1, <2>2 DEF SockInv, Named, Over
  <2>3. CASE \E s \in L : listener[s] = c
    BY <1>1, <2>1, <2>3 DEF SockInv, Named, Over
  <2>4. CASE ~(\E s \in R : conn[s] = c) /\ ~(\E s \in L : listener[s] = c)
    <3>1. Over(c)' <=> Over(c)
      BY <2>4 DEF Over
    <3>2. \A s \in Socks : (conn'[s] = c \/ listener'[s] = c) <=> (conn[s] = c \/ listener[s] = c)
      BY <1>1, <2>1, <2>4
    <3> QED
      BY <3>1, <3>2 DEF SockInv, Named
  <2> QED
    BY <2>2, <2>3, <2>4
<1> QED
  BY <1>2, <1>3, <1>4 DEF Named

\* What is dropped is cancelled: it was not new, as it had a name.
LEMMA Cancels ==
  ASSUME SockInv, NEW S, \A c \in Conns : c \in S => ~Over(c)
  PROVE  /\ Cancelled(S) \in [Conns -> HostStates]
         /\ \A c \in Conns : Cancelled(S)[c] = IF c \in S THEN "cancelled" ELSE host[c]
  BY DEF Cancelled, Over, HostStates, SockInv, SockTypeOK

\* A new connection or listener gets its first name.
LEMMA Added ==
  ASSUME SockInv, NEW s \in used, NEW c \in Conns, Over(c), Made(c), used' = used,
         \/ conn[s] = NoConn /\ conn' = [conn EXCEPT ![s] = c] /\ listener' = listener
         \/ listener[s] = NoConn /\ listener' = [listener EXCEPT ![s] = c] /\ conn' = conn
  PROVE  Named'
<1>1. /\ c # NoConn /\ s \in Socks /\ \A r \in Socks : conn[r] # c /\ listener[r] # c
      /\ host' = [host EXCEPT ![c] = "starting"]
  BY SocketsAssumption DEF SocketsAssumption, Made, SockInv, SockTypeOK, Named
<1>2. \A d \in Conns : Over(d)' <=> Over(d) /\ d # c
  BY <1>1 DEF Over, SockInv, SockTypeOK
<1>3. \/ /\ \A r \in Socks : conn'[r] = IF r = s THEN c ELSE conn[r]
         /\ listener' = listener /\ conn[s] = NoConn
      \/ /\ \A r \in Socks : listener'[r] = IF r = s THEN c ELSE listener[r]
         /\ conn' = conn /\ listener[s] = NoConn
  BY <1>1 DEF SockInv, SockTypeOK
<1>4. \A r \in Socks \ used' : conn'[r] = NoConn /\ listener'[r] = NoConn
  BY <1>3 DEF SockInv, Named
<1>5. /\ \A q, r \in Socks : conn'[q] = conn'[r] /\ conn'[q] # NoConn => q = r
      /\ \A q, r \in Socks : listener'[q] = listener'[r] /\ listener'[q] # NoConn => q = r
      /\ \A q, r \in Socks : conn'[q] = listener'[r] => conn'[q] = NoConn
  BY <1>1, <1>3 DEF SockInv, Named
<1>6. ASSUME NEW d \in Conns
      PROVE  ~Over(d)' <=> \E r \in Socks : conn'[r] = d \/ listener'[r] = d
  <2>1. CASE d = c
    BY <1>1, <1>2, <1>3, <2>1
  <2>2. CASE d # c
    <3>1. d # NoConn
      BY SocketsAssumption DEF SocketsAssumption
    <3>2. \A r \in Socks : (conn'[r] = d \/ listener'[r] = d) <=> (conn[r] = d \/ listener[r] = d)
      BY <1>1, <1>3, <2>2, <3>1
    <3> QED
      BY <1>2, <2>2, <3>2 DEF SockInv, Named
  <2> QED
    BY <2>1, <2>2
<1> QED
  BY <1>4, <1>5, <1>6 DEF Named

LEMMA SockTypeStep == SockInv /\ [SockNext]_sockVars => SockTypeOK'
<1> SUFFICES ASSUME SockInv, [SockNext]_sockVars PROVE SockTypeOK'
  OBVIOUS
<1>1. /\ used' \subseteq Socks
      /\ conn' \in [Socks -> Conns \cup {NoConn}] /\ listener' \in [Socks -> Conns \cup {NoConn}]
  <2>1. \A S : /\ Cleared(conn, S) \in [Socks -> Conns \cup {NoConn}]
               /\ Cleared(listener, S) \in [Socks -> Conns \cup {NoConn}]
    BY DEF Cleared, SockInv, SockTypeOK
  <2>2. CASE network_init \/ network_deinit
    BY <2>1, <2>2 DEF network_init, network_deinit
  <2>3. ASSUME NEW t \in NetThreads, socket(t) \/ SocketRefused(t)
        PROVE  <1>1!:
    BY <2>1, <2>3 DEF socket, SocketRefused, SockInv, SockTypeOK
  <2>4. ASSUME NEW t \in NetThreads,
               \/ SocketOpened(t) \/ ConnectWoken(t) \/ ConnectTimesOut(t) \/ TransferEnds(t)
               \/ \E s \in Socks : Transfer(t, s)
        PROVE  <1>1!:
    BY <2>4 DEF SocketOpened, ConnectWoken, ConnectTimesOut, TransferEnds, Transfer, entries,
                SockInv, SockTypeOK
  <2>5. ASSUME NEW t \in NetThreads, ConnectUndone(t) \/ \E s \in Socks : shutdown(t, s)
        PROVE  <1>1!:
    <3>1. \E S : used' = used /\ listener' = listener /\ conn' = Cleared(conn, S)
      BY <2>5 DEF ConnectUndone, shutdown
    <3> QED
      BY <2>1, <3>1 DEF SockInv, SockTypeOK
  <2>6. ASSUME NEW t \in NetThreads, NEW s \in Socks, NEW c \in Conns,
               connect(t, s, c) \/ listen(t, s, c)
        PROVE  <1>1!:
    BY <2>6 DEF connect, listen, SockInv, SockTypeOK
  <2>7. ASSUME UNCHANGED entries PROVE <1>1!:
    BY <2>7 DEF entries, SockInv, SockTypeOK
  <2> QED
    BY <2>2, <2>3, <2>4, <2>5, <2>6, <2>7 DEF SockNext, sockVars, entries
<1>2. /\ npc' \in [NetThreads -> {"idle", "domain", "wait", "undo", "transfer"}]
      /\ \A t \in NetThreads : npc'[t] # "idle" => subject'[t] \in Socks
      /\ DOMAIN subject' = NetThreads
  <2>1. ASSUME NEW t \in NetThreads, NEW from, NEW to \in {"idle", "domain", "wait", "undo", "transfer"},
               Does(t, from, to),
               \/ subject' = subject /\ from # "idle"
               \/ \E s \in Socks : subject' = [subject EXCEPT ![t] = s]
        PROVE  <1>2!:
    BY <2>1 DEF Does, SockInv, SockTypeOK
  <2>2. ASSUME UNCHANGED <<npc, subject>> PROVE <1>2!:
    BY <2>2 DEF SockInv, SockTypeOK
  <2>3. ASSUME NEW t \in NetThreads, socket(t)
        PROVE  <1>2!:
    BY <2>1, <2>3 DEF socket
  <2>4. ASSUME NEW t \in NetThreads, SocketOpened(t) \/ SocketRefused(t)
        PROVE  <1>2!:
    BY <2>1, <2>4 DEF SocketOpened, SocketRefused
  <2>5. ASSUME NEW t \in NetThreads,
               ConnectWoken(t) \/ ConnectTimesOut(t) \/ ConnectUndone(t) \/ TransferEnds(t)
        PROVE  <1>2!:
    BY <2>1, <2>5 DEF ConnectWoken, ConnectTimesOut, ConnectUndone, TransferEnds
  <2>6. ASSUME NEW t \in NetThreads, NEW s \in Socks,
               Transfer(t, s) \/ \E c \in Conns : connect(t, s, c)
        PROVE  <1>2!:
    BY <2>1, <2>6 DEF Transfer, connect
  <2>7. ASSUME NEW t \in NetThreads, NEW s \in Socks,
               shutdown(t, s) \/ \E c \in Conns : listen(t, s, c)
        PROVE  <1>2!:
    BY <2>2, <2>7 DEF shutdown, listen
  <2> QED
    BY <2>2, <2>3, <2>4, <2>5, <2>6, <2>7 DEF SockNext, network_init, network_deinit, sockVars
<1>3. host' \in [Conns -> HostStates]
  <2>1. \A S : Cancelled(S) \in [Conns -> HostStates]
    BY DEF Cancelled, HostStates, SockInv, SockTypeOK
  <2>2. ASSUME host' = host PROVE <1>3!:
    BY <2>2 DEF SockInv, SockTypeOK
  <2>3. ASSUME NEW c \in Conns, Made(c) PROVE <1>3!:
    BY <2>3 DEF Made, HostStates, SockInv, SockTypeOK
  <2>4. ASSUME NEW c \in Conns, HostReports(c) PROVE <1>3!:
    BY <2>4 DEF HostReports, HostStates, SockInv, SockTypeOK
  <2>5. CASE network_init \/ network_deinit
    BY <2>1, <2>2, <2>5 DEF network_init, network_deinit, net
  <2>6. ASSUME NEW t \in NetThreads,
               \/ socket(t) \/ SocketOpened(t) \/ ConnectWoken(t) \/ ConnectTimesOut(t)
               \/ TransferEnds(t) \/ \E s \in Socks : Transfer(t, s)
        PROVE  <1>3!:
    BY <2>2, <2>6
       DEF socket, SocketOpened, ConnectWoken, ConnectTimesOut, TransferEnds, Transfer, net
  <2>7. ASSUME NEW t \in NetThreads,
               SocketRefused(t) \/ ConnectUndone(t) \/ \E s \in Socks : shutdown(t, s)
        PROVE  <1>3!:
    BY <2>1, <2>7 DEF SocketRefused, ConnectUndone, GivenUp, shutdown
  <2>8. ASSUME NEW t \in NetThreads, NEW s \in Socks, NEW c \in Conns,
               connect(t, s, c) \/ listen(t, s, c)
        PROVE  <1>3!:
    BY <2>3, <2>8 DEF connect, listen
  <2> QED
    BY <2>2, <2>4, <2>5, <2>6, <2>7, <2>8 DEF SockNext, sockVars, net
<1> QED
  BY <1>1, <1>2, <1>3 DEF SockTypeOK

LEMMA SockNextInv == SockInv /\ [SockNext]_sockVars => SockInv'
<1> SUFFICES ASSUME SockInv, [SockNext]_sockVars PROVE SockInv'
  OBVIOUS
<1>1. ASSUME Named' PROVE SockInv'
  BY <1>1, SockTypeStep DEF SockInv
\* Whatever has a name is not over.
<1>2. \A s \in Socks, c \in Conns : conn[s] = c \/ listener[s] = c => ~Over(c)
  BY DEF SockInv, Named
<1>3. ASSUME UNCHANGED <<used, conn, listener, host>> PROVE Named'
  BY <1>3 DEF SockInv, Named, Over
<1>4. CASE network_init
  <2>1. \A s \in Socks : conn[s] = NoConn /\ listener[s] = NoConn
    BY <1>4 DEF network_init, SockInv, Named
  <2>2. \A c \in Conns : Over(c)
    BY <2>1, SocketsAssumption DEF SocketsAssumption, SockInv, Named
  <2> QED
    BY <1>1, <1>4, <2>1, <2>2, SocketsAssumption
    DEF SocketsAssumption, network_init, net, Cleared, Named, Over
<1>5. CASE network_deinit
  <2>1. \A c \in Conns : c \in ConnsOf(used) <=>
          (\E s \in Socks : conn[s] = c) \/ (\E s \in Socks : listener[s] = c)
    BY SocketsAssumption DEF SocketsAssumption, ConnsOf, SockInv, SockTypeOK, Named
  <2>2. /\ host' = Cancelled(ConnsOf(used)) /\ used' = {}
        /\ conn' = Cleared(conn, Socks) /\ listener' = Cleared(listener, Socks)
    BY <1>5 DEF network_deinit
  <2>3. \A c \in Conns : c \in ConnsOf(used) => ~Over(c)
    BY <1>2, <2>1
  <2> QED
    BY <1>1, <2>1, <2>2, <2>3, Cancels, Dropped
<1>6. ASSUME NEW t \in NetThreads, socket(t) PROVE SockInv'
  BY <1>1, <1>6 DEF socket, net, SockInv, Named, Over
<1>7. ASSUME NEW t \in NetThreads, SocketOpened(t) \/ ConnectWoken(t) \/ ConnectTimesOut(t) \/ TransferEnds(t)
      PROVE  SockInv'
  BY <1>1, <1>3, <1>7 DEF SocketOpened, ConnectWoken, ConnectTimesOut, TransferEnds, entries, net
<1>8. ASSUME NEW t \in NetThreads, SocketRefused(t) PROVE SockInv'
  <2>1. PICK s \in Socks : s = subject[t]
    BY <1>8 DEF SocketRefused, Does, SockInv, SockTypeOK
  <2>2. \A c \in Conns : c \in ConnsOf({s}) <=>
          (\E r \in {s} : conn[r] = c) \/ (\E r \in {s} : listener[r] = c)
    BY DEF ConnsOf
  <2>3. \A c \in Conns : c \in ConnsOf({s}) => ~Over(c)
    BY <1>2, <2>2
  <2>4. /\ host' = Cancelled(ConnsOf({s})) /\ used' = used \ {s}
        /\ conn' = Cleared(conn, {s}) /\ listener' = Cleared(listener, {s})
    BY <1>8, <2>1 DEF SocketRefused
  <2>5. /\ host' \in [Conns -> HostStates]
        /\ \A c \in Conns :
             host'[c] = IF (\E r \in {s} : conn[r] = c) \/ (\E r \in {s} : listener[r] = c)
                        THEN "cancelled" ELSE host[c]
    <3>1. /\ Cancelled(ConnsOf({s})) \in [Conns -> HostStates]
          /\ \A c \in Conns : Cancelled(ConnsOf({s}))[c] =
               IF c \in ConnsOf({s}) THEN "cancelled" ELSE host[c]
      BY <2>3, Cancels
    <3> QED
      BY <2>2, <2>4, <3>1
  <2>6. \A r \in Socks \ used' : r \notin used \/ r \in {s} \cap {s}
    BY <2>4
  <2>7. {s} \in SUBSET Socks
    OBVIOUS
  <2>8. Named'
    BY <2>4, <2>5, <2>6, <2>7, Dropped
  <2> QED
    BY <1>1, <2>8
<1>9. ASSUME NEW t \in NetThreads, ConnectUndone(t) PROVE SockInv'
  <2>1. PICK s \in Socks : s = subject[t]
    BY <1>9 DEF ConnectUndone, Does, SockInv, SockTypeOK
  <2>2. /\ host' = Cancelled({conn[s]}) /\ conn' = Cleared(conn, {s})
        /\ used' = used /\ listener' = Cleared(listener, {})
    BY <1>9, <2>1 DEF ConnectUndone, GivenUp, Cleared, SockInv, SockTypeOK
  <2>3. \A c \in Conns : c \in {conn[s]} => ~Over(c)
    BY <1>2
  <2> QED
    BY <1>1, <2>2, <2>3, Cancels, Dropped
<1>10. ASSUME NEW t \in NetThreads, NEW s \in Socks, shutdown(t, s) PROVE SockInv'
  <2>2. /\ host' = Cancelled({conn[s]}) /\ conn' = Cleared(conn, {s})
        /\ used' = used /\ listener' = Cleared(listener, {})
    BY <1>10 DEF shutdown, Cleared, SockInv, SockTypeOK
  <2>3. \A c \in Conns : c \in {conn[s]} => ~Over(c)
    BY <1>2
  <2> QED
    BY <1>1, <2>2, <2>3, Cancels, Dropped
<1>11. ASSUME NEW t \in NetThreads, NEW s \in Socks, Transfer(t, s) PROVE SockInv'
  BY <1>1, <1>3, <1>11 DEF Transfer, entries, net
<1>12. ASSUME NEW t \in NetThreads, NEW s \in Socks, NEW c \in Conns,
              connect(t, s, c) \/ listen(t, s, c)
       PROVE  SockInv'
  BY <1>1, <1>12, Added DEF connect, listen, Over
<1>13. ASSUME NEW c \in Conns, HostReports(c), UNCHANGED <<up, entries, npc, subject>>
       PROVE  SockInv'
  <2>1. \A d \in Conns : Over(d)' <=> Over(d)
    BY <1>13 DEF HostReports, Over, SockInv, SockTypeOK
  <2> QED
    BY <1>1, <1>13, <2>1 DEF entries, SockInv, Named
<1>14. CASE UNCHANGED sockVars
  BY <1>1, <1>3, <1>14 DEF sockVars, entries, net
<1> QED
  BY <1>4, <1>5, <1>6, <1>7, <1>8, <1>9, <1>10, <1>11, <1>12, <1>13, <1>14 DEF SockNext

(* What the host keeps open is referred to once, by an entry in use; what  *)
(* is over, by none: for any number of threads, connections and entries.   *)
THEOREM ConnectionsAreOwned == SockSpec => []ConnectionsOwned
<1>1. SockInv => ConnectionsOwned
  <2> SUFFICES ASSUME SockInv PROVE ConnectionsOwned
    OBVIOUS
  <2>1. ASSUME NEW c \in Conns
        PROVE  Refs(c) = IF Over(c) THEN 0 ELSE 1
    <3> DEFINE C == {s \in used : conn[s] = c}
               L == {s \in used : listener[s] = c}
    <3>1. c # NoConn
      BY SocketsAssumption DEF SocketsAssumption
    <3>2. CASE Over(c)
      <4>1. C = {} /\ L = {}
        BY <3>2 DEF SockInv, SockTypeOK, Named
      <4> QED
        BY <3>2, <4>1, FS_EmptySet DEF Refs
    <3>3. ASSUME ~Over(c), NEW s \in Socks, conn[s] = c
          PROVE  Refs(c) = 1
      <4>1. C = {s} /\ L = {}
        BY <3>1, <3>3 DEF SockInv, SockTypeOK, Named
      <4>2. Cardinality(C) = 1 /\ Cardinality(L) = 0
        BY <4>1, FS_EmptySet, FS_Singleton
      <4> QED
        BY <4>2 DEF Refs
    <3>4. ASSUME ~Over(c), NEW s \in Socks, listener[s] = c
          PROVE  Refs(c) = 1
      <4>1. C = {} /\ L = {s}
        BY <3>1, <3>4 DEF SockInv, SockTypeOK, Named
      <4>2. Cardinality(C) = 0 /\ Cardinality(L) = 1
        BY <4>1, FS_EmptySet, FS_Singleton
      <4> QED
        BY <4>2 DEF Refs
    <3> QED
      BY <3>2, <3>3, <3>4 DEF SockInv, Named
  <2>2. \A s \in Socks \ used : conn[s] = NoConn /\ listener[s] = NoConn
    BY DEF SockInv, Named
  <2> QED
    BY <2>1, <2>2 DEF ConnectionsOwned, Over
<1> QED
  BY <1>1, SockInitInv, SockNextInv, PTL DEF SockSpec

-----------------------------------------------------------------------------
(* Epoll.  Until a descriptor is deleted or refused, its knotes point to   *)
(* its item and to no other; an item belongs to one descriptor, so that no *)
(* call on another one changes what it asks for.                           *)
EpTypeOK ==
  /\ open \subseteq EpFds /\ armed \subseteq EpFds
  /\ items \in [EpFds -> Items \cup {NoItem}]
  /\ wants \in [Items -> SUBSET Filters]
  /\ knote \in [EpFds -> [Filters -> Items \cup {NoItem}]]
  /\ got \in [Waiters -> SUBSET [fd : EpFds, filter : Filters, udata : Items]]
  /\ DOMAIN loose = Waiters

Pointing ==
  /\ \A fd, fe \in EpFds : items[fd] = items[fe] /\ items[fd] # NoItem => fd = fe
  /\ \A fd \in EpFds \ dropped : \A f \in Filters : knote[fd][f] \in {NoItem, items[fd]}

Complete ==
  \A fd \in armed :
    items[fd] # NoItem /\ \A f \in Filters \cap wants[items[fd]] : knote[fd][f] = items[fd]

ToldOf(w) == \A e \in got[w] : items[e.fd] = e.udata \/ e.fd \in loose[w]

EpInv == EpTypeOK /\ Pointing /\ Complete /\ \A w \in Waiters : ToldOf(w)

LEMMA EpInitInv == EpInit => EpInv
<1> SUFFICES ASSUME EpInit PROVE EpInv
  OBVIOUS
<1>1. EpTypeOK /\ Pointing
  BY DEF EpInit, EpTypeOK, Pointing
<1>2. Complete /\ \A w \in Waiters : ToldOf(w)
  BY DEF EpInit, Complete, ToldOf
<1> QED
  BY <1>1, <1>2 DEF EpInv

\* What EV_ADD does to the knotes of a descriptor.
LEMMA ArmedKnotes ==
  ASSUME EpTypeOK, NEW fd \in EpFds, NEW i \in Items, NEW filters
  PROVE  /\ Armed(fd, filters, i) \in [EpFds -> [Filters -> Items \cup {NoItem}]]
         /\ \A f \in Filters : Armed(fd, filters, i)[fd][f] = IF f \in filters THEN i ELSE knote[fd][f]
         /\ \A fe \in EpFds \ {fd} : Armed(fd, filters, i)[fe] = knote[fe]
  BY DEF EpTypeOK, Armed

LEMMA CtlAddStep ==
  ASSUME EpInv, NEW fd \in EpFds, NEW i \in Items, NEW events \in Asked, CtlAdd(fd, i, events)
  PROVE  EpInv'
<1>1. /\ items[fd] = NoItem /\ items' = [items EXCEPT ![fd] = i] /\ i # NoItem
      /\ wants' = [wants EXCEPT ![i] = events] /\ events \subseteq Filters
      /\ knote' = Armed(fd, events \cap Filters, i) /\ armed' = armed \cup {fd}
      /\ UNCHANGED <<open, got, dropped, loose>>
      /\ \A fe \in EpFds : items[fe] # i
  BY EpollAssumption DEF EpollAssumption, CtlAdd, Live, Filters, epoll_build_kevents
<1>2. EpTypeOK'
  BY <1>1, ArmedKnotes DEF EpInv, EpTypeOK
<1>3. Pointing'
  BY <1>1, ArmedKnotes DEF EpInv, EpTypeOK, Pointing
<1>4. ASSUME NEW fe \in armed'
      PROVE  items'[fe] # NoItem /\ \A f \in Filters \cap wants'[items'[fe]] : knote'[fe][f] = items'[fe]
  <2>1. CASE fe = fd
    BY <1>1, <2>1, ArmedKnotes DEF EpInv, EpTypeOK
  <2>2. CASE fe # fd
    <3>1. fe \in armed /\ fe \in EpFds /\ items'[fe] = items[fe] /\ items[fe] # NoItem
      BY <1>1, <1>4, <2>2 DEF EpInv, EpTypeOK, Complete
    <3>2. items[fe] \in Items /\ items[fe] # i
      BY <1>1, <3>1 DEF EpInv, EpTypeOK
    <3>3. wants'[items[fe]] = wants[items[fe]] /\ knote'[fe] = knote[fe]
      BY <1>1, <2>2, <3>1, <3>2, ArmedKnotes DEF EpInv, EpTypeOK
    <3> QED
      BY <3>1, <3>3 DEF EpInv, Complete
  <2> QED
    BY <2>1, <2>2
<1>5. ASSUME NEW w \in Waiters, NEW e \in got'[w]
      PROVE  items'[e.fd] = e.udata \/ e.fd \in loose'[w]
  <2>1. e \in got[w] /\ e.fd \in EpFds /\ e.udata \in Items /\ e.udata # NoItem
    BY <1>1, <1>5, EpollAssumption DEF EpInv, EpTypeOK, EpollAssumption
  <2>2. items[e.fd] = e.udata \/ e.fd \in loose[w]
    BY <2>1 DEF EpInv, ToldOf
  <2> QED
    BY <1>1, <2>1, <2>2 DEF EpInv, EpTypeOK
<1> QED
  BY <1>2, <1>3, <1>4, <1>5 DEF EpInv, Complete, ToldOf

\* What is registered for a descriptor that is refused is not looked at.
LEMMA CtlAddFailsStep ==
  ASSUME EpInv, NEW fd \in EpFds, NEW i \in Items, NEW events, CtlAddFails(fd, i, events)
  PROVE  EpInv'
<1>1. PICK filters : knote' = Armed(fd, filters, i)
  BY DEF CtlAddFails
<1>2. /\ armed' = armed \ {fd} /\ dropped' = dropped \cup {fd}
      /\ loose' = [w \in Waiters |-> loose[w] \cup {fd}] /\ UNCHANGED <<open, items, wants, got>>
  BY DEF CtlAddFails, Drops
<1>3. knote' \in [EpFds -> [Filters -> Items \cup {NoItem}]] /\ \A fe \in EpFds \ {fd} : knote'[fe] = knote[fe]
  BY <1>1, ArmedKnotes DEF EpInv
<1>4. EpTypeOK'
  BY <1>2, <1>3 DEF EpInv, EpTypeOK
<1>5. Pointing'
  BY <1>2, <1>3 DEF EpInv, Pointing
<1>6. Complete'
  BY <1>2, <1>3 DEF EpInv, EpTypeOK, Complete
<1>7. \A w \in Waiters : ToldOf(w)'
  BY <1>2 DEF EpInv, ToldOf
<1> QED
  BY <1>4, <1>5, <1>6, <1>7 DEF EpInv

LEMMA CtlModStep ==
  ASSUME EpInv, NEW fd \in EpFds, NEW events \in Asked, CtlMod(fd, events)
  PROVE  EpInv'
<1>1. PICK i \in Items : items[fd] = i
  BY DEF CtlMod, EpInv, EpTypeOK
<1>2. /\ wants' = [wants EXCEPT ![i] = events] /\ events \subseteq Filters /\ armed' = armed \cup {fd}
      /\ knote' = Armed(fd, events \cap Filters, i) /\ UNCHANGED <<open, items, got, dropped, loose>>
      /\ i # NoItem
  BY <1>1, EpollAssumption DEF EpollAssumption, CtlMod, Filters, epoll_build_kevents
<1>3. EpTypeOK'
  BY <1>2, ArmedKnotes DEF EpInv, EpTypeOK
<1>4. Pointing'
  BY <1>1, <1>2, ArmedKnotes DEF EpInv, EpTypeOK, Pointing
<1>5. ASSUME NEW fe \in armed'
      PROVE  items[fe] # NoItem /\ \A f \in Filters \cap wants'[items[fe]] : knote'[fe][f] = items[fe]
  <2>1. CASE fe = fd
    BY <1>1, <1>2, <2>1, ArmedKnotes DEF EpInv, EpTypeOK
  <2>2. CASE fe # fd
    <3>1. fe \in armed /\ fe \in EpFds /\ items[fe] # NoItem
      BY <1>2, <1>5, <2>2 DEF EpInv, EpTypeOK, Complete
    <3>2. items[fe] \in Items /\ items[fe] # i
      BY <1>1, <2>2, <3>1 DEF EpInv, EpTypeOK, Pointing
    <3>3. wants'[items[fe]] = wants[items[fe]] /\ knote'[fe] = knote[fe]
      BY <1>2, <2>2, <3>1, <3>2, ArmedKnotes DEF EpInv, EpTypeOK
    <3> QED
      BY <3>1, <3>3 DEF EpInv, Complete
  <2> QED
    BY <2>1, <2>2
<1>6. \A w \in Waiters : ToldOf(w)'
  BY <1>2 DEF EpInv, ToldOf
<1> QED
  BY <1>2, <1>3, <1>4, <1>5, <1>6 DEF EpInv, Complete

\* The item already asks for what kevent refused: it is armed no more.
LEMMA CtlModFailsStep ==
  ASSUME EpInv, NEW fd \in EpFds, NEW events \in Asked, CtlModFails(fd, events)
  PROVE  EpInv'
<1>1. PICK i \in Items : items[fd] = i
  BY DEF CtlModFails, EpInv, EpTypeOK
<1>2. PICK filters : knote' = Armed(fd, filters, i)
  BY <1>1 DEF CtlModFails
<1>3. /\ wants' = [wants EXCEPT ![i] = events] /\ events \subseteq Filters /\ armed' = armed \ {fd}
      /\ UNCHANGED <<open, items, got, dropped, loose>> /\ i # NoItem
  BY <1>1, EpollAssumption DEF EpollAssumption, CtlModFails, Filters
<1>4. EpTypeOK'
  BY <1>2, <1>3, ArmedKnotes DEF EpInv, EpTypeOK
<1>5. Pointing'
  BY <1>1, <1>2, <1>3, ArmedKnotes DEF EpInv, EpTypeOK, Pointing
<1>6. ASSUME NEW fe \in armed'
      PROVE  items[fe] # NoItem /\ \A f \in Filters \cap wants'[items[fe]] : knote'[fe][f] = items[fe]
  <2>1. fe \in armed /\ fe # fd /\ fe \in EpFds /\ items[fe] # NoItem
    BY <1>3, <1>6 DEF EpInv, EpTypeOK, Complete
  <2>2. items[fe] \in Items /\ items[fe] # i
    BY <1>1, <2>1 DEF EpInv, EpTypeOK, Pointing
  <2>3. wants'[items[fe]] = wants[items[fe]] /\ knote'[fe] = knote[fe]
    BY <1>2, <1>3, <2>1, <2>2, ArmedKnotes DEF EpInv, EpTypeOK
  <2> QED
    BY <2>1, <2>3 DEF EpInv, Complete
<1>7. \A w \in Waiters : ToldOf(w)'
  BY <1>3 DEF EpInv, ToldOf
<1> QED
  BY <1>3, <1>4, <1>5, <1>6, <1>7 DEF EpInv, Complete

LEMMA CtlDelStep ==
  ASSUME EpInv, NEW fd \in EpFds, CtlDel(fd)
  PROVE  EpInv'
<1>1. PICK i \in Items : items[fd] = i
  BY DEF CtlDel, EpInv, EpTypeOK
<1>2. /\ items' = [items EXCEPT ![fd] = NoItem] /\ wants' = [wants EXCEPT ![i] = {}] /\ i # NoItem
      /\ armed' = armed \ {fd} /\ dropped' = dropped \cup {fd}
      /\ loose' = [w \in Waiters |-> loose[w] \cup {fd}] /\ UNCHANGED <<open, knote, got>>
  BY <1>1, EpollAssumption DEF EpollAssumption, CtlDel, Drops
<1>3. EpTypeOK'
  BY <1>2 DEF EpInv, EpTypeOK
<1>4. Pointing'
  BY <1>2 DEF EpInv, EpTypeOK, Pointing
<1>5. ASSUME NEW fe \in armed'
      PROVE  items'[fe] # NoItem /\ \A f \in Filters \cap wants'[items'[fe]] : knote'[fe][f] = items'[fe]
  <2>1. fe \in armed /\ fe # fd /\ fe \in EpFds /\ items'[fe] = items[fe] /\ items[fe] # NoItem
    BY <1>2, <1>5 DEF EpInv, EpTypeOK, Complete
  <2>2. items[fe] \in Items /\ items[fe] # i
    BY <1>1, <2>1 DEF EpInv, EpTypeOK, Pointing
  <2>3. wants'[items[fe]] = wants[items[fe]]
    BY <1>2, <2>1, <2>2 DEF EpInv, EpTypeOK
  <2> QED
    BY <1>2, <2>1, <2>3 DEF EpInv, Complete
<1>6. ASSUME NEW w \in Waiters, NEW e \in got'[w]
      PROVE  items'[e.fd] = e.udata \/ e.fd \in loose'[w]
  <2>1. e \in got[w] /\ e.fd \in EpFds
    BY <1>2, <1>6 DEF EpInv, EpTypeOK
  <2>2. items[e.fd] = e.udata \/ e.fd \in loose[w]
    BY <2>1 DEF EpInv, ToldOf
  <2> QED
    BY <1>2, <2>1, <2>2 DEF EpInv, EpTypeOK
<1> QED
  BY <1>3, <1>4, <1>5, <1>6 DEF EpInv, Complete, ToldOf

\* An event that is given is one of a knote.
LEMMA KeventStep ==
  ASSUME EpInv, NEW w \in Waiters, KeventReturns(w)
  PROVE  EpInv'
<1>1. PICK E \in SUBSET {e \in Knotes : e.udata # NoItem} : got' = [got EXCEPT ![w] = E]
  BY DEF KeventReturns
<1>2. loose' = [loose EXCEPT ![w] = dropped] /\ UNCHANGED <<open, items, wants, knote, armed, dropped>>
  BY DEF KeventReturns
<1>3. ASSUME NEW e \in E
      PROVE  /\ e \in [fd : EpFds, filter : Filters, udata : Items]
             /\ items[e.fd] = e.udata \/ e.fd \in dropped
  <2>1. PICK fd \in EpFds, f \in Filters : e = [fd |-> fd, filter |-> f, udata |-> knote[fd][f]]
    BY <1>1 DEF Knotes, EpInv, EpTypeOK
  <2>2. knote[fd][f] # NoItem
    BY <1>1, <2>1
  <2>3. fd \in dropped \/ knote[fd][f] = items[fd]
    BY <2>2 DEF EpInv, Pointing
  <2> QED
    BY <2>1, <2>2, <2>3 DEF EpInv, EpTypeOK
<1>4. EpTypeOK'
  BY <1>1, <1>2, <1>3 DEF EpInv, EpTypeOK
<1>5. \A v \in Waiters : ToldOf(v)'
  BY <1>1, <1>2, <1>3 DEF EpInv, EpTypeOK, ToldOf
<1> QED
  BY <1>2, <1>4, <1>5 DEF EpInv, Pointing, Complete

LEMMA HostCloseStep ==
  ASSUME EpInv, NEW fd \in EpFds, HostClose(fd)
  PROVE  EpInv'
<1>1. /\ armed' = armed \ {fd} /\ dropped' = dropped \ {fd} /\ open' = open \ {fd}
      /\ knote' = [knote EXCEPT ![fd] = [f \in Filters |-> NoItem]]
      /\ UNCHANGED <<items, wants, got, loose>>
  BY DEF HostClose
<1>2. EpTypeOK'
  BY <1>1 DEF EpInv, EpTypeOK
<1>3. Pointing'
  BY <1>1 DEF EpInv, EpTypeOK, Pointing
<1>4. Complete'
  BY <1>1 DEF EpInv, EpTypeOK, Complete
<1>5. \A w \in Waiters : ToldOf(w)'
  BY <1>1 DEF EpInv, ToldOf
<1> QED
  BY <1>2, <1>3, <1>4, <1>5 DEF EpInv

LEMMA EpNextInv == EpInv /\ [EpNext]_epVars => EpInv'
<1> SUFFICES ASSUME EpInv, [EpNext]_epVars PROVE EpInv'
  OBVIOUS
<1>1. ASSUME UNCHANGED <<open, items, wants, knote, got, history>> PROVE EpInv'
  BY <1>1 DEF EpInv, EpTypeOK, Pointing, Complete, ToldOf, history
<1>2. CASE epoll_create1
  BY <1>1, <1>2 DEF epoll_create1
<1>3. ASSUME NEW fd \in EpFds, HostOpen(fd) PROVE EpInv'
  <2>1. open' = open \cup {fd} /\ UNCHANGED <<items, wants, knote, got, armed, dropped, loose>>
    BY <1>3 DEF HostOpen, history
  <2> QED
    BY <2>1 DEF EpInv, EpTypeOK, Pointing, Complete, ToldOf
<1>4. ASSUME NEW w \in Waiters, NEW e \in got[w], CopyEvent(w, e) PROVE EpInv'
  <2>1. got' = [got EXCEPT ![w] = got[w] \ {e}] /\ UNCHANGED <<open, items, wants, knote, armed, dropped, loose>>
    BY <1>4 DEF CopyEvent, history
  <2> QED
    BY <2>1 DEF EpInv, EpTypeOK, Pointing, Complete, ToldOf
<1>5. CASE UNCHANGED epVars
  BY <1>1, <1>5 DEF epVars, history
<1> QED
  BY <1>2, <1>3, <1>4, <1>5, CtlAddStep, CtlAddFailsStep, CtlModStep, CtlModFailsStep, CtlDelStep,
     KeventStep, HostCloseStep
  DEF EpNext

(* With any number of descriptors and waiters, and whatever kevent refuses *)
(* half way: a descriptor whose last epoll_ctl succeeded gets what it asks *)
(* for, and only deleting or refusing it can take the item from under an   *)
(* event.                                                                  *)
THEOREM EpollIsSound == EpSpec => []EpollSound
<1>1. EpInv => EpollSound
  BY DEF EpInv, EpollSound, Complete, ToldOf
<1> QED
  BY <1>1, EpInitInv, EpNextInv, PTL DEF EpSpec

-----------------------------------------------------------------------------
(* Poll.  What waits was asked for, and nothing is reported before.        *)
PollTypeOK ==
  /\ want \in [PollFds -> SUBSET {"r", "w", "x"}]
  /\ opened \subseteq PollFds
  /\ DOMAIN revents = PollFds

PollAsks ==
  \A fd \in PollFds :
    /\ pollCall = "poll" => "x" \notin want[fd]
    /\ pollCall # "poll" => pollCall = "select" /\ want[fd] \subseteq fdSets

\* What was asked for in a change, and in a knote.
AskedIn(c) == c \in PollFds \X {"r", "w", "x"} /\ c[2] \in want[c[1]]
WaitsFor(c) ==
  /\ c \in PollFds \X {"r", "w"}
  /\ c[2] \in want[c[1]] \/ (c[2] = "r" /\ "x" \in want[c[1]])

PollWaits ==
  /\ pollAt = "built" => \A c \in changes : AskedIn(c)
  /\ pollAt = "waiting" => \A c \in changes : WaitsFor(c)
  /\ pollAt \in {"built", "waiting"} =>
       \A fd \in PollFds : revents[fd] \cap {"r", "w", "x"} = {}

PollInv == PollTypeOK /\ PollAsks /\ PollWaits

LEMMA PollInitInv == PollInit => PollInv
  BY DEF PollInit, PollInv, PollTypeOK, PollAsks, PollWaits, Nothing

\* Whatever way a call returns, it asks nothing any more.
LEMMA ReturnsInv ==
  ASSUME PollInv, NEW ret, Returns(ret), DOMAIN revents' = PollFds
  PROVE  PollInv'
  BY DEF PollInv, PollTypeOK, PollAsks, PollWaits, Returns, hostSide, Nothing

LEMMA CopiesInv ==
  ASSUME PollInv, NEW events, NEW errors, Copies(events, errors)
  PROVE  PollInv'
<1>1. Returns(Cardinality(events)) /\ DOMAIN revents' = PollFds
  BY DEF Copies
<1> QED
  BY <1>1, ReturnsInv

\* After the look the changelist holds what was asked of open descriptors.
LEMMA LooksInv ==
  ASSUME PollInv, PollLooks \/ SelectLooks
  PROVE  PollInv'
<1>1. /\ UNCHANGED <<opened, want, pollCall, fdSets>> /\ pollAt' = "built"
      /\ changes' = {c \in opened \X {"r", "w", "x"} : c[2] \in want[c[1]]}
  BY DEF PollLooks, SelectLooks, Looks, hostSide, asking
<1>2. DOMAIN revents' = PollFds /\ \A fd \in PollFds : revents'[fd] \in {{"nval"}, {}}
  BY DEF PollLooks, SelectLooks, Nothing
<1>3. PollTypeOK' /\ PollAsks'
  BY <1>1, <1>2 DEF PollInv, PollTypeOK, PollAsks
<1>4. PollWaits'
  BY <1>1, <1>2 DEF PollInv, PollTypeOK, PollWaits, AskedIn
<1> QED
  BY <1>3, <1>4 DEF PollInv

\* What was asked for in a change is waited for in its knote.
LEMMA RegistersInv ==
  ASSUME PollInv, Registers
  PROVE  PollInv'
<1>1. \A c \in changes : AskedIn(c)
  BY DEF PollInv, PollWaits, Registers
<1>2. UNCHANGED <<opened, want, pollCall, fdSets, revents>> /\ pollAt' = "waiting"
  BY DEF Registers, hostSide, asking
<1>3. ASSUME NEW k \in changes' PROVE WaitsFor(k)'
  <2>1. PICK c \in changes : k = <<c[1], IF c[2] = "x" THEN "r" ELSE c[2]>>
    BY <1>3 DEF Registers
  <2> QED
    BY <1>1, <1>2, <2>1 DEF AskedIn, WaitsFor
<1>4. PollTypeOK' /\ PollAsks'
  BY <1>2 DEF PollInv, PollTypeOK, PollAsks
<1>5. PollWaits'
  BY <1>2, <1>3 DEF PollInv, PollWaits, Registers
<1> QED
  BY <1>4, <1>5 DEF PollInv

LEMMA PollNextInv == PollInv /\ [PollNext]_pollVars => PollInv'
<1> SUFFICES ASSUME PollInv, [PollNext]_pollVars PROVE PollInv'
  OBVIOUS
<1>1. ASSUME NEW asked \in [PollFds -> SUBSET {"r", "w", "x"}], NEW newMask \in Masks,
             poll(asked, newMask)
      PROVE  PollInv'
  BY <1>1 DEF poll, Enters, PollInv, PollTypeOK, PollAsks, PollWaits, hostSide, Nothing
<1>2. ASSUME NEW asked \in [PollFds -> SUBSET {"r", "w", "x"}], NEW newMask \in Masks,
             NEW sets \in SUBSET {"r", "w", "x"}, select(asked, sets, newMask)
      PROVE  PollInv'
  BY <1>2 DEF select, Enters, PollInv, PollTypeOK, PollAsks, PollWaits, hostSide, Nothing
<1>3. CASE SleepsOnly \/ SelectRefuses \/ PollNothingToWaitFor \/ Interrupted
  <2>1. UNCHANGED revents /\ \E ret : Returns(ret)
    BY <1>3 DEF SleepsOnly, SelectRefuses, PollNothingToWaitFor, Interrupted
  <2> QED
    BY <2>1, ReturnsInv DEF PollInv, PollTypeOK
<1>4. CASE RegisterFails \/ KeventReports \/ TimesOut
  <2>1. \E events, errors : Copies(events, errors)
    BY <1>4 DEF RegisterFails, KeventReports, TimesOut
  <2> QED
    BY <2>1, CopiesInv
<1>5. ASSUME NEW fd \in PollFds, PollFdCloses(fd) PROVE PollInv'
  <2>1. UNCHANGED <<pollAt, asking, revents>> /\ changes' \subseteq changes /\ opened' \subseteq opened
    BY <1>5 DEF PollFdCloses
  <2> QED
    BY <2>1 DEF PollInv, PollTypeOK, PollAsks, PollWaits, asking, AskedIn, WaitsFor
<1>6. ASSUME NEW fd \in PollFds, PollFdOpens(fd) PROVE PollInv'
  BY <1>6 DEF PollFdOpens, PollInv, PollTypeOK, PollAsks, PollWaits, asking, AskedIn, WaitsFor
<1>7. ASSUME NEW fd \in PollFds, NEW event \in {"r", "w", "x"}, BecomesReady(fd, event)
      PROVE  PollInv'
  BY <1>7 DEF BecomesReady, PollInv, PollTypeOK, PollAsks, PollWaits, asking, AskedIn, WaitsFor
<1>8. CASE UNCHANGED pollVars
  BY <1>8 DEF pollVars, hostSide, asking, PollInv, PollTypeOK, PollAsks, PollWaits, AskedIn, WaitsFor
<1> QED
  BY <1>1, <1>2, <1>3, <1>4, <1>5, <1>6, <1>7, <1>8, LooksInv, RegistersInv DEF PollNext

\* Of finitely many descriptors there are finitely many events.
LEMMA EventsAreFinite ==
  ASSUME PollInv, pollAt = "waiting"
  PROVE  IsFiniteSet({Brings(c) : c \in Events})
<1>1. IsFiniteSet({"r", "w", "x"})
  <2>1. IsFiniteSet({"r"})
    BY FS_Singleton
  <2>2. IsFiniteSet({"r"} \cup {"w"})
    BY <2>1, FS_AddElement
  <2>3. IsFiniteSet(({"r"} \cup {"w"}) \cup {"x"})
    BY <2>2, FS_AddElement
  <2>4. ({"r"} \cup {"w"}) \cup {"x"} = {"r", "w", "x"}
    OBVIOUS
  <2> QED
    BY <2>3, <2>4
<1>2. IsFiniteSet(PollFds \X {"r", "w", "x"})
  BY <1>1, FS_Product, PollAssumption
<1>3. {Brings(c) : c \in Events} \subseteq PollFds \X {"r", "w", "x"}
  BY DEF PollInv, PollWaits, WaitsFor, Events, Brings
<1> QED
  BY <1>2, <1>3, FS_Subset

\* What a knote is marked as: what it waits for, or urgent data that is there.
LEMMA MarksWhatIsSo ==
  ASSUME PollInv, pollAt = "waiting", NEW c \in Events, NEW e \in Marks(Brings(c)[2])
  PROVE  /\ e \in ready[c[1]] /\ e \in {c[2], "x"} /\ (e = "x" => c[2] = "r")
         /\ pollCall = "poll" => e = c[2]
<1>1. c[2] \in {"r", "w"} /\ c[2] \in ready[c[1]]
  BY DEF PollInv, PollWaits, WaitsFor, Events
<1>2. Brings(c)[2] = IF c[2] = "r" /\ "x" \in ready[c[1]] THEN "x" ELSE c[2]
  BY DEF Brings
<1>3. CASE pollCall = "poll"
  BY <1>1, <1>2, <1>3 DEF Marks, kfilter_to_poll_revents
<1>4. CASE pollCall # "poll"
  BY <1>1, <1>2, <1>4 DEF Marks, MarkedSet
<1> QED
  BY <1>3, <1>4

\* What the events of a call put into the report.
LEMMA ReportsEvents ==
  ASSUME PollInv, pollAt = "waiting", NEW fd \in PollFds, Copies({Brings(c) : c \in Events}, {})
  PROVE  SaysOnly(fd) /\ SaysAll(fd)
<1>1. \A c \in Events : c[1] \in PollFds /\ WaitsFor(c) /\ Brings(c)[1] = c[1]
  BY DEF PollInv, PollWaits, WaitsFor, Events, Brings
<1>2. \A e \in Said(fd) : \E c \in Events : c[1] = fd /\ e \in Marks(Brings(c)[2])
  <2>1. revents[fd] \cap {"r", "w", "x"} = {}
    BY DEF PollInv, PollWaits
  <2>2. ASSUME NEW e \in revents'[fd], e \notin revents[fd]
        PROVE  \E d \in {Brings(c) : c \in Events} : d[1] = fd /\ e \in Marks(d[2])
    BY <2>2 DEF Copies
  <2> QED
    BY <1>1, <2>1, <2>2 DEF Said
<1>3. ASSUME NEW c \in Events, c[1] = fd
      PROVE  Marks(Brings(c)[2]) \cap {"r", "w", "x"} \subseteq Said(fd)
  <2>1. Brings(c) \in {d \in {Brings(b) : b \in Events} : d[1] = fd}
    BY <1>1, <1>3
  <2>2. Marks(Brings(c)[2]) \subseteq revents'[fd]
    BY <2>1 DEF Copies
  <2> QED
    BY <2>2 DEF Said
<1>4. SaysOnly(fd)
  <2>1. ASSUME NEW e \in Said(fd)
        PROVE  /\ e \in ready[fd]
               /\ e = "w" => "w" \in want[fd]
               /\ e \in {"r", "x"} => want[fd] \cap {"r", "x"} # {}
               /\ pollCall = "poll" => e \in want[fd]
    <3>1. PICK c \in Events : c[1] = fd /\ e \in Marks(Brings(c)[2])
      BY <1>2
    <3>2. /\ e \in ready[fd] /\ e \in {c[2], "x"} /\ (e = "x" => c[2] = "r")
          /\ pollCall = "poll" => e = c[2]
      BY <3>1, MarksWhatIsSo
    <3>3. c[2] \in {"r", "w"} /\ (c[2] \in want[fd] \/ (c[2] = "r" /\ "x" \in want[fd]))
      BY <1>1, <3>1 DEF WaitsFor
    <3>4. pollCall = "poll" => "x" \notin want[fd]
      BY DEF PollInv, PollAsks
    <3> QED
      BY <3>2, <3>3, <3>4
  <2> QED
    BY <2>1 DEF SaysOnly
<1>5. SaysAll(fd)
  <2>1. ASSUME NEW c \in changes, c[1] = fd, c[2] \in ready[fd]
        PROVE  \/ c[2] \in Said(fd)
               \/ /\ pollCall = "select" /\ c[2] = "r" /\ "x" \in ready[fd]
                  /\ {"x"} \cap fdSets \subseteq Said(fd)
               \/ pollCall = "select" /\ c[2] \notin fdSets
    <3>1. c \in Events /\ c[2] \in {"r", "w"}
      BY <1>1, <2>1 DEF Events, WaitsFor
    <3>2. Brings(c)[2] = IF c[2] = "r" /\ "x" \in ready[fd] THEN "x" ELSE c[2]
      BY <2>1 DEF Brings
    <3>3. Marks(Brings(c)[2]) \cap {"r", "w", "x"} \subseteq Said(fd)
      BY <1>3, <2>1, <3>1
    <3>4. CASE pollCall = "poll"
      BY <3>1, <3>2, <3>3, <3>4 DEF Marks, kfilter_to_poll_revents
    <3>5. CASE pollCall # "poll"
      <4>1. pollCall = "select"
        BY <3>5 DEF PollInv, PollAsks
      <4> QED
        BY <3>1, <3>2, <3>3, <4>1 DEF Marks, MarkedSet
    <3> QED
      BY <3>4, <3>5
  <2> QED
    BY <2>1 DEF SaysAll
<1> QED
  BY <1>4, <1>5

\* The same of one step: only three ways to end a call have waited.
LEMMA EndsFaithfully ==
  ASSUME PollInv, PollNext, CallEnds
  PROVE  EndsWell
<1>1. \E ret : Returns(ret)
  BY DEF PollNext, CallEnds, poll, select, Enters, SleepsOnly, PollLooks, SelectRefuses,
         SelectLooks,
         Looks, PollNothingToWaitFor, Registers, RegisterFails, KeventReports, TimesOut, Interrupted,
         Copies, PollFdCloses, PollFdOpens, BecomesReady
<1>2. threadMask' = oldmask
  BY <1>1 DEF Returns, Restored
<1>3. ASSUME pollAt = "waiting", count' >= 0
      PROVE  Copies({Brings(c) : c \in Events}, {})
  <2>1. KeventReports \/ TimesOut \/ Interrupted
    BY <1>3 DEF PollNext, CallEnds, poll, select, Enters, SleepsOnly, PollLooks, SelectRefuses,
                SelectLooks, Looks, PollNothingToWaitFor, Registers, RegisterFails,
                PollFdCloses, PollFdOpens, BecomesReady
  <2>2. ~Interrupted
    BY <1>3 DEF Interrupted, Returns
  <2>3. Events = {} => {Brings(c) : c \in Events} = {}
    OBVIOUS
  <2> QED
    BY <2>1, <2>2, <2>3 DEF KeventReports, TimesOut
<1>4. ASSUME pollAt = "waiting", count' >= 0, count' = 0
      PROVE  Events = {}
  <2>1. count' = Cardinality({Brings(c) : c \in Events})
    BY <1>3, <1>4 DEF Copies, Returns
  <2>2. {Brings(c) : c \in Events} = {}
    BY <2>1, <1>4, EventsAreFinite, FS_EmptySet
  <2> QED
    BY <2>2
<1> QED
  BY <1>2, <1>3, <1>4, ReportsEvents DEF EndsWell

(* poll and select are faithful however the call ends, whatever other      *)
(* threads close in the meantime, with the exceptions of select that       *)
(* SaysOnly and SaysAll name.                                              *)
THEOREM PollIsFaithful == PollSpec => PollFaithful
<1>1. PollInv /\ [PollNext]_pollVars => [CallEnds => EndsWell]_pollVars
  BY EndsFaithfully
<1> QED
  BY <1>1, PollInitInv, PollNextInv, PTL DEF PollSpec, PollFaithful

-----------------------------------------------------------------------------
(* Ssh.  Where a key is tried the directory of the keys is open, and when  *)
(* a password is tried it is closed; and the password is held meanwhile.    *)
SshPlaces ==
  {"arguments", "resolve", "connect", "session", "handshake", "verify", "list", "opendir", "keys",
   "channel", "start", "loop", "round", "password", "try", "passed", "end", "done"}

SshTypeOK ==
  /\ sshPlace \in SshPlaces
  /\ owned \in [Things -> {"none", "held", "freed"}]
  /\ by \in {"publickey", "password"}
  /\ round \in Nat /\ rc \in Int

WithKey == sshPlace \in {"keys", "channel", "start", "loop", "round"} /\ by = "publickey"

ByMethod ==
  /\ sshPlace \in {"try", "passed", "end"} => by = "password"
  /\ sshPlace \in {"arguments", "resolve", "connect", "session", "handshake", "verify", "list",
                   "opendir", "keys", "round"} => by = "publickey"
  /\ owned["dirp"] = "held" <=> WithKey
  /\ by = "publickey" /\ sshPlace \notin {"password", "done"} => round <= 3

Opening ==
  /\ sshPlace \in {"arguments", "resolve", "connect", "session"} =>
       \A t \in Things \ {"commandLine"} : owned[t] = "none"
  /\ sshPlace = "arguments" => owned["commandLine"] = "none"
  /\ sshPlace = "keys" => rc < 0
  /\ by = "password" /\ sshPlace \in {"channel", "start", "loop"} => owned["passphrase"] = "held"

SshInv == SshTypeOK /\ ByMethod /\ Opening /\ SshOrderly

LEMMA SshInitInv == SshInit => SshInv
  BY DEF SshInit, SshInv, SshTypeOK, ByMethod, Opening, SshOrderly, WithKey, Needs, Things,
         SshPlaces

LEMMA SshNextInv == SshInv /\ [SshNext]_sshVars => SshInv'
<1> SUFFICES ASSUME SshInv, [SshNext]_sshVars PROVE SshInv'
  OBVIOUS
<1> USE DEF SshInv, SshTypeOK, ByMethod, Opening, SshOrderly, WithKey, Needs, Things, SshPlaces, talking, trying, Leaves, GoesTo, SetTo, Free, GivesUp
<1>1. CASE Usage \/ Arguments
  BY <1>1 DEF Usage, Arguments
<1>2. CASE Resolve
  BY <1>2 DEF Resolve
<1>3. CASE ConnectOne
  BY <1>3 DEF ConnectOne
<1>4. CASE NewSession
  BY <1>4 DEF NewSession
<1>5. CASE Handshake
  BY <1>5 DEF Handshake
<1>6. CASE VerifyHost
  BY <1>6 DEF VerifyHost
<1>7. CASE AuthList
  BY <1>7 DEF AuthList
<1>8. CASE OpenDir
  BY <1>8 DEF OpenDir
<1>9. CASE NextKey
  BY <1>9 DEF NextKey
<1>10. CASE UsesKey
  BY <1>10 DEF UsesKey, OpenChannel, Execute
<1>11. CASE UsesPassword
  BY <1>11 DEF UsesPassword, OpenChannel, Execute
<1>12. CASE LoopTurns
  BY <1>12 DEF LoopTurns
<1>13. CASE LoopEnds
  BY <1>13 DEF LoopEnds, PutBack
<1>14. CASE KeysRound
  <2>1. sshPlace = "round" /\ UNCHANGED <<sock, blocking, authenticated, by>>
    BY <1>14 DEF KeysRound, Connected
  <2>2. CASE Connected({})
    BY <2>1, <2>2 DEF Connected
  <2>3. CASE rc = -2 /\ GoesTo("password") /\ owned' = Free({"dirp"}) /\ UNCHANGED trying
    BY <2>1, <2>3
  <2>4. CASE /\ round' = round + 1 /\ owned' = Free({"dirp"})
             /\ GoesTo(IF round < 3 THEN "opendir" ELSE "password")
    BY <2>1, <2>4
  <2>5. CASE /\ round' = round + 1 /\ owned' = [Free({"dirp"}) EXCEPT !["passphrase"] = "held"]
             /\ sshPlace' \in {IF round < 3 THEN "opendir" ELSE "password", "password"} /\ rc' = rc
    BY <2>1, <2>5
  <2> QED
    BY <1>14, <2>2, <2>3, <2>4, <2>5 DEF KeysRound, Asks
<1>15. CASE Password
  BY <1>15 DEF Password, Asks
<1>16. CASE TryPassword
  BY <1>16 DEF TryPassword
<1>17. CASE PasswordRound
  <2>1. sshPlace = "passed" /\ UNCHANGED <<sock, blocking, authenticated, by>>
    BY <1>17 DEF PasswordRound
  <2>2. CASE Connected({"passphrase"})
    BY <2>1, <2>2 DEF Connected
  <2>3. CASE sshPlace' \in {"try", "end"} /\ UNCHANGED <<owned, rc, round>>
    BY <2>1, <2>3
  <2> QED
    BY <1>17, <2>2, <2>3 DEF PasswordRound, Asks
<1>18. CASE SshEnd
  BY <1>18 DEF SshEnd
<1>19. CASE UNCHANGED sshVars
  BY <1>19 DEF sshVars
<1> QED
  BY <1>1, <1>2, <1>3, <1>4, <1>5, <1>6, <1>7, <1>8, <1>9, <1>10, <1>11, <1>12, <1>13, <1>14, <1>15, <1>16, <1>17, <1>18, <1>19
     DEF SshNext

(* Through all its tries ssh uses and frees nothing it has freed, and      *)
(* whatever failed gives the application its standard input back.          *)
THEOREM SshIsOrderly == SshSpec => []SshOrderly
<1>1. SshInv => SshOrderly
  BY DEF SshInv
<1> QED
  BY <1>1, SshInitInv, SshNextInv, PTL DEF SshSpec

-----------------------------------------------------------------------------
(* Dirs.  A scan stands at a slot: no record before it comes again, and    *)
(* what the host's file has passed beyond it is still in the stream.       *)
DirsTypeOK ==
  /\ dirOffset \in Nat /\ hostOffset \in Nat /\ latest \in Nat
  /\ stream \subseteq DirSlots /\ steady \subseteq Present
  /\ scanned \in Seq(DirSlots)
  /\ portable \in BOOLEAN /\ left \in BOOLEAN /\ wrote \in BOOLEAN

Scanned == {scanned[i] : i \in DOMAIN scanned}
Careful == portable = TRUE \/ left = FALSE

Increasing == \A i, j \in DOMAIN scanned : i < j => scanned[i] < scanned[j]

AtRest ==
  dpc = "idle" =>
    /\ \A s \in Scanned : s <= dirOffset
    /\ hostOffset >= dirOffset
    /\ dirOffset = 0 => hostOffset = 0
    /\ portable = TRUE => \A s \in steady : s <= dirOffset => s \in Scanned
    /\ Careful /\ portable = FALSE => \A s \in steady : s <= hostOffset => s \in Scanned

InStream ==
  dpc = "reading" =>
    /\ \A s \in Scanned : s <= latest
    /\ hostOffset >= latest
    /\ \A s \in stream : latest < s /\ s <= hostOffset
    /\ wrote = TRUE => latest > 0
    /\ Careful => \A s \in steady : s <= hostOffset => s \in Scanned \cup stream

AtEnd == dpc = "ended" /\ Careful => steady \subseteq Scanned

DirsInv ==
  /\ DirsTypeOK /\ Increasing /\ AtRest /\ InStream /\ AtEnd
  /\ dpc = "closed" => scanned = <<>>

LEMMA Slots ==
  /\ IsFiniteSet(DirSlots) /\ Cardinality(DirSlots) \in Nat
  /\ \A s \in DirSlots : s \in Nat /\ s > 0 /\ s <= Cardinality(DirSlots)
<1>1. Cardinality(DirSlots) \in Nat
  BY DirsAssumption, FS_CardinalityType DEF DirsAssumption
<1> QED
  BY <1>1, DirsAssumption DEF DirsAssumption

\* Slots up to one are among those up to a later one.
LEMMA FewerBefore ==
  ASSUME NEW r \in DirSlots, NEW s \in DirSlots, s <= r
  PROVE  LET Before(x) == {q \in Ahead : q <= x}
         IN  /\ Cardinality(Before(s)) \in Nat /\ Cardinality(Before(r)) \in Nat
             /\ Cardinality(Before(s)) <= Cardinality(Before(r))
<1> DEFINE Before(x) == {q \in Ahead : q <= x}
<1>1. Ahead \subseteq DirSlots
  BY DEF Ahead, Present
<1>2. Before(s) \subseteq Before(r) /\ Before(r) \subseteq DirSlots
  <2>1. ASSUME NEW q \in Ahead, q <= s PROVE q <= r
    <3>1. q \in Nat /\ s \in Nat /\ r \in Nat
      BY <1>1, Slots
    <3> QED
      BY <2>1, <3>1
  <2> QED
    BY <1>1, <2>1
<1>3. IsFiniteSet(Before(r))
  BY <1>2, Slots, FS_Subset
<1>4. IsFiniteSet(Before(s)) /\ Cardinality(Before(s)) <= Cardinality(Before(r))
  BY <1>2, <1>3, FS_Subset
<1> QED
  BY <1>3, <1>4, FS_CardinalityType

\* What readdir finds: the first of the slots ahead, one at least if there is
\* any, and none that is before one it leaves.
LEMMA ReadsAhead ==
  ASSUME stream = {}
  PROVE  /\ Filled \subseteq Ahead
         /\ Ahead # {} => Filled # {}
         /\ \A r \in Filled : \A s \in Ahead : s <= r => s \in Filled
<1>1. Filled = {s \in Ahead : Cardinality({r \in Ahead : r <= s}) <= Block}
  BY DEF Filled
<1>2. Ahead \subseteq DirSlots /\ Ahead \subseteq Nat
  BY Slots DEF Ahead, Present
<1>3. ASSUME Ahead # {} PROVE Filled # {}
  <2> DEFINE m == Min(Ahead)
  <2>1. m \in Ahead /\ \A y \in Ahead : m <= y
    BY <1>2, <1>3, MinOf
  <2>2. {r \in Ahead : r <= m} = {m}
    <3>1. m \in Nat /\ \A r \in Ahead : r \in Nat
      BY <1>2, <2>1
    <3> HIDE DEF m
    <3>2. \A r \in Ahead : r <= m <=> r = m
      BY <2>1, <3>1
    <3> QED
      BY <2>1, <3>2
  <2>3. Cardinality({m}) = 1
    BY FS_Singleton
  <2>4. 1 <= Block
    BY DirsAssumption DEF DirsAssumption
  <2>5. Cardinality({r \in Ahead : r <= m}) <= Block
    BY <2>2, <2>3, <2>4
  <2> HIDE DEF m
  <2> QED
    BY <1>1, <2>1, <2>5
<1>4. ASSUME NEW r \in Filled, NEW s \in Ahead, s <= r PROVE s \in Filled
  <2>1. r \in DirSlots /\ s \in DirSlots /\ Cardinality({q \in Ahead : q <= r}) <= Block
    BY <1>1, <1>2
  <2>2. LET Before(x) == {q \in Ahead : q <= x}
        IN  /\ Cardinality(Before(s)) \in Nat /\ Cardinality(Before(r)) \in Nat
            /\ Cardinality(Before(s)) <= Cardinality(Before(r))
    BY <1>4, <2>1, FewerBefore
  <2>3. Block \in Nat
    BY DirsAssumption DEF DirsAssumption
  <2>4. Cardinality({q \in Ahead : q <= s}) <= Block
    BY <2>1, <2>2, <2>3
  <2> QED
    BY <1>1, <2>4
<1> QED
  BY <1>1, <1>3, <1>4

LEMMA ReadsOn ==
  ASSUME DirsInv, dpc = "reading"
  PROVE  /\ Filled \subseteq DirSlots
         /\ \A s \in Filled : latest < s /\ s <= HostAfter
         /\ HostAfter \in Nat /\ hostOffset <= HostAfter
         /\ Careful => \A s \in steady : s <= HostAfter => s \in Scanned \cup Filled
         /\ Filled = {} => Ahead = {} /\ stream = {} /\ HostAfter = hostOffset
<1> USE Slots DEF DirsInv, DirsTypeOK
<1>1. hostOffset >= latest
  BY DEF InStream
<1>2. CASE stream # {}
  <2>1. Filled = stream /\ HostAfter = hostOffset
    BY <1>2 DEF Filled, HostAfter
  <2> QED
    BY <1>2, <2>1 DEF InStream
<1>3. CASE stream = {} /\ Filled = {}
  <2>1. HostAfter = hostOffset /\ Ahead = {}
    BY <1>3, ReadsAhead DEF HostAfter
  <2> QED
    BY <1>3, <2>1 DEF InStream
<1>4. CASE stream = {} /\ Filled # {}
  <2>1. Filled \subseteq Ahead /\ Ahead \subseteq DirSlots
    BY <1>4, ReadsAhead DEF Ahead, Present
  <2>2. HostAfter \in Filled /\ \A s \in Filled : s <= HostAfter
    <3>1. Filled \subseteq Nat /\ \A s \in Filled : s <= Cardinality(DirSlots)
      BY <2>1
    <3>2. Max(Filled) \in Filled /\ \A s \in Filled : s <= Max(Filled)
      BY <1>4, <3>1, MaxOf
    <3> QED
      BY <1>4, <3>2 DEF HostAfter
  <2>3. \A s \in Filled : s > hostOffset
    BY <2>1 DEF Ahead
  <2>4. HostAfter \in Nat /\ hostOffset <= HostAfter
    BY <2>1, <2>2, <2>3
  <2>5. ASSUME Careful, NEW s \in steady, s <= HostAfter PROVE s \in Scanned \cup Filled
    <3>1. CASE s <= hostOffset
      BY <1>4, <2>5, <3>1 DEF InStream
    <3>2. CASE s > hostOffset
      <4>1. s \in Ahead
        BY <3>2 DEF Ahead, Present
      <4> QED
        BY <1>4, <2>2, <2>5, <4>1, ReadsAhead
    <3> QED
      BY <3>1, <3>2 DEF Present
  <2>6. \A s \in Filled : latest < s
    BY <1>1, <2>1, <2>3
  <2> QED
    BY <1>4, <2>1, <2>2, <2>4, <2>5, <2>6
<1> QED
  BY <1>2, <1>3, <1>4

LEMMA DirsInitInv == DirsInit => DirsInv
<1>1. <<>> \in Seq(DirSlots) /\ DOMAIN <<>> = {}
  BY EmptySeq
<1> SUFFICES ASSUME DirsInit PROVE DirsInv
  OBVIOUS
<1>2. DirsTypeOK
  <2>1. scanned \in Seq(DirSlots)
    BY <1>1 DEF DirsInit
  <2> QED
    BY <2>1 DEF DirsInit, DirsTypeOK
<1>3. Increasing /\ dpc = "closed" /\ scanned = <<>>
  BY <1>1 DEF DirsInit, Increasing
<1> QED
  BY <1>2, <1>3 DEF DirsInv, AtRest, InStream, AtEnd

\* From the start nothing was scanned.
LEMMA AtStartInv ==
  ASSUME DirsInv, AtStart, portable' \in BOOLEAN
  PROVE  DirsInv'
<1>1. /\ dpc' = "idle" /\ dirOffset' = 0 /\ hostOffset' = 0 /\ scanned' = <<>>
      /\ steady' = Present /\ left' = FALSE /\ UNCHANGED <<kinds, stream, latest, wrote>>
  BY DEF AtStart, tree
<1>2. Present' = Present /\ Present \subseteq DirSlots
  BY <1>1 DEF Present
<1>3. DirsTypeOK'
  <2>1. scanned' \in Seq(DirSlots)
    BY <1>1, EmptySeq
  <2> QED
    BY <1>1, <1>2, <2>1 DEF DirsInv, DirsTypeOK
<1>4. AtRest'
  BY <1>1, <1>2, Slots DEF AtRest, Scanned
<1> QED
  BY <1>1, <1>3, <1>4 DEF DirsInv, Increasing, InStream, AtEnd

LEMMA GetdentsInv ==
  ASSUME DirsInv, NEW size, ixland_getdents64(size)
  PROVE  DirsInv'
<1>1. /\ dpc = "idle" /\ dpc' = "reading"
      /\ hostOffset' = IF dirOffset > 0 /\ portable THEN dirOffset ELSE hostOffset
      /\ latest' = dirOffset /\ stream' = {} /\ wrote' = FALSE
      /\ UNCHANGED <<kinds, portable, dirOffset, scanned, steady, left>>
  BY DEF ixland_getdents64, tree
<1>2. UNCHANGED <<Present, Scanned, Careful>>
  BY <1>1 DEF Present, Scanned, Careful
<1>3. DirsTypeOK'
  BY <1>1, <1>2 DEF DirsInv, DirsTypeOK
<1>4. InStream'
  <2>1. /\ \A s \in Scanned : s <= dirOffset
        /\ hostOffset >= dirOffset
        /\ dirOffset = 0 => hostOffset = 0
        /\ portable = TRUE => \A s \in steady : s <= dirOffset => s \in Scanned
        /\ Careful /\ portable = FALSE => \A s \in steady : s <= hostOffset => s \in Scanned
    BY <1>1 DEF DirsInv, AtRest
  <2>2. CASE portable = TRUE
    <3>1. hostOffset' = dirOffset
      BY <1>1, <2>1, <2>2 DEF DirsInv, DirsTypeOK
    <3> QED
      BY <1>1, <1>2, <2>1, <2>2, <3>1 DEF InStream, DirsInv, DirsTypeOK
  <2>3. CASE portable = FALSE
    <3>1. hostOffset' = hostOffset
      BY <1>1, <2>3
    <3> QED
      BY <1>1, <1>2, <2>1, <2>3, <3>1 DEF InStream, DirsInv, DirsTypeOK
  <2> QED
    BY <2>2, <2>3 DEF DirsInv, DirsTypeOK
<1> QED
  BY <1>1, <1>3, <1>4 DEF DirsInv, Increasing, AtRest, AtEnd

LEMMA OneRecordInv ==
  ASSUME DirsInv, OneRecord
  PROVE  DirsInv'
<1> DEFINE m == Min(Filled)
<1>1. /\ dpc = "reading" /\ dpc' = "reading" /\ Filled # {}
      /\ stream' = Filled \ {m} /\ hostOffset' = HostAfter
      /\ latest' = m /\ wrote' = TRUE /\ scanned' = Append(scanned, m)
      /\ UNCHANGED <<kinds, portable, dirOffset, steady, left>>
  BY DEF OneRecord, Fits, tree
<1>2. /\ Filled \subseteq DirSlots
      /\ \A s \in Filled : latest < s /\ s <= HostAfter
      /\ HostAfter \in Nat /\ hostOffset <= HostAfter
      /\ Careful => \A s \in steady : s <= HostAfter => s \in Scanned \cup Filled
  BY <1>1, ReadsOn
<1>3. m \in Filled /\ \A s \in Filled : m <= s
  <2>1. Filled \subseteq Nat
    BY <1>2, Slots
  <2> QED
    BY <1>1, <2>1, MinOf
<1> HIDE DEF m
<1>4. m \in DirSlots /\ m \in Nat /\ m > 0
  BY <1>2, <1>3, Slots
<1>5. UNCHANGED <<Present, Careful>>
  BY <1>1 DEF Present, Careful
<1>6. /\ Len(scanned) \in Nat /\ Len(scanned') = Len(scanned) + 1
      /\ DOMAIN scanned = 1 .. Len(scanned) /\ DOMAIN scanned' = 1 .. Len(scanned) + 1
      /\ scanned'[Len(scanned) + 1] = m
      /\ \A i \in DOMAIN scanned : scanned'[i] = scanned[i]
  BY <1>1, <1>4 DEF DirsInv, DirsTypeOK
<1>7. Scanned' = Scanned \cup {m}
  BY <1>6 DEF Scanned
<1>8. DirsTypeOK'
  BY <1>1, <1>2, <1>4, <1>5 DEF DirsInv, DirsTypeOK
<1>9. Increasing'
  <2>1. \A i \in DOMAIN scanned : scanned[i] \in Nat /\ scanned[i] < m
    <3>1. \A i \in DOMAIN scanned : scanned[i] \in Nat /\ scanned[i] <= latest
      BY <1>1, Slots DEF DirsInv, DirsTypeOK, InStream, Scanned
    <3> QED
      BY <1>2, <1>3, <1>4, <3>1 DEF DirsInv, DirsTypeOK
  <2>2. ASSUME NEW i \in DOMAIN scanned', NEW j \in DOMAIN scanned', i < j
        PROVE  scanned'[i] < scanned'[j]
    <3>1. i \in DOMAIN scanned
      BY <1>6, <2>2
    <3>2. CASE j \in DOMAIN scanned
      BY <1>6, <2>2, <3>1, <3>2 DEF DirsInv, Increasing
    <3>3. CASE j = Len(scanned) + 1
      BY <1>6, <2>1, <3>1, <3>3
    <3> QED
      BY <1>6, <3>2, <3>3
  <2> QED
    BY <2>2 DEF Increasing
<1>10. InStream'
  <2>1. \A s \in Scanned' : s <= m
    <3>1. Scanned \subseteq DirSlots
      BY DEF DirsInv, DirsTypeOK, Scanned
    <3>2. ASSUME NEW s \in Scanned PROVE s <= m
      <4>1. s \in Nat /\ s <= latest /\ latest < m /\ latest \in Nat
        BY <1>1, <1>2, <1>3, <3>1, Slots DEF DirsInv, DirsTypeOK, InStream
      <4> QED
        BY <1>4, <4>1
    <3> QED
      BY <1>4, <1>7, <3>2
  <2>2. \A s \in stream' : m < s /\ s <= HostAfter
    BY <1>1, <1>2, <1>3, <1>4, Slots
  <2>3. Careful => \A s \in steady : s <= HostAfter => s \in Scanned' \cup stream'
    BY <1>1, <1>2, <1>7
  <2> QED
    BY <1>1, <1>2, <1>3, <1>4, <1>5, <2>1, <2>2, <2>3 DEF InStream
<1> QED
  BY <1>1, <1>8, <1>9, <1>10 DEF DirsInv, AtRest, AtEnd

LEMMA GetdentsEndsInv ==
  ASSUME DirsInv, GetdentsEnds
  PROVE  DirsInv'
<1>1. /\ dpc = "reading" /\ hostOffset' = HostAfter /\ stream' = {} /\ latest' = 0 /\ wrote' = FALSE
      /\ UNCHANGED <<kinds, portable, scanned, steady>>
      /\ \/ dpc' = "failed" /\ UNCHANGED <<dirOffset, left>>
         \/ /\ wrote = TRUE \/ Filled = {}
            /\ dpc' = IF wrote = FALSE THEN "ended" ELSE "idle"
            /\ dirOffset' = latest /\ left' = (left \/ Filled # {})
  BY DEF GetdentsEnds, Returned, Saved, tree, DirsInv, DirsTypeOK
<1>2. /\ \A s \in Filled : latest < s /\ s <= HostAfter
      /\ HostAfter \in Nat /\ hostOffset <= HostAfter
      /\ Careful => \A s \in steady : s <= HostAfter => s \in Scanned \cup Filled
      /\ Filled = {} => Ahead = {} /\ HostAfter = hostOffset
      /\ Filled \subseteq DirSlots
  BY <1>1, ReadsOn
<1>3. UNCHANGED <<Present, Scanned>>
  BY <1>1 DEF Present, Scanned
<1>4. DirsTypeOK'
  BY <1>1, <1>2, <1>3 DEF DirsInv, DirsTypeOK
<1>5. Careful' => Careful
  BY <1>1 DEF Careful, DirsInv, DirsTypeOK
<1>6. ASSUME dpc' = "idle" PROVE AtRest'
  <2>1. wrote = TRUE /\ dirOffset' = latest /\ left' = (left \/ Filled # {})
    BY <1>1, <1>6 DEF DirsInv, DirsTypeOK
  <2>2. latest > 0 /\ hostOffset >= latest /\ \A s \in Scanned : s <= latest
    BY <1>1, <2>1 DEF DirsInv, InStream
  <2>3. HostAfter >= latest
    BY <1>2, <2>2 DEF DirsInv, DirsTypeOK
  <2>4. ASSUME portable = TRUE, NEW s \in steady, s <= latest PROVE s \in Scanned
    <3>1. s \in Scanned \cup Filled
      BY <1>2, <2>3, <2>4, Slots DEF Careful, DirsInv, DirsTypeOK, Present
    <3> QED
      BY <1>2, <2>4, <3>1, Slots DEF DirsInv, DirsTypeOK
  <2>5. ASSUME portable = FALSE, left' = FALSE, NEW s \in steady, s <= HostAfter PROVE s \in Scanned
    <3>1. Filled = {} /\ left = FALSE
      BY <2>1, <2>5 DEF DirsInv, DirsTypeOK
    <3> QED
      BY <1>2, <2>5, <3>1 DEF Careful
  <2>6. portable' = TRUE => \A s \in steady' : s <= dirOffset' => s \in Scanned'
    BY <1>1, <1>3, <2>1, <2>4
  <2>7. Careful' /\ portable' = FALSE => \A s \in steady' : s <= hostOffset' => s \in Scanned'
    BY <1>1, <1>3, <2>5 DEF Careful
  <2>8. hostOffset' >= dirOffset' /\ dirOffset' > 0 /\ \A s \in Scanned' : s <= dirOffset'
    BY <1>1, <1>3, <2>1, <2>2, <2>3
  <2> QED
    BY <2>6, <2>7, <2>8 DEF AtRest, DirsInv, DirsTypeOK
<1>7. ASSUME dpc' = "ended", Careful' PROVE steady' \subseteq Scanned'
  <2>1. Filled = {} /\ Ahead = {}
    BY <1>1, <1>2, <1>7 DEF DirsInv, DirsTypeOK
  <2>2. \A s \in steady : s <= hostOffset
    BY <2>1, Slots DEF Ahead, DirsInv, DirsTypeOK, Present
  <2> QED
    BY <1>1, <1>2, <1>3, <1>5, <1>7, <2>1, <2>2
<1>8. dpc' \in {"failed", "ended", "idle"}
  BY <1>1
<1>9. AtRest'
  BY <1>6 DEF AtRest
<1>10. AtEnd'
  BY <1>7 DEF AtEnd
<1> QED
  BY <1>1, <1>4, <1>8, <1>9, <1>10 DEF DirsInv, Increasing, InStream

\* A read that fails gives up nothing that the stream still had.
LEMMA ReadFailsInv ==
  ASSUME DirsInv, ReadFails
  PROVE  DirsInv'
<1>1. /\ dpc = "reading" /\ stream = {} /\ stream' = {} /\ latest' = 0 /\ wrote' = FALSE
      /\ UNCHANGED <<kinds, portable, hostOffset, scanned, steady, left>>
      /\ \/ dpc' = "failed" /\ UNCHANGED dirOffset
         \/ wrote = TRUE /\ dpc' = "idle" /\ dirOffset' = latest
  BY DEF ReadFails, Returned, Saved, tree, DirsInv, DirsTypeOK
<1>2. UNCHANGED <<Present, Scanned, Careful>>
  BY <1>1 DEF Present, Scanned, Careful
<1>3. DirsTypeOK'
  BY <1>1, <1>2 DEF DirsInv, DirsTypeOK
<1>4. ASSUME dpc' = "idle" PROVE AtRest'
  <2>1. wrote = TRUE /\ dirOffset' = latest
    BY <1>1, <1>4
  <2>2. latest > 0 /\ hostOffset >= latest /\ \A s \in Scanned : s <= latest
    BY <1>1, <2>1 DEF DirsInv, InStream
  <2>3. Careful => \A s \in steady : s <= hostOffset => s \in Scanned
    BY <1>1 DEF DirsInv, InStream
  <2>4. ASSUME portable = TRUE, NEW s \in steady, s <= latest PROVE s \in Scanned
    <3>1. s <= hostOffset
      BY <2>2, <2>4, Slots DEF DirsInv, DirsTypeOK, Present
    <3> QED
      BY <2>3, <2>4, <3>1 DEF Careful
  <2>5. portable' = TRUE => \A s \in steady' : s <= dirOffset' => s \in Scanned'
    BY <1>1, <1>2, <2>1, <2>4
  <2>6. Careful' /\ portable' = FALSE => \A s \in steady' : s <= hostOffset' => s \in Scanned'
    BY <1>1, <1>2, <2>3
  <2>7. hostOffset' >= dirOffset' /\ dirOffset' > 0 /\ \A s \in Scanned' : s <= dirOffset'
    BY <1>1, <1>2, <2>1, <2>2
  <2> QED
    BY <2>5, <2>6, <2>7 DEF AtRest, DirsInv, DirsTypeOK
<1>5. AtRest' /\ AtEnd'
  BY <1>1, <1>4 DEF AtRest, AtEnd
<1> QED
  BY <1>1, <1>3, <1>5 DEF DirsInv, Increasing, InStream

\* Names come and go: what was there throughout is less.
LEMMA MovesInv ==
  ASSUME DirsInv, Moves
  PROVE  DirsInv'
<1>1. /\ steady' = steady \cap {s \in DirSlots : kinds'[s] # "none"}
      /\ UNCHANGED <<portable, dpc, dirOffset, hostOffset, stream, latest, wrote, scanned, left>>
  BY DEF Moves
<1>2. steady' \subseteq Present' /\ steady' \subseteq steady
  BY <1>1 DEF Present
<1>3. UNCHANGED <<Scanned, Careful>>
  BY <1>1 DEF Scanned, Careful
<1>4. DirsTypeOK'
  BY <1>1, <1>2 DEF DirsInv, DirsTypeOK
<1>5. AtRest' /\ InStream'
  BY <1>1, <1>2, <1>3 DEF DirsInv, AtRest, InStream
<1>6. AtEnd'
  BY <1>1, <1>2, <1>3 DEF DirsInv, AtEnd
<1> QED
  BY <1>1, <1>4, <1>5, <1>6 DEF DirsInv, Increasing

LEMMA DirsNextInv == DirsInv /\ [DirsNext]_dirVars => DirsInv'
<1> SUFFICES ASSUME DirsInv, [DirsNext]_dirVars PROVE DirsInv'
  OBVIOUS
<1>1. CASE OpensDir \/ Rewinds
  <2>1. AtStart /\ portable' \in BOOLEAN
    BY <1>1 DEF OpensDir, Rewinds, DirsInv, DirsTypeOK
  <2> QED
    BY <2>1, AtStartInv
<1>2. CASE UNCHANGED dirVars
  <2>1. /\ UNCHANGED <<kinds, portable, dpc, dirOffset, hostOffset, stream, latest, wrote, scanned, steady, left>>
        /\ UNCHANGED <<Present, Scanned, Careful>>
    BY <1>2 DEF dirVars, tree, Present, Scanned, Careful
  <2> QED
    BY <2>1 DEF DirsInv, DirsTypeOK, Increasing, AtRest, InStream, AtEnd
<1> QED
  BY <1>1, <1>2, GetdentsInv, OneRecordInv, GetdentsEndsInv, ReadFailsInv, MovesInv DEF DirsNext

(* No scan returns a name twice, and one that ended has returned all that  *)
(* were there throughout, unless what telldir says is private to a stream  *)
(* and a call left a record in its own.                                    *)
THEOREM ScansAreWhole == DirsSpec => []DentsOnce
<1>1. DirsInv => DentsOnce
  <2> SUFFICES ASSUME DirsInv PROVE DentsOnce
    OBVIOUS
  <2>1. dpc = "ended" /\ (portable \/ ~left) => steady \subseteq Scanned
    BY DEF DirsInv, DirsTypeOK, AtEnd, Careful
  <2> QED
    BY <2>1 DEF DirsInv, Increasing, DentsOnce, Scanned
<1> QED
  BY <1>1, DirsInitInv, DirsNextInv, PTL DEF DirsSpec

-----------------------------------------------------------------------------
(* Sums, as the folds of the community modules define them: what they add   *)
(* up to does not depend on the order.  These are inductions over finite    *)
(* sets, each by the smallest set that would be an exception.               *)
FirstOf(s) == CHOOSE x \in s : TRUE
Adds(g, S, it) ==
  it = [s \in SUBSET S |-> IF s = {} THEN 0 ELSE g[FirstOf(s)] + it[s \ {FirstOf(s)}]]
SumOf(g, S) == (CHOOSE it : Adds(g, S, it))[S]

LEMMA FirstIn == \A s : s # {} => FirstOf(s) \in s
  BY DEF FirstOf

\* Of the finite subsets that a set of them has, one has none within it.
LEMMA SmallestOf ==
  ASSUME NEW S, IsFiniteSet(S), NEW Q, Q \subseteq SUBSET S, Q # {}
  PROVE  \E s \in Q : \A t \in Q : ~(t \subseteq s /\ t # s)
<1> DEFINE sizes == {Cardinality(s) : s \in Q}
<1>1. \A s \in Q : IsFiniteSet(s) /\ Cardinality(s) \in Nat
  BY FS_Subset, FS_CardinalityType
<1>2. sizes \subseteq Nat /\ sizes # {}
  BY <1>1
<1>3. Min(sizes) \in sizes /\ \A n \in sizes : Min(sizes) <= n
  BY <1>2, MinOf
<1>4. PICK s \in Q : Cardinality(s) = Min(sizes)
  BY <1>3
<1>5. ASSUME NEW t \in Q, t \subseteq s, t # s PROVE FALSE
  <2>1. Cardinality(s) <= Cardinality(t)
    BY <1>3, <1>4
  <2>2. Cardinality(t) <= Cardinality(s) /\ Cardinality(t) # Cardinality(s)
    BY <1>1, <1>5, FS_Subset
  <2> QED
    BY <1>1, <2>1, <2>2
<1> QED
  BY <1>5

\* What a sum adds up to depends on the numbers it is of, and on no more.
LEMMA AddsAgree ==
  ASSUME NEW S, NEW T, IsFiniteSet(T), S \subseteq T,
         NEW g, NEW h, \A x \in S : g[x] = h[x],
         NEW a, Adds(g, S, a), NEW b, Adds(h, T, b)
  PROVE  \A s \in SUBSET S : a[s] = b[s]
<1> DEFINE Q == {s \in SUBSET S : a[s] # b[s]}
<1>1. SUFFICES ASSUME Q # {} PROVE FALSE
  OBVIOUS
<1>2. IsFiniteSet(S)
  BY FS_Subset
<1>3. PICK s \in Q : \A t \in Q : ~(t \subseteq s /\ t # s)
  <2>1. Q \subseteq SUBSET S
    OBVIOUS
  <2> HIDE DEF Q
  <2> QED
    BY <1>1, <1>2, <2>1, SmallestOf
<1> DEFINE x == FirstOf(s)
<1>4. s # {}
  BY <1>3 DEF Adds
<1>5. x \in s
  BY <1>4, FirstIn
<1>6. a[s \ {x}] = b[s \ {x}]
  BY <1>3, <1>5
<1>7. a[s] = g[x] + a[s \ {x}] /\ b[s] = h[x] + b[s \ {x}]
  BY <1>3, <1>4, Zenon DEF Adds
<1> QED
  BY <1>3, <1>5, <1>6, <1>7

LEMMA AddsExists ==
  ASSUME NEW S, IsFiniteSet(S), NEW g
  PROVE  \A s \in SUBSET S : \E it : Adds(g, s, it)
<1> DEFINE Q == {s \in SUBSET S : ~\E it : Adds(g, s, it)}
<1>1. SUFFICES ASSUME Q # {} PROVE FALSE
  OBVIOUS
<1>2. PICK s \in Q : \A t \in Q : ~(t \subseteq s /\ t # s)
  <2>1. Q \subseteq SUBSET S
    OBVIOUS
  <2> HIDE DEF Q
  <2> QED
    BY <1>1, <2>1, SmallestOf
<1> DEFINE F == [u \in SUBSET s |->
                   IF u = {} THEN 0 ELSE g[FirstOf(u)] + SumOf(g, u \ {FirstOf(u)})]
<1>3. ASSUME NEW u \in SUBSET s, u # s PROVE Adds(g, u, CHOOSE it : Adds(g, u, it))
  BY <1>2, <1>3
<1>4. ASSUME NEW u \in SUBSET s, u # s PROVE F[u] = SumOf(g, u)
  <2>1. CASE u = {}
    <3>1. Adds(g, {}, CHOOSE it : Adds(g, {}, it))
      BY <1>3, <1>4, <2>1
    <3>2. SumOf(g, {}) = 0
      <4> DEFINE it == CHOOSE it : Adds(g, {}, it)
      <4>1. SumOf(g, {}) = it[{}]
        BY DEF SumOf
      <4> HIDE DEF it
      <4> QED
        BY <3>1, <4>1 DEF Adds, it
    <3> QED
      BY <2>1, <3>2
  <2>2. CASE u # {}
    <3> DEFINE x == FirstOf(u)
               it == CHOOSE it : Adds(g, u, it)
               jt == CHOOSE jt : Adds(g, u \ {x}, jt)
    <3>1. x \in u
      BY <2>2, FirstIn
    <3>2. Adds(g, u, it) /\ Adds(g, u \ {x}, jt)
      BY <1>3, <1>4, <3>1
    <3>3. IsFiniteSet(u)
      BY <1>2, FS_Subset
    <3>4. jt[u \ {x}] = it[u \ {x}]
      <4> HIDE DEF it, jt, x
      <4>1. u \ {x} \subseteq u /\ \A y \in u \ {x} : g[y] = g[y]
        OBVIOUS
      <4>2. \A v \in SUBSET (u \ {x}) : jt[v] = it[v]
        BY <3>2, <3>3, <4>1, AddsAgree
      <4> QED
        BY <4>2
    <3>5. it[u] = g[x] + it[u \ {x}]
      BY <2>2, <3>2, Zenon DEF Adds
    <3>6. F[u] = g[x] + SumOf(g, u \ {x})
      BY <2>2
    <3>7. SumOf(g, u \ {x}) = jt[u \ {x}] /\ SumOf(g, u) = it[u]
      BY DEF SumOf
    <3> QED
      BY <3>4, <3>5, <3>6, <3>7
  <2> QED
    BY <2>1, <2>2
<1>5. ASSUME NEW u \in SUBSET s, u # {}
      PROVE  SumOf(g, u \ {FirstOf(u)}) = F[u \ {FirstOf(u)}]
  <2>1. FirstOf(u) \in u
    BY <1>5, FirstIn
  <2>2. u \ {FirstOf(u)} \in SUBSET s /\ u \ {FirstOf(u)} # s
    BY <2>1
  <2> HIDE DEF F
  <2> QED
    BY <1>4, <2>2
<1>6. F = [u \in SUBSET s |-> IF u = {} THEN 0 ELSE g[FirstOf(u)] + F[u \ {FirstOf(u)}]]
  <2>1. \A u \in SUBSET s :
          (IF u = {} THEN 0 ELSE g[FirstOf(u)] + SumOf(g, u \ {FirstOf(u)}))
            = (IF u = {} THEN 0 ELSE g[FirstOf(u)] + F[u \ {FirstOf(u)}])
    <3> HIDE DEF F
    <3> QED
      BY <1>5
  <2> QED
    BY <2>1
<1>7. Adds(g, s, F)
  <2> HIDE DEF F
  <2> QED
    BY <1>6, Zenon DEF Adds
<1> QED
  BY <1>2, <1>7

LEMMA SumStep ==
  ASSUME NEW S, IsFiniteSet(S), NEW g
  PROVE  /\ SumOf(g, {}) = 0
         /\ S # {} => /\ FirstOf(S) \in S
                      /\ SumOf(g, S) = g[FirstOf(S)] + SumOf(g, S \ {FirstOf(S)})
<1> DEFINE it == CHOOSE it : Adds(g, S, it)
           x == FirstOf(S)
           jt == CHOOSE jt : Adds(g, S \ {x}, jt)
           kt == CHOOSE kt : Adds(g, {}, kt)
<1>1. Adds(g, S, it) /\ Adds(g, S \ {x}, jt) /\ Adds(g, {}, kt)
  BY AddsExists
<1>2. SumOf(g, S) = it[S] /\ SumOf(g, S \ {x}) = jt[S \ {x}] /\ SumOf(g, {}) = kt[{}]
  BY DEF SumOf
<1>3. S # {} => x \in S
  BY FirstIn
<1>4. S # {} => it[S] = g[x] + it[S \ {x}]
  BY <1>1, Zenon DEF Adds
<1> HIDE DEF it, jt, kt, x
<1>5. jt[S \ {x}] = it[S \ {x}]
  <2>1. S \ {x} \subseteq S /\ \A y \in S \ {x} : g[y] = g[y]
    OBVIOUS
  <2>2. \A s \in SUBSET (S \ {x}) : jt[s] = it[s]
    BY <1>1, <2>1, AddsAgree
  <2> QED
    BY <2>2
<1>6. kt[{}] = 0
  BY <1>1 DEF Adds
<1>7. S # {} => x \in S /\ SumOf(g, S) = g[x] + SumOf(g, S \ {x})
  BY <1>2, <1>3, <1>4, <1>5
<1> QED
  BY <1>2, <1>6, <1>7 DEF x

LEMMA SumSame ==
  ASSUME NEW S, IsFiniteSet(S), NEW g, NEW h, \A x \in S : g[x] = h[x]
  PROVE  SumOf(g, S) = SumOf(h, S)
<1> DEFINE it == CHOOSE it : Adds(g, S, it)
           jt == CHOOSE jt : Adds(h, S, jt)
<1>1. Adds(g, S, it) /\ Adds(h, S, jt)
  BY AddsExists
<1>2. SumOf(g, S) = it[S] /\ SumOf(h, S) = jt[S]
  BY DEF SumOf
<1>3. it[S] = jt[S]
  <2> HIDE DEF it, jt
  <2>1. S \subseteq S
    OBVIOUS
  <2>2. \A s \in SUBSET S : it[s] = jt[s]
    BY <1>1, <2>1, AddsAgree
  <2> QED
    BY <2>2
<1> QED
  BY <1>2, <1>3

LEMMA SumIsInt ==
  ASSUME NEW S, IsFiniteSet(S), NEW g, \A x \in S : g[x] \in Int
  PROVE  \A s \in SUBSET S : SumOf(g, s) \in Int
<1> DEFINE Q == {s \in SUBSET S : SumOf(g, s) \notin Int}
<1>1. SUFFICES ASSUME Q # {} PROVE FALSE
  OBVIOUS
<1>2. PICK s \in Q : \A t \in Q : ~(t \subseteq s /\ t # s)
  <2>1. Q \subseteq SUBSET S
    OBVIOUS
  <2> HIDE DEF Q
  <2> QED
    BY <1>1, <2>1, SmallestOf
<1> DEFINE c == FirstOf(s)
<1>3. IsFiniteSet(s)
  BY <1>2, FS_Subset
<1>4. s # {}
  <2>1. SumOf(g, {}) = 0 /\ SumOf(g, s) \notin Int
    BY <1>2, <1>3, SumStep
  <2> QED
    BY <2>1
<1>5. c \in s /\ SumOf(g, s) = g[c] + SumOf(g, s \ {c})
  BY <1>3, <1>4, SumStep
<1>6. SumOf(g, s \ {c}) \in Int
  BY <1>2, <1>5
<1> QED
  BY <1>2, <1>5, <1>6

\* A sum can be taken in any order.
LEMMA SumAdd ==
  ASSUME NEW S, IsFiniteSet(S), NEW g, \A x \in S : g[x] \in Int
  PROVE  \A s \in SUBSET S : \A x \in s : SumOf(g, s) = g[x] + SumOf(g, s \ {x})
<1> DEFINE Q == {s \in SUBSET S : ~\A x \in s : SumOf(g, s) = g[x] + SumOf(g, s \ {x})}
<1>1. SUFFICES ASSUME Q # {} PROVE FALSE
  OBVIOUS
<1>2. PICK s \in Q : \A t \in Q : ~(t \subseteq s /\ t # s)
  <2>1. Q \subseteq SUBSET S
    OBVIOUS
  <2> HIDE DEF Q
  <2> QED
    BY <1>1, <2>1, SmallestOf
<1> DEFINE c == FirstOf(s)
<1>3. PICK x \in s : SumOf(g, s) # g[x] + SumOf(g, s \ {x})
  BY <1>2
<1>4. IsFiniteSet(s)
  BY <1>2, FS_Subset
<1>5. c \in s /\ SumOf(g, s) = g[c] + SumOf(g, s \ {c})
  BY <1>3, <1>4, SumStep
<1> HIDE DEF c
<1>6. x # c
  BY <1>3, <1>5
<1>7. SumOf(g, s \ {c}) = g[x] + SumOf(g, (s \ {c}) \ {x})
  BY <1>2, <1>3, <1>5, <1>6
<1>8. SumOf(g, s \ {x}) = g[c] + SumOf(g, (s \ {x}) \ {c})
  BY <1>2, <1>3, <1>5, <1>6
<1>9. (s \ {c}) \ {x} = (s \ {x}) \ {c}
  OBVIOUS
<1>10. SumOf(g, (s \ {c}) \ {x}) \in Int /\ g[x] \in Int /\ g[c] \in Int
  BY <1>2, <1>3, <1>5, SumIsInt
<1>11. \A p, a, b \in Int : a + (b + p) = b + (a + p)
  OBVIOUS
<1>12. SumOf(g, s \ {x}) = g[c] + SumOf(g, (s \ {c}) \ {x})
  BY <1>8, <1>9, Zenon
<1>13. SumOf(g, s) = g[x] + SumOf(g, s \ {x})
  <2> DEFINE p == SumOf(g, (s \ {c}) \ {x})
  <2>1. g[c] + (g[x] + p) = g[x] + (g[c] + p)
    BY <1>10, <1>11, Zenon
  <2>2. SumOf(g, s) = g[c] + (g[x] + p)
    BY <1>5, <1>7, Zenon
  <2> QED
    BY <1>12, <2>1, <2>2, Zenon
<1> QED
  BY <1>3, <1>13, Zenon

LEMMA SumTake ==
  ASSUME NEW S, IsFiniteSet(S), NEW g, \A y \in S : g[y] \in Int, NEW x \in S
  PROVE  SumOf(g, S) = g[x] + SumOf(g, S \ {x})
<1>1. PICK s \in SUBSET S : s = S
  OBVIOUS
<1>2. x \in s
  BY <1>1
<1>3. SumOf(g, s) = g[x] + SumOf(g, s \ {x})
  BY <1>1, <1>2, SumAdd
<1> QED
  BY <1>1, <1>3, Zenon

\* Zeros add nothing.
LEMMA SumRest ==
  ASSUME NEW S, IsFiniteSet(S), NEW g, \A x \in S : g[x] \in Int,
         NEW T, T \subseteq S, \A x \in S \ T : g[x] = 0
  PROVE  SumOf(g, S) = SumOf(g, T)
<1> DEFINE Q == {s \in SUBSET S : T \subseteq s /\ SumOf(g, s) # SumOf(g, T)}
<1>1. SUFFICES ASSUME Q # {} PROVE FALSE
  OBVIOUS
<1>2. PICK s \in Q : \A t \in Q : ~(t \subseteq s /\ t # s)
  <2>1. Q \subseteq SUBSET S
    OBVIOUS
  <2> HIDE DEF Q
  <2> QED
    BY <1>1, <2>1, SmallestOf
<1>3. PICK x \in s : x \notin T
  BY <1>2
<1>4. s \ {x} \in SUBSET S /\ T \subseteq s \ {x} /\ s \ {x} # s
  BY <1>2, <1>3
<1>5. SumOf(g, s \ {x}) = SumOf(g, T)
  BY <1>2, <1>4
<1>6. SumOf(g, s) = g[x] + SumOf(g, s \ {x})
  BY <1>2, <1>3, SumAdd
<1>7. SumOf(g, T) \in Int /\ g[x] = 0
  BY <1>2, <1>3, SumIsInt
<1>8. SumOf(g, s) # SumOf(g, T)
  BY <1>2
<1> QED
  BY <1>5, <1>6, <1>7, <1>8

-----------------------------------------------------------------------------
(* Wasm.  The three globals of the engine are of one load, or clear; and of *)
(* a WASI program what each stage holds, and that the table has each of the *)
(* host's files once.                                                       *)
EngineObjects ==
  (IF wamrModule = 0 THEN {} ELSE Kept(wamrModule))
    \cup (IF runtimeUp = TRUE THEN {<<"runtime", 0>>} ELSE {})

EngineInv ==
  /\ runtimeUp \in BOOLEAN
  /\ loads \in Nat /\ wamrModule \in Nat
  /\ wamrInstance = wamrModule /\ wamrExecEnv = wamrModule
  /\ wamrModule # 0 => runtimeUp = TRUE
  /\ objects = EngineObjects

LEMMA EngineInitInv == EngineInit => EngineInv
<1> SUFFICES ASSUME EngineInit PROVE EngineInv
  OBVIOUS
<1>1. runtimeUp # TRUE /\ runtimeUp \in BOOLEAN
  BY DEF EngineInit
<1>2. EngineObjects = {}
  BY <1>1 DEF EngineInit, EngineObjects
<1> QED
  BY <1>1, <1>2 DEF EngineInit, EngineInv

LEMMA EngineGlobals ==
  ASSUME EngineInv
  PROVE  /\ WamrGlobals = Kept(wamrModule)
         /\ <<"runtime", 0>> \notin WamrGlobals
         /\ objects \ WamrGlobals = IF runtimeUp = TRUE THEN {<<"runtime", 0>>} ELSE {}
<1>1. WamrGlobals = Kept(wamrModule)
  BY DEF EngineInv, WamrGlobals, Kept
<1>2. \A n : <<"runtime", 0>> \notin Kept(n)
  BY DEF Kept
<1> QED
  BY <1>1, <1>2 DEF EngineInv, EngineObjects, Kept

LEMMA EngineNextInv == EngineInv /\ [EngineNext]_engineVars => EngineInv'
<1> SUFFICES ASSUME EngineInv, [EngineNext]_engineVars PROVE EngineInv'
  OBVIOUS
<1>1. CASE UNCHANGED engineVars
  BY <1>1 DEF engineVars, EngineInv, EngineObjects, Kept
<1>2. ASSUME NEW b \in BOOLEAN, Initializes(b) PROVE EngineInv'
  BY <1>2 DEF EngineInv, EngineObjects, Kept, Initializes, ixland_wamr_init
<1>3. ASSUME NEW b \in BOOLEAN, Deinitializes(b) PROVE EngineInv'
  <2>1. CASE runtimeUp = TRUE
    <3>1. objects' = {}
      BY <1>3, <2>1, EngineGlobals DEF Deinitializes
    <3>2. /\ runtimeUp' # TRUE /\ runtimeUp' \in BOOLEAN
          /\ GlobalsCleared /\ loads' = loads
      BY <1>3, <2>1 DEF Deinitializes
    <3>3. EngineObjects' = {}
      BY <3>2 DEF EngineObjects, GlobalsCleared
    <3> QED
      BY <3>1, <3>2, <3>3 DEF EngineInv, GlobalsCleared
  <2>2. CASE runtimeUp = FALSE
    BY <1>3, <2>2 DEF EngineInv, EngineObjects, Kept, Deinitializes
  <2> QED
    BY <2>1, <2>2 DEF EngineInv
<1>4. CASE ixland_wamr_load_module
  <2>1. /\ runtimeUp = TRUE /\ runtimeUp' = TRUE
        /\ loads' = loads + 1 /\ loads' \in Nat /\ loads' # 0
    BY <1>4 DEF EngineInv, ixland_wamr_load_module, engineUp
  <2>2. objects \ WamrGlobals = {<<"runtime", 0>>}
    BY <2>1, EngineGlobals
  <2>3. ASSUME wamrModule' = loads', wamrInstance' = loads', wamrExecEnv' = loads',
               objects' = (objects \ WamrGlobals) \cup Kept(loads')
        PROVE  EngineInv'
    BY <2>1, <2>2, <2>3 DEF EngineInv, EngineObjects
  <2>4. ASSUME NEW stage \in {"module", "instance", "exec_env"}, GlobalsCleared,
               objects' = (objects \ WamrGlobals)
                            \cup {<<k, loads'>> : k \in Reached(stage) \ Unwinds(stage)}
        PROVE  EngineInv'
    <3>1. Reached(stage) \ Unwinds(stage) = {}
      BY <2>4 DEF Reached, Unwinds
    <3> QED
      BY <2>1, <2>2, <2>4, <3>1 DEF EngineInv, EngineObjects, GlobalsCleared
  <2> QED
    BY <1>4, <2>3, <2>4 DEF ixland_wamr_load_module
<1>5. CASE ixland_wamr_unload_module
  <2>1. objects' = IF runtimeUp = TRUE THEN {<<"runtime", 0>>} ELSE {}
    BY <1>5, EngineGlobals DEF ixland_wamr_unload_module
  <2> QED
    BY <1>5, <2>1 DEF EngineInv, EngineObjects, ixland_wamr_unload_module, GlobalsCleared, engineUp
<1> QED
  BY <1>1, <1>2, <1>3, <1>4, <1>5 DEF EngineNext

LEMMA EngineInvOwned == EngineInv => EngineOwned
<1> SUFFICES ASSUME EngineInv PROVE EngineOwned
  OBVIOUS
<1>1. {o \in WamrGlobals : o[2] # 0} = IF wamrModule = 0 THEN {} ELSE Kept(wamrModule)
  BY EngineGlobals DEF Kept
<1>2. {<<"runtime", 0>> : r \in {runtimeUp} \ {FALSE}} = IF runtimeUp = TRUE THEN {<<"runtime", 0>>} ELSE {}
  <2>1. CASE runtimeUp = TRUE
    BY <2>1
  <2>2. CASE runtimeUp = FALSE
    BY <2>2
  <2> QED
    BY <2>1, <2>2 DEF EngineInv
<1>3. objects = {o \in WamrGlobals : o[2] # 0} \cup {<<"runtime", 0>> : r \in {runtimeUp} \ {FALSE}}
  BY <1>1, <1>2 DEF EngineInv, EngineObjects
<1>4. Callable => WamrGlobals \subseteq objects
  BY EngineGlobals DEF Callable, EngineInv, EngineObjects
<1> QED
  BY <1>3, <1>4 DEF EngineOwned, EngineInv, MemoryReached


\* What each stage of a WASI program holds.
HeldAt ==
  [main |-> {}, file |-> {}, buffer |-> {"file"}, read |-> {"file", "buffer"},
   runtime |-> {"buffer"}, natives |-> {"buffer", "runtime"}, load |-> {"buffer", "runtime"},
   instance |-> {"runtime", "module"}, env |-> {"runtime", "module", "instance"},
   start |-> {"runtime", "module", "instance", "env"},
   running |-> {"runtime", "module", "instance", "env"},
   exited |-> {"runtime", "module", "instance", "env"},
   deinit |-> {}, returned |-> {}]

Taken == {fd \in WasiFds : wasiTable[fd] # -1}

WasiTabled ==
  /\ wasiTable \in [WasiFds -> Int]
  /\ hostHandles \subseteq Nat
  /\ \A fd \in Streams3 : wasiTable[fd] \in {-1, fd}
  /\ \A h \in hostHandles : \E fd \in Taken : wasiTable[fd] = h
  /\ \A fd \in Taken : wasiTable[fd] \in hostHandles
  /\ \A fd, fe \in Taken : wasiTable[fd] = wasiTable[fe] => fd = fe

Told ==
  wasiErrno = "ESUCCESS" =>
    /\ moved.told = SumOf(moved.done, DOMAIN moved.done)
    /\ \A i, j \in DOMAIN moved.wanted :
         i < j /\ moved.done[i] < (IF moved.kind = "write" THEN moved.wanted[i] ELSE 1) => moved.done[j] = 0

WasiInv ==
  /\ wpc \in DOMAIN HeldAt /\ chain = HeldAt[wpc]
  /\ wpc = "main" => hostHandles = Streams3
  /\ wpc \notin {"main", "returned"} => WasiTabled
  /\ wpc = "returned" => hostHandles \subseteq Streams3
  /\ Told

LEMMA SilentTells == Silent => Told'
<1> SUFFICES ASSUME Silent PROVE Told'
  OBVIOUS
<1>1. moved' = Quiet
  BY DEF Silent
<1>2. moved'.told = 0 /\ moved'.done = <<>> /\ moved'.wanted = <<>>
  BY <1>1 DEF Quiet
<1>3. SumOf(<<>>, {}) = 0
  BY SumStep, FS_EmptySet
<1>4. DOMAIN <<>> = {}
  OBVIOUS
<1> QED
  BY <1>2, <1>3, <1>4 DEF Told

LEMMA WasiInitInv == WasiInit => WasiInv
<1> SUFFICES ASSUME WasiInit PROVE WasiInv
  OBVIOUS
<1>1. moved.told = 0 /\ moved.done = <<>> /\ moved.wanted = <<>>
  BY DEF WasiInit, Quiet
<1>2. SumOf(<<>>, {}) = 0
  BY SumStep, FS_EmptySet
<1>3. DOMAIN <<>> = {}
  OBVIOUS
<1>4. Told
  BY <1>1, <1>2, <1>3 DEF Told
<1> QED
  BY <1>4 DEF WasiInit, WasiInv, HeldAt

LEMMA LoadStageInv ==
  ASSUME WasiInv, LoadStage PROVE WasiInv'
<1>1. Told' /\ (WasiTabled => WasiTabled')
  BY SilentTells DEF LoadStage, WasiTabled, Taken
<1>2. /\ wpc \in DOMAIN Stages /\ chain = HeldAt[wpc]
      /\ \/ wpc' = Stages[wpc].next /\ chain' = (chain \ Stages[wpc].after) \cup Stages[wpc].makes
         \/ wpc' = "deinit" /\ chain' = (chain \ Stages[wpc].after) \ Stages[wpc].fails
  BY DEF LoadStage, WasiInv
<1>3. wpc \notin {"main", "returned"} /\ wpc' \notin {"main", "returned"}
      /\ wpc' \in DOMAIN HeldAt /\ chain' = HeldAt[wpc']
  <2>1. CASE wpc = "file" BY <1>2, <2>1 DEF Stages, HeldAt
  <2>2. CASE wpc = "buffer" BY <1>2, <2>2 DEF Stages, HeldAt
  <2>3. CASE wpc = "read" BY <1>2, <2>3 DEF Stages, HeldAt
  <2>4. CASE wpc = "runtime" BY <1>2, <2>4 DEF Stages, HeldAt
  <2>5. CASE wpc = "natives" BY <1>2, <2>5 DEF Stages, HeldAt
  <2>6. CASE wpc = "load" BY <1>2, <2>6 DEF Stages, HeldAt
  <2>7. CASE wpc = "instance" BY <1>2, <2>7 DEF Stages, HeldAt
  <2>8. CASE wpc = "env" BY <1>2, <2>8 DEF Stages, HeldAt
  <2>9. CASE wpc = "start" BY <1>2, <2>9 DEF Stages, HeldAt
  <2> QED
    BY <1>2, <2>1, <2>2, <2>3, <2>4, <2>5, <2>6, <2>7, <2>8, <2>9 DEF Stages
<1> QED
  BY <1>1, <1>3 DEF WasiInv

LEMMA WasiInitStep ==
  ASSUME WasiInv, wasi_init PROVE WasiInv'
<1>1. Told' /\ wpc' = "file" /\ chain' = {} /\ hostHandles' = Streams3
  BY SilentTells DEF wasi_init, WasiInv, HeldAt
<1>2. wasiTable' = [fd \in WasiFds |-> IF fd \in Streams3 THEN fd ELSE -1]
  BY DEF wasi_init
<1>3. Streams3 \subseteq WasiFds /\ -1 \notin Streams3 /\ Streams3 \subseteq Nat
  BY WasmAssumption DEF WasmAssumption, Streams3, WasiFds
<1>4. Taken' = Streams3
  BY <1>2, <1>3 DEF Taken
<1>5. WasiTabled'
  BY <1>1, <1>2, <1>3, <1>4 DEF WasiTabled
<1> QED
  BY <1>1, <1>5 DEF WasiInv, HeldAt

LEMMA WasiDeinitInv ==
  ASSUME WasiInv, wasi_deinit PROVE WasiInv'
<1>1. Told' /\ wpc' = "returned" /\ chain' = {} /\ WasiTabled
  BY SilentTells DEF wasi_deinit, WasiInv, HeldAt
<1>2. hostHandles' = hostHandles \ {wasiTable[fd] : fd \in WasiFds \ Streams3}
  BY DEF wasi_deinit
<1>3. ASSUME NEW h \in hostHandles' PROVE h \in Streams3
  <2>1. PICK fd \in Taken : wasiTable[fd] = h
    BY <1>1, <1>2 DEF WasiTabled
  <2>2. fd \in Streams3 /\ h # -1
    BY <1>2, <2>1 DEF Taken
  <2> QED
    BY <1>1, <2>1, <2>2 DEF WasiTabled
<1> QED
  BY <1>1, <1>3 DEF WasiInv, HeldAt

LEMMA TakenFinite == IsFiniteSet(Taken)
<1>1. IsFiniteSet(0 .. MaxWasiFd - 1)
  BY WasmAssumption, FS_Interval DEF WasmAssumption
<1> QED
  BY <1>1, FS_Subset DEF Taken, WasiFds

LEMMA HandlesFinite == WasiTabled => IsFiniteSet(hostHandles)
<1> SUFFICES ASSUME WasiTabled PROVE IsFiniteSet(hostHandles)
  OBVIOUS
<1> DEFINE f == [fd \in Taken |-> wasiTable[fd]]
<1>1. f \in Surjection(Taken, hostHandles)
  BY Zenon DEF WasiTabled, Surjection
<1> HIDE DEF f
<1> QED
  BY <1>1, TakenFinite, FS_Surjection

\* A new file is not open already, nor is the entry in use.
LEMMA WasiOpenInv ==
  ASSUME WasiInv, wasi_path_open PROVE WasiInv'
<1>1. /\ wpc = "running" /\ wpc' = "running" /\ chain' = HeldAt["running"]
      /\ moved' = Quiet /\ WasiTabled
  BY DEF wasi_path_open, WasiInv
<1>2. Told'
  <2>1. moved'.told = 0 /\ moved'.done = <<>> /\ moved'.wanted = <<>>
    BY <1>1 DEF Quiet
  <2>2. SumOf(<<>>, {}) = 0
    BY SumStep, FS_EmptySet
  <2>3. DOMAIN <<>> = {}
    OBVIOUS
  <2> QED
    BY <2>1, <2>2, <2>3 DEF Told
<1>3. WasiTabled'
  <2>1. CASE UNCHANGED <<wasiTable, hostHandles>>
    BY <1>1, <2>1 DEF WasiTabled, Taken
  <2>2. CASE /\ Cardinality(hostHandles) < MaxHandles /\ NoEntry # {}
             /\ wasiTable' = [wasiTable EXCEPT ![Min(NoEntry)] = NewHandle]
             /\ hostHandles' = hostHandles \cup {NewHandle}
    <3>1. NoEntry \subseteq WasiFds /\ WasiFds \subseteq Nat
      BY WasmAssumption DEF WasmAssumption, NoEntry, WasiFds
    <3> DEFINE m == Min(NoEntry)
               n == NewHandle
    <3>2. m \in WasiFds /\ m \notin Streams3 /\ wasiTable[m] = -1
      BY <2>2, <3>1, MinOf DEF NoEntry
    <3>3. (0 .. MaxHandles) \ hostHandles # {}
      <4>1. SUFFICES ASSUME 0 .. MaxHandles \subseteq hostHandles PROVE FALSE
        OBVIOUS
      <4>2. IsFiniteSet(hostHandles)
        BY <1>1, HandlesFinite
      <4>3. Cardinality(0 .. MaxHandles) = MaxHandles + 1
        BY WasmAssumption, FS_Interval DEF WasmAssumption
      <4>4. Cardinality(0 .. MaxHandles) <= Cardinality(hostHandles)
        BY <4>1, <4>2, FS_Subset
      <4>5. Cardinality(hostHandles) \in Nat
        BY <4>2, FS_CardinalityType
      <4> QED
        BY <2>2, <4>3, <4>4, <4>5, WasmAssumption DEF WasmAssumption
    <3>4. n \in (0 .. MaxHandles) \ hostHandles
      BY <3>3, MinOf, WasmAssumption DEF NewHandle, WasmAssumption
    <3>5. n \in Nat /\ n \notin hostHandles /\ n # -1
      BY <3>4
    <3> HIDE DEF m, n
    <3>6. wasiTable' = [wasiTable EXCEPT ![m] = n] /\ hostHandles' = hostHandles \cup {n}
      BY <2>2 DEF m, n
    <3>7. wasiTable'[m] = n /\ \A fd \in WasiFds \ {m} : wasiTable'[fd] = wasiTable[fd]
      BY <1>1, <3>2, <3>6 DEF WasiTabled
    <3>8. Taken' = Taken \cup {m} /\ m \notin Taken
      BY <3>2, <3>5, <3>7 DEF Taken
    <3>9. wasiTable' \in [WasiFds -> Int] /\ hostHandles' \subseteq Nat
      <4>1. n \in Int /\ wasiTable \in [WasiFds -> Int] /\ hostHandles \subseteq Nat
        BY <1>1, <3>5 DEF WasiTabled
      <4>2. wasiTable' \in [WasiFds -> Int]
        BY <3>6, <4>1
      <4> QED
        BY <3>5, <3>6, <4>1, <4>2
    <3>10. \A fd \in Streams3 : wasiTable'[fd] \in {-1, fd}
      <4>1. Streams3 \subseteq WasiFds
        BY WasmAssumption DEF WasmAssumption, Streams3, WasiFds
      <4> QED
        BY <1>1, <3>2, <3>7, <4>1 DEF WasiTabled
    <3>11. \A h \in hostHandles' : \E fd \in Taken' : wasiTable'[fd] = h
      BY <1>1, <3>6, <3>7, <3>8 DEF WasiTabled, Taken
    <3>12. \A fd \in Taken' : wasiTable'[fd] \in hostHandles'
      BY <1>1, <3>6, <3>7, <3>8 DEF WasiTabled, Taken
    <3>13. \A fd, fe \in Taken' : wasiTable'[fd] = wasiTable'[fe] => fd = fe
      BY <1>1, <3>5, <3>7, <3>8 DEF WasiTabled, Taken
    <3> QED
      BY <3>9, <3>10, <3>11, <3>12, <3>13 DEF WasiTabled
  <2> QED
    BY <2>1, <2>2 DEF wasi_path_open
<1> QED
  BY <1>1, <1>2, <1>3 DEF WasiInv, HeldAt

LEMMA WasiCloseInv ==
  ASSUME WasiInv, NEW fd \in WasiFds, wasi_fd_close(fd) PROVE WasiInv'
<1>1. /\ wpc = "running" /\ wpc' = "running" /\ chain' = HeldAt["running"]
      /\ moved' = Quiet /\ WasiTabled
  BY DEF wasi_fd_close, WasiInv
<1>2. Told'
  <2>1. moved'.told = 0 /\ moved'.done = <<>> /\ moved'.wanted = <<>>
    BY <1>1 DEF Quiet
  <2>2. SumOf(<<>>, {}) = 0
    BY SumStep, FS_EmptySet
  <2>3. DOMAIN <<>> = {}
    OBVIOUS
  <2> QED
    BY <2>1, <2>2, <2>3 DEF Told
<1>3. WasiTabled'
  <2>1. CASE UNCHANGED <<wasiTable, hostHandles>>
    BY <1>1, <2>1 DEF WasiTabled, Taken
  <2>2. CASE /\ wasiTable[fd] # -1
             /\ hostHandles' = hostHandles \ {wasiTable[fd]}
             /\ wasiTable' = [wasiTable EXCEPT ![fd] = -1]
    <3>1. wasiTable'[fd] = -1 /\ \A e \in WasiFds \ {fd} : wasiTable'[e] = wasiTable[e]
      BY <1>1, <2>2 DEF WasiTabled
    <3>2. Taken' = Taken \ {fd} /\ fd \in Taken
      BY <2>2, <3>1 DEF Taken
    <3>3. Streams3 \subseteq WasiFds
      BY WasmAssumption DEF WasmAssumption, Streams3, WasiFds
    <3>4. wasiTable' \in [WasiFds -> Int] /\ hostHandles' \subseteq Nat
      <4>1. -1 \in Int /\ wasiTable \in [WasiFds -> Int] /\ hostHandles \subseteq Nat
        BY <1>1 DEF WasiTabled
      <4>2. wasiTable' \in [WasiFds -> Int]
        BY <2>2, <4>1
      <4> QED
        BY <2>2, <4>1, <4>2
    <3>5. \A e \in Streams3 : wasiTable'[e] \in {-1, e}
      BY <1>1, <3>1, <3>3 DEF WasiTabled
    <3>6. \A h \in hostHandles' : \E e \in Taken' : wasiTable'[e] = h
      BY <1>1, <2>2, <3>1, <3>2 DEF WasiTabled, Taken
    <3>7. \A e \in Taken' : wasiTable'[e] \in hostHandles'
      BY <1>1, <2>2, <3>1, <3>2 DEF WasiTabled, Taken
    <3>8. \A e, f \in Taken' : wasiTable'[e] = wasiTable'[f] => e = f
      BY <1>1, <3>1, <3>2 DEF WasiTabled, Taken
    <3> QED
      BY <3>4, <3>5, <3>6, <3>7, <3>8 DEF WasiTabled
  <2> QED
    BY <2>1, <2>2 DEF wasi_fd_close
<1> QED
  BY <1>1, <1>2, <1>3 DEF WasiInv, HeldAt

\* What the transfers that were tried moved, together, is what all did.
LEMMA WasiTransferInv ==
  ASSUME WasiInv, NEW fd \in WasiFds, NEW kind \in {"write", "read"},
         NEW n \in Nat, NEW wanted \in [1 .. n -> Nat], NEW enough \in [1 .. n -> Nat],
         kind = "write" => enough = wanted,
         kind = "read" => \A i \in 1 .. n : enough[i] = 1,
         Transfers(fd, kind, wanted, enough)
  PROVE  WasiInv'
<1>1. PICK took \in [DOMAIN wanted -> -1 .. 2] :
        LET tried == {i \in DOMAIN wanted : \A j \in 1 .. i - 1 : took[j] >= enough[j]}
            failed == \E i \in tried : took[i] < 0
        IN /\ \A i \in DOMAIN wanted : took[i] <= wanted[i]
           /\ wasiErrno' = IF failed THEN errno_to_wasi("EINTR") ELSE "ESUCCESS"
           /\ moved' = [kind |-> kind, wanted |-> wanted,
                        done |-> [i \in DOMAIN wanted |-> IF i \in tried THEN took[i] ELSE 0],
                        told |-> IF failed THEN 0 ELSE MapThenSumSet(LAMBDA i : took[i], tried)]
  BY DEF Transfers
<1> DEFINE tried == {i \in DOMAIN wanted : \A j \in 1 .. i - 1 : took[j] >= enough[j]}
           failed == \E i \in tried : took[i] < 0
           done == [i \in 1 .. n |-> IF i \in tried THEN took[i] ELSE 0]
<1>2. DOMAIN wanted = 1 .. n /\ tried \subseteq 1 .. n
  OBVIOUS
<1>3. errno_to_wasi("EINTR") # "ESUCCESS"
  BY DEF errno_to_wasi
<1>4. /\ moved'.kind = kind /\ moved'.wanted = wanted /\ moved'.done = done
      /\ wasiErrno' = "ESUCCESS" => moved'.told = SumOf(took, tried)
  <2>1. MapThenSumSet(LAMBDA i : took[i], tried) = SumOf(took, tried)
    BY DEF MapThenSumSet, MapThenFoldSet, SumOf, Adds, FirstOf
  <2> QED
    BY <1>1, <1>2, <1>3, <2>1
<1>5. took \in [1 .. n -> Int]
  BY <1>2
<1> HIDE DEF tried, done
<1>6. ASSUME NEW i \in 1 .. n PROVE done[i] = IF i \in tried THEN took[i] ELSE 0
  BY DEF done
<1>7. SumOf(took, tried) = SumOf(done, tried)
  <2>1. IsFiniteSet(tried)
    <3>1. IsFiniteSet(1 .. n)
      BY FS_Interval
    <3> QED
      BY <1>2, <3>1, FS_Subset
  <2>2. \A i \in tried : took[i] = done[i]
    BY <1>2, <1>6
  <2> QED
    BY <2>1, <2>2, SumSame
<1>8. SumOf(done, 1 .. n) = SumOf(done, tried)
  <2>1. IsFiniteSet(1 .. n)
    BY FS_Interval
  <2>2. \A i \in 1 .. n : done[i] \in Int
    BY <1>5, <1>6
  <2>3. \A i \in (1 .. n) \ tried : done[i] = 0
    BY <1>6
  <2>4. tried \subseteq 1 .. n
    BY <1>2
  <2> DEFINE all == 1 .. n
  <2>5. IsFiniteSet(all) /\ tried \subseteq all
    BY <2>1, <2>4
  <2>6. (\A i \in all : done[i] \in Int) /\ \A i \in all \ tried : done[i] = 0
    BY <2>2, <2>3
  <2> HIDE DEF all
  <2>7. SumOf(done, all) = SumOf(done, tried)
    BY <2>5, <2>6, SumRest
  <2> QED
    BY <2>7 DEF all
<1>9. Told'
  <2>1. ASSUME NEW i \in 1 .. n, NEW j \in 1 .. n, i < j, 
               done[i] < (IF kind = "write" THEN wanted[i] ELSE 1)
        PROVE  done[j] = 0
    <3>1. enough[i] = (IF kind = "write" THEN wanted[i] ELSE 1) /\ enough[i] \in Nat
      OBVIOUS
    <3>2. took[i] < enough[i] \/ i \notin tried
      BY <1>6, <2>1, <3>1
    <3>3. ASSUME j \in tried PROVE FALSE
      <4>1. \A k \in 1 .. j - 1 : took[k] >= enough[k]
        BY <3>3 DEF tried
      <4>2. i \in tried /\ took[i] >= enough[i]
        BY <1>2, <2>1, <4>1 DEF tried
      <4> QED
        BY <1>5, <3>1, <3>2, <4>2
    <3> QED
      BY <1>6, <3>3
  <2>2. DOMAIN done = 1 .. n
    BY DEF done
  <2> QED
    BY <1>2, <1>4, <1>7, <1>8, <2>1, <2>2 DEF Told
<1>10. wpc = "running" /\ UNCHANGED <<wpc, chain, wasiTable, hostHandles>>
  BY DEF Transfers
<1>11. WasiTabled'
  BY <1>10 DEF WasiInv, WasiTabled, Taken
<1> QED
  BY <1>9, <1>10, <1>11 DEF WasiInv

LEMMA WasiNextInv == WasiInv /\ [WasiNext]_wasiVars => WasiInv'
<1> SUFFICES ASSUME WasiInv, [WasiNext]_wasiVars PROVE WasiInv'
  OBVIOUS
<1>1. CASE UNCHANGED wasiVars
  BY <1>1 DEF wasiVars, WasiInv, WasiTabled, Taken, Told
<1>2. CASE StartReturns
  <2>1. Told' /\ wpc = "running" /\ wpc' = "deinit" /\ chain' = {} /\ UNCHANGED <<wasiTable, hostHandles>>
    BY <1>2, SilentTells DEF StartReturns, WasiInv, HeldAt
  <2> QED
    BY <2>1 DEF WasiInv, WasiTabled, Taken, HeldAt
<1>3. CASE ProcExit
  <2>1. Told' /\ wpc = "running" /\ wpc' = "exited" /\ UNCHANGED <<chain, wasiTable, hostHandles>>
    BY <1>3, SilentTells DEF ProcExit
  <2> QED
    BY <2>1 DEF WasiInv, WasiTabled, Taken, HeldAt
<1>4. ASSUME NEW fd \in WasiFds, NEW wanted \in {<< 1 >>, << 2, 1 >>},
             wasi_fd_write(fd, wanted) \/ wasi_fd_read(fd, wanted)
      PROVE  WasiInv'
  <2>1. PICK n \in Nat : wanted \in [1 .. n -> Nat]
    <3>1. <<1>> \in [1 .. 1 -> Nat] /\ <<2, 1>> \in [1 .. 2 -> Nat]
      OBVIOUS
    <3> QED
      BY <3>1
  <2>2. CASE wasi_fd_write(fd, wanted)
    BY <2>1, <2>2, WasiTransferInv DEF wasi_fd_write
  <2>3. CASE wasi_fd_read(fd, wanted)
    <3> DEFINE enough == [i \in DOMAIN wanted |-> 1]
    <3>1. enough \in [1 .. n -> Nat] /\ \A i \in 1 .. n : enough[i] = 1
      BY <2>1
    <3>2. Transfers(fd, "read", wanted, enough)
      BY <2>3 DEF wasi_fd_read
    <3> HIDE DEF enough
    <3> QED
      BY <2>1, <3>1, <3>2, WasiTransferInv
  <2> QED
    BY <1>4, <2>2, <2>3
<1> QED
  BY <1>1, <1>2, <1>3, <1>4, LoadStageInv, WasiInitStep, WasiDeinitInv, WasiOpenInv, WasiCloseInv
  DEF WasiNext

LEMMA WasiInvOwned == WasiInv => WasiOwned
<1> SUFFICES ASSUME WasiInv PROVE WasiOwned
  OBVIOUS
<1>1. ASSUME wpc \notin {"main", "deinit", "returned"}
      PROVE  InTable = hostHandles /\ Cardinality(hostHandles) = Cardinality(Taken)
  <2>1. WasiTabled
    BY <1>1 DEF WasiInv
  <2>2. InTable = hostHandles
    <3>1. InTable = {wasiTable[fd] : fd \in Taken}
      BY DEF InTable, Taken
    <3>2. /\ \A h \in hostHandles : \E fd \in Taken : wasiTable[fd] = h
          /\ \A fd \in Taken : wasiTable[fd] \in hostHandles
      BY <2>1 DEF WasiTabled
    <3> QED
      BY <3>1, <3>2
  <2> DEFINE f == [fd \in Taken |-> wasiTable[fd]]
  <2>3. f \in Bijection(Taken, hostHandles)
    BY <2>1, Zenon DEF WasiTabled, Bijection, Injection, Surjection, IsInjective
  <2>4. IsFiniteSet(Taken)
    BY TakenFinite
  <2> HIDE DEF f
  <2> QED
    BY <2>2, <2>3, <2>4, FS_Bijection DEF ExistsBijection
<1>2. wpc \in {"deinit", "returned"} => chain = {}
  BY DEF WasiInv, HeldAt
<1>3. ASSUME wpc \in DOMAIN Stages
      PROVE  (Stages[wpc].after \cup Stages[wpc].fails) \ Stages[wpc].makes \subseteq chain
  <2>0. chain = HeldAt[wpc]
    BY DEF WasiInv
  <2>1. CASE wpc = "file" BY <2>0, <2>1 DEF Stages, HeldAt
  <2>2. CASE wpc = "buffer" BY <2>0, <2>2 DEF Stages, HeldAt
  <2>3. CASE wpc = "read" BY <2>0, <2>3 DEF Stages, HeldAt
  <2>4. CASE wpc = "runtime" BY <2>0, <2>4 DEF Stages, HeldAt
  <2>5. CASE wpc = "natives" BY <2>0, <2>5 DEF Stages, HeldAt
  <2>6. CASE wpc = "load" BY <2>0, <2>6 DEF Stages, HeldAt
  <2>7. CASE wpc = "instance" BY <2>0, <2>7 DEF Stages, HeldAt
  <2>8. CASE wpc = "env" BY <2>0, <2>8 DEF Stages, HeldAt
  <2>9. CASE wpc = "start" BY <2>0, <2>9 DEF Stages, HeldAt
  <2> QED
    BY <1>3, <2>1, <2>2, <2>3, <2>4, <2>5, <2>6, <2>7, <2>8, <2>9 DEF Stages
<1>4. MapThenSumSet(LAMBDA i : moved.done[i], DOMAIN moved.done) = SumOf(moved.done, DOMAIN moved.done)
  BY DEF MapThenSumSet, MapThenFoldSet, SumOf, Adds, FirstOf
<1>5. wasiErrno = "ESUCCESS" =>
        /\ moved.told = MapThenSumSet(LAMBDA i : moved.done[i], DOMAIN moved.done)
        /\ \A i, j \in DOMAIN moved.wanted :
             i < j /\ moved.done[i] < (IF moved.kind = "write" THEN moved.wanted[i] ELSE 1) => moved.done[j] = 0
  BY <1>4, Zenon DEF WasiInv, Told
<1> QED
  BY <1>1, <1>2, <1>3, <1>5, Zenon DEF WasiOwned, WasiInv, Taken

\* For tables of any size and any number of loads, what WAMR has alive is what
\* the globals name; and of a WASI program every file is in one entry of its table,
\* all it was run with is gone when it returns, a write is a prefix of its buffers.
THEOREM RuntimeIsOwned == WasmSpec => []RuntimeOwned
<1>1. EngineInv /\ WasiInv => RuntimeOwned
  BY EngineInvOwned, WasiInvOwned DEF RuntimeOwned
<1> QED
  BY <1>1, EngineInitInv, EngineNextInv, WasiInitInv, WasiNextInv, PTL DEF WasmSpec

-----------------------------------------------------------------------------
(* Users.  Where a string begins is the sum of the lengths before it, so    *)
(* that the strings follow one another up to the sum of all.                *)
LEMMA TotalIsThis ==
  ASSUME NEW g
  PROVE  Total(g) = SumOf(g, DOMAIN g)
BY DEF Total, FoldSeq, FoldFunction, FoldFunctionOnSet, MapThenFoldSet, SumOf, Adds, FirstOf

LEMMA SumUpTo ==
  ASSUME NEW g, NEW n \in Nat, \A i \in 1 .. n : g[i] \in Int
  PROVE  /\ \A k \in 1 .. n : SumOf(g, 1 .. k) = g[k] + SumOf(g, 1 .. k - 1)
         /\ \A k \in 0 .. n : SumOf(g, 1 .. k) \in Int
<1> DEFINE all == 1 .. n
<1>1. IsFiniteSet(all) /\ \A i \in all : g[i] \in Int
  BY FS_Interval
<1>2. ASSUME NEW k \in 1 .. n PROVE SumOf(g, 1 .. k) = g[k] + SumOf(g, 1 .. k - 1)
  <2> DEFINE upTo == 1 .. k
  <2>1. upTo \in SUBSET all /\ k \in upTo /\ upTo \ {k} = 1 .. k - 1
    OBVIOUS
  <2> HIDE DEF upTo, all
  <2>2. SumOf(g, upTo) = g[k] + SumOf(g, upTo \ {k})
    <3>1. IsFiniteSet(upTo) /\ \A x \in upTo : g[x] \in Int
      BY <1>1, <2>1, FS_Subset
    <3> QED
      BY <2>1, <3>1, SumTake
  <2> QED
    BY <2>1, <2>2 DEF upTo
<1>3. ASSUME NEW k \in 0 .. n PROVE SumOf(g, 1 .. k) \in Int
  <2> DEFINE upTo == 1 .. k
  <2>1. upTo \in SUBSET all
    OBVIOUS
  <2> HIDE DEF upTo, all
  <2>2. SumOf(g, upTo) \in Int
    BY <1>1, <2>1, SumIsInt
  <2> QED
    BY <2>2 DEF upTo
<1> QED
  BY <1>2, <1>3

LEMMA Totals ==
  ASSUME NEW s \in Seq(Nat)
  PROVE  /\ Total(s) = SumOf(s, 1 .. Len(s))
         /\ \A k \in 0 .. Len(s) : Total(SubSeq(s, 1, k)) = SumOf(s, 1 .. k)
         /\ SumOf(s, 1 .. 0) = 0
         /\ \A k \in 1 .. Len(s) : SumOf(s, 1 .. k) = s[k] + SumOf(s, 1 .. k - 1)
         /\ \A k \in 0 .. Len(s) : SumOf(s, 1 .. k) \in Int
<1>0. Len(s) \in Nat /\ s \in [1 .. Len(s) -> Nat] /\ DOMAIN s = 1 .. Len(s)
  OBVIOUS
<1>1. Total(s) = SumOf(s, 1 .. Len(s))
  BY <1>0, TotalIsThis
<1>2. ASSUME NEW k \in 0 .. Len(s)
      PROVE  Total(SubSeq(s, 1, k)) = SumOf(s, 1 .. k)
  <2> DEFINE t == SubSeq(s, 1, k)
             all == 1 .. k
  <2>1. DOMAIN t = all /\ \A i \in all : t[i] = s[i]
    BY <1>0
  <2>2. IsFiniteSet(all)
    BY FS_Interval
  <2> HIDE DEF t, all
  <2>3. Total(t) = SumOf(t, all)
    BY <2>1, TotalIsThis
  <2>4. SumOf(t, all) = SumOf(s, all)
    BY <2>1, <2>2, SumSame
  <2> QED
    BY <2>3, <2>4 DEF t, all
<1>3. SumOf(s, 1 .. 0) = 0
  <2>1. 1 .. 0 = {}
    OBVIOUS
  <2> QED
    BY <2>1, SumStep, FS_EmptySet
<1>4. \A i \in 1 .. Len(s) : s[i] \in Int
  BY <1>0
<1> QED
  BY <1>0, <1>1, <1>2, <1>3, <1>4, SumUpTo

\* A longer beginning sums up to no less.
LEMMA TotalsGrow ==
  ASSUME NEW s \in Seq(Nat), NEW i \in 0 .. Len(s)
  PROVE  \A j \in i .. Len(s) : SumOf(s, 1 .. i) <= SumOf(s, 1 .. j)
<1> DEFINE Q == {j \in i .. Len(s) : ~(SumOf(s, 1 .. i) <= SumOf(s, 1 .. j))}
<1>0. Len(s) \in Nat /\ \A k \in 1 .. Len(s) : s[k] \in Nat
  OBVIOUS
<1>1. SUFFICES ASSUME Q # {} PROVE FALSE
  OBVIOUS
<1>2. Q \subseteq Nat
  OBVIOUS
<1> DEFINE j == Min(Q)
<1>3. j \in Q /\ \A y \in Q : j <= y
  <2> HIDE DEF Q
  <2> QED
    BY <1>1, <1>2, MinOf
<1> HIDE DEF j
<1>4. j \in i .. Len(s) /\ ~(SumOf(s, 1 .. i) <= SumOf(s, 1 .. j))
  BY <1>3
<1>5. SumOf(s, 1 .. i) \in Int /\ SumOf(s, 1 .. j) \in Int
  BY <1>4, Totals
<1>6. j # i
  BY <1>4, <1>5
<1>7. j - 1 \in i .. Len(s) /\ j \in 1 .. Len(s)
  BY <1>0, <1>4, <1>6
<1>8. j - 1 \notin Q
  BY <1>3, <1>4
<1>9. SumOf(s, 1 .. i) <= SumOf(s, 1 .. j - 1) /\ SumOf(s, 1 .. j - 1) \in Int
  BY <1>7, <1>8, Totals
<1>10. SumOf(s, 1 .. j) = s[j] + SumOf(s, 1 .. j - 1) /\ s[j] \in Nat
  BY <1>0, <1>7, Totals
<1> QED
  BY <1>4, <1>5, <1>9, <1>10

\* What the answer to a lookup says, whichever it is of.
Agrees(a) ==
  /\ a.error = "OK" => a.who = a.key
  /\ a.error = "ENOENT" => a.key \notin Finds(a.call)
  /\ \A i \in DOMAIN a.at :
       /\ a.at[i] + a.needs[i] <= a.buflen
       /\ \A j \in DOMAIN a.at : i < j => a.at[i] + a.needs[i] <= a.at[j]
  /\ a.error = "ERANGE" => \E who \in DOMAIN UserStrings : a.buflen < Total(UserStrings[who])

LEMMA FailsAgrees ==
  ASSUME NEW call, NEW key, NEW buflen, NEW error, error # "OK",
         error = "ENOENT" => key \notin Finds(call),
         error = "ERANGE" => \E who \in DOMAIN UserStrings : buflen < Total(UserStrings[who])
  PROVE  Agrees(Fails(call, key, buflen, error))
<1>1. DOMAIN <<>> = {}
  OBVIOUS
<1>2. LET a == Fails(call, key, buflen, error)
      IN a.call = call /\ a.key = key /\ a.error = error /\ a.buflen = buflen /\ a.at = <<>>
  BY DEF Fails, Unasked
<1> QED
  BY <1>1, <1>2 DEF Agrees

LEMMA CopiedAgrees ==
  ASSUME NEW call, NEW who, NEW strings \in Seq(Nat), NEW buflen \in Nat, ~(buflen < Needed(strings))
  PROVE  Agrees(Copied(call, buflen, who, strings))
<1> DEFINE a == Copied(call, buflen, who, strings)
<1>1. /\ a.error = "OK" /\ a.who = who /\ a.key = who /\ a.buflen = buflen /\ a.needs = strings
      /\ a.at = [i \in DOMAIN strings |-> Total(SubSeq(strings, 1, i - 1))]
  BY DEF Copied
<1>2. DOMAIN strings = 1 .. Len(strings) /\ Len(strings) \in Nat
  OBVIOUS
<1> HIDE DEF a
<1>3. DOMAIN a.at = 1 .. Len(strings)
  BY <1>1, <1>2
<1>4. ASSUME NEW i \in 1 .. Len(strings) PROVE a.at[i] = SumOf(strings, 1 .. i - 1)
  BY <1>1, <1>2, Totals
<1>5. ASSUME NEW i \in 1 .. Len(strings)
      PROVE  a.at[i] + a.needs[i] = SumOf(strings, 1 .. i) /\ SumOf(strings, 1 .. i) \in Int
  <2>0. i \in 0 .. Len(strings) /\ i - 1 \in 0 .. Len(strings)
    BY <1>2
  <2>1. /\ SumOf(strings, 1 .. i) = strings[i] + SumOf(strings, 1 .. i - 1)
        /\ SumOf(strings, 1 .. i) \in Int /\ SumOf(strings, 1 .. i - 1) \in Int
    <3>1. SumOf(strings, 1 .. i) = strings[i] + SumOf(strings, 1 .. i - 1)
      BY Totals
    <3>2. SumOf(strings, 1 .. i) \in Int /\ SumOf(strings, 1 .. i - 1) \in Int
      BY <2>0, Totals
    <3> QED
      BY <3>1, <3>2
  <2>2. a.needs[i] = strings[i] /\ strings[i] \in Nat /\ a.at[i] = SumOf(strings, 1 .. i - 1)
    BY <1>1, <1>2, <1>4
  <2>3. \A x, y \in Int : x + y = y + x
    OBVIOUS
  <2>4. strings[i] \in Int
    BY <2>2
  <2>5. a.at[i] + a.needs[i] = SumOf(strings, 1 .. i)
    BY <2>1, <2>2, <2>3, <2>4, Zenon
  <2> QED
    BY <2>1, <2>5
<1>6. ASSUME NEW i \in 1 .. Len(strings) PROVE a.at[i] + a.needs[i] <= buflen
  <2>1. SumOf(strings, 1 .. i) <= SumOf(strings, 1 .. Len(strings))
    BY <1>2, TotalsGrow
  <2>2. Needed(strings) = SumOf(strings, 1 .. Len(strings)) /\ Needed(strings) \in Int
    BY <1>2, Totals DEF Needed
  <2> QED
    BY <1>5, <2>1, <2>2
<1>7. ASSUME NEW i \in 1 .. Len(strings), NEW j \in 1 .. Len(strings), i < j
      PROVE  a.at[i] + a.needs[i] <= a.at[j]
  <2>1. SumOf(strings, 1 .. i) <= SumOf(strings, 1 .. j - 1)
    BY <1>2, <1>7, TotalsGrow
  <2> QED
    BY <1>4, <1>5, <2>1
<1> QED
  BY <1>1, <1>3, <1>6, <1>7 DEF Agrees, a


LEMMA StringsAre ==
  /\ UserStrings["root"] \in Seq(Nat) /\ UserStrings["mobile"] \in Seq(Nat) /\ GroupStrings \in Seq(Nat)
  /\ DOMAIN UserStrings = {"root", "mobile"} /\ DOMAIN Uid = {"root", "mobile"}
BY DEF UserStrings, GroupStrings, Uid

\* The group takes less than the users.
LEMMA GroupIsLess == Total(GroupStrings) = 17 /\ Total(UserStrings["mobile"]) = 41
<1>1. /\ GroupStrings = <<7, 2, 8>> /\ Len(GroupStrings) = 3
      /\ UserStrings["mobile"] = <<7, 2, 12, 12, 8>> /\ Len(UserStrings["mobile"]) = 5
  BY DEF GroupStrings, UserStrings
<1>2. Total(GroupStrings) = 17
  <2> DEFINE s == GroupStrings
  <2>1. s[1] = 7 /\ s[2] = 2 /\ s[3] = 8 /\ Len(s) = 3
    BY <1>1
  <2> HIDE DEF s
  <2>2. /\ Total(s) = SumOf(s, 1 .. 3) /\ SumOf(s, 1 .. 0) = 0
        /\ \A k \in 1 .. 3 : SumOf(s, 1 .. k) = s[k] + SumOf(s, 1 .. k - 1)
    BY <2>1, Totals, StringsAre DEF s
  <2>3. SumOf(s, 1 .. 1) = 7
    BY <2>1, <2>2
  <2>4. SumOf(s, 1 .. 2) = 9
    BY <2>1, <2>2, <2>3
  <2>5. SumOf(s, 1 .. 3) = 17
    BY <2>1, <2>2, <2>4
  <2> QED
    BY <2>2, <2>5 DEF s
<1>3. Total(UserStrings["mobile"]) = 41
  <2> DEFINE s == UserStrings["mobile"]
  <2>1. s[1] = 7 /\ s[2] = 2 /\ s[3] = 12 /\ s[4] = 12 /\ s[5] = 8 /\ Len(s) = 5
    BY <1>1
  <2> HIDE DEF s
  <2>2. /\ Total(s) = SumOf(s, 1 .. 5) /\ SumOf(s, 1 .. 0) = 0
        /\ \A k \in 1 .. 5 : SumOf(s, 1 .. k) = s[k] + SumOf(s, 1 .. k - 1)
    BY <2>1, Totals, StringsAre DEF s
  <2>3. SumOf(s, 1 .. 1) = 7
    BY <2>1, <2>2
  <2>4. SumOf(s, 1 .. 2) = 9
    BY <2>1, <2>2, <2>3
  <2>5. SumOf(s, 1 .. 3) = 21
    BY <2>1, <2>2, <2>4
  <2>6. SumOf(s, 1 .. 4) = 33
    BY <2>1, <2>2, <2>5
  <2>7. SumOf(s, 1 .. 5) = 41
    BY <2>1, <2>2, <2>6
  <2> QED
    BY <2>2, <2>7 DEF s
<1> QED
  BY <1>2, <1>3

Iterating ==
  /\ pwentIndex \in 0 .. 2 /\ pwents = SubSeq(UserList, 1, pwentIndex)
  /\ grentValid \in BOOLEAN /\ grents \in {<<>>, <<"mobile">>}
  /\ grentValid = TRUE => grents = <<>>

UsersInv == Iterating /\ Agrees(answered)

LEMMA UsersInitInv == UsersInit => UsersInv
<1> SUFFICES ASSUME UsersInit PROVE UsersInv
  OBVIOUS
<1>1. Iterating
  <2>1. SubSeq(<<"root", "mobile">>, 1, 0) = <<>>
    OBVIOUS
  <2>2. pwentIndex = 0 /\ pwents = <<>>
    BY DEF UsersInit
  <2>3. pwentIndex \in 0 .. 2 /\ pwents = SubSeq(UserList, 1, pwentIndex)
    BY <2>1, <2>2 DEF UserList
  <2>4. grentValid \in BOOLEAN /\ grents \in {<<>>, <<"mobile">>} /\ grents = <<>>
    BY DEF UsersInit
  <2> QED
    BY <2>3, <2>4 DEF Iterating
<1>2. /\ Unasked.error = "ENOENT" /\ Unasked.at = <<>> /\ DOMAIN <<>> = {}
      /\ Unasked.key \notin Finds(Unasked.call)
  BY DEF Unasked, Finds
<1> QED
  BY <1>1, <1>2 DEF UsersInit, UsersInv, Agrees

LEMMA FoundAgrees ==
  ASSUME NEW call, NEW who, Found(call, who) PROVE Agrees(answered)'
<1>1. answered'.error = "OK" /\ answered'.who = who /\ answered'.key = who /\ answered'.at = <<>>
  BY DEF Found, Fails, Unasked
<1>2. DOMAIN <<>> = {}
  OBVIOUS
<1> QED
  BY <1>1, <1>2 DEF Agrees

LEMMA LookupInv ==
  ASSUME NEW key \in Keys,
         \/ ixland_getpwnam(key) \/ ixland_getgr(key)
         \/ key # "NULL" /\ ixland_getpwuid(key)
  PROVE  Agrees(answered)' /\ UNCHANGED iterators
<1>1. UNCHANGED iterators
  BY DEF ixland_getpwnam, ixland_getgr, ixland_getpwuid
<1>2. \/ \E call, who : Found(call, who)
      \/ \E call, error : /\ answered' = Fails(call, key, 0, error)
                          /\ error \in {"EINVAL", "ENOENT"} /\ key \notin Finds(call)
  BY StringsAre DEF ixland_getpwnam, ixland_getgr, ixland_getpwuid, Absent, Finds
<1>3. CASE \E call, who : Found(call, who)
  BY <1>1, <1>3, FoundAgrees
<1>4. CASE \E call, error : /\ answered' = Fails(call, key, 0, error)
                          /\ error \in {"EINVAL", "ENOENT"} /\ key \notin Finds(call)
  <2>1. PICK call, error : /\ answered' = Fails(call, key, 0, error)
                           /\ error \in {"EINVAL", "ENOENT"} /\ key \notin Finds(call)
    BY <1>4
  <2>2. Agrees(answered')
    BY <2>1, FailsAgrees
  <2> QED
    BY <1>1, <2>2 DEF Agrees
<1> QED
  BY <1>2, <1>3, <1>4

LEMMA ReentrantInv ==
  ASSUME Reentrant PROVE Agrees(answered)' /\ UNCHANGED iterators
<1>1. PICK key \in Keys, buflen \in BufLens :
        \/ ixland_getpwnam_r(key, buflen) \/ ixland_getgr_r(key, buflen)
        \/ key # "NULL" /\ ixland_getpwuid_r(key, buflen)
  BY DEF Reentrant
<1>2. buflen \in Nat /\ UNCHANGED iterators
  BY UsersAssumption DEF UsersAssumption, Reentrant
<1>3. CASE ixland_getpwnam_r(key, buflen)
  <2>1. \/ answered' = Fails("pwnam", key, buflen, "EINVAL")
        \/answered' = Fails("pwnam", key, buflen, "ENOENT") /\ key \notin Finds("pwnam")
        \/ answered' = Fails("pwnam", key, buflen, "ERANGE") /\ buflen < Total(UserStrings["mobile"])
        \/ /\ ~(buflen < Needed(UserStrings["mobile"])) /\ key = "mobile"
           /\ answered' = Copied("pwnam", buflen, key, UserStrings["mobile"])
    BY <1>3 DEF Finds, ixland_getpwnam_r, Needed
  <2>2. Agrees(answered')
    BY <1>2, <2>1, FailsAgrees, CopiedAgrees, StringsAre
  <2> QED
    BY <1>2, <2>2 DEF Agrees
<1>4. CASE ixland_getgr_r(key, buflen)
  <2>1. \/ answered' = Fails("gr", key, buflen, "EINVAL")
        \/answered' = Fails("gr", key, buflen, "ENOENT") /\ key \notin Finds("gr")
        \/ answered' = Fails("gr", key, buflen, "ERANGE") /\ buflen < Total(GroupStrings)
        \/ /\ ~(buflen < Needed(GroupStrings)) /\ key = "mobile"
           /\ answered' = Copied("gr", buflen, key, GroupStrings)
    BY <1>4 DEF Finds, ixland_getgr_r, Needed
  <2>2. buflen < Total(GroupStrings) => buflen < Total(UserStrings["mobile"])
    BY <1>2, GroupIsLess
  <2>3. Agrees(answered')
    BY <1>2, <2>1, <2>2, FailsAgrees, CopiedAgrees, StringsAre
  <2> QED
    BY <1>2, <2>3 DEF Agrees
<1>5. CASE key # "NULL" /\ ixland_getpwuid_r(key, buflen)
  <2>1. \/ answered' = Fails("pwuid", key, buflen, "ENOENT") /\ key \notin Finds("pwuid")
        \/ /\ answered' = Fails("pwuid", key, buflen, "ERANGE") /\ key \in DOMAIN UserStrings
           /\ buflen < Total(UserStrings[key])
        \/ /\ ~(buflen < Needed(UserStrings[key])) /\ key \in {"root", "mobile"}
           /\ answered' = Copied("pwuid", buflen, key, UserStrings[key])
    BY <1>5, StringsAre DEF Finds, ixland_getpwuid_r, Needed
  <2>2. Agrees(answered')
    BY <1>2, <2>1, FailsAgrees, CopiedAgrees, StringsAre
  <2> QED
    BY <1>2, <2>2 DEF Agrees
<1> QED
  BY <1>1, <1>3, <1>4, <1>5

LEMMA UsersNextInv == UsersInv /\ [UsersNext]_usersVars => UsersInv'
<1> SUFFICES ASSUME UsersInv, [UsersNext]_usersVars PROVE UsersInv'
  OBVIOUS
<1>1. ASSUME UNCHANGED iterators PROVE Iterating'
  BY <1>1 DEF iterators, UsersInv, Iterating
<1>2. ASSUME UNCHANGED answered PROVE Agrees(answered)'
  BY <1>2, Zenon DEF UsersInv, Agrees
<1>3. CASE UNCHANGED usersVars
  BY <1>1, <1>2, <1>3 DEF usersVars, iterators, UsersInv
<1>4. ASSUME NEW key \in Keys,
             \/ ixland_getpwnam(key) \/ ixland_getgr(key)
             \/ key # "NULL" /\ ixland_getpwuid(key)
      PROVE  UsersInv'
  BY <1>1, <1>4, LookupInv DEF UsersInv
<1>5. CASE Reentrant
  BY <1>1, <1>5, ReentrantInv DEF UsersInv
<1>6. CASE ixland_setpwent
  BY <1>2, <1>6 DEF ixland_setpwent, UsersInv, Iterating, UserList
<1>7. CASE ixland_getpwent
  <2>1. /\ pwentIndex \in 0 .. 1 /\ pwentIndex' = pwentIndex + 1
        /\ pwents' = Append(pwents, UserList[pwentIndex + 1])
        /\ UNCHANGED <<grentValid, grents, answered>>
    BY <1>7 DEF ixland_getpwent, UsersInv, Iterating, UserList
  <2>2. pwents' = SubSeq(UserList, 1, pwentIndex')
    <3>1. CASE pwentIndex = 0
      BY <2>1, <3>1 DEF UsersInv, Iterating, UserList
    <3>2. CASE pwentIndex = 1
      BY <2>1, <3>2 DEF UsersInv, Iterating, UserList
    <3> QED
      BY <2>1, <3>1, <3>2
  <2>3. Iterating'
    BY <2>1, <2>2 DEF UsersInv, Iterating
  <2> QED
    BY <1>2, <2>1, <2>3 DEF UsersInv
<1>8. CASE ixland_getgrent
  <2>1. /\ grents = <<>> /\ grents' = Append(grents, "mobile") /\ grentValid' = FALSE
        /\ UNCHANGED <<pwentIndex, pwents, answered>>
    BY <1>8 DEF ixland_getgrent, UsersInv, Iterating
  <2>2. grents' = <<"mobile">>
    BY <2>1
  <2> QED
    BY <1>2, <2>1, <2>2 DEF UsersInv, Iterating
<1>9. ASSUME NEW valid \in BOOLEAN, ixland_setgrent(valid) PROVE UsersInv'
  BY <1>2, <1>9 DEF ixland_setgrent, UsersInv, Iterating
<1> QED
  BY <1>3, <1>4, <1>5, <1>6, <1>7, <1>8, <1>9 DEF UsersNext, Keys

\* For buffers of any sizes: iterations are not disturbed by lookups and return
\* every entry once; a lookup answers what it was asked, with its strings in the
\* caller's buffer and apart.
THEOREM UsersAreAgreed == UsersSpec => []UsersAgree
<1>1. ASSUME UsersInv PROVE UsersAgree
  <2>1. IsPrefix(pwents, UserList) /\ Len(pwents) = pwentIndex
    BY <1>1 DEF UsersInv, Iterating, IsPrefix, UserList
  <2>2. Len(grents) <= 1 /\ (grentValid => grents = <<>>)
    BY <1>1 DEF UsersInv, Iterating
  <2> QED
    BY <1>1, <2>1, <2>2, Zenon DEF UsersInv, Agrees, UsersAgree
<1> QED
  BY <1>1, UsersInitInv, UsersNextInv, PTL DEF UsersSpec
=============================================================================
