------------------------------- MODULE Epoll --------------------------------
(***************************************************************************)
(* IXLandSystem/fs/eventpoll.c: an epoll instance on a kqueue.             *)
(*                                                                         *)
(* An item per descriptor keeps what was asked for; a knote per descriptor *)
(* and filter, in the kernel, points to the item.  registered_events is    *)
(* never set, so that nothing but the close of the descriptor removes a    *)
(* knote: CTL_DEL frees an item that knotes still point to, CTL_MOD and    *)
(* one-shot take nothing back; and a registration that fails half way      *)
(* leaves what it registered.  Waiters and epoll_ctl share no lock but the *)
(* one around each change.                                                 *)
(*                                                                         *)
(* `armed', `dropped' and `loose' are history: they only say what the      *)
(* properties are about.                                                   *)
(***************************************************************************)
EXTENDS Integers, FiniteSets

CONSTANTS
  EpFds,      \* descriptors
  Items,      \* epitem_t blocks
  Waiters,    \* threads that call epoll_wait
  MaxEvents,  \* its argument
  Asked,      \* the events programs ask for: sets of filters, as one-shot changes nothing
  NoItem

ASSUME EpollAssumption ==
  /\ NoItem \notin Items
  /\ MaxEvents \in Nat \ {0}
  /\ \A events \in Asked : events \subseteq {"READ", "WRITE"}

VARIABLES
  instance,  \* the instance: "none" or "open"
  open,      \* descriptors that are open
  items,     \* the item of each descriptor (the hash table)
  wants,     \* item->event.events
  knote,     \* the kernel's: udata of each descriptor and filter
  got,       \* what a waiter was given by kevent and has not yet copied
  armed,     \* descriptors not closed since an epoll_ctl that took them succeeded last
  dropped,   \* descriptors deleted, or refused when added, since they were opened
  loose      \* those of each waiter: before its events were collected, or since

epVars == <<instance, open, items, wants, knote, got, armed, dropped, loose>>
history == <<armed, dropped, loose>>

Filters == {"READ", "WRITE"}

EpInit ==
  /\ instance = "none"
  /\ open = {}
  /\ items = [fd \in EpFds |-> NoItem]
  /\ wants = [i \in Items |-> {}]
  /\ knote = [fd \in EpFds |-> [f \in Filters |-> NoItem]]
  /\ got = [w \in Waiters |-> {}]
  /\ armed = {} /\ dropped = {} /\ loose = [w \in Waiters |-> {}]

Live == {items[fd] : fd \in EpFds} \ {NoItem}

---------------------------------------------------------------------------
epoll_create1 ==
  /\ instance = "none"
  /\ instance' = "open"
  /\ UNCHANGED <<open, items, wants, knote, got, history>>

\* Faulty: a descriptor asked to be read and written is only read.
FirstFilter(events) == IF "READ" \in events THEN {"READ"} ELSE events \cap Filters
epoll_build_kevents(events) == events \cap Filters

\* EV_ADD: a knote that exists gets the new udata.
Armed(fd, filters, i) ==
  [knote EXCEPT ![fd] = [f \in Filters |-> IF f \in filters THEN i ELSE knote[fd][f]]]

\* kevent stops at the first filter it refuses: reading comes before writing.
Refused(filters) == {{}} \cup (IF filters = Filters THEN {{"READ"}} ELSE {})

Drops(fd) ==
  /\ armed' = armed \ {fd} /\ dropped' = dropped \cup {fd}
  /\ loose' = [w \in Waiters |-> loose[w] \cup {fd}]

CtlAdd(fd, i, events) ==
  /\ instance = "open" /\ fd \in open /\ items[fd] = NoItem
  /\ i \notin Live
  /\ items' = [items EXCEPT ![fd] = i]
  /\ wants' = [wants EXCEPT ![i] = events]
  /\ knote' = Armed(fd, epoll_build_kevents(events), i)
  /\ armed' = armed \cup {fd}
  /\ UNCHANGED <<instance, open, got, dropped, loose>>

\* The item is freed, whatever kevent had registered for it.
CtlAddFails(fd, i, events) ==
  /\ instance = "open" /\ fd \in open /\ items[fd] = NoItem
  /\ i \notin Live
  /\ \E filters \in Refused(epoll_build_kevents(events)) : knote' = Armed(fd, filters, i)
  /\ Drops(fd)
  /\ UNCHANGED <<instance, open, items, wants, got>>

CtlMod(fd, events) ==
  /\ fd \in open /\ items[fd] # NoItem
  /\ wants' = [wants EXCEPT ![items[fd]] = events]
  /\ knote' = Armed(fd, epoll_build_kevents(events), items[fd])
  /\ armed' = armed \cup {fd}
  /\ UNCHANGED <<instance, open, items, got, dropped, loose>>

\* The item asks for the new events before kevent is asked for them.
CtlModFails(fd, events) ==
  /\ fd \in open /\ items[fd] # NoItem
  /\ wants' = [wants EXCEPT ![items[fd]] = events]
  /\ \E filters \in Refused(epoll_build_kevents(events)) : knote' = Armed(fd, filters, items[fd])
  /\ armed' = armed \ {fd}
  /\ UNCHANGED <<instance, open, items, got, dropped, loose>>

CtlDel(fd) ==
  /\ fd \in open /\ items[fd] # NoItem
  /\ items' = [items EXCEPT ![fd] = NoItem]
  /\ wants' = [wants EXCEPT ![items[fd]] = {}]
  /\ Drops(fd)
  /\ UNCHANGED <<instance, open, knote, got>>

---------------------------------------------------------------------------
(* epoll_pwait: kevent without the lock, then each event in turn.          *)

Knotes == {[fd |-> c[1], filter |-> c[2], udata |-> knote[c[1]][c[2]]] : c \in open \X Filters}

KeventReturns(w) ==
  /\ instance = "open" /\ got[w] = {}
  /\ \E E \in SUBSET {e \in Knotes : e.udata # NoItem} :
       /\ E # {} /\ Cardinality(E) <= MaxEvents
       /\ got' = [got EXCEPT ![w] = E]
  /\ loose' = [loose EXCEPT ![w] = dropped]
  /\ UNCHANGED <<instance, open, items, wants, knote, armed, dropped>>

\* The one-shot branch deletes the filters in registered_events: none.
CopyEvent(w, e) ==
  /\ e \in got[w]
  /\ got' = [got EXCEPT ![w] = @ \ {e}]
  /\ UNCHANGED <<instance, open, items, wants, knote, history>>

---------------------------------------------------------------------------
(* The host: close drops the knotes of a descriptor, whose number is used  *)
(* again by the next open; the instance is not told.                       *)

HostOpen(fd) ==
  /\ fd \notin open
  /\ open' = open \cup {fd}
  /\ UNCHANGED <<instance, items, wants, knote, got, history>>

HostClose(fd) ==
  /\ fd \in open
  /\ open' = open \ {fd}
  /\ knote' = [knote EXCEPT ![fd] = [f \in Filters |-> NoItem]]
  /\ armed' = armed \ {fd} /\ dropped' = dropped \ {fd}
  /\ UNCHANGED <<instance, items, wants, got, loose>>

EpNext ==
  \/ epoll_create1
  \/ \E fd \in EpFds :
       \/ HostOpen(fd) \/ HostClose(fd) \/ CtlDel(fd)
       \/ \E events \in Asked :
            \/ CtlMod(fd, events) \/ CtlModFails(fd, events)
            \/ \E i \in Items : CtlAdd(fd, i, events) \/ CtlAddFails(fd, i, events)
  \/ \E w \in Waiters : KeventReturns(w) \/ \E e \in got[w] : CopyEvent(w, e)

EpSpec == EpInit /\ [][EpNext]_epVars

---------------------------------------------------------------------------
\* A descriptor gets every event that the last epoll_ctl asked for, if that one
\* succeeded: after any number of changes, failures, deletions, closes and reuses
\* of its number.  And a waiter copies from the item of the event's descriptor,
\* unless the descriptor was deleted, or refused when it was added, between its
\* opening and the copy.
EpollSound ==
  /\ \A fd \in armed :
       items[fd] # NoItem /\ \A f \in Filters \cap wants[items[fd]] : knote[fd][f] = items[fd]
  /\ \A w \in Waiters : \A e \in got[w] : items[e.fd] = e.udata \/ e.fd \in loose[w]

\* linux/epoll.h:23: EPOLL_CTL_DEL is to "Remove a file descriptor from the
\* interface": no event is collected of one that was deleted and not added again
\* (nor of one that was refused; with a filter for each, nothing is left of those).
NothingOfDeleted ==
  [][\A w \in Waiters : got[w] = {} =>
       \A e \in got'[w] : items[e.fd] # NoItem \/ e.fd \notin dropped]_epVars
=============================================================================
