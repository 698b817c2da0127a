-------------------------------- MODULE Poll --------------------------------
(***************************************************************************)
(* IXLandSystem/fs/select.c: poll and select, each on a kqueue of its own. *)
(*                                                                         *)
(* A call looks at its descriptors, registers what is asked with the       *)
(* kqueue, and waits.  Between the look and the registration another       *)
(* thread may close a descriptor, and between the registration and the     *)
(* return too.  poll neither counts nor returns early for a descriptor     *)
(* that was closed as long as it waits for others.  select asks of an      *)
(* event only whether it brings urgent data, never what was asked of the   *)
(* descriptor: urgent data goes to exceptfds, or to no set if there is     *)
(* none, and is counted either way; it hides that there is data to read.   *)
(*                                                                         *)
(* Programs name a descriptor once in a call of poll.  The end of a file   *)
(* (EV_EOF) is left out.                                                   *)
(***************************************************************************)
EXTENDS Integers, FiniteSets

CONSTANTS
  PollFds,  \* the descriptors
  Masks,    \* signal masks of the thread
  FirstMask

ASSUME PollAssumption == IsFiniteSet(PollFds)

VARIABLES
  opened,    \* descriptors that are open, at the host
  ready,     \* the host's: "r", "w" and "x" (urgent data) of each descriptor
  pollAt,    \* where the call is
  pollCall,  \* "poll" or "select"
  want,      \* what is asked of each descriptor
  fdSets,    \* the sets that select has, NULL or not: "r", "w" and "x"
  changes,   \* changelist, then the knotes: a descriptor and a filter each
  revents,   \* what is reported of each descriptor, for select in the sets
  count,     \* the result
  threadMask, oldmask

masks == <<threadMask, oldmask>>
hostSide == <<opened, ready>>
asking == <<pollCall, want, fdSets>>
pollVars == <<hostSide, pollAt, asking, changes, revents, count, masks>>

Nothing == [fd \in PollFds |-> {}]

PollInit ==
  /\ opened = PollFds /\ ready = Nothing
  /\ pollAt = "out" /\ pollCall = "poll" /\ want = Nothing /\ fdSets = {}
  /\ changes = {} /\ revents = Nothing /\ count = 0
  /\ threadMask = FirstMask /\ oldmask = FirstMask

\* ppoll and pselect put the caller's mask back, whatever became of the call.
\* Faulty: only when it succeeded.
RestoredIfDone(ret) == IF ret >= 0 THEN oldmask ELSE threadMask
Restored(ret) == oldmask

Returns(ret) ==
  /\ pollAt' = "out" /\ count' = ret
  /\ threadMask' = Restored(ret) /\ changes' = {} /\ want' = Nothing /\ fdSets' = {}
  /\ UNCHANGED <<hostSide, pollCall, oldmask>>

---------------------------------------------------------------------------
(* The call looks at its descriptors                                       *)

Enters(name, asked, sets, newMask) ==
  /\ pollAt = "out" /\ pollAt' = "entered"
  /\ pollCall' = name /\ want' = asked /\ fdSets' = sets
  /\ revents' = IF name = "select" THEN asked ELSE Nothing
  /\ oldmask' = threadMask /\ threadMask' = newMask /\ count' = 0
  /\ UNCHANGED <<hostSide, changes>>

poll(asked, newMask) ==
  (\A fd \in PollFds : "x" \notin asked[fd]) /\ Enters("poll", asked, {}, newMask)
select(asked, sets, newMask) ==
  (\A fd \in PollFds : asked[fd] \subseteq sets) /\ Enters("select", asked, sets, newMask)

Closed == {fd \in PollFds : want[fd] # {} /\ fd \notin opened}
Looks == changes' = {c \in opened \X {"r", "w", "x"} : c[2] \in want[c[1]]} /\ pollAt' = "built"

\* Without descriptors poll sleeps, or pauses until a signal: EINTR.
SleepsOnly ==
  /\ pollAt = "entered" /\ want = Nothing
  /\ \E ret \in IF pollCall = "poll" THEN {0, -1} ELSE {0} : Returns(ret)
  /\ UNCHANGED revents

PollLooks ==
  /\ pollAt = "entered" /\ pollCall = "poll" /\ want # Nothing /\ Looks
  /\ revents' = [fd \in PollFds |-> IF fd \in Closed THEN {"nval"} ELSE {}]
  /\ UNCHANGED <<hostSide, asking, count, masks>>

\* EBADF leaves the sets as they were; otherwise they are emptied.
SelectRefuses ==
  /\ pollAt = "entered" /\ pollCall = "select" /\ Closed # {}
  /\ Returns(-1)
  /\ UNCHANGED revents

SelectLooks ==
  /\ pollAt = "entered" /\ pollCall = "select" /\ want # Nothing /\ Closed = {} /\ Looks
  /\ revents' = Nothing
  /\ UNCHANGED <<hostSide, asking, count, masks>>

\* However many descriptors were closed, the result is 1.
PollNothingToWaitFor ==
  /\ pollAt = "built" /\ changes = {}
  /\ Returns(1)
  /\ UNCHANGED revents

---------------------------------------------------------------------------
(* kevent: registers the changes, and waits                                *)

\* poll takes urgent data for data to read.
kfilter_to_poll_revents(event) == {IF event = "x" THEN "r" ELSE event}

\* The set select marks, if it has it.
MarkedSet(event) == {event} \cap fdSets

Marks(event) == IF pollCall = "poll" THEN kfilter_to_poll_revents(event) ELSE MarkedSet(event)

Copies(events, errors) ==
  /\ revents' = [fd \in PollFds |->
       revents[fd] \cup UNION {Marks(c[2]) : c \in {d \in events : d[1] = fd}}
                   \cup {e \in errors : \E c \in events : c[1] = fd}]
  /\ Returns(Cardinality(events))

Gone == {c \in changes : c[1] \notin opened}

\* Data and urgent data are one filter, and one knote.
Registers ==
  /\ pollAt = "built" /\ changes # {} /\ Gone = {}
  /\ pollAt' = "waiting"
  /\ changes' = {<<c[1], IF c[2] = "x" THEN "r" ELSE c[2]>> : c \in changes}
  /\ UNCHANGED <<hostSide, asking, revents, count, masks>>

\* A change that fails comes back as an event, without any wait; select takes it
\* for an event like any other.
RegisterFails ==
  /\ pollAt = "built" /\ Gone # {}
  /\ Copies(Gone, IF pollCall = "poll" THEN {"err"} ELSE {})

Events == {c \in changes : c[2] \in ready[c[1]]}

\* EV_OOBAND: the event of the read filter says that there is urgent data.
Brings(c) == <<c[1], IF c[2] = "r" /\ "x" \in ready[c[1]] THEN "x" ELSE c[2]>>

KeventReports ==
  /\ pollAt = "waiting" /\ Events # {}
  /\ Copies({Brings(c) : c \in Events}, {})

TimesOut ==
  /\ pollAt = "waiting" /\ Events = {}
  /\ Copies({}, {})

Interrupted ==
  /\ pollAt = "waiting"
  /\ Returns(-1)
  /\ UNCHANGED revents

---------------------------------------------------------------------------
(* The host, external                                                      *)

Switched(events, event) == IF event \in events THEN events \ {event} ELSE events \cup {event}
BecomesReady(fd, event) ==
  /\ fd \in opened
  /\ ready' = [ready EXCEPT ![fd] = Switched(@, event)]
  /\ "x" \in ready'[fd] => "r" \in ready'[fd]
  /\ UNCHANGED <<opened, pollAt, asking, changes, revents, count, masks>>

\* A descriptor that is closed takes its knotes along.
PollFdCloses(fd) ==
  /\ fd \in opened
  /\ opened' = opened \ {fd} /\ ready' = [ready EXCEPT ![fd] = {}]
  /\ changes' = IF pollAt = "waiting" THEN {c \in changes : c[1] # fd} ELSE changes
  /\ UNCHANGED <<pollAt, asking, revents, count, masks>>

PollFdOpens(fd) ==
  /\ fd \notin opened
  /\ opened' = opened \cup {fd}
  /\ UNCHANGED <<ready, pollAt, asking, changes, revents, count, masks>>

PollNext ==
  \/ \E asked \in [PollFds -> SUBSET {"r", "w", "x"}], newMask \in Masks :
       \/ poll(asked, newMask)
       \/ \E sets \in SUBSET {"r", "w", "x"} : select(asked, sets, newMask)
  \/ SleepsOnly \/ PollLooks \/ SelectRefuses \/ SelectLooks \/ PollNothingToWaitFor
  \/ Registers \/ RegisterFails \/ KeventReports \/ TimesOut \/ Interrupted
  \/ \E fd \in PollFds :
       \/ PollFdCloses(fd) \/ PollFdOpens(fd)
       \/ \E event \in {"r", "w", "x"} : BecomesReady(fd, event)

PollSpec == PollInit /\ [][PollNext]_pollVars

---------------------------------------------------------------------------
CallEnds == pollAt # "out" /\ pollAt' = "out"
Said(fd) == revents'[fd] \cap {"r", "w", "x"}

\* What a call of poll or select that waited may say of a descriptor: only what
\* is so, and only of a filter that was asked for; poll only what was asked for.
SaysOnly(fd) ==
  /\ Said(fd) \subseteq ready[fd]
  /\ "w" \in Said(fd) => "w" \in want[fd]
  /\ Said(fd) \cap {"r", "x"} # {} => want[fd] \cap {"r", "x"} # {}
  /\ pollCall = "poll" => Said(fd) \subseteq want[fd]

\* What it must say: all that is so, but that select tells urgent data, if it has
\* a set for it, in place of data to read.
SaysAll(fd) ==
  \A c \in changes : c[1] = fd /\ c[2] \in ready[fd] =>
    \/ c[2] \in Said(fd)
    \/ pollCall = "select" /\ c[2] = "r" /\ "x" \in ready[fd] /\ {"x"} \cap fdSets \subseteq Said(fd)
    \/ pollCall = "select" /\ c[2] \notin fdSets

EndsWell ==
  /\ threadMask' = oldmask
  /\ pollAt = "waiting" /\ count' >= 0 =>
       /\ \A fd \in PollFds : SaysOnly(fd) /\ SaysAll(fd)
       /\ count' = 0 => Events = {}

\* Whatever way a call ends, through errors, signals and descriptors that other
\* threads close under it, the thread has its mask again; and a call that waited
\* says what SaysOnly and SaysAll allow, and returns as many as are so, and 0 only
\* if nothing that it waited for is.
PollFaithful == [][CallEnds => EndsWell]_pollVars
=============================================================================
