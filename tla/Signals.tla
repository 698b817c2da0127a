------------------------------ MODULE Signals ------------------------------
(***************************************************************************)
(* IXLandSystem/kernel/signal.c: masks and pending sets, pause and         *)
(* sigsuspend, the senders that wake them, and alarm.                      *)
(*                                                                         *)
(* A task waits on its wait_cond with its wait_lock held; a sender adds to *)
(* the pending set and broadcasts with the task's other mutex, task->lock, *)
(* held.  So a sender's two steps fall anywhere between the sleeper's      *)
(* test, its count in `waiters' and its going to sleep.  wait_lock has one *)
(* user, the task itself, and is left out.  Nothing ever takes a signal    *)
(* off the pending set, and the mask is stored but never consulted.        *)
(***************************************************************************)
EXTENDS Integers

CONSTANTS
  Sleepers,  \* tasks that call pause and sigsuspend
  Senders,   \* threads that call kill
  SigNums,   \* signal numbers, SIGKILL and SIGSTOP aside
  Seconds,   \* arguments of alarm
  MaxTime,   \* bound: the clock
  NoTask

ASSUME SignalsAssumption ==
  /\ Seconds \subseteq Nat
  /\ MaxTime \in Nat
  /\ NoTask \notin Sleepers

VARIABLES
  blocked, pending,  \* task->sighand->blocked, ->pending
  waiters,           \* task->waiters
  saved,             \* sigsuspend's old_mask
  spc,               \* where each sleeper stands
  missed,            \* history: whom a broadcast found neither running nor asleep
  target,            \* the task whose lock a sender holds, between its two steps
  alarm,             \* alarm_active, alarm_remaining, alarm_set_time
  answer,            \* what alarm returned last
  clock              \* time(NULL)

mask == <<blocked, saved>>
sleep == <<waiters, spc, missed>>
alarms == <<alarm, answer, clock>>
sigVars == <<mask, pending, sleep, target, alarms>>

Unarmed == [active |-> FALSE, remaining |-> 0, set |-> 0]

SigInit ==
  /\ blocked = [t \in Sleepers |-> {}]
  /\ pending = [t \in Sleepers |-> {}]
  /\ waiters = [t \in Sleepers |-> 0]
  /\ saved = [t \in Sleepers |-> {}]
  /\ spc = [t \in Sleepers |-> "run"]
  /\ missed = {}
  /\ target = [s \in Senders |-> NoTask]
  /\ alarm = Unarmed
  /\ answer = 0
  /\ clock = 1

Goes(t, from, to) == spc[t] \in from /\ spc' = [spc EXCEPT ![t] = to]

---------------------------------------------------------------------------
(* Masks                                                                   *)

Blocks(t, set) == blocked[t] \cup set
Unblocks(t, set) == blocked[t] \ set

sigprocmask(t, set) ==
  /\ spc[t] = "run"
  /\ \E new \in {Blocks(t, set), Unblocks(t, set), set} :
       blocked' = [blocked EXCEPT ![t] = new]
  /\ UNCHANGED <<saved, pending, sleep, target, alarms>>

---------------------------------------------------------------------------
(* pause: test the pending set, count oneself, sleep, and test again.      *)

\* Faulty: the count stays up on the way out.
StaysCounted(t) == waiters
CountOut(t) == [waiters EXCEPT ![t] = @ - 1]

CallPause(t) ==
  /\ Goes(t, {"run"}, "test")
  /\ UNCHANGED <<mask, pending, waiters, missed, target, alarms>>

PauseReturnsNow(t) ==
  /\ pending[t] # {}
  /\ Goes(t, {"test"}, "run")
  /\ missed' = missed \ {t}
  /\ UNCHANGED <<mask, pending, waiters, target, alarms>>

PauseFindsNone(t) ==
  /\ pending[t] = {}
  /\ Goes(t, {"test"}, "empty")
  /\ UNCHANGED <<mask, pending, waiters, missed, target, alarms>>

PauseCounts(t) ==
  /\ Goes(t, {"empty"}, "counted")
  /\ waiters' = [waiters EXCEPT ![t] = @ + 1]
  /\ UNCHANGED <<mask, pending, missed, target, alarms>>

PauseSleeps(t) ==
  /\ Goes(t, {"counted"}, "asleep")
  /\ UNCHANGED <<mask, pending, waiters, missed, target, alarms>>

PauseWakes(t) ==
  /\ Goes(t, {"woken"}, "test")
  /\ waiters' = CountOut(t)
  /\ UNCHANGED <<mask, pending, missed, target, alarms>>

---------------------------------------------------------------------------
(* sigsuspend: replace the mask, then sleep once, without any test.        *)

SuspendMask(t, set) ==
  /\ Goes(t, {"run"}, "masked")
  /\ saved' = [saved EXCEPT ![t] = blocked[t]]
  /\ blocked' = [blocked EXCEPT ![t] = set]
  /\ UNCHANGED <<pending, waiters, missed, target, alarms>>

SuspendCounts(t) ==
  /\ Goes(t, {"masked"}, "ready")
  /\ waiters' = [waiters EXCEPT ![t] = @ + 1]
  /\ UNCHANGED <<mask, pending, missed, target, alarms>>

SuspendSleeps(t) ==
  /\ Goes(t, {"ready"}, "suspended")
  /\ UNCHANGED <<mask, pending, waiters, missed, target, alarms>>

SuspendReturns(t) ==
  /\ Goes(t, {"resumed"}, "run")
  /\ waiters' = CountOut(t)
  /\ blocked' = [blocked EXCEPT ![t] = saved[t]]
  /\ missed' = missed \ {t}
  /\ UNCHANGED <<saved, pending, target, alarms>>

---------------------------------------------------------------------------
(* kill and raise, under task->lock                                        *)

\* In pause after its test, or in sigsuspend, and not asleep yet.
Window == {"empty", "counted", "masked", "ready"}

KillAdds(s, t, sig) ==
  /\ target[s] = NoTask
  /\ \A other \in Senders : target[other] # t     \* task->lock
  /\ pending' = [pending EXCEPT ![t] = @ \cup {sig}]
  /\ target' = [target EXCEPT ![s] = t]
  /\ UNCHANGED <<mask, sleep, alarms>>

Awakened(t) == CASE spc[t] = "asleep" -> "woken"
                 [] spc[t] = "suspended" -> "resumed"
                 [] OTHER -> spc[t]

\* Faulty: a single sleeper is passed by.
CountsTwo(t) == waiters[t] > 1
Counts(t) == waiters[t] > 0

KillWakes(s) ==
  LET t == target[s] IN
  /\ t # NoTask
  /\ missed' = IF spc[t] \in Window THEN missed \cup {t} ELSE missed
  /\ spc' = IF Counts(t) THEN [spc EXCEPT ![t] = Awakened(t)] ELSE spc
  /\ target' = [target EXCEPT ![s] = NoTask]
  /\ UNCHANGED <<mask, pending, waiters, alarms>>

\* wait_cond is waitpid's too, and a condition may wake up by itself.
StrayWake(t) ==
  /\ spc[t] \in {"asleep", "suspended"}
  /\ spc' = [spc EXCEPT ![t] = Awakened(t)]
  /\ UNCHANGED <<mask, pending, waiters, missed, target, alarms>>

---------------------------------------------------------------------------
(* alarm: one record for the whole library, and no delivery.               *)

Elapsed == clock - alarm.set
\* Faulty: the difference is taken however late it is.
AlwaysRuns == TRUE
StillRuns == Elapsed < alarm.remaining
old_remaining ==
  IF alarm.active /\ alarm.set > 0 /\ StillRuns
  THEN alarm.remaining - Elapsed ELSE 0

SetAlarm(seconds) ==
  /\ answer' = old_remaining
  /\ alarm' = IF seconds = 0 THEN Unarmed
              ELSE [active |-> TRUE, remaining |-> seconds, set |-> clock]
  /\ UNCHANGED <<mask, pending, sleep, target, clock>>

\* Time passes, or the clock is set, back too.
ClockMoves ==
  /\ clock' \in 0..MaxTime
  /\ UNCHANGED <<mask, pending, sleep, target, alarm, answer>>

---------------------------------------------------------------------------
Sleeper(t) ==
  \/ PauseReturnsNow(t) \/ PauseFindsNone(t) \/ PauseCounts(t) \/ PauseSleeps(t) \/ PauseWakes(t)
  \/ SuspendCounts(t) \/ SuspendSleeps(t) \/ SuspendReturns(t)

SigNext ==
  \/ \E t \in Sleepers :
       \/ Sleeper(t) \/ CallPause(t) \/ StrayWake(t)
       \/ \E set \in SUBSET SigNums : sigprocmask(t, set) \/ SuspendMask(t, set)
  \/ \E s \in Senders : KillWakes(s) \/ \E t \in Sleepers, sig \in SigNums : KillAdds(s, t, sig)
  \/ (\E n \in Seconds : SetAlarm(n)) \/ ClockMoves

SigSpec == SigInit /\ [][SigNext]_sigVars

\* Threads run; kill's broadcast follows once it holds the lock.
SigFairness ==
  /\ \A t \in Sleepers : WF_sigVars(Sleeper(t))
  /\ \A s \in Senders : WF_sigVars(KillWakes(s))

---------------------------------------------------------------------------
\* A task in pause with a signal pending, or in sigsuspend while one is sent,
\* comes back, unless the broadcast came after its test and before its sleep,
\* which signal.c does not exclude, as test and count are made under another
\* mutex than the pending set and the broadcast: there, and nowhere else, a
\* signal is slept through.
PauseReturns ==
  \A t \in Sleepers :
    /\ (spc[t] \in {"test", "empty", "counted", "asleep", "woken"} /\ pending[t] # {})
         ~> (spc[t] = "run" \/ t \in missed)
    /\ (spc[t] \in {"masked", "ready", "suspended"} /\ \E s \in Senders : target[s] = t)
         ~> (spc[t] = "run" \/ t \in missed)

\* A task that sleeps is counted, and one that runs is not: otherwise kill,
\* which broadcasts only when waiters > 0, would pass a sleeper by, or the
\* count would drift over the ways in and out of pause and sigsuspend.
SleepersCounted ==
  \A t \in Sleepers :
    waiters[t] = IF spc[t] \in {"counted", "asleep", "woken", "ready", "suspended", "resumed"}
                 THEN 1 ELSE 0

\* alarm never answers more seconds than are left of the alarm set last, however
\* long ago that was, as alarm_remaining - elapsed does not wrap; and at most as
\* many more as the clock was set back behind the time at which it was set.
AlarmBounded ==
  [][\A n \in Seconds : SetAlarm(n) =>
       /\ Elapsed >= alarm.remaining => answer' = 0
       /\ Elapsed < alarm.remaining => answer' \in 0..(alarm.remaining - Elapsed)
    ]_alarms
=============================================================================
