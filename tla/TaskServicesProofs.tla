------------------------- MODULE TaskServicesProofs -------------------------
(***************************************************************************)
(* Proofs about the services of tasks that keep to themselves: Signals,    *)
(* JobControl, Startup, Files and, on top of those about Files, Exec, for  *)
(* any number of tasks, threads, programs and files.                       *)
(***************************************************************************)
EXTENDS Exec, Signals, JobControl, Startup, FiniteSetTheorems, TLAPS

-----------------------------------------------------------------------------
(* Signals.  The count of a task says where it stands in pause and         *)
(* sigsuspend.                                                             *)
SigPlaces == {"run", "test", "empty", "counted", "asleep", "woken",
              "masked", "ready", "suspended", "resumed"}

Sleeping ==
  /\ waiters \in [Sleepers -> Int]
  /\ spc \in [Sleepers -> SigPlaces]
  /\ target \in [Senders -> Sleepers \cup {NoTask}]
  /\ SleepersCounted

AlarmTypeOK ==
  /\ alarm \in [active : BOOLEAN, remaining : Nat, set : Nat]
  /\ clock \in Nat

SigInv == Sleeping /\ AlarmTypeOK

LEMMA SigInitInv == SigInit => SigInv
<1> SUFFICES ASSUME SigInit PROVE SigInv
  OBVIOUS
<1>1. Sleeping
  BY DEF SigInit, Sleeping, SigPlaces, SleepersCounted
<1>2. AlarmTypeOK
  BY DEF SigInit, AlarmTypeOK, Unarmed
<1> QED
  BY <1>1, <1>2 DEF SigInv

\* pause and sigsuspend count themselves in once and out once.
LEMMA SleeperStep ==
  ASSUME Sleeping, NEW t \in Sleepers, Sleeper(t)
  PROVE  Sleeping'
<1>1. /\ waiters' \in [Sleepers -> Int] /\ spc' \in [Sleepers -> SigPlaces]
      /\ target' = target
  BY DEF Sleeping, Sleeper, PauseReturnsNow, PauseFindsNone, PauseCounts, PauseSleeps, PauseWakes, SuspendCounts,
         SuspendSleeps, SuspendReturns, Goes, CountOut, SigPlaces
<1>2. \A u \in Sleepers \ {t} : spc'[u] = spc[u] /\ waiters'[u] = waiters[u]
  BY DEF Sleeping, Sleeper, PauseReturnsNow, PauseFindsNone, PauseCounts, PauseSleeps, PauseWakes, SuspendCounts,
         SuspendSleeps, SuspendReturns, Goes, CountOut
<1>3. waiters'[t] = IF spc'[t] \in {"counted", "asleep", "woken", "ready", "suspended", "resumed"}
                    THEN 1 ELSE 0
  BY DEF Sleeping, Sleeper, PauseReturnsNow, PauseFindsNone, PauseCounts, PauseSleeps, PauseWakes, SuspendCounts,
         SuspendSleeps, SuspendReturns, Goes, CountOut, SleepersCounted
<1> QED
  BY <1>1, <1>2, <1>3 DEF Sleeping, SleepersCounted

\* Being woken changes no count.
LEMMA WakeStep ==
  ASSUME Sleeping, NEW t \in Sleepers, waiters' = waiters,
         spc' = spc \/ spc' = [spc EXCEPT ![t] = Awakened(t)],
         target' \in [Senders -> Sleepers \cup {NoTask}]
  PROVE  Sleeping'
  BY DEF Sleeping, SleepersCounted, Awakened, SigPlaces

LEMMA SigNextInv == SigInv /\ [SigNext]_sigVars => SigInv'
<1> SUFFICES ASSUME SigInv, [SigNext]_sigVars PROVE SigInv'
  OBVIOUS
<1>1. ASSUME NEW t \in Sleepers, Sleeper(t)
      PROVE  SigInv'
  <2>1. UNCHANGED alarms
    BY <1>1 DEF Sleeper, PauseReturnsNow, PauseFindsNone, PauseCounts, PauseSleeps, PauseWakes, SuspendCounts,
                SuspendSleeps, SuspendReturns
  <2> QED
    BY <1>1, <2>1, SleeperStep DEF SigInv, AlarmTypeOK, alarms
<1>2. ASSUME NEW t \in Sleepers, CallPause(t)
      PROVE  SigInv'
  BY <1>2 DEF CallPause, Goes, SigInv, Sleeping, SleepersCounted, SigPlaces, AlarmTypeOK, alarms
<1>3. ASSUME NEW t \in Sleepers, StrayWake(t)
      PROVE  SigInv'
  BY <1>3, WakeStep DEF StrayWake, SigInv, Sleeping, AlarmTypeOK, alarms
<1>4. ASSUME NEW t \in Sleepers, NEW set \in SUBSET SigNums, sigprocmask(t, set)
      PROVE  SigInv'
  BY <1>4 DEF sigprocmask, SigInv, Sleeping, SleepersCounted, AlarmTypeOK, alarms, sleep
<1>5. ASSUME NEW t \in Sleepers, NEW set \in SUBSET SigNums, SuspendMask(t, set)
      PROVE  SigInv'
  BY <1>5 DEF SuspendMask, Goes, SigInv, Sleeping, SleepersCounted, SigPlaces, AlarmTypeOK, alarms
<1>6. ASSUME NEW s \in Senders, KillWakes(s)
      PROVE  SigInv'
  <2>1. target[s] \in Sleepers /\ UNCHANGED alarms
    BY <1>6 DEF KillWakes, SigInv, Sleeping
  <2>2. Sleeping'
    BY <1>6, <2>1, WakeStep DEF KillWakes, SigInv, Sleeping
  <2> QED
    BY <2>1, <2>2 DEF SigInv, AlarmTypeOK, alarms
<1>7. ASSUME NEW s \in Senders, NEW t \in Sleepers, NEW sig \in SigNums, KillAdds(s, t, sig)
      PROVE  SigInv'
  BY <1>7 DEF KillAdds, SigInv, Sleeping, SleepersCounted, AlarmTypeOK, alarms, sleep
<1>8. ASSUME NEW n \in Seconds, SetAlarm(n)
      PROVE  SigInv'
  <2>1. AlarmTypeOK'
    BY <1>8, SignalsAssumption DEF SignalsAssumption, SetAlarm, Unarmed, SigInv, AlarmTypeOK
  <2> QED
    BY <1>8, <2>1 DEF SetAlarm, SigInv, Sleeping, SleepersCounted, sleep
<1>9. CASE ClockMoves
  BY <1>9, SignalsAssumption
  DEF SignalsAssumption, ClockMoves, SigInv, Sleeping, SleepersCounted, AlarmTypeOK, sleep
<1>10. CASE UNCHANGED sigVars
  BY <1>10 DEF sigVars, sleep, alarms, SigInv, Sleeping, SleepersCounted, AlarmTypeOK
<1> QED
  BY <1>1, <1>2, <1>3, <1>4, <1>5, <1>6, <1>7, <1>8, <1>9, <1>10 DEF SigNext

(* A task that sleeps in pause or sigsuspend is counted once, and no other *)
(* is: kill, which wakes a task only when its count is not zero, passes no *)
(* sleeper by.                                                             *)
THEOREM SleepersAreCounted == SigSpec => []SleepersCounted
<1>1. SigInv => SleepersCounted
  BY DEF SigInv, Sleeping
<1> QED
  BY <1>1, SigInitInv, SigNextInv, PTL DEF SigSpec

(* alarm answers no more seconds than are left of the alarm set last, by   *)
(* whatever the clock says.                                                *)
THEOREM AlarmIsBounded == SigSpec => AlarmBounded
<1>1. SigInv /\ [SigNext]_sigVars =>
        [\A n \in Seconds : SetAlarm(n) =>
           /\ Elapsed >= alarm.remaining => answer' = 0
           /\ Elapsed < alarm.remaining => answer' \in 0..(alarm.remaining - Elapsed)]_alarms
  <2> SUFFICES ASSUME SigInv, NEW n \in Seconds, SetAlarm(n)
               PROVE  /\ Elapsed >= alarm.remaining => answer' = 0
                      /\ Elapsed < alarm.remaining => answer' \in 0..(alarm.remaining - Elapsed)
    OBVIOUS
  <2>1. alarm.remaining \in Nat /\ alarm.set \in Nat /\ clock \in Nat
    BY DEF SigInv, AlarmTypeOK
  <2> QED
    BY <2>1 DEF SetAlarm, old_remaining, StillRuns, Elapsed
<1> QED
  BY <1>1, SigInitInv, SigNextInv, PTL DEF SigSpec, AlarmBounded

-----------------------------------------------------------------------------
(* JobControl.  The task that a group is named by is in the table and in   *)
(* the group, and the task that a session is named by leads it: a task     *)
(* that is in neither of its own name is named by no other.                *)
JobTypeOK ==
  /\ pgid \in [Jobs -> Jobs] /\ sid \in [Jobs -> Jobs]
  /\ inTable \subseteq Jobs
  /\ does \in [Jobs -> [op : {"none", "fork", "setpgid"},
                        on : Jobs \cup {NoJob}, to : Jobs \cup {NoJob}]]

Led ==
  /\ \A t \in inTable : pgid[t] \in inTable /\ pgid[pgid[t]] = pgid[t]
  /\ \A t \in inTable : sid[t] \in inTable /\ sid[sid[t]] = sid[t] /\ pgid[sid[t]] = sid[t]
  /\ \A t \in Jobs \ inTable : pgid[t] = t /\ sid[t] = t

\* What a call has in hand: each task is in one call's hands at most.
InHand ==
  /\ \A t \in Jobs : does[t].op = "none" => does[t].on = NoJob
  /\ \A t \in Jobs : does[t].op # "none" => t \in inTable /\ does[t].on \in inTable
  /\ \A t \in Jobs : does[t].op # "setpgid" => does[t].to = NoJob
  /\ \A t, u \in Jobs : does[t].on = does[u].on /\ does[t].on # NoJob => t = u

\* A child that has not inherited yet does nothing, and is alone in the group
\* and the session of its name.
Forked(t) ==
  does[t].op = "fork" =>
    LET child == does[t].on IN
    /\ child # t /\ does[child].op = "none"
    /\ pgid[child] = child /\ sid[child] = child
    /\ \A u \in inTable \ {child} : pgid[u] # child /\ sid[u] # child
    /\ \A u \in Jobs : does[u].to # child

\* The group that a task is about to join is of the caller's session, or new;
\* a task that has come to lead a group meanwhile is in another session.
Joining(t) ==
  does[t].op = "setpgid" =>
    LET joiner == does[t].on
        g == does[t].to
    IN
    /\ g = joiner \/ (g \in inTable /\ pgid[g] = g /\ sid[g] = sid[t])
    /\ g # joiner /\ pgid[joiner] = joiner => sid[joiner] # sid[t]

GroupInv ==
  /\ JobTypeOK /\ Led /\ InHand
  /\ \A t \in Jobs : Forked(t) /\ Joining(t)
  /\ GroupInSession

LEMMA JobInitGroups == JobInit => GroupInv
<1> SUFFICES ASSUME JobInit PROVE GroupInv
  OBVIOUS
<1>1. JobTypeOK /\ Led
  BY JobAssumption DEF JobAssumption, JobInit, JobTypeOK, Led, Idle
<1>2. InHand /\ \A t \in Jobs : Forked(t) /\ Joining(t)
  BY DEF JobInit, InHand, Forked, Joining, Idle
<1>3. GroupInSession
  BY DEF JobInit, GroupInSession
<1> QED
  BY <1>1, <1>2, <1>3 DEF GroupInv

LEMMA ForkEntersStep ==
  ASSUME GroupInv, NEW t \in Jobs, NEW child \in Jobs, ForkEnters(t, child)
  PROVE  GroupInv'
<1>1. /\ child \notin inTable /\ inTable' = inTable \cup {child} /\ t \in inTable
      /\ does[t] = Idle /\ does' = [does EXCEPT ![t] = [op |-> "fork", on |-> child, to |-> NoJob]]
      /\ \A u \in Jobs : does[u].on = t => does[u].op # "fork"
      /\ UNCHANGED <<pgid, sid>>
  BY DEF ForkEnters, Starts, JobRuns, groups
<1>2. JobTypeOK'
  BY <1>1 DEF GroupInv, JobTypeOK
<1>3. Led'
  BY <1>1 DEF GroupInv, JobTypeOK, Led
<1>4. does[child].op = "none" /\ \A u \in Jobs : does[u].on # child /\ does[u].to # child
  BY <1>1, JobAssumption DEF JobAssumption, GroupInv, JobTypeOK, InHand, Joining, Idle
<1>5. InHand'
  BY <1>1, <1>4, JobAssumption DEF JobAssumption, GroupInv, JobTypeOK, InHand
<1>6. ASSUME NEW u \in Jobs PROVE Forked(u)' /\ Joining(u)'
  BY <1>1, <1>4, JobAssumption
  DEF JobAssumption, GroupInv, JobTypeOK, InHand, Led, Forked, Joining
<1>7. GroupInSession'
  BY <1>1 DEF GroupInv, JobTypeOK, Led, GroupInSession
<1> QED
  BY <1>2, <1>3, <1>5, <1>6, <1>7 DEF GroupInv

LEMMA ForkInheritsStep ==
  ASSUME GroupInv, NEW t \in Jobs, ForkInherits(t)
  PROVE  GroupInv'
<1>1. PICK child \in inTable : child = does[t].on
  BY DEF ForkInherits, GroupInv, InHand
<1>2. /\ does[t].op = "fork" /\ t \in inTable /\ inTable' = inTable /\ child \in Jobs
      /\ pgid' = [pgid EXCEPT ![child] = pgid[t]] /\ sid' = [sid EXCEPT ![child] = sid[t]]
      /\ does' = [does EXCEPT ![t] = Idle]
  BY <1>1 DEF ForkInherits, Joins, GroupInv, InHand, JobTypeOK
<1>3. /\ child # t /\ does[child].op = "none"
      /\ pgid[child] = child /\ sid[child] = child
      /\ \A u \in inTable \ {child} : pgid[u] # child /\ sid[u] # child
      /\ \A u \in Jobs : does[u].to # child
      /\ \A u \in Jobs \ {t} : does[u].on # child
  BY <1>1, <1>2, JobAssumption DEF JobAssumption, GroupInv, Forked, InHand, JobTypeOK
<1>4. JobTypeOK'
  BY <1>2 DEF GroupInv, JobTypeOK, Idle
<1>5. Led'
  BY <1>2, <1>3 DEF GroupInv, JobTypeOK, Led
<1>6. InHand'
  BY <1>2 DEF GroupInv, JobTypeOK, InHand, Idle
<1>7. ASSUME NEW u \in Jobs PROVE Forked(u)' /\ Joining(u)'
  <2>1. CASE u = t
    BY <1>2, <2>1 DEF GroupInv, JobTypeOK, Forked, Joining, Idle
  <2>2. CASE u # t
    <3>1. Forked(u)'
      <4> SUFFICES ASSUME does[u].op = "fork" PROVE Forked(u)'
        BY <1>2, <2>2 DEF GroupInv, JobTypeOK, Forked
      <4>1. PICK c \in Jobs : c = does[u].on
        BY DEF GroupInv, InHand, JobTypeOK
      <4>2. /\ c # u /\ c # t /\ c # child /\ does[c].op = "none" /\ pgid[c] = c /\ sid[c] = c
            /\ \A w \in inTable \ {c} : pgid[w] # c /\ sid[w] # c
            /\ \A w \in Jobs : does[w].to # c
        BY <1>2, <1>3, <2>2, <4>1 DEF GroupInv, Forked
      <4>3. does'[u] = does[u] /\ does'[c] = does[c] /\ \A w \in Jobs : does'[w].to # c
        BY <1>2, <2>2, <4>2, JobAssumption DEF JobAssumption, GroupInv, JobTypeOK, Idle
      <4>4. /\ pgid'[c] = c /\ sid'[c] = c
            /\ \A w \in inTable \ {c} : pgid'[w] # c /\ sid'[w] # c
        BY <1>2, <4>2 DEF GroupInv, JobTypeOK
      <4> QED
        BY <1>2, <4>1, <4>2, <4>3, <4>4 DEF Forked
    <3>2. Joining(u)'
      BY <1>2, <1>3, <2>2 DEF GroupInv, JobTypeOK, InHand, Led, Joining, Idle
    <3> QED
      BY <3>1, <3>2
  <2> QED
    BY <2>1, <2>2
<1>8. GroupInSession'
  BY <1>2, <1>3 DEF GroupInv, JobTypeOK, GroupInSession
<1> QED
  BY <1>4, <1>5, <1>6, <1>7, <1>8 DEF GroupInv

LEMMA SetpgidChecksStep ==
  ASSUME GroupInv, NEW t \in Jobs, NEW joiner \in Jobs, NEW g \in Jobs,
         SetpgidChecks(t, joiner, g)
  PROVE  GroupInv'
<1>1. /\ joiner \in inTable /\ t \in inTable /\ does[t] = Idle
      /\ does' = [does EXCEPT ![t] = [op |-> "setpgid", on |-> joiner, to |-> g]]
      /\ \A u \in Jobs : does[u].on = t => does[u].op # "fork"
      /\ \A u \in Jobs : does[u].on # joiner
      /\ pgid[joiner] # joiner /\ does[joiner] = Idle
      /\ UNCHANGED <<pgid, sid, inTable>>
  BY DEF SetpgidChecks, Starts, JobRuns, Leads, Moving, groups, family
<1>2. g = joiner \/ (g \in inTable /\ pgid[g] = g /\ sid[g] = sid[t])
  <2>1. CASE g \in InSession(t)
    BY <2>1 DEF InSession, GroupInv, Led, GroupInSession
  <2> QED
    BY <2>1 DEF SetpgidChecks
<1>3. JobTypeOK' /\ Led' /\ GroupInSession'
  BY <1>1 DEF GroupInv, JobTypeOK, Led, GroupInSession
<1>4. InHand'
  BY <1>1, JobAssumption DEF JobAssumption, GroupInv, JobTypeOK, InHand
<1>5. ASSUME NEW u \in Jobs PROVE Forked(u)'
  <2>1. CASE u = t
    BY <1>1, <2>1 DEF GroupInv, JobTypeOK, Forked
  <2>2. CASE u # t /\ does[u].op = "fork"
    <3>1. does[u].on # t /\ does[u].on # joiner /\ does[u].on # g
      <4>1. g \in inTable
        BY <1>1, <1>2
      <4> QED
        BY <1>1, <1>2, <2>2, <4>1 DEF GroupInv, JobTypeOK, Forked, InHand, Led
    <3> QED
      BY <1>1, <2>2, <3>1 DEF GroupInv, JobTypeOK, Forked, InHand
  <2>3. CASE u # t /\ does[u].op # "fork"
    BY <1>1, <2>3 DEF GroupInv, JobTypeOK, Forked
  <2> QED
    BY <2>1, <2>2, <2>3
<1>6. ASSUME NEW u \in Jobs PROVE Joining(u)'
  <2>1. CASE u = t
    BY <1>1, <1>2, <2>1 DEF GroupInv, JobTypeOK, Joining
  <2>2. CASE u # t
    BY <1>1, <2>2 DEF GroupInv, JobTypeOK, Joining
  <2> QED
    BY <2>1, <2>2
<1> QED
  BY <1>3, <1>4, <1>5, <1>6 DEF GroupInv

LEMMA SetpgidStoresStep ==
  ASSUME GroupInv, NEW t \in Jobs, SetpgidStores(t)
  PROVE  GroupInv'
<1>1. PICK joiner \in inTable : joiner = does[t].on
  BY DEF SetpgidStores, GroupInv, InHand
<1>2. PICK g \in Jobs : g = does[t].to
  BY <1>1 DEF SetpgidStores, GroupInv, Joining, JobTypeOK
<1>3. /\ does[t].op = "setpgid" /\ t \in inTable /\ joiner \in Jobs
      /\ does' = [does EXCEPT ![t] = Idle] /\ UNCHANGED <<sid, inTable>>
      /\ \/ sid[joiner] = sid[t] /\ pgid' = [pgid EXCEPT ![joiner] = g]
         \/ pgid' = pgid
      /\ g = joiner \/ (g \in inTable /\ pgid[g] = g /\ sid[g] = sid[t])
      /\ g # joiner /\ pgid[joiner] = joiner => sid[joiner] # sid[t]
  BY <1>1, <1>2 DEF SetpgidStores, SameSession, Joins, family, GroupInv, InHand, JobTypeOK, Joining
<1>4. JobTypeOK'
  BY <1>3 DEF GroupInv, JobTypeOK, Idle
<1>5. InHand'
  BY <1>3 DEF GroupInv, JobTypeOK, InHand, Idle
<1>6. \A u \in Jobs : pgid[u] = u => pgid'[u] = u
  BY <1>3 DEF GroupInv, JobTypeOK
<1>7. Led'
  <2>1. \A u \in inTable : pgid'[u] \in inTable /\ pgid'[pgid'[u]] = pgid'[u]
    BY <1>3, <1>6 DEF GroupInv, JobTypeOK, Led
  <2> QED
    BY <1>3, <1>6, <2>1 DEF GroupInv, JobTypeOK, Led
<1>8. GroupInSession'
  BY <1>3 DEF GroupInv, JobTypeOK, Led, GroupInSession
<1>9. ASSUME NEW u \in Jobs PROVE Forked(u)'
  <2>1. CASE u = t
    BY <1>3, <2>1 DEF GroupInv, JobTypeOK, Forked, Idle
  <2>2. CASE u # t /\ does[u].op = "fork"
    <3>1. PICK c \in Jobs : c = does[u].on
      BY <2>2 DEF GroupInv, InHand, JobTypeOK
    <3>2. /\ c # u /\ c # t /\ c # joiner /\ c # g
          /\ does[c].op = "none" /\ pgid[c] = c /\ sid[c] = c
          /\ \A w \in inTable \ {c} : pgid[w] # c /\ sid[w] # c
          /\ \A w \in Jobs : does[w].to # c
      BY <1>1, <1>2, <1>3, <2>2, <3>1, JobAssumption
      DEF JobAssumption, GroupInv, JobTypeOK, InHand, Forked
    <3>3. does'[u] = does[u] /\ does'[c] = does[c] /\ \A w \in Jobs : does'[w].to # c
      BY <1>3, <2>2, <3>2, JobAssumption DEF JobAssumption, GroupInv, JobTypeOK, Idle
    <3>4. pgid'[c] = c /\ \A w \in inTable \ {c} : pgid'[w] # c
      BY <1>3, <3>2 DEF GroupInv, JobTypeOK
    <3> QED
      BY <1>3, <3>1, <3>2, <3>3, <3>4 DEF Forked
  <2>3. CASE u # t /\ does[u].op # "fork"
    BY <1>3, <2>3 DEF GroupInv, JobTypeOK, Forked
  <2> QED
    BY <2>1, <2>2, <2>3
<1>10. ASSUME NEW u \in Jobs PROVE Joining(u)'
  <2>1. CASE u = t
    BY <1>3, <2>1 DEF GroupInv, JobTypeOK, Joining, Idle
  <2>2. CASE u # t /\ does[u].op = "setpgid"
    <3>1. does[u].on # joiner /\ does[u].on \in Jobs
      BY <1>1, <2>2, JobAssumption DEF JobAssumption, GroupInv, JobTypeOK, InHand
    <3>2. does'[u] = does[u] /\ pgid'[does[u].on] = pgid[does[u].on]
      BY <1>3, <2>2, <3>1 DEF GroupInv, JobTypeOK
    <3> QED
      BY <1>3, <1>6, <2>2, <3>2 DEF GroupInv, JobTypeOK, Joining
  <2>3. CASE u # t /\ does[u].op # "setpgid"
    BY <1>3, <2>3 DEF GroupInv, JobTypeOK, Joining
  <2> QED
    BY <2>1, <2>2, <2>3
<1> QED
  BY <1>4, <1>5, <1>7, <1>8, <1>9, <1>10 DEF GroupInv

LEMMA SetsidStep ==
  ASSUME GroupInv, NEW t \in Jobs, ixland_setsid(t)
  PROVE  GroupInv'
<1>1. /\ t \in inTable /\ does[t] = Idle /\ pgid[t] # t
      /\ \A u \in Jobs : does[u].on = t => does[u].op # "fork"
      /\ pgid' = [pgid EXCEPT ![t] = t] /\ sid' = [sid EXCEPT ![t] = t]
      /\ UNCHANGED <<inTable, does>>
  BY DEF ixland_setsid, JobRuns, Joins, family
\* Nobody is in its group or its session.
<1>2. \A u \in inTable : pgid[u] # t /\ sid[u] # t
  BY <1>1 DEF GroupInv, Led
<1>3. JobTypeOK' /\ InHand'
  BY <1>1 DEF GroupInv, JobTypeOK, InHand
<1>4. Led'
  BY <1>1, <1>2 DEF GroupInv, JobTypeOK, Led
<1>5. GroupInSession'
  BY <1>1, <1>2 DEF GroupInv, JobTypeOK, GroupInSession
<1>6. ASSUME NEW u \in Jobs PROVE Forked(u)'
  BY <1>1, <1>2 DEF GroupInv, JobTypeOK, InHand, Forked
<1>7. ASSUME NEW u \in Jobs PROVE Joining(u)'
  <2>1. CASE does[u].op = "setpgid"
    <3>1. u # t /\ u \in inTable
      BY <1>1, <2>1 DEF GroupInv, InHand, Idle
    <3>2. sid'[u] = sid[u] /\ sid[u] # t
      BY <1>1, <1>2, <3>1 DEF GroupInv, JobTypeOK
    <3> QED
      BY <1>1, <1>2, <2>1, <3>1, <3>2 DEF GroupInv, JobTypeOK, InHand, Joining
  <2> QED
    BY <1>1, <2>1 DEF Joining
<1> QED
  BY <1>3, <1>4, <1>5, <1>6, <1>7 DEF GroupInv

LEMMA JobNextGroups == GroupInv /\ [JobNext]_jobVars => GroupInv'
<1> SUFFICES ASSUME GroupInv, [JobNext]_jobVars PROVE GroupInv'
  OBVIOUS
<1>1. ASSUME UNCHANGED <<pgid, sid, inTable, does>>
      PROVE  GroupInv'
  BY <1>1 DEF GroupInv, JobTypeOK, Led, InHand, Forked, Joining, GroupInSession
<1>2. ASSUME NEW k \in Signallers, NEW t \in Jobs,
             KillpgBegins(k, t) \/ KillpgVisits(k, t) \/ KillpgDelivers(k, t)
      PROVE  GroupInv'
  BY <1>1, <1>2 DEF KillpgBegins, KillpgVisits, KillpgDelivers, groups, family
<1>3. ASSUME NEW k \in Signallers, KillpgUnlocks(k) \/ KillpgReturns(k)
      PROVE  GroupInv'
  BY <1>1, <1>3 DEF KillpgUnlocks, KillpgReturns, groups, family
<1>4. CASE UNCHANGED jobVars
  BY <1>1, <1>4 DEF jobVars, groups, family
<1> QED
  BY <1>2, <1>3, <1>4, ForkEntersStep, ForkInheritsStep, SetpgidChecksStep, SetpgidStoresStep,
     SetsidStep
  DEF JobNext

(* A process group lies within one session, whatever fork, setpgid and     *)
(* setsid of any number of tasks do at once.                               *)
THEOREM GroupsInSessions == JobSpec => []GroupInSession
<1>1. GroupInv => GroupInSession
  BY DEF GroupInv
<1> QED
  BY <1>1, JobInitGroups, JobNextGroups, PTL DEF JobSpec

-----------------------------------------------------------------------------
(* killpg.  Whoever has been in the group since the search began has been  *)
(* found, or is still to be visited; and there is room for all it finds,   *)
(* as no task is visited twice.                                            *)
Calls == [stage : {"none", "search", "ESRCH", "deliver", "done"},
          group : Jobs \cup {NoJob}, unseen : SUBSET Jobs,
          matches : SUBSET Jobs, reached : SUBSET Jobs]
CallTypeOK(k) == killpgCall[k] \in Calls

Searched(k) ==
  LET call == killpgCall[k] IN
  /\ call.stage = "none" => stayed[k] = {}
  /\ call.stage = "search" => stayed[k] \subseteq call.unseen \cup call.matches
  /\ call.unseen \cap call.matches = {}
  /\ call.stage = "ESRCH" => stayed[k] = {}
  /\ call.stage = "deliver" => stayed[k] \subseteq call.matches
  /\ call.stage = "done" => stayed[k] \subseteq call.reached
  /\ \A t \in stayed[k] : pgid[t] = call.group

KillpgInv ==
  /\ JobTypeOK
  /\ DOMAIN killpgCall = Signallers /\ stayed \in [Signallers -> SUBSET Jobs]
  /\ \A k \in Signallers : CallTypeOK(k) /\ Searched(k)

LEMMA KillpgInitInv == JobInit => KillpgInv
<1> SUFFICES ASSUME JobInit PROVE KillpgInv
  OBVIOUS
<1>1. JobTypeOK
  BY JobInitGroups DEF GroupInv
<1>2. \A k \in Signallers : CallTypeOK(k) /\ Searched(k)
  BY DEF Calls, JobInit, CallTypeOK, Searched, NoCall
<1> QED
  BY <1>1, <1>2 DEF KillpgInv, JobInit

\* A task that joins another group has not stayed in the one that is searched.
LEMMA JoinsStep ==
  ASSUME KillpgInv, JobTypeOK', UNCHANGED killpgCall,
         (\E t, g \in Jobs : Joins(t, g)) \/ UNCHANGED <<pgid, stayed>>
  PROVE  KillpgInv'
<1>1. /\ stayed' \in [Signallers -> SUBSET Jobs]
      /\ \A k \in Signallers : stayed'[k] \subseteq stayed[k]
      /\ \A k \in Signallers : \A t \in stayed'[k] : pgid'[t] = killpgCall[k].group
  <2>1. CASE UNCHANGED <<pgid, stayed>>
    BY <2>1 DEF KillpgInv, Searched
  <2>2. ASSUME NEW t \in Jobs, NEW g \in Jobs, Joins(t, g)
        PROVE  <1>1!:
    BY <2>2 DEF Joins, KillpgInv, Searched, JobTypeOK
  <2> QED
    BY <2>1, <2>2
<1>2. ASSUME NEW k \in Signallers PROVE CallTypeOK(k)' /\ Searched(k)'
  BY <1>1 DEF KillpgInv, CallTypeOK, Searched
<1> QED
  BY <1>1, <1>2 DEF KillpgInv

\* The one call that moves: the others, and the groups, are as they were.
LEMMA CallStep ==
  ASSUME KillpgInv, NEW k \in Signallers, UNCHANGED <<pgid, sid, inTable, does>>,
         \A j \in Signallers \ {k} : killpgCall'[j] = killpgCall[j] /\ stayed'[j] = stayed[j],
         DOMAIN killpgCall' = Signallers, stayed' \in [Signallers -> SUBSET Jobs],
         CallTypeOK(k)', Searched(k)'
  PROVE  KillpgInv'
<1>1. \A j \in Signallers : CallTypeOK(j)' /\ Searched(j)'
  BY DEF KillpgInv, CallTypeOK, Searched
<1> QED
  BY <1>1 DEF KillpgInv, JobTypeOK

LEMMA RoomForAll ==
  ASSUME NEW S \in SUBSET Jobs, NEW t \in Jobs \ S
  PROVE  Room(S)
<1>1. IsFiniteSet(S) /\ Cardinality(S) <= Cardinality(Jobs)
  BY JobAssumption, FS_Subset DEF JobAssumption
<1>2. Cardinality(S) # Cardinality(Jobs)
  BY JobAssumption, FS_Subset DEF JobAssumption
<1>3. Cardinality(S) \in Nat /\ Cardinality(Jobs) \in Nat
  BY <1>1, JobAssumption, FS_CardinalityType DEF JobAssumption
<1> QED
  BY <1>1, <1>2, <1>3, JobAssumption DEF JobAssumption, Room

LEMMA KillpgNextInv == GroupInv /\ GroupInv' /\ KillpgInv /\ [JobNext]_jobVars => KillpgInv'
<1> SUFFICES ASSUME GroupInv, GroupInv', KillpgInv, [JobNext]_jobVars PROVE KillpgInv'
  OBVIOUS
<1>1. JobTypeOK /\ JobTypeOK'
  BY DEF GroupInv
<1>2. ASSUME NEW t \in Jobs, NEW u \in Jobs, ForkEnters(t, u)
      PROVE  KillpgInv'
  BY <1>1, <1>2, JoinsStep DEF ForkEnters, groups
<1>3. ASSUME NEW t \in Jobs, ForkInherits(t)
      PROVE  KillpgInv'
  <2>1. does[t].on \in Jobs /\ pgid[t] \in Jobs
    BY <1>3 DEF ForkInherits, GroupInv, InHand, JobTypeOK
  <2> QED
    BY <1>1, <1>3, <2>1, JoinsStep DEF ForkInherits
<1>4. ASSUME NEW t \in Jobs, NEW u \in Jobs, NEW g \in Jobs, SetpgidChecks(t, u, g)
      PROVE  KillpgInv'
  BY <1>1, <1>4, JoinsStep DEF SetpgidChecks, groups
<1>5. ASSUME NEW t \in Jobs, SetpgidStores(t)
      PROVE  KillpgInv'
  <2>1. does[t].on \in Jobs /\ does[t].to \in Jobs
    BY <1>5 DEF SetpgidStores, GroupInv, InHand, Joining, JobTypeOK
  <2> QED
    BY <1>1, <1>5, <2>1, JoinsStep DEF SetpgidStores
<1>6. ASSUME NEW t \in Jobs, ixland_setsid(t)
      PROVE  KillpgInv'
  BY <1>1, <1>6, JoinsStep DEF ixland_setsid
<1>7. ASSUME NEW k \in Signallers, NEW g \in Jobs, KillpgBegins(k, g)
      PROVE  KillpgInv'
  <2>1. /\ UNCHANGED <<pgid, sid, inTable, does>>
        /\ killpgCall' = [killpgCall EXCEPT ![k] =
             [NoCall EXCEPT !.stage = "search", !.group = g, !.unseen = inTable]]
        /\ stayed' = [stayed EXCEPT ![k] = {t \in inTable : pgid[t] = g}]
        /\ inTable \subseteq Jobs
    BY <1>1, <1>7 DEF KillpgBegins, family, JobTypeOK
  <2>2. /\ killpgCall'[k] = [NoCall EXCEPT !.stage = "search", !.group = g, !.unseen = inTable]
        /\ stayed'[k] = {t \in inTable : pgid[t] = g}
    BY <2>1 DEF KillpgInv
  <2>3. CallTypeOK(k)'
    <3>1. NoCall \in Calls
      BY DEF Calls, NoCall
    <3>2. [NoCall EXCEPT !.stage = "search", !.group = g, !.unseen = inTable] \in Calls
      BY <2>1, <3>1 DEF Calls
    <3> QED
      BY <2>2, <3>2 DEF CallTypeOK
  <2>4. LET call == killpgCall'[k] IN
        call.stage = "search" /\ call.group = g /\ call.unseen = inTable /\ call.matches = {}
    BY <2>2 DEF NoCall
  <2>5. Searched(k)'
    BY <2>1, <2>2, <2>4 DEF Searched
  <2> QED
    BY <1>1, <2>1, <2>3, <2>5, CallStep DEF KillpgInv, JobTypeOK
<1>8. ASSUME NEW k \in Signallers, NEW t \in Jobs, KillpgVisits(k, t)
      PROVE  KillpgInv'
  <2>1. PICK call \in Calls : call = killpgCall[k]
    BY DEF KillpgInv, CallTypeOK
  <2>2. call.stage = "search" /\ t \in call.unseen /\ Room(call.matches)
    BY <1>8, <2>1, RoomForAll DEF Calls, KillpgVisits, KillpgInv, Searched
  <2>3. /\ UNCHANGED <<pgid, sid, inTable, does, stayed>>
        /\ killpgCall' = [killpgCall EXCEPT ![k] =
             [call EXCEPT !.unseen = @ \ {t},
                          !.matches = @ \cup (IF pgid[t] = call.group THEN {t} ELSE {})]]
    BY <1>8, <2>1, <2>2 DEF KillpgVisits, KillpgInv, groups, family
  <2>4. killpgCall'[k] = [stage |-> call.stage, group |-> call.group,
                          unseen |-> call.unseen \ {t},
                          matches |-> call.matches \cup (IF pgid[t] = call.group THEN {t} ELSE {}),
                          reached |-> call.reached]
    BY <2>1, <2>3 DEF Calls, KillpgInv
  <2>5. CallTypeOK(k)'
    BY <2>1, <2>2, <2>4 DEF Calls, CallTypeOK
  <2>6. Searched(k)'
    BY <2>1, <2>2, <2>3, <2>4 DEF KillpgInv, Searched
  <2> QED
    BY <2>3, <2>5, <2>6, CallStep DEF KillpgInv
<1>9. ASSUME NEW k \in Signallers, KillpgUnlocks(k)
      PROVE  KillpgInv'
  <2>1. /\ UNCHANGED <<pgid, sid, inTable, does, stayed>>
        /\ DOMAIN killpgCall' = Signallers
        /\ \A j \in Signallers \ {k} : killpgCall'[j] = killpgCall[j]
        /\ killpgCall'[k] = [killpgCall[k] EXCEPT
                               !.stage = IF killpgCall[k].matches = {} THEN "ESRCH" ELSE "deliver"]
        /\ killpgCall[k].stage = "search" /\ killpgCall[k].unseen = {}
    BY <1>9 DEF KillpgUnlocks, KillpgInv, groups, family
  <2>2. CallTypeOK(k)' /\ Searched(k)'
    BY <2>1 DEF Calls, KillpgInv, CallTypeOK, Searched
  <2> QED
    BY <2>1, <2>2, CallStep DEF KillpgInv
<1>10. ASSUME NEW k \in Signallers, NEW t \in Jobs, KillpgDelivers(k, t)
      PROVE  KillpgInv'
  <2>1. PICK call \in Calls : call = killpgCall[k]
    BY DEF KillpgInv, CallTypeOK
  <2>2. /\ UNCHANGED <<pgid, sid, inTable, does, stayed>>
        /\ call.stage = "deliver" /\ t \in call.matches \ call.reached
        /\ killpgCall' = [killpgCall EXCEPT ![k] =
             [call EXCEPT !.reached = @ \cup {t},
                          !.stage = IF call.matches \ call.reached = {t} THEN "done" ELSE @]]
    BY <1>10, <2>1 DEF KillpgDelivers, KillpgInv, groups, family
  <2>3. killpgCall'[k] = [stage |-> IF call.matches \ call.reached = {t} THEN "done" ELSE call.stage,
                          group |-> call.group, unseen |-> call.unseen,
                          matches |-> call.matches, reached |-> call.reached \cup {t}]
    BY <2>1, <2>2 DEF Calls, KillpgInv
  <2>4. CallTypeOK(k)'
    <3>1. /\ (IF call.matches \ call.reached = {t} THEN "done" ELSE call.stage)
               \in {"none", "search", "ESRCH", "deliver", "done"}
          /\ call.reached \cup {t} \in SUBSET Jobs
      BY <2>1, <2>2 DEF Calls
    <3> QED
      BY <2>1, <2>3, <3>1 DEF Calls, CallTypeOK
  <2>5. Searched(k)'
    BY <2>1, <2>2, <2>3 DEF KillpgInv, Searched
  <2> QED
    BY <2>2, <2>4, <2>5, CallStep DEF KillpgInv
<1>11. ASSUME NEW k \in Signallers, KillpgReturns(k)
      PROVE  KillpgInv'
  <2>1. CallTypeOK(k)' /\ Searched(k)'
    BY <1>11 DEF Calls, KillpgReturns, NoCall, KillpgInv, CallTypeOK, Searched
  <2> QED
    BY <1>11, <2>1, CallStep DEF KillpgReturns, KillpgInv, family
<1>12. CASE UNCHANGED jobVars
  BY <1>1, <1>12, JoinsStep DEF jobVars, groups
<1> QED
  BY <1>2, <1>3, <1>4, <1>5, <1>6, <1>7, <1>8, <1>9, <1>10, <1>11, <1>12 DEF JobNext

(* killpg reaches every task that was in the group for the whole of the    *)
(* call, as long as no more tasks exist than it has places for, and finds  *)
(* nobody only if nobody was.                                              *)
THEOREM KillpgReachesAll == JobSpec => []KillpgReaches
<1>1. KillpgInv => KillpgReaches
  BY DEF KillpgInv, Searched, KillpgReaches
<1> QED
  BY <1>1, JobInitGroups, JobNextGroups, KillpgInitInv, KillpgNextInv, PTL DEF JobSpec

-----------------------------------------------------------------------------
(* Startup.  Between library_init's two steps its thread holds the mutex   *)
(* and has initialized the file system once, unless the init task failed:  *)
(* then none is ever made, and the library never comes up again.           *)
StartPlaces == {"idle", "lock", "check", "vfs", "once", "making", "tasked", "unlock",
                "getpid", "making too", "down"}
UnderLock == {"check", "vfs", "once", "making", "tasked", "unlock"}
WithVfs == {"once", "making", "tasked"}

StartTypeOK ==
  /\ upc \in [Starters -> StartPlaces]
  /\ initialized \in BOOLEAN
  /\ once \in {"new", "busy", "done"}
  /\ init_task \in {"none", "live"}

Makes(t) == upc[t] \in {"making", "making too"}

Standing ==
  /\ \A t \in Starters : upc[t] \in UnderLock => init_lock = {t}
  /\ \A t \in Starters : Makes(t) => once = "busy"
  /\ \A t, u \in Starters : Makes(t) /\ Makes(u) => t = u
  /\ \A t \in Starters : upc[t] = "tasked" => once = "done"
  /\ \A t \in Starters : upc[t] \in WithVfs \cup {"vfs"} => initialized = FALSE
  /\ \A t \in Starters : upc[t] = "down" => once = "done" /\ init_task = "none"
  /\ \A t, u \in Starters : upc[t] = "down" /\ u # t => upc[u] = "idle"
  /\ initialized = TRUE \/ init_task = "live" => once = "done"

TaskFailed == once = "done" /\ init_task = "none"

StartInv ==
  /\ StartTypeOK /\ Standing
  /\ \/ TaskFailed
     \/ vfs = IF initialized \/ \E t \in Starters : upc[t] \in WithVfs THEN 1 ELSE 0
  /\ StartedIsWhole

LEMMA StartInitInv == StartInit => StartInv
<1> SUFFICES ASSUME StartInit PROVE StartInv
  OBVIOUS
<1>1. /\ \A t \in Starters : upc[t] = "idle"
      /\ initialized = FALSE /\ init_task = "none"
  BY DEF StartInit
<1>2. StartTypeOK
  BY DEF StartInit, StartTypeOK, StartPlaces
<1>3. Standing
  BY <1>1 DEF Standing, UnderLock, WithVfs, Makes
<1>4. vfs = IF initialized \/ \E t \in Starters : upc[t] \in WithVfs THEN 1 ELSE 0
  BY DEF StartInit, WithVfs
<1>5. StartedIsWhole
  BY DEF StartInit, StartedIsWhole
<1> QED
  BY <1>2, <1>3, <1>4, <1>5 DEF StartInv

\* Steps that only move a thread, to where no more is asked than where it stood.
LEMMA MoveStep ==
  ASSUME StartInv, Standing', NEW t \in Starters, UNCHANGED shared,
         NEW to \in StartPlaces \ {"down"}, upc' = [upc EXCEPT ![t] = to], ~Deiniting,
         to \in WithVfs <=> upc[t] \in WithVfs
  PROVE  StartInv'
<1>1. StartTypeOK'
  BY DEF StartInv, StartTypeOK, shared
<1>2. (\E u \in Starters : upc[u] \in WithVfs)' <=> \E u \in Starters : upc[u] \in WithVfs
  BY DEF StartInv, StartTypeOK
<1>3. StartedIsWhole'
  BY DEF StartInv, StartedIsWhole, shared
<1> QED
  BY <1>1, <1>2, <1>3 DEF StartInv, TaskFailed, shared

LEMMA StartNextInv == StartInv /\ [StartNext]_startVars => StartInv'
<1> SUFFICES ASSUME StartInv, [StartNext]_startVars PROVE StartInv'
  OBVIOUS
<1> USE DEF StartPlaces, UnderLock, WithVfs, Makes
<1>1. ASSUME NEW t \in Starters, ~Deiniting, LibraryTests(t) \/ GetpidCalls(t)
      PROVE  StartInv'
  <2>1. PICK to \in {"lock", "getpid"} :
          upc[t] = "idle" /\ upc' = [upc EXCEPT ![t] = to] /\ UNCHANGED shared
    BY <1>1 DEF LibraryTests, GetpidCalls, To
  <2>2. \A u \in Starters : upc[u] # "down"
    BY <1>1 DEF Deiniting
  <2>3. Standing'
    BY <2>1, <2>2 DEF shared, StartInv, StartTypeOK, Standing
  <2> QED
    BY <1>1, <2>1, <2>3, MoveStep
<1>2. ASSUME NEW t \in Starters, ~Deiniting, LibraryLocks(t)
      PROVE  StartInv'
  <2>1. /\ init_lock = {} /\ init_lock' = {t} /\ UNCHANGED <<initialized, once, init_task, vfs>>
        /\ upc[t] = "lock" /\ upc' = [upc EXCEPT ![t] = "check"]
    BY <1>2 DEF LibraryLocks, To
  <2>2. StartTypeOK' /\ Standing'
    BY <2>1 DEF StartInv, StartTypeOK, Standing
  <2>3. (\E u \in Starters : upc[u] \in WithVfs)' <=> \E u \in Starters : upc[u] \in WithVfs
    BY <2>1 DEF StartInv, StartTypeOK
  <2>4. StartedIsWhole'
    BY <1>2, <2>1 DEF StartInv, StartedIsWhole
  <2> QED
    BY <2>1, <2>2, <2>3, <2>4 DEF StartInv, TaskFailed
<1>3. ASSUME NEW t \in Starters, ~Deiniting, LibraryChecksAgain(t)
      PROVE  StartInv'
  <2>1. Standing'
    BY <1>3 DEF LibraryChecksAgain, AlreadyUp, To, shared, StartInv, StartTypeOK, Standing
  <2> QED
    BY <1>3, <2>1, MoveStep DEF LibraryChecksAgain, AlreadyUp, To
<1>4. ASSUME NEW t \in Starters, ~Deiniting, ixland_vfs_init(t)
      PROVE  StartInv'
  <2>1. /\ upc[t] = "vfs" /\ upc' = [upc EXCEPT ![t] = "once"]
        /\ UNCHANGED <<initialized, init_lock, once, init_task>>
        /\ vfs' = IF vfs < 2 THEN vfs + 1 ELSE 2
    BY <1>4 DEF ixland_vfs_init, To
  <2>2. StartTypeOK' /\ Standing'
    BY <2>1 DEF StartInv, StartTypeOK, Standing
  <2>3. initialized = FALSE /\ \A u \in Starters : upc[u] \notin WithVfs
    BY <2>1 DEF StartInv, StartTypeOK, Standing
  <2>4. TaskFailed' \/ vfs' = 1
    BY <2>1, <2>3 DEF StartInv, TaskFailed
  <2>5. upc'[t] = "once"
    BY <2>1 DEF StartInv, StartTypeOK
  <2> QED
    BY <2>1, <2>2, <2>3, <2>4, <2>5 DEF StartInv, StartedIsWhole
<1>5. ASSUME NEW t \in Starters, ~Deiniting, LibrarySetsFlag(t)
      PROVE  StartInv'
  <2>1. /\ upc[t] = "tasked" /\ upc' = [upc EXCEPT ![t] = "unlock"]
        /\ UNCHANGED <<init_lock, once, init_task, vfs>>
        /\ initialized' = (initialized \/ init_task = "live")
    BY <1>5 DEF LibrarySetsFlag, To
  <2>2. initialized = FALSE /\ once = "done" /\ \A u \in Starters \ {t} : upc[u] \notin UnderLock
    BY <2>1 DEF StartInv, StartTypeOK, Standing
  <2>3. StartTypeOK' /\ Standing'
    BY <2>1, <2>2 DEF StartInv, StartTypeOK, Standing
  <2>4. TaskFailed \/ vfs = 1
    BY <2>1 DEF StartInv
  <2>5. StartedIsWhole'
    BY <2>1, <2>2, <2>4 DEF TaskFailed, StartedIsWhole
  <2>6. TaskFailed' \/ (initialized' = TRUE /\ vfs' = 1)
    BY <2>1, <2>2, <2>4 DEF StartInv, StartTypeOK, TaskFailed
  <2> QED
    BY <2>3, <2>5, <2>6 DEF StartInv
<1>6. ASSUME NEW t \in Starters, ~Deiniting, LibraryUnlocks(t)
      PROVE  StartInv'
  <2>1. /\ upc[t] = "unlock" /\ upc' = [upc EXCEPT ![t] = "idle"]
        /\ init_lock' = {} /\ UNCHANGED <<initialized, once, init_task, vfs>>
    BY <1>6 DEF LibraryUnlocks, To
  <2>2. \A u \in Starters \ {t} : upc[u] \notin UnderLock
    BY <2>1 DEF StartInv, StartTypeOK, Standing
  <2>3. StartTypeOK' /\ Standing'
    BY <2>1, <2>2 DEF StartInv, StartTypeOK, Standing
  <2>4. (\E u \in Starters : upc[u] \in WithVfs)' <=> \E u \in Starters : upc[u] \in WithVfs
    BY <2>1 DEF StartInv, StartTypeOK
  <2>5. StartedIsWhole'
    BY <1>6, <2>1 DEF StartInv, StartedIsWhole
  <2> QED
    BY <2>1, <2>3, <2>4, <2>5 DEF StartInv, TaskFailed
<1>7. ASSUME NEW t \in Starters, ~Deiniting, OnceBegins(t)
      PROVE  StartInv'
  <2>1. /\ once = "new" /\ once' = "busy" /\ UNCHANGED <<initialized, init_lock, init_task, vfs>>
        /\ \/ upc[t] = "once" /\ upc' = [upc EXCEPT ![t] = "making"]
           \/ upc[t] = "getpid" /\ upc' = [upc EXCEPT ![t] = "making too"]
    BY <1>7 DEF OnceBegins, To
  <2>2. StartTypeOK' /\ Standing'
    BY <2>1 DEF StartInv, StartTypeOK, Standing
  <2>3. (\E u \in Starters : upc[u] \in WithVfs)' <=> \E u \in Starters : upc[u] \in WithVfs
    BY <2>1 DEF StartInv, StartTypeOK
  <2>4. initialized = FALSE
    BY <2>1 DEF StartInv, StartTypeOK, Standing
  <2> QED
    BY <2>1, <2>2, <2>3, <2>4 DEF StartInv, TaskFailed, StartedIsWhole
<1>8. ASSUME NEW t \in Starters, ~Deiniting, OnceEnds(t)
      PROVE  StartInv'
  <2>1. /\ once' = "done" /\ init_task' \in {"live", "none"}
        /\ UNCHANGED <<initialized, init_lock, vfs>>
        /\ \/ upc[t] = "making" /\ upc' = [upc EXCEPT ![t] = "tasked"]
           \/ upc[t] = "making too" /\ upc' = [upc EXCEPT ![t] = "idle"]
    BY <1>8 DEF OnceEnds, To
  <2>2. /\ once = "busy" /\ initialized = FALSE
        /\ \A u \in Starters \ {t} : upc[u] \notin {"making", "making too", "down"}
    BY <2>1 DEF StartInv, StartTypeOK, Standing
  <2>3. StartTypeOK' /\ \A u \in Starters \ {t} : upc'[u] = upc[u]
    BY <2>1 DEF StartInv, StartTypeOK
  <2>4. upc'[t] \in {"tasked", "idle"} /\ (upc'[t] = "tasked" => upc[t] = "making")
    BY <2>1 DEF StartInv, StartTypeOK
  <2>5. StartTypeOK' /\ Standing'
    BY <2>1, <2>2, <2>3, <2>4 DEF StartInv, StartTypeOK, Standing
  <2>6. (\E u \in Starters : upc[u] \in WithVfs)' <=> \E u \in Starters : upc[u] \in WithVfs
    BY <2>1 DEF StartInv, StartTypeOK
  <2> QED
    BY <2>1, <2>2, <2>5, <2>6 DEF StartInv, TaskFailed, StartedIsWhole
<1>9. ASSUME NEW t \in Starters, ~Deiniting, OncePasses(t)
      PROVE  StartInv'
  <2>1. /\ once = "done" /\ UNCHANGED shared
        /\ \/ upc[t] = "once" /\ upc' = [upc EXCEPT ![t] = "tasked"]
           \/ upc[t] = "getpid" /\ upc' = [upc EXCEPT ![t] = "idle"]
    BY <1>9 DEF OncePasses, To
  <2>2. Standing'
    BY <2>1 DEF shared, StartInv, StartTypeOK, Standing
  <2> QED
    BY <1>9, <2>1, <2>2, MoveStep
<1>10. ASSUME NEW t \in Starters, DeinitTask(t)
       PROVE  StartInv'
  <2>1. /\ initialized /\ \A u \in Starters : upc[u] = "idle"
        /\ upc' = [upc EXCEPT ![t] = "down"] /\ init_task' = "none"
        /\ UNCHANGED <<initialized, init_lock, once, vfs>>
    BY <1>10 DEF DeinitTask, To
  <2>2. StartTypeOK' /\ Standing' /\ TaskFailed'
    BY <2>1 DEF StartInv, StartTypeOK, Standing, TaskFailed
  <2>3. Deiniting'
    BY <2>1 DEF StartInv, StartTypeOK, Deiniting
  <2> QED
    BY <2>2, <2>3 DEF StartInv, StartedIsWhole
<1>11. ASSUME NEW t \in Starters, DeinitFlag(t)
       PROVE  StartInv'
  <2>1. /\ upc[t] = "down" /\ upc' = [upc EXCEPT ![t] = "idle"]
        /\ vfs' = 0 /\ initialized' = FALSE /\ UNCHANGED <<init_lock, once, init_task>>
    BY <1>11 DEF DeinitFlag, To
  <2>2. StartTypeOK' /\ Standing' /\ TaskFailed'
    BY <2>1 DEF StartInv, StartTypeOK, Standing, TaskFailed
  <2> QED
    BY <2>1, <2>2 DEF StartInv, StartedIsWhole
<1>12. CASE UNCHANGED startVars
  BY <1>12 DEF startVars, shared, StartInv, StartTypeOK, Standing, TaskFailed, StartedIsWhole,
               Deiniting
<1> QED
  BY <1>1, <1>2, <1>3, <1>4, <1>5, <1>6, <1>7, <1>8, <1>9, <1>10, <1>11, <1>12 DEF StartNext

(* Whoever sees the library initialized finds the init task, and a file    *)
(* system that was initialized once, however many threads race to be the   *)
(* first and whether or not the task could be made.                        *)
THEOREM LibraryStartedIsWhole == StartSpec => []StartedIsWhole
<1>1. StartInv => StartedIsWhole
  BY DEF StartInv
<1> QED
  BY <1>1, StartInitInv, StartNextInv, PTL DEF StartSpec

-----------------------------------------------------------------------------
(* Files.  A table that is not allocated refers to nothing; without that,  *)
(* fork would overwrite references it does not drop.                       *)
FilesInv ==
  /\ FilesTypeOK
  /\ FileRefsExact
  /\ \A t \in Tables \ tables : slot[t] = Empty

\* The pairs by which table t, with slots s, refers to f.
Column(t, s, f) == {t} \X SlotsWith(s, f)

-----------------------------------------------------------------------------
LEMMA PlacesFinite ==
  ASSUME NEW f
  PROVE  /\ IsFiniteSet(SlotsOf(f)) /\ Cardinality(SlotsOf(f)) \in Nat
         /\ IsFiniteSet(HoldersOf(f)) /\ Cardinality(HoldersOf(f)) \in Nat
<1>1. IsFiniteSet(Slots)
  BY FilesAssumption, FS_Interval DEF Slots
<1>2. IsFiniteSet(Tables \X Slots)
  BY <1>1, FilesAssumption, FS_Product
<1>3. SlotsOf(f) \subseteq Tables \X Slots /\ HoldersOf(f) \subseteq Users
  BY DEF SlotsOf, HoldersOf
<1>4. IsFiniteSet(SlotsOf(f)) /\ IsFiniteSet(HoldersOf(f))
  BY <1>2, <1>3, FilesAssumption, FS_Subset
<1> QED
  BY <1>4, FS_CardinalityType

LEMMA ColumnCount ==
  ASSUME NEW t, NEW s, NEW f
  PROVE  /\ IsFiniteSet(SlotsWith(s, f)) /\ Cardinality(SlotsWith(s, f)) \in Nat
         /\ IsFiniteSet(Column(t, s, f))
         /\ Cardinality(Column(t, s, f)) = Cardinality(SlotsWith(s, f))
<1>1. IsFiniteSet(Slots)
  BY FilesAssumption, FS_Interval DEF Slots
<1>2. SlotsWith(s, f) \subseteq Slots
  BY DEF SlotsWith
<1>3. IsFiniteSet(SlotsWith(s, f))
  BY <1>1, <1>2, FS_Subset
<1>4. Cardinality(SlotsWith(s, f)) \in Nat
  BY <1>3, FS_CardinalityType
<1>5. IsFiniteSet({t}) /\ Cardinality({t}) = 1
  BY FS_Singleton
<1>6. /\ IsFiniteSet(Column(t, s, f))
      /\ Cardinality(Column(t, s, f)) = 1 * Cardinality(SlotsWith(s, f))
  BY <1>3, <1>5, FS_Product DEF Column
<1> QED
  BY <1>3, <1>4, <1>6

(* Counts that agree with what refers to each file are natural numbers.    *)
LEMMA ExactIsNat ==
  ASSUME FileRefsExact', frefs' \in [FileObjs -> Int]
  PROVE  frefs' \in [FileObjs -> Nat]
<1> SUFFICES ASSUME NEW f \in FileObjs
             PROVE  frefs'[f] \in Nat
  OBVIOUS
<1>1. IsFiniteSet(SlotsOf(f)') /\ IsFiniteSet(HoldersOf(f)')
  <2>1. IsFiniteSet(Slots)
    BY FilesAssumption, FS_Interval DEF Slots
  <2>2. IsFiniteSet(Tables \X Slots)
    BY <2>1, FilesAssumption, FS_Product
  <2>3. SlotsOf(f)' \subseteq Tables \X Slots /\ HoldersOf(f)' \subseteq Users
    BY DEF SlotsOf, HoldersOf
  <2> QED
    BY <2>2, <2>3, FilesAssumption, FS_Subset
<1>2. Cardinality(SlotsOf(f)') \in Nat /\ Cardinality(HoldersOf(f)') \in Nat
  BY <1>1, FS_CardinalityType
<1> QED
  BY <1>2 DEF FileRefsExact

LEMMA FilesInitInv == FilesInit => FilesInv
<1> SUFFICES ASSUME FilesInit PROVE FilesInv
  OBVIOUS
<1>1. FilesTypeOK
  BY FilesAssumption DEF FilesInit, FilesTypeOK, Empty
<1>2. FileRefsExact
  <2> SUFFICES ASSUME NEW f \in FileObjs
               PROVE  frefs[f] = Cardinality(SlotsOf(f)) + Cardinality(HoldersOf(f))
    BY DEF FileRefsExact
  <2>1. SlotsOf(f) = {} /\ HoldersOf(f) = {}
    BY FilesAssumption DEF FilesInit, SlotsOf, HoldersOf, Empty
  <2> QED
    BY <2>1, FS_EmptySet DEF FilesInit
<1>3. \A t \in Tables \ tables : slot[t] = Empty
  BY DEF FilesInit
<1> QED
  BY <1>1, <1>2, <1>3 DEF FilesInv

-----------------------------------------------------------------------------
\* A reference to old becomes one to new; one of the two is NoFile.
Recounts(old, new) ==
  /\ (old = NoFile) # (new = NoFile)
  /\ frefs' \in [FileObjs -> Int]
  /\ \A f \in FileObjs :
       frefs'[f] = IF f = new THEN frefs[f] + 1 ELSE IF f = old THEN frefs[f] - 1 ELSE frefs[f]

\* A thread takes a file in its hand or lets go of it.
HandTakes(u, new) ==
  /\ hold' = [hold EXCEPT ![u] = new]
  /\ Recounts(hold[u], new)
  /\ UNCHANGED <<tables, slot>>

\* A slot that was free takes a file, or one that was taken is freed.
SlotTakes(t, i, new) ==
  /\ slot' = [slot EXCEPT ![t] = [@ EXCEPT ![i] = new]]
  /\ Recounts(slot[t][i], new)
  /\ UNCHANGED <<tables, hold>>

LEMMA HandStep ==
  ASSUME FilesInv, NEW u \in Users, NEW new \in FileObjs \cup {NoFile}, HandTakes(u, new)
  PROVE  FilesInv'
<1> USE DEF HandTakes, Recounts
<1>1. FileRefsExact'
  <2> SUFFICES ASSUME NEW f \in FileObjs
               PROVE  frefs'[f] = Cardinality(SlotsOf(f)') + Cardinality(HoldersOf(f)')
    BY DEF FileRefsExact
  <2>1. SlotsOf(f)' = SlotsOf(f)
    BY DEF SlotsOf
  <2>2. frefs[f] = Cardinality(SlotsOf(f)) + Cardinality(HoldersOf(f))
    BY DEF FilesInv, FileRefsExact
  <2>3. HoldersOf(f)' = IF f = new THEN HoldersOf(f) \cup {u} ELSE HoldersOf(f) \ {u}
    BY DEF FilesInv, FilesTypeOK, HoldersOf
  <2>4. u \in HoldersOf(f) <=> hold[u] = f
    BY DEF HoldersOf
  <2>5. /\ Cardinality(HoldersOf(f) \cup {u}) =
             IF u \in HoldersOf(f) THEN Cardinality(HoldersOf(f)) ELSE Cardinality(HoldersOf(f)) + 1
        /\ Cardinality(HoldersOf(f) \ {u}) =
             IF u \in HoldersOf(f) THEN Cardinality(HoldersOf(f)) - 1 ELSE Cardinality(HoldersOf(f))
    BY PlacesFinite, FS_AddElement, FS_RemoveElement
  <2>6. Cardinality(SlotsOf(f)) \in Nat /\ Cardinality(HoldersOf(f)) \in Nat
    BY PlacesFinite
  <2> QED
    BY <2>1, <2>2, <2>3, <2>4, <2>5, <2>6
<1>2. frefs' \in [FileObjs -> Nat]
  BY <1>1, ExactIsNat
<1> QED
  BY <1>1, <1>2 DEF FilesInv, FilesTypeOK

LEMMA SlotStep ==
  ASSUME FilesInv, NEW t \in tables, NEW i \in Slots, NEW new \in FileObjs \cup {NoFile},
         SlotTakes(t, i, new)
  PROVE  FilesInv'
<1> USE DEF SlotTakes, Recounts
<1>1. t \in Tables /\ slot[t] \in [Slots -> FileObjs \cup {NoFile}]
  BY DEF FilesInv, FilesTypeOK
<1>2. slot' \in [Tables -> [Slots -> FileObjs \cup {NoFile}]]
  BY <1>1 DEF FilesInv, FilesTypeOK
<1>3. FileRefsExact'
  <2> SUFFICES ASSUME NEW f \in FileObjs
               PROVE  frefs'[f] = Cardinality(SlotsOf(f)') + Cardinality(HoldersOf(f)')
    BY DEF FileRefsExact
  <2>1. HoldersOf(f)' = HoldersOf(f)
    BY DEF HoldersOf
  <2>2. frefs[f] = Cardinality(SlotsOf(f)) + Cardinality(HoldersOf(f))
    BY DEF FilesInv, FileRefsExact
  <2>3. SlotsOf(f)' = IF f = new THEN SlotsOf(f) \cup {<<t, i>>} ELSE SlotsOf(f) \ {<<t, i>>}
    BY <1>1 DEF FilesInv, FilesTypeOK, SlotsOf
  <2>4. <<t, i>> \in SlotsOf(f) <=> slot[t][i] = f
    BY <1>1 DEF SlotsOf
  <2>5. /\ Cardinality(SlotsOf(f) \cup {<<t, i>>}) =
             IF <<t, i>> \in SlotsOf(f) THEN Cardinality(SlotsOf(f)) ELSE Cardinality(SlotsOf(f)) + 1
        /\ Cardinality(SlotsOf(f) \ {<<t, i>>}) =
             IF <<t, i>> \in SlotsOf(f) THEN Cardinality(SlotsOf(f)) - 1 ELSE Cardinality(SlotsOf(f))
    BY PlacesFinite, FS_AddElement, FS_RemoveElement
  <2>6. Cardinality(SlotsOf(f)) \in Nat /\ Cardinality(HoldersOf(f)) \in Nat
    BY PlacesFinite
  <2> QED
    BY <2>1, <2>2, <2>3, <2>4, <2>5, <2>6, FilesAssumption
<1>4. frefs' \in [FileObjs -> Nat]
  BY <1>3, ExactIsNat
<1> QED
  BY <1>1, <1>2, <1>3, <1>4 DEF FilesInv, FilesTypeOK

(* A whole table is copied: the child's column is new.                     *)
LEMMA DupStep ==
  ASSUME FilesInv, NEW parent \in Tables, NEW child \in Tables, ixland_files_dup(parent, child)
  PROVE  FilesInv'
<1>1. /\ slot[parent] \in [Slots -> FileObjs \cup {NoFile}]
      /\ slot[child] = Empty
  BY DEF ixland_files_dup, FilesInv, FilesTypeOK
<1>2. slot' \in [Tables -> [Slots -> FileObjs \cup {NoFile}]]
  BY <1>1 DEF FilesInv, FilesTypeOK, ixland_files_dup
<1>3. FileRefsExact'
  <2> SUFFICES ASSUME NEW f \in FileObjs
               PROVE  frefs'[f] = Cardinality(SlotsOf(f)') + Cardinality(HoldersOf(f)')
    BY DEF FileRefsExact
  <2> DEFINE new == Column(child, slot[parent], f)
  <2>1. HoldersOf(f)' = HoldersOf(f)
    BY DEF HoldersOf, ixland_files_dup
  <2>2. frefs[f] = Cardinality(SlotsOf(f)) + Cardinality(HoldersOf(f))
    BY DEF FilesInv, FileRefsExact
  <2>3. SlotsOf(f)' = SlotsOf(f) \cup new
    BY <1>1, FilesAssumption
    DEF FilesInv, FilesTypeOK, ixland_files_dup, SlotsOf, SlotsWith, Column, Empty
  <2>4. SlotsOf(f) \cap new = {}
    BY <1>1, FilesAssumption DEF SlotsOf, SlotsWith, Column, Empty
  <2>5. Cardinality(SlotsOf(f) \cup new)
          = Cardinality(SlotsOf(f)) + Cardinality(new) - Cardinality(SlotsOf(f) \cap new)
    BY PlacesFinite, ColumnCount, FS_Union
  <2>6. frefs'[f] = frefs[f] + Cardinality(SlotsWith(slot[parent], f))
    BY DEF ixland_files_dup
  <2>7. Cardinality(new) = Cardinality(SlotsWith(slot[parent], f)) /\ Cardinality(new) \in Nat
    BY ColumnCount
  <2>9. Cardinality(SlotsOf(f) \cap new) = 0
    BY <2>4, FS_EmptySet
  <2> HIDE DEF new
  <2>8. Cardinality(SlotsOf(f)) \in Nat /\ Cardinality(HoldersOf(f)) \in Nat
    BY PlacesFinite
  <2> QED
    BY <2>1, <2>2, <2>3, <2>4, <2>5, <2>6, <2>7, <2>8, <2>9
<1>4. frefs' \in [FileObjs -> Nat]
  <2>1. \A f \in FileObjs : frefs[f] + Cardinality(SlotsWith(slot[parent], f)) \in Int
    <3> TAKE f \in FileObjs
    <3>1. Cardinality(SlotsWith(slot[parent], f)) \in Nat
      BY ColumnCount
    <3> QED
      BY <3>1 DEF FilesInv, FilesTypeOK
  <2>2. frefs' \in [FileObjs -> Int]
    BY <2>1 DEF ixland_files_dup
  <2> QED
    BY <1>3, <2>2, ExactIsNat
<1>5. \A t \in Tables \ tables' : slot'[t] = Empty
  BY DEF ixland_files_dup, FilesInv, FilesTypeOK
<1> QED
  BY <1>2, <1>3, <1>4, <1>5 DEF FilesInv, FilesTypeOK, ixland_files_dup

(* A table gives up its files in S, as exec and the end of a task do.  The *)
(* table stays as it is, or goes if nothing is left in it.                 *)
LEMMA ReleaseStep ==
  ASSUME FilesInv, NEW t \in tables, NEW S \in SUBSET FileObjs, Released(t, S), UNCHANGED hold,
         tables' = tables \/ (tables' = tables \ {t} /\ S = FileObjs)
  PROVE  FilesInv'
<1>1. t \in Tables /\ slot[t] \in [Slots -> FileObjs \cup {NoFile}]
  BY DEF FilesInv, FilesTypeOK
<1> DEFINE rest == [i \in Slots |-> IF slot[t][i] \in S THEN NoFile ELSE slot[t][i]]
<1>2. slot' = [slot EXCEPT ![t] = rest]
  BY DEF Released
<1>3. rest \in [Slots -> FileObjs \cup {NoFile}]
  BY <1>1
<1>4. slot' \in [Tables -> [Slots -> FileObjs \cup {NoFile}]]
  BY <1>1, <1>2, <1>3 DEF FilesInv, FilesTypeOK
<1>5. slot'[t] = rest /\ \A s \in Tables \ {t} : slot'[s] = slot[s]
  BY <1>1, <1>2 DEF FilesInv, FilesTypeOK
<1>6. FileRefsExact'
  <2> SUFFICES ASSUME NEW f \in FileObjs
               PROVE  frefs'[f] = Cardinality(SlotsOf(f)') + Cardinality(HoldersOf(f)')
    BY DEF FileRefsExact
  <2> DEFINE gone == IF f \in S THEN Column(t, slot[t], f) ELSE {}
  <2>1. HoldersOf(f)' = HoldersOf(f)
    BY DEF HoldersOf
  <2>2. frefs[f] = Cardinality(SlotsOf(f)) + Cardinality(HoldersOf(f))
    BY DEF FilesInv, FileRefsExact
  <2>3. SlotsOf(f)' = SlotsOf(f) \ gone
    BY <1>1, <1>5, FilesAssumption DEF SlotsOf, SlotsWith, Column
  <2>4. SlotsOf(f) \cap gone = gone
    BY <1>1 DEF SlotsOf, SlotsWith, Column
  <2>5. Cardinality(SlotsOf(f) \ gone)
          = Cardinality(SlotsOf(f)) - Cardinality(SlotsOf(f) \cap gone)
    BY PlacesFinite, FS_Difference
  <2>6. frefs'[f] = frefs[f] - Cardinality(gone)
    <3>1. frefs[f] \in Nat
      BY DEF FilesInv, FilesTypeOK
    <3>2. CASE f \in S
      BY <3>2, ColumnCount DEF Released
    <3>3. CASE f \notin S
      BY <3>1, <3>3, FS_EmptySet DEF Released
    <3> QED
      BY <3>2, <3>3
  <2>7. Cardinality(gone) \in Nat
    BY ColumnCount, FS_EmptySet
  <2> HIDE DEF gone
  <2>8. Cardinality(SlotsOf(f)) \in Nat /\ Cardinality(HoldersOf(f)) \in Nat
    BY PlacesFinite
  <2> QED
    BY <2>1, <2>2, <2>3, <2>4, <2>5, <2>6, <2>7, <2>8
<1>7. frefs' \in [FileObjs -> Nat]
  <2>1. \A f \in FileObjs : /\ frefs[f] \in Int
                            /\ frefs[f] - Cardinality(SlotsWith(slot[t], f)) \in Int
    <3> TAKE f \in FileObjs
    <3>1. Cardinality(SlotsWith(slot[t], f)) \in Nat
      BY ColumnCount
    <3> QED
      BY <3>1 DEF FilesInv, FilesTypeOK
  <2>2. frefs' \in [FileObjs -> Int]
    BY <2>1 DEF Released
  <2> QED
    BY <1>6, <2>2, ExactIsNat
<1>8. \A s \in Tables \ tables' : slot'[s] = Empty
  <2>1. S = FileObjs => rest = Empty
    BY <1>1 DEF Empty
  <2> QED
    BY <1>5, <2>1 DEF FilesInv
<1> QED
  BY <1>4, <1>6, <1>7, <1>8 DEF FilesInv, FilesTypeOK

-----------------------------------------------------------------------------
LEMMA FilesNextInv ==
  ASSUME FilesInv, [FilesNext]_fileVars
  PROVE  FilesInv'
<1>0. /\ \A f \in FileObjs : f # NoFile
      /\ frefs \in [FileObjs -> Nat] /\ hold \in [Users -> FileObjs \cup {NoFile}]
      /\ tables \subseteq Tables /\ slot \in [Tables -> [Slots -> FileObjs \cup {NoFile}]]
  BY FilesAssumption DEF FilesInv, FilesTypeOK
<1>1. ASSUME NEW u \in Users, ixland_file_free(u)
      PROVE  FilesInv'
  <2>1. HandTakes(u, NoFile)
    BY <1>0, <1>1 DEF ixland_file_free, HandTakes, Recounts
  <2> QED
    BY <2>1, HandStep
<1>2. ASSUME NEW u \in Users, NEW f \in FileObjs, ixland_file_alloc(u, f)
      PROVE  FilesInv'
  <2>1. HandTakes(u, f)
    BY <1>0, <1>2 DEF ixland_file_alloc, HandTakes, Recounts
  <2> QED
    BY <2>1, HandStep
<1>3. ASSUME NEW u \in Users, NEW t \in Tables, ixland_fd_alloc(u, t)
      PROVE  FilesInv'
  <2>1. PICK i \in Slots : /\ FirstFree(slot[t], i)
                           /\ slot' = [slot EXCEPT ![t] = [@ EXCEPT ![i] = hold[u]]]
    BY <1>3 DEF ixland_fd_alloc
  <2>2. /\ t \in tables /\ slot[t][i] = NoFile
        /\ hold[u] # NoFile /\ frefs' = [frefs EXCEPT ![hold[u]] = @ + 1]
        /\ UNCHANGED <<tables, hold>>
    BY <1>3, <2>1 DEF ixland_fd_alloc, FirstFree
  <2>3. Recounts(slot[t][i], hold[u])
    BY <1>0, <2>2 DEF Recounts
  <2> QED
    BY <1>0, <2>1, <2>2, <2>3, SlotStep DEF SlotTakes
<1>4. ASSUME NEW u \in Users, NEW t \in Tables, NEW i \in Slots, ixland_fd_lookup(u, t, i)
      PROVE  FilesInv'
  <2>1. slot[t][i] \in FileObjs /\ HandTakes(u, slot[t][i])
    BY <1>0, <1>4 DEF ixland_fd_lookup, FoundAndCounted, HandTakes, Recounts
  <2> QED
    BY <2>1, HandStep
<1>5. ASSUME NEW t \in Tables, ixland_files_free(t)
      PROVE  FilesInv'
  BY <1>5, ReleaseStep DEF ixland_files_free
<1>6. ASSUME NEW t \in Tables, NEW i \in Slots, ixland_fd_free(t, i)
      PROVE  FilesInv'
  <2>1. t \in tables /\ SlotTakes(t, i, NoFile)
    BY <1>0, <1>6 DEF ixland_fd_free, SlotTakes, Recounts
  <2> QED
    BY <2>1, SlotStep
<1>7. CASE UNCHANGED fileVars
  BY <1>7 DEF fileVars, FilesInv, FilesTypeOK, FileRefsExact, SlotsOf, HoldersOf
<1> QED
  BY <1>1, <1>2, <1>3, <1>4, <1>5, <1>6, <1>7, DupStep DEF FilesNext

(* Every variable keeps its type: in particular no count goes below zero,  *)
(* whatever tasks fork, close and exit in whatever order.                  *)
THEOREM FilesTypeCorrect == FilesSpec => []FilesTypeOK
<1>1. FilesInv => FilesTypeOK
  BY DEF FilesInv
<1> QED
  BY <1>1, FilesInitInv, FilesNextInv, PTL DEF FilesSpec

(* A file's count (ixland_file_t.refs) is the number of descriptors and    *)
(* threads that refer to it: it is freed with the last and never before.   *)
THEOREM FilesRefCountExact == FilesSpec => []FileRefsExact
<1>1. FilesInv => FileRefsExact
  BY DEF FilesInv
<1> QED
  BY <1>1, FilesInitInv, FilesNextInv, PTL DEF FilesSpec

-----------------------------------------------------------------------------
(* Exec.  Where a task stands in execve says what it has given up so far,  *)
(* and a native image is still registered unless the registry was cleared  *)
(* in the meantime.                                                        *)
ExecTypeOK ==
  /\ registry \in Seq(Programs)
  /\ xpc \in [Runners -> {"none", "classify", "copy", "close", "reset", "dispatch",
                          "failed", "running"}]
  /\ program \in [Runners -> Programs \cup {NoPath}]
  /\ image \in [Runners -> {"NATIVE", "WASI", "SCRIPT", "NONE"}]
  /\ handler \in [Runners -> {"DFL", "IGN", "fn"}]
  /\ before \in [Runners -> [Slots -> FileObjs \cup {NoFile}]]
  /\ cleared \subseteq Runners

Progress(t) ==
  /\ xpc[t] # "none" => program[t] \in Programs
  /\ xpc[t] \in {"classify", "copy", "close"} => KeepsExactly(t, {})
  /\ xpc[t] \in {"reset", "dispatch", "running"} => KeepsExactly(t, Cloexec)
  /\ xpc[t] \in {"dispatch", "running"} => handler[t] # "fn"

NativeStays(t) ==
  xpc[t] \in {"copy", "close", "reset", "dispatch"} /\ image[t] = "NATIVE" /\ t \notin cleared
    => Registered(program[t])

ExecInv ==
  /\ FilesInv
  /\ ExecTypeOK
  /\ \A t \in Runners : Progress(t) /\ NativeStays(t)
  /\ ExecFailsEarly

-----------------------------------------------------------------------------
LEMMA ExecInitInv == ExecInit => ExecInv
<1> SUFFICES ASSUME ExecInit PROVE ExecInv
  OBVIOUS
<1>1. FilesInv
  BY FilesInitInv DEF ExecInit
<1>2. ExecTypeOK
  BY DEF ExecInit, ExecTypeOK, Empty
<1>3. \A t \in Runners : Progress(t) /\ NativeStays(t)
  BY DEF ExecInit, Progress, NativeStays
<1>4. ExecFailsEarly
  BY DEF ExecInit, ExecFailsEarly
<1> QED
  BY <1>1, <1>2, <1>3, <1>4 DEF ExecInv

LEMMA RegisterStep ==
  ASSUME ExecInv, NEW p \in Programs, ixland_native_register(p)
  PROVE  ExecInv'
<1>1. FilesInv'
  BY FilesNextInv DEF ExecInv, ixland_native_register
<1>2. ExecTypeOK'
  BY DEF ExecInv, ExecTypeOK, ixland_native_register, execState
<1>3. \A q : Registered(q) => Registered(q)'
  <2> SUFFICES ASSUME NEW q, NEW i \in DOMAIN registry, registry[i] = q
               PROVE  Registered(q)'
    BY DEF Registered
  <2>1. registry \in Seq(Programs) /\ registry' = <<p>> \o registry
    BY DEF ExecInv, ExecTypeOK, ixland_native_register
  <2>2. i + 1 \in DOMAIN registry' /\ registry'[i + 1] = registry[i]
    BY <2>1
  <2> QED
    BY <2>2 DEF Registered
<1>4. UNCHANGED <<slot, xpc, program, image, before, cleared, handler>>
  BY DEF ixland_native_register, fileVars, execState
<1>5. \A t \in Runners : Progress(t)' /\ NativeStays(t)'
  BY <1>3, <1>4 DEF ExecInv, Progress, NativeStays, KeepsExactly
<1>6. ExecFailsEarly'
  BY <1>4 DEF ExecInv, ExecFailsEarly, KeepsExactly
<1> QED
  BY <1>1, <1>2, <1>5, <1>6 DEF ExecInv

LEMMA ClearStep ==
  ASSUME ExecInv, ixland_native_registry_clear
  PROVE  ExecInv'
<1>1. FilesInv'
  BY FilesNextInv DEF ExecInv, ixland_native_registry_clear
<1>2. ExecTypeOK'
  BY DEF ExecInv, ExecTypeOK, ixland_native_registry_clear
<1>3. /\ UNCHANGED <<slot, xpc, program, image, before, handler>>
      /\ cleared' = cleared \cup {t \in Runners : Inside(t)}
  BY DEF ixland_native_registry_clear, fileVars
<1>4. \A t \in Runners : Progress(t)'
  BY <1>3 DEF ExecInv, Progress, KeepsExactly
<1>5. \A t \in Runners : NativeStays(t)'
  BY <1>3 DEF NativeStays, Inside
<1>6. ExecFailsEarly'
  BY <1>3 DEF ExecInv, ExecFailsEarly, KeepsExactly
<1> QED
  BY <1>1, <1>2, <1>4, <1>5, <1>6 DEF ExecInv

(* What moves one task on in execve leaves the others' fields as they are. *)
Alone(t) ==
  \A u \in Runners \ {t} :
    /\ xpc'[u] = xpc[u] /\ program'[u] = program[u] /\ image'[u] = image[u]
    /\ before'[u] = before[u] /\ handler'[u] = handler[u] /\ slot'[u] = slot[u]
    /\ u \in cleared' <=> u \in cleared

LEMMA OthersKeep ==
  ASSUME ExecInv, NEW t \in Runners, Alone(t), UNCHANGED registry,
         FilesInv', ExecTypeOK', Progress(t)', NativeStays(t)',
         xpc'[t] = "failed" /\ image'[t] \notin {"WASI", "SCRIPT"} /\ t \notin cleared'
           => KeepsExactly(t, {})'
  PROVE  ExecInv'
<1>1. ASSUME NEW u \in Runners \ {t}
      PROVE  Progress(u)' /\ NativeStays(u)'
  <2>1. Progress(u) /\ NativeStays(u)
    BY DEF ExecInv
  <2> QED
    BY <2>1 DEF Alone, Progress, NativeStays, KeepsExactly, Registered
<1>2. ExecFailsEarly'
  BY DEF ExecInv, ExecFailsEarly, Alone, KeepsExactly
<1> QED
  BY <1>1, <1>2 DEF ExecInv

LEMMA ExecveStep ==
  ASSUME ExecInv, NEW t \in Runners,
         \/ \E p \in Programs : ixland_execve(t, p)
         \/ ixland_exec_classify(t) \/ ExecCopies(t) \/ ixland_exec_close_cloexec(t)
         \/ ixland_exec_reset_signals(t) \/ ixland_exec_native(t) \/ ixland_exec_script(t)
         \/ ExecReturns(t)
         \/ \E h \in {"DFL", "IGN", "fn"} : ixland_signal(t, h)
  PROVE  ExecInv'
<1>1. t \in Tables /\ slot[t] \in [Slots -> FileObjs \cup {NoFile}]
  BY ExecAssumption DEF ExecInv, FilesInv, FilesTypeOK
<1>2. Progress(t) /\ NativeStays(t)
  BY DEF ExecInv
<1>3. ExecTypeOK
  BY DEF ExecInv
<1>4. ASSUME UNCHANGED fileVars
      PROVE  FilesInv' /\ UNCHANGED slot
  BY <1>4, FilesNextInv DEF ExecInv, fileVars
<1>5. CASE \E p \in Programs : ixland_execve(t, p)
  <2>1. PICK p \in Programs : ixland_execve(t, p)
    BY <1>5
  <2>2. ExecTypeOK' /\ Alone(t) /\ UNCHANGED registry
    BY <1>1, <1>3, <1>4, <2>1 DEF ExecTypeOK, ixland_execve, At, Alone
  <2>3. xpc'[t] = "classify" /\ before'[t] = slot[t] /\ program'[t] \in Programs
    BY <1>3, <2>1 DEF ExecTypeOK, ixland_execve, At
  <2>4. Progress(t)' /\ NativeStays(t)'
    BY <1>4, <2>1, <2>3 DEF ixland_execve, Progress, NativeStays, KeepsExactly
  <2> QED
    BY <1>4, <2>1, <2>2, <2>3, <2>4, OthersKeep DEF ixland_execve
<1>6. CASE ixland_exec_classify(t)
  <2> DEFINE type == IF Registered(program[t]) THEN "NATIVE" ELSE Kind[program[t]]
  <2>1. /\ xpc[t] = "classify"
        /\ xpc' = [xpc EXCEPT ![t] = IF type = "NONE" THEN "failed" ELSE "copy"]
        /\ image' = [image EXCEPT ![t] = type]
        /\ UNCHANGED <<fileVars, registry, program, before, cleared, handler>>
    BY <1>6 DEF ixland_exec_classify, At, Order
  <2>2. program[t] \in Programs
    BY <1>2, <2>1 DEF Progress
  <2>3. /\ type \in {"NATIVE", "WASI", "SCRIPT", "NONE"}
        /\ type = "NATIVE" => Registered(program[t])
    BY <2>2, ExecAssumption
  <2> HIDE DEF type
  <2>4. ExecTypeOK' /\ Alone(t)
    BY <1>3, <1>4, <2>1, <2>3 DEF ExecTypeOK, Alone
  <2>5. Progress(t)' /\ NativeStays(t)' /\ KeepsExactly(t, {})'
    BY <1>2, <1>3, <1>4, <2>1, <2>3 DEF ExecTypeOK, Progress, NativeStays, KeepsExactly, Registered
  <2> QED
    BY <1>4, <2>1, <2>4, <2>5, OthersKeep
<1>7. CASE ExecCopies(t)
  <2>1. /\ xpc[t] = "copy"
        /\ xpc' = [xpc EXCEPT ![t] = "close"] \/ xpc' = [xpc EXCEPT ![t] = "failed"]
        /\ UNCHANGED <<fileVars, registry, program, image, before, cleared, handler>>
    BY <1>7 DEF ExecCopies, At, Order
  <2>2. ExecTypeOK' /\ Alone(t)
    BY <1>3, <1>4, <2>1 DEF ExecTypeOK, Alone
  <2>3. Progress(t)' /\ NativeStays(t)' /\ KeepsExactly(t, {})'
    BY <1>2, <1>3, <1>4, <2>1 DEF ExecTypeOK, Progress, NativeStays, KeepsExactly, Registered
  <2> QED
    BY <1>4, <2>1, <2>2, <2>3, OthersKeep
<1>8. CASE ixland_exec_close_cloexec(t)
  <2>1. /\ t \in tables /\ xpc[t] = "close" /\ xpc' = [xpc EXCEPT ![t] = "reset"]
        /\ Released(t, Cloexec)
        /\ UNCHANGED <<tables, hold, registry, program, image, before, cleared, handler>>
    BY <1>8 DEF ixland_exec_close_cloexec, At, Order, ToClose
  <2>2. FilesInv'
    BY <2>1, ExecAssumption, ReleaseStep DEF ExecInv
  <2>3. /\ slot'[t] = [i \in Slots |-> IF slot[t][i] \in Cloexec THEN NoFile ELSE slot[t][i]]
        /\ \A u \in Tables \ {t} : slot'[u] = slot[u]
    BY <1>1, <2>1 DEF Released, ExecInv, FilesInv, FilesTypeOK
  <2>4. ExecTypeOK' /\ Alone(t)
    BY <1>3, <2>1, <2>3, ExecAssumption DEF ExecTypeOK, Alone
  <2>5. KeepsExactly(t, Cloexec)'
    BY <1>2, <2>1, <2>3 DEF Progress, KeepsExactly
  <2>6. xpc'[t] = "reset"
    BY <1>3, <2>1 DEF ExecTypeOK
  <2>7. Progress(t)' /\ NativeStays(t)'
    BY <1>2, <2>1, <2>5, <2>6 DEF Progress, NativeStays, Registered
  <2> QED
    BY <2>1, <2>2, <2>4, <2>6, <2>7, OthersKeep
<1>9. CASE ixland_exec_reset_signals(t)
  <2>1. /\ xpc[t] = "reset" /\ xpc' = [xpc EXCEPT ![t] = "dispatch"]
        /\ handler' = [handler EXCEPT ![t] = IF @ = "IGN" THEN "IGN" ELSE "DFL"]
        /\ UNCHANGED <<fileVars, registry, program, image, before, cleared>>
    BY <1>9 DEF ixland_exec_reset_signals, At, Order, ResetHandler
  <2>2. ExecTypeOK' /\ Alone(t)
    BY <1>3, <1>4, <2>1 DEF ExecTypeOK, Alone
  <2>3. Progress(t)' /\ NativeStays(t)' /\ xpc'[t] = "dispatch"
    BY <1>2, <1>3, <1>4, <2>1 DEF ExecTypeOK, Progress, NativeStays, KeepsExactly, Registered
  <2> QED
    BY <1>4, <2>1, <2>2, <2>3, OthersKeep
<1>10. CASE ixland_exec_native(t)
  <2>1. /\ image[t] = "NATIVE" /\ xpc[t] = "dispatch"
        /\ xpc' = [xpc EXCEPT ![t] = IF Registered(program[t]) THEN "running" ELSE "failed"]
        /\ UNCHANGED <<fileVars, registry, program, image, before, cleared, handler>>
    BY <1>10 DEF ixland_exec_native, At
  <2>2. ExecTypeOK' /\ Alone(t)
    BY <1>3, <1>4, <2>1 DEF ExecTypeOK, Alone
  <2>3. Progress(t)' /\ NativeStays(t)'
    BY <1>2, <1>3, <1>4, <2>1 DEF ExecTypeOK, Progress, NativeStays, KeepsExactly
  <2>4. xpc'[t] = "failed" => t \in cleared'
    BY <1>2, <1>3, <2>1 DEF ExecTypeOK, NativeStays
  <2> QED
    BY <1>4, <2>1, <2>2, <2>3, <2>4, OthersKeep
<1>11. CASE ixland_exec_script(t)
  <2>1. /\ image[t] \in {"WASI", "SCRIPT"} /\ xpc[t] = "dispatch"
        /\ xpc' = [xpc EXCEPT ![t] = "failed"]
        /\ UNCHANGED <<fileVars, registry, program, image, before, cleared, handler>>
    BY <1>11 DEF ixland_exec_script, At
  <2>2. ExecTypeOK' /\ Alone(t)
    BY <1>3, <1>4, <2>1 DEF ExecTypeOK, Alone
  <2>3. Progress(t)' /\ NativeStays(t)'
    BY <1>2, <1>3, <1>4, <2>1 DEF ExecTypeOK, Progress, NativeStays
  <2> QED
    BY <1>4, <2>1, <2>2, <2>3, OthersKeep
<1>12. CASE ExecReturns(t)
  <2>1. /\ xpc' = [xpc EXCEPT ![t] = "none"] /\ program' = [program EXCEPT ![t] = NoPath]
        /\ image' = [image EXCEPT ![t] = "NONE"] /\ before' = [before EXCEPT ![t] = Empty]
        /\ cleared' = cleared \ {t}
        /\ UNCHANGED <<fileVars, registry, handler>>
    BY <1>12 DEF ExecReturns, At
  <2>2. ExecTypeOK' /\ Alone(t)
    BY <1>3, <1>4, <2>1 DEF ExecTypeOK, Alone, Empty
  <2>3. Progress(t)' /\ NativeStays(t)' /\ xpc'[t] = "none"
    BY <1>3, <2>1 DEF ExecTypeOK, Progress, NativeStays
  <2> QED
    BY <1>4, <2>1, <2>2, <2>3, OthersKeep
<1>13. CASE \E h \in {"DFL", "IGN", "fn"} : ixland_signal(t, h)
  <2>1. PICK h \in {"DFL", "IGN", "fn"} :
          /\ xpc[t] = "none" /\ handler' = [handler EXCEPT ![t] = h]
          /\ UNCHANGED <<fileVars, registry, execState>>
    BY <1>13 DEF ixland_signal
  <2>2. UNCHANGED <<xpc, program, image, before, cleared>>
    BY <2>1 DEF execState
  <2>3. ExecTypeOK' /\ Alone(t)
    BY <1>3, <1>4, <2>1, <2>2 DEF ExecTypeOK, Alone
  <2>4. Progress(t)' /\ NativeStays(t)' /\ xpc'[t] = "none"
    BY <2>1, <2>2 DEF Progress, NativeStays
  <2> QED
    BY <1>4, <2>1, <2>3, <2>4, OthersKeep
<1> QED
  BY <1>5, <1>6, <1>7, <1>8, <1>9, <1>10, <1>11, <1>12, <1>13

(* Forks, closes and exits of others beside it.                            *)
LEMMA FilesStepKeeps ==
  ASSUME ExecInv, FilesStep
  PROVE  ExecInv'
<1>1. FilesInv'
  BY FilesNextInv DEF ExecInv, FilesStep
<1>2. /\ UNCHANGED <<registry, xpc, program, image, before, cleared, handler>>
      /\ \A t \in Runners : xpc[t] # "none" => slot'[t] = slot[t]
  BY DEF FilesStep, execState
<1>3. ExecTypeOK'
  BY <1>2 DEF ExecInv, ExecTypeOK
<1>4. \A t \in Runners : Progress(t)' /\ NativeStays(t)'
  BY <1>2 DEF ExecInv, Progress, NativeStays, KeepsExactly, Registered
<1>5. ExecFailsEarly'
  BY <1>2 DEF ExecInv, ExecFailsEarly, KeepsExactly
<1> QED
  BY <1>1, <1>3, <1>4, <1>5 DEF ExecInv

LEMMA ExecNextInv ==
  ASSUME ExecInv, [ExecNext]_execVars
  PROVE  ExecInv'
<1>1. CASE UNCHANGED execVars
  <2>1. UNCHANGED <<fileVars, slot, registry, xpc, program, image, before, cleared, handler>>
    BY <1>1 DEF execVars, execState, fileVars
  <2>2. FilesInv'
    BY <2>1, FilesNextInv DEF ExecInv
  <2>3. ExecTypeOK'
    BY <2>1 DEF ExecInv, ExecTypeOK
  <2> QED
    BY <2>1, <2>2, <2>3
    DEF ExecInv, Progress, NativeStays, KeepsExactly, Registered, ExecFailsEarly
<1>2. CASE ExecNext
  BY <1>2, FilesStepKeeps, ClearStep, RegisterStep, ExecveStep DEF ExecNext
<1> QED
  BY <1>1, <1>2

-----------------------------------------------------------------------------
(* The counts of files stay exact while tasks are in execve, which closes  *)
(* some of their descriptors.                                              *)
THEOREM ExecRefCountExact == ExecSpec => []FileRefsExact
<1>1. ExecInv => FileRefsExact
  BY DEF ExecInv, FilesInv
<1> QED
  BY <1>1, ExecInitInv, ExecNextInv, PTL DEF ExecSpec

(* A command that execve starts has its caller's descriptors but for those *)
(* marked close-on-exec, and no handler of the old program.                *)
THEOREM ExecCleanStart == ExecSpec => []ExecStartsClean
<1>1. ExecInv => ExecStartsClean
  BY DEF ExecInv, Progress, ExecStartsClean
<1> QED
  BY <1>1, ExecInitInv, ExecNextInv, PTL DEF ExecSpec

(* An execve that fails leaves its caller every descriptor, unless the     *)
(* file is a script or WebAssembly or the registry was cleared meanwhile.  *)
THEOREM ExecEarlyFailure == ExecSpec => []ExecFailsEarly
<1>1. ExecInv => ExecFailsEarly
  BY DEF ExecInv
<1> QED
  BY <1>1, ExecInitInv, ExecNextInv, PTL DEF ExecSpec
=============================================================================
