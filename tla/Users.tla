-------------------------------- MODULE Users --------------------------------
(***************************************************************************)
(* IXLandLibC/src/usersdb: pwd.c and grp.c, the users and the groups of    *)
(* the library, as constants behind getpw*, getgr* and their reentrant     *)
(* forms.  The others share one record and one position for all callers:   *)
(* as USERSDB_BEHAVIOR_CONTRACT.md has it they are not thread-safe, and a  *)
(* program uses them from one thread, so that each call is one step.       *)
(* Pointers are not NULL, but for the names.                               *)
(***************************************************************************)
EXTENDS Integers, Sequences, SequencesExt

CONSTANT BufLens     \* sizes of the buffers that callers of the _r functions bring

ASSUME UsersAssumption == BufLens \subseteq Nat

VARIABLES
  staticPasswd, staticGroup,  \* whose record is in the static buffers, or "nobody"
  pwentIndex,                 \* ixland_pwent_index
  grentValid,                 \* ixland_grent_valid
  pwents, grents,             \* returned by getpwent and getgrent since the last set or end
  answered                    \* of the last lookup: call, key, buffer, error, record, and the strings' places

usersVars == <<staticPasswd, staticGroup, pwentIndex, grentValid, pwents, grents, answered>>
iterators == <<pwentIndex, grentValid, pwents, grents>>

UserList == <<"root", "mobile">>
Uid == [root |-> 0, mobile |-> 501]
Keys == {"root", "mobile", "other", "NULL"}
Absent(key) == IF key = "NULL" THEN "EINVAL" ELSE "ENOENT"

\* The lengths, with their NULs: name, passwd, gecos, dir and shell of a user;
\* name, passwd and the empty list of members of the group.
UserStrings == [root |-> <<5, 2, 21, 10, 8>>, mobile |-> <<7, 2, 12, 12, 8>>]
GroupStrings == <<7, 2, 8>>

Total(strings) == FoldSeq(LAMBDA a, b : a + b, 0, strings)
\* What a buffer must have.  Faulty: the password is not counted.
NeededButPasswd(strings) == Total(strings) - strings[2]
Needed(strings) == Total(strings)

\* The calls that look up: by the name of a user, by its number, and for groups.
Lookups == {"pwnam", "pwuid", "gr"}

Unasked ==
  [call |-> "gr", key |-> "other", buflen |-> 0, error |-> "ENOENT", who |-> "nobody", at |-> <<>>,
   needs |-> <<>>]
Fails(call, key, buflen, error) ==
  [Unasked EXCEPT !.call = call, !.key = key, !.buflen = buflen, !.error = error]
\* The strings one after the other from the start of the buffer.
Copied(call, buflen, who, strings) ==
  [call |-> call, key |-> who, buflen |-> buflen, error |-> "OK", who |-> who, needs |-> strings,
   at |-> [i \in DOMAIN strings |-> Total(SubSeq(strings, 1, i - 1))]]

UsersInit ==
  /\ staticPasswd = "nobody" /\ staticGroup = "nobody" /\ pwentIndex = 0 /\ grentValid = FALSE
  /\ pwents = <<>> /\ grents = <<>> /\ answered = Unasked

---------------------------------------------------------------------------
(* Lookups into the static buffers                                         *)

Found(call, who) == answered' = [Fails(call, who, 0, "OK") EXCEPT !.who = who]

\* By name, only the default user is found, and NULL is refused.
ixland_getpwnam(key) ==
  /\ IF key = "mobile" THEN staticPasswd' = "mobile" /\ Found("pwnam", "mobile")
     ELSE answered' = Fails("pwnam", key, 0, Absent(key)) /\ UNCHANGED staticPasswd
  /\ UNCHANGED <<staticGroup, iterators>>

ixland_getpwuid(key) ==
  /\ IF key \in DOMAIN Uid THEN staticPasswd' = key /\ Found("pwuid", key)
     ELSE answered' = Fails("pwuid", key, 0, "ENOENT") /\ UNCHANGED staticPasswd
  /\ UNCHANGED <<staticGroup, iterators>>

\* getgrnam and getgrgid.
ixland_getgr(key) ==
  /\ IF key = "mobile" THEN staticGroup' = "mobile" /\ Found("gr", "mobile")
     ELSE answered' = Fails("gr", key, 0, Absent(key)) /\ UNCHANGED staticGroup
  /\ UNCHANGED <<staticPasswd, iterators>>

---------------------------------------------------------------------------
(* Reentrant lookups                                                       *)

\* The buffer is measured before the name is looked at.
ixland_getpwnam_r(key, buflen) ==
  answered' =
    IF key = "NULL" THEN Fails("pwnam", key, buflen, "EINVAL")
    ELSE IF buflen < Needed(UserStrings["mobile"]) THEN Fails("pwnam", key, buflen, "ERANGE")
    ELSE IF key # "mobile" THEN Fails("pwnam", key, buflen, "ENOENT")
    ELSE Copied("pwnam", buflen, "mobile", UserStrings["mobile"])

ixland_getpwuid_r(key, buflen) ==
  answered' =
    IF key \notin DOMAIN Uid THEN Fails("pwuid", key, buflen, "ENOENT")
    ELSE IF buflen < Needed(UserStrings[key]) THEN Fails("pwuid", key, buflen, "ERANGE")
    ELSE Copied("pwuid", buflen, key, UserStrings[key])

\* getgrnam_r and getgrgid_r.
ixland_getgr_r(key, buflen) ==
  answered' =
    IF key = "NULL" THEN Fails("gr", key, buflen, "EINVAL")
    ELSE IF buflen < Needed(GroupStrings) THEN Fails("gr", key, buflen, "ERANGE")
    ELSE IF key # "mobile" THEN Fails("gr", key, buflen, "ENOENT")
    ELSE Copied("gr", buflen, "mobile", GroupStrings)

Reentrant ==
  /\ \E key \in Keys, buflen \in BufLens :
       \/ ixland_getpwnam_r(key, buflen) \/ ixland_getgr_r(key, buflen)
       \/ key # "NULL" /\ ixland_getpwuid_r(key, buflen)
  /\ UNCHANGED <<staticPasswd, staticGroup, iterators>>

---------------------------------------------------------------------------
(* Iteration                                                               *)

\* setpwent and endpwent.
ixland_setpwent ==
  /\ pwentIndex' = 0 /\ pwents' = <<>>
  /\ UNCHANGED <<staticPasswd, staticGroup, grentValid, grents, answered>>

ixland_getpwent ==
  /\ pwentIndex < Len(UserList) /\ pwentIndex' = pwentIndex + 1
  /\ staticPasswd' = UserList[pwentIndex'] /\ pwents' = Append(pwents, staticPasswd')
  /\ UNCHANGED <<staticGroup, grentValid, grents, answered>>

\* Only after setgrent is there an entry: at the start, as after endgrent, none.
ixland_setgrent(valid) ==
  /\ grentValid' = valid /\ grents' = <<>>
  /\ UNCHANGED <<staticPasswd, staticGroup, pwentIndex, pwents, answered>>

ixland_getgrent ==
  /\ grentValid /\ grentValid' = FALSE
  /\ staticGroup' = "mobile" /\ grents' = Append(grents, "mobile")
  /\ UNCHANGED <<staticPasswd, pwentIndex, pwents, answered>>

UsersNext ==
  \/ \E key \in Keys : ixland_getpwnam(key) \/ ixland_getgr(key)
  \/ \E key \in Keys \ {"NULL"} : ixland_getpwuid(key)
  \/ Reentrant
  \/ ixland_setpwent \/ ixland_getpwent \/ ixland_getgrent
  \/ \E valid \in BOOLEAN : ixland_setgrent(valid)

UsersSpec == UsersInit /\ [][UsersNext]_usersVars

---------------------------------------------------------------------------

\* Whom each call finds: by name only the default user, by number root too.
Finds(call) == IF call = "pwuid" THEN {"root", "mobile"} ELSE {"mobile"}

\* Lookups between the calls of an iteration do not disturb it, which returns
\* every entry once; a lookup answers with the record it was asked for, and finds
\* none for no other key than Finds leaves out (the documents have it find root by
\* name too: RootIsFound); the strings of a record lie in the caller's buffer and do
\* not overlap; and ERANGE is said to none whose buffer holds every record.
UsersAgree ==
  /\ IsPrefix(pwents, UserList) /\ Len(pwents) = pwentIndex
  /\ Len(grents) <= 1 /\ (grentValid => grents = <<>>)
  /\ answered.error = "OK" => answered.who = answered.key
  /\ answered.error = "ENOENT" => answered.key \notin Finds(answered.call)
  /\ \A i \in DOMAIN answered.at :
       /\ answered.at[i] + answered.needs[i] <= answered.buflen
       /\ \A j \in DOMAIN answered.at : i < j => answered.at[i] + answered.needs[i] <= answered.at[j]
  /\ answered.error = "ERANGE" =>
       \E who \in DOMAIN UserStrings : answered.buflen < Total(UserStrings[who])

\* test_usersdb_smoke.c:132-134 and USERSDB_BEHAVIOR_CONTRACT.md:32: getpwnam
\* finds "root", which getpwent returns by that name.  It does not.
RootIsFound ==
  answered.call = "pwnam" /\ answered.key = "root" => answered.error \in {"OK", "ERANGE"}
=============================================================================
