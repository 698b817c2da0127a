-------------------------------- MODULE Ssh ---------------------------------
(***************************************************************************)
(* IXLandSystem/ssh_main.c: the ssh command, from its arguments to its     *)
(* exit code, and what it owns on the way.                                 *)
(*                                                                         *)
(* libssh2, the resolver and the terminal answer as they like, within      *)
(* this: there is no handshake without a connection and no channel without *)
(* authentication, a try that would block is tried again, and the key      *)
(* directory, once opened, can be opened again.  A host comes after the    *)
(* options.  The command runs in a thread of the application, so that what *)
(* it leaves behind stays: sockets, which nothing here closes, and on most *)
(* failures the session and the channel.                                   *)
(***************************************************************************)
EXTENDS Integers

CONSTANT MaxAddrs   \* addresses of the host

VARIABLES
  sshPlace,  \* where ssh_main is
  owned,     \* of each thing, "none", "held" or "freed"
  sock,      \* "none" (-1), or connected
  blocking,  \* which of sock and stdin are in blocking mode
  addrsLeft,
  authenticated,  \* the server has accepted the user
  auth,      \* the methods of the server
  by,        \* the method being tried
  round,     \* i of the loop over passphrases
  rc

sshVars == <<sshPlace, owned, sock, blocking, addrsLeft, authenticated, auth, by, round, rc>>
talking == <<sock, blocking, addrsLeft>>
trying == <<auth, by, round>>

Things == {"commandLine", "session", "channel", "dirp", "passphrase"}
Streams == {"sock", "stdin"}

SshInit ==
  /\ sshPlace = "arguments" /\ owned = [t \in Things |-> "none"]
  /\ sock = "none" /\ blocking = Streams /\ addrsLeft = 0
  /\ authenticated = FALSE /\ auth = {} /\ by = "publickey" /\ round = 0 /\ rc = 0

SetTo(things, how) == [t \in Things |-> IF t \in things THEN how ELSE owned[t]]
\* free(), behind a test for NULL where one of these may be.
Free(things) == [t \in Things |-> IF t \in things /\ owned[t] # "none" THEN "freed" ELSE owned[t]]
Leaves(code) == sshPlace' = "done" /\ rc' = code
GoesTo(to) == sshPlace' = to /\ rc' = rc

---------------------------------------------------------------------------
(* Up to the list of methods                                               *)

Usage == sshPlace = "arguments" /\ Leaves(1) /\ UNCHANGED <<owned, talking, authenticated, trying>>

Arguments ==
  /\ sshPlace = "arguments" /\ GoesTo("resolve")
  /\ \E command \in BOOLEAN : owned' = SetTo(IF command THEN {"commandLine"} ELSE {}, "held")
  /\ UNCHANGED <<talking, authenticated, trying>>

\* All returns before the methods are tried free the command line, and no more.
\* Faulty: not even that.
ForgetsLine(code) == Leaves(code) /\ UNCHANGED <<owned, authenticated, trying>>
GivesUp(code) == Leaves(code) /\ owned' = Free({"commandLine"}) /\ UNCHANGED <<authenticated, trying>>

Resolve ==
  /\ sshPlace = "resolve" /\ UNCHANGED <<sock, blocking>>
  /\ \/ GivesUp(0) /\ UNCHANGED addrsLeft
     \/ \E n \in 1 .. MaxAddrs :
          addrsLeft' = n /\ GoesTo("connect") /\ UNCHANGED <<owned, authenticated, trying>>

\* An address of another family, or without a name, is passed over; so is one
\* for which there is no socket, unless it is the last; a socket that does not
\* connect in time is forgotten.
ConnectOne ==
  /\ sshPlace = "connect" /\ addrsLeft > 0 /\ addrsLeft' = addrsLeft - 1 /\ UNCHANGED blocking
  /\ \/ sock' = "none" /\ UNCHANGED <<sshPlace, owned, authenticated, trying, rc>>
     \/ addrsLeft = 1 /\ GivesUp(0) /\ UNCHANGED sock
     \/ sock' = "connected" /\ GoesTo("session") /\ UNCHANGED <<owned, authenticated, trying>>

\* Without a connection it goes on all the same.
NewSession ==
  /\ \/ sshPlace = "session"
     \/ sshPlace = "connect" /\ addrsLeft = 0
  /\ UNCHANGED talking
  /\ \/ GivesUp(0)
     \/ GoesTo("handshake") /\ owned' = SetTo({"session"}, "held") /\ UNCHANGED <<authenticated, trying>>

Handshake ==
  /\ sshPlace = "handshake" /\ UNCHANGED talking
  /\ \/ GivesUp(-1)
     \/ sock = "connected" /\ GoesTo("verify") /\ UNCHANGED <<owned, authenticated, trying>>

\* ssh_verify_host: a key that is unknown, has changed or cannot be checked is
\* added to known_hosts.  Whether it could be added is not asked: ssh goes on if
\* the file could be written.
VerifyHost ==
  /\ sshPlace = "verify" /\ UNCHANGED talking
  /\ \E hosts, match, added, written \in BOOLEAN :
       IF hosts /\ (match \/ written)
       THEN GoesTo("list") /\ UNCHANGED <<owned, authenticated, trying>>
       ELSE GivesUp(0)

AuthList ==
  /\ sshPlace = "list" /\ UNCHANGED talking
  /\ \/ GivesUp(0)
     \/ \E methods \in SUBSET {"publickey", "password"} :
          /\ auth' = methods
          /\ GoesTo(IF "publickey" \in methods THEN "opendir" ELSE "password")
          /\ UNCHANGED <<owned, authenticated, by, round>>

---------------------------------------------------------------------------
(* Keys, and one channel for both methods                                  *)

OpenDir ==
  /\ sshPlace = "opendir" /\ UNCHANGED talking
  /\ \/ round = 0 /\ GivesUp(0)
     \/ sshPlace' = "keys" /\ rc' = -2 /\ owned' = SetTo({"dirp"}, "held") /\ UNCHANGED <<authenticated, trying>>

\* A key that is refused, the one that is accepted, or no key any more.
NextKey ==
  /\ sshPlace = "keys" /\ UNCHANGED <<owned, talking, trying>>
  /\ \/ rc' = -18 /\ UNCHANGED <<sshPlace, authenticated>>
     \/ rc' = 0 /\ sshPlace' = "channel" /\ authenticated' = TRUE
     \/ GoesTo("round") /\ UNCHANGED authenticated

\* Twice in the code: for a key, and on failure back to the loop over passphrases;
\* for a password, and on failure to the end.
OpenChannel(otherwise) ==
  \/ sshPlace' = otherwise /\ rc' = -1 /\ owned' = SetTo({"channel"}, "none")
  \/ authenticated /\ owned' = SetTo({"channel"}, "held") /\ GoesTo("start")

\* The command line if there is one, a terminal and a shell otherwise.
Execute(otherwise) ==
  /\ UNCHANGED owned
  /\ \/ sshPlace' = otherwise /\ rc' = -3
     \/ sshPlace' = "loop" /\ rc' = 0

UsesKey ==
  /\ by = "publickey" /\ UNCHANGED <<talking, authenticated, trying>>
  /\ \/ sshPlace = "channel" /\ OpenChannel("round")
     \/ sshPlace = "start" /\ Execute("round")
UsesPassword ==
  /\ by = "password" /\ UNCHANGED <<talking, authenticated, trying>>
  /\ \/ sshPlace = "channel" /\ OpenChannel("end")
     \/ sshPlace = "start" /\ Execute("end")

---------------------------------------------------------------------------
(* ssh_client_loop                                                         *)

LoopTurns ==
  /\ sshPlace = "loop" /\ blocking' = {}
  /\ UNCHANGED <<sshPlace, owned, sock, addrsLeft, authenticated, trying, rc>>

\* Both streams are put back, however the loop ended.
PutBack == blocking \cup Streams

LoopEnds ==
  /\ sshPlace = "loop" /\ blocking = {} /\ blocking' = PutBack
  /\ \E closed \in {0, -1} : rc' = closed
  /\ sshPlace' = IF by = "publickey" THEN "round" ELSE "passed"
  /\ UNCHANGED <<owned, sock, addrsLeft, authenticated, trying>>

---------------------------------------------------------------------------
(* After a round over the keys, and the password                           *)

Connected(things) ==
  /\ rc >= 0 /\ Leaves(rc)
  /\ owned' = Free({"dirp", "channel", "session", "commandLine"} \cup things)
  /\ UNCHANGED trying

\* read_passphrase: NULL and an empty answer stop the tries.
Asks(yes, no) == \E reply \in {yes, no} : sshPlace' = reply

KeysRound ==
  /\ sshPlace = "round" /\ UNCHANGED <<talking, authenticated>>
  /\ \/ Connected({})
     \/ /\ rc = -2 /\ GoesTo("password") /\ owned' = Free({"dirp"}) /\ UNCHANGED trying
     \/ /\ rc = -3 /\ round' = round + 1 /\ owned' = Free({"dirp"})
        /\ GoesTo(IF round < 3 THEN "opendir" ELSE "password") /\ UNCHANGED <<auth, by>>
     \/ /\ rc < 0 /\ rc \notin {-2, -3} /\ round' = round + 1
        /\ owned' = [Free({"dirp"}) EXCEPT !["passphrase"] = "held"]
        /\ Asks(IF round < 3 THEN "opendir" ELSE "password", "password")
        /\ UNCHANGED <<auth, by, rc>>

Password ==
  /\ sshPlace = "password" /\ UNCHANGED <<talking, authenticated, rc>> /\ by' = "password"
  /\ IF "password" \in auth
     THEN Asks("try", "end") /\ owned' = SetTo({"passphrase"}, "held")
     ELSE sshPlace' = "end" /\ UNCHANGED owned
  /\ UNCHANGED <<auth, round>>

\* The answer of the server is compared before it is stored, line 660, so that
\* what is tried next is a channel, wrong password or not.
TryPassword ==
  /\ sshPlace = "try" /\ sshPlace' = "channel" /\ rc' = 0
  /\ \E right \in BOOLEAN : authenticated' = (authenticated \/ right)
  /\ UNCHANGED <<owned, talking, trying>>

PasswordRound ==
  /\ sshPlace = "passed" /\ UNCHANGED <<talking, authenticated, trying>>
  /\ \/ Connected({"passphrase"})
     \/ rc < 0 /\ Asks("try", "end") /\ UNCHANGED <<owned, rc>>

SshEnd ==
  /\ sshPlace = "end" /\ Leaves(-1) /\ owned' = Free({"session", "commandLine"})
  /\ UNCHANGED <<talking, authenticated, trying>>

SshNext ==
  \/ Usage \/ Arguments \/ Resolve \/ ConnectOne \/ NewSession \/ Handshake \/ VerifyHost
  \/ AuthList \/ OpenDir \/ NextKey \/ UsesKey \/ UsesPassword \/ LoopTurns \/ LoopEnds
  \/ KeysRound \/ Password \/ TryPassword \/ PasswordRound \/ SshEnd

SshSpec == SshInit /\ [][SshNext]_sshVars

---------------------------------------------------------------------------

\* What the code at each place uses, or frees.
Needs ==
  CASE sshPlace \in {"handshake", "verify", "list", "opendir", "channel", "password", "end"} -> {"session"}
    [] sshPlace = "try" -> {"session", "passphrase"}
    [] sshPlace = "keys" \/ (sshPlace = "round" /\ rc < 0) -> {"session", "dirp"}
    [] sshPlace = "round" /\ rc >= 0 -> {"session", "channel", "dirp"}
    [] sshPlace \in {"start", "loop"} -> {"session", "channel"}
    [] sshPlace = "passed" -> {"session", "channel", "passphrase"}
    [] OTHER -> {}

\* Through all its tries of keys, passphrases and passwords ssh uses, and frees,
\* nothing that it has freed or never had; and however it ends, whatever failed,
\* the command line is freed, no directory is open, and the application gets its
\* standard input back in blocking mode.
SshOrderly ==
  /\ \A thing \in Needs : owned[thing] = "held"
  /\ sshPlace # "done" => owned["commandLine"] # "freed"
  /\ sshPlace # "loop" => blocking = Streams
  /\ sshPlace = "done" => owned["commandLine"] # "held" /\ owned["dirp"] # "held"
  /\ round <= 4

\* "We are connected", ssh_main.c:668: what comes after a password was tried is
\* done for a user whom the server has accepted.  The code does not see to it.
WeAreConnected == by = "password" /\ sshPlace = "channel" => authenticated
=============================================================================
