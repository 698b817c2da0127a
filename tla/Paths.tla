------------------------------- MODULE Paths --------------------------------
(***************************************************************************)
(* IXLandSystem/fs/path.c: two generations of path functions side by side. *)
(*                                                                         *)
(* A path is a sequence of slashes and names, where no name follows        *)
(* another.  The first generation collapses slashes and puts the root of   *)
(* the sandbox in front; the second takes out "." and ".." in place, and   *)
(* classifies by prefix and by substring.  Lengths, and the errors for     *)
(* them, are left out.                                                     *)
(***************************************************************************)
EXTENDS Integers, Sequences, SequencesExt

CONSTANTS
  Names,        \* names other than "." and ".."
  Virtual,      \* first names of virtual paths, for both generations
  Kernel,       \* those, lib64, proc and sys, that only the first one knows
  Shared,       \* names like Documents, Library and tmp, anywhere in a path
  SandboxRoot,  \* IXLAND_ROOT
  MaxTokens

\* Only if the root is as the default of path.c:117, absolute and with no slash
\* to collapse or to drop, does undoing a translation give back the path.
ASSUME PathsAssumption ==
  /\ Names \cap {"/", ".", ".."} = {}
  /\ Virtual \subseteq Names /\ Kernel \subseteq Names
  /\ SandboxRoot \in Seq(STRING) /\ SandboxRoot # <<>>
  /\ SandboxRoot[1] = "/" /\ SandboxRoot[Len(SandboxRoot)] # "/"
  /\ \A k \in 2 .. Len(SandboxRoot) : SandboxRoot[k - 1] # "/" \/ SandboxRoot[k] # "/"

VARIABLE spelled   \* the path the functions are applied to

pathVars == <<spelled>>
Tokens == Names \cup {"/", ".", ".."}

PathInit == spelled = <<>>

Spells(token) ==
  /\ Len(spelled) < MaxTokens
  /\ spelled # <<>> => token = "/" \/ spelled[Len(spelled)] = "/"
  /\ spelled' = Append(spelled, token)

PathNext == \E token \in Tokens : Spells(token)
PathSpec == PathInit /\ [][PathNext]_pathVars

---------------------------------------------------------------------------
(* The first generation                                                    *)

Absolute(path) == path # <<>> /\ path[1] = "/"
Under(path, firsts) == Len(path) > 2 /\ Absolute(path) /\ path[2] \in firsts /\ path[3] = "/"

ixland_path_classify(path) ==
  IF path = <<>> THEN "INVALID"
  ELSE IF Absolute(path) /\ path # <<"/">> /\ ~Under(path, Virtual \cup Kernel)
  THEN "ABSOLUTE_HOST" ELSE "VIRTUAL_LINUX"

TrailingDropped(path) ==
  IF Len(path) > 1 /\ path[Len(path)] = "/" THEN SubSeq(path, 1, Len(path) - 1) ELSE path

Collapse(dst, token) ==
  IF token = "/" /\ dst # <<>> /\ dst[Len(dst)] = "/" THEN dst ELSE Append(dst, token)

ixland_path_normalize(path) == TrailingDropped(FoldLeft(Collapse, <<>>, path))

ixland_path_translate(path) ==
  IF ixland_path_classify(path) = "VIRTUAL_LINUX"
  THEN ixland_path_normalize(SandboxRoot \o path) ELSE path

ixland_path_reverse_translate(path) ==
  IF IsPrefix(SandboxRoot, path) THEN SubSeq(path, Len(SandboxRoot) + 1, Len(path)) ELSE path

ixland_path_is_safe(path) == path # <<>> /\ ~Contains(path, "..")

---------------------------------------------------------------------------
(* The second generation                                                   *)

is_virtual_linux(path) ==
  Len(path) > 1 /\ Absolute(path) /\ path[2] \in Virtual /\ (Len(path) > 2 => path[3] = "/")
is_own_sandbox(path) == \E k \in 1 .. Len(path) - 1 : path[k] = "/" /\ path[k + 1] \in Shared

\* What is neither is external: a relative path too.
__ixland_path_classify(path) ==
  CASE path = <<>> -> "INVALID"
    [] is_virtual_linux(path) -> "VIRTUAL_LINUX"
    [] ~is_virtual_linux(path) /\ is_own_sandbox(path) -> "OWN_SANDBOX"
    [] OTHER -> "EXTERNAL"

__ixland_path_is_direct(path) == __ixland_path_classify(path) \in {"OWN_SANDBOX", "EXTERNAL"}

ByteAt(path, src) == IF src <= Len(path) THEN path[src] ELSE "end"
SkipSlashes(path, src) == Min({k \in src .. Len(path) + 1 : ByteAt(path, k) # "/"})

\* dst, back to its last slash, which goes too unless it is the first byte.
\* Relative paths, whose first byte is kept whatever it is, are not followed here.
LastSlash(dst) == SelectLastInSubSeq(dst, 1, Len(dst) - 1, LAMBDA t : t = "/")
\* Faulty: the slash of the root goes like any other.
UpPastRoot(dst) == IF dst = <<>> THEN dst ELSE SubSeq(dst, 1, LastSlash(dst) - 1)
Up(dst) ==
  IF Len(dst) < 2 THEN dst
  ELSE SubSeq(dst, 1, IF LastSlash(dst) <= 1 THEN 1 ELSE LastSlash(dst) - 1)

\* One turn of the loop: a run of slashes with a "." or "..", or one name.
Turn(path, at) ==
  IF at.src > Len(path) THEN at
  ELSE IF path[at.src] # "/" THEN [src |-> at.src + 1, dst |-> Append(at.dst, path[at.src])]
  ELSE LET next == SkipSlashes(path, at.src) IN
       CASE ByteAt(path, next) = "." -> [src |-> next + 1, dst |-> at.dst]
         [] ByteAt(path, next) = ".." -> [src |-> next + 1, dst |-> Up(at.dst)]
         [] OTHER -> [src |-> next,
                      dst |-> IF at.dst # <<>> /\ at.dst[Len(at.dst)] # "/"
                              THEN Append(at.dst, "/") ELSE at.dst]

\* Every turn takes at least one token, until there is none.
Walk(path, start) ==
  FoldLeft(LAMBDA at, token : Turn(path, at), [src |-> start, dst |-> <<"/">>], path).dst

\* An absolute path: the slashes it starts with, and one "." behind them.
__ixland_path_normalize(path) ==
  LET first == SkipSlashes(path, 1)
      start == IF ByteAt(path, first) = "." THEN SkipSlashes(path, first + 1) ELSE first
  IN TrailingDropped(Walk(path, start))

__ixland_path_join(base, rel) ==
  CASE Absolute(rel) -> rel
    [] ~Absolute(rel) /\ base # <<>> /\ base[Len(base)] = "/" -> base \o rel
    [] OTHER -> base \o <<"/">> \o rel

\* Only declared, in vfs.h: it answers with a path of its own choice, or fails.
ixland_vfs_translate(path) == {[translated |-> success, of |-> path] : success \in BOOLEAN}

\* What may be returned for a path that is not empty: a direct path is normalized,
\* a virtual one is translated too, and returned all the same when that fails.
__ixland_path_resolve(path) ==
  LET normalized == __ixland_path_normalize(path)
      itself     == [translated |-> FALSE, of |-> normalized]
  IN IF __ixland_path_is_direct(path) THEN {itself}
     ELSE {IF answer.translated THEN answer ELSE itself : answer \in ixland_vfs_translate(normalized)}

---------------------------------------------------------------------------
(* What an absolute path names, from its parts alone                       *)

Enter(dirs, token) ==
  CASE token \in {"/", "."} -> dirs
    [] token = ".." -> Front(dirs)
    [] OTHER -> Append(dirs, token)
Follows(dirs, path) == FoldLeft(Enter, dirs, path)
Meaning(path) == Follows(<<>>, path)

Descend(path, name) == path \o <<"/", name>>
Spelling(dirs) == IF dirs = <<>> THEN <<"/">> ELSE FoldLeft(Descend, <<>>, dirs)

\* A leading ".." is copied like a name, and so is a second leading ".".
FirstPart(path) == SelectInSeq(path, LAMBDA t : t \notin {"/", "."})
Plain(path) ==
  /\ Absolute(path) /\ FirstPart(path) # 0 /\ path[FirstPart(path)] # ".."
  /\ \A i, j \in 1 .. FirstPart(path) : path[i] = "." /\ path[j] = "." => i = j
Relatives == {<<"..">>, <<".", "/", "..", "/", ".">>, <<"..", "/", "..">>} \cup {<<n>> : n \in Names}

\* Normalization leaves the one shortest spelling of what a path names, for the
\* paths it is made for, and joined paths lead where they say; collapsing slashes
\* never changes what a path names; the translation to the sandbox can be undone,
\* except that the root comes back empty; and a safe virtual path is still one, and
\* below its first name, when it is translated and when it is returned because that
\* failed.
PathsAgree ==
  /\ Plain(spelled) =>
       /\ __ixland_path_normalize(spelled) = Spelling(Meaning(spelled))
       /\ \A rel \in Relatives :
            __ixland_path_normalize(__ixland_path_join(spelled, rel))
              = Spelling(Follows(Meaning(spelled), rel))
  /\ Absolute(spelled) => Meaning(ixland_path_normalize(spelled)) = Meaning(spelled)
  /\ Absolute(spelled) /\ ixland_path_classify(spelled) = "VIRTUAL_LINUX" =>
       ixland_path_reverse_translate(ixland_path_translate(spelled))
         = IF spelled = <<"/">> THEN <<>> ELSE ixland_path_normalize(spelled)
  /\ ixland_path_is_safe(spelled) /\ is_virtual_linux(spelled) =>
       \A result \in __ixland_path_resolve(spelled) :
         is_virtual_linux(result.of) /\ result.of[2] = spelled[2]
=============================================================================
