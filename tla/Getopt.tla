------------------------------- MODULE Getopt -------------------------------
(***************************************************************************)
(* IXLandSystem/getopt.c and getopt_long.c: the two option parsers of the  *)
(* commands, called until they return -1.  getopt stops at the first       *)
(* operand; getopt_long moves the operands behind the options, exchanging  *)
(* blocks of arguments in place as it goes.                                *)
(*                                                                         *)
(* A word is a sequence of letters.  Programs reset the parser before they *)
(* use it, list no option "-" and no "W;", hand getopt_long a table of     *)
(* long options (never NULL), and do not call getopt_long_only.            *)
(***************************************************************************)
EXTENDS Integers, Sequences, SequencesExt

CONSTANTS
  ArgWords,   \* the words a command line is made of
  MaxWords,   \* how many
  ShortOpts,  \* the argument of each option letter: "no", "needs", "may"
  LongOpts    \* long_options: a sequence of [name, has_arg, val]; val is flag and val

ASSUME GetoptAssumption ==
  /\ MaxWords \in Nat
  /\ ArgWords \subseteq Seq(STRING)
  /\ \A c \in DOMAIN ShortOpts : ShortOpts[c] \in {"no", "needs", "may"}

VARIABLES
  style,  \* "idle", or the parser and how it treats operands
  ended,  \* it has returned -1
  given,  \* the words as they were given
  nargv,
  optind,
  place,  \* what is left of the current word
  nonopt_start, nonopt_end

nonopts == <<nonopt_start, nonopt_end>>
getoptVars == <<style, ended, given, nargv, optind, place, nonopts>>

Styles == {"getopt", "permute", "inorder", "stop"}
CommandLines == SeqOf(ArgWords, MaxWords)

GetoptInit ==
  /\ style = "idle" /\ ended = FALSE /\ given = <<>> /\ nargv = <<>>
  /\ optind = 1 /\ place = <<>>
  /\ nonopt_start = -1 /\ nonopt_end = -1

ParseBegins(words, s) ==
  /\ style = "idle"
  /\ style' = s /\ given' = words /\ nargv' = words
  /\ UNCHANGED <<ended, optind, place, nonopts>>

---------------------------------------------------------------------------
gcd[p \in Nat \X (Nat \ {0})] ==
  IF p[1] % p[2] = 0 THEN p[2] ELSE gcd[<<p[2], p[1] % p[2]>>]
\* Faulty: one cycle, whatever the sizes.
OneCycle(a, b) == 1
Cycles(a, b) == gcd[<<a, b>>]

\* Exchange nonopts from..mid-1 with options mid..to-1, one cycle after another:
\* the k-th exchange moves `pos` on along the cycle that began at cstart.
Swap(from, mid, to, at, k) ==
  LET nnonopts == mid - from
      nopts    == to - mid
      cyclelen == (to - from) \div Cycles(nnonopts, nopts)
      cstart   == mid + (k - 1) \div cyclelen
      last     == IF (k - 1) % cyclelen = 0 THEN cstart ELSE at.pos
      pos      == IF last >= mid THEN last - nnonopts ELSE last + nopts
  IN [pos   |-> pos,
      words |-> [at.words EXCEPT ![pos] = at.words[cstart], ![cstart] = at.words[pos]]]

permute_args(from, mid, to, words) ==
  LET ncycle   == Cycles(mid - from, to - mid)
      cyclelen == (to - from) \div ncycle
      Exchange(at, k) == Swap(from, mid, to, at, k)
  IN FoldLeft(Exchange, [pos |-> mid, words |-> words], [k \in 1 .. ncycle * cyclelen |-> k]).words

---------------------------------------------------------------------------
Dashes == <<"-", "-">>
Operand(word) == ~(Len(word) > 1 /\ word[1] = "-")
Fresh == place = <<>>
AtEnd == Fresh /\ optind > Len(nargv)
Word == nargv[optind]
Runs(S) == style \in S /\ ~ended
Ends == ended' = TRUE /\ UNCHANGED <<style, given>>

\* The permutation that is due when the scan ends before argument `to`.
Finished(to) ==
  /\ nargv' = IF nonopt_end # -1 THEN permute_args(nonopt_start, nonopt_end, to, nargv) ELSE nargv
  /\ optind' = CASE nonopt_end # -1 -> to - (nonopt_end - nonopt_start)
                 [] nonopt_start # -1 /\ nonopt_end = -1 -> nonopt_start
                 [] OTHER -> to
  /\ nonopt_start' = -1 /\ nonopt_end' = -1 /\ place' = <<>>

LongEnds ==
  /\ Runs(Styles \ {"getopt"}) /\ AtEnd
  /\ Finished(optind) /\ Ends

\* "--" is an option: what was skipped ends in front of it.
LongDashes ==
  /\ Runs(Styles \ {"getopt"}) /\ Fresh /\ ~AtEnd /\ Word = Dashes
  /\ LET end == IF nonopt_start # -1 /\ nonopt_end = -1 THEN optind ELSE nonopt_end IN
       /\ nargv' = IF end # -1 THEN permute_args(nonopt_start, end, optind + 1, nargv) ELSE nargv
       /\ optind' = optind + 1 - (IF end # -1 THEN end - nonopt_start ELSE 0)
  /\ nonopt_start' = -1 /\ nonopt_end' = -1 /\ place' = <<>>
  /\ Ends

MeetsOperand == Runs(Styles \ {"getopt"}) /\ Fresh /\ ~AtEnd /\ Operand(Word)

OperandReturned ==
  /\ MeetsOperand /\ style = "inorder"
  /\ optind' = optind + 1
  /\ UNCHANGED <<style, ended, given, nargv, place, nonopts>>

OperandStops ==
  /\ MeetsOperand /\ style = "stop"
  /\ Ends
  /\ UNCHANGED <<nargv, optind, place, nonopts>>

OperandSkipped ==
  /\ MeetsOperand /\ style = "permute"
  /\ optind' = optind + 1
  /\ IF nonopt_start = -1
       THEN nonopt_start' = optind /\ UNCHANGED <<nargv, nonopt_end>>
       ELSE IF nonopt_end # -1
       THEN /\ nargv' = permute_args(nonopt_start, nonopt_end, optind, nargv)
            /\ nonopt_start' = optind - (nonopt_end - nonopt_start)
            /\ nonopt_end' = -1
       ELSE UNCHANGED <<nargv, nonopts>>
  /\ UNCHANGED <<style, ended, given, place>>

---------------------------------------------------------------------------
(* An option, at the start of a word or further into it                    *)

Letters == IF Fresh THEN Tail(Word) ELSE place
NameOf(letters) ==
  IF Contains(letters, "=") THEN SubSeq(letters, 1, SelectInSeq(letters, LAMBDA c : c = "=") - 1)
                   ELSE letters
Matching(name) == {i \in DOMAIN LongOpts : IsPrefix(name, LongOpts[i].name)}
Exact(name) == {i \in DOMAIN LongOpts : LongOpts[i].name = name}
First(S) == {i \in S : \A j \in S : i <= j}
SameOption(i, j) == /\ LongOpts[i].has_arg = LongOpts[j].has_arg
                    /\ LongOpts[i].val = LongOpts[j].val

\* The option a name stands for, the first that matches: none when it is unknown,
\* or ambiguous, which an abbreviation of synonyms is not.
Match(name) ==
  IF Exact(name) # {} THEN First(Exact(name))
  ELSE {i \in First(Matching(name)) : \A j \in Matching(name) : SameOption(i, j)}

\* How many words a long option moves the scan by.
parse_long_options(letters) ==
  IF /\ \E i \in Match(NameOf(letters)) : LongOpts[i].has_arg = "needs"
     /\ ~Contains(letters, "=")
     /\ optind < Len(nargv)
  THEN 2 ELSE 1

EntersOption ==
  IF Fresh /\ nonopt_start # -1 /\ nonopt_end = -1
  THEN nonopt_end' = optind /\ UNCHANGED nonopt_start ELSE UNCHANGED nonopts

InOption == Runs(Styles) /\ (Fresh => ~AtEnd /\ ~Operand(Word) /\ Word # Dashes)

LongOption ==
  /\ InOption /\ style # "getopt" /\ Letters[1] = "-"
  /\ optind' = optind + parse_long_options(Tail(Letters))
  /\ place' = <<>> /\ EntersOption
  /\ UNCHANGED <<style, ended, given, nargv>>

ShortOption ==
  /\ InOption /\ Letters[1] # "-"
  /\ LET rest  == Tail(Letters)
         arg   == IF Letters[1] \in DOMAIN ShortOpts THEN ShortOpts[Letters[1]] ELSE "no"
         needs == arg = "needs" \/ (style = "getopt" /\ arg = "may")
     IN /\ place' = IF arg = "no" THEN rest ELSE <<>>
        /\ optind' = CASE arg = "no" /\ rest # <<>> -> optind
                       [] needs /\ rest = <<>> /\ optind < Len(nargv) -> optind + 2
                       [] OTHER -> optind + 1
  /\ EntersOption
  /\ UNCHANGED <<style, ended, given, nargv>>

---------------------------------------------------------------------------
(* getopt: no permutation, and every word that starts with "--" ends it.   *)

getopt_ends ==
  /\ Runs({"getopt"}) /\ Fresh
  /\ ~AtEnd => Operand(Word)
  /\ Ends
  /\ UNCHANGED <<nargv, optind, place, nonopts>>

getopt_dashes ==
  /\ Runs({"getopt"}) /\ Fresh /\ ~AtEnd
  /\ Word[1] = "-" /\ Len(Word) > 1 /\ Word[2] = "-"
  /\ optind' = optind + 1
  /\ Ends
  /\ UNCHANGED <<nargv, place, nonopts>>

\* A dash further into a word ends it there.
getopt_dash ==
  /\ Runs({"getopt"}) /\ ~Fresh /\ place[1] = "-"
  /\ place' = Tail(place)
  /\ Ends
  /\ UNCHANGED <<nargv, optind, nonopts>>

GetoptNext ==
  \/ \E words \in CommandLines, s \in Styles : ParseBegins(words, s)
  \/ LongEnds \/ LongDashes \/ LongOption \/ ShortOption
  \/ getopt_ends \/ getopt_dashes \/ getopt_dash
  \/ OperandReturned \/ OperandStops \/ OperandSkipped

GetoptSpec == GetoptInit /\ [][GetoptNext]_getoptVars

---------------------------------------------------------------------------
(* What the parsers promise, from the words as they were given             *)

Arg(c, s) ==
  IF c \notin DOMAIN ShortOpts THEN "no"
  ELSE IF s = "getopt" /\ ShortOpts[c] = "may" THEN "needs" ELSE ShortOpts[c]
IsEnd(word, s) == IF s = "getopt" THEN word[2] = "-" ELSE word = Dashes

\* The letters before the p-th are options without an argument.
Reaches(word, p, s) ==
  p \in 2 .. Len(word) /\ \A k \in 2 .. p - 1 : word[k] # "-" /\ Arg(word[k], s) = "no"
Halts(word, s) == s = "getopt" /\ \E p \in 3 .. Len(word) : Reaches(word, p, s) /\ word[p] = "-"

\* The name of a long option is behind a dash.
NeedsMore(word, p, s) ==
  IF word[p] = "-"
  THEN LET letters == SubSeq(word, p + 1, Len(word))
       IN ~Contains(letters, "=") /\ \E i \in Match(letters) : LongOpts[i].has_arg = "needs"
  ELSE p = Len(word) /\ Arg(word[p], s) = "needs"
WantsNext(word, s) == \E p \in 2 .. Len(word) : Reaches(word, p, s) /\ NeedsMore(word, p, s)

\* At i, the words from the i-th on that are options or arguments of options, up
\* to the end of the options, which is the first operand unless operands are
\* moved or returned like options, or the word that getopt stops in.
OptionsFrom(words, s) ==
  LET from[i \in 1 .. Len(words) + 1] ==
        IF i > Len(words) THEN {}
        ELSE IF Operand(words[i])
        THEN CASE s = "permute" -> from[i + 1]
               [] s = "inorder" -> {i} \cup from[i + 1]
               [] OTHER -> {}
        ELSE IF IsEnd(words[i], s) THEN {i}
        ELSE IF Halts(words[i], s) THEN {}
        ELSE IF WantsNext(words[i], s) /\ i < Len(words) THEN {i, i + 1} \cup from[i + 2]
        ELSE {i} \cup from[i + 1]
  IN from

Options == OptionsFrom(given, style)[1]

\* order[k] is where the k-th word was given.  The first optind-1 words are the
\* options with their arguments, and words of a kind keep their order; so no word
\* is there twice, and none is lost.
Sorts(order) ==
  /\ nargv = [k \in DOMAIN given |-> given[order[k]]]
  /\ \A k \in DOMAIN given : order[k] \in Options <=> k < optind
  /\ \A j, k \in DOMAIN given :
       j < k /\ (order[j] \in Options <=> order[k] \in Options) => order[j] < order[k]

\* When a parser is done, the words are those it was given: getopt_long has
\* moved every option with its argument, in order, in front of every operand,
\* in order, and the others have moved nothing; optind is at the first operand.
GetoptPermutes ==
  ended =>
    /\ optind \in 1 .. Len(given) + 1
    /\ \E order \in [DOMAIN given -> DOMAIN given] :
         Sorts(order) /\ (style # "permute" => \A k \in DOMAIN given : order[k] = k)
=============================================================================
