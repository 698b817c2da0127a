--------------------------- MODULE MCProcessTree ---------------------------
(* Instances of ProcessTree for TLC.                                        *)
EXTENDS ProcessTreeProperties

CONSTANTS init, a, b, d

Wait(p, o) == [pid |-> p, options |-> o]

ChainNproc == [t \in Tasks |-> CASE t = init -> 2 [] t = a -> 2 [] OTHER -> 1]
TwoLevels == [t \in Tasks |-> CASE t = init -> 2 [] t = a -> 2 [] OTHER -> 0]
OneGroup == [t \in Tasks |-> init]
TwoGroups == [t \in Tasks |-> IF t \in {init, b} THEN init ELSE a]
ChainWaits == [t \in Tasks |->
  CASE t = init -> {Wait(AnyChild, {}), Wait(AnyChild, {"WNOHANG"}), Wait(a, {})}
    [] t = a -> {Wait(AnyChild, {}), Wait(Group, {})}
    [] OTHER -> {Wait(AnyChild, {})}]
JobWaits == [t \in Tasks |->
  CASE t = init -> {Wait(AnyChild, {}), Wait(AnyChild, {"WNOHANG", "WUNTRACED"})}
    [] t = a -> {Wait(Group, {"WUNTRACED"})}
    [] OTHER -> {}]

OneLevel == [t \in Tasks |-> IF t = init THEN 2 ELSE 0]
JobControlWaits == [t \in Tasks |->
  IF t = init THEN {Wait(AnyChild, {"WUNTRACED", "WCONTINUED"}), Wait(AnyChild, {})} ELSE {}]
=============================================================================
