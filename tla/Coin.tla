-------------------------------- MODULE Coin --------------------------------
(***************************************************************************)
(* ParseCoin of src/common/coin.go: the console's gas price argument       *)
(* ("500AM", "100kAM", "1mAM", "1DDAM", as the console's own error        *)
(* message suggests) turned into an amount of AM.                          *)
(*                                                                         *)
(* The string is abstracted, after strings.ToLower and strings.TrimSpace,  *)
(* to its digit prefix (a number, or NoNum when there are no digits) and   *)
(* the rest (the unit).  The regular expression                            *)
(* ^([0-9]+)(am|kam|mam|ddam)$ matches exactly the inputs with a number    *)
(* and one of those four units.                                            *)
(***************************************************************************)
EXTENDS Naturals

CONSTANTS
    MaxNum,     \* largest number typed, a natural
    NoNum       \* the string has no digit prefix; a model value, not a number

(* The unit constants AM, KAM, MAM, DDAM.                                  *)
AM == 1
KAM == 1000
MAM == 1000000
DDAM == 1000000000

(* The alternatives of the regular expression `am`.                        *)
RegexUnits == {"am", "kam", "mam", "ddam"}

(* Trimmed, lower-cased inputs: no digits, digits only, or digits and a   *)
(* suffix that may or may not be a unit.                                    *)
Units == RegexUnits \cup {"tas", "", "x"}
Inputs == [num : (0..MaxNum) \cup {NoNum}, unit : Units]

(* The switch on ret[2]: "kam", "mam" and "tas"; anything else keeps AM.   *)
UnitOf(u) ==
    CASE u = "kam" -> KAM
      [] u = "mam" -> MAM
      [] u = "tas" -> DDAM
      [] OTHER     -> AM

(* ParseCoin(s): ErrEmptyStr for the empty string, ErrIllegalStr when the *)
(* regular expression does not match, else uint64(num) * unit.  The       *)
(* product wraps modulo 2^64 in Go; the numbers here stay far below.      *)
ParseCoin(in) ==
    IF in.num = NoNum /\ in.unit = ""
    THEN [ok |-> FALSE, err |-> "ErrEmptyStr", val |-> 0]
    ELSE IF in.num = NoNum \/ in.unit \notin RegexUnits
    THEN [ok |-> FALSE, err |-> "ErrIllegalStr", val |-> 0]
    ELSE [ok |-> TRUE, err |-> "", val |-> in.num * UnitOf(in.unit)]

VARIABLE input     \* the --gasprice argument of one sendtx command

Init == input \in Inputs

Next == UNCHANGED input

Spec == Init /\ [][Next]_input

-----------------------------------------------------------------------------
(* The value of each unit the console names in its usage message          *)
(* ("correct example: 100AM,100kAM,1mAM,1DDAM").                            *)
UnitValue == [am |-> AM, kam |-> KAM, mam |-> MAM, ddam |-> DDAM]

(* A gas price ParseCoin accepts is the number times the value of the     *)
(* unit it was written in: "1DDAM" is 10^9 AM.                              *)
ParseCoinHonoursUnit ==
    ParseCoin(input).ok => ParseCoin(input).val = input.num * UnitValue[input.unit]

=============================================================================
