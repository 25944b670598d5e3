------------------------------ MODULE CpuList ------------------------------
(***************************************************************************)
(* ParseCpuList of config.cpp, the parser of "1-3,5,7-8" masks used by     *)
(* every CPU-set check, next to the grammar the spec gives for it.        *)
(*                                                                         *)
(* A list is the sequence of its comma-separated tokens after Trim.  A     *)
(* token is the sequence of its dash-separated segments; a segment is a    *)
(* decimal number, text that std::stoi rejects (Text), or nothing (Empty). *)
(* Whitespace is left out: Trim and std::stoi both skip it.               *)
(***************************************************************************)
EXTENDS Integers, Sequences

CONSTANTS
    Text,      \* a segment with no leading digits ("abc")
    Empty,     \* an empty segment ("" before or after a dash)
    Numbers    \* the CPU numbers a segment may spell

ASSUME CpuListAssumption ==
    /\ Numbers \subseteq Nat
    /\ \A n \in Numbers : n # Text /\ n # Empty
    /\ Text # Empty

\* The result of a std::stoi that threw.
Throws == Text

IsNum(seg) == seg \notin {Text, Empty}

\* std::stoi(token.substr(0, dash)): the segment before the first dash.
StoiHead(t) == IF IsNum(t[1]) THEN t[1] ELSE Throws

\* std::stoi(token.substr(dash + 1)): the rest after the first dash.  It
\* reads the number that starts it, stopping at the next dash; a rest that
\* starts with a dash is read as a sign, "1--5" giving -5.
StoiRest(t) ==
    IF IsNum(t[2]) THEN t[2]
    ELSE IF t[2] = Empty /\ Len(t) >= 3 /\ IsNum(t[3]) THEN -t[3]
    ELSE Throws

\* Mutant: the start > end swap is missing.
TokenSetNoSwap(t) ==
    IF Len(t) = 1
    THEN IF IsNum(t[1]) THEN {t[1]} ELSE {}
    ELSE IF StoiHead(t) = Throws \/ StoiRest(t) = Throws THEN {}
    ELSE StoiHead(t)..StoiRest(t)

\* The CPUs one token adds to the set: std::stoi of a dashless token, or the
\* range from the two ends (swapped when start > end); a token whose
\* std::stoi throws is skipped by the catch (...).
TokenSet(t) ==
    IF Len(t) = 1
    THEN IF IsNum(t[1]) THEN {t[1]} ELSE {}
    ELSE IF StoiHead(t) = Throws \/ StoiRest(t) = Throws THEN {}
    ELSE LET a == StoiHead(t)
             b == StoiRest(t)
         IN  IF a > b THEN b..a ELSE a..b

\* ParseCpuList: the union over the tokens.
ParseCpuList(list) == UNION {TokenSet(list[i]) : i \in DOMAIN list}

-----------------------------------------------------------------------------
(* The grammar of the spec (section 4.1): a token is N or N-M, M < N       *)
(* swapped; any other token is dropped.                                    *)

SpecToken(t) ==
    \/ Len(t) = 1 /\ IsNum(t[1])
    \/ Len(t) = 2 /\ IsNum(t[1]) /\ IsNum(t[2])

SpecTokenSet(t) ==
    IF ~SpecToken(t) THEN {}
    ELSE IF Len(t) = 1 THEN {t[1]}
    ELSE IF t[1] > t[2] THEN t[2]..t[1] ELSE t[1]..t[2]

SpecCpuList(list) == UNION {SpecTokenSet(list[i]) : i \in DOMAIN list}

-----------------------------------------------------------------------------
(* The inputs: lists of up to MaxTokens tokens of up to three segments.    *)

CONSTANT MaxTokens

Segments == Numbers \cup {Text, Empty}

Tokens == UNION {[1..n -> Segments] : n \in 1..3}

Lists == UNION {[1..n -> Tokens] : n \in 0..MaxTokens}

VARIABLE input

Init == input \in Lists

\* Parsing changes nothing: every input is a state of its own.
Next == UNCHANGED input

Spec == Init /\ [][Next]_input

-----------------------------------------------------------------------------
(* Properties.                                                             *)

TypeOK == input \in Lists

\* On every list whose tokens are all of the spec's two forms (or text the
\* spec drops), ParseCpuList returns exactly the CPUs the grammar names,
\* descending ranges included.
WellFormed(list) ==
    \A i \in DOMAIN list : SpecToken(list[i]) \/ list[i] = <<Text>> \/ list[i] = <<Empty>>

ParseAgreesOnWellFormed ==
    WellFormed(input) => ParseCpuList(input) = SpecCpuList(input)

=============================================================================
