------------------------------ MODULE TrimText ------------------------------
(* TrimWhiteSpace of UICommon.c, pointer by pointer.  It cuts a string in     *)
(* place: labels of the tree, notes, and the title and description of a file *)
(* pass through it.  The other modules take it as the function Trim.          *)
EXTENDS Integers

CONSTANTS
    Chars,   \* what a string can be made of
    Spaces,  \* the characters _istspace accepts
    Nul,     \* the terminator
    Capacity \* the last index of the block the string lies in

ASSUME TextAssumption ==
    Spaces \subseteq Chars /\ Nul \notin Chars /\ Capacity \in Nat

VARIABLES
    phase,
    given, \* the block at the call
    str,   \* the block now
    start, end, \* the two pointers, as indices
    count  \* the result, once there is one

trimVars == <<phase, given, str, start, end, count>>

Indices == 0 .. Capacity
Blocks == [Indices -> Chars \cup {Nul}]

\* _tcslen, for a string that is terminated inside its block.
EndsAt(s, n) == s[n] = Nul /\ \A i \in 0 .. n - 1 : s[i] # Nul
Terminated(s) == \E n \in Indices : EndsAt(s, n)
Length(s) == CHOOSE n \in Indices : EndsAt(s, n)

TrimTypeOK ==
    /\ phase \in {"begin", "forward", "backward", "cut", "done"}
    /\ given \in Blocks /\ str \in Blocks
    /\ start \in Indices /\ end \in Int /\ count \in Int

TrimInit ==
    /\ phase = "begin"
    /\ given \in {s \in Blocks : Terminated(s)} /\ str = given
    /\ start = 0 /\ end = 0 /\ count = 0

Continue(label) == phase' = label

-----------------------------------------------------------------------------
\* The empty string is returned as it is (and a NULL pointer as 0).
Begin ==
    /\ phase = "begin" /\ Continue(IF str[0] = Nul THEN "done" ELSE "forward")
    /\ UNCHANGED <<given, str, start, end, count>>

SkipLeading ==
    /\ phase = "forward" /\ str[start] \in Spaces
    /\ start' = start + 1 /\ UNCHANGED <<phase, given, str, end, count>>

AllSpaces ==
    /\ phase = "forward" /\ str[start] = Nul /\ Continue("done")
    /\ str' = [str EXCEPT ![0] = Nul] /\ UNCHANGED <<given, start, end, count>>

\* end = start + _tcslen(start)
FindEnd ==
    /\ phase = "forward" /\ str[start] \notin Spaces \cup {Nul} /\ Continue("backward")
    /\ end' = Length(str) /\ UNCHANGED <<given, str, start, count>>

\* while ((--end > start) && _istspace(*end));
SkipTrailing ==
    /\ phase = "backward" /\ end' = end - 1
    /\ Continue(IF end' > start /\ str[end'] \in Spaces THEN "backward" ELSE "cut")
    /\ UNCHANGED <<given, str, start, count>>

\* Mutant: the string moved to the front is not terminated.
Cut_NoTerminator ==
    /\ phase = "cut" /\ Continue("done") /\ end' = end + 1 /\ count' = end' - start
    /\ str' = [i \in Indices |->
                 IF i < count' THEN str[start + i]
                 ELSE IF start = 0 /\ i = count' THEN Nul ELSE str[i]]
    /\ UNCHANGED <<given, start>>

\* end++, memmove to the front and the new terminator.  Where the string does
\* not move, Nul over a Nul changes nothing.
Cut ==
    /\ phase = "cut" /\ Continue("done") /\ end' = end + 1 /\ count' = end' - start
    /\ str' = [i \in Indices |->
                 IF i < count' THEN str[start + i] ELSE IF i = count' THEN Nul ELSE str[i]]
    /\ UNCHANGED <<given, start>>

TrimNext == Begin \/ SkipLeading \/ AllSpaces \/ FindEnd \/ SkipTrailing \/ Cut

\* A function call runs to its return.
TrimSpec == TrimInit /\ [][TrimNext]_trimVars /\ WF_trimVars(TrimNext)

-----------------------------------------------------------------------------
(* Properties                                                                *)

\* Trimmed between a and b: the spaces end at a and begin again at b.
IsTrim(s, a, b) ==
    /\ \A i \in 0 .. a - 1 : s[i] \in Spaces
    /\ \A i \in b .. Length(s) - 1 : s[i] \in Spaces
    /\ (a < b => s[a] \notin Spaces /\ s[b - 1] \notin Spaces)

\* What is left is the given string without the spaces at its two ends, as a
\* terminated string, and the result is its length.
ReturnsTrimmed ==
    phase = "done" =>
        \E a, b \in 0 .. Length(given) :
            /\ a <= b /\ IsTrim(given, a, b) /\ count = b - a
            /\ str[count] = Nul
            /\ \A i \in 0 .. count - 1 : str[i] = given[a + i]

\* Every character the two loops look at lies within the string given, its
\* terminator included: neither pointer leaves it.
StaysInString ==
    /\ (phase = "forward" => start <= Length(given))
    /\ (phase \in {"backward", "cut"} => start <= end /\ end <= Length(given))

\* TrimWhiteSpace trims, and looks at nothing but the string given.
TrimRight == TrimTypeOK /\ ReturnsTrimmed /\ StaysInString

=============================================================================
