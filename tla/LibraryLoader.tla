---------------------------- MODULE LibraryLoader ----------------------------
(* Where libraries come from (LibraryLoader.c): wWinMain restricts the search *)
(* paths with the functions this Windows has, and AppCrypto.c then loads      *)
(* libraries by the path of the system directory, put together in a buffer    *)
(* of MAX_PATH + 1 characters on the stack.  A path is the kinds of its       *)
(* characters; the memory is the buffer and what lies behind it.              *)
EXTENDS Naturals, FiniteSets

CONSTANTS
    MAX_PATH,
    MaxNameLength  \* the longest file name asked for

ASSUME PathAssumption == MAX_PATH \in Nat \ {0} /\ MaxNameLength \in Nat

VARIABLES
    pc,         \* the next call
    offered,    \* the functions GetProcAddress finds in KERNEL32.dll
    policy,     \* the restrictions in force
    system,     \* the system directory: its length, and whether it is a root
    nameLen,    \* dllNameLen; a NULL name has none either
    sysDirLen,  \* as GetSystemDirectory returns it, then with the backslash
    memory      \* sysDir, and the addresses after it

vars == <<pc, offered, policy, system, nameLen, sysDirLen, memory>>

Restrictions == {"SetDllDirectory", "SetSearchPathMode", "SetDefaultDllDirectories"}
Addresses == 0 .. MAX_PATH + MaxNameLength + 2
Cells == {"garbage", "dir", "backslash", "name", "nul"}
Garbage == [a \in Addresses |-> "garbage"]
System == [length : 1 .. MAX_PATH + 1, root : BOOLEAN]

TypeOK ==
    /\ pc \in Restrictions \cup {"idle", "dir", "separator", "name", "load"}
    /\ offered \subseteq Restrictions /\ policy \subseteq offered
    /\ system \in System /\ nameLen \in 0 .. MaxNameLength
    /\ sysDirLen \in 0 .. MAX_PATH + 2
    /\ memory \in [Addresses -> Cells]

Init ==
    /\ pc = "SetDllDirectory" /\ offered \in SUBSET Restrictions /\ policy = {}
    /\ system \in System /\ nameLen = 0 /\ sysDirLen = 0 /\ memory = Garbage

-----------------------------------------------------------------------------
(* RestrictLibrarySearchPaths                                                *)

\* A function the system lacks is passed over; one that fails ends the rest.
\* wWinMain goes on in either case.
Restrict(f, next) ==
    /\ pc = f
    /\ IF f \in offered
       THEN \/ policy' = policy \cup {f} /\ pc' = next
            \/ UNCHANGED policy /\ pc' = "idle"
       ELSE UNCHANGED policy /\ pc' = next
    /\ UNCHANGED <<offered, system, nameLen, sysDirLen, memory>>

RestrictLibrarySearchPaths ==
    \/ Restrict("SetDllDirectory", "SetSearchPathMode")
    \/ Restrict("SetSearchPathMode", "SetDefaultDllDirectories")
    \/ Restrict("SetDefaultDllDirectories", "idle")

-----------------------------------------------------------------------------
(* LoadSystemLibrary                                                         *)

Goto(label) == pc' = label /\ UNCHANGED <<offered, policy, system>>

\* NULL and the empty name return at once.
LoadSystemLibrary ==
    /\ pc = "idle" /\ nameLen' \in 0 .. MaxNameLength
    /\ Goto(IF nameLen' = 0 THEN "idle" ELSE "dir")
    /\ memory' = Garbage /\ sysDirLen' = 0

\* Windows fills the buffer with the directory and its terminator when both
\* fit in size characters; else it returns the size it needs.
Directory(i) ==
    IF i = system.length THEN "nul"
    ELSE IF i = system.length - 1 /\ system.root THEN "backslash"
    ELSE "dir"

Fits(size) == system.length < size
Filled == [a \in Addresses |-> IF a <= system.length THEN Directory(a) ELSE memory[a]]

\* A result of 0 or more than MAX_PATH returns.
GetSystemDirectory ==
    /\ pc = "dir"
    /\ \/ /\ Fits(MAX_PATH) /\ sysDirLen' = system.length /\ memory' = Filled
          /\ Goto("separator")
       \/ UNCHANGED <<sysDirLen, memory>> /\ Goto("idle")
    /\ UNCHANGED nameLen

AppendBackslash ==
    /\ pc = "separator" /\ Goto("name")
    /\ IF memory[sysDirLen - 1] = "backslash" THEN UNCHANGED <<sysDirLen, memory>>
       ELSE /\ memory' = [memory EXCEPT ![sysDirLen] = "backslash"]
            /\ sysDirLen' = sysDirLen + 1
    /\ UNCHANGED nameLen

Copied ==
    [a \in Addresses |->
        IF a \in sysDirLen .. sysDirLen + nameLen - 1 THEN "name"
        ELSE IF a = sysDirLen + nameLen THEN "nul" ELSE memory[a]]

\* Mutant: the bound is off by one.
AppendName_OneMore ==
    /\ pc = "name"
    /\ IF sysDirLen + nameLen > MAX_PATH + 1 THEN Goto("idle") /\ UNCHANGED memory
       ELSE Goto("load") /\ memory' = Copied
    /\ UNCHANGED <<nameLen, sysDirLen>>

\* CopyMemory and the terminator, at pathLen.
AppendName ==
    /\ pc = "name"
    /\ IF sysDirLen + nameLen > MAX_PATH THEN Goto("idle") /\ UNCHANGED memory
       ELSE Goto("load") /\ memory' = Copied
    /\ UNCHANGED <<nameLen, sysDirLen>>

LoadLibraryEx ==
    /\ pc = "load" /\ Goto("idle") /\ UNCHANGED <<nameLen, sysDirLen, memory>>

Next ==
    \/ RestrictLibrarySearchPaths
    \/ LoadSystemLibrary \/ GetSystemDirectory \/ AppendBackslash
    \/ AppendName \/ LoadLibraryEx

Spec == Init /\ [][Next]_vars

-----------------------------------------------------------------------------
(* Properties                                                                *)

\* No directory and no name, however long, makes LoadSystemLibrary write behind
\* the MAX_PATH + 1 characters of sysDir.
NoOverrun == \A a \in Addresses : a > MAX_PATH => memory[a] = "garbage"

\* The string given to LoadLibraryEx is the system directory, one backslash and
\* the whole name: nothing of either is cut off, and no current directory or
\* search path takes part.
LoadsFromSystem ==
    pc = "load" =>
        LET dirLen == IF system.root THEN system.length - 1 ELSE system.length IN
        \A a \in 0 .. dirLen + 1 + nameLen :
            memory[a] = IF a < dirLen THEN "dir" ELSE IF a = dirLen THEN "backslash"
                        ELSE IF a <= dirLen + nameLen THEN "name" ELSE "nul"

\* The stronger restriction is never relied on where a weaker one the system
\* has could not be set: the three are tried from the oldest to the newest.
OldestFirst ==
    "SetDefaultDllDirectories" \in policy => policy = offered

\* LoadSystemLibrary stays in its buffer and builds the one path it means, and no
\* restriction is passed over for a newer one.
LoaderRight == TypeOK /\ NoOverrun /\ LoadsFromSystem /\ OldestFirst
=============================================================================
